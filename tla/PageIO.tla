------------------------------- MODULE PageIO -------------------------------
(***************************************************************************)
(* The page codec of kernel/src/storage/page_io.rs over the block          *)
(* allocator and block device of spec 4.4: page_write_node, page_read_node,*)
(* page_write_record with its failure paths, page_read_record and          *)
(* page_free_record_blocks.                                                *)
(*                                                                         *)
(* A block holds a page: its magic, its next_block and, in place of the    *)
(* payload bytes, which record or node it holds and which page of it it is.*)
(* A freed block keeps its bytes.  The allocator (disk_alloc.rs, not under *)
(* src/) is modelled from spec 4.4: a free set and a first-fit scan from a *)
(* rotating hint.  A disk write may fail with an IO error and then leaves  *)
(* the block as it was.                                                    *)
(*                                                                         *)
(* The persistence driver that calls the codec is not under src/ either:   *)
(* here it stores each record or node at most once, remembers where, and   *)
(* frees a stored record's chain, as spec 4.10 describes.                  *)
(***************************************************************************)
EXTENDS Naturals, Sequences, FiniteSets

CONSTANTS
  NBLOCKS,      \* blocks 1..NBLOCKS; block 0 is the superblock
  Records,      \* encrypted records the driver writes
  Nodes,        \* B-tree nodes the driver writes
  PagesOf(_),   \* pages a record's payload (64 + ciphertext_len) needs
  NOBODY        \* the owner of a block never written

ASSUME NBLOCKS \in Nat \ {0}
ASSUME \A r \in Records : PagesOf(r) \in Nat \ {0}

Blocks == 1 .. NBLOCKS
Page == [magic : {"ZERO", "RECD", "NODE"}, next : 0 .. NBLOCKS,
         owner : Records \cup Nodes \cup {NOBODY}, part : Nat]

VARIABLES
  disk,      \* the contents of every block
  free,      \* the free bitmap
  hint,      \* the allocator's rotating hint
  recAt,     \* first block of each stored record's chain, 0 if not stored
  nodeAt,    \* block of each stored node, 0 if not stored
  fault      \* a block was freed that was already free (spec 4.4: undefined)

vars == <<disk, free, hint, recAt, nodeAt, fault>>

\* The allocator and device as one record, so that a procedure that calls
\* them several times composes their effects in order.
Dev == [disk |-> disk, free |-> free, hint |-> hint, fault |-> fault]

SetDev(d) == /\ disk' = d.disk /\ free' = d.free /\ hint' = d.hint /\ fault' = d.fault

\* disk_alloc_block: first free block at or after the hint, wrapping; 0 if
\* the device is full.  The hint moves past the block handed out.
FirstFree(d) ==
  LET after == {b \in d.free : b >= d.hint}
      pick(S) == CHOOSE b \in S : \A c \in S : b <= c
  IN  IF after # {} THEN pick(after) ELSE IF d.free # {} THEN pick(d.free) ELSE 0

disk_alloc_block(d) ==
  LET b == FirstFree(d)
  IN  IF b = 0 THEN <<d, 0>>
      ELSE <<[d EXCEPT !.free = @ \ {b}, !.hint = IF b = NBLOCKS THEN 1 ELSE b + 1], b>>

\* disk_free_block: freeing a free block is undefined behaviour.
disk_free_block(d, b) == [d EXCEPT !.free = @ \cup {b}, !.fault = @ \/ b \in d.free]

\* disk_write_block, succeeding or not.
disk_write_block(d, b, pg, ok) == IF ok THEN [d EXCEPT !.disk[b] = pg] ELSE d

\* page_free_record_blocks(block): follow next_block while the page read
\* has the record magic, freeing every block visited, the last one too.
\* `fuel` bounds the walk of a cyclic stale chain, which the code would
\* walk for ever; its second lap is already a double free.
RECURSIVE FreeChain(_, _, _)
FreeChain(d, cur, fuel) ==
  IF cur = 0 \/ fuel = 0 THEN d
  ELSE LET next == IF d.disk[cur].magic = "RECD" THEN d.disk[cur].next ELSE 0
       IN  FreeChain(disk_free_block(d, cur), next, fuel - 1)

page_free_record_blocks(d, b) == FreeChain(d, b, NBLOCKS + 1)

\* The blocks page_read_record follows from b, in order (a cycle is cut).
RECURSIVE ChainFrom(_, _, _)
ChainFrom(d, cur, fuel) ==
  IF cur = 0 \/ fuel = 0 THEN <<>>
  ELSE <<cur>> \o ChainFrom(d, IF d.disk[cur].magic = "RECD" THEN d.disk[cur].next ELSE 0, fuel - 1)

\* page_read_record(block): the record whose pages it assembles, or NOBODY
\* when a page has the wrong magic or the pages are not one record's pages
\* 1..n in order (the header and ciphertext_len checks of the code).
page_read_record(d, b) ==
  LET ch == ChainFrom(d, b, NBLOCKS + 1)
      o == d.disk[b].owner
  IN  IF b = 0 \/ d.disk[b].magic # "RECD" \/ o \notin Records THEN NOBODY
      ELSE IF /\ Len(ch) = PagesOf(o)
              /\ \A i \in 1 .. Len(ch) : /\ d.disk[ch[i]].magic = "RECD"
                                         /\ d.disk[ch[i]].owner = o
                                         /\ d.disk[ch[i]].part = i
              /\ d.disk[ch[Len(ch)]].next = 0
           THEN o ELSE NOBODY

\* page_read_node(block): the node, or NOBODY on a bad magic.
page_read_node(d, b) == IF d.disk[b].magic = "NODE" THEN d.disk[b].owner ELSE NOBODY

\* A record page: page `part` of record o, linked to `next`.
RecPage(o, part, next) == [magic |-> "RECD", next |-> next, owner |-> o, part |-> part]

\* Mutation of WriteLoop: the previous page is written without being
\* linked to the new block.
RECURSIVE WriteLoop_nolink(_, _, _, _, _, _)
WriteLoop_nolink(d, o, i, fw, first, prev) ==
  IF i > PagesOf(o)
  THEN <<disk_write_block(d, prev, RecPage(o, PagesOf(o), 0), fw # PagesOf(o)),
         IF fw = PagesOf(o) THEN 0 ELSE first>>
  ELSE LET a == disk_alloc_block(d)
           b == a[2]
       IN  IF b = 0
           THEN <<IF first # 0 THEN page_free_record_blocks(a[1], first) ELSE a[1], 0>>
           ELSE IF i > 1 /\ fw = i - 1
           THEN <<disk_free_block(a[1], b), 0>>
           ELSE WriteLoop_nolink(IF i > 1 THEN disk_write_block(a[1], prev, RecPage(o, i - 1, 0), TRUE)
                                 ELSE a[1],
                                 o, i + 1, fw, IF first = 0 THEN b ELSE first, b)

(***************************************************************************)
(* The loop of page_write_record(enc) for record o, at page i, with `first`*)
(* and `prev` the blocks of the first and the previous page.  fw is the    *)
(* number of the disk write that fails (0: none); the write of page k is   *)
(* the k-th.  Returns the device and the first block, 0 on failure.        *)
(*  - allocation fails: the chain from `first` is freed as page_free_      *)
(*    record_blocks reads it back from the disk, where the previous page   *)
(*    has not been written yet;                                            *)
(*  - the write of the previous page fails: only the new block is freed;   *)
(*  - the write of the last page fails: nothing is freed.                  *)
(***************************************************************************)
RECURSIVE WriteLoop(_, _, _, _, _, _)
WriteLoop(d, o, i, fw, first, prev) ==
  IF i > PagesOf(o)
  THEN <<disk_write_block(d, prev, RecPage(o, PagesOf(o), 0), fw # PagesOf(o)),
         IF fw = PagesOf(o) THEN 0 ELSE first>>
  ELSE LET a == disk_alloc_block(d)
           b == a[2]
       IN  IF b = 0
           THEN <<IF first # 0 THEN page_free_record_blocks(a[1], first) ELSE a[1], 0>>
           ELSE IF i > 1 /\ fw = i - 1
           THEN <<disk_free_block(a[1], b), 0>>
           ELSE WriteLoop(IF i > 1 THEN disk_write_block(a[1], prev, RecPage(o, i - 1, b), TRUE)
                          ELSE a[1],
                          o, i + 1, fw, IF first = 0 THEN b ELSE first, b)

page_write_record(d, o, fw) == WriteLoop(d, o, 1, fw, 0, 0)

\* page_write_node(node): one block; freed again if the write fails.
page_write_node(d, n, ok) ==
  LET a == disk_alloc_block(d)
      b == a[2]
  IN  IF b = 0 THEN <<a[1], 0>>
      ELSE IF ~ok THEN <<disk_free_block(a[1], b), 0>>
      ELSE <<disk_write_block(a[1], b, [magic |-> "NODE", next |-> 0, owner |-> n, part |-> 0], TRUE), b>>

-----------------------------------------------------------------------------
Init ==
  /\ disk = [b \in Blocks |-> [magic |-> "ZERO", next |-> 0, owner |-> NOBODY, part |-> 0]]
  /\ free = Blocks
  /\ hint = 1
  /\ recAt = [r \in Records |-> 0]
  /\ nodeAt = [n \in Nodes |-> 0]
  /\ fault = FALSE

\* The driver writes a record not yet on disk; any one of its disk writes
\* may fail.
WriteRecord == \E r \in Records : \E fw \in 0 .. PagesOf(r) :
  /\ recAt[r] = 0
  /\ LET res == page_write_record(Dev, r, fw)
     IN  /\ SetDev(res[1])
         /\ recAt' = [recAt EXCEPT ![r] = res[2]]
  /\ UNCHANGED nodeAt

\* The driver frees a stored record's chain.
FreeRecord == \E r \in Records :
  /\ recAt[r] # 0
  /\ SetDev(page_free_record_blocks(Dev, recAt[r]))
  /\ recAt' = [recAt EXCEPT ![r] = 0]
  /\ UNCHANGED nodeAt

\* The driver writes a node not yet on disk; the write may fail.
WriteNode == \E n \in Nodes, ok \in BOOLEAN :
  /\ nodeAt[n] = 0
  /\ LET res == page_write_node(Dev, n, ok)
     IN  /\ SetDev(res[1])
         /\ nodeAt' = [nodeAt EXCEPT ![n] = res[2]]
  /\ UNCHANGED recAt

\* The driver frees the block of a node it has rewritten elsewhere.
FreeNode == \E n \in Nodes :
  /\ nodeAt[n] # 0
  /\ SetDev(disk_free_block(Dev, nodeAt[n]))
  /\ nodeAt' = [nodeAt EXCEPT ![n] = 0]
  /\ UNCHANGED recAt

Next == WriteRecord \/ FreeRecord \/ WriteNode \/ FreeNode

Spec == Init /\ [][Next]_vars

-----------------------------------------------------------------------------
\* page_write_record: a call that returns a block has allocated one free
\* block per page, and page_read_record from that block assembles exactly
\* that record, its pages linked in order by the back-patched next_block.
WriteReadBack ==
  [][\A r \in Records :
       recAt[r] = 0 /\ recAt'[r] # 0 =>
         /\ page_read_record(Dev', recAt'[r]) = r
         /\ Len(ChainFrom(Dev', recAt'[r], NBLOCKS + 1)) = PagesOf(r)
         /\ \A i \in 1 .. PagesOf(r) : ChainFrom(Dev', recAt'[r], NBLOCKS + 1)[i] \in free \ free']_vars

\* Stored data survives every later call: each record the driver has
\* stored still reads back as itself, each stored node still reads back,
\* and none of their blocks is free for the allocator to hand out again
\* (spec 4.4: callers must not free a block in use).
StoredDataIntact ==
  /\ \A r \in Records : recAt[r] # 0 =>
        /\ page_read_record(Dev, recAt[r]) = r
        /\ \A i \in 1 .. PagesOf(r) : ChainFrom(Dev, recAt[r], NBLOCKS + 1)[i] \notin free
  /\ \A n \in Nodes : nodeAt[n] # 0 =>
        page_read_node(Dev, nodeAt[n]) = n /\ nodeAt[n] \notin free
=============================================================================
