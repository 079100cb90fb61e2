------------------------------- MODULE BTree -------------------------------
(***************************************************************************)
(* The per-table index of kernel/src/db/btree.rs: an in-memory B-tree of   *)
(* order ORDER keyed by row id, with lazy (tombstone) deletion from        *)
(* internal nodes.                                                         *)
(*                                                                         *)
(* Nodes live in an arena: node[x] is the BtreeNode that Box::new returned *)
(* as the x-th allocation (ids 1, 2, ...; 0 is the null pointer).  Every   *)
(* array of a node keeps the code's fixed length and its 0-based indices,  *)
(* so slots past num_keys keep whatever an earlier shift or split left     *)
(* there, exactly as the Rust arrays do, and an index past the end of an   *)
(* array is a panic of the kernel (the action sets panicked).              *)
(*                                                                         *)
(* Not modelled: disk_lba, value_lbas, child_lbas and dirty, which only    *)
(* the persistence layer reads (see README), and btree_destroy.            *)
(***************************************************************************)
EXTENDS Integers, FiniteSets, Sequences, TLC

CONSTANTS
  ORDER,  \* BTREE_ORDER (64 in the code)
  Keys,   \* the row ids that can be inserted
  Vals,   \* value pointers (EncryptedRecord boxes)
  NULL,   \* the null value pointer
  RecordOf(_)  \* the EncryptedRecord box db_insert_record allocates for a row id

ASSUME ORDER \in Nat /\ ORDER >= 4
ASSUME Keys \subseteq Nat \ {0} /\ Keys # {}
ASSUME NULL \notin Vals
ASSUME \A k \in Keys : RecordOf(k) \in Vals

MaxKeys == ORDER - 1            \* BTREE_MAX_KEYS
Mid == MaxKeys \div 2           \* `mid` in btree_split_child
KeyIdx == 0 .. MaxKeys - 1      \* indices of keys[] and values[]
KidIdx == 0 .. ORDER - 1        \* indices of children[]
NoNode == 0                     \* the null child pointer

VARIABLES
  node,      \* node[x]: the BtreeNode with arena id x
  root,      \* Btree.root
  count,     \* Btree.count
  panicked   \* an index out of bounds has panicked the kernel

vars == <<node, root, count, panicked>>

NodeRec == [nkeys : 0 .. MaxKeys,
            keys  : [KeyIdx -> Keys \cup {0}],
            vals  : [KeyIdx -> Vals \cup {NULL}],
            kids  : [KidIdx -> Nat],
            leaf  : BOOLEAN]

\* BtreeNode::new: zeroed arrays, dirty.
NewNode(isLeaf) ==
  [nkeys |-> 0,
   keys  |-> [j \in KeyIdx |-> 0],
   vals  |-> [j \in KeyIdx |-> NULL],
   kids  |-> [j \in KidIdx |-> NoNode],
   leaf  |-> isLeaf]

\* The id the next Box::new returns.
Fresh(nd) == Cardinality(DOMAIN nd) + 1

Greatest(S) == CHOOSE m \in S : \A q \in S : q <= m
Least(S) == CHOOSE m \in S : \A q \in S : m <= q

\* Where `while i >= 0 && key < keys[i] { i -= 1 }` stops.
StopFromRight(N, key) ==
  LET S == {p \in 0 .. N.nkeys - 1 : ~(key < N.keys[p])}
  IN  IF S = {} THEN -1 ELSE Greatest(S)

\* Where `while i < num_keys && key > keys[i] { i += 1 }` stops.
StopFromLeft(N, key) ==
  LET S == {p \in 0 .. N.nkeys - 1 : ~(key > N.keys[p])}
  IN  IF S = {} THEN N.nkeys ELSE Least(S)

\* A copy loop `f[j] = f[j - 1]` run for j = hi down to lo + 1.
ShiftRight(f, lo, hi) == [j \in DOMAIN f |-> IF lo < j /\ j <= hi THEN f[j - 1] ELSE f[j]]

\* Mutation of UpperHalf: the copy starts at the median instead of after it.
UpperHalfFromMid(C) ==
  LET cnt == C.nkeys - Mid - 1
  IN  [NewNode(C.leaf) EXCEPT
         !.nkeys = cnt,
         !.keys = [j \in KeyIdx |-> IF j < cnt THEN C.keys[Mid + j] ELSE @[j]],
         !.vals = [j \in KeyIdx |-> IF j < cnt THEN C.vals[Mid + j] ELSE @[j]],
         !.kids = IF C.leaf THEN @
                  ELSE [j \in KidIdx |-> IF j <= cnt THEN C.kids[Mid + j] ELSE @[j]]]

\* The node btree_split_child allocates for the entries of the full child C
\* above the median (and, for an internal C, the children around them).
UpperHalf(C) ==
  LET cnt == C.nkeys - Mid - 1
  IN  [NewNode(C.leaf) EXCEPT
         !.nkeys = cnt,
         !.keys = [j \in KeyIdx |-> IF j < cnt THEN C.keys[Mid + 1 + j] ELSE @[j]],
         !.vals = [j \in KeyIdx |-> IF j < cnt THEN C.vals[Mid + 1 + j] ELSE @[j]],
         !.kids = IF C.leaf THEN @
                  ELSE [j \in KidIdx |-> IF j <= cnt THEN C.kids[Mid + 1 + j] ELSE @[j]]]

\* Mutation of WithMedian: the children loop stops one slot short.
WithMedianShortShift(P, C, index, nn) ==
  [P EXCEPT !.keys = [ShiftRight(@, index, P.nkeys) EXCEPT ![index] = C.keys[Mid]],
            !.vals = [ShiftRight(@, index, P.nkeys) EXCEPT ![index] = C.vals[Mid]],
            !.kids = [ShiftRight(@, index + 1, P.nkeys) EXCEPT ![index + 1] = nn],
            !.nkeys = @ + 1]

\* The parent P after btree_split_child shifted its entries right of index
\* and put the median of C at index and the new node nn at index + 1.
WithMedian(P, C, index, nn) ==
  [P EXCEPT !.keys = [ShiftRight(@, index, P.nkeys) EXCEPT ![index] = C.keys[Mid]],
            !.vals = [ShiftRight(@, index, P.nkeys) EXCEPT ![index] = C.vals[Mid]],
            !.kids = [ShiftRight(@, index + 1, P.nkeys + 1) EXCEPT ![index + 1] = nn],
            !.nkeys = @ + 1]

(***************************************************************************)
(* btree_split_child(parent, index): the full child children[index] keeps  *)
(* its lower Mid keys, a new node takes the upper half and the median      *)
(* moves into the parent.  The guard returns without splitting a full      *)
(* parent.                                                                 *)
(***************************************************************************)
btree_split_child(nd, p, index) ==
  LET c == nd[p].kids[index]
  IN  IF nd[p].nkeys >= MaxKeys THEN nd
      ELSE [nd EXCEPT ![p] = WithMedian(@, nd[c], index, Fresh(nd)),
                      ![c].nkeys = Mid]
           @@ (Fresh(nd) :> UpperHalf(nd[c]))

(***************************************************************************)
(* The leaf branch of btree_insert_nonfull: entries greater than key are   *)
(* shifted right one slot first; then either the duplicate at i is         *)
(* overwritten, or key goes into slot i + 1.  Writing slot MaxKeys is out  *)
(* of bounds.                                                              *)
(***************************************************************************)
LeafInsert(N, key, v) ==
  LET n   == N.nkeys
      i   == StopFromRight(N, key)
      dup == i >= 0 /\ N.keys[i] = key
      Sh(f) == ShiftRight(f, i + 1, n)
  IN  IF n = MaxKeys /\ (i < n - 1 \/ ~dup)
      THEN [panic |-> TRUE, node |-> N]
      ELSE IF dup
      THEN [panic |-> FALSE,
            node |-> [N EXCEPT !.keys = Sh(@), !.vals = [Sh(@) EXCEPT ![i] = v]]]
      ELSE [panic |-> FALSE,
            node |-> [N EXCEPT !.keys = [Sh(@) EXCEPT ![i + 1] = key],
                               !.vals = [Sh(@) EXCEPT ![i + 1] = v],
                               !.nkeys = @ + 1]]

(***************************************************************************)
(* btree_insert_nonfull(x, key, value): overwrite a duplicate found in an  *)
(* internal node, otherwise split the child to descend into if it is full  *)
(* (re-checking the key against the promoted median) and recurse.          *)
(* Returns the new arena and whether the call panicked.                    *)
(***************************************************************************)
RECURSIVE btree_insert_nonfull(_, _, _, _)
btree_insert_nonfull(nd, x, key, v) ==
  LET N == nd[x]
      i == StopFromRight(N, key)
  IN  IF N.leaf
      THEN LET r == LeafInsert(N, key, v)
           IN  [panic |-> r.panic, nd |-> [nd EXCEPT ![x] = r.node]]
      ELSE IF i >= 0 /\ N.keys[i] = key
      THEN [panic |-> FALSE, nd |-> [nd EXCEPT ![x].vals[i] = v]]
      ELSE IF nd[N.kids[i + 1]].nkeys = MaxKeys
      THEN LET s  == btree_split_child(nd, x, i + 1)
               c2 == IF key > s[x].keys[i + 1] THEN i + 2 ELSE i + 1
           IN  IF c2 \notin KeyIdx
               THEN [panic |-> TRUE, nd |-> s]
               ELSE IF key = s[x].keys[c2]
               THEN [panic |-> FALSE, nd |-> [s EXCEPT ![x].vals[c2] = v]]
               ELSE btree_insert_nonfull(s, s[x].kids[c2], key, v)
      ELSE btree_insert_nonfull(nd, N.kids[i + 1], key, v)

\* Commit the outcome of an insert: a panic halts the kernel.
Commit(res, newRoot) ==
  IF res.panic
  THEN /\ panicked' = TRUE
       /\ UNCHANGED <<node, root, count>>
  ELSE /\ node' = res.nd
       /\ root' = newRoot
       /\ count' = count + 1
       /\ UNCHANGED panicked

(***************************************************************************)
(* btree_insert(tree, key, value): a full root is first split under a new  *)
(* internal root; count is incremented whatever happened.                  *)
(***************************************************************************)
btree_insert(key, v) ==
  /\ ~panicked
  /\ IF node[root].nkeys = MaxKeys
     THEN LET nr  == Fresh(node)
              nd1 == node @@ (nr :> [NewNode(FALSE) EXCEPT !.kids[0] = root])
              s   == btree_split_child(nd1, nr, 0)
              i   == IF key > s[nr].keys[0] THEN 1 ELSE 0
          IN  Commit(IF key = s[nr].keys[0]
                     THEN [panic |-> FALSE, nd |-> [s EXCEPT ![nr].vals[0] = v]]
                     ELSE btree_insert_nonfull(s, s[nr].kids[i], key, v),
                     nr)
     ELSE Commit(btree_insert_nonfull(node, root, key, v), root)

\* Mutation of btree_search_node: the scan also steps over an equal key.
RECURSIVE btree_search_node_ge(_, _, _)
btree_search_node_ge(nd, x, key) ==
  IF x = NoNode THEN NULL
  ELSE LET N == nd[x]
           S == {p \in 0 .. N.nkeys - 1 : key < N.keys[p]}
           i == IF S = {} THEN N.nkeys ELSE Least(S)
       IN  IF i < N.nkeys /\ key = N.keys[i] THEN N.vals[i]
           ELSE IF N.leaf THEN NULL
           ELSE btree_search_node_ge(nd, N.kids[i], key)

\* btree_search_node: the first slot not below key decides; a tombstone
\* found in an internal node answers NULL.
RECURSIVE btree_search_node(_, _, _)
btree_search_node(nd, x, key) ==
  IF x = NoNode THEN NULL
  ELSE LET N == nd[x]
           i == StopFromLeft(N, key)
       IN  IF i < N.nkeys /\ key = N.keys[i] THEN N.vals[i]
           ELSE IF N.leaf THEN NULL
           ELSE btree_search_node(nd, N.kids[i], key)

btree_search(key) == btree_search_node(node, root, key)

(***************************************************************************)
(* The descent of btree_delete: a hit in a leaf shifts the later entries   *)
(* left; a hit in an internal node only nulls the value (tombstone).       *)
(***************************************************************************)
RECURSIVE DeleteFrom(_, _, _)
DeleteFrom(nd, x, key) ==
  IF x = NoNode THEN [found |-> FALSE, nd |-> nd]
  ELSE LET N == nd[x]
           i == StopFromLeft(N, key)
           Sh(f) == [j \in KeyIdx |-> IF i <= j /\ j < N.nkeys - 1 THEN f[j + 1] ELSE f[j]]
       IN  IF i < N.nkeys /\ key = N.keys[i]
           THEN IF N.leaf
                THEN [found |-> TRUE,
                      nd |-> [nd EXCEPT ![x] = [N EXCEPT !.keys = Sh(@), !.vals = Sh(@),
                                                         !.nkeys = @ - 1]]]
                ELSE [found |-> TRUE, nd |-> [nd EXCEPT ![x].vals[i] = NULL]]
           ELSE IF N.leaf THEN [found |-> FALSE, nd |-> nd]
           ELSE DeleteFrom(nd, N.kids[i], key)

\* Mutation of btree_delete: tree.count is not decremented.
btree_delete_nocount(key) ==
  LET r == DeleteFrom(node, root, key)
  IN  /\ ~panicked
      /\ node' = r.nd
      /\ UNCHANGED <<root, count, panicked>>

\* btree_delete(tree, key): count drops on every hit, tombstone or not.
btree_delete(key) ==
  LET r == DeleteFrom(node, root, key)
  IN  /\ ~panicked
      /\ node' = r.nd
      /\ count' = IF r.found THEN count - 1 ELSE count
      /\ UNCHANGED <<root, panicked>>

(***************************************************************************)
(* The in-order walk of btree_scan_node over every key slot in use,        *)
(* tombstones included: the key order the tree actually stores.            *)
(***************************************************************************)
RECURSIVE Walk(_, _)
Walk(nd, x) ==
  LET N == nd[x]
      Sub(j) == IF N.leaf THEN <<>> ELSE Walk(nd, N.kids[j])
      RECURSIVE From(_)
      From(j) == IF j = N.nkeys THEN Sub(j) ELSE Sub(j) \o <<N.keys[j]>> \o From(j + 1)
  IN  From(0)

\* The entries btree_scan_node reports from the subtree at x, as a set.
RECURSIVE Entries(_, _)
Entries(nd, x) ==
  LET N == nd[x]
  IN  {<<N.keys[j], N.vals[j]>> : j \in {j \in 0 .. N.nkeys - 1 : N.vals[j] # NULL}}
      \cup IF N.leaf THEN {} ELSE UNION {Entries(nd, N.kids[j]) : j \in 0 .. N.nkeys}

\* The map that a full scan of the tree reports.
ScanMap ==
  LET E == Entries(node, root)
  IN  [k \in Keys |-> LET H == {e \in E : e[1] = k}
                      IN  IF H = {} THEN NULL ELSE (CHOOSE e \in H : TRUE)[2]]

LiveKeys == {k \in Keys : ScanMap[k] # NULL}

\* btree_init
Init ==
  /\ node = (1 :> NewNode(TRUE))
  /\ root = 1
  /\ count = 0
  /\ panicked = FALSE

\* Every legal call of the B-tree API.
Next ==
  \E k \in Keys :
    \/ btree_delete(k)
    \/ \E v \in Vals : btree_insert(k, v)

\* The calls database.rs makes: db_insert_record inserts a fresh row id or
\* the id db_update_encrypted has just deleted, never a live one, and
\* db_delete_record calls btree_delete only after btree_search found it.
IndexNext ==
  \E k \in Keys :
    \/ btree_search(k) # NULL /\ btree_delete(k)
    \/ k \notin LiveKeys /\ btree_insert(k, RecordOf(k))

\* Inserts of ever larger row ids, as GLOBAL_ROW_ID hands them out.
AppendNext ==
  \E k \in Keys :
    /\ \A x \in DOMAIN node : \A j \in 0 .. node[x].nkeys - 1 : node[x].keys[j] < k
    /\ \E v \in Vals : btree_insert(k, v)

Spec == Init /\ [][Next]_vars
IndexSpec == Init /\ [][IndexNext]_vars
AppendSpec == Init /\ [][AppendNext]_vars

-----------------------------------------------------------------------------
(***************************************************************************)
(* Properties                                                              *)
(***************************************************************************)

\* Every node has the code's shape, and every child pointer an internal
\* node uses (children[0..num_keys]) points at an allocated node.
TypeOK ==
  /\ DOMAIN node = 1 .. Cardinality(DOMAIN node)
  /\ \A x \in DOMAIN node : node[x] \in NodeRec
  /\ root \in DOMAIN node
  /\ count \in Int
  /\ panicked \in BOOLEAN
  /\ \A x \in DOMAIN node :
       ~node[x].leaf => \A j \in 0 .. node[x].nkeys : node[x].kids[j] \in DOMAIN node \ {x}

\* Spec invariant 2 (and "keys within a node are strictly ascending"):
\* the in-order walk of every key slot in use, tombstones included, is
\* strictly ascending, whatever mix of splits, shifts and lazy deletes
\* btree_insert and btree_delete performed.
KeysStrictlyAscending ==
  LET w == Walk(node, root)
  IN  \A a, b \in DOMAIN w : a < b => w[a] < w[b]

\* btree_search finds every key that btree_scan reports, with the same
\* value, and finds nothing for a key the scan does not report (deleted
\* keys, tombstones included).
SearchAgreesWithScan == \A k \in Keys : btree_search(k) = ScanMap[k]

\* The kernel never panics on an index out of bounds inside btree_insert.
NoPanic == ~panicked

\* The index implements the map of spec 4.3: the scan contents follow Put
\* and Remove, and tree.count is the number of keys present.
KV == INSTANCE KVMap WITH map <- ScanMap, size <- count

RefinesKVMap == KV!Spec
=============================================================================
