------------------------------- MODULE Query --------------------------------
(***************************************************************************)
(* The statement executors of kernel/src/db/query.rs that change data,     *)
(* over the engine of Engine.tla: exec_delete and exec_update scan the     *)
(* table in key order (btree_scan with select_scan_callback), keep the     *)
(* records that decrypt and satisfy the WHERE clause, and then call        *)
(* db_delete_record or db_update_encrypted once per kept record, with the  *)
(* row_id taken from the decrypted record.                                 *)
(*                                                                         *)
(* Parsing is abstracted: a WHERE clause is the set of record contents it  *)
(* accepts (record_matches), and a SET list the content it produces.       *)
(* `last` records the statement the step executed and the count its       *)
(* result message reports, so that properties can relate the state before *)
(* and after one statement.                                                *)
(***************************************************************************)
EXTENDS Engine, Sequences, SequencesExt

CONSTANTS
  Conds,      \* WHERE clauses, each the set of contents it accepts
  NOQUERY     \* `last` after a step that is not a DELETE or UPDATE

ASSUME Conds \subseteq SUBSET Data

VARIABLE last

qvars == <<vars, last>>

\* record_matches(rec, schema, conds): every condition holds of the record.
record_matches(rec, c) == rec.data \in c

\* The records btree_scan hands select_scan_callback in key order, each
\* decrypted; NONE where the slot is empty or db_decrypt_record fails.
Scanned(e, t) ==
  [i \in RowIds |-> IF e.index[t][i] = NULL THEN NONE
                    ELSE db_decrypt_record(e, t, e.index[t][i])]

\* The rows select_scan_callback adds to the result: a record that fails
\* verification or decryption is skipped silently.
ScanMatches(e, t, c) ==
  SelectSeq(Scanned(e, t), LAMBDA x : x # NONE /\ record_matches(x, c))

\* The checks every executor makes before scanning: the table's schema is
\* found by name (only ids below TABLE_COUNT) and it has an index.
Scannable(e, t) == t < e.count /\ e.index[t] # NONE

\* Mutation of exec_delete: the loop over the collected row ids stops one
\* short.
exec_delete_skiplast(e, t, c) ==
  IF ~Scannable(e, t) THEN <<e, 0>>
  ELSE LET m == ScanMatches(e, t, c)
           ids == SubSeq(m, 1, Len(m) - 1)
       IN  <<FoldLeft(LAMBDA s, x : db_delete_record(s, t, x.row)[1], e, ids), Len(m)>>

\* exec_delete: collect the matching records' row ids, then delete each,
\* ignoring db_delete_record's result; `deleted` counts the calls.
exec_delete(e, t, c) ==
  IF ~Scannable(e, t) THEN <<e, 0>>
  ELSE LET m == ScanMatches(e, t, c)
       IN  <<FoldLeft(LAMBDA s, x : db_delete_record(s, t, x.row)[1], e, m), Len(m)>>

\* Mutation of exec_update: the SET list is applied to a copy that is then
\* discarded, so each matching record is re-encrypted unchanged.
exec_update_unmodified(e, t, c, d) ==
  IF ~Scannable(e, t) THEN <<e, 0>>
  ELSE LET m == ScanMatches(e, t, c)
       IN  <<FoldLeft(LAMBDA s, x : db_update_encrypted(s, t, x.row, x.data)[1], e, m), Len(m)>>

\* exec_update: collect the matching records, then for each apply the SET
\* list and call db_update_encrypted at its row_id, ignoring the result;
\* `updated` counts the calls.  d is the content the SET list gives, or
\* NONE when it assigns no modelled column and the record is re-encrypted
\* as it was.
exec_update(e, t, c, d) ==
  IF ~Scannable(e, t) THEN <<e, 0>>
  ELSE LET m == ScanMatches(e, t, c)
       IN  <<FoldLeft(LAMBDA s, x : db_update_encrypted(s, t, x.row, IF d = NONE THEN x.data ELSE d)[1], e, m),
             Len(m)>>

-----------------------------------------------------------------------------
QInit == Init /\ last = NOQUERY

\* DELETE FROM t WHERE c
ExecDelete == \E t \in TableIds, c \in Conds :
  LET res == exec_delete(Cur, t, c)
  IN  /\ Become(res[1])
      /\ last' = [verb |-> "delete", table |-> t, cond |-> c, data |-> BootData, n |-> res[2]]

\* UPDATE t SET ... = d WHERE c
ExecUpdate == \E t \in TableIds, c \in Conds, d \in Data :
  LET res == exec_update(Cur, t, c, d)
  IN  /\ Become(res[1])
      /\ last' = [verb |-> "update", table |-> t, cond |-> c, data |-> d, n |-> res[2]]

\* Any other engine step: no DELETE or UPDATE result.
EngineStep(A) == A /\ last' = NOQUERY

\* Boot, then INSERTs, DELETEs, UPDATEs, new tables and tampering.
QueryNext ==
  \/ EngineStep(tableCount = 0 /\ SetMasterKey)
  \/ EngineStep(tableCount = 0 /\ InitSystemTables)
  \/ EngineStep(CreateTable)
  \/ EngineStep(InsertRecord)
  \/ EngineStep(TamperRecord)
  \/ ExecDelete
  \/ ExecUpdate

QuerySpec == QInit /\ [][QueryNext]_qvars

-----------------------------------------------------------------------------
(***************************************************************************)
(* Properties                                                              *)
(***************************************************************************)

\* The rows of table t a SELECT can see, and what each reads as.
Visible(e, t) == {r \in RowIds : db_get_record(e, t, r) # NONE}
ReadData(e, t, r) == db_get_record(e, t, r).data

\* The rows of t a statement with WHERE clause c acts on.
Matched(e, t, c) == {r \in Visible(e, t) : ReadData(e, t, r) \in c}

IsStep(verb) == last' # NOQUERY /\ last'.verb = verb

\* exec_delete: after DELETE FROM t WHERE c, exactly the rows of t that a
\* SELECT with the same WHERE clause showed are gone, every other row of t
\* is still readable, and "row(s) deleted" reports how many went.
DeleteRemovesMatches ==
  [][IsStep("delete") =>
       LET t == last'.table
           gone == Matched(Cur, t, last'.cond)
       IN  /\ Visible(Cur', t) = Visible(Cur, t) \ gone
           /\ last'.n = Cardinality(gone)]_qvars

\* exec_update: after UPDATE t SET ... WHERE c, every row of t that is still
\* readable reads the SET value if it matched c and is unchanged if it did
\* not, and no row that was unreadable (tampered) became readable.
UpdateRewritesMatches ==
  [][IsStep("update") =>
       LET t == last'.table
       IN  /\ Visible(Cur', t) \subseteq Visible(Cur, t)
           /\ \A r \in Visible(Cur', t) :
                ReadData(Cur', t, r) = IF r \in Matched(Cur, t, last'.cond) /\ last'.data # NONE
                                       THEN last'.data ELSE ReadData(Cur, t, r)]_qvars

\* exec_update (spec 6.3 and scenario S3): an UPDATE keeps every row of the
\* table, and "row(s) updated" reports the rows it rewrote.
UpdateKeepsRows ==
  [][IsStep("update") =>
       LET t == last'.table
       IN  /\ Visible(Cur', t) = Visible(Cur, t)
           /\ last'.n = Cardinality({r \in Matched(Cur, t, last'.cond) :
                                      ReadData(Cur', t, r) = last'.data})]_qvars
=============================================================================
