------------------------------- MODULE Engine -------------------------------
(***************************************************************************)
(* The database engine of kernel/src/db/database.rs: the table registry,   *)
(* per-table key contexts derived from the master key, the row-id counter, *)
(* the two scratch buffers, and the Encrypt-then-MAC insert, the           *)
(* verify-then-decrypt read, delete and update of records.                 *)
(*                                                                         *)
(* Each table's B-tree is abstracted to the map it implements (KVMap,      *)
(* checked against btree.rs in BTree): index[t][r] is the EncryptedRecord  *)
(* btree_search(t, r) returns, or NULL.                                    *)
(*                                                                         *)
(* Cryptography is abstract.  A key context is the pair (master key,       *)
(* table id) the HMAC derivation was given; distinct pairs give distinct   *)
(* keys.  An EncryptedRecord carries the context it was sealed under and   *)
(* the plaintext its ciphertext decrypts to; its MAC verifies under a      *)
(* context iff it is that context and no bit of it was altered (`intact`). *)
(* The AES and HMAC contexts of a table are derived together in            *)
(* derive_table_key and are one `keys` entry here.  IVs are not modelled:  *)
(* no property here depends on their freshness.                            *)
(*                                                                         *)
(* Serialization (record_serialize, not under src/) is modelled from spec  *)
(* 4.6: it fails, returning 0, for a record that does not fit the scratch  *)
(* buffer; Oversized is the set of contents that do not fit.               *)
(***************************************************************************)
EXTENDS Naturals, FiniteSets

CONSTANTS
  MAX_TABLES,     \* table slots (MAX_TABLES)
  SYS_TABLES,     \* tables register_table_schemas creates (6 in the code)
  BOOT_RECORDS,   \* records db_insert_boot_metadata inserts (3 in the code)
  MaxRowId,       \* bound on the row ids handed out
  Data,           \* record contents other than row_id and table_id
  Oversized,      \* contents whose serialization overflows SERDE_BUF
  BootData,       \* the contents of the boot metadata records
  MasterKeys,     \* values of MASTER_DB_KEY
  ZERO_KEY,       \* the all-zero master key db_init sets
  NONE,           \* an empty Option
  NULL,           \* the null record pointer
  CLEAN           \* a zeroed scratch buffer

ASSUME SYS_TABLES \in 1 .. MAX_TABLES /\ BOOT_RECORDS \in Nat
ASSUME Oversized \subseteq Data /\ BootData \in Data \ Oversized
ASSUME ZERO_KEY \in MasterKeys

TableIds == 0 .. MAX_TABLES - 1
RowIds == 1 .. MaxRowId
TABLE_ID_SYSTEM == 0

\* The plaintext record_serialize produces: row_id, table_id, fields.
Plain == [row : RowIds, table : TableIds, data : Data]
\* A key context: what HMAC-SHA256(master, domain || table_id) was keyed by.
Ctx == [master : MasterKeys, table : TableIds]
\* An EncryptedRecord: its row_id and table_id fields, the context its
\* ciphertext and MAC were computed under and the plaintext it decrypts to.
Sealed == [row : RowIds, table : TableIds, key : Ctx, plain : Plain, intact : BOOLEAN]

VARIABLES
  master,      \* MASTER_DB_KEY
  tableCount,  \* TABLE_COUNT
  index,       \* INDEXES, each tree abstracted to its map
  keys,        \* TABLE_AES_KEYS and TABLE_MAC_CTXS
  rowId,       \* GLOBAL_ROW_ID
  serdeBuf,    \* SERDE_BUF: CLEAN or the plaintext left in it
  cryptoBuf,   \* CRYPTO_BUF: CLEAN or the plaintext left in it
  written      \* history: the record the last successful call sealed at (t, r)

vars == <<master, tableCount, index, keys, rowId, serdeBuf, cryptoBuf, written>>

EmptyTree == [r \in RowIds |-> NULL]
NoWrites == [t \in TableIds |-> [r \in RowIds |-> NULL]]

\* The engine's state as one record, so that a handler that calls others
\* (db_update_encrypted, db_init_system_tables) composes their effects.
Cur == [master |-> master, count |-> tableCount, index |-> index, keys |-> keys,
        row |-> rowId, serde |-> serdeBuf, crypto |-> cryptoBuf, written |-> written]

Become(e) ==
  /\ master' = e.master
  /\ tableCount' = e.count
  /\ index' = e.index
  /\ keys' = e.keys
  /\ rowId' = e.row
  /\ serdeBuf' = e.serde
  /\ cryptoBuf' = e.crypto
  /\ written' = e.written

\* Mutation of derive_table_key: the domain omits the table id.
derive_table_key_nodomain(m, t) == [master |-> m, table |-> TABLE_ID_SYSTEM]

\* derive_table_key(t): the context HMAC domain separation gives table t.
derive_table_key(m, t) == [master |-> m, table |-> t]

(***************************************************************************)
(* db_decrypt_record(t, v): verify the MAC under the table's current MAC   *)
(* context, then decrypt under its AES context; NONE on any failure.       *)
(***************************************************************************)
db_decrypt_record(e, t, v) ==
  IF v = NULL \/ t >= e.count \/ e.keys[t] = NONE THEN NONE
  ELSE IF ~v.intact \/ v.key # e.keys[t] THEN NONE
  ELSE v.plain

\* db_get_record(t, r)
db_get_record(e, t, r) ==
  IF t >= e.count \/ e.index[t] = NONE THEN NONE
  ELSE db_decrypt_record(e, t, e.index[t][r])

\* Mutation of Seal: the MAC and ciphertext use SystemTable's contexts.
SealSystemKey(e, t, r, p) ==
  [row |-> r, table |-> t, key |-> e.keys[TABLE_ID_SYSTEM], plain |-> p, intact |-> TRUE]

\* The EncryptedRecord db_insert_record builds for plaintext p of (t, r).
Seal(e, t, r, p) == [row |-> r, table |-> t, key |-> e.keys[t], plain |-> p, intact |-> TRUE]

(***************************************************************************)
(* db_insert_record(t, rec) with rec.row_id = r: serialize into SERDE_BUF, *)
(* copy and pad into CRYPTO_BUF, seal under the table's contexts, insert   *)
(* into the tree, zero both buffers.  The early returns for a missing key  *)
(* context or index leave the plaintext in both buffers.  Returns the new  *)
(* state and whether the call returned VOS_OK.                             *)
(***************************************************************************)
db_insert_record(e, t, r, d) ==
  LET p == [row |-> r, table |-> t, data |-> d]
  IN  IF t >= e.count \/ d \in Oversized THEN <<e, FALSE>>
      ELSE IF e.keys[t] = NONE \/ e.index[t] = NONE
      THEN <<[e EXCEPT !.serde = p, !.crypto = p], FALSE>>
      ELSE <<[e EXCEPT !.index[t][r] = Seal(e, t, r, p), !.serde = CLEAN, !.crypto = CLEAN,
                       !.written[t][r] = Seal(e, t, r, p)], TRUE>>

\* db_next_row_id followed by db_insert_record, as every caller does it.
InsertNew(e, t, d) == db_insert_record([e EXCEPT !.row = @ + 1], t, e.row, d)

\* db_delete_record(t, r): search, then btree_delete and free.
db_delete_record(e, t, r) ==
  IF t >= e.count \/ e.index[t] = NONE \/ e.index[t][r] = NULL THEN <<e, FALSE>>
  ELSE <<[e EXCEPT !.index[t][r] = NULL, !.written[t][r] = NULL], TRUE>>

\* db_update_encrypted(t, r, rec): delete, then insert at the same row id.
db_update_encrypted(e, t, r, d) ==
  LET del == db_delete_record(e, t, r)
  IN  IF t >= e.count \/ ~del[2] THEN <<e, FALSE>>
      ELSE db_insert_record(del[1], t, r, d)

\* Mutation of db_create_table_impl: no ERR_FULL check.
db_create_table_impl_noguard(e) ==
  [e EXCEPT !.index[e.count] = EmptyTree,
            !.keys[e.count] = derive_table_key(e.master, e.count),
            !.count = @ + 1]

\* db_create_table_impl: ERR_FULL at MAX_TABLES; otherwise the table gets
\* id TABLE_COUNT, an empty tree and contexts derived from the master key.
db_create_table_impl(e) ==
  IF e.count >= MAX_TABLES THEN e
  ELSE [e EXCEPT !.index[e.count] = EmptyTree,
                 !.keys[e.count] = derive_table_key(e.master, e.count),
                 !.count = @ + 1]

\* register_table_schemas: db_create_table_impl for each of the system
\* tables in turn, whatever the earlier calls returned.
RECURSIVE register_table_schemas(_, _)
register_table_schemas(e, k) ==
  IF k = 0 THEN e ELSE register_table_schemas(db_create_table_impl(e), k - 1)

\* db_insert_boot_metadata: BOOT_RECORDS inserts into SystemTable, each
\* with a fresh row id; their results are ignored.
RECURSIVE db_insert_boot_metadata(_, _)
db_insert_boot_metadata(e, k) ==
  IF k = 0 THEN e ELSE db_insert_boot_metadata(InsertNew(e, TABLE_ID_SYSTEM, BootData)[1], k - 1)

-----------------------------------------------------------------------------
(***************************************************************************)
(* Actions                                                                 *)
(***************************************************************************)

\* db_init: everything zeroed, no tables, row ids from 1.
Init ==
  /\ master = ZERO_KEY
  /\ tableCount = 0
  /\ index = [t \in TableIds |-> NONE]
  /\ keys = [t \in TableIds |-> NONE]
  /\ rowId = 1
  /\ serdeBuf = CLEAN
  /\ cryptoBuf = CLEAN
  /\ written = NoWrites

\* db_set_master_key and db_generate_master_key: the table contexts are
\* left as they are.
SetMasterKey == \E m \in MasterKeys : Become([Cur EXCEPT !.master = m])

\* db_rederive_table_keys: derive_table_key for every counted table.
RederiveTableKeys ==
  Become([Cur EXCEPT !.keys = [t \in TableIds |-> IF t < tableCount
                                                  THEN derive_table_key(master, t) ELSE @[t]]])

\* db_set_table_count(n), which the persistence layer calls on restore.
SetTableCount == \E n \in 0 .. MAX_TABLES : Become([Cur EXCEPT !.count = n])

\* db_init_system_tables (cold boot) and db_register_system_tables (warm).
InitSystemTables ==
  /\ rowId + BOOT_RECORDS <= MaxRowId + 1
  /\ Become(db_insert_boot_metadata(register_table_schemas(Cur, SYS_TABLES), BOOT_RECORDS))

RegisterSystemTables == Become(register_table_schemas(Cur, SYS_TABLES))

\* db_create_table(schema)
CreateTable == Become(db_create_table_impl(Cur))

\* exec_insert: a fresh row id, then db_insert_record.
InsertRecord == \E t \in TableIds, d \in Data :
  /\ rowId <= MaxRowId
  /\ Become(InsertNew(Cur, t, d)[1])

DeleteRecord == \E t \in TableIds, r \in RowIds : Become(db_delete_record(Cur, t, r)[1])

UpdateRecord == \E t \in TableIds, r \in RowIds, d \in Data :
  Become(db_update_encrypted(Cur, t, r, d)[1])

\* A hostile change of one bit of a stored record (memory or disk): its
\* MAC no longer verifies under any context.
TamperRecord == \E t \in TableIds, r \in RowIds :
  /\ index[t] # NONE /\ index[t][r] # NULL
  /\ index' = [index EXCEPT ![t][r].intact = FALSE]
  /\ UNCHANGED <<master, tableCount, keys, rowId, serdeBuf, cryptoBuf, written>>

\* A hostile copy of one stored record over another (a swapped or replayed
\* record page): the copy keeps its own row_id, table_id, IV and MAC.
RelocateRecord == \E t, t2 \in TableIds, r, r2 \in RowIds :
  /\ <<t, r>> # <<t2, r2>>
  /\ index[t] # NONE /\ index[t2] # NONE
  /\ index[t][r] # NULL /\ index[t2][r2] # NULL
  /\ index' = [index EXCEPT ![t2][r2] = index[t][r]]
  /\ UNCHANGED <<master, tableCount, keys, rowId, serdeBuf, cryptoBuf, written>>

\* Boot as db_init's contract says (the master key is set before any table
\* exists, the system tables are registered once), then any mix of record
\* operations, key re-derivations, table creations and hostile changes.
EngineNext ==
  \/ tableCount = 0 /\ SetMasterKey
  \/ tableCount = 0 /\ InitSystemTables
  \/ tableCount = 0 /\ RegisterSystemTables
  \/ RederiveTableKeys
  \/ CreateTable
  \/ InsertRecord
  \/ DeleteRecord
  \/ UpdateRecord
  \/ TamperRecord
  \/ RelocateRecord

\* Every public call of database.rs in any order.
ApiNext ==
  \/ SetMasterKey \/ SetTableCount \/ RederiveTableKeys
  \/ InitSystemTables \/ RegisterSystemTables \/ CreateTable
  \/ InsertRecord \/ DeleteRecord \/ UpdateRecord

EngineSpec == Init /\ [][EngineNext]_vars
ApiSpec == Init /\ [][ApiNext]_vars

-----------------------------------------------------------------------------
(***************************************************************************)
(* Properties                                                              *)
(***************************************************************************)

TypeOK ==
  /\ master \in MasterKeys
  /\ tableCount \in 0 .. MAX_TABLES
  /\ index \in [TableIds -> {NONE} \cup [RowIds -> Sealed \cup {NULL}]]
  /\ keys \in [TableIds -> {NONE} \cup Ctx]
  /\ rowId \in 1 .. MaxRowId + 1
  /\ serdeBuf \in {CLEAN} \cup Plain
  /\ cryptoBuf \in {CLEAN} \cup Plain
  /\ written \in [TableIds -> [RowIds -> Sealed \cup {NULL}]]

\* Read your writes (spec 8, invariants 3 and 4): while a slot still holds
\* the record the last successful db_insert_record or db_update_encrypted
\* sealed there, db_get_record returns exactly the row that call wrote,
\* across later inserts, updates and deletes of other rows, key
\* re-derivations, table creations and hostile changes to other slots.
ReadBack ==
  \A t \in TableIds, r \in RowIds :
    written[t][r] # NULL /\ index[t] # NONE /\ index[t][r] = written[t][r]
      => db_get_record(Cur, t, r) = [row |-> r, table |-> t, data |-> written[t][r].plain.data]

\* Domain separation of derive_table_key: whatever record pages are swapped
\* or replayed, db_get_record(t, r) only ever returns a record that was
\* sealed for table t.
OpensOnlyWhereSealed ==
  \A t \in TableIds, r \in RowIds :
    db_get_record(Cur, t, r) # NONE => db_get_record(Cur, t, r).table = t

\* Spec 5: plaintext scratch is zeroed on every exit path, so no call of
\* the engine returns with plaintext left in SERDE_BUF or CRYPTO_BUF.  Under
\* EngineSpec the early returns of db_insert_record are unreachable, so no
\* run checks it; ApiSpec breaks it through db_set_table_count.
ScratchClean == serdeBuf = CLEAN /\ cryptoBuf = CLEAN

\* Spec 8, invariant 1: a record db_get_record(t, r) returns has row_id r.
RowMatchesKey ==
  \A t \in TableIds, r \in RowIds :
    db_get_record(Cur, t, r) # NONE => db_get_record(Cur, t, r).row = r
=============================================================================
