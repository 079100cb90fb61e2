# TLA+ models of the VaultOS-RS kernel database

This directory holds TLA+ models of the encrypted in-kernel database of
`src/vaultos-rs/kernel` and the kernel parts around it. TLC checks them. Each module is
translated from the Rust source. `PROJECT.json` maps every definition to the lines it
models, and lists the runs, the mutants that show each property can fail, the findings
and the hazards.

## 1. The system

| Part | Source | State | Operations | Talks to |
|---|---|---|---|---|
| B-tree index | `db/btree.rs` | node graph (keys, values, children, `num_keys`, `is_leaf`), `root`, `count` | `btree_init`, `btree_insert` (with `btree_split_child`, `btree_insert_nonfull`), `btree_search`, `btree_delete` (lazy tombstones), `btree_scan`, `btree_destroy` | called by the engine |
| Engine | `db/database.rs` | schema registry, `INDEXES`, per-table AES/HMAC contexts, `TABLE_COUNT`, `GLOBAL_ROW_ID`, `MASTER_DB_KEY`, scratch buffers `SERDE_BUF`/`CRYPTO_BUF` | `db_init`, `db_create_table`, key derivation and re-derivation, `db_set_master_key`, `db_insert_record` (serialize, pad, encrypt, MAC, index), `db_get_record`/`db_decrypt_record` (verify, then decrypt), `db_delete_record`, `db_update_encrypted` (delete, then insert), boot metadata | B-tree; crypto, serializer and persistence (not in `src/`) |
| Query executor | `db/query.rs` | per-query `QueryResult`, `WhereClause` | lexer, `parse_where`, `exec_select`/`insert`/`delete`/`update`, `show tables`, `describe`, stubs for grant/revoke | engine |
| Page codec | `storage/page_io.rs` | disk blocks, free-block allocator (outside `src/`) | `page_write_node`, `page_read_node`, `page_write_record` (chained pages), `page_read_record`, `page_free_record_blocks` | allocator, block device |
| Friendly shell | `shell/friendly.rs` | none (pure translation) | `translate`: aliases, `build_where`, `build_insert`, `build_update`, `write_escaped` | produces SQL for the query executor |
| Process table | `proc/process.rs` | `PROCESS_TABLE` slots, `NEXT_PID` | `alloc_slot`, `process_create`, `process_create_user`, `process_exit`, lookups | scheduler, memory manager (not in `src/`) |
| IDT | `arch/x86_64/idt.rs` | descriptor table | set-up, ISR dispatch | CPU |
| GUI desktop | `gui/gui_desktop.rs` | `MENU_OPEN`, `GUI_RUNNING`, the `TERM_*` terminal statics, the `CALC_*` calculator statics, view states | `gui_main`'s event loop, `menu_hit_test`, `open_terminal`, `term_event`, `term_putchar`, the calculator's handlers, the views, drawing | window manager (not in the repository); engine via the shell |

The behaviours that make this code hard to test are these:
- **Sequences of index operations.** The B-tree splits on the way down, deletes lazily
  with tombstones, and counts on every insert.
- **Multi-step engine operations that can stop half way.** An update is a delete
  followed by an insert. An insert has early returns after the scratch buffers are
  filled.
- **Keys that can be stale.** A master key can be set without re-deriving the table
  keys.
- **Tampered records.** A query skips a record that fails its MAC.
- **Failures in the middle of chained page writes.** Blocks can leak, or a stale chain
  can be freed.
- **Numeric edges.** These are `u64` row-id parsing, `i64` calculator arithmetic and
  array bounds in the B-tree.

## 2. Modules and plan

The modules are listed in build order. The most important behaviour comes first.

1. **`KVMap`** (abstract). The map of spec section 4.3 that the index promises: at
   most one value per key, with `size` the number of keys present.
2. **`BTree`** (done). The index of `btree.rs`, shown to implement `KVMap`.
3. **`Engine`** (done). Tables, per-table keys derived from the master key, and
   sealed records, with the ciphertext and MAC as abstract functions of key, IV and
   plaintext. It uses the map abstraction of `BTree` for each table's index. Its
   properties are these:
   - a record written under a table's key reads back, and a tampered one does not;
   - a record never opens under another table's key;
   - a record returned for a row has that row's id (a violation run).
   No function under `src/` calls `db_set_master_key` or `db_rederive_table_keys`,
   so the stale-key order (a key change without re-derivation) is a hazard, not a
   property: `EngineSpec` changes the master key only before any table exists.
4. **`Query`** (done). Composes `Engine`. It checks that DELETE and UPDATE remove
   or update every matching row, with tampered rows and failing inserts.
5. **`PageIO`** (done). Chained record pages over an abstract allocator with
   failing writes. It checks that a stored record reads back and that no live block
   is freed. The leaks on write failure are plain in the code and listed as hazards.
6. **`Process`** (done). The process table's slot life cycle, and kernel-stack
   accounting on the failure paths of `process_create_user`.
7. **`Friendly`**, **`Sql`** and **`Shell`** (done). The translator, the query
   lexer and parsers, and their composition with the executors of `Query`: a
   friendly line does what its verb says to the table it names.
8. **`Calc`** (done). The GUI calculator: its statics, every button, the `i64`
   arithmetic at a scaled width, and the routing of keys and clicks.
9. **`Term`** and **`Desktop`** (done). The terminal's screen buffer and every branch
   of `term_putchar`, and the desktop loop of `gui_main` (taskbar, start menu,
   forwarding) over a window-manager environment.

## 3. The B-tree (`BTree.tla`)

**State.** Nodes live in an arena: `node[x]` is the `x`-th `BtreeNode` that
`BtreeNode::new` allocated, and 0 is the null pointer. A node keeps the code's
fixed-size 0-based arrays `keys`, `vals` and `kids`, of length `ORDER-1`, `ORDER-1` and
`ORDER`, with `nkeys` and `leaf`. The model therefore keeps exactly the stale entries
the code leaves past `num_keys`. The other variables are these:
- `root` and `count` are the fields of `Btree`.
- `panicked` records that an index past the end of an array panicked the kernel.

**Operations.**
- `btree_insert(key, v)` is one action. It covers the root split, the recursive
  `btree_insert_nonfull` with its splits of full children, the duplicate-overwrite
  paths and the unconditional `count += 1`.
- `btree_delete(key)` is one action. It covers the descent, the left shift in a leaf
  and the tombstone in an internal node.
- `btree_search_node` and the in-order `btree_scan_node` (`Walk`, `Entries`) are
  operators.

**Drivers.** There are three next-state relations:
- `Next` makes any API call.
- `IndexNext` makes the calls `database.rs` makes. It inserts a row id not present,
  with the record box `RecordOf(k)`. It deletes only after `btree_search` found the
  key, as `db_delete_record` does.
- `AppendNext` inserts increasing row ids only, as `db_next_row_id` hands them out.

**Refinement.** `ScanMap` is the key-to-value map a full scan reports. `KVMap` is
instantiated with `map <- ScanMap` and `size <- count`.

**Properties.**

| Property | Meaning |
|---|---|
| `TypeOK` | Every node has the code's shape, and every child slot in use points at an allocated node. |
| `KeysStrictlyAscending` | The in-order walk of all key slots in use, tombstones included, is strictly ascending (spec section 4.3 and the ordering guarantee of section 6). |
| `SearchAgreesWithScan` | `btree_search` answers exactly what a scan reports, for every key, including keys hidden behind a tombstone. |
| `RefinesKVMap` | Every insert and delete is a `Put` or a `Remove` of the abstract map, with `count` its size. |
| `NoPanic` | No array index is out of bounds. |

**Runs.**

| Run | Spec | Bounds | Result |
|---|---|---|---|
| `btree_index` | `IndexSpec` | `ORDER = 4`, row ids 1..6, two record boxes | passes, 6,290 states |
| `btree_append_panic` | `AppendSpec` | `ORDER = 4`, row ids 1..8 | `NoPanic` violated at the 8th increasing insert |

**Bounds.**
- `ORDER = 4` gives nodes of three keys with `Mid = 1`, so a split is reached after
  four keys.
- Six row ids are the fewest with which a full leaf under an internal root is split
  by `btree_insert_nonfull`, which is the path the panic lives on.
- Seven row ids give no deeper tree. Eight reach the panic, which is the finding of
  `btree_append_panic`, so `btree_index` stops at six.
- With `ORDER = 4` and fewer than eight distinct row ids, no internal node is ever
  split. The internal-node branch of `btree_split_child` is therefore exercised only
  by the append run, on the way to the panic.

**Findings.** Increasing row ids panic the kernel at `btree.rs:167`. With the real
`ORDER = 64` this happens at the 2,048th row of a table.

A duplicate insert into a leaf shifts the larger keys right before it checks for
the duplicate (`btree.rs:137-149`), which corrupts the leaf. No caller in `src/`
re-inserts a live row id, so no run drives that path. It is listed as a hazard.

**Not modelled.** The block-number mirrors (`disk_lba`, `value_lbas`, `child_lbas`)
and `dirty` are read only by the persistence driver, which is not in `src/`.
`btree_destroy` is not modelled either.

## 4. The engine (`Engine.tla`)

**State.** The variables are the statics of `database.rs`:
- `master` is `MASTER_DB_KEY`.
- `tableCount` is `TABLE_COUNT`.
- `index[t]` is `INDEXES[t]`, either `NONE` or the row-id-to-record map its tree
  implements, which `BTree` is shown to implement.
- `keys[t]` is the pair `TABLE_AES_KEYS[t]`/`TABLE_MAC_CTXS[t]`: `NONE`, or the context
  `[master, table]` that `derive_table_key` derives.
- `rowId` is `GLOBAL_ROW_ID`.
- `serdeBuf` and `cryptoBuf` are `CLEAN`, or the plaintext record left in `SERDE_BUF`
  or `CRYPTO_BUF`.
- `written` is a history variable. It holds the sealed record that the last
  successful insert or update wrote at each slot.

**Crypto.** Crypto is abstracted to what Encrypt-then-MAC promises. A `Sealed` record
carries:
- its `row_id` and `table_id` fields;
- the context it was sealed under;
- its plaintext;
- whether its bytes are still intact.

The MAC verifies exactly when the record is intact and sealed under the table's
current context. Then decryption returns the plaintext.

**Operations.** Each handler is an operator over the state record `Cur` that returns
the new state, and `Become` assigns it. This way a handler that calls others composes
their effects in the code's order:
- `db_update_encrypted` is `db_delete_record` followed by `db_insert_record`.
- `db_init_system_tables` is `register_table_schemas` followed by
  `db_insert_boot_metadata`.

`db_insert_record` keeps all of its early returns. A missing key context or index
returns after the plaintext is in both buffers.

Two hostile actions stand for an attacker with access to memory or disk:
- `TamperRecord` flips a bit.
- `RelocateRecord` copies one record page over another.

**Drivers.**
- `EngineNext` boots as `db_init` documents it. The master key is set while no table
  exists, and the system tables are registered at most once. After that it allows any
  mix of record operations, table creations, re-derivations and hostile actions.
- `ApiNext` allows every public call in any order, `db_set_table_count` included. Only
  the persistence layer outside `src/` calls that function, so no run checks `ApiSpec`.
  It is kept for the hazard below.

**Properties.**

| Property | Meaning |
|---|---|
| `TypeOK` | The state has the code's shape. |
| `ReadBack` | While a slot still holds what the last successful write sealed there, `db_get_record` returns exactly that row (spec section 8, invariants 3 and 4). |
| `OpensOnlyWhereSealed` | Whatever pages are swapped, `db_get_record(t, r)` only returns a record sealed for table `t`. This is the domain separation of `derive_table_key`. |
| `ScratchClean` | No call returns with plaintext in `SERDE_BUF` or `CRYPTO_BUF` (spec section 5). Defined but not checked: under `EngineSpec` every counted table has its contexts and index, so the early returns at 442, 450 and 469 cannot be taken and the property would only restate the zeroing at 474-475. |
| `RowMatchesKey` | A record returned for row `r` has `row_id = r` (spec section 8, invariant 1). |

**Runs.**

| Run | Spec | Bounds | Result |
|---|---|---|---|
| `engine_ops` | `EngineSpec` | 2 tables, 1 system table, 1 boot record, row ids 1..3, 2 data values and 1 oversized value, 2 master keys | passes, 194,368 states |
| `engine_row_replay` | `EngineSpec` | same | `RowMatchesKey` violated |

**Bounds.** Two tables are needed for a page to be moved across tables, which
`OpensOnlyWhereSealed` is about. Three row ids give every table a write, an overwrite
and a move. Two master keys give a key change. Three tables took nearly three minutes
and reached no new kind of state.

**Findings.**
- Plaintext residue (a hazard, at `database.rs:442`, `:450` and `:469`). Under
  `ApiSpec`, TLC breaks `ScratchClean` with `db_set_table_count(1)` followed by
  `db_init_system_tables`. SystemTable's schema then gets id 1. Table 0 is counted
  but has no key context, so the boot-metadata insert returns early and leaves the
  record in both buffers. Spec section 5 says scratch is zeroed on every exit path.
  No caller under `src/` makes that call order, so it is listed as a hazard and not
  as a run.
- Row replay. The MAC covers only IV || ciphertext, and `db_decrypt_record` never
  compares the decrypted `row_id` with the key the record was found under. A record
  page copied to another slot of its table therefore opens as that row.
  `exec_delete` and `exec_update` then act on the decrypted `row_id`.

**Not modelled.** The following are not modelled:
- `db_set_index`, `db_set_global_row_id` and `db_flush`, which only the persistence
  layer outside `src/` calls;
- the schema registry's column data;
- the leaked `EncryptedRecord` box on the last early return of `db_insert_record`.

## 5. Queries (`Query.tla`, `MCQuery.tla`)

`Query` extends `Engine` with `exec_delete` and `exec_update` of `query.rs`, the two
statements that scan a table and then change it row by row.

- **WHERE.** A condition is abstracted to the set of contents it accepts
  (`Conds`), and `record_matches` to membership. Parsing and the text of the
  statement are not modelled.
- **Scan.** `Scanned` decrypts every slot of the table as `db_get_record` does;
  `ScanMatches` keeps the readable rows that match, in slot order (the Vec the code
  builds before it changes anything).
- **Changes.** `exec_delete` folds `db_delete_record` over the matches and
  `exec_update` folds `db_update_encrypted`, each with the count the code prints.
  A failed step does not stop the loop, as in the code.
- **History.** `last` records the statement, its table, condition, value and count,
  so that the action properties can compare the engine state before and after.
- **Other steps.** Every `Engine` operation is a step of `QueryNext` too, so
  statements meet tables with tampered rows, with rows that have been updated
  already, and with full row-id space.

| Run | Properties | Result |
|---|---|---|
| `shell_ops` (section 8) | `DeleteRemovesMatches`, `UpdateRewritesMatches`, `FindShowsWhatDelRemoves` | pass |
| `query_update_lost_row` | `UpdateKeepsRows` | violation |

`DeleteRemovesMatches` says a DELETE removes exactly the rows that a SELECT with the
same WHERE clause shows, and reports how many. `UpdateRewritesMatches` says every row
still readable after an UPDATE holds the new value if it matched and its old value
otherwise. The violation run shows the finding at `query.rs:966`: `exec_update`
counts a row as updated when `db_update_encrypted` has deleted it and failed to insert
its replacement (an oversized value), so the row is gone and the count includes it.

**Bounds.** Two tables (one system table with one boot record), row ids up to 3,
two contents and one oversized value. That is enough for a table with two matching
rows and one that does not match, and for the insert failure; a row id bound of 4
takes more than two minutes.

## 6. The page codec (`PageIO.tla`, `MCPageIO.tla`)

`PageIO` models `storage/page_io.rs`. A block holds a page abstracted to its magic,
its `next_block` and which page of which record or node it is. A freed block keeps
its bytes, as on the device. The block allocator and device (`disk_alloc.rs`,
`disk` drivers) are not under `src/` and are modelled from spec 4.4: a free set,
first fit from a rotating hint, and a write that may fail. They are grouped in the
record `Dev`, so that a procedure that calls them several times composes them in
order.

- `WriteLoop` is the loop of `page_write_record`. It allocates a block per page and
  writes the previous page once the next block is known, back-patching
  `next_block`. It has the code's three failure paths: the allocation fails (the
  chain is freed from the first block by `page_free_record_blocks`); the write of a
  chained page fails (only the new block is freed); the write of the last page fails
  (nothing is freed). `fw` chooses which disk write fails, if any.
- `FreeChain` is `page_free_record_blocks`: it follows `next_block` while the magic
  is right, freeing every block. `ChainFrom` and `page_read_record` assemble a
  record and check that its pages are one record's pages in order.
- `page_write_node` and `page_read_node` store and read a node in one block.
- The persistence driver (not under `src/`, spec 4.10) is the four actions
  `WriteRecord`, `FreeRecord`, `WriteNode` and `FreeNode`. It stores each record or
  node at most once and remembers where.

| Run | Properties | Result |
|---|---|---|
| `pageio_ops` | `WriteReadBack` | pass, 76,830 states |
| `pageio_stale_chain` | `StoredDataIntact` | violation |

`WriteReadBack` says a `page_write_record` that returns a block took one free block
per page and linked them so that `page_read_record` gives back that record, whatever
the disk held before. `StoredDataIntact` says every stored record and node still
reads back and none of their blocks is free. The violation is the finding at
`page_io.rs:175`:
1. record `ra` (two pages) is stored and freed; its first block keeps a stale
   `next_block`;
2. a failed final write of `rb` leaks a block, and `rb` is stored again;
3. `ra` is written again, takes the stale block, and the device fills before its
   second page;
4. the clean-up reads the stale `next_block` of a page not yet written and frees
   `rb`'s live block.

**Bounds.** Three blocks, one two-page and one one-page record, and one node: small
enough for the device to fill in the middle of a chain, and for freed blocks to be
reused. Four blocks take two minutes and add no new path.

**Not modelled.** The node checksum, the byte layout of the header and ciphertext,
and `table_id` stored as `u8` (listed as a hazard).

## 7. Processes (`Process.tla`, `MCProcess.tla`)

`Process` models `proc/process.rs`: the fixed process table, `alloc_slot`,
`process_create`, `process_create_user` and `process_exit`. Kernel stacks, user
address spaces and physical pages are pools of model values (`Stacks`, `Spaces`,
`PAGES`), so an allocation fails exactly when its pool is empty. `heap` is the set of
stacks allocated, `spaces` and `mapped` the address spaces and their mapped pages.
`dealloc` sets `fault` when it frees a stack that is not allocated.

`process_create_user` has every exit of the code: no slot or stack; no address space
(the stack is freed); `pmm_alloc_page` fails (the space is destroyed with its pages,
the stack is not freed); success. `process_exit` finds the slot by pid among live
slots, frees its stack, destroys its space and marks the slot free. `Exit` takes any
pid up to `nextPid`, dead or never used ones included.

| Run | Properties | Result |
|---|---|---|
| `process_ops` | `TypeOK`, `PidsUnique`, `HeapSound`, `SpacesOwned` | pass, 497 states |

`PidsUnique` says no two live slots share a pid and every live pid was handed out.
`HeapSound` says no stack is freed twice, over any order of creates and exits.
`SpacesOwned` says every address space in use belongs to exactly one live user
process.

**Hazard with no run.** When physical pages run out, `process_create_user` returns
None and keeps the kernel stack (`process.rs:218`). A property `StacksOwned` (every
allocated stack belongs to a live slot) fails on `MCProcess` after two such calls.
The leak is plain in the code, like the page-codec leaks, so it is listed as a hazard
and no run keeps it.

**Bounds.** Two slots, three stacks, two spaces, three pages with two per user stack,
and pids up to 6: every pool can run out, and slots are reused. Symmetry over stacks
and spaces is sound because the code never compares them except for equality.

**Not modelled.** The scheduler, context switches and the register state of a
process; the names.

## 8. The friendly shell (`Text`, `Friendly`, `Sql`, `Shell`, `MCShell`)

A line the user types goes through `translate` (`friendly.rs`), which writes SQL
text. `query_execute` (`query.rs`) then lexes that text, parses the statement and
runs an executor. The properties are about how the two halves agree, so both are
modelled over text.

- **Text** (`Text.tla`). Text is a sequence of symbols. The symbols that quoting,
  numbers and token splitting depend on are single characters: space, `'`, `"`, `=`,
  `-`, the digits and the SQL punctuation. A word is one symbol. Case is not
  modelled, so `eq_ci` is equality with a one-word token.
- **`Friendly`**. `translate` is one IF chain in the order of the code, with its
  helpers translated one by one: `resolve_alias` over `ALIASES`, `tokenize` (quoted
  tokens, the 32-token bound), `build_where`, `build_insert` (at most 16 pairs),
  `build_update` (the first `where` splits SET from WHERE), `write_escaped`
  (`'` becomes `''`), `append_value` and `is_numeric`.
- **`Sql`**. `next_token` is a CASE with one arm per branch of the code.
  A string literal runs to the next `'` and has no escape. `-` is an `Error` token.
  `Sql` also has `check_keyword`, `parse_u64`, `parse_op`, `parse_where` (which stops
  silently at a value that is not a string or a number), `match_field` for `=` and
  `!=`, and `record_matches`.
- **`Shell`**. It extends `Query` and `Friendly`.
  - The parse halves of `exec_delete`, `exec_update` (the SET loop) and `exec_insert`
    (the column list, the row id taken, the value loop with its `Unknown column`
    error) are operators. Each feeds the executors of `Query`.
  - A record's content is its modelled column: `name` in ObjectTable, `key` in
    SystemTable.
  - `ShellCommand` reads one line from `Lines`, translates it, executes the SQL and
    records the line in `line`. It runs beside every step of `QueryNext`.
  - Each line's SQL and tokens depend only on the line, so they are computed once
    (`SqlOf`, `LexOf`).

| Run | Properties | Result |
|---|---|---|
| `shell_ops` | `DeleteRemovesMatches`, `UpdateRewritesMatches`, `ShellVerbEffect`, `AddStoresTyped`, `FindShowsWhatDelRemoves` | pass, 41,602 states, about 75 s |
| `shell_delete_unnamed` | `FriendlyDeleteOnlyNamed` | violation |

**Properties.**
- `ShellVerbEffect`: a command does what its verb says (spec section 4.9).
  - Read verbs change nothing.
  - `del` and `rm` only remove rows.
  - `add` and `create` only add rows.
  - `set` adds none.
  - Every table but the one the line names is left alone.
  - The named table is taken from the spec's alias table, not from the code's
    `ALIASES`. The mutant is a copy-paste slip in `ALIASES`.
- `AddStoresTyped`: a row that `add` or `create` adds holds the value the line gave
  its column. This checks that `exec_insert` pairs the k-th value with the k-th
  column. The mutant pairs every value with the first column.
- `FindShowsWhatDelRemoves`: `del` and `rm` print a preview first. The preview
  (`find` with the same arguments, or `cat` for `rm` with one name) goes through
  `exec_select`, and the property says the rows the delete then removes from a table
  are exactly the rows that preview shows of it. `exec_select` is modelled with its
  column list (`SkipCols`), its `FROM` check and its WHERE, and records the row ids
  it shows in `last`. The mutant drops the column-list branch, so a `SELECT name
  FROM ...` preview shows nothing.

**Finding.** `FriendlyDeleteOnlyNamed` says a `del` or `rm` removes only rows that
hold a value the line names. TLC breaks it with `del objects name=-1`:
1. `is_numeric` accepts the leading `-`, so `-1` is written bare.
2. The lexer reads `-` as an `Error` token.
3. `parse_where` stops with no condition.
4. `exec_delete` deletes every row of ObjectTable.

The same property fails for `del objects name=a'b`: `write_escaped` writes
`'a''b'`, which the lexer reads as the literal `a` followed by the literal `b`, so
the rows named `a` are deleted. It also fails for `del objects foo`, a token without
`=` that leaves an empty WHERE. The pass run keeps to lines without a quote or a
negative number in an `add`, because there the same mismatch stores a value other
than the one typed. That is the same finding.

**Bounds.** The tables are SystemTable and ObjectTable. The contents are `a`, an
oversized value and unset, with row ids up to 3. There are nine lines, covering:
- `del` with a plain value, a quote, a negative number and no value;
- `rm` by name;
- a `set` that grows the value past the buffer (the lost-row path of
  `exec_update`);
- `add` through the `sys` alias;
- `create`;
- `find`.

**Not modelled.**
- Raw SQL lines, for which `translate` returns `None`.
- GRANT and REVOKE, which `translate` never writes.
- The ordering operators of `match_field`, which `translate` never writes.
- The `MAX_STR_LEN` cut in the lexer and the `SQL_MAX` cut in `write_to`: both
  need lines hundreds of bytes long, and a symbol here stands for a word.
- `parse_u64`'s wrap at 2^64: the numbers checked are single digits.
- SHOW and DESCRIBE, which change no state.
- The `not_null` flag of a column. `exec_insert` never checks it, so an `add` that
  leaves out the modelled column stores an unset field. The lines of `MCShell`
  always give that column, and the hazard is listed without a property.

## 9. The GUI calculator (`Calc.tla`, `MCCalc.tla`)

`gui_desktop.rs` keeps the calculator in statics: `CALC_VALUE`, `CALC_OPERAND`,
`CALC_OP`, `CALC_NEW_INPUT`, `CALC_INPUT` with its length, and `CALC_DISPLAY`.
These are the variables of `Calc`, plus `panicked` (an arithmetic panic halts the
kernel) and `key`, the button the last step pressed.

- **Actions.** `calc_handle_button` has one operator per branch:
  - `DigitButton` appends up to `INPUT_MAX` digits;
  - `ClearButton` and `BackButton`;
  - `OpButton` runs the pending operation and records the new one;
  - `EqualsButton` runs the pending operation, writes `CALC_VALUE` over the display,
    and copies the first `COPY_MAX` display characters back into the input.
- **Events.** `KeyDown` maps keys as `calc_event` does: Enter to `=`, backspace to
  `<`, `c` to `C`, other keys to nothing. `MouseDown` finds the cell with the code's
  `i16` divisions, which truncate towards zero. `open_calculator` resets the statics
  at any time, as a second calculator window does.
- **Conversions.** `Fmt` is `write!("{}")`: decimal digits with a leading `-`.
  `calc_input_to_i64` folds the digits and negates on a leading `-`. Text is a
  sequence of one-character strings, and the error message is one symbol.
- **Arithmetic.** `+`, `-` and `*` that leave the `WIDTH`-bit range panic in a debug
  build and wrap in a release build. The repository fixes neither build, so both
  are outcomes of the step. Division truncates towards zero, and `MIN / -1` panics.

**Scaling.** `MCCalc` uses `WIDTH` 6 (values -32..31), `INPUT_MAX` 1 and `COPY_MAX` 2.
These keep the relations of the code's 64, 18 and 19:
- every typed number fits (`10^INPUT_MAX =< 2^(WIDTH-1)`, an `ASSUME`);
- a positive result copies back whole;
- a negative result with `COPY_MAX` digits loses its last one.

One consequence of scaling: `MIN / -1` needs about 10^18 key presses in the real
code, since an operand of `-1` only steps the value by one. At width 6 it is a few
presses, so a panic of division in a trace at this width is not a real trace.

| Run | Property | Result |
|---|---|---|
| `calc_div_zero` | `DivZeroReported` | violation |

**Finding.** `DivZeroReported` says a button that carries out a pending division by
zero leaves `Error: /0` on the display. The operator path keeps the message. The
`=` path does not: `calc_execute_pending` writes the message and returns, and the
`=` branch then formats `CALC_VALUE` over it (`gui_desktop.rs:957`). TLC's trace is
`/ =` on a fresh calculator, which shows `0`; `8 / 0 =` shows `8`. The run does not
check deadlock, because a panic halts the kernel and ends every behaviour.

**Hazards with no run.**
- The copy-back truncation. A property saying that after `=` the input reads back as
  `CALC_VALUE` fails on this model too. For example, `0 - 9 - 9 =` leaves `-18` on
  the display and `-1` in the input. In the real code this is any
  negative result of 19 digits.
- Overflow. Both build outcomes are in the model; no property is stated about them.

**Not modelled.** `calc_paint`, which only draws, and the `Close` event, which
destroys the window without touching the statics.

## 10. The desktop and the terminal (`Term.tla`, `Desktop.tla`, `MCDesktop.tla`)

`Term` models the terminal of `gui_desktop.rs` (1540-1758). `buf`, `cx`, `cy`, `cmd`
and `termWin` are `TERM_BUF`, `TERM_CX`, `TERM_CY`, `TERM_CMD`/`TERM_CMD_LEN` and
`TERM_WIN_ID`. `term_putchar` is an operator on the screen record
`[buf, cx, cy, oob]`, with one `CASE` arm per branch of the code: newline, carriage
return, backspace, tab (a fold of spaces to the next stop) and a printable character
(the defensive clamp `Clamp`, the write `WriteCell`, then the wrap). `term_print` and
`term_print_prompt` fold it over a text; the prompt writes its cells through the clamp
and does not wrap after the last one, as the code does. A write outside the grid is an
index panic in Rust and sets `oob`. `term_event`'s branches are `TermEnter` (echo a
newline; a non-empty command prints one of `Outputs`, and `clear` may clear the
screen; then the prompt), `TermBackspace` and `TermType`.

`Desktop` extends `Term` with `gui_main`'s loop (1398-1504). `menuOpen` and `running`
are `MENU_OPEN` and `GUI_RUNNING`. The window manager is outside the repository, so it
is an environment: `wins` maps ids to the application open there, `z` is the z-order,
`minimized` the minimised windows; creation may fail, and Close and minimise events
may come at any time. `MouseDown` splits at the top of the taskbar: `TaskbarClick`
toggles the menu or restores the window of the button hit; `MenuOrWindowClick` closes
the menu and runs the item `menu_hit_test` returns (with `i16` division truncating
towards zero), or forwards the click. `KeyDown` delivers a key to the focused window,
`CloseWindow` is `term_event`'s Close branch for the terminal and the other
applications' own. `Init` is the start of `gui_main` with `open_terminal`'s two
outcomes.

| Run | Properties | Result |
|---|---|---|
| `desktop_ops` | `TypeOK`, `TermWritesInBounds`, `TerminalTracked` | pass, 3603 states |

- `TermWritesInBounds`: no write to `TERM_BUF` is outside the grid. The prompt leaves
  `TERM_CX = TERM_COLS` when it ends on the last column, and only the clamp in
  `term_putchar` wraps before the next character; a clamp without that wrap breaks it.
- `TerminalTracked`: `TERM_WIN_ID` names the open terminal window, and is 0 when there
  is none. A Close that destroys the window but keeps the id breaks it.

**Bounds.** `COLS` 4, `ROWS` 2, a 2-character prompt, `CMD_MAX` 3, two window ids,
outputs of up to two characters including a newline and a tab. With four columns a
prompt and two typed characters fill a line, so wraps, scrolls at the last row and the
prompt ending on the last column all happen; two ids let an application take the id a
closed terminal had. The mouse positions hit the VaultOS button, the first and second
window buttons, an item, a separator, the menu's top margin (`i16` truncation), empty
space and the taskbar.

**Deadlock.** The run does not check deadlock: "Exit to Shell" clears `GUI_RUNNING`
and the loop ends, which is a real stop.

**Hazards with no run.**
- Backspace after the command wrapped to the next line shortens `TERM_CMD` but
  erases nothing on the screen (`term_putchar(0x08)` does nothing at column 0), so the
  echo no longer matches the command (`gui_desktop.rs:1745`). The model reaches it.
- A click on a separator or the margin of the open menu closes it and is then
  forwarded to the window under it (`gui_desktop.rs:1499`).

**Not modelled.** The drawing functions (`term_paint`, `draw_taskbar`, `draw_menu`),
colours beyond the prompt's, and `execute_command`'s text, which is one of `Outputs`.

## 11. IDT and the other GUI applications

These are not modelled.
- **`idt.rs`** fills the descriptor table and dispatches interrupts to handlers. It
  has no state beyond the table the CPU reads.
- **The views of `gui_desktop.rs`** (query console, table browser, object inspector,
  the managers, system status). They run their SQL through `query_execute`, the path
  the shell model covers, and draw the result; their own state is a scroll offset and
  a text field. In `Desktop` each is a window that may be opened and closed.

## 12. Fairness

Every run so far checks safety: invariants, and action properties through the
refinement. No liveness is claimed. The kernel database is single-threaded and driven
by shell commands, so nothing in the code forces any operation to happen.
The desktop loop handles the events a user causes, one at a time, and none of them is
forced to come, so the desktop run claims no liveness either.
