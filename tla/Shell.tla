-------------------------------- MODULE Shell --------------------------------
(***************************************************************************)
(* The shell's path for a friendly command: friendly.rs translate turns    *)
(* the line into SQL text, and query.rs query_execute lexes it, parses the *)
(* statement and runs exec_delete, exec_update or exec_insert on the       *)
(* engine of Query.tla.                                                    *)
(*                                                                         *)
(* A record is modelled by one column of its table, ContentCol[t] (name in *)
(* ObjectTable, key in SystemTable), whose field is the record's content   *)
(* in Engine.  The other columns are not modelled: the lines checked name  *)
(* no other known column in a WHERE or SET clause, and an INSERT's values  *)
(* for them are dropped.  Raw SQL lines (translate returns None) and GRANT *)
(* and REVOKE, which translate never writes, are not modelled.             *)
(***************************************************************************)
EXTENDS Query, Friendly

CONSTANTS
  Lines,            \* friendly command lines the user types
  TableName,        \* TableName[t]: the name db_get_schema_by_name matches
  ContentCol,       \* ContentCol[t]: the modelled column of table t
  Columns,          \* Columns[t]: the columns of table t's schema
  MAX_WHERE_CONDS,  \* conditions parse_where reads at most
  MAX_INSERT_VALS,  \* columns and SET assignments read at most
  UNSET,            \* a field left as None
  NOLINE            \* `line` after a step that is not a shell command

ASSUME UNSET \in Data

S == INSTANCE Sql

VARIABLE line   \* the command line of the last step, or NOLINE

svars == <<vars, last, line>>

Tk(ts, i) == S!Tk(ts, i)

\* db_get_schema_by_name: the tables below TABLE_COUNT with that name.
TableOf(e, name) == {t \in TableIds : t < e.count /\ <<TableName[t]>> = name}

\* The contents a parsed WHERE clause accepts (record_matches).
CondSet(t, conds) == {d \in Data : S!record_matches(d, ContentCol[t], conds)}

\* exec_delete: FROM, the table, the WHERE clause, then the executor.
shell_delete(e, ts) ==
  LET T == TableOf(e, Tk(ts, 3).value)
  IN  IF Tk(ts, 2).type # "FROM" \/ Tk(ts, 3).type # "Ident" \/ T = {} THEN <<e, NOQUERY, FALSE>>
      ELSE LET t == CHOOSE x \in T : TRUE
               c == CondSet(t, S!parse_where(ts, 4))
               res == exec_delete(e, t, c)
           IN  <<res[1], [verb |-> "delete", table |-> t, cond |-> c, data |-> BootData, n |-> res[2]], FALSE>>

\* The SET loop of exec_update from position i: the assignments and the
\* position of the token it stopped at.
RECURSIVE SetList(_, _, _)
SetList(ts, i, acc) ==
  IF Tk(ts, i).type # "Ident" \/ Len(acc) >= MAX_INSERT_VALS THEN <<acc, i>>
  ELSE IF Tk(ts, i + 1).type # "Eq" THEN <<acc, i + 1>>
  ELSE IF Tk(ts, i + 2).type \notin {"StringLit", "Number"} THEN <<acc, i + 2>>
  ELSE LET a == Append(acc, [col |-> Tk(ts, i).value, value |-> S!TokValue(Tk(ts, i + 2))])
       IN  IF Tk(ts, i + 3).type = "Comma" THEN SetList(ts, i + 4, a) ELSE <<a, i + 3>>

\* The content the SET list gives the modelled column: the last assignment
\* to it wins; NONE when there is none (other columns are skipped).
SetContent(t, as) ==
  LET K == {k \in 1 .. Len(as) : as[k].col = <<ContentCol[t]>>}
  IN  IF K = {} THEN NONE ELSE as[Max(K)].value

\* exec_update: the table, SET, the assignments, the WHERE clause from the
\* token the SET loop stopped at, then the executor.
shell_update(e, ts) ==
  LET T == TableOf(e, Tk(ts, 2).value)
  IN  IF Tk(ts, 2).type # "Ident" \/ T = {} \/ Tk(ts, 3).type # "SET" THEN <<e, NOQUERY, FALSE>>
      ELSE LET t == CHOOSE x \in T : TRUE
               sl == SetList(ts, 4, <<>>)
               c == CondSet(t, S!parse_where(ts, sl[2]))
               d == SetContent(t, sl[1])
               res == exec_update(e, t, c, d)
           IN  <<res[1], [verb |-> "update", table |-> t, cond |-> c, data |-> d, n |-> res[2]], FALSE>>

\* The column list of exec_insert from position i: the names and the
\* position after the list.
RECURSIVE ColList(_, _, _)
ColList(ts, i, acc) ==
  IF Tk(ts, i).type # "Ident" \/ Len(acc) >= MAX_INSERT_VALS THEN <<acc, i>>
  ELSE IF Tk(ts, i + 1).type = "Comma" THEN ColList(ts, i + 2, Append(acc, Tk(ts, i).value))
  ELSE <<Append(acc, Tk(ts, i).value), i + 1>>

(***************************************************************************)
(* The VALUES loop of exec_insert from position i, at column k: an unknown *)
(* column fails the statement; a string or a number is stored (a number   *)
(* into a string column as its digits); any other token ends the loop.     *)
(* Returns whether it failed and the modelled field.                       *)
(***************************************************************************)
\* Mutation of ValList: every value is paired with the first column.
RECURSIVE ValList_first(_, _, _, _, _, _)
ValList_first(ts, i, t, cols, k, f) ==
  IF k >= Len(cols) \/ Tk(ts, i).type \in {"RParen", "Eof"} THEN [err |-> FALSE, field |-> f]
  ELSE IF cols[k + 1] \notin {<<c>> : c \in Columns[t]} THEN [err |-> TRUE, field |-> f]
  ELSE IF Tk(ts, i).type \notin {"StringLit", "Number"} THEN [err |-> FALSE, field |-> f]
  ELSE LET f2 == IF cols[1] = <<ContentCol[t]>> THEN S!Str(Tk(ts, i).value) ELSE f
       IN  IF Tk(ts, i + 1).type = "Comma" THEN ValList_first(ts, i + 2, t, cols, k + 1, f2)
           ELSE [err |-> FALSE, field |-> f2]

RECURSIVE ValList(_, _, _, _, _, _)
ValList(ts, i, t, cols, k, f) ==
  IF k >= Len(cols) \/ Tk(ts, i).type \in {"RParen", "Eof"} THEN [err |-> FALSE, field |-> f]
  ELSE IF cols[k + 1] \notin {<<c>> : c \in Columns[t]} THEN [err |-> TRUE, field |-> f]
  ELSE IF Tk(ts, i).type \notin {"StringLit", "Number"} THEN [err |-> FALSE, field |-> f]
  ELSE LET f2 == IF cols[k + 1] = <<ContentCol[t]>> THEN S!Str(Tk(ts, i).value) ELSE f
       IN  IF Tk(ts, i + 1).type = "Comma" THEN ValList(ts, i + 2, t, cols, k + 1, f2)
           ELSE [err |-> FALSE, field |-> f2]

\* exec_insert: INTO, the table, ( columns ) VALUES (, then a row id from
\* db_next_row_id, the values, and db_insert_record.  The third component
\* says whether a row id was taken.
shell_insert(e, ts) ==
  LET T == TableOf(e, Tk(ts, 3).value)
      cl == ColList(ts, 5, <<>>)
      p == cl[2]
  IN  IF \/ Tk(ts, 2).type # "INTO" \/ Tk(ts, 3).type # "Ident" \/ T = {}
         \/ Tk(ts, 4).type # "LParen" \/ Tk(ts, p).type # "RParen"
         \/ Tk(ts, p + 1).type # "VALUES" \/ Tk(ts, p + 2).type # "LParen"
      THEN <<e, NOQUERY, FALSE>>
      ELSE LET t == CHOOSE x \in T : TRUE
               e1 == [e EXCEPT !.row = @ + 1]
               v == ValList(ts, p + 3, t, cl[1], 0, UNSET)
           IN  IF v.err THEN <<e1, NOQUERY, TRUE>>
               ELSE <<db_insert_record(e1, t, e.row, v.field)[1], NOQUERY, TRUE>>

\* The column list exec_select skips from position i: the position after it.
RECURSIVE SkipCols(_, _)
SkipCols(ts, i) ==
  IF Tk(ts, i).type # "Ident" THEN i
  ELSE IF Tk(ts, i + 1).type = "Comma" THEN SkipCols(ts, i + 2) ELSE i + 1

\* Mutation of exec_select: the * is not consumed before FROM is expected.
exec_select_nostar(e, ts) ==
  LET i == IF Tk(ts, 2).type = "Star" THEN 2 ELSE SkipCols(ts, 2)
      T == TableOf(e, Tk(ts, i + 1).value)
  IN  IF Tk(ts, i).type # "FROM" \/ Tk(ts, i + 1).type # "Ident" \/ T = {} THEN NOQUERY
      ELSE LET t == CHOOSE x \in T : TRUE
               c == CondSet(t, S!parse_where(ts, i + 2))
           IN  IF ~Scannable(e, t) THEN NOQUERY
               ELSE [verb |-> "select", table |-> t, cond |-> c, data |-> BootData,
                     n |-> Len(ScanMatches(e, t, c)), rows |-> {x.row : x \in ToSet(ScanMatches(e, t, c))}]

\* exec_select: * or a column list (always all columns), FROM, the table,
\* the WHERE clause, then the scan with select_scan_callback.  The result
\* holds the row_ids of the records the callback adds; NOQUERY for an
\* error result, which has no rows.
exec_select(e, ts) ==
  LET i == IF Tk(ts, 2).type = "Star" THEN 3 ELSE SkipCols(ts, 2)
      T == TableOf(e, Tk(ts, i + 1).value)
  IN  IF Tk(ts, i).type # "FROM" \/ Tk(ts, i + 1).type # "Ident" \/ T = {} THEN NOQUERY
      ELSE LET t == CHOOSE x \in T : TRUE
               c == CondSet(t, S!parse_where(ts, i + 2))
           IN  IF ~Scannable(e, t) THEN NOQUERY
               ELSE [verb |-> "select", table |-> t, cond |-> c, data |-> BootData,
                     n |-> Len(ScanMatches(e, t, c)), rows |-> {x.row : x \in ToSet(ScanMatches(e, t, c))}]

\* query_execute: lex the statement and dispatch on the first token.  SHOW,
\* DESCRIBE and SELECT only read; anything else is a syntax error.
execute_tokens(e, ts) ==
      CASE Tk(ts, 1).type = "DELETE" -> shell_delete(e, ts)
        [] Tk(ts, 1).type = "UPDATE" -> shell_update(e, ts)
        [] Tk(ts, 1).type = "INSERT" -> shell_insert(e, ts)
        [] Tk(ts, 1).type = "SELECT" -> <<e, exec_select(e, ts), FALSE>>
        [] OTHER -> <<e, NOQUERY, FALSE>>

query_execute(e, sql) == execute_tokens(e, S!lex(sql))

-----------------------------------------------------------------------------
\* Each line's translation and its tokens, which depend on the line alone
\* (computed once: ShellCommand runs query_execute(Cur, SqlOf[l])).
SqlOf == [l \in Lines |-> translate(l)]
LexOf == [l \in Lines |-> S!lex(SqlOf[l])]

ShellInit == QInit /\ line = NOLINE

\* The shell reads a friendly line, translates it and executes the SQL.
ShellCommand == \E l \in Lines :
  LET res == execute_tokens(Cur, LexOf[l])
  IN  /\ SqlOf[l] # NOTSQL
      /\ res[3] => rowId <= MaxRowId
      /\ Become(res[1])
      /\ last' = res[2]
      /\ line' = l

ShellNext == (QueryNext /\ line' = NOLINE) \/ ShellCommand

ShellSpec == ShellInit /\ [][ShellNext]_svars

-----------------------------------------------------------------------------
(***************************************************************************)
(* Properties                                                              *)
(***************************************************************************)

\* The verb of a line and its tokens.
LineToks(l) == tokenize(Trim(l))
Verb(l) == LineToks(l)[1].text

\* Spec 4.9: the aliases, and the table a command names: its second
\* token through the aliases, or ObjectTable for rm <name>, create, open
\* and cat.
SpecAlias == [procs |-> "ProcessTable", caps |-> "CapabilityTable", objects |-> "ObjectTable",
              msgs |-> "MessageTable", audit |-> "AuditTable", config |-> "SystemTable",
              sys |-> "SystemTable"]
NamedTable(l) ==
  LET tok == LineToks(l)[2].text
  IN  IF \/ Verb(l) \in {<<"create">>, <<"open">>, <<"cat">>}
         \/ Verb(l) = <<"rm">> /\ Len(LineToks(l)) = 2 THEN "ObjectTable"
      ELSE IF Len(tok) = 1 /\ tok[1] \in DOMAIN SpecAlias THEN SpecAlias[tok[1]]
      ELSE IF Len(tok) = 1 THEN tok[1] ELSE "?"

\* The verb, named table and named values of each line, computed once.
VerbOf == [l \in Lines |-> Verb(l)]
TableOfLine == [l \in Lines |-> NamedTable(l)]

ReadOnlyVerbs == {<<v>> : v \in {"tables", "show", "list", "info", "count", "find", "open", "cat", "ps"}}

\* A friendly command does what its verb says (spec 4.9), and only to the
\* table it names: a read verb changes nothing; del and rm only remove rows;
\* add and create only add rows; set neither adds rows nor moves them; and
\* every table but the named one is left as it was.  This runs through
\* translate's alias lookup and statement building, the lexer, the
\* statement parsers and the executors.
ShellVerbEffect ==
  [][line' # NOLINE =>
       LET v == VerbOf[line']
       IN  /\ \A t \in TableIds : TableName[t] # TableOfLine[line'] => index'[t] = index[t]
           /\ v \in ReadOnlyVerbs => index' = index
           /\ v \in {<<"del">>, <<"rm">>} =>
                \A t \in TableIds : /\ Visible(Cur', t) \subseteq Visible(Cur, t)
                                    /\ \A r \in Visible(Cur', t) : ReadData(Cur', t, r) = ReadData(Cur, t, r)
           /\ v \in {<<"add">>, <<"create">>} =>
                \A t \in TableIds : /\ Visible(Cur, t) \subseteq Visible(Cur', t)
                                    /\ \A r \in Visible(Cur, t) : ReadData(Cur', t, r) = ReadData(Cur, t, r)
           /\ v = <<"set">> => \A t \in TableIds : Visible(Cur', t) \subseteq Visible(Cur, t)]_svars

\* The values a del or rm line names: the value of each col=val token, or
\* the name an rm of one argument deletes.
NamedValues(l) ==
  LET ts == LineToks(l)
  IN  IF Len(ts) = 2 THEN {ts[2].text}
      ELSE {ValOf(ts[k].text) : k \in {j \in 3 .. Len(ts) : EqAt(ts[j].text) # 0}}

\* Spec 4.9 (values are quoted with ' doubled) and scenario S4: a friendly
\* del or rm removes only rows whose modelled column holds one of the values
\* the line names; it never removes a row it was not asked to.
NamedFields == [l \in Lines |-> {S!Str(v) : v \in NamedValues(l)}]

FriendlyDeleteOnlyNamed ==
  [][line' # NOLINE /\ VerbOf[line'] \in {<<"del">>, <<"rm">>} =>
       \A t \in TableIds : \A r \in Visible(Cur, t) \ Visible(Cur', t) :
          ReadData(Cur, t, r) \in NamedFields[line']]_svars

\* The content a line of add or create gives table t: the value of each
\* col=val token for t's modelled column (UNSET if none), or create's name.
AddedFields(l, t) ==
  LET ts == LineToks(l)
      V == {ValOf(ts[k].text) : k \in {j \in 3 .. Len(ts) : EqAt(ts[j].text) # 0 /\ ColOf(ts[j].text) = <<ContentCol[t]>>}}
  IN  IF VerbOf[l] = <<"create">> THEN {S!Str(ts[3].text)}
      ELSE IF V = {} THEN {UNSET} ELSE {S!Str(v) : v \in V}

AddedFieldsOf == [x \in Lines \X TableIds |-> AddedFields(x[1], x[2])]

\* A row that add or create puts into a table holds, in its modelled column,
\* the value the line gave that column: translate's column and value lists,
\* the lexer's string literals and exec_insert's pairing of the k-th value
\* with the k-th column keep the user's value with its column.
AddStoresTyped ==
  [][line' # NOLINE /\ VerbOf[line'] \in {<<"add">>, <<"create">>} =>
       \A t \in TableIds : \A r \in Visible(Cur', t) \ Visible(Cur, t) :
          ReadData(Cur', t, r) \in AddedFieldsOf[<<line', t>>]]_svars

\* The line that previews a del or rm: find with the same table and
\* col=val tokens, or cat <name> for rm <name>.
Preview(l) ==
  IF VerbOf[l] = <<"rm">> /\ Len(LineToks(l)) = 2 THEN <<"cat">> \o Tail(Trim(l))
  ELSE <<"find">> \o Tail(Trim(l))

PreviewLexOf == [l \in {x \in Lines : VerbOf[x] \in {<<"del">>, <<"rm">>}} |-> S!lex(translate(Preview(l)))]

\* A user who previews a del or rm with the matching find or cat sees
\* exactly the rows it then removes: the SELECT that translate writes for
\* the preview, through exec_select's own parse and select_scan_callback,
\* shows the row ids that exec_delete's statement, parsed by its own path,
\* deletes from the same table, and no other table loses a row.
FindShowsWhatDelRemoves ==
  [][line' # NOLINE /\ VerbOf[line'] \in {<<"del">>, <<"rm">>} =>
       LET sel == exec_select(Cur, PreviewLexOf[line'])
       IN  \A t \in TableIds :
              Visible(Cur, t) \ Visible(Cur', t) = IF sel # NOQUERY /\ sel.table = t THEN sel.rows ELSE {}]_svars
=============================================================================
