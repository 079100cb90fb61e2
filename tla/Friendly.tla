------------------------------ MODULE Friendly -------------------------------
(***************************************************************************)
(* The friendly command translator of kernel/src/shell/friendly.rs:        *)
(* translate turns one line of the alias language into SQL text, or        *)
(* answers "not my syntax".                                                *)
(*                                                                         *)
(* Text is a sequence of symbols.  Quoting, escaping, numbers and the      *)
(* splitting of tokens at spaces and '=' are what the properties are      *)
(* about, so the symbols that take part in them (space, the two quotes,    *)
(* '=', '-', the digits and the SQL punctuation) are single characters.    *)
(* A word (a verb, an alias, a table or column name, a SQL keyword, a     *)
(* run of letters in a value) is one symbol; case is not modelled, so      *)
(* eq_ci is equality with a one-word token.  write_to appends; the         *)
(* SQL_MAX truncation of the 512-byte buffer is not modelled (the lines    *)
(* checked are far shorter).                                               *)
(***************************************************************************)
EXTENDS Text

CONSTANT NOTSQL   \* translate's None: not friendly syntax, run as raw SQL

\* The tokenizer's bound on the tokens of one line.
MAX_TOKENS == 32

\* A copy-paste slip in the alias table: objects resolves to SystemTable.
ALIASES_typo == << <<"procs", "ProcessTable">>, <<"caps", "CapabilityTable">>,
                   <<"objects", "SystemTable">>, <<"msgs", "MessageTable">>,
                   <<"audit", "AuditTable">>, <<"config", "SystemTable">>,
                   <<"sys", "SystemTable">> >>

\* ALIASES, in the order resolve_alias tries them.
ALIASES == << <<"procs", "ProcessTable">>, <<"caps", "CapabilityTable">>,
              <<"objects", "ObjectTable">>, <<"msgs", "MessageTable">>,
              <<"audit", "AuditTable">>, <<"config", "SystemTable">>,
              <<"sys", "SystemTable">> >>

\* eq_ci(tok, w) for a token and a one-word literal.
Is(tok, w) == tok = <<w>>

resolve_alias(name) ==
  LET i == SelectInSeq(ALIASES, LAMBDA a : Is(name, a[1]))
  IN  IF i = 0 THEN name ELSE <<ALIASES[i][2]>>

\* str::trim, for a line whose only whitespace is the space.
Trim(s) ==
  LET I == {i \in 1 .. Len(s) : s[i] # SP}
  IN  IF I = {} THEN <<>> ELSE SubSeq(s, Min(I), Max(I))

\* Where the token starting at i ends (one past its last symbol): a token
\* opening with a quote runs to the matching quote, or to the end of the
\* line; any other token runs to the next space.
TokEnd(s, i) ==
  IF s[i] \in {QUOTE, DQUOTE}
  THEN LET j == SelectInSubSeq(s, i + 1, Len(s), LAMBDA c : c = s[i])
       IN  IF j = 0 THEN Len(s) + 1 ELSE j + 1
  ELSE LET j == SelectInSubSeq(s, i, Len(s), LAMBDA c : c = SP)
       IN  IF j = 0 THEN Len(s) + 1 ELSE j

\* tokenize: the tokens of s with their start positions.
RECURSIVE Tokens(_, _, _)
Tokens(s, i, acc) ==
  IF i > Len(s) \/ Len(acc) = MAX_TOKENS THEN acc
  ELSE IF s[i] = SP THEN Tokens(s, i + 1, acc)
  ELSE Tokens(s, TokEnd(s, i), Append(acc, [text |-> SubSeq(s, i, TokEnd(s, i) - 1), start |-> i]))

tokenize(s) == Tokens(s, 1, <<>>)

\* is_numeric: [-]?digits, at least one digit.
is_numeric(v) ==
  /\ v # <<>>
  /\ LET st == IF v[1] = "-" THEN 2 ELSE 1
     IN  st <= Len(v) /\ \A k \in st .. Len(v) : v[k] \in Digits

\* write_escaped: every ' is written twice.
write_escaped(v) ==
  FlattenSeq([k \in 1 .. Len(v) |-> IF v[k] = QUOTE THEN <<QUOTE, QUOTE>> ELSE <<v[k]>>])

\* append_value: a number or true/false bare, anything else quoted.
append_value(v) ==
  IF is_numeric(v) \/ Is(v, "true") \/ Is(v, "false") THEN v
  ELSE <<QUOTE>> \o write_escaped(v) \o <<QUOTE>>

\* tok.find('='), 0 if there is none, and the two sides of the first '='.
EqAt(tok) == SelectInSeq(tok, LAMBDA c : c = "=")
ColOf(tok) == SubSeq(tok, 1, EqAt(tok) - 1)
ValOf(tok) == SubSeq(tok, EqAt(tok) + 1, Len(tok))

\* The texts of tokens[from .. to-1] (0-based, as in the code).
Texts(toks, from, to) == [k \in 1 .. to - from |-> toks[from + k].text]

\* The parts written one after another with sep between them.
Joined(parts, sep) ==
  FlattenSeq([k \in 1 .. Len(parts) |-> IF k = 1 THEN parts[k] ELSE sep \o parts[k]])

\* col = value for a col=val token.
Assign(tok) == ColOf(tok) \o <<SP, "=", SP>> \o append_value(ValOf(tok))

\* build_where: the col=val tokens of tokens[start..count-1] other than
\* "where", joined by AND; tokens without '=' are dropped.
build_where(toks, start, count) ==
  LET ps == SelectSeq(Texts(toks, start, count), LAMBDA t : ~Is(t, "where") /\ EqAt(t) # 0)
  IN  Joined([k \in 1 .. Len(ps) |-> Assign(ps[k])], <<SP, "AND", SP>>)

\* build_insert: at most 16 col=val pairs; None when there is none.
build_insert(toks, start, count, table) ==
  LET all == SelectSeq(Texts(toks, start, count), LAMBDA t : EqAt(t) # 0)
      ps == IF Len(all) > 16 THEN SubSeq(all, 1, 16) ELSE all
  IN  IF ps = <<>> THEN NOTSQL
      ELSE <<"INSERT", SP, "INTO", SP>> \o table \o <<SP, "(">>
           \o Joined([k \in 1 .. Len(ps) |-> ColOf(ps[k])], <<",", SP>>)
           \o <<")", SP, "VALUES", SP, "(">>
           \o Joined([k \in 1 .. Len(ps) |-> append_value(ValOf(ps[k]))], <<",", SP>>)
           \o <<")">>

\* build_update: the col=val tokens before the first "where" become the
\* SET list, the tokens after it the WHERE clause.
build_update(toks, start, count, table) ==
  LET W == {i \in start .. count - 1 : Is(toks[i + 1].text, "where")}
      w == IF W = {} THEN count ELSE Min(W)
      ps == SelectSeq(Texts(toks, start, w), LAMBDA t : EqAt(t) # 0)
  IN  <<"UPDATE", SP>> \o table \o <<SP, "SET", SP>>
      \o Joined([k \in 1 .. Len(ps) |-> Assign(ps[k])], <<",", SP>>)
      \o (IF w < count THEN <<SP, "WHERE", SP>> \o build_where(toks, w + 1, count) ELSE <<>>)

SelectFrom(table) == <<"SELECT", SP, "*", SP, "FROM", SP>> \o table

\* prefix ObjectTable WHERE name = '<name>', for rm, open and cat.
ByName(prefix, name) ==
  prefix \o <<"ObjectTable", SP, "WHERE", SP, "name", SP, "=", SP, QUOTE>>
         \o write_escaped(name) \o <<QUOTE>>

\* create <type> <name> [content]: the content is the rest of the line.
CreateSql(s, toks) ==
  LET count == Len(toks)
  IN  <<"INSERT", SP, "INTO", SP, "ObjectTable", SP, "(", "name", ",", SP, "type">>
      \o (IF count > 3 THEN <<",", SP, "data", ")", SP, "VALUES", SP, "(", QUOTE>>
          ELSE <<")", SP, "VALUES", SP, "(", QUOTE>>)
      \o write_escaped(toks[3].text) \o <<QUOTE, ",", SP, QUOTE>>
      \o write_escaped(toks[2].text) \o <<QUOTE>>
      \o (IF count > 3 THEN <<",", SP, QUOTE>> \o write_escaped(SubSeq(s, toks[4].start, Len(s)))
                            \o <<QUOTE>>
          ELSE <<>>)
      \o <<")">>

(***************************************************************************)
(* translate(input): the verbs in the order the code tries them; the first *)
(* that matches decides, and a verb whose form does not fit returns None.  *)
(***************************************************************************)
translate(input) ==
  LET s == Trim(input)
      toks == tokenize(s)
      count == Len(toks)
      verb == toks[1].text
      table == resolve_alias(toks[2].text)
  IN  IF s = <<>> \/ count = 0 THEN NOTSQL
      ELSE IF Is(verb, "tables") THEN <<"SHOW", SP, "TABLES">>
      ELSE IF Is(verb, "show") \/ Is(verb, "list")
           THEN IF count >= 2 THEN SelectFrom(table)
                ELSE IF Is(verb, "list") THEN SelectFrom(<<"ObjectTable">>) ELSE NOTSQL
      ELSE IF Is(verb, "info") /\ count >= 2 THEN <<"DESCRIBE", SP>> \o table
      ELSE IF Is(verb, "count") /\ count >= 2 THEN SelectFrom(table)
      ELSE IF Is(verb, "find") /\ count >= 2
           THEN SelectFrom(table) \o (IF count > 2 THEN <<SP, "WHERE", SP>> \o build_where(toks, 2, count)
                                      ELSE <<>>)
      ELSE IF Is(verb, "add") /\ count >= 3 THEN build_insert(toks, 2, count, table)
      ELSE IF Is(verb, "del") \/ Is(verb, "rm")
           THEN IF count >= 3
                THEN <<"DELETE", SP, "FROM", SP>> \o table \o <<SP, "WHERE", SP>> \o build_where(toks, 2, count)
                ELSE IF Is(verb, "rm") /\ count >= 2
                THEN ByName(<<"DELETE", SP, "FROM", SP>>, toks[2].text)
                ELSE NOTSQL
      ELSE IF Is(verb, "set") /\ count >= 4 THEN build_update(toks, 2, count, table)
      ELSE IF Is(verb, "create") /\ count >= 3 THEN CreateSql(s, toks)
      ELSE IF Is(verb, "open") \/ Is(verb, "cat")
           THEN IF count >= 2 THEN ByName(<<"SELECT", SP, "*", SP, "FROM", SP>>, toks[2].text) ELSE NOTSQL
      ELSE IF Is(verb, "ps") THEN SelectFrom(<<"ProcessTable">>)
      ELSE NOTSQL
=============================================================================
