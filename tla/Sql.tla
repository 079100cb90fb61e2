--------------------------------- MODULE Sql ---------------------------------
(***************************************************************************)
(* The front of kernel/src/db/query.rs: the lexer (Parser::next_token),    *)
(* the WHERE parser, and the matching of a record field against a          *)
(* condition (match_field, record_matches).                                *)
(*                                                                         *)
(* Text is as in Text.tla: a word is one symbol, and a symbol that is not  *)
(* punctuation or a digit is a letter.  The MAX_STR_LEN cut of string      *)
(* literals and identifiers and the 20-digit cut of numbers are not        *)
(* modelled (no value checked comes near them), and parse_u64's wrapping   *)
(* arithmetic is plain: the numbers checked are single digits.             *)
(***************************************************************************)
EXTENDS Text

CONSTANTS
  MAX_WHERE_CONDS,  \* conditions parse_where reads at most
  UNSET             \* a field the record leaves as None

Keywords == {"SELECT", "INSERT", "INTO", "DELETE", "UPDATE", "FROM", "WHERE", "AND",
             "SET", "VALUES", "SHOW", "TABLES", "DESCRIBE", "GRANT", "REVOKE", "ON",
             "TO", "READ", "WRITE", "ALL"}

\* Symbols that are neither letters nor digits.
Punct == {SP, QUOTE, DQUOTE, "*", ",", "(", ")", "=", "!", "<", ">", "-", "_"}
is_alpha(c) == c \notin Punct \cup Digits
is_alnum(c) == is_alpha(c) \/ c \in Digits

Tok(type, value) == [type |-> type, value |-> value]

\* check_keyword: a keyword token or Ident.
check_keyword(w) == IF Len(w) = 1 /\ w[1] \in Keywords THEN w[1] ELSE "Ident"

(***************************************************************************)
(* next_token at position i (not a space): the token and the position      *)
(* after it.  A string literal runs to the next quote, which it consumes,  *)
(* or to the end of the input: there is no escape sequence.  Any other     *)
(* symbol is an Error token of one symbol.                                 *)
(***************************************************************************)
next_token(s, i) ==
  LET c == s[i]
      two == i < Len(s) /\ s[i + 1] = "="
      close == SelectInSubSeq(s, i + 1, Len(s), LAMBDA x : x = QUOTE)
      RunEnd(P(_)) == LET j == SelectInSubSeq(s, i, Len(s), LAMBDA x : ~P(x))
                      IN  IF j = 0 THEN Len(s) + 1 ELSE j
  IN  CASE c = "*" -> <<Tok("Star", <<"*">>), i + 1>>
        [] c = "," -> <<Tok("Comma", <<>>), i + 1>>
        [] c = "(" -> <<Tok("LParen", <<>>), i + 1>>
        [] c = ")" -> <<Tok("RParen", <<>>), i + 1>>
        [] c = "=" -> <<Tok("Eq", <<>>), i + 1>>
        [] c = "!" /\ two -> <<Tok("Neq", <<>>), i + 2>>
        [] c = "<" /\ two -> <<Tok("Le", <<>>), i + 2>>
        [] c = ">" /\ two -> <<Tok("Ge", <<>>), i + 2>>
        [] c = "<" /\ ~two -> <<Tok("Lt", <<>>), i + 1>>
        [] c = ">" /\ ~two -> <<Tok("Gt", <<>>), i + 1>>
        [] c = QUOTE -> IF close = 0 THEN <<Tok("StringLit", SubSeq(s, i + 1, Len(s))), Len(s) + 1>>
                        ELSE <<Tok("StringLit", SubSeq(s, i + 1, close - 1)), close + 1>>
        [] c \in Digits -> LET j == RunEnd(LAMBDA x : x \in Digits)
                           IN  <<Tok("Number", SubSeq(s, i, j - 1)), j>>
        [] is_alpha(c) \/ c = "_" ->
             LET j == RunEnd(LAMBDA x : is_alnum(x) \/ x = "_")
             IN  <<Tok(check_keyword(SubSeq(s, i, j - 1)), SubSeq(s, i, j - 1)), j>>
        [] OTHER -> <<Tok("Error", <<>>), i + 1>>

\* The tokens the parser sees, in order, skipping whitespace; Eof after.
RECURSIVE Lex(_, _, _)
Lex(s, i, acc) ==
  IF i > Len(s) THEN acc
  ELSE IF s[i] = SP THEN Lex(s, i + 1, acc)
  ELSE LET t == next_token(s, i) IN Lex(s, t[2], Append(acc, t[1]))

lex(s) == Lex(s, 1, <<>>)

\* The parser's current token at position i.
Tk(ts, i) == IF i <= Len(ts) THEN ts[i] ELSE Tok("Eof", <<>>)

\* parse_u64: the leading digits as a number.
parse_u64(v) ==
  LET k == SelectInSeq(v, LAMBDA c : c \notin Digits)
      ds == IF k = 0 THEN v ELSE SubSeq(v, 1, k - 1)
  IN  FoldLeft(LAMBDA n, c : 10 * n + (SelectInSeq(DIGITS, LAMBDA x : x = c) - 1), 0, ds)

\* Field and condition values: StrField or u64.
Str(s) == [str |-> s]
U64(n) == [u64 |-> n]

\* The value of a StringLit or Number token.
TokValue(t) == IF t.type = "StringLit" THEN Str(t.value) ELSE U64(parse_u64(t.value))

\* parse_op: a comparison token, or Eq for any other token, which it
\* consumes all the same.
parse_op(type) == IF type \in {"Neq", "Lt", "Gt", "Le", "Ge"} THEN type ELSE "Eq"

\* The loop of parse_where from position i: column, operator, value, and
\* on to the next condition only after AND.
RECURSIVE WhereConds(_, _, _)
WhereConds(ts, i, acc) ==
  IF Len(acc) >= MAX_WHERE_CONDS \/ Tk(ts, i).type # "Ident" THEN acc
  ELSE LET v == Tk(ts, i + 2)
           c == [column |-> Tk(ts, i).value, op |-> parse_op(Tk(ts, i + 1).type), value |-> TokValue(v)]
       IN  IF v.type \notin {"StringLit", "Number"} THEN acc
           ELSE IF Tk(ts, i + 3).type = "AND" THEN WhereConds(ts, i + 4, Append(acc, c))
           ELSE Append(acc, c)

\* parse_where at position i: no conditions unless the token is WHERE.
parse_where(ts, i) == IF Tk(ts, i).type # "WHERE" THEN <<>> ELSE WhereConds(ts, i + 1, <<>>)

(***************************************************************************)
(* match_field for the equality operators: a string field against a       *)
(* string, a u64 field against a u64 or against the digits of a string;   *)
(* a string field never equals a u64 condition.  The ordering operators   *)
(* are not modelled: the translator only writes '='.                       *)
(***************************************************************************)
match_field(f, op, cv) ==
  LET comparable == ~("str" \in DOMAIN f /\ "u64" \in DOMAIN cv)
      same == CASE "str" \in DOMAIN f /\ "str" \in DOMAIN cv -> f.str = cv.str
                [] "u64" \in DOMAIN f /\ "u64" \in DOMAIN cv -> f.u64 = cv.u64
                [] OTHER -> f.u64 = parse_u64(cv.str)
  IN  comparable /\ ((op = "Eq" /\ same) \/ (op = "Neq" /\ ~same))

(***************************************************************************)
(* record_matches for a record whose column `col` holds field f: every     *)
(* condition names that column (another column is not found, or is not   *)
(* modelled), the field is set, and it matches.                            *)
(***************************************************************************)
record_matches(f, col, conds) ==
  \A k \in 1 .. Len(conds) :
     /\ conds[k].column = <<col>>
     /\ f # UNSET
     /\ match_field(f, conds[k].op, conds[k].value)
=============================================================================
