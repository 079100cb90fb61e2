-------------------------------- MODULE Text ---------------------------------
(***************************************************************************)
(* Text as the shell's translator and the SQL lexer see it: a sequence of  *)
(* symbols.  The characters whose treatment differs between the two        *)
(* (space, the quotes, the digits) are single symbols; a word is one       *)
(* symbol (see Friendly and Sql).                                          *)
(***************************************************************************)
EXTENDS Naturals, Sequences, SequencesExt

SP == " "
QUOTE == "'"
DQUOTE == "\""
DIGITS == <<"0", "1", "2", "3", "4", "5", "6", "7", "8", "9">>
Digits == ToSet(DIGITS)
=============================================================================
