-------------------------------- MODULE Calc --------------------------------
(***************************************************************************)
(* The calculator of the GUI desktop (gui/gui_desktop.rs, "Calculator").   *)
(* Its state is the CALC_* statics; one action per branch of               *)
(* calc_handle_button, reached through calc_event from a key or a click.   *)
(* Text is a sequence of one-character strings; the message "Error: /0"   *)
(* is one symbol.  Integers keep their width WIDTH: the sum, the           *)
(* difference and the product of two i64 panic in a debug build and wrap  *)
(* in a release build, and nothing in the repository fixes the build, so  *)
(* both outcomes are possible.  A panic halts the kernel.                 *)
(***************************************************************************)
EXTENDS Integers, Sequences, SequencesExt

CONSTANTS
  WIDTH,        \* bits of CALC_VALUE and CALC_OPERAND (i64: 64)
  INPUT_MAX,    \* digits a user may type (18)
  COPY_MAX,     \* characters '=' copies back into CALC_INPUT (19)
  DISPLAY_MAX,  \* characters calc_set_display keeps (31)
  Keys,         \* keys of KeyDown events
  MouseXs,      \* x of MouseDown events, relative to the client area
  MouseYs,      \* y of MouseDown events
  ERR_DIV0,     \* the text "Error: /0"
  NOOP,         \* no button: the operator CALC_OP = 0
  PANIC         \* the outcome of an arithmetic panic

ASSUME 10^INPUT_MAX =< 2^(WIDTH - 1) /\ INPUT_MAX < COPY_MAX /\ COPY_MAX < DISPLAY_MAX

VARIABLES value, operand, op, newInput, input, display, panicked, key

vars == <<value, operand, op, newInput, input, display, panicked, key>>

MinInt == -(2^(WIDTH - 1))
MaxInt == 2^(WIDTH - 1) - 1
InRange(n) == MinInt =< n /\ n =< MaxInt
Wrap(n) == ((n - MinInt) % (2^WIDTH)) + MinInt
Ops == {"+", "-", "*", "/"}
Chr(n) == <<"0", "1", "2", "3", "4", "5", "6", "7", "8", "9">>[n + 1]
DigitSet == {Chr(n) : n \in 0..9}
DigitOf(c) == CHOOSE n \in 0..9 : Chr(n) = c

\* CALC_BUTTONS: the 5 x 4 grid, " " for the two empty cells.
CALC_BUTTONS == << <<"C", "/", "*", "<">>,
                   <<"7", "8", "9", "-">>,
                   <<"4", "5", "6", "+">>,
                   <<"1", "2", "3", "=">>,
                   <<"0", " ", " ", "=">> >>

\* Rust's integer division truncates towards zero.
TruncDiv(a, b) == IF (a >= 0) = (b > 0) THEN (IF a >= 0 THEN a \div b ELSE (-a) \div (-b))
                  ELSE -((IF a >= 0 THEN a ELSE -a) \div (IF b > 0 THEN b ELSE -b))

\* write!(b, "{}", v): the decimal digits, "-" first when negative.
RECURSIVE Decimal(_)
Decimal(n) == IF n < 10 THEN <<Chr(n)>> ELSE Decimal(n \div 10) \o <<Chr(n % 10)>>
Fmt(v) == IF v < 0 THEN <<"-">> \o Decimal(-v) ELSE Decimal(v)

calc_set_display(s) == SubSeq(s, 1, IF Len(s) < DISPLAY_MAX THEN Len(s) ELSE DISPLAY_MAX)

\* calc_input_to_i64: a "-" in first place negates, digits accumulate,
\* anything else is skipped.
DigitsValue(s) == FoldLeft(LAMBDA acc, c : IF c \in DigitSet THEN acc * 10 + DigitOf(c) ELSE acc, 0, s)
calc_input_to_i64(s) == IF s # <<>> /\ s[1] = "-" THEN -DigitsValue(Tail(s)) ELSE DigitsValue(s)

\* One arithmetic step of the build: the exact result, or a wrap or a panic
\* when it does not fit.  i64 division by -1 of the minimum panics in both.
Arith(o, a, b) ==
  LET r == CASE o = "+" -> a + b
             [] o = "-" -> a - b
             [] o = "*" -> a * b
             [] o = "/" -> TruncDiv(a, b)
  IN  IF InRange(r) THEN {r} ELSE IF o = "/" THEN {PANIC} ELSE {Wrap(r), PANIC}

\* calc_execute_pending: the outcomes [value, display], the value PANIC
\* for a panic.  Division by zero sets the error and leaves CALC_VALUE.
calc_execute_pending(v, b, o) ==
  IF o = "/" /\ b = 0 THEN {[value |-> v, display |-> calc_set_display(<<ERR_DIV0>>)]}
  ELSE {[value |-> r, display |-> IF r = PANIC THEN display ELSE calc_set_display(Fmt(r))] :
          r \in Arith(o, v, b)}

Commit(out) ==
  IF out.value = PANIC THEN panicked' = TRUE /\ UNCHANGED <<value, display>>
  ELSE value' = out.value /\ display' = out.display /\ UNCHANGED panicked

\* open_calculator resets the statics and opens the window.
Reset ==
  /\ value = 0 /\ operand = 0 /\ op = NOOP /\ newInput = TRUE
  /\ input = <<>> /\ display = <<"0">>

Init == Reset /\ panicked = FALSE /\ key = NOOP

open_calculator ==
  /\ ~panicked
  /\ value' = 0 /\ operand' = 0 /\ op' = NOOP /\ newInput' = TRUE
  /\ input' = <<>> /\ display' = <<"0">> /\ key' = NOOP /\ UNCHANGED panicked

\* Branches of calc_handle_button(btn).
DigitButton(d) ==
  LET typed == IF newInput THEN <<>> ELSE input
      in2 == IF Len(typed) < INPUT_MAX THEN Append(typed, d) ELSE typed
  IN  /\ input' = in2 /\ newInput' = FALSE
      /\ display' = calc_set_display(in2)
      /\ UNCHANGED <<value, operand, op, panicked>>

ClearButton ==
  /\ value' = 0 /\ operand' = 0 /\ op' = NOOP /\ input' = <<>>
  /\ display' = <<"0">> /\ newInput' = TRUE
  /\ UNCHANGED panicked

BackButton ==
  /\ Len(input) > 0
  /\ input' = Front(input)
  /\ display' = IF Len(input') = 0 THEN <<"0">> ELSE calc_set_display(input')
  /\ UNCHANGED <<value, operand, op, newInput, panicked>>

OpButton(b) ==
  LET val == calc_input_to_i64(input)
  IN  /\ IF op # NOOP
           THEN operand' = val /\ \E out \in calc_execute_pending(value, val, op) : Commit(out)
           ELSE value' = val /\ UNCHANGED <<operand, display, panicked>>
      /\ op' = b /\ newInput' = TRUE /\ UNCHANGED input

\* '=': the pending step, then CALC_VALUE is written over the display and
\* the display's first COPY_MAX characters are copied into CALC_INPUT.
EqualsButton ==
  LET val == calc_input_to_i64(input)
      outs == IF op # NOOP THEN calc_execute_pending(value, val, op)
              ELSE {[value |-> val, display |-> display]}
  IN  \E out \in outs :
        /\ operand' = val /\ op' = NOOP /\ newInput' = TRUE
        /\ IF out.value = PANIC
             THEN panicked' = TRUE /\ UNCHANGED <<value, display, input>>
             ELSE LET ds == calc_set_display(Fmt(out.value))
                  IN  /\ value' = out.value /\ display' = ds
                      /\ input' = SubSeq(ds, 1, IF Len(ds) < COPY_MAX THEN Len(ds) ELSE COPY_MAX)
                      /\ UNCHANGED panicked

calc_handle_button(btn) ==
  /\ key' = btn
  /\ \/ btn \in DigitSet /\ DigitButton(btn)
     \/ btn = "C" /\ ClearButton
     \/ btn = "<" /\ BackButton
     \/ btn \in Ops /\ OpButton(btn)
     \/ btn = "=" /\ EqualsButton

\* calc_event, KeyDown: digits and operators as they are, Enter and '=' to
\* '=', backspace to '<', c and C to 'C'; other keys do nothing.
KeyButton(k) ==
  CASE k \in DigitSet \cup Ops -> k
    [] k \in {"\n", "="} -> "="
    [] k = "BS" -> "<"
    [] k \in {"c", "C"} -> "C"
    [] OTHER -> " "

KeyDown ==
  /\ ~panicked
  /\ \E k \in Keys : KeyButton(k) # " " /\ calc_handle_button(KeyButton(k))

\* calc_event, MouseDown: the cell under the pointer, in i16 arithmetic
\* that truncates towards zero; an empty cell does nothing.
MouseDown ==
  /\ ~panicked
  /\ \E x \in MouseXs, y \in MouseYs :
       LET row == TruncDiv(y - (8 + 44 + 4 + 4), 36 + 4)
           col == TruncDiv(x - 8, 48 + 4)
       IN  /\ 0 =< row /\ row < 5 /\ 0 =< col /\ col < 4
           /\ CALC_BUTTONS[row + 1][col + 1] # " "
           /\ calc_handle_button(CALC_BUTTONS[row + 1][col + 1])

Next == open_calculator \/ KeyDown \/ MouseDown

Spec == Init /\ [][Next]_vars

TypeOK ==
  /\ value \in MinInt..MaxInt /\ operand \in MinInt..MaxInt
  /\ op \in Ops \cup {NOOP} /\ newInput \in BOOLEAN /\ panicked \in BOOLEAN
  /\ Len(input) =< COPY_MAX /\ Len(display) =< DISPLAY_MAX

\* calc_execute_pending writes "Error: /0" when the pending operation is a
\* division by zero: a button that carries out such a division, an operator
\* or '=', leaves that message on the display.
DivZeroReported ==
  [][ key' \in Ops \cup {"="} /\ op = "/" /\ calc_input_to_i64(input) = 0 /\ ~panicked'
        => display' = <<ERR_DIV0>> ]_vars

=============================================================================
