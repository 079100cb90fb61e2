-------------------------------- MODULE Term --------------------------------
(***************************************************************************)
(* The terminal window of the GUI desktop (gui_desktop.rs, "Terminal").    *)
(* TERM_BUF is a ROWS x COLS grid of cells, TERM_CX and TERM_CY the        *)
(* cursor, TERM_CMD the command being typed and TERM_WIN_ID the window.    *)
(* term_putchar is an operator on the screen record [buf, cx, cy, oob];    *)
(* term_print folds it over a text.  Writing a cell outside the grid is    *)
(* an index panic in Rust and sets oob.  A character is a one-symbol       *)
(* string; the banner's lines and the shell's output are short texts.      *)
(***************************************************************************)
EXTENDS Integers, Sequences, SequencesExt

CONSTANTS
  COLS,       \* TERM_COLS (78)
  ROWS,       \* TERM_ROWS (38)
  CMD_MAX,    \* the command length term_event accepts (510)
  PROMPT,     \* "vault> "
  BANNER,     \* the three lines open_terminal prints
  Printable,  \* characters 0x20..0x7E the model types or prints
  Outputs     \* what execute_command may print through gui_term_print

VARIABLES buf, cx, cy, oob, cmd, termWin

termVars == <<buf, cx, cy, oob, cmd, termWin>>

RowIdx == 0 .. ROWS - 1
ColIdx == 0 .. COLS - 1

\* BLANK_CELL, and the two colours a cell is written in.
BLANK_CELL == [ch |-> " ", fg |-> "fg"]
BlankRow == [c \in ColIdx |-> BLANK_CELL]
BlankBuf == [r \in RowIdx |-> BlankRow]

Screen == [buf |-> buf, cx |-> cx, cy |-> cy, oob |-> oob]
ClearScreen == [buf |-> BlankBuf, cx |-> 0, cy |-> 0, oob |-> FALSE]

\* term_scroll_up: every row moves up one, the last is blanked.
term_scroll_up(s) ==
  [s EXCEPT !.buf = [r \in RowIdx |-> IF r < ROWS - 1 THEN s.buf[r + 1] ELSE BlankRow]]

\* TERM_CX = 0; TERM_CY += 1, scrolling at the bottom: '\n' and every wrap.
NewLine(s) ==
  IF s.cy + 1 >= ROWS THEN [term_scroll_up(s) EXCEPT !.cx = 0, !.cy = ROWS - 1]
  ELSE [s EXCEPT !.cx = 0, !.cy = s.cy + 1]

Clamp_nowrap(s) ==
  IF s.cy >= ROWS THEN [term_scroll_up(s) EXCEPT !.cy = ROWS - 1] ELSE s

\* The defensive clamp before a printable character or a prompt character.
Clamp(s) ==
  LET t == IF s.cy >= ROWS THEN [term_scroll_up(s) EXCEPT !.cy = ROWS - 1] ELSE s
  IN  IF t.cx >= COLS THEN NewLine(t) ELSE t

\* TERM_BUF[TERM_CY][TERM_CX] = cell, then TERM_CX += 1.
WriteCell(s, c, fg) ==
  IF s.cy \in RowIdx /\ s.cx \in ColIdx
  THEN [s EXCEPT !.buf[s.cy][s.cx] = [ch |-> c, fg |-> fg], !.cx = s.cx + 1]
  ELSE [s EXCEPT !.oob = TRUE]

RECURSIVE term_putchar(_, _)
term_putchar(s, c) ==
  CASE c = "\n" -> NewLine(s)
    [] c = "\r" -> [s EXCEPT !.cx = 0]
    [] c = "BS" -> IF s.cx > 0 /\ s.cy < ROWS
                   THEN [s EXCEPT !.cx = s.cx - 1, !.buf[s.cy][s.cx - 1] = BLANK_CELL]
                   ELSE s
    [] c = "\t" -> FoldLeft(term_putchar, s, [i \in 1 .. 4 - (s.cx % 4) |-> " "])
    [] c \in Printable \cup {" "} ->
         LET t == WriteCell(Clamp(s), c, "fg")
         IN  IF t.cx >= COLS THEN NewLine(t) ELSE t
    [] OTHER -> s

term_print(s, text) == FoldLeft(term_putchar, s, text)

\* term_print_prompt: the clamp, then the cell; no wrap after the last one.
term_print_prompt(s) == FoldLeft(LAMBDA t, c : WriteCell(Clamp(t), c, "prompt"), s, PROMPT)

term_clear(s) == [s EXCEPT !.buf = BlankBuf, !.cx = 0, !.cy = 0]

SetScreen(s) == buf' = s.buf /\ cx' = s.cx /\ cy' = s.cy /\ oob' = s.oob

TermInit ==
  /\ buf = BlankBuf /\ cx = 0 /\ cy = 0 /\ oob = FALSE
  /\ cmd = <<>> /\ termWin = 0

\* term_event, KeyDown.  Enter echoes a newline, runs a non-empty command
\* with the shell's output sent to the terminal, clears the screen when the
\* command was `clear`, empties the command and prints the prompt.
TermEnter ==
  LET s1 == term_putchar(Screen, "\n")
  IN  /\ \/ cmd = <<>> /\ SetScreen(term_print_prompt(s1))
         \/ cmd # <<>> /\ \E out \in Outputs, isClear \in BOOLEAN :
               LET s2 == term_print(s1, out)
                   s3 == IF isClear THEN term_clear(s2) ELSE s2
               IN  SetScreen(term_print_prompt(s3))
      /\ cmd' = <<>>

TermBackspace ==
  /\ cmd # <<>>
  /\ cmd' = Front(cmd)
  /\ SetScreen(term_putchar(Screen, "BS"))

TermType_noguard(k) ==
  /\ cmd' = Append(cmd, k)
  /\ SetScreen(term_putchar(Screen, k))

TermType(k) ==
  /\ Len(cmd) < CMD_MAX
  /\ cmd' = Append(cmd, k)
  /\ SetScreen(term_putchar(Screen, k))

term_event_key(k) ==
  /\ \/ k \in {"\n", "\r"} /\ TermEnter
     \/ k \in {"BS", "DEL"} /\ TermBackspace
     \/ k \in Printable /\ TermType(k)
  /\ UNCHANGED termWin

TermTypeOK ==
  /\ buf \in [RowIdx -> [ColIdx -> [ch : Printable \cup {" "} \cup Range(PROMPT), fg : {"fg", "prompt"}]]]
  /\ cx \in 0 .. COLS /\ cy \in RowIdx /\ oob \in BOOLEAN
  /\ cmd \in Seq(Printable) /\ Len(cmd) =< CMD_MAX

=============================================================================
