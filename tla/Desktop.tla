------------------------------- MODULE Desktop -------------------------------
(***************************************************************************)
(* The desktop loop of gui_main with the taskbar, the start menu and the   *)
(* terminal (Term).  The window manager is outside the repository: it is   *)
(* an environment with window ids WinIds, a z-order, creation that may     *)
(* fail, and Close and minimise events a user may cause at any time.  A    *)
(* click it receives may bring the window under it to the front, and a key *)
(* goes to whichever window has the focus.  A mouse position is (x, dy),   *)
(* dy counted down from the top of the menu, whose bottom is the top of    *)
(* the taskbar.  Applications other than the terminal are windows here;    *)
(* the calculator's own state is the module Calc.                          *)
(***************************************************************************)
EXTENDS Term

CONSTANTS
  WinIds,     \* ids wm_create_window hands out (never 0)
  NOWIN,      \* no window with that id
  MouseXs,    \* x of MouseDown events
  MouseDys,   \* y of MouseDown events, from the top of the menu
  Keys        \* keys of KeyDown events

VARIABLES wins, z, minimized, menuOpen, running

vars == <<termVars, wins, z, minimized, menuOpen, running>>

MENU_ITEMS == 18
ITEM_H == 24
MENU_H == MENU_ITEMS * ITEM_H + 4

\* MENU_LABELS: the application each item opens, "---" for a separator.
MENU_LABELS == <<"Terminal", "Query Console", "Table Browser", "Data Grid", "---",
                 "VaultPad Editor", "Calculator", "Object Inspector", "---",
                 "Security Dashboard", "Audit Log", "Capability Manager",
                 "Object Manager", "---", "Process Manager", "System Status", "---",
                 "Exit to Shell">>

Label(i) == MENU_LABELS[i + 1]

menu_is_separator(i) == i < MENU_ITEMS /\ Label(i) = "---"

\* i16 division truncates towards zero.
Quot(a, b) == IF a >= 0 THEN a \div b ELSE -((-a) \div b)

menu_hit_test(mx, dy) ==
  IF mx < 2 \/ mx >= 2 + 180 \/ dy < 0 \/ dy >= MENU_H THEN -1
  ELSE LET idx == Quot(dy - 2, ITEM_H)
       IN  IF 0 =< idx /\ idx < MENU_ITEMS /\ ~menu_is_separator(idx) THEN idx ELSE -1

Open == {w \in WinIds : wins[w] # NOWIN}

\* wm_create_window: a free id at the front of the z-order, or None.
CreateWindow(app, id) ==
  /\ wins[id] = NOWIN
  /\ wins' = [wins EXCEPT ![id] = app]
  /\ z' = Append(z, id)
  /\ UNCHANGED minimized

BringToFront(id) ==
  z' = Append(SelectSeq(z, LAMBDA w : w # id), id)

DestroyWindow(id) ==
  /\ wins' = [wins EXCEPT ![id] = NOWIN]
  /\ z' = SelectSeq(z, LAMBDA w : w # id)
  /\ minimized' = minimized \ {id}

\* gui_main sets GUI_RUNNING, closes the menu and calls open_terminal on an
\* empty desktop: the window is created, or wm_create_window fails.
Init ==
  /\ menuOpen = FALSE /\ running = TRUE /\ minimized = {} /\ cmd = <<>> /\ oob = FALSE
  /\ \/ /\ termWin = 0 /\ wins = [w \in WinIds |-> NOWIN] /\ z = <<>>
        /\ buf = BlankBuf /\ cx = 0 /\ cy = 0
     \/ \E id \in WinIds :
          LET s == term_print_prompt(term_print(ClearScreen, BANNER))
          IN  /\ termWin = id /\ wins = [w \in WinIds |-> IF w = id THEN "Terminal" ELSE NOWIN]
              /\ z = <<id>> /\ buf = s.buf /\ cx = s.cx /\ cy = s.cy

\* open_terminal: an existing terminal window comes to the front; otherwise
\* the buffer is cleared, and a new window gets the banner and the prompt.
open_terminal ==
  IF termWin # 0 /\ wins[termWin] # NOWIN
  THEN BringToFront(termWin) /\ UNCHANGED <<termVars, wins, minimized>>
  ELSE LET s == term_clear(Screen)
       IN  /\ cmd' = <<>>
           /\ \/ /\ termWin' = 0 /\ SetScreen(s)
                 /\ UNCHANGED <<wins, z, minimized>>
              \/ \E id \in WinIds :
                   /\ CreateWindow("Terminal", id) /\ termWin' = id
                   /\ SetScreen(term_print_prompt(term_print(s, BANNER)))

\* The other menu entries open a window of their own, or none.
open_app(app) ==
  /\ \/ \E id \in WinIds : CreateWindow(app, id)
     \/ UNCHANGED <<wins, z, minimized>>
  /\ UNCHANGED termVars

\* gui_main, a click on the taskbar: the VaultOS button toggles the menu,
\* a window button restores that window and brings it to the front.
TaskbarClick(mx) ==
  /\ IF 2 =< mx /\ mx < 82
     THEN menuOpen' = ~menuOpen /\ UNCHANGED <<wins, z, minimized>>
     ELSE LET hit == {k \in 1 .. Len(z) : 90 + 124 * (k - 1) =< mx /\ mx < 90 + 124 * (k - 1) + 120}
          IN  /\ UNCHANGED <<menuOpen, wins>>
              /\ IF hit # {}
                 THEN minimized' = minimized \ {z[Min(hit)]} /\ BringToFront(z[Min(hit)])
                 ELSE UNCHANGED <<z, minimized>>
  /\ UNCHANGED termVars

\* wm_dispatch_event of a click: it may bring a window to the front.
ForwardClick ==
  \/ UNCHANGED <<wins, z, minimized>>
  \/ \E w \in Open : BringToFront(w) /\ UNCHANGED <<wins, minimized>>

\* gui_main, a click above the taskbar: an open menu closes; a click on one
\* of its items runs that item, any other click goes to the window manager.
MenuOrWindowClick(mx, dy) ==
  LET idx == menu_hit_test(mx, dy)
  IN  /\ menuOpen' = FALSE
      /\ IF menuOpen /\ idx >= 0
         THEN CASE Label(idx) = "Terminal" -> open_terminal /\ UNCHANGED running
                [] Label(idx) = "Exit to Shell" ->
                     running' = FALSE /\ UNCHANGED <<termVars, wins, z, minimized>>
                [] OTHER -> open_app(Label(idx)) /\ UNCHANGED running
         ELSE ForwardClick /\ UNCHANGED <<termVars, running>>

MouseDown ==
  \E mx \in MouseXs, dy \in MouseDys :
    IF dy >= MENU_H THEN TaskbarClick(mx) /\ UNCHANGED running
    ELSE MenuOrWindowClick(mx, dy)

\* A key goes to the focused window; term_event handles it in the terminal.
KeyDown ==
  \E w \in Open, k \in Keys :
    /\ IF w = termWin THEN term_event_key(k) ELSE UNCHANGED termVars
    /\ UNCHANGED <<wins, z, minimized, menuOpen, running>>

CloseWindow_keepid ==
  \E w \in Open :
    /\ DestroyWindow(w)
    /\ UNCHANGED <<termWin, buf, cx, cy, oob, cmd, menuOpen, running>>

\* A Close event: term_event destroys the window and forgets its id, the
\* other applications destroy theirs.
CloseWindow ==
  \E w \in Open :
    /\ DestroyWindow(w)
    /\ termWin' = IF w = termWin THEN 0 ELSE termWin
    /\ UNCHANGED <<buf, cx, cy, oob, cmd, menuOpen, running>>

Minimize ==
  \E w \in Open \ minimized :
    /\ minimized' = minimized \cup {w}
    /\ UNCHANGED <<termVars, wins, z, menuOpen, running>>

\* The loop handles events until Exit to Shell clears GUI_RUNNING.
Next ==
  /\ running
  /\ \/ MouseDown \/ KeyDown \/ CloseWindow \/ Minimize

Spec == Init /\ [][Next]_vars

TypeOK ==
  /\ TermTypeOK
  /\ termWin \in WinIds \cup {0}
  /\ wins \in [WinIds -> Range(MENU_LABELS) \cup {NOWIN}]
  /\ Range(z) = Open /\ Len(z) = Cardinality(Open)
  /\ minimized \subseteq Open /\ menuOpen \in BOOLEAN /\ running \in BOOLEAN

\* Every write to TERM_BUF is inside the grid.  term_print_prompt writes
\* without wrapping after its last cell, so a prompt that ends on the last
\* column leaves TERM_CX = TERM_COLS; the clamp in term_putchar must wrap
\* before the next character is written.
TermWritesInBounds == ~oob

\* TERM_WIN_ID names the terminal window while one is open and is 0
\* otherwise, so open_terminal never brings another application's window
\* to the front in its place nor opens a second terminal.
TerminalTracked ==
  /\ termWin # 0 => wins[termWin] = "Terminal"
  /\ \A w \in Open : wins[w] = "Terminal" => w = termWin

=============================================================================
