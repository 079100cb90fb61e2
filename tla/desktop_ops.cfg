\* Clicks on the taskbar, the menu and windows, keys to the terminal, closes and minimises.
CONSTANTS
  COLS = 4
  ROWS = 2
  CMD_MAX = 3
  PROMPT <- MCPrompt
  BANNER <- MCBanner
  Printable <- MCPrintable
  Outputs <- MCOutputs
  WinIds = {1, 2}
  NOWIN = NOWIN
  MouseXs <- MCMouseXs
  MouseDys <- MCMouseDys
  Keys <- MCKeys
SPECIFICATION Spec
\* Exit to Shell ends gui_main's loop.
CHECK_DEADLOCK FALSE
INVARIANTS
  TypeOK
  TermWritesInBounds
  TerminalTracked
