------------------------------ MODULE MCDesktop ------------------------------
(***************************************************************************)
(* The desktop with a 4 x 2 terminal, a two-character prompt and commands  *)
(* of up to three characters, so that a command wraps, the screen scrolls  *)
(* and a prompt can end on the last column, and with two window ids, so    *)
(* that a closed terminal's id can go to another application.             *)
(***************************************************************************)
EXTENDS Desktop

MCPrompt == <<"v", ">">>
\* Two banner lines and an empty one.
MCBanner == <<"b", "\n", "b", "\n", "\n">>
\* Nothing, a line, a text without a newline, and a tab.
MCOutputs == {<<>>, <<"o", "\n">>, <<"o", "o">>, <<"\t">>}
MCPrintable == {"a", "b", "o"}
\* A printable key, both Enters, both backspaces, and a key term_event ignores.
MCKeys == {"a", "\n", "\r", "BS", "DEL", "F1"}
\* The VaultOS button, the first and second taskbar buttons (the first and
\* third also inside the menu), and a point right of the menu.
MCMouseXs == {10, 95, 219}
\* Above the menu, its top margin, Terminal, a separator, Calculator, Exit,
\* its bottom margin, and the taskbar.
MCMouseDys == {-50, 0, 10, 103, 151, 415, 434, 440}
=============================================================================
