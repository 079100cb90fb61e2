------------------------------ MODULE MCPageIO ------------------------------
(* Model-checking instance of PageIO: a record of two pages, a record of  *)
(* one page and one node on a small device.                               *)
EXTENDS PageIO

CONSTANTS ra, rb, n1

MCRecords == {ra, rb}
MCNodes == {n1}
MCPagesOf(r) == IF r = ra THEN 2 ELSE 1
=============================================================================
