------------------------------ MODULE MCQuery -------------------------------
(* Model-checking instance of Query: two record contents that fit the     *)
(* scratch buffer and one that does not, and WHERE clauses accepting one  *)
(* or both of the contents that fit.                                      *)
EXTENDS Query

CONSTANTS d1, d2, big, k0, k1

MCData == {d1, d2, big}
MCOversized == {big}
MCMasterKeys == {k0, k1}
MCConds == {{d1}, {d1, d2}}
=============================================================================
