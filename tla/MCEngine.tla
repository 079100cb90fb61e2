------------------------------ MODULE MCEngine ------------------------------
(* Model-checking instance of Engine: small sets of record contents and  *)
(* master keys; the table and row bounds are set in each cfg.           *)
EXTENDS Engine

CONSTANTS d1, d2, big, k0, k1

MCData == {d1, d2, big}
MCOversized == {big}
MCMasterKeys == {k0, k1}
=============================================================================
