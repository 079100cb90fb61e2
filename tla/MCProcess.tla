----------------------------- MODULE MCProcess ------------------------------
(* Model-checking instance of Process: three kernel-stack blocks and two  *)
(* user address spaces for two slots.                                     *)
EXTENDS Process, TLC

CONSTANTS s1, s2, s3, u1, u2

MCStacks == {s1, s2, s3}
MCSpaces == {u1, u2}
MCSymmetry == Permutations(MCStacks) \cup Permutations(MCSpaces)
=============================================================================
