------------------------------ MODULE MCBTree ------------------------------
(* Model-checking instance of BTree: small orders, a handful of row ids *)
(* and two value pointers.                                              *)
EXTENDS BTree

CONSTANTS v1, v2

MCVals == {v1, v2}

\* Neighbouring row ids get different record boxes, so a value that
\* moves to the wrong key is visible.
MCRecordOf(k) == IF k % 2 = 1 THEN v1 ELSE v2

MCKeys4 == 1 .. 4
MCKeys6 == 1 .. 6
MCKeys7 == 1 .. 7
MCKeys8 == 1 .. 8

\* Value pointers are only compared with NULL and copied, so any
\* permutation of them is a symmetry of the runs that pick values freely.
MCSymmetry == Permutations(Vals)
=============================================================================
