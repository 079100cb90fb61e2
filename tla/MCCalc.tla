------------------------------- MODULE MCCalc -------------------------------
(***************************************************************************)
(* The calculator at a scaled width.  WIDTH 6 (-32..31), one typed digit   *)
(* and two copied characters keep the relations of the code's i64, 18 and  *)
(* 19: a typed number always fits, a copied positive result is whole, and  *)
(* a negative result of COPY_MAX digits loses its last one.                *)
(***************************************************************************)
EXTENDS Calc

\* Every key calc_event maps, and one it ignores.
MCKeys == {"0", "1", "9", "+", "-", "*", "/", "=", "\n", "BS", "c", "C", "x"}

\* One x per column and one y per row of the grid, a point left of it, a
\* point right of it, and a point in the display just above the first row.
MCMouseXs == {0, 9, 61, 113, 165, 300}
MCMouseYs == {30, 61, 101, 141, 181, 221, 300}
=============================================================================
