------------------------------ MODULE Extremes ------------------------------
(***************************************************************************)
(* The better and the worse of two prices, which are signed distances in   *)
(* the position's favour.                                                  *)
(***************************************************************************)
EXTENDS Integers

Higher(a, b) == IF a >= b THEN a ELSE b
Lower(a, b) == IF a <= b THEN a ELSE b
=============================================================================
