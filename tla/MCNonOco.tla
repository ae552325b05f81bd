------------------------------ MODULE MCNonOco ------------------------------
(* Half points: a stop of 2, a lock of 1 at 2, a target of 3.               *)
EXTENDS NonOco
=============================================================================
