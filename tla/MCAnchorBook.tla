---------------------------- MODULE MCAnchorBook ----------------------------
(***************************************************************************)
(* Small days: anchors due in consecutive hours, the end of the day after. *)
(***************************************************************************)
EXTENDS AnchorBook

MCDue == [l \in Labels |-> IF l = "A1" THEN 0 ELSE 1]
=============================================================================
