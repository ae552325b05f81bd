--------------------------- MODULE MCRescueBoost ---------------------------
(***************************************************************************)
(* Two straddles, at 40 and at 120, of which the second gets only its sell *)
(* leg through, in a market that jumps between 0, 40 and 120.  Buffer and  *)
(* distances are scaled so that a leg fills on the way to the next price   *)
(* (Trigger 40), the two anchors are an interval (80) apart, boost #1 (20) *)
(* fills before a leg's other side and boost #2 (60) only on the full way, *)
(* and a boost that reaches 0 or 120 has passed its activation (20).       *)
(***************************************************************************)
EXTENDS RescueBoost

MCPrices == {0, 40, 120}
MCAnchors == {40, 120}
MCPlans == <<Sides, {"SELL"}>>
MCSlips == {3}
MCOffsets == <<20, 60>>
=============================================================================
