----------------------------- MODULE MCLiveStop -----------------------------
(***************************************************************************)
(* The shipped configuration in dimes: SL 18, TP 30, rungs at 5, 6 and 10, *)
(* a broker that refuses stops within 0.30, a hold of two bars.            *)
(***************************************************************************)
EXTENDS LiveStop

MCPrices == {-178, 2, 45, 55, 65, 110}
=============================================================================
