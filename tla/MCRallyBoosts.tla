--------------------------- MODULE MCRallyBoosts ---------------------------
(***************************************************************************)
(* The shipped distances in dollars: the rally arm at 5, the rescue arm at *)
(* 10, boost stops at 13; the market visits the dead band, both arms and a *)
(* price where a slipped fleet is below its cap and above its stops.       *)
(***************************************************************************)
EXTENDS RallyBoosts

MCPrices == {-12, -4, 3, 5, 9}
=============================================================================
