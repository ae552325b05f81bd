--------------------------- MODULE MCPositionBars ---------------------------
(***************************************************************************)
(* strategy.update_position_on_bar takes an anchor leg and a boost and     *)
(* branches on pos.boost: one specification for both, the half that is not *)
(* the position's parked at one value.                                     *)
(*                                                                         *)
(* The leg has the shipped configuration in half-dollars (SL 18, TP 30,    *)
(* rungs at 5, 6 and 10, a hold of two bars), the boosts theirs in dollars *)
(* (backstops, arms, floors, the detector's tolerance); prices lie on and  *)
(* around every edge.                                                      *)
(***************************************************************************)
EXTENDS LegStop, BoostStop

VARIABLE boost   \* pos.boost

MCLegPrices == {-40, -36, -10, -1, 0, 1, 3, 4, 5, 7, 8, 9, 10, 11, 12, 13, 16,
                19, 20, 21, 24, 30, 40, 52, 60, 75}

MCHard == [k \in Kinds |-> IF k = "RALLY" THEN 13 ELSE 10]
MCArm == [k \in Kinds |-> IF k = "RALLY" THEN 5 ELSE 8]
MCFloor == [k \in Kinds |-> IF k = "RALLY" THEN 3 ELSE 8]
MCGap == [k \in Kinds |-> IF k = "RALLY" THEN 2 ELSE 4]
MCBoostPrices == {-14, -11, -8, -1, 0, 3, 5, 6, 8, 14, 30}

positionVars == <<vars, boostVars, boost>>

LegParked == role = "normal" /\ age = 0
BoostParked == kind = "RALLY" /\ parent = NoParent

PositionInit ==
  /\ boost \in BOOLEAN
  /\ Init /\ BoostInit
  /\ IF boost THEN LegParked ELSE BoostParked

PositionNext ==
  /\ UNCHANGED boost
  /\ \/ boost /\ BoostNext /\ UNCHANGED vars
     \/ ~boost /\ Next /\ UNCHANGED boostVars

PositionSpec == PositionInit /\ [][PositionNext]_positionVars
=============================================================================
