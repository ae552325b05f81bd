----------------------------- MODULE StaleSweep -----------------------------
(***************************************************************************)
(* The rules of the stale-leg sweep (stale_leg_sweep.py): which resting    *)
(* legs of earlier anchors are cancelled before a placement, and which are *)
(* spared as the rescue leg of an open position.  The origin of a leg is   *)
(* the tag in its order comment, so it survives a restart; a rescue boost  *)
(* carries no such tag and is never swept.                                 *)
(***************************************************************************)
EXTENDS Integers

CONSTANTS
  Trigger,    \* distance of a straddle's legs from its anchor (cfg.trigger_dist)
  Interval,   \* cfg.stale_leg_interval
  Tol         \* _RESCUE_LEG_TOL

ASSUME SweepBounds == {Trigger, Interval, Tol} \subseteq Nat

Sides == {"BUY", "SELL"}
Sign(side) == IF side = "BUY" THEN 1 ELSE -1
Dist(a, b) == IF a >= b THEN a - b ELSE b - a

LegPrice(leg) == leg.origin + Sign(leg.side) * Trigger

\* What a bug could do: be strict at the boundary.
IsStrictlyStale(origin, anchor) == Dist(origin, anchor) > Interval

IsStale(origin, anchor) == Dist(origin, anchor) >= Interval

\* The opposite leg of an open position, found by its distance alone; every
\* position on the symbol counts, a boost's too.
IsRescueLeg(leg, open) ==
  \E p \in open :
    /\ p.side # leg.side
    /\ Dist(Dist(LegPrice(leg), p.entry), Interval) <= Tol

Sweepable(leg, open, anchor) == IsStale(leg.origin, anchor) /\ ~IsRescueLeg(leg, open)
=============================================================================
