---------------------------- MODULE LadderRules ----------------------------
(***************************************************************************)
(* The stop rules of an anchor leg: what one closed M1 bar does to the     *)
(* peak and to the stop (strategy.update_position_on_bar and its helpers). *)
(*                                                                         *)
(* Every price is a signed distance from the leg's entry, positive in the  *)
(* leg's favour, so a SELL leg is the same leg as a BUY (the code writes   *)
(* both sides, or multiplies by the sign of the side).  The unit is free:  *)
(* only the order of the constants matters.                                *)
(***************************************************************************)
EXTENDS Extremes

CONSTANTS
  SlDist,      \* initial stop distance                     (cfg.sl_dist)
  TpDist,      \* take-profit distance                      (cfg.tp_dist)
  ArmBuffer,   \* nothing arms below this peak              (cfg.arm_buffer)
  BeTrigger,   \* peak from which the trail follows         (cfg.be_trigger)
  TrailGap,    \* distance of the trail below the peak      (cfg.trail_gap)
  MinStep,     \* smallest improvement the trail sends      (cfg.min_step)
  MaxJump,     \* garbage filter on the peak, 0 = disabled  (cfg.max_tick_jump)
  Rung1,       \* peak that arms the break-even rung
  Rung2, Lock2, \* peak that arms the second rung, and its lock
  Rung3, Lock3, \* peak that arms the third rung, and its least lock
  FollowGap    \* distance of the third rung below the peak

ASSUME DistancesAreNatural ==
  /\ {SlDist, TpDist, ArmBuffer, BeTrigger, TrailGap, MinStep, MaxJump,
      Rung1, Rung2, Lock2, Rung3, Lock3, FollowGap} \subseteq Nat
  /\ SlDist > 0 /\ TpDist > 0

\* The order of the rungs, and that each locks no more than the peak arming it.
ASSUME RungsAscend ==
  /\ 0 < BeTrigger
  /\ 0 < Rung1 /\ Rung1 <= Rung2 /\ Rung2 <= Rung3
  /\ Lock2 <= Rung2 /\ Lock2 <= Lock3 /\ Lock3 <= Rung3
  /\ ArmBuffer <= Rung1

Role == {"normal", "rescue"}

\* A peak is never worse than the entry, and advances only to an extreme that
\* does not jump more than MaxJump beyond it.
Floored(peak) == Higher(peak, 0)
Plausible(peak, best) == MaxJump = 0 \/ best - Floored(peak) <= MaxJump

\* What a bug could do: accept any extreme.
UpdateMaxFavUnfiltered(peak, best) == Higher(best, Floored(peak))

UpdateMaxFav(peak, best) ==
  IF best > Floored(peak) /\ Plausible(peak, best) THEN best ELSE Floored(peak)

\* The rung a peak asks for: the leg that rescues its twin only has the third.
RungFor(role, peak) ==
  IF peak >= Rung3 THEN 3
  ELSE IF role = "rescue" THEN 0
  ELSE IF peak >= Rung2 THEN 2
  ELSE IF peak >= Rung1 THEN 1
  ELSE 0

LockPrice(rung, peak) ==
  CASE rung = 1 -> 0
    [] rung = 2 -> Lock2
    [] rung = 3 -> Higher(Lock3, peak - FollowGap)

\* What a bug could do: refuse the lock at the very trigger.
TriggerPassed(rung, peak) ==
  peak > CASE rung = 1 -> Rung1 [] rung = 2 -> Rung2 [] rung = 3 -> Rung3

\* The phantom-lock guard, and the tripwire behind it.
TriggerReached(rung, peak) ==
  peak >= CASE rung = 1 -> Rung1 [] rung = 2 -> Rung2 [] rung = 3 -> Rung3
LockSupported(price, peak) == price <= peak

ApplyLock(sl, rung, peak) ==
  IF /\ rung # 0
     /\ TriggerReached(rung, peak)
     /\ LockSupported(LockPrice(rung, peak), peak)
  THEN Higher(sl, LockPrice(rung, peak))
  ELSE sl

\* The trail below the peak, outside the hold only.
TrailStop(peak) == Higher(0, peak - TrailGap)

ApplyTrail(sl, frozen, peak) ==
  IF ~frozen /\ peak >= BeTrigger /\ TrailStop(peak) > sl + MinStep
  THEN TrailStop(peak)
  ELSE sl

\* The stop after a bar that left the peak at `peak`.
LadderStop(role, sl, frozen, peak) ==
  IF peak >= ArmBuffer
  THEN ApplyTrail(ApplyLock(sl, RungFor(role, peak), peak), frozen, peak)
  ELSE sl

\* The stop the rungs alone ask for at a peak (no trail).
RungStop(role, peak) ==
  IF RungFor(role, peak) = 0 THEN -SlDist
  ELSE LockPrice(RungFor(role, peak), peak)

\* A bar closes the leg at its stop before anything else is looked at.
StopHit(sl, bar) == bar.worst <= sl
StopOutcome(sl) == IF sl <= -SlDist THEN "SL" ELSE "Trail"
TargetHit(bar) == bar.best >= TpDist
=============================================================================
