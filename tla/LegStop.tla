------------------------------ MODULE LegStop ------------------------------
(***************************************************************************)
(* One anchor leg driven by closed M1 bars, as the backtest and the live   *)
(* bot both drive it through strategy.update_position_on_bar.  The feed    *)
(* may hand over a bar whose favourable extreme never traded: the bar's    *)
(* `real` field is the best price that did, and is not seen by the code.   *)
(* An extreme is called garbage when it is further from the peak than the  *)
(* code's filter allows; one that is nearer cannot be told from a price.   *)
(***************************************************************************)
EXTENDS Position

VARIABLES
  outcome,  \* "open", or how the leg closed
  seen      \* history: the best price that really traded since the fill

vars == <<role, sl, peak, age, outcome, seen>>

Outcome == {"open", "SL", "Trail", "TP"}

\* A garbage extreme lies further from the peak than the filter's plausible move.
Bars ==
  {b \in [worst : Prices, best : Prices, real : Prices] :
     /\ b.worst <= b.real
     /\ b.real <= b.best
     /\ b.real = b.best \/ ~Plausible(peak, b.best)}

Init ==
  /\ role \in Role
  /\ sl = -SlDist
  /\ peak = 0
  /\ age \in {0, Hold}       \* a leg without a fill time is never frozen
  /\ outcome = "open"
  /\ seen = 0

\* The stop is checked first: a bar that touches it closes the leg.
CloseAtStop(bar) ==
  /\ StopHit(sl, bar)
  /\ outcome' = StopOutcome(sl)
  /\ UNCHANGED <<sl, peak>>

\* Otherwise the peak and the stop advance, and the target is checked last.
Advance(bar, a) ==
  /\ ~StopHit(sl, bar)
  /\ peak' = UpdateMaxFav(peak, bar.best)
  /\ sl' = LadderStop(role, sl, Frozen(a), peak')
  /\ outcome' = IF TargetHit(bar) THEN "TP" ELSE "open"

\* Bars may be skipped (a sleeping host), so the age can grow by any amount.
OnBar(bar, a) ==
  /\ outcome = "open"
  /\ a >= age
  /\ age' = a
  /\ seen' = Higher(seen, bar.real)
  /\ CloseAtStop(bar) \/ Advance(bar, a)
  /\ UNCHANGED role

Next == \E bar \in Bars, a \in 0..Hold : OnBar(bar, a)

Spec == Init /\ [][Next]_vars

-----------------------------------------------------------------------------
\* The leg stays in range: stop, peak and age by their bounds.
TypeOK ==
  /\ role \in Role
  /\ sl \in Int
  /\ peak \in Nat
  /\ age \in 0..Hold
  /\ outcome \in Outcome
  /\ seen \in Int

\* The stop never promises a price the market did not trade: it is still the
\* initial stop, or it lies at or below the best price really seen since the
\* fill -- however far beyond the plausible move the feed put an extreme (the
\* phantom lock of the A2 incident in strategy.update_max_fav); garbage nearer
\* than that is outside the claim.
NoPhantomLock == sl = -SlDist \/ sl <= seen

\* A rung, once its peak was reached, protects the leg until it closes:
\* through the hold, through rejected extremes and after any later bars the
\* stop lies at or above the rung (the role-aware profit ladder).
RungHeld == RungFor(role, peak) # 0 => sl >= RungStop(role, peak)

\* Inside the hold only the rungs move the stop: no trail can scratch a young
\* leg, in particular a rescue leg below its only rung keeps its full stop.
HoldMovesOnlyByRungs == Frozen(age) => sl = RungStop(role, peak)

\* After the hold the stop of an open leg follows the peak within the gap,
\* up to one step too small to send.
TrailFollows ==
  /\ outcome = "open"
  /\ ~Frozen(age)
  /\ peak >= Higher(BeTrigger, ArmBuffer)
  => sl >= TrailStop(peak) - MinStep

\* One-way ratchet: no bar ever moves the stop of a leg away from the market,
\* and a closed leg is never touched again.
StopOneWay == [][sl' >= sl /\ (outcome # "open" => UNCHANGED vars)]_vars
=============================================================================
