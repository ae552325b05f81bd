--------------------------- MODULE LegStopProofs ---------------------------
(***************************************************************************)
(* The stop of an anchor leg, for every setting of the distances: lemmas   *)
(* on the ladder's operators, the inductive invariant, and the theorems;   *)
(* the same leg between bot, broker and state file (LiveStop), which       *)
(* computes its stop by the same rules; the stop of a boost (BoostStop),   *)
(* which rides with a leg's; and the fleet of boosts of a leg              *)
(* (RallyBoosts).                                                          *)
(***************************************************************************)
EXTENDS LegStop, LiveStop, BoostStop, RallyBoosts, TLAPS

\* Naturals as seen by the provers, in one place.
LEMMA ConstantsInNat ==
  /\ SlDist \in Nat /\ TpDist \in Nat /\ ArmBuffer \in Nat /\ BeTrigger \in Nat
  /\ TrailGap \in Nat /\ MinStep \in Nat /\ MaxJump \in Nat
  /\ Rung1 \in Nat /\ Rung2 \in Nat /\ Rung3 \in Nat
  /\ Lock2 \in Nat /\ Lock3 \in Nat /\ FollowGap \in Nat
BY DistancesAreNatural

\* A rung that is asked for has its trigger reached and its lock supported by
\* the peak, so the phantom guard and the tripwire never refuse it here.
LEMMA RungSupported ==
  ASSUME NEW r \in Role, NEW p \in Nat, RungFor(r, p) # 0
  PROVE  /\ TriggerReached(RungFor(r, p), p)
         /\ LockSupported(LockPrice(RungFor(r, p), p), p)
         /\ LockPrice(RungFor(r, p), p) \in Int
         /\ LockPrice(RungFor(r, p), p) >= 0
         /\ p >= ArmBuffer
<1>1. CASE RungFor(r, p) = 3
  BY <1>1, ConstantsInNat, RungsAscend
  DEF RungFor, TriggerReached, LockSupported, LockPrice, Higher
<1>2. CASE RungFor(r, p) = 2
  BY <1>2, ConstantsInNat, RungsAscend
  DEF RungFor, TriggerReached, LockSupported, LockPrice, Higher
<1>3. CASE RungFor(r, p) = 1
  BY <1>3, ConstantsInNat, RungsAscend
  DEF RungFor, TriggerReached, LockSupported, LockPrice, Higher
<1>4. RungFor(r, p) \in {0, 1, 2, 3}
  BY DEF RungFor
<1> QED
  BY <1>1, <1>2, <1>3, <1>4

\* What the rungs ask for grows with the peak.
LEMMA RungStopMonotone ==
  ASSUME NEW r \in Role, NEW p \in Nat, NEW q \in Nat, p <= q
  PROVE  /\ RungStop(r, p) \in Int
         /\ RungStop(r, p) >= -SlDist
         /\ RungStop(r, p) <= RungStop(r, q)
BY ConstantsInNat, RungsAscend DEF RungStop, RungFor, LockPrice, Higher, Role

\* A bar that leaves the peak at p moves a stop only upward, never beyond p,
\* at least to the rung of p, and inside the hold exactly to it.
LEMMA LadderStopBounds ==
  ASSUME NEW r \in Role, NEW s \in Int, s >= -SlDist,
         NEW f \in BOOLEAN, NEW p \in Nat
  PROVE  /\ LadderStop(r, s, f, p) \in Int
         /\ LadderStop(r, s, f, p) >= s
         /\ LadderStop(r, s, f, p) = s \/ LadderStop(r, s, f, p) <= p
         /\ LadderStop(r, s, f, p) >= RungStop(r, p)
         /\ f => LadderStop(r, s, f, p) = Higher(s, RungStop(r, p))
         /\ ~f /\ p >= Higher(BeTrigger, ArmBuffer)
              => LadderStop(r, s, f, p) >= TrailStop(p) - MinStep
<1> DEFINE locked == ApplyLock(s, RungFor(r, p), p)
<1>1. /\ locked \in Int /\ locked >= s
      /\ locked = s \/ locked <= p
      /\ locked = Higher(s, RungStop(r, p))
  <2>1. CASE RungFor(r, p) = 0
    BY <2>1, ConstantsInNat DEF ApplyLock, RungStop, Higher
  <2>2. CASE RungFor(r, p) # 0
    <3>1. locked = Higher(s, LockPrice(RungFor(r, p), p))
      BY <2>2, RungSupported DEF ApplyLock
    <3>2. RungStop(r, p) = LockPrice(RungFor(r, p), p)
      BY <2>2 DEF RungStop
    <3> QED
      BY <2>2, <3>1, <3>2, RungSupported DEF LockSupported, Higher
  <2> QED
    BY <2>1, <2>2
<1>2. RungStop(r, p) \in Int
  BY RungStopMonotone
<1>3. CASE p >= ArmBuffer
  <2>1. LadderStop(r, s, f, p) = ApplyTrail(locked, f, p)
    BY <1>3 DEF LadderStop
  <2> HIDE DEF locked
  <2>2. /\ TrailStop(p) \in Int /\ TrailStop(p) <= p
    BY ConstantsInNat DEF TrailStop, Higher
  <2> QED
    BY <1>1, <1>2, <1>3, <2>1, <2>2, ConstantsInNat DEF ApplyTrail, Higher
<1>4. CASE ~(p >= ArmBuffer)
  <2>1. LadderStop(r, s, f, p) = s
    BY <1>4 DEF LadderStop
  <2>2. RungFor(r, p) = 0
    BY <1>4, RungSupported
  <2>3. RungStop(r, p) = -SlDist
    BY <2>2 DEF RungStop
  <2> QED
    BY <1>4, <2>1, <2>3, ConstantsInNat DEF Higher
<1> QED
  BY <1>3, <1>4

-----------------------------------------------------------------------------
\* The peak was really traded, and the stop is never below its first level:
\* with the checked invariants this is inductive.
PeakSeen == peak <= seen
StopFloor == sl >= -SlDist
IInv ==
  /\ TypeOK
  /\ PeakSeen
  /\ StopFloor
  /\ NoPhantomLock
  /\ RungHeld
  /\ HoldMovesOnlyByRungs
  /\ TrailFollows

LEMMA InitIInv == Init => IInv
<1> SUFFICES ASSUME Init PROVE IInv
  OBVIOUS
<1>1. RungFor(role, peak) = 0
  BY ConstantsInNat, RungsAscend DEF Init, RungFor
<1> QED
  BY <1>1, ConstantsInNat, RungsAscend, HoldIsNat
  DEF Init, IInv, TypeOK, PeakSeen, StopFloor, NoPhantomLock, RungHeld,
      HoldMovesOnlyByRungs, TrailFollows, RungStop, Outcome, Higher

\* The new peak of a bar: at least the old one, and really traded.
LEMMA PeakInRange ==
  ASSUME IInv, NEW bar \in Bars
  PROVE  /\ bar.best \in Int /\ bar.real \in Int /\ bar.worst \in Int
         /\ UpdateMaxFav(peak, bar.best) \in Nat
         /\ UpdateMaxFav(peak, bar.best) >= peak
         /\ UpdateMaxFav(peak, bar.best) <= Higher(seen, bar.real)
<1>1. /\ bar.best \in Int /\ bar.real \in Int /\ bar.worst \in Int
  BY PricesAreInts DEF Bars
<1>2. bar.real = bar.best \/ ~Plausible(peak, bar.best)
  BY DEF Bars
<1> QED
  BY <1>1, <1>2
  DEF IInv, TypeOK, PeakSeen, UpdateMaxFav, Floored, Higher

LEMMA NextIInv == IInv /\ [Next]_vars => IInv'
<1> SUFFICES ASSUME IInv, [Next]_vars PROVE IInv'
  OBVIOUS
<1> USE DEF IInv
<1>1. CASE Next
  <2> PICK bar \in Bars, a \in 0..Hold : OnBar(bar, a)
    BY <1>1 DEF Next
  <2>0. /\ a \in Int /\ a >= age /\ age' = a /\ role' = role /\ outcome = "open"
        /\ seen' = Higher(seen, bar.real) /\ seen' \in Int /\ seen' >= seen
    BY PeakInRange, HoldIsNat DEF OnBar, TypeOK, Higher
  <2>1. CASE CloseAtStop(bar)
    <3>1. sl' = sl /\ peak' = peak /\ outcome' \in Outcome /\ outcome' # "open"
      BY <2>1 DEF CloseAtStop, StopOutcome, Outcome
    <3>2. TypeOK' /\ PeakSeen' /\ StopFloor' /\ NoPhantomLock'
      BY <2>0, <3>1 DEF TypeOK, PeakSeen, StopFloor, NoPhantomLock
    <3>3. RungHeld' /\ HoldMovesOnlyByRungs' /\ TrailFollows'
      BY <2>0, <3>1, HoldIsNat
      DEF TypeOK, RungHeld, HoldMovesOnlyByRungs, TrailFollows, Frozen
    <3> QED
      BY <3>2, <3>3
  <2>2. CASE Advance(bar, a)
    <3>1. /\ peak' \in Nat /\ peak' >= peak /\ peak' <= seen'
          /\ sl' = LadderStop(role, sl, Frozen(a), peak')
          /\ outcome' \in Outcome
      BY <2>0, <2>2, PeakInRange DEF Advance, Outcome
    <3>2. Frozen(a) \in BOOLEAN
      BY DEF Frozen
    <3>3. /\ sl' \in Int /\ sl' >= sl
          /\ sl' = sl \/ sl' <= peak'
          /\ sl' >= RungStop(role, peak')
          /\ Frozen(a) => sl' = Higher(sl, RungStop(role, peak'))
          /\ ~Frozen(a) /\ peak' >= Higher(BeTrigger, ArmBuffer)
               => sl' >= TrailStop(peak') - MinStep
      <4> HIDE DEF IInv
      <4>1. role \in Role /\ sl \in Int /\ sl >= -SlDist
        BY DEF IInv, TypeOK, StopFloor
      <4> QED
        BY <3>1, <3>2, <4>1, LadderStopBounds
    <3>4. TypeOK' /\ PeakSeen' /\ StopFloor'
      BY <2>0, <3>1, <3>3, ConstantsInNat DEF TypeOK, PeakSeen, StopFloor
    <3>5. NoPhantomLock'
      BY <2>0, <3>1, <3>3 DEF NoPhantomLock, TypeOK
    <3>6. RungHeld'
      BY <2>0, <3>3 DEF RungHeld
    <3>7. HoldMovesOnlyByRungs'
      <4>1. Frozen(a) => Frozen(age)
        BY <2>0, HoldIsNat DEF Frozen, TypeOK
      <4>2. /\ RungStop(role, peak) \in Int /\ RungStop(role, peak') \in Int
            /\ RungStop(role, peak) <= RungStop(role, peak')
        BY <3>1, RungStopMonotone DEF TypeOK
      <4> QED
        BY <2>0, <3>3, <4>1, <4>2 DEF HoldMovesOnlyByRungs, Higher, Frozen
    <3>8. TrailFollows'
      BY <2>0, <3>3 DEF TrailFollows, Frozen
    <3> QED
      BY <3>4, <3>5, <3>6, <3>7, <3>8
  <2> QED
    BY <2>1, <2>2 DEF OnBar
<1>2. CASE UNCHANGED vars
  BY <1>2 DEF vars, TypeOK, PeakSeen, StopFloor, NoPhantomLock, RungHeld,
              HoldMovesOnlyByRungs, TrailFollows, Frozen
<1> QED
  BY <1>1, <1>2

LEMMA Inductive == Spec => []IInv
BY InitIInv, NextIInv, PTL DEF Spec

\* Every variable keeps its type.
THEOREM TypeCorrect == Spec => []TypeOK
BY Inductive, PTL DEF IInv

\* No setting of the distances and no garbage in the feed makes the stop
\* promise a price that never traded.
THEOREM PhantomLockFree == Spec => []NoPhantomLock
BY Inductive, PTL DEF IInv

\* The profit ladder holds its rung for the rest of the leg's life.
THEOREM RungIsKept == Spec => []RungHeld
BY Inductive, PTL DEF IInv

\* Inside the hold the stop is exactly the rung of the peak.
THEOREM HoldIsRespected == Spec => []HoldMovesOnlyByRungs
BY Inductive, PTL DEF IInv

\* After the hold the stop follows the peak within the gap and one step.
THEOREM TrailIsTight == Spec => []TrailFollows
BY Inductive, PTL DEF IInv

\* One step of the leg never loosens the stop.
LEMMA StepOneWay ==
  IInv /\ [Next]_vars => [sl' >= sl /\ (outcome # "open" => UNCHANGED vars)]_vars
<1> SUFFICES ASSUME IInv, Next
             PROVE  sl' >= sl /\ (outcome # "open" => UNCHANGED vars)
  OBVIOUS
<1> PICK bar \in Bars, a \in 0..Hold : OnBar(bar, a)
  BY DEF Next
<1>0. outcome = "open" /\ sl \in Int /\ sl >= -SlDist /\ role \in Role
  BY DEF OnBar, IInv, TypeOK, StopFloor
<1>1. CASE CloseAtStop(bar)
  BY <1>0, <1>1 DEF CloseAtStop
<1>2. CASE Advance(bar, a)
  <2>1. peak' \in Nat
    BY <1>2, PeakInRange DEF Advance
  <2>2. sl' = LadderStop(role, sl, Frozen(a), peak') /\ Frozen(a) \in BOOLEAN
    BY <1>2 DEF Advance, Frozen
  <2> QED
    BY <1>0, <2>1, <2>2, LadderStopBounds
<1> QED
  BY <1>1, <1>2 DEF OnBar

\* The stop of a leg is a one-way ratchet.
THEOREM RatchetIsOneWay == Spec => StopOneWay
BY Inductive, StepOneWay, PTL DEF Spec, StopOneWay

-----------------------------------------------------------------------------
(* The leg between bot, broker and state file (LiveStop), whose stop is    *)
(* computed by the same rules.                                             *)

\* Wherever a stop is (an adjusted retry may have put it below the initial one),
\* the ladder leaves it, or raises it to the rung or to the trail.
LEMMA LadderRaises ==
  ASSUME NEW r \in Role, NEW s \in Int, NEW f \in BOOLEAN, NEW p \in Nat
  PROVE  /\ LadderStop(r, s, f, p) \in Int /\ LadderStop(r, s, f, p) >= s
         /\ RungFor(r, p) # 0 => LadderStop(r, s, f, p) >= RungStop(r, p)
         /\ \/ LadderStop(r, s, f, p) = s
            \/ RungFor(r, p) # 0 /\ LadderStop(r, s, f, p) = RungStop(r, p)
            \/ ~f /\ LadderStop(r, s, f, p) = TrailStop(p)
<1> DEFINE locked == ApplyLock(s, RungFor(r, p), p)
<1>1. /\ locked \in Int /\ locked >= s
      /\ RungFor(r, p) # 0 => locked = Higher(s, RungStop(r, p))
      /\ RungFor(r, p) = 0 => locked = s
  <2>1. CASE RungFor(r, p) = 0
    BY <2>1 DEF ApplyLock
  <2>2. CASE RungFor(r, p) # 0
    <3>1. locked = Higher(s, LockPrice(RungFor(r, p), p))
      BY <2>2, RungSupported DEF ApplyLock
    <3>2. RungStop(r, p) = LockPrice(RungFor(r, p), p)
      BY <2>2 DEF RungStop
    <3> QED BY <2>2, <3>1, <3>2, RungSupported DEF Higher
  <2> QED BY <2>1, <2>2
<1>2. RungStop(r, p) \in Int /\ TrailStop(p) \in Int
  BY RungStopMonotone, ConstantsInNat DEF TrailStop, Higher
<1>3. CASE p >= ArmBuffer
  <2>1. LadderStop(r, s, f, p) = ApplyTrail(locked, f, p)
    BY <1>3 DEF LadderStop
  <2> HIDE DEF locked
  <2>2. \/ ApplyTrail(locked, f, p) = locked
        \/ /\ ~f /\ ApplyTrail(locked, f, p) = TrailStop(p)
           /\ TrailStop(p) > locked + MinStep
    BY DEF ApplyTrail
  <2> QED BY <1>1, <1>2, <2>1, <2>2, ConstantsInNat DEF Higher
<1>4. CASE ~(p >= ArmBuffer)
  <2>1. LadderStop(r, s, f, p) = s
    BY <1>4 DEF LadderStop
  <2>2. RungFor(r, p) = 0
    BY <1>4, RungSupported
  <2> QED BY <2>1, <2>2
<1> QED BY <1>3, <1>4

\* What the constants of the live leg are.
LEMMA LiveConstants ==
  /\ Hold \in Nat /\ Probe \in Nat /\ StopsLevel \in Nat /\ TstopFav \in Nat
  /\ Level1 \in Nat /\ 0 < Level1
  /\ Higher(Probe, StopsLevel) \in Nat
  /\ Higher(Probe, StopsLevel) >= Probe /\ Higher(Probe, StopsLevel) >= StopsLevel
BY HoldIsNat, LiveDistances DEF Higher

\* An open position is above its resting stop, and the stop the bot believes in
\* is no further below that than the broker's distance: else sending it would
\* give more than that back.
Kept ==
  /\ open => bsl < mkt
  /\ sl >= bsl \/ bsl - sl < Higher(Probe, StopsLevel)

\* The inductive invariant of the live leg.
LiveInv == LiveTypeOK /\ Kept

\* The numbers of one pass.
LEMMA PassNumbers ==
  ASSUME LiveTypeOK
  PROVE  /\ role \in Role /\ NewPeak \in Nat /\ NewPeak >= peak
         /\ NewStop \in Int /\ NewStop >= sl
         /\ Intended \in Int
         /\ \/ Intended = NewStop
            \/ Intended = sl
            \/ Intended = mkt - StopsLevel
         /\ ShadowStop \in {NewStop, Intended}
         /\ ShadowStop >= Intended
         /\ AdjustedStop = mkt - Higher(Probe, StopsLevel)
         /\ Aged \in 0..Hold
<1>1. /\ role \in Role /\ sl \in Int /\ mkt \in Int /\ lo \in Int /\ hi \in Int
      /\ peak \in Nat /\ age \in 0..Hold
  BY DEF LiveTypeOK
<1>2. NewPeak \in Nat /\ NewPeak >= peak
  <2>1. UpdateMaxFav(peak, hi) \in Nat /\ UpdateMaxFav(peak, hi) >= peak
    BY <1>1 DEF UpdateMaxFav, Floored, Higher
  <2> QED BY <1>1, <2>1 DEF NewPeak
<1>3. NewStop \in Int /\ NewStop >= sl
  <2>1. Frozen(age) \in BOOLEAN
    BY DEF Frozen
  <2>2. LET s == LadderStop(role, sl, Frozen(age), NewPeak) IN s \in Int /\ s >= sl
    BY <1>1, <1>2, <2>1, LadderRaises
  <2> QED BY <1>1, <2>2 DEF NewStop
<1>4. /\ Intended \in Int
      /\ Intended \in {NewStop, sl, mkt - StopsLevel}
      /\ ShadowStop \in {NewStop, Intended}
      /\ ShadowStop >= Intended
  BY <1>1, <1>3, LiveConstants DEF Intended, ShadowStop, Lower
<1>5. AdjustedStop = mkt - Higher(Probe, StopsLevel)
  BY DEF AdjustedStop
<1>6. Aged \in 0..Hold
  BY <1>1, LiveConstants DEF Aged, Lower
<1> QED BY <1>1, <1>2, <1>3, <1>4, <1>5, <1>6

\* Whatever a pass sends, it keeps the two stops together and gives back less
\* than the broker's distance.
LEMMA Reasserts ==
  ASSUME 0 < Probe, LiveInv, open, Reassert
  PROVE  /\ bsl' \in Int /\ sl' \in Int /\ bsl' < mkt
         /\ bsl' >= bsl \/ bsl - bsl' < Higher(Probe, StopsLevel)
         /\ sl' >= bsl' \/ bsl' - sl' < Higher(Probe, StopsLevel)
<1>1. LiveTypeOK /\ Kept /\ bsl \in Int /\ sl \in Int /\ mkt \in Int /\ bsl < mkt
  BY DEF LiveInv, LiveTypeOK, Kept
<1> DEFINE new == NewStop  goal == Intended  shade == ShadowStop
           least == Higher(Probe, StopsLevel)
<1>2. /\ new \in Int /\ new >= sl /\ goal \in Int
      /\ goal = new \/ goal = sl \/ goal = mkt - StopsLevel
      /\ shade \in {new, goal} /\ shade >= goal
      /\ AdjustedStop = mkt - least
  BY <1>1, PassNumbers
<1>3. /\ least \in Nat /\ least >= Probe /\ least >= StopsLevel
      /\ Probe \in Nat /\ StopsLevel \in Nat
  BY LiveConstants
<1>4. /\ goal >= bsl \/ bsl - goal < least
      /\ shade \in Int /\ (shade >= bsl \/ bsl - shade < least)
  BY <1>1, <1>2, <1>3 DEF Kept
<1> HIDE DEF new, goal, shade, least
<1>5. CASE bsl' = bsl /\ sl' = shade
  BY <1>1, <1>4, <1>5 DEF least
<1>6. CASE Asserted
  <2>1. bsl' = goal /\ sl' = shade /\ goal <= mkt - Probe
    BY <1>6 DEF Asserted, Legal, shade, goal
  <2>2. goal < mkt
    BY <1>1, <1>2, <1>3, <2>1
  <2>3. shade >= goal
    BY <1>2
  <2> QED BY <1>1, <1>2, <1>4, <2>1, <2>2, <2>3 DEF least
<1>7. CASE Adjusted
  <2>1. bsl' = mkt - least /\ sl' = bsl'
    BY <1>2, <1>7 DEF Adjusted
  <2> QED BY <1>1, <1>3, <2>1 DEF least
<1>8. CASE InPlace \/ Refused \/ \E ok \in BOOLEAN : FallbackClose(ok)
  <2>1. bsl' = bsl /\ sl' = shade
    BY <1>8 DEF InPlace, Refused, FallbackClose, shade
  <2> QED BY <1>5, <2>1
<1> QED BY <1>6, <1>7, <1>8 DEF Reassert

\* The flags a pass leaves: the broker may or may not have closed the position.
LEMMA PassFlags ==
  ASSUME LiveTypeOK, Reassert \/ \E ok \in BOOLEAN : TimeStop(ok)
  PROVE  open' \in BOOLEAN /\ settled' \in BOOLEAN
<1>1. open \in BOOLEAN
  BY DEF LiveTypeOK
<1>2. CASE InPlace \/ Asserted \/ Refused \/ Adjusted
  BY <1>1, <1>2, Zenon DEF InPlace, Asserted, Refused, Adjusted
<1>3. CASE \E ok \in BOOLEAN : FallbackClose(ok) \/ TimeStop(ok)
  BY <1>3, Zenon DEF FallbackClose, TimeStop, CloseOrder
<1> QED BY <1>2, <1>3, Zenon DEF Reassert

\* Every step keeps the two stops together; no step gives back as much as the
\* broker's distance.
LEMMA LiveSteps ==
  ASSUME 0 < Probe, LiveInv, [LiveNext]_liveVars
  PROVE  LiveInv' /\ (bsl' >= bsl \/ bsl - bsl' < Higher(Probe, StopsLevel))
<1>1. /\ LiveTypeOK /\ Kept
      /\ role \in Role /\ Role = Role
      /\ open \in BOOLEAN /\ up \in BOOLEAN /\ settled \in BOOLEAN
      /\ mkt \in Int /\ lo \in Int /\ hi \in Int /\ bsl \in Int /\ sl \in Int
      /\ lo <= mkt /\ mkt <= hi
      /\ peak \in Nat /\ saved \in Nat /\ age \in 0..Hold
  BY DEF LiveInv, LiveTypeOK
<1>2. /\ NewPeak \in Nat /\ NewStop \in Int /\ NewStop >= sl
      /\ Aged \in 0..Hold /\ Higher(Probe, StopsLevel) \in Nat
  BY <1>1, PassNumbers, LiveConstants
<1>3. ASSUME NEW p \in Prices, MarketMoves(p)
      PROVE  LiveInv' /\ bsl' = bsl
  <2>1. p \in Int
    BY PricesAreInts
  <2>2. /\ mkt' = p /\ lo' = Lower(lo, p) /\ hi' = Higher(hi, p)
        /\ open' = (bsl < p /\ p < TpDist) /\ settled' = FALSE
        /\ UNCHANGED <<role, bsl, sl, peak, age, up, saved>>
    BY <1>3 DEF MarketMoves
  <2>3. open' \in BOOLEAN /\ (open' => bsl' < mkt') /\ settled' \in BOOLEAN
    BY <2>2, Zenon
  <2>4. lo' \in Int /\ hi' \in Int /\ lo' <= p /\ p <= hi'
    BY <1>1, <2>1, <2>2 DEF Lower, Higher
  <2> QED BY <1>1, <2>1, <2>2, <2>3, <2>4 DEF LiveInv, LiveTypeOK, Kept
<1>4. CASE BarClose
  <2>1. open /\ peak' = NewPeak /\ age' = Aged /\ lo' = mkt /\ hi' = mkt
        /\ saved' \in {NewPeak, saved} /\ UNCHANGED <<role, mkt, up>>
    BY <1>4 DEF BarClose, Saves
  <2>2. open' \in BOOLEAN /\ settled' \in BOOLEAN
    BY <1>1, <1>4, PassFlags DEF BarClose
  <2>3. /\ bsl' \in Int /\ sl' \in Int /\ bsl' < mkt
        /\ bsl' >= bsl \/ bsl - bsl' < Higher(Probe, StopsLevel)
        /\ sl' >= bsl' \/ bsl' - sl' < Higher(Probe, StopsLevel)
    <3>1. CASE Reassert
      BY <2>1, <3>1, Reasserts
    <3>2. CASE \E ok \in BOOLEAN : TimeStop(ok)
      <4>1. bsl' = bsl /\ sl' = NewStop
        BY <3>2 DEF TimeStop
      <4> QED BY <1>1, <1>2, <2>1, <4>1 DEF Kept
    <3> QED BY <1>4, <3>1, <3>2 DEF BarClose
  <2>4. Kept'
    BY <2>1, <2>3 DEF Kept
  <2> QED BY <1>1, <1>2, <2>1, <2>2, <2>3, <2>4 DEF LiveInv, LiveTypeOK
<1>5. CASE CrashBeforeSave
  <2>1. /\ open /\ Reassert /\ up' = FALSE /\ age' = Aged /\ lo' = mkt /\ hi' = mkt
        /\ UNCHANGED <<role, mkt, peak, saved>>
    BY <1>5 DEF CrashBeforeSave, Reassert
  <2>2. open' \in BOOLEAN /\ settled' \in BOOLEAN
    BY <1>1, <2>1, PassFlags
  <2>3. /\ bsl' \in Int /\ sl' \in Int /\ bsl' < mkt
        /\ bsl' >= bsl \/ bsl - bsl' < Higher(Probe, StopsLevel)
        /\ sl' >= bsl' \/ bsl' - sl' < Higher(Probe, StopsLevel)
    BY <2>1, Reasserts
  <2>4. Kept'
    BY <2>1, <2>3 DEF Kept
  <2>5. up' \in BOOLEAN
    BY <2>1, Zenon
  <2> QED BY <1>1, <1>2, <2>1, <2>2, <2>3, <2>4, <2>5 DEF LiveInv, LiveTypeOK
<1>6. CASE Crash \/ BarMissed
  <2>1. /\ UNCHANGED <<role, open, mkt, bsl, sl, peak, saved>>
        /\ up' \in BOOLEAN /\ settled' \in BOOLEAN /\ age' \in {age, Aged}
        /\ (lo' = lo /\ hi' = hi) \/ (lo' = mkt /\ hi' = mkt)
    BY <1>1, <1>6 DEF Crash, BarMissed, market
  <2> QED BY <1>1, <1>2, <2>1 DEF LiveInv, LiveTypeOK, Kept
<1>7. CASE Restart
  <2>1. /\ sl' = bsl /\ peak' = saved
        /\ UNCHANGED <<role, open, mkt, lo, hi, bsl, age, saved>>
    BY <1>7 DEF Restart, market
  <2>2. up' \in BOOLEAN /\ settled' \in BOOLEAN
    BY <1>7, Zenon DEF Restart
  <2> QED BY <1>1, <2>1, <2>2 DEF LiveInv, LiveTypeOK, Kept
<1>8. CASE UNCHANGED liveVars
  BY <1>1, <1>8 DEF liveVars, LiveInv, LiveTypeOK, Kept
<1>9. bsl' = bsl => bsl' >= bsl
  BY <1>1
<1>10. ASSUME BarClose \/ CrashBeforeSave
       PROVE  bsl' >= bsl \/ bsl - bsl' < Higher(Probe, StopsLevel)
  <2>1. CASE Reassert
    <3>1. open
      BY <1>10 DEF BarClose, CrashBeforeSave
    <3> QED BY <2>1, <3>1, Reasserts
  <2>2. CASE \E ok \in BOOLEAN : TimeStop(ok)
    BY <1>1, <2>2 DEF TimeStop
  <2> QED BY <1>10, <2>1, <2>2 DEF BarClose, CrashBeforeSave, Reassert
<1>11. ASSUME Crash \/ BarMissed \/ Restart \/ UNCHANGED liveVars
       PROVE  bsl' = bsl
  BY <1>11 DEF Crash, BarMissed, Restart, liveVars
<1> QED BY <1>3, <1>4, <1>5, <1>6, <1>7, <1>8, <1>9, <1>10, <1>11 DEF LiveNext

\* The leg starts with both stops at the initial one.
LEMMA LiveStart == LiveInit => LiveInv
<1> SUFFICES ASSUME LiveInit PROVE LiveInv
  OBVIOUS
<1>1. /\ role \in Role /\ mkt = 0 /\ lo = 0 /\ hi = 0
      /\ bsl = -SlDist /\ sl = -SlDist /\ peak = 0 /\ saved = 0 /\ age = 0
  BY DEF LiveInit
<1>2. open \in BOOLEAN /\ up \in BOOLEAN /\ settled \in BOOLEAN
  BY Zenon DEF LiveInit
<1>3. SlDist \in Nat /\ SlDist > 0
  BY DistancesAreNatural
<1> QED BY <1>1, <1>2, <1>3, LiveConstants DEF LiveInv, LiveTypeOK, Kept

\* Both hold for the whole life of the leg.
LEMMA LiveInvariance ==
  ASSUME 0 < Probe
  PROVE  LiveSpec => []LiveInv
BY LiveStart, LiveSteps, PTL DEF LiveSpec

\* The type invariant of the live leg: shadow, broker and file keep their range
\* whatever is refused, skipped or forgotten.
THEOREM LiveTypeCorrect ==
  ASSUME 0 < Probe
  PROVE  LiveSpec => []LiveTypeOK
BY LiveInvariance, PTL DEF LiveInv

\* Whatever the clamp, the adjusted retry and the rehydration do, the stop at the
\* broker never gives back its distance or more in one step (trails.py): the stop
\* the bot believes in never falls further than that behind the one that rests.
THEOREM BrokerStopIsKept ==
  ASSUME 0 < Probe
  PROVE  LiveSpec => BrokerStopKeeps
<1>1. LiveInv /\ [LiveNext]_liveVars
        => [bsl' >= bsl \/ bsl - bsl' < Higher(Probe, StopsLevel)]_liveVars
  BY LiveSteps
<1> QED BY <1>1, LiveInvariance, PTL DEF LiveSpec, BrokerStopKeeps

\* A pass that ends keeps the peak of a rung in the file: it saves a peak that
\* advanced, and a leg it times out has never reached a rung.
LEMMA PeakSaved ==
  ASSUME TstopFav <= Rung1, LiveInv, PeakSurvives,
         [LiveNext]_liveVars
  PROVE  PeakSurvives'
<1>1. CASE \/ \E p \in Prices : MarketMoves(p)
           \/ BarMissed \/ UNCHANGED liveVars
  BY <1>1 DEF PeakSurvives, RungFor, MarketMoves, BarMissed, liveVars
<1>2. CASE Crash \/ CrashBeforeSave \/ Restart
  BY <1>2 DEF PeakSurvives, Crash, CrashBeforeSave, Restart
<1>3. CASE BarClose
  <2>1. /\ peak' = NewPeak /\ saved' = Saves
        /\ UNCHANGED <<role, up>>
    BY <1>3 DEF BarClose
  <2>2. CASE TimedOut
    <3>1. NewPeak < Rung1 /\ NewPeak \in Nat
      BY <2>2, PassNumbers, LiveConstants, ConstantsInNat DEF TimedOut, LiveInv
    <3>2. \A r : RungFor(r, NewPeak) = 0
      BY <3>1, ConstantsInNat, RungsAscend DEF RungFor
    <3>3. RungFor(role', peak') = 0
      BY <2>1, <3>2
    <3> QED BY <3>3 DEF PeakSurvives
  <2>3. CASE ~TimedOut /\ NewPeak # peak
    BY <2>1, <2>3 DEF PeakSurvives, Saves
  <2>4. CASE ~TimedOut /\ NewPeak = peak
    <3>1. saved' \in {NewPeak, saved}
      BY <2>1 DEF Saves
    <3> QED BY <2>1, <2>4, <3>1 DEF PeakSurvives, RungFor
  <2> QED BY <2>2, <2>3, <2>4
<1> QED BY <1>1, <1>2, <1>3 DEF LiveNext

\* A restart never loses a rung: the state file holds the peak that armed it
\* whenever the bot is up (trails.py saves at the end of the pass).
THEOREM RungSurvivesRestart ==
  ASSUME 0 < Probe, TstopFav <= Rung1
  PROVE  LiveSpec => []PeakSurvives
<1>1. LiveInit => PeakSurvives
  BY DEF LiveInit, PeakSurvives
<1>2. LiveInv /\ PeakSurvives /\ [LiveNext]_liveVars => PeakSurvives'
  BY PeakSaved
<1> QED BY <1>1, <1>2, LiveInvariance, PTL DEF LiveSpec, PeakSurvives

\* A rung the broker accepts is below what a settled pass leaves there: the
\* clamp never takes the stop below it, nor does the adjusted retry.
LEMMA SettledPass ==
  ASSUME StopsLevel <= Probe, LiveInv,
         InPlace \/ Asserted \/ Adjusted,
         RungFor(role, NewPeak) # 0, ~StopHit(sl, Bar),
         RungStop(role, NewPeak) <= mkt - Probe,
         Frozen(age) \/ TrailStop(NewPeak) <= mkt - Probe
  PROVE  bsl' >= RungStop(role, NewPeak)
<1> DEFINE p == NewPeak  rung == RungStop(role, p)  new == NewStop
<1>1. /\ role \in Role /\ p \in Nat /\ sl \in Int /\ mkt \in Int
      /\ Probe \in Nat /\ StopsLevel \in Nat
  BY PassNumbers, LiveConstants DEF LiveInv, LiveTypeOK
<1>2. rung \in Int /\ Frozen(age) \in BOOLEAN
  BY <1>1, RungStopMonotone DEF Frozen
<1>3. new = LadderStop(role, sl, Frozen(age), p)
  BY DEF NewStop
<1>4. /\ new \in Int /\ new >= rung
      /\ \/ new = sl
         \/ new = rung
         \/ ~Frozen(age) /\ new = TrailStop(p)
  BY <1>1, <1>2, <1>3, LadderRaises
<1>5. rung <= mkt - Probe /\ (Frozen(age) \/ TrailStop(p) <= mkt - Probe)
  OBVIOUS
<1> HIDE DEF p, rung, new
<1>6. Through => new = sl
  <2>1. Through <=> new > mkt - StopsLevel
    BY DEF Through, new
  <2> QED BY <1>1, <1>2, <1>4, <1>5, <2>1
<1>7. Intended >= rung
  <2>1. CASE ~Through
    BY <1>4, <2>1 DEF Intended, new
  <2>2. CASE Through
    <3>1. Intended \in {sl, mkt - StopsLevel}
      BY <1>1, <2>2 DEF Intended, Lower
    <3> QED BY <1>1, <1>2, <1>4, <1>5, <1>6, <2>2, <3>1
  <2> QED BY <2>1, <2>2
<1>8. CASE InPlace \/ Asserted
  BY <1>7, <1>8 DEF InPlace, Asserted, rung, p
<1>9. CASE Adjusted
  <2>1. bsl' = mkt - Higher(Probe, StopsLevel)
    BY <1>9, PassNumbers DEF Adjusted, LiveInv
  <2>2. Higher(Probe, StopsLevel) = Probe
    BY <1>1 DEF Higher
  <2> QED BY <1>5, <2>1, <2>2 DEF rung, p
<1> QED BY <1>8, <1>9

\* An earned rung rests at the broker after every pass whose orders went through
\* (trails.py), for every broker that refuses a stop within the distance it
\* declares, whatever that distance is.
THEOREM RungRests ==
  ASSUME 0 < Probe, StopsLevel <= Probe
  PROVE  LiveSpec => LegalRungRests
<1> DEFINE Earned ==
      /\ settled' /\ open' /\ up'
      /\ ~StopHit(sl, Bar)
      /\ RungFor(role, peak') # 0
      /\ Legal(RungStop(role, peak'))
      /\ Frozen(age) \/ Legal(TrailStop(peak'))
<1>1. ASSUME LiveInv, LiveNext, Earned
      PROVE  bsl' >= RungStop(role, peak')
  <2>1. BarClose
    BY <1>1 DEF LiveNext, MarketMoves, CrashBeforeSave, Crash,
                BarMissed, Restart
  <2>2. peak' = NewPeak
    BY <2>1 DEF BarClose
  <2>3. InPlace \/ Asserted \/ Adjusted
    BY <1>1, <2>1 DEF BarClose, Reassert, Refused, FallbackClose,
                      TimeStop
  <2>4. /\ RungFor(role, NewPeak) # 0
        /\ RungStop(role, NewPeak) <= mkt - Probe
        /\ Frozen(age) \/ TrailStop(NewPeak) <= mkt - Probe
    BY <1>1, <2>2 DEF Legal
  <2>5. ~StopHit(sl, Bar)
    BY <1>1
  <2>6. bsl' >= RungStop(role, NewPeak)
    BY <1>1, <2>3, <2>4, <2>5, SettledPass
  <2> QED BY <2>2, <2>6
<1>2. LiveInv /\ [LiveNext]_liveVars
        => [Earned => bsl' >= RungStop(role, peak')]_liveVars
  BY <1>1
<1> QED BY <1>2, LiveInvariance, PTL DEF LiveSpec, LegalRungRests

-----------------------------------------------------------------------------
(* The stop of a boost (BoostStop): what a boost can lose, and how its stop *)
(* follows the parent's, for every distance, price set and setting of the   *)
(* switches that BoostStop assumes.                                         *)

\* A boost whose trail was never armed rests at its backstop.
BackstopUntilArmed == ~Armed(max_fav) => current_sl = -Hard[kind]

BoostInv ==
  /\ BoostTypeOK
  /\ LossBounded
  /\ ArmedRallyNeverLoses
  /\ RidesWithParent
  /\ FloorWithoutParent
  /\ BackstopUntilArmed

-----------------------------------------------------------------------------
\* The distances of the boost at hand.
LEMMA KindDistances ==
  ASSUME kind \in Kinds
  PROVE  /\ Hard[kind] \in Nat /\ Arm[kind] \in Nat
         /\ Floor[kind] \in Nat /\ Gap[kind] \in Nat
         /\ 0 < Hard[kind] /\ 0 < Arm[kind]
BY BoostDistances

\* The trail of an armed boost (trail_for) is never below its floor.
LEMMA TrailAboveFloor ==
  ASSUME kind \in Kinds, NEW p \in Int
  PROVE  TrailFor(p) \in Int /\ TrailFor(p) >= Floor[kind]
BY KindDistances DEF TrailFor, Higher

\* What _ride_with_parent_stop returns: no tighter than the parent's stop, no
\* lower than it was unless the parent is lower, never below entry.
LEMMA RideBounds ==
  ASSUME NEW stop \in Int, NEW psl \in BoostPrices \cup {NoParent}
  PROVE  /\ RideWithParent(stop, psl) \in Int
         /\ ~(IsRally /\ Ride /\ psl # NoParent) => RideWithParent(stop, psl) = stop
         /\ IsRally /\ Ride /\ psl # NoParent =>
              /\ RideWithParent(stop, psl) <= Higher(psl, 0)
              /\ RideWithParent(stop, psl) >= 0
              /\ stop <= psl => RideWithParent(stop, psl) >= stop
         /\ stop >= 0 => RideWithParent(stop, psl) >= 0
BY BoostPricesAreInts DEF RideWithParent, Higher, Lower

-----------------------------------------------------------------------------
\* The stop a bar starts from: ridden with the parent's latest stop.
Ridden(psl) == IF Armed(max_fav) THEN RideWithParent(current_sl, psl) ELSE current_sl

\* Riding never lowers the stop of a boost that rode before, since the parent's
\* stop only rises (a parent whose stop fell would break this).
LEMMA RidingKeeps ==
  ASSUME BoostInv, NEW psl \in ParentStops
  PROVE  /\ psl \in BoostPrices \cup {NoParent}
         /\ Ridden(psl) \in Int
         /\ Ridden(psl) >= current_sl
         /\ Ridden(psl) >= -Hard[kind]
         /\ IsRally /\ Armed(max_fav) => Ridden(psl) >= 0
         /\ IsRally /\ Ride /\ Armed(max_fav) /\ psl # NoParent => Ridden(psl) <= Higher(psl, 0)
         /\ ~Armed(max_fav) => Ridden(psl) = current_sl
<1>1. psl \in BoostPrices \cup {NoParent} /\ current_sl \in Int /\ kind \in Kinds
      /\ (psl # NoParent => parent # NoParent /\ psl >= parent /\ parent \in Int /\ psl \in Int)
  BY BoostPricesAreInts DEF BoostInv, BoostTypeOK, ParentStops
<1>2. IsRally /\ Armed(max_fav) => current_sl >= 0
  BY DEF BoostInv, ArmedRallyNeverLoses
<1>3. IsRally /\ Ride /\ Armed(max_fav) /\ psl # NoParent => current_sl <= Higher(psl, 0)
  BY <1>1 DEF BoostInv, RidesWithParent, Higher
<1>4. Ridden(psl) \in Int /\ Ridden(psl) >= current_sl
  <2>1. CASE IsRally /\ Ride /\ Armed(max_fav) /\ psl # NoParent
    BY <2>1, <1>1, <1>2, <1>3, RideBounds DEF Ridden, Higher
  <2>2. CASE ~(IsRally /\ Ride /\ Armed(max_fav) /\ psl # NoParent)
    BY <2>2, <1>1, RideBounds DEF Ridden
  <2> QED BY <2>1, <2>2
<1>5. Ridden(psl) >= -Hard[kind]
  BY <1>1, <1>4, KindDistances DEF BoostInv, LossBounded
<1> QED
  BY <1>1, <1>2, <1>4, <1>5, RideBounds DEF Ridden

-----------------------------------------------------------------------------
\* A bar's prices are integers in order.
LEMMA BarPrices ==
  ASSUME NEW bar \in BoostBars
  PROVE  /\ bar.worst \in Int /\ bar.best \in Int
         /\ bar.open \in Int /\ bar.close \in Int
         /\ bar.worst <= bar.open /\ bar.worst <= bar.best
         /\ bar.worst <= bar.close /\ bar.close <= bar.best
<1>1. /\ bar \in [worst : BoostPrices, best : BoostPrices, open : BoostPrices, close : BoostPrices]
      /\ bar.worst <= bar.open /\ bar.open <= bar.best
      /\ bar.worst <= bar.close /\ bar.close <= bar.best
  BY DEF BoostBars
<1>2. /\ bar.worst \in Int /\ bar.best \in Int
      /\ bar.open \in Int /\ bar.close \in Int
  BY <1>1, BoostPricesAreInts
<1> QED BY <1>1, <1>2

\* The three ways a bar may leave the boost, or keep it open; what each means
\* for stop, peak and exit.  The five lemmas below establish them.
Loses(psl) ==    \* closed at a price the backstop bounds
  /\ closed' = TRUE /\ max_fav' = max_fav /\ current_sl' = Ridden(psl)
  /\ exit' \in Int /\ exit' >= -Hard[kind]
  /\ IsRally /\ Armed(max_fav) => exit' >= 0
  /\ adverse' \in -1..Patience

Holds(psl) ==    \* still open, max_fav and stop advanced
  /\ closed' = FALSE /\ exit' = exit
  /\ max_fav' \in Nat /\ max_fav' >= max_fav
  /\ current_sl' \in Int /\ current_sl' >= Ridden(psl)
  /\ ~Armed(max_fav') => current_sl' = Ridden(psl)
  /\ Armed(max_fav') /\ (psl = NoParent \/ ~IsRally \/ ~Ride) => current_sl' >= Floor[kind]
  /\ Armed(max_fav') /\ IsRally => current_sl' >= 0
  /\ IsRally /\ Ride /\ Armed(max_fav') /\ psl # NoParent => current_sl' <= Higher(psl, 0)
  /\ adverse' \in -1..Patience

\* Counting adverse bars stays within the patience of the detector.
LEMMA AdverseBounded ==
  ASSUME BoostInv, NEW bar \in BoostBars, PullbackHolds(bar)
  PROVE  NextAdverse(bar) \in -1..Patience
<1>1. Patience \in Nat /\ adverse \in -1..Patience
  BY BoostDistances DEF BoostInv, BoostTypeOK
<1>2. CASE ~Watching \/ bar.best >= 0
  BY <1>1, <1>2 DEF NextAdverse
<1>3. CASE Watching /\ ~(bar.best >= 0)
  BY <1>1, <1>3 DEF NextAdverse, PullbackHolds
<1> QED BY <1>2, <1>3

\* The armed trail's exit: a rally's fill is the ridden trail, a rescue's is
\* the open of a gapped bar, floored by the backstop.
LEMMA BreathLoses ==
  ASSUME BoostInv, NEW bar \in BoostBars, NEW psl \in ParentStops,
         BreathExit(bar, Ridden(psl), psl)
  PROVE  Loses(psl)
<1> DEFINE breath == RideWithParent(TrailFor(max_fav), psl)
<1>1. kind \in Kinds /\ max_fav \in Int /\ adverse \in -1..Patience
  BY DEF BoostInv, BoostTypeOK
<1>2. Hard[kind] \in Nat /\ Floor[kind] \in Nat
  BY <1>1, KindDistances
<1>3. TrailFor(max_fav) \in Int /\ TrailFor(max_fav) >= 0
  BY <1>1, <1>2, TrailAboveFloor
<1>4. breath \in Int /\ breath >= 0
  BY <1>3, RidingKeeps, RideBounds
<1>5. exit' \in Int /\ exit' >= -Hard[kind] /\ (IsRally => exit' >= 0)
  <2>1. exit' = IF IsRally THEN breath ELSE GapFill(breath, bar)
    BY DEF BreathExit, CloseAt
  <2> HIDE DEF breath
  <2> QED BY <2>1, <1>2, <1>4, BarPrices DEF GapFill, Higher
<1> QED
  BY <1>1, <1>5 DEF Loses, BreathExit, CloseAt

\* Where the armed trail holds, the bar lies above the boost's entry, so the
\* detector has nothing to cut from an armed rally boost.
LEMMA CutOnlyUnarmed ==
  ASSUME BoostInv, NEW bar \in BoostBars, NEW psl \in ParentStops,
         BreathHolds(bar, psl), Armed(max_fav)
  PROVE  bar.worst > 0
<1>1. kind \in Kinds /\ max_fav \in Int
  BY DEF BoostInv, BoostTypeOK
<1>2. TrailFor(max_fav) \in Int /\ TrailFor(max_fav) >= 0
  BY <1>1, KindDistances, TrailAboveFloor
<1>3. RideWithParent(TrailFor(max_fav), psl) \in Int /\ RideWithParent(TrailFor(max_fav), psl) >= 0
  BY <1>2, RidingKeeps, RideBounds
<1>4. ~(bar.worst <= RideWithParent(TrailFor(max_fav), psl))
  BY DEF BreathHolds
<1> QED BY <1>3, <1>4, BarPrices

LEMMA CutLoses ==
  ASSUME BoostInv, NEW bar \in BoostBars, NEW psl \in ParentStops, BreathHolds(bar, psl),
         PullbackCut(bar, Ridden(psl)) \/ PullbackSlowCut(bar, Ridden(psl))
  PROVE  Loses(psl)
<1>1. Hard[kind] \in Nat /\ Tolerance \in Nat /\ Patience \in Nat
  BY KindDistances, BoostDistances DEF BoostInv, BoostTypeOK
<1>2. CutLevel \in Int /\ CutLevel <= 0 /\ CutLevel >= -Hard[kind]
  BY <1>1 DEF CutLevel, Lower
<1>3. bar.worst \in Int /\ bar.open \in Int /\ bar.close \in Int /\ bar.best \in Int
      /\ bar.worst <= bar.best
  BY BarPrices
<1>4. ~Armed(max_fav)
  <2>1. bar.worst <= 0
    BY <1>2, <1>3 DEF PullbackCut, PullbackSlowCut
  <2> QED BY <2>1, <1>3, CutOnlyUnarmed
<1>5. exit' \in Int /\ exit' >= -Hard[kind]
  <2>1. CASE PullbackCut(bar, Ridden(psl))
    BY <2>1, <1>1, <1>2, <1>3 DEF PullbackCut, CloseAt, GapFill, Higher
  <2>2. CASE PullbackSlowCut(bar, Ridden(psl))
    BY <2>2, <1>1, <1>3 DEF PullbackSlowCut, CloseAt, Higher
  <2> QED BY <2>1, <2>2
<1>6. -1 \in -1..Patience
  BY <1>1
<1> QED
  BY <1>4, <1>5, <1>6 DEF Loses, PullbackCut, PullbackSlowCut, CloseAt

\* The resting stop and the target close at a known price.
LEMMA StopLoses ==
  ASSUME BoostInv, NEW bar \in BoostBars, NEW psl \in ParentStops, PullbackHolds(bar),
         StopExit(bar, Ridden(psl)) \/ TargetExit(bar, Ridden(psl))
  PROVE  Loses(psl)
<1>1. Hard[kind] \in Nat /\ BoostTp \in Nat
  BY KindDistances, BoostDistances DEF BoostInv, BoostTypeOK
<1>2. NextAdverse(bar) \in -1..Patience
  BY AdverseBounded
<1>3. exit' = Ridden(psl) \/ exit' = BoostTp
  BY DEF StopExit, TargetExit, CloseAt
<1>4. exit' \in Int /\ exit' >= -Hard[kind] /\ (IsRally /\ Armed(max_fav) => exit' >= 0)
  BY <1>1, <1>3, RidingKeeps
<1> QED
  BY <1>2, <1>4 DEF Loses, StopExit, TargetExit, CloseAt

\* A bar that closes nothing: peak and stop advance.
LEMMA RatchetHolds ==
  ASSUME BoostInv, NEW bar \in BoostBars, NEW psl \in ParentStops,
         PullbackHolds(bar), ~closed,
         Ratchet(bar, Ridden(psl), psl)
  PROVE  Holds(psl)
<1>1. /\ kind \in Kinds /\ max_fav \in Nat /\ current_sl \in Int /\ bar.best \in Int
      /\ psl \in BoostPrices \cup {NoParent} /\ Ridden(psl) \in Int
      /\ Ridden(psl) >= -Hard[kind] /\ closed = FALSE
  BY RidingKeeps, BarPrices DEF BoostInv, BoostTypeOK
<1>2. Hard[kind] \in Nat /\ Floor[kind] \in Nat /\ Arm[kind] \in Nat
  BY <1>1, KindDistances
<1>3. max_fav' \in Nat /\ max_fav' >= max_fav
  BY <1>1 DEF Ratchet, Higher
<1>4. Armed(max_fav) => Armed(max_fav')
  BY <1>1, <1>2, <1>3 DEF Armed
<1>5. closed' = FALSE /\ exit' = exit /\ adverse' \in -1..Patience
  BY <1>1, AdverseBounded DEF Ratchet
<1>6. CASE ~Armed(max_fav')
  <2>1. current_sl' = Higher(Ridden(psl), -Hard[kind])
    BY <1>6 DEF Ratchet
  <2>2. current_sl' = Ridden(psl)
    BY <2>1, <1>1, <1>2 DEF Higher
  <2> QED BY <2>2, <1>1, <1>3, <1>5, <1>6 DEF Holds
<1>7. CASE Armed(max_fav')
  <2> DEFINE raised == Higher(Ridden(psl), TrailFor(max_fav'))
  <2>1. current_sl' = RideWithParent(raised, psl)
    BY <1>7 DEF Ratchet
  <2>2. TrailFor(max_fav') \in Int /\ TrailFor(max_fav') >= Floor[kind]
    BY <1>1, <1>3, TrailAboveFloor
  <2>3. raised \in Int /\ raised >= Ridden(psl) /\ raised >= Floor[kind] /\ raised >= 0
    BY <2>2, <1>1, <1>2 DEF Higher
  <2> HIDE DEF raised
  <2>4. current_sl' \in Int /\ (IsRally => current_sl' >= 0)
    BY <2>1, <2>3, <1>1, RideBounds
  <2>5. CASE psl = NoParent \/ ~IsRally \/ ~Ride
    <3>1. current_sl' = raised
      BY <2>1, <2>3, <2>5, <1>1, RideBounds
    <3> QED BY <3>1, <2>3, <2>4, <2>5, <1>3, <1>5, <1>7 DEF Holds
  <2>6. CASE psl # NoParent /\ IsRally /\ Ride
    <3>1. current_sl' <= Higher(psl, 0) /\ current_sl' >= 0 /\ (raised <= psl => current_sl' >= raised)
          /\ psl \in Int
      BY <2>1, <2>3, <2>6, <1>1, RideBounds, BoostPricesAreInts
    <3>2. Ridden(psl) <= Higher(psl, 0)
      <4>1. CASE Armed(max_fav)
        BY <4>1, <2>6, RidingKeeps
      <4>2. CASE ~Armed(max_fav)
        <5>1. Ridden(psl) = -Hard[kind]
          BY <4>2, RidingKeeps DEF BoostInv, BackstopUntilArmed
        <5> QED BY <5>1, <3>1, <1>2 DEF Higher
      <4> QED BY <4>1, <4>2
    <3>3. current_sl' >= Ridden(psl)
      <4>1. current_sl' = Higher(Lower(raised, psl), 0)
        BY <2>1, <2>6 DEF RideWithParent
      <4> QED BY <4>1, <3>1, <3>2, <2>3, <1>1 DEF Higher, Lower
    <3> QED BY <3>1, <3>3, <2>4, <2>6, <1>3, <1>5, <1>7 DEF Holds
  <2> QED BY <2>5, <2>6
<1> QED BY <1>6, <1>7

-----------------------------------------------------------------------------
LEMMA BarOutcome ==
  ASSUME BoostInv, NEW bar \in BoostBars, NEW psl \in ParentStops, OnBoostBar(bar, psl)
  PROVE  Loses(psl) \/ Holds(psl)
<1> USE DEF Ridden
<1>1. CASE BreathExit(bar, Ridden(psl), psl)
  BY <1>1, BreathLoses
<1>2. CASE BreathHolds(bar, psl) /\ (PullbackCut(bar, Ridden(psl)) \/ PullbackSlowCut(bar, Ridden(psl)))
  BY <1>2, CutLoses
<1>3. CASE PullbackHolds(bar) /\ (StopExit(bar, Ridden(psl)) \/ TargetExit(bar, Ridden(psl)))
  BY <1>3, StopLoses
<1>4. CASE PullbackHolds(bar) /\ Ratchet(bar, Ridden(psl), psl)
  BY <1>4, RatchetHolds DEF OnBoostBar
<1> QED BY <1>1, <1>2, <1>3, <1>4 DEF OnBoostBar

LEMMA BoostStarts == BoostInit => BoostInv
<1> SUFFICES ASSUME BoostInit PROVE BoostInv
  OBVIOUS
<1>1. Hard[kind] \in Nat /\ Arm[kind] \in Nat /\ 0 < Arm[kind] /\ 0 < Hard[kind]
  BY KindDistances DEF BoostInit
<1>2. ~Armed(max_fav)
  BY <1>1 DEF BoostInit, Armed
<1>3. BoostTypeOK
  <2>1. Patience \in Nat
    BY BoostDistances
  <2>2. -1 \in -1..Patience
    BY <2>1
  <2>3. -Hard[kind] \in Int
    BY <1>1
  <2>4. /\ kind \in Kinds /\ current_sl \in Int /\ max_fav \in Nat
        /\ adverse \in -1..Patience /\ exit \in Int
    BY <2>2, <2>3, SMT DEF BoostInit
  <2>5. parent \in BoostPrices \cup {NoParent} /\ closed \in BOOLEAN
    BY Zenon DEF BoostInit
  <2> QED BY <2>4, <2>5 DEF BoostTypeOK
<1> QED
  BY <1>1, <1>2, <1>3
     DEF BoostInit, BoostInv, LossBounded, ArmedRallyNeverLoses, RidesWithParent, FloorWithoutParent, BackstopUntilArmed

LEMMA BoostSteps == BoostInv /\ [BoostNext]_boostVars => BoostInv'
<1>1. CASE UNCHANGED boostVars
  BY <1>1
     DEF boostVars, BoostInv, BoostTypeOK, LossBounded, ArmedRallyNeverLoses, RidesWithParent, FloorWithoutParent, BackstopUntilArmed, Armed, IsRally
<1>2. ASSUME BoostInv, NEW bar \in BoostBars, NEW psl \in ParentStops, OnBoostBar(bar, psl)
      PROVE  BoostInv'
  <2>1. /\ kind' = kind /\ kind \in Kinds /\ parent' = psl
        /\ psl \in BoostPrices \cup {NoParent}
        /\ max_fav \in Nat /\ Hard[kind] \in Nat /\ Floor[kind] \in Nat /\ Arm[kind] \in Nat
        /\ (IsRally' <=> IsRally) /\ exit \in Int
        /\ Ridden(psl) \in Int /\ Ridden(psl) >= -Hard[kind]
    BY <1>2, RidingKeeps, KindDistances DEF BoostInv, BoostTypeOK, OnBoostBar, IsRally
  <2>2. CASE Loses(psl)
    <3>1. Armed(max_fav)' <=> Armed(max_fav)
      BY <2>1, <2>2 DEF Armed, Loses
    <3>2. BoostTypeOK'
      BY <2>1, <2>2, <1>2 DEF BoostTypeOK, BoostInv, Loses
    <3>3. LossBounded' /\ ArmedRallyNeverLoses' /\ FloorWithoutParent'
      BY <2>1, <2>2, <3>1, <1>2, RidingKeeps
         DEF LossBounded, ArmedRallyNeverLoses, FloorWithoutParent, Loses
    <3>4. RidesWithParent'
      BY <2>1, <2>2, <3>1, <1>2, RidingKeeps DEF RidesWithParent, Loses
    <3>5. BackstopUntilArmed'
      BY <2>1, <2>2, <3>1, <1>2, RidingKeeps DEF BackstopUntilArmed, Loses, BoostInv
    <3> QED BY <3>2, <3>3, <3>4, <3>5 DEF BoostInv
  <2>3. CASE Holds(psl)
    <3>1. Armed(max_fav)' <=> Armed(max_fav')
      BY <2>1 DEF Armed
    <3>2. BoostTypeOK'
      BY <2>1, <2>3, <1>2 DEF BoostTypeOK, BoostInv, Holds
    <3>3. LossBounded' /\ ArmedRallyNeverLoses' /\ FloorWithoutParent'
      BY <2>1, <2>3, <3>1
         DEF LossBounded, ArmedRallyNeverLoses, FloorWithoutParent, Holds
    <3>4. RidesWithParent'
      BY <2>1, <2>3, <3>1 DEF RidesWithParent, Holds
    <3>5. BackstopUntilArmed'
      <4>1. ~Armed(max_fav') => ~Armed(max_fav)
        BY <2>1, <2>3 DEF Armed, Holds
      <4> QED BY <2>1, <2>3, <3>1, <4>1, <1>2, RidingKeeps DEF BackstopUntilArmed, Holds, BoostInv
    <3> QED BY <3>2, <3>3, <3>4, <3>5 DEF BoostInv
  <2> QED BY <2>2, <2>3, <1>2, BarOutcome
<1> QED BY <1>1, <1>2 DEF BoostNext

THEOREM BoostInvariance == BoostSpec => []BoostInv
BY BoostStarts, BoostSteps, PTL DEF BoostSpec

\* The type invariant of the boost's rules, for every price set.
THEOREM BoostTypeCorrect == BoostSpec => []BoostTypeOK
BY BoostInvariance, PTL DEF BoostInv

\* A boost never loses more than its hard backstop, on any way out of it
\* (_update_boost_on_bar: trail, gap, both cuts, resting stop, target).
THEOREM BackstopHolds == BoostSpec => []LossBounded
BY BoostInvariance, PTL DEF BoostInv

\* Riding with a parent (_ride_with_parent_stop) never takes an armed rally
\* boost below its own entry, nor does a gap or the pullback detector.
THEOREM RallyKeepsEntry == BoostSpec => []ArmedRallyNeverLoses
BY BoostInvariance, PTL DEF BoostInv

\* An armed rally boost's stop is no tighter than its open parent's.
THEOREM RideFollowsParent == BoostSpec => []RidesWithParent
BY BoostInvariance, PTL DEF BoostInv

\* Without a parent to ride with, an armed boost locks its floor.
THEOREM FloorHolds == BoostSpec => []FloorWithoutParent
BY BoostInvariance, PTL DEF BoostInv

\* The boost's stop is a ratchet, because the parent's is.
THEOREM BoostRatchets == BoostSpec => BoostOneWay
<1>1. BoostInv /\ [BoostNext]_boostVars => [current_sl' >= current_sl]_boostVars
  <2>1. ASSUME BoostInv, NEW bar \in BoostBars, NEW psl \in ParentStops, OnBoostBar(bar, psl)
        PROVE  current_sl' >= current_sl
    <3>1. current_sl \in Int /\ Ridden(psl) \in Int /\ Ridden(psl) >= current_sl
      BY <2>1, RidingKeeps DEF BoostInv, BoostTypeOK
    <3>2. Loses(psl) \/ Holds(psl)
      BY <2>1, BarOutcome
    <3>3. current_sl' \in Int /\ current_sl' >= Ridden(psl)
      BY <3>1, <3>2 DEF Loses, Holds
    <3> QED BY <3>1, <3>3
  <2> QED BY <2>1 DEF BoostNext
<1> QED BY <1>1, BoostInvariance, PTL DEF BoostSpec, BoostOneWay, BoostOneWay
-----------------------------------------------------------------------------
(* The rally fleet of a leg (RallyBoosts).  A leg that may still fire has  *)
(* nothing at the broker; what it has and what it is still to be sent make *)
(* one fleet.                                                              *)

RallyBoost == [entry : Int, sl : Int, open : BOOLEAN, as : {"boost", "leg", "unknown"}]

RallyInv ==
  /\ RallyTypeOK
  /\ watch = "armed" => boosts = <<>> /\ due = 0
  /\ Len(boosts) + due <= FleetSize

LEMMA RallyConstants ==
  /\ FleetSize \in Nat \ {0} /\ HoldTicks \in Nat \ {0} /\ RallySl \in Nat
  /\ MidPrices \subseteq Int
BY RallyBounds

\* What happens to every boost at once leaves as many.
LEMMA FleetRewritten ==
  ASSUME NEW s \in Seq(RallyBoost), NEW f, f = [b \in DOMAIN s |-> f[b]],
         \A b \in DOMAIN s : f[b] \in RallyBoost
  PROVE  f \in Seq(RallyBoost) /\ Len(f) = Len(s) /\ DOMAIN f = DOMAIN s
<1>1. Len(s) \in Nat /\ DOMAIN s = 1..Len(s)
  OBVIOUS
<1>2. f = [b \in 1..Len(s) |-> f[b]]
  BY <1>1
<1>3. f \in [1..Len(s) -> RallyBoost]
  BY <1>1, <1>2
<1> QED BY <1>1, <1>3

\* Closing a boost changes nothing else about it.
LEMMA BoostClosed ==
  ASSUME NEW s \in Seq(RallyBoost), NEW b \in DOMAIN s
  PROVE  s[b] \in RallyBoost /\ [s[b] EXCEPT !.open = FALSE] \in RallyBoost
<1>1. s[b] \in RallyBoost
  OBVIOUS
<1> QED BY <1>1 DEF RallyBoost

\* A step that sends nothing and does not make the leg eligible again.
LEMMA FleetKept ==
  ASSUME RallyInv, RallyTypeOK', Len(boosts') = Len(boosts), due' \in {0, due},
         watch' = "armed" => watch = "armed"
  PROVE  RallyInv'
<1>1. Len(boosts) \in Nat /\ due \in Nat /\ FleetSize \in Nat /\ due' <= due
  BY RallyConstants DEF RallyInv, RallyTypeOK
<1>2. Len(boosts') + due' <= FleetSize
  BY <1>1 DEF RallyInv
<1>3. ASSUME watch' = "armed" PROVE boosts' = <<>> /\ due' = 0
  <2>1. boosts = <<>> /\ due = 0
    BY <1>3 DEF RallyInv
  <2>2. boosts' \in Seq(RallyBoost) /\ Len(boosts') = 0
    BY <2>1 DEF RallyTypeOK, RallyBoost
  <2> QED BY <2>1, <2>2
<1> QED BY <1>2, <1>3 DEF RallyInv

\* Whatever the market and the broker do to the boosts, they do not add one.
LEMMA RallyMarket ==
  ASSUME RallyInv, (\E p \in MidPrices : Move(p)) \/ LegCloses \/ (\E b \in DOMAIN boosts : BoostCloses(b))
  PROVE  RallyInv'
<1>1. boosts \in Seq(RallyBoost) /\ filed \subseteq DOMAIN boosts
  BY DEF RallyInv, RallyTypeOK, RallyBoost
<1>2. ASSUME NEW p \in MidPrices, Move(p) PROVE RallyInv'
  <2>1. \A b \in DOMAIN boosts : [boosts[b] EXCEPT !.open = @ /\ boosts[b].sl < p] \in RallyBoost
    <3>1. ASSUME NEW b \in DOMAIN boosts PROVE boosts[b] \in RallyBoost
      BY <1>1
    <3>2. ASSUME NEW b \in DOMAIN boosts
          PROVE  (boosts[b].open /\ boosts[b].sl < p) \in BOOLEAN
      OBVIOUS
    <3> QED BY <3>1, <3>2 DEF RallyBoost
  <2>2. boosts' \in Seq(RallyBoost) /\ Len(boosts') = Len(boosts) /\ DOMAIN boosts' = DOMAIN boosts
    <3>1. boosts' = [b \in DOMAIN boosts |-> boosts'[b]] /\ \A b \in DOMAIN boosts : boosts'[b] \in RallyBoost
      BY <1>2, <2>1 DEF Move
    <3> QED BY <1>1, <3>1, FleetRewritten
  <2>3. RallyTypeOK'
    BY <1>2, <2>2, RallyConstants DEF Move, fire, RallyInv, RallyTypeOK, RallyBoost
  <2> QED BY <1>2, <2>2, <2>3, FleetKept DEF Move, fire
<1>3. CASE LegCloses
  <2>1. RallyTypeOK'
    BY <1>3 DEF LegCloses, fire, RallyInv, RallyTypeOK
  <2> QED BY <1>3, <2>1, FleetKept DEF LegCloses, fire
<1>4. ASSUME NEW b \in DOMAIN boosts, BoostCloses(b) PROVE RallyInv'
  <2>1. boosts' \in Seq(RallyBoost) /\ Len(boosts') = Len(boosts) /\ DOMAIN boosts' = DOMAIN boosts
    <3>1. boosts' = [boosts EXCEPT ![b] = [boosts[b] EXCEPT !.open = FALSE]]
      BY <1>4 DEF BoostCloses
    <3>2. boosts[b] \in RallyBoost /\ [boosts[b] EXCEPT !.open = FALSE] \in RallyBoost
      BY <1>1, <1>4, BoostClosed
    <3> QED BY <1>1, <1>4, <3>1, <3>2
  <2>2. RallyTypeOK'
    BY <1>4, <2>1 DEF BoostCloses, fire, RallyInv, RallyTypeOK, RallyBoost
  <2> QED BY <1>4, <2>1, <2>2, FleetKept DEF BoostCloses, fire
<1> QED BY <1>2, <1>3, <1>4

\* Steps that change what the bot takes the boosts for.
LEMMA RallyForgets ==
  ASSUME RallyInv, NEW answered \in BOOLEAN, Reconcile(answered) \/ Rehydrate(answered) \/ Die
  PROVE  RallyInv'
<1>1. boosts \in Seq(RallyBoost) /\ filed \subseteq DOMAIN boosts /\ watch \in {"armed", "fired", "off"}
  BY DEF RallyInv, RallyTypeOK, RallyBoost
<1>2. \A b \in DOMAIN boosts : boosts[b] \in RallyBoost
  BY <1>1
<1>3. \A b \in DOMAIN boosts : As(b, "unknown") \in RallyBoost /\ As(b, "leg") \in RallyBoost
  BY <1>2 DEF As, RallyBoost
<1>4. boosts' = [b \in DOMAIN boosts |-> boosts'[b]] /\ \A b \in DOMAIN boosts : boosts'[b] \in RallyBoost
  BY <1>2, <1>3 DEF Reconcile, Rehydrate, Die
<1>5. boosts' \in Seq(RallyBoost) /\ Len(boosts') = Len(boosts) /\ DOMAIN boosts' = DOMAIN boosts
  BY <1>1, <1>4, FleetRewritten
<1>6. /\ watch' \in {"fired", "off"} \/ watch' = watch
      /\ due' \in {0, due} /\ due' \in 0..FleetSize /\ filed' = filed /\ mid' = mid /\ leg' = leg
      /\ {tick', ref'} \subseteq Int /\ streak' \in 0..HoldTicks
      /\ pc' \in {"scan", "down"}
  BY <1>1, RallyConstants
  DEF Reconcile, Rehydrate, Die, WatchRehydrated, fire, RallyInv, RallyTypeOK
<1>7. RallyTypeOK'
  BY <1>1, <1>5, <1>6 DEF RallyInv, RallyTypeOK, RallyBoost
<1> QED BY <1>5, <1>6, <1>7, FleetKept

\* A fire begins from an eligible leg, which has nothing at the broker.
LEMMA RallyScans ==
  ASSUME RallyInv, ScanBlind \/ Scan
  PROVE  RallyInv'
<1>1. Streak \in 0..HoldTicks
  BY RallyConstants DEF Streak, RallyInv, RallyTypeOK
<1>2. CASE ScanBlind \/ ScanBlocked \/ ScanHolds
  <2>1. RallyTypeOK'
    BY <1>1, <1>2 DEF ScanBlind, ScanBlocked, NextIfBlocked, ScanHolds, fire, RallyInv, RallyTypeOK
  <2> QED BY <1>2, <2>1, FleetKept DEF ScanBlind, ScanBlocked, ScanHolds, fire
<1>3. CASE ScanFires
  <2>1. boosts = <<>> /\ boosts' = boosts /\ due' = FleetSize /\ watch' = "fired"
    BY <1>3 DEF ScanFires, Planned, RallyInv
  <2>2. RallyTypeOK'
    BY <1>1, <1>3, RallyConstants DEF ScanFires, RallyInv, RallyTypeOK
  <2>3. Len(boosts') + due' <= FleetSize
    BY <2>1, RallyConstants
  <2> QED BY <2>1, <2>2, <2>3 DEF RallyInv
<1> QED BY <1>2, <1>3 DEF Scan

\* One order takes one of the fleet's places, filled or not.
LEMMA RallySends ==
  ASSUME RallyInv, Send
  PROVE  RallyInv'
<1>1. /\ boosts \in Seq(RallyBoost) /\ due \in 1..FleetSize /\ due' = due - 1
      /\ watch # "armed" /\ watch' = watch
      /\ mid \in Int /\ ref \in Int /\ RallySl \in Int /\ FleetSize \in Nat /\ Len(boosts) \in Nat
  BY RallyConstants DEF Send, RallyInv, RallyTypeOK, RallyBoost
<1>2. /\ boosts' \in Seq(RallyBoost) /\ DOMAIN boosts \subseteq DOMAIN boosts'
      /\ Len(boosts') <= Len(boosts) + 1
  <2>1. CASE boosts' = boosts
    BY <1>1, <2>1
  <2>2. ASSUME NEW what \in {"boost", "unknown"}, Fill(what)
        PROVE  /\ boosts' \in Seq(RallyBoost) /\ DOMAIN boosts \subseteq DOMAIN boosts'
               /\ Len(boosts') <= Len(boosts) + 1
    <3>1. [entry |-> mid, sl |-> ref - RallySl, open |-> TRUE, as |-> what] \in RallyBoost
      BY <1>1, <2>2 DEF RallyBoost
    <3> QED BY <1>1, <2>2, <3>1 DEF Fill
  <2> QED BY <2>1, <2>2 DEF Send
<1>3. RallyTypeOK'
  BY <1>1, <1>2 DEF Send, RallyInv, RallyTypeOK, RallyBoost
<1>4. Len(boosts') \in Nat
  BY <1>2
<1>5. Len(boosts') + due' <= FleetSize
  BY <1>1, <1>2, <1>4 DEF RallyInv
<1> QED BY <1>1, <1>3, <1>5 DEF RallyInv

\* The end of a fire, the cap, the save and the boot leave the count alone.
LEMMA RallyEnds ==
  ASSUME RallyInv, FleetSent \/ (\E kept \in SUBSET Known : EnforceCap(kept)) \/ Save \/ Reboot
  PROVE  RallyInv'
<1>1. boosts \in Seq(RallyBoost) /\ Tracked \subseteq DOMAIN boosts
  BY DEF RallyInv, RallyTypeOK, RallyBoost, Tracked
<1>2. CASE FleetSent \/ Save \/ Reboot
  <2>1. /\ {mid', tick', ref'} \subseteq Int /\ filed' \subseteq DOMAIN boosts
        /\ UNCHANGED <<leg, watch, streak, boosts, due>>
        /\ pc' \in {"cap", "pass", "boot"}
    BY <1>1, <1>2 DEF FleetSent, Save, Reboot, fire, RallyInv, RallyTypeOK
  <2>2. RallyTypeOK'
    BY <2>1 DEF RallyInv, RallyTypeOK
  <2> QED BY <2>1, <2>2, FleetKept
<1>3. ASSUME NEW kept \in SUBSET Known, EnforceCap(kept) PROVE RallyInv'
  <2>1. \A b \in DOMAIN boosts : boosts[b] \in RallyBoost /\ [boosts[b] EXCEPT !.open = FALSE] \in RallyBoost
    BY <1>1, BoostClosed
  <2>2. boosts' = [b \in DOMAIN boosts |-> boosts'[b]] /\ \A b \in DOMAIN boosts : boosts'[b] \in RallyBoost
    BY <1>3, <2>1 DEF EnforceCap
  <2>3. boosts' \in Seq(RallyBoost) /\ Len(boosts') = Len(boosts) /\ DOMAIN boosts' = DOMAIN boosts
    BY <1>1, <2>2, FleetRewritten
  <2>4. RallyTypeOK'
    BY <1>3, <2>3 DEF EnforceCap, fire, RallyInv, RallyTypeOK, RallyBoost
  <2> QED BY <1>3, <2>3, <2>4, FleetKept DEF EnforceCap, fire
<1> QED BY <1>2, <1>3

LEMMA RallyInvariance == RallySpec => []RallyInv
<1>1. RallyInit => RallyInv
  BY RallyConstants DEF RallyInit, RallyInv, RallyTypeOK
<1>2. RallyInv /\ [RallyNext]_rallyVars => RallyInv'
  <2> SUFFICES ASSUME RallyInv, [RallyNext]_rallyVars PROVE RallyInv'
    OBVIOUS
  <2>1. CASE (\E p \in MidPrices : Move(p)) \/ LegCloses \/ (\E b \in DOMAIN boosts : BoostCloses(b))
    BY <2>1, RallyMarket
  <2>2. CASE Pass
    BY <2>2, RallyForgets, RallyScans, RallySends, RallyEnds DEF Pass
  <2>3. CASE Save \/ Reboot
    BY <2>3, RallyEnds
  <2>4. CASE Die
    BY <2>4, RallyForgets
  <2>5. CASE UNCHANGED rallyVars
    BY <2>5 DEF rallyVars, fire, RallyInv, RallyTypeOK
  <2> QED BY <2>1, <2>2, <2>3, <2>4, <2>5 DEF RallyNext
<1> QED BY <1>1, <1>2, PTL DEF RallySpec

\* The types of the leg's shadow, its fleet and the pass.
THEOREM RallyTypeCorrect == RallySpec => []RallyTypeOK
BY RallyInvariance, PTL DEF RallyInv

\* For any prices, arms, hold and fleet: one rally event a leg, whatever is
\* rejected, lost, forgotten by a failed query or cut short by a crash.
THEOREM OneRallyALeg == RallySpec => []OneFleetALeg
<1>1. RallyInv => OneFleetALeg
  <2> SUFFICES ASSUME RallyInv PROVE Len(boosts) <= FleetSize
    BY DEF OneFleetALeg
  <2>1. boosts \in Seq(RallyBoost) /\ due \in Nat /\ FleetSize \in Nat
    BY RallyConstants DEF RallyInv, RallyTypeOK, RallyBoost
  <2>2. Len(boosts) \in Nat /\ Len(boosts) + due <= FleetSize
    BY <2>1 DEF RallyInv
  <2> QED BY <2>1, <2>2
<1> QED BY <1>1, RallyInvariance, PTL
=============================================================================
