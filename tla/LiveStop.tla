------------------------------ MODULE LiveStop ------------------------------
(***************************************************************************)
(* One anchor leg as the live bot manages it (trails.py): the stop the     *)
(* ladder computes at each M1 bar close, and the stop that rests at the    *)
(* broker, which alone can close the leg between two bars.  The bot        *)
(* compares the two on every bar and re-asserts; the broker may refuse;    *)
(* the bot may crash at any time, also between the order and the save.     *)
(*                                                                         *)
(* Prices are signed distances from the entry, in the leg's favour; `mkt`  *)
(* is the price the leg would close at (the bid of a BUY).                 *)
(***************************************************************************)
EXTENDS Position

CONSTANTS
  Probe,        \* least distance of a stop from the market the broker accepts
  StopsLevel,   \* the distance the broker declares (trade_stops_level)
  TstopFav,     \* a leg that never reached this peak is timed out (cfg.tstop_fav)
  Level1, Level2, Level3   \* stops from which lock_level_for counts a lock

ASSUME LiveDistances ==
  /\ {Probe, StopsLevel, TstopFav, Level1, Level2, Level3} \subseteq Nat
  /\ 0 < Level1

VARIABLES
  open,      \* the broker still holds the position
  mkt,       \* the market
  lo, hi,    \* extremes of the running bar
  bsl,       \* the stop resting at the broker
  up,        \* the bot is running
  saved,     \* max_fav in the state file
  settled    \* the last step was a managed bar and no order of it failed

liveVars == <<role, open, mkt, lo, hi, bsl, sl, peak, age, up, saved, settled>>
market == <<mkt, lo, hi>>

LiveInit ==
  /\ role \in Role
  /\ open = TRUE
  /\ mkt = 0 /\ lo = 0 /\ hi = 0
  /\ bsl = -SlDist /\ sl = -SlDist
  /\ peak = 0 /\ saved = 0
  /\ age = 0
  /\ up = TRUE
  /\ settled = FALSE

Aged == Lower(age + 1, Hold)

\* The rung the stop itself stands on (lock_level_for).
LockLevel(stop) ==
  IF stop >= Level3 THEN 3 ELSE IF stop >= Level2 THEN 2
  ELSE IF stop >= Level1 THEN 1 ELSE 0

-----------------------------------------------------------------------------
\* The market moves; the broker fills the stop or the target it goes through.
MarketMoves(p) ==
  /\ open
  /\ mkt' = p
  /\ lo' = Lower(lo, p) /\ hi' = Higher(hi, p)
  /\ open' = (bsl < p /\ p < TpDist)
  /\ settled' = FALSE
  /\ UNCHANGED <<role, bsl, sl, peak, age, up, saved>>

\* What update_position_on_bar leaves in pos; a stop the bar touched ends the
\* update, and the live bot ignores that it did (the broker's stop governs).
Bar == [worst |-> lo, best |-> hi]
NewPeak == IF StopHit(sl, Bar) THEN peak ELSE UpdateMaxFav(peak, hi)
NewStop == IF StopHit(sl, Bar) THEN sl ELSE LadderStop(role, sl, Frozen(age), NewPeak)

\* STOP-THROUGH: the computed stop is beyond the market.
Through == NewStop > mkt - StopsLevel
LockArmed == LockLevel(NewStop) # 0

\* The stop to assert, and the stop left in the shadow before it is sent: with
\* no armed lock the previous stop is kept but the shadow is not set back.
Intended ==
  IF ~Through THEN NewStop
  ELSE IF LockArmed THEN Lower(sl, mkt - StopsLevel)
  ELSE sl
ShadowStop == IF Through /\ LockArmed THEN Intended ELSE NewStop

Legal(stop) == stop <= mkt - Probe
AdjustedStop == mkt - Higher(Probe, StopsLevel)

\* An order to close at market may be refused; nobody looks at its result.
CloseOrder(accepted) == open' = ~accepted

\* What a bug could do: time out only a leg that is under water.
TimedOutLosing == age = Hold /\ NewPeak < TstopFav /\ mkt < 0

\* TSTOP: once the hold is over a leg that never moved is closed; retried at
\* every bar while the position is there.
TimedOut == age = Hold /\ NewPeak < TstopFav

TimeStop(accepted) ==
  /\ TimedOut
  /\ sl' = NewStop
  /\ CloseOrder(accepted)
  /\ settled' = FALSE
  /\ UNCHANGED bsl

\* What a bug could do: re-assert only when the computed stop advances.
InPlaceUnlessAdvanced ==
  /\ bsl = Intended \/ NewStop = sl
  /\ sl' = ShadowStop
  /\ settled' = TRUE
  /\ UNCHANGED <<open, bsl>>

\* modify_sl_with_fallback.
InPlace ==
  /\ bsl = Intended
  /\ sl' = ShadowStop
  /\ settled' = TRUE
  /\ UNCHANGED <<open, bsl>>

Asserted ==
  /\ bsl # Intended /\ Legal(Intended)
  /\ bsl' = Intended
  /\ sl' = ShadowStop
  /\ settled' = TRUE
  /\ UNCHANGED open

Refused ==   \* not a stops reject: kept, tried again next bar
  /\ bsl # Intended
  /\ sl' = ShadowStop
  /\ settled' = FALSE
  /\ UNCHANGED <<open, bsl>>

Adjusted ==
  /\ bsl # Intended /\ ~Legal(Intended)
  /\ bsl' = AdjustedStop
  /\ sl' = AdjustedStop
  /\ settled' = TRUE
  /\ UNCHANGED open

FallbackClose(accepted) ==   \* refused twice, and the market is through it
  /\ bsl # Intended /\ ~Legal(Intended)
  /\ mkt <= Intended
  /\ CloseOrder(accepted)
  /\ sl' = ShadowStop
  /\ settled' = FALSE
  /\ UNCHANGED bsl

Reassert ==
  InPlace \/ Asserted \/ Refused \/ Adjusted \/ \E ok \in BOOLEAN : FallbackClose(ok)

\* The stop of pos moved: where no lock is armed it was set back by hand.
StopMoved == sl' # sl /\ ~(Through /\ ~LockArmed /\ sl' = ShadowStop)

\* What a bug could do: save only when the stop moved.
SavesOnStop == IF ~TimedOut /\ StopMoved THEN NewPeak ELSE saved

\* Saved at the end, when the stop or the peak changed; never on a time stop.
Saves == IF ~TimedOut /\ (StopMoved \/ NewPeak # peak) THEN NewPeak ELSE saved

\* One pass of _manage_trails_on_bar_close over the leg.
BarClose ==
  /\ up /\ open
  /\ \/ \E ok \in BOOLEAN : TimeStop(ok)
     \/ ~TimedOut /\ Reassert
  /\ peak' = NewPeak
  /\ saved' = Saves
  /\ age' = Aged
  /\ lo' = mkt /\ hi' = mkt
  /\ UNCHANGED <<role, mkt, up>>

\* The process dies after the orders of a pass and before its save.
CrashBeforeSave ==
  /\ up /\ open
  /\ ~TimedOut
  /\ InPlace \/ Asserted \/ Adjusted
  /\ up' = FALSE
  /\ age' = Aged
  /\ lo' = mkt /\ hi' = mkt
  /\ UNCHANGED <<role, mkt, peak, saved>>

Crash ==
  /\ up /\ open
  /\ up' = FALSE
  /\ settled' = FALSE
  /\ UNCHANGED <<role, open, market, bsl, sl, peak, age, saved>>

\* A bar that closes while the bot is down is never managed.
BarMissed ==
  /\ ~up /\ open
  /\ age' = Aged
  /\ lo' = mkt /\ hi' = mkt
  /\ settled' = FALSE
  /\ UNCHANGED <<role, open, mkt, bsl, sl, peak, up, saved>>

\* What a bug could do: start again from the initial stop.
RestartFromInitial ==
  /\ ~up /\ open
  /\ up' = TRUE
  /\ sl' = -SlDist
  /\ peak' = saved
  /\ settled' = FALSE
  /\ UNCHANGED <<role, open, market, bsl, age, saved>>

\* Rehydration (fills.py): the stop from the broker, the peak from the file.
Restart ==
  /\ ~up /\ open
  /\ up' = TRUE
  /\ sl' = bsl
  /\ peak' = saved
  /\ settled' = FALSE
  /\ UNCHANGED <<role, open, market, bsl, age, saved>>

LiveNext ==
  \/ \E p \in Prices : MarketMoves(p)
  \/ BarClose
  \/ CrashBeforeSave
  \/ Crash
  \/ BarMissed
  \/ Restart

LiveSpec == LiveInit /\ [][LiveNext]_liveVars

\* M1 bars keep closing, a crashed bot is started again, and the broker does
\* not refuse every order for ever.
ClosedByTimeStop == BarClose /\ TimeStop(TRUE)
LiveFairSpec == LiveSpec /\ SF_liveVars(BarClose) /\ SF_liveVars(ClosedByTimeStop) /\ WF_liveVars(Restart)

-----------------------------------------------------------------------------
\* The shadow's, the file's and the broker's copies of a leg stay in range.
LiveTypeOK ==
  /\ role \in Role /\ open \in BOOLEAN /\ up \in BOOLEAN /\ settled \in BOOLEAN
  /\ {mkt, lo, hi, bsl, sl} \subseteq Int
  /\ lo <= mkt /\ mkt <= hi
  /\ peak \in Nat /\ saved \in Nat
  /\ age \in 0..Hold

\* An earned rung protects the leg at the broker after every pass whose orders
\* went through, as soon as the broker can accept it -- whatever was refused,
\* skipped or forgotten before.  Two cases are the code's exceptions: the bar
\* touched the shadow's stop, which ends the update early, or the trail above
\* the rung is beyond the market, where the clamp keeps the previous stop.
LegalRungRests ==
  [][/\ settled' /\ open' /\ up'
     /\ ~StopHit(sl, Bar)
     /\ RungFor(role, peak') # 0
     /\ Legal(RungStop(role, peak'))
     /\ Frozen(age) \/ Legal(TrailStop(peak'))
     => bsl' >= RungStop(role, peak')]_liveVars

\* Whatever the shadow, the clamp, the adjusted retries and the restarts do,
\* the resting stop never gives back the broker's probe distance or more in
\* one step (the adjusted retry is set from the market, not from the old stop).
BrokerStopKeeps ==
  [][bsl' >= bsl \/ bsl - bsl' < Higher(Probe, StopsLevel)]_liveVars

\* A restart never loses a rung: the peak that armed one is in the state file
\* as soon as the pass that saw it has ended.
PeakSurvives == up /\ RungFor(role, peak) # 0 => saved = peak

\* A leg that never moves is timed out in the end, although its close may be
\* refused and the bot may crash, or the leg ends or moves.
LoserTimedOut == <>(~open \/ peak >= TstopFav)
=============================================================================
