----------------------------- MODULE BoostStop -----------------------------
(***************************************************************************)
(* One boost leg driven by closed M1 bars (strategy._update_boost_on_bar): *)
(* a hard backstop below the arm, a breath-gap trail above it, the rally   *)
(* pullback detector, and the ride with the parent leg's stop.  Prices are *)
(* signed distances from the boost's entry, positive in its favour.        *)
(***************************************************************************)
EXTENDS Extremes

CONSTANTS
  BoostPrices,   \* the prices bars and parent stops are made of
  NoParent,      \* the parent closed, or its ticket is not known
  \* By kind:
  Hard,          \* hard backstop distance  (rally_boost_sl / boost_sl_dollars)
  Arm,           \* peak that arms the trail         (rally_arm_fav / boost_trail_arm_fav)
  Floor,         \* least profit an armed trail locks (rally_lock_floor / boost_lock_floor)
  Gap,           \* distance of the trail below the peak
  \* For both:
  BoostTp,       \* take-profit distance
  Ride,          \* cfg.boost_ride_with_parent
  Pullback,      \* cfg.rally_pullback_enabled
  Tolerance,     \* adverse distance the detector allows (rally_pullback_tol_dollars)
  Patience       \* adverse bars it allows, 0 = no bound  (rally_pullback_time_bound_min)

Kinds == {"RALLY", "RESCUE"}

ASSUME BoostDistances ==
  /\ {Hard, Arm, Floor, Gap} \subseteq [Kinds -> Nat]
  /\ {BoostTp, Tolerance, Patience} \subseteq Nat
  /\ \A k \in Kinds : Floor[k] <= Arm[k] /\ 0 < Arm[k] /\ 0 < Hard[k]
ASSUME BoostSwitches == Ride \in BOOLEAN /\ Pullback \in BOOLEAN
ASSUME BoostPricesAreInts == BoostPrices \subseteq Int /\ NoParent \notin Int

VARIABLES
  kind,      \* pos.boost_kind
  current_sl, \* pos.current_sl
  max_fav,   \* pos.max_fav, the peak
  adverse,   \* bars since pullback_since, -1 when it is None
  parent,    \* the parent leg's stop, or NoParent
  closed,    \* pos.closed
  exit       \* pos.exit_price, 0 while the boost is open

boostVars == <<kind, current_sl, max_fav, adverse, parent, closed, exit>>

IsRally == kind = "RALLY"

Armed(p) == p >= Arm[kind]

TrailFor(p) == Higher(Floor[kind], p - Gap[kind])

\* What a bug could do: ride without the entry bound.
RideUnbounded(stop, psl) ==
  IF IsRally /\ Ride /\ psl # NoParent THEN Lower(stop, psl) ELSE stop

\* No tighter than the parent's stop, never below the boost's own entry.
RideWithParent(stop, psl) ==
  IF IsRally /\ Ride /\ psl # NoParent THEN Higher(Lower(stop, psl), 0) ELSE stop

BoostBars ==
  {b \in [worst : BoostPrices, best : BoostPrices, open : BoostPrices, close : BoostPrices] :
     /\ b.worst <= b.open /\ b.open <= b.best
     /\ b.worst <= b.close /\ b.close <= b.best}

\* What a bug could do: fill at the open however far the bar gapped.
GapFillAtOpen(level, bar) == IF bar.open < level THEN bar.open ELSE level

\* The fill of a stop a bar opened beyond: floored by the backstop.
GapFill(level, bar) == IF bar.open < level THEN Higher(-Hard[kind], bar.open) ELSE level

CutLevel == -Lower(Tolerance, Hard[kind])
Watching == IsRally /\ Pullback

BoostInit ==
  /\ kind \in Kinds
  /\ current_sl = -Hard[kind]
  /\ max_fav = 0
  /\ adverse = -1
  /\ parent \in BoostPrices \cup {NoParent}
  /\ closed = FALSE
  /\ exit = 0

CloseAt(price) == closed' = TRUE /\ exit' = price /\ UNCHANGED max_fav

\* The armed trail, ridden with the parent: a rally fills at the trail even
\* when the bar gapped through it.
BreathExit(bar, ridden, psl) ==
  LET breath == RideWithParent(TrailFor(max_fav), psl) IN
  /\ Armed(max_fav)
  /\ bar.worst <= breath
  /\ CloseAt(IF IsRally THEN breath ELSE GapFill(breath, bar))
  /\ current_sl' = ridden
  /\ UNCHANGED adverse

BreathHolds(bar, psl) ==
  ~(Armed(max_fav) /\ bar.worst <= RideWithParent(TrailFor(max_fav), psl))

\* The pullback detector cuts a reversal, at once or after Patience bars.
PullbackCut(bar, ridden) ==
  /\ Watching
  /\ bar.worst <= CutLevel
  /\ CloseAt(GapFill(CutLevel, bar))
  /\ current_sl' = ridden
  /\ adverse' = -1

PullbackSlowCut(bar, ridden) ==
  /\ Watching
  /\ CutLevel < bar.worst /\ bar.best < 0
  /\ 0 < Patience /\ adverse + 1 >= Patience
  /\ CloseAt(Higher(-Hard[kind], bar.close))
  /\ current_sl' = ridden
  /\ adverse' = -1

PullbackHolds(bar) ==
  ~Watching \/ (CutLevel < bar.worst /\ (bar.best >= 0 \/ Patience = 0 \/ adverse + 1 < Patience))

NextAdverse(bar) ==
  IF ~Watching \/ bar.best >= 0 THEN -1
  ELSE IF Patience = 0 THEN 0 ELSE adverse + 1

\* The resting stop, live whether armed or not.
StopExit(bar, ridden) ==
  /\ bar.worst <= ridden
  /\ CloseAt(ridden)
  /\ current_sl' = ridden
  /\ adverse' = NextAdverse(bar)

TargetExit(bar, ridden) ==
  /\ bar.worst > ridden
  /\ bar.best >= BoostTp
  /\ CloseAt(BoostTp)
  /\ current_sl' = ridden
  /\ adverse' = NextAdverse(bar)

\* Nothing closed the boost: the peak advances (no garbage filter here), the
\* stop ratchets behind it and rides with the parent again.
Ratchet(bar, ridden, psl) ==
  /\ bar.worst > ridden
  /\ bar.best < BoostTp
  /\ max_fav' = Higher(max_fav, bar.best)
  /\ LET raised == Higher(ridden, IF Armed(max_fav') THEN TrailFor(max_fav') ELSE -Hard[kind])
     IN current_sl' = IF Armed(max_fav') THEN RideWithParent(raised, psl) ELSE raised
  /\ adverse' = NextAdverse(bar)
  /\ UNCHANGED <<closed, exit>>

OnBoostBar(bar, psl) ==
  LET ridden == IF Armed(max_fav) THEN RideWithParent(current_sl, psl) ELSE current_sl IN
  /\ ~closed
  /\ parent' = psl /\ UNCHANGED kind
  /\ \/ BreathExit(bar, ridden, psl)
     \/ BreathHolds(bar, psl) /\ (PullbackCut(bar, ridden) \/ PullbackSlowCut(bar, ridden))
     \/ /\ BreathHolds(bar, psl) /\ PullbackHolds(bar)
        /\ StopExit(bar, ridden) \/ TargetExit(bar, ridden) \/ Ratchet(bar, ridden, psl)

\* The parent's stop is a ratchet of its own (LegStop!StopOneWay) until the
\* parent closes; a closed parent never comes back.
ParentStops ==
  {psl \in BoostPrices \cup {NoParent} :
     psl = NoParent \/ (parent # NoParent /\ psl >= parent)}

BoostNext == \E bar \in BoostBars, psl \in ParentStops : OnBoostBar(bar, psl)

BoostSpec == BoostInit /\ [][BoostNext]_boostVars

-----------------------------------------------------------------------------
\* The boost, its stop, its peak and its parent stay in range.
BoostTypeOK ==
  /\ kind \in Kinds
  /\ current_sl \in Int /\ max_fav \in Nat
  /\ adverse \in -1..Patience
  /\ parent \in BoostPrices \cup {NoParent}
  /\ closed \in BOOLEAN /\ exit \in Int

\* The backstop bounds what one boost can lose, on every way out of it:
\* trail, gap through the trail, both pullback cuts, resting stop.
LossBounded == current_sl >= -Hard[kind] /\ (closed => exit >= -Hard[kind])

\* An armed rally boost cannot be dragged into a loss: neither by riding with
\* a parent whose stop is still below the boost's entry, nor by a gap, nor by
\* the pullback detector (the bound stated in _ride_with_parent_stop).
ArmedRallyNeverLoses ==
  IsRally /\ Armed(max_fav) => current_sl >= 0 /\ (closed => exit >= 0)

\* Riding: an armed rally boost whose parent is open has a stop no tighter
\* than the parent's, or than its own entry when that is higher.
RidesWithParent ==
  IsRally /\ Ride /\ Armed(max_fav) /\ parent # NoParent => current_sl <= Higher(parent, 0)

\* An armed boost without a parent to ride with locks its floor.
FloorWithoutParent ==
  Armed(max_fav) /\ (parent = NoParent \/ ~IsRally \/ ~Ride) /\ ~closed
    => current_sl >= Floor[kind]

\* The boost's stop is a one-way ratchet although riding can only loosen a
\* single value: as the parent only ratchets or closes, the result never falls.
BoostOneWay == [][current_sl' >= current_sl]_boostVars
=============================================================================
