---------------------------- MODULE RallyBoosts ----------------------------
(***************************************************************************)
(* The rally boosts of one anchor leg: fills._check_boost_triggers, which  *)
(* every pass of the loop runs behind the reconcile and before its gates,  *)
(* the fleet it sends at market (boosts_common.place_fleet) and the cap on *)
(* what an open fleet may lose (enforce_cap).  What a boost does once it   *)
(* is filled is BoostStop.  Rescue boosts, late rescues and boost_spec are *)
(* off in config.py; a losing leg fires nothing.                           *)
(*                                                                         *)
(* Prices are signed distances from the leg's fill, in the leg's favour.   *)
(***************************************************************************)
EXTENDS Integers, Sequences, FiniteSetsExt

CONSTANTS
  MidPrices,   \* the prices the market visits
  RallyArm,    \* cfg.rally_arm_fav
  RescueArm,   \* cfg.boost_trigger_dollars
  HoldTicks,   \* cfg.hold_ticks
  FleetSize,   \* cfg.rescue_boost_count
  RallySl      \* cfg.rally_boost_sl

ASSUME RallyBounds ==
  /\ MidPrices \subseteq Int
  /\ {RallyArm, RescueArm, HoldTicks, FleetSize, RallySl} \subseteq Nat \ {0}

VARIABLES
  mid,      \* the market
  leg,      \* the leg is open at the broker
  watch,    \* its shadow: "armed" (eligible), "fired", or "off" (no such shadow)
  streak,   \* boost_cross_streak, counted up to HoldTicks
  boosts,   \* every boost the broker filled; "as" is what the bot takes it for:
            \* a "boost", after a restart a plain "leg", or nothing ("unknown")
  filed,    \* the boosts in the state file
  pc,       \* where the pass is
  tick,     \* the price its scan has read
  ref, due  \* the fire under way: its reference price, the boosts to be sent

fire == <<tick, ref, due>>
rallyVars == <<mid, leg, watch, streak, boosts, filed, pc, fire>>

RallyInit ==
  /\ mid \in MidPrices
  /\ leg = TRUE
  /\ watch = "armed" /\ streak = 0
  /\ boosts = <<>> /\ filed = {}
  /\ pc = "pass" /\ tick = mid /\ ref = 0 /\ due = 0

Known == {b \in DOMAIN boosts : boosts[b].as = "boost"}
Tracked == {b \in DOMAIN boosts : boosts[b].as # "unknown"}

As(b, what) == [boosts[b] EXCEPT !.as = what]

-----------------------------------------------------------------------------
(* The market and the broker. *)

Move(p) ==
  /\ p # mid
  /\ mid' = p
  /\ boosts' = [b \in DOMAIN boosts |-> [boosts[b] EXCEPT !.open = @ /\ boosts[b].sl < p]]
  /\ UNCHANGED <<leg, watch, streak, filed, pc, fire>>

LegCloses ==
  /\ leg /\ leg' = FALSE
  /\ UNCHANGED <<mid, watch, streak, boosts, filed, pc, fire>>

\* A boost's trail, its pullback detector or, after a restart, the leg's ladder.
BoostCloses(b) ==
  /\ b \in Tracked /\ boosts[b].open
  /\ boosts' = [boosts EXCEPT ![b].open = FALSE]
  /\ UNCHANGED <<mid, leg, watch, streak, filed, pc, fire>>

-----------------------------------------------------------------------------
(* The pass. *)

\* _reconcile_with_broker forgets what is closed; a failed query (None) reads as
\* an empty book, and everything is forgotten.
Reconcile(answered) ==
  /\ pc = "pass" /\ pc' = "scan"
  /\ watch' = IF answered /\ leg THEN watch ELSE "off"
  /\ boosts' = [b \in DOMAIN boosts |->
       IF answered /\ boosts[b].open THEN boosts[b] ELSE As(b, "unknown")]
  /\ UNCHANGED <<mid, leg, streak, filed, fire>>

\* What a bug could do: give a leg its eligibility back and not the fleet it has.
WatchArmed == IF leg THEN "armed" ELSE "off"

\* Rehydration restores a shadow without its boost fields.
WatchRehydrated == "off"

\* The first reconcile of a boot takes over what the file names, a boost as a
\* leg; if it gets no answer the file is forgotten all the same.
Rehydrate(answered) ==
  /\ pc = "boot" /\ pc' = "scan"
  /\ watch' = IF answered THEN WatchRehydrated ELSE "off"
  /\ boosts' = [b \in DOMAIN boosts |->
       IF answered /\ boosts[b].open /\ b \in filed THEN As(b, "leg") ELSE boosts[b]]
  /\ UNCHANGED <<mid, leg, streak, filed, fire>>

\* No tick: the scan ends before it has begun.
ScanBlind ==
  /\ pc = "scan" /\ pc' = "pass"
  /\ UNCHANGED <<mid, leg, watch, streak, boosts, filed, fire>>

\* What a bug could do: let the switch of the entries switch the cap off too.
NextIfBlockedLeaves == "pass"

NextIfBlocked == "cap"

\* The anchors are switched off or stopped for the day: no new risk.
ScanBlocked ==
  /\ pc = "scan" /\ pc' = NextIfBlocked
  /\ tick' = mid
  /\ UNCHANGED <<mid, leg, watch, streak, boosts, filed, ref, due>>

Crossed == mid >= RallyArm \/ mid <= -RescueArm
Planned == watch = "armed" /\ mid >= RallyArm
Streak == IF Planned THEN IF streak = HoldTicks THEN streak ELSE streak + 1
          ELSE IF watch = "armed" /\ ~Crossed THEN 0 ELSE streak

\* Nothing is planned, or not yet held; or the break-and-hold gate or the FP
\* guard holds the fire back.
ScanHolds ==
  /\ pc = "scan" /\ pc' = "cap"
  /\ tick' = mid
  /\ streak' = Streak
  /\ UNCHANGED <<mid, leg, watch, boosts, filed, ref, due>>

\* boost_fired is set before the first order.
ScanFires ==
  /\ pc = "scan" /\ pc' = "placing"
  /\ Planned /\ Streak = HoldTicks
  /\ tick' = mid
  /\ streak' = Streak
  /\ watch' = "fired"
  /\ ref' = mid /\ due' = FleetSize
  /\ UNCHANGED <<mid, leg, boosts, filed>>

Scan == ScanBlocked \/ ScanHolds \/ ScanFires

\* A market order of the fleet: stop below the reference price, whatever it fills
\* at; after a lost answer nobody looks.  The event it opens is saved at its end.
Fill(what) ==
  /\ ref - RallySl < mid
  /\ boosts' = Append(boosts, [entry |-> mid, sl |-> ref - RallySl, open |-> TRUE, as |-> what])

Send ==
  /\ pc = "placing" /\ due > 0
  /\ Fill("boost") \/ Fill("unknown") \/ UNCHANGED boosts
  /\ due' = due - 1
  /\ UNCHANGED <<mid, leg, watch, streak, filed, pc, tick, ref>>

FleetSent ==
  /\ pc = "placing" /\ due = 0
  /\ filed' = Tracked
  /\ pc' = "cap"
  /\ ref' = 0
  /\ UNCHANGED <<mid, leg, watch, streak, boosts, tick, due>>

Cap == FleetSize * RallySl
Breached(price) == Known # {} /\ MapThenSumSet(LAMBDA b : price - boosts[b].entry, Known) <= -Cap

\* enforce_cap: on the price the scan has read; a refused close is only logged.
EnforceCap(kept) ==
  /\ pc = "cap" /\ pc' = "pass"
  /\ boosts' = [b \in DOMAIN boosts |->
       IF Breached(tick) /\ b \in Known \ kept THEN [boosts[b] EXCEPT !.open = FALSE]
       ELSE boosts[b]]
  /\ UNCHANGED <<mid, leg, watch, streak, filed, fire>>

\* Every handler of the pass that saves, saves the tracked positions.
Save ==
  /\ pc = "pass"
  /\ filed' = Tracked
  /\ UNCHANGED <<mid, leg, watch, streak, boosts, pc, fire>>

\* The process dies and comes back.
Die ==
  /\ pc # "down" /\ pc' = "down"
  /\ watch' = "off" /\ streak' = 0
  /\ boosts' = [b \in DOMAIN boosts |-> As(b, "unknown")]
  /\ tick' = 0 /\ ref' = 0 /\ due' = 0
  /\ UNCHANGED <<mid, leg, filed>>

Reboot ==
  /\ pc = "down" /\ pc' = "boot"
  /\ UNCHANGED <<mid, leg, watch, streak, boosts, filed, fire>>

Pass ==
  \/ \E answered \in BOOLEAN : Reconcile(answered) \/ Rehydrate(answered)
  \/ ScanBlind \/ Scan
  \/ Send \/ FleetSent
  \/ \E kept \in SUBSET Known : EnforceCap(kept)

RallyNext ==
  \/ \E p \in MidPrices : Move(p)
  \/ LegCloses
  \/ \E b \in DOMAIN boosts : BoostCloses(b)
  \/ Pass
  \/ Save \/ Die \/ Reboot

RallySpec == RallyInit /\ [][RallyNext]_rallyVars

\* The loop runs pass after pass; the feed and the broker do not fail for ever.
FairRally == RallySpec /\ WF_rallyVars(Pass) /\ SF_rallyVars(Scan) /\ SF_rallyVars(EnforceCap({}))

-----------------------------------------------------------------------------
\* The leg, its fleet and the pass stay in range.
RallyTypeOK ==
  /\ {mid, tick, ref} \subseteq Int /\ leg \in BOOLEAN
  /\ watch \in {"armed", "fired", "off"} /\ streak \in 0..HoldTicks
  /\ boosts \in Seq([entry : Int, sl : Int, open : BOOLEAN, as : {"boost", "leg", "unknown"}])
  /\ filed \subseteq DOMAIN boosts
  /\ pc \in {"pass", "scan", "placing", "cap", "down", "boot"} /\ due \in 0..FleetSize

\* A leg pyramids once: whatever is rejected, lost, forgotten by a failed query or
\* cut short by a crash, the broker never fills more than one fleet for it
\* ("one event per leg", fills.py).
OneFleetALeg == Len(boosts) <= FleetSize

\* A fleet the bot knows does not stay below its cap: it is closed or the price
\* comes back, also while the anchors take no new risk (switched off, or stopped
\* for the day) and whatever closes are refused; only a bot that is down, or has
\* forgotten the fleet, leaves it to its broker stops.
CapHolds == Breached(mid) ~> ~Breached(mid)
=============================================================================
