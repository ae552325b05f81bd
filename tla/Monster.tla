------------------------------ MODULE Monster ------------------------------
(***************************************************************************)
(* rogue_monster_live.py, the engine that rogue.drive runs: an entry stop, *)
(* then chain stops on every fill, all with stops that only tighten, under *)
(* a day governor.  The broker fills and closes on its own between any two *)
(* queries of a pass.  The engine's memory is lost in a restart and        *)
(* renewed at a day roll; the broker's side stays.  Prices are points in a *)
(* leg's favour.  The arming gate (bias, caution, cooldown, fatigue, hours *)
(* and the loop's allow_new_entries) can only forbid an entry: the model   *)
(* lets it open at any pass.                                               *)
(***************************************************************************)
EXTENDS Integers, FiniteSets, Functions

CONSTANTS
  Tickets,      \* bound: tickets in use at one time
  MaxChains,    \* rogue_max_chains
  Cap,          \* rogue_sl_cap: the initial stop, from the level
  Chase,        \* pending_chase_cap_pts: how far past the level a chase opens
  BeArm, BeFloor,        \* rogue_be_lock_arm, rogue_be_lock_floor
  TrailStart, TrailGap,  \* rogue_trail_start, rogue_trail_gap
  MaxPeak,      \* bound: points a leg ever runs
  LossHalt, ProfitLock,  \* governor: -rogue_day_loss_halt, rogue_profit_lock
  GiveStart, GiveBack,   \* rogue_day_profit_trail_start, _giveback
  MaxSlips      \* bound: restarts, day rolls, forced closes, failed queries,
                \* lost answers and blind entries, together

ASSUME MonsterBounds ==
  /\ Tickets \subseteq Nat /\ IsFiniteSet(Tickets)
  /\ {Chase, MaxChains, BeFloor, TrailGap, MaxPeak, GiveBack, MaxSlips} \subseteq Nat
  /\ {Cap, LossHalt, ProfitLock, GiveStart} \subseteq Nat \ {0}
  /\ BeArm \in Nat /\ TrailStart \in Nat /\ BeFloor <= BeArm

Sides == {"LONG", "SHORT"}
None == [side |-> "none", kind |-> "none"]

VARIABLES
  pos,     \* at the broker: open tickets -> [side, sl]
  ord,     \* at the broker: resting stops -> side
  pnl,     \* at the broker: realized today
  known,   \* m["positions"]: ticket -> [side, peak, sl]
  pend,    \* m["pend"]: [side, kind] or None
  chains,  \* m["chains_in_seq"]
  halted,  \* m["halted"]
  peak,    \* m["day_peak_pnl"]
  saved,   \* the same in the state file
  phase,   \* where the pass is
  snap,    \* the positions this pass has read
  resting, \* the pendings this pass has read
  slips    \* history: how often something the engine cannot see went wrong

broker == <<pos, ord, pnl>>
engine == <<known, pend, chains, halted, peak>>
pass == <<phase, snap, resting>>
vars == <<broker, engine, pass, saved, slips>>

Empty == [t \in {} |-> None]

\* The most a leg may lose: a chased one opens past the level of its stop.
Risk == Cap + Chase

\* A leg at the broker, and what the engine believes of one.
Legs == [side : Sides, sl : -Risk..MaxPeak]
Beliefs == [side : Sides, peak : 0..MaxPeak, sl : -Risk..MaxPeak]

\* The type of the state; a ticket is a resting stop or a position, never both,
\* and the engine knows a leg with a stop and a peak inside its run.
TypeOK ==
  /\ DOMAIN pos \subseteq Tickets /\ DOMAIN ord \subseteq Tickets
  /\ DOMAIN pos \intersect DOMAIN ord = {}
  /\ DOMAIN known \subseteq Tickets
  /\ pos \in [DOMAIN pos -> Legs] /\ ord \in [DOMAIN ord -> Sides]
  /\ known \in [DOMAIN known -> Beliefs]
  /\ pend \in [side : Sides, kind : {"ENTRY", "CHAIN"}] \union {None}
  /\ chains \in Nat /\ halted \in BOOLEAN /\ pnl \in Int /\ peak \in Nat /\ saved \in Nat
  /\ phase \in {"idle", "queried", "reconcile", "manage"}
  /\ DOMAIN snap \subseteq Tickets /\ snap \in [DOMAIN snap -> Legs]
  /\ resting \subseteq Tickets
  /\ slips \in 0..MaxSlips

Init ==
  /\ pos = Empty /\ ord = Empty /\ pnl = 0
  /\ known = Empty /\ pend = None /\ chains = 0
  /\ halted = FALSE /\ peak = 0 /\ saved = 0
  /\ phase = "idle" /\ snap = Empty /\ resting = {}
  /\ slips = 0

Slip == slips < MaxSlips /\ slips' = slips + 1

-----------------------------------------------------------------------------
(* The broker, on its own.                                                 *)

\* A leg whose entry is past its level by so much.
FreshLeg(side, past) == [side |-> side, sl |-> -Cap - past]

\* The table f with v in the places S.
With(f, S, v) == [t \in DOMAIN f \union S |-> IF t \in S THEN v ELSE f[t]]

\* A resting stop is hit: the position takes over its ticket.
Fill(t) ==
  /\ t \in DOMAIN ord
  /\ pos' = With(pos, {t}, FreshLeg(ord[t], 0))
  /\ ord' = Restrict(ord, DOMAIN ord \ {t})
  /\ UNCHANGED <<pnl, engine, pass, saved, slips>>

\* A leg's stop is hit.
StopOut(t) ==
  /\ t \in DOMAIN pos
  /\ pos' = Restrict(pos, DOMAIN pos \ {t})
  /\ pnl' = pnl + pos[t].sl
  /\ UNCHANGED <<ord, engine, pass, saved, slips>>

Cancelled(S) == Restrict(ord, DOMAIN ord \ S)

-----------------------------------------------------------------------------
(* Placing (_place_stop over place_stop_order).                            *)

\* Tickets nothing remembers; the lowest come first.
Free == Tickets \ (DOMAIN pos \union DOMAIN ord \union DOMAIN known \union DOMAIN snap)
NewTickets(n) ==
  {S \in SUBSET Free : Cardinality(S) = n /\ \A t \in S, u \in Free \ S : t < u}

\* One placement: `rests` orders rest and `opens` (none or one) is open.
Sent(side, kind, rests, opens, noted) ==
  /\ \E new \in NewTickets(rests + opens), past \in 0..Chase :
       \E filled \in SUBSET new :
         /\ Cardinality(filled) = opens
         /\ ord' = With(ord, new \ filled, side)
         /\ pos' = With(pos, filled, FreshLeg(side, past))
  /\ pend' = IF noted THEN [side |-> side, kind |-> kind] ELSE None

\* An attempt sends the stop, which rests (and is noted) or is refused; or chases
\* at market a price that has passed the level by little; or drops it.  A lost
\* answer hides an order that rests or has filled, and the adapter and the next
\* attempts send again: a slip each time.  An entry is sent blind when something
\* has opened since the pass has looked.
Place(side, kind) ==
  LET blind == IF kind = "ENTRY" /\ resting = {} /\ (pos # Empty \/ ord # Empty)
               THEN 1 ELSE 0
  IN \E lost \in 0..MaxSlips :
       /\ slips + blind + lost <= MaxSlips /\ slips' = slips + blind + lost
       /\ \/ Sent(side, kind, lost + 1, 0, TRUE)
          \/ Sent(side, kind, lost, 1, FALSE)
          \/ Sent(side, kind, lost, 0, FALSE)
          \/ lost > 0 /\ Sent(side, kind, lost - 1, 1, FALSE)

-----------------------------------------------------------------------------
(* One pass (drive_monster): positions, then pendings and the day's P&L,   *)
(* the governor, the reconciliation leg by leg, the trails, the arm.       *)

\* _rogue_positions: a failed query reads as no positions.
ReadPositions ==
  /\ phase = "idle" /\ ~halted
  /\ \/ snap' = pos /\ UNCHANGED slips
     \/ pos # Empty /\ snap' = Empty /\ Slip
  /\ phase' = "queried"
  /\ UNCHANGED <<broker, engine, resting, saved>>

\* day_peak_pnl.
Top(net) == IF net > peak THEN net ELSE peak

\* What a bug could do: compare the peak, which only grows, with the loss.
HaltsOnPeak(net, top) ==
  \/ top <= -LossHalt
  \/ net >= ProfitLock
  \/ top >= GiveStart /\ net <= top - GiveBack

\* _governor's three limits.
Halts(net, top) ==
  \/ net <= -LossHalt
  \/ net >= ProfitLock
  \/ top >= GiveStart /\ net <= top - GiveBack

\* What the legs in S lose, and what they win, at their stops, counted point by
\* point.
Lost(S) == Cardinality({p \in S \X (1..Risk) : pos[p[1]].sl <= -p[2]})
Won(S) == Cardinality({p \in S \X (1..MaxPeak) : pos[p[1]].sl >= p[2]})

\* Close requests at the market, at the stop's price or at the best one;
\* nobody reads which were refused.
CloseAll ==
  \E refused \in SUBSET DOMAIN pos, best \in BOOLEAN :
    LET closed == DOMAIN pos \ refused IN
    /\ pos' = Restrict(pos, refused)
    /\ pnl' = pnl + IF best THEN MaxPeak * Cardinality(closed)
                    ELSE Won(closed) - Lost(closed)

\* Cancel requests for the orders in S.
CancelAll(S) ==
  \E refused \in SUBSET S : ord' = Cancelled(S \ refused)

\* The rest of the pass when the governor halts the day (_flatten_all).
HaltDay ==
  /\ CloseAll
  /\ CancelAll(DOMAIN ord)
  /\ known' = Empty /\ pend' = None
  /\ halted' = TRUE
  /\ phase' = "idle"
  /\ snap' = Empty /\ resting' = {}

\* _rogue_pendings and _day_pnl, which also read as empty and as 0 when the
\* query fails, then _governor.
ReadRestAndGovern ==
  /\ phase = "queried"
  /\ \E found \in {DOMAIN ord, {}}, net \in {pnl, 0} :
       LET top == Top(net) IN
       /\ IF found = DOMAIN ord /\ net = pnl THEN UNCHANGED slips ELSE Slip
       /\ peak' = top
       /\ IF Halts(net, top)
          THEN HaltDay /\ saved' = top
          ELSE /\ phase' = "reconcile" /\ resting' = found
               /\ UNCHANGED <<broker, known, pend, halted, snap, saved>>
  /\ UNCHANGED chains

\* What a bug could do: believe the initial stop of an adopted leg.
AdoptedFresh(leg) == [side |-> leg.side, peak |-> 0, sl |-> -Risk]

\* A leg is taken over with the stop the broker shows, whatever its peak was.
Adopted(leg) == [side |-> leg.side, peak |-> 0, sl |-> leg.sl]

\* What a bug could do: count only the chain stops that were recognised.
CountedIfNoted(kind) ==
  IF kind = "ENTRY" THEN 0 ELSE IF pend = None THEN chains ELSE chains + 1

\* chains_in_seq after a fill.
Counted(kind) == IF kind = "ENTRY" THEN 0 ELSE chains + 1

\* What a bug could do: take over only the fill of the order noted last.
UnknownIfNoted == IF pend = None THEN {} ELSE DOMAIN snap \ DOMAIN known

\* Legs the broker shows and the engine does not know.
Unknown == DOMAIN snap \ DOMAIN known

\* _reconcile's first loop: a fill is an entry or a chain by the order noted
\* last; every fill below the limit places the next chain stop.
Adopt(t) ==
  /\ phase = "reconcile" /\ t \in Unknown
  /\ LET kind == IF pend.side = snap[t].side THEN pend.kind
                 ELSE IF known # Empty THEN "CHAIN" ELSE "ENTRY"
     IN /\ chains' = Counted(kind)
        /\ known' = With(known, {t}, Adopted(snap[t]))
        /\ IF chains' < MaxChains THEN Place(snap[t].side, "CHAIN")
           ELSE pend' = None /\ UNCHANGED <<pos, ord, slips>>
  /\ UNCHANGED <<pnl, halted, peak, pass, saved>>

\* Its second loop: legs that are gone; the end of a sequence cancels what
\* rests.  The guards this feeds only narrow the gate.
Settle ==
  /\ phase = "reconcile" /\ Unknown = {}
  /\ known' = Restrict(known, DOMAIN known \intersect DOMAIN snap)
  /\ IF known' = Empty /\ known # Empty
     THEN CancelAll(DOMAIN ord) /\ pend' = None
     ELSE UNCHANGED <<ord, pend>>
  /\ phase' = "manage"
  /\ UNCHANGED <<pos, pnl, chains, halted, peak, snap, resting, saved, slips>>

\* _manage_trails: the trail target, before it the break-even lock, and either
\* only when it is better than the stop the engine believes in.
Target(leg) ==
  LET goal == IF leg.peak >= TrailStart THEN leg.peak - TrailGap
              ELSE IF BeArm > 0 /\ leg.peak >= BeArm THEN BeFloor ELSE leg.sl
  IN IF goal > leg.sl THEN goal ELSE leg.sl

\* The end of a pass, which saves the state (rms.save).
EndPass == phase' = "idle" /\ snap' = Empty /\ resting' = {} /\ saved' = peak

\* A pass that has seen legs trails them and arms nothing.  The believed stop
\* moves whether or not the broker takes the change.
Trail ==
  /\ phase = "manage" /\ snap # Empty
  /\ LET legs == DOMAIN snap \intersect DOMAIN known IN
     \E fav \in [legs -> 0..MaxPeak], refused \in SUBSET legs :
       LET Seen(t) == [known[t] EXCEPT !.peak = IF fav[t] > @ THEN fav[t] ELSE @]
           stop == [t \in legs |-> Target(Seen(t))]
       IN /\ known' = [t \in DOMAIN known |->
                         IF t \in legs THEN [Seen(t) EXCEPT !.sl = stop[t]] ELSE known[t]]
          /\ pos' = [t \in DOMAIN pos |->
                       IF t \in legs \ refused /\ stop[t] # known[t].sl
                       THEN [pos[t] EXCEPT !.sl = stop[t]] ELSE pos[t]]
  /\ EndPass
  /\ UNCHANGED <<ord, pnl, pend, chains, halted, peak, slips>>

\* What a bug could do: arm beside an entry that already rests.
MayArmAnyway == snap = Empty

\* No entry beside what the pass has seen open or resting.
MayArm == snap = Empty /\ resting = {}

\* arm_side.  The sides are mirror images: from an empty book one is enough.
EntrySides ==
  IF pos = Empty /\ ord = Empty /\ known = Empty THEN {"LONG"} ELSE Sides

\* _maybe_arm: an entry stop is placed, or a resting one is given up after
\* quiet bars, or nothing happens.
Arm ==
  /\ phase = "manage" /\ snap = Empty
  /\ \/ MayArm /\ \E side \in EntrySides : Place(side, "ENTRY")
     \/ /\ resting # {}
        /\ CancelAll(resting \intersect DOMAIN ord) /\ pend' = None
        /\ UNCHANGED <<pos, slips>>
     \/ UNCHANGED <<pos, ord, pend, slips>>
  /\ EndPass
  /\ UNCHANGED <<pnl, known, chains, halted, peak>>

-----------------------------------------------------------------------------
(* What happens to the engine.                                             *)

Forgotten == known' = Empty /\ pend' = None /\ chains' = 0 /\ halted' = FALSE

\* The process ends anywhere; _load_same_day brings back the day's peak but
\* neither the legs nor the halt.
Restart ==
  /\ Slip /\ Forgotten
  /\ peak' = saved
  /\ phase' = "idle" /\ snap' = Empty /\ resting' = {}
  /\ UNCHANGED <<broker, saved>>

\* A new day builds a new state, takes nothing from the file of the day before,
\* and stops of the day (ORDER_TIME_DAY) expire.
DayRoll ==
  /\ Slip /\ Forgotten
  /\ phase = "idle"
  /\ peak' = 0 /\ saved' = 0 /\ pnl' = 0 /\ ord' = Empty
  /\ UNCHANGED <<pos, pass>>

\* force_close_open, called by the kill switch and by /flatten: the legs are
\* closed and forgotten, the resting stops are not touched.
ForceClose ==
  /\ Slip
  /\ phase = "idle"
  /\ CloseAll
  /\ known' = Empty /\ pend' = None
  /\ UNCHANGED <<ord, chains, halted, peak, pass, saved>>

BrokerMoves == \E t \in Tickets : Fill(t) \/ StopOut(t)
Pass == ReadPositions \/ ReadRestAndGovern \/ (\E t \in Tickets : Adopt(t))
        \/ Settle \/ Trail \/ Arm

Next == BrokerMoves \/ Pass \/ Restart \/ DayRoll \/ ForceClose

Spec == Init /\ [][Next]_vars

\* The loop runs on every tick while the engine is switched on.
FairSpec == Spec /\ WF_vars(Pass)

-----------------------------------------------------------------------------
(* Properties.                                                             *)

\* What the engine can have at stake at the broker: one entry and its chains.
\* Each thing it cannot see may add one more set of chains.
MaxExposure == 1 + MaxChains + slips * MaxChains

\* Legs and resting stops at the broker stay within that: a limit on lots that
\* holds through restarts, lost answers and fills between two queries.
ExposureBounded == Cardinality(DOMAIN pos \union DOMAIN ord) <= MaxExposure

\* No leg hedges another: while nothing went wrong, all are on one side.
OneSide == slips = 0 => \A t, u \in DOMAIN pos : pos[t].side = pos[u].side

\* The day if every stop that is open or rests is hit; a resting one counts as
\* much as a leg can lose.
Worst == pnl - Lost(DOMAIN pos) - Risk * Cardinality(DOMAIN ord)

\* The governor bounds the day's loss, not only the loss it looks at: beyond
\* the halt there is at most one full exposure, even with refused closes and
\* legs that were chased at market past the level their stop was set from.
LossBounded == Worst > -LossHalt - Risk * MaxExposure

\* The engine never loosens a stop at the broker: not when a change was
\* refused, nor when it takes a leg over with its peak forgotten.
StopNeverLoosened ==
  [][\A t \in DOMAIN pos \intersect DOMAIN pos' : pos'[t].sl >= pos[t].sl]_vars

\* Again and again the engine knows every leg the broker holds, after a
\* restart too, unless the day is halted.
LegsAdopted == []<>(halted \/ DOMAIN pos \subseteq DOMAIN known)

=============================================================================
