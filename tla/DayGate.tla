------------------------------- MODULE DayGate -------------------------------
(***************************************************************************)
(* The order of one pass of live_trader._tick and what it lets through:    *)
(* commands, day roll, one-shot recovery, boost triggers, kill switch,     *)
(* Friday flatten, end of day, the Rogue driver, the due anchor and the    *)
(* deferred slot.  An engine is its exposure: flat, resting orders, or a   *)
(* position.                                                               *)
(* What an engine does with its exposure, and how commands and switches    *)
(* travel, is in the other modules: a switch that is off is a driver that  *)
(* does not act.                                                           *)
(***************************************************************************)
EXTENDS Integers

CONSTANTS
  LossStop,    \* the size of anchors_daily_loss_stop
  ProfitStop,  \* anchors_daily_profit_stop
  MaxPnl,      \* bound: the day's realised result
  MaxDays,     \* bound: trading days; the first one is a Friday
  MaxSlips,    \* bound: failed queries and refused closes
  MaxCrashes   \* bound: crashes

Engines == {"anchors", "rogue"}
Exposures == {"flat", "resting", "open"}
ASSUME GateBounds ==
  /\ {MaxPnl, MaxSlips, MaxCrashes} \subseteq Nat /\ MaxDays \in Nat \ {0}
  /\ {LossStop, ProfitStop} \subseteq 1..MaxPnl

VARIABLES
  \* the broker and the clock
  has,       \* [Engines -> Exposures]
  pnl,       \* the anchors' realised result of the broker day
  ruin,      \* equity is at or below the kill limit
  clock,     \* [day, part]: "day", "cutoff" (Friday 22:30), "night" (EOD)
  \* the bot's memory
  pc,
  part,      \* the clock as this pass has read it, the day being mem.day
  seen,      \* the anchors' result as this pass has read it
  slot,      \* _deferred_anchor is set
  ready,     \* _p1_recovered
  mem,       \* self.state
  disk,      \* the state file
  \* history
  blind,     \* the Friday check took a book for flat that was not
  slips, crashes

pass == <<pc, part, seen>>
bot == <<slot, ready>>
broker == <<has, pnl, ruin, clock>>
bounds == <<slips, crashes>>
vars == <<broker, pass, bot, mem, disk, blind, bounds>>

FreshState(d) == [day |-> d, killed |-> FALSE, done |-> FALSE, eod |-> FALSE,
                  locked |-> FALSE, override |-> FALSE]
Friday(d) == d = 1
Flat(e) == has[e] = "flat"
AllFlat == \A e \in Engines : Flat(e)

Init ==
  /\ has = [e \in Engines |-> "flat"] /\ pnl = 0 /\ ruin = FALSE
  /\ clock = [day |-> 1, part |-> "day"]
  /\ pc = "idle" /\ part = "none" /\ seen = 0
  /\ slot = FALSE /\ ready = FALSE
  /\ mem = FreshState(0) /\ disk = FreshState(0)
  /\ blind = FALSE /\ slips = 0 /\ crashes = 0

\* _save_state.  The keys of the day stop are in no other file.
SaveState == disk' = mem'

Goto(step) == pc' = step /\ UNCHANGED <<part, seen>>
PassEnds == pc' = "idle" /\ part' = "none" /\ seen' = 0

Slip(bad) == IF bad THEN slips < MaxSlips /\ slips' = slips + 1
             ELSE UNCHANGED slips

-----------------------------------------------------------------------------
\* The broker and the clock.
Booked(r) == IF pnl + r \in -MaxPnl..MaxPnl THEN pnl + r ELSE pnl

Fill(e) ==
  /\ has[e] = "resting"
  /\ has' = [has EXCEPT ![e] = "open"]
  /\ UNCHANGED <<pnl, ruin, clock>>

\* A position closes; others, or resting orders, may remain.
Close(e) ==
  /\ has[e] = "open"
  /\ \E left \in Exposures : has' = [has EXCEPT ![e] = left]
  /\ \E r \in {-1, 1} : pnl' = IF e = "anchors" THEN Booked(r) ELSE pnl
  /\ UNCHANGED <<ruin, clock>>

EquityMoves ==
  /\ \E e \in Engines : has[e] = "open"
  /\ ruin' = ~ruin
  /\ UNCHANGED <<has, pnl, clock>>

NextClock ==
  CASE clock.part = "day" -> [clock EXCEPT !.part = IF Friday(clock.day) THEN "cutoff" ELSE "night"]
    [] clock.part = "cutoff" -> [clock EXCEPT !.part = "night"]
    [] clock.part = "night" -> [day |-> clock.day + 1, part |-> "day"]

\* A deferred slot lasts minutes and the last anchor of a day is due hours
\* before the cutoff, so none is pending when the day is over.
TimePasses ==
  /\ ~slot
  /\ clock' = NextClock /\ clock'.day <= MaxDays
  /\ pnl' = IF clock'.day = clock.day THEN pnl ELSE 0
  /\ UNCHANGED <<has, ruin>>

World ==
  /\ TimePasses \/ EquityMoves \/ \E e \in Engines : Fill(e) \/ Close(e)
  /\ UNCHANGED <<pass, bot, mem, disk, blind, bounds>>

-----------------------------------------------------------------------------
\* The book is known once the first pass has reconciled it; of Rogue only the
\* positions are, which force_close_open closes.
Book == {e \in Engines : IF e = "anchors" THEN ready /\ ~Flat(e) ELSE has[e] = "open"}

\* The Friday flatten first adopts everything the broker holds.
ResyncedShadow == Book

Resynced == {e \in Engines : ~Flat(e)}

\* risk._flatten_all closes and cancels what is in the book, but a refusal;
\* Rogue's orders rest on unless they were adopted.
Flatten(hits, adopted, failed) ==
  \E refused \in SUBSET hits, left \in {"flat", "resting"} :
    LET gone == hits \ refused IN
    /\ Slip(failed \/ refused # {})
    /\ adopted => left = "flat"
    /\ has' = [e \in Engines |-> IF e \notin gone THEN has[e]
                                ELSE IF e = "rogue" THEN left ELSE "flat"]
    /\ \E r \in {-1, 1} :
         pnl' = IF "anchors" \in gone /\ has["anchors"] = "open" THEN Booked(r) ELSE pnl

-----------------------------------------------------------------------------
\* The day's result from the broker's history; a query that fails reads as a
\* day without deals.
Reading == {[value |-> pnl, bad |-> FALSE], [value |-> 0, bad |-> TRUE]}

\* What a bug could do: a lock that follows the result down again.
LatchedNow(m, v) == [m EXCEPT !.locked = ~m.override /\ v >= ProfitStop]

Latched(m, v) == [m EXCEPT !.locked = @ \/ (~m.override /\ v >= ProfitStop)]

\* daystops.anchors_daystop: the loss halt, and the profit lock unless it is
\* overridden.
Stopped(m, v) == v <= -LossStop \/ (~m.override /\ (m.locked \/ v >= ProfitStop))

\* Step 0: the commands, as many as the list holds.
RunFlatten ==
  /\ Flatten(Book, FALSE, FALSE)
  /\ slot' = FALSE
  /\ UNCHANGED mem

\* /daylock anchors off; a loss halt is not overridden.
RunOverride ==
  /\ \E r \in Reading :
       /\ Slip(r.bad)
       /\ mem' = [Latched(mem, r.value) EXCEPT !.override = @ \/ r.value > -LossStop]
  /\ UNCHANGED <<has, pnl, slot>>

RunCommand ==
  /\ pc = "idle"
  /\ RunFlatten \/ RunOverride
  /\ UNCHANGED <<ruin, clock, pass, ready, disk, blind, crashes>>

-----------------------------------------------------------------------------
\* The day roll, and once after a boot the recovery.
Rolled(d) == FreshState(d)

Roll ==
  /\ pc = "idle"
  /\ ready' = TRUE
  /\ IF mem.day # clock.day
     THEN mem' = Rolled(clock.day) /\ SaveState /\ ruin' = FALSE
     ELSE UNCHANGED <<mem, disk, ruin>>
  /\ pc' = "boost" /\ part' = clock.part /\ UNCHANGED seen
  /\ UNCHANGED <<has, pnl, clock, slot, blind, bounds>>

\* _friday_flatten_reached: it opens the poll and blocks every entry.
FridayReached == Friday(mem.day) /\ part # "day"

AfterFriday == IF part = "night" THEN "eod" ELSE "drive"

\* _check_boost_triggers, before every other gate: it latches the profit lock
\* and asks for the anchors' day stop.  A leg the pass has just reconciled may
\* fire its event.
BoostTriggers ==
  /\ pc = "boost"
  /\ \E r \in Reading :
       /\ Slip(r.bad)
       /\ mem' = Latched(mem, r.value) /\ seen' = r.value
       /\ \/ pc' = "gate"
          \/ has["anchors"] = "open" /\ ~Stopped(mem', r.value) /\ pc' = "fleet"
  /\ UNCHANGED <<broker, part, bot, disk, blind, crashes>>

\* place_fleet: market orders, whatever became of the leg; each may be rejected.
Fleet ==
  /\ pc = "fleet"
  /\ has' \in {has, [has EXCEPT !["anchors"] = "open"]}
  /\ Goto("gate")
  /\ UNCHANGED <<pnl, ruin, clock, bot, mem, disk, blind, bounds>>

\* The kill switch, and what is next.  A killed pass ends here.
Gate ==
  /\ pc = "gate"
  /\ IF mem.killed THEN PassEnds
     ELSE Goto(IF ruin THEN "kill"
               ELSE IF FridayReached /\ ~mem.done THEN "friday" ELSE AfterFriday)
  /\ UNCHANGED <<broker, bot, mem, disk, blind, bounds>>

KillFlatten ==
  /\ pc = "kill"
  /\ Flatten(Book, FALSE, FALSE)
  /\ slot' = FALSE
  /\ Goto("lock")
  /\ UNCHANGED <<ruin, clock, ready, mem, disk, blind, crashes>>

KillLock ==
  /\ pc = "lock"
  /\ mem' = [mem EXCEPT !.killed = TRUE]
  /\ UNCHANGED bot
  /\ SaveState
  /\ PassEnds
  /\ UNCHANGED <<broker, blind, bounds>>

\* A pass of the poll: save its time, adopt the book (a failed query adopts
\* nothing) and flatten it.
FridayFlatten ==
  /\ pc = "friday"
  /\ UNCHANGED mem
  /\ SaveState
  /\ Flatten(Resynced, TRUE, FALSE) \/ Flatten(Book, FALSE, TRUE)
  /\ slot' = FALSE
  /\ Goto("verify")
  /\ UNCHANGED <<ruin, clock, ready, blind, crashes>>

\* _friday_query_flat: positions, then pending orders, of every magic.
VerifiedPositions == \A e \in Engines : has[e] # "open"

Verified == AllFlat

\* A query that fails, or an order that fills between the two reads, makes a
\* book look flat.
FridayVerify ==
  /\ pc = "verify"
  /\ \E fooled \in BOOLEAN :
       /\ Slip(fooled)
       /\ mem' = [mem EXCEPT !.done = Verified \/ fooled]
       /\ blind' = (blind \/ fooled)
  /\ UNCHANGED bot
  /\ IF mem'.done THEN SaveState ELSE UNCHANGED disk
  /\ Goto(AfterFriday)
  /\ UNCHANGED <<broker, crashes>>

\* The end of the day flattens the anchors and writes the day's journal once.
\* Rogue's positions are closed too, or (rogue_flatten_at_eod off) its driver
\* runs on with entries blocked.
EndOfDay ==
  /\ pc = "eod"
  /\ \/ Flatten(Book, FALSE, FALSE) /\ PassEnds
     \/ /\ Flatten(Book \cap {"anchors"}, TRUE, FALSE)
        /\ IF has["rogue"] = "open" THEN Goto("chain") ELSE PassEnds
  /\ mem' = [mem EXCEPT !.eod = TRUE]
  /\ UNCHANGED bot
  /\ IF mem.eod THEN UNCHANGED disk ELSE SaveState
  /\ UNCHANGED <<ruin, clock, blind, crashes>>

-----------------------------------------------------------------------------
\* rogue.drive(allow_new_entries): with entries blocked it still manages, and
\* sends the chain stop of a position that it finds filled.
DriveRogue ==
  /\ pc = "drive"
  /\ \/ UNCHANGED has /\ Goto("anchor")
     \/ UNCHANGED has /\ has["rogue"] = "open" /\ Goto("chain")
     \/ /\ Flat("rogue") /\ ~FridayReached /\ has' = [has EXCEPT !["rogue"] = "resting"]
        /\ Goto("anchor")
  /\ UNCHANGED <<pnl, ruin, clock, bot, mem, disk, blind, bounds>>

\* _reconcile's chain stop, whatever became of the position meanwhile.
RogueChain ==
  /\ pc = "chain"
  /\ has' \in {has, [has EXCEPT !["rogue"] = IF @ = "flat" THEN "resting" ELSE @]}
  /\ IF part = "night" THEN PassEnds ELSE Goto("anchor")
  /\ UNCHANGED <<pnl, ruin, clock, bot, mem, disk, blind, bounds>>

\* _process_anchor_if_due: a due anchor is deferred, or skipped by a day stop.
AnchorDue ==
  /\ ~FridayReached /\ part = clock.part /\ ~slot
  /\ slot' = ~Stopped(mem, seen)
  /\ UNCHANGED <<has, mem>>
  /\ SaveState

\* _complete_deferred_anchor asks none of those gates again.
CompleteSlot ==
  /\ slot /\ slot' = FALSE
  /\ \/ UNCHANGED has
     \/ has' = [has EXCEPT !["anchors"] = IF @ = "flat" THEN "resting" ELSE @]
  /\ UNCHANGED <<mem, disk>>

DriveAnchors ==
  /\ pc = "anchor"
  /\ AnchorDue \/ CompleteSlot \/ UNCHANGED <<has, slot, mem, disk>>
  /\ PassEnds
  /\ UNCHANGED <<pnl, ruin, clock, ready, blind, bounds>>

-----------------------------------------------------------------------------
\* The process ends; it comes back with the state file, no slot and a book to
\* learn.
Crash ==
  /\ pc # "down" /\ crashes < MaxCrashes
  /\ crashes' = crashes + 1
  /\ pc' = "down" /\ part' = "none" /\ seen' = 0
  /\ mem' = disk /\ slot' = FALSE /\ ready' = FALSE
  /\ UNCHANGED <<broker, disk, blind, slips>>

Restart ==
  /\ pc = "down"
  /\ PassEnds
  /\ UNCHANGED <<broker, bot, mem, disk, blind, bounds>>

Pass ==
  \/ Roll \/ BoostTriggers \/ Fleet \/ Gate
  \/ KillFlatten \/ KillLock \/ FridayFlatten \/ FridayVerify \/ EndOfDay
  \/ DriveRogue \/ RogueChain \/ DriveAnchors

Next == World \/ RunCommand \/ Pass \/ Crash \/ Restart

Spec == Init /\ [][Next]_vars

\* The watchdog starts the bot again and its loop goes on.
FairSpec == Spec /\ WF_vars(Pass) /\ WF_vars(Restart)

-----------------------------------------------------------------------------
(* The type of the state; the Friday latch exists on Fridays only, so a   *)
(* Monday is not taken for flattened (_reset_if_new_day).                 *)
TypeOK ==
  /\ has \in [Engines -> Exposures] /\ pnl \in -MaxPnl..MaxPnl /\ seen \in -MaxPnl..MaxPnl
  /\ clock \in [day : 1..MaxDays, part : {"day", "cutoff", "night"}]
  /\ part \in {"day", "cutoff", "night", "none"}
  /\ pc \in {"idle", "boost", "fleet", "gate", "kill", "lock", "friday", "verify", "eod",
             "drive", "chain", "anchor", "down"}
  /\ {ruin, slot, ready, blind} \subseteq BOOLEAN
  /\ {mem, disk} \subseteq
       [day : 0..MaxDays, killed : BOOLEAN, done : BOOLEAN, eod : BOOLEAN,
        locked : BOOLEAN, override : BOOLEAN]
  /\ slips \in 0..MaxSlips /\ crashes \in 0..MaxCrashes
  /\ mem.done => Friday(mem.day)

(* Once the Friday flatten is latched nothing is held and nothing rests at *)
(* the broker until a pass rolls the day, whatever fills, closes, is       *)
(* commanded or restarted, unless the check was fooled                     *)
(* (_friday_poll_flatten, _friday_query_flat).                             *)
DoneMeansFlat == mem.done /\ ~blind => AllFlat

\* An engine enters: Rogue arms, or an anchor is admitted or placed.  A boost
\* fleet and a chain stop join a position.
Arms == pc = "drive" /\ Flat("rogue") /\ has'["rogue"] # "flat"
Admits == slot' /\ ~slot
Places == pc = "anchor" /\ Flat("anchors") /\ has'["anchors"] # "flat"
Boosts == pc = "fleet" /\ pc' = "gate"
Chains == pc = "chain" /\ pc' \in {"anchor", "idle"}

KilledToday == disk.killed /\ disk.day = mem.day
LockedToday == disk.locked /\ disk.day = mem.day /\ ~mem.override

(* A stop holds for the rest of its day, across restarts: after the kill,  *)
(* from the Friday cutoff and after the end of the day no engine enters,   *)
(* and what joins a position instead has limits of its own: no chain stop  *)
(* after the kill, no boost (and no anchor) under a profit lock that       *)
(* reached the state file and was not overridden, neither once Friday was  *)
(* verified flat (the order of the gates in _tick, _check_boost_triggers,  *)
(* rogue_monster_live._reconcile).                                         *)
StopsHold ==
  [][/\ Arms \/ Admits \/ Places => ~KilledToday /\ part # "night" /\ ~FridayReached
     /\ Chains => ~KilledToday
     /\ Admits \/ Boosts => ~LockedToday
     /\ Boosts \/ Chains => ~mem.done \/ blind]_vars

(* From the Friday cutoff on the poll goes on until the book is verified   *)
(* flat, although orders fill, closes are refused, queries fail and the    *)
(* bot crashes (_friday_poll_flatten); a killed pass does not reach it.    *)
FridayFlat ==
  clock = [day |-> 1, part |-> "cutoff"] ~>
    (mem.done \/ mem.killed \/ clock.day # 1)
=============================================================================
