------------------------------ MODULE Fetcher ------------------------------
(***************************************************************************)
(* fetcher.py with seed_budget.py and its block of p1_state.py, on one     *)
(* broker day of a live account: an anchor, one market entry at a time     *)
(* with a fixed take profit and stop at the broker, the day governor, the  *)
(* earned trade budget, and a snapshot that a restart recovers from with   *)
(* the help of the deal history.  The broker may close a position at any   *)
(* moment.  Money is in units; a move of the price and the switches that   *)
(* block entries (live_trader.py) are the choice to enter or not.          *)
(***************************************************************************)
EXTENDS Integers, FiniteSets

CONSTANTS
  Cap,         \* fetcher_max_entries_per_day
  FailStop,    \* fetcher_consecutive_fail_stop
  LossStop,    \* -fetcher_daily_loss_stop
  ProfitStop,  \* fetcher_daily_profit_stop
  Base,        \* engine_base_trades_per_anchor
  Need,        \* engine_extend_requires_wins
  Results,     \* what a close may earn
  MaxEntries,  \* bound: positions in a behaviour
  MaxRestarts, \* bound
  MaxSlips     \* bound: failures the engine cannot see

ASSUME FetcherBounds ==
  /\ {Cap, FailStop, LossStop, ProfitStop, Base, Need} \subseteq Nat \ {0}
  /\ {MaxEntries, MaxRestarts, MaxSlips} \subseteq Nat
  /\ Results \subseteq Int \ {0}

\* A stop at a fixed distance: there is a worst close, and it is a loss.
ASSUME FetcherStop == \E r \in Results : r < 0 /\ \A q \in Results : r <= q

VARIABLES
  held,      \* tickets open at the broker
  taken,     \* positions the broker opened today; also the last ticket
  net,       \* the deal history: what today's closes earned
  streak,    \* the deal history: losing closes since the last win
  deal,      \* the deal history: the result of the ticket in st.open
  st,        \* trader._fetcher
  disk,      \* the fetcher block of run/state.json
  pc,        \* where the driver is; "boot" until the recovery has run
  late,      \* the end of the day has come
  cool,      \* the exhaustion gap has elapsed
  restarts,
  losses,    \* history: times FailStop losses came in a row
  credit,    \* history: entries the budget rule has granted, up to MaxEntries
  slips      \* history: failures so far

broker == <<held, taken, net, streak, deal, losses>>
rest == <<late, cool, restarts>>
vars == <<broker, st, disk, pc, rest, credit, slips>>

Slip == slips < MaxSlips /\ slips' = slips + 1

Worst == CHOOSE r \in Results : \A q \in Results : r <= q

Money == MaxEntries * Worst .. MaxEntries * (CHOOSE r \in Results : \A q \in Results : r >= q)

\* new_day_state and new_budget, nothing planted, nothing open.
Fresh == [open |-> 0, anchored |-> FALSE,
          entries |-> 0, pnl |-> 0, fails |-> 0,
          stopped |-> FALSE, paused |-> FALSE, locked |-> FALSE, override |-> FALSE,
          trades |-> 0, run |-> 0, gap |-> FALSE]

\* The file has no fetcher block.
NoBlock == [Fresh EXCEPT !.open = -1]

States == [open : 0..MaxEntries, anchored : BOOLEAN,
           entries : 0..MaxEntries, pnl : Money, fails : 0..2 * MaxEntries,
           stopped : BOOLEAN, paused : BOOLEAN, locked : BOOLEAN, override : BOOLEAN,
           trades : 0..MaxEntries, run : 0..Need, gap : BOOLEAN]

\* The type of the state, in memory and in the file; the budget's window never
\* grows past the wins it asks for (budget_record_close).
TypeOK ==
  /\ held \subseteq 1..taken /\ taken \in 0..MaxEntries
  /\ net \in Money /\ streak \in 0..MaxEntries /\ deal \in Results \union {0}
  /\ st \in States /\ disk \in States \union {NoBlock}
  /\ pc \in {"boot", "idle", "sending", "filled"}
  /\ late \in BOOLEAN /\ cool \in BOOLEAN
  /\ restarts \in 0..MaxRestarts /\ losses \in 0..MaxEntries
  /\ credit \in 0..MaxEntries /\ slips \in 0..MaxSlips

Init ==
  /\ held = {} /\ taken = 0 /\ net = 0 /\ streak = 0 /\ deal = 0 /\ losses = 0
  /\ st = Fresh /\ disk = NoBlock /\ pc = "idle"
  /\ late = FALSE /\ cool = FALSE /\ restarts = 0
  /\ credit = 0 /\ slips = 0

-----------------------------------------------------------------------------
(* The governor and the budget (pure).                                     *)

\* The latches of record_close and of rebuild_gov_from_history.
Latched(g) ==
  [g EXCEPT !.stopped = @ \/ g.pnl <= -LossStop,
            !.paused = @ \/ g.fails >= FailStop,
            !.locked = @ \/ (g.pnl >= ProfitStop /\ ~g.override)]

\* What a bug could do: leave the loss stop to the pause.
CanEnterLatches(g) == ~g.paused /\ (g.override \/ ~g.locked) /\ g.entries < Cap

\* can_enter.
CanEnter(g) ==
  /\ ~g.stopped /\ g.pnl > -LossStop
  /\ g.override \/ (~g.locked /\ g.pnl < ProfitStop)
  /\ ~g.paused /\ g.fails < FailStop
  /\ g.entries < Cap

\* record_close of a result that was found, with the streak and the latches.
Closed(g, pnl, failed) ==
  Latched([g EXCEPT !.pnl = @ + pnl, !.fails = IF failed THEN @ + 1 ELSE 0])

\* What a bug could do: keep the wins of before the loss in the window.
WindowedKeeping(g, won) == [g EXCEPT !.run = IF won /\ @ < Need THEN @ + 1 ELSE @]

\* budget_record_close: the window tells only how many of the last closes won.
Windowed(g, won) ==
  [g EXCEPT !.run = IF ~won THEN 0 ELSE IF @ < Need THEN @ + 1 ELSE @]

\* budget_can_trade.
CanTrade(g) == g.trades < Base \/ g.run >= Need

\* budget_reset.
Reset(g) == [g EXCEPT !.trades = 0, !.run = 0, !.gap = FALSE]

\* Every handler that changes the state saves it (_persist).
Saved(s) == st' = s /\ disk' = s

Granted(n) == credit' = IF credit + n > MaxEntries THEN MaxEntries ELSE credit + n

-----------------------------------------------------------------------------
(* The broker.                                                             *)

Filled ==
  /\ taken < MaxEntries
  /\ taken' = taken + 1 /\ held' = held \union {taken + 1}
  /\ UNCHANGED <<net, streak, deal, losses>>

\* Ticket t closes and earns pnl.
Gone(t, pnl) ==
  /\ held' = held \ {t}
  /\ net' = net + pnl
  /\ streak' = IF pnl > 0 THEN 0 ELSE streak + 1
  /\ losses' = IF pnl < 0 /\ (streak + 1) % FailStop = 0 THEN losses + 1 ELSE losses
  /\ deal' = IF t = st.open \/ (pc = "filled" /\ t = taken) THEN pnl ELSE deal
  /\ UNCHANGED taken

\* The take profit or the stop.  A winning close may earn one more entry.
BrokerClose(t, pnl) ==
  /\ t \in held
  /\ Gone(t, pnl)
  /\ Granted(IF pnl > 0 THEN 1 ELSE 0)
  /\ UNCHANGED <<st, disk, pc, rest, slips>>

-----------------------------------------------------------------------------
(* The driver.                                                             *)

\* detect_close: the ticket is gone, the result is found within three tries or
\* booked as nothing with the streak and the window left alone.
NoticeClose ==
  /\ pc = "idle" /\ ~late /\ st.open # 0 /\ st.open \notin held
  /\ \/ /\ Saved([Windowed(Closed(st, deal, deal <= 0), deal > 0) EXCEPT !.open = 0])
        /\ UNCHANGED slips
     \/ Slip /\ Saved([Latched(st) EXCEPT !.open = 0])
  /\ UNCHANGED <<broker, pc, rest, credit>>

\* A query that fails reads as a ticket that is gone.
MissOpen ==
  /\ pc = "idle" /\ ~late /\ st.open \in held
  /\ Slip /\ Saved([Latched(st) EXCEPT !.open = 0])
  /\ UNCHANGED <<broker, pc, rest, credit>>

\* drive, flat: the seed of the day ($10 off A1).
Seed ==
  /\ pc = "idle" /\ ~late /\ st.open = 0 /\ ~st.anchored
  /\ Saved([st EXCEPT !.anchored = TRUE]) /\ Granted(Base)
  /\ UNCHANGED <<broker, pc, rest, slips>>

Hunting == pc = "idle" /\ ~late /\ st.open = 0 /\ st.anchored /\ CanEnter(st)

\* The budget is spent: start the gap.
StartGap ==
  /\ Hunting /\ ~st.gap /\ ~CanTrade(st)
  /\ Saved([st EXCEPT !.gap = TRUE]) /\ cool' = FALSE
  /\ UNCHANGED <<broker, pc, late, restarts, credit, slips>>

\* The gap is over: a fresh anchor and a fresh budget.
PlantFresh ==
  /\ Hunting /\ st.gap /\ cool
  /\ Saved(Reset(st)) /\ Granted(Base)
  /\ UNCHANGED <<broker, pc, rest, slips>>

\* A $5 move off the anchor.
Enter ==
  /\ Hunting /\ ~st.gap /\ CanTrade(st)
  /\ pc' = "sending"
  /\ UNCHANGED <<broker, st, disk, rest, credit, slips>>

\* place_with_retry: a lost answer is sent again.
Send ==
  /\ pc = "sending"
  /\ \/ Filled /\ pc' = "filled" /\ UNCHANGED slips
     \/ Filled /\ Slip /\ UNCHANGED pc
     \/ UNCHANGED <<broker, slips>> /\ pc' = "idle"
  /\ UNCHANGED <<st, disk, rest, credit>>

\* _mark_open: the slot, the attempt, the save.  A ticket that is already closed
\* has its deal in the history.
MarkOpen ==
  /\ pc = "filled"
  /\ Saved([st EXCEPT !.open = taken, !.entries = @ + 1, !.trades = @ + 1])
  /\ pc' = "idle"
  /\ UNCHANGED <<broker, rest, credit, slips>>

\* What a bug could do: leave the end of the day to the broker's stops.
FlattenByDay ==
  /\ pc = "idle" /\ st.open # 0 /\ ~late
  /\ Saved([st EXCEPT !.open = 0])
  /\ UNCHANGED <<broker, pc, rest, credit, slips>>

\* eod_flatten and force_close_open: the answer is not looked at, the result is
\* asked for once, a result that is not there yet counts as a fail, and the
\* window of the budget never hears of it.
Flatten ==
  /\ pc = "idle" /\ st.open # 0
  /\ \/ /\ st.open \in held
        /\ \E pnl \in Results :
             /\ Gone(st.open, pnl)
             /\ \/ Saved([Closed(st, pnl, pnl <= 0) EXCEPT !.open = 0]) /\ UNCHANGED slips
                \/ Saved([Closed(st, 0, TRUE) EXCEPT !.open = 0]) /\ Slip
     \/ /\ Saved([Closed(st, 0, TRUE) EXCEPT !.open = 0])
        /\ Slip /\ UNCHANGED broker
     \/ /\ st.open \notin held
        /\ Saved([Closed(st, deal, deal <= 0) EXCEPT !.open = 0])
        /\ UNCHANGED <<broker, slips>>
  /\ Granted(1)
  /\ UNCHANGED <<pc, rest>>

-----------------------------------------------------------------------------
(* Commands, restarts, the clock.                                          *)

\* manual_seed (/fetchseed): a new anchor session; it lifts the profit lock and
\* never the loss stop, and waits out a gap.
Reseeded(s) ==
  [Reset(s) EXCEPT !.anchored = TRUE, !.override = @ \/ s.locked \/ s.pnl >= ProfitStop]

ManualSeed ==
  /\ pc = "idle" /\ ~late
  /\ st.open = 0 /\ ~st.stopped /\ st.pnl > -LossStop /\ (~st.gap \/ cool)
  /\ Saved(Reseeded(st)) /\ Granted(Base)
  /\ UNCHANGED <<broker, pc, rest, slips>>

\* A command that is handled before the recovery: its save overwrites the block,
\* with a state made from nothing (/fetchseed) or with none at all.
EarlyCommand ==
  /\ pc = "boot" /\ Slip
  /\ \/ Saved(Reseeded(st)) /\ Granted(Base)
     \/ disk' = NoBlock /\ UNCHANGED <<st, credit>>
  /\ UNCHANGED <<broker, pc, rest>>

\* The process dies and comes back.
Restart ==
  /\ restarts < MaxRestarts /\ restarts' = restarts + 1
  /\ st' = Fresh /\ pc' = "boot"
  /\ IF pc = "filled" THEN Slip ELSE UNCHANGED slips
  /\ UNCHANGED <<broker, disk, late, cool, credit>>

\* What a bug could do: rebuild the money and not the counts.
GovernorMoney == Latched([disk EXCEPT !.entries = 0, !.pnl = net, !.fails = 0,
                                      !.stopped = FALSE, !.paused = FALSE])

\* rebuild_gov_from_history over the snapshot.
Governor ==
  Latched([disk EXCEPT !.entries = taken, !.pnl = net, !.fails = streak,
                       !.stopped = FALSE, !.paused = FALSE, !.locked = net >= ProfitStop])

\* recover_on_boot.  The history may answer with nothing (a governor of zeros) or
\* raise (the snapshot's), the ticket's query may fail, and a ticket that closed
\* meanwhile is dropped: neither the window nor the anchor hears of it.
Recover ==
  /\ pc = "boot" /\ pc' = "idle"
  /\ IF disk = NoBlock THEN UNCHANGED <<st, slips>>
     ELSE \/ /\ disk.open \in held \union {0}
             /\ st' = Governor
             /\ UNCHANGED slips
          \/ /\ Slip
             /\ \E open \in {0} \union (held \intersect {disk.open}),
                   gov \in {Governor, disk, [disk EXCEPT !.entries = 0, !.pnl = 0, !.fails = 0,
                                                  !.stopped = FALSE, !.paused = FALSE,
                                                  !.locked = FALSE]} :
                  st' = [gov EXCEPT !.open = open]
  /\ UNCHANGED <<broker, disk, rest, credit>>

CoolOff == ~cool /\ cool' = TRUE /\ UNCHANGED <<broker, st, disk, pc, late, restarts, credit, slips>>

\* The end of the day; a pass is never in the middle of an order then.
EndOfDay ==
  /\ ~late /\ pc \in {"boot", "idle"} /\ late' = TRUE
  /\ UNCHANGED <<broker, st, disk, pc, cool, restarts, credit, slips>>

Drive == NoticeClose \/ MissOpen \/ Seed \/ StartGap \/ PlantFresh \/ Enter \/ Send \/ MarkOpen

Next == (\E t \in 1..MaxEntries, pnl \in Results : BrokerClose(t, pnl))
        \/ Drive \/ Flatten \/ ManualSeed \/ EarlyCommand \/ Restart \/ Recover
        \/ CoolOff \/ EndOfDay

Spec == Init /\ [][Next]_vars

\* The loop goes on: a restart recovers, and past the end of the day every pass
\* flattens.
FairSpec == Spec /\ WF_vars(Recover) /\ WF_vars(late /\ Flatten)

-----------------------------------------------------------------------------
(* Properties.                                                             *)

\* The day the broker sees: one position at a time, at most Cap entries, and no
\* entry after FailStop losses in a row, restarts or not; what the engine never
\* learns costs at most one position and one cap each, and two streaks: one outage
\* in the recovery may forget the streak that runs and the ticket beside it.
Chain == INSTANCE TradeChain WITH MaxTrades <- Cap, Toll <- 2, open <- Cardinality(held)

ImplementsChain == Chain!Spec

\* No restart re-arms the loss stop: what the day loses at the broker is the stop
\* and one close past it, and the same again for a failure.
LossBounded == net >= (1 + slips) * (1 - LossStop + Worst)

\* An anchor session has Base entries and one more for a win; a flatten, which
\* the window does not hear of, may let one more through, a failure Base.
BudgetEarned == taken <= credit + slips * Base

\* At night nothing the engine knew of is open: one ticket a failure at most.
FlatAtNight == late ~> [](Cardinality(held) <= slips)

=============================================================================
