----------------------------- MODULE AnchorBook -----------------------------
(***************************************************************************)
(* The anchor engine's book: how the bot's record of its orders follows    *)
(* the broker's, through placement, fills, closes, retries, manual and     *)
(* automatic flattening, the day roll, crashes and restarts.               *)
(*                                                                         *)
(* The bot is one loop (live_trader._tick); its calls to the broker are    *)
(* steps of their own, and the broker, the clock and a crash interleave    *)
(* between any two of them.  `pc` is where the loop stands.                *)
(***************************************************************************)
EXTENDS Naturals, Sequences, FiniteSets

CONSTANTS
  Labels,       \* the anchors of a day
  DueHour,      \* [Labels -> Nat]: the hour an anchor is due; then it is late
  EodHour,      \* the hour of the end of the day
  MaxDays,      \* bound: days modelled
  MaxTickets,   \* bound: orders the broker ever accepts
  MaxRetries,   \* MAX_PLACEMENT_RETRIES
  Confirmed,    \* the anchors whose placement is read back: the label starts "A1"
  Commands,     \* the operator commands of this instance
  Faults        \* what may go wrong in this instance, see FaultNames

FaultNames == {
  "crash",      \* the process dies between two steps and is started again
  "partial",    \* the two legs of a straddle get different answers
  "query",      \* a query fails: None is read as "no positions", "no orders"
  "refuse",     \* a close, a cancel or an orphan's cancel is refused
  "answer"}     \* an order is accepted and its answer is lost

ASSUME BookBounds ==
  /\ {EodHour, MaxTickets, MaxRetries} \subseteq Nat
  /\ MaxDays \in Nat \ {0}
  /\ DueHour \in [Labels -> 0..EodHour]
  /\ Confirmed \subseteq Labels
  /\ Faults \subseteq FaultNames
  /\ Commands \subseteq {"pause", "resume", "flatten"}

Tickets == 1..MaxTickets
Sides == {"BUY", "SELL"}
NoSlot == [label |-> "none", retry |-> 0]
NoTrack == [t \in Tickets |-> "no"]

VARIABLES
  \* the broker and the clock
  book,      \* every order ever accepted, by ticket
  today, hour,
  \* the bot's memory
  pc,        \* where _tick stands
  track,     \* shadow_pendings ("pend"; "flag" with rescue_on_fill) and
             \* shadow_positions ("normal", "rescue"), by ticket
  source,    \* _pending_shadow_rehydrate and _pending_pendings_rehydrate
  snap,      \* the positions this pass read from the broker
  slot,      \* _deferred_anchor
  work,      \* the placement in progress
  paused,
  mem,       \* self.state: day, placed, missed, killed
  \* the state file
  disk,
  \* history
  dropped,   \* orders given up by the record while the broker held them
  marked     \* the anchors ever marked placed, with the day

vars == <<book, today, hour, pc, track, source, snap, slot, work, paused, mem,
          disk, dropped, marked>>
clock == <<today, hour>>
idleVars == <<source, snap, slot, work, paused>>
history == <<dropped, marked>>

In(st) == {t \in DOMAIN book : book[t].st = st}
Pends(tr) == {t \in Tickets : tr[t] \in {"pend", "flag"}}
Legs(tr) == {t \in Tickets : tr[t] \in {"normal", "rescue"}}
SameLabel(s, t) == book[s].label = book[t].label
Sibling(s, t) == s # t /\ book[s].first = book[t].first

NoWork == [label |-> "none", retry |-> 0, plan |-> {}, got |-> [s \in Sides |-> "none"],
           ticket |-> [s \in Sides |-> 0]]
FreshState == [day |-> 0, placed |-> {}, missed |-> {}, killed |-> FALSE]

Init ==
  /\ book = <<>>
  /\ today = 1 /\ hour = 0
  /\ pc = "idle"
  /\ track = NoTrack /\ source = NoTrack
  /\ snap = {}
  /\ slot = NoSlot /\ work = NoWork
  /\ paused = FALSE
  /\ mem = FreshState
  /\ disk = [state |-> FreshState, track |-> NoTrack]
  /\ dropped = {} /\ marked = {}

\* _save_state writes the whole dict and both shadow maps.
Save(state, tr) == disk' = [state |-> state, track |-> tr]

-----------------------------------------------------------------------------
\* The broker and the clock.
SetStatus(t, st) == book' = [book EXCEPT ![t].st = st]

BrokerFills(t) ==
  /\ t \in In("pending")
  /\ SetStatus(t, "open")
  /\ UNCHANGED <<clock, pc, track, idleVars, mem, disk, history>>

BrokerCloses(t) ==     \* at the stop or the target
  /\ t \in In("open")
  /\ SetStatus(t, "closed")
  /\ UNCHANGED <<clock, pc, track, idleVars, mem, disk, history>>

TimePasses ==
  /\ \/ hour < EodHour /\ hour' = hour + 1 /\ UNCHANGED today
     \/ hour = EodHour /\ today < MaxDays /\ today' = today + 1 /\ hour' = 0
  /\ UNCHANGED <<book, pc, track, idleVars, mem, disk, history>>

-----------------------------------------------------------------------------
\* One tick: the operator's command, then the day roll.
RolledOver == [FreshState EXCEPT !.day = today]

DayRoll(tr) ==
  IF mem.day = today THEN UNCHANGED <<mem, disk>>
  ELSE mem' = RolledOver /\ Save(RolledOver, tr)

TickBegins ==
  /\ pc = "idle"
  /\ DayRoll(track)
  /\ pc' = "positions"
  /\ UNCHANGED <<book, clock, track, idleVars, history>>

Pause(on) ==
  /\ pc = "idle"
  /\ (IF on THEN "pause" ELSE "resume") \in Commands
  /\ paused # on
  /\ paused' = on
  /\ DayRoll(track)
  /\ pc' = "positions"
  /\ UNCHANGED <<book, clock, track, source, snap, slot, work, history>>

FlattenCommand ==
  /\ pc = "idle"
  /\ "flatten" \in Commands
  /\ pc' = "flattenCommand"
  /\ UNCHANGED <<book, clock, track, idleVars, mem, disk, history>>

-----------------------------------------------------------------------------
\* _flatten_all: first the positions, then the pendings, then the slot.  The
\* caller is in the name of the step; `CancelPendings` leaves it.  What the broker
\* refuses three times stays recorded, unless the look after it fails: then it
\* counts as done (`unseen`).
Flattening == {"flattenCommand", "flattenKill", "flattenEod"}
Cancelling == [at \in Flattening |->
  CASE at = "flattenCommand" -> "cancelCommand"
    [] at = "flattenKill" -> "cancelKill"
    [] at = "flattenEod" -> "cancelEod"]

ClosePositions ==
  /\ pc \in Flattening
  /\ \E refused \in SUBSET (Legs(track) \cap In("open")) :
       \E unseen \in SUBSET refused :
         /\ "refuse" \in Faults \/ refused = {}
         /\ "query" \in Faults \/ unseen = {}
         /\ book' = [t \in DOMAIN book |->
              IF t \in Legs(track) \ refused /\ book[t].st = "open"
              THEN [book[t] EXCEPT !.st = "closed"] ELSE book[t]]
         /\ track' = [t \in Tickets |->
              IF t \in Legs(track) \ (refused \ unseen) THEN "no" ELSE track[t]]
         /\ dropped' = dropped \cup unseen
  /\ pc' = Cancelling[pc]
  /\ UNCHANGED <<clock, idleVars, mem, disk, marked>>

\* A pending that is no longer pending counts as cancelled, filled or not.
AfterCancel ==
  CASE pc = "cancelCommand" -> "positions"
    [] pc \in {"cancelKill", "cancelEod"} -> "idle"

\* What a bug could do: cancel them and keep them tracked.
TrackAfterCancelKept(kept) == track

TrackAfterCancel(kept) ==
  [t \in Tickets |-> IF t \in Pends(track) \ kept THEN "no" ELSE track[t]]

CancelPendings ==
  /\ pc \in {"cancelCommand", "cancelKill", "cancelEod"}
  /\ \E refused \in SUBSET (Pends(track) \cap In("pending")) :
       \E unseen \in SUBSET refused :
         /\ "refuse" \in Faults \/ refused = {}
         /\ "query" \in Faults \/ unseen = {}
         /\ book' = [t \in DOMAIN book |->
              IF t \in Pends(track) \ refused /\ book[t].st = "pending"
              THEN [book[t] EXCEPT !.st = "cancelled"] ELSE book[t]]
         /\ dropped' = dropped \cup unseen \cup (Pends(track) \cap In("open"))
         /\ track' = TrackAfterCancel(refused \ unseen)
  /\ slot' = NoSlot
  /\ CASE pc = "cancelKill" ->
            /\ mem' = [mem EXCEPT !.killed = TRUE]
            /\ Save(mem', track')
       [] pc = "cancelCommand" -> DayRoll(track')
       [] OTHER -> UNCHANGED <<mem, disk>>
  /\ pc' = AfterCancel
  /\ UNCHANGED <<clock, source, snap, work, paused, marked>>

-----------------------------------------------------------------------------
\* _reconcile_with_broker: positions_get, then orders_get and everything else.
ReadPositions ==
  /\ pc = "positions"
  /\ \/ snap' = In("open")
     \/ "query" \in Faults /\ snap' = {}      \* None is read as []
  /\ pc' = "reconcile"
  /\ UNCHANGED <<book, clock, track, source, slot, work, paused, mem, disk, history>>

Rehydrated ==
  [t \in Tickets |->
     IF track[t] = "no" /\ \/ t \in Legs(source) /\ t \in snap
                           \/ t \in Pends(source) /\ t \in In("pending")
     THEN source[t] ELSE track[t]]

Filled == {t \in Pends(Rehydrated) : t \notin In("pending") /\ t \in snap}

\* What a bug could do: trust the flag alone.
RescueByFlag(t) == Rehydrated[t] = "flag"

\* The second leg to fill: its twin is open at the broker and tracked (or
\* promoted earlier in this pass), or an earlier fill of the twin flagged it.
IsRescue(t) ==
  \/ Rehydrated[t] = "flag"
  \/ \E s \in Legs(Rehydrated) \cap snap : SameLabel(s, t)
  \/ \E s \in Filled : s < t /\ SameLabel(s, t)

\* What a bug could do: forget the sibling as if it had been cancelled (OCO).
PromotedOco ==
  [t \in Tickets |->
     CASE t \in Filled -> IF IsRescue(t) THEN "rescue" ELSE "normal"
       [] t \in Pends(Rehydrated) \ Filled ->
            IF \E s \in Filled : Sibling(s, t) THEN "no" ELSE Rehydrated[t]
       [] OTHER -> Rehydrated[t]]

Promoted ==
  [t \in Tickets |->
     CASE t \in Filled -> IF IsRescue(t) THEN "rescue" ELSE "normal"
       [] t \in Pends(Rehydrated) \ Filled ->
            IF \E s \in Filled : Sibling(s, t) THEN "flag" ELSE Rehydrated[t]
       [] OTHER -> Rehydrated[t]]

Gone == Legs(Promoted) \ snap
Reconciled == [t \in Tickets |-> IF t \in Gone THEN "no" ELSE Promoted[t]]

\* A close is saved when its deal is in the history already.
Reconcile ==
  /\ pc = "reconcile"
  /\ track' = Reconciled
  /\ source' = NoTrack
  /\ \/ UNCHANGED disk
     \/ Gone # {} /\ Save(mem, Reconciled)
  /\ pc' = "kill"
  /\ UNCHANGED <<book, clock, snap, slot, work, paused, mem, history>>

-----------------------------------------------------------------------------
\* The kill switch, and the end of the day.
KillCheck ==
  /\ pc = "kill"
  /\ \/ mem.killed /\ pc' = "idle"
     \/ ~mem.killed /\ pc' \in {"eod", "flattenKill"}
  /\ snap' = {}
  /\ UNCHANGED <<book, clock, track, source, slot, work, paused, mem, disk, history>>

\* What a bug could do: look at the positions only.
EodCheckPositions ==
  /\ pc = "eod"
  /\ pc' = IF hour < EodHour THEN "anchors"
           ELSE IF Legs(track) # {} THEN "flattenEod" ELSE "idle"
  /\ UNCHANGED <<book, clock, track, idleVars, mem, disk, history>>

EodCheck ==
  /\ pc = "eod"
  /\ pc' = IF hour < EodHour THEN "anchors"
           ELSE IF Pends(track) \cup Legs(track) # {} THEN "flattenEod" ELSE "idle"
  /\ UNCHANGED <<book, clock, track, idleVars, mem, disk, history>>

-----------------------------------------------------------------------------
\* _process_anchor_if_due: an anchor is tried while it is due, given up when it
\* is late or the day stop skips it.

\* What a bug could do: forget which anchors were placed.
NotMissed(l) == l \notin mem.missed

Waiting(l) == l \notin mem.placed \cup mem.missed
Due(l) == Waiting(l) /\ hour = DueHour[l]
Late(l) == Waiting(l) /\ hour > DueHour[l]

AnchorsPaused ==
  /\ pc = "anchors" /\ paused
  /\ pc' = "deferred"
  /\ UNCHANGED <<book, clock, track, idleVars, mem, disk, history>>

\* `skipped`: due anchors the day stop gives up; `l`: the one captured.
Anchors ==
  /\ pc = "anchors" /\ ~paused
  /\ \E skipped \in SUBSET {l \in Labels : Due(l)} :
       /\ mem' = [mem EXCEPT !.missed = @ \cup skipped \cup {l \in Labels : Late(l)}]
       /\ \/ UNCHANGED slot
          \/ /\ slot = NoSlot
             /\ \E l \in Labels \ skipped :
                  Due(l) /\ slot' = [label |-> l, retry |-> 0]
  /\ IF mem' # mem \/ slot' # slot THEN Save(mem', track) ELSE UNCHANGED disk
  /\ pc' = "deferred"
  /\ UNCHANGED <<book, clock, track, source, snap, work, paused, history>>

-----------------------------------------------------------------------------
\* _complete_deferred_anchor: the slot is consumed, then the legs are sent.
NotReady ==
  /\ pc = "deferred"
  /\ pc' = "trails"
  /\ UNCHANGED <<book, clock, track, idleVars, mem, disk, history>>

\* Stale tick, dead channel, or both sides beyond the market: lost this cycle.
SlotLost ==
  /\ pc = "deferred" /\ slot # NoSlot
  /\ slot' = NoSlot
  /\ pc' = "trails"
  /\ UNCHANGED <<book, clock, track, source, snap, work, paused, mem, disk, history>>

\* Before a straddle goes out, pendings of earlier anchors are cancelled, and
\* nothing takes them out of the record (which ones: module StaleSweep).  The
\* bound MaxTickets leaves room for every leg of a placement that starts.
Sweep(swept) ==
  book' = [t \in DOMAIN book |->
    IF t \in swept /\ book[t].st = "pending" THEN [book[t] EXCEPT !.st = "swept"] ELSE book[t]]

StartPlacing(plan) ==
  /\ pc = "deferred" /\ slot # NoSlot
  /\ Len(book) + Cardinality(plan) <= MaxTickets
  /\ \E swept \in SUBSET In("pending") : Sweep(swept)
  /\ slot' = NoSlot
  /\ work' = [NoWork EXCEPT !.label = slot.label, !.retry = slot.retry, !.plan = plan]
  /\ pc' = "buy"
  /\ UNCHANGED <<clock, track, source, snap, paused, mem, disk, history>>

\* A new order.  `kind` is history: a "leg" of a placement, the same leg sent
\* "again" by the confirmation, or a "stray", an order the placement lost sight of.
NewOrder(side, kind, st, first) ==
  Append(book, [label |-> work.label, side |-> side, day |-> mem.day, st |-> st,
                kind |-> kind, first |-> first])

\* A leg is sent: accepted (a new ticket), refused, or no answer and no order.
Accept(side, kind) ==
  /\ Len(book) < MaxTickets
  /\ book' = NewOrder(side, kind, "pending",
       IF side = "SELL" /\ work.got.BUY = "ok" THEN work.ticket.BUY ELSE Len(book) + 1)
  /\ work' = [work EXCEPT !.got[side] = "ok", !.ticket[side] = Len(book) + 1]

Decline(side, answer) ==
  /\ work' = [work EXCEPT !.got[side] = answer]
  /\ UNCHANGED book

NextLeg == IF pc = "buy" THEN "sell" ELSE "resolve"
LegAt == IF pc = "buy" THEN "BUY" ELSE "SELL"

SendLeg ==
  /\ pc \in {"buy", "sell"}
  /\ LegAt \in work.plan
  /\ \/ Accept(LegAt, "leg")
     \/ Decline(LegAt, "none")
     \/ Decline(LegAt, "refused")
  /\ LET other == work'.got.BUY IN
       "partial" \in Faults \/ pc = "buy" \/ "BUY" \notin work.plan \/ other = work'.got.SELL
  /\ pc' = NextLeg
  /\ UNCHANGED <<clock, track, source, snap, slot, paused, mem, disk, history>>

SkipLeg ==
  /\ pc \in {"buy", "sell"}
  /\ LegAt \notin work.plan
  /\ pc' = NextLeg
  /\ UNCHANGED <<book, clock, track, idleVars, mem, disk, history>>

\* The leg the confirmation is at.
Checking == IF "BUY" \in work.plan THEN "BUY" ELSE "SELL"

\* An order is accepted and its answer is lost, and the look after it misses the
\* order: it has filled, or the query failed.  The adapter and the placement only
\* send again, and nothing records this one.
AnswerLost ==
  /\ "answer" \in Faults
  /\ work.plan # {}
  /\ Len(book) + Cardinality(work.plan) < MaxTickets
  /\ \/ pc \in {"buy", "sell"} /\ LegAt \in work.plan
           /\ book' = NewOrder(LegAt, "stray", "pending", Len(book) + 1)
     \/ pc = "confirm" /\ book' = NewOrder(Checking, "stray", "pending", Len(book) + 1)
  /\ UNCHANGED <<clock, pc, track, idleVars, mem, disk, history>>

BothPlaced == \A s \in work.plan : work.got[s] = "ok"
NoAnswer == \A s \in Sides : work.got[s] = "none"

\* _mark_anchor_placed saves at once, before the pendings are recorded.
MarkPlaced(l) ==
  /\ mem' = [mem EXCEPT !.placed = @ \cup {l}]
  /\ IF mem' # mem THEN Save(mem', track) ELSE UNCHANGED disk

PlacementMarked ==
  /\ pc = "resolve" /\ BothPlaced
  /\ MarkPlaced(work.label)
  /\ marked' = marked \cup {<<work.label, mem.day>>}
  /\ pc' = "record"
  /\ UNCHANGED <<book, clock, track, idleVars, dropped>>

RecordPendings ==
  /\ pc = "record"
  /\ track' = [t \in Tickets |->
       IF \E s \in work.plan : work.ticket[s] = t THEN "pend" ELSE track[t]]
  /\ IF work.label \in Confirmed
     THEN pc' = "confirm" /\ work' = [work EXCEPT !.got = NoWork.got]
     ELSE pc' = "trails" /\ work' = NoWork
  /\ UNCHANGED <<book, clock, source, snap, slot, paused, mem, disk, history>>

\* _confirm_a1_placement: each leg is looked for twice among the pending orders; a
\* leg that is not there, because it filled or the query failed, is sent once more.
ConfirmSeen ==         \* or the query raised, or the broker declined
  /\ pc = "confirm" /\ work.plan # {}
  /\ work' = [work EXCEPT !.plan = @ \ {Checking}]
  /\ UNCHANGED <<book, clock, pc, track, source, snap, slot, paused, mem, disk, history>>

ConfirmResend ==
  /\ pc = "confirm" /\ work.plan # {}
  /\ "query" \in Faults \/ work.ticket[Checking] \notin In("pending")
  /\ Accept(Checking, "again")
  /\ pc' = "confirmed"
  /\ UNCHANGED <<clock, track, source, snap, slot, paused, mem, disk, history>>

\* The new order is recorded when it is seen pending, and is only reported when it
\* is not; the old ticket stays recorded in both cases.
ConfirmRecord ==
  /\ pc = "confirmed"
  /\ LET t == work.ticket[Checking] IN
       \/ /\ t \in In("pending")
          /\ track' = [track EXCEPT ![t] = "pend"]
          /\ UNCHANGED dropped
       \/ /\ "query" \in Faults \/ t \notin In("pending")
          /\ dropped' = dropped \cup {t}
          /\ UNCHANGED track
  /\ work' = [work EXCEPT !.plan = @ \ {Checking}, !.got = NoWork.got]
  /\ pc' = "confirm"
  /\ UNCHANGED <<book, clock, source, snap, slot, paused, mem, disk, marked>>

ConfirmDone ==
  /\ pc = "confirm" /\ work.plan = {}
  /\ work' = NoWork
  /\ pc' = "trails"
  /\ UNCHANGED <<book, clock, track, source, snap, slot, paused, mem, disk, history>>

\* Otherwise what was accepted is cancelled; one that has filled, or whose cancel is
\* refused (which is only logged), stays at the broker and nobody records it ...
Accepted == {t \in DOMAIN book : \E s \in Sides : work.ticket[s] = t}
Astray(b, lost) == [t \in DOMAIN b |-> IF t \in lost THEN [b[t] EXCEPT !.kind = "stray"] ELSE b[t]]

OrphansCancel ==
  /\ pc = "resolve" /\ ~BothPlaced
  /\ \E refused \in SUBSET (Accepted \cap In("pending")) :
       /\ "refuse" \in Faults \/ refused = {}
       /\ LET kept == refused \cup (Accepted \ In("pending")) IN
            book' = [t \in DOMAIN book |->
              IF t \in Accepted \ kept THEN [book[t] EXCEPT !.st = "cancelled"]
              ELSE IF t \in kept THEN [book[t] EXCEPT !.kind = "stray"] ELSE book[t]]
  /\ pc' = "recover"
  /\ UNCHANGED <<clock, track, idleVars, mem, disk, history>>

\* ... a refused leg the market already broke is bought at market ...
BreakoutRecovered(side) ==
  /\ pc = "recover"
  /\ work.got[side] = "refused"
  /\ Len(book) < MaxTickets
  /\ book' = NewOrder(side, "leg", "open", Len(book) + 1)
  /\ track' = [track EXCEPT ![Len(book) + 1] = "normal"]
  /\ mem' = [mem EXCEPT !.placed = @ \cup {work.label}]
  /\ marked' = marked \cup {<<work.label, mem.day>>}
  /\ Save(mem', track')
  /\ work' = NoWork
  /\ pc' = "trails"
  /\ UNCHANGED <<clock, source, snap, slot, paused, dropped>>

\* ... (if the answer to that is lost, the position is open, unrecorded, and the
\* anchor is not marked) ...
RecoveryLost(side) ==
  /\ "answer" \in Faults
  /\ pc = "recover"
  /\ work.got[side] = "refused"
  /\ Len(book) < MaxTickets
  /\ book' = NewOrder(side, "stray", "open", Len(book) + 1)
  /\ work' = NoWork
  /\ pc' = "trails"
  /\ UNCHANGED <<clock, track, source, snap, slot, paused, mem, disk, history>>

\* ... silence on both sides is retried from the slot, and the rest is skipped.
MayRetry == NoAnswer /\ work.retry < MaxRetries

PlacementGivenUp ==
  /\ pc = "recover"
  /\ slot' = IF MayRetry
             THEN [label |-> work.label, retry |-> work.retry + 1] ELSE slot
  /\ work' = NoWork
  /\ pc' = "trails"
  /\ UNCHANGED <<book, clock, track, source, snap, paused, mem, disk, history>>

\* The bar-close pass saves when a stop or a peak moved (module LiveStop).
Trails ==
  /\ pc = "trails"
  /\ \/ UNCHANGED disk
     \/ Legs(track) # {} /\ Save(mem, track)
  /\ pc' = "idle"
  /\ UNCHANGED <<book, clock, track, idleVars, mem, history>>

-----------------------------------------------------------------------------
\* The process dies, at any step; the state file is what is left.  The legs of a
\* placement that is not marked yet are lost sight of.
Crash ==
  /\ "crash" \in Faults
  /\ pc # "down"
  /\ pc' = "down"
  /\ track' = NoTrack /\ source' = NoTrack /\ snap' = {}
  /\ slot' = NoSlot /\ work' = NoWork
  /\ paused' = FALSE
  /\ mem' = FreshState
  /\ book' = Astray(book, IF pc \in {"buy", "sell", "resolve"} THEN Accepted ELSE {})
  /\ UNCHANGED <<clock, disk, history>>

Restart ==
  /\ pc = "down"
  /\ pc' = "idle"
  /\ mem' = disk.state
  /\ source' = disk.track
  /\ UNCHANGED <<book, clock, track, snap, slot, work, paused, disk, history>>

Broker == \E t \in DOMAIN book : BrokerFills(t) \/ BrokerCloses(t)

Place ==
  \/ \E plan \in {Sides, {"BUY"}, {"SELL"}} : StartPlacing(plan)
  \/ SendLeg \/ SkipLeg \/ AnswerLost
  \/ PlacementMarked \/ RecordPendings
  \/ ConfirmSeen \/ ConfirmResend \/ ConfirmRecord \/ ConfirmDone
  \/ OrphansCancel
  \/ \E s \in Sides : BreakoutRecovered(s) \/ RecoveryLost(s)
  \/ PlacementGivenUp

Tick ==
  \/ TickBegins \/ Pause(TRUE) \/ Pause(FALSE) \/ FlattenCommand
  \/ ClosePositions \/ CancelPendings
  \/ ReadPositions \/ Reconcile
  \/ KillCheck \/ EodCheck
  \/ AnchorsPaused \/ Anchors
  \/ NotReady \/ SlotLost \/ Place
  \/ Trails

Next == Broker \/ TimePasses \/ Tick \/ Crash \/ Restart

Spec == Init /\ [][Next]_vars

-----------------------------------------------------------------------------
OrderStatus == {"pending", "open", "closed", "cancelled", "swept"}
Kind == {"leg", "again", "stray"}
Track == [Tickets -> {"no", "pend", "flag", "normal", "rescue"}]
State == [day : 0..MaxDays, placed : SUBSET Labels, missed : SUBSET Labels,
          killed : BOOLEAN]

\* Every record, slot and order has its form, in memory, in the file and at the broker.
TypeOK ==
  /\ book \in Seq([label : Labels, side : Sides, day : 1..MaxDays,
                   st : OrderStatus, kind : Kind, first : Tickets])
  /\ Len(book) <= MaxTickets
  /\ today \in 1..MaxDays /\ hour \in 0..EodHour
  /\ pc \in {"idle", "down", "positions", "reconcile", "kill", "eod", "anchors",
             "deferred", "buy", "sell", "resolve", "record", "confirm", "confirmed",
             "recover", "trails",
             "cancelCommand", "cancelKill", "cancelEod"} \cup Flattening
  /\ track \in Track /\ source \in Track
  /\ snap \subseteq DOMAIN book
  /\ slot.label \in Labels \cup {"none"} /\ slot.retry \in 0..MaxRetries
  /\ paused \in BOOLEAN
  /\ mem \in State
  /\ disk.state \in State /\ disk.track \in Track
  /\ dropped \subseteq DOMAIN book
  /\ marked \subseteq Labels \X (1..MaxDays)

Orders(l, s, d, k) ==
  {t \in DOMAIN book \ In("cancelled") :
     /\ book[t].label = l /\ book[t].side = s /\ book[t].day = d
     /\ book[t].kind = k}

\* An anchor fires once a day (_mark_anchor_placed: "guarantees one placement
\* per anchor per day even with late-retry"): however often it was retried,
\* paused, flattened or given up, whatever was refused and lost, at most one
\* order per side was accepted and not cancelled again, and one more was sent by
\* the confirmation.  What it cannot promise is the stray: an order whose answer
\* was lost, an orphan that filled or whose cancel was refused, and a leg whose
\* placement a crash cut off stand beside the placement that follows.
OnePlacementPerDay ==
  \A l \in Labels, s \in Sides, d \in 1..MaxDays, k \in {"leg", "again"} :
    Cardinality(Orders(l, s, d, k)) <= 1

\* After a reconcile every position the pass saw is managed, whatever was
\* filled, closed, sent again or placed while it was reading.  The two exceptions:
\* a stray, and an order the record gave up: one that fills while a flatten
\* cancels it, or the confirmation's order that it does not find pending.
AllManaged ==
  pc = "kill" =>
    \A t \in snap \ dropped :
      book[t].st = "open" /\ book[t].kind # "stray" => t \in Legs(track)

\* Two open legs of one anchor never both run as the first one: the second to
\* fill is the rescue leg, also when both filled in one pass or over a restart.
TwinRolesDiffer ==
  \A s, t \in Legs(track) :
    s # t /\ book[s].first = book[t].first /\ {s, t} \subseteq In("open")
      => "rescue" \in {track[s], track[t]}

\* Nothing is recorded that the broker does not know as such: a tracked leg
\* was filled, and a tracked pending that ended unfilled was ended by nobody
\* else than the stale-leg sweep, which leaves it in the record until a flatten.
TrackedIsReal ==
  /\ \A t \in Legs(track) : t \in DOMAIN book /\ book[t].st \in {"open", "closed"}
  /\ \A t \in Pends(track) : t \in DOMAIN book /\ book[t].st # "cancelled"

\* A mark outlives a crash: no order is ever accepted for an anchor that this
\* or an earlier life of the bot has marked placed that day, but for what the
\* confirmation of that placement sends again.
MarkedStaysPlaced ==
  [][Len(book') > Len(book) =>
       LET new == book'[Len(book')] IN
         <<new.label, new.day>> \in marked => new.label \in Confirmed /\ new.kind # "leg"]_vars

\* The stage of a leg: that of its one order that is neither cancelled nor a stray.
Live(o) == o.st # "cancelled" /\ o.kind # "stray"
LegOf(o) == [label |-> o.label, side |-> o.side, day |-> o.day, kind |-> o.kind]
Alive(b, x) == {t \in DOMAIN b : Live(b[t]) /\ LegOf(b[t]) = x}

Life(b, x) ==
  IF Alive(b, x) = {} THEN "none"
  ELSE IF \E t \in Alive(b, x) : Alive(b, x) = {t} THEN b[CHOOSE t \in Alive(b, x) : TRUE].st
  ELSE "twice"

\* Strays aside, the broker never sees more of an anchor than one straddle a day,
\* or one leg bought at the market in its place, and what its confirmation sends
\* again (_complete_deferred_anchor): however often it is retried, paused,
\* flattened, given up or cut off, no leg is placed while one is alive, nothing that
\* filled counts as cancelled, and no leg is placed once the anchor is marked.
Day == INSTANCE AnchorDay
  WITH Days <- 1..MaxDays,
       life <- [x \in [label : Labels, side : Sides, day : 1..MaxDays, kind : {"leg", "again"}]
                  |-> Life(book, x)]

ImplementsDay == Day!Spec

\* The loop runs and is started again, the day ends, and the broker does not
\* refuse every close and every cancel.
FairSpec ==
  /\ Spec
  /\ WF_vars(Tick) /\ WF_vars(TimePasses) /\ WF_vars(Restart)
  /\ SF_vars(ClosePositions /\ Legs(track') = {})
  /\ SF_vars(CancelPendings /\ Pends(track') = {})

\* From the end of the day on the bot works its book off, however often closes
\* and cancels are refused and the process has died before; only a kill lock, whose pass
\* never gets that far, may leave a rest (its flatten is tried once).
EodFlat ==
  <>[][~Crash]_vars => <>[](mem.killed \/ Legs(track) \cup Pends(track) = {})
=============================================================================
