-------------------------- MODULE AnchorBookProofs --------------------------
(***************************************************************************)
(* Proofs about AnchorBook, for any number of anchors, days, orders and    *)
(* retries and with every fault: its type invariant; that an anchor marked *)
(* placed never has another leg placed that day, in this life of the bot   *)
(* or in a later one; that nothing is recorded which the broker does not   *)
(* know as such; that of two open twins one is the rescue leg; that an     *)
(* anchor has, strays aside, one leg a side and day and one sent again by  *)
(* its confirmation; and that the book so implements AnchorDay.  That no   *)
(* open position is left unmanaged supposes no crash and no failed query.  *)
(***************************************************************************)
EXTENDS AnchorBook, SequenceTheorems, FiniteSetTheorems, TLAPS

Order == [label : Labels, side : Sides, day : 1..MaxDays,
          st : OrderStatus, kind : Kind, first : Tickets]

\* The placement in progress: which legs it plans, what came back for each.
Placement ==
  [label : Labels \cup {"none"}, retry : 0..MaxRetries, plan : SUBSET Sides,
   got : [Sides -> {"none", "ok", "refused"}], ticket : [Sides -> 0..MaxTickets]]

Slot == [label : Labels \cup {"none"}, retry : 0..MaxRetries]

Sending == {"buy", "sell", "resolve", "recover"}
Confirming == {"confirm", "confirmed"}
BeforeDayRoll == {"idle", "down", "flattenCommand", "cancelCommand"}

WorkOK ==
  /\ work \in Placement
  /\ \A s \in Sides : work.got[s] = "ok" => work.ticket[s] \in Tickets
  /\ pc \in Sending \cup Confirming \cup {"record"} => work.label \in Labels /\ slot = NoSlot
  /\ pc \in Confirming => work.label \in Confirmed
  /\ pc = "confirm" => work.got = NoWork.got
  /\ pc = "confirmed" => work.ticket[Checking] \in DOMAIN book

SlotOK ==
  /\ slot \in Slot
  /\ slot # NoSlot => slot.label \in Labels /\ pc # "down"

\* The day of the bot's state is behind the clock until the day roll.
DaysOK ==
  /\ mem.day <= today /\ disk.state.day <= today
  /\ pc \notin BeforeDayRoll => 1 <= mem.day

\* A state of the bot (in memory or in the file) that still knows every mark:
\* it lists the anchor, or it is of a later day.
Knows(state) ==
  \A m \in marked : m[2] < state.day \/ (m[2] = state.day /\ m[1] \in state.placed)

\* What makes the mark effective: neither the file nor the memory forgets it
\* within the day, and no anchor is in the slot or under way once it is marked.
MarksKept ==
  /\ Knows(disk.state)
  /\ pc # "down" => Knows(mem)
  /\ slot # NoSlot => slot.label \notin mem.placed
  /\ pc \in Sending => work.label \notin mem.placed

IInv ==
  /\ TypeOK
  /\ disk \in [state : State, track : Track]
  /\ WorkOK
  /\ SlotOK
  /\ DaysOK
  /\ MarksKept

-----------------------------------------------------------------------------
\* An order whose status changes is still an order, so a book whose statuses
\* change is still a book of the same length.
LEMMA StatusKeepsOrder ==
  ASSUME NEW o \in Order, NEW st \in OrderStatus
  PROVE  [o EXCEPT !.st = st] \in Order
BY DEF Order

LEMMA BookShape ==
  ASSUME book \in Seq(Order)
  PROVE  /\ Len(book) \in Nat /\ DOMAIN book = 1..Len(book)
         /\ \A t \in DOMAIN book : book[t] \in Order
BY LenProperties, ElementOfSeq

LEMMA KindKeepsOrder ==
  ASSUME NEW o \in Order, NEW kind \in Kind
  PROVE  [o EXCEPT !.kind = kind] \in Order
BY DEF Order

LEMMA BookIsAgain ==
  ASSUME book \in Seq(Order), book' \in [DOMAIN book -> Order]
  PROVE  book' \in Seq(Order) /\ Len(book') = Len(book) /\ DOMAIN book' = DOMAIN book
<1> DEFINE n == Len(book)
<1>1. n \in Nat /\ DOMAIN book = 1..n
  BY BookShape
<1>2. book' \in Seq(Order)
  BY <1>1, SeqDef
<1>3. DOMAIN book' = 1..n
  BY <1>1
<1>4. Len(book') \in Nat /\ DOMAIN book' = 1..Len(book')
  BY <1>2, LenProperties
<1>5. Len(book') = n
  BY <1>1, <1>3, <1>4
<1> QED BY <1>1, <1>2, <1>3, <1>5

LEMMA Relabelled ==
  ASSUME book \in Seq(Order), NEW S, NEW st \in OrderStatus,
         book' = [t \in DOMAIN book |-> IF t \in S THEN [book[t] EXCEPT !.st = st] ELSE book[t]]
  PROVE  book' \in Seq(Order) /\ Len(book') = Len(book) /\ DOMAIN book' = DOMAIN book
<1> DEFINE n == Len(book)
<1>1. n \in Nat /\ DOMAIN book = 1..n /\ \A t \in 1..n : book[t] \in Order
  BY BookShape
<1>2. book' \in [1..n -> Order]
  BY <1>1, StatusKeepsOrder
<1> QED BY <1>1, <1>2, BookIsAgain

LEMMA StatusSet ==
  ASSUME book \in Seq(Order), NEW t \in DOMAIN book, NEW st \in OrderStatus, SetStatus(t, st)
  PROVE  book' \in Seq(Order) /\ Len(book') = Len(book) /\ DOMAIN book' = DOMAIN book
<1>1. book[t] \in Order /\ t \in 1..Len(book)
  BY BookShape
<1>2. [book[t] EXCEPT !.st = st] \in Order
  BY <1>1, StatusKeepsOrder
<1>3. book' = [book EXCEPT ![t] = [book[t] EXCEPT !.st = st]]
  BY <1>1 DEF SetStatus
<1> QED BY <1>1, <1>2, <1>3, ExceptSeq

LEMMA Appended ==
  ASSUME NEW b \in Seq(Order), NEW o \in Order
  PROVE  /\ Append(b, o) \in Seq(Order)
         /\ Len(Append(b, o)) = Len(b) + 1
         /\ Append(b, o)[Len(b) + 1] = o
         /\ DOMAIN b \subseteq DOMAIN Append(b, o)
<1>1. Append(b, o) \in Seq(Order) /\ Len(Append(b, o)) = Len(b) + 1
      /\ Append(b, o)[Len(b) + 1] = o
  BY AppendProperties
<1>2. Len(b) \in Nat /\ DOMAIN b = 1..Len(b) /\ DOMAIN Append(b, o) = 1..(Len(b) + 1)
  BY <1>1, LenProperties
<1> QED BY <1>1, <1>2

-----------------------------------------------------------------------------
LEMMA InitEstablishes == Init => IInv
<1> SUFFICES ASSUME Init PROVE IInv
  OBVIOUS
<1>1. FreshState \in State
  BY BookBounds DEF FreshState, State
<1>2. NoTrack \in Track
  BY DEF NoTrack, Track
<1>3. book \in Seq(Order) /\ Len(book) = 0 /\ DOMAIN book = {}
  BY EmptySeq DEF Init
<1>4. NoWork \in Placement /\ NoSlot \in Slot
  BY BookBounds DEF NoWork, Placement, NoSlot, Slot, Sides
<1>5. TypeOK
  <2>1. /\ book \in Seq(Order) /\ Len(book) <= MaxTickets
        /\ today \in 1..MaxDays /\ hour \in 0..EodHour
    BY <1>3, BookBounds DEF Init
  <2>2. slot.label \in Labels \cup {"none"} /\ slot.retry \in 0..MaxRetries
    BY BookBounds DEF Init, NoSlot
  <2>3. mem \in State /\ disk.state \in State /\ disk.track \in Track
        /\ track \in Track /\ source \in Track
    BY <1>1, <1>2 DEF Init
  <2>4. paused \in BOOLEAN /\ snap \subseteq DOMAIN book /\ dropped \subseteq DOMAIN book
        /\ marked \subseteq Labels \X (1..MaxDays)
    BY DEF Init
  <2> QED BY <2>1, <2>2, <2>3, <2>4 DEF Init, TypeOK, Order
<1>6. WorkOK
  BY <1>4 DEF Init, WorkOK, NoWork, Sending, Confirming, Sides
<1>7. SlotOK /\ DaysOK /\ MarksKept
  BY <1>4, BookBounds DEF Init, SlotOK, DaysOK, MarksKept, Knows, FreshState, BeforeDayRoll, Sending, Confirming
<1> QED BY <1>1, <1>2, <1>5, <1>6, <1>7 DEF IInv, Init

\* A step of the broker changes one status, of the clock only the time.
LEMMA BrokerPreserves ==
  ASSUME IInv, NEW t \in DOMAIN book, BrokerFills(t) \/ BrokerCloses(t)
  PROVE  IInv' /\ Len(book') = Len(book)
<1>1. book' \in Seq(Order) /\ Len(book') = Len(book) /\ DOMAIN book' = DOMAIN book
  BY StatusSet DEF IInv, TypeOK, Order, BrokerFills, BrokerCloses, OrderStatus
<1>2. UNCHANGED <<clock, pc, track, idleVars, mem, disk, history>>
  BY DEF BrokerFills, BrokerCloses
<1>3. TypeOK'
  BY <1>1, <1>2 DEF IInv, TypeOK, Order, clock, idleVars, history
<1> QED
  BY <1>1, <1>2, <1>3 DEF IInv, WorkOK, Checking, SlotOK, DaysOK, MarksKept, Knows, clock, idleVars, history

LEMMA ClockPreserves ==
  ASSUME IInv, TimePasses
  PROVE  IInv'
<1>1. UNCHANGED <<book, pc, track, idleVars, mem, disk, history>>
  BY DEF TimePasses
<1>2. today' \in 1..MaxDays /\ hour' \in 0..EodHour /\ today <= today'
  BY BookBounds DEF TimePasses, IInv, TypeOK
<1>3. mem.day \in Nat /\ disk.state.day \in Nat /\ today \in Nat
  BY BookBounds DEF IInv, TypeOK, State
<1>4. TypeOK'
  BY <1>1, <1>2 DEF IInv, TypeOK, idleVars, history
<1>5. DaysOK'
  BY <1>1, <1>2, <1>3 DEF IInv, DaysOK
<1> QED
  BY <1>1, <1>4, <1>5 DEF IInv, WorkOK, Checking, SlotOK, MarksKept, Knows, idleVars, history

-----------------------------------------------------------------------------
\* The day roll writes the new day, or does nothing: either way no mark is lost.
LEMMA DayRollKeeps ==
  ASSUME IInv, NEW tr \in Track, DayRoll(tr), pc # "down", UNCHANGED <<today, marked>>
  PROVE  /\ mem' \in State /\ mem'.day = today
         /\ disk' \in [state : State, track : Track]
         /\ disk'.state.day <= today
         /\ Knows(disk.state)'
         /\ Knows(mem)'
         /\ mem'.placed = {} \/ mem' = mem
<1>1. mem \in State /\ disk \in [state : State, track : Track] /\ today \in 1..MaxDays
      /\ mem.day <= today /\ disk.state.day <= today
  BY DEF IInv, TypeOK, DaysOK
<1>2. \A m \in marked : m \in Labels \X (1..MaxDays) /\ m[2] \in Nat
  BY BookBounds DEF IInv, TypeOK
<1>3. CASE mem.day = today
  BY <1>1, <1>3 DEF DayRoll, IInv, MarksKept, Knows, DaysOK
<1>4. CASE mem.day # today
  <2>1. mem' = RolledOver /\ disk' = [state |-> RolledOver, track |-> tr]
    BY <1>4 DEF DayRoll, Save
  <2>2. RolledOver.day = today /\ RolledOver.placed = {}
    BY DEF RolledOver, FreshState
  <2>3. RolledOver \in State
    <3>1. FreshState \in State
      BY BookBounds DEF FreshState, State
    <3>2. today \in 0..MaxDays
      BY <1>1, BookBounds
    <3> QED BY <3>1, <3>2 DEF RolledOver, State
  <2>4. mem.day \in Nat /\ today \in Nat /\ mem.day < today
    <3>1. MaxDays \in Nat
      BY BookBounds
    <3>2. mem.day \in 0..MaxDays
      BY <1>1 DEF State
    <3> QED BY <3>1, <3>2, <1>1, <1>4
  <2>5. ASSUME NEW m \in marked PROVE m[2] < today
    <3>1. m[2] < mem.day \/ m[2] = mem.day
      BY DEF IInv, MarksKept, Knows
    <3> QED BY <3>1, <2>4, <1>2
  <2>6. RolledOver.day = today
    BY <2>2
  <2>7. Knows(RolledOver)
    BY <2>5, <2>6 DEF Knows
  <2>8. Knows(mem)' /\ Knows(disk.state)'
    BY <2>1, <2>7 DEF Knows
  <2> QED BY <2>1, <2>2, <2>3, <2>8, <1>1
<1> QED BY <1>3, <1>4

\* The steps at the top of a tick: day roll, pause and resume, flatten command.
LEMMA TopPreserves ==
  ASSUME IInv, TickBegins \/ Pause(TRUE) \/ Pause(FALSE) \/ FlattenCommand
  PROVE  IInv'
<1>1. CASE TickBegins \/ Pause(TRUE) \/ Pause(FALSE)
  <2>1. pc = "idle" /\ pc' = "positions" /\ DayRoll(track)
        /\ UNCHANGED <<book, clock, track, source, snap, slot, work, history>>
        /\ paused' \in BOOLEAN
    BY <1>1 DEF TickBegins, Pause, idleVars, IInv, TypeOK
  <2>2. /\ mem' \in State /\ mem'.day = today
        /\ disk' \in [state : State, track : Track] /\ disk'.state.day <= today
        /\ Knows(disk.state)' /\ Knows(mem)'
        /\ (mem'.placed = {} \/ mem' = mem)
    BY <2>1, DayRollKeeps DEF IInv, TypeOK, clock, history
  <2>3. today' = today /\ today \in 1..MaxDays /\ MaxDays \in Nat
    BY <2>1, BookBounds DEF IInv, TypeOK, clock
  <2>4. TypeOK'
    BY <2>1, <2>2 DEF IInv, TypeOK, clock, history
  <2>5. WorkOK' /\ SlotOK'
    BY <2>1 DEF IInv, WorkOK, SlotOK, Sending, Confirming
  <2>6. DaysOK'
    BY <2>2, <2>3 DEF DaysOK
  <2>7. MarksKept'
    BY <2>1, <2>2 DEF IInv, MarksKept, Sending, Confirming
  <2> QED BY <2>2, <2>4, <2>5, <2>6, <2>7 DEF IInv
<1>2. CASE FlattenCommand
  BY <1>2 DEF FlattenCommand, IInv, TypeOK, WorkOK, SlotOK, DaysOK, MarksKept, Knows,
     BeforeDayRoll, Sending, Confirming, Flattening, clock, idleVars, history
<1> QED BY <1>1, <1>2

\* A step that moves the loop on, before anything is sent.
LEMMA GatePreserves ==
  ASSUME IInv,
         KillCheck \/ EodCheck \/ AnchorsPaused \/ NotReady
  PROVE  IInv'
<1>1. /\ UNCHANGED <<book, clock, track, source, slot, work, paused, mem, disk, history>>
      /\ snap' = snap \/ snap' = {}
      /\ pc \in {"kill", "eod", "anchors", "deferred"}
      /\ pc' \in {"idle", "eod", "flattenKill", "flattenEod", "anchors", "deferred", "trails"}
  BY DEF KillCheck, EodCheck, AnchorsPaused, NotReady, idleVars
<1>2. TypeOK'
  BY <1>1 DEF IInv, TypeOK, Flattening, clock, history
<1>3. WorkOK' /\ SlotOK' /\ MarksKept'
  BY <1>1 DEF IInv, WorkOK, SlotOK, MarksKept, Knows, Sending, Confirming, history
<1>4. DaysOK'
  BY <1>1 DEF IInv, DaysOK, BeforeDayRoll, clock
<1> QED BY <1>1, <1>2, <1>3, <1>4 DEF IInv

\* _flatten_all, first pass: only statuses and records change.
LEMMA ClosePreserves ==
  ASSUME IInv, ClosePositions
  PROVE  IInv' /\ Len(book') = Len(book)
<1>1. /\ UNCHANGED <<clock, idleVars, mem, disk, marked>>
      /\ pc \in Flattening
      /\ pc' = Cancelling[pc]
  BY DEF ClosePositions
<1>2. PICK refused \in SUBSET (Legs(track) \cap In("open")), unseen \in SUBSET In("open") :
        /\ unseen \subseteq refused
        /\ book' = [t \in DOMAIN book |->
             IF t \in Legs(track) \ refused /\ book[t].st = "open"
             THEN [book[t] EXCEPT !.st = "closed"] ELSE book[t]]
        /\ track' = [t \in Tickets |->
             IF t \in Legs(track) \ (refused \ unseen) THEN "no" ELSE track[t]]
        /\ dropped' = dropped \cup unseen
  BY DEF ClosePositions
<1> DEFINE shut == {t \in Legs(track) \ refused : book[t].st = "open"}
<1>3. book' = [t \in DOMAIN book |->
        IF t \in shut THEN [book[t] EXCEPT !.st = "closed"] ELSE book[t]]
  BY <1>2
<1>4. book' \in Seq(Order) /\ Len(book') = Len(book) /\ DOMAIN book' = DOMAIN book
  BY <1>3, Relabelled DEF IInv, TypeOK, Order, OrderStatus
<1>5. track' \in Track
  BY <1>2 DEF IInv, TypeOK, Track
<1>6. pc' \in {"cancelCommand", "cancelKill", "cancelEod"}
      /\ (pc' # "cancelCommand" => pc # "flattenCommand")
  BY <1>1 DEF Cancelling, Flattening
<1>0. dropped' \subseteq DOMAIN book'
  BY <1>2, <1>4 DEF IInv, TypeOK, In
<1>7. TypeOK'
  BY <1>0, <1>1, <1>4, <1>5, <1>6 DEF IInv, TypeOK, Order, clock, idleVars
<1>8. WorkOK' /\ SlotOK'
  BY <1>1, <1>6 DEF IInv, WorkOK, SlotOK, Sending, Confirming, idleVars
<1>9. MarksKept'
  BY <1>1, <1>6 DEF IInv, MarksKept, Knows, Sending, Confirming, Flattening, idleVars
<1>10. DaysOK'
  BY <1>1, <1>6 DEF IInv, DaysOK, BeforeDayRoll, Flattening, clock
<1> QED BY <1>1, <1>4, <1>7, <1>8, <1>9, <1>10 DEF IInv

\* The second pass: pendings, slot, and what the caller saves.
LEMMA CancelPreserves ==
  ASSUME IInv, CancelPendings
  PROVE  IInv' /\ Len(book') = Len(book)
<1>1. /\ UNCHANGED <<clock, source, snap, work, paused, marked>>
      /\ pc \in {"cancelCommand", "cancelKill", "cancelEod"}
      /\ slot' = NoSlot /\ pc' = AfterCancel
  BY DEF CancelPendings
<1>0. PICK refused \in SUBSET (Pends(track) \cap In("pending")), unseen \in SUBSET In("pending") :
        /\ unseen \subseteq refused
        /\ book' = [t \in DOMAIN book |->
             IF t \in Pends(track) \ refused /\ book[t].st = "pending"
             THEN [book[t] EXCEPT !.st = "cancelled"] ELSE book[t]]
        /\ dropped' = dropped \cup unseen \cup (Pends(track) \cap In("open"))
        /\ track' = TrackAfterCancel(refused \ unseen)
  BY DEF CancelPendings
<1> DEFINE ended == {t \in Pends(track) \ refused : book[t].st = "pending"}
<1>2. book' = [t \in DOMAIN book |->
        IF t \in ended THEN [book[t] EXCEPT !.st = "cancelled"] ELSE book[t]]
  BY <1>0
<1>3. book' \in Seq(Order) /\ Len(book') = Len(book) /\ DOMAIN book' = DOMAIN book
  BY <1>2, Relabelled DEF IInv, TypeOK, Order, OrderStatus
<1>4. track' \in Track
  BY <1>0 DEF IInv, TypeOK, Track, TrackAfterCancel
<1>5. dropped' \subseteq DOMAIN book'
  BY <1>0, <1>3 DEF IInv, TypeOK, In
<1>6. pc' \in {"idle", "positions"} /\ (pc' = "positions" => pc = "cancelCommand")
  BY <1>1 DEF AfterCancel
<1>7. NoSlot \in Slot
  BY BookBounds DEF NoSlot, Slot
<1>8. /\ mem' \in State /\ disk' \in [state : State, track : Track]
      /\ mem'.day <= today /\ disk'.state.day <= today
      /\ Knows(mem)' /\ Knows(disk.state)'
      /\ pc = "cancelCommand" => mem'.day = today
  <2>0. mem \in State /\ disk \in [state : State, track : Track]
    BY DEF IInv, TypeOK
  <2>1. CASE pc = "cancelKill"
    <3>1. mem' = [mem EXCEPT !.killed = TRUE] /\ disk' = [state |-> mem', track |-> track']
      BY <2>1 DEF CancelPendings, Save
    <3>2. mem' \in State /\ mem'.day = mem.day /\ mem'.placed = mem.placed
      BY <3>1, <2>0 DEF State
    <3>3. Knows(mem)'
      BY <1>1, <3>2, <2>1 DEF Knows, IInv, MarksKept
    <3> QED BY <1>1, <1>4, <2>1, <3>1, <3>2, <3>3 DEF IInv, DaysOK, Knows
  <2>2. CASE pc = "cancelCommand"
    <3>1. DayRoll(track')
      BY <2>2 DEF CancelPendings
    <3> QED BY <1>1, <1>4, <2>2, <3>1, DayRollKeeps, BookBounds DEF clock, IInv, TypeOK
  <2>3. CASE pc = "cancelEod"
    BY <1>1, <2>0, <2>3 DEF CancelPendings, IInv, DaysOK, MarksKept, Knows
  <2> QED BY <1>1, <2>1, <2>2, <2>3
<1>9. TypeOK'
  BY <1>1, <1>3, <1>4, <1>5, <1>6, <1>7, <1>8 DEF IInv, TypeOK, Order, Slot, clock
<1>10. WorkOK' /\ SlotOK'
  BY <1>1, <1>6, <1>7 DEF IInv, WorkOK, SlotOK, Sending, Confirming
<1>11. DaysOK'
  BY <1>1, <1>6, <1>8, BookBounds DEF IInv, TypeOK, DaysOK, BeforeDayRoll, clock
<1>12. MarksKept'
  BY <1>1, <1>6, <1>8 DEF MarksKept, Sending, Confirming
<1> QED BY <1>3, <1>8, <1>9, <1>10, <1>11, <1>12 DEF IInv

-----------------------------------------------------------------------------
\* The reconcile rewrites the record from what it read; marks are not touched.
LEMMA TracksTyped ==
  ASSUME IInv
  PROVE  Reconciled \in Track
<1>1. track \in Track /\ source \in Track
  BY DEF IInv, TypeOK
<1>2. Rehydrated \in Track
  BY <1>1 DEF Rehydrated, Track
<1>3. Promoted \in Track
  BY <1>2 DEF Promoted, Track
<1> QED BY <1>3 DEF Reconciled, Track

LEMMA ReconcilePreserves ==
  ASSUME IInv, ReadPositions \/ Reconcile
  PROVE  IInv'
<1>1. CASE ReadPositions
  <2>1. /\ UNCHANGED <<book, clock, track, source, slot, work, paused, mem, disk, history>>
        /\ pc = "positions" /\ pc' = "reconcile"
        /\ snap' \subseteq DOMAIN book
    BY <1>1 DEF ReadPositions, In
  <2>2. TypeOK'
    BY <2>1 DEF IInv, TypeOK, clock, history
  <2> QED BY <2>1, <2>2
    DEF IInv, WorkOK, SlotOK, DaysOK, MarksKept, Knows, BeforeDayRoll, Sending, Confirming, clock, history
<1>2. CASE Reconcile
  <2>1. /\ UNCHANGED <<book, clock, snap, slot, work, paused, mem, history>>
        /\ pc = "reconcile" /\ pc' = "kill"
        /\ track' = Reconciled /\ source' = NoTrack
        /\ disk' = disk \/ disk' = [state |-> mem, track |-> Reconciled]
    BY <1>2 DEF Reconcile, Save
  <2>2. track' \in Track /\ source' \in Track
    BY <2>1, TracksTyped DEF NoTrack, Track
  <2>3. disk' \in [state : State, track : Track] /\ (disk'.state = disk.state \/ disk'.state = mem)
    BY <2>1, <2>2 DEF IInv, TypeOK
  <2>4. TypeOK'
    BY <2>1, <2>2, <2>3 DEF IInv, TypeOK, clock, history
  <2>5. WorkOK' /\ SlotOK'
    BY <2>1 DEF IInv, WorkOK, SlotOK, Sending, Confirming
  <2>6. DaysOK' /\ MarksKept'
    BY <2>1, <2>3 DEF IInv, DaysOK, MarksKept, Knows, BeforeDayRoll, Sending, Confirming, clock, history
  <2> QED BY <2>3, <2>4, <2>5, <2>6 DEF IInv
<1> QED BY <1>1, <1>2

-----------------------------------------------------------------------------
\* _process_anchor_if_due: only an anchor that is not marked is captured.
LEMMA AnchorsPreserve ==
  ASSUME IInv, Anchors
  PROVE  IInv'
<1>1. /\ UNCHANGED <<book, clock, track, source, snap, work, paused, history>>
      /\ pc = "anchors" /\ pc' = "deferred"
  BY DEF Anchors
<1>2. PICK skipped \in SUBSET {l \in Labels : Due(l)} :
        /\ mem' = [mem EXCEPT !.missed = @ \cup skipped \cup {l \in Labels : Late(l)}]
        /\ \/ UNCHANGED slot
           \/ \E l \in Labels \ skipped : Due(l) /\ slot' = [label |-> l, retry |-> 0]
  BY DEF Anchors
<1>3. mem' \in State /\ mem'.day = mem.day /\ mem'.placed = mem.placed
  BY <1>2 DEF IInv, TypeOK, State
<1>4. disk' = disk \/ disk' = [state |-> mem', track |-> track]
  BY DEF Anchors, Save
<1>5. disk' \in [state : State, track : Track] /\ (disk'.state = disk.state \/ disk'.state = mem')
  BY <1>3, <1>4 DEF IInv, TypeOK
<1>6. slot' = slot \/ (slot'.label \in Labels /\ slot'.label \notin mem.placed /\ slot' \in Slot)
  BY <1>2, BookBounds DEF Due, Waiting, Slot
<1>7. SlotOK' /\ (slot' # NoSlot => slot'.label \notin mem'.placed)
  BY <1>1, <1>3, <1>6 DEF IInv, SlotOK, MarksKept
<1>8. TypeOK'
  BY <1>1, <1>3, <1>5, <1>7 DEF IInv, TypeOK, SlotOK, Slot, clock, history
<1>9. WorkOK'
  BY <1>1 DEF IInv, WorkOK, Sending, Confirming
<1>10. DaysOK' /\ MarksKept'
  BY <1>1, <1>3, <1>5, <1>7 DEF IInv, DaysOK, MarksKept, Knows, BeforeDayRoll, Sending, Confirming, clock, history
<1> QED BY <1>5, <1>7, <1>8, <1>9, <1>10 DEF IInv

LEMMA NoSlotTyped == NoSlot \in Slot /\ NoWork \in Placement
BY BookBounds DEF NoWork, Placement, NoSlot, Slot, Sides

LEMMA SlotLostPreserves ==
  ASSUME IInv, SlotLost
  PROVE  IInv'
<1>1. /\ UNCHANGED <<book, clock, track, source, snap, work, paused, mem, disk, history>>
      /\ pc = "deferred" /\ pc' = "trails" /\ slot' = NoSlot
  BY DEF SlotLost
<1>2. TypeOK'
  BY <1>1, NoSlotTyped DEF IInv, TypeOK, Slot, clock, history
<1> QED BY <1>1, <1>2, NoSlotTyped
  DEF IInv, WorkOK, SlotOK, DaysOK, MarksKept, Knows, BeforeDayRoll, Sending, Confirming, clock, history

\* The slot is consumed: its anchor, unmarked, is now under way.
LEMMA StartPreserves ==
  ASSUME IInv, NEW plan \in SUBSET Sides, StartPlacing(plan)
  PROVE  IInv' /\ Len(book') = Len(book)
<1>1. /\ UNCHANGED <<clock, track, source, snap, paused, mem, disk, history>>
      /\ pc = "deferred" /\ pc' = "buy" /\ slot # NoSlot /\ slot' = NoSlot
      /\ work' = [NoWork EXCEPT !.label = slot.label, !.retry = slot.retry, !.plan = plan]
  BY DEF StartPlacing
<1>2. PICK swept \in SUBSET In("pending") : Sweep(swept)
  BY DEF StartPlacing
<1> DEFINE ended == {t \in swept : book[t].st = "pending"}
<1>3. book' = [t \in DOMAIN book |->
        IF t \in ended THEN [book[t] EXCEPT !.st = "swept"] ELSE book[t]]
  BY <1>2 DEF Sweep
<1>4. book' \in Seq(Order) /\ Len(book') = Len(book) /\ DOMAIN book' = DOMAIN book
  BY <1>3, Relabelled DEF IInv, TypeOK, Order, OrderStatus
<1>5. slot \in Slot /\ slot.label \in Labels /\ slot.label \notin mem.placed
  BY <1>1 DEF IInv, SlotOK, MarksKept
<1>6. work' \in Placement /\ work'.label = slot.label
      /\ work'.got = [s \in Sides |-> "none"]
  BY <1>1, <1>5, NoSlotTyped DEF Placement, Slot, NoWork
<1>7. TypeOK'
  BY <1>1, <1>4, NoSlotTyped DEF IInv, TypeOK, Order, Slot, clock, history
<1>8. WorkOK'
  BY <1>1, <1>5, <1>6 DEF WorkOK, Sending, Confirming
<1>9. SlotOK' /\ MarksKept'
  BY <1>1, <1>5, <1>6, NoSlotTyped DEF IInv, SlotOK, MarksKept, Knows, Sending, Confirming, history
<1>10. DaysOK'
  BY <1>1 DEF IInv, DaysOK, BeforeDayRoll, clock
<1> QED BY <1>1, <1>4, <1>7, <1>8, <1>9, <1>10 DEF IInv

\* What an order of the placement under way looks like.
LEMMA OrderTyped ==
  ASSUME IInv, NEW side \in Sides, NEW st \in OrderStatus, NEW kind \in Kind,
         NEW first \in Tickets, pc \in Sending \cup Confirming, Len(book) < MaxTickets
  PROVE  /\ [label |-> work.label, side |-> side, day |-> mem.day, st |-> st,
              kind |-> kind, first |-> first] \in Order
         /\ Len(book) + 1 \in Tickets
<1>1. work.label \in Labels /\ Len(book) \in Nat
  BY BookShape DEF IInv, TypeOK, WorkOK, Order
<1>2. mem.day \in 1..MaxDays
  <2>1. mem.day \in 0..MaxDays /\ MaxDays \in Nat
    BY BookBounds DEF IInv, TypeOK, State
  <2>2. 1 <= mem.day
    BY DEF IInv, DaysOK, BeforeDayRoll, Sending, Confirming
  <2> QED BY <2>1, <2>2
<1> QED BY <1>1, <1>2, BookBounds DEF Order, Tickets

\* An order of the placement under way is appended.
LEMMA Issued ==
  ASSUME IInv, NEW side \in Sides, NEW st \in OrderStatus, NEW kind \in Kind,
         NEW first \in Tickets, pc \in Sending \cup Confirming, Len(book) < MaxTickets,
         book' = NewOrder(side, kind, st, first)
  PROVE  /\ book' \in Seq(Order) /\ Len(book') = Len(book) + 1 /\ Len(book') <= MaxTickets
         /\ DOMAIN book \subseteq DOMAIN book' /\ Len(book) + 1 \in Tickets
         /\ book'[Len(book')].label = work.label /\ book'[Len(book')].day = mem.day
         /\ book'[Len(book')].kind = kind
<1> DEFINE o == [label |-> work.label, side |-> side, day |-> mem.day, st |-> st,
                 kind |-> kind, first |-> first]
<1>1. o \in Order /\ Len(book) + 1 \in Tickets
  BY OrderTyped
<1>2. o.label = work.label /\ o.day = mem.day /\ o.kind = kind
  OBVIOUS
<1>3. book' = Append(book, o) /\ book \in Seq(Order)
  BY DEF NewOrder, IInv, TypeOK, Order
<1>4. Len(book) \in Nat
  BY <1>3, BookShape
<1> HIDE DEF o
<1> QED BY <1>1, <1>2, <1>3, <1>4, Appended, BookBounds DEF Tickets

LEMMA OwnTicket ==
  ASSUME IInv, Len(book) < MaxTickets
  PROVE  Len(book) + 1 \in Tickets
BY BookShape, BookBounds DEF IInv, TypeOK, Order, Tickets

\* A leg is accepted: the placement under way stays the same one.
LEMMA AcceptKeeps ==
  ASSUME IInv, NEW side \in Sides, NEW kind \in Kind, pc \in Sending \cup Confirming,
         Accept(side, kind)
  PROVE  /\ book' \in Seq(Order) /\ Len(book') = Len(book) + 1 /\ Len(book') <= MaxTickets
         /\ DOMAIN book \subseteq DOMAIN book'
         /\ book'[Len(book')].label = work.label /\ book'[Len(book')].day = mem.day
         /\ book'[Len(book')].kind = kind
         /\ work' \in Placement /\ work'.label = work.label /\ work'.plan = work.plan
         /\ work'.ticket[side] = Len(book')
         /\ \A s \in Sides : work'.got[s] = "ok" => work'.ticket[s] \in Tickets
<1> DEFINE first == IF side = "SELL" /\ work.got.BUY = "ok"
                    THEN work.ticket.BUY ELSE Len(book) + 1
<1>1. Len(book) < MaxTickets /\ Len(book) + 1 \in Tickets
  BY OwnTicket DEF Accept
<1>2. first \in Tickets
  BY <1>1 DEF IInv, WorkOK, Sides
<1>3. book' = NewOrder(side, kind, "pending", first)
  BY DEF Accept
<1> HIDE DEF first
<1>4. "pending" \in OrderStatus /\ work \in Placement
  BY DEF OrderStatus, IInv, WorkOK
<1>5. /\ book' \in Seq(Order) /\ Len(book') = Len(book) + 1 /\ Len(book') <= MaxTickets
      /\ DOMAIN book \subseteq DOMAIN book'
      /\ book'[Len(book')].label = work.label /\ book'[Len(book')].day = mem.day
      /\ book'[Len(book')].kind = kind
  BY <1>1, <1>2, <1>3, <1>4, Issued
<1>6. work' = [work EXCEPT !.got[side] = "ok", !.ticket[side] = Len(book) + 1]
  BY DEF Accept
<1>7. Len(book) + 1 \in 0..MaxTickets
  BY <1>1, BookBounds DEF Tickets
<1>8. work'.got = [work.got EXCEPT ![side] = "ok"]
      /\ work'.ticket = [work.ticket EXCEPT ![side] = Len(book) + 1]
      /\ work'.label = work.label /\ work'.plan = work.plan /\ work'.retry = work.retry
  BY <1>4, <1>6 DEF Placement
<1>9. work' \in Placement
  BY <1>4, <1>6, <1>7 DEF Placement
<1>10. ASSUME NEW s \in Sides, work'.got[s] = "ok" PROVE work'.ticket[s] \in Tickets
  BY <1>1, <1>4, <1>8, <1>10 DEF Placement, IInv, WorkOK
<1>11. work'.ticket[side] = Len(book')
  BY <1>4, <1>5, <1>8 DEF Placement
<1> QED BY <1>5, <1>8, <1>9, <1>10, <1>11

\* A leg is sent; the placement under way stays the same one.
LEMMA SendPreserves ==
  ASSUME IInv, SendLeg
  PROVE  /\ IInv'
         /\ Len(book') > Len(book) =>
              Len(book') = Len(book) + 1 /\ book'[Len(book')].label = work.label
              /\ book'[Len(book')].day = mem.day
<1>1. /\ UNCHANGED <<clock, track, source, snap, slot, paused, mem, disk, history>>
      /\ pc \in {"buy", "sell"} /\ pc' \in {"sell", "resolve"}
  BY DEF SendLeg, NextLeg
<1>2. LegAt \in Sides
  BY DEF LegAt, Sides
<1>3. book \in Seq(Order) /\ Len(book) \in Nat /\ DOMAIN book = 1..Len(book)
      /\ work \in Placement /\ Len(book) <= MaxTickets
  BY BookShape DEF IInv, TypeOK, Order, WorkOK
<1>4. /\ book' \in Seq(Order) /\ Len(book') <= MaxTickets /\ DOMAIN book \subseteq DOMAIN book'
      /\ Len(book') > Len(book) =>
           Len(book') = Len(book) + 1 /\ book'[Len(book')].label = work.label
           /\ book'[Len(book')].day = mem.day
      /\ work' \in Placement /\ work'.label = work.label
      /\ \A s \in Sides : work'.got[s] = "ok" => work'.ticket[s] \in Tickets
  <2>1. CASE Accept(LegAt, "leg")
    <3>1. "leg" \in Kind /\ pc \in Sending
      BY <1>1 DEF Kind, Sending
    <3> QED BY <1>2, <1>3, <2>1, <3>1, AcceptKeeps
  <2>2. ASSUME NEW answer \in {"none", "refused"}, Decline(LegAt, answer)
        PROVE  /\ book' = book /\ work' \in Placement /\ work'.label = work.label
               /\ \A s \in Sides : work'.got[s] = "ok" => work'.ticket[s] \in Tickets
    BY <2>2, <1>2, <1>3 DEF Decline, Placement, IInv, WorkOK
  <2>3. Accept(LegAt, "leg") \/ Decline(LegAt, "none") \/ Decline(LegAt, "refused")
    BY DEF SendLeg
  <2> QED BY <2>1, <2>2, <2>3, <1>3
<1>5. TypeOK'
  BY <1>1, <1>4 DEF IInv, TypeOK, Order, clock, history
<1>6. WorkOK'
  BY <1>1, <1>4 DEF IInv, WorkOK, Sending, Confirming
<1>7. SlotOK' /\ DaysOK' /\ MarksKept'
  BY <1>1, <1>4 DEF IInv, SlotOK, DaysOK, MarksKept, Knows, BeforeDayRoll, Sending, Confirming, clock, history
<1> QED BY <1>1, <1>4, <1>5, <1>6, <1>7 DEF IInv

-----------------------------------------------------------------------------
\* An order nobody knows of: only the book grows.
LEMMA LostPreserves ==
  ASSUME IInv, AnswerLost
  PROVE  /\ IInv'
         /\ Len(book') = Len(book) + 1 /\ pc \in Sending \cup Confirming
         /\ book'[Len(book')].label = work.label /\ book'[Len(book')].day = mem.day
         /\ book'[Len(book')].kind = "stray"
<1>1. UNCHANGED <<clock, pc, track, idleVars, mem, disk, history>>
      /\ pc \in Sending \cup Confirming
  BY DEF AnswerLost, Sending, Confirming
<1>2. PICK side \in Sides : book' = NewOrder(side, "stray", "pending", Len(book) + 1)
  BY DEF AnswerLost, LegAt, Checking, Sides
<1>3. Len(book) < MaxTickets
  <2>1. IsFiniteSet(work.plan)
    <3>1. work.plan \in SUBSET Sides
      BY DEF IInv, WorkOK, Placement
    <3>2. IsFiniteSet(Sides)
      <4>1. IsFiniteSet({"BUY"})
        BY FS_Singleton
      <4>2. IsFiniteSet({"BUY"} \cup {"SELL"})
        BY <4>1, FS_AddElement
      <4>3. Sides = {"BUY"} \cup {"SELL"}
        BY DEF Sides
      <4> QED BY <4>2, <4>3
    <3> QED BY <3>1, <3>2, FS_Subset
  <2>2. Cardinality(work.plan) \in Nat
    BY <2>1, FS_CardinalityType
  <2>3. Len(book) \in Nat /\ MaxTickets \in Nat
    BY BookShape, BookBounds DEF IInv, TypeOK, Order
  <2> QED BY <2>2, <2>3 DEF AnswerLost
<1>4. /\ book' \in Seq(Order) /\ Len(book') = Len(book) + 1 /\ Len(book') <= MaxTickets
      /\ DOMAIN book \subseteq DOMAIN book'
      /\ book'[Len(book')].label = work.label /\ book'[Len(book')].day = mem.day
      /\ book'[Len(book')].kind = "stray"
  <2>1. "pending" \in OrderStatus /\ "stray" \in Kind
    BY DEF OrderStatus, Kind
  <2> QED BY <1>1, <1>2, <1>3, <2>1, OwnTicket, Issued
<1>5. TypeOK'
  BY <1>1, <1>4 DEF IInv, TypeOK, Order, clock, idleVars, history
<1>6. WorkOK' /\ SlotOK' /\ DaysOK' /\ MarksKept'
  <2>1. Checking' = Checking
    BY <1>1 DEF Checking, idleVars
  <2>2. WorkOK'
    BY <1>1, <1>4, <2>1 DEF IInv, WorkOK, idleVars
  <2>3. SlotOK' /\ DaysOK' /\ MarksKept'
    BY <1>1 DEF IInv, SlotOK, DaysOK, MarksKept, Knows, clock, idleVars, history
  <2> QED BY <2>2, <2>3
<1> QED BY <1>1, <1>4, <1>5, <1>6, <1>1 DEF IInv

\* The outcomes of a placement: marked, recorded, recovered or given up.
LEMMA SkipPreserves ==
  ASSUME IInv, SkipLeg
  PROVE  IInv'
<1>1. /\ UNCHANGED <<book, clock, track, idleVars, mem, disk, history>>
      /\ pc \in {"buy", "sell"} /\ pc' \in {"sell", "resolve"}
  BY DEF SkipLeg, NextLeg
<1>2. TypeOK'
  BY <1>1 DEF IInv, TypeOK, clock, idleVars, history
<1> QED BY <1>1, <1>2
  DEF IInv, WorkOK, SlotOK, DaysOK, MarksKept, Knows, BeforeDayRoll, Sending, Confirming, clock, idleVars, history

\* Marking an anchor in memory keeps every mark known, the new one included.
LEMMA MarkIsKnown ==
  ASSUME IInv, pc \in Sending, NEW state, state.day = mem.day,
         work.label \in state.placed, mem.placed \subseteq state.placed,
         marked' = marked \cup {<<work.label, mem.day>>}
  PROVE  \A m \in marked' : m[2] < state.day \/ (m[2] = state.day /\ m[1] \in state.placed)
<1>1. \A m \in marked : m[2] < mem.day \/ (m[2] = mem.day /\ m[1] \in mem.placed)
  BY DEF IInv, MarksKept, Knows, Sending, Confirming
<1>2. ASSUME NEW m \in marked'
      PROVE  m[2] < state.day \/ (m[2] = state.day /\ m[1] \in state.placed)
  <2>1. CASE m \in marked
    BY <1>1, <2>1
  <2>2. CASE m = <<work.label, mem.day>>
    BY <2>2
  <2> QED BY <2>1, <2>2, <1>2
<1> QED BY <1>2

LEMMA MarkPreserves ==
  ASSUME IInv, PlacementMarked
  PROVE  IInv'
<1>1. /\ UNCHANGED <<book, clock, track, idleVars, dropped>>
      /\ pc = "resolve" /\ pc' = "record"
      /\ marked' = marked \cup {<<work.label, mem.day>>}
      /\ mem' = [mem EXCEPT !.placed = @ \cup {work.label}]
      /\ IF mem' # mem THEN disk' = [state |-> mem', track |-> track] ELSE UNCHANGED disk
  BY DEF PlacementMarked, MarkPlaced, Save
<1>2. work.label \in Labels /\ work.label \notin mem.placed /\ slot = NoSlot
      /\ mem.day \in 1..MaxDays /\ mem \in State
  <2>1. mem \in State /\ mem.day \in 0..MaxDays /\ MaxDays \in Nat
    BY BookBounds DEF IInv, TypeOK, State
  <2>2. 1 <= mem.day
    BY <1>1 DEF IInv, DaysOK, BeforeDayRoll
  <2> QED BY <1>1, <2>1, <2>2 DEF IInv, WorkOK, MarksKept, Sending, Confirming
<1>3. mem' \in State /\ mem'.day = mem.day /\ mem'.placed = mem.placed \cup {work.label}
  BY <1>1, <1>2 DEF State
<1>4. disk' = [state |-> mem', track |-> track]
  BY <1>1, <1>2, <1>3
<1>5. disk' \in [state : State, track : Track] /\ disk'.state = mem'
  BY <1>3, <1>4 DEF IInv, TypeOK
<1>6. Knows(mem)' /\ Knows(disk.state)'
  BY <1>1, <1>3, <1>5, MarkIsKnown DEF Knows, Sending, Confirming
<1>7. TypeOK'
  BY <1>1, <1>2, <1>3, <1>5 DEF IInv, TypeOK, clock, idleVars
<1>8. WorkOK' /\ SlotOK'
  BY <1>1, <1>2 DEF IInv, WorkOK, SlotOK, Sending, Confirming, idleVars
<1>9. DaysOK' /\ MarksKept'
  BY <1>1, <1>2, <1>3, <1>5, <1>6 DEF IInv, DaysOK, MarksKept, BeforeDayRoll, Sending, Confirming, clock, idleVars
<1> QED BY <1>5, <1>7, <1>8, <1>9 DEF IInv

LEMMA RecordPreserves ==
  ASSUME IInv, RecordPendings
  PROVE  IInv'
<1>1. /\ UNCHANGED <<book, clock, source, snap, slot, paused, mem, disk, history>>
      /\ pc = "record"
      /\ \/ pc' = "trails" /\ work' = NoWork
         \/ /\ pc' = "confirm" /\ work.label \in Confirmed
            /\ work' = [work EXCEPT !.got = NoWork.got]
      /\ track' = [t \in Tickets |->
           IF \E s \in work.plan : work.ticket[s] = t THEN "pend" ELSE track[t]]
  BY DEF RecordPendings
<1>2. track' \in Track
  BY <1>1 DEF IInv, TypeOK, Track
<1>3. TypeOK'
  BY <1>1, <1>2 DEF IInv, TypeOK, clock, history
<1>4. WorkOK' /\ SlotOK'
  <2>1. NoWork.got = [s \in Sides |-> "none"] /\ NoWork.label = "none"
    BY DEF NoWork
  <2>2. CASE pc' = "confirm" /\ work.label \in Confirmed /\ work' = [work EXCEPT !.got = NoWork.got]
    <3>1. work \in Placement /\ work.label \in Labels /\ slot = NoSlot
      BY <1>1 DEF IInv, WorkOK
    <3>2. work' \in Placement /\ work'.got = NoWork.got /\ work'.label = work.label
      BY <2>1, <2>2, <3>1 DEF Placement
    <3> QED BY <1>1, <2>1, <2>2, <3>1, <3>2 DEF IInv, WorkOK, SlotOK
  <2>3. CASE pc' = "trails" /\ work' = NoWork
    BY <1>1, <2>1, <2>3, NoSlotTyped DEF IInv, WorkOK, SlotOK, Sending, Confirming
  <2> QED BY <1>1, <2>2, <2>3
<1>5. DaysOK' /\ MarksKept'
  BY <1>1 DEF IInv, DaysOK, MarksKept, Knows, BeforeDayRoll, Sending, Confirming, clock, history
<1> QED BY <1>1, <1>3, <1>4, <1>5 DEF IInv

\* The confirmation looks at the legs one by one.
LEMMA ConfirmPreserves ==
  ASSUME IInv, ConfirmSeen \/ ConfirmRecord \/ ConfirmDone
  PROVE  IInv' /\ book' = book
<1>1. /\ UNCHANGED <<book, clock, source, snap, slot, paused, mem, disk, marked>>
      /\ pc \in Confirming
  BY DEF ConfirmSeen, ConfirmRecord, ConfirmDone, Confirming, history
<1>2. work \in Placement /\ work.label \in Labels /\ work.label \in Confirmed /\ slot = NoSlot
      /\ Checking \in Sides
  BY <1>1 DEF IInv, WorkOK, Checking, Sides
<1>3. track' \in Track /\ dropped' \subseteq DOMAIN book
  <2>1. CASE ConfirmSeen \/ ConfirmDone
    BY <2>1 DEF ConfirmSeen, ConfirmDone, IInv, TypeOK, history
  <2>2. CASE ConfirmRecord
    <3>1. work.ticket[Checking] \in DOMAIN book
      BY <2>2 DEF ConfirmRecord, IInv, WorkOK
    <3>2. track' = track \/ track' = [track EXCEPT ![work.ticket[Checking]] = "pend"]
      BY <2>2 DEF ConfirmRecord
    <3>3. dropped' = dropped \/ dropped' = dropped \cup {work.ticket[Checking]}
      BY <2>2 DEF ConfirmRecord
    <3>4. track \in Track /\ dropped \subseteq DOMAIN book
      BY DEF IInv, TypeOK
    <3> QED BY <3>1, <3>2, <3>3, <3>4 DEF Track
  <2> QED BY <2>1, <2>2
<1>4. WorkOK' /\ SlotOK'
  <2>1. CASE ConfirmDone
    BY <1>1, <2>1, NoSlotTyped DEF ConfirmDone, IInv, WorkOK, SlotOK, NoWork, Sending, Confirming
  <2>2. CASE ConfirmSeen
    BY <1>1, <1>2, <2>2 DEF ConfirmSeen, IInv, WorkOK, SlotOK, Placement
  <2>3. CASE ConfirmRecord
    <3>1. work' = [work EXCEPT !.plan = @ \ {Checking}, !.got = NoWork.got] /\ pc' = "confirm"
      BY <2>3 DEF ConfirmRecord
    <3>2. NoWork.got = [s \in Sides |-> "none"]
      BY DEF NoWork
    <3>3. work' \in Placement /\ work'.got = NoWork.got /\ work'.label = work.label
      BY <1>2, <3>1, <3>2 DEF Placement
    <3> QED BY <1>1, <1>2, <3>1, <3>2, <3>3 DEF IInv, WorkOK, SlotOK
  <2> QED BY <2>1, <2>2, <2>3
<1>5. pc' \in {"confirm", "confirmed", "trails"} /\ paused' \in BOOLEAN
  BY <1>1 DEF ConfirmSeen, ConfirmRecord, ConfirmDone, IInv, TypeOK, Confirming
<1>6. TypeOK'
  BY <1>1, <1>3, <1>5 DEF IInv, TypeOK, clock
<1>7. DaysOK' /\ MarksKept'
  BY <1>1, <1>5 DEF IInv, DaysOK, MarksKept, Knows, BeforeDayRoll, Sending, Confirming, clock
<1> QED BY <1>1, <1>4, <1>6, <1>7 DEF IInv

LEMMA ResendPreserves ==
  ASSUME IInv, ConfirmResend
  PROVE  /\ IInv'
         /\ Len(book') = Len(book) + 1 /\ pc \in Confirming
         /\ book'[Len(book')].label = work.label /\ book'[Len(book')].day = mem.day
         /\ book'[Len(book')].kind = "again"
<1>1. /\ UNCHANGED <<clock, track, source, snap, slot, paused, mem, disk, history>>
      /\ pc = "confirm" /\ pc' = "confirmed" /\ Accept(Checking, "again")
  BY DEF ConfirmResend
<1>2. Checking \in Sides /\ "again" \in Kind /\ pc \in Confirming
  BY <1>1 DEF Checking, Sides, Kind, Confirming
<1>3. /\ book' \in Seq(Order) /\ Len(book') = Len(book) + 1 /\ Len(book') <= MaxTickets
      /\ DOMAIN book \subseteq DOMAIN book'
      /\ book'[Len(book')].label = work.label /\ book'[Len(book')].day = mem.day
      /\ book'[Len(book')].kind = "again"
      /\ work' \in Placement /\ work'.label = work.label
      /\ \A s \in Sides : work'.got[s] = "ok" => work'.ticket[s] \in Tickets
  BY <1>1, <1>2, AcceptKeeps
<1>4. TypeOK'
  BY <1>1, <1>3 DEF IInv, TypeOK, Order, clock, history
<1>7. work'.ticket[Checking'] \in DOMAIN book'
  <2>1. Checking' = Checking /\ work'.ticket[Checking] = Len(book')
    BY <1>1, <1>2, AcceptKeeps DEF Checking
  <2>2. Len(book') \in 1..Len(book')
    BY <1>3, BookShape DEF IInv, TypeOK, Order
  <2>3. DOMAIN book' = 1..Len(book')
    BY <1>3, LenProperties
  <2> QED BY <2>1, <2>2, <2>3
<1>5. WorkOK' /\ SlotOK'
  BY <1>1, <1>2, <1>3, <1>7 DEF IInv, WorkOK, SlotOK
<1>6. DaysOK' /\ MarksKept'
  BY <1>1, <1>3 DEF IInv, DaysOK, MarksKept, Knows, BeforeDayRoll, Sending, Confirming, clock, history
<1> QED BY <1>1, <1>2, <1>3, <1>4, <1>5, <1>6 DEF IInv

\* What a placement leaves behind: cancelled, or lost sight of.
LEMMA OrphansPreserve ==
  ASSUME IInv, OrphansCancel
  PROVE  IInv' /\ Len(book') = Len(book)
<1>1. /\ UNCHANGED <<clock, track, idleVars, mem, disk, history>>
      /\ pc = "resolve" /\ pc' = "recover"
  BY DEF OrphansCancel
<1>2. PICK kept : book' = [t \in DOMAIN book |->
        IF t \in Accepted \ kept THEN [book[t] EXCEPT !.st = "cancelled"]
        ELSE IF t \in kept THEN [book[t] EXCEPT !.kind = "stray"] ELSE book[t]]
  BY DEF OrphansCancel
<1>3. book \in Seq(Order) /\ \A t \in DOMAIN book : book[t] \in Order
  BY BookShape DEF IInv, TypeOK, Order
<1>4. book' \in [DOMAIN book -> Order]
  BY <1>2, <1>3, StatusKeepsOrder, KindKeepsOrder DEF OrderStatus, Kind
<1>5. book' \in Seq(Order) /\ Len(book') = Len(book) /\ DOMAIN book' = DOMAIN book
  BY <1>3, <1>4, BookIsAgain
<1>6. TypeOK'
  BY <1>1, <1>5 DEF IInv, TypeOK, Order, clock, idleVars, history
<1> QED BY <1>1, <1>5, <1>6
  DEF IInv, WorkOK, SlotOK, DaysOK, MarksKept, Knows, BeforeDayRoll, Sending, Confirming, clock, idleVars, history

LEMMA BreakoutPreserves ==
  ASSUME IInv, NEW side \in Sides, BreakoutRecovered(side)
  PROVE  /\ IInv'
         /\ Len(book') = Len(book) + 1
         /\ book'[Len(book')].label = work.label /\ book'[Len(book')].day = mem.day
<1>1. /\ UNCHANGED <<clock, source, snap, slot, paused, dropped>>
      /\ pc = "recover" /\ pc' = "trails" /\ work' = NoWork
      /\ Len(book) < MaxTickets
      /\ book' = NewOrder(side, "leg", "open", Len(book) + 1)
      /\ track' = [track EXCEPT ![Len(book) + 1] = "normal"]
      /\ marked' = marked \cup {<<work.label, mem.day>>}
      /\ mem' = [mem EXCEPT !.placed = @ \cup {work.label}]
      /\ disk' = [state |-> mem', track |-> track']
  BY DEF BreakoutRecovered, Save
<1>2. Len(book) + 1 \in Tickets /\ pc \in Sending
  BY <1>1, OwnTicket DEF Sending
<1>4. /\ book' \in Seq(Order) /\ Len(book') = Len(book) + 1
      /\ book'[Len(book')].label = work.label /\ book'[Len(book')].day = mem.day
      /\ DOMAIN book \subseteq DOMAIN book' /\ Len(book') <= MaxTickets
  <2>1. "open" \in OrderStatus /\ "leg" \in Kind
    BY DEF OrderStatus, Kind
  <2> QED BY <1>1, <1>2, <2>1, Issued
<1>5. track' \in Track
  BY <1>1, <1>2 DEF IInv, TypeOK, Track
<1>6. work.label \in Labels /\ slot = NoSlot /\ mem.day \in 1..MaxDays /\ mem \in State
  <2>1. mem \in State /\ mem.day \in 0..MaxDays /\ MaxDays \in Nat
    BY BookBounds DEF IInv, TypeOK, State
  <2>2. 1 <= mem.day
    BY <1>1 DEF IInv, DaysOK, BeforeDayRoll
  <2> QED BY <1>1, <2>1, <2>2 DEF IInv, WorkOK, Sending
<1>7. mem' \in State /\ mem'.day = mem.day /\ mem'.placed = mem.placed \cup {work.label}
  BY <1>1, <1>6 DEF State
<1>8. disk' \in [state : State, track : Track] /\ disk'.state = mem'
  BY <1>1, <1>5, <1>7
<1>9. Knows(mem)' /\ Knows(disk.state)'
  BY <1>1, <1>7, <1>8, MarkIsKnown DEF Knows, Sending, Confirming
<1>10. TypeOK'
  BY <1>1, <1>4, <1>5, <1>6, <1>7, <1>8 DEF IInv, TypeOK, Order, clock
<1>11. WorkOK' /\ SlotOK'
  BY <1>1, <1>6, NoSlotTyped DEF WorkOK, SlotOK, NoWork, Sending, Confirming
<1>12. DaysOK' /\ MarksKept'
  BY <1>1, <1>6, <1>7, <1>8, <1>9 DEF IInv, DaysOK, MarksKept, BeforeDayRoll, Sending, Confirming, clock
<1> QED BY <1>4, <1>8, <1>10, <1>11, <1>12 DEF IInv

LEMMA RecoveryLostPreserves ==
  ASSUME IInv, NEW side \in Sides, RecoveryLost(side)
  PROVE  /\ IInv'
         /\ Len(book') = Len(book) + 1 /\ pc \in Sending
         /\ book'[Len(book')].label = work.label /\ book'[Len(book')].day = mem.day
         /\ book'[Len(book')].kind = "stray"
<1>1. /\ UNCHANGED <<clock, track, source, snap, slot, paused, mem, disk, history>>
      /\ pc = "recover" /\ pc' = "trails" /\ work' = NoWork
      /\ Len(book) < MaxTickets
      /\ book' = NewOrder(side, "stray", "open", Len(book) + 1)
  BY DEF RecoveryLost
<1>2. Len(book) + 1 \in Tickets /\ pc \in Sending
  BY <1>1, OwnTicket DEF Sending
<1>3. /\ book' \in Seq(Order) /\ Len(book') = Len(book) + 1
      /\ book'[Len(book')].label = work.label /\ book'[Len(book')].day = mem.day
      /\ book'[Len(book')].kind = "stray"
      /\ DOMAIN book \subseteq DOMAIN book' /\ Len(book') <= MaxTickets
  <2>1. "open" \in OrderStatus /\ "stray" \in Kind
    BY DEF OrderStatus, Kind
  <2> QED BY <1>1, <1>2, <2>1, Issued
<1>4. TypeOK'
  BY <1>1, <1>3 DEF IInv, TypeOK, Order, clock, history
<1>5. WorkOK' /\ SlotOK'
  BY <1>1, NoSlotTyped DEF IInv, WorkOK, SlotOK, NoWork, Sending, Confirming
<1>6. DaysOK' /\ MarksKept'
  BY <1>1 DEF IInv, DaysOK, MarksKept, Knows, BeforeDayRoll, Sending, Confirming, clock, history
<1> QED BY <1>1, <1>2, <1>3, <1>4, <1>5, <1>6 DEF IInv

LEMMA GiveUpPreserves ==
  ASSUME IInv, PlacementGivenUp
  PROVE  IInv' /\ Len(book') = Len(book)
<1>1. /\ UNCHANGED <<book, clock, track, source, snap, paused, mem, disk, history>>
      /\ pc = "recover" /\ pc' = "trails" /\ work' = NoWork
      /\ slot' = IF MayRetry THEN [label |-> work.label, retry |-> work.retry + 1] ELSE slot
  BY DEF PlacementGivenUp
<1>2. book' \in Seq(Order) /\ Len(book') = Len(book) /\ DOMAIN book' = DOMAIN book
  BY <1>1 DEF IInv, TypeOK, Order
<1>3. work.label \in Labels /\ work.label \notin mem.placed /\ slot = NoSlot
      /\ work.retry \in 0..MaxRetries
  BY <1>1 DEF IInv, WorkOK, MarksKept, Sending, Confirming, Placement
<1>4. slot' = NoSlot \/ (slot' \in Slot /\ slot'.label = work.label)
  BY <1>1, <1>3, BookBounds DEF MayRetry, Slot
<1>5. SlotOK' /\ (slot' # NoSlot => slot'.label \notin mem.placed)
  BY <1>1, <1>3, <1>4, NoSlotTyped DEF SlotOK
<1>6. TypeOK'
  BY <1>1, <1>2, <1>5 DEF IInv, TypeOK, Order, SlotOK, Slot, clock, history
<1>7. WorkOK'
  BY <1>1, NoSlotTyped DEF WorkOK, NoWork, Sending, Confirming
<1>8. DaysOK' /\ MarksKept'
  BY <1>1, <1>5 DEF IInv, DaysOK, MarksKept, Knows, BeforeDayRoll, Sending, Confirming, clock, history
<1> QED BY <1>1, <1>2, <1>5, <1>6, <1>7, <1>8 DEF IInv

LEMMA TrailsPreserve ==
  ASSUME IInv, Trails
  PROVE  IInv'
<1>1. /\ UNCHANGED <<book, clock, track, idleVars, mem, history>>
      /\ pc = "trails" /\ pc' = "idle"
      /\ disk' = disk \/ disk' = [state |-> mem, track |-> track]
  BY DEF Trails, Save
<1>2. disk' \in [state : State, track : Track] /\ (disk'.state = disk.state \/ disk'.state = mem)
  BY <1>1 DEF IInv, TypeOK
<1>3. TypeOK'
  BY <1>1, <1>2 DEF IInv, TypeOK, clock, idleVars, history
<1>4. WorkOK' /\ SlotOK'
  BY <1>1 DEF IInv, WorkOK, SlotOK, Sending, Confirming, idleVars
<1>5. DaysOK' /\ MarksKept'
  BY <1>1, <1>2 DEF IInv, DaysOK, MarksKept, Knows, BeforeDayRoll, Sending, Confirming, clock, idleVars, history
<1> QED BY <1>2, <1>3, <1>4, <1>5 DEF IInv

-----------------------------------------------------------------------------
\* A crash forgets the memory, a restart reads the file, which knows the marks.
LEMMA CrashPreserves ==
  ASSUME IInv, Crash
  PROVE  IInv' /\ Len(book') = Len(book)
<1>1. /\ UNCHANGED <<clock, disk, history>>
      /\ pc' = "down" /\ track' = NoTrack /\ source' = NoTrack /\ snap' = {}
      /\ slot' = NoSlot /\ work' = NoWork /\ paused' = FALSE /\ mem' = FreshState
  BY DEF Crash
<1>2. FreshState \in State /\ FreshState.day = 0 /\ NoTrack \in Track
  BY BookBounds DEF FreshState, State, NoTrack, Track
<1>3. today \in Nat
  BY BookBounds DEF IInv, TypeOK
<1>4. paused' \in BOOLEAN /\ snap' \subseteq DOMAIN book'
  BY <1>1
<1>8. book' \in Seq(Order) /\ Len(book') = Len(book) /\ DOMAIN book' = DOMAIN book
  <2>1. PICK lost : book' = [t \in DOMAIN book |->
          IF t \in lost THEN [book[t] EXCEPT !.kind = "stray"] ELSE book[t]]
    BY DEF Crash, Astray
  <2>2. book \in Seq(Order) /\ \A t \in DOMAIN book : book[t] \in Order
    BY BookShape DEF IInv, TypeOK, Order
  <2>3. book' \in [DOMAIN book -> Order]
    BY <2>1, <2>2, KindKeepsOrder DEF Kind
  <2> QED BY <2>2, <2>3, BookIsAgain
<1>5. TypeOK'
  BY <1>1, <1>2, <1>4, <1>8, NoSlotTyped DEF IInv, TypeOK, Order, Slot, clock, history
<1>6. WorkOK' /\ SlotOK'
  BY <1>1, NoSlotTyped DEF WorkOK, SlotOK, NoWork, Sending, Confirming
<1>7. DaysOK' /\ MarksKept'
  BY <1>1, <1>2, <1>3 DEF IInv, DaysOK, MarksKept, Knows, BeforeDayRoll, Sending, Confirming, clock, history
<1> QED BY <1>1, <1>5, <1>6, <1>7, <1>8 DEF IInv

LEMMA RestartPreserves ==
  ASSUME IInv, Restart
  PROVE  IInv'
<1>1. /\ UNCHANGED <<book, clock, track, snap, slot, work, paused, disk, history>>
      /\ pc = "down" /\ pc' = "idle" /\ mem' = disk.state /\ source' = disk.track
  BY DEF Restart
<1>2. mem' \in State /\ source' \in Track
  BY <1>1 DEF IInv, TypeOK
<1>3. TypeOK'
  BY <1>1, <1>2 DEF IInv, TypeOK, clock, history
<1>4. WorkOK' /\ SlotOK'
  BY <1>1 DEF IInv, WorkOK, SlotOK, Sending, Confirming
<1>5. DaysOK'
  BY <1>1 DEF IInv, DaysOK, BeforeDayRoll, clock
<1>6. MarksKept'
  BY <1>1 DEF IInv, SlotOK, MarksKept, Knows, Sending, Confirming, history
<1> QED BY <1>1, <1>3, <1>4, <1>5, <1>6 DEF IInv

-----------------------------------------------------------------------------
LEMMA StutterPreserves ==
  ASSUME IInv, UNCHANGED vars
  PROVE  IInv'
BY DEF IInv, TypeOK, WorkOK, Checking, SlotOK, DaysOK, MarksKept, Knows, vars, clock, idleVars, history

\* One step of the bot's loop.
LEMMA TickPreserves ==
  ASSUME IInv, Tick
  PROVE  IInv'
<1>1. CASE TickBegins \/ Pause(TRUE) \/ Pause(FALSE) \/ FlattenCommand
  BY <1>1, TopPreserves
<1>2. CASE ClosePositions
  BY <1>2, ClosePreserves
<1>3. CASE CancelPendings
  BY <1>3, CancelPreserves
<1>4. CASE ReadPositions \/ Reconcile
  BY <1>4, ReconcilePreserves
<1>5. CASE KillCheck \/ EodCheck \/ AnchorsPaused \/ NotReady
  BY <1>5, GatePreserves
<1>6. CASE Anchors
  BY <1>6, AnchorsPreserve
<1>7. CASE SlotLost
  BY <1>7, SlotLostPreserves
<1>8. CASE Place
  <2>1. CASE \E plan \in {Sides, {"BUY"}, {"SELL"}} : StartPlacing(plan)
    <3>1. PICK plan \in {Sides, {"BUY"}, {"SELL"}} : StartPlacing(plan)
      BY <2>1
    <3>2. plan \in SUBSET Sides
      BY <3>1 DEF Sides
    <3> QED BY <3>1, <3>2, StartPreserves
  <2>2. CASE SendLeg
    BY <2>2, SendPreserves
  <2>3. CASE SkipLeg
    BY <2>3, SkipPreserves
  <2>4. CASE PlacementMarked
    BY <2>4, MarkPreserves
  <2>5. CASE RecordPendings
    BY <2>5, RecordPreserves
  <2>6. CASE \E s \in Sides : BreakoutRecovered(s) \/ RecoveryLost(s)
    BY <2>6, BreakoutPreserves, RecoveryLostPreserves
  <2>7. CASE PlacementGivenUp
    BY <2>7, GiveUpPreserves
  <2>8. CASE AnswerLost
    BY <2>8, LostPreserves
  <2>9. CASE ConfirmSeen \/ ConfirmRecord \/ ConfirmDone
    BY <2>9, ConfirmPreserves
  <2>10. CASE ConfirmResend
    BY <2>10, ResendPreserves
  <2>11. CASE OrphansCancel
    BY <2>11, OrphansPreserve
  <2> QED BY <1>8, <2>1, <2>2, <2>3, <2>4, <2>5, <2>6, <2>7, <2>8, <2>9, <2>10, <2>11 DEF Place
<1>9. CASE Trails
  BY <1>9, TrailsPreserve
<1> QED BY <1>1, <1>2, <1>3, <1>4, <1>5, <1>6, <1>7, <1>8, <1>9 DEF Tick

LEMMA StepPreserves == IInv /\ [Next]_vars => IInv'
<1> SUFFICES ASSUME IInv, [Next]_vars PROVE IInv'
  OBVIOUS
<1>1. CASE Broker
  BY <1>1, BrokerPreserves DEF Broker
<1>2. CASE TimePasses
  BY <1>2, ClockPreserves
<1>3. CASE Tick
  BY <1>3, TickPreserves
<1>4. CASE Crash
  BY <1>4, CrashPreserves
<1>5. CASE Restart
  BY <1>5, RestartPreserves
<1>6. CASE UNCHANGED vars
  BY <1>6, StutterPreserves
<1> QED BY <1>1, <1>2, <1>3, <1>4, <1>5, <1>6 DEF Next

THEOREM Invariance == Spec => []IInv
BY InitEstablishes, StepPreserves, PTL DEF Spec

\* The type invariant of the anchor engine, with every fault.
THEOREM BookTypeCorrect == Spec => []TypeOK
BY Invariance, PTL DEF IInv

-----------------------------------------------------------------------------
\* Only two steps add to the book, and both add an order of the placement under
\* way; all others keep its length.
LEMMA OnlyPlacementsGrow ==
  ASSUME IInv, [Next]_vars, Len(book') > Len(book)
  PROVE  /\ pc \in Sending \cup Confirming
         /\ pc \in Confirming => book'[Len(book')].kind # "leg"
         /\ book'[Len(book')].label = work.label /\ book'[Len(book')].day = mem.day
<1>1. Len(book) \in Nat
  BY BookShape DEF IInv, TypeOK, Order
<1>2. ~Broker /\ ~Crash
  BY <1>1, BrokerPreserves, CrashPreserves DEF Broker
<1>3. ~UNCHANGED book
  BY <1>1
<1>4. ~ClosePositions /\ ~CancelPendings /\ ~PlacementGivenUp /\ ~OrphansCancel
      /\ ~ConfirmSeen /\ ~ConfirmRecord /\ ~ConfirmDone
  BY <1>1, <1>3, ClosePreserves, CancelPreserves, GiveUpPreserves, OrphansPreserve, ConfirmPreserves
<1>5. ASSUME NEW plan \in {Sides, {"BUY"}, {"SELL"}} PROVE ~StartPlacing(plan)
  <2>1. plan \in SUBSET Sides
    BY DEF Sides
  <2> QED BY <1>1, <2>1, StartPreserves
<1>6. SendLeg \/ AnswerLost \/ ConfirmResend
      \/ \E s \in Sides : BreakoutRecovered(s) \/ RecoveryLost(s)
  BY <1>2, <1>3, <1>4, <1>5
     DEF Next, Tick, Place, TimePasses, Restart, TickBegins, Pause, FlattenCommand,
         ReadPositions, Reconcile, KillCheck, EodCheck, AnchorsPaused, Anchors, NotReady,
         SlotLost, SkipLeg, PlacementMarked, RecordPendings, Trails, vars
<1>7. CASE SendLeg
  <2>1. pc \in Sending /\ pc \notin Confirming
    BY <1>7 DEF SendLeg, Sending, Confirming
  <2> QED BY <1>7, <2>1, SendPreserves
<1>8. CASE \E s \in Sides : BreakoutRecovered(s)
  <2>1. pc \in Sending /\ pc \notin Confirming
    BY <1>8 DEF BreakoutRecovered, Sending, Confirming
  <2> QED BY <1>8, <2>1, BreakoutPreserves
<1>9. CASE AnswerLost \/ ConfirmResend \/ \E s \in Sides : RecoveryLost(s)
  BY <1>9, LostPreserves, ResendPreserves, RecoveryLostPreserves
<1> QED BY <1>6, <1>7, <1>8, <1>9

\* _mark_anchor_placed ("guarantees one placement per anchor per day even with
\* late-retry"): once marked, no retry, no day roll, no flatten, no failed query
\* and no crash and restart lets another order of that anchor be accepted, but for
\* what the confirmation of that placement sends again.
THEOREM MarkSurvives == Spec => MarkedStaysPlaced
<1> DEFINE Marks == LET new == book'[Len(book')] IN
      <<new.label, new.day>> \in marked => new.label \in Confirmed /\ new.kind # "leg"
<1>1. ASSUME IInv, [Next]_vars, Len(book') > Len(book)
      PROVE  Marks
  <2>1. pc \in Sending \cup Confirming /\ book'[Len(book')].label = work.label
        /\ book'[Len(book')].day = mem.day
        /\ (pc \in Confirming => book'[Len(book')].kind # "leg")
    BY <1>1, OnlyPlacementsGrow
  <2>2. CASE pc \in Confirming
    BY <1>1, <2>1, <2>2 DEF IInv, WorkOK
  <2>3. CASE pc \in Sending
    <3>1. work.label \notin mem.placed /\ Knows(mem)
      BY <1>1, <2>3 DEF IInv, MarksKept, Sending
    <3>2. mem.day \in Nat
      BY <1>1, BookBounds DEF IInv, TypeOK, State
    <3>3. <<work.label, mem.day>> \notin marked
      BY <3>1, <3>2 DEF Knows
    <3> QED BY <2>1, <3>3
  <2> QED BY <2>1, <2>2, <2>3
<1> HIDE DEF Marks
<1>2. IInv /\ [Next]_vars => [Len(book') > Len(book) => Marks]_vars
  BY <1>1
<1>3. Spec => [][Len(book') > Len(book) => Marks]_vars
  BY <1>2, Invariance, PTL DEF Spec
<1> QED BY <1>3 DEF MarkedStaysPlaced, Marks

-----------------------------------------------------------------------------
\* The four safety invariants of the book rest on what a placement under way
\* holds, on which orders are twins, and on what a record may say of them.
Working == {"buy", "sell", "resolve", "record"}

\* The orders of the placement under way.
Under == {t \in Tickets :
            pc \in Working /\ \E s \in Sides : work.got[s] = "ok" /\ work.ticket[s] = t}

\* An accepted leg of it: in the book, not cancelled, and not yet in the record.
IsLegOf(t, s) ==
  /\ t \in DOMAIN book
  /\ book[t].label = work.label /\ book[t].side = s /\ book[t].day = mem.day
  /\ book[t].st # "cancelled"
  /\ track[t] = "no"

\* The answers so far.
PlacementOK ==
  pc \in Working =>
    /\ \A s \in Sides :
         /\ work.got[s] # "none" => s \in work.plan
         /\ work.got[s] # "ok" => work.ticket[s] = 0
         /\ work.got[s] = "ok" => IsLegOf(work.ticket[s], s)
    /\ pc = "buy" => \A s \in Sides : work.got[s] = "none"
    /\ pc = "sell" => work.got["SELL"] = "none"
    /\ pc = "record" => BothPlaced

\* Twins (`first`) are of one anchor and one placement.
TwinsOK ==
  /\ \A t \in DOMAIN book : book[t].first <= t
  /\ \A s, t \in DOMAIN book :
       book[s].first = book[t].first
         => book[s].label = book[t].label /\ (s \in Under <=> t \in Under)
  /\ pc \in Working /\ work.got["BUY"] = "ok"
       => book[work.ticket["BUY"]].first = work.ticket["BUY"]
  /\ pc = "confirmed" =>
       \A s \in DOMAIN book : s # work.ticket[Checking]
         => book[s].first # book[work.ticket[Checking]].first

\* A record of the bot (memory or file) that names orders of the book, and once
\* one twin is "normal" knows that the other is the second.
Sound(tr) ==
  /\ \A t \in Tickets : tr[t] # "no" => t \in DOMAIN book /\ t \notin Under
  /\ \A s, t \in DOMAIN book :
       Sibling(s, t) /\ tr[s] = "normal" => tr[t] \in {"no", "flag", "rescue"}

Rehydrating == {"idle", "flattenCommand", "cancelCommand", "positions", "reconcile"}

TracksOK ==
  /\ Sound(track) /\ Sound(source) /\ Sound(disk.track)
  /\ source # NoTrack => track = NoTrack /\ pc \in Rehydrating
  /\ pc = "down" => track = NoTrack

RealOK ==
  /\ TrackedIsReal
  /\ pc \in {"reconcile", "kill"} => \A t \in snap : book[t].st \in {"open", "closed"}

-----------------------------------------------------------------------------
\* What a step does to the book: stages and kinds change, nothing else of an order.
SameOrders ==
  /\ DOMAIN book' = DOMAIN book
  /\ \A t \in DOMAIN book : /\ book'[t].label = book[t].label /\ book'[t].side = book[t].side
                            /\ book'[t].day = book[t].day /\ book'[t].first = book[t].first

Moved(S, from, to) ==
  \A t \in DOMAIN book :
    /\ book'[t].st = IF t \in S /\ book[t].st = from THEN to ELSE book[t].st
    /\ book'[t].kind = book[t].kind

\* A step that neither sends nor cancels nor reads.
Quiet ==
  /\ UNCHANGED <<book, track, source, work, history>>
  /\ disk'.track \in {disk.track, track}
  /\ \/ UNCHANGED <<pc, snap, mem>>
     \/ /\ {pc, pc'} \cap (Working \cup Confirming) = {}
        /\ pc' \notin {"reconcile", "kill", "down"}
        /\ pc \in Rehydrating => pc' \in Rehydrating

\* Writing one status into some orders of the book moves those orders.
LEMMA MovedBy ==
  ASSUME book \in Seq(Order), NEW S, NEW from \in OrderStatus, NEW to \in OrderStatus,
         book' = [t \in DOMAIN book |->
                    IF t \in S /\ book[t].st = from THEN [book[t] EXCEPT !.st = to] ELSE book[t]]
  PROVE  SameOrders /\ Moved(S, from, to)
<1>1. \A t \in DOMAIN book : book[t] \in Order
  BY BookShape
<1>2. \A t \in DOMAIN book :
        book'[t] = IF t \in S /\ book[t].st = from THEN [book[t] EXCEPT !.st = to] ELSE book[t]
  OBVIOUS
<1>3. DOMAIN book' = DOMAIN book
  OBVIOUS
<1> QED BY <1>1, <1>2, <1>3 DEF SameOrders, Moved, Order

\* How the broker, the flatten, the sweep and a placement given up move them.
LEMMA BrokerMoves ==
  ASSUME IInv, NEW u \in DOMAIN book, BrokerFills(u) \/ BrokerCloses(u)
  PROVE  /\ SameOrders
         /\ Moved({u}, "pending", "open") \/ Moved({u}, "open", "closed")
         /\ UNCHANGED <<clock, pc, track, idleVars, mem, disk, history>>
<1>1. book \in Seq(Order)
  BY DEF IInv, TypeOK, Order
<1>2. \A t \in DOMAIN book : book[t] \in Order
  BY <1>1, BookShape
<1>3. UNCHANGED <<clock, pc, track, idleVars, mem, disk, history>>
  BY DEF BrokerFills, BrokerCloses
<1>4. ASSUME NEW st \in OrderStatus, SetStatus(u, st), NEW from, book[u].st = from
      PROVE  SameOrders /\ Moved({u}, from, st)
  <2>1. DOMAIN book' = DOMAIN book
    BY <1>4 DEF SetStatus
  <2>2. \A t \in DOMAIN book :
          book'[t] = IF t = u THEN [book[t] EXCEPT !.st = st] ELSE book[t]
    BY <1>4 DEF SetStatus
  <2> QED BY <1>2, <1>4, <2>1, <2>2 DEF SameOrders, Moved, Order
<1>5. CASE BrokerFills(u)
  BY <1>3, <1>4, <1>5 DEF BrokerFills, In, OrderStatus
<1>6. CASE BrokerCloses(u)
  BY <1>3, <1>4, <1>6 DEF BrokerCloses, In, OrderStatus
<1> QED BY <1>5, <1>6

LEMMA CloseMoves ==
  ASSUME IInv, ClosePositions
  PROVE  /\ SameOrders
         /\ \E refused \in SUBSET (Legs(track) \cap In("open")), unseen \in SUBSET In("open") :
              /\ unseen \subseteq refused
              /\ Moved(Legs(track) \ refused, "open", "closed")
              /\ track' = [t \in Tickets |->
                   IF t \in Legs(track) \ (refused \ unseen) THEN "no" ELSE track[t]]
              /\ dropped' = dropped \cup unseen
         /\ pc \in Flattening /\ pc' = Cancelling[pc]
         /\ UNCHANGED <<clock, idleVars, mem, disk, marked>>
<1>1. book \in Seq(Order)
  BY DEF IInv, TypeOK, Order
<1>2. PICK refused \in SUBSET (Legs(track) \cap In("open")), unseen \in SUBSET In("open") :
        /\ unseen \subseteq refused
        /\ book' = [t \in DOMAIN book |->
             IF t \in Legs(track) \ refused /\ book[t].st = "open"
             THEN [book[t] EXCEPT !.st = "closed"] ELSE book[t]]
        /\ track' = [t \in Tickets |->
             IF t \in Legs(track) \ (refused \ unseen) THEN "no" ELSE track[t]]
        /\ dropped' = dropped \cup unseen
  BY DEF ClosePositions
<1> DEFINE shut == Legs(track) \ refused
<1>3. SameOrders /\ Moved(shut, "open", "closed")
  <2>1. book' = [t \in DOMAIN book |->
           IF t \in shut /\ book[t].st = "open" THEN [book[t] EXCEPT !.st = "closed"] ELSE book[t]]
    BY <1>2
  <2> HIDE DEF shut
  <2> QED BY <1>1, <2>1, MovedBy DEF OrderStatus
<1> QED BY <1>2, <1>3 DEF ClosePositions

LEMMA CancelMoves ==
  ASSUME IInv, CancelPendings
  PROVE  /\ SameOrders
         /\ \E refused \in SUBSET (Pends(track) \cap In("pending")), unseen \in SUBSET In("pending") :
              /\ unseen \subseteq refused
              /\ Moved(Pends(track) \ refused, "pending", "cancelled")
              /\ track' = TrackAfterCancel(refused \ unseen)
              /\ dropped' = dropped \cup unseen \cup (Pends(track) \cap In("open"))
         /\ pc \in {"cancelCommand", "cancelKill", "cancelEod"}
         /\ pc' = AfterCancel
         /\ disk'.track \in {disk.track, track'}
         /\ UNCHANGED <<clock, source, snap, work, marked>>
<1>1. book \in Seq(Order)
  BY DEF IInv, TypeOK, Order
<1>2. PICK refused \in SUBSET (Pends(track) \cap In("pending")), unseen \in SUBSET In("pending") :
        /\ unseen \subseteq refused
        /\ book' = [t \in DOMAIN book |->
             IF t \in Pends(track) \ refused /\ book[t].st = "pending"
             THEN [book[t] EXCEPT !.st = "cancelled"] ELSE book[t]]
        /\ track' = TrackAfterCancel(refused \ unseen)
        /\ dropped' = dropped \cup unseen \cup (Pends(track) \cap In("open"))
  BY DEF CancelPendings
<1> DEFINE ended == Pends(track) \ refused
<1>3. SameOrders /\ Moved(ended, "pending", "cancelled")
  <2>1. book' = [t \in DOMAIN book |->
           IF t \in ended /\ book[t].st = "pending"
           THEN [book[t] EXCEPT !.st = "cancelled"] ELSE book[t]]
    BY <1>2
  <2> HIDE DEF ended
  <2> QED BY <1>1, <2>1, MovedBy DEF OrderStatus
<1>4. disk'.track \in {disk.track, track'}
  BY DEF CancelPendings, DayRoll, Save
<1> QED BY <1>2, <1>3, <1>4 DEF CancelPendings

LEMMA StartMoves ==
  ASSUME IInv, NEW plan \in SUBSET Sides, StartPlacing(plan)
  PROVE  /\ SameOrders /\ \E swept \in SUBSET In("pending") : Moved(swept, "pending", "swept")
         /\ pc = "deferred" /\ pc' = "buy"
         /\ work'.plan = plan
         /\ work'.got = [s \in Sides |-> "none"] /\ work'.ticket = [s \in Sides |-> 0]
         /\ UNCHANGED <<clock, track, source, snap, paused, mem, disk, history>>
<1>1. book \in Seq(Order)
  BY DEF IInv, TypeOK, Order
<1>2. PICK swept \in SUBSET In("pending") : Sweep(swept)
  BY DEF StartPlacing
<1>3. SameOrders /\ Moved(swept, "pending", "swept")
  BY <1>1, <1>2, MovedBy DEF Sweep, OrderStatus
<1> QED BY <1>2, <1>3 DEF StartPlacing, NoWork

\* The tickets of a placement.
Tried == {t \in Tickets : \E s \in Sides : work.ticket[s] = t}

\* The loop's own moves, the clock and the saves are quiet.
LEMMA QuietSteps ==
  ASSUME IInv,
         \/ TimePasses \/ TickBegins \/ Pause(TRUE) \/ Pause(FALSE) \/ FlattenCommand
         \/ KillCheck \/ EodCheck \/ AnchorsPaused \/ Anchors
         \/ NotReady \/ SlotLost \/ Trails \/ UNCHANGED vars
  PROVE  Quiet
<1>1. CASE TimePasses \/ UNCHANGED vars
  BY <1>1 DEF TimePasses, vars, Quiet, idleVars, history
<1>2. CASE TickBegins \/ Pause(TRUE) \/ Pause(FALSE)
  <2>1. /\ UNCHANGED <<book, track, source, work, history>>
        /\ DayRoll(track) /\ pc = "idle" /\ pc' = "positions"
    BY <1>2 DEF TickBegins, Pause, idleVars
  <2>2. disk'.track \in {disk.track, track}
    BY <2>1 DEF DayRoll, Save
  <2> QED BY <2>1, <2>2 DEF Quiet, Working, Confirming, Rehydrating
<1>3. CASE FlattenCommand
  BY <1>3 DEF FlattenCommand, Quiet, idleVars, history, Working, Confirming, Rehydrating
<1>4. CASE KillCheck \/ EodCheck \/ AnchorsPaused \/ NotReady \/ SlotLost
  BY <1>4 DEF KillCheck, EodCheck, AnchorsPaused, NotReady, SlotLost, Quiet, idleVars, history,
              Working, Confirming, Rehydrating
<1>5. CASE Anchors
  BY <1>5 DEF Anchors, Save, Quiet, Working, Confirming, Rehydrating
<1>6. CASE Trails
  BY <1>6 DEF Trails, Save, Quiet, idleVars, history, Working, Confirming, Rehydrating
<1> QED BY <1>1, <1>2, <1>3, <1>4, <1>5, <1>6

\* The tickets of the book are tickets, and its orders orders.
LEMMA InBook ==
  ASSUME IInv
  PROVE  DOMAIN book \subseteq Tickets /\ \A t \in DOMAIN book : t \in Nat /\ book[t] \in Order
<1>1. book \in Seq(Order) /\ Len(book) <= MaxTickets /\ Len(book) \in Nat
  BY BookShape DEF IInv, TypeOK, Order
<1> QED BY <1>1, BookShape, BookBounds DEF Tickets

\* The tickets a placement holds are those of its accepted legs.
LEMMA UnderIs ==
  ASSUME IInv, PlacementOK, NEW t
  PROVE  /\ pc \notin Working => Under = {}
         /\ t \in Under => t \in DOMAIN book /\ track[t] = "no" /\ book[t].st # "cancelled"
         /\ pc \in Working /\ t \in Tried => t \in Under
         /\ pc \in Working => (t \in Under <=> t \in Accepted)
<1>1. work \in Placement
  BY DEF IInv, WorkOK
<1>2. 0 \notin Tickets /\ DOMAIN book \subseteq Tickets
  BY InBook DEF Tickets
<1> QED BY <1>1, <1>2 DEF Under, PlacementOK, IsLegOf, Tried, Accepted

\* What a placement leaves behind, given up or cut off by a crash: an order of
\* it is cancelled, or becomes a stray, and no other order changes.
LEMMA OrphansMove ==
  ASSUME IInv, PlacementOK, OrphansCancel
  PROVE  /\ SameOrders /\ pc = "resolve" /\ pc' = "recover" /\ ~BothPlaced
         /\ UNCHANGED <<clock, track, idleVars, mem, disk, history>>
         /\ \A t \in DOMAIN book :
              \/ t \notin Under /\ book'[t] = book[t]
              \/ /\ t \in Under /\ book[t].st = "pending"
                 /\ book'[t].st = "cancelled" /\ book'[t].kind = book[t].kind
              \/ t \in Under /\ book'[t].kind = "stray" /\ book'[t].st = book[t].st
<1>1. pc = "resolve" /\ pc \in Working
  BY DEF OrphansCancel, Working
<1>2. \A t \in DOMAIN book : book[t] \in Order
  BY InBook
<1>3. PICK refused \in SUBSET (Accepted \cap In("pending")) :
        book' = [t \in DOMAIN book |->
          IF t \in Accepted \ (refused \cup (Accepted \ In("pending")))
          THEN [book[t] EXCEPT !.st = "cancelled"]
          ELSE IF t \in refused \cup (Accepted \ In("pending"))
          THEN [book[t] EXCEPT !.kind = "stray"] ELSE book[t]]
  BY DEF OrphansCancel
<1>4. SameOrders
  BY <1>2, <1>3 DEF SameOrders, Order
<1>5. ASSUME NEW t \in DOMAIN book
      PROVE  \/ t \notin Under /\ book'[t] = book[t]
             \/ /\ t \in Under /\ book[t].st = "pending"
                /\ book'[t].st = "cancelled" /\ book'[t].kind = book[t].kind
             \/ t \in Under /\ book'[t].kind = "stray" /\ book'[t].st = book[t].st
  <2>1. t \in Under <=> t \in Accepted
    BY <1>1, UnderIs
  <2> QED BY <1>2, <1>3, <1>5, <2>1 DEF Order, In
<1> QED BY <1>4, <1>5 DEF OrphansCancel

LEMMA CrashMoves ==
  ASSUME IInv, PlacementOK, Crash
  PROVE  /\ SameOrders
         /\ \A t \in DOMAIN book :
              /\ book'[t].st = book[t].st
              /\ book'[t].kind = IF t \in Under /\ pc # "record" THEN "stray" ELSE book[t].kind
<1>1. \A t \in DOMAIN book : book[t] \in Order
  BY InBook
<1>2. book' = [t \in DOMAIN book |->
        IF pc \in {"buy", "sell", "resolve"} /\ t \in Accepted
        THEN [book[t] EXCEPT !.kind = "stray"] ELSE book[t]]
  BY DEF Crash, Astray
<1>3. ASSUME NEW t \in DOMAIN book
      PROVE  pc \in {"buy", "sell", "resolve"} /\ t \in Accepted <=> t \in Under /\ pc # "record"
  BY UnderIs DEF Working
<1>4. \A t \in DOMAIN book :
        book'[t] = IF t \in Under /\ pc # "record" THEN [book[t] EXCEPT !.kind = "stray"] ELSE book[t]
  BY <1>2, <1>3
<1>5. DOMAIN book' = DOMAIN book
  BY <1>2
<1> QED BY <1>1, <1>4, <1>5 DEF SameOrders, Order

-----------------------------------------------------------------------------
\* A new order at the end of a book whose other orders keep their form.
Grown(b, o) ==
  /\ DOMAIN book' = DOMAIN b \cup {Len(b) + 1} /\ Len(b) + 1 \notin DOMAIN b
  /\ Len(b) + 1 \in Tickets
  /\ book'[Len(b) + 1] = o
  /\ \A t \in DOMAIN b : book'[t] = b[t] /\ t < Len(b) + 1

\* An accepted order is one more of the book, and none of the others changes.
LEMMA AppendGrows ==
  ASSUME NEW b \in Seq(Order), Len(b) < MaxTickets, NEW o \in Order, book' = Append(b, o)
  PROVE  Grown(b, o)
<1>1. Len(b) \in Nat /\ DOMAIN b = 1..Len(b)
  BY LenProperties
<1>2. Append(b, o) \in Seq(Order) /\ Len(Append(b, o)) = Len(b) + 1
      /\ Append(b, o)[Len(b) + 1] = o /\ \A i \in 1..Len(b) : Append(b, o)[i] = b[i]
  BY AppendProperties
<1>3. DOMAIN book' = 1..(Len(b) + 1)
  BY <1>1, <1>2, LenProperties
<1>4. Len(b) + 1 \in Tickets
  BY <1>1, BookBounds DEF Tickets
<1> QED BY <1>1, <1>2, <1>3, <1>4 DEF Grown

\* The order a leg becomes when it is accepted.
NewLeg(side) ==
  [label |-> work.label, side |-> side, day |-> mem.day, st |-> "pending", kind |-> "leg",
   first |-> IF side = "SELL" /\ work.got.BUY = "ok" THEN work.ticket.BUY ELSE Len(book) + 1]

\* What is sent comes back accepted, as a new order, or declined.
LEMMA SendMoves ==
  ASSUME IInv, SendLeg
  PROVE  /\ pc \in {"buy", "sell"} /\ pc' = NextLeg /\ LegAt \in Sides /\ LegAt \in work.plan
         /\ UNCHANGED <<clock, track, source, snap, slot, paused, mem, disk, history>>
         /\ work'.plan = work.plan /\ work'.label = work.label
         /\ \/ /\ work'.got = [work.got EXCEPT ![LegAt] = "ok"]
               /\ work'.ticket = [work.ticket EXCEPT ![LegAt] = Len(book) + 1]
               /\ Grown(book, NewLeg(LegAt))
            \/ /\ \E answer \in {"none", "refused"} :
                    work'.got = [work.got EXCEPT ![LegAt] = answer]
               /\ work'.ticket = work.ticket
               /\ UNCHANGED book
<1>1. /\ pc \in {"buy", "sell"} /\ pc' = NextLeg /\ LegAt \in Sides /\ LegAt \in work.plan
      /\ UNCHANGED <<clock, track, source, snap, slot, paused, mem, disk, history>>
  BY DEF SendLeg, LegAt, Sides
<1>2. book \in Seq(Order) /\ Len(book) \in Nat /\ work \in Placement
  BY BookShape DEF IInv, TypeOK, Order, WorkOK
<1>3. CASE Accept(LegAt, "leg")
  <2>1. Len(book) < MaxTickets /\ Len(book) + 1 \in Tickets
    BY <1>2, <1>3, BookBounds DEF Accept, Tickets
  <2>2. (IF LegAt = "SELL" /\ work.got.BUY = "ok" THEN work.ticket.BUY ELSE Len(book) + 1)
          \in Tickets
    BY <2>1 DEF IInv, WorkOK, Sides
  <2>3. NewLeg(LegAt) \in Order
    BY <1>1, <2>1, <2>2, OrderTyped DEF NewLeg, OrderStatus, Kind, Sending
  <2>4. Grown(book, NewLeg(LegAt))
    <3>1. book' = Append(book, NewLeg(LegAt))
      BY <1>3 DEF Accept, NewOrder, NewLeg
    <3> QED BY <3>1, <1>2, <2>1, <2>3, AppendGrows
  <2>5. work' = [work EXCEPT !.got[LegAt] = "ok", !.ticket[LegAt] = Len(book) + 1]
    BY <1>3 DEF Accept
  <2>6. /\ work'.got = [work.got EXCEPT ![LegAt] = "ok"]
        /\ work'.ticket = [work.ticket EXCEPT ![LegAt] = Len(book) + 1]
        /\ work'.plan = work.plan /\ work'.label = work.label
    BY <2>5, <1>2 DEF Placement
  <2> QED BY <1>1, <2>4, <2>6 DEF SendLeg
<1>4. ASSUME NEW answer \in {"none", "refused"}, Decline(LegAt, answer)
      PROVE  /\ work'.got = [work.got EXCEPT ![LegAt] = answer]
             /\ work'.ticket = work.ticket /\ work'.plan = work.plan /\ work'.label = work.label
             /\ UNCHANGED book
  BY <1>2, <1>4 DEF Decline, Placement
<1>5. CASE Decline(LegAt, "none") \/ Decline(LegAt, "refused")
  BY <1>1, <1>4, <1>5 DEF SendLeg
<1> QED BY <1>3, <1>5 DEF SendLeg

\* The other orders that are sent have no twin: those whose answer is lost, those
\* the confirmation sends again, and those bought at the market.
Alone == AnswerLost \/ ConfirmResend \/ \E s \in Sides : BreakoutRecovered(s) \/ RecoveryLost(s)

LoneOrder(side, kind, st) ==
  [label |-> work.label, side |-> side, day |-> mem.day, st |-> st, kind |-> kind,
   first |-> Len(book) + 1]

LEMMA LoneGrows ==
  ASSUME IInv, NEW side \in Sides, NEW kind \in Kind, NEW st \in OrderStatus,
         pc \in Sending \cup Confirming, Len(book) < MaxTickets,
         book' = NewOrder(side, kind, st, Len(book) + 1)
  PROVE  Grown(book, LoneOrder(side, kind, st))
<1>1. LoneOrder(side, kind, st) \in Order
  BY OwnTicket, OrderTyped DEF LoneOrder
<1>2. book' = Append(book, LoneOrder(side, kind, st)) /\ book \in Seq(Order)
  BY DEF NewOrder, LoneOrder, IInv, TypeOK, Order
<1> QED BY <1>1, <1>2, AppendGrows

LEMMA LostMoves ==
  ASSUME IInv, AnswerLost
  PROVE  /\ pc \in {"buy", "sell", "confirm"}
         /\ \E s \in Sides : Grown(book, LoneOrder(s, "stray", "pending"))
         /\ UNCHANGED <<clock, pc, track, idleVars, mem, disk, history>>
<1>1. pc \in {"buy", "sell", "confirm"} /\ pc \in Sending \cup Confirming
      /\ UNCHANGED <<clock, pc, track, idleVars, mem, disk, history>>
  BY DEF AnswerLost, Sending, Confirming
<1>2. PICK s \in Sides : book' = NewOrder(s, "stray", "pending", Len(book) + 1)
  BY DEF AnswerLost, LegAt, Checking, Sides
<1>3. Len(book) < MaxTickets
  <2>1. Len(book') = Len(book) + 1 /\ Len(book') <= MaxTickets /\ Len(book) \in Nat
    BY LostPreserves, BookShape DEF IInv, TypeOK, Order
  <2> QED BY <2>1, BookBounds
<1>4. Grown(book, LoneOrder(s, "stray", "pending"))
  <2>1. "stray" \in Kind /\ "pending" \in OrderStatus
    BY DEF Kind, OrderStatus
  <2> QED BY <1>1, <1>2, <1>3, <2>1, LoneGrows
<1> QED BY <1>1, <1>2, <1>4

LEMMA ResendMoves ==
  ASSUME IInv, ConfirmResend
  PROVE  /\ pc = "confirm" /\ pc' = "confirmed" /\ Checking \in Sides /\ Checking' = Checking
         /\ Grown(book, LoneOrder(Checking, "again", "pending"))
         /\ work'.ticket[Checking] = Len(book) + 1
         /\ work'.plan = work.plan /\ work'.label = work.label
         /\ UNCHANGED <<clock, track, source, snap, slot, paused, mem, disk, history>>
<1>1. /\ pc = "confirm" /\ pc' = "confirmed" /\ Accept(Checking, "again") /\ Checking \in Sides
      /\ UNCHANGED <<clock, track, source, snap, slot, paused, mem, disk, history>>
      /\ pc \in Sending \cup Confirming
  BY DEF ConfirmResend, Checking, Sides, Confirming
<1>2. work.got.BUY = "none"
  BY <1>1 DEF IInv, WorkOK, NoWork, Sides
<1>3. Len(book) < MaxTickets /\ book' = NewOrder(Checking, "again", "pending", Len(book) + 1)
  BY <1>1, <1>2 DEF Accept
<1>4. Grown(book, LoneOrder(Checking, "again", "pending"))
  <2>1. "again" \in Kind /\ "pending" \in OrderStatus
    BY DEF Kind, OrderStatus
  <2> QED BY <1>1, <1>3, <2>1, LoneGrows
<1>5. work' = [work EXCEPT !.got[Checking] = "ok", !.ticket[Checking] = Len(book) + 1]
  BY <1>1 DEF Accept
<1>6. work'.ticket[Checking] = Len(book) + 1 /\ work'.plan = work.plan /\ work'.label = work.label
  BY <1>1, <1>5 DEF IInv, WorkOK, Placement
<1>7. Checking' = Checking
  BY <1>6 DEF Checking
<1> QED BY <1>1, <1>4, <1>6, <1>7

\* A recovered breakout opens one position at market.
LEMMA BreakoutMoves ==
  ASSUME IInv, NEW side \in Sides, BreakoutRecovered(side)
  PROVE  /\ pc = "recover" /\ pc' = "trails"
         /\ Grown(book, LoneOrder(side, "leg", "open"))
         /\ track' = [track EXCEPT ![Len(book) + 1] = "normal"]
         /\ disk'.track = track'
         /\ marked' = marked \cup {<<work.label, mem.day>>}
         /\ UNCHANGED <<clock, source, snap, slot, paused, dropped>>
<1>1. pc \in Sending \cup Confirming /\ Len(book) < MaxTickets
      /\ book' = NewOrder(side, "leg", "open", Len(book) + 1)
  BY DEF BreakoutRecovered, Sending
<1>2. "leg" \in Kind /\ "open" \in OrderStatus
  BY DEF Kind, OrderStatus
<1>3. Grown(book, LoneOrder(side, "leg", "open"))
  BY <1>1, <1>2, LoneGrows
<1> QED BY <1>3 DEF BreakoutRecovered, Save

LEMMA RecoveryLostMoves ==
  ASSUME IInv, NEW side \in Sides, RecoveryLost(side)
  PROVE  /\ pc = "recover" /\ pc' = "trails"
         /\ Grown(book, LoneOrder(side, "stray", "open"))
         /\ UNCHANGED <<clock, track, source, snap, slot, paused, mem, disk, history>>
<1>1. pc \in Sending \cup Confirming /\ Len(book) < MaxTickets
      /\ book' = NewOrder(side, "stray", "open", Len(book) + 1)
  BY DEF RecoveryLost, Sending
<1>2. "stray" \in Kind /\ "open" \in OrderStatus
  BY DEF Kind, OrderStatus
<1>3. Grown(book, LoneOrder(side, "stray", "open"))
  BY <1>1, <1>2, LoneGrows
<1> QED BY <1>3 DEF RecoveryLost

LEMMA LoneMoves ==
  ASSUME IInv, Alone
  PROVE  /\ \E s \in Sides, kind \in Kind, st \in {"pending", "open"} :
              Grown(book, LoneOrder(s, kind, st))
         /\ UNCHANGED source
         /\ \/ pc' \notin Working \cup {"down"} /\ pc \notin Working \cup Rehydrating
            \/ UNCHANGED <<pc, work, track>> /\ pc \in {"buy", "sell"}
         /\ pc' = "confirmed" => ConfirmResend
<1>1. {"leg", "again", "stray"} \subseteq Kind
  BY DEF Kind
<1>2. CASE AnswerLost
  <2>1. PICK s \in Sides : Grown(book, LoneOrder(s, "stray", "pending"))
    BY <1>2, LostMoves
  <2>2. UNCHANGED <<pc, work, track, source>> /\ pc \in {"buy", "sell", "confirm"}
    BY <1>2, LostMoves DEF idleVars
  <2> QED BY <1>1, <2>1, <2>2 DEF Working, Rehydrating
<1>3. CASE ConfirmResend
  BY <1>1, <1>3, ResendMoves DEF Working, Rehydrating
<1>4. CASE \E s \in Sides : BreakoutRecovered(s)
  BY <1>1, <1>4, BreakoutMoves DEF Working, Rehydrating
<1>5. CASE \E s \in Sides : RecoveryLost(s)
  BY <1>1, <1>5, RecoveryLostMoves DEF Working, Rehydrating
<1> QED BY <1>2, <1>3, <1>4, <1>5 DEF Alone

-----------------------------------------------------------------------------
\* The placement under way, step by step: its legs stay in the book, alive and
\* out of the record until it is recorded or given up.
LEMMA PlacementKept ==
  ASSUME IInv, PlacementOK, TracksOK, [Next]_vars
  PROVE  PlacementOK'
<1>0. SUFFICES ASSUME pc' \in Working PROVE PlacementOK'
  BY DEF PlacementOK
<1>a. work \in Placement
  BY DEF IInv, WorkOK
<1>1. CASE Quiet
  BY <1>0, <1>1 DEF Quiet, PlacementOK, IsLegOf, BothPlaced
<1>2. CASE Broker
  <2>1. PICK u \in DOMAIN book : BrokerFills(u) \/ BrokerCloses(u)
    BY <1>2 DEF Broker
  <2>2. SameOrders /\ (Moved({u}, "pending", "open") \/ Moved({u}, "open", "closed"))
        /\ UNCHANGED <<pc, track, work, mem>>
    BY <2>1, BrokerMoves DEF idleVars
  <2>3. ASSUME NEW t, NEW s, IsLegOf(t, s) PROVE IsLegOf(t, s)'
    BY <2>2, <2>3 DEF IsLegOf, SameOrders, Moved
  <2> QED BY <1>0, <2>2, <2>3 DEF PlacementOK, BothPlaced
<1>3. CASE \E plan \in {Sides, {"BUY"}, {"SELL"}} : StartPlacing(plan)
  <2>1. PICK plan \in SUBSET Sides : StartPlacing(plan)
    BY <1>3 DEF Sides
  <2> QED BY <2>1, StartMoves DEF PlacementOK, Sides
<1>4. CASE SendLeg
  <2> DEFINE n == Len(book) + 1
  <2>1. /\ pc \in {"buy", "sell"} /\ pc' = NextLeg /\ LegAt \in Sides /\ LegAt \in work.plan
        /\ UNCHANGED <<track, mem>>
        /\ work'.plan = work.plan /\ work'.label = work.label
    BY <1>4, SendMoves
  <2>2. /\ \A s \in Sides : /\ work.got[s] # "none" => s \in work.plan
                            /\ work.got[s] # "ok" => work.ticket[s] = 0
                            /\ work.got[s] = "ok" => IsLegOf(work.ticket[s], s)
        /\ pc = "buy" => \A s \in Sides : work.got[s] = "none"
        /\ pc = "sell" => work.got["SELL"] = "none"
    BY <2>1 DEF PlacementOK, Working, Sending
  <2>3. ASSUME NEW s \in Sides
        PROVE  /\ work'.got[s] # "none" => s \in work'.plan
               /\ work'.got[s] # "ok" => work'.ticket[s] = 0
               /\ work'.got[s] = "ok" => IsLegOf(work.ticket[s], s)'
    <3>1. CASE /\ work'.got = [work.got EXCEPT ![LegAt] = "ok"]
               /\ work'.ticket = [work.ticket EXCEPT ![LegAt] = n]
               /\ Grown(book, NewLeg(LegAt))
      <4>1. CASE s = LegAt
        <5>1. work'.got[s] = "ok" /\ work'.ticket[s] = n
          BY <3>1, <4>1, <1>a DEF Placement
        <5>2. n \in Tickets /\ n \notin DOMAIN book /\ n \in DOMAIN book'
              /\ book'[n] = NewLeg(LegAt)
          BY <3>1 DEF Grown
        <5>3. track[n] = "no"
          BY <5>2 DEF TracksOK, Sound
        <5> QED BY <2>1, <4>1, <5>1, <5>2, <5>3 DEF IsLegOf, NewLeg
      <4>2. CASE s # LegAt
        <5>1. work'.got[s] = work.got[s] /\ work'.ticket[s] = work.ticket[s]
          BY <3>1, <4>2, <1>a DEF Placement
        <5>2. ASSUME NEW t, IsLegOf(t, s) PROVE IsLegOf(t, s)'
          BY <3>1, <2>1, <5>2 DEF IsLegOf, Grown
        <5> QED BY <2>1, <2>2, <5>1, <5>2 DEF IsLegOf
      <4> QED BY <4>1, <4>2
    <3>2. CASE /\ \E answer \in {"none", "refused"} :
                    work'.got = [work.got EXCEPT ![LegAt] = answer]
               /\ work'.ticket = work.ticket
               /\ UNCHANGED book
      <4>1. work.got["BUY"] = "none" \/ pc = "sell"
        BY <2>1, <2>2 DEF Sides
      <4>2. work.got[LegAt] = "none"
        BY <2>1, <2>2 DEF LegAt, Sides
      <4>3. work'.got[s] = work.got[s] \/ (s = LegAt /\ work'.got[s] # "ok")
        BY <3>2, <1>a, <2>1 DEF Placement
      <4>4. IsLegOf(work.ticket[s], s) => IsLegOf(work.ticket[s], s)'
        BY <3>2, <2>1 DEF IsLegOf
      <4> QED BY <2>1, <2>2, <3>2, <4>2, <4>3, <4>4
    <3> QED BY <3>1, <3>2, <1>4, SendMoves
  <2>4. pc' \in {"sell", "resolve"} /\ (pc' = "sell" <=> pc = "buy")
    BY <2>1 DEF NextLeg
  <2>5. pc' = "sell" => work'.got["SELL"] = "none"
    <3>1. SUFFICES ASSUME pc = "buy" PROVE work'.got["SELL"] = "none"
      BY <2>4
    <3>2. LegAt = "BUY" /\ work.got["SELL"] = "none"
      BY <3>1, <2>2 DEF LegAt, Sides
    <3>3. \E a : work'.got = [work.got EXCEPT ![LegAt] = a]
      BY <1>4, SendMoves
    <3> QED BY <3>2, <3>3, <1>a DEF Placement, Sides
  <2> QED BY <2>3, <2>4, <2>5 DEF PlacementOK
<1>5. CASE SkipLeg
  <2>1. /\ UNCHANGED <<book, track, work, mem>> /\ pc \in {"buy", "sell"} /\ LegAt \notin work.plan
        /\ pc' = NextLeg
    BY <1>5 DEF SkipLeg, idleVars
  <2>2. /\ \A s \in Sides : /\ work.got[s] # "none" => s \in work.plan
                            /\ work.got[s] # "ok" => work.ticket[s] = 0
                            /\ work.got[s] = "ok" => IsLegOf(work.ticket[s], s)
        /\ pc = "buy" => \A s \in Sides : work.got[s] = "none"
        /\ pc = "sell" => work.got["SELL"] = "none"
        /\ work.plan \subseteq Sides
    BY <2>1, <1>a DEF PlacementOK, Working, Sending, Placement
  <2>3. \A s \in Sides : IsLegOf(work.ticket[s], s) => IsLegOf(work.ticket[s], s)'
    BY <2>1 DEF IsLegOf
  <2>4. CASE pc = "buy"
    BY <2>1, <2>2, <2>3, <2>4 DEF PlacementOK, NextLeg, Sides
  <2>5. CASE pc = "sell"
    <3>1. LegAt = "SELL" /\ pc' = "resolve"
      BY <2>1, <2>5 DEF LegAt, NextLeg
    <3> QED BY <2>1, <2>2, <2>3, <3>1 DEF PlacementOK
  <2> QED BY <2>1, <2>4, <2>5
<1>6. CASE PlacementMarked
  <2>1. /\ UNCHANGED <<book, track, work>> /\ pc = "resolve" /\ pc' = "record" /\ BothPlaced
        /\ mem' = [mem EXCEPT !.placed = @ \cup {work.label}]
    BY <1>6 DEF PlacementMarked, MarkPlaced, idleVars
  <2>2. mem'.day = mem.day
    BY <2>1 DEF IInv, TypeOK, State
  <2>3. \A s \in Sides : IsLegOf(work.ticket[s], s) => IsLegOf(work.ticket[s], s)'
    BY <2>1, <2>2 DEF IsLegOf
  <2> QED BY <2>1, <2>3 DEF PlacementOK, Working, Sending, BothPlaced
<1>7. CASE AnswerLost
  <2>1. UNCHANGED <<pc, work, track, mem>>
    BY <1>7, LostMoves DEF idleVars
  <2>2. \A t \in DOMAIN book : t \in DOMAIN book' /\ book'[t] = book[t]
    BY <1>7, LostMoves DEF Grown
  <2>3. \A t, s : IsLegOf(t, s) => IsLegOf(t, s)'
    BY <2>1, <2>2 DEF IsLegOf
  <2> QED BY <1>0, <2>1, <2>3 DEF PlacementOK, BothPlaced
<1>8. ASSUME \/ ClosePositions \/ CancelPendings \/ ReadPositions \/ Reconcile
             \/ RecordPendings \/ PlacementGivenUp \/ Crash \/ Restart
             \/ ConfirmSeen \/ ConfirmResend \/ ConfirmRecord \/ ConfirmDone \/ OrphansCancel
             \/ \E s \in Sides : BreakoutRecovered(s) \/ RecoveryLost(s)
      PROVE  FALSE
  BY <1>0, <1>8 DEF ClosePositions, CancelPendings, ReadPositions, Reconcile, RecordPendings,
     PlacementGivenUp, Crash, Restart, BreakoutRecovered, RecoveryLost, OrphansCancel, ConfirmSeen,
     ConfirmResend, ConfirmRecord, ConfirmDone, Cancelling, Flattening, AfterCancel, Working
<1> QED BY <1>1, <1>2, <1>3, <1>4, <1>5, <1>6, <1>7, <1>8, QuietSteps DEF Next, Tick, Place

-----------------------------------------------------------------------------
\* Sound, of a record `tr` in the next state.
SoundNext(tr) ==
  /\ \A t \in Tickets : tr[t] # "no" => t \in DOMAIN book' /\ t \notin Under'
  /\ \A s, t \in DOMAIN book' :
       s # t /\ book'[s].first = book'[t].first /\ tr[s] = "normal"
         => tr[t] \in {"no", "flag", "rescue"}

\* Only a leg that is accepted adds to them, and then the new order.
LEMMA UnderSteps ==
  ASSUME IInv, PlacementOK, [Next]_vars
  PROVE  /\ Under' \cap DOMAIN book \subseteq Under
         /\ pc' \in Working => Under \subseteq Under'
<1>0. work \in Placement
  BY DEF IInv, WorkOK
<1>1. CASE pc' \notin Working
  BY <1>1 DEF Under
<1>2. CASE pc' \in Working
  <2>1. CASE pc \in Working /\ UNCHANGED work
    BY <1>2, <2>1 DEF Under
  <2>2. CASE SendLeg
    <3>1. LegAt \in Sides /\ pc \in Working
      BY <2>2, SendMoves DEF Working, Sending
    <3>2. work.got[LegAt] # "ok"
      BY <2>2, <3>1, SendMoves DEF PlacementOK, LegAt, Sides
    <3>3. CASE /\ work'.got = [work.got EXCEPT ![LegAt] = "ok"]
               /\ work'.ticket = [work.ticket EXCEPT ![LegAt] = Len(book) + 1]
               /\ Grown(book, NewLeg(LegAt))
      BY <1>0, <1>2, <3>1, <3>2, <3>3 DEF Under, Placement, Grown
    <3>4. CASE /\ \E answer \in {"none", "refused"} :
                    work'.got = [work.got EXCEPT ![LegAt] = answer]
               /\ work'.ticket = work.ticket
      BY <1>0, <1>2, <3>1, <3>2, <3>4 DEF Under, Placement
    <3> QED BY <2>2, <3>3, <3>4, SendMoves
  <2>3. CASE \E plan \in {Sides, {"BUY"}, {"SELL"}} : StartPlacing(plan)
    <3>1. PICK plan \in SUBSET Sides : StartPlacing(plan)
      BY <2>3 DEF Sides
    <3>2. pc \notin Working /\ \A s \in Sides : work'.got[s] = "none"
      BY <3>1, StartMoves DEF Working, Sending
    <3> QED BY <3>2 DEF Under
  <2>4. CASE Quiet
    BY <1>2, <2>1, <2>4 DEF Quiet
  <2>5. CASE Broker
    <3>1. UNCHANGED <<pc, work>>
      BY <2>5, BrokerMoves DEF Broker, idleVars
    <3> QED BY <1>2, <2>1, <3>1
  <2>6. CASE SkipLeg \/ PlacementMarked
    BY <2>1, <2>6 DEF SkipLeg, PlacementMarked, idleVars, Working, Sending
  <2>7. CASE AnswerLost
    <3>1. UNCHANGED <<pc, work>>
      BY <2>7, LostMoves DEF idleVars
    <3> QED BY <1>2, <2>1, <3>1
  <2>8. ASSUME \/ ClosePositions \/ CancelPendings \/ ReadPositions \/ Reconcile
               \/ RecordPendings \/ PlacementGivenUp \/ Crash \/ Restart
               \/ ConfirmSeen \/ ConfirmResend \/ ConfirmRecord \/ ConfirmDone \/ OrphansCancel
               \/ \E s \in Sides : BreakoutRecovered(s) \/ RecoveryLost(s)
        PROVE  FALSE
    BY <1>2, <2>8 DEF ClosePositions, CancelPendings, ReadPositions, Reconcile, RecordPendings,
       PlacementGivenUp, Crash, Restart, BreakoutRecovered, RecoveryLost, OrphansCancel, ConfirmSeen,
       ConfirmResend, ConfirmRecord, ConfirmDone, Cancelling, Flattening, AfterCancel, Working
  <2> QED BY <2>2, <2>3, <2>4, <2>5, <2>6, <2>7, <2>8, QuietSteps DEF Next, Tick, Place
<1> QED BY <1>1, <1>2

\* How the book changes in any step: the same orders with other statuses, or
\* one more, which the placement under way sent.
LEMMA BookSteps ==
  ASSUME IInv, PlacementOK, [Next]_vars
  PROVE  \/ SameOrders
         \/ SendLeg /\ Grown(book, NewLeg(LegAt))
         \/ Alone
<1>1. CASE Quiet \/ ReadPositions \/ Reconcile \/ SkipLeg \/ PlacementMarked \/ RecordPendings
           \/ ConfirmSeen \/ ConfirmRecord \/ ConfirmDone \/ PlacementGivenUp \/ Restart
  BY <1>1 DEF Quiet, ReadPositions, Reconcile, SkipLeg, PlacementMarked, RecordPendings, ConfirmSeen,
              ConfirmRecord, ConfirmDone, PlacementGivenUp, Restart, SameOrders
<1>2. CASE Broker
  BY <1>2, BrokerMoves DEF Broker
<1>3. CASE ClosePositions \/ CancelPendings
  BY <1>3, CloseMoves, CancelMoves
<1>4. CASE \E plan \in {Sides, {"BUY"}, {"SELL"}} : StartPlacing(plan)
  BY <1>4, StartMoves DEF Sides
<1>5. CASE SendLeg
  BY <1>5, SendMoves DEF SameOrders
<1>6. CASE OrphansCancel \/ Crash
  BY <1>6, OrphansMove, CrashMoves
<1> QED BY <1>1, <1>2, <1>3, <1>4, <1>5, <1>6, QuietSteps DEF Next, Tick, Place, Alone

\* The old orders of the book are still there, under their own names.
LEMMA OldOrders ==
  ASSUME IInv, PlacementOK, [Next]_vars, NEW t \in DOMAIN book
  PROVE  /\ t \in DOMAIN book' /\ book'[t].first = book[t].first /\ book'[t].label = book[t].label
         /\ book'[t].side = book[t].side /\ book'[t].day = book[t].day
<1>1. CASE Alone
  BY <1>1, LoneMoves DEF Grown
<1>2. CASE SameOrders
  BY <1>2 DEF SameOrders
<1>3. CASE Grown(book, NewLeg(LegAt))
  BY <1>3 DEF Grown
<1> QED BY <1>1, <1>2, <1>3, BookSteps

\* A SELL leg takes the BUY leg of its own placement for a twin, nothing else.
LEMMA TwinsKept ==
  ASSUME IInv, PlacementOK, TwinsOK, [Next]_vars
  PROVE  TwinsOK'
<1>0. DOMAIN book \subseteq Tickets /\ \A t \in DOMAIN book : t \in Nat
  BY InBook
<1>1. work \in Placement
  BY DEF IInv, WorkOK
<1>2. Under' \cap DOMAIN book \subseteq Under /\ (pc' \in Working => Under \subseteq Under')
      /\ (pc' \notin Working => Under' = {})
  BY UnderSteps DEF Under
<1>3. CASE SameOrders
  <2>1. \A t \in DOMAIN book' : book'[t].first <= t
    BY <1>3 DEF TwinsOK, SameOrders
  <2>2. \A s, t \in DOMAIN book' :
          book'[s].first = book'[t].first
            => book'[s].label = book'[t].label /\ (s \in Under' <=> t \in Under')
    BY <1>2, <1>3 DEF TwinsOK, SameOrders
  <2>3. pc' \in Working /\ work'.got["BUY"] = "ok"
          => book'[work'.ticket["BUY"]].first = work'.ticket["BUY"]
    <3>1. SUFFICES ASSUME pc' \in Working, work'.got["BUY"] = "ok"
                   PROVE  /\ pc \in Working /\ work.got["BUY"] = "ok"
                          /\ work'.ticket["BUY"] = work.ticket["BUY"]
                          /\ work.ticket["BUY"] \in DOMAIN book
      BY <1>3 DEF TwinsOK, SameOrders
    <3>2. SUFFICES /\ pc \in Working /\ work.got["BUY"] = "ok"
                   /\ work'.ticket["BUY"] = work.ticket["BUY"]
      BY DEF PlacementOK, IsLegOf, Sides
    <3>3. CASE UNCHANGED <<pc, work>>
      BY <3>1, <3>3
    <3>4. CASE Quiet
      BY <3>1, <3>4 DEF Quiet
    <3>5. CASE Broker
      BY <3>3, <3>5, BrokerMoves DEF Broker, idleVars
    <3>6. CASE SendLeg
      <4>1. /\ \E answer \in {"none", "refused"} : work'.got = [work.got EXCEPT ![LegAt] = answer]
            /\ work'.ticket = work.ticket /\ LegAt \in Sides /\ pc \in Working
        BY <1>3, <3>6, SendMoves DEF Grown, SameOrders, Working, Sending
      <4> QED BY <1>1, <3>1, <4>1 DEF Placement, Sides
    <3>7. CASE SkipLeg \/ PlacementMarked
      BY <3>1, <3>7 DEF SkipLeg, PlacementMarked, idleVars, Working, Sending
    <3>8. CASE \E plan \in {Sides, {"BUY"}, {"SELL"}} : StartPlacing(plan)
      <4>1. PICK plan \in SUBSET Sides : StartPlacing(plan)
        BY <3>8 DEF Sides
      <4> QED BY <3>1, <4>1, StartMoves DEF Sides
    <3>9. CASE AnswerLost
      BY <3>3, <3>9, LostMoves DEF idleVars
    <3>10. ASSUME \/ ClosePositions \/ CancelPendings \/ ReadPositions \/ Reconcile
                 \/ RecordPendings \/ PlacementGivenUp \/ Crash \/ Restart
                 \/ ConfirmSeen \/ ConfirmResend \/ ConfirmRecord \/ ConfirmDone \/ OrphansCancel
                 \/ \E s \in Sides : BreakoutRecovered(s) \/ RecoveryLost(s)
          PROVE  FALSE
      BY <3>1, <3>10 DEF ClosePositions, CancelPendings, ReadPositions, Reconcile, RecordPendings,
         PlacementGivenUp, Crash, Restart, BreakoutRecovered, RecoveryLost, OrphansCancel,
         ConfirmSeen, ConfirmResend, ConfirmRecord, ConfirmDone, Cancelling, Flattening,
         AfterCancel, Working
    <3> QED BY <3>4, <3>5, <3>6, <3>7, <3>8, <3>9, <3>10, QuietSteps DEF Next, Tick, Place
  <2>4. pc' = "confirmed" =>
          \A s \in DOMAIN book' : s # work'.ticket[Checking']
            => book'[s].first # book'[work'.ticket[Checking']].first
    <3>1. SUFFICES ASSUME pc' = "confirmed"
                   PROVE  pc = "confirmed" /\ UNCHANGED work /\ work.ticket[Checking] \in DOMAIN book
      BY <1>3 DEF TwinsOK, SameOrders, Checking
    <3>2. SUFFICES UNCHANGED <<pc, work>>
      BY <3>1 DEF IInv, WorkOK
    <3>3. CASE Quiet
      BY <3>1, <3>3 DEF Quiet, Confirming, IInv, TypeOK
    <3>4. CASE Broker
      BY <3>4, BrokerMoves DEF Broker, idleVars
    <3>5. ~ConfirmResend
      BY <1>3, ResendMoves DEF Grown, SameOrders
    <3> QED BY <3>1, <3>3, <3>4, <3>5, QuietSteps, LoneMoves
         DEF Next, Tick, Place, Alone, ClosePositions, CancelPendings, ReadPositions, Reconcile,
             RecordPendings, PlacementGivenUp, Crash, Restart, OrphansCancel, ConfirmSeen,
             ConfirmRecord, ConfirmDone, StartPlacing, SendLeg, SkipLeg, PlacementMarked,
             Cancelling, Flattening, AfterCancel, NextLeg
  <2> QED BY <2>1, <2>2, <2>3, <2>4 DEF TwinsOK
<1>4. CASE SendLeg /\ Grown(book, NewLeg(LegAt))
  <2> DEFINE n == Len(book) + 1  f == NewLeg(LegAt).first
  <2>1. /\ DOMAIN book' = DOMAIN book \cup {n} /\ n \notin DOMAIN book /\ n \in Tickets
        /\ book'[n] = NewLeg(LegAt)
        /\ \A t \in DOMAIN book : book'[t] = book[t] /\ t < n
    BY <1>4 DEF Grown
  <2>2. pc \in {"buy", "sell"} /\ LegAt \in Sides /\ pc' \in Working
    BY <1>4, SendMoves DEF NextLeg, Working, Sending
  <2>3. /\ work'.got = [work.got EXCEPT ![LegAt] = "ok"]
        /\ work'.ticket = [work.ticket EXCEPT ![LegAt] = n]
    BY <1>4, <2>1, SendMoves
  <2>4. n \in Under'
    BY <1>1, <2>1, <2>2, <2>3 DEF Under, Placement
  <2>5. CASE f = n
    <3>1. \A t \in DOMAIN book : book[t].first # n
      BY <1>0, <2>1, InBook, BookBounds DEF TwinsOK, Order, Tickets
    <3>2. book'[n].first = n /\ n \in Nat
      BY <2>1, <2>5 DEF Tickets
    <3>3. \A t \in DOMAIN book' : book'[t].first <= t
      BY <2>1, <3>2 DEF TwinsOK
    <3>4. \A s, t \in DOMAIN book' :
            book'[s].first = book'[t].first
              => book'[s].label = book'[t].label /\ (s \in Under' <=> t \in Under')
      BY <1>2, <2>1, <2>2, <3>1, <3>2 DEF TwinsOK
    <3>5. work'.got["BUY"] = "ok" => book'[work'.ticket["BUY"]].first = work'.ticket["BUY"]
      <4>1. CASE LegAt = "BUY"
        BY <1>1, <2>1, <2>3, <3>2, <4>1 DEF Placement, Sides
      <4>2. CASE LegAt = "SELL"
        <5>1. work'.got["BUY"] = work.got["BUY"] /\ work'.ticket["BUY"] = work.ticket["BUY"]
          BY <1>1, <2>3, <4>2 DEF Placement, Sides
        <5>2. work.got["BUY"] = "ok" => work.ticket["BUY"] \in DOMAIN book
          BY <2>2 DEF PlacementOK, IsLegOf, Sides, Working, Sending
        <5> QED BY <2>1, <2>2, <5>1, <5>2 DEF TwinsOK, Working, Sending
      <4> QED BY <2>2, <4>1, <4>2 DEF Sides
    <3>6. pc' # "confirmed"
      BY <2>2 DEF Working
    <3> QED BY <3>3, <3>4, <3>5, <3>6 DEF TwinsOK
  <2>6. CASE f # n
    <3> DEFINE b == work.ticket["BUY"]
    <3>1. LegAt = "SELL" /\ work.got["BUY"] = "ok" /\ f = b
      BY <2>6 DEF NewLeg
    <3>2. b \in DOMAIN book /\ book[b].label = work.label /\ book[b].first = b /\ b \in Under
      <4>1. b \in DOMAIN book /\ book[b].label = work.label
        BY <2>2, <3>1 DEF PlacementOK, IsLegOf, Sides, Working, Sending
      <4>2. book[b].first = b
        BY <2>2, <3>1 DEF TwinsOK, Working, Sending
      <4>3. b \in Under
        BY <1>0, <2>2, <3>1, <4>1 DEF Under, Working, Sending, Sides
      <4> QED BY <4>1, <4>2, <4>3
    <3>3. book'[n].first = b /\ book'[n].label = work.label
      BY <2>1, <3>1 DEF NewLeg
    <3> HIDE DEF b, n, f
    <3>4. \A t \in DOMAIN book' : book'[t].first <= t
      BY <1>0, <2>1, <3>2, <3>3 DEF TwinsOK, Tickets
    <3>5. ASSUME NEW s \in DOMAIN book, book[s].first = b
          PROVE  book[s].label = work.label /\ s \in Under
      BY <3>2, <3>5 DEF TwinsOK
    <3>6. \A s, t \in DOMAIN book' :
            book'[s].first = book'[t].first
              => book'[s].label = book'[t].label /\ (s \in Under' <=> t \in Under')
      BY <1>2, <2>1, <2>2, <2>4, <3>3, <3>5 DEF TwinsOK
    <3>7. work'.ticket["BUY"] = b
      BY <1>1, <2>3, <3>1 DEF Placement, Sides, b
    <3>8. book'[b].first = b
      BY <2>1, <3>2
    <3>9. pc' # "confirmed"
      BY <2>2 DEF Working
    <3> QED BY <3>4, <3>6, <3>7, <3>8, <3>9 DEF TwinsOK
  <2> QED BY <2>5, <2>6
<1>5. CASE Alone
  <2> DEFINE n == Len(book) + 1
  <2>1. /\ DOMAIN book' = DOMAIN book \cup {n} /\ n \notin DOMAIN book /\ n \in Nat
        /\ book'[n].first = n
        /\ \A t \in DOMAIN book : book'[t] = book[t] /\ t < n
    <3>1. PICK s \in Sides, kind \in Kind, st \in {"pending", "open"} :
            Grown(book, LoneOrder(s, kind, st))
      BY <1>5, LoneMoves
    <3>2. LoneOrder(s, kind, st).first = n
      BY DEF LoneOrder
    <3> QED BY <3>1, <3>2 DEF Grown, Tickets
  <2>2. \A t \in DOMAIN book : book[t].first # n
    BY <1>0, <2>1, InBook, BookBounds DEF TwinsOK, Order, Tickets
  <2>3. pc' = "confirmed" => work'.ticket[Checking'] = n
    BY <1>5, LoneMoves, ResendMoves
  <2>4. \/ pc' \notin Working
        \/ UNCHANGED <<pc, work>> /\ pc \in Working
    BY <1>5, LoneMoves DEF Working
  <2> HIDE DEF n
  <2>5. \A t \in DOMAIN book' : book'[t].first <= t
    BY <2>1 DEF TwinsOK
  <2>6. \A s, t \in DOMAIN book' :
          book'[s].first = book'[t].first
            => book'[s].label = book'[t].label /\ (s \in Under' <=> t \in Under')
    BY <1>2, <2>1, <2>2, <2>4 DEF TwinsOK
  <2>7. pc' \in Working /\ work'.got["BUY"] = "ok"
          => book'[work'.ticket["BUY"]].first = work'.ticket["BUY"]
    <3>1. SUFFICES ASSUME pc \in Working, UNCHANGED work, work.got["BUY"] = "ok"
                   PROVE  book'[work.ticket["BUY"]].first = work.ticket["BUY"]
      BY <2>4
    <3>2. work.ticket["BUY"] \in DOMAIN book
      BY <3>1 DEF PlacementOK, IsLegOf, Sides
    <3> QED BY <2>1, <3>1, <3>2 DEF TwinsOK
  <2>8. pc' = "confirmed" =>
          \A s \in DOMAIN book' : s # work'.ticket[Checking']
            => book'[s].first # book'[work'.ticket[Checking']].first
    BY <2>1, <2>2, <2>3
  <2> QED BY <2>5, <2>6, <2>7, <2>8 DEF TwinsOK
<1> QED BY <1>3, <1>4, <1>5, BookSteps

-----------------------------------------------------------------------------
\* Forgetting keeps a record sound, and so does whatever happens to the book.
LEMMA SoundLess ==
  ASSUME IInv, NEW tr, NEW tr2, Sound(tr), \A t \in Tickets : tr2[t] \in {tr[t], "no"}
  PROVE  Sound(tr2)
<1>1. DOMAIN book \subseteq Tickets
  BY InBook
<1> QED BY <1>1 DEF Sound, Sibling

LEMMA SoundKept ==
  ASSUME IInv, PlacementOK, [Next]_vars, NEW tr, Sound(tr)
  PROVE  SoundNext(tr)
<1>1. /\ \A t \in DOMAIN book : t \in DOMAIN book' /\ book'[t].first = book[t].first
      /\ Under' \cap DOMAIN book \subseteq Under
  BY OldOrders, UnderSteps
<1>2. DOMAIN book' \subseteq Tickets
  <2>1. IInv'
    BY StepPreserves
  <2>2. book' \in Seq(Order) /\ Len(book') <= MaxTickets
    BY <2>1 DEF IInv, TypeOK, Order
  <2>3. Len(book') \in Nat /\ DOMAIN book' = 1..Len(book')
    BY <2>2, LenProperties
  <2> QED BY <2>2, <2>3, BookBounds DEF Tickets
<1>3. \A t \in Tickets : tr[t] # "no" => t \in DOMAIN book' /\ t \notin Under'
  BY <1>1 DEF Sound
<1>4. ASSUME NEW s \in DOMAIN book', NEW t \in DOMAIN book',
             s # t, book'[s].first = book'[t].first, tr[s] = "normal"
      PROVE  tr[t] \in {"no", "flag", "rescue"}
  <2>1. s \in DOMAIN book
    BY <1>2, <1>4 DEF Sound
  <2>2. CASE t \in DOMAIN book
    BY <1>1, <1>4, <2>1, <2>2 DEF Sound, Sibling
  <2>3. CASE t \notin DOMAIN book
    BY <1>2, <2>3 DEF Sound
  <2> QED BY <2>2, <2>3
<1> QED BY <1>3, <1>4 DEF SoundNext

\* What a reconcile makes of a sound record is sound: of two twins that filled
\* in one pass the older becomes the first leg, a pending twin gets its flag.
LEMMA ReconciledSound ==
  ASSUME IInv, TwinsOK, TracksOK, Sound(Rehydrated)
  PROVE  Sound(Reconciled)
<1> DEFINE R == Rehydrated
<1>1. DOMAIN book \subseteq Tickets /\ \A t \in DOMAIN book : t \in Nat
  BY InBook
<1>2. \A t \in Tickets : R[t] \in {"no", "pend", "flag", "normal", "rescue"}
  BY DEF Rehydrated, IInv, TypeOK, Track
<1>3. Filled \subseteq Tickets /\ \A t \in Filled : R[t] \in {"pend", "flag"} /\ t \in snap
  BY DEF Filled, Pends
<1>4. \A t \in Tickets :
        Promoted[t] = IF t \in Filled THEN IF IsRescue(t) THEN "rescue" ELSE "normal"
                      ELSE IF R[t] \in {"pend", "flag"} /\ \E s \in Filled : Sibling(s, t)
                      THEN "flag" ELSE R[t]
  BY DEF Promoted, Pends
<1>5. \A t \in Tickets : IsRescue(t) <=>
        \/ R[t] = "flag"
        \/ \E s \in Tickets : R[s] \in {"normal", "rescue"} /\ s \in snap /\ SameLabel(s, t)
        \/ \E s \in Filled : s < t /\ SameLabel(s, t)
  BY DEF IsRescue, Legs
<1>6. /\ \A t \in Tickets : R[t] # "no" => t \in DOMAIN book /\ t \notin Under
      /\ \A s, t \in DOMAIN book : Sibling(s, t) /\ R[s] = "normal" => R[t] \in {"no", "flag", "rescue"}
  BY DEF Sound
<1> HIDE DEF R
<1>7. \A t \in Tickets : Promoted[t] # "no" => t \in DOMAIN book /\ t \notin Under
  BY <1>3, <1>4, <1>6
<1>8. ASSUME NEW s \in DOMAIN book, NEW t \in DOMAIN book, Sibling(s, t), Promoted[s] = "normal"
      PROVE  Promoted[t] \in {"no", "flag", "rescue"}
  <2>1. Sibling(t, s) /\ SameLabel(t, s) /\ SameLabel(s, t) /\ s # t
    BY <1>8 DEF Sibling, SameLabel, TwinsOK
  <2>2. s \in Tickets /\ t \in Tickets
    BY <1>1
  <2>3. CASE s \in Filled
    <3>1. ~IsRescue(s) /\ R[s] = "pend"
      BY <1>3, <1>4, <1>5, <1>8, <2>2, <2>3
    <3>2. R[t] # "normal"
      BY <1>6, <2>1, <3>1
    <3>3. ASSUME t \in Filled PROVE IsRescue(t)
      <4>1. ~(t < s)
        BY <1>5, <2>1, <2>2, <3>1, <3>3
      <4>2. s < t
        BY <1>1, <2>1, <4>1
      <4> QED BY <1>5, <2>1, <2>2, <2>3, <4>2
    <3> QED BY <1>2, <1>4, <1>8, <2>2, <2>3, <3>2, <3>3
  <2>4. CASE s \notin Filled
    <3>1. R[s] = "normal"
      BY <1>4, <1>8, <2>2, <2>4
    <3>2. R[t] \in {"no", "flag", "rescue"}
      BY <1>6, <1>8, <3>1
    <3> QED BY <1>3, <1>4, <1>5, <2>2, <3>2
  <2> QED BY <2>3, <2>4
<1>9. Sound(Promoted)
  BY <1>7, <1>8 DEF Sound
<1>10. \A t \in Tickets : Reconciled[t] \in {Promoted[t], "no"}
  BY DEF Reconciled
<1> QED BY <1>9, <1>10, SoundLess

\* Rehydration only ever adds to an empty record.
LEMMA RehydratedFrom ==
  ASSUME IInv, TracksOK
  PROVE  /\ source = NoTrack => \A t \in Tickets : Rehydrated[t] = track[t]
         /\ \A t \in Tickets : \/ Rehydrated[t] = track[t]
                               \/ Rehydrated[t] = source[t] /\ source[t] # "no"
                                  /\ (t \in Pends(source) => t \in In("pending"))
         /\ Sound(Rehydrated)
<1>1. source = NoTrack => \A t \in Tickets : Rehydrated[t] = track[t]
  BY DEF Rehydrated, Legs, Pends, NoTrack
<1>2. \A t \in Tickets : \/ Rehydrated[t] = track[t]
                         \/ Rehydrated[t] = source[t] /\ source[t] # "no"
                            /\ (t \in Pends(source) => t \in In("pending"))
  BY DEF Rehydrated, Legs, Pends
<1>3. Sound(Rehydrated)
  <2>1. CASE source = NoTrack
    <3>1. \A t \in Tickets : Rehydrated[t] \in {track[t], "no"}
      BY <1>1, <2>1
    <3> QED BY <3>1, SoundLess DEF TracksOK
  <2>2. CASE track = NoTrack
    <3>1. \A t \in Tickets : Rehydrated[t] \in {source[t], "no"}
      BY <1>2, <2>2 DEF NoTrack
    <3> QED BY <3>1, SoundLess DEF TracksOK
  <2> QED BY <2>1, <2>2 DEF TracksOK
<1> QED BY <1>1, <1>2, <1>3

-----------------------------------------------------------------------------
\* A step whose new records are sound for the old book leaves them sound.
LEMMA RecordsKept ==
  ASSUME IInv, PlacementOK, [Next]_vars, Sound(track'), Sound(source'), Sound(disk'.track)
  PROVE  Sound(track)' /\ Sound(source)' /\ Sound(disk.track)'
<1>1. SoundNext(track') /\ SoundNext(source') /\ SoundNext(disk'.track)
  BY SoundKept
<1> QED BY <1>1 DEF SoundNext, Sound, Sibling

\* Memory, file and what is being rehydrated stay sound through every step.
LEMMA TracksKept ==
  ASSUME IInv, PlacementOK, TwinsOK, TracksOK, [Next]_vars
  PROVE  TracksOK'
<1>1. Sound(track) /\ Sound(source) /\ Sound(disk.track)
      /\ (source # NoTrack => track = NoTrack /\ pc \in Rehydrating)
      /\ (pc = "down" => track = NoTrack)
  BY DEF TracksOK
<1>2. DOMAIN book \subseteq Tickets
  BY InBook
<1>3. Sound(NoTrack)
  BY <1>2 DEF Sound, NoTrack
<1>4. CASE Quiet
  <2>1. Sound(track') /\ Sound(source') /\ Sound(disk'.track)
    BY <1>1, <1>4 DEF Quiet
  <2>2. UNCHANGED <<track, source>> /\ (pc \in Rehydrating => pc' \in Rehydrating)
        /\ (pc' = "down" => pc = "down")
    BY <1>4 DEF Quiet
  <2>3. Sound(track)' /\ Sound(source)' /\ Sound(disk.track)'
    BY <2>1, RecordsKept
  <2> QED BY <1>1, <2>2, <2>3 DEF TracksOK
<1>5. CASE \/ Broker \/ SkipLeg \/ SendLeg \/ PlacementGivenUp \/ AnswerLost \/ ConfirmSeen
           \/ ConfirmResend \/ ConfirmDone \/ OrphansCancel \/ \E s \in Sides : RecoveryLost(s)
  <2>1. UNCHANGED <<track, source, disk>>
        /\ (UNCHANGED pc \/ (pc \notin Rehydrating /\ pc' # "down"))
    <3>1. CASE Broker
      BY <3>1, BrokerMoves DEF Broker, idleVars
    <3>2. CASE SkipLeg \/ SendLeg \/ PlacementGivenUp \/ AnswerLost \/ OrphansCancel
      BY <3>2 DEF SkipLeg, SendLeg, PlacementGivenUp, AnswerLost, OrphansCancel, NextLeg,
                  Rehydrating, idleVars
    <3>3. CASE ConfirmSeen \/ ConfirmResend \/ ConfirmDone \/ \E s \in Sides : RecoveryLost(s)
      BY <3>3 DEF ConfirmSeen, ConfirmResend, ConfirmDone, RecoveryLost, Rehydrating
    <3> QED BY <1>5, <3>1, <3>2, <3>3
  <2>2. Sound(track)' /\ Sound(source)' /\ Sound(disk.track)'
    BY <1>1, <2>1, RecordsKept
  <2> QED BY <1>1, <2>1, <2>2 DEF TracksOK
<1>6. CASE \E plan \in {Sides, {"BUY"}, {"SELL"}} : StartPlacing(plan)
  <2>1. UNCHANGED <<track, source, disk>> /\ pc = "deferred" /\ pc' = "buy"
    BY <1>6, StartMoves DEF Sides
  <2>2. Sound(track)' /\ Sound(source)' /\ Sound(disk.track)'
    BY <1>1, <2>1, RecordsKept
  <2> QED BY <1>1, <2>1, <2>2 DEF TracksOK, Rehydrating
<1>7. CASE ClosePositions
  <2>1. /\ \A t \in Tickets : track'[t] \in {track[t], "no"}
        /\ track = NoTrack => track' = NoTrack
        /\ UNCHANGED <<source, disk>> /\ pc \in Flattening /\ pc' = Cancelling[pc]
    BY <1>7, CloseMoves DEF idleVars, NoTrack
  <2>2. pc \in Rehydrating => pc' \in Rehydrating
    BY <2>1 DEF Flattening, Cancelling, Rehydrating
  <2>3. pc' # "down"
    BY <2>1 DEF Flattening, Cancelling
  <2>4. Sound(track')
    BY <1>1, <2>1, SoundLess
  <2>5. Sound(track)' /\ Sound(source)' /\ Sound(disk.track)'
    BY <1>1, <2>1, <2>4, RecordsKept
  <2> QED BY <1>1, <2>1, <2>2, <2>3, <2>5 DEF TracksOK
<1>8. CASE CancelPendings
  <2>1. /\ \A t \in Tickets : track'[t] \in {track[t], "no"}
        /\ track = NoTrack => track' = NoTrack
        /\ UNCHANGED source /\ pc \in {"cancelCommand", "cancelKill", "cancelEod"}
        /\ pc' = AfterCancel /\ disk'.track \in {disk.track, track'}
    BY <1>8, CancelMoves DEF TrackAfterCancel, NoTrack
  <2>2. pc \in Rehydrating => pc' \in Rehydrating
    BY <2>1 DEF AfterCancel, Rehydrating
  <2>3. pc' # "down"
    BY <2>1 DEF AfterCancel
  <2>4. Sound(track')
    BY <1>1, <2>1, SoundLess
  <2>5. Sound(track)' /\ Sound(source)' /\ Sound(disk.track)'
    BY <1>1, <2>1, <2>4, RecordsKept
  <2> QED BY <1>1, <2>1, <2>2, <2>3, <2>5 DEF TracksOK
<1>9. CASE ReadPositions \/ Restart \/ Crash
  <2>1. Sound(track') /\ Sound(source') /\ Sound(disk'.track)
    BY <1>1, <1>3, <1>9 DEF ReadPositions, Restart, Crash
  <2>2. (source' # NoTrack => track' = NoTrack /\ pc' \in Rehydrating)
        /\ (pc' = "down" => track' = NoTrack)
    BY <1>1, <1>9 DEF ReadPositions, Restart, Crash, Rehydrating
  <2>3. Sound(track)' /\ Sound(source)' /\ Sound(disk.track)'
    BY <2>1, RecordsKept
  <2> QED BY <2>2, <2>3 DEF TracksOK
<1>10. CASE Reconcile
  <2>1. /\ track' = Reconciled /\ source' = NoTrack /\ disk'.track \in {disk.track, Reconciled}
        /\ pc' = "kill"
    BY <1>10 DEF Reconcile, Save
  <2>2. Sound(Reconciled)
    BY RehydratedFrom, ReconciledSound
  <2>3. Sound(track') /\ Sound(source') /\ Sound(disk'.track)
    BY <1>1, <1>3, <2>1, <2>2
  <2>4. Sound(track)' /\ Sound(source)' /\ Sound(disk.track)'
    BY <2>3, RecordsKept
  <2> QED BY <2>1, <2>4 DEF TracksOK
<1>11. CASE PlacementMarked
  <2>1. UNCHANGED <<track, source>> /\ pc = "resolve" /\ pc' = "record"
        /\ disk'.track \in {disk.track, track}
    BY <1>11 DEF PlacementMarked, MarkPlaced, Save, idleVars
  <2>2. Sound(track)' /\ Sound(source)' /\ Sound(disk.track)'
    BY <1>1, <2>1, RecordsKept
  <2> QED BY <1>1, <2>1, <2>2 DEF TracksOK, Rehydrating
<1>12. CASE RecordPendings
  <2>1. /\ track' = [t \in Tickets |->
             IF \E s \in work.plan : work.ticket[s] = t THEN "pend" ELSE track[t]]
        /\ UNCHANGED <<book, source, disk>> /\ pc = "record" /\ pc' \in {"trails", "confirm"}
    BY <1>12 DEF RecordPendings
  <2>2. work.plan \subseteq Sides
    BY DEF IInv, WorkOK, Placement
  <2>3. \A t \in Tickets : track'[t] = track[t] \/ (track'[t] = "pend" /\ t \in Under)
    BY <2>1, <2>2, UnderIs DEF Tried, Working
  <2>4. Under' = {} /\ source = NoTrack
    BY <1>1, <2>1 DEF Under, Working, Rehydrating
  <2>5. \A t \in Tickets : track'[t] # "no" => t \in DOMAIN book' /\ t \notin Under'
    BY <1>1, <2>1, <2>3, <2>4, UnderIs DEF Sound
  <2>6. ASSUME NEW s \in DOMAIN book, NEW t \in DOMAIN book, Sibling(s, t), track'[s] = "normal"
        PROVE  track'[t] \in {"no", "flag", "rescue"}
    <3>1. track[s] = "normal" /\ s \notin Under
      BY <1>1, <1>2, <2>3, <2>6 DEF Sound
    <3>2. t \notin Under
      BY <2>6, <3>1 DEF TwinsOK, Sibling
    <3> QED BY <1>1, <1>2, <2>3, <2>6, <3>1, <3>2 DEF Sound
  <2>7. Sound(track)'
    BY <2>1, <2>5, <2>6 DEF Sound, Sibling
  <2>8. Sound(source)' /\ Sound(disk.track)'
    BY <1>1, <2>1, <2>4 DEF Sound, Sibling
  <2> QED BY <2>1, <2>4, <2>7, <2>8 DEF TracksOK
<1>13. CASE \E s \in Sides : BreakoutRecovered(s)
  <2>1. PICK side \in Sides : BreakoutRecovered(side)
    BY <1>13
  <2> DEFINE n == Len(book) + 1
  <2>2. /\ DOMAIN book' = DOMAIN book \cup {n} /\ n \notin DOMAIN book /\ n \in Tickets
        /\ book'[n].first = n
        /\ \A t \in DOMAIN book : book'[t].first = book[t].first /\ t < n
    <3>1. Grown(book, LoneOrder(side, "leg", "open"))
      BY <2>1, BreakoutMoves
    <3>2. LoneOrder(side, "leg", "open").first = n
      BY DEF LoneOrder
    <3> QED BY <3>1, <3>2 DEF Grown
  <2>3. /\ track' = [track EXCEPT ![n] = "normal"] /\ disk'.track = track'
        /\ UNCHANGED source /\ pc = "recover" /\ pc' = "trails"
    BY <2>1, BreakoutMoves
  <2> HIDE DEF n
  <2>4. track \in Track
    BY DEF IInv, TypeOK
  <2>5. \A t \in Tickets : track'[t] = IF t = n THEN "normal" ELSE track[t]
    BY <2>3, <2>4 DEF Track
  <2>6. Under' = {} /\ source' = NoTrack
    BY <1>1, <2>3 DEF Under, Working, Sending, Rehydrating
  <2>7. \A t \in DOMAIN book : book[t].first # n
    BY <1>2, <2>2, InBook, BookBounds DEF TwinsOK, Order, Tickets
  <2>8. Sound(track)'
    <3>1. \A t \in Tickets : track'[t] # "no" => t \in DOMAIN book' /\ t \notin Under'
      BY <1>1, <2>2, <2>5, <2>6 DEF Sound
    <3>2. ASSUME NEW s \in DOMAIN book', NEW t \in DOMAIN book',
                 s # t, book'[s].first = book'[t].first, track'[s] = "normal"
          PROVE  track'[t] \in {"no", "flag", "rescue"}
      <4>1. s \in DOMAIN book /\ t \in DOMAIN book
        BY <2>2, <2>7, <3>2
      <4> QED BY <1>1, <1>2, <2>2, <2>5, <3>2, <4>1 DEF Sound, Sibling
    <3> QED BY <3>1, <3>2 DEF Sound, Sibling
  <2>9. Sound(source)'
    BY <1>2, <2>2, <2>6 DEF Sound, NoTrack
  <2>10. Sound(disk.track)'
    BY <2>3, <2>8 DEF Sound, Sibling
  <2> QED BY <2>3, <2>6, <2>8, <2>9, <2>10 DEF TracksOK
<1>14. CASE ConfirmRecord
  <2> DEFINE n == work.ticket[Checking]
  <2>1. /\ UNCHANGED <<book, source, disk>> /\ pc = "confirmed" /\ pc' = "confirm"
        /\ track' = track \/ track' = [track EXCEPT ![n] = "pend"]
    BY <1>14 DEF ConfirmRecord
  <2>2. n \in DOMAIN book /\ \A s \in DOMAIN book : s # n => book[s].first # book[n].first
    BY <2>1 DEF IInv, WorkOK, TwinsOK
  <2>3. source = NoTrack /\ Under' = {} /\ track \in Track
    BY <1>1, <2>1 DEF Under, Working, Rehydrating, IInv, TypeOK
  <2> HIDE DEF n
  <2>4. \A t \in Tickets : track'[t] = track[t] \/ (t = n /\ track'[t] = "pend")
    BY <2>1, <2>3 DEF Track
  <2>5. \A t \in Tickets : track'[t] # "no" => t \in DOMAIN book' /\ t \notin Under'
    BY <1>1, <2>1, <2>2, <2>3, <2>4 DEF Sound
  <2>6. ASSUME NEW s \in DOMAIN book, NEW t \in DOMAIN book, Sibling(s, t), track'[s] = "normal"
        PROVE  track'[t] \in {"no", "flag", "rescue"}
    <3>1. s # n /\ t # n
      BY <2>2, <2>6 DEF Sibling
    <3> QED BY <1>1, <1>2, <2>4, <2>6, <3>1 DEF Sound
  <2>7. Sound(track)'
    BY <2>1, <2>5, <2>6 DEF Sound, Sibling
  <2>8. Sound(source)' /\ Sound(disk.track)'
    BY <1>1, <2>1, <2>3 DEF Sound, Sibling
  <2> QED BY <2>1, <2>3, <2>7, <2>8 DEF TracksOK
<1> QED BY <1>4, <1>5, <1>6, <1>7, <1>8, <1>9, <1>10, <1>11, <1>12, <1>13, <1>14, QuietSteps
        DEF Next, Tick, Place

-----------------------------------------------------------------------------
\* What a step does to an order: it fills, it closes, it is swept, or it is
\* cancelled -- by a flatten that has it on record, or with its placement.
LEMMA StatusSteps ==
  ASSUME IInv, PlacementOK, [Next]_vars, NEW t \in DOMAIN book
  PROVE  \/ book'[t].st = book[t].st
         \/ book[t].st = "pending" /\ book'[t].st \in {"open", "swept"}
         \/ book[t].st = "open" /\ book'[t].st = "closed"
         \/ /\ book[t].st = "pending" /\ book'[t].st = "cancelled"
            /\ \/ CancelPendings /\ t \in Pends(track) /\ track'[t] = "no"
               \/ OrphansCancel /\ t \in Under
<1>1. CASE Quiet \/ ReadPositions \/ Reconcile \/ SkipLeg \/ PlacementMarked \/ RecordPendings
           \/ ConfirmSeen \/ ConfirmRecord \/ ConfirmDone \/ PlacementGivenUp \/ Restart
  BY <1>1 DEF Quiet, ReadPositions, Reconcile, SkipLeg, PlacementMarked, RecordPendings, ConfirmSeen,
              ConfirmRecord, ConfirmDone, PlacementGivenUp, Restart
<1>2. CASE Broker
  <2>1. PICK u \in DOMAIN book : BrokerFills(u) \/ BrokerCloses(u)
    BY <1>2 DEF Broker
  <2>2. Moved({u}, "pending", "open") \/ Moved({u}, "open", "closed")
    BY <2>1, BrokerMoves
  <2> QED BY <2>2 DEF Moved
<1>3. CASE ClosePositions
  BY <1>3, CloseMoves DEF Moved
<1>4. CASE CancelPendings
  <2>1. PICK refused, unseen :
          /\ Moved(Pends(track) \ refused, "pending", "cancelled")
          /\ track' = TrackAfterCancel(refused \ unseen)
    BY <1>4, CancelMoves
  <2>2. t \in Pends(track) \ refused => track'[t] = "no"
    BY <2>1 DEF TrackAfterCancel, Pends
  <2> QED BY <1>4, <2>1, <2>2 DEF Moved
<1>5. CASE \E plan \in {Sides, {"BUY"}, {"SELL"}} : StartPlacing(plan)
  <2>1. PICK plan \in SUBSET Sides : StartPlacing(plan)
    BY <1>5 DEF Sides
  <2>2. PICK swept \in SUBSET In("pending") : Moved(swept, "pending", "swept")
    BY <2>1, StartMoves
  <2> QED BY <2>2 DEF Moved
<1>6. CASE SendLeg \/ Alone
  BY <1>6, SendMoves, LoneMoves DEF Grown
<1>7. CASE OrphansCancel
  BY <1>7, OrphansMove
<1>8. CASE Crash
  BY <1>8, CrashMoves
<1> QED BY <1>1, <1>2, <1>3, <1>4, <1>5, <1>6, <1>7, <1>8, QuietSteps DEF Next, Tick, Place, Alone

\* What a step does to the kind of an order: a placement that is given up or cut
\* off by a crash loses sight of its own.
LEMMA KindSteps ==
  ASSUME IInv, PlacementOK, [Next]_vars, NEW t \in DOMAIN book
  PROVE  \/ book'[t].kind = book[t].kind
         \/ book'[t].kind = "stray" /\ t \in Under /\ (OrphansCancel \/ (Crash /\ pc # "record"))
<1>1. CASE Quiet \/ ReadPositions \/ Reconcile \/ SkipLeg \/ PlacementMarked \/ RecordPendings
           \/ ConfirmSeen \/ ConfirmRecord \/ ConfirmDone \/ PlacementGivenUp \/ Restart
  BY <1>1 DEF Quiet, ReadPositions, Reconcile, SkipLeg, PlacementMarked, RecordPendings, ConfirmSeen,
              ConfirmRecord, ConfirmDone, PlacementGivenUp, Restart
<1>2. CASE Broker
  BY <1>2, BrokerMoves DEF Broker, Moved
<1>3. CASE ClosePositions \/ CancelPendings
  BY <1>3, CloseMoves, CancelMoves DEF Moved
<1>4. CASE \E plan \in {Sides, {"BUY"}, {"SELL"}} : StartPlacing(plan)
  <2>1. PICK plan \in SUBSET Sides : StartPlacing(plan)
    BY <1>4 DEF Sides
  <2> QED BY <2>1, StartMoves DEF Moved
<1>5. CASE SendLeg \/ Alone
  BY <1>5, SendMoves, LoneMoves DEF Grown
<1>6. CASE OrphansCancel
  BY <1>6, OrphansMove
<1>7. CASE Crash
  BY <1>7, CrashMoves
<1> QED BY <1>1, <1>2, <1>3, <1>4, <1>5, <1>6, <1>7, QuietSteps DEF Next, Tick, Place, Alone

\* What a step does to the record: only a reconcile, the recording of the
\* pendings, the confirmation and a recovered breakout put anything into it.
LEMMA RecordSteps ==
  ASSUME IInv, PlacementOK, [Next]_vars, NEW t \in Tickets
  PROVE  \/ Reconcile
         \/ track'[t] \in {track[t], "no"}
         \/ RecordPendings /\ t \in Under /\ track'[t] = "pend"
         \/ ConfirmRecord /\ t \in In("pending") /\ track'[t] = "pend"
         \/ /\ \E s \in Sides : BreakoutRecovered(s)
            /\ t \in DOMAIN book' /\ book'[t].st = "open" /\ track'[t] = "normal"
            /\ t \notin DOMAIN book
<1>1. CASE Quiet \/ ReadPositions \/ SkipLeg \/ PlacementMarked \/ PlacementGivenUp
           \/ OrphansCancel \/ AnswerLost \/ Crash \/ Restart
  BY <1>1 DEF Quiet, ReadPositions, SkipLeg, PlacementMarked, PlacementGivenUp, OrphansCancel,
              AnswerLost, Crash, Restart, NoTrack, idleVars
<1>2. CASE ConfirmSeen \/ ConfirmResend \/ ConfirmDone \/ \E s \in Sides : RecoveryLost(s)
  BY <1>2 DEF ConfirmSeen, ConfirmResend, ConfirmDone, RecoveryLost
<1>3. CASE Broker \/ SendLeg \/ \E plan \in {Sides, {"BUY"}, {"SELL"}} : StartPlacing(plan)
  BY <1>3, BrokerMoves DEF Broker, SendLeg, StartPlacing
<1>4. CASE ClosePositions \/ CancelPendings
  BY <1>4, CloseMoves, CancelMoves DEF TrackAfterCancel
<1>5. CASE RecordPendings
  <2>1. /\ track' = [u \in Tickets |->
             IF \E s \in work.plan : work.ticket[s] = u THEN "pend" ELSE track[u]]
        /\ pc \in Working /\ pc = "record"
    BY <1>5 DEF RecordPendings, Working
  <2>2. work.plan \subseteq Sides
    BY DEF IInv, WorkOK, Placement
  <2>3. track'[t] = track[t] \/ (track'[t] = "pend" /\ t \in Under)
    BY <2>1, <2>2, UnderIs DEF Tried
  <2> QED BY <1>5, <2>3
<1>6. CASE ConfirmRecord
  <2>1. \/ track' = track
        \/ track' = [track EXCEPT ![work.ticket[Checking]] = "pend"]
           /\ work.ticket[Checking] \in In("pending")
    BY <1>6 DEF ConfirmRecord
  <2>2. track \in Track
    BY DEF IInv, TypeOK
  <2> QED BY <1>6, <2>1, <2>2 DEF Track
<1>7. CASE \E s \in Sides : BreakoutRecovered(s)
  <2>1. PICK side \in Sides : BreakoutRecovered(side)
    BY <1>7
  <2> DEFINE n == Len(book) + 1
  <2>2. n \in DOMAIN book' /\ book'[n].st = "open" /\ n \notin DOMAIN book
    <3>1. Grown(book, LoneOrder(side, "leg", "open"))
      BY <2>1, BreakoutMoves
    <3> QED BY <3>1 DEF Grown, LoneOrder
  <2>3. track' = [track EXCEPT ![n] = "normal"]
    BY <2>1, BreakoutMoves
  <2> HIDE DEF n
  <2>4. track'[t] = IF t = n THEN "normal" ELSE track[t]
    BY <2>3 DEF IInv, TypeOK, Track
  <2> QED BY <1>7, <2>2, <2>4
<1> QED BY <1>1, <1>2, <1>3, <1>4, <1>5, <1>6, <1>7, QuietSteps DEF Next, Tick, Place

\* What a reconcile records, the broker has: the legs are in the positions it
\* read, the pendings were recorded before or are pending now.
LEMMA ReconciledReal ==
  ASSUME IInv, TracksOK, RealOK, pc = "reconcile", NEW t \in Tickets
  PROVE  /\ t \in Legs(Reconciled) => t \in DOMAIN book /\ book[t].st \in {"open", "closed"}
         /\ t \in Pends(Reconciled) => t \in DOMAIN book /\ book[t].st # "cancelled"
<1>1. t \in Legs(Reconciled) => t \in snap
  BY DEF Reconciled, Gone, Legs
<1>2. t \in Pends(Reconciled) => t \in Pends(Rehydrated)
  BY DEF Reconciled, Promoted, Pends, Legs, Filled
<1>3. t \in Pends(Rehydrated) => t \in Pends(track) \/ t \in In("pending")
  BY RehydratedFrom DEF Pends
<1> QED BY <1>1, <1>2, <1>3 DEF RealOK, TrackedIsReal, IInv, TypeOK, In

\* An order on record is cancelled only by a flatten, which takes it off.
LEMMA RealKept ==
  ASSUME IInv, PlacementOK, TracksOK, RealOK, [Next]_vars
  PROVE  RealOK'
<1>1. DOMAIN book \subseteq Tickets /\ \A t \in DOMAIN book : t \in DOMAIN book'
  BY InBook, OldOrders
<1>2. ASSUME NEW t \in Tickets
      PROVE  /\ t \in Legs(track') => t \in DOMAIN book' /\ book'[t].st \in {"open", "closed"}
             /\ t \in Pends(track') => t \in DOMAIN book' /\ book'[t].st # "cancelled"
  <2>1. CASE Reconcile
    <3>1. pc = "reconcile" /\ track' = Reconciled /\ book' = book
      BY <2>1 DEF Reconcile
    <3> QED BY <3>1, ReconciledReal
  <2>2. CASE RecordPendings /\ t \in Under /\ track'[t] = "pend"
    <3>1. book' = book
      BY <2>2 DEF RecordPendings
    <3> QED BY <2>2, <3>1, UnderIs DEF Legs, Pends
  <2>3. CASE t \in DOMAIN book' /\ book'[t].st = "open" /\ track'[t] = "normal"
    BY <2>3 DEF Legs, Pends
  <2>4. CASE track'[t] \in {track[t], "no"}
    <3>1. /\ t \in Legs(track') => t \in Legs(track)
          /\ t \in Pends(track') => t \in Pends(track) /\ track'[t] # "no"
      BY <2>4 DEF Legs, Pends
    <3>2. t \in Legs(track) \cup Pends(track) => t \in DOMAIN book /\ t \notin Under
      BY DEF TracksOK, Sound, Legs, Pends
    <3> QED BY <1>1, <3>1, <3>2, StatusSteps DEF RealOK, TrackedIsReal
  <2>5. CASE ConfirmRecord /\ t \in In("pending") /\ track'[t] = "pend"
    <3>1. book' = book
      BY <2>5 DEF ConfirmRecord
    <3> QED BY <2>5, <3>1 DEF Legs, Pends, In
  <2> QED BY <2>1, <2>2, <2>3, <2>4, <2>5, RecordSteps
<1>3. TrackedIsReal'
  BY <1>2 DEF TrackedIsReal, Legs, Pends
<1>4. ASSUME pc' \in {"reconcile", "kill"}, NEW t \in snap'
      PROVE  book'[t].st \in {"open", "closed"}
  <2>1. CASE pc \in {"reconcile", "kill"} /\ UNCHANGED snap
    <3>1. t \in DOMAIN book /\ book[t].st \in {"open", "closed"}
      BY <1>4, <2>1 DEF RealOK, IInv, TypeOK
    <3> QED BY <3>1, StatusSteps
  <2>2. CASE ReadPositions
    BY <1>4, <2>2 DEF ReadPositions, In
  <2>3. CASE Broker \/ Reconcile
    BY <1>4, <2>1, <2>3, BrokerMoves DEF Broker, Reconcile, idleVars
  <2>4. CASE Quiet
    BY <1>4, <2>1, <2>4 DEF Quiet
  <2>5. ASSUME \/ ClosePositions \/ CancelPendings \/ (Place /\ ~AnswerLost) \/ Crash \/ Restart
        PROVE  FALSE
    BY <1>4, <2>5 DEF ClosePositions, CancelPendings, Place, StartPlacing, SendLeg, SkipLeg,
       PlacementMarked, RecordPendings, BreakoutRecovered, RecoveryLost, PlacementGivenUp,
       OrphansCancel, ConfirmSeen, ConfirmResend, ConfirmRecord, ConfirmDone, Crash, Restart,
       Cancelling, Flattening, AfterCancel, NextLeg
  <2>6. CASE AnswerLost
    BY <1>4, <2>1, <2>6, LostMoves DEF idleVars
  <2> QED BY <2>2, <2>3, <2>4, <2>5, <2>6, QuietSteps DEF Next, Tick
<1> QED BY <1>3, <1>4 DEF RealOK

-----------------------------------------------------------------------------
\* Two orders of one anchor, side, day and kind that were not cancelled are one
\* order, but for the strays.
OneEach ==
  \A a, b \in DOMAIN book :
    /\ Live(book[a]) /\ Live(book[b])
    /\ book[a].label = book[b].label /\ book[a].side = book[b].side /\ book[a].day = book[b].day
    /\ book[a].kind = book[b].kind
    => a = b

\* The legs the confirmation may still send again.
ToResend ==
  CASE pc = "record" -> Sides
    [] pc = "confirm" -> work.plan
    [] pc = "confirmed" -> work.plan \ {Checking}
    [] OTHER -> {}

\* Every live order is marked, or its placement is under way, and what was sent
\* again is of a marked anchor whose confirmation is past that leg.
PlacedOK ==
  /\ \A t \in DOMAIN book :
       Live(book[t]) => <<book[t].label, book[t].day>> \in marked \/ t \in Under
  /\ \A t \in DOMAIN book :
       Live(book[t]) /\ book[t].kind = "again" =>
         /\ <<book[t].label, book[t].day>> \in marked
         /\ book[t].label = work.label /\ book[t].day = mem.day => book[t].side \notin ToResend
  /\ pc \in {"record"} \cup Confirming => <<work.label, mem.day>> \in marked
  /\ OneEach

\* What is under way leaves the placement when it is recorded, given up or cut off.
LEMMA UnderLeaves ==
  ASSUME IInv, PlacementOK, [Next]_vars, NEW t \in Under
  PROVE  t \in Under' \/ RecordPendings \/ OrphansCancel \/ Crash
<1>1. CASE pc' \in Working
  BY <1>1, UnderSteps
<1>2. CASE pc' \notin Working
  <2>1. pc \in Working
    BY UnderIs
  <2>2. ~Quiet
    BY <1>2, <2>1 DEF Quiet
  <2>3. ~Broker
    BY <1>2, <2>1, BrokerMoves DEF Broker
  <2>4. ~SendLeg /\ ~SkipLeg /\ ~PlacementMarked /\ ~AnswerLost
    BY <1>2, <2>1 DEF SendLeg, SkipLeg, PlacementMarked, AnswerLost, NextLeg, Working
  <2>5. ~\E plan \in {Sides, {"BUY"}, {"SELL"}} : StartPlacing(plan)
    BY <2>1 DEF StartPlacing, Working
  <2>6. /\ ~ClosePositions /\ ~CancelPendings /\ ~ReadPositions /\ ~Reconcile /\ ~Restart
        /\ ~ConfirmSeen /\ ~ConfirmResend /\ ~ConfirmRecord /\ ~ConfirmDone /\ ~PlacementGivenUp
        /\ ~\E s \in Sides : BreakoutRecovered(s) \/ RecoveryLost(s)
    BY <2>1 DEF ClosePositions, CancelPendings, ReadPositions, Reconcile, Restart, ConfirmSeen,
                ConfirmResend, ConfirmRecord, ConfirmDone, PlacementGivenUp, BreakoutRecovered,
                RecoveryLost, Flattening, Working
  <2> QED BY <2>2, <2>3, <2>4, <2>5, <2>6, QuietSteps DEF Next, Tick, Place
<1> QED BY <1>1, <1>2

\* So what is live and no longer under way is marked.
LEMMA UnderMarked ==
  ASSUME IInv, PlacementOK, PlacedOK, [Next]_vars, NEW t \in Under, Live(book'[t])
  PROVE  t \in Under' \/ (pc = "record" /\ <<book[t].label, book[t].day>> \in marked)
<1>1. t \in DOMAIN book /\ pc \in Working
  BY UnderIs
<1>2. PICK s \in Sides : work.got[s] = "ok" /\ work.ticket[s] = t
  BY DEF Under
<1>3. book[t].label = work.label /\ book[t].day = mem.day
  BY <1>1, <1>2 DEF PlacementOK, IsLegOf
<1>4. ~OrphansCancel
  BY <1>1, OrphansMove DEF Live
<1>5. Crash => pc = "record"
  BY <1>1, CrashMoves DEF Live
<1>6. RecordPendings => pc = "record"
  BY DEF RecordPendings
<1> QED BY <1>3, <1>4, <1>5, <1>6, UnderLeaves DEF PlacedOK

\* The marks only grow.
LEMMA MarkedGrows ==
  ASSUME IInv, [Next]_vars
  PROVE  marked \subseteq marked'
<1>1. CASE PlacementMarked \/ \E s \in Sides : BreakoutRecovered(s)
  BY <1>1 DEF PlacementMarked, BreakoutRecovered
<1>2. CASE Broker \/ ClosePositions \/ CancelPendings \/ SendLeg \/ AnswerLost \/ OrphansCancel
           \/ \E plan \in {Sides, {"BUY"}, {"SELL"}} : StartPlacing(plan)
  BY <1>2, BrokerMoves DEF Broker, ClosePositions, CancelPendings, SendLeg, AnswerLost,
     OrphansCancel, StartPlacing, history
<1>3. CASE Quiet \/ ReadPositions \/ Reconcile \/ SkipLeg \/ RecordPendings \/ PlacementGivenUp
           \/ Crash \/ Restart \/ \E s \in Sides : RecoveryLost(s)
  BY <1>3 DEF Quiet, ReadPositions, Reconcile, SkipLeg, RecordPendings, PlacementGivenUp,
              Crash, Restart, RecoveryLost, history
<1>4. CASE ConfirmSeen \/ ConfirmResend \/ ConfirmRecord \/ ConfirmDone
  BY <1>4 DEF ConfirmSeen, ConfirmResend, ConfirmRecord, ConfirmDone, history
<1> QED BY <1>1, <1>2, <1>3, <1>4, QuietSteps DEF Next, Tick, Place

\* An order that is live was live before, or is new, and kept its kind.
LEMMA LiveBefore ==
  ASSUME IInv, PlacementOK, [Next]_vars, NEW t \in DOMAIN book, Live(book'[t])
  PROVE  Live(book[t]) /\ book'[t].kind = book[t].kind
BY StatusSteps, KindSteps DEF Live

\* How a step comes to the confirmation: from marking the anchor, or within it.
LEMMA ConfirmSteps ==
  ASSUME IInv, [Next]_vars, pc' \in {"record"} \cup Confirming
  PROVE  \/ PlacementMarked
         \/ /\ pc \in {"record"} \cup Confirming /\ ~Crash
            /\ work'.label = work.label /\ mem'.day = mem.day
            /\ ToResend' \subseteq ToResend
<1>0. work \in Placement
  BY DEF IInv, WorkOK
<1>1. CASE UNCHANGED <<pc, work, mem>>
  <2>1. ToResend' = ToResend
    BY <1>1 DEF ToResend, Checking
  <2>2. ~Crash
    BY <1>1 DEF Crash
  <2> QED BY <1>1, <2>1, <2>2
<1>2. CASE Quiet
  BY <1>1, <1>2 DEF Quiet, Working, Confirming
<1>3. CASE Broker \/ AnswerLost
  <2>1. UNCHANGED <<pc, work, mem>>
    BY <1>3, BrokerMoves DEF Broker, AnswerLost, idleVars
  <2> QED BY <1>1, <2>1
<1>4. CASE RecordPendings
  <2>1. pc = "record" /\ pc' \in {"confirm", "trails"} /\ mem' = mem
    BY <1>4 DEF RecordPendings
  <2>2. pc' = "confirm" /\ work'.label = work.label /\ work'.plan = work.plan
    BY <1>0, <1>4, <2>1 DEF RecordPendings, Confirming, Placement
  <2>3. ToResend = Sides /\ ToResend' = work.plan /\ work.plan \subseteq Sides
    BY <1>0, <2>1, <2>2 DEF ToResend, Placement
  <2> QED BY <1>4, <2>1, <2>2, <2>3 DEF Crash
<1>5. CASE ConfirmSeen
  <2>1. /\ pc = "confirm" /\ pc' = "confirm" /\ mem' = mem
        /\ work'.label = work.label /\ work'.plan = work.plan \ {Checking}
    BY <1>0, <1>5 DEF ConfirmSeen, Placement
  <2>2. ToResend = work.plan /\ ToResend' = work.plan \ {Checking}
    BY <2>1 DEF ToResend
  <2> QED BY <2>1, <2>2 DEF Confirming, Crash
<1>6. CASE ConfirmResend
  <2>1. /\ pc = "confirm" /\ pc' = "confirmed" /\ mem' = mem
        /\ work'.label = work.label /\ work'.plan = work.plan /\ Checking' = Checking
    BY <1>6, ResendMoves
  <2>2. ToResend = work.plan /\ ToResend' = work.plan \ {Checking}
    BY <2>1 DEF ToResend
  <2> QED BY <2>1, <2>2 DEF Confirming, Crash
<1>7. CASE ConfirmRecord
  <2>1. /\ pc = "confirmed" /\ pc' = "confirm" /\ mem' = mem
        /\ work'.label = work.label /\ work'.plan = work.plan \ {Checking}
    BY <1>0, <1>7 DEF ConfirmRecord, Placement
  <2>2. ToResend = work.plan \ {Checking} /\ ToResend' = work.plan \ {Checking}
    BY <2>1 DEF ToResend
  <2> QED BY <2>1, <2>2 DEF Confirming, Crash
<1>8. ASSUME \/ ClosePositions \/ CancelPendings \/ ReadPositions \/ Reconcile
             \/ SendLeg \/ SkipLeg \/ PlacementGivenUp \/ Crash \/ Restart \/ OrphansCancel
             \/ ConfirmDone
             \/ \E s \in Sides : BreakoutRecovered(s) \/ RecoveryLost(s)
             \/ \E plan \in {Sides, {"BUY"}, {"SELL"}} : StartPlacing(plan)
      PROVE  FALSE
  BY <1>8 DEF ClosePositions, CancelPendings, ReadPositions, Reconcile, PlacementGivenUp, Crash,
     Restart, BreakoutRecovered, RecoveryLost, SendLeg, SkipLeg, StartPlacing, OrphansCancel,
     ConfirmDone, Cancelling, Flattening, AfterCancel, NextLeg, Confirming
<1> QED BY <1>2, <1>3, <1>4, <1>5, <1>6, <1>7, <1>8, QuietSteps DEF Next, Tick, Place

\* Before the mark no order of the anchor at work is live but those under way.
LEMMA AtWorkUnder ==
  ASSUME IInv, PlacedOK, pc \in Sending
  PROVE  /\ <<work.label, mem.day>> \notin marked
         /\ \A t \in DOMAIN book :
              Live(book[t]) /\ book[t].label = work.label /\ book[t].day = mem.day
                => t \in Under /\ book[t].kind # "again"
<1>1. <<work.label, mem.day>> \notin marked
  <2>1. mem.day \in Nat /\ work.label \notin mem.placed /\ Knows(mem)
    BY BookBounds DEF IInv, MarksKept, TypeOK, State, Sending
  <2> QED BY <2>1 DEF Knows
<1> QED BY <1>1 DEF PlacedOK

\* A leg is accepted for an anchor that is not marked, and whose other orders
\* under way are of the other side; one is sent again for a marked anchor, once
\* for each of its legs.
LEMMA PlacedKept ==
  ASSUME IInv, PlacementOK, PlacedOK, [Next]_vars
  PROVE  PlacedOK'
<1>1. marked \subseteq marked'
  BY MarkedGrows
<1>2. \A t \in DOMAIN book : Live(book'[t]) => Live(book[t]) /\ book'[t].kind = book[t].kind
  BY LiveBefore
<1>3. ASSUME NEW t \in DOMAIN book, Live(book'[t])
      PROVE  <<book'[t].label, book'[t].day>> \in marked' \/ t \in Under'
  BY <1>1, <1>2, <1>3, OldOrders, UnderMarked DEF PlacedOK
<1>4. \A a, b \in DOMAIN book :
    /\ Live(book'[a]) /\ Live(book'[b])
    /\ book'[a].label = book'[b].label /\ book'[a].side = book'[b].side
    /\ book'[a].day = book'[b].day /\ book'[a].kind = book'[b].kind
    => a = b
  BY <1>2, OldOrders DEF PlacedOK, OneEach
<1>5. pc' \in {"record"} \cup Confirming => <<work'.label, mem'.day>> \in marked'
  <2>1. CASE PlacementMarked
    BY <2>1 DEF PlacementMarked, MarkPlaced, idleVars, IInv, TypeOK, State
  <2> QED BY <1>1, <2>1, ConfirmSteps DEF PlacedOK
<1>6. ASSUME NEW t \in DOMAIN book, Live(book'[t]), book'[t].kind = "again"
      PROVE  /\ <<book'[t].label, book'[t].day>> \in marked'
             /\ book'[t].label = work'.label /\ book'[t].day = mem'.day
                  => book'[t].side \notin ToResend'
  <2>1. Live(book[t]) /\ book[t].kind = "again" /\ <<book[t].label, book[t].day>> \in marked
    BY <1>2, <1>6 DEF PlacedOK
  <2>2. /\ book'[t].label = book[t].label /\ book'[t].day = book[t].day
        /\ book'[t].side = book[t].side
    BY OldOrders
  <2>3. CASE pc' \notin {"record"} \cup Confirming
    <3>1. ToResend' = {}
      BY <2>3 DEF ToResend, Confirming
    <3> QED BY <1>1, <2>1, <2>2, <3>1
  <2>4. CASE PlacementMarked
    <3>1. pc = "resolve" /\ work' = work /\ mem'.day = mem.day
      BY <2>4 DEF PlacementMarked, MarkPlaced, idleVars, IInv, TypeOK, State
    <3>2. ~(book[t].label = work.label /\ book[t].day = mem.day)
      BY <2>1, <3>1, AtWorkUnder DEF Sending
    <3> QED BY <1>1, <2>1, <2>2, <3>1, <3>2
  <2> QED BY <1>1, <2>1, <2>2, <2>3, <2>4, ConfirmSteps DEF PlacedOK
<1>7. CASE SameOrders
  BY <1>3, <1>4, <1>5, <1>6, <1>7 DEF PlacedOK, OneEach, SameOrders
<1>8. CASE SendLeg /\ Grown(book, NewLeg(LegAt))
  <2> DEFINE n == Len(book) + 1
  <2>1. /\ DOMAIN book' = DOMAIN book \cup {n} /\ n \notin DOMAIN book /\ n \in Tickets
        /\ book'[n].label = work.label /\ book'[n].side = LegAt /\ book'[n].day = mem.day
        /\ book'[n].kind = "leg"
    BY <1>8 DEF Grown, NewLeg
  <2>2. /\ pc \in {"buy", "sell"} /\ pc' \in Working /\ LegAt \in Sides
        /\ work'.got = [work.got EXCEPT ![LegAt] = "ok"]
        /\ work'.ticket = [work.ticket EXCEPT ![LegAt] = n]
    BY <1>8, SendMoves DEF NextLeg, Working, Grown
  <2>3. n \in Under'
    BY <2>1, <2>2 DEF Under, IInv, WorkOK, Placement
  <2>4. work.got[LegAt] # "ok"
    BY <2>2 DEF PlacementOK, LegAt, Sides, Working
  <2> HIDE DEF n
  <2>5. ASSUME NEW t \in DOMAIN book, Live(book'[t]), book'[t].label = work.label,
               book'[t].side = LegAt, book'[t].day = mem.day
        PROVE  FALSE
    <3>1. Live(book[t]) /\ book[t].label = work.label /\ book[t].side = LegAt /\ book[t].day = mem.day
      BY <1>2, <2>5, OldOrders
    <3>2. t \in Under
      BY <2>2, <3>1, AtWorkUnder DEF Sending
    <3>3. \E s \in Sides : work.got[s] = "ok" /\ book[t].side = s
      BY <3>2 DEF Under, PlacementOK, IsLegOf
    <3> QED BY <2>4, <3>1, <3>3
  <2>6. OneEach'
    BY <1>4, <2>1, <2>5 DEF OneEach
  <2> QED BY <1>3, <1>5, <1>6, <2>1, <2>3, <2>6 DEF PlacedOK
<1>9. CASE ConfirmResend
  <2> DEFINE n == Len(book) + 1
  <2>1. /\ pc = "confirm" /\ pc' = "confirmed" /\ Checking \in Sides /\ Checking' = Checking
        /\ Grown(book, LoneOrder(Checking, "again", "pending"))
        /\ work'.plan = work.plan /\ work'.label = work.label /\ mem' = mem /\ marked' = marked
    BY <1>9, ResendMoves DEF history
  <2>2. /\ DOMAIN book' = DOMAIN book \cup {n} /\ n \notin DOMAIN book
        /\ book'[n].label = work.label /\ book'[n].side = Checking /\ book'[n].day = mem.day
        /\ book'[n].kind = "again"
    BY <2>1 DEF Grown, LoneOrder
  <2> HIDE DEF n
  <2>3. Checking \in work.plan
    BY <1>9 DEF ConfirmResend, Checking, IInv, WorkOK, Placement, Sides
  <2>4. ToResend = work.plan /\ ToResend' = work.plan \ {Checking}
    BY <2>1 DEF ToResend
  <2>5. ASSUME NEW t \in DOMAIN book, Live(book'[t]), book'[t].label = work.label,
               book'[t].side = Checking, book'[t].day = mem.day, book'[t].kind = "again"
        PROVE  FALSE
    <3>1. /\ Live(book[t]) /\ book[t].label = work.label /\ book[t].side = Checking
          /\ book[t].day = mem.day /\ book[t].kind = "again"
      BY <1>2, <2>5, OldOrders
    <3> QED BY <2>3, <2>4, <3>1 DEF PlacedOK
  <2>6. OneEach'
    BY <1>4, <2>2, <2>5 DEF OneEach
  <2>7. <<work.label, mem.day>> \in marked
    BY <2>1 DEF PlacedOK, Confirming
  <2> QED BY <1>3, <1>5, <1>6, <2>1, <2>2, <2>4, <2>6, <2>7 DEF PlacedOK
<1>10. CASE \E s \in Sides : BreakoutRecovered(s)
  <2>1. PICK side \in Sides : BreakoutRecovered(side)
    BY <1>10
  <2> DEFINE n == Len(book) + 1
  <2>2. /\ DOMAIN book' = DOMAIN book \cup {n} /\ n \notin DOMAIN book
        /\ book'[n].label = work.label /\ book'[n].day = mem.day /\ book'[n].kind = "leg"
    <3>1. Grown(book, LoneOrder(side, "leg", "open"))
      BY <2>1, BreakoutMoves
    <3> QED BY <3>1 DEF Grown, LoneOrder
  <2>3. pc = "recover" /\ marked' = marked \cup {<<work.label, mem.day>>}
    BY <2>1, BreakoutMoves
  <2> HIDE DEF n
  <2>4. ASSUME NEW t \in DOMAIN book, Live(book'[t]), book'[t].label = work.label,
               book'[t].day = mem.day
        PROVE  FALSE
    <3>1. Live(book[t]) /\ book[t].label = work.label /\ book[t].day = mem.day
      BY <1>2, <2>4, OldOrders
    <3>2. t \in Under
      BY <2>3, <3>1, AtWorkUnder DEF Sending
    <3> QED BY <2>3, <3>2 DEF Under, Working
  <2>5. OneEach'
    BY <1>4, <2>2, <2>4 DEF OneEach
  <2> QED BY <1>3, <1>5, <1>6, <2>2, <2>3, <2>5 DEF PlacedOK
<1>11. CASE AnswerLost \/ \E s \in Sides : RecoveryLost(s)
  <2>1. PICK s \in Sides, st \in {"pending", "open"} : Grown(book, LoneOrder(s, "stray", st))
    BY <1>11, LostMoves, RecoveryLostMoves
  <2>2. \A t \in DOMAIN book' : Live(book'[t]) => t \in DOMAIN book
    BY <2>1 DEF Grown, LoneOrder, Live
  <2> QED BY <1>3, <1>4, <1>5, <1>6, <2>2 DEF PlacedOK, OneEach
<1> QED BY <1>7, <1>8, <1>9, <1>10, <1>11, BookSteps DEF Alone

-----------------------------------------------------------------------------
\* The order the confirmation has just sent again, not recorded yet.
Resent == {t \in Tickets : pc = "confirmed" /\ work.ticket[Checking] = t}

\* Every live order is on record or under way, unless it was given up; and the
\* positions a pass has read are all those of its record.
CoveredOK ==
  /\ pc # "down" /\ source = NoTrack
  /\ \A t \in DOMAIN book :
       book[t].st \in {"pending", "open"} /\ book[t].kind # "stray" /\ t \notin dropped
         => track[t] # "no" \/ t \in Under \cup Resent
  /\ pc = "reconcile" => \A t \in Legs(track) : book[t].st = "open" => t \in snap
  /\ AllManaged

\* What is given up stays given up, and only an order the broker has filled is.
LEMMA DroppedGrows ==
  ASSUME IInv, [Next]_vars
  PROVE  /\ dropped \subseteq dropped'
         /\ CancelPendings => Pends(track) \cap In("open") \subseteq dropped'
<1>1. CASE CancelPendings
  BY <1>1, CancelMoves
<1>2. CASE ClosePositions \/ ConfirmRecord
  BY <1>2, CloseMoves DEF ConfirmRecord, CancelPendings
<1>3. CASE Broker \/ SendLeg \/ AnswerLost \/ OrphansCancel
           \/ \E plan \in {Sides, {"BUY"}, {"SELL"}} : StartPlacing(plan)
  <2>1. UNCHANGED dropped
    BY <1>3, BrokerMoves DEF Broker, SendLeg, AnswerLost, OrphansCancel, StartPlacing, history
  <2> QED BY <1>1, <2>1
<1>4. CASE Quiet \/ ReadPositions \/ Reconcile \/ SkipLeg \/ PlacementMarked \/ RecordPendings
           \/ PlacementGivenUp \/ Crash \/ Restart
  <2>1. UNCHANGED dropped
    BY <1>4 DEF Quiet, ReadPositions, Reconcile, SkipLeg, PlacementMarked, RecordPendings,
                PlacementGivenUp, Crash, Restart, history
  <2> QED BY <1>1, <2>1
<1>5. CASE ConfirmSeen \/ ConfirmResend \/ ConfirmDone
           \/ \E s \in Sides : BreakoutRecovered(s) \/ RecoveryLost(s)
  <2>1. UNCHANGED dropped
    BY <1>5 DEF ConfirmSeen, ConfirmResend, ConfirmDone, BreakoutRecovered, RecoveryLost, history
  <2> QED BY <1>1, <2>1
<1> QED BY <1>1, <1>2, <1>3, <1>4, <1>5, QuietSteps DEF Next, Tick, Place

\* A reconcile forgets no order that is alive, and manages every position it read.
LEMMA ReconciledCovers ==
  ASSUME IInv, TracksOK, RealOK, CoveredOK, pc = "reconcile",
         NEW t \in DOMAIN book, book[t].st \in {"pending", "open"}, book[t].kind # "stray",
         t \notin dropped
  PROVE  /\ Reconciled[t] # "no"
         /\ t \in snap /\ book[t].st = "open" => t \in Legs(Reconciled)
<1>1. t \in Tickets /\ track[t] \in {"no", "pend", "flag", "normal", "rescue"}
  BY InBook DEF IInv, TypeOK, Track
<1>2. track[t] # "no"
  <2>1. Under = {} /\ Resent = {}
    BY DEF Under, Working, Resent
  <2> QED BY <2>1 DEF CoveredOK
<1>3. Rehydrated[t] = track[t]
  BY <1>1, RehydratedFrom DEF CoveredOK
<1>4. CASE t \in Legs(track)
  <2>1. book[t].st = "open" /\ t \in snap
    BY <1>4 DEF RealOK, TrackedIsReal, CoveredOK
  <2>2. Promoted[t] = track[t]
    BY <1>1, <1>3, <1>4 DEF Promoted, Filled, Pends, Legs
  <2>3. Reconciled[t] = track[t]
    BY <1>1, <2>1, <2>2 DEF Reconciled, Gone
  <2> QED BY <1>1, <1>2, <1>4, <2>3 DEF Legs
<1>5. CASE t \in Pends(track)
  <2>1. Promoted[t] # "no"
    BY <1>1, <1>2, <1>3, <1>5 DEF Promoted, Pends, Filled, Sibling, RealOK
  <2>2. CASE t \in snap
    <3>1. book[t].st = "open"
      BY <2>2 DEF RealOK
    <3>2. t \in Filled
      BY <1>1, <1>3, <1>5, <2>2, <3>1 DEF Filled, Pends, In
    <3>3. Promoted[t] \in {"rescue", "normal"}
      BY <1>1, <3>2 DEF Promoted
    <3>4. Reconciled[t] = Promoted[t]
      BY <1>1, <2>2 DEF Reconciled, Gone
    <3> QED BY <1>1, <3>3, <3>4 DEF Legs
  <2>3. CASE t \notin snap
    <3>1. Promoted[t] \in {"pend", "flag"}
      BY <1>1, <1>3, <1>5, <2>3 DEF Promoted, Filled, Pends
    <3>2. Reconciled[t] = Promoted[t]
      BY <1>1, <3>1 DEF Reconciled, Gone, Legs
    <3> QED BY <2>1, <2>3, <3>2
  <2> QED BY <2>2, <2>3
<1> QED BY <1>1, <1>2, <1>4, <1>5 DEF Legs, Pends

\* A step that leaves the placement and the record alone leaves covered what is.
LEMMA StillCovered ==
  ASSUME IInv, PlacementOK, CoveredOK, [Next]_vars, UNCHANGED track, ~ConfirmRecord, ~RecordPendings,
         ~Crash, NEW t \in DOMAIN book, Live(book'[t]), track[t] # "no" \/ t \in Under \cup Resent
  PROVE  track'[t] # "no" \/ t \in Under' \cup Resent'
<1>1. CASE track[t] # "no"
  BY <1>1
<1>2. CASE t \in Under
  <2>1. ~OrphansCancel
    BY <1>2, OrphansMove DEF Live
  <2> QED BY <1>2, <2>1, UnderLeaves
<1>3. CASE t \in Resent
  <2>1. pc = "confirmed" /\ t \in Tickets
    BY <1>3 DEF Resent
  <2>2. ASSUME UNCHANGED <<pc, work>> PROVE Resent' = Resent
    BY <2>2 DEF Resent, Checking
  <2>3. Broker => UNCHANGED <<pc, work>>
    BY BrokerMoves DEF Broker, idleVars
  <2>4. Quiet => UNCHANGED <<pc, work>>
    BY <2>1 DEF Quiet, Confirming
  <2>5. Quiet \/ Broker
    BY <2>1, QuietSteps DEF Next, Tick, Place, ClosePositions, CancelPendings, ReadPositions,
       Reconcile, StartPlacing, SendLeg, SkipLeg, AnswerLost, PlacementMarked, ConfirmSeen,
       ConfirmResend, ConfirmDone, OrphansCancel, BreakoutRecovered, RecoveryLost,
       PlacementGivenUp, Restart, Flattening
  <2> QED BY <1>3, <2>2, <2>3, <2>4, <2>5
<1> QED BY <1>1, <1>2, <1>3

\* While the process lives and its queries are answered no step loses sight of a
\* live order, but for those it notes as given up.
LEMMA CoveredKept ==
  ASSUME IInv, PlacementOK, TwinsOK, TracksOK, RealOK, PlacedOK, CoveredOK, [Next]_vars,
         Faults \cap {"crash", "query"} = {}
  PROVE  CoveredOK'
<1>1. DOMAIN book \subseteq Tickets /\ \A t \in DOMAIN book : t \in DOMAIN book'
  BY InBook, OldOrders
<1>2. ~Crash /\ ~Restart
  BY DEF Crash, Restart, CoveredOK
<1>3. pc' # "down" /\ source' = NoTrack
  <2>1. CASE Quiet
    BY <2>1 DEF Quiet, CoveredOK
  <2>2. CASE Broker \/ ClosePositions \/ CancelPendings \/ SendLeg \/ AnswerLost \/ OrphansCancel
             \/ \E plan \in {Sides, {"BUY"}, {"SELL"}} : StartPlacing(plan)
    <3>1. UNCHANGED source
      BY <2>2, BrokerMoves DEF Broker, ClosePositions, CancelPendings, SendLeg, AnswerLost,
         OrphansCancel, StartPlacing, idleVars
    <3>2. pc' # "down"
      <4>1. Broker => UNCHANGED pc
        BY BrokerMoves DEF Broker
      <4> QED BY <2>2, <4>1 DEF ClosePositions, CancelPendings, SendLeg, AnswerLost, OrphansCancel,
                 StartPlacing, Flattening, Cancelling, AfterCancel, NextLeg, CoveredOK
    <3> QED BY <3>1, <3>2 DEF CoveredOK
  <2>3. CASE ReadPositions \/ Reconcile \/ SkipLeg \/ PlacementMarked \/ RecordPendings
             \/ PlacementGivenUp \/ \E s \in Sides : BreakoutRecovered(s) \/ RecoveryLost(s)
    BY <2>3 DEF ReadPositions, Reconcile, SkipLeg, PlacementMarked, RecordPendings, RecoveryLost,
                PlacementGivenUp, BreakoutRecovered, CoveredOK, idleVars, NextLeg
  <2>4. CASE ConfirmSeen \/ ConfirmResend \/ ConfirmRecord \/ ConfirmDone
    BY <2>4 DEF ConfirmSeen, ConfirmResend, ConfirmRecord, ConfirmDone, CoveredOK
  <2> QED BY <1>2, <2>1, <2>2, <2>3, <2>4, QuietSteps DEF Next, Tick, Place
<1>4. ASSUME NEW t \in DOMAIN book, book'[t].st \in {"pending", "open"}, book'[t].kind # "stray",
             t \notin dropped'
      PROVE  track'[t] # "no" \/ t \in Under' \cup Resent'
  <2>1. /\ book[t].st \in {"pending", "open"} /\ book[t].kind # "stray" /\ t \notin dropped
        /\ t \in Tickets /\ Live(book'[t])
    BY <1>1, <1>4, StatusSteps, KindSteps, DroppedGrows DEF Live
  <2>2. track[t] # "no" \/ t \in Under \cup Resent
    BY <2>1 DEF CoveredOK
  <2>3. CASE Reconcile
    BY <1>4, <2>1, <2>3, ReconciledCovers DEF Reconcile
  <2>4. CASE RecordPendings
    <3>1. /\ track' = [u \in Tickets |->
               IF \E s \in work.plan : work.ticket[s] = u THEN "pend" ELSE track[u]]
          /\ pc = "record"
      BY <2>4 DEF RecordPendings
    <3>2. t \in Under => \E s \in work.plan : work.ticket[s] = t
      BY <3>1 DEF Under, PlacementOK, Working
    <3>3. Resent = {}
      BY <3>1 DEF Resent
    <3> QED BY <2>1, <2>2, <3>1, <3>2, <3>3
  <2>5. CASE ClosePositions
    <3>1. PICK refused \in SUBSET (Legs(track) \cap In("open")), unseen \in SUBSET In("open") :
            /\ unseen \subseteq refused
            /\ Moved(Legs(track) \ refused, "open", "closed")
            /\ track' = [u \in Tickets |->
                 IF u \in Legs(track) \ (refused \ unseen) THEN "no" ELSE track[u]]
            /\ dropped' = dropped \cup unseen
      BY <2>5, CloseMoves
    <3>2. t \notin Legs(track) \ refused
      BY <1>4, <3>1 DEF Moved, RealOK, TrackedIsReal
    <3>3. t \notin unseen
      BY <1>4, <3>1
    <3>4. Under = {} /\ Resent = {}
      BY <2>5 DEF Under, Resent, ClosePositions, Flattening, Working
    <3> QED BY <2>1, <2>2, <3>1, <3>2, <3>3, <3>4
  <2>6. CASE CancelPendings
    <3>1. PICK refused \in SUBSET (Pends(track) \cap In("pending")), unseen \in SUBSET In("pending") :
            /\ unseen \subseteq refused
            /\ Moved(Pends(track) \ refused, "pending", "cancelled")
            /\ track' = TrackAfterCancel(refused \ unseen)
            /\ dropped' = dropped \cup unseen \cup (Pends(track) \cap In("open"))
      BY <2>6, CancelMoves
    <3>2. t \notin Pends(track) \ refused
      BY <1>4, <2>1, <3>1 DEF Moved, In
    <3>3. t \notin unseen
      BY <1>4, <3>1
    <3>4. Under = {} /\ Resent = {}
      BY <2>6 DEF Under, Resent, CancelPendings, Working
    <3> QED BY <2>1, <2>2, <3>1, <3>2, <3>3, <3>4 DEF TrackAfterCancel
  <2>7. CASE ConfirmRecord
    <3>1. pc = "confirmed" /\ work.ticket[Checking] \in DOMAIN book
      BY <2>7 DEF ConfirmRecord, IInv, WorkOK
    <3>2. Under = {}
      BY <3>1 DEF Under, Working
    <3>3. \/ track' = [track EXCEPT ![work.ticket[Checking]] = "pend"]
          \/ track' = track /\ work.ticket[Checking] \in dropped'
      BY <2>7 DEF ConfirmRecord
    <3>4. track \in Track
      BY DEF IInv, TypeOK
    <3> QED BY <1>4, <2>1, <2>2, <3>2, <3>3, <3>4 DEF Resent, Track
  <2>8. CASE Quiet \/ Broker \/ ReadPositions \/ SkipLeg \/ SendLeg \/ PlacementMarked \/ AnswerLost
             \/ PlacementGivenUp \/ OrphansCancel
             \/ \E plan \in {Sides, {"BUY"}, {"SELL"}} : StartPlacing(plan)
    <3>1. UNCHANGED track
      BY <2>8, BrokerMoves DEF Quiet, Broker, ReadPositions, SkipLeg, SendLeg, PlacementMarked,
         AnswerLost, OrphansCancel, PlacementGivenUp, StartPlacing, idleVars
    <3> QED BY <1>2, <2>1, <2>2, <2>4, <2>7, <3>1, StillCovered
  <2>9. CASE ConfirmSeen \/ ConfirmResend \/ ConfirmDone \/ \E s \in Sides : RecoveryLost(s)
    <3>1. UNCHANGED track
      BY <2>9 DEF ConfirmSeen, ConfirmResend, ConfirmDone, RecoveryLost
    <3> QED BY <1>2, <2>1, <2>2, <2>4, <2>7, <3>1, StillCovered
  <2>10. CASE \E s \in Sides : BreakoutRecovered(s)
    <3>1. PICK side \in Sides : BreakoutRecovered(side)
      BY <2>10
    <3>2. track' = [track EXCEPT ![Len(book) + 1] = "normal"] /\ pc = "recover"
      BY <3>1, BreakoutMoves
    <3>3. Under = {} /\ Resent = {}
      BY <3>2 DEF Under, Resent, Working
    <3> QED BY <2>1, <2>2, <3>2, <3>3 DEF IInv, TypeOK, Track
  <2> QED BY <1>2, <2>3, <2>4, <2>5, <2>6, <2>7, <2>8, <2>9, <2>10, QuietSteps DEF Next, Tick, Place
<1>5. ASSUME NEW t \in DOMAIN book', t \notin DOMAIN book, book'[t].kind # "stray"
      PROVE  track'[t] # "no" \/ t \in Under' \cup Resent'
  <2>1. CASE SendLeg /\ Grown(book, NewLeg(LegAt))
    <3>1. t = Len(book) + 1 /\ Len(book) + 1 \in Tickets /\ Len(book) + 1 \notin DOMAIN book
      BY <1>5, <2>1 DEF Grown
    <3>2. /\ pc' \in Working /\ LegAt \in Sides
          /\ work'.got = [work.got EXCEPT ![LegAt] = "ok"]
          /\ work'.ticket = [work.ticket EXCEPT ![LegAt] = Len(book) + 1]
      BY <2>1, SendMoves DEF NextLeg, Working, Grown
    <3> QED BY <3>1, <3>2 DEF Under, IInv, WorkOK, Placement
  <2>2. CASE ConfirmResend
    <3>1. /\ pc' = "confirmed" /\ Checking' = Checking
          /\ work'.ticket[Checking] = Len(book) + 1
          /\ Grown(book, LoneOrder(Checking, "again", "pending"))
      BY <2>2, ResendMoves
    <3>2. t = Len(book) + 1 /\ t \in Tickets
      BY <1>5, <3>1 DEF Grown
    <3> QED BY <3>1, <3>2 DEF Resent
  <2>3. CASE \E s \in Sides : BreakoutRecovered(s)
    <3>1. PICK side \in Sides : BreakoutRecovered(side)
      BY <2>3
    <3>2. /\ Grown(book, LoneOrder(side, "leg", "open"))
          /\ track' = [track EXCEPT ![Len(book) + 1] = "normal"]
      BY <3>1, BreakoutMoves
    <3>3. t = Len(book) + 1 /\ t \in Tickets
      BY <1>5, <3>2 DEF Grown
    <3> QED BY <3>2, <3>3 DEF IInv, TypeOK, Track
  <2>4. CASE AnswerLost \/ \E s \in Sides : RecoveryLost(s)
    <3>1. PICK s \in Sides, st \in {"pending", "open"} : Grown(book, LoneOrder(s, "stray", st))
      BY <2>4, LostMoves, RecoveryLostMoves
    <3> QED BY <1>5, <3>1 DEF Grown, LoneOrder
  <2>5. ~SameOrders
    BY <1>5 DEF SameOrders
  <2> QED BY <2>1, <2>2, <2>3, <2>4, <2>5, BookSteps DEF Alone
<1>6. \A t \in DOMAIN book' :
        book'[t].st \in {"pending", "open"} /\ book'[t].kind # "stray" /\ t \notin dropped'
          => track'[t] # "no" \/ t \in Under' \cup Resent'
  BY <1>4, <1>5
<1>7. ASSUME pc' = "reconcile", NEW t \in Legs(track'), book'[t].st = "open"
      PROVE  t \in snap'
  <2>1. CASE pc = "reconcile" /\ UNCHANGED <<track, snap>>
    <3>1. t \in DOMAIN book /\ book[t].st \in {"open", "closed"}
      BY <1>7, <2>1 DEF RealOK, TrackedIsReal, Legs
    <3>2. book[t].st = "open"
      BY <1>7, <3>1, StatusSteps
    <3> QED BY <1>7, <2>1, <3>2 DEF CoveredOK, Legs
  <2>2. CASE ReadPositions
    <3>1. snap' = In("open") /\ UNCHANGED <<track, book>>
      BY <2>2 DEF ReadPositions
    <3> QED BY <1>7, <3>1 DEF RealOK, TrackedIsReal, Legs, In
  <2>3. CASE Broker
    BY <1>7, <2>1, <2>3, BrokerMoves DEF Broker, idleVars
  <2>4. CASE Quiet
    BY <1>7, <2>1, <2>4 DEF Quiet
  <2>5. ASSUME ClosePositions \/ CancelPendings \/ Reconcile \/ Place
        PROVE  FALSE
    BY <1>7, <2>5 DEF ClosePositions, CancelPendings, Place, StartPlacing, SendLeg, SkipLeg,
       PlacementMarked, RecordPendings, BreakoutRecovered, RecoveryLost, PlacementGivenUp, Reconcile,
       AnswerLost, OrphansCancel, ConfirmSeen, ConfirmResend, ConfirmRecord, ConfirmDone,
       Cancelling, Flattening, AfterCancel, NextLeg
  <2> QED BY <1>2, <2>2, <2>3, <2>4, <2>5, QuietSteps DEF Next, Tick
<1>8. ASSUME pc' = "kill", NEW t \in snap' \ dropped', book'[t].st = "open", book'[t].kind # "stray"
      PROVE  t \in Legs(track')
  <2>1. CASE pc = "kill" /\ UNCHANGED <<track, snap>>
    <3>1. t \in DOMAIN book /\ book[t].st \in {"open", "closed"} /\ t \in snap \ dropped
      BY <1>8, <2>1, DroppedGrows DEF RealOK, IInv, TypeOK
    <3>2. book[t].st = "open" /\ book[t].kind # "stray"
      BY <1>8, <3>1, StatusSteps, KindSteps
    <3> QED BY <2>1, <3>1, <3>2 DEF CoveredOK, AllManaged, Legs
  <2>2. CASE Reconcile
    <3>1. /\ pc = "reconcile" /\ track' = Reconciled /\ UNCHANGED <<book, snap, history>>
      BY <2>2 DEF Reconcile
    <3>2. /\ t \in DOMAIN book /\ t \in snap /\ book[t].st = "open" /\ book[t].kind # "stray"
          /\ t \notin dropped
      BY <1>8, <3>1 DEF IInv, TypeOK, history
    <3> QED BY <3>1, <3>2, ReconciledCovers DEF Legs
  <2>3. CASE Broker
    BY <1>8, <2>1, <2>3, BrokerMoves DEF Broker, idleVars
  <2>4. CASE Quiet
    BY <1>8, <2>1, <2>4 DEF Quiet
  <2>5. ASSUME ClosePositions \/ CancelPendings \/ ReadPositions \/ Place
        PROVE  FALSE
    BY <1>8, <2>5 DEF ClosePositions, CancelPendings, Place, StartPlacing, SendLeg, SkipLeg,
       PlacementMarked, RecordPendings, BreakoutRecovered, RecoveryLost, PlacementGivenUp,
       ReadPositions, AnswerLost, OrphansCancel, ConfirmSeen, ConfirmResend, ConfirmRecord,
       ConfirmDone, Cancelling, Flattening, AfterCancel, NextLeg
  <2> QED BY <1>2, <2>2, <2>3, <2>4, <2>5, QuietSteps DEF Next, Tick
<1> QED BY <1>3, <1>6, <1>7, <1>8 DEF CoveredOK, AllManaged, Legs

-----------------------------------------------------------------------------
\* The strengthening that holds with every fault: IInv /\ BookOK is inductive.
BookOK == PlacementOK /\ TwinsOK /\ TracksOK /\ RealOK

LEMMA BookOKInit == Init => BookOK
<1>1. SUFFICES ASSUME Init PROVE BookOK
  OBVIOUS
<1>2. pc = "idle" /\ book = <<>> /\ track = NoTrack /\ source = NoTrack /\ disk.track = NoTrack
  BY <1>1 DEF Init
<1>3. pc \notin Working /\ DOMAIN book = {}
  BY <1>2 DEF Working, Sending
<1>4. \A t \in Tickets : NoTrack[t] = "no"
  BY DEF NoTrack
<1> QED BY <1>2, <1>3, <1>4 DEF BookOK, PlacementOK, TwinsOK, TracksOK, Sound, RealOK,
        TrackedIsReal, Legs, Pends

LEMMA BookOKStep == IInv /\ BookOK /\ [Next]_vars => BookOK'
BY PlacementKept, TwinsKept, TracksKept, RealKept DEF BookOK

LEMMA BookOKAlways == Spec => []BookOK
BY BookOKInit, BookOKStep, Invariance, PTL DEF Spec

\* Nothing is recorded that the broker does not know as such: shadow_positions
\* and shadow_pendings name orders the broker filled, or has not cancelled, also
\* after a failed query, a refused close, a half-failed straddle or a restart.
THEOREM RecordIsReal == Spec => []TrackedIsReal
<1>1. BookOK => TrackedIsReal
  BY DEF BookOK, RealOK
<1> QED BY <1>1, BookOKAlways, PTL

\* Two open legs of one straddle never both run as the first: _reconcile makes
\* the second to fill the rescue leg, in whatever order the fills are seen, in
\* one pass or two, and when it reads its own record back after a crash.
THEOREM OneRescueLeg == Spec => []TwinRolesDiffer
<1>1. BookOK => TwinRolesDiffer
  <2>1. SUFFICES ASSUME BookOK,
                        NEW s \in Legs(track), NEW t \in Legs(track), s # t,
                        book[s].first = book[t].first, {s, t} \subseteq In("open")
                 PROVE  "rescue" \in {track[s], track[t]}
    BY DEF TwinRolesDiffer
  <2>2. Sibling(s, t) /\ s \in DOMAIN book /\ t \in DOMAIN book
    BY <2>1 DEF Sibling, In
  <2>3. track[s] = "normal" => track[t] \in {"no", "flag", "rescue"}
    BY <2>1, <2>2 DEF BookOK, TracksOK, Sound
  <2> QED BY <2>3 DEF Legs
<1> QED BY <1>1, BookOKAlways, PTL

\* PlacedOK is inductive too, with every fault.
LEMMA PlacedAlways == Spec => []PlacedOK
<1>1. Init => PlacedOK
  BY DEF Init, PlacedOK, OneEach, Confirming
<1>2. IInv /\ BookOK /\ PlacedOK /\ [Next]_vars => PlacedOK'
  BY PlacedKept DEF BookOK
<1> QED BY <1>1, <1>2, Invariance, BookOKAlways, PTL DEF Spec

\* An anchor fires once a day, with every fault: whatever is retried, refused,
\* flattened, paused, read wrong or cut off by a crash, of each of its sides at most
\* one order is sent by its placements and not cancelled, and at most one more by
\* _confirm_a1_placement -- but for the strays, which no record of the bot knows.
THEOREM PlacedOnce == Spec => []OnePlacementPerDay
<1>1. PlacedOK => OnePlacementPerDay
  <2>1. SUFFICES ASSUME PlacedOK, NEW l \in Labels, NEW s \in Sides, NEW d \in 1..MaxDays,
                        NEW k \in {"leg", "again"}
                 PROVE  Cardinality(Orders(l, s, d, k)) <= 1
    BY DEF OnePlacementPerDay
  <2>2. \A a, b \in Orders(l, s, d, k) : a = b
    BY <2>1 DEF PlacedOK, OneEach, Orders, In, Live
  <2>3. CASE Orders(l, s, d, k) = {}
    BY <2>3, FS_EmptySet
  <2>4. CASE Orders(l, s, d, k) # {}
    <3>1. PICK a : a \in Orders(l, s, d, k)
      BY <2>4
    <3>2. Orders(l, s, d, k) = {a}
      BY <2>2, <3>1
    <3>3. Cardinality({a}) = 1
      BY FS_Singleton
    <3> QED BY <3>2, <3>3
  <2> QED BY <2>3, <2>4
<1> QED BY <1>1, PlacedAlways, PTL

\* After a reconcile every position that was read is managed, but for the strays
\* and what the record gave up, while queries are answered and the process lives --
\* also when closes and cancels are refused, answers are lost and legs fail.
THEOREM EverythingManaged ==
  ASSUME Faults \cap {"crash", "query"} = {}
  PROVE  Spec => []AllManaged
<1>1. Init => CoveredOK
  BY DEF Init, CoveredOK, AllManaged
<1>2. IInv /\ BookOK /\ PlacedOK /\ CoveredOK /\ [Next]_vars => CoveredOK'
  BY CoveredKept DEF BookOK
<1>3. CoveredOK => AllManaged
  BY DEF CoveredOK
<1> QED BY <1>1, <1>2, <1>3, PlacedAlways, Invariance, BookOKAlways, PTL DEF Spec

-----------------------------------------------------------------------------
(* The book implements AnchorDay.  What a leg's life is, is told by the one  *)
(* order of it that is live.                                                 *)

DayLegs == [label : Labels, side : Sides, day : 1..MaxDays, kind : {"leg", "again"}]

\* An order alive that no other of its leg is alive beside is the leg's life.
LEMMA LifeOne ==
  ASSUME NEW b, NEW t \in DOMAIN b, Live(b[t]),
         \A u \in DOMAIN b : Live(b[u]) /\ LegOf(b[u]) = LegOf(b[t]) => u = t
  PROVE  Life(b, LegOf(b[t])) = b[t].st
<1>1. Alive(b, LegOf(b[t])) = {t}
  BY DEF Alive
<1>2. (CHOOSE u \in {t} : TRUE) = t
  OBVIOUS
<1> QED BY <1>1, <1>2 DEF Life

LEMMA LifeNone ==
  ASSUME NEW b, NEW x, \A u \in DOMAIN b : Live(b[u]) => LegOf(b[u]) # x
  PROVE  Life(b, x) = "none"
BY DEF Life, Alive

\* One order alive for each leg, in terms of legs.
Single(b) ==
  \A t, u \in DOMAIN b :
    Live(b[t]) /\ Live(b[u]) /\ LegOf(b[t]) = LegOf(b[u]) => t = u

LEMMA OneIsSingle == OneEach <=> Single(book)
BY DEF OneEach, Single, LegOf

\* Orders that move from one status to the next are legs that do.
LEMMA LifeMoves ==
  ASSUME IInv, Single(book), SameOrders, NEW S, NEW from, NEW to,
         from \notin {"cancelled", "none"}, Moved(S, from, to)
  PROVE  LET X    == {LegOf(book[t]) : t \in {u \in DOMAIN book : u \in S /\ book[u].st = from}}
             last == IF to = "cancelled" THEN "none" ELSE to
         IN  \A x : Life(book', x) = IF x \in X /\ Life(book, x) = from THEN last ELSE Life(book, x)
<1> DEFINE moved == {u \in DOMAIN book : u \in S /\ book[u].st = from}
           X     == {LegOf(book[t]) : t \in moved}
           last  == IF to = "cancelled" THEN "none" ELSE to
<1> SUFFICES ASSUME NEW x
             PROVE  Life(book', x) = IF x \in X /\ Life(book, x) = from THEN last ELSE Life(book, x)
  OBVIOUS
<1>1. /\ DOMAIN book' = DOMAIN book
      /\ \A t \in DOMAIN book : LegOf(book'[t]) = LegOf(book[t])
      /\ \A t \in DOMAIN book : book'[t].st = IF t \in moved THEN to ELSE book[t].st
      /\ \A t \in DOMAIN book : Live(book'[t]) => Live(book[t])
      /\ \A t \in DOMAIN book : book'[t].kind = book[t].kind
  BY DEF SameOrders, Moved, LegOf, Live
<1>2. ASSUME NEW t \in DOMAIN book, Live(book[t]), LegOf(book[t]) = x
      PROVE  Life(book', x) = IF x \in X /\ Life(book, x) = from THEN last ELSE Life(book, x)
  <2>1. Life(book, x) = book[t].st
    BY <1>2, LifeOne DEF Single
  <2>2. x \in X => t \in moved
    <3>1. ASSUME NEW u \in moved, LegOf(book[u]) = x PROVE u = t
      BY <1>2, <3>1 DEF Single, Live, LegOf
    <3> QED BY <3>1
  <2>3. t \in moved => x \in X /\ book[t].st = from
    BY <1>2
  <2>4. ASSUME Live(book'[t]) PROVE Life(book', x) = book'[t].st
    <3>1. t \in DOMAIN book' /\ LegOf(book'[t]) = x
      BY <1>1, <1>2
    <3>2. \A u \in DOMAIN book' : Live(book'[u]) /\ LegOf(book'[u]) = x => u = t
      BY <1>1, <1>2 DEF Single
    <3> QED BY <2>4, <3>1, <3>2, LifeOne
  <2>5. ASSUME ~Live(book'[t]) PROVE Life(book', x) = "none"
    <3>1. \A u \in DOMAIN book' : Live(book'[u]) => LegOf(book'[u]) # x
      BY <1>1, <1>2, <2>5 DEF Single
    <3> QED BY <3>1, LifeNone
  <2>6. CASE t \in moved
    <3>1. book'[t].st = to
      BY <1>1, <2>6
    <3> HIDE DEF moved, X
    <3>2. Live(book'[t]) <=> to # "cancelled"
      BY <1>1, <1>2, <3>1 DEF Live
    <3> QED BY <2>1, <2>3, <2>4, <2>5, <2>6, <3>1, <3>2
  <2>7. CASE t \notin moved
    <3>1. book'[t].st = book[t].st
      BY <1>1, <2>7
    <3> HIDE DEF moved, X
    <3>2. Life(book', x) = book[t].st /\ x \notin X
      <4>1. Live(book'[t])
        BY <1>1, <1>2, <3>1 DEF Live
      <4> QED BY <2>2, <2>4, <2>7, <3>1, <4>1
    <3> QED BY <2>1, <3>2
  <2> QED BY <2>6, <2>7
<1>3. CASE \A t \in DOMAIN book : Live(book[t]) => LegOf(book[t]) # x
  <2>1. Life(book, x) = "none" /\ Life(book', x) = "none"
    BY <1>1, <1>3, LifeNone
  <2> QED BY <2>1
<1> QED BY <1>2, <1>3

\* The lives of the next state are those of the next book.
LEMMA LifePrimed == [x \in DayLegs |-> Life(book, x)]' = [x \in DayLegs |-> Life(book', x)]
BY DEF Life, Alive, LegOf, DayLegs

\* So they are a step of the day.
LEMMA DayMoves ==
  ASSUME IInv, OneEach, SameOrders, NEW S, NEW from, NEW to, Moved(S, from, to),
         \/ from = "pending" /\ to \in {"open", "cancelled", "swept"}
         \/ from = "open" /\ to = "closed",
         UNCHANGED marked
  PROVE  Day!Next
<1> DEFINE X    == {LegOf(book[t]) : t \in {u \in DOMAIN book : u \in S /\ book[u].st = from}}
           last == IF to = "cancelled" THEN "none" ELSE to
<1>1. from \notin {"cancelled", "none"}
  OBVIOUS
<1>2. \A x : Life(book', x) = IF x \in X /\ Life(book, x) = from THEN last ELSE Life(book, x)
  BY <1>1, LifeMoves, OneIsSingle
<1> HIDE DEF X
<1> DEFINE Y == X \cap DayLegs
           L(b) == [x \in DayLegs |-> Life(b, x)]
<1>4. Day!Move(from, last)
  <2>1. L(book') = [x \in DayLegs |-> IF x \in Y /\ L(book)[x] = from THEN last ELSE L(book)[x]]
    BY <1>2
  <2>2. L(book)' = L(book')
    BY LifePrimed
  <2>3. Y \in SUBSET DayLegs
    OBVIOUS
  <2> HIDE DEF Y, last
  <2> QED BY <2>1, <2>2, <2>3 DEF Day!Move, Day!Legs, DayLegs
<1>5. \/ from = "pending" /\ last \in {"open", "none", "swept"}
      \/ from = "open" /\ last = "closed"
  OBVIOUS
<1> HIDE DEF last
<1>6. Day!Fill \/ Day!Close \/ Day!Cancel \/ Day!Sweep
  BY <1>4, <1>5 DEF Day!Fill, Day!Close, Day!Cancel, Day!Sweep
<1> QED BY <1>6 DEF Day!Next

\* Orders that are lost sight of, or taken back, are legs that have none any more.
LEMMA LifeLost ==
  ASSUME Single(book), SameOrders,
         \A t \in DOMAIN book :
           Live(book'[t]) => Live(book[t]) /\ book'[t].st = book[t].st /\ book'[t].kind = book[t].kind
  PROVE  LET X == {LegOf(book[t]) : t \in {u \in DOMAIN book : Live(book[u]) /\ ~Live(book'[u])}}
         IN  \A x : Life(book', x) = IF x \in X THEN "none" ELSE Life(book, x)
<1> DEFINE lost == {u \in DOMAIN book : Live(book[u]) /\ ~Live(book'[u])}
           X    == {LegOf(book[t]) : t \in lost}
<1> SUFFICES ASSUME NEW x
             PROVE  Life(book', x) = IF x \in X THEN "none" ELSE Life(book, x)
  OBVIOUS
<1>1. /\ DOMAIN book' = DOMAIN book
      /\ \A t \in DOMAIN book : Live(book'[t]) => Live(book[t]) /\ LegOf(book'[t]) = LegOf(book[t])
  BY DEF SameOrders, LegOf
<1>2. ASSUME NEW t \in DOMAIN book, Live(book[t]), LegOf(book[t]) = x
      PROVE  Life(book', x) = IF x \in X THEN "none" ELSE Life(book, x)
  <2>1. Life(book, x) = book[t].st
    BY <1>2, LifeOne DEF Single
  <2>2. x \in X <=> t \in lost
    BY <1>2 DEF Single
  <2>3. CASE t \in lost
    <3>1. \A u \in DOMAIN book' : Live(book'[u]) => LegOf(book'[u]) # x
      BY <1>1, <1>2, <2>3 DEF Single
    <3>2. Life(book', x) = "none"
      BY <3>1, LifeNone
    <3> HIDE DEF lost, X
    <3> QED BY <2>2, <2>3, <3>2
  <2>4. CASE t \notin lost
    <3>1. t \in DOMAIN book' /\ Live(book'[t]) /\ LegOf(book'[t]) = x /\ book'[t].st = book[t].st
      BY <1>1, <1>2, <2>4
    <3>2. \A u \in DOMAIN book' : Live(book'[u]) /\ LegOf(book'[u]) = LegOf(book'[t]) => u = t
      BY <1>1, <1>2, <3>1 DEF Single
    <3>3. Life(book', LegOf(book'[t])) = book'[t].st
      BY <3>1, <3>2, LifeOne
    <3> HIDE DEF lost, X
    <3> QED BY <2>1, <2>2, <2>4, <3>1, <3>3
  <2> QED BY <2>3, <2>4
<1>3. CASE \A t \in DOMAIN book : Live(book[t]) => LegOf(book[t]) # x
  <2>1. \A t \in DOMAIN book' : Live(book'[t]) => LegOf(book'[t]) # x
    BY <1>1, <1>3
  <2>2. Life(book, x) = "none" /\ Life(book', x) = "none"
    BY <1>3, <2>1, LifeNone
  <2>3. x \notin X
    BY <1>3
  <2> QED BY <2>2, <2>3
<1> QED BY <1>2, <1>3

LEMMA DaySame ==
  ASSUME UNCHANGED <<book, marked>>
  PROVE  UNCHANGED <<[x \in DayLegs |-> Life(book, x)], marked>>
OBVIOUS

\* A placement plans at least one leg.
PlanOK == pc \in Working => work.plan # {}

LEMMA PlanKept ==
  ASSUME IInv, PlanOK, [Next]_vars
  PROVE  PlanOK'
<1> SUFFICES ASSUME pc' \in Working PROVE work'.plan # {}
  BY DEF PlanOK
<1>1. CASE Quiet
  BY <1>1 DEF Quiet, PlanOK
<1>2. CASE Broker \/ AnswerLost
  BY <1>2, BrokerMoves DEF Broker, AnswerLost, PlanOK, idleVars
<1>3. CASE \E plan \in {Sides, {"BUY"}, {"SELL"}} : StartPlacing(plan)
  <2>1. PICK plan \in {Sides, {"BUY"}, {"SELL"}} : StartPlacing(plan)
    BY <1>3
  <2>2. plan \in SUBSET Sides /\ plan # {}
    BY DEF Sides
  <2> QED BY <2>1, <2>2, StartMoves
<1>4. CASE SendLeg
  BY <1>4, SendMoves DEF PlanOK, Working
<1>5. CASE SkipLeg \/ PlacementMarked
  BY <1>5 DEF SkipLeg, PlacementMarked, PlanOK, idleVars, Working
<1>6. ASSUME \/ ClosePositions \/ CancelPendings \/ ReadPositions \/ Reconcile
             \/ RecordPendings \/ PlacementGivenUp \/ Crash \/ Restart \/ OrphansCancel
             \/ ConfirmSeen \/ ConfirmResend \/ ConfirmRecord \/ ConfirmDone
             \/ \E s \in Sides : BreakoutRecovered(s) \/ RecoveryLost(s)
      PROVE  FALSE
  BY <1>6 DEF ClosePositions, CancelPendings, ReadPositions, Reconcile, RecordPendings,
     PlacementGivenUp, Crash, Restart, BreakoutRecovered, RecoveryLost, OrphansCancel, ConfirmSeen,
     ConfirmResend, ConfirmRecord, ConfirmDone, Cancelling, Flattening, AfterCancel, Working
<1> QED BY <1>1, <1>2, <1>3, <1>4, <1>5, <1>6, QuietSteps DEF Next, Tick, Place

\* A new order is its leg's life; the other legs keep theirs.
LEMMA LifeGrows ==
  ASSUME NEW b, NEW o, Grown(b, o), Live(o), Single(b), Single(book')
  PROVE  /\ Life(b, LegOf(o)) = "none"
         /\ \A x : Life(book', x) = IF x = LegOf(o) THEN o.st ELSE Life(b, x)
<1> DEFINE n == Len(b) + 1
<1>1. /\ DOMAIN book' = DOMAIN b \cup {n} /\ n \notin DOMAIN b /\ book'[n] = o
      /\ \A t \in DOMAIN b : book'[t] = b[t]
  BY DEF Grown
<1> HIDE DEF n
<1>2. \A u \in DOMAIN b : Live(b[u]) => LegOf(b[u]) # LegOf(o)
  BY <1>1 DEF Single
<1>3. Life(b, LegOf(o)) = "none"
  BY <1>2, LifeNone
<1>4. Life(book', LegOf(o)) = o.st
  <2>1. \A u \in DOMAIN book' : Live(book'[u]) /\ LegOf(book'[u]) = LegOf(book'[n]) => u = n
    BY <1>1 DEF Single
  <2>2. n \in DOMAIN book' /\ Live(book'[n])
    BY <1>1
  <2>3. Life(book', LegOf(book'[n])) = book'[n].st
    BY <2>1, <2>2, LifeOne
  <2> QED BY <1>1, <2>3
<1>5. ASSUME NEW x, x # LegOf(o) PROVE Life(book', x) = Life(b, x)
  <2>1. CASE \A t \in DOMAIN b : Live(b[t]) => LegOf(b[t]) # x
    <3>1. \A t \in DOMAIN book' : Live(book'[t]) => LegOf(book'[t]) # x
      BY <1>1, <1>5, <2>1
    <3> QED BY <2>1, <3>1, LifeNone
  <2>2. ASSUME NEW t \in DOMAIN b, Live(b[t]), LegOf(b[t]) = x
        PROVE  Life(book', x) = Life(b, x)
    <3>1. Life(b, x) = b[t].st
      BY <2>2, LifeOne DEF Single
    <3>2. t \in DOMAIN book' /\ book'[t] = b[t]
      BY <1>1
    <3>3. \A u \in DOMAIN book' : Live(book'[u]) /\ LegOf(book'[u]) = x => u = t
      BY <2>2, <3>2 DEF Single
    <3>4. Life(book', LegOf(book'[t])) = book'[t].st
      BY <2>2, <3>2, <3>3, LifeOne
    <3> QED BY <2>2, <3>1, <3>2, <3>4
  <2> QED BY <2>1, <2>2
<1> QED BY <1>3, <1>4, <1>5

\* A new stray is nobody's life.
LEMMA LifeStray ==
  ASSUME NEW b, NEW o, Grown(b, o), ~Live(o), Single(b)
  PROVE  \A x : Life(book', x) = Life(b, x)
<1> SUFFICES ASSUME NEW x PROVE Life(book', x) = Life(b, x)
  OBVIOUS
<1>1. Alive(book', x) = Alive(b, x)
  BY DEF Alive, Grown
<1>2. \A t \in Alive(b, x) : book'[t] = b[t]
  BY DEF Alive, Grown
<1>3. Alive(b, x) # {} => (CHOOSE t \in Alive(b, x) : TRUE) \in Alive(b, x)
  OBVIOUS
<1> QED BY <1>1, <1>2, <1>3 DEF Life

\* The anchor at work is one of the day's.
LEMMA AtWork ==
  ASSUME IInv, pc \in Sending \cup Confirming
  PROVE  \A s \in Sides, k \in {"leg", "again"} :
           [label |-> work.label, side |-> s, day |-> mem.day, kind |-> k] \in DayLegs
<1>1. mem.day \in 1..MaxDays /\ work.label \in Labels
  <2>1. mem.day \in Nat /\ mem.day <= MaxDays /\ MaxDays \in Nat
    BY BookBounds DEF IInv, TypeOK, State
  <2>2. 1 <= mem.day
    BY DEF IInv, DaysOK, Sending, Confirming, BeforeDayRoll
  <2> QED BY <2>1, <2>2 DEF IInv, WorkOK
<1> QED BY <1>1 DEF DayLegs

\* An order that is accepted as pending is a leg of the day that is.
LEMMA DayAccepted ==
  ASSUME IInv, PlacedOK, PlacedOK', pc \in Sending \cup Confirming, UNCHANGED marked,
         NEW o, Grown(book, o), o.label = work.label, o.side \in Sides, o.day = mem.day,
         o.st = "pending", o.kind \in {"leg", "again"}, Day!MaySend(LegOf(o))
  PROVE  Day!Next
<1> DEFINE x == LegOf(o)
<1>1. x \in DayLegs
  BY AtWork DEF LegOf
<1>2. Single(book) /\ Single(book') /\ Live(o)
  BY DEF PlacedOK, OneEach, Single, LegOf, Live
<1>3. /\ Life(book, x) = "none"
      /\ \A y : Life(book', y) = IF y = x THEN "pending" ELSE Life(book, y)
  BY <1>2, LifeGrows
<1>4. Day!MaySend(x)
  OBVIOUS
<1> HIDE DEF x
<1> DEFINE L(b) == [y \in DayLegs |-> Life(b, y)]
<1>5. L(book') = [L(book) EXCEPT ![x] = "pending"]
  BY <1>1, <1>3
<1>6. L(book)' = L(book')
  BY LifePrimed
<1>7. Day!Accept(x)
  BY <1>1, <1>3, <1>4, <1>5, <1>6 DEF Day!Accept, DayLegs
<1> QED BY <1>1, <1>7 DEF Day!Next, Day!Legs, DayLegs

\* A leg is sent for an anchor that is not marked, and again for one that is.
LEMMA DayAccepts ==
  ASSUME IInv, PlacedOK, PlacedOK', SendLeg, Grown(book, NewLeg(LegAt))
  PROVE  Day!Next
<1>1. LegAt \in Sides /\ pc \in Sending /\ marked' = marked
  BY SendMoves DEF Sending, history
<1>2. /\ NewLeg(LegAt).label = work.label /\ NewLeg(LegAt).side = LegAt
      /\ NewLeg(LegAt).day = mem.day /\ NewLeg(LegAt).st = "pending" /\ NewLeg(LegAt).kind = "leg"
  BY DEF NewLeg
<1>3. Day!MaySend(LegOf(NewLeg(LegAt)))
  BY <1>1, <1>2, AtWorkUnder DEF Day!MaySend, Day!Marked, LegOf
<1> QED BY <1>1, <1>2, <1>3, DayAccepted

LEMMA DaySendsAgain ==
  ASSUME IInv, PlacedOK, PlacedOK', ConfirmResend
  PROVE  Day!Next
<1> DEFINE o == LoneOrder(Checking, "again", "pending")
<1>1. Checking \in Sides /\ pc \in Confirming /\ marked' = marked /\ Grown(book, o)
  BY ResendMoves DEF Confirming, history
<1>2. /\ o.label = work.label /\ o.side = Checking /\ o.day = mem.day /\ o.st = "pending"
      /\ o.kind = "again"
  BY DEF LoneOrder
<1>3. work.label \in Confirmed /\ <<work.label, mem.day>> \in marked
  BY <1>1 DEF IInv, WorkOK, PlacedOK
<1> HIDE DEF o
<1>4. Day!MaySend(LegOf(o))
  BY <1>2, <1>3 DEF Day!MaySend, Day!Marked, LegOf
<1> QED BY <1>1, <1>2, <1>4, DayAccepted

LEMMA DayBuys ==
  ASSUME IInv, PlacedOK, PlacedOK', NEW side \in Sides, BreakoutRecovered(side)
  PROVE  Day!Next
<1> DEFINE o == LoneOrder(side, "leg", "open")
           x == LegOf(o)
<1>1. /\ pc = "recover" /\ marked' = marked \cup {<<work.label, mem.day>>} /\ Grown(book, o)
  BY BreakoutMoves
<1>2. Single(book) /\ Single(book')
  BY DEF PlacedOK, OneEach, Single, LegOf
<1>3. /\ x = [label |-> work.label, side |-> side, day |-> mem.day, kind |-> "leg"]
      /\ o.st = "open" /\ Live(o)
      /\ x \in DayLegs /\ <<x.label, x.day>> \notin marked
  BY <1>1, AtWork, AtWorkUnder DEF LegOf, LoneOrder, Live, Sending
<1> HIDE DEF o
<1>4. \A y : Life(book', y) = IF y = x THEN "open" ELSE Life(book, y)
  BY <1>1, <1>2, <1>3, LifeGrows
<1> HIDE DEF x
<1>5. ASSUME NEW y \in DayLegs, x.label = y.label, x.day = y.day
      PROVE  Life(book, y) = "none"
  <2>1. \A t \in DOMAIN book : Live(book[t]) => ~(book[t].label = work.label /\ book[t].day = mem.day)
    BY <1>1, AtWorkUnder DEF Sending, Under, Working
  <2>2. \A t \in DOMAIN book : Live(book[t]) => LegOf(book[t]) # y
    BY <1>3, <1>5, <2>1 DEF LegOf
  <2> QED BY <2>2, LifeNone
<1> DEFINE L(b) == [y \in DayLegs |-> Life(b, y)]
<1>6. L(book') = [L(book) EXCEPT ![x] = "open"]
  BY <1>3, <1>4
<1>7. L(book)' = L(book')
  BY LifePrimed
<1>8. Day!Buy(x)
  <2>1. \A y \in DayLegs : Day!Twins(x, y) => L(book)[y] = "none"
    BY <1>5 DEF Day!Twins
  <2> QED BY <1>1, <1>3, <1>6, <1>7, <2>1 DEF Day!Buy, Day!Marked, Day!Legs, DayLegs
<1> QED BY <1>3, <1>8 DEF Day!Next, Day!Legs, DayLegs

\* A placement under way has kept its orders in sight.
Seen == pc \in Working => \A s \in Sides : work.got[s] = "ok" => book[work.ticket[s]].kind = "leg"

LEMMA SeenKept ==
  ASSUME IInv, PlacementOK, Seen, [Next]_vars
  PROVE  Seen'
<1> SUFFICES ASSUME pc' \in Working, NEW s \in Sides, work'.got[s] = "ok"
             PROVE  book'[work'.ticket[s]].kind = "leg"
  BY DEF Seen
<1>0. work \in Placement
  BY DEF IInv, WorkOK
<1>1. ASSUME pc \in Working, work.got[s] = "ok", work'.ticket[s] = work.ticket[s],
             ~OrphansCancel, ~Crash
      PROVE  book'[work'.ticket[s]].kind = "leg"
  <2>1. work.ticket[s] \in DOMAIN book /\ book[work.ticket[s]].kind = "leg"
    BY <1>1 DEF Seen, PlacementOK, IsLegOf
  <2> QED BY <1>1, <2>1, KindSteps
<1>2. ~OrphansCancel /\ ~Crash
  BY DEF OrphansCancel, Crash, Working
<1>3. CASE Quiet
  BY <1>1, <1>2, <1>3 DEF Quiet
<1>4. CASE Broker \/ AnswerLost
  <2>1. UNCHANGED <<pc, work>>
    BY <1>4, BrokerMoves DEF Broker, AnswerLost, idleVars
  <2> QED BY <1>1, <1>2, <2>1
<1>5. CASE \E plan \in {Sides, {"BUY"}, {"SELL"}} : StartPlacing(plan)
  <2>1. PICK plan \in SUBSET Sides : StartPlacing(plan)
    BY <1>5 DEF Sides
  <2> QED BY <2>1, StartMoves
<1>6. CASE SendLeg
  <2>1. LegAt \in Sides /\ pc \in Working
    BY <1>6, SendMoves DEF Working
  <2>2. CASE /\ work'.got = [work.got EXCEPT ![LegAt] = "ok"]
             /\ work'.ticket = [work.ticket EXCEPT ![LegAt] = Len(book) + 1]
             /\ Grown(book, NewLeg(LegAt))
    <3>1. CASE s = LegAt
      BY <1>0, <2>1, <2>2, <3>1 DEF Grown, NewLeg, Placement
    <3>2. CASE s # LegAt
      BY <1>0, <1>1, <1>2, <2>1, <2>2, <3>2 DEF Placement
    <3> QED BY <3>1, <3>2
  <2>3. CASE /\ \E answer \in {"none", "refused"} : work'.got = [work.got EXCEPT ![LegAt] = answer]
             /\ work'.ticket = work.ticket
    BY <1>0, <1>1, <1>2, <2>1, <2>3 DEF Placement
  <2> QED BY <1>6, <2>2, <2>3, SendMoves
<1>7. CASE SkipLeg \/ PlacementMarked
  BY <1>1, <1>2, <1>7 DEF SkipLeg, PlacementMarked, idleVars, Working
<1>8. ASSUME \/ ClosePositions \/ CancelPendings \/ ReadPositions \/ Reconcile
             \/ RecordPendings \/ PlacementGivenUp \/ Restart
             \/ ConfirmSeen \/ ConfirmResend \/ ConfirmRecord \/ ConfirmDone
             \/ \E r \in Sides : BreakoutRecovered(r) \/ RecoveryLost(r)
      PROVE  FALSE
  BY <1>8 DEF ClosePositions, CancelPendings, ReadPositions, Reconcile, RecordPendings,
     PlacementGivenUp, Restart, BreakoutRecovered, RecoveryLost, ConfirmSeen,
     ConfirmResend, ConfirmRecord, ConfirmDone, Cancelling, Flattening, AfterCancel, Working
<1> QED BY <1>2, <1>3, <1>4, <1>5, <1>6, <1>7, <1>8, QuietSteps DEF Next, Tick, Place

LEMMA DayMarks ==
  ASSUME IInv, PlacementOK, PlacedOK, PlanOK, Seen, PlacementMarked
  PROVE  Day!Next
<1>1. /\ pc = "resolve" /\ BothPlaced /\ UNCHANGED book
      /\ marked' = marked \cup {<<work.label, mem.day>>}
  BY DEF PlacementMarked
<1>2. PICK s \in Sides : work.got[s] = "ok"
  <2>1. work.plan # {} /\ work.plan \subseteq Sides
    BY <1>1 DEF PlanOK, Working, IInv, WorkOK, Placement
  <2> QED BY <1>1, <2>1 DEF BothPlaced
<1> DEFINE t == work.ticket[s]
           x == LegOf(book[t])
<1>3. /\ t \in DOMAIN book /\ Live(book[t])
      /\ x = [label |-> work.label, side |-> s, day |-> mem.day, kind |-> "leg"]
  BY <1>1, <1>2 DEF PlacementOK, IsLegOf, Working, LegOf, Seen, Live
<1>4. x \in DayLegs /\ <<work.label, mem.day>> \notin marked
  BY <1>1, <1>3, AtWork, AtWorkUnder DEF Sending
<1> HIDE DEF t
<1>5. Life(book, x) = book[t].st
  BY <1>3, LifeOne, OneIsSingle DEF PlacedOK, Single
<1>6. book[t].st # "none"
  BY <1>3, InBook DEF Order, OrderStatus
<1> HIDE DEF x
<1>7. Day!Mark(x)
  <2>1. UNCHANGED <<[y \in DayLegs |-> Life(book, y)]>>
    BY <1>1
  <2> QED BY <1>1, <1>3, <1>4, <1>5, <1>6, <2>1 DEF Day!Mark, Day!Marked, DayLegs
<1> QED BY <1>4, <1>7 DEF Day!Next, Day!Legs, DayLegs

\* A placement that is given up or cut off loses legs of its anchor, not marked yet.
LEMMA DayLoses ==
  ASSUME IInv, PlacementOK, PlacedOK, Seen, OrphansCancel \/ Crash
  PROVE  [Day!Next]_<<[x \in DayLegs |-> Life(book, x)], marked>>
<1> DEFINE lost == {u \in DOMAIN book : Live(book[u]) /\ ~Live(book'[u])}
           X    == {LegOf(book[t]) : t \in lost}
           L(b) == [x \in DayLegs |-> Life(b, x)]
<1>1. SameOrders /\ UNCHANGED marked
  BY OrphansMove, CrashMoves DEF Crash, history
<1>2. ASSUME NEW t \in DOMAIN book
      PROVE  /\ Live(book'[t]) =>
                  Live(book[t]) /\ book'[t].st = book[t].st /\ book'[t].kind = book[t].kind
             /\ t \in lost => t \in Under /\ pc \in Sending
  <2>1. CASE OrphansCancel
    BY <2>1, OrphansMove DEF Live, Sending
  <2>2. CASE Crash
    <3>1. t \in Under => pc \in {"buy", "sell", "resolve", "record"}
      BY UnderIs DEF Working
    <3> QED BY <2>2, <3>1, CrashMoves DEF Live, Sending
  <2> QED BY <2>1, <2>2
<1>3. \A x : Life(book', x) = IF x \in X THEN "none" ELSE Life(book, x)
  <2>1. Single(book)
    BY OneIsSingle DEF PlacedOK
  <2> QED BY <1>1, <1>2, <2>1, LifeLost
<1>4. ASSUME NEW t \in lost
      PROVE  LegOf(book[t]) \in DayLegs /\ <<book[t].label, book[t].day>> \notin marked
  <2>1. t \in Under /\ pc \in Sending /\ pc \in Working
    BY <1>2, <1>4, UnderIs
  <2>2. PICK s \in Sides : work.got[s] = "ok" /\ work.ticket[s] = t
    BY <2>1 DEF Under
  <2>3. /\ book[t].label = work.label /\ book[t].side = s /\ book[t].day = mem.day
        /\ book[t].kind = "leg"
    BY <2>1, <2>2 DEF PlacementOK, IsLegOf, Seen
  <2> QED BY <2>1, <2>3, AtWork, AtWorkUnder DEF LegOf
<1>5. X \in SUBSET {x \in DayLegs : ~Day!Marked(x)}
  BY <1>4 DEF Day!Marked, LegOf
<1> HIDE DEF X
<1>6. L(book') = [x \in DayLegs |-> IF x \in X THEN "none" ELSE L(book)[x]]
  BY <1>3
<1>7. L(book)' = L(book')
  BY LifePrimed
<1>8. Day!Lose
  BY <1>1, <1>5, <1>6, <1>7 DEF Day!Lose, Day!Legs, DayLegs
<1> QED BY <1>8 DEF Day!Next

\* Every step of the loop, the broker and the clock is one of the day or none.
LEMMA DayStep ==
  ASSUME IInv, PlacementOK, PlacedOK, PlacedOK', PlanOK, Seen, [Next]_vars
  PROVE  [Day!Next]_<<[x \in DayLegs |-> Life(book, x)], marked>>
<1>0. OneEach
  BY DEF PlacedOK
<1>1. CASE Quiet \/ ReadPositions \/ Reconcile \/ SkipLeg \/ RecordPendings \/ PlacementGivenUp
           \/ Restart \/ ConfirmSeen \/ ConfirmRecord \/ ConfirmDone
  <2>1. UNCHANGED <<book, marked>>
    BY <1>1 DEF Quiet, ReadPositions, Reconcile, SkipLeg, RecordPendings, PlacementGivenUp,
                Restart, ConfirmSeen, ConfirmRecord, ConfirmDone, idleVars, history
  <2> QED BY <2>1, DaySame
<1>2. CASE Broker
  <2>1. PICK u \in DOMAIN book : BrokerFills(u) \/ BrokerCloses(u)
    BY <1>2 DEF Broker
  <2> QED BY <1>0, <2>1, BrokerMoves, DayMoves DEF history
<1>3. CASE ClosePositions
  BY <1>0, <1>3, CloseMoves, DayMoves
<1>4. CASE CancelPendings
  BY <1>0, <1>4, CancelMoves, DayMoves
<1>5. CASE \E plan \in {Sides, {"BUY"}, {"SELL"}} : StartPlacing(plan)
  <2>1. PICK plan \in SUBSET Sides : StartPlacing(plan)
    BY <1>5 DEF Sides
  <2> QED BY <1>0, <2>1, StartMoves, DayMoves DEF history
<1>6. CASE SendLeg
  <2>1. CASE Grown(book, NewLeg(LegAt))
    BY <1>6, <2>1, DayAccepts
  <2>2. CASE UNCHANGED book
    <3>1. UNCHANGED marked
      BY <1>6 DEF SendLeg, history
    <3> QED BY <2>2, <3>1, DaySame
  <2> QED BY <1>6, <2>1, <2>2, SendMoves
<1>7. CASE AnswerLost \/ \E s \in Sides : RecoveryLost(s)
  <2>1. PICK s \in Sides, st \in {"pending", "open"} : Grown(book, LoneOrder(s, "stray", st))
    BY <1>7, LostMoves, RecoveryLostMoves
  <2>2. UNCHANGED marked
    BY <1>7 DEF AnswerLost, RecoveryLost, history
  <2>3. ~Live(LoneOrder(s, "stray", st)) /\ Single(book)
    BY <1>0, OneIsSingle DEF Live, LoneOrder
  <2>4. \A x : Life(book', x) = Life(book, x)
    BY <2>1, <2>3, LifeStray
  <2>5. [x \in DayLegs |-> Life(book', x)] = [x \in DayLegs |-> Life(book, x)]
    BY <2>4
  <2> QED BY <2>2, <2>5, LifePrimed
<1>8. CASE PlacementMarked
  BY <1>8, DayMarks
<1>9. CASE ConfirmResend
  BY <1>9, DaySendsAgain
<1>10. CASE \E s \in Sides : BreakoutRecovered(s)
  BY <1>10, DayBuys
<1>11. CASE OrphansCancel \/ Crash
  BY <1>11, DayLoses
<1> QED BY <1>1, <1>2, <1>3, <1>4, <1>5, <1>6, <1>7, <1>8, <1>9, <1>10, <1>11, QuietSteps
        DEF Next, Tick, Place

\* Refinement, with every fault: strays aside, the broker sees the day of AnchorDay
\* -- whatever is retried, paused, flattened, refused, lost, read wrong or cut off.
THEOREM BookIsAnAnchorDay == Spec => ImplementsDay
<1>1. Init => PlanOK /\ Seen /\ Day!Init
  <2> SUFFICES ASSUME Init PROVE PlanOK /\ Seen /\ Day!Init
    OBVIOUS
  <2>1. pc = "idle" /\ book = <<>> /\ marked = {} /\ DOMAIN book = {}
    BY DEF Init
  <2>2. \A x : Life(book, x) = "none"
    BY <2>1, LifeNone
  <2> QED BY <2>1, <2>2 DEF PlanOK, Seen, Working, Day!Init, Day!Legs
<1>2. IInv /\ PlanOK /\ [Next]_vars => PlanOK'
  BY PlanKept
<1>3. IInv /\ BookOK /\ Seen /\ [Next]_vars => Seen'
  BY SeenKept DEF BookOK
<1>4. IInv /\ BookOK /\ PlacedOK /\ PlacedOK' /\ PlanOK /\ Seen /\ [Next]_vars
        => [Day!Next]_<<[x \in [label : Labels, side : Sides, day : 1..MaxDays,
                                kind : {"leg", "again"}] |-> Life(book, x)],
                        marked>>
  BY DayStep DEF BookOK, DayLegs
<1>5. Spec => [](PlanOK /\ Seen)
  BY <1>1, <1>2, <1>3, Invariance, BookOKAlways, PTL DEF Spec
<1> QED BY <1>1, <1>4, <1>5, Invariance, BookOKAlways, PlacedAlways, PTL
        DEF Spec, ImplementsDay, Day!Spec
=============================================================================
