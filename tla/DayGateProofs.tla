--------------------------- MODULE DayGateProofs ---------------------------
(***************************************************************************)
(* What DayGate's gates guarantee for every size of stops, days, slips and *)
(* crashes: the type of the state, the Friday latch, and that a stop       *)
(* holds, for what enters and for what joins a position.  The inductive    *)
(* invariant relates the state file to the memory, the clock a pass has    *)
(* read to the clock, and where a pass is to what it may still do.         *)
(***************************************************************************)
EXTENDS DayGate, Watchdog, FiniteSetTheorems, TLAPS

States == [day : 0..MaxDays, killed : BOOLEAN, done : BOOLEAN, eod : BOOLEAN,
           locked : BOOLEAN, override : BOOLEAN]

\* The file is never behind on what stops the day, so a crash forgets no stop
\* that had reached it.
FileKeepsStops ==
  /\ disk.day = mem.day /\ disk.done = mem.done
  /\ disk.killed => mem.killed
  /\ disk.locked => mem.locked

\* What a pass has read is no later than the clock, and a latched Friday is not
\* read as the trading day.
ReadInTime ==
  /\ mem.day <= clock.day
  /\ pc \notin {"idle", "down"} =>
       /\ mem.done => part # "day"
       /\ part # "day" /\ mem.day = clock.day => clock.part # "day"

\* What a pass that got so far has been through.
Passed ==
  /\ pc \in {"friday", "verify"} => FridayReached /\ ~mem.done
  /\ pc \in {"drive", "anchor"} => part # "night"
  /\ pc = "eod" => part = "night"
  /\ pc \in {"verify", "drive", "anchor"} /\ FridayReached => ~slot
  /\ pc = "chain" /\ part # "night" /\ FridayReached => ~slot
  /\ mem.killed => pc \in {"idle", "down", "boost", "fleet", "gate"}
  /\ pc \in {"fleet", "chain"} => ~mem.done \/ blind
  /\ pc = "fleet" => mem.override \/ ~mem.locked

\* The latch is set after the cutoff, with the slot dropped.
LatchedLate == mem.done => ~slot /\ (mem.day = clock.day => clock.part # "day")

IInv == TypeOK /\ FileKeepsStops /\ ReadInTime /\ Passed /\ LatchedLate /\ DoneMeansFlat

-----------------------------------------------------------------------------
\* A booked result stays within the bound.
LEMMA BookedBounded ==
  ASSUME pnl \in -MaxPnl..MaxPnl, NEW r \in {-1, 1}
  PROVE  Booked(r) \in -MaxPnl..MaxPnl
BY DEF Booked

\* A flatten leaves well-typed exposures, makes nothing that was flat anything
\* else, and of an empty book nothing at all.
LEMMA FlattenKeeps ==
  ASSUME TypeOK, NEW hits \in SUBSET Engines, NEW adopted \in BOOLEAN,
         NEW failed \in BOOLEAN, Flatten(hits, adopted, failed),
         \A e \in hits : has[e] # "flat"
  PROVE  /\ has' \in [Engines -> Exposures] /\ pnl' \in -MaxPnl..MaxPnl
         /\ slips' \in 0..MaxSlips
         /\ \A e \in Engines : has[e] = "flat" => has'[e] = "flat"
<1>1. PICK refused \in SUBSET hits, left \in {"flat", "resting"} :
        /\ Slip(failed \/ refused # {})
        /\ has' = [e \in Engines |-> IF e \notin hits \ refused THEN has[e]
                                    ELSE IF e = "rogue" THEN left ELSE "flat"]
        /\ \E r \in {-1, 1} :
             pnl' = IF "anchors" \in hits \ refused /\ has["anchors"] = "open"
                    THEN Booked(r) ELSE pnl
  BY DEF Flatten
<1>2. has' \in [Engines -> Exposures]
  BY <1>1 DEF TypeOK, Engines, Exposures
<1>3. pnl' \in -MaxPnl..MaxPnl
  BY <1>1, BookedBounded DEF TypeOK
<1>4. slips' \in 0..MaxSlips
  BY <1>1, GateBounds DEF TypeOK, Slip
<1>5. \A e \in Engines : has[e] = "flat" => has'[e] = "flat"
  BY <1>1
<1> QED BY <1>2, <1>3, <1>4, <1>5

\* Only the profit lock may change, and only to closed.
LEMMA LatchedKeeps ==
  ASSUME NEW m \in States, NEW v
  PROVE  /\ Latched(m, v) \in States
         /\ Latched(m, v).day = m.day /\ Latched(m, v).done = m.done
         /\ Latched(m, v).killed = m.killed /\ Latched(m, v).override = m.override
         /\ m.locked => Latched(m, v).locked
<1>1. (m.locked \/ (~m.override /\ v >= ProfitStop)) \in BOOLEAN
  BY ZenonT(20)
<1> QED BY <1>1 DEF Latched, States

\* The engines' exposures are all or not all flat.
LEMMA FlatIsFlat ==
  ASSUME has \in [Engines -> Exposures], has' \in [Engines -> Exposures], AllFlat,
         \A e \in Engines : has[e] = "flat" => has'[e] = "flat"
  PROVE  has' = has
BY DEF AllFlat, Flat

Days == {"day", "cutoff", "night"}

\* The clock only goes forward.
LEMMA ClockTyped ==
  ASSUME clock \in [day : 1..MaxDays, part : Days], NextClock.day <= MaxDays
  PROVE  /\ NextClock \in [day : 1..MaxDays, part : Days]
         /\ clock.day <= NextClock.day
         /\ clock.part # "day" /\ NextClock.day = clock.day => NextClock.part # "day"
<1>1. CASE clock.part = "day"
  BY <1>1 DEF NextClock, Days
<1>2. CASE clock.part = "cutoff"
  BY <1>2 DEF NextClock, Days
<1>3. CASE clock.part = "night"
  BY <1>3, GateBounds DEF NextClock, Days
<1> QED BY <1>1, <1>2, <1>3 DEF Days

-----------------------------------------------------------------------------
USE DEF Engines, Exposures

\* The world acts, the bot does not.
LEMMA WorldKeeps == IInv /\ World => IInv'
<1> SUFFICES ASSUME IInv, World PROVE IInv'
  OBVIOUS
<1>1. UNCHANGED <<pc, part, seen, slot, ready, mem, disk, blind, slips, crashes>>
  BY DEF World, pass, bot, bounds
<1>2. CASE TimePasses
  <2>1. /\ clock' \in [day : 1..MaxDays, part : Days]
        /\ clock.day <= clock'.day
        /\ clock.part # "day" /\ clock'.day = clock.day => clock'.part # "day"
        /\ has' = has /\ ruin' = ruin
    BY <1>2, ClockTyped DEF TimePasses, IInv, TypeOK, Days
  <2>2. pnl' \in -MaxPnl..MaxPnl
    BY <1>2, GateBounds DEF TimePasses, IInv, TypeOK
  <2>3. TypeOK'
    BY <1>1, <2>1, <2>2 DEF IInv, TypeOK, Friday, Days
  <2>4. mem.day \in Int /\ clock.day \in Int /\ clock'.day \in Int
    BY <2>1 DEF IInv, TypeOK
  <2>5. FileKeepsStops' /\ Passed' /\ ReadInTime' /\ LatchedLate'
    BY <1>1, <2>1, <2>4
    DEF IInv, FileKeepsStops, ReadInTime, Passed, LatchedLate, FridayReached, Friday
  <2>6. DoneMeansFlat'
    BY <1>1, <2>1, <2>4 DEF IInv, ReadInTime, DoneMeansFlat, AllFlat, Flat
  <2> QED BY <2>3, <2>5, <2>6 DEF IInv
<1>3. CASE EquityMoves \/ \E e \in Engines : Fill(e) \/ Close(e)
  <2>1. /\ has' \in [Engines -> Exposures] /\ clock' = clock
        /\ \A e \in Engines : has[e] = "flat" => has'[e] = "flat"
    BY <1>3 DEF EquityMoves, Fill, Close, IInv, TypeOK
  <2>2. pnl' \in -MaxPnl..MaxPnl
    BY <1>3, BookedBounded DEF EquityMoves, Fill, Close, IInv, TypeOK
  <2>3. ruin' \in BOOLEAN
    BY <1>3, ZenonT(20) DEF EquityMoves, Fill, Close, IInv, TypeOK
  <2>4. TypeOK'
    BY <1>1, <2>1, <2>2, <2>3 DEF IInv, TypeOK, Friday
  <2>5. FileKeepsStops' /\ Passed' /\ ReadInTime' /\ LatchedLate'
    BY <1>1, <2>1
    DEF IInv, FileKeepsStops, ReadInTime, Passed, LatchedLate, FridayReached, Friday
  <2>6. DoneMeansFlat'
    BY <1>1, <2>1 DEF IInv, DoneMeansFlat, AllFlat, Flat
  <2> QED BY <2>4, <2>5, <2>6 DEF IInv
<1> QED BY <1>2, <1>3 DEF World

\* A step that makes nothing that was flat anything else keeps the Friday latch.
LEMMA LatchKeeps ==
  ASSUME IInv, mem'.done = mem.done, blind' = blind,
         \A e \in Engines : has[e] = "flat" => has'[e] = "flat"
  PROVE  DoneMeansFlat'
BY DEF IInv, DoneMeansFlat, AllFlat, Flat

\* A command: a flatten of the book or the override of the profit lock.
LEMMA CommandKeeps == IInv /\ RunCommand => IInv'
<1> SUFFICES ASSUME IInv, RunCommand PROVE IInv'
  OBVIOUS
<1>1. UNCHANGED <<ruin, clock, pc, part, seen, ready, disk, blind, crashes>> /\ pc = "idle"
  BY DEF RunCommand, pass
<1>2. CASE RunFlatten
  <2>1. /\ Flatten(Book, FALSE, FALSE) /\ slot' = FALSE /\ mem' = mem
        /\ Book \in SUBSET Engines /\ \A e \in Book : has[e] # "flat"
    BY <1>2 DEF RunFlatten, Book, Flat
  <2>2. /\ has' \in [Engines -> Exposures] /\ pnl' \in -MaxPnl..MaxPnl
        /\ slips' \in 0..MaxSlips
        /\ \A e \in Engines : has[e] = "flat" => has'[e] = "flat"
    BY <2>1, FlattenKeeps DEF IInv
  <2>3. TypeOK'
    BY <1>1, <2>1, <2>2 DEF IInv, TypeOK, Friday
  <2>4. FileKeepsStops' /\ Passed' /\ ReadInTime' /\ LatchedLate'
    BY <1>1, <2>1 DEF IInv, FileKeepsStops, ReadInTime, Passed, LatchedLate, FridayReached, Friday
  <2>5. DoneMeansFlat'
    BY <1>1, <2>1, <2>2, LatchKeeps
  <2> QED BY <2>3, <2>4, <2>5 DEF IInv
<1>3. CASE RunOverride
  <2>1. PICK r \in Reading :
          /\ Slip(r.bad)
          /\ mem' = [Latched(mem, r.value) EXCEPT !.override = @ \/ r.value > -LossStop]
    BY <1>3 DEF RunOverride
  <2>2. has' = has /\ pnl' = pnl /\ slot' = slot
    BY <1>3 DEF RunOverride
  <2> DEFINE m == Latched(mem, r.value)
  <2>3. /\ m \in States /\ m.day = mem.day /\ m.done = mem.done
        /\ m.killed = mem.killed
        /\ mem.locked => m.locked
    BY LatchedKeeps DEF IInv, TypeOK, States
  <2> HIDE DEF m
  <2>4. (m.override \/ r.value > -LossStop) \in BOOLEAN
    BY ZenonT(20)
  <2>5. /\ mem' \in States /\ mem'.day = mem.day /\ mem'.done = mem.done
        /\ mem'.killed = mem.killed
        /\ mem.locked => mem'.locked
    <3>1. mem' = [m EXCEPT !.override = m.override \/ r.value > -LossStop]
      BY <2>1 DEF m
    <3> QED BY <2>3, <2>4, <3>1 DEF States
  <2>6. slips' \in 0..MaxSlips
    BY <2>1, GateBounds DEF Slip, IInv, TypeOK
  <2>7. TypeOK'
    BY <1>1, <2>2, <2>5, <2>6 DEF IInv, TypeOK, Friday, States
  <2>8. FileKeepsStops' /\ Passed' /\ ReadInTime' /\ LatchedLate'
    BY <1>1, <2>2, <2>5 DEF IInv, FileKeepsStops, ReadInTime, Passed, LatchedLate, FridayReached, Friday
  <2>9. DoneMeansFlat'
    BY <1>1, <2>2, <2>5, LatchKeeps
  <2> QED BY <2>7, <2>8, <2>9 DEF IInv
<1> QED BY <1>2, <1>3 DEF RunCommand

\* The roll forgets the stops of another day only.
LEMMA RollKeeps == IInv /\ Roll => IInv'
<1> SUFFICES ASSUME IInv, Roll PROVE IInv'
  OBVIOUS
<1>1. /\ UNCHANGED <<has, pnl, clock, slot, blind, slips, crashes, seen>>
      /\ pc = "idle" /\ pc' = "boost" /\ part' = clock.part /\ ready' = TRUE
  BY DEF Roll, bounds
<1>2. CASE mem.day # clock.day
  <2>1. mem' = FreshState(clock.day) /\ disk' = mem' /\ ruin' = FALSE
    BY <1>2 DEF Roll, Rolled, SaveState
  <2>2. /\ mem' \in States /\ mem'.day = clock.day /\ ~mem'.done /\ ~mem'.killed /\ ~mem'.locked
    BY <2>1, GateBounds DEF FreshState, States, IInv, TypeOK
  <2>3. TypeOK'
    BY <1>1, <2>1, <2>2 DEF IInv, TypeOK, Friday, States
  <2>4. FileKeepsStops' /\ Passed' /\ LatchedLate' /\ DoneMeansFlat'
    BY <1>1, <2>1, <2>2 DEF FileKeepsStops, Passed, LatchedLate, DoneMeansFlat
  <2>5. ReadInTime'
    <3>1. mem'.day <= clock'.day
      BY <1>1, <2>2, GateBounds DEF IInv, TypeOK
    <3> QED BY <1>1, <2>2, <3>1 DEF ReadInTime
  <2> QED BY <2>3, <2>4, <2>5 DEF IInv
<1>3. CASE mem.day = clock.day
  <2>1. UNCHANGED <<mem, disk, ruin>>
    BY <1>3 DEF Roll
  <2>2. TypeOK'
    BY <1>1, <2>1 DEF IInv, TypeOK, Friday
  <2>3. FileKeepsStops' /\ Passed' /\ ReadInTime' /\ LatchedLate'
    BY <1>1, <1>3, <2>1 DEF IInv, FileKeepsStops, ReadInTime, Passed, LatchedLate
  <2>4. DoneMeansFlat'
    BY <1>1, <2>1, LatchKeeps
  <2> QED BY <2>2, <2>3, <2>4 DEF IInv
<1> QED BY <1>2, <1>3

\* The boost triggers latch the profit lock; a leg that fires is open, and the
\* anchors' day is not stopped.
LEMMA BoostKeeps == IInv /\ BoostTriggers => IInv'
<1> SUFFICES ASSUME IInv, BoostTriggers PROVE IInv'
  OBVIOUS
<1>1. /\ UNCHANGED <<has, pnl, ruin, clock, part, slot, ready, disk, blind, crashes>>
      /\ pc = "boost"
  BY DEF BoostTriggers, broker, bot
<1>2. PICK r \in Reading :
        /\ Slip(r.bad)
        /\ mem' = Latched(mem, r.value) /\ seen' = r.value
        /\ \/ pc' = "gate"
           \/ has["anchors"] = "open" /\ ~Stopped(mem', r.value) /\ pc' = "fleet"
  BY DEF BoostTriggers
<1>3. /\ mem' \in States /\ mem'.day = mem.day /\ mem'.done = mem.done
      /\ mem'.killed = mem.killed
      /\ mem.locked => mem'.locked
  BY <1>2, LatchedKeeps DEF IInv, TypeOK, States
<1>4. slips' \in 0..MaxSlips
  BY <1>2, GateBounds DEF Slip, IInv, TypeOK
<1>5. r.value \in -MaxPnl..MaxPnl
  BY GateBounds DEF Reading, IInv, TypeOK
<1>6. pc' \in {"gate", "fleet"} /\ (pc' = "fleet" => has["anchors"] = "open")
  BY <1>2
<1>7. pc' = "fleet" => mem'.override \/ ~mem'.locked
  BY <1>2 DEF Stopped
<1>8. pc' = "fleet" => ~mem.done \/ blind
  BY <1>6 DEF IInv, DoneMeansFlat, AllFlat, Flat
<1>9. TypeOK'
  BY <1>1, <1>2, <1>3, <1>4, <1>5, <1>6 DEF IInv, TypeOK, Friday, States
<1>10. FileKeepsStops' /\ ReadInTime' /\ LatchedLate'
  BY <1>1, <1>3, <1>6 DEF IInv, FileKeepsStops, ReadInTime, LatchedLate
<1>11. Passed'
  BY <1>1, <1>3, <1>6, <1>7, <1>8 DEF Passed
<1>12. DoneMeansFlat'
  BY <1>1, <1>3, LatchKeeps
<1> QED BY <1>9, <1>10, <1>11, <1>12 DEF IInv

\* A fleet opens, but not on a Friday that was verified flat.
LEMMA FleetKeeps == IInv /\ Fleet => IInv'
<1> SUFFICES ASSUME IInv, Fleet PROVE IInv'
  OBVIOUS
<1>1. /\ UNCHANGED <<pnl, ruin, clock, slot, ready, mem, disk, blind, slips, crashes, part, seen>>
      /\ pc = "fleet" /\ pc' = "gate"
      /\ has' \in {has, [has EXCEPT !["anchors"] = "open"]}
  BY DEF Fleet, Goto, bot, bounds
<1>2. TypeOK'
  BY <1>1 DEF IInv, TypeOK, Friday
<1>3. FileKeepsStops' /\ Passed' /\ ReadInTime' /\ LatchedLate'
  BY <1>1 DEF IInv, FileKeepsStops, ReadInTime, Passed, LatchedLate
<1>4. DoneMeansFlat'
  BY <1>1 DEF IInv, Passed, DoneMeansFlat
<1> QED BY <1>2, <1>3, <1>4 DEF IInv

\* The gate lets a pass through to where its stops allow.
LEMMA GateKeeps == IInv /\ Gate => IInv'
<1> SUFFICES ASSUME IInv, Gate PROVE IInv'
  OBVIOUS
<1>1. /\ UNCHANGED <<has, pnl, ruin, clock, slot, ready, mem, disk, blind, slips, crashes>>
      /\ pc = "gate"
  BY DEF Gate, broker, bot, bounds
<1>2. 0 \in -MaxPnl..MaxPnl
  BY GateBounds
<1>3. /\ pc' \in {"idle", "kill", "friday", "eod", "drive"} /\ seen' \in {seen, 0}
      /\ part' \in {part, "none"}
      /\ pc' # "idle" => part' = part /\ ~mem.killed
      /\ pc' = "friday" => FridayReached /\ ~mem.done
      /\ pc' = "drive" => part # "night" /\ ~(FridayReached /\ ~mem.done)
      /\ pc' = "eod" => part = "night"
  BY DEF Gate, Goto, PassEnds, AfterFriday
<1>4. TypeOK'
  BY <1>1, <1>2, <1>3 DEF IInv, TypeOK, Friday
<1>5. FileKeepsStops' /\ ReadInTime' /\ LatchedLate'
  BY <1>1, <1>3 DEF IInv, FileKeepsStops, ReadInTime, LatchedLate
<1>6. Passed'
  BY <1>1, <1>3 DEF IInv, Passed, LatchedLate, FridayReached, Friday
<1>7. DoneMeansFlat'
  BY <1>1, LatchKeeps
<1> QED BY <1>4, <1>5, <1>6, <1>7 DEF IInv

\* The kill flattens the book and then locks the day.
LEMMA KillKeeps == IInv /\ (KillFlatten \/ KillLock) => IInv'
<1> SUFFICES ASSUME IInv, KillFlatten \/ KillLock PROVE IInv'
  OBVIOUS
<1>1. CASE KillFlatten
  <2>1. /\ UNCHANGED <<ruin, clock, ready, mem, disk, blind, crashes, part, seen>>
        /\ slot' = FALSE /\ pc = "kill" /\ pc' = "lock"
    BY <1>1 DEF KillFlatten, Goto
  <2>2. Flatten(Book, FALSE, FALSE) /\ Book \in SUBSET Engines /\ \A e \in Book : has[e] # "flat"
    BY <1>1 DEF KillFlatten, Book, Flat
  <2>3. /\ has' \in [Engines -> Exposures] /\ pnl' \in -MaxPnl..MaxPnl
        /\ slips' \in 0..MaxSlips
        /\ \A e \in Engines : has[e] = "flat" => has'[e] = "flat"
    BY <2>2, FlattenKeeps DEF IInv
  <2>4. TypeOK'
    BY <2>1, <2>3 DEF IInv, TypeOK, Friday
  <2>5. FileKeepsStops' /\ Passed' /\ ReadInTime' /\ LatchedLate'
    BY <2>1 DEF IInv, FileKeepsStops, ReadInTime, Passed, LatchedLate
  <2>6. DoneMeansFlat'
    BY <2>1, <2>3, LatchKeeps
  <2> QED BY <2>4, <2>5, <2>6 DEF IInv
<1>2. CASE KillLock
  <2>1. /\ UNCHANGED <<has, pnl, ruin, clock, slot, ready, blind, slips, crashes>>
        /\ pc' = "idle" /\ part' = "none" /\ seen' = 0 /\ disk' = mem'
        /\ mem' = [mem EXCEPT !.killed = TRUE]
    BY <1>2 DEF KillLock, broker, bot, bounds, PassEnds, SaveState
  <2>2. /\ mem' \in States /\ mem'.day = mem.day /\ mem'.done = mem.done
    BY <2>1 DEF IInv, TypeOK, States
  <2>3. 0 \in -MaxPnl..MaxPnl
    BY GateBounds
  <2>4. TypeOK'
    BY <2>1, <2>2, <2>3 DEF IInv, TypeOK, Friday, States
  <2>5. FileKeepsStops' /\ Passed' /\ ReadInTime' /\ LatchedLate'
    BY <2>1, <2>2 DEF IInv, FileKeepsStops, ReadInTime, Passed, LatchedLate
  <2>6. DoneMeansFlat'
    BY <2>1, <2>2, LatchKeeps
  <2> QED BY <2>4, <2>5, <2>6 DEF IInv
<1> QED BY <1>1, <1>2

\* A pass of the Friday poll flattens; the slot is dropped.
LEMMA FridayFlattenKeeps == IInv /\ FridayFlatten => IInv'
<1> SUFFICES ASSUME IInv, FridayFlatten PROVE IInv'
  OBVIOUS
<1>1. /\ UNCHANGED <<ruin, clock, ready, mem, blind, crashes, part, seen>> /\ disk' = mem
      /\ slot' = FALSE /\ pc = "friday" /\ pc' = "verify"
  BY DEF FridayFlatten, Goto, SaveState
<1>2. /\ has' \in [Engines -> Exposures] /\ pnl' \in -MaxPnl..MaxPnl
      /\ slips' \in 0..MaxSlips
      /\ \A e \in Engines : has[e] = "flat" => has'[e] = "flat"
  <2>1. CASE Flatten(Resynced, TRUE, FALSE)
    <3>1. Resynced \in SUBSET Engines /\ \A e \in Resynced : has[e] # "flat"
      BY DEF Resynced, Flat
    <3> QED BY <2>1, <3>1, FlattenKeeps DEF IInv
  <2>2. CASE Flatten(Book, FALSE, TRUE)
    <3>1. Book \in SUBSET Engines /\ \A e \in Book : has[e] # "flat"
      BY DEF Book, Flat
    <3> QED BY <2>2, <3>1, FlattenKeeps DEF IInv
  <2> QED BY <2>1, <2>2 DEF FridayFlatten
<1>3. TypeOK'
  BY <1>1, <1>2 DEF IInv, TypeOK, Friday
<1>4. FileKeepsStops' /\ Passed' /\ ReadInTime' /\ LatchedLate'
  BY <1>1 DEF IInv, FileKeepsStops, ReadInTime, Passed, LatchedLate, FridayReached, Friday
<1>5. DoneMeansFlat'
  BY <1>1, <1>2, LatchKeeps
<1> QED BY <1>3, <1>4, <1>5 DEF IInv

\* The latch is set when everything is flat, or the check was fooled.
LEMMA FridayVerifyKeeps == IInv /\ FridayVerify => IInv'
<1> SUFFICES ASSUME IInv, FridayVerify PROVE IInv'
  OBVIOUS
<1>1. /\ UNCHANGED <<has, pnl, ruin, clock, slot, ready, crashes, part, seen>>
      /\ pc = "verify" /\ pc' = AfterFriday
      /\ IF mem'.done THEN disk' = mem' ELSE disk' = disk
  BY DEF FridayVerify, Goto, SaveState, bot, broker
<1>2. PICK fooled \in BOOLEAN :
        /\ Slip(fooled)
        /\ mem' = [mem EXCEPT !.done = Verified \/ fooled]
        /\ blind' = (blind \/ fooled)
  BY DEF FridayVerify
<1>3. (Verified \/ fooled) \in BOOLEAN /\ blind' \in BOOLEAN
  <2>1. (Verified \/ fooled) \in BOOLEAN
    BY ZenonT(20)
  <2>2. (blind \/ fooled) \in BOOLEAN
    BY ZenonT(20)
  <2> QED BY <1>2, <2>1, <2>2
<1>4. /\ mem' \in States /\ mem'.day = mem.day /\ mem'.killed = mem.killed
      /\ mem'.locked = mem.locked
      /\ mem'.done => Verified \/ fooled
  BY <1>2, <1>3 DEF IInv, TypeOK, States
<1>5. slips' \in 0..MaxSlips
  BY <1>2, GateBounds DEF Slip, IInv, TypeOK
<1>6. FridayReached /\ ~mem.done /\ ~slot /\ ~mem.killed
      /\ pc' \in {"eod", "drive"} /\ (pc' = "drive" <=> part # "night")
  BY <1>1 DEF IInv, Passed, AfterFriday
<1>7. TypeOK'
  BY <1>1, <1>3, <1>4, <1>5, <1>6 DEF IInv, TypeOK, FridayReached, Friday, States
<1>8. FileKeepsStops' /\ Passed' /\ ReadInTime' /\ LatchedLate'
  <2>1. mem'.done \in BOOLEAN /\ disk.done \in BOOLEAN /\ ~disk.done
    BY <1>4, <1>6 DEF IInv, TypeOK, FileKeepsStops, States
  <2>2. FileKeepsStops'
    BY <1>1, <1>4, <1>6, <2>1 DEF IInv, FileKeepsStops
  <2>3. ReadInTime'
    BY <1>1, <1>4, <1>6 DEF IInv, ReadInTime, FridayReached, Friday
  <2>4. Passed'
    BY <1>1, <1>4, <1>6 DEF Passed, FridayReached, Friday
  <2>5. LatchedLate'
    BY <1>1, <1>4, <1>6 DEF IInv, ReadInTime, LatchedLate, FridayReached, Friday
  <2> QED BY <2>2, <2>3, <2>4, <2>5
<1>9. DoneMeansFlat'
  <2> SUFFICES ASSUME mem'.done, ~blind' PROVE AllFlat'
    BY DEF DoneMeansFlat
  <2>1. Verified
    BY <1>2, <1>4
  <2> QED BY <1>1, <2>1 DEF Verified, AllFlat, Flat
<1> QED BY <1>7, <1>8, <1>9 DEF IInv

\* The end of the day flattens, or goes on to a chain of an open Rogue position.
LEMMA EndOfDayKeeps == IInv /\ EndOfDay => IInv'
<1> SUFFICES ASSUME IInv, EndOfDay PROVE IInv'
  OBVIOUS
<1>1. /\ UNCHANGED <<ruin, clock, slot, ready, blind, crashes>> /\ pc = "eod"
      /\ mem' = [mem EXCEPT !.eod = TRUE]
      /\ disk' = disk \/ disk' = mem'
  BY DEF EndOfDay, bot, SaveState
<1>2. \/ pc' = "idle" /\ part' = "none" /\ seen' = 0
      \/ pc' = "chain" /\ part' = part /\ seen' = seen /\ has["rogue"] = "open"
  <2>1. PassEnds \/ (has["rogue"] = "open" /\ Goto("chain"))
    BY ZenonT(20) DEF EndOfDay
  <2> QED BY <2>1 DEF PassEnds, Goto
<1>3. /\ has' \in [Engines -> Exposures] /\ pnl' \in -MaxPnl..MaxPnl
      /\ slips' \in 0..MaxSlips
      /\ \A e \in Engines : has[e] = "flat" => has'[e] = "flat"
  <2>1. CASE Flatten(Book, FALSE, FALSE)
    <3>1. Book \in SUBSET Engines /\ \A e \in Book : has[e] # "flat"
      BY DEF Book, Flat
    <3> QED BY <2>1, <3>1, FlattenKeeps DEF IInv
  <2>2. CASE Flatten(Book \cap {"anchors"}, TRUE, FALSE)
    <3>1. /\ Book \cap {"anchors"} \in SUBSET Engines
          /\ \A e \in Book \cap {"anchors"} : has[e] # "flat"
      BY DEF Book, Flat
    <3> QED BY <2>2, <3>1, FlattenKeeps DEF IInv
  <2> QED BY <2>1, <2>2 DEF EndOfDay
<1>4. /\ mem' \in States /\ mem'.day = mem.day /\ mem'.done = mem.done
      /\ mem'.killed = mem.killed /\ mem'.locked = mem.locked
  BY <1>1 DEF IInv, TypeOK, States
<1>5. TypeOK'
  <2>1. 0 \in -MaxPnl..MaxPnl
    BY GateBounds
  <2>2. disk' \in States
    BY <1>1, <1>4 DEF IInv, TypeOK, States
  <2> QED BY <1>1, <1>2, <1>3, <1>4, <2>1, <2>2 DEF IInv, TypeOK, Friday, States
<1>6. FileKeepsStops' /\ ReadInTime' /\ LatchedLate'
  BY <1>1, <1>2, <1>4 DEF IInv, FileKeepsStops, ReadInTime, LatchedLate
<1>7. Passed'
  <2>1. part = "night" /\ ~mem.killed
    BY <1>1 DEF IInv, Passed
  <2>2. pc' = "chain" => ~mem.done \/ blind
    BY <1>2 DEF IInv, DoneMeansFlat, AllFlat, Flat
  <2> QED BY <1>1, <1>2, <1>4, <2>1, <2>2 DEF Passed
<1>8. DoneMeansFlat'
  BY <1>1, <1>3, <1>4, LatchKeeps
<1> QED BY <1>5, <1>6, <1>7, <1>8 DEF IInv

\* The drivers: Rogue arms before the cutoff only, a slot is admitted before the
\* cutoff only, and one admitted before is gone by the time the latch is set.
\* What a chain stop joins was open in this pass.
LEMMA DriversKeep == IInv /\ (DriveRogue \/ RogueChain \/ DriveAnchors) => IInv'
<1> SUFFICES ASSUME IInv, DriveRogue \/ RogueChain \/ DriveAnchors PROVE IInv'
  OBVIOUS
<1>1. CASE DriveRogue
  <2>1. /\ UNCHANGED <<pnl, ruin, clock, slot, ready, mem, disk, blind, slips, crashes, part, seen>>
        /\ pc = "drive" /\ pc' \in {"anchor", "chain"}
        /\ pc' = "chain" => has["rogue"] = "open"
        /\ has' = has \/ (~FridayReached /\ has' = [has EXCEPT !["rogue"] = "resting"])
    BY <1>1 DEF DriveRogue, Goto, bot, bounds
  <2>2. TypeOK'
    BY <2>1 DEF IInv, TypeOK, Friday
  <2>3. FileKeepsStops' /\ ReadInTime' /\ LatchedLate'
    BY <2>1 DEF IInv, FileKeepsStops, ReadInTime, LatchedLate, FridayReached
  <2>4. pc' = "chain" => ~mem.done \/ blind
    BY <2>1 DEF IInv, DoneMeansFlat, AllFlat, Flat
  <2>5. Passed'
    BY <2>1, <2>4 DEF IInv, Passed, FridayReached
  <2>6. CASE has' = has
    BY <2>1, <2>6, LatchKeeps, <2>2, <2>3, <2>5 DEF IInv
  <2>7. CASE ~FridayReached
    <3>1. ~mem.done
      BY <2>1, <2>7 DEF IInv, ReadInTime, FridayReached, TypeOK
    <3> QED BY <2>1, <2>2, <2>3, <2>5, <3>1 DEF IInv, DoneMeansFlat
  <2> QED BY <2>1, <2>6, <2>7
<1>3. CASE RogueChain
  <2>1. /\ UNCHANGED <<pnl, ruin, clock, slot, ready, mem, disk, blind, slips, crashes>>
        /\ pc = "chain"
        /\ \/ part = "night" /\ pc' = "idle" /\ part' = "none" /\ seen' = 0
           \/ part # "night" /\ pc' = "anchor" /\ part' = part /\ seen' = seen
        /\ has' \in {has, [has EXCEPT !["rogue"] = IF @ = "flat" THEN "resting" ELSE @]}
    BY <1>3 DEF RogueChain, Goto, PassEnds, bot, bounds
  <2>2. TypeOK'
    <3>1. 0 \in -MaxPnl..MaxPnl
      BY GateBounds
    <3>2. has' \in [Engines -> Exposures]
      BY <2>1 DEF IInv, TypeOK
    <3> QED BY <2>1, <3>1, <3>2 DEF IInv, TypeOK, Friday
  <2>3. FileKeepsStops' /\ Passed' /\ ReadInTime' /\ LatchedLate'
    BY <2>1 DEF IInv, FileKeepsStops, ReadInTime, Passed, LatchedLate, FridayReached
  <2>4. DoneMeansFlat'
    BY <2>1 DEF IInv, Passed, DoneMeansFlat
  <2> QED BY <2>2, <2>3, <2>4 DEF IInv
<1>2. CASE DriveAnchors
  <2>1. /\ UNCHANGED <<pnl, ruin, clock, ready, blind, slips, crashes>>
        /\ pc = "anchor" /\ pc' = "idle" /\ part' = "none" /\ seen' = 0
    BY <1>2 DEF DriveAnchors, PassEnds, bounds
  <2>2. /\ mem' = mem /\ disk' \in {disk, mem}
        /\ slot' \in BOOLEAN
        /\ slot' => slot \/ ~FridayReached
        /\ \/ has' = has
           \/ slot /\ has' = [has EXCEPT !["anchors"] = IF @ = "flat" THEN "resting" ELSE @]
    <3>1. CASE AnchorDue
      <4>1. slot' \in BOOLEAN
        BY <3>1, ZenonT(20) DEF AnchorDue
      <4> QED BY <3>1, <4>1 DEF AnchorDue, SaveState
    <3>2. CASE CompleteSlot
      BY <3>2 DEF CompleteSlot
    <3>3. CASE UNCHANGED <<has, slot, mem, disk>>
      BY <3>3 DEF IInv, TypeOK
    <3> QED BY <1>2, <3>1, <3>2, <3>3 DEF DriveAnchors
  <2>3. mem.done => FridayReached /\ ~slot
    BY <2>1 DEF IInv, TypeOK, ReadInTime, LatchedLate, FridayReached
  <2>4. TypeOK'
    <3>1. 0 \in -MaxPnl..MaxPnl
      BY GateBounds
    <3>2. has' \in [Engines -> Exposures]
      BY <2>2 DEF IInv, TypeOK
    <3> QED BY <2>1, <2>2, <3>1, <3>2 DEF IInv, TypeOK, Friday
  <2>5. FileKeepsStops' /\ Passed' /\ ReadInTime' /\ LatchedLate'
    BY <2>1, <2>2, <2>3 DEF IInv, FileKeepsStops, ReadInTime, Passed, LatchedLate
  <2>6. DoneMeansFlat'
    <3>1. CASE mem.done
      BY <2>1, <2>2, <2>3, <3>1 DEF IInv, DoneMeansFlat, AllFlat, Flat
    <3>2. CASE ~mem.done
      BY <2>2, <3>2 DEF DoneMeansFlat
    <3> QED BY <3>1, <3>2
  <2> QED BY <2>4, <2>5, <2>6 DEF IInv
<1> QED BY <1>1, <1>2, <1>3

\* A crash loses the slot and what is only in memory; the latch is in the file.
LEMMA CrashKeeps == IInv /\ (Crash \/ Restart) => IInv'
<1> SUFFICES ASSUME IInv, Crash \/ Restart PROVE IInv'
  OBVIOUS
<1>0. 0 \in -MaxPnl..MaxPnl
  BY GateBounds
<1>1. CASE Crash
  <2>1. /\ UNCHANGED <<has, pnl, ruin, clock, disk, blind, slips>>
        /\ pc' = "down" /\ part' = "none" /\ seen' = 0
        /\ mem' = disk /\ slot' = FALSE /\ ready' = FALSE
        /\ crashes < MaxCrashes /\ crashes' = crashes + 1
    BY <1>1 DEF Crash, broker
  <2>2. crashes' \in 0..MaxCrashes
    BY <2>1, GateBounds DEF IInv, TypeOK
  <2>3. TypeOK'
    BY <1>0, <2>1, <2>2 DEF IInv, TypeOK, FileKeepsStops, Friday
  <2>4. FileKeepsStops' /\ Passed' /\ ReadInTime' /\ LatchedLate' /\ DoneMeansFlat'
    BY <2>1 DEF IInv, FileKeepsStops, ReadInTime, Passed, LatchedLate,
                DoneMeansFlat, AllFlat, Flat
  <2> QED BY <2>3, <2>4 DEF IInv
<1>2. CASE Restart
  <2>1. /\ UNCHANGED <<has, pnl, ruin, clock, slot, ready, mem, disk, blind, slips, crashes>>
        /\ pc' = "idle" /\ part' = "none" /\ seen' = 0
    BY <1>2 DEF Restart, PassEnds, broker, bot, bounds
  <2>2. TypeOK'
    BY <1>0, <2>1 DEF IInv, TypeOK, Friday
  <2>3. FileKeepsStops' /\ Passed' /\ ReadInTime' /\ LatchedLate' /\ DoneMeansFlat'
    BY <2>1 DEF IInv, FileKeepsStops, ReadInTime, Passed, LatchedLate,
                DoneMeansFlat, AllFlat, Flat
  <2> QED BY <2>2, <2>3 DEF IInv
<1> QED BY <1>1, <1>2

LEMMA InitIInv == Init => IInv
<1> SUFFICES ASSUME Init PROVE IInv
  OBVIOUS
<1>1. 0 \in -MaxPnl..MaxPnl /\ 0 \in 0..MaxDays /\ 0 \in 0..MaxSlips /\ 0 \in 0..MaxCrashes
  BY GateBounds
<1>2. FreshState(0) \in States /\ FreshState(0).day = 0 /\ ~FreshState(0).done
      /\ ~FreshState(0).killed /\ ~FreshState(0).locked
  BY <1>1 DEF FreshState, States
<1>3. TypeOK
  <2>1. pnl \in -MaxPnl..MaxPnl /\ seen \in -MaxPnl..MaxPnl /\ slips \in 0..MaxSlips
        /\ crashes \in 0..MaxCrashes
    BY <1>1 DEF Init
  <2>2. clock \in [day : 1..MaxDays, part : {"day", "cutoff", "night"}]
    BY GateBounds DEF Init
  <2>3. {ruin, slot, ready, blind} \subseteq BOOLEAN /\ has \in [Engines -> Exposures]
    BY DEF Init
  <2> QED BY <1>2, <2>1, <2>2, <2>3 DEF Init, TypeOK, States
<1> QED BY <1>2, <1>3 DEF Init, IInv, FileKeepsStops, ReadInTime, Passed, LatchedLate, DoneMeansFlat

LEMMA NextKeeps == IInv /\ [Next]_vars => IInv'
<1>1. IInv /\ UNCHANGED vars => IInv'
  BY DEF vars, broker, pass, bot, bounds, IInv, TypeOK, FileKeepsStops, ReadInTime, Passed,
         LatchedLate, DoneMeansFlat, AllFlat, Flat, Friday, FridayReached
<1> QED BY <1>1, WorldKeeps, CommandKeeps, RollKeeps, BoostKeeps, FleetKeeps, GateKeeps, KillKeeps, FridayFlattenKeeps,
          FridayVerifyKeeps, EndOfDayKeeps, DriversKeep, CrashKeeps DEF Next, Pass

LEMMA Inductive == Spec => []IInv
BY InitIInv, NextKeeps, PTL DEF Spec

-----------------------------------------------------------------------------
(* Every state is well typed, and the Friday latch is set on Fridays only. *)
THEOREM TypeCorrect == Spec => []TypeOK
<1>1. IInv => TypeOK
  BY DEF IInv
<1> QED BY <1>1, Inductive, PTL

(* The Friday latch means a flat book until the day rolls, whatever fills, *)
(* is commanded, crashes or restarts, unless the check itself was fooled.  *)
THEOREM LatchMeansFlat == Spec => []DoneMeansFlat
<1>1. IInv => DoneMeansFlat
  BY DEF IInv
<1> QED BY <1>1, Inductive, PTL

\* Who enters: only the two drivers, before the night and the cutoff and not on
\* a killed day.
LEMMA Enters ==
  ASSUME IInv, Next, Arms \/ Admits \/ Places
  PROVE  /\ part # "night" /\ ~FridayReached /\ ~mem.killed
         /\ Admits => AnchorDue
<1>1. ~(World \/ RunCommand \/ Crash \/ Restart)
  <2>1. ASSUME World PROVE FALSE
    <3>1. slot' = slot /\ \A e \in Engines : has[e] = "flat" => has'[e] = "flat"
      BY <2>1 DEF World, TimePasses, EquityMoves, Fill, Close, bot, IInv, TypeOK
    <3> QED BY <3>1 DEF Arms, Admits, Places, Flat
  <2>2. ASSUME RunCommand PROVE FALSE
    BY <2>2 DEF RunCommand, RunFlatten, RunOverride, Arms, Admits, Places
  <2>3. ASSUME Crash \/ Restart PROVE FALSE
    BY <2>3 DEF Crash, Restart, broker, bot, Arms, Admits, Places, Flat
  <2> QED BY <2>1, <2>2, <2>3
<1>2. Pass
  BY <1>1 DEF Next
<1>3. DriveRogue \/ DriveAnchors
  <2>1. ASSUME Roll \/ BoostTriggers \/ Fleet \/ Gate \/ KillFlatten \/ KillLock PROVE FALSE
    <3>1. pc \notin {"drive", "anchor"} /\ (slot' = slot \/ slot' = FALSE)
      BY <2>1, ZenonT(30) DEF Roll, BoostTriggers, Fleet, Gate, KillFlatten, KillLock, bot
    <3> QED BY <3>1 DEF Arms, Admits, Places
  <2>2. ASSUME FridayFlatten \/ FridayVerify \/ EndOfDay \/ RogueChain PROVE FALSE
    <3>1. pc \notin {"drive", "anchor"} /\ (slot' = slot \/ slot' = FALSE)
      BY <2>2, ZenonT(30) DEF FridayFlatten, FridayVerify, EndOfDay, RogueChain, bot
    <3> QED BY <3>1 DEF Arms, Admits, Places
  <2> QED BY <1>2, <2>1, <2>2 DEF Pass
<1>4. part # "night" /\ ~mem.killed
  BY <1>3 DEF DriveRogue, DriveAnchors, IInv, Passed
<1>5. ~FridayReached /\ (Admits => AnchorDue)
  <2>1. CASE DriveRogue
    BY <2>1 DEF DriveRogue, Arms, Admits, Places, Flat, bot, IInv, TypeOK
  <2>2. CASE AnchorDue
    BY <2>2 DEF AnchorDue
  <2>3. CASE DriveAnchors /\ CompleteSlot
    BY <2>3 DEF DriveAnchors, CompleteSlot, Admits, IInv, Passed
  <2>4. CASE DriveAnchors /\ UNCHANGED <<has, slot, mem, disk>>
    BY <2>4 DEF DriveAnchors, Arms, Admits, Places, Flat
  <2> QED BY <1>3, <2>1, <2>2, <2>3, <2>4 DEF DriveAnchors
<1> QED BY <1>4, <1>5

\* Who joins a position.
LEMMA Joins ==
  ASSUME IInv
  PROVE  /\ Chains => ~mem.killed /\ (~mem.done \/ blind)
         /\ Boosts => (mem.override \/ ~mem.locked) /\ (~mem.done \/ blind)
BY DEF IInv, Passed, Chains, Boosts

(* A stop holds for the rest of its day, across restarts: nobody enters on *)
(* a killed day, from the Friday cutoff on or at night, no chain stop      *)
(* follows the kill, and no anchor and no boost a profit lock that had     *)
(* reached the file; once Friday is verified flat nothing is joined.       *)
THEOREM StopsAreKept == Spec => StopsHold
<1> DEFINE Kept ==
      /\ Arms \/ Admits \/ Places => ~KilledToday /\ part # "night" /\ ~FridayReached
      /\ Chains => ~KilledToday
      /\ Admits \/ Boosts => ~LockedToday
      /\ Boosts \/ Chains => ~mem.done \/ blind
<1>1. IInv /\ [Next]_vars => [Kept]_vars
  <2> SUFFICES ASSUME IInv, Next PROVE Kept
    OBVIOUS
  <2>1. Arms \/ Admits \/ Places => ~KilledToday /\ part # "night" /\ ~FridayReached
    BY Enters DEF IInv, FileKeepsStops, KilledToday
  <2>2. Chains => ~KilledToday
    BY Joins DEF IInv, FileKeepsStops, KilledToday
  <2>3. Admits => ~LockedToday
    BY Enters DEF IInv, FileKeepsStops, LockedToday, Admits, AnchorDue, Stopped
  <2>4. Boosts => ~LockedToday
    BY Joins DEF IInv, FileKeepsStops, LockedToday
  <2>5. Boosts \/ Chains => ~mem.done \/ blind
    BY Joins
  <2> QED BY <2>1, <2>2, <2>3, <2>4, <2>5
<1> QED BY <1>1, Inductive, PTL DEF Spec, StopsHold

-----------------------------------------------------------------------------
(* The processes the passes run in (Watchdog), for any number of processes, *)
(* commits, probes and self-restarts: the type of the state, that at most   *)
(* one bot is past a lock that was not taken from a live holder, and that   *)
(* no commit beyond HEAD stops the bot twice.                               *)

Trading == {"up", "hung", "dying"}

\* Whoever is past the lock and was not robbed of it holds it.
HoldsLock == \A p \in Pids \ robbed : st[p] \in Trading => lock = p

\* The loop's process is the only one that is not gone, or going.
Supervised ==
  /\ \A p \in Pids : p # cur => st[p] \in {"free", "dying"}
  /\ at \in {"spawn", "merge", "down"} => cur = 0
  /\ at \notin {"final", "down"} => selfRestarts < MaxSelfRestarts

\* A commit that was tried, and that HEAD does not hold, is being tried, or it
\* has failed, or master has gone beyond it; what is pending has not been tried.
Deploys ==
  /\ at \in {"deploy", "merge"} => git.pending # 0
  /\ git.pending <= git.fetched
  /\ git.moved => \A c \in 1..MaxCommits : tries[c] = 0
  /\ ~git.moved =>
       /\ git.fetched <= git.remote /\ git.failed <= git.remote
       /\ git.pending # 0 => git.failed < git.pending
       /\ \A c \in 1..MaxCommits :
            /\ tries[c] <= 1
            /\ tries[c] # 0 => \/ c = git.pending /\ at \in {"deploy", "merge"}
                               \/ c <= git.head \/ c <= git.failed

WatchInv == WatchTypeOK /\ HoldsLock /\ Supervised /\ Deploys

-----------------------------------------------------------------------------
\* The bounds as facts about numbers.
LEMMA WatchNumbers ==
  ASSUME WatchTypeOK
  PROVE  /\ MaxCommits \in Nat /\ LadderSteps \in Nat /\ MaxSelfRestarts \in Nat
         /\ git.remote \in Nat /\ git.fetched \in Nat /\ git.head \in Nat
         /\ git.pending \in Nat /\ git.failed \in Nat
         /\ git.remote <= MaxCommits /\ git.fetched <= MaxCommits /\ git.head <= MaxCommits
         /\ git.pending <= MaxCommits /\ git.failed <= MaxCommits
         /\ 1 <= git.remote /\ 1 <= git.head
BY WatchdogBounds DEF WatchTypeOK, Checkouts

\* The id of the new process is free.
LEMMA NewPidIsFree ==
  ASSUME WatchInv, NewPids # {}
  PROVE  NewPid \in Pids /\ st[NewPid] = "free" /\ NewPid # lock /\ NewPid # 0
<1>1. NewPid \in NewPids
  BY DEF NewPid
<1> QED BY <1>1, WatchdogBounds DEF NewPids

\* The loop starts a process.
LEMMA SpawnKeeps == WatchInv /\ Spawn => WatchInv'
<1> SUFFICES ASSUME WatchInv, Spawn PROVE WatchInv'
  OBVIOUS
<1>1. /\ at = "spawn" /\ NewPids # {} /\ at' = "loop" /\ stable' = FALSE /\ ladder' = NoFails
      /\ cur' = NewPid /\ st' = [st EXCEPT ![NewPid] = "boot"]
      /\ UNCHANGED <<asks, selfRestarts, lock, robbed, hb, feed, git, tries>>
  BY DEF Spawn
<1>2. NewPid \in Pids /\ st[NewPid] = "free" /\ NewPid # lock /\ NewPid # 0
  BY <1>1, NewPidIsFree
<1>3. cur = 0
  BY <1>1 DEF WatchInv, Supervised
<1>4. WatchTypeOK'
  <2>1. ladder' \in [fails : 0..LadderSteps, restarted : BOOLEAN]
    BY <1>1, WatchNumbers DEF WatchInv, NoFails
  <2>2. st' \in [Pids -> {"free", "boot", "stuck", "up", "hung", "dying", "exit42", "exit1"}]
    BY <1>1, <1>2 DEF WatchInv, WatchTypeOK
  <2> QED BY <1>1, <1>2, <2>1, <2>2 DEF WatchInv, WatchTypeOK
<1>5. HoldsLock'
  BY <1>1, <1>2 DEF WatchInv, WatchTypeOK, HoldsLock, Trading
<1>6. Supervised'
  BY <1>1, <1>2, <1>3, WatchdogBounds DEF WatchInv, WatchTypeOK, Supervised
<1>7. Deploys'
  BY <1>1 DEF WatchInv, Deploys
<1> QED BY <1>4, <1>5, <1>6, <1>7 DEF WatchInv

\* It judges an exit: the count stays within the bound because the process is
\* not started again at the bound.
LEMMA JudgeExitKeeps == WatchInv /\ JudgeExit => WatchInv'
<1> SUFFICES ASSUME WatchInv, JudgeExit PROVE WatchInv'
  OBVIOUS
<1> DEFINE before == IF stable THEN 0 ELSE selfRestarts
           count == IF st[cur] = "exit42" THEN before + 1 ELSE before
<1>1. /\ at = "loop" /\ cur # 0 /\ ~Alive(cur) /\ selfRestarts' = count
      /\ at' = IF Relaunches(st[cur], count) THEN "spawn" ELSE "final"
      /\ st' = [st EXCEPT ![cur] = "free"] /\ cur' = 0
      /\ UNCHANGED <<asks, stable, lock, robbed, hb, ladder, feed, git, tries>>
  BY DEF JudgeExit
<1>2. selfRestarts \in Nat /\ selfRestarts < MaxSelfRestarts /\ MaxSelfRestarts \in Nat
  BY <1>1, WatchdogBounds DEF WatchInv, WatchTypeOK, Supervised
<1>3. count \in 0..MaxSelfRestarts
  BY <1>2
<1>4. at' \in {"spawn", "final"} /\ (at' = "spawn" => count < MaxSelfRestarts)
  BY <1>1 DEF Relaunches
<1> HIDE DEF count
<1>5. WatchTypeOK'
  BY <1>1, <1>3, <1>4, WatchdogBounds DEF WatchInv, WatchTypeOK
<1>6. HoldsLock'
  BY <1>1 DEF WatchInv, WatchTypeOK, HoldsLock, Trading
<1>7. Supervised'
  BY <1>1, <1>4 DEF WatchInv, WatchTypeOK, Supervised
<1>8. Deploys'
  BY <1>1, <1>4 DEF WatchInv, Deploys
<1> QED BY <1>5, <1>6, <1>7, <1>8 DEF WatchInv

\* It looks at the flags and ends.
LEMMA LooksKeep == WatchInv /\ (StillRuns \/ Replace \/ NoPoll \/ Shutdown) => WatchInv'
<1> SUFFICES ASSUME WatchInv, StillRuns \/ Replace \/ NoPoll \/ Shutdown PROVE WatchInv'
  OBVIOUS
<1>1. /\ UNCHANGED <<cur, selfRestarts, stable, st, lock, robbed, hb, feed, ladder, git, tries>>
      /\ asks' \subseteq asks /\ at \in {"loop", "check"}
      /\ at' \in {"check", "stop", "loop", "final"}
  BY DEF StillRuns, Replace, NoPoll, Shutdown, Quiet, child
<1>2. WatchTypeOK'
  BY <1>1 DEF WatchInv, WatchTypeOK
<1>3. HoldsLock' /\ Supervised' /\ Deploys'
  BY <1>1 DEF WatchInv, HoldsLock, Supervised, Deploys
<1> QED BY <1>2, <1>3 DEF WatchInv

\* _stop_bot: the process is gone, or dying with the lock it held.
LEMMA StopBotKeeps == WatchInv /\ StopBot => WatchInv'
<1> SUFFICES ASSUME WatchInv, StopBot PROVE WatchInv'
  OBVIOUS
<1>1. /\ UNCHANGED <<asks, selfRestarts, stable, lock, robbed, hb, feed, ladder, git, tries>>
      /\ at \in {"stop", "deploy", "final"} /\ cur' = 0
      /\ at' \in {"spawn", "merge", "down"}
      /\ at' = "merge" <=> at = "deploy"
      /\ at = "final" => at' = "down"
      /\ \/ cur = 0 /\ st' = st
         \/ cur # 0 /\ st' = [st EXCEPT ![cur] = "free"]
         \/ cur # 0 /\ st[cur] = "hung" /\ st' = [st EXCEPT ![cur] = "dying"]
  BY DEF StopBot
<1>2. WatchTypeOK'
  <2>1. st' \in [Pids -> {"free", "boot", "stuck", "up", "hung", "dying", "exit42", "exit1"}]
    <3>1. st \in [Pids -> {"free", "boot", "stuck", "up", "hung", "dying", "exit42", "exit1"}]
      BY DEF WatchInv, WatchTypeOK
    <3> QED BY <1>1, <3>1
  <2>2. at' \in {"loop", "check", "stop", "deploy", "merge", "spawn", "final", "down"}
    BY <1>1
  <2>3. cur' \in Pids \union {0}
    BY <1>1
  <2>4. UNCHANGED <<asks, selfRestarts, stable, lock, robbed, hb, feed, ladder, git, tries>>
    BY <1>1
  <2> QED BY <2>1, <2>2, <2>3, <2>4 DEF WatchInv, WatchTypeOK
<1>3. HoldsLock'
  BY <1>1 DEF WatchInv, WatchTypeOK, HoldsLock, Trading
<1>4. Supervised'
  BY <1>1 DEF WatchInv, WatchTypeOK, Supervised
<1>5. Deploys'
  BY <1>1 DEF WatchInv, Deploys
<1> QED BY <1>2, <1>3, <1>4, <1>5 DEF WatchInv

\* Autodeploy: what is pending is newer than what has failed, so it was tried
\* before only if the live directory holds it already.
LEMMA DeployKeeps ==
  WatchInv /\ (DeployPending \/ PollMaster \/ Merge \/ Push \/ MoveBack) => WatchInv'
<1> SUFFICES ASSUME WatchInv, DeployPending \/ PollMaster \/ Merge \/ Push \/ MoveBack
             PROVE  WatchInv'
  OBVIOUS
<1>1. CASE DeployPending
  <2>1. /\ UNCHANGED <<asks, cur, selfRestarts, stable, git, st, lock, robbed, hb, ladder, feed>>
        /\ at = "check" /\ git.pending # 0
        /\ \/ at' = "deploy" /\ tries' = [tries EXCEPT ![git.pending] = Counted(@)]
           \/ at' = "loop" /\ tries' = tries
    BY <1>1 DEF DeployPending, Quiet, child
  <2>2. git.pending \in 1..MaxCommits /\ tries[git.pending] \in 0..2
    BY <2>1, WatchNumbers DEF WatchInv, WatchTypeOK
  <2>3. ~git.moved /\ git.pending > git.head => tries[git.pending] = 0
    BY SMTT(60), <2>1, <2>2, WatchNumbers DEF WatchInv, Deploys, WatchTypeOK
  <2>4. /\ Counted(tries[git.pending]) \in 0..2
        /\ Counted(tries[git.pending]) \in {tries[git.pending], 1}
        /\ git.moved \/ git.pending <= git.head
             => Counted(tries[git.pending]) = tries[git.pending]
    BY <2>2, <2>3, WatchNumbers DEF WatchInv, Counted
  <2>5. /\ at' \in {"deploy", "loop"} /\ tries' \in [1..MaxCommits -> 0..2]
        /\ \A c \in 1..MaxCommits :
             tries'[c] = tries[c]
               \/ (c = git.pending /\ at' = "deploy" /\ tries'[c] = 1 /\ ~git.moved)
    <3>1. tries \in [1..MaxCommits -> 0..2]
      BY DEF WatchInv, WatchTypeOK
    <3> QED BY <2>1, <2>2, <2>4, <3>1
  <2>6. WatchTypeOK'
    BY <2>1, <2>5 DEF WatchInv, WatchTypeOK
  <2>7. HoldsLock' /\ Supervised'
    BY <2>1, <2>5 DEF WatchInv, HoldsLock, Supervised
  <2>8. Deploys'
    BY <2>1, <2>5 DEF WatchInv, Deploys
  <2> QED BY <2>6, <2>7, <2>8 DEF WatchInv
<1>2. CASE PollMaster
  <2>1. PICK got \in git.remote..MaxCommits, valid \in Verdicts :
          git' = IF valid
                 THEN [git EXCEPT !.remote = got, !.fetched = got, !.pending = git.remote]
                 ELSE [git EXCEPT !.remote = got, !.failed = git.remote]
    BY <1>2 DEF PollMaster
  <2>2. /\ UNCHANGED <<asks, cur, selfRestarts, stable, st, lock, robbed, hb, ladder, feed, tries>>
        /\ at = "check" /\ at' = "loop" /\ git.pending = 0
        /\ git.remote # git.head /\ git.remote # git.failed
    BY <1>2 DEF PollMaster, Quiet, NewOnMaster, child
  <2>3. got \in Nat /\ got <= MaxCommits /\ git.remote <= got /\ valid \in BOOLEAN
    BY <2>1, WatchNumbers DEF WatchInv, Verdicts
  <2>4. /\ git'.remote = got /\ git'.head = git.head /\ git'.moved = git.moved
        /\ git'.fetched = (IF valid THEN got ELSE git.fetched)
        /\ git'.pending = (IF valid THEN git.remote ELSE 0)
        /\ git'.failed = (IF valid THEN git.failed ELSE git.remote)
        /\ git' \in Checkouts
    <3>1. got \in 1..MaxCommits /\ got \in 0..MaxCommits /\ git.remote \in 0..MaxCommits
      BY <2>3, WatchNumbers DEF WatchInv
    <3> QED BY <2>1, <2>2, <3>1 DEF WatchInv, WatchTypeOK, Checkouts
  <2>5. WatchTypeOK' /\ HoldsLock' /\ Supervised'
    BY <2>2, <2>4 DEF WatchInv, WatchTypeOK, HoldsLock, Supervised
  <2>6. Deploys'
    BY <2>2, <2>3, <2>4, WatchNumbers DEF WatchInv, Deploys
  <2> QED BY <2>5, <2>6 DEF WatchInv
<1>3. CASE Merge
  <2>1. /\ UNCHANGED <<asks, cur, selfRestarts, stable, st, lock, robbed, hb, ladder, feed, tries>>
        /\ at = "merge" /\ at' = "spawn"
        /\ \/ git' = [git EXCEPT !.head = FastForward, !.pending = 0, !.fetched = 0]
           \/ git' = [git EXCEPT !.failed = git.pending, !.pending = 0, !.fetched = 0]
    BY <1>3 DEF Merge, child
  <2>2. FastForward \in 1..MaxCommits /\ FastForward >= git.head /\ FastForward >= git.fetched
    BY WatchNumbers DEF WatchInv, FastForward
  <2>3. /\ git'.remote = git.remote /\ git'.fetched = 0 /\ git'.pending = 0
        /\ git'.moved = git.moved /\ git' \in Checkouts
        /\ \/ git'.head = FastForward /\ git'.failed = git.failed
           \/ git'.head = git.head /\ git'.failed = git.pending
    <3>1. git.pending \in 0..MaxCommits /\ 0 \in 0..MaxCommits
      BY WatchNumbers DEF WatchInv
    <3> QED BY <2>1, <2>2, <3>1 DEF WatchInv, WatchTypeOK, Checkouts
  <2>4. WatchTypeOK' /\ HoldsLock' /\ Supervised'
    BY <2>1, <2>3 DEF WatchInv, WatchTypeOK, HoldsLock, Supervised
  <2>5. ASSUME NEW c \in 1..MaxCommits, ~git.moved
        PROVE  tries[c] # 0 => c <= git'.head \/ c <= git'.failed
    <3>1. tries[c] # 0 => c = git.pending \/ c <= git.head \/ c <= git.failed
      BY <2>5 DEF WatchInv, Deploys
    <3>2. git.failed < git.pending /\ git.pending <= git.fetched
      BY <2>1, <2>5 DEF WatchInv, Deploys
    <3> QED BY <2>2, <2>3, <3>1, <3>2, WatchNumbers DEF WatchInv
  <2>6. ~git.moved => git'.failed <= git'.remote /\ git'.fetched <= git'.remote
    BY <2>3, WatchNumbers DEF WatchInv, Deploys
  <2>7. Deploys'
    BY <2>1, <2>3, <2>5, <2>6 DEF WatchInv, Deploys
  <2> QED BY <2>4, <2>7 DEF WatchInv
<1>4. CASE Push
  <2>1. /\ UNCHANGED <<at, asks, cur, selfRestarts, stable, st, lock, robbed, hb, ladder, feed, tries>>
        /\ git.remote < MaxCommits /\ git' = [git EXCEPT !.remote = @ + 1]
    BY <1>4 DEF Push, child
  <2>2. /\ git'.remote = git.remote + 1 /\ git'.fetched = git.fetched /\ git'.head = git.head
        /\ git'.pending = git.pending /\ git'.failed = git.failed /\ git'.moved = git.moved
        /\ git' \in Checkouts
    <3>1. git.remote + 1 \in 1..MaxCommits
      BY <2>1, WatchNumbers DEF WatchInv
    <3> QED BY <2>1, <3>1 DEF WatchInv, WatchTypeOK, Checkouts
  <2>3. WatchTypeOK' /\ HoldsLock' /\ Supervised'
    BY SMTT(60), <2>1, <2>2 DEF WatchInv, WatchTypeOK, HoldsLock, Supervised
  <2>4. Deploys'
    BY <2>1, <2>2, WatchNumbers DEF WatchInv, Deploys
  <2> QED BY <2>3, <2>4 DEF WatchInv
<1>5. CASE MoveBack
  <2>1. PICK c \in 1..(git.remote - 1) : git' = [git EXCEPT !.remote = c, !.moved = TRUE]
    BY <1>5 DEF MoveBack
  <2>2. /\ UNCHANGED <<at, asks, cur, selfRestarts, stable, st, lock, robbed, hb, ladder, feed>>
        /\ tries' = [d \in 1..MaxCommits |-> 0]
    BY <1>5 DEF MoveBack, child
  <2>3. /\ git'.fetched = git.fetched /\ git'.pending = git.pending /\ git'.moved = TRUE
        /\ git' \in Checkouts
    <3>1. c \in 1..MaxCommits
      BY <2>1, WatchNumbers DEF WatchInv
    <3> QED BY <2>1, <3>1 DEF WatchInv, WatchTypeOK, Checkouts
  <2>4. WatchTypeOK' /\ HoldsLock' /\ Supervised'
    BY <2>2, <2>3 DEF WatchInv, WatchTypeOK, HoldsLock, Supervised
  <2>5. Deploys'
    BY <2>2, <2>3 DEF WatchInv, Deploys
  <2> QED BY <2>4, <2>5 DEF WatchInv
<1> QED BY <1>1, <1>2, <1>3, <1>4, <1>5

\* A start is refused while the lock's holder lives, or robs it of the lock: of
\* those not robbed, nobody else is past the lock when the next one takes it.
LEMMA AcquireKeeps ==
  ASSUME NEW p \in Pids
  PROVE  WatchInv /\ Acquire(p) => WatchInv'
<1> SUFFICES ASSUME WatchInv, Acquire(p) PROVE WatchInv'
  OBVIOUS
<1>1. /\ UNCHANGED <<at, asks, cur, selfRestarts, stable, git, tries, hb, ladder, feed>>
      /\ st[p] = "boot"
      /\ \/ st' = [st EXCEPT ![p] = "exit1"] /\ lock' = lock /\ robbed' = robbed
         \/ /\ st' = [st EXCEPT ![p] = "up"] /\ lock' = p
            /\ robbed' = IF Holder(p) THEN robbed \union {lock} ELSE robbed
  BY DEF Acquire, sup
<1>2. WatchTypeOK'
  BY <1>1 DEF Holder, WatchInv, WatchTypeOK
<1>3. p = cur /\ p # 0
  BY <1>1, WatchdogBounds DEF WatchInv, Supervised
<1>4. Supervised'
  BY <1>1, <1>3 DEF WatchInv, WatchTypeOK, Supervised
<1>5. lock' = p => \A q \in Pids \ robbed' : st[q] \in Trading => q = p
  BY <1>1, WatchdogBounds DEF Holder, Alive, Trading, WatchInv, HoldsLock
<1>6. HoldsLock'
  <2>1. CASE lock' = p
    BY <1>1, <1>5, <2>1 DEF WatchInv, WatchTypeOK, HoldsLock, Trading
  <2>2. CASE lock' # p
    BY <1>1, <2>2 DEF WatchInv, WatchTypeOK, HoldsLock, Trading
  <2> QED BY <2>1, <2>2
<1>7. Deploys'
  BY <1>1 DEF WatchInv, Deploys
<1> QED BY <1>2, <1>4, <1>6, <1>7 DEF WatchInv

\* What a bot does that keeps it where it is, or takes its lock away with it.
LEMMA BotKeeps ==
  ASSUME NEW p \in Pids
  PROVE  WatchInv /\ (Tick(p) \/ ProbeFails(p) \/ LadderEnds(p) \/ Exits(p) \/ Hangs(p) \/ Dies(p)) => WatchInv'
<1> SUFFICES ASSUME WatchInv,
                    Tick(p) \/ ProbeFails(p) \/ LadderEnds(p) \/ Exits(p) \/ Hangs(p) \/ Dies(p)
             PROVE  WatchInv'
  OBVIOUS
<1>1. UNCHANGED <<at, asks, cur, selfRestarts, stable, git, tries, feed>>
  BY DEF Tick, ProbeFails, LadderEnds, Exits, Hangs, Dies, sup
<1>2. hb' \in {"none", "fresh", "stale"}
  BY DEF Tick, ProbeFails, LadderEnds, Exits, Hangs, Dies, WatchInv, WatchTypeOK
<1>3. ladder' \in [fails : 0..LadderSteps, restarted : BOOLEAN]
  <2>1. NoFails \in [fails : 0..LadderSteps, restarted : BOOLEAN]
    BY WatchNumbers DEF WatchInv, NoFails
  <2>2. CASE ProbeFails(p)
    BY SMTT(60), <2>2, WatchNumbers DEF ProbeFails, WatchInv, WatchTypeOK
  <2>3. CASE LadderEnds(p)
    BY <2>1, <2>3 DEF LadderEnds, WatchInv, WatchTypeOK
  <2>4. CASE Tick(p) \/ Exits(p) \/ Hangs(p) \/ Dies(p)
    BY <2>1, <2>4 DEF Tick, Exits, Hangs, Dies, WatchInv, WatchTypeOK
  <2> QED BY <2>2, <2>3, <2>4
<1>4. \/ /\ robbed' = robbed
         /\ \/ st' = st /\ lock' = lock
            \/ /\ st[p] \in {"boot", "up"} /\ \E e \in {"exit1", "exit42"} : st' = [st EXCEPT ![p] = e]
               /\ lock' = (IF lock = p THEN 0 ELSE lock)
            \/ /\ st[p] = "up" /\ st' = [st EXCEPT ![p] = "hung"] /\ lock' = lock
            \/ /\ st[p] = "boot" /\ st' = [st EXCEPT ![p] = "stuck"] /\ lock' = lock
            \/ /\ st[p] = "hung" /\ st' = [st EXCEPT ![p] = "up"] /\ lock' = lock
      \/ /\ st[p] = "dying" /\ st' = [st EXCEPT ![p] = "free"] /\ lock' = lock
         /\ robbed' = robbed \ {p}
  BY DEF Tick, ProbeFails, LadderEnds, Exits, Hangs, Dies
<1>5. WatchTypeOK'
  BY SMTT(60), <1>1, <1>2, <1>3, <1>4 DEF WatchInv, WatchTypeOK
<1>6. HoldsLock'
  BY <1>4 DEF WatchInv, WatchTypeOK, HoldsLock, Trading
<1>7. Supervised'
  BY <1>1, <1>4 DEF WatchInv, WatchTypeOK, Supervised
<1>8. Deploys'
  BY <1>1 DEF WatchInv, Deploys
<1> QED BY <1>5, <1>6, <1>7, <1>8 DEF WatchInv

\* Operators, time and the market.
LEMMA OutsideKeeps == WatchInv /\ (Ask \/ HeartbeatAges \/ RunStable \/ Market) => WatchInv'
<1> SUFFICES ASSUME WatchInv, Ask \/ HeartbeatAges \/ RunStable \/ Market PROVE WatchInv'
  OBVIOUS
<1>1. UNCHANGED <<at, cur, selfRestarts, git, tries, st, lock, robbed, ladder>>
  BY DEF Ask, HeartbeatAges, RunStable, Market, child, sup
<1>2. /\ asks' \subseteq {"restart", "stop"} /\ stable' \in BOOLEAN
      /\ hb' \in {"none", "fresh", "stale"} /\ feed' \in [up : BOOLEAN, closed : BOOLEAN]
  <2>1. CASE Ask \/ RunStable
    BY <2>1 DEF WatchInv, WatchTypeOK, Ask, RunStable, child
  <2>2. CASE HeartbeatAges \/ Market
    BY <2>2 DEF WatchInv, WatchTypeOK, HeartbeatAges, Market, child, sup
  <2> QED BY <2>1, <2>2
<1>4. WatchTypeOK'
  BY <1>1, <1>2 DEF WatchInv, WatchTypeOK
<1>3. HoldsLock' /\ Supervised' /\ Deploys'
  BY <1>1 DEF WatchInv, HoldsLock, Supervised, Deploys
<1> QED BY <1>3, <1>4 DEF WatchInv

LEMMA WatchStarts == WatchInit => WatchInv
<1> SUFFICES ASSUME WatchInit PROVE WatchInv
  OBVIOUS
<1>1. /\ MaxCommits \in Nat \ {0} /\ LadderSteps \in Nat /\ MaxSelfRestarts \in Nat \ {0}
  BY WatchdogBounds
<1>2. WatchTypeOK
  <2>1. 0 \in 0..MaxCommits /\ 0 \in 0..LadderSteps /\ 0 \in 0..MaxSelfRestarts
    BY <1>1
  <2>2. git \in Checkouts /\ ladder \in [fails : 0..LadderSteps, restarted : BOOLEAN]
    BY <2>1 DEF WatchInit, NoFails, Checkouts
  <2>3. /\ st \in [Pids -> {"free", "boot", "stuck", "up", "hung", "dying", "exit42", "exit1"}]
        /\ tries \in [1..MaxCommits -> 0..2]
    BY DEF WatchInit
  <2> QED BY <2>1, <2>2, <2>3 DEF WatchInit, WatchTypeOK
<1> QED BY <1>1, <1>2 DEF WatchInit, WatchInv, HoldsLock, Trading, Supervised, Deploys

LEMMA WatchKeeps == WatchInv /\ [WatchNext]_watchVars => WatchInv'
<1>1. WatchInv /\ UNCHANGED watchVars => WatchInv'
  BY DEF watchVars, sup, child, WatchInv, WatchTypeOK, HoldsLock, Supervised, Deploys
<1> QED BY <1>1, SpawnKeeps, JudgeExitKeeps, LooksKeep, StopBotKeeps, DeployKeeps, AcquireKeeps,
          BotKeeps, OutsideKeeps DEF WatchNext, Loop, Runs

LEMMA WatchInductive == WatchSpec => []WatchInv
BY WatchStarts, WatchKeeps, PTL DEF WatchSpec

-----------------------------------------------------------------------------
(* Every state is well typed: there is always an id for the next process,  *)
(* and no count passes its bound.                                          *)
THEOREM WatchTypeCorrect == WatchSpec => []WatchTypeOK
<1>1. WatchInv => WatchTypeOK
  BY DEF WatchInv
<1> QED BY <1>1, WatchInductive, PTL

(* At most one bot process is past a lock nobody took from it, however     *)
(* processes hang, survive their kill and leave stale files: the lock      *)
(* names the only one.                                                     *)
THEOREM NeverTwoTraders == WatchSpec => []OneTrader
<1>1. WatchInv => OneTrader
  <2> SUFFICES ASSUME WatchInv PROVE OneTrader
    OBVIOUS
  <2>1. Traders \ robbed \subseteq {lock}
    BY DEF WatchInv, HoldsLock, Trading, Traders
  <2>2. Traders \ robbed = {} \/ Traders \ robbed = {lock}
    BY <2>1
  <2>3. Cardinality({}) = 0 /\ Cardinality({lock}) = 1
    BY FS_EmptySet, FS_Singleton
  <2> QED BY <2>2, <2>3 DEF OneTrader
<1> QED BY <1>1, WatchInductive, PTL

(* A commit beyond HEAD stops the bot for a deployment at most once,       *)
(* whichever commits arrive between the poll, the fetch and the merge.     *)
THEOREM NeverTriedTwice == WatchSpec => []OneTryPerCommit
<1>1. WatchInv => OneTryPerCommit
  BY DEF WatchInv, Deploys, OneTryPerCommit
<1> QED BY <1>1, WatchInductive, PTL
=============================================================================
