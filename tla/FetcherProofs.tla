--------------------------- MODULE FetcherProofs ---------------------------
(***************************************************************************)
(* A day of Fetcher implements TradeChain, loses no more than its stop and *)
(* one close, and enters no more than its budget, for all settings and any *)
(* number of failures.  The counts, the money and the window are those the *)
(* engine will have once it has heard of the close it waits for and has    *)
(* recovered from its restart; what a failure leaves behind is an orphan   *)
(* at the broker, or a streak or a loss that was forgotten.                *)
(***************************************************************************)
EXTENDS Fetcher, FiniteSetTheorems, TLAPS

Record ==
  [open : Nat, anchored : BOOLEAN, entries : Nat, pnl : Int, fails : Nat,
   stopped : BOOLEAN, paused : BOOLEAN, locked : BOOLEAN, override : BOOLEAN,
   trades : Nat, run : Nat, gap : BOOLEAN]

\* A record made from nothing, an anchor planted on it or not.
Blank(s) ==
  /\ s.open = 0 /\ s.entries = 0 /\ s.pnl = 0 /\ s.fails = 0 /\ ~s.paused
  /\ s.trades = 0 /\ s.run = 0

\* The recovery has yet to rebuild the governor from the history.
Rebuilds == pc = "boot" /\ disk # NoBlock

\* The ticket the engine follows, will find in the file, or is about to mark.
Own == IF pc = "boot" THEN disk.open ELSE IF pc = "filled" THEN taken ELSE st.open
Orphans == held \ {Own}

\* The engine's ticket is closed, and the next pass will tell.
Unheard == pc # "boot" /\ Own # 0 /\ Own \notin held

\* The governor as it will be.
Fails == IF Rebuilds THEN streak
         ELSE IF Unheard THEN IF deal <= 0 THEN st.fails + 1 ELSE 0 ELSE st.fails
Purse == IF Rebuilds THEN net ELSE IF Unheard THEN st.pnl + deal ELSE st.pnl
Entries == IF Rebuilds THEN taken ELSE IF pc = "filled" THEN st.entries + 1 ELSE st.entries
Blocked == Rebuilds \/ st.paused \/ Fails >= FailStop

\* The budget as it will be: what is left of it, and one more for the wins.
Window == IF Rebuilds THEN disk ELSE st
Trades == IF pc = "filled" THEN st.trades + 1 ELSE Window.trades
Extended == IF Rebuilds THEN disk.open = 0 /\ disk.run >= Need
            ELSE IF Unheard THEN deal > 0 ELSE Own = 0 /\ st.run >= Need
Left == (IF Trades < Base THEN Base - Trades ELSE 0) + (IF Extended THEN 1 ELSE 0)
Avail == IF Window.anchored THEN Left ELSE 0

\* How far a streak is on its way to the next stop.
Phase(n) == n % FailStop

\* The broker has seen more of a streak than the engine counts.
Ahead == IF Phase(streak) > Fails THEN 1 ELSE 0

\* The streak that stops the day has just ended, or is about to be told.
Due == IF streak >= FailStop /\ Own \notin held /\ Blocked THEN 1 ELSE 0

\* What a day may earn at worst: the stop, and one close past it.
Worth == 1 - LossStop + Worst

Shape ==
  /\ held \subseteq 1..taken /\ taken \in Nat /\ taken <= MaxEntries
  /\ net \in Int /\ streak \in Nat /\ deal \in Results \union {0}
  /\ st \in Record /\ disk \in Record \union {NoBlock}
  /\ pc \in {"boot", "idle", "sending", "filled"}
  /\ losses \in Nat /\ credit \in Nat /\ credit <= MaxEntries /\ slips \in Nat

\* The window has a trade for every win and for the ticket that may win.
WellRun(s) ==
  /\ s.run + (IF s.open # 0 THEN 1 ELSE 0) <= s.trades
  /\ s.anchored \/ s.trades = 0

\* What the file and the memory have in common, and what an order was sent on.
Kept ==
  /\ pc = "boot" \/ disk = NoBlock => Blank(st)
  /\ pc # "boot" /\ disk # NoBlock =>
       /\ st.open \in {0, disk.open}
       /\ st.anchored = disk.anchored /\ st.trades = disk.trades /\ st.run = disk.run
  /\ WellRun(st) /\ (disk # NoBlock => WellRun(disk))
  /\ st.open <= taken /\ disk.open <= taken
  /\ pc \in {"sending", "filled"} =>
       st.open = 0 /\ st.anchored /\ CanEnter(st) /\ CanTrade(st)
  /\ pc = "filled" => taken # 0 /\ taken # disk.open

Spared == Cardinality(Orphans) <= slips

Streaks == losses + Cardinality(Orphans) + Ahead <= 2 * slips + Due

Counted == taken <= Cap * slips + Entries /\ taken <= Cap * (1 + slips)

\* The orphans may all close at the worst, and so may the engine's own.
Funds == net - Purse + Cardinality(Orphans) * Worst >= slips * Worth
Funded == net + Cardinality(held) * Worst >= (1 + slips) * Worth

\* The same against the money in the file, which the recovery may fall back on.
Stored ==
  disk # NoBlock =>
    net - disk.pnl + Cardinality(held \ {disk.open}) * Worst
      >= slips * Worth + (IF disk.open \notin held \union {0} THEN Worst ELSE 0)
                       + (IF pc = "filled" THEN Worst ELSE 0)

Budgeted == credit = MaxEntries \/ taken + Avail <= credit + slips * Base

IInv == Shape /\ Kept /\ Spared /\ Streaks /\ Counted /\ Funds /\ Funded /\ Stored /\ Budgeted

-----------------------------------------------------------------------------
(* Numbers, counts and records.                                            *)

\* The settings as facts about numbers.
LEMMA Settings ==
  /\ Cap \in Nat /\ Cap >= 1 /\ FailStop \in Nat /\ FailStop >= 1
  /\ LossStop \in Nat /\ LossStop >= 1 /\ ProfitStop \in Nat
  /\ Base \in Nat /\ Base >= 1 /\ Need \in Nat /\ Need >= 1 /\ MaxEntries \in Nat
BY FetcherBounds

LEMMA WorstIsWorst ==
  /\ Worst \in Results /\ Worst \in Int /\ Worst < 0
  /\ \A q \in Results : q \in Int /\ Worst <= q /\ q # 0
  /\ Worth \in Int /\ Worth <= Worst
<1>1. PICK r \in Results : r < 0 /\ \A q \in Results : r <= q
  BY FetcherStop
<1>2. Worst \in Results /\ \A q \in Results : Worst <= q
  BY <1>1 DEF Worst
<1>3. \A q \in Results : q \in Int /\ q # 0
  BY FetcherBounds
<1>4. Worst <= r /\ r <= Worst
  BY <1>1, <1>2
<1>5. Worst \in Int /\ Worst < 0
  BY <1>1, <1>2, <1>3, <1>4
<1> QED BY <1>2, <1>3, <1>5, Settings DEF Worth

LEMMA Times ==
  ASSUME NEW n \in Int, NEW k \in Int
  PROVE  n * k \in Int /\ (n + 1) * k = n * k + k /\ (1 + n) * k = n * k + k
         /\ (n - 1) * k = n * k - k
OBVIOUS

LEMMA TimesDown ==
  ASSUME NEW m \in Nat, NEW n \in Nat, m <= n, NEW k \in Int, NEW l \in Int, l <= k, k < 0
  PROVE  m * k >= n * l
<1>1. PICK d \in Nat : n = m + d
  <2>1. n - m \in Nat /\ n = m + (n - m)
    OBVIOUS
  <2> QED BY <2>1
<1>2. PICK e \in Nat : l = k - e
  <2>1. k - l \in Nat /\ l = k - (k - l)
    OBVIOUS
  <2> QED BY <2>1
<1>3. n * l = m * k - m * e + d * l
  BY <1>1, <1>2
<1>4. m * e \in Nat /\ d * (-l) \in Nat
  BY <1>2
<1>5. d * l = -(d * (-l))
  BY <1>1
<1> QED BY <1>3, <1>4, <1>5

\* What a division leaves.
LEMMA Remainder ==
  ASSUME NEW q \in Nat, NEW r \in Nat, NEW f \in Nat, r < f
  PROVE  (f * q + r) % f = r
OBVIOUS

LEMMA Division ==
  ASSUME NEW n \in Nat, NEW f \in Nat, f >= 1
  PROVE  n \div f \in Nat /\ n % f \in Nat /\ n % f < f /\ n = f * (n \div f) + (n % f)
<1>1. n = f * (n \div f) + (n % f)
  OBVIOUS
<1>2. n % f \in 0 .. f - 1
  OBVIOUS
<1>3. n \div f \in Nat
  OBVIOUS
<1> QED BY <1>1, <1>2, <1>3

\* The next of a streak, modulo what stops it.
LEMMA Wraps ==
  ASSUME NEW n \in Nat, NEW f \in Nat, f >= 1
  PROVE  /\ n % f \in Nat /\ n % f < f /\ n % f <= n
         /\ (n + 1) % f = 0 => n % f = f - 1 /\ n + 1 >= f
         /\ (n + 1) % f # 0 => (n + 1) % f = (n % f) + 1
<1>1. PICK q \in Nat, r \in Nat : q = n \div f /\ r = n % f /\ n = f * q + r /\ r < f
  BY Division
<1>2. f * q \in Nat
  OBVIOUS
<1>3. f * (q + 1) = f * q + f
  OBVIOUS
<1>4. r <= n
  BY <1>1, <1>2
<1>5. CASE r + 1 < f
  <2>1. (f * q + (r + 1)) % f = r + 1
    BY <1>5, Remainder
  <2>2. n + 1 = f * q + (r + 1)
    BY <1>1, <1>2
  <2> QED BY <2>1, <2>2, <1>1, <1>4
<1>6. CASE r + 1 = f
  <2>1. (f * (q + 1) + 0) % f = 0
    BY Remainder
  <2>2. n + 1 = f * (q + 1) + 0
    BY <1>1, <1>2, <1>3, <1>6
  <2>3. n + 1 >= f
    BY <1>1, <1>2, <1>6
  <2> QED BY <2>1, <2>2, <2>3, <1>1, <1>4, <1>6
<1> QED BY <1>1, <1>5, <1>6

LEMMA Modulo ==
  ASSUME NEW n \in Nat
  PROVE  /\ Phase(n) \in Nat /\ Phase(n) < FailStop /\ Phase(n) <= n
         /\ Phase(n + 1) = 0 => Phase(n) = FailStop - 1 /\ n + 1 >= FailStop
         /\ Phase(n + 1) # 0 => Phase(n + 1) = Phase(n) + 1
BY Settings, Wraps DEF Phase

LEMMA PhaseOfNone == Phase(0) = 0
<1>1. Phase(0) \in Nat /\ Phase(0) <= 0
  BY Modulo
<1> QED BY <1>1

\* A set with one element less.
LEMMA Less ==
  ASSUME NEW S, IsFiniteSet(S), NEW x
  PROVE  /\ IsFiniteSet(S \ {x}) /\ Cardinality(S) \in Nat /\ Cardinality(S \ {x}) \in Nat
         /\ x \in S => Cardinality(S \ {x}) = Cardinality(S) - 1
         /\ x \notin S => S \ {x} = S
BY FS_RemoveElement, FS_CardinalityType

LEMMA HeldFinite ==
  ASSUME Shape
  PROVE  IsFiniteSet(held) /\ 0 \notin held /\ -1 \notin held /\ taken + 1 \notin held
<1>1. taken \in Int /\ 1 \in Int /\ held \in SUBSET (1..taken)
  BY DEF Shape
<1>2. IsFiniteSet(1..taken)
  BY <1>1, FS_Interval
<1>3. IsFiniteSet(held)
  BY <1>1, <1>2, FS_Subset
<1> QED BY <1>1, <1>3 DEF Shape

\* The two records that are made from nothing.
LEMMA Beginnings ==
  /\ Fresh \in Record /\ Blank(Fresh) /\ ~Fresh.anchored
  /\ NoBlock.open = -1 /\ NoBlock \notin Record
<1>1. NoBlock.open = -1
  BY DEF NoBlock, Fresh
<1>2. NoBlock \notin Record
  BY <1>1 DEF Record
<1>3. /\ Fresh \in Record /\ Fresh.open = 0 /\ Fresh.anchored = FALSE /\ Fresh.entries = 0
      /\ Fresh.pnl = 0 /\ Fresh.fails = 0 /\ Fresh.paused = FALSE
      /\ Fresh.trades = 0 /\ Fresh.run = 0
  BY DEF Fresh, Record
<1> QED BY <1>1, <1>2, <1>3 DEF Blank

LEMMA Fields ==
  ASSUME NEW s \in Record
  PROVE  /\ s.open \in Nat /\ s.anchored \in BOOLEAN /\ s.entries \in Nat /\ s.pnl \in Int
         /\ s.fails \in Nat /\ s.stopped \in BOOLEAN /\ s.paused \in BOOLEAN
         /\ s.locked \in BOOLEAN /\ s.override \in BOOLEAN
         /\ s.trades \in Nat /\ s.run \in Nat /\ s.gap \in BOOLEAN
BY DEF Record

\* What the latches do (record_close, rebuild_gov_from_history).
LEMMA LatchedFields ==
  ASSUME NEW s \in Record
  PROVE  /\ Latched(s) \in Record
         /\ Latched(s).open = s.open /\ Latched(s).anchored = s.anchored
         /\ Latched(s).entries = s.entries /\ Latched(s).pnl = s.pnl
         /\ Latched(s).fails = s.fails
         /\ Latched(s).trades = s.trades /\ Latched(s).run = s.run
         /\ Latched(s).paused <=> s.paused \/ s.fails >= FailStop
BY Fields, Settings DEF Latched, Record

\* What a close that was found does to the record (record_close).
LEMMA ClosedFields ==
  ASSUME NEW s \in Record, NEW p \in Int, NEW failed \in BOOLEAN
  PROVE  /\ Closed(s, p, failed) \in Record
         /\ Closed(s, p, failed).open = s.open /\ Closed(s, p, failed).anchored = s.anchored
         /\ Closed(s, p, failed).entries = s.entries /\ Closed(s, p, failed).pnl = s.pnl + p
         /\ Closed(s, p, failed).fails = (IF failed THEN s.fails + 1 ELSE 0)
         /\ Closed(s, p, failed).trades = s.trades /\ Closed(s, p, failed).run = s.run
         /\ Closed(s, p, failed).paused <=> s.paused \/ Closed(s, p, failed).fails >= FailStop
<1> DEFINE t == [s EXCEPT !.pnl = @ + p, !.fails = IF failed THEN @ + 1 ELSE 0]
<1>1. /\ t \in Record /\ t.open = s.open /\ t.anchored = s.anchored /\ t.entries = s.entries
      /\ t.pnl = s.pnl + p /\ t.fails = (IF failed THEN s.fails + 1 ELSE 0)
      /\ t.trades = s.trades /\ t.run = s.run /\ t.paused = s.paused
  <2>1. s.pnl + p \in Int /\ (IF failed THEN s.fails + 1 ELSE 0) \in Nat
    BY Fields
  <2> QED BY <2>1, Fields DEF Record
<1>2. Closed(s, p, failed) = Latched(t)
  BY DEF Closed
<1> HIDE DEF t
<1> QED BY <1>1, <1>2, LatchedFields

\* The same of a result: it fails unless it wins.
LEMMA ResultFields ==
  ASSUME NEW s \in Record, NEW p \in Int
  PROVE  LET c == Closed(s, p, p <= 0)
         IN  /\ c \in Record /\ c.open = s.open /\ c.anchored = s.anchored
             /\ c.entries = s.entries /\ c.pnl = s.pnl + p
             /\ c.fails = (IF p <= 0 THEN s.fails + 1 ELSE 0)
             /\ c.trades = s.trades /\ c.run = s.run
             /\ c.paused <=> s.paused \/ c.fails >= FailStop
<1> DEFINE c == Closed(s, p, p <= 0)
<1>1. CASE p <= 0
  <2>1. c = Closed(s, p, TRUE)
    BY <1>1 DEF Closed
  <2> HIDE DEF c
  <2>2. /\ c \in Record /\ c.open = s.open /\ c.anchored = s.anchored
        /\ c.entries = s.entries /\ c.pnl = s.pnl + p /\ c.fails = s.fails + 1
        /\ c.trades = s.trades /\ c.run = s.run
        /\ c.paused <=> s.paused \/ c.fails >= FailStop
    BY <2>1, ClosedFields
  <2> QED BY <1>1, <2>2 DEF c
<1>2. CASE ~(p <= 0)
  <2>1. c = Closed(s, p, FALSE)
    BY <1>2 DEF Closed
  <2> HIDE DEF c
  <2>2. /\ c \in Record /\ c.open = s.open /\ c.anchored = s.anchored
        /\ c.entries = s.entries /\ c.pnl = s.pnl + p /\ c.fails = 0
        /\ c.trades = s.trades /\ c.run = s.run
        /\ c.paused <=> s.paused \/ c.fails >= FailStop
    BY <2>1, ClosedFields
  <2> QED BY <1>2, <2>2 DEF c
<1> QED BY <1>1, <1>2

\* The same of a result that is not there yet: nothing, and a fail.
LEMMA UnknownFields ==
  ASSUME NEW s \in Record
  PROVE  LET c == Closed(s, 0, TRUE)
         IN  /\ c \in Record /\ c.open = s.open /\ c.anchored = s.anchored
             /\ c.entries = s.entries /\ c.pnl = s.pnl /\ c.fails = s.fails + 1
             /\ c.trades = s.trades /\ c.run = s.run
<1>1. \A p \in Int, failed \in BOOLEAN :
        /\ Closed(s, p, failed) \in Record
        /\ Closed(s, p, failed).open = s.open /\ Closed(s, p, failed).anchored = s.anchored
        /\ Closed(s, p, failed).entries = s.entries /\ Closed(s, p, failed).pnl = s.pnl + p
        /\ Closed(s, p, failed).fails = (IF failed THEN s.fails + 1 ELSE 0)
        /\ Closed(s, p, failed).trades = s.trades /\ Closed(s, p, failed).run = s.run
  BY ClosedFields
<1>2. 0 \in Int /\ TRUE \in BOOLEAN /\ s.pnl + 0 = s.pnl
  BY Fields
<1> QED BY <1>1, <1>2, Zenon

\* What it does to the window (budget_record_close).
LEMMA WindowedFields ==
  ASSUME NEW s \in Record, NEW won \in BOOLEAN
  PROVE  /\ Windowed(s, won) \in Record
         /\ Windowed(s, won).open = s.open /\ Windowed(s, won).anchored = s.anchored
         /\ Windowed(s, won).entries = s.entries /\ Windowed(s, won).pnl = s.pnl
         /\ Windowed(s, won).fails = s.fails /\ Windowed(s, won).paused = s.paused
         /\ Windowed(s, won).trades = s.trades
         /\ Windowed(s, won).run <= s.run + 1 /\ (~won => Windowed(s, won).run = 0)
BY Fields, Settings DEF Windowed, Record

\* The slot is cleared.
LEMMA FlatFields ==
  ASSUME NEW s \in Record
  PROVE  LET f == [s EXCEPT !.open = 0]
         IN  /\ f \in Record /\ f.open = 0 /\ f.anchored = s.anchored
             /\ f.entries = s.entries /\ f.pnl = s.pnl /\ f.fails = s.fails
             /\ f.paused = s.paused /\ f.trades = s.trades /\ f.run = s.run
BY DEF Record

\* A fresh budget (budget_reset, manual_seed).
LEMMA ResetFields ==
  ASSUME NEW s \in Record
  PROVE  /\ Reset(s) \in Record /\ Reseeded(s) \in Record
         /\ Reset(s).open = s.open /\ Reset(s).anchored = s.anchored
         /\ Reset(s).entries = s.entries /\ Reset(s).pnl = s.pnl /\ Reset(s).fails = s.fails
         /\ Reset(s).paused = s.paused /\ Reset(s).trades = 0 /\ Reset(s).run = 0
         /\ Reseeded(s).open = s.open /\ Reseeded(s).anchored
         /\ Reseeded(s).entries = s.entries /\ Reseeded(s).pnl = s.pnl
         /\ Reseeded(s).fails = s.fails
         /\ Reseeded(s).paused = s.paused /\ Reseeded(s).trades = 0 /\ Reseeded(s).run = 0
BY Fields, Settings DEF Reset, Reseeded, Record

-----------------------------------------------------------------------------
(* The state.                                                              *)

\* The invariant's quantities are numbers; counted, the engine's own position
\* is what held has over the orphans.
LEMMA Types ==
  ASSUME Shape
  PROVE  /\ Fails \in Nat /\ Purse \in Int /\ Entries \in Nat /\ Avail \in Nat
         /\ Ahead \in {0, 1} /\ Due \in {0, 1} /\ Own \in Int
         /\ deal \in Int /\ Worst <= deal
         /\ IsFiniteSet(held) /\ IsFiniteSet(Orphans)
         /\ Cardinality(held) \in Nat /\ Cardinality(Orphans) \in Nat
         /\ Own \in held => Cardinality(held) = Cardinality(Orphans) + 1
         /\ Own \notin held => Cardinality(held) = Cardinality(Orphans) /\ Orphans = held
<1>1. st \in Record /\ (disk # NoBlock => disk \in Record) /\ (disk = NoBlock => disk.open = -1)
  BY Beginnings DEF Shape
<1>2. deal \in Int /\ Worst <= deal
  BY WorstIsWorst DEF Shape
<1>3. Fails \in Nat /\ Purse \in Int /\ Entries \in Nat
  BY <1>1, <1>2, Fields DEF Fails, Purse, Entries, Rebuilds, Shape
<1>4. Avail \in Nat
  <2>1. Trades \in Nat
    BY <1>1, Fields DEF Trades, Window, Rebuilds, Shape
  <2>2. Left \in Nat
    BY <2>1, Settings DEF Left
  <2> QED BY <2>2 DEF Avail
<1>5. Own \in Int
  BY <1>1, Fields DEF Own, Shape
<1>6. IsFiniteSet(held)
  BY HeldFinite
<1>7. /\ IsFiniteSet(Orphans) /\ Cardinality(held) \in Nat /\ Cardinality(Orphans) \in Nat
      /\ Own \in held => Cardinality(Orphans) = Cardinality(held) - 1
      /\ Own \notin held => Orphans = held
  BY <1>6, Less DEF Orphans
<1> QED BY <1>2, <1>3, <1>4, <1>5, <1>6, <1>7 DEF Ahead, Due

\* Where the engine is, and what it then knows.
LEMMA AtIdle ==
  ASSUME Shape, pc \in {"idle", "sending"}
  PROVE  /\ ~Rebuilds /\ Own = st.open /\ Window = st /\ Trades = st.trades
         /\ Entries = st.entries
         /\ Unheard <=> st.open # 0 /\ st.open \notin held
         /\ ~Unheard => Fails = st.fails /\ Purse = st.pnl
         /\ Unheard => Purse = st.pnl + deal /\ Fails = (IF deal <= 0 THEN st.fails + 1 ELSE 0)
         /\ Blocked <=> st.paused \/ Fails >= FailStop
BY DEF Rebuilds, Own, Window, Trades, Entries, Unheard, Fails, Purse, Blocked

\* What the window allows a record without a position.
Room(s) == IF s.anchored THEN (IF s.trades < Base THEN Base - s.trades ELSE 0)
                              + (IF s.run >= Need THEN 1 ELSE 0)
                         ELSE 0

LEMMA RoomType ==
  ASSUME NEW s \in Record
  PROVE  /\ Room(s) \in Nat
         /\ ~s.anchored => Room(s) = 0
         /\ s.trades = 0 /\ s.run = 0 => Room(s) <= Base
         /\ s.trades = 0 /\ s.run = 0 /\ s.anchored => Room(s) = Base
BY Fields, Settings DEF Room

LEMMA AvailFlat ==
  ASSUME Shape, pc \in {"idle", "sending"}
  PROVE  /\ st.open = 0 => Avail = Room(st)
         /\ st.anchored => /\ st.open \in held => Room(st) <= Avail + 1
                           /\ Unheard /\ deal > 0 => Room(st) <= Avail
                           /\ Unheard => Room(st) <= Avail + 1
                           /\ Unheard /\ deal <= 0 /\ st.run = 0 => Room(st) <= Avail
<1>1. /\ Trades = st.trades /\ Window = st /\ ~Rebuilds /\ Own = st.open
      /\ Unheard <=> st.open # 0 /\ st.open \notin held
  BY AtIdle
<1>2. st \in Record /\ 0 \notin held
  BY HeldFinite DEF Shape
<1>3. st.trades \in Nat /\ st.run \in Nat
  BY <1>2, Fields
<1>4. Extended <=> IF Unheard THEN deal > 0 ELSE st.open = 0 /\ st.run >= Need
  BY <1>1 DEF Extended
<1> DEFINE base == IF st.trades < Base THEN Base - st.trades ELSE 0
<1>5. base \in Nat
  BY <1>3, Settings
<1>6. /\ Left = base + (IF Extended THEN 1 ELSE 0)
      /\ Room(st) = IF st.anchored THEN base + (IF st.run >= Need THEN 1 ELSE 0) ELSE 0
      /\ Avail = IF st.anchored THEN Left ELSE 0
  BY <1>1 DEF Left, Room, Avail
<1> HIDE DEF base
<1> QED BY <1>1, <1>2, <1>3, <1>4, <1>5, <1>6, Settings

\* A record without a position is saved, and the engine is idle.
LEMMA SavedFlat ==
  ASSUME NEW s \in Record, s.open = 0, Saved(s), pc' = "idle", 0 \notin held'
  PROVE  /\ st' = s /\ disk' = s /\ s # NoBlock
         /\ Own' = 0 /\ Orphans' = held' /\ held' \ {disk'.open} = held'
         /\ Fails' = s.fails /\ Purse' = s.pnl /\ Entries' = s.entries
         /\ Blocked' <=> s.paused \/ s.fails >= FailStop
         /\ Avail' = Room(s)
<1>1. st' = s /\ disk' = s /\ s # NoBlock
  BY Beginnings DEF Saved
<1>2. ~Rebuilds' /\ Own' = 0 /\ Window' = s /\ Trades' = s.trades /\ Entries' = s.entries
  BY <1>1 DEF Rebuilds, Own, Window, Trades, Entries
<1>3. ~Unheard'
  BY <1>2 DEF Unheard
<1>4. Fails' = s.fails /\ Purse' = s.pnl
  BY <1>1, <1>2, <1>3 DEF Fails, Purse
<1>5. Blocked' <=> s.paused \/ s.fails >= FailStop
  BY <1>1, <1>2, <1>4 DEF Blocked
<1>6. Extended' <=> s.run >= Need
  BY <1>1, <1>2, <1>3 DEF Extended
<1>7. Avail' = Room(s)
  BY <1>2, <1>6 DEF Avail, Left, Room
<1>8. Orphans' = held' /\ held' \ {disk'.open} = held'
  BY <1>1, <1>2 DEF Orphans
<1> QED BY <1>1, <1>2, <1>4, <1>5, <1>7, <1>8

\* Such a state keeps what Kept and Stored say.
LEMMA FlatKept ==
  ASSUME NEW s \in Record, s.open = 0, WellRun(s), Saved(s), pc' = "idle", 0 \notin held',
         taken' \in Nat, slips' \in Nat, Funds'
  PROVE  Kept' /\ Stored'
<1>1. /\ st' = s /\ disk' = s /\ s # NoBlock /\ Orphans' = held'
      /\ held' \ {disk'.open} = held' /\ Purse' = s.pnl
  BY SavedFlat
<1>2. Kept'
  BY <1>1 DEF Kept
<1>3. slips' * Worth \in Int
  BY WorstIsWorst, Times
<1>4. net' - disk'.pnl + Cardinality(held' \ {disk'.open}) * Worst >= slips' * Worth
  BY <1>1 DEF Funds
<1>5. disk'.open \in held' \union {0} /\ pc' # "filled"
  BY <1>1
<1>6. Stored'
  BY <1>3, <1>4, <1>5 DEF Stored
<1> QED BY <1>2, <1>6

-----------------------------------------------------------------------------
(* The kinds of steps.                                                     *)

\* The products of the invariant, one more failure on.
LEMMA Products ==
  ASSUME Shape
  PROVE  /\ Cap * slips \in Nat /\ slips * Base \in Nat /\ slips * Worth \in Int
         /\ Cap * (1 + slips) = Cap * slips + Cap
         /\ Cap * (slips + 1) = Cap * slips + Cap
         /\ (slips + 1) * Base = slips * Base + Base
         /\ (1 + slips) * Worth = slips * Worth + Worth
         /\ (slips + 1) * Worth = slips * Worth + Worth
         /\ Cap * (1 + (slips + 1)) = Cap * slips + Cap + Cap
         /\ (1 + (slips + 1)) * Worth = slips * Worth + Worth + Worth
<1>1. slips \in Nat /\ Cap \in Nat /\ Base \in Nat /\ Worth \in Int
  BY Settings, WorstIsWorst DEF Shape
<1>2. Cap * slips \in Nat /\ slips * Base \in Nat /\ slips * Worth \in Int
  BY <1>1
<1>3. (slips + 1) * Base = slips * Base + Base
  BY <1>1, Times
<1>4. (1 + slips) * Worth = slips * Worth + Worth /\ (slips + 1) * Worth = slips * Worth + Worth
  BY <1>1, Times
<1>5. Cap * (1 + slips) = Cap * slips + Cap /\ Cap * (slips + 1) = Cap * slips + Cap
  BY <1>1
<1>6. Cap * (1 + (slips + 1)) = Cap * slips + Cap + Cap
  BY <1>1
<1>7. (1 + (slips + 1)) * Worth = slips * Worth + Worth + Worth
  BY <1>1
<1> QED BY <1>2, <1>3, <1>4, <1>5, <1>6, <1>7

\* The pass is told what has happened, or clears a slot that holds nothing: the
\* governor becomes what the invariant took it for.
LEMMA QuietFlat ==
  ASSUME IInv, pc \in {"idle", "sending"}, UNCHANGED <<broker, slips>>, pc' = "idle",
         NEW s \in Record, s.open = 0, WellRun(s), Saved(s), st.open \notin held,
         s.fails = Fails, s.pnl = Purse, s.entries = Entries,
         s.paused \/ s.fails >= FailStop <=> Blocked,
         credit' \in Nat, credit' <= MaxEntries,
         credit' = MaxEntries \/ taken + Room(s) <= credit' + slips * Base
  PROVE  IInv'
<1>1. Shape
  BY DEF IInv
<1>2. 0 \notin held' /\ held' = held /\ taken' = taken /\ slips' = slips /\ taken \in Nat
  BY <1>1, HeldFinite DEF broker, Shape
<1>3. /\ Own' = 0 /\ Orphans' = held' /\ Fails' = s.fails /\ Purse' = s.pnl
      /\ Entries' = s.entries /\ Avail' = Room(s) /\ st' = s /\ disk' = s
      /\ Blocked' <=> s.paused \/ s.fails >= FailStop
  BY <1>2, SavedFlat
<1>4. Own = st.open /\ Orphans' = Orphans
  BY <1>1, <1>2, <1>3, AtIdle, Types
<1>5. Fails' = Fails /\ Purse' = Purse /\ Entries' = Entries /\ (Blocked' <=> Blocked)
  BY <1>3
<1>6. Shape'
  BY <1>1, <1>3 DEF Shape, broker
<1>7. Spared'
  BY <1>2, <1>4 DEF IInv, Spared
<1>8. Streaks'
  <2>1. Ahead' = Ahead
    BY <1>5 DEF Ahead, broker
  <2>2. Due' = Due
    BY <1>2, <1>3, <1>4, <1>5 DEF Due, broker
  <2> QED BY <2>1, <2>2, <1>4 DEF IInv, Streaks, broker
<1>9. Counted'
  BY <1>5 DEF IInv, Counted, broker
<1>10. Funds' /\ Funded'
  BY <1>4, <1>5 DEF IInv, Funds, Funded, broker
<1>11. Kept' /\ Stored'
  BY <1>2, <1>10, FlatKept DEF IInv, Shape
<1>12. Budgeted'
  BY <1>2, <1>3 DEF Budgeted
<1> QED BY <1>6, <1>7, <1>8, <1>9, <1>10, <1>11, <1>12 DEF IInv

\* The pass clears its slot on a wrong answer: a position it no longer follows,
\* or a result it never learns, for one failure.
LEMMA SlippedFlat ==
  ASSUME IInv, pc = "idle", UNCHANGED broker, slips' = slips + 1, pc' = "idle",
         NEW s \in Record, s.open = 0, Saved(s), st.open # 0,
         s.pnl = st.pnl, s.entries = st.entries,
         s.anchored = st.anchored, s.trades = st.trades, s.run = st.run,
         credit' \in Nat, credit <= credit', credit' <= MaxEntries
  PROVE  IInv'
<1>1. Shape
  BY DEF IInv
<1>2. 0 \notin held' /\ held' = held /\ taken' = taken /\ taken \in Nat /\ slips \in Nat
  BY <1>1, HeldFinite DEF broker, Shape
<1>3. /\ Own' = 0 /\ Orphans' = held' /\ Fails' = s.fails /\ Purse' = s.pnl
      /\ Entries' = s.entries /\ Avail' = Room(s) /\ st' = s /\ disk' = s
  BY <1>2, SavedFlat
<1>4. st \in Record /\ s.fails \in Nat /\ st.entries \in Nat /\ st.pnl \in Int
  BY <1>1, Fields DEF Shape
<1>5. Own = st.open /\ (st.open \in held => Purse = st.pnl)
      /\ (st.open \notin held => Purse = st.pnl + deal) /\ Entries = st.entries
  BY <1>1, AtIdle
<1>6. Shape'
  BY <1>1, <1>3 DEF Shape, broker
<1>7. Spared'
  BY <1>1, <1>2, <1>3, Types DEF IInv, Spared
<1>8. Streaks'
  <2>1. Ahead' \in {0, 1} /\ Due' \in {0, 1}
    BY DEF Ahead, Due
  <2>2. Own \in held => Due = 0
    BY DEF Due
  <2> QED BY <2>1, <2>2, <1>1, <1>2, <1>3, Types DEF IInv, Streaks, broker, Shape
<1>9. Counted'
  BY <1>1, <1>2, <1>3, <1>4, Products, Settings DEF IInv, Counted
<1>10. Funds' /\ Funded'
  <2>1. /\ net' = net /\ net \in Int /\ Purse' = st.pnl
        /\ Cardinality(Orphans') = Cardinality(held)
    BY <1>1, <1>2, <1>3 DEF Shape, broker
  <2> DEFINE c == Cardinality(held) * Worst
             o == Cardinality(Orphans) * Worst
  <2>2. /\ c \in Int /\ o \in Int
        /\ st.open \in held => c = o + Worst
        /\ st.open \notin held => c = o
    <3>1. Cardinality(Orphans) \in Int /\ Cardinality(held) \in Int /\ Worst \in Int
      BY <1>1, Types, WorstIsWorst
    <3>2. (Cardinality(Orphans) + 1) * Worst = Cardinality(Orphans) * Worst + Worst
      BY <3>1, Times
    <3> QED BY <1>1, <1>5, <3>1, <3>2, Types
  <2>3. net - Purse + o >= slips * Worth /\ net + c >= slips * Worth + Worth
    BY <1>1, Products DEF IInv, Funds, Funded
  <2>4. net' - Purse' + Cardinality(Orphans') * Worst = net - st.pnl + c
    BY <2>1
  <2> HIDE DEF c, o
  <2>5. net - st.pnl + c >= slips * Worth + Worth
    <3>1. CASE st.open \in held
      BY <3>1, <1>1, <1>4, <1>5, <2>1, <2>2, <2>3, Products, WorstIsWorst
    <3>2. CASE st.open \notin held
      BY <3>2, <1>1, <1>4, <1>5, <2>1, <2>2, <2>3, Products, WorstIsWorst, Types
    <3> QED BY <3>1, <3>2
  <2>6. Funds'
    BY <1>1, <2>4, <2>5, Products DEF Funds
  <2>7. net + c >= slips * Worth + Worth + Worth
    BY <1>1, <2>1, <2>2, <2>3, Products, WorstIsWorst
  <2>8. Funded'
    BY <1>1, <1>2, <2>1, <2>7, Products DEF Funded, c
  <2> QED BY <2>6, <2>8
<1>11. Kept' /\ Stored'
  <2>1. s.run <= s.trades /\ (s.anchored \/ s.trades = 0)
    BY <1>4, Fields DEF IInv, Kept, WellRun
  <2>2. WellRun(s)
    BY <2>1, Fields DEF WellRun
  <2> QED BY <2>2, <1>2, <1>10, FlatKept
<1>12. Budgeted'
  <2>1. Room(s) = Room(st)
    BY DEF Room
  <2>2. Room(st) <= Avail + 1 /\ Room(st) \in Nat /\ Avail \in Nat
    <3>1. Room(st) \in Nat /\ Avail \in Nat /\ (~st.anchored => Room(st) = 0)
      BY <1>1, <1>4, Types, RoomType
    <3>2. CASE st.anchored /\ st.open \in held
      BY <3>1, <3>2, <1>1, AvailFlat
    <3>3. CASE st.anchored /\ st.open \notin held
      <4>1. Unheard
        BY <3>3, <1>1, AtIdle
      <4> QED BY <3>1, <3>3, <4>1, <1>1, AvailFlat
    <3> QED BY <3>1, <3>2, <3>3
  <2> QED BY <2>1, <2>2, <1>1, <1>2, <1>3, Products, Settings DEF IInv, Budgeted, Shape
<1> QED BY <1>6, <1>7, <1>8, <1>9, <1>10, <1>11, <1>12 DEF IInv

\* A position closes: the streak moves on, or is over.
LEMMA GoneCounts ==
  ASSUME Shape, NEW t \in held, NEW pnl \in Results, Gone(t, pnl)
  PROVE  /\ held' = held \ {t} /\ taken' = taken /\ net' = net + pnl
         /\ IsFiniteSet(held') /\ 0 \notin held'
         /\ Cardinality(held') = Cardinality(held) - 1 /\ Cardinality(held) \in Nat
         /\ pnl \in Int /\ Worst <= pnl /\ pnl # 0
         /\ net' \in Int /\ streak' \in Nat /\ losses' \in {losses, losses + 1}
         /\ held' \subseteq 1..taken' /\ deal' \in Results \union {0}
         /\ pnl > 0 => streak' = 0 /\ losses' = losses /\ Phase(streak') = 0
         /\ pnl < 0 => /\ streak' = streak + 1
                       /\ Phase(streak') # 0 =>
                            losses' = losses /\ Phase(streak') = Phase(streak) + 1
                       /\ Phase(streak') = 0 =>
                            /\ losses' = losses + 1 /\ streak' >= FailStop
                            /\ Phase(streak) = FailStop - 1
<1>1. /\ held' = held \ {t} /\ taken' = taken /\ net' = net + pnl
      /\ streak' = (IF pnl > 0 THEN 0 ELSE streak + 1)
      /\ losses' = (IF pnl < 0 /\ Phase(streak + 1) = 0 THEN losses + 1 ELSE losses)
      /\ deal' = (IF t = st.open \/ (pc = "filled" /\ t = taken) THEN pnl ELSE deal)
  BY DEF Gone, Phase
<1>2. pnl \in Int /\ Worst <= pnl /\ pnl # 0
  BY WorstIsWorst
<1>3. IsFiniteSet(held') /\ Cardinality(held') = Cardinality(held) - 1 /\ Cardinality(held) \in Nat
  BY <1>1, HeldFinite, Less
<1>4. 0 \notin held' /\ held' \subseteq 1..taken'
  BY <1>1, HeldFinite DEF Shape
<1>5. /\ Phase(streak + 1) = 0 => Phase(streak) = FailStop - 1 /\ streak + 1 >= FailStop
      /\ Phase(streak + 1) # 0 => Phase(streak + 1) = Phase(streak) + 1
  BY Modulo DEF Shape
<1>6. Phase(0) = 0
  BY PhaseOfNone
<1>7. net' \in Int /\ streak' \in Nat /\ deal' \in Results \union {0}
  BY <1>1, <1>2 DEF Shape
<1> QED BY <1>1, <1>2, <1>3, <1>4, <1>5, <1>6, <1>7

LEMMA ShapeGone ==
  ASSUME Shape, NEW t \in held, NEW pnl \in Results, Gone(t, pnl),
         st' \in Record, disk' \in Record \union {NoBlock},
         pc' \in {"boot", "idle", "sending", "filled"},
         credit' \in Nat, credit' <= MaxEntries, slips' \in Nat
  PROVE  Shape'
<1>1. /\ taken' = taken /\ net' \in Int /\ streak' \in Nat /\ losses' \in {losses, losses + 1}
      /\ held' \subseteq 1..taken' /\ deal' \in Results \union {0}
  BY GoneCounts
<1> QED BY <1>1 DEF Shape

\* Products over a position less or more.
LEMMA CountedMoney ==
  ASSUME NEW n \in Nat
  PROVE  n * Worst \in Int /\ (n + 1) * Worst = n * Worst + Worst /\ (n - 1) * Worst = n * Worst - Worst
BY WorstIsWorst, Times

\* The engine's own ticket closes: one more in its streak for one more in the
\* broker's, so the loss that ends a streak is one the engine will stop for.
LEMMA OwnCloses ==
  ASSUME Shape, Streaks, Own \in held, NEW pnl \in Results, Gone(Own, pnl),
         Cardinality(Orphans') = Cardinality(Orphans), Own' \notin held',
         Fails' \in Nat, pnl < 0 => Fails' = Fails + 1,
         Fails' >= FailStop => Blocked', slips' \in {slips, slips + 1}
  PROVE  Streaks'
<1>0. /\ losses' \in {losses, losses + 1}
      /\ pnl > 0 => streak' = 0 /\ losses' = losses /\ Phase(streak') = 0
      /\ pnl < 0 => /\ streak' = streak + 1
                    /\ Phase(streak') # 0 =>
                         losses' = losses /\ Phase(streak') = Phase(streak) + 1
                    /\ Phase(streak') = 0 =>
                         /\ losses' = losses + 1 /\ streak' >= FailStop
                         /\ Phase(streak) = FailStop - 1
  BY GoneCounts
<1>1. /\ Fails \in Nat /\ Ahead \in {0, 1} /\ Due = 0 /\ Cardinality(Orphans) \in Nat
      /\ slips \in Nat /\ losses \in Nat
  BY Types DEF Due, Shape
<1>2. /\ Ahead' \in {0, 1} /\ Due' \in {0, 1}
      /\ Ahead' = 1 <=> Phase(streak') > Fails'
      /\ Ahead = 1 <=> Phase(streak) > Fails
      /\ streak' >= FailStop /\ Blocked' => Due' = 1
  BY DEF Ahead, Due
<1>3. Phase(streak) \in Nat
  BY Modulo DEF Shape
<1>4. losses + Cardinality(Orphans) + Ahead <= 2 * slips
  BY <1>1 DEF Streaks
<1>5. slips' \in {slips, slips + 1} /\ Cardinality(Orphans') = Cardinality(Orphans)
  OBVIOUS
<1>6. CASE pnl > 0
  <2>1. losses' = losses /\ Phase(streak') = 0
    BY <1>6, <1>0
  <2>2. Ahead' = 0
    BY <2>1, <1>2
  <2> QED BY <2>1, <2>2, <1>1, <1>2, <1>4, <1>5 DEF Streaks
<1>7. CASE pnl < 0 /\ Phase(streak') # 0
  <2>1. losses' = losses /\ Phase(streak') = Phase(streak) + 1 /\ Fails' = Fails + 1
    BY <1>7, <1>0
  <2>2. Phase(streak) + 1 > Fails + 1 <=> Phase(streak) > Fails
    BY <1>1, <1>3
  <2>3. Ahead' = Ahead
    <3>1. Ahead' = IF Phase(streak) + 1 > Fails + 1 THEN 1 ELSE 0
      BY <2>1 DEF Ahead
    <3> QED BY <3>1, <2>2 DEF Ahead
  <2> QED BY <2>1, <2>3, <1>1, <1>2, <1>4, <1>5 DEF Streaks
<1>8. CASE pnl < 0 /\ Phase(streak') = 0
  <2>1. /\ losses' = losses + 1 /\ streak' >= FailStop /\ Fails' = Fails + 1
        /\ Phase(streak) = FailStop - 1
    BY <1>8, <1>0
  <2>2. Ahead' = 0
    BY <1>8, <1>2
  <2>3. CASE Ahead = 1
    BY <2>1, <2>2, <2>3, <1>1, <1>2, <1>4, <1>5 DEF Streaks
  <2>4. CASE Ahead = 0
    <3>1. Fails + 1 >= FailStop
      BY <2>1, <2>4, <1>1, <1>2, Settings
    <3>2. Blocked'
      BY <2>1, <3>1
    <3>3. Due' = 1
      BY <2>1, <3>2, <1>2
    <3> QED BY <2>1, <2>2, <2>4, <3>3, <1>1, <1>4, <1>5 DEF Streaks
  <2> QED BY <2>3, <2>4, <1>1
<1>9. pnl \in Int /\ pnl # 0
  BY WorstIsWorst
<1> QED BY <1>6, <1>7, <1>8, <1>9

\* An orphan closes: it was counted, so the loss it may be is paid for.
LEMMA OrphanCloses ==
  ASSUME Shape, Streaks, NEW t \in held, t # Own, NEW pnl \in Results, Gone(t, pnl),
         Own' = Own, slips' = slips,
         Fails' = Fails \/ (Rebuilds' /\ Fails' = streak'), Blocked' <=> Blocked
  PROVE  /\ Streaks' /\ Cardinality(Orphans') = Cardinality(Orphans) - 1
         /\ Orphans' = Orphans \ {t} /\ Cardinality(Orphans) \in Nat
<1>0. /\ losses' \in {losses, losses + 1} /\ held' = held \ {t}
      /\ pnl > 0 => streak' = 0 /\ losses' = losses /\ Phase(streak') = 0
      /\ pnl < 0 => /\ streak' = streak + 1
                    /\ Phase(streak') # 0 => losses' = losses
  BY GoneCounts
<1>1. /\ Fails \in Nat /\ Ahead \in {0, 1} /\ Due \in {0, 1} /\ Cardinality(Orphans) \in Nat
      /\ slips \in Nat /\ losses \in Nat /\ IsFiniteSet(Orphans)
  BY Types DEF Shape
<1>2. t \in Orphans /\ Orphans' = Orphans \ {t}
  BY <1>0 DEF Orphans
<1>3. Cardinality(Orphans') = Cardinality(Orphans) - 1
  BY <1>1, <1>2, Less
<1>4. Ahead' \in {0, 1} /\ Due' \in {0, 1} /\ (Ahead' = 1 <=> Phase(streak') > Fails')
  BY DEF Ahead, Due
<1>5. losses + Cardinality(Orphans) + Ahead <= 2 * slips + Due /\ slips' = slips
  BY DEF Streaks
<1>6. CASE pnl > 0
  <2>1. losses' = losses /\ Phase(streak') = 0 /\ Fails' \in Nat
    BY <1>6, <1>0, <1>1
  <2>2. Ahead' = 0
    BY <2>1, <1>4
  <2> QED BY <2>1, <2>2, <1>1, <1>2, <1>3, <1>4, <1>5 DEF Streaks
<1>7. CASE pnl < 0
  <2>1. streak' = streak + 1 /\ streak \in Nat
    BY <1>7, <1>0 DEF Shape
  <2>2. Due = 1 => Due' = 1
    BY <2>1, <1>0, Settings DEF Due
  <2>3. CASE Phase(streak') # 0
    <3>1. losses' = losses
      BY <1>7, <2>3, <1>0
    <3> QED BY <3>1, <2>2, <1>1, <1>2, <1>3, <1>4, <1>5 DEF Streaks
  <2>4. CASE Phase(streak') = 0
    <3>1. losses' \in {losses, losses + 1} /\ Fails' \in Nat
      BY <2>1, <1>0, <1>1
    <3>2. Ahead' = 0
      BY <2>4, <3>1, <1>4
    <3> QED BY <3>1, <3>2, <2>2, <1>1, <1>2, <1>3, <1>4, <1>5 DEF Streaks
  <2> QED BY <2>3, <2>4
<1>8. pnl \in Int /\ pnl # 0
  BY WorstIsWorst
<1>9. Streaks'
  BY <1>6, <1>7, <1>8
<1> QED BY <1>1, <1>2, <1>3, <1>9

\* What all held positions may still lose shrinks by one.
LEMMA HeldCloses ==
  ASSUME Shape, Funded, NEW t \in held, NEW pnl \in Results, Gone(t, pnl),
         slips' \in {slips, slips + 1}
  PROVE  Funded'
<1>1. /\ net' = net + pnl /\ Cardinality(held') = Cardinality(held) - 1
      /\ Cardinality(held) \in Nat /\ pnl \in Int /\ Worst <= pnl /\ net \in Int
  BY GoneCounts DEF Shape
<1> DEFINE c == Cardinality(held) * Worst
<1>2. c \in Int /\ (Cardinality(held) - 1) * Worst = c - Worst
  BY <1>1, CountedMoney
<1>3. net + c >= slips * Worth + Worth
  BY Products DEF Funded
<1> HIDE DEF c
<1>4. Cardinality(held') * Worst = c - Worst
  BY <1>1, <1>2
<1>5. net + pnl + (c - Worst) >= slips * Worth + Worth
  BY <1>1, <1>2, <1>3, Products, WorstIsWorst
<1>6. CASE slips' = slips
  BY <1>1, <1>4, <1>5, <1>6, Products DEF Funded
<1>7. CASE slips' = slips + 1
  <2>1. net + pnl + (c - Worst) >= slips * Worth + Worth + Worth
    BY <1>1, <1>2, <1>5, Products, WorstIsWorst
  <2> QED BY <2>1, <1>1, <1>4, <1>7, Products DEF Funded
<1> QED BY <1>6, <1>7

\* So does what they may lose against the money in the file.
LEMMA StoredCloses ==
  ASSUME Shape, Stored, NEW t \in held, NEW pnl \in Results, Gone(t, pnl),
         UNCHANGED <<disk, pc, slips>>
  PROVE  Stored'
<1>1. /\ net' = net + pnl /\ held' = held \ {t} /\ IsFiniteSet(held)
      /\ pnl \in Int /\ Worst <= pnl /\ net \in Int /\ 0 \notin held
  BY GoneCounts, HeldFinite DEF Shape
<1> SUFFICES ASSUME disk # NoBlock PROVE Stored'
  BY DEF Stored
<1> DEFINE rest1 == held \ {disk.open}
           n == Cardinality(rest1)
           late1 == IF disk.open \notin held \union {0} THEN Worst ELSE 0
           fill == IF pc = "filled" THEN Worst ELSE 0
<1>2. disk \in Record /\ disk.pnl \in Int
  BY Fields DEF Shape
<1>3. IsFiniteSet(rest1) /\ n \in Nat
  BY <1>1, Less
<1>4. net - disk.pnl + n * Worst >= slips * Worth + late1 + fill
  BY DEF Stored
<1>5. /\ Worst \in Int /\ slips * Worth \in Int /\ late1 \in Int /\ fill \in Int /\ n * Worst \in Int
      /\ Worst < 0
  BY <1>3, Products, WorstIsWorst, CountedMoney
<1> DEFINE sum == net + pnl
<1>8. net' = sum /\ disk' = disk /\ slips' = slips /\ pc' = pc
  BY <1>1
<1>6. CASE t = disk.open
  <2>1. /\ held' \ {disk.open} = rest1 /\ late1 = 0
        /\ disk.open \notin held' \union {0}
    BY <1>1, <1>6
  <2>2. sum - disk.pnl + n * Worst >= slips * Worth + Worst + fill
    <3> HIDE DEF n, late1, fill
    <3> QED BY <2>1, <1>1, <1>2, <1>4, <1>5
  <2>3. Cardinality(held' \ {disk.open}) * Worst = n * Worst
    BY <2>1
  <2>4. /\ net' - disk'.pnl + Cardinality(held' \ {disk'.open}) * Worst
             = sum - disk.pnl + n * Worst
        /\ slips' = slips /\ pc' = pc /\ disk' = disk
    <3> HIDE DEF sum
    <3> QED BY <2>3, <1>8
  <2>5. sum - disk.pnl + n * Worst
          >= slips * Worth + Worst + (IF pc = "filled" THEN Worst ELSE 0)
    BY <2>2
  <2> HIDE DEF n, late1, fill, rest1, sum
  <2> QED BY <2>1, <2>4, <2>5 DEF Stored
<1>7. CASE t # disk.open
  <2>1. /\ held' \ {disk.open} = rest1 \ {t} /\ t \in rest1
        /\ disk.open \notin held' \union {0} <=> disk.open \notin held \union {0}
    BY <1>1, <1>7
  <2>2. Cardinality(rest1 \ {t}) = n - 1
    BY <2>1, <1>3, Less
  <2>3. (n - 1) * Worst = n * Worst - Worst
    BY <1>3, CountedMoney
  <2>4. Cardinality(held' \ {disk.open}) * Worst = n * Worst - Worst
    BY <2>1, <2>2, <2>3
  <2>5. sum - disk.pnl + (n * Worst - Worst) >= slips * Worth + late1 + fill
    <3> HIDE DEF n, late1, fill
    <3>1. net \in Int /\ pnl \in Int /\ disk.pnl \in Int
      BY <1>1, <1>2
    <3>2. sum - disk.pnl + (n * Worst - Worst) = (net - disk.pnl + n * Worst) + (pnl - Worst)
      BY <3>1, <1>5
    <3> QED BY <3>1, <3>2, <1>1, <1>4, <1>5
  <2>6. /\ net' - disk'.pnl + Cardinality(held' \ {disk'.open}) * Worst
             = sum - disk.pnl + (n * Worst - Worst)
        /\ slips' = slips /\ pc' = pc /\ disk' = disk
    <3> HIDE DEF sum
    <3> QED BY <2>4, <1>8
  <2>7. sum - disk.pnl + (n * Worst - Worst)
          >= slips * Worth + (IF disk.open \notin held' \union {0} THEN Worst ELSE 0)
                           + (IF pc = "filled" THEN Worst ELSE 0)
    BY <2>1, <2>5
  <2> HIDE DEF n, late1, fill, rest1, sum
  <2> QED BY <2>6, <2>7 DEF Stored
<1> QED BY <1>6, <1>7

\* A flatten closes the engine's ticket itself; it may not learn the result.
LEMMA GoneFlat ==
  ASSUME IInv, pc = "idle", st.open \in held, NEW pnl \in Results, Gone(st.open, pnl),
         pc' = "idle", NEW s \in Record, s.open = 0, Saved(s),
         s.entries = st.entries, s.anchored = st.anchored,
         s.trades = st.trades, s.run = st.run,
         pnl < 0 => s.fails = st.fails + 1,
         \/ slips' = slips /\ s.pnl = st.pnl + pnl
         \/ slips' = slips + 1 /\ s.pnl = st.pnl,
         credit' \in Nat, credit' <= MaxEntries, credit' = MaxEntries \/ credit' = credit + 1
  PROVE  IInv'
<1>1. /\ Shape /\ slips \in Nat /\ taken \in Nat /\ st \in Record
      /\ slips' \in {slips, slips + 1} /\ slips' \in Nat
  BY DEF IInv, Shape
<1>2. /\ taken' = taken /\ net' = net + pnl /\ 0 \notin held' /\ net \in Int
      /\ pnl \in Int /\ Worst <= pnl
      /\ Cardinality(held') = Cardinality(held) - 1 /\ Cardinality(held) \in Nat
  BY <1>1, GoneCounts DEF Shape
<1>3. /\ Own' = 0 /\ Orphans' = held' /\ Fails' = s.fails /\ Purse' = s.pnl
      /\ Entries' = s.entries /\ Avail' = Room(s) /\ st' = s /\ disk' = s
      /\ Blocked' <=> s.paused \/ s.fails >= FailStop
  BY <1>2, SavedFlat
<1>4. Own = st.open /\ Fails = st.fails /\ Purse = st.pnl /\ Entries = st.entries
  BY <1>1, AtIdle
<1>5. s.fails \in Nat /\ st.pnl \in Int /\ st.entries \in Nat
  BY <1>1, Fields
<1>6. Shape'
  <2>1. pc' \in {"boot", "idle", "sending", "filled"} /\ disk' \in Record \union {NoBlock}
    BY <1>3
  <2> QED BY <2>1, <1>1, <1>3, ShapeGone
<1>7. /\ Cardinality(held) = Cardinality(Orphans) + 1 /\ Cardinality(Orphans) \in Nat
      /\ Cardinality(Orphans') = Cardinality(Orphans)
  <2>1. Cardinality(held) = Cardinality(Orphans) + 1 /\ Cardinality(Orphans) \in Nat
    BY <1>1, <1>4, Types
  <2>2. Cardinality(Orphans') = Cardinality(held')
    BY <1>3
  <2> QED BY <2>1, <2>2, <1>2
<1>8. Spared'
  BY <1>1, <1>7 DEF IInv, Spared
<1>9. Streaks'
  <2>1. Own \in held /\ Gone(Own, pnl) /\ Own' \notin held' /\ Fails' \in Nat
    BY <1>2, <1>3, <1>4, <1>5
  <2>2. pnl < 0 => Fails' = Fails + 1
    BY <1>3, <1>4
  <2>3. Fails' >= FailStop => Blocked'
    BY <1>3
  <2> QED BY <2>1, <2>2, <2>3, <1>1, <1>7, OwnCloses DEF IInv
<1>10. Counted'
  <2>1. taken <= Cap * slips + st.entries /\ taken <= Cap * slips + Cap
    BY <1>1, <1>4, Products DEF IInv, Counted
  <2>2. CASE slips' = slips
    BY <2>1, <2>2, <1>1, <1>2, <1>3, Products DEF Counted
  <2>3. CASE slips' = slips + 1
    BY <2>1, <2>3, <1>1, <1>2, <1>3, <1>5, Products, Settings DEF Counted
  <2> QED BY <2>2, <2>3, <1>1
<1>11. Funds'
  <2> DEFINE o == Cardinality(Orphans) * Worst
  <2> DEFINE sum == net + pnl
  <2>0. net' = sum /\ Purse' = s.pnl /\ Cardinality(Orphans') * Worst = o
    BY <1>2, <1>3, <1>7
  <2>1. o \in Int
    BY <1>7, CountedMoney
  <2>2. net - st.pnl + o >= slips * Worth
    BY <1>4 DEF IInv, Funds
  <2> HIDE DEF o
  <2>3. CASE slips' = slips /\ s.pnl = st.pnl + pnl
    <3> DEFINE won == st.pnl + pnl
    <3>1. sum - won + o >= slips * Worth
      BY <2>1, <2>2, <1>1, <1>2, <1>5, Products
    <3>2. s.pnl = won
      BY <2>3
    <3> HIDE DEF sum, won
    <3>3. net' - Purse' + Cardinality(Orphans') * Worst = sum - won + o
      BY <2>0, <3>2
    <3> QED BY <3>1, <3>3, <2>3 DEF Funds
  <2>4. CASE slips' = slips + 1 /\ s.pnl = st.pnl
    <3>1. sum - st.pnl + o >= slips * Worth + Worth
      BY <2>1, <2>2, <1>1, <1>2, <1>5, Products, WorstIsWorst
    <3> HIDE DEF sum
    <3>2. net' - Purse' + Cardinality(Orphans') * Worst = sum - st.pnl + o
      BY <2>0, <2>4
    <3>3. slips' * Worth = slips * Worth + Worth
      BY <2>4, <1>1, Products
    <3> QED BY <3>1, <3>2, <3>3 DEF Funds
  <2> QED BY <2>3, <2>4
<1>12. Funded'
  BY <1>1, HeldCloses DEF IInv
<1>13. Kept' /\ Stored'
  <2>1. s.run <= s.trades /\ (s.anchored \/ s.trades = 0)
    BY <1>1, Fields DEF IInv, Kept, WellRun
  <2>2. WellRun(s)
    BY <2>1, Fields DEF WellRun
  <2> QED BY <2>2, <1>1, <1>2, <1>11, FlatKept
<1>14. Budgeted'
  <2>1. Room(s) = Room(st)
    BY DEF Room
  <2>2. Room(st) <= Avail + 1 /\ Room(st) \in Nat /\ Avail \in Nat
    <3>1. Room(st) \in Nat /\ Avail \in Nat /\ (~st.anchored => Room(st) = 0)
      BY <1>1, Types, RoomType
    <3> QED BY <3>1, <1>1, AvailFlat
  <2>3. credit = MaxEntries \/ taken + Avail <= credit + slips * Base
    BY DEF IInv, Budgeted
  <2>4. credit \in Nat /\ credit <= MaxEntries /\ slips * Base \in Nat
        /\ (slips + 1) * Base = slips * Base + Base
    BY <1>1, Products DEF Shape
  <2>5. CASE credit' = MaxEntries
    BY <2>5 DEF Budgeted
  <2>6. CASE credit' = credit + 1 /\ slips' = slips
    BY <2>1, <2>2, <2>3, <2>4, <2>6, <1>1, <1>2, <1>3, Settings DEF Budgeted
  <2>7. CASE credit' = credit + 1 /\ slips' = slips + 1
    BY <2>1, <2>2, <2>3, <2>4, <2>7, <1>1, <1>2, <1>3, Settings DEF Budgeted
  <2> QED BY <2>5, <2>6, <2>7
<1> QED BY <1>6, <1>8, <1>9, <1>10, <1>11, <1>12, <1>13, <1>14 DEF IInv

\* Credit is granted up to the bound.
LEMMA GrantedBounds ==
  ASSUME Shape, NEW n \in Nat, Granted(n)
  PROVE  /\ credit' \in Nat /\ credit' <= MaxEntries /\ credit <= credit'
         /\ credit' = MaxEntries \/ (credit' = credit + n /\ credit # MaxEntries)
BY Settings DEF Granted, Shape

\* More credit, or as much, and no more that can be used.
LEMMA BudgetKept ==
  ASSUME Shape, Budgeted, taken' = taken, slips' = slips,
         NEW n \in Nat, credit' = MaxEntries \/ (credit' = credit + n /\ credit # MaxEntries),
         \E m \in 0..n : Avail' = Avail + m
  PROVE  Budgeted'
<1>1. /\ Avail \in Nat /\ taken \in Nat /\ credit \in Nat /\ slips * Base \in Nat
      /\ credit <= MaxEntries /\ MaxEntries \in Nat
  BY Types, Products, Settings DEF Shape
<1>2. credit = MaxEntries \/ taken + Avail <= credit + slips * Base
  BY DEF Budgeted
<1>3. PICK m \in 0..n : Avail' = Avail + m
  OBVIOUS
<1>4. CASE credit' = MaxEntries
  BY <1>4 DEF Budgeted
<1>5. CASE credit' = credit + n /\ credit # MaxEntries
  <2>1. taken + (Avail + m) <= (credit + n) + slips * Base
    BY <1>1, <1>2, <1>5
  <2>2. taken' + Avail' = taken + (Avail + m) /\ credit' + slips' * Base = (credit + n) + slips * Base
    BY <1>3, <1>5
  <2> QED BY <2>1, <2>2 DEF Budgeted
<1> QED BY <1>4, <1>5

\* The engine's ticket closes at the broker: what the engine will hear is what
\* the invariant counts.
LEMMA OwnByBroker ==
  ASSUME IInv, Own \in held, NEW pnl \in Results, BrokerClose(Own, pnl)
  PROVE  IInv'
<1>1. /\ Shape /\ Gone(Own, pnl) /\ Granted(IF pnl > 0 THEN 1 ELSE 0)
      /\ st' = st /\ disk' = disk /\ pc' = pc /\ slips' = slips
  BY DEF IInv, BrokerClose
<1>2. /\ held' = held \ {Own} /\ taken' = taken /\ net' = net + pnl /\ net \in Int
      /\ pnl \in Int /\ Worst <= pnl /\ pnl # 0
      /\ pnl > 0 => streak' = 0
      /\ pnl < 0 => streak' = streak + 1
  BY <1>1, GoneCounts DEF Shape
<1>3. Own' = Own /\ Own # 0 /\ (Rebuilds' <=> Rebuilds) /\ (pc = "boot" => Rebuilds)
  BY <1>1, <1>2, HeldFinite, Beginnings DEF Own, Rebuilds
<1>4. Own' \notin held' /\ Orphans' = Orphans
  BY <1>2, <1>3 DEF Orphans
<1>5. (Unheard' <=> ~Rebuilds) /\ ~Unheard
  BY <1>1, <1>3, <1>4 DEF Unheard, Rebuilds
<1>6. ~Rebuilds => deal' = pnl
  BY <1>1, <1>3 DEF Gone, Own, Shape
<1>7. /\ Rebuilds => Fails = streak /\ Purse = net /\ Fails' = streak' /\ Purse' = net'
      /\ ~Rebuilds => /\ Fails = st.fails /\ Purse = st.pnl /\ Purse' = st.pnl + pnl
                      /\ Fails' = IF pnl <= 0 THEN st.fails + 1 ELSE 0
  BY <1>1, <1>3, <1>5, <1>6 DEF Fails, Purse
<1>8. Fails \in Nat /\ Purse \in Int /\ Entries' = Entries
  BY <1>1, <1>2, <1>3, Types DEF Entries
<1>9. Shape'
  <2>1. credit' \in Nat /\ credit' <= MaxEntries
    BY <1>1, GrantedBounds
  <2> QED BY <2>1, <1>1, ShapeGone DEF Shape
<1>10. Kept'
  BY <1>1, <1>2 DEF IInv, Kept
<1>11. Spared'
  BY <1>1, <1>4 DEF IInv, Spared
<1>12. Streaks'
  <2>1. Fails' \in Nat /\ (pnl < 0 => Fails' = Fails + 1)
    BY <1>2, <1>7, <1>8
  <2>2. Fails' >= FailStop => Blocked'
    BY DEF Blocked
  <2>3. Cardinality(Orphans') = Cardinality(Orphans)
    BY <1>4
  <2> QED BY <2>1, <2>2, <2>3, <1>1, <1>4, OwnCloses DEF IInv
<1>13. Counted'
  BY <1>1, <1>2, <1>8 DEF IInv, Counted
<1>14. Funds'
  <2> DEFINE o == Cardinality(Orphans) * Worst
             sum == net + pnl
             won == Purse + pnl
  <2>1. o \in Int
    BY <1>1, Types, CountedMoney
  <2>2. net - Purse + o >= slips * Worth
    BY DEF IInv, Funds
  <2>3. sum - won + o >= slips * Worth
    BY <2>1, <2>2, <1>1, <1>2, <1>8, Products
  <2>4. net' = sum /\ Purse' = won /\ Cardinality(Orphans') * Worst = o
    BY <1>2, <1>4, <1>7
  <2> HIDE DEF o, sum, won
  <2>5. net' - Purse' + Cardinality(Orphans') * Worst = sum - won + o
    BY <2>4
  <2> QED BY <2>3, <2>5, <1>1 DEF Funds
<1>15. Funded' /\ Stored'
  BY <1>1, HeldCloses, StoredCloses DEF IInv
<1>16. Budgeted'
  <2> DEFINE n == IF pnl > 0 THEN 1 ELSE 0
  <2>1. n \in Nat /\ (credit' = MaxEntries \/ (credit' = credit + n /\ credit # MaxEntries))
    BY <1>1, GrantedBounds
  <2>2. Window' = Window /\ Trades' = Trades
    BY <1>1, <1>3 DEF Window, Trades
  <2>3. CASE Rebuilds
    <3>1. Extended' <=> Extended
      BY <2>3, <1>1, <1>3 DEF Extended
    <3>2. Avail' = Avail
      BY <2>2, <3>1 DEF Avail, Left
    <3>3. Avail' = Avail + 0 /\ 0 \in 0..n
      BY <3>2, <2>1, <1>1, Types
    <3> HIDE DEF n
    <3> QED BY <2>1, <3>3, <1>1, <1>2, BudgetKept DEF IInv
  <2>4. CASE ~Rebuilds
    <3>1. (Extended' <=> pnl > 0) /\ ~Extended
      BY <2>4, <1>3, <1>5, <1>6 DEF Extended
    <3>2. Trades \in Nat
      BY <1>1, <2>4, Fields DEF Trades, Window, Shape
    <3>3. Left \in Nat /\ Left' = Left + n
      BY <2>2, <3>1, <3>2, Settings DEF Left
    <3>4. Avail' = Avail \/ Avail' = Avail + n
      BY <2>2, <3>3 DEF Avail
    <3>5. Avail + 0 = Avail /\ 0 \in 0..n /\ n \in 0..n
      BY <2>1, <1>1, Types
    <3> HIDE DEF n
    <3>6. \E m \in 0..n : Avail' = Avail + m
      BY <3>4, <3>5
    <3> QED BY <2>1, <3>6, <1>1, <1>2, BudgetKept DEF IInv
  <2> QED BY <2>3, <2>4
<1> QED BY <1>9, <1>10, <1>11, <1>12, <1>13, <1>14, <1>15, <1>16 DEF IInv

\* A position that nobody follows closes.
LEMMA OrphanByBroker ==
  ASSUME IInv, NEW t \in held, t # Own, NEW pnl \in Results, BrokerClose(t, pnl)
  PROVE  IInv'
<1>1. /\ Shape /\ Gone(t, pnl) /\ Granted(IF pnl > 0 THEN 1 ELSE 0)
      /\ st' = st /\ disk' = disk /\ pc' = pc /\ slips' = slips
  BY DEF IInv, BrokerClose
<1>2. /\ held' = held \ {t} /\ taken' = taken /\ net' = net + pnl /\ net \in Int
      /\ pnl \in Int /\ Worst <= pnl /\ 0 \notin held
  BY <1>1, GoneCounts, HeldFinite DEF Shape
<1>3. Own' = Own /\ (Rebuilds' <=> Rebuilds) /\ (Unheard' <=> Unheard) /\ t # 0
  BY <1>1, <1>2 DEF Own, Rebuilds, Unheard
<1>4. ~Rebuilds => deal' = deal \/ ~Unheard
  <2>1. CASE pc = "boot"
    BY <2>1 DEF Unheard
  <2>2. CASE pc # "boot"
    <3>1. t # st.open /\ ~(pc = "filled" /\ t = taken)
      BY <2>2, <1>1, <1>3 DEF Own, IInv, Kept, Shape
    <3> QED BY <3>1, <1>1 DEF Gone
  <2> QED BY <2>1, <2>2
<1>5. /\ Rebuilds => Fails' = streak' /\ Purse = net /\ Purse' = net'
      /\ ~Rebuilds => Fails' = Fails /\ Purse' = Purse
  BY <1>1, <1>3, <1>4 DEF Fails, Purse
<1>6. Entries' = Entries /\ (Blocked' <=> Blocked)
  BY <1>1, <1>2, <1>3, <1>5 DEF Entries, Blocked
<1>7. Shape'
  <2>1. credit' \in Nat /\ credit' <= MaxEntries
    BY <1>1, GrantedBounds
  <2> QED BY <2>1, <1>1, ShapeGone DEF Shape
<1>8. Kept'
  BY <1>1, <1>2 DEF IInv, Kept
<1>9. /\ Streaks' /\ Cardinality(Orphans') = Cardinality(Orphans) - 1
      /\ Cardinality(Orphans) \in Nat
  <2>1. Fails' = Fails \/ (Rebuilds' /\ Fails' = streak')
    BY <1>3, <1>5
  <2>2. Own' = Own /\ slips' = slips /\ (Blocked' <=> Blocked)
    BY <1>1, <1>3, <1>6
  <2>3. Shape /\ Streaks /\ Gone(t, pnl)
    BY <1>1 DEF IInv
  <2> QED BY <2>1, <2>2, <2>3, OrphanCloses
<1>10. Spared'
  <2>1. Cardinality(Orphans) - 1 <= slips /\ slips \in Nat
    BY <1>1, <1>9 DEF IInv, Spared, Shape
  <2> QED BY <2>1, <1>1, <1>9 DEF Spared
<1>11. Counted'
  BY <1>1, <1>2, <1>6 DEF IInv, Counted
<1>12. Funds'
  <2> DEFINE o == Cardinality(Orphans) * Worst
             left == o - Worst
             sum == net + pnl
  <2>1. o \in Int
    BY <1>9, CountedMoney
  <2>2. net - Purse + o >= slips * Worth /\ Purse \in Int /\ slips * Worth \in Int
    BY <1>1, Types, Products DEF IInv, Funds
  <2>3. net' = sum /\ Cardinality(Orphans') * Worst = left
    BY <1>2, <1>9, CountedMoney
  <2>4. CASE Rebuilds
    <3>1. net - net + left >= slips * Worth
      BY <2>1, <2>2, <2>4, <1>2, <1>5, WorstIsWorst
    <3>2. sum - sum + left >= slips * Worth
      BY <2>1, <3>1, <1>2, WorstIsWorst
    <3> HIDE DEF left, sum
    <3>3. net' - Purse' + Cardinality(Orphans') * Worst = sum - sum + left
      BY <2>3, <2>4, <1>5
    <3> QED BY <3>2, <3>3, <1>1 DEF Funds
  <2>5. CASE ~Rebuilds
    <3>1. sum - Purse + left >= slips * Worth
      BY <2>1, <2>2, <1>2, WorstIsWorst
    <3> HIDE DEF left, sum
    <3>2. net' - Purse' + Cardinality(Orphans') * Worst = sum - Purse + left
      BY <2>3, <2>5, <1>5
    <3> QED BY <3>1, <3>2, <1>1 DEF Funds
  <2> QED BY <2>4, <2>5
<1>13. Funded' /\ Stored'
  BY <1>1, HeldCloses, StoredCloses DEF IInv
<1>14. Budgeted'
  <2> DEFINE n == IF pnl > 0 THEN 1 ELSE 0
  <2>1. n \in Nat /\ (credit' = MaxEntries \/ (credit' = credit + n /\ credit # MaxEntries))
    BY <1>1, GrantedBounds
  <2>2. Window' = Window /\ Trades' = Trades
    BY <1>1, <1>3 DEF Window, Trades
  <2>3. Extended' <=> Extended
    BY <1>1, <1>3, <1>4 DEF Extended
  <2>4. Avail' = Avail
    BY <2>2, <2>3 DEF Avail, Left
  <2>5. Avail' = Avail + 0 /\ 0 \in 0..n
    BY <2>1, <2>4, <1>1, Types
  <2> HIDE DEF n
  <2> QED BY <2>1, <2>5, <1>1, <1>2, BudgetKept DEF IInv
<1> QED BY <1>7, <1>8, <1>9, <1>10, <1>11, <1>12, <1>13, <1>14 DEF IInv

-----------------------------------------------------------------------------
(* The driver's steps.                                                     *)

\* A record that is cleared after a close that was found, at most with the window
\* told of it.
LEMMA ToldFlat ==
  ASSUME Shape, Kept, pc = "idle", st.open # 0, st.open \notin held, NEW t \in Record,
         t.anchored = st.anchored, t.trades = st.trades,
         t.run = st.run \/ (t.run <= st.run + 1 /\ (deal <= 0 => t.run = 0))
  PROVE  LET s == [t EXCEPT !.open = 0]
         IN  /\ s \in Record /\ s.open = 0 /\ WellRun(s)
             /\ Room(s) <= Avail + 1
             /\ t.run <= st.run + 1 /\ (deal <= 0 => t.run = 0) => Room(s) <= Avail
<1> DEFINE s == [t EXCEPT !.open = 0]
<1>1. /\ s \in Record /\ s.open = 0 /\ s.anchored = st.anchored /\ s.trades = st.trades
      /\ s.run = t.run
  BY FlatFields
<1>2. st \in Record /\ st.trades \in Nat /\ st.run \in Nat /\ t.run \in Nat
  BY Fields DEF Shape
<1>3. st.run + 1 <= st.trades /\ (st.anchored \/ st.trades = 0)
  BY DEF Kept, WellRun
<1>4. WellRun(s)
  <2> HIDE DEF s
  <2> QED BY <1>1, <1>2, <1>3 DEF WellRun
<1>5. Unheard /\ Trades = st.trades /\ Window = st /\ ~Rebuilds
  BY AtIdle
<1>6. Extended <=> deal > 0
  BY <1>5 DEF Extended
<1> DEFINE base == IF st.trades < Base THEN Base - st.trades ELSE 0
<1>7. base \in Nat
  BY <1>2, Settings
<1>8. /\ Avail = IF st.anchored THEN base + (IF deal > 0 THEN 1 ELSE 0) ELSE 0
      /\ Room(s) = IF st.anchored THEN base + (IF t.run >= Need THEN 1 ELSE 0) ELSE 0
  BY <1>1, <1>5, <1>6 DEF Avail, Left, Room
<1>9. deal \in Int
  BY Types
<1> HIDE DEF base, s
<1>10. Room(s) <= Avail + 1
  BY <1>7, <1>8, Settings
<1>11. t.run <= st.run + 1 /\ (deal <= 0 => t.run = 0) => Room(s) <= Avail
  BY <1>2, <1>7, <1>8, <1>9, Settings
<1> QED BY <1>1, <1>4, <1>10, <1>11 DEF s

\* A result that is booked as nothing (detect_close without a deal).
LEMMA LatchedSlip ==
  ASSUME IInv, pc = "idle", pc' = "idle", st.open # 0, UNCHANGED broker,
         Slip, Saved([Latched(st) EXCEPT !.open = 0]), credit' = credit
  PROVE  IInv'
<1> DEFINE t == Latched(st)
           s == [t EXCEPT !.open = 0]
<1>1. Shape /\ st \in Record /\ credit \in Nat /\ credit <= MaxEntries
  BY DEF IInv, Shape
<1>2. /\ t \in Record /\ t.anchored = st.anchored /\ t.entries = st.entries /\ t.pnl = st.pnl
      /\ t.trades = st.trades /\ t.run = st.run
  BY <1>1, LatchedFields
<1> HIDE DEF t
<1>3. /\ s \in Record /\ s.open = 0 /\ s.anchored = t.anchored /\ s.entries = t.entries
      /\ s.pnl = t.pnl /\ s.trades = t.trades /\ s.run = t.run
  BY <1>2, FlatFields
<1>4. Saved(s) /\ slips' = slips + 1
  BY DEF s, t, Slip
<1>5. credit' \in Nat /\ credit <= credit' /\ credit' <= MaxEntries
  BY <1>1
<1> HIDE DEF s
<1>6. /\ s.pnl = st.pnl /\ s.entries = st.entries /\ s.anchored = st.anchored
      /\ s.trades = st.trades /\ s.run = st.run
  BY <1>2, <1>3
<1> QED BY <1>3, <1>4, <1>5, <1>6, SlippedFlat

LEMMA NoticeCloseKeeps ==
  ASSUME IInv, NoticeClose
  PROVE  IInv'
<1>1. /\ Shape /\ Kept /\ pc = "idle" /\ pc' = "idle" /\ st.open # 0 /\ st.open \notin held
      /\ UNCHANGED broker /\ credit' = credit
      /\ credit \in Nat /\ credit <= MaxEntries
  BY DEF IInv, NoticeClose, Shape
<1>2. st \in Record /\ deal \in Int
  BY <1>1, Types DEF Shape
<1>3. CASE /\ Saved([Windowed(Closed(st, deal, deal <= 0), deal > 0) EXCEPT !.open = 0])
           /\ UNCHANGED slips
  <2> DEFINE c == Closed(st, deal, deal <= 0)
             t == Windowed(c, deal > 0)
             s == [t EXCEPT !.open = 0]
  <2>1. (deal <= 0) \in BOOLEAN /\ (deal > 0) \in BOOLEAN
    BY <1>2
  <2>2. /\ c \in Record /\ c.anchored = st.anchored /\ c.entries = st.entries
        /\ c.pnl = st.pnl + deal /\ c.fails = (IF deal <= 0 THEN st.fails + 1 ELSE 0)
        /\ c.trades = st.trades /\ c.run = st.run
        /\ c.paused <=> st.paused \/ c.fails >= FailStop
    BY <1>2, ResultFields
  <2> HIDE DEF c
  <2>3. /\ t \in Record /\ t.anchored = c.anchored /\ t.entries = c.entries
        /\ t.pnl = c.pnl /\ t.fails = c.fails /\ t.paused = c.paused /\ t.trades = c.trades
        /\ t.run <= c.run + 1 /\ (~(deal > 0) => t.run = 0)
    BY <2>1, <2>2, WindowedFields
  <2> HIDE DEF t
  <2>4. /\ s.entries = t.entries /\ s.pnl = t.pnl /\ s.fails = t.fails /\ s.paused = t.paused
    BY <2>3, FlatFields
  <2>5. t.run <= st.run + 1 /\ (deal <= 0 => t.run = 0)
    BY <1>2, <2>2, <2>3
  <2>6. s \in Record /\ s.open = 0 /\ WellRun(s) /\ Room(s) <= Avail
    BY <1>1, <2>2, <2>3, <2>5, ToldFlat
  <2> HIDE DEF s
  <2>7. /\ Unheard /\ Entries = st.entries /\ Purse = st.pnl + deal
        /\ Fails = (IF deal <= 0 THEN st.fails + 1 ELSE 0)
        /\ Blocked <=> st.paused \/ Fails >= FailStop
    BY <1>1, AtIdle
  <2>8. s.fails = Fails /\ s.pnl = Purse /\ s.entries = Entries
    BY <2>2, <2>3, <2>4, <2>7
  <2>9. s.paused \/ s.fails >= FailStop <=> Blocked
    BY <2>2, <2>3, <2>4, <2>7, <2>8
  <2>10. credit' = MaxEntries \/ taken + Room(s) <= credit' + slips * Base
    <3>1. Room(s) \in Nat /\ Avail \in Nat /\ taken \in Nat /\ slips * Base \in Nat
      BY <1>1, <2>6, RoomType, Types, Products DEF Shape
    <3> QED BY <1>1, <2>6, <3>1 DEF IInv, Budgeted
  <2>11. Saved(s) /\ UNCHANGED <<broker, slips>>
    BY <1>1, <1>3 DEF s, t, c
  <2>12. credit' \in Nat /\ credit' <= MaxEntries
    BY <1>1
  <2> QED BY <1>1, <2>6, <2>8, <2>9, <2>10, <2>11, <2>12, QuietFlat
<1>4. CASE Slip /\ Saved([Latched(st) EXCEPT !.open = 0])
  BY <1>1, <1>2, <1>4, LatchedSlip
<1> QED BY <1>3, <1>4 DEF NoticeClose

LEMMA MissOpenKeeps ==
  ASSUME IInv, MissOpen
  PROVE  IInv'
<1>1. /\ Shape /\ pc = "idle" /\ pc' = "idle" /\ st.open # 0 /\ UNCHANGED broker
      /\ Slip /\ Saved([Latched(st) EXCEPT !.open = 0]) /\ credit' = credit
  BY HeldFinite DEF IInv, MissOpen
<1> QED BY <1>1, LatchedSlip

\* A record that is saved without a position before or after, with what the budget
\* gains granted.
LEMMA PlainFlat ==
  ASSUME IInv, pc = "idle", pc' = "idle", UNCHANGED <<broker, slips>>, st.open = 0,
         NEW s \in Record, Saved(s), s.open = 0, WellRun(s),
         s.fails = st.fails, s.pnl = st.pnl, s.entries = st.entries, s.paused = st.paused,
         NEW n \in Nat, Granted(n), Room(s) <= Avail + n
  PROVE  IInv'
<1>1. Shape /\ st.open \notin held
  BY HeldFinite DEF IInv
<1>2. /\ ~Unheard /\ Fails = st.fails /\ Purse = st.pnl /\ Entries = st.entries
      /\ Blocked <=> st.paused \/ Fails >= FailStop
  BY <1>1, AtIdle
<1>3. /\ credit' \in Nat /\ credit' <= MaxEntries
      /\ credit' = MaxEntries \/ (credit' = credit + n /\ credit # MaxEntries)
  BY <1>1, GrantedBounds
<1>4. credit' = MaxEntries \/ taken + Room(s) <= credit' + slips * Base
  <2>1. Room(s) \in Nat /\ Avail \in Nat /\ taken \in Nat /\ slips * Base \in Nat /\ credit \in Nat
    BY <1>1, RoomType, Types, Products DEF Shape
  <2>2. credit = MaxEntries \/ taken + Avail <= credit + slips * Base
    BY DEF IInv, Budgeted
  <2>3. CASE credit' = credit + n /\ credit # MaxEntries
    <3>1. taken + Room(s) <= (credit + n) + slips * Base
      BY <2>1, <2>2, <2>3
    <3> QED BY <2>3, <3>1
  <2> QED BY <1>3, <2>3
<1>5. s.paused \/ s.fails >= FailStop <=> Blocked
  BY <1>2
<1>6. s.fails = Fails /\ s.pnl = Purse /\ s.entries = Entries
  BY <1>2
<1> QED BY <1>1, <1>3, <1>4, <1>5, <1>6, QuietFlat

\* A new anchor with a budget of its own.
LEMMA ResetFlat ==
  ASSUME IInv, pc = "idle", pc' = "idle", UNCHANGED <<broker, slips>>, st.open = 0,
         NEW s \in {Reset(st), Reseeded(st)}, Saved(s), s.anchored, Granted(Base)
  PROVE  IInv'
<1>1. st \in Record /\ Shape
  BY DEF IInv, Shape
<1>2. /\ s \in Record /\ s.open = 0 /\ s.trades = 0 /\ s.run = 0
      /\ s.fails = st.fails /\ s.pnl = st.pnl /\ s.entries = st.entries /\ s.paused = st.paused
  BY <1>1, ResetFields
<1>3. WellRun(s)
  BY <1>2 DEF WellRun
<1>4. Room(s) <= Avail + Base /\ Base \in Nat
  <2>1. Room(s) = Base /\ Avail \in Nat /\ Base \in Nat
    BY <1>1, <1>2, RoomType, Types, Settings
  <2> QED BY <2>1
<1> QED BY <1>2, <1>3, <1>4, PlainFlat

LEMMA SeedKeeps ==
  ASSUME IInv, Seed
  PROVE  IInv'
<1> DEFINE s == [st EXCEPT !.anchored = TRUE]
<1>1. /\ pc = "idle" /\ pc' = "idle" /\ UNCHANGED <<broker, slips>> /\ st.open = 0
      /\ ~st.anchored /\ Saved(s) /\ Granted(Base)
  BY DEF Seed
<1>2. Shape /\ st \in Record /\ st.trades \in Nat /\ st.run \in Nat
  BY Fields DEF IInv, Shape
<1>3. st.trades = 0 /\ st.run = 0
  BY <1>1, <1>2 DEF IInv, Kept, WellRun
<1>4. /\ s \in Record /\ s.open = 0 /\ s.anchored = TRUE /\ s.trades = 0 /\ s.run = 0
      /\ s.fails = st.fails /\ s.pnl = st.pnl /\ s.entries = st.entries /\ s.paused = st.paused
  BY <1>1, <1>2, <1>3 DEF Record
<1> HIDE DEF s
<1>5. WellRun(s)
  BY <1>4 DEF WellRun
<1>6. Room(s) <= Avail + Base /\ Base \in Nat
  <2>1. Room(s) = Base /\ Avail \in Nat /\ Base \in Nat
    BY <1>2, <1>4, RoomType, Types, Settings
  <2> QED BY <2>1
<1> QED BY <1>1, <1>4, <1>5, <1>6, PlainFlat

LEMMA StartGapKeeps ==
  ASSUME IInv, StartGap
  PROVE  IInv'
<1> DEFINE s == [st EXCEPT !.gap = TRUE]
<1>1. /\ pc = "idle" /\ pc' = "idle" /\ UNCHANGED <<broker, slips>> /\ st.open = 0
      /\ Saved(s) /\ credit' = credit
  BY DEF StartGap, Hunting
<1>2. Shape /\ st \in Record /\ credit \in Nat /\ credit <= MaxEntries
  BY DEF IInv, Shape
<1>3. /\ s \in Record /\ s.open = st.open /\ s.anchored = st.anchored
      /\ s.trades = st.trades /\ s.run = st.run
      /\ s.fails = st.fails /\ s.pnl = st.pnl /\ s.entries = st.entries /\ s.paused = st.paused
  BY <1>2 DEF Record
<1> HIDE DEF s
<1>4. WellRun(s)
  BY <1>3 DEF WellRun, IInv, Kept
<1>5. Room(s) = Room(st) /\ Avail = Room(st) /\ Room(st) \in Nat
  BY <1>1, <1>2, <1>3, AvailFlat, RoomType DEF Room
<1>6. Granted(0)
  BY <1>1, <1>2, Settings DEF Granted
<1>7. Room(s) <= Avail + 0 /\ 0 \in Nat
  BY <1>5
<1> QED BY <1>1, <1>3, <1>4, <1>6, <1>7, PlainFlat

LEMMA PlantFreshKeeps ==
  ASSUME IInv, PlantFresh
  PROVE  IInv'
<1>1. /\ pc = "idle" /\ pc' = "idle" /\ UNCHANGED <<broker, slips>> /\ st.open = 0
      /\ Saved(Reset(st)) /\ Granted(Base) /\ st.anchored
  BY DEF PlantFresh, Hunting
<1>2. st \in Record
  BY DEF IInv, Shape
<1>3. Reset(st).anchored
  BY <1>1, <1>2, ResetFields
<1> QED BY <1>1, <1>3, ResetFlat

LEMMA ManualSeedKeeps ==
  ASSUME IInv, ManualSeed
  PROVE  IInv'
<1>1. /\ pc = "idle" /\ pc' = "idle" /\ UNCHANGED <<broker, slips>> /\ st.open = 0
      /\ Saved(Reseeded(st)) /\ Granted(Base)
  BY DEF ManualSeed
<1>2. st \in Record
  BY DEF IInv, Shape
<1>3. Reseeded(st).anchored
  BY <1>2, ResetFields
<1> QED BY <1>1, <1>3, ResetFlat

\* A flatten that closes the position: its result is known, or counts as a fail.
LEMMA FlattenCloses ==
  ASSUME IInv, pc = "idle", pc' = "idle", st.open \in held, NEW pnl \in Results,
         Gone(st.open, pnl), Granted(1),
         \/ Saved([Closed(st, pnl, pnl <= 0) EXCEPT !.open = 0]) /\ slips' = slips
         \/ Saved([Closed(st, 0, TRUE) EXCEPT !.open = 0]) /\ Slip
  PROVE  IInv'
<1>1. Shape /\ st \in Record /\ pnl \in Int /\ pnl # 0
  BY WorstIsWorst DEF IInv, Shape
<1>2. /\ credit' \in Nat /\ credit' <= MaxEntries
      /\ credit' = MaxEntries \/ credit' = credit + 1
  BY <1>1, GrantedBounds
<1>3. CASE Saved([Closed(st, pnl, pnl <= 0) EXCEPT !.open = 0]) /\ slips' = slips
  <2> DEFINE c == Closed(st, pnl, pnl <= 0)
             s == [c EXCEPT !.open = 0]
  <2>1. /\ c \in Record /\ c.anchored = st.anchored /\ c.entries = st.entries
        /\ c.pnl = st.pnl + pnl /\ c.fails = (IF pnl <= 0 THEN st.fails + 1 ELSE 0)
        /\ c.trades = st.trades /\ c.run = st.run
    BY <1>1, ResultFields
  <2> HIDE DEF c
  <2>2. /\ s \in Record /\ s.open = 0 /\ s.anchored = c.anchored /\ s.entries = c.entries
        /\ s.pnl = c.pnl /\ s.fails = c.fails /\ s.trades = c.trades /\ s.run = c.run
    BY <2>1, FlatFields
  <2>3. Saved(s)
    BY <1>3 DEF s, c
  <2> HIDE DEF s
  <2>4. /\ s.entries = st.entries /\ s.anchored = st.anchored /\ s.trades = st.trades
        /\ s.run = st.run /\ s.pnl = st.pnl + pnl /\ (pnl < 0 => s.fails = st.fails + 1)
    BY <1>1, <2>1, <2>2
  <2> QED BY <1>2, <1>3, <2>2, <2>3, <2>4, GoneFlat
<1>4. CASE Saved([Closed(st, 0, TRUE) EXCEPT !.open = 0]) /\ Slip
  <2> DEFINE c == Closed(st, 0, TRUE)
             s == [c EXCEPT !.open = 0]
  <2>1. /\ c \in Record /\ c.anchored = st.anchored /\ c.entries = st.entries
        /\ c.pnl = st.pnl /\ c.fails = st.fails + 1
        /\ c.trades = st.trades /\ c.run = st.run
    BY <1>1, UnknownFields
  <2> HIDE DEF c
  <2>2. /\ s \in Record /\ s.open = 0 /\ s.anchored = c.anchored /\ s.entries = c.entries
        /\ s.pnl = c.pnl /\ s.fails = c.fails /\ s.trades = c.trades /\ s.run = c.run
    BY <2>1, FlatFields
  <2>3. Saved(s) /\ slips' = slips + 1
    BY <1>4 DEF s, c, Slip
  <2> HIDE DEF s
  <2>4. /\ s.entries = st.entries /\ s.anchored = st.anchored /\ s.trades = st.trades
        /\ s.run = st.run /\ s.pnl = st.pnl /\ s.fails = st.fails + 1
    BY <1>1, <2>1, <2>2, Fields
  <2> QED BY <1>2, <2>2, <2>3, <2>4, GoneFlat
<1> QED BY <1>3, <1>4

LEMMA FlattenKeeps ==
  ASSUME IInv, Flatten
  PROVE  IInv'
<1>1. /\ Shape /\ Kept /\ st \in Record /\ pc = "idle" /\ pc' = "idle" /\ st.open # 0
      /\ Granted(1)
  BY DEF IInv, Shape, Flatten
<1>2. /\ credit' \in Nat /\ credit' <= MaxEntries /\ credit <= credit'
      /\ credit' = MaxEntries \/ (credit' = credit + 1 /\ credit # MaxEntries)
  BY <1>1, GrantedBounds
<1>3. CASE /\ st.open \in held
           /\ \E pnl \in Results :
                /\ Gone(st.open, pnl)
                /\ \/ Saved([Closed(st, pnl, pnl <= 0) EXCEPT !.open = 0]) /\ UNCHANGED slips
                   \/ Saved([Closed(st, 0, TRUE) EXCEPT !.open = 0]) /\ Slip
  <2>1. PICK pnl \in Results :
          /\ Gone(st.open, pnl)
          /\ \/ Saved([Closed(st, pnl, pnl <= 0) EXCEPT !.open = 0]) /\ slips' = slips
             \/ Saved([Closed(st, 0, TRUE) EXCEPT !.open = 0]) /\ Slip
    BY <1>3
  <2> QED BY <1>1, <1>3, <2>1, FlattenCloses
<1>4. CASE /\ Saved([Closed(st, 0, TRUE) EXCEPT !.open = 0])
           /\ Slip /\ UNCHANGED broker
  <2> DEFINE c == Closed(st, 0, TRUE)
             s == [c EXCEPT !.open = 0]
  <2>1. /\ c \in Record /\ c.anchored = st.anchored /\ c.entries = st.entries
        /\ c.pnl = st.pnl /\ c.trades = st.trades /\ c.run = st.run
    BY <1>1, UnknownFields
  <2> HIDE DEF c
  <2>2. /\ s \in Record /\ s.open = 0 /\ s.anchored = c.anchored /\ s.entries = c.entries
        /\ s.pnl = c.pnl /\ s.trades = c.trades /\ s.run = c.run
    BY <2>1, FlatFields
  <2>3. Saved(s) /\ slips' = slips + 1 /\ UNCHANGED broker
    BY <1>4 DEF s, c, Slip
  <2> HIDE DEF s
  <2>4. /\ s.entries = st.entries /\ s.anchored = st.anchored /\ s.trades = st.trades
        /\ s.run = st.run /\ s.pnl = st.pnl
    BY <1>1, <2>1, <2>2, Fields
  <2> QED BY <1>1, <1>2, <2>2, <2>3, <2>4, SlippedFlat
<1>5. CASE /\ st.open \notin held
           /\ Saved([Closed(st, deal, deal <= 0) EXCEPT !.open = 0])
           /\ UNCHANGED <<broker, slips>>
  <2> DEFINE c == Closed(st, deal, deal <= 0)
             s == [c EXCEPT !.open = 0]
  <2>0. deal \in Int
    BY <1>1, Types
  <2>1. /\ c \in Record /\ c.anchored = st.anchored /\ c.entries = st.entries
        /\ c.pnl = st.pnl + deal /\ c.fails = (IF deal <= 0 THEN st.fails + 1 ELSE 0)
        /\ c.trades = st.trades /\ c.run = st.run
        /\ c.paused <=> st.paused \/ c.fails >= FailStop
    BY <1>1, <2>0, ResultFields
  <2>2. Saved(s)
    BY <1>5
  <2> HIDE DEF c
  <2>3. /\ s.entries = c.entries /\ s.pnl = c.pnl /\ s.fails = c.fails /\ s.paused = c.paused
    BY <2>1, FlatFields
  <2>4. s \in Record /\ s.open = 0 /\ WellRun(s) /\ Room(s) <= Avail + 1
    BY <1>1, <1>5, <2>1, ToldFlat
  <2> HIDE DEF s
  <2>5. /\ Entries = st.entries /\ Purse = st.pnl + deal
        /\ Fails = (IF deal <= 0 THEN st.fails + 1 ELSE 0)
        /\ Blocked <=> st.paused \/ Fails >= FailStop
    BY <1>1, <1>5, AtIdle
  <2>6. s.fails = Fails /\ s.pnl = Purse /\ s.entries = Entries
    BY <2>1, <2>3, <2>5
  <2>7. s.paused \/ s.fails >= FailStop <=> Blocked
    BY <2>1, <2>3, <2>5, <2>6
  <2>8. credit' = MaxEntries \/ taken + Room(s) <= credit' + slips * Base
    <3>1. /\ Room(s) \in Nat /\ Avail \in Nat /\ taken \in Nat /\ slips * Base \in Nat
          /\ credit \in Nat
      BY <1>1, <2>4, RoomType, Types, Products DEF Shape
    <3> QED BY <1>2, <2>4, <3>1 DEF IInv, Budgeted
  <2> QED BY <1>1, <1>2, <1>5, <2>2, <2>4, <2>6, <2>7, <2>8, QuietFlat
<1> QED BY <1>3, <1>4, <1>5 DEF Flatten

\* The driver moves on, or time passes: the invariant counts nothing new.
LEMMA NothingNew ==
  ASSUME IInv, UNCHANGED <<broker, st, disk, credit, slips>>,
         pc' = pc \/ {pc, pc'} \subseteq {"idle", "sending"}, Kept'
  PROVE  IInv'
<1>1. /\ held' = held /\ taken' = taken /\ net' = net /\ streak' = streak /\ deal' = deal
      /\ losses' = losses /\ st' = st /\ disk' = disk /\ credit' = credit /\ slips' = slips
  BY DEF broker
<1>2. /\ pc' = "boot" <=> pc = "boot"
      /\ pc' = "filled" <=> pc = "filled"
  OBVIOUS
<1>3. Own' = Own /\ (Rebuilds' <=> Rebuilds)
  BY <1>1, <1>2 DEF Own, Rebuilds
<1>4. Orphans' = Orphans /\ (Unheard' <=> Unheard)
  BY <1>1, <1>2, <1>3 DEF Orphans, Unheard
<1>5. Fails' = Fails /\ Purse' = Purse /\ Entries' = Entries
  BY <1>1, <1>2, <1>3, <1>4 DEF Fails, Purse, Entries
<1>6. Blocked' <=> Blocked
  BY <1>1, <1>3, <1>5 DEF Blocked
<1>7. Window' = Window /\ Trades' = Trades
  BY <1>1, <1>2, <1>3 DEF Window, Trades
<1>8. Extended' <=> Extended
  BY <1>1, <1>3, <1>4 DEF Extended
<1>9. Avail' = Avail
  BY <1>7, <1>8 DEF Avail, Left
<1>10. Ahead' = Ahead /\ Due' = Due
  BY <1>1, <1>3, <1>5, <1>6 DEF Ahead, Due
<1>11. Shape'
  BY <1>1 DEF IInv, Shape
<1>12. Spared' /\ Streaks'
  BY <1>1, <1>4, <1>10 DEF IInv, Spared, Streaks
<1>13. Counted' /\ Funds' /\ Funded'
  BY <1>1, <1>4, <1>5 DEF IInv, Counted, Funds, Funded
<1>14. Stored'
  BY <1>1, <1>2 DEF IInv, Stored
<1>15. Budgeted'
  BY <1>1, <1>9 DEF IInv, Budgeted
<1> QED BY <1>11, <1>12, <1>13, <1>14, <1>15 DEF IInv

LEMMA EnterKeeps ==
  ASSUME IInv, Enter
  PROVE  IInv'
<1>1. /\ UNCHANGED <<broker, st, disk, credit, slips>> /\ pc = "idle" /\ pc' = "sending"
      /\ st.open = 0 /\ st.anchored /\ CanEnter(st) /\ CanTrade(st)
  BY DEF Enter, Hunting
<1>2. Kept'
  BY <1>1 DEF IInv, Kept, WellRun, Blank, CanEnter, CanTrade, broker
<1> QED BY <1>1, <1>2, NothingNew

LEMMA TimeKeeps ==
  ASSUME IInv, UNCHANGED <<broker, st, disk, pc, credit, slips>>
  PROVE  IInv'
<1>1. Kept'
  BY DEF IInv, Kept, WellRun, Blank, CanEnter, CanTrade, broker
<1> QED BY <1>1, NothingNew

\* What an order that is being sent knows.
LEMMA AtSending ==
  ASSUME Shape, Kept, pc = "sending"
  PROVE  /\ st \in Record /\ st.open = 0 /\ st.anchored /\ ~st.paused /\ st.fails < FailStop
         /\ st.entries < Cap /\ st.pnl > -LossStop /\ (st.trades < Base \/ st.run >= Need)
         /\ ~Rebuilds /\ ~Unheard /\ Own = 0 /\ Orphans = held
         /\ Fails = st.fails /\ Purse = st.pnl /\ Entries = st.entries
         /\ ~Blocked /\ Due = 0 /\ Avail = Room(st) /\ st.pnl \in Int /\ st.fails \in Nat
<1>1. st \in Record /\ 0 \notin held
  BY HeldFinite DEF Shape
<1>2. st.pnl \in Int /\ st.fails \in Nat
  BY <1>1, Fields
<1>3. st.open = 0 /\ st.anchored /\ CanEnter(st) /\ CanTrade(st)
  BY DEF Kept
<1>4. /\ ~st.paused /\ st.fails < FailStop /\ st.entries < Cap /\ st.pnl > -LossStop
      /\ st.trades < Base \/ st.run >= Need
  BY <1>3 DEF CanEnter, CanTrade
<1>5. /\ ~Rebuilds /\ Own = 0 /\ ~Unheard /\ Fails = st.fails /\ Purse = st.pnl
      /\ Entries = st.entries /\ Avail = Room(st)
      /\ Blocked <=> st.paused \/ Fails >= FailStop
  BY <1>3, AtIdle, AvailFlat
<1>6. ~Blocked
  BY <1>2, <1>4, <1>5, Settings
<1>7. Due = 0
  BY <1>6 DEF Due
<1>8. Orphans = held
  BY <1>1, <1>5 DEF Orphans
<1> QED BY <1>1, <1>2, <1>3, <1>4, <1>5, <1>6, <1>7, <1>8

\* The broker has one position more.
LEMMA FilledCounts ==
  ASSUME Shape, Filled
  PROVE  /\ taken' = taken + 1 /\ held' = held \union {taken'} /\ taken' \notin held /\ taken' # 0
         /\ net' = net /\ streak' = streak /\ deal' = deal /\ losses' = losses
         /\ Cardinality(held') = Cardinality(held) + 1 /\ Cardinality(held) \in Nat
         /\ Cardinality(held') * Worst = Cardinality(held) * Worst + Worst
         /\ Cardinality(held) * Worst \in Int
         /\ held' \subseteq 1..taken' /\ taken' \in Nat /\ taken' <= MaxEntries /\ taken < taken'
         /\ 0 \notin held' /\ IsFiniteSet(held')
<1>1. /\ taken' = taken + 1 /\ held' = held \union {taken + 1} /\ taken < MaxEntries
      /\ net' = net /\ streak' = streak /\ deal' = deal /\ losses' = losses
  BY DEF Filled
<1>2. taken \in Nat /\ held \subseteq 1..taken /\ MaxEntries \in Nat
  BY Settings DEF Shape
<1>3. IsFiniteSet(held) /\ taken + 1 \notin held /\ 0 \notin held
  BY HeldFinite
<1>4. /\ IsFiniteSet(held') /\ Cardinality(held') = Cardinality(held) + 1
      /\ Cardinality(held) \in Nat
  BY <1>1, <1>3, FS_AddElement, FS_CardinalityType
<1>5. held' \subseteq 1..taken'
  BY <1>1, <1>2
<1>6. /\ (Cardinality(held) + 1) * Worst = Cardinality(held) * Worst + Worst
      /\ Cardinality(held) * Worst \in Int
  BY <1>4, CountedMoney
<1> QED BY <1>1, <1>2, <1>3, <1>4, <1>5, <1>6

\* Money in the file: the position that is being marked, or that was lost, may
\* close at the worst.
LEMMA StoredFills ==
  ASSUME Shape, Kept, Stored, Filled, pc = "sending", disk' = disk,
         (pc' = "filled" /\ slips' = slips) \/ (pc' = "sending" /\ slips' = slips + 1)
  PROVE  Stored'
<1> SUFFICES ASSUME disk # NoBlock PROVE Stored'
  BY DEF Stored
<1>1. /\ taken' = taken + 1 /\ held' = held \union {taken'} /\ taken' \notin held /\ taken' # 0
      /\ net' = net /\ net \in Int /\ taken < taken' /\ 0 \notin held' /\ taken \in Nat
  BY FilledCounts DEF Shape
<1>2. disk \in Record /\ disk.pnl \in Int /\ disk.open \in Nat /\ disk.open <= taken
  BY Fields DEF Shape, Kept
<1>3. /\ held' \ {disk.open} = (held \ {disk.open}) \union {taken'}
      /\ taken' \notin held \ {disk.open}
      /\ disk.open \notin held' \union {0} <=> disk.open \notin held \union {0}
  BY <1>1, <1>2
<1>4. IsFiniteSet(held \ {disk.open}) /\ Cardinality(held \ {disk.open}) \in Nat
  BY HeldFinite, Less
<1> DEFINE n == Cardinality(held \ {disk.open})
           gone == IF disk.open \notin held \union {0} THEN Worst ELSE 0
<1>5. Cardinality(held' \ {disk.open}) = n + 1
  <2>1. Cardinality((held \ {disk.open}) \union {taken'}) = Cardinality(held \ {disk.open}) + 1
    BY <1>3, <1>4, FS_AddElement
  <2> QED BY <2>1, <1>3
<1>6. n * Worst \in Int /\ (n + 1) * Worst = n * Worst + Worst /\ n \in Nat
  BY <1>4, CountedMoney
<1>7. gone \in Int /\ slips * Worth \in Int /\ Worst \in Int /\ Worth <= Worst /\ Worth \in Int
  BY WorstIsWorst, Products
<1>8. net - disk.pnl + n * Worst >= slips * Worth + gone
  BY <1>7 DEF Stored
<1> HIDE DEF n
<1>9. /\ net' - disk'.pnl + Cardinality(held' \ {disk'.open}) * Worst
           = net - disk.pnl + (n * Worst + Worst)
      /\ gone = IF disk'.open \notin held' \union {0} THEN Worst ELSE 0
  BY <1>1, <1>3, <1>5, <1>6
<1> HIDE DEF gone
<1>10. net - disk.pnl + (n * Worst + Worst) >= slips * Worth + gone + Worst
  BY <1>1, <1>2, <1>6, <1>7, <1>8
<1>11. CASE pc' = "filled" /\ slips' = slips
  BY <1>9, <1>10, <1>11 DEF Stored
<1>12. CASE pc' = "sending" /\ slips' = slips + 1
  <2>1. net - disk.pnl + (n * Worst + Worst) >= (slips * Worth + Worth) + gone + 0
    BY <1>1, <1>2, <1>6, <1>7, <1>10
  <2>2. slips' * Worth = slips * Worth + Worth
    BY <1>12, Products
  <2> QED BY <1>9, <1>12, <2>1, <2>2 DEF Stored
<1> QED BY <1>11, <1>12

\* The order is filled, and the driver has the ticket.
LEMMA FillKeeps ==
  ASSUME IInv, pc = "sending", Filled, pc' = "filled", UNCHANGED <<st, disk, credit, slips>>
  PROVE  IInv'
<1>1. /\ Shape /\ Kept /\ slips' = slips /\ st' = st /\ disk' = disk /\ credit' = credit
      /\ slips \in Nat /\ net \in Int
  BY DEF IInv, Shape
<1>2. /\ taken' = taken + 1 /\ held' = held \union {taken'} /\ taken' \notin held /\ taken' # 0
      /\ net' = net /\ streak' = streak /\ deal' = deal /\ losses' = losses
      /\ Cardinality(held') = Cardinality(held) + 1 /\ Cardinality(held) \in Nat
      /\ Cardinality(held') * Worst = Cardinality(held) * Worst + Worst
      /\ Cardinality(held) * Worst \in Int
      /\ held' \subseteq 1..taken' /\ taken' \in Nat /\ taken' <= MaxEntries /\ taken < taken'
      /\ taken \in Nat
  BY <1>1, FilledCounts DEF Shape
<1>3. /\ st \in Record /\ st.open = 0 /\ st.anchored /\ ~st.paused /\ st.fails < FailStop
      /\ st.entries < Cap /\ st.pnl > -LossStop /\ (st.trades < Base \/ st.run >= Need)
      /\ ~Rebuilds /\ ~Unheard /\ Own = 0 /\ Orphans = held
      /\ Fails = st.fails /\ Purse = st.pnl /\ Entries = st.entries
      /\ Due = 0 /\ Avail = Room(st) /\ st.pnl \in Int /\ st.fails \in Nat
  BY <1>1, AtSending
<1>4. Own' = taken' /\ ~Rebuilds' /\ Own' \in held' /\ Orphans' = held
  BY <1>2 DEF Own, Rebuilds, Orphans
<1>5. ~Unheard' /\ Due' = 0
  BY <1>4 DEF Unheard, Due
<1>6. Fails' = Fails /\ Purse' = Purse /\ Entries' = Entries + 1
  BY <1>1, <1>3, <1>4, <1>5 DEF Fails, Purse, Entries
<1>7. Shape'
  BY <1>1, <1>2 DEF Shape
<1>8. Kept'
  <2>1. disk.open # taken' /\ st.open <= taken' /\ disk.open <= taken'
    <3>1. disk.open \in Int
      BY <1>1, Fields, Beginnings DEF Shape
    <3>2. disk.open <= taken
      BY <1>1 DEF Kept
    <3> QED BY <1>2, <1>3, <3>1, <3>2
  <2>2. WellRun(st) /\ (disk # NoBlock => WellRun(disk)) /\ CanEnter(st) /\ CanTrade(st)
    BY <1>1 DEF Kept
  <2>3. disk = NoBlock => Blank(st)
    BY <1>1 DEF Kept
  <2>4. disk # NoBlock =>
          /\ st.open \in {0, disk.open}
          /\ st.anchored = disk.anchored /\ st.trades = disk.trades /\ st.run = disk.run
    BY <1>1 DEF Kept
  <2>5. WellRun(st)' /\ (disk # NoBlock => WellRun(disk)') /\ CanEnter(st)' /\ CanTrade(st)'
    BY <2>2, <1>1 DEF WellRun, CanEnter, CanTrade
  <2> QED BY <2>1, <2>3, <2>4, <2>5, <1>1, <1>2, <1>3 DEF Kept
<1>9. Spared'
  BY <1>1, <1>3, <1>4 DEF IInv, Spared
<1>10. Streaks'
  <2>1. Ahead' = Ahead
    BY <1>2, <1>6 DEF Ahead
  <2>2. Orphans' = Orphans /\ Due' = Due
    BY <1>3, <1>4, <1>5
  <2> QED BY <2>1, <2>2, <1>1, <1>2 DEF IInv, Streaks
<1>11. Counted'
  <2>1. taken + 1 <= Cap * slips + (st.entries + 1) /\ taken + 1 <= Cap * slips + Cap
    BY <1>1, <1>2, <1>3, Products, Fields, Settings DEF IInv, Counted
  <2> QED BY <2>1, <1>1, <1>2, <1>3, <1>6, Products DEF Counted
<1> DEFINE c == Cardinality(held) * Worst
<1>12. net - st.pnl + c >= slips * Worth /\ slips * Worth \in Int
  BY <1>1, <1>3, Products DEF IInv, Funds
<1>13. Funds'
  <2>1. net' - Purse' + Cardinality(Orphans') * Worst = net - st.pnl + c
    BY <1>2, <1>3, <1>4, <1>6
  <2> HIDE DEF c
  <2> QED BY <2>1, <1>1, <1>12 DEF Funds
<1>14. Funded'
  <2>0. c \in Int
    BY <1>2
  <2>1. net + (c + Worst) >= slips * Worth + Worth
    <3> HIDE DEF c
    <3> QED BY <2>0, <1>1, <1>3, <1>12, WorstIsWorst, Settings DEF Worth
  <2>2. net' + Cardinality(held') * Worst = net + (c + Worst)
    BY <1>2
  <2>3. (1 + slips') * Worth = slips * Worth + Worth
    BY <1>1, Products
  <2> HIDE DEF c
  <2> QED BY <2>1, <2>2, <2>3 DEF Funded
<1>15. Stored'
  BY <1>1, StoredFills DEF IInv
<1>16. Budgeted'
  <2>1. Window' = st /\ Trades' = st.trades + 1 /\ ~Extended'
    BY <1>1, <1>2, <1>4, <1>5 DEF Window, Trades, Extended
  <2>2. Avail' = IF st.trades + 1 < Base THEN Base - (st.trades + 1) ELSE 0
    BY <2>1, <1>3, Settings DEF Avail, Left
  <2>3. st.trades \in Nat /\ slips * Base \in Nat /\ credit \in Nat
    BY <1>1, <1>3, Fields, Products DEF Shape
  <2> DEFINE after == IF st.trades + 1 < Base THEN Base - (st.trades + 1) ELSE 0
  <2>4. after + 1 <= Room(st) /\ after \in Nat /\ Room(st) \in Nat
    <3>1. Room(st) = (IF st.trades < Base THEN Base - st.trades ELSE 0)
                       + (IF st.run >= Need THEN 1 ELSE 0)
      BY <1>3 DEF Room
    <3>2. CASE st.trades < Base
      BY <2>3, <3>1, <3>2, Settings
    <3>3. CASE ~(st.trades < Base)
      <4>1. st.run >= Need
        BY <1>3, <3>3
      <4>2. after = 0 /\ Room(st) = 0 + 1
        BY <2>3, <3>1, <3>3, <4>1, Settings
      <4> QED BY <4>2
    <3> QED BY <3>2, <3>3
  <2> HIDE DEF after
  <2>5. credit = MaxEntries \/ (taken + 1) + after <= credit + slips * Base
    BY <2>3, <2>4, <1>2, <1>3 DEF IInv, Budgeted
  <2>6. Avail' = after
    BY <2>2 DEF after
  <2> QED BY <2>5, <2>6, <1>1, <1>2 DEF Budgeted
<1> QED BY <1>7, <1>8, <1>9, <1>10, <1>11, <1>13, <1>14, <1>15, <1>16 DEF IInv

\* The order is filled, the answer is lost, and it will be sent again.
LEMMA LostFillKeeps ==
  ASSUME IInv, pc = "sending", Filled, Slip, pc' = pc, UNCHANGED <<st, disk, credit>>
  PROVE  IInv'
<1>1. /\ Shape /\ Kept /\ slips' = slips + 1 /\ st' = st /\ disk' = disk /\ credit' = credit
      /\ slips \in Nat /\ net \in Int /\ losses \in Nat
  BY DEF IInv, Shape, Slip
<1>2. /\ taken' = taken + 1 /\ held' = held \union {taken'} /\ taken' \notin held /\ taken' # 0
      /\ net' = net /\ streak' = streak /\ deal' = deal /\ losses' = losses
      /\ Cardinality(held') = Cardinality(held) + 1 /\ Cardinality(held) \in Nat
      /\ Cardinality(held') * Worst = Cardinality(held) * Worst + Worst
      /\ Cardinality(held) * Worst \in Int
      /\ held' \subseteq 1..taken' /\ taken' \in Nat /\ taken' <= MaxEntries /\ taken < taken'
      /\ 0 \notin held' /\ taken \in Nat
  BY <1>1, FilledCounts DEF Shape
<1>3. /\ st \in Record /\ st.open = 0 /\ st.pnl > -LossStop
      /\ Own = 0 /\ Orphans = held
      /\ Fails = st.fails /\ Purse = st.pnl /\ Entries = st.entries
      /\ Due = 0 /\ Avail = Room(st) /\ st.pnl \in Int /\ st.fails \in Nat
  BY <1>1, AtSending
<1>4. /\ Own' = 0 /\ ~Rebuilds' /\ Orphans' = held' /\ Trades' = st.trades /\ Window' = st
      /\ Entries' = st.entries
  BY <1>1, <1>2, <1>3 DEF Own, Rebuilds, Orphans, Trades, Window, Entries
<1>5. ~Unheard'
  BY <1>4 DEF Unheard
<1>6. Fails' = Fails /\ Purse' = Purse /\ Entries' = Entries
  BY <1>1, <1>3, <1>4, <1>5 DEF Fails, Purse
<1>7. Shape'
  BY <1>1, <1>2 DEF Shape
<1>8. Kept'
  <2>1. st.open <= taken' /\ disk.open <= taken'
    <3>1. disk.open \in Int
      BY <1>1, Fields, Beginnings DEF Shape
    <3>2. disk.open <= taken
      BY <1>1 DEF Kept
    <3> QED BY <1>2, <1>3, <3>1, <3>2
  <2>2. /\ WellRun(st)' /\ (disk # NoBlock => WellRun(disk)')
        /\ st'.open = 0 /\ st'.anchored /\ CanEnter(st)' /\ CanTrade(st)'
    BY <1>1 DEF Kept, WellRun, Blank, CanEnter, CanTrade
  <2>3. disk = NoBlock => Blank(st)
    BY <1>1 DEF Kept
  <2>4. disk # NoBlock =>
          /\ st.open \in {0, disk.open}
          /\ st.anchored = disk.anchored /\ st.trades = disk.trades /\ st.run = disk.run
    BY <1>1 DEF Kept
  <2>5. pc' # "filled"
    OBVIOUS
  <2> QED BY <2>1, <2>2, <2>3, <2>4, <2>5, <1>1 DEF Kept
<1>9. Spared'
  BY <1>1, <1>2, <1>3, <1>4 DEF IInv, Spared
<1>10. Streaks'
  <2>1. Ahead' = Ahead /\ Ahead \in {0, 1} /\ Due' \in {0, 1}
    BY <1>2, <1>6 DEF Ahead, Due
  <2> QED BY <2>1, <1>1, <1>2, <1>3, <1>4 DEF IInv, Streaks
<1>11. Counted'
  <2>1. st.entries \in Nat
    BY <1>3, Fields
  <2>2. taken + 1 <= (Cap * slips + Cap) + st.entries /\ taken + 1 <= Cap * slips + Cap + Cap
    BY <2>1, <1>1, <1>2, <1>3, Products, Settings DEF IInv, Counted
  <2> QED BY <2>2, <1>1, <1>2, <1>3, <1>6, Products DEF Counted
<1> DEFINE c == Cardinality(held) * Worst
<1>12. net - st.pnl + c >= slips * Worth /\ slips * Worth \in Int /\ c \in Int
  BY <1>1, <1>2, <1>3, Products DEF IInv, Funds
<1>13. net - st.pnl + (c + Worst) >= slips * Worth + Worth
  <2> HIDE DEF c
  <2> QED BY <1>1, <1>3, <1>12, WorstIsWorst
<1>14. net + (c + Worst) >= slips * Worth + Worth + Worth
  <2> HIDE DEF c
  <2> QED BY <1>1, <1>3, <1>12, WorstIsWorst, Settings DEF Worth
<1>15. /\ net' - Purse' + Cardinality(Orphans') * Worst = net - st.pnl + (c + Worst)
       /\ net' + Cardinality(held') * Worst = net + (c + Worst)
  BY <1>2, <1>3, <1>4, <1>6
<1>16. slips' * Worth = slips * Worth + Worth /\ (1 + slips') * Worth = slips * Worth + Worth + Worth
  BY <1>1, Products
<1>17. Funds' /\ Funded'
  <2> HIDE DEF c
  <2> QED BY <1>13, <1>14, <1>15, <1>16 DEF Funds, Funded
<1>18. Stored'
  BY <1>1, StoredFills DEF IInv
<1>19. Budgeted'
  <2>1. Avail' = Room(st)
    BY <1>1, <1>3, <1>4, <1>5 DEF Extended, Avail, Left, Room
  <2>2. /\ Room(st) \in Nat /\ slips * Base \in Nat /\ credit \in Nat
        /\ (slips + 1) * Base = slips * Base + Base
    BY <1>1, <1>3, RoomType, Products DEF Shape
  <2>3. credit = MaxEntries \/ (taken + 1) + Room(st) <= credit + (slips * Base + Base)
    BY <2>2, <1>2, <1>3, Settings DEF IInv, Budgeted
  <2> QED BY <2>1, <2>2, <2>3, <1>1, <1>2 DEF Budgeted
<1> QED BY <1>7, <1>8, <1>9, <1>10, <1>11, <1>17, <1>18, <1>19 DEF IInv

LEMMA SendKeeps ==
  ASSUME IInv, Send
  PROVE  IInv'
<1>1. pc = "sending" /\ UNCHANGED <<st, disk, rest, credit>>
  BY DEF Send
<1>2. CASE Filled /\ pc' = "filled" /\ UNCHANGED slips
  BY <1>1, <1>2, FillKeeps
<1>3. CASE Filled /\ Slip /\ UNCHANGED pc
  BY <1>1, <1>3, LostFillKeeps
<1>4. CASE UNCHANGED <<broker, slips>> /\ pc' = "idle"
  <2>1. Kept'
    BY <1>1, <1>4 DEF IInv, Kept, WellRun, Blank, broker
  <2> QED BY <1>1, <1>4, <2>1, NothingNew
<1> QED BY <1>2, <1>3, <1>4 DEF Send

\* The ticket gets its slot: the invariant knew it already.
LEMMA MarkOpenKeeps ==
  ASSUME IInv, MarkOpen
  PROVE  IInv'
<1> DEFINE s == [st EXCEPT !.open = taken, !.entries = @ + 1, !.trades = @ + 1]
<1>1. /\ Shape /\ Kept /\ pc = "filled" /\ pc' = "idle" /\ st' = s /\ disk' = s
      /\ held' = held /\ taken' = taken /\ net' = net /\ streak' = streak /\ deal' = deal
      /\ losses' = losses /\ credit' = credit /\ slips' = slips
      /\ st \in Record /\ taken \in Nat /\ net \in Int
  BY DEF IInv, Shape, MarkOpen, Saved, broker
<1>2. /\ st.open = 0 /\ st.anchored /\ taken # 0 /\ WellRun(st)
  BY <1>1 DEF Kept
<1>3. /\ s \in Record /\ s.open = taken /\ s.entries = st.entries + 1 /\ s.trades = st.trades + 1
      /\ s.anchored = st.anchored /\ s.run = st.run
      /\ s.fails = st.fails /\ s.pnl = st.pnl /\ s.paused = st.paused
  <2>1. st.entries + 1 \in Nat /\ st.trades + 1 \in Nat
    BY <1>1, Fields
  <2> QED BY <2>1, <1>1 DEF Record
<1>4. /\ st.trades \in Nat /\ st.run \in Nat /\ st.pnl \in Int /\ s # NoBlock
      /\ deal \in Int /\ Worst <= deal
  BY <1>1, <1>3, Fields, Beginnings, Types
<1> HIDE DEF s
<1>5. Own' = Own /\ Own = taken /\ ~Rebuilds /\ ~Rebuilds'
  BY <1>1, <1>3 DEF Own, Rebuilds
<1>6. Orphans' = Orphans /\ Orphans = held \ {taken} /\ (Unheard' <=> Unheard)
      /\ (Unheard <=> taken \notin held)
  BY <1>1, <1>2, <1>5 DEF Orphans, Unheard
<1>7. Fails' = Fails /\ Purse' = Purse /\ Entries' = Entries
      /\ Purse = IF taken \notin held THEN st.pnl + deal ELSE st.pnl
  BY <1>1, <1>3, <1>5, <1>6 DEF Fails, Purse, Entries
<1>8. Blocked' <=> Blocked
  BY <1>1, <1>3, <1>5, <1>7 DEF Blocked
<1>9. Avail' = Avail
  <2>1. Trades' = Trades
    BY <1>1, <1>3, <1>5 DEF Trades, Window
  <2>2. Window'.anchored /\ Window.anchored
    BY <1>1, <1>2, <1>3, <1>5 DEF Window
  <2>3. Extended' <=> Extended
    BY <1>1, <1>2, <1>5, <1>6 DEF Extended
  <2> QED BY <2>1, <2>2, <2>3 DEF Avail, Left
<1>10. Ahead' = Ahead /\ Due' = Due
  BY <1>1, <1>5, <1>7, <1>8 DEF Ahead, Due
<1>11. Shape'
  BY <1>1, <1>3 DEF Shape
<1>12. Kept'
  <2>1. WellRun(s)
    BY <1>2, <1>3, <1>4 DEF WellRun
  <2>2. s.open <= taken
    BY <1>1, <1>3
  <2> QED BY <2>1, <2>2, <1>1, <1>4 DEF Kept, WellRun
<1>13. Spared' /\ Streaks'
  BY <1>1, <1>6, <1>10 DEF IInv, Spared, Streaks
<1>14. Counted' /\ Funds' /\ Funded'
  BY <1>1, <1>6, <1>7 DEF IInv, Counted, Funds, Funded
<1>15. Stored'
  <2> DEFINE o == Cardinality(Orphans) * Worst
             gone == IF taken \notin held \union {0} THEN Worst ELSE 0
  <2>1. o \in Int /\ slips * Worth \in Int
    BY <1>1, Types, CountedMoney, Products
  <2>2. net - Purse + o >= slips * Worth
    BY DEF IInv, Funds
  <2>3. gone = IF taken \notin held THEN Worst ELSE 0
    BY <1>2
  <2>4. /\ net' - disk'.pnl + Cardinality(held' \ {disk'.open}) * Worst = net - st.pnl + o
        /\ gone = (IF disk'.open \notin held' \union {0} THEN Worst ELSE 0)
        /\ slips' = slips
    BY <1>1, <1>3, <1>6
  <2> HIDE DEF o, gone
  <2>5. net - st.pnl + o >= slips * Worth + gone
    <3>1. CASE taken \in held
      BY <3>1, <2>1, <2>2, <2>3, <1>1, <1>4, <1>7
    <3>2. CASE taken \notin held
      BY <3>2, <2>1, <2>2, <2>3, <1>1, <1>4, <1>7, WorstIsWorst
    <3> QED BY <3>1, <3>2
  <2>6. gone \in Int
    BY <2>3, WorstIsWorst
  <2>7. net - st.pnl + o >= slips * Worth + gone + 0
    BY <2>5, <2>6, <2>1
  <2> QED BY <2>4, <2>7, <1>1 DEF Stored
<1>16. Budgeted'
  BY <1>1, <1>9 DEF IInv, Budgeted
<1> QED BY <1>11, <1>12, <1>13, <1>14, <1>15, <1>16 DEF IInv

-----------------------------------------------------------------------------
(* Restarts and what runs before the recovery.                             *)

\* A window with its trades allows no more than a fresh one.
LEMMA WellRunRoom ==
  ASSUME NEW s \in Record, WellRun(s)
  PROVE  Room(s) \in Nat /\ Room(s) <= Base
<1>1. s.trades \in Nat /\ s.run \in Nat /\ s.run <= s.trades
  BY Fields DEF WellRun
<1>2. /\ Room(s) = IF s.anchored THEN (IF s.trades < Base THEN Base - s.trades ELSE 0)
                                      + (IF s.run >= Need THEN 1 ELSE 0)
                                 ELSE 0
      /\ Room(s) \in Nat
  BY RoomType DEF Room
<1>3. CASE s.trades = 0
  BY <1>1, <1>2, <1>3, Settings
<1>4. CASE s.trades >= 1
  BY <1>1, <1>2, <1>4, Settings
<1> QED BY <1>1, <1>2, <1>3, <1>4

\* What a failure may change: whom the engine follows, and all it remembers.
LEMMA Slipped ==
  ASSUME IInv, UNCHANGED broker, slips' = slips + 1, Orphans' \subseteq held,
         Entries' \in Nat, Avail' \in Nat, Avail' <= Base,
         credit' \in Nat, credit <= credit', credit' <= MaxEntries
  PROVE  Spared' /\ Streaks' /\ Counted' /\ Funded' /\ Budgeted'
<1>1. /\ Shape /\ held' = held /\ taken' = taken /\ net' = net /\ streak' = streak
      /\ losses' = losses /\ slips \in Nat /\ losses \in Nat /\ taken \in Nat /\ net \in Int
      /\ credit \in Nat /\ credit <= MaxEntries /\ MaxEntries \in Nat
  BY Settings DEF IInv, Shape, broker
<1>2. /\ IsFiniteSet(held) /\ Cardinality(held) \in Nat /\ Cardinality(Orphans) \in Nat
      /\ Ahead \in {0, 1} /\ Due \in {0, 1} /\ Avail \in Nat
      /\ Own \in held => Cardinality(held) = Cardinality(Orphans) + 1
      /\ Own \notin held => Cardinality(held) = Cardinality(Orphans) /\ Orphans = held
  BY <1>1, Types
<1>3. Cardinality(Orphans') <= Cardinality(held) /\ Cardinality(Orphans') \in Nat
  BY <1>2, FS_Subset, FS_CardinalityType
<1>4. Spared'
  BY <1>1, <1>2, <1>3 DEF IInv, Spared
<1>5. Streaks'
  <2>1. Ahead' \in {0, 1} /\ Due' \in {0, 1} /\ (Own \in held => Due = 0)
    BY DEF Ahead, Due
  <2>2. losses + Cardinality(Orphans) + Ahead <= 2 * slips + Due
    BY DEF IInv, Streaks
  <2> QED BY <2>1, <2>2, <1>1, <1>2, <1>3 DEF Streaks
<1>6. Counted'
  <2>1. taken <= Cap * slips + Cap
    BY <1>1, Products DEF IInv, Counted
  <2>2. \A e \in Nat : taken <= (Cap * slips + Cap) + e
    BY <2>1, <1>1, Products, Settings
  <2>3. taken <= Cap * slips + Cap + Cap
    BY <2>1, <1>1, Products, Settings
  <2>4. Cap * slips' = Cap * slips + Cap /\ Cap * (1 + slips') = Cap * slips + Cap + Cap
    BY <1>1, Products
  <2> QED BY <2>2, <2>3, <2>4, <1>1 DEF Counted
<1>7. Funded'
  <2> DEFINE c == Cardinality(held) * Worst
  <2>1. c \in Int /\ slips * Worth \in Int
    BY <1>1, <1>2, CountedMoney, Products
  <2>2. net + c >= slips * Worth + Worth
    BY <1>1, Products DEF IInv, Funded
  <2>3. net' + Cardinality(held') * Worst = net + c
        /\ (1 + slips') * Worth = slips * Worth + Worth + Worth
    BY <1>1, Products
  <2> HIDE DEF c
  <2>4. net + c >= slips * Worth + Worth + Worth
    BY <2>1, <2>2, <1>1, WorstIsWorst
  <2> QED BY <2>3, <2>4 DEF Funded
<1>8. Budgeted'
  <2>1. slips * Base \in Nat /\ slips' * Base = slips * Base + Base
    BY <1>1, Products
  <2>2. credit = MaxEntries \/ taken + Avail <= credit + slips * Base
    BY DEF IInv, Budgeted
  <2>3. \A a \in Nat, k \in Nat :
          a <= Base /\ credit <= k /\ k <= MaxEntries
            => k = MaxEntries \/ taken + a <= k + (slips * Base + Base)
    BY <2>1, <2>2, <1>1, <1>2, Settings
  <2> QED BY <2>1, <2>3, <1>1 DEF Budgeted
<1> QED BY <1>4, <1>5, <1>6, <1>7, <1>8

\* A money that is rebuilt from the history leaves the orphans to pay for.
LEMMA Rebuilt ==
  ASSUME Spared', Cardinality(Orphans') \in Nat, slips' \in Nat, net' \in Int, Purse' = net'
  PROVE  Funds'
<1>1. \A m \in Nat, n \in Nat : m <= n => m * Worst >= n * Worth
  BY TimesDown, WorstIsWorst
<1>2. Cardinality(Orphans') * Worst >= slips' * Worth
  BY <1>1 DEF Spared
<1>3. \A p \in Int, q \in Int : p - p + q = q
  OBVIOUS
<1>4. Cardinality(Orphans') * Worst \in Int
  BY CountedMoney
<1>5. net' - Purse' + Cardinality(Orphans') * Worst = Cardinality(Orphans') * Worst
  BY <1>3, <1>4
<1> QED BY <1>2, <1>5 DEF Funds

LEMMA EarlyCommandKeeps ==
  ASSUME IInv, EarlyCommand
  PROVE  IInv'
<1>1. /\ Shape /\ Kept /\ pc = "boot" /\ pc' = "boot" /\ UNCHANGED broker /\ slips' = slips + 1
      /\ credit \in Nat /\ credit <= MaxEntries /\ slips' \in Nat
      /\ held' = held /\ taken' = taken /\ net' = net /\ net \in Int /\ taken \in Nat
  BY DEF IInv, EarlyCommand, Slip, Shape, broker
<1>2. st \in Record /\ Blank(st)
  BY <1>1 DEF Kept, Shape
<1>3. 0 \notin held /\ -1 \notin held /\ IsFiniteSet(held) /\ Cardinality(held) \in Nat
  BY <1>1, HeldFinite, FS_CardinalityType
<1>4. CASE Saved(Reseeded(st)) /\ Granted(Base)
  <2> DEFINE s == Reseeded(st)
  <2>1. s \in Record /\ Blank(s) /\ s.anchored
    BY <1>2, ResetFields DEF Blank
  <2> HIDE DEF s
  <2>2. /\ st' = s /\ disk' = s /\ s # NoBlock
        /\ s.open = 0 /\ s.trades = 0 /\ s.run = 0 /\ s.pnl = 0
    BY <1>4, <2>1, Beginnings DEF Saved, Blank, s
  <2>3. /\ Own' = 0 /\ Rebuilds' /\ Orphans' = held /\ Purse' = net' /\ Entries' = taken
        /\ Window' = s /\ Trades' = 0
    BY <1>1, <1>3, <2>2 DEF Own, Rebuilds, Orphans, Purse, Entries, Window, Trades
  <2>4. Avail' = Base /\ Base \in Nat
    BY <2>1, <2>2, <2>3, Settings DEF Avail, Left, Extended
  <2>5. credit' \in Nat /\ credit <= credit' /\ credit' <= MaxEntries
    BY <1>1, <1>4, <2>4, GrantedBounds
  <2>6. Spared' /\ Streaks' /\ Counted' /\ Funded' /\ Budgeted'
    BY <1>1, <2>3, <2>4, <2>5, Slipped
  <2>7. Shape'
    BY <1>1, <2>1, <2>2, <2>5 DEF Shape, broker
  <2>8. WellRun(s)
    BY <2>2 DEF WellRun
  <2>9. Kept'
    BY <1>1, <2>1, <2>2, <2>8 DEF Kept, WellRun, Blank
  <2>10. Funds'
    BY <1>1, <1>3, <2>3, <2>6, Rebuilt
  <2>11. Stored'
    <3> DEFINE c == Cardinality(held) * Worst
    <3>1. c \in Int /\ slips * Worth \in Int
      BY <1>1, <1>3, CountedMoney, Products
    <3>2. net + c >= slips * Worth + Worth
      BY <1>1, Products DEF IInv, Funded
    <3>3. held' \ {disk'.open} = held /\ disk'.open \in held' \union {0} /\ disk'.pnl = 0
      BY <1>1, <1>3, <2>2
    <3>4. net - 0 + c >= (slips * Worth + Worth) + 0 + 0
      BY <3>1, <3>2, <1>1, WorstIsWorst
    <3>5. slips' * Worth = slips * Worth + Worth
      BY <1>1, Products
    <3>6. net' = net /\ Cardinality(held' \ {disk'.open}) * Worst = c
      BY <1>1, <3>3
    <3> HIDE DEF c
    <3> QED BY <1>1, <3>3, <3>4, <3>5, <3>6 DEF Stored
  <2> QED BY <2>6, <2>7, <2>9, <2>10, <2>11 DEF IInv
<1>5. CASE disk' = NoBlock /\ UNCHANGED <<st, credit>>
  <2>1. /\ st' = st /\ disk'.open = -1 /\ st \in Record /\ st.pnl = 0 /\ st.entries = 0
        /\ st.open = 0 /\ st.trades = 0 /\ st.run = 0
    BY <1>2, <1>5, Beginnings DEF Blank
  <2>2. /\ Own' = -1 /\ ~Rebuilds' /\ Orphans' = held /\ Entries' = 0 /\ ~Unheard'
        /\ Window' = st /\ Trades' = 0
    BY <1>1, <1>3, <1>5, <2>1 DEF Own, Rebuilds, Orphans, Entries, Unheard, Window, Trades
  <2>3. Purse' = 0
    BY <2>1, <2>2 DEF Purse
  <2>4. Avail' \in Nat /\ Avail' <= Base
    BY <2>1, <2>2, Settings DEF Avail, Left, Extended
  <2>5. Spared' /\ Streaks' /\ Counted' /\ Funded' /\ Budgeted'
    BY <1>1, <1>5, <2>2, <2>4, Slipped
  <2>6. Shape'
    BY <1>1, <1>5, <2>1 DEF Shape, broker
  <2>7. Kept'
    BY <1>1, <1>2, <1>5, <2>1 DEF Kept, WellRun, Blank
  <2>8. Funds'
    <3> DEFINE c == Cardinality(held) * Worst
    <3>1. c \in Int /\ slips * Worth \in Int
      BY <1>1, <1>3, CountedMoney, Products
    <3>2. net + c >= slips * Worth + Worth
      BY <1>1, Products DEF IInv, Funded
    <3>3. /\ net' - Purse' + Cardinality(Orphans') * Worst = net + c
          /\ slips' * Worth = slips * Worth + Worth
      BY <1>1, <3>1, <2>2, <2>3, Products
    <3> HIDE DEF c
    <3> QED BY <3>2, <3>3 DEF Funds
  <2>9. Stored'
    BY <1>5 DEF Stored
  <2> QED BY <2>5, <2>6, <2>7, <2>8, <2>9 DEF IInv
<1> QED BY <1>4, <1>5 DEF EarlyCommand

\* The process comes back: the memory is gone, the file is there.
LEMMA AfterRestart ==
  ASSUME IInv, Restart
  PROVE  /\ Shape /\ Kept /\ UNCHANGED broker /\ disk' = disk /\ credit' = credit
         /\ st' = Fresh /\ pc' = "boot" /\ slips' \in Nat
         /\ pc = "filled" => slips' = slips + 1
         /\ pc # "filled" => slips' = slips
         /\ held' = held /\ taken' = taken /\ net' = net /\ net \in Int /\ taken \in Nat
         /\ Shape' /\ Kept' /\ ~Unheard'
         /\ credit \in Nat /\ credit <= MaxEntries
         /\ 0 \notin held /\ -1 \notin held /\ IsFiniteSet(held)
<1>1. /\ Shape /\ Kept /\ UNCHANGED broker /\ disk' = disk /\ credit' = credit
      /\ st' = Fresh /\ pc' = "boot" /\ slips' \in Nat
      /\ pc = "filled" => slips' = slips + 1
      /\ pc # "filled" => slips' = slips
  BY DEF IInv, Restart, Slip, Shape
<1>2. /\ held' = held /\ taken' = taken /\ net' = net /\ net \in Int /\ taken \in Nat
      /\ credit \in Nat /\ credit <= MaxEntries
  BY <1>1 DEF Shape, broker
<1>3. Fresh \in Record /\ Blank(Fresh)
  BY Beginnings
<1>4. Shape'
  BY <1>1, <1>3 DEF Shape, broker
<1>5. Kept'
  <2>1. WellRun(Fresh) /\ Fresh.open <= taken
    BY <1>2, <1>3 DEF WellRun, Blank
  <2> QED BY <2>1, <1>1, <1>2, <1>3 DEF Kept, WellRun, Blank
<1>6. ~Unheard'
  BY <1>1 DEF Unheard
<1> QED BY <1>1, <1>2, <1>4, <1>5, <1>6, HeldFinite

\* There is nothing in the file.
LEMMA RestartAnew ==
  ASSUME IInv, Restart, disk = NoBlock
  PROVE  IInv'
<1>1. /\ Shape /\ Kept /\ UNCHANGED broker /\ disk' = disk /\ credit' = credit
      /\ st' = Fresh /\ pc' = "boot" /\ slips' \in Nat
      /\ pc = "filled" => slips' = slips + 1
      /\ pc # "filled" => slips' = slips
      /\ held' = held /\ taken' = taken /\ net' = net /\ net \in Int /\ taken \in Nat
      /\ Shape' /\ Kept' /\ ~Unheard'
      /\ credit \in Nat /\ credit <= MaxEntries
      /\ 0 \notin held /\ -1 \notin held /\ IsFiniteSet(held)
  BY AfterRestart
<1>2. disk.open = -1 /\ Fresh \in Record /\ Blank(Fresh) /\ ~Fresh.anchored /\ Blank(st)
      /\ st \in Record
  BY <1>1, Beginnings DEF Kept, Shape
<1>3. /\ Own' = -1 /\ ~Rebuilds' /\ Orphans' = held /\ Entries' = 0 /\ Window' = Fresh
      /\ Purse' = 0 /\ Fails' = 0
  BY <1>1, <1>2 DEF Own, Rebuilds, Orphans, Entries, Window, Purse, Fails, Blank
<1>4. Avail' = 0
  BY <1>2, <1>3 DEF Avail
<1>5. Stored'
  BY <1>1 DEF Stored
<1>6. CASE pc = "filled"
  <2>1. Spared' /\ Streaks' /\ Counted' /\ Funded' /\ Budgeted'
    BY <1>1, <1>3, <1>4, <1>6, Slipped, Settings
  <2>2. Funds'
    <3> DEFINE c == Cardinality(held) * Worst
    <3>1. c \in Int /\ slips * Worth \in Int
      BY <1>1, CountedMoney, Products, FS_CardinalityType
    <3>2. net + c >= slips * Worth + Worth
      BY <1>1, Products DEF IInv, Funded
    <3>3. /\ net' - Purse' + Cardinality(Orphans') * Worst = net + c
          /\ slips' * Worth = slips * Worth + Worth
      BY <1>1, <1>3, <1>6, <3>1, Products
    <3> HIDE DEF c
    <3> QED BY <3>2, <3>3 DEF Funds
  <2> QED BY <1>1, <1>5, <2>1, <2>2 DEF IInv
<1>7. CASE pc # "filled"
  <2>1. Own \in {-1, 0} /\ ~Rebuilds /\ ~Unheard /\ Orphans = held /\ slips' = slips
    BY <1>1, <1>2, <1>7 DEF Own, Rebuilds, Unheard, Orphans, Blank
  <2>2. Entries = 0 /\ Purse = 0 /\ Fails = 0 /\ Avail \in Nat
    BY <1>1, <1>2, <1>7, <2>1, Types DEF Entries, Purse, Fails, Blank
  <2>3. ~Blocked
    BY <1>2, <2>1, <2>2, Settings DEF Blocked, Blank
  <2>4. Ahead' = Ahead /\ Due = 0 /\ Due' \in {0, 1}
    BY <1>1, <1>3, <2>2, <2>3 DEF Ahead, Due, broker
  <2>5. Orphans' = Orphans
    BY <1>3, <2>1
  <2>6. Spared'
    BY <2>1, <2>5 DEF IInv, Spared
  <2>7. Streaks'
    <3>1. losses + Cardinality(Orphans) + Ahead <= 2 * slips
      BY <1>1, <2>4 DEF IInv, Streaks, Shape
    <3>2. \A d \in {0, 1} : losses + Cardinality(Orphans) + Ahead <= 2 * slips + d
      BY <3>1, <1>1, Types DEF Shape
    <3>3. losses + Cardinality(Orphans) + Ahead <= 2 * slips + Due'
      BY <3>2, <2>4
    <3>4. losses' = losses
      BY <1>1 DEF broker
    <3> QED BY <3>3, <3>4, <2>1, <2>4, <2>5 DEF Streaks
  <2>8. Counted' /\ Funds' /\ Funded'
    BY <1>1, <1>3, <2>1, <2>2, <2>5 DEF IInv, Counted, Funds, Funded
  <2>9. Budgeted'
    <3>1. credit = MaxEntries \/ taken + 0 <= credit + slips * Base
      BY <1>1, <2>2, Products DEF IInv, Budgeted
    <3> QED BY <3>1, <1>1, <1>4, <2>1 DEF Budgeted
  <2> QED BY <1>1, <1>5, <2>6, <2>7, <2>8, <2>9 DEF IInv
<1> QED BY <1>6, <1>7

\* There is a block in the file: what it follows counts, and the history for the
\* rest.
LEMMA RestartFrom ==
  ASSUME IInv, Restart, disk # NoBlock
  PROVE  IInv'
<1>1. /\ Shape /\ Kept /\ UNCHANGED broker /\ disk' = disk /\ credit' = credit
      /\ st' = Fresh /\ pc' = "boot" /\ slips' \in Nat
      /\ pc = "filled" => slips' = slips + 1
      /\ pc # "filled" => slips' = slips
      /\ held' = held /\ taken' = taken /\ net' = net /\ net \in Int /\ taken \in Nat
      /\ Shape' /\ Kept' /\ ~Unheard'
      /\ credit \in Nat /\ credit <= MaxEntries
      /\ 0 \notin held /\ -1 \notin held /\ IsFiniteSet(held)
  BY AfterRestart
<1>2. disk \in Record /\ WellRun(disk) /\ disk.open \in Nat /\ disk.pnl \in Int
  BY <1>1, Fields DEF Shape, Kept
<1>3. /\ Own' = disk.open /\ Rebuilds' /\ Orphans' = held \ {disk.open} /\ Entries' = taken
      /\ Window' = disk /\ Trades' = disk.trades /\ Purse' = net' /\ Fails' = streak'
  BY <1>1 DEF Own, Rebuilds, Orphans, Entries, Window, Trades, Purse, Fails
<1>4. /\ IsFiniteSet(Orphans') /\ Cardinality(Orphans') \in Nat
  BY <1>1, <1>3, Less
<1>5. Extended' <=> disk.open = 0 /\ disk.run >= Need
  BY <1>1, <1>3 DEF Extended
<1>6. Avail' <= Room(disk) /\ Avail' \in Nat
  <2>1. disk.trades \in Nat /\ disk.run \in Nat
    BY <1>2, Fields
  <2> QED BY <2>1, <1>3, <1>5, Settings DEF Avail, Left, Room
<1>7. Room(disk) <= Base /\ Room(disk) \in Nat /\ Base \in Nat
  BY <1>2, WellRunRoom, Settings
<1>8. CASE pc = "filled"
  <2>1. Orphans' \subseteq held /\ Avail' <= Base
    BY <1>3, <1>6, <1>7
  <2>2. Spared' /\ Streaks' /\ Counted' /\ Funded' /\ Budgeted'
    BY <1>1, <1>3, <1>6, <1>8, <2>1, Slipped
  <2>3. Funds'
    BY <1>1, <1>3, <1>4, <2>2, Rebuilt
  <2>4. Stored'
    <3> DEFINE c == Cardinality(held \ {disk.open}) * Worst
               gone == IF disk.open \notin held \union {0} THEN Worst ELSE 0
    <3>1. c \in Int /\ gone \in Int /\ slips * Worth \in Int
      BY <1>1, Less, CountedMoney, Products, WorstIsWorst
    <3>2. net - disk.pnl + c >= slips * Worth + gone + Worst
      BY <1>8 DEF IInv, Stored
    <3>3. /\ net' - disk'.pnl + Cardinality(held' \ {disk'.open}) * Worst = net - disk.pnl + c
          /\ slips' * Worth = slips * Worth + Worth
          /\ gone = IF disk'.open \notin held' \union {0} THEN Worst ELSE 0
      BY <1>1, <1>8, Products
    <3> HIDE DEF c, gone
    <3>4. net - disk.pnl + c >= (slips * Worth + Worth) + gone + 0
      BY <3>1, <3>2, <1>1, <1>2, WorstIsWorst
    <3> QED BY <3>3, <3>4, <1>1 DEF Stored
  <2> QED BY <1>1, <2>2, <2>3, <2>4 DEF IInv
<1>9. CASE pc # "filled"
  <2>1. slips' = slips /\ Trades = disk.trades /\ Window.anchored = disk.anchored
    BY <1>1, <1>9 DEF Trades, Window, Rebuilds, Kept
  <2>2. Own = disk.open \/ (Own = 0 /\ Orphans = held)
    BY <1>1, <1>9 DEF Own, Orphans, Kept
  <2>3. /\ Cardinality(Orphans) \in Nat /\ Ahead \in {0, 1} /\ Due \in {0, 1}
        /\ Cardinality(Orphans') <= Cardinality(Orphans)
        /\ disk.open \in held /\ Own \notin held => Cardinality(Orphans') = Cardinality(Orphans) - 1
    <3>1. Cardinality(Orphans) \in Nat /\ Ahead \in {0, 1} /\ Due \in {0, 1}
      BY <1>1, Types
    <3>2. CASE Own = disk.open
      <4>1. Orphans' = Orphans
        BY <3>2, <1>3 DEF Orphans
      <4> QED BY <3>1, <3>2, <4>1
    <3>3. CASE Own = 0 /\ Orphans = held
      <4>1. /\ disk.open \in held =>
                 Cardinality(held \ {disk.open}) = Cardinality(held) - 1
            /\ disk.open \notin held => held \ {disk.open} = held
        BY <1>1, Less
      <4>2. Cardinality(held) \in Nat /\ Cardinality(Orphans) = Cardinality(held)
        BY <3>1, <3>3
      <4>3. CASE disk.open \in held
        BY <4>1, <4>2, <4>3, <3>1, <1>3
      <4>4. CASE disk.open \notin held
        BY <4>1, <4>2, <4>4, <3>1, <1>3
      <4> QED BY <4>3, <4>4
    <3> QED BY <2>2, <3>1, <3>2, <3>3
  <2>4. Spared'
    BY <2>1, <2>3, <1>1, <1>4 DEF IInv, Spared, Shape
  <2>5. Streaks'
    <3>1. Ahead' = 0
      <4>1. Phase(streak) <= streak /\ Phase(streak) \in Nat /\ streak \in Nat
        BY <1>1, Modulo DEF Shape
      <4>2. Ahead' = IF Phase(streak) > streak THEN 1 ELSE 0
        BY <1>1, <1>3 DEF Ahead, broker
      <4> QED BY <4>1, <4>2
    <3>2. losses + Cardinality(Orphans) + Ahead <= 2 * slips + Due /\ losses \in Nat /\ slips \in Nat
      BY <1>1 DEF IInv, Streaks, Shape
    <3>3. Due = 1 /\ disk.open \notin held => Due' = 1
      BY <1>1, <1>3 DEF Due, Blocked, broker
    <3>4. Due' \in {0, 1} /\ (Own \in held => Due = 0)
      BY DEF Due
    <3>5. losses' = losses
      BY <1>1 DEF broker
    <3> QED BY <3>1, <3>2, <3>3, <3>4, <3>5, <2>1, <2>3, <1>4 DEF Streaks
  <2>6. Counted'
    <3>1. Cap * slips + taken >= taken
      BY <1>1, Products
    <3> QED BY <3>1, <1>1, <1>3, <2>1 DEF IInv, Counted
  <2>7. Funds'
    BY <1>1, <1>3, <1>4, <2>4, Rebuilt
  <2>8. Funded' /\ Stored'
    BY <1>1, <1>9, <2>1 DEF IInv, Funded, Stored
  <2>9. Budgeted'
    <3>1. Extended' => Extended
      BY <1>1, <1>5, <1>9, <2>2 DEF Extended, Unheard, Rebuilds, Own, Kept
    <3>2. Avail' <= Avail
      <4>1. disk.trades \in Nat
        BY <1>2, Fields
      <4>2. Left' <= Left /\ Left \in Nat /\ Left' \in Nat
        BY <4>1, <3>1, <2>1, <1>3, Settings DEF Left
      <4> QED BY <4>2, <2>1, <1>3 DEF Avail
    <3>3. \A a \in Nat : a <= Avail => credit = MaxEntries \/ taken + a <= credit + slips * Base
      BY <1>1, Types, Products DEF IInv, Budgeted
    <3> QED BY <3>2, <3>3, <1>1, <1>6, <2>1 DEF Budgeted
  <2> QED BY <1>1, <2>4, <2>5, <2>6, <2>7, <2>8, <2>9 DEF IInv
<1> QED BY <1>8, <1>9

\* No block: the engine starts with what it has.
LEMMA RecoverNothing ==
  ASSUME IInv, Recover, disk = NoBlock
  PROVE  IInv'
<1>1. /\ Shape /\ Kept /\ pc = "boot" /\ pc' = "idle" /\ st' = st /\ slips' = slips
      /\ UNCHANGED broker /\ disk' = disk /\ credit' = credit /\ held' = held
      /\ disk.open = -1 /\ 0 \notin held /\ -1 \notin held
  BY HeldFinite, Beginnings DEF IInv, Recover, broker
<1>2. st \in Record /\ Blank(st)
  BY <1>1 DEF Kept, Shape
<1>3. st.open = 0 /\ st.run = 0 /\ st.fails = 0 /\ ~st.paused
  BY <1>2 DEF Blank
<1>4. /\ Own = -1 /\ Own' = 0 /\ ~Rebuilds /\ ~Rebuilds'
  BY <1>1, <1>3 DEF Own, Rebuilds
<1>5. Orphans = held /\ Orphans' = held /\ ~Unheard /\ ~Unheard'
  BY <1>1, <1>4 DEF Orphans, Unheard
<1>6. /\ Fails' = Fails /\ Purse' = Purse /\ Entries' = Entries /\ Fails = 0
  BY <1>1, <1>3, <1>4, <1>5 DEF Fails, Purse, Entries
<1>7. ~Blocked /\ ~Blocked'
  BY <1>1, <1>3, <1>4, <1>6, Settings DEF Blocked
<1>8. Ahead' = Ahead /\ Due' = Due
  BY <1>1, <1>6, <1>7 DEF Ahead, Due, broker
<1>9. Avail' = Avail
  <2>1. ~Extended /\ ~Extended'
    BY <1>1, <1>3, <1>4, <1>5, Settings DEF Extended
  <2>2. Window' = Window /\ Trades' = Trades
    BY <1>1, <1>4 DEF Window, Trades
  <2> QED BY <2>1, <2>2 DEF Avail, Left
<1>10. Shape'
  BY <1>1 DEF Shape, broker
<1>11. Kept'
  BY <1>1, <1>2 DEF Kept, WellRun, Blank, broker
<1>12. Spared' /\ Streaks'
  BY <1>1, <1>5, <1>8 DEF IInv, Spared, Streaks, broker
<1>13. Counted' /\ Funds' /\ Funded'
  BY <1>1, <1>5, <1>6 DEF IInv, Counted, Funds, Funded, broker
<1>14. Stored'
  BY <1>1 DEF Stored
<1>15. Budgeted'
  BY <1>1, <1>9 DEF IInv, Budgeted, broker
<1> QED BY <1>10, <1>11, <1>12, <1>13, <1>14, <1>15 DEF IInv

\* The three governors of a recovery.
Zeros == [disk EXCEPT !.entries = 0, !.pnl = 0, !.fails = 0,
                      !.stopped = FALSE, !.paused = FALSE, !.locked = FALSE]

LEMMA Governors ==
  ASSUME disk \in Record, Shape, NEW gov \in {Governor, disk, Zeros}
  PROVE  /\ gov \in Record /\ gov.open = disk.open /\ gov.anchored = disk.anchored
         /\ gov.trades = disk.trades /\ gov.run = disk.run
         /\ gov = Governor => /\ gov.entries = taken /\ gov.pnl = net /\ gov.fails = streak
                              /\ gov.paused <=> streak >= FailStop
         /\ gov = Zeros => gov.pnl = 0
<1> DEFINE g == [disk EXCEPT !.entries = taken, !.pnl = net, !.fails = streak,
                             !.stopped = FALSE, !.paused = FALSE, !.locked = net >= ProfitStop]
<1>1. /\ g \in Record /\ g.open = disk.open /\ g.anchored = disk.anchored
      /\ g.trades = disk.trades /\ g.run = disk.run
      /\ g.entries = taken /\ g.pnl = net /\ g.fails = streak /\ g.paused = FALSE
  <2>1. (net >= ProfitStop) \in BOOLEAN /\ taken \in Nat /\ net \in Int /\ streak \in Nat
    BY DEF Shape
  <2> QED BY <2>1 DEF Record
<1>2. Governor = Latched(g)
  BY DEF Governor
<1> HIDE DEF g
<1>3. /\ Governor \in Record /\ Governor.open = disk.open /\ Governor.anchored = disk.anchored
      /\ Governor.trades = disk.trades /\ Governor.run = disk.run
      /\ Governor.entries = taken /\ Governor.pnl = net /\ Governor.fails = streak
      /\ Governor.paused <=> streak >= FailStop
  BY <1>1, <1>2, LatchedFields
<1>4. /\ Zeros \in Record /\ Zeros.open = disk.open /\ Zeros.anchored = disk.anchored
      /\ Zeros.trades = disk.trades /\ Zeros.run = disk.run /\ Zeros.pnl = 0
  <2>0. 0 \in Nat /\ 0 \in Int /\ FALSE \in BOOLEAN
    OBVIOUS
  <2>1. PICK n \in Nat, p \in Int, b \in BOOLEAN : n = 0 /\ p = 0 /\ b = FALSE
    BY <2>0, Zenon
  <2> DEFINE z == [disk EXCEPT !.entries = n, !.pnl = p, !.fails = n,
                               !.stopped = b, !.paused = b, !.locked = b]
  <2>2. /\ z \in Record /\ z.open = disk.open /\ z.anchored = disk.anchored
        /\ z.trades = disk.trades /\ z.run = disk.run /\ z.pnl = p
    BY DEF Record
  <2>3. Zeros = z
    BY <2>1, Zenon DEF Zeros
  <2> HIDE DEF z
  <2> QED BY <2>1, <2>2, <2>3
<1> QED BY <1>3, <1>4

\* The history tells everything: the governor is what the invariant took it for.
LEMMA RecoverAll ==
  ASSUME IInv, Recover, disk # NoBlock, disk.open \in held \union {0}, st' = Governor,
         slips' = slips
  PROVE  IInv'
<1>1. /\ Shape /\ Kept /\ pc = "boot" /\ pc' = "idle"
      /\ UNCHANGED broker /\ disk' = disk /\ credit' = credit /\ held' = held /\ taken' = taken
      /\ disk \in Record /\ WellRun(disk) /\ disk.open <= taken
  BY DEF IInv, Recover, broker, Shape, Kept
<1>2. /\ Governor \in Record /\ Governor.open = disk.open /\ Governor.anchored = disk.anchored
      /\ Governor.trades = disk.trades /\ Governor.run = disk.run
      /\ Governor.entries = taken /\ Governor.pnl = net /\ Governor.fails = streak
      /\ Governor.paused <=> streak >= FailStop
  BY <1>1, Governors
<1>3. Own = disk.open /\ Own' = disk.open /\ Rebuilds /\ ~Rebuilds'
  BY <1>1, <1>2 DEF Own, Rebuilds
<1>4. Orphans' = Orphans /\ ~Unheard /\ ~Unheard'
  BY <1>1, <1>3 DEF Orphans, Unheard
<1>5. /\ Fails' = streak /\ Fails = streak /\ Purse' = Purse /\ Entries' = Entries
  BY <1>1, <1>2, <1>3, <1>4 DEF Fails, Purse, Entries
<1>6. Blocked /\ (Blocked' <=> streak >= FailStop)
  BY <1>1, <1>2, <1>3, <1>5 DEF Blocked, broker
<1>7. Ahead' = Ahead
  BY <1>1, <1>5 DEF Ahead, broker
<1>8. Due' = Due
  BY <1>1, <1>3, <1>6 DEF Due, broker
<1>9. Avail' = Avail
  <2>1. Extended' <=> Extended
    BY <1>1, <1>2, <1>3, <1>4 DEF Extended
  <2>2. Window'.anchored = Window.anchored /\ Trades' = Trades
    BY <1>1, <1>2, <1>3 DEF Window, Trades
  <2> QED BY <2>1, <2>2 DEF Avail, Left
<1>10. Shape'
  BY <1>1, <1>2 DEF Shape, broker
<1>11. Kept'
  <2>1. WellRun(Governor)
    BY <1>1, <1>2 DEF WellRun
  <2> QED BY <2>1, <1>1, <1>2 DEF Kept, WellRun
<1>12. Spared' /\ Streaks'
  BY <1>1, <1>4, <1>7, <1>8 DEF IInv, Spared, Streaks, broker
<1>13. Counted' /\ Funds' /\ Funded'
  BY <1>1, <1>4, <1>5 DEF IInv, Counted, Funds, Funded, broker
<1>14. Stored'
  BY <1>1 DEF IInv, Stored, broker
<1>15. Budgeted'
  BY <1>1, <1>9 DEF IInv, Budgeted, broker
<1> QED BY <1>10, <1>11, <1>12, <1>13, <1>14, <1>15 DEF IInv

\* The money of a governor that is not the history's: what the file says, or none.
LEMMA RecoveredMoney ==
  ASSUME IInv, Spared', pc = "boot", UNCHANGED <<broker, disk>>, slips' = slips + 1,
         disk \in Record, NEW open \in {0} \union (held \intersect {disk.open}),
         Orphans' = held \ {open},
         NEW gov \in {Governor, disk, Zeros}, Purse' = gov.pnl
  PROVE  Funds'
<1>1. /\ Shape /\ net' = net /\ held' = held /\ net \in Int /\ IsFiniteSet(held)
      /\ 0 \notin held /\ disk.pnl \in Int
      /\ slips' * Worth = slips * Worth + Worth /\ slips * Worth \in Int /\ slips' \in Nat
  BY HeldFinite, Products, Fields DEF IInv, broker, Shape
<1>2. /\ Cardinality(held) \in Nat /\ IsFiniteSet(Orphans') /\ Cardinality(Orphans') \in Nat
      /\ open = 0 => Orphans' = held
      /\ open # 0 => open = disk.open /\ open \in held
                     /\ Cardinality(Orphans') = Cardinality(held) - 1
  BY <1>1, Less
<1> DEFINE c == Cardinality(held) * Worst
           o == Cardinality(Orphans') * Worst
<1>3. c \in Int /\ o \in Int
  BY <1>2, CountedMoney
<1>4. (open = 0 => o = c) /\ (open # 0 => o = c - Worst)
  BY <1>2, CountedMoney
<1>5. net + c >= slips * Worth + Worth
  BY <1>1, Products DEF IInv, Funded
<1>6. CASE gov = Governor
  <2>1. Purse' = net'
    BY <1>1, <1>6, Governors
  <2> QED BY <2>1, <1>1, <1>2, Rebuilt
<1>7. CASE gov = Zeros
  <2>1. Purse' = 0
    BY <1>1, <1>7, Governors
  <2>2. net' - Purse' + Cardinality(Orphans') * Worst = net + o
    BY <2>1, <1>1, <1>3
  <2> HIDE DEF c, o
  <2>3. net + o >= slips * Worth + Worth
    BY <1>1, <1>3, <1>4, <1>5, WorstIsWorst
  <2> QED BY <2>2, <2>3, <1>1 DEF Funds
<1>8. CASE gov = disk
  <2> DEFINE e == Cardinality(held \ {disk.open}) * Worst
             gone == IF disk.open \notin held \union {0} THEN Worst ELSE 0
  <2>1. /\ disk.open \in held =>
             /\ Cardinality(held \ {disk.open}) = Cardinality(held) - 1
             /\ gone = 0
        /\ disk.open \notin held => held \ {disk.open} = held /\ gone \in {0, Worst}
        /\ Cardinality(held \ {disk.open}) \in Nat
    BY <1>1, Less
  <2>2. /\ e \in Int
        /\ disk.open \in held => e = c - Worst
        /\ disk.open \notin held => e = c
    BY <2>1, <1>2, CountedMoney
  <2>3. net - disk.pnl + e >= slips * Worth + gone + 0
    BY <1>1, Beginnings DEF IInv, Stored
  <2>4. net' - Purse' + Cardinality(Orphans') * Worst = net - disk.pnl + o
    BY <1>1, <1>8
  <2>5. open # 0 => disk.open \in held
    BY <1>2
  <2>6. (disk.open \in held => gone = 0) /\ (disk.open \notin held => gone \in {0, Worst})
    BY <2>1
  <2> HIDE DEF c, o, e, gone
  <2>7. net - disk.pnl + o >= slips * Worth + Worth
    <3>1. CASE open # 0
      BY <3>1, <2>2, <2>3, <2>5, <2>6, <1>1, <1>3, <1>4, WorstIsWorst
    <3>2. CASE open = 0 /\ disk.open \in held
      BY <3>2, <2>2, <2>3, <2>6, <1>1, <1>3, <1>4, WorstIsWorst
    <3>3. CASE open = 0 /\ disk.open \notin held
      BY <3>3, <2>2, <2>3, <2>6, <1>1, <1>3, <1>4, WorstIsWorst
    <3> QED BY <3>1, <3>2, <3>3
  <2> QED BY <2>4, <2>7, <1>1 DEF Funds
<1> QED BY <1>6, <1>7, <1>8

\* The recovery fails somewhere: one failure pays for what it forgets.
LEMMA RecoverPart ==
  ASSUME IInv, Recover, disk # NoBlock, slips' = slips + 1,
         NEW open \in {0} \union (held \intersect {disk.open}),
         NEW gov \in {Governor, disk, Zeros}, st' = [gov EXCEPT !.open = open]
  PROVE  IInv'
<1>1. /\ Shape /\ Kept /\ pc = "boot" /\ pc' = "idle"
      /\ UNCHANGED broker /\ disk' = disk /\ credit' = credit /\ held' = held /\ taken' = taken
      /\ disk \in Record /\ WellRun(disk) /\ disk.open <= taken /\ taken \in Nat
      /\ credit \in Nat /\ credit <= MaxEntries /\ slips' \in Nat
      /\ net' = net /\ net \in Int /\ 0 \notin held
  <2>1. /\ Shape /\ Kept /\ pc = "boot" /\ pc' = "idle" /\ UNCHANGED broker
        /\ disk' = disk /\ credit' = credit
    BY DEF IInv, Recover
  <2>2. held' = held /\ taken' = taken /\ net' = net
    BY <2>1 DEF broker
  <2>3. /\ disk \in Record /\ taken \in Nat /\ credit \in Nat /\ credit <= MaxEntries
        /\ slips \in Nat /\ net \in Int
    BY <2>1 DEF Shape
  <2>4. WellRun(disk) /\ disk.open <= taken
    BY <2>1 DEF Kept
  <2> QED BY <2>1, <2>2, <2>3, <2>4, HeldFinite
<1>2. /\ gov \in Record /\ gov.anchored = disk.anchored
      /\ gov.trades = disk.trades /\ gov.run = disk.run
  BY <1>1, Governors
<1>3. open \in Nat /\ open <= taken /\ open \in held \union {0} /\ open \in {0, disk.open}
  BY <1>1 DEF Shape
<1>4. /\ st' \in Record /\ st'.open = open /\ st'.anchored = disk.anchored
      /\ st'.trades = disk.trades /\ st'.run = disk.run
      /\ st'.pnl = gov.pnl /\ st'.entries \in Nat
  <2>1. \A s \in Record : s = [gov EXCEPT !.open = open] => s.entries \in Nat
    BY Fields
  <2>2. /\ st' \in Record /\ st'.open = open /\ st'.anchored = gov.anchored
        /\ st'.trades = gov.trades /\ st'.run = gov.run /\ st'.pnl = gov.pnl
    BY <1>2, <1>3 DEF Record
  <2> QED BY <2>1, <2>2, <1>2
<1>5. Own' = open /\ ~Rebuilds' /\ Orphans' = held \ {open}
  BY <1>1, <1>4 DEF Own, Rebuilds, Orphans
<1>6. ~Unheard'
  BY <1>1, <1>3, <1>5 DEF Unheard
<1>7. Purse' = gov.pnl /\ Entries' \in Nat
  BY <1>1, <1>4, <1>5, <1>6 DEF Purse, Entries
<1>8. Avail' \in Nat /\ Avail' <= Base
  <2>1. disk.trades \in Nat /\ disk.run \in Nat
    BY <1>1, Fields
  <2>2. Extended' => disk.run >= Need
    BY <1>4, <1>5, <1>6 DEF Extended
  <2>3. Window'.anchored = disk.anchored /\ Trades' = disk.trades
    BY <1>1, <1>4, <1>5 DEF Window, Trades
  <2>4. Avail' <= Room(disk) /\ Avail' \in Nat
    BY <2>1, <2>2, <2>3, Settings DEF Avail, Left, Room
  <2> QED BY <2>4, <1>1, WellRunRoom, Settings
<1>9. Spared' /\ Streaks' /\ Counted' /\ Funded' /\ Budgeted'
  <2>1. Orphans' \subseteq held
    BY <1>5
  <2> QED BY <2>1, <1>1, <1>7, <1>8, Slipped
<1>10. Shape'
  BY <1>1, <1>4 DEF Shape, broker
<1>11. Kept'
  <2>1. WellRun(st')
    <3>1. disk.trades \in Nat /\ disk.run \in Nat
      BY <1>1, Fields
    <3>2. disk.run + (IF disk.open # 0 THEN 1 ELSE 0) <= disk.trades
          /\ (disk.anchored \/ disk.trades = 0)
      BY <1>1 DEF WellRun
    <3>3. disk.run + (IF open # 0 THEN 1 ELSE 0) <= disk.trades
      BY <3>1, <3>2, <1>3
    <3> QED BY <3>2, <3>3, <1>4 DEF WellRun
  <2> QED BY <2>1, <1>1, <1>3, <1>4 DEF Kept, WellRun
<1>12. Funds'
  BY <1>1, <1>5, <1>7, <1>9, RecoveredMoney
<1>13. Stored'
  <2> DEFINE e == Cardinality(held \ {disk.open}) * Worst
             gone == IF disk.open \notin held \union {0} THEN Worst ELSE 0
  <2>1. e \in Int /\ gone \in Int /\ slips * Worth \in Int /\ disk.pnl \in Int
        /\ slips' * Worth = slips * Worth + Worth
    <3>1. Cardinality(held \ {disk.open}) \in Nat
      BY <1>1, HeldFinite, Less
    <3>2. e \in Int /\ gone \in Int
      BY <3>1, CountedMoney, WorstIsWorst
    <3> QED BY <3>2, <1>1, Products, Fields
  <2>2. net - disk.pnl + e >= slips * Worth + gone + 0
    BY <1>1 DEF IInv, Stored
  <2>3. /\ net' - disk'.pnl + Cardinality(held' \ {disk'.open}) * Worst = net - disk.pnl + e
        /\ gone = IF disk'.open \notin held' \union {0} THEN Worst ELSE 0
    BY <1>1
  <2> HIDE DEF e, gone
  <2>4. net - disk.pnl + e >= (slips * Worth + Worth) + gone + 0
    BY <2>1, <2>2, <1>1, WorstIsWorst
  <2> QED BY <2>1, <2>3, <2>4, <1>1 DEF Stored
<1> QED BY <1>9, <1>10, <1>11, <1>12, <1>13 DEF IInv

LEMMA RecoverKeeps ==
  ASSUME IInv, Recover
  PROVE  IInv'
<1>1. CASE disk = NoBlock
  BY <1>1, RecoverNothing
<1>2. CASE disk # NoBlock
  <2>1. \/ /\ disk.open \in held \union {0}
           /\ st' = Governor
           /\ slips' = slips
        \/ /\ Slip
           /\ \E open \in {0} \union (held \intersect {disk.open}),
                 gov \in {Governor, disk, Zeros} : st' = [gov EXCEPT !.open = open]
    BY <1>2 DEF Recover, Zeros
  <2>2. CASE disk.open \in held \union {0} /\ st' = Governor /\ slips' = slips
    BY <1>2, <2>2, RecoverAll
  <2>3. CASE /\ Slip
             /\ \E open \in {0} \union (held \intersect {disk.open}),
                   gov \in {Governor, disk, Zeros} : st' = [gov EXCEPT !.open = open]
    <3>1. PICK open \in {0} \union (held \intersect {disk.open}),
               gov \in {Governor, disk, Zeros} : st' = [gov EXCEPT !.open = open]
      BY <2>3
    <3>2. slips' = slips + 1
      BY <2>3 DEF Slip
    <3> QED BY <1>2, <3>1, <3>2, RecoverPart
  <2> QED BY <2>1, <2>2, <2>3
<1> QED BY <1>1, <1>2

-----------------------------------------------------------------------------
(* The invariant is inductive.                                             *)

LEMMA Starts ==
  ASSUME Init
  PROVE  IInv
<1>1. /\ held = {} /\ taken = 0 /\ net = 0 /\ streak = 0 /\ deal = 0 /\ losses = 0
      /\ st = Fresh /\ disk = NoBlock /\ pc = "idle" /\ credit = 0 /\ slips = 0
  BY DEF Init
<1>2. Fresh \in Record /\ Blank(Fresh) /\ ~Fresh.anchored /\ NoBlock.open = -1
  BY Beginnings
<1>3. Shape
  BY <1>1, <1>2, Settings DEF Shape
<1>4. Kept
  BY <1>1, <1>2 DEF Kept, WellRun, Blank
<1>5. Own = 0 /\ ~Rebuilds /\ Orphans = {} /\ Cardinality(Orphans) = 0 /\ Cardinality(held) = 0
  BY <1>1, <1>2, FS_EmptySet DEF Own, Rebuilds, Orphans, Blank
<1>6. ~Unheard
  BY <1>5 DEF Unheard
<1>7. Fails = 0 /\ Purse = 0 /\ Entries = 0 /\ Avail = 0
  BY <1>1, <1>2, <1>5, <1>6 DEF Fails, Purse, Entries, Avail, Window, Blank
<1>8. Ahead = 0 /\ Due = 0
  <2>1. Phase(streak) = 0
    BY <1>1, PhaseOfNone
  <2> QED BY <2>1, <1>1, <1>7, Settings DEF Ahead, Due
<1>9. Spared /\ Streaks
  BY <1>1, <1>5, <1>8 DEF Spared, Streaks
<1>10. Counted
  BY <1>1, <1>7, Settings DEF Counted
<1>11. Funds /\ Funded
  <2>1. 0 * Worst = 0 /\ 0 * Worth = 0 /\ (1 + 0) * Worth = Worth /\ Worth <= 0
    BY WorstIsWorst
  <2> QED BY <2>1, <1>1, <1>5, <1>7, WorstIsWorst DEF Funds, Funded
<1>12. Stored
  BY <1>1 DEF Stored
<1>13. Budgeted
  BY <1>1, <1>7, Settings DEF Budgeted
<1> QED BY <1>3, <1>4, <1>9, <1>10, <1>11, <1>12, <1>13 DEF IInv

LEMMA Keeps ==
  ASSUME IInv, [Next]_vars
  PROVE  IInv'
<1>1. CASE \E t \in 1..MaxEntries, pnl \in Results : BrokerClose(t, pnl)
  <2>1. PICK t \in 1..MaxEntries, pnl \in Results : BrokerClose(t, pnl)
    BY <1>1
  <2>2. t \in held
    BY <2>1 DEF BrokerClose
  <2>3. CASE t = Own
    BY <2>1, <2>2, <2>3, OwnByBroker
  <2>4. CASE t # Own
    BY <2>1, <2>2, <2>4, OrphanByBroker
  <2> QED BY <2>3, <2>4
<1>2. CASE Drive
  BY <1>2, NoticeCloseKeeps, MissOpenKeeps, SeedKeeps, StartGapKeeps, PlantFreshKeeps, EnterKeeps,
     SendKeeps, MarkOpenKeeps DEF Drive
<1>3. CASE Flatten \/ ManualSeed \/ EarlyCommand \/ Recover
  BY <1>3, FlattenKeeps, ManualSeedKeeps, EarlyCommandKeeps, RecoverKeeps
<1>4. CASE Restart
  BY <1>4, RestartAnew, RestartFrom
<1>5. CASE CoolOff \/ EndOfDay \/ UNCHANGED vars
  <2>1. UNCHANGED <<broker, st, disk, pc, credit, slips>>
    BY <1>5 DEF CoolOff, EndOfDay, vars
  <2> QED BY <2>1, TimeKeeps
<1> QED BY <1>1, <1>2, <1>3, <1>4, <1>5 DEF Next

LEMMA Inductive == Spec => []IInv
<1>1. Init => IInv
  BY Starts
<1>2. IInv /\ [Next]_vars => IInv'
  BY Keeps
<1> QED BY <1>1, <1>2, PTL DEF Spec

-----------------------------------------------------------------------------
(* What the day promises.                                                  *)

\* What the closes of a day earn is never below the loss stop and one close past
\* it, and the same again for every failure: restarts re-arm nothing.
THEOREM LossIsBounded == Spec => []LossBounded
<1>1. IInv => LossBounded
  <2> SUFFICES ASSUME IInv PROVE LossBounded
    OBVIOUS
  <2>1. Cardinality(held) \in Nat /\ net \in Int /\ slips \in Nat
    BY Types DEF IInv, Shape
  <2>2. Cardinality(held) * Worst <= 0 * Worst
    BY <2>1, TimesDown, WorstIsWorst
  <2> DEFINE c == Cardinality(held) * Worst
  <2>3. c \in Int /\ c <= 0
    BY <2>1, <2>2, CountedMoney, WorstIsWorst
  <2>4. net + c >= (1 + slips) * Worth /\ (1 + slips) * Worth \in Int
    BY <2>1, WorstIsWorst, Times DEF IInv, Funded
  <2> HIDE DEF c
  <2>5. net >= (1 + slips) * Worth
    BY <2>1, <2>3, <2>4
  <2> QED BY <2>5 DEF LossBounded, Worth
<1> QED BY <1>1, Inductive, PTL

\* The entries of a day are those its anchors and its wins have earned, and one
\* window more for every failure.
THEOREM BudgetIsEarned == Spec => []BudgetEarned
<1>1. IInv => BudgetEarned
  <2> SUFFICES ASSUME IInv PROVE BudgetEarned
    OBVIOUS
  <2>1. /\ Avail \in Nat /\ taken \in Nat /\ taken <= MaxEntries /\ credit \in Nat
        /\ slips * Base \in Nat /\ MaxEntries \in Nat
    BY Types, Products, Settings DEF IInv, Shape
  <2>2. credit = MaxEntries \/ taken + Avail <= credit + slips * Base
    BY DEF IInv, Budgeted
  <2> QED BY <2>1, <2>2 DEF BudgetEarned
<1> QED BY <1>1, Inductive, PTL

\* What a step does to the broker's book.
LEMMA BookSteps ==
  ASSUME IInv, Next
  PROVE  /\ slips' \in {slips, slips + 1}
         /\ \/ UNCHANGED broker
            \/ \E t \in held, pnl \in Results : Gone(t, pnl)
            \/ pc = "sending" /\ Filled
<1>1. CASE \E t \in 1..MaxEntries, pnl \in Results : BrokerClose(t, pnl)
  BY <1>1 DEF BrokerClose
<1>2. CASE NoticeClose \/ MissOpen \/ Seed \/ StartGap \/ PlantFresh \/ Enter \/ MarkOpen
  BY <1>2 DEF NoticeClose, MissOpen, Seed, StartGap, PlantFresh, Enter, MarkOpen, Hunting, Slip
<1>3. CASE Send
  BY <1>3 DEF Send, Slip
<1>4. CASE Flatten
  <2>1. slips' \in {slips, slips + 1}
    BY <1>4 DEF Flatten, Slip
  <2>2. UNCHANGED broker \/ \E t \in held, pnl \in Results : Gone(t, pnl)
    BY <1>4 DEF Flatten
  <2> QED BY <2>1, <2>2
<1>5. CASE ManualSeed \/ EarlyCommand \/ Restart \/ Recover \/ CoolOff \/ EndOfDay
  BY <1>5 DEF ManualSeed, EarlyCommand, Restart, Recover, CoolOff, EndOfDay, Slip
<1> QED BY <1>1, <1>2, <1>3, <1>4, <1>5 DEF Next, Drive

\* Every step is one of the chain's, or none.
LEMMA ChainSteps ==
  ASSUME IInv, Next
  PROVE  Chain!Next
<1>1. Shape /\ Kept /\ slips' \in {slips, slips + 1}
  BY BookSteps DEF IInv
<1>2. CASE UNCHANGED broker
  <2>1. taken' = taken /\ Cardinality(held') = Cardinality(held) /\ losses' = losses
    BY <1>2 DEF broker
  <2> QED BY <2>1, <1>1 DEF Chain!Next, Chain!Slips
<1>3. CASE \E t \in held, pnl \in Results : Gone(t, pnl)
  <2>1. PICK t \in held, pnl \in Results : Gone(t, pnl)
    BY <1>3
  <2>2. /\ taken' = taken /\ Cardinality(held') = Cardinality(held) - 1
        /\ losses' \in {losses, losses + 1} /\ Cardinality(held) \in Nat /\ IsFiniteSet(held)
    BY <2>1, <1>1, GoneCounts, HeldFinite
  <2>3. Cardinality(held) > 0
    BY <2>1, <2>2, FS_EmptySet
  <2> QED BY <2>2, <2>3, <1>1 DEF Chain!Next, Chain!Slips, Chain!Close
<1>4. CASE pc = "sending" /\ Filled
  <2>1. /\ taken' = taken + 1 /\ Cardinality(held') = Cardinality(held) + 1 /\ losses' = losses
        /\ Cardinality(held) \in Nat
    BY <1>1, <1>4, FilledCounts
  <2>2. Orphans = held /\ Due = 0 /\ Entries = st.entries /\ st.entries < Cap /\ st \in Record
    BY <1>1, <1>4, AtSending
  <2>3. /\ slips \in Nat /\ losses \in Nat /\ taken \in Nat /\ Ahead \in {0, 1}
        /\ st.entries \in Nat
    BY <1>1, <2>2, Types, Fields DEF Shape
  <2>4. Cardinality(held) <= slips
    BY <2>2 DEF IInv, Spared
  <2>5. losses + Cardinality(held) + Ahead <= 2 * slips + 0
    BY <2>2 DEF IInv, Streaks
  <2>6. losses <= 2 * slips
    BY <2>1, <2>3, <2>5
  <2>7. taken < Cap * slips + Cap
    <3>1. taken <= Cap * slips + st.entries
      BY <2>2 DEF IInv, Counted
    <3> QED BY <3>1, <2>2, <2>3, <1>1, Products, Settings
  <2>8. \A s \in {slips, slips + 1} :
          Cardinality(held) <= s /\ losses <= 2 * s /\ taken < Cap * (1 + s)
    <3>1. Cardinality(held) <= slips + 1 /\ losses <= 2 * (slips + 1)
      BY <2>1, <2>3, <2>4, <2>6
    <3>2. taken < Cap * (1 + slips) /\ taken < Cap * (1 + (slips + 1))
      BY <2>3, <2>7, <1>1, Products, Settings
    <3> QED BY <3>1, <3>2, <2>4, <2>6
  <2>9. Cardinality(held) <= slips' /\ losses <= 2 * slips' /\ taken < Cap * (1 + slips')
    BY <2>8, <1>1
  <2> QED BY <2>1, <2>9, <1>1 DEF Chain!Next, Chain!Slips, Chain!Take
<1> QED BY <1>2, <1>3, <1>4, BookSteps

\* Refinement: the day of Fetcher keeps the promises of TradeChain.
THEOREM DayIsAChain == Spec => ImplementsChain
<1>1. Init => Chain!Init
  BY FS_EmptySet DEF Init, Chain!Init
<1>2. IInv /\ [Next]_vars => [Chain!Next]_<<taken, Cardinality(held), losses, slips>>
  <2> SUFFICES ASSUME IInv, [Next]_vars
               PROVE  [Chain!Next]_<<taken, Cardinality(held), losses, slips>>
    OBVIOUS
  <2>1. CASE UNCHANGED vars
    BY <2>1 DEF vars, broker
  <2> QED BY <2>1, ChainSteps
<1> QED BY <1>1, <1>2, Inductive, PTL DEF Spec, ImplementsChain, Chain!Spec

\* In numbers: one position, one cap of entries and one streak, and for every
\* failure one position, one cap and three streaks more.
THEOREM DayIsBounded == Spec => []Chain!Promise
<1>1. IInv => Chain!Promise
  <2> SUFFICES ASSUME IInv PROVE Chain!Promise
    OBVIOUS
  <2>1. /\ slips \in Nat /\ losses \in Nat /\ Cardinality(held) \in Nat
        /\ Cardinality(Orphans) \in Nat /\ Ahead \in {0, 1} /\ Due \in {0, 1}
        /\ Cardinality(held) <= Cardinality(Orphans) + 1
    BY Types DEF IInv, Shape
  <2>2. Cardinality(Orphans) <= slips
    BY DEF IInv, Spared
  <2>3. losses + Cardinality(Orphans) + Ahead <= 2 * slips + Due
    BY DEF IInv, Streaks
  <2>4. losses <= 1 + (1 + 2) * slips
    BY <2>1, <2>3
  <2> QED BY <2>1, <2>2, <2>4 DEF Chain!Promise, IInv, Counted
<1> QED BY <1>1, Inductive, PTL
=============================================================================
