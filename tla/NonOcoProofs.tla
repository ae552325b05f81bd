---------------------------- MODULE NonOcoProofs ----------------------------
(***************************************************************************)
(* The sessions of NonOco implement TradeChain, for any ladder, chain and  *)
(* number of slips.  What is counted is what a failure has left behind:    *)
(* before the flat hour the losses and the positions nobody follows are    *)
(* never more than the slips, but for one loss that the session is about   *)
(* to learn of or has ended on.                                            *)
(***************************************************************************)
EXTENDS NonOco, FiniteSetTheorems, TLAPS

\* The position the session follows; on a flip, none between its two orders.
Own == IF sess.state = "IN_POS" /\ pc # "reverse" THEN {sess.tk} ELSE {}
Orphans == DOMAIN held \ Own

\* The losses that count.
Counted == IF StopOnLoss THEN losses ELSE 0

\* The session's position is gone at a loss, and the next bar will tell.
Unheard == StopOnLoss /\ pc = "idle" /\ sess.state = "IN_POS" /\ sess.tk \notin DOMAIN held /\ deal

\* The one loss the session may have over the slips.
Due == IF Unheard \/ sess.state = "DONE" THEN 1 ELSE 0

Session ==
  [state : {"NONE", "WAIT_TOUCH", "OBSERVE", "IN_POS", "DONE"}, trades : 0..MaxChain,
   run : Nat, pending : BOOLEAN, tk : Nat, off : Int, peak : Int, opp : Nat]

Shape ==
  /\ entries \in Nat /\ losses \in Nat /\ slips \in Nat
  /\ clock \in {"early", "open", "cutoff", "flat"} /\ paper \in BOOLEAN /\ deal \in BOOLEAN
  /\ DOMAIN held \subseteq 1..entries
  /\ \A t \in DOMAIN held : held[t] \in Int
  /\ sess \in Session
  /\ sess.state = "NONE" => sess.trades = 0
  /\ sess.state \in {"WAIT_TOUCH", "OBSERVE"} => sess.trades < MaxChain
  /\ pc \in {"idle", "open", "opposite", "reverse"}
  /\ pc # "idle" => sess.state = "IN_POS"
  /\ pc = "reverse" => sess.trades < MaxChain /\ clock # "flat"
  /\ paper /\ sess.state = "IN_POS" /\ pc # "reverse" => sess.tk \in DOMAIN held

\* The session's stop is never behind the one at the broker.
Ahead == sess.state = "IN_POS" /\ sess.tk \in DOMAIN held => held[sess.tk] <= sess.off

\* What failures have cost so far.
Paid ==
  clock # "flat" =>
    /\ Counted + Cardinality(Orphans) <= slips + Due
    /\ entries <= MaxChain * slips + sess.trades

IInv == Shape /\ Ahead /\ Paid

-----------------------------------------------------------------------------
\* Positions and orphans are finite, and differ by the session's own position.
LEMMA Counts ==
  ASSUME Shape
  PROVE  /\ IsFiniteSet(DOMAIN held) /\ Cardinality(DOMAIN held) \in Nat
         /\ IsFiniteSet(Orphans) /\ Cardinality(Orphans) \in Nat
         /\ Counted \in Nat /\ Due \in {0, 1} /\ MaxChain \in Nat \ {0}
         /\ entries + 1 \notin DOMAIN held
<1>1. IsFiniteSet(1..entries)
  BY FS_Interval DEF Shape
<1>2. IsFiniteSet(DOMAIN held)
  BY <1>1, FS_Subset DEF Shape
<1>3. IsFiniteSet(Orphans)
  BY <1>2, FS_Subset DEF Orphans
<1>4. Cardinality(DOMAIN held) \in Nat /\ Cardinality(Orphans) \in Nat
  BY <1>2, <1>3, FS_CardinalityType
<1>5. Counted \in Nat /\ Due \in {0, 1} /\ MaxChain \in Nat \ {0}
  BY NonOcoBounds DEF Counted, Due, Shape, Session
<1>6. entries + 1 \notin DOMAIN held
  BY DEF Shape
<1> QED BY <1>2, <1>3, <1>4, <1>5, <1>6

\* A close takes one position away and adds at most one loss.
LEMMA GoneCounts ==
  ASSUME Shape, NEW t \in DOMAIN held, NEW loss \in BOOLEAN, NEW neutral \in BOOLEAN,
         Gone(t, loss, neutral)
  PROVE  /\ DOMAIN held' = DOMAIN held \ {t} /\ entries' = entries /\ losses' \in Nat
         /\ Cardinality(DOMAIN held') = Cardinality(DOMAIN held) - 1
         /\ \A u \in DOMAIN held' : held'[u] = held[u]
         /\ Counted' \in {Counted, Counted + 1}
         /\ neutral \/ ~loss => Counted' = Counted
         /\ StopOnLoss /\ t = sess.tk /\ ~neutral /\ Counted' # Counted => deal'
<1>1. /\ held' = [u \in DOMAIN held \ {t} |-> held[u]] /\ entries' = entries
      /\ losses' = (IF loss /\ ~neutral THEN losses + 1 ELSE losses)
      /\ deal' = IF t = sess.tk THEN loss ELSE deal
  BY DEF Gone, Restrict
<1>2. Cardinality(DOMAIN held \ {t}) = Cardinality(DOMAIN held) - 1
  BY Counts, FS_RemoveElement
<1> QED BY <1>1, <1>2 DEF Shape, Counted

\* A fill adds one position, with the initial stop.
LEMMA FillCounts ==
  ASSUME Shape, Filled
  PROVE  /\ DOMAIN held' = DOMAIN held \union {entries + 1} /\ entries' = entries + 1
         /\ Cardinality(DOMAIN held') = Cardinality(DOMAIN held) + 1
         /\ \A u \in DOMAIN held : held'[u] = held[u]
         /\ held'[entries + 1] = -Sl /\ -Sl \in Int
         /\ losses' = losses /\ Counted' = Counted /\ deal' = deal
<1>1. /\ held' = [t \in DOMAIN held \union {entries + 1} |->
                   IF t = entries + 1 THEN -Sl ELSE held[t]]
      /\ entries' = entries + 1 /\ UNCHANGED <<losses, deal>>
  BY DEF Filled
<1>2. Cardinality(DOMAIN held \union {entries + 1}) = Cardinality(DOMAIN held) + 1
  BY Counts, FS_AddElement
<1> QED BY <1>1, <1>2, Counts, NonOcoBounds DEF Counted

\* The three outcomes of a close at the market.
LEMMA MarketCloses ==
  ASSUME Shape, NEW t, NEW neutral \in BOOLEAN, MarketClose(t, neutral)
  PROVE  \/ t \in DOMAIN held /\ slips' = slips /\ \E loss \in BOOLEAN : Gone(t, loss, neutral)
         \/ t \in DOMAIN held /\ slips' = slips + 1 /\ UNCHANGED broker
         \/ t \notin DOMAIN held /\ slips' = slips /\ UNCHANGED broker
BY DEF MarketClose, Slip

-----------------------------------------------------------------------------
\* What the broker sees is a step of the chain.
LEMMA ChainSame ==
  ASSUME Shape, entries' = entries, DOMAIN held' = DOMAIN held, losses' = losses,
         slips' \in {slips, slips + 1}
  PROVE  Chain!Next
BY DEF Chain!Next, Chain!Slips

LEMMA ChainGone ==
  ASSUME Shape, NEW t \in DOMAIN held, NEW loss \in BOOLEAN, NEW neutral \in BOOLEAN,
         Gone(t, loss, neutral), slips' \in {slips, slips + 1}
  PROVE  Chain!Next
<1>1. /\ Cardinality(DOMAIN held') = Cardinality(DOMAIN held) - 1 /\ entries' = entries
      /\ Counted' \in {Counted, Counted + 1}
  BY GoneCounts
<1>2. Cardinality(DOMAIN held) > 0
  BY Counts, FS_EmptySet
<1>3. Chain!Close
  BY <1>1, <1>2 DEF Chain!Close, Counted
<1> QED BY <1>3 DEF Chain!Next, Chain!Slips

\* A failure costs a session one loss.
LEMMA Once == \A n \in Nat : 1 * n = n
OBVIOUS

\* An entry needs a session without a position, short of its cap, that has not
\* ended on a loss.
LEMMA ChainFill ==
  ASSUME IInv, Filled, clock # "flat", Own = {}, Due = 0, sess.trades < MaxChain,
         slips' \in {slips, slips + 1}
  PROVE  Chain!Next
<1>1. /\ Cardinality(DOMAIN held') = Cardinality(DOMAIN held) + 1 /\ entries' = entries + 1
      /\ Counted' = Counted
  BY FillCounts DEF IInv
<1>2. Orphans = DOMAIN held
  BY DEF Orphans
<1>3. /\ Counted + Cardinality(DOMAIN held) <= slips /\ entries <= MaxChain * slips + sess.trades
      /\ Counted \in Nat /\ Cardinality(DOMAIN held) \in Nat /\ slips \in Nat /\ entries \in Nat
      /\ sess.trades \in Nat /\ MaxChain \in Nat
  BY <1>2, Counts DEF IInv, Paid, Shape, Session
<1>4. Cardinality(DOMAIN held) <= slips' /\ Counted <= slips'
  BY <1>3
<1>5. entries < MaxChain * (1 + slips')
  <2>1. CASE slips' = slips
    <3>1. MaxChain * (1 + slips) = MaxChain * slips + MaxChain
      BY <1>3
    <3> QED BY <1>3, <2>1, <3>1
  <2>2. CASE slips' = slips + 1
    <3>1. MaxChain * (1 + (slips + 1)) = MaxChain * slips + MaxChain + MaxChain
      BY <1>3
    <3> QED BY <1>3, <2>2, <3>1
  <2> QED BY <2>1, <2>2
<1>6. Chain!Take
  <2>1. slips' \in Nat
    BY <1>3
  <2>2. 1 * slips' = slips'
    BY <2>1, Once
  <2> QED BY <1>1, <1>4, <1>5, <2>2 DEF Chain!Take, Counted
<1> QED BY <1>6 DEF Chain!Next, Chain!Slips

-----------------------------------------------------------------------------
\* What the session's own steps do to the fields that are counted.
LEMMA Windows ==
  ASSUME Shape
  PROVE  /\ Observing(sess) \in Session /\ Observing(sess).state = "OBSERVE"
         /\ Observing(sess).trades = sess.trades
         /\ Finished(sess) \in Session /\ Finished(sess).state = "DONE"
         /\ Finished(sess).trades = sess.trades
BY DEF Shape, Session, Observing, Finished

LEMMA Entered ==
  ASSUME Shape, sess.trades < MaxChain
  PROVE  /\ InPos(sess) \in Session /\ InPos(sess).state = "IN_POS"
         /\ InPos(sess).trades = sess.trades + 1
         /\ InPos(sess).tk = entries + 1 /\ InPos(sess).off = -Sl
<1>1. /\ -Sl \in Int /\ entries + 1 \in Nat /\ MaxChain \in Nat /\ sess.trades + 1 \in 0..MaxChain
  BY NonOcoBounds DEF Shape, Session
<1>2. InPos(sess) \in Session
  BY <1>1 DEF InPos, Session
<1> QED BY <1>2 DEF InPos

LEMMA Chained ==
  ASSUME Shape, NEW loss \in BOOLEAN, NEW neutral \in BOOLEAN
  PROVE  /\ Closed(sess, loss, neutral) \in Session
         /\ Closed(sess, loss, neutral).state \in {"OBSERVE", "DONE"}
         /\ Closed(sess, loss, neutral).trades = sess.trades
         /\ Closed(sess, loss, neutral).state = "OBSERVE" =>
              sess.trades < MaxChain /\ ~(StopOnLoss /\ loss /\ ~neutral)
<1>1. CASE sess.trades >= MaxChain \/ (StopOnLoss /\ loss /\ ~neutral)
  BY <1>1, Windows DEF Closed
<1>2. CASE ~(sess.trades >= MaxChain \/ (StopOnLoss /\ loss /\ ~neutral))
  <2>1. Closed(sess, loss, neutral) = Observing(sess)
    BY <1>2 DEF Closed
  <2>2. sess.trades \in 0..MaxChain /\ MaxChain \in Nat
    BY NonOcoBounds DEF Shape, Session
  <2> QED BY <1>2, <2>1, <2>2, Windows
<1> QED BY <1>1, <1>2

LEMMA Laddered ==
  ASSUME Shape, NEW fav \in 0..MaxPeak, NEW against \in BOOLEAN
  PROVE  LET s == Ladder(sess, fav) IN
         /\ s \in Session /\ s.off >= sess.off /\ s.state = sess.state
         /\ s.trades = sess.trades /\ s.tk = sess.tk
         /\ Against(s, against) \in Nat
<1> DEFINE s == Ladder(sess, fav)
           peak == IF fav > sess.peak THEN fav ELSE sess.peak
           off == IF LadderOff(peak) > sess.off THEN LadderOff(peak) ELSE sess.off
<1>1. peak \in Int
  BY NonOcoBounds DEF Shape, Session
<1>2. LadderOff(peak) \in Int
  <2> HIDE DEF peak
  <2> QED BY <1>1, NonOcoBounds DEF LadderOff
<1>3. off \in Int /\ off >= sess.off
  BY <1>2 DEF Shape, Session
<1>4. s = [sess EXCEPT !.peak = peak, !.off = off]
  BY DEF Ladder
<1>5. /\ s \in Session /\ s.off >= sess.off /\ s.state = sess.state
      /\ s.trades = sess.trades /\ s.tk = sess.tk /\ s.opp \in Nat
  <2> HIDE DEF peak, off, s
  <2> QED BY <1>1, <1>3, <1>4 DEF Shape, Session
<1>6. Against(s, against) \in Nat
  <2> HIDE DEF s
  <2> QED BY <1>5 DEF Against
<1> QED BY <1>5, <1>6

LEMMA Fresh ==
  /\ NoSession \in Session /\ NoSession.state = "NONE" /\ NoSession.trades = 0
  /\ LET s == [NoSession EXCEPT !.state = "WAIT_TOUCH"]
     IN s \in Session /\ s.state = "WAIT_TOUCH" /\ s.trades = 0
<1>1. -Sl \in Int /\ 0 \in 0..MaxChain
  BY NonOcoBounds
<1>2. NoSession \in Session
  BY <1>1 DEF Session, NoSession
<1>3. NoSession.state = "NONE" /\ NoSession.trades = 0
  BY DEF NoSession
<1>4. LET s == [NoSession EXCEPT !.state = "WAIT_TOUCH"]
      IN s \in Session /\ s.state = "WAIT_TOUCH" /\ s.trades = 0
  BY <1>2, <1>3 DEF Session
<1> QED BY <1>2, <1>3, <1>4

\* A close leaves the state well formed, whatever the session makes of it.
LEMMA ShapeGone ==
  ASSUME IInv, NEW t \in DOMAIN held, NEW loss \in BOOLEAN, NEW neutral \in BOOLEAN,
         Gone(t, loss, neutral), slips' \in Nat, UNCHANGED day, sess' \in Session,
         sess'.state = "NONE" => sess'.trades = 0,
         sess'.state \in {"WAIT_TOUCH", "OBSERVE"} => sess'.trades < MaxChain,
         pc' \in {"idle", "open", "opposite", "reverse"},
         pc' # "idle" => sess'.state = "IN_POS",
         pc' = "reverse" => sess'.trades < MaxChain /\ clock # "flat",
         paper => sess'.state # "IN_POS" \/ pc' = "reverse"
  PROVE  Shape'
<1>1. /\ DOMAIN held' = DOMAIN held \ {t} /\ entries' = entries /\ losses' \in Nat
      /\ \A u \in DOMAIN held' : held'[u] = held[u]
  BY GoneCounts DEF IInv
<1>2. deal' \in BOOLEAN
  BY DEF Gone, IInv, Shape
<1> QED BY <1>1, <1>2 DEF IInv, Shape, day

-----------------------------------------------------------------------------
(* One lemma for each kind of step: the invariant, and what the broker saw. *)

\* Nothing is bought or sold and the session keeps its count: what failures
\* have cost is paid for as before.
LEMMA Quiet ==
  ASSUME IInv, UNCHANGED <<held, entries, losses, slips>>, clock' = clock,
         Orphans' = Orphans, Due' >= Due, sess'.trades = sess.trades
  PROVE  Paid' /\ Chain!Next
<1>1. Chain!Next
  BY ChainSame DEF IInv, Shape
<1>2. Counted \in Nat /\ Due \in {0, 1} /\ Cardinality(Orphans) \in Nat /\ slips \in Nat
  BY Counts DEF IInv, Shape
<1>3. Due' \in {0, 1}
  BY DEF Due
<1>4. Counted' = Counted
  BY DEF Counted
<1>5. Paid'
  BY <1>2, <1>3, <1>4 DEF IInv, Paid
<1> QED BY <1>1, <1>5

\* The same, when a failure goes unseen: it pays for one orphan, or for the
\* loss the session had over.
LEMMA Slipped ==
  ASSUME IInv, UNCHANGED <<held, entries, losses>>, clock' = clock, slips' = slips + 1,
         sess'.trades \in 0..MaxChain, sess'.trades = sess.trades \/ sess'.trades = 0,
         Orphans' \subseteq Orphans \/ (Due' >= Due /\ \E x : Orphans' \subseteq Orphans \union {x})
  PROVE  Paid' /\ Chain!Next
<1>1. Chain!Next
  BY ChainSame DEF IInv, Shape
<1>2. /\ Counted \in Nat /\ Due \in {0, 1} /\ Cardinality(Orphans) \in Nat /\ slips \in Nat
      /\ IsFiniteSet(Orphans) /\ MaxChain \in Nat \ {0} /\ sess.trades \in 0..MaxChain /\ entries \in Nat
  BY Counts DEF IInv, Shape, Session
<1>3. Due' \in {0, 1}
  BY DEF Due
<1>4. Counted' = Counted
  BY DEF Counted
<1>5. ASSUME Orphans' \subseteq Orphans
      PROVE  Cardinality(Orphans') \in Nat /\ Cardinality(Orphans') <= Cardinality(Orphans)
  BY <1>2, <1>5, FS_Subset, FS_CardinalityType
<1>6. ASSUME NEW x, Orphans' \subseteq Orphans \union {x}
      PROVE  Cardinality(Orphans') \in Nat /\ Cardinality(Orphans') <= Cardinality(Orphans) + 1
  <2>1. /\ IsFiniteSet(Orphans \union {x})
        /\ Cardinality(Orphans \union {x}) = Cardinality(Orphans)
           \/ Cardinality(Orphans \union {x}) = Cardinality(Orphans) + 1
    BY <1>2, FS_AddElement
  <2>2. /\ IsFiniteSet(Orphans')
        /\ Cardinality(Orphans') <= Cardinality(Orphans \union {x})
    BY <1>6, <2>1, FS_Subset
  <2>3. Cardinality(Orphans') \in Nat
    BY <2>2, FS_CardinalityType
  <2> QED BY <1>2, <2>1, <2>2, <2>3
<1>7. /\ Cardinality(Orphans') \in Nat
      /\ Cardinality(Orphans') <= Cardinality(Orphans) + 1
      /\ Cardinality(Orphans') <= Cardinality(Orphans) \/ Due' >= Due
  BY <1>2, <1>5, <1>6
<1>8. MaxChain * (slips + 1) = MaxChain * slips + MaxChain /\ MaxChain * slips \in Nat
  BY <1>2
<1>9. Paid'
  <2> SUFFICES ASSUME clock # "flat"
               PROVE  /\ Counted' + Cardinality(Orphans') <= slips' + Due'
                      /\ entries' <= MaxChain * slips' + sess'.trades
    BY DEF Paid
  <2>1. Counted + Cardinality(Orphans) <= slips + Due /\ entries <= MaxChain * slips + sess.trades
    BY DEF IInv, Paid
  <2>2. Counted' + Cardinality(Orphans') <= slips' + Due'
    BY <1>2, <1>3, <1>4, <1>7, <2>1
  <2>3. entries' <= MaxChain * slips' + sess'.trades
    BY <1>2, <1>8, <2>1
  <2> QED BY <2>2, <2>3
<1> QED BY <1>1, <1>9

-----------------------------------------------------------------------------
(* One lemma for each kind of step: the invariant, and what the broker saw. *)

\* The steps of a session without a position, and a lost signal.
LEMMA SetupKeeps ==
  ASSUME IInv, UNCHANGED <<day, broker, pc, slips>>, sess' \in Session,
         sess.state \notin {"IN_POS", "DONE"}, sess'.state \notin {"NONE", "IN_POS"},
         sess'.trades = sess.trades,
         sess'.state \in {"WAIT_TOUCH", "OBSERVE"} => sess.trades < MaxChain
  PROVE  IInv' /\ Chain!Next
<1>1. Shape'
  BY DEF IInv, Shape, day, broker
<1>2. Ahead'
  BY DEF Ahead
<1>3. Own' = {} /\ Own = {} /\ Due' \in {0, 1} /\ Due = 0
  BY DEF Own, Due, Unheard
<1>4. Orphans' = Orphans /\ Due' >= Due
  BY <1>3 DEF Orphans, broker
<1>5. Paid' /\ Chain!Next
  BY <1>4, Quiet DEF broker, day
<1> QED BY <1>1, <1>2, <1>5 DEF IInv

LEMMA ArmSessionKeeps ==
  ASSUME IInv, ArmSession PROVE IInv' /\ Chain!Next
<1>1. sess' \in Session /\ sess'.state = "WAIT_TOUCH" /\ sess'.trades = 0 /\ sess.trades = 0
  <2>1. sess.trades = 0
    BY DEF IInv, Shape, ArmSession
  <2> QED BY <2>1, Fresh DEF ArmSession
<1>2. UNCHANGED <<day, broker, pc, slips>> /\ sess.state = "NONE"
  BY DEF ArmSession
<1>3. 0 < MaxChain
  BY NonOcoBounds
<1> QED BY <1>1, <1>2, <1>3, SetupKeeps

LEMMA ExpireKeeps ==
  ASSUME IInv, Expire PROVE IInv' /\ Chain!Next
BY Windows, SetupKeeps DEF IInv, Expire, SetupBar

LEMMA TouchKeeps ==
  ASSUME IInv, Touch PROVE IInv' /\ Chain!Next
BY Windows, SetupKeeps DEF IInv, Touch, SetupBar, Shape

LEMMA CountKeeps ==
  ASSUME IInv, Count PROVE IInv' /\ Chain!Next
<1>1. PICK run \in {0, 1, sess.run + 1} : sess' = [sess EXCEPT !.run = run]
  BY DEF Count
<1>2. run \in Nat
  BY DEF IInv, Shape, Session
<1>3. sess' \in Session /\ sess'.state = sess.state /\ sess'.trades = sess.trades
  BY <1>1, <1>2 DEF IInv, Shape, Session
<1>4. sess.state = "OBSERVE" /\ sess.trades < MaxChain /\ UNCHANGED <<day, broker, pc, slips>>
  BY DEF Count, Watching, IInv, Shape
<1> QED BY <1>3, <1>4, SetupKeeps

LEMMA PaperSignalKeeps ==
  ASSUME IInv, PaperSignal PROVE IInv' /\ Chain!Next
<1>1. sess' \in Session /\ sess'.state = sess.state /\ sess'.trades = sess.trades
  BY DEF PaperSignal, IInv, Shape, Session
<1>2. sess.state = "OBSERVE" /\ sess.trades < MaxChain /\ UNCHANGED <<day, broker, pc, slips>>
  BY DEF PaperSignal, Confirmed, Watching, IInv, Shape
<1> QED BY <1>1, <1>2, SetupKeeps

\* An order that is filled, known to the session.
LEMMA EnterKeeps ==
  ASSUME IInv, Filled, sess' = InPos(sess), slips' = slips, UNCHANGED day, pc' \in {"idle", "open"},
         clock # "flat", Own = {}, Due = 0, sess.trades < MaxChain
  PROVE  IInv' /\ Chain!Next
<1>1. /\ sess' \in Session /\ sess'.state = "IN_POS" /\ sess'.trades = sess.trades + 1
      /\ sess'.tk = entries + 1 /\ sess'.off = -Sl
  BY Entered DEF IInv
<1>2. /\ DOMAIN held' = DOMAIN held \union {entries + 1} /\ entries' = entries + 1
      /\ \A u \in DOMAIN held : held'[u] = held[u]
      /\ held'[entries + 1] = -Sl /\ -Sl \in Int
      /\ losses' = losses /\ Counted' = Counted /\ deal' = deal
  BY FillCounts DEF IInv
<1>3. Shape'
  <2>1. entries + 1 \in Nat /\ DOMAIN held' \subseteq 1..(entries + 1)
    BY <1>2 DEF IInv, Shape
  <2>2. \A t \in DOMAIN held' : held'[t] \in Int
    BY <1>2 DEF IInv, Shape
  <2> QED BY <1>1, <1>2, <2>1, <2>2 DEF IInv, Shape, day
<1>4. Ahead'
  BY <1>1, <1>2 DEF Ahead
<1>5. Orphans' = Orphans
  BY <1>1, <1>2, Counts DEF Orphans, Own, IInv
<1>6. Due' = 0
  BY <1>1, <1>2 DEF Due, Unheard
<1>7. Paid'
  <2>1. /\ entries \in Nat /\ slips \in Nat /\ sess.trades \in Nat /\ MaxChain \in Nat
        /\ MaxChain * slips \in Nat
    BY Counts DEF IInv, Shape, Session
  <2>2. entries <= MaxChain * slips + sess.trades /\ Counted + Cardinality(Orphans) <= slips + Due
    BY DEF IInv, Paid
  <2>3. entries + 1 <= MaxChain * slips + (sess.trades + 1)
    BY <2>1, <2>2
  <2> QED BY <1>1, <1>2, <1>5, <1>6, <2>2, <2>3 DEF Paid
<1>8. Chain!Next
  BY ChainFill DEF IInv, Shape
<1> QED BY <1>3, <1>4, <1>7, <1>8 DEF IInv

\* An order that is filled behind a lost answer: the window it came from, or the
\* next one, is open.
LEMMA FillUnseen ==
  ASSUME IInv, Filled, Slip, UNCHANGED day, pc' = "idle", sess' \in Session,
         sess'.state = "OBSERVE", sess'.trades = sess.trades, sess.trades < MaxChain,
         ~paper, clock # "flat", Own = {}, Due = 0
  PROVE  IInv' /\ Chain!Next
<1>1. slips' = slips + 1
  BY DEF Slip
<1>2. /\ DOMAIN held' = DOMAIN held \union {entries + 1} /\ entries' = entries + 1
      /\ Cardinality(DOMAIN held') = Cardinality(DOMAIN held) + 1
      /\ \A u \in DOMAIN held : held'[u] = held[u]
      /\ held'[entries + 1] = -Sl /\ -Sl \in Int
      /\ losses' = losses /\ Counted' = Counted /\ deal' = deal
  BY FillCounts DEF IInv
<1>3. Shape'
  <2>1. entries + 1 \in Nat /\ DOMAIN held' \subseteq 1..(entries + 1)
    BY <1>2 DEF IInv, Shape
  <2>2. \A t \in DOMAIN held' : held'[t] \in Int
    BY <1>2 DEF IInv, Shape
  <2> QED BY <1>1, <1>2, <2>1, <2>2 DEF IInv, Shape, day
<1>4. Ahead'
  BY DEF Ahead
<1>5. Orphans = DOMAIN held /\ Orphans' = DOMAIN held' /\ Due' = 0
  BY DEF Orphans, Own, Due, Unheard
<1>6. /\ entries \in Nat /\ slips \in Nat /\ sess.trades \in Nat /\ MaxChain \in Nat \ {0}
      /\ Counted \in Nat /\ Cardinality(DOMAIN held) \in Nat
  BY Counts DEF IInv, Shape, Session
<1>7. MaxChain * (slips + 1) = MaxChain * slips + MaxChain /\ MaxChain * slips \in Nat
  BY <1>6
<1>8. /\ entries <= MaxChain * slips + sess.trades
      /\ Counted + Cardinality(DOMAIN held) <= slips + 0
  BY <1>5 DEF IInv, Paid
<1>9. /\ entries + 1 <= MaxChain * (slips + 1) + sess.trades
      /\ Counted + (Cardinality(DOMAIN held) + 1) <= (slips + 1) + 0
  BY <1>6, <1>7, <1>8
<1>10. Paid'
  BY <1>1, <1>2, <1>5, <1>9 DEF Paid
<1>11. Chain!Next
  BY <1>1, ChainFill
<1> QED BY <1>3, <1>4, <1>10, <1>11 DEF IInv

LEMMA PaperEnterKeeps ==
  ASSUME IInv, PaperEnter PROVE IInv' /\ Chain!Next
<1>1. sess.state \in {"WAIT_TOUCH", "OBSERVE"} /\ clock # "flat"
  BY DEF PaperEnter, SetupBar
<1>2. sess.trades < MaxChain /\ Own = {} /\ Due = 0
  BY <1>1 DEF IInv, Shape, Own, Due, Unheard
<1> QED BY <1>1, <1>2, EnterKeeps DEF PaperEnter

\* A signal: filled, rejected, or filled behind a lost answer.
LEMMA SignalKeeps ==
  ASSUME IInv, Signal PROVE IInv' /\ Chain!Next
<1>1. /\ sess.state = "OBSERVE" /\ clock # "flat" /\ UNCHANGED <<day, pc>> /\ ~paper
      /\ pc = "idle"
  BY DEF Signal, Confirmed, Watching, SetupBar
<1>2. sess.trades < MaxChain /\ Own = {} /\ Due = 0
  BY <1>1 DEF IInv, Shape, Own, Due, Unheard
<1>3. CASE Filled /\ UNCHANGED slips /\ sess' = InPos(sess)
  BY <1>1, <1>2, <1>3, EnterKeeps DEF Signal
<1>4. ASSUME sess' = [sess EXCEPT !.run = 0]
      PROVE  sess' \in Session /\ sess'.state = sess.state /\ sess'.trades = sess.trades
  BY <1>4 DEF IInv, Shape, Session
<1>5. CASE UNCHANGED <<broker, slips>> /\ sess' = [sess EXCEPT !.run = 0]
  BY <1>1, <1>2, <1>4, <1>5, SetupKeeps
<1>6. CASE Filled /\ Slip /\ sess' = [sess EXCEPT !.run = 0]
  BY <1>1, <1>2, <1>4, <1>6, FillUnseen
<1> QED BY <1>3, <1>5, <1>6 DEF Signal

LEMMA ReverseKeeps ==
  ASSUME IInv, Reverse PROVE IInv' /\ Chain!Next
<1>1. /\ pc = "reverse" /\ pc' = "idle" /\ UNCHANGED day /\ sess.state = "IN_POS"
      /\ sess.trades < MaxChain /\ clock # "flat"
  BY DEF Reverse, IInv, Shape
<1>2. Own = {} /\ Due = 0
  BY <1>1 DEF Own, Due, Unheard
<1>3. CASE Filled /\ UNCHANGED slips /\ sess' = InPos(sess)
  BY <1>1, <1>2, <1>3, EnterKeeps
<1>4. CASE ~paper /\ UNCHANGED <<broker, slips>> /\ sess' = Observing(sess)
  <2>1. sess' \in Session /\ sess'.state = "OBSERVE" /\ sess'.trades = sess.trades
    BY <1>4, Windows DEF IInv
  <2>2. Shape'
    BY <1>1, <1>4, <2>1 DEF IInv, Shape, day, broker
  <2>3. Ahead'
    BY <2>1 DEF Ahead
  <2>4. Own' = {} /\ Due' = 0
    BY <2>1 DEF Own, Due, Unheard
  <2>5. Orphans' = Orphans /\ Due' >= Due
    BY <1>2, <1>4, <2>4 DEF Orphans, broker
  <2>6. Paid' /\ Chain!Next
    BY <1>1, <1>4, <2>1, <2>5, Quiet DEF broker, day
  <2> QED BY <2>2, <2>3, <2>6 DEF IInv
<1>5. CASE ~paper /\ Filled /\ Slip /\ sess' = Observing(sess)
  <2>1. sess' \in Session /\ sess'.state = "OBSERVE" /\ sess'.trades = sess.trades
    BY <1>5, Windows DEF IInv
  <2> QED BY <1>1, <1>2, <1>5, <2>1, FillUnseen
<1> QED BY <1>3, <1>4, <1>5 DEF Reverse

-----------------------------------------------------------------------------
\* The ticket is gone: the deal that says so is the one that was counted.
LEMMA NoticeExitKeeps ==
  ASSUME IInv, NoticeExit PROVE IInv' /\ Chain!Next
<1>1. /\ ~paper /\ pc = "idle" /\ sess.state = "IN_POS" /\ UNCHANGED <<day, broker, pc>>
  BY DEF NoticeExit
<1>2. ASSUME NEW loss \in BOOLEAN, sess' = Closed(sess, loss, FALSE)
      PROVE  /\ sess' \in Session /\ sess'.state \in {"OBSERVE", "DONE"} /\ sess'.trades = sess.trades
             /\ sess'.state = "OBSERVE" => sess.trades < MaxChain /\ ~(StopOnLoss /\ loss)
  BY <1>2, Chained DEF IInv
<1>3. ASSUME sess' \in Session, sess'.state \in {"OBSERVE", "DONE"}, sess'.trades = sess.trades,
             sess'.state = "OBSERVE" => sess.trades < MaxChain, slips' \in Nat
      PROVE  Shape' /\ Ahead' /\ Own' = {} /\ Orphans' = DOMAIN held
  <2>1. Shape'
    BY <1>1, <1>3 DEF IInv, Shape, day, broker
  <2>2. Ahead' /\ Own' = {} /\ Orphans' = DOMAIN held
    BY <1>1, <1>3 DEF Ahead, Own, Orphans, broker
  <2> QED BY <2>1, <2>2
<1>4. CASE sess.tk \notin DOMAIN held /\ sess' = Closed(sess, deal, FALSE) /\ UNCHANGED slips
  <2>1. deal \in BOOLEAN
    BY DEF IInv, Shape
  <2>2. /\ sess' \in Session /\ sess'.state \in {"OBSERVE", "DONE"} /\ sess'.trades = sess.trades
        /\ sess'.state = "OBSERVE" => sess.trades < MaxChain /\ ~(StopOnLoss /\ deal)
    BY <1>2, <1>4, <2>1
  <2>3. Shape' /\ Ahead' /\ Own' = {} /\ Orphans' = DOMAIN held
    BY <1>3, <1>4, <2>2 DEF IInv, Shape
  <2>4. Orphans' = Orphans
    BY <1>1, <1>4, <2>3 DEF Orphans, Own
  <2>5. Due' >= Due
    BY <1>1, <2>2 DEF Due, Unheard
  <2>6. Paid' /\ Chain!Next
    BY <1>1, <1>4, <2>2, <2>4, <2>5, Quiet DEF broker, day
  <2> QED BY <2>3, <2>6 DEF IInv
<1>5. CASE sess' = Closed(sess, sess.off < 0, FALSE) /\ Slip
  <2>1. (sess.off < 0) \in BOOLEAN /\ slips' = slips + 1 /\ slips' \in Nat
    BY <1>5 DEF Slip, IInv, Shape
  <2>2. /\ sess' \in Session /\ sess'.state \in {"OBSERVE", "DONE"} /\ sess'.trades = sess.trades
        /\ sess'.state = "OBSERVE" => sess.trades < MaxChain
    BY <1>2, <1>5, <2>1
  <2>3. Shape' /\ Ahead' /\ Own' = {} /\ Orphans' = DOMAIN held
    BY <1>3, <2>1, <2>2
  <2>4. Orphans' \subseteq Orphans \/ (Due' >= Due /\ \E x : Orphans' \subseteq Orphans \union {x})
    <3>1. CASE sess.tk \in DOMAIN held
      <4>1. Orphans' \subseteq Orphans \union {sess.tk}
        BY <1>1, <2>3 DEF Orphans, Own
      <4>2. Due = 0 /\ Due' \in {0, 1}
        BY <1>1, <3>1 DEF Due, Unheard
      <4> QED BY <4>1, <4>2
    <3>2. CASE sess.tk \notin DOMAIN held
      BY <1>1, <2>3, <3>2 DEF Orphans, Own
    <3> QED BY <3>1, <3>2
  <2>5. Paid' /\ Chain!Next
    <3>1. sess.trades \in 0..MaxChain
      BY DEF IInv, Shape, Session
    <3> QED BY <1>1, <2>1, <2>2, <2>4, <3>1, Slipped DEF broker, day
  <2> QED BY <2>3, <2>5 DEF IInv
<1> QED BY <1>4, <1>5 DEF NoticeExit

LEMMA FindOpenKeeps ==
  ASSUME IInv, FindOpen PROVE IInv' /\ Chain!Next
<1>1. /\ pc = "idle" /\ sess.state = "IN_POS" /\ pc' = "open" /\ UNCHANGED <<day, broker, sess>>
  BY DEF FindOpen
<1>2. /\ slips' \in Nat
      /\ \/ sess.tk \in DOMAIN held /\ slips' = slips
         \/ sess.tk \notin DOMAIN held /\ slips' = slips + 1
  <2>1. IF sess.tk \in DOMAIN held THEN slips' = slips ELSE slips' = slips + 1
    BY DEF FindOpen, Slip
  <2>2. slips \in Nat
    BY DEF IInv, Shape
  <2> QED BY <2>1, <2>2
<1>3. Shape'
  BY <1>1, <1>2 DEF IInv, Shape, day, broker
<1>4. Ahead'
  BY <1>1 DEF IInv, Ahead, broker
<1>5. Orphans' = Orphans
  BY <1>1 DEF Orphans, Own, broker
<1>6. CASE sess.tk \in DOMAIN held /\ slips' = slips
  <2>1. Due' >= Due
    BY <1>1, <1>6 DEF Due, Unheard
  <2> QED BY <1>1, <1>3, <1>4, <1>5, <1>6, <2>1, Quiet DEF IInv, broker, day
<1>7. CASE sess.tk \notin DOMAIN held /\ slips' = slips + 1
  <2>1. sess.trades \in 0..MaxChain
    BY DEF IInv, Shape, Session
  <2> QED BY <1>1, <1>3, <1>4, <1>5, <1>7, <2>1, Slipped DEF IInv, broker, day
<1> QED BY <1>2, <1>6, <1>7

\* At the flat hour nothing is counted any more.
LEMMA FlatCloseKeeps ==
  ASSUME IInv, FlatClose PROVE IInv' /\ Chain!Next
<1>1. /\ pc = "open" /\ clock = "flat" /\ sess.state = "IN_POS" /\ pc' = "idle" /\ UNCHANGED day
      /\ MarketClose(sess.tk, FALSE)
  BY DEF FlatClose, PastFlat, IInv, Shape
<1>2. PICK loss \in BOOLEAN : sess' = IF paper THEN Finished(sess) ELSE Closed(sess, loss, FALSE)
  BY DEF FlatClose
<1>3. /\ sess' \in Session /\ sess'.state \in {"OBSERVE", "DONE"}
      /\ sess'.state = "OBSERVE" => sess.trades < MaxChain
      /\ sess'.trades = sess.trades
  BY <1>2, Windows, Chained DEF IInv
<1>4. Ahead'
  BY <1>3 DEF Ahead
<1>5. Paid'
  BY <1>1 DEF Paid, day
<1>6. CASE UNCHANGED broker /\ slips' \in {slips, slips + 1}
  <2>1. Shape'
    BY <1>1, <1>3, <1>6 DEF IInv, Shape, day, broker
  <2>2. Chain!Next
    BY <1>6, ChainSame DEF IInv, Shape, broker
  <2> QED BY <1>4, <1>5, <2>1, <2>2 DEF IInv
<1>7. ASSUME sess.tk \in DOMAIN held, slips' = slips, NEW won \in BOOLEAN, Gone(sess.tk, won, FALSE)
      PROVE  IInv' /\ Chain!Next
  <2>1. sess'.trades = sess.trades /\ slips' \in Nat /\ FALSE \in BOOLEAN
    BY <1>3, <1>7 DEF IInv, Shape
  <2>2. Shape'
    BY <1>1, <1>3, <1>7, <2>1, ShapeGone
  <2>3. Chain!Next
    BY <1>7, <2>1, ChainGone DEF IInv
  <2> QED BY <1>4, <1>5, <2>2, <2>3 DEF IInv
<1> QED BY <1>1, <1>6, <1>7, MarketCloses DEF IInv

LEMMA PaperStopKeeps ==
  ASSUME IInv, PaperStop PROVE IInv' /\ Chain!Next
<1> DEFINE loss == sess.off < 0
<1>1. /\ paper /\ pc = "open" /\ sess.state = "IN_POS" /\ pc' = "idle" /\ UNCHANGED <<day, slips>>
      /\ sess.tk \in DOMAIN held /\ loss \in BOOLEAN
      /\ Gone(sess.tk, loss, FALSE) /\ sess' = Closed(sess, loss, FALSE)
  <2>1. /\ paper /\ pc = "open" /\ pc' = "idle" /\ UNCHANGED <<day, slips>>
        /\ Gone(sess.tk, loss, FALSE) /\ sess' = Closed(sess, loss, FALSE)
    BY DEF PaperStop
  <2>2. sess.state = "IN_POS" /\ sess.tk \in DOMAIN held
    BY <2>1 DEF IInv, Shape
  <2>3. loss \in BOOLEAN
    OBVIOUS
  <2> HIDE DEF loss
  <2> QED BY <2>1, <2>2, <2>3
<1> HIDE DEF loss
<1>2. /\ sess' \in Session /\ sess'.state \in {"OBSERVE", "DONE"} /\ sess'.trades = sess.trades
      /\ sess'.state = "OBSERVE" => sess.trades < MaxChain /\ ~(StopOnLoss /\ loss)
  BY <1>1, Chained DEF IInv
<1>3. Shape'
  <2>1. slips' \in Nat /\ FALSE \in BOOLEAN
    BY <1>1 DEF IInv, Shape
  <2> QED BY <1>1, <1>2, <2>1, ShapeGone
<1>4. Ahead'
  BY <1>2 DEF Ahead
<1>5. /\ DOMAIN held' = DOMAIN held \ {sess.tk} /\ entries' = entries
      /\ Counted' \in {Counted, Counted + 1}
      /\ ~loss => Counted' = Counted
      /\ ~StopOnLoss => Counted' = Counted
  BY <1>1, GoneCounts DEF IInv, Counted
<1>6. Orphans' = Orphans
  BY <1>1, <1>2, <1>5 DEF Orphans, Own
<1>7. /\ Due = 0 /\ Due' = IF sess'.state = "DONE" THEN 1 ELSE 0
  BY <1>1, <1>2 DEF Due, Unheard
<1>8. Counted' <= Counted + Due' /\ Due' \in {0, 1} /\ Counted \in Nat /\ Counted' \in Nat
  BY <1>2, <1>5, <1>7, Counts DEF IInv
<1>9. Paid'
  <2>1. Cardinality(Orphans) \in Nat /\ slips \in Nat
    BY Counts DEF IInv, Shape
  <2>2. clock # "flat" => /\ Counted + Cardinality(Orphans) <= slips + 0
                          /\ entries <= MaxChain * slips + sess.trades
    BY <1>7 DEF IInv, Paid
  <2>3. clock' = clock /\ slips' = slips
    BY <1>1 DEF day
  <2> HIDE DEF Paid
  <2>4. ASSUME clock # "flat" PROVE Counted' + Cardinality(Orphans) <= slips + Due'
    <3>1. Counted + Cardinality(Orphans) <= slips
      BY <2>1, <2>2, <2>4
    <3>2. ASSUME NEW a \in Nat, NEW b \in Nat, NEW c \in Nat, NEW d \in Nat, NEW o \in Nat,
                 a <= b + d, b + o <= c
          PROVE  a + o <= c + d
      BY <3>2
    <3> QED BY <1>8, <2>1, <3>1, <3>2
  <2> QED BY <1>2, <1>5, <1>6, <2>2, <2>3, <2>4 DEF Paid
<1>10. Chain!Next
  BY <1>1, ChainGone DEF IInv
<1> QED BY <1>3, <1>4, <1>9, <1>10 DEF IInv

LEMMA ManageKeeps ==
  ASSUME IInv, Manage PROVE IInv' /\ Chain!Next
<1>1. PICK fav \in 0..MaxPeak, against \in BOOLEAN, pushed \in BOOLEAN :
        LET s   == Ladder(sess, fav)
            opp == Against(s, against)
        IN /\ sess' = [s EXCEPT !.opp = opp]
           /\ held' = IF sess.tk \in DOMAIN held /\ s.off # sess.off /\ (pushed \/ paper)
                      THEN [held EXCEPT ![sess.tk] = s.off] ELSE held
           /\ pc' = IF OppositeCandles > 0 /\ s.off = -Sl /\ opp >= OppositeCandles
                    THEN "opposite" ELSE "idle"
  BY DEF Manage
<1> DEFINE s == Ladder(sess, fav)
<1>2. /\ s \in Session /\ s.off >= sess.off /\ s.state = sess.state
      /\ s.trades = sess.trades /\ s.tk = sess.tk /\ Against(s, against) \in Nat
  BY Laddered DEF IInv
<1>3. /\ sess' = [s EXCEPT !.opp = Against(s, against)]
      /\ held' = (IF sess.tk \in DOMAIN held /\ s.off # sess.off /\ (pushed \/ paper)
                  THEN [held EXCEPT ![sess.tk] = s.off] ELSE held)
      /\ pc' \in {"opposite", "idle"}
  BY <1>1
<1>4. pc = "open" /\ sess.state = "IN_POS" /\ UNCHANGED <<day, entries, losses, deal, slips>>
  BY DEF Manage, IInv, Shape
<1> HIDE DEF s
<1>5. /\ sess' \in Session /\ sess'.state = "IN_POS" /\ sess'.trades = sess.trades
      /\ sess'.tk = sess.tk /\ sess'.off = s.off
  BY <1>2, <1>3, <1>4 DEF Session
<1>6. s.off \in Int /\ sess.off \in Int
  BY <1>2 DEF IInv, Shape, Session
<1>7. /\ DOMAIN held' = DOMAIN held
      /\ \A t \in DOMAIN held : t # sess.tk => held'[t] = held[t]
      /\ sess.tk \in DOMAIN held => held'[sess.tk] \in {s.off, held[sess.tk]}
  BY <1>3
<1>8. Shape'
  <2>1. \A t \in DOMAIN held' : held'[t] \in Int
    BY <1>6, <1>7 DEF IInv, Shape
  <2> QED BY <1>3, <1>4, <1>5, <1>7, <2>1 DEF IInv, Shape, day
<1>9. Ahead'
  <2> SUFFICES ASSUME sess.tk \in DOMAIN held PROVE held'[sess.tk] <= s.off
    BY <1>5, <1>7 DEF Ahead
  <2>1. held[sess.tk] <= sess.off /\ held[sess.tk] \in Int
    BY <1>4 DEF IInv, Ahead, Shape
  <2> QED BY <1>2, <1>6, <1>7, <2>1
<1>10. Orphans' = Orphans
  BY <1>3, <1>4, <1>5, <1>7 DEF Orphans, Own
<1>11. Due = 0 /\ Due' \in {0, 1}
  BY <1>4 DEF Due, Unheard
<1>12. Chain!Next
  BY <1>4, <1>7, ChainSame DEF IInv, Shape
<1>13. Paid'
  <2>1. Counted \in Nat /\ Cardinality(Orphans) \in Nat /\ slips \in Nat /\ Counted' = Counted
    BY <1>4, Counts DEF IInv, Shape, Counted
  <2>2. clock # "flat" => /\ Counted + Cardinality(Orphans) <= slips + Due
                          /\ entries <= MaxChain * slips + sess.trades
    BY DEF IInv, Paid
  <2>3. clock # "flat" => Counted + Cardinality(Orphans) <= slips + Due'
    BY <1>11, <2>1, <2>2
  <2> QED BY <1>4, <1>5, <1>10, <2>1, <2>2, <2>3 DEF Paid, day
<1> QED BY <1>8, <1>9, <1>12, <1>13 DEF IInv

\* A scratch or a flip is neutral; the reverse starts from no position.
LEMMA OppositeKeeps ==
  ASSUME IInv, Opposite PROVE IInv' /\ Chain!Next
<1>1. pc = "opposite" /\ sess.state = "IN_POS" /\ UNCHANGED day /\ MarketClose(sess.tk, TRUE)
  BY DEF Opposite, IInv, Shape
<1>2. \/ pc' = "reverse" /\ sess' = sess /\ sess.trades < MaxChain /\ clock # "flat"
      \/ pc' = "idle" /\ sess' = Closed(sess, FALSE, TRUE)
  BY DEF Opposite, Late
<1>3. /\ sess' \in Session /\ sess'.trades = sess.trades
      /\ sess'.state \in {"OBSERVE", "DONE"} \/ (sess'.state = "IN_POS" /\ pc' = "reverse")
      /\ sess'.state = "OBSERVE" => sess.trades < MaxChain
      /\ pc' \in {"idle", "reverse"}
      /\ pc' = "reverse" => sess'.state = "IN_POS" /\ sess.trades < MaxChain /\ clock # "flat"
  <2>1. CASE pc' = "reverse" /\ sess' = sess /\ sess.trades < MaxChain /\ clock # "flat"
    BY <1>1, <2>1 DEF IInv, Shape
  <2>2. CASE pc' = "idle" /\ sess' = Closed(sess, FALSE, TRUE)
    <3>1. FALSE \in BOOLEAN /\ TRUE \in BOOLEAN
      OBVIOUS
    <3> QED BY <2>2, <3>1, Chained DEF IInv
  <2> QED BY <1>2, <2>1, <2>2
<1>4. Own = {sess.tk} /\ Own' = {} /\ Due = 0 /\ Due' \in {0, 1}
  BY <1>1, <1>3 DEF Own, Due, Unheard
<1>5. Orphans' = DOMAIN held' /\ Orphans = DOMAIN held \ {sess.tk}
  BY <1>4 DEF Orphans
<1>7. ASSUME UNCHANGED broker, slips' \in {slips, slips + 1}
      PROVE  Shape' /\ Ahead'
  <2>1. Shape'
    BY <1>1, <1>3, <1>7 DEF IInv, Shape, day, broker
  <2>2. Ahead'
    BY <1>1, <1>2, <1>3, <1>7 DEF IInv, Ahead, broker
  <2> QED BY <2>1, <2>2
<1>8. CASE sess.tk \notin DOMAIN held /\ slips' = slips /\ UNCHANGED broker
  <2>1. Orphans' = Orphans /\ Due' >= Due
    BY <1>4, <1>5, <1>8 DEF broker
  <2> QED BY <1>1, <1>3, <1>7, <1>8, <2>1, Quiet DEF IInv, broker, day
<1>9. CASE sess.tk \in DOMAIN held /\ slips' = slips + 1 /\ UNCHANGED broker
  <2>1. Orphans' \subseteq Orphans \union {sess.tk} /\ Due' >= Due
    BY <1>4, <1>5, <1>9 DEF broker
  <2>2. sess'.trades \in 0..MaxChain
    BY <1>3 DEF Session
  <2> QED BY <1>1, <1>3, <1>7, <1>9, <2>1, <2>2, Slipped DEF IInv, broker, day
<1>10. ASSUME sess.tk \in DOMAIN held, slips' = slips, NEW loss \in BOOLEAN, Gone(sess.tk, loss, TRUE)
       PROVE  IInv' /\ Chain!Next
  <2>1. DOMAIN held' = DOMAIN held \ {sess.tk} /\ entries' = entries /\ Counted' = Counted
    BY <1>10, GoneCounts DEF IInv
  <2>2. Shape'
    <3>1. slips' \in Nat /\ TRUE \in BOOLEAN
      BY <1>10 DEF IInv, Shape
    <3> QED BY <1>1, <1>3, <1>10, <3>1, ShapeGone
  <2>3. Ahead'
    BY <1>2, <1>3, <2>1 DEF Ahead
  <2>4. Orphans' = Orphans
    BY <1>5, <2>1
  <2>5. Chain!Next
    BY <1>10, ChainGone DEF IInv
  <2>6. Paid'
    <3>1. Counted \in Nat /\ Cardinality(Orphans) \in Nat /\ slips \in Nat
      BY Counts DEF IInv, Shape
    <3>2. clock # "flat" => /\ Counted + Cardinality(Orphans) <= slips + Due
                            /\ entries <= MaxChain * slips + sess.trades
      BY DEF IInv, Paid
    <3>3. clock # "flat" => Counted + Cardinality(Orphans) <= slips + Due'
      BY <1>4, <3>1, <3>2
    <3> QED BY <1>1, <1>3, <1>10, <2>1, <2>4, <3>2, <3>3 DEF Paid, day
  <2> QED BY <2>2, <2>3, <2>5, <2>6 DEF IInv
<1> QED BY <1>1, <1>8, <1>9, <1>10, MarketCloses DEF IInv

\* A position is closed behind the session's back.
LEMMA StoppedOut ==
  ASSUME IInv, NEW t \in DOMAIN held, NEW loss \in BOOLEAN, Gone(t, loss, FALSE), ~paper,
         UNCHANGED <<day, sess, pc>>, (pc = "idle" /\ slips' = slips) \/ slips' = slips + 1
  PROVE  IInv' /\ Chain!Next
<1>1. /\ DOMAIN held' = DOMAIN held \ {t} /\ entries' = entries
      /\ \A u \in DOMAIN held' : held'[u] = held[u]
      /\ Counted' \in {Counted, Counted + 1}
      /\ ~StopOnLoss => Counted' = Counted
      /\ StopOnLoss /\ t = sess.tk /\ Counted' # Counted => deal'
      /\ t # sess.tk => deal' = deal
  BY GoneCounts DEF IInv, Counted, Gone
<1>2. Shape'
  <2>1. slips' \in Nat /\ FALSE \in BOOLEAN
    BY DEF IInv, Shape
  <2> QED BY <2>1, ShapeGone DEF IInv, Shape
<1>3. Ahead'
  BY <1>1 DEF IInv, Ahead
<1>4. Chain!Next
  <2>1. FALSE \in BOOLEAN /\ slips' \in {slips, slips + 1}
    OBVIOUS
  <2> QED BY <2>1, ChainGone DEF IInv
<1>5. /\ Counted \in Nat /\ Cardinality(Orphans) \in Nat /\ IsFiniteSet(Orphans) /\ slips \in Nat
      /\ Due \in {0, 1} /\ entries \in Nat /\ sess.trades \in Nat /\ MaxChain \in Nat
  BY Counts DEF IInv, Shape, Session
<1>6. Due' \in {0, 1}
  BY DEF Due
<1>7. Own' = Own /\ Orphans' = Orphans \ {t}
  BY <1>1 DEF Own, Orphans
<1>8. Counted' + Cardinality(Orphans') + Due <= Counted + Cardinality(Orphans) + Due' + (slips' - slips)
  <2>1. CASE t \in Own /\ slips' = slips
    <3>1. Orphans' = Orphans
      BY <1>7, <2>1 DEF Orphans
    <3>2. Due = 0 /\ sess.state = "IN_POS" /\ t = sess.tk /\ pc = "idle"
      BY <1>5, <2>1 DEF Due, Unheard, Own
    <3>3. Counted' # Counted => Due' = 1
      BY <1>1, <3>2 DEF Due, Unheard
    <3> QED BY <1>1, <1>5, <1>6, <2>1, <3>1, <3>2, <3>3
  <2>2. CASE t \notin Own /\ slips' = slips
    <3>1. t \in Orphans
      BY <2>2 DEF Orphans
    <3>2. Cardinality(Orphans') = Cardinality(Orphans) - 1
      BY <1>5, <1>7, <3>1, FS_RemoveElement
    <3>3. Due' >= Due
      BY <1>1, <2>2 DEF Due, Unheard, Own
    <3> QED BY <1>1, <1>5, <1>6, <2>2, <3>2, <3>3
  <2>3. CASE t \in Own /\ slips' = slips + 1
    <3>1. Orphans' = Orphans
      BY <1>7, <2>3 DEF Orphans
    <3>2. Due = 0
      BY <1>5, <2>3 DEF Due, Unheard, Own
    <3> QED BY <1>1, <1>5, <1>6, <2>3, <3>1, <3>2
  <2>4. CASE t \notin Own /\ slips' = slips + 1
    <3>1. t \in Orphans
      BY <2>4 DEF Orphans
    <3>2. Cardinality(Orphans') = Cardinality(Orphans) - 1
      BY <1>5, <1>7, <3>1, FS_RemoveElement
    <3>3. Due' >= Due
      BY <1>1, <2>4 DEF Due, Unheard, Own
    <3> QED BY <1>1, <1>5, <1>6, <2>4, <3>2, <3>3
  <2> QED BY <2>1, <2>2, <2>3, <2>4
<1>9. Paid'
  <2> SUFFICES ASSUME clock # "flat"
               PROVE  /\ Counted' + Cardinality(Orphans') <= slips' + Due'
                      /\ entries' <= MaxChain * slips' + sess'.trades
    BY DEF Paid, day
  <2>1. Counted + Cardinality(Orphans) <= slips + Due /\ entries <= MaxChain * slips + sess.trades
    BY DEF IInv, Paid
  <2>2. Cardinality(Orphans') \in Nat
    BY <1>5, <1>7, FS_Subset, FS_CardinalityType
  <2>3. Counted' + Cardinality(Orphans') <= slips' + Due'
    BY <1>1, <1>5, <1>6, <1>8, <2>1, <2>2
  <2>4. MaxChain * (slips + 1) = MaxChain * slips + MaxChain /\ MaxChain * slips \in Nat
    BY <1>5
  <2>5. entries' <= MaxChain * slips' + sess'.trades
    BY <1>1, <1>5, <2>1, <2>4
  <2> QED BY <2>3, <2>5
<1> QED BY <1>2, <1>3, <1>4, <1>9 DEF IInv

LEMMA BrokerStopKeeps ==
  ASSUME IInv, NEW t, BrokerStop(t) PROVE IInv' /\ Chain!Next
<1>1. /\ ~paper /\ t \in DOMAIN held /\ UNCHANGED <<day, sess, pc>>
      /\ (pc = "idle" /\ slips' = slips) \/ slips' = slips + 1
  BY DEF BrokerStop, Slip
<1>2. PICK loss \in {held[t] < 0, TRUE} : Gone(t, loss, FALSE)
  BY DEF BrokerStop
<1>3. (held[t] < 0) \in BOOLEAN
  OBVIOUS
<1>4. loss \in BOOLEAN
  BY <1>2, <1>3
<1> QED BY <1>1, <1>2, <1>4, StoppedOut

LEMMA CloseAllKeeps ==
  ASSUME IInv, CloseAll PROVE IInv' /\ Chain!Next
<1>1. ~paper /\ pc = "idle" /\ UNCHANGED <<day, sess, pc>>
  BY DEF CloseAll
<1>2. PICK t \in DOMAIN held : MarketClose(t, FALSE)
  BY DEF CloseAll
<1>3. ASSUME NEW loss \in BOOLEAN, Gone(t, loss, FALSE), slips' = slips
      PROVE  IInv' /\ Chain!Next
  BY <1>1, <1>3, StoppedOut
<1>4. CASE slips' = slips + 1 /\ UNCHANGED broker
  <2>1. Shape'
    BY <1>1, <1>4 DEF IInv, Shape, day, broker
  <2>2. Ahead'
    BY <1>1, <1>4 DEF IInv, Ahead, broker
  <2>3. Orphans' = Orphans /\ sess'.trades = sess.trades /\ sess'.trades \in 0..MaxChain
    BY <1>1, <1>4 DEF Orphans, Own, broker, IInv, Shape, Session
  <2>4. Paid' /\ Chain!Next
    BY <1>1, <1>4, <2>3, Slipped DEF day, broker
  <2> QED BY <2>1, <2>2, <2>4 DEF IInv
<1> QED BY <1>2, <1>3, <1>4, MarketCloses DEF IInv

\* The clock and the switch: at the flat hour the count is dropped.
LEMMA DayKeeps ==
  ASSUME IInv, Tick \/ Allow PROVE IInv' /\ Chain!Next
<1>1. /\ UNCHANGED <<paper, broker, sess, pc, slips>> /\ pc = "idle"
      /\ clock' \in {"early", "open", "cutoff", "flat"} /\ (clock' # "flat" => clock # "flat")
  BY DEF Tick, Allow, IInv, Shape
<1>2. Shape'
  BY <1>1 DEF IInv, Shape, broker
<1>3. Ahead'
  BY <1>1 DEF IInv, Ahead, broker
<1>4. Orphans' = Orphans /\ Counted' = Counted
  BY <1>1 DEF Orphans, Own, Counted, broker
<1>5. Due' = Due
  BY <1>1 DEF Due, Unheard, broker
<1>6. Paid'
  BY <1>1, <1>4, <1>5 DEF IInv, Paid, broker
<1>7. Chain!Next
  BY <1>1, ChainSame DEF IInv, Shape, broker
<1> QED BY <1>2, <1>3, <1>6, <1>7 DEF IInv

\* A restart forgets the session; its position, or its loss, is one slip.
LEMMA RestartKeeps ==
  ASSUME IInv, Restart PROVE IInv' /\ Chain!Next
<1>1. /\ slips' = slips + 1 /\ sess' = NoSession /\ pc' = "idle" /\ UNCHANGED <<day, broker>>
  BY DEF Restart, Slip
<1>2. sess' \in Session /\ sess'.state = "NONE" /\ sess'.trades = 0 /\ 0 \in 0..MaxChain
  BY <1>1, Fresh, NonOcoBounds
<1>3. Shape'
  BY <1>1, <1>2 DEF IInv, Shape, day, broker
<1>4. Ahead'
  BY <1>2 DEF Ahead
<1>5. Own' = {} /\ Due' \in {0, 1} /\ Orphans' = DOMAIN held
  BY <1>1, <1>2 DEF Own, Due, Orphans, broker
<1>6. Orphans' \subseteq Orphans \/ (Due' >= Due /\ \E x : Orphans' \subseteq Orphans \union {x})
  <2>1. CASE Own = {} \/ sess.tk \notin DOMAIN held
    BY <1>5, <2>1 DEF Orphans, Own
  <2>2. CASE Own = {sess.tk} /\ sess.tk \in DOMAIN held
    <3>1. sess.state = "IN_POS"
      BY <2>2 DEF Own
    <3>2. Due = 0
      BY <2>2, <3>1 DEF Due, Unheard
    <3>3. Orphans' \subseteq Orphans \union {sess.tk}
      BY <1>5, <2>2 DEF Orphans
    <3> QED BY <1>5, <3>2, <3>3
  <2> QED BY <2>1, <2>2 DEF Own
<1>7. Paid' /\ Chain!Next
  BY <1>1, <1>2, <1>6, Slipped DEF day, broker
<1> QED BY <1>3, <1>4, <1>7 DEF IInv

-----------------------------------------------------------------------------
\* What a step can do to the positions.
LEMMA Closes ==
  ASSUME IInv, [Next]_vars
  PROVE  \/ Manage \/ Filled \/ held' = held
         \/ \E u \in DOMAIN held, loss \in BOOLEAN, neutral \in BOOLEAN : Gone(u, loss, neutral)
<1> DEFINE Out == \E u \in DOMAIN held, loss \in BOOLEAN, neutral \in BOOLEAN : Gone(u, loss, neutral)
<1>1. ASSUME NEW t, NEW neutral \in BOOLEAN, MarketClose(t, neutral)
      PROVE  Out \/ held' = held
  BY <1>1, MarketCloses DEF broker, IInv
<1>2. FALSE \in BOOLEAN /\ TRUE \in BOOLEAN
  OBVIOUS
<1>3. CASE FlatClose BY <1>1, <1>2, <1>3 DEF FlatClose
<1>4. CASE Opposite BY <1>1, <1>2, <1>4 DEF Opposite
<1>5. CASE CloseAll BY <1>1, <1>2, <1>5 DEF CloseAll
<1>6. CASE PaperStop
  <2>1. paper /\ pc = "open" /\ Gone(sess.tk, sess.off < 0, FALSE)
    BY <1>6 DEF PaperStop
  <2>2. sess.tk \in DOMAIN held
    BY <2>1 DEF IInv, Shape
  <2>3. (sess.off < 0) \in BOOLEAN
    OBVIOUS
  <2> QED BY <1>2, <2>1, <2>2, <2>3
<1>7. CASE \E t \in 1..MaxEntries : BrokerStop(t)
  <2>1. PICK t \in DOMAIN held : \E loss \in {held[t] < 0, TRUE} : Gone(t, loss, FALSE)
    BY <1>7 DEF BrokerStop
  <2>2. (held[t] < 0) \in BOOLEAN
    OBVIOUS
  <2> QED BY <1>2, <2>1, <2>2
<1>8. CASE Reverse \/ Signal \/ PaperEnter
  BY <1>8 DEF Reverse, Signal, PaperEnter, broker
<1>9. CASE \/ ArmSession \/ NoticeExit \/ FindOpen \/ Expire \/ Touch \/ Count \/ PaperSignal
           \/ Tick \/ Allow \/ Restart \/ UNCHANGED vars
  BY <1>9 DEF ArmSession, NoticeExit, FindOpen, Expire, Touch, Count, PaperSignal, Tick, Allow,
              Restart, vars, broker
<1> QED BY <1>3, <1>4, <1>5, <1>6, <1>7, <1>8, <1>9 DEF Next, Bar

LEMMA Starts == Init => IInv /\ Chain!Init
<1> SUFFICES ASSUME Init PROVE IInv /\ Chain!Init
  OBVIOUS
<1>1. DOMAIN held = {}
  BY DEF Init
<1>2. Shape
  BY <1>1, Fresh DEF Init, Shape
<1>3. Ahead
  BY <1>1 DEF Ahead
<1>4. Orphans = {} /\ Cardinality(Orphans) = 0 /\ Cardinality(DOMAIN held) = 0
  BY <1>1, FS_EmptySet DEF Orphans
<1>5. Counted = 0 /\ Due = 0 /\ sess.trades = 0 /\ slips = 0 /\ entries = 0
  BY Fresh DEF Init, Counted, Due, Unheard
<1>6. Paid
  <2>1. MaxChain * 0 = 0
    BY NonOcoBounds
  <2> QED BY <1>4, <1>5, <2>1 DEF Paid
<1>7. Chain!Init
  BY <1>4, <1>5 DEF Init, Chain!Init
<1> QED BY <1>2, <1>3, <1>6, <1>7 DEF IInv

LEMMA Keeps == ASSUME IInv, [Next]_vars PROVE IInv' /\ (Chain!Next \/ UNCHANGED vars)
<1>1. CASE ArmSession BY <1>1, ArmSessionKeeps
<1>2. CASE Bar
  BY <1>2, NoticeExitKeeps, FindOpenKeeps, FlatCloseKeeps, PaperStopKeeps, ManageKeeps,
     OppositeKeeps, ReverseKeeps, ExpireKeeps, TouchKeeps, CountKeeps, SignalKeeps,
     PaperSignalKeeps, PaperEnterKeeps DEF Bar
<1>3. CASE CloseAll BY <1>3, CloseAllKeeps
<1>4. CASE \E t \in 1..MaxEntries : BrokerStop(t) BY <1>4, BrokerStopKeeps
<1>5. CASE Tick \/ Allow BY <1>5, DayKeeps
<1>6. CASE Restart BY <1>6, RestartKeeps
<1>7. CASE UNCHANGED vars
  <2>1. Shape' /\ Ahead'
    BY <1>7 DEF vars, day, broker, IInv, Shape, Ahead
  <2>2. Orphans' = Orphans /\ Counted' = Counted /\ Due' = Due
    BY <1>7 DEF vars, day, broker, Orphans, Own, Counted, Due, Unheard
  <2>3. Paid'
    BY <1>7, <2>2 DEF vars, day, broker, IInv, Paid
  <2> QED BY <1>7, <2>1, <2>3 DEF IInv
<1> QED BY <1>1, <1>2, <1>3, <1>4, <1>5, <1>6, <1>7 DEF Next

\* Refinement: whatever the broker, the clock, the switches and the failures
\* do, the session keeps the promises of TradeChain.
THEOREM SessionIsAChain == Spec => ImplementsChain
<1>1. Init => IInv /\ Chain!Init
  BY Starts
<1>2. IInv /\ [Next]_vars => IInv' /\ [Chain!Next]_<<entries, Cardinality(DOMAIN held),
                                                     IF StopOnLoss THEN losses ELSE 0, slips>>
  BY Keeps DEF vars, day, broker
<1> QED BY <1>1, <1>2, PTL DEF Spec, ImplementsChain, Chain!Spec

\* What a rung has secured stays secured.
THEOREM SecuredStays == Spec => StopOneWay
<1>1. Init => IInv
  BY Starts
<1>2. IInv /\ [Next]_vars => IInv'
  BY Keeps
<1>3. ASSUME IInv, [Next]_vars
      PROVE  \A t \in DOMAIN held \intersect DOMAIN held' : held'[t] >= held[t]
  <2> TAKE t \in DOMAIN held \intersect DOMAIN held'
  <2>1. held[t] \in Int
    BY <1>3 DEF IInv, Shape
  <2>2. CASE Manage
    <3>1. PICK fav \in 0..MaxPeak, against \in BOOLEAN, pushed \in BOOLEAN :
            held' = IF sess.tk \in DOMAIN held /\ Ladder(sess, fav).off # sess.off /\ (pushed \/ paper)
                    THEN [held EXCEPT ![sess.tk] = Ladder(sess, fav).off] ELSE held
      BY <2>2 DEF Manage
    <3>2. Ladder(sess, fav).off >= sess.off /\ Ladder(sess, fav) \in Session
      BY <1>3, Laddered DEF IInv
    <3>3. Ladder(sess, fav).off \in Int /\ sess.off \in Int
      BY <1>3, <3>2 DEF IInv, Shape, Session
    <3>4. sess.tk \in DOMAIN held => held[sess.tk] <= sess.off
      BY <1>3, <2>2 DEF Manage, IInv, Shape, Ahead
    <3> HIDE DEF Ladder
    <3> QED BY <2>1, <3>1, <3>2, <3>3, <3>4
  <2>3. CASE Filled
    BY <1>3, <2>1, <2>3, FillCounts DEF IInv
  <2>4. CASE \E u \in DOMAIN held, loss \in BOOLEAN, neutral \in BOOLEAN : Gone(u, loss, neutral)
    <3>1. PICK u \in DOMAIN held, loss \in BOOLEAN, neutral \in BOOLEAN : Gone(u, loss, neutral)
      BY <2>4
    <3>2. \A v \in DOMAIN held' : held'[v] = held[v]
      BY <1>3, <3>1, GoneCounts DEF IInv
    <3> QED BY <2>1, <3>2
  <2>5. CASE held' = held
    BY <2>1, <2>5
  <2>6. \/ Manage \/ Filled \/ held' = held
        \/ \E u \in DOMAIN held, loss \in BOOLEAN, neutral \in BOOLEAN : Gone(u, loss, neutral)
    BY <1>3, Closes
  <2> QED BY <2>2, <2>3, <2>4, <2>5, <2>6
<1> QED BY <1>1, <1>2, <1>3, PTL DEF Spec, StopOneWay

-----------------------------------------------------------------------------
(* What the chain's steps mean in numbers.  Not the losses alone are       *)
(* inductive but the losses with the positions that may become losses.     *)

\* Entries that so many slips allow.
Entries(s) == MaxChain * (1 + s)

\* TradeChain's losses, read on this module's state.
Losses == IF StopOnLoss THEN losses ELSE 0

\* A slip allows one more position and, with it, one more loss.
ChainInv ==
  /\ entries \in Nat /\ Cardinality(DOMAIN held) \in Nat /\ Losses \in Nat /\ slips \in Nat
  /\ Cardinality(DOMAIN held) <= 1 + slips
  /\ entries <= Entries(slips)
  /\ Losses + Cardinality(DOMAIN held) <= 1 + 2 * slips

\* A slip more is a round of entries more, never fewer.
LEMMA EntriesGrow ==
  ASSUME NEW s \in Nat, NEW t \in {s, s + 1}
  PROVE  /\ t \in Nat
         /\ Entries(s) \in Nat /\ Entries(t) \in Nat
         /\ Entries(s) <= Entries(t)
<1>1. MaxChain \in Nat
  BY NonOcoBounds
<1>2. MaxChain * (1 + s) \in Nat /\ MaxChain * (1 + (s + 1)) \in Nat
  BY <1>1
<1>3. MaxChain * (1 + (s + 1)) = MaxChain * (1 + s) + MaxChain
  BY <1>1
<1>4. CASE t = s
  BY <1>2, <1>4 DEF Entries
<1>5. CASE t = s + 1
  BY <1>1, <1>2, <1>3, <1>5 DEF Entries
<1> QED BY <1>4, <1>5

\* Every step of the chain, with or without a slip, keeps the numbers.
LEMMA ChainStep ==
  ChainInv /\ [Chain!Next]_<<entries, Cardinality(DOMAIN held), Losses, slips>> => ChainInv'
<1> SUFFICES ASSUME ChainInv,
                    [Chain!Next]_<<entries, Cardinality(DOMAIN held), Losses, slips>>
             PROVE  ChainInv'
  OBVIOUS
<1> DEFINE taken == entries  open == Cardinality(DOMAIN held)  lost == Losses
           s == slips'  t == entries'  o == Cardinality(DOMAIN held')  l == Losses'
           most == Entries(slips)  more == Entries(s)
<1>1. CASE Chain!Next
  <2>1. /\ taken \in Nat /\ open \in Nat /\ lost \in Nat /\ slips \in Nat
        /\ open <= 1 + slips /\ lost + open <= 1 + 2 * slips /\ taken <= most
    BY DEF ChainInv
  <2>2. s \in {slips, slips + 1}
    BY <1>1 DEF Chain!Next, Chain!Slips
  <2>3. s \in Nat /\ most \in Nat /\ more \in Nat /\ most <= more
    BY <2>1, <2>2, EntriesGrow
  <2>4. CASE Chain!Take
    <3>1. open <= s /\ lost <= s /\ taken < more /\ t = taken + 1 /\ o = open + 1 /\ l = lost
      <4>1. 1 * s = s
        BY <2>3, Once
      <4> QED BY <2>4, <4>1 DEF Chain!Take, Entries, Losses
    <3> HIDE DEF taken, open, lost, s, t, o, l, most, more
    <3>2. t \in Nat /\ o \in Nat /\ l \in Nat
      BY <2>1, <3>1
    <3>3. t <= more /\ o <= 1 + s /\ l + o <= 1 + 2 * s
      BY <2>1, <2>3, <3>1
    <3> QED BY <2>3, <3>2, <3>3 DEF ChainInv, s, t, o, l, more, Entries
  <2>5. CASE Chain!Close
    <3>1. open > 0 /\ o = open - 1 /\ l \in {lost, lost + 1} /\ t = taken
      BY <2>5 DEF Chain!Close, Losses
    <3> HIDE DEF taken, open, lost, s, t, o, l, most, more
    <3>2. t \in Nat /\ o \in Nat /\ l \in Nat
      BY <2>1, <3>1
    <3>3. t <= more /\ o <= 1 + s /\ l + o <= 1 + 2 * s
      BY <2>1, <2>2, <2>3, <3>1
    <3> QED BY <2>3, <3>2, <3>3 DEF ChainInv, s, t, o, l, more, Entries
  <2>6. CASE UNCHANGED <<entries, Cardinality(DOMAIN held), Losses>>
    <3>1. o = open /\ l = lost /\ t = taken
      BY <2>6
    <3> HIDE DEF taken, open, lost, s, t, o, l, most, more
    <3>2. t <= more /\ o <= 1 + s /\ l + o <= 1 + 2 * s
      BY <2>1, <2>2, <2>3, <3>1
    <3> QED BY <2>1, <2>3, <3>1, <3>2 DEF ChainInv, s, t, o, l, more, Entries
  <2> QED BY <1>1, <2>4, <2>5, <2>6 DEF Chain!Next, Losses
<1>2. CASE UNCHANGED <<entries, Cardinality(DOMAIN held), Losses, slips>>
  BY <1>2 DEF ChainInv, Entries
<1> QED BY <1>1, <1>2

\* Whatever takes TradeChain's steps keeps its promise: the positions, entries
\* and losses of the day are bounded by the slips.
THEOREM PromiseHolds == Chain!Spec => []Chain!Promise
<1>1. Chain!Init => ChainInv
  <2>1. Entries(0) \in Nat
    BY EntriesGrow
  <2> QED BY <2>1 DEF Chain!Init, ChainInv, Losses
<1>2. ChainInv => Chain!Promise
  BY DEF ChainInv, Chain!Promise, Entries, Losses
<1>3. ChainInv /\ [Chain!Next]_<<entries, Cardinality(DOMAIN held),
                                 IF StopOnLoss THEN losses ELSE 0, slips>> => ChainInv'
  BY ChainStep DEF Losses
<1> QED BY <1>1, <1>2, <1>3, PTL DEF Chain!Spec

\* In numbers: the positions, entries and losses of a day are bounded by the
\* failures the engine cannot see.
THEOREM BooksAreBounded == Spec => []Chain!Promise
<1>1. Spec => Chain!Spec
  BY SessionIsAChain DEF ImplementsChain
<1> QED BY <1>1, PromiseHolds, PTL

-----------------------------------------------------------------------------
(* The type of the state.  A loss is one of the positions of the day, and the *)
(* candles against a position stay below the number that ends it.            *)

SessionType ==
  [state : {"NONE", "WAIT_TOUCH", "OBSERVE", "IN_POS", "DONE"},
   trades : 0..MaxChain, run : 0..NCandles, pending : BOOLEAN,
   tk : 0..MaxEntries, off : -Sl..MaxPeak, peak : 0..MaxPeak, opp : 0..OppositeCandles]

\* An opposite exit that is due is taken by the next step.
Patient(s, at) ==
  s.state = "IN_POS" /\ at \in {"idle", "open"} /\ s.off = -Sl =>
    OppositeCandles = 0 \/ s.opp < OppositeCandles

Lost == losses + Cardinality(DOMAIN held) <= entries

Typed ==
  /\ entries <= MaxEntries /\ slips <= MaxSlips /\ allow \in BOOLEAN
  /\ \A t \in DOMAIN held : held[t] \in -Sl..MaxPeak
  /\ sess \in SessionType
  /\ Lost

TInv == IInv /\ Typed /\ Patient(sess, pc)

LEMMA Ranges ==
  /\ NCandles \in Nat \ {0} /\ Sl \in Nat \ {0} /\ MaxChain \in Nat \ {0}
  /\ LockAt \in Nat /\ LockTo \in Nat /\ Target \in Nat /\ TrailDist \in Nat
  /\ MaxPeak \in Nat /\ OppositeCandles \in Nat /\ MaxEntries \in Nat /\ MaxSlips \in Nat
  /\ -Sl \in Int /\ -Sl \in -Sl..MaxPeak /\ LockAt <= Target
BY NonOcoBounds

\* What the session's own steps make of a session in range.
LEMMA RangeKept ==
  ASSUME sess \in SessionType
  PROVE  /\ Observing(sess) \in SessionType /\ Observing(sess).state = "OBSERVE"
         /\ Finished(sess) \in SessionType /\ Finished(sess).state = "DONE"
         /\ \A loss, neutral \in BOOLEAN :
              /\ Closed(sess, loss, neutral) \in SessionType
              /\ Closed(sess, loss, neutral).state # "IN_POS"
<1>1. 0 \in 0..NCandles
  BY Ranges
<1>2. /\ Observing(sess) \in SessionType /\ Observing(sess).state = "OBSERVE"
      /\ Finished(sess) \in SessionType /\ Finished(sess).state = "DONE"
  BY <1>1 DEF SessionType, Observing, Finished
<1> QED BY <1>2 DEF Closed

LEMMA FreshRange ==
  /\ NoSession \in SessionType /\ NoSession.state = "NONE"
  /\ LET s == [NoSession EXCEPT !.state = "WAIT_TOUCH"]
     IN s \in SessionType /\ s.state = "WAIT_TOUCH"
<1>1. NoSession \in SessionType /\ NoSession.state = "NONE"
  <2>1. /\ 0 \in 0..MaxChain /\ 0 \in 0..NCandles /\ 0 \in 0..MaxEntries
        /\ -Sl \in -Sl..MaxPeak /\ 0 \in 0..MaxPeak /\ 0 \in 0..OppositeCandles
    BY Ranges
  <2> QED BY <2>1 DEF NoSession, SessionType
<1> QED BY <1>1 DEF SessionType

LEMMA EnteredRange ==
  ASSUME sess \in SessionType, sess.trades < MaxChain, entries \in Nat, entries < MaxEntries
  PROVE  InPos(sess) \in SessionType /\ InPos(sess).off = -Sl /\ InPos(sess).opp = 0
<1>1. /\ sess.trades + 1 \in 0..MaxChain /\ entries + 1 \in 0..MaxEntries /\ 0 \in 0..NCandles
      /\ -Sl \in -Sl..MaxPeak /\ 0 \in 0..MaxPeak /\ 0 \in 0..OppositeCandles
  BY Ranges DEF SessionType
<1> QED BY <1>1 DEF InPos, SessionType

\* The stop of the ladder is one of the points the position ran, or a lock at
\* or below the peak that arms it.
LEMMA LadderRange ==
  ASSUME LockTo <= LockAt, sess \in SessionType, NEW fav \in 0..MaxPeak,
         NEW against \in BOOLEAN
  PROVE  LET s == Ladder(sess, fav) IN
         /\ s \in SessionType /\ s.state = sess.state /\ s.opp = sess.opp /\ s.off >= sess.off
         /\ Patient(sess, "open") /\ sess.state = "IN_POS" =>
              /\ [s EXCEPT !.opp = Against(s, against)] \in SessionType
              /\ s.off # -Sl \/ Against(s, against) \in 0..OppositeCandles
<1> DEFINE s == Ladder(sess, fav)
           peak == IF fav > sess.peak THEN fav ELSE sess.peak
           off == IF LadderOff(peak) > sess.off THEN LadderOff(peak) ELSE sess.off
<1>1. peak \in 0..MaxPeak /\ sess.off \in -Sl..MaxPeak
  BY DEF SessionType
<1>2. LadderOff(peak) \in -Sl..MaxPeak
  <2> HIDE DEF peak
  <2> QED BY <1>1, Ranges DEF LadderOff
<1>3. off \in -Sl..MaxPeak /\ off >= sess.off
  <2> HIDE DEF peak
  <2> QED BY <1>1, <1>2, Ranges
<1>4. s = [sess EXCEPT !.peak = peak, !.off = off]
  BY DEF Ladder
<1>5. s \in SessionType /\ s.state = sess.state /\ s.opp = sess.opp /\ s.off >= sess.off
  <2> HIDE DEF peak, off, s
  <2> QED BY <1>1, <1>3, <1>4 DEF SessionType
<1>6. ASSUME Patient(sess, "open"), sess.state = "IN_POS"
      PROVE  Against(s, against) \in 0..OppositeCandles
  <2> HIDE DEF s
  <2>1. s.opp \in 0..OppositeCandles /\ s.off \in Int /\ sess.off \in -Sl..MaxPeak
    BY <1>5, Ranges DEF SessionType
  <2>2. s.off > -Sl \/ sess.off = -Sl
    BY <1>5, <2>1, Ranges
  <2>3. CASE OppositeCandles = 0 \/ s.off > -Sl
    BY <2>1, <2>3 DEF Against
  <2>4. CASE ~(OppositeCandles = 0 \/ s.off > -Sl)
    <3>1. s.opp + 1 \in 0..OppositeCandles /\ 0 \in 0..OppositeCandles
      BY <1>5, <1>6, <2>1, <2>2, <2>4, Ranges DEF Patient
    <3> QED BY <2>4, <3>1 DEF Against
  <2> QED BY <2>3, <2>4
<1>7. ASSUME Patient(sess, "open"), sess.state = "IN_POS"
      PROVE  [s EXCEPT !.opp = Against(s, against)] \in SessionType
  <2> HIDE DEF s
  <2> QED BY <1>5, <1>6, <1>7 DEF SessionType
<1> QED BY <1>5, <1>6, <1>7

\* A close takes a position and may count one loss.
LEMMA GoneTyped ==
  ASSUME TInv, NEW t \in DOMAIN held, NEW loss \in BOOLEAN, NEW neutral \in BOOLEAN,
         Gone(t, loss, neutral)
  PROVE  /\ entries' = entries /\ Lost'
         /\ \A u \in DOMAIN held' : held'[u] \in -Sl..MaxPeak
<1>1. /\ DOMAIN held' = DOMAIN held \ {t} /\ entries' = entries
      /\ Cardinality(DOMAIN held') = Cardinality(DOMAIN held) - 1
      /\ \A u \in DOMAIN held' : held'[u] = held[u]
  BY GoneCounts DEF TInv, IInv
<1>2. losses' \in {losses, losses + 1} /\ losses \in Nat
  BY DEF Gone, TInv, IInv, Shape
<1>3. Cardinality(DOMAIN held) \in Nat /\ entries \in Nat
  BY Counts DEF TInv, IInv, Shape
<1>4. Lost'
  BY <1>1, <1>2, <1>3 DEF Lost, TInv, Typed
<1> QED BY <1>1, <1>4 DEF TInv, Typed

LEMMA ClosesTyped ==
  ASSUME TInv, NEW t, NEW neutral \in BOOLEAN, MarketClose(t, neutral)
  PROVE  /\ entries' = entries /\ Lost' /\ slips' <= MaxSlips
         /\ \A u \in DOMAIN held' : held'[u] \in -Sl..MaxPeak
<1>1. CASE t \in DOMAIN held /\ slips' = slips /\ \E loss \in BOOLEAN : Gone(t, loss, neutral)
  BY <1>1, GoneTyped DEF TInv, Typed
<1>2. CASE UNCHANGED broker /\ (slips' = slips \/ Slip)
  <2>1. slips' <= MaxSlips
    BY <1>2, Ranges DEF Slip, TInv, Typed, IInv, Shape
  <2> QED BY <1>2, <2>1 DEF broker, TInv, Typed, Lost
<1> QED BY <1>1, <1>2 DEF MarketClose

LEMMA FilledTyped ==
  ASSUME TInv, Filled
  PROVE  /\ entries < MaxEntries /\ entries' <= MaxEntries /\ Lost'
         /\ \A u \in DOMAIN held' : held'[u] \in -Sl..MaxPeak
<1>1. /\ DOMAIN held' = DOMAIN held \union {entries + 1} /\ entries' = entries + 1
      /\ Cardinality(DOMAIN held') = Cardinality(DOMAIN held) + 1
      /\ \A u \in DOMAIN held : held'[u] = held[u]
      /\ held'[entries + 1] = -Sl /\ losses' = losses
  BY FillCounts DEF TInv, IInv
<1>2. /\ Cardinality(DOMAIN held) \in Nat /\ entries \in Nat /\ losses \in Nat
      /\ entries < MaxEntries
  BY Counts DEF TInv, IInv, Shape, Filled
<1>3. entries' <= MaxEntries /\ Lost'
  BY <1>1, <1>2, Ranges DEF Lost, TInv, Typed
<1>4. \A u \in DOMAIN held' : held'[u] \in -Sl..MaxPeak
  BY <1>1, Ranges DEF TInv, Typed
<1> QED BY <1>2, <1>3, <1>4

\* Steps that leave the broker alone, and what they make of the session.
LEMMA SessionTyped ==
  ASSUME TInv, UNCHANGED broker, allow' = allow,
         slips' = slips \/ Slip, sess' \in SessionType
  PROVE  Typed'
<1>1. slips' <= MaxSlips
  BY Ranges DEF Slip, TInv, Typed, IInv, Shape
<1> QED BY <1>1 DEF broker, TInv, Typed, Lost

\* One lemma for each kind of step.
LEMMA SetupTyped ==
  ASSUME TInv, ArmSession \/ Expire \/ Touch \/ Count \/ PaperSignal
  PROVE  Typed' /\ Patient(sess, pc)'
<1>1. sess \in SessionType
  BY DEF TInv, Typed
<1>2. sess' \in SessionType /\ sess'.state # "IN_POS"
  <2>1. CASE ArmSession BY <2>1, FreshRange DEF ArmSession
  <2>2. CASE Expire BY <1>1, <2>2, RangeKept DEF Expire
  <2>3. CASE Touch BY <1>1, <2>3, RangeKept DEF Touch
  <2>4. CASE Count
    <3>1. PICK run \in {0, 1, sess.run + 1} : run < NCandles /\ sess' = [sess EXCEPT !.run = run]
      BY <2>4 DEF Count
    <3>2. run \in 0..NCandles /\ sess.state = "OBSERVE"
      BY <1>1, <2>4, <3>1, Ranges DEF SessionType, Count, Watching
    <3> QED BY <1>1, <3>1, <3>2 DEF SessionType
  <2>5. CASE PaperSignal
    <3>1. 0 \in 0..NCandles /\ sess.state = "OBSERVE"
      BY <2>5, Ranges DEF PaperSignal, Confirmed, Watching
    <3> QED BY <1>1, <2>5, <3>1 DEF PaperSignal, SessionType
  <2> QED BY <2>1, <2>2, <2>3, <2>4, <2>5
<1>3. UNCHANGED broker /\ slips' = slips /\ allow' = allow
  BY DEF ArmSession, Expire, Touch, Count, PaperSignal, day
<1> QED BY <1>2, <1>3, SessionTyped DEF Patient

LEMMA EnterTyped ==
  ASSUME TInv, Signal \/ PaperEnter \/ Reverse
  PROVE  Typed' /\ Patient(sess, pc)'
<1>1. sess \in SessionType /\ entries \in Nat /\ sess.trades < MaxChain
  BY DEF TInv, Typed, IInv, Shape, Signal, Confirmed, Watching, PaperEnter, SetupBar, Reverse
<1>2. allow' = allow
  BY DEF Signal, PaperEnter, Reverse, day
<1>3. CASE Filled /\ slips' = slips /\ sess' = InPos(sess)
  <2>1. sess' \in SessionType /\ sess'.opp = 0
    BY <1>1, <1>3, FilledTyped, EnteredRange
  <2>2. OppositeCandles = 0 \/ sess'.opp < OppositeCandles
    BY <2>1, Ranges
  <2> QED BY <1>2, <1>3, <2>1, <2>2, FilledTyped DEF Typed, TInv, Patient
<1>4. CASE UNCHANGED broker /\ slips' = slips /\ sess' = Observing(sess)
  BY <1>1, <1>2, <1>4, RangeKept, SessionTyped DEF Patient
<1>5. CASE Signal /\ sess' = [sess EXCEPT !.run = 0] /\ (UNCHANGED <<broker, slips>> \/ (Filled /\ Slip))
  <2>1. 0 \in 0..NCandles /\ sess.state = "OBSERVE"
    BY <1>5, Ranges DEF Signal, Confirmed, Watching
  <2>2. sess' \in SessionType /\ sess'.state # "IN_POS"
    BY <1>1, <1>5, <2>1 DEF SessionType
  <2>3. CASE UNCHANGED <<broker, slips>>
    BY <1>2, <2>2, <2>3, SessionTyped DEF Patient
  <2>4. CASE Filled /\ Slip
    <3>1. slips' <= MaxSlips
      BY <2>4, Ranges DEF Slip, TInv, IInv, Shape
    <3> QED BY <1>2, <2>2, <2>4, <3>1, FilledTyped DEF Typed, Patient, TInv
  <2> QED BY <1>5, <2>3, <2>4
<1>6. CASE Filled /\ Slip /\ sess' = Observing(sess)
  <2>1. sess' \in SessionType /\ sess'.state # "IN_POS"
    BY <1>1, <1>6, RangeKept DEF Observing
  <2>2. slips' <= MaxSlips
    BY <1>6, Ranges DEF Slip, TInv, IInv, Shape
  <2> QED BY <1>2, <1>6, <2>1, <2>2, FilledTyped DEF Typed, Patient, TInv
<1> QED BY <1>3, <1>4, <1>5, <1>6 DEF Signal, PaperEnter, Reverse

LEMMA FindTyped ==
  ASSUME TInv, FindOpen
  PROVE  Typed' /\ Patient(sess, pc)'
<1>1. /\ UNCHANGED <<day, broker, sess>> /\ pc = "idle" /\ pc' = "open"
      /\ slips' = slips \/ Slip
  BY DEF FindOpen
<1>2. Typed'
  BY <1>1, SessionTyped DEF TInv, Typed, day
<1> QED BY <1>1, <1>2 DEF TInv, Patient

LEMMA CloseTyped ==
  ASSUME TInv, NoticeExit \/ FlatClose \/ PaperStop \/ Opposite
  PROVE  Typed' /\ Patient(sess, pc)'
<1>1. sess \in SessionType /\ slips \in Nat /\ slips <= MaxSlips /\ allow' = allow /\ allow \in BOOLEAN
      /\ deal \in BOOLEAN
  BY DEF TInv, Typed, IInv, Shape, NoticeExit, FlatClose, PaperStop, Opposite, day
<1>2. CASE NoticeExit
  <2>1. /\ UNCHANGED broker /\ (slips' = slips \/ Slip)
        /\ \E loss \in BOOLEAN : sess' = Closed(sess, loss, FALSE)
    <3>1. CASE sess' = Closed(sess, deal, FALSE) /\ slips' = slips
      BY <1>1, <1>2, <3>1 DEF NoticeExit
    <3>2. CASE sess' = Closed(sess, sess.off < 0, FALSE) /\ Slip
      <4>1. (sess.off < 0) \in BOOLEAN
        OBVIOUS
      <4> QED BY <1>2, <3>2, <4>1 DEF NoticeExit
    <3> QED BY <1>2, <3>1, <3>2 DEF NoticeExit
  <2> QED BY <1>1, <2>1, RangeKept, SessionTyped DEF Patient
<1>3. CASE FlatClose
  <2>1. MarketClose(sess.tk, FALSE) /\ sess' \in SessionType /\ sess'.state # "IN_POS"
    BY <1>1, <1>3, RangeKept DEF FlatClose
  <2> QED BY <1>1, <2>1, ClosesTyped DEF Typed, Patient, TInv
<1>4. CASE PaperStop
  <2>1. sess.tk \in DOMAIN held
    BY <1>4 DEF PaperStop, TInv, IInv, Shape
  <2>2. Gone(sess.tk, sess.off < 0, FALSE) /\ slips' = slips
    BY <1>4 DEF PaperStop
  <2>3. (sess.off < 0) \in BOOLEAN
    OBVIOUS
  <2>4. sess' \in SessionType /\ sess'.state # "IN_POS"
    BY <1>1, <1>4, <2>3, RangeKept DEF PaperStop
  <2> QED BY <1>1, <2>1, <2>2, <2>3, <2>4, GoneTyped DEF Typed, Patient, TInv
<1>5. CASE Opposite
  <2>1. /\ MarketClose(sess.tk, TRUE) /\ sess' \in SessionType
        /\ pc' = "reverse" \/ sess'.state # "IN_POS"
    BY <1>1, <1>5, RangeKept DEF Opposite
  <2> QED BY <1>1, <2>1, ClosesTyped DEF Typed, Patient, TInv
<1> QED BY <1>2, <1>3, <1>4, <1>5

LEMMA ManageTyped ==
  ASSUME LockTo <= LockAt, TInv, Manage
  PROVE  Typed' /\ Patient(sess, pc)'
<1>1. PICK fav \in 0..MaxPeak, against \in BOOLEAN, pushed \in BOOLEAN :
        LET s   == Ladder(sess, fav)
            opp == Against(s, against)
        IN /\ sess' = [s EXCEPT !.opp = opp]
           /\ held' = IF sess.tk \in DOMAIN held /\ s.off # sess.off /\ (pushed \/ paper)
                      THEN [held EXCEPT ![sess.tk] = s.off] ELSE held
           /\ pc' = IF OppositeCandles > 0 /\ s.off = -Sl /\ opp >= OppositeCandles
                    THEN "opposite" ELSE "idle"
  BY DEF Manage
<1>2. /\ sess \in SessionType /\ pc = "open" /\ sess.state = "IN_POS"
      /\ UNCHANGED <<day, entries, losses, deal, slips>>
  BY DEF Manage, TInv, Typed, IInv, Shape
<1>3. Patient(sess, "open")
  BY <1>2 DEF TInv, Patient
<1> DEFINE s == Ladder(sess, fav)  opp == Against(s, against)
<1>4. /\ s \in SessionType /\ s.off \in -Sl..MaxPeak
      /\ [s EXCEPT !.opp = opp] \in SessionType
      /\ s.off # -Sl \/ opp \in 0..OppositeCandles
  BY <1>2, <1>3, LadderRange DEF SessionType
<1>5. /\ sess' = [s EXCEPT !.opp = opp]
      /\ held' = IF sess.tk \in DOMAIN held /\ s.off # sess.off /\ (pushed \/ paper)
                 THEN [held EXCEPT ![sess.tk] = s.off] ELSE held
      /\ pc' = IF OppositeCandles > 0 /\ s.off = -Sl /\ opp >= OppositeCandles
               THEN "opposite" ELSE "idle"
  BY <1>1
<1> HIDE DEF s, opp
<1>6. DOMAIN held' = DOMAIN held /\ \A t \in DOMAIN held' : held'[t] \in -Sl..MaxPeak
  BY <1>4, <1>5 DEF TInv, Typed
<1>7. sess' \in SessionType /\ sess'.off = s.off /\ sess'.opp = opp
  BY <1>4, <1>5 DEF SessionType
<1>8. Typed'
  BY <1>2, <1>6, <1>7 DEF TInv, Typed, Lost, day
<1>9. Patient(sess, pc)'
  BY <1>4, <1>5, <1>7, Ranges DEF Patient
<1> QED BY <1>8, <1>9

LEMMA WorldTyped ==
  ASSUME TInv, CloseAll \/ (\E t \in 1..MaxEntries : BrokerStop(t)) \/ Tick \/ Allow \/ Restart
  PROVE  Typed' /\ Patient(sess, pc)'
<1>1. slips \in Nat /\ slips <= MaxSlips /\ sess \in SessionType /\ allow \in BOOLEAN
  BY DEF TInv, Typed, IInv, Shape
<1>2. CASE CloseAll
  <2>1. PICK t \in DOMAIN held : MarketClose(t, FALSE)
    BY <1>2 DEF CloseAll
  <2> QED BY <1>1, <1>2, <2>1, ClosesTyped DEF CloseAll, day, TInv, Typed, Patient
<1>3. CASE \E t \in 1..MaxEntries : BrokerStop(t)
  <2>0. PICK t \in DOMAIN held : \E loss \in {held[t] < 0, TRUE} : Gone(t, loss, FALSE)
    BY <1>3 DEF BrokerStop
  <2>1. PICK loss \in BOOLEAN : Gone(t, loss, FALSE)
    <3>1. (held[t] < 0) \in BOOLEAN
      OBVIOUS
    <3> QED BY <2>0, <3>1
  <2>2. UNCHANGED <<day, sess, pc>> /\ slips' <= MaxSlips
    BY <1>1, <1>3, Ranges DEF BrokerStop, Slip
  <2> QED BY <1>1, <2>1, <2>2, GoneTyped DEF day, TInv, Typed, Patient
<1>4. CASE Tick \/ Allow
  BY <1>1, <1>4 DEF Tick, Allow, broker, TInv, Typed, Lost, Patient
<1>5. CASE Restart
  <2>1. UNCHANGED <<day, broker>> /\ Slip /\ sess' = NoSession
    BY <1>5 DEF Restart
  <2> QED BY <2>1, FreshRange, SessionTyped DEF day, Patient
<1> QED BY <1>2, <1>3, <1>4, <1>5

\* The type invariant of the session, for a lock at or below the peak that arms
\* it (a stop above the market would be refused, ladder_sl_offset).
THEOREM TypeCorrect ==
  ASSUME LockTo <= LockAt
  PROVE  Spec => []TypeOK
<1>1. Init => TInv
  <2> SUFFICES ASSUME Init PROVE TInv
    OBVIOUS
  <2>1. IInv /\ DOMAIN held = {} /\ Cardinality(DOMAIN held) = 0
    BY Starts, FS_EmptySet DEF Init
  <2>2. Typed
    BY <2>1, FreshRange, Ranges DEF Init, Typed, Lost
  <2> QED BY <2>1, <2>2, FreshRange DEF TInv, Init, Patient
<1>2. TInv /\ [Next]_vars => TInv'
  <2> SUFFICES ASSUME TInv, [Next]_vars PROVE TInv'
    OBVIOUS
  <2>1. IInv'
    BY Keeps DEF TInv
  <2>2. CASE UNCHANGED vars
    BY <2>1, <2>2 DEF vars, day, broker, TInv, Typed, Lost, Patient
  <2>3. CASE Next
    BY <2>1, <2>3, SetupTyped, EnterTyped, FindTyped, CloseTyped, ManageTyped, WorldTyped
       DEF Next, Bar, TInv
  <2> QED BY <2>2, <2>3
<1>3. TInv => TypeOK
  <2> SUFFICES ASSUME TInv PROVE TypeOK
    OBVIOUS
  <2>1. /\ entries \in Nat /\ losses \in Nat /\ slips \in Nat
        /\ Cardinality(DOMAIN held) \in Nat
    BY Counts DEF TInv, IInv, Shape
  <2>2. entries \in 0..MaxEntries /\ losses \in 0..MaxEntries /\ slips \in 0..MaxSlips
    BY <2>1, Ranges DEF TInv, Typed, Lost
  <2> QED BY <2>2 DEF TInv, Typed, IInv, Shape, SessionType, TypeOK
<1> QED BY <1>1, <1>2, <1>3, PTL DEF Spec
=============================================================================
