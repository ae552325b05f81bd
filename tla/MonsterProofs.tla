---------------------------- MODULE MonsterProofs ----------------------------
(***************************************************************************)
(* Proofs about Monster, for any number of tickets, chains, points and     *)
(* slips: its type invariant, that no step loosens a stop at the broker,   *)
(* that no leg hedges another, and the two limits the engine is run for:   *)
(* how much is live at the broker, and how much a day can lose.            *)
(*                                                                         *)
(* The limits need more than they say.  What is live is bounded because    *)
(* each chain stop is paid by a link of the sequence, and because at most  *)
(* one ticket (and one more set of chains for each slip) is not yet known  *)
(* to the engine: Numbered.  The loss is bounded because the broker's      *)
(* worst case never falls by more than the stops a pass may still place:   *)
(* Solvent.                                                                *)
(***************************************************************************)
EXTENDS Monster, FiniteSetTheorems, TLAPS

\* A resting order is a ticket no position, belief or query has had.
Apart == DOMAIN ord \intersect (DOMAIN pos \union DOMAIN known \union DOMAIN snap) = {}

\* The stop the engine believes in is at least the one at the broker (a refused
\* change leaves it behind), and what a pass has read of a leg still holds.
Believed ==
  /\ \A t \in DOMAIN pos \intersect DOMAIN known : pos[t].sl <= known[t].sl
  /\ \A t \in DOMAIN pos \intersect DOMAIN snap : pos[t] = snap[t]

\* What a phase of the pass leaves empty; an entry is noted only while no leg is
\* known.
Phased ==
  /\ halted => phase = "idle"
  /\ phase = "idle" => snap = Empty /\ resting = {}
  /\ phase = "manage" => DOMAIN known \subseteq DOMAIN snap
  /\ pend.kind = "ENTRY" => DOMAIN known = {}

\* The inductive invariant the other proofs start from.
IInv == TypeOK /\ Apart /\ Believed /\ Phased

\* The assumptions on the constants, one by one.
LEMMA Bounds ==
  /\ MaxChains \in Nat /\ BeFloor \in Nat /\ TrailGap \in Nat /\ MaxPeak \in Nat
  /\ GiveBack \in Nat /\ MaxSlips \in Nat
  /\ Cap \in Nat /\ Chase \in Nat /\ Risk \in Nat /\ Risk > 0 /\ LossHalt \in Nat /\ LossHalt > 0
  /\ ProfitLock \in Nat /\ GiveStart \in Nat
  /\ BeArm \in Nat /\ TrailStart \in Nat /\ BeFloor <= BeArm
  /\ Tickets \subseteq Nat /\ IsFiniteSet(Tickets)
BY MonsterBounds DEF Risk

\* The empty table is the only table with an empty domain.
LEMMA EmptyTable ==
  /\ DOMAIN Empty = {}
  /\ \A V : Empty \in [DOMAIN Empty -> V]
  /\ \A V, f : f \in [DOMAIN f -> V] => (f = Empty <=> DOMAIN f = {})
BY DEF Empty

\* A fresh leg is a leg; an adopted one is believed in with its own stop.
LEMMA Members ==
  /\ \A side \in Sides, past \in 0..Chase : FreshLeg(side, past) \in Legs
  /\ \A leg \in Legs : Adopted(leg) \in Beliefs /\ Adopted(leg).sl = leg.sl
BY Bounds DEF FreshLeg, Legs, Adopted, Beliefs, Risk

\* The trail target stays within the run of a leg and never below its stop.
LEMMA TargetTyped ==
  ASSUME NEW leg \in Beliefs
  PROVE  Target(leg) \in leg.sl..MaxPeak
<1>1. leg.peak \in 0..MaxPeak /\ leg.sl \in -Risk..MaxPeak
  BY DEF Beliefs
<1> QED BY <1>1, Bounds DEF Target

\* The points at risk in the legs S of the table f, one pair for each.
AtRisk(f, S) == {p \in S \X (1..Risk) : f[p[1]].sl <= -p[2]}

\* They are finitely many: a leg risks its initial stop and no more.
LEMMA RiskFinite ==
  ASSUME NEW f, NEW S \in SUBSET Tickets
  PROVE  /\ IsFiniteSet(S) /\ Cardinality(S) \in Nat
         /\ IsFiniteSet(AtRisk(f, S))
         /\ Cardinality(AtRisk(f, S)) \in Nat
         /\ Cardinality(AtRisk(f, S)) <= Risk * Cardinality(S)
<1>1. IsFiniteSet(S) /\ Cardinality(S) \in Nat
  BY Bounds, FS_Subset, FS_CardinalityType
<1>2. IsFiniteSet(1..Risk) /\ Cardinality(1..Risk) = Risk
  BY Bounds, FS_Interval
<1>3. IsFiniteSet(S \X (1..Risk)) /\ Cardinality(S \X (1..Risk)) = Cardinality(S) * Risk
  BY <1>1, <1>2, FS_Product
<1>4. AtRisk(f, S) \in SUBSET (S \X (1..Risk))
  BY DEF AtRisk
<1>5. IsFiniteSet(AtRisk(f, S)) /\ Cardinality(AtRisk(f, S)) <= Cardinality(S) * Risk
  BY <1>3, <1>4, FS_Subset
<1>6. Cardinality(S) * Risk = Risk * Cardinality(S)
  BY <1>1, Bounds
<1> QED BY <1>1, <1>5, <1>6, FS_CardinalityType

\* What legs lose is the number of their points at risk.
LEMMA CloseTyped ==
  ASSUME NEW S \in SUBSET Tickets
  PROVE  /\ Lost(S) \in Nat /\ Won(S) \in Nat
         /\ Lost(S) = Cardinality(AtRisk(pos, S))
<1>1. Lost(S) = Cardinality(AtRisk(pos, S))
  BY DEF Lost, AtRisk
<1>2. IsFiniteSet(1..MaxPeak) /\ IsFiniteSet(S)
  <2>1. 1 \in Int /\ MaxPeak \in Int
    BY Bounds
  <2>2. IsFiniteSet(1..MaxPeak)
    BY <2>1, FS_Interval
  <2>3. IsFiniteSet(S)
    BY Bounds, FS_Subset
  <2> QED BY <2>2, <2>3
<1>3. IsFiniteSet(S \X (1..MaxPeak))
  BY <1>2, FS_Product
<1>4. {p \in S \X (1..MaxPeak) : pos[p[1]].sl >= p[2]} \in SUBSET (S \X (1..MaxPeak))
  OBVIOUS
<1>5. Won(S) \in Nat
  BY <1>3, <1>4, FS_Subset, FS_CardinalityType DEF Won
<1> QED BY <1>1, <1>5, RiskFinite

-----------------------------------------------------------------------------
(* What each action does, and that it keeps the invariant.                 *)

\* One placement takes fresh tickets, one and one more for each slip; an entry
\* sent blind is a slip itself.
LEMMA PlaceDoes ==
  ASSUME TypeOK, NEW side \in Sides, NEW kind \in {"ENTRY", "CHAIN"}, Place(side, kind)
  PROVE  \E new, filled \in SUBSET Free, past \in 0..Chase :
           /\ filled \subseteq new
           /\ ord' = With(ord, new \ filled, side)
           /\ pos' = With(pos, filled, FreshLeg(side, past))
           /\ slips' \in slips..MaxSlips
           /\ Cardinality(new) <= 1 + (slips' - slips)
           /\ kind = "ENTRY" /\ resting = {} /\ (pos # Empty \/ ord # Empty)
                => /\ Cardinality(new) <= slips' - slips
                   /\ slips' # slips
           /\ pend' \in {None, [side |-> side, kind |-> kind]}
<1> DEFINE blind == IF kind = "ENTRY" /\ resting = {} /\ (pos # Empty \/ ord # Empty)
                    THEN 1 ELSE 0
<1>1. slips \in Nat /\ MaxSlips \in Nat /\ slips <= MaxSlips
  BY Bounds DEF TypeOK
<1> DEFINE Slips(n) == slips + blind + n <= MaxSlips /\ slips' = slips + blind + n
           Way(n, rests, opens, noted) ==
             /\ Sent(side, kind, rests, opens, noted)
             /\ Slips(n)
             /\ rests + opens <= 1 + n
<1>2. PICK n \in Nat, rests \in Nat, opens \in {0, 1}, noted \in BOOLEAN :
        Way(n, rests, opens, noted)
  <2>1. PICK lost \in 0..MaxSlips :
          /\ Slips(lost)
          /\ \/ Sent(side, kind, lost + 1, 0, TRUE)
             \/ Sent(side, kind, lost, 1, FALSE)
             \/ Sent(side, kind, lost, 0, FALSE)
             \/ lost > 0 /\ Sent(side, kind, lost - 1, 1, FALSE)
    BY Zenon DEF Place
  <2>2. /\ lost \in Nat /\ lost + 1 \in Nat /\ (lost > 0 => lost - 1 \in Nat)
        /\ (lost + 1) + 0 <= 1 + lost /\ lost + 1 <= 1 + lost /\ lost + 0 <= 1 + lost
        /\ (lost - 1) + 1 <= 1 + lost
    BY <1>1, Bounds
  <2>3. \/ Way(lost, lost + 1, 0, TRUE) \/ Way(lost, lost, 1, FALSE)
        \/ Way(lost, lost, 0, FALSE) \/ (lost > 0 /\ Way(lost, lost - 1, 1, FALSE))
    <3> HIDE DEF blind, Slips
    <3> QED BY <2>1, <2>2, Zenon
  <2> HIDE DEF Way
  <2> QED BY <2>2, <2>3
<1> DEFINE k == rests + opens
<1>3. k \in Nat /\ k <= 1 + n
  BY <1>2
<1> HIDE DEF k
<1>4. PICK new \in NewTickets(k), past \in 0..Chase : \E filled \in SUBSET new :
        /\ ord' = With(ord, new \ filled, side)
        /\ pos' = With(pos, filled, FreshLeg(side, past))
  BY <1>2 DEF Sent, k
<1>5. new \in SUBSET Free /\ Cardinality(new) = k
  BY <1>4 DEF NewTickets
<1>6. pend' \in {None, [side |-> side, kind |-> kind]}
  BY <1>2 DEF Sent
<1>7. slips' \in slips..MaxSlips /\ k <= 1 + (slips' - slips)
  BY <1>1, <1>2, <1>3
<1>8. kind = "ENTRY" /\ resting = {} /\ (pos # Empty \/ ord # Empty)
        => k <= slips' - slips /\ slips' # slips
  BY <1>1, <1>2, <1>3
<1> QED BY <1>4, <1>5, <1>6, <1>7, <1>8

\* Placing keeps the type, and touches no leg that is open.
LEMMA PlaceTyped ==
  ASSUME TypeOK, NEW side \in Sides, NEW kind \in {"ENTRY", "CHAIN"}, Place(side, kind)
  PROVE  /\ DOMAIN pos \subseteq DOMAIN pos' /\ DOMAIN ord \subseteq DOMAIN ord'
         /\ DOMAIN pos' \subseteq DOMAIN pos \union Free
         /\ DOMAIN ord' \subseteq DOMAIN ord \union Free
         /\ DOMAIN pos' \intersect DOMAIN ord' = {}
         /\ pos' \in [DOMAIN pos' -> Legs] /\ ord' \in [DOMAIN ord' -> Sides]
         /\ \A t \in DOMAIN pos : pos'[t] = pos[t]
         /\ pend' \in {None, [side |-> side, kind |-> kind]}
         /\ slips' \in 0..MaxSlips
<1>1. PICK new, filled \in SUBSET Free, past \in 0..Chase :
        /\ filled \subseteq new
        /\ ord' = With(ord, new \ filled, side)
        /\ pos' = With(pos, filled, FreshLeg(side, past))
        /\ slips' \in slips..MaxSlips
        /\ Cardinality(new) <= 1 + (slips' - slips)
        /\ kind = "ENTRY" /\ resting = {} /\ (pos # Empty \/ ord # Empty)
             => /\ Cardinality(new) <= slips' - slips
                /\ slips' # slips
        /\ pend' \in {None, [side |-> side, kind |-> kind]}
  BY PlaceDoes, Zenon
<1>2. pos \in [DOMAIN pos -> Legs] /\ ord \in [DOMAIN ord -> Sides] /\ slips \in 0..MaxSlips
      /\ DOMAIN pos \intersect DOMAIN ord = {}
  BY DEF TypeOK
<1>3. /\ DOMAIN pos' = DOMAIN pos \union filled
      /\ pos' \in [DOMAIN pos' -> Legs]
      /\ \A t \in DOMAIN pos \ filled : pos'[t] = pos[t]
  <2>1. FreshLeg(side, past) \in Legs
    BY <1>1, Members
  <2> QED BY <1>1, <1>2, <2>1 DEF With
<1>4. DOMAIN ord' = DOMAIN ord \union (new \ filled) /\ ord' \in [DOMAIN ord' -> Sides]
  BY <1>1, <1>2 DEF With
<1>5. Free \intersect (DOMAIN pos \union DOMAIN ord) = {}
  BY DEF Free
<1>6. slips' \in 0..MaxSlips
  BY <1>1, <1>2, Bounds
<1> QED BY <1>1, <1>2, <1>3, <1>4, <1>5, <1>6

\* The invariant holds at the start.
LEMMA InitHolds == Init => IInv
<1> SUFFICES ASSUME Init PROVE IInv
  OBVIOUS
<1>1. Empty \in [DOMAIN Empty -> Legs] /\ Empty \in [DOMAIN Empty -> Sides]
      /\ Empty \in [DOMAIN Empty -> Beliefs] /\ DOMAIN Empty = {}
  BY EmptyTable
<1>2. TypeOK
  <2>1. /\ pos \in [DOMAIN pos -> Legs] /\ ord \in [DOMAIN ord -> Sides]
        /\ known \in [DOMAIN known -> Beliefs] /\ snap \in [DOMAIN snap -> Legs]
    BY <1>1 DEF Init
  <2>2. DOMAIN pos = {} /\ DOMAIN ord = {} /\ DOMAIN known = {} /\ DOMAIN snap = {}
    BY <1>1 DEF Init
  <2>3. slips \in 0..MaxSlips
    BY Bounds DEF Init
  <2>4. pend \in [side : Sides, kind : {"ENTRY", "CHAIN"}] \union {None}
    BY DEF Init
  <2>6. halted \in BOOLEAN
    BY Zenon DEF Init
  <2>5. /\ chains \in Nat /\ pnl \in Int /\ peak \in Nat /\ saved \in Nat
        /\ phase \in {"idle", "queried", "reconcile", "manage"}
        /\ resting \subseteq Tickets
    BY DEF Init
  <2> QED BY <2>1, <2>2, <2>3, <2>4, <2>5, <2>6 DEF TypeOK
<1> QED BY <1>1, <1>2 DEF Init, IInv, Apart, Believed, Phased, None

\* A fill keeps the invariant: its ticket was an order, which nothing remembers.
LEMMA FillKeeps ==
  ASSUME IInv, NEW t \in Tickets, Fill(t)
  PROVE  IInv'
<1> DEFINE rest == DOMAIN ord \ {t}
<1>1. TypeOK /\ Apart /\ Believed /\ Phased
  BY DEF IInv
<1>2. /\ DOMAIN pos' = DOMAIN pos \union {t}
      /\ pos' \in [DOMAIN pos' -> Legs]
      /\ \A u \in DOMAIN pos \ {t} : pos'[u] = pos[u]
  <2>1. FreshLeg(ord[t], 0) \in Legs
    BY <1>1, Members, Bounds DEF Fill, TypeOK
  <2> QED BY <1>1, <2>1 DEF Fill, TypeOK, With
<1>3. DOMAIN ord' = rest /\ ord' \in [DOMAIN ord' -> Sides]
  BY <1>1 DEF Fill, TypeOK, Restrict
<1>4. t \in DOMAIN ord
  BY DEF Fill
<1>5. UNCHANGED <<pnl, known, pend, chains, halted, peak, phase, snap, resting, saved, slips>>
  BY DEF Fill, engine, pass
<1>6. t \notin DOMAIN known /\ t \notin DOMAIN snap
  BY <1>1, <1>4 DEF Apart
<1>7. TypeOK'
  BY <1>1, <1>2, <1>3, <1>4, <1>5 DEF TypeOK
<1>8. Apart'
  BY <1>1, <1>2, <1>3, <1>5 DEF Apart
<1>9. Believed'
  BY <1>1, <1>2, <1>5, <1>6 DEF Believed
<1>10. Phased'
  BY <1>1, <1>5 DEF Phased
<1> QED BY <1>7, <1>8, <1>9, <1>10 DEF IInv

\* A stop-out keeps the invariant.
LEMMA StopOutKeeps ==
  ASSUME IInv, NEW t \in Tickets, StopOut(t)
  PROVE  IInv'
<1>1. TypeOK /\ Apart /\ Believed /\ Phased
  BY DEF IInv
<1>2. /\ DOMAIN pos' = DOMAIN pos \ {t}
      /\ pos' \in [DOMAIN pos' -> Legs]
      /\ \A u \in DOMAIN pos' : pos'[u] = pos[u]
  BY <1>1 DEF StopOut, TypeOK, Restrict
<1>3. t \in DOMAIN pos /\ pnl' = pnl + pos[t].sl
  BY DEF StopOut
<1>4. pnl' \in Int
  BY <1>1, <1>3, Bounds DEF TypeOK, Legs
<1>5. UNCHANGED <<ord, known, pend, chains, halted, peak, phase, snap, resting, saved, slips>>
  BY DEF StopOut, engine, pass
<1>7. TypeOK'
  BY <1>1, <1>2, <1>4, <1>5 DEF TypeOK
<1>8. Apart'
  BY <1>1, <1>2, <1>5 DEF Apart
<1>9. Believed'
  BY <1>1, <1>2, <1>5 DEF Believed
<1>10. Phased'
  BY <1>1, <1>5 DEF Phased
<1> QED BY <1>7, <1>8, <1>9, <1>10 DEF IInv

\* The query for the positions keeps the invariant, failed or not.
LEMMA ReadKeeps ==
  ASSUME IInv, ReadPositions
  PROVE  IInv'
<1>1. TypeOK /\ Apart /\ Believed /\ Phased
  BY DEF IInv
<1>2. snap' = pos \/ snap' = Empty
  BY DEF ReadPositions
<1>3. UNCHANGED <<pos, ord, pnl, known, pend, chains, halted, peak, resting, saved>>
  BY DEF ReadPositions, broker, engine
<1>4. ~halted /\ phase' = "queried"
  BY DEF ReadPositions
<1>5. slips' \in 0..MaxSlips
  BY <1>1, Bounds DEF ReadPositions, TypeOK, Slip
<1>6. DOMAIN snap' \subseteq Tickets /\ snap' \in [DOMAIN snap' -> Legs]
  BY <1>1, <1>2, EmptyTable DEF TypeOK
<1>7. TypeOK'
  BY <1>1, <1>3, <1>4, <1>5, <1>6 DEF TypeOK
<1>8. Apart'
  BY <1>1, <1>2, <1>3, EmptyTable DEF Apart, TypeOK
<1>9. Believed'
  BY <1>1, <1>2, <1>3, EmptyTable DEF Believed
<1>10. Phased'
  BY <1>1, <1>3, <1>4 DEF Phased
<1> QED BY <1>7, <1>8, <1>9, <1>10 DEF IInv

\* A close of all leaves the refused legs as they are and costs at most what
\* the others risked.
LEMMA CloseAllDoes ==
  ASSUME TypeOK, CloseAll
  PROVE  \E refused \in SUBSET DOMAIN pos :
           /\ DOMAIN pos' = refused
           /\ pos' \in [DOMAIN pos' -> Legs]
           /\ \A t \in refused : pos'[t] = pos[t]
           /\ pnl' \in Int /\ pnl' >= pnl - Lost(DOMAIN pos \ refused)
<1>1. PICK refused \in SUBSET DOMAIN pos, best \in BOOLEAN :
        /\ pos' = Restrict(pos, refused)
        /\ pnl' = pnl + IF best THEN MaxPeak * Cardinality(DOMAIN pos \ refused)
                        ELSE Won(DOMAIN pos \ refused) - Lost(DOMAIN pos \ refused)
  BY DEF CloseAll
<1> DEFINE closed == DOMAIN pos \ refused
<1>2. closed \in SUBSET Tickets /\ pnl \in Int /\ pos \in [DOMAIN pos -> Legs]
  BY DEF TypeOK
<1>3. Lost(closed) \in Nat /\ Won(closed) \in Nat /\ Cardinality(closed) \in Nat
  BY <1>2, CloseTyped, RiskFinite
<1>4. MaxPeak * Cardinality(closed) \in Nat
  BY <1>3, Bounds
<1>5. pnl' \in Int /\ pnl' >= pnl - Lost(closed)
  <2> DEFINE c == MaxPeak * Cardinality(closed)
  <2>1. pnl' = pnl + (IF best THEN c ELSE Won(closed) - Lost(closed)) /\ c \in Nat
    BY <1>1, <1>4
  <2> HIDE DEF c, closed
  <2> QED BY <2>1, <1>2, <1>3
<1>6. /\ DOMAIN pos' = refused
      /\ pos' \in [DOMAIN pos' -> Legs]
      /\ \A t \in refused : pos'[t] = pos[t]
  BY <1>1, <1>2 DEF Restrict
<1> QED BY <1>5, <1>6

\* A cancel of S only takes orders of S away.
LEMMA CancelAllDoes ==
  ASSUME TypeOK, NEW S \in SUBSET DOMAIN ord, CancelAll(S)
  PROVE  /\ DOMAIN ord' \subseteq DOMAIN ord
         /\ DOMAIN ord \ S \subseteq DOMAIN ord'
         /\ ord' \in [DOMAIN ord' -> Sides]
         /\ \A t \in DOMAIN ord' : ord'[t] = ord[t]
<1>1. PICK refused \in SUBSET S : ord' = Restrict(ord, DOMAIN ord \ (S \ refused))
  BY DEF CancelAll, Cancelled
<1> QED BY <1>1 DEF TypeOK, Restrict

\* The governor keeps the invariant, whether it halts the day or not.
LEMMA GovernKeeps ==
  ASSUME IInv, ReadRestAndGovern
  PROVE  IInv'
<1>1. TypeOK /\ Apart /\ Believed /\ Phased
  BY DEF IInv
<1>2. PICK found \in {DOMAIN ord, {}}, net \in {pnl, 0} :
        /\ (IF found = DOMAIN ord /\ net = pnl THEN UNCHANGED slips ELSE Slip)
        /\ peak' = Top(net)
        /\ IF Halts(net, Top(net))
           THEN HaltDay /\ saved' = Top(net)
           ELSE /\ phase' = "reconcile" /\ resting' = found
                /\ UNCHANGED <<broker, known, pend, halted, snap, saved>>
  BY DEF ReadRestAndGovern
<1>3. chains' = chains /\ phase = "queried"
  BY DEF ReadRestAndGovern
<1>4. slips' \in 0..MaxSlips
  BY <1>1, <1>2, Bounds DEF TypeOK, Slip
<1>5. Top(net) \in Nat
  BY <1>1 DEF Top, TypeOK
<1>6. ~halted
  BY <1>1, <1>3 DEF Phased
<1>7. CASE Halts(net, Top(net))
  <2>1. HaltDay /\ peak' \in Nat /\ saved' \in Nat
    BY <1>2, <1>5, <1>7
  <2>2. CloseAll /\ CancelAll(DOMAIN ord)
    BY <2>1 DEF HaltDay
  <2>3. /\ DOMAIN pos' \subseteq DOMAIN pos
        /\ pos' \in [DOMAIN pos' -> Legs]
        /\ pnl' \in Int
    BY <1>1, <2>2, CloseAllDoes
  <2>4. DOMAIN ord' \subseteq DOMAIN ord /\ ord' \in [DOMAIN ord' -> Sides]
    BY <1>1, <2>2, CancelAllDoes
  <2>5. known' = Empty /\ pend' = None /\ phase' = "idle" /\ snap' = Empty /\ resting' = {}
    BY <2>1 DEF HaltDay
  <2>6. halted' \in BOOLEAN
    BY <2>1, Zenon DEF HaltDay
  <2>7. DOMAIN known' = {} /\ known' \in [DOMAIN known' -> Beliefs]
        /\ DOMAIN snap' = {} /\ snap' \in [DOMAIN snap' -> Legs]
    BY <2>5, EmptyTable
  <2>8. TypeOK'
    BY <1>1, <1>3, <1>4, <2>1, <2>3, <2>4, <2>5, <2>6, <2>7 DEF TypeOK
  <2>9. Apart'
    BY <1>1, <2>3, <2>4, <2>7 DEF Apart, TypeOK
  <2>10. Believed'
    BY <2>7 DEF Believed
  <2>11. Phased'
    BY <2>5, <2>7 DEF Phased
  <2> QED BY <2>8, <2>9, <2>10, <2>11 DEF IInv
<1>8. CASE ~Halts(net, Top(net))
  <2>1. /\ phase' = "reconcile" /\ resting' = found /\ peak' \in Nat
        /\ UNCHANGED <<pos, ord, pnl, known, pend, halted, snap, saved>>
    BY <1>2, <1>5, <1>8 DEF broker
  <2>2. TypeOK'
    BY <1>1, <1>3, <1>4, <2>1 DEF TypeOK
  <2>3. Apart' /\ Believed' /\ Phased'
    BY <1>1, <1>6, <2>1 DEF Apart, Believed, Phased
  <2> QED BY <2>2, <2>3 DEF IInv
<1> QED BY <1>7, <1>8

\* What _reconcile takes the fill of ticket t for.
AdoptKind(t) == IF pend.side = snap[t].side THEN pend.kind
                ELSE IF known # Empty THEN "CHAIN" ELSE "ENTRY"

\* A leg that is taken over becomes known with its stop; it is an entry only
\* while no leg is known, and below the limit it places one chain stop.
LEMMA AdoptDoes ==
  ASSUME IInv, NEW t \in Tickets, Adopt(t)
  PROVE  /\ t \in DOMAIN snap \ DOMAIN known
         /\ snap[t].side \in Sides
         /\ AdoptKind(t) \in {"ENTRY", "CHAIN"}
         /\ AdoptKind(t) = "ENTRY" => DOMAIN known = {}
         /\ DOMAIN known = {} \/ AdoptKind(t) = "CHAIN"
         /\ chains' = Counted(AdoptKind(t)) /\ chains' \in Nat
         /\ DOMAIN known' = DOMAIN known \union {t}
         /\ known' \in [DOMAIN known' -> Beliefs]
         /\ known'[t].sl = snap[t].sl
         /\ \A u \in DOMAIN known : known'[u] = known[u]
         /\ \/ chains' < MaxChains /\ Place(snap[t].side, "CHAIN")
            \/ chains' >= MaxChains /\ pend' = None /\ UNCHANGED <<pos, ord, slips>>
         /\ phase = "reconcile"
         /\ UNCHANGED <<pnl, halted, peak, phase, snap, resting, saved>>
<1>1. TypeOK /\ Apart /\ Believed /\ Phased
  BY DEF IInv
<1>2. t \in DOMAIN snap \ DOMAIN known /\ phase = "reconcile"
  BY DEF Adopt, Unknown
<1>3. snap[t] \in Legs
  BY <1>1, <1>2 DEF TypeOK
<1>4. snap[t].side \in Sides
  BY <1>3 DEF Legs
<1>5. /\ chains' = Counted(AdoptKind(t))
      /\ known' = With(known, {t}, Adopted(snap[t]))
      /\ IF chains' < MaxChains THEN Place(snap[t].side, "CHAIN")
         ELSE pend' = None /\ UNCHANGED <<pos, ord, slips>>
      /\ UNCHANGED <<pnl, halted, peak, phase, snap, resting, saved>>
  BY DEF Adopt, AdoptKind, pass
<1>6. AdoptKind(t) \in {"ENTRY", "CHAIN"}
  <2>1. pend.side = snap[t].side => pend.kind \in {"ENTRY", "CHAIN"}
    BY <1>1, <1>4 DEF TypeOK, None, Sides
  <2> QED BY <2>1 DEF AdoptKind
<1>7. AdoptKind(t) = "ENTRY" => DOMAIN known = {}
  BY <1>1, EmptyTable DEF AdoptKind, Phased, TypeOK
<1>8. chains' \in Nat
  BY <1>1, <1>5 DEF Counted, TypeOK
<1>9. Adopted(snap[t]) \in Beliefs /\ Adopted(snap[t]).sl = snap[t].sl
  BY <1>3, Members
<1>10. /\ DOMAIN known' = DOMAIN known \union {t}
       /\ known' \in [DOMAIN known' -> Beliefs]
       /\ known'[t].sl = snap[t].sl
       /\ \A u \in DOMAIN known : known'[u] = known[u]
  BY <1>1, <1>2, <1>5, <1>9 DEF With, TypeOK
<1>11. \/ chains' < MaxChains /\ Place(snap[t].side, "CHAIN")
       \/ chains' >= MaxChains /\ pend' = None /\ UNCHANGED <<pos, ord, slips>>
  BY <1>5, <1>8, Bounds
<1> QED BY <1>2, <1>4, <1>5, <1>6, <1>7, <1>8, <1>10, <1>11

\* Taking over a leg keeps the invariant.
LEMMA AdoptKeeps ==
  ASSUME IInv, NEW t \in Tickets, Adopt(t)
  PROVE  IInv'
<1>1. TypeOK /\ Apart /\ Believed /\ Phased
  BY DEF IInv
<1>2. /\ t \in DOMAIN snap \ DOMAIN known
      /\ snap[t].side \in Sides
      /\ chains' \in Nat
      /\ DOMAIN known' = DOMAIN known \union {t}
      /\ known' \in [DOMAIN known' -> Beliefs]
      /\ known'[t].sl = snap[t].sl
      /\ \A u \in DOMAIN known : known'[u] = known[u]
      /\ phase = "reconcile"
      /\ UNCHANGED <<pnl, halted, peak, phase, snap, resting, saved>>
      /\ \/ Place(snap[t].side, "CHAIN")
         \/ pend' = None /\ UNCHANGED <<pos, ord, slips>>
  BY AdoptDoes
<1>3. {} = Free \intersect
        (DOMAIN pos \union DOMAIN ord \union DOMAIN known \union DOMAIN snap)
      /\ Free \subseteq Tickets
  BY DEF Free
<1>4. /\ DOMAIN pos' \subseteq DOMAIN pos \union Free
      /\ DOMAIN ord' \subseteq DOMAIN ord \union Free
      /\ DOMAIN pos' \intersect DOMAIN ord' = {}
      /\ pos' \in [DOMAIN pos' -> Legs] /\ ord' \in [DOMAIN ord' -> Sides]
      /\ \A u \in DOMAIN pos \intersect DOMAIN pos' : pos'[u] = pos[u]
      /\ pend' \in {None, [side |-> snap[t].side, kind |-> "CHAIN"]}
      /\ slips' \in 0..MaxSlips
  <2>1. CASE Place(snap[t].side, "CHAIN")
    BY <1>1, <1>2, <2>1, PlaceTyped
  <2>2. CASE pend' = None /\ UNCHANGED <<pos, ord, slips>>
    BY <1>1, <2>2 DEF TypeOK
  <2> QED BY <1>2, <2>1, <2>2
<1>5. pend' \in [side : Sides, kind : {"ENTRY", "CHAIN"}] \union {None}
  BY <1>2, <1>4
<1>6. pend'.kind # "ENTRY"
  BY <1>4 DEF None
<1>7. TypeOK'
  BY <1>1, <1>2, <1>3, <1>4, <1>5 DEF TypeOK
<1>8. Apart'
  BY <1>1, <1>2, <1>3, <1>4 DEF Apart
<1>9. Believed'
  <2>1. \A u \in DOMAIN pos' \intersect DOMAIN known' :
          u \in DOMAIN pos /\ (u = t \/ u \in DOMAIN known)
    BY <1>2, <1>3, <1>4
  <2>2. \A u \in DOMAIN pos' \intersect DOMAIN known' : pos'[u].sl <= known'[u].sl
    <3> SUFFICES ASSUME NEW u \in DOMAIN pos' \intersect DOMAIN known'
                 PROVE  pos'[u].sl <= known'[u].sl
      OBVIOUS
    <3>1. CASE u = t
      <4>1. pos'[u] = snap[u] /\ pos'[u] \in Legs
        BY <1>1, <1>2, <1>4, <2>1, <3>1 DEF Believed
      <4> QED BY <1>2, <3>1, <4>1, Bounds DEF Legs
    <3>2. CASE u # t
      <4>1. /\ pos'[u] = pos[u] /\ known'[u] = known[u]
            /\ u \in DOMAIN pos \intersect DOMAIN known
        BY <1>2, <1>4, <2>1, <3>2
      <4> QED BY <1>1, <4>1 DEF Believed
    <3> QED BY <3>1, <3>2
  <2>3. \A u \in DOMAIN pos' \intersect DOMAIN snap' : pos'[u] = snap'[u]
    BY <1>1, <1>2, <1>3, <1>4 DEF Believed
  <2> QED BY <2>2, <2>3 DEF Believed
<1>10. Phased'
  BY <1>1, <1>2, <1>6 DEF Phased
<1> QED BY <1>7, <1>8, <1>9, <1>10 DEF IInv

\* Settling forgets the legs that are gone.
LEMMA SettleDoes ==
  ASSUME IInv, Settle
  PROVE  /\ phase = "reconcile" /\ phase' = "manage"
         /\ DOMAIN snap \subseteq DOMAIN known
         /\ DOMAIN known' = DOMAIN known \intersect DOMAIN snap
         /\ known' \in [DOMAIN known' -> Beliefs]
         /\ \A t \in DOMAIN known' : known'[t] = known[t]
         /\ DOMAIN ord' \subseteq DOMAIN ord /\ ord' \in [DOMAIN ord' -> Sides]
         /\ \A t \in DOMAIN ord' : ord'[t] = ord[t]
         /\ pend' \in {pend, None}
         /\ UNCHANGED <<pos, pnl, chains, halted, peak, snap, resting, saved, slips>>
<1>1. TypeOK
  BY DEF IInv
<1>2. known' = Restrict(known, DOMAIN known \intersect DOMAIN snap)
  BY DEF Settle
<1>3. /\ DOMAIN known' = DOMAIN known \intersect DOMAIN snap
      /\ known' \in [DOMAIN known' -> Beliefs]
      /\ \A t \in DOMAIN known' : known'[t] = known[t]
  BY <1>1, <1>2 DEF Restrict, TypeOK
<1>4. \/ CancelAll(DOMAIN ord) /\ pend' = None
      \/ ord' = ord /\ pend' = pend
  BY DEF Settle
<1>5. /\ DOMAIN ord' \subseteq DOMAIN ord /\ ord' \in [DOMAIN ord' -> Sides]
      /\ \A t \in DOMAIN ord' : ord'[t] = ord[t]
  BY <1>1, <1>4, CancelAllDoes DEF TypeOK
<1> QED BY <1>3, <1>4, <1>5 DEF Settle, Unknown

\* Settling keeps the invariant.
LEMMA SettleKeeps ==
  ASSUME IInv, Settle
  PROVE  IInv'
<1>1. TypeOK /\ Apart /\ Believed /\ Phased
  BY DEF IInv
<1>2. TypeOK'
  BY <1>1, SettleDoes DEF TypeOK
<1>3. Apart'
  BY <1>1, SettleDoes DEF Apart
<1>4. Believed'
  <2>1. /\ \A t \in DOMAIN known' : t \in DOMAIN known /\ known'[t] = known[t]
        /\ pos' = pos /\ snap' = snap
    BY SettleDoes
  <2> QED BY <1>1, <2>1 DEF Believed
<1>5. Phased'
  <2>1. pend' = pend \/ pend'.kind = "none"
    BY SettleDoes DEF None
  <2>2. ~halted
    BY <1>1, SettleDoes DEF Phased
  <2>3. /\ phase' = "manage" /\ halted' = halted /\ snap' = snap
        /\ DOMAIN known' = DOMAIN known \intersect DOMAIN snap
    BY SettleDoes
  <2> QED BY <1>1, <2>1, <2>2, <2>3 DEF Phased
<1> QED BY <1>2, <1>3, <1>4, <1>5 DEF IInv

\* The end of a pass forgets what it has read.
LEMMA EndPassDoes ==
  ASSUME EndPass
  PROVE  /\ phase' = "idle" /\ snap' = Empty /\ resting' = {} /\ saved' = peak
         /\ DOMAIN snap' = {} /\ snap' \in [DOMAIN snap' -> Legs]
BY EmptyTable DEF EndPass

\* A trail moves the stops of known legs up, at the broker never above what the
\* engine believes.
LEMMA TrailDoes ==
  ASSUME IInv, Trail
  PROVE  /\ phase = "manage" /\ EndPass
         /\ DOMAIN known' = DOMAIN known /\ known' \in [DOMAIN known' -> Beliefs]
         /\ DOMAIN pos' = DOMAIN pos /\ pos' \in [DOMAIN pos' -> Legs]
         /\ \A t \in DOMAIN pos : pos'[t].side = pos[t].side /\ pos'[t].sl >= pos[t].sl
         /\ \A t \in DOMAIN pos \intersect DOMAIN known : pos'[t].sl <= known'[t].sl
         /\ UNCHANGED <<ord, pnl, pend, chains, halted, peak, slips>>
<1> DEFINE legs == DOMAIN snap \intersect DOMAIN known
           Seen(fav, t) == [known[t] EXCEPT !.peak = IF fav[t] > @ THEN fav[t] ELSE @]
<1>1. TypeOK /\ Believed
  BY DEF IInv
<1>2. PICK fav \in [legs -> 0..MaxPeak], refused \in SUBSET legs :
        /\ known' = [t \in DOMAIN known |->
                       IF t \in legs
                       THEN [Seen(fav, t) EXCEPT !.sl = [u \in legs |-> Target(Seen(fav, u))][t]]
                       ELSE known[t]]
        /\ pos' = [t \in DOMAIN pos |->
                     IF t \in legs \ refused
                          /\ [u \in legs |-> Target(Seen(fav, u))][t] # known[t].sl
                     THEN [pos[t] EXCEPT !.sl = [u \in legs |-> Target(Seen(fav, u))][t]]
                     ELSE pos[t]]
  BY DEF Trail
<1> DEFINE goal(t) == Target(Seen(fav, t))
<1>3. \A t \in legs : /\ known[t] \in Beliefs /\ Seen(fav, t) \in Beliefs
                      /\ Seen(fav, t).sl = known[t].sl
  <2> SUFFICES ASSUME NEW t \in legs
               PROVE  /\ known[t] \in Beliefs /\ Seen(fav, t) \in Beliefs
                      /\ Seen(fav, t).sl = known[t].sl
    OBVIOUS
  <2>1. known[t] \in Beliefs
    BY <1>1 DEF TypeOK
  <2>2. fav[t] \in 0..MaxPeak
    OBVIOUS
  <2> QED BY <2>1, <2>2 DEF Beliefs
<1>4. \A t \in legs : goal(t) \in known[t].sl..MaxPeak /\ known[t].sl \in -Risk..MaxPeak
  <2> SUFFICES ASSUME NEW t \in legs
               PROVE  goal(t) \in known[t].sl..MaxPeak /\ known[t].sl \in -Risk..MaxPeak
    OBVIOUS
  <2>1. goal(t) \in Seen(fav, t).sl..MaxPeak
    BY <1>3, TargetTyped
  <2> QED BY <1>3, <2>1 DEF Beliefs
<1>5. /\ DOMAIN known' = DOMAIN known
      /\ \A t \in legs : known'[t] = [Seen(fav, t) EXCEPT !.sl = goal(t)]
      /\ \A t \in DOMAIN known \ legs : known'[t] = known[t]
  <2> HIDE DEF Seen
  <2> QED BY <1>2
<1>6. \A t \in legs : known'[t] \in Beliefs /\ known'[t].sl = goal(t)
  <2> SUFFICES ASSUME NEW t \in legs
               PROVE  known'[t] \in Beliefs /\ known'[t].sl = goal(t)
    OBVIOUS
  <2>1. goal(t) \in -Risk..MaxPeak
    BY <1>4, Bounds
  <2>2. Seen(fav, t) \in Beliefs /\ known'[t] = [Seen(fav, t) EXCEPT !.sl = goal(t)]
    BY <1>3, <1>5
  <2> HIDE DEF Seen, goal
  <2> QED BY <2>1, <2>2 DEF Beliefs
<1>7. /\ DOMAIN pos' = DOMAIN pos
      /\ \A t \in DOMAIN pos : \/ pos'[t] = pos[t]
                               \/ t \in legs /\ pos'[t] = [pos[t] EXCEPT !.sl = goal(t)]
  <2> HIDE DEF Seen
  <2> QED BY <1>2
<1>8. \A t \in DOMAIN pos : pos[t] \in Legs
  BY <1>1 DEF TypeOK
<1>9. \A t \in DOMAIN pos :
        /\ pos'[t] \in Legs /\ pos'[t].side = pos[t].side /\ pos'[t].sl >= pos[t].sl
        /\ t \in DOMAIN known => pos'[t].sl <= known'[t].sl
  <2> SUFFICES ASSUME NEW t \in DOMAIN pos
               PROVE  /\ pos'[t] \in Legs /\ pos'[t].side = pos[t].side
                      /\ pos'[t].sl >= pos[t].sl
                      /\ t \in DOMAIN known => pos'[t].sl <= known'[t].sl
    OBVIOUS
  <2>1. pos[t].sl \in -Risk..MaxPeak /\ pos[t].side \in Sides
    BY <1>8 DEF Legs
  <2>2. t \in DOMAIN known => pos[t].sl <= known[t].sl /\ known[t].sl \in -Risk..MaxPeak
    BY <1>1 DEF Believed, TypeOK, Beliefs
  <2>3. t \in legs => /\ goal(t) >= pos[t].sl /\ goal(t) \in -Risk..MaxPeak
                      /\ known'[t].sl = goal(t)
    <3> HIDE DEF Seen, goal
    <3> QED BY <1>4, <1>6, <2>1, <2>2, Bounds
  <2>4. t \in DOMAIN known => pos[t].sl <= known'[t].sl
    <3> HIDE DEF Seen, goal
    <3> QED BY <1>5, <2>2, <2>3
  <2>5. CASE pos'[t] = pos[t]
    BY <1>8, <2>1, <2>4, <2>5, Bounds
  <2>6. CASE t \in legs /\ pos'[t] = [pos[t] EXCEPT !.sl = goal(t)]
    <3>1. goal(t) >= pos[t].sl /\ goal(t) \in -Risk..MaxPeak /\ known'[t].sl = goal(t)
      BY <2>3, <2>6
    <3> HIDE DEF Seen, goal
    <3>2. pos'[t].sl = goal(t) /\ pos'[t].side = pos[t].side /\ pos'[t] \in Legs
      BY <1>8, <2>6, <3>1 DEF Legs
    <3> QED BY <3>1, <3>2, Bounds
  <2> QED BY <1>7, <2>5, <2>6
<1>10. known' \in [DOMAIN known' -> Beliefs]
  <2>1. \A t \in DOMAIN known' : known'[t] \in Beliefs
    <3> HIDE DEF Seen, goal
    <3> QED BY <1>1, <1>5, <1>6 DEF TypeOK
  <2>2. known' = [t \in DOMAIN known' |-> known'[t]]
    BY <1>2
  <2> QED BY <2>1, <2>2
<1>11. pos' \in [DOMAIN pos' -> Legs]
  <2>1. pos' = [t \in DOMAIN pos' |-> pos'[t]]
    BY <1>2
  <2> QED BY <1>7, <1>9, <2>1
<1> HIDE DEF legs, Seen, goal
<1> QED BY <1>5, <1>7, <1>9, <1>10, <1>11 DEF Trail

\* A trail keeps the invariant.
LEMMA TrailKeeps ==
  ASSUME IInv, Trail
  PROVE  IInv'
<1>1. TypeOK /\ Apart /\ Believed /\ Phased
  BY DEF IInv
<1>2. /\ phase' = "idle" /\ snap' = Empty /\ resting' = {} /\ saved' = peak
      /\ DOMAIN snap' = {} /\ snap' \in [DOMAIN snap' -> Legs]
  BY TrailDoes, EndPassDoes
<1>3. TypeOK'
  BY <1>1, <1>2, TrailDoes DEF TypeOK
<1>4. Apart'
  BY <1>1, <1>2, TrailDoes DEF Apart
<1>5. Believed'
  BY <1>1, <1>2, TrailDoes DEF Believed
<1>6. Phased'
  BY <1>1, <1>2, TrailDoes DEF Phased
<1> QED BY <1>3, <1>4, <1>5, <1>6 DEF IInv

\* An arming pass has seen no leg and knows none; it places one entry over an
\* empty reading, or only takes orders away.
LEMMA ArmDoes ==
  ASSUME IInv, Arm
  PROVE  /\ phase = "manage" /\ DOMAIN snap = {} /\ DOMAIN known = {} /\ EndPass
         /\ \/ resting = {} /\ \E side \in Sides : Place(side, "ENTRY")
            \/ /\ DOMAIN ord' \subseteq DOMAIN ord /\ ord' \in [DOMAIN ord' -> Sides]
               /\ \A t \in DOMAIN ord' : ord'[t] = ord[t]
               /\ pend' \in {pend, None} /\ UNCHANGED <<pos, slips>>
         /\ UNCHANGED <<pnl, known, chains, halted, peak>>
<1>1. TypeOK /\ Phased
  BY DEF IInv
<1>2. phase = "manage" /\ DOMAIN snap = {} /\ DOMAIN known = {}
  BY <1>1, EmptyTable DEF Arm, Phased
<1>3. CASE MayArm /\ \E side \in EntrySides : Place(side, "ENTRY")
  BY <1>2, <1>3 DEF Arm, MayArm, EntrySides, Sides
<1>4. CASE /\ CancelAll(resting \intersect DOMAIN ord) /\ pend' = None
           /\ UNCHANGED <<pos, slips>>
  BY <1>1, <1>2, <1>4, CancelAllDoes DEF Arm
<1>5. CASE UNCHANGED <<pos, ord, pend, slips>>
  BY <1>1, <1>2, <1>5 DEF Arm, TypeOK
<1> QED BY <1>3, <1>4, <1>5 DEF Arm

\* Arming keeps the invariant.
LEMMA ArmKeeps ==
  ASSUME IInv, Arm
  PROVE  IInv'
<1>1. TypeOK /\ Apart /\ Believed /\ Phased
  BY DEF IInv
<1>2. /\ phase' = "idle" /\ snap' = Empty /\ resting' = {} /\ saved' = peak
      /\ DOMAIN snap' = {} /\ snap' \in [DOMAIN snap' -> Legs]
  BY ArmDoes, EndPassDoes
<1>3. /\ DOMAIN pos' \subseteq DOMAIN pos \union Free
      /\ DOMAIN ord' \subseteq DOMAIN ord \union Free
      /\ DOMAIN pos' \intersect DOMAIN ord' = {}
      /\ pos' \in [DOMAIN pos' -> Legs] /\ ord' \in [DOMAIN ord' -> Sides]
      /\ pend' \in [side : Sides, kind : {"ENTRY", "CHAIN"}] \union {None}
      /\ slips' \in 0..MaxSlips
  <2>1. CASE resting = {} /\ \E side \in Sides : Place(side, "ENTRY")
    <3>1. PICK side \in Sides : Place(side, "ENTRY")
      BY <2>1
    <3>2. pend' \in {None, [side |-> side, kind |-> "ENTRY"]}
      BY <1>1, <3>1, PlaceTyped
    <3>3. pend' \in [side : Sides, kind : {"ENTRY", "CHAIN"}] \union {None}
      BY <3>2
    <3> QED BY <1>1, <3>1, <3>3, PlaceTyped
  <2>2. CASE /\ DOMAIN ord' \subseteq DOMAIN ord /\ ord' \in [DOMAIN ord' -> Sides]
             /\ \A t \in DOMAIN ord' : ord'[t] = ord[t]
             /\ pend' \in {pend, None} /\ UNCHANGED <<pos, slips>>
    BY <1>1, <2>2 DEF TypeOK
  <2> QED BY <2>1, <2>2, ArmDoes
<1>4. DOMAIN known' = {} /\ known' = known /\ Free \subseteq Tickets
      /\ UNCHANGED <<pnl, chains, halted, peak>>
  BY ArmDoes DEF Free
<1>5. TypeOK'
  BY <1>1, <1>2, <1>3, <1>4 DEF TypeOK
<1>6. Apart'
  BY <1>2, <1>3, <1>4 DEF Apart
<1>7. Believed'
  BY <1>2, <1>4 DEF Believed
<1>8. Phased'
  BY <1>2, <1>4 DEF Phased
<1> QED BY <1>5, <1>6, <1>7, <1>8 DEF IInv

\* A new state knows nothing.
LEMMA ForgottenDoes ==
  ASSUME Forgotten
  PROVE  /\ known' = Empty /\ DOMAIN known' = {} /\ known' \in [DOMAIN known' -> Beliefs]
         /\ pend' = None /\ chains' = 0 /\ ~halted' /\ halted' \in BOOLEAN
<1>1. halted' = FALSE
  BY DEF Forgotten
<1>2. halted' \in BOOLEAN
  BY <1>1, Zenon
<1> QED BY <1>1, <1>2, EmptyTable DEF Forgotten

\* A slip is counted.
LEMMA SlipTyped ==
  ASSUME TypeOK, Slip
  PROVE  slips' = slips + 1 /\ slips \in Nat /\ slips' \in 0..MaxSlips
BY Bounds DEF Slip, TypeOK

\* A restart keeps the invariant.
LEMMA RestartKeeps ==
  ASSUME IInv, Restart
  PROVE  IInv'
<1>1. TypeOK /\ Apart /\ Believed /\ Phased
  BY DEF IInv
<1>2. /\ peak' = saved /\ phase' = "idle" /\ snap' = Empty /\ resting' = {}
      /\ UNCHANGED <<pos, ord, pnl, saved>>
      /\ Slip /\ Forgotten
  BY DEF Restart, broker
<1>3. DOMAIN snap' = {} /\ snap' \in [DOMAIN snap' -> Legs]
  BY <1>2, EmptyTable
<1>4. TypeOK'
  BY <1>1, <1>2, <1>3, ForgottenDoes, SlipTyped DEF TypeOK
<1>5. Apart' /\ Believed' /\ Phased'
  BY <1>1, <1>2, <1>3, ForgottenDoes DEF Apart, Believed, Phased, TypeOK
<1> QED BY <1>4, <1>5 DEF IInv

\* A day roll keeps the invariant.
LEMMA DayRollKeeps ==
  ASSUME IInv, DayRoll
  PROVE  IInv'
<1>1. TypeOK /\ Apart /\ Believed /\ Phased
  BY DEF IInv
<1>2. /\ peak' = 0 /\ saved' = 0 /\ pnl' = 0 /\ ord' = Empty /\ phase = "idle"
      /\ UNCHANGED <<pos, phase, snap, resting>>
      /\ Slip /\ Forgotten
  BY DEF DayRoll, pass
<1>3. DOMAIN ord' = {} /\ ord' \in [DOMAIN ord' -> Sides]
  BY <1>2, EmptyTable
<1>4. TypeOK'
  BY <1>1, <1>2, <1>3, ForgottenDoes, SlipTyped DEF TypeOK
<1>5. Apart' /\ Believed' /\ Phased'
  BY <1>1, <1>2, <1>3, ForgottenDoes DEF Apart, Believed, Phased, TypeOK
<1> QED BY <1>4, <1>5 DEF IInv

\* A forced close keeps the invariant.
LEMMA ForceCloseKeeps ==
  ASSUME IInv, ForceClose
  PROVE  IInv'
<1>1. TypeOK /\ Apart /\ Believed /\ Phased
  BY DEF IInv
<1>2. /\ CloseAll /\ Slip /\ known' = Empty /\ pend' = None /\ phase = "idle"
      /\ UNCHANGED <<ord, chains, halted, peak, phase, snap, resting, saved>>
  BY DEF ForceClose, pass
<1>3. /\ DOMAIN pos' \subseteq DOMAIN pos /\ pos' \in [DOMAIN pos' -> Legs]
      /\ \A t \in DOMAIN pos' : pos'[t] = pos[t]
      /\ pnl' \in Int
  BY <1>1, <1>2, CloseAllDoes
<1>4. DOMAIN known' = {} /\ known' \in [DOMAIN known' -> Beliefs]
  BY <1>2, EmptyTable
<1>5. TypeOK'
  BY <1>1, <1>2, <1>3, <1>4, SlipTyped DEF TypeOK
<1>6. Apart' /\ Believed'
  BY <1>1, <1>2, <1>3, <1>4 DEF Apart, Believed
<1>7. Phased'
  BY <1>1, <1>2, <1>4 DEF Phased
<1> QED BY <1>5, <1>6, <1>7 DEF IInv

\* A step that changes nothing keeps the invariant.
LEMMA StutterKeeps ==
  ASSUME IInv, UNCHANGED vars
  PROVE  IInv'
BY DEF IInv, TypeOK, Apart, Believed, Phased, vars, broker, engine, pass

\* Every step keeps the invariant.
LEMMA StepKeeps == IInv /\ [Next]_vars => IInv'
BY FillKeeps, StopOutKeeps, ReadKeeps, GovernKeeps, AdoptKeeps, SettleKeeps,
   TrailKeeps, ArmKeeps, RestartKeeps, DayRollKeeps, ForceCloseKeeps, StutterKeeps
   DEF Next, BrokerMoves, Pass

\* The invariant holds in every state of the engine and the broker.
THEOREM MonsterInvariance == Spec => []IInv
BY InitHolds, StepKeeps, PTL DEF Spec

\* The state is what its types say; a ticket is an order or a position, never
\* both, in rogue_monster_live.py and at the broker.
THEOREM TypeCorrect == Spec => []TypeOK
BY MonsterInvariance, PTL DEF IInv

-----------------------------------------------------------------------------
(* Stops only tighten.                                                     *)

\* Only a trail moves the stop of a leg that stays open.
LEMMA LegsStay ==
  ASSUME IInv, [Next]_vars, ~Trail
  PROVE  \A t \in DOMAIN pos \intersect DOMAIN pos' : pos'[t] = pos[t]
<1>1. TypeOK /\ Apart
  BY DEF IInv
<1>2. ASSUME NEW t \in Tickets, Fill(t)
      PROVE  \A u \in DOMAIN pos \intersect DOMAIN pos' : pos'[u] = pos[u]
  BY <1>1, <1>2 DEF Fill, With, TypeOK
<1>3. ASSUME NEW t \in Tickets, StopOut(t)
      PROVE  \A u \in DOMAIN pos \intersect DOMAIN pos' : pos'[u] = pos[u]
  BY <1>3 DEF StopOut, Restrict
<1>4. CASE ReadRestAndGovern
  <2>1. CloseAll \/ pos' = pos
    BY <1>4 DEF ReadRestAndGovern, HaltDay, broker
  <2> QED BY <1>1, <2>1, CloseAllDoes
<1>5. ASSUME NEW t \in Tickets, Adopt(t)
      PROVE  \A u \in DOMAIN pos \intersect DOMAIN pos' : pos'[u] = pos[u]
  BY <1>1, <1>5, AdoptDoes, PlaceTyped
<1>6. CASE Arm
  BY <1>1, <1>6, ArmDoes, PlaceTyped
<1>7. CASE ForceClose
  BY <1>1, <1>7, CloseAllDoes DEF ForceClose
<1>8. CASE ReadPositions \/ Settle \/ Restart \/ DayRoll \/ UNCHANGED vars
  BY <1>8 DEF ReadPositions, Settle, Restart, DayRoll, vars, broker
<1> QED BY <1>2, <1>3, <1>4, <1>5, <1>6, <1>7, <1>8 DEF Next, BrokerMoves, Pass

\* drive_monster never loosens a stop at the broker: not after a change was
\* refused, nor when a leg is taken over with its peak forgotten.
THEOREM StopsOnlyTighten == Spec => StopNeverLoosened
<1>1. IInv /\ [Next]_vars
        => [\A t \in DOMAIN pos \intersect DOMAIN pos' : pos'[t].sl >= pos[t].sl]_vars
  <2> SUFFICES ASSUME IInv, [Next]_vars, NEW t \in DOMAIN pos \intersect DOMAIN pos'
               PROVE  pos'[t].sl >= pos[t].sl
    OBVIOUS
  <2>1. pos[t].sl \in Int
    BY Bounds DEF IInv, TypeOK, Legs
  <2>2. CASE Trail
    BY <2>2, TrailDoes
  <2>3. CASE ~Trail
    BY <2>1, <2>3, LegsStay
  <2> QED BY <2>2, <2>3
<1> QED BY <1>1, MonsterInvariance, PTL DEF Spec, StopNeverLoosened

-----------------------------------------------------------------------------
(* No hedge.                                                               *)

\* Everything at the broker, and everything the pass has read, is on side s.
SideIs(s) ==
  /\ \A t \in DOMAIN pos : pos[t].side = s
  /\ \A t \in DOMAIN ord : ord[t] = s
  /\ \A t \in DOMAIN snap : snap[t].side = s

\* While nothing slipped there is such a side.
OneWay == slips = 0 => \E s \in Sides : SideIs(s)

\* A placement on side s keeps that side.
LEMMA PlaceSide ==
  ASSUME TypeOK, NEW s \in Sides, NEW kind \in {"ENTRY", "CHAIN"}, Place(s, kind),
         \A t \in DOMAIN pos : pos[t].side = s, \A t \in DOMAIN ord : ord[t] = s
  PROVE  /\ \A t \in DOMAIN pos' : pos'[t].side = s
         /\ \A t \in DOMAIN ord' : ord'[t] = s
<1>1. PICK new, filled \in SUBSET Free, past \in 0..Chase :
        /\ ord' = With(ord, new \ filled, s)
        /\ pos' = With(pos, filled, FreshLeg(s, past))
  BY PlaceDoes
<1> QED BY <1>1 DEF With, FreshLeg

\* Every step keeps one side: an entry meets an empty broker, a chain stop
\* follows its leg.
LEMMA SideStays ==
  ASSUME IInv, OneWay, [Next]_vars
  PROVE  OneWay'
<1> SUFFICES ASSUME slips' = 0
             PROVE  \E s \in Sides : SideIs(s)'
  BY DEF OneWay
<1>1. TypeOK /\ Apart /\ Phased
  BY DEF IInv
<1>2. ~Slip
  BY <1>1, SlipTyped
<1>3. slips \in Nat
  BY <1>1, Bounds DEF TypeOK
<1>4. slips = 0
  <2>1. ASSUME NEW t \in Tickets, Adopt(t)  PROVE slips = 0
    <3>1. CASE Place(snap[t].side, "CHAIN")
      <4>1. snap[t].side \in Sides
        BY <2>1, AdoptDoes
      <4>2. slips' \in slips..MaxSlips
        BY <1>1, <3>1, <4>1, PlaceDoes
      <4> QED BY <1>3, <4>2, Bounds
    <3> QED BY <2>1, <3>1, AdoptDoes
  <2>2. CASE Arm
    <3>1. CASE \E side \in Sides : Place(side, "ENTRY")
      <4>1. slips' \in slips..MaxSlips
        BY <1>1, <3>1, PlaceDoes
      <4> QED BY <1>3, <4>1, Bounds
    <3> QED BY <2>2, <3>1, ArmDoes
  <2>3. CASE ReadRestAndGovern
    BY <1>2, <2>3 DEF ReadRestAndGovern
  <2> QED BY <1>2, <2>1, <2>2, <2>3
          DEF Next, BrokerMoves, Pass, Fill, StopOut, ReadPositions, Settle, Trail,
              Restart, DayRoll, ForceClose, vars
<1>5. PICK s \in Sides : SideIs(s)
  BY <1>4 DEF OneWay
<1>6. ASSUME NEW t \in Tickets, Fill(t)  PROVE SideIs(s)'
  BY <1>5, <1>6 DEF SideIs, Fill, With, Restrict, FreshLeg, pass
<1>7. ASSUME NEW t \in Tickets, StopOut(t)  PROVE SideIs(s)'
  BY <1>5, <1>7 DEF SideIs, StopOut, Restrict, pass
<1>8. CASE ReadPositions
  BY <1>5, <1>8, EmptyTable DEF SideIs, ReadPositions, broker
<1>9. CASE ReadRestAndGovern
  <2>1. CASE UNCHANGED <<pos, ord, snap>>
    BY <1>5, <2>1 DEF SideIs
  <2>2. CASE CloseAll /\ CancelAll(DOMAIN ord) /\ snap' = Empty
    <3>1. \A t \in DOMAIN pos' : t \in DOMAIN pos /\ pos'[t] = pos[t]
      BY <1>1, <2>2, CloseAllDoes
    <3>2. \A t \in DOMAIN ord' : t \in DOMAIN ord /\ ord'[t] = ord[t]
      BY <1>1, <2>2, CancelAllDoes
    <3> QED BY <1>5, <2>2, <3>1, <3>2, EmptyTable DEF SideIs
  <2> QED BY <1>9, <2>1, <2>2 DEF ReadRestAndGovern, HaltDay, broker
<1>10. ASSUME NEW t \in Tickets, Adopt(t)  PROVE SideIs(s)'
  <2>1. snap[t].side = s /\ snap' = snap
    BY <1>5, <1>10, AdoptDoes DEF SideIs
  <2>2. Place(s, "CHAIN") \/ UNCHANGED <<pos, ord>>
    BY <1>10, <2>1, AdoptDoes
  <2> QED BY <1>1, <1>5, <2>1, <2>2, PlaceSide DEF SideIs
<1>11. CASE Settle
  BY <1>5, <1>11, SettleDoes DEF SideIs
<1>12. CASE Trail
  BY <1>5, <1>12, TrailDoes, EndPassDoes DEF SideIs
<1>13. CASE Arm
  <2>1. DOMAIN snap' = {}
    BY <1>13, ArmDoes, EndPassDoes
  <2>2. CASE resting = {} /\ \E side \in Sides : Place(side, "ENTRY")
    <3>1. PICK side \in Sides : Place(side, "ENTRY")
      BY <2>2
    <3>2. pos = Empty /\ ord = Empty
      <4>1. resting = {} /\ (pos # Empty \/ ord # Empty) => slips' # slips
        BY <1>1, <3>1, PlaceDoes
      <4> QED BY <1>4, <2>2, <4>1
    <3>3. SideIs(side)'
      <4>1. DOMAIN pos = {} /\ DOMAIN ord = {}
        BY <3>2, EmptyTable
      <4>2. /\ \A t \in DOMAIN pos' : pos'[t].side = side
            /\ \A t \in DOMAIN ord' : ord'[t] = side
        BY <1>1, <3>1, <4>1, PlaceSide
      <4> QED BY <2>1, <4>2 DEF SideIs
    <3> QED BY <3>3
  <2>3. CASE /\ DOMAIN ord' \subseteq DOMAIN ord
             /\ \A t \in DOMAIN ord' : ord'[t] = ord[t]
             /\ pos' = pos
    BY <1>5, <2>1, <2>3 DEF SideIs
  <2> QED BY <1>13, <2>2, <2>3, ArmDoes
<1>14. CASE UNCHANGED vars
  BY <1>5, <1>14 DEF SideIs, vars, broker, pass
<1> QED BY <1>2, <1>5, <1>6, <1>7, <1>8, <1>9, <1>10, <1>11, <1>12, <1>13, <1>14
        DEF Next, BrokerMoves, Pass, Restart, DayRoll, ForceClose

\* No leg hedges another while no query, answer or restart went wrong: all legs
\* _reconcile chains are on the side of the entry.
THEOREM NoHedge == Spec => []OneSide
<1>1. Init => OneWay
  BY EmptyTable DEF Init, OneWay, SideIs, Sides
<1>2. OneWay => OneSide
  BY DEF OneWay, OneSide, SideIs
<1> QED BY <1>1, <1>2, SideStays, MonsterInvariance, PTL DEF Spec

-----------------------------------------------------------------------------
(* What is live at the broker.                                             *)

\* What is live at the broker.
Live == DOMAIN pos \union DOMAIN ord

\* The known legs that this pass will not forget.
Kept == IF phase \in {"queried", "reconcile"} THEN DOMAIN known \intersect DOMAIN snap
        ELSE DOMAIN known

\* What may still come to the engine as an unknown leg.
Loose == DOMAIN ord \union ((DOMAIN pos \union DOMAIN snap) \ Kept)

\* Chain stops the sequence can still place after the next one.
Links == IF chains + 1 < MaxChains THEN MaxChains - 1 - chains ELSE 0

\* What the slips so far have added.
Slack == slips * MaxChains

\* What is live and what can still be chained stay within the bound; unless the
\* day is halted, one ticket and one for each slip and chain is loose.
Numbered ==
  /\ Cardinality(Live) <= 1 + MaxChains + Slack
  /\ ~halted => /\ Cardinality(Loose) <= 1 + Slack
                /\ Cardinality(Live) + Links <= 1 + MaxChains + Slack

\* A part of a set of tickets is no larger.
LEMMA Fewer ==
  ASSUME NEW T \in SUBSET Tickets, NEW S \in SUBSET T
  PROVE  /\ Cardinality(S) \in Nat /\ Cardinality(T) \in Nat
         /\ Cardinality(S) <= Cardinality(T)
BY Bounds, FS_Subset, FS_CardinalityType

\* The size of a union of tickets.
LEMMA Joined ==
  ASSUME NEW S \in SUBSET Tickets, NEW N \in SUBSET Tickets
  PROVE  /\ Cardinality(S) \in Nat /\ Cardinality(N) \in Nat
         /\ Cardinality(S \union N) \in Nat
         /\ Cardinality(S \union N) <= Cardinality(S) + Cardinality(N)
         /\ S \intersect N = {} => Cardinality(S \union N) = Cardinality(S) + Cardinality(N)
<1>1. IsFiniteSet(S) /\ IsFiniteSet(N) /\ S \intersect N \in SUBSET Tickets
  BY Bounds, FS_Subset
<1>2. Cardinality(S \union N) = Cardinality(S) + Cardinality(N) - Cardinality(S \intersect N)
  BY <1>1, FS_Union
<1>3. Cardinality(S) \in Nat /\ Cardinality(N) \in Nat /\ Cardinality(S \intersect N) \in Nat
      /\ Cardinality(S \union N) \in Nat
  BY <1>1, Fewer
<1>4. S \intersect N = {} => Cardinality(S \intersect N) = 0
  BY FS_EmptySet
<1> QED BY <1>2, <1>3, <1>4

\* One ticket less.
LEMMA OneLess ==
  ASSUME NEW S \in SUBSET Tickets, NEW t \in S
  PROVE  Cardinality(S \ {t}) = Cardinality(S) - 1
BY Bounds, FS_Subset, FS_RemoveElement

\* Every number in Numbered is a natural number.
LEMMA LiveFinite ==
  ASSUME TypeOK
  PROVE  /\ Live \in SUBSET Tickets /\ Loose \in SUBSET Tickets
         /\ Cardinality(Live) \in Nat /\ Cardinality(Loose) \in Nat
         /\ Links \in Nat /\ slips \in Nat /\ Slack \in Nat
         /\ MaxChains # 0 => Links <= MaxChains - 1
<1>1. Live \in SUBSET Tickets /\ Loose \in SUBSET Tickets
  BY DEF TypeOK, Live, Loose
<1>2. slips \in Nat /\ MaxChains \in Nat /\ chains \in Nat
  BY Bounds DEF TypeOK
<1>3. Slack \in Nat
  BY <1>2 DEF Slack
<1>4. Links \in Nat /\ (MaxChains # 0 => Links <= MaxChains - 1)
  BY <1>2 DEF Links
<1> QED BY <1>1, <1>2, <1>3, <1>4, Fewer

\* Products grow with their first factor.
LEMMA Products ==
  ASSUME NEW a \in Nat, NEW b \in Nat, NEW m \in Nat, a <= b
  PROVE  /\ a * m \in Nat /\ b * m \in Nat /\ a * m <= b * m
         /\ m # 0 => a * m + (b - a) <= b * m
         /\ b # a => a * m + m <= b * m
<1> DEFINE d == b - a
<1>1. d \in Nat /\ b = a + d
  OBVIOUS
<1> HIDE DEF d
<1>2. (a + d) * m = a * m + d * m /\ a * m \in Nat /\ d * m \in Nat
  BY <1>1
<1>3. m # 0 => d <= d * m
  <2> SUFFICES ASSUME m # 0 PROVE d <= d * m
    OBVIOUS
  <2> DEFINE e == m - 1
  <2>1. e \in Nat /\ m = e + 1
    OBVIOUS
  <2> HIDE DEF e
  <2>2. d * (e + 1) = d * e + d /\ d * e \in Nat
    BY <1>1, <2>1
  <2> QED BY <1>1, <2>1, <2>2
<1>4. d # 0 => m <= d * m
  <2> SUFFICES ASSUME d # 0 PROVE m <= d * m
    OBVIOUS
  <2> DEFINE e == d - 1
  <2>1. e \in Nat /\ d = e + 1
    BY <1>1
  <2> HIDE DEF e
  <2>2. (e + 1) * m = e * m + m /\ e * m \in Nat
    BY <2>1
  <2> QED BY <2>1, <2>2
<1>5. b * m = a * m + d * m /\ b * m \in Nat
  BY <1>1, <1>2
<1> QED BY <1>1, <1>2, <1>3, <1>4, <1>5

\* A slip is worth a whole set of chains.
LEMMA SlackGrows ==
  ASSUME TypeOK, slips' \in slips..MaxSlips, MaxChains # 0
  PROVE  /\ Slack \in Nat /\ Slack' \in Nat
         /\ Slack + (slips' - slips) <= Slack'
         /\ slips' # slips => Slack + MaxChains <= Slack'
<1>1. slips \in Nat /\ slips' \in Nat /\ slips <= slips' /\ MaxChains \in Nat
  BY Bounds DEF TypeOK
<1> QED BY <1>1, Products DEF Slack

\* Slips are never taken back.
LEMMA SlipsGrow ==
  ASSUME TypeOK, slips' \in slips..MaxSlips
  PROVE  slips \in Nat /\ slips' \in Nat /\ slips' - slips \in Nat
BY Bounds DEF TypeOK

\* Steps that neither place anything nor go wrong.
LEMMA QuietNumbers ==
  ASSUME IInv, IInv', Numbered, slips' \in slips..MaxSlips, MaxChains # 0,
         Live' \subseteq Live,
         ~halted' => ~halted /\ Loose' \subseteq Loose /\ chains' = chains
  PROVE  Numbered'
<1>1. TypeOK /\ TypeOK'
  BY DEF IInv
<1>2. /\ Live \in SUBSET Tickets /\ Loose \in SUBSET Tickets
      /\ Cardinality(Live) \in Nat /\ Cardinality(Loose) \in Nat
      /\ Links \in Nat
  BY <1>1, LiveFinite
<1>3. Slack \in Nat /\ Slack' \in Nat /\ Slack <= Slack'
  BY <1>1, SlackGrows, Bounds DEF TypeOK
<1>4. Cardinality(Live') \in Nat /\ Cardinality(Live') <= Cardinality(Live)
  BY <1>2, Fewer
<1>5. ~halted' => /\ Cardinality(Loose') \in Nat /\ Cardinality(Loose') <= Cardinality(Loose)
                  /\ Links' = Links
  BY <1>2, Fewer DEF Links
<1> QED BY <1>2, <1>3, <1>4, <1>5, Bounds DEF Numbered

\* Whatever the engine loses sight of, what is live was within its bound.
LEMMA SlipNumbers ==
  ASSUME IInv, IInv', Numbered, slips' = slips + 1, MaxChains # 0,
         Live' \subseteq Live, Loose' \subseteq Live'
  PROVE  Numbered'
<1>1. TypeOK /\ TypeOK'
  BY DEF IInv
<1>2. /\ Live \in SUBSET Tickets /\ Live' \in SUBSET Tickets /\ slips \in Nat
      /\ Cardinality(Live) \in Nat
      /\ Links' \in Nat /\ Links' <= MaxChains - 1
  <2>1. Live' \in SUBSET Tickets
    BY <1>1 DEF TypeOK, Live
  <2>2. chains' \in Nat
    BY <1>1 DEF TypeOK
  <2>3. Links' \in Nat /\ Links' <= MaxChains - 1
    <3> DEFINE c == chains'
    <3>1. Links' = IF c + 1 < MaxChains THEN MaxChains - 1 - c ELSE 0
      BY DEF Links
    <3>2. c \in Nat /\ MaxChains \in Nat
      BY <2>2, Bounds
    <3> HIDE DEF c
    <3> QED BY <3>1, <3>2
  <2> QED BY <1>1, <2>1, <2>3, LiveFinite
<1>3. slips' \in slips..MaxSlips /\ slips' # slips
  BY <1>1, <1>2, Bounds DEF TypeOK
<1>4. Slack \in Nat /\ Slack' \in Nat /\ Slack + MaxChains <= Slack'
  BY <1>1, <1>3, SlackGrows
<1>5. /\ Cardinality(Live') \in Nat /\ Cardinality(Loose') \in Nat
      /\ Cardinality(Live') <= Cardinality(Live)
      /\ Cardinality(Loose') <= Cardinality(Live')
  BY <1>2, Fewer
<1>6. Cardinality(Live) <= 1 + MaxChains + Slack
  BY DEF Numbered
<1> DEFINE a == Cardinality(Live)  b == Cardinality(Live')  c == Cardinality(Loose')
           s == Slack  z == Slack'  k == Links'
<1> HIDE DEF a, b, c, s, z, k
<1>7. b <= 1 + MaxChains + z /\ c <= 1 + z /\ b + k <= 1 + MaxChains + z
  BY <1>2, <1>4, <1>5, <1>6, Bounds DEF a, b, c, s, z, k
<1> QED BY <1>7 DEF Numbered, a, b, c, s, z, k

\* Placing adds tickets nothing remembers, one and what slips.
LEMMA PlaceAdds ==
  ASSUME TypeOK, NEW side \in Sides, NEW kind \in {"ENTRY", "CHAIN"}, Place(side, kind)
  PROVE  \E new \in SUBSET Tickets :
           /\ Live' = Live \union new
           /\ new \intersect (Live \union DOMAIN known \union DOMAIN snap) = {}
           /\ DOMAIN pos \subseteq DOMAIN pos' /\ DOMAIN ord \subseteq DOMAIN ord'
           /\ slips' \in slips..MaxSlips
           /\ Cardinality(new) \in Nat /\ Cardinality(new) <= 1 + (slips' - slips)
           /\ kind = "ENTRY" /\ resting = {} /\ (pos # Empty \/ ord # Empty)
                => Cardinality(new) <= slips' - slips
<1>1. PICK new, filled \in SUBSET Free, past \in 0..Chase :
        /\ filled \subseteq new
        /\ ord' = With(ord, new \ filled, side)
        /\ pos' = With(pos, filled, FreshLeg(side, past))
        /\ slips' \in slips..MaxSlips
        /\ Cardinality(new) <= 1 + (slips' - slips)
        /\ kind = "ENTRY" /\ resting = {} /\ (pos # Empty \/ ord # Empty)
             => /\ Cardinality(new) <= slips' - slips
                /\ slips' # slips
        /\ pend' \in {None, [side |-> side, kind |-> kind]}
  BY PlaceDoes, Zenon
<1>2. new \in SUBSET Tickets
      /\ new \intersect (Live \union DOMAIN known \union DOMAIN snap) = {}
  BY DEF Free, Live
<1>3. DOMAIN pos' = DOMAIN pos \union filled /\ DOMAIN ord' = DOMAIN ord \union (new \ filled)
  BY <1>1 DEF With
<1>4. Live' = Live \union new
  BY <1>1, <1>3 DEF Live
<1>5. Cardinality(new) \in Nat
  BY <1>2, Fewer
<1> QED BY <1>1, <1>2, <1>3, <1>4, <1>5

\* A leg that is taken over is no longer loose; the chain stop it places uses
\* one link, and is the loose one now.
LEMMA AdoptNumbers ==
  ASSUME IInv, IInv', Numbered, MaxChains # 0, NEW t \in Tickets, Adopt(t)
  PROVE  Numbered'
<1>1. TypeOK /\ TypeOK' /\ Phased /\ Apart
  BY DEF IInv
<1>2. phase = "reconcile" /\ phase' = phase /\ snap' = snap /\ halted' = halted
      /\ t \in DOMAIN snap \ DOMAIN known /\ DOMAIN known' = DOMAIN known \union {t}
      /\ chains' = Counted(AdoptKind(t)) /\ chains' \in Nat
      /\ snap[t].side \in Sides
      /\ (AdoptKind(t) = "ENTRY" => DOMAIN known = {})
      /\ AdoptKind(t) \in {"ENTRY", "CHAIN"}
  BY AdoptDoes
<1>3. ~halted
  BY <1>1, <1>2 DEF Phased
<1>4. /\ Live \in SUBSET Tickets /\ Loose \in SUBSET Tickets
      /\ Cardinality(Live) \in Nat /\ Cardinality(Loose) \in Nat
      /\ Links \in Nat /\ slips \in Nat /\ Slack \in Nat
  BY <1>1, LiveFinite
<1>5. PICK new \in SUBSET Tickets :
        /\ Live' = Live \union new
        /\ new \intersect (Live \union DOMAIN known \union DOMAIN snap) = {}
        /\ DOMAIN pos' \subseteq DOMAIN pos \union new
        /\ DOMAIN ord' \subseteq DOMAIN ord \union new
        /\ slips' \in slips..MaxSlips
        /\ Cardinality(new) \in Nat
        /\ \/ chains' < MaxChains /\ Cardinality(new) <= 1 + (slips' - slips)
           \/ chains' >= MaxChains /\ Cardinality(new) = 0
  <2>1. CASE chains' < MaxChains /\ Place(snap[t].side, "CHAIN")
    <3>1. PICK new \in SUBSET Tickets :
            /\ Live' = Live \union new
            /\ new \intersect (Live \union DOMAIN known \union DOMAIN snap) = {}
            /\ DOMAIN pos \subseteq DOMAIN pos' /\ DOMAIN ord \subseteq DOMAIN ord'
            /\ slips' \in slips..MaxSlips
            /\ Cardinality(new) \in Nat /\ Cardinality(new) <= 1 + (slips' - slips)
      BY <1>1, <1>2, <2>1, PlaceAdds
    <3>2. /\ DOMAIN pos' \subseteq DOMAIN pos \union new
          /\ DOMAIN ord' \subseteq DOMAIN ord \union new
      BY <1>1, <3>1 DEF TypeOK, Live
    <3> QED BY <2>1, <3>1, <3>2
  <2>2. CASE chains' >= MaxChains /\ UNCHANGED <<pos, ord, slips>>
    <3>1. Cardinality({}) = 0
      BY FS_EmptySet
    <3>2. slips' \in slips..MaxSlips
      BY <1>4, <2>2, Bounds, <1>1 DEF TypeOK
    <3>3. Live' = Live
      BY <2>2 DEF Live
    <3> QED BY <2>2, <3>1, <3>2, <3>3
  <2> QED BY <2>1, <2>2, AdoptDoes
<1>6. Slack' \in Nat /\ Slack + (slips' - slips) <= Slack' /\ Slack <= Slack'
  BY <1>1, <1>4, <1>5, SlackGrows, Bounds
<1>7. Cardinality(Live') \in Nat /\ Cardinality(Live') <= Cardinality(Live) + Cardinality(new)
  BY <1>4, <1>5, Joined
<1>8. /\ Cardinality(Loose') \in Nat
      /\ Cardinality(Loose') <= Cardinality(Loose) - 1 + Cardinality(new)
  <2>1. t \in Loose
    BY <1>2 DEF Loose, Kept
  <2>2. Loose' \subseteq (Loose \ {t}) \union new
    <3>1. Kept' = Kept \union {t}
      BY <1>2 DEF Kept
    <3>2. t \notin DOMAIN ord' \/ t \in new
      BY <1>1, <1>2, <1>5 DEF Apart
    <3> QED BY <1>2, <1>5, <3>1, <3>2 DEF Loose
  <2>3. Cardinality(Loose \ {t}) = Cardinality(Loose) - 1
    BY <1>4, <2>1, OneLess
  <2>4. /\ Cardinality((Loose \ {t}) \union new) <= Cardinality(Loose \ {t}) + Cardinality(new)
        /\ (Loose \ {t}) \union new \in SUBSET Tickets
        /\ Cardinality((Loose \ {t}) \union new) \in Nat
        /\ Cardinality(Loose \ {t}) \in Nat
    BY <1>4, Joined
  <2>5. /\ Cardinality(Loose') <= Cardinality((Loose \ {t}) \union new)
        /\ Cardinality(Loose') \in Nat
    BY <2>2, <2>4, Fewer
  <2> QED BY <1>4, <1>5, <2>3, <2>4, <2>5
<1>9. /\ Cardinality(Loose) <= 1 + Slack
      /\ Cardinality(Live) + Links <= 1 + MaxChains + Slack
      /\ Cardinality(Live) <= 1 + MaxChains + Slack
  BY <1>3 DEF Numbered
<1>10. AdoptKind(t) = "ENTRY" => Cardinality(Live) <= Cardinality(Loose)
  <2>1. ASSUME DOMAIN known = {}  PROVE Live \subseteq Loose
    BY <2>1 DEF Live, Loose, Kept
  <2> QED BY <1>2, <1>4, <2>1, Fewer
<1>11. AdoptKind(t) = "CHAIN" => chains' = chains + 1
  BY <1>2 DEF Counted
<1>12. AdoptKind(t) = "ENTRY" => chains' = 0
  BY <1>2 DEF Counted
<1>13. chains \in Nat /\ MaxChains \in Nat
  BY <1>1, Bounds DEF TypeOK
<1>14. slips' - slips \in Nat
  BY <1>1, <1>5, SlipsGrow
<1> DEFINE a == Cardinality(Live)  b == Cardinality(Live')  l == Cardinality(Loose)
           m == Cardinality(Loose')  n == Cardinality(new)  d == slips' - slips
           s == Slack  z == Slack'  k == Links  j == Links'  c == chains  e == chains'
<1>15. /\ k = IF c + 1 < MaxChains THEN MaxChains - 1 - c ELSE 0
       /\ j = IF e + 1 < MaxChains THEN MaxChains - 1 - e ELSE 0
  BY DEF Links
<1>16. /\ a \in Nat /\ b \in Nat /\ l \in Nat /\ m \in Nat /\ n \in Nat /\ d \in Nat
       /\ s \in Nat /\ z \in Nat /\ k \in Nat /\ c \in Nat /\ e \in Nat
  BY <1>2, <1>4, <1>5, <1>6, <1>7, <1>8, <1>13, <1>14
<1>17. /\ s + d <= z /\ b <= a + n /\ m <= l - 1 + n /\ l <= 1 + s
       /\ a + k <= 1 + MaxChains + s /\ a <= 1 + MaxChains + s
       /\ (e < MaxChains /\ n <= 1 + d) \/ (e >= MaxChains /\ n = 0)
       /\ (e = 0 /\ a <= l) \/ e = c + 1
  BY <1>2, <1>5, <1>6, <1>7, <1>8, <1>9, <1>10, <1>11, <1>12
<1> HIDE DEF a, b, l, m, n, d, s, z, k, j, c, e
<1>18. m <= 1 + z
  BY <1>16, <1>17
<1>19. b + j <= 1 + MaxChains + z /\ b <= 1 + MaxChains + z
  <2>1. CASE e >= MaxChains /\ n = 0
    <3>1. j = 0
      BY <1>13, <1>15, <1>16, <2>1
    <3> QED BY <1>13, <1>16, <1>17, <2>1, <3>1
  <2>2. CASE e = 0 /\ a <= l /\ n <= 1 + d
    <3>1. j = MaxChains - 1
      BY <1>13, <1>15, <2>2
    <3> QED BY <1>13, <1>16, <1>17, <2>2, <3>1
  <2>3. CASE e = c + 1 /\ e < MaxChains /\ n <= 1 + d
    <3>1. k = j + 1 /\ j \in Nat
      BY <1>13, <1>15, <1>16, <2>3
    <3> QED BY <1>13, <1>16, <1>17, <2>3, <3>1
  <2> QED BY <1>13, <1>16, <1>17, <2>1, <2>2, <2>3
<1> QED BY <1>18, <1>19 DEF Numbered, a, b, l, m, n, d, s, z, k, j, c, e

\* An entry is placed over an empty broker, or blind, which is a slip.
LEMMA ArmNumbers ==
  ASSUME IInv, IInv', Numbered, MaxChains # 0, Arm
  PROVE  Numbered'
<1>1. TypeOK /\ TypeOK' /\ Phased
  BY DEF IInv
<1>2. /\ phase = "manage" /\ phase' = "idle" /\ DOMAIN snap = {} /\ DOMAIN known = {}
      /\ DOMAIN known' = {} /\ DOMAIN snap' = {}
      /\ UNCHANGED <<chains, halted>>
  BY ArmDoes, EndPassDoes
<1>3. ~halted
  BY <1>1, <1>2 DEF Phased
<1>4. /\ Live \in SUBSET Tickets /\ Loose \in SUBSET Tickets
      /\ Cardinality(Live) \in Nat /\ Cardinality(Loose) \in Nat
      /\ Links \in Nat /\ slips \in Nat /\ Slack \in Nat /\ Links <= MaxChains - 1
  BY <1>1, LiveFinite
<1>5. Loose = Live /\ Loose' = Live'
  BY <1>2 DEF Loose, Live, Kept
<1>6. CASE resting = {} /\ \E side \in Sides : Place(side, "ENTRY")
  <2>1. PICK side \in Sides : Place(side, "ENTRY")
    BY <1>6
  <2>2. PICK new \in SUBSET Tickets :
          /\ Live' = Live \union new
          /\ slips' \in slips..MaxSlips
          /\ Cardinality(new) \in Nat /\ Cardinality(new) <= 1 + (slips' - slips)
          /\ resting = {} /\ (pos # Empty \/ ord # Empty)
               => Cardinality(new) <= slips' - slips
    BY <1>1, <2>1, PlaceAdds
  <2>3. Slack' \in Nat /\ Slack + (slips' - slips) <= Slack' /\ slips' - slips \in Nat
    BY <1>1, <2>2, SlackGrows, SlipsGrow
  <2>4. /\ Cardinality(Live') \in Nat
        /\ Cardinality(Live') <= Cardinality(Live) + Cardinality(new)
    BY <1>4, <2>2, Joined
  <2>5. Cardinality(Live) <= 1 + Slack /\ Cardinality(Live) + Links <= 1 + MaxChains + Slack
    BY <1>3, <1>5 DEF Numbered
  <2>6. Links' = Links
    BY <1>2 DEF Links
  <2>7. pos = Empty /\ ord = Empty => Cardinality(Live) = 0
    <3> SUFFICES ASSUME pos = Empty, ord = Empty PROVE Cardinality(Live) = 0
      OBVIOUS
    <3>1. Live = {}
      BY EmptyTable DEF Live
    <3> QED BY <3>1, FS_EmptySet
  <2> DEFINE a == Cardinality(Live)  b == Cardinality(Live')  n == Cardinality(new)
             d == slips' - slips  s == Slack  z == Slack'  k == Links
  <2>8. /\ a \in Nat /\ b \in Nat /\ n \in Nat /\ d \in Nat /\ s \in Nat /\ z \in Nat
        /\ k \in Nat /\ k <= MaxChains - 1 /\ MaxChains \in Nat
        /\ s + d <= z /\ b <= a + n /\ a <= 1 + s /\ a + k <= 1 + MaxChains + s
        /\ (a = 0 /\ n <= 1 + d) \/ n <= d
    BY <1>4, <1>6, <2>2, <2>3, <2>4, <2>5, <2>7, Bounds
  <2> HIDE DEF a, b, n, d, s, z, k
  <2>9. b <= 1 + z /\ b + k <= 1 + MaxChains + z /\ b <= 1 + MaxChains + z
    BY <2>8
  <2> QED BY <1>5, <2>6, <2>9 DEF Numbered, a, b, n, d, s, z, k
<1>7. CASE DOMAIN ord' \subseteq DOMAIN ord /\ UNCHANGED <<pos, slips>>
  <2>1. Live' \subseteq Live
    BY <1>7 DEF Live
  <2>2. slips' \in slips..MaxSlips
    BY <1>1, <1>4, <1>7, Bounds DEF TypeOK
  <2> QED BY <1>2, <1>3, <1>5, <2>1, <2>2, QuietNumbers
<1> QED BY <1>6, <1>7, ArmDoes

\* Slips that stay are slips that are not taken back.
LEMMA OwnSlips == TypeOK => slips \in slips..MaxSlips
BY Bounds DEF TypeOK

\* The governor lets the pass go on only above the halt, or over a failed query,
\* or it closes and cancels everything and halts.
LEMMA GovernDoes ==
  ASSUME TypeOK, ReadRestAndGovern
  PROVE  /\ phase = "queried" /\ chains' = chains
         /\ slips' = slips \/ slips' = slips + 1
         /\ slips' \in slips..MaxSlips
         /\ \/ /\ phase' = "reconcile"
               /\ UNCHANGED <<pos, ord, pnl, known, pend, halted, snap>>
               /\ \/ pnl > -LossHalt /\ slips' = slips
                  \/ slips' = slips + 1
            \/ /\ CloseAll /\ CancelAll(DOMAIN ord)
               /\ known' = Empty /\ halted' /\ phase' = "idle" /\ snap' = Empty
<1>1. PICK found \in {DOMAIN ord, {}}, net \in {pnl, 0} :
        /\ (IF found = DOMAIN ord /\ net = pnl THEN UNCHANGED slips ELSE Slip)
        /\ peak' = Top(net)
        /\ IF Halts(net, Top(net))
           THEN HaltDay /\ saved' = Top(net)
           ELSE /\ phase' = "reconcile" /\ resting' = found
                /\ UNCHANGED <<broker, known, pend, halted, snap, saved>>
  BY DEF ReadRestAndGovern
<1>2. /\ slips' = slips \/ slips' = slips + 1
      /\ slips' \in slips..MaxSlips
      /\ slips' = slips => net = pnl
  BY <1>1, OwnSlips, SlipTyped, Bounds DEF TypeOK
<1>3. phase = "queried" /\ chains' = chains
  BY DEF ReadRestAndGovern
<1>4. CASE Halts(net, Top(net))
  <2>1. HaltDay
    BY <1>1, <1>4
  <2>2. halted' = TRUE
    BY <2>1 DEF HaltDay
  <2> QED BY <1>2, <1>3, <2>1, <2>2 DEF HaltDay
<1>5. CASE ~Halts(net, Top(net))
  <2>1. phase' = "reconcile" /\ UNCHANGED <<pos, ord, pnl, known, pend, halted, snap>>
    BY <1>1, <1>5 DEF broker
  <2>2. net > -LossHalt
    BY <1>5, Bounds DEF Halts, TypeOK
  <2> QED BY <1>2, <1>3, <2>1, <2>2
<1> QED BY <1>4, <1>5

\* Every step keeps the numbers.
LEMMA NumbersStay ==
  ASSUME IInv, Numbered, [Next]_vars, MaxChains # 0
  PROVE  Numbered'
<1>1. IInv'
  BY StepKeeps
<1>2. TypeOK /\ TypeOK' /\ Phased /\ Apart
  BY <1>1 DEF IInv
<1>3. ASSUME NEW t \in Tickets, Fill(t)  PROVE Numbered'
  <2>1. /\ t \in DOMAIN ord
        /\ DOMAIN pos' = DOMAIN pos \union {t} /\ DOMAIN ord' = DOMAIN ord \ {t}
        /\ UNCHANGED <<known, snap, phase, chains, halted, slips>>
    BY <1>3 DEF Fill, With, Restrict, engine, pass
  <2>2. Live' \subseteq Live
    BY <2>1 DEF Live
  <2>3. Loose' \subseteq Loose
    BY <2>1 DEF Loose, Kept
  <2> QED BY <1>1, <1>2, <2>1, <2>2, <2>3, OwnSlips, QuietNumbers
<1>4. ASSUME NEW t \in Tickets, StopOut(t)  PROVE Numbered'
  <2>1. /\ DOMAIN pos' = DOMAIN pos \ {t}
        /\ UNCHANGED <<ord, known, snap, phase, chains, halted, slips>>
    BY <1>4 DEF StopOut, Restrict, engine, pass
  <2>2. Live' \subseteq Live
    BY <2>1 DEF Live
  <2>3. Loose' \subseteq Loose
    BY <2>1 DEF Loose, Kept
  <2> QED BY <1>1, <1>2, <2>1, <2>2, <2>3, OwnSlips, QuietNumbers
<1>5. CASE ReadPositions
  <2>1. /\ phase = "idle" /\ phase' = "queried"
        /\ UNCHANGED <<pos, ord, known, chains, halted>>
        /\ (snap' = pos /\ slips' = slips) \/ (snap' = Empty /\ Slip)
    BY <1>5 DEF ReadPositions, broker, engine
  <2>2. CASE snap' = pos /\ slips' = slips
    <3>1. Live' \subseteq Live /\ Loose' \subseteq Loose
      BY <2>1, <2>2 DEF Live, Loose, Kept
    <3> QED BY <1>1, <1>2, <2>1, <2>2, <3>1, OwnSlips, QuietNumbers
  <2>3. CASE snap' = Empty /\ Slip
    <3>1. Live' \subseteq Live /\ Loose' \subseteq Live'
      BY <2>1, <2>3, EmptyTable DEF Live, Loose, Kept
    <3> QED BY <1>1, <1>2, <2>3, <3>1, SlipTyped, SlipNumbers
  <2> QED BY <2>1, <2>2, <2>3
<1>6. CASE ReadRestAndGovern
  <2>1. chains' = chains /\ phase = "queried" /\ slips' \in slips..MaxSlips
    BY <1>2, <1>6, GovernDoes
  <2>2. CASE phase' = "reconcile" /\ UNCHANGED <<pos, ord, known, halted, snap>>
    <3>1. Live' \subseteq Live /\ Loose' \subseteq Loose
      BY <2>1, <2>2 DEF Live, Loose, Kept
    <3> QED BY <1>1, <2>1, <2>2, <3>1, QuietNumbers
  <2>3. CASE CloseAll /\ CancelAll(DOMAIN ord) /\ halted'
    <3>1. DOMAIN pos' \subseteq DOMAIN pos
      BY <1>2, <2>3, CloseAllDoes
    <3>2. DOMAIN ord' \subseteq DOMAIN ord
      BY <1>2, <2>3, CancelAllDoes
    <3>3. Live' \subseteq Live
      BY <3>1, <3>2 DEF Live
    <3> QED BY <1>1, <2>1, <2>3, <3>3, QuietNumbers
  <2> QED BY <1>2, <1>6, <2>2, <2>3, GovernDoes
<1>7. ASSUME NEW t \in Tickets, Adopt(t)  PROVE Numbered'
  BY <1>1, <1>7, AdoptNumbers
<1>8. CASE Settle
  <2>1. /\ phase = "reconcile" /\ phase' = "manage"
        /\ DOMAIN known' = DOMAIN known \intersect DOMAIN snap
        /\ DOMAIN ord' \subseteq DOMAIN ord
        /\ UNCHANGED <<pos, chains, halted, snap, slips>>
    BY <1>8, SettleDoes
  <2>2. Live' \subseteq Live /\ Loose' \subseteq Loose
    BY <2>1 DEF Live, Loose, Kept
  <2> QED BY <1>1, <1>2, <2>1, <2>2, OwnSlips, QuietNumbers
<1>9. CASE Trail
  <2>1. /\ phase = "manage" /\ phase' = "idle" /\ DOMAIN snap' = {}
        /\ DOMAIN known' = DOMAIN known /\ DOMAIN pos' = DOMAIN pos
        /\ UNCHANGED <<ord, chains, halted, slips>>
    BY <1>9, TrailDoes, EndPassDoes
  <2>2. Live' \subseteq Live /\ Loose' \subseteq Loose
    BY <2>1 DEF Live, Loose, Kept
  <2> QED BY <1>1, <1>2, <2>1, <2>2, OwnSlips, QuietNumbers
<1>10. CASE Arm
  BY <1>1, <1>10, ArmNumbers
<1>11. CASE Restart \/ DayRoll
  <2>1. /\ Slip /\ Forgotten /\ pos' = pos /\ (ord' = ord \/ ord' = Empty)
        /\ phase' = "idle" /\ (snap' = Empty \/ snap' = snap)
        /\ phase = "idle" \/ snap' = Empty
    BY <1>11 DEF Restart, DayRoll, broker, pass
  <2>2. Live' \subseteq Live
    BY <2>1, EmptyTable DEF Live
  <2>3. DOMAIN snap' = {}
    BY <1>2, <2>1, EmptyTable DEF Phased
  <2>4. Loose' \subseteq Live'
    BY <2>3 DEF Loose, Live
  <2> QED BY <1>1, <1>2, <2>1, <2>2, <2>4, SlipTyped, SlipNumbers
<1>12. CASE ForceClose
  <2>1. /\ Slip /\ CloseAll /\ ord' = ord /\ snap' = snap /\ phase = "idle"
    BY <1>12 DEF ForceClose, pass
  <2>2. DOMAIN pos' \subseteq DOMAIN pos
    BY <1>2, <2>1, CloseAllDoes
  <2>3. DOMAIN snap' = {}
    BY <1>2, <2>1, EmptyTable DEF Phased
  <2>4. Live' \subseteq Live /\ Loose' \subseteq Live'
    BY <2>1, <2>2, <2>3 DEF Loose, Live
  <2> QED BY <1>1, <1>2, <2>1, <2>4, SlipTyped, SlipNumbers
<1>13. CASE UNCHANGED vars
  BY <1>13 DEF Numbered, Live, Loose, Kept, Links, Slack, vars, broker, engine, pass
<1> QED BY <1>3, <1>4, <1>5, <1>6, <1>7, <1>8, <1>9, <1>10, <1>11, <1>12, <1>13
        DEF Next, BrokerMoves, Pass

\* The numbers hold at the start.
LEMMA InitNumbers == Init => Numbered
<1> SUFFICES ASSUME Init PROVE Numbered
  OBVIOUS
<1>1. Live = {} /\ Loose = {}
  BY EmptyTable DEF Init, Live, Loose, Kept
<1>2. Cardinality({}) = 0
  BY FS_EmptySet
<1>3. Slack = 0 /\ Links <= MaxChains /\ Links \in Int
  BY Bounds DEF Init, Slack, Links
<1> QED BY <1>1, <1>2, <1>3, Bounds DEF Numbered

\* Legs and resting stops at the broker stay within one entry and its chains,
\* and one set of chains for each slip (rogue_max_chains), for any number of
\* tickets, and through restarts, lost answers and fills between two queries.
\* A limit of no chains leaves no room for the stop a lost answer can double;
\* the configuration has three.
THEOREM ExposureIsBounded ==
  ASSUME MaxChains # 0
  PROVE  Spec => []ExposureBounded
<1>1. IInv /\ Numbered /\ [Next]_vars => Numbered'
  BY NumbersStay
<1>2. Numbered => ExposureBounded
  BY DEF Numbered, ExposureBounded, MaxExposure, Live, Slack
<1> QED BY <1>1, <1>2, InitNumbers, MonsterInvariance, PTL DEF Spec

-----------------------------------------------------------------------------
(* What the day can lose.                                                  *)

\* Stops this pass may still place.
Coming ==
  IF phase = "reconcile" THEN IF Kept = {} THEN MaxChains ELSE Links
  ELSE IF phase = "manage" /\ DOMAIN snap = {} THEN MaxChains ELSE 0

\* Stops the day has already answered for.
Room == 1 + MaxChains + Slack - Coming

\* The worst case stays above the halt and the stops answered for.
Solvent == Worst > -LossHalt - Risk * Room

\* Multiples of the initial stop.
LEMMA CapTimes ==
  ASSUME NEW a \in Int, NEW b \in Int
  PROVE  /\ Risk * a \in Int /\ Risk * b \in Int
         /\ Risk * (a + b) = Risk * a + Risk * b
         /\ a <= b => Risk * a <= Risk * b
<1>1. Risk \in Nat
  BY Bounds
<1>2. Risk * (a + b) = Risk * a + Risk * b /\ Risk * a \in Int /\ Risk * b \in Int
  BY <1>1
<1>3. a <= b => Risk * a <= Risk * b
  <2> SUFFICES ASSUME a <= b PROVE Risk * a <= Risk * b
    OBVIOUS
  <2> DEFINE d == b - a
  <2>1. d \in Nat /\ b = a + d
    OBVIOUS
  <2> HIDE DEF d
  <2>2. Risk * (a + d) = Risk * a + Risk * d /\ Risk * d \in Nat
    BY <1>1, <2>1
  <2> QED BY <1>2, <2>1, <2>2
<1> QED BY <1>2, <1>3

\* The points at risk of disjoint sets of legs add up.
LEMMA RiskSplits ==
  ASSUME NEW f, NEW S \in SUBSET Tickets, NEW T \in SUBSET Tickets, S \intersect T = {}
  PROVE  Cardinality(AtRisk(f, S \union T))
           = Cardinality(AtRisk(f, S)) + Cardinality(AtRisk(f, T))
<1>1. AtRisk(f, S \union T) = AtRisk(f, S) \union AtRisk(f, T)
  BY DEF AtRisk
<1>2. AtRisk(f, S) \intersect AtRisk(f, T) = {}
  BY DEF AtRisk
<1>3. IsFiniteSet(AtRisk(f, S)) /\ IsFiniteSet(AtRisk(f, T))
      /\ Cardinality(AtRisk(f, S)) \in Nat /\ Cardinality(AtRisk(f, T)) \in Nat
  BY RiskFinite
<1>4. Cardinality({}) = 0
  BY FS_EmptySet
<1> DEFINE A == AtRisk(f, S)  B == AtRisk(f, T)
<1>5. IsFiniteSet(A) /\ IsFiniteSet(B) /\ A \intersect B = {}
      /\ Cardinality(A) \in Nat /\ Cardinality(B) \in Nat
  BY <1>2, <1>3
<1>6. Cardinality(A \union B) = Cardinality(A) + Cardinality(B)
  <2> HIDE DEF A, B
  <2>1. Cardinality(A \union B) = Cardinality(A) + Cardinality(B) - Cardinality(A \intersect B)
    BY <1>5, FS_Union
  <2>2. A \intersect B = {}
    BY <1>5
  <2>3. Cardinality(A \intersect B) = 0
    BY ONLY <1>4, <2>2, Zenon
  <2> QED BY <1>5, <2>1, <2>3
<1> QED BY <1>1, <1>6

\* Fewer legs with better stops risk no more.
LEMMA RiskShrinks ==
  ASSUME NEW f, NEW g, NEW T \in SUBSET Tickets, NEW S \in SUBSET T,
         \A t \in S : f[t].sl \in Int /\ g[t].sl \in Int /\ g[t].sl >= f[t].sl
  PROVE  Cardinality(AtRisk(g, S)) <= Cardinality(AtRisk(f, T))
<1>1. AtRisk(g, S) \subseteq AtRisk(f, T)
  <2> SUFFICES ASSUME NEW p \in AtRisk(g, S) PROVE p \in AtRisk(f, T)
    OBVIOUS
  <2>1. p \in S \X (1..Risk) /\ g[p[1]].sl <= -p[2]
    BY DEF AtRisk
  <2>2. p[1] \in S /\ p[2] \in Int /\ p \in T \X (1..Risk)
    BY <2>1
  <2>3. f[p[1]].sl <= -p[2]
    BY <2>1, <2>2
  <2> QED BY <2>2, <2>3 DEF AtRisk
<1> QED BY <1>1, RiskFinite, FS_Subset

\* A leg risks at least what its stop can lose.
LEMMA RiskCovers ==
  ASSUME NEW f, NEW t \in Tickets, f[t].sl \in -Risk..MaxPeak
  PROVE  -f[t].sl <= Cardinality(AtRisk(f, {t}))
<1>1. Cardinality(AtRisk(f, {t})) \in Nat /\ IsFiniteSet(AtRisk(f, {t}))
  BY RiskFinite
<1>2. f[t].sl \in Int /\ -f[t].sl <= Risk /\ Risk \in Nat
  BY Bounds
<1>3. CASE f[t].sl >= 0
  BY <1>1, <1>2, <1>3
<1>4. CASE f[t].sl < 0
  <2> DEFINE d == -f[t].sl
  <2>1. d \in Nat /\ 0 < d /\ d <= Risk
    BY <1>2, <1>4
  <2> HIDE DEF d
  <2>2. IsFiniteSet(1..d) /\ Cardinality(1..d) = d
    BY <2>1, FS_Interval
  <2>3. IsFiniteSet({t}) /\ Cardinality({t}) = 1
    BY FS_Singleton
  <2>4. Cardinality({t} \X (1..d)) = 1 * d
    BY <2>2, <2>3, FS_Product
  <2>5. {t} \X (1..d) \in SUBSET AtRisk(f, {t})
    <3> SUFFICES ASSUME NEW p \in {t} \X (1..d) PROVE p \in AtRisk(f, {t})
      OBVIOUS
    <3>1. p[1] = t /\ p[2] \in 1..d
      OBVIOUS
    <3>2. p[2] \in 1..Risk /\ f[t].sl <= -p[2]
      BY <1>2, <2>1, <3>1 DEF d
    <3>3. p \in {t} \X (1..Risk)
      BY <3>1, <3>2
    <3> QED BY <3>1, <3>2, <3>3 DEF AtRisk
  <2>6. Cardinality({t} \X (1..d)) <= Cardinality(AtRisk(f, {t}))
    BY <1>1, <2>5, FS_Subset
  <2>7. d <= Cardinality(AtRisk(f, {t}))
    BY <2>1, <2>4, <2>6
  <2> QED BY <2>7 DEF d
<1> QED BY <1>2, <1>3, <1>4

\* The worst case, in points at risk.
LEMMA WorstIs ==
  /\ Worst = pnl - Cardinality(AtRisk(pos, DOMAIN pos)) - Risk * Cardinality(DOMAIN ord)
  /\ Worst' = pnl' - Cardinality(AtRisk(pos', DOMAIN pos')) - Risk * Cardinality(DOMAIN ord')
BY DEF Worst, Lost, AtRisk

\* Every number the worst case is made of, before and after a step.
LEMMA WorstTyped ==
  ASSUME TypeOK, TypeOK'
  PROVE  /\ pnl \in Int /\ pnl' \in Int
         /\ Cardinality(DOMAIN ord) \in Nat /\ Cardinality(DOMAIN ord') \in Nat
         /\ Cardinality(AtRisk(pos, DOMAIN pos)) \in Nat
         /\ Cardinality(AtRisk(pos', DOMAIN pos')) \in Nat
         /\ Risk * Cardinality(DOMAIN ord) \in Int /\ Risk * Cardinality(DOMAIN ord') \in Int
         /\ Worst \in Int /\ Worst' \in Int
         /\ \A t \in DOMAIN pos : pos[t].sl \in -Risk..MaxPeak /\ pos[t].sl \in Int
         /\ \A t \in DOMAIN pos' : pos'[t].sl \in -Risk..MaxPeak /\ pos'[t].sl \in Int
<1>1. DOMAIN pos \in SUBSET Tickets /\ DOMAIN pos' \in SUBSET Tickets
      /\ DOMAIN ord \in SUBSET Tickets /\ DOMAIN ord' \in SUBSET Tickets
      /\ pnl \in Int /\ pnl' \in Int
  BY DEF TypeOK
<1>2. Cardinality(DOMAIN ord) \in Nat /\ Cardinality(DOMAIN ord') \in Nat
      /\ Cardinality(AtRisk(pos, DOMAIN pos)) \in Nat
      /\ Cardinality(AtRisk(pos', DOMAIN pos')) \in Nat
  BY <1>1, RiskFinite
<1>3. Risk * Cardinality(DOMAIN ord) \in Int /\ Risk * Cardinality(DOMAIN ord') \in Int
  BY <1>2, CapTimes
<1>4. Worst \in Int /\ Worst' \in Int
  BY <1>1, <1>2, <1>3, WorstIs
<1>5. \A t \in DOMAIN pos : pos[t].sl \in -Risk..MaxPeak /\ pos[t].sl \in Int
  BY Bounds DEF TypeOK, Legs
<1>6. \A t \in DOMAIN pos' : pos'[t].sl \in -Risk..MaxPeak /\ pos'[t].sl \in Int
  BY Bounds DEF TypeOK, Legs
<1> QED BY <1>1, <1>2, <1>3, <1>4, <1>5, <1>6

\* Legs that close at their stops or better, stops that tighten and orders
\* that go leave the worst case no worse.
LEMMA WorstHolds ==
  ASSUME TypeOK, TypeOK',
         DOMAIN pos' \subseteq DOMAIN pos, DOMAIN ord' \subseteq DOMAIN ord,
         \A t \in DOMAIN pos' : pos'[t].sl >= pos[t].sl,
         pnl' >= pnl - Lost(DOMAIN pos \ DOMAIN pos')
  PROVE  Worst' >= Worst
<1> DEFINE gone == DOMAIN pos \ DOMAIN pos'
<1>1. DOMAIN pos \in SUBSET Tickets /\ DOMAIN pos' \in SUBSET DOMAIN pos
      /\ gone \in SUBSET Tickets /\ DOMAIN ord \in SUBSET Tickets
      /\ DOMAIN pos' \union gone = DOMAIN pos /\ DOMAIN pos' \intersect gone = {}
      /\ DOMAIN pos' \in SUBSET Tickets
  BY DEF TypeOK
<1>2. Cardinality(AtRisk(pos, DOMAIN pos))
        = Cardinality(AtRisk(pos, DOMAIN pos')) + Cardinality(AtRisk(pos, gone))
  <2> HIDE DEF gone
  <2> QED BY <1>1, RiskSplits
<1>3. Cardinality(AtRisk(pos', DOMAIN pos')) <= Cardinality(AtRisk(pos, DOMAIN pos'))
  BY <1>1, WorstTyped, RiskShrinks
<1>4. Lost(gone) = Cardinality(AtRisk(pos, gone)) /\ Lost(gone) \in Nat
  BY <1>1, CloseTyped
<1>5. Cardinality(AtRisk(pos, DOMAIN pos')) \in Nat
  BY <1>1, RiskFinite
<1>6. Risk * Cardinality(DOMAIN ord') <= Risk * Cardinality(DOMAIN ord)
  <2>1. Cardinality(DOMAIN ord') <= Cardinality(DOMAIN ord)
    BY <1>1, Fewer
  <2> QED BY <2>1, WorstTyped, CapTimes
<1> DEFINE a == Cardinality(AtRisk(pos, DOMAIN pos))
           b == Cardinality(AtRisk(pos', DOMAIN pos'))
           c == Cardinality(AtRisk(pos, DOMAIN pos'))  l == Lost(gone)
           o == Risk * Cardinality(DOMAIN ord)  q == Risk * Cardinality(DOMAIN ord')
<1>7. /\ a \in Nat /\ b \in Nat /\ c \in Nat /\ l \in Nat /\ o \in Int /\ q \in Int
      /\ pnl \in Int /\ pnl' \in Int
      /\ a = c + l /\ b <= c /\ q <= o /\ pnl' >= pnl - l
      /\ Worst = pnl - a - o /\ Worst' = pnl' - b - q
  BY <1>2, <1>3, <1>4, <1>5, <1>6, WorstTyped, WorstIs
<1> DEFINE v == pnl  w == pnl'
<1>8. v \in Int /\ w \in Int /\ w >= v - l /\ Worst = v - a - o /\ Worst' = w - b - q
  BY <1>7
<1> HIDE DEF a, b, c, l, o, q, v, w
<1>9. w - b - q >= v - a - o
  BY <1>7, <1>8
<1> QED BY <1>8, <1>9

\* A fill turns an order into a leg with the initial stop: the worst case is
\* the same.
LEMMA FillWorst ==
  ASSUME IInv, IInv', NEW t \in Tickets, Fill(t)
  PROVE  Worst' >= Worst
<1>1. TypeOK /\ TypeOK'
  BY DEF IInv
<1>2. /\ t \in DOMAIN ord /\ DOMAIN pos' = DOMAIN pos \union {t}
      /\ DOMAIN ord' = DOMAIN ord \ {t} /\ pnl' = pnl
      /\ \A u \in DOMAIN pos : pos'[u] = pos[u]
      /\ t \notin DOMAIN pos
  BY <1>1 DEF Fill, With, Restrict, TypeOK
<1>3. DOMAIN pos \in SUBSET Tickets /\ DOMAIN ord \in SUBSET Tickets /\ {t} \in SUBSET Tickets
      /\ DOMAIN pos \intersect {t} = {}
  BY <1>1, <1>2 DEF TypeOK
<1>4. Cardinality(AtRisk(pos', DOMAIN pos'))
        = Cardinality(AtRisk(pos', DOMAIN pos)) + Cardinality(AtRisk(pos', {t}))
  BY <1>2, <1>3, RiskSplits
<1>5. Cardinality(AtRisk(pos', DOMAIN pos)) <= Cardinality(AtRisk(pos, DOMAIN pos))
  <2>1. \A u \in DOMAIN pos :
          pos[u].sl \in Int /\ pos'[u].sl \in Int /\ pos'[u].sl >= pos[u].sl
    BY <1>1, <1>2, WorstTyped
  <2> QED BY <1>3, <2>1, RiskShrinks
<1>6. Cardinality(AtRisk(pos', {t})) <= Risk /\ Cardinality(AtRisk(pos', {t})) \in Nat
  <2>1. Cardinality({t}) = 1
    BY FS_Singleton
  <2>2. Cardinality(AtRisk(pos', {t})) <= Risk * 1 /\ Cardinality(AtRisk(pos', {t})) \in Nat
    BY <1>3, <2>1, RiskFinite
  <2> QED BY <2>2, Bounds
<1>7. Risk * Cardinality(DOMAIN ord') = Risk * Cardinality(DOMAIN ord) - Risk
  <2>1. Cardinality(DOMAIN ord') = Cardinality(DOMAIN ord) - 1
    BY <1>2, <1>3, OneLess
  <2>2. Cardinality(DOMAIN ord) = Cardinality(DOMAIN ord') + 1
    BY <1>1, <2>1, WorstTyped
  <2>3. Risk * (Cardinality(DOMAIN ord') + 1) = Risk * Cardinality(DOMAIN ord') + Risk * 1
    BY <1>1, WorstTyped, CapTimes
  <2> DEFINE x == Risk * Cardinality(DOMAIN ord')  y == Risk * Cardinality(DOMAIN ord)
  <2>4. y = x + Risk * 1 /\ x \in Int /\ y \in Int
    BY <1>1, <2>2, <2>3, WorstTyped
  <2> HIDE DEF x, y
  <2>5. x = y - Risk
    BY <2>4, Bounds
  <2> QED BY <2>5 DEF x, y
<1>8. Cardinality(AtRisk(pos', DOMAIN pos)) \in Nat
  BY <1>3, RiskFinite
<1> DEFINE a == Cardinality(AtRisk(pos, DOMAIN pos))
           b == Cardinality(AtRisk(pos', DOMAIN pos'))
           c == Cardinality(AtRisk(pos', DOMAIN pos))  l == Cardinality(AtRisk(pos', {t}))
           o == Risk * Cardinality(DOMAIN ord)  q == Risk * Cardinality(DOMAIN ord')
<1>9. /\ a \in Nat /\ b \in Nat /\ c \in Nat /\ l \in Nat /\ o \in Int /\ q \in Int
      /\ pnl \in Int /\ Risk \in Nat
      /\ b = c + l /\ c <= a /\ l <= Risk /\ q = o - Risk
      /\ Worst = pnl - a - o /\ Worst' = pnl - b - q
  BY <1>1, <1>2, <1>4, <1>5, <1>6, <1>7, <1>8, WorstTyped, WorstIs, Bounds
<1> HIDE DEF a, b, c, l, o, q
<1> QED BY <1>9

\* A stop-out costs what it risked: the worst case is no worse.
LEMMA StopOutWorst ==
  ASSUME IInv, IInv', NEW t \in Tickets, StopOut(t)
  PROVE  Worst' >= Worst
<1>1. TypeOK /\ TypeOK'
  BY DEF IInv
<1>2. /\ t \in DOMAIN pos /\ DOMAIN pos' = DOMAIN pos \ {t} /\ ord' = ord
      /\ pnl' = pnl + pos[t].sl
      /\ \A u \in DOMAIN pos' : pos'[u] = pos[u]
  BY DEF StopOut, Restrict
<1>3. pos[t].sl \in -Risk..MaxPeak /\ pos[t].sl \in Int /\ pnl \in Int
  BY <1>1, <1>2, WorstTyped
<1>4. Lost({t}) = Cardinality(AtRisk(pos, {t})) /\ Lost({t}) \in Nat
  BY CloseTyped
<1>5. -pos[t].sl <= Lost({t})
  BY <1>3, <1>4, RiskCovers
<1>6. DOMAIN pos \ DOMAIN pos' = {t}
  BY <1>2
<1>7. pnl' >= pnl - Lost(DOMAIN pos \ DOMAIN pos')
  <2> DEFINE x == pos[t].sl  l == Lost({t})
  <2>1. pnl' = pnl + x /\ x \in Int /\ l \in Nat /\ -x <= l /\ pnl \in Int
    BY <1>2, <1>3, <1>4, <1>5
  <2> HIDE DEF x, l
  <2>2. pnl' >= pnl - l
    BY <2>1
  <2> QED BY <1>6, <2>2 DEF l
<1>8. \A u \in DOMAIN pos' : pos'[u].sl >= pos[u].sl
  BY <1>1, <1>2, WorstTyped
<1> QED BY <1>1, <1>2, <1>7, <1>8, WorstHolds

\* What is placed can cost its initial stop.
LEMMA PlaceWorst ==
  ASSUME TypeOK, TypeOK', pnl' = pnl,
         NEW side \in Sides, NEW kind \in {"ENTRY", "CHAIN"}, Place(side, kind),
         NEW new \in SUBSET Tickets, Live' = Live \union new, new \intersect Live = {}
  PROVE  Worst' >= Worst - Risk * Cardinality(new)
<1> DEFINE filled == new \intersect DOMAIN pos'  rests == new \intersect DOMAIN ord'
<1>1. /\ DOMAIN pos \subseteq DOMAIN pos' /\ DOMAIN ord \subseteq DOMAIN ord'
      /\ \A t \in DOMAIN pos : pos'[t] = pos[t]
  BY PlaceTyped
<1>2. /\ DOMAIN pos \in SUBSET Tickets /\ DOMAIN ord \in SUBSET Tickets
      /\ DOMAIN pos' \intersect DOMAIN ord' = {}
  BY DEF TypeOK
<1>3. /\ DOMAIN pos' = DOMAIN pos \union filled /\ DOMAIN pos \intersect filled = {}
      /\ DOMAIN ord' = DOMAIN ord \union rests /\ DOMAIN ord \intersect rests = {}
      /\ filled \union rests = new /\ filled \intersect rests = {}
      /\ filled \in SUBSET Tickets /\ rests \in SUBSET Tickets
  BY <1>1, <1>2 DEF Live
<1> HIDE DEF filled, rests
<1>4. Cardinality(new) = Cardinality(filled) + Cardinality(rests)
      /\ Cardinality(filled) \in Nat /\ Cardinality(rests) \in Nat
      /\ Cardinality(DOMAIN ord') = Cardinality(DOMAIN ord) + Cardinality(rests)
  BY <1>2, <1>3, Joined
<1>5. Cardinality(AtRisk(pos', DOMAIN pos'))
        = Cardinality(AtRisk(pos', DOMAIN pos)) + Cardinality(AtRisk(pos', filled))
  BY <1>2, <1>3, RiskSplits
<1>6. Cardinality(AtRisk(pos', DOMAIN pos)) <= Cardinality(AtRisk(pos, DOMAIN pos))
  <2>1. \A u \in DOMAIN pos :
          pos[u].sl \in Int /\ pos'[u].sl \in Int /\ pos'[u].sl >= pos[u].sl
    BY <1>1, WorstTyped
  <2> QED BY <1>2, <2>1, RiskShrinks
<1>7. /\ Cardinality(AtRisk(pos', filled)) \in Nat
      /\ Cardinality(AtRisk(pos', DOMAIN pos)) \in Nat
      /\ Cardinality(AtRisk(pos', filled)) <= Risk * Cardinality(filled)
  BY <1>2, <1>3, RiskFinite
<1>8. /\ Risk * Cardinality(DOMAIN ord')
           = Risk * Cardinality(DOMAIN ord) + Risk * Cardinality(rests)
      /\ Risk * Cardinality(new) = Risk * Cardinality(filled) + Risk * Cardinality(rests)
      /\ Risk * Cardinality(filled) \in Int /\ Risk * Cardinality(rests) \in Int
  BY <1>4, WorstTyped, CapTimes
<1> DEFINE a == Cardinality(AtRisk(pos, DOMAIN pos))
           b == Cardinality(AtRisk(pos', DOMAIN pos'))
           c == Cardinality(AtRisk(pos', DOMAIN pos))  l == Cardinality(AtRisk(pos', filled))
           o == Risk * Cardinality(DOMAIN ord)  q == Risk * Cardinality(DOMAIN ord')
           x == Risk * Cardinality(filled)  y == Risk * Cardinality(rests)
           n == Risk * Cardinality(new)
<1>9. /\ a \in Nat /\ b \in Nat /\ c \in Nat /\ l \in Nat /\ o \in Int /\ q \in Int
      /\ x \in Int /\ y \in Int /\ pnl \in Int
      /\ b = c + l /\ c <= a /\ l <= x /\ q = o + y /\ n = x + y
      /\ Worst = pnl - a - o /\ Worst' = pnl - b - q
  BY <1>5, <1>6, <1>7, <1>8, WorstTyped, WorstIs
<1> HIDE DEF a, b, c, l, o, q, x, y, n
<1>10. Worst' >= Worst - n
  BY <1>9
<1> QED BY <1>10 DEF n

\* Every number the room is made of, before and after a step.
LEMMA RoomTyped ==
  ASSUME TypeOK, TypeOK'
  PROVE  /\ Room \in Int /\ Room' \in Int
         /\ Coming \in Nat /\ Coming' \in Nat
         /\ Slack \in Nat /\ Slack' \in Nat
         /\ MaxChains # 0 => Coming <= MaxChains /\ Coming' <= MaxChains
         /\ Room = 1 + MaxChains + Slack - Coming
         /\ Room' = 1 + MaxChains + Slack' - Coming'
<1>1. chains \in Nat /\ chains' \in Nat /\ slips \in Nat /\ slips' \in Nat /\ MaxChains \in Nat
  BY Bounds DEF TypeOK
<1>2. Slack \in Nat /\ Slack' \in Nat
  <2> DEFINE a == slips  b == slips'
  <2>1. a \in Nat /\ b \in Nat /\ MaxChains \in Nat
    BY <1>1
  <2> HIDE DEF a, b
  <2>2. a * MaxChains \in Nat /\ b * MaxChains \in Nat
    BY <2>1
  <2> QED BY <2>2 DEF Slack, a, b
<1>3. /\ Links \in Nat /\ Links' \in Nat
      /\ MaxChains # 0 => Links <= MaxChains /\ Links' <= MaxChains
  <2> DEFINE c == chains  e == chains'
  <2>1. /\ Links = IF c + 1 < MaxChains THEN MaxChains - 1 - c ELSE 0
        /\ Links' = IF e + 1 < MaxChains THEN MaxChains - 1 - e ELSE 0
    BY DEF Links
  <2>2. c \in Nat /\ e \in Nat
    BY <1>1
  <2> HIDE DEF c, e
  <2> QED BY <1>1, <2>1, <2>2
<1>4. Coming \in {MaxChains, Links, 0} /\ Coming' \in {MaxChains, Links', 0}
  BY DEF Coming
<1>5. /\ Coming \in Nat /\ Coming' \in Nat
      /\ MaxChains # 0 => Coming <= MaxChains /\ Coming' <= MaxChains
  BY <1>1, <1>3, <1>4
<1>6. /\ Room = 1 + MaxChains + Slack - Coming
      /\ Room' = 1 + MaxChains + Slack' - Coming'
  BY DEF Room
<1> QED BY <1>1, <1>2, <1>5, <1>6

\* A step that can cost n more stops needs room for n more.
LEMMA LossStep ==
  ASSUME TypeOK, TypeOK', Solvent, NEW n \in Nat,
         Worst' >= Worst - Risk * n, Room' >= Room + n
  PROVE  Solvent'
<1>1. Worst \in Int /\ Worst' \in Int /\ Room \in Int /\ Room' \in Int
  BY WorstTyped, RoomTyped
<1>2. Risk * (Room + n) = Risk * Room + Risk * n /\ Risk * Room \in Int /\ Risk * n \in Int
  <2> DEFINE r == Room
  <2>1. r \in Int /\ n \in Int
    BY <1>1
  <2> HIDE DEF r
  <2>2. Risk * (r + n) = Risk * r + Risk * n /\ Risk * r \in Int /\ Risk * n \in Int
    BY <2>1, CapTimes
  <2> QED BY <2>2 DEF r
<1>3. Risk * (Room + n) <= Risk * Room' /\ Risk * Room' \in Int
  <2> DEFINE r == Room + n
  <2>1. r \in Int /\ r <= Room'
    BY <1>1
  <2> HIDE DEF r
  <2>2. Risk * r <= Risk * Room' /\ Risk * Room' \in Int
    BY <1>1, <2>1, CapTimes
  <2> QED BY <2>2 DEF r
<1> DEFINE w == Worst  v == Worst'  a == Risk * Room  b == Risk * Room'  c == Risk * n
<1>4. /\ w \in Int /\ v \in Int /\ a \in Int /\ b \in Int /\ c \in Int /\ LossHalt \in Nat
      /\ a + c <= b /\ v >= w - c /\ w > -LossHalt - a
  BY <1>1, <1>2, <1>3, Bounds DEF Solvent
<1> HIDE DEF w, v, a, b, c
<1>5. v > -LossHalt - b
  BY <1>4
<1> QED BY <1>5 DEF Solvent, w, v, b

\* The same, when the step costs nothing.
LEMMA FreeStep ==
  ASSUME TypeOK, TypeOK', Solvent, Worst' >= Worst, Room' >= Room
  PROVE  Solvent'
<1>1. Worst \in Int /\ Worst' \in Int /\ Room \in Int /\ Room' \in Int
  BY WorstTyped, RoomTyped
<1>2. Risk * 0 = 0
  BY Bounds
<1> QED BY <1>1, <1>2, LossStep

\* A day whose result is above the halt has its full exposure to lose.
LEMMA Grounded ==
  ASSUME TypeOK, TypeOK', pnl' > -LossHalt, Cardinality(Live') <= Room'
  PROVE  Solvent'
<1>1. DOMAIN pos' \in SUBSET Tickets /\ DOMAIN ord' \in SUBSET Tickets
      /\ DOMAIN pos' \intersect DOMAIN ord' = {}
  BY DEF TypeOK
<1>2. /\ Cardinality(Live') = Cardinality(DOMAIN pos') + Cardinality(DOMAIN ord')
      /\ Cardinality(Live') \in Nat /\ Cardinality(DOMAIN pos') \in Nat
  BY <1>1, Joined DEF Live
<1>3. Cardinality(AtRisk(pos', DOMAIN pos')) <= Risk * Cardinality(DOMAIN pos')
  BY <1>1, RiskFinite
<1>4. /\ Risk * Cardinality(Live')
           = Risk * Cardinality(DOMAIN pos') + Risk * Cardinality(DOMAIN ord')
      /\ Risk * Cardinality(DOMAIN pos') \in Int
  BY <1>2, WorstTyped, CapTimes
<1>5. Room' \in Int
  BY RoomTyped
<1>6. Risk * Cardinality(Live') <= Risk * Room' /\ Risk * Room' \in Int
  BY <1>2, <1>5, CapTimes
<1> DEFINE b == Cardinality(AtRisk(pos', DOMAIN pos'))  q == Risk * Cardinality(DOMAIN ord')
           p == Risk * Cardinality(DOMAIN pos')  r == Risk * Room'  w == Worst'  g == pnl'
<1>7. /\ b \in Nat /\ q \in Int /\ p \in Int /\ r \in Int /\ g \in Int /\ LossHalt \in Nat
      /\ b <= p /\ p + q <= r /\ g > -LossHalt /\ w = g - b - q
  BY <1>3, <1>4, <1>6, WorstTyped, WorstIs, Bounds
<1> HIDE DEF b, q, p, r, w, g
<1>8. w > -LossHalt - r
  BY <1>7
<1> QED BY <1>8 DEF Solvent, w, r

\* A chain stop was one of those still to come.
LEMMA AdoptSolvent ==
  ASSUME IInv, IInv', Numbered, Solvent, MaxChains # 0, NEW t \in Tickets, Adopt(t)
  PROVE  Solvent'
<1>1. TypeOK /\ TypeOK' /\ Phased /\ Apart
  BY DEF IInv
<1>2. phase = "reconcile" /\ phase' = phase /\ snap' = snap /\ pnl' = pnl
      /\ t \in DOMAIN snap \ DOMAIN known /\ DOMAIN known' = DOMAIN known \union {t}
      /\ chains' = Counted(AdoptKind(t)) /\ chains' \in Nat
      /\ snap[t].side \in Sides
      /\ (DOMAIN known = {} \/ AdoptKind(t) = "CHAIN")
  BY AdoptDoes
<1>3. Coming' = Links'
  <2>1. Kept' # {}
    BY <1>2 DEF Kept
  <2> QED BY <1>2, <2>1 DEF Coming
<1>4. Coming = IF Kept = {} THEN MaxChains ELSE Links
  BY <1>2 DEF Coming
<1>5. Kept # {} => chains' = chains + 1
  BY <1>2 DEF Kept, Counted
<1>6. chains \in Nat /\ MaxChains \in Nat
  BY <1>1, Bounds DEF TypeOK
<1> DEFINE c == chains  e == chains'  k == Links  j == Links'
<1>7. /\ k = IF c + 1 < MaxChains THEN MaxChains - 1 - c ELSE 0
      /\ j = IF e + 1 < MaxChains THEN MaxChains - 1 - e ELSE 0
      /\ c \in Nat /\ e \in Nat /\ MaxChains \in Nat /\ MaxChains # 0
  BY <1>2, <1>6 DEF Links
<1>8. CASE chains' < MaxChains /\ Place(snap[t].side, "CHAIN")
  <2>1. PICK new \in SUBSET Tickets :
          /\ Live' = Live \union new
          /\ new \intersect (Live \union DOMAIN known \union DOMAIN snap) = {}
          /\ slips' \in slips..MaxSlips
          /\ Cardinality(new) \in Nat /\ Cardinality(new) <= 1 + (slips' - slips)
    BY <1>1, <1>2, <1>8, PlaceAdds
  <2>2. Worst' >= Worst - Risk * Cardinality(new)
    <3>1. new \intersect Live = {}
      BY <2>1
    <3> QED BY <1>1, <1>2, <1>8, <2>1, <3>1, PlaceWorst
  <2>3. Slack + (slips' - slips) <= Slack' /\ slips' - slips \in Nat
    BY <1>1, <2>1, SlackGrows, SlipsGrow
  <2>4. j + 1 <= Coming /\ j \in Nat
    <3>1. e < MaxChains /\ (Kept # {} => e = c + 1)
      BY <1>5, <1>8
    <3>2. Coming = IF Kept = {} THEN MaxChains ELSE k
      BY <1>4
    <3> HIDE DEF c, e, k, j
    <3> QED BY <1>7, <3>1, <3>2
  <2>5. Room' >= Room + Cardinality(new)
    <3> DEFINE n == Cardinality(new)  d == slips' - slips  s == Slack  z == Slack'
               r == Room  q == Room'  x == Coming
    <3>1. /\ n \in Nat /\ d \in Nat /\ s \in Nat /\ z \in Nat /\ x \in Nat /\ j \in Nat
          /\ MaxChains \in Nat
          /\ n <= 1 + d /\ s + d <= z /\ j + 1 <= x
          /\ r = 1 + MaxChains + s - x /\ q = 1 + MaxChains + z - j
      BY <1>1, <1>3, <1>6, <2>1, <2>3, <2>4, RoomTyped
    <3> HIDE DEF n, d, s, z, r, q, x, j
    <3>2. q >= r + n
      BY <3>1
    <3> QED BY <3>2 DEF q, r, n
  <2> QED BY <1>1, <2>1, <2>2, <2>5, LossStep
<1>9. CASE chains' >= MaxChains /\ UNCHANGED <<pos, ord, slips>>
  <2>1. Worst' >= Worst
    <3>1. Worst' = Worst
      BY <1>2, <1>9 DEF Worst, Lost
    <3> QED BY <1>1, <3>1, WorstTyped
  <2>2. j = 0
    <3>1. e >= MaxChains
      BY <1>9
    <3> HIDE DEF c, e, k, j
    <3> QED BY <1>7, <3>1
  <2>3. Slack' = Slack
    BY <1>9 DEF Slack
  <2>4. Room' >= Room
    <3> HIDE DEF c, e, k
    <3> QED BY <1>1, <1>3, <1>6, <2>2, <2>3, RoomTyped
  <2> QED BY <1>1, <2>1, <2>4, FreeStep
<1> QED BY <1>8, <1>9, AdoptDoes

\* So was an entry: the pass that arms has passed the governor.
LEMMA ArmSolvent ==
  ASSUME IInv, IInv', Solvent, MaxChains # 0, Arm
  PROVE  Solvent'
<1>1. TypeOK /\ TypeOK'
  BY DEF IInv
<1>2. /\ phase = "manage" /\ phase' = "idle" /\ DOMAIN snap = {} /\ pnl' = pnl
  BY ArmDoes, EndPassDoes
<1>3. Coming = MaxChains /\ Coming' = 0
  BY <1>2 DEF Coming
<1>4. CASE \E side \in Sides : Place(side, "ENTRY")
  <2>1. PICK side \in Sides : Place(side, "ENTRY")
    BY <1>4
  <2>2. PICK new \in SUBSET Tickets :
          /\ Live' = Live \union new
          /\ new \intersect (Live \union DOMAIN known \union DOMAIN snap) = {}
          /\ slips' \in slips..MaxSlips
          /\ Cardinality(new) \in Nat /\ Cardinality(new) <= 1 + (slips' - slips)
    BY <1>1, <2>1, PlaceAdds
  <2>3. Worst' >= Worst - Risk * Cardinality(new)
    <3>1. new \intersect Live = {}
      BY <2>2
    <3> QED BY <1>1, <1>2, <2>1, <2>2, <3>1, PlaceWorst
  <2>4. Slack + (slips' - slips) <= Slack' /\ slips' - slips \in Nat
    BY <1>1, <2>2, SlackGrows, SlipsGrow
  <2>5. Room' >= Room + Cardinality(new)
    <3> DEFINE n == Cardinality(new)  d == slips' - slips  s == Slack  z == Slack'
               r == Room  q == Room'
    <3>1. /\ n \in Nat /\ d \in Nat /\ s \in Nat /\ z \in Nat
          /\ MaxChains \in Nat /\ MaxChains # 0
          /\ n <= 1 + d /\ s + d <= z
          /\ r = 1 + s /\ q = 1 + MaxChains + z
      BY <1>1, <1>3, <2>2, <2>4, RoomTyped, Bounds
    <3> HIDE DEF n, d, s, z, r, q
    <3>2. q >= r + n
      BY <3>1
    <3> QED BY <3>2 DEF q, r, n
  <2> QED BY <1>1, <2>2, <2>3, <2>5, LossStep
<1>5. CASE DOMAIN ord' \subseteq DOMAIN ord /\ UNCHANGED <<pos, slips>>
  <2>1. pnl' >= pnl - Lost(DOMAIN pos \ DOMAIN pos')
    <3>1. DOMAIN pos \ DOMAIN pos' \in SUBSET Tickets
      BY <1>1 DEF TypeOK
    <3>2. Lost(DOMAIN pos \ DOMAIN pos') \in Nat
      BY <3>1, CloseTyped
    <3> QED BY <1>1, <1>2, <3>2, WorstTyped
  <2>2. \A t \in DOMAIN pos' : pos'[t].sl >= pos[t].sl
    BY <1>1, <1>5, WorstTyped
  <2>3. Worst' >= Worst
    BY <1>1, <1>5, <2>1, <2>2, WorstHolds
  <2>4. Slack' = Slack
    BY <1>5 DEF Slack
  <2>5. Room' >= Room
    BY <1>1, <1>3, <2>4, RoomTyped, Bounds
  <2> QED BY <1>1, <2>3, <2>5, FreeStep
<1> QED BY <1>4, <1>5, ArmDoes

\* Steps that place nothing: what is to come shrinks, or a slip pays for it.
LEMMA QuietSolvent ==
  ASSUME IInv, IInv', Solvent, MaxChains # 0, slips' \in slips..MaxSlips,
         DOMAIN pos' \subseteq DOMAIN pos, DOMAIN ord' \subseteq DOMAIN ord,
         \A t \in DOMAIN pos' : pos'[t].sl >= pos[t].sl,
         pnl' >= pnl - Lost(DOMAIN pos \ DOMAIN pos'),
         Coming' <= Coming \/ slips' # slips
  PROVE  Solvent'
<1>1. TypeOK /\ TypeOK'
  BY DEF IInv
<1>2. Worst' >= Worst
  BY <1>1, WorstHolds
<1>3. /\ Slack + (slips' - slips) <= Slack' /\ slips' - slips \in Nat
      /\ slips' # slips => Slack + MaxChains <= Slack'
  BY <1>1, SlackGrows, SlipsGrow
<1>4. Room' >= Room
  <2> DEFINE d == slips' - slips  s == Slack  z == Slack'  x == Coming  y == Coming'
  <2>1. /\ d \in Nat /\ s \in Nat /\ z \in Nat /\ x \in Nat /\ y \in Nat /\ MaxChains \in Nat
        /\ y <= MaxChains /\ s + d <= z
        /\ y <= x \/ s + MaxChains <= z
        /\ Room = 1 + MaxChains + s - x /\ Room' = 1 + MaxChains + z - y
    BY <1>1, <1>3, RoomTyped, Bounds
  <2> HIDE DEF d, s, z, x, y
  <2>2. 1 + MaxChains + z - y >= 1 + MaxChains + s - x
    BY <2>1
  <2> QED BY <2>1, <2>2
<1> QED BY <1>1, <1>2, <1>4, FreeStep

\* A step that leaves the legs and the result alone loses nothing.
LEMMA NothingLost ==
  ASSUME TypeOK, TypeOK', pos' = pos, pnl' = pnl
  PROVE  /\ DOMAIN pos' \subseteq DOMAIN pos
         /\ \A t \in DOMAIN pos' : pos'[t].sl >= pos[t].sl
         /\ pnl' >= pnl - Lost(DOMAIN pos \ DOMAIN pos')
<1>1. DOMAIN pos \ DOMAIN pos' \in SUBSET Tickets
  BY DEF TypeOK
<1>2. Lost(DOMAIN pos \ DOMAIN pos') \in Nat
  BY <1>1, CloseTyped
<1> QED BY <1>2, WorstTyped

\* A close of all: the worst case was counted already.
LEMMA ClosedOut ==
  ASSUME TypeOK, TypeOK', CloseAll
  PROVE  /\ DOMAIN pos' \subseteq DOMAIN pos
         /\ \A t \in DOMAIN pos' : pos'[t].sl >= pos[t].sl
         /\ pnl' >= pnl - Lost(DOMAIN pos \ DOMAIN pos')
<1>1. PICK refused \in SUBSET DOMAIN pos :
        /\ DOMAIN pos' = refused
        /\ \A t \in refused : pos'[t] = pos[t]
        /\ pnl' >= pnl - Lost(DOMAIN pos \ refused)
  BY CloseAllDoes
<1> QED BY <1>1, WorstTyped

\* The governor: a pass that goes on is above the halt with everything live, or
\* has slipped; a halt only closes.
LEMMA GovernSolvent ==
  ASSUME IInv, IInv', Numbered, Solvent, MaxChains # 0, ReadRestAndGovern
  PROVE  Solvent'
<1>1. TypeOK /\ TypeOK' /\ Phased
  BY DEF IInv
<1>2. phase = "queried" /\ slips' \in slips..MaxSlips /\ chains' = chains
  BY <1>1, GovernDoes
<1>3. Coming = 0 /\ ~halted
  BY <1>1, <1>2 DEF Coming, Phased
<1>4. CASE /\ phase' = "reconcile" /\ UNCHANGED <<pos, ord, pnl, known, halted, snap>>
           /\ pnl > -LossHalt /\ slips' = slips
  <2>1. Live' = Live /\ Kept' = Kept /\ Links' = Links /\ Slack' = Slack
    BY <1>2, <1>4 DEF Live, Kept, Links, Slack
  <2>2. Coming' = IF Kept = {} THEN MaxChains ELSE Links
    BY <1>4, <2>1 DEF Coming
  <2>3. /\ Cardinality(Loose) <= 1 + Slack
        /\ Cardinality(Live) + Links <= 1 + MaxChains + Slack
    BY <1>3 DEF Numbered
  <2>4. /\ Live \in SUBSET Tickets /\ Loose \in SUBSET Tickets
        /\ Cardinality(Live) \in Nat /\ Cardinality(Loose) \in Nat /\ Links \in Nat
        /\ Slack \in Nat
    BY <1>1, LiveFinite
  <2>5. Kept = {} => Cardinality(Live) <= Cardinality(Loose)
    <3> SUFFICES ASSUME Kept = {} PROVE Cardinality(Live) <= Cardinality(Loose)
      OBVIOUS
    <3>1. Live \subseteq Loose
      BY DEF Live, Loose
    <3> QED BY <2>4, <3>1, Fewer
  <2>6. Cardinality(Live') <= Room'
    <3>1. Room' = 1 + MaxChains + Slack - Coming'
      BY <1>1, <2>1, RoomTyped
    <3> QED BY <2>1, <2>2, <2>3, <2>4, <2>5, <3>1, Bounds
  <2> QED BY <1>1, <1>4, <2>6, Grounded
<1>5. CASE UNCHANGED <<pos, ord, pnl>> /\ slips' = slips + 1
  <2>1. slips' # slips
    BY <1>1, <1>5, SlipsGrow, <1>2
  <2> QED BY <1>1, <1>2, <1>5, <2>1, NothingLost, QuietSolvent
<1>6. CASE CloseAll /\ CancelAll(DOMAIN ord) /\ phase' = "idle"
  <2>1. DOMAIN ord' \subseteq DOMAIN ord
    BY <1>1, <1>6, CancelAllDoes
  <2>2. Coming' <= Coming
    BY <1>3, <1>6 DEF Coming
  <2> QED BY <1>1, <1>2, <1>6, <2>1, <2>2, ClosedOut, QuietSolvent
<1> QED BY <1>1, <1>4, <1>5, <1>6, GovernDoes

\* A new day starts at zero with everything live.
LEMMA DayRollSolvent ==
  ASSUME IInv, IInv', Numbered', MaxChains # 0, DayRoll
  PROVE  Solvent'
<1>1. TypeOK /\ TypeOK'
  BY DEF IInv
<1>2. pnl' = 0 /\ phase' = "idle"
  BY DEF DayRoll, pass
<1>3. Coming' = 0
  BY <1>2 DEF Coming
<1>4. Cardinality(Live') <= 1 + MaxChains + Slack'
  BY DEF Numbered
<1>5. Room' = 1 + MaxChains + Slack'
  BY <1>1, <1>3, RoomTyped, Bounds
<1>6. pnl' > -LossHalt
  BY <1>2, Bounds
<1> QED BY <1>1, <1>4, <1>5, <1>6, Grounded

\* Every step keeps the day solvent.
LEMMA SolventStays ==
  ASSUME IInv, Numbered, Solvent, [Next]_vars, MaxChains # 0
  PROVE  Solvent'
<1>1. IInv' /\ Numbered'
  BY StepKeeps, NumbersStay
<1>2. TypeOK /\ TypeOK' /\ Phased
  BY <1>1 DEF IInv
<1>3. ASSUME NEW t \in Tickets, Fill(t)  PROVE Solvent'
  <2>1. UNCHANGED <<known, snap, phase, chains, slips>>
    BY <1>3 DEF Fill, engine, pass
  <2>2. Room' >= Room
    <3>1. Coming' = Coming /\ Slack' = Slack
      BY <2>1 DEF Coming, Kept, Links, Slack
    <3>2. Room' = Room
      BY <3>1 DEF Room
    <3> QED BY <1>2, <3>2, RoomTyped
  <2> QED BY <1>1, <1>2, <1>3, <2>2, FillWorst, FreeStep
<1>4. ASSUME NEW t \in Tickets, StopOut(t)  PROVE Solvent'
  <2>1. UNCHANGED <<known, snap, phase, chains, slips>>
    BY <1>4 DEF StopOut, engine, pass
  <2>2. Room' >= Room
    <3>1. Coming' = Coming /\ Slack' = Slack
      BY <2>1 DEF Coming, Kept, Links, Slack
    <3>2. Room' = Room
      BY <3>1 DEF Room
    <3> QED BY <1>2, <3>2, RoomTyped
  <2> QED BY <1>1, <1>2, <1>4, <2>2, StopOutWorst, FreeStep
<1>5. CASE ReadPositions
  <2>1. /\ phase = "idle" /\ phase' = "queried" /\ UNCHANGED <<pos, ord, pnl>>
        /\ slips' = slips \/ Slip
    BY <1>5 DEF ReadPositions, broker
  <2>2. Coming' <= Coming
    BY <2>1 DEF Coming
  <2>3. slips' \in slips..MaxSlips
    BY <1>2, <2>1, OwnSlips, SlipTyped, Bounds
  <2> QED BY <1>1, <1>2, <2>1, <2>2, <2>3, NothingLost, QuietSolvent
<1>6. CASE ReadRestAndGovern
  BY <1>1, <1>6, GovernSolvent
<1>7. ASSUME NEW t \in Tickets, Adopt(t)  PROVE Solvent'
  BY <1>1, <1>7, AdoptSolvent
<1>8. CASE Settle
  <2>1. /\ phase = "reconcile" /\ phase' = "manage" /\ snap' = snap
        /\ DOMAIN ord' \subseteq DOMAIN ord
        /\ UNCHANGED <<pos, pnl, slips>>
    BY <1>8, SettleDoes
  <2>2. Coming' <= Coming
    <3>1. CASE DOMAIN snap = {}
      <4>1. Kept = {}
        BY <2>1, <3>1 DEF Kept
      <4>2. Coming = MaxChains /\ Coming' = MaxChains
        BY <2>1, <3>1, <4>1 DEF Coming
      <4> QED BY <4>2, Bounds
    <3>2. CASE DOMAIN snap # {}
      <4>1. Coming' = 0 /\ Coming \in Nat
        BY <1>2, <2>1, <3>2, RoomTyped DEF Coming
      <4> QED BY <4>1
    <3> QED BY <3>1, <3>2
  <2> QED BY <1>1, <1>2, <2>1, <2>2, OwnSlips, NothingLost, QuietSolvent
<1>9. CASE Trail
  <2>1. /\ phase' = "idle" /\ DOMAIN pos' = DOMAIN pos /\ UNCHANGED <<ord, pnl, slips>>
        /\ \A t \in DOMAIN pos : pos'[t].sl >= pos[t].sl
    BY <1>9, TrailDoes, EndPassDoes
  <2>2. Coming' = 0 /\ Coming \in Nat
    BY <1>2, <2>1, RoomTyped DEF Coming
  <2>3. pnl' >= pnl - Lost(DOMAIN pos \ DOMAIN pos')
    <3>1. DOMAIN pos \ DOMAIN pos' \in SUBSET Tickets
      BY <1>2 DEF TypeOK
    <3>2. Lost(DOMAIN pos \ DOMAIN pos') \in Nat
      BY <3>1, CloseTyped
    <3> QED BY <1>2, <2>1, <3>2, WorstTyped
  <2> QED BY <1>1, <1>2, <2>1, <2>2, <2>3, OwnSlips, QuietSolvent
<1>10. CASE Arm
  BY <1>1, <1>10, ArmSolvent
<1>11. CASE Restart
  <2>1. Slip /\ UNCHANGED <<pos, ord, pnl>> /\ phase' = "idle"
    BY <1>11 DEF Restart, broker
  <2>2. Coming' = 0 /\ Coming \in Nat
    BY <1>2, <2>1, RoomTyped DEF Coming
  <2>3. slips' \in slips..MaxSlips
    BY <1>2, <2>1, SlipTyped, Bounds
  <2> QED BY <1>1, <1>2, <2>1, <2>2, <2>3, NothingLost, QuietSolvent
<1>12. CASE DayRoll
  BY <1>1, <1>12, DayRollSolvent
<1>13. CASE ForceClose
  <2>1. Slip /\ CloseAll /\ ord' = ord /\ phase = "idle" /\ phase' = phase
    BY <1>13 DEF ForceClose, pass
  <2>2. Coming' = 0 /\ Coming \in Nat
    BY <1>2, <2>1, RoomTyped DEF Coming
  <2>3. slips' \in slips..MaxSlips
    BY <1>2, <2>1, SlipTyped, Bounds
  <2> QED BY <1>1, <1>2, <2>1, <2>2, <2>3, ClosedOut, QuietSolvent
<1>14. CASE UNCHANGED vars
  BY <1>14 DEF Solvent, Worst, Lost, Room, Coming, Kept, Links, Slack,
               vars, broker, engine, pass
<1> QED BY <1>3, <1>4, <1>5, <1>6, <1>7, <1>8, <1>9, <1>10, <1>11, <1>12, <1>13, <1>14
        DEF Next, BrokerMoves, Pass

\* The day starts solvent.
LEMMA InitSolvent == Init => Solvent
<1> SUFFICES ASSUME Init PROVE Solvent
  OBVIOUS
<1>1. DOMAIN pos = {} /\ DOMAIN ord = {} /\ pnl = 0
  BY EmptyTable DEF Init
<1>2. Cardinality({}) = 0
  BY FS_EmptySet
<1>3. Lost(DOMAIN pos) = 0
  <2>1. DOMAIN pos \in SUBSET Tickets /\ Cardinality(DOMAIN pos) = 0
    BY <1>1, <1>2
  <2>2. /\ Cardinality(AtRisk(pos, DOMAIN pos)) \in Nat
        /\ Cardinality(AtRisk(pos, DOMAIN pos)) <= Risk * Cardinality(DOMAIN pos)
    BY <2>1, RiskFinite
  <2>3. Risk * 0 = 0
    BY Bounds
  <2>4. Cardinality(AtRisk(pos, DOMAIN pos)) = 0
    BY <2>1, <2>2, <2>3
  <2> QED BY <2>1, <2>4, CloseTyped
<1>4. Worst = 0
  BY <1>1, <1>2, <1>3, Bounds DEF Worst
<1>5. Room = 1 + MaxChains
  <2>1. Slack = 0
    BY Bounds DEF Init, Slack
  <2>2. Coming = 0
    BY DEF Init, Coming
  <2> QED BY <2>1, <2>2, Bounds DEF Room
<1>6. Risk * Room \in Nat
  BY <1>5, Bounds
<1> QED BY <1>4, <1>6, Bounds DEF Solvent

\* The governor bounds the day's loss and not only the loss it looks at: with
\* every stop hit, the day is at most one full exposure below the halt
\* (_governor, rogue_day_loss_halt), refused closes, failed queries and restarts
\* included.
THEOREM LossIsBounded ==
  ASSUME MaxChains # 0
  PROVE  Spec => []LossBounded
<1>1. IInv /\ Numbered /\ Solvent => LossBounded
  <2> SUFFICES ASSUME IInv, Solvent PROVE LossBounded
    OBVIOUS
  <2>1. TypeOK
    BY DEF IInv
  <2>2. Coming \in Nat /\ Slack \in Nat /\ MaxChains \in Nat
    <3>1. Coming \in {MaxChains, Links, 0}
      BY DEF Coming
    <3> QED BY <2>1, <3>1, LiveFinite, Bounds
  <2>3. Room \in Int /\ MaxExposure \in Int /\ Room <= MaxExposure
    <3>1. MaxExposure = 1 + MaxChains + Slack /\ Room = 1 + MaxChains + Slack - Coming
      BY DEF MaxExposure, Room, Slack
    <3> QED BY <2>2, <3>1
  <2>4. Risk * Room <= Risk * MaxExposure /\ Risk * Room \in Int /\ Risk * MaxExposure \in Int
    BY <2>3, CapTimes
  <2>5. Worst > -LossHalt - Risk * Room
    BY DEF Solvent
  <2>6. Worst \in Int
    <3>1. /\ Cardinality(AtRisk(pos, DOMAIN pos)) \in Nat /\ Cardinality(DOMAIN ord) \in Nat
          /\ pnl \in Int
      BY <2>1, RiskFinite DEF TypeOK
    <3>2. Risk * Cardinality(DOMAIN ord) \in Int
      BY <3>1, CapTimes
    <3> QED BY <3>1, <3>2, WorstIs
  <2> DEFINE a == Risk * Room  b == Risk * MaxExposure  w == Worst
  <2>7. a \in Int /\ b \in Int /\ w \in Int /\ a <= b /\ w > -LossHalt - a /\ LossHalt \in Nat
    BY <2>4, <2>5, <2>6, Bounds
  <2> HIDE DEF a, b, w
  <2>8. w > -LossHalt - b
    BY <2>7
  <2> QED BY <2>8 DEF LossBounded, w, b
<1>2. IInv /\ Numbered /\ [Next]_vars => Numbered'
  BY NumbersStay
<1>3. IInv /\ Numbered /\ Solvent /\ [Next]_vars => Solvent'
  BY SolventStays
<1> QED BY <1>1, <1>2, <1>3, InitNumbers, InitSolvent, MonsterInvariance, PTL DEF Spec

=============================================================================
