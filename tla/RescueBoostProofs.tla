------------------------- MODULE RescueBoostProofs -------------------------
(***************************************************************************)
(* For any book, prices, slips and bounds: the type of RescueBoost's       *)
(* state, that no parent carries a boost twice unless its answer was lost, *)
(* that the boosts' trail is one way, that the sweep leaves no lone        *)
(* leftover, and what its exemption sees at the shipped distances.  The    *)
(* manager keeps no list of its own, so the argument about the boosts is   *)
(* about the order of its reads and sends: whoever rested at the first     *)
(* read is known at the second, whoever filled in between is seen there,   *)
(* and what is due to a parent comes after all that it carries.            *)
(***************************************************************************)
EXTENDS RescueBoost, SequenceTheorems, TLAPS

LegRec == [straddle : Nat, side : Sides, origin : Int, entry : Int,
           st : {"pending", "open", "swept", "gone"}]
BoostRec == [parent : Nat, idx : 0..Len(Offsets), again : BOOLEAN, side : Sides, price : Int,
             sl : Int, entry : Int, st : {"pending", "open", "gone"}]
\* A boost the pass has still to send.
Due == [parent : DOMAIN legs, side : Sides, entry : Int, idx : Idx, again : BOOLEAN]

Live(b) == boosts[b].st \in {"pending", "open"}

Typed ==
  /\ mkt \in Prices /\ mkt \in Int /\ fresh \subseteq Prices
  /\ legs \in Seq(LegRec) /\ boosts \in Seq(BoostRec)
  /\ \A b \in DOMAIN boosts : boosts[b].parent \in 0..Len(legs)
  /\ \A b \in DOMAIN boosts : Live(b) => boosts[b].parent \in DOMAIN legs
  /\ pc \in {"rest", "read", "placing", "gated"}
  /\ have \subseteq DOMAIN legs
  /\ todo \subseteq Due
  /\ DOMAIN peaks \subseteq DOMAIN boosts
  /\ \A b \in DOMAIN peaks : peaks[b] \in Int

\* x is sent before y: a lower number, or the same for the first time.
Before(x, y) ==
  \/ x.idx < y.idx
  \/ x.idx = y.idx /\ ~x.again /\ y.again

\* What the reads of a pass have established, and its sends keep: what a parent
\* carries went out before what is due to it.
Read ==
  /\ pc = "read" => \A b \in DOMAIN boosts :
       boosts[b].st = "pending" => boosts[b].parent \in have
  /\ pc = "placing" =>
       /\ \A p \in todo, b \in DOMAIN boosts :
            Live(b) /\ boosts[b].parent = p.parent => Before(boosts[b], p)
       /\ \A p, q \in todo : p.parent = q.parent => p = q

Fleet ==
  \A b, c \in DOMAIN boosts :
    Live(b) /\ Live(c) /\ b # c =>
      \/ boosts[b].parent # boosts[c].parent
      \/ boosts[b].idx # boosts[c].idx
      \/ boosts[b].again # boosts[c].again

IInv == Typed /\ Read /\ Fleet

-----------------------------------------------------------------------------
LEMMA SignIs == \A side \in Sides : /\ Sign(side) \in Int
                                    /\ Opposite(side) \in Sides
                                    /\ side = "BUY" => Sign(side) = 1
                                    /\ side = "SELL" => Sign(side) = -1
BY DEF Sign, Sides, Opposite

\* The books are functions on an interval.
LEMMA Books ==
  ASSUME Typed
  PROVE  /\ Len(boosts) \in Nat /\ DOMAIN boosts = 1..Len(boosts)
         /\ Len(legs) \in Nat /\ DOMAIN legs = 1..Len(legs)
         /\ \A b \in DOMAIN boosts : boosts[b] \in BoostRec
         /\ \A t \in DOMAIN legs : legs[t] \in LegRec
BY LenProperties, ElementOfSeq DEF Typed

LEMMA MapIsSeq ==
  ASSUME NEW S, NEW n \in Nat, NEW f \in [1..n -> S]
  PROVE  f \in Seq(S) /\ Len(f) = n /\ DOMAIN f = 1..n
<1>1. f \in Seq(S)
  BY SeqDef
<1>2. DOMAIN f = 1..Len(f) /\ Len(f) \in Nat
  BY <1>1, LenProperties
<1>3. DOMAIN f = 1..n
  OBVIOUS
<1> QED BY <1>1, <1>2, <1>3

LEMMA GoneLegIsLeg ==
  ASSUME NEW leg \in LegRec, NEW s \in {"swept", "gone"}
  PROVE  GoneLeg(leg, s) \in LegRec
<1> DEFINE ended == [leg EXCEPT !.st = s]
           nowhere == [ended EXCEPT !.origin = 0]
<1>1. ended \in LegRec
  BY DEF LegRec
<1> HIDE DEF ended
<1>2. nowhere \in LegRec
  BY <1>1 DEF LegRec
<1> HIDE DEF nowhere
<1>3. [nowhere EXCEPT !.entry = 0] \in LegRec
  BY <1>2 DEF LegRec
<1> QED BY <1>3 DEF GoneLeg, nowhere, ended

\* A step that keeps every boost's place, parent and number and makes none live
\* again.
Keeps ==
  /\ boosts' \in Seq(BoostRec) /\ DOMAIN boosts' = DOMAIN boosts
  /\ \A b \in DOMAIN boosts : boosts'[b].st # "gone" =>
       /\ boosts[b].st # "gone"
       /\ boosts'[b].parent = boosts[b].parent /\ boosts'[b].idx = boosts[b].idx
       /\ boosts'[b].again = boosts[b].again
       /\ boosts'[b].st = "pending" => boosts[b].st = "pending"

\* What is live is what is not gone.
LEMMA LiveIs ==
  ASSUME Typed, boosts' \in Seq(BoostRec)
  PROVE  /\ \A b \in DOMAIN boosts : Live(b) <=> boosts[b].st # "gone"
         /\ \A b \in DOMAIN boosts' : Live(b)' <=> boosts'[b].st # "gone"
<1>1. \A b \in DOMAIN boosts' : boosts'[b] \in BoostRec
  BY LenProperties, ElementOfSeq
<1> QED BY <1>1, Books DEF BoostRec, Live

\* It keeps the fleet, and what has been read of it.
LEMMA NothingNew ==
  ASSUME IInv, Keeps
  PROVE  /\ Fleet'
         /\ UNCHANGED pass => Read'
         /\ UNCHANGED legs /\ (\A b \in DOMAIN boosts' : boosts'[b].parent \in 0..Len(legs)) =>
              /\ \A b \in DOMAIN boosts' : Live(b)' => boosts'[b].parent \in DOMAIN legs'
<1>1. /\ \A b \in DOMAIN boosts : Live(b) <=> boosts[b].st # "gone"
      /\ \A b \in DOMAIN boosts' : Live(b)' <=> boosts'[b].st # "gone"
  BY LiveIs DEF Keeps, IInv
<1>2. Fleet'
  BY <1>1 DEF IInv, Fleet, Keeps
<1>3. ASSUME UNCHANGED pass PROVE Read'
  BY <1>1, <1>3 DEF IInv, Read, Keeps, Before, pass
<1>4. UNCHANGED legs =>
        \A b \in DOMAIN boosts' : Live(b)' => boosts'[b].parent \in DOMAIN legs'
  BY <1>1 DEF IInv, Typed, Keeps
<1> QED BY <1>2, <1>3, <1>4

-----------------------------------------------------------------------------
\* A placement grows the legs and touches no boost.
LEMMA PlaceKeeps == ASSUME NEW swept \in SUBSET Stale PROVE IInv /\ Place(swept) => IInv'
<1> SUFFICES ASSUME IInv, Place(swept) PROVE IInv'
  OBVIOUS
<1> DEFINE after == [t \in DOMAIN legs |->
                       IF t \in swept THEN GoneLeg(legs[t], "swept") ELSE legs[t]]
           Leg(side) == [straddle |-> Straddles, side |-> side, entry |-> 0,
                         origin |-> IF side \in Plans[Straddles + 1] THEN mkt ELSE 0,
                         st |-> IF side \in Plans[Straddles + 1] THEN "pending" ELSE "gone"]
<1>1. /\ legs' = after \o <<Leg("BUY"), Leg("SELL")>>
      /\ fresh' \subseteq {mkt} /\ UNCHANGED <<mkt, boosts, peaks, pc, have, todo>>
  BY DEF Place, pass
<1>2. after \in Seq(LegRec) /\ Len(after) = Len(legs)
  <2>1. after \in [1..Len(legs) -> LegRec]
    BY Books, GoneLegIsLeg DEF IInv
  <2> HIDE DEF after
  <2> QED BY <2>1, MapIsSeq, Books DEF IInv
<1>3. <<Leg("BUY"), Leg("SELL")>> \in Seq(LegRec) /\ Len(<<Leg("BUY"), Leg("SELL")>>) = 2
  <2>1. Straddles \in Nat
    <3>1. \A n \in Nat : n \div 2 \in Nat
      OBVIOUS
    <3> QED BY <3>1, Books DEF IInv, Straddles
  <2>2. Leg("BUY") \in LegRec /\ Leg("SELL") \in LegRec
    BY <2>1 DEF IInv, Typed, LegRec, Sides
  <2> HIDE DEF Leg
  <2>3. \A x, y \in LegRec : <<x, y>> \in Seq(LegRec) /\ Len(<<x, y>>) = 2
    OBVIOUS
  <2> QED BY <2>2, <2>3
<1> HIDE DEF after, Leg
<1>4. legs' \in Seq(LegRec) /\ Len(legs') = Len(legs) + 2
  BY <1>1, <1>2, <1>3, ConcatProperties
<1>5. DOMAIN legs \subseteq DOMAIN legs' /\ Len(legs) <= Len(legs')
      /\ Len(legs) \in Nat /\ Len(legs') \in Nat
  BY <1>4, Books, LenProperties DEF IInv
<1>6. Typed'
  BY <1>1, <1>4, <1>5 DEF IInv, Typed, Due, Live
<1>7. Read' /\ Fleet'
  BY <1>1 DEF IInv, Read, Fleet, Live
<1> QED BY <1>6, <1>7 DEF IInv

\* The market fills and stops; a filled leg's entry is a price.
LEMMA MoveKeeps ==
  ASSUME NEW p \in Prices, NEW slip \in Slips PROVE IInv /\ Move(p, slip) => IInv'
<1> SUFFICES ASSUME IInv, Move(p, slip) PROVE IInv'
  OBVIOUS
<1>1. /\ mkt' = p /\ fresh' = {} /\ UNCHANGED <<peaks, pc, have, todo>>
      /\ legs' = [t \in DOMAIN legs |->
           IF legs[t].st = "pending" /\ Reached(legs[t].side, LegPrice(legs[t]), p)
           THEN [legs[t] EXCEPT !.st = "open",
                                !.entry = FillPrice(legs[t].side, LegPrice(legs[t]), slip)]
           ELSE legs[t]]
      /\ boosts' = [b \in DOMAIN boosts |->
           CASE boosts[b].st = "pending" /\ Reached(boosts[b].side, boosts[b].price, p) ->
                  [boosts[b] EXCEPT !.st = "open",
                                    !.entry = FillPrice(boosts[b].side, boosts[b].price, slip)]
             [] boosts[b].st = "open" /\ Reached(Opposite(boosts[b].side), boosts[b].sl, p) ->
                  GoneBoost
             [] OTHER -> boosts[b]]
  BY DEF Move, pass
<1>2. p \in Int /\ slip \in Int /\ Trigger \in Int
  BY BoostBounds, SweepBounds
<1>3. \A side \in Sides, price \in Int : FillPrice(side, price, slip) \in Int
  BY <1>2, SignIs DEF FillPrice
<1>4. \A t \in DOMAIN legs : LegPrice(legs[t]) \in Int
  BY <1>2, Books, SignIs DEF IInv, LegPrice, LegRec
<1>5. legs' \in [1..Len(legs) -> LegRec]
  BY <1>1, <1>3, <1>4, Books DEF IInv, LegRec
<1>6. legs' \in Seq(LegRec) /\ Len(legs') = Len(legs) /\ DOMAIN legs' = DOMAIN legs
  BY <1>5, MapIsSeq, Books DEF IInv
<1>7. GoneBoost \in BoostRec /\ GoneBoost.st = "gone" /\ GoneBoost.parent = 0
  BY BoostBounds, LenProperties DEF GoneBoost, BoostRec, Sides
<1>8. ASSUME NEW b \in DOMAIN boosts
      PROVE  /\ boosts'[b] \in BoostRec
             /\ boosts'[b].st # "gone" =>
                  /\ boosts[b].st # "gone"
                  /\ boosts'[b].parent = boosts[b].parent /\ boosts'[b].idx = boosts[b].idx
                  /\ boosts'[b].again = boosts[b].again
                  /\ boosts'[b].st = "pending" => boosts[b].st = "pending"
             /\ boosts'[b].parent \in {0, boosts[b].parent}
  <2>1. boosts[b] \in BoostRec
    BY Books DEF IInv
  <2>2. FillPrice(boosts[b].side, boosts[b].price, slip) \in Int
    BY <1>3, <2>1 DEF BoostRec
  <2>3. CASE boosts[b].st = "pending" /\ Reached(boosts[b].side, boosts[b].price, p)
    <3>1. boosts'[b] = [boosts[b] EXCEPT !.st = "open",
                          !.entry = FillPrice(boosts[b].side, boosts[b].price, slip)]
      BY <1>1, <2>3
    <3> QED BY <2>1, <2>2, <2>3, <3>1 DEF BoostRec
  <2>4. CASE boosts[b].st = "open" /\ Reached(Opposite(boosts[b].side), boosts[b].sl, p)
    <3>1. boosts'[b] = GoneBoost
      BY <1>1, <2>4
    <3> QED BY <1>7, <3>1
  <2>5. CASE /\ ~(boosts[b].st = "pending" /\ Reached(boosts[b].side, boosts[b].price, p))
             /\ ~(boosts[b].st = "open" /\ Reached(Opposite(boosts[b].side), boosts[b].sl, p))
    <3>1. boosts'[b] = boosts[b]
      BY <1>1, <2>5
    <3> QED BY <2>1, <3>1 DEF BoostRec
  <2> QED BY <2>3, <2>4, <2>5
<1>9. boosts' \in Seq(BoostRec) /\ DOMAIN boosts' = DOMAIN boosts
  <2>1. boosts' \in [1..Len(boosts) -> BoostRec]
    BY <1>1, <1>8, Books DEF IInv
  <2> QED BY <2>1, MapIsSeq, Books DEF IInv
<1>10. Keeps
  BY <1>8, <1>9 DEF Keeps
<1>11. Fleet' /\ Read'
  BY <1>1, <1>10, NothingNew DEF pass
<1>12. \A b \in DOMAIN boosts' : Live(b)' => boosts'[b].parent \in DOMAIN legs'
  BY <1>6, <1>8, <1>9, LiveIs DEF IInv, Typed
<1>13. \A b \in DOMAIN boosts' : boosts'[b].parent \in 0..Len(legs')
  BY <1>6, <1>8, <1>9, Books DEF IInv, Typed
<1>14. Typed'
  BY <1>1, <1>2, <1>6, <1>9, <1>12, <1>13 DEF IInv, Typed, Due
<1> QED BY <1>11, <1>14 DEF IInv

\* A step that only drops boosts.
LEMMA Dropped ==
  ASSUME IInv, NEW gone,
         boosts' = [b \in DOMAIN boosts |-> IF b \in gone THEN GoneBoost ELSE boosts[b]]
  PROVE  /\ Keeps
         /\ \A b \in DOMAIN boosts' : boosts'[b].parent \in 0..Len(legs)
<1>1. GoneBoost \in BoostRec /\ GoneBoost.st = "gone" /\ GoneBoost.parent = 0
  BY BoostBounds, LenProperties DEF GoneBoost, BoostRec, Sides
<1>2. boosts' \in [1..Len(boosts) -> BoostRec]
  BY <1>1, Books DEF IInv
<1>3. boosts' \in Seq(BoostRec) /\ DOMAIN boosts' = DOMAIN boosts
  BY <1>2, MapIsSeq, Books DEF IInv
<1> QED BY <1>1, <1>3, Books DEF IInv, Typed, Keeps

\* Legs and orders that end.
LEMMA EndsKeep == IInv /\ ((\E t \in In("open") : Close(t)) \/ NewDay) => IInv'
<1> SUFFICES ASSUME IInv, (\E t \in In("open") : Close(t)) \/ NewDay PROVE IInv'
  OBVIOUS
<1>1. CASE \E t \in In("open") : Close(t)
  <2>1. PICK t \in DOMAIN legs : legs' = [legs EXCEPT ![t] = GoneLeg(@, "gone")]
    BY <1>1 DEF Close, In
  <2>2. fresh' = {} /\ UNCHANGED <<mkt, boosts, peaks, pc, have, todo>>
    BY <1>1 DEF Close, pass
  <2>3. legs' \in Seq(LegRec) /\ Len(legs') = Len(legs)
    BY <2>1, Books, GoneLegIsLeg, ExceptSeq DEF IInv, Typed
  <2>4. DOMAIN legs' = DOMAIN legs
    BY <2>1
  <2>5. Typed' /\ Read' /\ Fleet'
    BY <2>2, <2>3, <2>4 DEF IInv, Typed, Due, Live, Read, Fleet
  <2> QED BY <2>5 DEF IInv
<1>2. CASE NewDay
  <2>1. /\ pc = "gated" /\ pc' = "rest" /\ fresh' = {} /\ UNCHANGED <<mkt, peaks, have, todo>>
        /\ legs' = [t \in DOMAIN legs |->
             IF legs[t].st = "pending" THEN GoneLeg(legs[t], "gone") ELSE legs[t]]
        /\ boosts' = [b \in DOMAIN boosts |->
             IF boosts[b].st = "pending" THEN GoneBoost ELSE boosts[b]]
    BY <1>2 DEF NewDay
  <2>2. legs' \in [1..Len(legs) -> LegRec]
    BY <2>1, Books, GoneLegIsLeg DEF IInv
  <2>3. legs' \in Seq(LegRec) /\ Len(legs') = Len(legs) /\ DOMAIN legs' = DOMAIN legs
    BY <2>2, MapIsSeq, Books DEF IInv
  <2>4. Keeps /\ \A b \in DOMAIN boosts' : boosts'[b].parent \in 0..Len(legs)
    <3>1. boosts' = [b \in DOMAIN boosts |->
                       IF b \in Boosts("pending") THEN GoneBoost ELSE boosts[b]]
      BY <2>1 DEF Boosts
    <3> QED BY <3>1, Dropped
  <2>5. Fleet' /\ Read'
    BY <2>1, <2>4, NothingNew DEF Read
  <2>6. Typed'
    BY <2>1, <2>3, <2>4, LiveIs DEF IInv, Typed, Due, Keeps
  <2> QED BY <2>5, <2>6 DEF IInv
<1> QED BY <1>1, <1>2

\* The first read: every order that rests on is known by its parent.
LEMMA CancelKeeps == ASSUME NEW kept \in SUBSET Cancellable PROVE IInv /\ Cancel(kept) => IInv'
<1> SUFFICES ASSUME IInv, Cancel(kept) PROVE IInv'
  OBVIOUS
<1>1. /\ boosts' = [b \in DOMAIN boosts |->
           IF b \in Cancellable \ kept THEN GoneBoost ELSE boosts[b]]
      /\ have' = Parents("pending", boosts') /\ pc' = "read"
      /\ UNCHANGED <<mkt, legs, fresh, peaks, todo>>
  BY DEF Cancel, market
<1>2. Keeps /\ \A b \in DOMAIN boosts' : boosts'[b].parent \in 0..Len(legs)
  BY <1>1, Dropped
<1>3. Fleet'
  BY <1>2, NothingNew
<1>4. Read'
  BY <1>1 DEF Read, Parents
<1>5. have' \subseteq DOMAIN legs
  <2>1. \A b \in DOMAIN boosts' : Live(b)' => boosts'[b].parent \in DOMAIN legs
    BY <1>1, <1>2, LiveIs DEF IInv, Typed, Keeps
  <2>2. \A b \in DOMAIN boosts' : boosts'[b].st = "pending" => Live(b)'
    BY DEF Live
  <2> QED BY <1>1, <2>1, <2>2 DEF Parents
<1>6. Typed'
  BY <1>1, <1>2, <1>5, LiveIs DEF IInv, Typed, Due, Keeps
<1> QED BY <1>3, <1>4, <1>6 DEF IInv

\* The second read: what is not known and not seen open is not live.
LEMMA ReadPositionsKeeps == IInv /\ ReadPositions => IInv'
<1> SUFFICES ASSUME IInv, ReadPositions PROVE IInv'
  OBVIOUS
<1>1. /\ pc = "read" /\ pc' = "placing" /\ have' = {}
      /\ todo' = {[parent |-> t, side |-> legs[t].side, entry |-> legs[t].entry,
                   idx |-> 1, again |-> FALSE] : t \in In("open") \ Have}
      /\ UNCHANGED <<mkt, legs, fresh, boosts, peaks>>
  BY DEF ReadPositions, market
<1>2. Typed'
  <2>1. 1 \in Idx
    BY BoostBounds, LenProperties, EmptySeq DEF Idx
  <2>2. todo' \subseteq Due
    <3>1. ASSUME NEW t \in In("open")
          PROVE  [parent |-> t, side |-> legs[t].side, entry |-> legs[t].entry,
                  idx |-> 1, again |-> FALSE] \in Due
      <4>1. t \in DOMAIN legs /\ legs[t].side \in Sides /\ legs[t].entry \in Int
        BY Books DEF IInv, In, LegRec
      <4> QED BY <2>1, <4>1 DEF Due
    <3> QED BY <1>1, <3>1
  <2> QED BY <1>1, <2>2 DEF IInv, Typed, Live, Due
<1>3. \A b \in DOMAIN boosts : Live(b) => boosts[b].parent \in Have
  BY <1>1 DEF IInv, Read, Live, Have, Parents
<1>4. Read'
  <2>1. \A p \in todo' : p.parent \notin Have
    BY <1>1
  <2>2. ASSUME NEW p \in todo', NEW q \in todo', p.parent = q.parent PROVE p = q
    <3> DEFINE R(t) == [parent |-> t, side |-> legs[t].side, entry |-> legs[t].entry,
                        idx |-> 1, again |-> FALSE]
    <3>1. (\E t \in In("open") : p = R(t)) /\ \E u \in In("open") : q = R(u)
      BY <1>1
    <3>2. \A t : R(t).parent = t
      OBVIOUS
    <3> HIDE DEF R
    <3> QED BY <2>2, <3>1, <3>2
  <2>3. \A b \in DOMAIN boosts' : Live(b)' => boosts'[b].parent \in Have
    BY <1>1, <1>3 DEF Live
  <2> QED BY <1>1, <2>1, <2>2, <2>3 DEF Read
<1>5. Fleet'
  BY <1>1 DEF IInv, Fleet, Live
<1> QED BY <1>2, <1>4, <1>5 DEF IInv

\* A new boost is an order of the parent it is for.
LEMMA BoostIsOrder ==
  ASSUME IInv, NEW p \in todo
  PROVE  /\ Boost(p) \in BoostRec /\ Boost(p).parent = p.parent
         /\ Boost(p).idx = p.idx /\ Boost(p).again = p.again
         /\ p \in Due
<1>1. p \in Due
  BY DEF IInv, Typed
<1>2. /\ p.parent \in DOMAIN legs /\ p.parent \in Nat /\ p.side \in Sides /\ p.entry \in Int
      /\ p.idx \in Idx /\ p.again \in BOOLEAN
  BY <1>1, Books DEF IInv, Due
<1>3. Offsets[p.idx] \in Int /\ p.idx \in 0..Len(Offsets)
  BY <1>2, BoostBounds, LenProperties, ElementOfSeq DEF Idx
<1>4. Opposite(p.side) \in Sides /\ Sign(Opposite(p.side)) \in {1, -1}
  BY <1>2, SignIs DEF Sides, Opposite, Sign
<1>5. p.entry + Sign(Opposite(p.side)) * Offsets[p.idx] \in Int
  BY <1>2, <1>3, <1>4
<1> QED BY <1>1, <1>2, <1>3, <1>4, <1>5 DEF Boost, BoostRec

\* What an accepted order adds to the book.
LEMMA Appended ==
  ASSUME IInv, NEW p \in todo, Accepted(p)
  PROVE  /\ boosts' \in Seq(BoostRec)
         /\ DOMAIN boosts \subseteq DOMAIN boosts'
         /\ \A b \in DOMAIN boosts : boosts'[b] = boosts[b]
         /\ \A b, c \in DOMAIN boosts' \ DOMAIN boosts : b = c
         /\ \A b \in DOMAIN boosts' \ DOMAIN boosts :
              /\ boosts'[b].parent = p.parent /\ boosts'[b].idx = p.idx
              /\ boosts'[b].again = p.again
<1> DEFINE n == Len(boosts)
<1>1. Boost(p) \in BoostRec
  BY BoostIsOrder
<1>2. boosts \in Seq(BoostRec) /\ n \in Nat /\ DOMAIN boosts = 1..n
  BY Books DEF IInv, Typed
<1>3. boosts' = Append(boosts, Boost(p))
  BY DEF Accepted
<1>4. /\ boosts' \in Seq(BoostRec) /\ Len(boosts') = n + 1
      /\ \A b \in 1..n : boosts'[b] = boosts[b]
      /\ boosts'[n + 1] = Boost(p)
  BY <1>1, <1>2, <1>3, AppendProperties
<1>5. DOMAIN boosts' = 1..(n + 1)
  BY <1>4, LenProperties
<1>6. DOMAIN boosts \subseteq DOMAIN boosts' /\ \A b \in DOMAIN boosts' \ DOMAIN boosts : b = n + 1
  BY <1>2, <1>5
<1> QED BY <1>2, <1>4, <1>6, BoostIsOrder

\* A send: the boost goes out or not, and what is due to its parent afterwards
\* is sent after it.
LEMMA Served ==
  ASSUME IInv, pc = "placing", NEW p \in todo, Accepted(p) \/ UNCHANGED boosts,
         NEW next, todo' = (todo \ {p}) \cup next,
         \A q \in next : q \in Due /\ q.parent = p.parent /\ Before(p, q),
         \A q, r \in next : q = r,
         UNCHANGED <<mkt, legs, fresh, peaks, pc, have>>
  PROVE  IInv'
<1>1. /\ boosts' \in Seq(BoostRec)
      /\ DOMAIN boosts \subseteq DOMAIN boosts'
      /\ \A b \in DOMAIN boosts : boosts'[b] = boosts[b]
      /\ \A b, c \in DOMAIN boosts' \ DOMAIN boosts : b = c
      /\ \A b \in DOMAIN boosts' \ DOMAIN boosts :
           /\ boosts'[b].parent = p.parent /\ boosts'[b].idx = p.idx
           /\ boosts'[b].again = p.again
  <2>1. CASE Accepted(p)
    BY <2>1, Appended
  <2>2. CASE UNCHANGED boosts
    BY <2>2 DEF IInv, Typed
  <2> QED BY <2>1, <2>2
<1>2. p \in Due /\ p.parent \in DOMAIN legs /\ p.parent \in 0..Len(legs) /\ p.idx \in Nat
  BY BoostIsOrder, Books, BoostBounds, LenProperties DEF IInv, Due, Idx
<1>3. \A b \in DOMAIN boosts : boosts[b].idx \in Nat
  BY Books, BoostBounds, LenProperties DEF IInv, BoostRec
<1>4. \A b \in DOMAIN boosts : Live(b)' <=> Live(b)
  BY <1>1 DEF Live
<1>5. todo' \subseteq Due'
  BY DEF IInv, Typed, Due
<1>6. Typed'
  BY <1>1, <1>2, <1>4, <1>5 DEF IInv, Typed
<1>7. \A b \in DOMAIN boosts :
        Live(b)' /\ boosts'[b].parent = p.parent => Before(boosts'[b], p)
  BY <1>1, <1>4 DEF IInv, Read
<1>8. Read'
  <2>1. \A q, r \in todo' : q.parent = r.parent => q = r
    BY DEF IInv, Read
  <2>2. ASSUME NEW q \in todo', NEW b \in DOMAIN boosts', Live(b)', boosts'[b].parent = q.parent
        PROVE  Before(boosts'[b], q)
    <3>1. q \in Due /\ q.idx \in Nat
      BY <1>5, BoostBounds, LenProperties DEF Due, Idx
    <3>2. CASE q \in todo \ {p}
      <4>1. q.parent # p.parent
        BY <3>2 DEF IInv, Read
      <4>2. b \in DOMAIN boosts /\ Live(b) /\ boosts'[b] = boosts[b]
        BY <1>1, <1>4, <2>2, <4>1
      <4> QED BY <2>2, <3>2, <4>2 DEF IInv, Read
    <3>3. CASE q \in next
      <4>1. q.parent = p.parent /\ Before(p, q)
        BY <3>3
      <4>2. CASE b \in DOMAIN boosts
        <5>1. Before(boosts'[b], p) /\ boosts'[b].idx \in Nat
          BY <1>1, <1>3, <1>7, <2>2, <4>1, <4>2
        <5> QED BY <1>2, <3>1, <4>1, <5>1 DEF Before
      <4>3. CASE b \notin DOMAIN boosts
        BY <1>1, <4>1, <4>3 DEF Before
      <4> QED BY <4>2, <4>3
    <3> QED BY <3>2, <3>3
  <2> QED BY <2>1, <2>2 DEF Read
<1>9. Fleet'
  <2> SUFFICES ASSUME NEW b \in DOMAIN boosts', NEW c \in DOMAIN boosts',
                      Live(b)', Live(c)', b # c
               PROVE  \/ boosts'[b].parent # boosts'[c].parent
                      \/ boosts'[b].idx # boosts'[c].idx
                      \/ boosts'[b].again # boosts'[c].again
    BY DEF Fleet
  <2>1. CASE b \in DOMAIN boosts /\ c \in DOMAIN boosts
    BY <1>1, <1>4, <2>1 DEF IInv, Fleet
  <2>2. CASE b \notin DOMAIN boosts /\ c \notin DOMAIN boosts
    BY <1>1, <2>2
  <2>3. CASE b \in DOMAIN boosts /\ c \notin DOMAIN boosts
    BY <1>1, <1>2, <1>3, <1>7, <2>3 DEF Before
  <2>4. CASE b \notin DOMAIN boosts /\ c \in DOMAIN boosts
    BY <1>1, <1>2, <1>3, <1>7, <2>4 DEF Before
  <2> QED BY <2>1, <2>2, <2>3, <2>4
<1> QED BY <1>6, <1>8, <1>9 DEF IInv

\* The placing: what was sent with its answer lost is due again, what was
\* answered makes room for the next number.
LEMMA SendsKeep ==
  ASSUME NEW p \in todo PROVE IInv /\ (SendLost(p) \/ Send(p)) => IInv'
<1> SUFFICES ASSUME IInv, SendLost(p) \/ Send(p) PROVE IInv'
  OBVIOUS
<1>1. p \in Due /\ p.idx \in Nat
  BY BoostIsOrder, BoostBounds, LenProperties DEF Due, Idx
<1>2. CASE SendLost(p)
  <2> DEFINE q == [p EXCEPT !.again = TRUE]
  <2>1. q \in Due /\ q.parent = p.parent /\ q.idx = p.idx /\ q.again = TRUE
    BY <1>1 DEF Due
  <2>2. /\ pc = "placing" /\ ~p.again /\ Accepted(p) /\ todo' = (todo \ {p}) \cup {q}
        /\ UNCHANGED <<mkt, legs, fresh, peaks, pc, have>>
    BY <1>2 DEF SendLost, market
  <2> HIDE DEF q
  <2>3. Before(p, q)
    BY <2>1, <2>2 DEF Before
  <2> DEFINE next == {q}
  <2>4. /\ \A r \in next : r \in Due /\ r.parent = p.parent /\ Before(p, r)
        /\ \A r, t \in next : r = t
    BY <2>1, <2>3
  <2>5. todo' = (todo \ {p}) \cup next
    BY <2>2
  <2> HIDE DEF next
  <2> QED BY <2>2, <2>4, <2>5, Served
<1>3. CASE Send(p)
  <2>1. /\ pc = "placing" /\ (Accepted(p) \/ UNCHANGED boosts)
        /\ todo' = (todo \ {p}) \cup NextOf(p)
        /\ UNCHANGED <<mkt, legs, fresh, peaks, pc, have>>
    BY <1>3 DEF Send, market
  <2>2. /\ \A q \in NextOf(p) : q \in Due /\ q.parent = p.parent /\ Before(p, q)
        /\ \A q, r \in NextOf(p) : q = r
    <3>1. CASE p.idx + 1 \in Idx
      <4> DEFINE q == [p EXCEPT !.idx = @ + 1, !.again = FALSE]
      <4>1. q \in Due /\ q.parent = p.parent /\ q.idx = p.idx + 1
        BY <1>1, <3>1 DEF Due
      <4>2. NextOf(p) = {q}
        BY <3>1 DEF NextOf
      <4> HIDE DEF q
      <4>3. Before(p, q)
        BY <1>1, <4>1 DEF Before
      <4> QED BY <4>1, <4>2, <4>3
    <3>2. CASE p.idx + 1 \notin Idx
      BY <3>2 DEF NextOf
    <3> QED BY <3>1, <3>2
  <2> QED BY <2>1, <2>2, Served
<1> QED BY <1>2, <1>3

-----------------------------------------------------------------------------
\* The trail moves a stop in the boost's favour or not at all.
LEMMA TrailIsBetter ==
  ASSUME NEW boost \in BoostRec, NEW peak \in Int
  PROVE  /\ Trail(boost, peak) \in Int
         /\ Reached(boost.side, boost.sl, Trail(boost, peak))
<1>1. /\ boost.sl \in Int /\ boost.entry \in Int /\ boost.side \in Sides /\ Gap \in Int
      /\ Activation \in Int
  BY BoostBounds DEF BoostRec
<1>2. CASE boost.side = "BUY"
  <2>1. Sign(boost.side) = 1
    BY <1>2 DEF Sign
  <2> QED BY <1>1, <2>1 DEF Trail, Better, Reached
<1>3. CASE boost.side = "SELL"
  <2>1. Sign(boost.side) = -1
    BY <1>3 DEF Sign
  <2> QED BY <1>1, <2>1 DEF Trail, Better, Reached
<1> QED BY <1>1, <1>2, <1>3 DEF Sides

LEMMA PeakIsInt ==
  ASSUME IInv, NEW b \in Boosts("open")
  PROVE  b \in DOMAIN boosts /\ Peak(b) \in Int
<1>1. b \in DOMAIN boosts /\ boosts[b] \in BoostRec
  BY Books DEF IInv, Boosts
<1>2. mkt \in Int /\ boosts[b].entry \in Int /\ (b \in DOMAIN peaks => peaks[b] \in Int)
  BY <1>1 DEF IInv, Typed, BoostRec
<1>3. \A side, x, y : Better(side, x, y) \in {x, y}
  BY DEF Better
<1> QED BY <1>1, <1>2, <1>3 DEF Peak

\* The last step of a pass: the peaks follow the market, the stops the peaks.
LEMMA TrailBoostsKeeps ==
  ASSUME NEW kept \in SUBSET Advances PROVE IInv /\ TrailBoosts(kept) => IInv'
<1> SUFFICES ASSUME IInv, TrailBoosts(kept) PROVE IInv'
  OBVIOUS
<1>1. /\ peaks' = [b \in Boosts("open") |-> Peak(b)]
      /\ boosts' = [b \in DOMAIN boosts |->
           IF b \in Advances \ kept
           THEN [boosts[b] EXCEPT !.sl = Trail(boosts[b], Peak(b))]
           ELSE boosts[b]]
      /\ pc' = "rest" /\ UNCHANGED <<mkt, legs, fresh, have, todo>>
  BY DEF TrailBoosts, market
<1>2. \A b \in Boosts("open") : b \in DOMAIN boosts /\ Peak(b) \in Int
  BY PeakIsInt
<1>3. ASSUME NEW b \in DOMAIN boosts
      PROVE  /\ boosts'[b] \in BoostRec /\ boosts'[b].st = boosts[b].st
             /\ boosts'[b].parent = boosts[b].parent /\ boosts'[b].idx = boosts[b].idx
             /\ boosts'[b].again = boosts[b].again
  <2>1. boosts[b] \in BoostRec
    BY Books DEF IInv
  <2>2. CASE b \in Advances \ kept
    <3>1. Trail(boosts[b], Peak(b)) \in Int
      BY <1>2, <2>1, <2>2, TrailIsBetter DEF Advances
    <3>2. boosts'[b] = [boosts[b] EXCEPT !.sl = Trail(boosts[b], Peak(b))]
      BY <1>1, <2>2
    <3> QED BY <2>1, <3>1, <3>2 DEF BoostRec
  <2>3. CASE b \notin Advances \ kept
    BY <1>1, <2>1, <2>3
  <2> QED BY <2>2, <2>3
<1>4. boosts' \in Seq(BoostRec) /\ DOMAIN boosts' = DOMAIN boosts
  <2>1. boosts' \in [1..Len(boosts) -> BoostRec]
    BY <1>1, <1>3, Books DEF IInv
  <2> QED BY <2>1, MapIsSeq, Books DEF IInv
<1>5. Keeps
  BY <1>3, <1>4 DEF Keeps
<1>6. Fleet'
  BY <1>5, NothingNew
<1>7. Read'
  BY <1>1 DEF Read
<1>8. Typed'
  BY <1>1, <1>2, <1>3, <1>4 DEF IInv, Typed, Due, Live
<1> QED BY <1>6, <1>7, <1>8 DEF IInv

\* A death forgets the pass and the peaks; a gate ends the pass.
LEMMA InterruptKeeps == IInv /\ (Restart \/ Gate) => IInv'
<1> SUFFICES ASSUME IInv, Restart \/ Gate PROVE IInv'
  OBVIOUS
<1>1. /\ UNCHANGED <<mkt, legs, fresh, boosts>> /\ pc' \in {"rest", "gated"}
      /\ have' \subseteq have /\ todo' \subseteq todo
      /\ peaks' = <<>> \/ peaks' = peaks
  BY DEF Restart, Gate, market, IInv, Typed
<1>2. Typed'
  BY <1>1 DEF IInv, Typed, Due, Live
<1>3. Read' /\ Fleet'
  BY <1>1 DEF IInv, Read, Fleet, Live
<1> QED BY <1>2, <1>3 DEF IInv

LEMMA InitIInv == Init => IInv
<1> SUFFICES ASSUME Init PROVE IInv
  OBVIOUS
<1>1. <<>> \in Seq(LegRec) /\ <<>> \in Seq(BoostRec)
  BY EmptySeq
<1>2. mkt \in Int
  BY BoostBounds DEF Init
<1> QED BY <1>1, <1>2 DEF Init, IInv, Typed, Read, Fleet

LEMMA NextKeeps == IInv /\ [Next]_vars => IInv'
<1>1. IInv /\ UNCHANGED vars => IInv'
  BY DEF vars, market, pass, IInv, Typed, Due, Read, Fleet, Live
<1> QED BY <1>1, PlaceKeeps, MoveKeeps, EndsKeep, CancelKeeps, ReadPositionsKeeps,
          SendsKeep, TrailBoostsKeeps, InterruptKeeps DEF Next, Pass

LEMMA Inductive == Spec => []IInv
BY InitIInv, NextKeeps, PTL DEF Spec

-----------------------------------------------------------------------------
(* Every state is well typed: legs and boosts stay well-formed orders, and *)
(* the pass knows only legs of the book.                                   *)
THEOREM TypeCorrect == Spec => []TypeOK
<1>1. IInv => TypeOK
  <2> SUFFICES ASSUME IInv PROVE TypeOK
    OBVIOUS
  <2>1. boosts \in Seq([parent : 0..Len(legs), idx : 0..Len(Offsets), again : BOOLEAN,
                        side : Sides, price : Int, sl : Int, entry : Int,
                        st : {"pending", "open", "gone"}])
    <3> DEFINE B == [parent : 0..Len(legs), idx : 0..Len(Offsets), again : BOOLEAN,
                     side : Sides, price : Int, sl : Int, entry : Int,
                     st : {"pending", "open", "gone"}]
    <3>1. ASSUME NEW b \in DOMAIN boosts PROVE boosts[b] \in B
      BY Books DEF IInv, Typed, BoostRec
    <3>2. boosts = [b \in 1..Len(boosts) |-> boosts[b]] /\ Len(boosts) \in Nat
      BY Books, LenProperties DEF IInv, Typed
    <3> HIDE DEF B
    <3>3. boosts \in [1..Len(boosts) -> B]
      BY <3>1, <3>2, Books DEF IInv
    <3>4. boosts \in Seq(B)
      BY <3>2, <3>3, MapIsSeq
    <3> QED BY <3>4 DEF B
  <2> QED BY <2>1 DEF IInv, Typed, TypeOK, LegRec, Due
<1> QED BY <1>1, Inductive, PTL

(* However fills, closes, refusals, lost answers and restarts fall between *)
(* the manager's reads and sends, no parent carries the same boost twice,  *)
(* but for the one sent again because its answer was lost.                 *)
THEOREM NoSecondFleet == Spec => []OneFleet
<1>1. IInv => OneFleet
  BY DEF IInv, Fleet, OneFleet, Boosts, Live
<1> QED BY <1>1, Inductive, PTL

(* No step takes back what a boost's trail has secured, though a restart   *)
(* forgets the peak the trail follows.                                     *)
THEOREM TrailIsOneWay == Spec => BoostStopOneWay
<1>1. IInv /\ [Next]_vars =>
        [\A b \in Boosts("open") : boosts'[b].st = "open" =>
           Reached(boosts[b].side, boosts[b].sl, boosts'[b].sl)]_vars
  <2> SUFFICES ASSUME IInv, Next, NEW b \in Boosts("open"), boosts'[b].st = "open"
               PROVE  Reached(boosts[b].side, boosts[b].sl, boosts'[b].sl)
    OBVIOUS
  <2>1. b \in DOMAIN boosts /\ boosts[b] \in BoostRec /\ boosts[b].st = "open"
    BY Books DEF IInv, Boosts
  <2>2. boosts'[b].sl = boosts[b].sl => Reached(boosts[b].side, boosts[b].sl, boosts'[b].sl)
    <3>1. Sign(boosts[b].side) * (boosts[b].sl - boosts[b].sl) >= 0
      BY <2>1, SignIs DEF BoostRec
    <3> QED BY <3>1 DEF Reached
  <2>3. CASE UNCHANGED boosts
    BY <2>2, <2>3
  <2>4. ASSUME NEW p \in Prices, NEW slip \in Slips, Move(p, slip) PROVE boosts'[b].sl = boosts[b].sl
    BY <2>1, <2>4 DEF Move, GoneBoost, BoostRec
  <2>5. ASSUME NEW kept \in SUBSET Cancellable, Cancel(kept) PROVE boosts'[b] = boosts[b]
    BY <2>1, <2>5 DEF Cancel, GoneBoost
  <2>6. ASSUME NEW p \in todo, SendLost(p) \/ Send(p) PROVE boosts'[b] = boosts[b]
    BY <2>1, <2>6, Appended DEF SendLost, Send
  <2>7. ASSUME NEW kept \in SUBSET Advances, TrailBoosts(kept)
        PROVE  Reached(boosts[b].side, boosts[b].sl, boosts'[b].sl)
    <3>1. CASE b \in Advances \ kept
      <4>1. Peak(b) \in Int
        BY PeakIsInt
      <4>2. boosts'[b].sl = Trail(boosts[b], Peak(b))
        BY <2>1, <2>7, <3>1 DEF TrailBoosts, BoostRec
      <4> QED BY <2>1, <4>1, <4>2, TrailIsBetter
    <3>2. CASE b \notin Advances \ kept
      BY <2>1, <2>2, <2>7, <3>2 DEF TrailBoosts
    <3> QED BY <3>1, <3>2
  <2>8. CASE NewDay
    BY <2>1, <2>2, <2>8 DEF NewDay
  <2>9. CASE Restart \/ Gate \/ ReadPositions \/ \E t \in In("open") : Close(t)
    BY <2>3, <2>9 DEF Restart, Gate, ReadPositions, Close
  <2>10. CASE \E swept \in SUBSET Stale : Place(swept)
    BY <2>3, <2>10 DEF Place
  <2> QED BY <2>2, <2>4, <2>5, <2>6, <2>7, <2>8, <2>9, <2>10 DEF Next, Pass
<1> QED BY <1>1, Inductive, PTL DEF Spec, BoostStopOneWay

-----------------------------------------------------------------------------
\* Twins of one straddle have one origin and opposite sides, and a filled one
\* stands a slip beyond its price.
Twin(s, t) == s # t /\ legs[s].straddle = legs[t].straddle
Alive(t) == legs[t].st \in {"pending", "open"}

Straddled ==
  /\ \A t \in DOMAIN legs : legs[t].straddle < Straddles
  /\ \A s, t \in DOMAIN legs :
       Twin(s, t) /\ Alive(s) /\ Alive(t)
         => legs[s].origin = legs[t].origin /\ legs[s].side # legs[t].side
  /\ \A t \in In("open") : \E slip \in Slips :
       legs[t].entry = FillPrice(legs[t].side, LegPrice(legs[t]), slip)

\* A step that places no leg, moves none and fills none.
LegsEnd ==
  /\ DOMAIN legs' = DOMAIN legs /\ Straddles' = Straddles
  /\ \A t \in DOMAIN legs :
       /\ legs'[t].straddle = legs[t].straddle
       /\ legs'[t] = legs[t] \/ legs'[t].st \notin {"pending", "open"}

LEMMA EndingKeepsStraddled ==
  ASSUME Straddled, LegsEnd
  PROVE  Straddled'
BY DEF Straddled, LegsEnd, Twin, Alive, In

\* Two legs of one placement, at the end of a book of ended and kept ones.
LEMMA PlaceStraddles ==
  ASSUME IInv, Straddled, NEW swept \in SUBSET Stale, Place(swept)
  PROVE  /\ Straddled'
         /\ \A t \in DOMAIN legs : legs'[t] = IF t \in swept THEN GoneLeg(legs[t], "swept") ELSE legs[t]
         /\ \A t \in DOMAIN legs' \ DOMAIN legs :
              legs'[t].st = "pending" => legs'[t].origin = mkt
         /\ DOMAIN legs \subseteq DOMAIN legs' /\ \A t \in DOMAIN legs' \ DOMAIN legs : legs'[t].st # "open"
<1> DEFINE after == [t \in DOMAIN legs |->
                       IF t \in swept THEN GoneLeg(legs[t], "swept") ELSE legs[t]]
           Leg(side) == [straddle |-> Straddles, side |-> side, entry |-> 0,
                         origin |-> IF side \in Plans[Straddles + 1] THEN mkt ELSE 0,
                         st |-> IF side \in Plans[Straddles + 1] THEN "pending" ELSE "gone"]
           n == Len(legs)
<1>1. legs' = after \o <<Leg("BUY"), Leg("SELL")>>
  BY DEF Place
<1>2. n \in Nat /\ DOMAIN legs = 1..n /\ \A t \in DOMAIN legs : legs[t] \in LegRec
  BY Books DEF IInv
<1>3. after \in Seq(LegRec) /\ Len(after) = n
  <2>1. after \in [1..n -> LegRec]
    BY <1>2, GoneLegIsLeg
  <2> HIDE DEF after
  <2> QED BY <2>1, MapIsSeq, <1>2
<1>4. Straddles \in Nat
  <2>1. \A k \in Nat : k \div 2 \in Nat
    OBVIOUS
  <2> QED BY <1>2, <2>1 DEF Straddles
<1>5. \A side \in Sides : /\ Leg(side) \in LegRec
                          /\ Leg(side).straddle = Straddles /\ Leg(side).side = side
                          /\ Leg(side).st \in {"pending", "gone"}
                          /\ Leg(side).st = "pending" => Leg(side).origin = mkt
  BY <1>4 DEF IInv, Typed, LegRec
<1>6. \A t \in DOMAIN legs :
        after[t] = IF t \in swept THEN GoneLeg(legs[t], "swept") ELSE legs[t]
  OBVIOUS
<1> HIDE DEF after, Leg
<1>7. <<Leg("BUY"), Leg("SELL")>> \in Seq(LegRec) /\ Len(<<Leg("BUY"), Leg("SELL")>>) = 2
  <2>1. \A x, y \in LegRec : <<x, y>> \in Seq(LegRec) /\ Len(<<x, y>>) = 2
    OBVIOUS
  <2> QED BY <1>5, <2>1 DEF Sides
<1>8. /\ legs' \in Seq(LegRec) /\ Len(legs') = n + 2
      /\ \A i \in 1..(n + 2) : legs'[i] = IF i <= n THEN after[i]
                                          ELSE <<Leg("BUY"), Leg("SELL")>>[i - n]
  BY <1>1, <1>3, <1>7, ConcatProperties
<1>9. DOMAIN legs' = 1..(n + 2)
  BY <1>8, LenProperties
<1>10. /\ \A t \in DOMAIN legs : legs'[t] = after[t]
       /\ legs'[n + 1] = Leg("BUY") /\ legs'[n + 2] = Leg("SELL")
  <2>1. (n + 1) - n = 1 /\ (n + 2) - n = 2
    BY <1>2
  <2> QED BY <1>2, <1>8, <2>1
<1>11. DOMAIN legs' = DOMAIN legs \cup {n + 1, n + 2} /\ {n + 1, n + 2} \cap DOMAIN legs = {}
  BY <1>2, <1>9
<1>12. Straddles' = Straddles + 1
  BY <1>2, <1>8 DEF Straddles
<1>13. \A t \in DOMAIN legs :
         /\ legs'[t] = IF t \in swept THEN GoneLeg(legs[t], "swept") ELSE legs[t]
         /\ legs'[t].straddle = legs[t].straddle /\ legs'[t].straddle < Straddles
         /\ legs'[t] = legs[t] \/ legs'[t].st = "swept"
  <2>1. \A leg \in LegRec : GoneLeg(leg, "swept").straddle = leg.straddle
                            /\ GoneLeg(leg, "swept").st = "swept"
    BY DEF GoneLeg, LegRec
  <2> QED BY <1>2, <1>6, <1>10, <2>1 DEF Straddled
<1> HIDE DEF n
<1>14. \A t \in DOMAIN legs' : legs'[t].straddle < Straddles + 1
  <2>1. \A t \in DOMAIN legs : legs'[t].straddle \in Nat
    BY <1>2, <1>13 DEF LegRec
  <2> QED BY <1>4, <1>5, <1>10, <1>11, <1>13, <2>1 DEF Sides
<1>15. ASSUME NEW s \in DOMAIN legs', NEW t \in DOMAIN legs', Twin(s, t)', Alive(s)', Alive(t)'
       PROVE  legs'[s].origin = legs'[t].origin /\ legs'[s].side # legs'[t].side
  <2>1. CASE s \in DOMAIN legs /\ t \in DOMAIN legs
    BY <1>13, <1>15, <2>1 DEF Straddled, Twin, Alive
  <2>2. CASE s \in {n + 1, n + 2} /\ t \in {n + 1, n + 2}
    BY <1>5, <1>10, <1>15, <2>2 DEF Twin, Alive, Sides
  <2>3. CASE (s \in DOMAIN legs) # (t \in DOMAIN legs)
    <3>1. \A u \in DOMAIN legs : legs'[u].straddle # Straddles
      BY <1>2, <1>4, <1>13 DEF LegRec
    <3> QED BY <1>5, <1>10, <1>11, <1>15, <2>3, <3>1 DEF Twin, Sides
  <2> QED BY <1>11, <2>1, <2>2, <2>3
<1>16. \A t \in DOMAIN legs' \ DOMAIN legs :
         legs'[t].st \in {"pending", "gone"} /\ (legs'[t].st = "pending" => legs'[t].origin = mkt)
  BY <1>5, <1>10, <1>11 DEF Sides
<1>17. ASSUME NEW t \in In("open")'
       PROVE  \E slip \in Slips :
                legs'[t].entry = FillPrice(legs'[t].side, LegPrice(legs'[t]), slip)
  <2>1. t \in DOMAIN legs /\ legs'[t] = legs[t] /\ t \in In("open")
    BY <1>13, <1>16, <1>17 DEF In
  <2> QED BY <2>1 DEF Straddled
<1>18. Straddled'
  BY <1>12, <1>14, <1>15, <1>17 DEF Straddled
<1> QED BY <1>11, <1>13, <1>16, <1>18

\* A fill leaves the legs where they are and puts the slip beyond the price.
LEMMA MoveStraddles ==
  ASSUME IInv, Straddled, NEW p \in Prices, NEW slip \in Slips, Move(p, slip)
  PROVE  Straddled' /\ \A t \in DOMAIN legs : legs'[t].st # "swept" \/ legs[t].st = "swept"
<1>1. legs' = [t \in DOMAIN legs |->
        IF legs[t].st = "pending" /\ Reached(legs[t].side, LegPrice(legs[t]), p)
        THEN [legs[t] EXCEPT !.st = "open",
                             !.entry = FillPrice(legs[t].side, LegPrice(legs[t]), slip)]
        ELSE legs[t]]
  BY DEF Move
<1>2. \A t \in DOMAIN legs : legs[t] \in LegRec
  BY Books DEF IInv
<1>3. /\ DOMAIN legs' = DOMAIN legs
      /\ \A t \in DOMAIN legs :
           /\ legs'[t].straddle = legs[t].straddle /\ legs'[t].origin = legs[t].origin
           /\ legs'[t].side = legs[t].side
           /\ \/ legs'[t] = legs[t]
              \/ /\ legs[t].st = "pending" /\ legs'[t].st = "open"
                 /\ legs'[t].entry = FillPrice(legs[t].side, LegPrice(legs[t]), slip)
  BY <1>1, <1>2 DEF LegRec
<1>4. Len(legs') = Len(legs)
  <2>1. IInv'
    BY MoveKeeps
  <2>2. Len(legs') \in Nat /\ DOMAIN legs' = 1..Len(legs')
    BY <2>1, LenProperties DEF IInv, Typed
  <2> QED BY <1>3, <2>2, Books DEF IInv
<1>5. Straddles' = Straddles
  BY <1>4 DEF Straddles
<1>6. \A t \in In("open")' : \E r \in Slips :
        legs'[t].entry = FillPrice(legs'[t].side, LegPrice(legs'[t]), r)
  BY <1>3 DEF Straddled, In, LegPrice
<1>7. \A s, t \in DOMAIN legs' :
        Twin(s, t)' /\ Alive(s)' /\ Alive(t)'
          => legs'[s].origin = legs'[t].origin /\ legs'[s].side # legs'[t].side
  BY <1>3 DEF Straddled, Twin, Alive
<1>8. \A t \in DOMAIN legs' : legs'[t].straddle < Straddles'
  BY <1>3, <1>5 DEF Straddled
<1> QED BY <1>3, <1>6, <1>7, <1>8 DEF Straddled

\* Legs end by a close, or with their day.
LEMMA EndsStraddle ==
  ASSUME IInv, Straddled, NewDay \/ \E t \in In("open") : Close(t)
  PROVE  Straddled' /\ \A t \in DOMAIN legs : legs'[t].st # "swept" \/ legs[t].st = "swept"
<1>1. \A t \in DOMAIN legs : legs[t] \in LegRec
  BY Books DEF IInv
<1>2. \A leg \in LegRec : GoneLeg(leg, "gone").straddle = leg.straddle
                          /\ GoneLeg(leg, "gone").st = "gone"
  BY DEF GoneLeg, LegRec
<1>3. /\ DOMAIN legs' = DOMAIN legs
      /\ \A t \in DOMAIN legs : legs'[t] = legs[t] \/ legs'[t] = GoneLeg(legs[t], "gone")
  BY DEF NewDay, Close, In
<1>4. Len(legs') = Len(legs)
  <2>1. IInv'
    BY EndsKeep
  <2>2. Len(legs') \in Nat /\ DOMAIN legs' = 1..Len(legs')
    BY <2>1, LenProperties DEF IInv, Typed
  <2> QED BY <1>3, <2>2, Books DEF IInv
<1>5. LegsEnd
  BY <1>1, <1>2, <1>3, <1>4 DEF LegsEnd, Straddles
<1> QED BY <1>1, <1>2, <1>3, <1>5, EndingKeepsStraddled

\* All other steps leave the legs alone.
LEMMA OthersLeaveLegs ==
  ASSUME \/ \E kept \in SUBSET Cancellable : Cancel(kept)
         \/ ReadPositions
         \/ \E p \in todo : SendLost(p) \/ Send(p)
         \/ \E kept \in SUBSET Advances : TrailBoosts(kept)
         \/ Restart \/ Gate \/ UNCHANGED vars
  PROVE  UNCHANGED <<legs, fresh>>
BY DEF Cancel, ReadPositions, SendLost, Send, TrailBoosts, Restart, Gate, vars, market

LEMMA StraddledAlways == Spec => []Straddled
<1>1. Init => Straddled
  BY DEF Init, Straddled, In
<1>2. IInv /\ Straddled /\ UNCHANGED legs => Straddled'
  BY DEF Straddled, Twin, Alive, In, Straddles
<1>3. IInv /\ Straddled /\ [Next]_vars => Straddled'
  BY <1>2, PlaceStraddles, MoveStraddles, EndsStraddle, OthersLeaveLegs DEF Next, Pass
<1> QED BY <1>1, <1>3, Inductive, PTL DEF Spec

\* Where a straddle is wider than the sweep's interval and its tolerance, as in
\* the shipped configuration (legs 18 from the anchor, an interval of 20), no
\* slip, close or restart lets the sweep recognise the open twin of a resting
\* leg: whatever spares a rescue leg there is another position, or its anchor
\* being near (stale_leg_sweep.py, whose docstring has it that the rescue leg of
\* an open position is never swept).
THEOREM TwinIsUnseen ==
  ASSUME 2 * Trigger > Interval + Tol
  PROVE  Spec => [](\A t \in In("pending"), s \in In("open") :
                      Twin(s, t) => ~IsRescueLeg(legs[t], {legs[s]}))
<1>1. ASSUME IInv, Straddled, NEW t \in In("pending"), NEW s \in In("open"), Twin(s, t)
      PROVE  ~IsRescueLeg(legs[t], {legs[s]})
  <2>1. /\ t \in DOMAIN legs /\ legs[t] \in LegRec /\ legs[t].st = "pending"
        /\ s \in DOMAIN legs /\ legs[s] \in LegRec /\ legs[s].st = "open"
    BY <1>1, Books DEF IInv, In
  <2>2. PICK slip \in Slips : legs[s].entry = FillPrice(legs[s].side, LegPrice(legs[s]), slip)
    BY <1>1 DEF Straddled
  <2>3. legs[s].origin = legs[t].origin /\ legs[s].side # legs[t].side
    BY <1>1, <2>1 DEF Straddled, Alive
  <2>4. /\ slip \in Nat /\ {Trigger, Interval, Tol} \subseteq Nat
        /\ legs[t].origin \in Int
    BY <2>1, BoostBounds, SweepBounds DEF LegRec
  <2>5. Dist(LegPrice(legs[t]), legs[s].entry) = 2 * Trigger + slip
    <3>1. CASE legs[t].side = "BUY" /\ legs[s].side = "SELL"
      <4>1. LegPrice(legs[t]) = legs[t].origin + Trigger
        BY <2>4, <3>1 DEF LegPrice, Sign
      <4>2. legs[s].entry = legs[t].origin - Trigger - slip
        BY <2>2, <2>3, <2>4, <3>1 DEF LegPrice, Sign, FillPrice
      <4> QED BY <2>4, <4>1, <4>2 DEF Dist
    <3>2. CASE legs[t].side = "SELL" /\ legs[s].side = "BUY"
      <4>1. LegPrice(legs[t]) = legs[t].origin - Trigger
        BY <2>4, <3>2 DEF LegPrice, Sign
      <4>2. legs[s].entry = legs[t].origin + Trigger + slip
        BY <2>2, <2>3, <2>4, <3>2 DEF LegPrice, Sign, FillPrice
      <4> QED BY <2>4, <4>1, <4>2 DEF Dist
    <3> QED BY <2>1, <2>3, <3>1, <3>2 DEF LegRec, Sides
  <2>6. ~(Dist(2 * Trigger + slip, Interval) <= Tol)
    BY <2>4 DEF Dist
  <2> QED BY <2>5, <2>6 DEF IsRescueLeg
<1>2. IInv /\ Straddled =>
        \A t \in In("pending"), s \in In("open") :
          Twin(s, t) => ~IsRescueLeg(legs[t], {legs[s]})
  BY <1>1
<1> QED BY <1>2, Inductive, StraddledAlways, PTL

-----------------------------------------------------------------------------
\* No step of the manager opens or closes a position.
LEMMA SidesKept ==
  ASSUME IInv,
         \/ \E kept \in SUBSET Cancellable : Cancel(kept)
         \/ ReadPositions
         \/ \E p \in todo : SendLost(p) \/ Send(p)
         \/ \E kept \in SUBSET Advances : TrailBoosts(kept)
         \/ Restart \/ Gate \/ UNCHANGED vars
  PROVE  /\ UNCHANGED <<legs, fresh>>
         /\ \A p \in Positions : \E q \in Positions' : q.side = p.side
<1>1. UNCHANGED <<legs, fresh>>
  BY OthersLeaveLegs
<1>2. ASSUME NEW b \in Boosts("open")
      PROVE  b \in Boosts("open")' /\ boosts'[b].side = boosts[b].side
  <2>1. b \in DOMAIN boosts /\ boosts[b] \in BoostRec /\ boosts[b].st = "open"
    BY Books DEF IInv, Boosts
  <2>2. CASE UNCHANGED boosts
    BY <2>1, <2>2 DEF Boosts
  <2>3. ASSUME NEW kept \in SUBSET Cancellable, Cancel(kept) PROVE b \in DOMAIN boosts' /\ boosts'[b] = boosts[b]
    <3>1. b \notin Cancellable
      BY <2>1 DEF Cancellable, Orphans, Boosts
    <3> QED BY <2>1, <2>3, <3>1 DEF Cancel
  <2>4. ASSUME NEW p \in todo, SendLost(p) \/ Send(p)
        PROVE  b \in DOMAIN boosts' /\ boosts'[b] = boosts[b]
    BY <2>1, <2>4, Appended DEF SendLost, Send
  <2>5. ASSUME NEW kept \in SUBSET Advances, TrailBoosts(kept)
        PROVE  b \in DOMAIN boosts' /\ boosts'[b].st = "open" /\ boosts'[b].side = boosts[b].side
    BY <2>1, <2>5 DEF TrailBoosts, BoostRec
  <2>6. ReadPositions \/ Restart \/ Gate \/ UNCHANGED vars => UNCHANGED boosts
    BY DEF ReadPositions, Restart, Gate, vars
  <2> QED BY <2>1, <2>2, <2>3, <2>4, <2>5, <2>6 DEF Boosts
<1>3. ASSUME NEW p \in Positions PROVE \E q \in Positions' : q.side = p.side
  <2>1. CASE \E t \in In("open") : p = legs[t]
    <3>1. PICK t \in In("open") : p = legs[t]
      BY <2>1
    <3>2. t \in In("open")' /\ legs'[t] = p
      BY <1>1, <3>1 DEF In
    <3> QED BY <3>2 DEF Positions
  <2>2. CASE \E b \in Boosts("open") : p = boosts[b]
    <3>1. PICK b \in Boosts("open") : p = boosts[b]
      BY <2>2
    <3>2. boosts'[b] \in Positions'
      BY <1>2, <3>1 DEF Positions
    <3> QED BY <1>2, <3>1, <3>2
  <2> QED BY <2>1, <2>2 DEF Positions
<1> QED BY <1>1, <1>3

\* After a placement whose cancels all went through, a leg of an anchor an
\* interval or more away rests on only beside an open position of the other side
\* (the lone leftovers the sweep is for are gone), and the boost manager, whose
\* steps come next, takes none of those positions away.
THEOREM LeftoversAreRescues ==
  ASSUME Interval # 0
  PROVE  Spec => []NoLoneLeftover
<1>1. Init => NoLoneLeftover
  BY DEF Init, NoLoneLeftover
<1>2. ASSUME IInv, Straddled, NEW swept \in SUBSET Stale, Place(swept) PROVE NoLoneLeftover'
  <2>1. SUFFICES ASSUME NEW a \in fresh', NEW t \in In("pending")',
                        Dist(legs'[t].origin, a) >= Interval
                 PROVE  \E p \in Positions' : p.side # legs'[t].side
    BY DEF NoLoneLeftover
  <2>2. a = mkt /\ swept = Stale /\ UNCHANGED boosts
    BY <1>2, <2>1 DEF Place
  <2>3. Interval \in Nat /\ Interval > 0 /\ mkt \in Int
    BY <1>2, SweepBounds DEF IInv, Typed
  <2>4. t \in DOMAIN legs
    <3>1. SUFFICES ASSUME t \notin DOMAIN legs PROVE FALSE
      OBVIOUS
    <3>2. legs'[t].origin = mkt
      BY <1>2, <2>1, <3>1, PlaceStraddles DEF In
    <3> QED BY <2>1, <2>2, <2>3, <3>2 DEF Dist
  <2>5. t \notin Stale /\ legs'[t] = legs[t] /\ legs[t].st = "pending"
    <3>1. legs[t] \in LegRec
      BY <2>4, Books, <1>2 DEF IInv
    <3>2. GoneLeg(legs[t], "swept").st = "swept"
      BY <3>1 DEF GoneLeg, LegRec
    <3>3. legs'[t] = IF t \in swept THEN GoneLeg(legs[t], "swept") ELSE legs[t]
      BY <1>2, <2>4, PlaceStraddles
    <3>4. legs'[t].st = "pending"
      BY <2>1 DEF In
    <3> QED BY <2>2, <3>2, <3>3, <3>4
  <2>6. PICK p \in Positions : p.side # legs[t].side
    <3>1. t \in In("pending") /\ IsStale(legs[t].origin, mkt)
      BY <2>1, <2>2, <2>4, <2>5 DEF In, IsStale
    <3>2. IsRescueLeg(legs[t], Positions)
      BY <2>5, <3>1 DEF Stale, Sweepable
    <3> QED BY <3>2 DEF IsRescueLeg
  <2>7. p \in Positions'
    <3>1. \A s \in In("open") : s \in In("open")' /\ legs'[s] = legs[s]
      <4>1. \A s \in In("open") : s \notin Stale
        BY DEF Stale, In
      <4> QED BY <1>2, <4>1, PlaceStraddles DEF In
    <3> QED BY <2>2, <2>6, <3>1 DEF Positions, Boosts
  <2> QED BY <2>5, <2>6, <2>7
<1>3. ASSUME NoLoneLeftover, UNCHANGED <<legs, fresh>>,
             \A p \in Positions : \E q \in Positions' : q.side = p.side
      PROVE  NoLoneLeftover'
  BY <1>3 DEF NoLoneLeftover, In
<1>4. ASSUME fresh' = {} PROVE NoLoneLeftover'
  BY <1>4 DEF NoLoneLeftover
<1>5. (\E p \in Prices, slip \in Slips : Move(p, slip)) \/ NewDay \/ (\E t \in In("open") : Close(t))
        => fresh' = {}
  BY DEF Move, NewDay, Close
<1>6. IInv /\ Straddled /\ NoLoneLeftover /\ [Next]_vars => NoLoneLeftover'
  BY <1>2, <1>3, <1>4, <1>5, SidesKept DEF Next, Pass
<1> QED BY <1>1, <1>6, Inductive, StraddledAlways, PTL DEF Spec
=============================================================================
