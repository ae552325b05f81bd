---------------------------- MODULE RescueBoost ----------------------------
(***************************************************************************)
(* The straddle's book and its hedges.  Every placement first sweeps stale *)
(* legs (StaleSweep); once per pass the rescue-boost manager of            *)
(* rescue_boost.py cancels the boosts of closed parents, rests two         *)
(* opposite stops behind every newly filled leg and trails the filled      *)
(* ones.  It keeps nothing but the peaks: all else is read from the broker *)
(* step by step, while the broker fills and closes, and the answer to an   *)
(* order may be lost.  A pass whose reads fail is not modelled (README).   *)
(***************************************************************************)
EXTENDS StaleSweep, Sequences, FiniteSets

CONSTANTS
  Prices,      \* the prices the market visits
  Anchors,     \* those a placement finds
  Plans,       \* the sides each placement in turn gets through; their number bounds the legs
  Slips,       \* how far beyond its price a stop may fill
  Offsets,     \* <<boost_1_offset, boost_2_offset>>
  Activation,  \* trail_activation
  Gap,         \* trail_gap
  MaxBoosts    \* bound: boosts ever placed

ASSUME BoostBounds ==
  /\ Prices \subseteq Int /\ Anchors \subseteq Prices
  /\ Plans \in Seq(SUBSET Sides) /\ Slips \subseteq Nat
  /\ Offsets \in Seq(Nat) /\ Offsets # <<>>
  /\ {Activation, Gap, MaxBoosts} \subseteq Nat

VARIABLES
  mkt,      \* the market, and with it the next anchor
  legs,     \* every leg ever placed, twins next to each other
  fresh,    \* {the anchor just placed at}, while nothing has moved since
  boosts,   \* every boost ever placed; its comment names idx and parent
            \* ("again": sent a second time, the first answer being lost)
  peaks,    \* manager memory: best price by open boost
  pc,       \* where the manager's pass is; "gated": _tick returns before it
  have,     \* parents that carried a boost when the pass read the book
  todo      \* boosts the pass has still to send, by position read

market == <<mkt, legs, fresh>>
pass == <<pc, have, todo>>
vars == <<market, boosts, peaks, pass>>

Opposite(side) == CHOOSE s \in Sides : s # side
Idx == DOMAIN Offsets

In(st) == {t \in DOMAIN legs : legs[t].st = st}
Boosts(st) == {b \in DOMAIN boosts : boosts[b].st = st}
ParentOpen(b) == legs[boosts[b].parent].st = "open"
Positions == {legs[t] : t \in In("open")} \cup {boosts[b] : b \in Boosts("open")}

\* What is over is forgotten but for its place in the book.
GoneLeg(leg, st) == [leg EXCEPT !.st = st, !.origin = 0, !.entry = 0]
GoneBoost == [parent |-> 0, idx |-> 0, again |-> FALSE, side |-> "BUY", price |-> 0,
              sl |-> 0, entry |-> 0, st |-> "gone"]

Init ==
  /\ mkt \in Prices
  /\ legs = <<>> /\ fresh = {}
  /\ boosts = <<>> /\ peaks = <<>>
  /\ pc = "rest" /\ have = {} /\ todo = {}

-----------------------------------------------------------------------------
(* Placement, market and broker. *)

Stale == {t \in In("pending") : Sweepable(legs[t], Positions, mkt)}

Straddles == Len(legs) \div 2

\* A cancel that fails twice leaves the order; the placement goes on anyway.
\* `fresh` remembers the anchor when every cancel went through.
Place(swept) ==
  /\ pc = "rest"
  /\ mkt \in Anchors /\ Straddles < Len(Plans)
  /\ LET after == [t \in DOMAIN legs |->
                     IF t \in swept THEN GoneLeg(legs[t], "swept") ELSE legs[t]]
         Leg(side) == [straddle |-> Straddles, side |-> side, entry |-> 0,
                       origin |-> IF side \in Plans[Straddles + 1] THEN mkt ELSE 0,
                       st |-> IF side \in Plans[Straddles + 1] THEN "pending" ELSE "gone"]
     IN legs' = after \o <<Leg("BUY"), Leg("SELL")>>
  /\ fresh' = IF swept = Stale THEN {mkt} ELSE {}
  /\ UNCHANGED <<mkt, boosts, peaks, pass>>

Reached(side, price, p) == Sign(side) * (p - price) >= 0
FillPrice(side, price, slip) == price + Sign(side) * slip

\* The broker fills every order the market crosses, a little beyond its price,
\* and closes every boost whose stop it crosses.
Move(p, slip) ==
  /\ p # mkt
  /\ mkt' = p
  /\ legs' = [t \in DOMAIN legs |->
       IF legs[t].st = "pending" /\ Reached(legs[t].side, LegPrice(legs[t]), p)
       THEN [legs[t] EXCEPT !.st = "open",
                            !.entry = FillPrice(legs[t].side, LegPrice(legs[t]), slip)]
       ELSE legs[t]]
  /\ boosts' = [b \in DOMAIN boosts |->
       CASE boosts[b].st = "pending" /\ Reached(boosts[b].side, boosts[b].price, p) ->
              [boosts[b] EXCEPT !.st = "open",
                                !.entry = FillPrice(boosts[b].side, boosts[b].price, slip)]
         [] boosts[b].st = "open" /\ Reached(Opposite(boosts[b].side), boosts[b].sl, p) ->
              GoneBoost
         [] OTHER -> boosts[b]]
  /\ fresh' = {}
  /\ UNCHANGED <<peaks, pass>>

\* A leg ends by its stop, its trail or a flatten.
Close(t) ==
  /\ t \in In("open")
  /\ legs' = [legs EXCEPT ![t] = GoneLeg(@, "gone")]
  /\ fresh' = {}
  /\ UNCHANGED <<mkt, boosts, peaks, pass>>

-----------------------------------------------------------------------------
(* The manager's pass, on_tick: cancel and read the pendings, read the
   positions, place, trail.  The broker may act between any two of them. *)

Orphans == {b \in Boosts("pending") : ~ParentOpen(b)}

\* What a bug could do: miss the second boost.
OrphansFirst == {b \in Orphans : boosts[b].idx = 1}

Cancellable == Orphans

Parents(st, book) == {book[b].parent : b \in {c \in DOMAIN book : book[c].st = st}}

Cancel(kept) ==
  /\ pc = "rest"
  /\ boosts' = [b \in DOMAIN boosts |->
       IF b \in Cancellable \ kept THEN GoneBoost ELSE boosts[b]]
  /\ have' = Parents("pending", boosts')
  /\ pc' = "read"
  /\ UNCHANGED <<market, peaks, todo>>

\* What a bug could do: look at the resting orders only.
HaveResting == have

\* Pendings were read first: a boost that fills in between is seen here.
Have == have \cup Parents("open", boosts)

ReadPositions ==
  /\ pc = "read"
  /\ todo' = {[parent |-> t, side |-> legs[t].side, entry |-> legs[t].entry,
                idx |-> 1, again |-> FALSE] : t \in In("open") \ Have}
  /\ have' = {}
  /\ pc' = "placing"
  /\ UNCHANGED <<market, boosts, peaks>>

\* boost_plan: opposite side, adverse by the offset, stop at the parent's entry.
Boost(p) ==
  LET side == Opposite(p.side)
  IN [parent |-> p.parent, idx |-> p.idx, again |-> p.again, side |-> side, entry |-> 0,
      sl |-> p.entry, price |-> p.entry + Sign(side) * Offsets[p.idx], st |-> "pending"]

\* The positions are served one after the other.
Begun == {p \in todo : p.idx > 1 \/ p.again}
Turn == IF Begun = {} THEN todo ELSE Begun

\* The preflight and the broker keep back a stop the market is through.
Accepted(p) ==
  /\ Len(boosts) < MaxBoosts
  /\ ~Reached(Boost(p).side, Boost(p).price, mkt)
  /\ boosts' = Append(boosts, Boost(p))

\* The stop is accepted and the answer lost; half a second later the adapter
\* does not find it resting: the query failed, or it has filled meanwhile.
SendLost(p) ==
  /\ pc = "placing" /\ p \in Turn /\ ~p.again
  /\ Accepted(p)
  /\ todo' = (todo \ {p}) \cup {[p EXCEPT !.again = TRUE]}
  /\ UNCHANGED <<market, peaks, pc, have>>

\* Sent (once more, after a lost answer) or refused: nobody looks at the answer.
NextOf(p) == IF p.idx + 1 \in Idx THEN {[p EXCEPT !.idx = @ + 1, !.again = FALSE]} ELSE {}

Send(p) ==
  /\ pc = "placing" /\ p \in Turn
  /\ Accepted(p) \/ UNCHANGED boosts
  /\ todo' = (todo \ {p}) \cup NextOf(p)
  /\ UNCHANGED <<market, peaks, pc, have>>

Better(side, a, b) == IF Sign(side) * (a - b) >= 0 THEN a ELSE b
Peak(b) ==
  Better(boosts[b].side, IF b \in DOMAIN peaks THEN peaks[b] ELSE boosts[b].entry, mkt)

\* What a bug could do: follow the peak and forget where the stop is.
TrailUnratcheted(boost, peak) ==
  IF Sign(boost.side) * (peak - boost.entry) < Activation
  THEN boost.sl
  ELSE peak - Sign(boost.side) * Gap

\* update_boost_trail
Trail(boost, peak) ==
  IF Sign(boost.side) * (peak - boost.entry) < Activation
  THEN boost.sl
  ELSE Better(boost.side, peak - Sign(boost.side) * Gap, boost.sl)

Advances == {b \in Boosts("open") : Trail(boosts[b], Peak(b)) # boosts[b].sl}

\* The stop is compared with the broker's, so a refused modification is sent
\* again at the next pass.
TrailBoosts(kept) ==
  /\ pc = "placing" /\ todo = {}
  /\ peaks' = [b \in Boosts("open") |-> Peak(b)]
  /\ boosts' = [b \in DOMAIN boosts |->
       IF b \in Advances \ kept
       THEN [boosts[b] EXCEPT !.sl = Trail(boosts[b], Peak(b))]
       ELSE boosts[b]]
  /\ pc' = "rest"
  /\ UNCHANGED <<market, have, todo>>

-----------------------------------------------------------------------------
(* What interrupts the manager. *)

\* The process dies and comes back: the peaks are gone, the book is not.
Restart ==
  /\ pc' = (IF pc = "gated" THEN pc ELSE "rest") /\ have' = {} /\ todo' = {}
  /\ peaks' = <<>>
  /\ UNCHANGED <<market, boosts>>

\* A killed day or a finished one: _tick returns before it gets here.
Gate ==
  /\ pc = "rest"
  /\ pc' = "gated"
  /\ UNCHANGED <<market, boosts, peaks, have, todo>>

\* Midnight at the broker: the day's orders expire, the passes resume.
NewDay ==
  /\ pc = "gated"
  /\ pc' = "rest"
  /\ legs' = [t \in DOMAIN legs |->
       IF legs[t].st = "pending" THEN GoneLeg(legs[t], "gone") ELSE legs[t]]
  /\ boosts' = [b \in DOMAIN boosts |->
       IF boosts[b].st = "pending" THEN GoneBoost ELSE boosts[b]]
  /\ fresh' = {}
  /\ UNCHANGED <<mkt, peaks, have, todo>>

Pass ==
  \/ \E kept \in SUBSET Cancellable : Cancel(kept)
  \/ ReadPositions
  \/ \E p \in todo : SendLost(p) \/ Send(p)
  \/ \E kept \in SUBSET Advances : TrailBoosts(kept)

Next ==
  \/ \E swept \in SUBSET Stale : Place(swept)
  \/ \E p \in Prices, slip \in Slips : Move(p, slip)
  \/ \E t \in In("open") : Close(t)
  \/ Pass
  \/ Restart
  \/ Gate
  \/ NewDay

Spec == Init /\ [][Next]_vars

-----------------------------------------------------------------------------
\* Every leg and boost is a well-formed order, a filled one no better than its
\* price, and the pass holds parents only between its reads.
TypeOK ==
  /\ mkt \in Prices
  /\ legs \in Seq([straddle : Nat, side : Sides, origin : Int, entry : Int,
                   st : {"pending", "open", "swept", "gone"}])
  /\ boosts \in Seq([parent : 0..Len(legs), idx : 0..Len(Offsets), again : BOOLEAN, side : Sides,
                     price : Int, sl : Int, entry : Int, st : {"pending", "open", "gone"}])
  /\ fresh \subseteq Prices
  /\ pc \in {"rest", "read", "placing", "gated"}
  /\ have \subseteq DOMAIN legs /\ todo \subseteq [parent : DOMAIN legs, side : Sides, entry : Int,
                                              idx : Idx, again : BOOLEAN]
  /\ DOMAIN peaks \subseteq DOMAIN boosts

\* After a placement whose cancels went through, a leg left behind by an anchor
\* an interval or more away has an open position on the other side: no lone
\* leftover can fill on a pullback (the scratch trades the sweep is for).
NoLoneLeftover ==
  \A a \in fresh, t \in In("pending") :
      Dist(legs[t].origin, a) >= Interval => \E p \in Positions : p.side # legs[t].side

\* MAX_BOOSTS: however fills, closes, lost answers and restarts fall between the
\* manager's reads and sends, a parent never carries the same boost twice, but
\* for the one that was sent again when its answer was lost.
OneFleet ==
  \A b, c \in Boosts("pending") \cup Boosts("open") :
      b # c => <<boosts[b].parent, boosts[b].idx, boosts[b].again>>
                 # <<boosts[c].parent, boosts[c].idx, boosts[c].again>>

\* The trail is one way (update_boost_trail: "never loosen the stop"), though a
\* restart forgets the peak it follows.
BoostStopOneWay ==
  [][\A b \in Boosts("open") :
       boosts'[b].st = "open" => Reached(boosts[b].side, boosts[b].sl, boosts'[b].sl)]_vars

\* A boost whose parent is gone does not rest on: as long as the passes reach
\* the manager it is cancelled, whatever was refused before and however often
\* the process restarts.
OrphansGo ==
  \A n \in 1..MaxBoosts :
    (n \in DOMAIN boosts /\ n \in Orphans) ~> (n \notin Orphans \/ pc = "gated")

\* The main loop runs pass after pass, a process that dies comes back, and the
\* broker does not refuse a cancel for ever.
FairSpec == Spec /\ WF_vars(Pass) /\ SF_vars(Cancel({}))
=============================================================================
