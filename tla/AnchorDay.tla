----------------------------- MODULE AnchorDay -----------------------------
(***************************************************************************)
(* What the anchor engine promises of its straddles, seen from the broker: *)
(* a leg of an anchor has one order a day, which is filled, swept or taken *)
(* back, or of which the placement loses sight; an anchor is marked placed *)
(* when a leg of it stands, or when one is bought at the market in place   *)
(* of the straddle; from then on no leg of it is placed that day, and the  *)
(* confirmation of a confirmed anchor may send each leg again, once.       *)
(* AnchorBook implements it.                                               *)
(***************************************************************************)

CONSTANTS
  Labels,     \* the anchors of a day
  Sides,      \* the two legs of a straddle
  Days,
  Confirmed   \* the anchors whose placement is read back

\* A leg, and the same leg sent again.
Legs == [label : Labels, side : Sides, day : Days, kind : {"leg", "again"}]

VARIABLES
  life,     \* the stage of each leg's order: "none", also once it is taken back or
            \* out of sight, "pending", "swept", "open", "closed"
  marked    \* the anchors marked placed, with the day

Init == life = [x \in Legs |-> "none"] /\ marked = {}

Marked(x) == <<x.label, x.day>> \in marked
Twins(x, y) == x.label = y.label /\ x.day = y.day
MaySend(x) == IF x.kind = "leg" THEN ~Marked(x) ELSE Marked(x) /\ x.label \in Confirmed

\* A leg is accepted.
Accept(x) ==
  /\ MaySend(x) /\ life[x] = "none"
  /\ life' = [life EXCEPT ![x] = "pending"]
  /\ UNCHANGED marked

\* The straddle stands.
Mark(x) ==
  /\ ~Marked(x) /\ life[x] # "none"
  /\ marked' = marked \cup {<<x.label, x.day>>}
  /\ UNCHANGED life

\* A leg the market has passed is bought at the market, instead of a straddle.
Buy(x) ==
  /\ ~Marked(x) /\ \A y \in Legs : Twins(x, y) => life[y] = "none"
  /\ life' = [life EXCEPT ![x] = "open"]
  /\ marked' = marked \cup {<<x.label, x.day>>}

\* A placement that is not marked yet is taken back, or leaves what it sent.
Lose ==
  /\ \E S \in SUBSET {x \in Legs : ~Marked(x)} :
       life' = [x \in Legs |-> IF x \in S THEN "none" ELSE life[x]]
  /\ UNCHANGED marked

\* Some orders go from one stage to the next, and no other order changes.
Move(from, to) ==
  /\ \E S \in SUBSET Legs :
       life' = [x \in Legs |-> IF x \in S /\ life[x] = from THEN to ELSE life[x]]
  /\ UNCHANGED marked

Fill == Move("pending", "open")
Close == Move("open", "closed")
Cancel == Move("pending", "none")
Sweep == Move("pending", "swept")

Next ==
  \/ \E x \in Legs : Accept(x) \/ Mark(x) \/ Buy(x)
  \/ Lose \/ Fill \/ Close \/ Cancel \/ Sweep

Spec == Init /\ [][Next]_<<life, marked>>
=============================================================================
