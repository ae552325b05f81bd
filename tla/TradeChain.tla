----------------------------- MODULE TradeChain -----------------------------
(***************************************************************************)
(* What an engine that trades one ticket at a time promises for its day,   *)
(* seen from the broker: one position at a time, so many entries, none     *)
(* after the loss that ends the chain.  A slip is a failure the engine     *)
(* cannot see (a wrong answer of the broker, a restart that forgets); each *)
(* may cost one more position, one more round of entries and Toll more     *)
(* losses, and no more than that.  NonOco and Fetcher implement it.        *)
(***************************************************************************)
EXTENDS Naturals

CONSTANTS
  MaxTrades,  \* entries a day
  Toll        \* losses a failure may cost

VARIABLES
  taken,   \* entries so far
  open,    \* positions open at the broker
  losses,  \* closes at a loss that end the chain
  slips    \* failures so far

Init == taken = 0 /\ open = 0 /\ losses = 0 /\ slips = 0

Slips == slips' \in {slips, slips + 1}

Take ==
  /\ open <= slips' /\ losses <= Toll * slips' /\ taken < MaxTrades * (1 + slips')
  /\ taken' = taken + 1 /\ open' = open + 1
  /\ UNCHANGED losses

Close ==
  /\ open > 0
  /\ open' = open - 1
  /\ losses' \in {losses, losses + 1}
  /\ UNCHANGED taken

Next == Slips /\ (Take \/ Close \/ UNCHANGED <<taken, open, losses>>)

Spec == Init /\ [][Next]_<<taken, open, losses, slips>>

(* The promise in numbers, what a reader wants to know of the day: how     *)
(* much may be open, entered and lost, given the slips.                    *)
Promise ==
  /\ open <= 1 + slips
  /\ taken <= MaxTrades * (1 + slips)
  /\ losses <= 1 + (1 + Toll) * slips
=============================================================================
