------------------------------ MODULE Position ------------------------------
(***************************************************************************)
(* What the bot keeps of an anchor leg (strategy.Position), whoever drives *)
(* it: closed bars alone (LegStop), or the live bot with a broker and a    *)
(* state file beside it (LiveStop).                                        *)
(***************************************************************************)
EXTENDS LadderRules

CONSTANTS
  Prices,   \* the prices bars are made of, or the market visits
  Hold      \* length of the hold after the fill, in bars (cfg.freeze_minutes)

ASSUME PricesAreInts == Prices \subseteq Int
ASSUME HoldIsNat == Hold \in Nat

VARIABLES
  role,     \* "normal": first fill; "rescue": the twin that filled second
  sl,       \* pos.current_sl
  peak,     \* pos.max_fav
  age       \* bars since the fill at the last bar handled, counted up to Hold

Frozen(a) == a < Hold
=============================================================================
