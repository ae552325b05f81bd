------------------------------- MODULE NonOco -------------------------------
(***************************************************************************)
(* aureon_non_oco.py: one anchor's session on one day.  A touched level    *)
(* opens an observation window, closed candles confirm a side, a market    *)
(* entry rides a ladder of stops, and a close that did not lose opens the  *)
(* next window.  The live driver and the paper driver share the session;   *)
(* the model runs either.  The broker may stop a position out whenever the *)
(* driver is not running; inside a pass, and with every other failure the  *)
(* engine cannot see, that counts as a slip.  Prices are points in the     *)
(* position's favour; a stop below zero loses.                             *)
(***************************************************************************)
EXTENDS Integers, FiniteSets, Functions

CONSTANTS
  NCandles,          \* anc_n_candles (or anc_closes_n)
  Sl, LockAt, LockTo, Target, TrailDist,  \* the exit ladder
  MaxPeak,           \* bound: points a position ever runs
  OppositeCandles,   \* anc_opposite_candles, 0 is off
  Flips,             \* anc_opposite_action is "flip"
  MaxChain,          \* anc_max_chain
  StopOnLoss,        \* anc_chain_stop_on_loss
  MaxEntries,        \* bound: entries in a behaviour (restarts forget the count)
  MaxSlips           \* bound: failures the engine cannot see

ASSUME NonOcoBounds ==
  /\ {NCandles, Sl, MaxChain} \subseteq Nat \ {0}
  /\ {LockAt, LockTo, Target, TrailDist, MaxPeak, OppositeCandles, MaxEntries} \subseteq Nat
  /\ LockAt <= Target /\ LockTo <= Target
  /\ Flips \in BOOLEAN /\ StopOnLoss \in BOOLEAN
  /\ MaxChain <= MaxEntries
  /\ MaxSlips \in Nat

VARIABLES
  paper,    \* the trader runs in paper mode
  clock,    \* "early": within the drift; "open"; "cutoff"; "flat"
  allow,    \* allow_new_entries
  held,     \* positions of this anchor: ticket -> stop
  entries,  \* entries filled today; also the last ticket
  losses,   \* history: links closed at a loss, scratches and flips aside
  deal,     \* the deal history says the session's last ticket lost
  sess,     \* the session
  pc,       \* where the driver is
  slips     \* history: failures so far

broker == <<held, entries, losses, deal>>
day == <<paper, clock, allow>>
vars == <<day, broker, sess, pc, slips>>

Slip == slips < MaxSlips /\ slips' = slips + 1

NoSession == [state |-> "NONE", trades |-> 0, run |-> 0, pending |-> FALSE,
              tk |-> 0, off |-> -Sl, peak |-> 0, opp |-> 0]

Late == clock \in {"cutoff", "flat"}

\* What a bug could do: close at the flat hour only while entries are allowed.
PastFlatAllowed == clock = "flat" /\ allow

\* now >= flat_ts.
PastFlat == clock = "flat"

\* The type of the state; the candles counted against a position stay within
\* what the opposite exit looks at (_note_opposite).
TypeOK ==
  /\ paper \in BOOLEAN /\ allow \in BOOLEAN /\ losses \in 0..MaxEntries /\ deal \in BOOLEAN
  /\ clock \in {"early", "open", "cutoff", "flat"}
  /\ entries \in 0..MaxEntries
  /\ DOMAIN held \subseteq 1..entries
  /\ \A t \in DOMAIN held : held[t] \in -Sl..MaxPeak
  /\ sess \in [state : {"NONE", "WAIT_TOUCH", "OBSERVE", "IN_POS", "DONE"},
               trades : 0..MaxChain, run : 0..NCandles, pending : BOOLEAN,
               tk : 0..MaxEntries, off : -Sl..MaxPeak, peak : 0..MaxPeak,
               opp : 0..OppositeCandles]
  /\ pc \in {"idle", "open", "opposite", "reverse"}
  /\ slips \in 0..MaxSlips

Init ==
  /\ paper \in BOOLEAN /\ allow = TRUE
  /\ clock = "early"
  /\ held = <<>> /\ entries = 0 /\ losses = 0 /\ deal = FALSE
  /\ sess = NoSession
  /\ pc = "idle" /\ slips = 0

-----------------------------------------------------------------------------
(* The session's own steps.                                                *)

\* ladder_sl_offset.
LadderOff(peak) ==
  IF peak >= Target THEN IF peak - TrailDist > Target THEN peak - TrailDist ELSE Target
  ELSE IF peak >= LockAt THEN LockTo ELSE -Sl

\* What a bug could do: trail the best point without the ratchet.
LadderLoose(s, fav) == [s EXCEPT !.peak = fav, !.off = LadderOff(fav)]

\* _ladder: the peak and the stop only grow.
Ladder(s, fav) ==
  LET peak == IF fav > s.peak THEN fav ELSE s.peak
      off  == IF LadderOff(peak) > s.off THEN LadderOff(peak) ELSE s.off
  IN [s EXCEPT !.peak = peak, !.off = off]

\* _open_observation.
Observing(s) == [s EXCEPT !.state = "OBSERVE", !.run = 0, !.pending = FALSE]

Finished(s) == [s EXCEPT !.state = "DONE", !.pending = FALSE]

\* What a bug could do: chain on after a losing link.
ClosedOn(s, loss, neutral) == IF s.trades >= MaxChain THEN Finished(s) ELSE Observing(s)

\* _close_and_chain: the cap, a losing link, or a new window at the exit price.
Closed(s, loss, neutral) ==
  IF s.trades >= MaxChain \/ (StopOnLoss /\ loss /\ ~neutral)
  THEN Finished(s) ELSE Observing(s)

\* _start_position.
InPos(s) ==
  [state |-> "IN_POS", trades |-> s.trades + 1, run |-> 0, pending |-> FALSE,
   tk |-> entries + 1, off |-> -Sl, peak |-> 0, opp |-> 0]

-----------------------------------------------------------------------------
(* The broker's side of an entry and of a close.                           *)

\* place_market_order is filled.
Filled ==
  /\ entries < MaxEntries
  /\ entries' = entries + 1
  /\ held' = [t \in DOMAIN held \union {entries + 1} |->
                IF t = entries + 1 THEN -Sl ELSE held[t]]
  /\ UNCHANGED <<losses, deal>>

\* Ticket t is closed with this result.  A scratch or a flip is neutral.
Gone(t, loss, neutral) ==
  /\ held' = Restrict(held, DOMAIN held \ {t})
  /\ losses' = IF loss /\ ~neutral THEN losses + 1 ELSE losses
  /\ deal' = IF t = sess.tk THEN loss ELSE deal
  /\ UNCHANGED entries

\* close_position at the market; a refusal stays unnoticed.
MarketClose(t, neutral) ==
  \/ t \in DOMAIN held /\ (\E loss \in BOOLEAN : Gone(t, loss, neutral)) /\ UNCHANGED slips
  \/ ~paper /\ t \in DOMAIN held /\ UNCHANGED broker /\ Slip
  \/ t \notin DOMAIN held /\ UNCHANGED <<broker, slips>>

\* The stop at the broker is hit; a gap fills it at a loss.
BrokerStop(t) ==
  /\ ~paper
  /\ t \in DOMAIN held
  /\ IF pc = "idle" THEN UNCHANGED slips ELSE Slip
  /\ \E loss \in {held[t] < 0, TRUE} : Gone(t, loss, FALSE)
  /\ UNCHANGED <<day, sess, pc>>

\* Whoever closes the engine's positions from outside the session: !nno flat,
\* the kill switch (close_all).
CloseAll ==
  /\ ~paper /\ pc = "idle"
  /\ \E t \in DOMAIN held : MarketClose(t, FALSE)
  /\ UNCHANGED <<day, sess, pc>>

-----------------------------------------------------------------------------
(* The driver, once for every closed M1 bar.                               *)

\* drive: the session is made within the drift of its anchor.
ArmSession ==
  /\ pc = "idle" /\ sess.state = "NONE"
  /\ clock = "early" /\ allow
  /\ sess' = [NoSession EXCEPT !.state = "WAIT_TOUCH"]
  /\ UNCHANGED <<day, broker, pc, slips>>

\* _manage_session_live, the open ticket is gone: the exit comes from the deal
\* history; without one it is taken to be the stop the session believes in.
NoticeExit ==
  /\ ~paper /\ pc = "idle" /\ sess.state = "IN_POS"
  /\ \/ sess.tk \notin DOMAIN held /\ sess' = Closed(sess, deal, FALSE) /\ UNCHANGED slips
     \/ sess' = Closed(sess, sess.off < 0, FALSE) /\ Slip
  /\ UNCHANGED <<day, broker, pc>>

\* It is still open, or an exception hides that it is not (_position_open).
FindOpen ==
  /\ pc = "idle" /\ sess.state = "IN_POS"
  /\ IF sess.tk \in DOMAIN held THEN UNCHANGED slips ELSE Slip
  /\ pc' = "open"
  /\ UNCHANGED <<day, broker, sess>>

\* At the flat hour the position is closed, in paper mode for good.
FlatClose ==
  /\ pc = "open" /\ PastFlat
  /\ MarketClose(sess.tk, FALSE)
  /\ \E loss \in BOOLEAN :
       sess' = IF paper THEN Finished(sess) ELSE Closed(sess, loss, FALSE)
  /\ pc' = "idle"
  /\ UNCHANGED day

\* Paper mode tests the stop that was in force when the bar began.
PaperStop ==
  /\ paper /\ pc = "open" /\ ~PastFlat
  /\ Gone(sess.tk, sess.off < 0, FALSE)
  /\ sess' = Closed(sess, sess.off < 0, FALSE)
  /\ pc' = "idle"
  /\ UNCHANGED <<day, slips>>

\* _note_opposite counts only before the first lock.
Against(s, against) ==
  IF OppositeCandles = 0 \/ s.off > -Sl THEN s.opp ELSE IF against THEN s.opp + 1 ELSE 0

\* The ladder and the push of its stop, which the broker may refuse; then the
\* candles against the position.
Manage ==
  /\ pc = "open" /\ ~PastFlat
  /\ \E fav \in 0..MaxPeak, against \in BOOLEAN, pushed \in BOOLEAN :
       LET s   == Ladder(sess, fav)
           opp == Against(s, against)
       IN /\ sess' = [s EXCEPT !.opp = opp]
          /\ held' = IF sess.tk \in DOMAIN held /\ s.off # sess.off /\ (pushed \/ paper)
                     THEN [held EXCEPT ![sess.tk] = s.off] ELSE held
          /\ pc' = IF OppositeCandles > 0 /\ s.off = -Sl /\ opp >= OppositeCandles
                   THEN "opposite" ELSE "idle"
  /\ UNCHANGED <<day, entries, losses, deal, slips>>

\* _do_opposite_live and its paper twin: a scratch chains on, a flip also
\* reverses while there is a slot and it is not late.
Opposite ==
  /\ pc = "opposite"
  /\ MarketClose(sess.tk, TRUE)
  /\ IF Flips /\ sess.trades < MaxChain /\ ~Late
     THEN pc' = "reverse" /\ UNCHANGED sess
     ELSE pc' = "idle" /\ sess' = Closed(sess, FALSE, TRUE)
  /\ UNCHANGED day

\* The reverse of a flip; it does not ask allow_new_entries.  A lost answer
\* reads as a rejection.
Reverse ==
  /\ pc = "reverse"
  /\ \/ Filled /\ UNCHANGED slips /\ sess' = InPos(sess)
     \/ ~paper /\ UNCHANGED <<broker, slips>> /\ sess' = Observing(sess)
     \/ ~paper /\ Filled /\ Slip /\ sess' = Observing(sess)
  /\ pc' = "idle"
  /\ UNCHANGED day

\* A setup bar: blocked entries freeze it in live mode.
SetupBar == pc = "idle" /\ sess.state \in {"WAIT_TOUCH", "OBSERVE"} /\ (paper \/ allow)

\* The flat hour or the end of the window ends the session.
Expire ==
  /\ SetupBar /\ (clock = "flat" \/ sess.state = "OBSERVE")
  /\ sess' = Finished(sess)
  /\ UNCHANGED <<day, broker, pc, slips>>

\* A touched level opens the window (_advance_setup).
Touch ==
  /\ SetupBar /\ clock # "flat" /\ sess.state = "WAIT_TOUCH"
  /\ sess' = Observing(sess)
  /\ UNCHANGED <<day, broker, pc, slips>>

Watching == SetupBar /\ clock # "flat" /\ sess.state = "OBSERVE" /\ ~sess.pending

\* A candle that does not complete the run: longer, turned, a doji, or one the
\* EMA filter rejects on a chained link.
Count ==
  /\ Watching
  /\ \E run \in {0, 1, sess.run + 1} :
       /\ run < NCandles
       /\ sess' = [sess EXCEPT !.run = run]
  /\ UNCHANGED <<day, broker, pc, slips>>

\* A complete run is a signal before the cutoff.
Confirmed == Watching /\ sess.run + 1 >= NCandles /\ ~Late

\* Live: a market order at once; it may be rejected, and a lost answer reads
\* as a rejection.
Signal ==
  /\ Confirmed /\ ~paper
  /\ \/ Filled /\ UNCHANGED slips /\ sess' = InPos(sess)
     \/ UNCHANGED <<broker, slips>> /\ sess' = [sess EXCEPT !.run = 0]
     \/ Filled /\ Slip /\ sess' = [sess EXCEPT !.run = 0]
  /\ UNCHANGED <<day, pc>>

\* Paper: the entry waits for the next bar's open, and that bar is managed.
PaperSignal ==
  /\ Confirmed /\ paper
  /\ sess' = [sess EXCEPT !.run = 0, !.pending = TRUE]
  /\ UNCHANGED <<day, broker, pc, slips>>

PaperEnter ==
  /\ SetupBar /\ clock # "flat" /\ sess.pending
  /\ Filled
  /\ sess' = InPos(sess)
  /\ pc' = "open"
  /\ UNCHANGED <<day, slips>>

-----------------------------------------------------------------------------
\* The clock of the day.
Tick ==
  /\ pc = "idle" /\ clock # "flat"
  /\ clock' = CASE clock = "early" -> "open" [] clock = "open" -> "cutoff"
                [] clock = "cutoff" -> "flat"
  /\ UNCHANGED <<paper, allow, broker, sess, pc, slips>>

\* Pause, resume, the Friday window, the day lock.
Allow ==
  /\ pc = "idle"
  /\ allow' = ~allow
  /\ UNCHANGED <<paper, clock, broker, sess, pc, slips>>

\* The sessions live in memory only.
Restart ==
  /\ Slip
  /\ sess' = NoSession /\ pc' = "idle"
  /\ UNCHANGED <<day, broker>>

Bar == NoticeExit \/ FindOpen \/ FlatClose \/ PaperStop \/ Manage \/ Opposite \/ Reverse
       \/ Expire \/ Touch \/ Count \/ Signal \/ PaperSignal \/ PaperEnter

Next == ArmSession \/ Bar \/ CloseAll \/ (\E t \in 1..MaxEntries : BrokerStop(t))
        \/ Tick \/ Allow \/ Restart

Spec == Init /\ [][Next]_vars

\* The loop drives every bar and the day passes.
FairSpec == Spec /\ WF_vars(Bar) /\ WF_vars(Tick)

-----------------------------------------------------------------------------
(* Properties.                                                             *)

\* The broker never sees more than the chain promises: one position at a time,
\* at most MaxChain entries, none after a losing link; each failure the engine
\* cannot see costs at most one position, one loss and one more chain.
Chain == INSTANCE TradeChain
  WITH MaxTrades <- MaxChain, Toll <- 1,
       taken <- entries, open <- Cardinality(DOMAIN held),
       losses <- IF StopOnLoss THEN losses ELSE 0

ImplementsChain == Chain!Spec

\* No pass takes back what a rung has secured at the broker, and no refused
\* push lets a later one do so.
StopOneWay ==
  [][\A t \in DOMAIN held \intersect DOMAIN held' : held'[t] >= held[t]]_vars

\* After the flat hour every position the engine knows is closed for good; what
\* is left over is one position a failure at most.
FlatAtNight == clock = "flat" ~> [](Cardinality(DOMAIN held) <= slips)

=============================================================================
