# AUREON: a verification development

TLA+ models, TLC runs and TLAPS proofs for the AUREON XAUUSD bot: an MT5 trading
bot in Python that places a straddle of two stop orders at fixed times of the
day (anchors A1..A5), manages the legs with a profit ladder and a trailing
stop, adds rally boosts to a winning leg and rescue boosts behind a filled one, and carries three more engines (Rogue,
Fetcher, New Non-OCO) in the same loop, beside a watchdog that restarts and
updates it. Every definition is translated from the source; `PROJECT.json` maps
it to its lines. Where this text gives a line without a path, the file is the
one of its paragraph.

## 1. The system

| part | state it keeps | operations | hard behaviour |
|---|---|---|---|
| Leg stop rules (`strategy.py`) | `Position`: stop, peak, role, times | one closed M1 bar | garbage extremes, order of the checks, hold, boundaries |
| Boost stop rules (`strategy.py`, `rally.py`, `rescue.py`) | as above, `pullback_since`, the parent's stop | one closed M1 bar | gaps, four competing exits, a stop that rides on another position |
| Live trail manager (`trails.py`) | `shadow_positions`, the stop at the broker, the state file | bar-close pass: update, clamp, re-assert, time stop | refused orders, retries, crash between order and save |
| Anchor engine (`anchors.py`, `fills.py`, `risk.py`, `state.py`) | shadow maps, deferred slot, `state`, state file | capture, placement, retry, reconcile, flatten, save, restart | broker and bot interleave; half-failed placements; crashes; the day roll; commands |
| Stale-leg sweep (`stale_leg_sweep.py`) | origin tags in order comments | sweep before a placement | recognising a rescue leg by a distance; refused cancels |
| Rescue boosts (`rescue_boost.py`) | peaks only; the rest is read from the broker | cancel orphans, two stops per fill, trail | fills between two reads, refusals, restarts, skipped passes |
| Rally boosts (`fills.py`, `boosts.py`, `boosts_common.py`) | eligibility, tick streak and fired flag in the leg's shadow, in memory only | scan on every tick, before all gates; fleet at market; cap | a flag set before the orders, lost answers, a restart that forgets the boost fields |
| Loop of a pass (`live_trader._tick`, `daystops.py`) | day state in memory and file, Friday latch, day locks | the gates in their order | latches, failed queries, crash between lock and save, a slot admitted earlier |
| Switches and mirror (`p1_state.py`, `live_trader.py`) | switches in memory, `run/state.json` | command, save, recover | a save before the recovery; day roll; sleep |
| Command file (`live_trader.py`, `watchdog.py`, `bot.py`) | `run/commands.json` | append, consume | read-modify-write of two processes |
| Watchdog (`watchdog.py`, `feed_watchdog.py`) | child process, flags, restart counters, PID lock | spawn, stop, relaunch, autodeploy, feed ladder | exit codes, stale heartbeat, kills that fail, update while positions are open |
| Rogue (`rogue_monster.py`, `rogue_monster_live.py`, `rogue.py`) | legs by ticket, chains, day governor, all in memory | pass: adopt, govern, chain, trail, arm | fills between queries, lost answers, restart, day roll |
| Fetcher (`fetcher.py`, `seed_budget.py`) | one ticket, governor, trade budget, its block of the mirror | seed, enter, notice, flatten, recover | history that does not answer, restart, manual seed |
| New Non-OCO (`aureon_non_oco.py`) | a session per anchor, in memory | observe, confirm, enter, ladder, flip, chain | closes of several causes, failed lookups, restart |
| Broker adapter (`mt5_adapter.py`) | connection, time offset | send with a look at the book, resend | lost answers |

The parts meet in `LiveTrader._tick` (`live_trader.py:2417`): commands, day
roll, reconcile, boost triggers, kill switch, Friday, end of day, the engines'
drivers, the due anchor, the deferred placement, and once a minute the trail
manager. The loop is one thread; what interleaves with it is the broker, which
fills orders and closes positions at any time, the watchdog process with its
gateway thread, the operator, and a crash. Between any two calls the bot's
record may go stale, and most engines keep their record in memory only.

What makes the parts correct:

- a stop only ever moves toward the market and never promises a price that did
  not trade; the broker holds at least what the leg has earned;
- every position is in the record, every record has a position; an anchor fires
  once a day; of two twins one is the rescue leg; a parent carries one fleet of
  boosts, a leg fires one rally, and a resting boost without a parent goes away;
- an engine's day has a bounded number of positions, entries and losses, and
  what the engine cannot see (a wrong answer, a restart that forgets) costs a
  bounded amount each;
- a stop of the day holds until the next day for what enters, and has its own
  limits for what joins a position (boosts, chain stops); a Friday ends flat and verified,
  a switch is what the newest command said;
- one process trades, a hung one is replaced, a dead feed ends with a human.

The hazards list of `PROJECT.json` names where each of these can break.

## 2. Modules

| module | models | used by |
|---|---|---|
| `Extremes` | the better and the worse of two prices | `LadderRules`, `BoostStop` |
| `Position` | what the bot keeps of an anchor leg | `LegStop`, `LiveStop` |
| `LadderRules` | the stop rules as operators (`update_max_fav`, the ladder, the trail) | `LegStop`, `LiveStop` |
| `LegStop`, `LegStopProofs` | one leg driven by bars (the proofs are also about `LiveStop`, `BoostStop` and `RallyBoosts`) | |
| `BoostStop` | one boost, rally or rescue, driven by bars, with its parent's stop | |
| `RallyBoosts` | the boost triggers of one leg: eligibility, streak, fleet, cap, rehydration | |
| `LiveStop` | one leg between bot, broker and state file | |
| `AnchorDay` | what the anchor engine promises of its straddles | `AnchorBook` |
| `AnchorBook`, `AnchorBookProofs` | the anchor engine's loop, the broker's book, the clock, the state file | |
| `StaleSweep` | the rules of the sweep: what is stale, what is spared | `RescueBoost` |
| `RescueBoost`, `RescueBoostProofs` | straddles with prices, their sweep, and the rescue boosts behind their legs | |
| `DayGate`, `DayGateProofs` | the gates of one pass over the engines' exposure (the proofs are also about `Watchdog`) | |
| `CommandFile` | the command file between two processes | `Switches` |
| `Switches`, `SwitchesProofs` | the switches in memory and mirror, the loop's sleep, the recovery | |
| `Watchdog` | supervisor, gateway, bots, PID lock, feed ladder, autodeploy | |
| `TradeChain` | what a one-ticket engine promises for its day | `NonOco`, `Fetcher` |
| `NonOco`, `NonOcoProofs` | one session of the New Non-OCO engine, live and paper | |
| `Fetcher`, `FetcherProofs` | one day of the Fetcher with budget, mirror and recovery | |
| `Monster`, `MonsterProofs` | the Rogue engine | |
| `MC*` | values of the constants for TLC; `MCPositionBars` composes `LegStop` and `BoostStop`, as `update_position_on_bar` branches on `pos.boost` | |

They compose: `RescueBoost` applies the rules of `StaleSweep` (one book, one
market: the straddle's sweep and the boosts behind its legs disturb each
other), `Switches` extends `CommandFile` (the bot's and the gateway's half of
the file inside the loop that consumes it), `NonOco` and `Fetcher` are shown
to implement `TradeChain`, and `AnchorBook` to implement `AnchorDay`. `DayGate`
is what the engines' modules have around them: there an engine is only flat,
resting or holding.

Two components whose proofs share a module have disjoint names, hence the
prefixes `Live`, `Boost`, `Rally` and `Watch` of the specifications of
`LiveStop`, `BoostStop`, `RallyBoosts` and `Watchdog`.

A definition commented "What a bug could do" is a mutated form of the one after
it and belongs to no specification. A `slips` or
`crashes` variable counts the failures an engine cannot see; the bounds
`MaxSlips`, `MaxCrashes`, `MaxRestarts` limit them in a run, and the properties
are stated in terms of the count, so that they say what one failure costs.

### LadderRules, Extremes, Position, LegStop, BoostStop

Prices are signed distances from the entry, positive in the position's favour;
the code writes each rule for BUY and for SELL, and the two branches are one
here. A bar is a record of its extremes (and, for a boost, open and close). In
`LegStop` a bar also carries `real`, the best price that traded: the rules do
not see it, and it differs from `best` only where the feed is garbage, that is
further from the peak than the filter allows. `age` counts bars since the fill
and may skip (a sleeping host); only whether it is below the hold matters.
`seen` is history. `BoostStop` reads the parent's stop anew at each bar; the
parent's stop ratchets (`StopOneWay` of `LegStop`, proved as `RatchetIsOneWay`,
licenses that) and vanishes for good when the parent closes. With `boost_spec_v2` on there is no hold, which is
the instance `Hold = 0`.

### LiveStop

The broker holds `bsl`, the shadow `sl`; `BarClose` is one pass of
`_manage_trails_on_bar_close` over the leg, in the code's order: update, time
stop, clamp, compare, send, adjust or close, save. The market moves between
passes and the broker fills the stop it goes through. A stop within `Probe` of
the market is illegal. `Refused` is an answer that is no stops reject and may
come at any time. `CrashBeforeSave` is the crash between the orders and the
save, `Crash` any other; a missed bar is lost for ever. `Restart` is the
rehydration: the stop from the broker, the peak from the file.

### AnchorBook, AnchorDay

`book` is the broker's: every order ever accepted, with label, side, day and
status. `track` merges `shadow_pendings` and `shadow_positions`; "flag" is a
pending with `rescue_on_fill`. `pc` is where `_tick` stands: a call to the
broker is a step of its own, and fills, closes, the clock and a crash come in
between. `DayRoll` belongs to the step that enters the tick; `CancelPendings`
includes the slot, the lock and the save that follow in its caller. `source` is
what a restart left to rehydrate. `dropped` and `marked` are history.

The errors of a placement are these. A leg is accepted, refused, or unanswered
with no order. `AnswerLost` is the order that was accepted while its answer was
lost and the look for it missed it (it had filled, or the query failed); adapter
and slot only send again. `OrphansCancel` takes back the leg whose twin failed:
one that has filled, or whose cancel is refused, stays. `RecoveryLost` is the lost
answer of the market order that replaces a refused leg. A crash in the middle of a
placement leaves what was sent. `ConfirmResend` is `_confirm_a1_placement`: a leg of a
`Confirmed` anchor that two reads do not show pending, because it filled or the
query failed, is sent once more. An order's `kind` tells them apart: a "leg", the
same leg sent "again", or a "stray", one the placement has lost sight of.
`CancelPendings` may be refused per order, which keeps it tracked. Left out
are prices, the minutes of the late window and the retry throttle (an anchor may
be tried whenever it is due), gap mode, paper mode, test-fires and the
thresholds of the kill switch (it may strike whenever the code looks). `Faults`
says which misbehaviour an instance contains, `Commands` likewise.

`AnchorDay` knows no bot: a leg of an anchor has one order a day, which is
accepted, filled, swept, taken back, lost sight of or closed; the anchor is marked
once a leg stands, or bought at the market in place of the straddle. From then on
none of its legs is placed, and the confirmation may send each leg again, once. In
`AnchorBook` the stage of a leg (`Life`) is the state of its one order that is
neither cancelled nor a stray; two such orders at once are "twice", which is no
stage of `AnchorDay`.

### StaleSweep, RescueBoost

The market is a price; stop orders fill when it crosses them, a little beyond;
the next anchor is the market. The sweep is atomic: no leg within reach of the
market rests while it runs. Foreign orders and the comment codec are left out:
the origin of a leg is always known.

`RescueBoost` adds the boosts to the same market. The manager's pass takes its
steps in the order of the code, with the broker in between: read the pendings
and cancel the orphans, read the positions, place what is missing one order at a
time, trail. `SendLost` is the stop that was accepted and has filled before the
adapter looks for it: the adapter sends it again, and the second one is marked
`again`. The manager keeps nothing but peaks; a restart forgets them (`Restart`)
and no more. A gated day (`pc = "gated"`) is one on which `_tick` returns before
the manager. Pendings expire with their day. A failed query (`None`) is not an
action here; what it does is under "Where code and text part".

### RallyBoosts

One leg, its shadow and what it fires. A pass reconciles, scans
(`_check_boost_triggers`), sends the fleet at market one order at a time, and
enforces the cap; the market moves and positions close between any two steps.
The scan may find no tick (`ScanBlind`), the anchors may take no new risk
(`ScanBlocked`, which still enforces the cap), or the fire is not planned, not
held long enough, or stopped by break-and-hold, the FP guard or the pullback
entry (`ScanHolds`). `ScanFires` sets `boost_fired` before the first order. A sent
order is filled, refused, or filled with a lost answer ("unknown": nobody looks
for a market order). A failed query forgets leg and boosts; a restart brings back
the leg without its boost fields and the boosts as plain legs ("leg"). `boosts`
keeps all the broker ever filled, so that a second fleet would show. What a boost
does once it is filled is `BoostStop`; where the triggers stand among the gates is
`DayGate`.

### DayGate

One action per gate of `_tick`, in its order. The boost triggers come before all
of them (`BoostTriggers`, `Fleet`), and a Rogue driver with entries blocked still
sends the chain stop of a fill (`RogueChain`), in the end-of-day branch too when
`rogue_flatten_at_eod` is off. `has` is each engine's exposure,
`mem` and `disk` the day state in memory and in the state file, `part` the time
of day the pass has read (the clock moves on while it runs), `seen` the day's
result it has read. The Friday flatten is followed by a check of its own; orders
may fill in between, the check may fail, or be fooled (`blind`).
Assumptions on top of the code: the poll's rate limit is ignored; no slot is
pending at the Friday cutoff (the last anchor is at 19:30, the late window ten
minutes, A4 and A5 are skipped on Fridays); the account-level lock is off, as
shipped; a switch that is off is a driver that does not act.

### CommandFile, Switches

The file is a list; either side reads it, holds a copy (`draft`), and writes it
back. `Switches` adds the loop around the bot's side: it sleeps while the market
is closed and consumes nothing then; it rolls the day, recovers once after a
boot, and saves the mirror after every change. `text` is history: every command sent,
in order; `excused` marks the cases the code itself gives up (see "Where code
and text part").

### Watchdog

`at` is where the supervisor stands; a pass checks exit, heartbeat, flags and
deployment and takes a step for each, so a bot may exit, hang or recover between
the check and the act. Process ids are reused. A killed process may outlive its
kill (`dying`) and still hold the lock. The bot's own part is its lock, its
heartbeat, and the ladder of the feed watchdog, which ends in exit 42. A holder
that psutil cannot look at (`NoSuchProcess`, `AccessDenied`) counts as stale and
loses the lock; `robbed` remembers the live ones. `git` has the commits of one
line of master: HEAD may be behind the remote, level, or ahead of it, and then a
merge answers "up to date" and moves nothing. `MoveBack` is a forced push, after
which `tries` says no more.

### TradeChain, NonOco, Fetcher

`TradeChain` says what an engine with one ticket promises: `Take` needs no
position beyond those the slips explain, no loss beyond those, and a free slot
of the day; each slip allows one more position, one more round of entries and
`Toll` more losses. `Toll` is 1 for `NonOco` and 2 for `Fetcher`, whose recovery
may forget, in one outage, both the ticket that is open and the losing streak
that runs: each of the two can become a loss the governor does not count in time.
`Promise` is what follows in numbers, and is proved from the steps.

`NonOco` is one anchor's session of a day, for the live and the paper driver.
`held` maps the positions at the broker to their stop; the session is the
record `sess`; `deal` is what the history says of its ticket. `MarketClose` has
three outcomes: closed, refused (a slip: the code does not look), already gone. The
flip's market order may be accepted and its answer lost, which is a slip too.
Entries blocked by pause, Friday or the day lock are `allow`. `Fetcher` is one
day: money in units, the governor, the trade budget with its window of results,
`disk` for its block of the mirror, recovery from block and history. Both leave
the reasons to enter (levels, EMA, gap) a choice.

### Monster

`rogue.drive` runs `drive_monster` and nothing else of Rogue. A pass is: query
positions, query orders, adopt what is unknown, govern, count closes, chain,
trail, arm; fills and closes come between any two. A stop the market has
passed is chased at market, up to `Chase` points beyond its level, with the stop
where the level had it: a leg may lose `Risk`, which is `Cap + Chase`. Answers may
be lost several times in a row, an earlier order beside a later one, and stop
changes are refused leg by leg. What only narrows the arming
gate (bias, caution, cooldown, hours) is a choice. `slips` counts failed queries,
lost answers, restarts, day rolls, forced closes, and fills the engine acted
on blindly. What a leg has secured is a number of points; `Worst` adds them up by
counting the pairs of a leg and a point, so that no sum needs a recursion.

## 3. Runs

| run | states | shows |
|---|---|---|
| position_bars | 5,702 | a leg keeps each rung and never rests on a price that did not trade; a boost of either kind keeps backstop and entry by bars with any open and close, riding on a parent that ratchets and may close at any bar; the prices lie on and around every trigger |
| rally | 239,828 | one fleet a leg, through lost answers, failed queries, crashes and rehydration; a fleet the bot knows does not stay below its cap |
| live_stop | 28,305 | an earned legal rung rests at the broker; the resting stop is kept; the peak survives a crash; a leg that never moves ends |
| book_day | 2,810,738 | a confirmed anchor: one retry, all commands, half-failed straddles, lost answers, refused closes and cancels, three tickets: one placement a day, everything managed, nothing recorded that does not exist |
| book_night | 987,271 | two days, crashes, failed queries, refused closes and cancels: one rescue leg a pair; the end of the day empties the book |
| hedges | 464,761 | two straddles, their sweep and their boosts: one fleet a parent, a one-way trail, no boost left behind, no leftover alone |
| watchdog | 1,030,480 | one trader, one deployment stop for a commit that is not deployed, a hung bot replaced, a dead feed ends with a human |
| monster | 491,600 | bounded lots, bounded loss, one side, stops that only tighten, every leg known again |
| non_oco | 835,888 | a session implements `TradeChain`, keeps its stops, is flat after its hour |
| fetcher | 1,391,546 | the Fetcher's day implements `TradeChain`; its loss stop and budget hold |
| switches | 565,916 | a switch is what the newest command said; no command stays unread |
| day_gate | 1,304,131 | stops hold for their day; a Friday ends flat, and once latched stays flat |

No run lists a type invariant: each module has one (`TypeOK`, or `LiveTypeOK`,
`BoostTypeOK`, `RallyTypeOK`, `WatchTypeOK`), every run also passes with it added, and the proofs
use it.

Every property has a mutant: the operator marked "What a bug could do" before
the definition it mutates breaks it within the run's own bounds, so the case a
property is about happens there.

### Bounds

`LegStop` and `LiveStop` are bounded by their price sets alone: every
comparison in the rules is against a sum of constants and at most one earlier
extreme, so the values on and next to each sum reach every branch.
`LiveStop`'s prices are a deep loss just short of the stop, a small gain below
the time stop's peak, one just below the first rung, and one between or beyond
each of the rungs. `BoostStop`'s are the edges of both kinds.

Days and tickets bound `AnchorBook`: three tickets are a straddle and one order
too many, the least that can break "one placement a day": a stray, a leg sent
again, or a second placement. `book_day` has one anchor, A1, whose placement is
confirmed, and one day; a placement starts only when the bound leaves room for
all its legs, and a stray takes no leg's room. One retry reaches the retry and its
exhaustion. `book_night` has two days, which are the roll with a straddle over it.
`hedges` has two straddles an interval apart, the least for a leftover of the first
to meet the second, and two boosts, one on either side of a leg's other edge; its
distances are scaled (see `MCRescueBoost`) so that the rescue test of the sweep
finds something to spare, which at the shipped ones it does not; a leg fills once,
so the run needs no bound on time. `rally` has the shipped distances, a hold of three
ticks and a fleet of two; its prices are below the fleet's stop, in the dead band,
at the arm, and above it, so that a fleet whose fill slipped breaches the cap before
its stops are hit.

`Watchdog` needs two process ids: a survivor of a kill and its successor; ids are
reused, so restarts are not bounded; two commits put master behind HEAD, level with
it or ahead. `Monster`: a chase of one point beside a stop of one; four tickets are an entry, its chain, and a duplicate of
each; one slip shows what a failure costs, and no property is stated only for
none but `OneSide`. `NonOco`: a ladder of three stages over five points, two
links a chain, two slips, seven entries, which is more than both can buy.
`Fetcher`: two losses in a row pause it, three units stop it; a close may lose one
or two, for with two alone the stop would hide that one outage can cost two
streaks. Six entries exceed the cap of four, so that one slip's second round is
begun. `Switches`: three
commands are two on the same engine and one on another; two days and two crashes
give a boot after a roll and one after that. `DayGate` has a Friday and a
Monday, two slips and a crash.

Deadlock is not checked: a closed leg, a day at the end of its tickets or a
stopped watchdog really stop.

### Fairness

- `LiveStop`: the loop runs the pass at every bar (strong, since the leg may be
  down in between), a crashed bot is restarted, and a close that is sent at
  every bar is not refused for ever.
- `AnchorBook`: the loop and the clock run, a crashed bot is restarted, and the
  broker refuses neither every close nor every cancel for ever. No fill and no close at the broker
  is assumed. `EodFlat` supposes that crashes end at some time.
- `RescueBoost`: the pass goes on (weak), and a cancel that is sent at every
  pass is not refused for ever (`SF` of `Cancel({})`, the pass in which none is
  refused). On a gated day `OrphansGo` demands nothing.
- `RallyBoosts`: the pass goes on (weak), the feed does not fail at every scan and
  the broker does not refuse a close at every enforcement of the cap (strong, `Scan`
  and `EnforceCap({})`).
- `DayGate`: the pass and the restart. Closes and checks may fail up to the
  slips, which are bounded; the crash likewise.
- `Watchdog`: the supervisor's loop, the ageing of a heartbeat nobody renews,
  each bot's own next step, and that a killed process dies in the end. Hanging,
  exiting, feeds and pushes are not fair.
- `Switches`: the loop (strong: a crash may interrupt it, and the bot is
  restarted), the gateway's second half of a write, and a market that opens
  again. Nobody is obliged to send.
- `NonOco`: every closed bar drives the session, the day passes. `Fetcher`: the
  recovery after a boot and the flatten after the end of the day, which the loop
  repeats. `Monster`: the pass.

### Where code and text part

A comment, a docstring or a test promises each of the following; the model shows
the code does otherwise, and the properties are worded beside it. The first four
were found as counterexamples of `AnchorBook` and the sweep.

Anchors and straddles:

- "One placement": one leg filled while its twin is refused, or one whose cancel is
  refused, is neither tracked nor marked (`anchors.py:910`, against `:140`); an
  order whose answer was lost (`mt5_adapter.py:476-517`, `:684-733`) is sent again
  by adapter and slot (`anchors.py:1011-1040`). In each case the anchor is placed
  again beside it. `OnePlacementPerDay` and `AllManaged` are checked with these
  faults and except the stray itself.
- The confirmation of A1 means to repair a leg that is missing (`anchors.py:1082`),
  but a leg that has just filled is missing from the pendings too, and is sent
  again (`:1126`): the side stands twice. The new order is recorded if it is seen
  pending; the old ticket stays on record.
- The mark survives a crash, the record of the orders does not: a crash between
  mark and save (`anchors.py:851`) leaves orders resting untracked, though
  `state.py:71` means the pendings to survive.
- A flatten that meets a pending filling before its cancel (`risk.py:205`,
  against `:129-130`) forgets the position.
- The rescue leg of an open position is "never swept" (`stale_leg_sweep.py:10-11`),
  but it is recognised by a twin 20 away (`:179`), and twins rest 36 apart with the
  shipped trigger of 18: an open twin is never recognised (theorem `TwinIsUnseen`),
  and its rescue leg goes once the next anchor is an interval away.
- A failed position query is read as an empty book (`fills.py:118`): every leg is
  forgotten. `AllManaged` is checked without this fault, `TwinRolesDiffer` with it.
- A captured anchor goes out in spite of a later pause (`live_trader.py:2703`),
  and a missed one may still go out from the slot (`anchors.py:251`).
- `boost_ride_with_parent` lets an armed rally boost's stop lie below
  `lock_floor` while the parent is open.
- When the new stop is through the market, the clamp (`trails.py:373`) falls back
  to the old stop, not to the lock that is earned; `LegalRungRests` excepts it. A
  stop not sent stays in the shadow (`:185`), so an adjusted retry may put a stop
  next to the market; `BrokerStopKeeps` bounds what that gives back.

Rally boosts (`fills.py`, `boosts.py`, `boosts_common.py`):

- The arm must hold for "consecutive ticks" (`fills.py:762`): a tick that is
  skipped (blocked, or no price), and a swing to the losing arm, which plans
  nothing, leave the streak as it was.
- The cap is on "combined realized+open loss" (`boosts.py:201`); the code adds up
  the boosts that are open in the shadow, so a boost stopped out no longer counts.
- After a restart a boost is rehydrated without its boost fields
  (`fills.py:165-175`): it runs on the leg's ladder, outside the cap. A failed query
  forgets the fleet altogether. `CapHolds` is about the fleets the bot knows.

Rescue boosts (`rescue_boost.py`):

- A stop that was accepted and has filled in the half second before the adapter
  looks is sent again (`mt5_adapter.py:479-504`): the parent carries that boost
  twice. `OneFleet` tells the second one apart.
- A failed query (`None`, `:312`) is an empty book: a second fleet is placed, or
  every boost is cancelled.
- A parent "already carrying RB orders is never re-boosted" (`:165`), but once
  its boosts closed or expired they are placed again. `place_pending` answers -1
  for a rejection, which counts as placed: a single rejected leg is never
  retried, two are at each tick.
- With the shipped distances boost #2 (25) lies beyond the parent's stop (18,
  `config.py:13`), though `config.py:29` says both fill before it.
- On a killed, paused or finished day `_tick` returns before the manager
  (`live_trader.py:2717`): orphans rest until the day's orders expire, and open
  boosts, which are in no shadow map, are closed by the Friday resync alone.
- The docstring says off by default (`:31`); `config.py:31` has it on.

Loop, day stops, Friday (`live_trader.py`):

- A killed pass returns before the Friday poll and the end of the day: an
  incomplete kill flatten rides the weekend, against "POLL until" (`:2537-2543`).
  `EodFlat` and `FridayFlat` except a killed day. Rogue's resting stops survive
  the kill and are then not managed ("no more trades today", `:2522`). Boost
  triggers run before all gates (`:2475`) and a Rogue driver with
  `allow_new_entries=False` still sends the chain stop of a fill
  (`rogue_monster_live.py:406-409`), on a Friday and after the end of the day too:
  `StopsHold` says no engine enters, and separately what stops a boost and a chain.
- "A query failure is NEVER treated as flat" (`:888`), but `None` becomes an
  empty list and is; an order that fills between the two reads is missed. That is
  the exception `~blind` of `DoneMeansFlat`.
- `fetch_day_deals` returns "None if the query itself fails"
  (`pnl_source.py:163`), but a failed read is an empty list: for that tick the
  day's result is 0 and the loss halt is off. The profit lock is latched.
- The day locks are "persisted via p1_state" (`daystops.py:32`), but only the
  state file has them, and the override saves only the mirror: a crash before the
  next save loses it.
- An interrupt from the keyboard flattens.

Switches and commands:

- "A toggle must survive a restart" (`live_trader.py:1056`): not across a day
  roll, nor when a command or a save comes between boot and recovery, nor when
  the weekend's sleep saves first. `SwitchIsNewest` excepts these by `excused`;
  `paused` is not saved at all.
- "A command runs exactly once" (`:2423`): the file has two writers without a
  lock, so commands are lost and repeated; weekend commands wait for the market
  though the comment there (`:2418`) says they must not.
- A flatten sent at boot runs before the first reconcile and closes nothing.

Watchdog (`watchdog.py`, `feed_watchdog.py`):

- The validated commit (`:241`) need not be the merged one (`:276`); the flat
  status may be out of date.
- A bot stuck before its first heartbeat is never judged: the file of the last
  bot is removed only when the watchdog itself starts.
- "Auto-restart on crash": every exit other than 42 stops the watchdog.
  A self-restart that is suppressed leaves `restarted` set
  (`feed_watchdog.py:163`, `:100`), so the ladder does not climb again. `/restart`
  does not reset the count of self-restarts. The soft restart writes a file
  nobody reads (`live_trader.py:2026`).
- Two starters that find the same stale PID file can both win (`state.py:107`);
  the watchdog starts one at a time. A live holder psutil cannot look at counts as
  stale (`state.py:126-129`): then two bots trade. `OneTrader` excepts the one
  whose lock was taken.
- With HEAD ahead of master, `merge --ff-only` answers 0 and moves nothing; the
  deployed commit still differs from the remote's, and the same commit stops the
  bot at every poll (`:276-290`, `:322`). `OneTryPerCommit` is about commits
  the live directory does not hold.

Rogue, Fetcher, Non-OCO:

- A lost answer is resolved by looking for a resting order of that price
  (`mt5_adapter.py:359`): one that filled meanwhile is sent again, though `:478`
  says it "cannot create duplicates". The bounds of `Monster` and `Fetcher` count it.
- Rogue: a leg chased at market (`rogue_monster_live.py:263-273`) may lose up to the
  chase cap (3) more than its stop's distance; `LossBounded` counts both.
- Rogue: a failed positions query counts every leg as closed at a loss, a failed
  history query reads as 0; the halt, the chains and the legs' peaks are lost in
  a restart, the day's losses in one across midnight; `force_close_open` leaves
  the resting stops; refused closes are not noticed. `rogue_max_entries` is
  not enforced live (`rogue_monster.py:34`); chains go out after the end of the
  day, against `rogue.drive`'s docstring.
- Fetcher: a history that does not answer rebuilds an empty governor; a command
  before the recovery overwrites the mirror and orphans the ticket; a close while
  the bot is down, or by the flatten, is not in the budget's window.
- Non-OCO: a failed lookup counts as closed and leaves an orphan beside the next
  link; a restart within the drift re-arms with a fresh cap
  (`aureon_non_oco.py:22`); a flip opens while paused; a refused close at the flat
  hour is forgotten.

## 4. Proofs

The run checks a small instance; the theorem holds for every value of the
constants that satisfies the module's named assumption. All proofs are checked
by TLAPS to the last leaf, with no axioms.

| module | theorems | the invariant, and why it is needed |
|---|---|---|
| `LegStopProofs` | the leg's properties of `position_bars`, that its stop only ratchets (`RatchetIsOneWay`), and that hold and trail keep their distance | `RungHeld` needs that the stop never lies above the peak once it has left its initial place, `NoPhantomLock` that the peak itself was traded, the hold that age grows and rungs are monotone in the peak |
| the same, about `LiveStop` | type; an earned rung rests at the broker; the resting stop is kept; the peak survives a restart | `Kept`: an open position is above its resting stop, and the stop the bot believes in is less than the broker's distance behind the one that rests; without it a pass that asserts the shadow's stop could give back any amount. `LadderRaises` says where the ladder puts a stop that an adjusted retry left anywhere |
| the same, about `BoostStop` | the boost's properties of `position_bars`, and ride, floor and ratchet | their conjunction, and that a boost never armed still rests at its backstop: else arming and riding in one bar could lower the stop |
| the same, about `RallyBoosts` | type; one fleet a leg | `RallyInv`: a leg still eligible has nothing at the broker, and what the broker filled plus what is due is at most one fleet; a restart brings no eligibility back |
| `AnchorBookProofs` | type; a mark survives every fault; the record is real; one rescue leg a pair; one order an anchor, side and day; everything managed; the book implements `AnchorDay` | `MarksKept`: memory, while there is one, and file both know every mark (they list the anchor or belong to a later day), and no listed anchor is in the slot or under way. `BookOK`: what is under way is two fresh legs of the anchor at work; of two twins alive the later names the earlier; memory, file and what a restart left to rehydrate name only orders the broker has. `PlacedOK`: an order that is neither cancelled nor a stray is marked or under way, one that was sent again is marked, and a side has at most one of each. `CoveredOK`: such an order is on record, under way, or given up by a flatten or the confirmation, and a reconcile has read every leg on record. `PlanOK`, for the refinement: a placement plans at least one leg, so what gets marked has an order; by `PlacedOK` an anchor that is not marked or under way has none alive, so no leg is "twice" |
| `NonOcoProofs` | the session implements `TradeChain`; its stops stay; `Promise`, and with it the bounds in numbers; type | counted losses plus positions nobody follows are at most the slips, plus one that is `Due`: a loss the session is about to learn of or has ended on (so its `Toll` is 1); entries are at most a chain a slip plus this one's links; the session's stop is never behind the broker's. For `Promise` losses alone are not inductive; losses plus open positions are at most 1 + 2 slips, because a position is the loss it may become. For the type, whose bounds are per session: its losses plus its position are at most its entries, and an opposite exit that is due is its next step |
| `FetcherProofs` | the day implements `TradeChain`; `Promise`; `LossBounded`; `BudgetEarned` | losses, money and window are judged as they will be once the engine has heard of the close it waits for and has recovered from block and history, if it is down: the memory of a process that has not recovered says nothing, the file and the deals do. `Spared`: positions nobody follows are at most the slips. `Streaks`: uncounted losses, those positions and the losses still ahead are at most two streaks a slip and the one that is due. `Counted`: entries are at most a cap a slip and the entries the governor knows. `Funded`, `Stored`: the day's money is at least what memory and file believe, less the worst close a slip. `Budgeted`: what was taken and what is still available are at most what was earned and a base a slip |
| `SwitchesProofs` | type; a switch is what the newest command said | a list in the file, in a draft or at hand is a gapless run of commands, and the newest command not yet run is its last. For each engine not in the list at hand the mirror holds what its newest command asked, and memory holds what the mirror does once the process has recovered; both except what `excused` gives up |
| `DayGateProofs` | type; the Friday latch; stops hold | file and memory agree on the day and the latch, and no stop in the file is missing in memory; what a pass has read of the clock is never ahead of it; each place in the pass knows what it has been through |
| the same, about `Watchdog` | type; one trader; one try a commit | `HoldsLock`: whoever is past the lock and was not robbed of it holds it. `Supervised`: all but the supervised process are gone or outliving a kill. `Deploys`: a commit once tried that the live directory did not hold is being tried, or is no newer than HEAD or the failed one |
| `RescueBoostProofs` | type; no second fleet; one-way trail; the sweep leaves no lone leftover; an open twin is never recognised | after the first read the parent of every resting boost is known; while the pass places, no parent still to be served carries a boost, for a boost filled in between is in the second read, and one that is sent again is due once. `Straddled`: twins alive have one origin and opposite sides, and a filled leg stands no better than its price: so twins are at least twice the trigger apart |
| `MonsterProofs` | type; stops only tighten; one side; bounded exposure; bounded loss | `Believed`: the stop the engine believes in is at least the broker's (a refused change leaves that behind), and what a pass has read still holds. `OneWay`: until a slip there is one side all legs, stops and readings have. `Numbered`: live tickets and the links still to be chained stay within the bound, and one ticket, with one set of chains for each slip, is not yet known to the engine. `Solvent`: the worst case is above the halt less the stops a pass has placed or may still place; the loss alone is not inductive, for a leg is the loss it may become |

What the theorems assume beyond the modules' named assumptions is stated in
their ASSUME, and each is something the code or the market provides:

- `PlacedOnce` and `BookIsAnAnchorDay` exclude no fault: they hold with crashes,
  half-failed straddles, lost answers, failed queries, refused closes and cancels.
  What those leave behind is the stray, which the statements except by its `kind`
  and section 3 describes; an order becomes one only in `AnswerLost`,
  `RecoveryLost`, `OrphansCancel` and `Crash`. `MarkSurvives`, `RecordIsReal` and
  `OneRescueLeg` hold with every fault and without that exception.
- `EverythingManaged` excludes the crash and the failed query (`fills.py:118`), under
  which the record does lose positions, and excepts strays and what a flatten or the
  confirmation gave up. Lost answers, half-failed straddles and refusals are allowed.
- `TwinIsUnseen` supposes that twice the trigger exceeds the sweep's interval by more
  than its tolerance, as shipped (36 against 20 and the tolerance).
  `LeftoversAreRescues` needs the interval not to be zero.
- `ExposureIsBounded` and `LossIsBounded` need the chain limit not to be zero
  (`rogue_max_chains`, 3 in `config.py:128`): with none a slip could still cost a
  ticket, for which the bound leaves no room.
- The theorems about `LiveStop` need a broker that refuses a stop at the market
  (`0 < Probe`); `RungRests` one that refuses within the distance it declares
  (`StopsLevel <= Probe`), else the adjusted retry backs off further than it must;
  `RungSurvivesRestart` that the time stop's peak is at most the first rung
  (`tstop_fav` 1.0, first rung 5.0), for a pass that times a leg out saves nothing.

- `TypeCorrect` of `NonOcoProofs` needs the stop locked in to be at most the
  trigger of the lock (`LockTo <= LockAt`; shipped 2.5 and 3).
- The theorems about `Fetcher` use the module's assumption that there is a worst
  close and that it is a loss: the stop is at a fixed distance.

Refinements. `NonOco` implements `TradeChain`: taken are the entries, open the
positions at the broker, losses what counts against the chain. TLC checks it as
a property of `non_oco` and the theorem `SessionIsAChain` for every ladder, chain
and number of slips; each action has a lemma that shows it keeps the invariant
and is a step of the chain. `BooksAreBounded` then reads `Promise` off it.
`Fetcher` implements the same abstraction: a property of `fetcher` and the
theorem `DayIsAChain`, with `DayIsBounded` for the numbers. `AnchorBook`
implements `AnchorDay` (`BookIsAnAnchorDay`), strays aside; this one is proved
only and no run lists it, for TLC evaluates the mapping at every step and needs more
time for it than for all other properties of `book_day` together.

Only model-checked: liveness (`LoserTimedOut`, `EodFlat`, `OrphansGo`,
`HungReplaced`, `RunawayStops`, `LegsAdopted`, `FlatAtNight`, `Delivered`,
`FridayFlat`, `CapHolds`), which is out of the prover's reach, and the bounds in
`Fetcher`'s `TypeOK`, of which the proofs use the form without bounds (`Shape`).

## 5. Not modelled

See "components" in `PROJECT.json`. By far the largest part of the repository
has no behaviour of its own to check or is not reached by the loop:

- the self-test (`selftest.py`, a quarter of all lines), backtests, validators
  and preflight: tools around the program;
- reports, cards, telemetry, journals (`pnl_report.py`, `discord_*.py`,
  `telemetry.py`, ...): output only, which no decision reads back. The one
  exception, the day's result of the day stops, is in `DayGate`;
- `rogue_stop.py`, the A1 path and the pattern log of `rogue.py`: `drive` calls
  `drive_monster` only;
- rescue events, trapped late rescues and `boost_spec` (`boosts*.py`): off in
  `config.py` (180-185). The rally boosts, which are on (176-179), are modelled in
  `RallyBoosts` and `BoostStop`;
- Threshold-8 and Rogue T2: not called by the loop, the latter a program of its
  own with its own broker layer, state store and watchdog;
- test-fires and test orders: operator tools on orders of their own;
- `soft_restart.py`, `offset_guard.py`: a log line, a file nobody reads, a check
  at boot.

What is modelled leaves out, beyond the data named in section 2: clock offsets
and symbol handling of the adapter, the paper mode of the anchors, gap mode, and
the boost branch of the trail manager.

## 6. Plan

Done: the core (leg, boost, live stop, book, sweep), the engines, the loop, the
two processes, the refinements, and a theorem for every safety property a run
checks. Left:

1. The rally boosts inside the anchor engine's book: `RallyBoosts` has one leg's
   fleet, `AnchorBook` no boosts, and the boost branch of the trail manager, which
   closes a boost in software, is between the two.
2. Rogue T2 as a project of its own (engine, broker, state store, watchdog).
3. The recovery of the anchors' and Rogue's blocks of the mirror, beside the
   Fetcher's.
