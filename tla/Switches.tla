------------------------------ MODULE Switches ------------------------------
(***************************************************************************)
(* The engine switches (/anchors off, /rogue on ...): the bot's memory,    *)
(* set by the commands of run/commands.json, the mirror run/state.json     *)
(* that every change is saved to, and the recovery that reads it back once *)
(* after a boot.  Around them the loop: commands, the market-closed sleep  *)
(* in which none is read, the day roll, the recovery and the pass's saves. *)
(***************************************************************************)
EXTENDS CommandFile

CONSTANTS
  Engines,     \* the names of the switches
  MaxDays,     \* bound: broker days
  MaxCrashes   \* bound: crashes

ASSUME SwitchBounds ==
  /\ MaxDays \in Nat \ {0} /\ MaxCrashes \in Nat
  /\ Texts \subseteq [engine : Engines, on : BOOLEAN]

VARIABLES
  market,   \* "open" or "closed": the age of the broker's last tick
  today,    \* the broker's day
  pc,       \* "boot", "idle", "commands", "asleep" or "down"
  on,       \* self.engines
  ready,    \* _p1_recovered
  day,      \* self.state["last_broker_date"]
  disk,     \* the state file's day, and its mirror p1 [day, on]
  ran,      \* history: the commands run
  excused,  \* history: switches may have been lost, see SwitchIsNewest
  crashes

clock == <<market, today>>
memory == <<on, ready, day>>
vars == <<chan, clock, pc, memory, disk, ran, excused, crashes>>

\* The boot defaults of the configuration.
AllOn == [e \in Engines |-> TRUE]

Init ==
  /\ ChanInit
  /\ market = "open" /\ today = 1
  /\ pc = "boot"
  /\ on = AllOn /\ ready = FALSE /\ day = 0
  /\ disk = [day |-> 0, p1 |-> [day |-> 0, on |-> AllOn]]
  /\ ran = {} /\ excused = FALSE /\ crashes = 0

\* p1_state.save, and _save_state, which ends with it.
P1 == [day |-> day', on |-> on']
SaveP1 == disk' = [disk EXCEPT !.p1 = P1]
SaveState == disk' = [day |-> day', p1 |-> P1]

\* A save before the recovery replaces the last process's switches.
Overwrites == ~ready /\ disk.p1.on # AllOn

-----------------------------------------------------------------------------
\* The feed stops, at a weekend or in an outage, and comes back.
Market ==
  /\ \/ market = "open" /\ market' = "closed" /\ UNCHANGED today
     \/ market = "closed" /\ market' = "open" /\ today' \in {today, today + 1}
     \/ market = "open" /\ today' = today + 1 /\ UNCHANGED market
  /\ today' <= MaxDays
  /\ UNCHANGED <<chan, pc, memory, disk, ran, excused, crashes>>

GatewaySteps ==
  /\ Gateway
  /\ UNCHANGED <<clock, pc, memory, disk, ran, excused, crashes>>

-----------------------------------------------------------------------------
\* Step 0 of a pass: the commands.
ReadCommands ==
  /\ pc = "idle"
  /\ BotReads
  /\ pc' = "commands"
  /\ UNCHANGED <<clock, memory, disk, ran, excused, crashes>>

ClearCommands ==
  /\ BotClears
  /\ UNCHANGED <<clock, pc, memory, disk, ran, excused, crashes>>

SetEngine(e, b) == on' = [on EXCEPT ![e] = b] /\ SaveP1

RunSwitch ==
  /\ BotRuns
  /\ UNCHANGED <<ready, day>>
  /\ LET n == Head(todo) IN
       /\ SetEngine(text[n].engine, text[n].on)
       /\ ran' = ran \cup {n}
  /\ excused' = (excused \/ Overwrites)
  /\ UNCHANGED <<clock, pc, crashes>>

CommandsDone ==
  \/ pc = "idle" /\ file = <<>>
  \/ pc = "commands" /\ todo = <<>> /\ ~reading

-----------------------------------------------------------------------------
\* wait_until_market_open, at the boot and from the loop: save, then sleep.
FallAsleep ==
  /\ pc = "boot" \/ CommandsDone
  /\ market = "closed"
  /\ UNCHANGED memory
  /\ SaveState
  /\ excused' = (excused \/ Overwrites)
  /\ pc' = "asleep"
  /\ UNCHANGED <<chan, clock, ran, crashes>>

StartOpen ==
  /\ pc = "boot" /\ market = "open"
  /\ pc' = "idle"
  /\ UNCHANGED <<chan, clock, memory, disk, ran, excused, crashes>>

\* What a bug could do: wait for the new week.
TicksAgainNextDay == market = "open" /\ today # day

TicksAgain == market = "open"

Wake ==
  /\ pc = "asleep" /\ TicksAgain
  /\ pc' = "idle"
  /\ UNCHANGED <<chan, clock, memory, disk, ran, excused, crashes>>

-----------------------------------------------------------------------------
\* The day roll saves before the recovery reads, so a restart in a new day
\* finds no switch of the old one; the engines' steps may save once more.
Roll ==
  /\ day # today
  /\ day' = today
  /\ UNCHANGED on
  /\ SaveState
  /\ excused' = (excused \/ Overwrites)

Recover ==
  /\ day = today
  /\ on' = IF ready \/ disk.p1.day # day THEN on ELSE disk.p1.on
  /\ UNCHANGED <<day, excused>>
  /\ SaveState \/ UNCHANGED disk

TradingPass ==
  /\ CommandsDone
  /\ market = "open"
  /\ Roll \/ Recover
  /\ ready' = TRUE
  /\ pc' = "idle"
  /\ UNCHANGED <<chan, clock, ran, crashes>>

-----------------------------------------------------------------------------
\* The process ends; a new one loads the state file and the boot defaults.
Crash ==
  /\ pc # "down" /\ crashes < MaxCrashes
  /\ crashes' = crashes + 1
  /\ BotForgets
  /\ excused' = (excused \/ todo # <<>>)
  /\ pc' = "down"
  /\ on' = AllOn /\ ready' = FALSE /\ day' = disk.day
  /\ UNCHANGED <<clock, disk, ran>>

Restart ==
  /\ pc = "down"
  /\ pc' = "boot"
  /\ UNCHANGED <<chan, clock, memory, disk, ran, excused, crashes>>

Loop ==
  \/ ReadCommands \/ ClearCommands \/ RunSwitch
  \/ FallAsleep \/ StartOpen \/ Wake \/ TradingPass

Next == Market \/ GatewaySteps \/ Loop \/ Crash \/ Restart

Spec == Init /\ [][Next]_vars

\* The loop runs every second, and a sleeping one probes every five minutes a
\* market that opens for hours (hence SF); the watchdog starts a dead bot
\* again; the gateway ends a write it began; the market does not stay closed.
FairSpec ==
  /\ Spec
  /\ SF_vars(Loop) /\ WF_vars(Restart)
  /\ WF_vars(Market /\ market' = "open")
  /\ WF_vars(GatewaySteps /\ draft' = NoDraft)

-----------------------------------------------------------------------------
(* The type of the state; a process that has recovered has rolled to a day *)
(* and a mirror of a day is never newer than the day (_reset_if_new_day).  *)
TypeOK ==
  /\ ChanTypeOK
  /\ market \in {"open", "closed"} /\ today \in 1..MaxDays
  /\ pc \in {"boot", "idle", "commands", "asleep", "down"}
  /\ on \in [Engines -> BOOLEAN] /\ ready \in BOOLEAN /\ day \in 0..today
  /\ disk \in [day : 0..today, p1 : [day : 0..today, on : [Engines -> BOOLEAN]]]
  /\ ran \subseteq 1..Sent
  /\ excused \in BOOLEAN /\ crashes \in 0..MaxCrashes
  /\ ready => day # 0 /\ disk.day = day

Newest(S) == CHOOSE n \in S : \A m \in S : m <= n
AskedOf(e) == {n \in ran : text[n].engine = e}

(* Between two lists an engine's switch is what the newest command run for *)
(* it asked, through lost and repeated commands, sleeps, crashes and       *)
(* restarts (_set_engine, p1_state.save, recover_on_boot), but for three   *)
(* ways of losing one, which `excused` records: a crash in the middle of a *)
(* list, a save before the recovery (a command run, the sleep or the day   *)
(* roll of a fresh process) that puts the boot defaults over the mirror.   *)
SwitchIsNewest ==
  todo = <<>> /\ ready /\ ~excused =>
    \A e \in Engines :
      AskedOf(e) # {} => on[e] = text[Newest(AskedOf(e))].on

InList(n, list) == \E i \in DOMAIN list : list[i] = n

\* It was overwritten between the bot's read and its clear, or cut by a crash.
Lost(n) == ~(InList(n, file) \/ InList(n, draft) \/ InList(n, todo))

(* A command sent is run in the end, or lost: it is never left in the file *)
(* for good, through market-closed sleeps, clears that fail, crashes and   *)
(* day rolls (_consume_commands, wait_until_market_open).                  *)
Delivered == \A n \in 1..MaxSent : n <= Sent ~> n \in ran \/ Lost(n)
=============================================================================
