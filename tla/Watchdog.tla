------------------------------ MODULE Watchdog ------------------------------
(***************************************************************************)
(* watchdog.py and what it supervises: the supervisor loop, the gateway    *)
(* thread that sets its flags, the bot processes with their PID lock,      *)
(* heartbeat and feed ladder, and the autodeploy of new commits.  A pass   *)
(* of the loop takes several steps, so a bot may exit, hang or recover     *)
(* between a check and the action.  The commands for the bot go through    *)
(* CommandFile.                                                            *)
(***************************************************************************)
EXTENDS Integers, FiniteSets

CONSTANTS
  Pids,             \* process ids, reused
  MaxSelfRestarts,  \* MAX_CONSECUTIVE_SELFRESTARTS
  LadderSteps,      \* failed probes before the self-restart (feed_watchdog.py)
  MaxCommits        \* bound: commits ever pushed to master

ASSUME WatchdogBounds ==
  /\ 0 \notin Pids /\ \E p, q \in Pids : p # q
  /\ MaxSelfRestarts \in Nat \ {0} /\ LadderSteps \in Nat
  /\ MaxCommits \in Nat \ {0}

VARIABLES
  at,        \* where the supervisor loop is
  asks,      \* the flags the gateway sets: subset of {"restart", "stop"}
  cur,       \* bot_proc, 0 for None
  selfRestarts, \* consecutive_selfrestarts
  stable,    \* the current process has run longer than CRASH_RESET_AFTER_S
  st,        \* the state of every process
  lock,      \* the pid in aureon.pid, 0 when there is no file
  robbed,    \* history: live processes whose lock was taken for stale
  hb,        \* the heartbeat file: "none", "fresh" or "stale"
  feed,      \* [up: the broker sends ticks, closed: _weekend_by_clock]
  ladder,    \* [fails, restarted] of the running bot's FeedWatchdog
  git,       \* commits on the line of master: [remote, head, pending, failed],
             \* fetched while one is pending, moved once master was moved back
  tries      \* history: how often a commit that the live directory did not
             \* hold has stopped the bot, 2 for more, while not git.moved

sup == <<at, asks, cur, selfRestarts, stable, git, tries>>
child == <<st, lock, robbed, hb, ladder>>
watchVars == <<sup, child, feed>>

Alive(p) == st[p] \in {"boot", "stuck", "up", "hung", "dying"}

\* Processes past the PID lock: each of them may place and trail orders.
Traders == {p \in Pids : st[p] \in {"up", "hung", "dying"}}

NoFails == [fails |-> 0, restarted |-> FALSE]

Checkouts == [remote : 1..MaxCommits, fetched : 0..MaxCommits, head : 1..MaxCommits,
              pending : 0..MaxCommits, failed : 0..MaxCommits, moved : BOOLEAN]

\* The flags, the processes and the commits stay what they are; no count passes its bound.
WatchTypeOK ==
  /\ at \in {"loop", "check", "stop", "deploy", "merge", "spawn", "final", "down"}
  /\ asks \subseteq {"restart", "stop"}
  /\ cur \in Pids \union {0} /\ lock \in Pids \union {0} /\ robbed \subseteq Pids
  /\ selfRestarts \in 0..MaxSelfRestarts
  /\ stable \in BOOLEAN
  /\ st \in [Pids -> {"free", "boot", "stuck", "up", "hung", "dying", "exit42", "exit1"}]
  /\ hb \in {"none", "fresh", "stale"}
  /\ feed \in [up : BOOLEAN, closed : BOOLEAN]
  /\ ladder \in [fails : 0..LadderSteps, restarted : BOOLEAN]
  /\ git \in Checkouts
  /\ tries \in [1..MaxCommits -> 0..2]

\* __init__ removes an old heartbeat; the bot is spawned first.  HEAD,
\* which is deployed_sha, may be behind master, level with it, or ahead.
WatchInit ==
  /\ at = "spawn" /\ asks = {} /\ cur = 0
  /\ selfRestarts = 0 /\ stable = FALSE
  /\ st = [p \in Pids |-> "free"] /\ lock = 0 /\ robbed = {}
  /\ hb = "none"
  /\ feed \in [up : BOOLEAN, closed : BOOLEAN]
  /\ ladder = NoFails
  /\ \E remote, head \in 1..MaxCommits :
       git = [remote |-> remote, fetched |-> 0, head |-> head,
              pending |-> 0, failed |-> 0, moved |-> FALSE]
  /\ tries = [c \in 1..MaxCommits |-> 0]

-----------------------------------------------------------------------------
(* The supervisor loop (Watchdog.run).                                     *)

\* Any id that is not in use: ids are only names.
NewPids == {p \in Pids : st[p] = "free" /\ p # lock}
NewPid == CHOOSE p \in NewPids : TRUE

\* What a bug could do: forget the count with every new process.
SpawnResetting ==
  /\ at = "spawn" /\ NewPids # {}
  /\ cur' = NewPid
  /\ st' = [st EXCEPT ![NewPid] = "boot"]
  /\ at' = "loop"
  /\ stable' = FALSE /\ selfRestarts' = 0
  /\ ladder' = NoFails
  /\ UNCHANGED <<asks, lock, robbed, hb, feed, git, tries>>

\* _spawn_bot; the heartbeat file stays as the last process left it.  That
\* an id must be free is a bound: Pids is finite.
Spawn ==
  /\ at = "spawn" /\ NewPids # {}
  /\ cur' = NewPid
  /\ st' = [st EXCEPT ![NewPid] = "boot"]
  /\ at' = "loop"
  /\ stable' = FALSE
  /\ ladder' = NoFails
  /\ UNCHANGED <<asks, selfRestarts, lock, robbed, hb, feed, git, tries>>

\* relaunch_policy: only exit 42 relaunches, and not when it has looped.
Relaunches(code, count) == code = "exit42" /\ count < MaxSelfRestarts

\* bot_proc.poll() sees an exit.  A stable run clears the count.
JudgeExit ==
  /\ at = "loop" /\ "stop" \notin asks
  /\ cur # 0 /\ ~Alive(cur)
  /\ LET before == IF stable THEN 0 ELSE selfRestarts
         count  == IF st[cur] = "exit42" THEN before + 1 ELSE before
     IN /\ selfRestarts' = count
        /\ at' = IF Relaunches(st[cur], count) THEN "spawn" ELSE "final"
  /\ st' = [st EXCEPT ![cur] = "free"]
  /\ cur' = 0
  /\ UNCHANGED <<asks, stable, lock, robbed, hb, ladder, feed, git, tries>>

StillRuns ==
  /\ at = "loop" /\ "stop" \notin asks
  /\ cur # 0 /\ Alive(cur)
  /\ at' = "check"
  /\ UNCHANGED <<asks, cur, selfRestarts, stable, git, tries, child, feed>>

\* What a bug could do: trust a bot that has no fresh heartbeat.
HeartbeatIgnored == FALSE

\* _heartbeat_age() > HEARTBEAT_STALE_SECONDS; no file is no verdict.
HeartbeatStale == hb = "stale"

\* A hung bot, or a /restart, stops the process and spawns another.
Replace ==
  /\ at = "check"
  /\ HeartbeatStale \/ "restart" \in asks
  /\ asks' = IF HeartbeatStale THEN asks ELSE asks \ {"restart"}
  /\ at' = "stop"
  /\ UNCHANGED <<cur, selfRestarts, stable, git, tries, child, feed>>

Quiet == at = "check" /\ ~HeartbeatStale /\ "restart" \notin asks

Counted(n) == IF git.moved \/ git.pending <= git.head \/ n = 2 THEN n ELSE n + 1

\* _autodeploy_check while an update is pending: wait for a
\* status.json that says flat or eod_done, whichever the bot wrote last.
DeployPending ==
  /\ Quiet /\ git.pending # 0
  /\ \/ at' = "deploy" /\ tries' = [tries EXCEPT ![git.pending] = Counted(@)]
     \/ at' = "loop" /\ UNCHANGED tries
  /\ UNCHANGED <<asks, cur, selfRestarts, stable, git, child, feed>>

\* What a bug could do: forget which commit has failed.
NewOnMasterAlways == git.remote # git.head

\* ls-remote shows a commit that is neither deployed nor known to fail.
NewOnMaster == git.remote \notin {git.head, git.failed}

\* _autodeploy_validate: compile and import in a worktree, either verdict.
Verdicts == BOOLEAN

\* The poll: fetch (which may bring a later commit than ls-remote showed)
\* and validate the commit of ls-remote in a worktree of its own.  Master is
\* not moved back between the two.
PollMaster ==
  /\ Quiet /\ git.pending = 0 /\ NewOnMaster
  /\ \E got \in git.remote..MaxCommits, valid \in Verdicts :
       git' = IF valid THEN [git EXCEPT !.remote = got, !.fetched = got, !.pending = git.remote]
                       ELSE [git EXCEPT !.remote = got, !.failed = git.remote]
  /\ at' = "loop"
  /\ UNCHANGED <<asks, cur, selfRestarts, stable, tries, child, feed>>

\* Not due, nothing new, or a failed ls-remote or fetch.
NoPoll ==
  /\ Quiet /\ git.pending = 0
  /\ at' = "loop"
  /\ UNCHANGED <<asks, cur, selfRestarts, stable, git, tries, child, feed>>

\* _stop_bot: SIGTERM ends a running bot without its cleanup, and so leaves
\* the lock file; a hung one is killed, which it may outlive.
StopBot ==
  /\ at \in {"stop", "deploy", "final"}
  /\ \/ cur = 0 /\ UNCHANGED st
     \/ cur # 0 /\ st' = [st EXCEPT ![cur] = "free"]
     \/ cur # 0 /\ st[cur] = "hung" /\ st' = [st EXCEPT ![cur] = "dying"]
  /\ cur' = 0
  /\ at' = CASE at = "stop"   -> "spawn"
             [] at = "deploy" -> "merge"
             [] at = "final"  -> "down"
  /\ UNCHANGED <<asks, selfRestarts, stable, lock, robbed, hb, ladder, feed, git, tries>>

\* merge --ff-only succeeds without a move ("Already up to date") when HEAD
\* already holds what was fetched.
FastForward == IF git.fetched > git.head THEN git.fetched ELSE git.head

\* _autodeploy_apply: merge --ff-only origin/master, whatever was fetched;
\* deployed_sha becomes HEAD.  When the merge fails the old code is started
\* again.
Merge ==
  /\ at = "merge"
  /\ \/ git' = [git EXCEPT !.head = FastForward, !.pending = 0, !.fetched = 0]
     \/ git' = [git EXCEPT !.failed = git.pending, !.pending = 0, !.fetched = 0]
  /\ at' = "spawn"
  /\ UNCHANGED <<asks, cur, selfRestarts, stable, tries, child, feed>>

\* while not shutdown_requested: looked at between two passes only.
Shutdown ==
  /\ at = "loop" /\ "stop" \in asks
  /\ at' = "final"
  /\ UNCHANGED <<asks, cur, selfRestarts, stable, git, tries, child, feed>>

\* _handle_command in the gateway thread, at any moment.
Ask ==
  /\ at # "down"
  /\ \E a \in {"restart", "stop"} : asks' = asks \union {a}
  /\ UNCHANGED <<at, cur, selfRestarts, stable, git, tries, child, feed>>

-----------------------------------------------------------------------------
(* The bot process: start, tick, exits.                                    *)

Holder(p) == lock # 0 /\ lock # p /\ Alive(lock)

\* What a bug could do: take any existing lock file for a stale one.
AcquireAlways(p) ==
  /\ st[p] = "boot"
  /\ lock' = p /\ st' = [st EXCEPT ![p] = "up"]
  /\ UNCHANGED <<sup, robbed, hb, ladder, feed>>

\* _acquire_pid_lock: a live holder refuses the start (an uncaught
\* RuntimeError, exit 1), a stale file is removed and taken.  So is the file
\* of a live holder that psutil cannot look at (NoSuchProcess, AccessDenied).
Acquire(p) ==
  /\ st[p] = "boot"
  /\ \/ /\ Holder(p)
        /\ st' = [st EXCEPT ![p] = "exit1"] /\ UNCHANGED <<lock, robbed>>
     \/ /\ st' = [st EXCEPT ![p] = "up"] /\ lock' = p
        /\ robbed' = IF Holder(p) THEN robbed \union {lock} ELSE robbed
  /\ UNCHANGED <<sup, hb, ladder, feed>>

\* _tick with a feed that answers.
Tick(p) ==
  /\ st[p] = "up" /\ feed.up
  /\ hb' = "fresh"
  /\ ladder' = NoFails
  /\ UNCHANGED <<sup, st, lock, robbed, feed>>

\* FeedWatchdog.on_failure on its cadence: re-subscribe and re-initialise
\* while steps are left, the heartbeat goes on.
ProbeFails(p) ==
  /\ st[p] = "up" /\ ~feed.up
  /\ ladder.fails < LadderSteps
  /\ ladder' = [ladder EXCEPT !.fails = @ + 1]
  /\ hb' = "fresh"
  /\ UNCHANGED <<sup, st, lock, robbed, feed>>

\* The last step, taken once an episode: _feed_self_restart releases the
\* lock and exits with 42, unless the clock says weekend.
LadderEnds(p) ==
  /\ st[p] = "up" /\ ~feed.up
  /\ ladder.fails = LadderSteps /\ ~ladder.restarted
  /\ IF feed.closed
     THEN /\ ladder' = [ladder EXCEPT !.restarted = TRUE]
          /\ UNCHANGED <<st, lock>>
     ELSE /\ ladder' = NoFails
          /\ st' = [st EXCEPT ![p] = "exit42"]
          /\ lock' = IF lock = p THEN 0 ELSE lock
  /\ UNCHANGED <<sup, robbed, hb, feed>>

\* An unhandled exception or the clock-drift abort: run's finally releases
\* the lock; a start that fails earlier has none.
Exits(p) ==
  /\ st[p] \in {"boot", "up"}
  /\ st' = [st EXCEPT ![p] = "exit1"]
  /\ lock' = IF lock = p THEN 0 ELSE lock
  /\ UNCHANGED <<sup, robbed, hb, ladder, feed>>

\* A call into the terminal blocks, and may return; a blocked start too.
Hangs(p) ==
  /\ \/ st[p] = "up"   /\ st' = [st EXCEPT ![p] = "hung"]
     \/ st[p] = "boot" /\ st' = [st EXCEPT ![p] = "stuck"]
     \/ st[p] = "hung" /\ st' = [st EXCEPT ![p] = "up"]
  /\ UNCHANGED <<sup, lock, robbed, hb, ladder, feed>>

\* A killed process that had not ended ends.
Dies(p) ==
  /\ st[p] = "dying"
  /\ st' = [st EXCEPT ![p] = "free"]
  /\ robbed' = robbed \ {p}
  /\ UNCHANGED <<sup, lock, hb, ladder, feed>>

-----------------------------------------------------------------------------
(* Time and the market.                                                    *)

\* HEARTBEAT_STALE_SECONDS without a touch.
HeartbeatAges ==
  /\ hb = "fresh" /\ \A p \in Pids : st[p] # "up"
  /\ hb' = "stale"
  /\ UNCHANGED <<sup, st, lock, robbed, ladder, feed>>

\* A blind run ends in the ladder well before CRASH_RESET_AFTER_S.
RunStable ==
  /\ cur # 0 /\ st[cur] = "up" /\ feed.up /\ ~stable
  /\ stable' = TRUE
  /\ UNCHANGED <<at, asks, cur, selfRestarts, git, tries, child, feed>>

Market ==
  /\ feed' \in [up : BOOLEAN, closed : BOOLEAN] \ {feed}
  /\ UNCHANGED <<sup, child>>

Push ==
  /\ git.remote < MaxCommits
  /\ git' = [git EXCEPT !.remote = @ + 1]
  /\ UNCHANGED <<at, asks, cur, selfRestarts, stable, tries, child, feed>>

\* Somebody forces master back to an earlier commit, which ends the history.
MoveBack ==
  /\ \E c \in 1..(git.remote - 1) : git' = [git EXCEPT !.remote = c, !.moved = TRUE]
  /\ tries' = [c \in 1..MaxCommits |-> 0]
  /\ UNCHANGED <<at, asks, cur, selfRestarts, stable, child, feed>>

Loop == \/ Spawn \/ JudgeExit \/ StillRuns \/ Replace \/ DeployPending
        \/ PollMaster \/ NoPoll \/ StopBot \/ Merge \/ Shutdown

\* What the bot does by itself, with nothing going wrong.
Runs(p) == Acquire(p) \/ Tick(p) \/ ProbeFails(p) \/ LadderEnds(p)

WatchNext ==
  \/ Loop
  \/ \E p \in Pids : Runs(p) \/ Exits(p) \/ Hangs(p) \/ Dies(p)
  \/ Ask \/ HeartbeatAges \/ RunStable \/ Market \/ Push \/ MoveBack

WatchSpec == WatchInit /\ [][WatchNext]_watchVars

\* The loop sleeps five seconds and goes on; a bot that is not stuck takes
\* its steps; a file that nobody touches ages; the kernel ends what was
\* killed.  Nothing is assumed of operators, the market or failures.
Fairness ==
  /\ WF_watchVars(Loop) /\ WF_watchVars(HeartbeatAges)
  /\ \A p \in Pids : WF_watchVars(Runs(p)) /\ WF_watchVars(Dies(p))

WatchFairSpec == WatchSpec /\ Fairness

-----------------------------------------------------------------------------
(* At most one bot process is past its lock, those aside from whom it was  *)
(* taken because psutil could not look at them: a process that outlives    *)
(* its kill still holds the file, and the successor is refused (_stop_bot, *)
(* _acquire_pid_lock).                                                     *)
OneTrader == Cardinality(Traders \ robbed) <= 1

(* A commit that the live directory does not hold stops the bot for a      *)
(* deployment at most once: one that cannot be merged is remembered and    *)
(* never restarts the bot again (_autodeploy_check, _autodeploy_apply).    *)
(* Not so one that HEAD is ahead of: it merges as up to date and is tried  *)
(* at every poll; nor is anything said once master was moved back.         *)
OneTryPerCommit == \A c \in 1..MaxCommits : tries[c] <= 1

(* A bot that hangs after a heartbeat does not stay: it recovers, is       *)
(* replaced, or the watchdog has been stopped (step 2 of the loop).        *)
HungReplaced ==
  \A p \in Pids :
    (cur = p /\ st[p] = "hung" /\ hb # "none")
      ~> (cur # p \/ st[p] # "hung" \/ at = "down")

\* The feed is dead on a trading day and nothing else disturbs the bot.
Hopeless ==
  /\ ~feed.up /\ ~feed.closed /\ ~ladder.restarted
  /\ asks = {} /\ hb # "stale" /\ git.pending = 0
  /\ \A p \in Pids : st[p] \notin {"stuck", "hung", "dying"}

(* A feed that never comes back ends with the watchdog down for a human,   *)
(* not in an endless chain of self-restarts (relaunch_policy).             *)
RunawayStops == <>[]Hopeless => <>(at = "down")
=============================================================================
