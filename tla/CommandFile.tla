---------------------------- MODULE CommandFile ----------------------------
(***************************************************************************)
(* run/commands.json: the gateway thread of the watchdog appends a command *)
(* by reading the list, adding to it and replacing the file; the bot reads *)
(* the list, overwrites the file with an empty one and runs what it read.  *)
(* No lock is taken, so the steps interleave and a command may be lost or  *)
(* run twice.  A command is known by its place in `text`, the order sent.  *)
(***************************************************************************)
EXTENDS Integers, Sequences

CONSTANTS
  Texts,    \* what a command may ask for
  MaxSent   \* bound: commands ever sent

ASSUME SentBound == MaxSent \in Nat

VARIABLES
  text,    \* history: every command sent, in order
  file,    \* the list in the file; a torn or missing file reads as empty
  draft,   \* the gateway's copy between its read and its os.replace
  todo,    \* the bot's copy: what it has read and not yet run
  reading  \* the bot has read the file and not yet overwritten it

chan == <<text, file, draft, todo, reading>>

Sent == Len(text)
NoDraft == <<0>>   \* no command has the number 0

ChanTypeOK ==
  /\ text \in Seq(Texts) /\ Sent <= MaxSent
  /\ file \in Seq(1..Sent) /\ todo \in Seq(1..Sent)
  /\ draft = NoDraft \/ draft \in Seq(1..Sent)
  /\ reading \in BOOLEAN

ChanInit ==
  /\ text = <<>> /\ file = <<>> /\ todo = <<>>
  /\ draft = NoDraft
  /\ reading = FALSE

\* _write_command: existing = json.load(f), [] when that fails.
GatewayReads ==
  /\ draft = NoDraft /\ Sent < MaxSent
  /\ draft' = file
  /\ UNCHANGED <<text, file, todo, reading>>

\* What a bug could do: put the new command before the old ones.
Prepended(list, c) == <<c>> \o list

Appended(list, c) == Append(list, c)

\* existing.append(...) and os.replace.
GatewayWrites ==
  /\ draft # NoDraft
  /\ \E c \in Texts : text' = Append(text, c)
  /\ file' = Appended(draft, Sent + 1)
  /\ draft' = NoDraft
  /\ UNCHANGED <<todo, reading>>

\* _consume_commands reads ...
BotReads ==
  /\ todo = <<>> /\ ~reading /\ file # <<>>
  /\ todo' = file
  /\ reading' = TRUE
  /\ UNCHANGED <<text, file, draft>>

\* ... and overwrites; a locked file leaves the list in place.
BotClears ==
  /\ reading
  /\ reading' = FALSE
  /\ file' \in {<<>>, file}
  /\ UNCHANGED <<text, draft, todo>>

\* _handle_commands runs them in order; what a command does is the bot's.
BotRuns ==
  /\ ~reading /\ todo # <<>>
  /\ todo' = Tail(todo)
  /\ UNCHANGED <<text, file, draft, reading>>

\* The process ends and its copy with it.
BotForgets ==
  /\ todo' = <<>> /\ reading' = FALSE
  /\ UNCHANGED <<text, file, draft>>

Gateway == GatewayReads \/ GatewayWrites
=============================================================================
