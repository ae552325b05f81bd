--------------------------- MODULE SwitchesProofs ---------------------------
(***************************************************************************)
(* The engine switches, for any set of engines and any number of commands, *)
(* days and crashes: between two lists an engine's switch is what the      *)
(* newest command run for it asked.  The argument is about the lists: the  *)
(* gateway only appends, the bot only empties, so every list that is read  *)
(* is a gapless run of commands up to the newest one there was.            *)
(***************************************************************************)
EXTENDS Switches, SequenceTheorems, TLAPS

\* The list is a gapless run of commands that ends with number k.
UpTo(list, k) == \A i \in 1..Len(list) : list[i] = k - Len(list) + i

\* What the file and the gateway's copy hold ends with the newest command sent;
\* what the bot has read ends with one no older than any that was run.
Lists ==
  /\ UpTo(file, Sent)
  /\ draft # NoDraft => UpTo(draft, Sent) /\ Sent < MaxSent
  /\ \E k \in 0..Sent : UpTo(todo, k) /\ \A m \in ran : m <= k

\* Among the commands run for an engine there is a newest one.
IsNewest(n) == \A m \in ran : text[m].engine = text[n].engine => m <= n
Tops == \A m \in ran : \E n \in ran : text[n].engine = text[m].engine /\ IsNewest(n)

\* The mirror is of the day, and of the switches unless the process is fresh.
Mirrored ==
  /\ disk.day = day /\ disk.p1.day = day
  /\ ready => disk.p1.on = on
  /\ on = AllOn \/ on = disk.p1.on

\* Of what the bot has read, nothing is for the engine of command n.
Through(n) == \A i \in 1..Len(todo) : text[todo[i]].engine # text[n].engine

\* The switches are what the newest commands asked, but of the engines for
\* which the list at hand has another command.
Truth(switches) ==
  \A n \in ran : IsNewest(n) /\ Through(n) => switches[text[n].engine] = text[n].on

Remembered == ~excused => Truth(disk.p1.on)

IInv == TypeOK /\ Lists /\ Tops /\ Mirrored /\ Remembered

-----------------------------------------------------------------------------
\* The type of the state, one part at a time.
LEMMA Types ==
  ASSUME TypeOK
  PROVE  /\ text \in Seq(Texts) /\ Sent \in Nat /\ Sent <= MaxSent /\ MaxSent \in Nat
         /\ file \in Seq(1..Sent) /\ todo \in Seq(1..Sent)
         /\ draft = NoDraft \/ draft \in Seq(1..Sent)
         /\ ran \subseteq 1..Sent
         /\ \A n \in 1..Sent : text[n] \in Texts /\ text[n].engine \in Engines
                               /\ text[n].on \in BOOLEAN
         /\ on \in [Engines -> BOOLEAN] /\ AllOn \in [Engines -> BOOLEAN]
         /\ disk \in [day : 0..today, p1 : [day : 0..today, on : [Engines -> BOOLEAN]]]
         /\ today \in 1..MaxDays /\ day \in 0..today
<1>1. text \in Seq(Texts) /\ Sent \in Nat
  BY DEF TypeOK, ChanTypeOK, Sent
<1>2. \A n \in 1..Sent : text[n] \in Texts
  BY <1>1 DEF Sent
<1>3. \A c \in Texts : c.engine \in Engines /\ c.on \in BOOLEAN
  BY SwitchBounds
<1> QED BY <1>1, <1>2, <1>3, SentBound DEF TypeOK, ChanTypeOK, AllOn

\* The world: neither the lists nor the switches change.
LEMMA StillKeeps ==
  ASSUME IInv, UNCHANGED <<chan, memory, disk, ran, excused, crashes>>,
         today' \in Nat, today <= today', today' <= MaxDays, market' \in {"open", "closed"},
         pc' \in {"boot", "idle", "commands", "asleep", "down"}
  PROVE  IInv'
<1>1. UNCHANGED <<text, file, draft, todo, reading, on, ready, day, disk, ran, excused, crashes>>
  BY DEF chan, memory
<1>2. TypeOK'
  <2>1. ChanTypeOK'
    BY <1>1 DEF IInv, TypeOK, ChanTypeOK, Sent
  <2>2. today \in Nat /\ 0..today \subseteq 0..today' /\ today' \in 1..MaxDays
    BY SwitchBounds, Types DEF IInv
  <2>3. day' \in 0..today'
    BY <1>1, <2>2, Types DEF IInv
  <2>4. disk' \in [day : 0..today', p1 : [day : 0..today', on : [Engines -> BOOLEAN]]]
    BY <1>1, <2>2, Types DEF IInv
  <2> QED BY <1>1, <2>1, <2>2, <2>3, <2>4 DEF IInv, TypeOK, Sent
<1>3. Lists'
  BY <1>1 DEF IInv, Lists, UpTo, Sent
<1>4. Tops' /\ Mirrored' /\ Remembered'
  BY <1>1 DEF IInv, Tops, IsNewest, Mirrored, Remembered, Truth, Through, AllOn
<1> QED BY <1>2, <1>3, <1>4 DEF IInv

LEMMA MarketKeeps == IInv /\ Market => IInv'
<1> SUFFICES ASSUME IInv, Market PROVE IInv'
  OBVIOUS
<1>1. today' \in {today, today + 1} /\ today' <= MaxDays /\ market' \in {"open", "closed"}
  BY DEF Market
<1>2. today \in Nat /\ MaxDays \in Nat
  BY SwitchBounds, Types DEF IInv
<1>3. pc' \in {"boot", "idle", "commands", "asleep", "down"}
  BY DEF Market, IInv, TypeOK
<1>4. UNCHANGED <<chan, memory, disk, ran, excused, crashes>>
  BY DEF Market
<1> QED BY <1>1, <1>2, <1>3, <1>4, StillKeeps

LEMMA WaitsKeep == IInv /\ (StartOpen \/ Wake \/ Restart) => IInv'
<1> SUFFICES ASSUME IInv, StartOpen \/ Wake \/ Restart PROVE IInv'
  OBVIOUS
<1>1. UNCHANGED <<chan, clock, memory, disk, ran, excused, crashes>> /\ pc' \in {"idle", "boot"}
  BY DEF StartOpen, Wake, Restart
<1>2. today \in Nat /\ today <= MaxDays /\ MaxDays \in Nat
  BY SwitchBounds, Types DEF IInv
<1>3. market \in {"open", "closed"}
  BY DEF IInv, TypeOK
<1> QED BY <1>1, <1>2, <1>3, StillKeeps DEF clock

-----------------------------------------------------------------------------
\* The lists.

\* What follows a gapless run is one longer.
LEMMA AppendRuns ==
  ASSUME NEW S, NEW list \in Seq(S), NEW k \in Nat, UpTo(list, k), NEW x, x = k + 1
  PROVE  UpTo(Append(list, x), x)
<1>1. /\ Len(Append(list, x)) = Len(list) + 1 /\ Len(list) \in Nat
      /\ \A i \in 1..Len(list) : Append(list, x)[i] = list[i]
      /\ Append(list, x)[Len(list) + 1] = x
  OBVIOUS
<1>2. ASSUME NEW i \in 1..(Len(list) + 1)
      PROVE  Append(list, x)[i] = x - (Len(list) + 1) + i
  <2>1. CASE i \in 1..Len(list)
    <3>1. list[i] = k - Len(list) + i
      BY <2>1 DEF UpTo
    <3> QED BY <1>1, <2>1, <3>1
  <2>2. CASE i = Len(list) + 1
    BY <1>1, <2>2
  <2> QED BY <1>1, <2>1, <2>2
<1> QED BY <1>1, <1>2 DEF UpTo

\* So is its tail.
LEMMA TailRuns ==
  ASSUME NEW S, NEW list \in Seq(S), list # <<>>, NEW k \in Nat, UpTo(list, k)
  PROVE  /\ UpTo(Tail(list), k) /\ Len(Tail(list)) = Len(list) - 1
         /\ Head(list) = k - Len(list) + 1 /\ Len(list) >= 1 /\ Len(list) \in Nat
         /\ \A i \in 1..Len(Tail(list)) : Tail(list)[i] = list[i + 1]
<1>1. /\ Len(Tail(list)) = Len(list) - 1 /\ Len(list) \in Nat /\ Len(list) >= 1
      /\ \A i \in 1..Len(Tail(list)) : Tail(list)[i] = list[i + 1]
      /\ Head(list) = list[1]
  OBVIOUS
<1>2. \A i \in 1..Len(Tail(list)) : i + 1 \in 1..Len(list)
  BY <1>1
<1>3. UpTo(Tail(list), k)
  BY <1>1, <1>2 DEF UpTo
<1>4. Head(list) = k - Len(list) + 1
  BY <1>1 DEF UpTo
<1> QED BY <1>1, <1>3, <1>4

\* The gateway starts a write with what the file holds, and ends it with one more.
LEMMA GatewayKeeps == IInv /\ GatewaySteps => IInv'
<1> SUFFICES ASSUME IInv, GatewaySteps PROVE IInv'
  OBVIOUS
<1>1. UNCHANGED <<market, today, pc, on, ready, day, disk, ran, excused, crashes, todo, reading>>
  BY DEF GatewaySteps, Gateway, GatewayReads, GatewayWrites, clock, memory
<1>2. CASE GatewayReads
  <2>1. draft' = file /\ Sent < MaxSent /\ UNCHANGED <<text, file>>
    BY <1>2 DEF GatewayReads
  <2>2. TypeOK'
    BY <1>1, <2>1 DEF IInv, TypeOK, ChanTypeOK, Sent
  <2>3. Lists'
    BY <1>1, <2>1 DEF IInv, Lists, UpTo, Sent
  <2>4. Tops' /\ Mirrored' /\ Remembered'
    BY <1>1, <2>1 DEF IInv, Tops, IsNewest, Mirrored, Remembered, Truth, Through, AllOn
  <2> QED BY <2>2, <2>3, <2>4 DEF IInv
<1>3. CASE GatewayWrites
  <2>1. PICK c \in Texts : text' = Append(text, c)
    BY <1>3 DEF GatewayWrites
  <2>2. draft # NoDraft /\ file' = Append(draft, Sent + 1) /\ draft' = NoDraft
    BY <1>3 DEF GatewayWrites, Appended
  <2>3. /\ Sent' = Sent + 1 /\ text' \in Seq(Texts) /\ Sent \in Nat /\ Sent < MaxSent
        /\ MaxSent \in Nat /\ \A n \in 1..Sent : text'[n] = text[n]
    BY <2>1, <2>2, Types DEF IInv, Lists, Sent
  <2>4. 1..Sent \subseteq 1..Sent' /\ 0..Sent \subseteq 0..Sent' /\ Sent + 1 \in 1..Sent'
    BY <2>3
  <2>5. draft \in Seq(1..Sent') /\ todo \in Seq(1..Sent')
    <3>1. draft \in Seq(1..Sent) /\ todo \in Seq(1..Sent)
      BY <2>2, Types DEF IInv
    <3> QED BY <2>4, <3>1, SeqMonotonic
  <2>6. file' \in Seq(1..Sent')
    BY <2>2, <2>4, <2>5
  <2>7. TypeOK'
    <3>1. Sent' <= MaxSent
      BY <2>3
    <3>2. ran \subseteq 1..Sent'
      BY <2>4, Types DEF IInv
    <3>3. ChanTypeOK'
      BY <1>1, <2>2, <2>3, <2>5, <2>6, <3>1 DEF ChanTypeOK, IInv, TypeOK
    <3> QED BY <1>1, <3>2, <3>3 DEF IInv, TypeOK
  <2>8. Lists'
    <3>1. UpTo(draft, Sent) /\ draft \in Seq(1..Sent')
      BY <2>2, <2>5 DEF IInv, Lists
    <3>2. UpTo(Append(draft, Sent + 1), Sent + 1)
      BY <2>3, <3>1, AppendRuns
    <3>3. UpTo(file', Sent')
      BY <2>2, <2>3, <3>2
    <3>4. \E k \in 0..Sent' : UpTo(todo, k) /\ \A m \in ran : m <= k
      BY <2>4 DEF IInv, Lists
    <3> QED BY <1>1, <2>2, <3>3, <3>4 DEF Lists, UpTo
  <2>9. /\ \A m \in ran : text'[m] = text[m]
        /\ \A i \in 1..Len(todo) : text'[todo[i]] = text[todo[i]]
    BY <2>3, Types DEF IInv
  <2>10. Tops' /\ Mirrored' /\ Remembered'
    BY <1>1, <2>9 DEF IInv, Tops, IsNewest, Mirrored, Remembered, Truth, Through, AllOn
  <2> QED BY <2>7, <2>8, <2>10 DEF IInv
<1> QED BY <1>2, <1>3 DEF GatewaySteps, Gateway

\* The bot reads the list and empties the file, or fails to.
LEMMA ReadsKeep == IInv /\ (ReadCommands \/ ClearCommands) => IInv'
<1> SUFFICES ASSUME IInv, ReadCommands \/ ClearCommands PROVE IInv'
  OBVIOUS
<1>1. UNCHANGED <<market, today, on, ready, day, disk, ran, excused, crashes, text, draft>>
  BY DEF ReadCommands, ClearCommands, BotReads, BotClears, clock, memory
<1>2. CASE ReadCommands
  <2>1. todo = <<>> /\ todo' = file /\ file' = file /\ reading' = TRUE /\ pc' = "commands"
    BY <1>2 DEF ReadCommands, BotReads
  <2>2. TypeOK'
    BY <1>1, <2>1 DEF IInv, TypeOK, ChanTypeOK, Sent
  <2>3. Lists'
    <3>1. UpTo(file, Sent) /\ Sent \in 0..Sent /\ \A m \in ran : m <= Sent
      BY Types DEF IInv, Lists
    <3>2. \E k \in 0..Sent : UpTo(todo', k) /\ \A m \in ran : m <= k
      BY <2>1, <3>1
    <3> QED BY <1>1, <2>1, <3>1, <3>2 DEF IInv, Lists, UpTo, Sent
  <2>4. \A n : Through(n)
    BY <2>1 DEF Through
  <2>5. Tops' /\ Mirrored' /\ Remembered'
    BY <1>1, <2>4 DEF IInv, Tops, IsNewest, Mirrored, Remembered, Truth, AllOn
  <2> QED BY <2>2, <2>3, <2>5 DEF IInv
<1>3. CASE ClearCommands
  <2>1. todo' = todo /\ file' \in {<<>>, file} /\ reading' = FALSE /\ pc' = pc
    BY <1>3 DEF ClearCommands, BotClears
  <2>2. TypeOK'
    <3>1. <<>> \in Seq(1..Sent) /\ file \in Seq(1..Sent)
      BY Types DEF IInv
    <3>2. file' \in Seq(1..Sent)
      BY <2>1, <3>1
    <3> QED BY <1>1, <2>1, <3>2 DEF IInv, TypeOK, ChanTypeOK, Sent
  <2>3. Lists'
    <3>1. UpTo(file', Sent)
      BY <2>1 DEF IInv, Lists, UpTo
    <3> QED BY <1>1, <2>1, <3>1 DEF IInv, Lists, UpTo, Sent
  <2>4. Tops' /\ Mirrored' /\ Remembered'
    BY <1>1, <2>1 DEF IInv, Tops, IsNewest, Mirrored, Remembered, Truth, Through, AllOn
  <2> QED BY <2>2, <2>3, <2>4 DEF IInv
<1> QED BY <1>2, <1>3

-----------------------------------------------------------------------------
\* A list's command is run: the newest of its engine so far, or another of that
\* engine follows in the list, as the list has no gap.
LEMMA RunKeeps == IInv /\ RunSwitch => IInv'
<1> SUFFICES ASSUME IInv, RunSwitch PROVE IInv'
  OBVIOUS
<1> DEFINE n == Head(todo)
<1>1. /\ todo # <<>> /\ todo' = Tail(todo)
      /\ on' = [on EXCEPT ![text[n].engine] = text[n].on]
      /\ disk' = [disk EXCEPT !.p1 = [day |-> day', on |-> on']]
      /\ ran' = ran \cup {n} /\ excused' = (excused \/ Overwrites)
      /\ UNCHANGED <<text, file, draft, reading, market, today, pc, ready, day, crashes>>
  BY DEF RunSwitch, BotRuns, SetEngine, SaveP1, P1, clock
<1>2. PICK k \in 0..Sent : UpTo(todo, k) /\ \A m \in ran : m <= k
  BY DEF IInv, Lists
<1>3. k \in Nat /\ k <= Sent /\ Sent \in Nat /\ todo \in Seq(1..Sent)
  BY Types DEF IInv
<1>4. /\ UpTo(todo', k) /\ Len(todo') = Len(todo) - 1
      /\ n = k - Len(todo) + 1 /\ Len(todo) >= 1 /\ Len(todo) \in Nat
      /\ \A i \in 1..Len(todo') : todo'[i] = todo[i + 1]
  BY <1>1, <1>2, <1>3, TailRuns
<1>5. n \in 1..Sent /\ todo' \in Seq(1..Sent) /\ n <= k
  BY <1>1, <1>3, <1>4
<1>6. text[n].engine \in Engines /\ text[n].on \in BOOLEAN
  BY <1>5, Types DEF IInv
<1>7. on' \in [Engines -> BOOLEAN] /\ ran' \subseteq 1..Sent
  BY <1>1, <1>5, <1>6, Types DEF IInv
<1>8. /\ disk' \in [day : 0..today, p1 : [day : 0..today, on : [Engines -> BOOLEAN]]]
      /\ disk'.day = disk.day /\ disk'.p1.day = day /\ disk'.p1.on = on'
  BY <1>1, <1>7, Types DEF IInv
<1> HIDE DEF n
<1>9. TypeOK'
  BY <1>1, <1>5, <1>7, <1>8 DEF IInv, TypeOK, ChanTypeOK, Sent
<1>10. Lists'
  <2>1. \A m \in ran' : m <= k
    BY <1>1, <1>2, <1>5
  <2> QED BY <1>1, <1>2, <1>4, <2>1 DEF IInv, Lists, UpTo, Sent
<1>11. Mirrored'
  BY <1>1, <1>8 DEF IInv, Mirrored
<1>12. Tops'
  <2>1. ASSUME NEW m \in ran'
        PROVE  \E q \in ran' : /\ text[q].engine = text[m].engine
                               /\ \A r \in ran' : text[r].engine = text[q].engine => r <= q
    <3>1. ran \subseteq Nat /\ n \in Nat
      BY <1>5, Types DEF IInv
    <3>2. CASE \E p \in ran : text[p].engine = text[m].engine
      <4>1. PICK q \in ran : /\ text[q].engine = text[m].engine
                             /\ \A r \in ran : text[r].engine = text[q].engine => r <= q
        BY <3>2 DEF IInv, Tops, IsNewest
      <4>2. CASE text[n].engine = text[m].engine /\ n > q
        BY <1>1, <3>1, <4>1, <4>2
      <4>3. CASE ~(text[n].engine = text[m].engine /\ n > q)
        BY <1>1, <3>1, <4>1, <4>3
      <4> QED BY <4>2, <4>3
    <3>3. CASE ~\E p \in ran : text[p].engine = text[m].engine
      <4>1. m = n
        BY <1>1, <3>3
      <4> QED BY <1>1, <3>1, <3>3, <4>1
    <3> QED BY <3>2, <3>3
  <2> QED BY <1>1, <2>1 DEF Tops, IsNewest
<1>13. Remembered'
  <2> SUFFICES ASSUME ~excused', NEW m \in ran', IsNewest(m)', Through(m)'
               PROVE  on'[text[m].engine] = text[m].on
    BY <1>1, <1>8 DEF Remembered, Truth
  <2>1. ~excused /\ ~Overwrites
    BY <1>1
  <2>2. on = disk.p1.on
    BY <2>1 DEF Overwrites, IInv, Mirrored
  <2>3. text[m].engine \in Engines /\ m \in 1..Sent /\ m \in Nat
    BY <1>7, Types DEF IInv
  <2>4. CASE text[m].engine = text[n].engine
    <3>1. n <= m
      BY <1>1, <2>4 DEF IsNewest
    <3>2. m <= k
      BY <1>1, <1>2, <1>5
    <3>3. ASSUME n < m PROVE FALSE
      <4> DEFINE i == m - n
      <4>1. i \in 1..Len(todo')
        BY <1>3, <1>4, <2>3, <3>2, <3>3
      <4>2. todo'[i] = m
        <5>1. todo'[i] = k - Len(todo') + i
          BY <1>4, <4>1 DEF UpTo
        <5> QED BY <1>3, <1>4, <1>5, <2>3, <5>1
      <4>3. text[todo'[i]].engine # text[m].engine
        BY <1>1, <4>1 DEF Through
      <4> QED BY <4>2, <4>3
    <3>4. m = n
      BY <1>5, <2>3, <3>1, <3>3
    <3> QED BY <1>1, <1>6, <3>4, Types DEF IInv
  <2>5. CASE text[m].engine # text[n].engine
    <3>1. m \in ran
      BY <1>1, <2>5
    <3>2. IsNewest(m)
      BY <1>1 DEF IsNewest
    <3>3. Through(m)
      <4>1. ASSUME NEW i \in 1..Len(todo) PROVE text[todo[i]].engine # text[m].engine
        <5>1. CASE i = 1
          <6>1. todo[1] = n
            BY <1>2, <1>4 DEF UpTo
          <6> QED BY <2>5, <5>1, <6>1
        <5>2. CASE i # 1
          <6>1. i - 1 \in 1..Len(todo') /\ (i - 1) + 1 = i
            BY <1>4, <5>2
          <6>2. todo'[i - 1] = todo[i]
            BY <1>4, <6>1
          <6> QED BY <1>1, <6>1, <6>2 DEF Through
        <5> QED BY <5>1, <5>2
      <4> QED BY <4>1 DEF Through
    <3>4. on[text[m].engine] = text[m].on
      BY <2>1, <2>2, <3>1, <3>2, <3>3 DEF IInv, Remembered, Truth
    <3> QED BY <1>1, <2>3, <2>5, <3>4, Types DEF IInv
  <2> QED BY <2>4, <2>5
<1> QED BY <1>9, <1>10, <1>11, <1>12, <1>13 DEF IInv

-----------------------------------------------------------------------------
\* The sleep saves what the process has, which is no switch of its own unless
\* the mirror has none either.
LEMMA FallAsleepKeeps == IInv /\ FallAsleep => IInv'
<1> SUFFICES ASSUME IInv, FallAsleep PROVE IInv'
  OBVIOUS
<1>1. /\ disk' = [day |-> day', p1 |-> [day |-> day', on |-> on']]
      /\ excused' = (excused \/ Overwrites) /\ pc' = "asleep"
      /\ UNCHANGED <<text, file, draft, todo, reading, market, today, on, ready, day, ran, crashes>>
  BY DEF FallAsleep, SaveState, P1, memory, chan, clock
<1>2. disk' \in [day : 0..today, p1 : [day : 0..today, on : [Engines -> BOOLEAN]]]
  BY <1>1, Types DEF IInv
<1>3. TypeOK'
  BY <1>1, <1>2 DEF IInv, TypeOK, ChanTypeOK, Sent
<1>4. Lists' /\ Tops' /\ Mirrored'
  BY <1>1 DEF IInv, Lists, UpTo, Sent, Tops, IsNewest, Mirrored
<1>5. Remembered'
  <2>1. ~excused' => ~excused /\ on = disk.p1.on
    BY <1>1 DEF Overwrites, IInv, Mirrored
  <2> QED BY <1>1, <2>1 DEF IInv, Remembered, Truth, Through, IsNewest
<1> QED BY <1>3, <1>4, <1>5 DEF IInv

\* A pass rolls the day or recovers; the mirror is always of the day, so the
\* recovery always reads it.
LEMMA PassKeeps == IInv /\ TradingPass => IInv'
<1> SUFFICES ASSUME IInv, TradingPass PROVE IInv'
  OBVIOUS
<1>1. /\ ready' = TRUE /\ pc' = "idle"
      /\ UNCHANGED <<text, file, draft, todo, reading, market, today, ran, crashes>>
  BY DEF TradingPass, chan, clock
<1>2. today \in Nat /\ today >= 1 /\ today \in 0..today
  BY SwitchBounds, Types DEF IInv
<1>3. /\ day' = today /\ on' \in {on, disk.p1.on}
      /\ disk' = disk \/ disk' = [day |-> today, p1 |-> [day |-> today, on |-> on']]
      /\ disk'.day = today /\ disk'.p1.day = today /\ disk'.p1.on = on'
      /\ ~excused' => ~excused /\ on' = disk.p1.on
  <2>1. CASE Roll
    <3>1. /\ day' = today /\ on' = on /\ excused' = (excused \/ Overwrites)
          /\ disk' = [day |-> today, p1 |-> [day |-> today, on |-> on']]
      BY <2>1 DEF Roll, SaveState, P1
    <3> QED BY <3>1 DEF Overwrites, IInv, Mirrored
  <2>2. CASE Recover
    <3>1. /\ day = today /\ day' = day /\ excused' = excused
          /\ on' = IF ready \/ disk.p1.day # day THEN on ELSE disk.p1.on
          /\ disk' = disk \/ disk' = [day |-> day, p1 |-> [day |-> day, on |-> on']]
      BY <2>2 DEF Recover, SaveState, P1
    <3>2. on' = disk.p1.on /\ disk.p1.day = day /\ disk.day = day
      BY <3>1 DEF IInv, Mirrored
    <3>3. disk'.day = today /\ disk'.p1.day = today /\ disk'.p1.on = on'
      BY <3>1, <3>2
    <3> QED BY <3>1, <3>2, <3>3
  <2> QED BY <2>1, <2>2 DEF TradingPass
<1>4. /\ on' \in [Engines -> BOOLEAN]
      /\ disk' \in [day : 0..today, p1 : [day : 0..today, on : [Engines -> BOOLEAN]]]
  <2>1. on' \in [Engines -> BOOLEAN]
    BY <1>3, Types DEF IInv
  <2> QED BY <1>2, <1>3, <2>1, Types DEF IInv
<1>5. excused' \in BOOLEAN
  BY DEF TradingPass, Roll, Recover, Overwrites, IInv, TypeOK
<1>6. TypeOK'
  BY <1>1, <1>2, <1>3, <1>4, <1>5 DEF IInv, TypeOK, ChanTypeOK, Sent
<1>7. Lists' /\ Tops' /\ Mirrored'
  BY <1>1, <1>3 DEF IInv, Lists, UpTo, Sent, Tops, IsNewest, Mirrored
<1>8. Remembered'
  BY <1>1, <1>3 DEF IInv, Remembered, Truth, Through, IsNewest
<1> QED BY <1>6, <1>7, <1>8 DEF IInv

\* The process ends: what it had not run is gone, the mirror stays.
LEMMA CrashKeeps == IInv /\ Crash => IInv'
<1> SUFFICES ASSUME IInv, Crash PROVE IInv'
  OBVIOUS
<1>1. /\ pc' = "down" /\ on' = AllOn /\ ready' = FALSE /\ day' = disk.day
      /\ todo' = <<>> /\ reading' = FALSE /\ crashes < MaxCrashes /\ crashes' = crashes + 1
      /\ excused' = (excused \/ todo # <<>>)
      /\ UNCHANGED <<text, file, draft, market, today, disk, ran>>
  BY DEF Crash, BotForgets, clock
<1>2. crashes' \in 0..MaxCrashes
  BY <1>1, SwitchBounds DEF IInv, TypeOK
<1>3. day' \in 0..today /\ day' = day /\ <<>> \in Seq(1..Sent) /\ AllOn \in [Engines -> BOOLEAN]
  BY <1>1, Types DEF IInv, Mirrored
<1>4. TypeOK'
  BY <1>1, <1>2, <1>3 DEF IInv, TypeOK, ChanTypeOK, Sent
<1>5. Lists'
  <2>1. Sent \in 0..Sent /\ UpTo(<<>>, Sent) /\ \A m \in ran : m <= Sent
    BY Types DEF IInv, UpTo
  <2>2. \E k \in 0..Sent : UpTo(todo', k) /\ \A m \in ran : m <= k
    BY <1>1, <2>1
  <2> QED BY <1>1, <2>2 DEF IInv, Lists, UpTo, Sent
<1>6. Tops' /\ Mirrored'
  BY <1>1, <1>3 DEF IInv, Tops, IsNewest, Mirrored, AllOn
<1>7. Remembered'
  <2>1. ~excused' => ~excused /\ todo = <<>>
    BY <1>1
  <2> QED BY <1>1, <2>1 DEF IInv, Remembered, Truth, Through, IsNewest
<1> QED BY <1>4, <1>5, <1>6, <1>7 DEF IInv

LEMMA InitIInv == Init => IInv
<1> SUFFICES ASSUME Init PROVE IInv
  OBVIOUS
<1>1. /\ text = <<>> /\ file = <<>> /\ todo = <<>> /\ draft = NoDraft /\ reading = FALSE
      /\ Sent = 0 /\ Len(file) = 0 /\ Len(todo) = 0 /\ ran = {}
  BY DEF Init, ChanInit, Sent
<1>2. TypeOK
  <2>1. AllOn \in [Engines -> BOOLEAN] /\ 1 \in 1..MaxDays /\ 0 \in 0..1
    BY SwitchBounds DEF AllOn
  <2>2. ChanTypeOK
    <3>1. <<>> \in Seq(1..Sent) /\ <<>> \in Seq(Texts) /\ Sent <= MaxSent
      BY <1>1, SentBound
    <3> QED BY <1>1, <3>1 DEF ChanTypeOK
  <2>3. disk \in [day : 0..today, p1 : [day : 0..today, on : [Engines -> BOOLEAN]]]
    BY <2>1 DEF Init
  <2>4. /\ market = "open" /\ today = 1 /\ pc = "boot" /\ on = AllOn /\ ready = FALSE /\ day = 0
        /\ excused = FALSE /\ crashes = 0 /\ 0 \in 0..MaxCrashes /\ disk.day = 0
    BY SwitchBounds DEF Init
  <2> QED BY <1>1, <2>1, <2>2, <2>3, <2>4 DEF TypeOK
<1>3. Lists
  BY <1>1 DEF Lists, UpTo
<1> QED BY <1>1, <1>2, <1>3 DEF Init, IInv, Tops, Mirrored, Remembered, Truth, AllOn

LEMMA NextKeeps == IInv /\ [Next]_vars => IInv'
<1>1. IInv /\ UNCHANGED vars => IInv'
  <2> SUFFICES ASSUME IInv, UNCHANGED vars PROVE IInv'
    OBVIOUS
  <2>1. TypeOK'
    BY DEF vars, chan, clock, memory, IInv, TypeOK, ChanTypeOK, Sent
  <2>2. Lists'
    BY DEF vars, chan, IInv, Lists, UpTo, Sent
  <2>3. Tops' /\ Mirrored' /\ Remembered'
    BY DEF vars, chan, memory, IInv, Tops, IsNewest, Mirrored, Remembered, Truth, Through, AllOn
  <2> QED BY <2>1, <2>2, <2>3 DEF IInv
<1> QED BY <1>1, MarketKeeps, GatewayKeeps, ReadsKeep, RunKeeps, FallAsleepKeeps, WaitsKeep,
          PassKeeps, CrashKeeps DEF Next, Loop

LEMMA Inductive == Spec => []IInv
BY InitIInv, NextKeeps, PTL DEF Spec

-----------------------------------------------------------------------------
(* The type of the state; a process that has recovered has rolled to a day.  *)
THEOREM TypeCorrect == Spec => []TypeOK
<1>1. IInv => TypeOK
  BY DEF IInv
<1> QED BY <1>1, Inductive, PTL

(* Between two lists an engine's switch is what the newest command run for *)
(* it asked, through lost and repeated commands, sleeps, crashes, restarts *)
(* and day rolls, unless a switch was lost in one of the ways `excused`    *)
(* records (_handle_commands, p1_state.save, recover_on_boot).             *)
THEOREM SwitchesAreKept == Spec => []SwitchIsNewest
<1>1. IInv => SwitchIsNewest
  <2> SUFFICES ASSUME IInv, todo = <<>>, ready, ~excused, NEW e \in Engines, AskedOf(e) # {}
               PROVE  on[e] = text[Newest(AskedOf(e))].on
    BY DEF SwitchIsNewest
  <2>1. PICK n \in AskedOf(e) : \A m \in AskedOf(e) : m <= n
    BY DEF IInv, Tops, IsNewest, AskedOf
  <2> DEFINE top == Newest(AskedOf(e))
  <2>2. top \in AskedOf(e) /\ \A m \in AskedOf(e) : m <= top
    BY <2>1 DEF Newest
  <2> HIDE DEF top
  <2>3. top \in ran /\ text[top].engine = e /\ IsNewest(top) /\ Through(top)
    BY <2>2 DEF AskedOf, IsNewest, Through
  <2> QED BY <2>3 DEF IInv, Mirrored, Remembered, Truth, top
<1> QED BY <1>1, Inductive, PTL
=============================================================================
