----------------------- MODULE CredentialStoreProofs -----------------------
(***************************************************************************)
(* For any number of flash tasks, pairs, requests and losses of power, and *)
(* whatever fails: at rest, flash holds what RAM holds, and a station runs *)
(* with it, unless one of the named causes intervened.                     *)
(***************************************************************************)
EXTENDS CredentialStore, TLAPS

\* How far a caller or a writer can have come with what it does.
Stages ==
  /\ \A c \in Callers :
       IF c = "http" THEN call[c].step \in {"idle", "post", "persist"}
                     ELSE call[c].step # "persist" /\ call[c].want \in {"AP", "STA"}
  /\ \A w \in Writers : Storing(w) => access[w].at \in {"ssid", "pass"}
  /\ Storing("http") => call["http"].step = "persist"
  /\ access["http"].op # "load"
  /\ drv.step = "none" => drv = NoRun

\* A driver run will read the manager's pair, or has it, or the radio has.
StartAhead == \/ \E i \in 1 .. Len(queue) : queue[i].event = "START"
              \/ svc.event = "START"
PairRuns ==
  \/ StartAhead
  \/ drv.step \in {"mode", "pair"}
  \/ drv.step = "up" /\ (drv.mode = "STA" => drv.pair = ram)
  \/ drv.step = "none" /\ (radio.mode = "STA" => radio.pair = ram)
Applied == unapplied = "no" => PairRuns

\* Where the pair of the manager is on its way to flash: with a caller about
\* to post it, in the last STORE of the queue, with the service, with the only
\* writer, or in flash; or there is none and a LOAD is still to be made.
NoStoreFrom(n) == \A i \in n .. Len(queue) : queue[i].event # "STORE"

InCall  == \E c \in Callers : call[c].step = "post" /\ call[c].pair = ram
InQueue == \E i \in 1 .. Len(queue) : /\ queue[i].event = "STORE" /\ queue[i].pair = ram
                                      /\ NoStoreFrom(i + 1)
InSvc   == svc.event = "STORE" /\ svc.pair = ram /\ NoStoreFrom(1)
InTask  == /\ NoStoreFrom(1) /\ svc.event # "STORE"
           /\ \E w \in Writers :
                /\ Storing(w) /\ access[w].pair = ram
                /\ access[w].at = "pass" => flash.ssid = ram.ssid
                /\ \A x \in Writers : Storing(x) => x = w
InFlash == ~SavePending /\ flash = ram
ToLoad  ==
  /\ ~SavePending /\ ram = NoPair
  /\ \/ \E i \in 1 .. Len(queue) : queue[i].event = "LOAD"
     \/ svc.event = "LOAD"
     \/ \E w \in Writers : access[w].op = "load"
OnItsWay == InCall \/ InQueue \/ InSvc \/ InTask \/ InFlash \/ ToLoad
Stored   == apart = "no" => OnItsWay

Inv == TypeOK /\ Stages /\ Applied /\ Stored

-----------------------------------------------------------------------------
(* Facts about queues and pairs.                                            *)

Messages == [event : Events, pair : Pairs]

\* A message put behind a queue leaves the others where they are.
LEMMA AppendLast ==
  ASSUME NEW q \in Seq(Messages), NEW m \in Messages
  PROVE  /\ Append(q, m) \in Seq(Messages)
         /\ Len(Append(q, m)) = Len(q) + 1
         /\ \A i \in 1 .. Len(q) : Append(q, m)[i] = q[i]
         /\ Append(q, m)[Len(q) + 1] = m
OBVIOUS

\* Taking the first message moves the others up.
LEMMA TakeFirst ==
  ASSUME NEW q \in Seq(Messages), q # <<>>
  PROVE  /\ Head(q) \in Messages /\ Head(q) = q[1]
         /\ Tail(q) \in Seq(Messages)
         /\ Len(q) \in Nat \ {0} /\ Len(Tail(q)) = Len(q) - 1
         /\ \A i \in 1 .. Len(Tail(q)) : Tail(q)[i] = q[i + 1]
OBVIOUS

\* Every number given stands for a pair, and 0 for none.
LEMMA PairTypes ==
  /\ NoPair \in Pairs
  /\ \A n \in Versions : Pair(n) \in Pairs
  /\ \A e \in Events, p \in Pairs : Msg(e, p) \in Messages
  /\ NoMsg \in Msgs /\ Messages \subseteq Msgs
BY CredentialAssumption DEF NoPair, Pairs, Pair, Versions, Msg, NoMsg, Msgs, Messages

Accesses == [op : {"none", "store", "load"}, at : {"ssid", "pass", "ram"},
             pair : Pairs, stale : BOOLEAN]
CallStates == [step : {"idle", "post", "persist", "compare", "record", "start", "spawn"},
               want : {"save", "AP", "STA"}, pair : Pairs]
Runs == [step : {"none", "mode", "pair", "up"}, mode : {"AP", "STA"}, pair : Pairs]

\* What a writer, a caller and a run begin with.
LEMMA StartTypes ==
  /\ Free \in Accesses /\ Load \in Accesses
  /\ \A p \in Pairs : Store(p) \in Accesses
  /\ NoCall \in CallStates /\ NoRun \in Runs
BY PairTypes DEF Free, Load, Store, NoCall, NoRun, Accesses, CallStates, Runs

-----------------------------------------------------------------------------
(* Types and stages.                                                        *)

Typing == TypeOK /\ Stages

\* The state after boot, and after every loss of power.
LEMMA TypingInit == Init => Typing
<1> SUFFICES ASSUME Init PROVE Typing
  OBVIOUS
<1>1. Posted \in Seq(Messages) /\ Len(Posted) = 2
  BY PairTypes DEF Posted, Events
<1>2. flash \in Pairs /\ given \in Versions /\ asks \in 0 .. MaxAsks /\ losses \in 0 .. MaxLosses
  BY PairTypes, CredentialAssumption DEF Init, Versions
<1>3. TypeOK
  BY <1>1, <1>2, PairTypes, StartTypes, CredentialAssumption
     DEF Init, TypeOK, Off, Up, Messages, Accesses, CallStates, Runs
<1>4. Stages
  BY CredentialAssumption DEF Init, Stages, Storing, Free, NoCall, Writers, Callers, NoRun
<1> QED BY <1>3, <1>4 DEF Typing

\* Setting RAM touches the writers only where a load is under way.
LEMMA SetRamTypes ==
  ASSUME NEW p \in Pairs, NEW acc \in [Writers -> Accesses], SetRam(p, acc)
  PROVE  /\ ram' = p /\ unapplied' = "only set"
         /\ access' \in [Writers -> Accesses]
         /\ \A w \in Writers : /\ access'[w].op = acc[w].op
                               /\ access'[w].at = acc[w].at
                               /\ access'[w].pair = acc[w].pair
BY DEF SetRam, Accesses

\* What Post leaves is a queue within its bound.
LEMMA PostTypes ==
  ASSUME NEW m \in Messages, Post(m), queue \in Seq(Messages), Len(queue) <= QueueLen
  PROVE  queue' \in Seq(Messages) /\ Len(queue') <= QueueLen
<1>1. CASE Send(m)
  BY <1>1, AppendLast, CredentialAssumption DEF Send, Room
<1>2. CASE UNCHANGED queue
  BY <1>2
<1> QED BY <1>1, <1>2 DEF Post

\* A spawned task begins with the first key.
LEMMA SpawnTypes ==
  ASSUME NEW a \in Accesses, Spawn(a), access \in [Writers -> Accesses],
         a.op = "store" => a.at = "ssid"
  PROVE  /\ access' \in [Writers -> Accesses]
         /\ access'["http"] = access["http"]
         /\ \A w \in Writers : access'[w] = access[w] \/ access'[w] = a
BY CredentialAssumption DEF Spawn, Writers, Accesses

\* A caller that goes on within its call.
LEMMA StepTypes ==
  ASSUME NEW c \in Callers, call \in [Callers -> CallStates],
         NEW s \in {"idle", "post", "persist", "compare", "record", "start", "spawn"},
         Step(c, s)
  PROVE  /\ call' \in [Callers -> CallStates]
         /\ call'[c].step = s /\ call'[c].want = call[c].want /\ call'[c].pair = call[c].pair
         /\ \A d \in Callers : d # c => call'[d] = call[d]
BY DEF Step, CallStates

Apart == {"no", "only RAM", "crossed", "dropped", "overlap", "late", "failed"}
Unapplied == {"no", "only set", "full", "busy", "failed"}

\* The same types in the names used here, now and after a step.
LEMMA Types ==
  /\ TypeOK <=>
       /\ ram \in Pairs /\ mode \in {"AP", "STA"} /\ flash \in Pairs
       /\ queue \in Seq(Messages) /\ Len(queue) <= QueueLen
       /\ svc \in Msgs /\ access \in [Writers -> Accesses]
       /\ call \in [Callers -> CallStates] /\ drv \in Runs
       /\ radio \in [mode : {"OFF", "AP", "STA"}, pair : Pairs]
       /\ given \in Versions /\ asks \in 0 .. MaxAsks /\ losses \in 0 .. MaxLosses
       /\ apart \in Apart /\ unapplied \in Unapplied
  /\ TypeOK' <=>
       /\ ram' \in Pairs /\ mode' \in {"AP", "STA"} /\ flash' \in Pairs
       /\ queue' \in Seq(Messages) /\ Len(queue') <= QueueLen
       /\ svc' \in Msgs /\ access' \in [Writers -> Accesses]
       /\ call' \in [Callers -> CallStates] /\ drv' \in Runs
       /\ radio' \in [mode : {"OFF", "AP", "STA"}, pair : Pairs]
       /\ given' \in Versions /\ asks' \in 0 .. MaxAsks /\ losses' \in 0 .. MaxLosses
       /\ apart' \in Apart /\ unapplied' \in Unapplied
BY DEF TypeOK, Messages, Accesses, CallStates, Runs, Apart, Unapplied

\* Every step keeps types and stages.
LEMMA TypingStep == Typing /\ [Next]_vars => Typing'
<1> SUFFICES ASSUME TypeOK, Stages, [Next]_vars PROVE TypeOK' /\ Stages'
  BY DEF Typing
<1> USE DEF counts, history, manager, driver, Storing, Callers
<1>t. /\ "http" \in Writers /\ \A w \in Workers : w # "http" /\ w \in Writers
      /\ NoPair \in Pairs /\ Free \in Accesses /\ NoCall \in CallStates
      /\ Free.op = "none" /\ NoCall.step = "idle" /\ NoCall.want = "AP"
  BY CredentialAssumption, PairTypes, StartTypes DEF Writers, Free, NoCall
<1>a. access \in [Writers -> Accesses]
  BY Types
<1>0. ASSUME UNCHANGED vars PROVE TypeOK' /\ Stages'
  BY <1>0, Types DEF vars, Stages
<1>1. ASSUME NewPair PROVE Pair(given') \in Pairs /\ given' \in Versions
  BY <1>1, CredentialAssumption, Types, PairTypes DEF NewPair, Versions
<1>2. ASSUME NEW c \in {"loop", "app"}, NEW want, Asks(c, want) PROVE asks' \in 0 .. MaxAsks
  BY <1>2, CredentialAssumption, Types DEF Asks
<1>3. CASE HttpSave
  <2>1. SetRam(Pair(given'), access) /\ NewPair /\ call["http"] = NoCall
    BY <1>3 DEF HttpSave
  <2>2. /\ access' \in [Writers -> Accesses] /\ ram' \in Pairs /\ unapplied' = "only set"
        /\ \A w \in Writers : access'[w].op = access[w].op /\ access'[w].at = access[w].at
    BY <1>1, <1>a, <2>1, SetRamTypes
  <2>3. call' = [call EXCEPT !["http"] = [step |-> "post", want |-> "save", pair |-> ram']]
    BY <1>3 DEF HttpSave, Enter
  <2>4. call' \in [Callers -> CallStates]
    BY <2>2, <2>3, Types DEF CallStates
  <2>5. TypeOK'
    BY <1>1, <1>3, <2>1, <2>2, <2>4, Types DEF HttpSave, Apart, Unapplied
  <2>6. Stages'
    BY <1>3, <1>t, <2>1, <2>2, <2>3, Types DEF HttpSave, Stages
  <2> QED BY <2>5, <2>6
<1>4. ASSUME NEW c \in {"loop", "app"}, AskWithPair(c) PROVE TypeOK' /\ Stages'
  <2>1. SetRam(Pair(given'), access) /\ NewPair /\ asks' \in 0 .. MaxAsks
    BY <1>2, <1>4 DEF AskWithPair
  <2>2. /\ access' \in [Writers -> Accesses] /\ ram' \in Pairs /\ unapplied' = "only set"
        /\ \A w \in Writers : access'[w].op = access[w].op /\ access'[w].at = access[w].at
    BY <1>1, <1>a, <2>1, SetRamTypes
  <2>3. call' = [call EXCEPT ![c] = [step |-> IF c = "loop" THEN "post" ELSE "compare",
                                     want |-> "STA", pair |-> ram']]
    BY <1>4 DEF AskWithPair, Enter
  <2>4. call' \in [Callers -> CallStates]
    BY <2>2, <2>3, Types DEF CallStates
  <2>5. TypeOK'
    BY <1>1, <1>4, <2>1, <2>2, <2>4, Types DEF AskWithPair, Apart, Unapplied
  <2>6. Stages'
    BY <1>4, <1>t, <2>2, <2>3, Types DEF AskWithPair, Stages
  <2> QED BY <2>5, <2>6
<1>5. ASSUME NEW c \in {"loop", "app"}, Ask(c) PROVE TypeOK' /\ Stages'
  <2>1. PICK want \in {"AP", "STA"} :
          /\ Asks(c, want) /\ Enter(c, "compare", want, NoPair)
          /\ UNCHANGED <<manager, queue, svc, access, flash, driver, given, losses, history>>
    BY <1>5 DEF Ask
  <2>2. call' = [call EXCEPT ![c] = [step |-> "compare", want |-> want, pair |-> NoPair]]
    BY <2>1 DEF Enter
  <2>3. call' \in [Callers -> CallStates]
    BY <1>t, <2>2, Types DEF CallStates
  <2>4. TypeOK'
    BY <1>2, <2>1, <2>3, Types
  <2>5. Stages'
    BY <1>t, <2>1, <2>2, Types DEF Stages
  <2> QED BY <2>4, <2>5
<1>6. ASSUME NEW c \in Callers, PostStore(c) PROVE TypeOK' /\ Stages'
  <2>1. Msg("STORE", call[c].pair) \in Messages
    BY PairTypes, Types DEF CallStates, Events
  <2>2. queue' \in Seq(Messages) /\ Len(queue') <= QueueLen
    BY <1>6, <2>1, PostTypes, Types DEF PostStore, StoreOf, Post
  <2>3. CASE c = "http"
    <3>1. call' = [call EXCEPT ![c] = NoCall]
      BY <1>6, <2>3 DEF PostStore
    <3>2. call' \in [Callers -> CallStates]
      BY <1>t, <3>1, Types
    <3>3. TypeOK'
      BY <1>6, <2>2, <3>2, Types DEF PostStore, Cause, Apart
    <3>4. Stages'
      BY <1>t, <1>6, <2>3, <3>1, Types DEF PostStore, Stages
    <3> QED BY <3>3, <3>4
  <2>4. CASE c # "http"
    <3>1. Step(c, "compare")
      BY <1>6, <2>4 DEF PostStore
    <3>2. TypeOK'
      BY <1>6, <2>2, <3>1, StepTypes, Types DEF PostStore, Cause, Apart
    <3>3. Stages'
      BY <1>t, <1>6, <2>4, <3>1, StepTypes, Types DEF PostStore, Stages
    <3> QED BY <3>2, <3>3
  <2> QED BY <2>3, <2>4
<1>7. CASE LoopDropsStore
  <2>1. Step("loop", "compare")
    BY <1>7 DEF LoopDropsStore
  <2>2. TypeOK'
    BY <1>7, <2>1, StepTypes, Types DEF LoopDropsStore, Apart
  <2>3. Stages'
    BY <1>t, <1>7, <2>1, StepTypes, Types DEF LoopDropsStore, Stages
  <2> QED BY <2>2, <2>3
<1>8. CASE HttpFallback
  <2>1. Step("http", "persist") /\ access' = [access EXCEPT !["http"] = Store(call["http"].pair)]
    BY <1>8 DEF HttpFallback
  <2>2. Store(call["http"].pair) \in Accesses
    BY StartTypes, Types DEF CallStates
  <2>3. access' \in [Writers -> Accesses]
    BY <1>t, <2>1, <2>2, Types
  <2>4. TypeOK'
    BY <1>8, <2>1, <2>3, StepTypes, Types DEF HttpFallback, Cause, Apart
  <2>5. Stages'
    BY <1>t, <1>8, <2>1, StepTypes, Types DEF HttpFallback, Stages, Store, Free
  <2> QED BY <2>4, <2>5
<1>9. ASSUME NEW c \in Callers, Compare(c) PROVE TypeOK' /\ Stages'
  <2>1. CASE call[c].want = mode
    <3>1. call' = [call EXCEPT ![c] = NoCall]
      BY <1>9, <2>1 DEF Compare
    <3>2. call' \in [Callers -> CallStates]
      BY <1>t, <3>1, Types
    <3>3. TypeOK'
      BY <1>9, <3>2, Types DEF Compare
    <3>4. Stages'
      BY <1>t, <1>9, <3>1, Types DEF Compare, Stages
    <3> QED BY <3>3, <3>4
  <2>2. CASE call[c].want # mode
    <3>1. Step(c, "record")
      BY <1>9, <2>2 DEF Compare
    <3>2. TypeOK'
      BY <1>9, <3>1, StepTypes, Types DEF Compare
    <3>3. Stages'
      BY <1>t, <1>9, <3>1, StepTypes, Types DEF Compare, Stages
    <3> QED BY <3>2, <3>3
  <2> QED BY <2>1, <2>2
<1>10. ASSUME NEW c \in Callers, Record(c) PROVE TypeOK' /\ Stages'
  <2>1. Step(c, "start") /\ mode' = call[c].want /\ c # "http"
    BY <1>10 DEF Record, Stages
  <2>2. mode' \in {"AP", "STA"}
    BY <2>1 DEF Stages
  <2>3. TypeOK'
    BY <1>10, <2>1, <2>2, StepTypes, Types DEF Record
  <2>4. Stages'
    BY <1>t, <1>10, <2>1, StepTypes, Types DEF Record, Stages
  <2> QED BY <2>3, <2>4
<1>11. ASSUME NEW c \in Callers, PostStart(c) PROVE TypeOK' /\ Stages'
  <2>1. Msg("START", NoPair) \in Messages
    BY PairTypes DEF Events
  <2>2. queue' \in Seq(Messages) /\ Len(queue') <= QueueLen
    BY <1>11, <2>1, PostTypes, Types DEF PostStart
  <2>3. call' = [call EXCEPT ![c] = NoCall]
    BY <1>11 DEF PostStart
  <2>4. call' \in [Callers -> CallStates]
    BY <1>t, <2>3, Types
  <2>5. TypeOK'
    BY <1>11, <2>2, <2>4, Types DEF PostStart, Unapplied
  <2>6. Stages'
    BY <1>t, <1>11, <2>3, Types DEF PostStart, Stages
  <2> QED BY <2>5, <2>6
<1>12. CASE SvcTake
  <2>1. /\ svc' = Head(queue) /\ queue' = Tail(queue) /\ svc' \in Msgs
        /\ queue' \in Seq(Messages) /\ Len(queue') <= QueueLen
    BY <1>12, TakeFirst, PairTypes, CredentialAssumption, Types DEF SvcTake
  <2>2. TypeOK'
    BY <1>12, <2>1, Types DEF SvcTake
  <2>3. Stages'
    BY <1>12 DEF SvcTake, Stages
  <2> QED BY <2>2, <2>3
<1>13. CASE SvcSeed
  <2>1. SetRam(svc.pair, access) /\ svc.pair \in Pairs
    BY <1>13, Types DEF SvcSeed, Msgs
  <2>2. /\ access' \in [Writers -> Accesses] /\ ram' \in Pairs /\ unapplied' = "only set"
        /\ \A w \in Writers : access'[w].op = access[w].op /\ access'[w].at = access[w].at
    BY <1>a, <2>1, SetRamTypes
  <2>3. svc' \in Msgs
    BY <1>13, PairTypes DEF SvcSeed, Events
  <2>4. TypeOK'
    BY <1>13, <2>2, <2>3, Types DEF SvcSeed, Apart, Unapplied
  <2>5. Stages'
    BY <1>13, <1>t, <2>2 DEF SvcSeed, Stages
  <2> QED BY <2>4, <2>5
<1>14. CASE SvcStart
  <2>1. svc' \in Msgs
    BY <1>14, PairTypes DEF SvcStart
  <2>2. drv' \in Runs /\ (drv'.step = "none" => drv' = NoRun)
    BY <1>14, StartTypes, Types DEF SvcStart, Runs, NoRun, Stages
  <2>3. TypeOK'
    BY <1>14, <2>1, <2>2, Types DEF SvcStart, Unapplied
  <2>4. Stages'
    BY <1>14, <2>2 DEF SvcStart, Stages
  <2> QED BY <2>3, <2>4
<1>15. ASSUME NEW a \in Accesses, Spawn(a), a.op = "store" => a.at = "ssid", a.op # "none",
              UNCHANGED call, UNCHANGED drv
       PROVE  access' \in [Writers -> Accesses] /\ Stages'
  <2>1. /\ access' \in [Writers -> Accesses]
        /\ access'["http"] = access["http"]
        /\ \A w \in Writers : access'[w] = access[w] \/ access'[w] = a
    BY <1>15, SpawnTypes, Types
  <2> QED BY <1>15, <1>t, <2>1 DEF Stages
<1>16. /\ \A p \in Pairs : Store(p) \in Accesses /\ Store(p).op = "store" /\ Store(p).at = "ssid"
       /\ Load \in Accesses /\ Load.op = "load"
  BY StartTypes DEF Store, Load, Free
<1>17. CASE SvcStore
  <2>1. svc' \in Msgs /\ svc.pair \in Pairs /\ apart' \in Apart
    BY <1>17, PairTypes, Types DEF SvcStore, Cause, Apart, Msgs
  <2>2. access' \in [Writers -> Accesses] /\ Stages'
    <3>1. CASE Spawn(Store(svc.pair))
      BY <1>15, <1>16, <1>17, <2>1, <3>1 DEF SvcStore
    <3>2. CASE UNCHANGED access
      BY <1>17, <3>2, Types DEF SvcStore, Stages
    <3> QED BY <1>17, <3>1, <3>2 DEF SvcStore
  <2> QED BY <1>17, <2>1, <2>2, Types DEF SvcStore
<1>18. CASE SvcLoad
  <2>1. svc' \in Msgs /\ apart' \in Apart
    BY <1>18, PairTypes, Types DEF SvcLoad, Apart
  <2>2. access' \in [Writers -> Accesses] /\ Stages'
    <3>1. CASE Spawn(Load)
      BY <1>15, <1>16, <1>18, <3>1 DEF SvcLoad
    <3>2. CASE UNCHANGED access
      BY <1>18, <3>2, Types DEF SvcLoad, Stages
    <3> QED BY <1>18, <3>1, <3>2 DEF SvcLoad
  <2> QED BY <1>18, <2>1, <2>2, Types DEF SvcLoad
<1>19. CASE ApiStore
  <2>1. call' = [call EXCEPT !["app"] = [step |-> "spawn", want |-> "AP", pair |-> ram]]
    BY <1>19, <1>t DEF ApiStore, Enter
  <2>2. call' \in [Callers -> CallStates]
    BY <2>1, Types DEF CallStates
  <2>3. asks' \in 0 .. MaxAsks
    BY <1>19, CredentialAssumption, Types DEF ApiStore
  <2>4. Stages'
    BY <1>19, <1>t, <2>1, Types DEF ApiStore, Stages
  <2> QED BY <1>19, <2>2, <2>3, <2>4, Types DEF ApiStore
<1>35. CASE ApiSpawn
  <2>1. /\ call' = [call EXCEPT !["app"] = NoCall] /\ apart' \in Apart
        /\ UNCHANGED <<manager, queue, svc, flash, driver, counts, unapplied>>
    BY <1>35, Types DEF ApiSpawn, Apart
  <2>2. call' \in [Callers -> CallStates] /\ call["app"].pair \in Pairs
    BY <1>t, <2>1, Types DEF CallStates
  <2>3. /\ access' \in [Writers -> Accesses] /\ access'["http"] = access["http"]
        /\ \A w \in Writers :
             Storing(w)' => \/ Storing(w) /\ access'[w].at = access[w].at
                            \/ access'[w].at = "ssid"
    <3>1. CASE Spawn(Store(call["app"].pair))
      BY <1>16, <1>a, <2>2, <3>1, SpawnTypes
    <3>2. CASE UNCHANGED access
      BY <1>a, <3>2
    <3> QED BY <1>35, <3>1, <3>2 DEF ApiSpawn
  <2>4. Stages'
    BY <1>t, <2>1, <2>3, Types DEF Stages
  <2> QED BY <2>1, <2>2, <2>3, <2>4, Types
<1>20. CASE ApiLoad
  <2>1. asks' \in 0 .. MaxAsks
    BY <1>20, CredentialAssumption, Types DEF ApiLoad
  <2>2. access' \in [Writers -> Accesses] /\ Stages'
    BY <1>15, <1>16, <1>20, Types DEF ApiLoad
  <2> QED BY <1>20, <2>1, <2>2, Types DEF ApiLoad
<1>21. ASSUME NEW w \in Writers, Ends(w)
       PROVE  access' \in [Writers -> Accesses] /\ call' \in [Callers -> CallStates]
  <2>1. access' \in [Writers -> Accesses]
    BY <1>21, <1>a, <1>t DEF Ends
  <2>2. call' \in [Callers -> CallStates]
    BY <1>21, <1>t, Types DEF Ends
  <2> QED BY <2>1, <2>2
<1>22. ASSUME NEW w \in Writers, Ends(w), UNCHANGED drv PROVE Stages'
  <2>1. \A x \in Writers : access'[x] = IF x = w THEN Free ELSE access[x]
    BY <1>22, <1>a DEF Ends
  <2>2. \A c \in Callers : call'[c] = IF c = "http" /\ w = "http" THEN NoCall ELSE call[c]
    BY <1>22, Types DEF Ends
  <2> QED BY <1>22, <1>t, <2>1, <2>2 DEF Stages
<1>23. ASSUME NEW w \in Writers, Storing(w) PROVE access[w].pair[access[w].at] \in Versions
  BY <1>23, <1>a DEF Stages, Accesses, Pairs
<1>24. ASSUME NEW w \in Writers, Storing(w), Put(w) PROVE flash' \in Pairs
  <2>1. access[w].at \in {"ssid", "pass"} /\ flash \in Pairs
    BY <1>24, Types DEF Stages
  <2> QED BY <1>23, <1>24, <2>1 DEF Put, Pairs
<1>25. ASSUME NEW w \in Writers, StoreKey(w) PROVE TypeOK' /\ Stages'
  <2>1. Storing(w) /\ flash' \in Pairs
    BY <1>24, <1>25 DEF StoreKey
  <2>2. CASE access[w].at = "ssid"
    <3>1. access' = [access EXCEPT ![w].at = "pass"] /\ UNCHANGED call
      BY <1>25, <2>2 DEF StoreKey, Continue
    <3>2. access' \in [Writers -> Accesses]
      BY <1>a, <3>1 DEF Accesses
    <3>3. TypeOK'
      BY <1>25, <2>1, <3>1, <3>2, Types DEF StoreKey
    <3>4. Stages'
      BY <1>25, <1>a, <1>t, <3>1 DEF StoreKey, Stages, Accesses
    <3> QED BY <3>3, <3>4
  <2>3. CASE access[w].at # "ssid"
    <3>1. Ends(w)
      BY <1>25, <2>3 DEF StoreKey
    <3>2. TypeOK'
      BY <1>21, <1>25, <2>1, <3>1, Types DEF StoreKey
    <3>3. Stages'
      BY <1>22, <1>25, <3>1 DEF StoreKey
    <3> QED BY <3>2, <3>3
  <2> QED BY <2>2, <2>3
<1>26. ASSUME NEW w \in Writers, StoreFails(w) PROVE TypeOK' /\ Stages'
  <2>1. flash' \in Pairs
    BY <1>24, <1>26, Types DEF StoreFails
  <2>2. TypeOK'
    BY <1>21, <1>26, <2>1, Types DEF StoreFails, Apart
  <2>3. Stages'
    BY <1>22, <1>26 DEF StoreFails
  <2> QED BY <2>2, <2>3
<1>27. ASSUME NEW w \in Writers, LoadKey(w) PROVE TypeOK' /\ Stages'
  <2>1. PICK at \in {"ssid", "pass"} :
          /\ Loading(w, at)
          /\ access' = [access EXCEPT ![w].pair[at] = flash[at],
                                      ![w].at = IF at = "ssid" THEN "pass" ELSE "ram"]
          /\ UNCHANGED <<manager, queue, svc, flash, call, driver, counts, history>>
    BY <1>27 DEF LoadKey
  <2>2. flash[at] \in Versions /\ access[w] \in Accesses
    BY <1>a, Types DEF Pairs
  <2>3. [access[w].pair EXCEPT ![at] = flash[at]] \in Pairs
    BY <2>2 DEF Pairs, Accesses
  <2>4. access' = [access EXCEPT ![w] =
                     [access[w] EXCEPT !.pair = [access[w].pair EXCEPT ![at] = flash[at]],
                                       !.at = IF at = "ssid" THEN "pass" ELSE "ram"]]
    BY <1>a, <2>1, <2>2 DEF Accesses
  <2>5. access' \in [Writers -> Accesses]
    BY <1>a, <2>2, <2>3, <2>4 DEF Accesses
  <2>6. \A x \in Writers : access'[x].op = access[x].op /\ (x # w => access'[x] = access[x])
    BY <1>a, <2>2, <2>4 DEF Accesses
  <2>7. TypeOK'
    BY <2>1, <2>5, Types
  <2>8. Stages'
    BY <1>t, <2>1, <2>6 DEF Stages, Loading
  <2> QED BY <2>7, <2>8
<1>28. ASSUME NEW w \in Writers, LoadEnds(w) PROVE TypeOK' /\ Stages'
  <2>1. /\ access' = [access EXCEPT ![w] = Free]
        /\ apart' = Cause("failed", flash # NoPair)
        /\ UNCHANGED <<manager, queue, svc, flash, call, driver, counts, unapplied>>
    BY <1>28 DEF LoadEnds
  <2>2. access' \in [Writers -> Accesses]
    BY <1>a, <1>t, <2>1
  <2>3. TypeOK'
    BY <2>1, <2>2, Types DEF Cause, Apart
  <2>4. Stages'
    BY <1>a, <1>t, <2>1 DEF Stages
  <2> QED BY <2>3, <2>4
<1>29. ASSUME NEW w \in Writers, LoadSets(w) PROVE TypeOK' /\ Stages'
  <2>1. /\ SetRam(access[w].pair, [access EXCEPT ![w] = Free])
        /\ apart' \in Apart
        /\ UNCHANGED <<mode, queue, svc, flash, call, driver, counts>>
    BY <1>29, Types DEF LoadSets, Cause, Apart
  <2>2. access[w].pair \in Pairs /\ [access EXCEPT ![w] = Free] \in [Writers -> Accesses]
    BY <1>a, <1>t DEF Accesses
  <2>3. /\ ram' \in Pairs /\ unapplied' = "only set" /\ access' \in [Writers -> Accesses]
        /\ \A x \in Writers : /\ access'[x].op = [access EXCEPT ![w] = Free][x].op
                              /\ access'[x].at = [access EXCEPT ![w] = Free][x].at
    BY <2>1, <2>2, SetRamTypes
  <2>4. TypeOK'
    BY <2>1, <2>3, Types DEF Unapplied
  <2>5. \A x \in Writers : IF x = w THEN access'[x].op = "none"
                           ELSE access'[x].op = access[x].op /\ access'[x].at = access[x].at
    BY <1>a, <1>t, <2>3
  <2>6. Stages'
    BY <1>t, <2>1, <2>5 DEF Stages
  <2> QED BY <2>4, <2>6
<1>36. \A m \in {"OFF", "AP", "STA"}, p \in Pairs :
         Up(m, p) \in [mode : {"OFF", "AP", "STA"}, pair : Pairs]
  BY DEF Up
<1>30. CASE DrvMode
  <2>1. drv' \in Runs /\ (drv'.step = "none" => drv' = NoRun) /\ unapplied' \in Unapplied
    BY <1>30, StartTypes, Types DEF DrvMode, Abort, Runs, Unapplied
  <2>2. TypeOK'
    BY <1>30, <2>1, Types DEF DrvMode, RunLeaves
  <2>3. Stages'
    BY <1>30, <2>1 DEF DrvMode, RunLeaves, Stages
  <2> QED BY <2>2, <2>3
<1>31. CASE DrvPair
  <2>1. /\ drv' \in Runs /\ (drv'.step = "none" => drv' = NoRun)
        /\ unapplied' \in Unapplied /\ radio' \in {Off, radio}
    BY <1>31, <1>t, StartTypes, Types DEF DrvPair, PairRead, Abort, Runs, Unapplied
  <2>2. radio' \in [mode : {"OFF", "AP", "STA"}, pair : Pairs]
    BY <1>36, <1>t, <2>1, Types DEF Off
  <2>3. TypeOK'
    BY <1>31, <2>1, <2>2, Types DEF DrvPair, RunLeaves
  <2>4. Stages'
    BY <1>31, <2>1 DEF DrvPair, RunLeaves, Stages
  <2> QED BY <2>3, <2>4
<1>32. CASE DrvUp
  <2>1. drv' = NoRun /\ drv' \in Runs /\ unapplied' \in Unapplied
    BY <1>32, StartTypes, Types DEF DrvUp, Abort, Unapplied
  <2>2. radio' \in {radio, Up(drv.mode, NoPair), Up(drv.mode, drv.pair)}
    BY <1>32 DEF DrvUp, Started, Switched, Configured
  <2>3. radio' \in [mode : {"OFF", "AP", "STA"}, pair : Pairs]
    BY <1>36, <1>t, <2>2, Types DEF Runs
  <2>4. TypeOK'
    BY <1>32, <2>1, <2>3, Types DEF DrvUp, RunLeaves
  <2>5. Stages'
    BY <1>32, <2>1 DEF DrvUp, RunLeaves, Stages
  <2> QED BY <2>4, <2>5
<1>33. CASE ApiPost
  <2>1. PICK e \in {"START", "CONNECT"} :
          /\ NewPair /\ Post(Msg(e, Pair(given')))
          /\ UNCHANGED <<manager, svc, access, flash, call, driver, asks, losses, history>>
    BY <1>33 DEF ApiPost
  <2>2. Msg(e, Pair(given')) \in Messages
    BY <1>1, <2>1, PairTypes DEF Events
  <2>3. queue' \in Seq(Messages) /\ Len(queue') <= QueueLen
    BY <2>1, <2>2, PostTypes, Types
  <2>4. TypeOK'
    BY <1>1, <2>1, <2>3, Types
  <2>5. Stages'
    BY <2>1 DEF Stages
  <2> QED BY <2>4, <2>5
<1>34. CASE PowerLoss
  <2>1. Posted \in Seq(Messages) /\ Len(Posted) <= QueueLen
    BY PairTypes, CredentialAssumption DEF Posted, Events
  <2>2. losses' \in 0 .. MaxLosses
    BY <1>34, CredentialAssumption, Types DEF PowerLoss
  <2>3. TypeOK'
    BY <1>34, <1>t, <1>36, <2>1, <2>2, PairTypes, StartTypes, Types
    DEF PowerLoss, Off, Apart, Unapplied
  <2>4. Stages'
    BY <1>34, <1>t DEF PowerLoss, Stages
  <2> QED BY <2>3, <2>4
<1> QED
  BY <1>0, <1>3, <1>4, <1>5, <1>6, <1>7, <1>8, <1>9, <1>10, <1>11, <1>12, <1>13, <1>14, <1>17,
     <1>18, <1>19, <1>20, <1>25, <1>26, <1>27, <1>28, <1>29, <1>30, <1>31, <1>32, <1>33, <1>34,
     <1>35
  DEF Next, Caller, Service, FlashTask, Driver, Waiting

-----------------------------------------------------------------------------
(* The station and its pair.                                                *)

\* Posting keeps what is in the queue.
LEMMA PostKeeps ==
  ASSUME NEW m \in Messages, Post(m), queue \in Seq(Messages)
  PROVE  /\ Len(queue') \in {Len(queue), Len(queue) + 1}
         /\ \A i \in 1 .. Len(queue) : queue'[i] = queue[i]
         /\ Len(queue') # Len(queue) => queue'[Len(queue) + 1] = m
         /\ Send(m) \/ ~Refuses(m) => Len(queue') = Len(queue) + 1
<1>1. CASE Send(m)
  BY <1>1, AppendLast DEF Send
<1>2. CASE ~Send(m)
  BY <1>2 DEF Post
<1> QED BY <1>1, <1>2

\* After boot a START is on its way.
LEMMA AppliedInit == Init => Applied
<1> SUFFICES ASSUME Init PROVE StartAhead
  BY DEF Applied, PairRuns
<1>1. Len(Posted) = 2 /\ Posted[1].event = "START"
  BY DEF Posted, Msg
<1> QED BY <1>1 DEF Init, StartAhead

\* Every step leaves the station with the manager's pair, or a run ahead that
\* will read it, or names what kept it from doing so.
LEMMA AppliedStep == Typing /\ Applied /\ [Next]_vars => Applied'
<1> SUFFICES ASSUME TypeOK, Stages, Applied, [Next]_vars, unapplied' = "no"
             PROVE  PairRuns'
  BY DEF Typing, Applied
<1> USE DEF counts, history, manager, driver
<1>q. queue \in Seq(Messages) /\ Len(queue) \in Nat /\ svc \in Msgs /\ drv \in Runs
  BY Types
<1>1. ASSUME UNCHANGED <<ram, queue, svc, driver, unapplied>> PROVE PairRuns'
  BY <1>1 DEF Applied, PairRuns, StartAhead
\* What sets RAM says so in unapplied.
<1>2. ASSUME NEW p, NEW acc, SetRam(p, acc) PROVE FALSE
  BY <1>2 DEF SetRam
\* What is only posted leaves a START ahead where it was.
<1>3. ASSUME NEW m \in Messages, Post(m), StartAhead, UNCHANGED svc PROVE StartAhead'
  <2>1. Len(queue') >= Len(queue) /\ \A i \in 1 .. Len(queue) : queue'[i] = queue[i]
    BY <1>3, <1>q, PostKeeps
  <2>2. Len(queue') \in Nat
    BY <1>3, <1>q, PostKeeps
  <2>3. CASE svc.event = "START"
    BY <1>3, <2>3 DEF StartAhead
  <2>4. CASE svc.event # "START"
    <3>1. PICK i \in 1 .. Len(queue) : queue[i].event = "START"
      BY <1>3, <2>4 DEF StartAhead
    <3>2. i \in 1 .. Len(queue') /\ queue'[i].event = "START"
      BY <1>q, <2>1, <2>2, <3>1
    <3> QED BY <3>2 DEF StartAhead
  <2> QED BY <2>3, <2>4
<1>4. ASSUME NEW m \in Messages, Post(m), UNCHANGED <<ram, svc, driver>>, PairRuns PROVE PairRuns'
  <2>1. CASE StartAhead
    BY <1>3, <1>4, <2>1 DEF PairRuns
  <2>2. CASE ~StartAhead
    BY <1>4, <2>2 DEF PairRuns
  <2> QED BY <2>1, <2>2
<1>5. ASSUME UNCHANGED <<ram, queue, driver, unapplied>>, svc.event # "START", svc'.event # "START"
      PROVE  PairRuns'
  BY <1>5 DEF Applied, PairRuns, StartAhead
<1>6. ASSUME NEW c \in Callers, PostStore(c) PROVE PairRuns'
  <2>1. Msg("STORE", call[c].pair) \in Messages
    BY PairTypes, Types DEF CallStates, Events
  <2> QED BY <1>4, <1>6, <2>1 DEF PostStore, StoreOf, Post, Applied
<1>7. ASSUME NEW c \in Callers, PostStart(c) PROVE PairRuns'
  <2>1. Msg("START", NoPair) \in Messages /\ Post(Msg("START", NoPair))
    BY <1>7, PairTypes DEF PostStart, Events
  <2>2. CASE unapplied = "no"
    BY <1>4, <1>7, <2>1, <2>2 DEF PostStart, Applied
  <2>3. CASE unapplied # "no"
    <3>1. ~Refuses(Msg("START", NoPair))
      BY <1>7, <2>3 DEF PostStart, Refuses, Msg
    <3>2. Len(queue') = Len(queue) + 1 /\ queue'[Len(queue) + 1] = Msg("START", NoPair)
      BY <1>q, <2>1, <3>1, PostKeeps
    <3>3. Len(queue) + 1 \in 1 .. Len(queue') /\ queue'[Len(queue) + 1].event = "START"
      BY <1>q, <3>2 DEF Msg
    <3> QED BY <3>3 DEF PairRuns, StartAhead
  <2> QED BY <2>2, <2>3
<1>8. CASE ApiPost
  <2>1. PICK e \in {"START", "CONNECT"} : NewPair /\ Post(Msg(e, Pair(given')))
    BY <1>8 DEF ApiPost
  <2>2. Msg(e, Pair(given')) \in Messages
    BY <2>1, CredentialAssumption, PairTypes, Types DEF Events, NewPair, Versions
  <2> QED BY <1>4, <1>8, <2>1, <2>2 DEF ApiPost, Applied
<1>9. CASE SvcTake
  <2>1. /\ svc' = queue[1] /\ Len(queue') = Len(queue) - 1 /\ Len(queue) \in Nat \ {0}
        /\ \A i \in 1 .. Len(queue') : queue'[i] = queue[i + 1]
    BY <1>9, <1>q, TakeFirst DEF SvcTake
  <2>2. CASE StartAhead
    <3>1. PICK i \in 1 .. Len(queue) : queue[i].event = "START"
      BY <1>9, <2>2 DEF SvcTake, StartAhead, NoMsg, Msg
    <3>2. CASE i = 1
      BY <2>1, <3>1, <3>2 DEF PairRuns, StartAhead
    <3>3. CASE i # 1
      <4>1. i - 1 \in 1 .. Len(queue') /\ queue'[i - 1] = queue[i]
        BY <2>1, <3>3
      <4> QED BY <3>1, <4>1 DEF PairRuns, StartAhead
    <3> QED BY <3>2, <3>3
  <2>3. CASE ~StartAhead
    BY <1>9, <2>3 DEF SvcTake, Applied, PairRuns
  <2> QED BY <2>2, <2>3
<1>10. CASE SvcSeed
  BY <1>2, <1>10 DEF SvcSeed
<1>11. CASE SvcStart
  <2>1. CASE drv = NoRun
    BY <1>11, <1>q, <2>1 DEF SvcStart, PairRuns, Runs
  <2>2. CASE drv.step \in {"mode", "pair"}
    BY <1>11, <2>2 DEF SvcStart, PairRuns, NoRun
  <2>3. CASE drv.step = "up"
    BY <1>11, <2>3 DEF SvcStart, HasPair, NoRun
  <2> QED BY <1>q, <2>1, <2>2, <2>3 DEF Stages, Runs
<1>12. CASE SvcStore \/ SvcLoad
  <2>1. svc.event # "START" /\ UNCHANGED <<ram, queue, driver, unapplied>>
    BY <1>12 DEF SvcStore, SvcLoad
  <2>2. svc' = NoMsg /\ NoMsg.event = "idle"
    <3>1. svc' = NoMsg
      BY <1>12 DEF SvcStore, SvcLoad
    <3>2. NoMsg.event = "idle"
      BY DEF NoMsg, Msg
    <3> QED BY <3>1, <3>2
  <2> QED BY <1>5, <2>1, <2>2
\* A run that fails says so in unapplied.
<1>22. ~Abort
  BY DEF Abort
<1>13. CASE DrvMode
  BY <1>13, <1>22, <1>q DEF DrvMode, PairRuns, Runs
<1>14. CASE DrvPair
  <2>1. /\ drv'.step = "up" /\ drv'.mode = drv.mode /\ UNCHANGED ram
        /\ drv.mode = "STA" => drv'.pair = ram
    BY <1>14, <1>22, <1>q DEF DrvPair, PairRead, RunLeaves, Runs
  <2> QED BY <2>1 DEF PairRuns
<1>15. CASE DrvUp
  <2>1. /\ drv' = NoRun /\ radio'.mode = drv.mode /\ radio'.pair = drv.pair
        /\ UNCHANGED <<ram, queue, svc, unapplied>>
    BY <1>15, <1>22 DEF DrvUp, RunLeaves, Started, Up
  <2>2. CASE StartAhead
    BY <2>1, <2>2 DEF PairRuns, StartAhead
  <2>3. CASE ~StartAhead
    <3>1. drv.mode = "STA" => drv.pair = ram
      BY <1>15, <2>1, <2>3 DEF DrvUp, Applied, PairRuns
    <3> QED BY <2>1, <3>1 DEF PairRuns, NoRun
  <2> QED BY <2>2, <2>3
<1>16. CASE PowerLoss
  <2>1. Len(Posted) = 2 /\ Posted[1].event = "START"
    BY DEF Posted, Msg
  <2> QED BY <1>16, <2>1 DEF PowerLoss, PairRuns, StartAhead
<1>17. CASE HttpSave \/ (\E c \in {"loop", "app"} : AskWithPair(c)) \/ (\E w \in Writers : LoadSets(w))
  BY <1>2, <1>17 DEF HttpSave, AskWithPair, LoadSets
<1>18. CASE \/ HttpFallback \/ LoopDropsStore \/ ApiStore \/ ApiSpawn \/ ApiLoad
            \/ \E c \in Callers : Compare(c) \/ Record(c)
  BY <1>1, <1>18 DEF HttpFallback, LoopDropsStore, ApiStore, ApiSpawn, ApiLoad, Compare, Record
<1>19. ASSUME NEW c \in {"loop", "app"}, Ask(c) PROVE PairRuns'
  BY <1>1, <1>19 DEF Ask
<1>20. ASSUME NEW w \in Writers, StoreKey(w) \/ StoreFails(w) \/ LoadKey(w) \/ LoadEnds(w)
       PROVE  PairRuns'
  BY <1>1, <1>20 DEF StoreKey, StoreFails, LoadKey, LoadEnds
<1>21. CASE UNCHANGED vars
  BY <1>1, <1>21 DEF vars
<1> QED
  BY <1>6, <1>7, <1>8, <1>9, <1>10, <1>11, <1>12, <1>13, <1>14, <1>15, <1>16, <1>17, <1>18,
     <1>19, <1>20, <1>21
  DEF Next, Caller, Service, FlashTask, Driver, Waiting

-----------------------------------------------------------------------------
(* RAM and flash.                                                           *)

\* A save is pending with a STORE in the queue, with the service, or with a
\* writer.
LEMMA Pending ==
  /\ queue \in Seq(Messages) =>
       (SavePending <=> ~NoStoreFrom(1) \/ svc.event = "STORE" \/ \E w \in Writers : Storing(w))
  /\ queue' \in Seq(Messages) =>
       (SavePending' <=> ~NoStoreFrom(1)' \/ svc'.event = "STORE" \/ \E w \in Writers : Storing(w)')
BY DEF SavePending, NoStoreFrom

\* After boot a LOAD is on its way and nobody saves.
LEMMA StoredInit == Init => Stored
<1> SUFFICES ASSUME Init PROVE ToLoad
  BY DEF Stored, OnItsWay
<1>1. Len(Posted) = 2 /\ Posted[1].event = "START" /\ Posted[2].event = "LOAD"
  BY DEF Posted, Msg
<1>2. queue = Posted /\ queue \in Seq(Messages) /\ svc.event = "idle"
  BY PairTypes DEF Init, Posted, Events, NoMsg, Msg
<1>3. NoStoreFrom(1)
  <2>0. Len(queue) = 2
    BY <1>1, <1>2
  <2>1. ASSUME NEW i \in 1 .. Len(queue) PROVE queue[i].event # "STORE"
    <3>1. i = 1 \/ i = 2
      BY <2>0
    <3> QED BY <1>1, <1>2, <3>1
  <2> QED BY <2>1 DEF NoStoreFrom
<1>4. \A w \in Writers : ~Storing(w)
  BY DEF Init, Storing, Free
<1> QED BY <1>1, <1>2, <1>3, <1>4, Pending DEF Init, ToLoad

\* Every step keeps RAM's pair in flash or on its way to it, or names what
\* parted them.
LEMMA StoredStep == Typing /\ Typing' /\ Stored /\ [Next]_vars => Stored'
<1> SUFFICES ASSUME TypeOK, Stages, Stored, [Next]_vars, TypeOK', apart' = "no"
             PROVE  OnItsWay'
  BY DEF Typing, Stored
<1> USE DEF counts, history, manager, driver
<1>q. /\ queue \in Seq(Messages) /\ Len(queue) \in Nat /\ access \in [Writers -> Accesses]
      /\ queue' \in Seq(Messages) /\ Len(queue') \in Nat /\ access' \in [Writers -> Accesses]
      /\ call \in [Callers -> CallStates] /\ ram \in Pairs /\ flash \in Pairs
  BY Types
<1>t. /\ "http" \in Writers /\ \A w \in Workers : w # "http" /\ w \in Writers
      /\ Free.op = "none" /\ NoCall.step = "idle" /\ NoMsg.event = "idle"
      /\ Load.op = "load"
      /\ \A p : Store(p).op = "store" /\ Store(p).at = "ssid" /\ Store(p).pair = p
  BY CredentialAssumption DEF Writers, Free, NoCall, NoMsg, Msg, Load, Store
\* The queue as it is, and nothing for flash in the service's hands.
<1>1. ASSUME UNCHANGED <<ram, queue, access, flash, apart>>, InCall => InCall',
             \/ UNCHANGED svc
             \/ svc.event \notin {"STORE", "LOAD"} /\ svc'.event \notin {"STORE", "LOAD"}
      PROVE  OnItsWay'
  <2>1. OnItsWay
    BY <1>1 DEF Stored
  <2>2. InQueue => InQueue'
    BY <1>1 DEF InQueue, NoStoreFrom
  <2>3. InSvc => InSvc'
    BY <1>1 DEF InSvc, NoStoreFrom
  <2>4. InTask => InTask'
    BY <1>1 DEF InTask, NoStoreFrom, Storing
  <2>5. ~SavePending => ~SavePending'
    BY <1>1 DEF SavePending, Storing
  <2>6. (InFlash => InFlash') /\ (ToLoad => ToLoad')
    BY <1>1, <2>5 DEF InFlash, ToLoad
  <2> QED BY <1>1, <2>1, <2>2, <2>3, <2>4, <2>6 DEF OnItsWay
\* A caller that is not about to post a pair goes on.
<1>2. ASSUME NEW c \in Callers, call[c].step # "post", UNCHANGED ram,
             \A d \in Callers : d # c => call'[d] = call[d]
      PROVE  InCall => InCall'
  BY <1>2 DEF InCall
\* Another message behind the queue.
<1>3. ASSUME NEW m \in Messages, m.event # "STORE", Post(m), InCall => InCall',
             UNCHANGED <<ram, svc, access, flash, apart>>
      PROVE  OnItsWay'
  <2>1. OnItsWay
    BY <1>3 DEF Stored
  <2>2. /\ Len(queue') \in {Len(queue), Len(queue) + 1}
        /\ \A i \in 1 .. Len(queue) : queue'[i] = queue[i]
        /\ Len(queue') # Len(queue) => queue'[Len(queue) + 1] = m
    BY <1>3, <1>q, PostKeeps
  <2>3. ASSUME NEW n \in 1 .. Len(queue) + 1, NoStoreFrom(n) PROVE NoStoreFrom(n)'
    <3>1. ASSUME NEW i \in n .. Len(queue') PROVE queue'[i].event # "STORE"
      <4>1. CASE i \in n .. Len(queue)
        BY <1>q, <2>2, <2>3, <4>1 DEF NoStoreFrom
      <4>2. CASE i = Len(queue) + 1 /\ Len(queue') # Len(queue)
        BY <1>3, <2>2, <4>2
      <4> QED BY <1>q, <2>2, <3>1, <4>1, <4>2
    <3> QED BY <3>1 DEF NoStoreFrom
  <2>4. NoStoreFrom(1) => NoStoreFrom(1)'
    BY <1>q, <2>3
  <2>5. InQueue => InQueue'
    <3> SUFFICES ASSUME InQueue PROVE InQueue'
      OBVIOUS
    <3>1. PICK i \in 1 .. Len(queue) :
            queue[i].event = "STORE" /\ queue[i].pair = ram /\ NoStoreFrom(i + 1)
      BY DEF InQueue
    <3>2. i \in 1 .. Len(queue') /\ queue'[i] = queue[i]
      BY <1>q, <2>2
    <3>3. NoStoreFrom(i + 1)'
      BY <1>q, <2>3, <3>1
    <3> QED BY <1>3, <3>1, <3>2, <3>3 DEF InQueue
  <2>6. (InSvc => InSvc') /\ (InTask => InTask')
    BY <1>3, <2>4 DEF InSvc, InTask, Storing
  <2>7. ~SavePending => ~SavePending'
    BY <1>3, <1>q, <2>4, Pending DEF Storing
  <2>8. (\E i \in 1 .. Len(queue) : queue[i].event = "LOAD")
          => \E i \in 1 .. Len(queue') : queue'[i].event = "LOAD"
    BY <1>q, <2>2
  <2>9. (InFlash => InFlash') /\ (ToLoad => ToLoad')
    BY <1>3, <2>7, <2>8 DEF InFlash, ToLoad
  <2> QED BY <1>3, <2>1, <2>5, <2>6, <2>9 DEF OnItsWay
\* The only writer, before it has written anything.
<1>4. ASSUME ~SavePending, NEW w \in Writers, UNCHANGED <<ram, queue>>, svc'.event # "STORE",
             access'[w] = Store(ram), \A x \in Writers : x # w => access'[x] = access[x]
      PROVE  OnItsWay'
  <2>1. NoStoreFrom(1) /\ \A x \in Writers : ~Storing(x)
    BY <1>4, <1>q, Pending
  <2>2. NoStoreFrom(1)'
    BY <1>4, <2>1 DEF NoStoreFrom
  <2> QED BY <1>4, <1>t, <2>1, <2>2 DEF OnItsWay, InTask, Storing
\* Another load begins.
<1>5. ASSUME NEW w \in Writers, access[w] = Free, access' = [access EXCEPT ![w] = Load],
             UNCHANGED <<ram, queue, flash, call, apart>>,
             svc.event # "STORE", svc'.event # "STORE"
      PROVE  OnItsWay'
  <2>1. OnItsWay
    BY <1>5 DEF Stored
  <2>2. access'[w] = Load /\ \A x \in Writers : x # w => access'[x] = access[x]
    BY <1>5, <1>q
  <2>3. \A x \in Writers : (Storing(x)' <=> Storing(x)) /\ (Storing(x) => x # w)
    BY <1>5, <1>t, <2>2 DEF Storing
  <2>4. (InCall => InCall') /\ (InQueue => InQueue') /\ (InSvc => InSvc')
    BY <1>5 DEF InCall, InQueue, InSvc, NoStoreFrom
  <2>5. NoStoreFrom(1) => NoStoreFrom(1)'
    BY <1>5 DEF NoStoreFrom
  <2>6. InTask => InTask'
    BY <1>5, <2>2, <2>3, <2>5 DEF InTask
  <2>7. ~SavePending => ~SavePending'
    BY <1>5, <1>q, <2>3, <2>5, Pending
  <2>8. (InFlash => InFlash') /\ (ToLoad => ToLoad')
    BY <1>5, <1>t, <2>2, <2>7 DEF InFlash, ToLoad
  <2> QED BY <2>1, <2>4, <2>6, <2>8 DEF OnItsWay
<1>6. ASSUME NEW w \in Writers, access[w].op = "load", ~Storing(w)',
             \A x \in Writers : x # w => access'[x] = access[x]
      PROVE  \A x \in Writers : (Storing(x)' <=> Storing(x)) /\ (Storing(x) => x # w)
  BY <1>6 DEF Storing
\* A load reads a key, or ends without having set anything.
<1>7. ASSUME NEW w \in Writers, access[w].op = "load", ~Storing(w)',
             \A x \in Writers : x # w => access'[x] = access[x],
             UNCHANGED <<ram, queue, svc, flash, call, apart>>,
             ToLoad => access'[w].op = "load" \/ InFlash'
      PROVE  OnItsWay'
  <2>1. OnItsWay
    BY <1>7 DEF Stored
  <2>2. \A x \in Writers : (Storing(x)' <=> Storing(x)) /\ (Storing(x) => x # w)
    BY <1>6, <1>7
  <2>3. (InCall => InCall') /\ (InQueue => InQueue') /\ (InSvc => InSvc')
    BY <1>7 DEF InCall, InQueue, InSvc, NoStoreFrom
  <2>4. NoStoreFrom(1) => NoStoreFrom(1)'
    BY <1>7 DEF NoStoreFrom
  <2>5. InTask => InTask'
    BY <1>7, <2>2, <2>4 DEF InTask
  <2>6. ~SavePending => ~SavePending'
    BY <1>7, <1>q, <2>2, <2>4, Pending
  <2>7. (InFlash => InFlash') /\ (ToLoad => ToLoad' \/ InFlash')
    BY <1>7, <2>6 DEF InFlash, ToLoad
  <2> QED BY <2>1, <2>3, <2>5, <2>7 DEF OnItsWay
<1>8. CASE HttpSave
  <2>1. /\ call["http"] = NoCall /\ ram' = Pair(given')
        /\ call' = [call EXCEPT !["http"] = [step |-> "post", want |-> "save", pair |-> ram']]
    BY <1>8 DEF HttpSave, SetRam, Enter
  <2>2. call'["http"].step = "post" /\ call'["http"].pair = ram'
    BY <1>q, <2>1 DEF Callers
  <2> QED BY <2>2 DEF OnItsWay, InCall, Callers
<1>9. ASSUME NEW c \in {"loop", "app"}, AskWithPair(c) PROVE OnItsWay'
  <2>1. c = "loop"
    BY <1>9 DEF AskWithPair
  <2>2. call' = [call EXCEPT ![c] = [step |-> "post", want |-> "STA", pair |-> ram']]
    BY <1>9, <2>1 DEF AskWithPair, Enter
  <2>3. call'[c].step = "post" /\ call'[c].pair = ram' /\ c \in Callers
    BY <1>q, <2>2 DEF Callers
  <2> QED BY <2>3 DEF OnItsWay, InCall
<1>10. ASSUME NEW c \in {"loop", "app"}, Ask(c) PROVE OnItsWay'
  <2>1. PICK want \in {"AP", "STA"} :
          /\ Asks(c, want) /\ Enter(c, "compare", want, NoPair)
          /\ UNCHANGED <<manager, queue, svc, access, flash, driver, given, losses, history>>
    BY <1>10 DEF Ask
  <2>2. /\ c \in Callers /\ call[c].step # "post"
        /\ \A d \in Callers : d # c => call'[d] = call[d]
    BY <1>q, <1>t, <2>1 DEF Asks, Enter, Callers
  <2> QED BY <1>1, <1>2, <2>1, <2>2
<1>11. ASSUME NEW c \in Callers, Compare(c) \/ Record(c) PROVE OnItsWay'
  <2>1. /\ call[c].step # "post" /\ UNCHANGED <<ram, queue, svc, access, flash, apart>>
        /\ \A d \in Callers : d # c => call'[d] = call[d]
    BY <1>11, <1>q DEF Compare, Record, Step
  <2> QED BY <1>1, <1>2, <2>1
<1>12. ASSUME NEW c \in Callers, PostStart(c) PROVE OnItsWay'
  <2>1. Msg("START", NoPair) \in Messages /\ Msg("START", NoPair).event # "STORE"
    BY PairTypes DEF Events, Msg
  <2>2. /\ call[c].step # "post" /\ UNCHANGED <<ram, svc, access, flash, apart>>
        /\ Post(Msg("START", NoPair)) /\ \A d \in Callers : d # c => call'[d] = call[d]
    BY <1>12, <1>q DEF PostStart
  <2> QED BY <1>2, <1>3, <2>1, <2>2
<1>13. CASE ApiPost
  <2>1. PICK e \in {"START", "CONNECT"} :
          /\ NewPair /\ Post(Msg(e, Pair(given')))
          /\ UNCHANGED <<manager, svc, access, flash, call, driver, asks, losses, history>>
    BY <1>13 DEF ApiPost
  <2>2. Msg(e, Pair(given')) \in Messages /\ Msg(e, Pair(given')).event # "STORE"
    BY PairTypes, Types DEF Events, Msg
  <2> QED BY <1>3, <2>1, <2>2 DEF InCall
<1>14. ASSUME NEW c \in Callers, PostStore(c) PROVE OnItsWay'
  <2>1. /\ Msg("STORE", call[c].pair) \in Messages
        /\ Msg("STORE", call[c].pair).event = "STORE"
        /\ Msg("STORE", call[c].pair).pair = call[c].pair
    BY <1>q, PairTypes DEF Events, CallStates, Msg
  <2>2. /\ Send(Msg("STORE", call[c].pair)) /\ Post(Msg("STORE", call[c].pair))
        /\ call[c].pair = ram /\ UNCHANGED ram
    BY <1>14 DEF PostStore, StoreOf, Post, Cause
  <2>3. Len(queue') = Len(queue) + 1 /\ queue'[Len(queue) + 1] = Msg("STORE", call[c].pair)
    BY <1>q, <2>1, <2>2, PostKeeps
  <2>4. Len(queue) + 1 \in 1 .. Len(queue') /\ (Len(queue) + 1) + 1 > Len(queue')
    BY <1>q, <2>3
  <2>5. /\ queue'[Len(queue) + 1].event = "STORE" /\ queue'[Len(queue) + 1].pair = ram'
        /\ \A i \in (Len(queue) + 1) + 1 .. Len(queue') : queue'[i].event # "STORE"
    BY <1>q, <2>1, <2>2, <2>3, <2>4
  <2> QED BY <2>4, <2>5 DEF OnItsWay, InQueue, NoStoreFrom
<1>15. CASE LoopDropsStore \/ SvcSeed \/ (\E w \in Writers : StoreFails(w))
  BY <1>15 DEF LoopDropsStore, SvcSeed, StoreFails
<1>16. CASE HttpFallback
  <2>1. /\ ~SavePending /\ call["http"].pair = ram
        /\ UNCHANGED <<ram, queue, svc>>
        /\ access' = [access EXCEPT !["http"] = Store(ram)]
    BY <1>16 DEF HttpFallback, Cause
  <2>2. svc'.event # "STORE"
    BY <1>q, <2>1, Pending
  <2>3. access'["http"] = Store(ram) /\ \A x \in Writers : x # "http" => access'[x] = access[x]
    BY <1>q, <1>t, <2>1
  <2> QED BY <1>4, <1>t, <2>1, <2>2, <2>3
<1>17. CASE ApiStore
  <2>1. call["app"].step # "post" /\ \A d \in Callers : d # "app" => call'[d] = call[d]
    BY <1>17, <1>q, <1>t DEF ApiStore, Enter
  <2> QED BY <1>1, <1>2, <1>17, <2>1 DEF ApiStore, Callers
<1>29. CASE ApiSpawn
  <2>1. call["app"].step # "post" /\ \A d \in Callers : d # "app" => call'[d] = call[d]
    BY <1>29, <1>q DEF ApiSpawn
  <2>2. CASE Spawn(Store(call["app"].pair)) /\ access' # access
    <3>1. /\ ~SavePending /\ Spawn(Store(ram)) /\ UNCHANGED <<ram, queue, svc>>
      BY <1>29, <2>2 DEF ApiSpawn
    <3>2. svc'.event # "STORE"
      BY <1>q, <3>1, Pending
    <3>3. PICK w \in Workers : access' = [access EXCEPT ![w] = Store(ram)]
      BY <3>1 DEF Spawn
    <3>4. /\ w \in Writers /\ access'[w] = Store(ram)
          /\ \A x \in Writers : x # w => access'[x] = access[x]
      BY <1>q, <1>t, <3>3
    <3> QED BY <1>4, <3>1, <3>2, <3>4
  <2>3. CASE UNCHANGED <<access, apart>>
    BY <1>1, <1>2, <1>29, <2>1, <2>3 DEF ApiSpawn, Callers
  <2>4. Spawn(Store(call["app"].pair)) => access' # access
    BY <1>q, <1>t DEF Spawn
  <2> QED BY <1>29, <2>2, <2>3, <2>4 DEF ApiSpawn
<1>18. CASE ApiLoad
  <2>1. PICK w \in Workers : access[w] = Free /\ access' = [access EXCEPT ![w] = Load]
    BY <1>18 DEF ApiLoad, Spawn
  <2>2. CASE svc.event # "STORE"
    BY <1>5, <1>18, <1>t, <2>1, <2>2 DEF ApiLoad
  <2>3. CASE svc.event = "STORE"
    <3>1. OnItsWay /\ SavePending
      BY <1>18, <2>3 DEF ApiLoad, Stored, SavePending
    <3>2. InCall \/ InQueue \/ InSvc
      BY <2>3, <3>1 DEF OnItsWay, InTask, InFlash, ToLoad
    <3>3. InCall' \/ InQueue' \/ InSvc'
      BY <1>18, <3>2 DEF ApiLoad, InCall, InQueue, InSvc, NoStoreFrom
    <3> QED BY <3>3 DEF OnItsWay
  <2> QED BY <2>2, <2>3
<1>19. CASE SvcLoad
  <2>1. PICK w \in Workers : access[w] = Free /\ access' = [access EXCEPT ![w] = Load]
    BY <1>19 DEF SvcLoad, Spawn
  <2>2. /\ svc.event # "STORE" /\ svc'.event # "STORE"
        /\ UNCHANGED <<ram, queue, flash, call, apart>>
    BY <1>19, <1>t DEF SvcLoad
  <2> QED BY <1>5, <1>t, <2>1, <2>2
<1>20. CASE SvcStart
  <2>1. /\ UNCHANGED <<ram, queue, access, flash, apart, call>>
        /\ svc.event = "START" /\ svc'.event = "idle"
    BY <1>20, <1>t DEF SvcStart, Msg
  <2> QED BY <1>1, <2>1 DEF InCall
<1>21. CASE SvcTake
  <2>1. /\ svc' = queue[1] /\ Len(queue') = Len(queue) - 1 /\ Len(queue) \in Nat \ {0}
        /\ \A i \in 1 .. Len(queue') : queue'[i] = queue[i + 1]
        /\ svc = NoMsg /\ UNCHANGED <<ram, access, flash, call, apart>>
    BY <1>21, <1>q, TakeFirst DEF SvcTake
  <2>2. OnItsWay
    BY <2>1 DEF Stored
  <2>3. ASSUME NEW n \in 1 .. Len(queue), NoStoreFrom(n + 1) PROVE NoStoreFrom(n)'
    <3>1. ASSUME NEW i \in n .. Len(queue') PROVE queue'[i].event # "STORE"
      <4>1. i + 1 \in n + 1 .. Len(queue) /\ i \in 1 .. Len(queue')
        BY <2>1, <2>3, <3>1
      <4> QED BY <2>1, <2>3, <4>1 DEF NoStoreFrom
    <3> QED BY <3>1 DEF NoStoreFrom
  <2>4. CASE InCall
    BY <2>1, <2>4 DEF OnItsWay, InCall
  <2>5. CASE InQueue
    <3>1. PICK i \in 1 .. Len(queue) :
            queue[i].event = "STORE" /\ queue[i].pair = ram /\ NoStoreFrom(i + 1)
      BY <2>5 DEF InQueue
    <3>2. NoStoreFrom(i)'
      BY <2>3, <3>1
    <3>3. CASE i = 1
      BY <2>1, <3>1, <3>2, <3>3 DEF OnItsWay, InSvc
    <3>4. CASE i # 1
      <4>1. i - 1 \in 1 .. Len(queue') /\ queue'[i - 1] = queue[i] /\ (i - 1) + 1 = i
        BY <2>1, <3>4
      <4>2. \A j \in (i - 1) + 1 .. Len(queue') : queue'[j].event # "STORE"
        BY <3>2, <4>1 DEF NoStoreFrom
      <4> QED BY <2>1, <3>1, <4>1, <4>2 DEF OnItsWay, InQueue, NoStoreFrom
    <3> QED BY <3>3, <3>4
  <2>6. ASSUME NoStoreFrom(1) PROVE NoStoreFrom(1)' /\ svc'.event # "STORE"
    <3>1. queue[1].event # "STORE" /\ NoStoreFrom(1 + 1)
      BY <2>1, <2>6 DEF NoStoreFrom
    <3> QED BY <2>1, <2>3, <3>1
  <2>7. CASE InTask
    <3>1. NoStoreFrom(1)' /\ svc'.event # "STORE"
      BY <2>6, <2>7 DEF InTask
    <3> QED BY <2>1, <2>7, <3>1 DEF OnItsWay, InTask, Storing
  <2>8. ~SavePending => ~SavePending'
    BY <1>q, <2>1, <2>6, Pending DEF Storing
  <2>9. CASE InFlash
    BY <2>1, <2>8, <2>9 DEF OnItsWay, InFlash
  <2>10. CASE ToLoad
    <3>1. CASE \E i \in 1 .. Len(queue) : queue[i].event = "LOAD"
      <4>1. PICK i \in 1 .. Len(queue) : queue[i].event = "LOAD"
        BY <3>1
      <4>2. CASE i = 1
        BY <2>1, <2>8, <2>10, <4>1, <4>2 DEF OnItsWay, ToLoad
      <4>3. CASE i # 1
        <5>1. i - 1 \in 1 .. Len(queue') /\ queue'[i - 1] = queue[i]
          BY <2>1, <4>3
        <5> QED BY <2>1, <2>8, <2>10, <4>1, <5>1 DEF OnItsWay, ToLoad
      <4> QED BY <4>2, <4>3
    <3>2. CASE \E w \in Writers : access[w].op = "load"
      BY <2>1, <2>8, <2>10, <3>2 DEF OnItsWay, ToLoad
    <3> QED BY <1>t, <2>1, <2>10, <3>1, <3>2 DEF ToLoad
  <2>11. ~InSvc
    BY <1>t, <2>1 DEF InSvc
  <2> QED BY <2>2, <2>4, <2>5, <2>7, <2>9, <2>10, <2>11 DEF OnItsWay
<1>22. CASE SvcStore
  <2>1. /\ Spawn(Store(svc.pair)) /\ (\A w \in Writers : ~Storing(w)) /\ OnItsWay
        /\ svc.event = "STORE" /\ svc'.event = "idle"
        /\ UNCHANGED <<ram, queue, flash, call>>
    BY <1>22, <1>t DEF SvcStore, Cause, Stored
  <2>2. PICK w \in Workers : access' = [access EXCEPT ![w] = Store(svc.pair)]
    BY <2>1 DEF Spawn
  <2>3. /\ w \in Writers /\ access'[w] = Store(svc.pair)
        /\ \A x \in Writers : x # w => access'[x] = access[x]
    BY <1>q, <1>t, <2>2
  <2>4. ~InTask /\ ~InFlash /\ ~ToLoad
    BY <2>1 DEF InTask, InFlash, ToLoad, SavePending
  <2>5. CASE InCall \/ InQueue
    BY <2>1, <2>5 DEF OnItsWay, InCall, InQueue, NoStoreFrom
  <2>6. CASE InSvc
    <3>1. svc.pair = ram /\ NoStoreFrom(1)'
      BY <2>1, <2>6 DEF InSvc, NoStoreFrom
    <3> QED BY <1>t, <2>1, <2>3, <3>1 DEF OnItsWay, InTask, Storing
  <2> QED BY <2>1, <2>4, <2>5, <2>6 DEF OnItsWay
<1>23. ASSUME NEW w \in Writers, StoreKey(w) PROVE OnItsWay'
  <2>1. /\ Storing(w) /\ Put(w) /\ access[w].at \in {"ssid", "pass"} /\ OnItsWay
        /\ UNCHANGED <<ram, queue, svc>>
    BY <1>23 DEF StoreKey, Stored, Stages
  <2>2. /\ ~InFlash /\ ~ToLoad
        /\ \A x \in Writers : x # w => access'[x] = access[x]
    BY <1>23, <1>q, <2>1 DEF StoreKey, Ends, Continue, InFlash, ToLoad, SavePending
  <2>3. CASE InCall
    <3>1. PICK c \in Callers : call[c].step = "post" /\ call[c].pair = ram
      BY <2>3 DEF InCall
    <3>2. c = "http" => w # "http"
      BY <2>1, <3>1 DEF Stages
    <3>3. call'[c] = call[c]
      BY <1>23, <1>q, <3>2 DEF StoreKey, Ends, Continue
    <3> QED BY <2>1, <3>1, <3>3 DEF OnItsWay, InCall
  <2>4. CASE InQueue \/ InSvc
    BY <2>1, <2>4 DEF OnItsWay, InQueue, InSvc, NoStoreFrom
  <2>5. CASE InTask
    <3>1. /\ access[w].pair = ram /\ (access[w].at = "pass" => flash.ssid = ram.ssid)
          /\ (\A x \in Writers : Storing(x) => x = w) /\ NoStoreFrom(1)' /\ svc'.event # "STORE"
      BY <2>1, <2>5 DEF InTask, NoStoreFrom
    <3>2. CASE access[w].at = "ssid"
      <4>1. access' = [access EXCEPT ![w].at = "pass"] /\ flash' = [flash EXCEPT !["ssid"] = ram["ssid"]]
        BY <1>23, <2>1, <3>1, <3>2 DEF StoreKey, Put, Continue
      <4>2. access'[w].op = "store" /\ access'[w].pair = ram /\ access'[w].at = "pass"
        BY <1>q, <2>1, <3>1, <4>1 DEF Accesses, Storing
      <4>3. flash'.ssid = ram.ssid
        BY <1>q, <4>1 DEF Pairs
      <4> QED BY <2>1, <2>2, <3>1, <4>2, <4>3 DEF OnItsWay, InTask, Storing
    <3>3. CASE access[w].at = "pass"
      <4>1. access' = [access EXCEPT ![w] = Free] /\ flash' = [flash EXCEPT !["pass"] = ram["pass"]]
        BY <1>23, <2>1, <3>1, <3>3 DEF StoreKey, Put, Ends
      <4>2. flash' = ram
        BY <1>q, <3>1, <3>3, <4>1 DEF Pairs
      <4>3. \A x \in Writers : ~Storing(x)'
        BY <1>q, <1>t, <2>2, <3>1, <4>1 DEF Storing
      <4>4. ~SavePending'
        BY <1>q, <3>1, <4>3, Pending
      <4> QED BY <2>1, <4>2, <4>4 DEF OnItsWay, InFlash
    <3> QED BY <2>1, <3>2, <3>3
  <2> QED BY <2>1, <2>2, <2>3, <2>4, <2>5 DEF OnItsWay
<1>24. ASSUME NEW w \in Writers, LoadKey(w) PROVE OnItsWay'
  <2>1. PICK at \in {"ssid", "pass"} :
          /\ Loading(w, at)
          /\ access' = [access EXCEPT ![w].pair[at] = flash[at],
                                      ![w].at = IF at = "ssid" THEN "pass" ELSE "ram"]
          /\ UNCHANGED <<manager, queue, svc, flash, call, driver, counts, history>>
    BY <1>24 DEF LoadKey
  <2>2. access[w].op = "load" /\ access'[w].op = "load"
    BY <1>q, <2>1 DEF Loading, Accesses
  <2>3. \A x \in Writers : x # w => access'[x] = access[x]
    BY <1>q, <2>1
  <2> QED BY <1>7, <2>1, <2>2, <2>3 DEF Storing
<1>25. ASSUME NEW w \in Writers, LoadEnds(w) PROVE OnItsWay'
  <2>1. /\ access[w].op = "load" /\ access' = [access EXCEPT ![w] = Free] /\ flash = NoPair
        /\ UNCHANGED <<ram, queue, svc, flash, call, apart>>
    BY <1>25 DEF LoadEnds, Loading, Cause
  <2>2. access'[w].op = "none" /\ \A x \in Writers : x # w => access'[x] = access[x]
    BY <1>q, <1>t, <2>1
  <2>3. ToLoad => InFlash'
    <3>1. SUFFICES ASSUME ToLoad PROVE ~SavePending' /\ flash' = ram'
      BY DEF InFlash
    <3>2. NoStoreFrom(1)' /\ \A x \in Writers : ~Storing(x)'
      BY <1>q, <2>1, <2>2, <3>1, Pending DEF ToLoad, Storing, NoStoreFrom
    <3> QED BY <1>q, <2>1, <3>1, <3>2, Pending DEF ToLoad
  <2> QED BY <1>7, <2>1, <2>2, <2>3 DEF Storing
<1>26. ASSUME NEW w \in Writers, LoadSets(w) PROVE OnItsWay'
  <2>1. /\ SetRam(access[w].pair, [access EXCEPT ![w] = Free])
        /\ ~SavePending /\ flash = access[w].pair
        /\ UNCHANGED <<queue, svc, flash>>
    BY <1>26 DEF LoadSets, Cause
  <2>2. [access EXCEPT ![w] = Free] \in [Writers -> Accesses] /\ access[w].pair \in Pairs
    BY <1>q, StartTypes DEF Accesses
  <2>3. ram' = flash' /\ \A x \in Writers : access'[x].op = [access EXCEPT ![w] = Free][x].op
    BY <2>1, <2>2, SetRamTypes
  <2>4. \A x \in Writers : ~Storing(x)'
    BY <1>q, <1>t, <2>1, <2>3, Pending DEF Storing
  <2>5. NoStoreFrom(1)' /\ svc'.event # "STORE"
    BY <1>q, <2>1, Pending DEF NoStoreFrom
  <2> QED BY <1>q, <2>3, <2>4, <2>5, Pending DEF OnItsWay, InFlash
<1>27. CASE PowerLoss
  <2>1. Len(Posted) = 2 /\ Posted[1].event = "START" /\ Posted[2].event = "LOAD"
    BY DEF Posted, Msg
  <2>2. queue' = Posted /\ svc'.event = "idle" /\ ram' = NoPair /\ \A w \in Writers : ~Storing(w)'
    BY <1>27, <1>t DEF PowerLoss, Storing
  <2>3. Len(queue') = 2 /\ queue'[1].event = "START" /\ queue'[2].event = "LOAD"
    BY <2>1, <2>2
  <2>4. ASSUME NEW i \in 1 .. Len(queue') PROVE queue'[i].event # "STORE"
    <3>1. i = 1 \/ i = 2
      BY <2>3
    <3> QED BY <2>3, <3>1
  <2>5. ~SavePending'
    BY <1>q, <2>2, <2>4, Pending DEF NoStoreFrom
  <2> QED BY <2>2, <2>3, <2>5 DEF OnItsWay, ToLoad
<1>28. CASE Driver \/ UNCHANGED vars
  <2>1. UNCHANGED <<ram, queue, svc, access, flash, call, apart>>
    BY <1>28 DEF Driver, DrvMode, DrvPair, DrvUp, RunLeaves, vars
  <2> QED BY <1>1, <2>1 DEF InCall
<1> QED
  BY <1>8, <1>9, <1>10, <1>11, <1>12, <1>13, <1>14, <1>15, <1>16, <1>17, <1>18, <1>19, <1>20,
     <1>21, <1>22, <1>23, <1>24, <1>25, <1>26, <1>27, <1>28, <1>29
  DEF Next, Caller, Service, FlashTask, Waiting

-----------------------------------------------------------------------------
(* The theorems.                                                            *)

\* What the theorems rest on holds in every state.
LEMMA Invariance == Spec => []Inv
<1>1. Init => Inv
  BY TypingInit, AppliedInit, StoredInit DEF Typing, Inv
<1>2. Inv /\ [Next]_vars => Inv'
  BY TypingStep, AppliedStep, StoredStep DEF Typing, Inv
<1> QED BY <1>1, <1>2, PTL DEF Spec

\* TypeOK: every variable keeps its type, and the unified queue its bound.
THEOREM TypeCorrect == Spec => []TypeOK
<1>1. Inv => TypeOK
  BY DEF Inv
<1> QED BY <1>1, Invariance, PTL

\* RamMatchesFlash: when every task waits and no named cause intervened, a
\* restart would find the pair that RAM holds.
THEOREM SavedAtRest == Spec => []RamMatchesFlash
<1>1. Inv => RamMatchesFlash
  <2> SUFFICES ASSUME Inv, AtRest, apart = "no" PROVE ram = flash
    BY DEF RamMatchesFlash
  <2>1. OnItsWay
    BY DEF Inv, Stored
  <2>2. Len(queue) = 0 /\ svc.event = "idle" /\ \A w \in Writers : access[w].op = "none"
    BY DEF AtRest, NoMsg, Msg, Free
  <2>3. ~InCall
    BY DEF AtRest, InCall, NoCall
  <2>4. ~InQueue /\ ~InSvc /\ ~InTask /\ ~ToLoad
    BY <2>2 DEF InQueue, InSvc, InTask, ToLoad, Storing
  <2> QED BY <2>1, <2>3, <2>4 DEF OnItsWay, InFlash
<1> QED BY <1>1, Invariance, PTL

\* StationHasPair: when every task waits and no named cause intervened, a
\* station runs with the pair that RAM holds.
THEOREM AppliedAtRest == Spec => []StationHasPair
<1>1. Inv => StationHasPair
  <2> SUFFICES ASSUME Inv, AtRest, radio.mode = "STA", unapplied = "no" PROVE radio.pair = ram
    BY DEF StationHasPair
  <2>1. PairRuns
    BY DEF Inv, Applied
  <2>2. Len(queue) = 0 /\ svc.event = "idle" /\ drv.step = "none"
    BY DEF AtRest, NoMsg, Msg, NoRun
  <2> QED BY <2>1, <2>2 DEF PairRuns, StartAhead
<1> QED BY <1>1, Invariance, PTL
=============================================================================
