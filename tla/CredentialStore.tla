-------------------------- MODULE CredentialStore --------------------------
(***************************************************************************)
(* One credential pair in four places: the wifi manager (RAM), STORE       *)
(* messages of the unified queue, flash, and the station configuration of  *)
(* the driver.  Three tasks give new pairs: the HTTP server (POST          *)
(* /api/wifi_cred), the event loop (POST /api/wifi_mode) and any caller of *)
(* the public functions.  The service task hands each STORE and LOAD to a  *)
(* flash task of its own; flash tasks and the HTTP server's fallback write *)
(* the SSID and then the password, each in one access as KeyStore says.    *)
(*                                                                         *)
(* Pairs are numbered in the order in which RAM or the queue receives      *)
(* them; the SSID and the password of the pair n both are n, and 0 stands  *)
(* for none.  Which mode comes up when is the concern of WifiHandler: a    *)
(* driver run here reads the mode and the pair, configures and starts, and *)
(* ends early where a call of the driver fails.                            *)
(***************************************************************************)
EXTENDS Naturals, Sequences

CONSTANTS
  QueueLen,   \* slots of the unified queue (WIFI_SRV_QUEUE_LEN)
  Workers,    \* flash tasks that may run at the same time
  Faults,     \* the calls that may fail
  ApiCalls,   \* what callers outside the repository do
  MaxPairs,   \* bound on the pairs given
  MaxAsks,    \* bound on the mode requests
  MaxLosses   \* bound on losses of power

ASSUME CredentialAssumption ==
  /\ QueueLen \in Nat \ {0, 1}     \* room for what app_main posts
  /\ "http" \notin Workers
  /\ Faults \subseteq {"spawn", "put", "get", "task", "driver", "memory"}
  /\ ApiCalls \subseteq {"CONNECT", "START", "switch", "store", "load"}
  /\ MaxPairs \in Nat /\ MaxAsks \in Nat /\ MaxLosses \in Nat

Versions == 0 .. MaxPairs
Pairs    == [ssid : Versions, pass : Versions]
Pair(n)  == [ssid |-> n, pass |-> n]
NoPair   == Pair(0)

Writers == Workers \cup {"http"}    \* who may be inside the storage manager
Callers == {"http", "loop", "app"}  \* who gives pairs and modes
Events  == {"START", "CONNECT", "STORE", "LOAD"}
Msg(e, p) == [event |-> e, pair |-> p]
Msgs    == [event : Events \cup {"idle"}, pair : Pairs]
NoMsg   == Msg("idle", NoPair)

Free     == [op |-> "none", at |-> "ssid", pair |-> NoPair, stale |-> FALSE]
Store(p) == [Free EXCEPT !.op = "store", !.pair = p]
Load     == [Free EXCEPT !.op = "load"]
NoCall   == [step |-> "idle", want |-> "AP", pair |-> NoPair]
NoRun    == [step |-> "none", mode |-> "AP", pair |-> NoPair]

VARIABLES
  ram,        \* wifi_manager: the pair
  mode,       \* wifi_manager: the mode
  queue,      \* the unified queue
  svc,        \* the message the service task works on
  access,     \* what each writer does with the storage manager
  flash,      \* the two keys
  call,       \* where each caller stands
  drv,        \* the driver run
  radio,      \* the interface that is up, and the pair of a station
  given, asks, losses,
  apart,      \* history: why RAM and flash may differ
  unapplied   \* history: why RAM and the driver may differ

vars == <<ram, mode, queue, svc, access, flash, call, drv, radio, given, asks,
          losses, apart, unapplied>>
counts  == <<given, asks, losses>>
history == <<apart, unapplied>>
manager == <<ram, mode>>
driver  == <<drv, radio>>

MayFail(p) == p \in Faults

-----------------------------------------------------------------------------
(* What the histories record.                                               *)

Storing(w) == access[w].op = "store"

\* A save has not reached flash yet.
SavePending ==
  \/ \E i \in DOMAIN queue : queue[i].event = "STORE"
  \/ svc.event = "STORE"
  \/ \E w \in Writers : Storing(w)

Cause(c, happens) == IF happens THEN c ELSE apart

\* The driver run has read the pair.
HasPair == drv.step = "up"

-----------------------------------------------------------------------------
(* wifi_manager_set_credentials: a load in progress becomes out of date.    *)

SetRam(p, acc) ==
  /\ ram' = p
  /\ access' = [w \in Writers |-> [acc[w] EXCEPT !.stale = acc[w].op = "load"]]
  /\ unapplied' = "only set"

\* Mutant: send without looking for room.
SendAnyway(m) == queue' = Append(queue, m)

Room    == Len(queue) < QueueLen
Send(m) == Room /\ queue' = Append(queue, m)

\* wifi_srv_post_event: no room, or no memory for a copy of the pair.
Refuses(m) == ~Room \/ (m.pair # NoPair /\ MayFail("memory"))
Post(m)    == Send(m) \/ (Refuses(m) /\ UNCHANGED queue)

-----------------------------------------------------------------------------
(* http_service_save_wifi_creds, wifi_srv_mode_change_handler,              *)
(* wifi_srv_switch_mode_with_creds.                                         *)

Step(c, s) == call' = [call EXCEPT ![c].step = s]
Enter(c, s, want, p) ==
  call' = [call EXCEPT ![c] = [step |-> s, want |-> want, pair |-> p]]

NewPair == /\ given < MaxPairs
           /\ given' = given + 1

\* Requests reach the dashboard while an interface is up.
HttpSave ==
  /\ call["http"] = NoCall /\ radio.mode # "OFF"
  /\ NewPair /\ SetRam(Pair(given'), access)
  /\ Enter("http", "post", "save", ram')
  /\ apart' = "no"
  /\ UNCHANGED <<mode, queue, svc, flash, driver, asks, losses>>

Asks(c, want) == /\ call[c] = NoCall /\ asks < MaxAsks
                 /\ asks' = asks + 1
                 /\ c = "loop" => radio.mode # "OFF"
                 /\ c = "app" => "switch" \in ApiCalls

\* A station request with a pair: only the event loop's is to be stored.
AskWithPair(c) ==
  /\ Asks(c, "STA")
  /\ NewPair /\ SetRam(Pair(given'), access)
  /\ Enter(c, IF c = "loop" THEN "post" ELSE "compare", "STA", ram')
  /\ apart' = IF c = "loop" THEN "no" ELSE "only RAM"
  /\ UNCHANGED <<mode, queue, svc, flash, driver, losses>>

\* An AP request, whose pair is ignored, and a station request without one.
Ask(c) ==
  \E want \in {"AP", "STA"} :
    /\ Asks(c, want)
    /\ Enter(c, "compare", want, NoPair)
    /\ UNCHANGED <<manager, queue, svc, access, flash, driver, given, losses,
                   history>>

StoreOf(c) == Msg("STORE", call[c].pair)

\* The two setters may have been overtaken between their set and their post.
PostStore(c) ==
  /\ call[c].step = "post"
  /\ Send(StoreOf(c))
  /\ IF c = "http" THEN call' = [call EXCEPT ![c] = NoCall] ELSE Step(c, "compare")
  /\ apart' = Cause("crossed", call[c].pair # ram)
  /\ UNCHANGED <<manager, svc, access, flash, driver, counts, unapplied>>

\* The post is refused: the loop gives up, the HTTP server writes itself.
LoopDropsStore ==
  /\ call["loop"].step = "post" /\ Refuses(StoreOf("loop"))
  /\ Step("loop", "compare")
  /\ apart' = "dropped"
  /\ UNCHANGED <<manager, queue, svc, access, flash, driver, counts, unapplied>>

HttpFallback ==
  /\ call["http"].step = "post" /\ Refuses(StoreOf("http"))
  /\ access' = [access EXCEPT !["http"] = Store(call["http"].pair)]
  /\ Step("http", "persist")
  /\ apart' = IF SavePending THEN "overlap" ELSE Cause("crossed", call["http"].pair # ram)
  /\ UNCHANGED <<manager, queue, svc, flash, driver, counts, unapplied>>

\* wifi_srv_switch_mode.
Compare(c) ==
  /\ call[c].step = "compare"
  /\ IF call[c].want = mode THEN call' = [call EXCEPT ![c] = NoCall]
                            ELSE Step(c, "record")
  /\ UNCHANGED <<manager, queue, svc, access, flash, driver, counts, history>>

Record(c) ==
  /\ call[c].step = "record"
  /\ mode' = call[c].want
  /\ Step(c, "start")
  /\ UNCHANGED <<ram, queue, svc, access, flash, driver, counts, history>>

PostStart(c) ==
  /\ call[c].step = "start"
  /\ Post(Msg("START", NoPair))
  /\ call' = [call EXCEPT ![c] = NoCall]
  /\ unapplied' = IF call[c].want = "AP" THEN unapplied
                  ELSE IF Room THEN "no" ELSE "full"
  /\ UNCHANGED <<manager, svc, access, flash, driver, counts, apart>>

Caller(c) ==
  \/ PostStore(c) \/ Compare(c) \/ Record(c) \/ PostStart(c)

-----------------------------------------------------------------------------
(* wifi_handler_process_event, as far as pairs travel with the events.      *)

SvcTake ==
  /\ svc = NoMsg /\ queue # <<>>
  /\ svc' = Head(queue) /\ queue' = Tail(queue)
  /\ UNCHANGED <<manager, access, flash, call, driver, counts, history>>

\* START or CONNECT with a pair seed the manager.  What CONNECT does then,
\* leaving and joining again, leaves the driver's configuration alone.
SvcSeed ==
  /\ svc.event \in {"START", "CONNECT"} /\ svc.pair # NoPair
  /\ SetRam(svc.pair, access)
  /\ svc' = IF svc.event = "START" THEN Msg("START", NoPair) ELSE NoMsg
  /\ apart' = "only RAM"
  /\ UNCHANGED <<mode, queue, flash, call, driver, counts>>

\* wifi_handler_start_driver: a run in progress swallows the event, and
\* without memory for a task there is no run.
SvcStart ==
  /\ svc = Msg("START", NoPair)
  /\ svc' = NoMsg
  /\ \/ /\ drv # NoRun /\ UNCHANGED drv
        /\ unapplied' = IF HasPair THEN "busy" ELSE unapplied
     \/ /\ drv = NoRun /\ drv' = [drv EXCEPT !.step = "mode"]
        /\ UNCHANGED unapplied
     \/ /\ drv = NoRun /\ MayFail("task") /\ UNCHANGED drv
        /\ unapplied' = "failed"
  /\ UNCHANGED <<manager, queue, access, flash, call, radio, counts, apart>>

\* wifi_handler_spawn_flash_task: a new task, or no memory for one.
Spawn(a) == \E w \in Workers : /\ access[w] = Free
                               /\ access' = [access EXCEPT ![w] = a]

SvcStore ==
  /\ svc.event = "STORE"
  /\ svc' = NoMsg
  /\ \/ /\ Spawn(Store(svc.pair))
        /\ apart' = Cause("overlap", \E w \in Writers : Storing(w))
     \/ /\ MayFail("spawn")
        /\ apart' = "failed" /\ UNCHANGED access
  /\ UNCHANGED <<manager, queue, flash, call, driver, counts, unapplied>>

SvcLoad ==
  /\ svc.event = "LOAD"
  /\ svc' = NoMsg
  /\ \/ Spawn(Load) /\ UNCHANGED apart
     \/ MayFail("spawn") /\ apart' = "failed" /\ UNCHANGED access
  /\ UNCHANGED <<manager, queue, flash, call, driver, counts, unapplied>>

Service == SvcTake \/ SvcSeed \/ SvcStart \/ SvcStore \/ SvcLoad

-----------------------------------------------------------------------------
(* wifi_flash_store_task, wifi_flash_load_task and the HTTP fallback.       *)

Ends(w) ==
  /\ access' = [access EXCEPT ![w] = Free]
  /\ call' = IF w = "http" THEN [call EXCEPT ![w] = NoCall] ELSE call

Continue(w, at) == access' = [access EXCEPT ![w].at = at] /\ UNCHANGED call

Put(w) == flash' = [flash EXCEPT ![access[w].at] = access[w].pair[access[w].at]]

\* Mutant: only the SSID is written.
StoreKeyOnce(w) ==
  /\ Storing(w)
  /\ Put(w) /\ Ends(w)
  /\ UNCHANGED <<manager, queue, svc, driver, counts, history>>

StoreKey(w) ==
  /\ Storing(w)
  /\ Put(w)
  /\ IF access[w].at = "ssid" THEN Continue(w, "pass") ELSE Ends(w)
  /\ UNCHANGED <<manager, queue, svc, driver, counts, history>>

\* A failed call ends the save; the key may have been written.
StoreFails(w) ==
  /\ Storing(w) /\ MayFail("put")
  /\ Put(w) \/ UNCHANGED flash
  /\ Ends(w)
  /\ apart' = "failed"
  /\ UNCHANGED <<manager, queue, svc, driver, counts, unapplied>>

Loading(w, at) == access[w].op = "load" /\ access[w].at = at

LoadKey(w) ==
  \E at \in {"ssid", "pass"} :
    /\ Loading(w, at) /\ flash[at] # 0
    /\ access' = [access EXCEPT ![w].pair[at] = flash[at],
                                ![w].at = IF at = "ssid" THEN "pass" ELSE "ram"]
    /\ UNCHANGED <<manager, queue, svc, flash, call, driver, counts, history>>

\* Mutant: the task goes on with what it has.
LoadEndsSets(w) ==
  \E at \in {"ssid", "pass"} :
    /\ Loading(w, at) /\ (flash[at] = 0 \/ MayFail("get"))
    /\ SetRam(access[w].pair, [access EXCEPT ![w] = Free])
    /\ apart' = Cause("failed", flash # NoPair)
    /\ UNCHANGED <<mode, queue, svc, flash, call, driver, counts>>

\* A missing key, or a failed call: the task leaves RAM alone.
LoadEnds(w) ==
  \E at \in {"ssid", "pass"} :
    /\ Loading(w, at) /\ (flash[at] = 0 \/ MayFail("get"))
    /\ access' = [access EXCEPT ![w] = Free]
    /\ apart' = Cause("failed", flash # NoPair)
    /\ UNCHANGED <<manager, queue, svc, flash, call, driver, counts, unapplied>>

\* Nothing tells the load that the pair it read has been replaced since.
LoadSets(w) ==
  /\ Loading(w, "ram")
  /\ SetRam(access[w].pair, [access EXCEPT ![w] = Free])
  /\ apart' = Cause("late", access[w].stale \/ SavePending \/ flash # access[w].pair)
  /\ UNCHANGED <<mode, queue, svc, flash, call, driver, counts>>

FlashTask(w) == StoreKey(w) \/ StoreFails(w) \/ LoadKey(w) \/ LoadEnds(w) \/ LoadSets(w)

-----------------------------------------------------------------------------
(* wifi_start_with_mode: the mode, then the pair, then the configuration.   *)

Up(m, p) == [mode |-> m, pair |-> p]
Off      == Up("OFF", NoPair)

RunLeaves == UNCHANGED <<manager, queue, svc, access, flash, call, counts, apart>>

\* Every failing call ends the run where it stands.
Abort == MayFail("driver") /\ drv' = NoRun /\ unapplied' = "failed"

\* The first run also initializes the driver.
DrvMode ==
  /\ drv.step = "mode"
  /\ \/ drv' = [drv EXCEPT !.step = "pair", !.mode = mode] /\ UNCHANGED unapplied
     \/ Abort
  /\ RunLeaves /\ UNCHANGED radio

PairRead(p) ==
  /\ drv' = [drv EXCEPT !.step = "up", !.pair = p]
  /\ radio' \in {Off, radio}
  /\ unapplied' = IF drv.mode = "STA" THEN "no" ELSE unapplied

\* Mutant: the station starts with what the radio was configured with before.
DrvPairStays ==
  /\ drv.step = "pair"
  /\ PairRead(radio.pair) \/ (Abort /\ UNCHANGED radio)
  /\ RunLeaves

\* esp_wifi_stop, then the pair.  Whether there is anything to stop the FSM
\* state says, which WifiHandler models and which may be wrong: here both
\* answers are always possible.
DrvPair ==
  /\ drv.step = "pair"
  /\ PairRead(IF drv.mode = "STA" THEN ram ELSE NoPair) \/ (Abort /\ UNCHANGED radio)
  /\ RunLeaves

\* What the calls leave.  esp_wifi_set_mode: a started driver changes its
\* interface at once, and a station comes up with what it last was given,
\* which no property asks for.  Then esp_wifi_set_config and esp_wifi_start.
Switched   == IF radio.mode \in {"OFF", drv.mode} THEN radio ELSE Up(drv.mode, NoPair)
Started    == Up(drv.mode, drv.pair)
Configured == IF radio.mode = "OFF" THEN radio ELSE Started

DrvUp ==
  /\ drv.step = "up"
  /\ \/ drv' = NoRun /\ radio' = Started /\ UNCHANGED unapplied
     \/ Abort /\ radio' \in {radio, Switched, Configured}
  /\ RunLeaves

Driver == DrvMode \/ DrvPair \/ DrvUp

-----------------------------------------------------------------------------
(* Public functions that nothing in the repository calls.                   *)

\* wifi_srv_post_event with a pair of the caller's.
ApiPost ==
  \E e \in {"START", "CONNECT"} \cap ApiCalls :
    /\ radio.mode # "OFF" /\ NewPair
    /\ Post(Msg(e, Pair(given')))
    /\ UNCHANGED <<manager, svc, access, flash, call, driver, asks, losses, history>>

\* wifi_flash_store_creds, past the queue: what RAM holds is copied ...
ApiStore ==
  /\ "store" \in ApiCalls /\ call["app"] = NoCall /\ asks < MaxAsks
  /\ asks' = asks + 1
  /\ Enter("app", "spawn", NoCall.want, ram)
  /\ UNCHANGED <<manager, queue, svc, access, flash, driver, given, losses, history>>

\* ... and given to a flash task, if there is memory for the two.
ApiSpawn ==
  /\ call["app"].step = "spawn"
  /\ call' = [call EXCEPT !["app"] = NoCall]
  /\ \/ /\ Spawn(Store(call["app"].pair))
        /\ apart' = IF SavePending THEN "overlap"
                    ELSE IF call["app"].pair # ram THEN "crossed" ELSE "no"
     \/ /\ MayFail("spawn") /\ UNCHANGED <<access, apart>>
  /\ UNCHANGED <<manager, queue, svc, flash, driver, counts, unapplied>>

ApiLoad ==
  /\ "load" \in ApiCalls /\ asks < MaxAsks
  /\ asks' = asks + 1
  /\ Spawn(Load)
  /\ UNCHANGED <<manager, queue, svc, flash, call, driver, given, losses, history>>

-----------------------------------------------------------------------------
(* app_main has recorded AP and posted its START and the LOAD.              *)

Posted == <<Msg("START", NoPair), Msg("LOAD", NoPair)>>

Init ==
  /\ ram = NoPair /\ mode = "AP" /\ queue = Posted
  /\ svc = NoMsg /\ drv = NoRun /\ radio = Off
  /\ access = [w \in Writers |-> Free]
  /\ call = [c \in Callers |-> NoCall]
  /\ apart = "no" /\ unapplied = "no"
  /\ flash = NoPair /\ given = 0 /\ asks = 0 /\ losses = 0

PowerLoss ==
  /\ losses < MaxLosses
  /\ losses' = losses + 1
  /\ ram' = NoPair /\ mode' = "AP" /\ queue' = Posted
  /\ svc' = NoMsg /\ drv' = NoRun /\ radio' = Off
  /\ access' = [w \in Writers |-> Free]
  /\ call' = [c \in Callers |-> NoCall]
  /\ apart' = "no" /\ unapplied' = "no"
  /\ UNCHANGED <<flash, given, asks>>

\* Every task waits for the next message or request.
AtRest ==
  /\ queue = <<>> /\ svc = NoMsg /\ drv = NoRun
  /\ \A w \in Writers : access[w] = Free
  /\ \A c \in Callers : call[c] = NoCall

Waiting == AtRest /\ UNCHANGED vars

Next ==
  \/ HttpSave \/ HttpFallback \/ LoopDropsStore
  \/ \E c \in {"loop", "app"} : AskWithPair(c) \/ Ask(c)
  \/ \E c \in Callers : Caller(c)
  \/ Service
  \/ \E w \in Writers : FlashTask(w)
  \/ Driver
  \/ ApiPost \/ ApiStore \/ ApiSpawn \/ ApiLoad
  \/ PowerLoss \/ Waiting

\* Tasks that can run do run; clients and the loss of power owe nothing.
Fairness ==
  /\ WF_vars(Caller("http") \/ HttpFallback)
  /\ WF_vars(Caller("loop") \/ LoopDropsStore)
  /\ WF_vars(Caller("app") \/ ApiSpawn)
  /\ WF_vars(Service) /\ WF_vars(Driver)
  /\ \A w \in Writers : WF_vars(FlashTask(w))

Spec     == Init /\ [][Next]_vars
FairSpec == Spec /\ Fairness

-----------------------------------------------------------------------------
TypeOK ==
  /\ ram \in Pairs /\ mode \in {"AP", "STA"} /\ flash \in Pairs
  /\ queue \in Seq([event : Events, pair : Pairs]) /\ Len(queue) <= QueueLen
  /\ svc \in Msgs
  /\ access \in [Writers -> [op : {"none", "store", "load"}, at : {"ssid", "pass", "ram"},
                             pair : Pairs, stale : BOOLEAN]]
  /\ call \in [Callers -> [step : {"idle", "post", "persist", "compare", "record", "start",
                                   "spawn"},
                           want : {"save", "AP", "STA"}, pair : Pairs]]
  /\ drv \in [step : {"none", "mode", "pair", "up"}, mode : {"AP", "STA"}, pair : Pairs]
  /\ radio \in [mode : {"OFF", "AP", "STA"}, pair : Pairs]
  /\ given \in Versions /\ asks \in 0 .. MaxAsks /\ losses \in 0 .. MaxLosses
  /\ apart \in {"no", "only RAM", "crossed", "dropped", "overlap", "late", "failed"}
  /\ unapplied \in {"no", "only set", "full", "busy", "failed"}

\* RAM and flash hold the same pair whenever everything is at rest, after
\* saves, mode requests, boots and losses of power in any order, unless the
\* last to touch them: set RAM without storing (the public calls), had its
\* post refused on the event loop, posted or wrote after a newer pair had
\* been set, overlapped another write, loaded a pair that was being replaced,
\* or failed.
RamMatchesFlash == AtRest /\ apart = "no" => ram = flash

\* A station runs with the manager's pair whenever everything is at rest,
\* unless that pair was set without a mode change behind it (a save, a
\* request for the mode already recorded, CONNECT, a LOAD), the START of the
\* change was lost to a full queue or to a run that had read the pair, or the
\* driver's task could not be created or a call of the driver failed in it.
StationHasPair ==
  AtRest /\ mode = "STA" /\ radio.mode = "STA" /\ unapplied = "no" => radio.pair = ram

\* A restart is over: its two messages are still to be taken.
JustBooted == queue = Posted

\* The write of a pair that POST /api/wifi_cred gave comes to its end, through
\* the queue or past it, whatever other requests do, unless a write fails or
\* the power goes.
SavesReachFlash ==
  \A n \in 1 .. MaxPairs :
    (call["http"].step = "post" /\ call["http"].pair = Pair(n)) ~>
      (flash.pass = n \/ apart = "failed" \/ JustBooted)
=============================================================================
