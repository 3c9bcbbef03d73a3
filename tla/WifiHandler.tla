---------------------------- MODULE WifiHandler ----------------------------
(***************************************************************************)
(* Switching the Wi-Fi mode, end to end: an HTTP request travels over the  *)
(* event bus to the mode change handler (wifi_service.c), which records    *)
(* the mode in the manager and posts a START event to the unified queue;   *)
(* the service task dispatches it to the FSM (wifi_handler.c), which       *)
(* spawns the driver task; the radio answers with events that the event    *)
(* loop feeds back into the FSM and into the HTTP server (http_manager.c). *)
(*                                                                         *)
(* Tasks, each with its own steps: app_main and the event loop (the two    *)
(* callers of wifi_srv_switch_mode), the service task, the driver task,    *)
(* and the environment (HTTP clients, the air, external API callers).      *)
(* The board has two cores, so the steps of the tasks interleave freely.   *)
(*                                                                         *)
(* What a credential is, and what flash holds, is not this module's        *)
(* concern: STORE and LOAD messages take their place in the queue and      *)
(* their turn at the dispatcher, which hands them to a task of their own.  *)
(***************************************************************************)
EXTENDS Naturals, EspWifi

CONSTANTS
  QueueLen,     \* slots of the unified queue (WIFI_SRV_QUEUE_LEN)
  LoopLen,      \* slots of the default event loop's queue
  MaxRequests,  \* bound on what the environment asks for
  Faults,       \* the calls that may fail
  ApiEvents     \* events that callers outside the repository post

FaultPoints == {"spawn", "init", "stop", "config", "start", "connect", "httpd"}

ASSUME ConstantsAssumption ==
  /\ QueueLen \in Nat \ {0}
  /\ LoopLen \in Nat /\ LoopLen >= 3   \* one driver call announces up to three
  /\ MaxRequests \in Nat
  /\ Faults \subseteq FaultPoints
  /\ ApiEvents \subseteq {"START", "STOP", "CONNECT"}

Modes     == {"NULL", "AP", "STA"}
FsmStates == {"POWER_OFF", "IDLE", "RUNNING", "DISCONNECTED", "CONNECTING",
              "CONNECTED"}

\* wifi_srv_event_t: the START event of each mode, and the other events.
Start       == [AP |-> "AP_START", STA |-> "STA_START"]
StartEvents == {"AP_START", "STA_START"}
SrvEvents   == StartEvents \cup {"STOP", "CONNECT", "STORE", "LOAD"}

\* A mode change request as it lies on the loop, by what the handler does
\* with it.  The HTTP layer also accepts spellings ("sta") that the handler
\* does not know; other bus events reach no subscriber.
Requests == {"REQ_AP", "REQ_STA", "REQ_STA_CREDS", "REQ_UNSUPPORTED"}
Wanted   == [REQ_AP |-> "AP", REQ_STA |-> "STA", REQ_STA_CREDS |-> "STA"]
LoopEvents == DriverEvents \cup Requests \cup {"NOTIFY"}

Callers   == {"main", "loop"}
CallerPcs == {"store", "compare", "set", "post", "load", "idle"}
SvcStates == SrvEvents \cup {"idle", "stopped", "left", "joining"}
DriverPcs == {"none", "mode", "init", "check", "stop", "off", "config", "start",
              "publish", "connect", "end", "abort"}

\* Why the radio may stand in another mode than the manager.
Causes == {"none", "dropped", "full", "fault", "stopped"}

VARIABLES
  mode,      \* wifi_manager: the mode last set
  pc, want,  \* wifi_srv_switch_mode: where each caller stands, its argument
  queue,     \* the unified queue
  svc,       \* wifi_service_task: the event being dispatched
  fsm,       \* s_handler->state
  drv,       \* the driver task, "none" when s_handler->driver_task is NULL
  drvMode,   \* wifi_start_with_mode: the mode it read
  inited,    \* s_handler->wifi_inited
  radio,     \* the driver
  loopq,     \* events waiting for the event loop
  server,    \* s_http_server is running
  requests,  \* how much the environment has asked for
  cause      \* history: what may have put mode and radio apart

vars == <<mode, pc, want, queue, svc, fsm, drv, drvMode, inited, radio, loopq,
          server, requests, cause>>

manager == <<mode, pc, want>>
service == <<queue, svc>>
driver  == <<drv, drvMode, inited>>
loop    == <<loopq, server>>

MayFail(p) == p \in Faults

-----------------------------------------------------------------------------
(* The two queues.  Posts of the firmware never wait: a full queue drops    *)
(* the message.  The driver's own events wait for room.                     *)

Room == Len(queue) < QueueLen

\* Mutant: send without looking for room.
PostEventUnbounded(e) == queue' = Append(queue, e)

\* wifi_srv_post_event, the queue part: send with no wait, or drop.
PostEvent(e) == queue' = IF Room THEN Append(queue, e) ELSE queue

\* event_bus_post behind evs: esp_event_post with no wait, or drop.
BusPost(evs, e) == IF Len(evs) < LoopLen THEN Append(evs, e) ELSE evs

\* A driver call takes effect and its events reach the loop.
Perform(o) ==
  /\ Len(loopq) + Len(o.events) <= LoopLen
  /\ radio' = o.radio
  /\ loopq' = loopq \o o.events

-----------------------------------------------------------------------------
(* wifi_srv_switch_mode(want[c]) and what its two callers do around it.     *)

\* Some START event still is to be dispatched.
StartQueued == \E i \in DOMAIN queue : queue[i] \in StartEvents

\* A driver run that will bring up, or has brought up, the manager's mode.
RunCovers == drv = "mode" \/ (drv # "none" /\ drvMode = mode)

Goto(c, l) == pc' = [pc EXCEPT ![c] = l]
Return(c)  == Goto(c, IF c = "main" THEN "load" ELSE "idle")

\* The request already is the manager's mode: nothing to do.
SwitchSame(c) ==
  /\ pc[c] = "compare" /\ want[c] = mode
  /\ Return(c)
  /\ UNCHANGED <<mode, want, service, fsm, driver, radio, loop, requests, cause>>

\* Mutant: START is announced before the mode is recorded.
SwitchDiffersPosts(c) ==
  /\ pc[c] = "compare" /\ want[c] # mode
  /\ PostEvent(Start[want[c]])
  /\ Goto(c, "set")
  /\ UNCHANGED <<mode, want, svc, fsm, driver, radio, loop, requests, cause>>

SwitchDiffers(c) ==
  /\ pc[c] = "compare" /\ want[c] # mode
  /\ Goto(c, "set")
  /\ UNCHANGED <<mode, want, service, fsm, driver, radio, loop, requests, cause>>

SwitchSet(c) ==
  /\ pc[c] = "set"
  /\ mode' = want[c]
  /\ Goto(c, "post")
  /\ UNCHANGED <<want, service, fsm, driver, radio, loop, requests, cause>>

\* The mode stays set when the queue is full and the START event is lost.
SwitchPost(c) ==
  /\ pc[c] = "post"
  /\ PostEvent(Start[want[c]])
  /\ cause' = IF Room \/ StartQueued \/ svc \in StartEvents \/ RunCovers
              THEN cause ELSE "full"
  /\ Return(c)
  /\ UNCHANGED <<mode, want, svc, fsm, driver, radio, loop, requests>>

\* app_main's last call: restore the stored credentials.
MainLoad ==
  /\ pc["main"] = "load"
  /\ PostEvent("LOAD")
  /\ Goto("main", "idle")
  /\ UNCHANGED <<mode, want, svc, fsm, driver, radio, loop, requests, cause>>

-----------------------------------------------------------------------------
(* The event loop task: one event at a time, each handler to its end.       *)

LoopTakes(evs) ==
  /\ pc["loop"] = "idle" /\ loopq # <<>> /\ Head(loopq) \in evs

\* wifi_event_handler: the state each driver event writes, and the events it
\* announces on the bus.
FsmAfter == [STA_START       |-> "RUNNING",   AP_START |-> "RUNNING",
             STA_CONNECTED   |-> "CONNECTED", GOT_IP   |-> "CONNECTED",
             STA_DISCONNECTED |-> "DISCONNECTED"]
Announced == {"STA_CONNECTED", "STA_DISCONNECTED", "AP_STACONNECTED", "GOT_IP"}

\* Mutant: no handler is registered for WIFI_EVENT_STA_START.
ServerAfterApOnly(e) ==
  IF e = "AP_START" THEN {TRUE} ELSE IF e \in {"AP_STOP", "STA_STOP"} THEN {FALSE} ELSE {server}

\* http_manager: the server follows the interface.  A failed start leaves no
\* server, a failed stop keeps the old one.
ServerAfter(e) ==
  IF e \in StartEvents
  THEN {TRUE} \cup (IF MayFail("httpd") THEN {server} ELSE {})
  ELSE IF e \in {"AP_STOP", "STA_STOP"}
  THEN {FALSE} \cup (IF MayFail("httpd") THEN {server} ELSE {})
  ELSE {server}

LoopDriverEvent ==
  /\ LoopTakes(DriverEvents)
  /\ LET e == Head(loopq) IN
       /\ fsm' = IF e \in DOMAIN FsmAfter THEN FsmAfter[e] ELSE fsm
       /\ server' \in ServerAfter(e)
       /\ loopq' = IF e \in Announced THEN BusPost(Tail(loopq), "NOTIFY")
                   ELSE Tail(loopq)
  /\ UNCHANGED <<manager, service, driver, radio, requests, cause>>

\* wifi_srv_mode_change_handler: unpack and validate; station credentials go
\* to the manager and then to flash before the switch.
LoopModeRequest ==
  /\ LoopTakes(Requests)
  /\ LET e == Head(loopq) IN
       IF e = "REQ_UNSUPPORTED" THEN UNCHANGED <<pc, want>>
       ELSE /\ want' = [want EXCEPT !["loop"] = Wanted[e]]
            /\ Goto("loop", IF e = "REQ_STA_CREDS" THEN "store" ELSE "compare")
  /\ loopq' = Tail(loopq)
  /\ UNCHANGED <<mode, service, fsm, driver, radio, server, requests, cause>>

LoopStore ==
  /\ pc["loop"] = "store"
  /\ PostEvent("STORE")
  /\ Goto("loop", "compare")
  /\ UNCHANGED <<mode, want, svc, fsm, driver, radio, loop, requests, cause>>

\* event_bus_dispatch finds no handler.
LoopNotify ==
  /\ LoopTakes({"NOTIFY"})
  /\ loopq' = Tail(loopq)
  /\ UNCHANGED <<manager, service, fsm, driver, radio, server, requests, cause>>

LoopTask ==
  \/ LoopDriverEvent \/ LoopModeRequest \/ LoopStore \/ LoopNotify
  \/ SwitchSame("loop") \/ SwitchDiffers("loop") \/ SwitchSet("loop")
  \/ SwitchPost("loop")

MainTask ==
  \/ SwitchSame("main") \/ SwitchDiffers("main") \/ SwitchSet("main")
  \/ SwitchPost("main") \/ MainLoad

-----------------------------------------------------------------------------
(* wifi_service_task: receive one message, dispatch it, wait for the next.  *)

SvcReceive ==
  /\ svc = "idle" /\ queue # <<>>
  /\ svc' = Head(queue)
  /\ queue' = Tail(queue)
  /\ UNCHANGED <<manager, fsm, driver, radio, loop, requests, cause>>

\* wifi_handler_start_driver while a driver task exists: the event is
\* consumed and nothing else happens.
SvcStartBusy ==
  /\ svc \in StartEvents /\ drv # "none"
  /\ svc' = "idle"
  /\ cause' = IF RunCovers \/ StartQueued THEN cause ELSE "dropped"
  /\ UNCHANGED <<manager, queue, fsm, driver, radio, loop, requests>>

SvcStartSpawns ==
  /\ svc \in StartEvents /\ drv = "none"
  /\ svc' = "idle"
  /\ drv' = "mode"
  /\ UNCHANGED <<manager, queue, fsm, drvMode, inited, radio, loop, requests, cause>>

SvcStartFails ==
  /\ svc \in StartEvents /\ drv = "none" /\ MayFail("spawn")
  /\ svc' = "idle"
  /\ cause' = "fault"
  /\ UNCHANGED <<manager, queue, fsm, driver, radio, loop, requests>>

\* CREDENTIAL_STORE_EVENT and CREDENTIAL_LOAD_EVENT: handed to a flash task.
SvcFlash ==
  /\ svc \in {"STORE", "LOAD"}
  /\ svc' = "idle"
  /\ UNCHANGED <<manager, queue, fsm, driver, radio, loop, requests, cause>>

\* WIFI_SRV_EVENT_STOP: trusts the FSM state to say whether there is
\* anything to stop.
SvcStopOff ==
  /\ svc = "STOP" /\ fsm = "POWER_OFF"
  /\ svc' = "idle"
  /\ UNCHANGED <<manager, queue, fsm, driver, radio, loop, requests, cause>>

SvcStop ==
  /\ svc = "STOP" /\ fsm # "POWER_OFF"
  /\ \/ /\ \E o \in StopOutcomes(radio) : Perform(o)
        /\ svc' = "stopped"
        /\ cause' = "stopped"
     \/ /\ MayFail("stop")
        /\ svc' = "idle"
        /\ UNCHANGED <<radio, loopq, cause>>
  /\ UNCHANGED <<manager, queue, fsm, driver, server, requests>>

SvcStopped ==
  /\ svc = "stopped"
  /\ fsm' = "POWER_OFF"
  /\ svc' = "idle"
  /\ UNCHANGED <<manager, queue, driver, radio, loop, requests, cause>>

\* WIFI_SRV_EVENT_CONNECT: reconnects only in the two connection states.
SvcConnectSkips ==
  /\ svc = "CONNECT" /\ fsm \notin {"CONNECTING", "CONNECTED"}
  /\ svc' = "idle"
  /\ UNCHANGED <<manager, queue, fsm, driver, radio, loop, requests, cause>>

SvcConnect ==
  /\ svc = "CONNECT" /\ fsm \in {"CONNECTING", "CONNECTED"}
  /\ Perform(DisconnectOutcome(radio))
  /\ svc' = "left"
  /\ UNCHANGED <<manager, queue, fsm, driver, server, requests, cause>>

\* The answer of esp_wifi_connect is not looked at.
SvcConnectJoins ==
  /\ svc = "left"
  /\ radio' \in {Joined(radio)} \cup (IF MayFail("connect") THEN {radio} ELSE {})
  /\ svc' = "joining"
  /\ UNCHANGED <<manager, queue, fsm, driver, loop, requests, cause>>

SvcJoining ==
  /\ svc = "joining"
  /\ fsm' = "CONNECTING"
  /\ svc' = "idle"
  /\ UNCHANGED <<manager, queue, driver, radio, loop, requests, cause>>

SvcTask ==
  \/ SvcReceive \/ SvcStartBusy \/ SvcStartSpawns \/ SvcStartFails \/ SvcFlash
  \/ SvcStopOff \/ SvcStop \/ SvcStopped
  \/ SvcConnectSkips \/ SvcConnect \/ SvcConnectJoins \/ SvcJoining

-----------------------------------------------------------------------------
(* wifi_start_with_mode, the body of the driver task.                       *)

\* Mutant: the mode is read at the first bring-up only.
DrvModeCached ==
  /\ drv = "mode"
  /\ drvMode' = IF inited THEN drvMode ELSE mode
  /\ drv' = IF inited THEN "check" ELSE "init"
  /\ cause' = "none"
  /\ UNCHANGED <<manager, service, fsm, inited, radio, loop, requests>>

\* The mode is read once, here; what is recorded later waits for another run.
DrvMode ==
  /\ drv = "mode"
  /\ drvMode' = mode
  /\ drv' = IF inited THEN "check" ELSE "init"
  /\ cause' = "none"
  /\ UNCHANGED <<manager, service, fsm, inited, radio, loop, requests>>

DrvInit ==
  /\ drv = "init"
  /\ \/ drv' = "check" /\ inited' = TRUE
     \/ MayFail("init") /\ drv' = "abort" /\ inited' = inited
  /\ UNCHANGED <<manager, service, fsm, drvMode, radio, loop, requests, cause>>

\* Mutant: a lost link counts as stopped.
DrvCheckLostLink ==
  /\ drv = "check"
  /\ drv' = IF fsm \in {"POWER_OFF", "DISCONNECTED"} THEN "config" ELSE "stop"
  /\ UNCHANGED <<manager, service, fsm, drvMode, inited, radio, loop, requests, cause>>

DrvCheck ==
  /\ drv = "check"
  /\ drv' = IF fsm = "POWER_OFF" THEN "config" ELSE "stop"
  /\ UNCHANGED <<manager, service, fsm, drvMode, inited, radio, loop, requests, cause>>

DrvStop ==
  /\ drv = "stop"
  /\ \/ /\ \E o \in StopOutcomes(radio) : Perform(o)
        /\ drv' = "off"
     \/ /\ MayFail("stop")
        /\ drv' = "abort"
        /\ UNCHANGED <<radio, loopq>>
  /\ UNCHANGED <<manager, service, fsm, drvMode, inited, server, requests, cause>>

DrvOff ==
  /\ drv = "off"
  /\ fsm' = "POWER_OFF"
  /\ drv' = "config"
  /\ UNCHANGED <<manager, service, drvMode, inited, radio, loop, requests, cause>>

\* Mutant: the driver is configured for the mode recorded by now.
DrvConfigRereads ==
  /\ drv = "config"
  /\ \/ /\ \E o \in SetModeOutcomes(radio, mode) : Perform(o)
        /\ drv' = "start"
     \/ /\ MayFail("config")
        /\ \E o \in SetModeOutcomes(radio, mode) \cup {Outcome(radio, <<>>)} :
             Perform(o)
        /\ drv' = "abort"
  /\ UNCHANGED <<manager, service, fsm, drvMode, inited, server, requests, cause>>

\* esp_wifi_set_mode, then esp_wifi_set_config.
DrvConfig ==
  /\ drv = "config"
  /\ \/ /\ \E o \in SetModeOutcomes(radio, drvMode) : Perform(o)
        /\ drv' = "start"
     \/ /\ MayFail("config")
        /\ \E o \in SetModeOutcomes(radio, drvMode) \cup {Outcome(radio, <<>>)} :
             Perform(o)
        /\ drv' = "abort"
  /\ UNCHANGED <<manager, service, fsm, drvMode, inited, server, requests, cause>>

DrvStart ==
  /\ drv = "start"
  /\ \/ /\ Perform(StartOutcome(radio, drvMode))
        /\ drv' = "publish"
     \/ /\ MayFail("start")
        /\ drv' = "abort"
        /\ UNCHANGED <<radio, loopq>>
  /\ UNCHANGED <<manager, service, fsm, drvMode, inited, server, requests, cause>>

\* The task's own account of the state; the event loop writes its own.
DrvPublish ==
  /\ drv = "publish"
  /\ fsm' = IF drvMode = "AP" THEN "RUNNING" ELSE "CONNECTING"
  /\ drv' = IF drvMode = "AP" THEN "end" ELSE "connect"
  /\ UNCHANGED <<manager, service, drvMode, inited, radio, loop, requests, cause>>

DrvConnect ==
  /\ drv = "connect"
  /\ \/ radio' = Joined(radio) /\ fsm' = fsm
     \/ MayFail("connect") /\ fsm' = "IDLE" /\ radio' = radio
  /\ drv' = "end"
  /\ UNCHANGED <<manager, service, drvMode, inited, loop, requests, cause>>

\* Mutant: the task publishes the state as its last act.
DrvEndPublishes ==
  /\ drv = "end"
  /\ drv' = "none"
  /\ fsm' = IF drvMode = "AP" THEN "RUNNING" ELSE "CONNECTING"
  /\ UNCHANGED <<manager, service, drvMode, inited, radio, loop, requests, cause>>

DrvEnd ==
  /\ drv = "end"
  /\ drv' = "none"
  /\ UNCHANGED <<manager, service, fsm, drvMode, inited, radio, loop, requests, cause>>

\* Mutant: the error path leaves the task's handle behind.
DrvAbortKeepsTask ==
  /\ drv = "abort"
  /\ fsm' = "POWER_OFF"
  /\ cause' = "fault"
  /\ UNCHANGED <<manager, service, driver, radio, loop, requests>>

\* Every error path: state POWER_OFF, no driver task; the mode stays set.
DrvAbort ==
  /\ drv = "abort"
  /\ fsm' = "POWER_OFF"
  /\ drv' = "none"
  /\ cause' = "fault"
  /\ UNCHANGED <<manager, service, drvMode, inited, radio, loop, requests>>

DrvTask ==
  \/ DrvMode \/ DrvInit \/ DrvCheck \/ DrvStop \/ DrvOff \/ DrvConfig \/ DrvStart
  \/ DrvPublish \/ DrvConnect \/ DrvEnd \/ DrvAbort

-----------------------------------------------------------------------------
(* The environment.                                                         *)

Ask == requests < MaxRequests /\ requests' = requests + 1

\* POST /api/wifi_mode: accepted when the loop has room (refused otherwise,
\* with no effect here).
HttpModeRequest ==
  /\ server /\ Len(loopq) < LoopLen
  /\ \E e \in Requests : loopq' = Append(loopq, e)
  /\ Ask
  /\ UNCHANGED <<manager, service, fsm, driver, radio, server, cause>>

\* POST /api/wifi_cred: the credentials are queued for flash, or written at
\* once when the queue is full; the change is announced on the bus unless that
\* write failed.  One step here, as the announcement has no subscriber and only
\* takes room on the loop; Dashboard has the two posts apart.
HttpSaveCreds ==
  /\ server
  /\ PostEvent("STORE")
  /\ \/ loopq' = BusPost(loopq, "NOTIFY")
     \/ ~Room /\ loopq' = loopq
  /\ Ask
  /\ UNCHANGED <<manager, svc, fsm, driver, radio, server, cause>>

\* POST /api/relay and /api/exit: bus events without a subscriber.
HttpNotify ==
  /\ server
  /\ loopq' = BusPost(loopq, "NOTIFY")
  /\ Ask
  /\ UNCHANGED <<manager, service, fsm, driver, radio, server, cause>>

ApClient ==
  /\ radio.mode = "AP"
  /\ Perform(Outcome(radio, <<"AP_STACONNECTED">>))
  /\ Ask
  /\ UNCHANGED <<manager, service, fsm, driver, server, cause>>

Air ==
  /\ \E o \in AirOutcomes(radio) : Perform(o)
  /\ UNCHANGED <<manager, service, fsm, driver, server, requests, cause>>

\* wifi_srv_post_event by a caller outside the repository.  Such a caller posts
\* START, of either mode, only after app_main has set one.
ApiSent(e) == IF e # "START" THEN {e} ELSE IF pc["main"] = "idle" THEN StartEvents ELSE {}
ApiPost ==
  /\ \E e \in ApiEvents : \E s \in ApiSent(e) : PostEvent(s)
  /\ Ask
  /\ UNCHANGED <<manager, svc, fsm, driver, radio, loop, cause>>

Environment ==
  \/ HttpModeRequest \/ HttpSaveCreds \/ HttpNotify \/ ApClient \/ Air \/ ApiPost

-----------------------------------------------------------------------------
\* app_main stands at its wifi_srv_switch_mode(WIFI_MODE_AP): everything is
\* initialised and the service task runs.
Init ==
  /\ mode = "NULL"
  /\ pc = [c \in Callers |-> IF c = "main" THEN "compare" ELSE "idle"]
  /\ want = [c \in Callers |-> "AP"]
  /\ queue = <<>> /\ svc = "idle"
  /\ fsm = "POWER_OFF"
  /\ drv = "none" /\ drvMode = "NULL" /\ inited = FALSE
  /\ radio = RadioOff
  /\ loopq = <<>> /\ server = FALSE
  /\ requests = 0 /\ cause = "none"

\* Every task waits for its queue and the driver task is gone.
Quiescent ==
  /\ \A c \in Callers : pc[c] = "idle"
  /\ queue = <<>> /\ svc = "idle" /\ drv = "none" /\ loopq = <<>>

\* Waiting for the next request is not a deadlock.
Waiting == Quiescent /\ UNCHANGED vars

Next == MainTask \/ LoopTask \/ SvcTask \/ DrvTask \/ Environment \/ Waiting

\* FreeRTOS runs a ready task whenever no task of higher priority is ready,
\* and each of these blocks on its queue when it has nothing to do.
Fairness ==
  WF_vars(MainTask) /\ WF_vars(LoopTask) /\ WF_vars(SvcTask) /\ WF_vars(DrvTask)

Spec     == Init /\ [][Next]_vars
FairSpec == Spec /\ Fairness

-----------------------------------------------------------------------------
TypeOK ==
  /\ mode \in Modes
  /\ pc \in [Callers -> CallerPcs] /\ want \in [Callers -> {"AP", "STA"}]
  /\ queue \in Seq(SrvEvents) /\ Len(queue) <= QueueLen
  /\ svc \in SvcStates
  /\ fsm \in FsmStates
  /\ drv \in DriverPcs /\ drvMode \in Modes /\ inited \in BOOLEAN
  /\ radio \in Radios
  /\ loopq \in Seq(LoopEvents) /\ Len(loopq) <= LoopLen
  /\ server \in BOOLEAN
  /\ requests \in 0..MaxRequests
  /\ cause \in Causes

-----------------------------------------------------------------------------
(* Safety.                                                                  *)

\* The manager's mode is written before the radio follows, and the driver task
\* may miss the START event that would make it follow
\* (wifi_handler_start_driver).  When every task waits again, the radio stands
\* in the manager's mode unless a post found the queue full, a START event met
\* a driver run that had read the old mode, a call failed, or a STOP came.
Converged == Quiescent /\ cause = "none" => radio.mode = mode

\* wifi_start_with_mode takes every mode but AP for STA.  No driver run reads
\* the mode before wifi_srv_switch_mode has recorded one.
NeverNullMode == drv \notin {"none", "mode"} => drvMode # "NULL"

\* The driver task decides by the FSM state, which the event loop writes as
\* well, whether the radio must be stopped first.  Whatever the order of the
\* two, esp_wifi_start finds the radio stopped.
StartOnlyStopped == drv = "start" => radio.mode = "OFF"

\* The FSM state has two writers, the driver task and the event loop, and the
\* loop's events are late.  When every task waits again, the state is one the
\* radio is in.
FsmAgrees ==
  Quiescent =>
    CASE radio.mode = "OFF" -> fsm = "POWER_OFF"
      [] radio.mode = "AP"  -> fsm = "RUNNING"
      [] radio.mode = "STA" ->
           CASE radio.link = "joining"    -> fsm \in {"RUNNING", "CONNECTING"}
             [] radio.link = "down"       -> fsm = "DISCONNECTED"
             [] radio.link \in {"up", "ip"} -> fsm = "CONNECTED"

\* http_manager starts and stops the server on the events of two interfaces,
\* which overlap while the mode changes.  When every task waits again, the
\* server runs exactly when some interface is up.
ServerAgrees == Quiescent => (server <=> radio.mode # "OFF")

-----------------------------------------------------------------------------
(* The abstract mode switch this module implements (ModeSwitch.tla).  A run *)
(* is a driver task once it has read the mode; its interface counts as up   *)
(* from the return of esp_wifi_start on.                                    *)

Phase == CASE drv \in {"none", "mode"}              -> "idle"
           [] drv \in {"publish", "connect", "end"} -> "up"
           [] OTHER                                 -> "down"

Switch == INSTANCE ModeSwitch WITH
            Modes <- {"AP", "STA"}, NoMode <- "NULL", Off <- "OFF",
            StopFails <- "stop" \in Faults, Disturbed <- ~(ApiEvents \subseteq {"START"}),
            target <- mode, run <- drvMode, phase <- Phase, on <- radio.mode

\* wifi_start_with_mode and the events around it: whatever the event loop
\* writes into the FSM state meanwhile, and whichever call fails, the
\* interface changes only in a driver run, to the mode recorded when the run
\* read it, and through a stopped radio; a run ends with that interface up or,
\* after an error, with none.  If esp_wifi_stop fails, what the next run finds
\* still running it exchanges for its own interface.
Switching == Switch!Spec

-----------------------------------------------------------------------------
(* Liveness, under FairSpec.                                                *)

\* A START event is refused while a driver task exists, so every run must come
\* to its end and give the handle back, on its error paths too.
DriverFinishes == drv # "none" ~> drv = "none"

\* A recorded mode is brought up, unless another one replaces it or one of the
\* causes intervenes.
Switches ==
  \A m \in {"AP", "STA"} :
    mode = m ~> (radio.mode = m \/ mode # m \/ cause # "none")

-----------------------------------------------------------------------------
(* What the documentation says and the code does not do.                    *)

\* README.md: the modes are "switchable at runtime".  The mode that was
\* recorded is the mode the radio reaches.
ModeReached == Quiescent => radio.mode = mode

\* wifi_handler.h on CONNECTING: "esp_wifi_connect issued, awaiting link".
\* With every event processed, an attempt under way shows as CONNECTING.
ConnectingShows == Quiescent /\ radio.link = "joining" => fsm = "CONNECTING"

\* wifi_handler.c on CONNECT: "If the driver is already running in STA mode,
\* apply new creds and reconnect."  A running station is not skipped.
ConnectReconnects ==
  [][svc = "CONNECT" /\ svc' = "idle" /\ drv = "none" => radio.mode # "STA"]_vars
============================================================================
