----------------------------- MODULE Dashboard -----------------------------
(***************************************************************************)
(* The firmware from boot to shutdown: app_main (main.c) brings the parts  *)
(* up one after the other, the event loop connects the HTTP server, the    *)
(* Wi-Fi service and the driver, and the public functions nothing in the   *)
(* repository calls take the parts down again, in any order and at any     *)
(* time.  The tasks are the event loop, the HTTP server's, the service's,  *)
(* the flash tasks, the driver, the status monitor, and the task that      *)
(* boots and shuts down.                                                   *)
(***************************************************************************)
EXTENDS HttpServer, FiniteSets

Boot == <<"nvs", "bus", "storage", "manager", "service", "start", "http", "mode", "load">>
Calls == {"flash", "radio", "http", "service", "bus"}   \* public calls, once each
AppSteps == {Boot[i] : i \in DOMAIN Boot} \cup
  {"up", "failed", "close", "closing", "unhook", "stop", "drain", "delete", "free", "clear"}
LoopSteps == {"idle", "unpack", "copy", "send", "switch", "post", "START", "STOP", "undo", "wait"}

NoWork == [step |-> "idle", block |-> NoBlock]

VARIABLES
  app,      \* where app_main, or the task that shuts down, stands
  down,     \* the public calls made that nothing in the repository makes
  work,     \* what the event loop does
  pending,  \* what the driver has to do: events for the loop, the "end" of a run
  radio,    \* an interface is up
  monitor,  \* status_monitor_task: "asleep", or "reads" s_handler->state
  early,    \* history: the calls made before their time
  leaked    \* history: the blocks of wifi_flash_store_creds that are lost

appVars  == <<app, down, early, monitor, leaked>>
loopVars == <<work, pending, radio>>
vars == <<heapVars, busVars, srvVars, httpVars, appVars, loopVars>>

-----------------------------------------------------------------------------
(* The event loop.                                                          *)

LoopAt(s) == work.step = s
LoopGoto(s, b) == work' = [step |-> s, block |-> b]
OnlyLoop == UNCHANGED <<appVars, pending, radio>>

\* The handlers of driver events run with s_handler as their argument.
Touches(e) == e.type \in DriverTypes

LoopTakes ==
  /\ LoopAt("idle") /\ Take
  /\ LET e == Head(loopq) IN
       /\ work' = IF Handled(e) THEN [step |-> "unpack", block |-> e.block]
                  ELSE IF e.type \in hooks THEN [step |-> e.type, block |-> NoBlock]
                  ELSE NoWork
       /\ IF Touches(e) THEN IF HandlerFreed THEN Misuse("handler") ELSE UNCHANGED heapVars
          ELSE IF Handled(e) THEN UNCHANGED heapVars ELSE Lose({e.block})
  /\ OnlyLoop /\ UNCHANGED <<srvVars, httpVars>>

\* Mutant: a payload that names no mode is not released.
LoopUnpacksKnown ==
  /\ LoopAt("unpack")
  /\ \/ Release(work.block) /\ (LoopGoto("copy", NoBlock) \/ LoopGoto("switch", NoBlock))
     \/ LoopGoto("idle", NoBlock) /\ UNCHANGED heapVars
  /\ OnlyLoop /\ UNCHANGED <<busVars, srvVars, httpVars>>

\* wifi_srv_mode_change_handler: no mode; a station with a pair; the rest.
LoopUnpacks ==
  /\ LoopAt("unpack")
  /\ Release(work.block)
  /\ \E s \in {"idle", "copy", "switch"} : LoopGoto(s, NoBlock)
  /\ OnlyLoop /\ UNCHANGED <<busVars, srvVars, httpVars>>

LoopCopies ==
  /\ LoopAt("copy")
  /\ \/ open /\ Allocate /\ LoopGoto("send", Fresh)
     \/ (~open \/ Full \/ MayFail("memory")) /\ LoopGoto("switch", NoBlock) /\ UNCHANGED heapVars
  /\ OnlyLoop /\ UNCHANGED <<busVars, srvVars, httpVars>>

LoopSends ==
  /\ LoopAt("send")
  /\ Send(Message("STORE", work.block))
  /\ LoopGoto("switch", NoBlock)
  /\ OnlyLoop /\ UNCHANGED <<busVars, httpVars>>

\* wifi_srv_switch_mode: already in the mode, or not; then its START.
LoopSwitches ==
  /\ LoopAt("switch")
  /\ \/ LoopGoto("idle", NoBlock)
     \/ open /\ LoopGoto("post", NoBlock)
  /\ OnlyLoop /\ UNCHANGED <<heapVars, busVars, srvVars, httpVars>>

LoopPosts ==
  /\ LoopAt("post")
  /\ Send(Message("START", NoBlock))
  /\ LoopGoto("idle", NoBlock)
  /\ OnlyLoop /\ UNCHANGED <<busVars, httpVars>>

LoopStarts ==
  /\ LoopAt("START")
  /\ \E registered \in BOOLEAN :
       /\ ServerStart(registered)
       /\ LoopGoto(IF registered THEN "idle" ELSE "undo", NoBlock)
  /\ OnlyLoop /\ UNCHANGED <<heapVars, busVars, srvVars>>

\* http_manager_stop, and http_manager_start that undoes what it began; a
\* server that another task is stopping is misused.
LoopStops ==
  /\ LoopAt("STOP") \/ LoopAt("undo")
  /\ \/ StopCalled /\ LoopGoto("wait", NoBlock)
     \/ StopFails(LoopAt("STOP")) /\ LoopGoto("idle", NoBlock)
     \/ ~server /\ LoopGoto("idle", NoBlock) /\ UNCHANGED httpVars
  /\ IF server /\ httpd # "up" THEN Misuse("server") ELSE UNCHANGED heapVars
  /\ OnlyLoop /\ UNCHANGED <<busVars, srvVars>>

LoopStopped ==
  /\ LoopAt("wait")
  /\ StopReturned
  /\ LoopGoto("idle", NoBlock)
  /\ OnlyLoop /\ UNCHANGED <<heapVars, busVars, srvVars>>

LoopWorks ==
  \/ LoopTakes \/ LoopUnpacks \/ LoopCopies \/ LoopSends \/ LoopSwitches
  \/ LoopPosts \/ LoopStarts \/ LoopStops \/ LoopStopped

-----------------------------------------------------------------------------
(* The service's START and STOP, and the driver behind them.                *)

\* A run ends with the start of the radio, or with the call that fails.
Running   == pending \notin {<<>>, <<"STOP">>}
Run(last) == IF radio /\ pending = <<>> THEN <<"STOP", last>> ELSE <<last>>

\* What START adds: nothing if a run is under way or its task cannot be
\* created, else the whole of a run, or one of which a call fails.
Runs ==
  IF Running THEN {<<>>}
  ELSE {Run("START")} \cup (IF MayFail("driver") THEN {<<>>, <<"end">>, Run("end")} ELSE {})

SvcStart ==
  /\ alive /\ hand.event = "START"
  /\ \E run \in Runs : pending' = pending \o run
  /\ hand' = NoMessage
  /\ UNCHANGED <<heapVars, open, messages, alive, writers, lock, restoring, handler, busVars,
                 httpVars, appVars, work, radio>>

\* A run that has begun is not stopped, one that is about to end is.
SvcStop ==
  /\ alive /\ hand.event = "STOP"
  /\ \/ pending' = IF radio /\ pending \in {<<>>, <<"end">>} THEN <<"STOP">> \o pending ELSE pending
     \/ MayFail("driver") /\ UNCHANGED pending
  /\ hand' = NoMessage
  /\ UNCHANGED <<heapVars, open, messages, alive, writers, lock, restoring, handler, busVars,
                 httpVars, appVars, work, radio>>

\* The driver's events wait for room; the run writes the FSM state, and at
\* its end, of which its start is the last call, that there is no run any more.
DriverEmits ==
  /\ pending # <<>>
  /\ IF Head(pending) = "end" THEN UNCHANGED <<busVars, radio>>
     ELSE /\ radio' = (Head(pending) = "START")
          /\ IF loop THEN /\ Posts(Event(Head(pending), NoBlock))
                          /\ Enqueue(Event(Head(pending), NoBlock))
                     ELSE UNCHANGED busVars
  /\ pending' = Tail(pending)
  /\ IF HandlerFreed THEN Misuse("handler") ELSE UNCHANGED heapVars
  /\ UNCHANGED <<srvVars, httpVars, appVars, work>>

ServiceWorks ==
  \/ (SvcReceive \/ SvcFlash) /\ UNCHANGED <<busVars, httpVars, appVars, loopVars>>
  \/ SvcStart \/ SvcStop

FlashWorks ==
  (FlashTakes \/ FlashEnds \/ Restore) /\ UNCHANGED <<busVars, httpVars, appVars, loopVars>>

-----------------------------------------------------------------------------
(* app_main.  A part that cannot be brought up ends it, and what is up      *)
(* stays up.                                                                *)

AppAt(s) == app = s
AppGoto(s) == app' = s /\ UNCHANGED <<down, early, monitor, leaked>>

BootBus ==
  /\ AppAt("bus")
  /\ \E o \in {"ok", "create", "wifi", "http"} :
       /\ o = "ok" \/ MayFail("register")
       /\ BusInit(o)
       /\ AppGoto(IF o = "ok" THEN "storage" ELSE "failed")
  /\ UNCHANGED <<heapVars, srvVars, httpVars, loopVars>>

\* nvs_flash_init and storage_manager_init; wifi_manager_create.
BootAllocates ==
  /\ \E i \in DOMAIN Boot :
       /\ Boot[i] = app /\ app \in {"nvs", "storage", "manager"}
       /\ \/ AppGoto(Boot[i + 1])
          \/ MayFail("memory") /\ AppGoto("failed")
  /\ UNCHANGED <<heapVars, busVars, srvVars, httpVars, loopVars>>

\* Subscribing before the server can take requests is what loses none.
BootService ==
  /\ AppAt("service")
  /\ \/ SrvInit("live") /\ Subscribe("mode") /\ AppGoto("start")
     \/ MayFail("memory") /\ SrvInit("none") /\ Subscribe("mode") /\ AppGoto("failed")
     \/ MayFail("memory") /\ UNCHANGED <<srvVars, busVars>> /\ AppGoto("failed")
  /\ UNCHANGED <<heapVars, httpVars, loopVars>>

BootStart ==
  /\ AppAt("start")
  /\ \/ SrvStart /\ AppGoto("http")
     \/ MayFail("memory") /\ UNCHANGED srvVars /\ AppGoto("failed")
  /\ UNCHANGED <<heapVars, busVars, httpVars, loopVars>>

BootHttp ==
  /\ AppAt("http")
  /\ \E ok \in BOOLEAN : ServerInit(ok) /\ AppGoto(IF ok THEN "mode" ELSE "failed")
  /\ UNCHANGED <<heapVars, busVars, srvVars, loopVars>>

BootPosts ==
  /\ \/ AppAt("mode") /\ Send(Message("START", NoBlock)) /\ AppGoto("load")
     \/ AppAt("load") /\ Send(Message("LOAD", NoBlock)) /\ AppGoto("up")
  /\ UNCHANGED <<busVars, httpVars, loopVars>>

AppBoots ==
  BootBus \/ BootAllocates \/ BootService \/ BootStart \/ BootHttp \/ BootPosts

-----------------------------------------------------------------------------
(* status_monitor_task, which app_main creates behind the service's task,   *)
(* for ever: look at s_handler, then at the state.  Only the end of the     *)
(* handler comes between the two, so that a look that nothing separates     *)
(* from that end stands for every look before it.                           *)

MonitorTurns(from, to) ==
  /\ monitor = from /\ monitor' = to
  /\ UNCHANGED <<srvVars, busVars, httpVars, loopVars, app, down, early, leaked>>

MonitorLooks ==
  /\ app \in {"free", "clear"}
  /\ MonitorTurns("asleep", "reads")
  /\ UNCHANGED heapVars

MonitorReads ==
  /\ MonitorTurns("reads", "asleep")
  /\ IF HandlerFreed THEN Misuse("state") ELSE UNCHANGED heapVars

-----------------------------------------------------------------------------
(* Public functions for flash that nothing in the repository calls.         *)
(* MaxRequests bounds their calls and the requests together.                *)

AppFlash ==
  /\ AppAt("up") /\ "flash" \notin down /\ served < MaxRequests
  /\ down' = down \cup {"flash"} /\ served' = served + 1
  /\ \/ ApiStore /\ UNCHANGED leaked
     \/ ApiStoreLeaks /\ leaked' = leaked \cup {Fresh}
  /\ UNCHANGED <<app, early, monitor, server, httpd, hooks, task, stuck, busVars, loopVars>>

-----------------------------------------------------------------------------
(* Shutdown.  Nothing in the repository calls these; the headers offer them *)
(* in no particular order.  The time of a call is when what it takes down   *)
(* has nothing left to do, and what uses that is down already.              *)

Quiet ==
  /\ pending = <<>> /\ loopq = <<>> /\ work = NoWork
  /\ messages = <<>> /\ hand = NoMessage
  /\ ~radio

NoServer == ~server /\ httpd = "down"

TimeOf(c) ==
  CASE c = "radio"   -> TRUE
    [] c = "http"    -> Quiet
    [] c = "service" -> Quiet /\ "http" \in down /\ NoServer /\ writers = {} /\ ~restoring
    [] c = "bus"     -> {"http", "service"} \subseteq down /\ NoServer

Begin(c, s) ==
  /\ AppAt("up") /\ c \notin down
  /\ app' = s
  /\ down' = down \cup {c}
  /\ early' = IF TimeOf(c) THEN early ELSE early \cup {c}
  /\ UNCHANGED <<monitor, leaked>>

\* wifi_srv_post_event(WIFI_SRV_EVENT_STOP).
ShutRadio ==
  /\ Begin("radio", "up")
  /\ IF open THEN Send(Message("STOP", NoBlock)) ELSE UNCHANGED <<heapVars, srvVars>>
  /\ UNCHANGED <<busVars, httpVars, loopVars>>

\* http_manager_deinit: the stop, then the end of the registrations.
ShutHttp ==
  /\ \/ /\ \/ Begin("http", "closing") /\ StopCalled
           \/ Begin("http", "unhook") /\ StopFails(TRUE)
           \/ Begin("http", "unhook") /\ ~server /\ UNCHANGED httpVars
        /\ IF server /\ httpd # "up" THEN Misuse("server") ELSE UNCHANGED heapVars
     \/ /\ AppAt("closing") /\ AppGoto("unhook")
        /\ StopReturned
        /\ UNCHANGED heapVars
     \/ /\ AppAt("unhook") /\ AppGoto("up")
        /\ Unhook
        /\ UNCHANGED heapVars
  /\ UNCHANGED <<busVars, srvVars, loopVars>>

\* wifi_srv_deinit.
ShutService ==
  /\ \/ Begin("service", "stop") /\ UNCHANGED <<heapVars, srvVars, busVars>>
     \/ AppAt("stop")   /\ SrvStop   /\ AppGoto("drain")  /\ UNCHANGED busVars
     \/ AppAt("drain")  /\ SrvDrain  /\ AppGoto("delete") /\ UNCHANGED busVars
     \/ AppAt("delete") /\ SrvDelete /\ AppGoto("free")   /\ UNCHANGED busVars
     \/ AppAt("free") /\ Unsubscribe("mode") /\ HandlerFree /\ AppGoto("clear") /\ UNCHANGED heapVars
     \/ AppAt("clear") /\ HandlerClear /\ AppGoto("up") /\ UNCHANGED <<heapVars, busVars>>
  /\ UNCHANGED <<httpVars, loopVars>>

\* event_bus_deinit: deleting the loop waits for the handler it runs.
ShutBus ==
  /\ LoopAt("idle")
  /\ Begin("bus", "up")
  /\ BusDeinit /\ Lose(Undelivered)
  /\ UNCHANGED <<srvVars, httpVars, loopVars>>

AppShuts == ShutRadio \/ ShutHttp \/ ShutService \/ ShutBus

-----------------------------------------------------------------------------
Init ==
  /\ HeapInit /\ BusStart /\ SrvOff /\ HttpOff
  /\ app = "nvs" /\ down = {} /\ early = {}
  /\ work = NoWork /\ pending = <<>> /\ radio = FALSE /\ monitor = "asleep" /\ leaked = {}

\* A released object was used: what the device does then is not defined, and
\* the model ends there.
Undefined == misused # {}

\* Every task waits: for a request, an event, a message or a caller.
AtRest ==
  /\ app \in {"up", "failed"}
  /\ work = NoWork /\ pending = <<>> /\ loopq = <<>>
  /\ hand = NoMessage /\ (alive => messages = <<>>)
  /\ writers = {} /\ ~restoring /\ lock = "none"
  /\ task = NoRequest /\ httpd # "closing"

Waiting == (AtRest \/ Undefined) /\ UNCHANGED vars

HttpServes == HttpWorks /\ UNCHANGED <<appVars, loopVars>>

Works ==
  \/ AppBoots \/ AppShuts
  \/ HttpTake /\ UNCHANGED <<appVars, loopVars>>
  \/ HttpServes
  \/ LoopWorks \/ ServiceWorks \/ FlashWorks
  \/ DriverEmits
  \/ MonitorLooks \/ MonitorReads
  \/ AppFlash

Next == (~Undefined /\ Works) \/ Waiting

Spec == Init /\ [][Next]_vars

-----------------------------------------------------------------------------
TypeOK ==
  /\ heap \subseteq Blocks /\ used \in 0 .. MaxBlocks /\ lost \subseteq Blocks
  /\ misused \subseteq {"block", "queue", "handler", "server", "state"}
  /\ {loop, created, open, alive, restoring, server, radio, stuck} \subseteq BOOLEAN
  /\ dispatchers \subseteq Bases /\ subscribed \subseteq Types
  /\ loopq \in Seq([type : Types \cup DriverTypes, block : 0 .. MaxBlocks])
  /\ Len(loopq) <= LoopLen
  /\ messages \in Seq([event : {"START", "STOP", "STORE", "LOAD"}, block : 0 .. MaxBlocks])
  /\ Len(messages) <= QueueLen
  /\ hand \in [event : {"none", "START", "STOP", "STORE", "LOAD"}, block : 0 .. MaxBlocks]
  /\ writers \subseteq 0 .. MaxBlocks
  /\ lock \in {"none", "flash", "http"} /\ handler \in {"none", "live", "freed", "gone"}
  /\ httpd \in {"down", "up", "closing"} /\ hooks \subseteq DriverTypes
  /\ task.kind \in Kinds \cup {"none"} /\ task.block \in 0 .. MaxBlocks
  /\ served \in 0 .. MaxRequests
  /\ app \in AppSteps /\ down \subseteq Calls /\ early \subseteq down
  /\ work \in [step : LoopSteps, block : 0 .. MaxBlocks]
  /\ pending \in Seq(DriverTypes \cup {"end"}) /\ Len(pending) <= 2
  /\ monitor \in {"asleep", "reads"} /\ leaked \subseteq Blocks

Holdings ==
  {<<"httpd", 0, task.block>>, <<"loop", 0, work.block>>, <<"service", 0, hand.block>>}
  \cup {<<"flash", b, b>> : b \in writers}
  \cup {<<"bus", i, loopq[i].block>> : i \in DOMAIN loopq}
  \cup {<<"queue", i, messages[i].block>> : i \in DOMAIN messages}

\* Ownership of the payloads (http_handler.c:259-262, wifi_service.c:84,
\* 184-211, wifi_handler.c:327, 457): a block has exactly one holder on its
\* way from the HTTP task over the event loop, the queue and the service to
\* a flash task, whichever of them refuses it, drops it or is taken down; a
\* block nobody holds was released, or is lost.
BlocksOwned ==
  /\ \A b \in heap \ lost : Cardinality({h \in Holdings : h[3] = b}) = 1
  /\ \A h \in Holdings : h[3] \in (heap \ lost) \cup {NoBlock}

\* What a shutdown call breaks (wifi_service.c:291-333, wifi_handler.c:497,
\* http_manager.c:175-187, event_bus.c:149): nothing when it is made at its
\* time, whatever else fails; else only what the call takes down itself.  Three
\* things no time prevents, each named: the status monitor reads a handler that
\* goes between its look and its read (main.c:60, wifi_handler.c:490-505), a
\* server whose httpd_stop fails stays (http_manager.c:90-91, 102-109), and a
\* copy of wifi_flash_store_creds whose task cannot be created is lost
\* (wifi_handler.c:515-522).
CausesNamed ==
  /\ misused \cap {"queue", "handler"} # {} => "service" \in early
  /\ "server" \in misused => "http" \in early \/ stuck
  /\ "state" \in misused => "service" \in down
  /\ lost # leaked => early \cap {"service", "bus"} # {}
  /\ "block" \notin misused
  /\ (AppAt("up") /\ "http" \in down /\ ~NoServer) => "http" \in early \/ stuck

\* Every way out of a request handler (http_handler.c:97-296): the tree is
\* deleted, no block is kept, there is at most one answer, and the server
\* hears of an error when there is none.  Only the answer of a mode request
\* may read the tree after it was deleted (http_handler.c:269).
RequestsEndClean ==
  In("done") =>
    /\ task.tree = "none" /\ task.block = NoBlock
    /\ task.replies <= 1
    /\ task.replies = 0 => task.err
    /\ task.stale => task.kind = "mode"

\* What httpd_stop on the event loop waits for (http_manager.c:102): the
\* server's task, whatever it does for a request, waits for no other task but
\* a flash task that has the mutex and can go on; so neither the loop nor a
\* caller of http_manager_deinit waits for itself.
HandlersMove ==
  (task # NoRequest \/ httpd = "closing") /\ ~Undefined =>
    ENABLED HttpServes \/ (lock = "flash" /\ ENABLED FlashWorks)

\* The server's task can go on by itself.
HttpReady ==
  /\ IF task = NoRequest THEN httpd = "closing" ELSE ~In("idle")
  /\ In("lock") => lock = "none"
  /\ In("access") => task.kind \in {"cred", "save"}

\* Nobody waits for ever (http_manager.c:102, 175, storage_manager.c:82-129):
\* a stop that waits, of the loop or of http_manager_deinit, is the only one and
\* waits for a server that is leaving or has left; the server's task can go on,
\* or waits for the mutex, which a task has that can go on and gives it back.
WaitsEnd ==
  ~Undefined =>
    /\ ~(LoopAt("wait") /\ AppAt("closing"))
    /\ LoopAt("wait") \/ AppAt("closing") => server /\ httpd # "up"
    /\ task # NoRequest \/ httpd = "closing" => HttpReady \/ (In("lock") /\ lock = "flash")
    /\ lock = "flash" => writers # {}
    /\ lock = "http" => In("access")
=============================================================================
