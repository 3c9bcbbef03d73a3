----------------------------- MODULE HttpServer -----------------------------
(***************************************************************************)
(* The HTTP server: its life (http_manager.c) and the request handlers     *)
(* that its one task runs, one after the other (http_handler.c and         *)
(* http_service.c).  httpd_stop returns when the task has left: a handler  *)
(* that has begun is finished first.                                       *)
(*                                                                         *)
(* A handler reads and parses the body, acts, and answers.  It owns the    *)
(* JSON tree of the body, and the block it packs or copies, until it has   *)
(* handed the block on.                                                    *)
(***************************************************************************)
EXTENDS WifiService

CONSTANT MaxRequests   \* bound on what the environment asks for

ASSUME ServerAssumption == MaxRequests \in Nat

\* The endpoints.  Those that only answer (pages, ping, data, OPTIONS) do
\* what "exit" does when its event finds the loop's queue full.
WithBody == {"relay", "save", "mode"}
Kinds    == WithBody \cup {"cred", "exit"}

NoRequest == [kind |-> "none", step |-> "idle", block |-> NoBlock,
              tree |-> "none", replies |-> 0, err |-> FALSE, stale |-> FALSE]

VARIABLES
  server,   \* s_http_server # NULL
  httpd,    \* the server's task: "down", "up", or "closing" for httpd_stop
  hooks,    \* driver events for which http_manager_init registered a handler
  task,     \* the request it works on
  served,   \* requests so far
  stuck     \* history: an httpd_stop has failed

httpVars == <<server, httpd, hooks, task, served, stuck>>
serverVars == <<server, httpd, hooks, stuck>>

In(s)    == task.step = s
Goto(s)  == task' = [task EXCEPT !.step = s]
\* Delete the tree and go on to the answer.
Answer   == task' = [task EXCEPT !.step = "reply", !.tree = "none", !.block = NoBlock]
\* Answer with an error, or none at all; the connection is closed.
Refuse   == task' = [task EXCEPT !.step = "done", !.tree = "none", !.block = NoBlock,
                                 !.replies = @ + 1, !.err = TRUE]
Fail     == task' = [task EXCEPT !.step = "done", !.tree = "none", !.block = NoBlock,
                                 !.err = TRUE]

OnlyTask == UNCHANGED <<serverVars, served>>

-----------------------------------------------------------------------------
(* The handlers.                                                            *)

HttpTake ==
  /\ httpd = "up" /\ task = NoRequest /\ served < MaxRequests
  /\ served' = served + 1
  /\ \E k \in Kinds :
       task' = [NoRequest EXCEPT !.kind = k,
                  !.step = IF k \in WithBody THEN "body"
                           ELSE IF k = "cred" THEN "lock" ELSE "reply"]
  /\ UNCHANGED <<serverVars, heapVars, busVars, srvVars>>

\* Mutant: the refusal for a missing field keeps the tree.
HttpBodyKeeps ==
  /\ In("body")
  /\ \/ Fail \/ Refuse
     \/ task' = [task EXCEPT !.step = task.kind, !.tree = "live"]
     \/ task.kind # "relay" /\
        task' = [task EXCEPT !.step = "done", !.tree = "live", !.replies = @ + 1, !.err = TRUE]
  /\ OnlyTask /\ UNCHANGED <<heapVars, busVars, srvVars>>

\* Nothing received; not JSON, or a field is missing or is no mode (only the
\* relay's are optional); all is well.
HttpBody ==
  /\ In("body")
  /\ \/ Fail \/ Refuse
     \/ task' = [task EXCEPT !.step = task.kind, !.tree = "live"]
  /\ OnlyTask /\ UNCHANGED <<heapVars, busVars, srvVars>>

HttpRelay ==
  /\ In("relay")
  /\ Announce(Event("http", NoBlock))
  /\ Answer
  /\ OnlyTask /\ UNCHANGED <<heapVars, srvVars>>

\* http_service_save_wifi_creds: look at the queue, copy the pair.
HttpCopies ==
  /\ In("save")
  /\ \/ /\ open /\ Allocate
        /\ task' = [task EXCEPT !.step = "send", !.block = Fresh]
     \/ /\ ~open \/ Full \/ MayFail("memory")
        /\ Goto("lock") /\ UNCHANGED heapVars
  /\ OnlyTask /\ UNCHANGED <<busVars, srvVars>>

HttpSends ==
  /\ In("send")
  /\ Send(Message("STORE", task.block))
  /\ task' = [task EXCEPT !.block = NoBlock,
                !.step = IF messages' # messages THEN "notify" ELSE "lock"]
  /\ OnlyTask /\ UNCHANGED busVars

\* The storage manager's mutex, for GET /api/wifi_cred and for the fallback.
HttpLock ==
  /\ In("lock") /\ lock = "none"
  /\ lock' = "http"
  /\ Goto("access")
  /\ OnlyTask
  /\ UNCHANGED <<heapVars, busVars, open, messages, alive, hand, writers, restoring, handler>>

\* Mutant: a save that fails keeps the mutex.
HttpUnlockKeeps ==
  /\ In("access")
  /\ \/ task.kind = "cred" /\ Answer /\ lock' = "none"
     \/ task.kind = "save" /\ Goto("notify") /\ lock' = "none"
     \/ task.kind = "save" /\ MayFail("flash") /\ Refuse /\ UNCHANGED lock
  /\ OnlyTask
  /\ UNCHANGED <<heapVars, busVars, open, messages, alive, hand, writers, restoring, handler>>

\* A load that fails is answered like one that succeeds.
HttpUnlock ==
  /\ In("access")
  /\ lock' = "none"
  /\ \/ task.kind = "cred" /\ Answer
     \/ task.kind = "save" /\ Goto("notify")
     \/ task.kind = "save" /\ MayFail("flash") /\ Refuse
  /\ OnlyTask
  /\ UNCHANGED <<heapVars, busVars, open, messages, alive, hand, writers, restoring, handler>>

HttpNotify ==
  /\ In("notify")
  /\ Announce(Event("http", NoBlock))
  /\ Answer
  /\ OnlyTask /\ UNCHANGED <<heapVars, srvVars>>

\* json_post_wifi_mode: pack the request and let the tree go.
HttpPacks ==
  /\ In("mode")
  /\ \/ /\ Allocate
        /\ task' = [task EXCEPT !.step = "post", !.block = Fresh, !.tree = "none"]
     \/ /\ Full \/ MayFail("memory")
        /\ Refuse /\ UNCHANGED heapVars
  /\ OnlyTask /\ UNCHANGED <<busVars, srvVars>>

\* Mutant: the block is released although the bus has it.
HttpPostsReleases ==
  /\ In("post")
  /\ Announce(Event("mode", task.block))
  /\ IF Posts(Event("mode", task.block)) THEN Answer ELSE Refuse
  /\ Release(task.block)
  /\ OnlyTask /\ UNCHANGED srvVars

\* The bus owns the block once it has accepted the event.
HttpPosts ==
  /\ In("post")
  /\ Announce(Event("mode", task.block))
  /\ IF Posts(Event("mode", task.block)) THEN Answer /\ UNCHANGED heapVars
                                         ELSE Refuse /\ Release(task.block)
  /\ OnlyTask /\ UNCHANGED srvVars

\* json_response_https; /api/exit posts its event after the answer.  The
\* answer of a mode request names the mode through the deleted tree.
HttpReplies ==
  /\ In("reply")
  /\ \/ task' = [task EXCEPT !.step = "done", !.replies = @ + 1, !.stale = (task.kind = "mode")]
     \/ MayFail("memory") /\ Fail
  /\ IF task.kind = "exit" THEN Announce(Event("http", NoBlock)) ELSE UNCHANGED busVars
  /\ OnlyTask /\ UNCHANGED <<heapVars, srvVars>>

HttpReturns ==
  /\ In("done")
  /\ task' = NoRequest
  /\ OnlyTask /\ UNCHANGED <<heapVars, busVars, srvVars>>

\* The task leaves when it is asked to, between two requests.
HttpLeaves ==
  /\ httpd = "closing" /\ task = NoRequest
  /\ httpd' = "down"
  /\ UNCHANGED <<server, hooks, task, served, stuck, heapVars, busVars, srvVars>>

HttpWorks ==
  \/ HttpBody \/ HttpRelay \/ HttpCopies \/ HttpSends \/ HttpLock \/ HttpUnlock
  \/ HttpNotify \/ HttpPacks \/ HttpPosts \/ HttpReplies \/ HttpReturns \/ HttpLeaves

-----------------------------------------------------------------------------
(* http_manager.c, for the task that calls it.                              *)

\* http_manager_start: one server at a time has the port, and httpd_start or
\* the registration of the endpoints may fail; the latter is to be undone.
ServerStart(registered) ==
  /\ \/ server /\ registered /\ UNCHANGED <<server, httpd>>
     \/ ~server /\ httpd = "down" /\ server' = TRUE /\ httpd' = "up"
        /\ (registered \/ MayFail("httpd"))
     \/ ~server /\ (httpd # "down" \/ MayFail("httpd")) /\ registered
        /\ UNCHANGED <<server, httpd>>
  /\ UNCHANGED <<hooks, task, served, stuck>>

\* httpd_stop is called, by a task that finds the server there ...
StopCalled ==
  /\ server
  /\ httpd' = "closing"
  /\ UNCHANGED <<server, hooks, task, served, stuck>>

\* ... and fails at once, before it asked the server's task to leave: the
\* handle is kept by http_manager_stop, and lost by http_manager_start.
StopFails(kept) ==
  /\ server /\ MayFail("stop")
  /\ server' = kept /\ stuck' = TRUE
  /\ UNCHANGED <<httpd, hooks, task, served>>

\* ... or returns when that task has left.  Mutant: the handle goes before.
StopReturnedEarly ==
  /\ server' = FALSE
  /\ UNCHANGED <<httpd, hooks, task, served, stuck>>

StopReturned ==
  /\ httpd = "down"
  /\ server' = FALSE
  /\ UNCHANGED <<httpd, hooks, task, served, stuck>>

\* http_manager_init: START is registered before STOP.
ServerInit(ok) ==
  /\ \E hs \in {{}, {"START"}, DriverTypes} :
       /\ hooks' = hs
       /\ ok <=> hs = DriverTypes
       /\ ~ok => MayFail("register")
  /\ UNCHANGED <<server, httpd, task, served, stuck>>

Unhook ==
  /\ hooks' = {}
  /\ UNCHANGED <<server, httpd, task, served, stuck>>

HttpOff ==
  /\ server = FALSE /\ httpd = "down" /\ hooks = {}
  /\ task = NoRequest /\ served = 0 /\ stuck = FALSE
=============================================================================
