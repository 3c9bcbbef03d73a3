------------------------------ MODULE EventBus ------------------------------
(***************************************************************************)
(* event_bus.c on top of the default event loop of ESP-IDF: one queue, one *)
(* task that takes the events in order.  A dispatcher is registered for    *)
(* each of the two event bases; it looks the event up in a registry with   *)
(* at most one handler for each type.  The payload of an event is a        *)
(* pointer: whoever handles the event releases the block.                  *)
(***************************************************************************)
EXTENDS Sequences, Heap

CONSTANT LoopLen   \* slots of the loop's queue

ASSUME BusAssumption == LoopLen \in Nat \ {0}

\* event_type_t: HTTP_REQ_CHANGE_WF_MODE, the only one with a payload, and
\* the other HTTP events.  (WIFI events carry nothing and have no handler.)
Types  == {"mode", "http"}
BaseOf == [t \in Types |-> "HTTP"]
Bases  == {"WIFI", "HTTP"}

DriverTypes == {"START", "STOP"}   \* an interface comes up, goes down
Event(t, b) == [type |-> t, block |-> b]

VARIABLES
  loop,         \* the default event loop exists
  created,      \* s_loop_created
  dispatchers,  \* bases for which event_bus_dispatch is registered
  subscribed,   \* types with a handler in s_registry
  loopq         \* events not yet taken

busVars == <<loop, created, dispatchers, subscribed, loopq>>

\* Mutant: the bound of the queue is not looked at.
PostsAnyway(e) == loop

\* event_bus_post and esp_event_post without waiting: whether there is room.
Posts(e) == loop /\ Len(loopq) < LoopLen

Enqueue(e) ==
  /\ loopq' = Append(loopq, e)
  /\ UNCHANGED <<loop, created, dispatchers, subscribed>>

\* Mutant: wait for room (portMAX_DELAY).
AnnounceWaiting(e) == Posts(e) /\ Enqueue(e)

\* Post an event; nobody looks at the result.
Announce(e) == IF Posts(e) THEN Enqueue(e) ELSE UNCHANGED busVars

Take ==
  /\ loopq # <<>>
  /\ loopq' = Tail(loopq)
  /\ UNCHANGED <<loop, created, dispatchers, subscribed>>

\* event_bus_dispatch finds a handler for the event.
Handled(e) == e.type \in subscribed /\ BaseOf[e.type] \in dispatchers

\* event_bus_init: the outcome is "ok", or the call that fails.
BusInit(outcome) ==
  /\ outcome \in {"ok", "create", "wifi", "http"}
  /\ loop' = (loop \/ outcome # "create")
  /\ created' = (created \/ (outcome # "create" /\ ~loop))
  /\ dispatchers' = CASE created \/ outcome \in {"create", "wifi"} -> dispatchers
                      [] outcome = "http"                         -> dispatchers \cup {"WIFI"}
                      [] OTHER                                    -> Bases
  /\ UNCHANGED <<subscribed, loopq>>

Subscribe(t) ==
  /\ subscribed' = subscribed \cup {t}
  /\ UNCHANGED <<loop, created, dispatchers, loopq>>

Unsubscribe(t) ==
  /\ subscribed' = subscribed \ {t}
  /\ UNCHANGED <<loop, created, dispatchers, loopq>>

\* event_bus_deinit: a loop of our own goes, and the events in its queue.
BusDeinit ==
  /\ dispatchers' = {} /\ subscribed' = {}
  /\ loop' = (loop /\ ~created)
  /\ loopq' = IF created THEN <<>> ELSE loopq
  /\ created' = FALSE

Undelivered == IF created THEN {loopq[i].block : i \in DOMAIN loopq} ELSE {}

BusStart ==
  /\ loop = FALSE /\ created = FALSE /\ dispatchers = {} /\ subscribed = {}
  /\ loopq = <<>>
=============================================================================
