---------------------------- MODULE WifiService ----------------------------
(***************************************************************************)
(* The life of the Wi-Fi service (wifi_service.c) and of the blocks that   *)
(* pass through it: the unified queue, the service task, the flash tasks   *)
(* it spawns, and the end of all of them in wifi_srv_deinit.  What the     *)
(* messages do to modes and pairs is in WifiHandler and CredentialStore.   *)
(***************************************************************************)
EXTENDS EventBus

CONSTANTS
  QueueLen,   \* slots of the unified queue
  Faults      \* what may fail: "memory", "flash", "httpd", "register", "stop", "driver"

ASSUME ServiceAssumption == QueueLen \in Nat \ {0}

MayFail(f) == f \in Faults

\* STORE owns a block; START, STOP and LOAD carry none.
Message(e, b) == [event |-> e, block |-> b]
NoMessage == Message("none", NoBlock)

VARIABLES
  open,       \* unified_queue # NULL
  messages,   \* what the queue holds
  alive,      \* wifi_service_task exists
  hand,       \* the message it works on
  writers,    \* blocks of the flash tasks; NoBlock stands for a LOAD
  lock,       \* the storage manager's mutex: "none", "flash" or "http"
  restoring,  \* a LOAD has seen s_handler and is about to use it
  handler     \* s_handler: "none", "live", "freed" or "gone" (NULL again)

\* What s_handler pointed to is no more.
HandlerFreed == handler \in {"freed", "gone"}

srvVars == <<open, messages, alive, hand, writers, lock, restoring, handler>>

BlocksOf(ms) == {ms[i].block : i \in DOMAIN ms}

\* wifi_srv_post_event, the send: into the queue, refused, or into a queue
\* that was deleted after the caller had looked at its handle.
Send(m) ==
  /\ IF open /\ Len(messages) < QueueLen
       THEN messages' = Append(messages, m) /\ UNCHANGED heapVars
     ELSE IF open THEN Release(m.block) /\ UNCHANGED messages
     ELSE UNCHANGED <<messages, heap, used>> /\ misused' = misused \cup {"queue"}
          /\ lost' = lost \cup ({m.block} \ {NoBlock})
  /\ UNCHANGED <<open, alive, hand, writers, lock, restoring, handler>>

\* wifi_srv_init: the queue and the singleton; the caller subscribes.
SrvInit(h) ==
  /\ open' = TRUE /\ handler' = h
  /\ UNCHANGED <<messages, alive, hand, writers, lock, restoring>>

SrvStart ==
  /\ alive' = TRUE
  /\ UNCHANGED <<open, messages, hand, writers, lock, restoring, handler>>

SvcReceive ==
  /\ alive /\ hand = NoMessage /\ messages # <<>>
  /\ hand' = Head(messages) /\ messages' = Tail(messages)
  /\ UNCHANGED <<open, alive, writers, lock, restoring, handler, heapVars>>

\* Mutant: the block of a flash task that cannot be spawned is kept.
SvcFlashKeeps ==
  /\ alive /\ hand.event \in {"STORE", "LOAD"}
  /\ \/ writers' = writers \cup {hand.block} /\ UNCHANGED heapVars
     \/ MayFail("memory") /\ UNCHANGED <<writers, heapVars>>
  /\ hand' = NoMessage
  /\ UNCHANGED <<open, messages, alive, lock, restoring, handler>>

\* STORE and LOAD: a flash task takes the block over, or it is released.
SvcFlash ==
  /\ alive /\ hand.event \in {"STORE", "LOAD"}
  /\ \/ writers' = writers \cup {hand.block} /\ UNCHANGED heapVars
     \/ MayFail("memory") /\ Release(hand.block) /\ UNCHANGED writers
  /\ hand' = NoMessage
  /\ UNCHANGED <<open, messages, alive, lock, restoring, handler>>

FlashTakes ==
  /\ writers # {} /\ lock = "none"
  /\ lock' = "flash"
  /\ UNCHANGED <<open, messages, alive, hand, writers, restoring, handler, heapVars>>

\* A STORE releases its block; a LOAD looks at s_handler and what it points to.
FlashEnds ==
  /\ lock = "flash"
  /\ lock' = "none"
  /\ \E b \in writers :
       /\ IF b = NoBlock /\ handler = "freed" THEN Misuse("handler") ELSE Release(b)
       /\ writers' = writers \ {b}
       /\ restoring' = (restoring \/ (b = NoBlock /\ handler = "live"))
  /\ UNCHANGED <<open, messages, alive, hand, handler>>

Restore ==
  /\ restoring
  /\ restoring' = FALSE
  /\ IF HandlerFreed THEN Misuse("handler") ELSE UNCHANGED heapVars
  /\ UNCHANGED <<open, messages, alive, hand, writers, lock, handler>>

\* wifi_srv_stop: the task is deleted wherever it stands.
SrvStop ==
  /\ alive' = FALSE
  /\ hand' = NoMessage
  /\ Lose({hand.block})
  /\ UNCHANGED <<open, messages, writers, lock, restoring, handler>>

\* Mutant: only the first message is released before the queue goes.
SrvDrainOne ==
  /\ IF messages = <<>> THEN UNCHANGED <<messages, heapVars>>
     ELSE Release(Head(messages).block) /\ messages' = <<>>
  /\ UNCHANGED <<open, alive, hand, writers, lock, restoring, handler>>

\* wifi_srv_deinit: release what waits in the queue, then delete it.
SrvDrain ==
  /\ messages' = <<>>
  /\ heap' = heap \ BlocksOf(messages)
  /\ UNCHANGED <<used, lost, misused, open, alive, hand, writers, lock, restoring, handler>>

SrvDelete ==
  /\ open' = FALSE /\ messages' = <<>>
  /\ Lose(BlocksOf(messages))
  /\ UNCHANGED <<alive, hand, writers, lock, restoring, handler>>

\* wifi_handler_deinit: the block goes, then the pointer.
HandlerFree ==
  /\ handler' = "freed"
  /\ UNCHANGED <<open, messages, alive, hand, writers, lock, restoring>>

HandlerClear ==
  /\ handler' = "gone"
  /\ UNCHANGED <<open, messages, alive, hand, writers, lock, restoring>>

\* wifi_flash_store_creds, past the queue: a copy whose task cannot be created
\* is released by nobody.
ApiStoreLeaks ==
  /\ handler = "live" /\ ~Full /\ MayFail("memory")
  /\ heap' = heap \cup {Fresh} /\ used' = Fresh /\ lost' = lost \cup {Fresh}
  /\ UNCHANGED <<misused, srvVars>>

ApiStore ==
  /\ handler = "live" /\ Allocate
  /\ writers' = writers \cup {Fresh}
  /\ UNCHANGED <<open, messages, alive, hand, lock, restoring, handler>>

SrvOff ==
  /\ open = FALSE /\ messages = <<>> /\ alive = FALSE /\ hand = NoMessage
  /\ writers = {} /\ lock = "none" /\ restoring = FALSE /\ handler = "none"
=============================================================================
