# Verification of esp-dashboard-host

TLA+ models, TLC runs and TLAPS proofs of the firmware in `src/firmware`: an
ESP32 that serves a web dashboard, switches its Wi-Fi between access point and
station at runtime, and keeps Wi-Fi credentials in flash.

## 1. Inventory

The firmware is a set of FreeRTOS tasks on two cores around four queues: the
unified queue of the Wi-Fi service, the default event loop, the HTTP server's
sockets and the NVS mutex.

| Component | State | Operations | Talks to |
|---|---|---|---|
| Wi-Fi FSM, `wifi_handler.c` | FSM state, driver task handle, `wifi_inited` | process_event (START, STOP, CONNECT, STORE, LOAD), driver task, driver event handler, flash tasks | Wi-Fi manager, ESP-IDF driver, storage manager, event bus |
| Wi-Fi service, `wifi_service.c` | unified queue, service task, manager pointer | post_event, switch_mode (with or without credentials), set_credentials, mode change handler, start, stop, deinit | FSM, manager, event bus |
| Wi-Fi manager, `wifi_manager.c` | mode, credentials, configuration, under a mutex | get and set of each | - |
| Event bus, `event_bus.c` | registry of handlers, the default event loop | subscribe, unsubscribe, post without waiting, dispatch, deinit | its one subscriber, the mode change handler |
| HTTP server, `http_manager.c` | server handle, initialized flag | start and stop on interface events, deinit | ESP-IDF httpd |
| HTTP API, `http_handler.c`, `http_service.c` | none | one handler for each endpoint | event bus, Wi-Fi service, storage manager |
| Storage manager, `storage_manager.c` | mutex, NVS namespace | read, write, delete of a key; save, load, clear of credentials | NVS |
| Payload codec, `comp_decomp_data.h` | none | compress, decompress_get | HTTP API to mode change handler |
| Boot, `main.c` | none | app_main, status monitor | all of the above |
| JSON, `components/json/cJSON` | documents on the heap | parse, build, edit, copy, compare, delete; pointers, patches, merge patches | HTTP API (parsing and answers) |

What is hard here:

* the FSM state has two writers on two tasks and no lock (the driver task and
  the event loop), and three readers that decide by it;
* the mode is recorded first and brought up later by a task that refuses new
  work while it runs, behind a queue that drops when full;
* every STORE event runs as a task of its own, and a credential pair is two
  separately locked flash writes;
* payloads are heap copies whose ownership travels through queues that drop;
* stopping the HTTP server happens on the task its own handlers post to.

What makes the components correct: the radio ends in the recorded mode; the FSM
state and the HTTP server agree with the radio when all is quiet; every driver
run ends; a loaded credential pair is one that was saved; the newest pair wins;
no payload is lost or freed twice; nothing waits for itself; a JSON list is
whole after any sequence of calls, and a struct has one owner.

`PROJECT.json` lists the hazards one by one with the line where each bites.

## 2. Modules

| Module | What it is |
|---|---|
| `EspWifi` | the Wi-Fi driver as the firmware uses it; external, pure operators |
| `WifiHandler` | mode switching across all tasks: `app_main`, event loop, service task, driver task, HTTP task |
| `ModeSwitch` | abstract specification: what switching the mode promises; `WifiHandler` implements it |
| `WifiHandlerProofs`, `WifiEventsProofs` | its theorems: convergence and the driver run; the event loop's late writes and the refinement |
| `KeyStore` | abstract specification: atomic and durable reads and puts of keys |
| `StorageManager` | `storage_manager.c` used by several tasks at once; implements `KeyStore` |
| `StorageManagerProofs` | its theorems |
| `CredentialStore` | a credential pair in RAM, queue, flash and driver |
| `CredentialStoreProofs` | its theorems |
| `Heap` | the heap blocks that change hands between tasks |
| `EventBus` | `event_bus.c` on the default event loop |
| `WifiService` | the life of the Wi-Fi service: queue, service task, flash tasks, deinit |
| `HttpServer` | the life of the HTTP server and its request handlers |
| `Dashboard` | boot, event loop, shutdown: the composition of the four before |
| `DashboardProofs`, `ShutdownProofs` | its theorems: blocks and requests; shutdown calls and who waits for whom |
| `CJsonLists` | the lists of `cJSON.c`: the links each editing call writes, and when lists are whole |
| `ListCalls` | a program that makes those calls, one after the other |
| `ItemLists` | what they promise: sequences, without pointers |
| `Documents` | a program that makes, joins, takes apart and deletes documents on that heap |
| `Ownership` | what it is promised: every struct in one document, without lists |
| `CJsonListsProofs` | the theorems of all these |
| `CJson` | `cJSON.c`: documents as linked structs |
| `CJsonUtils` | `cJSON_Utils.c`: pointers, patches, merge patches |
| `Codec` | `comp_decomp_data.h`: packing keys and values into one text, and taking them out |
| `ModeRequest` | the three fields of a mode request on their way through it |
| `CodecProofs` | the theorems of both |
| `JsonDocs` | a program that uses `CJson`, `CJsonUtils` and `ModeRequest` |
| `MC...` | the instances for TLC of the module named behind `MC` |

`WifiHandler` extends `EspWifi` and instantiates `ModeSwitch`,
`StorageManager` instantiates `KeyStore`, `ListCalls` and `JsonDocs`
instantiate `ItemLists`, `Documents` and `JsonDocs` instantiate `Ownership`,
each with its refinement mapping. `Dashboard` extends
`HttpServer`, that `WifiService`, that `EventBus`, that `Heap`: each adds the
state of one component and the operations on it, and `Dashboard` the steps of
the tasks, which use several. `CJson` extends `CJsonLists`, `CJsonUtils`
extends `CJson`, `ModeRequest` extends `Codec`, and `JsonDocs` both chains;
`ListCalls` extends `CJsonLists`, and `Documents` that.

Four state machines look at the same firmware for different questions, each
abstracting what the others have: `WifiHandler` follows modes, `CredentialStore`
pairs, `StorageManager` the calls of one flash access, `Dashboard` the objects
that are created, handed on and released. `CredentialStore` writes a key in one
step because `StorageManager` implements `KeyStore`.

## 3. Mode switching: `EspWifi`, `WifiHandler`

`EspWifi` is the Wi-Fi driver as seen from the calls in `wifi_handler.c`. It is
external code, stated as pure operators: what each `esp_wifi_*` call does to the
radio (interface and station link) and which events it announces. It is
permissive where the driver's documentation is silent: whether an attempt that
has not succeeded is reported as lost when the interface goes down is left open.

`WifiHandler` is the whole path of a mode switch.

| Model | Code |
|---|---|
| `mode` | `wifi_manager_t.mode`; each access is one critical section of its mutex |
| `pc`, `want` | where `app_main` and the event loop stand in `wifi_srv_switch_mode`; reading, comparing, setting and posting are separate steps |
| `queue`, `svc` | the unified queue, and the message the service task is dispatching |
| `fsm`, `drv`, `inited` | `s_handler->state`, the driver task (`"none"` for a NULL handle), `wifi_inited` |
| `drvMode` | the local variable of `wifi_start_with_mode` |
| `loopq`, `server` | the default event loop's queue, `s_http_server` |
| `Switch*`, `MainLoad` | `wifi_srv_switch_mode` for both callers, the tail of `app_main` |
| `Loop*` | the event loop task: `wifi_event_handler` and the `http_manager` handlers for one driver event, or the mode change handler step by step |
| `Svc*` | `wifi_service_task` and `wifi_handler_process_event` |
| `Drv*` | `wifi_start_with_mode`, cut at every call and every access to shared state |
| `Http*`, `ApClient`, `Air`, `ApiPost` | requests, the air, callers outside `src/`, who post START, STOP and CONNECT as `ApiEvents` allows |

`cause` is a history variable: why the radio may stand in another mode than the
manager. A driver run resets it when it reads the mode. It is set when a START
event meets a run that has read another mode (`dropped`), when the post finds
the queue full (`full`), when a call fails (`fault`) and when STOP takes the
radio down (`stopped`); not when another START event or the current run will
still bring the recorded mode up. It appears in no guard.

`ModeSwitch` is what all of this promises, without tasks, queues or events: a
mode is recorded at any time; a run takes the recorded mode once, lowers what is
up, raises the interface of its mode and no other, and ends with it up or gives
up with none. `WifiHandler` maps to it `mode`, `drvMode`, the mode of the radio,
and where the driver run stands (`Phase`); every other variable is hidden, the
FSM state and the server included. Two of its constants weaken the promise by
what the code cannot answer for: `StopFails` (a failed `esp_wifi_stop` leaves the
old interface up, and the next run exchanges it directly) and `Disturbed` (STOP
and CONNECT posted from outside `src/` take the interface down in the middle of
a run). In the shipped firmware without a failing stop both are FALSE.

What the model abstracts: credentials and what flash holds (STORE and LOAD
occupy the queue and their turn); the reply to a request; endpoints without
effect on the Wi-Fi; `esp_wifi_set_mode` and `esp_wifi_set_config` are one
step, since nothing of the firmware acts between them on what they change; the
two posts of `http_service_save_wifi_creds` are one step, since the second has no
subscriber (`Dashboard` has them apart). A restart takes the device back to the
initial state, since nothing of this module is kept in flash.
`esp_event_loop_create_default` failing is not told apart from `esp_wifi_init`
failing: both take the same error path. A caller outside `src/` posts START, as
`wifi_handler.c:440` tells it to, only once `app_main` has recorded a mode; before
that the driver would be started with `WIFI_MODE_NULL`.

## 4. Credentials in flash: `KeyStore`, `StorageManager`

`KeyStore` says what one call of `storage_manager_read`, `_write` or `_delete`
promises to tasks that call concurrently: it takes effect at one instant, and a
write or deletion that returned without error outlives a loss of power; one that
failed may have taken effect or not.

`StorageManager` is the code: the three sequences under the mutex, and the save,
load and clear of a credential pair, each two sequences with the mutex free in
between.

| Model | Code |
|---|---|
| `Clients` | the tasks that call at the same time: one flash task for each STORE event, the boot LOAD task, and the HTTP task (GET `/api/wifi_cred`, and the synchronous save when the unified queue is full) |
| `lock` | `manager->lock`, taken with `portMAX_DELAY`: the timeout return is unreachable |
| `flash`, `stable` | the NVS namespace as a read sees it, and as a reset leaves it |
| `step`, `key`, `err` | where a client stands: `take`, `open`, `access`, `commit`, `give` of the sequence for `key`, and what it returned |
| `op`, `val`, `got` | the helper the client is in, what it saves, what it has loaded |
| `Take`, `Open`, `Write`, `Commit`, `Read`, `Give` | the calls of a sequence, with every error return |
| `Begin`, `SecondKey`, `Finish`, `Stops` | the three credential helpers: which error ends them |
| `PowerLoss` | a reset between any two calls |

A pair is one value: SSID and password of the pair `v` both are `v`, so that
mixing two pairs shows as a difference. `torn` and `alone` are history: whether
writers overlapped, failed or lost power, after which the keys may belong to
different pairs. They appear in no guard. `nvs_close` changes nothing that is
modelled. `nvs_open` for reading fails with NOT_FOUND while the namespace does
not exist; the model finds the missing key one call later, on a path that does
the same to the mutex and returns the same error.

Nothing in `src/` calls `storage_manager_clear_wifi_creds` yet; the model lets
any client call it, as the header offers it.

The refinement maps a client inside a sequence to a pending, applied, settled or
failed call, `flash` to the store and `stable` to what is kept. `Write` and
`Read` are the instants at which a call takes effect, `Commit` the one at which
it becomes durable.

## 5. Credentials: `CredentialStore`

Where `StorageManager` looks inside one save or load, `CredentialStore` follows
a pair through the firmware: set in RAM by `POST /api/wifi_cred`, by a mode
request or by a caller of the public functions; posted as STORE, dropped by a
full queue or written past it; written by one of several flash tasks; loaded
back at boot; given to the driver by the next run.

| Model | Code |
|---|---|
| `ram`, `mode` | the manager's pair and mode |
| `queue`, `svc` | the unified queue and the message in the service task's hands |
| `access` | each flash task, and the HTTP task in its fallback: which key of which pair comes next |
| `flash` | the two keys; `PowerLoss` keeps them and nothing else |
| `call` | where the HTTP task, the event loop and other callers stand in `http_service_save_wifi_creds` and `wifi_srv_switch_mode(_with_creds)` |
| `drv`, `radio` | the driver run's reads of mode and pair, and what the driver was configured with |
| `Faults` | what fails: a flash task's creation, a put, a get, the driver task's creation, a call of the driver, the copy of a pair |

Pairs are numbered in the order in which they are given. `apart` and `unapplied`
are history, as `cause` is in `WifiHandler`: why flash, or the driver, may hold
another pair than RAM. They are cleared when a later write or run makes good
what they record, and appear in no guard. "Needs no cause" is the claim: where
neither says why, the places agree. `unapplied` names a pair that was only set,
a START lost to a full queue (`full`) or to a run that had read the pair
(`busy`), and a driver task that could not be created or a call of the driver
that failed in it (`failed`), after which the radio keeps what it had, or stands
with what the calls before the failing one have left.

## 6. Boot, requests, shutdown: `Heap` to `Dashboard`

`Dashboard` asks of the whole firmware what a memory checker would ask: does
every block have one owner until it is released, is anything used after its
release, does every request end with one answer, can a task wait for itself.
Blocks are numbered and never reused, so a stale pointer cannot pass for a
valid one.

| Model | Code |
|---|---|
| `loopq`, `subscribed`, `dispatchers`, `created` | the event loop's queue, the registry, the two dispatchers, `s_loop_created` |
| `open`, `messages`, `alive`, `hand`, `writers`, `lock`, `restoring` | the unified queue, the service task and its message, the flash tasks, the storage mutex, a LOAD that is about to use the singleton |
| `handler` | its four states: not made, live, `"freed"` (between `free` and the assignment of NULL) and `"gone"` |
| `server`, `httpd`, `hooks`, `task` | `s_http_server`, the server's task, the registered driver events, the request it works on: tree, block, answers, step |
| `stuck` | history: a `httpd_stop` has failed |
| `monitor` | `status_monitor_task` between its look at `s_handler` and its read of the state |
| `app` | where `app_main` stands, each step with its error return; then where a shutdown call stands |
| `work`, `pending`, `radio` | the event loop's handler, the driver's announcements, whether an interface is up |
| `down`, `early` | public calls made, and those made while what they take down was still in use |
| `leaked` | history: the copies `wifi_flash_store_creds` has lost |

Nothing in the repository calls the shutdown functions, and the headers give no
order. The model lets them be called in any order at any time. A call that uses
a released object is undefined behaviour: `misused` records it and the model
stops there, because nothing can be said of what follows. `CausesNamed` then
says that it only ever happens behind a call made early, and of which kind: a
shutdown at its time, in the order radio, server, service, bus, breaks nothing,
but for three things that no time prevents and that the property names:

* `status_monitor_task` runs for ever and cannot be waited for:
  `wifi_handler_get_state` looks at `s_handler` and then reads through it, and the
  handler may be freed in between (`main.c:60`, `wifi_handler.c:490`, `:502`);
* a `httpd_stop` that fails leaves the server up: `http_manager_stop` keeps the
  handle and `http_manager_deinit` goes on without it (`http_manager.c:102`,
  `:176`), `http_manager_start` gives the handle up (`:90`);
* `wifi_flash_store_creds` does not release its copy when the flash task cannot
  be created (`wifi_handler.c:522`), shutdown or not.

One release is outside this account: `json_post_wifi_mode` deletes the tree and
then puts the mode's string, which belongs to it, into the answer
(`http_handler.c:252`, `:269`). `task.stale` shows it, and `RequestsEndClean`
says that no other handler does so.

## 7. JSON: `CJsonLists` to `JsonDocs`, `Codec`, `ModeRequest`

The repository carries its own copy of cJSON. Its documents are lists in which
the `prev` of the first member is, by convention, the last member, and every
call that edits a list must keep it so. `CJson` is `cJSON.c` at that level: a
heap of structs with `child`, `next`, `prev`, and each function as an operator
on heaps that follows its assignments in their order, failing allocations of
structs and of names included. Those of its functions that write links, without recursion, are in
`CJsonLists`, with the definition of what the links must be: `IsList(h, p, s)`
says that the links of `p` are those of the sequence `s`, and `Whole(h, lists)`
that every list is such a sequence, no two share a member, and what is in none
is chained to nothing. `ItemLists` says what the calls are for: every item has
a sequence of items, no item is in two places, and a call adds at the end,
takes out, puts in before a member, or exchanges a member. `ListCalls` is any
program that makes these calls on any whole heap, adding only what is in no
list and taking out only members; there the lists are not kept beside the heap
but read off it (`Contents`).

`Ownership` says what a program relies on when it builds and deletes documents:
every struct allocated is in the tree of exactly one root that the program
holds. It knows members, no lists: `Tree(k, i)` is the least set with `i` and the
members of all that is in it, and a deletion frees one tree and nothing else.
`Documents` is that program on the heap of `ListCalls`, from an empty heap: it
creates structs, adds them, inserts, replaces by pointer or by name, detaches and
deletes, held documents or members. What it must keep to is in the guards: it
adds what it holds, never a document to a part of itself (`cJSON.c` checks only
`array == item`, `cJSON.c:1978`), and names members of the parent it gives. It
makes no references and does not call the parser or `cJSON_Duplicate`, whose
results can be built with the calls it makes; the calls through references are
in `JsonDocs`. A deletion in `Documents` frees a tree in one step, while
`cJSON_Delete` follows links. `DeletesTree` of `JsonDocs` compares them: the
recursive `Delete` of `CJson` frees the structs of a walk over the document that
is in the terms of `Ownership` an enumeration of its tree.

`CJsonUtils` is `cJSON_Utils.c`, down to the recursion of its merge sort and the
position at which it writes a decoded `~1`. `Codec` is the packing of keys and
values into one payload and the taking out with `strtok_r`; `ModeRequest` sends
the three fields of a mode request through it, as `json_post_wifi_mode` and
`wifi_srv_mode_change_handler` do.

`JsonDocs` is a program that keeps to the rules of `cJSON.h` and makes any call:
it starts with two parsed documents, or a mode request, in a heap of 9 structs,
in which most calls run out of memory somewhere, or of 16; besides, in each call
the first, the second or the third allocation may fail alone (`Fail`, kept in
`fails` of the heap), that of a struct or of a name. It makes two calls,
of any kind; or one and then a patch (or merge patch) from one document to the
other, generated from the document itself or from a copy, applied step by step
and deleted; or one patch written by hand. Then the lists are examined against
independent definitions: `Tree` (what a document owns), `Document` (what it
says, as a set of members). `EditsOnePlace` compares its calls with `ItemLists`:
one that neither creates nor deletes a struct is at most one step of it (a patch
may take several). `DeletesTree` compares `cJSON_Delete` with `Ownership`, in
every state the calls lead to.

A text is abstracted to its tree; numbers to a symbol. Strings are sequences of
characters where their characters matter: names, pointers, and the packed
fields. Allocation of strings fails only for the names of members. Raw texts,
which nothing in the repository makes, are left out.

What the properties had to leave out is where the code does something else
than one would think, each found as a counterexample and confirmed in the
source:

* Sorting an object (`cJSONUtils_SortObject`, and with it generating or testing
  a patch, see `cJSON_Utils.h:38`) leaves the first member's `prev` wherever
  it was in its half of the list (`cJSON_Utils.c:484-602`). The next append
  hangs the new member behind an inner one and cuts off the rest, or finds
  `prev` NULL and returns success without adding anything
  (`cJSON.c:1997`): the new item is leaked. `Linked` allows it behind a sort
  and nowhere else. Patches applied to the very document they were generated
  from run into it.
* `decode_pointer_inplace` writes the slash of `~1` one place too far, and
  copies no other character (`cJSON_Utils.c:359-390`): a patch for the name
  `a/` adds the name `a~`. `PatchesReach` excludes names with `/`, and with `~`
  in front of another character; with `~` at the end they arrive.
* `generate_merge_patch` sorts without case and merges with `strcmp`
  (`cJSON_Utils.c:1406`, `:1423`), and the nested call is never case-sensitive:
  with capitals in names the merge patch leads elsewhere. `MergeReaches` is
  stated for small letters.
* For objects that hold the same `generate_merge_patch` answers NULL
  (`cJSON_Utils.c:1463`), and `merge_patch` takes NULL for a value to put in the
  document's place: it deletes the document and answers NULL (`:1325`).
  `MergeReaches` names that outcome for such objects, and no others.
* `add_item_to_object` does not release what it refuses. Where its answer is not
  looked at, a failing copy of the name leaks the item: a reference
  (`cJSON.c:2094`), the value of a patch, with status 0 and the old member gone
  (`cJSON_Utils.c:1015`), a value or a null of a patch or merge patch
  (`:1131`, `:1374`, `:1438`, `:1445`, `:1455`). `Owned` counts these items as leaked
  (`leaked` of the heap), each a document of its own, and shows that nothing else
  leaks.
* Without memory `compose_patch` and `generate_merge_patch` leave out what they
  could not allocate and report nothing.
* A failed move or replace has taken the old member out already
  (`cJSON_Utils.c:889`, `:918`); `cJSON_Utils.h` says that a list of patches is
  not atomic, `FailedPatchKeeps` how much one patch can lose.

The firmware itself calls the parser, `GetObjectItem`, the `Create...` and
`Add...` functions and `cJSON_Delete` only, none of which these affect.

A field with a `|` loses what follows it, and what follows may be taken for the
next field; `FieldsArrive` states the fields before. An empty field, one with
colons, one longer than its buffer all arrive (the latter cut).

## 8. Runs

| Run | Configuration | What it shows |
|---|---|---|
| `wifi_shipped` | no call fails, four requests, START posted from outside among them | `Converged`, `NeverNullMode`, `StartOnlyStopped`, `FsmAgrees`, `ServerAgrees` over every interleaving: the losses are exactly the named causes, the FSM state and the server agree with the radio when all is quiet; `Switching`: the whole is a mode switch (refinement of `ModeSwitch`) |
| `wifi_faults` | every driver call, task creation and server start may fail, three requests | `Converged` with the causes `fault`; a failing call leaves no interface behind but the one `esp_wifi_stop` could not stop (`Switching`); every driver run ends (`DriverFinishes`); a recorded mode is eventually brought up unless a cause intervenes (`Switches`) |
| `wifi_api` | START, STOP and CONNECT posted by callers outside `src/`, three requests | convergence and the server's agreement survive all three |
| `wifi_mode_lost` | violation | a switch can be lost for good (section 9) |
| `wifi_connecting_hidden` | violation | CONNECTING is overwritten (section 9) |
| `wifi_reconnect_skipped` | violation | CONNECT skips a running station (section 9) |
| `storage_safe` | three tasks, two pairs, opens and accesses fail, power is lost, four operations | `Serialized`, `WholeAtRest`, `LoadsAreStable` |
| `storage_refines` | two tasks, all NVS calls fail, three operations | `Implements` (refinement of `KeyStore`) and `OperationsEnd` |
| `storage_torn` | violation | a load returns half of two pairs (section 9) |
| `creds` | two pairs, one mode request, two flash tasks, every call may fail (flash, task creation, driver, memory), one loss of power, all public functions called | `RamMatchesFlash` and `StationHasPair` at rest, except for the named causes; `SavesReachFlash`: a save comes to its end |
| `dashboard` | boot with any call failing, one request of any kind, `wifi_flash_store_creds` and the shutdown calls in any order at any time, each once | `BlocksOwned`, `CausesNamed`, `RequestsEndClean`, `HandlersMove`, `WaitsEnd` |
| `json` | six pairs of documents, 25 requests, two calls, heaps of 9 and 16 structs, one failing allocation in each call | `Linked`, `Owned`, `DeletesTree`, `CompareAgrees`, `PointerFinds`, `PatchesReach`, `MergeReaches`, `FailedPatchKeeps`, `FieldsArrive`, `EditsOnePlace` |

`LoadsAreStable` needs `nvs_commit` to succeed, so "commit" is not among the
faults of `storage_safe`: after a failed commit a later load reads a value that
a reset may take back.

Bounds. The unified queue has 8 slots and the event loop 32; the models have
2 and 3. Three is the most one driver call announces, and both queues fill up in
the runs, which needs more requests with longer queues and shows nothing new:
the code distinguishes "room" and "no room" only. `MaxRequests` bounds the
environment. Two requests and the boot switch suffice for every pair of
overlapping switches, four add a third with other messages in between. For the
flash, three tasks are a writer, another one and a reader; two pairs are enough
to tell a mixed pair from a whole one; four operations let each task begin again
or the power fail once. The theorems hold for all of these constants.

Two pairs are the fewest that can cross, and every history value but "no" is
reached with them in `creds`. `dashboard` has one request, of any kind, whose
payload and the copy made of it are two blocks under way together, two slots in
each queue and two blocks; a block meets another only in the limits of heap and
queues, which are reached; for any number of requests there are the theorems. The documents of `json` are chosen for what the code
distinguishes: members out of order, names that differ in case, names with `/`
and with `~` in the middle and at the end, null, an array that shrinks, objects inside arrays and objects, a
change of type; two that hold the same are a document and its duplicate. Lists
of three members have a first, a last and an inner one. Heaps of 9 structs fail
in the middle of copies and of patches; the single failing allocation reaches a
struct, the name behind it, and the struct behind that. Fields are cut
at buffers of 4, empty, with a colon and with a bar.

Fairness. `FairSpec` has weak fairness of each task of the firmware: every task
blocks on a queue when it has nothing to do, the scheduler runs a ready task
when none of higher priority is ready, and no task of the firmware spins.
Nothing is assumed of the environment: HTTP clients, the air and other callers
may stop at any point. `FairSpec` of `StorageManager` has weak fairness of each
client that is inside an operation, on the same grounds; that a client waiting
for the mutex gets it needs no more, since operations are bounded and each
holder gives it back. Starting an operation and losing power are not fair.
`FairSpec` of `CredentialStore` has weak fairness of each caller inside a call,
of the service, the driver run and the flash tasks; giving pairs, requests and
the loss of power are not fair. `Dashboard` and `JsonDocs` state safety only: the
first stops at undefined behaviour, after which nothing must happen, the second
is a sequential program. That nobody waits for himself are the invariants
`HandlersMove` and `WaitsEnd`.

Deadlock is checked in every run but `json`, whose program is over after its
calls, or when an append was lost. `Waiting` in `WifiHandler`, `CredentialStore`
and `Dashboard` is a stutter in states where every task waits for its queue,
`Rest` in `StorageManager` one in states where every operation has returned and
the bound is reached.

## 9. Findings

Each is a run whose one property TLC refutes; the property restates the text it
contradicts.

* `wifi_mode_lost`. `wifi_srv_switch_mode` records the mode, then posts START. A
  driver run that has already read the previous mode, or a full queue, swallows
  the event, and a repeated request is answered "already in mode". The README
  promises modes "switchable at runtime".
* `wifi_connecting_hidden`. `WIFI_EVENT_STA_START` is handled on the event loop
  after the driver task wrote CONNECTING, and overwrites it with RUNNING.
  `wifi_handler.h` says CONNECTING is the state while the link is awaited.
* `wifi_reconnect_skipped`. CONNECT reconnects in the states CONNECTING and
  CONNECTED only; the comment says "if the driver is already running in STA mode".
  Nothing in `src/` posts CONNECT.
* `storage_torn`. The mutex covers one key, not the pair: a load between the two
  writes of a save returns a pair nobody saved. `main.c` says concurrent flash
  tasks never race.

Met while modelling, without a run of their own:

* RAM and flash may end with different pairs (`apart` in `CredentialStore`): two
  tasks set RAM in one order and post STORE in the other, an older flash task
  writes last, the fallback of `http_service_save_wifi_creds` is overtaken, the
  event loop finds the queue full. `src/README.md:84` says that new credentials
  are persisted for the next boot.
* New credentials for a station that is the recorded mode are stored and not
  applied (`wifi_service.c:245`), and CONNECT, which says it applies them
  (`wifi_handler.c:437`), rejoins with the driver's old configuration.
* The answer of `POST /api/wifi_mode` reads a string of the deleted tree
  (`http_handler.c:269`).
* `http_manager_deinit` stops the server before it unregisters the handlers
  (`http_manager.c:176`): an interface event in between starts it again.
* `cmpds_compress` reads one variadic argument behind the final NULL; its value
  is not used.
* The cases of cJSON in section 7.
* `src/README.md` documents a password for the access point, which the code
  opens without one; no component subscribes to HTTP_EXIT, HTTP_CONTROL_DEV and
  HTTP_REQ_CHANGE_CREADS.
* The three things of section 6 that a shutdown at its time does not prevent.

## 10. Proofs

`WifiHandlerProofs` proves, for every queue length, every set of failing calls
and every external use of the service:

* `TypeCorrect`: types, and the bounds of both queues;
* `ModeAlwaysKnown`: no run reads the mode before one is recorded;
* `Convergence`: when every task waits, the radio is in the recorded mode
  unless a named cause intervened;
* `StopBeforeStart`: a run starts only a stopped radio, provided `esp_wifi_stop`
  does not fail and no STOP or CONNECT comes from outside.

The inductive invariant is `Inv == Typing /\ Covered /\ Ready /\ Brought`.
`Typing` joins the types with `NoStartYet` (no START event exists before a mode
is recorded) and `NeverNullMode`: the type of the radio needs to know that the
driver is never given NULL, and that needs the other two. `Covered` is the
heart: when no START event is under way (about to be posted, queued, received,
or spawned and still to read the mode), the current run carries the manager's
mode, or there is no run and the radio has it. `Ready` and `Brought` carry the
run's mode over `esp_wifi_start` to the radio. `Converged` follows, since no
START event is under way when every task waits. `StopBeforeStart` adds `Quiet`
(only the firmware's own events are in the queue) and `Down` (the FSM state says
POWER_OFF only while the radio is off, except between the start of the driver
and the task's own account of it).

The assumptions on constants are `ConstantsAssumption` in `WifiHandler`,
`StorageAssumption` in `StorageManager`, `CredentialAssumption` in
`CredentialStore`, and one for each constant in `Heap`, `EventBus`,
`WifiService` and `HttpServer`: numbers that are not negative, queues with a
slot. TLC evaluates them in every run of those modules.

`StorageManagerProofs` proves, for every set of clients and of pairs and every
set of failing calls:

* `TypeCorrect`;
* `MutualExclusion`: `Serialized`, on every error path and over a reset;
* `Refinement`: `Spec => Implements`, that is, every step is a step of `KeyStore`
  or leaves its variables alone;
* `LoadsSurvive`: `LoadsAreStable`, provided `nvs_commit` does not fail;
* `WholePairs`: `WholeAtRest`, under the same condition.

The inductive invariant is `Inv == TypeOK /\ Serialized /\ Progress`. `Progress`
says what the calls of a sequence rely on: no error before the failing call, the
key holds the client's own value between write and commit, and a load has not
filled the key it is about to read. `Serialized` is needed for the second: no
other client can write in between, so `Commit` makes durable what this call put,
as `KeyStore!Settle` requires. `LoadsSurvive` adds `Durable`: a key whose value
is not durable belongs to the holder of the mutex at its commit.

`WholePairs` adds `Followed` to `Durable`: while one writer is at work alone, it
says of either key what the writer has done to it, and while none is, that the
two belong together unless `torn`.

`CredentialStoreProofs` proves, for any number of pairs, of requests, flash
tasks and losses of power, every queue length and whatever fails:

* `TypeCorrect`;
* `SavedAtRest`: `RamMatchesFlash`, flash holds the pair of RAM unless `apart`;
* `AppliedAtRest`: `StationHasPair`, a station runs with it unless `unapplied`,
  which a failed run, or one that was never created, sets like the other causes.

The inductive invariant is `Inv == TypeOK /\ Stages /\ Applied /\ Stored`.
`Stored` generalises the property from rest to every state: while no cause says
otherwise, the pair of RAM is in flash or on its way there, and `OnItsWay` lists
the places it can be in (`InCall`, `InQueue`, `InSvc`, `InTask`, `InFlash`,
`ToLoad`). A step that moves a pair from one place to the next keeps one of them
true; a step that drops it, or sets a newer one in the wrong order, is where
`apart` is set. `Applied` does the same for the driver: what the radio runs with
is the pair of RAM, or a run under way has still to read it. `Stages` ties the
position of a caller to what it carries.

`DashboardProofs` proves, for queues of any length, any number of requests and
blocks, whatever fails and whenever shutdown calls come:

* `TypeCorrect`;
* `BlocksHeldOnce`: `BlocksOwned`, one holder for each block in use;
* `RequestsClean`: `RequestsEndClean`, on every way out of a handler;
* `NeverReleasedTwice`: no release of a block that is not in use.

The inductive invariant joins types with what each holder may have in hand at
each step (`Request` for a request) and `Owned`: the blocks in use and not lost
are the disjoint union of what the HTTP task, the event loop, the service, the
flash tasks and the two queues hold. Disjointness says that two holders never
share a block; `Distinct` says it of two entries of one queue. Every step moves
a block from one part of the union to another, into it or out of it.

`ShutdownProofs` proves for the same constants `CausesKnown`: `CausesNamed`,
and `WaitersServed`: `WaitsEnd`. `CausesNamed` has the three things no time
prevents as causes of their own (`stuck`, `"state"`, `leaked`); everything else that
breaks must be behind an early call. The invariant `Shut` says when nothing can
happen any more. `BootOK` and `DownOK` relate the steps of
`app_main` and of the shutdown calls to what stands. `AfterService`: behind a
deinit of the service at its time everything is off, and stays off.
`AfterHttp`: behind a deinit of the server at its time the loop has nothing to
do and no START is under way, so nobody starts the server again. That the
server is down at its time is not part of what "its time" means; it follows
from `RadioOff`: while the radio is off, each start of the server in the loop's
queue is followed by a stop, and a server that runs has one coming. So the
order of the driver's events in the queue is part of the invariant. `ServerOK`
says who waits for the server's task when it is closing: the one place where
two tasks could stop it at once.

`WaitsEnd` is that no circle of waiting tasks closes: a stop waits for the
server's task, that task for the mutex of the storage manager, the mutex is with
a flash task or with the server's task itself, and these wait for nothing. Its
invariant `Waits` says of the mutex that its holder stands where it gives it back
(`LockOK`), of a request that it stands at steps of its own kind (`KindOK`), or
the task would have no step to take, and that at most one stop is under way, of
a server that is not started again meanwhile (`StopOK`): a second stop is
misuse, which `CausesKnown` traces to its call. `HttpReady` in it is a predicate
on states, the guards of the handlers' steps joined; TLC's `HandlersMove` says
the same with ENABLED.

`WifiEventsProofs` proves two theorems about what the event loop writes late:

* `ServerMatchesRadio`: `ServerAgrees`, provided `httpd_start` and `httpd_stop`
  succeed; every other call may fail, and START, STOP and CONNECT may come from
  outside;
* `StateMatchesRadio`: `FsmAgrees`, provided no call of the driver fails and no
  STOP or CONNECT comes from outside.

Both rest on one idea, `Ends(f, q, s, S)`: a variable that holds `s` now and
that every event `e` of `DOMAIN f` sets to `f[e]` stands in `S` once the queue
`q` is worked off. Its lemmas say what taking the head of the queue, appending
events that do not set the variable, and appending a sequence whose last event
does set it, make of it; they hold for every `f`. `ServerFollows` says it of
the server: each driver call that starts or stops the radio has the matching
interface event as its last (`Tells`). `StateFollows` says it of the FSM state,
which the driver task writes as well: nothing holds between the stop of the old
interface and the start of the new one (the report of the lost link may still
be queued and is written over POWER_OFF); from `esp_wifi_start` on, the START
event is the last of the events queued, so neither order of the task's write
and the loop's leaves a state that does not fit. At rest the queue is empty and
`Ends` is the property. With failing calls `FsmAgrees` does not hold: the error
path may write POWER_OFF while a START event, or the report of a lost link, is
still queued; the loop then overwrites it although the radio is off.

It also proves `SwitchesModes`: `Switching`, that is, every behaviour of
`WifiHandler` is one of `ModeSwitch`, for queues of any length, whatever fails and
whatever is posted from outside. The steps of the driver run map one by one:
`DrvMode` is `Take`, the stop of the old interface `Lower`, the configuration of
the driver a step of its own only where it changes a running interface
(`Exchange`), the start `Raise`, the error path `GiveUp`, the end `Finish`; the
steps of every other task record a mode or leave the four variables alone
(`SwitchSteps`), but for a STOP from outside, which is a `Lower`. That the start
is a `Raise` needs `Ready` of `WifiHandlerProofs`: the driver has been configured
with the mode the run took. That it finds the interface down is `Down`, the
invariant of `StopBeforeStart`, and holds only where neither weakening constant
is set. That it is still up when the run ends is `Raised`, which a STOP from
outside breaks.

`CodecProofs` proves, for every character set with `|` and `:`:

* `RoundTrip`: from any number of packed pairs, the value of a pair whose key no
  earlier pair has comes out as it went in, or cut to its buffer, if no key and
  no value up to there holds a `|`, and no key a `:`;
* `RequestArrives`: `RequestSpec => []FieldsArrive`, any three strings and any
  sizes of the buffers.

`Compress` is a recursive function over the pairs. What it computes is shown by
induction over the number of pairs (`CompressText`): the text so far is a prefix
of the whole (`Grows`, `Prefix`), so each pair stands in the whole where it was
put (`InWhole`). A pair without bars then is exactly one of the pieces of
`strtok_r` (`IsPiece`, `SamePiece`), with its first colon behind its key
(`KeyEndIs`), and a piece in front of it starts in an earlier pair (`Starts`), so
the first piece with the key is this pair's. What stands behind the pair, bars
and repeated keys included, does not matter.

`CJsonListsProofs` proves for heaps of any size, with any lists that are whole:

* `AppendsLast`: appending a struct that no list holds puts it last;
* `DetachesMember`: detaching any member takes it out, chained to nothing;
* `InsertsBefore`, `ReplacesInPlace`: likewise for inserting before a member and
  for putting a struct in the place of one; the member replaced is chained to
  nothing, so that deleting it deletes nothing behind it;
* `MovesToTheEnd`: detaching and appending, to the same list or another.

In each case all lists are whole afterwards, the others as they were. The calls
write single links; `DetachWrites`, `InsertWrites` and `RelinkWrites` say what all
the writes of a call come to, whatever the links were before, with the aliases
that occur (a list of one or two members, where first, last, before and after
are the same struct). `LinkBehind`, `LinkFirst`, `LinkWithout`, `LinkBefore` and
`LinkInPlace` then are about three functions and a sequence: that these writes
make the links of one sequence those of another. `OneList` is the frame: a call
that changes one list, and links of structs in no other, keeps the rest whole.
The clause of `Whole` about structs in no list is needed for the induction over
calls: `add_item_to_array` does not clear the `next` of the item it appends to a
list that is not empty, and relies on every detached or new item having none.

From these follow the theorems on `ListCalls`, for heaps of any size and any
sequence of calls:

* `StayWhole`: every list stays whole;
* `ListsAreSequences`: `ListCalls` implements `ItemLists`, the lists being what
  `Contents` reads off the heap.

The inductive invariant (`Inv`) is that the heap is whole with its contents. The
step that needs an argument is that the contents after a call are the lists the
theorem about the call names (`Reading`): a heap could have been whole with
others. It is not: two lists of one parent that differ have a first place where
they do (`First`), which is not the first member, as both start at `child`, nor
a later one, as both go on at `next` (`SameMembers`, `OneReading`).

And from these the theorems on `Documents`, for heaps of any size and any sequence
of calls, starting with an empty heap:

* `DocumentsStayOwned`: every struct allocated is in exactly one document, that
  is, in the tree of one root the program holds: none leaks, none is freed twice,
  none is in two places, and nothing freed is reached;
* `DocumentsAreManaged`: `Documents` implements `Ownership`.

The lemma `WalksTree` is what `DeletesTree` of `JsonDocs` leans on: a walk that takes
each struct from one before it and leaves out no member goes through the tree of
these theorems and nothing else. It is about trees alone; that the code's walk is
such a one is TLC's result.

The inductive invariant is `DocInv == Sound(heap) /\ Forest(...)`. `Sound` says
that the heap is whole with the lists read off its links. `Forest` is about
members alone: every member is allocated and has one parent, a root has none,
what has none is a root, and what is not allocated has no members. That allows
a circle of members, which no root reaches and no deletion frees: two documents
that have each become a part of the other are lost although every struct has
one parent. So `Forest` joins `Grounded`: every set of structs that is not
empty has one that is a member of none of them. That an addition keeps it is
where `p \notin Tree(i)` is needed. From `Grounded` follows that every struct
is in the tree of a root (else those that are in none would have their parents
among themselves), and from single parents that two trees do not meet. Trees
are least sets, so that their lemmas need no induction: what is in a tree is
shown by naming a closed set it must be in (`TreeLeast`). The step that joins
both levels is the deletion: freeing a tree leaves the other lists as they were
since no member of a list outside is in the tree (`OthersWhole`).

Not proved, checked by TLC only:

* the liveness properties (`DriverFinishes`, `Switches`, `OperationsEnd`,
  `SavesReachFlash`), which speak of fairness, and `HandlersMove`, which speaks of
  ENABLED: out of the prover's reach. What `HandlersMove` says beyond `WaitsEnd` is
  that `HttpReady` is where the handlers are enabled;
* `TypeOK` and the other properties of `JsonDocs`, whose operators are RECURSIVE
  over linked data. The theorems on lists and documents are about the calls that
  write links, and about deletion as the tree it frees. That `Linked` and `Owned`
  hold with duplication, parsing, sorting, references and patches among them, and
  that the recursion of `cJSON_Delete` frees the tree (`DeletesTree`), is TLC's
  result. Where the theorems reach, they reach lists, documents and heaps of any
  size, and TLC lists of three members in heaps of 16.

Induction itself is within reach as long as it is over a set of numbers rather
than over a predicate: `CodecProofs` derives it from the least element of a set
(`Least`, `NatSet`), and uses it for recursive functions.

## 11. Plan

What is left, in this order:

1. An abstract specification of `CredentialStore`, a register of the newest
   pair, for the executions without a named cause, and the refinement to it.
2. `sort_list` and the walk of `cJSON_Delete` written as loops over the heap, so
   that what TLC shows of short lists and small documents can be proved for all.
3. The text parser and printer of cJSON at the level of characters: escapes,
   unicode pairs, depth and buffer growth.

## 12. Not modelled

* The text parser and printer of cJSON character by character, its hooks and
  its global error pointer; raw texts; failing allocations of strings other than
  names; numbers and their printing.
* The dashboard page and its two GET handlers (constants), logging.
* A START event from outside before `app_main` has recorded a mode.
* `wifi_manager_destroy` (no caller) and the manager's configuration record (no
  reader). A second `event_bus_init` after one that failed half-way.
* The interfaces of `esp_netif`: a failed `esp_wifi_init` leaves them behind.
* Priorities. All interleavings of tasks are allowed, which includes those the
  priorities and the two cores allow.
* Torn reads of the FSM state do not exist: it is one aligned word.
