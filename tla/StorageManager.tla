--------------------------- MODULE StorageManager ---------------------------
(***************************************************************************)
(* The credentials in flash (storage_manager.c).  Every access to a key is *)
(* one sequence under the mutex: take, open, access, commit, close and     *)
(* give.  A save, a load or a clear of the credential pair is two such     *)
(* sequences, first of the SSID and then of the password, with the mutex   *)
(* free in between.                                                        *)
(*                                                                         *)
(* The clients are the tasks that may call at the same time: flash store   *)
(* tasks (one for each STORE event), the flash load task, and the HTTP     *)
(* server task, which loads for GET /api/wifi_cred and saves on its own    *)
(* when the unified queue is full.  A credential pair is one value: the    *)
(* SSID and the password of the pair v both are v.                         *)
(***************************************************************************)
EXTENDS Naturals

CONSTANTS
  Clients,    \* tasks
  Values,     \* credential pairs
  Absent,     \* no entry for the key
  NoClient,   \* the mutex is free
  Faults,     \* the NVS calls that may fail
  MaxOps      \* bound on operations and losses of power

FaultPoints == {"open", "access", "commit"}

ASSUME StorageAssumption ==
  /\ Absent \notin Values
  /\ NoClient \notin Clients
  /\ Faults \subseteq FaultPoints
  /\ MaxOps \in Nat

Keys    == {"ssid", "pass"}
Entries == Values \cup {Absent}
Ops     == {"save", "load", "clear"}
Writers == {"save", "clear"}
Steps   == {"idle", "take", "open", "access", "commit", "give", "next"}
Errors  == {"ok", "missing", "failed"}

VARIABLES
  lock,      \* manager->lock: its holder
  flash,     \* the namespace, as nvs_get_blob sees it
  stable,    \* the namespace, as a loss of power leaves it
  op, val,   \* what each client does, and what it puts (Absent unless it saves)
  key, step, \* where it stands
  err,       \* what the last sequence returned
  got,       \* what a load has read
  ops,       \* operations so far
  torn,      \* history: the keys may belong to different pairs
  alone      \* history: no writer ran at the same time as the client

vars == <<lock, flash, stable, op, val, key, step, err, got, ops, torn, alone>>

nvs     == <<flash, stable>>
request == <<op, val>>
history == <<torn, alone>>

Busy(c)    == step[c] # "idle"
Writing(c) == Busy(c) /\ op[c] \in Writers

MayFail(p) == p \in Faults

At(c, s) == step[c] = s
Goto(c, s) == step' = [step EXCEPT ![c] = s]

\* Some call of the sequence failed: close the handle, give the mutex back.
Error(c, e) ==
  /\ err' = [err EXCEPT ![c] = e]
  /\ Goto(c, "give")

-----------------------------------------------------------------------------
(* storage_manager_read, _write and _delete.                                *)

\* Mutant: the mutex is entered without waiting for it.
TakeAnyway(c) ==
  /\ At(c, "take")
  /\ lock' = c
  /\ Goto(c, "open")
  /\ UNCHANGED <<nvs, request, key, err, got, ops, history>>

Take(c) ==
  /\ At(c, "take") /\ lock = NoClient
  /\ lock' = c
  /\ Goto(c, "open")
  /\ UNCHANGED <<nvs, request, key, err, got, ops, history>>

\* Mutant: a failed open returns without giving the mutex back.
OpenLeavesLock(c) ==
  /\ At(c, "open")
  /\ \/ Goto(c, "access") /\ err' = err
     \/ MayFail("open") /\ Goto(c, "next") /\ err' = [err EXCEPT ![c] = "failed"]
  /\ UNCHANGED <<lock, nvs, request, key, got, ops, history>>

Open(c) ==
  /\ At(c, "open")
  /\ \/ Goto(c, "access") /\ err' = err
     \/ MayFail("open") /\ Error(c, "failed")
  /\ UNCHANGED <<lock, nvs, request, key, got, ops, history>>

\* nvs_set_blob and nvs_erase_key; a deletion finds its key or fails.
Write(c) ==
  /\ At(c, "access") /\ op[c] \in Writers
  /\ \/ /\ op[c] = "clear" => flash[key[c]] # Absent
        /\ flash' = [flash EXCEPT ![key[c]] = val[c]]
        /\ Goto(c, "commit")
        /\ err' = err
     \/ /\ op[c] = "clear" /\ flash[key[c]] = Absent
        /\ Error(c, "missing")
        /\ flash' = flash
     \/ /\ MayFail("access")
        /\ Error(c, "failed")
        /\ flash' = flash
  /\ UNCHANGED <<lock, stable, request, key, got, ops, history>>

\* Mutant: the handle is closed without a commit.
CommitNothing(c) ==
  /\ At(c, "commit")
  /\ Goto(c, "give")
  /\ UNCHANGED <<lock, nvs, request, key, err, got, ops, history>>

\* nvs_commit: what the key holds becomes durable.
Commit(c) ==
  /\ At(c, "commit")
  /\ \/ /\ stable' = [stable EXCEPT ![key[c]] = flash[key[c]]]
        /\ Goto(c, "give")
        /\ err' = err
     \/ /\ MayFail("commit")
        /\ Error(c, "failed")
        /\ stable' = stable
  /\ UNCHANGED <<lock, flash, request, key, got, ops, history>>

\* nvs_get_blob.
Read(c) ==
  /\ At(c, "access") /\ op[c] = "load"
  /\ \/ /\ flash[key[c]] # Absent
        /\ got' = [got EXCEPT ![c] = [@ EXCEPT ![key[c]] = flash[key[c]]]]
        /\ Goto(c, "give")
        /\ err' = err
     \/ /\ flash[key[c]] = Absent
        /\ Error(c, "missing")
        /\ got' = got
     \/ /\ MayFail("access")
        /\ Error(c, "failed")
        /\ got' = got
  /\ UNCHANGED <<lock, nvs, request, key, ops, history>>

Give(c) ==
  /\ At(c, "give")
  /\ lock' = NoClient
  /\ Goto(c, "next")
  /\ UNCHANGED <<nvs, request, key, err, got, ops, history>>

-----------------------------------------------------------------------------
(* storage_manager_save_wifi_creds, _load_wifi_creds, _clear_wifi_creds.    *)

\* A save, a load or a clear begins.  A writer that meets another one may leave
\* the keys of two pairs.
Begin(c) ==
  /\ At(c, "idle") /\ ops < MaxOps
  /\ \E o \in Ops : \E v \in IF o = "save" THEN Values ELSE {Absent} :
       LET met == \E d \in Clients \ {c} : Writing(d)
       IN  /\ op'  = [op EXCEPT ![c] = o]
           /\ val' = [val EXCEPT ![c] = v]
           /\ alone' = [d \in Clients |->
                          IF d = c THEN ~met
                          ELSE alone[d] /\ ~(Busy(d) /\ o \in Writers)]
           /\ torn' = (torn \/ (met /\ o \in Writers))
  /\ key' = [key EXCEPT ![c] = "ssid"]
  /\ err' = [err EXCEPT ![c] = "ok"]
  /\ got' = [got EXCEPT ![c] = [k \in Keys |-> Absent]]
  /\ Goto(c, "take")
  /\ ops' = ops + 1
  /\ UNCHANGED <<lock, nvs>>

\* A missing key stops a load and not a clear.
Stops(c) == err[c] = "failed" \/ (err[c] = "missing" /\ op[c] = "load")

\* Mutant: an SSID that could not be written does not stop the save.
SecondKeyAlways(c) ==
  /\ At(c, "next") /\ key[c] = "ssid"
  /\ key' = [key EXCEPT ![c] = "pass"]
  /\ err' = [err EXCEPT ![c] = "ok"]
  /\ Goto(c, "take")
  /\ UNCHANGED <<lock, nvs, request, got, ops, history>>

SecondKey(c) ==
  /\ At(c, "next") /\ key[c] = "ssid" /\ ~Stops(c)
  /\ key' = [key EXCEPT ![c] = "pass"]
  /\ err' = [err EXCEPT ![c] = "ok"]
  /\ Goto(c, "take")
  /\ UNCHANGED <<lock, nvs, request, got, ops, history>>

\* The operation returns.  A writer that was alone and succeeded leaves a whole
\* pair; one that failed may leave half of one.
Finish(c) ==
  /\ At(c, "next") /\ (Stops(c) \/ key[c] = "pass")
  /\ Goto(c, "idle")
  /\ torn' = IF op[c] = "load" THEN torn
             ELSE IF Stops(c) THEN TRUE
             ELSE torn /\ ~alone[c]
  /\ UNCHANGED <<lock, nvs, request, key, err, got, ops, alone>>

\* A loss of power, or POST /api/reboot: the tasks are gone; what was written
\* and not committed may be there or not.
PowerLoss ==
  /\ ops < MaxOps /\ ops' = ops + 1
  /\ flash' \in [Keys -> Entries]
  /\ \A k \in Keys : flash'[k] \in {flash[k], stable[k]}
  /\ stable' = flash'
  /\ lock' = NoClient
  /\ op' = [c \in Clients |-> "clear"] /\ val' = [c \in Clients |-> Absent]
  /\ key' = [c \in Clients |-> "ssid"] /\ step' = [c \in Clients |-> "idle"]
  /\ err' = [c \in Clients |-> "ok"]
  /\ got' = [c \in Clients |-> [k \in Keys |-> Absent]]
  /\ alone' = [c \in Clients |-> TRUE]
  /\ torn' = (torn \/ \E c \in Clients : Writing(c))

-----------------------------------------------------------------------------
\* A device that has never stored credentials.
Init ==
  /\ lock = NoClient
  /\ flash = [k \in Keys |-> Absent] /\ stable = flash
  /\ op = [c \in Clients |-> "clear"] /\ val = [c \in Clients |-> Absent]
  /\ key = [c \in Clients |-> "ssid"] /\ step = [c \in Clients |-> "idle"]
  /\ err = [c \in Clients |-> "ok"]
  /\ got = [c \in Clients |-> [k \in Keys |-> Absent]]
  /\ alone = [c \in Clients |-> TRUE]
  /\ ops = 0 /\ torn = FALSE

Sequence(c) ==
  Take(c) \/ Open(c) \/ Write(c) \/ Commit(c) \/ Read(c) \/ Give(c)

Client(c) == Sequence(c) \/ SecondKey(c) \/ Finish(c)

Rest == (\A c \in Clients : ~Busy(c)) /\ ops = MaxOps /\ UNCHANGED vars

Next == (\E c \in Clients : Begin(c) \/ Client(c)) \/ PowerLoss \/ Rest

Spec     == Init /\ [][Next]_vars
FairSpec == Spec /\ \A c \in Clients : WF_vars(Client(c))

-----------------------------------------------------------------------------
TypeOK ==
  /\ lock \in Clients \cup {NoClient}
  /\ flash \in [Keys -> Entries] /\ stable \in [Keys -> Entries]
  /\ op \in [Clients -> Ops] /\ val \in [Clients -> Entries]
  /\ key \in [Clients -> Keys] /\ step \in [Clients -> Steps]
  /\ err \in [Clients -> Errors]
  /\ got \in [Clients -> [Keys -> Entries]]
  /\ ops \in 0..MaxOps
  /\ torn \in BOOLEAN /\ alone \in [Clients -> BOOLEAN]

\* storage_manager.h: the open, access, commit sequences "are protected by an
\* internal mutex".  A client is inside a sequence exactly while it holds it.
Serialized ==
  \A c \in Clients : lock = c <=> step[c] \in {"open", "access", "commit", "give"}

Whole(pair) == pair["ssid"] = pair["pass"]

\* The keys belong to one pair when no writer runs and the last ones neither
\* overlapped, nor failed, nor lost power midway; and then a loss of power
\* changes nothing.
WholeAtRest ==
  ~torn /\ (\A c \in Clients : ~Writing(c)) => Whole(flash) /\ flash = stable

\* What a load reads of a key has been committed: no later loss of power takes
\* it back (as long as nvs_commit does not fail).
LoadsAreStable ==
  \A c \in Clients :
    At(c, "give") /\ op[c] = "load" /\ err[c] = "ok" => got[c][key[c]] = stable[key[c]]

\* The client's call as KeyStore sees it: from the request for the mutex until
\* the mutex is given back.
NoCall == [state |-> "free", kind |-> "put", key |-> "none", val |-> Absent]

CallState(c) ==
  CASE step[c] \in {"take", "open", "access"} -> "pending"
    [] step[c] = "commit" -> "applied"
    [] step[c] = "give"   -> IF err[c] = "ok" THEN "settled" ELSE "failed"

Call(c) ==
  IF step[c] \in {"idle", "next"} THEN NoCall
  ELSE [state |-> CallState(c),
        kind  |-> IF op[c] = "load" THEN "read" ELSE "put",
        key   |-> key[c],
        val   |-> IF op[c] = "load" THEN got[c][key[c]] ELSE val[c]]

Store == INSTANCE KeyStore
  WITH store <- flash, kept <- stable, call <- [c \in Clients |-> Call(c)]

\* Each call of storage_manager_read, _write and _delete takes effect at one
\* instant, and once it has returned without error it is durable.
Implements == Store!Spec

\* Whatever fails, no client waits for the mutex forever.
OperationsEnd == \A c \in Clients : Busy(c) ~> ~Busy(c)

\* main.c: all NVS operations are serialized "so concurrent flash tasks never
\* race on the flash resource".  A load that succeeds returns a pair that was
\* saved as one.
LoadsAreWhole ==
  \A c \in Clients :
    op[c] = "load" /\ ~Busy(c) /\ err[c] = "ok" => Whole(got[c])
=============================================================================
