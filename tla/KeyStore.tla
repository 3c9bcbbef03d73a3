------------------------------ MODULE KeyStore ------------------------------
(***************************************************************************)
(* What storage_manager_read, _write and _delete promise to the tasks that *)
(* call them at the same time: each call takes effect at one instant       *)
(* between its start and its return, and a write or a deletion that        *)
(* returned without error outlives a loss of power.  A call that failed    *)
(* may have taken effect or not.                                           *)
(***************************************************************************)
CONSTANTS Clients, Keys, Values, Absent   \* Absent is no value

Entries == Values \cup {Absent}

VARIABLES
  store,   \* what a read finds
  kept,    \* what a loss of power cannot take away
  call     \* the call of each client

vars == <<store, kept, call>>

\* No call, or a call of the kind "read" or "put"; a deletion puts Absent.
\* val is what is put, or what was read.
Free  == [state |-> "free", kind |-> "put", key |-> "none", val |-> Absent]
Pending(kind, k, v) == [state |-> "pending", kind |-> kind, key |-> k, val |-> v]

Becomes(c, s) == call' = [call EXCEPT ![c].state = s]

Invoke(c) ==
  /\ call[c] = Free
  /\ \E k \in Keys :
       \/ call' = [call EXCEPT ![c] = Pending("read", k, Absent)]
       \/ \E v \in Entries : call' = [call EXCEPT ![c] = Pending("put", k, v)]
  /\ UNCHANGED <<store, kept>>

Read(c) ==
  /\ call[c].state = "pending" /\ call[c].kind = "read"
  /\ store[call[c].key] # Absent
  /\ call' = [call EXCEPT ![c].state = "settled", ![c].val = store[call[c].key]]
  /\ UNCHANGED <<store, kept>>

Put(c) ==
  /\ call[c].state = "pending" /\ call[c].kind = "put"
  /\ store' = [store EXCEPT ![call[c].key] = call[c].val]
  /\ Becomes(c, "applied")
  /\ UNCHANGED kept

\* What becomes durable is what this call put.
Settle(c) ==
  /\ call[c].state = "applied"
  /\ store[call[c].key] = call[c].val
  /\ kept' = [kept EXCEPT ![call[c].key] = call[c].val]
  /\ Becomes(c, "settled")
  /\ UNCHANGED store

Fail(c) ==
  /\ call[c].state \in {"pending", "applied"}
  /\ Becomes(c, "failed")
  /\ UNCHANGED <<store, kept>>

Return(c) ==
  /\ call[c].state \in {"settled", "failed"}
  /\ call' = [call EXCEPT ![c] = Free]
  /\ UNCHANGED <<store, kept>>

\* Every call is gone; what was not durable may be there or not.
PowerLoss ==
  /\ store' \in [Keys -> Entries]
  /\ \A k \in Keys : store'[k] \in {store[k], kept[k]}
  /\ kept' = store'
  /\ call' = [c \in Clients |-> Free]

Init ==
  /\ store \in [Keys -> Entries] /\ kept = store
  /\ call = [c \in Clients |-> Free]

Next ==
  \/ \E c \in Clients :
       Invoke(c) \/ Read(c) \/ Put(c) \/ Settle(c) \/ Fail(c) \/ Return(c)
  \/ PowerLoss

Spec == Init /\ [][Next]_vars
=============================================================================
