------------------------ MODULE StorageManagerProofs ------------------------
(***************************************************************************)
(* What the storage manager guarantees for every set of clients and of     *)
(* credential pairs, and whatever fails: its sequences exclude each other, *)
(* and its accesses implement KeyStore.  As long as nvs_commit succeeds, a *)
(* load reads what a loss of power cannot take back.                       *)
(***************************************************************************)
EXTENDS StorageManager, TLAPS

\* What the accesses rely on about the client that makes them.
Progress ==
  \A c \in Clients :
    /\ step[c] \in {"take", "open", "access", "commit"} => err[c] = "ok"
    /\ step[c] = "commit" => op[c] \in Writers /\ flash[key[c]] = val[c]
    /\ step[c] \in {"take", "open", "access"} => got[c][key[c]] = Absent
    /\ op[c] # "save" => val[c] = Absent
    /\ key[c] = "ssid" /\ step[c] # "idle" => got[c]["pass"] = Absent

Inv == TypeOK /\ Serialized /\ Progress

\* What is not durable yet belongs to the holder of the mutex, and what a load
\* has read of a key is what the key holds until the mutex is given back.
Durable ==
  /\ \A k \in Keys :
       flash[k] = stable[k] \/ \E c \in Clients : lock = c /\ step[c] = "commit" /\ key[c] = k
  /\ \A c \in Clients :
       step[c] = "give" /\ op[c] = "load" /\ err[c] = "ok" => got[c][key[c]] = flash[key[c]]

\* Initially nobody has called anything.
LEMMA InvInit == Init => Inv
<1> SUFFICES ASSUME Init PROVE Inv
  OBVIOUS
<1>1. TypeOK
  <2>1. flash \in [Keys -> Entries] /\ stable \in [Keys -> Entries]
    BY DEF Init, Entries
  <2>2. [k \in Keys |-> Absent] \in [Keys -> Entries]
    BY DEF Entries
  <2>3. got \in [Clients -> [Keys -> Entries]] /\ val \in [Clients -> Entries]
    BY <2>2 DEF Init, Entries
  <2>4. /\ lock \in Clients \cup {NoClient} /\ ops \in 0..MaxOps
        /\ torn \in BOOLEAN /\ alone \in [Clients -> BOOLEAN]
    <3>1. lock \in Clients \cup {NoClient} /\ ops \in 0..MaxOps
      BY StorageAssumption DEF Init
    <3>2. torn \in BOOLEAN /\ alone \in [Clients -> BOOLEAN]
      BY DEF Init
    <3> QED BY <3>1, <3>2
  <2>5. /\ op \in [Clients -> Ops] /\ key \in [Clients -> Keys]
        /\ step \in [Clients -> Steps] /\ err \in [Clients -> Errors]
    BY DEF Init, Ops, Keys, Steps, Errors
  <2> QED BY <2>1, <2>3, <2>4, <2>5 DEF TypeOK
<1>2. Serialized
  BY StorageAssumption DEF Init, Serialized
<1>3. Progress
  BY DEF Init, Progress, Keys
<1> QED BY <1>1, <1>2, <1>3 DEF Inv

\* Every step keeps the types, the mutual exclusion and what the accesses
\* rely on.
LEMMA InvStep == Inv /\ [Next]_vars => Inv'
<1> SUFFICES ASSUME Inv, [Next]_vars PROVE Inv'
  OBVIOUS
<1> USE StorageAssumption DEF Inv, nvs, request, history, Goto, At, Error
<1>1. ASSUME NEW c \in Clients, Begin(c) PROVE Inv'
  <2>1. TypeOK'
    <3>1. [k \in Keys |-> Absent] \in [Keys -> Entries]
      BY DEF Entries
    <3>2. got' \in [Clients -> [Keys -> Entries]]
      BY <1>1, <3>1 DEF Begin, TypeOK
    <3>3. op' \in [Clients -> Ops] /\ val' \in [Clients -> Entries]
      BY <1>1 DEF Begin, TypeOK, Entries
    <3>4. alone' \in [Clients -> BOOLEAN] /\ torn' \in BOOLEAN
      BY <1>1 DEF Begin, TypeOK, Busy, Writing
    <3>5. ops' \in 0..MaxOps
      BY <1>1 DEF Begin, TypeOK
    <3> QED BY <1>1, <3>2, <3>3, <3>4, <3>5 DEF Begin, TypeOK, Keys, Steps, Errors
  <2>2. Serialized'
    BY <1>1 DEF Begin, TypeOK, Serialized
  <2>3. Progress'
    BY <1>1 DEF Begin, TypeOK, Serialized, Progress, Keys, Writers
  <2> QED BY <2>1, <2>2, <2>3
<1>2. ASSUME NEW c \in Clients, Take(c) PROVE Inv'
  <2>1. TypeOK'
    BY <1>2 DEF Take, TypeOK, Steps
  <2>2. Serialized'
    BY <1>2 DEF Take, TypeOK, Serialized
  <2>3. Progress'
    BY <1>2 DEF Take, TypeOK, Serialized, Progress, Keys, Writers
  <2> QED BY <2>1, <2>2, <2>3
<1>3. ASSUME NEW c \in Clients, Open(c) PROVE Inv'
  <2>1. TypeOK'
    BY <1>3 DEF Open, TypeOK, Steps, Errors
  <2>2. Serialized'
    BY <1>3 DEF Open, TypeOK, Serialized
  <2>3. Progress'
    BY <1>3 DEF Open, TypeOK, Serialized, Progress, Keys, Writers
  <2> QED BY <2>1, <2>2, <2>3
<1>4. ASSUME NEW c \in Clients, Write(c) PROVE Inv'
  <2>1. TypeOK'
    BY <1>4 DEF Write, TypeOK, Steps, Errors, Entries, Keys, Ops
  <2>2. Serialized'
    BY <1>4 DEF Write, TypeOK, Serialized
  <2>3. Progress'
    BY <1>4 DEF Write, TypeOK, Serialized, Progress, Keys, Writers
  <2> QED BY <2>1, <2>2, <2>3
<1>5. ASSUME NEW c \in Clients, Commit(c) PROVE Inv'
  <2>1. TypeOK'
    <3>1. flash[key[c]] \in Entries
      BY DEF TypeOK
    <3>2. stable' \in [Keys -> Entries]
      BY <1>5, <3>1 DEF Commit, TypeOK
    <3>3. step' \in [Clients -> Steps] /\ err' \in [Clients -> Errors]
      BY <1>5 DEF Commit, TypeOK, Steps, Errors
    <3> QED BY <1>5, <3>2, <3>3 DEF Commit, TypeOK
  <2>2. Serialized'
    BY <1>5 DEF Commit, TypeOK, Serialized
  <2>3. Progress'
    BY <1>5 DEF Commit, TypeOK, Serialized, Progress, Keys, Writers
  <2> QED BY <2>1, <2>2, <2>3
<1>6. ASSUME NEW c \in Clients, Read(c) PROVE Inv'
  <2>1. TypeOK'
    <3>1. flash[key[c]] \in Entries /\ got[c] \in [Keys -> Entries]
      BY DEF TypeOK
    <3>2. [got[c] EXCEPT ![key[c]] = flash[key[c]]] \in [Keys -> Entries]
      BY <3>1
    <3>3. got' \in [Clients -> [Keys -> Entries]]
      BY <1>6, <3>2 DEF Read, TypeOK
    <3>4. step' \in [Clients -> Steps] /\ err' \in [Clients -> Errors]
      BY <1>6 DEF Read, TypeOK, Steps, Errors
    <3> QED BY <1>6, <3>3, <3>4 DEF Read, TypeOK
  <2>2. Serialized'
    BY <1>6 DEF Read, TypeOK, Serialized
  <2>3. Progress'
    BY <1>6 DEF Read, TypeOK, Serialized, Progress, Keys, Writers
  <2> QED BY <2>1, <2>2, <2>3
<1>7. ASSUME NEW c \in Clients, Give(c) PROVE Inv'
  <2>1. TypeOK'
    BY <1>7 DEF Give, TypeOK, Steps
  <2>2. Serialized'
    BY <1>7 DEF Give, TypeOK, Serialized
  <2>3. Progress'
    BY <1>7 DEF Give, TypeOK, Serialized, Progress, Keys, Writers
  <2> QED BY <2>1, <2>2, <2>3
<1>8. ASSUME NEW c \in Clients, SecondKey(c) PROVE Inv'
  <2>1. TypeOK'
    BY <1>8 DEF SecondKey, TypeOK, Steps, Errors, Keys
  <2>2. Serialized'
    BY <1>8 DEF SecondKey, TypeOK, Serialized
  <2>3. Progress'
    BY <1>8 DEF SecondKey, TypeOK, Serialized, Progress, Keys, Writers
  <2> QED BY <2>1, <2>2, <2>3
<1>9. ASSUME NEW c \in Clients, Finish(c) PROVE Inv'
  <2>1. TypeOK'
    BY <1>9 DEF Finish, TypeOK, Steps
  <2>2. Serialized'
    BY <1>9 DEF Finish, TypeOK, Serialized
  <2>3. Progress'
    BY <1>9 DEF Finish, TypeOK, Serialized, Progress, Keys, Writers
  <2> QED BY <2>1, <2>2, <2>3
<1>10. ASSUME PowerLoss PROVE Inv'
  <2>1. TypeOK'
    BY <1>10 DEF PowerLoss, TypeOK, Keys, Entries, Ops, Steps, Errors
  <2>2. Serialized'
    BY <1>10 DEF PowerLoss, Serialized
  <2>3. Progress'
    BY <1>10 DEF PowerLoss, Progress, Keys
  <2> QED BY <2>1, <2>2, <2>3
<1>11. CASE UNCHANGED vars
  BY <1>11 DEF vars, TypeOK, Serialized, Progress
<1> QED
  BY <1>1, <1>2, <1>3, <1>4, <1>5, <1>6, <1>7, <1>8, <1>9, <1>10, <1>11
  DEF Next, Client, Sequence, Rest

\* The invariant holds in every state.
LEMMA Invariance == Spec => []Inv
BY InvInit, InvStep, PTL DEF Spec

-----------------------------------------------------------------------------
\* Every variable keeps its type.
THEOREM TypeCorrect == Spec => []TypeOK
<1>1. Inv => TypeOK
  BY DEF Inv
<1> QED BY <1>1, Invariance, PTL

\* The open, access and commit steps of two tasks never overlap, on the error
\* paths and over a loss of power too.
THEOREM MutualExclusion == Spec => []Serialized
<1>1. Inv => Serialized
  BY DEF Inv
<1> QED BY <1>1, Invariance, PTL

-----------------------------------------------------------------------------
(* The accesses implement KeyStore.                                         *)

calls == [c \in Clients |-> Call(c)]

\* A step of one client changes that client's call only.
LEMMA OneCall ==
  ASSUME NEW c \in Clients,
         \A d \in Clients \ {c} : Call(d)' = Call(d)
  PROVE  calls' = [calls EXCEPT ![c] = Call(c)']
BY DEF calls

\* The call of a client depends on what the client itself stands for only.
LEMMA SameCall ==
  ASSUME NEW d,
         step'[d] = step[d], err'[d] = err[d], op'[d] = op[d],
         key'[d] = key[d], val'[d] = val[d], got'[d] = got[d]
  PROVE  Call(d)' = Call(d)
BY DEF Call, CallState, NoCall

\* A client's call that is on its way has these four fields.
LEMMA CallFields ==
  ASSUME NEW c \in Clients, step[c] \notin {"idle", "next"}
  PROVE  /\ calls[c] = Call(c)
         /\ Call(c).state = CallState(c)
         /\ Call(c).kind = IF op[c] = "load" THEN "read" ELSE "put"
         /\ Call(c).key = key[c]
         /\ Call(c).val = IF op[c] = "load" THEN got[c][key[c]] ELSE val[c]
BY DEF calls, Call

\* The initial state is one of KeyStore's.
LEMMA RefineInit == Init => Store!Init
<1> SUFFICES ASSUME Init PROVE Store!Init
  OBVIOUS
<1>1. flash \in [Keys -> Store!Entries] /\ stable = flash
  BY DEF Init, Store!Entries
<1>2. \A c \in Clients : Call(c) = Store!Free
  BY DEF Init, Call, NoCall, Store!Free
<1> QED BY <1>1, <1>2 DEF Store!Init

\* A client that moves on leaves the calls of the others alone.
LEMMA OthersStay ==
  ASSUME TypeOK, NEW c \in Clients,
         \E x : step' = [step EXCEPT ![c] = x],
         err' = err \/ \E x : err' = [err EXCEPT ![c] = x],
         op' = op, val' = val, key' = key,
         got' = got \/ \E x : got' = [got EXCEPT ![c] = x]
  PROVE  \A d \in Clients \ {c} : Call(d)' = Call(d)
<1> TAKE d \in Clients \ {c}
<1>1. step'[d] = step[d] /\ err'[d] = err[d] /\ got'[d] = got[d]
  BY DEF TypeOK
<1> QED BY <1>1, SameCall

\* Every step is a step of KeyStore or leaves its variables alone.
LEMMA RefineStep == Inv /\ [Next]_vars => [Store!Next]_(Store!vars)
<1> SUFFICES ASSUME Inv, [Next]_vars PROVE [Store!Next]_(Store!vars)
  OBVIOUS
<1> USE DEF Inv, nvs, request, history, Goto, At, Error
<1>1. ASSUME NEW c \in Clients, Begin(c) PROVE Store!Invoke(c)
  <2>1. PICK o \in Ops, v \in Entries :
          /\ op' = [op EXCEPT ![c] = o] /\ val' = [val EXCEPT ![c] = v]
          /\ o = "load" => v = Absent
    BY <1>1 DEF Begin, Entries
  <2>2. Call(c) = Store!Free
    BY <1>1 DEF Begin, Call, NoCall, Store!Free
  <2>3. Call(c)' = Store!Pending(IF o = "load" THEN "read" ELSE "put", "ssid", v)
    <3>1. /\ step'[c] = "take" /\ key'[c] = "ssid" /\ got'[c]["ssid"] = Absent
          /\ op'[c] = o /\ val'[c] = v
      BY <1>1, <2>1 DEF Begin, TypeOK, Keys
    <3> QED BY <2>1, <3>1 DEF Call, CallState, Store!Pending
  <2>4. \A d \in Clients \ {c} : Call(d)' = Call(d)
    <3> TAKE d \in Clients \ {c}
    <3>1. /\ step'[d] = step[d] /\ err'[d] = err[d] /\ op'[d] = op[d]
          /\ key'[d] = key[d] /\ val'[d] = val[d] /\ got'[d] = got[d]
      BY <1>1, <2>1 DEF Begin, TypeOK
    <3> QED BY <3>1, SameCall
  <2>5. calls' = [calls EXCEPT ![c] = Call(c)']
    BY <2>4, OneCall
  <2>6. v \in Store!Entries /\ "ssid" \in Keys
    BY DEF Store!Entries, Entries, Keys
  <2>7. calls[c] = Store!Free /\ UNCHANGED <<flash, stable>>
    BY <1>1, <2>2 DEF calls, Begin
  <2>8. CASE o = "load"
    <3>1. calls' = [calls EXCEPT ![c] = Store!Pending("read", "ssid", Absent)]
      BY <2>1, <2>3, <2>5, <2>8
    <3> QED BY <2>6, <2>7, <3>1 DEF Store!Invoke, calls
  <2>9. CASE o # "load"
    <3>1. calls' = [calls EXCEPT ![c] = Store!Pending("put", "ssid", v)]
      BY <2>3, <2>5, <2>9
    <3> QED BY <2>6, <2>7, <3>1 DEF Store!Invoke, calls
  <2> QED BY <2>8, <2>9
<1>2. ASSUME NEW c \in Clients, Take(c) PROVE UNCHANGED Store!vars
  <2>1. \A d \in Clients \ {c} : Call(d)' = Call(d)
    BY <1>2, OthersStay DEF Take
  <2>2. Call(c)' = Call(c)
    BY <1>2 DEF Take, TypeOK, Call, CallState
  <2>3. UNCHANGED <<flash, stable, calls>>
    BY <1>2, <2>1, <2>2 DEF Take, calls
  <2> QED BY <2>3 DEF Store!vars, calls
<1>3. ASSUME NEW c \in Clients, step[c] \in {"open", "access", "commit"},
             Error(c, "failed") \/ Error(c, "missing"),
             UNCHANGED <<nvs, op, val, key, got>>
      PROVE  Store!Fail(c)
  <2>1. \A d \in Clients \ {c} : Call(d)' = Call(d)
    BY <1>3, OthersStay
  <2>2. calls' = [calls EXCEPT ![c] = Call(c)']
    BY <2>1, OneCall
  <2>3. Call(c)' = [Call(c) EXCEPT !.state = "failed"]
    <3>1. step'[c] = "give" /\ err'[c] # "ok"
      BY <1>3 DEF TypeOK
    <3> QED BY <1>3, <3>1 DEF Call, CallState
  <2>4. calls[c] = Call(c) /\ Call(c).state \in {"pending", "applied"}
    BY <1>3, CallFields DEF CallState
  <2>5. calls' = [calls EXCEPT ![c].state = "failed"]
    BY <2>2, <2>3, <2>4
  <2> QED BY <1>3, <2>4, <2>5 DEF Store!Fail, Store!Becomes, calls
<1>4. ASSUME NEW c \in Clients, Open(c) PROVE Store!Fail(c) \/ UNCHANGED Store!vars
  <2>1. CASE Goto(c, "access") /\ err' = err
    <3>1. \A d \in Clients \ {c} : Call(d)' = Call(d)
      BY <1>4, <2>1, OthersStay DEF Open
    <3>2. Call(c)' = Call(c)
      BY <1>4, <2>1 DEF Open, TypeOK, Call, CallState
    <3>3. UNCHANGED <<flash, stable, calls>>
      BY <1>4, <3>1, <3>2 DEF Open, calls
    <3> QED BY <3>3 DEF Store!vars, calls
  <2>2. CASE Error(c, "failed")
    BY <1>3, <1>4, <2>2 DEF Open
  <2> QED BY <1>4, <2>1, <2>2 DEF Open
<1>5. ASSUME NEW c \in Clients, Write(c) PROVE Store!Put(c) \/ Store!Fail(c)
  <2>1. CASE flash' = [flash EXCEPT ![key[c]] = val[c]] /\ Goto(c, "commit") /\ err' = err
    <3>1. \A d \in Clients \ {c} : Call(d)' = Call(d)
      BY <1>5, <2>1, OthersStay DEF Write
    <3>2. calls' = [calls EXCEPT ![c] = Call(c)']
      BY <3>1, OneCall
    <3>3. Call(c)' = [Call(c) EXCEPT !.state = "applied"]
      BY <1>5, <2>1 DEF Write, TypeOK, Call, CallState
    <3>4. /\ calls[c] = Call(c) /\ Call(c).state = "pending" /\ Call(c).kind = "put"
          /\ Call(c).key = key[c] /\ Call(c).val = val[c]
      BY <1>5, CallFields DEF Write, CallState, Writers
    <3>5. calls' = [calls EXCEPT ![c].state = "applied"]
      BY <3>2, <3>3, <3>4
    <3> QED BY <1>5, <2>1, <3>4, <3>5 DEF Write, Store!Put, Store!Becomes, calls
  <2>2. CASE (Error(c, "failed") \/ Error(c, "missing")) /\ flash' = flash
    BY <1>3, <1>5, <2>2 DEF Write
  <2> QED BY <1>5, <2>1, <2>2 DEF Write
<1>6. ASSUME NEW c \in Clients, Commit(c) PROVE Store!Settle(c) \/ Store!Fail(c)
  <2>1. CASE stable' = [stable EXCEPT ![key[c]] = flash[key[c]]] /\ Goto(c, "give") /\ err' = err
    <3>1. \A d \in Clients \ {c} : Call(d)' = Call(d)
      BY <1>6, <2>1, OthersStay DEF Commit
    <3>2. calls' = [calls EXCEPT ![c] = Call(c)']
      BY <3>1, OneCall
    <3>3. err[c] = "ok" /\ op[c] \in Writers /\ flash[key[c]] = val[c]
      BY <1>6 DEF Commit, Progress
    <3>4. Call(c)' = [Call(c) EXCEPT !.state = "settled"]
      BY <1>6, <2>1, <3>3 DEF Commit, TypeOK, Call, CallState
    <3>5. /\ calls[c] = Call(c) /\ Call(c).state = "applied"
          /\ Call(c).key = key[c] /\ Call(c).val = val[c]
      BY <1>6, <3>3, CallFields DEF Commit, CallState, Writers
    <3>6. calls' = [calls EXCEPT ![c].state = "settled"]
      BY <3>2, <3>4, <3>5
    <3> QED BY <1>6, <2>1, <3>3, <3>5, <3>6 DEF Commit, Store!Settle, Store!Becomes, calls
  <2>2. CASE Error(c, "failed") /\ stable' = stable
    BY <1>3, <1>6, <2>2 DEF Commit
  <2> QED BY <1>6, <2>1, <2>2 DEF Commit
<1>7. ASSUME NEW c \in Clients, Read(c) PROVE Store!Read(c) \/ Store!Fail(c)
  <2>1. CASE /\ flash[key[c]] # Absent /\ Goto(c, "give") /\ err' = err
             /\ got' = [got EXCEPT ![c] = [@ EXCEPT ![key[c]] = flash[key[c]]]]
    <3>1. \A d \in Clients \ {c} : Call(d)' = Call(d)
      BY <1>7, <2>1, OthersStay DEF Read
    <3>2. calls' = [calls EXCEPT ![c] = Call(c)']
      BY <3>1, OneCall
    <3>3. err[c] = "ok" /\ key[c] \in Keys
      BY <1>7 DEF Read, Progress, TypeOK
    <3>4. got'[c][key[c]] = flash[key[c]] /\ step'[c] = "give"
      BY <1>7, <2>1, <3>3 DEF TypeOK
    <3>5. Call(c)' = [Call(c) EXCEPT !.state = "settled", !.val = flash[key[c]]]
      <4>1. step[c] = "access" /\ op[c] = "load" /\ UNCHANGED <<op, key, err>>
        BY <1>7, <2>1 DEF Read
      <4>2. Call(c)' = [state |-> "settled", kind |-> "read", key |-> key[c],
                        val |-> flash[key[c]]]
        BY <3>3, <3>4, <4>1 DEF Call, CallState
      <4>3. Call(c) = [state |-> "pending", kind |-> "read", key |-> key[c],
                       val |-> got[c][key[c]]]
        <5>1. CallState(c) = "pending"
          BY <4>1 DEF CallState
        <5> QED BY <4>1, <5>1 DEF Call
      <4>4. [Call(c) EXCEPT !.state = "settled"]
              = [state |-> "settled", kind |-> "read", key |-> key[c],
                 val |-> got[c][key[c]]]
        BY <4>3
      <4>5. [[Call(c) EXCEPT !.state = "settled"] EXCEPT !.val = flash[key[c]]]
              = [state |-> "settled", kind |-> "read", key |-> key[c],
                 val |-> flash[key[c]]]
        <5> DEFINE r == [Call(c) EXCEPT !.state = "settled"]
                   w == flash[key[c]]
        <5>1. r = [state |-> "settled", kind |-> "read", key |-> key[c],
                   val |-> got[c][key[c]]]
          BY <4>4
        <5> HIDE DEF r, w
        <5>2. [r EXCEPT !.val = w] = [state |-> "settled", kind |-> "read",
                                      key |-> key[c], val |-> w]
          BY <5>1
        <5> QED BY <5>2 DEF r, w
      <4> QED BY <4>2, <4>5
    <3>6. /\ calls[c] = Call(c) /\ Call(c).state = "pending"
          /\ Call(c).kind = "read" /\ Call(c).key = key[c]
      BY <1>7, CallFields DEF Read, CallState
    <3>7. calls' = [calls EXCEPT ![c].state = "settled", ![c].val = flash[key[c]]]
      BY <3>2, <3>5, <3>6 DEF calls
    <3> QED BY <1>7, <2>1, <3>6, <3>7 DEF Read, Store!Read, calls
  <2>2. CASE (Error(c, "failed") \/ Error(c, "missing")) /\ got' = got
    BY <1>3, <1>7, <2>2 DEF Read
  <2> QED BY <1>7, <2>1, <2>2 DEF Read
<1>8. ASSUME NEW c \in Clients, Give(c) PROVE Store!Return(c)
  <2>1. \A d \in Clients \ {c} : Call(d)' = Call(d)
    BY <1>8, OthersStay DEF Give
  <2>2. calls' = [calls EXCEPT ![c] = Call(c)']
    BY <2>1, OneCall
  <2>3. Call(c)' = Store!Free
    BY <1>8 DEF Give, TypeOK, Call, NoCall, Store!Free
  <2>4. calls[c].state \in {"settled", "failed"}
    BY <1>8, CallFields DEF Give, CallState
  <2> QED BY <1>8, <2>2, <2>3, <2>4 DEF Give, Store!Return, calls
<1>9. ASSUME NEW c \in Clients, SecondKey(c) PROVE Store!Invoke(c)
  <2>1. \A d \in Clients \ {c} : Call(d)' = Call(d)
    <3> TAKE d \in Clients \ {c}
    <3>1. /\ step'[d] = step[d] /\ err'[d] = err[d] /\ key'[d] = key[d]
          /\ op'[d] = op[d] /\ val'[d] = val[d] /\ got'[d] = got[d]
      BY <1>9 DEF SecondKey, TypeOK
    <3> QED BY <3>1, SameCall
  <2>2. calls' = [calls EXCEPT ![c] = Call(c)']
    BY <2>1, OneCall
  <2>3. calls[c] = Store!Free
    BY <1>9 DEF SecondKey, calls, Call, NoCall, Store!Free
  <2>4. /\ step'[c] = "take" /\ key'[c] = "pass" /\ got'[c]["pass"] = Absent
        /\ op'[c] = op[c] /\ val'[c] = val[c]
    BY <1>9 DEF SecondKey, TypeOK, Progress
  <2>5. /\ val[c] \in Store!Entries /\ "pass" \in Keys
        /\ UNCHANGED <<flash, stable>>
    BY <1>9 DEF SecondKey, TypeOK, Store!Entries, Entries, Keys
  <2>6. CASE op[c] = "load"
    <3>1. Call(c)' = Store!Pending("read", "pass", Absent)
      BY <2>4, <2>6 DEF Call, CallState, Store!Pending
    <3> QED BY <2>2, <2>3, <2>5, <3>1 DEF Store!Invoke, calls
  <2>7. CASE op[c] # "load"
    <3>1. Call(c)' = Store!Pending("put", "pass", val[c])
      BY <2>4, <2>7 DEF Call, CallState, Store!Pending
    <3> QED BY <2>2, <2>3, <2>5, <3>1 DEF Store!Invoke, calls
  <2> QED BY <2>6, <2>7
<1>10. ASSUME NEW c \in Clients, Finish(c) PROVE UNCHANGED Store!vars
  <2>1. \A d \in Clients \ {c} : Call(d)' = Call(d)
    BY <1>10, OthersStay DEF Finish
  <2>2. Call(c)' = Call(c)
    BY <1>10 DEF Finish, TypeOK, Call
  <2>3. UNCHANGED <<flash, stable, calls>>
    BY <1>10, <2>1, <2>2 DEF Finish, calls
  <2> QED BY <2>3 DEF Store!vars, calls
<1>11. ASSUME PowerLoss PROVE Store!PowerLoss
  <2>1. Entries = Store!Entries
    BY DEF Entries, Store!Entries
  <2>2. \A c \in Clients : Call(c)' = Store!Free
    BY <1>11 DEF PowerLoss, Call, NoCall, Store!Free
  <2> QED BY <1>11, <2>1, <2>2 DEF PowerLoss, Store!PowerLoss
<1>12. ASSUME UNCHANGED vars PROVE UNCHANGED Store!vars
  BY <1>12 DEF vars, Store!vars, Call, CallState, NoCall
<1>13. CASE \E c \in Clients : Begin(c) \/ Client(c)
  <2>1. PICK c \in Clients : Begin(c) \/ Client(c)
    BY <1>13
  <2>2. \/ UNCHANGED Store!vars
        \/ Store!Invoke(c) \/ Store!Read(c) \/ Store!Put(c)
        \/ Store!Settle(c) \/ Store!Fail(c) \/ Store!Return(c)
    BY <2>1, <1>1, <1>2, <1>4, <1>5, <1>6, <1>7, <1>8, <1>9, <1>10
    DEF Client, Sequence
  <2> QED BY <2>2 DEF Store!Next
<1>14. CASE PowerLoss
  BY <1>11, <1>14 DEF Store!Next
<1> QED
  BY <1>12, <1>13, <1>14 DEF Next, Rest

\* Each access takes effect at one instant, and once it has returned without
\* error no loss of power takes it back.
THEOREM Refinement == Spec => Implements
<1>1. Spec => Store!Init
  BY RefineInit DEF Spec
<1> QED
  BY RefineInit, RefineStep, Invariance, PTL DEF Spec, Implements, Store!Spec

-----------------------------------------------------------------------------
(* As long as nvs_commit succeeds.                                          *)

\* Every step keeps Durable.
LEMMA DurableStep ==
  ASSUME "commit" \notin Faults
  PROVE  Inv /\ Durable /\ [Next]_vars => Durable'
<1> SUFFICES ASSUME Inv, Durable, [Next]_vars PROVE Durable'
  OBVIOUS
<1> USE DEF Inv, nvs, request, history, Goto, At, Error
<1>1. ASSUME NEW c \in Clients, Begin(c) PROVE Durable'
  <2>1. ASSUME NEW k \in Keys
        PROVE  flash'[k] = stable'[k]
               \/ \E d \in Clients : lock' = d /\ step'[d] = "commit" /\ key'[d] = k
    BY <1>1, <2>1 DEF Begin, TypeOK, Serialized, Durable, MayFail
  <2>2. ASSUME NEW d \in Clients, step'[d] = "give", op'[d] = "load", err'[d] = "ok"
        PROVE  got'[d][key'[d]] = flash'[key'[d]]
    BY <1>1, <2>2 DEF Begin, TypeOK, Serialized, Progress, Durable, Writers, MayFail
  <2> QED BY <2>1, <2>2 DEF Durable
<1>2. ASSUME NEW c \in Clients, Take(c) PROVE Durable'
  <2>1. ASSUME NEW k \in Keys
        PROVE  flash'[k] = stable'[k]
               \/ \E d \in Clients : lock' = d /\ step'[d] = "commit" /\ key'[d] = k
    BY <1>2, <2>1, StorageAssumption DEF Take, TypeOK, Durable
  <2>2. ASSUME NEW d \in Clients, step'[d] = "give", op'[d] = "load", err'[d] = "ok"
        PROVE  got'[d][key'[d]] = flash'[key'[d]]
    BY <1>2, <2>2 DEF Take, TypeOK, Durable
  <2> QED BY <2>1, <2>2 DEF Durable
<1>3. ASSUME NEW c \in Clients, Open(c) PROVE Durable'
  <2>1. ASSUME NEW k \in Keys
        PROVE  flash'[k] = stable'[k]
               \/ \E d \in Clients : lock' = d /\ step'[d] = "commit" /\ key'[d] = k
    BY <1>3, <2>1 DEF Open, TypeOK, Serialized, Durable, MayFail
  <2>2. ASSUME NEW d \in Clients, step'[d] = "give", op'[d] = "load", err'[d] = "ok"
        PROVE  got'[d][key'[d]] = flash'[key'[d]]
    BY <1>3, <2>2 DEF Open, TypeOK, Serialized, Progress, Durable, Writers, MayFail
  <2> QED BY <2>1, <2>2 DEF Durable
<1>4. ASSUME NEW c \in Clients, Write(c) PROVE Durable'
  <2>1. ASSUME NEW k \in Keys
        PROVE  flash'[k] = stable'[k]
               \/ \E d \in Clients : lock' = d /\ step'[d] = "commit" /\ key'[d] = k
    BY <1>4, <2>1 DEF Write, TypeOK, Serialized, Durable, MayFail
  <2>2. ASSUME NEW d \in Clients, step'[d] = "give", op'[d] = "load", err'[d] = "ok"
        PROVE  got'[d][key'[d]] = flash'[key'[d]]
    BY <1>4, <2>2 DEF Write, TypeOK, Serialized, Progress, Durable, Writers, MayFail
  <2> QED BY <2>1, <2>2 DEF Durable
<1>5. ASSUME NEW c \in Clients, Commit(c) PROVE Durable'
  <2>1. ASSUME NEW k \in Keys
        PROVE  flash'[k] = stable'[k]
               \/ \E d \in Clients : lock' = d /\ step'[d] = "commit" /\ key'[d] = k
    BY <1>5, <2>1 DEF Commit, TypeOK, Serialized, Durable, MayFail
  <2>2. ASSUME NEW d \in Clients, step'[d] = "give", op'[d] = "load", err'[d] = "ok"
        PROVE  got'[d][key'[d]] = flash'[key'[d]]
    BY <1>5, <2>2 DEF Commit, TypeOK, Serialized, Progress, Durable, Writers, MayFail
  <2> QED BY <2>1, <2>2 DEF Durable
<1>6. ASSUME NEW c \in Clients, Read(c) PROVE Durable'
  <2>1. ASSUME NEW k \in Keys
        PROVE  flash'[k] = stable'[k]
               \/ \E d \in Clients : lock' = d /\ step'[d] = "commit" /\ key'[d] = k
    BY <1>6, <2>1 DEF Read, TypeOK, Serialized, Durable, MayFail
  <2>2. ASSUME NEW d \in Clients, step'[d] = "give", op'[d] = "load", err'[d] = "ok"
        PROVE  got'[d][key'[d]] = flash'[key'[d]]
    BY <1>6, <2>2 DEF Read, TypeOK, Serialized, Progress, Durable, Writers, MayFail
  <2> QED BY <2>1, <2>2 DEF Durable
<1>7. ASSUME NEW c \in Clients, Give(c) PROVE Durable'
  <2>1. ASSUME NEW k \in Keys
        PROVE  flash'[k] = stable'[k]
               \/ \E d \in Clients : lock' = d /\ step'[d] = "commit" /\ key'[d] = k
    BY <1>7, <2>1 DEF Give, TypeOK, Serialized, Durable, MayFail
  <2>2. ASSUME NEW d \in Clients, step'[d] = "give", op'[d] = "load", err'[d] = "ok"
        PROVE  got'[d][key'[d]] = flash'[key'[d]]
    BY <1>7, <2>2 DEF Give, TypeOK, Serialized, Progress, Durable, Writers, MayFail
  <2> QED BY <2>1, <2>2 DEF Durable
<1>8. ASSUME NEW c \in Clients, SecondKey(c) PROVE Durable'
  <2>1. ASSUME NEW k \in Keys
        PROVE  flash'[k] = stable'[k]
               \/ \E d \in Clients : lock' = d /\ step'[d] = "commit" /\ key'[d] = k
    BY <1>8, <2>1 DEF SecondKey, TypeOK, Serialized, Durable, MayFail
  <2>2. ASSUME NEW d \in Clients, step'[d] = "give", op'[d] = "load", err'[d] = "ok"
        PROVE  got'[d][key'[d]] = flash'[key'[d]]
    BY <1>8, <2>2 DEF SecondKey, TypeOK, Serialized, Progress, Durable, Writers, MayFail
  <2> QED BY <2>1, <2>2 DEF Durable
<1>9. ASSUME NEW c \in Clients, Finish(c) PROVE Durable'
  <2>1. ASSUME NEW k \in Keys
        PROVE  flash'[k] = stable'[k]
               \/ \E d \in Clients : lock' = d /\ step'[d] = "commit" /\ key'[d] = k
    BY <1>9, <2>1 DEF Finish, TypeOK, Serialized, Durable, MayFail
  <2>2. ASSUME NEW d \in Clients, step'[d] = "give", op'[d] = "load", err'[d] = "ok"
        PROVE  got'[d][key'[d]] = flash'[key'[d]]
    BY <1>9, <2>2 DEF Finish, TypeOK, Serialized, Progress, Durable, Writers, MayFail
  <2> QED BY <2>1, <2>2 DEF Durable
<1>10. ASSUME PowerLoss PROVE Durable'
  BY <1>10 DEF PowerLoss, Durable
<1>11. CASE UNCHANGED vars
  BY <1>11 DEF vars, Durable
<1> QED
  BY <1>1, <1>2, <1>3, <1>4, <1>5, <1>6, <1>7, <1>8, <1>9, <1>10, <1>11
  DEF Next, Client, Sequence, Rest

\* A load that reads a key reads what no later loss of power takes back.
THEOREM LoadsSurvive ==
  ASSUME "commit" \notin Faults
  PROVE  Spec => []LoadsAreStable
<1>1. Init => Durable
  BY DEF Init, Durable
<1>2. Inv /\ Durable => LoadsAreStable
  <2> SUFFICES ASSUME Inv, Durable, NEW c \in Clients,
                      step[c] = "give", op[c] = "load", err[c] = "ok"
               PROVE  got[c][key[c]] = stable[key[c]]
    BY DEF LoadsAreStable, At
  <2>1. lock = c /\ key[c] \in Keys
    BY DEF Inv, TypeOK, Serialized
  <2> QED BY <2>1 DEF Durable
<1>3. Inv /\ Durable /\ [Next]_vars => Durable'
  BY DurableStep
<1> QED
  BY <1>1, <1>2, <1>3, Invariance, PTL DEF Spec

-----------------------------------------------------------------------------
(* Whole pairs.                                                             *)

\* What is known of a writer that met no other: what its first key holds once
\* it has gone on to the second, and what a key holds once its sequence is over.
Followed ==
  /\ \A c, d \in Clients : Writing(c) /\ alone[c] /\ Writing(d) => d = c
  /\ \A c \in Clients : Writing(c) /\ ~torn => alone[c]
  /\ \A c \in Clients : Writing(c) /\ alone[c] =>
       /\ key[c] = "pass" => flash["ssid"] = val[c]
       /\ step[c] \in {"give", "next"} /\ err[c] # "failed" => flash[key[c]] = val[c]
  /\ ~torn /\ (\A c \in Clients : ~Writing(c)) => Whole(flash)

\* Every step keeps what is known of the writers.
LEMMA FollowedStep ==
  ASSUME "commit" \notin Faults
  PROVE  Inv /\ Durable /\ Followed /\ [Next]_vars => Followed'
<1> SUFFICES ASSUME Inv, Durable, Followed, [Next]_vars PROVE Followed'
  OBVIOUS
<1> USE DEF Inv, nvs, request, history, Goto, At, Error, Writing, Busy
<1>1. ASSUME NEW c \in Clients, Begin(c) PROVE Followed'
  <2>1. PICK o \in Ops, v \in Entries :
          /\ op' = [op EXCEPT ![c] = o] /\ val' = [val EXCEPT ![c] = v]
          /\ alone' = [d \in Clients |->
                         IF d = c THEN ~\E e \in Clients \ {c} : Writing(e)
                         ELSE alone[d] /\ ~(Busy(d) /\ o \in Writers)]
          /\ torn' = (torn \/ ((\E e \in Clients \ {c} : Writing(e)) /\ o \in Writers))
    BY <1>1 DEF Begin, Entries
  <2>2. /\ step[c] = "idle" /\ step' = [step EXCEPT ![c] = "take"]
        /\ key' = [key EXCEPT ![c] = "ssid"] /\ err' = [err EXCEPT ![c] = "ok"]
        /\ flash' = flash
    BY <1>1 DEF Begin
  <2>3. \A d \in Clients : d # c =>
          /\ op'[d] = op[d] /\ val'[d] = val[d] /\ step'[d] = step[d] /\ key'[d] = key[d]
          /\ err'[d] = err[d]
          /\ alone'[d] => alone[d] /\ ~(Busy(d) /\ o \in Writers)
          /\ alone[d] /\ ~(Busy(d) /\ o \in Writers) => alone'[d]
    BY <2>1, <2>2 DEF TypeOK
  <2>4. /\ op'[c] = o /\ step'[c] = "take" /\ key'[c] = "ssid"
        /\ alone'[c] <=> ~\E e \in Clients \ {c} : Writing(e)
    BY <2>1, <2>2 DEF TypeOK
  <2>5. \A a, d \in Clients : Writing(a)' /\ alone'[a] /\ Writing(d)' => d = a
    BY <2>2, <2>3, <2>4 DEF Followed
  <2>6. \A a \in Clients : Writing(a)' /\ ~torn' => alone'[a]
    <3> SUFFICES ASSUME NEW a \in Clients, Writing(a)', ~torn' PROVE alone'[a]
      OBVIOUS
    <3>1. ~torn /\ ((\E e \in Clients \ {c} : Writing(e)) => o \notin Writers)
      BY <2>1 DEF TypeOK
    <3>2. CASE a = c
      BY <2>4, <3>1, <3>2
    <3>3. CASE a # c
      <4>1. Writing(a) /\ o \notin Writers
        BY <2>3, <3>1, <3>3
      <4>2. alone[a]
        BY <3>1, <4>1 DEF Followed
      <4> QED BY <2>3, <3>3, <4>1, <4>2
    <3> QED BY <3>2, <3>3
  <2>7. \A a \in Clients : Writing(a)' /\ alone'[a] =>
          /\ key'[a] = "pass" => flash'["ssid"] = val'[a]
          /\ step'[a] \in {"give", "next"} /\ err'[a] # "failed" => flash'[key'[a]] = val'[a]
    BY <2>2, <2>3, <2>4 DEF Followed
  <2>8. ~torn' /\ (\A a \in Clients : ~Writing(a)') => Whole(flash')
    BY <2>1, <2>2, <2>3 DEF Followed
  <2> QED BY <2>5, <2>6, <2>7, <2>8 DEF Followed
\* The calls of a sequence and SecondKey leave writers as they are.
<1>2. ASSUME NEW c \in Clients, step[c] # "idle", UNCHANGED <<op, val, torn, alone>>,
             \E s \in Steps \ {"idle"} : step' = [step EXCEPT ![c] = s],
             \A d \in Clients : d # c => key'[d] = key[d] /\ err'[d] = err[d],
             Writing(c) \/ flash' = flash,
             Writing(c) /\ alone[c] =>
               /\ \A k \in Keys : k # key[c] => flash'[k] = flash[k]
               /\ key'[c] = "pass" => flash'["ssid"] = val[c]
               /\ step'[c] \in {"give", "next"} /\ err'[c] # "failed" => flash'[key'[c]] = val[c]
      PROVE  Followed'
  <2>1. \A d \in Clients : (Writing(d)' <=> Writing(d)) /\ (d # c => step'[d] = step[d])
    BY <1>2 DEF TypeOK
  <2>2. \A a, d \in Clients : Writing(a)' /\ alone'[a] /\ Writing(d)' => d = a
    BY <1>2, <2>1 DEF Followed
  <2>3. \A a \in Clients : Writing(a)' /\ ~torn' => alone'[a]
    BY <1>2, <2>1 DEF Followed
  <2>4. ASSUME NEW a \in Clients, Writing(a)', alone'[a]
        PROVE  /\ key'[a] = "pass" => flash'["ssid"] = val'[a]
               /\ step'[a] \in {"give", "next"} /\ err'[a] # "failed" => flash'[key'[a]] = val'[a]
    <3>1. CASE a = c
      BY <1>2, <2>1, <2>4, <3>1
    <3>2. CASE a # c
      <4>1. Writing(a) /\ alone[a] /\ ~Writing(c)
        BY <1>2, <2>1, <2>4, <3>2 DEF Followed
      <4> QED BY <1>2, <2>1, <3>2, <4>1 DEF Followed
    <3> QED BY <3>1, <3>2
  <2>5. ~torn' /\ (\A a \in Clients : ~Writing(a)') => Whole(flash')
    BY <1>2, <2>1 DEF Followed
  <2> QED BY <2>2, <2>3, <2>4, <2>5 DEF Followed
<1>3. ASSUME NEW c \in Clients, Take(c) PROVE Followed'
  BY <1>2, <1>3 DEF Take, TypeOK, Followed, Steps
<1>4. ASSUME NEW c \in Clients, Open(c) PROVE Followed'
  BY <1>2, <1>4 DEF Open, TypeOK, Followed, Steps
<1>5. ASSUME NEW c \in Clients, Write(c) PROVE Followed'
  <2>1. /\ Writing(c) /\ step[c] = "access" /\ key[c] \in Keys
        /\ UNCHANGED <<op, val, torn, alone, key>>
    BY <1>5 DEF Write, TypeOK
  <2>2. \/ flash' = [flash EXCEPT ![key[c]] = val[c]] /\ Goto(c, "commit") /\ err' = err
        \/ /\ flash' = flash /\ err' = [err EXCEPT ![c] = "missing"] /\ Goto(c, "give")
           /\ flash[key[c]] = val[c]
        \/ flash' = flash /\ Error(c, "failed")
    BY <1>5 DEF Write, Progress
  <2>3. /\ \A k \in Keys : k # key[c] => flash'[k] = flash[k]
        /\ alone[c] /\ key'[c] = "pass" => flash'["ssid"] = val[c]
        /\ step'[c] \in {"give", "next"} /\ err'[c] # "failed" => flash'[key'[c]] = val[c]
    BY <2>1, <2>2 DEF TypeOK, Followed, Keys
  <2>4. /\ \E s \in Steps \ {"idle"} : step' = [step EXCEPT ![c] = s]
        /\ \A d \in Clients : d # c => err'[d] = err[d]
    BY <2>2 DEF TypeOK, Steps
  <2> QED BY <1>2, <2>1, <2>3, <2>4
<1>6. ASSUME NEW c \in Clients, Commit(c) PROVE Followed'
  BY <1>2, <1>6 DEF Commit, TypeOK, Progress, Followed, Steps
<1>7. ASSUME NEW c \in Clients, Read(c) PROVE Followed'
  BY <1>2, <1>7 DEF Read, TypeOK, Followed, Steps, Writers
<1>8. ASSUME NEW c \in Clients, Give(c) PROVE Followed'
  BY <1>2, <1>8 DEF Give, TypeOK, Followed, Steps
<1>9. ASSUME NEW c \in Clients, SecondKey(c) PROVE Followed'
  <2>1. Writing(c) /\ alone[c] => flash["ssid"] = val[c]
    BY <1>9 DEF SecondKey, Stops, Followed
  <2> QED BY <1>2, <1>9, <2>1 DEF SecondKey, TypeOK, Steps
<1>10. ASSUME NEW c \in Clients, Finish(c) PROVE Followed'
  <2>1. /\ step[c] = "next" /\ step' = [step EXCEPT ![c] = "idle"]
        /\ torn' = IF op[c] = "load" THEN torn ELSE IF Stops(c) THEN TRUE ELSE torn /\ ~alone[c]
        /\ UNCHANGED <<flash, op, val, key, err, alone>>
    BY <1>10 DEF Finish
  <2>2. \A d \in Clients : (Writing(d)' <=> d # c /\ Writing(d)) /\ (d # c => step'[d] = step[d])
    BY <2>1 DEF TypeOK
  <2>3. CASE op[c] = "load"
    <3>1. ~Writing(c) /\ torn' = torn
      BY <2>1, <2>3 DEF Writers
    <3>2. \A d \in Clients : Writing(d)' <=> Writing(d)
      BY <2>2, <3>1
    <3>3. \A a, d \in Clients : Writing(a)' /\ alone'[a] /\ Writing(d)' => d = a
      BY <2>1, <3>2 DEF Followed
    <3>4. ASSUME NEW a \in Clients, Writing(a)', ~torn' PROVE alone'[a]
      <4>1. Writing(a) /\ ~torn
        BY <3>1, <3>2, <3>4
      <4> QED BY <2>1, <4>1 DEF Followed
    <3>5. \A a \in Clients : Writing(a)' /\ alone'[a] =>
            /\ key'[a] = "pass" => flash'["ssid"] = val'[a]
            /\ step'[a] \in {"give", "next"} /\ err'[a] # "failed" => flash'[key'[a]] = val'[a]
      BY <2>1, <2>2 DEF Followed
    <3>6. ASSUME ~torn', \A a \in Clients : ~Writing(a)' PROVE Whole(flash')
      <4>1. ~torn /\ \A a \in Clients : ~Writing(a)
        BY <3>1, <3>2, <3>6
      <4> QED BY <2>1, <4>1 DEF Followed
    <3> QED BY <3>3, <3>4, <3>5, <3>6 DEF Followed
  <2>4. CASE op[c] # "load" /\ Stops(c)
    BY <2>1, <2>2, <2>4 DEF Followed
  <2>5. CASE op[c] # "load" /\ ~Stops(c)
    <3>1. Writing(c) /\ key[c] = "pass" /\ err[c] # "failed"
      BY <1>10, <2>1, <2>5 DEF Finish, Stops, TypeOK, Ops, Writers
    <3>2. CASE alone[c]
      <4>1. \A d \in Clients : ~Writing(d)'
        BY <2>2, <3>1, <3>2 DEF Followed
      <4>2. flash["ssid"] = val[c] /\ flash["pass"] = val[c]
        BY <2>1, <3>1, <3>2 DEF Followed
      <4> QED BY <2>1, <4>1, <4>2 DEF Followed, Whole
    <3>3. CASE ~alone[c]
      <4>1. torn /\ torn' = torn
        BY <2>1, <2>5, <3>1, <3>3 DEF Followed, TypeOK
      <4>2. \A a, d \in Clients : Writing(a)' /\ alone'[a] /\ Writing(d)' => d = a
        BY <2>1, <2>2 DEF Followed
      <4>3. \A a \in Clients : Writing(a)' /\ alone'[a] =>
              /\ key'[a] = "pass" => flash'["ssid"] = val'[a]
              /\ step'[a] \in {"give", "next"} /\ err'[a] # "failed" => flash'[key'[a]] = val'[a]
        BY <2>1, <2>2 DEF Followed
      <4> QED BY <4>1, <4>2, <4>3 DEF Followed
    <3> QED BY <3>2, <3>3
  <2> QED BY <2>3, <2>4, <2>5
<1>11. CASE PowerLoss
  <2>1. (\A c \in Clients : ~Writing(c)') /\ (~torn' => ~torn /\ \A c \in Clients : ~Writing(c))
    BY <1>11 DEF PowerLoss
  <2>2. ASSUME ~torn' PROVE Whole(flash')
    <3>1. \A k \in Keys : flash[k] = stable[k]
      BY <2>1, <2>2 DEF Durable, Progress
    <3>2. \A k \in Keys : flash'[k] = flash[k]
      BY <1>11, <3>1 DEF PowerLoss
    <3>3. Whole(flash)
      BY <2>1, <2>2 DEF Followed
    <3> QED BY <3>2, <3>3 DEF Whole, Keys
  <2> QED BY <2>1, <2>2 DEF Followed
<1>12. CASE UNCHANGED vars
  BY <1>12 DEF vars, Followed, Whole
<1> QED
  BY <1>1, <1>3, <1>4, <1>5, <1>6, <1>7, <1>8, <1>9, <1>10, <1>11, <1>12
  DEF Next, Client, Sequence, Rest

\* WholeAtRest: a pair is whole, and survives a loss of power, when no writer
\* runs and the last ones neither met, nor failed, nor lost power midway.
THEOREM WholePairs ==
  ASSUME "commit" \notin Faults
  PROVE  Spec => []WholeAtRest
<1>1. Init => Durable /\ Followed
  BY DEF Init, Durable, Followed, Writing, Busy, Whole, Keys
<1>2. Inv /\ Durable /\ Followed => WholeAtRest
  <2> SUFFICES ASSUME Inv, Durable, Followed, ~torn, \A c \in Clients : ~Writing(c)
               PROVE  Whole(flash) /\ flash = stable
    BY DEF WholeAtRest
  <2>1. \A k \in Keys : flash[k] = stable[k]
    BY DEF Inv, Durable, Progress, Writing, Busy
  <2>2. flash = stable
    BY <2>1 DEF Inv, TypeOK
  <2> QED BY <2>2 DEF Followed
<1>3. Inv /\ Durable /\ [Next]_vars => Durable'
  BY DurableStep
<1>4. Inv /\ Durable /\ Followed /\ [Next]_vars => Followed'
  BY FollowedStep
<1> QED
  BY <1>1, <1>2, <1>3, <1>4, Invariance, PTL DEF Spec
=============================================================================
