-------------------------- MODULE DashboardProofs --------------------------
(***************************************************************************)
(* For queues of any length, any number of requests and blocks, whatever   *)
(* fails and whenever shutdown calls come: every block has one holder      *)
(* until it is released, none is released twice, and every request ends    *)
(* clean.                                                                  *)
(***************************************************************************)
EXTENDS Dashboard, FiniteSetTheorems, TLAPS

\* What a queue carries, and that no two of its entries carry the same block.
Nz(b)       == {b} \ {NoBlock}
Carried(q)  == {q[i].block : i \in 1 .. Len(q)} \ {NoBlock}
Distinct(q) == \A i, j \in 1 .. Len(q) :
                 q[i].block = q[j].block /\ q[i].block # NoBlock => i = j

Numbers      == 0 .. MaxBlocks
LoopEvents   == {e \in [type : Types \cup DriverTypes, block : Numbers] :
                   e.block # NoBlock => e.type = "mode"}
SrvMessages  == {m \in [event : {"START", "STOP", "STORE", "LOAD"}, block : Numbers] :
                   m.block # NoBlock => m.event = "STORE"}
Turns        == DriverTypes \cup {"end"}
HttpSteps    == {"idle", "body", "relay", "save", "mode", "send", "lock", "access", "notify",
                 "post", "reply", "done"}
HttpTasks    == [kind : Kinds \cup {"none"}, step : HttpSteps, block : Numbers,
                 tree : {"none", "live"}, replies : Nat, err : BOOLEAN, stale : BOOLEAN]

\* Types, and what each part of the state says about the block it holds.
HeapOK ==
  /\ used \in Numbers /\ heap \subseteq 1 .. used /\ lost \subseteq 1 .. used
  /\ misused \subseteq {"queue", "handler", "server", "state"}
BusOK ==
  /\ loop \in BOOLEAN /\ created \in BOOLEAN
  /\ dispatchers \subseteq Bases /\ subscribed \subseteq Types
  /\ loopq \in Seq(LoopEvents) /\ Len(loopq) <= LoopLen /\ Distinct(loopq)
SrvOK ==
  /\ open \in BOOLEAN /\ alive \in BOOLEAN /\ restoring \in BOOLEAN
  /\ messages \in Seq(SrvMessages) /\ Len(messages) <= QueueLen /\ Distinct(messages)
  /\ hand \in SrvMessages \cup {NoMessage}
  /\ writers \subseteq Numbers
  /\ lock \in {"none", "flash", "http"} /\ handler \in {"none", "live", "freed", "gone"}
Request(t) ==
  /\ t \in HttpTasks
  /\ t.block # NoBlock => t.step \in {"send", "post"}
  /\ t.step = "body" => t.kind \in WithBody
  /\ t.step # "done" => t.replies = 0 /\ ~t.stale
  /\ t.step \in {"idle", "post", "reply"} => t.tree = "none"
  /\ t.step = "done" =>
       /\ t.tree = "none" /\ t.replies <= 1 /\ (t.replies = 0 => t.err)
       /\ t.stale => t.kind = "mode"
HttpOK ==
  /\ server \in BOOLEAN /\ httpd \in {"down", "up", "closing"} /\ hooks \subseteq DriverTypes
  /\ served \in 0 .. MaxRequests /\ stuck \in BOOLEAN
  /\ Request(task)
AppOK ==
  /\ app \in AppSteps /\ down \subseteq Calls /\ early \subseteq down
  /\ monitor \in {"asleep", "reads"} /\ leaked \subseteq Blocks
LoopOK ==
  /\ work \in [step : LoopSteps, block : Numbers]
  /\ work.block # NoBlock => work.step \in {"unpack", "send"}
  /\ pending \in Seq(Turns) /\ Len(pending) <= 2 /\ radio \in BOOLEAN

\* The blocks in use and not lost are divided among their holders.
Partition(live, t, w, h, f, l, q) ==
  /\ live = t \cup w \cup h \cup f \cup l \cup q
  /\ t \cap (w \cup h \cup f \cup l \cup q) = {}
  /\ w \cap (h \cup f \cup l \cup q) = {}
  /\ h \cap (f \cup l \cup q) = {}
  /\ f \cap (l \cup q) = {}
  /\ l \cap q = {}
Owned ==
  Partition(heap \ lost, Nz(task.block), Nz(work.block), Nz(hand.block), writers \ {NoBlock},
            Carried(loopq), Carried(messages))

Inv == HeapOK /\ BusOK /\ SrvOK /\ HttpOK /\ AppOK /\ LoopOK /\ Owned

-----------------------------------------------------------------------------
(* Queues of events and messages.                                           *)

\* What putting an entry behind a queue adds to its blocks.
LEMMA PutLast ==
  ASSUME NEW S, NEW q \in Seq(S), NEW m \in S
  PROVE  /\ Append(q, m) \in Seq(S) /\ Len(Append(q, m)) = Len(q) + 1
         /\ Carried(Append(q, m)) = Carried(q) \cup Nz(m.block)
         /\ Distinct(q) /\ m.block \notin Carried(q) => Distinct(Append(q, m))
<1> DEFINE r == Append(q, m)
<1>1. r \in Seq(S) /\ Len(r) = Len(q) + 1 /\ Len(q) \in Nat
  OBVIOUS
<1>2. (\A i \in 1 .. Len(q) : r[i] = q[i]) /\ r[Len(q) + 1] = m
  OBVIOUS
<1> HIDE DEF r
<1>3. \A i : i \in 1 .. Len(r) <=> i \in 1 .. Len(q) \/ i = Len(q) + 1
  BY <1>1
<1>4. Carried(r) = Carried(q) \cup Nz(m.block)
  <2>1. \A b : b \in Carried(r) <=> b # NoBlock /\ \E i \in 1 .. Len(r) : b = r[i].block
    BY DEF Carried
  <2>2. \A b : b \in Carried(q) <=> b # NoBlock /\ \E i \in 1 .. Len(q) : b = q[i].block
    BY DEF Carried
  <2>3. ASSUME NEW b PROVE b \in Carried(r) <=> b \in Carried(q) \cup Nz(m.block)
    BY <1>2, <1>3, <2>1, <2>2 DEF Nz
  <2> QED BY <2>3
<1>5. ASSUME Distinct(q), m.block \notin Carried(q) PROVE Distinct(r)
  <2>1. \A i \in 1 .. Len(q) : q[i].block # m.block \/ m.block = NoBlock
    BY <1>5 DEF Carried
  <2> SUFFICES ASSUME NEW i \in 1 .. Len(r), NEW j \in 1 .. Len(r),
                      r[i].block = r[j].block, r[i].block # NoBlock
               PROVE  i = j
    BY DEF Distinct
  <2>2. CASE i \in 1 .. Len(q) /\ j \in 1 .. Len(q)
    BY <1>2, <1>5, <2>2 DEF Distinct
  <2>3. CASE i = Len(q) + 1 \/ j = Len(q) + 1
    BY <1>2, <1>3, <2>1, <2>3
  <2> QED BY <1>3, <2>2, <2>3
<1> QED BY <1>1, <1>4, <1>5 DEF r

\* What taking the first entry removes from them.
LEMMA TakeHead ==
  ASSUME NEW S, NEW q \in Seq(S), q # <<>>, Distinct(q)
  PROVE  /\ Head(q) \in S /\ Tail(q) \in Seq(S) /\ Len(Tail(q)) <= Len(q)
         /\ Distinct(Tail(q))
         /\ Carried(q) = Carried(Tail(q)) \cup Nz(Head(q).block)
         /\ Head(q).block \notin Carried(Tail(q))
<1> DEFINE r == Tail(q)
           h == Head(q)
<1>1. /\ r \in Seq(S) /\ Len(r) = Len(q) - 1 /\ Len(q) \in Nat \ {0}
      /\ h \in S /\ h = q[1]
  OBVIOUS
<1>2. \A i \in 1 .. Len(r) : r[i] = q[i + 1] /\ i + 1 \in 1 .. Len(q)
  OBVIOUS
<1> HIDE DEF r, h
<1>3. \A i \in 1 .. Len(q) : i = 1 \/ (i - 1 \in 1 .. Len(r) /\ r[i - 1] = q[i])
  <2> TAKE i \in 1 .. Len(q)
  <2>1. CASE i # 1
    <3>1. i - 1 \in 1 .. Len(r) /\ (i - 1) + 1 = i
      BY <1>1, <2>1
    <3> QED BY <1>2, <3>1
  <2> QED BY <2>1
<1>4. \A b : b \in Carried(r) <=> b # NoBlock /\ \E i \in 1 .. Len(r) : b = r[i].block
  BY DEF Carried
<1>5. \A b : b \in Carried(q) <=> b # NoBlock /\ \E i \in 1 .. Len(q) : b = q[i].block
  BY DEF Carried
<1>6. 1 \in 1 .. Len(q)
  BY <1>1
<1>7. ASSUME NEW b PROVE b \in Carried(q) <=> b \in Carried(r) \cup Nz(h.block)
  <2>1. ASSUME b \in Carried(q) PROVE b \in Carried(r) \cup Nz(h.block)
    BY <1>1, <1>3, <1>4, <1>5, <2>1 DEF Nz
  <2>2. ASSUME b \in Carried(r) PROVE b \in Carried(q)
    BY <1>2, <1>4, <1>5, <2>2
  <2>3. ASSUME b \in Nz(h.block) PROVE b \in Carried(q)
    BY <1>1, <1>5, <1>6, <2>3 DEF Nz
  <2> QED BY <2>1, <2>2, <2>3
<1>8. h.block \notin Carried(r)
  <2> SUFFICES ASSUME NEW i \in 1 .. Len(r), h.block = r[i].block, h.block # NoBlock PROVE FALSE
    BY <1>4
  <2>1. i + 1 = 1
    BY <1>1, <1>2, <1>6 DEF Distinct
  <2> QED BY <2>1
<1>9. Distinct(r)
  <2> SUFFICES ASSUME NEW i \in 1 .. Len(r), NEW j \in 1 .. Len(r),
                      r[i].block = r[j].block, r[i].block # NoBlock
               PROVE  i = j
    BY DEF Distinct
  <2>1. i + 1 = j + 1
    BY <1>2 DEF Distinct
  <2> QED BY <2>1
<1> QED BY <1>1, <1>7, <1>8, <1>9 DEF r, h

\* An empty queue carries nothing.
LEMMA EmptyQueue == Distinct(<<>>) /\ Carried(<<>>) = {}
BY DEF Distinct, Carried

\* The blocks of the messages, as wifi_srv_deinit sees them.
LEMMA Blocks0 ==
  ASSUME NEW S, NEW q \in Seq(S) PROVE BlocksOf(q) \ {NoBlock} = Carried(q)
BY DEF BlocksOf, Carried

-----------------------------------------------------------------------------
(* What the operations of the parts do to blocks.                           *)

\* A part that is left alone stays as it is.
LEMMA Stays ==
  /\ HeapOK /\ UNCHANGED heapVars => HeapOK'
  /\ BusOK /\ UNCHANGED busVars => BusOK'
  /\ SrvOK /\ UNCHANGED srvVars => SrvOK'
  /\ HttpOK /\ UNCHANGED httpVars => HttpOK'
  /\ AppOK /\ UNCHANGED appVars => AppOK'
  /\ LoopOK /\ UNCHANGED loopVars => LoopOK'
<1>1. HttpOK /\ UNCHANGED httpVars => HttpOK'
  BY DEF HttpOK, httpVars
<1> QED
  BY <1>1 DEF HeapOK, heapVars, BusOK, busVars, Distinct, SrvOK, srvVars, AppOK, appVars,
         LoopOK, loopVars

\* Nobody gains or loses a block.
LEMMA OwnedKept ==
  ASSUME Owned, UNCHANGED <<heap, lost>>, Nz(task'.block) = Nz(task.block),
         Nz(work'.block) = Nz(work.block), Nz(hand'.block) = Nz(hand.block), writers' = writers,
         Carried(loopq') = Carried(loopq), Carried(messages') = Carried(messages)
  PROVE  Owned'
BY DEF Owned

\* Every holder's block is in use, and no other holder has it.
LEMMA Holders ==
  ASSUME Owned
  PROVE  /\ Nz(task.block) \subseteq heap \ lost /\ Nz(work.block) \subseteq heap \ lost
         /\ Nz(hand.block) \subseteq heap \ lost /\ writers \ {NoBlock} \subseteq heap \ lost
         /\ Carried(loopq) \subseteq heap \ lost /\ Carried(messages) \subseteq heap \ lost
         /\ task.block \notin Carried(loopq) /\ task.block \notin Carried(messages)
         /\ work.block \notin Carried(messages)
         /\ task.block \in heap \cup {NoBlock} /\ work.block \in heap \cup {NoBlock}
         /\ hand.block \in heap \cup {NoBlock} /\ writers \subseteq heap \cup {NoBlock}
         /\ NoBlock \notin Carried(loopq) /\ NoBlock \notin Carried(messages)
<1>1. NoBlock \notin Carried(loopq) /\ NoBlock \notin Carried(messages)
  BY DEF Carried
<1> QED BY <1>1 DEF Owned, Partition, Nz

\* A block is taken from the heap.
LEMMA AllocateEffect ==
  ASSUME HeapOK, Allocate
  PROVE  /\ HeapOK' /\ Fresh \in Numbers \ {NoBlock} /\ Fresh \notin heap \cup lost
         /\ heap' = heap \cup {Fresh} /\ lost' = lost
<1>1. used < MaxBlocks
  BY HeapAssumption DEF HeapOK, Allocate, Full, Numbers
<1>2. used + 1 \in Numbers /\ used + 1 # NoBlock /\ used + 1 \notin 1 .. used
      /\ 1 .. used \subseteq 1 .. (used + 1) /\ used + 1 \in 1 .. (used + 1)
  BY <1>1, HeapAssumption DEF HeapOK, Numbers, NoBlock
<1>3. heap' = heap \cup {used + 1} /\ lost' = lost /\ misused' = misused /\ used' = used + 1
  BY DEF Allocate, Fresh
<1>4. heap' \subseteq 1 .. used' /\ lost' \subseteq 1 .. used'
  BY <1>2, <1>3 DEF HeapOK
<1> QED BY <1>2, <1>3, <1>4 DEF HeapOK, Fresh

\* A block in use is released.
LEMMA ReleaseEffect ==
  ASSUME HeapOK, NEW b \in heap \cup {NoBlock}, Release(b)
  PROVE  HeapOK' /\ heap' = heap \ Nz(b) /\ lost' = lost
BY DEF HeapOK, Release, Nz, NoBlock

\* Blocks in use are lost.
LEMMA LoseEffect ==
  ASSUME HeapOK, NEW bs, bs \ {NoBlock} \subseteq heap, Lose(bs)
  PROVE  HeapOK' /\ heap' = heap /\ lost' = lost \cup (bs \ {NoBlock})
BY DEF HeapOK, Lose

\* A released object is used.
LEMMA MisuseEffect ==
  ASSUME HeapOK, NEW o \in {"queue", "handler", "server", "state"}, Misuse(o)
  PROVE  HeapOK' /\ heap' = heap /\ lost' = lost
BY DEF HeapOK, Misuse

\* A message is taken by the queue, released, or lost with its queue.
LEMMA SendEffect ==
  ASSUME HeapOK, SrvOK, NEW m \in SrvMessages, Send(m),
         m.block \in heap \cup {NoBlock}, m.block \notin Carried(messages)
  PROVE  /\ HeapOK' /\ SrvOK' /\ UNCHANGED <<hand, writers>>
         /\ \/ /\ Carried(messages') = Carried(messages) \cup Nz(m.block)
               /\ heap' = heap /\ lost' = lost
            \/ /\ Carried(messages') = Carried(messages)
               /\ heap' = heap \ Nz(m.block) /\ lost' = lost
            \/ /\ Carried(messages') = Carried(messages)
               /\ heap' = heap /\ lost' = lost \cup Nz(m.block)
<1>1. CASE open /\ Len(messages) < QueueLen
  <2>1. messages' = Append(messages, m) /\ UNCHANGED heapVars
    BY <1>1 DEF Send
  <2>2. /\ messages' \in Seq(SrvMessages) /\ Len(messages') = Len(messages) + 1
        /\ Carried(messages') = Carried(messages) \cup Nz(m.block) /\ Distinct(messages')
    BY <2>1, PutLast DEF SrvOK
  <2>3. Len(messages') <= QueueLen
    BY <1>1, <2>2, ServiceAssumption DEF SrvOK
  <2> QED BY <2>1, <2>2, <2>3, Stays DEF Send, SrvOK, heapVars
<1>2. CASE open /\ ~(Len(messages) < QueueLen)
  <2>1. Release(m.block) /\ UNCHANGED messages
    BY <1>2 DEF Send
  <2> QED BY <2>1, ReleaseEffect DEF Send, SrvOK
<1>3. CASE ~open
  <2>1. /\ UNCHANGED <<messages, heap, used>> /\ misused' = misused \cup {"queue"}
        /\ lost' = lost \cup Nz(m.block)
    BY <1>3 DEF Send, Nz
  <2>2. HeapOK'
    BY <2>1 DEF HeapOK, Nz
  <2> QED BY <2>1, <2>2 DEF Send, SrvOK
<1> QED BY <1>1, <1>2, <1>3

\* An event is taken by the loop's queue, or nothing happens.
LEMMA EnqueueEffect ==
  ASSUME BusOK, NEW e \in LoopEvents, Posts(e), Enqueue(e), e.block \notin Carried(loopq)
  PROVE  BusOK' /\ Carried(loopq') = Carried(loopq) \cup Nz(e.block)
<1>1. /\ loopq' \in Seq(LoopEvents) /\ Len(loopq') = Len(loopq) + 1
      /\ Carried(loopq') = Carried(loopq) \cup Nz(e.block) /\ Distinct(loopq')
  BY PutLast DEF BusOK, Enqueue
<1>2. Len(loopq') <= LoopLen
  BY <1>1, BusAssumption DEF BusOK, Posts
<1> QED BY <1>1, <1>2 DEF BusOK, Enqueue

\* An event is posted, and taken by the loop's queue if there is room.
LEMMA AnnounceEffect ==
  ASSUME BusOK, NEW e \in LoopEvents, Announce(e), e.block \notin Carried(loopq)
  PROVE  /\ BusOK'
         /\ Carried(loopq') = IF Posts(e) THEN Carried(loopq) \cup Nz(e.block) ELSE Carried(loopq)
<1>1. CASE Posts(e)
  BY <1>1, EnqueueEffect DEF Announce
<1>2. CASE ~Posts(e)
  <2>1. UNCHANGED busVars
    BY <1>2 DEF Announce
  <2> QED BY <1>2, <2>1, Stays DEF busVars
<1> QED BY <1>1, <1>2

\* Events and messages without a block, and those that carry one.
LEMMA Entry ==
  /\ NoBlock \in Numbers
  /\ \A t \in Types \cup DriverTypes : Event(t, NoBlock) \in LoopEvents
  /\ \A b \in Numbers : Event("mode", b) \in LoopEvents /\ Message("STORE", b) \in SrvMessages
  /\ \A e \in {"START", "STOP", "LOAD"} : Message(e, NoBlock) \in SrvMessages
  /\ \A t, b : Event(t, b).block = b /\ Message(t, b).block = b
  /\ Nz(NoBlock) = {}
BY HeapAssumption DEF NoBlock, Numbers, Types, DriverTypes, Event, Message, LoopEvents, SrvMessages, Nz

-----------------------------------------------------------------------------
(* The HTTP task.                                                           *)

\* A request begins without a block, goes on from step to step, and ends
\* with an answer, a refusal or a failure.
LEMMA Requests ==
  ASSUME Request(task)
  PROVE  /\ Request(NoRequest) /\ NoRequest.block = NoBlock
         /\ \A k \in Kinds : \A s \in {"body", "lock", "reply"} :
              (s = "body" => k \in WithBody) =>
                LET t == [NoRequest EXCEPT !.kind = k, !.step = s]
                IN  Request(t) /\ t.block = NoBlock
         /\ \A s \in {"body", "relay", "save", "mode", "lock", "access", "notify"} :
              (s = "body" => task.kind \in WithBody) /\ ~In("done") /\ task.block = NoBlock =>
                LET t == [task EXCEPT !.step = s] IN Request(t) /\ t.block = NoBlock
         /\ Answer /\ ~In("done") => Request(task') /\ task'.block = NoBlock
         /\ (Refuse \/ Fail) /\ ~In("done") => Request(task') /\ task'.block = NoBlock
<1>1. Request(NoRequest) /\ NoRequest.block = NoBlock
  BY HeapAssumption DEF Request, NoRequest, HttpTasks, HttpSteps, Numbers, NoBlock
<1>2. ASSUME NEW k \in Kinds, NEW s \in {"body", "lock", "reply"}, s = "body" => k \in WithBody
      PROVE  LET t == [NoRequest EXCEPT !.kind = k, !.step = s]
             IN  Request(t) /\ t.block = NoBlock
  <2> DEFINE n == NoRequest
             t == [n EXCEPT !.kind = k, !.step = s]
  <2>1. /\ n \in HttpTasks /\ n.block = NoBlock /\ n.tree = "none" /\ n.replies = 0
        /\ n.err = FALSE /\ n.stale = FALSE
    BY <1>1 DEF Request, NoRequest
  <2> HIDE DEF n
  <2>2. t \in HttpTasks
    BY <2>1 DEF HttpTasks, HttpSteps
  <2>3. /\ t.kind = k /\ t.step = s /\ t.block = NoBlock /\ t.tree = "none" /\ t.replies = 0
        /\ t.stale = FALSE
    BY <2>1 DEF HttpTasks
  <2> HIDE DEF t
  <2>4. Request(t) /\ t.block = NoBlock
    BY <1>2, <2>2, <2>3 DEF Request
  <2> QED BY <2>4 DEF t, n
<1>3. ASSUME NEW s \in {"body", "relay", "save", "mode", "lock", "access", "notify"},
             s = "body" => task.kind \in WithBody, ~In("done"), task.block = NoBlock
      PROVE  LET t == [task EXCEPT !.step = s] IN Request(t) /\ t.block = NoBlock
  BY <1>3 DEF Request, HttpTasks, HttpSteps, In
<1>4. ASSUME Answer, ~In("done") PROVE Request(task') /\ task'.block = NoBlock
  <2>1. task' = [kind |-> task.kind, step |-> "reply", block |-> NoBlock, tree |-> "none",
                 replies |-> task.replies, err |-> task.err, stale |-> task.stale]
    BY <1>4 DEF Answer, Request, HttpTasks
  <2>2. task.replies = 0 /\ ~task.stale
    BY <1>4 DEF Request, In
  <2> QED BY <2>1, <2>2, HeapAssumption DEF Request, HttpTasks, HttpSteps, Numbers, NoBlock
<1>5. ASSUME Refuse \/ Fail, ~In("done") PROVE Request(task') /\ task'.block = NoBlock
  <2>1. task \in HttpTasks /\ task.replies = 0 /\ ~task.stale
    BY <1>5 DEF Request, In
  <2>2. NoBlock \in Numbers /\ "done" \in HttpSteps
    BY HeapAssumption DEF HttpSteps, Numbers, NoBlock
  <2>3. CASE Refuse
    <3>1. task' = [task EXCEPT !.step = "done", !.tree = "none", !.block = NoBlock,
                               !.replies = 1, !.err = TRUE]
      <4>1. task.replies + 1 = 1
        BY <2>1
      <4> QED BY <2>3, <4>1 DEF Refuse
    <3>2. task' \in HttpTasks
      BY <2>1, <2>2, <3>1 DEF HttpTasks
    <3>3. /\ task'.step = "done" /\ task'.tree = "none" /\ task'.block = NoBlock
          /\ task'.replies = 1 /\ task'.err = TRUE /\ task'.stale = task.stale
      BY <2>1, <3>1 DEF HttpTasks
    <3> QED BY <2>1, <3>2, <3>3 DEF Request
  <2>4. CASE Fail
    <3>1. task' \in HttpTasks
      BY <2>1, <2>2, <2>4 DEF Fail, HttpTasks
    <3>2. /\ task'.step = "done" /\ task'.tree = "none" /\ task'.block = NoBlock
          /\ task'.replies = 0 /\ task'.err = TRUE /\ task'.stale = task.stale
      BY <2>1, <2>4 DEF Fail, HttpTasks
    <3> QED BY <2>1, <3>1, <3>2 DEF Request
  <2> QED BY <1>5, <2>3, <2>4
<1> QED BY <1>1, <1>2, <1>3, <1>4, <1>5

\* The HTTP task's steps that neither gain nor lose a block.
LEMMA StepHttpPlain ==
  ASSUME Inv, UNCHANGED <<appVars, loopVars>>, UNCHANGED heapVars,
         Request(task'), task.block = NoBlock, task'.block = NoBlock,
         SrvOK', UNCHANGED <<messages, hand, writers>>,
         BusOK', Carried(loopq') = Carried(loopq),
         UNCHANGED <<server, hooks, stuck>>, httpd' \in {"down", "up", "closing"},
         served' \in 0 .. MaxRequests
  PROVE  Inv'
<1>1. HeapOK' /\ AppOK' /\ LoopOK'
  BY Stays DEF Inv
<1>2. HttpOK'
  BY DEF Inv, HttpOK
<1>3. Owned'
  BY OwnedKept DEF Inv, heapVars, loopVars
<1> QED BY <1>1, <1>2, <1>3 DEF Inv

\* An event without a block changes the loop's queue and nothing else.
LEMMA PlainEvent ==
  ASSUME BusOK, NEW t \in Types \cup DriverTypes, Announce(Event(t, NoBlock))
  PROVE  BusOK' /\ Carried(loopq') = Carried(loopq)
<1> DEFINE e == Event(t, NoBlock)
<1>1. e \in LoopEvents /\ e.block = NoBlock /\ Nz(e.block) = {}
  BY Entry
<1>2. e.block \notin Carried(loopq)
  BY <1>1 DEF Carried
<1> HIDE DEF e
<1>3. Announce(e)
  BY DEF e
<1> QED BY <1>1, <1>2, <1>3, AnnounceEffect

\* The storage manager's mutex changes hands.
LEMMA LockMoves ==
  ASSUME SrvOK, lock' \in {"none", "flash", "http"},
         UNCHANGED <<open, messages, alive, hand, writers, restoring, handler>>
  PROVE  SrvOK'
BY DEF SrvOK

\* Requests are taken, read, relayed, answered; the mutex is taken and given
\* back; the task leaves.
LEMMA StepHttpRuns ==
  ASSUME Inv, UNCHANGED <<appVars, loopVars>>,
         \/ HttpTake \/ HttpBody \/ HttpRelay \/ HttpLock \/ HttpUnlock
         \/ HttpNotify \/ HttpReplies \/ HttpReturns \/ HttpLeaves
  PROVE  Inv'
<1>1. /\ Request(task) /\ UNCHANGED <<server, hooks, stuck>> /\ UNCHANGED heapVars
      /\ UNCHANGED <<messages, hand, writers>>
  BY DEF Inv, HttpOK, HttpTake, HttpBody, HttpRelay, HttpLock, HttpUnlock, HttpNotify,
     HttpReplies, HttpReturns, HttpLeaves, OnlyTask, serverVars, srvVars
<1>2. task.block = NoBlock
  <2>1. task.step \notin {"send", "post"} \/ task = NoRequest
    BY DEF HttpTake, HttpBody, HttpRelay, HttpLock, HttpUnlock, HttpNotify, HttpReplies,
       HttpReturns, HttpLeaves, In
  <2>2. NoRequest.block = NoBlock
    BY DEF NoRequest
  <2> QED BY <1>1, <2>1, <2>2 DEF Request
<1>3. SrvOK'
  <2>1. CASE HttpLock \/ HttpUnlock
    BY <2>1, LockMoves DEF Inv, HttpLock, HttpUnlock
  <2>2. CASE ~(HttpLock \/ HttpUnlock)
    BY <2>2, Stays DEF Inv, HttpTake, HttpBody, HttpRelay, HttpNotify, HttpReplies,
       HttpReturns, HttpLeaves
  <2> QED BY <2>1, <2>2
<1>4. BusOK' /\ Carried(loopq') = Carried(loopq)
  <2>1. "http" \in Types \cup DriverTypes
    BY DEF Types
  <2>2. Announce(Event("http", NoBlock)) \/ UNCHANGED busVars
    BY DEF HttpTake, HttpBody, HttpRelay, HttpLock, HttpUnlock, HttpNotify, HttpReplies,
       HttpReturns, HttpLeaves
  <2>3. CASE UNCHANGED busVars
    BY <2>3, Stays DEF Inv, busVars
  <2> QED BY <2>1, <2>2, <2>3, PlainEvent DEF Inv
<1>5. httpd' \in {"down", "up", "closing"} /\ served' \in 0 .. MaxRequests
  <2>1. httpd \in {"down", "up", "closing"} /\ served \in 0 .. MaxRequests
    BY DEF Inv, HttpOK
  <2>2. CASE HttpTake
    <3>1. served < MaxRequests /\ served' = served + 1 /\ httpd' = httpd
      BY <2>2 DEF HttpTake, serverVars
    <3> QED BY <2>1, <3>1, ServerAssumption
  <2>3. CASE ~HttpTake
    BY <2>1, <2>3 DEF HttpBody, HttpRelay, HttpLock, HttpUnlock, HttpNotify,
       HttpReplies, HttpReturns, HttpLeaves, OnlyTask, serverVars
  <2> QED BY <2>2, <2>3
<1>6. Request(task') /\ task'.block = NoBlock
  <2>1. CASE HttpTake
    <3>1. PICK k \in Kinds, s \in {"body", "lock", "reply"} :
            /\ s = "body" => k \in WithBody
            /\ task' = [NoRequest EXCEPT !.kind = k, !.step = s]
      BY <2>1 DEF HttpTake
    <3> QED BY <1>1, <3>1, Requests
  <2>2. CASE HttpBody
    <3>1. CASE Fail \/ Refuse
      BY <1>1, <2>2, <3>1, Requests DEF HttpBody, In
    <3>2. CASE task' = [task EXCEPT !.step = task.kind, !.tree = "live"]
      <4>1. task \in HttpTasks /\ task.kind \in WithBody /\ task.replies = 0 /\ ~task.stale
        BY <1>1, <2>2 DEF HttpBody, Request, In
      <4>2. WithBody = {"relay", "save", "mode"} /\ WithBody \subseteq HttpSteps
        BY DEF WithBody, HttpSteps
      <4>3. task' \in HttpTasks
        BY <3>2, <4>1, <4>2 DEF HttpTasks
      <4>4. task'.step \in WithBody /\ task'.replies = 0 /\ ~task'.stale /\ task'.block = NoBlock
        BY <1>2, <3>2, <4>1 DEF HttpTasks
      <4> QED BY <4>2, <4>3, <4>4 DEF Request
    <3> QED BY <2>2, <3>1, <3>2 DEF HttpBody
  <2>3. CASE HttpRelay \/ HttpNotify
    BY <1>1, <2>3, Requests DEF HttpRelay, HttpNotify, In
  <2>4. CASE HttpLock \/ HttpUnlock
    BY <1>1, <1>2, <2>4, Requests DEF HttpLock, HttpUnlock, In, Goto
  <2>5. CASE HttpReplies
    <3>1. CASE Fail
      BY <1>1, <2>5, <3>1, Requests DEF HttpReplies, In
    <3>2. CASE task' = [task EXCEPT !.step = "done", !.replies = @ + 1,
                                    !.stale = (task.kind = "mode")]
      <4>1. task \in HttpTasks /\ task.replies = 0 /\ task.tree = "none"
        BY <1>1, <2>5 DEF HttpReplies, Request, In
      <4>2. "done" \in HttpSteps /\ task.replies + 1 = 1
        BY <4>1 DEF HttpSteps
      <4>3. task' = [task EXCEPT !.step = "done", !.replies = 1, !.stale = (task.kind = "mode")]
        BY <3>2, <4>2
      <4>4. task' \in HttpTasks
        BY <4>1, <4>2, <4>3 DEF HttpTasks
      <4>5. /\ task'.step = "done" /\ task'.replies = 1 /\ task'.stale = (task'.kind = "mode")
            /\ task'.block = NoBlock /\ task'.tree = "none"
        BY <1>2, <4>1, <4>3 DEF HttpTasks
      <4>6. task'.stale => task'.kind = "mode"
        BY <4>5
      <4> QED BY <4>4, <4>5, <4>6 DEF Request
    <3> QED BY <2>5, <3>1, <3>2 DEF HttpReplies
  <2>6. CASE HttpReturns
    BY <1>1, <2>6, Requests DEF HttpReturns
  <2>7. CASE HttpLeaves
    BY <1>1, <1>2, <2>7 DEF HttpLeaves
  <2> QED BY <2>1, <2>2, <2>3, <2>4, <2>5, <2>6, <2>7
<1> QED BY <1>1, <1>2, <1>3, <1>4, <1>5, <1>6, StepHttpPlain

\* The task's record when it gains a block, or hands it on.
LEMMA RequestBlock ==
  ASSUME Request(task)
  PROVE  /\ \A b \in Numbers : In("save") =>
              LET t == [task EXCEPT !.step = "send", !.block = b]
              IN  Request(t) /\ t.block = b
         /\ \A b \in Numbers : In("mode") =>
              LET t == [task EXCEPT !.step = "post", !.block = b, !.tree = "none"]
              IN  Request(t) /\ t.block = b
         /\ \A s \in {"notify", "lock"} : In("send") =>
              LET t == [task EXCEPT !.block = NoBlock, !.step = s]
              IN  Request(t) /\ t.block = NoBlock
<1>1. NoBlock \in Numbers /\ {"send", "post", "notify", "lock"} \subseteq HttpSteps
  BY HeapAssumption DEF NoBlock, Numbers, HttpSteps
<1>2. ASSUME NEW b \in Numbers, In("save")
      PROVE  LET t == [task EXCEPT !.step = "send", !.block = b] IN Request(t) /\ t.block = b
  BY <1>1, <1>2 DEF Request, HttpTasks, In
<1>3. ASSUME NEW b \in Numbers, In("mode")
      PROVE  LET t == [task EXCEPT !.step = "post", !.block = b, !.tree = "none"]
             IN  Request(t) /\ t.block = b
  BY <1>1, <1>3 DEF Request, HttpTasks, In
<1>4. ASSUME NEW s \in {"notify", "lock"}, In("send")
      PROVE  LET t == [task EXCEPT !.block = NoBlock, !.step = s]
             IN  Request(t) /\ t.block = NoBlock
  BY <1>1, <1>4 DEF Request, HttpTasks, In
<1> QED BY <1>2, <1>3, <1>4

\* A block moves: from nowhere to the task, from the task to the queue, to
\* the event loop, or back to the heap.
LEMMA StepHttpBlock ==
  ASSUME Inv, UNCHANGED <<appVars, loopVars>>,
         HttpCopies \/ HttpSends \/ HttpPacks \/ HttpPosts
  PROVE  Inv'
<1>1. /\ HeapOK /\ BusOK /\ SrvOK /\ Request(task) /\ Owned
      /\ UNCHANGED <<server, httpd, hooks, served, stuck>> /\ work' = work
  BY DEF Inv, HttpOK, HttpCopies, HttpSends, HttpPacks, HttpPosts, OnlyTask, serverVars, loopVars
<1>2. AppOK' /\ LoopOK'
  BY Stays DEF Inv
<1>3. Request(task') => HttpOK'
  BY <1>1 DEF Inv, HttpOK
<1>4. CASE HttpCopies \/ HttpPacks
  <2>1. UNCHANGED <<busVars, srvVars>> /\ (In("save") \/ In("mode")) /\ task.block = NoBlock
    BY <1>1, <1>4 DEF HttpCopies, HttpPacks, In, Request
  <2>2. BusOK' /\ SrvOK'
    BY <1>1, <2>1, Stays
  <2>3. CASE Allocate /\ Request(task') /\ task'.block = Fresh
    <3>1. Owned'
      BY <1>1, <2>1, <2>3, AllocateEffect, Holders, Entry DEF Owned, Partition, Nz, busVars, srvVars
    <3> QED BY <1>1, <1>2, <1>3, <2>2, <2>3, <3>1, AllocateEffect DEF Inv
  <2>4. CASE UNCHANGED heapVars /\ Request(task') /\ task'.block = NoBlock
    <3>1. Owned'
      BY <1>1, <2>1, <2>4, OwnedKept DEF busVars, srvVars, heapVars
    <3> QED BY <1>1, <1>2, <1>3, <2>2, <2>4, <3>1, Stays DEF Inv
  <2>5. CASE HttpCopies
    BY <1>1, <2>1, <2>3, <2>4, <2>5, Requests, RequestBlock, AllocateEffect DEF HttpCopies, Goto, In
  <2>6. CASE HttpPacks
    BY <1>1, <2>1, <2>3, <2>4, <2>6, Requests, RequestBlock, AllocateEffect DEF HttpPacks, In
  <2> QED BY <1>4, <2>5, <2>6
<1>5. CASE HttpSends
  <2> DEFINE m == Message("STORE", task.block)
  <2>1. task.block \in Numbers /\ In("send") /\ UNCHANGED busVars /\ Send(m)
    BY <1>1, <1>5 DEF HttpSends, Request, HttpTasks
  <2>2. m \in SrvMessages /\ m.block = task.block
    BY <2>1, Entry
  <2> HIDE DEF m
  <2>3. BusOK'
    BY <1>1, <2>1, Stays
  <2>4. Request(task') /\ task'.block = NoBlock
    BY <1>1, <1>5, <2>1, RequestBlock DEF HttpSends
  <2>5. m.block \in heap \cup {NoBlock} /\ m.block \notin Carried(messages)
    BY <1>1, <2>2, Holders
  <2>6. /\ HeapOK' /\ SrvOK' /\ UNCHANGED <<hand, writers>>
        /\ \/ /\ Carried(messages') = Carried(messages) \cup Nz(task.block)
              /\ heap' = heap /\ lost' = lost
           \/ /\ Carried(messages') = Carried(messages)
              /\ heap' = heap \ Nz(task.block) /\ lost' = lost
           \/ /\ Carried(messages') = Carried(messages)
              /\ heap' = heap /\ lost' = lost \cup Nz(task.block)
    BY <1>1, <2>1, <2>2, <2>5, SendEffect
  <2>7. Nz(task'.block) = {} /\ loopq' = loopq
    BY <2>1, <2>4 DEF Nz, busVars
  <2>8. Owned'
    BY <1>1, <2>6, <2>7 DEF Owned, Partition
  <2> QED BY <1>2, <1>3, <2>3, <2>4, <2>6, <2>8 DEF Inv
<1>6. CASE HttpPosts
  <2> DEFINE e == Event("mode", task.block)
  <2>1. task.block \in Numbers /\ In("post") /\ UNCHANGED srvVars /\ Announce(e)
    BY <1>1, <1>6 DEF HttpPosts, Request, HttpTasks
  <2>2. e \in LoopEvents /\ e.block = task.block
    BY <2>1, Entry
  <2>3. IF Posts(e) THEN Answer /\ UNCHANGED heapVars ELSE Refuse /\ Release(task.block)
    BY <1>6 DEF HttpPosts
  <2> HIDE DEF e
  <2>4. SrvOK'
    BY <1>1, <2>1, Stays
  <2>5. Request(task') /\ task'.block = NoBlock
    BY <1>1, <2>1, <2>3, Requests DEF In
  <2>6. e.block \in heap \cup {NoBlock} /\ e.block \notin Carried(loopq)
    BY <1>1, <2>2, Holders
  <2>7. BusOK' /\ Carried(loopq') = IF Posts(e) THEN Carried(loopq) \cup Nz(task.block)
                                   ELSE Carried(loopq)
    BY <1>1, <2>1, <2>2, <2>6, AnnounceEffect
  <2>8. HeapOK' /\ lost' = lost /\ heap' = IF Posts(e) THEN heap ELSE heap \ Nz(task.block)
    BY <1>1, <2>2, <2>3, <2>6, Stays, ReleaseEffect DEF heapVars
  <2>9. Nz(task'.block) = {} /\ UNCHANGED <<messages, hand, writers>>
    BY <2>1, <2>5 DEF Nz, srvVars
  <2>10. Owned'
    BY <1>1, <2>7, <2>8, <2>9 DEF Owned, Partition
  <2> QED BY <1>2, <1>3, <2>4, <2>5, <2>7, <2>8, <2>10 DEF Inv
<1> QED BY <1>4, <1>5, <1>6

-----------------------------------------------------------------------------
(* The event loop.                                                          *)

\* What the loop does next, and the block it holds meanwhile.
LEMMA LoopAtWork ==
  ASSUME LoopOK, UNCHANGED <<pending, radio>>
  PROVE  /\ \A s \in LoopSteps : LoopGoto(s, NoBlock) => LoopOK' /\ work'.block = NoBlock
         /\ \A b \in Numbers : LoopGoto("send", b) => LoopOK' /\ work'.block = b
         /\ work' = NoWork => LoopOK' /\ work'.block = NoBlock
BY HeapAssumption DEF LoopOK, LoopGoto, LoopSteps, Numbers, NoBlock, NoWork

\* The loop takes an event: its block goes to the handler, or is lost.
LEMMA StepLoopTakes ==
  ASSUME Inv, LoopTakes
  PROVE  Inv'
<1> DEFINE e == Head(loopq)
<1>1. /\ HeapOK /\ BusOK /\ SrvOK /\ HttpOK /\ AppOK /\ LoopOK /\ Owned
      /\ Take /\ UNCHANGED <<srvVars, httpVars, appVars, pending, radio>>
      /\ work.step = "idle"
  BY DEF Inv, LoopTakes, OnlyLoop, LoopAt
<1>2. SrvOK' /\ HttpOK' /\ AppOK'
  BY <1>1, Stays
<1>3. /\ loopq # <<>> /\ loopq' = Tail(loopq) /\ loopq \in Seq(LoopEvents) /\ Distinct(loopq)
      /\ UNCHANGED <<loop, created, dispatchers, subscribed>> /\ Len(loopq) <= LoopLen
  BY <1>1 DEF BusOK, Take
<1>4. /\ e \in LoopEvents /\ loopq' \in Seq(LoopEvents) /\ Len(loopq') <= Len(loopq)
      /\ Distinct(loopq') /\ Carried(loopq) = Carried(loopq') \cup Nz(e.block)
      /\ e.block \notin Carried(loopq')
  BY <1>3, TakeHead
<1>5. Len(loopq') <= LoopLen
  BY <1>3, <1>4, BusAssumption
<1>6. BusOK'
  BY <1>1, <1>3, <1>4, <1>5 DEF BusOK
<1>7. /\ e.type \in Types \cup DriverTypes /\ e.block \in Numbers
      /\ e.block # NoBlock => e.type = "mode"
  BY <1>4 DEF LoopEvents
<1>8. /\ Types \cap DriverTypes = {} /\ DriverTypes \subseteq LoopSteps
      /\ {"unpack", "idle"} \subseteq LoopSteps
  BY DEF Types, DriverTypes, LoopSteps
<1>9. /\ work' = IF Handled(e) THEN [step |-> "unpack", block |-> e.block]
                 ELSE IF e.type \in hooks THEN [step |-> e.type, block |-> NoBlock]
                 ELSE NoWork
      /\ IF Touches(e) THEN IF HandlerFreed THEN Misuse("handler") ELSE UNCHANGED heapVars
         ELSE IF Handled(e) THEN UNCHANGED heapVars ELSE Lose({e.block})
  BY DEF LoopTakes
<1>10. Handled(e) => e.type \in Types
  BY <1>1 DEF Handled, BusOK
<1>11. hooks \subseteq DriverTypes
  BY <1>1 DEF HttpOK
<1> HIDE DEF e
<1>12. LoopOK' /\ work'.block = IF Handled(e) THEN e.block ELSE NoBlock
  <2>1. LoopOK /\ UNCHANGED <<pending, radio>>
    BY <1>1
  <2>2. CASE Handled(e)
    BY <1>7, <1>8, <1>9, <2>1, <2>2 DEF LoopOK
  <2>3. CASE ~Handled(e) /\ e.type \in hooks
    BY <1>8, <1>9, <1>11, <2>1, <2>3, HeapAssumption DEF LoopOK, Numbers, NoBlock
  <2>4. CASE ~Handled(e) /\ e.type \notin hooks
    BY <1>9, <2>1, <2>4, LoopAtWork
  <2> QED BY <2>2, <2>3, <2>4
<1>13. e.block \in heap \cup {NoBlock} /\ Nz(e.block) \subseteq heap
  <2>1. Nz(e.block) \subseteq heap
    BY <1>1, <1>4, Holders
  <2> QED BY <2>1 DEF Nz
<1>14. /\ HeapOK' /\ heap' = heap
       /\ lost' = IF Touches(e) \/ Handled(e) THEN lost ELSE lost \cup Nz(e.block)
  BY <1>1, <1>9, <1>13, Stays, MisuseEffect, LoseEffect DEF heapVars, Nz
<1>15. Touches(e) => Nz(e.block) = {} /\ ~Handled(e)
  BY <1>7, <1>8, <1>10 DEF Touches, Types, DriverTypes, Nz
<1>16. Nz(work'.block) = (IF Handled(e) THEN Nz(e.block) ELSE {}) /\ Nz(work.block) = {}
  BY <1>1, <1>12 DEF LoopOK, Nz
<1>17. Nz(e.block) \cap Carried(loopq') = {}
  BY <1>4 DEF Nz
<1>18. UNCHANGED <<task, hand, writers, messages>>
  BY <1>1 DEF srvVars, httpVars
<1>19. Owned'
  <2>1. Partition(heap \ lost, Nz(task.block), {}, Nz(hand.block), writers \ {NoBlock},
                  Carried(loopq') \cup Nz(e.block), Carried(messages))
    BY <1>1, <1>4, <1>16 DEF Owned
  <2>2. CASE Handled(e)
    BY <1>14, <1>16, <1>17, <1>18, <2>1, <2>2 DEF Owned, Partition
  <2>3. CASE ~Handled(e)
    <3>1. heap' = heap /\ lost' = lost \cup Nz(e.block) /\ Nz(work'.block) = {}
      BY <1>14, <1>15, <1>16, <2>3
    <3> HIDE DEF Nz
    <3> QED BY <1>17, <1>18, <2>1, <3>1 DEF Owned, Partition
  <2> QED BY <2>2, <2>3
<1> QED BY <1>2, <1>6, <1>12, <1>14, <1>19 DEF Inv

\* The loop's other steps leave the events alone.
LEMMA StepLoopOther ==
  ASSUME Inv,
         \/ LoopUnpacks \/ LoopCopies \/ LoopSends \/ LoopSwitches
         \/ LoopPosts \/ LoopStarts \/ LoopStops \/ LoopStopped
  PROVE  Inv'
<1>1. /\ HeapOK /\ BusOK /\ SrvOK /\ HttpOK /\ AppOK /\ LoopOK /\ Owned
      /\ UNCHANGED <<busVars, appVars, pending, radio>>
  BY DEF Inv, LoopUnpacks, LoopCopies, LoopSends, LoopSwitches, LoopPosts, LoopStarts, LoopStops,
     LoopStopped, OnlyLoop
<1>2. BusOK' /\ AppOK' /\ loopq' = loopq
  BY <1>1, Stays DEF busVars
<1>3. {"idle", "copy", "switch", "post", "undo", "wait"} \subseteq LoopSteps
  BY DEF LoopSteps
<1>4. work.block # NoBlock => work.step \in {"unpack", "send"}
  BY <1>1 DEF LoopOK
<1>5. work.block \in heap \cup {NoBlock} /\ work.block \in Numbers
      /\ work.block \notin Carried(messages)
  BY <1>1, Holders DEF LoopOK
<1>6. CASE LoopUnpacks
  <2>1. LoopOK' /\ work'.block = NoBlock
    BY <1>1, <1>3, <1>6, LoopAtWork DEF LoopUnpacks
  <2>2. HeapOK' /\ heap' = heap \ Nz(work.block) /\ lost' = lost
    BY <1>1, <1>5, <1>6, ReleaseEffect DEF LoopUnpacks
  <2>3. SrvOK' /\ HttpOK' /\ UNCHANGED <<task, hand, writers, messages>>
    BY <1>1, <1>6, Stays DEF LoopUnpacks, srvVars, httpVars
  <2>4. Nz(work'.block) = {}
    BY <2>1 DEF Nz
  <2>5. Owned'
    BY <1>1, <1>2, <2>2, <2>3, <2>4 DEF Owned, Partition
  <2> QED BY <1>2, <2>1, <2>2, <2>3, <2>5 DEF Inv
<1>7. CASE LoopCopies
  <2>1. SrvOK' /\ HttpOK' /\ UNCHANGED <<task, hand, writers, messages>>
    BY <1>1, <1>7, Stays DEF LoopCopies, srvVars, httpVars
  <2>2. Nz(work.block) = {}
    BY <1>4, <1>7 DEF LoopCopies, LoopAt, Nz
  <2>3. CASE Allocate /\ LoopGoto("send", Fresh)
    <3>1. /\ HeapOK' /\ Fresh \in Numbers \ {NoBlock} /\ Fresh \notin heap \cup lost
          /\ heap' = heap \cup {Fresh} /\ lost' = lost
      BY <1>1, <2>3, AllocateEffect
    <3>2. LoopOK' /\ work'.block = Fresh
      BY <1>1, <2>3, <3>1, LoopAtWork
    <3>3. Nz(work'.block) = {Fresh}
      BY <3>1, <3>2 DEF Nz
    <3>4. Owned'
      BY <1>1, <1>2, <2>1, <2>2, <3>1, <3>3 DEF Owned, Partition
    <3> QED BY <1>2, <2>1, <3>1, <3>2, <3>4 DEF Inv
  <2>4. CASE LoopGoto("switch", NoBlock) /\ UNCHANGED heapVars
    <3>1. LoopOK' /\ work'.block = NoBlock /\ HeapOK'
      BY <1>1, <1>3, <2>4, LoopAtWork, Stays
    <3>2. Owned'
      BY <1>1, <1>2, <2>1, <2>2, <2>4, <3>1, Entry, OwnedKept DEF heapVars
    <3> QED BY <1>2, <2>1, <3>1, <3>2 DEF Inv
  <2> QED BY <1>7, <2>3, <2>4 DEF LoopCopies
<1>8. CASE LoopSends \/ LoopPosts
  <2>1. PICK m \in SrvMessages : Send(m) /\ m.block = work.block
    <3>1. CASE LoopSends
      BY <1>5, <3>1, Entry DEF LoopSends
    <3>2. CASE LoopPosts
      <4>1. work.block = NoBlock
        BY <1>4, <3>2 DEF LoopPosts, LoopAt
      <4> QED BY <3>2, <4>1, Entry DEF LoopPosts
    <3> QED BY <1>8, <3>1, <3>2
  <2>2. LoopOK' /\ work'.block = NoBlock
    BY <1>1, <1>3, <1>8, LoopAtWork DEF LoopSends, LoopPosts
  <2>3. HttpOK' /\ task' = task
    BY <1>1, <1>8, Stays DEF LoopSends, LoopPosts, httpVars
  <2>4. /\ HeapOK' /\ SrvOK' /\ UNCHANGED <<hand, writers>>
        /\ \/ /\ Carried(messages') = Carried(messages) \cup Nz(work.block)
              /\ heap' = heap /\ lost' = lost
           \/ /\ Carried(messages') = Carried(messages)
              /\ heap' = heap \ Nz(work.block) /\ lost' = lost
           \/ /\ Carried(messages') = Carried(messages)
              /\ heap' = heap /\ lost' = lost \cup Nz(work.block)
    BY <1>1, <1>5, <2>1, SendEffect
  <2>5. Nz(work'.block) = {}
    BY <2>2 DEF Nz
  <2>6. Owned'
    BY <1>1, <1>2, <2>3, <2>4, <2>5 DEF Owned, Partition
  <2> QED BY <1>2, <2>2, <2>3, <2>4, <2>6 DEF Inv
<1>9. CASE LoopSwitches \/ LoopStarts \/ LoopStops \/ LoopStopped
  <2>1. UNCHANGED srvVars /\ work.block = NoBlock
    BY <1>4, <1>9 DEF LoopSwitches, LoopStarts, LoopStops, LoopStopped, LoopAt
  <2>2. LoopOK' /\ work'.block = NoBlock
    BY <1>1, <1>3, <1>9, LoopAtWork DEF LoopSwitches, LoopStarts, LoopStops, LoopStopped
  <2>3. HeapOK' /\ heap' = heap /\ lost' = lost
    BY <1>1, <1>9, Stays, MisuseEffect DEF LoopSwitches, LoopStarts, LoopStops, LoopStopped, heapVars
  <2>4. UNCHANGED <<hooks, task, served>> /\ server' \in BOOLEAN
        /\ httpd' \in {"down", "up", "closing"} /\ stuck' \in BOOLEAN
    <3>1. CASE LoopSwitches \/ LoopStopped
      BY <1>1, <3>1 DEF HttpOK, LoopSwitches, LoopStopped, StopReturned, httpVars
    <3>2. CASE LoopStarts
      BY <1>1, <3>2 DEF HttpOK, LoopStarts, ServerStart
    <3>3. CASE LoopStops
      <4>1. StopCalled \/ StopFails(LoopAt("STOP")) \/ UNCHANGED httpVars
        BY <3>3 DEF LoopStops
      <4>2. LoopAt("STOP") \in BOOLEAN
        BY DEF LoopAt
      <4> QED BY <1>1, <4>1, <4>2 DEF HttpOK, StopCalled, StopFails, httpVars
    <3> QED BY <1>9, <3>1, <3>2, <3>3
  <2>5. HttpOK'
    BY <1>1, <2>4 DEF HttpOK
  <2>6. SrvOK' /\ UNCHANGED <<hand, writers, messages>>
    BY <1>1, <2>1, Stays DEF srvVars
  <2>7. Owned'
    BY <1>1, <1>2, <2>1, <2>2, <2>3, <2>4, <2>6, OwnedKept
  <2> QED BY <1>2, <2>2, <2>3, <2>5, <2>6, <2>7 DEF Inv
<1> QED BY <1>6, <1>7, <1>8, <1>9

-----------------------------------------------------------------------------
(* The service, its flash tasks, and the driver.                            *)

\* Turns behind turns.
LEMMA TurnsBehind ==
  /\ \A d \in Turns : <<d>> \in Seq(Turns) /\ Len(<<d>>) = 1
  /\ \A d, f \in Turns : <<d, f>> \in Seq(Turns) /\ Len(<<d, f>>) = 2
  /\ <<>> \in Seq(Turns) /\ Len(<<>>) = 0
  /\ \A p, q \in Seq(Turns) : p \o q \in Seq(Turns) /\ Len(p \o q) = Len(p) + Len(q)
  /\ "START" \in Turns /\ "STOP" \in Turns /\ "end" \in Turns
<1>1. "START" \in Turns /\ "STOP" \in Turns /\ "end" \in Turns
  BY DEF Turns, DriverTypes
<1>2. /\ \A d \in Turns : <<d>> \in Seq(Turns) /\ Len(<<d>>) = 1
      /\ \A d, f \in Turns : <<d, f>> \in Seq(Turns) /\ Len(<<d, f>>) = 2
  OBVIOUS
<1>3. \A p, q \in Seq(Turns) : p \o q \in Seq(Turns) /\ Len(p \o q) = Len(p) + Len(q)
  OBVIOUS
<1>4. <<>> \in Seq(Turns) /\ Len(<<>>) = 0
  OBVIOUS
<1> QED BY <1>1, <1>2, <1>3, <1>4, Zenon

\* What the driver has to do behind START and STOP.
LEMMA ServiceRuns ==
  ASSUME LoopOK, SvcStart \/ SvcStop
  PROVE  pending' \in Seq(Turns) /\ Len(pending') <= 2
<1> DEFINE Short(p, n) == p \in Seq(Turns) /\ Len(p) <= n
<1>1. ASSUME NEW p, NEW q, NEW m \in {0, 1, 2}, Short(p, m), Short(q, 2 - m)
      PROVE  p \o q \in Seq(Turns) /\ Len(p \o q) <= 2
  <2>1. Len(p) \in Nat /\ Len(q) \in Nat
    BY <1>1
  <2> QED BY <1>1, <2>1, TurnsBehind
<1> HIDE DEF Short
<1>2. /\ \A d \in Turns : Short(<<d>>, 1) /\ Short(<<d>>, 2)
      /\ \A d, f \in Turns : Short(<<d, f>>, 2)
      /\ \A n \in {0, 1, 2} : Short(<<>>, n)
  <2>1. ASSUME NEW d \in Turns PROVE Short(<<d>>, 1) /\ Short(<<d>>, 2)
    BY <2>1, TurnsBehind DEF Short
  <2>2. ASSUME NEW d \in Turns, NEW f \in Turns PROVE Short(<<d, f>>, 2)
    BY TurnsBehind DEF Short
  <2>3. ASSUME NEW n \in {0, 1, 2} PROVE Short(<<>>, n)
    BY TurnsBehind DEF Short
  <2> QED BY <2>1, <2>2, <2>3
<1>3. /\ Short(<<"STOP">>, 1) /\ Short(<<"end">>, 1) /\ Short(<<"START">>, 1)
      /\ Short(<<"end">>, 2) /\ Short(<<"START">>, 2)
      /\ Short(<<"STOP", "START">>, 2) /\ Short(<<"STOP", "end">>, 2)
      /\ Short(<<>>, 0) /\ Short(<<>>, 1) /\ Short(<<>>, 2)
  BY <1>2, TurnsBehind, Zenon
<1>4. CASE SvcStart
  <2>1. PICK run \in Runs : pending' = pending \o run
    BY <1>4 DEF SvcStart
  <2>2. ~Running => run \in {<<>>, <<"end">>, Run("START"), Run("end")}
    BY <2>1 DEF Runs
  <2>3. CASE Running
    <3>1. run = <<>>
      BY <2>1, <2>3 DEF Runs
    <3> QED BY <2>1, <3>1 DEF LoopOK
  <2>4. CASE pending = <<>>
    <3>1. Run("START") \in {<<"START">>, <<"STOP", "START">>} /\ Run("end") \in {<<"end">>, <<"STOP", "end">>}
      BY DEF Run
    <3>2. Short(run, 2) /\ Short(pending, 0)
      BY <1>3, <2>2, <2>4, <3>1, Zenon DEF Running
    <3> QED BY <1>1, <2>1, <3>2 DEF Short
  <2>5. CASE pending = <<"STOP">>
    <3>1. Run("START") = <<"START">> /\ Run("end") = <<"end">>
      BY <2>5 DEF Run
    <3>2. run \in {<<>>, <<"end">>, <<"START">>}
      <4>1. ~Running
        BY <2>5 DEF Running
      <4> QED BY <2>2, <3>1, <4>1, Zenon
    <3>3. Short(run, 1) /\ Short(pending, 1)
      BY <1>3, <2>5, <3>2, Zenon
    <3> QED BY <1>1, <2>1, <3>3 DEF Short
  <2> QED BY <2>3, <2>4, <2>5 DEF Running
<1>5. CASE SvcStop
  <2>1. CASE pending' = pending
    BY <2>1 DEF LoopOK
  <2>2. CASE pending \in {<<>>, <<"end">>} /\ pending' = <<"STOP">> \o pending
    <3>1. Short(<<"STOP">>, 1) /\ Short(pending, 1)
      BY <1>3, <2>2, Zenon
    <3> QED BY <1>1, <2>2, <3>1 DEF Short
  <2> QED BY <1>5, <2>1, <2>2 DEF SvcStop
<1> QED BY <1>4, <1>5

\* The service takes a message, and is done with START and STOP.
LEMMA StepService ==
  ASSUME Inv, ServiceWorks
  PROVE  Inv'
<1>1. /\ HeapOK /\ BusOK /\ SrvOK /\ HttpOK /\ AppOK /\ LoopOK /\ Owned
      /\ UNCHANGED <<busVars, httpVars, appVars, work, radio>>
  BY DEF Inv, ServiceWorks, SvcStart, SvcStop, loopVars
<1>2. BusOK' /\ HttpOK' /\ AppOK' /\ UNCHANGED <<loopq, task>>
  BY <1>1, Stays DEF busVars, httpVars
<1>3. NoMessage.block = NoBlock /\ Nz(NoBlock) = {}
  BY DEF NoMessage, Message, Nz
<1>4. LoopOK'
  <2>1. pending' \in Seq(Turns) /\ Len(pending') <= 2
    BY <1>1, ServiceRuns DEF ServiceWorks, loopVars, LoopOK
  <2> QED BY <1>1, <2>1 DEF LoopOK
<1>5. CASE SvcReceive
  <2>1. /\ hand = NoMessage /\ messages # <<>> /\ hand' = Head(messages)
        /\ messages' = Tail(messages) /\ UNCHANGED heapVars
        /\ UNCHANGED <<open, alive, writers, lock, restoring, handler>>
    BY <1>5 DEF SvcReceive
  <2>2. messages \in Seq(SrvMessages) /\ Distinct(messages) /\ Len(messages) <= QueueLen
    BY <1>1 DEF SrvOK
  <2>3. /\ hand' \in SrvMessages /\ messages' \in Seq(SrvMessages)
        /\ Len(messages') <= Len(messages) /\ Distinct(messages')
        /\ Carried(messages) = Carried(messages') \cup Nz(hand'.block)
        /\ hand'.block \notin Carried(messages')
    BY <2>1, <2>2, TakeHead
  <2>4. Len(messages') <= QueueLen
    BY <2>2, <2>3, ServiceAssumption
  <2>5. SrvOK'
    BY <1>1, <2>1, <2>3, <2>4 DEF SrvOK
  <2>6. HeapOK' /\ UNCHANGED <<heap, lost>>
    BY <1>1, <2>1, Stays DEF heapVars
  <2>7. Nz(hand.block) = {} /\ Nz(hand'.block) \cap Carried(messages') = {}
    BY <1>3, <2>1, <2>3 DEF Nz
  <2>8. Owned'
    BY <1>1, <1>2, <2>1, <2>3, <2>6, <2>7 DEF Owned, Partition
  <2> QED BY <1>2, <1>4, <2>5, <2>6, <2>8 DEF Inv
<1>6. CASE SvcFlash
  <2>1. /\ hand' = NoMessage /\ UNCHANGED <<open, messages, alive, lock, restoring, handler>>
        /\ \/ writers' = writers \cup {hand.block} /\ UNCHANGED heapVars
           \/ Release(hand.block) /\ UNCHANGED writers
    BY <1>6 DEF SvcFlash
  <2>2. hand.block \in heap \cup {NoBlock} /\ hand.block \in Numbers
    <3>1. NoBlock \in Numbers
      BY Entry
    <3> QED BY <1>1, <1>3, <3>1, Holders DEF SrvOK, SrvMessages
  <2>3. SrvOK'
    BY <1>1, <2>1, <2>2 DEF SrvOK
  <2>4. Nz(hand'.block) = {}
    BY <1>3, <2>1
  <2>5. CASE writers' = writers \cup {hand.block} /\ UNCHANGED heapVars
    <3>1. writers' \ {NoBlock} = (writers \ {NoBlock}) \cup Nz(hand.block)
      BY <2>5 DEF Nz
    <3>2. HeapOK' /\ UNCHANGED <<heap, lost>>
      BY <1>1, <2>5, Stays DEF heapVars
    <3>3. Owned'
      BY <1>1, <1>2, <2>1, <2>4, <3>1, <3>2 DEF Owned, Partition
    <3> QED BY <1>2, <1>4, <2>3, <3>2, <3>3 DEF Inv
  <2>6. CASE Release(hand.block) /\ UNCHANGED writers
    <3>1. HeapOK' /\ heap' = heap \ Nz(hand.block) /\ lost' = lost
      BY <1>1, <2>2, <2>6, ReleaseEffect
    <3>2. Owned'
      BY <1>1, <1>2, <2>1, <2>4, <2>6, <3>1 DEF Owned, Partition
    <3> QED BY <1>2, <1>4, <2>3, <3>1, <3>2 DEF Inv
  <2> QED BY <2>1, <2>5, <2>6
<1>7. CASE SvcStart \/ SvcStop
  <2>1. /\ hand' = NoMessage /\ UNCHANGED heapVars /\ hand.event \in {"START", "STOP"}
        /\ UNCHANGED <<open, messages, alive, writers, lock, restoring, handler>>
    BY <1>7 DEF SvcStart, SvcStop
  <2>2. hand.block = NoBlock
    BY <1>1, <2>1 DEF SrvOK, SrvMessages, NoMessage, Message
  <2>3. SrvOK' /\ HeapOK'
    <3>1. SrvOK'
      BY <1>1, <2>1 DEF SrvOK
    <3> QED BY <1>1, <2>1, <3>1, Stays
  <2>4. Owned'
    BY <1>1, <1>2, <1>3, <2>1, <2>2, OwnedKept DEF heapVars
  <2> QED BY <1>2, <1>4, <2>3, <2>4 DEF Inv
<1> QED BY <1>5, <1>6, <1>7 DEF ServiceWorks

\* A flash task works and releases its block.
LEMMA StepFlash ==
  ASSUME Inv, FlashWorks
  PROVE  Inv'
<1>1. /\ HeapOK /\ BusOK /\ SrvOK /\ HttpOK /\ AppOK /\ LoopOK /\ Owned
      /\ UNCHANGED <<busVars, httpVars, appVars, loopVars>>
  BY DEF Inv, FlashWorks
<1>2. BusOK' /\ HttpOK' /\ AppOK' /\ LoopOK' /\ UNCHANGED <<loopq, task, work>>
  BY <1>1, Stays DEF busVars, httpVars, loopVars
<1>3. CASE FlashEnds
  <2>1. PICK b \in writers :
          /\ IF b = NoBlock /\ handler = "freed" THEN Misuse("handler") ELSE Release(b)
          /\ writers' = writers \ {b}
    BY <1>3 DEF FlashEnds
  <2>2. /\ lock' = "none" /\ UNCHANGED <<open, messages, alive, hand, handler>>
        /\ restoring' \in BOOLEAN
    BY <1>1, <1>3 DEF FlashEnds, SrvOK
  <2>3. b \in heap \cup {NoBlock}
    BY <1>1, Holders
  <2>4. HeapOK' /\ heap' = heap \ Nz(b) /\ lost' = lost
    <3>1. Nz(NoBlock) = {}
      BY Entry
    <3> QED BY <1>1, <2>1, <2>3, <3>1, ReleaseEffect, MisuseEffect
  <2>5. SrvOK'
    BY <1>1, <2>1, <2>2 DEF SrvOK
  <2>6. writers' \ {NoBlock} = (writers \ {NoBlock}) \ Nz(b) /\ Nz(b) \subseteq writers \ {NoBlock}
    BY <2>1 DEF Nz
  <2>7. Owned'
    BY <1>1, <1>2, <2>2, <2>4, <2>6 DEF Owned, Partition
  <2> QED BY <1>2, <2>4, <2>5, <2>7 DEF Inv
<1>4. CASE FlashTakes \/ Restore
  <2>1. /\ UNCHANGED <<open, messages, alive, hand, writers, handler>>
        /\ lock' \in {"none", "flash", "http"} /\ restoring' \in BOOLEAN
    BY <1>1, <1>4 DEF FlashTakes, Restore, SrvOK
  <2>2. SrvOK'
    BY <1>1, <2>1 DEF SrvOK
  <2>3. HeapOK' /\ UNCHANGED <<heap, lost>>
    BY <1>1, <1>4, Stays, MisuseEffect DEF FlashTakes, Restore, heapVars
  <2>4. Owned'
    BY <1>1, <1>2, <2>1, <2>3, OwnedKept
  <2> QED BY <1>2, <2>2, <2>3, <2>4 DEF Inv
<1> QED BY <1>3, <1>4 DEF FlashWorks

\* The driver posts its events.
LEMMA StepDriver ==
  ASSUME Inv, DriverEmits
  PROVE  Inv'
<1> DEFINE e == Event(Head(pending), NoBlock)
<1>1. /\ HeapOK /\ BusOK /\ SrvOK /\ HttpOK /\ AppOK /\ LoopOK /\ Owned
      /\ UNCHANGED <<srvVars, httpVars, appVars, work>>
      /\ pending # <<>> /\ pending' = Tail(pending)
      /\ \/ UNCHANGED <<busVars, radio>>
         \/ /\ Head(pending) # "end" /\ radio' = (Head(pending) = "START")
            /\ IF loop THEN Posts(e) /\ Enqueue(e) ELSE UNCHANGED busVars
      /\ IF HandlerFreed THEN Misuse("handler") ELSE UNCHANGED heapVars
  BY DEF Inv, DriverEmits
<1>2. SrvOK' /\ HttpOK' /\ AppOK' /\ UNCHANGED <<task, hand, writers, messages>>
  BY <1>1, Stays DEF srvVars, httpVars
<1>3. Head(pending) \in Turns /\ pending' \in Seq(Turns) /\ Len(pending') <= 2
  BY <1>1 DEF LoopOK
<1>4. LoopOK'
  BY <1>1, <1>3 DEF LoopOK
<1>5. HeapOK' /\ UNCHANGED <<heap, lost>>
  BY <1>1, Stays, MisuseEffect DEF heapVars
<1>6. BusOK' /\ Carried(loopq') = Carried(loopq)
  <2>1. CASE UNCHANGED busVars
    BY <1>1, <2>1, Stays DEF busVars
  <2>2. CASE ~UNCHANGED busVars
    <3>1. Head(pending) \in DriverTypes
      BY <1>1, <1>3, <2>2 DEF Turns
    <3>2. e \in LoopEvents /\ e.block = NoBlock /\ Nz(NoBlock) = {} /\ e.block \notin Carried(loopq)
      BY <1>1, <3>1, Entry, Holders
    <3> HIDE DEF e
    <3> QED BY <1>1, <2>2, <3>2, EnqueueEffect
  <2> QED BY <2>1, <2>2
<1>7. Owned'
  BY <1>1, <1>2, <1>5, <1>6, OwnedKept
<1> QED BY <1>2, <1>4, <1>5, <1>6, <1>7 DEF Inv

-----------------------------------------------------------------------------
(* Boot and shutdown.                                                       *)

\* app_main, or the task that shuts down, goes from step to step.
LEMMA AppMoves ==
  ASSUME AppOK
  PROVE  /\ \A s \in AppSteps : AppGoto(s) => AppOK'
         /\ \A c \in Calls : \A s \in AppSteps : Begin(c, s) => AppOK'
BY DEF AppOK, AppGoto, Begin

\* The steps of app_main.
LEMMA BootSteps ==
  /\ \A i \in 1 .. 9 : Boot[i] \in AppSteps
  /\ \A i \in 1 .. 9 : Boot[i] \in {"nvs", "storage", "manager"} => Boot[i + 1] \in AppSteps
  /\ {"storage", "start", "http", "mode", "load", "up", "failed", "close", "closing", "unhook",
      "stop", "drain", "delete", "free", "clear"} \subseteq AppSteps
  /\ DOMAIN Boot = 1 .. 9
<1>1. /\ Boot[1] = "nvs" /\ Boot[2] = "bus" /\ Boot[3] = "storage" /\ Boot[4] = "manager"
      /\ Boot[5] = "service" /\ Boot[6] = "start" /\ Boot[7] = "http" /\ Boot[8] = "mode"
      /\ Boot[9] = "load" /\ DOMAIN Boot = 1 .. 9
  BY DEF Boot
<1>2. \A i \in 1 .. 9 : Boot[i] \in AppSteps
  BY <1>1 DEF AppSteps
<1>3. \A i \in 1 .. 9 : i + 1 \in 1 .. 9 \/ i = 9
  OBVIOUS
<1>4. \A i \in 1 .. 9 : Boot[i] \in {"nvs", "storage", "manager"} => Boot[i + 1] \in AppSteps
  BY <1>1, <1>2, <1>3
<1>5. {"storage", "start", "http", "mode", "load"} \subseteq AppSteps
  <2>1. {1, 3, 6, 7, 8, 9} \subseteq 1 .. 9
    OBVIOUS
  <2> QED BY <1>1, <1>2, <2>1
<1> QED BY <1>1, <1>2, <1>4, <1>5 DEF AppSteps

\* The parts are brought up; no block is touched but by a full queue.
LEMMA StepBoots ==
  ASSUME Inv, AppBoots
  PROVE  Inv'
<1>1. /\ HeapOK /\ BusOK /\ SrvOK /\ HttpOK /\ AppOK /\ LoopOK /\ Owned
      /\ UNCHANGED loopVars
  BY DEF Inv, AppBoots, BootBus, BootAllocates, BootService, BootStart, BootHttp, BootPosts
<1>2. LoopOK' /\ work' = work
  BY <1>1, Stays DEF loopVars
<1>3. AppOK'
  <2>1. \E s \in AppSteps : AppGoto(s)
    <3>1. CASE BootAllocates
      BY <3>1, BootSteps DEF BootAllocates
    <3>2. CASE ~BootAllocates
      BY <3>2, BootSteps DEF AppBoots, BootBus, BootService, BootStart, BootHttp, BootPosts
    <3> QED BY <3>1, <3>2
  <2> QED BY <1>1, <2>1, AppMoves
<1>4. CASE BootBus
  <2>1. /\ UNCHANGED <<heapVars, srvVars, httpVars, subscribed, loopq>>
        /\ loop' \in BOOLEAN /\ created' \in BOOLEAN
        /\ dispatchers' \in {dispatchers, dispatchers \cup {"WIFI"}, Bases}
    BY <1>1, <1>4 DEF BusOK, BootBus, BusInit
  <2>2. BusOK'
    BY <1>1, <2>1 DEF BusOK, Bases, Distinct
  <2>3. HeapOK' /\ SrvOK' /\ HttpOK'
    BY <1>1, <2>1, Stays
  <2>4. Owned'
    BY <1>1, <1>2, <2>1, OwnedKept DEF heapVars, srvVars, httpVars
  <2> QED BY <1>2, <1>3, <2>2, <2>3, <2>4 DEF Inv
<1>5. CASE BootAllocates \/ BootService \/ BootStart
  <2>1. UNCHANGED <<heapVars, httpVars, loopq>> /\ UNCHANGED <<messages, hand, writers>>
    BY <1>5 DEF BootAllocates, BootService, BootStart, busVars, srvVars, Subscribe, SrvInit, SrvStart
  <2>2. BusOK'
    <3>1. UNCHANGED busVars \/ Subscribe("mode")
      BY <1>5 DEF BootAllocates, BootService, BootStart
    <3>2. CASE Subscribe("mode")
      BY <1>1, <3>2 DEF BusOK, Subscribe, Types
    <3> QED BY <1>1, <3>1, <3>2, Stays
  <2>3. SrvOK'
    <3>1. UNCHANGED srvVars \/ SrvInit("live") \/ SrvInit("none") \/ SrvStart
      BY <1>5 DEF BootAllocates, BootService, BootStart
    <3>2. CASE SrvInit("live") \/ SrvInit("none") \/ SrvStart
      BY <1>1, <3>2 DEF SrvOK, SrvInit, SrvStart
    <3> QED BY <1>1, <3>1, <3>2, Stays
  <2>4. HeapOK' /\ HttpOK' /\ UNCHANGED <<heap, lost, task>>
    BY <1>1, <2>1, Stays DEF heapVars, httpVars
  <2>5. Owned'
    BY <1>1, <1>2, <2>1, <2>4, OwnedKept
  <2> QED BY <1>2, <1>3, <2>2, <2>3, <2>4, <2>5 DEF Inv
<1>6. CASE BootHttp
  <2>1. /\ UNCHANGED <<heapVars, busVars, srvVars>>
        /\ UNCHANGED <<server, httpd, task, served, stuck>> /\ hooks' \subseteq DriverTypes
    BY <1>6 DEF BootHttp, ServerInit, DriverTypes
  <2>2. HttpOK'
    BY <1>1, <2>1 DEF HttpOK
  <2>3. HeapOK' /\ BusOK' /\ SrvOK'
    BY <1>1, <2>1, Stays
  <2>4. Owned'
    BY <1>1, <1>2, <2>1, OwnedKept DEF heapVars, busVars, srvVars
  <2> QED BY <1>2, <1>3, <2>2, <2>3, <2>4 DEF Inv
<1>7. CASE BootPosts
  <2>1. PICK m \in SrvMessages : Send(m) /\ m.block = NoBlock
    BY <1>7, Entry DEF BootPosts
  <2>2. UNCHANGED <<busVars, httpVars>>
    BY <1>7 DEF BootPosts
  <2>3. BusOK' /\ HttpOK' /\ UNCHANGED <<loopq, task>>
    BY <1>1, <2>2, Stays DEF busVars, httpVars
  <2>4. /\ HeapOK' /\ SrvOK' /\ UNCHANGED <<hand, writers>>
        /\ Carried(messages') = Carried(messages) /\ heap' = heap /\ lost' = lost
    <3>1. m.block \notin Carried(messages) /\ Nz(m.block) = {}
      BY <2>1, Entry DEF Carried
    <3> QED BY <1>1, <2>1, <3>1, SendEffect
  <2>5. Owned'
    BY <1>1, <1>2, <2>3, <2>4, OwnedKept
  <2> QED BY <1>2, <1>3, <2>3, <2>4, <2>5 DEF Inv
<1> QED BY <1>4, <1>5, <1>6, <1>7 DEF AppBoots

\* The radio and the server are taken down.
LEMMA StepShutsPlain ==
  ASSUME Inv, ShutRadio \/ ShutHttp
  PROVE  Inv'
<1>1. /\ HeapOK /\ BusOK /\ SrvOK /\ HttpOK /\ AppOK /\ LoopOK /\ Owned
      /\ UNCHANGED <<busVars, loopVars>>
  BY DEF Inv, ShutRadio, ShutHttp
<1>2. BusOK' /\ LoopOK' /\ UNCHANGED <<loopq, work>>
  BY <1>1, Stays DEF busVars, loopVars
<1>3. AppOK'
  <2>1. /\ {"up", "closing", "unhook"} \subseteq AppSteps /\ {"radio", "http"} \subseteq Calls
    BY BootSteps DEF Calls
  <2>2. \/ \E s \in AppSteps : AppGoto(s)
        \/ \E c \in Calls : \E s \in AppSteps : Begin(c, s)
    BY <2>1 DEF ShutRadio, ShutHttp
  <2> QED BY <1>1, <2>2, AppMoves
<1>4. CASE ShutRadio
  <2>1. HttpOK' /\ task' = task
    BY <1>1, <1>4, Stays DEF ShutRadio, httpVars
  <2>2. /\ HeapOK' /\ SrvOK' /\ UNCHANGED <<hand, writers>>
        /\ Carried(messages') = Carried(messages) /\ heap' = heap /\ lost' = lost
    <3>1. CASE open
      <4>1. PICK m \in SrvMessages : Send(m) /\ m.block = NoBlock
        BY <1>4, <3>1, Entry DEF ShutRadio
      <4>2. m.block \notin Carried(messages) /\ Nz(m.block) = {}
        BY <4>1, Entry DEF Carried
      <4> QED BY <1>1, <4>1, <4>2, SendEffect
    <3>2. CASE ~open
      BY <1>1, <1>4, <3>2, Stays DEF ShutRadio, heapVars, srvVars
    <3> QED BY <3>1, <3>2
  <2>3. Owned'
    BY <1>1, <1>2, <2>1, <2>2, OwnedKept
  <2> QED BY <1>2, <1>3, <2>1, <2>2, <2>3 DEF Inv
<1>5. CASE ShutHttp
  <2>1. SrvOK' /\ UNCHANGED <<hand, writers, messages>>
    BY <1>1, <1>5, Stays DEF ShutHttp, srvVars
  <2>2. HeapOK' /\ UNCHANGED <<heap, lost>>
    BY <1>1, <1>5, Stays, MisuseEffect DEF ShutHttp, heapVars
  <2>3. /\ UNCHANGED <<task, served>> /\ server' \in BOOLEAN
        /\ httpd' \in {"down", "up", "closing"} /\ hooks' \subseteq DriverTypes /\ stuck' \in BOOLEAN
    BY <1>1, <1>5 DEF HttpOK, ShutHttp, StopCalled, StopFails, StopReturned, Unhook, httpVars
  <2>4. HttpOK'
    BY <1>1, <2>3 DEF HttpOK
  <2>5. Owned'
    BY <1>1, <1>2, <2>1, <2>2, <2>3, OwnedKept
  <2> QED BY <1>2, <1>3, <2>1, <2>2, <2>4, <2>5 DEF Inv
<1> QED BY <1>4, <1>5

\* The service is taken down: the message in the task's hand and those sent
\* after the queue was drained are lost with it.
LEMMA StepShutsService ==
  ASSUME Inv, ShutService
  PROVE  Inv'
<1>1. /\ HeapOK /\ BusOK /\ SrvOK /\ HttpOK /\ AppOK /\ LoopOK /\ Owned
      /\ UNCHANGED <<httpVars, loopVars>>
  BY DEF Inv, ShutService
<1>2. HttpOK' /\ LoopOK' /\ UNCHANGED <<task, work>>
  BY <1>1, Stays DEF httpVars, loopVars
<1>3. AppOK'
  <2>1. /\ {"up", "stop", "drain", "delete", "free", "clear"} \subseteq AppSteps /\ "service" \in Calls
    BY BootSteps DEF Calls
  <2>2. \/ \E s \in AppSteps : AppGoto(s)
        \/ Begin("service", "stop")
    BY <2>1 DEF ShutService
  <2> QED BY <1>1, <2>1, <2>2, AppMoves
<1>4. BusOK' /\ loopq' = loopq
  <2>1. UNCHANGED busVars \/ Unsubscribe("mode")
    BY DEF ShutService
  <2>2. CASE Unsubscribe("mode")
    BY <1>1, <2>2 DEF BusOK, Unsubscribe
  <2> QED BY <1>1, <2>1, <2>2, Stays DEF busVars
<1>5. /\ messages \in Seq(SrvMessages) /\ BlocksOf(messages) \ {NoBlock} = Carried(messages)
      /\ NoBlock \notin heap
  BY <1>1, Blocks0 DEF SrvOK, HeapOK, NoBlock
<1>6. <<>> \in Seq(SrvMessages) /\ Len(<<>>) <= QueueLen /\ Distinct(<<>>) /\ Carried(<<>>) = {}
  BY EmptyQueue, ServiceAssumption
<1>7. CASE SrvStop
  <2>1. /\ hand' = NoMessage /\ alive' = FALSE /\ Lose({hand.block})
        /\ UNCHANGED <<open, messages, writers, lock, restoring, handler>>
    BY <1>7 DEF SrvStop
  <2>2. SrvOK'
    BY <1>1, <2>1 DEF SrvOK
  <2>3. HeapOK' /\ heap' = heap /\ lost' = lost \cup Nz(hand.block)
    <3>1. {hand.block} \ {NoBlock} = Nz(hand.block) /\ Nz(hand.block) \subseteq heap
      BY <1>1, Holders DEF Nz
    <3> QED BY <1>1, <2>1, <3>1, LoseEffect
  <2>4. Nz(hand'.block) = {}
    BY <2>1 DEF NoMessage, Message, Nz
  <2>5. Owned'
    BY <1>1, <1>2, <1>4, <2>1, <2>3, <2>4 DEF Owned, Partition
  <2> QED BY <1>2, <1>3, <1>4, <2>2, <2>3, <2>5 DEF Inv
<1>8. CASE SrvDrain
  <2>1. /\ messages' = <<>> /\ heap' = heap \ BlocksOf(messages)
        /\ UNCHANGED <<used, lost, misused, open, alive, hand, writers, lock, restoring, handler>>
    BY <1>8 DEF SrvDrain
  <2>2. SrvOK'
    BY <1>1, <1>6, <2>1 DEF SrvOK
  <2>3. HeapOK' /\ heap' = heap \ Carried(messages)
    BY <1>1, <1>5, <2>1 DEF HeapOK
  <2>4. Owned'
    BY <1>1, <1>2, <1>4, <1>6, <2>1, <2>3 DEF Owned, Partition
  <2> QED BY <1>2, <1>3, <1>4, <2>2, <2>3, <2>4 DEF Inv
<1>9. CASE SrvDelete
  <2>1. /\ messages' = <<>> /\ open' = FALSE /\ Lose(BlocksOf(messages))
        /\ UNCHANGED <<alive, hand, writers, lock, restoring, handler>>
    BY <1>9 DEF SrvDelete
  <2>2. SrvOK'
    BY <1>1, <1>6, <2>1 DEF SrvOK
  <2>3. HeapOK' /\ heap' = heap /\ lost' = lost \cup Carried(messages)
    <3>1. Carried(messages) \subseteq heap
      BY <1>1, Holders
    <3> QED BY <1>1, <1>5, <2>1, <3>1, LoseEffect
  <2>4. Owned'
    BY <1>1, <1>2, <1>4, <1>6, <2>1, <2>3 DEF Owned, Partition
  <2> QED BY <1>2, <1>3, <1>4, <2>2, <2>3, <2>4 DEF Inv
<1>10. CASE UNCHANGED <<heapVars, srvVars>> \/ ((HandlerFree \/ HandlerClear) /\ UNCHANGED heapVars)
  <2>1. UNCHANGED heapVars /\ UNCHANGED <<open, messages, alive, hand, writers, lock, restoring>>
        /\ handler' \in {handler, "freed", "gone"}
    BY <1>10 DEF HandlerFree, HandlerClear, srvVars
  <2>2. SrvOK'
    BY <1>1, <2>1 DEF SrvOK
  <2>3. HeapOK' /\ UNCHANGED <<heap, lost>>
    BY <1>1, <2>1, Stays DEF heapVars
  <2>4. Owned'
    BY <1>1, <1>2, <1>4, <2>1, <2>3, OwnedKept
  <2> QED BY <1>2, <1>3, <1>4, <2>2, <2>3, <2>4 DEF Inv
<1> QED BY <1>7, <1>8, <1>9, <1>10 DEF ShutService

\* The event bus is taken down: what its own loop has not delivered is lost.
LEMMA StepShutsBus ==
  ASSUME Inv, ShutBus
  PROVE  Inv'
<1>1. /\ HeapOK /\ BusOK /\ SrvOK /\ HttpOK /\ AppOK /\ LoopOK /\ Owned
      /\ UNCHANGED <<srvVars, httpVars, loopVars>> /\ BusDeinit /\ Lose(Undelivered)
      /\ Begin("bus", "up")
  BY DEF Inv, ShutBus
<1>2. /\ SrvOK' /\ HttpOK' /\ LoopOK' /\ AppOK' /\ UNCHANGED <<task, work, hand, writers, messages>>
  BY <1>1, Stays, AppMoves, BootSteps DEF srvVars, httpVars, loopVars, Calls
<1>3. loopq \in Seq(LoopEvents) /\ NoBlock \notin heap
  BY <1>1 DEF BusOK, HeapOK, NoBlock
<1>4. /\ dispatchers' = {} /\ subscribed' = {} /\ loop' \in BOOLEAN /\ created' = FALSE
      /\ loopq' = IF created THEN <<>> ELSE loopq
  BY <1>1 DEF BusDeinit, BusOK
<1>5. BusOK'
  <2>1. <<>> \in Seq(LoopEvents) /\ Len(<<>>) <= LoopLen /\ Distinct(<<>>)
    BY EmptyQueue, BusAssumption
  <2> QED BY <1>1, <1>4, <2>1 DEF BusOK
<1>6. Undelivered \ {NoBlock} = IF created THEN Carried(loopq) ELSE {}
  BY <1>3 DEF Undelivered, Carried
<1>7. HeapOK' /\ heap' = heap /\ lost' = lost \cup (IF created THEN Carried(loopq) ELSE {})
  <2>1. Carried(loopq) \subseteq heap
    BY <1>1, Holders
  <2> QED BY <1>1, <1>6, <2>1, LoseEffect
<1>8. Carried(loopq') = IF created THEN {} ELSE Carried(loopq)
  BY <1>4, EmptyQueue
<1>9. Owned'
  BY <1>1, <1>2, <1>7, <1>8 DEF Owned, Partition
<1> QED BY <1>2, <1>5, <1>7, <1>9 DEF Inv

\* The status monitor looks and reads, and touches no block.
LEMMA StepMonitor ==
  ASSUME Inv, MonitorLooks \/ MonitorReads
  PROVE  Inv'
<1>1. /\ HeapOK /\ BusOK /\ SrvOK /\ HttpOK /\ AppOK /\ LoopOK /\ Owned
      /\ UNCHANGED <<srvVars, busVars, httpVars, loopVars>>
      /\ UNCHANGED <<app, down, early, leaked>> /\ monitor' \in {"asleep", "reads"}
      /\ UNCHANGED heapVars \/ Misuse("state")
  BY DEF Inv, MonitorLooks, MonitorReads, MonitorTurns
<1>2. /\ BusOK' /\ SrvOK' /\ HttpOK' /\ LoopOK'
      /\ UNCHANGED <<task, work, hand, writers, loopq, messages>>
  BY <1>1, Stays DEF srvVars, busVars, httpVars, loopVars
<1>3. AppOK'
  BY <1>1 DEF AppOK
<1>4. HeapOK' /\ UNCHANGED <<heap, lost>>
  BY <1>1, Stays, MisuseEffect DEF heapVars
<1>5. Owned'
  BY <1>1, <1>2, <1>4, OwnedKept
<1> QED BY <1>2, <1>3, <1>4, <1>5 DEF Inv

\* wifi_flash_store_creds: the copy goes to a flash task, or is lost.
LEMMA StepAppFlash ==
  ASSUME Inv, AppFlash
  PROVE  Inv'
<1>1. /\ HeapOK /\ BusOK /\ SrvOK /\ HttpOK /\ AppOK /\ LoopOK /\ Owned
      /\ UNCHANGED <<busVars, server, httpd, hooks, task, stuck, loopVars>>
      /\ served < MaxRequests /\ served' = served + 1
      /\ UNCHANGED <<app, early, monitor>> /\ down' = down \cup {"flash"}
      /\ leaked' \in {leaked, leaked \cup {Fresh}}
      /\ UNCHANGED <<open, messages, alive, hand, lock, restoring, handler>>
  BY DEF Inv, AppFlash, ApiStore, ApiStoreLeaks, srvVars
<1>2. /\ BusOK' /\ HttpOK' /\ LoopOK' /\ UNCHANGED <<task, work, loopq>>
  <2>1. served' \in 0 .. MaxRequests
    BY <1>1, ServerAssumption DEF HttpOK
  <2>2. BusOK' /\ LoopOK' /\ UNCHANGED <<work, loopq>>
    BY <1>1, Stays DEF busVars, loopVars
  <2> QED BY <1>1, <2>1, <2>2 DEF HttpOK
<1>3. /\ Fresh \in Blocks /\ Fresh \in Numbers \ {NoBlock} /\ Fresh \notin heap \cup lost
      /\ Fresh \in 1 .. Fresh /\ 1 .. used \subseteq 1 .. Fresh
  <2>1. ~Full
    BY DEF AppFlash, ApiStore, ApiStoreLeaks, Allocate
  <2> QED BY <1>1, <2>1, HeapAssumption DEF HeapOK, Full, Fresh, Numbers, Blocks, NoBlock
<1>4. AppOK'
  <2>1. "flash" \in Calls
    BY DEF Calls
  <2> QED BY <1>1, <1>3, <2>1 DEF AppOK
<1>5. CASE ApiStore
  <2>1. HeapOK' /\ heap' = heap \cup {Fresh} /\ lost' = lost /\ writers' = writers \cup {Fresh}
    BY <1>1, <1>5, AllocateEffect DEF ApiStore
  <2>2. SrvOK'
    BY <1>1, <1>3, <2>1 DEF SrvOK
  <2>3. Owned'
    BY <1>1, <1>2, <1>3, <2>1 DEF Owned, Partition
  <2> QED BY <1>2, <1>4, <2>1, <2>2, <2>3 DEF Inv
<1>6. CASE ApiStoreLeaks
  <2>1. /\ heap' = heap \cup {Fresh} /\ used' = Fresh /\ lost' = lost \cup {Fresh}
        /\ UNCHANGED misused /\ UNCHANGED srvVars
    BY <1>6 DEF ApiStoreLeaks
  <2>2. HeapOK' /\ SrvOK'
    BY <1>1, <1>3, <2>1, Stays DEF HeapOK
  <2>3. heap' \ lost' = heap \ lost /\ UNCHANGED <<hand, writers, messages>>
    BY <1>3, <2>1 DEF srvVars
  <2>4. Owned'
    BY <1>1, <1>2, <2>3 DEF Owned
  <2> QED BY <1>2, <1>4, <2>2, <2>4 DEF Inv
<1> QED BY <1>5, <1>6 DEF AppFlash

-----------------------------------------------------------------------------
\* A sequence over a set is one over a larger set.
LEMMA SeqMonotone ==
  ASSUME NEW S, NEW T, S \subseteq T, NEW q \in Seq(S) PROVE q \in Seq(T)
OBVIOUS

\* At boot there is no block.
LEMMA InvInit == Init => Inv
<1> SUFFICES ASSUME Init PROVE Inv
  OBVIOUS
<1>1. /\ HeapInit /\ BusStart /\ SrvOff /\ HttpOff /\ app = "nvs" /\ down = {} /\ early = {}
      /\ work = NoWork /\ pending = <<>> /\ radio = FALSE /\ monitor = "asleep" /\ leaked = {}
  BY DEF Init
<1>2. NoBlock \in Numbers /\ Nz(NoBlock) = {}
  BY Entry
<1>3. HeapOK
  BY <1>1, HeapAssumption DEF HeapInit, HeapOK, Numbers
<1>4. BusOK
  <2>1. <<>> \in Seq(LoopEvents) /\ Len(<<>>) <= LoopLen
    BY BusAssumption
  <2> QED BY <1>1, <2>1, EmptyQueue DEF BusStart, BusOK
<1>5. SrvOK
  <2>1. <<>> \in Seq(SrvMessages) /\ Len(<<>>) <= QueueLen
    BY ServiceAssumption
  <2> QED BY <1>1, <2>1, EmptyQueue DEF SrvOff, SrvOK
<1>6. Request(NoRequest) /\ NoRequest.block = NoBlock
  BY <1>2 DEF NoRequest, Request, HttpTasks, HttpSteps
<1>7. HttpOK
  <2>1. 0 \in 0 .. MaxRequests
    BY ServerAssumption
  <2> QED BY <1>1, <1>6, <2>1 DEF HttpOff, HttpOK
<1>8. AppOK
  <2>1. Boot[1] \in AppSteps /\ Boot[1] = "nvs"
    BY BootSteps DEF Boot
  <2> QED BY <1>1, <2>1 DEF AppOK
<1>9. LoopOK
  <2>1. <<>> \in Seq(Turns) /\ Len(<<>>) <= 2
    OBVIOUS
  <2>2. work \in [step : LoopSteps, block : Numbers] /\ work.block = NoBlock
    BY <1>1, <1>2 DEF NoWork, LoopSteps
  <2> QED BY <1>1, <2>1, <2>2 DEF LoopOK
<1>10. Owned
  <2>1. /\ heap \ lost = {} /\ task.block = NoBlock /\ work.block = NoBlock
        /\ hand.block = NoBlock /\ writers = {} /\ loopq = <<>> /\ messages = <<>>
    BY <1>1, <1>6 DEF HeapInit, BusStart, SrvOff, HttpOff, NoWork, NoMessage, Message
  <2> QED BY <1>2, <2>1, EmptyQueue DEF Owned, Partition
<1> QED BY <1>3, <1>4, <1>5, <1>7, <1>8, <1>9, <1>10 DEF Inv

\* Every step keeps the blocks accounted for.
LEMMA InvStep == Inv /\ [Next]_vars => Inv'
<1> SUFFICES ASSUME Inv, [Next]_vars PROVE Inv'
  OBVIOUS
<1>1. CASE UNCHANGED vars
  <2>1. /\ HeapOK' /\ BusOK' /\ SrvOK' /\ HttpOK' /\ AppOK' /\ LoopOK'
    BY <1>1, Stays DEF Inv, vars
  <2>2. Owned'
    BY <1>1, OwnedKept DEF Inv, vars, heapVars, busVars, srvVars, httpVars, loopVars
  <2> QED BY <2>1, <2>2 DEF Inv
<1>2. CASE AppBoots
  BY <1>2, StepBoots
<1>3. CASE AppShuts
  BY <1>3, StepShutsPlain, StepShutsService, StepShutsBus DEF AppShuts
<1>4. CASE (HttpTake \/ HttpWorks) /\ UNCHANGED <<appVars, loopVars>>
  BY <1>4, StepHttpRuns, StepHttpBlock DEF HttpWorks
<1>5. CASE LoopWorks
  BY <1>5, StepLoopTakes, StepLoopOther DEF LoopWorks
<1>6. CASE ServiceWorks
  BY <1>6, StepService
<1>7. CASE FlashWorks
  BY <1>7, StepFlash
<1>8. CASE DriverEmits
  BY <1>8, StepDriver
<1>9. CASE MonitorLooks \/ MonitorReads \/ AppFlash
  BY <1>9, StepMonitor, StepAppFlash
<1> QED BY <1>1, <1>2, <1>3, <1>4, <1>5, <1>6, <1>7, <1>8, <1>9 DEF Next, Works, Waiting, HttpServes

\* The blocks stay accounted for.
THEOREM Invariance == Spec => []Inv
BY InvInit, InvStep, PTL DEF Spec

-----------------------------------------------------------------------------
(* What follows from it.                                                    *)

\* Type correctness (TypeOK) for any bounds and any faults.
THEOREM TypeCorrect == Spec => []TypeOK
<1>1. Inv => TypeOK
  <2> SUFFICES ASSUME Inv PROVE TypeOK
    OBVIOUS
  <2>1. /\ HeapOK /\ BusOK /\ SrvOK /\ HttpOK /\ AppOK /\ LoopOK
    BY DEF Inv
  <2>2. \A n \in 0 .. MaxBlocks : 1 .. n \subseteq Blocks
    BY HeapAssumption DEF Blocks
  <2>3. heap \subseteq Blocks /\ used \in 0 .. MaxBlocks /\ lost \subseteq Blocks
    BY <2>1, <2>2 DEF HeapOK, Numbers
  <2>4. LoopEvents \subseteq [type : Types \cup DriverTypes, block : 0 .. MaxBlocks]
    BY DEF LoopEvents, Numbers
  <2>5. SrvMessages \subseteq [event : {"START", "STOP", "STORE", "LOAD"}, block : 0 .. MaxBlocks]
    BY DEF SrvMessages, Numbers
  <2>6. loopq \in Seq([type : Types \cup DriverTypes, block : 0 .. MaxBlocks])
    BY <2>1, <2>4, SeqMonotone DEF BusOK
  <2>7. messages \in Seq([event : {"START", "STOP", "STORE", "LOAD"}, block : 0 .. MaxBlocks])
    BY <2>1, <2>5, SeqMonotone DEF SrvOK
  <2>8. hand \in [event : {"none", "START", "STOP", "STORE", "LOAD"}, block : 0 .. MaxBlocks]
    BY <2>1, HeapAssumption DEF SrvOK, SrvMessages, NoMessage, Message, Numbers, NoBlock
  <2>9. /\ {loop, created, open, alive, restoring, server, radio, stuck} \subseteq BOOLEAN
        /\ writers \subseteq 0 .. MaxBlocks
        /\ task.kind \in Kinds \cup {"none"} /\ task.block \in 0 .. MaxBlocks
        /\ work \in [step : LoopSteps, block : 0 .. MaxBlocks]
    BY <2>1 DEF BusOK, SrvOK, HttpOK, LoopOK, Request, HttpTasks, Numbers
  <2> QED BY <2>1, <2>3, <2>6, <2>7, <2>8, <2>9
          DEF TypeOK, HeapOK, BusOK, SrvOK, HttpOK, AppOK, LoopOK, Turns
<1> QED BY <1>1, Invariance, PTL

\* However a request ends (http_handler.c:97-296), it ends clean
\* (RequestsEndClean): without its tree or a block, answered at most once.
THEOREM RequestsClean == Spec => []RequestsEndClean
<1>1. Inv => RequestsEndClean
  BY DEF Inv, HttpOK, Request, RequestsEndClean, In
<1> QED BY <1>1, Invariance, PTL

\* No block is released twice (free in comp_decomp_data.h and
\* wifi_service.c), whichever parts are taken down and when.
THEOREM NeverReleasedTwice == Spec => []("block" \notin misused)
<1>1. Inv => "block" \notin misused
  BY DEF Inv, HeapOK
<1> QED BY <1>1, Invariance, PTL

\* A block has one holder.
LEMMA OneHolder ==
  ASSUME Inv, NEW h \in Holdings, NEW g \in Holdings, h[3] = g[3], h[3] # NoBlock
  PROVE  h = g
<1>1. Owned /\ Distinct(loopq) /\ Distinct(messages)
      /\ DOMAIN loopq = 1 .. Len(loopq) /\ DOMAIN messages = 1 .. Len(messages)
  BY DEF Inv, BusOK, SrvOK
<1> DEFINE Is(x) ==
      \/ x = <<"httpd", 0, task.block>> /\ x[3] \in Nz(task.block)
      \/ x = <<"loop", 0, work.block>> /\ x[3] \in Nz(work.block)
      \/ x = <<"service", 0, hand.block>> /\ x[3] \in Nz(hand.block)
      \/ x = <<"flash", x[3], x[3]>> /\ x[3] \in writers \ {NoBlock}
      \/ x[3] \in Carried(loopq)
         /\ \E i \in 1 .. Len(loopq) : x = <<"bus", i, x[3]>> /\ loopq[i].block = x[3]
      \/ x[3] \in Carried(messages)
         /\ \E i \in 1 .. Len(messages) : x = <<"queue", i, x[3]>> /\ messages[i].block = x[3]
<1>2. ASSUME NEW x \in Holdings, x[3] # NoBlock PROVE Is(x)
  <2>1. CASE x \in {<<"httpd", 0, task.block>>, <<"loop", 0, work.block>>,
                    <<"service", 0, hand.block>>}
    BY <1>2, <2>1 DEF Nz
  <2>2. CASE x \in {<<"flash", b, b>> : b \in writers}
    BY <1>2, <2>2
  <2>3. CASE x \in {<<"bus", i, loopq[i].block>> : i \in DOMAIN loopq}
    BY <1>1, <1>2, <2>3 DEF Carried
  <2>4. CASE x \in {<<"queue", i, messages[i].block>> : i \in DOMAIN messages}
    BY <1>1, <1>2, <2>4 DEF Carried
  <2> QED BY <2>1, <2>2, <2>3, <2>4 DEF Holdings
<1>3. Is(h) /\ Is(g)
  BY <1>2
<1>4. CASE h[3] \in Carried(loopq)
  <2>1. /\ \E i \in 1 .. Len(loopq) : h = <<"bus", i, h[3]>> /\ loopq[i].block = h[3]
        /\ \E i \in 1 .. Len(loopq) : g = <<"bus", i, h[3]>> /\ loopq[i].block = h[3]
    BY <1>1, <1>3, <1>4 DEF Owned, Partition
  <2> QED BY <1>1, <2>1 DEF Distinct
<1>5. CASE h[3] \in Carried(messages)
  <2>1. /\ \E i \in 1 .. Len(messages) : h = <<"queue", i, h[3]>> /\ messages[i].block = h[3]
        /\ \E i \in 1 .. Len(messages) : g = <<"queue", i, h[3]>> /\ messages[i].block = h[3]
    BY <1>1, <1>3, <1>5 DEF Owned, Partition
  <2> QED BY <1>1, <2>1 DEF Distinct
<1>6. CASE h[3] \notin Carried(loopq) \cup Carried(messages)
  BY <1>1, <1>3, <1>6 DEF Owned, Partition
<1> QED BY <1>4, <1>5, <1>6

\* Every block in use that is not lost has exactly one holder on its way from
\* the HTTP task to a flash task (BlocksOwned), and whoever holds a block
\* holds one in use: no leak and no use after release while the parts run.
THEOREM BlocksHeldOnce == Spec => []BlocksOwned
<1>1. Inv => BlocksOwned
  <2> SUFFICES ASSUME Inv PROVE BlocksOwned
    OBVIOUS
  <2>1. Owned /\ NoBlock \notin heap
        /\ DOMAIN loopq = 1 .. Len(loopq) /\ DOMAIN messages = 1 .. Len(messages)
    BY DEF Inv, BusOK, SrvOK, HeapOK, NoBlock
  <2>2. ASSUME NEW b \in heap \ lost PROVE \E h \in Holdings : h[3] = b
    <3>1. \/ b \in {task.block, work.block, hand.block} \cup writers
          \/ (\E i \in 1 .. Len(loopq) : b = loopq[i].block)
          \/ (\E i \in 1 .. Len(messages) : b = messages[i].block)
      BY <2>1 DEF Owned, Partition, Nz, Carried
    <3>2. CASE b \in {task.block, work.block, hand.block}
      <4>1. {<<"httpd", 0, task.block>>, <<"loop", 0, work.block>>, <<"service", 0, hand.block>>}
              \subseteq Holdings
        BY DEF Holdings
      <4> QED BY <3>2, <4>1
    <3>3. CASE b \in writers
      <4>1. <<"flash", b, b>> \in Holdings
        BY <3>3 DEF Holdings
      <4> QED BY <4>1
    <3>4. ASSUME NEW i \in 1 .. Len(loopq), b = loopq[i].block PROVE \E h \in Holdings : h[3] = b
      <4>1. <<"bus", i, loopq[i].block>> \in Holdings
        BY <2>1 DEF Holdings
      <4> QED BY <3>4, <4>1
    <3>5. ASSUME NEW i \in 1 .. Len(messages), b = messages[i].block
          PROVE  \E h \in Holdings : h[3] = b
      <4>1. <<"queue", i, messages[i].block>> \in Holdings
        BY <2>1 DEF Holdings
      <4> QED BY <3>5, <4>1
    <3> QED BY <3>1, <3>2, <3>3, <3>4, <3>5
  <2>3. ASSUME NEW b \in heap \ lost PROVE Cardinality({h \in Holdings : h[3] = b}) = 1
    <3>1. PICK g \in Holdings : g[3] = b
      BY <2>2
    <3>2. \A h \in Holdings : h[3] = b => h = g
      BY <2>1, <3>1, OneHolder
    <3>3. {h \in Holdings : h[3] = b} = {g}
      BY <3>1, <3>2
    <3> QED BY <3>3, FS_Singleton
  <2>4. ASSUME NEW h \in Holdings PROVE h[3] \in (heap \ lost) \cup {NoBlock}
    <3>1. CASE h \in {<<"httpd", 0, task.block>>, <<"loop", 0, work.block>>,
                      <<"service", 0, hand.block>>}
      BY <2>1, <3>1, Holders DEF Nz
    <3>2. CASE h \in {<<"flash", b, b>> : b \in writers}
      BY <2>1, <3>2, Holders
    <3>3. CASE h \in {<<"bus", i, loopq[i].block>> : i \in DOMAIN loopq}
      <4>1. h[3] \in Carried(loopq) \cup {NoBlock}
        BY <2>1, <3>3 DEF Carried
      <4> QED BY <2>1, <4>1, Holders
    <3>4. CASE h \in {<<"queue", i, messages[i].block>> : i \in DOMAIN messages}
      <4>1. h[3] \in Carried(messages) \cup {NoBlock}
        BY <2>1, <3>4 DEF Carried
      <4> QED BY <2>1, <4>1, Holders
    <3> QED BY <3>1, <3>2, <3>3, <3>4 DEF Holdings
  <2> QED BY <2>3, <2>4 DEF BlocksOwned
<1> QED BY <1>1, Invariance, PTL
=============================================================================
