--------------------------- MODULE ShutdownProofs ---------------------------
(***************************************************************************)
(* What a shutdown call can break, for queues of any length and any number *)
(* of requests: nothing when it is made at its time, and else only what it *)
(* takes down itself.  And that no task waits for one that waits for it.   *)
(***************************************************************************)
EXTENDS DashboardProofs

\* Nothing is under way, and nothing will be on its own.
Off ==
  /\ pending = <<>> /\ loopq = <<>> /\ work = NoWork
  /\ messages = <<>> /\ hand = NoMessage
  /\ ~radio /\ NoServer /\ writers = {} /\ ~restoring

NoService == {"nvs", "bus", "storage", "manager", "service", "failed"}
Booting   == NoService \cup {"start", "http"}

\* What stands at each step of app_main, and until it is taken down.
BootOK ==
  /\ app \in Booting => Off
  /\ app \in Booting \cup {"mode", "load"} => down = {}
  /\ created = loop
  /\ app \in {"nvs", "bus"} => ~loop
  /\ app \notin {"nvs", "bus", "failed"} /\ "bus" \notin down => loop /\ "HTTP" \in dispatchers
  /\ app \notin NoService /\ "service" \notin down => open
  /\ app \notin NoService /\ down \cap {"service", "bus"} = {} => "mode" \in subscribed
  /\ app \notin Booting /\ "http" \notin down => hooks = DriverTypes
DownOK ==
  /\ app \in {"stop", "drain", "delete", "free", "clear"} => "service" \in down
  /\ app \in {"closing", "unhook"} => "http" \in down
  /\ HandlerFreed => "service" \in down
  /\ "service" \in down /\ app \notin {"stop", "drain", "delete"} => ~open
  /\ "service" \in down /\ app \notin {"stop", "drain", "delete", "free"} => handler # "live"
  /\ "bus" \in down => ~loop /\ loopq = <<>>

\* The server's task, and who waits for it.
ServerOK ==
  /\ ~server /\ ~stuck => httpd = "down"
  /\ httpd = "down" => task = NoRequest
  /\ server /\ httpd # "up" => work.step = "wait" \/ app = "closing"

\* While the radio is off, a server that runs, or is to start, will be
\* stopped, unless httpd_stop has failed.
StopsIn(q) == \E j \in 1 .. Len(q) : q[j].type = "STOP"
Settled(q) == \A i \in 1 .. Len(q) : q[i].type = "START" => \E j \in i .. Len(q) : q[j].type = "STOP"
RadioOff ==
  ~stuck /\ ~radio /\ loop /\ hooks = DriverTypes =>
    /\ Settled(loopq)
    /\ work.step = "START" \/ (server /\ work.step \notin {"STOP", "wait"}) => StopsIn(loopq)

\* What is left when the server, or the service, was taken down at its time.
NoStarts == hand.event # "START" /\ \A i \in 1 .. Len(messages) : messages[i].event # "START"
AfterHttp ==
  ~stuck /\ "http" \in down \ early =>
    /\ pending = <<>> /\ loopq = <<>> /\ work = NoWork /\ ~radio /\ NoStarts
    /\ server => ~loop /\ app = "closing"
AfterService == "service" \in down \ early => Off /\ "http" \in down

Causes ==
  /\ misused \cap {"queue", "handler"} # {} => "service" \in early
  /\ "server" \in misused => "http" \in early \/ stuck
  /\ "state" \in misused => "service" \in down
  /\ lost # leaked => early \cap {"service", "bus"} # {}

Shut == BootOK /\ DownOK /\ ServerOK /\ RadioOff /\ AfterHttp /\ AfterService /\ Causes

-----------------------------------------------------------------------------
(* Events that stop the server.                                             *)

\* An event behind the others: one of HTTP's, or the driver's STOP.
LEMMA PutStops ==
  ASSUME NEW S, NEW q \in Seq(S), NEW e \in S
  PROVE  /\ e.type # "START" /\ Settled(q) => Settled(Append(q, e))
         /\ StopsIn(q) => StopsIn(Append(q, e))
         /\ e.type = "STOP" => Settled(Append(q, e)) /\ StopsIn(Append(q, e))
<1> DEFINE r == Append(q, e)
<1>1. Len(r) = Len(q) + 1 /\ Len(q) \in Nat /\ Len(r) \in 1 .. Len(r)
  OBVIOUS
<1>2. (\A i \in 1 .. Len(q) : r[i] = q[i]) /\ r[Len(r)] = e
  OBVIOUS
<1> HIDE DEF r
<1>3. \A i \in 1 .. Len(r) : i \in 1 .. Len(q) \/ i = Len(r)
  BY <1>1
<1>4. \A i \in 1 .. Len(q) : i \in 1 .. Len(r) /\ \A j \in i .. Len(q) :
        j \in i .. Len(r) /\ j \in 1 .. Len(q)
  BY <1>1
<1>5. ASSUME e.type # "START", Settled(q) PROVE Settled(r)
  BY <1>2, <1>3, <1>4, <1>5 DEF Settled
<1>6. ASSUME StopsIn(q) PROVE StopsIn(r)
  BY <1>2, <1>4, <1>6 DEF StopsIn
<1>7. ASSUME e.type = "STOP" PROVE Settled(r) /\ StopsIn(r)
  <2>1. \A i \in 1 .. Len(r) : Len(r) \in i .. Len(r)
    BY <1>1
  <2> QED BY <1>1, <1>2, <1>7, <2>1 DEF Settled, StopsIn
<1> QED BY <1>5, <1>6, <1>7 DEF r

\* The first event is taken.
LEMMA TakeStops ==
  ASSUME NEW S, NEW q \in Seq(S), q # <<>>, Settled(q)
  PROVE  /\ Settled(Tail(q))
         /\ Head(q).type = "START" => StopsIn(Tail(q))
         /\ Head(q).type # "STOP" /\ StopsIn(q) => StopsIn(Tail(q))
<1> DEFINE r == Tail(q)
           h == Head(q)
<1>1. Len(r) = Len(q) - 1 /\ Len(q) \in Nat \ {0} /\ h = q[1]
  OBVIOUS
<1>2. \A i \in 1 .. Len(r) : r[i] = q[i + 1]
  OBVIOUS
<1> HIDE DEF r, h
<1>3. \A j \in 1 .. Len(q) : j = 1 \/ (j - 1 \in 1 .. Len(r) /\ r[j - 1] = q[j])
  <2> TAKE j \in 1 .. Len(q)
  <2>1. CASE j # 1
    <3>1. j - 1 \in 1 .. Len(r) /\ (j - 1) + 1 = j
      BY <1>1, <2>1
    <3> QED BY <1>2, <3>1
  <2> QED BY <2>1
<1>4. Settled(r)
  <2> SUFFICES ASSUME NEW i \in 1 .. Len(r), r[i].type = "START"
               PROVE  \E j \in i .. Len(r) : r[j].type = "STOP"
    BY DEF Settled
  <2>1. i + 1 \in 1 .. Len(q) /\ q[i + 1].type = "START"
    BY <1>1, <1>2
  <2>2. PICK j \in (i + 1) .. Len(q) : q[j].type = "STOP"
    BY <2>1 DEF Settled
  <2>3. j - 1 \in i .. Len(r) /\ j \in 1 .. Len(q) /\ j # 1
    BY <1>1, <2>2
  <2> QED BY <1>3, <2>2, <2>3
<1>5. ASSUME h.type = "START" PROVE StopsIn(r)
  <2>1. 1 \in 1 .. Len(q) /\ 1 .. Len(q) = 1 .. Len(q)
    BY <1>1
  <2>2. PICK j \in 1 .. Len(q) : q[j].type = "STOP"
    BY <1>1, <1>5, <2>1 DEF Settled
  <2>3. j # 1
    BY <1>1, <1>5, <2>2
  <2> QED BY <1>3, <2>2, <2>3 DEF StopsIn
<1>6. ASSUME h.type # "STOP", StopsIn(q) PROVE StopsIn(r)
  BY <1>1, <1>3, <1>6 DEF StopsIn
<1> QED BY <1>4, <1>5, <1>6 DEF r, h

\* An empty queue has no event.
LEMMA NoStops == Settled(<<>>) /\ ~StopsIn(<<>>)
BY DEF Settled, StopsIn

-----------------------------------------------------------------------------
(* Who works, and what that says.                                           *)

Serves == (HttpTake \/ HttpWorks) /\ UNCHANGED <<appVars, loopVars>>

\* A request is served while the server's task is there.
LEMMA ServesUp ==
  ASSUME Inv, ServerOK, Serves
  PROVE  httpd # "down"
<1>1. CASE HttpTake \/ HttpLeaves
  BY <1>1 DEF HttpTake, HttpLeaves
<1>2. CASE ~(HttpTake \/ HttpLeaves)
  <2>1. task.step # "idle"
    BY <1>2 DEF Serves, HttpWorks, HttpBody, HttpRelay, HttpCopies, HttpSends, HttpLock, HttpUnlock,
       HttpNotify, HttpPacks, HttpPosts, HttpReplies, HttpReturns, In
  <2> QED BY <2>1 DEF ServerOK, NoRequest
<1> QED BY <1>1, <1>2

\* While anyone works, app_main is through with the parts, and the service
\* was not taken down, or before its time.
LEMMA Busy ==
  ASSUME Inv, Shut, Serves \/ LoopWorks \/ ServiceWorks \/ FlashWorks \/ DriverEmits
  PROVE  /\ app \notin Booting
         /\ "service" \in down => "service" \in early
         /\ ~open => "service" \in early
         /\ HandlerFreed => "service" \in early
<1>1. ~Off
  <2>1. CASE Serves
    BY <2>1, ServesUp DEF Shut, Off, NoServer
  <2>2. CASE LoopWorks
    BY <2>2 DEF Off, LoopWorks, LoopTakes, Take, LoopUnpacks, LoopCopies, LoopSends, LoopSwitches,
       LoopPosts, LoopStarts, LoopStops, LoopStopped, LoopAt, NoWork
  <2>3. CASE ServiceWorks
    BY <2>3 DEF Off, ServiceWorks, SvcReceive, SvcFlash, SvcStart, SvcStop, NoMessage, Message
  <2>4. CASE FlashWorks \/ DriverEmits
    BY <2>4 DEF Off, FlashWorks, FlashTakes, FlashEnds, Restore, DriverEmits
  <2> QED BY <2>1, <2>2, <2>3, <2>4
<1>2. app \notin Booting /\ ("service" \in down => "service" \in early)
  BY <1>1 DEF Shut, BootOK, AfterService
<1>3. app \notin NoService
  BY <1>2 DEF Booting
<1> QED BY <1>2, <1>3 DEF Shut, BootOK, DownOK

\* Before a step no released object was used.
LEMMA Before == ASSUME ~Undefined PROVE misused = {}
BY DEF Undefined

\* A message sent to an open queue is neither lost nor misused.
LEMMA SendCauses ==
  ASSUME Causes, ~Undefined, NEW m, Send(m), m.block \in heap \cup {NoBlock},
         open \/ "service" \in early, UNCHANGED <<early, down, leaked>>, stuck => stuck'
  PROVE  Causes'
<1>1. CASE open
  <2>1. lost' = lost /\ misused' = misused
    BY <1>1 DEF Send, Release, heapVars
  <2> QED BY <2>1 DEF Causes
<1>2. CASE ~open
  <2>1. misused' = misused \cup {"queue"} /\ "service" \in early'
    BY <1>2 DEF Send
  <2> QED BY <2>1, Before DEF Causes
<1> QED BY <1>1, <1>2

-----------------------------------------------------------------------------
(* One lemma for each task.                                                 *)

\* What the HTTP task does outside of its request.
LEMMA ServesEffect ==
  ASSUME Inv, Shut, ~Undefined, Serves
  PROVE  /\ UNCHANGED <<appVars, loopVars, server, hooks, stuck, open, hand, handler, writers, restoring>>
         /\ UNCHANGED <<loop, created, dispatchers, subscribed>>
         /\ httpd' = httpd \/ (httpd' = "down" /\ task' = NoRequest)
         /\ loopq' = loopq \/ (loop /\ \E e \in LoopEvents : e.type \in Types /\ loopq' = Append(loopq, e))
         /\ messages' = messages
            \/ \E m \in SrvMessages : m.event = "STORE" /\ messages' = Append(messages, m)
         /\ Causes'
<1>1. Causes /\ UNCHANGED <<early, down, leaked>> /\ (open \/ "service" \in early)
  BY Busy DEF Shut, Serves, appVars
<1>2. CASE HttpSends
  <2> DEFINE m == Message("STORE", task.block)
  <2>1. Send(m) /\ UNCHANGED <<serverVars, served, busVars>>
    BY <1>2 DEF HttpSends, OnlyTask
  <2>2. m \in SrvMessages /\ m.event = "STORE" /\ m.block = task.block
    BY Entry DEF Inv, HttpOK, Request, HttpTasks, Message
  <2>3. m.block \in heap \cup {NoBlock}
    BY <2>2, Holders DEF Inv
  <2> HIDE DEF m
  <2>4. Causes'
    BY <1>1, <2>1, <2>3, SendCauses DEF serverVars
  <2>5. messages' \in {messages, Append(messages, m)}
    BY <2>1 DEF Send
  <2> QED BY <2>1, <2>2, <2>4, <2>5 DEF Serves, Send, serverVars, busVars
<1>3. CASE ~HttpSends
  <2>1. lost' = lost /\ misused' = misused
    <3>1. task.block \in heap \cup {NoBlock}
      BY Holders DEF Inv
    <3> QED
      BY <1>3, <3>1 DEF Serves, HttpWorks, HttpTake, HttpBody, HttpRelay, HttpCopies, HttpLock, HttpUnlock,
         HttpNotify, HttpPacks, HttpPosts, HttpReplies, HttpReturns, HttpLeaves, heapVars,
         Allocate, Release
  <2>2. stuck' = stuck
    BY <1>3 DEF Serves, HttpWorks, HttpTake, HttpBody, HttpRelay, HttpCopies, HttpLock, HttpUnlock,
       HttpNotify, HttpPacks, HttpPosts, HttpReplies, HttpReturns, HttpLeaves, OnlyTask, serverVars
  <2>3. Causes'
    BY <1>1, <2>1, <2>2 DEF Causes
  <2>4. UNCHANGED <<server, hooks, open, hand, handler, writers, restoring, messages>>
        /\ (httpd' = httpd \/ (httpd' = "down" /\ task' = NoRequest))
    BY <1>3 DEF Serves, HttpWorks, HttpTake, HttpBody, HttpRelay, HttpCopies, HttpLock, HttpUnlock,
       HttpNotify, HttpPacks, HttpPosts, HttpReplies, HttpReturns, HttpLeaves, srvVars, OnlyTask,
       serverVars
  <2>5. \/ UNCHANGED busVars
        \/ \E e \in LoopEvents : e.type \in Types /\ Announce(e)
    <3>1. /\ Event("http", NoBlock) \in LoopEvents /\ Event("http", NoBlock).type \in Types
          /\ Event("mode", task.block) \in LoopEvents /\ Event("mode", task.block).type \in Types
      BY Entry DEF Inv, HttpOK, Request, HttpTasks, Types, Event
    <3> QED
      BY <1>3, <3>1 DEF Serves, HttpWorks, HttpTake, HttpBody, HttpRelay, HttpCopies, HttpLock,
         HttpUnlock, HttpNotify, HttpPacks, HttpPosts, HttpReplies, HttpReturns, HttpLeaves
  <2>6. /\ UNCHANGED <<loop, created, dispatchers, subscribed>>
        /\ loopq' = loopq \/ (loop /\ \E e \in LoopEvents : e.type \in Types /\ loopq' = Append(loopq, e))
    BY <2>5 DEF busVars, Announce, Enqueue, Posts
  <2> QED BY <2>2, <2>3, <2>4, <2>6 DEF Serves
<1> QED BY <1>2, <1>3

\* The HTTP task works for a request.
LEMMA ShutServes ==
  ASSUME Inv, Shut, ~Undefined, Serves
  PROVE  Shut'
<1>1. /\ UNCHANGED <<appVars, loopVars, server, hooks, stuck, open, hand, handler, writers, restoring>>
      /\ UNCHANGED <<loop, created, dispatchers, subscribed>>
      /\ httpd' = httpd \/ (httpd' = "down" /\ task' = NoRequest)
      /\ loopq' = loopq \/ (loop /\ \E e \in LoopEvents : e.type \in Types /\ loopq' = Append(loopq, e))
      /\ messages' = messages
         \/ \E m \in SrvMessages : m.event = "STORE" /\ messages' = Append(messages, m)
      /\ Causes'
  BY ServesEffect
<1>2. UNCHANGED <<app, down, early, work, pending, radio>>
  BY <1>1 DEF appVars, loopVars
<1>3. httpd # "down" /\ app \notin Booting /\ ("service" \in down => "service" \in early)
  BY ServesUp, Busy DEF Shut
<1>4. BootOK'
  BY <1>1, <1>2, <1>3 DEF Shut, BootOK
<1>5. DownOK'
  BY <1>1, <1>2 DEF Shut, DownOK, HandlerFreed
<1>6. ServerOK'
  <2>1. ~server' /\ ~stuck' => httpd' = "down"
    BY <1>1, <1>3 DEF Shut, ServerOK
  <2>2. httpd' = "down" => task' = NoRequest
    BY <1>1, <1>3
  <2>3. server' /\ httpd' # "up" => work'.step = "wait" \/ app' = "closing"
    <3>1. CASE httpd' = httpd
      BY <1>1, <1>2, <1>3, <3>1 DEF Shut, ServerOK
    <3>2. CASE httpd' # httpd
      <4>1. httpd = "closing"
        BY <1>1, <3>2 DEF Serves, HttpWorks, HttpTake, HttpBody, HttpRelay, HttpCopies, HttpSends, HttpLock,
           HttpUnlock, HttpNotify, HttpPacks, HttpPosts, HttpReplies, HttpReturns, HttpLeaves, OnlyTask,
           serverVars
      <4> QED BY <1>1, <1>2, <1>3, <4>1 DEF Shut, ServerOK
    <3> QED BY <3>1, <3>2
  <2> QED BY <2>1, <2>2, <2>3 DEF ServerOK
<1>7. RadioOff'
  <2>1. CASE loopq' = loopq
    BY <1>1, <1>2, <2>1 DEF Shut, RadioOff
  <2>2. CASE loopq' # loopq
    <3>1. PICK e \in LoopEvents : e.type \in Types /\ loopq' = Append(loopq, e)
      BY <1>1, <2>2
    <3>2. loopq \in Seq(LoopEvents) /\ e.type # "START"
      BY <3>1 DEF Inv, BusOK, Types
    <3>3. (Settled(loopq) => Settled(loopq')) /\ (StopsIn(loopq) => StopsIn(loopq'))
      BY <3>1, <3>2, PutStops
    <3> QED BY <1>1, <1>2, <3>3 DEF Shut, RadioOff
  <2> QED BY <2>1, <2>2
<1>8. AfterHttp'
  <2> SUFFICES ASSUME "http" \in down \ early, ~stuck PROVE AfterHttp'
    BY <1>1, <1>2 DEF AfterHttp
  <2>1. /\ pending = <<>> /\ loopq = <<>> /\ work = NoWork /\ ~radio /\ NoStarts
        /\ ~loop /\ app = "closing"
    BY <1>3 DEF Shut, AfterHttp, ServerOK
  <2>2. NoStarts'
    <3>1. CASE messages' = messages
      BY <1>1, <2>1, <3>1 DEF NoStarts
    <3>2. CASE messages' # messages
      <4>1. PICK m \in SrvMessages : m.event = "STORE" /\ messages' = Append(messages, m)
        BY <1>1, <3>2
      <4>2. messages \in Seq(SrvMessages)
        BY DEF Inv, SrvOK
      <4> QED BY <1>1, <2>1, <4>1, <4>2 DEF NoStarts
    <3> QED BY <3>1, <3>2
  <2> QED BY <1>1, <1>2, <2>1, <2>2 DEF AfterHttp
<1>9. AfterService'
  BY <1>2, <1>3 DEF AfterService
<1> QED BY <1>1, <1>4, <1>5, <1>6, <1>7, <1>8, <1>9 DEF Shut

\* What the event loop's steps have in common: nothing is at its time, and
\* what the app, the driver and the service keep stays.
LEMMA LoopEffect ==
  ASSUME Inv, Shut, ~Undefined, LoopWorks
  PROVE  /\ UNCHANGED <<appVars, pending, radio, hooks, task, served>>
         /\ UNCHANGED <<loop, created, dispatchers, subscribed>>
         /\ UNCHANGED <<open, alive, hand, writers, lock, restoring, handler>>
         /\ app \notin Booting
         /\ ~("service" \in down \ early) /\ ~("http" \in down \ early /\ ~stuck)
         /\ stuck => stuck'
<1>1. app \notin Booting /\ ~("service" \in down \ early)
  BY Busy
<1>2. ~("http" \in down \ early /\ ~stuck)
  BY DEF Shut, AfterHttp, LoopWorks, LoopTakes, Take, LoopUnpacks, LoopCopies, LoopSends,
     LoopSwitches, LoopPosts, LoopStarts, LoopStops, LoopStopped, LoopAt, NoWork
<1>3. CASE LoopTakes \/ LoopUnpacks \/ LoopCopies \/ LoopSwitches
  BY <1>1, <1>2, <1>3 DEF LoopTakes, Take, LoopUnpacks, LoopCopies, LoopSwitches, OnlyLoop,
     srvVars, httpVars, busVars
<1>4. CASE LoopSends \/ LoopPosts
  BY <1>1, <1>2, <1>4 DEF LoopSends, LoopPosts, OnlyLoop, Send, httpVars, busVars
<1>5. CASE LoopStarts \/ LoopStops \/ LoopStopped
  BY <1>1, <1>2, <1>5 DEF LoopStarts, LoopStops, LoopStopped, OnlyLoop, srvVars, busVars, httpVars,
     ServerStart, StopCalled, StopFails, StopReturned
<1> QED BY <1>1, <1>2, <1>3, <1>4, <1>5 DEF LoopWorks

\* The event loop works.
LEMMA ShutLoop ==
  ASSUME Inv, Shut, ~Undefined, LoopWorks
  PROVE  Shut'
<1>1. /\ UNCHANGED <<app, down, early, leaked, pending, radio, hooks, task, served>>
      /\ UNCHANGED <<loop, created, dispatchers, subscribed>>
      /\ UNCHANGED <<open, alive, hand, writers, lock, restoring, handler>>
      /\ app \notin Booting
      /\ ~("service" \in down \ early) /\ ~("http" \in down \ early /\ ~stuck)
      /\ stuck => stuck'
  BY LoopEffect DEF appVars
<1>2. BootOK' /\ AfterHttp' /\ AfterService'
  BY <1>1 DEF Shut, BootOK, AfterHttp, AfterService
<1>3. DownOK'
  <2>1. loopq = <<>> => loopq' = <<>>
    BY DEF LoopWorks, LoopTakes, Take, LoopUnpacks, LoopCopies, LoopSends, LoopSwitches, LoopPosts,
       LoopStarts, LoopStops, LoopStopped, busVars
  <2> QED BY <1>1, <2>1 DEF Shut, DownOK, HandlerFreed
<1>4. /\ open \/ "service" \in early
      /\ HandlerFreed => "service" \in early
      /\ Causes /\ ServerOK /\ RadioOff /\ misused = {}
  BY Busy, Before DEF Shut
<1>5. CASE LoopTakes
  <2> DEFINE e == Head(loopq)
  <2>1. /\ loopq # <<>> /\ loopq' = Tail(loopq) /\ UNCHANGED <<server, httpd, stuck>>
        /\ work.step = "idle"
        /\ work' = IF Handled(e) THEN [step |-> "unpack", block |-> e.block]
                   ELSE IF e.type \in hooks THEN [step |-> e.type, block |-> NoBlock]
                   ELSE NoWork
        /\ IF Touches(e) THEN IF HandlerFreed THEN Misuse("handler") ELSE UNCHANGED heapVars
           ELSE IF Handled(e) THEN UNCHANGED heapVars ELSE Lose({e.block})
    BY <1>5 DEF LoopTakes, Take, LoopAt, httpVars
  <2>2. loopq \in Seq(LoopEvents) /\ e \in LoopEvents
    BY <2>1 DEF Inv, BusOK
  <2>3. e.type \in Types \cup DriverTypes /\ (e.block # NoBlock => e.type = "mode")
    BY <2>2 DEF LoopEvents
  <2>4. Handled(e) => e.type \in Types
    BY DEF Handled, Inv, BusOK
  <2> HIDE DEF e
  <2>5. Causes'
    <3>1. CASE Touches(e)
      BY <1>1, <1>4, <2>1, <3>1 DEF Causes, Misuse, heapVars
    <3>2. CASE ~Touches(e) /\ Handled(e)
      BY <1>1, <1>4, <2>1, <3>2 DEF Causes, heapVars
    <3>3. CASE ~Touches(e) /\ ~Handled(e)
      <4>1. misused' = misused /\ lost' = lost \cup ({e.block} \ {NoBlock})
        BY <2>1, <3>3 DEF Lose
      <4>2. CASE e.block = NoBlock
        BY <1>1, <1>4, <4>1, <4>2 DEF Causes
      <4>3. CASE e.block # NoBlock
        <5>1. e.type = "mode" /\ ("mode" \notin subscribed \/ "HTTP" \notin dispatchers)
          BY <2>3, <3>3, <4>3 DEF Handled, BaseOf, Types
        <5>2. app \notin NoService /\ app \notin {"nvs", "bus", "failed"}
          BY <1>1 DEF Booting, NoService
        <5>3. "bus" \notin down
          BY <2>1 DEF Shut, DownOK
        <5>4. "service" \in down
          BY <5>1, <5>2, <5>3 DEF Shut, BootOK
        <5>5. "service" \in early'
          BY <1>1, <5>4
        <5> QED BY <1>4, <4>1, <5>5 DEF Causes
      <4> QED BY <4>2, <4>3
    <3> QED BY <3>1, <3>2, <3>3
  <2>6. work'.step = IF Handled(e) THEN "unpack" ELSE IF e.type \in hooks THEN e.type ELSE "idle"
    BY <2>1 DEF NoWork
  <2>7. RadioOff'
    <3> SUFFICES ASSUME ~stuck, ~radio, loop, hooks = DriverTypes
                 PROVE  /\ Settled(loopq')
                        /\ work'.step = "START" \/ (server /\ work'.step \notin {"STOP", "wait"})
                             => StopsIn(loopq')
      BY <1>1, <2>1 DEF RadioOff
    <3>1. Settled(loopq) /\ (server => StopsIn(loopq))
      BY <1>4, <2>1 DEF RadioOff
    <3>2. /\ Settled(loopq') /\ (e.type = "START" => StopsIn(loopq'))
          /\ e.type # "STOP" /\ StopsIn(loopq) => StopsIn(loopq')
      BY <2>1, <2>2, <3>1, TakeStops DEF e
    <3>3. work'.step = "START" => e.type = "START"
      BY <2>4, <2>6
    <3>4. e.type = "STOP" => work'.step = "STOP"
      BY <2>4, <2>6 DEF DriverTypes, Types
    <3> QED BY <3>1, <3>2, <3>3, <3>4
  <2>8. ServerOK'
    BY <1>1, <1>4, <2>1 DEF ServerOK
  <2> QED BY <1>2, <1>3, <2>5, <2>7, <2>8 DEF Shut
<1>6. CASE LoopUnpacks \/ LoopCopies \/ LoopSends \/ LoopSwitches \/ LoopPosts
  <2>1. /\ UNCHANGED <<server, httpd, stuck, loopq>> /\ work.step \notin {"START", "STOP", "wait"}
        /\ work'.step \notin {"START", "STOP", "wait"}
    BY <1>6 DEF LoopUnpacks, LoopCopies, LoopSends, LoopSwitches, LoopPosts, LoopAt, LoopGoto,
       httpVars, busVars
  <2>2. RadioOff' /\ ServerOK'
    BY <1>1, <1>4, <2>1 DEF RadioOff, ServerOK
  <2>3. work.block \in heap \cup {NoBlock}
    BY Holders DEF Inv
  <2>4. CASE LoopSends \/ LoopPosts
    <3>1. \E m : Send(m) /\ m.block \in heap \cup {NoBlock}
      BY <2>3, <2>4, Entry DEF LoopSends, LoopPosts
    <3> QED BY <1>1, <1>2, <1>3, <1>4, <2>2, <3>1, SendCauses DEF Shut
  <2>5. CASE LoopUnpacks \/ LoopCopies \/ LoopSwitches
    <3>1. lost' = lost /\ misused' = misused
      BY <2>3, <2>5 DEF LoopUnpacks, LoopCopies, LoopSwitches, Release, Allocate, heapVars
    <3>2. Causes'
      BY <1>1, <1>4, <3>1 DEF Causes
    <3> QED BY <1>2, <1>3, <2>2, <3>2 DEF Shut
  <2> QED BY <1>6, <2>4, <2>5
<1>7. CASE LoopStarts \/ LoopStopped
  <2>1. /\ UNCHANGED heapVars /\ loopq' = loopq /\ work'.step \in {"idle", "undo"}
        /\ work.step \in {"START", "wait"} /\ stuck' = stuck
    BY <1>7 DEF LoopStarts, LoopStopped, LoopAt, LoopGoto, busVars, ServerStart, StopReturned
  <2>2. Causes'
    BY <1>1, <1>4, <2>1 DEF Causes, heapVars
  <2>3. CASE LoopStarts
    <3>1. /\ work.step = "START" /\ task' = task
          /\ \/ UNCHANGED <<server, httpd>>
             \/ server' = TRUE /\ httpd' = "up"
      BY <2>3 DEF LoopStarts, LoopAt, ServerStart
    <3>2. RadioOff'
      BY <1>1, <1>4, <2>1, <3>1 DEF RadioOff
    <3>3. ServerOK'
      BY <1>1, <1>4, <2>1, <3>1 DEF ServerOK
    <3> QED BY <1>2, <1>3, <2>2, <3>2, <3>3 DEF Shut
  <2>4. CASE LoopStopped
    <3>1. httpd = "down" /\ httpd' = httpd /\ server' = FALSE
      BY <2>4 DEF LoopStopped, StopReturned
    <3>2. RadioOff'
      BY <1>1, <1>4, <2>1, <3>1 DEF RadioOff
    <3>3. ServerOK'
      BY <1>1, <1>4, <3>1 DEF ServerOK
    <3> QED BY <1>2, <1>3, <2>2, <3>2, <3>3 DEF Shut
  <2> QED BY <1>7, <2>3, <2>4
<1>8. CASE LoopStops
  <2>1. /\ work.step \in {"STOP", "undo"} /\ loopq' = loopq
        /\ IF server /\ httpd # "up" THEN Misuse("server") ELSE UNCHANGED heapVars
        /\ \/ /\ server /\ server' = server /\ httpd' = "closing" /\ work'.step = "wait" /\ stuck' = stuck
           \/ /\ server /\ httpd' = httpd /\ work'.step = "idle" /\ stuck' = TRUE
              /\ server' \in BOOLEAN
           \/ /\ ~server /\ UNCHANGED <<server, httpd, stuck>> /\ work'.step = "idle"
    <3>1. /\ LoopAt("STOP") \/ LoopAt("undo")
          /\ \/ StopCalled /\ LoopGoto("wait", NoBlock)
             \/ StopFails(LoopAt("STOP")) /\ LoopGoto("idle", NoBlock)
             \/ ~server /\ LoopGoto("idle", NoBlock) /\ UNCHANGED httpVars
          /\ IF server /\ httpd # "up" THEN Misuse("server") ELSE UNCHANGED heapVars
          /\ UNCHANGED busVars
      BY <1>8 DEF LoopStops
    <3>2. LoopAt("STOP") \in BOOLEAN
      BY DEF LoopAt
    <3>3. \A s, b : LoopGoto(s, b) => work'.step = s
      BY DEF LoopGoto
    <3>4. StopFails(LoopAt("STOP")) =>
            server /\ httpd' = httpd /\ stuck' = TRUE /\ server' \in BOOLEAN
      BY <3>2 DEF StopFails
    <3>5. loopq' = loopq /\ work.step \in {"STOP", "undo"}
      BY <3>1 DEF busVars, LoopAt
    <3> QED BY <3>1, <3>3, <3>4, <3>5 DEF StopCalled, httpVars
  <2>2. Causes'
    <3>1. CASE server /\ httpd # "up"
      <4>1. app = "closing"
        BY <1>4, <2>1, <3>1 DEF ServerOK
      <4>2. "http" \in early \/ stuck
        BY <1>1, <4>1 DEF Shut, DownOK
      <4>3. misused' = misused \cup {"server"} /\ lost' = lost
        BY <2>1, <3>1 DEF Misuse
      <4> QED BY <1>1, <1>4, <4>2, <4>3 DEF Causes
    <3>2. CASE ~(server /\ httpd # "up")
      BY <1>1, <1>4, <2>1, <3>2 DEF Causes, heapVars
    <3> QED BY <3>1, <3>2
  <2>3. RadioOff'
    BY <1>1, <1>4, <2>1 DEF RadioOff
  <2>4. ServerOK'
    BY <1>1, <1>4, <2>1 DEF ServerOK
  <2> QED BY <1>2, <1>3, <2>2, <2>3, <2>4 DEF Shut
<1> QED BY <1>5, <1>6, <1>7, <1>8 DEF LoopWorks

\* The service works on a message.
LEMMA ShutSvc ==
  ASSUME Inv, Shut, ~Undefined, ServiceWorks
  PROVE  Shut'
<1>1. /\ UNCHANGED <<busVars, httpVars, appVars, work, radio>>
      /\ UNCHANGED <<open, alive, lock, restoring, handler>>
  BY DEF ServiceWorks, SvcReceive, SvcFlash, SvcStart, SvcStop, loopVars
<1>2. UNCHANGED <<loop, created, dispatchers, subscribed, loopq, server, httpd, hooks, task, stuck, app,
                  down, early, leaked>>
  BY <1>1 DEF busVars, httpVars, appVars
<1>3. app \notin Booting /\ ("service" \in down => "service" \in early)
  BY Busy
<1>4. BootOK' /\ DownOK' /\ ServerOK' /\ AfterService'
  BY <1>1, <1>2, <1>3 DEF Shut, BootOK, DownOK, ServerOK, AfterService, HandlerFreed
<1>5. RadioOff'
  BY <1>1, <1>2 DEF Shut, RadioOff
<1>6. Causes'
  <2>1. hand.block \in heap \cup {NoBlock}
    BY Holders DEF Inv
  <2>2. lost' = lost /\ misused' = misused
    BY <2>1 DEF ServiceWorks, SvcReceive, SvcFlash, SvcStart, SvcStop, Release, heapVars
  <2> QED BY <1>2, <2>2 DEF Shut, Causes
<1>7. AfterHttp'
  <2> SUFFICES ASSUME "http" \in down \ early, ~stuck PROVE AfterHttp'
    BY <1>2 DEF AfterHttp
  <2>1. /\ pending = <<>> /\ loopq = <<>> /\ work = NoWork /\ ~radio /\ NoStarts
        /\ server => ~loop /\ app = "closing"
    BY DEF Shut, AfterHttp
  <2>2. CASE SvcReceive /\ UNCHANGED loopVars
    <3>1. /\ messages # <<>> /\ messages \in Seq(SrvMessages)
          /\ hand' = Head(messages) /\ messages' = Tail(messages)
      BY <2>2 DEF SvcReceive, Inv, SrvOK
    <3>2. NoStarts'
      <4>1. /\ Head(messages) = messages[1] /\ 1 \in 1 .. Len(messages)
            /\ \A i \in 1 .. Len(Tail(messages)) :
                 Tail(messages)[i] = messages[i + 1] /\ i + 1 \in 1 .. Len(messages)
        BY <3>1
      <4> QED BY <2>1, <3>1, <4>1 DEF NoStarts
    <3> QED BY <1>1, <1>2, <2>1, <2>2, <3>2 DEF AfterHttp, loopVars
  <2>3. CASE SvcFlash /\ UNCHANGED loopVars
    <3>1. NoStarts'
      BY <2>1, <2>3 DEF SvcFlash, NoStarts, NoMessage, Message
    <3> QED BY <1>1, <1>2, <2>1, <2>3, <3>1 DEF AfterHttp, loopVars
  <2>4. CASE SvcStart
    BY <2>1, <2>4 DEF SvcStart, NoStarts
  <2>5. CASE SvcStop
    <3>1. NoStarts' /\ pending' = <<>>
      BY <2>1, <2>5 DEF SvcStop, NoStarts, NoMessage, Message
    <3> QED BY <1>1, <1>2, <2>1, <3>1 DEF AfterHttp
  <2> QED BY <2>2, <2>3, <2>4, <2>5 DEF ServiceWorks
<1> QED BY <1>4, <1>5, <1>6, <1>7 DEF Shut

\* A flash task works.
LEMMA ShutFlash ==
  ASSUME Inv, Shut, ~Undefined, FlashWorks
  PROVE  Shut'
<1>1. /\ UNCHANGED <<busVars, httpVars, appVars, loopVars>>
      /\ UNCHANGED <<open, messages, hand, handler>>
  BY DEF FlashWorks, FlashTakes, FlashEnds, Restore
<1>2. UNCHANGED <<loop, created, dispatchers, subscribed, loopq, server, httpd, hooks, task, stuck, app,
                  down, early, leaked, work, pending, radio>>
  BY <1>1 DEF busVars, httpVars, appVars, loopVars
<1>3. /\ app \notin Booting /\ ("service" \in down => "service" \in early)
      /\ HandlerFreed => "service" \in early
  BY Busy
<1>4. BootOK' /\ DownOK' /\ ServerOK' /\ AfterService'
  BY <1>1, <1>2, <1>3 DEF Shut, BootOK, DownOK, ServerOK, AfterService, HandlerFreed
<1>5. RadioOff' /\ AfterHttp'
  BY <1>1, <1>2 DEF Shut, RadioOff, AfterHttp, NoStarts
<1>6. Causes'
  <2>1. CASE FlashTakes \/ FlashEnds
    <3>1. \A b \in writers : b \in heap \cup {NoBlock}
      BY Holders DEF Inv
    <3>2. lost' = lost /\ misused' \in {misused, misused \cup {"handler"}}
          /\ (misused' # misused => HandlerFreed)
      BY <2>1, <3>1 DEF FlashTakes, FlashEnds, Release, Misuse, heapVars, HandlerFreed
    <3> QED BY <1>2, <1>3, <3>2, Before DEF Shut, Causes
  <2>2. CASE Restore
    <3>1. lost' = lost /\ misused' \in {misused, misused \cup {"handler"}}
          /\ (misused' # misused => HandlerFreed)
      BY <2>2 DEF Restore, Misuse, heapVars
    <3> QED BY <1>2, <1>3, <3>1, Before DEF Shut, Causes
  <2> QED BY <2>1, <2>2 DEF FlashWorks
<1> QED BY <1>4, <1>5, <1>6 DEF Shut

\* The driver posts an event.
LEMMA ShutDriver ==
  ASSUME Inv, Shut, ~Undefined, DriverEmits
  PROVE  Shut'
<1> DEFINE e == Event(Head(pending), NoBlock)
<1>1. /\ UNCHANGED <<srvVars, httpVars, appVars, work>> /\ pending # <<>>
      /\ \/ UNCHANGED <<busVars, radio>>
         \/ /\ Head(pending) # "end" /\ radio' = (Head(pending) = "START")
            /\ IF loop THEN Enqueue(e) ELSE UNCHANGED busVars
      /\ IF HandlerFreed THEN Misuse("handler") ELSE UNCHANGED heapVars
  BY DEF DriverEmits
<1>2. UNCHANGED <<loop, created, dispatchers, subscribed, server, httpd, hooks, task, stuck, app, down,
                  early, leaked, open, handler>>
  BY <1>1 DEF busVars, httpVars, appVars, srvVars, Enqueue
<1>3. /\ app \notin Booting /\ ("service" \in down => "service" \in early)
      /\ HandlerFreed => "service" \in early
  BY Busy
<1>4. ~("http" \in down \ early /\ ~stuck) /\ ~("service" \in down \ early)
  BY <1>1, <1>3 DEF Shut, AfterHttp
<1>5. BootOK' /\ ServerOK' /\ AfterHttp' /\ AfterService'
  BY <1>1, <1>2, <1>3, <1>4 DEF Shut, BootOK, ServerOK, AfterHttp, AfterService
<1>6. DownOK'
  <2>1. ~loop => loopq' = loopq
    BY <1>1 DEF busVars
  <2> QED BY <1>2, <2>1 DEF Shut, DownOK, HandlerFreed
<1>7. RadioOff'
  <2>1. CASE UNCHANGED <<busVars, radio>>
    BY <1>1, <1>2, <2>1 DEF Shut, RadioOff, busVars
  <2>2. CASE /\ Head(pending) # "end" /\ radio' = (Head(pending) = "START")
             /\ IF loop THEN Enqueue(e) ELSE UNCHANGED busVars
    <3> SUFFICES ASSUME ~radio', loop', hooks' = DriverTypes PROVE RadioOff'
      BY DEF RadioOff
    <3>1. Head(pending) = "STOP"
      <4>1. Head(pending) \in Turns
        BY <1>1 DEF Inv, LoopOK
      <4> QED BY <2>2, <4>1 DEF Turns, DriverTypes
    <3>2. e \in LoopEvents /\ e.type = "STOP" /\ loopq' = Append(loopq, e) /\ loopq \in Seq(LoopEvents)
      BY <1>2, <2>2, <3>1, Entry DEF Enqueue, Event, DriverTypes, Inv, BusOK
    <3> HIDE DEF e
    <3>3. Settled(loopq') /\ StopsIn(loopq')
      BY <3>2, PutStops
    <3> QED BY <3>3 DEF RadioOff
  <2> QED BY <1>1, <2>1, <2>2
<1>8. Causes'
  <2>1. lost' = lost /\ misused' \in {misused, misused \cup {"handler"}}
        /\ (misused' # misused => HandlerFreed)
    BY <1>1 DEF Misuse, heapVars
  <2> QED BY <1>2, <1>3, <2>1, Before DEF Shut, Causes
<1> QED BY <1>5, <1>6, <1>7, <1>8 DEF Shut

\* Where app_main goes after the parts that only allocate.
LEMMA BootNext ==
  ASSUME BootAllocates
  PROVE  \/ app = "nvs" /\ app' \in {"bus", "failed"}
         \/ app = "storage" /\ app' \in {"manager", "failed"}
         \/ app = "manager" /\ app' \in {"service", "failed"}
<1>1. /\ Boot[1] = "nvs" /\ Boot[2] = "bus" /\ Boot[3] = "storage" /\ Boot[4] = "manager"
      /\ Boot[5] = "service" /\ Boot[6] = "start" /\ Boot[7] = "http" /\ Boot[8] = "mode"
      /\ Boot[9] = "load" /\ DOMAIN Boot = 1 .. 9
  BY DEF Boot
<1>2. PICK i \in 1 .. 9 :
        /\ Boot[i] = app /\ app \in {"nvs", "storage", "manager"}
        /\ app' = Boot[i + 1] \/ app' = "failed"
  BY <1>1 DEF BootAllocates, AppGoto
<1>3. i = 1 \/ i = 3 \/ i = 4
  <2>1. i \in {1, 2, 3, 4, 5, 6, 7, 8, 9}
    OBVIOUS
  <2>2. i # 2 /\ i # 5 /\ i # 6 /\ i # 7 /\ i # 8 /\ i # 9
    BY <1>1, <1>2
  <2> QED BY <2>1, <2>2
<1>4. CASE i = 1
  <2>1. i + 1 = 2
    BY <1>4
  <2> QED BY <1>1, <1>2, <1>4, <2>1
<1>5. CASE i = 3
  <2>1. i + 1 = 4
    BY <1>5
  <2> QED BY <1>1, <1>2, <1>5, <2>1
<1>6. CASE i = 4
  <2>1. i + 1 = 5
    BY <1>6
  <2> QED BY <1>1, <1>2, <1>6, <2>1
<1> QED BY <1>3, <1>4, <1>5, <1>6

\* app_main brings up a part.
LEMMA ShutBoots ==
  ASSUME Inv, Shut, ~Undefined, AppBoots
  PROVE  Shut'
<1>1. CASE BootBus
  <2>1. /\ app = "bus" /\ app' \in {"storage", "failed"}
        /\ app' = "storage" => BusInit("ok")
        /\ UNCHANGED <<heapVars, srvVars, httpVars, loopVars, down, early, leaked, loopq>>
        /\ \E o \in {"ok", "create", "wifi", "http"} : BusInit(o)
    BY <1>1 DEF BootBus, AppAt, AppGoto, BusInit
  <2>2. Off /\ down = {} /\ created = FALSE /\ loop = FALSE
    <3>1. app \in Booting /\ app \in {"nvs", "bus"}
      BY <2>1 DEF Booting, NoService
    <3> QED BY <3>1 DEF Shut, BootOK, Inv, BusOK
  <2>3. Off'
    BY <2>1, <2>2 DEF Off, NoServer, srvVars, httpVars, loopVars
  <2>4. created' = loop' /\ (app' = "storage" => loop' /\ "HTTP" \in dispatchers')
    BY <2>1, <2>2 DEF BusInit, Bases
  <2>5. BootOK'
    BY <2>1, <2>2, <2>3, <2>4 DEF BootOK, Booting, NoService
  <2>6. DownOK' /\ ServerOK' /\ AfterHttp' /\ AfterService' /\ Causes'
    BY <2>1, <2>2 DEF Shut, DownOK, HandlerFreed, ServerOK, AfterHttp, AfterService, Causes, srvVars,
       httpVars, loopVars, heapVars
  <2>7. RadioOff'
    BY <2>3, NoStops DEF RadioOff, Off, NoServer, NoWork
  <2> QED BY <2>5, <2>6, <2>7 DEF Shut
<1>2. CASE BootAllocates \/ BootService \/ BootStart
  <2>1. /\ UNCHANGED <<heapVars, httpVars, loopVars, down, early, leaked>>
        /\ UNCHANGED <<loop, created, dispatchers, loopq>>
        /\ UNCHANGED <<messages, hand, writers, restoring>>
    BY <1>2 DEF BootAllocates, BootService, BootStart, AppGoto, SrvInit, SrvStart, Subscribe, busVars,
       srvVars
  <2>2. /\ app \in Booting \ {"bus", "failed"} /\ app' \in Booting /\ app' # "nvs"
        /\ app' = "bus" => app = "nvs"
        /\ app' \notin {"nvs", "bus", "failed"} => app \notin {"nvs", "bus", "failed"}
    BY <1>2, BootNext DEF BootService, BootStart, AppAt, AppGoto, Booting, NoService
  <2>3. app' \notin NoService => open' /\ "mode" \in subscribed'
    <3>1. CASE BootAllocates
      BY <3>1, BootNext DEF NoService
    <3>2. CASE BootService
      BY <3>2 DEF BootService, SrvInit, Subscribe, AppGoto, NoService
    <3>3. CASE BootStart
      <4>1. app \notin NoService /\ down = {}
        BY <2>2, <3>3 DEF BootStart, AppAt, NoService, Shut, BootOK
      <4>2. open /\ "mode" \in subscribed
        BY <4>1 DEF Shut, BootOK
      <4>3. open' = open /\ subscribed' = subscribed
        BY <3>3 DEF BootStart, SrvStart, srvVars, busVars
      <4> QED BY <4>2, <4>3
    <3> QED BY <1>2, <3>1, <3>2, <3>3
  <2>4. handler' \in {"freed", "gone"} => handler' = handler
    BY <1>2 DEF BootAllocates, BootService, BootStart, SrvInit, SrvStart, srvVars
  <2>5. Off /\ down = {}
    BY <2>2 DEF Shut, BootOK
  <2>6. Off'
    BY <2>1, <2>5 DEF Off, NoServer, httpVars, loopVars
  <2>7. BootOK'
    BY <2>1, <2>2, <2>3, <2>5, <2>6 DEF Shut, BootOK, Booting
  <2>8. DownOK' /\ ServerOK' /\ AfterHttp' /\ AfterService' /\ Causes'
    BY <2>1, <2>2, <2>4, <2>5
       DEF Shut, DownOK, HandlerFreed, ServerOK, AfterHttp, AfterService, Causes, httpVars, loopVars,
           heapVars, Booting, NoService
  <2>9. RadioOff'
    BY <2>6, NoStops DEF RadioOff, Off, NoServer, NoWork
  <2> QED BY <2>7, <2>8, <2>9 DEF Shut
<1>3. CASE BootHttp
  <2>1. /\ UNCHANGED <<heapVars, busVars, srvVars, loopVars, server, httpd, task, stuck, down, early,
                       leaked>>
        /\ app = "http" /\ app' \in {"mode", "failed"}
        /\ app' = "mode" => hooks' = DriverTypes
    BY <1>3 DEF BootHttp, AppAt, AppGoto, ServerInit
  <2>2. Off /\ down = {}
    <3>1. app \in Booting
      BY <2>1 DEF Booting
    <3> QED BY <3>1 DEF Shut, BootOK
  <2>3. Off'
    BY <2>1, <2>2 DEF Off, NoServer, busVars, srvVars, loopVars
  <2>4. BootOK'
    BY <2>1, <2>2, <2>3 DEF Shut, BootOK, Booting, NoService, busVars, srvVars
  <2>5. DownOK' /\ ServerOK' /\ AfterHttp' /\ AfterService' /\ Causes'
    BY <2>1, <2>2 DEF Shut, DownOK, HandlerFreed, ServerOK, AfterHttp, AfterService, Causes, busVars,
       srvVars, loopVars, heapVars
  <2>6. RadioOff'
    BY <2>3, NoStops DEF RadioOff, Off, NoServer, NoWork
  <2> QED BY <2>4, <2>5, <2>6 DEF Shut
<1>4. CASE BootPosts
  <2>1. /\ UNCHANGED <<busVars, httpVars, loopVars, down, early, leaked>>
        /\ \/ app = "mode" /\ app' = "load"
           \/ app = "load" /\ app' = "up"
        /\ \E m : Send(m) /\ m.block = NoBlock
    BY <1>4, Entry DEF BootPosts, AppAt, AppGoto
  <2>2. down = {} /\ open
    BY <2>1 DEF Shut, BootOK, NoService
  <2>3. UNCHANGED <<open, hand, writers, restoring, handler>>
    BY <2>1 DEF Send
  <2>4. Causes'
    BY <2>1, <2>2, SendCauses DEF Shut, httpVars
  <2>5. BootOK'
    BY <2>1, <2>2, <2>3 DEF Shut, BootOK, Booting, NoService, busVars, httpVars
  <2>6. DownOK' /\ ServerOK' /\ AfterHttp' /\ AfterService' /\ RadioOff'
    BY <2>1, <2>2, <2>3 DEF Shut, DownOK, HandlerFreed, ServerOK, AfterHttp, AfterService, RadioOff,
       busVars, httpVars, loopVars
  <2> QED BY <2>4, <2>5, <2>6 DEF Shut
<1> QED BY <1>1, <1>2, <1>3, <1>4 DEF AppBoots

\* The radio is switched off.
LEMMA ShutsRadio ==
  ASSUME Inv, Shut, ~Undefined, ShutRadio
  PROVE  Shut'
<1>1. /\ app = "up" /\ app' = "up" /\ down' = down \cup {"radio"} /\ UNCHANGED <<early, leaked>>
      /\ UNCHANGED <<busVars, httpVars, loopVars>>
      /\ IF open THEN Send(Message("STOP", NoBlock)) ELSE UNCHANGED <<heapVars, srvVars>>
  BY DEF ShutRadio, Begin, AppAt, TimeOf
<1>2. /\ UNCHANGED <<open, hand, writers, restoring, handler>>
      /\ messages' = messages \/ (open /\ messages' = Append(messages, Message("STOP", NoBlock)))
  BY <1>1 DEF Send, srvVars
<1>3. BootOK' /\ DownOK' /\ ServerOK' /\ RadioOff'
  BY <1>1, <1>2 DEF Shut, BootOK, DownOK, HandlerFreed, ServerOK, RadioOff, busVars, httpVars,
     loopVars, Booting, NoService
<1>4. Causes'
  <2>1. CASE open
    <3>1. Message("STOP", NoBlock).block \in heap \cup {NoBlock}
      BY DEF Message
    <3>2. lost' = lost /\ misused' = misused
      BY <1>1, <2>1, <3>1 DEF Send, Release, heapVars
    <3> QED BY <1>1, <3>2 DEF Shut, Causes, httpVars
  <2>2. CASE ~open
    BY <1>1, <2>2 DEF Shut, Causes, heapVars, httpVars
  <2> QED BY <2>1, <2>2
<1>5. AfterHttp'
  <2> SUFFICES ASSUME "http" \in down \ early, ~stuck PROVE AfterHttp'
    BY <1>1 DEF AfterHttp, httpVars
  <2>1. /\ pending = <<>> /\ loopq = <<>> /\ work = NoWork /\ ~radio /\ NoStarts /\ ~server
    BY <1>1 DEF Shut, AfterHttp
  <2>2. NoStarts'
    <3>1. messages \in Seq(SrvMessages) /\ Message("STOP", NoBlock).event # "START"
      BY DEF Inv, SrvOK, Message
    <3>2. CASE messages' = messages
      BY <1>2, <2>1, <3>2 DEF NoStarts
    <3>3. CASE messages' = Append(messages, Message("STOP", NoBlock))
      BY <1>2, <2>1, <3>1, <3>3 DEF NoStarts
    <3> QED BY <1>2, <3>2, <3>3
  <2> QED BY <1>1, <2>1, <2>2 DEF AfterHttp, busVars, httpVars, loopVars
<1>6. AfterService'
  <2> SUFFICES ASSUME "service" \in down \ early PROVE AfterService'
    BY <1>1 DEF AfterService
  <2>1. ~open /\ Off /\ "http" \in down
    BY <1>1 DEF Shut, DownOK, AfterService
  <2> QED BY <1>1, <1>2, <2>1 DEF AfterService, Off, NoServer, busVars, httpVars, loopVars
<1> QED BY <1>3, <1>4, <1>5, <1>6 DEF Shut

\* The server is taken down.
LEMMA ShutsHttp ==
  ASSUME Inv, Shut, ~Undefined, ShutHttp
  PROVE  Shut'
<1>1. UNCHANGED <<busVars, srvVars, loopVars>> /\ early \subseteq down
  BY DEF ShutHttp, Inv, AppOK
<1>2. UNCHANGED <<loop, created, dispatchers, subscribed, loopq, open, messages, hand, writers, restoring,
                  handler, work, pending, radio>>
  BY <1>1 DEF busVars, srvVars, loopVars
<1>3. CASE app = "up"
  <2>1. /\ "http" \notin down /\ down' = down \cup {"http"} /\ leaked' = leaked
        /\ early' = IF Quiet THEN early ELSE early \cup {"http"}
        /\ UNCHANGED <<server, hooks, task>>
        /\ \/ server /\ app' = "closing" /\ httpd' = "closing" /\ stuck' = stuck
           \/ server /\ app' = "unhook" /\ httpd' = httpd /\ stuck' = TRUE
           \/ ~server /\ app' = "unhook" /\ httpd' = httpd /\ stuck' = stuck
        /\ IF server /\ httpd # "up" THEN Misuse("server") ELSE UNCHANGED heapVars
    BY <1>3 DEF ShutHttp, Begin, AppAt, TimeOf, StopCalled, StopFails, httpVars
  <2>2. BootOK' /\ DownOK' /\ RadioOff'
    BY <1>2, <1>3, <2>1 DEF Shut, BootOK, DownOK, HandlerFreed, RadioOff, Booting, NoService
  <2>3. ServerOK'
    BY <1>2, <1>3, <2>1 DEF Shut, ServerOK
  <2>4. AfterService'
    BY <1>1, <2>1 DEF Shut, AfterService
  <2>5. AfterHttp'
    <3> SUFFICES ASSUME Quiet, ~stuck, ~stuck' PROVE AfterHttp'
      BY <2>1 DEF AfterHttp
    <3>1. /\ pending = <<>> /\ loopq = <<>> /\ work = NoWork /\ ~radio
          /\ messages = <<>> /\ hand = NoMessage
      BY DEF Quiet
    <3>2. NoStarts'
      BY <1>2, <3>1 DEF NoStarts, NoMessage, Message
    <3>3. server => ~loop
      <4>1. hooks = DriverTypes
        BY <1>3, <2>1 DEF Shut, BootOK, Booting, NoService
      <4>2. ~StopsIn(loopq) /\ work.step \notin {"STOP", "wait"}
        BY <3>1, NoStops DEF NoWork
      <4> QED BY <3>1, <4>1, <4>2 DEF Shut, RadioOff
    <3> QED BY <1>2, <2>1, <3>1, <3>2, <3>3 DEF AfterHttp
  <2>6. Causes'
    <3>1. CASE server /\ httpd # "up"
      <4>1. work.step = "wait"
        BY <1>3, <3>1 DEF Shut, ServerOK
      <4>2. ~Quiet
        BY <4>1 DEF Quiet, NoWork
      <4>3. misused' = misused \cup {"server"} /\ lost' = lost /\ "http" \in early'
        BY <2>1, <3>1, <4>2 DEF Misuse
      <4> QED BY <2>1, <4>3, Before DEF Shut, Causes
    <3>2. CASE ~(server /\ httpd # "up")
      BY <2>1, <3>2 DEF Shut, Causes, heapVars
    <3> QED BY <3>1, <3>2
  <2> QED BY <2>2, <2>3, <2>4, <2>5, <2>6 DEF Shut
<1>4. CASE app # "up"
  <2>1. /\ UNCHANGED <<heapVars, down, early, leaked, task, stuck>>
        /\ \/ /\ app = "closing" /\ app' = "unhook" /\ httpd = "down"
              /\ httpd' = httpd /\ server' = FALSE /\ hooks' = hooks
           \/ /\ app = "unhook" /\ app' = "up" /\ hooks' = {} /\ UNCHANGED <<server, httpd>>
    BY <1>4 DEF ShutHttp, Begin, AppAt, AppGoto, StopReturned, Unhook
  <2>2. "http" \in down
    BY <2>1 DEF Shut, DownOK
  <2>3. BootOK' /\ DownOK' /\ ServerOK' /\ Causes'
    BY <1>2, <2>1, <2>2 DEF Shut, BootOK, DownOK, HandlerFreed, ServerOK, Causes, Booting, NoService,
       heapVars
  <2>4. RadioOff'
    BY <1>2, <2>1 DEF Shut, RadioOff, DriverTypes
  <2>5. AfterHttp' /\ AfterService'
    BY <1>2, <2>1 DEF Shut, AfterHttp, AfterService, Off, NoServer, NoStarts
  <2> QED BY <2>3, <2>4, <2>5 DEF Shut
<1> QED BY <1>3, <1>4

\* The service is taken down.
LEMMA ShutsService ==
  ASSUME Inv, Shut, ~Undefined, ShutService
  PROVE  Shut'
<1>1. UNCHANGED <<httpVars, loopVars>> /\ early \subseteq down
  BY DEF ShutService, Inv, AppOK
<1>2. UNCHANGED <<loop, created, dispatchers, loopq, server, httpd, hooks, task, stuck, work, pending,
                  radio, writers, restoring>>
  BY <1>1 DEF ShutService, httpVars, loopVars, busVars, srvVars, SrvStop, SrvDrain, SrvDelete,
     HandlerFree, HandlerClear, Unsubscribe
<1>3. CASE app = "up"
  <2>1. /\ "service" \notin down /\ down' = down \cup {"service"} /\ app' = "stop" /\ leaked' = leaked
        /\ early' = IF TimeOf("service") THEN early ELSE early \cup {"service"}
        /\ UNCHANGED <<heapVars, srvVars, busVars>>
    BY <1>3 DEF ShutService, Begin, AppAt
  <2>2. BootOK' /\ DownOK' /\ RadioOff' /\ Causes'
    BY <1>2, <1>3, <2>1 DEF Shut, BootOK, DownOK, HandlerFreed, RadioOff, Causes, Booting, NoService,
       heapVars, srvVars, busVars
  <2>3. ServerOK'
    BY <1>2, <1>3, <2>1 DEF Shut, ServerOK
  <2>4. AfterHttp'
    BY <1>2, <1>3, <2>1 DEF Shut, AfterHttp, NoStarts, srvVars
  <2>5. AfterService'
    <3> SUFFICES ASSUME TimeOf("service") PROVE AfterService'
      BY <2>1 DEF AfterService
    <3>1. Off /\ "http" \in down
      BY DEF TimeOf, Quiet, Off
    <3> QED BY <1>2, <2>1, <3>1 DEF AfterService, Off, NoServer, srvVars
  <2> QED BY <2>2, <2>3, <2>4, <2>5 DEF Shut
<1>4. CASE app # "up"
  <2>1. /\ UNCHANGED <<down, early, leaked>>
        /\ \/ app = "stop"   /\ SrvStop   /\ app' = "drain"  /\ UNCHANGED busVars
           \/ app = "drain"  /\ SrvDrain  /\ app' = "delete" /\ UNCHANGED busVars
           \/ app = "delete" /\ SrvDelete /\ app' = "free"   /\ UNCHANGED busVars
           \/ /\ app = "free" /\ Unsubscribe("mode") /\ HandlerFree /\ app' = "clear"
              /\ UNCHANGED heapVars
           \/ app = "clear" /\ HandlerClear /\ app' = "up" /\ UNCHANGED <<heapVars, busVars>>
    BY <1>4 DEF ShutService, Begin, AppAt, AppGoto
  <2>2. "service" \in down
    BY <2>1 DEF Shut, DownOK
  <2>3. /\ open' = IF app = "delete" THEN FALSE ELSE open
        /\ handler' = IF app = "free" THEN "freed" ELSE IF app = "clear" THEN "gone" ELSE handler
        /\ messages' = messages \/ messages' = <<>>
        /\ hand' = hand \/ hand' = NoMessage
    BY <2>1 DEF SrvStop, SrvDrain, SrvDelete, HandlerFree, HandlerClear
  <2>4. BootOK' /\ RadioOff'
    BY <1>2, <2>1, <2>2 DEF Shut, BootOK, RadioOff, Booting, NoService
  <2>5. DownOK'
    BY <1>2, <2>1, <2>2, <2>3 DEF Shut, DownOK, HandlerFreed
  <2>6. ServerOK'
    BY <1>2, <2>1 DEF Shut, ServerOK
  <2>7. AfterHttp'
    <3>1. app # "closing"
      BY <2>1
    <3>2. NoStarts => NoStarts'
      BY <2>3 DEF NoStarts, NoMessage, Message
    <3> QED BY <1>2, <2>1, <3>1, <3>2 DEF Shut, AfterHttp
  <2>8. AfterService'
    BY <1>2, <2>1, <2>3 DEF Shut, AfterService, Off, NoServer
  <2>9. Causes'
    <3>1. misused' = misused
      BY <2>1 DEF SrvStop, SrvDrain, SrvDelete, Lose, heapVars
    <3>2. CASE "service" \in early
      BY <1>2, <2>1, <3>1, <3>2 DEF Shut, Causes
    <3>3. CASE "service" \notin early
      <4>1. hand = NoMessage /\ messages = <<>>
        BY <2>2, <3>3 DEF Shut, AfterService, Off
      <4>2. hand.block = NoBlock /\ BlocksOf(messages) = {}
        BY <4>1 DEF NoMessage, Message, BlocksOf
      <4>3. lost' = lost
        BY <2>1, <4>2 DEF SrvStop, SrvDrain, SrvDelete, Lose, heapVars
      <4> QED BY <1>2, <2>1, <3>1, <4>3 DEF Shut, Causes
    <3> QED BY <3>2, <3>3
  <2> QED BY <2>4, <2>5, <2>6, <2>7, <2>8, <2>9 DEF Shut
<1> QED BY <1>3, <1>4

\* The event bus is taken down.
LEMMA ShutsBus ==
  ASSUME Inv, Shut, ~Undefined, ShutBus
  PROVE  Shut'
<1>1. /\ UNCHANGED <<srvVars, httpVars, loopVars>> /\ BusDeinit /\ Lose(Undelivered)
      /\ app = "up" /\ app' = "up" /\ "bus" \notin down /\ down' = down \cup {"bus"}
      /\ early' = IF TimeOf("bus") THEN early ELSE early \cup {"bus"}
      /\ early \subseteq down /\ leaked' = leaked
  BY DEF ShutBus, Begin, AppAt, Inv, AppOK
<1>2. UNCHANGED <<open, messages, hand, writers, restoring, handler, server, httpd, hooks, task, stuck,
                  work, pending, radio>>
  BY <1>1 DEF srvVars, httpVars, loopVars
<1>3. created = TRUE /\ created' = FALSE /\ loop' = FALSE /\ loopq' = <<>>
  <2>1. created = loop /\ loop /\ created \in BOOLEAN
    BY <1>1 DEF Shut, BootOK, Inv, BusOK
  <2> QED BY <1>1, <2>1 DEF BusDeinit
<1>4. BootOK' /\ DownOK' /\ ServerOK' /\ RadioOff'
  BY <1>1, <1>2, <1>3 DEF Shut, BootOK, DownOK, HandlerFreed, ServerOK, RadioOff, Booting, NoService
<1>5. AfterHttp' /\ AfterService'
  BY <1>1, <1>2, <1>3 DEF Shut, AfterHttp, AfterService, Off, NoServer, NoStarts
<1>6. Causes'
  <2>1. misused' = misused /\ lost' = lost \cup (Undelivered \ {NoBlock})
    BY <1>1 DEF Lose
  <2>2. CASE early' \cap {"service", "bus"} # {}
    BY <1>1, <1>2, <2>1, <2>2 DEF Shut, Causes
  <2>3. CASE early' \cap {"service", "bus"} = {}
    <3>1. TimeOf("bus") /\ early' = early /\ "service" \notin early
      BY <1>1, <2>3
    <3>2. "service" \in down
      BY <3>1 DEF TimeOf
    <3>3. loopq = <<>>
      BY <3>1, <3>2 DEF Shut, AfterService, Off
    <3>4. Undelivered = {}
      BY <3>3 DEF Undelivered
    <3> QED BY <1>1, <1>2, <2>1, <3>1, <3>4 DEF Shut, Causes
  <2> QED BY <2>2, <2>3
<1> QED BY <1>4, <1>5, <1>6 DEF Shut

\* The status monitor looks, or reads.
LEMMA ShutMonitor ==
  ASSUME Inv, Shut, ~Undefined, MonitorLooks \/ MonitorReads
  PROVE  Shut'
<1>1. UNCHANGED <<srvVars, busVars, httpVars, loopVars, app, down, early, leaked>>
  BY DEF MonitorLooks, MonitorReads, MonitorTurns
<1>2. lost' = lost /\ misused' \in {misused, misused \cup {"state"}}
      /\ (misused' # misused => HandlerFreed)
  BY DEF MonitorLooks, MonitorReads, Misuse, heapVars
<1>3. Causes'
  BY <1>1, <1>2, Before DEF Shut, Causes, DownOK, httpVars
<1> QED BY <1>1, <1>3
        DEF Shut, BootOK, DownOK, HandlerFreed, ServerOK, RadioOff, AfterHttp, AfterService, Off, NoServer,
            NoStarts, srvVars, busVars, httpVars, loopVars

\* A pair is handed to wifi_flash_store_creds.
LEMMA ShutAppFlash ==
  ASSUME Inv, Shut, ~Undefined, AppFlash
  PROVE  Shut'
<1>1. /\ app = "up" /\ handler = "live" /\ down' = down \cup {"flash"}
      /\ UNCHANGED <<app, early, busVars, server, httpd, hooks, task, stuck, loopVars>>
      /\ UNCHANGED <<open, messages, hand, lock, restoring, handler>>
      /\ misused' = misused
      /\ \/ lost' = lost /\ leaked' = leaked
         \/ lost' = lost \cup {Fresh} /\ leaked' = leaked \cup {Fresh}
  BY DEF AppFlash, AppAt, ApiStore, ApiStoreLeaks, Allocate, srvVars
<1>2. "service" \notin down
  BY <1>1 DEF Shut, DownOK
<1>3. Causes'
  BY <1>1 DEF Shut, Causes
<1>4. AfterService'
  BY <1>1, <1>2 DEF AfterService
<1> QED BY <1>1, <1>3, <1>4
        DEF Shut, BootOK, DownOK, HandlerFreed, ServerOK, RadioOff, AfterHttp, NoStarts, busVars, httpVars,
            loopVars, Booting, NoService

-----------------------------------------------------------------------------
\* At boot nothing is under way.
LEMMA ShutInit == Init => Shut
<1> SUFFICES ASSUME Init PROVE Shut
  OBVIOUS
<1>1. Off
  BY DEF Init, BusStart, SrvOff, HttpOff, Off, NoServer
<1>2. BootOK /\ DownOK /\ ServerOK /\ AfterHttp /\ AfterService /\ Causes
  BY <1>1 DEF Init, HeapInit, BusStart, SrvOff, HttpOff, BootOK, DownOK, HandlerFreed, ServerOK, AfterHttp, AfterService,
     Causes, NoService, Booting
<1>3. RadioOff
  BY <1>1, NoStops DEF RadioOff, Off, NoServer, NoWork
<1> QED BY <1>2, <1>3 DEF Shut

\* Every step keeps to it.
LEMMA ShutStep == Inv /\ Shut /\ [Next]_vars => Shut'
<1> SUFFICES ASSUME Inv, Shut, [Next]_vars PROVE Shut'
  OBVIOUS
<1>1. CASE UNCHANGED vars
  BY <1>1 DEF vars, heapVars, busVars, srvVars, httpVars, appVars, loopVars, Shut, BootOK, DownOK, ServerOK,
     HandlerFreed, RadioOff, AfterHttp, AfterService, Causes, Off, NoServer, NoStarts
<1>2. CASE ~Undefined /\ AppBoots
  BY <1>2, ShutBoots
<1>3. CASE ~Undefined /\ AppShuts
  BY <1>3, ShutsRadio, ShutsHttp, ShutsService, ShutsBus DEF AppShuts
<1>4. CASE ~Undefined /\ Serves
  BY <1>4, ShutServes
<1>5. CASE ~Undefined /\ LoopWorks
  BY <1>5, ShutLoop
<1>6. CASE ~Undefined /\ ServiceWorks
  BY <1>6, ShutSvc
<1>7. CASE ~Undefined /\ FlashWorks
  BY <1>7, ShutFlash
<1>8. CASE ~Undefined /\ DriverEmits
  BY <1>8, ShutDriver
<1>9. CASE ~Undefined /\ (MonitorLooks \/ MonitorReads)
  BY <1>9, ShutMonitor
<1>10. CASE ~Undefined /\ AppFlash
  BY <1>10, ShutAppFlash
<1> QED BY <1>1, <1>2, <1>3, <1>4, <1>5, <1>6, <1>7, <1>8, <1>9, <1>10
        DEF Next, Works, Waiting, HttpServes, Serves

\* What a shutdown call breaks (CausesNamed): nothing when it is made at its
\* time, once what it takes down and what uses that are quiet, whatever else
\* fails; else only what the call takes down itself.  wifi_srv_deinit before
\* its time may lose blocks and leave the freed handler to be used,
\* event_bus_deinit may lose what its loop carries, and http_manager_deinit may
\* stop a server that is being stopped, or leave one that is started again.
\* Named apart are a server whose httpd_stop failed, the status monitor's read
\* of a handler that goes, and the copy wifi_flash_store_creds loses.
THEOREM CausesKnown == Spec => []CausesNamed
<1>1. Spec => [](Inv /\ Shut)
  <2>1. Init => Inv /\ Shut
    BY InvInit, ShutInit
  <2>2. (Inv /\ Shut) /\ [Next]_vars => (Inv /\ Shut)'
    BY InvStep, ShutStep
  <2> QED BY <2>1, <2>2, PTL DEF Spec
<1>2. Inv /\ Shut => CausesNamed
  <2> SUFFICES ASSUME Inv, Shut PROVE CausesNamed
    OBVIOUS
  <2>1. "block" \notin misused
    BY DEF Inv, HeapOK
  <2>2. AppAt("up") /\ "http" \in down /\ ~NoServer => "http" \in early \/ stuck
    BY DEF Shut, AfterHttp, ServerOK, NoServer, AppAt
  <2> QED BY <2>1, <2>2 DEF Shut, Causes, CausesNamed
<1> QED BY <1>1, <1>2, PTL
-----------------------------------------------------------------------------
(* Who waits for whom.                                                      *)

\* The mutex is with a task that is where it gives it back, each step of a
\* handler has a request of its kind, and one stop at most is under way, of a
\* server that nobody has started again.
LockOK ==
  /\ lock = "flash" => writers # {}
  /\ lock = "http" <=> In("access")
KindOK(t) ==
  /\ t.step = "idle" <=> t = NoRequest
  /\ t.step \in {"save", "send"} => t.kind = "save"
  /\ t.step \in {"lock", "access"} => t.kind \in {"cred", "save"}
StopOK ==
  ~Undefined =>
    /\ ~(LoopAt("wait") /\ AppAt("closing"))
    /\ LoopAt("wait") \/ AppAt("closing") => server /\ httpd # "up"

Waits == LockOK /\ KindOK(task) /\ StopOK

\* A request goes on to its next step, or is over.
LEMMA KindGoesOn ==
  ASSUME Inv, KindOK(task), (HttpTake \/ HttpWorks) /\ UNCHANGED <<appVars, loopVars>>
  PROVE  KindOK(task')
<1>1. task \in HttpTasks
  BY DEF Inv, HttpOK, Request
<1>2. CASE HttpTake
  <2>1. PICK k \in Kinds :
          task' = [NoRequest EXCEPT !.kind = k,
                     !.step = IF k \in WithBody THEN "body"
                              ELSE IF k = "cred" THEN "lock" ELSE "reply"]
    BY <1>2 DEF HttpTake
  <2>2. /\ task'.kind = k /\ task'.step \in {"body", "lock", "reply"}
        /\ task'.step = "lock" => k = "cred"
        /\ NoRequest.step = "idle"
    BY <2>1 DEF NoRequest
  <2> QED BY <2>2 DEF KindOK
<1>3. CASE HttpReturns
  BY <1>3 DEF HttpReturns, KindOK, NoRequest
<1>4. CASE HttpLeaves
  BY <1>4 DEF HttpLeaves
<1>5. CASE ~(HttpTake \/ HttpReturns \/ HttpLeaves)
  <2>1. /\ task'.kind = task.kind
        /\ \/ task'.step \in {"body", "relay", "mode", "post", "notify", "reply", "done"}
           \/ In("body") /\ task'.step = task.kind /\ task.kind \in WithBody
           \/ In("save") /\ task'.step \in {"send", "lock"}
           \/ In("send") /\ task'.step = "lock"
           \/ In("lock") /\ task'.step = "access"
    <3>1. In("body") => task.kind \in WithBody
      BY DEF Inv, HttpOK, Request, In
    <3> QED BY <1>1, <1>5, <3>1 DEF HttpWorks, HttpBody, HttpRelay, HttpCopies, HttpSends, HttpLock,
               HttpUnlock, HttpNotify, HttpPacks, HttpPosts, HttpReplies, HttpTasks, In, Goto,
               Answer, Refuse, Fail
  <2>2. task'.step # "idle"
    BY <2>1 DEF WithBody
  <2>3. task'.step \in {"save", "send"} => task'.kind = "save"
    BY <2>1 DEF KindOK, WithBody, In
  <2>4. task'.step \in {"lock", "access"} => task'.kind \in {"cred", "save"}
    BY <2>1 DEF KindOK, WithBody, In
  <2> QED BY <2>2, <2>3, <2>4 DEF KindOK, NoRequest
<1> QED BY <1>2, <1>3, <1>4, <1>5

\* The server's task takes the mutex and gives it back, and starts no server.
LEMMA WaitsServes ==
  ASSUME Inv, Waits, ~Undefined, Serves
  PROVE  Waits'
<1>1. KindOK(task)'
  BY KindGoesOn DEF Waits, Serves
<1>2. LockOK'
  <2>1. CASE HttpLock
    <3>1. lock' = "http" /\ task' = [task EXCEPT !.step = "access"]
      BY <2>1 DEF HttpLock, Goto
    <3>2. task'.step = "access"
      BY <3>1 DEF Inv, HttpOK, Request, HttpTasks
    <3> QED BY <3>1, <3>2 DEF LockOK, In
  <2>2. CASE HttpUnlock
    <3>1. lock' = "none" /\ (Answer \/ Goto("notify") \/ Refuse)
      BY <2>2 DEF HttpUnlock
    <3>2. task'.step # "access"
      BY <3>1 DEF Inv, HttpOK, Request, HttpTasks, Answer, Goto, Refuse
    <3> QED BY <3>1, <3>2 DEF LockOK, In
  <2>3. CASE ~(HttpLock \/ HttpUnlock)
    <3>1. lock' = lock /\ writers' = writers
      BY <2>3 DEF Serves, HttpWorks, HttpTake, HttpBody, HttpRelay, HttpCopies, HttpSends, HttpNotify,
         HttpPacks, HttpPosts, HttpReplies, HttpReturns, HttpLeaves, srvVars, Send
    <3>2. In("access") <=> task'.step = "access"
      <4>1. task \in HttpTasks /\ (task.step = "body" => task.kind \in WithBody)
        BY DEF Inv, HttpOK, Request
      <4>2. NoRequest.step # "access"
        BY DEF NoRequest
      <4>3. CASE HttpTake
        <5>1. PICK k \in Kinds :
                task' = [NoRequest EXCEPT !.kind = k,
                           !.step = IF k \in WithBody THEN "body"
                                    ELSE IF k = "cred" THEN "lock" ELSE "reply"]
          BY <4>3 DEF HttpTake
        <5>2. task'.step # "access"
          BY <5>1 DEF NoRequest
        <5> QED BY <4>2, <4>3, <5>2 DEF HttpTake, In
      <4>4. CASE ~HttpTake
        BY <2>3, <4>1, <4>2, <4>4 DEF Serves, HttpWorks, HttpBody, HttpRelay, HttpCopies, HttpSends,
           HttpNotify, HttpPacks, HttpPosts, HttpReplies, HttpReturns, HttpLeaves, HttpTasks, In,
           Goto, Answer, Refuse, Fail, WithBody
      <4> QED BY <4>3, <4>4
    <3> QED BY <3>1, <3>2 DEF Waits, LockOK, In
  <2> QED BY <2>1, <2>2, <2>3
<1>3. StopOK'
  <2>1. /\ UNCHANGED <<app, work, server>>
        /\ httpd' = httpd \/ httpd' = "down"
    BY DEF Serves, appVars, loopVars, HttpWorks, HttpTake, HttpBody, HttpRelay, HttpCopies, HttpSends,
       HttpLock, HttpUnlock, HttpNotify, HttpPacks, HttpPosts, HttpReplies, HttpReturns, HttpLeaves,
       OnlyTask, serverVars
  <2> QED BY <2>1 DEF Waits, StopOK, LoopAt, AppAt
<1> QED BY <1>1, <1>2, <1>3 DEF Waits

\* Who leaves the mutex and the request alone.
LEMMA OthersWait ==
  ASSUME Waits, UNCHANGED <<lock, task>>, writers \subseteq writers', StopOK'
  PROVE  Waits'
<1>1. LockOK'
  BY DEF Waits, LockOK, In
<1> QED BY <1>1 DEF Waits

\* A stop begins while no other waits, or is undefined; and nobody starts a
\* server that has not been stopped.
LEMMA WaitsLoop ==
  ASSUME Inv, Waits, ~Undefined, LoopWorks
  PROVE  Waits'
<1>1. UNCHANGED <<app, lock, task, writers>>
  BY DEF LoopWorks, LoopTakes, LoopUnpacks, LoopCopies, LoopSends, LoopSwitches, LoopPosts, LoopStarts,
     LoopStops, LoopStopped, OnlyLoop, appVars, srvVars, httpVars, Send, ServerStart, StopCalled,
     StopFails, StopReturned
<1>2. StopOK'
  <2>1. CASE LoopStops /\ server
    <3>1. \/ httpd' = "closing" /\ server' = server
          \/ httpd' = httpd /\ work'.step = "idle"
      <4>1. \A s, b : LoopGoto(s, b) => work'.step = s
        BY DEF LoopGoto
      <4> QED BY <2>1, <4>1 DEF LoopStops, StopCalled, StopFails
    <3>2. httpd # "up" => Undefined'
      BY <2>1 DEF LoopStops, Misuse, Undefined
    <3>3. AppAt("closing") => httpd # "up"
      BY DEF Waits, StopOK
    <3> QED BY <1>1, <2>1, <3>1, <3>2, <3>3 DEF StopOK, LoopAt, AppAt
  <2>2. CASE LoopStopped
    <3>1. LoopAt("wait") /\ work'.step = "idle"
      BY <2>2 DEF LoopStopped, LoopGoto
    <3> QED BY <1>1, <3>1 DEF Waits, StopOK, LoopAt, AppAt
  <2>3. CASE ~(LoopStops /\ server) /\ ~LoopStopped
    <3>1. work'.step # "wait"
      <4>1. CASE LoopTakes
        <5>1. LET e == Head(loopq)
              IN  work' = IF Handled(e) THEN [step |-> "unpack", block |-> e.block]
                          ELSE IF e.type \in hooks THEN [step |-> e.type, block |-> NoBlock]
                          ELSE NoWork
          BY <4>1 DEF LoopTakes
        <5>2. hooks \subseteq {"START", "STOP"}
          BY DEF Inv, HttpOK, DriverTypes
        <5> QED BY <5>1, <5>2 DEF NoWork
      <4>2. CASE ~LoopTakes
        BY <2>3, <4>2 DEF LoopWorks, LoopUnpacks, LoopCopies, LoopSends, LoopSwitches, LoopPosts,
           LoopStarts, LoopStops, StopCalled, StopFails, LoopGoto
      <4> QED BY <4>1, <4>2
    <3>2. server => server' /\ httpd' = httpd
      BY <2>3 DEF LoopWorks, LoopTakes, LoopUnpacks, LoopCopies, LoopSends, LoopSwitches, LoopPosts,
         LoopStarts, LoopStops, StopCalled, StopFails, httpVars, ServerStart
    <3> QED BY <1>1, <3>1, <3>2 DEF Waits, StopOK, LoopAt, AppAt
  <2> QED BY <2>1, <2>2, <2>3
<1> QED BY <1>1, <1>2, OthersWait

\* The same for the task that boots and shuts down.
LEMMA WaitsApp ==
  ASSUME Waits, ~Undefined, AppBoots \/ AppShuts \/ AppFlash
  PROVE  Waits'
<1>1. UNCHANGED <<lock, task, work>> /\ writers \subseteq writers'
  BY DEF AppBoots, BootBus, BootAllocates, BootService, BootStart, BootHttp, BootPosts, AppShuts,
     ShutRadio, ShutHttp, ShutService, ShutBus, srvVars, httpVars, loopVars, Send, SrvInit, SrvStart,
     ServerInit, StopCalled, StopFails, StopReturned, Unhook, SrvStop, SrvDrain, SrvDelete,
     HandlerFree, HandlerClear, AppFlash, ApiStore, ApiStoreLeaks
<1>2. StopOK'
  <2>1. CASE ShutHttp /\ app = "up" /\ server
    <3>1. /\ \/ httpd' = "closing" /\ server' = server
             \/ httpd' = httpd /\ app' = "unhook"
          /\ httpd # "up" => Undefined'
      BY <2>1 DEF ShutHttp, Begin, AppAt, StopCalled, StopFails, Misuse, Undefined
    <3>2. LoopAt("wait") => httpd # "up"
      BY DEF Waits, StopOK
    <3> QED BY <1>1, <2>1, <3>1, <3>2 DEF StopOK, LoopAt, AppAt
  <2>2. CASE ShutHttp /\ app = "closing"
    <3>1. app' = "unhook"
      BY <2>2 DEF ShutHttp, Begin, AppAt, AppGoto
    <3> QED BY <1>1, <2>2, <3>1 DEF Waits, StopOK, LoopAt, AppAt
  <2>3. CASE ~(ShutHttp /\ app = "up" /\ server) /\ ~(ShutHttp /\ app = "closing")
    <3>1. app' # "closing"
      BY <2>3, BootSteps DEF AppBoots, BootBus, BootAllocates, BootService, BootStart, BootHttp, BootPosts,
         AppShuts, ShutRadio, ShutHttp, ShutService, ShutBus, AppFlash, StopCalled, StopFails, Begin,
         AppAt, AppGoto, Boot
    <3>2. UNCHANGED <<server, httpd>>
      BY <2>3 DEF AppBoots, BootBus, BootAllocates, BootService, BootStart, BootHttp, BootPosts,
         AppShuts, ShutRadio, ShutHttp, ShutService, ShutBus, AppFlash, StopCalled, StopFails, Begin,
         AppAt, AppGoto, httpVars, ServerInit, Unhook
    <3> QED BY <1>1, <3>1, <3>2 DEF Waits, StopOK, LoopAt, AppAt
  <2> QED BY <2>1, <2>2, <2>3
<1> QED BY <1>1, <1>2, OthersWait

\* The service's tasks, and the monitor: a flash task has the mutex until it
\* ends.
LEMMA WaitsService ==
  ASSUME Waits, ~Undefined, ServiceWorks \/ FlashWorks \/ DriverEmits \/ MonitorLooks \/ MonitorReads
  PROVE  Waits'
<1>1. UNCHANGED <<app, work, task, server, httpd>>
  BY DEF ServiceWorks, FlashWorks, DriverEmits, SvcStart, SvcStop, MonitorLooks, MonitorReads,
     MonitorTurns, appVars, loopVars, httpVars
<1>2. StopOK'
  BY <1>1 DEF Waits, StopOK, LoopAt, AppAt
<1>3. CASE FlashTakes \/ FlashEnds
  <2>1. /\ lock' = "flash" => writers' # {}
        /\ lock' # "http" /\ lock # "http"
    BY <1>3 DEF FlashTakes, FlashEnds
  <2> QED BY <1>1, <1>2, <2>1 DEF Waits, LockOK, In
<1>4. CASE ~(FlashTakes \/ FlashEnds)
  <2>1. lock' = lock /\ writers \subseteq writers'
    BY <1>4 DEF ServiceWorks, FlashWorks, DriverEmits, SvcReceive, SvcFlash, SvcStart, SvcStop, Restore,
       MonitorLooks, MonitorReads, MonitorTurns, srvVars
  <2> QED BY <1>1, <1>2, <2>1, OthersWait
<1> QED BY <1>3, <1>4

\* Nobody waits for ever (WaitsEnd), for queues of any length and any number of
\* requests: a stop that waits, of the loop or of http_manager_deinit, is the
\* only one and waits for a server that is leaving or has left; the server's
\* task can go on, or waits for the mutex, which a flash task has that can go
\* on and gives it back.
THEOREM WaitersServed == Spec => []WaitsEnd
<1>1. Init => Inv /\ Waits
  <2> SUFFICES ASSUME Init PROVE Waits
    BY InvInit
  <2>1. /\ lock = "none" /\ task = NoRequest /\ task.step = "idle"
        /\ work.step = "idle" /\ app = "nvs"
    BY DEF Init, SrvOff, HttpOff, NoRequest, NoWork
  <2> QED BY <2>1 DEF Waits, LockOK, KindOK, StopOK, In, LoopAt, AppAt
<1>2. (Inv /\ Waits) /\ [Next]_vars => (Inv /\ Waits)'
  <2> SUFFICES ASSUME Inv, Waits, [Next]_vars PROVE Waits'
    BY InvStep
  <2>1. CASE UNCHANGED vars
    BY <2>1 DEF vars, heapVars, busVars, srvVars, httpVars, appVars, loopVars, Waits, LockOK, KindOK,
       StopOK, In, LoopAt, AppAt, Undefined
  <2>2. CASE ~Undefined /\ Works
    BY <2>2, WaitsApp, WaitsServes, WaitsLoop, WaitsService DEF Works, HttpServes, Serves
  <2> QED BY <2>1, <2>2 DEF Next, Waiting
<1>3. Inv /\ Waits => WaitsEnd
  <2> SUFFICES ASSUME Inv, Waits, ~Undefined PROVE WaitsEnd
    BY DEF WaitsEnd
  <2>1. ASSUME task # NoRequest \/ httpd = "closing"
        PROVE  HttpReady \/ (In("lock") /\ lock = "flash")
    <3>1. lock \in {"none", "flash", "http"}
      BY DEF Inv, SrvOK
    <3>2. NoRequest.step = "idle"
      BY DEF NoRequest
    <3> QED BY <2>1, <3>1, <3>2 DEF Waits, LockOK, KindOK, HttpReady, In
  <2> QED BY <2>1 DEF Waits, LockOK, StopOK, WaitsEnd
<1> QED BY <1>1, <1>2, <1>3, PTL DEF Spec
=============================================================================
