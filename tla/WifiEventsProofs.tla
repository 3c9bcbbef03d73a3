-------------------------- MODULE WifiEventsProofs --------------------------
(***************************************************************************)
(* Who writes last.  The HTTP server and the FSM state follow the driver's *)
(* events, and the event loop is late: what they are now says little,      *)
(* what they will be when the loop has caught up is what counts.  Ends     *)
(* says it of a variable and a queue; the invariants of this module are    *)
(* that the events still queued will set the server, and the FSM state,    *)
(* right.  The last part shows that what the tasks and the driver do       *)
(* between them is the abstract mode switch of ModeSwitch.tla.             *)
(***************************************************************************)
EXTENDS WifiHandlerProofs

\* A variable that holds s now, and that every event e in DOMAIN f sets to
\* f[e], stands in S once the events of q are worked off: the last event that
\* sets it decides.
Ends(f, q, s, S) ==
  /\ (\A i \in DOMAIN q : q[i] \notin DOMAIN f) => s \in S
  /\ \A i \in DOMAIN q :
       /\ q[i] \in DOMAIN f
       /\ \A j \in DOMAIN q : j > i => q[j] \notin DOMAIN f
       => f[q[i]] \in S

\* What is set now does not matter if it was right.
LEMMA EndsNow ==
  ASSUME NEW f, NEW q, NEW s, NEW S, NEW t, NEW S2,
         Ends(f, q, s, S), S \subseteq S2, s \in S => t \in S2
  PROVE  Ends(f, q, t, S2)
BY DEF Ends

\* With nothing queued, the variable is what it will be.
LEMMA EndsEmpty ==
  ASSUME NEW f, NEW s, NEW S, Ends(f, << >>, s, S)
  PROVE  s \in S
<1>1. DOMAIN << >> = {}
  OBVIOUS
<1> QED BY <1>1 DEF Ends

\* Working off the first event.
LEMMA EndsTake ==
  ASSUME NEW f, NEW T, NEW q \in Seq(T), q # << >>, NEW s, NEW S, Ends(f, q, s, S)
  PROVE  Ends(f, Tail(q), IF Head(q) \in DOMAIN f THEN f[Head(q)] ELSE s, S)
<1> DEFINE n == Len(q)
           t == IF Head(q) \in DOMAIN f THEN f[Head(q)] ELSE s
<1>1. /\ n \in Nat \ {0} /\ DOMAIN q = 1..n /\ DOMAIN Tail(q) = 1..(n - 1)
      /\ Head(q) = q[1] /\ \A i \in 1..(n - 1) : Tail(q)[i] = q[i + 1]
  BY EmptySeq, LenProperties, HeadTailProperties
<1> HIDE DEF n
<1>2. ASSUME \A i \in DOMAIN Tail(q) : Tail(q)[i] \notin DOMAIN f
      PROVE  t \in S
  <2>1. \A j \in 1..n : j > 1 => q[j] \notin DOMAIN f
    <3> SUFFICES ASSUME NEW j \in 1..n, j > 1 PROVE q[j] \notin DOMAIN f
      OBVIOUS
    <3>1. j - 1 \in 1..(n - 1) /\ (j - 1) + 1 = j
      BY <1>1
    <3> QED BY <1>1, <1>2, <3>1
  <2>2. CASE Head(q) \in DOMAIN f
    <3>1. 1 \in 1..n
      BY <1>1
    <3>2. f[q[1]] \in S
      BY <1>1, <2>1, <2>2, <3>1 DEF Ends
    <3> QED BY <1>1, <2>2, <3>2
  <2>3. CASE Head(q) \notin DOMAIN f
    <3>1. \A j \in 1..n : j = 1 \/ j > 1
      BY <1>1
    <3>2. \A j \in 1..n : q[j] \notin DOMAIN f
      BY <1>1, <2>1, <2>3, <3>1
    <3> QED BY <1>1, <2>3, <3>2 DEF Ends
  <2> QED BY <2>2, <2>3
<1>3. ASSUME NEW i \in DOMAIN Tail(q), Tail(q)[i] \in DOMAIN f,
             \A j \in DOMAIN Tail(q) : j > i => Tail(q)[j] \notin DOMAIN f
      PROVE  f[Tail(q)[i]] \in S
  <2>1. i + 1 \in 1..n /\ Tail(q)[i] = q[i + 1]
    BY <1>1
  <2>2. \A j \in 1..n : j > i + 1 => q[j] \notin DOMAIN f
    <3> SUFFICES ASSUME NEW j \in 1..n, j > i + 1 PROVE q[j] \notin DOMAIN f
      OBVIOUS
    <3>1. j - 1 \in 1..(n - 1) /\ (j - 1) + 1 = j /\ j - 1 > i
      BY <1>1
    <3> QED BY <1>1, <1>3, <3>1
  <2> QED BY <1>1, <1>3, <2>1, <2>2 DEF Ends
<1> QED BY <1>2, <1>3 DEF Ends

\* Events that do not set the variable change nothing.
LEMMA EndsNeutral ==
  ASSUME NEW f, NEW T, NEW q \in Seq(T), NEW evs \in Seq(T), NEW s, NEW S,
         Ends(f, q, s, S), \A i \in DOMAIN evs : evs[i] \notin DOMAIN f
  PROVE  Ends(f, q \o evs, s, S)
<1> DEFINE n == Len(q)
           m == Len(evs)
           r == q \o evs
<1>1. /\ n \in Nat /\ m \in Nat /\ DOMAIN q = 1..n /\ DOMAIN evs = 1..m
      /\ DOMAIN r = 1..(n + m)
      /\ \A i \in 1..n : r[i] = q[i]
      /\ \A i \in 1..(n + m) : i > n => r[i] = evs[i - n]
  BY LenProperties, ConcatProperties
<1> HIDE DEF n, m, r
<1>2. \A i \in 1..(n + m) : i > n => r[i] \notin DOMAIN f
  <2> SUFFICES ASSUME NEW i \in 1..(n + m), i > n PROVE r[i] \notin DOMAIN f
    OBVIOUS
  <2>1. i - n \in 1..m
    BY <1>1
  <2> QED BY <1>1, <2>1
<1>3. 1..n \subseteq 1..(n + m)
  BY <1>1
<1>4. (\A i \in DOMAIN r : r[i] \notin DOMAIN f) => s \in S
  BY <1>1, <1>3 DEF Ends
<1>5. ASSUME NEW i \in DOMAIN r, r[i] \in DOMAIN f,
             \A j \in DOMAIN r : j > i => r[j] \notin DOMAIN f
      PROVE  f[r[i]] \in S
  <2>1. i \in 1..n
    BY <1>1, <1>2, <1>5
  <2>2. \A j \in 1..n : j > i => q[j] \notin DOMAIN f
    BY <1>1, <1>3, <1>5
  <2> QED BY <1>1, <1>5, <2>1, <2>2 DEF Ends
<1> QED BY <1>4, <1>5 DEF Ends, r

\* If the last of the new events sets the variable, it decides.
LEMMA EndsDecided ==
  ASSUME NEW f, NEW T, NEW q \in Seq(T), NEW evs \in Seq(T), NEW s, NEW S,
         evs # << >>, evs[Len(evs)] \in DOMAIN f, f[evs[Len(evs)]] \in S
  PROVE  Ends(f, q \o evs, s, S)
<1> DEFINE n == Len(q)
           m == Len(evs)
           r == q \o evs
<1>1. /\ n \in Nat /\ m \in Nat \ {0} /\ DOMAIN r = 1..(n + m)
      /\ \A i \in 1..(n + m) : i > n => r[i] = evs[i - n]
  BY EmptySeq, LenProperties, ConcatProperties
<1>2. evs[m] \in DOMAIN f /\ f[evs[m]] \in S
  OBVIOUS
<1> HIDE DEF n, m, r
<1>3. n + m \in DOMAIN r /\ n + m > n /\ (n + m) - n = m
  BY <1>1
<1>4. r[n + m] = evs[m]
  BY <1>1, <1>3
<1>5. ~\A i \in DOMAIN r : r[i] \notin DOMAIN f
  BY <1>2, <1>3, <1>4
<1>6. ASSUME NEW i \in DOMAIN r, \A j \in DOMAIN r : j > i => r[j] \notin DOMAIN f
      PROVE  i = n + m
  <2>1. ~(n + m > i)
    BY <1>2, <1>3, <1>4, <1>6
  <2> QED BY <1>1, <1>6, <2>1
<1> QED BY <1>2, <1>4, <1>5, <1>6 DEF Ends, r

\* One event posted that does not set the variable.
LEMMA EndsPost ==
  ASSUME NEW f, NEW T, NEW q \in Seq(T), NEW e \in T, e \notin DOMAIN f, NEW s, NEW S,
         Ends(f, q, s, S)
  PROVE  Ends(f, Append(q, e), s, S)
<1>1. <<e>> \in Seq(T) /\ DOMAIN <<e>> = {1} /\ <<e>>[1] = e
  OBVIOUS
<1>2. Append(q, e) = q \o <<e>>
  BY AppendIsConcat
<1>3. \A i \in DOMAIN <<e>> : <<e>>[i] \notin DOMAIN f
  BY <1>1
<1> QED BY <1>1, <1>2, <1>3, EndsNeutral

-----------------------------------------------------------------------------
(* The server.                                                              *)

\* http_manager: what the events of the two interfaces make of the server.
Interface == [AP_START |-> "on", STA_START |-> "on", AP_STOP |-> "off", STA_STOP |-> "off"]
OnOff(b)  == IF b THEN "on" ELSE "off"

\* With the events still queued, the server follows the radio.
ServerFollows == Ends(Interface, loopq, OnOff(server), {OnOff(radio.mode # "OFF")})

\* A driver call that starts or stops the radio says so in its last event.
Tells(o, r) ==
  \/ /\ \A i \in DOMAIN o.events : o.events[i] \notin DOMAIN Interface
     /\ o.radio.mode = "OFF" <=> r.mode = "OFF"
  \/ /\ o.events # << >> /\ o.events[Len(o.events)] \in DOMAIN Interface
     /\ Interface[o.events[Len(o.events)]] = OnOff(o.radio.mode # "OFF")

\* The two events of an interface.
LEMMA InterfaceEvents ==
  ASSUME NEW m \in {"AP", "STA"}
  PROVE  /\ StartEvent[m] \in DOMAIN Interface /\ Interface[StartEvent[m]] = "on"
         /\ StopEvent[m] \in DOMAIN Interface /\ Interface[StopEvent[m]] = "off"
BY DEF StartEvent, StopEvent, Interface

\* Taking an interface down ends with its STOP event.
LEMMA DownTells ==
  ASSUME NEW r \in Radios, r.mode # "OFF", NEW evs \in DownEvents(r)
  PROVE  evs # << >> /\ evs[Len(evs)] = StopEvent[r.mode]
<1>1. \/ evs = <<StopEvent[r.mode]>>
      \/ evs = <<"STA_DISCONNECTED", StopEvent[r.mode]>>
  BY DEF DownEvents
<1> QED BY <1>1

\* esp_wifi_stop tells.
LEMMA StopTells ==
  ASSUME NEW r \in Radios, NEW o \in StopOutcomes(r)
  PROVE  Tells(o, r)
<1>1. RadioOff.mode = "OFF" /\ OnOff(RadioOff.mode # "OFF") = "off"
  BY DEF RadioOff, Radio, OnOff
<1>2. CASE r.mode = "OFF"
  <2>1. o = [radio |-> RadioOff, events |-> << >>]
    BY <1>2 DEF StopOutcomes, Outcome
  <2>2. DOMAIN o.events = {}
    BY <2>1
  <2> QED BY <1>1, <1>2, <2>1, <2>2 DEF Tells
<1>3. CASE r.mode # "OFF"
  <2>1. PICK evs \in DownEvents(r) : o = [radio |-> RadioOff, events |-> evs]
    BY <1>3 DEF StopOutcomes, Outcome
  <2>2. r.mode \in {"AP", "STA"}
    BY <1>3 DEF Radios, RadioModes
  <2> QED BY <1>1, <1>3, <2>1, <2>2, DownTells, InterfaceEvents DEF Tells
<1> QED BY <1>2, <1>3

\* esp_wifi_set_mode tells: a started radio changes its interface at once.
LEMMA SetModeTells ==
  ASSUME NEW r \in Radios, NEW m \in {"AP", "STA"}, NEW o \in SetModeOutcomes(r, m)
  PROVE  Tells(o, r)
<1>1. CASE r.mode \in {"OFF", m}
  <2>1. o = [radio |-> r, events |-> << >>]
    BY <1>1 DEF SetModeOutcomes, Outcome
  <2>2. DOMAIN o.events = {}
    BY <2>1
  <2> QED BY <2>1, <2>2 DEF Tells
<1>2. CASE r.mode \notin {"OFF", m}
  <2>1. PICK evs \in DownEvents(r) :
          o = [radio |-> Radio(m, "down"), events |-> Append(evs, StartEvent[m])]
    BY <1>2 DEF SetModeOutcomes, Outcome
  <2>2. evs \in Seq(DriverEvents) /\ StartEvent[m] \in DriverEvents
    BY <1>2, DownOutcomes DEF StartEvent, DriverEvents
  <2>3. /\ Len(Append(evs, StartEvent[m])) = Len(evs) + 1
        /\ Append(evs, StartEvent[m])[Len(evs) + 1] = StartEvent[m]
        /\ Append(evs, StartEvent[m]) # << >>
    BY <2>2, AppendProperties
  <2>4. OnOff(Radio(m, "down").mode # "OFF") = "on"
    BY DEF Radio, OnOff
  <2> QED BY <2>1, <2>3, <2>4, InterfaceEvents DEF Tells
<1> QED BY <1>1, <1>2

\* esp_wifi_start tells.
LEMMA StartTells ==
  ASSUME NEW r \in Radios, NEW m \in {"AP", "STA"}
  PROVE  Tells(StartOutcome(r, m), r)
<1> SUFFICES ASSUME NEW o, o = StartOutcome(r, m) PROVE Tells(o, r)
  OBVIOUS
<1>1. CASE r.mode = "OFF"
  <2>1. o = [radio |-> Radio(m, "down"), events |-> <<StartEvent[m]>>]
    BY <1>1 DEF StartOutcome, Outcome
  <2>2. /\ OnOff(o.radio.mode # "OFF") = "on" /\ o.events # << >>
        /\ o.events[Len(o.events)] = StartEvent[m]
    BY <2>1 DEF Radio, OnOff
  <2> QED BY <2>2, InterfaceEvents DEF Tells
<1>2. CASE r.mode # "OFF"
  <2>1. o = [radio |-> r, events |-> << >>]
    BY <1>2 DEF StartOutcome, Outcome
  <2>2. DOMAIN o.events = {}
    BY <2>1
  <2> QED BY <2>1, <2>2 DEF Tells
<1> QED BY <1>1, <1>2

\* An event that is not of an interface, from a radio that stays up or down.
LEMMA LinkTells ==
  ASSUME NEW r, NEW o, o.events = << >> \/ (\E e : o.events = <<e>> /\ e \notin DOMAIN Interface),
         o.radio.mode = r.mode
  PROVE  Tells(o, r)
<1>1. CASE o.events = << >>
  <2>1. DOMAIN o.events = {}
    BY <1>1
  <2> QED BY <2>1 DEF Tells
<1>2. CASE \E e : o.events = <<e>> /\ e \notin DOMAIN Interface
  <2>1. PICK e : o.events = <<e>> /\ e \notin DOMAIN Interface
    BY <1>2
  <2>2. DOMAIN o.events = {1} /\ o.events[1] = e
    BY <2>1
  <2> QED BY <2>1, <2>2 DEF Tells
<1> QED BY <1>1, <1>2

\* A driver call that tells keeps the server following.
LEMMA PerformFollows ==
  ASSUME TypeOK, ServerFollows, NEW o \in OutcomeRecords, Tells(o, radio), Perform(o),
         server' = server
  PROVE  ServerFollows'
<1>1. /\ loopq' = loopq \o o.events /\ radio' = o.radio
      /\ loopq \in Seq(LoopEvents) /\ o.events \in Seq(LoopEvents)
  BY DEF TypeOK, Perform, OutcomeRecords, LoopEvents
<1>2. CASE /\ \A i \in DOMAIN o.events : o.events[i] \notin DOMAIN Interface
           /\ o.radio.mode = "OFF" <=> radio.mode = "OFF"
  <2>1. OnOff(radio'.mode # "OFF") = OnOff(radio.mode # "OFF")
    BY <1>1, <1>2 DEF OnOff
  <2>2. Ends(Interface, loopq', OnOff(server), {OnOff(radio.mode # "OFF")})
    BY <1>1, <1>2, EndsNeutral DEF ServerFollows
  <2> QED BY <2>1, <2>2 DEF ServerFollows
<1>3. CASE /\ o.events # << >> /\ o.events[Len(o.events)] \in DOMAIN Interface
           /\ Interface[o.events[Len(o.events)]] = OnOff(o.radio.mode # "OFF")
  <2>1. Ends(Interface, loopq', OnOff(server), {OnOff(radio'.mode # "OFF")})
    BY <1>1, <1>3, EndsDecided
  <2> QED BY <2>1 DEF ServerFollows
<1> QED BY <1>2, <1>3 DEF Tells

\* Steps that touch neither the radio nor the loop.
Elsewhere ==
  \/ \E c \in Callers : SwitchSame(c) \/ SwitchDiffers(c) \/ SwitchSet(c) \/ SwitchPost(c)
  \/ MainLoad \/ LoopStore
  \/ SvcReceive \/ SvcStartBusy \/ SvcStartSpawns \/ SvcStartFails \/ SvcFlash
  \/ SvcStopOff \/ SvcStopped \/ SvcConnectSkips \/ SvcJoining
  \/ DrvMode \/ DrvInit \/ DrvCheck \/ DrvOff \/ DrvPublish \/ DrvEnd \/ DrvAbort
  \/ ApiPost \/ UNCHANGED vars

\* They leave the radio, the loop's queue and the server alone.
LEMMA ElsewhereKeeps ==
  ASSUME Elsewhere
  PROVE  UNCHANGED <<radio, loopq, server>>
<1>1. ASSUME NEW c \in Callers, SwitchSame(c) \/ SwitchDiffers(c) \/ SwitchSet(c) \/ SwitchPost(c)
      PROVE  UNCHANGED <<radio, loopq, server>>
  BY <1>1 DEF SwitchSame, SwitchDiffers, SwitchSet, SwitchPost, loop
<1>2. CASE MainLoad \/ LoopStore
  BY <1>2 DEF MainLoad, LoopStore, loop
<1>3. CASE \/ SvcReceive \/ SvcStartBusy \/ SvcStartSpawns \/ SvcStartFails \/ SvcFlash
           \/ SvcStopOff \/ SvcStopped \/ SvcConnectSkips \/ SvcJoining
  BY <1>3 DEF SvcReceive, SvcStartBusy, SvcStartSpawns, SvcStartFails, SvcFlash,
     SvcStopOff, SvcStopped, SvcConnectSkips, SvcJoining, loop
<1>4. CASE DrvMode \/ DrvInit \/ DrvCheck \/ DrvOff \/ DrvPublish \/ DrvEnd \/ DrvAbort
  BY <1>4 DEF DrvMode, DrvInit, DrvCheck, DrvOff, DrvPublish, DrvEnd, DrvAbort, loop
<1>5. CASE ApiPost \/ UNCHANGED vars
  BY <1>5 DEF ApiPost, vars, loop
<1> QED BY <1>1, <1>2, <1>3, <1>4, <1>5 DEF Elsewhere

\* Every step, by what it does to the radio and to the loop.
LEMMA NextSteps ==
  ASSUME [Next]_vars
  PROVE  \/ Elsewhere
         \/ LoopDriverEvent \/ LoopModeRequest \/ LoopNotify
         \/ SvcStop \/ SvcConnect \/ SvcConnectJoins \/ DrvStop \/ DrvConfig \/ DrvStart \/ DrvConnect
         \/ HttpModeRequest \/ HttpSaveCreds \/ HttpNotify \/ ApClient \/ Air
BY DEF Next, Elsewhere, MainTask, LoopTask, SvcTask, DrvTask, Environment, Waiting, Callers

\* What HTTP clients and event_bus_post put on the loop sets nothing.
LEMMA NothingSet ==
  ASSUME NEW f, DOMAIN f \subseteq DriverEvents, NEW q \in Seq(LoopEvents), NEW s, NEW S,
         Ends(f, q, s, S)
  PROVE  /\ \A e \in Requests : Ends(f, Append(q, e), s, S)
         /\ Ends(f, BusPost(q, "NOTIFY"), s, S)
<1>1. \A e \in Requests \cup {"NOTIFY"} : e \in LoopEvents /\ e \notin DOMAIN f
  BY DEF LoopEvents, Requests, DriverEvents
<1>2. \A e \in Requests \cup {"NOTIFY"} : Ends(f, Append(q, e), s, S)
  BY <1>1, EndsPost
<1> QED BY <1>2 DEF BusPost

\* The loop works off the head of its queue, and may announce it.
LEMMA LoopWorksOff ==
  ASSUME TypeOK, NEW evs, LoopTakes(evs), NEW f, DOMAIN f \subseteq DriverEvents,
         NEW s, NEW S, Ends(f, loopq, s, S),
         loopq' \in {Tail(loopq), BusPost(Tail(loopq), "NOTIFY")}
  PROVE  Ends(f, loopq', IF Head(loopq) \in DOMAIN f THEN f[Head(loopq)] ELSE s, S)
<1> DEFINE t == IF Head(loopq) \in DOMAIN f THEN f[Head(loopq)] ELSE s
<1>1. loopq \in Seq(LoopEvents) /\ loopq # << >>
  BY DEF TypeOK, LoopTakes
<1>2. Tail(loopq) \in Seq(LoopEvents)
  BY <1>1, HeadTailProperties
<1>3. Ends(f, Tail(loopq), t, S)
  BY <1>1, EndsTake
<1> HIDE DEF t
<1>4. Ends(f, BusPost(Tail(loopq), "NOTIFY"), t, S)
  BY <1>2, <1>3, NothingSet
<1> QED BY <1>3, <1>4 DEF t

\* Every step keeps the server following, provided httpd_start and httpd_stop
\* succeed.
LEMMA ServerStep ==
  ASSUME "httpd" \notin Faults
  PROVE  Typing /\ ServerFollows /\ [Next]_vars => ServerFollows'
<1> SUFFICES ASSUME Typing, ServerFollows, [Next]_vars PROVE ServerFollows'
  OBVIOUS
<1> USE DEF Typing
<1>types. DOMAIN Interface \subseteq DriverEvents
  BY DEF Interface, DriverEvents
<1>1. CASE Elsewhere
  BY <1>1, ElsewhereKeeps DEF ServerFollows
<1>2. CASE LoopDriverEvent
  <2> DEFINE e == Head(loopq)
  <2>1. OnOff(server') = IF e \in DOMAIN Interface THEN Interface[e] ELSE OnOff(server)
    <3>1. server' \in ServerAfter(e) /\ ~MayFail("httpd")
      BY <1>2 DEF LoopDriverEvent, MayFail
    <3>2. CASE e \in StartEvents
      <4>1. server' = TRUE
        BY <3>1, <3>2 DEF ServerAfter
      <4>2. e \in DOMAIN Interface /\ Interface[e] = "on"
        BY <3>2 DEF StartEvents, Interface
      <4> QED BY <4>1, <4>2 DEF OnOff
    <3>3. CASE e \in {"AP_STOP", "STA_STOP"}
      <4>1. server' = FALSE
        BY <3>1, <3>3 DEF ServerAfter, StartEvents
      <4>2. e \in DOMAIN Interface /\ Interface[e] = "off"
        BY <3>3 DEF Interface
      <4> QED BY <4>1, <4>2 DEF OnOff
    <3>4. CASE e \notin StartEvents \cup {"AP_STOP", "STA_STOP"}
      <4>1. server' = server
        BY <3>1, <3>4 DEF ServerAfter
      <4>2. e \notin DOMAIN Interface
        BY <3>4 DEF StartEvents, Interface
      <4> QED BY <4>1, <4>2
    <3> QED BY <3>2, <3>3, <3>4
  <2>2. loopq' \in {Tail(loopq), BusPost(Tail(loopq), "NOTIFY")} /\ radio' = radio
    BY <1>2 DEF LoopDriverEvent
  <2>3. LoopTakes(DriverEvents)
    BY <1>2 DEF LoopDriverEvent
  <2> QED BY <1>types, <2>1, <2>2, <2>3, LoopWorksOff DEF ServerFollows
<1>3. CASE LoopModeRequest \/ LoopNotify
  <2>1. /\ loopq' = Tail(loopq) /\ UNCHANGED <<radio, server>>
        /\ LoopTakes(Requests \cup {"NOTIFY"})
    BY <1>3 DEF LoopModeRequest, LoopNotify, LoopTakes
  <2>2. Head(loopq) \notin DOMAIN Interface
    BY <2>1 DEF LoopTakes, Requests, Interface
  <2> QED BY <1>types, <2>1, <2>2, LoopWorksOff DEF ServerFollows
<1>4. CASE SvcStop
  <2>1. CASE \E o \in StopOutcomes(radio) : Perform(o)
    BY <1>4, <2>1, StopOutcome, StopTells, PerformFollows DEF SvcStop, TypeOK
  <2>2. CASE UNCHANGED <<radio, loopq>>
    BY <1>4, <2>2 DEF SvcStop, ServerFollows
  <2> QED BY <1>4, <2>1, <2>2 DEF SvcStop
<1>5. CASE SvcConnect
  <2> SUFFICES ASSUME NEW o, o = DisconnectOutcome(radio) PROVE ServerFollows'
    OBVIOUS
  <2>1. o \in OutcomeRecords /\ o.radio.mode = radio.mode
    BY DisconnectOutcomeType DEF TypeOK
  <2>2. o.events = << >> \/ o.events = <<"STA_DISCONNECTED">>
    BY DEF DisconnectOutcome, Outcome
  <2>3. "STA_DISCONNECTED" \notin DOMAIN Interface
    BY DEF Interface
  <2>4. Tells(o, radio)
    BY <2>1, <2>2, <2>3, LinkTells
  <2> QED BY <1>5, <2>1, <2>4, PerformFollows DEF SvcConnect
<1>14. CASE SvcConnectJoins
  <2>1. radio'.mode = radio.mode
    BY <1>14, JoinedType DEF SvcConnectJoins, TypeOK
  <2> QED BY <1>14, <2>1 DEF SvcConnectJoins, ServerFollows, loop
<1>6. CASE DrvStop
  <2>1. CASE \E o \in StopOutcomes(radio) : Perform(o)
    BY <1>6, <2>1, StopOutcome, StopTells, PerformFollows DEF DrvStop, TypeOK
  <2>2. CASE UNCHANGED <<radio, loopq>>
    BY <1>6, <2>2 DEF DrvStop, ServerFollows
  <2> QED BY <1>6, <2>1, <2>2 DEF DrvStop
<1>7. CASE DrvConfig
  <2>1. drvMode \in {"AP", "STA"}
    BY <1>7 DEF DrvConfig, TypeOK, NeverNullMode, Modes
  <2>2. Outcome(radio, << >>) \in OutcomeRecords /\ Tells(Outcome(radio, << >>), radio)
    BY LinkTells DEF Outcome, OutcomeRecords, TypeOK
  <2>3. PICK o \in SetModeOutcomes(radio, drvMode) \cup {Outcome(radio, << >>)} : Perform(o)
    BY <1>7 DEF DrvConfig
  <2>4. o \in OutcomeRecords /\ Tells(o, radio)
    BY <2>1, <2>2, <2>3, SetModeOutcome, SetModeTells DEF TypeOK
  <2> QED BY <1>7, <2>3, <2>4, PerformFollows DEF DrvConfig
<1>8. CASE DrvStart
  <2>1. drvMode \in {"AP", "STA"}
    BY <1>8 DEF DrvStart, TypeOK, NeverNullMode, Modes
  <2>2. CASE Perform(StartOutcome(radio, drvMode))
    BY <1>8, <2>1, <2>2, StartOutcomeType, StartTells, PerformFollows DEF DrvStart, TypeOK
  <2>3. CASE UNCHANGED <<radio, loopq>>
    BY <1>8, <2>3 DEF DrvStart, ServerFollows
  <2> QED BY <1>8, <2>2, <2>3 DEF DrvStart
<1>9. CASE DrvConnect
  <2>1. radio'.mode = radio.mode /\ UNCHANGED <<loopq, server>>
    BY <1>9, JoinedType DEF DrvConnect, TypeOK, loop
  <2> QED BY <2>1 DEF ServerFollows
<1>10. CASE HttpModeRequest
  <2>1. PICK e \in Requests : loopq' = Append(loopq, e)
    BY <1>10 DEF HttpModeRequest
  <2> QED BY <1>types, <1>10, <2>1, NothingSet DEF HttpModeRequest, ServerFollows, TypeOK
<1>11. CASE HttpSaveCreds \/ HttpNotify
  <2>1. loopq' \in {loopq, BusPost(loopq, "NOTIFY")} /\ UNCHANGED <<radio, server>>
    BY <1>11 DEF HttpSaveCreds, HttpNotify
  <2> QED BY <1>types, <2>1, NothingSet DEF ServerFollows, TypeOK
<1>12. CASE ApClient
  <2> SUFFICES ASSUME NEW o, o = Outcome(radio, <<"AP_STACONNECTED">>) PROVE ServerFollows'
    OBVIOUS
  <2>1. o.radio = radio /\ o.events = <<"AP_STACONNECTED">> /\ o \in OutcomeRecords
    BY DEF Outcome, OutcomeRecords, TypeOK, DriverEvents
  <2>2. "AP_STACONNECTED" \notin DOMAIN Interface
    BY DEF Interface
  <2>3. Tells(o, radio)
    BY <2>1, <2>2, LinkTells
  <2> QED BY <1>12, <2>1, <2>3, PerformFollows DEF ApClient
<1>13. CASE Air
  <2>1. PICK o \in AirOutcomes(radio) : Perform(o)
    BY <1>13 DEF Air
  <2>2. o \in OutcomeRecords /\ o.radio.mode = radio.mode
    BY AirOutcome DEF TypeOK
  <2>3. PICK e \in {"STA_CONNECTED", "STA_DISCONNECTED", "GOT_IP"} : o.events = <<e>>
    BY DEF AirOutcomes, Outcome, TypeOK, Radios, Links
  <2>4. e \notin DOMAIN Interface
    BY DEF Interface
  <2>5. Tells(o, radio)
    BY <2>2, <2>3, <2>4, LinkTells
  <2> QED BY <1>13, <2>1, <2>2, <2>5, PerformFollows DEF Air
<1> QED BY <1>1, <1>2, <1>3, <1>4, <1>5, <1>6, <1>7, <1>8, <1>9, <1>10, <1>11, <1>12, <1>13,
           <1>14, NextSteps

\* Initially nothing is queued, no server runs and the radio is off.
LEMMA ServerInit == Init => ServerFollows
<1> SUFFICES ASSUME Init PROVE ServerFollows
  OBVIOUS
<1>1. loopq = << >> /\ DOMAIN loopq = {} /\ ~server /\ radio.mode = "OFF"
  BY DEF Init, RadioOff, Radio
<1> QED BY <1>1 DEF ServerFollows, Ends, OnOff

\* http_manager hears of the interfaces late, and of two that overlap while the
\* mode changes.  Provided httpd_start and httpd_stop succeed, and whatever else
\* fails or is asked from outside: once every task waits, the server runs
\* exactly when an interface is up.
THEOREM ServerMatchesRadio ==
  ASSUME "httpd" \notin Faults
  PROVE  Spec => []ServerAgrees
<1>1. Init => ServerFollows
  BY ServerInit
<1>2. Inv /\ ServerFollows /\ [Next]_vars => ServerFollows'
  BY ServerStep DEF Inv
<1>3. Inv /\ ServerFollows => ServerAgrees
  <2> SUFFICES ASSUME Inv, ServerFollows, Quiescent PROVE server <=> radio.mode # "OFF"
    BY DEF ServerAgrees
  <2>1. OnOff(server) = OnOff(radio.mode # "OFF")
    BY EndsEmpty DEF Quiescent, ServerFollows
  <2>2. server \in BOOLEAN
    BY DEF Inv, Typing, TypeOK
  <2> QED BY <2>1, <2>2 DEF OnOff
<1> QED BY <1>1, <1>2, <1>3, Invariance, PTL DEF Spec

-----------------------------------------------------------------------------
(* The FSM state.  Two tasks write it: a driver run, on its way, and the    *)
(* event loop, whenever it gets to an event.  A run that cannot fail passes *)
(* through a stretch where the state may be anything (the radio is down and *)
(* reports of the lost link may still be queued), announces its interface   *)
(* last of all, and only then writes the state itself.                      *)

NoFailures == Faults \subseteq {"spawn", "httpd"} /\ ApiEvents \subseteq {"START"}

\* The states that fit a radio, and the ones a run may leave before it connects.
Fitting(r) ==
  CASE r.mode = "OFF" -> {"POWER_OFF"}
    [] r.mode = "AP"  -> {"RUNNING"}
    [] r.mode = "STA" -> CASE r.link = "joining" -> {"RUNNING", "CONNECTING"}
                           [] r.link = "down"    -> {"DISCONNECTED"}
                           [] r.link \in {"up", "ip"} -> {"CONNECTED"}
Starting == {"RUNNING", "CONNECTING"}

\* Only a station has a link.
StationLink == radio.mode # "STA" => radio.link = "down"

\* With the events still queued, the state fits the radio, except between the
\* stop of the old interface and the connect of the new one.
StateFollows ==
  /\ drv # "abort"
  /\ drv = "publish" => /\ radio = Radio(drvMode, "down")
                        /\ Ends(FsmAfter, loopq, "RUNNING", {"RUNNING"})
  /\ drv = "connect" => /\ radio = Radio("STA", "down")
                        /\ Ends(FsmAfter, loopq, fsm, Starting)
  /\ drv \notin {"off", "config", "start", "publish", "connect"} =>
       Ends(FsmAfter, loopq, fsm, Fitting(radio))

State == StationLink /\ StateFollows

\* The events that write the state are the driver's.
LEMMA StateEvents == DOMAIN FsmAfter \subseteq DriverEvents
BY DEF FsmAfter, DriverEvents

\* A queue that ends better than before, whatever sets the state now, keeps the
\* radio fitting.
LEMMA SameRadio ==
  ASSUME State, UNCHANGED <<drv, drvMode, radio>>,
         \A s, S : Ends(FsmAfter, loopq, s, S) => Ends(FsmAfter, loopq', s, S),
         fsm' = fsm
  PROVE  State'
BY DEF State, StationLink, StateFollows

\* Steps that only move a run on, or leave everything alone.
LEMMA StateElsewhere ==
  ASSUME NoFailures, Typing, Quiet, Down, State, Elsewhere
  PROVE  State'
<1> USE DEF Typing, NoFailures, driver
<1>1. /\ UNCHANGED <<radio, loopq>>
      /\ StationLink'
  BY ElsewhereKeeps DEF State, StationLink
<1>2. svc \notin {"STOP", "stopped", "CONNECT", "left", "joining"} /\ ApiEvents \subseteq {"START"}
  BY DEF Quiet, QuietEvents, StartEvents
<1>3. CASE UNCHANGED <<fsm, drv, drvMode>>
  BY <1>1, <1>3 DEF State, StateFollows
<1>4. CASE SvcStartSpawns
  BY <1>1, <1>4 DEF SvcStartSpawns, State, StateFollows
<1>5. CASE DrvMode
  BY <1>1, <1>5 DEF DrvMode, State, StateFollows
<1>6. CASE DrvInit
  BY <1>1, <1>6 DEF DrvInit, MayFail, State, StateFollows
<1>7. CASE DrvCheck
  BY <1>1, <1>7 DEF DrvCheck, State, StateFollows
<1>8. CASE DrvOff
  BY <1>1, <1>8 DEF DrvOff, State, StateFollows
<1>9. CASE DrvPublish
  <2>1. radio = Radio(drvMode, "down") /\ Ends(FsmAfter, loopq, "RUNNING", {"RUNNING"})
    BY <1>9 DEF DrvPublish, State, StateFollows
  <2>2. CASE drvMode = "AP"
    <3>1. radio.mode = "AP" /\ Fitting(radio) = {"RUNNING"}
      BY <2>1, <2>2 DEF Radio, Fitting
    <3>2. fsm' = "RUNNING" /\ drv' = "end"
      BY <1>9, <2>2 DEF DrvPublish
    <3> QED BY <1>1, <2>1, <3>1, <3>2 DEF State, StateFollows
  <2>3. CASE drvMode # "AP"
    <3>1. drvMode = "STA" /\ radio = Radio("STA", "down")
      BY <1>9, <2>1, <2>3 DEF DrvPublish, TypeOK, Modes, NeverNullMode
    <3>2. fsm' = "CONNECTING" /\ drv' = "connect"
      BY <1>9, <2>3 DEF DrvPublish
    <3>3. Ends(FsmAfter, loopq, "CONNECTING", Starting)
      BY <2>1, EndsNow DEF Starting
    <3> QED BY <1>1, <3>1, <3>2, <3>3 DEF State, StateFollows
  <2> QED BY <2>2, <2>3
<1>10. CASE DrvEnd
  BY <1>1, <1>10 DEF DrvEnd, State, StateFollows
<1>11. CASE DrvAbort
  BY <1>11 DEF DrvAbort, State, StateFollows
<1>12. CASE \/ \E c \in Callers : SwitchSame(c) \/ SwitchDiffers(c) \/ SwitchSet(c) \/ SwitchPost(c)
            \/ MainLoad \/ LoopStore \/ UNCHANGED vars
  <2>1. UNCHANGED <<fsm, drv, drvMode>>
    BY <1>12 DEF SwitchSame, SwitchDiffers, SwitchSet, SwitchPost, MainLoad, LoopStore, vars
  <2> QED BY <1>3, <2>1
<1>13. CASE \/ SvcReceive \/ SvcStartBusy \/ SvcStartFails \/ SvcFlash
            \/ SvcStopOff \/ SvcConnectSkips
  <2>1. UNCHANGED <<fsm, drv, drvMode>>
    BY <1>13 DEF SvcReceive, SvcStartBusy, SvcStartFails, SvcFlash, SvcStopOff, SvcConnectSkips
  <2> QED BY <1>3, <2>1
<1>14. CASE SvcStopped \/ SvcJoining
  BY <1>2, <1>14 DEF SvcStopped, SvcJoining
<1>15. CASE ApiPost
  BY <1>3, <1>15 DEF ApiPost
<1> QED BY <1>4, <1>5, <1>6, <1>7, <1>8, <1>9, <1>10, <1>11, <1>12, <1>13, <1>14, <1>15 DEF Elsewhere

\* The loop's own steps.
LEMMA StateLoop ==
  ASSUME Typing, State, LoopDriverEvent \/ LoopModeRequest \/ LoopNotify
  PROVE  State'
<1> USE DEF Typing
<1> DEFINE e == Head(loopq)
           T(s) == IF e \in DOMAIN FsmAfter THEN FsmAfter[e] ELSE s
<1>1. /\ UNCHANGED <<drv, drvMode, radio>> /\ fsm' = T(fsm)
      /\ loopq' \in {Tail(loopq), BusPost(Tail(loopq), "NOTIFY")}
      /\ \E evs : LoopTakes(evs)
  <2>1. CASE LoopDriverEvent
    BY <2>1 DEF LoopDriverEvent, driver
  <2>2. CASE LoopModeRequest \/ LoopNotify
    <3>1. LoopTakes(Requests \cup {"NOTIFY"})
      BY <2>2 DEF LoopModeRequest, LoopNotify, LoopTakes
    <3>2. e \notin DOMAIN FsmAfter
      BY <3>1 DEF LoopTakes, Requests, FsmAfter
    <3> QED BY <2>2, <3>1, <3>2 DEF LoopModeRequest, LoopNotify, driver
  <2> QED BY <2>1, <2>2
<1>2. ASSUME NEW s, NEW S, Ends(FsmAfter, loopq, s, S)
      PROVE  Ends(FsmAfter, loopq', T(s), S)
  BY <1>1, <1>2, LoopWorksOff, StateEvents
<1> HIDE DEF T
<1>3. Ends(FsmAfter, loopq, "RUNNING", {"RUNNING"})
        => Ends(FsmAfter, loopq', "RUNNING", {"RUNNING"})
  BY <1>2, EndsNow
<1> QED BY <1>1, <1>2, <1>3 DEF State, StationLink, StateFollows

\* Requests and announcements put on the loop set nothing.
LEMMA StateHttp ==
  ASSUME Typing, State, HttpModeRequest \/ HttpSaveCreds \/ HttpNotify \/ ApClient
  PROVE  State'
<1> USE DEF Typing, driver
<1>1. loopq \in Seq(LoopEvents)
  BY DEF TypeOK
<1>2. CASE HttpModeRequest
  <2>1. PICK r \in Requests : loopq' = Append(loopq, r)
    BY <1>2 DEF HttpModeRequest
  <2>2. \A s, S : Ends(FsmAfter, loopq, s, S) => Ends(FsmAfter, loopq', s, S)
    BY <1>1, <2>1, NothingSet, StateEvents
  <2> QED BY <1>2, <2>2, SameRadio DEF HttpModeRequest
<1>3. CASE HttpSaveCreds \/ HttpNotify
  <2>1. loopq' \in {loopq, BusPost(loopq, "NOTIFY")} /\ UNCHANGED <<drv, drvMode, radio, fsm>>
    BY <1>3 DEF HttpSaveCreds, HttpNotify
  <2>2. \A s, S : Ends(FsmAfter, loopq, s, S) => Ends(FsmAfter, loopq', s, S)
    BY <1>1, <2>1, NothingSet, StateEvents
  <2> QED BY <2>1, <2>2, SameRadio
<1>4. CASE ApClient
  <2>1. /\ loopq' = loopq \o <<"AP_STACONNECTED">> /\ UNCHANGED <<drv, drvMode, radio, fsm>>
    BY <1>4 DEF ApClient, Perform, Outcome
  <2>2. loopq' = Append(loopq, "AP_STACONNECTED") /\ "AP_STACONNECTED" \in LoopEvents
    BY <1>1, <2>1, AppendIsConcat DEF LoopEvents, DriverEvents
  <2>3. "AP_STACONNECTED" \notin DOMAIN FsmAfter
    BY DEF FsmAfter
  <2>4. \A s, S : Ends(FsmAfter, loopq, s, S) => Ends(FsmAfter, loopq', s, S)
    BY <1>1, <2>2, <2>3, EndsPost
  <2> QED BY <2>1, <2>4, SameRadio
<1> QED BY <1>2, <1>3, <1>4

\* The air changes the link of a station that is not being switched, and the
\* event it announces is the last.
LEMMA StateAir ==
  ASSUME Typing, Down, State, Air
  PROVE  State'
<1> USE DEF Typing, driver
<1>1. PICK o \in AirOutcomes(radio) : Perform(o)
  BY DEF Air
<1>2. radio \in Radios /\ loopq \in Seq(LoopEvents)
  BY DEF TypeOK
<1>3. radio.link # "down" /\ radio.mode = "STA"
  BY <1>1, <1>2 DEF AirOutcomes, State, StationLink, Radios, Links
<1>4. drv \notin {"off", "config", "start", "publish", "connect"}
  BY <1>3 DEF State, StateFollows, Down, Radio
<1>5. PICK e \in DOMAIN FsmAfter :
        /\ o.events = <<e>> /\ FsmAfter[e] \in Fitting(o.radio) /\ o.radio.mode = "STA"
        /\ e \in LoopEvents
  <2>1. CASE radio.link = "joining"
    <3>1. \/ o = [radio |-> Radio("STA", "up"), events |-> <<"STA_CONNECTED">>]
          \/ o = [radio |-> Radio("STA", "down"), events |-> <<"STA_DISCONNECTED">>]
      BY <1>1, <1>3, <2>1 DEF AirOutcomes, Outcome
    <3> QED BY <3>1 DEF FsmAfter, Fitting, Radio, LoopEvents, DriverEvents
  <2>2. CASE radio.link = "up"
    <3>1. \/ o = [radio |-> Radio("STA", "ip"), events |-> <<"GOT_IP">>]
          \/ o = [radio |-> Radio("STA", "down"), events |-> <<"STA_DISCONNECTED">>]
      BY <1>1, <1>3, <2>2 DEF AirOutcomes, Outcome
    <3> QED BY <3>1 DEF FsmAfter, Fitting, Radio, LoopEvents, DriverEvents
  <2>3. CASE radio.link = "ip"
    <3>1. o = [radio |-> Radio("STA", "down"), events |-> <<"STA_DISCONNECTED">>]
      BY <1>1, <1>3, <2>3 DEF AirOutcomes, Outcome
    <3> QED BY <3>1 DEF FsmAfter, Fitting, Radio, LoopEvents, DriverEvents
  <2> QED BY <1>2, <1>3, <2>1, <2>2, <2>3 DEF Radios, Links
<1>6. radio' = o.radio /\ loopq' = loopq \o <<e>> /\ UNCHANGED <<fsm, drv, drvMode>>
  BY <1>1, <1>5 DEF Air, Perform
<1>7. <<e>> # << >> /\ Len(<<e>>) = 1 /\ <<e>>[1] = e /\ <<e>> \in Seq(LoopEvents)
  BY <1>5
<1>8. Ends(FsmAfter, loopq', fsm, Fitting(radio'))
  BY <1>2, <1>5, <1>6, <1>7, EndsDecided
<1> QED BY <1>4, <1>5, <1>6, <1>8 DEF State, StationLink, StateFollows

\* The calls of a driver run.
LEMMA StateRun ==
  ASSUME NoFailures, Typing, Down, State, DrvStop \/ DrvConfig \/ DrvStart \/ DrvConnect
  PROVE  State'
<1> USE DEF Typing, driver, NoFailures, MayFail
<1>1. radio \in Radios /\ loopq \in Seq(LoopEvents)
  BY DEF TypeOK
<1>2. CASE DrvStop
  <2>1. PICK o \in StopOutcomes(radio) : Perform(o) /\ drv' = "off"
    BY <1>2 DEF DrvStop
  <2>2. o.radio = RadioOff
    BY DEF StopOutcomes, Outcome
  <2>3. radio' = RadioOff /\ drv' = "off"
    BY <2>1, <2>2 DEF Perform
  <2> QED BY <2>3 DEF State, StationLink, StateFollows, RadioOff, Radio
<1>3. CASE DrvConfig
  <2>1. radio.mode = "OFF" /\ drv' = "start"
    BY <1>3 DEF DrvConfig, Down
  <2>2. radio' = radio
    BY <1>3, <2>1 DEF DrvConfig, SetModeOutcomes, Outcome, Perform
  <2> QED BY <2>1, <2>2 DEF State, StationLink, StateFollows
<1>4. CASE DrvStart
  <2>1. /\ radio.mode = "OFF" /\ drv' = "publish" /\ UNCHANGED <<fsm, drvMode>>
        /\ Perform(StartOutcome(radio, drvMode))
    BY <1>4 DEF DrvStart, Down
  <2>2. drvMode \in {"AP", "STA"}
    BY <1>4 DEF DrvStart, TypeOK, NeverNullMode, Modes
  <2> DEFINE e == StartEvent[drvMode]
  <2>3. radio' = Radio(drvMode, "down") /\ loopq' = loopq \o <<e>>
    BY <2>1 DEF StartOutcome, Outcome, Perform
  <2>4. e \in DOMAIN FsmAfter /\ FsmAfter[e] = "RUNNING" /\ e \in LoopEvents
    BY <2>2 DEF StartEvent, FsmAfter, LoopEvents, DriverEvents
  <2> HIDE DEF e
  <2>5. <<e>> # << >> /\ Len(<<e>>) = 1 /\ <<e>>[1] = e /\ <<e>> \in Seq(LoopEvents)
    BY <2>4
  <2>6. Ends(FsmAfter, loopq', "RUNNING", {"RUNNING"})
    BY <1>1, <2>3, <2>4, <2>5, EndsDecided
  <2>7. StationLink'
    BY <2>2, <2>3 DEF StationLink, Radio
  <2> QED BY <2>1, <2>3, <2>6, <2>7 DEF State, StateFollows
<1>5. CASE DrvConnect
  <2>1. radio = Radio("STA", "down") /\ Ends(FsmAfter, loopq, fsm, Starting)
    BY <1>5 DEF DrvConnect, State, StateFollows
  <2>2. /\ radio' = Joined(radio) /\ fsm' = fsm /\ drv' = "end" /\ loopq' = loopq
    BY <1>5 DEF DrvConnect, loop
  <2>3. radio' = Radio("STA", "joining")
    BY <2>1, <2>2 DEF Joined, Radio
  <2>4. Fitting(radio') = Starting /\ radio'.mode = "STA"
    BY <2>3 DEF Fitting, Starting, Radio
  <2> QED BY <2>1, <2>2, <2>4 DEF State, StationLink, StateFollows
<1> QED BY <1>2, <1>3, <1>4, <1>5

\* Every step keeps the state following.
LEMMA StateStep ==
  ASSUME NoFailures
  PROVE  Typing /\ Quiet /\ Down /\ State /\ [Next]_vars => State'
<1> SUFFICES ASSUME Typing, Quiet, Down, State, [Next]_vars PROVE State'
  OBVIOUS
<1>1. ~SvcStop /\ ~SvcConnect /\ ~SvcConnectJoins
  BY DEF Quiet, QuietEvents, StartEvents, SvcStop, SvcConnect, SvcConnectJoins
<1> QED BY <1>1, NextSteps, StateElsewhere, StateLoop, StateHttp, StateAir, StateRun

\* Initially the state is POWER_OFF, like the radio.
LEMMA StateInit == Init => State
<1> SUFFICES ASSUME Init PROVE State
  OBVIOUS
<1>1. /\ loopq = << >> /\ DOMAIN loopq = {} /\ fsm = "POWER_OFF" /\ drv = "none"
      /\ radio = RadioOff
  BY DEF Init
<1>2. radio.mode = "OFF" /\ radio.link = "down" /\ Fitting(radio) = {"POWER_OFF"}
  BY <1>1 DEF RadioOff, Radio, Fitting
<1> QED BY <1>1, <1>2 DEF State, StationLink, StateFollows, Ends

\* The driver task and the event loop both write the FSM state, and the loop
\* writes what happened some time ago.  Provided no call of the driver fails and
\* no STOP or CONNECT is posted from outside: once every task waits, the state
\* is one the radio is in.
THEOREM StateMatchesRadio ==
  ASSUME NoFailures
  PROVE  Spec => []FsmAgrees
<1>1. Init => Quiet /\ Down /\ State
  BY DownInit, StateInit
<1>2. Inv /\ Quiet /\ Down /\ State /\ [Next]_vars => Quiet' /\ Down' /\ State'
  BY DownStep, StateStep DEF Inv, NoFailures, ShippedEvents
<1>3. Inv /\ State => FsmAgrees
  <2> SUFFICES ASSUME Inv, State, Quiescent PROVE FsmAgrees
    BY DEF FsmAgrees
  <2>1. Ends(FsmAfter, << >>, fsm, Fitting(radio))
    BY DEF Quiescent, State, StateFollows
  <2>2. fsm \in Fitting(radio)
    BY <2>1, EndsEmpty
  <2>3. radio \in Radios
    BY DEF Inv, Typing, TypeOK
  <2> QED BY <2>2, <2>3 DEF FsmAgrees, Fitting, Radios, RadioModes, Links
<1> QED BY <1>1, <1>2, <1>3, Invariance, PTL DEF Spec
-----------------------------------------------------------------------------
(* The mode switch of ModeSwitch.tla.  A run is undisturbed as long as      *)
(* nobody outside the firmware posts STOP: then the interface it has        *)
(* brought up stays up to its end.                                          *)

Raised == drv \in {"publish", "connect", "end"} => radio.mode = drvMode

\* Steps that neither record a mode nor are taken by a driver run nor touch the
\* radio.
Beside ==
  \/ \E c \in Callers : SwitchSame(c) \/ SwitchDiffers(c) \/ SwitchPost(c)
  \/ MainLoad \/ LoopStore
  \/ SvcReceive \/ SvcStartBusy \/ SvcStartFails \/ SvcFlash
  \/ SvcStopOff \/ SvcStopped \/ SvcConnectSkips \/ SvcJoining
  \/ LoopDriverEvent \/ LoopModeRequest \/ LoopNotify
  \/ HttpModeRequest \/ HttpSaveCreds \/ HttpNotify
  \/ ApiPost \/ UNCHANGED vars

\* They leave the mode, the run and the radio alone.
LEMMA BesideKeeps ==
  ASSUME Beside
  PROVE  UNCHANGED <<mode, drv, drvMode, radio>>
<1>1. ASSUME NEW c \in Callers, SwitchSame(c) \/ SwitchDiffers(c) \/ SwitchPost(c)
      PROVE  UNCHANGED <<mode, drv, drvMode, radio>>
  BY <1>1 DEF SwitchSame, SwitchDiffers, SwitchPost, driver
<1>2. CASE MainLoad \/ LoopStore \/ LoopDriverEvent \/ LoopModeRequest \/ LoopNotify
  BY <1>2 DEF MainLoad, LoopStore, LoopDriverEvent, LoopModeRequest, LoopNotify,
     manager, driver
<1>3. CASE \/ SvcReceive \/ SvcStartBusy \/ SvcStartFails \/ SvcFlash
           \/ SvcStopOff \/ SvcStopped \/ SvcConnectSkips \/ SvcJoining
  BY <1>3 DEF SvcReceive, SvcStartBusy, SvcStartFails, SvcFlash,
     SvcStopOff, SvcStopped, SvcConnectSkips, SvcJoining, manager, driver
<1>4. CASE HttpModeRequest \/ HttpSaveCreds \/ HttpNotify \/ ApiPost \/ UNCHANGED vars
  BY <1>4 DEF HttpModeRequest, HttpSaveCreds, HttpNotify, ApiPost, vars, manager, driver
<1> QED BY <1>1, <1>2, <1>3, <1>4 DEF Beside

\* Every step, by what it does to the mode, the run and the radio.
LEMMA SwitchSteps ==
  ASSUME [Next]_vars
  PROVE  \/ Beside
         \/ \E c \in Callers : SwitchSet(c)
         \/ SvcStartSpawns \/ DrvMode \/ DrvInit \/ DrvCheck \/ DrvOff
         \/ DrvPublish \/ DrvEnd \/ DrvAbort
         \/ SvcStop \/ DrvStop \/ DrvConfig \/ DrvStart
         \/ SvcConnect \/ SvcConnectJoins \/ DrvConnect \/ ApClient \/ Air
BY DEF Next, Beside, MainTask, LoopTask, SvcTask, DrvTask, Environment, Waiting, Callers

\* Joining, losing or keeping a link leaves the interface as it is.
LEMMA LinkSteps ==
  ASSUME TypeOK, SvcConnect \/ SvcConnectJoins \/ DrvConnect \/ ApClient \/ Air
  PROVE  /\ radio'.mode = radio.mode /\ UNCHANGED <<mode, drvMode>>
         /\ drv' = drv \/ DrvConnect
<1> USE DEF manager, driver
<1>1. CASE SvcConnect
  BY <1>1, DisconnectOutcomeType, PerformType DEF SvcConnect, TypeOK
<1>5. CASE SvcConnectJoins
  BY <1>5, JoinedType DEF SvcConnectJoins, TypeOK
<1>2. CASE DrvConnect
  BY <1>2, JoinedType DEF DrvConnect, TypeOK
<1>3. CASE ApClient
  BY <1>3 DEF ApClient, Perform, Outcome
<1>4. CASE Air
  BY <1>4, AirOutcome, PerformType DEF Air, TypeOK
<1> QED BY <1>1, <1>2, <1>3, <1>4, <1>5

\* An undisturbed run keeps its interface once it has started it.
LEMMA RaisedStep ==
  ASSUME ApiEvents \subseteq {"START"}
  PROVE  Typing /\ Ready /\ Quiet /\ Raised /\ [Next]_vars => Raised'
<1> SUFFICES ASSUME Typing, Ready, Quiet, Raised, [Next]_vars PROVE Raised'
  OBVIOUS
<1> USE DEF Typing, driver
<1>1. CASE Beside
  BY <1>1, BesideKeeps DEF Raised
<1>2. CASE \E c \in Callers : SwitchSet(c)
  BY <1>2 DEF SwitchSet, Raised
<1>3. CASE SvcStartSpawns
  BY <1>3 DEF SvcStartSpawns, Raised
<1>4. CASE DrvMode \/ DrvInit \/ DrvCheck \/ DrvOff
  BY <1>4 DEF DrvMode, DrvInit, DrvCheck, DrvOff, Raised
<1>5. CASE DrvPublish \/ DrvEnd \/ DrvAbort
  BY <1>5 DEF DrvPublish, DrvEnd, DrvAbort, Raised
<1>6. CASE SvcStop
  BY <1>6 DEF SvcStop, Quiet, QuietEvents, StartEvents
<1>7. CASE DrvStop \/ DrvConfig
  BY <1>7 DEF DrvStop, DrvConfig, Raised
<1>8. CASE DrvStart
  <2>1. drvMode \in {"AP", "STA"} /\ radio \in Radios /\ radio.mode \in {"OFF", drvMode}
    BY <1>8 DEF DrvStart, NeverNullMode, TypeOK, Modes, Ready
  <2>2. drv' = "publish" => radio'.mode = drvMode
    BY <1>8, <2>1, StartOutcomeType DEF DrvStart, Perform
  <2>3. drv' \in {"publish", "abort"} /\ drvMode' = drvMode
    BY <1>8 DEF DrvStart
  <2> QED BY <2>2, <2>3 DEF Raised
<1>9. CASE SvcConnect \/ SvcConnectJoins \/ DrvConnect \/ ApClient \/ Air
  BY <1>9, LinkSteps DEF DrvConnect, Raised
<1> QED
  BY <1>1, <1>2, <1>3, <1>4, <1>5, <1>6, <1>7, <1>8, <1>9, SwitchSteps

\* The initial state is one of ModeSwitch's.
LEMMA SwitchInit == Init => Switch!Init /\ Raised
BY DEF Init, Switch!Init, Phase, RadioOff, Radio, Raised

\* Every step is a step of ModeSwitch or leaves its variables alone.
LEMMA SwitchStep ==
  ASSUME Inv, ApiEvents \subseteq {"START"} => Quiet /\ Raised, ShippedEvents => Down, [Next]_vars
  PROVE  [Switch!Next]_(Switch!vars)
<1> USE DEF Inv, Typing, manager, driver
<1>1. ASSUME UNCHANGED <<mode, drvMode, Phase>>, radio'.mode = radio.mode
      PROVE  UNCHANGED Switch!vars
  BY <1>1 DEF Switch!vars
<1>2. CASE Beside
  <2>1. UNCHANGED <<mode, drvMode, Phase, radio>>
    BY <1>2, BesideKeeps DEF Phase
  <2> QED BY <1>1, <2>1
<1>3. ASSUME NEW c \in Callers, SwitchSet(c) PROVE Switch!Record
  <2>1. want[c] \in {"AP", "STA"}
    BY DEF TypeOK
  <2>2. mode' = want[c] /\ UNCHANGED <<drvMode, Phase, radio>>
    BY <1>3 DEF SwitchSet, Phase
  <2> QED BY <2>1, <2>2 DEF Switch!Record
<1>4. CASE SvcStartSpawns \/ DrvInit \/ DrvCheck \/ DrvOff \/ DrvPublish
  <2>1. UNCHANGED <<mode, drvMode, Phase, radio>>
    BY <1>4 DEF SvcStartSpawns, DrvInit, DrvCheck, DrvOff, DrvPublish, Phase
  <2> QED BY <1>1, <2>1
<1>5. CASE SvcConnect \/ SvcConnectJoins \/ DrvConnect \/ ApClient \/ Air
  <2>1. Phase' = Phase
    BY <1>5, LinkSteps DEF DrvConnect, Phase
  <2> QED BY <1>1, <1>5, <2>1, LinkSteps
<1>6. CASE DrvMode
  <2>1. mode # "NULL"
    BY <1>6 DEF DrvMode, NoStartYet
  <2>2. Phase = "idle" /\ Phase' = "down" /\ drvMode' = mode /\ UNCHANGED <<mode, radio>>
    BY <1>6 DEF DrvMode, Phase
  <2> QED BY <2>1, <2>2 DEF Switch!Take, Switch!Next
<1>7. CASE SvcStop \/ DrvStop
  <2>1. UNCHANGED <<mode, drvMode, Phase>>
    BY <1>7 DEF SvcStop, DrvStop, Phase
  <2>2. radio' = radio \/ radio'.mode = "OFF"
    BY <1>7, StopOutcome DEF SvcStop, DrvStop, Perform, TypeOK
  <2>3. Phase = "down" \/ ~(ApiEvents \subseteq {"START"})
    BY <1>7 DEF SvcStop, DrvStop, Phase, Quiet, QuietEvents, StartEvents
  <2> QED BY <1>1, <2>1, <2>2, <2>3 DEF Switch!Lower, Switch!Next
<1>8. CASE DrvConfig
  <2>1. UNCHANGED <<mode, drvMode, Phase>> /\ Phase = "down"
    BY <1>8 DEF DrvConfig, Phase
  <2>2. drvMode \in {"AP", "STA"} /\ radio \in Radios
    BY <1>8 DEF DrvConfig, NeverNullMode, TypeOK, Modes
  <2>3. PICK o \in SetModeOutcomes(radio, drvMode) \cup {Outcome(radio, << >>)} : Perform(o)
    BY <1>8 DEF DrvConfig
  <2>4. radio'.mode = radio.mode \/ (radio.mode # "OFF" /\ radio'.mode = drvMode)
    BY <2>2, <2>3 DEF Perform, SetModeOutcomes, Outcome, Radio
  <2>5. ShippedEvents => radio.mode = "OFF"
    BY <1>8 DEF DrvConfig, Down
  <2> QED
    BY <1>1, <2>1, <2>4, <2>5
    DEF ShippedEvents, Switch!Exchange, Switch!Unclean, Switch!Next
<1>9. CASE DrvStart
  <2>1. mode' = mode /\ drvMode' = drvMode /\ Phase = "down"
    BY <1>9 DEF DrvStart, Phase
  <2>2. drvMode \in {"AP", "STA"} /\ radio \in Radios /\ radio.mode \in {"OFF", drvMode}
    BY <1>9 DEF DrvStart, NeverNullMode, TypeOK, Modes, Ready
  <2>3. \/ Phase' = "up" /\ radio'.mode = drvMode
        \/ Phase' = Phase /\ radio' = radio
    BY <1>9, <2>2, StartOutcomeType DEF DrvStart, Perform, Phase
  <2>4. ShippedEvents => radio.mode = "OFF"
    BY <1>9 DEF DrvStart, Down
  <2> QED
    BY <1>1, <2>1, <2>2, <2>3, <2>4
    DEF ShippedEvents, Switch!Raise, Switch!Unclean, Switch!Next
<1>10. CASE DrvEnd
  <2>1. Phase = "up" /\ Phase' = "idle" /\ UNCHANGED <<mode, drvMode, radio>>
    BY <1>10 DEF DrvEnd, Phase
  <2>2. radio.mode = drvMode \/ ~(ApiEvents \subseteq {"START"})
    BY <1>10 DEF DrvEnd, Raised
  <2> QED BY <2>1, <2>2 DEF Switch!Finish, Switch!Next
<1>11. CASE DrvAbort
  <2>1. Phase = "down" /\ Phase' = "idle" /\ UNCHANGED <<mode, drvMode, radio>>
    BY <1>11 DEF DrvAbort, Phase
  <2>2. ShippedEvents => radio.mode = "OFF"
    BY <1>11 DEF DrvAbort, Down
  <2> QED
    BY <2>1, <2>2 DEF ShippedEvents, Switch!GiveUp, Switch!Unclean, Switch!Next
<1> QED
  BY <1>2, <1>3, <1>4, <1>5, <1>6, <1>7, <1>8, <1>9, <1>10, <1>11, SwitchSteps
  DEF Switch!Next

\* The tasks, the queues and the late events of the driver implement the mode
\* switch of ModeSwitch, for any queue lengths, any failing calls and any events
\* posted from outside: a run brings up the mode it took and no other, through
\* a stopped radio unless esp_wifi_stop fails or somebody else stops the radio,
\* and ends with its interface up.
THEOREM SwitchesModes == Spec => Switching
<1>1. Init => /\ Switch!Init
              /\ ApiEvents \subseteq {"START"} => Quiet /\ Raised
              /\ ShippedEvents => Down
  BY SwitchInit, DownInit
<1>2. Inv /\ (ApiEvents \subseteq {"START"} => Quiet /\ Raised) /\ [Next]_vars
        => (ApiEvents \subseteq {"START"} => Quiet /\ Raised)'
  BY QuietStep, RaisedStep DEF Inv
<1>3. Inv /\ (ApiEvents \subseteq {"START"} => Quiet /\ Raised) /\ (ShippedEvents => Down) /\ [Next]_vars
        => (ShippedEvents => Down)'
  BY DownStep DEF Inv, ShippedEvents
<1>4. Inv /\ (ApiEvents \subseteq {"START"} => Quiet /\ Raised) /\ (ShippedEvents => Down) /\ [Next]_vars
        => [Switch!Next]_(Switch!vars)
  BY SwitchStep
<1> QED
  BY <1>1, <1>2, <1>3, <1>4, Invariance, PTL DEF Spec, Switching, Switch!Spec
============================================================================
