------------------------- MODULE WifiHandlerProofs -------------------------
(***************************************************************************)
(* What WifiHandler guarantees for every queue length, every set of        *)
(* failing calls and every use of the service by other callers.            *)
(*                                                                         *)
(* The first lemmas say what the radio and the two queues do.  The         *)
(* inductive invariant Inv follows, one step of its proof for each action, *)
(* and then the theorems.                                                  *)
(***************************************************************************)
EXTENDS WifiHandler, SequenceTheorems, TLAPS

\* What a driver call leads to, as a type.
OutcomeRecords == [radio : Radios, events : Seq(DriverEvents)]

\* Taking an interface down announces driver events only.
LEMMA DownOutcomes ==
  ASSUME NEW r \in Radios, r.mode # "OFF", NEW evs \in DownEvents(r)
  PROVE  evs \in Seq(DriverEvents)
<1>1. r.mode \in {"AP", "STA"}
  BY DEF Radios, RadioModes
<1>2. StopEvent[r.mode] \in DriverEvents /\ "STA_DISCONNECTED" \in DriverEvents
  BY <1>1 DEF StopEvent, DriverEvents
<1>3. \/ evs = <<StopEvent[r.mode]>>
      \/ evs = <<"STA_DISCONNECTED", StopEvent[r.mode]>>
  BY DEF DownEvents
<1>4. <<StopEvent[r.mode]>> \in Seq(DriverEvents)
  BY <1>2
<1>5. <<"STA_DISCONNECTED", StopEvent[r.mode]>> \in Seq(DriverEvents)
  BY <1>2
<1> QED BY <1>3, <1>4, <1>5

\* esp_wifi_stop leaves a stopped radio and announces driver events.
LEMMA StopOutcome ==
  ASSUME NEW r \in Radios, NEW o \in StopOutcomes(r)
  PROVE  o \in OutcomeRecords /\ o.radio.mode = "OFF"
<1>1. RadioOff \in Radios /\ RadioOff.mode = "OFF"
  BY DEF RadioOff, Radio, Radios, RadioModes, Links
<1>2. CASE r.mode = "OFF"
  <2>1. o = [radio |-> RadioOff, events |-> << >>]
    BY <1>2 DEF StopOutcomes, Outcome
  <2> QED BY <1>1, <2>1 DEF OutcomeRecords
<1>3. CASE r.mode # "OFF"
  <2>1. PICK evs \in DownEvents(r) : o = [radio |-> RadioOff, events |-> evs]
    BY <1>3 DEF StopOutcomes, Outcome
  <2>2. evs \in Seq(DriverEvents)
    BY <1>3, DownOutcomes
  <2> QED BY <1>1, <2>1, <2>2 DEF OutcomeRecords
<1> QED BY <1>2, <1>3

\* esp_wifi_set_mode(m) leaves the radio stopped or in m.
LEMMA SetModeOutcome ==
  ASSUME NEW r \in Radios, NEW m \in {"AP", "STA"}, NEW o \in SetModeOutcomes(r, m)
  PROVE  o \in OutcomeRecords /\ o.radio.mode \in {"OFF", m}
<1>1. CASE r.mode \in {"OFF", m}
  <2>1. o = [radio |-> r, events |-> << >>]
    BY <1>1 DEF SetModeOutcomes, Outcome
  <2> QED BY <1>1, <2>1 DEF OutcomeRecords
<1>2. CASE r.mode \notin {"OFF", m}
  <2>1. PICK evs \in DownEvents(r) :
          o = Outcome(Radio(m, "down"), Append(evs, StartEvent[m]))
    BY <1>2 DEF SetModeOutcomes
  <2>2. evs \in Seq(DriverEvents)
    BY <1>2, DownOutcomes
  <2>3. StartEvent[m] \in DriverEvents
    BY DEF StartEvent, DriverEvents
  <2>4. Radio(m, "down") \in Radios /\ Radio(m, "down").mode = m
    BY DEF Radio, Radios, RadioModes, Links
  <2> QED BY <2>1, <2>2, <2>3, <2>4 DEF Outcome, OutcomeRecords
<1> QED BY <1>1, <1>2

\* esp_wifi_start brings up m, on a radio that is stopped or in m already.
LEMMA StartOutcomeType ==
  ASSUME NEW r \in Radios, NEW m \in {"AP", "STA"}
  PROVE  /\ StartOutcome(r, m) \in OutcomeRecords
         /\ r.mode \in {"OFF", m} => StartOutcome(r, m).radio.mode = m
<1>1. StartEvent[m] \in DriverEvents
  BY DEF StartEvent, DriverEvents
<1>2. Radio(m, "down") \in Radios /\ Radio(m, "down").mode = m
  BY DEF Radio, Radios, RadioModes, Links
<1> QED BY <1>1, <1>2 DEF StartOutcome, Outcome, OutcomeRecords

\* esp_wifi_connect keeps the interface.
LEMMA JoinedType ==
  ASSUME NEW r \in Radios
  PROVE  Joined(r) \in Radios /\ Joined(r).mode = r.mode
BY DEF Joined, Radio, Radios, RadioModes, Links

\* esp_wifi_disconnect keeps the interface.
LEMMA DisconnectOutcomeType ==
  ASSUME NEW r \in Radios
  PROVE  /\ DisconnectOutcome(r) \in OutcomeRecords
         /\ DisconnectOutcome(r).radio.mode = r.mode
BY DEF DisconnectOutcome, Outcome, OutcomeRecords, Radio, Radios, RadioModes,
       Links, DriverEvents

\* The air changes the link, never the interface.
LEMMA AirOutcome ==
  ASSUME NEW r \in Radios, NEW o \in AirOutcomes(r)
  PROVE  o \in OutcomeRecords /\ o.radio.mode = r.mode
<1>1. PICK l \in Links, e \in DriverEvents : o = Outcome(Radio(r.mode, l), <<e>>)
  BY DEF AirOutcomes, Radios, Links, DriverEvents
<1>2. Radio(r.mode, l) \in Radios /\ Radio(r.mode, l).mode = r.mode
  BY DEF Radio, Radios
<1>3. <<e>> \in Seq(DriverEvents)
  OBVIOUS
<1> QED BY <1>1, <1>2, <1>3 DEF Outcome, OutcomeRecords

\* A driver call that takes effect leaves a radio and a loop within bounds.
LEMMA PerformType ==
  ASSUME TypeOK, NEW o \in OutcomeRecords, Perform(o)
  PROVE  /\ radio' = o.radio /\ radio' \in Radios
         /\ loopq' \in Seq(LoopEvents) /\ Len(loopq') <= LoopLen
<1>1. o.events \in Seq(LoopEvents) /\ loopq \in Seq(LoopEvents)
  BY DEF TypeOK, OutcomeRecords, LoopEvents
<1>2. Len(loopq \o o.events) = Len(loopq) + Len(o.events)
  BY <1>1
<1>3. loopq \o o.events \in Seq(LoopEvents)
  BY <1>1
<1> QED BY <1>2, <1>3 DEF Perform, OutcomeRecords

\* wifi_srv_post_event keeps the queue within bounds and loses no START event
\* that is in it; a START event posted with room is in it afterwards.
LEMMA PostEventType ==
  ASSUME TypeOK, NEW e \in SrvEvents, PostEvent(e)
  PROVE  /\ queue' \in Seq(SrvEvents) /\ Len(queue') <= QueueLen
         /\ StartQueued => StartQueued'
         /\ StartQueued' => StartQueued \/ e \in StartEvents
         /\ Room /\ e \in StartEvents => StartQueued'
         /\ ~Room => queue' = queue
<1> USE ConstantsAssumption DEF TypeOK
<1>1. CASE Room
  <2>1. queue' = Append(queue, e) /\ Len(queue) < QueueLen
    BY <1>1 DEF PostEvent, Room
  <2>2. Len(queue') = Len(queue) + 1 /\ queue' \in Seq(SrvEvents)
    BY <2>1
  <2>3. \A i \in 1..Len(queue) : queue'[i] = queue[i]
    BY <2>1
  <2>4. queue'[Len(queue) + 1] = e
    BY <2>1
  <2>5. DOMAIN queue = 1..Len(queue) /\ DOMAIN queue' = 1..(Len(queue) + 1)
    BY <2>2
  <2>6. queue' \in Seq(SrvEvents) /\ Len(queue') <= QueueLen
    BY <2>1, <2>2
  <2>7. StartQueued => StartQueued'
    BY <2>2, <2>3, <2>5 DEF StartQueued
  <2>8. StartQueued' => StartQueued \/ e \in StartEvents
    <3> SUFFICES ASSUME NEW i \in 1..(Len(queue) + 1), queue'[i] \in StartEvents
                 PROVE  StartQueued \/ e \in StartEvents
      BY <2>5 DEF StartQueued
    <3>1. CASE i = Len(queue) + 1
      BY <2>4, <3>1
    <3>2. CASE i \in 1..Len(queue)
      BY <2>3, <2>5, <3>2 DEF StartQueued
    <3>3. Len(queue) \in Nat
      OBVIOUS
    <3> QED BY <3>1, <3>2, <3>3
  <2>9. e \in StartEvents => StartQueued'
    <3>1. Len(queue) + 1 \in DOMAIN queue'
      BY <2>5
    <3> QED BY <2>4, <3>1 DEF StartQueued
  <2> QED BY <1>1, <2>6, <2>7, <2>8, <2>9
<1>2. CASE ~Room
  BY <1>2 DEF PostEvent, StartQueued
<1> QED BY <1>1, <1>2

\* event_bus_post keeps the loop within bounds.
LEMMA BusPostType ==
  ASSUME NEW evs \in Seq(LoopEvents), Len(evs) <= LoopLen, NEW e \in LoopEvents
  PROVE  BusPost(evs, e) \in Seq(LoopEvents) /\ Len(BusPost(evs, e)) <= LoopLen
BY ConstantsAssumption DEF BusPost

\* What the event loop takes, and what it leaves.
LEMMA LoopTail ==
  ASSUME TypeOK, NEW S, LoopTakes(S)
  PROVE  /\ Tail(loopq) \in Seq(LoopEvents) /\ Len(Tail(loopq)) <= LoopLen
         /\ Head(loopq) \in LoopEvents /\ Head(loopq) \in S
BY ConstantsAssumption, HeadTailProperties DEF TypeOK, LoopTakes

-----------------------------------------------------------------------------
(* The inductive invariant.  Typing needs to know that a run never reads    *)
(* NULL, and that rests on no START event being under way before a mode is  *)
(* recorded.                                                                *)

NoStartYet ==
  mode = "NULL" =>
    /\ pc["main"] \in {"compare", "set"} /\ pc["loop"] # "post"
    /\ ~StartQueued /\ svc \notin StartEvents /\ drv = "none"

Typing == TypeOK /\ NoStartYet /\ NeverNullMode

\* No START event is on its way: neither about to be posted, nor queued, nor
\* about to be dispatched, nor spawned and still to read the mode.
NoStartUnderWay ==
  /\ \A c \in Callers : pc[c] # "post"
  /\ ~StartQueued /\ svc \notin StartEvents /\ drv # "mode"

\* Then the current run has the manager's mode, or the radio has.
Covered ==
  cause = "none" /\ NoStartUnderWay =>
    \/ drv # "none" /\ drvMode = mode
    \/ drv = "none" /\ (mode = "NULL" \/ radio.mode = mode)

\* A run finds the radio off or in its own mode when it starts it, and leaves
\* it in its own mode.
Ready   == drv = "start" => radio.mode \in {"OFF", drvMode}
Brought == drv \in {"publish", "connect", "end"} /\ cause = "none" => radio.mode = drvMode

Inv == Typing /\ Covered /\ Ready /\ Brought

\* What the service task receives, and what it leaves: the START events of the
\* queue are the ones of its tail and the one received, if it is one.
LEMMA QueueTail ==
  ASSUME TypeOK, queue # << >>
  PROVE  /\ Head(queue) \in SrvEvents
         /\ Tail(queue) \in Seq(SrvEvents) /\ Len(Tail(queue)) <= QueueLen
         /\ (\E i \in DOMAIN Tail(queue) : Tail(queue)[i] \in StartEvents)
              \/ Head(queue) \in StartEvents <=> StartQueued
<1>1. queue \in Seq(SrvEvents) /\ Len(queue) \in Nat \ {0} /\ Len(queue) <= QueueLen
  BY EmptySeq, LenProperties DEF TypeOK
<1>2. /\ Head(queue) = queue[1] /\ Head(queue) \in SrvEvents
      /\ Tail(queue) \in Seq(SrvEvents) /\ Len(Tail(queue)) = Len(queue) - 1
      /\ \A i \in 1..Len(queue) - 1 : Tail(queue)[i] = queue[i + 1]
  BY <1>1, HeadTailProperties DEF TypeOK
<1>3. DOMAIN queue = 1..Len(queue) /\ DOMAIN Tail(queue) = 1..Len(queue) - 1
  BY <1>1, <1>2
<1>4. StartQueued => \/ queue[1] \in StartEvents
                     \/ \E i \in 1..Len(queue) - 1 : queue[i + 1] \in StartEvents
  <2> SUFFICES ASSUME NEW i \in 1..Len(queue), queue[i] \in StartEvents, i # 1
               PROVE  \E j \in 1..Len(queue) - 1 : queue[j + 1] \in StartEvents
    BY <1>3 DEF StartQueued
  <2> WITNESS i - 1 \in 1..Len(queue) - 1
  <2> QED BY <1>1
<1>5. ASSUME NEW i \in 1..Len(queue) - 1, queue[i + 1] \in StartEvents
      PROVE  StartQueued
  BY <1>1, <1>3, <1>5 DEF StartQueued
<1>6. queue[1] \in StartEvents => StartQueued
  BY <1>1, <1>3 DEF StartQueued
<1>7. (\E i \in DOMAIN Tail(queue) : Tail(queue)[i] \in StartEvents)
        <=> (\E i \in 1..Len(queue) - 1 : queue[i + 1] \in StartEvents)
  BY <1>2, <1>3
<1>8. Len(queue) - 1 <= QueueLen
  BY <1>1, ConstantsAssumption
<1> QED BY <1>2, <1>4, <1>5, <1>6, <1>7, <1>8

\* The initial state is typed, and no START event is under way.
LEMMA TypingInit == Init => Typing
<1> SUFFICES ASSUME Init PROVE Typing
  OBVIOUS
<1>1. RadioOff \in Radios
  BY DEF RadioOff, Radio, Radios, RadioModes, Links
<1>2. /\ mode \in Modes /\ svc \in SvcStates /\ fsm \in FsmStates /\ drv \in DriverPcs
      /\ drvMode \in Modes /\ cause \in Causes
  BY DEF Init, Modes, SvcStates, FsmStates, DriverPcs, Causes
<1>3. /\ pc \in [Callers -> CallerPcs] /\ want \in [Callers -> {"AP", "STA"}]
      /\ pc["main"] = "compare" /\ pc["loop"] = "idle"
  BY DEF Init, Callers, CallerPcs
<1>4. queue = << >> /\ loopq = << >> /\ ~StartQueued
  BY DEF Init, StartQueued
<1>5. NoStartYet /\ NeverNullMode
  BY <1>3, <1>4 DEF Init, NoStartYet, NeverNullMode, StartEvents
<1>6. Len(queue) <= QueueLen /\ Len(loopq) <= LoopLen /\ requests \in 0..MaxRequests
  BY <1>4, ConstantsAssumption DEF Init
<1>7. queue \in Seq(SrvEvents) /\ loopq \in Seq(LoopEvents)
  BY <1>4
<1>8. radio \in Radios /\ inited \in BOOLEAN /\ server \in BOOLEAN
  BY <1>1 DEF Init
<1> QED BY <1>2, <1>3, <1>5, <1>6, <1>7, <1>8 DEF Typing, TypeOK

\* Every step keeps the types and brings no START event before a mode.
LEMMA TypingStep == Typing /\ [Next]_vars => Typing'
<1> SUFFICES ASSUME Typing, [Next]_vars PROVE Typing'
  OBVIOUS
<1> USE DEF Typing, manager, service, driver, loop
<1>1. ASSUME NEW c \in Callers, SwitchSame(c) PROVE Typing'
  <2>1. pc' \in [Callers -> CallerPcs]
    BY <1>1 DEF SwitchSame, Return, Goto, TypeOK, CallerPcs
  <2>2. mode # "NULL"
    BY <1>1 DEF SwitchSame, TypeOK
  <2> QED BY <1>1, <2>1, <2>2 DEF SwitchSame, TypeOK, NoStartYet, NeverNullMode
<1>2. ASSUME NEW c \in Callers, SwitchDiffers(c) PROVE Typing'
  <2>1. pc' \in [Callers -> CallerPcs]
    BY <1>2 DEF SwitchDiffers, Goto, TypeOK, CallerPcs
  <2>2. NoStartYet'
    BY <1>2 DEF SwitchDiffers, Goto, TypeOK, NoStartYet, StartQueued, Callers
  <2> QED BY <1>2, <2>1, <2>2 DEF SwitchDiffers, TypeOK, NeverNullMode
<1>3. ASSUME NEW c \in Callers, SwitchSet(c) PROVE Typing'
  <2>1. pc' \in [Callers -> CallerPcs] /\ mode' \in Modes /\ mode' # "NULL"
    BY <1>3 DEF SwitchSet, Goto, TypeOK, CallerPcs, Modes
  <2> QED BY <1>3, <2>1 DEF SwitchSet, TypeOK, NoStartYet, NeverNullMode
<1>4. ASSUME NEW c \in Callers, SwitchPost(c) PROVE Typing'
  <2>1. pc' \in [Callers -> CallerPcs]
    BY <1>4 DEF SwitchPost, Return, Goto, TypeOK, CallerPcs
  <2>2. Start[want[c]] \in SrvEvents
    BY DEF TypeOK, Start, SrvEvents, StartEvents
  <2>3. queue' \in Seq(SrvEvents) /\ Len(queue') <= QueueLen
    BY <1>4, <2>2, PostEventType DEF SwitchPost
  <2>4. cause' \in Causes
    BY <1>4 DEF SwitchPost, TypeOK, Causes
  <2>5. mode # "NULL"
    BY <1>4 DEF SwitchPost, NoStartYet, Callers
  <2> QED BY <1>4, <2>1, <2>3, <2>4, <2>5 DEF SwitchPost, TypeOK, NoStartYet, NeverNullMode
<1>5. ASSUME MainLoad PROVE Typing'
  <2>1. pc' \in [Callers -> CallerPcs]
    BY <1>5 DEF MainLoad, Goto, TypeOK, CallerPcs
  <2>2. queue' \in Seq(SrvEvents) /\ Len(queue') <= QueueLen
    BY <1>5, PostEventType DEF MainLoad, SrvEvents
  <2>3. mode # "NULL"
    BY <1>5 DEF MainLoad, NoStartYet
  <2> QED BY <1>5, <2>1, <2>2, <2>3 DEF MainLoad, TypeOK, NoStartYet, NeverNullMode
<1>6. ASSUME LoopDriverEvent PROVE Typing'
  <2> DEFINE e == Head(loopq)
  <2>1. /\ Tail(loopq) \in Seq(LoopEvents) /\ Len(Tail(loopq)) <= LoopLen
        /\ e \in DriverEvents
    BY <1>6, LoopTail DEF LoopDriverEvent
  <2>2. fsm' \in FsmStates
    BY <1>6, <2>1 DEF LoopDriverEvent, FsmAfter, TypeOK, FsmStates
  <2>3. server' \in BOOLEAN
    BY <1>6 DEF LoopDriverEvent, ServerAfter, TypeOK
  <2>4. loopq' \in Seq(LoopEvents) /\ Len(loopq') <= LoopLen
    BY <1>6, <2>1, BusPostType DEF LoopDriverEvent, LoopEvents
  <2> QED BY <1>6, <2>2, <2>3, <2>4
          DEF LoopDriverEvent, TypeOK, NoStartYet, NeverNullMode, StartQueued
<1>7. ASSUME LoopModeRequest PROVE Typing'
  <2> DEFINE e == Head(loopq)
  <2>1. /\ loopq' \in Seq(LoopEvents) /\ Len(loopq') <= LoopLen
        /\ e \in Requests /\ pc["loop"] = "idle"
    BY <1>7, LoopTail DEF LoopModeRequest, LoopTakes
  <2>2. want' \in [Callers -> {"AP", "STA"}]
    <3>1. CASE e = "REQ_UNSUPPORTED"
      BY <1>7, <3>1 DEF LoopModeRequest, TypeOK
    <3>2. CASE e # "REQ_UNSUPPORTED"
      <4>1. Wanted[e] \in {"AP", "STA"}
        BY <2>1, <3>2 DEF Requests, Wanted
      <4>2. want' = [want EXCEPT !["loop"] = Wanted[e]]
        BY <1>7, <3>2 DEF LoopModeRequest
      <4> QED BY <4>1, <4>2 DEF TypeOK
    <3> QED BY <3>1, <3>2
  <2>3. /\ pc' \in [Callers -> CallerPcs]
        /\ pc'["main"] = pc["main"] /\ pc'["loop"] # "post"
    BY <1>7, <2>1 DEF LoopModeRequest, Goto, TypeOK, CallerPcs, Callers
  <2> QED BY <1>7, <2>1, <2>2, <2>3
          DEF LoopModeRequest, TypeOK, NoStartYet, NeverNullMode, StartQueued
<1>8. ASSUME LoopStore PROVE Typing'
  <2>1. /\ queue' \in Seq(SrvEvents) /\ Len(queue') <= QueueLen
        /\ StartQueued' => StartQueued
    BY <1>8, PostEventType DEF LoopStore, SrvEvents, StartEvents
  <2>2. /\ pc' \in [Callers -> CallerPcs]
        /\ pc'["main"] = pc["main"] /\ pc'["loop"] # "post"
    BY <1>8 DEF LoopStore, Goto, TypeOK, CallerPcs, Callers
  <2> QED BY <1>8, <2>1, <2>2 DEF LoopStore, TypeOK, NoStartYet, NeverNullMode
<1>9. ASSUME LoopNotify PROVE Typing'
  <2>1. loopq' \in Seq(LoopEvents) /\ Len(loopq') <= LoopLen
    BY <1>9, LoopTail DEF LoopNotify
  <2> QED BY <1>9, <2>1
          DEF LoopNotify, TypeOK, NoStartYet, NeverNullMode, StartQueued
<1>10. ASSUME SvcReceive PROVE Typing'
  <2>1. /\ svc' \in SrvEvents
        /\ queue' \in Seq(SrvEvents) /\ Len(queue') <= QueueLen
        /\ StartQueued' \/ svc' \in StartEvents <=> StartQueued
    BY <1>10, QueueTail DEF SvcReceive, StartQueued
  <2> QED BY <1>10, <2>1
          DEF SvcReceive, TypeOK, NoStartYet, NeverNullMode, SvcStates
<1>11. ASSUME SvcStartBusy PROVE Typing'
  BY <1>11 DEF SvcStartBusy, TypeOK, NoStartYet, NeverNullMode, StartQueued,
            SvcStates, StartEvents, Causes
<1>12. ASSUME SvcStartSpawns PROVE Typing'
  BY <1>12 DEF SvcStartSpawns, TypeOK, NoStartYet, NeverNullMode, StartQueued,
            SvcStates, StartEvents, DriverPcs
<1>13. ASSUME SvcStartFails PROVE Typing'
  BY <1>13 DEF SvcStartFails, TypeOK, NoStartYet, NeverNullMode, StartQueued,
            SvcStates, StartEvents, Causes
<1>14. ASSUME SvcFlash PROVE Typing'
  BY <1>14 DEF SvcFlash, TypeOK, NoStartYet, NeverNullMode, StartQueued,
            SvcStates, StartEvents
<1>15. ASSUME SvcStopOff PROVE Typing'
  BY <1>15 DEF SvcStopOff, TypeOK, NoStartYet, NeverNullMode, StartQueued,
            SvcStates, StartEvents
<1>16. ASSUME SvcStop PROVE Typing'
  <2>1. /\ radio' \in Radios /\ loopq' \in Seq(LoopEvents) /\ Len(loopq') <= LoopLen
        /\ svc' \in SvcStates \ StartEvents /\ cause' \in Causes
    <3>1. CASE \E o \in StopOutcomes(radio) : Perform(o) /\ svc' = "stopped" /\ cause' = "stopped"
      BY <3>1, StopOutcome, PerformType DEF TypeOK, SvcStates, StartEvents, Causes
    <3>2. CASE svc' = "idle" /\ UNCHANGED <<radio, loopq, cause>>
      BY <3>2 DEF TypeOK, SvcStates, StartEvents
    <3> QED BY <1>16, <3>1, <3>2 DEF SvcStop
  <2> QED BY <1>16, <2>1
          DEF SvcStop, TypeOK, NoStartYet, NeverNullMode, StartQueued
<1>17. ASSUME SvcStopped PROVE Typing'
  BY <1>17 DEF SvcStopped, TypeOK, NoStartYet, NeverNullMode, StartQueued,
            SvcStates, StartEvents, FsmStates
<1>18. ASSUME SvcConnectSkips PROVE Typing'
  BY <1>18 DEF SvcConnectSkips, TypeOK, NoStartYet, NeverNullMode, StartQueued,
            SvcStates, StartEvents
<1>19. ASSUME SvcConnect PROVE Typing'
  <2>1. DisconnectOutcome(radio) \in OutcomeRecords
    BY DisconnectOutcomeType DEF TypeOK
  <2>2. radio' \in Radios /\ loopq' \in Seq(LoopEvents) /\ Len(loopq') <= LoopLen
    BY <1>19, <2>1, PerformType DEF SvcConnect
  <2> QED BY <1>19, <2>2
          DEF SvcConnect, TypeOK, NoStartYet, NeverNullMode, StartQueued, SvcStates,
              StartEvents
<1>20. ASSUME SvcJoining PROVE Typing'
  BY <1>20 DEF SvcJoining, TypeOK, NoStartYet, NeverNullMode, StartQueued,
            SvcStates, StartEvents, FsmStates
<1>21. ASSUME DrvMode PROVE Typing'
  BY <1>21 DEF DrvMode, TypeOK, NoStartYet, NeverNullMode, StartQueued,
            Modes, DriverPcs, Causes
<1>22. ASSUME DrvInit PROVE Typing'
  BY <1>22 DEF DrvInit, TypeOK, NoStartYet, NeverNullMode, StartQueued,
            DriverPcs
<1>23. ASSUME DrvCheck PROVE Typing'
  BY <1>23 DEF DrvCheck, TypeOK, NoStartYet, NeverNullMode, StartQueued,
            DriverPcs
<1>24. ASSUME DrvStop PROVE Typing'
  <2>1. /\ radio' \in Radios /\ loopq' \in Seq(LoopEvents) /\ Len(loopq') <= LoopLen
        /\ drv' \in {"off", "abort"}
    <3>1. CASE \E o \in StopOutcomes(radio) : Perform(o) /\ drv' = "off"
      BY <3>1, StopOutcome, PerformType DEF TypeOK
    <3>2. CASE drv' = "abort" /\ UNCHANGED <<radio, loopq>>
      BY <3>2 DEF TypeOK
    <3> QED BY <1>24, <3>1, <3>2 DEF DrvStop
  <2> QED BY <1>24, <2>1
          DEF DrvStop, TypeOK, NoStartYet, NeverNullMode, StartQueued, DriverPcs
<1>25. ASSUME DrvOff PROVE Typing'
  BY <1>25 DEF DrvOff, TypeOK, NoStartYet, NeverNullMode, StartQueued,
            DriverPcs, FsmStates
<1>26. ASSUME DrvConfig PROVE Typing'
  <2>1. /\ radio' \in Radios /\ loopq' \in Seq(LoopEvents) /\ Len(loopq') <= LoopLen
        /\ drv' \in {"start", "abort"}
    <3>1. drvMode \in {"AP", "STA"}
      BY <1>26 DEF DrvConfig, TypeOK, NeverNullMode, Modes
    <3>2. ASSUME NEW o \in SetModeOutcomes(radio, drvMode), Perform(o)
          PROVE  radio' \in Radios /\ loopq' \in Seq(LoopEvents) /\ Len(loopq') <= LoopLen
      BY <3>1, <3>2, SetModeOutcome, PerformType DEF TypeOK
    <3>3. ASSUME Perform(Outcome(radio, << >>))
          PROVE  radio' \in Radios /\ loopq' \in Seq(LoopEvents) /\ Len(loopq') <= LoopLen
      <4>1. Outcome(radio, << >>) \in OutcomeRecords
        BY DEF TypeOK, Outcome, OutcomeRecords
      <4> QED BY <3>3, <4>1, PerformType
    <3> QED BY <1>26, <3>2, <3>3 DEF DrvConfig
  <2> QED BY <1>26, <2>1
          DEF DrvConfig, TypeOK, NoStartYet, NeverNullMode, StartQueued, DriverPcs
<1>27. ASSUME DrvStart PROVE Typing'
  <2>1. /\ radio' \in Radios /\ loopq' \in Seq(LoopEvents) /\ Len(loopq') <= LoopLen
        /\ drv' \in {"publish", "abort"}
    <3>1. drvMode \in {"AP", "STA"}
      BY <1>27 DEF DrvStart, TypeOK, NeverNullMode, Modes
    <3>2. StartOutcome(radio, drvMode) \in OutcomeRecords
      BY <3>1, StartOutcomeType DEF TypeOK
    <3> QED BY <1>27, <3>2, PerformType DEF DrvStart, TypeOK
  <2> QED BY <1>27, <2>1
          DEF DrvStart, TypeOK, NoStartYet, NeverNullMode, StartQueued, DriverPcs
<1>28. ASSUME DrvPublish PROVE Typing'
  BY <1>28 DEF DrvPublish, TypeOK, NoStartYet, NeverNullMode, StartQueued,
            DriverPcs, FsmStates
<1>29. ASSUME DrvConnect PROVE Typing'
  <2>1. radio' \in Radios /\ fsm' \in FsmStates
    BY <1>29, JoinedType DEF DrvConnect, TypeOK, FsmStates
  <2> QED BY <1>29, <2>1
          DEF DrvConnect, TypeOK, NoStartYet, NeverNullMode, StartQueued, DriverPcs
<1>30. ASSUME DrvEnd PROVE Typing'
  BY <1>30 DEF DrvEnd, TypeOK, NoStartYet, NeverNullMode, StartQueued,
            DriverPcs
<1>31. ASSUME DrvAbort PROVE Typing'
  BY <1>31 DEF DrvAbort, TypeOK, NoStartYet, NeverNullMode, StartQueued,
            DriverPcs, FsmStates, Causes
<1>32. ASSUME HttpModeRequest PROVE Typing'
  <2>1. loopq' \in Seq(LoopEvents) /\ Len(loopq') <= LoopLen
    BY <1>32, ConstantsAssumption DEF HttpModeRequest, TypeOK, LoopEvents
  <2>2. requests' \in 0..MaxRequests
    BY <1>32, ConstantsAssumption DEF HttpModeRequest, Ask, TypeOK
  <2> QED BY <1>32, <2>1, <2>2
          DEF HttpModeRequest, TypeOK, NoStartYet, NeverNullMode, StartQueued
<1>33. ASSUME HttpSaveCreds PROVE Typing'
  <2>1. /\ queue' \in Seq(SrvEvents) /\ Len(queue') <= QueueLen
        /\ StartQueued' => StartQueued
    BY <1>33, PostEventType DEF HttpSaveCreds, SrvEvents, StartEvents
  <2>2. loopq' \in Seq(LoopEvents) /\ Len(loopq') <= LoopLen
    BY <1>33, BusPostType DEF HttpSaveCreds, TypeOK, LoopEvents
  <2>3. requests' \in 0..MaxRequests
    BY <1>33, ConstantsAssumption DEF HttpSaveCreds, Ask, TypeOK
  <2> QED BY <1>33, <2>1, <2>2, <2>3
          DEF HttpSaveCreds, TypeOK, NoStartYet, NeverNullMode
<1>34. ASSUME HttpNotify PROVE Typing'
  <2>1. loopq' \in Seq(LoopEvents) /\ Len(loopq') <= LoopLen
    BY <1>34, BusPostType DEF HttpNotify, TypeOK, LoopEvents
  <2>2. requests' \in 0..MaxRequests
    BY <1>34, ConstantsAssumption DEF HttpNotify, Ask, TypeOK
  <2> QED BY <1>34, <2>1, <2>2
          DEF HttpNotify, TypeOK, NoStartYet, NeverNullMode, StartQueued
<1>35. ASSUME ApClient PROVE Typing'
  <2>1. Outcome(radio, <<"AP_STACONNECTED">>) \in OutcomeRecords
    BY DEF Outcome, OutcomeRecords, TypeOK, DriverEvents
  <2>2. radio' \in Radios /\ loopq' \in Seq(LoopEvents) /\ Len(loopq') <= LoopLen
    BY <1>35, <2>1, PerformType DEF ApClient
  <2>3. requests' \in 0..MaxRequests
    BY <1>35, ConstantsAssumption DEF ApClient, Ask, TypeOK
  <2> QED BY <1>35, <2>2, <2>3
          DEF ApClient, TypeOK, NoStartYet, NeverNullMode, StartQueued
<1>36. ASSUME Air PROVE Typing'
  <2>1. radio' \in Radios /\ loopq' \in Seq(LoopEvents) /\ Len(loopq') <= LoopLen
    BY <1>36, AirOutcome, PerformType DEF Air, TypeOK
  <2> QED BY <1>36, <2>1 DEF Air, TypeOK, NoStartYet, NeverNullMode, StartQueued
<1>37. ASSUME ApiPost PROVE Typing'
  <2>1. /\ queue' \in Seq(SrvEvents) /\ Len(queue') <= QueueLen
        /\ StartQueued' => StartQueued \/ pc["main"] = "idle"
    <3>1. PICK e \in ApiEvents : \E s \in ApiSent(e) : PostEvent(s)
      BY <1>37 DEF ApiPost
    <3>2. PICK s \in ApiSent(e) : PostEvent(s)
      BY <3>1
    <3>3. s \in SrvEvents /\ (s \in StartEvents => pc["main"] = "idle")
      BY <3>2, ConstantsAssumption DEF ApiSent, SrvEvents, StartEvents
    <3> QED BY <3>2, <3>3, PostEventType
  <2>2. requests' \in 0..MaxRequests
    BY <1>37, ConstantsAssumption DEF ApiPost, Ask, TypeOK
  <2> QED BY <1>37, <2>1, <2>2 DEF ApiPost, TypeOK, NoStartYet, NeverNullMode
<1>38. CASE UNCHANGED vars
  BY <1>38 DEF vars, TypeOK, NoStartYet, NeverNullMode, StartQueued
<1>39. ASSUME SvcConnectJoins PROVE Typing'
  <2>1. radio' \in Radios
    BY <1>39, JoinedType DEF SvcConnectJoins, TypeOK
  <2> QED BY <1>39, <2>1
          DEF SvcConnectJoins, TypeOK, NoStartYet, NeverNullMode, StartQueued, SvcStates,
              StartEvents
<1> QED
  BY <1>1, <1>2, <1>3, <1>4, <1>5, <1>6, <1>7, <1>8, <1>9, <1>10,
     <1>11, <1>12, <1>13, <1>14, <1>15, <1>16, <1>17, <1>18, <1>19, <1>20,
     <1>21, <1>22, <1>23, <1>24, <1>25, <1>26, <1>27, <1>28, <1>29, <1>30,
     <1>31, <1>32, <1>33, <1>34, <1>35, <1>36, <1>37, <1>38, <1>39
  DEF Next, MainTask, LoopTask, SvcTask, DrvTask, Environment, Waiting, Callers

\* Initially nothing is recorded, so nothing needs to be covered.
LEMMA CoverInit == Init => Covered /\ Ready /\ Brought
BY DEF Init, Covered, Ready, Brought

\* Every step keeps the recorded mode covered, or records why not.
LEMMA CoverStep ==
  Typing /\ Covered /\ Ready /\ Brought /\ [Next]_vars => Covered' /\ Ready' /\ Brought'
<1> DEFINE Goal == Covered' /\ Ready' /\ Brought'
<1> SUFFICES ASSUME Typing, Covered, Ready, Brought, [Next]_vars PROVE Goal
  OBVIOUS
<1> USE DEF Typing, manager, service, driver, loop
<1>1. ASSUME NEW c \in Callers, SwitchSame(c) PROVE Goal
  <2>1. \A d \in Callers : pc'[d] = "post" <=> pc[d] = "post"
    BY <1>1 DEF SwitchSame, Return, Goto, TypeOK
  <2> QED BY <1>1, <2>1 DEF SwitchSame, Covered, Ready, Brought, NoStartUnderWay, StartQueued
<1>2. ASSUME NEW c \in Callers, SwitchDiffers(c) PROVE Goal
  <2>1. \A d \in Callers : pc'[d] = "post" <=> pc[d] = "post"
    BY <1>2 DEF SwitchDiffers, Goto, TypeOK
  <2> QED BY <1>2, <2>1 DEF SwitchDiffers, Covered, Ready, Brought, NoStartUnderWay, StartQueued
<1>3. ASSUME NEW c \in Callers, SwitchSet(c) PROVE Goal
  <2>1. pc'[c] = "post"
    BY <1>3 DEF SwitchSet, Goto, TypeOK
  <2> QED BY <1>3, <2>1 DEF SwitchSet, Covered, Ready, Brought, NoStartUnderWay
<1>4. ASSUME NEW c \in Callers, SwitchPost(c) PROVE Goal
  <2>1. Start[want[c]] \in StartEvents /\ Start[want[c]] \in SrvEvents
    BY DEF TypeOK, Start, SrvEvents, StartEvents
  <2>2. Room => StartQueued'
    BY <1>4, <2>1, PostEventType DEF SwitchPost
  <2>3. ~Room => (StartQueued <=> StartQueued')
    BY <1>4, <2>1, PostEventType DEF SwitchPost, StartQueued
  <2>4. Covered'
    BY <1>4, <2>2, <2>3 DEF SwitchPost, Covered, NoStartUnderWay, RunCovers
  <2> QED BY <1>4, <2>4 DEF SwitchPost, Ready, Brought
<1>5. ASSUME MainLoad PROVE Goal
  <2>1. StartQueued => StartQueued'
    BY <1>5, PostEventType DEF MainLoad, SrvEvents
  <2>2. \A d \in Callers : pc'[d] = "post" <=> pc[d] = "post"
    BY <1>5 DEF MainLoad, Goto, TypeOK
  <2> QED BY <1>5, <2>1, <2>2 DEF MainLoad, Covered, Ready, Brought, NoStartUnderWay
<1>6. ASSUME LoopDriverEvent PROVE Goal
  BY <1>6 DEF LoopDriverEvent, Covered, Ready, Brought, NoStartUnderWay, StartQueued
<1>7. ASSUME LoopModeRequest PROVE Goal
  <2>1. \A d \in Callers : pc[d] = "post" => pc'[d] = "post"
    BY <1>7 DEF LoopModeRequest, LoopTakes, Goto, TypeOK
  <2> QED BY <1>7, <2>1
          DEF LoopModeRequest, Covered, Ready, Brought, NoStartUnderWay, StartQueued
<1>8. ASSUME LoopStore PROVE Goal
  <2>1. StartQueued => StartQueued'
    BY <1>8, PostEventType DEF LoopStore, SrvEvents
  <2>2. \A d \in Callers : pc[d] = "post" => pc'[d] = "post"
    BY <1>8 DEF LoopStore, Goto, TypeOK
  <2> QED BY <1>8, <2>1, <2>2 DEF LoopStore, Covered, Ready, Brought, NoStartUnderWay
<1>9. ASSUME LoopNotify PROVE Goal
  BY <1>9 DEF LoopNotify, Covered, Ready, Brought, NoStartUnderWay, StartQueued
<1>10. ASSUME SvcReceive PROVE Goal
  <2>1. StartQueued' \/ svc' \in StartEvents <=> StartQueued
    BY <1>10, QueueTail DEF SvcReceive, StartQueued
  <2>2. svc \notin StartEvents
    BY <1>10 DEF SvcReceive, StartEvents
  <2> QED BY <1>10, <2>1, <2>2 DEF SvcReceive, Covered, Ready, Brought, NoStartUnderWay
<1>11. ASSUME SvcStartBusy PROVE Goal
  <2>1. StartQueued' <=> StartQueued
    BY <1>11 DEF SvcStartBusy, StartQueued
  <2> QED BY <1>11, <2>1
          DEF SvcStartBusy, Covered, Ready, Brought, NoStartUnderWay, RunCovers
<1>12. ASSUME SvcStartSpawns PROVE Goal
  BY <1>12 DEF SvcStartSpawns, Covered, Ready, Brought, NoStartUnderWay
<1>13. ASSUME SvcStartFails PROVE Goal
  BY <1>13 DEF SvcStartFails, Covered, Ready, Brought
<1>14. ASSUME SvcFlash PROVE Goal
  BY <1>14 DEF SvcFlash, Covered, Ready, Brought, NoStartUnderWay, StartQueued, StartEvents
<1>15. ASSUME SvcStopOff PROVE Goal
  BY <1>15 DEF SvcStopOff, Covered, Ready, Brought, NoStartUnderWay, StartQueued, StartEvents
<1>16. ASSUME SvcStop PROVE Goal
  <2>1. CASE \E o \in StopOutcomes(radio) : Perform(o) /\ svc' = "stopped" /\ cause' = "stopped"
    <3>1. radio'.mode = "OFF"
      BY <2>1, StopOutcome, PerformType DEF TypeOK
    <3> QED BY <1>16, <2>1, <3>1 DEF SvcStop, Covered, Ready, Brought
  <2>2. CASE svc' = "idle" /\ UNCHANGED <<radio, loopq, cause>>
    BY <1>16, <2>2
       DEF SvcStop, Covered, Ready, Brought, NoStartUnderWay, StartQueued, StartEvents
  <2> QED BY <1>16, <2>1, <2>2 DEF SvcStop
<1>17. ASSUME SvcStopped PROVE Goal
  BY <1>17 DEF SvcStopped, Covered, Ready, Brought, NoStartUnderWay, StartQueued, StartEvents
<1>18. ASSUME SvcConnectSkips PROVE Goal
  BY <1>18 DEF SvcConnectSkips, Covered, Ready, Brought, NoStartUnderWay, StartQueued, StartEvents
<1>19. ASSUME SvcConnect PROVE Goal
  <2>1. radio'.mode = radio.mode
    BY <1>19, DisconnectOutcomeType, PerformType DEF SvcConnect, TypeOK
  <2> QED BY <1>19, <2>1
          DEF SvcConnect, Covered, Ready, Brought, NoStartUnderWay, StartQueued, StartEvents
<1>20. ASSUME SvcJoining PROVE Goal
  BY <1>20 DEF SvcJoining, Covered, Ready, Brought, NoStartUnderWay, StartQueued, StartEvents
<1>21. ASSUME DrvMode PROVE Goal
  BY <1>21 DEF DrvMode, Covered, Ready, Brought
<1>22. ASSUME DrvInit PROVE Goal
  BY <1>22 DEF DrvInit, Covered, Ready, Brought, NoStartUnderWay, StartQueued
<1>23. ASSUME DrvCheck PROVE Goal
  BY <1>23 DEF DrvCheck, Covered, Ready, Brought, NoStartUnderWay, StartQueued
<1>24. ASSUME DrvStop PROVE Goal
  BY <1>24 DEF DrvStop, Covered, Ready, Brought, NoStartUnderWay, StartQueued
<1>25. ASSUME DrvOff PROVE Goal
  BY <1>25 DEF DrvOff, Covered, Ready, Brought, NoStartUnderWay, StartQueued
<1>26. ASSUME DrvConfig PROVE Goal
  <2>1. Ready'
    <3>1. drvMode \in {"AP", "STA"}
      BY <1>26 DEF DrvConfig, TypeOK, NeverNullMode, Modes
    <3>2. ASSUME NEW o \in SetModeOutcomes(radio, drvMode), Perform(o)
          PROVE  radio'.mode \in {"OFF", drvMode}
      BY <3>1, <3>2, SetModeOutcome, PerformType DEF TypeOK
    <3> QED BY <1>26, <3>2 DEF DrvConfig, Ready
  <2> QED BY <1>26, <2>1 DEF DrvConfig, Covered, Brought, NoStartUnderWay, StartQueued
<1>27. ASSUME DrvStart PROVE Goal
  <2>1. Brought'
    <3>1. drvMode \in {"AP", "STA"}
      BY <1>27 DEF DrvStart, TypeOK, NeverNullMode, Modes
    <3>2. StartOutcome(radio, drvMode).radio.mode = drvMode
      BY <1>27, <3>1, StartOutcomeType DEF DrvStart, Ready, TypeOK
    <3> QED BY <1>27, <3>2 DEF DrvStart, Brought, Perform
  <2> QED BY <1>27, <2>1 DEF DrvStart, Covered, Ready, NoStartUnderWay, StartQueued
<1>28. ASSUME DrvPublish PROVE Goal
  BY <1>28 DEF DrvPublish, Covered, Ready, Brought, NoStartUnderWay, StartQueued
<1>29. ASSUME DrvConnect PROVE Goal
  <2>1. radio'.mode = radio.mode
    BY <1>29, JoinedType DEF DrvConnect, TypeOK
  <2> QED BY <1>29, <2>1
          DEF DrvConnect, Covered, Ready, Brought, NoStartUnderWay, StartQueued
<1>30. ASSUME DrvEnd PROVE Goal
  BY <1>30 DEF DrvEnd, Covered, Ready, Brought, NoStartUnderWay, StartQueued
<1>31. ASSUME DrvAbort PROVE Goal
  BY <1>31 DEF DrvAbort, Covered, Ready, Brought
<1>32. ASSUME HttpModeRequest PROVE Goal
  BY <1>32 DEF HttpModeRequest, Covered, Ready, Brought, NoStartUnderWay, StartQueued
<1>33. ASSUME HttpSaveCreds PROVE Goal
  <2>1. StartQueued => StartQueued'
    BY <1>33, PostEventType DEF HttpSaveCreds, SrvEvents
  <2> QED BY <1>33, <2>1 DEF HttpSaveCreds, Covered, Ready, Brought, NoStartUnderWay
<1>34. ASSUME HttpNotify PROVE Goal
  BY <1>34 DEF HttpNotify, Covered, Ready, Brought, NoStartUnderWay, StartQueued
<1>35. ASSUME ApClient PROVE Goal
  <2>1. radio' = radio
    BY <1>35 DEF ApClient, Perform, Outcome
  <2> QED BY <1>35, <2>1
          DEF ApClient, Covered, Ready, Brought, NoStartUnderWay, StartQueued
<1>36. ASSUME Air PROVE Goal
  <2>1. radio'.mode = radio.mode
    BY <1>36, AirOutcome, PerformType DEF Air, TypeOK
  <2> QED BY <1>36, <2>1
          DEF Air, Covered, Ready, Brought, NoStartUnderWay, StartQueued
<1>37. ASSUME ApiPost PROVE Goal
  <2>1. StartQueued => StartQueued'
    <3>1. PICK e \in ApiEvents : \E s \in ApiSent(e) : PostEvent(s)
      BY <1>37 DEF ApiPost
    <3>2. PICK s \in ApiSent(e) : PostEvent(s)
      BY <3>1
    <3>3. s \in SrvEvents
      BY <3>2, ConstantsAssumption DEF ApiSent, SrvEvents, StartEvents
    <3> QED BY <3>2, <3>3, PostEventType
  <2> QED BY <1>37, <2>1 DEF ApiPost, Covered, Ready, Brought, NoStartUnderWay
<1>38. CASE UNCHANGED vars
  BY <1>38 DEF vars, Covered, Ready, Brought, NoStartUnderWay, StartQueued
<1>39. ASSUME SvcConnectJoins PROVE Goal
  <2>1. radio'.mode = radio.mode
    BY <1>39, JoinedType DEF SvcConnectJoins, TypeOK
  <2> QED BY <1>39, <2>1
          DEF SvcConnectJoins, Covered, Ready, Brought, NoStartUnderWay, StartQueued, StartEvents
<1> QED
  BY <1>1, <1>2, <1>3, <1>4, <1>5, <1>6, <1>7, <1>8, <1>9, <1>10,
     <1>11, <1>12, <1>13, <1>14, <1>15, <1>16, <1>17, <1>18, <1>19, <1>20,
     <1>21, <1>22, <1>23, <1>24, <1>25, <1>26, <1>27, <1>28, <1>29, <1>30,
     <1>31, <1>32, <1>33, <1>34, <1>35, <1>36, <1>37, <1>38, <1>39
  DEF Next, MainTask, LoopTask, SvcTask, DrvTask, Environment, Waiting, Callers

\* The inductive invariant holds throughout.
LEMMA Invariance == Spec => []Inv
<1>1. Init => Inv
  BY TypingInit, CoverInit DEF Inv
<1>2. Inv /\ [Next]_vars => Inv'
  BY TypingStep, CoverStep DEF Inv
<1> QED BY <1>1, <1>2, PTL DEF Spec

-----------------------------------------------------------------------------
\* Every variable keeps its type in every configuration: any queue lengths, any
\* set of failing calls, any external events.
THEOREM TypeCorrect == Spec => []TypeOK
<1>1. Inv => TypeOK
  BY DEF Inv, Typing
<1> QED BY <1>1, Invariance, PTL

\* No driver run of wifi_start_with_mode reads a mode that was never recorded.
THEOREM ModeAlwaysKnown == Spec => []NeverNullMode
<1>1. Inv => NeverNullMode
  BY DEF Inv, Typing
<1> QED BY <1>1, Invariance, PTL

\* Whatever is switched, from wherever, and however the tasks interleave: once
\* every task waits, the radio stands in the mode the manager records, unless
\* one of the named causes intervened after the last driver run read the mode.
THEOREM Convergence == Spec => []Converged
<1>1. Inv => Converged
  <2> SUFFICES ASSUME Inv, Quiescent, cause = "none" PROVE radio.mode = mode
    BY DEF Converged
  <2>1. mode # "NULL"
    BY DEF Inv, Typing, NoStartYet, Quiescent, Callers
  <2>2. ~StartQueued
    BY DEF Quiescent, StartQueued
  <2>3. NoStartUnderWay /\ drv = "none"
    BY <2>2 DEF Quiescent, NoStartUnderWay, StartEvents
  <2> QED BY <2>1, <2>3 DEF Inv, Covered
<1> QED BY <1>1, Invariance, PTL

-----------------------------------------------------------------------------
(* Stopping before starting.  It needs that esp_wifi_stop succeeds and that *)
(* nobody but the driver task stops or reconnects the radio: then the FSM   *)
(* state, read once by the run, tells the truth about a running radio.      *)

ShippedEvents == "stop" \notin Faults /\ ApiEvents \subseteq {"START"}

QuietEvents == StartEvents \cup {"STORE", "LOAD"}
Quiet == queue \in Seq(QuietEvents) /\ svc \in QuietEvents \cup {"idle"}

Down ==
  /\ drv \in {"off", "config", "start", "abort"} => radio.mode = "OFF"
  /\ drv = "init" => ~inited
  /\ ~inited => radio.mode = "OFF" /\ drv \in {"none", "mode", "init", "abort"}
  /\ radio.mode # "OFF" => fsm # "POWER_OFF" \/ drv = "publish"

\* A post of an event the firmware itself posts keeps the queue quiet.
LEMMA QuietPost ==
  ASSUME queue \in Seq(QuietEvents), NEW e \in QuietEvents, PostEvent(e)
  PROVE  queue' \in Seq(QuietEvents)
BY DEF PostEvent

\* Initially the queue is empty and the radio off.
LEMMA DownInit == Init => Quiet /\ Down
BY DEF Init, Quiet, Down, RadioOff, Radio

\* No event but the firmware's own is queued or dispatched, if nobody outside
\* posts STOP or CONNECT.
LEMMA QuietStep ==
  ASSUME ApiEvents \subseteq {"START"}
  PROVE  Typing /\ Quiet /\ [Next]_vars => Quiet'
<1> SUFFICES ASSUME Typing, Quiet, [Next]_vars PROVE Quiet'
  OBVIOUS
<1> USE DEF manager, service
<1>1. ASSUME queue' = queue, svc' \in {svc, "idle"} PROVE Quiet'
  BY <1>1 DEF Quiet
<1>2. ASSUME NEW e \in QuietEvents, PostEvent(e), svc' = svc PROVE Quiet'
  BY <1>2, QuietPost DEF Quiet
<1>3. "STORE" \in QuietEvents /\ "LOAD" \in QuietEvents
  BY DEF QuietEvents
<1>4. ASSUME NEW c \in Callers, SwitchSame(c) \/ SwitchDiffers(c) \/ SwitchSet(c)
      PROVE  Quiet'
  BY <1>1, <1>4 DEF SwitchSame, SwitchDiffers, SwitchSet
<1>5. ASSUME NEW c \in Callers, SwitchPost(c) PROVE Quiet'
  <2>1. Start[want[c]] \in QuietEvents
    BY DEF QuietEvents, StartEvents, Start, Typing, TypeOK
  <2> QED BY <1>2, <1>5, <2>1 DEF SwitchPost
<1>6. CASE MainLoad
  BY <1>2, <1>3, <1>6 DEF MainLoad
<1>7. CASE LoopStore \/ HttpSaveCreds
  BY <1>2, <1>3, <1>7 DEF LoopStore, HttpSaveCreds
<1>8. CASE LoopDriverEvent \/ LoopModeRequest \/ LoopNotify
  BY <1>1, <1>8 DEF LoopDriverEvent, LoopModeRequest, LoopNotify
<1>9. CASE SvcReceive
  <2>1. Head(queue) \in QuietEvents /\ Tail(queue) \in Seq(QuietEvents)
    BY <1>9, EmptySeq, HeadTailProperties DEF SvcReceive, Quiet
  <2> QED BY <1>9, <2>1 DEF SvcReceive, Quiet
<1>10. CASE \/ SvcStartBusy \/ SvcStartSpawns \/ SvcStartFails \/ SvcFlash \/ SvcStopOff
            \/ SvcStopped \/ SvcConnectSkips \/ SvcJoining
  BY <1>1, <1>10 DEF SvcStartBusy, SvcStartSpawns, SvcStartFails, SvcFlash, SvcStopOff,
     SvcStopped, SvcConnectSkips, SvcJoining
<1>11. CASE SvcStop \/ SvcConnect \/ SvcConnectJoins
  BY <1>11 DEF SvcStop, SvcConnect, SvcConnectJoins, Quiet, QuietEvents, StartEvents
<1>12. CASE DrvTask
  BY <1>1, <1>12 DEF DrvTask, DrvMode, DrvInit, DrvCheck, DrvStop, DrvOff, DrvConfig,
     DrvStart, DrvPublish, DrvConnect, DrvEnd, DrvAbort
<1>13. CASE HttpModeRequest \/ HttpNotify \/ ApClient \/ Air
  BY <1>1, <1>13 DEF HttpModeRequest, HttpNotify, ApClient, Air
<1>14. CASE ApiPost
  <2>1. PICK s \in QuietEvents : PostEvent(s)
    BY <1>14 DEF ApiPost, ApiSent, QuietEvents
  <2> QED BY <1>2, <1>14, <2>1 DEF ApiPost
<1>15. CASE UNCHANGED vars
  BY <1>1, <1>15 DEF vars
<1> QED
  BY <1>4, <1>5, <1>6, <1>7, <1>8, <1>9, <1>10, <1>11, <1>12, <1>13, <1>14, <1>15
  DEF Next, MainTask, LoopTask, SvcTask, Environment, Waiting, Callers

\* Every step keeps the radio down where the driver run relies on it.
LEMMA DownStep ==
  ASSUME ShippedEvents
  PROVE  Typing /\ Quiet /\ Down /\ [Next]_vars => Quiet' /\ Down'
<1> DEFINE Goal == Down'
<1> SUFFICES ASSUME Typing, Quiet, Down, [Next]_vars PROVE Goal
  BY QuietStep DEF ShippedEvents
<1> USE DEF Typing, manager, service, driver, loop, ShippedEvents
<1>1. ASSUME NEW c \in Callers, SwitchSame(c) PROVE Goal
  BY <1>1 DEF SwitchSame, Down
<1>2. ASSUME NEW c \in Callers, SwitchDiffers(c) PROVE Goal
  BY <1>2 DEF SwitchDiffers, Down
<1>3. ASSUME NEW c \in Callers, SwitchSet(c) PROVE Goal
  BY <1>3 DEF SwitchSet, Down
<1>4. ASSUME NEW c \in Callers, SwitchPost(c) PROVE Goal
  BY <1>4 DEF SwitchPost, Down
<1>5. ASSUME MainLoad PROVE Goal
  BY <1>5 DEF MainLoad, Down
<1>6. ASSUME LoopDriverEvent PROVE Goal
  <2>1. fsm' = fsm \/ fsm' # "POWER_OFF"
    BY <1>6 DEF LoopDriverEvent, FsmAfter
  <2> QED BY <1>6, <2>1 DEF LoopDriverEvent, Down
<1>7. ASSUME LoopModeRequest PROVE Goal
  BY <1>7 DEF LoopModeRequest, Down
<1>8. ASSUME LoopStore PROVE Goal
  BY <1>8 DEF LoopStore, Down
<1>9. ASSUME LoopNotify PROVE Goal
  BY <1>9 DEF LoopNotify, Down
<1>10. ASSUME SvcReceive PROVE Goal
  BY <1>10 DEF SvcReceive, Down
<1>11. ASSUME SvcStartBusy PROVE Goal
  BY <1>11 DEF SvcStartBusy, Down
<1>12. ASSUME SvcStartSpawns PROVE Goal
  BY <1>12 DEF SvcStartSpawns, Down
<1>13. ASSUME SvcStartFails PROVE Goal
  BY <1>13 DEF SvcStartFails, Down
<1>14. ASSUME SvcFlash PROVE Goal
  BY <1>14 DEF SvcFlash, Down
<1>15. ASSUME SvcStopOff PROVE Goal
  BY <1>15 DEF SvcStopOff, Quiet, QuietEvents, StartEvents
<1>16. ASSUME SvcStop PROVE Goal
  BY <1>16 DEF SvcStop, Quiet, QuietEvents, StartEvents
<1>17. ASSUME SvcStopped PROVE Goal
  BY <1>17 DEF SvcStopped, Quiet, QuietEvents, StartEvents
<1>18. ASSUME SvcConnectSkips PROVE Goal
  BY <1>18 DEF SvcConnectSkips, Quiet, QuietEvents, StartEvents
<1>19. ASSUME SvcConnect PROVE Goal
  BY <1>19 DEF SvcConnect, Quiet, QuietEvents, StartEvents
<1>20. ASSUME SvcJoining PROVE Goal
  BY <1>20 DEF SvcJoining, Quiet, QuietEvents, StartEvents
<1>21. ASSUME DrvMode PROVE Goal
  BY <1>21 DEF DrvMode, Down, TypeOK
<1>22. ASSUME DrvInit PROVE Goal
  BY <1>22 DEF DrvInit, Down, TypeOK
<1>23. ASSUME DrvCheck PROVE Goal
  BY <1>23 DEF DrvCheck, Down, TypeOK
<1>24. ASSUME DrvStop PROVE Goal
  <2>1. PICK o \in StopOutcomes(radio) : Perform(o) /\ drv' = "off"
    BY <1>24 DEF DrvStop, MayFail
  <2>2. radio'.mode = "OFF"
    BY <2>1, StopOutcome DEF Perform, TypeOK
  <2> QED BY <1>24, <2>1, <2>2 DEF DrvStop, Down
<1>25. ASSUME DrvOff PROVE Goal
  BY <1>25 DEF DrvOff, Down, TypeOK
<1>26. ASSUME DrvConfig PROVE Goal
  <2>1. radio.mode = "OFF"
    BY <1>26 DEF DrvConfig, Down
  <2>2. radio' = radio
    BY <1>26, <2>1 DEF DrvConfig, SetModeOutcomes, Outcome, Perform
  <2>3. drv' \in {"start", "abort"}
    BY <1>26 DEF DrvConfig
  <2> QED BY <1>26, <2>1, <2>2, <2>3 DEF DrvConfig, Down
<1>27. ASSUME DrvStart PROVE Goal
  <2>1. radio.mode = "OFF" /\ inited
    BY <1>27 DEF DrvStart, Down, TypeOK
  <2>2. drv' = "publish" \/ (drv' = "abort" /\ radio' = radio)
    BY <1>27 DEF DrvStart
  <2> QED BY <1>27, <2>1, <2>2 DEF DrvStart, Down
<1>28. ASSUME DrvPublish PROVE Goal
  BY <1>28 DEF DrvPublish, Down, TypeOK
<1>29. ASSUME DrvConnect PROVE Goal
  <2>1. radio'.mode = radio.mode /\ (fsm' = fsm \/ fsm' = "IDLE")
    BY <1>29, JoinedType DEF DrvConnect, TypeOK
  <2> QED BY <1>29, <2>1 DEF DrvConnect, Down
<1>30. ASSUME DrvEnd PROVE Goal
  BY <1>30 DEF DrvEnd, Down, TypeOK
<1>31. ASSUME DrvAbort PROVE Goal
  BY <1>31 DEF DrvAbort, Down, TypeOK
<1>32. ASSUME HttpModeRequest PROVE Goal
  BY <1>32 DEF HttpModeRequest, Down
<1>33. ASSUME HttpSaveCreds PROVE Goal
  BY <1>33 DEF HttpSaveCreds, Down
<1>34. ASSUME HttpNotify PROVE Goal
  BY <1>34 DEF HttpNotify, Down
<1>35. ASSUME ApClient PROVE Goal
  <2>1. radio' = radio
    BY <1>35 DEF ApClient, Perform, Outcome
  <2> QED BY <1>35, <2>1 DEF ApClient, Down
<1>36. ASSUME Air PROVE Goal
  <2>1. radio'.mode = radio.mode
    BY <1>36, AirOutcome, PerformType DEF Air, TypeOK
  <2> QED BY <1>36, <2>1 DEF Air, Down
<1>37. ASSUME ApiPost PROVE Goal
  BY <1>37 DEF ApiPost, Down
<1>38. CASE UNCHANGED vars
  BY <1>38 DEF vars, Down
<1>39. ASSUME SvcConnectJoins PROVE Goal
  BY <1>39 DEF SvcConnectJoins, Quiet, QuietEvents, StartEvents
<1> QED
  BY <1>1, <1>2, <1>3, <1>4, <1>5, <1>6, <1>7, <1>8, <1>9, <1>10,
     <1>11, <1>12, <1>13, <1>14, <1>15, <1>16, <1>17, <1>18, <1>19, <1>20,
     <1>21, <1>22, <1>23, <1>24, <1>25, <1>26, <1>27, <1>28, <1>29, <1>30,
     <1>31, <1>32, <1>33, <1>34, <1>35, <1>36, <1>37, <1>38, <1>39
  DEF Next, MainTask, LoopTask, SvcTask, DrvTask, Environment, Waiting, Callers

\* As long as esp_wifi_stop succeeds and no STOP or CONNECT is posted from
\* outside, a driver run calls esp_wifi_start on a stopped radio only, however
\* the event loop's late writes of the FSM state interleave with the run.
THEOREM StopBeforeStart ==
  ASSUME ShippedEvents
  PROVE  Spec => []StartOnlyStopped
<1>1. Init => Quiet /\ Down
  BY DownInit
<1>2. Inv /\ Quiet /\ Down /\ [Next]_vars => Quiet' /\ Down'
  BY DownStep DEF Inv
<1>3. Down => StartOnlyStopped
  BY DEF Down, StartOnlyStopped
<1> QED BY <1>1, <1>2, <1>3, Invariance, PTL DEF Spec
============================================================================
