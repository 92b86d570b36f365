----------------------------- MODULE Boot_proofs -----------------------------
(***************************************************************************)
(* Proofs about Boot, for any number of failing calls and of events, and   *)
(* queues of any length.                                                   *)
(***************************************************************************)
EXTENDS Boot, SequenceTheorems, TLAPS

----------------------------------------------------------------------------
(* The order of the calls *)

\* The place of each service among the calls of app_init and of app_start.
InitOrder ==
  [logger |-> 1, event |-> 2, register |-> 3, alert |-> 4, tag_runtime |-> 5,
   modbus |-> 6, dispatcher |-> 7, acquisition |-> 8, publisher |-> 9,
   subscriber |-> 10, wifi |-> 11, mqtt |-> 12, nextion |-> 13]

StartOrder ==
  [alert |-> 1, dispatcher |-> 2, acquisition |-> 3, wifi |-> 4, nextion |-> 5]

LEMMA Lengths ==
  /\ Len(app_init) = 13 /\ DOMAIN app_init = 1 .. 13
  /\ Len(app_start) = 5 /\ DOMAIN app_start = 1 .. 5
  BY DEF app_init, app_start

LEMMA InitCalls ==
  ASSUME NEW i \in 1 .. 13
  PROVE  LET call == app_init[i]
         IN  /\ call.service \in DOMAIN InitOrder /\ InitOrder[call.service] = i
             /\ call.from = {"down"} /\ call.to = "initialized" /\ call.left = "down"
             /\ call.errors \subseteq {"NO_MEMORY", "FAIL"}
             /\ "FAIL" \in call.errors => i <= 4
  <1>1. i \in {1, 2, 3, 4, 5, 6, 7, 8, 9, 10, 11, 12, 13}
    BY SMT
  <1>. QED
    BY <1>1, SMT DEF app_init, Initialise, InitOrder, logger_init, event_init, event_register,
       alert_init, tag_runtime_init, modbus_init, protocol_dispatcher_init,
       acquisition_init, publisher_init, subscriber_init, wifi_init, mqtt_init, nextion_init

LEMMA StartCalls ==
  ASSUME NEW i \in 1 .. 5
  PROVE  LET call == app_start[i]
         IN  /\ call.service \in DOMAIN StartOrder /\ StartOrder[call.service] = i
             /\ call.from = {"initialized", "stopped"} /\ call.to = "running"
             /\ call.left \in {"initialized", "stopped"}
             /\ call.service = "alert" => call.left = "initialized"
             /\ call.errors = {"NO_MEMORY"}
  <1>1. i \in {1, 2, 3, 4, 5}
    BY SMT
  <1>. QED
    BY <1>1, SMT DEF app_start, Run, StartOrder, alert_start, protocol_dispatcher_start,
       acquisition_start, wifi_start, nextion_start

LEMMA Services ==
  /\ Service = DOMAIN InitOrder /\ Started = DOMAIN StartOrder
  /\ Started \subseteq Service
  /\ \A s, t \in Service : InitOrder[s] = InitOrder[t] => s = t
  /\ \A s, t \in Started : StartOrder[s] = StartOrder[t] => s = t
  /\ \A s \in Service : InitOrder[s] \in 1 .. 13
  /\ \A s \in Started : StartOrder[s] \in 1 .. 5
  <1>1. \A s \in DOMAIN InitOrder : InitOrder[s] \in 1 .. 13
    BY SMT DEF InitOrder
  <1>2. \A s \in DOMAIN StartOrder : StartOrder[s] \in 1 .. 5
    BY SMT DEF StartOrder
  <1>3. \A s, t \in DOMAIN InitOrder : InitOrder[s] = InitOrder[t] => s = t
    BY SMT DEF InitOrder
  <1>4. \A s, t \in DOMAIN StartOrder : StartOrder[s] = StartOrder[t] => s = t
    BY SMT DEF StartOrder
  <1>5. Service = DOMAIN InitOrder
    <2>1. Service = {app_init[i].service : i \in 1 .. 13}
      BY Lengths DEF Service
    <2>2. Service \subseteq DOMAIN InitOrder
      BY <2>1, InitCalls
    <2>3. ASSUME NEW s \in DOMAIN InitOrder PROVE s \in Service
      <3>1. InitOrder[s] \in 1 .. 13
        BY <1>1
      <3>2. s = app_init[InitOrder[s]].service
        BY <1>3, <3>1, InitCalls
      <3>. QED
        BY <2>1, <3>1, <3>2
    <2>. QED
      BY <2>2, <2>3
  <1>6. Started = DOMAIN StartOrder
    <2>1. Started = {app_start[i].service : i \in 1 .. 5}
      BY Lengths DEF Started
    <2>2. Started \subseteq DOMAIN StartOrder
      BY <2>1, StartCalls
    <2>3. ASSUME NEW s \in DOMAIN StartOrder PROVE s \in Started
      <3>1. StartOrder[s] \in 1 .. 5
        BY <1>2
      <3>2. s = app_start[StartOrder[s]].service
        BY <1>4, <3>1, StartCalls
      <3>. QED
        BY <2>1, <3>1, <3>2
    <2>. QED
      BY <2>2, <2>3
  <1>7. DOMAIN StartOrder \subseteq DOMAIN InitOrder
    BY DEF StartOrder, InitOrder
  <1>. QED
    BY <1>1, <1>2, <1>3, <1>4, <1>5, <1>6, <1>7

\* The call setup() is at.
LEMMA CallFacts ==
  ASSUME InSetup, place \in {"app_init", "app_start", "loop", "restarting"}, next \in 1 .. 14
  PROVE  /\ place \in {"app_init", "app_start"}
         /\ Call.service \in Service
         /\ {Call.to, Call.left} \subseteq {"down", "initialized", "running", "stopped"}
         /\ Call.service = "alert" =>
              {Call.to, Call.left} \subseteq {"down", "initialized", "running"}
         /\ place = "app_init" =>
              /\ next \in 1 .. 13 /\ InitOrder[Call.service] = next
              /\ Call.from = {"down"} /\ Call.to = "initialized" /\ Call.left = "down"
              /\ Call.errors \subseteq {"NO_MEMORY", "FAIL"}
              /\ "FAIL" \in Call.errors => next <= 4
         /\ place = "app_start" =>
              /\ next \in 1 .. 5 /\ Call.service \in Started
              /\ StartOrder[Call.service] = next
              /\ Call.from = {"initialized", "stopped"} /\ Call.to = "running"
              /\ Call.left \in {"initialized", "stopped"}
              /\ Call.errors = {"NO_MEMORY"}
  <1>1. CASE place = "app_init"
    <2>1. next \in 1 .. 13 /\ Call = app_init[next]
      <3>1. Calls[place] = app_init
        BY <1>1 DEF Calls
      <3>. QED
        BY <3>1, Lengths DEF InSetup, Call
    <2>. QED
      BY <1>1, <2>1, InitCalls, Services
  <1>2. CASE place = "app_start"
    <2>1. next \in 1 .. 5 /\ Call = app_start[next]
      <3>1. Calls[place] = app_start
        BY <1>2 DEF Calls
      <3>. QED
        BY <3>1, Lengths DEF InSetup, Call
    <2>. QED
      BY <1>2, <2>1, StartCalls, Services
  <1>. QED
    BY <1>1, <1>2 DEF InSetup, Calls

----------------------------------------------------------------------------
(* Types *)

\* TypeOK by owner, so that a step needs to look only at what it touches.
EventTypeOK ==
  /\ loop \in Seq(DOMAIN Severity) /\ Len(loop) <= LoopCapacity
  /\ refused \subseteq {"event"}

AlertTypeOK ==
  /\ alertState \in {"down", "initialized", "running"}
  /\ alertQueue \in Seq([severity : {"CRITICAL", "WARNING", "INFO"}, timestamp : Nat])
  /\ Len(alertQueue) <= AlertCapacity
  /\ clock \in Nat
  /\ sent \in [severity : {"NONE", "CRITICAL", "WARNING", "INFO"}, timestamp : Nat]

BootTypeOK ==
  /\ place \in {"app_init", "app_start", "loop", "restarting"}
  /\ next \in 1 .. 14
  /\ state \in [Service \ {"alert"} -> {"down", "initialized", "running", "stopped"}]

CountTypeOK ==
  mqttRunning \in BOOLEAN /\ failures \in 0 .. MaxFailures /\ events \in 0 .. MaxEvents

LEMMA TypeByOwner ==
  TypeOK <=> EventTypeOK /\ AlertTypeOK /\ BootTypeOK /\ CountTypeOK
  BY DEF TypeOK, EventTypeOK, AlertTypeOK, BootTypeOK, CountTypeOK

LEMMA TypeByOwnerNext ==
  EventTypeOK' /\ AlertTypeOK' /\ BootTypeOK' /\ CountTypeOK' => TypeOK'
  BY DEF TypeOK, EventTypeOK, AlertTypeOK, BootTypeOK, CountTypeOK

LEMMA PostKeepsType ==
  ASSUME EventTypeOK, NEW event \in DOMAIN Severity, event_post(event)
  PROVE  EventTypeOK'
  <1>1. LoopCapacity \in Nat /\ loop \in Seq(DOMAIN Severity) /\ Len(loop) \in Nat
    BY LoopAssumption DEF EventTypeOK
  <1>2. CASE Len(loop) < LoopCapacity
    <2>1. loop' = Append(loop, event) /\ refused' = refused
      BY <1>2 DEF event_post
    <2>2. loop' \in Seq(DOMAIN Severity) /\ Len(loop') = Len(loop) + 1
      BY <1>1, <2>1
    <2>. QED
      BY <1>1, <1>2, <2>1, <2>2 DEF EventTypeOK
  <1>3. CASE ~(Len(loop) < LoopCapacity)
    BY <1>3 DEF event_post, EventTypeOK
  <1>. QED
    BY <1>2, <1>3

LEMMA FaultKeepsType ==
  ASSUME EventTypeOK, place \in {"app_init", "app_start"}, NEW status, fault_handler(status)
  PROVE  /\ EventTypeOK'
         /\ next' = 1 /\ place' \in {"app_start", "loop", "restarting"}
  <1>1. "SYSTEM_FAULT" \in DOMAIN Severity
    BY DEF Severity
  <1>2. EventTypeOK'
    <2>1. CASE UNCHANGED <<loop, refused>>
      BY <2>1 DEF EventTypeOK
    <2>2. CASE event_post("SYSTEM_FAULT")
      BY <1>1, <2>2, PostKeepsType
    <2>. QED
      BY <2>1, <2>2 DEF fault_handler
  <1>. QED
    BY <1>2 DEF fault_handler, After

LEMMA SetStateKeepsType ==
  ASSUME AlertTypeOK, BootTypeOK, NEW s \in Service,
         NEW value \in {"down", "initialized", "running", "stopped"},
         s = "alert" => value # "stopped", SetState(s, value)
  PROVE  /\ AlertTypeOK'
         /\ state' \in [Service \ {"alert"} -> {"down", "initialized", "running", "stopped"}]
  BY DEF SetState, alertVars, AlertTypeOK, BootTypeOK

LEMMA HandlerKeepsType ==
  ASSUME AlertTypeOK, NEW event, alert_event_handler(event)
  PROVE  AlertTypeOK'
  <1> DEFINE Alert == [severity : {"CRITICAL", "WARNING", "INFO"}, timestamp : Nat]
             alert == [severity |-> Severity[event], timestamp |-> clock + 1]
  <1>1. CASE UNCHANGED alertVars
    BY <1>1 DEF alertVars, AlertTypeOK
  <1>2. CASE ~UNCHANGED alertVars
    <2>1. /\ event \in DOMAIN Severity /\ clock' = clock + 1
          /\ UNCHANGED <<alertState, sent>>
          /\ alertQueue' = IF Len(alertQueue) < AlertCapacity
                           THEN Append(alertQueue, alert) ELSE alertQueue
      BY <1>2 DEF alert_event_handler
    <2>2. Severity[event] \in {"CRITICAL", "WARNING", "INFO"}
      BY <2>1 DEF Severity
    <2>3. alert \in Alert /\ alertQueue \in Seq(Alert) /\ AlertCapacity \in Nat
      BY <2>2, AlertAssumption DEF AlertTypeOK
    <2>4. alertQueue' \in Seq(Alert) /\ Len(alertQueue') <= AlertCapacity
      <3> HIDE DEF Alert, alert
      <3>1. CASE Len(alertQueue) < AlertCapacity
        <4>1. alertQueue' = Append(alertQueue, alert)
          BY <2>1, <3>1
        <4>2. Len(alertQueue') = Len(alertQueue) + 1 /\ Len(alertQueue) \in Nat
              /\ alertQueue' \in Seq(Alert)
          BY <2>3, <4>1
        <4>. QED
          BY <2>3, <3>1, <4>2
      <3>2. CASE ~(Len(alertQueue) < AlertCapacity)
        BY <2>1, <2>3, <3>2 DEF AlertTypeOK
      <3>. QED
        BY <3>1, <3>2
    <2>. QED
      BY <2>1, <2>4 DEF AlertTypeOK
  <1>. QED
    BY <1>1, <1>2

LEMMA SendKeepsType ==
  ASSUME AlertTypeOK, alertTask
  PROVE  AlertTypeOK'
  <1> DEFINE Alert == [severity : {"CRITICAL", "WARNING", "INFO"}, timestamp : Nat]
  <1>1. /\ alertQueue \in Seq(Alert) /\ alertQueue # <<>> /\ alertQueue' = Tail(alertQueue)
        /\ sent' \in {sent, Head(alertQueue)} /\ UNCHANGED <<alertState, clock>>
        /\ AlertCapacity \in Nat
    BY AlertAssumption DEF alertTask, AlertTypeOK
  <1>2. /\ alertQueue' \in Seq(Alert) /\ Len(alertQueue') = Len(alertQueue) - 1
        /\ Len(alertQueue) \in Nat /\ Head(alertQueue) \in Alert
    <2> HIDE DEF Alert
    <2>. QED
      BY <1>1
  <1>3. sent' \in [severity : {"NONE", "CRITICAL", "WARNING", "INFO"}, timestamp : Nat]
    BY <1>1, <1>2 DEF AlertTypeOK
  <1>4. Len(alertQueue') <= AlertCapacity
    BY <1>1, <1>2 DEF AlertTypeOK
  <1>. QED
    BY <1>1, <1>2, <1>3, <1>4 DEF AlertTypeOK

LEMMA TypeSetup == TypeOK /\ Setup => TypeOK'
  <1> SUFFICES ASSUME TypeOK, Setup PROVE TypeOK'
    OBVIOUS
  <1>1. EventTypeOK /\ AlertTypeOK /\ BootTypeOK /\ CountTypeOK
    BY TypeByOwner
  <1>2. InSetup => /\ place \in {"app_init", "app_start"}
                   /\ Call.service \in Service
                   /\ {Call.to, Call.left}
                        \subseteq {"down", "initialized", "running", "stopped"}
                   /\ Call.service = "alert" => Call.to # "stopped" /\ Call.left # "stopped"
                   /\ next + 1 \in 1 .. 14
    BY <1>1, CallFacts DEF BootTypeOK
  <1>3. CASE Succeed
    <2>1. AlertTypeOK' /\ state' \in [Service \ {"alert"} ->
                                       {"down", "initialized", "running", "stopped"}]
      BY <1>1, <1>2, <1>3, SetStateKeepsType DEF Succeed
    <2>. QED
      BY <1>1, <1>2, <1>3, <2>1, TypeByOwnerNext
      DEF Succeed, EventTypeOK, BootTypeOK, CountTypeOK
  <1>4. CASE Fail
    <2>1. AlertTypeOK' /\ state' \in [Service \ {"alert"} ->
                                       {"down", "initialized", "running", "stopped"}]
      BY <1>1, <1>2, <1>4, SetStateKeepsType DEF Fail
    <2>2. EventTypeOK' /\ next' = 1 /\ place' \in {"app_start", "loop", "restarting"}
      BY <1>1, <1>2, <1>4, FaultKeepsType DEF Fail
    <2>3. CountTypeOK'
      BY <1>1, <1>4, BootAssumption DEF Fail, CountTypeOK
    <2>. QED
      BY <2>1, <2>2, <2>3, TypeByOwnerNext DEF BootTypeOK
  <1>5. CASE Refuse
    <2>1. EventTypeOK' /\ next' = 1 /\ place' \in {"app_start", "loop", "restarting"}
      BY <1>1, <1>2, <1>5, FaultKeepsType DEF Refuse
    <2>. QED
      BY <1>1, <1>5, <2>1, TypeByOwnerNext
      DEF Refuse, alertVars, AlertTypeOK, BootTypeOK, CountTypeOK
  <1>6. CASE Return
    <2>1. next' = 1 /\ place' \in {"app_start", "loop"}
      BY <1>6 DEF Return, Calls, After
    <2>. QED
      BY <1>1, <1>6, <2>1, TypeByOwnerNext
      DEF Return, alertVars, EventTypeOK, AlertTypeOK, BootTypeOK, CountTypeOK
  <1>7. CASE esp_restart
    <2>1. EventTypeOK'
      BY <1>1, <1>7, LoopAssumption DEF esp_restart, EventTypeOK
    <2>2. AlertTypeOK'
      BY <1>1, <1>7, AlertAssumption DEF esp_restart, AlertTypeOK, Nothing
    <2>3. place' = "app_init" /\ next' = 1 /\ state' = [s \in Service \ {"alert"} |-> "down"]
      BY <1>7 DEF esp_restart
    <2>4. BootTypeOK'
      BY <2>3 DEF BootTypeOK
    <2>5. CountTypeOK'
      BY <1>1, <1>7 DEF esp_restart, CountTypeOK
    <2>. QED
      BY <2>1, <2>2, <2>4, <2>5, TypeByOwnerNext
  <1>. QED
    BY <1>3, <1>4, <1>5, <1>6, <1>7 DEF Setup

LEMMA TypeInvariant == TypeOK /\ [Next]_vars => TypeOK'
  <1> SUFFICES ASSUME TypeOK, [Next]_vars PROVE TypeOK'
    OBVIOUS
  <1>1. EventTypeOK /\ AlertTypeOK /\ BootTypeOK /\ CountTypeOK
    BY TypeByOwner
  <1>2. CASE HandleEvent
    <2>1. AlertTypeOK'
      BY <1>1, <1>2, HandlerKeepsType DEF HandleEvent
    <2>2. EventTypeOK'
      <3>1. /\ loop \in Seq(DOMAIN Severity) /\ loop # <<>> /\ loop' = Tail(loop)
            /\ LoopCapacity \in Nat
        BY <1>1, <1>2, LoopAssumption DEF HandleEvent, EventTypeOK
      <3>2. loop' \in Seq(DOMAIN Severity) /\ Len(loop') = Len(loop) - 1 /\ Len(loop) \in Nat
        BY <3>1
      <3>3. Len(loop') <= LoopCapacity
        BY <1>1, <3>1, <3>2 DEF EventTypeOK
      <3>. QED
        BY <1>1, <1>2, <3>2, <3>3 DEF HandleEvent, EventTypeOK
    <2>. QED
      BY <1>1, <1>2, <2>1, <2>2, TypeByOwnerNext
      DEF HandleEvent, bootVars, BootTypeOK, CountTypeOK
  <1>3. CASE SendAlert
    <2>1. AlertTypeOK'
      BY <1>1, <1>3, SendKeepsType DEF SendAlert
    <2>. QED
      BY <1>1, <1>3, <2>1, TypeByOwnerNext
      DEF SendAlert, bootVars, EventTypeOK, BootTypeOK, CountTypeOK
  <1>4. CASE CorePosts
    <2>1. EventTypeOK'
      BY <1>1, <1>4, PostKeepsType, BootAssumption DEF CorePosts
    <2>2. CountTypeOK'
      BY <1>1, <1>4, BootAssumption DEF CorePosts, bootVars, CountTypeOK
    <2>. QED
      BY <1>1, <1>4, <2>1, <2>2, TypeByOwnerNext
      DEF CorePosts, bootVars, alertVars, AlertTypeOK, BootTypeOK
  <1>5. CASE MqttChanges
    BY <1>1, <1>5, TypeByOwnerNext
    DEF MqttChanges, bootVars, alertVars, EventTypeOK, AlertTypeOK, BootTypeOK, CountTypeOK
  <1>6. CASE UNCHANGED vars
    BY <1>1, <1>6, TypeByOwnerNext
    DEF vars, bootVars, alertVars, EventTypeOK, AlertTypeOK, BootTypeOK, CountTypeOK
  <1>. QED
    BY <1>2, <1>3, <1>4, <1>5, <1>6, TypeSetup DEF Next

LEMMA InitTypeOK == Init => TypeOK
  <1> SUFFICES ASSUME Init PROVE TypeOK
    OBVIOUS
  <1>1. EventTypeOK /\ AlertTypeOK
    BY LoopAssumption, AlertAssumption
    DEF Init, EventInit, AlertInit, Nothing, EventTypeOK, AlertTypeOK
  <1>2. place = "app_init" /\ next = 1 /\ state = [s \in Service \ {"alert"} |-> "down"]
    BY DEF Init
  <1>3. BootTypeOK
    BY <1>2 DEF BootTypeOK
  <1>4. mqttRunning = FALSE /\ failures = 0 /\ events = 0
    BY DEF Init
  <1>5. 0 \in 0 .. MaxFailures /\ 0 \in 0 .. MaxEvents
    BY BootAssumption
  <1>6. CountTypeOK
    BY <1>4, <1>5 DEF CountTypeOK
  <1>. QED
    BY <1>1, <1>3, <1>6, TypeByOwner

\* Neither queue outgrows its length, whatever fails (xQueueCreate in
\* alert_service.cpp:158, and the event loop's).
THEOREM BootTypeCorrect == SafeSpec => []TypeOK
  BY InitTypeOK, TypeInvariant, PTL DEF SafeSpec

----------------------------------------------------------------------------
(* What setup() leaves *)

\* app_init has initialised the services before the next one.
Initialising ==
  place = "app_init" =>
    \A s \in Service : StateOf(s) = IF InitOrder[s] < next THEN "initialized" ELSE "down"

\* The event loop could not be had: alert_start will refuse.
Broken ==
  /\ alertState = "down"
  /\ \A s \in Started : StateOf(s) # "running"

\* All is initialised, and app_start has started the services before the nth.
AllInitialised(n) ==
  \A s \in Service :
    StateOf(s) = IF s \in Started /\ StartOrder[s] < n THEN "running" ELSE "initialized"

Starting ==
  place = "app_start" => (next = 1 /\ Broken) \/ AllInitialised(next)

Settled ==
  place = "loop" => Broken \/ AllInitialised(6)

\* Inductive: of the states setup() goes through it says all, and of a device
\* about to restart that it is one of them, but for the service that failed.
IInv ==
  /\ TypeOK
  /\ Initialising /\ Starting /\ Settled
  /\ place = "restarting" => RunningHasItsNeeds

\* What the needs come to: nothing is down, and the started services run that
\* come before the nth.
RunInOrder(n) ==
  /\ \A s \in Service : StateOf(s) # "down"
  /\ \A s \in Started : StateOf(s) = "running" <=> StartOrder[s] < n

LEMMA NeedsMet == \A n \in Nat : RunInOrder(n) => RunningHasItsNeeds
  <1> SUFFICES ASSUME NEW n \in Nat, RunInOrder(n) PROVE RunningHasItsNeeds
    OBVIOUS
  <1>1. ASSUME NEW s \in Started PROVE Needs(s) \subseteq Service
    BY Services DEF Needs, StartOrder, InitOrder
  <1>2. "dispatcher" \in Started /\ StateOf("dispatcher") = state["dispatcher"]
    BY Services DEF StartOrder, StateOf
  <1>3. ASSUME NEW s \in {"acquisition", "wifi"}, s \in Started, StateOf(s) = "running"
        PROVE  state["dispatcher"] = "running"
    <2>1. StartOrder[s] < n /\ StartOrder[s] \in {3, 4} /\ StartOrder["dispatcher"] = 2
      BY <1>3 DEF StartOrder, RunInOrder
    <2>2. StartOrder["dispatcher"] < n
      BY <2>1
    <2>. QED
      BY <1>2, <2>2 DEF RunInOrder
  <1>. QED
    BY <1>1, <1>3 DEF RunningHasItsNeeds, RunInOrder

LEMMA NeedsMetNext == (\A n \in Nat : RunInOrder(n) => RunningHasItsNeeds)'
  BY NeedsMet, PTL

LEMMA NoneRunning ==
  ASSUME \A s \in Started : StateOf(s) # "running" PROVE RunningHasItsNeeds
  BY DEF RunningHasItsNeeds

LEMMA AllInitialisedMeetsNeeds ==
  ASSUME NEW n \in Nat, AllInitialised(n) PROVE RunningHasItsNeeds
  <1>1. \A s \in Service : StateOf(s) # "down"
    BY DEF AllInitialised
  <1>2. \A s \in Started : StateOf(s) = "running" <=> StartOrder[s] < n
    BY Services DEF AllInitialised
  <1>. QED
    BY <1>1, <1>2, NeedsMet DEF RunInOrder

LEMMA InvariantMeetsNeeds ==
  ASSUME IInv PROVE RunningHasItsNeeds
  <1>1. next \in Nat /\ place \in {"app_init", "app_start", "loop", "restarting"}
    BY DEF IInv, TypeOK
  <1>2. CASE place = "app_init"
    BY <1>2, NoneRunning, Services DEF IInv, Initialising
  <1>3. CASE place = "app_start"
    BY <1>1, <1>3, NoneRunning, AllInitialisedMeetsNeeds DEF IInv, Starting, Broken
  <1>4. CASE place = "loop"
    BY <1>4, NoneRunning, AllInitialisedMeetsNeeds DEF IInv, Settled, Broken
  <1>5. CASE place = "restarting"
    BY <1>5 DEF IInv
  <1>. QED
    BY <1>1, <1>2, <1>3, <1>4, <1>5

LEMMA StateSet ==
  ASSUME BootTypeOK, NEW s \in Service, NEW value, SetState(s, value)
  PROVE  \A t \in Service : StateOf(t)' = IF t = s THEN value ELSE StateOf(t)
  <1>1. CASE s = "alert"
    BY <1>1 DEF SetState, StateOf
  <1>2. CASE s # "alert"
    <2>1. state' = [state EXCEPT ![s] = value] /\ alertState' = alertState
      BY <1>2 DEF SetState, alertVars
    <2>. QED
      BY <1>2, <2>1 DEF StateOf, BootTypeOK
  <1>. QED
    BY <1>1, <1>2

\* A call is ready when the calls before it have done what they are for.
\* What setup() finds when it gets to a call: a call is ready when those before
\* it have done what they are for.
LEMMA CallReady ==
  ASSUME IInv, InSetup
  PROVE  /\ place = "app_init" => Ready
         /\ place = "app_start" /\ AllInitialised(next) => Ready
         /\ place = "app_start" /\ ~AllInitialised(next) => ~Ready
  <1> DEFINE s == Call.service
  <1>1. /\ place \in {"app_init", "app_start"}
        /\ s \in Service
        /\ place = "app_init" => InitOrder[s] = next /\ Call.from = {"down"}
        /\ place = "app_start" => /\ s \in Started /\ StartOrder[s] = next
                                  /\ Call.from = {"initialized", "stopped"}
        /\ next \in Nat
    BY CallFacts DEF IInv, TypeOK
  <1>2. "event" \in Service \ Started /\ state["event"] = StateOf("event")
    BY Services DEF StartOrder, InitOrder, StateOf
  <1>3. CASE place = "app_init"
    <2>1. StateOf(s) = "down"
      BY <1>1, <1>3, Services DEF IInv, Initialising
    <2>2. ASSUME s \in {"register", "alert"} PROVE state["event"] = "initialized"
      <3>1. InitOrder["event"] < InitOrder[s]
        BY <2>2 DEF InitOrder
      <3>. QED
        BY <1>1, <1>2, <1>3, <3>1 DEF IInv, Initialising
    <2>. QED
      BY <1>1, <1>3, <2>1, <2>2 DEF Ready
  <1>4. CASE place = "app_start"
    <2>1. CASE AllInitialised(next)
      <3>1. StateOf(s) = "initialized" /\ state["event"] = "initialized"
        BY <1>1, <1>2, <1>4, <2>1 DEF AllInitialised
      <3>. QED
        BY <1>1, <1>4, <2>1, <3>1 DEF Ready
    <2>2. CASE ~AllInitialised(next)
      <3>1. next = 1 /\ Broken
        BY <1>4, <2>2 DEF IInv, Starting
      <3>2. StartOrder["alert"] = 1 /\ "alert" \in Started
        BY Services DEF StartOrder
      <3>3. s = "alert"
        BY <1>1, <1>4, <3>1, <3>2, Services
      <3>4. StateOf(s) = "down"
        BY <3>1, <3>3 DEF Broken, StateOf
      <3>. QED
        BY <1>1, <1>4, <2>2, <3>4 DEF Ready
    <2>. QED
      BY <1>4, <2>1, <2>2
  <1>. QED
    BY <1>1, <1>3, <1>4

LEMMA SucceedKeeps ==
  ASSUME IInv, Succeed
  PROVE  Initialising' /\ Starting' /\ Settled' /\ place' # "restarting"
  <1> DEFINE s == Call.service
  <1>1. BootTypeOK /\ next \in Nat
    BY TypeByOwner DEF IInv, TypeOK
  <1>2. /\ place' = place /\ next' = next + 1 /\ InSetup /\ Ready
        /\ place \in {"app_init", "app_start"} /\ s \in Service
    BY CallFacts DEF Succeed, IInv, TypeOK
  <1>3. \A t \in Service : StateOf(t)' = IF t = s THEN Call.to ELSE StateOf(t)
    BY <1>1, <1>2, StateSet DEF Succeed
  <1>4. CASE place = "app_init"
    <2>1. InitOrder[s] = next /\ Call.to = "initialized"
      BY <1>2, <1>4, CallFacts DEF IInv, TypeOK
    <2>2. \A t \in Service : InitOrder[t] < next' <=> InitOrder[t] < next \/ t = s
      BY <1>1, <1>2, <2>1, Services
    <2>3. Initialising'
      BY <1>2, <1>3, <1>4, <2>1, <2>2 DEF IInv, Initialising
    <2>. QED
      BY <1>2, <1>4, <2>3 DEF Starting, Settled
  <1>5. CASE place = "app_start"
    <2>1. s \in Started /\ StartOrder[s] = next /\ Call.to = "running"
      BY <1>2, <1>5, CallFacts DEF IInv, TypeOK
    <2>2. \A t \in Started : StartOrder[t] < next' <=> StartOrder[t] < next \/ t = s
      BY <1>1, <1>2, <2>1, Services
    <2>3. AllInitialised(next)
      BY <1>2, <1>5, CallReady
    <2>4. AllInitialised(next)'
      BY <1>3, <2>1, <2>2, <2>3 DEF AllInitialised
    <2>. QED
      BY <1>2, <1>5, <2>4 DEF Initialising, Starting, Settled
  <1>. QED
    BY <1>2, <1>4, <1>5

\* Only an app_init that fails before the event service has its handler goes on
\* to app_start; after every other failure the device restarts.
LEMMA FailKeeps ==
  ASSUME IInv, Fail
  PROVE  /\ Initialising' /\ Starting' /\ Settled'
         /\ place' = "restarting" => RunningHasItsNeeds'
  <1> DEFINE s == Call.service
  <1>1. BootTypeOK /\ next \in Nat
    BY TypeByOwner DEF IInv, TypeOK
  <1>2. /\ InSetup /\ Ready /\ place \in {"app_init", "app_start"} /\ s \in Service
        /\ next' = 1
    BY CallFacts DEF Fail, fault_handler, IInv, TypeOK
  <1>3. PICK status \in Call.errors : fault_handler(status)
    BY DEF Fail
  <1>4. \A t \in Service : StateOf(t)' = IF t = s THEN Call.left ELSE StateOf(t)
    BY <1>1, <1>2, StateSet DEF Fail
  <1>5. CASE place = "app_init"
    <2>1. /\ InitOrder[s] = next /\ Call.left = "down" /\ status \in {"NO_MEMORY", "FAIL"}
          /\ status = "FAIL" => next <= 4
      BY <1>2, <1>3, <1>5, CallFacts DEF IInv, TypeOK
    <2>2. \A t \in Started : StateOf(t)' # "running"
      BY <1>4, <1>5, <2>1, Services DEF IInv, Initialising
    <2>3. CASE status = "NO_MEMORY"
      <3>1. place' = "restarting"
        BY <1>3, <2>3 DEF fault_handler
      <3>2. RunningHasItsNeeds'
        BY <2>2 DEF RunningHasItsNeeds
      <3>. QED
        BY <3>1, <3>2 DEF Initialising, Starting, Settled
    <2>4. CASE status = "FAIL"
      <3>1. place' = "app_start"
        BY <1>3, <1>5, <2>4 DEF fault_handler, After
      <3>2. "alert" \in Service /\ InitOrder["alert"] = 4
        BY Services DEF InitOrder
      <3>3. StateOf("alert")' = "down"
        BY <1>1, <1>4, <1>5, <2>1, <2>4, <3>2 DEF IInv, Initialising
      <3>4. Broken'
        BY <2>2, <3>3 DEF Broken, StateOf
      <3>. QED
        BY <1>2, <3>1, <3>4 DEF Initialising, Starting, Settled
    <2>. QED
      BY <2>1, <2>3, <2>4
  <1>6. CASE place = "app_start"
    <2>1. /\ s \in Started /\ StartOrder[s] = next /\ Call.left \in {"initialized", "stopped"}
          /\ status = "NO_MEMORY"
      BY <1>2, <1>3, <1>6, CallFacts DEF IInv, TypeOK
    <2>2. AllInitialised(next)
      BY <1>2, <1>6, CallReady
    <2>3. \A t \in Service : StateOf(t)' # "down"
      BY <1>4, <2>1, <2>2 DEF AllInitialised
    <2>4. \A t \in Started : StateOf(t)' = "running" <=> StartOrder[t] < next
      BY <1>1, <1>4, <2>1, <2>2, Services DEF AllInitialised
    <2>5. RunningHasItsNeeds'
      BY <1>1, <2>3, <2>4, NeedsMetNext DEF RunInOrder
    <2>6. place' = "restarting"
      BY <1>3, <2>1 DEF fault_handler
    <2>. QED
      BY <2>5, <2>6 DEF Initialising, Starting, Settled
  <1>. QED
    BY <1>2, <1>5, <1>6

LEMMA OthersKeep ==
  ASSUME IInv, UNCHANGED <<alertState, state>>,
         \/ Refuse \/ Return \/ UNCHANGED <<place, next>>
  PROVE  /\ Initialising' /\ Starting' /\ Settled'
         /\ place' = "restarting" => RunningHasItsNeeds'
  <1>1. \A t \in Service : StateOf(t)' = StateOf(t)
    BY DEF StateOf
  <1>2. next \in Nat /\ \A t \in Started : StartOrder[t] \in 1 .. 5
    BY Services DEF IInv, TypeOK
  <1>3. Broken => Broken'
    BY <1>1, Services DEF Broken
  <1>4. \A n \in Nat : AllInitialised(n) => AllInitialised(n)'
    BY <1>1 DEF AllInitialised
  <1>5. CASE Refuse
    <2>1. InSetup /\ ~Ready /\ place \in {"app_init", "app_start"} /\ fault_handler("INVALID_STATE")
      BY <1>5, CallFacts DEF Refuse, IInv, TypeOK
    <2>2. place = "app_start" /\ ~AllInitialised(next)
      BY <2>1, CallReady
    <2>3. place' = "loop"
      BY <2>1, <2>2 DEF fault_handler, After
    <2>4. Broken'
      BY <1>3, <2>2 DEF IInv, Starting
    <2>. QED
      BY <2>3, <2>4 DEF Initialising, Starting, Settled
  <1>6. CASE Return
    <2>1. /\ place \in DOMAIN Calls /\ next > Len(Calls[place])
          /\ place' = After[place] /\ next' = 1
      BY <1>6 DEF Return
    <2>2. CASE place = "app_init"
      <3>1. Calls[place] = app_init
        BY <2>2 DEF Calls
      <3>2. next > 13 /\ place' = "app_start"
        BY <2>1, <2>2, <3>1, Lengths DEF After
      <3>3. \A t \in Service : StateOf(t) = "initialized"
        BY <1>2, <2>2, <3>2, Services DEF IInv, Initialising
      <3>4. AllInitialised(1)
        BY <1>2, <3>3 DEF AllInitialised
      <3>5. AllInitialised(1)'
        BY <1>4, <3>4
      <3>. QED
        BY <2>1, <3>2, <3>5 DEF Initialising, Starting, Settled
    <2>3. CASE place = "app_start"
      <3>1. Calls[place] = app_start
        BY <2>3 DEF Calls
      <3>2. next > 5 /\ place' = "loop"
        BY <2>1, <2>3, <3>1, Lengths DEF After
      <3>3. AllInitialised(next)
        BY <2>3, <3>2 DEF IInv, Starting
      <3>4. AllInitialised(6)
        BY <1>2, <3>2, <3>3 DEF AllInitialised
      <3>5. AllInitialised(6)'
        BY <1>4, <3>4
      <3>. QED
        BY <3>2, <3>5 DEF Initialising, Starting, Settled
    <2>. QED
      BY <2>1, <2>2, <2>3 DEF Calls
  <1>7. CASE UNCHANGED <<place, next>>
    <2>1. Initialising'
      BY <1>1, <1>7 DEF IInv, Initialising
    <2>2. Starting' /\ Settled'
      <3>1. AllInitialised(next) => AllInitialised(next)'
        BY <1>1, <1>7 DEF AllInitialised
      <3>. QED
        BY <1>3, <1>4, <1>7, <3>1 DEF IInv, Starting, Settled
    <2>3. RunningHasItsNeeds => RunningHasItsNeeds'
      BY <1>1 DEF RunningHasItsNeeds, StateOf
    <2>. QED
      BY <1>7, <2>1, <2>2, <2>3 DEF IInv
  <1>. QED
    BY <1>5, <1>6, <1>7

LEMMA SetupInvariant == IInv /\ [Next]_vars => IInv'
  <1> SUFFICES ASSUME IInv, [Next]_vars PROVE IInv'
    OBVIOUS
  <1>1. TypeOK'
    BY TypeInvariant DEF IInv
  <1>2. CASE Succeed
    BY <1>1, <1>2, SucceedKeeps DEF IInv
  <1>3. CASE Fail
    BY <1>1, <1>3, FailKeeps DEF IInv
  <1>4. CASE Refuse \/ Return
    BY <1>1, <1>4, OthersKeep DEF IInv, Refuse, Return, alertVars
  <1>5. CASE esp_restart
    <2>1. /\ place' = "app_init" /\ next' = 1 /\ alertState' = "down"
          /\ state' = [s \in Service \ {"alert"} |-> "down"]
      BY <1>5 DEF esp_restart
    <2>2. \A s \in Service : StateOf(s)' = "down" /\ ~(InitOrder[s] < 1)
      BY <2>1, Services DEF StateOf
    <2>3. Initialising'
      BY <2>1, <2>2 DEF Initialising
    <2>. QED
      BY <1>1, <2>1, <2>3 DEF IInv, Starting, Settled
  <1>6. CASE HandleEvent \/ SendAlert \/ CorePosts \/ MqttChanges \/ UNCHANGED vars
    <2>1. UNCHANGED <<alertState, state, place, next>>
      <3>1. HandleEvent => UNCHANGED alertState
        BY DEF HandleEvent, alert_event_handler, alertVars
      <3>. QED
        BY <1>6, <3>1 DEF HandleEvent, SendAlert, alertTask, CorePosts, MqttChanges,
           vars, bootVars, alertVars
    <2>. QED
      BY <1>1, <2>1, OthersKeep DEF IInv
  <1>. QED
    BY <1>2, <1>3, <1>4, <1>5, <1>6 DEF Next, Setup

LEMMA SetupInductive == SafeSpec => []IInv
  <1>1. ASSUME Init PROVE IInv
    <2>1. TypeOK
      BY <1>1, InitTypeOK
    <2>2. /\ place = "app_init" /\ next = 1 /\ alertState = "down"
          /\ state = [s \in Service \ {"alert"} |-> "down"]
      BY <1>1 DEF Init, AlertInit
    <2>3. \A s \in Service : StateOf(s) = "down" /\ ~(InitOrder[s] < 1)
      BY <2>2, Services DEF StateOf
    <2>. QED
      BY <2>1, <2>2, <2>3 DEF IInv, Initialising, Starting, Settled
  <1>. QED
    BY <1>1, SetupInvariant, PTL DEF SafeSpec

\* No task runs before what it calls is there, whichever calls of app_init and
\* app_start fail, and however often (main.cpp:239).
THEOREM NoTaskTooEarly == SafeSpec => []RunningHasItsNeeds
  <1>1. IInv => RunningHasItsNeeds
    BY InvariantMeetsNeeds
  <1>. QED
    BY <1>1, SetupInductive, PTL

\* fault_handler leaves no half a system: once setup() has ended, every service
\* that app_start starts is running, or none is (main.cpp:73).
THEOREM SetupAllOrNothing == SafeSpec => []AllOrNothing
  <1>1. IInv => AllOrNothing
    BY Services DEF IInv, Settled, Broken, AllInitialised, AllOrNothing
  <1>. QED
    BY <1>1, SetupInductive, PTL

----------------------------------------------------------------------------
(* Alerts *)

\* Alerts wait in the order they were raised in, all later than the last sent.
AlertOrder ==
  /\ sent.timestamp <= clock
  /\ \A i \in 1 .. Len(alertQueue) : /\ sent.timestamp < alertQueue[i].timestamp
                                     /\ alertQueue[i].timestamp <= clock
  /\ \A i, j \in 1 .. Len(alertQueue) :
       i < j => alertQueue[i].timestamp < alertQueue[j].timestamp

LEMMA AlertTimes ==
  ASSUME AlertTypeOK
  PROVE  /\ alertQueue \in Seq([severity : {"CRITICAL", "WARNING", "INFO"}, timestamp : Nat])
         /\ Len(alertQueue) \in Nat /\ clock \in Nat /\ sent.timestamp \in Nat
         /\ \A i \in 1 .. Len(alertQueue) : alertQueue[i].timestamp \in Nat
  <1> DEFINE Alert == [severity : {"CRITICAL", "WARNING", "INFO"}, timestamp : Nat]
  <1>1. alertQueue \in Seq(Alert) /\ clock \in Nat /\ sent.timestamp \in Nat
    BY DEF AlertTypeOK
  <1>2. \A alert \in Alert : alert.timestamp \in Nat
    OBVIOUS
  <1> HIDE DEF Alert
  <1>3. Len(alertQueue) \in Nat /\ \A i \in 1 .. Len(alertQueue) : alertQueue[i] \in Alert
    BY <1>1
  <1>. QED
    BY <1>1, <1>2, <1>3 DEF Alert

LEMMA HandlerKeepsOrder ==
  ASSUME AlertTypeOK, AlertOrder, NEW event, alert_event_handler(event)
  PROVE  AlertOrder' /\ sent' = sent
  <1> DEFINE Alert == [severity : {"CRITICAL", "WARNING", "INFO"}, timestamp : Nat]
             alert == [severity |-> Severity[event], timestamp |-> clock + 1]
  <1>1. CASE UNCHANGED alertVars
    BY <1>1 DEF alertVars, AlertOrder
  <1>2. CASE ~UNCHANGED alertVars
    <2>1. /\ clock' = clock + 1 /\ sent' = sent
          /\ alertQueue' = IF Len(alertQueue) < AlertCapacity
                           THEN Append(alertQueue, alert) ELSE alertQueue
      BY <1>2 DEF alert_event_handler
    <2>2. /\ alertQueue \in Seq(Alert) /\ clock \in Nat /\ sent.timestamp \in Nat
          /\ Len(alertQueue) \in Nat /\ alert.timestamp = clock + 1
          /\ \A i \in 1 .. Len(alertQueue) : alertQueue[i].timestamp \in Nat
      BY AlertTimes
    <2> HIDE DEF Alert, alert
    <2>3. CASE alertQueue' = alertQueue
      BY <2>1, <2>2, <2>3 DEF AlertOrder
    <2>4. CASE alertQueue' = Append(alertQueue, alert)
      <3>1. /\ Len(alertQueue') = Len(alertQueue) + 1
            /\ \A i \in 1 .. Len(alertQueue) : alertQueue'[i] = alertQueue[i]
            /\ alertQueue'[Len(alertQueue) + 1] = alert
        BY <2>2, <2>4
      <3>. QED
        BY <2>1, <2>2, <3>1 DEF AlertOrder
    <2>. QED
      BY <2>1, <2>3, <2>4
  <1>. QED
    BY <1>1, <1>2

LEMMA SendKeepsOrder ==
  ASSUME AlertTypeOK, AlertOrder, alertTask
  PROVE  AlertOrder' /\ (sent' # sent => sent'.timestamp > sent.timestamp)
  <1> DEFINE Alert == [severity : {"CRITICAL", "WARNING", "INFO"}, timestamp : Nat]
  <1>1. /\ alertQueue \in Seq(Alert) /\ alertQueue # <<>> /\ alertQueue' = Tail(alertQueue)
        /\ sent' \in {sent, Head(alertQueue)} /\ UNCHANGED clock
    BY DEF alertTask, AlertTypeOK
  <1>2. /\ clock \in Nat /\ sent.timestamp \in Nat /\ Len(alertQueue) \in Nat
        /\ \A i \in 1 .. Len(alertQueue) : alertQueue[i].timestamp \in Nat
    BY AlertTimes
  <1> HIDE DEF Alert
  <1>3. /\ Len(alertQueue') = Len(alertQueue) - 1 /\ Len(alertQueue) > 0
        /\ \A i \in 1 .. Len(alertQueue') : alertQueue'[i] = alertQueue[i + 1]
        /\ Head(alertQueue) = alertQueue[1]
    BY <1>1
  <1>4. sent'.timestamp \in {sent.timestamp, alertQueue[1].timestamp}
    BY <1>1, <1>3
  <1>5. sent.timestamp < alertQueue[1].timestamp /\ alertQueue[1].timestamp <= clock
    BY <1>2, <1>3 DEF AlertOrder
  <1>6. sent' # sent => sent'.timestamp > sent.timestamp
    BY <1>1, <1>2, <1>3, <1>5
  <1>7. AlertOrder'
    <2>0. ASSUME NEW i \in 1 .. Len(alertQueue')
          PROVE  /\ i + 1 \in 1 .. Len(alertQueue) /\ 1 \in 1 .. Len(alertQueue) /\ 1 < i + 1
                 /\ alertQueue'[i].timestamp = alertQueue[i + 1].timestamp
      BY <1>2, <1>3
    <2>1. ASSUME NEW i \in 1 .. Len(alertQueue')
          PROVE  alertQueue[1].timestamp < alertQueue'[i].timestamp
      BY <2>0 DEF AlertOrder
    <2>2. ASSUME NEW i \in 1 .. Len(alertQueue')
          PROVE  sent.timestamp < alertQueue'[i].timestamp /\ alertQueue'[i].timestamp <= clock
      BY <2>0 DEF AlertOrder
    <2>3. ASSUME NEW i \in 1 .. Len(alertQueue'), NEW j \in 1 .. Len(alertQueue'), i < j
          PROVE  alertQueue'[i].timestamp < alertQueue'[j].timestamp
      <3>1. i + 1 < j + 1
        BY <2>3
      <3>. QED
        BY <2>0, <3>1 DEF AlertOrder
    <2>. QED
      BY <1>1, <1>4, <1>5, <2>1, <2>2, <2>3 DEF AlertOrder
  <1>. QED
    BY <1>6, <1>7

LEMMA AlertStep ==
  TypeOK /\ AlertOrder /\ [Next]_vars
    => AlertOrder' /\ (sent' # sent => \/ sent'.timestamp > sent.timestamp
                                       \/ sent' = Nothing /\ place = "restarting")
  <1> SUFFICES ASSUME TypeOK, AlertOrder, [Next]_vars
               PROVE  /\ AlertOrder'
                      /\ sent' # sent => \/ sent'.timestamp > sent.timestamp
                                         \/ sent' = Nothing /\ place = "restarting"
    OBVIOUS
  <1>1. AlertTypeOK
    BY TypeByOwner
  <1>2. CASE HandleEvent
    BY <1>1, <1>2, HandlerKeepsOrder DEF HandleEvent
  <1>3. CASE SendAlert
    BY <1>1, <1>3, SendKeepsOrder DEF SendAlert
  <1>4. CASE esp_restart
    <2>1. place = "restarting" /\ alertQueue' = <<>> /\ clock' = 0 /\ sent' = Nothing
      BY <1>4 DEF esp_restart
    <2>2. AlertOrder'
      BY <2>1 DEF AlertOrder, Nothing
    <2>. QED
      BY <2>1, <2>2
  <1>5. CASE UNCHANGED <<alertQueue, clock, sent>>
    BY <1>5 DEF AlertOrder
  <1>6. Succeed \/ Fail \/ Refuse \/ Return \/ CorePosts \/ MqttChanges \/ UNCHANGED vars
          => UNCHANGED <<alertQueue, clock, sent>>
    BY DEF Succeed, Fail, SetState, Refuse, Return, CorePosts, MqttChanges, vars, alertVars
  <1>. QED
    BY <1>2, <1>3, <1>4, <1>5, <1>6 DEF Next, Setup

\* alert_service.cpp:109-152: the MQTT service takes alerts in the order they
\* were raised, none twice, until the device restarts, whatever the queues drop.
THEOREM AlertsGoInOrder == SafeSpec => AlertsInOrder
  <1>1. Init => AlertOrder
    BY DEF Init, AlertInit, Nothing, AlertOrder
  <1>2. SafeSpec => []AlertOrder
    BY <1>1, AlertStep, BootTypeCorrect, PTL DEF SafeSpec
  <1>. QED
    BY <1>2, AlertStep, BootTypeCorrect, PTL DEF SafeSpec, AlertsInOrder
=============================================================================
