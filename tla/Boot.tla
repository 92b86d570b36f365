-------------------------------- MODULE Boot --------------------------------
(***************************************************************************)
(* main.cpp: setup() initialises the services in order, then starts five   *)
(* of them; each may fail, and fault_handler decides what becomes of the   *)
(* device.  Meanwhile the tasks that run already, and the alerts, go on.   *)
(***************************************************************************)
EXTENDS AlertService

CONSTANTS
  CoreEvents,    \* what core.cpp posts; main() does not start it
  MaxFailures,   \* bound on the calls that fail
  MaxEvents      \* bound on the events of core.cpp

ASSUME BootAssumption ==
  /\ CoreEvents \subseteq DOMAIN Severity \ {"SYSTEM_FAULT"}
  /\ MaxFailures \in Nat /\ MaxEvents \in Nat

VARIABLES
  place,      \* where setup() is
  next,       \* the number of the next call of app_init or app_start
  state,      \* what each service has got to
  failures,   \* how many calls have failed
  events      \* how many events core.cpp has posted

bootVars == <<place, next, state, failures>>
vars == <<loop, refused, alertVars, mqttRunning, bootVars, events>>

----------------------------------------------------------------------------
(* The calls of app_init and app_start: the states a call asks for, the    *)
(* one it brings its service to, the errors it has when the heap or the    *)
(* event loop fails, and the state these leave.                            *)

Initialise(s, errors) ==
  [service |-> s, from |-> {"down"}, to |-> "initialized", errors |-> errors,
   left |-> "down"]

\* The calls that start a service fail when its task cannot be created.
Run(s, left) ==
  [service |-> s, from |-> {"initialized", "stopped"}, to |-> "running",
   errors |-> {"NO_MEMORY"}, left |-> left]

logger_init == Initialise("logger", {"NO_MEMORY"})
event_init == Initialise("event", {"FAIL"})
event_register == Initialise("register", {"FAIL"})   \* of app_event_handler
alert_init == Initialise("alert", {"NO_MEMORY", "FAIL"})
tag_runtime_init == Initialise("tag_runtime", {"NO_MEMORY"})
modbus_init == Initialise("modbus", {"NO_MEMORY"})
protocol_dispatcher_init == Initialise("dispatcher", {"NO_MEMORY"})
acquisition_init == Initialise("acquisition", {"NO_MEMORY"})
publisher_init == Initialise("publisher", {})
subscriber_init == Initialise("subscriber", {"NO_MEMORY"})
wifi_init == Initialise("wifi", {"NO_MEMORY"})
mqtt_init == Initialise("mqtt", {"NO_MEMORY"})
nextion_init == Initialise("nextion", {})

alert_start == Run("alert", "initialized")
protocol_dispatcher_start == Run("dispatcher", "initialized")
acquisition_start == Run("acquisition", "stopped")
\* Its SYS_ERR_FAIL, from a full queue after the task is made, cannot come here:
\* the queue of 30 is new and the radio is not on yet.
wifi_start == Run("wifi", "initialized")
nextion_start == Run("nextion", "stopped")

app_init ==
  <<logger_init, event_init, event_register, alert_init, tag_runtime_init,
    modbus_init, protocol_dispatcher_init, acquisition_init, publisher_init,
    subscriber_init, wifi_init, mqtt_init, nextion_init>>

\* Mutant: the acquisition is started before the dispatcher.
app_start_swapped ==
  <<alert_start, acquisition_start, protocol_dispatcher_start, wifi_start,
    nextion_start>>

app_start ==
  <<alert_start, protocol_dispatcher_start, acquisition_start, wifi_start,
    nextion_start>>

Calls == [app_init |-> app_init, app_start |-> app_start]
After == [app_init |-> "app_start", app_start |-> "loop"]

Service == {app_init[i].service : i \in DOMAIN app_init}
Started == {app_start[i].service : i \in DOMAIN app_start}

Init ==
  /\ EventInit
  /\ AlertInit
  /\ mqttRunning = FALSE
  /\ place = "app_init"
  /\ next = 1
  /\ state = [s \in Service \ {"alert"} |-> "down"]
  /\ failures = 0
  /\ events = 0

\* The alert service keeps its state itself.
StateOf(s) == IF s = "alert" THEN alertState ELSE state[s]

SetState(s, value) ==
  IF s = "alert"
  THEN /\ alertState' = value
       /\ UNCHANGED <<state, alertQueue, clock, sent>>
  ELSE /\ state' = [state EXCEPT ![s] = value]
       /\ UNCHANGED alertVars

InSetup == place \in DOMAIN Calls /\ next <= Len(Calls[place])

Call == Calls[place][next]

\* The service is in a state the call asks for.  event_register, which
\* alert_init calls too, asks for the event service.
Ready ==
  /\ StateOf(Call.service) \in Call.from
  /\ Call.service \in {"register", "alert"} => state["event"] = "initialized"

----------------------------------------------------------------------------
(* setup() *)

\* Mutant: the other steps of app_init or app_start are not skipped.
fault_handler_continues(status) ==
  /\ place' = place
  /\ next' = next + 1
  /\ UNCHANGED <<loop, refused>>

\* Mutant: memory exhaustion is one more fault.
fault_handler_never_restarts(status) ==
  /\ next' = 1
  /\ place' = After[place]
  /\ IF state["event"] = "initialized"
     THEN event_post("SYSTEM_FAULT")
     ELSE UNCHANGED <<loop, refused>>

\* app_init or app_start returns the error to setup().  After a lack of memory
\* the device restarts; otherwise setup() goes on, and event_post fails if the
\* event service is not initialised.
fault_handler(status) ==
  /\ next' = 1
  /\ IF status = "NO_MEMORY"
     THEN /\ place' = "restarting"
          /\ UNCHANGED <<loop, refused>>
     ELSE /\ place' = After[place]
          /\ IF state["event"] = "initialized"
             THEN event_post("SYSTEM_FAULT")
             ELSE UNCHANGED <<loop, refused>>

\* The call does what it is for.
Succeed ==
  /\ InSetup /\ Ready
  /\ SetState(Call.service, Call.to)
  /\ next' = next + 1
  /\ UNCHANGED <<place, failures, loop, refused, mqttRunning, events>>

Fail ==
  /\ InSetup /\ Ready
  /\ failures < MaxFailures
  /\ failures' = failures + 1
  /\ \E status \in Call.errors : fault_handler(status)
  /\ SetState(Call.service, Call.left)
  /\ UNCHANGED <<mqttRunning, events>>

\* The service is not in a state the call asks for.
Refuse ==
  /\ InSetup /\ ~Ready
  /\ fault_handler("INVALID_STATE")
  /\ UNCHANGED <<state, alertVars, failures, mqttRunning, events>>

\* app_init or app_start returns SYS_OK.
Return ==
  /\ place \in DOMAIN Calls /\ next > Len(Calls[place])
  /\ place' = After[place]
  /\ next' = 1
  /\ UNCHANGED <<state, failures, loop, refused, alertVars, mqttRunning, events>>

\* esp_restart, five seconds after the fault.
esp_restart ==
  /\ place = "restarting"
  /\ place' = "app_init"
  /\ next' = 1
  /\ state' = [s \in Service \ {"alert"} |-> "down"]
  /\ alertState' = "down"
  /\ alertQueue' = <<>>
  /\ clock' = 0
  /\ sent' = Nothing
  /\ loop' = <<>>
  /\ mqttRunning' = FALSE
  /\ UNCHANGED <<failures, refused, events>>

----------------------------------------------------------------------------
(* The tasks *)

\* The event loop's task: main's handler has nothing to do for these events.
HandleEvent ==
  /\ loop # <<>>
  /\ loop' = Tail(loop)
  /\ alert_event_handler(Head(loop))
  /\ UNCHANGED <<refused, mqttRunning, bootVars, events>>

SendAlert ==
  /\ alertTask
  /\ UNCHANGED <<loop, refused, mqttRunning, bootVars, events>>

\* core.cpp sees a fault, or a regeneration begins or ends.
CorePosts ==
  /\ place = "loop"
  /\ events < MaxEvents
  /\ \E event \in CoreEvents : event_post(event)
  /\ events' = events + 1
  /\ UNCHANGED <<alertVars, mqttRunning, bootVars>>

\* The broker is reached, or lost: see Connectivity.
MqttChanges ==
  /\ state["wifi"] = "running"
  /\ state["mqtt"] = "initialized"
  /\ mqttRunning' = ~mqttRunning
  /\ UNCHANGED <<loop, refused, alertVars, bootVars, events>>

Setup == Succeed \/ Fail \/ Refuse \/ Return \/ esp_restart

Next == Setup \/ HandleEvent \/ SendAlert \/ CorePosts \/ MqttChanges

SafeSpec == Init /\ [][Next]_vars

\* setup() and the two tasks go on when they can.
Spec ==
  /\ SafeSpec
  /\ WF_vars(Setup) /\ WF_vars(HandleEvent) /\ WF_vars(SendAlert)

----------------------------------------------------------------------------
(* Properties *)

\* Every variable has its type, and the queues their length.
TypeOK ==
  /\ loop \in Seq(DOMAIN Severity) /\ Len(loop) <= LoopCapacity
  /\ refused \subseteq {"event"}
  /\ alertState \in {"down", "initialized", "running"}
  /\ alertQueue \in Seq([severity : {"CRITICAL", "WARNING", "INFO"}, timestamp : Nat])
  /\ Len(alertQueue) <= AlertCapacity
  /\ clock \in Nat
  /\ sent \in [severity : {"NONE", "CRITICAL", "WARNING", "INFO"}, timestamp : Nat]
  /\ mqttRunning \in BOOLEAN
  /\ place \in {"app_init", "app_start", "loop", "restarting"}
  /\ next \in 1 .. 14
  /\ state \in [Service \ {"alert"} -> {"down", "initialized", "running", "stopped"}]
  /\ failures \in 0 .. MaxFailures
  /\ events \in 0 .. MaxEvents

\* What the task of a started service, and the handlers its events set off,
\* call: it must be initialised, or running for a task that is called.
Needs(s) ==
  CASE s = "alert" -> {"logger", "event"}
    [] s = "dispatcher" -> {"logger", "modbus"}
    [] s = "acquisition" -> {"logger", "modbus", "tag_runtime", "dispatcher"}
    [] s = "wifi" -> {"logger", "event", "register", "mqtt", "publisher",
                      "subscriber", "tag_runtime", "dispatcher"}
    [] s = "nextion" -> {"logger", "tag_runtime"}

\* No task runs before what it calls is there, in setup() or after a failure
\* of it (main.cpp:239).
RunningHasItsNeeds ==
  \A s \in Started : StateOf(s) = "running" =>
    /\ \A need \in Needs(s) : StateOf(need) # "down"
    /\ s \in {"acquisition", "wifi"} => state["dispatcher"] = "running"

\* fault_handler leaves no half a system: when setup() has ended, every service
\* runs or none does.
AllOrNothing ==
  place = "loop" =>
    \/ \A s \in Started : StateOf(s) = "running"
    \/ \A s \in Started : StateOf(s) # "running"

\* Once calls no longer fail, setup() ends with every service running, or with
\* the event loop broken and none (main.cpp:239): it does not restart for ever.
SetupEnds ==
  <>[](/\ place = "loop"
       /\ \/ \A s \in Started : StateOf(s) = "running"
          \/ alertState = "down")

\* The MQTT service takes alerts in the order they were raised, none of them
\* twice; whether the broker gets them is up to it (Connectivity).
AlertsInOrder ==
  [][sent' # sent => \/ sent'.timestamp > sent.timestamp
                     \/ sent' = Nothing /\ place = "restarting"]_vars

\* An alert does not stay in the queue: alertTask sends it or loses it, or the
\* device restarts.
AlertsDrain == alertQueue # <<>> ~> alertQueue = <<>>
=============================================================================
