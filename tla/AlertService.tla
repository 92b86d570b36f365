---------------------------- MODULE AlertService ----------------------------
(***************************************************************************)
(* alert_service.cpp: the handler that turns events into alerts, in the    *)
(* event loop's task, and alertTask, which hands them to the MQTT service. *)
(* What an alert says is left out, its severity and its time are not.      *)
(***************************************************************************)
EXTENDS EventService

CONSTANT AlertCapacity      \* xQueueCreate(15, ...) of alert_init

ASSUME AlertAssumption == AlertCapacity \in Nat \ {0}

VARIABLES
  alertState,   \* "down", "initialized" or "running": gInitialized, gRunning
  alertQueue,   \* gAlertQueue
  clock,        \* millis(), counted in alerts
  sent,         \* the last alert the MQTT service took
  mqttRunning   \* whether mqtt_get_state() is MQTT_STATE_RUNNING

alertVars == <<alertState, alertQueue, clock, sent>>

\* The events of event_to_alert, by severity; it knows no others.
Severity ==
  [SYSTEM_FAULT |-> "CRITICAL", FAULT_LOW_PRESSURE |-> "CRITICAL",
   FAULT_LOW_SALT |-> "CRITICAL", REGEN_FAILED |-> "CRITICAL",
   FAULT_DATA_LOSS |-> "WARNING", REGEN_STARTED |-> "INFO",
   REGEN_COMPLETED |-> "INFO"]

Nothing == [severity |-> "NONE", timestamp |-> 0]

AlertInit ==
  /\ alertState = "down"
  /\ alertQueue = <<>>
  /\ clock = 0
  /\ sent = Nothing

\* Mutant: the newest alert goes to the front.
alert_event_handler_front(event) ==
  IF /\ alertState = "running"
     /\ event \in DOMAIN Severity
  THEN /\ clock' = clock + 1
       /\ alertQueue' = IF Len(alertQueue) < AlertCapacity
                        THEN <<[severity |-> Severity[event], timestamp |-> clock + 1]>>
                               \o alertQueue
                        ELSE alertQueue
       /\ UNCHANGED <<alertState, sent>>
  ELSE UNCHANGED alertVars

\* Nothing is done before alert_start, or for other events.  A full queue
\* drops the alert, whatever its severity.
alert_event_handler(event) ==
  IF /\ alertState = "running"
     /\ event \in DOMAIN Severity
  THEN /\ clock' = clock + 1
       /\ alertQueue' = IF Len(alertQueue) < AlertCapacity
                        THEN Append(alertQueue, [severity |-> Severity[event],
                                                 timestamp |-> clock + 1])
                        ELSE alertQueue
       /\ UNCHANGED <<alertState, sent>>
  ELSE UNCHANGED alertVars

\* Mutant: the queue is looked at, not taken from.
alertTask_peeks ==
  /\ alertState = "running"
  /\ alertQueue # <<>>
  /\ sent' = IF mqttRunning THEN Head(alertQueue) ELSE sent
  /\ UNCHANGED <<alertState, alertQueue, clock>>

\* One turn of alertTask.  What mqtt_publish refuses is lost.
alertTask ==
  /\ alertState = "running"
  /\ alertQueue # <<>>
  /\ alertQueue' = Tail(alertQueue)
  /\ sent' = IF mqttRunning THEN Head(alertQueue) ELSE sent
  /\ UNCHANGED <<alertState, clock>>
=============================================================================
