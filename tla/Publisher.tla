----------------------------- MODULE Publisher ------------------------------
(***************************************************************************)
(* publisher.cpp: its flag and the tasks that look at it.  What a round    *)
(* reads from the store is left out: a round publishes one value.          *)
(***************************************************************************)
EXTENDS MqttService

VARIABLES
  publisherState,   \* gState of the publisher
  publishers,       \* the tasks created so far, oldest first
  dismissed         \* how many of them publisher_stop was meant for

publisherVars == <<publisherState, publishers, dismissed>>

PublisherInit ==
  /\ publisherState = "INITIALIZED"
  /\ publishers = <<>>
  /\ dismissed = 0

publisher_start ==
  IF publisherState \in {"INITIALIZED", "STOPPED"}
  THEN /\ publisherState' = "RUNNING"
       /\ publishers' = Append(publishers, "delayed")
       /\ UNCHANGED dismissed
  ELSE UNCHANGED publisherVars

\* The flag is set before the creation that fails, and cleared after it.
PublisherNotCreated ==
  /\ publisherState \in {"INITIALIZED", "STOPPED"}
  /\ NotCreated
  /\ publisherState' = "RUNNING"
  /\ UNCHANGED <<publishers, dismissed>>

PublisherStartFails ==
  /\ publisherState' = "STOPPED"
  /\ UNCHANGED <<publishers, dismissed>>

\* Only the flag changes: a task ends when it next looks at it.
publisher_stop ==
  IF publisherState = "RUNNING"
  THEN /\ publisherState' = "STOPPED"
       /\ dismissed' = Len(publishers)
       /\ UNCHANGED publishers
  ELSE UNCHANGED publisherVars

\* The while condition, at the start and after every vTaskDelay.
LookAtState(i) ==
  /\ publishers[i] = "delayed"
  /\ publishers' = [publishers EXCEPT ![i] =
       IF publisherState = "RUNNING" THEN "round" ELSE "ended"]
  /\ UNCHANGED <<txQueue, refused>>

Round(i) ==
  /\ publishers[i] = "round"
  /\ mqtt_publish("telemetry")
  /\ publishers' = [publishers EXCEPT ![i] = "delayed"]

PublisherTask(i) ==
  /\ LookAtState(i) \/ Round(i)
  /\ UNCHANGED <<publisherState, dismissed, mqttState, mqttTask, clientVars,
                 subscribed, overtaken, troubles, loop>>
=============================================================================
