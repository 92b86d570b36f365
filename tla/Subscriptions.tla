--------------------------- MODULE Subscriptions ----------------------------
(***************************************************************************)
(* subscriber.cpp, its start and stop and the loop at the start of its     *)
(* task; what the task does with messages is in Subscriber.                *)
(***************************************************************************)
EXTENDS MqttService

VARIABLES
  subscriberState,  \* gState of the subscriber
  subscriber,       \* its task exists
  toSubscribe       \* the topics its task has not come to yet

subscriberVars == <<subscriberState, subscriber, toSubscribe>>

SubscriptionsInit ==
  /\ subscriberState = "INITIALIZED"
  /\ subscriber = FALSE
  /\ toSubscribe = {}

subscriber_start ==
  \/ /\ subscriberState \in {"INITIALIZED", "STOPPED"}
     /\ Created
     /\ subscriberState' = "RUNNING"
     /\ subscriber' = TRUE
     /\ toSubscribe' = CommandTopics
  \/ /\ subscriberState \in {"INITIALIZED", "STOPPED"}
     /\ NotCreated
     /\ UNCHANGED subscriberVars
  \/ /\ subscriberState = "RUNNING"
     /\ Created
     /\ UNCHANGED subscriberVars

\* The task is deleted wherever it is.
subscriber_stop ==
  IF subscriberState = "RUNNING"
  THEN /\ subscriberState' = "STOPPED"
       /\ subscriber' = FALSE
       /\ toSubscribe' = {}
  ELSE UNCHANGED subscriberVars

\* mqtt_subscribe refuses unless RUNNING and the client unless it is
\* connected; the task does not try again.
SubscriberSubscribes ==
  \E topic \in toSubscribe :
    /\ toSubscribe' = toSubscribe \ {topic}
    /\ subscribed' = IF mqttState = "RUNNING" /\ link = "up"
                     THEN subscribed \cup {topic} ELSE subscribed
    /\ overtaken' = (overtaken \/ clientPc = "set_running")
    /\ UNCHANGED <<subscriberState, subscriber, mqttState, mqttTask, txQueue,
                   clientVars, troubles, loop, refused>>
=============================================================================
