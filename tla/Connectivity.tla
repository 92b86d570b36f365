---------------------------- MODULE Connectivity ----------------------------
(***************************************************************************)
(* main.cpp's app_event_handler in the task of the event loop, and what it *)
(* starts and stops: the MQTT service, the publisher and the subscriber.   *)
(* The network's events come from WifiService, alternately up and down as  *)
(* its NetworkEventsAlternate has it while the timer task takes commands.  *)
(***************************************************************************)
EXTENDS Publisher, Subscriptions

VARIABLES
  network,   \* "up" or "down", as the Wi-Fi service last found
  loopPc     \* where the event task is in a handler

vars == <<loop, refused, mqttVars, publisherVars, subscriberVars, network, loopPc>>

\* app_init and app_start are done; no address yet.
Init ==
  /\ EventInit
  /\ MqttInit
  /\ PublisherInit
  /\ SubscriptionsInit
  /\ network = "down"
  /\ loopPc = "receive"

----------------------------------------------------------------------------
(* The Wi-Fi service *)

NetworkComesUp ==
  /\ network = "down"
  /\ network' = "up"
  /\ event_post("NETWORK_UP")
  /\ UNCHANGED <<mqttVars, publisherVars, subscriberVars, loopPc>>

NetworkGoesDown ==
  /\ network = "up"
  /\ Trouble
  /\ network' = "down"
  /\ event_post("NETWORK_DOWN")
  /\ UNCHANGED <<serviceVars, publisherVars, subscriberVars, loopPc>>

----------------------------------------------------------------------------
(* app_event_handler *)

Receive(event) ==
  /\ loopPc = "receive"
  /\ loop # <<>>
  /\ Head(loop) = event
  /\ loop' = Tail(loop)

\* mqtt_start creates its task and calls connect(): the client is at work
\* before the state says so.  Without a task it returns at once.
NetworkUp ==
  /\ Receive("NETWORK_UP")
  /\ \/ /\ mqttState \in {"INITIALIZED", "STOPPED"}
        /\ Created
        /\ mqttTask' = "waiting"
        /\ wanted' = TRUE
        /\ link' = "trying"
        /\ loopPc' = "set_connecting"
     \/ /\ mqttState \in {"INITIALIZED", "STOPPED"}
        /\ NotCreated
        /\ UNCHANGED <<mqttTask, wanted, link, loopPc>>
     \/ /\ mqttState \notin {"INITIALIZED", "STOPPED"}
        /\ Created
        /\ UNCHANGED <<mqttTask, wanted, link, loopPc>>
  /\ UNCHANGED <<mqttState, txQueue, clientPc, announced, subscribed, overtaken,
                 publisherVars, subscriberVars>>

NetworkUpSets ==
  /\ loopPc = "set_connecting"
  /\ mqttState' = "CONNECTING"
  /\ overtaken' = (overtaken \/ mqttState = "RUNNING")
  /\ loopPc' = "receive"
  /\ UNCHANGED <<mqttTask, txQueue, clientVars, troubles, subscribed,
                 publisherVars, subscriberVars, loop, refused>>

\* Mutant: mqtt_stop leaves its task alone.
NetworkDownKeepsTask ==
  /\ Receive("NETWORK_DOWN")
  /\ IF mqttState \in {"RUNNING", "CONNECTING"}
     THEN /\ mqttState' = "STOPPED"
          /\ wanted' = FALSE
          /\ loopPc' = "disconnecting"
     ELSE UNCHANGED <<mqttState, wanted, loopPc>>
  /\ UNCHANGED <<mqttTask, txQueue, link, clientPc, announced, subscribed,
                 troubles, overtaken, publisherVars, subscriberVars, refused>>

\* Mutant: mqtt_stop refuses unless RUNNING.
NetworkDownWhileRunning ==
  /\ Receive("NETWORK_DOWN")
  /\ IF mqttState = "RUNNING"
     THEN /\ mqttTask' = "none"
          /\ mqttState' = "STOPPED"
          /\ wanted' = FALSE
          /\ loopPc' = "disconnecting"
     ELSE UNCHANGED <<mqttTask, mqttState, wanted, loopPc>>
  /\ UNCHANGED <<txQueue, link, clientPc, announced, subscribed, troubles,
                 overtaken, publisherVars, subscriberVars, refused>>

\* mqtt_stop deletes mqttTask wherever it is, then calls disconnect().
NetworkDown ==
  /\ Receive("NETWORK_DOWN")
  /\ IF mqttState \in {"RUNNING", "CONNECTING"}
     THEN /\ mqttTask' = "none"
          /\ mqttState' = "STOPPED"
          /\ wanted' = FALSE
          /\ loopPc' = "disconnecting"
     ELSE UNCHANGED <<mqttTask, mqttState, wanted, loopPc>>
  /\ UNCHANGED <<txQueue, link, clientPc, announced, subscribed, troubles,
                 overtaken, publisherVars, subscriberVars, refused>>

\* disconnect() returns when the client's task has stopped.
NetworkDownReturns ==
  /\ loopPc = "disconnecting"
  /\ link = "off" /\ clientPc = "idle"
  /\ loopPc' = "receive"
  /\ UNCHANGED <<mqttVars, publisherVars, subscriberVars, loop, refused>>

\* Both services are started, whatever the first call returns.
MqttConnected ==
  /\ Receive("MQTT_CONNECTED")
  /\ \/ /\ publisher_start
        /\ subscriber_start
        /\ UNCHANGED loopPc
     \/ /\ PublisherNotCreated
        /\ loopPc' = "publisher_failed"
        /\ UNCHANGED subscriberVars
  /\ UNCHANGED serviceVars

MqttConnectedGoesOn ==
  /\ loopPc = "publisher_failed"
  /\ PublisherStartFails
  /\ subscriber_start
  /\ loopPc' = "receive"
  /\ UNCHANGED <<serviceVars, loop>>

\* Mutant: the subscriber is left to its persistent session.
MqttDisconnectedKeepsSubscriber ==
  /\ Receive("MQTT_DISCONNECTED")
  /\ publisher_stop
  /\ UNCHANGED <<mqttVars, subscriberVars, loopPc, refused>>

MqttDisconnected ==
  /\ Receive("MQTT_DISCONNECTED")
  /\ publisher_stop
  /\ subscriber_stop
  /\ UNCHANGED <<mqttVars, loopPc, refused>>

app_event_handler ==
  /\ \/ NetworkUp \/ NetworkUpSets \/ NetworkDown \/ NetworkDownReturns
     \/ MqttConnected \/ MqttConnectedGoesOn \/ MqttDisconnected
  /\ UNCHANGED network

----------------------------------------------------------------------------
ClientStep(act) ==
  /\ act
  /\ UNCHANGED <<mqttTask, publisherVars, subscriberVars, network, loopPc>>

MqttTaskStep ==
  MqttTask /\ UNCHANGED <<publisherVars, subscriberVars, network, loopPc>>

PublisherStep(i) ==
  PublisherTask(i) /\ UNCHANGED <<subscriberVars, network, loopPc>>

SubscriberStep ==
  SubscriberSubscribes /\ UNCHANGED <<publisherVars, network, loopPc>>

Next ==
  \/ NetworkComesUp
  \/ NetworkGoesDown
  \/ app_event_handler
  \/ ClientStep(ClientActs)
  \/ ClientStep(ClientFails)
  \/ MqttTaskStep
  \/ \E i \in DOMAIN publishers : PublisherStep(i)
  \/ SubscriberStep

SafeSpec == Init /\ [][Next]_vars

\* Every task runs when it has something to do; the client reaches the broker
\* in the end.  Nothing is assumed of the network.
Spec ==
  /\ SafeSpec
  /\ WF_vars(app_event_handler)
  /\ WF_vars(ClientStep(ClientActs))
  /\ WF_vars(MqttTaskStep)
  /\ WF_vars(SubscriberStep)

----------------------------------------------------------------------------
(* Properties *)

\* Every variable has its type and neither queue outgrows its length.
TypeOK ==
  /\ loop \in Seq(AppEvent) /\ Len(loop) <= LoopCapacity
  /\ refused \subseteq {"event", "task"} \cup TxMessage
  /\ mqttState \in {"INITIALIZED", "CONNECTING", "RUNNING", "STOPPED"}
  /\ mqttTask \in {"none", "waiting"} \cup TxMessage
  /\ txQueue \in Seq(TxMessage) /\ Len(txQueue) <= TxCapacity
  /\ wanted \in BOOLEAN
  /\ link \in {"off", "trying", "up"}
  /\ clientPc \in {"idle", "post_connected", "set_running", "publish_status",
                   "post_disconnected", "read_state", "set_connecting"}
  /\ subscribed \subseteq CommandTopics
  /\ announced \in BOOLEAN
  /\ troubles \in 0 .. MaxTroubles
  /\ overtaken \in BOOLEAN
  /\ publisherState \in {"INITIALIZED", "RUNNING", "STOPPED"}
  /\ publishers \in Seq({"delayed", "round", "ended"})
  /\ dismissed \in 0 .. Len(publishers)
  /\ subscriberState \in {"INITIALIZED", "RUNNING", "STOPPED"}
  /\ subscriber \in BOOLEAN
  /\ toSubscribe \subseteq CommandTopics
  /\ network \in {"up", "down"}
  /\ loopPc \in {"receive", "set_connecting", "disconnecting", "publisher_failed"}

\* mqtt_start, when it is not refused, finds neither a task nor a client of
\* an earlier start, however the callbacks crossed mqtt_stop.
StartFindsNothingRunning ==
  loopPc = "receive" /\ mqttState \in {"INITIALIZED", "STOPPED"} =>
    mqttTask = "none" /\ link = "off" /\ ~wanted

\* Nothing that matters was lost and no state change crossed another.
Unhindered == refused \subseteq {"telemetry"} /\ ~overtaken

\* Only publishers still have something to do.
Settled ==
  /\ loop = <<>> /\ loopPc = "receive"
  /\ clientPc = "idle"
  /\ toSubscribe = {}
  /\ txQueue = <<>> /\ mqttTask \notin TxMessage

\* Once the events are handled every service is where the client is: started,
\* subscribed and announced with a connection, stopped without one.
ServicesFollowClient ==
  Settled /\ Unhindered =>
    /\ wanted <=> network = "up"
    /\ mqttState = "RUNNING" <=> link = "up"
    /\ publisherState = "RUNNING" <=> link = "up"
    /\ subscriber <=> link = "up"
    /\ link = "up" => subscribed = CommandTopics /\ announced

\* With the network up for good the device comes to take commands and stays
\* that way.
ComesUp ==
  <>[](network = "up") /\ [](refused \subseteq {"telemetry"} /\ ~overtaken)
    => <>[](mqttState = "RUNNING" /\ subscribed = CommandTopics /\ announced)

\* main.cpp:119 says "APP_EVENT_NETWORK_UP: Starts the MQTT service once IP
\* is acquired."
StartedOnceUp ==
  Settled /\ network = "up" /\ refused = {} => wanted

\* main.cpp:122 says "APP_EVENT_MQTT_DISCONNECTED: Stops publisher/subscriber
\* tasks": a publisher dismissed begins no round.
DismissedPublishersEnd ==
  [][\A i \in 1 .. dismissed :
       publishers[i] = "delayed" => publishers'[i] # "round"]_vars
=============================================================================
