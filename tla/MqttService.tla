---------------------------- MODULE MqttService -----------------------------
(***************************************************************************)
(* mqtt_service.cpp: its state, shared by the event task that starts and   *)
(* stops it and by the client's task (external) that calls it back, the    *)
(* transmit queue and mqttTask.  The session is persistent (cleanSession   *)
(* is false) and the client reconnects by itself (autoReconnect).          *)
(***************************************************************************)
EXTENDS EventService

CONSTANTS
  TxCapacity,       \* xQueueCreate(30, ...)
  CommandTopics,    \* the topics of the tags to subscribe to
  MaxTroubles       \* bound on failures of the network and of the client

ASSUME MqttAssumption ==
  /\ TxCapacity \in Nat \ {0}
  /\ MaxTroubles \in Nat

VARIABLES
  mqttState,    \* gState
  mqttTask,     \* "none", "waiting", or the message it has taken
  txQueue,      \* gTxQueue
  wanted,       \* connect() has been called and disconnect() not since
  link,         \* the client's connection
  clientPc,     \* where the client's task is in a callback
  subscribed,   \* the subscriptions the broker holds for this session
  announced,    \* the status message of this connection has been published
  troubles,     \* how often something has gone wrong
  overtaken     \* a change of mqttState has crossed another one so far

clientVars == <<wanted, link, clientPc, announced>>
serviceVars == <<mqttState, mqttTask, txQueue, clientVars, subscribed, overtaken>>
mqttVars == <<serviceVars, troubles>>

TxMessage == {"status", "telemetry"}

\* mqtt_init.
MqttInit ==
  /\ mqttState = "INITIALIZED"
  /\ mqttTask = "none"
  /\ txQueue = <<>>
  /\ wanted = FALSE
  /\ link = "off"
  /\ clientPc = "idle"
  /\ subscribed = {}
  /\ announced = FALSE
  /\ troubles = 0
  /\ overtaken = FALSE

Trouble ==
  /\ troubles < MaxTroubles
  /\ troubles' = troubles + 1

\* xTaskCreatePinnedToCore, called to start a service: it fails for want of heap.
Created == UNCHANGED <<troubles, refused>>
NotCreated == Trouble /\ refused' = refused \cup {"task"}

\* mqtt_publish: refused unless RUNNING, lost when the queue stays full.
mqtt_publish(message) ==
  IF mqttState = "RUNNING" /\ Len(txQueue) < TxCapacity
  THEN /\ txQueue' = Append(txQueue, message)
       /\ UNCHANGED refused
  ELSE /\ refused' = IF mqttState = "RUNNING" THEN refused \cup {message}
                     ELSE refused
       /\ UNCHANGED txQueue

----------------------------------------------------------------------------
(* The client's task: one callback at a time *)

\* The broker may have lost a persistent session.
ClientConnects ==
  /\ clientPc = "idle" /\ wanted /\ link = "trying"
  /\ link' = "up"
  /\ clientPc' = "post_connected"
  /\ announced' = FALSE
  /\ subscribed' \in {subscribed, {}}
  /\ UNCHANGED <<mqttState, txQueue, wanted, troubles, overtaken, loop, refused>>

\* A connection is lost or an attempt fails; the client goes on trying.
ClientFails ==
  /\ clientPc = "idle" /\ wanted /\ link # "off"
  /\ Trouble
  /\ link' = "trying"
  /\ clientPc' = "post_disconnected"
  /\ UNCHANGED <<mqttState, txQueue, wanted, announced, subscribed, overtaken,
                 loop, refused>>

ClientCloses ==
  /\ clientPc = "idle" /\ ~wanted /\ link # "off"
  /\ link' = "off"
  /\ clientPc' = IF link = "up" THEN "post_disconnected" ELSE "idle"
  /\ UNCHANGED <<mqttState, txQueue, wanted, announced, troubles, subscribed,
                 overtaken, loop, refused>>

\* The callback's part from one program counter to the next.
Callback(from, to) ==
  /\ clientPc = from
  /\ clientPc' = to
  /\ UNCHANGED <<wanted, link, announced, troubles, subscribed>>

onConnectPosts ==
  /\ Callback("post_connected", "set_running")
  /\ event_post("MQTT_CONNECTED")
  /\ UNCHANGED <<mqttState, txQueue, overtaken>>

onConnectSets ==
  /\ Callback("set_running", "publish_status")
  /\ mqttState' = "RUNNING"
  /\ overtaken' = (overtaken \/ mqttState = "STOPPED")
  /\ UNCHANGED <<txQueue, loop, refused>>

onConnectPublishes ==
  /\ Callback("publish_status", "idle")
  /\ mqtt_publish("status")
  /\ UNCHANGED <<mqttState, overtaken, loop>>

onDisconnectPosts ==
  /\ Callback("post_disconnected", "read_state")
  /\ event_post("MQTT_DISCONNECTED")
  /\ UNCHANGED <<mqttState, txQueue, overtaken>>

\* Two steps: mqtt_stop may come in between.
onDisconnectReads ==
  /\ Callback("read_state",
              IF mqttState = "STOPPED" THEN "idle" ELSE "set_connecting")
  /\ UNCHANGED <<mqttState, txQueue, overtaken, loop, refused>>

onDisconnectSets ==
  /\ Callback("set_connecting", "idle")
  /\ mqttState' = "CONNECTING"
  /\ overtaken' = (overtaken \/ mqttState = "STOPPED")
  /\ UNCHANGED <<txQueue, loop, refused>>

\* What the client's task does by itself; failing is not part of it.
ClientActs ==
  \/ onConnectPosts \/ onConnectSets \/ onConnectPublishes
  \/ onDisconnectPosts \/ onDisconnectReads \/ onDisconnectSets
  \/ ClientConnects \/ ClientCloses

----------------------------------------------------------------------------
(* mqttTask *)

ReceiveTx ==
  /\ mqttTask = "waiting"
  /\ txQueue # <<>>
  /\ mqttTask' = Head(txQueue)
  /\ txQueue' = Tail(txQueue)
  /\ UNCHANGED announced

\* A message is dropped unless the service is RUNNING, and lost if the
\* connection has just gone.
PublishTx ==
  /\ mqttTask \in TxMessage
  /\ announced' = (announced \/ (/\ mqttTask = "status"
                                 /\ mqttState = "RUNNING"
                                 /\ link = "up"))
  /\ mqttTask' = "waiting"
  /\ UNCHANGED txQueue

MqttTask ==
  /\ ReceiveTx \/ PublishTx
  /\ UNCHANGED <<mqttState, wanted, link, clientPc, troubles, subscribed, overtaken,
                 loop, refused>>
=============================================================================
