------------------------ MODULE Connectivity_proofs ------------------------
(***************************************************************************)
(* Proofs about Connectivity, for every queue length, every set of topics  *)
(* and any number of failures.                                             *)
(***************************************************************************)
EXTENDS Connectivity, SequenceTheorems, TLAPS

----------------------------------------------------------------------------
(* What the shared operations do to the types *)

\* TypeOK by owner, so that a step needs to look only at what it touches.
EventTypeOK ==
  /\ loop \in Seq(AppEvent) /\ Len(loop) <= LoopCapacity
  /\ refused \subseteq {"event", "task"} \cup TxMessage

MqttTypeOK ==
  /\ mqttState \in {"INITIALIZED", "CONNECTING", "RUNNING", "STOPPED"}
  /\ mqttTask \in {"none", "waiting"} \cup TxMessage
  /\ txQueue \in Seq(TxMessage) /\ Len(txQueue) <= TxCapacity
  /\ wanted \in BOOLEAN
  /\ link \in {"off", "trying", "up"}
  /\ clientPc \in {"idle", "post_connected", "set_running", "publish_status",
                   "post_disconnected", "read_state", "set_connecting"}
  /\ subscribed \subseteq CommandTopics
  /\ announced \in BOOLEAN
  /\ troubles \in 0 .. MaxTroubles
  /\ overtaken \in BOOLEAN

PublisherTypeOK ==
  /\ publisherState \in {"INITIALIZED", "RUNNING", "STOPPED"}
  /\ publishers \in Seq({"delayed", "round", "ended"})
  /\ dismissed \in 0 .. Len(publishers)

RestTypeOK ==
  /\ subscriberState \in {"INITIALIZED", "RUNNING", "STOPPED"}
  /\ subscriber \in BOOLEAN
  /\ toSubscribe \subseteq CommandTopics
  /\ network \in {"up", "down"}
  /\ loopPc \in {"receive", "set_connecting", "disconnecting", "publisher_failed"}

LEMMA TypeByOwner ==
  TypeOK <=> EventTypeOK /\ MqttTypeOK /\ PublisherTypeOK /\ RestTypeOK
  BY DEF TypeOK, EventTypeOK, MqttTypeOK, PublisherTypeOK, RestTypeOK

LEMMA TypeByOwnerNext ==
  EventTypeOK' /\ MqttTypeOK' /\ PublisherTypeOK' /\ RestTypeOK' => TypeOK'
  BY DEF TypeOK, EventTypeOK, MqttTypeOK, PublisherTypeOK, RestTypeOK

LEMMA EventStutters ==
  ASSUME EventTypeOK, UNCHANGED <<loop, refused>> PROVE EventTypeOK'
  BY DEF EventTypeOK

LEMMA MqttStutters ==
  ASSUME MqttTypeOK, UNCHANGED mqttVars PROVE MqttTypeOK'
  BY DEF MqttTypeOK, mqttVars, serviceVars, clientVars

LEMMA PublisherStutters ==
  ASSUME PublisherTypeOK, UNCHANGED publisherVars PROVE PublisherTypeOK'
  BY DEF PublisherTypeOK, publisherVars

LEMMA RestStutters ==
  ASSUME RestTypeOK, UNCHANGED <<subscriberVars, network, loopPc>> PROVE RestTypeOK'
  BY DEF RestTypeOK, subscriberVars

LEMMA PostKeepsType ==
  ASSUME EventTypeOK, NEW event \in AppEvent, event_post(event)
  PROVE  EventTypeOK'
  <1>1. /\ loop \in Seq(AppEvent) /\ Len(loop) <= LoopCapacity
        /\ refused \subseteq {"event", "task"} \cup TxMessage
        /\ LoopCapacity \in Nat
    BY LoopAssumption DEF EventTypeOK
  <1>2. CASE Len(loop) < LoopCapacity
    <2>1. loop' = Append(loop, event) /\ refused' = refused
      BY <1>2 DEF event_post
    <2>2. loop' \in Seq(AppEvent) /\ Len(loop') = Len(loop) + 1
      BY <1>1, <2>1
    <2>3. Len(loop') <= LoopCapacity
      BY <1>1, <1>2, <2>2
    <2>. QED
      BY <1>1, <2>1, <2>2, <2>3 DEF EventTypeOK
  <1>3. CASE ~(Len(loop) < LoopCapacity)
    <2>1. loop' = loop /\ refused' = refused \cup {"event"}
      BY <1>3 DEF event_post
    <2>. QED
      BY <1>1, <2>1 DEF EventTypeOK
  <1>. QED
    BY <1>2, <1>3

LEMMA ReceiveKeepsType ==
  ASSUME EventTypeOK, NEW event, Receive(event), UNCHANGED refused
  PROVE  EventTypeOK'
  <1>1. loop \in Seq(AppEvent) /\ Len(loop) <= LoopCapacity /\ loop # <<>>
        /\ loop' = Tail(loop)
        /\ LoopCapacity \in Nat
    BY LoopAssumption DEF EventTypeOK, Receive
  <1>2. loop' \in Seq(AppEvent) /\ Len(loop') = Len(loop) - 1
    BY <1>1, HeadTailProperties
  <1>3. Len(loop') <= LoopCapacity
    BY <1>1, <1>2
  <1>. QED
    BY <1>2, <1>3 DEF EventTypeOK

LEMMA PublishKeepsType ==
  ASSUME EventTypeOK, MqttTypeOK, NEW message \in TxMessage,
         mqtt_publish(message), UNCHANGED loop
  PROVE  /\ txQueue' \in Seq(TxMessage) /\ Len(txQueue') <= TxCapacity
         /\ EventTypeOK'
  <1>1. /\ txQueue \in Seq(TxMessage) /\ Len(txQueue) <= TxCapacity
        /\ TxCapacity \in Nat
    BY MqttAssumption DEF MqttTypeOK
  <1>2. CASE mqttState = "RUNNING" /\ Len(txQueue) < TxCapacity
    <2>1. txQueue' = Append(txQueue, message) /\ refused' = refused
      BY <1>2 DEF mqtt_publish
    <2>2. txQueue' \in Seq(TxMessage) /\ Len(txQueue') = Len(txQueue) + 1
      BY <1>1, <2>1
    <2>3. Len(txQueue') <= TxCapacity
      BY <1>1, <1>2, <2>2
    <2>. QED
      BY <2>1, <2>2, <2>3, EventStutters
  <1>3. CASE ~(mqttState = "RUNNING" /\ Len(txQueue) < TxCapacity)
    <2>1. txQueue' = txQueue /\ refused' \in {refused, refused \cup {message}}
      BY <1>3 DEF mqtt_publish
    <2>2. EventTypeOK'
      BY <2>1 DEF EventTypeOK
    <2>. QED
      BY <1>1, <2>1, <2>2
  <1>. QED
    BY <1>2, <1>3

----------------------------------------------------------------------------
(* The steps *)

LEMMA TypeClient == TypeOK /\ ClientStep(ClientActs \/ ClientFails) => TypeOK'
  <1> SUFFICES ASSUME EventTypeOK, MqttTypeOK, PublisherTypeOK, RestTypeOK,
                      ClientActs \/ ClientFails,
                      UNCHANGED <<mqttTask, publisherVars, subscriberVars, network, loopPc>>
               PROVE  EventTypeOK' /\ MqttTypeOK'
    BY TypeByOwner, TypeByOwnerNext, PublisherStutters, RestStutters DEF ClientStep
  <1>1. CASE onConnectPosts \/ onDisconnectPosts
    <2>1. EventTypeOK'
      BY <1>1, PostKeepsType DEF onConnectPosts, onDisconnectPosts, AppEvent
    <2>2. MqttTypeOK'
      BY <1>1 DEF onConnectPosts, onDisconnectPosts, Callback, MqttTypeOK
    <2>. QED
      BY <2>1, <2>2
  <1>2. CASE onConnectPublishes
    <2>1. /\ txQueue' \in Seq(TxMessage) /\ Len(txQueue') <= TxCapacity
          /\ EventTypeOK'
      BY <1>2, PublishKeepsType DEF onConnectPublishes, TxMessage
    <2>2. MqttTypeOK'
      BY <1>2, <2>1 DEF onConnectPublishes, Callback, MqttTypeOK
    <2>. QED
      BY <2>1, <2>2
  <1>3. CASE onConnectSets \/ onDisconnectReads \/ onDisconnectSets
    <2>1. EventTypeOK'
      BY <1>3, EventStutters DEF onConnectSets, onDisconnectReads, onDisconnectSets
    <2>2. MqttTypeOK'
      BY <1>3 DEF onConnectSets, onDisconnectReads, onDisconnectSets, Callback, MqttTypeOK
    <2>. QED
      BY <2>1, <2>2
  <1>4. CASE ClientConnects \/ ClientCloses \/ ClientFails
    <2>1. EventTypeOK'
      BY <1>4, EventStutters DEF ClientConnects, ClientCloses, ClientFails
    <2>2. troubles' \in 0 .. MaxTroubles
      BY <1>4, MqttAssumption
      DEF ClientConnects, ClientCloses, ClientFails, Trouble, MqttTypeOK
    <2>3. /\ link' \in {"off", "trying", "up"}
          /\ clientPc' \in {"idle", "post_connected", "post_disconnected"}
          /\ announced' \in {announced, FALSE}
          /\ subscribed' \in {subscribed, {}}
      BY <1>4 DEF ClientConnects, ClientCloses, ClientFails
    <2>4. UNCHANGED <<mqttState, mqttTask, txQueue, wanted, overtaken>>
      BY <1>4 DEF ClientConnects, ClientCloses, ClientFails
    <2>5. announced' \in BOOLEAN /\ subscribed' \subseteq CommandTopics
      BY <2>3 DEF MqttTypeOK
    <2>. QED
      BY <2>1, <2>2, <2>3, <2>4, <2>5 DEF MqttTypeOK
  <1>. QED
    BY <1>1, <1>2, <1>3, <1>4 DEF ClientActs

LEMMA TypeMqttTask == TypeOK /\ MqttTaskStep => TypeOK'
  <1> SUFFICES ASSUME EventTypeOK, MqttTypeOK, PublisherTypeOK, RestTypeOK, MqttTask,
                      UNCHANGED <<publisherVars, subscriberVars, network, loopPc>>
               PROVE  EventTypeOK' /\ MqttTypeOK'
    BY TypeByOwner, TypeByOwnerNext, PublisherStutters, RestStutters DEF MqttTaskStep
  <1>1. EventTypeOK'
    BY EventStutters DEF MqttTask
  <1>2. txQueue \in Seq(TxMessage) /\ Len(txQueue) <= TxCapacity /\ TxCapacity \in Nat
    BY MqttAssumption DEF MqttTypeOK
  <1>3. CASE ReceiveTx
    <2>1. txQueue # <<>> /\ txQueue' = Tail(txQueue) /\ mqttTask' = Head(txQueue)
      BY <1>3 DEF ReceiveTx
    <2>2. /\ txQueue' \in Seq(TxMessage) /\ Len(txQueue') = Len(txQueue) - 1
          /\ mqttTask' \in TxMessage
      BY <1>2, <2>1, HeadTailProperties
    <2>3. Len(txQueue') <= TxCapacity
      BY <1>2, <2>2
    <2>. QED
      BY <1>1, <1>3, <2>2, <2>3 DEF MqttTask, ReceiveTx, MqttTypeOK
  <1>4. CASE PublishTx
    <2>1. announced' \in BOOLEAN
      BY <1>4 DEF PublishTx
    <2>. QED
      BY <1>1, <1>4, <2>1 DEF MqttTask, PublishTx, MqttTypeOK
  <1>. QED
    BY <1>3, <1>4 DEF MqttTask

LEMMA TypePublisher ==
  ASSUME TypeOK, NEW i \in DOMAIN publishers, PublisherStep(i)
  PROVE  TypeOK'
  <1>1. EventTypeOK /\ MqttTypeOK /\ PublisherTypeOK /\ RestTypeOK
    BY TypeByOwner
  <1>2. RestTypeOK'
    BY <1>1, RestStutters DEF PublisherStep
  <1>3. PICK step \in {"delayed", "round", "ended"} :
          publishers' = [publishers EXCEPT ![i] = step]
    BY DEF PublisherStep, PublisherTask, LookAtState, Round
  <1>4. PublisherTypeOK'
    <2>1. /\ publishers \in Seq({"delayed", "round", "ended"})
          /\ i \in 1 .. Len(publishers)
      BY <1>1 DEF PublisherTypeOK
    <2>2. /\ publishers' \in Seq({"delayed", "round", "ended"})
          /\ Len(publishers') = Len(publishers)
      BY <1>3, <2>1, ExceptSeq
    <2>3. UNCHANGED <<publisherState, dismissed>>
      BY DEF PublisherStep, PublisherTask
    <2>. QED
      BY <1>1, <2>2, <2>3 DEF PublisherTypeOK
  <1>5. EventTypeOK' /\ MqttTypeOK'
    <2>1. UNCHANGED <<mqttState, mqttTask, clientVars, subscribed, overtaken, troubles,
                     loop>>
      BY DEF PublisherStep, PublisherTask
    <2>2. CASE LookAtState(i)
      <3>1. UNCHANGED <<txQueue, refused>>
        BY <2>2 DEF LookAtState
      <3>. QED
        BY <1>1, <2>1, <3>1, EventStutters, MqttStutters DEF mqttVars, serviceVars
    <2>3. CASE Round(i)
      <3>1. /\ txQueue' \in Seq(TxMessage) /\ Len(txQueue') <= TxCapacity
            /\ EventTypeOK'
        BY <1>1, <2>1, <2>3, PublishKeepsType DEF Round, TxMessage
      <3>. QED
        BY <1>1, <2>1, <3>1 DEF MqttTypeOK, clientVars
    <2>. QED
      BY <2>2, <2>3 DEF PublisherStep, PublisherTask
  <1>. QED
    BY <1>2, <1>4, <1>5, TypeByOwnerNext

LEMMA TypeSubscriber == TypeOK /\ SubscriberStep => TypeOK'
  <1> SUFFICES ASSUME EventTypeOK, MqttTypeOK, PublisherTypeOK, RestTypeOK,
                      SubscriberStep
               PROVE  EventTypeOK' /\ MqttTypeOK' /\ RestTypeOK'
    BY TypeByOwner, TypeByOwnerNext, PublisherStutters DEF SubscriberStep
  <1>1. PICK topic \in toSubscribe :
          /\ toSubscribe' = toSubscribe \ {topic}
          /\ subscribed' \in {subscribed, subscribed \cup {topic}}
          /\ overtaken' = (overtaken \/ clientPc = "set_running")
          /\ UNCHANGED <<subscriberState, subscriber, mqttState, mqttTask, txQueue,
                         clientVars, troubles, loop, refused>>
    BY DEF SubscriberStep, SubscriberSubscribes
  <1>2. toSubscribe \subseteq CommandTopics /\ subscribed \subseteq CommandTopics
    BY DEF MqttTypeOK, RestTypeOK
  <1>3. toSubscribe' \subseteq CommandTopics /\ subscribed' \subseteq CommandTopics
    BY <1>1, <1>2
  <1>4. overtaken' \in BOOLEAN
    BY <1>1 DEF MqttTypeOK
  <1>5. EventTypeOK'
    BY <1>1, EventStutters
  <1>6. MqttTypeOK'
    BY <1>1, <1>3, <1>4 DEF MqttTypeOK, clientVars
  <1>7. RestTypeOK'
    BY <1>1, <1>3 DEF SubscriberStep, RestTypeOK
  <1>. QED
    BY <1>5, <1>6, <1>7

LEMMA PublisherStartsStops ==
  ASSUME PublisherTypeOK, publisher_start \/ publisher_stop
  PROVE  PublisherTypeOK'
  <1>1. /\ publishers \in Seq({"delayed", "round", "ended"})
        /\ dismissed \in 0 .. Len(publishers)
        /\ Len(publishers) \in Nat
    BY DEF PublisherTypeOK
  <1>2. CASE publisher_start
    <2>1. CASE publisherState \in {"INITIALIZED", "STOPPED"}
      <3>1. /\ publisherState' = "RUNNING" /\ dismissed' = dismissed
            /\ publishers' = Append(publishers, "delayed")
        BY <1>2, <2>1 DEF publisher_start
      <3>2. /\ publishers' \in Seq({"delayed", "round", "ended"})
            /\ Len(publishers') = Len(publishers) + 1
        BY <1>1, <3>1
      <3>3. dismissed' \in 0 .. Len(publishers')
        BY <1>1, <3>1, <3>2
      <3>. QED
        BY <3>1, <3>2, <3>3 DEF PublisherTypeOK
    <2>2. CASE publisherState \notin {"INITIALIZED", "STOPPED"}
      BY <1>2, <2>2, PublisherStutters DEF publisher_start
    <2>. QED
      BY <2>1, <2>2
  <1>3. CASE publisher_stop
    <2>1. CASE publisherState = "RUNNING"
      <3>1. /\ publisherState' = "STOPPED" /\ publishers' = publishers
            /\ dismissed' = Len(publishers)
        BY <1>3, <2>1 DEF publisher_stop
      <3>2. dismissed' \in 0 .. Len(publishers')
        BY <1>1, <3>1
      <3>. QED
        BY <1>1, <3>1, <3>2 DEF PublisherTypeOK
    <2>2. CASE publisherState # "RUNNING"
      BY <1>3, <2>2, PublisherStutters DEF publisher_stop
    <2>. QED
      BY <2>1, <2>2
  <1>. QED
    BY <1>2, <1>3

\* What the creation of a task leaves behind, made or not.
LEMMA CreationKeepsType ==
  ASSUME EventTypeOK, MqttTypeOK, Created \/ NotCreated
  PROVE  /\ refused' \in {refused, refused \cup {"task"}}
         /\ refused' \subseteq {"event", "task"} \cup TxMessage
         /\ troubles' \in 0 .. MaxTroubles
  <1>1. troubles \in 0 .. MaxTroubles /\ refused \subseteq {"event", "task"} \cup TxMessage
    BY DEF EventTypeOK, MqttTypeOK
  <1>2. CASE Created
    BY <1>1, <1>2 DEF Created
  <1>3. CASE NotCreated
    <2>1. refused' = refused \cup {"task"}
      BY <1>3 DEF NotCreated
    <2>2. troubles' \in 0 .. MaxTroubles
      BY <1>1, <1>3, MqttAssumption DEF NotCreated, Trouble
    <2>. QED
      BY <1>1, <2>1, <2>2
  <1>. QED
    BY <1>2, <1>3

LEMMA ReceiveCreatesKeepsType ==
  ASSUME EventTypeOK, MqttTypeOK, NEW event, Receive(event), Created \/ NotCreated
  PROVE  EventTypeOK'
  <1>1. loop \in Seq(AppEvent) /\ Len(loop) <= LoopCapacity /\ loop # <<>>
        /\ loop' = Tail(loop)
        /\ LoopCapacity \in Nat
    BY LoopAssumption DEF EventTypeOK, Receive
  <1>2. loop' \in Seq(AppEvent) /\ Len(loop') = Len(loop) - 1
    BY <1>1, HeadTailProperties
  <1>3. Len(loop') <= LoopCapacity
    BY <1>1, <1>2
  <1>. QED
    BY <1>2, <1>3, CreationKeepsType DEF EventTypeOK

LEMMA TypeHandler == TypeOK /\ app_event_handler => TypeOK'
  <1> SUFFICES ASSUME EventTypeOK, MqttTypeOK, PublisherTypeOK, RestTypeOK,
                      app_event_handler
               PROVE  EventTypeOK' /\ MqttTypeOK' /\ PublisherTypeOK' /\ RestTypeOK'
    BY TypeByOwner, TypeByOwnerNext
  <1>1. UNCHANGED network
    BY DEF app_event_handler
  <1>2. CASE NetworkUp \/ NetworkDown
    <2>1. EventTypeOK' /\ troubles' \in 0 .. MaxTroubles
      <3>1. CASE NetworkUp
        <4>1. Receive("NETWORK_UP") /\ (Created \/ NotCreated)
          BY <3>1 DEF NetworkUp
        <4>. QED
          BY <4>1, ReceiveCreatesKeepsType, CreationKeepsType
      <3>2. CASE NetworkDown
        BY <3>2, ReceiveKeepsType DEF NetworkDown, MqttTypeOK
      <3>. QED
        BY <1>2, <3>1, <3>2
    <2>2. PublisherTypeOK'
      BY <1>2, PublisherStutters DEF NetworkUp, NetworkDown
    <2>3. MqttTypeOK'
      BY <1>2, <2>1 DEF NetworkUp, NetworkDown, MqttTypeOK
    <2>4. RestTypeOK'
      BY <1>1, <1>2 DEF NetworkUp, NetworkDown, RestTypeOK, subscriberVars
    <2>. QED
      BY <2>1, <2>2, <2>3, <2>4
  <1>3. CASE NetworkUpSets \/ NetworkDownReturns
    <2>1. EventTypeOK' /\ PublisherTypeOK'
      BY <1>3, EventStutters, PublisherStutters DEF NetworkUpSets, NetworkDownReturns
    <2>2. mqttState' \in {mqttState, "CONNECTING"} /\ overtaken' \in BOOLEAN
      BY <1>3 DEF NetworkUpSets, NetworkDownReturns, mqttVars, serviceVars, MqttTypeOK
    <2>3. UNCHANGED <<mqttTask, txQueue, clientVars, subscribed, troubles>>
      BY <1>3 DEF NetworkUpSets, NetworkDownReturns, mqttVars, serviceVars
    <2>4. MqttTypeOK'
      BY <2>2, <2>3 DEF MqttTypeOK, clientVars
    <2>5. RestTypeOK'
      BY <1>1, <1>3 DEF NetworkUpSets, NetworkDownReturns, RestTypeOK, subscriberVars
    <2>. QED
      BY <2>1, <2>4, <2>5
  <1>4. CASE MqttDisconnected
    <2>1. EventTypeOK'
      BY <1>4, ReceiveKeepsType DEF MqttDisconnected
    <2>2. PublisherTypeOK'
      BY <1>4, PublisherStartsStops DEF MqttDisconnected
    <2>3. MqttTypeOK'
      BY <1>4, MqttStutters DEF MqttDisconnected
    <2>4. RestTypeOK'
      BY <1>1, <1>4 DEF MqttDisconnected, subscriber_stop, subscriberVars, RestTypeOK
    <2>. QED
      BY <2>1, <2>2, <2>3, <2>4
  <1>5. CASE MqttConnected \/ MqttConnectedGoesOn
    <2>1. Created \/ NotCreated
      BY <1>5 DEF MqttConnected, MqttConnectedGoesOn, subscriber_start, PublisherNotCreated
    <2>2. EventTypeOK'
      <3>1. CASE MqttConnected
        BY <2>1, <3>1, ReceiveCreatesKeepsType DEF MqttConnected
      <3>2. CASE MqttConnectedGoesOn
        BY <2>1, <3>2, CreationKeepsType DEF MqttConnectedGoesOn, EventTypeOK
      <3>. QED
        BY <1>5, <3>1, <3>2
    <2>3. PublisherTypeOK'
      <3>1. CASE publisher_start
        BY <3>1, PublisherStartsStops
      <3>2. CASE PublisherNotCreated \/ PublisherStartFails
        BY <3>2 DEF PublisherNotCreated, PublisherStartFails, PublisherTypeOK
      <3>. QED
        BY <1>5, <3>1, <3>2 DEF MqttConnected, MqttConnectedGoesOn
    <2>4. MqttTypeOK'
      <3>1. troubles' \in 0 .. MaxTroubles
        BY <2>1, CreationKeepsType
      <3>2. UNCHANGED serviceVars
        BY <1>5 DEF MqttConnected, MqttConnectedGoesOn
      <3>. QED
        BY <3>1, <3>2 DEF serviceVars, clientVars, MqttTypeOK
    <2>5. RestTypeOK'
      <3>1. subscriber_start \/ UNCHANGED subscriberVars
        BY <1>5 DEF MqttConnected, MqttConnectedGoesOn
      <3>2. loopPc' \in {loopPc, "publisher_failed", "receive"}
        BY <1>5 DEF MqttConnected, MqttConnectedGoesOn
      <3>. QED
        BY <1>1, <3>1, <3>2 DEF subscriber_start, subscriberVars, RestTypeOK
    <2>. QED
      BY <2>2, <2>3, <2>4, <2>5
  <1>. QED
    BY <1>2, <1>3, <1>4, <1>5 DEF app_event_handler

LEMMA TypeNetwork == TypeOK /\ (NetworkComesUp \/ NetworkGoesDown) => TypeOK'
  <1> SUFFICES ASSUME EventTypeOK, MqttTypeOK, PublisherTypeOK, RestTypeOK,
                      NetworkComesUp \/ NetworkGoesDown
               PROVE  EventTypeOK' /\ MqttTypeOK' /\ PublisherTypeOK' /\ RestTypeOK'
    BY TypeByOwner, TypeByOwnerNext
  <1>1. EventTypeOK'
    BY PostKeepsType DEF NetworkComesUp, NetworkGoesDown, AppEvent
  <1>2. PublisherTypeOK'
    BY PublisherStutters DEF NetworkComesUp, NetworkGoesDown
  <1>3. troubles' \in 0 .. MaxTroubles
    BY MqttAssumption
    DEF NetworkComesUp, NetworkGoesDown, Trouble, MqttTypeOK, mqttVars, serviceVars, clientVars
  <1>4. UNCHANGED <<mqttState, mqttTask, txQueue, wanted, link, clientPc, announced,
                    subscribed, overtaken>>
    BY DEF NetworkComesUp, NetworkGoesDown, mqttVars, serviceVars, clientVars
  <1>5. MqttTypeOK'
    BY <1>3, <1>4 DEF MqttTypeOK
  <1>6. RestTypeOK'
    BY DEF NetworkComesUp, NetworkGoesDown, RestTypeOK, subscriberVars
  <1>. QED
    BY <1>1, <1>2, <1>5, <1>6

LEMMA TypeStutters == TypeOK /\ UNCHANGED vars => TypeOK'
  BY TypeByOwner, TypeByOwnerNext, EventStutters, MqttStutters, PublisherStutters,
     RestStutters DEF vars

LEMMA TypeInvariant == TypeOK /\ [Next]_vars => TypeOK'
  <1>1. TypeOK /\ (ClientStep(ClientActs) \/ ClientStep(ClientFails)) => TypeOK'
    BY TypeClient DEF ClientStep
  <1>. QED
    BY <1>1, TypeMqttTask, TypePublisher, TypeSubscriber, TypeHandler, TypeNetwork,
       TypeStutters DEF Next

\* The services together: no state leaves its range, no queue its length.
THEOREM ConnectivityTypeCorrect == SafeSpec => []TypeOK
  <1>1. ASSUME Init PROVE TypeOK
    <2>1. EventTypeOK
      <3>1. loop \in Seq(AppEvent) /\ Len(loop) = 0 /\ refused = {}
        BY <1>1 DEF Init, EventInit
      <3>. QED
        BY <3>1, LoopAssumption DEF EventTypeOK
    <2>2. MqttTypeOK
      <3>1. txQueue \in Seq(TxMessage) /\ Len(txQueue) = 0 /\ troubles = 0
        BY <1>1 DEF Init, MqttInit
      <3>2. Len(txQueue) <= TxCapacity /\ troubles \in 0 .. MaxTroubles
        BY <3>1, MqttAssumption
      <3>. QED
        BY <1>1, <3>1, <3>2 DEF Init, MqttInit, MqttTypeOK
    <2>3. PublisherTypeOK
      <3>1. publishers \in Seq({"delayed", "round", "ended"}) /\ Len(publishers) = 0
        BY <1>1 DEF Init, PublisherInit
      <3>. QED
        BY <1>1, <3>1 DEF Init, PublisherInit, PublisherTypeOK
    <2>4. RestTypeOK
      BY <1>1 DEF Init, SubscriptionsInit, RestTypeOK
    <2>. QED
      BY <2>1, <2>2, <2>3, <2>4, TypeByOwner
  <1>. QED
    BY <1>1, TypeInvariant, PTL DEF SafeSpec

----------------------------------------------------------------------------
(* A start finds nothing running *)

\* Once stopped, nothing the client's task still does in its callbacks brings
\* a task or a connection back; the connection itself goes while mqtt_stop
\* waits in disconnect().
NothingRunning ==
  mqttState \in {"INITIALIZED", "STOPPED"} /\ loopPc # "set_connecting" =>
    /\ mqttTask = "none"
    /\ ~wanted
    /\ loopPc # "disconnecting" => link = "off"

LEMMA NothingRunningHandler == NothingRunning /\ app_event_handler => NothingRunning'
  <1> SUFFICES ASSUME NothingRunning, app_event_handler PROVE NothingRunning'
    OBVIOUS
  <1>1. CASE NetworkUp
    BY <1>1 DEF NetworkUp, Receive, NothingRunning
  <1>2. CASE NetworkUpSets
    BY <1>2 DEF NetworkUpSets, NothingRunning
  <1>3. CASE NetworkDown
    BY <1>3 DEF NetworkDown, Receive, NothingRunning
  <1>4. CASE NetworkDownReturns
    BY <1>4 DEF NetworkDownReturns, NothingRunning, mqttVars, serviceVars, clientVars
  <1>5. CASE MqttConnected \/ MqttConnectedGoesOn \/ MqttDisconnected
    BY <1>5 DEF MqttConnected, MqttConnectedGoesOn, MqttDisconnected, Receive,
       NothingRunning, mqttVars, serviceVars, clientVars
  <1>. QED
    BY <1>1, <1>2, <1>3, <1>4, <1>5 DEF app_event_handler

LEMMA NothingRunningOthers ==
  ASSUME NothingRunning, TypeOK,
         \/ NetworkComesUp \/ NetworkGoesDown \/ MqttTaskStep
         \/ ClientStep(ClientActs) \/ ClientStep(ClientFails)
         \/ \E i \in DOMAIN publishers : PublisherStep(i)
         \/ SubscriberStep
  PROVE  NothingRunning'
  <1>1. loopPc' = loopPc
    BY DEF NetworkComesUp, NetworkGoesDown, MqttTaskStep, ClientStep, PublisherStep,
           SubscriberStep
  <1>2. CASE ClientStep(ClientActs) \/ ClientStep(ClientFails)
    <2>1. mqttTask' = mqttTask /\ wanted' = wanted
      BY <1>2 DEF ClientStep, ClientActs, ClientFails, ClientConnects, ClientCloses,
                  onConnectPosts, onConnectSets, onConnectPublishes, onDisconnectPosts,
                  onDisconnectReads, onDisconnectSets, Callback
    <2>2. mqttState' \in {mqttState, "RUNNING", "CONNECTING"}
      BY <1>2 DEF ClientStep, ClientActs, ClientFails, ClientConnects, ClientCloses,
                  onConnectPosts, onConnectSets, onConnectPublishes, onDisconnectPosts,
                  onDisconnectReads, onDisconnectSets
    <2>3. ~wanted => link' \in {link, "off"}
      BY <1>2 DEF ClientStep, ClientActs, ClientFails, ClientConnects, ClientCloses,
                  onConnectPosts, onConnectSets, onConnectPublishes, onDisconnectPosts,
                  onDisconnectReads, onDisconnectSets, Callback
    <2>. QED
      BY <1>1, <2>1, <2>2, <2>3 DEF NothingRunning
  <1>3. CASE MqttTaskStep
    <2>1. mqttTask # "none"
      BY <1>3 DEF MqttTaskStep, MqttTask, ReceiveTx, PublishTx, TxMessage
    <2>2. UNCHANGED <<mqttState, wanted, link>>
      BY <1>3 DEF MqttTaskStep, MqttTask
    <2>. QED
      BY <1>1, <2>1, <2>2 DEF NothingRunning
  <1>4. CASE \/ NetworkComesUp \/ NetworkGoesDown \/ SubscriberStep
             \/ \E i \in DOMAIN publishers : PublisherStep(i)
    <2>1. UNCHANGED <<mqttState, mqttTask, wanted, link>>
      BY <1>4 DEF NetworkComesUp, NetworkGoesDown, SubscriberStep, SubscriberSubscribes,
                  PublisherStep, PublisherTask, mqttVars, serviceVars, clientVars
    <2>. QED
      BY <1>1, <2>1 DEF NothingRunning
  <1>. QED
    BY <1>2, <1>3, <1>4

\* mqtt_service.cpp:183-220: however callbacks cross mqtt_stop, a start that is
\* not refused creates the only task and the only client.
THEOREM StartsFindNothingRunning == SafeSpec => []StartFindsNothingRunning
  <1>1. Init => NothingRunning
    BY DEF Init, MqttInit, NothingRunning
  <1>2. TypeOK /\ NothingRunning /\ [Next]_vars => NothingRunning'
    <2>1. NothingRunning /\ UNCHANGED vars => NothingRunning'
      BY DEF NothingRunning, vars, mqttVars, serviceVars, clientVars
    <2>. QED
      BY <2>1, NothingRunningHandler, NothingRunningOthers DEF Next
  <1>3. NothingRunning => StartFindsNothingRunning
    BY DEF NothingRunning, StartFindsNothingRunning
  <1>. QED
    BY <1>1, <1>2, <1>3, ConnectivityTypeCorrect, PTL DEF SafeSpec

----------------------------------------------------------------------------
(* The services follow the client *)

\* Of the two events, last is the one a queue ends with; must says that it has
\* one of them.
Outlast(q, last, other, must) ==
  /\ must => \E j \in DOMAIN q : q[j] = last
  /\ \A k \in DOMAIN q : q[k] = other => \E j \in DOMAIN q : j > k /\ q[j] = last

\* Handling the queue leads from before to after.
Leads(q, on, off, before, after) ==
  IF after THEN Outlast(q, on, off, ~before) ELSE Outlast(q, off, on, before)

\* There is an off before every on, but for the first one after a stop.
Alternates(q, on, off, running) ==
  \A i \in DOMAIN q : q[i] = on =>
    /\ running => \E j \in DOMAIN q : j < i /\ q[j] = off
    /\ \A k \in DOMAIN q : k < i /\ q[k] = on =>
         \E j \in DOMAIN q : k < j /\ j < i /\ q[j] = off

Stopped == {"INITIALIZED", "STOPPED"}
Connecting == {"post_connected", "set_running", "publish_status"}
Disconnecting == {"post_disconnected", "read_state", "set_connecting"}

\* mqttState is what mqtt_start and mqtt_stop have made of it.
StateFollowsCalls ==
  /\ loopPc # "publisher_failed"
  /\ loopPc = "set_connecting" => wanted
  /\ loopPc = "disconnecting" => ~wanted /\ mqttState = "STOPPED"
  /\ wanted <=> loopPc = "set_connecting" \/ mqttState \notin Stopped
  /\ loopPc = "receive" /\ mqttState \in Stopped => clientPc = "idle" /\ link = "off"

\* The client calls back for what has happened to its connection.
CallbackFitsLink ==
  /\ clientPc \in Connecting => link = "up"
  /\ clientPc \in Disconnecting => link # "up"

\* The callbacks keep mqttState where the connection is.
StateFollowsLink ==
  /\ wanted /\ link = "up" /\ clientPc \in {"idle", "publish_status"}
       => mqttState = "RUNNING"
  /\ mqttState = "RUNNING" => link = "up" \/ clientPc \in Disconnecting

\* The status message of a connection is on its way until it is published.
StatusOnItsWay ==
  wanted /\ link = "up" /\ clientPc = "idle" =>
    \/ announced
    \/ mqttTask = "status"
    \/ \E i \in DOMAIN txQueue : txQueue[i] = "status"

\* The network's events lead mqttState to the network.
EventsLeadToNetwork ==
  Leads(loop, "NETWORK_UP", "NETWORK_DOWN", wanted, network = "up")

\* Publisher and subscriber are started and stopped together.
StartedTogether ==
  publisherState = subscriberState /\ (subscriber <=> subscriberState = "RUNNING")

\* The client's events lead them to the connection.
EventsLeadToLink ==
  /\ Alternates(loop, "MQTT_CONNECTED", "MQTT_DISCONNECTED", subscriberState = "RUNNING")
  /\ clientPc # "post_disconnected" =>
       Leads(loop, "MQTT_CONNECTED", "MQTT_DISCONNECTED", subscriberState = "RUNNING",
             link = "up" /\ clientPc # "post_connected")

NoClientEvent ==
  \A i \in DOMAIN loop : loop[i] \notin {"MQTT_CONNECTED", "MQTT_DISCONNECTED"}

\* A topic of this connection's subscriber is subscribed or to come.
TopicsComeUp ==
  wanted /\ link = "up" /\ clientPc # "post_connected" /\ NoClientEvent
  => subscribed \cup toSubscribe = CommandTopics

FollowParts ==
  /\ StateFollowsCalls /\ CallbackFitsLink /\ StateFollowsLink
  /\ StatusOnItsWay
  /\ EventsLeadToNetwork
  /\ StartedTogether /\ EventsLeadToLink
  /\ TopicsComeUp

FollowInv == Unhindered => FollowParts

\* Events put at the end of a queue and taken from its head.
LEMMA AppendIndices ==
  ASSUME NEW S, NEW q \in Seq(S), NEW e \in S
  PROVE  /\ \A i \in DOMAIN q : i \in DOMAIN Append(q, e) /\ Append(q, e)[i] = q[i]
         /\ \A i \in DOMAIN Append(q, e) : i \in DOMAIN q \/ i = Len(q) + 1
         /\ Len(q) + 1 \in DOMAIN Append(q, e) /\ Append(q, e)[Len(q) + 1] = e
         /\ \A i \in DOMAIN q : i < Len(q) + 1
  OBVIOUS

LEMMA TailIndices ==
  ASSUME NEW S, NEW q \in Seq(S), q # <<>>
  PROVE  /\ \A i \in DOMAIN Tail(q) : i + 1 \in DOMAIN q /\ Tail(q)[i] = q[i + 1]
         /\ \A i \in DOMAIN q : i # 1 => i - 1 \in DOMAIN Tail(q) /\ Tail(q)[i - 1] = q[i]
         /\ 1 \in DOMAIN q /\ Head(q) = q[1]
         /\ \A i \in DOMAIN q : i \in Nat \ {0}
         /\ \A i \in DOMAIN Tail(q) : i \in Nat \ {0}
  OBVIOUS

LEMMA LeadsToLast ==
  ASSUME NEW S, NEW q \in Seq(S), NEW on, NEW off, on # off, NEW e \in S,
         NEW before \in BOOLEAN, NEW after \in BOOLEAN,
         after => e = on, ~after => e = off
  PROVE  Leads(Append(q, e), on, off, before, after)
  BY AppendIndices DEF Leads, Outlast

LEMMA LeadsPastOthers ==
  ASSUME NEW S, NEW q \in Seq(S), NEW on, NEW off, NEW e \in S, e # on, e # off,
         NEW before \in BOOLEAN, NEW after \in BOOLEAN, Leads(q, on, off, before, after)
  PROVE  Leads(Append(q, e), on, off, before, after)
  <1>1. \A i \in DOMAIN q : i \in DOMAIN Append(q, e) /\ Append(q, e)[i] = q[i]
    BY AppendIndices
  <1>2. \A i \in DOMAIN Append(q, e) : i \in DOMAIN q \/ Append(q, e)[i] = e
    BY AppendIndices
  <1>. QED
    BY <1>1, <1>2 DEF Leads, Outlast

LEMMA LeadsFromTail ==
  ASSUME NEW S, NEW q \in Seq(S), q # <<>>, NEW on, NEW off,
         NEW before \in BOOLEAN, NEW after \in BOOLEAN, Leads(q, on, off, before, after),
         NEW between \in BOOLEAN,
         Head(q) = on => between,
         Head(q) = off => ~between,
         Head(q) \notin {on, off} => (between <=> before)
  PROVE  Leads(Tail(q), on, off, between, after)
  <1>1. ASSUME NEW last, NEW other, NEW must \in BOOLEAN, Outlast(q, last, other, must),
               NEW left \in BOOLEAN, Head(q) = last => ~left,
               left => must \/ Head(q) = other
        PROVE  Outlast(Tail(q), last, other, left)
    <2>1. ASSUME left PROVE \E j \in DOMAIN Tail(q) : Tail(q)[j] = last
      <3>1. PICK j \in DOMAIN q : q[j] = last /\ j # 1
        BY <1>1, <2>1, TailIndices DEF Outlast
      <3>2. j - 1 \in DOMAIN Tail(q) /\ Tail(q)[j - 1] = q[j]
        BY <3>1, TailIndices, Zenon
      <3>. QED
        BY <3>1, <3>2
    <2>2. ASSUME NEW k \in DOMAIN Tail(q), Tail(q)[k] = other
          PROVE  \E j \in DOMAIN Tail(q) : j > k /\ Tail(q)[j] = last
      <3>1. k + 1 \in DOMAIN q /\ q[k + 1] = other /\ k \in Nat
        BY <2>2, TailIndices
      <3>2. PICK j \in DOMAIN q : j > k + 1 /\ q[j] = last
        BY <1>1, <3>1 DEF Outlast
      <3>3. j - 1 \in DOMAIN Tail(q) /\ Tail(q)[j - 1] = last /\ j - 1 > k
        BY <3>1, <3>2, TailIndices
      <3>. QED
        BY <3>3
    <2>. QED
      BY <2>1, <2>2 DEF Outlast
  <1>2. CASE after
    <2>1. Outlast(q, on, off, ~before)
      BY <1>2 DEF Leads
    <2>2. Outlast(Tail(q), on, off, ~between)
      BY <1>1, <2>1
    <2>. QED
      BY <1>2, <2>2 DEF Leads
  <1>3. CASE ~after
    <2>1. Outlast(q, off, on, before)
      BY <1>3 DEF Leads
    <2>2. Outlast(Tail(q), off, on, between)
      BY <1>1, <2>1
    <2>. QED
      BY <1>3, <2>2 DEF Leads
  <1>. QED
    BY <1>2, <1>3

LEMMA AlternatesWithLast ==
  ASSUME NEW S, NEW q \in Seq(S), NEW on, NEW off, on # off, NEW e \in S,
         NEW running \in BOOLEAN, Alternates(q, on, off, running),
         e # on \/ Outlast(q, off, on, running)
  PROVE  Alternates(Append(q, e), on, off, running)
  <1> DEFINE r == Append(q, e)
  <1>1. /\ \A i \in DOMAIN q : i \in DOMAIN r /\ r[i] = q[i] /\ i < Len(q) + 1 /\ i \in Nat
        /\ \A i \in DOMAIN r : i \in DOMAIN q \/ i = Len(q) + 1
        /\ r[Len(q) + 1] = e /\ Len(q) \in Nat
    BY AppendIndices
  <1> HIDE DEF r
  <1> SUFFICES ASSUME NEW i \in DOMAIN r, r[i] = on
               PROVE  /\ running => \E j \in DOMAIN r : j < i /\ r[j] = off
                      /\ \A k \in DOMAIN r : k < i /\ r[k] = on =>
                           \E j \in DOMAIN r : k < j /\ j < i /\ r[j] = off
    BY DEF Alternates, r
  <1>2. CASE i \in DOMAIN q
    <2>1. \A k \in DOMAIN r : k < i => k \in DOMAIN q
      BY <1>1, <1>2
    <2>. QED
      BY <1>1, <1>2, <2>1 DEF Alternates
  <1>3. CASE i = Len(q) + 1
    <2>1. Outlast(q, off, on, running)
      BY <1>1, <1>3
    <2>2. \A k \in DOMAIN r : k < i => k \in DOMAIN q
      BY <1>1, <1>3
    <2>. QED
      BY <1>1, <1>3, <2>1, <2>2 DEF Outlast
  <1>. QED
    BY <1>1, <1>2, <1>3

LEMMA AlternatesAtHead ==
  ASSUME NEW S, NEW q \in Seq(S), q # <<>>, NEW on, NEW off, NEW running \in BOOLEAN,
         Alternates(q, on, off, running), Head(q) = on
  PROVE  ~running
  BY TailIndices DEF Alternates

LEMMA AlternatesFromTail ==
  ASSUME NEW S, NEW q \in Seq(S), q # <<>>, NEW on, NEW off, on # off,
         NEW running \in BOOLEAN, Alternates(q, on, off, running),
         NEW between \in BOOLEAN,
         Head(q) = off => ~between,
         Head(q) \notin {on, off} => (between <=> running)
  PROVE  Alternates(Tail(q), on, off, between)
  <1>1. ASSUME NEW i \in DOMAIN Tail(q), Tail(q)[i] = on
        PROVE  /\ between => \E j \in DOMAIN Tail(q) : j < i /\ Tail(q)[j] = off
               /\ \A k \in DOMAIN Tail(q) : k < i /\ Tail(q)[k] = on =>
                    \E j \in DOMAIN Tail(q) : k < j /\ j < i /\ Tail(q)[j] = off
    <2>1. /\ i + 1 \in DOMAIN q /\ q[i + 1] = on /\ i \in Nat \ {0}
          /\ 1 \in DOMAIN q /\ q[1] = Head(q)
      BY <1>1, TailIndices
    <2>2. ASSUME NEW j \in DOMAIN q, j < i + 1, j # 1, q[j] = off
          PROVE  j - 1 \in DOMAIN Tail(q) /\ Tail(q)[j - 1] = off /\ j - 1 < i /\ j \in Nat
      BY <2>1, <2>2, TailIndices
    <2>3. ASSUME between PROVE \E j \in DOMAIN Tail(q) : j < i /\ Tail(q)[j] = off
      <3>1. \E j \in DOMAIN q : j < i + 1 /\ j # 1 /\ q[j] = off
        BY <2>1, <2>3, TailIndices DEF Alternates
      <3>. QED
        BY <2>2, <3>1
    <2>4. ASSUME NEW k \in DOMAIN Tail(q), k < i, Tail(q)[k] = on
          PROVE  \E j \in DOMAIN Tail(q) : k < j /\ j < i /\ Tail(q)[j] = off
      <3>1. k + 1 \in DOMAIN q /\ q[k + 1] = on /\ k + 1 < i + 1 /\ k \in Nat \ {0}
        BY <2>1, <2>4, TailIndices
      <3>2. PICK j \in DOMAIN q : k + 1 < j /\ j < i + 1 /\ q[j] = off
        BY <2>1, <3>1 DEF Alternates
      <3>3. j - 1 \in DOMAIN Tail(q) /\ Tail(q)[j - 1] = off /\ j - 1 < i /\ j \in Nat
        BY <2>2, <3>1, <3>2, TailIndices
      <3>. QED
        BY <3>1, <3>2, <3>3
    <2>. QED
      BY <2>3, <2>4
  <1>. QED
    BY <1>1 DEF Alternates

\* What a step may do to the variables of the parts that are not about events.
StateParts == StateFollowsCalls /\ CallbackFitsLink /\ StateFollowsLink
ServiceParts == StatusOnItsWay /\ StartedTogether /\ TopicsComeUp
EventParts == EventsLeadToNetwork /\ EventsLeadToLink

LEMMA PartsOfFollow == FollowParts <=> StateParts /\ ServiceParts /\ EventParts
  BY DEF FollowParts, StateParts, ServiceParts, EventParts

LEMMA PostUnhindered ==
  ASSUME TypeOK, NEW event \in AppEvent, event_post(event), Unhindered'
  PROVE  loop \in Seq(AppEvent) /\ loop' = Append(loop, event)
  BY DEF TypeOK, event_post, Unhindered

LEMMA UnhinderedCreates == NotCreated => ~Unhindered'
  BY DEF NotCreated, Unhindered

LEMMA UnhinderedBefore == [Next]_vars /\ Unhindered' => Unhindered
  <1> SUFFICES ASSUME [Next]_vars PROVE refused \subseteq refused' /\ (overtaken => overtaken')
    BY DEF Unhindered
  <1>1. CASE UNCHANGED vars
    BY <1>1 DEF vars, mqttVars, serviceVars
  <1>2. CASE NetworkComesUp \/ NetworkGoesDown
    BY <1>2 DEF NetworkComesUp, NetworkGoesDown, event_post, mqttVars, serviceVars
  <1>3. CASE app_event_handler
    <2>1. CASE NetworkUpSets
      BY <2>1 DEF NetworkUpSets
    <2>2. CASE NetworkUp \/ NetworkDown
      BY <2>2 DEF NetworkUp, NetworkDown, Created, NotCreated
    <2>3. CASE NetworkDownReturns \/ MqttDisconnected
      BY <2>3 DEF NetworkDownReturns, MqttDisconnected, mqttVars, serviceVars
    <2>4. CASE MqttConnected \/ MqttConnectedGoesOn
      BY <2>4 DEF MqttConnected, MqttConnectedGoesOn, PublisherNotCreated,
         subscriber_start, Created, NotCreated, serviceVars
    <2>. QED
      BY <1>3, <2>1, <2>2, <2>3, <2>4 DEF app_event_handler
  <1>4. CASE ClientStep(ClientActs) \/ ClientStep(ClientFails)
    <2>1. CASE onConnectSets \/ onDisconnectSets
      BY <2>1 DEF onConnectSets, onDisconnectSets
    <2>2. CASE onConnectPosts \/ onDisconnectPosts
      BY <2>2 DEF onConnectPosts, onDisconnectPosts, event_post
    <2>3. CASE onConnectPublishes
      BY <2>3 DEF onConnectPublishes, mqtt_publish
    <2>4. CASE onDisconnectReads \/ ClientConnects \/ ClientCloses \/ ClientFails
      BY <2>4 DEF onDisconnectReads, ClientConnects, ClientCloses, ClientFails
    <2>. QED
      BY <1>4, <2>1, <2>2, <2>3, <2>4 DEF ClientStep, ClientActs
  <1>5. CASE MqttTaskStep \/ SubscriberStep
    <2>1. CASE MqttTaskStep
      BY <2>1 DEF MqttTaskStep, MqttTask
    <2>2. CASE SubscriberStep
      BY <2>2 DEF SubscriberStep, SubscriberSubscribes
    <2>. QED
      BY <1>5, <2>1, <2>2
  <1>6. CASE \E i \in DOMAIN publishers : PublisherStep(i)
    BY <1>6 DEF PublisherStep, PublisherTask, LookAtState, Round, mqtt_publish
  <1>. QED
    BY <1>1, <1>2, <1>3, <1>4, <1>5, <1>6 DEF Next

LEMMA StatePartsStutter ==
  StateParts /\ UNCHANGED <<mqttState, wanted, link, clientPc, loopPc>> => StateParts'
  BY DEF StateParts, StateFollowsCalls, CallbackFitsLink, StateFollowsLink

LEMMA ServicePartsStutter ==
  ServiceParts /\ UNCHANGED <<wanted, link, clientPc, announced, mqttTask, txQueue, loop,
                              subscribed, publisherState, subscriberVars>>
    => ServiceParts'
  BY DEF ServiceParts, StatusOnItsWay, StartedTogether, TopicsComeUp, NoClientEvent,
     subscriberVars

LEMMA EventPartsStutter ==
  ASSUME EventParts, UNCHANGED <<loop, wanted, network, link, clientPc, subscriberState>>
  PROVE  EventParts'
  BY DEF EventParts, EventsLeadToNetwork, EventsLeadToLink

\* An event that waits where it waited before.
LEMMA NetworkWaits ==
  ASSUME TypeOK, EventsLeadToNetwork, UNCHANGED <<wanted, network>>,
         \/ loop' = loop
         \/ \E e \in {"MQTT_CONNECTED", "MQTT_DISCONNECTED"} : loop' = Append(loop, e)
         \/ /\ loop # <<>> /\ loop' = Tail(loop)
            /\ Head(loop) \in {"MQTT_CONNECTED", "MQTT_DISCONNECTED"}
  PROVE  EventsLeadToNetwork'
  <1> DEFINE up == network = "up"
  <1>1. /\ loop \in Seq(AppEvent) /\ wanted \in BOOLEAN /\ up \in BOOLEAN
        /\ Leads(loop, "NETWORK_UP", "NETWORK_DOWN", wanted, up)
    BY DEF TypeOK, EventsLeadToNetwork
  <1>2. SUFFICES Leads(loop', "NETWORK_UP", "NETWORK_DOWN", wanted, up)
    BY DEF EventsLeadToNetwork
  <1> HIDE DEF up
  <1>3. Leads(loop', "NETWORK_UP", "NETWORK_DOWN", wanted, up)
    <2>1. CASE loop' = loop
      BY <1>1, <2>1
    <2>2. ASSUME NEW e \in {"MQTT_CONNECTED", "MQTT_DISCONNECTED"}, loop' = Append(loop, e)
          PROVE  Leads(loop', "NETWORK_UP", "NETWORK_DOWN", wanted, up)
      <3>1. e \in AppEvent /\ e # "NETWORK_UP" /\ e # "NETWORK_DOWN"
        BY <2>2 DEF AppEvent
      <3>2. Leads(Append(loop, e), "NETWORK_UP", "NETWORK_DOWN", wanted, up)
        BY <1>1, <3>1, LeadsPastOthers
      <3>. QED
        BY <2>2, <3>2
    <2>3. CASE loop # <<>> /\ loop' = Tail(loop)
               /\ Head(loop) \in {"MQTT_CONNECTED", "MQTT_DISCONNECTED"}
      <3>1. Head(loop) # "NETWORK_UP" /\ Head(loop) # "NETWORK_DOWN"
        BY <2>3
      <3>. QED
        BY <1>1, <2>3, <3>1, LeadsFromTail
    <2>. QED
      BY <2>1, <2>2, <2>3
  <1>. QED
    BY <1>3

LEMMA ClientWaits ==
  ASSUME TypeOK, EventsLeadToLink, UNCHANGED <<clientPc, subscriberState>>,
         link' = "up" <=> link = "up",
         \/ loop' = loop
         \/ \E e \in {"NETWORK_UP", "NETWORK_DOWN"} : loop' = Append(loop, e)
         \/ /\ loop # <<>> /\ loop' = Tail(loop)
            /\ Head(loop) \in {"NETWORK_UP", "NETWORK_DOWN"}
  PROVE  EventsLeadToLink'
  <1> DEFINE on == "MQTT_CONNECTED"
             off == "MQTT_DISCONNECTED"
             running == subscriberState = "RUNNING"
             told == link = "up" /\ clientPc # "post_connected"
  <1>1. /\ loop \in Seq(AppEvent) /\ running \in BOOLEAN /\ told \in BOOLEAN /\ on # off
        /\ Alternates(loop, on, off, running)
        /\ clientPc # "post_disconnected" => Leads(loop, on, off, running, told)
    BY DEF TypeOK, EventsLeadToLink
  <1>2. SUFFICES /\ Alternates(loop', on, off, running)
                 /\ clientPc # "post_disconnected" => Leads(loop', on, off, running, told)
    BY DEF EventsLeadToLink
  <1> HIDE DEF running, told
  <1>3. CASE loop' = loop
    BY <1>1, <1>3
  <1>4. ASSUME NEW e \in {"NETWORK_UP", "NETWORK_DOWN"}, loop' = Append(loop, e)
        PROVE  /\ Alternates(loop', on, off, running)
               /\ clientPc # "post_disconnected" => Leads(loop', on, off, running, told)
    <2>1. e \in AppEvent /\ e # on /\ e # off
      BY <1>4 DEF AppEvent
    <2>2. Alternates(Append(loop, e), on, off, running)
      BY <1>1, <2>1, AlternatesWithLast
    <2>3. ASSUME Leads(loop, on, off, running, told)
          PROVE  Leads(Append(loop, e), on, off, running, told)
      BY <1>1, <2>1, <2>3, LeadsPastOthers
    <2>. QED
      BY <1>1, <1>4, <2>2, <2>3
  <1>5. CASE loop # <<>> /\ loop' = Tail(loop) /\ Head(loop) \in {"NETWORK_UP", "NETWORK_DOWN"}
    <2>1. Head(loop) # on /\ Head(loop) # off
      BY <1>5
    <2>. QED
      BY <1>1, <1>5, <2>1, LeadsFromTail, AlternatesFromTail
  <1>. QED
    BY <1>3, <1>4, <1>5

LEMMA NoClientEventBefore ==
  ASSUME TypeOK, NoClientEvent',
         \/ loop' = loop
         \/ \E e \in AppEvent : loop' = Append(loop, e)
         \/ /\ loop # <<>> /\ loop' = Tail(loop)
            /\ Head(loop) \in {"NETWORK_UP", "NETWORK_DOWN"}
  PROVE  NoClientEvent
  <1>1. loop \in Seq(AppEvent)
    BY DEF TypeOK
  <1>2. CASE loop' = loop
    BY <1>2 DEF NoClientEvent
  <1>3. ASSUME NEW e \in AppEvent, loop' = Append(loop, e) PROVE NoClientEvent
    <2>1. \A i \in DOMAIN loop : i \in DOMAIN loop' /\ loop'[i] = loop[i]
      BY <1>1, <1>3, AppendIndices
    <2>. QED
      BY <2>1 DEF NoClientEvent
  <1>4. CASE /\ loop # <<>> /\ loop' = Tail(loop)
             /\ Head(loop) \in {"NETWORK_UP", "NETWORK_DOWN"}
    <2>1. /\ \A i \in DOMAIN loop : i # 1 => i - 1 \in DOMAIN loop' /\ loop'[i - 1] = loop[i]
          /\ loop[1] \in {"NETWORK_UP", "NETWORK_DOWN"}
      BY <1>1, <1>4, TailIndices
    <2>. QED
      BY <2>1 DEF NoClientEvent
  <1>. QED
    BY <1>2, <1>3, <1>4

LEMMA FollowNetwork ==
  ASSUME TypeOK, FollowParts, Unhindered', NetworkComesUp \/ NetworkGoesDown
  PROVE  FollowParts'
  <1>1. /\ UNCHANGED <<mqttState, wanted, link, clientPc, loopPc, announced, mqttTask,
                       txQueue, subscribed, publisherVars, subscriberVars>>
        /\ publisherState' = publisherState /\ subscriberState' = subscriberState
    BY DEF NetworkComesUp, NetworkGoesDown, mqttVars, serviceVars, clientVars,
       publisherVars, subscriberVars
  <1>2. PICK e \in {"NETWORK_UP", "NETWORK_DOWN"} :
          /\ event_post(e)
          /\ (network = "up")' <=> e = "NETWORK_UP"
    BY DEF NetworkComesUp, NetworkGoesDown
  <1>3. e \in AppEvent /\ loop \in Seq(AppEvent) /\ loop' = Append(loop, e)
    BY <1>2, PostUnhindered DEF AppEvent
  <1>4. StateParts'
    BY <1>1, PartsOfFollow, StatePartsStutter
  <1>5. ServiceParts'
    BY <1>1, <1>3, PartsOfFollow, NoClientEventBefore
    DEF ServiceParts, StatusOnItsWay, StartedTogether, TopicsComeUp, subscriberVars
  <1>6. EventsLeadToNetwork'
    <2> DEFINE up == (network = "up")'
    <2>1. SUFFICES Leads(Append(loop, e), "NETWORK_UP", "NETWORK_DOWN", wanted, up)
      BY <1>1, <1>3 DEF EventsLeadToNetwork
    <2>2. /\ wanted \in BOOLEAN /\ up \in BOOLEAN
          /\ up => e = "NETWORK_UP"
          /\ ~up => e = "NETWORK_DOWN"
      BY <1>2 DEF TypeOK
    <2> HIDE DEF up
    <2>. QED
      BY <1>3, <2>2, LeadsToLast
  <1>7. EventsLeadToLink'
    BY <1>1, <1>3, ClientWaits DEF FollowParts
  <1>. QED
    BY <1>4, <1>5, <1>6, <1>7, PartsOfFollow DEF EventParts, FollowParts, StateParts, ServiceParts

LEMMA FollowMqttTask ==
  ASSUME TypeOK, FollowParts, MqttTaskStep PROVE FollowParts'
  <1>1. UNCHANGED <<mqttState, wanted, link, clientPc, loopPc, loop, subscribed,
                    publisherState, subscriberVars, network, subscriberState>>
    BY DEF MqttTaskStep, MqttTask, publisherVars, subscriberVars
  <1>2. StateParts' /\ EventParts'
    BY <1>1, PartsOfFollow, StatePartsStutter, EventPartsStutter
  <1>3. StatusOnItsWay'
    <2>1. CASE ReceiveTx
      <3>1. txQueue \in Seq(TxMessage) /\ txQueue # <<>>
            /\ mqttTask' = Head(txQueue) /\ txQueue' = Tail(txQueue)
            /\ announced' = announced /\ mqttTask = "waiting"
        BY <2>1 DEF TypeOK, ReceiveTx
      <3>2. \A i \in DOMAIN txQueue :
              txQueue[i] = mqttTask' \/ \E j \in DOMAIN txQueue' : txQueue'[j] = txQueue[i]
        BY <3>1, TailIndices
      <3>. QED
        BY <1>1, <3>1, <3>2 DEF FollowParts, StatusOnItsWay
    <2>2. CASE PublishTx
      BY <1>1, <2>2 DEF PublishTx, FollowParts, StatusOnItsWay, StateFollowsLink
    <2>. QED
      BY <2>1, <2>2 DEF MqttTaskStep, MqttTask
  <1>4. StartedTogether' /\ TopicsComeUp'
    BY <1>1 DEF FollowParts, StartedTogether, TopicsComeUp, NoClientEvent, subscriberVars
  <1>. QED
    BY <1>2, <1>3, <1>4, PartsOfFollow DEF FollowParts, StateParts, EventParts

\* What mqtt_publish adds to the queue stays behind what is there.
LEMMA PublishKeepsOthers ==
  ASSUME TypeOK, NEW message \in TxMessage, mqtt_publish(message)
  PROVE  \A i \in DOMAIN txQueue : \E j \in DOMAIN txQueue' : txQueue'[j] = txQueue[i]
  <1>1. txQueue \in Seq(TxMessage)
    BY DEF TypeOK
  <1>2. CASE txQueue' = txQueue
    BY <1>2
  <1>3. CASE txQueue' = Append(txQueue, message)
    BY <1>1, <1>3, AppendIndices
  <1>. QED
    BY <1>2, <1>3 DEF mqtt_publish

LEMMA FollowPublisher ==
  ASSUME TypeOK, FollowParts, NEW i \in DOMAIN publishers, PublisherStep(i)
  PROVE  FollowParts'
  <1>1. UNCHANGED <<mqttState, wanted, link, clientPc, loopPc, loop, subscribed, announced,
                    mqttTask, publisherState, subscriberVars, network, subscriberState>>
    BY DEF PublisherStep, PublisherTask, clientVars, subscriberVars
  <1>2. StateParts' /\ EventParts'
    BY <1>1, PartsOfFollow, StatePartsStutter, EventPartsStutter
  <1>3. \A k \in DOMAIN txQueue : \E j \in DOMAIN txQueue' : txQueue'[j] = txQueue[k]
    <2>1. CASE LookAtState(i)
      BY <2>1 DEF LookAtState
    <2>2. CASE Round(i)
      BY <2>2, PublishKeepsOthers DEF Round, TxMessage
    <2>. QED
      BY <2>1, <2>2 DEF PublisherStep, PublisherTask
  <1>4. StatusOnItsWay'
    BY <1>1, <1>3 DEF FollowParts, StatusOnItsWay
  <1>5. StartedTogether' /\ TopicsComeUp'
    BY <1>1 DEF FollowParts, StartedTogether, TopicsComeUp, NoClientEvent, subscriberVars
  <1>. QED
    BY <1>2, <1>4, <1>5, PartsOfFollow DEF FollowParts, StateParts, EventParts

LEMMA FollowSubscriber ==
  ASSUME TypeOK, FollowParts, Unhindered', SubscriberStep PROVE FollowParts'
  <1>1. UNCHANGED <<mqttState, wanted, link, clientPc, loopPc, loop, announced, mqttTask,
                    txQueue, publisherState, subscriber, network, subscriberState>>
    BY DEF SubscriberStep, SubscriberSubscribes, publisherVars, clientVars
  <1>2. StateParts' /\ EventParts'
    BY <1>1, PartsOfFollow, StatePartsStutter, EventPartsStutter
  <1>3. StatusOnItsWay' /\ StartedTogether'
    BY <1>1 DEF FollowParts, StatusOnItsWay, StartedTogether
  <1>4. TopicsComeUp'
    <2> SUFFICES ASSUME wanted, link = "up", clientPc # "post_connected", NoClientEvent
                 PROVE  (subscribed \cup toSubscribe = CommandTopics)'
      BY <1>1 DEF TopicsComeUp, NoClientEvent
    <2>1. subscribed \cup toSubscribe = CommandTopics
      BY DEF FollowParts, TopicsComeUp
    <2>2. clientPc # "set_running"
      BY DEF SubscriberStep, SubscriberSubscribes, Unhindered
    <2>3. mqttState = "RUNNING"
      BY <2>2 DEF TypeOK, FollowParts, CallbackFitsLink, StateFollowsLink, Disconnecting
    <2>. QED
      BY <2>1, <2>3 DEF SubscriberStep, SubscriberSubscribes
  <1>. QED
    BY <1>2, <1>3, <1>4, PartsOfFollow DEF FollowParts, StateParts, EventParts

\* The handler's part of the two services' starts and stops.
LEMMA HandlerFollowsCalls ==
  ASSUME TypeOK, FollowParts, Unhindered, Unhindered', app_event_handler
  PROVE  StateParts'
  <1>1. /\ loopPc \in {"receive", "set_connecting", "disconnecting"}
        /\ ~NotCreated
        /\ mqttState \in {"INITIALIZED", "CONNECTING", "RUNNING", "STOPPED"}
        /\ wanted \in BOOLEAN
        /\ StateFollowsCalls /\ CallbackFitsLink /\ StateFollowsLink
    BY UnhinderedCreates DEF TypeOK, FollowParts, StateFollowsCalls
  <1>2. CASE NetworkUp
    BY <1>1, <1>2 DEF NetworkUp, Receive, StateParts, StateFollowsCalls, CallbackFitsLink,
       StateFollowsLink, Stopped, Connecting, Disconnecting
  <1>3. CASE NetworkUpSets
    <2>1. mqttState # "RUNNING"
      BY <1>3 DEF NetworkUpSets, Unhindered
    <2>2. /\ UNCHANGED <<wanted, link, clientPc>> /\ mqttState' = "CONNECTING"
          /\ loopPc = "set_connecting" /\ loopPc' = "receive"
      BY <1>3 DEF NetworkUpSets, clientVars
    <2>. QED
      BY <1>1, <2>1, <2>2 DEF StateParts, StateFollowsCalls, CallbackFitsLink,
         StateFollowsLink, Stopped
  <1>4. CASE NetworkDown
    BY <1>1, <1>4 DEF NetworkDown, Receive, StateParts, StateFollowsCalls, CallbackFitsLink,
       StateFollowsLink, Stopped
  <1>5. CASE NetworkDownReturns
    BY <1>1, <1>5 DEF NetworkDownReturns, mqttVars, serviceVars, clientVars, StateParts,
       StateFollowsCalls,
       CallbackFitsLink, StateFollowsLink, Stopped
  <1>6. CASE MqttConnected \/ MqttDisconnected
    <2>1. UNCHANGED <<mqttState, wanted, link, clientPc, loopPc>>
      BY <1>1, <1>6 DEF PublisherNotCreated, MqttConnected, MqttDisconnected, mqttVars,
         serviceVars, clientVars
    <2>. QED
      BY <1>1, <2>1, StatePartsStutter DEF StateParts
  <1>. QED
    BY <1>1, <1>2, <1>3, <1>4, <1>5, <1>6 DEF app_event_handler, MqttConnectedGoesOn

LEMMA FollowCalls ==
  ASSUME TypeOK, FollowParts, Unhindered, Unhindered', app_event_handler,
         NetworkUp \/ NetworkUpSets \/ NetworkDown \/ NetworkDownReturns
  PROVE  FollowParts'
  <1>1. StateParts'
    BY HandlerFollowsCalls
  <1>2. /\ UNCHANGED <<clientPc, announced, txQueue, subscribed, publisherState,
                       subscriberState, subscriberVars, network>>
        /\ link' = link \/ (link # "up" /\ link' # "up")
        /\ wanted' /\ link' = "up" => wanted /\ mqttTask' = mqttTask
        /\ \/ loop' = loop
           \/ /\ loop # <<>> /\ loop' = Tail(loop)
              /\ Head(loop) \in {"NETWORK_UP", "NETWORK_DOWN"}
    BY DEF app_event_handler, NetworkUp, NetworkUpSets, NetworkDown, NetworkDownReturns,
       Receive, mqttVars, serviceVars, clientVars, publisherVars, subscriberVars, FollowParts,
       StateFollowsCalls, Stopped
  <1>n. ~NotCreated
    BY UnhinderedCreates
  <1>3. ServiceParts'
    BY <1>2, NoClientEventBefore DEF FollowParts, ServiceParts, StatusOnItsWay,
       StartedTogether, TopicsComeUp, subscriberVars
  <1>4. EventsLeadToLink'
    BY <1>2, ClientWaits DEF FollowParts, EventsLeadToLink
  <1>5. EventsLeadToNetwork'
    <2>1. CASE NetworkUpSets \/ NetworkDownReturns
      <3>1. UNCHANGED <<loop, wanted, network>>
        BY <1>2, <2>1 DEF NetworkUpSets, NetworkDownReturns, mqttVars, serviceVars, clientVars
      <3>. QED
        BY <3>1 DEF FollowParts, EventsLeadToNetwork
    <2>2. CASE NetworkUp \/ NetworkDown
      <3> DEFINE up == network = "up"
      <3>1. /\ loop \in Seq(AppEvent) /\ loop # <<>> /\ loop' = Tail(loop)
            /\ wanted \in BOOLEAN /\ up \in BOOLEAN
            /\ Head(loop) \in {"NETWORK_UP", "NETWORK_DOWN"}
            /\ Leads(loop, "NETWORK_UP", "NETWORK_DOWN", wanted, up)
        BY <2>2 DEF TypeOK, NetworkUp, NetworkDown, Receive, FollowParts, EventsLeadToNetwork
      <3>2. /\ wanted' \in BOOLEAN
            /\ Head(loop) = "NETWORK_UP" => wanted'
            /\ Head(loop) = "NETWORK_DOWN" => ~wanted'
        <4>1. CASE NetworkUp
          <5>1. /\ loopPc = "receive" /\ Head(loop) = "NETWORK_UP"
                /\ wanted' = TRUE \/ (wanted' = wanted /\ mqttState \notin {"INITIALIZED", "STOPPED"})
            BY <1>n, <4>1 DEF NetworkUp, Receive
          <5>2. mqttState \notin {"INITIALIZED", "STOPPED"} => wanted
            BY <5>1 DEF FollowParts, StateFollowsCalls, Stopped
          <5>. QED
            BY <3>1, <5>1, <5>2
        <4>2. CASE NetworkDown
          BY <3>1, <4>2 DEF NetworkDown, Receive, FollowParts, StateFollowsCalls, Stopped, TypeOK
        <4>. QED
          BY <2>2, <4>1, <4>2
      <3>3. SUFFICES Leads(loop', "NETWORK_UP", "NETWORK_DOWN", wanted', up)
        BY <1>2 DEF EventsLeadToNetwork
      <3> HIDE DEF up
      <3>. QED
        BY <3>1, <3>2, LeadsFromTail
    <2>. QED
      BY <2>1, <2>2
  <1>. QED
    BY <1>1, <1>3, <1>4, <1>5 DEF FollowParts, StateParts, ServiceParts

LEMMA FollowStartsStops ==
  ASSUME TypeOK, FollowParts, Unhindered, Unhindered', app_event_handler,
         MqttConnected \/ MqttDisconnected
  PROVE  FollowParts'
  <1> DEFINE on == "MQTT_CONNECTED"
             off == "MQTT_DISCONNECTED"
             running == subscriberState = "RUNNING"
             runs == subscriberState' = "RUNNING"
             told == link = "up" /\ clientPc # "post_connected"
  <1>1. StateParts'
    BY HandlerFollowsCalls
  <1>n. ~NotCreated
    BY UnhinderedCreates
  <1>2. /\ UNCHANGED <<mqttState, wanted, link, clientPc, announced, mqttTask, txQueue,
                       subscribed, network>>
        /\ loop \in Seq(AppEvent) /\ loop # <<>> /\ loop' = Tail(loop)
        /\ Head(loop) \in {on, off}
        /\ Head(loop) = on <=> MqttConnected
    BY DEF TypeOK, app_event_handler, MqttConnected, MqttDisconnected, Receive, mqttVars,
       serviceVars, clientVars
  <1>3. /\ StartedTogether'
        /\ Head(loop) = on <=> runs
        /\ Head(loop) = on /\ ~running => toSubscribe' = CommandTopics
    <2>1. CASE MqttConnected
      BY <1>n, <1>2, <2>1 DEF MqttConnected, publisher_start, subscriber_start,
         PublisherNotCreated, TypeOK, FollowParts, StartedTogether, publisherVars,
         subscriberVars
    <2>2. CASE MqttDisconnected
      BY <1>2, <2>2 DEF MqttDisconnected, Receive, publisher_stop, subscriber_stop, TypeOK,
         FollowParts, StartedTogether, publisherVars, subscriberVars
    <2>. QED
      BY <2>1, <2>2
  <1>4. /\ running \in BOOLEAN /\ runs \in BOOLEAN /\ told \in BOOLEAN /\ on # off
        /\ Alternates(loop, on, off, running)
        /\ clientPc # "post_disconnected" => Leads(loop, on, off, running, told)
    BY DEF FollowParts, EventsLeadToLink
  <1>5. EventsLeadToLink'
    <2>1. SUFFICES /\ Alternates(loop', on, off, runs)
                   /\ clientPc # "post_disconnected" => Leads(loop', on, off, runs, told)
      BY <1>2 DEF EventsLeadToLink
    <2>2. /\ Head(loop) = on => runs
          /\ Head(loop) = off => ~runs
      BY <1>3
    <2> HIDE DEF running, runs, told
    <2>3. Alternates(Tail(loop), on, off, runs)
      BY <1>2, <1>4, <2>2, AlternatesFromTail
    <2>4. clientPc # "post_disconnected" => Leads(Tail(loop), on, off, runs, told)
      BY <1>2, <1>4, <2>2, LeadsFromTail
    <2>. QED
      BY <1>2, <2>3, <2>4
  <1>6. Head(loop) = on => ~running
    <2> HIDE DEF running
    <2>. QED
      BY <1>2, <1>4, AlternatesAtHead
  <1>7. EventsLeadToNetwork'
    BY <1>2, NetworkWaits DEF FollowParts
  <1>8. TopicsComeUp'
    <2> SUFFICES ASSUME wanted, link = "up", clientPc # "post_connected", NoClientEvent'
                 PROVE  (subscribed \cup toSubscribe = CommandTopics)'
      BY <1>2 DEF TopicsComeUp
    <2>1. CASE Head(loop) = on
      BY <1>2, <1>3, <1>6, <2>1 DEF TypeOK
    <2>2. CASE Head(loop) = off
      <3>1. clientPc # "post_disconnected" /\ told
        BY DEF FollowParts, CallbackFitsLink, Disconnecting
      <3>2. PICK j \in DOMAIN loop : j > 1 /\ loop[j] = on
        BY <1>2, <1>4, <2>2, <3>1, TailIndices DEF Leads, Outlast
      <3>3. j - 1 \in DOMAIN loop' /\ loop'[j - 1] = on
        BY <1>2, <3>2, TailIndices
      <3>. QED
        BY <3>3 DEF NoClientEvent
    <2>. QED
      BY <1>2, <2>1, <2>2
  <1>9. StatusOnItsWay'
    BY <1>2 DEF FollowParts, StatusOnItsWay
  <1>. QED
    BY <1>1, <1>3, <1>5, <1>7, <1>8, <1>9 DEF FollowParts, StateParts

LEMMA ClientFollowsCalls ==
  ASSUME TypeOK, FollowParts, Unhindered, Unhindered',
         ClientStep(ClientActs) \/ ClientStep(ClientFails)
  PROVE  StateParts'
  <1>1. /\ loopPc \in {"receive", "set_connecting", "disconnecting", "publisher_failed"}
        /\ mqttState \in {"INITIALIZED", "CONNECTING", "RUNNING", "STOPPED"}
        /\ wanted \in BOOLEAN
        /\ StateFollowsCalls /\ CallbackFitsLink /\ StateFollowsLink
        /\ UNCHANGED loopPc
    BY DEF TypeOK, FollowParts, ClientStep
  <1>2. CASE onConnectPosts \/ onDisconnectPosts \/ onConnectPublishes
    BY <1>1, <1>2 DEF onConnectPosts, onDisconnectPosts, onConnectPublishes, Callback,
       StateParts, StateFollowsCalls, CallbackFitsLink, StateFollowsLink,
       Stopped, Connecting, Disconnecting
  <1>3. CASE onConnectSets \/ onDisconnectSets
    <2>1. mqttState # "STOPPED"
      BY <1>3 DEF onConnectSets, onDisconnectSets, Unhindered
    <2>. QED
      BY <1>1, <1>3, <2>1 DEF onConnectSets, onDisconnectSets, Callback,
         StateParts, StateFollowsCalls, CallbackFitsLink, StateFollowsLink,
         Stopped, Connecting, Disconnecting
  <1>4. CASE onDisconnectReads
    BY <1>1, <1>4 DEF onDisconnectReads, Callback,
       StateParts, StateFollowsCalls, CallbackFitsLink, StateFollowsLink,
       Stopped, Connecting, Disconnecting
  <1>5. CASE ClientConnects \/ ClientCloses \/ ClientFails
    BY <1>1, <1>5 DEF ClientConnects, ClientCloses, ClientFails,
       StateParts, StateFollowsCalls, CallbackFitsLink, StateFollowsLink,
       Stopped, Connecting, Disconnecting
  <1>. QED
    BY <1>2, <1>3, <1>4, <1>5 DEF ClientStep, ClientActs

\* The callbacks that post nothing, and the connection's own steps.
LEMMA FollowQuietClient ==
  ASSUME TypeOK, FollowParts, Unhindered, Unhindered',
         ClientStep(ClientActs) \/ ClientStep(ClientFails),
         ~onConnectPosts, ~onDisconnectPosts
  PROVE  FollowParts'
  <1>1. StateParts'
    BY ClientFollowsCalls
  <1>2. /\ UNCHANGED <<wanted, loop, mqttTask, publisherState, subscriberState,
                       subscriberVars, network>>
        /\ mqttTask' = mqttTask
    BY DEF ClientStep, ClientActs, ClientFails, ClientConnects, ClientCloses, onConnectSets,
       onConnectPublishes, onDisconnectReads, onDisconnectSets, Callback, publisherVars,
       subscriberVars
  <1>3. EventsLeadToNetwork' /\ StartedTogether'
    <2>1. EventsLeadToNetwork'
      BY <1>2, NetworkWaits DEF FollowParts
    <2>. QED
      BY <1>2, <2>1 DEF FollowParts, StartedTogether, subscriberVars
  <1>4. TopicsComeUp'
    <2>1. link' = "up" /\ clientPc' # "post_connected" =>
            link = "up" /\ clientPc # "post_connected" /\ subscribed' = subscribed
      BY DEF ClientStep, ClientActs, ClientFails, ClientConnects, ClientCloses, onConnectSets,
         onConnectPublishes, onDisconnectReads, onDisconnectSets, Callback
    <2>. QED
      BY <1>2, <2>1 DEF FollowParts, TopicsComeUp, NoClientEvent, subscriberVars
  <1>5. StatusOnItsWay'
    <2> SUFFICES ASSUME wanted', link' = "up", clientPc' = "idle"
                 PROVE  \/ announced' \/ mqttTask' = "status"
                        \/ \E i \in DOMAIN txQueue' : txQueue'[i] = "status"
      BY DEF StatusOnItsWay
    <2>1. onConnectPublishes
      BY DEF ClientStep, ClientActs, ClientFails, ClientConnects, ClientCloses, onConnectSets,
         onDisconnectReads, onDisconnectSets, Callback, FollowParts, CallbackFitsLink,
         Disconnecting
    <2>2. mqttState = "RUNNING" /\ mqtt_publish("status")
      BY <1>2, <2>1 DEF onConnectPublishes, Callback, FollowParts, StateFollowsLink
    <2>3. txQueue' = Append(txQueue, "status") /\ txQueue \in Seq(TxMessage)
      BY <2>2 DEF mqtt_publish, Unhindered, TypeOK
    <2>. QED
      BY <2>3, AppendIndices DEF TxMessage
  <1>6. EventsLeadToLink'
    <2>1. /\ clientPc' # "post_disconnected" => clientPc # "post_disconnected"
          /\ clientPc' # "post_disconnected" =>
               ((link' = "up" /\ clientPc' # "post_connected")
                  <=> (link = "up" /\ clientPc # "post_connected"))
      BY DEF ClientStep, ClientActs, ClientFails, ClientConnects, ClientCloses, onConnectSets,
         onConnectPublishes, onDisconnectReads, onDisconnectSets, Callback, FollowParts,
         CallbackFitsLink, Connecting, Disconnecting
    <2>. QED
      BY <1>2, <2>1 DEF FollowParts, EventsLeadToLink, Leads
  <1>. QED
    BY <1>1, <1>3, <1>4, <1>5, <1>6 DEF FollowParts, StateParts

LEMMA FollowCallbackPosts ==
  ASSUME TypeOK, FollowParts, Unhindered, Unhindered', ClientStep(ClientActs),
         onConnectPosts \/ onDisconnectPosts
  PROVE  FollowParts'
  <1> DEFINE on == "MQTT_CONNECTED"
             off == "MQTT_DISCONNECTED"
             running == subscriberState = "RUNNING"
             told == link = "up" /\ clientPc' # "post_connected"
  <1>1. StateParts'
    BY ClientFollowsCalls
  <1>2. /\ UNCHANGED <<mqttState, wanted, link, announced, mqttTask, txQueue, subscribed,
                       publisherState, subscriberState, subscriberVars, network>>
        /\ clientPc' \in {"set_running", "read_state"}
    BY DEF ClientStep, onConnectPosts, onDisconnectPosts, Callback, publisherVars, subscriberVars
  <1>3. PICK e \in {on, off} :
          /\ loop \in Seq(AppEvent) /\ e \in AppEvent /\ loop' = Append(loop, e)
          /\ e = on => clientPc = "post_connected"
          /\ e = off => clientPc = "post_disconnected"
    BY PostUnhindered DEF onConnectPosts, onDisconnectPosts, Callback, AppEvent
  <1>4. EventsLeadToNetwork'
    BY <1>2, <1>3, NetworkWaits DEF FollowParts
  <1>5. StatusOnItsWay' /\ StartedTogether'
    BY <1>2 DEF FollowParts, StatusOnItsWay, StartedTogether, subscriberVars
  <1>6. TopicsComeUp'
    <2>1. Len(loop) + 1 \in DOMAIN loop' /\ loop'[Len(loop) + 1] = e
      BY <1>3, AppendIndices
    <2>. QED
      BY <2>1 DEF TopicsComeUp, NoClientEvent
  <1>7. EventsLeadToLink'
    <2>1. /\ running \in BOOLEAN /\ told \in BOOLEAN /\ on # off
          /\ Alternates(loop, on, off, running)
          /\ told => e = on
          /\ ~told => e = off
          /\ e # on \/ Outlast(loop, off, on, running)
      BY <1>2, <1>3 DEF FollowParts, EventsLeadToLink, CallbackFitsLink, Connecting,
         Disconnecting, Leads
    <2>2. SUFFICES /\ Alternates(Append(loop, e), on, off, running)
                   /\ Leads(Append(loop, e), on, off, running, told)
      BY <1>2, <1>3 DEF EventsLeadToLink
    <2> HIDE DEF running, told
    <2>. QED
      BY <1>3, <2>1, LeadsToLast, AlternatesWithLast
  <1>. QED
    BY <1>1, <1>4, <1>5, <1>6, <1>7 DEF FollowParts, StateParts

LEMMA FollowInvariant == TypeOK /\ FollowInv /\ [Next]_vars => FollowInv'
  <1> SUFFICES ASSUME TypeOK, FollowInv, [Next]_vars, Unhindered' PROVE FollowParts'
    BY DEF FollowInv
  <1>1. Unhindered /\ FollowParts
    BY UnhinderedBefore DEF FollowInv
  <1>2. CASE UNCHANGED vars
    <2>1. UNCHANGED <<mqttState, wanted, link, clientPc, loopPc, announced, mqttTask, txQueue,
                      loop, subscribed, publisherState, subscriberState, subscriberVars,
                      network>>
      BY <1>2 DEF vars, mqttVars, serviceVars, clientVars, publisherVars, subscriberVars
    <2>2. StateParts' /\ ServiceParts' /\ EventParts'
      BY <1>1, <2>1, PartsOfFollow, StatePartsStutter, ServicePartsStutter, EventPartsStutter
    <2>. QED
      BY <2>2 DEF FollowParts, StateParts, ServiceParts, EventParts
  <1>3. CASE NetworkComesUp \/ NetworkGoesDown
    BY <1>1, <1>3, FollowNetwork
  <1>4. CASE app_event_handler
    BY <1>1, <1>4, FollowCalls, FollowStartsStops
    DEF app_event_handler, MqttConnectedGoesOn, FollowParts, StateFollowsCalls
  <1>5. CASE ClientStep(ClientActs) \/ ClientStep(ClientFails)
    <2>1. CASE onConnectPosts \/ onDisconnectPosts
      <3>1. ClientStep(ClientActs)
        BY <1>5, <2>1 DEF ClientStep, ClientActs
      <3>. QED
        BY <1>1, <2>1, <3>1, FollowCallbackPosts
    <2>2. CASE ~onConnectPosts /\ ~onDisconnectPosts
      BY <1>1, <1>5, <2>2, FollowQuietClient
    <2>. QED
      BY <2>1, <2>2
  <1>6. CASE MqttTaskStep
    BY <1>1, <1>6, FollowMqttTask
  <1>7. CASE \E i \in DOMAIN publishers : PublisherStep(i)
    BY <1>1, <1>7, FollowPublisher
  <1>8. CASE SubscriberStep
    BY <1>1, <1>8, FollowSubscriber
  <1>. QED
    BY <1>2, <1>3, <1>4, <1>5, <1>6, <1>7, <1>8 DEF Next

\* main.cpp:119-122 and mqtt_service.cpp:87-139: once the events are handled
\* the services are where the client is, and the client where the network is.
THEOREM ServicesFollow == SafeSpec => []ServicesFollowClient
  <1>1. Init => FollowInv
    <2> SUFFICES ASSUME Init PROVE FollowParts
      BY DEF FollowInv
    <2>1. /\ loop = <<>> /\ txQueue = <<>> /\ mqttState = "INITIALIZED" /\ ~wanted
          /\ link = "off" /\ clientPc = "idle" /\ loopPc = "receive" /\ network = "down"
          /\ publisherState = "INITIALIZED" /\ subscriberState = "INITIALIZED" /\ ~subscriber
      BY DEF Init, EventInit, MqttInit, PublisherInit, SubscriptionsInit
    <2>2. StateParts
      BY <2>1 DEF StateParts, StateFollowsCalls, CallbackFitsLink, StateFollowsLink,
         Stopped, Connecting, Disconnecting
    <2>3. EventsLeadToNetwork /\ EventsLeadToLink
      BY <2>1 DEF EventsLeadToNetwork, EventsLeadToLink, Alternates, Leads, Outlast
    <2>4. StatusOnItsWay /\ StartedTogether /\ TopicsComeUp
      BY <2>1 DEF StatusOnItsWay, StartedTogether, TopicsComeUp
    <2>. QED
      BY <2>2, <2>3, <2>4 DEF FollowParts, StateParts
  <1>2. TypeOK /\ FollowInv => ServicesFollowClient
    <2> SUFFICES ASSUME TypeOK, FollowParts, Settled
                 PROVE  /\ wanted <=> network = "up"
                        /\ mqttState = "RUNNING" <=> link = "up"
                        /\ publisherState = "RUNNING" <=> link = "up"
                        /\ subscriber <=> link = "up"
                        /\ link = "up" => subscribed = CommandTopics /\ announced
      BY DEF FollowInv, ServicesFollowClient
    <2>1. /\ DOMAIN loop = {} /\ DOMAIN txQueue = {} /\ toSubscribe = {}
          /\ loopPc = "receive" /\ clientPc = "idle" /\ mqttTask # "status"
      BY DEF Settled, TxMessage
    <2>2. wanted <=> network = "up"
      BY <2>1 DEF FollowParts, EventsLeadToNetwork, Leads, Outlast
    <2>3. subscriberState = "RUNNING" <=> link = "up"
      BY <2>1 DEF FollowParts, EventsLeadToLink, Leads, Outlast
    <2>4. link = "up" => wanted
      BY <2>1 DEF FollowParts, StateFollowsCalls
    <2>5. mqttState = "RUNNING" <=> link = "up"
      BY <2>1, <2>4 DEF FollowParts, StateFollowsLink, Disconnecting
    <2>6. link = "up" => subscribed = CommandTopics /\ announced
      BY <2>1, <2>4 DEF FollowParts, TopicsComeUp, NoClientEvent, StatusOnItsWay
    <2>. QED
      BY <2>2, <2>3, <2>5, <2>6 DEF FollowParts, StartedTogether
  <1>. QED
    BY <1>1, <1>2, FollowInvariant, ConnectivityTypeCorrect, PTL DEF SafeSpec
=============================================================================
