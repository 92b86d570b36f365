--------------------------- MODULE DataPath_proofs ---------------------------
(***************************************************************************)
(* Proofs about DataPath, for every registry, every capacity and every     *)
(* bound: type correctness, the order of samples, and that the data path   *)
(* implements SampledStore.                                                *)
(***************************************************************************)
EXTENDS DataPath, TLAPS

\* A queue that a bounded post goes to keeps its type and its bound.
LEMMA PostKeepsType ==
  ASSUME NEW S, NEW q \in Seq(S), NEW x \in S, NEW bound \in Nat, Len(q) <= bound
  PROVE  LET posted == IF Len(q) < bound THEN Append(q, x) ELSE q
         IN posted \in Seq(S) /\ Len(posted) <= bound
  OBVIOUS

\* Receiving from a queue takes a member out and keeps the type.
LEMMA ReceiveKeepsType ==
  ASSUME NEW S, NEW q \in Seq(S), q # <<>>
  PROVE  /\ Head(q) \in S
         /\ Tail(q) \in Seq(S)
         /\ Len(Tail(q)) = Len(q) - 1
  OBVIOUS

LEMMA AppendKeepsType ==
  ASSUME NEW S, NEW q \in Seq(S), NEW x \in S
  PROVE  Append(q, x) \in Seq(S) /\ Len(Append(q, x)) = Len(q) + 1
  OBVIOUS

\* Both ways of updating the store keep its type.
LEMMA StoreKeepsType ==
  ASSUME store \in [TagId -> [value : Nat, valid : BOOLEAN]],
         NEW t \in TagId, NEW v \in Nat,
         StoreSample(t, v) \/ MarkInvalid(t)
  PROVE  store' \in [TagId -> [value : Nat, valid : BOOLEAN]]
  <1>1. CASE StoreSample(t, v)
    BY <1>1 DEF StoreSample
  <1>2. CASE MarkInvalid(t)
    <2> DEFINE marked == [store[t] EXCEPT !.valid = FALSE]
    <2>1. store[t] \in [value : Nat, valid : BOOLEAN]
      OBVIOUS
    <2>2. marked \in [value : Nat, valid : BOOLEAN]
      BY <2>1
    <2>3. store' = [store EXCEPT ![t] = marked]
      BY <1>2 DEF MarkInvalid
    <2> HIDE DEF marked
    <2>. QED
      BY <2>2, <2>3
  <1>. QED
    BY <1>1, <1>2

\* What the bus makes of a request is a response for the request's tag.
LEMMA OutcomeIsResponse ==
  ASSUME NEW h \in Request, NEW ok \in BOOLEAN, NEW v \in Nat, Outcome(h, ok, v)
  PROVE  modbusReply' \in Response
  <1>1. h.tag \in TagId
    BY DEF Request
  <1>. QED
    BY <1>1 DEF Outcome, Response

LEMMA TypeInit == Init => TypeOK
  <1> SUFFICES ASSUME Init PROVE TypeOK
    OBVIOUS
  <1> USE DEF Init, TagRuntimeInit, AcquisitionInit, DispatcherInit, ModbusInit, SubscriberInit
  <1>1. tag_count \in Nat \ {0}
    BY RegistryAssumption DEF tag_count
  <1>2. plant \in [TagId -> 1 .. MaxSample]
    BY ModbusAssumption
  <1>3. ModbusWaiting <= ModbusQueueLimit
    BY ModbusAssumption DEF ModbusWaiting
  <1>. QED
    BY <1>1, <1>2, <1>3, AcquisitionAssumption, DispatcherAssumption, SubscriberAssumption
    DEF TypeOK

LEMMA TypeAcquire == TypeOK /\ Acquire => TypeOK'
  <1> SUFFICES ASSUME TypeOK, AcquisitionTask,
                      UNCHANGED <<dispHolding, modbusVars, subVars>>
               PROVE  TypeOK'
    BY DEF Acquire
  <1> USE DEF TypeOK, modbusVars, subVars
  <1>0. tag_count \in Nat \ {0}
    BY RegistryAssumption DEF tag_count
  <1>1. ModbusWaiting' = ModbusWaiting
    BY DEF ModbusWaiting
  <1>2. CASE BeginTurn
    BY <1>1, <1>2 DEF BeginTurn
  <1>3. CASE ScanTag
    <2> DEFINE t == tag_get_at(scanIdx)
    <2>1. t \in TagId
      BY RegistryAssumption DEF tag_get_at, tag_count
    <2>2. ReadRequest(t) \in Request
      BY <2>1 DEF ReadRequest, Request
    <2>3. dispQueue' \in Seq(Request) /\ Len(dispQueue') <= DispatchCapacity
      BY <1>3, <2>2, PostKeepsType, DispatcherAssumption
      DEF ScanTag, protocol_dispatcher_post
    <2>4. scanIdx' \in 1 .. tag_count /\ acqPc' \in {"scan", "receive"}
      BY <1>0, <1>3 DEF ScanTag
    <2>. QED
      BY <1>1, <1>3, <2>3, <2>4 DEF ScanTag
  <1>4. CASE ReceiveResponse
    <2>1. /\ acqHolding' \in Response
          /\ respQueue' \in Seq(Response) /\ Len(respQueue') <= ResponseCapacity
      BY <1>4, ReceiveKeepsType, AcquisitionAssumption DEF ReceiveResponse
    <2>. QED
      BY <1>1, <1>4, <2>1 DEF ReceiveResponse
  <1>5. CASE ReceiveTimeout
    BY <1>1, <1>5 DEF ReceiveTimeout
  <1>6. CASE ApplyResponse
    <2>1. acqHolding.tag \in TagId /\ acqHolding.value \in Nat
      BY <1>6 DEF ApplyResponse, Response
    <2>2. store' \in [TagId -> [value : Nat, valid : BOOLEAN]]
      BY <1>6, <2>1, StoreKeepsType DEF ApplyResponse
    <2>. QED
      BY <1>1, <1>6, <2>2 DEF ApplyResponse
  <1>. QED
    BY <1>2, <1>3, <1>4, <1>5, <1>6 DEF AcquisitionTask

LEMMA TypeDispatch == TypeOK /\ Dispatch => TypeOK'
  <1> SUFFICES ASSUME TypeOK, Dispatch PROVE TypeOK'
    OBVIOUS
  <1> USE DEF TypeOK
  <1>1. CASE ReceiveRequest /\ UNCHANGED <<store, acqVars, modbusVars, subVars>>
    <2>1. /\ dispHolding' \in Request
          /\ dispQueue' \in Seq(Request) /\ Len(dispQueue') <= DispatchCapacity
      BY <1>1, ReceiveKeepsType, DispatcherAssumption DEF ReceiveRequest
    <2>2. ModbusWaiting' = ModbusWaiting
      BY <1>1 DEF ModbusWaiting, modbusVars
    <2>. QED
      BY <1>1, <2>1, <2>2 DEF acqVars, modbusVars, subVars
  <1>2. CASE DispatchRequest
    <2>0. dispHolding \in Request /\ dispHolding.tag \in TagId
      BY <1>2 DEF DispatchRequest, Request
    <2>1. modbusQueue' \in Seq(Request) /\ ModbusWaiting' <= ModbusQueueLimit
      <3>1. CASE RouteModbus
        <4> DEFINE sends == Sendable(dispHolding) /\ ModbusWaiting < ModbusQueueLimit
        <4>1. modbusQueue' = IF sends THEN Append(modbusQueue, dispHolding)
                             ELSE modbusQueue
          BY <3>1 DEF RouteModbus, modbus_request
        <4>2. modbusQueue' \in Seq(Request)
          BY <2>0, <4>1, AppendKeepsType
        <4>3. Len(Append(modbusQueue, dispHolding)) = Len(modbusQueue) + 1
          BY <2>0, AppendKeepsType
        <4>4. modbusReply' = modbusReply
          BY <1>2 DEF DispatchRequest
        <4>5. Len(modbusQueue) \in Nat
          OBVIOUS
        <4>6. CASE sends
          <5>1. Len(modbusQueue') = Len(modbusQueue) + 1
            BY <4>1, <4>3, <4>6
          <5>2. ModbusWaiting' = ModbusWaiting + 1
            BY <4>4, <4>5, <5>1 DEF ModbusWaiting
          <5>3. ModbusWaiting \in Nat
            BY <4>5 DEF ModbusWaiting
          <5>. QED
            BY <4>2, <4>6, <5>2, <5>3, ModbusAssumption
        <4>7. CASE ~sends
          BY <4>1, <4>2, <4>4, <4>7 DEF ModbusWaiting
        <4>. QED
          BY <4>6, <4>7
      <3>2. CASE RouteSystem \/ RouteCan
        BY <1>2, <3>2 DEF DispatchRequest, RouteSystem, RouteCan, ModbusWaiting
      <3>. QED
        BY <1>2, <3>1, <3>2 DEF DispatchRequest
    <2>2. respQueue' \in Seq(Response) /\ Len(respQueue') <= ResponseCapacity
      <3>1. CASE RouteSystem
        <4>1. plant[dispHolding.tag] \in Nat
          BY <2>0, ModbusAssumption
        <4>2. /\ [tag |-> dispHolding.tag, ok |-> TRUE,
                  value |-> plant[dispHolding.tag]] \in Response
              /\ [tag |-> dispHolding.tag, ok |-> FALSE, value |-> 0] \in Response
          BY <2>0, <4>1 DEF Response
        <4>. QED
          BY <3>1, <4>2, PostKeepsType, AcquisitionAssumption
          DEF RouteSystem, system_service_read_request, acquisition_post_response
      <3>2. CASE RouteModbus \/ RouteCan
        BY <3>2 DEF RouteModbus, RouteCan
      <3>. QED
        BY <1>2, <3>1, <3>2 DEF DispatchRequest
    <2>. QED
      BY <1>2, <2>1, <2>2 DEF DispatchRequest, subVars
  <1>. QED
    BY <1>1, <1>2 DEF Dispatch

LEMMA Remainder == ASSUME NEW n \in Nat PROVE n % 2 \in Nat
  OBVIOUS

LEMMA EchoIsNat == ASSUME NEW t \in TagId PROVE EchoValues(t) \subseteq Nat
  <1>1. Address[t] \in Nat
    BY RegistryAssumption
  <1>2. Address[t] % 2 \in Nat
    BY <1>1, Remainder
  <1>3. \A v \in EchoValues(t) : v \in Nat
    BY <1>2, SMT DEF EchoValues
  <1>. QED
    BY <1>3

LEMMA TransactReplies ==
  ASSUME TypeOK, Transact
  PROVE  modbusReply' \in Response
  <1> USE DEF TypeOK
  <1>0. modbusQueue # <<>>
    BY DEF Transact, TransactRead, TransactWrite
  <1>h. PICK h \in Request : h = Head(modbusQueue)
    BY <1>0, ReceiveKeepsType
  <1>1. h.tag \in TagId
    BY DEF Request
  <1>2. plant[h.tag] \in Nat /\ EchoValues(h.tag) \subseteq Nat
    <2>2. plant[h.tag] \in Nat
      BY <1>1, ModbusAssumption
    <2>. QED
      BY <1>1, <2>2, EchoIsNat
  <1>3. modbusReply' \in Response
    <2>1. \/ Outcome(h, TRUE, plant[h.tag])
          \/ \E value \in EchoValues(h.tag) : Outcome(h, TRUE, value)
          \/ Outcome(h, FALSE, 0)
      BY <1>h DEF Transact, TransactRead, TransactWrite
    <2> HIDE DEF TypeOK
    <2>. QED
      BY <1>2, <2>1, OutcomeIsResponse
  <1>. QED
    BY <1>3

LEMMA TypeBus == TypeOK /\ (Transact \/ Callback) => TypeOK'
  <1> SUFFICES ASSUME TypeOK, Transact \/ Callback PROVE TypeOK'
    OBVIOUS
  <1> USE DEF TypeOK
  <1>1. CASE Transact
    <2>0. modbusReply = NONE /\ modbusQueue # <<>> /\ modbusQueue' = Tail(modbusQueue)
      BY <1>1 DEF Transact, TransactRead, TransactWrite
    <2>h. PICK h \in Request : h = Head(modbusQueue)
      BY <2>0, ReceiveKeepsType
    <2>3. modbusReply' \in Response
      BY <1>1, TransactReplies
    <2>4. modbusQueue' \in Seq(Request) /\ ModbusWaiting' <= ModbusQueueLimit
      BY <2>0, ReceiveKeepsType, ModbusAssumption DEF ModbusWaiting
    <2>5. executed' \in Seq(Request)
      <3>1. executed' = Append(executed, h) \/ executed' = executed
        BY <1>1, <2>h DEF Transact, TransactRead, TransactWrite
      <3>2. executed \in Seq(Request)
        OBVIOUS
      <3> HIDE DEF TypeOK
      <3>. QED
        BY <3>1, <3>2, AppendKeepsType
    <2>. QED
      BY <1>1, <2>3, <2>4, <2>5
      DEF Transact, TransactRead, TransactWrite, acqVars, dispVars, subVars
  <1>2. CASE Callback
    <2>1. modbusReply \in Response /\ modbusReply.ok \in BOOLEAN
      BY <1>2 DEF Callback, ModbusCallback, Response
    <2>2. respQueue' \in Seq(Response) /\ Len(respQueue') <= ResponseCapacity
      BY <1>2, <2>1, PostKeepsType, AcquisitionAssumption
      DEF Callback, ModbusCallback, acquisition_post_response
    <2>3. ModbusWaiting' <= ModbusQueueLimit
      BY <1>2, ModbusAssumption DEF Callback, ModbusCallback, ModbusWaiting
    <2>. QED
      BY <1>2, <2>1, <2>2, <2>3 DEF Callback, ModbusCallback, dispVars, subVars
  <1>. QED
    BY <1>1, <1>2

LEMMA TypeSubscribe == TypeOK /\ (Subscribe \/ Environment) => TypeOK'
  <1> SUFFICES ASSUME TypeOK, Subscribe \/ Environment PROVE TypeOK'
    OBVIOUS
  <1> USE DEF TypeOK
  <1>1. CASE Subscribe
    <2>0. ModbusWaiting' = ModbusWaiting
      BY <1>1 DEF Subscribe, modbusVars, ModbusWaiting
    <2>1. CASE ReceiveMessage
      <3>1. /\ subHolding' \in Message
            /\ subQueue' \in Seq(Message) /\ Len(subQueue') <= SubscriberCapacity
        BY <2>1, ReceiveKeepsType, SubscriberAssumption DEF ReceiveMessage
      <3>. QED
        BY <1>1, <2>0, <2>1, <3>1 DEF Subscribe, ReceiveMessage, acqVars, modbusVars
    <2>2. CASE HandleMessage
      <3>1. dispQueue' \in Seq(Request) /\ Len(dispQueue') <= DispatchCapacity
        <4>1. CASE Accepted(subHolding)
          <5>1. subHolding.topic \in TagId
            BY <4>1 DEF Accepted, tag_find_by_topic
          <5>2. subHolding.number \in Nat
            BY <2>2 DEF HandleMessage, Message
          <5>3. WriteRequest(subHolding.topic, subHolding.number) \in Request
            BY <5>1, <5>2 DEF WriteRequest, Request
          <5>. QED
            BY <2>2, <4>1, <5>3, PostKeepsType, DispatcherAssumption
            DEF HandleMessage, protocol_dispatcher_post
        <4>2. CASE ~Accepted(subHolding)
          BY <2>2, <4>2 DEF HandleMessage
        <4>. QED
          BY <4>1, <4>2
      <3>. QED
        BY <1>1, <2>0, <2>2, <3>1 DEF Subscribe, HandleMessage, acqVars, modbusVars
    <2>. QED
      BY <1>1, <2>1, <2>2 DEF Subscribe, SubscriberTask
  <1>2. CASE SourceChanges /\ UNCHANGED <<store, acqVars, dispVars, subVars>>
    <2>1. plant' \in [TagId -> 1 .. MaxSample]
      BY <1>2, ModbusAssumption DEF SourceChanges, Polled
    <2>2. ModbusWaiting' = ModbusWaiting
      BY <1>2 DEF SourceChanges, ModbusWaiting
    <2>. QED
      BY <1>2, <2>1, <2>2 DEF SourceChanges, acqVars, dispVars, subVars
  <1>3. CASE MessageArrives /\ UNCHANGED <<store, acqVars, dispHolding, modbusVars>>
    <2>1. PICK kind \in Arrivals :
            LET message == [topic |-> kind.topic, wellFormed |-> kind.wellFormed,
                            number |-> Len(arrived) + 1]
            IN /\ arrived' = Append(arrived, message)
               /\ subQueue' = IF Len(subQueue) < SubscriberCapacity
                              THEN Append(subQueue, message) ELSE subQueue
      BY <1>3 DEF MessageArrives
    <2> DEFINE m == [topic |-> kind.topic, wellFormed |-> kind.wellFormed,
                     number |-> Len(arrived) + 1]
    <2>2. m \in Message
      BY SubscriberAssumption DEF Message
    <2>3. /\ arrived' \in Seq(Message)
          /\ subQueue' \in Seq(Message) /\ Len(subQueue') <= SubscriberCapacity
      BY <2>1, <2>2, PostKeepsType, SubscriberAssumption
    <2>4. ModbusWaiting' = ModbusWaiting
      BY <1>3 DEF modbusVars, ModbusWaiting
    <2>. QED
      BY <1>3, <2>3, <2>4 DEF MessageArrives, acqVars, modbusVars
  <1>. QED
    BY <1>1, <1>2, <1>3 DEF Environment

\* A step that changes nothing keeps the type.
LEMMA TypeStutter == TypeOK /\ UNCHANGED vars => TypeOK'
  BY DEF TypeOK, ModbusWaiting, vars, acqVars, dispVars, modbusVars, subVars

\* Every variable keeps its type and every queue the capacity it was created
\* with, whatever the tasks interleave.
THEOREM TypeCorrect == SafeSpec => []TypeOK
  <1>1. TypeOK /\ [Next]_vars => TypeOK'
    BY TypeAcquire, TypeDispatch, TypeBus, TypeSubscribe, TypeStutter DEF Next
  <1>. QED
    BY <1>1, TypeInit, PTL DEF SafeSpec

-----------------------------------------------------------------------------
(* The two kinds of requests keep to their own tags *)

LEMMA RoutesInit == Init => RoutesApart
  BY DEF Init, DispatcherInit, ModbusInit, RoutesApart

LEMMA RoutesStep == TypeOK /\ RoutesApart /\ [Next]_vars => RoutesApart'
  <1> SUFFICES ASSUME TypeOK, RoutesApart, [Next]_vars PROVE RoutesApart'
    OBVIOUS
  <1> DEFINE Apart(r) == r.operation = "WRITE" => r.tag \notin Polled
             OnBus(r) == Source[r.tag] = "MODBUS" /\ Apart(r)
  <1>1. /\ dispQueue \in Seq(Request) /\ modbusQueue \in Seq(Request)
        /\ \A i \in DOMAIN dispQueue : Apart(dispQueue[i])
        /\ dispHolding # NONE => Apart(dispHolding)
        /\ \A i \in DOMAIN modbusQueue : OnBus(modbusQueue[i])
        /\ modbusReply # NONE => Source[modbusReply.tag] = "MODBUS"
    BY DEF TypeOK, RoutesApart
  <1>2. SUFFICES /\ \A i \in DOMAIN dispQueue' : Apart(dispQueue'[i])
                 /\ dispHolding' # NONE => Apart(dispHolding')
                 /\ \A i \in DOMAIN modbusQueue' : OnBus(modbusQueue'[i])
                 /\ modbusReply' # NONE => Source[modbusReply'.tag] = "MODBUS"
    BY DEF RoutesApart
  <1>3. CASE Acquire
    <2>1. /\ dispHolding' = dispHolding
          /\ modbusQueue' = modbusQueue /\ modbusReply' = modbusReply
      BY <1>3 DEF Acquire, modbusVars
    <2>2. \/ dispQueue' = dispQueue
          \/ dispQueue' = Append(dispQueue, ReadRequest(tag_get_at(scanIdx)))
      BY <1>3
      DEF Acquire, AcquisitionTask, BeginTurn, ScanTag, ReceiveResponse,
          ReceiveTimeout, ApplyResponse, protocol_dispatcher_post
    <2>3. Apart(ReadRequest(tag_get_at(scanIdx)))
      BY DEF ReadRequest
    <2>. QED
      BY <1>1, <2>1, <2>2, <2>3
  <1>4. CASE ReceiveRequest /\ UNCHANGED <<store, acqVars, modbusVars, subVars>>
    <2>1. modbusQueue' = modbusQueue /\ modbusReply' = modbusReply
      BY <1>4 DEF modbusVars
    <2>2. dispQueue # <<>> /\ dispHolding' = Head(dispQueue) /\ dispQueue' = Tail(dispQueue)
      BY <1>4 DEF ReceiveRequest
    <2>. QED
      BY <1>1, <2>1, <2>2
  <1>5. CASE DispatchRequest
    <2>1. /\ dispQueue' = dispQueue /\ dispHolding' = NONE
          /\ modbusReply' = modbusReply /\ dispHolding # NONE
      BY <1>5 DEF DispatchRequest
    <2>2. \/ modbusQueue' = modbusQueue
          \/ /\ Source[dispHolding.tag] = "MODBUS"
             /\ modbusQueue' = Append(modbusQueue, dispHolding)
      BY <1>5
      DEF DispatchRequest, RouteModbus, RouteSystem, RouteCan, modbus_request
    <2>. QED
      BY <1>1, <2>1, <2>2
  <1>6. CASE Transact
    <2>1. dispQueue' = dispQueue /\ dispHolding' = dispHolding
      BY <1>6 DEF Transact, dispVars
    <2>2. /\ modbusQueue # <<>> /\ modbusQueue' = Tail(modbusQueue)
          /\ modbusReply'.tag = Head(modbusQueue).tag
      BY <1>6 DEF Transact, TransactRead, TransactWrite, Outcome
    <2>. QED
      BY <1>1, <2>1, <2>2
  <1>7. CASE Callback
    BY <1>1, <1>7 DEF Callback, ModbusCallback, dispVars
  <1>8. CASE Subscribe
    <2>1. /\ dispHolding' = dispHolding
          /\ modbusQueue' = modbusQueue /\ modbusReply' = modbusReply
      BY <1>8 DEF Subscribe, modbusVars
    <2>2. \/ dispQueue' = dispQueue
          \/ /\ Accepted(subHolding)
             /\ dispQueue' = Append(dispQueue,
                               WriteRequest(subHolding.topic, subHolding.number))
      BY <1>8
      DEF Subscribe, SubscriberTask, ReceiveMessage, HandleMessage,
          protocol_dispatcher_post
    <2>3. Accepted(subHolding)
            => Apart(WriteRequest(subHolding.topic, subHolding.number))
      BY DEF Accepted, tag_find_by_topic, WriteRequest, Polled
    <2>. QED
      BY <1>1, <2>1, <2>2, <2>3
  <1>9. CASE Environment
    BY <1>1, <1>9
    DEF Environment, SourceChanges, MessageArrives, dispVars, modbusVars
  <1>10. CASE UNCHANGED vars
    BY <1>1, <1>10 DEF vars, dispVars, modbusVars
  <1>. QED
    BY <1>3, <1>4, <1>5, <1>6, <1>7, <1>8, <1>9, <1>10 DEF Next, Dispatch

\* A write request never names a polled tag, and only requests for Modbus
\* tags are on the bus.
THEOREM RoutesStayApart == SafeSpec => []RoutesApart
  <1>. QED
    BY TypeCorrect, RoutesInit, RoutesStep, PTL DEF SafeSpec

-----------------------------------------------------------------------------
(* The samples of a polled tag stay in order *)

LEMMA SamplesInit == Init => SamplesInOrder
  <1> SUFFICES ASSUME Init, NEW t \in Polled PROVE SamplesOfTagInOrder(t)
    BY DEF SamplesInOrder
  <1>1. t \in TagId
    BY DEF Polled
  <1>. QED
    BY <1>1
    DEF Init, TagRuntimeInit, AcquisitionInit, ModbusInit, SamplesOfTagInOrder, Sample

\* The five variables SamplesInOrder looks at; a step that leaves them alone
\* keeps it.
LEMMA SamplesFrame ==
  ASSUME SamplesInOrder,
         UNCHANGED <<store, plant, acqHolding, respQueue, modbusReply>>
  PROVE  SamplesInOrder'
  BY DEF SamplesInOrder, SamplesOfTagInOrder, Sample, Follows

\* What the proofs below use of the types.
LEMMA SampleTypes ==
  ASSUME TypeOK
  PROVE  /\ store \in [TagId -> [value : Nat, valid : BOOLEAN]]
         /\ plant \in [TagId -> Nat \ {0}]
         /\ respQueue \in Seq(Response)
         /\ acqPc = "apply" => acqHolding \in Response
         /\ acqHolding # NONE => acqHolding \in Response
         /\ modbusReply # NONE => modbusReply \in Response
  BY ModbusAssumption DEF TypeOK

\* Posting the newest sample of a tag, or an answer that is no sample,
\* behind the ones that wait keeps the order.
LEMMA SamplesPost ==
  ASSUME TypeOK, SamplesInOrder, NEW r \in Response,
         acquisition_post_response(r),
         UNCHANGED <<store, plant, acqHolding>>,
         modbusReply' = NONE \/ modbusReply' = modbusReply,
         NEW t \in Polled,
         Sample(r, t) =>
           /\ Follows(r.value, t)
           /\ Sample(acqHolding, t) => acqHolding.value <= r.value
           /\ \A i \in DOMAIN respQueue :
                Sample(respQueue[i], t) => respQueue[i].value <= r.value
           /\ modbusReply' # NONE => modbusReply'.tag # t
  PROVE  SamplesOfTagInOrder(t)'
  <1>1. SamplesOfTagInOrder(t)
    BY DEF SamplesInOrder
  <1>2. CASE respQueue' = respQueue
    BY <1>1, <1>2 DEF SamplesOfTagInOrder, Sample, Follows
  <1>3. CASE respQueue' = Append(respQueue, r)
    <2>1. respQueue \in Seq(Response)
      BY SampleTypes
    <2>2. /\ Len(respQueue) \in Nat
          /\ DOMAIN respQueue = 1 .. Len(respQueue)
          /\ DOMAIN respQueue' = 1 .. Len(respQueue) + 1
          /\ respQueue'[Len(respQueue) + 1] = r
          /\ \A i \in DOMAIN respQueue : respQueue'[i] = respQueue[i]
      BY <1>3, <2>1
    <2>3. ASSUME NEW i \in DOMAIN respQueue', Sample(respQueue'[i], t)
          PROVE  /\ Follows(respQueue'[i].value, t)
                 /\ Sample(acqHolding, t) => acqHolding.value <= respQueue'[i].value
                 /\ \A j \in DOMAIN respQueue' :
                      i < j /\ Sample(respQueue'[j], t)
                        => respQueue'[i].value <= respQueue'[j].value
      <3>1. CASE i \in DOMAIN respQueue
        BY <1>1, <2>2, <2>3, <3>1 DEF SamplesOfTagInOrder
      <3>2. CASE i = Len(respQueue) + 1
        BY <2>2, <2>3, <3>2
      <3>. QED
        BY <2>2, <3>1, <3>2
    <2>4. ASSUME NEW i \in DOMAIN respQueue', Sample(respQueue'[i], t),
                 Sample(modbusReply', t)
          PROVE  respQueue'[i].value <= modbusReply'.value
      <3>1. modbusReply' = modbusReply /\ ~Sample(r, t)
        BY <2>4 DEF Sample
      <3>. QED
        BY <1>1, <2>2, <2>4, <3>1 DEF SamplesOfTagInOrder
    <2>5. Sample(modbusReply', t) =>
            /\ Follows(modbusReply'.value, t)
            /\ Sample(acqHolding, t) => acqHolding.value <= modbusReply'.value
      BY <1>1 DEF SamplesOfTagInOrder, Sample
    <2>. QED
      BY <1>1, <2>3, <2>4, <2>5 DEF SamplesOfTagInOrder, Sample, Follows
  <1>. QED
    BY <1>2, <1>3 DEF acquisition_post_response

LEMMA SamplesAcquire ==
  TypeOK /\ SamplesInOrder /\ Acquire => SamplesInOrder'
  <1> SUFFICES ASSUME TypeOK, SamplesInOrder, AcquisitionTask,
                      plant' = plant, modbusReply' = modbusReply
               PROVE  SamplesInOrder'
    BY DEF Acquire, modbusVars
  <1>1. CASE BeginTurn \/ ScanTag \/ ReceiveTimeout
    BY <1>1, SamplesFrame DEF BeginTurn, ScanTag, ReceiveTimeout
  <1>2. CASE ReceiveResponse
    <2> SUFFICES ASSUME NEW t \in Polled PROVE SamplesOfTagInOrder(t)'
      BY DEF SamplesInOrder
    <2>1. SamplesOfTagInOrder(t)
      BY DEF SamplesInOrder
    <2>2. respQueue \in Seq(Response) /\ respQueue # <<>>
      BY <1>2, SampleTypes DEF ReceiveResponse
    <2>3. /\ store' = store
          /\ acqHolding' = respQueue[1]
          /\ 1 \in DOMAIN respQueue
          /\ \A i \in DOMAIN respQueue' :
               /\ i + 1 \in DOMAIN respQueue
               /\ respQueue'[i] = respQueue[i + 1]
               /\ i \in Nat /\ 1 < i + 1
      BY <1>2, <2>2 DEF ReceiveResponse
    <2>4. \A i \in DOMAIN respQueue' : Sample(respQueue'[i], t) =>
            /\ Follows(respQueue'[i].value, t)
            /\ Sample(acqHolding', t) => acqHolding'.value <= respQueue'[i].value
            /\ \A j \in DOMAIN respQueue' :
                 i < j /\ Sample(respQueue'[j], t)
                   => respQueue'[i].value <= respQueue'[j].value
      <3> SUFFICES ASSUME NEW i \in DOMAIN respQueue', Sample(respQueue'[i], t)
                   PROVE  /\ Follows(respQueue'[i].value, t)
                          /\ Sample(acqHolding', t)
                               => acqHolding'.value <= respQueue'[i].value
                          /\ \A j \in DOMAIN respQueue' :
                               i < j /\ Sample(respQueue'[j], t)
                                 => respQueue'[i].value <= respQueue'[j].value
        OBVIOUS
      <3>1. /\ Follows(respQueue'[i].value, t)
            /\ Sample(acqHolding', t) => acqHolding'.value <= respQueue'[i].value
        BY <2>1, <2>3 DEF SamplesOfTagInOrder
      <3>2. ASSUME NEW j \in DOMAIN respQueue', i < j, Sample(respQueue'[j], t)
            PROVE  respQueue'[i].value <= respQueue'[j].value
        <4>1. i + 1 < j + 1
          BY <2>3, <3>2
        <4>. QED
          BY <2>1, <2>3, <3>2, <4>1 DEF SamplesOfTagInOrder
      <3>. QED
        BY <3>1, <3>2
    <2>5. Sample(acqHolding', t) => Follows(acqHolding'.value, t)
      BY <2>1, <2>3 DEF SamplesOfTagInOrder
    <2>6. Sample(modbusReply, t) =>
            /\ Follows(modbusReply.value, t)
            /\ Sample(acqHolding', t) => acqHolding'.value <= modbusReply.value
            /\ \A i \in DOMAIN respQueue' :
                 Sample(respQueue'[i], t) => respQueue'[i].value <= modbusReply.value
      BY <2>1, <2>3 DEF SamplesOfTagInOrder
    <2>. QED
      BY <2>1, <2>3, <2>4, <2>5, <2>6 DEF SamplesOfTagInOrder, Sample, Follows
  <1>3. CASE ApplyResponse
    <2> SUFFICES ASSUME NEW t \in Polled PROVE SamplesOfTagInOrder(t)'
      BY DEF SamplesInOrder
    <2>1. SamplesOfTagInOrder(t)
      BY DEF SamplesInOrder
    <2>2. t \in TagId /\ acqHolding \in Response /\ acqHolding # NONE
      BY <1>3, SampleTypes, AcquisitionAssumption DEF Polled, ApplyResponse
    <2>3. /\ respQueue' = respQueue
          /\ acqHolding' = NONE
      BY <1>3 DEF ApplyResponse
    <2>4. CASE Sample(acqHolding, t)
      <3>1. store'[t] = [value |-> acqHolding.value, valid |-> TRUE]
        BY <1>3, <2>2, <2>4, SampleTypes DEF ApplyResponse, StoreSample, Sample
      <3>. QED
        BY <2>1, <2>3, <2>4, <3>1 DEF SamplesOfTagInOrder, Sample, Follows
    <2>5. CASE ~Sample(acqHolding, t)
      <3>1. /\ store'[t].value = store[t].value
            /\ store'[t].valid => store[t].valid
        BY <1>3, <2>2, <2>5, SampleTypes
        DEF ApplyResponse, StoreSample, MarkInvalid, Sample, Response
      <3>. QED
        BY <2>1, <2>3, <3>1 DEF SamplesOfTagInOrder, Sample, Follows
    <2>. QED
      BY <2>4, <2>5
  <1>. QED
    BY <1>1, <1>2, <1>3 DEF AcquisitionTask

LEMMA SamplesRoute ==
  TypeOK /\ RoutesApart /\ SamplesInOrder /\ DispatchRequest => SamplesInOrder'
  <1> SUFFICES ASSUME TypeOK, RoutesApart, SamplesInOrder, DispatchRequest
               PROVE  SamplesInOrder'
    OBVIOUS
  <1>1. UNCHANGED <<store, plant, acqHolding, modbusReply>>
    BY DEF DispatchRequest
  <1>2. CASE RouteModbus \/ RouteCan
    BY <1>1, <1>2, SamplesFrame DEF RouteModbus, RouteCan
  <1>3. CASE RouteSystem
    <2>1. CASE dispHolding.operation = "READ"
      <3> SUFFICES ASSUME NEW t \in Polled PROVE SamplesOfTagInOrder(t)'
        BY DEF SamplesInOrder
      <3>1. SamplesOfTagInOrder(t) /\ t \in TagId
        BY DEF SamplesInOrder, Polled
      <3>2. PICK tag \in TagId : tag = dispHolding.tag
        BY DEF DispatchRequest, TypeOK, Request
      <3>3. plant[tag] \in Nat \ {0} /\ plant[t] \in Nat \ {0} /\ store[t].value \in Nat
        BY <3>1, SampleTypes
      <3>4. PICK r \in Response :
              /\ acquisition_post_response(r)
              /\ r.tag = tag
              /\ r.ok => r.value = plant[tag]
        <4> DEFINE good == [tag |-> tag, ok |-> TRUE, value |-> plant[tag]]
                   bad == [tag |-> tag, ok |-> FALSE, value |-> 0]
        <4>1. good \in Response /\ bad \in Response
          BY <3>3 DEF Response
        <4>2. acquisition_post_response(good) \/ acquisition_post_response(bad)
          BY <1>3, <2>1, <3>2 DEF RouteSystem, system_service_read_request
        <4>. QED
          BY <4>1, <4>2
      <3>5. modbusReply' # NONE => modbusReply'.tag # tag
        BY <1>1, <1>3, <3>2 DEF RouteSystem, RoutesApart
      <3>6. Sample(r, t) =>
              /\ Follows(r.value, t)
              /\ Sample(acqHolding, t) => acqHolding.value <= r.value
              /\ \A i \in DOMAIN respQueue :
                   Sample(respQueue[i], t) => respQueue[i].value <= r.value
              /\ modbusReply' # NONE => modbusReply'.tag # t
        BY <3>1, <3>3, <3>4, <3>5 DEF SamplesOfTagInOrder, Sample, Follows
      <3>. QED
        BY <1>1, <3>4, <3>6, SamplesPost
    <2>2. CASE dispHolding.operation # "READ"
      BY <1>1, <1>3, <2>2, SamplesFrame DEF RouteSystem
    <2>. QED
      BY <2>1, <2>2
  <1>. QED
    BY <1>2, <1>3 DEF DispatchRequest

LEMMA SamplesBus ==
  TypeOK /\ RoutesApart /\ SamplesInOrder /\ (Transact \/ Callback)
    => SamplesInOrder'
  <1> SUFFICES ASSUME TypeOK, RoutesApart, SamplesInOrder, Transact \/ Callback,
                      NEW t \in Polled
               PROVE  SamplesOfTagInOrder(t)'
    BY DEF SamplesInOrder
  <1>1. SamplesOfTagInOrder(t) /\ t \in TagId
    BY DEF SamplesInOrder, Polled
  <1>2. plant[t] \in Nat \ {0} /\ store[t].value \in Nat
    BY <1>1, SampleTypes
  <1>3. CASE Transact
    <2>1. UNCHANGED <<store, plant, acqHolding, respQueue>>
      BY <1>3 DEF Transact, TransactRead, TransactWrite, acqVars
    <2>2. Sample(modbusReply', t) => modbusReply'.value = plant[t]
      <3>1. CASE TransactRead
        BY <3>1 DEF TransactRead, Outcome, Sample
      <3>2. CASE TransactWrite
        <4>1. modbusQueue # <<>> /\ modbusQueue \in Seq(Request)
          BY <3>2 DEF TransactWrite, TypeOK
        <4>2. Head(modbusQueue).tag \notin Polled
          BY <3>2, <4>1 DEF TransactWrite, RoutesApart
        <4>. QED
          BY <3>2, <4>2 DEF TransactWrite, Outcome, Sample
      <3>. QED
        BY <1>3, <3>1, <3>2 DEF Transact
    <2>3. Sample(modbusReply', t) =>
            /\ Follows(modbusReply'.value, t)
            /\ Sample(acqHolding, t) => acqHolding.value <= modbusReply'.value
            /\ \A i \in DOMAIN respQueue :
                 Sample(respQueue[i], t) => respQueue[i].value <= modbusReply'.value
      BY <1>1, <1>2, <2>2 DEF SamplesOfTagInOrder, Follows
    <2>. QED
      BY <1>1, <2>1, <2>3 DEF SamplesOfTagInOrder, Sample, Follows
  <1>4. CASE Callback
    <2>1. /\ UNCHANGED <<store, plant, acqHolding>>
          /\ modbusReply # NONE /\ modbusReply' = NONE
          /\ respQueue' = respQueue \/ acquisition_post_response(modbusReply)
      BY <1>4 DEF Callback, ModbusCallback
    <2>2. modbusReply \in Response
      BY <2>1, SampleTypes
    <2>3. Sample(modbusReply, t) =>
            /\ Follows(modbusReply.value, t)
            /\ Sample(acqHolding, t) => acqHolding.value <= modbusReply.value
            /\ \A i \in DOMAIN respQueue :
                 Sample(respQueue[i], t) => respQueue[i].value <= modbusReply.value
      BY <1>1 DEF SamplesOfTagInOrder
    <2>4. CASE respQueue' = respQueue
      BY <1>1, <2>1, <2>4 DEF SamplesOfTagInOrder, Sample, Follows
    <2>5. CASE acquisition_post_response(modbusReply)
      BY <2>1, <2>2, <2>3, <2>5, SamplesPost
    <2>. QED
      BY <2>1, <2>4, <2>5
  <1>. QED
    BY <1>3, <1>4

LEMMA SamplesSource ==
  TypeOK /\ SamplesInOrder /\ SourceChanges
    /\ UNCHANGED <<store, acqVars, dispVars, subVars>> => SamplesInOrder'
  <1> SUFFICES ASSUME TypeOK, SamplesInOrder, SourceChanges,
                      UNCHANGED <<store, acqVars, dispVars, subVars>>,
                      NEW t \in Polled
               PROVE  SamplesOfTagInOrder(t)'
    BY DEF SamplesInOrder
  <1>1. SamplesOfTagInOrder(t) /\ t \in TagId
    BY DEF SamplesInOrder, Polled
  <1>2. /\ plant \in [TagId -> Nat \ {0}]
        /\ store[t].value \in Nat
        /\ acqHolding # NONE => acqHolding.value \in Nat
        /\ modbusReply # NONE => modbusReply.value \in Nat
    BY <1>1, SampleTypes DEF Response
  <1>3. \A i \in DOMAIN respQueue : respQueue[i].value \in Nat
    <2>1. \A i \in DOMAIN respQueue : respQueue[i] \in Response
      BY SampleTypes
    <2>. QED
      BY <2>1 DEF Response
  <1>4. plant[t] <= plant'[t] /\ plant[t] \in Nat /\ plant'[t] \in Nat
    BY <1>1, <1>2 DEF SourceChanges
  <1>5. /\ UNCHANGED <<store, acqHolding, respQueue, modbusReply>>
    BY DEF SourceChanges, acqVars
  <1>6. \A v \in Nat : Follows(v, t) => Follows(v, t)'
    BY <1>4, <1>5 DEF Follows
  <1>7. store'[t].value <= plant'[t]
    BY <1>1, <1>2, <1>4, <1>5 DEF SamplesOfTagInOrder
  <1>. QED
    BY <1>1, <1>2, <1>3, <1>5, <1>6, <1>7 DEF SamplesOfTagInOrder, Sample

LEMMA SamplesStep ==
  TypeOK /\ RoutesApart /\ SamplesInOrder /\ [Next]_vars => SamplesInOrder'
  <1> SUFFICES ASSUME TypeOK, RoutesApart, SamplesInOrder, [Next]_vars
               PROVE  SamplesInOrder'
    OBVIOUS
  <1>1. CASE ReceiveRequest /\ UNCHANGED <<store, acqVars, modbusVars, subVars>>
    BY <1>1, SamplesFrame DEF acqVars, modbusVars
  <1>2. CASE Subscribe
    BY <1>2, SamplesFrame DEF Subscribe, acqVars, modbusVars
  <1>3. CASE MessageArrives /\ UNCHANGED <<store, acqVars, dispHolding, modbusVars>>
    BY <1>3, SamplesFrame DEF acqVars, modbusVars
  <1>4. CASE UNCHANGED vars
    BY <1>4, SamplesFrame DEF vars, acqVars, modbusVars
  <1>. QED
    BY <1>1, <1>2, <1>3, <1>4, SamplesAcquire, SamplesRoute, SamplesBus,
       SamplesSource
    DEF Next, Dispatch, Environment

\* Between the source and the store, the samples of a tag keep their order.
THEOREM SamplesStayInOrder == SafeSpec => []SamplesInOrder
  <1>. QED
    BY TypeCorrect, RoutesStayApart, SamplesInit, SamplesStep, PTL DEF SafeSpec

-----------------------------------------------------------------------------
(* Every step of the data path is a step of SampledStore, or none *)

\* What a step may do to a polled tag's entry: nothing, mark it invalid, or
\* show a sample that is no older than the last and no newer than the source's.
LEMMA ApplyShowsNext ==
  ASSUME TypeOK, SamplesInOrder, ApplyResponse
  PROVE  \E t \in TagId :
           /\ \A u \in TagId : u # t => store'[u] = store[u]
           /\ \/ store'[t] = [store[t] EXCEPT !.valid = FALSE]
              \/ \E v \in Nat :
                   /\ store'[t] = [value |-> v, valid |-> TRUE]
                   /\ t \in Polled => v \in 1 .. plant[t] /\ v >= store[t].value
  <1>1. acqHolding \in Response /\ acqHolding # NONE
    BY SampleTypes, AcquisitionAssumption DEF ApplyResponse
  <1>2. PICK t \in TagId, v \in Nat : t = acqHolding.tag /\ v = acqHolding.value
    BY <1>1 DEF Response
  <1>3. CASE acqHolding.ok
    <2>1. store' = [store EXCEPT ![t] = [value |-> v, valid |-> TRUE]]
      BY <1>2, <1>3 DEF ApplyResponse, StoreSample
    <2>2. t \in Polled => v \in 1 .. plant[t] /\ v >= store[t].value
      <3>1. plant[t] \in Nat /\ store[t].value \in Nat
        BY SampleTypes
      <3>. QED
        BY <1>1, <1>2, <1>3, <3>1
        DEF SamplesInOrder, SamplesOfTagInOrder, Sample, Follows
    <2>. QED
      BY <2>1, <2>2, SampleTypes
  <1>4. CASE ~acqHolding.ok
    <2>1. store' = [store EXCEPT ![t].valid = FALSE]
      BY <1>2, <1>4 DEF ApplyResponse, MarkInvalid
    <2>. QED
      BY <2>1, SampleTypes
  <1>. QED
    BY <1>3, <1>4

\* Only ApplyResponse writes the store, and only the environment changes what
\* the sources show.
LEMMA OthersKeepStore ==
  ASSUME [Next]_vars
  PROVE  \/ ApplyResponse /\ plant' = plant
         \/ SourceChanges /\ store' = store
         \/ UNCHANGED <<store, plant>>
  BY DEF Next, vars, Acquire, AcquisitionTask, BeginTurn, ScanTag,
     ReceiveResponse, ReceiveTimeout, Dispatch, DispatchRequest, Transact,
     TransactRead, TransactWrite, Callback, ModbusCallback, Subscribe,
     Environment, acqVars, modbusVars

\* A polled tag never goes back to an older sample.
THEOREM SamplesMonotone == SafeSpec => SamplesNeverGoBack
  <1>1. TypeOK /\ SamplesInOrder /\ [Next]_vars
          => [\A t \in Polled : store'[t].value >= store[t].value]_store
    <2> SUFFICES ASSUME TypeOK, SamplesInOrder, [Next]_vars, store' # store,
                        NEW t \in Polled
                 PROVE  store'[t].value >= store[t].value
      OBVIOUS
    <2>1. t \in TagId /\ store[t].value \in Nat
      BY SampleTypes DEF Polled
    <2>2. ApplyResponse
      BY OthersKeepStore
    <2>3. PICK u \in TagId :
            /\ \A w \in TagId : w # u => store'[w] = store[w]
            /\ \/ store'[u] = [store[u] EXCEPT !.valid = FALSE]
               \/ \E v \in Nat :
                    /\ store'[u] = [value |-> v, valid |-> TRUE]
                    /\ u \in Polled => v \in 1 .. plant[u] /\ v >= store[u].value
      BY <2>2, ApplyShowsNext
    <2>4. store[t] \in [value : Nat, valid : BOOLEAN]
      BY <2>1, SampleTypes
    <2>5. CASE u = t /\ store'[t] = [store[t] EXCEPT !.valid = FALSE]
      <3>1. store'[t].value = store[t].value
        BY <2>4, <2>5
      <3>. QED
        BY <2>1, <3>1
    <2>6. CASE u = t /\ \E v \in Nat : /\ store'[t] = [value |-> v, valid |-> TRUE]
                                     /\ v >= store[t].value
      BY <2>1, <2>6
    <2>7. CASE u # t
      BY <2>1, <2>3, <2>7
    <2>. QED
      BY <2>3, <2>5, <2>6, <2>7
  <1>. QED
    BY <1>1, TypeCorrect, SamplesStayInOrder, PTL DEF SafeSpec, SamplesNeverGoBack

\* The data path implements SampledStore: each step shows a tag a sample of
\* its source that is no older than the last, or marks it invalid, or is a
\* change of the source, or changes nothing SampledStore sees.
THEOREM DataPathImplementsSampledStore == SafeSpec => ImplementsSampledStore
  <1>1. Init => Sampled!Init
    BY DEF Init, TagRuntimeInit, ModbusInit, Sampled!Init, Polled
  <1>2. TypeOK /\ SamplesInOrder /\ [Next]_vars => [Sampled!Next]_Sampled!vars
    <2> SUFFICES ASSUME TypeOK, SamplesInOrder, [Next]_vars
                 PROVE  [Sampled!Next]_Sampled!vars
      OBVIOUS
    <2>1. CASE ApplyResponse /\ plant' = plant
      <3>1. PICK t \in TagId :
              /\ \A u \in TagId : u # t => store'[u] = store[u]
              /\ \/ store'[t] = [store[t] EXCEPT !.valid = FALSE]
                 \/ \E v \in Nat :
                      /\ store'[t] = [value |-> v, valid |-> TRUE]
                      /\ t \in Polled => v \in 1 .. plant[t] /\ v >= store[t].value
        BY <2>1, ApplyShowsNext
      <3>2. [u \in Polled |-> plant[u]]' = [u \in Polled |-> plant[u]]
        BY <2>1
      <3>3. CASE t \notin Polled
        <4>1. [u \in Polled |-> store[u]]' = [u \in Polled |-> store[u]]
          BY <3>1, <3>3 DEF Polled
        <4>. QED
          BY <3>2, <4>1 DEF Sampled!vars
      <3>4. CASE t \in Polled /\ store'[t] = [store[t] EXCEPT !.valid = FALSE]
        <4>1. [u \in Polled |-> store[u]]'
                = [[u \in Polled |-> store[u]] EXCEPT ![t].valid = FALSE]
          BY <3>1, <3>4 DEF Polled
        <4>2. Sampled!Invalidate(t)
          BY <3>2, <4>1 DEF Sampled!Invalidate
        <4>. QED
          BY <3>4, <4>2 DEF Sampled!Next
      <3>5. ASSUME t \in Polled,
                   NEW v \in Nat,
                   store'[t] = [value |-> v, valid |-> TRUE],
                   v \in 1 .. plant[t], v >= store[t].value
            PROVE  Sampled!Show(t)
        <4>1. [u \in Polled |-> store[u]]'
                = [[u \in Polled |-> store[u]]
                     EXCEPT ![t] = [value |-> v, valid |-> TRUE]]
          BY <3>1, <3>5 DEF Polled
        <4>. QED
          BY <3>2, <3>5, <4>1 DEF Sampled!Show
      <3>. QED
        BY <3>1, <3>3, <3>4, <3>5 DEF Sampled!Next
    <2>2. CASE SourceChanges /\ store' = store
      <3>1. PICK t \in Polled : plant' = [plant EXCEPT ![t] = @ + 1]
        BY <2>2 DEF SourceChanges
      <3>2. [u \in Polled |-> plant[u]]'
              = [[u \in Polled |-> plant[u]] EXCEPT ![t] = @ + 1]
        BY <3>1, SampleTypes DEF Polled
      <3>3. [u \in Polled |-> store[u]]' = [u \in Polled |-> store[u]]
        BY <2>2
      <3>. QED
        BY <3>2, <3>3 DEF Sampled!Next, Sampled!Produce
    <2>3. CASE UNCHANGED <<store, plant>>
      BY <2>3 DEF Sampled!vars
    <2>. QED
      BY <2>1, <2>2, <2>3, OthersKeepStore
  <1>. QED
    BY <1>1, <1>2, TypeCorrect, SamplesStayInOrder, PTL
    DEF SafeSpec, ImplementsSampledStore, Sampled!Spec

=============================================================================
