--------------------------- MODULE Commands_proofs ---------------------------
(***************************************************************************)
(* Proofs about the commands in DataPath, from the broker to the devices,  *)
(* for every registry, capacity and bound: what a device carries out was   *)
(* asked for by a message, in the order of the messages, once.             *)
(***************************************************************************)
EXTENDS DataPath_proofs

----------------------------------------------------------------------------
(* The inductive invariant *)

\* The numbers of the commands in a queue of requests, and of messages.
Writes(q) == {q[i].value : i \in {j \in DOMAIN q : q[j].operation = "WRITE"}}
Numbers(q) == {q[i].number : i \in DOMAIN q}

\* The stages of a command's way, the last first; what has yet to come counts
\* as a stage.
Stage ==
  <<Writes(executed),
    Writes(modbusQueue),
    IF dispHolding # NONE /\ dispHolding.operation = "WRITE"
      THEN {dispHolding.value} ELSE {},
    Writes(dispQueue),
    IF subHolding # NONE THEN {subHolding.number} ELSE {},
    Numbers(subQueue),
    {n \in Nat : n > Len(arrived)}>>

Before(S, T) == \A m \in S, n \in T : m < n

\* Commands are at the later stages the earlier they arrived.
StagesInOrder(stage) ==
  \A j, k \in 1 .. 7 : j < k => Before(stage[j], stage[k])

\* And so they are within a queue.
Rising(q) ==
  \A i, j \in DOMAIN q :
    i < j /\ q[i].operation = "WRITE" /\ q[j].operation = "WRITE"
      => q[i].value < q[j].value
RisingMessages(q) == \A i, j \in DOMAIN q : i < j => q[i].number < q[j].number

QueuesInOrder ==
  /\ Rising(executed) /\ Rising(modbusQueue) /\ Rising(dispQueue)
  /\ RisingMessages(subQueue)

OnlyWritesExecuted == \A i \in DOMAIN executed : executed[i].operation = "WRITE"

\* A message is kept as it arrived, and a command is what one asked for.
Arrived(m) == m.number \in DOMAIN arrived /\ arrived[m.number] = m
AskedFor(r) ==
  r.operation = "WRITE" =>
    /\ r.value \in DOMAIN arrived
    /\ arrived[r.value].topic = r.tag
    /\ arrived[r.value].wellFormed
    /\ r.tag \in Commandable

AllAskedFor ==
  /\ \A i \in DOMAIN subQueue : Arrived(subQueue[i])
  /\ subHolding # NONE => Arrived(subHolding)
  /\ \A i \in DOMAIN dispQueue : AskedFor(dispQueue[i])
  /\ dispHolding # NONE => AskedFor(dispHolding)
  /\ \A i \in DOMAIN modbusQueue : AskedFor(modbusQueue[i])
  /\ \A i \in DOMAIN executed : AskedFor(executed[i])

CommandsInv ==
  StagesInOrder(Stage) /\ QueuesInOrder /\ OnlyWritesExecuted /\ AllAskedFor

----------------------------------------------------------------------------
(* Queues of commands *)

LEMMA TakeFirst ==
  ASSUME NEW q \in Seq(Request), q # <<>>, Rising(q)
  PROVE  /\ Rising(Tail(q)) /\ Writes(Tail(q)) \subseteq Writes(q)
         /\ Head(q).operation = "WRITE" =>
              /\ Head(q).value \in Writes(q)
              /\ \A n \in Writes(Tail(q)) : Head(q).value < n
<1>1. /\ \A i \in DOMAIN Tail(q) : i + 1 \in DOMAIN q /\ Tail(q)[i] = q[i + 1] /\ i \in Nat \ {0}
      /\ 1 \in DOMAIN q /\ Head(q) = q[1]
  OBVIOUS
<1>2. Rising(Tail(q))
  BY <1>1 DEF Rising
<1>3. Writes(Tail(q)) \subseteq Writes(q)
  BY <1>1 DEF Writes
<1>4. ASSUME Head(q).operation = "WRITE", NEW n \in Writes(Tail(q))
      PROVE  Head(q).value < n
  BY <1>1, <1>4 DEF Writes, Rising
<1>5. Head(q).operation = "WRITE" => Head(q).value \in Writes(q)
  BY <1>1 DEF Writes
<1> QED
  BY <1>2, <1>3, <1>4, <1>5

LEMMA PutLast ==
  ASSUME NEW q \in Seq(Request), NEW r \in Request, Rising(q),
         r.operation = "WRITE" => \A n \in Writes(q) : n < r.value
  PROVE  /\ Rising(Append(q, r))
         /\ Writes(Append(q, r)) =
              Writes(q) \cup (IF r.operation = "WRITE" THEN {r.value} ELSE {})
<1> DEFINE p == Append(q, r)
<1>1. /\ DOMAIN p = DOMAIN q \cup {Len(q) + 1} /\ p[Len(q) + 1] = r
      /\ \A i \in DOMAIN q : p[i] = q[i] /\ i \in Nat /\ i <= Len(q)
      /\ Len(q) \in Nat
  OBVIOUS
<1> HIDE DEF p
<1>2. Rising(p)
  <2> SUFFICES ASSUME NEW i \in DOMAIN p, NEW j \in DOMAIN p, i < j,
                      p[i].operation = "WRITE", p[j].operation = "WRITE"
               PROVE  p[i].value < p[j].value
    BY DEF Rising
  <2>1. i \in DOMAIN q
    BY <1>1
  <2>2. p[i].value \in Writes(q)
    BY <1>1, <2>1 DEF Writes
  <2> QED
    BY <1>1, <2>1, <2>2 DEF Rising
<1>3. Writes(p) = Writes(q) \cup (IF r.operation = "WRITE" THEN {r.value} ELSE {})
  BY <1>1 DEF Writes
<1> QED
  BY <1>2, <1>3 DEF p

\* The same of messages.
LEMMA TakeFirstMessage ==
  ASSUME NEW q \in Seq(Message), q # <<>>, RisingMessages(q)
  PROVE  /\ RisingMessages(Tail(q)) /\ Numbers(Tail(q)) \subseteq Numbers(q)
         /\ Head(q).number \in Numbers(q)
         /\ \A n \in Numbers(Tail(q)) : Head(q).number < n
<1>1. /\ \A i \in DOMAIN Tail(q) : i + 1 \in DOMAIN q /\ Tail(q)[i] = q[i + 1] /\ i \in Nat \ {0}
      /\ 1 \in DOMAIN q /\ Head(q) = q[1]
  OBVIOUS
<1>2. RisingMessages(Tail(q))
  BY <1>1 DEF RisingMessages
<1>3. \A n \in Numbers(Tail(q)) : Head(q).number < n
  BY <1>1 DEF Numbers, RisingMessages
<1> QED
  BY <1>1, <1>2, <1>3 DEF Numbers

LEMMA PutLastMessage ==
  ASSUME NEW q \in Seq(Message), NEW m \in Message, RisingMessages(q),
         \A n \in Numbers(q) : n < m.number
  PROVE  /\ RisingMessages(Append(q, m))
         /\ Numbers(Append(q, m)) = Numbers(q) \cup {m.number}
<1> DEFINE p == Append(q, m)
<1>1. /\ DOMAIN p = DOMAIN q \cup {Len(q) + 1} /\ p[Len(q) + 1] = m
      /\ \A i \in DOMAIN q : p[i] = q[i] /\ i \in Nat /\ i <= Len(q)
      /\ Len(q) \in Nat
  OBVIOUS
<1> HIDE DEF p
<1>2. RisingMessages(p)
  BY <1>1 DEF RisingMessages, Numbers
<1>3. Numbers(p) = Numbers(q) \cup {m.number}
  BY <1>1 DEF Numbers
<1> QED
  BY <1>2, <1>3 DEF p

\* A command that moves from the front of stage k + 1 to the end of stage k
\* leaves the stages in order, and so does one that is lost on the way.
LEMMA Moves ==
  ASSUME NEW S, NEW T, NEW k \in 1 .. 6, NEW n,
         StagesInOrder(S),
         \A j \in 1 .. 7 \ {k} : T[j] \subseteq S[j],
         T[k] \subseteq S[k] \cup {n},
         n \in S[k + 1], \A m \in T[k + 1] : n < m
  PROVE  StagesInOrder(T)
<1> SUFFICES ASSUME NEW i \in 1 .. 7, NEW j \in 1 .. 7, i < j,
                    NEW a \in T[i], NEW b \in T[j]
             PROVE  a < b
  BY DEF StagesInOrder, Before
<1>1. CASE a \in S[i] /\ b \in S[j]
  BY <1>1 DEF StagesInOrder, Before
<1>2. CASE a \notin S[i]
  <2>1. i = k /\ a = n
    BY <1>2
  <2>2. CASE j = k + 1
    BY <2>1, <2>2
  <2>3. CASE j # k + 1
    <3>1. k + 1 \in 1 .. 7 /\ k + 1 < j /\ b \in S[j]
      BY <2>1, <2>3
    <3> QED
      BY <2>1, <3>1 DEF StagesInOrder, Before
  <2> QED
    BY <2>2, <2>3
<1>3. CASE b \notin S[j]
  <2>1. j = k /\ b = n /\ a \in S[i] /\ i < k + 1 /\ k + 1 \in 1 .. 7
    BY <1>3
  <2> QED
    BY <2>1 DEF StagesInOrder, Before
<1> QED
  BY <1>1, <1>2, <1>3

\* Where no command moves, none may appear.
LEMMA Stays ==
  ASSUME NEW S, NEW T, StagesInOrder(S), \A j \in 1 .. 7 : T[j] \subseteq S[j]
  PROVE  StagesInOrder(T)
  BY DEF StagesInOrder, Before

----------------------------------------------------------------------------
(* The steps *)

commandVars ==
  <<executed, modbusQueue, dispHolding, dispQueue, subHolding, subQueue, arrived>>

LEMMA Types ==
  ASSUME TypeOK
  PROVE  /\ executed \in Seq(Request) /\ modbusQueue \in Seq(Request)
         /\ dispQueue \in Seq(Request)
         /\ dispHolding # NONE => dispHolding \in Request
         /\ subQueue \in Seq(Message) /\ arrived \in Seq(Message)
         /\ subHolding # NONE => subHolding \in Message
  BY DEF TypeOK

LEMMA Untouched == CommandsInv /\ UNCHANGED commandVars => CommandsInv'
  BY DEF CommandsInv, commandVars, StagesInOrder, Stage, Writes, Numbers, Before,
     QueuesInOrder, Rising, RisingMessages, OnlyWritesExecuted, AllAskedFor,
     Arrived, AskedFor

LEMMA Initially == Init => CommandsInv
<1> SUFFICES ASSUME Init PROVE CommandsInv
  OBVIOUS
<1>1. /\ executed = <<>> /\ modbusQueue = <<>> /\ dispQueue = <<>> /\ subQueue = <<>>
      /\ dispHolding = NONE /\ subHolding = NONE
  BY DEF Init, ModbusInit, DispatcherInit, SubscriberInit
<1>2. \A j \in 1 .. 6 : Stage[j] = {}
  BY <1>1 DEF Stage, Writes, Numbers
<1>3. StagesInOrder(Stage)
  BY <1>2 DEF StagesInOrder, Before
<1> QED
  BY <1>1, <1>3
  DEF CommandsInv, QueuesInOrder, Rising, RisingMessages, OnlyWritesExecuted,
      AllAskedFor

\* The scan puts a read into the queue, or nothing.
LEMMA CommandsAcquire == TypeOK /\ CommandsInv /\ Acquire => CommandsInv'
<1> SUFFICES ASSUME TypeOK, CommandsInv, Acquire PROVE CommandsInv'
  OBVIOUS
<1>1. UNCHANGED <<executed, modbusQueue, dispHolding, subHolding, subQueue, arrived>>
  BY DEF Acquire, modbusVars, subVars
<1>2. CASE dispQueue' = dispQueue
  BY <1>1, <1>2, Untouched DEF commandVars
<1>3. CASE dispQueue' # dispQueue
  <2>1. PICK r \in Request : dispQueue' = Append(dispQueue, r) /\ r.operation = "READ"
    <3>1. ScanTag
      BY <1>3 DEF Acquire, AcquisitionTask, BeginTurn, ReceiveResponse, ReceiveTimeout,
         ApplyResponse
    <3>2. tag_get_at(scanIdx) \in TagId
      BY <3>1, RegistryAssumption DEF TypeOK, tag_get_at, tag_count
    <3>3. ReadRequest(tag_get_at(scanIdx)) \in Request
      BY <3>2 DEF ReadRequest, Request
    <3> QED
      BY <1>3, <3>1, <3>3 DEF ScanTag, protocol_dispatcher_post, ReadRequest
  <2>2. dispQueue \in Seq(Request) /\ Rising(dispQueue)
    BY Types DEF CommandsInv, QueuesInOrder
  <2>3. Rising(dispQueue)' /\ Writes(dispQueue)' = Writes(dispQueue)
    BY <2>1, <2>2, PutLast
  <2>4. \A j \in 1 .. 7 : Stage'[j] \subseteq Stage[j]
    BY <1>1, <2>3 DEF Stage
  <2>5. StagesInOrder(Stage)'
    BY <2>4, Stays DEF CommandsInv, StagesInOrder, Before
  <2>6. \A i \in DOMAIN dispQueue' : AskedFor(dispQueue'[i])
    <3>1. \A i \in DOMAIN dispQueue : AskedFor(dispQueue[i])
      BY DEF CommandsInv, AllAskedFor
    <3>2. AskedFor(r)
      BY <2>1 DEF AskedFor
    <3> QED
      BY <1>1, <2>1, <2>2, <3>1, <3>2
  <2> QED
    BY <1>1, <2>3, <2>5, <2>6
    DEF CommandsInv, QueuesInOrder, Rising, RisingMessages, OnlyWritesExecuted,
        AllAskedFor, Arrived, AskedFor
<1> QED
  BY <1>2, <1>3

LEMMA CommandsReceive ==
  TypeOK /\ CommandsInv /\ ReceiveRequest /\ UNCHANGED <<store, acqVars, modbusVars, subVars>>
    => CommandsInv'
<1> SUFFICES ASSUME TypeOK, CommandsInv, ReceiveRequest,
                    UNCHANGED <<store, acqVars, modbusVars, subVars>>
             PROVE  CommandsInv'
  OBVIOUS
<1>1. /\ UNCHANGED <<executed, modbusQueue, subHolding, subQueue, arrived>>
      /\ dispHolding = NONE /\ dispQueue # <<>>
      /\ dispHolding' = Head(dispQueue) /\ dispQueue' = Tail(dispQueue)
  BY DEF ReceiveRequest, modbusVars, subVars
<1>2. dispQueue \in Seq(Request) /\ Rising(dispQueue)
  BY Types DEF CommandsInv, QueuesInOrder
<1>3. Rising(dispQueue)'
  BY <1>1, <1>2, TakeFirst DEF Rising
<1>4. StagesInOrder(Stage)
  BY DEF CommandsInv
<1>5. StagesInOrder(Stage')
  <2> DEFINE n == Head(dispQueue).value
  <2>1. Writes(Tail(dispQueue)) \subseteq Writes(dispQueue)
    BY <1>1, <1>2, TakeFirst
  <2>2. CASE Head(dispQueue).operation = "WRITE"
    <3>1. n \in Writes(dispQueue) /\ \A m \in Writes(Tail(dispQueue)) : n < m
      BY <1>1, <1>2, <2>2, TakeFirst
    <3>2. n \in Stage[4] /\ \A m \in Stage'[4] : n < m
      BY <1>1, <3>1 DEF Stage
    <3>3. Stage'[3] \subseteq Stage[3] \cup {n}
      BY <1>1 DEF Stage
    <3>4. \A j \in 1 .. 7 \ {3} : Stage'[j] \subseteq Stage[j]
      BY <1>1, <2>1 DEF Stage
    <3> HIDE DEF n
    <3> QED
      BY <1>4, <3>2, <3>3, <3>4, Moves
  <2>3. CASE Head(dispQueue).operation # "WRITE"
    <3>1. \A j \in 1 .. 7 : Stage'[j] \subseteq Stage[j]
      BY <1>1, <2>1, <2>3 DEF Stage
    <3> QED
      BY <1>4, <3>1, Stays
  <2> QED
    BY <2>2, <2>3
<1>6. AllAskedFor'
  <2>1. \A i \in DOMAIN Tail(dispQueue) :
          i + 1 \in DOMAIN dispQueue /\ Tail(dispQueue)[i] = dispQueue[i + 1]
    BY <1>1, <1>2
  <2>2. 1 \in DOMAIN dispQueue /\ Head(dispQueue) = dispQueue[1]
    BY <1>1, <1>2
  <2> QED
    BY <1>1, <2>1, <2>2 DEF CommandsInv, AllAskedFor, AskedFor, Arrived
<1> QED
  BY <1>1, <1>3, <1>5, <1>6
  DEF CommandsInv, QueuesInOrder, Rising, RisingMessages, OnlyWritesExecuted,
      StagesInOrder, Before

LEMMA CommandsRoute == TypeOK /\ CommandsInv /\ DispatchRequest => CommandsInv'
<1> SUFFICES ASSUME TypeOK, CommandsInv, DispatchRequest PROVE CommandsInv'
  OBVIOUS
<1>1. /\ UNCHANGED <<executed, dispQueue, subHolding, subQueue, arrived>>
      /\ dispHolding # NONE /\ dispHolding' = NONE
  BY DEF DispatchRequest, subVars
<1>2. /\ modbusQueue \in Seq(Request) /\ Rising(modbusQueue)
      /\ dispHolding \in Request /\ AskedFor(dispHolding)
  BY <1>1, Types DEF CommandsInv, QueuesInOrder, AllAskedFor
<1>3. StagesInOrder(Stage)
  BY DEF CommandsInv
<1>4. modbusQueue' = modbusQueue \/ modbusQueue' = Append(modbusQueue, dispHolding)
  BY DEF DispatchRequest, RouteModbus, RouteSystem, RouteCan, modbus_request
<1>5. CASE modbusQueue' = modbusQueue
  <2>1. \A j \in 1 .. 7 : Stage'[j] \subseteq Stage[j]
    BY <1>1, <1>5 DEF Stage, Writes, Numbers
  <2>2. StagesInOrder(Stage')
    BY <1>3, <2>1, Stays
  <2> QED
    BY <1>1, <1>5, <2>2
    DEF CommandsInv, QueuesInOrder, Rising, RisingMessages, OnlyWritesExecuted,
        StagesInOrder, Before, AllAskedFor, AskedFor, Arrived
<1>6. CASE modbusQueue' = Append(modbusQueue, dispHolding)
  <2> DEFINE n == dispHolding.value
  <2>1. dispHolding.operation = "WRITE" => \A m \in Writes(modbusQueue) : m < n
    <3>1. dispHolding.operation = "WRITE" => n \in Stage[3]
      BY <1>1 DEF Stage
    <3>2. Stage[2] = Writes(modbusQueue)
      BY DEF Stage
    <3>3. Before(Stage[2], Stage[3])
      BY <1>3 DEF StagesInOrder
    <3> QED
      BY <3>1, <3>2, <3>3 DEF Before
  <2>2. /\ Rising(Append(modbusQueue, dispHolding))
        /\ Writes(Append(modbusQueue, dispHolding)) =
             Writes(modbusQueue)
               \cup (IF dispHolding.operation = "WRITE" THEN {n} ELSE {})
    BY <1>2, <2>1, PutLast
  <2>3. StagesInOrder(Stage')
    <3>1. Stage'[3] = {}
      BY <1>1 DEF Stage
    <3>2. \A j \in 1 .. 7 \ {2} : Stage'[j] \subseteq Stage[j]
      BY <1>1 DEF Stage, Writes, Numbers
    <3>3. Stage'[2] = Writes(Append(modbusQueue, dispHolding)) /\ Stage[2] = Writes(modbusQueue)
      BY <1>6 DEF Stage, Writes
    <3>4. CASE dispHolding.operation = "WRITE"
      <4>1. n \in Stage[3] /\ Stage'[2] \subseteq Stage[2] \cup {n}
        BY <1>1, <2>2, <3>3, <3>4 DEF Stage
      <4> HIDE DEF n
      <4> QED
        BY <1>3, <3>1, <3>2, <4>1, Moves
    <3>5. CASE dispHolding.operation # "WRITE"
      <4>1. \A j \in 1 .. 7 : Stage'[j] \subseteq Stage[j]
        BY <2>2, <3>2, <3>3, <3>5
      <4> QED
        BY <1>3, <4>1, Stays
    <3> QED
      BY <3>4, <3>5
  <2>4. \A i \in DOMAIN modbusQueue' : AskedFor(modbusQueue'[i])
    BY <1>2, <1>6 DEF CommandsInv, AllAskedFor
  <2> QED
    BY <1>1, <1>6, <2>2, <2>3, <2>4
    DEF CommandsInv, QueuesInOrder, Rising, RisingMessages, OnlyWritesExecuted,
        StagesInOrder, Before, AllAskedFor, AskedFor, Arrived
<1> QED
  BY <1>4, <1>5, <1>6

\* A write is carried out once, or not at all.
LEMMA CommandsTransact == TypeOK /\ CommandsInv /\ Transact => CommandsInv'
<1> SUFFICES ASSUME TypeOK, CommandsInv, Transact PROVE CommandsInv'
  OBVIOUS
<1> DEFINE h == Head(modbusQueue)
           n == h.value
<1>1. /\ UNCHANGED <<dispHolding, dispQueue, subHolding, subQueue, arrived>>
      /\ modbusQueue # <<>> /\ modbusQueue' = Tail(modbusQueue)
      /\ \/ executed' = executed
         \/ executed' = Append(executed, h) /\ h.operation = "WRITE"
  BY DEF Transact, TransactRead, TransactWrite, dispVars, subVars
<1>2. /\ modbusQueue \in Seq(Request) /\ Rising(modbusQueue)
      /\ executed \in Seq(Request) /\ Rising(executed)
  BY Types DEF CommandsInv, QueuesInOrder
<1>3. StagesInOrder(Stage)
  BY DEF CommandsInv
<1>4. /\ Rising(Tail(modbusQueue)) /\ Writes(Tail(modbusQueue)) \subseteq Writes(modbusQueue)
      /\ h.operation = "WRITE" =>
           n \in Writes(modbusQueue) /\ \A m \in Writes(Tail(modbusQueue)) : n < m
  BY <1>1, <1>2, TakeFirst
<1>5. /\ \A i \in DOMAIN Tail(modbusQueue) :
           i + 1 \in DOMAIN modbusQueue /\ Tail(modbusQueue)[i] = modbusQueue[i + 1]
      /\ 1 \in DOMAIN modbusQueue /\ h = modbusQueue[1] /\ h \in Request
  BY <1>1, <1>2
<1>6. AskedFor(h) /\ \A i \in DOMAIN Tail(modbusQueue) : AskedFor(Tail(modbusQueue)[i])
  BY <1>5 DEF CommandsInv, AllAskedFor
<1>7. CASE executed' = executed
  <2>1. \A j \in 1 .. 7 : Stage'[j] \subseteq Stage[j]
    BY <1>1, <1>4, <1>7 DEF Stage
  <2>2. StagesInOrder(Stage')
    BY <1>3, <2>1, Stays
  <2> HIDE DEF h
  <2> QED
    BY <1>1, <1>4, <1>6, <1>7, <2>2
    DEF CommandsInv, QueuesInOrder, Rising, RisingMessages, OnlyWritesExecuted,
        StagesInOrder, Before, AllAskedFor, AskedFor, Arrived
<1>8. CASE executed' = Append(executed, h) /\ h.operation = "WRITE"
  <2>1. \A m \in Writes(executed) : m < n
    <3>1. n \in Stage[2] /\ Stage[1] = Writes(executed)
      BY <1>4, <1>8 DEF Stage
    <3>2. Before(Stage[1], Stage[2])
      BY <1>3 DEF StagesInOrder
    <3> QED
      BY <3>1, <3>2 DEF Before
  <2>2. /\ Rising(Append(executed, h))
        /\ Writes(Append(executed, h)) = Writes(executed) \cup {n}
    BY <1>2, <1>5, <1>8, <2>1, PutLast
  <2>3. StagesInOrder(Stage')
    <3>1. n \in Stage[2] /\ \A m \in Stage'[2] : n < m
      BY <1>1, <1>4, <1>8 DEF Stage, Writes
    <3>2. Stage'[1] \subseteq Stage[1] \cup {n}
      BY <1>8, <2>2 DEF Stage, Writes
    <3>3. \A j \in 1 .. 7 \ {1} : Stage'[j] \subseteq Stage[j]
      BY <1>1, <1>4 DEF Stage
    <3> HIDE DEF n
    <3> QED
      BY <1>3, <3>1, <3>2, <3>3, Moves
  <2>4. \A i \in DOMAIN executed' : AskedFor(executed'[i]) /\ executed'[i].operation = "WRITE"
    <3> HIDE DEF h
    <3> QED
      BY <1>2, <1>5, <1>6, <1>8 DEF CommandsInv, AllAskedFor, OnlyWritesExecuted
  <2> HIDE DEF h
  <2> QED
    BY <1>1, <1>4, <1>6, <1>8, <2>2, <2>3, <2>4
    DEF CommandsInv, QueuesInOrder, Rising, RisingMessages, OnlyWritesExecuted,
        StagesInOrder, Before, AllAskedFor, AskedFor, Arrived
<1> QED
  BY <1>1, <1>7, <1>8

LEMMA CommandsReceiveMessage ==
  TypeOK /\ CommandsInv /\ Subscribe /\ ReceiveMessage => CommandsInv'
<1> SUFFICES ASSUME TypeOK, CommandsInv, Subscribe, ReceiveMessage PROVE CommandsInv'
  OBVIOUS
<1> DEFINE n == Head(subQueue).number
<1>1. /\ UNCHANGED <<executed, modbusQueue, dispHolding, dispQueue, arrived>>
      /\ subQueue # <<>> /\ subHolding' = Head(subQueue) /\ subQueue' = Tail(subQueue)
  BY DEF Subscribe, ReceiveMessage, modbusVars
<1>2. subQueue \in Seq(Message) /\ RisingMessages(subQueue)
  BY Types DEF CommandsInv, QueuesInOrder
<1>3. StagesInOrder(Stage)
  BY DEF CommandsInv
<1>4. /\ RisingMessages(Tail(subQueue)) /\ Numbers(Tail(subQueue)) \subseteq Numbers(subQueue)
      /\ n \in Numbers(subQueue) /\ \A m \in Numbers(Tail(subQueue)) : n < m
  BY <1>1, <1>2, TakeFirstMessage
<1>5. StagesInOrder(Stage')
  <2>1. n \in Stage[6] /\ \A m \in Stage'[6] : n < m
    BY <1>1, <1>4 DEF Stage, Numbers
  <2>2. Stage'[5] \subseteq Stage[5] \cup {n}
    BY <1>1 DEF Stage
  <2>3. \A j \in 1 .. 7 \ {5} : Stage'[j] \subseteq Stage[j]
    <3>1. /\ Stage'[1] = Stage[1] /\ Stage'[2] = Stage[2] /\ Stage'[3] = Stage[3]
          /\ Stage'[4] = Stage[4] /\ Stage'[7] = Stage[7]
      BY <1>1 DEF Stage
    <3>2. Stage'[6] \subseteq Stage[6]
      BY <1>1, <1>4 DEF Stage, Numbers
    <3> QED
      BY <3>1, <3>2
  <2> HIDE DEF n
  <2> QED
    BY <1>3, <2>1, <2>2, <2>3, Moves
<1>6. /\ \A i \in DOMAIN Tail(subQueue) :
           i + 1 \in DOMAIN subQueue /\ Tail(subQueue)[i] = subQueue[i + 1]
      /\ 1 \in DOMAIN subQueue /\ Head(subQueue) = subQueue[1]
  BY <1>1, <1>2
<1>7. AllAskedFor'
  BY <1>1, <1>6 DEF CommandsInv, AllAskedFor, AskedFor, Arrived
<1> QED
  BY <1>1, <1>4, <1>5, <1>7
  DEF CommandsInv, QueuesInOrder, Rising, RisingMessages, OnlyWritesExecuted,
      StagesInOrder, Before

\* The checks of the subscriber make a message a command.
LEMMA CommandsHandle ==
  TypeOK /\ CommandsInv /\ Subscribe /\ HandleMessage => CommandsInv'
<1> SUFFICES ASSUME TypeOK, CommandsInv, Subscribe, HandleMessage PROVE CommandsInv'
  OBVIOUS
<1>1. /\ UNCHANGED <<executed, modbusQueue, dispHolding, subQueue, arrived>>
      /\ subHolding # NONE /\ subHolding' = NONE
  BY DEF Subscribe, HandleMessage, modbusVars
<1>2. /\ dispQueue \in Seq(Request) /\ Rising(dispQueue)
      /\ subHolding \in Message /\ Arrived(subHolding)
  BY <1>1, Types DEF CommandsInv, QueuesInOrder, AllAskedFor
<1>3. StagesInOrder(Stage)
  BY DEF CommandsInv
<1>4. CASE dispQueue' = dispQueue
  <2>1. \A j \in 1 .. 7 : Stage'[j] \subseteq Stage[j]
    BY <1>1, <1>4 DEF Stage, Writes, Numbers
  <2>2. StagesInOrder(Stage')
    BY <1>3, <2>1, Stays
  <2> QED
    BY <1>1, <1>4, <2>2
    DEF CommandsInv, QueuesInOrder, Rising, RisingMessages, OnlyWritesExecuted,
        StagesInOrder, Before, AllAskedFor, AskedFor, Arrived
<1>5. CASE dispQueue' # dispQueue
  <2> DEFINE r == WriteRequest(subHolding.topic, subHolding.number)
             n == subHolding.number
  <2>1. Accepted(subHolding) /\ dispQueue' = Append(dispQueue, r)
    BY <1>5 DEF HandleMessage, protocol_dispatcher_post
  <2>2. /\ subHolding.topic \in Commandable /\ subHolding.topic \in TagId
        /\ subHolding.wellFormed
    BY <2>1 DEF Accepted, tag_find_by_topic, Commandable
  <2>3. r \in Request /\ r.operation = "WRITE" /\ r.value = n /\ r.tag = subHolding.topic
    BY <1>2, <2>2 DEF WriteRequest, Request, Message
  <2>4. AskedFor(r)
    BY <1>2, <2>2, <2>3 DEF AskedFor, Arrived
  <2>5. n \in Stage[5] /\ Stage[4] = Writes(dispQueue)
    BY <1>1 DEF Stage
  <2>6. \A m \in Writes(dispQueue) : m < n
    <3>1. Before(Stage[4], Stage[5])
      BY <1>3 DEF StagesInOrder
    <3> QED
      BY <2>5, <3>1 DEF Before
  <2> HIDE DEF r, n
  <2>7. Rising(Append(dispQueue, r)) /\ Writes(Append(dispQueue, r)) = Writes(dispQueue) \cup {n}
    BY <1>2, <2>3, <2>6, PutLast
  <2>8. StagesInOrder(Stage')
    <3>1. Stage'[5] = {} /\ Stage'[4] \subseteq Stage[4] \cup {n}
      BY <1>1, <2>1, <2>7 DEF Stage, Writes
    <3>2. \A j \in 1 .. 7 \ {4} : Stage'[j] \subseteq Stage[j]
      BY <1>1 DEF Stage, Writes, Numbers
    <3> QED
      BY <1>3, <2>5, <3>1, <3>2, Moves
  <2>9. \A i \in DOMAIN dispQueue' : AskedFor(dispQueue'[i])
    BY <1>2, <2>1, <2>3, <2>4 DEF CommandsInv, AllAskedFor
  <2> QED
    BY <1>1, <2>1, <2>7, <2>8, <2>9
    DEF CommandsInv, QueuesInOrder, Rising, RisingMessages, OnlyWritesExecuted,
        StagesInOrder, Before, AllAskedFor, AskedFor, Arrived
<1> QED
  BY <1>4, <1>5

\* A message that arrives is the next by number.
LEMMA Arrival ==
  ASSUME TypeOK, MessageArrives
  PROVE  \E m \in Message :
           /\ m.number = Len(arrived) + 1
           /\ arrived' = Append(arrived, m)
           /\ subQueue' = IF Len(subQueue) < SubscriberCapacity
                          THEN Append(subQueue, m) ELSE subQueue
<1> DEFINE n == Len(arrived) + 1
<1>1. n \in Nat
  BY DEF TypeOK
<1>2. PICK kind \in Arrivals :
        LET m == [topic |-> kind.topic, wellFormed |-> kind.wellFormed, number |-> n]
        IN /\ arrived' = Append(arrived, m)
           /\ subQueue' = IF Len(subQueue) < SubscriberCapacity
                          THEN Append(subQueue, m) ELSE subQueue
  BY DEF MessageArrives
<1> DEFINE m == [topic |-> kind.topic, wellFormed |-> kind.wellFormed, number |-> n]
<1>3. m \in Message /\ m.number = n
  BY <1>1, SubscriberAssumption DEF Message
<1> QED
  BY <1>2, <1>3

LEMMA CommandsArrive ==
  TypeOK /\ CommandsInv /\ MessageArrives
    /\ UNCHANGED <<store, acqVars, dispHolding, modbusVars>> => CommandsInv'
<1> SUFFICES ASSUME TypeOK, CommandsInv, MessageArrives,
                    UNCHANGED <<store, acqVars, dispHolding, modbusVars>>
             PROVE  CommandsInv'
  OBVIOUS
<1>1. UNCHANGED <<executed, modbusQueue, dispHolding, dispQueue, subHolding>>
  BY DEF MessageArrives, modbusVars
<1>2. /\ subQueue \in Seq(Message) /\ RisingMessages(subQueue)
      /\ arrived \in Seq(Message) /\ Len(arrived) \in Nat
  BY Types DEF CommandsInv, QueuesInOrder
<1>3. StagesInOrder(Stage)
  BY DEF CommandsInv
<1> DEFINE n == Len(arrived) + 1
<1>4. PICK m \in Message :
        /\ m.number = n
        /\ arrived' = Append(arrived, m)
        /\ subQueue' = Append(subQueue, m) \/ subQueue' = subQueue
  BY Arrival
<1>5. /\ DOMAIN arrived' = DOMAIN arrived \cup {n} /\ arrived'[n] = m /\ Len(arrived') = n
      /\ \A i \in DOMAIN arrived : arrived'[i] = arrived[i]
      /\ n \in Nat
  BY <1>2, <1>4
<1>6. n \in Stage[7] /\ Stage[6] = Numbers(subQueue)
      /\ \A k \in Stage'[7] : n < k
  <2>1. n > Len(arrived)
    BY <1>2
  <2> QED
    BY <1>5, <2>1 DEF Stage
<1>7. \A k \in Numbers(subQueue) : k < n
  <2>1. Before(Stage[6], Stage[7])
    BY <1>3 DEF StagesInOrder
  <2> QED
    BY <1>6, <2>1 DEF Before
<1>8. Stage'[7] \subseteq Stage[7]
  BY <1>2, <1>5 DEF Stage
<1> HIDE DEF n
<1>9. /\ RisingMessages(subQueue')
      /\ Numbers(subQueue') \subseteq Numbers(subQueue) \cup {n}
  BY <1>2, <1>4, <1>7, PutLastMessage
<1>10. StagesInOrder(Stage')
  <2>1. \A j \in 1 .. 7 \ {6} : Stage'[j] \subseteq Stage[j]
    BY <1>1, <1>8 DEF Stage, Writes
  <2>2. Stage'[6] \subseteq Stage[6] \cup {n}
    BY <1>9 DEF Stage, Numbers
  <2> QED
    BY <1>3, <1>6, <2>1, <2>2, Moves
<1>11. /\ \A r : AskedFor(r) => AskedFor(r)'
       /\ \A k : Arrived(k) => Arrived(k)'
  BY <1>5 DEF AskedFor, Arrived
<1>12. Arrived(m)'
  BY <1>4, <1>5 DEF Arrived
<1>13. AllAskedFor'
  <2> DEFINE Kept(k) == k.number \in DOMAIN arrived' /\ arrived'[k.number] = k
  <2>1. \A i \in DOMAIN subQueue : Kept(subQueue[i])
    BY <1>5 DEF CommandsInv, AllAskedFor, Arrived
  <2>2. Kept(m)
    BY <1>12 DEF Arrived
  <2>3. \A i \in DOMAIN subQueue' : Kept(subQueue'[i])
    <3>1. \A i \in DOMAIN subQueue' :
            \/ subQueue'[i] = m
            \/ i \in DOMAIN subQueue /\ subQueue'[i] = subQueue[i]
      <4>1. \A i \in DOMAIN Append(subQueue, m) :
              \/ Append(subQueue, m)[i] = m
              \/ i \in DOMAIN subQueue /\ Append(subQueue, m)[i] = subQueue[i]
        BY <1>2
      <4> QED
        BY <1>4, <4>1
    <3> HIDE DEF Kept
    <3> QED
      BY <2>1, <2>2, <3>1
  <2>4. subHolding' # NONE => Kept(subHolding')
    BY <1>1, <1>5 DEF CommandsInv, AllAskedFor, Arrived
  <2>5. /\ \A i \in DOMAIN dispQueue : AskedFor(dispQueue[i])'
        /\ dispHolding # NONE => AskedFor(dispHolding)'
        /\ \A i \in DOMAIN modbusQueue : AskedFor(modbusQueue[i])'
        /\ \A i \in DOMAIN executed : AskedFor(executed[i])'
    BY <1>1, <1>5 DEF CommandsInv, AllAskedFor, AskedFor
  <2> QED
    BY <1>1, <2>3, <2>4, <2>5 DEF AllAskedFor, Arrived
<1> QED
  BY <1>1, <1>9, <1>10, <1>13
  DEF CommandsInv, QueuesInOrder, Rising, RisingMessages, OnlyWritesExecuted,
      StagesInOrder, Before

LEMMA CommandsStep == TypeOK /\ CommandsInv /\ [Next]_vars => CommandsInv'
<1> SUFFICES ASSUME TypeOK, CommandsInv, [Next]_vars PROVE CommandsInv'
  OBVIOUS
<1>1. CASE Callback
  BY <1>1, Untouched DEF Callback, ModbusCallback, dispVars, subVars, commandVars
<1>2. CASE SourceChanges /\ UNCHANGED <<store, acqVars, dispVars, subVars>>
  BY <1>2, Untouched DEF SourceChanges, dispVars, subVars, commandVars
<1>3. CASE UNCHANGED vars
  BY <1>3, Untouched DEF vars, dispVars, subVars, modbusVars, commandVars
<1> QED
  BY <1>1, <1>2, <1>3, CommandsAcquire, CommandsReceive, CommandsRoute,
     CommandsTransact, CommandsReceiveMessage, CommandsHandle, CommandsArrive
  DEF Next, Dispatch, Subscribe, SubscriberTask, Environment

LEMMA CommandsInvariance == SafeSpec => []CommandsInv
<1> QED
  BY TypeCorrect, Initially, CommandsStep, PTL DEF SafeSpec

\* The devices carry out commands in the order the broker delivered them, each
\* at most once.
THEOREM CommandsStayInOrder == SafeSpec => []CommandsInOrder
<1>1. CommandsInv => CommandsInOrder
  BY DEF CommandsInv, QueuesInOrder, Rising, OnlyWritesExecuted, CommandsInOrder
<1> QED
  BY <1>1, CommandsInvariance, PTL

\* What a device carries out is what a well formed message for a commandable
\* tag asked for.
THEOREM OnlyWhatWasAskedFor == SafeSpec => []OnlyCommandsExecuted
<1>1. CommandsInv => OnlyCommandsExecuted
  <2> SUFFICES ASSUME CommandsInv, NEW i \in DOMAIN executed
               PROVE  LET message == arrived[executed[i].value]
                      IN /\ message.topic = executed[i].tag
                         /\ message.wellFormed
                         /\ executed[i].tag \in Commandable
    BY DEF OnlyCommandsExecuted
  <2> QED
    BY DEF CommandsInv, OnlyWritesExecuted, AllAskedFor, AskedFor
<1> QED
  BY <1>1, CommandsInvariance, PTL

----------------------------------------------------------------------------
(* Where a command may be lost *)

Queued(c, q) == \E i \in DOMAIN q : q[i].value = c
QueuedMessage(c, q) == \E i \in DOMAIN q : q[i].number = c

LEMMA StaysQueued ==
  ASSUME NEW c, NEW q \in Seq(Request), NEW r \in Request,
         Queued(c, q) \/ r.value = c
  PROVE  Queued(c, Append(q, r))
<1> DEFINE p == Append(q, r)
<1>1. /\ \A i \in DOMAIN q : i \in DOMAIN p /\ p[i] = q[i]
      /\ Len(q) + 1 \in DOMAIN p /\ p[Len(q) + 1] = r
  OBVIOUS
<1> HIDE DEF p
<1>2. Queued(c, p)
  BY <1>1 DEF Queued
<1> QED
  BY <1>2 DEF p

LEMMA FirstOrQueued ==
  ASSUME NEW c, NEW q \in Seq(Request), q # <<>>, Queued(c, q)
  PROVE  Head(q).value = c \/ Queued(c, Tail(q))
<1>1. \A i \in DOMAIN q :
        \/ q[i] = Head(q)
        \/ i - 1 \in DOMAIN Tail(q) /\ Tail(q)[i - 1] = q[i]
  OBVIOUS
<1> QED
  BY <1>1 DEF Queued

\* The same of messages.
LEMMA MessageStays ==
  ASSUME NEW c, NEW q \in Seq(Message), NEW m \in Message, QueuedMessage(c, q)
  PROVE  QueuedMessage(c, Append(q, m))
<1> DEFINE p == Append(q, m)
<1>1. \A i \in DOMAIN q : i \in DOMAIN p /\ p[i] = q[i]
  OBVIOUS
<1> HIDE DEF p
<1>2. QueuedMessage(c, p)
  BY <1>1 DEF QueuedMessage
<1> QED
  BY <1>2 DEF p

LEMMA FirstOrStays ==
  ASSUME NEW c, NEW q \in Seq(Message), q # <<>>, QueuedMessage(c, q)
  PROVE  Head(q).number = c \/ QueuedMessage(c, Tail(q))
<1>1. \A i \in DOMAIN q :
        \/ q[i] = Head(q)
        \/ i - 1 \in DOMAIN Tail(q) /\ Tail(q)[i - 1] = q[i]
  OBVIOUS
<1> QED
  BY <1>1 DEF QueuedMessage

LEMMA Waiting ==
  ASSUME NEW c
  PROVE  CommandWaiting(c) <=>
           \/ QueuedMessage(c, subQueue)
           \/ subHolding # NONE /\ subHolding.number = c
           \/ Queued(c, dispQueue)
           \/ dispHolding # NONE /\ dispHolding.value = c
           \/ Queued(c, modbusQueue)
  BY DEF CommandWaiting, Queued, QueuedMessage

\* Every step but a loss keeps the command on its way.
LEMMA KeptOnItsWay ==
  ASSUME TypeOK, Next, NEW c, CommandWaiting(c), ~GivesUp(c),
         ~(/\ modbusReply = NONE /\ modbusReply' # NONE
           /\ modbusQueue # <<>> /\ Head(modbusQueue).value = c)
  PROVE  CommandWaiting(c)'
<1>w. CommandWaiting(c)' <=>
        \/ QueuedMessage(c, subQueue')
        \/ subHolding' # NONE /\ subHolding'.number = c
        \/ Queued(c, dispQueue')
        \/ dispHolding' # NONE /\ dispHolding'.value = c
        \/ Queued(c, modbusQueue')
  BY DEF CommandWaiting, Queued, QueuedMessage
<1>t. /\ modbusQueue \in Seq(Request) /\ dispQueue \in Seq(Request)
      /\ dispHolding # NONE => dispHolding \in Request
      /\ subQueue \in Seq(Message)
      /\ subHolding # NONE => subHolding \in Message
  BY Types
<1>1. CASE Acquire
  <2>1. UNCHANGED <<modbusQueue, dispHolding, subHolding, subQueue>>
    BY <1>1 DEF Acquire, modbusVars, subVars
  <2>2. Queued(c, dispQueue) => Queued(c, dispQueue')
    <3>1. dispQueue' = dispQueue \/ \E r \in Request : dispQueue' = Append(dispQueue, r)
      <4>1. CASE ScanTag
        <5>1. ReadRequest(tag_get_at(scanIdx)) \in Request
          BY <4>1, RegistryAssumption
          DEF TypeOK, tag_get_at, tag_count, ReadRequest, Request
        <5> QED
          BY <4>1, <5>1 DEF ScanTag, protocol_dispatcher_post
      <4> QED
        BY <1>1, <4>1 DEF Acquire, AcquisitionTask, BeginTurn, ReceiveResponse,
           ReceiveTimeout, ApplyResponse
    <3> QED
      BY <1>t, <3>1, StaysQueued
  <2> QED
    BY <1>w, <2>1, <2>2, Waiting
<1>2. CASE ReceiveRequest /\ UNCHANGED <<store, acqVars, modbusVars, subVars>>
  <2>1. /\ UNCHANGED <<modbusQueue, subHolding, subQueue>>
        /\ dispHolding = NONE /\ dispQueue # <<>>
        /\ dispHolding' = Head(dispQueue) /\ dispQueue' = Tail(dispQueue)
    BY <1>2 DEF ReceiveRequest, modbusVars, subVars
  <2>2. dispHolding' # NONE
    BY <1>t, <2>1, DispatcherAssumption
  <2>3. Queued(c, dispQueue) => dispHolding'.value = c \/ Queued(c, dispQueue')
    BY <1>t, <2>1, FirstOrQueued
  <2> QED
    BY <1>w, <2>1, <2>2, <2>3, Waiting
<1>3. CASE DispatchRequest
  <2>1. /\ UNCHANGED <<dispQueue, subHolding, subQueue>> /\ dispHolding # NONE
        /\ modbusQueue' = modbusQueue \/ modbusQueue' = Append(modbusQueue, dispHolding)
    BY <1>3 DEF DispatchRequest, RouteModbus, RouteSystem, RouteCan, modbus_request,
       subVars
  <2>2. Queued(c, modbusQueue) => Queued(c, modbusQueue')
    BY <1>t, <2>1, StaysQueued
  <2>3. dispHolding.value = c => Queued(c, modbusQueue')
    <3> SUFFICES ASSUME dispHolding.value = c PROVE Queued(c, modbusQueue')
      OBVIOUS
    <3>1. Sendable(dispHolding) /\ ModbusWaiting # ModbusQueueLimit
      BY <2>1 DEF GivesUp
    <3>2. modbusQueue' = Append(modbusQueue, dispHolding)
      <4>1. ModbusWaiting < ModbusQueueLimit
        BY <1>t, <3>1, ModbusAssumption DEF TypeOK, ModbusWaiting
      <4>2. RouteModbus
        BY <1>3, <3>1 DEF DispatchRequest, RouteSystem, RouteCan, Sendable
      <4> QED
        BY <3>1, <4>1, <4>2 DEF RouteModbus, modbus_request
    <3> QED
      BY <1>t, <2>1, <3>2, StaysQueued
  <2> QED
    BY <1>w, <2>1, <2>2, <2>3, Waiting
<1>4. CASE Transact
  <2>1. /\ UNCHANGED <<dispQueue, dispHolding, subHolding, subQueue>>
        /\ modbusQueue # <<>> /\ modbusQueue' = Tail(modbusQueue)
        /\ modbusReply = NONE
    BY <1>4 DEF Transact, TransactRead, TransactWrite, dispVars, subVars
  <2>2. modbusReply' # NONE
    BY <1>4, TransactReplies, AcquisitionAssumption
  <2>3. Queued(c, modbusQueue) => Queued(c, modbusQueue')
    BY <1>t, <2>1, <2>2, FirstOrQueued
  <2> QED
    BY <1>w, <2>1, <2>3, Waiting
<1>5. CASE Callback
  BY <1>w, <1>5, Waiting DEF Callback, ModbusCallback, dispVars, subVars
<1>6. CASE Subscribe /\ ReceiveMessage
  <2>1. /\ UNCHANGED <<modbusQueue, dispHolding, dispQueue>>
        /\ subHolding = NONE /\ subQueue # <<>>
        /\ subHolding' = Head(subQueue) /\ subQueue' = Tail(subQueue)
    BY <1>6 DEF Subscribe, ReceiveMessage, modbusVars
  <2>2. QueuedMessage(c, subQueue)
          => subHolding'.number = c \/ QueuedMessage(c, subQueue')
    BY <1>t, <2>1, FirstOrStays
  <2>3. subHolding' # NONE
    BY <1>t, <2>1, SubscriberAssumption
  <2> QED
    BY <1>w, <2>1, <2>2, <2>3, Waiting
<1>7. CASE Subscribe /\ HandleMessage
  <2> DEFINE r == WriteRequest(subHolding.topic, subHolding.number)
  <2>1. /\ UNCHANGED <<modbusQueue, dispHolding, subQueue>> /\ subHolding # NONE
        /\ dispQueue' = dispQueue \/ (Accepted(subHolding) /\ dispQueue' = Append(dispQueue, r))
    BY <1>7 DEF Subscribe, HandleMessage, protocol_dispatcher_post, modbusVars
  <2>2. Accepted(subHolding) => r \in Request /\ r.value = subHolding.number
    BY <1>t, <2>1 DEF Accepted, tag_find_by_topic, WriteRequest, Request, Message
  <2> HIDE DEF r
  <2>3. Queued(c, dispQueue) => Queued(c, dispQueue')
    BY <1>t, <2>1, <2>2, StaysQueued
  <2>4. subHolding.number = c => Queued(c, dispQueue')
    <3> SUFFICES ASSUME subHolding.number = c PROVE Queued(c, dispQueue')
      OBVIOUS
    <3>1. Accepted(subHolding) /\ Len(dispQueue) # DispatchCapacity
      BY <2>1 DEF GivesUp
    <3>2. Len(dispQueue) < DispatchCapacity
      BY <1>t, <3>1, DispatcherAssumption DEF TypeOK
    <3>3. dispQueue' = Append(dispQueue, r)
      BY <1>7, <3>1, <3>2 DEF HandleMessage, protocol_dispatcher_post, r
    <3> QED
      BY <1>t, <2>2, <3>1, <3>3, StaysQueued
  <2> QED
    BY <1>w, <2>1, <2>3, <2>4, Waiting
<1>8. CASE SourceChanges /\ UNCHANGED <<store, acqVars, dispVars, subVars>>
  BY <1>w, <1>8, Waiting DEF SourceChanges, dispVars, subVars
<1>9. CASE MessageArrives /\ UNCHANGED <<store, acqVars, dispHolding, modbusVars>>
  <2>1. UNCHANGED <<modbusQueue, dispHolding, dispQueue, subHolding>>
    BY <1>9 DEF MessageArrives, modbusVars
  <2>2. subQueue' = subQueue \/ \E m \in Message : subQueue' = Append(subQueue, m)
    BY <1>9, Arrival
  <2>3. QueuedMessage(c, subQueue) => QueuedMessage(c, subQueue')
    BY <1>t, <2>2, MessageStays
  <2> QED
    BY <1>w, <2>1, <2>3, Waiting
<1> QED
  BY <1>1, <1>2, <1>3, <1>4, <1>5, <1>6, <1>7, <1>8, <1>9
  DEF Next, Dispatch, Subscribe, SubscriberTask, Environment

LEMMA ArrivesOnItsWay ==
  ASSUME TypeOK, Next, NEW c \in Len(arrived) + 1 .. Len(arrived')
  PROVE  CommandWaiting(c)' \/ Len(subQueue) = SubscriberCapacity
<1>1. CASE arrived' = arrived
  BY <1>1, Types
<1>2. CASE arrived' # arrived
  <2>1. MessageArrives
    BY <1>2 DEF Next, Acquire, Dispatch, ReceiveRequest, DispatchRequest, Transact,
       Callback, Subscribe, SubscriberTask, ReceiveMessage, HandleMessage, Environment,
       subVars
  <2>2. PICK m \in Message :
          /\ m.number = Len(arrived) + 1
          /\ arrived' = Append(arrived, m)
          /\ subQueue' = IF Len(subQueue) < SubscriberCapacity
                         THEN Append(subQueue, m) ELSE subQueue
    BY <2>1, Arrival
  <2>3. c = m.number
    <3>1. Len(arrived') = Len(arrived) + 1 /\ Len(arrived) \in Nat
      BY <2>2, Types
    <3> QED
      BY <2>2, <3>1
  <2>4. CASE Len(subQueue) < SubscriberCapacity
    <3>1. Len(subQueue) + 1 \in DOMAIN subQueue' /\ subQueue'[Len(subQueue) + 1] = m
      <4>1. subQueue' = Append(subQueue, m) /\ subQueue \in Seq(Message)
        BY <2>2, <2>4, Types
      <4> QED
        BY <4>1
    <3> QED
      BY <2>3, <3>1 DEF CommandWaiting
  <2>5. CASE ~(Len(subQueue) < SubscriberCapacity)
    BY <2>5, Types, SubscriberAssumption DEF TypeOK
  <2> QED
    BY <2>4, <2>5
<1> QED
  BY <1>1, <1>2

\* A command is lost only where the code gives it up: on a full queue, or by
\* one of the checks of the subscriber and the driver.
THEOREM CommandsLostOnlyWhenGivenUp == SafeSpec => LostOnlyWhenGivenUp
<1> DEFINE Kept ==
      /\ \A c \in 1 .. Len(arrived) :
           CommandWaiting(c) /\ ~CommandWaiting(c)' =>
             \/ GivesUp(c)
             \/ /\ modbusReply = NONE /\ modbusReply' # NONE
                /\ modbusQueue # <<>> /\ Head(modbusQueue).value = c
      /\ \A c \in Len(arrived) + 1 .. Len(arrived') :
           CommandWaiting(c)' \/ Len(subQueue) = SubscriberCapacity
<1>1. TypeOK /\ [Next]_vars => [Kept]_vars
  <2> SUFFICES ASSUME TypeOK, Next PROVE Kept
    OBVIOUS
  <2>1. ASSUME NEW c \in 1 .. Len(arrived), CommandWaiting(c), ~CommandWaiting(c)'
        PROVE  \/ GivesUp(c)
               \/ /\ modbusReply = NONE /\ modbusReply' # NONE
                  /\ modbusQueue # <<>> /\ Head(modbusQueue).value = c
    BY <2>1, KeptOnItsWay, Zenon
  <2>2. \A c \in Len(arrived) + 1 .. Len(arrived') :
          CommandWaiting(c)' \/ Len(subQueue) = SubscriberCapacity
    BY ArrivesOnItsWay, Zenon
  <2> QED
    BY <2>1, <2>2, Zenon
<1> QED
  BY <1>1, TypeCorrect, PTL DEF SafeSpec, LostOnlyWhenGivenUp
=============================================================================
