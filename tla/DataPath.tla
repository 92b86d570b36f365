------------------------------ MODULE DataPath ------------------------------
(***************************************************************************)
(* The data path of the gateway: the subscriber and the acquisition engine *)
(* post requests, the dispatcher routes them to the drivers, the drivers   *)
(* answer into the acquisition engine, which keeps the store up to date.   *)
(* The tasks run concurrently; a step is what one of them does between two *)
(* calls that may block.                                                   *)
(***************************************************************************)
EXTENDS ModbusService, Subscriber

CONSTANT CoreState     \* the tag named "core_state", or NONE

ASSUME CoreStateAssumption == CoreState \in TagId \cup {NONE}

vars == <<store, acqVars, dispVars, modbusVars, subVars>>

Init ==
  /\ TagRuntimeInit
  /\ AcquisitionInit
  /\ DispatcherInit
  /\ ModbusInit
  /\ SubscriberInit

----------------------------------------------------------------------------
(* protocolDispatcherTask *)

\* system_service_read_request answers at once, in the dispatcher's task.
system_service_read_request(t) ==
  acquisition_post_response(
    IF t = CoreState
    THEN [tag |-> t, ok |-> TRUE, value |-> plant[t]]
    ELSE [tag |-> t, ok |-> FALSE, value |-> 0])

\* The switch of dispatch_request: one action per kind of source.
RouteModbus ==
  /\ Source[dispHolding.tag] = "MODBUS"
  /\ modbus_request(dispHolding)
  /\ UNCHANGED respQueue

RouteSystem ==
  /\ Source[dispHolding.tag] = "SYSTEM"
  /\ IF dispHolding.operation = "READ"
     THEN system_service_read_request(dispHolding.tag)
     ELSE UNCHANGED respQueue
  /\ UNCHANGED modbusQueue

RouteCan ==
  /\ Source[dispHolding.tag] = "CAN"
  /\ UNCHANGED <<respQueue, modbusQueue>>

DispatchRequest ==
  /\ dispHolding # NONE
  /\ RouteModbus \/ RouteSystem \/ RouteCan
  /\ dispHolding' = NONE
  /\ UNCHANGED <<dispQueue, store, acqPc, scanIdx, acqHolding, modbusReply,
                 plant, executed, subVars>>

----------------------------------------------------------------------------
Acquire == AcquisitionTask /\ UNCHANGED <<dispHolding, modbusVars, subVars>>

Dispatch ==
  \/ ReceiveRequest /\ UNCHANGED <<store, acqVars, modbusVars, subVars>>
  \/ DispatchRequest

Transact ==
  /\ TransactRead \/ TransactWrite
  /\ UNCHANGED <<store, acqVars, dispVars, subVars>>

Callback ==
  /\ ModbusCallback
  /\ UNCHANGED <<store, acqPc, scanIdx, acqHolding, dispVars, subVars>>

Subscribe ==
  SubscriberTask /\ UNCHANGED <<store, acqVars, dispHolding, modbusVars>>

Environment ==
  \/ SourceChanges /\ UNCHANGED <<store, acqVars, dispVars, subVars>>
  \/ MessageArrives /\ UNCHANGED <<store, acqVars, dispHolding, modbusVars>>

Next ==
  Acquire \/ Dispatch \/ Transact \/ Callback \/ Subscribe \/ Environment

\* Every task is runnable whenever it has something to do: they have one
\* priority and FreeRTOS time-slices them.  Nothing is assumed of the
\* environment; a bus transaction ends, at the latest by its timeout.
Fairness ==
  /\ WF_vars(Acquire)
  /\ WF_vars(Dispatch)
  /\ WF_vars(Transact)
  /\ WF_vars(Callback)
  /\ WF_vars(Subscribe)

SafeSpec == Init /\ [][Next]_vars

Spec == SafeSpec /\ Fairness

----------------------------------------------------------------------------
(* Properties *)

\* Every variable has its type and no queue outgrows what the code created
\* it with: the response and request queues, and the client's own queue.
TypeOK ==
  /\ store \in [TagId -> [value : Nat, valid : BOOLEAN]]
  /\ acqPc \in {"top", "scan", "receive", "apply"}
  /\ scanIdx \in 1 .. tag_count
  /\ acqHolding \in Response \cup {NONE}
  /\ acqPc = "apply" => acqHolding \in Response
  /\ respQueue \in Seq(Response) /\ Len(respQueue) <= ResponseCapacity
  /\ dispQueue \in Seq(Request) /\ Len(dispQueue) <= DispatchCapacity
  /\ dispHolding \in Request \cup {NONE}
  /\ modbusQueue \in Seq(Request) /\ ModbusWaiting <= ModbusQueueLimit
  /\ modbusReply \in Response \cup {NONE}
  /\ plant \in [TagId -> 1 .. MaxSample]
  /\ executed \in Seq(Request)
  /\ subQueue \in Seq(Message) /\ Len(subQueue) <= SubscriberCapacity
  /\ subHolding \in Message \cup {NONE}
  /\ arrived \in Seq(Message)

\* A polled tag never shows an older sample after a newer one, whatever the
\* two queues, the bus and the drops in between do (acquisition.cpp:79-95).
SamplesNeverGoBack ==
  [][\A t \in Polled : store'[t].value >= store[t].value]_store

\* A write request never names a tag the scan polls, whatever topics messages
\* come on, and a request is on the bus only for a Modbus tag: acquisition and
\* subscriber share the dispatcher but not the tags, so on_modbus_data, which
\* cannot tell them apart, never takes an echo for a sample.
RoutesApart ==
  /\ \A i \in DOMAIN dispQueue :
       dispQueue[i].operation = "WRITE" => dispQueue[i].tag \notin Polled
  /\ dispHolding # NONE /\ dispHolding.operation = "WRITE"
       => dispHolding.tag \notin Polled
  /\ \A i \in DOMAIN modbusQueue :
       /\ Source[modbusQueue[i].tag] = "MODBUS"
       /\ modbusQueue[i].operation = "WRITE" => modbusQueue[i].tag \notin Polled
  /\ modbusReply # NONE => Source[modbusReply.tag] = "MODBUS"

\* A response that shows tag t a sample.
Sample(response, t) == response # NONE /\ response.tag = t /\ response.ok

\* v is a sample of t that may follow what the store shows.
Follows(v, t) == 1 <= v /\ store[t].value <= v /\ v <= plant[t]

SamplesOfTagInOrder(t) ==
  /\ store[t].value <= plant[t]
  /\ store[t].valid => 1 <= store[t].value
  /\ Sample(acqHolding, t) => Follows(acqHolding.value, t)
  /\ \A i \in DOMAIN respQueue : Sample(respQueue[i], t) =>
       /\ Follows(respQueue[i].value, t)
       /\ Sample(acqHolding, t) => acqHolding.value <= respQueue[i].value
       /\ \A j \in DOMAIN respQueue :
            i < j /\ Sample(respQueue[j], t)
              => respQueue[i].value <= respQueue[j].value
  /\ Sample(modbusReply, t) =>
       /\ Follows(modbusReply.value, t)
       /\ Sample(acqHolding, t) => acqHolding.value <= modbusReply.value
       /\ \A i \in DOMAIN respQueue :
            Sample(respQueue[i], t) => respQueue[i].value <= modbusReply.value

\* The samples of a polled tag on their way to the store are in the order
\* they were taken: the one shown, the one in the task's hands, those in the
\* response queue, the one in the worker's handler, and the source's own.
SamplesInOrder == \A t \in Polled : SamplesOfTagInOrder(t)

\* The devices carry out commands in the order the broker delivered them,
\* each at most once, although three queues and two tasks lie between.
CommandsInOrder ==
  \A i, j \in DOMAIN executed : i < j => executed[i].value < executed[j].value

\* What a device carries out is what some message asked for, among messages on
\* topics of every kind: well formed, on that tag's topic, and for a tag that
\* takes commands (subscriber.cpp:55-109).
OnlyCommandsExecuted ==
  \A i \in DOMAIN executed :
    LET message == arrived[executed[i].value]
    IN /\ message.topic = executed[i].tag
       /\ message.wellFormed
       /\ executed[i].tag \in Commandable

CommandWaiting(c) ==
  \/ \E i \in DOMAIN subQueue : subQueue[i].number = c
  \/ subHolding # NONE /\ subHolding.number = c
  \/ \E i \in DOMAIN dispQueue : dispQueue[i].value = c
  \/ dispHolding # NONE /\ dispHolding.value = c
  \/ \E i \in DOMAIN modbusQueue : modbusQueue[i].value = c

\* Where the code gives command c up: the subscriber refuses its message or
\* finds no room for the request, or the dispatcher has no driver or the driver
\* no room for it.
GivesUp(c) ==
  \/ /\ subHolding # NONE /\ subHolding.number = c
     /\ ~Accepted(subHolding) \/ Len(dispQueue) = DispatchCapacity
  \/ /\ dispHolding # NONE /\ dispHolding.value = c
     /\ ~Sendable(dispHolding) \/ ModbusWaiting = ModbusQueueLimit

\* A command is lost only where the code gives it up: every step keeps each
\* command that is on its way, but for the one it puts on the bus and the one
\* it gives up; a message that arrives is on its way unless the subscriber's
\* queue is full (subscriber.cpp:29).
LostOnlyWhenGivenUp ==
  [][/\ \A c \in 1 .. Len(arrived) :
          CommandWaiting(c) /\ ~CommandWaiting(c)' =>
            \/ GivesUp(c)
            \/ /\ modbusReply = NONE /\ modbusReply' # NONE
               /\ modbusQueue # <<>> /\ Head(modbusQueue).value = c
     /\ \A c \in Len(arrived) + 1 .. Len(arrived') :
          CommandWaiting(c)' \/ Len(subQueue) = SubscriberCapacity]_vars

\* A command does not stay between the broker and the bus for ever, however
\* many reads the scan keeps putting in front of it.
CommandsSettle ==
  \A c \in 1 .. MaxCommands : CommandWaiting(c) ~> ~CommandWaiting(c)

\* The store, seen through the samples of the polled tags.
Sampled == INSTANCE SampledStore WITH
  Tag <- Polled,
  current <- [t \in Polled |-> plant[t]],
  shown <- [t \in Polled |-> store[t]]

\* The data path implements SampledStore.
ImplementsSampledStore == Sampled!Spec
=============================================================================
