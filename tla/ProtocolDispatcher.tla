------------------------ MODULE ProtocolDispatcher ------------------------
(***************************************************************************)
(* The request queue of protocol_dispatcher.cpp and the front half of its  *)
(* task.  Routing a request to a driver is DataPath!DispatchRequest: the   *)
(* drivers answer into the acquisition engine, which posts here.           *)
(***************************************************************************)
EXTENDS TagRegistry

CONSTANT DispatchCapacity     \* xQueueCreate(30, ...)

\* protocol_request_t.  The value is the command's number; a read has none
\* (acquisition_scan leaves the field unset and no driver looks at it).
Request == [tag : TagId, operation : {"READ", "WRITE"}, value : Nat]

ASSUME DispatcherAssumption ==
  /\ DispatchCapacity \in Nat \ {0}
  /\ NONE \notin Request

VARIABLES
  dispQueue,    \* gQueue: requests posted and not yet received
  dispHolding   \* the request in the task's hands, or NONE

dispVars == <<dispQueue, dispHolding>>

ReadRequest(t) == [tag |-> t, operation |-> "READ", value |-> 0]
WriteRequest(t, v) == [tag |-> t, operation |-> "WRITE", value |-> v]

DispatcherInit ==
  /\ dispQueue = <<>>
  /\ dispHolding = NONE

\* Mutant: xQueueSendToFront.
protocol_dispatcher_post_front(request) ==
  dispQueue' = IF Len(dispQueue) < DispatchCapacity
               THEN <<request>> \o dispQueue
               ELSE dispQueue

\* xQueueSend waits up to 500 ticks for room.  The wait is the poster's step
\* not yet taken; a poster that finds no room for that long gives the request
\* up, and every caller only logs the SYS_ERR_BUSY it gets.
protocol_dispatcher_post(request) ==
  dispQueue' = IF Len(dispQueue) < DispatchCapacity
               THEN Append(dispQueue, request)
               ELSE dispQueue

\* Mutant: xQueuePeek.
PeekRequest ==
  /\ dispHolding = NONE
  /\ dispQueue # <<>>
  /\ dispHolding' = Head(dispQueue)
  /\ UNCHANGED dispQueue

\* xQueueReceive of protocolDispatcherTask.
ReceiveRequest ==
  /\ dispHolding = NONE
  /\ dispQueue # <<>>
  /\ dispHolding' = Head(dispQueue)
  /\ dispQueue' = Tail(dispQueue)
===========================================================================
