--------------------------- MODULE ModbusService ---------------------------
(***************************************************************************)
(* modbus_service.cpp over the eModbus client: requests wait in the        *)
(* client's own queue, its worker runs one bus transaction at a time and   *)
(* calls on_modbus_data or on_modbus_error with the outcome.  The client   *)
(* and the devices are external.  modbus_lock only guards addRequest,      *)
(* which one task calls, so it is left out.                                *)
(***************************************************************************)
EXTENDS Acquisition

CONSTANTS
  ModbusQueueLimit,   \* the client's limit on waiting requests
  MaxSample           \* bound on the changes of a source's value

ASSUME ModbusAssumption ==
  /\ ModbusQueueLimit \in Nat \ {0}
  /\ MaxSample \in Nat \ {0}

VARIABLES
  modbusQueue,   \* the client's requests not yet on the bus, oldest first
  modbusReply,   \* the transaction whose handler has not run, or NONE
  plant,         \* per tag, the number of the value its source has now
  executed       \* the write requests the devices carried out, in order

modbusVars == <<modbusQueue, modbusReply, plant, executed>>

ModbusInit ==
  /\ modbusQueue = <<>>
  /\ modbusReply = NONE
  /\ plant = [t \in TagId |-> 1]
  /\ executed = <<>>

\* The request on the bus stays in the client's queue until its handler has
\* returned, so it counts.
ModbusWaiting == Len(modbusQueue) + (IF modbusReply = NONE THEN 0 ELSE 1)

\* What the checks of modbus_read_request and modbus_write_request let through.
Sendable(request) ==
  LET t == request.tag
  IN /\ Source[t] = "MODBUS"
     /\ request.operation = "WRITE" =>
          /\ Quantity[t] \in 1 .. 2
          /\ Supported(t)
          /\ FunctionCode[t] \in {5, 6, 16}

\* Mutant: at the limit the waiting request is overwritten.
modbus_request_overwrites(request) ==
  modbusQueue' = IF ~Sendable(request) THEN modbusQueue
                 ELSE IF ModbusWaiting < ModbusQueueLimit
                      THEN Append(modbusQueue, request)
                      ELSE <<request>>

\* modbus_read_request or modbus_write_request: addRequest refuses when the
\* client's queue is at its limit.  dispatch_request only logs an error.
modbus_request(request) ==
  modbusQueue' = IF Sendable(request) /\ ModbusWaiting < ModbusQueueLimit
                 THEN Append(modbusQueue, request)
                 ELSE modbusQueue

\* What on_modbus_data may make of the echo of a write: it takes the value
\* from byte 3 on, where a read's data starts.  After a coil write that is the
\* low byte of the coil's address, of which a BOOL takes the lowest bit; for
\* the other types it is left open.
EchoValues(t) ==
  IF DataType[t] = "BOOL" THEN {Address[t] % 2} ELSE 0 .. 65535

Outcome(request, ok, value) ==
  modbusReply' = [tag |-> request.tag, ok |-> ok, value |-> value]

\* The worker takes the oldest request onto the bus.
TransactRead ==
  /\ modbusReply = NONE
  /\ modbusQueue # <<>>
  /\ Head(modbusQueue).operation = "READ"
  /\ modbusQueue' = Tail(modbusQueue)
  /\ \/ Outcome(Head(modbusQueue), TRUE, plant[Head(modbusQueue).tag])
     \/ Outcome(Head(modbusQueue), FALSE, 0)
  /\ UNCHANGED <<plant, executed>>

\* A write that is not answered may still have been carried out.
TransactWrite ==
  /\ modbusReply = NONE
  /\ modbusQueue # <<>>
  /\ Head(modbusQueue).operation = "WRITE"
  /\ modbusQueue' = Tail(modbusQueue)
  /\ \/ /\ executed' = Append(executed, Head(modbusQueue))
        /\ \/ \E value \in EchoValues(Head(modbusQueue).tag) :
                Outcome(Head(modbusQueue), TRUE, value)
           \/ Outcome(Head(modbusQueue), FALSE, 0)
     \/ /\ UNCHANGED executed
        /\ Outcome(Head(modbusQueue), FALSE, 0)
  /\ UNCHANGED plant

\* The worker calls on_modbus_data, which returns early on a type it does not
\* know, or on_modbus_error.  gModbusCommHealthy and the event posted when it
\* changes lead to a log line only; StoreAccess has them.
ModbusCallback ==
  /\ modbusReply # NONE
  /\ IF modbusReply.ok /\ ~Supported(modbusReply.tag)
     THEN UNCHANGED respQueue
     ELSE acquisition_post_response(modbusReply)
  /\ modbusReply' = NONE
  /\ UNCHANGED <<modbusQueue, plant, executed>>

\* A device's value, or the machine state, changes.
SourceChanges ==
  \E t \in Polled :
    /\ plant[t] < MaxSample
    /\ plant' = [plant EXCEPT ![t] = @ + 1]
    /\ UNCHANGED <<modbusQueue, modbusReply, executed>>
============================================================================
