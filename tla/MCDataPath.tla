----------------------------- MODULE MCDataPath -----------------------------
(***************************************************************************)
(* Small registries for DataPath: a Modbus input and the machine state are *)
(* read, a coil at an odd address and a CAN tag are written.  Two tags are *)
(* there to be refused: a polled one that has a command's topic and a      *)
(* write-only one whose topic is published.                                *)
(***************************************************************************)
EXTENDS DataPath

CONSTANTS input, state, coil, can, setpoint, report, unknown

MCRegistry == <<input, coil, state>>
MCRegistryOfCommands == <<coil, can, setpoint, report>>

MCAccess == [t \in TagId |-> CASE t \in {input, state} -> "READ_ONLY"
                               [] t = setpoint -> "READ_WRITE"
                               [] OTHER -> "WRITE_ONLY"]
MCTopicType ==
  [t \in TagId |-> IF t \in {input, state, report} THEN "PUBLISH" ELSE "SUBSCRIBE"]
MCSource == [t \in TagId |-> CASE t = state -> "SYSTEM"
                               [] t = can -> "CAN"
                               [] OTHER -> "MODBUS"]
MCDataType ==
  [t \in TagId |-> IF t \in {coil, can, report} THEN "BOOL" ELSE "UINT16"]
MCAddress == [t \in TagId |-> IF t = coil THEN 1 ELSE 0]
MCQuantity == [t \in TagId |-> 1]
MCFunctionCode == [t \in TagId |-> IF t \in {coil, report} THEN 5 ELSE 3]

\* Of each kind of message one that is well formed, and one that is not.
Malformed == [topic : {coil}, wellFormed : {FALSE}]
MCArrivals == [topic : {coil}, wellFormed : {TRUE}] \cup Malformed
MCArrivalsOfCommands ==
  [topic : {coil, can, setpoint, report, unknown}, wellFormed : {TRUE}] \cup Malformed
=============================================================================
