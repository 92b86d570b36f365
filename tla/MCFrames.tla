------------------------------ MODULE MCFrames ------------------------------
(***************************************************************************)
(* Frames with 4 for a byte: the table of the repository, and one table of *)
(* each type, width and word order the services accept.                    *)
(***************************************************************************)
EXTENDS Frames

MCByte == 4
MCWord == 16
MCLocation == (1 .. 2) \X (0 .. 6)

\* A setpoint in holding registers, its read-back and a sensor of its type.
Setpoint(type, order, code, quantity) ==
  {Tag(1, "VALVE", 1, 0, code, "WRITE_ONLY", type, order, quantity),
   Tag(2, "VALVE", 1, 0, "read_holding", "READ_ONLY", type, order, quantity),
   Tag(3, "SENSOR", 2, 2, "read_input", "READ_ONLY", type, order, quantity)}

\* Tags modbus_write_request refuses, and one on_modbus_data drops.
Refused ==
  {Tag(1, "VALVE", 1, 0, "read_holding", "WRITE_ONLY", "UINT16", "ABCD", 1),
   Tag(2, "PUMP", 1, 0, "write_registers", "WRITE_ONLY", "UINT32", "ABCD", 3),
   Tag(3, "LABEL", 1, 0, "write_registers", "WRITE_ONLY", "STRING", "ABCD", 2),
   Tag(4, "LABEL", 1, 0, "read_holding", "READ_ONLY", "STRING", "ABCD", 2)}

Setpoints ==
  <<Setpoint("UINT16", "ABCD", "write_register", 1),
    Setpoint("UINT16", "ABCD", "write_registers", 1),
    Setpoint("INT16", "ABCD", "write_register", 1),
    Setpoint("UINT32", "ABCD", "write_registers", 2),
    Setpoint("UINT32", "CDAB", "write_registers", 2),
    Setpoint("INT32", "ABCD", "write_registers", 2),
    Setpoint("INT32", "CDAB", "write_registers", 2),
    Setpoint("FLOAT32", "ABCD", "write_registers", 2),
    Setpoint("FLOAT32", "CDAB", "write_registers", 2)>>

MCPlants == <<gTags, Refused>> \o Setpoints

\* The ends of the ranges, and numbers whose words differ.
MCSamples ==
  [i \in DOMAIN MCPlants |->
     CASE i <= 2 -> {0, 9}
       [] i \in 3 .. 5 -> {0, 1, 7, 8, 15}
       [] i > 5 -> {0, 15, 16, 127, 128, 130, 255}]
=============================================================================
