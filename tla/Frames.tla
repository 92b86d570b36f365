------------------------------- MODULE Frames -------------------------------
(***************************************************************************)
(* modbus_service.cpp, what goes over the wire: the requests it builds, the *)
(* frames that come back, and what on_modbus_data reads out of them.  The  *)
(* devices and the framing of eModbus are external.  One transaction is    *)
(* one step; how they queue and fail is in ModbusService.                  *)
(***************************************************************************)
EXTENDS FiniteSets, ModbusCodec, RegistryTable

CONSTANTS
  Byte,      \* 2^8
  Plants,    \* the tag tables tried: gTags, and others the code accepts
  Samples,   \* the numbers tried with each, those below Word for one register
  Location,  \* what the devices have: slaves with their addresses
  MaxCommanded,  \* bound: equipment of a plant that is commanded
  NONE       \* no answer yet

ASSUME FramesAssumption ==
  /\ Byte \in Nat \ {0, 1} /\ Word = Byte * Byte
  /\ Location \subseteq Nat \X Nat
  /\ Samples \in [DOMAIN Plants -> SUBSET (0 .. Long - 1)]
  /\ MaxCommanded \in Nat

VARIABLES
  plant,       \* which table, fixed
  coils,       \* the devices' coils
  registers,   \* the devices' registers, holding or input
  commanded,   \* what each piece of equipment was last told by a command
  response     \* the last protocol_response_t

vars == <<plant, coils, registers, commanded, response>>

tags == Plants[plant]
Sample == Samples[plant]
Equipment == {t.equipment : t \in tags}

Init ==
  /\ plant \in DOMAIN Plants
  /\ coils = [l \in Location |-> FALSE]
  /\ registers = [l \in Location |-> 0]
  /\ commanded = [e \in Equipment |-> NONE]
  /\ response = NONE

Command(tag) == tag.access = "WRITE_ONLY"

At(tag, offset) == <<tag.slave, tag.address + offset>>

\* The numbers of a type, as far as they are tried.  STRING has none.
Values(type) ==
  CASE type = "BOOL" -> BOOLEAN
    [] type = "UINT16" -> Sample \cap (0 .. Word - 1)
    [] type = "INT16" -> {Signed(n, Word) : n \in Sample \cap (0 .. Word - 1)}
    [] type \in {"UINT32", "FLOAT32"} -> Sample
    [] type = "INT32" -> {Signed(n, Long) : n \in Sample}
    [] OTHER -> {"text"}

----------------------------------------------------------------------------
(* Frames *)

Bytes(word) == <<word \div Byte, word % Byte>>

\* eModbus: what a device sends back to a read, and to a write, which starts
\* with the request's slave, code, address and second word.
DataFrame(tag, data) == <<tag.slave, tag.code, Len(data)>> \o data

EchoFrame(tag, word) == <<tag.slave, tag.code>> \o Bytes(tag.address) \o Bytes(word)

\* response.get: it leaves its argument alone beyond the frame's end, and the
\* argument is not initialised.  Offsets count from 0.
GetByte(frame, offset) ==
  IF offset < Len(frame) THEN {frame[offset + 1]} ELSE 0 .. Byte - 1

GetWord(frame, offset) ==
  IF offset + 1 < Len(frame)
  THEN {frame[offset + 1] * Byte + frame[offset + 2]}
  ELSE 0 .. Word - 1

GetLong(frame, offset) ==
  IF offset + 3 < Len(frame)
  THEN {high * Word + low : high \in GetWord(frame, offset),
                            low \in GetWord(frame, offset + 2)}
  ELSE Sample

Pairs(frame) ==
  {<<first, second>> : first \in GetWord(frame, 3), second \in GetWord(frame, 5)}

\* What on_modbus_data can take for the tag's value; it drops the frame for
\* other types.  A float is read in the order of the bytes, whatever the tag's
\* word order.
decode(tag, frame) ==
  CASE tag.type = "BOOL" -> {b % 2 = 1 : b \in GetByte(frame, 3)}
    [] tag.type = "UINT16" -> GetWord(frame, 3)
    [] tag.type = "INT16" -> {Signed(w, Word) : w \in GetWord(frame, 3)}
    [] tag.type = "UINT32" -> {decode_uint32(regs, tag.order) : regs \in Pairs(frame)}
    [] tag.type = "INT32" -> {decode_int32(regs, tag.order) : regs \in Pairs(frame)}
    [] tag.type = "FLOAT32" -> GetLong(frame, 3)
    [] OTHER -> {}

on_modbus_data(tag, frame) ==
  IF decode(tag, frame) = {}
  THEN UNCHANGED response
  ELSE \E value \in decode(tag, frame) :
         response' = [tagId |-> tag.id, value |-> value]

----------------------------------------------------------------------------
(* Requests *)

\* modbus_read_request, and the device's answer.
Read(tag) ==
  /\ ~Command(tag)
  /\ on_modbus_data(tag,
       DataFrame(tag, IF tag.code = "read_coils"
                      THEN <<IF coils[At(tag, 0)] THEN 1 ELSE 0>>
                      ELSE IF tag.quantity = 1
                           THEN Bytes(registers[At(tag, 0)])
                           ELSE Bytes(registers[At(tag, 0)])
                                  \o Bytes(registers[At(tag, 1)])))
  /\ UNCHANGED <<plant, coils, registers, commanded>>

\* regs in modbus_write_request; a BOOL leaves them 0.
Encoded(tag, value) ==
  CASE tag.type = "UINT16" -> <<encode_uint16(value)[1], 0>>
    [] tag.type = "INT16" -> <<encode_int16(value)[1], 0>>
    [] tag.type = "UINT32" -> encode_uint32(value, tag.order)
    [] tag.type = "INT32" -> encode_int32(value, tag.order)
    [] tag.type = "FLOAT32" -> encode_float32(value, tag.order)
    [] OTHER -> <<0, 0>>

\* modbus_write_request refuses what it cannot send.
Sendable(tag) ==
  /\ tag.quantity \in {1, 2}
  /\ tag.type # "STRING"
  /\ tag.code \in WriteCode

\* A table gives each command equipment and coils or registers of its own, that
\* no sensor's input shares, and every tag registers enough for its type.
Uses(tag) == {At(tag, i) : i \in 0 .. tag.quantity - 1}

FitsItsType(t) ==
  /\ t.address \in Nat /\ t.quantity \in {1, 2} /\ Uses(t) \subseteq Location
  /\ t.type \in {"BOOL", "UINT16", "INT16", "UINT32", "INT32", "FLOAT32"}
  /\ t.type \in {"UINT32", "INT32", "FLOAT32"} => t.quantity = 2

WellAddressed(table) ==
  /\ \A t \in table : Command(t) /\ Sendable(t) =>
       /\ FitsItsType(t)
       /\ (t.type = "BOOL") <=> (t.code = "write_coil")
       /\ t.type \in {"UINT32", "INT32", "FLOAT32"} => t.code = "write_registers"
       /\ \A u \in table : u # t /\ ((Command(u) /\ Sendable(u)) \/ u.code = "read_input")
            => Uses(u) \cap Uses(t) = {}
  /\ \A t, u \in table :
       Command(t) /\ Command(u) /\ t # u => t.equipment # u.equipment
  /\ \A t \in table : ~Command(t) /\ t.type # "STRING" =>
       FitsItsType(t) /\ ((t.type = "BOOL") <=> (t.code = "read_coils"))
  /\ \A t \in table : t.code = "read_input" => t.quantity \in {1, 2}

\* A status reads where the command of its equipment writes, in the same form.
StatusesMatch(table) ==
  \A t, u \in table :
    /\ ~Command(t) /\ t.code \in {"read_coils", "read_holding"}
    /\ Command(u) /\ Sendable(u) /\ t.equipment = u.equipment
    => /\ t.slave = u.slave /\ t.address = u.address
       /\ t.type = u.type /\ t.order = u.order

ASSUME PlantsAssumption ==
  \A p \in DOMAIN Plants : WellAddressed(Plants[p])

WriteCoil(tag, value) ==
  /\ tag.code = "write_coil"
  /\ coils' = [coils EXCEPT ![At(tag, 0)] = value]
  /\ on_modbus_data(tag, EchoFrame(tag, IF value THEN (Byte - 1) * Byte ELSE 0))
  /\ UNCHANGED registers

WriteRegister(tag, regs) ==
  /\ tag.code = "write_register"
  /\ registers' = [registers EXCEPT ![At(tag, 0)] = regs[1]]
  /\ on_modbus_data(tag, EchoFrame(tag, regs[1]))
  /\ UNCHANGED coils

WriteRegisters(tag, regs) ==
  /\ tag.code = "write_registers"
  /\ registers' = [l \in Location |->
                     IF \E i \in 1 .. tag.quantity : l = At(tag, i - 1)
                     THEN regs[l[2] - tag.address + 1]
                     ELSE registers[l]]
  /\ on_modbus_data(tag, EchoFrame(tag, tag.quantity))
  /\ UNCHANGED coils

\* A command, the device's obedience and its echo.
Write(tag, value) ==
  /\ Command(tag)
  /\ Sendable(tag)
  /\ \/ WriteCoil(tag, value)
     \/ WriteRegister(tag, Encoded(tag, value))
     \/ WriteRegisters(tag, Encoded(tag, value))
  /\ commanded' = [commanded EXCEPT ![tag.equipment] = value]
  /\ Cardinality({e \in Equipment : commanded'[e] # NONE}) <= MaxCommanded
  /\ UNCHANGED plant

\* What a sensor measures changes.
Measure(tag, number) ==
  /\ tag.code = "read_input"
  /\ registers' = IF tag.quantity = 1
                  THEN [registers EXCEPT ![At(tag, 0)] = number % Word]
                  ELSE [registers EXCEPT ![At(tag, 0)] = number \div Word,
                                         ![At(tag, 1)] = number % Word]
  /\ UNCHANGED <<plant, coils, commanded, response>>

Next ==
  \E tag \in tags :
    \/ Read(tag)
    \/ \E value \in Values(tag.type) : Write(tag, value)
    \/ \E number \in Sample : Measure(tag, number)

Spec == Init /\ [][Next]_vars

----------------------------------------------------------------------------
(* Properties *)

\* Every variable has its type: registers and coils hold what fits them.
TypeOK ==
  /\ plant \in DOMAIN Plants
  /\ coils \in [Location -> BOOLEAN]
  /\ registers \in [Location -> 0 .. Word - 1]
  /\ DOMAIN commanded = Equipment
  /\ response = NONE \/ response.tagId \in {t.id : t \in tags}

\* The number two registers stand for in the word order the table gives them.
Meant(tag, first, second) ==
  LET number == IF tag.order = "CDAB" THEN second * Word + first
                                      ELSE first * Word + second
  IN  CASE tag.type = "UINT16" -> first
        [] tag.type = "INT16" -> Signed(first, Word)
        [] tag.type = "INT32" -> Signed(number, Long)
        [] OTHER -> number

\* What the device means by its coil or registers.
DeviceValue(tag) ==
  IF tag.type = "BOOL" THEN coils[At(tag, 0)]
  ELSE Meant(tag, registers[At(tag, 0)], registers[At(tag, 1)])

\* The device holds the last command as it was meant, floats included, and no
\* command reaches the coils or registers of another piece of equipment.
CommandsUnderstood ==
  \A t \in tags :
    Command(t) /\ commanded[t.equipment] # NONE
      => DeviceValue(t) = commanded[t.equipment]

\* The last response is of the tag.
Answered(tag) == response # NONE /\ response.tagId = tag.id

Exchanged(number) == (number % Word) * Word + number \div Word

\* on_modbus_data reads what the device means; a float of a device that sends
\* the low word first comes out with its words exchanged
\* (modbus_service.cpp:67), and nothing else is misread.
ReadsTrue ==
  [][\A t \in tags :
       Answered(t)' /\ Read(t) /\ t.type # "STRING"
         => response'.value = IF t.type = "FLOAT32" /\ t.order = "CDAB"
                              THEN Exchanged(DeviceValue(t))
                              ELSE DeviceValue(t)]_vars

\* The status of a piece of equipment shows the last command it was given, and
\* no command given to another: the addresses of the table, what is encoded
\* and what is decoded fit together (floats: see ReadsTrue).
StatusShowsCommand ==
  [][\A t \in tags :
       /\ Answered(t)'
       /\ Read(t)
       /\ t.code \in {"read_coils", "read_holding"}
       /\ t.type # "FLOAT32" \/ t.order # "CDAB"
       /\ commanded[t.equipment] # NONE
       => response'.value = commanded[t.equipment]]_vars
=============================================================================
