---------------------------- MODULE Frames_proofs ----------------------------
(***************************************************************************)
(* For every size of a register what is encoded is what is decoded, and in *)
(* every well addressed table the devices hold the commands as they were   *)
(* meant and are read as they mean it.                                     *)
(***************************************************************************)
EXTENDS Frames, SequenceTheorems, TLAPS

----------------------------------------------------------------------------
(* The codec: what is encoded is what is decoded *)

LEMMA QuotientBounds ==
  ASSUME NEW v \in Nat, NEW w \in Nat \ {0}
  PROVE  /\ v \div w \in Nat
         /\ v % w \in 0 .. w - 1
         /\ (v \div w) * w <= v
         /\ v < (v \div w) * w + w
<1>1. v \div w \in Nat
  BY SMT
<1>2. v % w \in 0 .. w - 1
  BY SMT
<1>3. PICK q \in Nat : q = v \div w
  BY <1>1
<1>4. q * w <= v /\ v < q * w + w
  BY <1>3, SMT
<1> QED
  BY <1>1, <1>2, <1>3, <1>4

LEMMA QuotientUnique ==
  ASSUME NEW v \in Nat, NEW w \in Nat \ {0}, NEW a \in Nat, NEW b \in 0 .. w - 1,
         v = a * w + b
  PROVE  v \div w = a /\ v % w = b
  BY SMT

LEMMA Division ==
  ASSUME NEW v \in Nat, NEW w \in Nat \ {0}
  PROVE  (v \div w) * w + (v % w) = v
<1>1. PICK q \in Nat : q = v \div w
  BY QuotientBounds
<1>2. q * w <= v /\ v < q * w + w
  BY <1>1, QuotientBounds
<1>3. PICK p \in Nat : p = q * w
  BY SMT
<1>4. v - p \in 0 .. w - 1 /\ v = p + (v - p)
  BY <1>2, <1>3, SMT
<1>5. v % w = v - p
  BY <1>3, <1>4, QuotientUnique
<1> QED
  BY <1>1, <1>3, <1>4, <1>5, SMT

\* A 32-bit number takes two words.
LEMMA Words ==
  ASSUME NEW v \in 0 .. Long - 1
  PROVE  v \div Word \in 0 .. Word - 1 /\ v % Word \in 0 .. Word - 1
<1> USE WordAssumption
<1>1. v \in Nat /\ Word \in Nat \ {0} /\ v < Word * Word
  BY SMT DEF Long
<1>2. PICK q \in Nat : q = v \div Word
  BY <1>1, QuotientBounds
<1>3. q * Word <= v
  BY <1>1, <1>2, QuotientBounds
<1>4. q < Word
  <2>1. SUFFICES ASSUME Word <= q PROVE FALSE
    BY SMT
  <2>2. Word * Word <= q * Word
    BY <2>1, <1>1, SMT
  <2> QED
    BY <2>2, <1>1, <1>3, SMT
<1> QED
  BY <1>1, <1>2, <1>4, QuotientBounds

\* An unsigned number sent in two registers and read back in the same word
\* order is the same number, and fits the registers on the way
\* (modbus_codec.cpp:43 and :3).
THEOREM UnsignedRoundTrip ==
  ASSUME NEW v \in 0 .. Long - 1, NEW order
  PROVE  /\ encode_uint32(v, order) \in (0 .. Word - 1) \X (0 .. Word - 1)
         /\ decode_uint32(encode_uint32(v, order), order) = v
<1> USE WordAssumption
<1>1. v \in Nat
  BY SMT DEF Long
<1>2. PICK high \in 0 .. Word - 1, low \in 0 .. Word - 1 :
        high = v \div Word /\ low = v % Word
  BY Words
<1>3. high * Word + low = v
  BY <1>1, <1>2, Division
<1>4. CASE order = "CDAB"
  <2>1. encode_uint32(v, order) = <<low, high>>
    BY <1>2, <1>4 DEF encode_uint32
  <2> QED
    BY <1>3, <1>4, <2>1 DEF decode_uint32
<1>5. CASE order # "CDAB"
  <2>1. encode_uint32(v, order) = <<high, low>>
    BY <1>2, <1>5 DEF encode_uint32
  <2> QED
    BY <1>3, <1>5, <2>1 DEF decode_uint32
<1> QED
  BY <1>4, <1>5

\* The casts of encode_int32 and decode_int32, and of 16-bit values, undo each
\* other, and the unsigned form fits (modbus_codec.cpp:39, :60 and :19).
LEMMA Casts ==
  ASSUME NEW modulus \in Nat \ {0}, NEW i \in Int, -modulus <= 2 * i, 2 * i < modulus
  PROVE  Unsigned(i, modulus) \in 0 .. modulus - 1
         /\ Signed(Unsigned(i, modulus), modulus) = i
  BY SMT DEF Unsigned, Signed

\* A signed number sent in two registers and read back in the same word order
\* is the same number.
THEOREM SignedRoundTrip ==
  ASSUME NEW i \in Int, -Long <= 2 * i, 2 * i < Long, NEW order
  PROVE  decode_int32(encode_int32(i, order), order) = i
<1>1. Long \in Nat \ {0}
  BY WordAssumption, SMT DEF Long
<1>2. PICK u \in 0 .. Long - 1 : u = Unsigned(i, Long) /\ Signed(u, Long) = i
  BY <1>1, Casts
<1>3. decode_uint32(encode_uint32(u, order), order) = u
  BY <1>2, UnsignedRoundTrip
<1> QED
  BY <1>2, <1>3 DEF encode_int32, decode_int32

----------------------------------------------------------------------------
(* The invariant *)

\* Inductive: CommandsUnderstood alone does not say that what has been commanded
\* was commanded by the tag whose device it asks about.
IInv ==
  /\ TypeOK
  /\ \E S : commanded \in [Equipment -> S]
  /\ \A t \in tags : Command(t) /\ ~Sendable(t) => commanded[t.equipment] = NONE
  /\ \A e \in Equipment : commanded[e] # NONE =>
       \E u \in tags : Command(u) /\ Sendable(u) /\ u.equipment = e
  /\ CommandsUnderstood

Short == {"UINT16", "INT16"}
Wide == {"UINT32", "INT32", "FLOAT32"}

----------------------------------------------------------------------------
(* The table *)

LEMMA TableFacts ==
  ASSUME plant \in DOMAIN Plants, NEW t \in tags, Command(t), Sendable(t)
  PROVE  /\ t.address \in Nat /\ Uses(t) \subseteq Location
         /\ t.type \in {"BOOL"} \cup Short \cup Wide
         /\ (t.type = "BOOL") <=> (t.code = "write_coil")
         /\ t.type \in Wide => t.code = "write_registers" /\ t.quantity = 2
         /\ t.quantity \in {1, 2}
         /\ \A u \in tags :
              u # t /\ ((Command(u) /\ Sendable(u)) \/ u.code = "read_input")
                => Uses(u) \cap Uses(t) = {}
<1>1. WellAddressed(tags)
  BY PlantsAssumption DEF tags
<1> QED
  BY <1>1 DEF WellAddressed, FitsItsType, Short, Wide

LEMMA OwnEquipment ==
  ASSUME plant \in DOMAIN Plants, NEW t \in tags, NEW u \in tags,
         Command(t), Command(u), t # u
  PROVE  t.equipment # u.equipment
<1>1. WellAddressed(tags)
  BY PlantsAssumption DEF tags
<1> QED
  BY <1>1 DEF WellAddressed

LEMMA UsesFacts ==
  ASSUME NEW t, t.quantity \in {1, 2}
  PROVE  /\ At(t, 0) \in Uses(t)
         /\ t.quantity = 2 => At(t, 1) \in Uses(t)
         /\ Uses(t) \subseteq {At(t, 0), At(t, 1)}
  BY SMT DEF Uses

LEMMA SampleFits ==
  ASSUME plant \in DOMAIN Plants
  PROVE  Sample \subseteq 0 .. Long - 1
  BY FramesAssumption DEF Sample

----------------------------------------------------------------------------
(* What is encoded is what is meant *)

LEMMA ShortMeant ==
  ASSUME plant \in DOMAIN Plants, NEW t \in tags, t.type \in Short,
         NEW value \in Values(t.type), NEW second
  PROVE  /\ Encoded(t, value)[1] \in 0 .. Word - 1
         /\ Encoded(t, value)[2] = 0
         /\ Meant(t, Encoded(t, value)[1], second) = value
<1>1. PICK n \in 0 .. Word - 1 :
        value = IF t.type = "UINT16" THEN n ELSE Signed(n, Word)
  BY WordAssumption, SMT DEF Short, Values
<1>2. CASE t.type = "UINT16"
  <2>1. Encoded(t, value) = <<value, 0>>
    BY <1>2 DEF Encoded, encode_uint16
  <2>2. Meant(t, value, second) = value
    BY <1>2 DEF Meant
  <2> QED
    BY <1>1, <1>2, <2>1, <2>2
<1>3. CASE t.type = "INT16"
  <2>1. Unsigned(Signed(n, Word), Word) = n
    BY WordAssumption, SMT DEF Unsigned, Signed
  <2>2. Encoded(t, value) = <<n, 0>>
    BY <1>1, <1>3, <2>1 DEF Encoded, encode_int16
  <2>3. Meant(t, n, second) = value
    BY <1>1, <1>3 DEF Meant
  <2> QED
    BY <1>1, <2>2, <2>3
<1> QED
  BY <1>2, <1>3 DEF Short

LEMMA WideMeant ==
  ASSUME plant \in DOMAIN Plants, NEW t \in tags, t.type \in Wide,
         NEW value \in Values(t.type)
  PROVE  /\ Encoded(t, value)[1] \in 0 .. Word - 1
         /\ Encoded(t, value)[2] \in 0 .. Word - 1
         /\ Meant(t, Encoded(t, value)[1], Encoded(t, value)[2]) = value
<1>1. PICK n \in 0 .. Long - 1 :
        value = IF t.type = "INT32" THEN Signed(n, Long) ELSE n
  BY SampleFits, SMT DEF Wide, Values
<1>2. Encoded(t, value) = encode_uint32(n, t.order)
  <2>1. CASE t.type = "INT32"
    <3>1. Long \in Nat
      BY WordAssumption, SMT DEF Long
    <3>2. Unsigned(Signed(n, Long), Long) = n
      BY <3>1, SMT DEF Unsigned, Signed
    <3> QED
      BY <1>1, <2>1, <3>2 DEF Encoded, encode_int32
  <2>2. CASE t.type = "UINT32"
    BY <1>1, <2>2 DEF Encoded
  <2>3. CASE t.type = "FLOAT32"
    BY <1>1, <2>3 DEF Encoded, encode_float32
  <2> QED
    BY <2>1, <2>2, <2>3 DEF Wide
<1>3. PICK first \in 0 .. Word - 1, second \in 0 .. Word - 1 :
        /\ encode_uint32(n, t.order) = <<first, second>>
        /\ decode_uint32(<<first, second>>, t.order) = n
  BY UnsignedRoundTrip
<1>4. Meant(t, first, second) = value
  BY <1>1, <1>3 DEF Wide, Meant, decode_uint32
<1> QED
  BY <1>2, <1>3, <1>4

----------------------------------------------------------------------------
(* Whatever leaves a device's coils and registers alone leaves what it means *)

LEMMA Untouched ==
  ASSUME plant \in DOMAIN Plants, NEW u \in tags, Command(u), Sendable(u),
         \A l \in Uses(u) : coils'[l] = coils[l] /\ registers'[l] = registers[l]
  PROVE  DeviceValue(u)' = DeviceValue(u)
<1>1. coils'[At(u, 0)] = coils[At(u, 0)] /\ registers'[At(u, 0)] = registers[At(u, 0)]
  BY TableFacts, UsesFacts
<1>2. CASE u.type = "BOOL"
  BY <1>1, <1>2 DEF DeviceValue
<1>3. CASE u.type \in Short
  BY <1>1, <1>3 DEF DeviceValue, Meant, Short
<1>4. CASE u.type \in Wide
  <2>1. registers'[At(u, 1)] = registers[At(u, 1)]
    BY <1>4, TableFacts, UsesFacts
  <2> QED
    BY <1>1, <1>4, <2>1 DEF DeviceValue, Wide
<1> QED
  BY <1>2, <1>3, <1>4, TableFacts

\* A command sets what its own device means, and only its own coils and
\* registers.
LEMMA Obeyed ==
  ASSUME TypeOK, NEW t \in tags, NEW value \in Values(t.type), Write(t, value)
  PROVE  /\ coils' \in [Location -> BOOLEAN]
         /\ registers' \in [Location -> 0 .. Word - 1]
         /\ DeviceValue(t)' = value
         /\ \A l \in Location \ Uses(t) :
              coils'[l] = coils[l] /\ registers'[l] = registers[l]
<1> DEFINE regs == Encoded(t, value)
<1>1. /\ plant \in DOMAIN Plants /\ Command(t) /\ Sendable(t)
      /\ coils \in [Location -> BOOLEAN] /\ registers \in [Location -> 0 .. Word - 1]
  BY DEF TypeOK, Write
<1>2. At(t, 0) \in Location /\ At(t, 0) \in Uses(t) /\ Uses(t) \subseteq {At(t, 0), At(t, 1)}
  BY <1>1, TableFacts, UsesFacts
<1>3. CASE WriteCoil(t, value)
  <2>1. t.type = "BOOL" /\ value \in BOOLEAN
    BY <1>1, <1>3, TableFacts DEF WriteCoil, Values
  <2>2. coils' = [coils EXCEPT ![At(t, 0)] = value] /\ registers' = registers
    BY <1>3 DEF WriteCoil
  <2>3. DeviceValue(t)' = value
    BY <1>1, <1>2, <2>1, <2>2 DEF DeviceValue
  <2> QED
    BY <1>1, <1>2, <2>1, <2>2, <2>3
<1>4. CASE WriteRegister(t, regs)
  <2>1. t.type \in Short
    BY <1>1, <1>4, TableFacts DEF WriteRegister
  <2>2. registers' = [registers EXCEPT ![At(t, 0)] = regs[1]] /\ coils' = coils
    BY <1>4 DEF WriteRegister
  <2>3. regs[1] \in 0 .. Word - 1 /\ Meant(t, regs[1], registers'[At(t, 1)]) = value
    BY <1>1, <2>1, ShortMeant
  <2>4. DeviceValue(t)' = value
    BY <1>1, <1>2, <2>1, <2>2, <2>3 DEF DeviceValue, Short
  <2> QED
    BY <1>1, <1>2, <2>2, <2>3, <2>4
<1>5. CASE WriteRegisters(t, regs)
  <2>1. t.type \in Short \cup Wide
    BY <1>1, <1>5, TableFacts DEF WriteRegisters
  <2>2. regs[1] \in 0 .. Word - 1 /\ regs[2] \in 0 .. Word - 1
    BY <1>1, <2>1, ShortMeant, WideMeant, WordAssumption, SMT
  <2>3. registers' = [l \in Location |->
                       IF \E i \in 1 .. t.quantity : l = At(t, i - 1)
                       THEN regs[l[2] - t.address + 1]
                       ELSE registers[l]]
        /\ coils' = coils
    BY <1>5 DEF WriteRegisters
  <2>4. t.address \in Nat /\ t.quantity \in {1, 2}
    BY <1>1, TableFacts
  <2>5. registers'[At(t, 0)] = regs[1]
    <3>1. At(t, 0)[2] - t.address + 1 = 1 /\ At(t, 0) = At(t, 1 - 1)
      BY <2>4, SMT DEF At
    <3> QED
      BY <1>2, <2>3, <2>4, <3>1
  <2>6. t.quantity = 2 => /\ At(t, 1) \in Location
                          /\ registers'[At(t, 1)] = regs[2]
    <3>1. At(t, 1)[2] - t.address + 1 = 2 /\ At(t, 1) = At(t, 2 - 1)
      BY <2>4, SMT DEF At
    <3>2. t.quantity = 2 => At(t, 1) \in Location
      BY <1>1, TableFacts, UsesFacts
    <3> QED
      BY <2>3, <3>1, <3>2
  <2>7. \A l \in Location \ Uses(t) : registers'[l] = registers[l]
    <3>1. SUFFICES ASSUME NEW l \in Location \ Uses(t),
                          NEW i \in 1 .. t.quantity, l = At(t, i - 1)
                   PROVE  FALSE
      BY <2>3
    <3>2. i - 1 \in 0 .. t.quantity - 1
      BY <2>4, SMT
    <3> QED
      BY <3>1, <3>2 DEF Uses
  <2>8. registers' \in [Location -> 0 .. Word - 1]
    <3>1. \A l \in Location \cap Uses(t) : registers'[l] \in 0 .. Word - 1
      <4>1. CASE t.quantity = 1
        <5>1. Uses(t) \subseteq {At(t, 0)}
          BY <4>1, SMT DEF Uses
        <5> QED
          BY <2>2, <2>5, <5>1
      <4>2. CASE t.quantity = 2
        BY <1>2, <2>2, <2>5, <2>6, <4>2
      <4> QED
        BY <2>4, <4>1, <4>2
    <3> QED
      BY <1>1, <2>3, <2>7, <3>1
  <2>9. DeviceValue(t)' = value
    <3>1. CASE t.type \in Short
      <4>1. Meant(t, regs[1], registers'[At(t, 1)]) = value
        BY <1>1, <3>1, ShortMeant
      <4> QED
        BY <2>5, <3>1, <4>1 DEF DeviceValue, Short
    <3>2. CASE t.type \in Wide
      <4>1. Meant(t, regs[1], regs[2]) = value /\ t.quantity = 2
        BY <1>1, <3>2, WideMeant, TableFacts
      <4> QED
        BY <2>5, <2>6, <3>2, <4>1 DEF DeviceValue, Wide
    <3> QED
      BY <2>1, <3>1, <3>2
  <2> QED
    BY <1>1, <2>3, <2>7, <2>8, <2>9
<1> QED
  BY <1>3, <1>4, <1>5 DEF Write

\* A measurement leaves alone what a command uses.
LEMMA MeasuresOwn ==
  ASSUME TypeOK, NEW s \in tags, NEW number \in Sample, Measure(s, number)
  PROVE  /\ registers' \in [Location -> 0 .. Word - 1]
         /\ \A l \in Location \ Uses(s) : registers'[l] = registers[l]
<1>1. s.quantity \in {1, 2} /\ plant \in DOMAIN Plants
  <2>1. WellAddressed(tags)
    BY PlantsAssumption DEF tags, TypeOK
  <2> QED
    BY <2>1 DEF WellAddressed, Measure, TypeOK
<1>2. number \in 0 .. Long - 1 /\ number \in Nat
  BY <1>1, SampleFits, SMT
<1>3. PICK high \in 0 .. Word - 1, low \in 0 .. Word - 1 :
        high = number \div Word /\ low = number % Word
  BY <1>2, Words
<1>4. registers' = IF s.quantity = 1
                   THEN [registers EXCEPT ![At(s, 0)] = low]
                   ELSE [registers EXCEPT ![At(s, 0)] = high, ![At(s, 1)] = low]
  BY <1>3 DEF Measure
<1>5. registers \in [Location -> 0 .. Word - 1]
  BY DEF TypeOK
<1>6. At(s, 0) \in Uses(s) /\ (s.quantity = 2 => At(s, 1) \in Uses(s))
  BY <1>1, UsesFacts
<1> QED
  BY <1>1, <1>4, <1>5, <1>6

----------------------------------------------------------------------------
(* The invariant is inductive *)

LEMMA Initial == Init => IInv
<1>1. ASSUME Init PROVE IInv
  <2>1. 0 \in 0 .. Word - 1
    BY WordAssumption, SMT
  <2>2. TypeOK
    BY <1>1, <2>1 DEF Init, TypeOK
  <2>3. commanded \in [Equipment -> {NONE}]
    BY <1>1 DEF Init, Equipment
  <2>4. \A t \in tags : commanded[t.equipment] = NONE
    BY <2>3 DEF Equipment
  <2> QED
    BY <2>2, <2>3, <2>4 DEF IInv, CommandsUnderstood
<1> QED
  BY <1>1

\* The response is always of a tag of the table.
LEMMA Responds ==
  ASSUME TypeOK, NEW t \in tags, NEW frame, plant' = plant, on_modbus_data(t, frame)
  PROVE  response' = NONE \/ response'.tagId \in {u.id : u \in tags}
  BY DEF on_modbus_data, TypeOK

LEMMA Told ==
  ASSUME IInv, NEW t \in tags, NEW value \in Values(t.type), Write(t, value)
  PROVE  IInv'
<1>1. /\ Command(t) /\ Sendable(t) /\ plant' = plant /\ tags' = tags /\ TypeOK
      /\ plant \in DOMAIN Plants
      /\ commanded' = [commanded EXCEPT ![t.equipment] = value]
  BY DEF Write, tags, IInv, TypeOK
<1>2. PICK S : commanded \in [Equipment -> S]
  BY DEF IInv
<1>3. t.equipment \in Equipment /\ Equipment' = Equipment
  BY <1>1 DEF Equipment
<1>4. commanded' \in [Equipment' -> S \cup {value}]
  BY <1>1, <1>2, <1>3
<1>5. /\ coils' \in [Location -> BOOLEAN]
      /\ registers' \in [Location -> 0 .. Word - 1]
      /\ DeviceValue(t)' = value
      /\ \A l \in Location \ Uses(t) :
           coils'[l] = coils[l] /\ registers'[l] = registers[l]
  BY <1>1, Obeyed
<1>6. TypeOK'
  <2>1. response' = NONE \/ response'.tagId \in {u.id : u \in tags}
    BY <1>1, Responds DEF Write, WriteCoil, WriteRegister, WriteRegisters
  <2> QED
    BY <1>1, <1>4, <1>5, <2>1 DEF TypeOK
<1>7. commanded'[t.equipment] = value
      /\ \A u \in tags : Command(u) /\ u # t => commanded'[u.equipment] = commanded[u.equipment]
  BY <1>1, <1>2, <1>3, OwnEquipment DEF Equipment
<1>8. \A u \in tags : Command(u) /\ ~Sendable(u) => commanded'[u.equipment] = NONE
  BY <1>1, <1>7 DEF IInv
<1>9. ASSUME NEW u \in tags, Command(u), commanded'[u.equipment] # NONE
      PROVE  DeviceValue(u)' = commanded'[u.equipment]
  <2>1. CASE u = t
    BY <1>5, <1>7, <2>1
  <2>2. CASE u # t
    <3>1. Sendable(u) /\ commanded'[u.equipment] = commanded[u.equipment]
      BY <1>7, <1>8, <1>9, <2>2
    <3>2. Uses(u) \subseteq Location \ Uses(t)
      BY <1>1, <1>9, <2>2, <3>1, TableFacts
    <3>3. DeviceValue(u)' = DeviceValue(u)
      BY <1>1, <1>5, <1>9, <3>1, <3>2, Untouched
    <3> QED
      BY <1>9, <3>1, <3>3 DEF IInv, CommandsUnderstood
  <2> QED
    BY <2>1, <2>2
<1>10. CommandsUnderstood'
  BY <1>1, <1>9 DEF CommandsUnderstood
<1> QED
  BY <1>1, <1>4, <1>6, <1>8, <1>10 DEF IInv

LEMMA Sensed ==
  ASSUME IInv, NEW s \in tags, NEW number \in Sample, Measure(s, number)
  PROVE  IInv'
<1>1. /\ plant' = plant /\ tags' = tags /\ TypeOK /\ plant \in DOMAIN Plants
      /\ UNCHANGED <<coils, commanded, response>> /\ s.code = "read_input"
  BY DEF Measure, tags, IInv, TypeOK
<1>2. /\ registers' \in [Location -> 0 .. Word - 1]
      /\ \A l \in Location \ Uses(s) : registers'[l] = registers[l]
  BY <1>1, MeasuresOwn
<1>3. TypeOK'
  BY <1>1, <1>2 DEF TypeOK, Equipment
<1>4. ASSUME NEW u \in tags, Command(u), commanded[u.equipment] # NONE
      PROVE  DeviceValue(u)' = commanded[u.equipment]
  <2>1. Sendable(u)
    BY <1>4 DEF IInv
  <2>2. u # s
    BY <1>1, <2>1 DEF Sendable, WriteCode
  <2>3. Uses(u) \subseteq Location \ Uses(s)
    BY <1>1, <1>4, <2>1, <2>2, TableFacts
  <2>4. DeviceValue(u)' = DeviceValue(u)
    BY <1>1, <1>2, <1>4, <2>1, <2>3, Untouched
  <2> QED
    BY <1>4, <2>4 DEF IInv, CommandsUnderstood
<1>5. CommandsUnderstood'
  BY <1>1, <1>4 DEF CommandsUnderstood
<1> QED
  BY <1>1, <1>3, <1>5 DEF IInv, Equipment

LEMMA Unmoved ==
  ASSUME IInv, UNCHANGED <<plant, coils, registers, commanded>>,
         response' = NONE \/ response'.tagId \in {u.id : u \in tags}
  PROVE  IInv'
  BY DEF IInv, TypeOK, CommandsUnderstood, DeviceValue, tags, Equipment

THEOREM Invariance == Spec => []IInv
<1>1. IInv /\ [Next]_vars => IInv'
  <2> SUFFICES ASSUME IInv, [Next]_vars
               PROVE  IInv'
    OBVIOUS
  <2>1. ASSUME NEW t \in tags, Read(t) PROVE IInv'
    <3>1. TypeOK /\ UNCHANGED <<plant, coils, registers, commanded>>
      BY <2>1 DEF Read, IInv
    <3>2. response' = NONE \/ response'.tagId \in {u.id : u \in tags}
      BY <2>1, <3>1, Responds DEF Read
    <3> QED
      BY <3>1, <3>2, Unmoved
  <2>2. ASSUME NEW t \in tags, NEW value \in Values(t.type), Write(t, value)
        PROVE  IInv'
    BY <2>2, Told
  <2>3. ASSUME NEW t \in tags, NEW number \in Sample, Measure(t, number)
        PROVE  IInv'
    BY <2>3, Sensed
  <2>4. CASE UNCHANGED vars
    BY <2>4, Unmoved DEF vars, IInv, TypeOK
  <2> QED
    BY <2>1, <2>2, <2>3, <2>4 DEF Next
<1> QED
  BY Initial, <1>1, PTL DEF Spec

\* Whatever the table, the registers and coils hold what fits them
\* (modbus_write_request, modbus_service.cpp:170).
THEOREM TypeCorrect == Spec => []TypeOK
<1>1. IInv => TypeOK
  BY DEF IInv
<1> QED
  BY <1>1, Invariance, PTL

\* In a well addressed table a device holds its last command as it was meant,
\* in both word orders and for every type, floats included
\* (modbus_write_request, modbus_service.cpp:170, and the codec).
THEOREM CommandsUnderstoodHolds == Spec => []CommandsUnderstood
<1>1. IInv => CommandsUnderstood
  BY DEF IInv
<1> QED
  BY <1>1, Invariance, PTL

----------------------------------------------------------------------------
(* What is read is what is meant *)

LEMMA Bounds ==
  /\ Byte \in Nat \ {0} /\ Word \in Nat \ {0} /\ Word = Byte * Byte
  /\ Long \in Nat \ {0}
  BY FramesAssumption, WordAssumption, SMT DEF Long

\* The data of a frame begin at its fourth byte.
LEMMA FrameData ==
  ASSUME NEW tag, NEW S, NEW data \in Seq(S)
  PROVE  /\ Len(DataFrame(tag, data)) = 3 + Len(data)
         /\ \A i \in 1 .. Len(data) : DataFrame(tag, data)[i + 3] = data[i]
<1> DEFINE head == <<tag.slave, tag.code, Len(data)>>
           T == S \cup {tag.slave, tag.code, Len(data)}
           frame == head \o data
<1>1. head \in Seq(T) /\ Len(head) = 3
  OBVIOUS
<1>2. data \in Seq(T) /\ Len(data) \in Nat
  OBVIOUS
<1> HIDE DEF head, T
<1>3. /\ Len(frame) = Len(head) + Len(data)
      /\ \A i \in 1 .. Len(head) + Len(data) :
           frame[i] = IF i <= Len(head) THEN head[i] ELSE data[i - Len(head)]
  BY <1>1, <1>2, ConcatProperties, Zenon
<1>4. DataFrame(tag, data) = frame
  BY DEF DataFrame, head
<1> HIDE DEF frame
<1>5. ASSUME NEW i \in 1 .. Len(data) PROVE frame[i + 3] = data[i]
  <2>1. i + 3 \in 1 .. Len(head) + Len(data) /\ ~(i + 3 <= Len(head)) /\ i + 3 - Len(head) = i
    BY <1>1, <1>2
  <2> QED
    BY <1>3, <2>1
<1> QED
  BY <1>1, <1>3, <1>4, <1>5

\* The same with the first bytes named.
LEMMA FrameBytes ==
  ASSUME NEW tag, NEW S, NEW data \in Seq(S), NEW n \in {1, 2, 4}, Len(data) = n
  PROVE  /\ Len(DataFrame(tag, data)) = 3 + n
         /\ DataFrame(tag, data)[4] = data[1]
         /\ n >= 2 => DataFrame(tag, data)[5] = data[2]
         /\ n = 4 => /\ DataFrame(tag, data)[6] = data[3]
                     /\ DataFrame(tag, data)[7] = data[4]
<1> DEFINE frame == DataFrame(tag, data)
<1>1. /\ Len(frame) = 3 + Len(data)
      /\ \A i \in 1 .. Len(data) : frame[i + 3] = data[i]
  BY FrameData, ZenonT(30)
<1> HIDE DEF frame
<1>2. /\ Len(frame) = 3 + n
      /\ frame[4] = data[1]
      /\ n >= 2 => frame[5] = data[2]
      /\ n = 4 => frame[6] = data[3] /\ frame[7] = data[4]
  <2>1. Len(frame) = 3 + n /\ \A i \in 1 .. n : frame[i + 3] = data[i]
    BY <1>1
  <2>2. 1 \in 1 .. n /\ (n >= 2 => 2 \in 1 .. n) /\ (n = 4 => 3 \in 1 .. n /\ 4 \in 1 .. n)
    OBVIOUS
  <2>3. frame[1 + 3] = data[1]
    BY <2>1, <2>2
  <2>4. n >= 2 => frame[2 + 3] = data[2]
    BY <2>1, <2>2
  <2>5. n = 4 => frame[3 + 3] = data[3] /\ frame[4 + 3] = data[4]
    BY <2>1, <2>2
  <2> QED
    BY <2>1, <2>3, <2>4, <2>5
<1> QED
  BY <1>2 DEF frame

LEMMA ByteFrame ==
  ASSUME NEW tag, NEW byte
  PROVE  GetByte(DataFrame(tag, <<byte>>), 3) = {byte}
<1> DEFINE data == <<byte>>
           frame == DataFrame(tag, data)
<1>1. data \in Seq({byte}) /\ Len(data) = 1 /\ data[1] = byte
  OBVIOUS
<1> HIDE DEF data
<1>2. Len(frame) = 3 + 1 /\ frame[4] = data[1]
  BY <1>1, FrameBytes
<1> HIDE DEF frame
<1>3. GetByte(frame, 3) = {byte}
  BY <1>1, <1>2 DEF GetByte
<1> QED
  BY <1>3 DEF frame, data

LEMMA TwoBytes ==
  ASSUME NEW w \in 0 .. Word - 1
  PROVE  /\ Bytes(w) \in Seq(Nat) /\ Len(Bytes(w)) = 2
         /\ Bytes(w)[1] * Byte + Bytes(w)[2] = w
<1> DEFINE high == w \div Byte
           low == w % Byte
<1>1. Byte \in Nat \ {0} /\ w \in Nat
  BY FramesAssumption, WordAssumption
<1>2. high \in Nat /\ low \in 0 .. Byte - 1
  BY <1>1, QuotientBounds, Zenon
<1>3. high * Byte + low = w
  BY <1>1, Division, Zenon
<1>4. Bytes(w) = <<high, low>>
  BY DEF Bytes
<1> HIDE DEF high, low
<1>5. high \in Nat /\ low \in Nat
  BY <1>1, <1>2
<1> QED
  BY <1>3, <1>4, <1>5

\* A register goes over the wire as two bytes and is put together again.
LEMMA WordFrame ==
  ASSUME NEW tag, NEW w \in 0 .. Word - 1
  PROVE  GetWord(DataFrame(tag, Bytes(w)), 3) = {w}
<1> DEFINE frame == DataFrame(tag, Bytes(w))
<1>1. Bytes(w) \in Seq(Nat) /\ Len(Bytes(w)) = 2
  BY TwoBytes
<1>2. Len(frame) = 3 + 2 /\ frame[4] = Bytes(w)[1] /\ frame[5] = Bytes(w)[2]
  BY <1>1, FrameBytes
<1> HIDE DEF frame
<1>3. GetWord(frame, 3) = {frame[4] * Byte + frame[5]}
  BY <1>2 DEF GetWord
<1> QED
  BY <1>2, <1>3, TwoBytes DEF frame

LEMMA LongFrame ==
  ASSUME NEW tag, NEW v \in 0 .. Word - 1, NEW w \in 0 .. Word - 1
  PROVE  LET frame == DataFrame(tag, Bytes(v) \o Bytes(w))
         IN  /\ GetWord(frame, 3) = {v} /\ Pairs(frame) = {<<v, w>>}
             /\ GetLong(frame, 3) = {v * Word + w}
<1> DEFINE data == Bytes(v) \o Bytes(w)
           frame == DataFrame(tag, data)
<1>1. /\ Bytes(v) \in Seq(Nat) /\ Len(Bytes(v)) = 2
      /\ Bytes(w) \in Seq(Nat) /\ Len(Bytes(w)) = 2
  BY TwoBytes
<1>2. /\ data \in Seq(Nat) /\ Len(data) = Len(Bytes(v)) + Len(Bytes(w))
      /\ \A i \in 1 .. Len(Bytes(v)) + Len(Bytes(w)) :
           data[i] = IF i <= Len(Bytes(v)) THEN Bytes(v)[i] ELSE Bytes(w)[i - Len(Bytes(v))]
  BY <1>1, ConcatProperties, Zenon
<1> HIDE DEF data
<1>3. Len(data) = 4 /\ \A i \in 1 .. 4 : data[i] = IF i <= 2 THEN Bytes(v)[i]
                                                          ELSE Bytes(w)[i - 2]
  BY <1>1, <1>2
<1>4. /\ data[1] = Bytes(v)[1] /\ data[2] = Bytes(v)[2]
      /\ data[3] = Bytes(w)[1] /\ data[4] = Bytes(w)[2]
  BY <1>3
<1>5. /\ Len(frame) = 3 + 4
      /\ frame[4] = data[1] /\ frame[5] = data[2] /\ frame[6] = data[3] /\ frame[7] = data[4]
  <2>0. data \in Seq(Nat)
    BY <1>2
  <2>1. /\ Len(frame) = 3 + Len(data)
        /\ \A i \in 1 .. Len(data) : frame[i + 3] = data[i]
    BY <2>0, FrameData, ZenonT(30)
  <2> HIDE DEF frame
  <2>2. Len(frame) = 3 + 4 /\ \A i \in 1 .. 4 : frame[i + 3] = data[i]
    BY <1>3, <2>1
  <2>3. frame[1 + 3] = data[1] /\ frame[2 + 3] = data[2]
    BY <2>2
  <2>4. frame[3 + 3] = data[3] /\ frame[4 + 3] = data[4]
    BY <2>2
  <2> QED
    BY <2>2, <2>3, <2>4
<1> HIDE DEF frame
<1>6. GetWord(frame, 3) = {frame[4] * Byte + frame[5]}
      /\ GetWord(frame, 5) = {frame[6] * Byte + frame[7]}
  BY <1>5 DEF GetWord
<1>7. GetWord(frame, 3) = {v} /\ GetWord(frame, 5) = {w}
  BY <1>4, <1>5, <1>6, TwoBytes
<1>8. Pairs(frame) = {<<v, w>>} /\ GetLong(frame, 3) = {v * Word + w}
  BY <1>5, <1>7 DEF Pairs, GetLong
<1> QED
  BY <1>7, <1>8 DEF frame, data

LEMMA ReadFacts ==
  ASSUME plant \in DOMAIN Plants, NEW t \in tags, ~Command(t), t.type # "STRING"
  PROVE  /\ t.quantity \in {1, 2} /\ At(t, 0) \in Location
         /\ t.type \in {"BOOL"} \cup Short \cup Wide
         /\ (t.type = "BOOL") <=> (t.code = "read_coils")
         /\ t.quantity = 2 => At(t, 1) \in Location
         /\ t.type \in Wide => t.quantity = 2
<1>1. WellAddressed(tags)
  BY PlantsAssumption DEF tags
<1>2. FitsItsType(t) /\ ((t.type = "BOOL") <=> (t.code = "read_coils"))
  BY <1>1 DEF WellAddressed
<1> QED
  BY <1>2, UsesFacts DEF FitsItsType, Short, Wide

LEMMA Exchange ==
  ASSUME NEW first \in 0 .. Word - 1, NEW second \in 0 .. Word - 1
  PROVE  Exchanged(second * Word + first) = first * Word + second
<1>1. second \in Nat /\ first \in Nat /\ second * Word \in Nat
  BY Bounds
<1>2. PICK v \in Nat : v = second * Word + first
  BY <1>1
<1>3. v \div Word = second /\ v % Word = first
  BY <1>1, <1>2, Bounds, QuotientUnique
<1> QED
  BY <1>2, <1>3 DEF Exchanged

\* What on_modbus_data takes from the frame of a reading.
Reading(t) ==
  IF t.type = "FLOAT32" /\ t.order = "CDAB" THEN Exchanged(DeviceValue(t)) ELSE DeviceValue(t)

LEMMA ReadStep ==
  ASSUME TypeOK, NEW t \in tags, Read(t), t.type # "STRING"
  PROVE  response' = [tagId |-> t.id, value |-> Reading(t)]
<1> DEFINE first == registers[At(t, 0)]
           second == registers[At(t, 1)]
<1>1. /\ ~Command(t) /\ plant \in DOMAIN Plants
      /\ coils \in [Location -> BOOLEAN] /\ registers \in [Location -> 0 .. Word - 1]
  BY DEF TypeOK, Read
<1>2. /\ t.quantity \in {1, 2} /\ At(t, 0) \in Location
      /\ t.type \in {"BOOL"} \cup Short \cup Wide
      /\ (t.type = "BOOL") <=> (t.code = "read_coils")
      /\ t.quantity = 2 => At(t, 1) \in Location
      /\ t.type \in Wide => t.quantity = 2
  BY <1>1, ReadFacts
<1>3. /\ first \in 0 .. Word - 1 /\ (t.quantity = 2 => second \in 0 .. Word - 1)
      /\ coils[At(t, 0)] \in BOOLEAN
  BY <1>1, <1>2
<1> HIDE DEF first, second
<1>4. SUFFICES ASSUME NEW frame, on_modbus_data(t, frame),
                      frame = DataFrame(t, IF t.code = "read_coils"
                                           THEN <<IF coils[At(t, 0)] THEN 1 ELSE 0>>
                                           ELSE IF t.quantity = 1 THEN Bytes(first)
                                                ELSE Bytes(first) \o Bytes(second))
               PROVE  decode(t, frame) = {Reading(t)}
  <2>1. PICK frame : /\ on_modbus_data(t, frame)
                     /\ frame = DataFrame(t, IF t.code = "read_coils"
                                           THEN <<IF coils[At(t, 0)] THEN 1 ELSE 0>>
                                           ELSE IF t.quantity = 1 THEN Bytes(first)
                                                ELSE Bytes(first) \o Bytes(second))
    BY DEF Read, first, second
  <2>2. decode(t, frame) = {Reading(t)}
    BY <2>1, <1>4
  <2> QED
    BY <2>1, <2>2 DEF on_modbus_data
<1>5. CASE t.type = "BOOL"
  <2>1. frame = DataFrame(t, <<IF coils[At(t, 0)] THEN 1 ELSE 0>>)
    BY <1>2, <1>4, <1>5
  <2>2. GetByte(frame, 3) = {IF coils[At(t, 0)] THEN 1 ELSE 0}
    BY <2>1, ByteFrame
  <2>3. decode(t, frame) = {coils[At(t, 0)]}
    <3>1. decode(t, frame) = {b % 2 = 1 : b \in GetByte(frame, 3)}
      BY <1>5 DEF decode
    <3>2. CASE coils[At(t, 0)] = TRUE
      <4>1. GetByte(frame, 3) = {1} /\ 1 % 2 = 1
        BY <2>2, <3>2
      <4> QED
        BY <3>1, <3>2, <4>1
    <3>3. CASE coils[At(t, 0)] = FALSE
      <4>1. GetByte(frame, 3) = {0} /\ 0 % 2 # 1
        BY <2>2, <3>3
      <4>2. decode(t, frame) = {0 % 2 = 1}
        BY <3>1, <4>1, Zenon
      <4> QED
        BY <3>3, <4>1, <4>2
    <3> QED
      BY <1>3, <3>2, <3>3
  <2> QED
    BY <1>5, <2>3 DEF Reading, DeviceValue
<1>6. CASE t.type \in Short
  <2>1. GetWord(frame, 3) = {first}
    <3>1. CASE t.quantity = 1
      BY <1>2, <1>3, <1>4, <1>6, <3>1, WordFrame DEF Short
    <3>2. CASE t.quantity = 2
      BY <1>2, <1>3, <1>4, <1>6, <3>2, LongFrame DEF Short
    <3> QED
      BY <1>2, <3>1, <3>2
  <2>2. decode(t, frame) = {IF t.type = "UINT16" THEN first ELSE Signed(first, Word)}
    BY <1>6, <2>1 DEF decode, Short
  <2>3. Reading(t) = IF t.type = "UINT16" THEN first ELSE Signed(first, Word)
    BY <1>6 DEF Reading, DeviceValue, Meant, Short, first
  <2> QED
    BY <2>2, <2>3
<1>7. CASE t.type \in Wide
  <2>1. frame = DataFrame(t, Bytes(first) \o Bytes(second)) /\ t.quantity = 2
    BY <1>2, <1>4, <1>7 DEF Wide
  <2>2. Pairs(frame) = {<<first, second>>} /\ GetLong(frame, 3) = {first * Word + second}
    BY <1>3, <2>1, LongFrame
  <2> DEFINE number == decode_uint32(<<first, second>>, t.order)
  <2>3. number = IF t.order = "CDAB" THEN second * Word + first ELSE first * Word + second
    BY DEF decode_uint32
  <2>4. DeviceValue(t) = IF t.type = "INT32" THEN Signed(number, Long) ELSE number
    BY <1>7, <2>3 DEF DeviceValue, Meant, Wide, first, second
  <2>5. CASE t.type = "UINT32"
    <3>1. decode(t, frame) = {decode_uint32(regs, t.order) : regs \in Pairs(frame)}
      BY <2>5 DEF decode
    <3> QED
      BY <2>2, <2>4, <2>5, <3>1 DEF Reading
  <2>6. CASE t.type = "INT32"
    <3>1. decode(t, frame) = {decode_int32(regs, t.order) : regs \in Pairs(frame)}
      BY <2>6 DEF decode
    <3> QED
      BY <2>2, <2>4, <2>6, <3>1 DEF Reading, decode_int32
  <2>7. CASE t.type = "FLOAT32"
    <3>1. decode(t, frame) = {first * Word + second}
      BY <2>2, <2>7 DEF decode
    <3>2. Reading(t) = first * Word + second
      BY <1>3, <2>1, <2>3, <2>4, <2>7, Exchange DEF Reading
    <3> QED
      BY <3>1, <3>2
  <2> QED
    BY <1>7, <2>5, <2>6, <2>7 DEF Wide
<1> QED
  BY <1>2, <1>5, <1>6, <1>7

\* on_modbus_data reads what the device means, for every type and word order,
\* but for floats sent low word first, whose words it exchanges
\* (modbus_service.cpp:67).
THEOREM ReadsTrueHolds == Spec => ReadsTrue
<1>1. ASSUME TypeOK, NEW t \in tags, Read(t), t.type # "STRING"
      PROVE  response'.value = IF t.type = "FLOAT32" /\ t.order = "CDAB"
                               THEN Exchanged(DeviceValue(t))
                               ELSE DeviceValue(t)
  BY <1>1, ReadStep DEF Reading
<1>2. TypeOK => \A t \in tags : Answered(t)' /\ Read(t) /\ t.type # "STRING"
        => response'.value = IF t.type = "FLOAT32" /\ t.order = "CDAB"
                             THEN Exchanged(DeviceValue(t))
                             ELSE DeviceValue(t)
  BY <1>1
<1> QED
  BY <1>2, TypeCorrect, PTL DEF ReadsTrue

\* In a table whose statuses read where the commands of their equipment write,
\* a status shows the last command given to its equipment, and none given to
\* another (on_modbus_data and modbus_write_request, modbus_service.cpp:170).
THEOREM StatusShowsCommandHolds ==
  ASSUME \A p \in DOMAIN Plants : StatusesMatch(Plants[p])
  PROVE  Spec => StatusShowsCommand
<1>1. ASSUME IInv, NEW t \in tags, Read(t), t.code \in {"read_coils", "read_holding"},
             t.type # "FLOAT32" \/ t.order # "CDAB", commanded[t.equipment] # NONE
      PROVE  response'.value = commanded[t.equipment]
  <2>1. plant \in DOMAIN Plants /\ ~Command(t) /\ t.equipment \in Equipment
    BY <1>1 DEF IInv, TypeOK, Read, Equipment
  <2>2. PICK u \in tags : Command(u) /\ Sendable(u) /\ u.equipment = t.equipment
    BY <1>1, <2>1 DEF IInv
  <2>3. t.slave = u.slave /\ t.address = u.address /\ t.type = u.type /\ t.order = u.order
    BY <1>1, <2>1, <2>2 DEF StatusesMatch, tags
  <2>4. DeviceValue(t) = DeviceValue(u)
    BY <2>3 DEF DeviceValue, Meant, At
  <2>5. DeviceValue(u) = commanded[t.equipment]
    BY <1>1, <2>2 DEF IInv, CommandsUnderstood
  <2>6. t.type # "STRING"
    BY <2>2, <2>3 DEF Sendable
  <2>7. response' = [tagId |-> t.id, value |-> Reading(t)]
    BY <1>1, <2>6, ReadStep DEF IInv
  <2> QED
    BY <1>1, <2>4, <2>5, <2>7 DEF Reading
<1>2. IInv => \A t \in tags :
        /\ Answered(t)'
        /\ Read(t)
        /\ t.code \in {"read_coils", "read_holding"}
        /\ t.type # "FLOAT32" \/ t.order # "CDAB"
        /\ commanded[t.equipment] # NONE
        => response'.value = commanded[t.equipment]
  BY <1>1
<1> QED
  BY <1>2, Invariance, PTL DEF StatusShowsCommand

----------------------------------------------------------------------------
(* The table of the repository *)

LEMMA TableEntries ==
  /\ \A t \in Controls :
       /\ t.slave = 1 /\ t.address \in 0 .. 5 /\ t.code = "write_coil"
       /\ t.access = "WRITE_ONLY" /\ t.type = "BOOL" /\ t.order = "CDAB" /\ t.quantity = 1
       /\ t.equipment = Relays[t.address + 1]
       /\ t = Tag(t.address + 1, Relays[t.address + 1], 1, t.address, "write_coil",
                  "WRITE_ONLY", "BOOL", "CDAB", 1)
  /\ \A t \in Statuses :
       /\ t.slave = 1 /\ t.address \in 0 .. 5 /\ t.code = "read_coils"
       /\ t.access = "READ_ONLY" /\ t.type = "BOOL" /\ t.order = "CDAB" /\ t.quantity = 1
       /\ t.equipment = Relays[t.address + 1]
  /\ \A t \in Currents :
       /\ t.slave = 2 /\ t.address \in 0 .. 5 /\ t.code = "read_input"
       /\ t.access = "READ_ONLY" /\ t.type = "UINT16" /\ t.quantity = 1
<1>1. ASSUME NEW i \in 1 .. 6 PROVE i - 1 \in 0 .. 5 /\ i - 1 + 1 = i
  OBVIOUS
<1>2. ASSUME NEW i \in 1 .. 7 PROVE (IF i = 1 THEN 0 ELSE i - 2) \in 0 .. 5
  OBVIOUS
<1> QED
  BY <1>1, <1>2 DEF Controls, Statuses, Currents, Tag

LEMMA RelaysDiffer ==
  ASSUME NEW i \in 0 .. 5, NEW j \in 0 .. 5, Relays[i + 1] = Relays[j + 1]
  PROVE  i = j
<1>1. i \in {0, 1, 2, 3, 4, 5} /\ j \in {0, 1, 2, 3, 4, 5}
  OBVIOUS
<1> QED
  BY <1>1 DEF Relays

\* What the theorems ask of a table is true of the repository's: its commands
\* have coils of their own, its readings the width of their types, and its
\* statuses read the coils their commands write (tag_registry.cpp:5).
THEOREM RepositoryTableFits ==
  ASSUME (1 .. 2) \X (0 .. 5) \subseteq Location
  PROVE  WellAddressed(gTags) /\ StatusesMatch(gTags)
<1> USE TableEntries
<1>1. ASSUME NEW t, t.quantity = 1, t.address \in 0 .. 5
      PROVE  Uses(t) = {<<t.slave, t.address>>}
  <2>1. 0 .. t.quantity - 1 = {0} /\ t.address + 0 = t.address
    BY <1>1
  <2> QED
    BY <2>1 DEF Uses, At
<1>2. ASSUME NEW t \in gTags
      PROVE  FitsItsType(t) /\ (t.type = "BOOL" <=> t.code \in {"read_coils", "write_coil"})
  <2>1. /\ t.slave \in 1 .. 2 /\ t.address \in 0 .. 5 /\ t.quantity = 1
        /\ t.type \in {"BOOL", "UINT16"}
        /\ t.type = "BOOL" <=> t.code \in {"read_coils", "write_coil"}
    BY DEF gTags
  <2> QED
    BY <1>1, <2>1 DEF FitsItsType
<1>3. ASSUME NEW t \in gTags
      PROVE  /\ Command(t) <=> t \in Controls
             /\ t.code = "write_coil" <=> t \in Controls
             /\ t.code = "read_coils" <=> t \in Statuses
             /\ t.code = "read_input" <=> t \in Currents
  BY DEF gTags, Command
<1>4. ASSUME NEW t \in Controls, NEW u \in Controls, t # u
      PROVE  t.address # u.address /\ t.equipment # u.equipment
  BY <1>4, RelaysDiffer
<1>5. ASSUME NEW t \in Controls, NEW u \in gTags, u # t, u \in Controls \cup Currents
      PROVE  Uses(u) \cap Uses(t) = {}
  <2>1. Uses(t) = {<<t.slave, t.address>>} /\ Uses(u) = {<<u.slave, u.address>>}
    BY <1>1, <1>5
  <2>2. u.slave # t.slave \/ u.address # t.address
    BY <1>4, <1>5
  <2> QED
    BY <2>1, <2>2
<1>6. WellAddressed(gTags)
  BY <1>2, <1>3, <1>4, <1>5 DEF WellAddressed
<1>7. ASSUME NEW t \in Statuses, NEW u \in Controls, t.equipment = u.equipment
      PROVE  t.slave = u.slave /\ t.address = u.address /\ t.type = u.type /\ t.order = u.order
  BY <1>7, RelaysDiffer
<1>8. ASSUME NEW t \in gTags, t.code \in {"read_coils", "read_holding"} PROVE t \in Statuses
  BY <1>8 DEF gTags
<1>9. StatusesMatch(gTags)
  BY <1>3, <1>7, <1>8 DEF StatusesMatch
<1> QED
  BY <1>6, <1>9
=============================================================================
