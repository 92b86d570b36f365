----------------------------- MODULE ModbusCodec -----------------------------
(***************************************************************************)
(* modbus_codec.cpp: tag values to registers and back.  A 32-bit value     *)
(* takes two registers; a word order other than WORD_CDAB is taken for     *)
(* WORD_ABCD.  A float is the 32 bits that represent it.                   *)
(***************************************************************************)
EXTENDS Integers, Sequences

CONSTANT Word     \* 2^16, what a register holds

ASSUME WordAssumption == Word \in Nat \ {0, 1}

Long == Word * Word

\* The casts between signed and unsigned integers of the same width.
Unsigned(i, modulus) == IF i < 0 THEN i + modulus ELSE i
Signed(u, modulus) == IF 2 * u < modulus THEN u ELSE u - modulus

encode_uint16(value) == <<value>>

\* Mutant: the value is not cast to an unsigned register.
encode_int16_signed(value) == <<value>>

encode_int16(value) == <<Unsigned(value, Word)>>

\* Mutant: the words are never exchanged.
encode_uint32_straight(value, order) == <<value \div Word, value % Word>>

encode_uint32(value, order) ==
  IF order = "CDAB"
  THEN <<value % Word, value \div Word>>
  ELSE <<value \div Word, value % Word>>

encode_int32(value, order) == encode_uint32(Unsigned(value, Long), order)

encode_float32(value, order) == encode_uint32(value, order)

decode_uint32(regs, order) ==
  IF order = "CDAB"
  THEN regs[2] * Word + regs[1]
  ELSE regs[1] * Word + regs[2]

\* Mutant: the result is not cast to a signed integer.
decode_int32_unsigned(regs, order) == decode_uint32(regs, order)

decode_int32(regs, order) == Signed(decode_uint32(regs, order), Long)
=============================================================================
