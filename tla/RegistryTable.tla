---------------------------- MODULE RegistryTable ----------------------------
(***************************************************************************)
(* The table gTags[] of tag_registry.cpp as it is: the Modbus address of   *)
(* every tag.  A tag's name begins with the equipment it belongs to.       *)
(***************************************************************************)
EXTENDS Naturals, Sequences

\* Function codes 0x05, 0x06 and 0x10; those of reads are read_coils,
\* read_holding and read_input, 0x01, 0x03 and 0x04.
WriteCode == {"write_coil", "write_register", "write_registers"}

Tag(id, equipment, slave, address, code, access, type, order, quantity) ==
  [id |-> id, equipment |-> equipment, slave |-> slave, address |-> address,
   code |-> code, access |-> access, type |-> type, order |-> order,
   quantity |-> quantity]

Relays == <<"MACH", "MODE", "RSP", "AIB", "FFP", "PSS">>

\* Tags 1 to 6, MACH-YC to PSS-YC.
Controls ==
  {Tag(i, Relays[i], 1, i - 1, "write_coil", "WRITE_ONLY", "BOOL", "CDAB", 1)
     : i \in 1 .. 6}

\* Mutant: a copied entry keeps the address of the one before it.
StatusesCopied ==
  {Tag(i + 6, Relays[i], 1, IF i = 6 THEN 4 ELSE i - 1, "read_coils", "READ_ONLY",
       "BOOL", "CDAB", 1) : i \in 1 .. 6}

\* Tags 7 to 12, MACH-YT to PSS-YT.
Statuses ==
  {Tag(i + 6, Relays[i], 1, i - 1, "read_coils", "READ_ONLY", "BOOL", "CDAB", 1)
     : i \in 1 .. 6}

\* Tags 13 to 19, DUMMY-01 and MACH-IT to AIB_2-IT; the dummy reads the
\* machine's register.
Measured == <<"MACH", "MACH", "RSP", "AIB", "FFP", "PSS", "AIB_2">>

Currents ==
  {Tag(i + 12, Measured[i], 2, IF i = 1 THEN 0 ELSE i - 2, "read_input",
       "READ_ONLY", "UINT16", "ABCD", 1) : i \in 1 .. 7}

gTags == Controls \cup Statuses \cup Currents
=============================================================================
