---------------------------- MODULE RegisterBytes ----------------------------
(***************************************************************************)
(* The byte arithmetic with which the driver changes Registers 4 and 5 and *)
(* takes Register 1 apart. The other modules keep those registers as sets  *)
(* of bits, or as records; that this is the same is checked here for every *)
(* byte.                                                                   *)
(***************************************************************************)
EXTENDS Uc120Types, Bitwise, Integers

Byte == 0 .. 255
BitsOf(byte) == {i \in 0 .. 7 : (byte \div 2 ^ i) % 2 = 1}
Flag(on) == IF on THEN 1 ELSE 0

\* reg ^= (reg ^ value) & mask
Merge(reg, value, mask) == reg ^^ ((reg ^^ value) & mask)

ToggleByte(reg, on)    == Merge(reg, 2 * Flag(on), 2)
VConnByte(reg, on)     == Merge(reg, 32 * Flag(on), 32)
PowerByte(reg, on)     == Merge(reg, Flag(on), 1)
DataByte(reg, on)      == Merge(reg, 4 * Flag(on), 4)
RolePmicByte(reg, on)  == Merge(reg, 64 * Flag(on), 64)
GoodCrcByte(reg, on)   == (reg & 127) | (128 * Flag(on))
PmicByte(reg, on)      == IF on THEN reg | 64 ELSE reg & 191
IrqByte(reg, on)       == IF on THEN reg | 1 ELSE reg & 254

\* Each formula sets or clears the one bit it is about and no other.
ASSUME FormulasChangeOneBit ==
  \A reg \in Byte, on \in BOOLEAN :
    LET Changes(byte, bit) == byte \in Byte /\ BitsOf(byte) = With(BitsOf(reg), bit, on)
    IN /\ Changes(ToggleByte(reg, on), 1)
       /\ Changes(VConnByte(reg, on), 5)
       /\ Changes(PowerByte(reg, on), 0)
       /\ Changes(DataByte(reg, on), 2)
       /\ Changes(RolePmicByte(reg, on), 6)
       /\ Changes(GoodCrcByte(reg, on), 7)
       /\ Changes(PmicByte(reg, on), 6)
       /\ Changes(IrqByte(reg, on), 0)

\* D0 entry: two bits of Register4 are set, Register5 is set as a whole; the
\* interrupt enable clears bit 7 of Register5.
ASSUME EntryBytes ==
  /\ \A reg \in Byte : BitsOf(reg | 6) = BitsOf(reg) \cup {1, 2}
  /\ BitsOf(136) = {3, 7}
  /\ \A reg \in Byte : BitsOf(reg & 127) = BitsOf(reg) \ {7}

\* Register 1 is a type in three bits and a size in five, nothing else.
ASSUME TypeAndSize ==
  \A reg \in Byte : reg = 32 * (reg \div 2 ^ 5) + (reg & 31)
=============================================================================
