------------------------------- MODULE Bytes -------------------------------
(***************************************************************************)
(* The integer types of the emulator (core/types.hpp): 8-bit values,       *)
(* 16-bit values and the conversions between them.  A value is a natural   *)
(* number and keeps the width it has in the code.                          *)
(***************************************************************************)
EXTENDS Integers

Byte == {n \in Nat : n < 256}     \* std::uint8_t, core::Register, core::Cycles
Word == {n \in Nat : n < 65536}   \* std::uint16_t, core::Address, core::RegisterPair

AsByte(n) == n % 256      \* static_cast<std::uint8_t>

\* Fault: the value keeps the width of int.
AsInt(n) == n

AsWord(n) == n % 65536    \* static_cast<std::uint16_t>

\* A register pair and its halves: RegisterPair(high, low), high(), low().
Pair(high, low) == high * 256 + low
High(w) == w \div 256
Low(w) == w % 256

\* Address + offset, wrapping at 16 bits.
Plus(a, offset) == AsWord(a + offset)

(***************************************************************************)
(* Bits of a byte, 0 the least significant.  BitValue[i] is 1U << i.       *)
(***************************************************************************)
BitValue == [i \in 0 .. 7 |->
               CASE i = 0 -> 1  [] i = 1 -> 2  [] i = 2 -> 4  [] i = 3 -> 8
                 [] i = 4 -> 16 [] i = 5 -> 32 [] i = 6 -> 64 [] OTHER -> 128]

\* 1U << i, for the bits of a wider value.
ByteValue == [j \in 0 .. 3 |-> CASE j = 0 -> 1 [] j = 1 -> 256 [] j = 2 -> 65536
                                [] OTHER -> 16777216]
OneShifted(i) == BitValue[i % 8] * ByteValue[i \div 8]

Bit(b, i) == (b \div BitValue[i]) % 2 = 1

\* Fault: the bit is added, set or not.
AddBit(b, i) == b + BitValue[i]

\* b |= 1U << i and b &= ~(1U << i)
SetBit(b, i) == IF Bit(b, i) THEN b ELSE b + BitValue[i]
ClearBit(b, i) == IF Bit(b, i) THEN b - BitValue[i] ELSE b

\* The set bits of a byte.
Bits(b) == {i \in 0 .. 7 : Bit(b, i)}
=============================================================================
