----------------------------- MODULE Registers -----------------------------
(***************************************************************************)
(* The register file (cpu/registers.hpp, cpu/flags.hpp): six 16-bit pairs, *)
(* four of which are also read and written by halves.  A register file is  *)
(* a record, and a setter gives the record that results.                   *)
(***************************************************************************)
EXTENDS Bytes

RegisterFile ==
  [af : Word, bc : Word, de : Word, hl : Word, sp : Word, pc : Word]

\* RegisterPair::set_high and set_low.
SetHigh(w, v) == Pair(v, Low(w))
SetLow(w, v) == Pair(High(w), v)

\* Fault: the mask is missing.
AllBits(n) == n

\* The low four bits of F do not exist: & 0xF0 and & 0xFFF0.
FlagsOnly(n) == n - (n % 16)

\* The 8-bit registers by their number in opcodes; 6 is not a register.
RegisterNumbers == {0, 1, 2, 3, 4, 5, 7}

Get(r, i) ==
  CASE i = 0 -> High(r.bc) [] i = 1 -> Low(r.bc)
    [] i = 2 -> High(r.de) [] i = 3 -> Low(r.de)
    [] i = 4 -> High(r.hl) [] i = 5 -> Low(r.hl)
    [] OTHER -> High(r.af)

Set(r, i, v) ==
  CASE i = 0 -> [r EXCEPT !.bc = SetHigh(r.bc, v)]
    [] i = 1 -> [r EXCEPT !.bc = SetLow(r.bc, v)]
    [] i = 2 -> [r EXCEPT !.de = SetHigh(r.de, v)]
    [] i = 3 -> [r EXCEPT !.de = SetLow(r.de, v)]
    [] i = 4 -> [r EXCEPT !.hl = SetHigh(r.hl, v)]
    [] i = 5 -> [r EXCEPT !.hl = SetLow(r.hl, v)]
    [] OTHER -> [r EXCEPT !.af = SetHigh(r.af, v)]

A == 7                  \* the number of the accumulator
C == 1

\* set_flag_zero and the other three: one bit of F, the rest of F masked.
SetFlag(r, bit, value) ==
  LET f == Low(r.af)
  IN  [r EXCEPT !.af =
         SetLow(r.af, FlagsOnly(IF value THEN SetBit(f, bit) ELSE ClearBit(f, bit)))]

ZeroFlag == 7
SubtractFlag == 6
HalfCarryFlag == 5
CarryFlag == 4
=============================================================================
