-------------------------- MODULE LoadInstructions --------------------------
(***************************************************************************)
(* The load instructions (cpu/load_instructions.hpp).  A handler reads its *)
(* opcode and operands at the program counter and gives the registers and  *)
(* the memory it leaves and the cycles it took; it advances the program    *)
(* counter by a length of its own, not by the instruction table's.         *)
(***************************************************************************)
EXTENDS MemoryMap, Registers

Opcode(r, m) == Read(m, r.pc)
Immediate(r, m) == Read(m, Plus(r.pc, 1))
ImmediateWord(r, m) == Pair(Read(m, Plus(r.pc, 2)), Read(m, Plus(r.pc, 1)))

\* What a handler of the given length leaves.
After(r, m, length, cycles) ==
  [regs |-> [r EXCEPT !.pc = Plus(r.pc, length)], mem |-> m, cycles |-> cycles]

Source(opcode) == opcode % 8               \* bits 0-2
Destination(opcode) == (opcode \div 8) % 8 \* bits 3-5

-----------------------------------------------------------------------------
(* 8-bit loads. *)

ld_r_n(r, m) == After(Set(r, Destination(Opcode(r, m)), Immediate(r, m)), m, 2, 8)

\* Register number 6 stands for the byte at HL.
ld_r_r(r, m) ==
  LET src == Source(Opcode(r, m))
      dst == Destination(Opcode(r, m))
      value == IF src = 6 THEN Read(m, r.hl) ELSE Get(r, src)
  IN  IF dst = 6 THEN After(r, Write(m, r.hl, value), 1, 8)
      ELSE After(Set(r, dst, value), m, 1, IF src = 6 THEN 8 ELSE 4)

\* The pair that holds the address: BC, DE, or HL for LD A,(HL+) and (HL-).
Pointer(r, opcode) ==
  CASE opcode \in {\h02, \h0A} -> r.bc
    [] opcode \in {\h12, \h1A} -> r.de
    [] OTHER -> r.hl

\* Fault: HL+ and HL- exchanged.
StepHLBack(r, opcode) ==
  CASE opcode \in {\h22, \h2A} -> [r EXCEPT !.hl = AsWord(r.hl - 1)]
    [] opcode \in {\h32, \h3A} -> [r EXCEPT !.hl = AsWord(r.hl + 1)]
    [] OTHER -> r

StepHL(r, opcode) ==
  CASE opcode \in {\h22, \h2A} -> [r EXCEPT !.hl = AsWord(r.hl + 1)]
    [] opcode \in {\h32, \h3A} -> [r EXCEPT !.hl = AsWord(r.hl - 1)]
    [] OTHER -> r

ld_a_mem(r, m) ==
  LET opcode == Opcode(r, m)
  IN  After(StepHL(Set(r, A, Read(m, Pointer(r, opcode))), opcode), m, 1, 8)

ld_mem_a(r, m) ==
  LET opcode == Opcode(r, m)
  IN  After(StepHL(r, opcode), Write(m, Pointer(r, opcode), Get(r, A)), 1, 8)

ld_a_abs(r, m) ==
  LET addr == ImmediateWord(r, m)
  IN  IF Opcode(r, m) = \hEA THEN After(r, Write(m, addr, Get(r, A)), 3, 16)
      ELSE After(Set(r, A, Read(m, addr)), m, 3, 16)

\* Fault: every form is taken to have an operand byte.
IoLengthTwo(opcode) == 2

\* LDH has an operand byte; the forms that use C have none.
IoLength(opcode) == IF opcode \in {\hE0, \hF0} THEN 2 ELSE 1

IoAddress(r, m) ==
  \hFF00 + IF Opcode(r, m) \in {\hE0, \hF0} THEN Immediate(r, m) ELSE Get(r, C)

ld_io_a(r, m) ==
  LET opcode == Opcode(r, m)
      addr == IoAddress(r, m)
  IN  IF opcode \in {\hE0, \hE2}
      THEN After(r, Write(m, addr, Get(r, A)), IoLength(opcode), 12)
      ELSE After(Set(r, A, Read(m, addr)), m, IoLength(opcode), 12)

-----------------------------------------------------------------------------
(* 16-bit loads. *)

ld_rp_nn(r, m) ==
  LET value == ImmediateWord(r, m)
      opcode == Opcode(r, m)
  IN  After(CASE opcode = \h01 -> [r EXCEPT !.bc = value]
              [] opcode = \h11 -> [r EXCEPT !.de = value]
              [] opcode = \h21 -> [r EXCEPT !.hl = value]
              [] OTHER -> [r EXCEPT !.sp = value],
            m, 3, 12)

\* Little endian; the second address wraps.
WriteWord(m, addr, w) == Write(Write(m, addr, Low(w)), Plus(addr, 1), High(w))

ld_nn_sp(r, m) == After(r, WriteWord(m, ImmediateWord(r, m), r.sp), 3, 20)

ld_sp_hl(r, m) == After([r EXCEPT !.sp = r.hl], m, 1, 8)

\* The value the code pushes, by opcode.
Pushed(r, opcode) ==
  CASE opcode = \hC5 -> r.bc [] opcode = \hD5 -> r.de
    [] opcode = \hE5 -> r.hl [] OTHER -> r.af

PushWord(m, sp, w) ==
  Write(Write(m, AsWord(sp - 1), High(w)), AsWord(sp - 2), Low(w))

push_rp(r, m) ==
  After([r EXCEPT !.sp = AsWord(r.sp - 2)],
        PushWord(m, r.sp, Pushed(r, Opcode(r, m))), 1, 16)

\* The word on top of the stack: low byte at SP, high byte above it.
Top(r, m) == Pair(Read(m, Plus(r.sp, 1)), Read(m, r.sp))

pop_rp(r, m) ==
  LET value == Top(r, m)
      opcode == Opcode(r, m)
      popped == [r EXCEPT !.sp = Plus(r.sp, 2)]
  IN  After(CASE opcode = \hC1 -> [popped EXCEPT !.bc = value]
              [] opcode = \hD1 -> [popped EXCEPT !.de = value]
              [] opcode = \hE1 -> [popped EXCEPT !.hl = value]
              [] OTHER -> [popped EXCEPT !.af = FlagsOnly(value)],
            m, 1, 12)

Signed(b) == IF b >= 128 THEN b - 256 ELSE b   \* static_cast<std::int8_t>

\* The carries are those of the unsigned low nibbles and low bytes.
ld_hl_sp_n(r, m) ==
  LET n == Immediate(r, m)
      loaded == [r EXCEPT !.hl = AsWord(r.sp + Signed(n))]
      cleared == SetFlag(SetFlag(loaded, ZeroFlag, FALSE), SubtractFlag, FALSE)
      halfCarry == (r.sp % 16) + (n % 16) > 15
      carry == (r.sp % 256) + n > 255
  IN  After(SetFlag(SetFlag(cleared, HalfCarryFlag, halfCarry), CarryFlag, carry),
            m, 2, 12)
=============================================================================
