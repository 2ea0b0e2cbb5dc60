------------------------------ MODULE CpuProofs ------------------------------
(* The register file, the flags and the control flow of the CPU, for every   *)
(* program, every memory map and every sequence of calls.                    *)
EXTENDS Cpu, MemoryMapProofs

\* Registers with a clean F: the two facts every step preserves together.
Sound(r) == r \in RegisterFile /\ FlagsOnly(r.af) = r.af

-----------------------------------------------------------------------------
(* Words and registers. *)

LEMMA HalvesType ==
  ASSUME NEW w \in Word
  PROVE  High(w) \in Byte /\ Low(w) \in Byte /\ FlagsOnly(w) \in Word
BY DEF Word, Byte, High, Low, FlagsOnly

LEMMA PairType ==
  ASSUME NEW high \in Byte, NEW low \in Byte
  PROVE  Pair(high, low) \in Word
BY DEF Word, Byte, Pair

LEMMA AsWordType == ASSUME NEW n \in Int PROVE AsWord(n) \in Word
BY DEF AsWord, Word

LEMMA PlusType == ASSUME NEW w \in Word, NEW n \in Nat PROVE Plus(w, n) \in Word
BY DEF Plus, AsWord, Word

\* Masking is idempotent, and a new high byte does not touch the flags.
LEMMA FlagsFacts ==
  /\ \A w \in Word : FlagsOnly(FlagsOnly(w)) = FlagsOnly(w)
  /\ \A w \in Word, v \in Byte :
       FlagsOnly(w) = w => FlagsOnly(SetHigh(w, v)) = SetHigh(w, v)
  /\ \A w \in Word, v \in Byte :
       /\ FlagsOnly(v) \in Byte
       /\ FlagsOnly(SetLow(w, FlagsOnly(v))) = SetLow(w, FlagsOnly(v))
<1>1. \A w \in Word : FlagsOnly(FlagsOnly(w)) = FlagsOnly(w)
  BY DEF FlagsOnly, Word
<1>2. ASSUME NEW w \in Word, NEW v \in Byte, FlagsOnly(w) = w
      PROVE  FlagsOnly(SetHigh(w, v)) = SetHigh(w, v)
  <2>1. w % 16 = 0
    BY <1>2 DEF FlagsOnly, Word
  <2>2. ((v * 256) + (w % 256)) % 16 = 0
    BY <2>1 DEF Word, Byte
  <2> QED
    BY <2>2 DEF FlagsOnly, SetHigh, Pair, Low, Word, Byte
<1>3. ASSUME NEW w \in Word, NEW v \in Byte
      PROVE  /\ FlagsOnly(v) \in Byte
             /\ FlagsOnly(SetLow(w, FlagsOnly(v))) = SetLow(w, FlagsOnly(v))
  BY DEF FlagsOnly, SetLow, Pair, High, Word, Byte
<1> QED
  BY <1>1, <1>2, <1>3

LEMMA GetType ==
  ASSUME NEW r \in RegisterFile, NEW i
  PROVE  Get(r, i) \in Byte
BY HalvesType DEF Get, RegisterFile

LEMMA SetSound ==
  ASSUME NEW r, Sound(r), NEW i, NEW v \in Byte
  PROVE  Sound(Set(r, i, v)) /\ Set(r, i, v).pc = r.pc
<1>1. \A w \in Word : SetHigh(w, v) \in Word /\ SetLow(w, v) \in Word
  BY HalvesType, PairType DEF SetHigh, SetLow
<1>2. FlagsOnly(SetHigh(r.af, v)) = SetHigh(r.af, v)
  BY FlagsFacts DEF Sound, RegisterFile
<1> QED
  BY <1>1, <1>2 DEF Set, Sound, RegisterFile

LEMMA SetFlagSound ==
  ASSUME NEW r, Sound(r), NEW bit \in 0 .. 7, NEW value
  PROVE  Sound(SetFlag(r, bit, value)) /\ SetFlag(r, bit, value).pc = r.pc
<1> DEFINE f == Low(r.af)
           g == IF value THEN SetBit(f, bit) ELSE ClearBit(f, bit)
<1>1. f \in Byte /\ r.af \in Word
  BY HalvesType DEF Sound, RegisterFile
<1>2. g \in Byte
  BY <1>1, SetClearType
<1>3. SetFlag(r, bit, value) = [r EXCEPT !.af = SetLow(r.af, FlagsOnly(g))]
  BY DEF SetFlag
<1> HIDE DEF f, g
<1>4. SetLow(r.af, FlagsOnly(g)) \in Word
  BY <1>1, <1>2, FlagsFacts, HalvesType, PairType DEF SetLow
<1>5. FlagsOnly(SetLow(r.af, FlagsOnly(g))) = SetLow(r.af, FlagsOnly(g))
  BY <1>1, <1>2, FlagsFacts
<1> QED
  BY <1>3, <1>4, <1>5 DEF Sound, RegisterFile

-----------------------------------------------------------------------------
(* Operands and memory. *)

LEMMA OperandsType ==
  ASSUME NEW r, Sound(r), NEW m, IsMemory(m)
  PROVE  /\ Opcode(r, m) \in Byte /\ Immediate(r, m) \in Byte
         /\ ImmediateWord(r, m) \in Word
         /\ Top(r, m) \in Word
BY ReadType, PlusType, PairType
DEF Opcode, Immediate, ImmediateWord, Top, Sound, RegisterFile

LEMMA WriteWordType ==
  ASSUME NEW m, IsMemory(m), NEW a \in Word, NEW w \in Word
  PROVE  IsMemory(WriteWord(m, a, w))
BY WriteType, PlusType, HalvesType DEF WriteWord

LEMMA PushWordType ==
  ASSUME NEW m, IsMemory(m), NEW sp \in Word, NEW w \in Word
  PROVE  IsMemory(PushWord(m, sp, w))
<1>1. AsWord(sp - 1) \in Word /\ AsWord(sp - 2) \in Word
  BY AsWordType DEF Word
<1> QED
  BY <1>1, WriteType, HalvesType DEF PushWord

-----------------------------------------------------------------------------
(* The handlers. *)

\* What every handler leaves, if length is that of its opcode.
Leaves(r, result, length) ==
  /\ Sound(result.regs) /\ IsMemory(result.mem)
  /\ result.cycles \in {4, 8, 12, 16, 20}
  /\ result.regs.pc = Plus(r.pc, length)

LEMMA AfterLeaves ==
  ASSUME NEW r, NEW q, Sound(q), q.pc = r.pc, NEW m, IsMemory(m),
         NEW length \in Nat, NEW c \in {4, 8, 12, 16, 20}
  PROVE  Leaves(r, After(q, m, length, c), length)
<1>1. Plus(r.pc, length) \in Word
  BY PlusType DEF Sound, RegisterFile
<1> QED
  BY <1>1 DEF Leaves, After, Sound, RegisterFile

\* The sixteen-bit registers take any word; AF takes a masked one.
LEMMA SetWordSound ==
  ASSUME NEW r, Sound(r), NEW w \in Word
  PROVE  \A q \in {[r EXCEPT !.bc = w], [r EXCEPT !.de = w], [r EXCEPT !.hl = w],
                   [r EXCEPT !.sp = w], [r EXCEPT !.af = FlagsOnly(w)]} :
           Sound(q) /\ q.pc = r.pc
<1>1. FlagsOnly(w) \in Word /\ FlagsOnly(FlagsOnly(w)) = FlagsOnly(w)
  BY HalvesType, FlagsFacts
<1> QED
  BY <1>1 DEF Sound, RegisterFile

LEMMA StepHLSound ==
  ASSUME NEW r, Sound(r), NEW opcode
  PROVE  Sound(StepHL(r, opcode)) /\ StepHL(r, opcode).pc = r.pc
<1>1. AsWord(r.hl + 1) \in Word /\ AsWord(r.hl - 1) \in Word
  BY AsWordType DEF Sound, RegisterFile, Word
<1> QED
  BY <1>1, SetWordSound DEF StepHL

LEMMA LoadsByte ==
  ASSUME NEW r, Sound(r), NEW m, IsMemory(m)
  PROVE  /\ Leaves(r, ld_r_n(r, m), 2)
         /\ Leaves(r, ld_r_r(r, m), 1)
         /\ Leaves(r, ld_a_mem(r, m), 1)
         /\ Leaves(r, ld_mem_a(r, m), 1)
         /\ Leaves(r, ld_a_abs(r, m), 3)
         /\ Leaves(r, ld_io_a(r, m), IoLength(Opcode(r, m)))
<1> DEFINE op == Opcode(r, m)
<1>1. r \in RegisterFile /\ r.hl \in Word /\ r.bc \in Word /\ r.de \in Word
  BY DEF Sound, RegisterFile
<1>2. /\ Immediate(r, m) \in Byte /\ ImmediateWord(r, m) \in Word
      /\ \A i : Get(r, i) \in Byte
  BY <1>1, OperandsType, GetType
<1>3. Leaves(r, ld_r_n(r, m), 2)
  BY <1>2, SetSound, AfterLeaves DEF ld_r_n
<1>4. Leaves(r, ld_r_r(r, m), 1)
  <2> DEFINE value == IF Source(op) = 6 THEN Read(m, r.hl) ELSE Get(r, Source(op))
  <2>1. value \in Byte
    BY <1>1, <1>2, ReadType
  <2>2. ld_r_r(r, m) =
          IF Destination(op) = 6 THEN After(r, Write(m, r.hl, value), 1, 8)
          ELSE After(Set(r, Destination(op), value), m, 1,
                     IF Source(op) = 6 THEN 8 ELSE 4)
    BY DEF ld_r_r
  <2> HIDE DEF value, op
  <2>3. IsMemory(Write(m, r.hl, value))
    BY <1>1, <2>1, WriteType
  <2>4. Sound(Set(r, Destination(op), value)) /\ Set(r, Destination(op), value).pc = r.pc
    BY <2>1, SetSound
  <2> QED
    BY <2>2, <2>3, <2>4, AfterLeaves
<1>5. Pointer(r, op) \in Word
  BY <1>1 DEF Pointer
<1>6. Leaves(r, ld_a_mem(r, m), 1)
  <2> DEFINE q == Set(r, A, Read(m, Pointer(r, op)))
  <2>1. Sound(q) /\ q.pc = r.pc
    BY <1>5, ReadType, SetSound
  <2> HIDE DEF q
  <2>2. Sound(StepHL(q, op)) /\ StepHL(q, op).pc = r.pc
    BY <2>1, StepHLSound
  <2>3. ld_a_mem(r, m) = After(StepHL(q, op), m, 1, 8)
    BY DEF ld_a_mem, q
  <2> QED
    BY <2>2, <2>3, AfterLeaves
<1>7. Leaves(r, ld_mem_a(r, m), 1)
  <2>1. IsMemory(Write(m, Pointer(r, op), Get(r, A)))
    BY <1>2, <1>5, WriteType
  <2> QED
    BY <2>1, StepHLSound, AfterLeaves DEF ld_mem_a
<1>8. Leaves(r, ld_a_abs(r, m), 3)
  <2>1. IsMemory(Write(m, ImmediateWord(r, m), Get(r, A)))
    BY <1>2, WriteType
  <2>2. /\ Sound(Set(r, A, Read(m, ImmediateWord(r, m))))
        /\ Set(r, A, Read(m, ImmediateWord(r, m))).pc = r.pc
    BY <1>2, ReadType, SetSound
  <2> QED
    BY <2>1, <2>2, AfterLeaves DEF ld_a_abs
<1>9. Leaves(r, ld_io_a(r, m), IoLength(Opcode(r, m)))
  <2>1. IoAddress(r, m) \in Word
    BY <1>2 DEF IoAddress, Byte, Word
  <2>2. IsMemory(Write(m, IoAddress(r, m), Get(r, A)))
    BY <1>2, <2>1, WriteType
  <2>3. /\ Sound(Set(r, A, Read(m, IoAddress(r, m))))
        /\ Set(r, A, Read(m, IoAddress(r, m))).pc = r.pc
    BY <2>1, ReadType, SetSound
  <2>4. IoLength(op) \in Nat
    BY DEF IoLength
  <2> QED
    BY <2>2, <2>3, <2>4, AfterLeaves DEF ld_io_a
<1> QED
  BY <1>3, <1>4, <1>6, <1>7, <1>8, <1>9

LEMMA LoadsWord ==
  ASSUME NEW r, Sound(r), NEW m, IsMemory(m)
  PROVE  /\ Leaves(r, ld_rp_nn(r, m), 3)
         /\ Leaves(r, ld_nn_sp(r, m), 3)
         /\ Leaves(r, ld_sp_hl(r, m), 1)
         /\ Leaves(r, push_rp(r, m), 1)
         /\ Leaves(r, pop_rp(r, m), 1)
         /\ Leaves(r, ld_hl_sp_n(r, m), 2)
<1> DEFINE op == Opcode(r, m)
<1>1. /\ r.af \in Word /\ r.bc \in Word /\ r.de \in Word /\ r.hl \in Word
      /\ r.sp \in Word
  BY DEF Sound, RegisterFile
<1>2. ImmediateWord(r, m) \in Word /\ Top(r, m) \in Word /\ Immediate(r, m) \in Byte
  BY OperandsType
<1>3. Leaves(r, ld_rp_nn(r, m), 3)
  <2> DEFINE q == CASE op = \h01 -> [r EXCEPT !.bc = ImmediateWord(r, m)]
                    [] op = \h11 -> [r EXCEPT !.de = ImmediateWord(r, m)]
                    [] op = \h21 -> [r EXCEPT !.hl = ImmediateWord(r, m)]
                    [] OTHER -> [r EXCEPT !.sp = ImmediateWord(r, m)]
  <2>1. Sound(q) /\ q.pc = r.pc
    BY <1>2, SetWordSound
  <2>2. ld_rp_nn(r, m) = After(q, m, 3, 12)
    BY DEF ld_rp_nn
  <2> HIDE DEF q
  <2> QED
    BY <2>1, <2>2, AfterLeaves
<1>4. Leaves(r, ld_nn_sp(r, m), 3)
  BY <1>1, <1>2, WriteWordType, AfterLeaves DEF ld_nn_sp
<1>5. Leaves(r, ld_sp_hl(r, m), 1)
  BY <1>1, SetWordSound, AfterLeaves DEF ld_sp_hl
<1>6. Leaves(r, push_rp(r, m), 1)
  <2>1. AsWord(r.sp - 2) \in Word /\ Pushed(r, op) \in Word
    BY <1>1, AsWordType DEF Pushed, Word
  <2>2. IsMemory(PushWord(m, r.sp, Pushed(r, op)))
    BY <1>1, <2>1, PushWordType
  <2>3. Sound([r EXCEPT !.sp = AsWord(r.sp - 2)])
        /\ [r EXCEPT !.sp = AsWord(r.sp - 2)].pc = r.pc
    BY <2>1, SetWordSound
  <2> QED
    BY <2>2, <2>3, AfterLeaves DEF push_rp
<1>7. Leaves(r, pop_rp(r, m), 1)
  <2> DEFINE popped == [r EXCEPT !.sp = Plus(r.sp, 2)]
             q == CASE op = \hC1 -> [popped EXCEPT !.bc = Top(r, m)]
                    [] op = \hD1 -> [popped EXCEPT !.de = Top(r, m)]
                    [] op = \hE1 -> [popped EXCEPT !.hl = Top(r, m)]
                    [] OTHER -> [popped EXCEPT !.af = FlagsOnly(Top(r, m))]
  <2>1. Sound(popped) /\ popped.pc = r.pc
    BY <1>1, PlusType, SetWordSound
  <2>2. pop_rp(r, m) = After(q, m, 1, 12)
    BY DEF pop_rp
  <2>3. Sound(q) /\ q.pc = r.pc
    <3> HIDE DEF popped, op
    <3>1. /\ Sound([popped EXCEPT !.bc = Top(r, m)])
          /\ Sound([popped EXCEPT !.de = Top(r, m)])
          /\ Sound([popped EXCEPT !.hl = Top(r, m)])
          /\ Sound([popped EXCEPT !.af = FlagsOnly(Top(r, m))])
      BY <1>2, <2>1, SetWordSound
    <3>2. /\ [popped EXCEPT !.bc = Top(r, m)].pc = r.pc
          /\ [popped EXCEPT !.de = Top(r, m)].pc = r.pc
          /\ [popped EXCEPT !.hl = Top(r, m)].pc = r.pc
          /\ [popped EXCEPT !.af = FlagsOnly(Top(r, m))].pc = r.pc
      BY <1>2, <2>1, SetWordSound
    <3> QED
      BY <3>1, <3>2
  <2> HIDE DEF q
  <2> QED
    BY <2>2, <2>3, AfterLeaves
<1>8. Leaves(r, ld_hl_sp_n(r, m), 2)
  <2> DEFINE n == Immediate(r, m)
             loaded == [r EXCEPT !.hl = AsWord(r.sp + Signed(n))]
             cleared == SetFlag(SetFlag(loaded, ZeroFlag, FALSE), SubtractFlag, FALSE)
             halfCarry == (r.sp % 16) + (n % 16) > 15
             carry == (r.sp % 256) + n > 255
             q == SetFlag(SetFlag(cleared, HalfCarryFlag, halfCarry), CarryFlag, carry)
  <2>1. AsWord(r.sp + Signed(n)) \in Word
    BY <1>1, <1>2, AsWordType DEF Signed, Word, Byte
  <2>2. Sound(loaded) /\ loaded.pc = r.pc
    BY <2>1, SetWordSound
  <2>3. ld_hl_sp_n(r, m) = After(q, m, 2, 12)
    BY DEF ld_hl_sp_n
  <2>4. /\ ZeroFlag \in 0 .. 7 /\ SubtractFlag \in 0 .. 7
        /\ HalfCarryFlag \in 0 .. 7 /\ CarryFlag \in 0 .. 7
    BY DEF ZeroFlag, SubtractFlag, HalfCarryFlag, CarryFlag
  <2> HIDE DEF loaded, halfCarry, carry
  <2>5. Sound(cleared) /\ cleared.pc = r.pc
    <3>1. /\ Sound(SetFlag(loaded, ZeroFlag, FALSE))
          /\ SetFlag(loaded, ZeroFlag, FALSE).pc = r.pc
      BY <2>2, <2>4, SetFlagSound
    <3> QED
      BY <2>4, <3>1, SetFlagSound
  <2> HIDE DEF cleared
  <2>6. Sound(q) /\ q.pc = r.pc
    <3>1. /\ Sound(SetFlag(cleared, HalfCarryFlag, halfCarry))
          /\ SetFlag(cleared, HalfCarryFlag, halfCarry).pc = r.pc
      BY <2>4, <2>5, SetFlagSound
    <3> QED
      BY <2>4, <3>1, SetFlagSound
  <2> HIDE DEF q
  <2> QED
    BY <2>3, <2>6, AfterLeaves
<1> QED
  BY <1>3, <1>4, <1>5, <1>6, <1>7, <1>8

\* The opcodes of each handler have its length in the instruction table.
LEMMA Lengths ==
  ASSUME NEW op \in Byte
  PROVE  /\ op \in {0, HALT, CB} => LengthOf(op) = 1
         /\ op >= \h40 /\ op <= \h7F => LengthOf(op) = 1
         /\ op \in {\h06, \h0E, \h16, \h1E, \h26, \h2E, \h3E} => LengthOf(op) = 2
         /\ op \in {\h02, \h12, \h22, \h32, \h0A, \h1A, \h2A, \h3A} => LengthOf(op) = 1
         /\ op \in {\h01, \h11, \h21, \h31, \h08, \hEA, \hFA} => LengthOf(op) = 3
         /\ op \in {\hC1, \hD1, \hE1, \hF1, \hC5, \hD5, \hE5, \hF5, \hF9} => LengthOf(op) = 1
         /\ op \in {\hE0, \hE2, \hF0, \hF2} => LengthOf(op) = IoLength(op)
         /\ op = \hF8 => LengthOf(op) = 2
         /\ LengthOf(op) \in Nat
BY DEF LengthOf, ThreeBytes, TwoBytes, IoLength, HALT, CB, Byte

LEMMA ExecuteLeaves ==
  ASSUME NEW r, Sound(r), NEW m, IsMemory(m)
  PROVE  Leaves(r, Execute(r, m), LengthOf(Opcode(r, m)))
<1> DEFINE op == Opcode(r, m)
<1>1. op \in Byte
  BY OperandsType
<1>2. /\ Leaves(r, nop(r, m), 1) /\ Leaves(r, halt(r, m), 1)
      /\ Leaves(r, Prefix(r, m), 1)
      /\ Leaves(r, Unimplemented(r, m), LengthOf(op))
  BY <1>1, Lengths, AfterLeaves DEF nop, halt, Prefix, Unimplemented
<1>3. CASE op \in {0, HALT, CB}
  BY <1>1, <1>2, <1>3, Lengths
     DEF Execute, FirstQuarter, MiddleHalf, LastQuarter, HALT, CB
<1>4. CASE op >= \h40 /\ op <= \h7F /\ op # HALT
  <2>1. LengthOf(op) = 1
    BY <1>1, <1>4, Lengths
  <2>2. Execute(r, m) = ld_r_r(r, m)
    BY <1>1, <1>4 DEF Execute, FirstQuarter, MiddleHalf, LastQuarter, HALT, CB, Byte
  <2> QED
    BY <2>1, <2>2, LoadsByte
<1>5. CASE op \in {\h06, \h0E, \h16, \h1E, \h26, \h2E, \h3E}
  BY <1>1, <1>5, Lengths, LoadsByte
     DEF Execute, FirstQuarter, MiddleHalf, LastQuarter, HALT, CB
<1>6. CASE op \in {\h02, \h12, \h22, \h32, \h0A, \h1A, \h2A, \h3A}
  BY <1>1, <1>6, Lengths, LoadsByte
     DEF Execute, FirstQuarter, MiddleHalf, LastQuarter, HALT, CB
<1>7. CASE op \in {\h01, \h11, \h21, \h31, \h08, \hEA, \hFA}
  BY <1>1, <1>7, Lengths, LoadsByte, LoadsWord
     DEF Execute, FirstQuarter, MiddleHalf, LastQuarter, HALT, CB
<1>8. CASE op \in {\hC1, \hD1, \hE1, \hF1, \hC5, \hD5, \hE5, \hF5, \hF9}
  BY <1>1, <1>8, Lengths, LoadsWord
     DEF Execute, FirstQuarter, MiddleHalf, LastQuarter, HALT, CB
<1>9. CASE op \in {\hE0, \hE2, \hF0, \hF2}
  BY <1>1, <1>9, Lengths, LoadsByte
     DEF Execute, FirstQuarter, MiddleHalf, LastQuarter, HALT, CB
<1>10. CASE op = \hF8
  BY <1>1, <1>10, Lengths, LoadsWord
     DEF Execute, FirstQuarter, MiddleHalf, LastQuarter, HALT, CB
<1>11. CASE /\ op \notin {0, HALT, CB} /\ ~(op >= \h40 /\ op <= \h7F /\ op # HALT)
            /\ op \notin {\h06, \h0E, \h16, \h1E, \h26, \h2E, \h3E}
            /\ op \notin {\h02, \h12, \h22, \h32, \h0A, \h1A, \h2A, \h3A}
            /\ op \notin {\h01, \h11, \h21, \h31, \h08, \hEA, \hFA}
            /\ op \notin {\hC1, \hD1, \hE1, \hF1, \hC5, \hD5, \hE5, \hF5, \hF9}
            /\ op \notin {\hE0, \hE2, \hF0, \hF2} /\ op # \hF8
  BY <1>1, <1>2, <1>11
     DEF Execute, FirstQuarter, MiddleHalf, LastQuarter, HALT, CB, Byte
<1> QED
  BY <1>3, <1>4, <1>5, <1>6, <1>7, <1>8, <1>9, <1>10, <1>11

-----------------------------------------------------------------------------
(* Where no address is a RAM cell, no instruction changes memory. *)

LEMMA StoresLost ==
  ASSUME NEW r, Sound(r), NEW m, IsMemory(m), \A a \in Word : ~InRam(a)
  PROVE  /\ ld_r_r(r, m).mem = m /\ ld_mem_a(r, m).mem = m
         /\ ld_a_abs(r, m).mem = m /\ ld_io_a(r, m).mem = m
         /\ ld_nn_sp(r, m).mem = m /\ push_rp(r, m).mem = m
<1>1. \A a \in Word : \A v : Write(m, a, v) = m
  BY WriteLost
<1>2. \A q, k, n, c : After(q, k, n, c).mem = k
  BY DEF After
<1>3. /\ r.bc \in Word /\ r.de \in Word /\ r.hl \in Word /\ r.sp \in Word
      /\ r \in RegisterFile
  BY DEF Sound, RegisterFile
<1>4. ImmediateWord(r, m) \in Word /\ Immediate(r, m) \in Byte /\ Get(r, C) \in Byte
  BY <1>3, OperandsType, GetType
<1>5. ld_r_r(r, m).mem = m
  BY <1>1, <1>2, <1>3 DEF ld_r_r
<1>6. ld_mem_a(r, m).mem = m
  <2>1. Pointer(r, Opcode(r, m)) \in Word
    BY <1>3 DEF Pointer
  <2> QED
    BY <1>1, <1>2, <2>1 DEF ld_mem_a
<1>7. ld_a_abs(r, m).mem = m
  BY <1>1, <1>2, <1>4 DEF ld_a_abs
<1>8. ld_io_a(r, m).mem = m
  <2>1. IoAddress(r, m) \in Word
    BY <1>4 DEF IoAddress, Byte, Word
  <2> QED
    BY <1>1, <1>2, <2>1 DEF ld_io_a
<1>9. ld_nn_sp(r, m).mem = m
  <2>1. Plus(ImmediateWord(r, m), 1) \in Word
    BY <1>4, PlusType
  <2> QED
    BY <1>1, <1>2, <1>4, <2>1 DEF ld_nn_sp, WriteWord
<1>10. push_rp(r, m).mem = m
  <2>1. AsWord(r.sp - 1) \in Word /\ AsWord(r.sp - 2) \in Word
    BY <1>3, AsWordType DEF Word
  <2> QED
    BY <1>1, <1>2, <2>1 DEF push_rp, PushWord
<1> QED
  BY <1>5, <1>6, <1>7, <1>8, <1>9, <1>10

LEMMA ExecuteKeepsMemory ==
  ASSUME NEW r, Sound(r), NEW m, IsMemory(m), \A a \in Word : ~InRam(a)
  PROVE  Execute(r, m).mem = m
<1>2. /\ nop(r, m).mem = m /\ halt(r, m).mem = m /\ Prefix(r, m).mem = m
      /\ Unimplemented(r, m).mem = m
  BY DEF nop, halt, Prefix, Unimplemented, After
<1>3. ld_r_n(r, m).mem = m /\ ld_a_mem(r, m).mem = m
  BY DEF ld_r_n, ld_a_mem, After
<1>4. ld_rp_nn(r, m).mem = m
  BY DEF ld_rp_nn, After
<1>5. pop_rp(r, m).mem = m
  BY DEF pop_rp, After
<1>6. ld_hl_sp_n(r, m).mem = m /\ ld_sp_hl(r, m).mem = m
  BY DEF ld_hl_sp_n, ld_sp_hl, After
<1>7. FirstQuarter(r, m).mem = m
  BY <1>2, <1>3, <1>4, StoresLost DEF FirstQuarter
<1>8. MiddleHalf(r, m).mem = m
  BY <1>2, StoresLost DEF MiddleHalf
<1>9. LastQuarter(r, m).mem = m
  BY <1>2, <1>5, <1>6, StoresLost DEF LastQuarter, CB
<1> QED
  BY <1>7, <1>8, <1>9 DEF Execute

-----------------------------------------------------------------------------
(* The steps. *)

\* The inductive invariant: the types, and F without its low bits.
IInv == TypeOK /\ FlagsOnly(regs.af) = regs.af

LEMMA InterruptAddresses == IF_ADDR \in Word /\ IE_ADDR \in Word /\ IF_ADDR # IE_ADDR
BY DEF IF_ADDR, IE_ADDR, Word

LEMMA FirstSetIn ==
  ASSUME NEW S, S \subseteq 0 .. 4, S # {}
  PROVE  FirstSet(S) \in S /\ FirstSet(S) \in 0 .. 4
<1>1. \E i \in S : \A j \in S : i <= j
  <2>1. S \subseteq {0, 1, 2, 3, 4}
    OBVIOUS
  <2>2. CASE 0 \in S
    BY <2>1, <2>2
  <2>3. CASE 0 \notin S /\ 1 \in S
    BY <2>1, <2>3
  <2>4. CASE 0 \notin S /\ 1 \notin S /\ 2 \in S
    BY <2>1, <2>4
  <2>5. CASE 0 \notin S /\ 1 \notin S /\ 2 \notin S /\ 3 \in S
    BY <2>1, <2>5
  <2>6. CASE 0 \notin S /\ 1 \notin S /\ 2 \notin S /\ 3 \notin S
    <3>1. S = {4}
      BY <2>1, <2>6
    <3> QED
      BY <3>1
  <2> QED
    BY <2>2, <2>3, <2>4, <2>5, <2>6
<1> QED
  BY <1>1 DEF FirstSet

LEMMA VectorsAre ==
  ASSUME NEW bit \in 0 .. 4
  PROVE  interrupt_vectors[bit] = 64 + 8 * bit /\ interrupt_vectors[bit] \in Word
BY DEF interrupt_vectors, Word

\* One dispatch, of a bit that is requested and enabled.
LEMMA DispatchSound ==
  ASSUME Sound(regs), IsMemory(mem), NEW bit \in 0 .. 4, Dispatch(bit)
  PROVE  /\ Sound(regs') /\ IsMemory(mem') /\ cycles' = 20
         /\ regs'.pc = 64 + 8 * bit
<1> DEFINE sp == AsWord(regs.sp - 2)
           m == Write(mem, IF_ADDR, ClearBit(Read(mem, IF_ADDR), bit))
<1>1. sp \in Word
  BY AsWordType DEF Sound, RegisterFile, Word
<1>2. IsMemory(m)
  <2>1. Read(mem, IF_ADDR) \in Byte
    BY InterruptAddresses, ReadType
  <2>2. ClearBit(Read(mem, IF_ADDR), bit) \in Byte
    BY <2>1, SetClearType
  <2> QED
    BY <2>2, InterruptAddresses, WriteType
<1>3. /\ mem' = WriteWord(m, sp, regs.pc) /\ cycles' = 20
      /\ regs' = [regs EXCEPT !.sp = sp, !.pc = interrupt_vectors[bit]]
  BY DEF Dispatch
<1> HIDE DEF sp, m
<1>4. IsMemory(mem')
  BY <1>1, <1>2, <1>3, WriteWordType DEF Sound, RegisterFile
<1> QED
  BY <1>1, <1>3, <1>4, VectorsAre DEF Sound, RegisterFile

LEMMA HandleSound ==
  ASSUME IInv, handle_interrupts
  PROVE  /\ Sound(regs') /\ IsMemory(mem') /\ cycles' \in {0, 20}
         /\ ime' \in BOOLEAN /\ halted' \in BOOLEAN /\ stopped' \in BOOLEAN
<1>1. Sound(regs) /\ IsMemory(mem)
  BY DEF IInv, TypeOK, Sound
<1>2. ime' \in BOOLEAN /\ halted' \in BOOLEAN /\ stopped' \in BOOLEAN
  BY Zenon DEF handle_interrupts, Dispatch, IInv, TypeOK
<1>3. CASE Pending # {} /\ ime /\ Dispatch(FirstSet(Pending))
  <2>1. FirstSet(Pending) \in 0 .. 4
    BY <1>3, FirstSetIn DEF Pending
  <2> QED
    BY <1>1, <1>2, <1>3, <2>1, DispatchSound
<1>4. CASE cycles' = 0 /\ UNCHANGED <<regs, mem>>
  BY <1>1, <1>2, <1>4
<1> QED
  BY <1>3, <1>4 DEF handle_interrupts

\* Every instruction costs time, waits and dispatches included.
LEMMA ExecutesSound ==
  ASSUME IInv, execute_instruction
  PROVE  /\ Sound(regs') /\ IsMemory(mem') /\ cycles' \in {4, 8, 12, 16, 20}
         /\ ime' \in BOOLEAN /\ halted' \in BOOLEAN /\ stopped' \in BOOLEAN
<1>1. Sound(regs) /\ IsMemory(mem)
  BY DEF IInv, TypeOK, Sound
<1>2. CASE Wait
  <2>1. ime' \in BOOLEAN /\ halted' \in BOOLEAN /\ stopped' \in BOOLEAN
    BY <1>2, Zenon DEF Wait, flags, IInv, TypeOK
  <2> QED
    BY <1>1, <1>2, <2>1 DEF Wait, WaitCycles
<1>3. CASE Interrupted /\ handle_interrupts
  <2>1. Dispatch(FirstSet(Pending)) /\ FirstSet(Pending) \in 0 .. 4
    BY <1>3, FirstSetIn DEF Interrupted, handle_interrupts, Pending
  <2> QED
    BY <1>1, <1>3, <2>1, HandleSound, DispatchSound
<1>4. CASE Instruction
  <2>1. ime' \in BOOLEAN /\ halted' \in BOOLEAN /\ stopped' \in BOOLEAN
    BY <1>4, Zenon DEF Instruction, flags, IInv, TypeOK
  <2>2. Leaves(regs, Execute(regs, mem), LengthOf(Opcode(regs, mem)))
    BY <1>1, ExecuteLeaves
  <2> QED
    BY <1>4, <2>1, <2>2 DEF Instruction, Leaves
<1> QED
  BY <1>2, <1>3, <1>4 DEF execute_instruction

LEMMA MemoryKept ==
  ASSUME IInv, execute_instruction, \A a \in Word : ~InRam(a)
  PROVE  mem' = mem
<1>1. Sound(regs) /\ IsMemory(mem)
  BY DEF IInv, TypeOK, Sound
<1>2. CASE Wait
  BY <1>2 DEF Wait
<1>3. CASE Interrupted /\ handle_interrupts
  <2>1. Dispatch(FirstSet(Pending))
    BY <1>3 DEF Interrupted, handle_interrupts
  <2>2. AsWord(regs.sp - 2) \in Word /\ Plus(AsWord(regs.sp - 2), 1) \in Word
    <3>1. AsWord(regs.sp - 2) \in Word
      BY <1>1, AsWordType DEF Sound, RegisterFile, Word
    <3> QED
      BY <3>1, PlusType
  <2> DEFINE m == Write(mem, IF_ADDR, ClearBit(Read(mem, IF_ADDR), FirstSet(Pending)))
  <2>3. mem' = Write(Write(m, AsWord(regs.sp - 2), Low(regs.pc)),
                     Plus(AsWord(regs.sp - 2), 1), High(regs.pc))
    BY <2>1 DEF Dispatch, WriteWord
  <2>4. m = mem
    BY InterruptAddresses, WriteLost
  <2> HIDE DEF m
  <2> QED
    BY <2>2, <2>3, <2>4, WriteLost
<1>4. CASE Instruction
  BY <1>1, <1>4, ExecuteKeepsMemory DEF Instruction
<1> QED
  BY <1>2, <1>3, <1>4 DEF execute_instruction

\* The counters of run(), in and out of it.
Progressing == (limit = 0 /\ done = 0) \/ (limit \in Limits /\ done \in 0 .. limit - 1)

LEMMA RemainderType ==
  ASSUME NEW n \in Nat, NEW d \in Nat, d > 0
  PROVE  n % d \in Nat
OBVIOUS

LEMMA InTheLoop ==
  ASSUME IInv, Running
  PROVE  limit \in Limits /\ done \in 0 .. limit - 1 /\ limit \in Nat /\ CountWrap \in Nat
<1>1. (limit = 0 /\ done = 0) \/ (limit \in Limits /\ done \in 0 .. limit - 1)
  BY DEF IInv, TypeOK
<1>2. done < limit
  BY DEF Running
<1>3. limit \in Limits /\ done \in 0 .. limit - 1
  <2>1. CASE limit = 0 /\ done = 0
    BY <1>2, <2>1
  <2> QED
    BY <1>1, <2>1
<1>4. limit \in Nat /\ CountWrap \in Nat
  BY <1>3, LimitsAssumption
<1> QED
  BY <1>3, <1>4

LEMMA TurnProgresses ==
  ASSUME IInv, Turn
  PROVE  Progressing'
<1>1. limit \in Limits /\ done \in 0 .. limit - 1 /\ limit \in Nat /\ CountWrap \in Nat
  BY InTheLoop DEF Turn
<1>2. limit + Longest <= CountWrap
  BY <1>1, LimitsAssumption
<1>3. cycles' \in Nat
  BY ExecutesSound DEF Turn
<1> DEFINE executed == (done + cycles') % CountWrap
<1>4. executed \in Nat
  <2>1. done + cycles' \in Nat
    <3>1. done \in Nat
      BY <1>1
    <3>2. \A a, b \in Nat : a + b \in Nat
      OBVIOUS
    <3> QED
      BY <1>3, <3>1, <3>2, Zenon
  <2>2. CountWrap > 0
    BY <1>1, <1>2 DEF Longest
  <2> QED
    BY <1>1, <2>1, <2>2, RemainderType
<1>5. IF executed < limit THEN done' = executed /\ UNCHANGED limit
      ELSE done' = 0 /\ limit' = 0
  BY DEF Turn
<1> HIDE DEF executed
<1> QED
  BY <1>1, <1>4, <1>5 DEF Progressing

\* The calls other than execute_instruction and handle_interrupts.
LEMMA CallSound ==
  ASSUME IInv, Call
  PROVE  /\ Sound(regs') /\ IsMemory(mem') /\ cycles' \in {0, 4, 8, 12, 16, 20}
         /\ ime' \in BOOLEAN /\ halted' \in BOOLEAN /\ stopped' \in BOOLEAN
<1>1. Sound(regs) /\ IsMemory(mem) /\ cycles \in {0, 4, 8, 12, 16, 20}
  BY DEF IInv, TypeOK, Sound
<1>2. CASE initialize
  <2>1. ime' \in BOOLEAN /\ halted' \in BOOLEAN /\ stopped' \in BOOLEAN
    <3>1. ime' = FALSE /\ halted' = FALSE /\ stopped' = FALSE
      BY <1>2 DEF initialize
    <3> QED
      BY <3>1, Zenon
  <2>2. Sound(regs')
    BY <1>2 DEF initialize, Sound, RegisterFile, FlagsOnly, Word
  <2> QED
    BY <1>1, <1>2, <2>1, <2>2 DEF initialize
<1>3. CASE enable_interrupts \/ disable_interrupts \/ halt_cpu \/ stop_cpu
  <2>1. ime' \in BOOLEAN /\ halted' \in BOOLEAN /\ stopped' \in BOOLEAN
    BY <1>3, Zenon
    DEF enable_interrupts, disable_interrupts, halt_cpu, stop_cpu, Control,
        IInv, TypeOK
  <2>2. regs' = regs /\ mem' = mem /\ cycles' = cycles
    BY <1>3
    DEF enable_interrupts, disable_interrupts, halt_cpu, stop_cpu, Control
  <2> QED
    BY <1>1, <2>1, <2>2
<1>4. CASE Devices
  <2>1. ime' \in BOOLEAN /\ halted' \in BOOLEAN /\ stopped' \in BOOLEAN
    BY <1>4, Zenon DEF Devices, flags, IInv, TypeOK
  <2>2. IsMemory(mem') /\ regs' = regs /\ cycles' = cycles
    BY <1>1, <1>4, MemoriesAssumption, InterruptAddresses, WriteType DEF Devices
  <2> QED
    BY <1>1, <2>1, <2>2
<1>5. CASE execute_instruction
  BY <1>5, ExecutesSound
<1>6. CASE handle_interrupts
  BY <1>6, HandleSound
<1> QED
  BY <1>2, <1>3, <1>4, <1>5, <1>6 DEF Call

LEMMA InvByParts ==
  /\ IInv <=> /\ Sound(regs) /\ IsMemory(mem) /\ cycles \in {0, 4, 8, 12, 16, 20}
              /\ ime \in BOOLEAN /\ halted \in BOOLEAN /\ stopped \in BOOLEAN
              /\ Progressing
BY Zenon DEF IInv, TypeOK, Sound, Progressing

LEMMA NextInv == IInv /\ [Next]_vars => IInv'
<1> SUFFICES ASSUME IInv, [Next]_vars PROVE IInv'
  OBVIOUS
<1> DEFINE Parts == /\ Sound(regs) /\ IsMemory(mem) /\ cycles \in {0, 4, 8, 12, 16, 20}
                    /\ ime \in BOOLEAN /\ halted \in BOOLEAN /\ stopped \in BOOLEAN
                    /\ Progressing
<1>1. Parts
  BY InvByParts
<1>2. Parts => IInv
  BY InvByParts
<1>3. CASE Call
  <2>1. Progressing'
    BY <1>1, <1>3 DEF Call, progress, Progressing
  <2>2. /\ Sound(regs') /\ IsMemory(mem') /\ cycles' \in {0, 4, 8, 12, 16, 20}
        /\ ime' \in BOOLEAN /\ halted' \in BOOLEAN /\ stopped' \in BOOLEAN
    BY <1>3, CallSound
  <2> QED
    BY <2>1, <2>2, Zenon DEF IInv, TypeOK, Sound, Progressing
<1>4. CASE \E n \in Limits : run(n)
  <2>1. Progressing'
    BY <1>4, LimitsAssumption DEF run, Progressing
  <2>2. regs' = regs /\ ime' = ime /\ halted' = halted /\ stopped' = stopped
        /\ mem' = mem /\ cycles' = cycles
    BY <1>4 DEF run, flags
  <2> QED
    BY <1>1, <2>1, <2>2, Zenon DEF IInv, TypeOK, Sound, Progressing
<1>5. CASE Turn
  <2>1. Progressing'
    BY <1>5, TurnProgresses
  <2>2. /\ Sound(regs') /\ IsMemory(mem') /\ cycles' \in {0, 4, 8, 12, 16, 20}
        /\ ime' \in BOOLEAN /\ halted' \in BOOLEAN /\ stopped' \in BOOLEAN
    BY <1>5, ExecutesSound DEF Turn
  <2> QED
    BY <2>1, <2>2, Zenon DEF IInv, TypeOK, Sound, Progressing
<1>6. CASE UNCHANGED vars
  BY <1>6, Zenon DEF vars, IInv, TypeOK
<1> QED
  BY <1>3, <1>4, <1>5, <1>6 DEF Next

LEMMA InitInv == Init => IInv
<1> SUFFICES ASSUME Init PROVE IInv
  OBVIOUS
<1>1. ime \in BOOLEAN /\ halted \in BOOLEAN /\ stopped \in BOOLEAN
  BY Zenon DEF Init
<1>2. Sound(regs)
  BY DEF Init, Sound, RegisterFile, FlagsOnly, Word
<1>3. IsMemory(mem) /\ cycles \in {0, 4, 8, 12, 16, 20} /\ Progressing
  BY MemoriesAssumption DEF Init, Progressing
<1> QED
  BY <1>1, <1>2, <1>3, Zenon DEF IInv, TypeOK, Sound, Progressing

LEMMA InvHolds == Spec => []IInv
BY InitInv, NextInv, PTL DEF Spec

LEMMA CountBelowWrap ==
  ASSUME NEW n \in Nat, NEW c \in {4, 8, 12, 16, 20}, NEW l \in Nat,
         NEW w \in Nat, n < l, l + 20 <= w
  PROVE  /\ (n + c) % w = n + c /\ c >= 4
         /\ ~(n + c < l) => n + c >= l
OBVIOUS

\* What RunEnds rests on, for every program and every number of cycles.
THEOREM RunsAdvance == Spec => RunAdvances
<1>1. ASSUME IInv, Running, [Next]_vars, vars' # vars
      PROVE  /\ cycles' >= 4
             /\ \/ Running' /\ limit' = limit /\ done' = done + cycles'
                \/ ~Running' /\ done + cycles' >= limit
  <2>1. Turn
    BY <1>1 DEF Next, Call, run
  <2>2. cycles' \in {4, 8, 12, 16, 20}
    BY <1>1, <2>1, ExecutesSound DEF Turn
  <2>3. limit \in Limits /\ done \in 0 .. limit - 1 /\ limit \in Nat /\ CountWrap \in Nat
    BY <1>1, InTheLoop
  <2>4. limit + 20 <= CountWrap
    BY <2>3, LimitsAssumption DEF Longest
  <2>5. done \in Nat /\ done < limit
    BY <2>3
  <2>6. /\ (done + cycles') % CountWrap = done + cycles'
        /\ cycles' >= 4
        /\ ~(done + cycles' < limit) => done + cycles' >= limit
    BY <2>2, <2>3, <2>4, <2>5, CountBelowWrap
  <2>7. CASE done + cycles' < limit
    <3>1. done' = done + cycles' /\ limit' = limit
      BY <2>1, <2>6, <2>7 DEF Turn
    <3> QED
      BY <2>6, <2>7, <3>1 DEF Running
  <2>8. CASE ~(done + cycles' < limit)
    <3>1. limit' = 0 /\ done' = 0
      BY <2>1, <2>6, <2>8 DEF Turn
    <3>2. ~Running'
      BY <3>1 DEF Running
    <3> QED
      BY <2>6, <2>8, <3>2
  <2> QED
    BY <2>7, <2>8
<1>2. IInv /\ [Next]_vars
        => [Running => /\ cycles' >= 4
                       /\ \/ Running' /\ limit' = limit /\ done' = done + cycles'
                          \/ ~Running' /\ done + cycles' >= limit]_vars
  BY <1>1
<1> QED
  BY <1>2, InvHolds, PTL DEF Spec, RunAdvances

\* Registers keep their width and run() its counters: the count never passes
\* the limit, so it cannot wrap below it.
THEOREM TypeCorrect == Spec => []TypeOK
<1>1. IInv => TypeOK
  BY DEF IInv
<1> QED
  BY <1>1, InvHolds, PTL

\* No instruction, POP AF included, sets a bit of F that does not exist.
THEOREM FlagsStayClean == Spec => []FlagsClean
<1>1. IInv => FlagsClean
  <2> SUFFICES ASSUME IInv PROVE regs.af % 16 = 0
    BY DEF FlagsClean
  <2>1. regs.af \in Nat /\ regs.af - (regs.af % 16) = regs.af
    BY DEF IInv, TypeOK, RegisterFile, FlagsOnly, Word
  <2>2. \A n \in Nat : n - (n % 16) = n => n % 16 = 0
    OBVIOUS
  <2> QED
    BY <2>1, <2>2
<1> QED
  BY <1>1, InvHolds, PTL

-----------------------------------------------------------------------------
(* Control flow. *)

LEMMA PendingIs == Pending = Requested \cap Enabled \cap (0 .. 4)
BY DEF Pending

\* The handlers' lengths are the table's, and only an interrupt diverts.
THEOREM ControlIsFollowed == Spec => ControlFlow
<1> DEFINE Followed ==
      execute_instruction =>
        \/ (halted \/ stopped) /\ regs' = regs
        \/ /\ ~(ime /\ Requested \cap Enabled \cap (0 .. 4) # {})
           /\ regs'.pc = Plus(regs.pc, LengthOf(Opcode(regs, mem)))
        \/ /\ ime /\ ~ime'
           /\ \E i \in Requested \cap Enabled : regs'.pc = 64 + 8 * i
<1>1. IInv /\ [Next]_vars => [Followed]_vars
  <2> SUFFICES ASSUME IInv, execute_instruction
               PROVE  \/ (halted \/ stopped) /\ regs' = regs
                      \/ /\ ~(ime /\ Requested \cap Enabled \cap (0 .. 4) # {})
                         /\ regs'.pc = Plus(regs.pc, LengthOf(Opcode(regs, mem)))
                      \/ /\ ime /\ ~ime'
                         /\ \E i \in Requested \cap Enabled : regs'.pc = 64 + 8 * i
    OBVIOUS
  <2>1. Sound(regs) /\ IsMemory(mem)
    BY DEF IInv, TypeOK, Sound
  <2>2. CASE Wait
    BY <2>2, Zenon DEF Wait
  <2>3. CASE Interrupted /\ handle_interrupts
    <3> DEFINE bit == FirstSet(Pending)
    <3>1. ime /\ Pending # {} /\ Dispatch(bit)
      BY <2>3 DEF Interrupted, handle_interrupts
    <3>2. bit \in 0 .. 4 /\ bit \in Requested \cap Enabled
      BY <3>1, FirstSetIn DEF Pending
    <3>3. regs'.pc = 64 + 8 * bit
      BY <2>1, <3>1, <3>2, DispatchSound
    <3>4. ~ime'
      BY <3>1 DEF Dispatch
    <3> QED
      BY <3>1, <3>2, <3>3, <3>4
  <2>4. CASE Instruction
    <3>1. Leaves(regs, Execute(regs, mem), LengthOf(Opcode(regs, mem)))
      BY <2>1, ExecuteLeaves
    <3>2. regs' = Execute(regs, mem).regs
      BY <2>4 DEF Instruction
    <3>3. regs'.pc = Plus(regs.pc, LengthOf(Opcode(regs, mem)))
      BY <3>1, <3>2 DEF Leaves
    <3>4. ~(ime /\ Requested \cap Enabled \cap (0 .. 4) # {})
      BY <2>4, PendingIs, Zenon DEF Instruction, Fetched
    <3> QED
      BY <3>3, <3>4
  <2> QED
    BY <2>2, <2>3, <2>4 DEF execute_instruction
<1> QED
  BY <1>1, InvHolds, PTL DEF Spec, ControlFlow

-----------------------------------------------------------------------------
(* Dispatch. *)

LEMMA PushesApart ==
  ASSUME NEW sp \in Word
  PROVE  /\ AsWord(sp - 1) = Plus(AsWord(sp - 2), 1)
         /\ AsWord(sp - 1) # AsWord(sp - 2)
         /\ AsWord(sp - 1) \in Word /\ AsWord(sp - 2) \in Word
BY DEF AsWord, Plus, Word

LEMMA HalvesOfPair ==
  ASSUME NEW w \in Word
  PROVE  Pair(High(w), Low(w)) = w
BY DEF Pair, High, Low, Word

\* On a stack apart from the interrupt registers the CPU acknowledges as the
\* interrupt controller does, and can return.
THEOREM DispatchIsAcknowledge ==
  ASSUME InRam(IF_ADDR)
  PROVE  Spec => DispatchAcknowledges
<1> DEFINE Acknowledged ==
      (execute_instruction /\ Interrupted /\ StackApart) =>
        Ideal!Acknowledge /\ Top(regs', mem') = regs.pc
<1>1. IInv /\ [Next]_vars => [Acknowledged]_vars
  <2> SUFFICES ASSUME IInv, execute_instruction, Interrupted, StackApart
               PROVE  Ideal!Acknowledge /\ Top(regs', mem') = regs.pc
    OBVIOUS
  <2> DEFINE bit == FirstSet(Pending)
             sp == AsWord(regs.sp - 2)
             m == Write(mem, IF_ADDR, ClearBit(Read(mem, IF_ADDR), bit))
  <2>1. Sound(regs) /\ IsMemory(mem)
    BY DEF IInv, TypeOK, Sound
  <2>2. Pending # {} /\ Dispatch(bit)
    BY DEF execute_instruction, Interrupted, handle_interrupts, Wait,
           Instruction, Fetched
  <2>3. bit \in 0 .. 4
    BY <2>2, FirstSetIn DEF Pending
  <2>4. bit = Ideal!Urgent
    BY PendingIs DEF FirstSet, Ideal!Urgent
  <2> HIDE DEF bit
  <2>5. /\ mem' = Write(Write(m, sp, Low(regs.pc)), Plus(sp, 1), High(regs.pc))
        /\ regs' = [regs EXCEPT !.sp = sp, !.pc = interrupt_vectors[bit]]
    BY <2>2 DEF Dispatch, WriteWord
  <2>6. /\ sp \in Word /\ Plus(sp, 1) \in Word /\ sp # Plus(sp, 1)
        /\ InRam(sp) /\ InRam(Plus(sp, 1))
        /\ sp # IF_ADDR /\ sp # IE_ADDR
        /\ Plus(sp, 1) # IF_ADDR /\ Plus(sp, 1) # IE_ADDR
    BY <2>1, PushesApart DEF StackApart, Sound, RegisterFile
  <2>7. regs'.sp = sp /\ regs'.pc = 64 + 8 * bit
    BY <2>1, <2>3, <2>5, VectorsAre DEF Sound, RegisterFile
  <2> HIDE DEF m, sp
  <2>8. Read(mem', sp) = Low(regs.pc) /\ Read(mem', Plus(sp, 1)) = High(regs.pc)
    BY <2>5, <2>6, ReadWritten, ReadOther
  <2>9. Read(mem', IF_ADDR) = Read(m, IF_ADDR) /\ Read(mem', IE_ADDR) = Read(m, IE_ADDR)
    BY <2>5, <2>6, ReadOther
  <2>10. Read(m, IF_ADDR) = ClearBit(Read(mem, IF_ADDR), bit)
         /\ Read(m, IE_ADDR) = Read(mem, IE_ADDR)
    BY InterruptAddresses, ReadWritten, ReadOther DEF m
  <2>11. Requested' = Requested \ {bit} /\ Enabled' = Enabled
    <3>1. Read(mem, IF_ADDR) \in Byte /\ bit \in 0 .. 7
      BY <2>1, <2>3, InterruptAddresses, ReadType
    <3> QED
      BY <2>9, <2>10, <3>1, BitsOfClear DEF Requested, Enabled
  <2>12. Top(regs', mem') = regs.pc
    BY <2>1, <2>7, <2>8, HalvesOfPair DEF Top, Sound, RegisterFile
  <2>13. Requested \cap Enabled \cap (0 .. 4) # {}
    BY <2>2, PendingIs
  <2> QED
    BY <2>4, <2>7, <2>11, <2>12, <2>13 DEF Ideal!Acknowledge
<1> QED
  BY <1>1, InvHolds, PTL DEF Spec, DispatchAcknowledges

-----------------------------------------------------------------------------
(* The byte loads. *)

\* The program counter put back, a handler's registers are those it set.
LEMMA PcRestored ==
  ASSUME NEW r, NEW q \in RegisterFile, q.pc = r.pc, NEW n, NEW length, NEW c
  PROVE  /\ [After(q, n, length, c).regs EXCEPT !.pc = r.pc] = q
         /\ After(q, n, length, c).mem = n
<1>1. After(q, n, length, c).regs = [q EXCEPT !.pc = Plus(r.pc, length)]
  BY DEF After
<1>2. \A w : [[q EXCEPT !.pc = w] EXCEPT !.pc = q.pc] = q
  BY DEF RegisterFile
<1> QED
  BY <1>1, <1>2 DEF After

\* A step of HL by nothing.
LEMMA StepsNothing ==
  ASSUME NEW q \in RegisterFile
  PROVE  [q EXCEPT !.hl = AsWord(@ + 0)] = q
<1>1. AsWord(q.hl + 0) = q.hl
  BY DEF RegisterFile, Word, AsWord
<1> QED
  BY <1>1 DEF RegisterFile

\* The opcodes of the byte loads, by handler.
LEMMA ByteLoadsAre ==
  ASSUME NEW op \in ByteLoads
  PROVE  \/ op >= \h40 /\ op <= \h7F /\ op # HALT /\ X(op) = 1
         \/ op \in {\h06, \h0E, \h16, \h1E, \h26, \h2E, \h3E} /\ X(op) = 0 /\ Z(op) = 6
         \/ op \in {\h02, \h12, \h22, \h32, \h0A, \h1A, \h2A, \h3A} /\ X(op) = 0 /\ Z(op) = 2
         \/ op \in {\hE0, \hE2, \hF0, \hF2}
         \/ op \in {\hEA, \hFA}
<1>1. op \in 0 .. 255
  BY DEF ByteLoads
<1>2. CASE X(op) = 1 /\ op # HALT
  BY <1>1, <1>2 DEF X
<1>3. CASE X(op) = 0 /\ Z(op) = 6 /\ Y(op) # 6
  BY <1>1, <1>3 DEF X, Y, Z
<1>4. CASE X(op) = 0 /\ Z(op) = 2
  BY <1>1, <1>4 DEF X, Z
<1>5. CASE X(op) = 3 /\ Y(op) \in {4, 6} /\ Z(op) \in {0, 2}
  BY <1>1, <1>5 DEF X, Y, Z
<1>6. CASE X(op) = 3 /\ Y(op) \in {5, 7} /\ Z(op) = 2
  BY <1>1, <1>6 DEF X, Y, Z
<1> QED
  BY <1>2, <1>3, <1>4, <1>5, <1>6 DEF ByteLoads

\* What a byte load comes to, as registers and memory.
Moved(op, r, m) ==
  LET move == ByteMove(op, r, m)
  IN  Put(r, m, move.to, Fetch(r, m, move.from))

\* The handler leaves what a byte load comes to.
Moves(op, r, m, result) ==
  \E q, n, length, c :
    /\ q \in RegisterFile /\ result = After(q, n, length, c) /\ q.pc = r.pc
    /\ n = Moved(op, r, m)[2]
    /\ q = [Moved(op, r, m)[1] EXCEPT !.hl = AsWord(@ + HLStep(op))]

LEMMA MovesAsNamed ==
  ASSUME NEW r, NEW m, NEW op, NEW result, Moves(op, r, m, result)
  PROVE  BytesMoved(op, r, m, result.regs, result.mem)
<1>1. PICK q, n, length, c :
        /\ q \in RegisterFile /\ result = After(q, n, length, c) /\ q.pc = r.pc
        /\ n = Moved(op, r, m)[2]
        /\ q = [Moved(op, r, m)[1] EXCEPT !.hl = AsWord(@ + HLStep(op))]
  BY DEF Moves
<1>2. [result.regs EXCEPT !.pc = r.pc] = q /\ result.mem = n
  BY <1>1, PcRestored
<1>3. /\ result.mem = Moved(op, r, m)[2]
      /\ [result.regs EXCEPT !.pc = r.pc]
           = [Moved(op, r, m)[1] EXCEPT !.hl = AsWord(@ + HLStep(op))]
  BY <1>1, <1>2
<1> QED
  BY <1>3 DEF BytesMoved, Moved

\* LD r,r: both operands may be the byte at HL.
LEMMA RegisterMoves ==
  ASSUME NEW r, Sound(r), NEW m, IsMemory(m), NEW op, op = Opcode(r, m), X(op) = 1
  PROVE  Moves(op, r, m, ld_r_r(r, m))
<1> DEFINE src == Source(op)
           dst == Destination(op)
           value == IF src = 6 THEN Read(m, r.hl) ELSE Get(r, src)
           q == IF dst = 6 THEN r ELSE Set(r, dst, value)
           n == IF dst = 6 THEN Write(m, r.hl, value) ELSE m
<1>1. value \in Byte
  <2>1. r.hl \in Word /\ r \in RegisterFile
    BY DEF Sound, RegisterFile
  <2> QED
    BY <2>1, ReadType, GetType
<1>2. Y(op) = dst /\ Z(op) = src
  BY DEF Destination, Source, Y, Z
<1>3. \E length, c : ld_r_r(r, m) = After(q, n, length, c)
  BY DEF ld_r_r
<1> HIDE DEF src, dst
<1>4. ByteMove(op, r, m) = [to |-> Slot(r, dst), from |-> Slot(r, src)]
  BY <1>2 DEF ByteMove
<1>5. Fetch(r, m, Slot(r, src)) = value
  BY DEF Fetch, Slot, Reg, Cell
<1>6. Put(r, m, Slot(r, dst), value) = <<q, n>>
  <2>1. CASE dst = 6
    BY <2>1 DEF Put, Slot, Cell
  <2>2. CASE dst # 6
    BY <2>2 DEF Put, Slot, Reg
  <2> QED
    BY <2>1, <2>2
<1>7. q \in RegisterFile /\ q.pc = r.pc
  BY <1>1, SetSound DEF Sound
<1> HIDE DEF q, n, value
<1>8. Moved(op, r, m) = <<q, n>>
  BY <1>4, <1>5, <1>6 DEF Moved
<1>9. HLStep(op) = 0
  BY DEF HLStep
<1>10. q = [q EXCEPT !.hl = AsWord(@ + HLStep(op))]
  BY <1>7, <1>9, StepsNothing
<1> QED
  BY <1>3, <1>7, <1>8, <1>10 DEF Moves

\* LD r,n.
LEMMA ImmediateMoves ==
  ASSUME NEW r, Sound(r), NEW m, IsMemory(m), NEW op, op = Opcode(r, m),
         op \in {\h06, \h0E, \h16, \h1E, \h26, \h2E, \h3E}, X(op) = 0, Z(op) = 6
  PROVE  Moves(op, r, m, ld_r_n(r, m))
<1> DEFINE dst == Destination(op)
           value == Immediate(r, m)
           q == Set(r, dst, value)
<1>1. value \in Byte
  BY OperandsType
<1>2. Y(op) = dst
  BY DEF Destination, Y
<1>3. \E length, c : ld_r_n(r, m) = After(q, m, length, c)
  BY DEF ld_r_n
<1> HIDE DEF dst
<1>4. ByteMove(op, r, m) = [to |-> Reg(dst), from |-> Cell(Plus(r.pc, 1))]
  BY <1>2 DEF ByteMove
<1>5. /\ Fetch(r, m, Cell(Plus(r.pc, 1))) = value
      /\ Put(r, m, Reg(dst), value) = <<q, m>>
  BY DEF Fetch, Put, Reg, Cell, Immediate
<1>6. q \in RegisterFile /\ q.pc = r.pc
  BY <1>1, SetSound DEF Sound
<1> HIDE DEF q, value
<1>7. Moved(op, r, m) = <<q, m>>
  BY <1>4, <1>5 DEF Moved
<1>8. HLStep(op) = 0
  BY DEF HLStep
<1>9. q = [q EXCEPT !.hl = AsWord(@ + HLStep(op))]
  BY <1>6, <1>8, StepsNothing
<1> QED
  BY <1>3, <1>6, <1>7, <1>9 DEF Moves

\* A store of A, and a load of it, whose handlers move HL as the opcode asks.
LEMMA StoreMoves ==
  ASSUME NEW r, Sound(r), NEW m, NEW op, NEW a \in Word, NEW q,
         NEW length, NEW c,
         ByteMove(op, r, m) = [to |-> Cell(a), from |-> Reg(A)], HLStep(op) \in {-1, 0, 1},
         q = [r EXCEPT !.hl = AsWord(r.hl + HLStep(op))],
         NEW result, result = After(q, Write(m, a, Get(r, A)), length, c)
  PROVE  Moves(op, r, m, result)
<1>1. r \in RegisterFile /\ r.hl \in Word
  BY DEF Sound, RegisterFile
<1>2. AsWord(r.hl + HLStep(op)) \in Word
  BY <1>1, AsWordType DEF Word
<1>3. Moved(op, r, m) = <<r, Write(m, a, Get(r, A))>>
  BY DEF Moved, Direction, Put, Fetch, Reg, Cell
<1>4. q \in RegisterFile /\ q.pc = r.pc
  BY <1>1, <1>2 DEF RegisterFile
<1> DEFINE stored == Write(m, a, Get(r, A))
<1>5. result = After(q, stored, length, c)
  OBVIOUS
<1>6. /\ stored = Moved(op, r, m)[2]
      /\ q = [Moved(op, r, m)[1] EXCEPT !.hl = AsWord(@ + HLStep(op))]
  BY <1>3
<1> HIDE DEF stored
<1> QED
  BY <1>4, <1>5, <1>6, Zenon DEF Moves

LEMMA LoadMoves ==
  ASSUME NEW r, Sound(r), NEW m, IsMemory(m), NEW op, NEW a \in Word, NEW q,
         NEW length, NEW c,
         ByteMove(op, r, m) = [to |-> Reg(A), from |-> Cell(a)], HLStep(op) \in {-1, 0, 1},
         q = [Set(r, A, Read(m, a)) EXCEPT !.hl = AsWord(r.hl + HLStep(op))],
         NEW result, result = After(q, m, length, c)
  PROVE  Moves(op, r, m, result)
<1> DEFINE loaded == Set(r, A, Read(m, a))
<1>1. r \in RegisterFile /\ r.hl \in Word
  BY DEF Sound, RegisterFile
<1>2. AsWord(r.hl + HLStep(op)) \in Word
  BY <1>1, AsWordType DEF Word
<1>3. Moved(op, r, m) = <<loaded, m>>
  BY DEF Moved, Direction, Put, Fetch, Reg, Cell
<1>4. loaded \in RegisterFile /\ loaded.pc = r.pc /\ loaded.hl = r.hl
  <2>1. loaded = [r EXCEPT !.af = SetHigh(r.af, Read(m, a))]
    BY DEF Set, A
  <2>2. Sound(loaded) /\ loaded.pc = r.pc
    BY ReadType, SetSound
  <2> QED
    BY <1>1, <2>1, <2>2 DEF Sound, RegisterFile
<1>5. q = [loaded EXCEPT !.hl = AsWord(loaded.hl + HLStep(op))]
  BY <1>4
<1> HIDE DEF loaded
<1>6. q \in RegisterFile /\ q.pc = r.pc
  BY <1>2, <1>4, <1>5 DEF RegisterFile
<1>7. /\ m = Moved(op, r, m)[2]
      /\ q = [Moved(op, r, m)[1] EXCEPT !.hl = AsWord(@ + HLStep(op))]
  <2>1. Moved(op, r, m)[1] = loaded /\ Moved(op, r, m)[2] = m
    BY <1>3
  <2> QED
    BY <1>5, <2>1, Zenon
<1> QED
  BY <1>6, <1>7, Zenon DEF Moves

\* Loads and stores of A through BC, DE or HL.
PointerStores == {\h02, \h12, \h22, \h32}
PointerLoads == {\h0A, \h1A, \h2A, \h3A}

\* The fields of these opcodes give the pointer, its step and the direction.
LEMMA PointerFields ==
  ASSUME NEW r \in RegisterFile, NEW m, NEW op \in PointerStores \cup PointerLoads
  PROVE  /\ op \in PointerStores =>
              ByteMove(op, r, m) = [to |-> Cell(Pointer(r, op)), from |-> Reg(A)]
         /\ op \in PointerLoads =>
              ByteMove(op, r, m) = [to |-> Reg(A), from |-> Cell(Pointer(r, op))]
         /\ HLStep(op) = CASE op \in {\h22, \h2A} -> 1 [] op \in {\h32, \h3A} -> -1
                           [] OTHER -> 0
<1>1. X(op) = 0 /\ Z(op) = 2
  BY DEF X, Z, PointerStores, PointerLoads
<1>2. P(op) = CASE op \in {\h02, \h0A} -> 0 [] op \in {\h12, \h1A} -> 1
                [] op \in {\h22, \h2A} -> 2 [] OTHER -> 3
  BY DEF P, PointerStores, PointerLoads
<1>3. <<r.bc, r.de, r.hl, r.hl>>[P(op) + 1] = Pointer(r, op)
  BY <1>2 DEF Pointer, PointerStores, PointerLoads
<1>4. ByteMove(op, r, m) = Direction(Q(op) = 0, Cell(Pointer(r, op)))
  <2>1. ByteMove(op, r, m)
          = Direction(Q(op) = 0, Cell(<<r.bc, r.de, r.hl, r.hl>>[P(op) + 1]))
    BY <1>1 DEF ByteMove
  <2> QED
    BY <1>3, <2>1, Zenon
<1>5. op \in PointerStores => Q(op) = 0
  BY DEF Q, PointerStores
<1>6. op \in PointerLoads => ~(Q(op) = 0)
  BY DEF Q, PointerLoads
<1>9. HLStep(op) = <<0, 0, 1, -1>>[P(op) + 1]
  BY <1>1 DEF HLStep
<1>10. HLStep(op) = CASE op \in {\h22, \h2A} -> 1 [] op \in {\h32, \h3A} -> -1
                           [] OTHER -> 0
  BY <1>2, <1>9 DEF PointerStores, PointerLoads
<1>11. op \in PointerStores =>
         ByteMove(op, r, m) = [to |-> Cell(Pointer(r, op)), from |-> Reg(A)]
  BY <1>4, <1>5 DEF Direction
<1>12. op \in PointerLoads =>
         ByteMove(op, r, m) = [to |-> Reg(A), from |-> Cell(Pointer(r, op))]
  BY <1>4, <1>6 DEF Direction
<1> QED
  BY <1>10, <1>11, <1>12

LEMMA StepHLIs ==
  ASSUME NEW q \in RegisterFile, NEW op \in PointerStores \cup PointerLoads
  PROVE  /\ StepHL(q, op) = [q EXCEPT !.hl = AsWord(q.hl + HLStep(op))]
         /\ HLStep(op) \in {-1, 0, 1}
<1>1. HLStep(op) = CASE op \in {\h22, \h2A} -> 1 [] op \in {\h32, \h3A} -> -1
                     [] OTHER -> 0
  BY PointerFields
<1>2. q.hl \in Int
  BY DEF RegisterFile, Word
<1>3. q = [q EXCEPT !.hl = AsWord(q.hl + 0)]
  BY StepsNothing
<1>4. CASE op \in {\h22, \h2A}
  BY <1>1, <1>4 DEF StepHL
<1>5. CASE op \in {\h32, \h3A}
  <2>1. q.hl + -1 = q.hl - 1
    BY <1>2
  <2> QED
    BY <1>1, <1>5, <2>1 DEF StepHL
<1>6. CASE op \notin {\h22, \h2A, \h32, \h3A}
  BY <1>1, <1>3, <1>6 DEF StepHL
<1> QED
  BY <1>4, <1>5, <1>6

\* LD (BC),A to LD A,(HL-).
LEMMA PointerMoves ==
  ASSUME NEW r, Sound(r), NEW m, IsMemory(m), NEW op, op = Opcode(r, m)
  PROVE  /\ op \in PointerStores => Moves(op, r, m, ld_mem_a(r, m))
         /\ op \in PointerLoads => Moves(op, r, m, ld_a_mem(r, m))
<1> DEFINE a == Pointer(r, op)
<1>1. r \in RegisterFile /\ r.hl \in Word /\ a \in Word
  BY DEF Sound, RegisterFile, Pointer
<1> HIDE DEF a
<1>3. ASSUME op \in PointerStores PROVE Moves(op, r, m, ld_mem_a(r, m))
  <2>1. ByteMove(op, r, m) = [to |-> Cell(a), from |-> Reg(A)]
    BY <1>1, <1>3, PointerFields DEF a
  <2>2. ld_mem_a(r, m) = After(StepHL(r, op), Write(m, a, Get(r, A)), 1, 8)
    BY DEF ld_mem_a, a
  <2>3. /\ StepHL(r, op) = [r EXCEPT !.hl = AsWord(r.hl + HLStep(op))]
        /\ HLStep(op) \in {-1, 0, 1}
    BY <1>1, <1>3, StepHLIs
  <2> QED
    BY <1>1, <2>1, <2>2, <2>3, StoreMoves
<1>4. ASSUME op \in PointerLoads PROVE Moves(op, r, m, ld_a_mem(r, m))
  <2> DEFINE loaded == Set(r, A, Read(m, a))
  <2>1. ByteMove(op, r, m) = [to |-> Reg(A), from |-> Cell(a)]
    BY <1>1, <1>4, PointerFields DEF a
  <2>2. ld_a_mem(r, m) = After(StepHL(loaded, op), m, 1, 8)
    BY DEF ld_a_mem, a
  <2>3. loaded \in RegisterFile /\ loaded.hl = r.hl
    <3>1. Sound(loaded)
      BY <1>1, ReadType, SetSound
    <3> QED
      BY <1>1, <3>1 DEF Set, A, Sound, RegisterFile
  <2>4. /\ StepHL(loaded, op) = [loaded EXCEPT !.hl = AsWord(r.hl + HLStep(op))]
        /\ HLStep(op) \in {-1, 0, 1}
    BY <1>4, <2>3, StepHLIs
  <2> QED
    BY <1>1, <2>1, <2>2, <2>4, LoadMoves
<1> QED
  BY <1>3, <1>4

\* LDH and the forms through C, and LD with an address.
LEMMA AbsoluteMoves ==
  ASSUME NEW r, Sound(r), NEW m, IsMemory(m), NEW op, op = Opcode(r, m)
  PROVE  /\ op \in {\hE0, \hE2, \hF0, \hF2} => Moves(op, r, m, ld_io_a(r, m))
         /\ op \in {\hEA, \hFA} => Moves(op, r, m, ld_a_abs(r, m))
<1>1. r \in RegisterFile /\ r.hl \in Word /\ r.bc \in Word
  BY DEF Sound, RegisterFile
<1>2. \A a \in Word : LET loaded == Set(r, A, Read(m, a))
                      IN  loaded \in RegisterFile /\ loaded.hl = r.hl
  <2> SUFFICES ASSUME NEW a \in Word
               PROVE  /\ Set(r, A, Read(m, a)) \in RegisterFile
                      /\ Set(r, A, Read(m, a)).hl = r.hl
    OBVIOUS
  <2>1. Sound(Set(r, A, Read(m, a)))
    BY ReadType, SetSound
  <2> QED
    BY <1>1, <2>1 DEF Set, A, Sound, RegisterFile
<1>3. \A q \in RegisterFile : q.hl = r.hl => q = [q EXCEPT !.hl = AsWord(r.hl + 0)]
  BY StepsNothing
<1>4. ASSUME op \in {\hE0, \hE2, \hF0, \hF2} PROVE Moves(op, r, m, ld_io_a(r, m))
  <2> DEFINE a == IoAddress(r, m)
  <2>1. a \in Word
    BY <1>1, OperandsType, GetType DEF IoAddress, Byte, Word
  <2>2. X(op) = 3 /\ Y(op) \in {4, 6} /\ Z(op) \in {0, 2}
    BY <1>4 DEF X, Y, Z
  <2>3. a = 65280 + (IF Z(op) = 0 THEN Immediate(r, m) ELSE Low(r.bc))
    <3>1. Get(r, C) = Low(r.bc)
      BY DEF Get, C
    <3>2. Z(op) = 0 <=> op \in {\hE0, \hF0}
      BY <1>4 DEF Z
    <3> QED
      BY <3>1, <3>2 DEF IoAddress
  <2>4. ByteMove(op, r, m) = Direction(Y(op) = 4, Cell(a))
    BY <2>2, <2>3 DEF ByteMove
  <2>5. (Y(op) = 4) = (op \in {\hE0, \hE2})
    BY <1>4 DEF Y
  <2>6. HLStep(op) = 0
    BY <2>2 DEF HLStep
  <2> HIDE DEF a
  <2>7. CASE op \in {\hE0, \hE2}
    <3>1. ByteMove(op, r, m) = [to |-> Cell(a), from |-> Reg(A)]
      BY <2>4, <2>5, <2>7 DEF Direction
    <3>2. ld_io_a(r, m) = After(r, Write(m, a, Get(r, A)), IoLength(op), 12)
      BY <2>7 DEF ld_io_a, a
    <3>3. r = [r EXCEPT !.hl = AsWord(r.hl + HLStep(op))]
      BY <1>1, <1>3, <2>6
    <3> QED
      BY <2>1, <2>6, <3>1, <3>2, <3>3, StoreMoves
  <2>8. CASE op \notin {\hE0, \hE2}
    <3> DEFINE loaded == Set(r, A, Read(m, a))
    <3>1. ByteMove(op, r, m) = [to |-> Reg(A), from |-> Cell(a)]
      BY <2>4, <2>5, <2>8 DEF Direction
    <3>2. ld_io_a(r, m) = After(loaded, m, IoLength(op), 12)
      BY <2>8 DEF ld_io_a, a
    <3>3. loaded = [loaded EXCEPT !.hl = AsWord(r.hl + HLStep(op))]
      BY <1>2, <1>3, <2>1, <2>6
    <3> QED
      BY <2>1, <2>6, <3>1, <3>2, <3>3, LoadMoves
  <2> QED
    BY <2>7, <2>8
<1>5. ASSUME op \in {\hEA, \hFA} PROVE Moves(op, r, m, ld_a_abs(r, m))
  <2> DEFINE a == ImmediateWord(r, m)
  <2>1. a \in Word
    BY OperandsType
  <2>2. X(op) = 3 /\ Y(op) \in {5, 7}
    BY <1>5 DEF X, Y
  <2>3. ByteMove(op, r, m) = Direction(Y(op) = 5, Cell(a))
    BY <2>2 DEF ByteMove
  <2>4. (Y(op) = 5) = (op = \hEA)
    BY <1>5 DEF Y
  <2>5. HLStep(op) = 0
    BY <2>2 DEF HLStep
  <2> HIDE DEF a
  <2>6. CASE op = \hEA
    <3>1. ByteMove(op, r, m) = [to |-> Cell(a), from |-> Reg(A)]
      BY <2>3, <2>4, <2>6 DEF Direction
    <3>2. ld_a_abs(r, m) = After(r, Write(m, a, Get(r, A)), 3, 16)
      BY <2>6 DEF ld_a_abs, a
    <3>3. r = [r EXCEPT !.hl = AsWord(r.hl + HLStep(op))]
      BY <1>1, <1>3, <2>5
    <3> QED
      BY <2>1, <2>5, <3>1, <3>2, <3>3, StoreMoves
  <2>7. CASE op # \hEA
    <3> DEFINE loaded == Set(r, A, Read(m, a))
    <3>1. ByteMove(op, r, m) = [to |-> Reg(A), from |-> Cell(a)]
      BY <2>3, <2>4, <2>7 DEF Direction
    <3>2. ld_a_abs(r, m) = After(loaded, m, 3, 16)
      BY <2>7 DEF ld_a_abs, a
    <3>3. loaded = [loaded EXCEPT !.hl = AsWord(r.hl + HLStep(op))]
      BY <1>2, <1>3, <2>1, <2>5
    <3> QED
      BY <2>1, <2>5, <3>1, <3>2, <3>3, LoadMoves
  <2> QED
    BY <2>6, <2>7
<1> QED
  BY <1>4, <1>5
-----------------------------------------------------------------------------
(* The word loads. *)

Pairs == {"af", "bc", "de", "hl", "sp"}

\* q differs from r in the names only.
Keeps(r, q, names) == \A n \in Pairs \ names : q[n] = r[n]

\* A handler that leaves q leaves all but the names alone if q does.
LEMMA UnchangedAfter ==
  ASSUME NEW r \in RegisterFile, NEW q \in RegisterFile, NEW names,
         Keeps(r, q, names), NEW m, NEW length, NEW c,
         NEW result, result = After(q, m, length, c)
  PROVE  /\ Unchanged(r, result.regs, names)
         /\ \A n \in Pairs : result.regs[n] = q[n]
         /\ result.mem = m
<1>1. \A n \in Pairs : result.regs[n] = q[n]
  BY DEF After, Pairs, RegisterFile
<1>2. DOMAIN r \ (names \cup {"pc"}) = Pairs \ names
  BY DEF RegisterFile, Pairs
<1>3. Unchanged(r, result.regs, names)
  BY <1>1, <1>2 DEF Unchanged, Keeps
<1> QED
  BY <1>1, <1>3 DEF After

\* One register loaded, and the stack pointer perhaps moved.
LEMMA PairLoaded ==
  ASSUME NEW r \in RegisterFile, NEW pair \in Pairs, NEW v \in Word
  PROVE  LET q == [r EXCEPT ![pair] = v]
         IN  q \in RegisterFile /\ q[pair] = v /\ \A n \in Pairs \ {pair} : q[n] = r[n]
BY DEF RegisterFile, Pairs

LEMMA PairNamed ==
  ASSUME NEW last
  PROVE  /\ PairOf(0, last) = "bc" /\ PairOf(1, last) = "de"
         /\ PairOf(2, last) = "hl" /\ PairOf(3, last) = last
BY DEF PairOf

\* LD rr,nn.
LEMMA ImmediateWords ==
  ASSUME NEW r, Sound(r), NEW m, IsMemory(m), NEW op, op = Opcode(r, m),
         op \in {\h01, \h11, \h21, \h31}
  PROVE  WordsMoved(op, r, m, ld_rp_nn(r, m).regs, ld_rp_nn(r, m).mem)
<1> DEFINE v == ImmediateWord(r, m)
           pair == PairOf(P(op), "sp")
           q == [r EXCEPT ![pair] = v]
<1>1. X(op) = 0 /\ Z(op) = 1
  BY DEF X, Z
<1>2. r \in RegisterFile /\ v \in Word
  BY OperandsType DEF Sound
<1>3. /\ op = \h01 => pair = "bc"
      /\ op = \h11 => pair = "de"
      /\ op = \h21 => pair = "hl"
      /\ op = \h31 => pair = "sp"
  BY PairNamed DEF P
<1> HIDE DEF v, pair
<1>4. pair \in Pairs
  BY <1>3 DEF Pairs
<1>5. ld_rp_nn(r, m) = After(q, m, 3, 12)
  BY <1>3 DEF ld_rp_nn, v
<1>6. q \in RegisterFile /\ q[pair] = v /\ \A n \in Pairs \ {pair} : q[n] = r[n]
  BY <1>2, <1>4, PairLoaded
<1> HIDE DEF q
<1>7. /\ Unchanged(r, ld_rp_nn(r, m).regs, {pair})
      /\ ld_rp_nn(r, m).regs[pair] = v /\ ld_rp_nn(r, m).mem = m
  BY <1>2, <1>4, <1>5, <1>6, UnchangedAfter DEF Keeps
<1> QED
  BY <1>1, <1>7 DEF WordsMoved, v, pair

\* POP rr.
LEMMA Pops ==
  ASSUME NEW r, Sound(r), NEW m, IsMemory(m), NEW op, op = Opcode(r, m),
         op \in {\hC1, \hD1, \hE1, \hF1}
  PROVE  WordsMoved(op, r, m, pop_rp(r, m).regs, pop_rp(r, m).mem)
<1> DEFINE pair == PairOf(P(op), "af")
           v == IF pair = "af" THEN FlagsOnly(Top(r, m)) ELSE Top(r, m)
           popped == [r EXCEPT !.sp = Plus(r.sp, 2)]
           q == [popped EXCEPT ![pair] = v]
           r2 == pop_rp(r, m).regs
           m2 == pop_rp(r, m).mem
<1>1. X(op) = 3 /\ Z(op) = 1 /\ Q(op) = 0
  BY DEF X, Z, Q
<1>2. r \in RegisterFile /\ r.sp \in Word /\ Top(r, m) \in Word
  BY OperandsType DEF Sound, RegisterFile
<1>3. v = IF pair = "af" THEN 16 * (Top(r, m) \div 16) ELSE Top(r, m)
  BY <1>2 DEF FlagsOnly, Word
<1>4. v \in Word
  BY <1>2, HalvesType
<1>5. /\ op = \hC1 => pair = "bc"
      /\ op = \hD1 => pair = "de"
      /\ op = \hE1 => pair = "hl"
      /\ op = \hF1 => pair = "af"
  BY PairNamed DEF P
<1>6. pop_rp(r, m) = After(q, m, 1, 12)
  <2> HIDE DEF pair
  <2> QED
    BY <1>5 DEF pop_rp
<1> HIDE DEF v, pair
<1>7. pair \in Pairs /\ pair # "sp"
  BY <1>5 DEF Pairs
<1>8. Plus(r.sp, 2) \in Word /\ AsWord(Plus(r.sp, 2) - 2) = r.sp
  BY <1>2 DEF Plus, AsWord, Word
<1>9. /\ popped \in RegisterFile /\ popped.sp = Plus(r.sp, 2)
      /\ \A n \in Pairs \ {"sp"} : popped[n] = r[n]
  BY <1>2, <1>8 DEF RegisterFile, Pairs
<1> HIDE DEF popped
<1>10. q \in RegisterFile /\ q[pair] = v /\ \A n \in Pairs \ {pair} : q[n] = popped[n]
  BY <1>4, <1>7, <1>9, PairLoaded
<1> HIDE DEF q
<1>11. /\ q["sp"] = Plus(r.sp, 2)
       /\ \A n \in Pairs \ {pair, "sp"} : q[n] = r[n]
  BY <1>7, <1>9, <1>10 DEF Pairs
<1>12. /\ Unchanged(r, r2, {pair, "sp"}) /\ r2[pair] = v /\ m2 = m
       /\ r2.sp = Plus(r.sp, 2)
  <2>1. /\ Unchanged(r, r2, {pair, "sp"}) /\ m2 = m
        /\ \A n \in Pairs : r2[n] = q[n]
    <3>1. Keeps(r, q, {pair, "sp"})
      BY <1>11 DEF Keeps
    <3> QED
      BY <1>2, <1>6, <1>10, <3>1, UnchangedAfter
  <2>2. "sp" \in Pairs
    BY DEF Pairs
  <2> HIDE DEF r2, m2
  <2>3. r2[pair] = q[pair] /\ r2["sp"] = q["sp"]
    BY <1>7, <2>1, <2>2
  <2> QED
    BY <1>10, <1>11, <2>1, <2>3
<1> HIDE DEF r2, m2
<1>13. r2[pair] = (IF pair = "af" THEN 16 * (Top(r, m) \div 16) ELSE Top(r, m))
  BY <1>3, <1>12
<1>14. r.sp = AsWord(r2.sp - 2)
  BY <1>8, <1>12
<1>15. WordsMoved(op, r, m, r2, m2)
  BY <1>1, <1>12, <1>13, <1>14 DEF WordsMoved, pair
<1> QED
  BY <1>15 DEF r2, m2

\* PUSH rr.
LEMMA Pushes ==
  ASSUME NEW r, Sound(r), NEW m, IsMemory(m), NEW op, op = Opcode(r, m),
         op \in {\hC5, \hD5, \hE5, \hF5}
  PROVE  WordsMoved(op, r, m, push_rp(r, m).regs, push_rp(r, m).mem)
<1> DEFINE pair == PairOf(P(op), "af")
           sp == AsWord(r.sp - 2)
           q == [r EXCEPT !.sp = sp]
           n == PushWord(m, r.sp, r[pair])
           r2 == push_rp(r, m).regs
           m2 == push_rp(r, m).mem
<1>1. X(op) = 3 /\ Z(op) = 5 /\ Q(op) = 0
  BY DEF X, Z, Q
<1>2. r \in RegisterFile /\ r.sp \in Word
  BY DEF Sound, RegisterFile
<1>3. /\ op = \hC5 => pair = "bc"
      /\ op = \hD5 => pair = "de"
      /\ op = \hE5 => pair = "hl"
      /\ op = \hF5 => pair = "af"
  BY PairNamed DEF P
<1> HIDE DEF pair
<1>4. Pushed(r, op) = r[pair] /\ pair \in Pairs
  BY <1>3 DEF Pushed, Pairs
<1>5. r[pair] \in Word
  BY <1>2, <1>4 DEF RegisterFile, Pairs
<1>6. /\ AsWord(r.sp - 1) = Plus(sp, 1) /\ Plus(sp, 1) # sp
      /\ sp \in Word /\ Plus(sp, 1) \in Word
  BY <1>2, PushesApart
<1>7. push_rp(r, m) = After(q, n, 1, 16)
  <2>1. push_rp(r, m) = After(q, PushWord(m, r.sp, Pushed(r, op)), 1, 16)
    BY DEF push_rp
  <2> QED
    BY <1>4, <2>1
<1>8. n = Write(Write(m, Plus(sp, 1), High(r[pair])), sp, Low(r[pair]))
  BY <1>6 DEF PushWord
<1>9. q \in RegisterFile /\ q.sp = sp /\ \A x \in Pairs \ {"sp"} : q[x] = r[x]
  BY <1>2, <1>6 DEF RegisterFile, Pairs
<1> HIDE DEF q, n, sp
<1>10. Unchanged(r, r2, {"sp"}) /\ r2.sp = sp /\ m2 = n
  <2>1. /\ Unchanged(r, r2, {"sp"}) /\ m2 = n
        /\ \A x \in Pairs : r2[x] = q[x]
    <3>1. Keeps(r, q, {"sp"})
      BY <1>9 DEF Keeps
    <3> QED
      BY <1>2, <1>7, <1>9, <3>1, UnchangedAfter
  <2>2. "sp" \in Pairs
    BY DEF Pairs
  <2> HIDE DEF r2, m2
  <2>3. r2["sp"] = q["sp"]
    BY <2>1, <2>2
  <2> QED
    BY <1>9, <2>1, <2>3
<1>11. ASSUME InRam(sp), InRam(Plus(sp, 1)) PROVE Top(r2, m2) = r[pair]
  <2>1. Read(n, sp) = Low(r[pair])
    BY <1>8, <1>11, ReadWritten
  <2>2. Read(n, Plus(sp, 1)) = High(r[pair])
    BY <1>6, <1>8, <1>11, ReadWritten, ReadOther
  <2> QED
    BY <1>5, <1>10, <2>1, <2>2, HalvesOfPair DEF Top
<1> HIDE DEF r2, m2
<1>12. WordsMoved(op, r, m, r2, m2)
  BY <1>1, <1>10, <1>11 DEF WordsMoved, pair, sp
<1> QED
  BY <1>12 DEF r2, m2

\* LD (nn),SP.
LEMMA StoresSP ==
  ASSUME NEW r, Sound(r), NEW m, IsMemory(m)
  PROVE  WordsMoved(\h08, r, m, ld_nn_sp(r, m).regs, ld_nn_sp(r, m).mem)
<1> DEFINE a == ImmediateWord(r, m)
           n == WriteWord(m, a, r.sp)
           r2 == ld_nn_sp(r, m).regs
           m2 == ld_nn_sp(r, m).mem
<1>1. X(\h08) = 0 /\ Z(\h08) = 0
  BY DEF X, Z
<1>2. r \in RegisterFile /\ a \in Word
  BY OperandsType DEF Sound
<1>3. Plus(a, 1) # a
  BY <1>2 DEF Plus, AsWord, Word
<1>4. ld_nn_sp(r, m) = After(r, n, 3, 20)
  BY DEF ld_nn_sp
<1>5. n = Write(Write(m, a, Low(r.sp)), Plus(a, 1), High(r.sp))
  BY DEF WriteWord
<1> HIDE DEF a, n
<1>6. Unchanged(r, r2, {}) /\ m2 = n
  BY <1>2, <1>4, UnchangedAfter DEF Keeps
<1>7. /\ InRam(a) => Read(n, a) = Low(r.sp)
      /\ InRam(Plus(a, 1)) => Read(n, Plus(a, 1)) = High(r.sp)
  BY <1>3, <1>5, ReadWritten, ReadOther
<1> HIDE DEF r2, m2
<1>8. WordsMoved(\h08, r, m, r2, m2)
  BY <1>1, <1>6, <1>7 DEF WordsMoved, a
<1> QED
  BY <1>8 DEF r2, m2

\* LD SP,HL.
LEMMA LoadsSP ==
  ASSUME NEW r, Sound(r), NEW m, IsMemory(m)
  PROVE  WordsMoved(\hF9, r, m, ld_sp_hl(r, m).regs, ld_sp_hl(r, m).mem)
<1> DEFINE q == [r EXCEPT !.sp = r.hl]
           r2 == ld_sp_hl(r, m).regs
           m2 == ld_sp_hl(r, m).mem
<1>1. X(\hF9) = 3 /\ Z(\hF9) = 1 /\ Q(\hF9) = 1
  BY DEF X, Z, Q
<1>2. r \in RegisterFile
  BY DEF Sound
<1>3. q \in RegisterFile /\ q.sp = r.hl /\ \A x \in Pairs \ {"sp"} : q[x] = r[x]
  BY <1>2 DEF RegisterFile, Pairs
<1>4. ld_sp_hl(r, m) = After(q, m, 1, 8)
  BY DEF ld_sp_hl
<1> HIDE DEF q
<1>5. Unchanged(r, r2, {"sp"}) /\ r2.sp = r.hl /\ m2 = m
  <2>1. Keeps(r, q, {"sp"}) /\ "sp" \in Pairs
    BY <1>3 DEF Keeps, Pairs
  <2> QED
    BY <1>2, <1>3, <1>4, <2>1, UnchangedAfter
<1> HIDE DEF r2, m2
<1>6. WordsMoved(\hF9, r, m, r2, m2)
  BY <1>1, <1>5 DEF WordsMoved
<1> QED
  BY <1>6 DEF r2, m2

\* A word in three parts: what is above a bit, the bit, what is below it.
LEMMA PartsAt16 ==
  ASSUME NEW w \in Nat
  PROVE  \E h \in Nat, b \in {0, 1}, l \in 0 .. 15 :
           w = (32 * h) + (16 * b) + l /\ (w \div 16) % 2 = b /\ w % 16 = l
<1>1. /\ w \div 32 \in Nat /\ (w \div 16) % 2 \in {0, 1} /\ w % 16 \in 0 .. 15
      /\ w = (32 * (w \div 32)) + (16 * ((w \div 16) % 2)) + (w % 16)
  OBVIOUS
<1> QED
  BY <1>1

\* That bit of a number given in parts, the lower ones perhaps carrying.
LEMMA BitOfSum16 ==
  ASSUME NEW k \in Int, NEW t \in 0 .. 2, NEW u \in 0 .. 30, NEW x \in Nat,
         x = (32 * k) + (16 * t) + u
  PROVE  (x \div 16) % 2 = (t + (IF u > 15 THEN 1 ELSE 0)) % 2
<1>1. CASE u <= 15
  <2>1. x \div 16 = (2 * k) + t
    BY <1>1
  <2> QED
    BY <1>1, <2>1
<1>2. CASE u > 15
  <2>1. x \div 16 = (2 * k) + t + 1
    BY <1>2
  <2> QED
    BY <1>2, <2>1
<1> QED
  BY <1>1, <1>2

\* The bit of a sum differs from the sum of the bits when what is below carries.
LEMMA CarriesInto16 ==
  ASSUME NEW a \in Word, NEW b \in Word
  PROVE  CarryInto(16, a, b, Plus(a, b)) <=> (a % 16) + (b % 16) > 15
<1>1. a \in Nat /\ b \in Nat
  BY DEF Word
<1>2. PICK ha \in Nat, ba \in {0, 1}, la \in 0 .. 15 :
        a = (32 * ha) + (16 * ba) + la /\ (a \div 16) % 2 = ba /\ a % 16 = la
  BY <1>1, PartsAt16
<1>3. PICK hb \in Nat, bb \in {0, 1}, lb \in 0 .. 15 :
        b = (32 * hb) + (16 * bb) + lb /\ (b \div 16) % 2 = bb /\ b % 16 = lb
  BY <1>1, PartsAt16
<1> DEFINE s == (a + b) % 65536
<1>4. s \in Nat /\ (s = a + b \/ s = (a + b) - 65536)
  BY DEF Word
<1> HIDE DEF s
<1>5. a + b = (32 * (ha + hb)) + (16 * (ba + bb)) + (la + lb)
  <2>1. a = (32 * ha) + (16 * ba) + la /\ b = (32 * hb) + (16 * bb) + lb
    BY <1>2, <1>3
  <2> QED
    BY <2>1
<1> DEFINE t == ba + bb
           u == la + lb
           k == IF s = a + b THEN ha + hb ELSE (ha + hb) - 2048
<1>6. /\ t \in 0 .. 2 /\ u \in 0 .. 30 /\ k \in Int
      /\ s = (32 * k) + (16 * t) + u
  <2>1. t \in 0 .. 2 /\ u \in 0 .. 30 /\ k \in Int
    OBVIOUS
  <2>2. a + b = (32 * (ha + hb)) + (16 * t) + u
    BY <1>5
  <2> HIDE DEF t, u
  <2>3. (a + b) - 65536 = (32 * ((ha + hb) - 2048)) + (16 * t) + u
    BY <2>1, <2>2
  <2> QED
    BY <1>4, <2>1, <2>2, <2>3
<1> HIDE DEF t, u, k
<1>7. (s \div 16) % 2 = (ba + bb + (IF la + lb > 15 THEN 1 ELSE 0)) % 2
  <2>1. (s \div 16) % 2 = (t + (IF u > 15 THEN 1 ELSE 0)) % 2
    BY <1>4, <1>6, BitOfSum16
  <2> QED
    BY <2>1 DEF t, u
<1>8. CarryInto(16, a, b, s) <=> (s \div 16) % 2 # (ba + bb) % 2
  <2>1. CarryInto(16, a, b, s)
          <=> (s \div 16) % 2 # (((a \div 16) % 2) + ((b \div 16) % 2)) % 2
    BY DEF CarryInto
  <2>2. (a \div 16) % 2 = ba /\ (b \div 16) % 2 = bb
    BY <1>2, <1>3
  <2> QED
    BY <2>1, <2>2
<1>9. CarryInto(16, a, b, s) <=> la + lb > 15
  <2>1. ba + bb + 1 \in 1 .. 3 /\ (ba + bb + 1) % 2 # (ba + bb) % 2
    OBVIOUS
  <2>2. (IF la + lb > 15 THEN 1 ELSE 0) = 1 <=> la + lb > 15
    OBVIOUS
  <2>3. ba + bb + 0 = ba + bb
    OBVIOUS
  <2> QED
    BY <1>7, <1>8, <2>1, <2>2, <2>3
<1> QED
  BY <1>2, <1>3, <1>9 DEF s, Plus, AsWord

LEMMA PartsAt256 ==
  ASSUME NEW w \in Nat
  PROVE  \E h \in Nat, b \in {0, 1}, l \in Byte :
           w = (512 * h) + (256 * b) + l /\ (w \div 256) % 2 = b /\ w % 256 = l
<1>1. /\ w \div 512 \in Nat /\ (w \div 256) % 2 \in {0, 1} /\ w % 256 \in Byte
      /\ w = (512 * (w \div 512)) + (256 * ((w \div 256) % 2)) + (w % 256)
  BY DEF Byte
<1> QED
  BY <1>1

LEMMA BitOfSum256 ==
  ASSUME NEW k \in Int, NEW t \in 0 .. 2, NEW u \in Nat, u <= 510, NEW x \in Nat,
         x = (512 * k) + (256 * t) + u
  PROVE  (x \div 256) % 2 = (t + (IF u > 255 THEN 1 ELSE 0)) % 2
<1>1. CASE u <= 255
  <2>1. x \div 256 = (2 * k) + t
    BY <1>1
  <2> QED
    BY <1>1, <2>1
<1>2. CASE u > 255
  <2>1. x \div 256 = (2 * k) + t + 1
    BY <1>2
  <2> QED
    BY <1>2, <2>1
<1> QED
  BY <1>1, <1>2

LEMMA CarriesInto256 ==
  ASSUME NEW a \in Word, NEW b \in Word
  PROVE  CarryInto(256, a, b, Plus(a, b)) <=> (a % 256) + (b % 256) > 255
<1>1. a \in Nat /\ b \in Nat
  BY DEF Word
<1>2. PICK ha \in Nat, ba \in {0, 1}, la \in Byte :
        a = (512 * ha) + (256 * ba) + la /\ (a \div 256) % 2 = ba /\ a % 256 = la
  BY <1>1, PartsAt256
<1>3. PICK hb \in Nat, bb \in {0, 1}, lb \in Byte :
        b = (512 * hb) + (256 * bb) + lb /\ (b \div 256) % 2 = bb /\ b % 256 = lb
  BY <1>1, PartsAt256
<1> DEFINE s == (a + b) % 65536
<1>4. s \in Nat /\ (s = a + b \/ s = (a + b) - 65536)
  BY DEF Word
<1> HIDE DEF s
<1>5. a + b = (512 * (ha + hb)) + (256 * (ba + bb)) + (la + lb)
  <2>1. a = (512 * ha) + (256 * ba) + la /\ b = (512 * hb) + (256 * bb) + lb
    BY <1>2, <1>3
  <2> QED
    BY <2>1 DEF Byte
<1> DEFINE t == ba + bb
           u == la + lb
           k == IF s = a + b THEN ha + hb ELSE (ha + hb) - 128
<1>6. /\ t \in 0 .. 2 /\ u \in Nat /\ u <= 510 /\ k \in Int
      /\ s = (512 * k) + (256 * t) + u
  <2>1. t \in 0 .. 2 /\ u \in Nat /\ u <= 510 /\ k \in Int
    BY DEF Byte
  <2>2. a + b = (512 * (ha + hb)) + (256 * t) + u
    BY <1>5
  <2> HIDE DEF t, u
  <2>3. (a + b) - 65536 = (512 * ((ha + hb) - 128)) + (256 * t) + u
    BY <2>1, <2>2
  <2> QED
    BY <1>4, <2>1, <2>2, <2>3
<1> HIDE DEF t, u, k
<1>7. (s \div 256) % 2 = (ba + bb + (IF la + lb > 255 THEN 1 ELSE 0)) % 2
  <2>1. (s \div 256) % 2 = (t + (IF u > 255 THEN 1 ELSE 0)) % 2
    BY <1>4, <1>6, BitOfSum256
  <2> QED
    BY <2>1 DEF t, u
<1>8. CarryInto(256, a, b, s) <=> (s \div 256) % 2 # (ba + bb) % 2
  <2>1. CarryInto(256, a, b, s)
          <=> (s \div 256) % 2 # (((a \div 256) % 2) + ((b \div 256) % 2)) % 2
    BY DEF CarryInto
  <2>2. (a \div 256) % 2 = ba /\ (b \div 256) % 2 = bb
    BY <1>2, <1>3
  <2> QED
    BY <2>1, <2>2
<1>9. CarryInto(256, a, b, s) <=> la + lb > 255
  <2>1. ba + bb + 1 \in 1 .. 3 /\ (ba + bb + 1) % 2 # (ba + bb) % 2
    OBVIOUS
  <2>2. (IF la + lb > 255 THEN 1 ELSE 0) = 1 <=> la + lb > 255
    OBVIOUS
  <2>3. ba + bb + 0 = ba + bb
    OBVIOUS
  <2> QED
    BY <1>7, <1>8, <2>1, <2>2, <2>3
<1> QED
  BY <1>2, <1>3, <1>9 DEF s, Plus, AsWord

\* The bits of a masked byte are its upper ones.
LEMMA BitsOfFlags ==
  ASSUME NEW b \in Byte
  PROVE  FlagsOnly(b) \in Byte /\ Bits(FlagsOnly(b)) = Bits(b) \cap {4, 5, 6, 7}
<1>1. FlagsOnly(b) \in Byte
  BY FlagsFacts, HalvesType DEF Byte, FlagsOnly
<1>2. /\ FlagsOnly(b) % 16 = 0
      /\ \A W \in {16, 32, 64, 128} : (FlagsOnly(b) \div W) % 2 = (b \div W) % 2
  BY DEF FlagsOnly, Byte
<1>3. \A W \in {1, 2, 4, 8} : (FlagsOnly(b) \div W) % 2 = 0
  BY <1>1, <1>2 DEF Byte
<1>4. \A i \in 0 .. 3 : BitValue[i] \in {1, 2, 4, 8}
  BY BitValueCases
<1>5. \A i \in 4 .. 7 : BitValue[i] \in {16, 32, 64, 128}
  BY BitValueCases
<1>6. \A i \in 0 .. 3 : ~Bit(FlagsOnly(b), i)
  BY <1>3, <1>4 DEF Bit
<1>7. \A i \in 4 .. 7 : Bit(FlagsOnly(b), i) <=> Bit(b, i)
  BY <1>2, <1>5 DEF Bit
<1> QED
  BY <1>1, <1>6, <1>7 DEF Bits

\* The flags as a set of bits.
FlagBits(r) == Bits(Low(r.af))

LEMMA FlagBitsSet ==
  ASSUME NEW r, Sound(r), NEW bit \in {4, 5, 6, 7}, NEW value \in BOOLEAN
  PROVE  /\ value =>
              FlagBits(SetFlag(r, bit, value)) = (FlagBits(r) \cup {bit}) \cap {4, 5, 6, 7}
         /\ ~value =>
              FlagBits(SetFlag(r, bit, value)) = (FlagBits(r) \ {bit}) \cap {4, 5, 6, 7}
         /\ High(SetFlag(r, bit, value).af) = High(r.af)
         /\ \A n \in Pairs \ {"af"} : SetFlag(r, bit, value)[n] = r[n]
<1> DEFINE f == Low(r.af)
           g == IF value THEN SetBit(f, bit) ELSE ClearBit(f, bit)
           q == SetFlag(r, bit, value)
<1>1. f \in Byte /\ High(r.af) \in Byte /\ r.af \in Word /\ r \in RegisterFile
  BY HalvesType DEF Sound, RegisterFile
<1>2. bit \in 0 .. 7
  OBVIOUS
<1>3. q = [r EXCEPT !.af = SetLow(r.af, FlagsOnly(g))]
  BY DEF SetFlag
<1>4. /\ g \in Byte
      /\ value => Bits(g) = Bits(f) \cup {bit}
      /\ ~value => Bits(g) = Bits(f) \ {bit}
  BY <1>1, <1>2, SetClearType, BitsOfSet, BitsOfClear
<1> HIDE DEF f, g
<1>5. FlagsOnly(g) \in Byte /\ Bits(FlagsOnly(g)) = Bits(g) \cap {4, 5, 6, 7}
  BY <1>4, BitsOfFlags
<1>6. \A h, l \in Byte : Low(Pair(h, l)) = l /\ High(Pair(h, l)) = h
  BY DEF Low, High, Pair, Byte
<1>7. /\ Low(SetLow(r.af, FlagsOnly(g))) = FlagsOnly(g)
      /\ High(SetLow(r.af, FlagsOnly(g))) = High(r.af)
  BY <1>1, <1>5, <1>6 DEF SetLow
<1>8. q.af = SetLow(r.af, FlagsOnly(g)) /\ \A n \in Pairs \ {"af"} : q[n] = r[n]
  BY <1>1, <1>3 DEF RegisterFile, Pairs
<1> HIDE DEF q
<1>9. Low(q.af) = FlagsOnly(g) /\ High(q.af) = High(r.af)
  BY <1>7, <1>8
<1>10. FlagBits(q) = Bits(g) \cap {4, 5, 6, 7} /\ FlagBits(r) = Bits(f)
  BY <1>5, <1>9 DEF FlagBits, f
<1>11. /\ value => FlagBits(q) = (FlagBits(r) \cup {bit}) \cap {4, 5, 6, 7}
       /\ ~value => FlagBits(q) = (FlagBits(r) \ {bit}) \cap {4, 5, 6, 7}
  BY <1>4, <1>10
<1> QED
  BY <1>8, <1>9, <1>11 DEF q

\* LD HL,SP+n: the carries are those of the sum with the operand as a word.
LEMMA LoadsHL ==
  ASSUME NEW r, Sound(r), NEW m, IsMemory(m)
  PROVE  WordsMoved(\hF8, r, m, ld_hl_sp_n(r, m).regs, ld_hl_sp_n(r, m).mem)
<1> DEFINE n == Immediate(r, m)
           extended == IF n > 127 THEN 65280 + n ELSE n
           half == (r.sp % 16) + (n % 16) > 15
           carry == (r.sp % 256) + n > 255
           loaded == [r EXCEPT !.hl = AsWord(r.sp + Signed(n))]
           q1 == SetFlag(loaded, ZeroFlag, FALSE)
           q2 == SetFlag(q1, SubtractFlag, FALSE)
           q3 == SetFlag(q2, HalfCarryFlag, half)
           q4 == SetFlag(q3, CarryFlag, carry)
           r2 == ld_hl_sp_n(r, m).regs
           m2 == ld_hl_sp_n(r, m).mem
<1>1. X(\hF8) = 3 /\ Z(\hF8) = 0
  BY DEF X, Z
<1>2. r \in RegisterFile /\ r.sp \in Word /\ n \in Byte
  BY OperandsType DEF Sound, RegisterFile
<1>3. ld_hl_sp_n(r, m) = After(q4, m, 2, 12)
  BY DEF ld_hl_sp_n
<1> HIDE DEF n
<1>4. extended \in Word /\ extended % 16 = n % 16 /\ extended % 256 = n
  BY <1>2 DEF Byte, Word
<1>5. AsWord(r.sp + Signed(n)) = Plus(r.sp, extended) /\ Plus(r.sp, extended) \in Word
  BY <1>2 DEF Signed, Plus, AsWord, Byte, Word
<1>6. half \in BOOLEAN /\ carry \in BOOLEAN
  OBVIOUS
<1>7. CarryInto(16, r.sp, extended, Plus(r.sp, extended)) <=> half
  <2> HIDE DEF extended
  <2> QED
    BY <1>2, <1>4, CarriesInto16
<1>8. CarryInto(256, r.sp, extended, Plus(r.sp, extended)) <=> carry
  <2> HIDE DEF extended
  <2> QED
    BY <1>2, <1>4, CarriesInto256
<1>9. /\ Sound(loaded) /\ loaded.hl = Plus(r.sp, extended)
      /\ \A x \in Pairs \ {"hl"} : loaded[x] = r[x]
  <2> HIDE DEF extended
  <2>1. Sound([r EXCEPT !.hl = Plus(r.sp, extended)])
    BY <1>5, SetWordSound
  <2> QED
    BY <1>2, <1>5, <2>1 DEF RegisterFile, Pairs
<1> HIDE DEF loaded, half, carry, extended
<1> DEFINE upper == {4, 5, 6, 7}
           Others(q, p) == High(p.af) = High(q.af) /\ \A x \in Pairs \ {"af"} : p[x] = q[x]
<1>10. Sound(q1) /\ FlagBits(q1) = (FlagBits(loaded) \ {7}) \cap upper /\ Others(loaded, q1)
  <2> DEFINE off == FALSE
  <2>1. q1 = SetFlag(loaded, 7, off) /\ off \in BOOLEAN /\ ~off
    BY DEF ZeroFlag
  <2> HIDE DEF q1, off
  <2>2. Sound(q1)
    BY <1>9, <2>1, SetFlagSound
  <2> QED
    BY <1>9, <2>1, <2>2, FlagBitsSet
<1> HIDE DEF q1
<1>11. Sound(q2) /\ FlagBits(q2) = (FlagBits(q1) \ {6}) \cap upper /\ Others(q1, q2)
  <2> DEFINE off == FALSE
  <2>1. q2 = SetFlag(q1, 6, off) /\ off \in BOOLEAN /\ ~off
    BY DEF SubtractFlag
  <2> HIDE DEF q2, off
  <2>2. Sound(q2)
    BY <1>10, <2>1, SetFlagSound
  <2> QED
    BY <1>10, <2>1, <2>2, FlagBitsSet
<1> HIDE DEF q2
<1>12. /\ Sound(q3) /\ Others(q2, q3)
       /\ half => FlagBits(q3) = (FlagBits(q2) \cup {5}) \cap upper
       /\ ~half => FlagBits(q3) = (FlagBits(q2) \ {5}) \cap upper
  <2>1. q3 = SetFlag(q2, 5, half)
    BY DEF HalfCarryFlag
  <2> HIDE DEF q3
  <2>2. Sound(q3)
    BY <1>11, <2>1, SetFlagSound
  <2> QED
    BY <1>6, <1>11, <2>1, <2>2, FlagBitsSet
<1> HIDE DEF q3
<1>13. /\ Sound(q4) /\ Others(q3, q4)
       /\ carry => FlagBits(q4) = (FlagBits(q3) \cup {4}) \cap upper
       /\ ~carry => FlagBits(q4) = (FlagBits(q3) \ {4}) \cap upper
  <2>1. q4 = SetFlag(q3, 4, carry)
    BY DEF CarryFlag
  <2> HIDE DEF q4
  <2>2. Sound(q4)
    BY <1>12, <2>1, SetFlagSound
  <2> QED
    BY <1>6, <1>12, <2>1, <2>2, FlagBitsSet
<1> HIDE DEF q4
<1>14. FlagBits(q4) = {i \in {HalfCarryFlag} : half} \cup {i \in {CarryFlag} : carry}
  <2>1. FlagBits(q2) \subseteq {4, 5}
    BY <1>10, <1>11
  <2>2. /\ half => FlagBits(q3) \ {4} = {5}
        /\ ~half => FlagBits(q3) \ {4} = {}
    BY <1>12, <2>1
  <2>3. /\ carry => FlagBits(q4) = (FlagBits(q3) \ {4}) \cup {4}
        /\ ~carry => FlagBits(q4) = FlagBits(q3) \ {4}
    BY <1>12, <1>13
  <2> QED
    BY <2>2, <2>3 DEF HalfCarryFlag, CarryFlag
<1>15. /\ q4.hl = Plus(r.sp, extended) /\ High(q4.af) = High(r.af)
       /\ \A x \in Pairs \ {"af", "hl"} : q4[x] = r[x]
  <2>1. High(q4.af) = High(loaded.af) /\ \A x \in Pairs \ {"af"} : q4[x] = loaded[x]
    BY <1>10, <1>11, <1>12, <1>13
  <2> QED
    BY <1>9, <2>1 DEF Pairs
<1>16. /\ Unchanged(r, r2, {"hl", "af"}) /\ m2 = m
       /\ r2.hl = q4.hl /\ r2.af = q4.af
  <2>1. Keeps(r, q4, {"hl", "af"}) /\ {"hl", "af"} \subseteq Pairs
    BY <1>15 DEF Keeps, Pairs
  <2> QED
    BY <1>2, <1>3, <1>13, <2>1, UnchangedAfter DEF Sound
<1> HIDE DEF r2, m2
<1>17. /\ r2.hl = Plus(r.sp, extended) /\ High(r2.af) = High(r.af)
       /\ Bits(Low(r2.af)) =
            {i \in {HalfCarryFlag} : CarryInto(16, r.sp, extended, r2.hl)} \cup
            {i \in {CarryFlag} : CarryInto(256, r.sp, extended, r2.hl)}
  BY <1>7, <1>8, <1>14, <1>15, <1>16 DEF FlagBits
<1>18. WordsMoved(\hF8, r, m, r2, m2)
  BY <1>1, <1>16, <1>17 DEF WordsMoved, extended, n
<1> QED
  BY <1>18 DEF r2, m2

-----------------------------------------------------------------------------
(* Every load instruction. *)

\* The opcodes of the word loads, by handler.
LEMMA WordLoadsAre ==
  ASSUME NEW op \in WordLoads
  PROVE  \/ op \in {\h01, \h11, \h21, \h31}
         \/ op \in {\hC1, \hD1, \hE1, \hF1}
         \/ op \in {\hC5, \hD5, \hE5, \hF5}
         \/ op \in {\h08, \hF8, \hF9}
<1>1. op \in 0 .. 255
  BY DEF WordLoads
<1>2. CASE X(op) = 0 /\ Z(op) = 1 /\ Q(op) = 0
  BY <1>1, <1>2 DEF X, Z, Q
<1>3. CASE X(op) = 3 /\ Z(op) \in {1, 5} /\ Q(op) = 0
  BY <1>1, <1>3 DEF X, Z, Q
<1> QED
  BY <1>2, <1>3 DEF WordLoads

LEMMA ExecuteMovesBytes ==
  ASSUME NEW r, Sound(r), NEW m, IsMemory(m), Opcode(r, m) \in ByteLoads
  PROVE  Moves(Opcode(r, m), r, m, Execute(r, m))
<1> DEFINE op == Opcode(r, m)
<1>1. op \in Byte
  BY OperandsType
<1>2. CASE op >= \h40 /\ op <= \h7F /\ op # HALT /\ X(op) = 1
  <2>1. Execute(r, m) = ld_r_r(r, m)
    BY <1>1, <1>2 DEF Execute, FirstQuarter, MiddleHalf, LastQuarter, HALT, CB, Byte
  <2> QED
    BY <1>2, <2>1, RegisterMoves
<1>3. CASE op \in {\h06, \h0E, \h16, \h1E, \h26, \h2E, \h3E} /\ X(op) = 0 /\ Z(op) = 6
  <2>1. Execute(r, m) = ld_r_n(r, m)
    BY <1>3 DEF Execute, FirstQuarter
  <2> QED
    BY <1>3, <2>1, ImmediateMoves
<1>4. CASE op \in PointerStores
  <2>1. Execute(r, m) = ld_mem_a(r, m)
    BY <1>4 DEF Execute, FirstQuarter, PointerStores
  <2> QED
    BY <1>4, <2>1, PointerMoves
<1>5. CASE op \in PointerLoads
  <2>1. Execute(r, m) = ld_a_mem(r, m)
    BY <1>5 DEF Execute, FirstQuarter, PointerLoads
  <2> QED
    BY <1>5, <2>1, PointerMoves
<1>6. CASE op \in {\hE0, \hE2, \hF0, \hF2}
  <2>1. Execute(r, m) = ld_io_a(r, m)
    BY <1>6 DEF Execute, LastQuarter, CB
  <2> QED
    BY <1>6, <2>1, AbsoluteMoves
<1>7. CASE op \in {\hEA, \hFA}
  <2>1. Execute(r, m) = ld_a_abs(r, m)
    BY <1>7 DEF Execute, LastQuarter, CB
  <2> QED
    BY <1>7, <2>1, AbsoluteMoves
<1> QED
  BY <1>2, <1>3, <1>4, <1>5, <1>6, <1>7, ByteLoadsAre DEF PointerStores, PointerLoads

LEMMA ExecuteMovesWords ==
  ASSUME NEW r, Sound(r), NEW m, IsMemory(m), Opcode(r, m) \in WordLoads
  PROVE  WordsMoved(Opcode(r, m), r, m, Execute(r, m).regs, Execute(r, m).mem)
<1> DEFINE op == Opcode(r, m)
<1>1. CASE op \in {\h01, \h11, \h21, \h31}
  <2>1. Execute(r, m) = ld_rp_nn(r, m)
    BY <1>1 DEF Execute, FirstQuarter
  <2> QED
    BY <1>1, <2>1, ImmediateWords
<1>2. CASE op \in {\hC1, \hD1, \hE1, \hF1}
  <2>1. Execute(r, m) = pop_rp(r, m)
    BY <1>2 DEF Execute, LastQuarter, CB
  <2> QED
    BY <1>2, <2>1, Pops
<1>3. CASE op \in {\hC5, \hD5, \hE5, \hF5}
  <2>1. Execute(r, m) = push_rp(r, m)
    BY <1>3 DEF Execute, LastQuarter, CB
  <2> QED
    BY <1>3, <2>1, Pushes
<1>4. CASE op = \h08
  <2>1. Execute(r, m) = ld_nn_sp(r, m)
    BY <1>4 DEF Execute, FirstQuarter
  <2> QED
    BY <1>4, <2>1, StoresSP
<1>5. CASE op = \hF8
  <2>1. Execute(r, m) = ld_hl_sp_n(r, m)
    BY <1>5 DEF Execute, LastQuarter, CB
  <2> QED
    BY <1>5, <2>1, LoadsHL
<1>6. CASE op = \hF9
  <2>1. Execute(r, m) = ld_sp_hl(r, m)
    BY <1>6 DEF Execute, LastQuarter, CB
  <2> QED
    BY <1>6, <2>1, LoadsSP
<1> QED
  BY <1>1, <1>2, <1>3, <1>4, <1>5, <1>6, WordLoadsAre

\* On any memory map and any program, every load instruction moves exactly what
\* the bit fields of its opcode say: the right source, target and pointer step,
\* and for LD HL,SP+n the right carries.
THEOREM LoadsMoveAsNamed == Spec => LoadsAsNamed
<1> DEFINE Named == Instruction => AsNamed(Opcode(regs, mem), regs, mem, regs', mem')
<1>1. IInv /\ [Next]_vars => [Named]_vars
  <2> SUFFICES ASSUME IInv, Instruction
               PROVE  AsNamed(Opcode(regs, mem), regs, mem, regs', mem')
    OBVIOUS
  <2>1. Sound(regs) /\ IsMemory(mem)
    BY DEF IInv, TypeOK, Sound
  <2>2. regs' = Execute(regs, mem).regs /\ mem' = Execute(regs, mem).mem
    BY DEF Instruction
  <2>3. Opcode(regs, mem) \in ByteLoads =>
          BytesMoved(Opcode(regs, mem), regs, mem, regs', mem')
    BY <2>1, <2>2, ExecuteMovesBytes, MovesAsNamed
  <2>4. Opcode(regs, mem) \in WordLoads =>
          WordsMoved(Opcode(regs, mem), regs, mem, regs', mem')
    BY <2>1, <2>2, ExecuteMovesWords
  <2> QED
    BY <2>3, <2>4 DEF AsNamed
<1> QED
  BY <1>1, InvHolds, PTL DEF Spec, LoadsAsNamed
=============================================================================
