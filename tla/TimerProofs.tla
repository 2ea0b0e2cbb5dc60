----------------------------- MODULE TimerProofs -----------------------------
(* The timer's invariant and what follows from it, for every memory map,    *)
(* width of TIMA and set of inputs.                                         *)
EXTENDS Timer, MemoryMapProofs

Registers == {DIV_ADDR, TIMA_ADDR, TMA_ADDR, TAC_ADDR, IF_REG}

LEMMA RegistersType == Registers \subseteq Word
BY DEF Registers, DIV_ADDR, TIMA_ADDR, TMA_ADDR, TAC_ADDR, IF_REG, Word

LEMMA RegistersDistinct ==
  /\ DIV_ADDR # TIMA_ADDR /\ DIV_ADDR # TMA_ADDR /\ DIV_ADDR # TAC_ADDR
  /\ DIV_ADDR # IF_REG /\ TIMA_ADDR # TMA_ADDR /\ TIMA_ADDR # TAC_ADDR
  /\ TIMA_ADDR # IF_REG /\ TMA_ADDR # TAC_ADDR /\ TMA_ADDR # IF_REG
  /\ TAC_ADDR # IF_REG
BY DEF DIV_ADDR, TIMA_ADDR, TMA_ADDR, TAC_ADDR, IF_REG

-----------------------------------------------------------------------------
(* The memory effects of the operations. *)

LEMMA WithRegistersType ==
  ASSUME NEW m, IsMemory(m), NEW div \in Nat, NEW counter \in Byte
  PROVE  IsMemory(WithRegisters(m, div, counter))
<1> DEFINE m1 == Write(m, DIV_ADDR, AsByte(div \div 256))
<1>1. AsByte(div \div 256) \in Byte
  BY DEF AsByte, Byte
<1>2. IsMemory(m1)
  BY <1>1, WriteType, RegistersType DEF Registers
<1> QED
  BY <1>2, WriteType, RegistersType DEF Registers, WithRegisters

\* Only DIV and TIMA are written back.
LEMMA WithRegistersKeeps ==
  ASSUME NEW m, NEW div, NEW counter, NEW a, a # DIV_ADDR, a # TIMA_ADDR
  PROVE  Read(WithRegisters(m, div, counter), a) = Read(m, a)
BY ReadOther DEF WithRegisters

LEMMA WithRequestType ==
  ASSUME NEW m, IsMemory(m)
  PROVE  IsMemory(WithRequest(m))
<1>1. Read(m, IF_REG) \in Byte
  BY ReadType, RegistersType DEF Registers
<1>2. SetBit(Read(m, IF_REG), TimerBit) \in Byte
  BY <1>1, SetClearType DEF TimerBit
<1> QED
  BY <1>2, WriteType, RegistersType DEF Registers, WithRequest

\* After a request bit 2 of IF is set, if IF is real memory.
LEMMA RequestSetsBit ==
  ASSUME NEW m, IsMemory(m), InRam(IF_REG)
  PROVE  Bit(Read(WithRequest(m), IF_REG), TimerBit)
<1> DEFINE b == Read(m, IF_REG)
<1>1. b \in Byte
  BY ReadType, RegistersType DEF Registers
<1>2. Read(WithRequest(m), IF_REG) = SetBit(b, TimerBit)
  BY ReadWritten DEF WithRequest
<1> HIDE DEF b
<1>3. Bit(SetBit(b, 2), 2)
  BY <1>1, BitValueCases DEF SetBit, Bit, Byte
<1> QED
  BY <1>2, <1>3 DEF TimerBit

-----------------------------------------------------------------------------
(* The inductive invariant: the widths, the delay counter, and the fact     *)
(* that prev_div_value_ is never anything but zero.                         *)

Inv == TypeOK /\ DelayOnlyWhilePending /\ prev_div_value = 0

LEMMA DivWrapPositive == DivWrap \in Nat /\ 0 < DivWrap
BY DivWrapAssumption

LEMMA NoMemoryType == IsMemory(NoMemory)
BY DEF IsMemory, NoMemory

LEMMA InitInv == Init => Inv
<1> SUFFICES ASSUME Init PROVE Inv
  OBVIOUS
<1>1. tima \in Byte /\ tma \in Byte /\ tac \in Byte
  BY DEF Init, Byte
<1>2. /\ div_internal \in Nat /\ div_internal < DivWrap
      /\ prev_div_value \in Nat /\ prev_div_value < DivWrap
  BY DivWrapPositive DEF Init
<1>3. tima_overflow \in BOOLEAN
  BY Zenon DEF Init
<1>4. overflow_cycles \in 0 .. 3 /\ IsMemory(mem)
  BY NoMemoryType DEF Init
<1> QED
  BY <1>1, <1>2, <1>3, <1>4 DEF Init, Inv, TypeOK, DelayOnlyWhilePending

\* Counting an edge keeps the widths and the delay counter's invariant.
LEMMA CountInv ==
  ASSUME NEW edge \in BOOLEAN, NEW counter \in Byte, NEW pending \in BOOLEAN,
         NEW waited \in 0 .. 3, ~pending => waited = 0,
         Count(edge, counter, pending, waited)
  PROVE  /\ tima' \in Byte /\ tima_overflow' \in BOOLEAN
         /\ overflow_cycles' \in 0 .. 3
         /\ DelayOnlyWhilePending'
<1>1. 0 \in Byte /\ AsByte(counter + 1) \in Byte
  BY DEF Byte, AsByte
<1>2. CASE edge /\ counter = TimaLast
  BY <1>1, <1>2 DEF Count, DelayOnlyWhilePending
<1>3. CASE ~(edge /\ counter = TimaLast)
  <2>1. tima_overflow' = pending /\ overflow_cycles' = waited /\ tima' \in Byte
    BY <1>1, <1>3 DEF Count
  <2> QED
    BY <2>1 DEF DelayOnlyWhilePending
<1> QED
  BY <1>2, <1>3

LEMMA RegisterReads ==
  ASSUME IsMemory(mem)
  PROVE  /\ Read(mem, TIMA_ADDR) \in Byte /\ Read(mem, TMA_ADDR) \in Byte
         /\ Read(mem, TAC_ADDR) \in Byte /\ Read(mem, IF_REG) \in Byte
BY ReadType, RegistersType DEF Registers

LEMMA UpdateInv ==
  ASSUME Inv, NEW cycles \in CycleCounts, update(cycles)
  PROVE  Inv'
<1> DEFINE control == Read(mem, TAC_ADDR)
           counter == Read(mem, IF Reloads(cycles) THEN TMA_ADDR ELSE TIMA_ADDR)
           div     == Advanced(cycles)
           weight  == InputBit(ClockSelect(control))
           edge    == /\ Enabled(control)
                      /\ IsSet(div_internal, weight) /\ ~IsSet(div, weight)
           requested == IF Reloads(cycles) THEN WithRequest(mem) ELSE mem
           pending == tima_overflow /\ ~Reloads(cycles)
           delay   == Waited(cycles)
<1>1. /\ Count(edge, counter, pending, delay)
      /\ div_internal' = div /\ tma' = Read(mem, TMA_ADDR) /\ tac' = control
      /\ mem' = WithRegisters(requested, div, tima')
      /\ prev_div_value' = prev_div_value
  BY DEF update
<1>2. TypeOK /\ DelayOnlyWhilePending /\ prev_div_value = 0 /\ IsMemory(mem)
  BY DEF Inv, TypeOK
<1>3. Read(mem, TMA_ADDR) \in Byte /\ control \in Byte /\ counter \in Byte
  BY <1>2, RegisterReads
<1>4. cycles \in Nat
  BY InputsAssumption DEF Byte
<1>5. delay \in 0 .. 3 /\ (~pending => delay = 0)
  BY <1>2, <1>4 DEF TypeOK, DelayOnlyWhilePending, Reloads, Waited
<1>6. edge \in BOOLEAN /\ pending \in BOOLEAN
  BY DEF Enabled, IsSet, Bit, Reloads
<1>7. div \in Nat /\ div < DivWrap
  BY <1>2, <1>4, DivWrapAssumption DEF TypeOK, Advanced
<1>8. IsMemory(requested)
  BY <1>2, WithRequestType
<1> HIDE DEF control, counter, div, weight, edge, requested, pending, delay
<1>9. /\ tima' \in Byte /\ tima_overflow' \in BOOLEAN
      /\ overflow_cycles' \in 0 .. 3 /\ DelayOnlyWhilePending'
  BY <1>1, <1>3, <1>5, <1>6, CountInv
<1>10. IsMemory(mem')
  BY <1>1, <1>7, <1>8, <1>9, WithRegistersType
<1> QED
  BY <1>1, <1>2, <1>3, <1>7, <1>9, <1>10 DEF Inv, TypeOK

LEMMA ResetDivInv ==
  ASSUME Inv, reset_div
  PROVE  Inv'
<1> DEFINE control == Read(mem, TAC_ADDR)
           counter == Read(mem, TIMA_ADDR)
           edge == Enabled(control)
                   /\ IsSet(prev_div_value, InputBit(ClockSelect(control)))
<1>1. /\ Count(edge, counter, tima_overflow, overflow_cycles)
      /\ div_internal' = 0 /\ prev_div_value' = 0
      /\ tma' = Read(mem, TMA_ADDR) /\ tac' = control
      /\ mem' = WithRegisters(mem, 0, tima')
  BY DEF reset_div
<1>2. TypeOK /\ DelayOnlyWhilePending /\ IsMemory(mem)
  BY DEF Inv, TypeOK
<1>3. counter \in Byte /\ control \in Byte /\ tma' \in Byte
  BY <1>1, <1>2, RegisterReads
<1>4. edge \in BOOLEAN
  BY DEF Enabled, IsSet, Bit
<1> HIDE DEF control, counter, edge
<1>5. /\ tima' \in Byte /\ tima_overflow' \in BOOLEAN
      /\ overflow_cycles' \in 0 .. 3 /\ DelayOnlyWhilePending'
  BY <1>1, <1>2, <1>3, <1>4, CountInv DEF TypeOK, DelayOnlyWhilePending
<1>6. IsMemory(mem')
  BY <1>1, <1>2, <1>5, WithRegistersType
<1> QED
  BY <1>1, <1>3, <1>5, <1>6, DivWrapAssumption DEF Inv, TypeOK

LEMMA TacUpdatedInv ==
  ASSUME Inv, NEW old, NEW new \in TacValues, tac_updated(old, new)
  PROVE  Inv'
<1> DEFINE counter == Read(mem, TIMA_ADDR)
           edge == /\ Enabled(new)
                   /\ ~Enabled(old) \/ ClockSelect(old) # ClockSelect(new)
                   /\ IsSet(div_internal, InputBit(ClockSelect(old)))
                   /\ ~IsSet(div_internal, InputBit(ClockSelect(new)))
<1>1. /\ Count(edge, counter, tima_overflow, overflow_cycles)
      /\ tma' = Read(mem, TMA_ADDR)
      /\ tac' = new \/ tac' = Read(mem, TAC_ADDR)
      /\ mem' = WithRegisters(mem, div_internal, tima')
      /\ div_internal' = div_internal /\ prev_div_value' = prev_div_value
  BY DEF tac_updated, divVars
<1>2. TypeOK /\ DelayOnlyWhilePending /\ IsMemory(mem) /\ prev_div_value = 0
  BY DEF Inv, TypeOK
<1>3. counter \in Byte /\ tma' \in Byte /\ tac' \in Byte
  BY <1>1, <1>2, RegisterReads, InputsAssumption
<1>4. edge \in BOOLEAN
  BY DEF Enabled, IsSet, Bit
<1> HIDE DEF counter, edge
<1>5. /\ tima' \in Byte /\ tima_overflow' \in BOOLEAN
      /\ overflow_cycles' \in 0 .. 3 /\ DelayOnlyWhilePending'
  BY <1>1, <1>2, <1>3, <1>4, CountInv DEF TypeOK, DelayOnlyWhilePending
<1>6. IsMemory(mem')
  BY <1>1, <1>2, <1>5, WithRegistersType DEF TypeOK
<1> QED
  BY <1>1, <1>2, <1>3, <1>5, <1>6 DEF Inv, TypeOK

LEMMA StoreInv ==
  ASSUME Inv, NEW a \in Word, NEW values, values \subseteq Byte, Store(a, values)
  PROVE  Inv'
<1>1. IsMemory(mem')
  BY WriteType DEF Store, Inv, TypeOK
<1> QED
  BY <1>1 DEF Store, timerVars, Inv, TypeOK, DelayOnlyWhilePending

LEMMA NextInv == Inv /\ [Next]_vars => Inv'
<1> SUFFICES ASSUME Inv, [Next]_vars PROVE Inv'
  OBVIOUS
<1>1. CASE initialize
  <2>1. IsMemory(mem')
    BY <1>1, WithRegistersType DEF initialize, Inv, TypeOK, Byte
  <2>2. tima' \in Byte /\ tma' \in Byte /\ tac' \in Byte
    BY <1>1 DEF initialize, Byte
  <2>3. /\ div_internal' \in Nat /\ div_internal' < DivWrap
        /\ prev_div_value' \in Nat /\ prev_div_value' < DivWrap
    BY <1>1, DivWrapPositive DEF initialize
  <2>4. tima_overflow' \in BOOLEAN
    BY <1>1, Zenon DEF initialize
  <2>5. overflow_cycles' \in 0 .. 3
    BY <1>1 DEF initialize
  <2> QED
    BY <1>1, <2>1, <2>2, <2>3, <2>4, <2>5
    DEF initialize, Inv, TypeOK, DelayOnlyWhilePending
<1>2. CASE Update
  BY <1>2, UpdateInv DEF Update
<1>3. CASE reset_div
  BY <1>3, ResetDivInv
<1>4. CASE TacUpdated
  BY <1>4, TacUpdatedInv DEF TacUpdated
<1>5. CASE Stores
  <2>1. TimaValues \subseteq Byte /\ {0} \subseteq Byte
    BY InputsAssumption, TimaLastAssumption DEF Byte
  <2> QED
    BY <1>5, <2>1, StoreInv, RegistersType, InputsAssumption
    DEF Stores, StoreDiv, StoreTima, StoreTma, StoreTac, StoreIf, Registers
<1>6. CASE UNCHANGED vars
  BY <1>6 DEF vars, Inv, TypeOK, DelayOnlyWhilePending
<1> QED
  BY <1>1, <1>2, <1>3, <1>4, <1>5, <1>6 DEF Next

THEOREM InvHolds == Spec => []Inv
BY InitInv, NextInv, PTL DEF Spec

\* Every field keeps its width and memory holds bytes.
THEOREM TypeCorrect == Spec => []TypeOK
BY InvHolds, PTL DEF Inv

\* The delay counter is zero whenever no overflow waits.
THEOREM DelayCorrect == Spec => []DelayOnlyWhilePending
BY InvHolds, PTL DEF Inv

-----------------------------------------------------------------------------
(* What a step does to IF. *)

\* An operation of the timer other than an update never touches IF.
LEMMA IfKept ==
  ASSUME NEW m, NEW div, NEW counter
  PROVE  Read(WithRegisters(m, div, counter), IF_REG) = Read(m, IF_REG)
BY WithRegistersKeeps, RegistersDistinct

\* An update requests the interrupt if it ends an overflow's delay, and
\* leaves IF alone otherwise.
LEMMA UpdateIf ==
  ASSUME NEW cycles, update(cycles)
  PROVE  Read(mem', IF_REG) =
           IF Reloads(cycles) THEN Read(WithRequest(mem), IF_REG)
           ELSE Read(mem, IF_REG)
BY IfKept DEF update

\* A store to another register does not reach IF.
LEMMA StoreIfKept ==
  ASSUME NEW a, NEW values, Store(a, values), a # IF_REG
  PROVE  Read(mem', IF_REG) = Read(mem, IF_REG)
BY ReadOther DEF Store

\* Only an update that finds an overflow pending, or the rest of the system,
\* changes IF.
LEMMA IfChange ==
  ASSUME [Next]_vars
  PROVE  \/ Read(mem', IF_REG) = Read(mem, IF_REG)
         \/ tima_overflow
         \/ StoreIf
<1>1. CASE initialize
  BY <1>1, IfKept DEF initialize
<1>2. CASE Update
  BY <1>2, UpdateIf DEF Update, Reloads
<1>3. CASE reset_div
  BY <1>3, IfKept DEF reset_div
<1>4. CASE TacUpdated
  BY <1>4, IfKept DEF TacUpdated, tac_updated
<1>5. CASE Stores
  BY <1>5, StoreIfKept, RegistersDistinct
  DEF Stores, StoreDiv, StoreTima, StoreTma, StoreTac
<1>6. CASE UNCHANGED vars
  BY <1>6 DEF vars
<1> QED
  BY <1>1, <1>2, <1>3, <1>4, <1>5, <1>6 DEF Next

\* The timer never raises bit 2 of IF unless TIMA overflowed in an earlier
\* operation: update() requests only what Count() left pending.
THEOREM RequestsAreEarned == Spec => RequestsEarned
<1>1. [Next]_vars
        => [~Requested /\ Requested' => tima_overflow \/ StoreIf]_vars
  BY IfChange DEF Requested
<1> QED
  BY <1>1, PTL DEF Spec, RequestsEarned

\* The flag of a waiting overflow is dropped only by an update that requests
\* the interrupt, or by a restart.
LEMMA OverflowDropped ==
  ASSUME Inv, InRam(IF_REG), [Next]_vars, tima_overflow, ~tima_overflow'
  PROVE  Requested' \/ initialize
<1>1. CASE initialize
  BY <1>1
<1>2. CASE Update
  <2>1. PICK cycles \in CycleCounts : update(cycles)
    BY <1>2 DEF Update
  <2>2. Reloads(cycles)
    BY <2>1 DEF update, Count
  <2>3. Read(mem', IF_REG) = Read(WithRequest(mem), IF_REG)
    BY <2>1, <2>2, UpdateIf
  <2> QED
    BY <2>3, RequestSetsBit DEF Requested, Inv, TypeOK
<1>3. CASE reset_div
  BY <1>3 DEF reset_div, Count
<1>4. CASE TacUpdated
  BY <1>4 DEF TacUpdated, tac_updated, Count
<1>5. CASE Stores
  BY <1>5 DEF Stores, StoreDiv, StoreTima, StoreTma, StoreTac, StoreIf, Store,
              timerVars
<1>6. CASE UNCHANGED vars
  BY <1>6 DEF vars
<1> QED
  BY <1>1, <1>2, <1>3, <1>4, <1>5, <1>6 DEF Next

\* If IF is real memory, no overflow of TIMA is ever lost.
THEOREM OverflowsAreAnswered ==
  ASSUME InRam(IF_REG)
  PROVE  Spec => OverflowAnswered
<1>1. Inv /\ [Next]_vars
        => [tima_overflow /\ ~tima_overflow' => Requested' \/ initialize]_vars
  BY OverflowDropped
<1> QED
  BY <1>1, InvHolds, PTL DEF Spec, OverflowAnswered
-----------------------------------------------------------------------------
(* What a step does to TIMA. *)

\* TIMA reads as what was stored, or as it did before if it is no memory.
LEMMA TimaStored ==
  ASSUME NEW m, NEW div, NEW counter
  PROVE  \/ Read(WithRegisters(m, div, counter), TIMA_ADDR) = counter
         \/ Read(WithRegisters(m, div, counter), TIMA_ADDR) = Read(m, TIMA_ADDR)
<1> DEFINE m1 == Write(m, DIV_ADDR, AsByte(div \div 256))
<1>1. Read(m1, TIMA_ADDR) = Read(m, TIMA_ADDR)
  BY ReadOther, RegistersDistinct
<1>2. WithRegisters(m, div, counter) = Write(m1, TIMA_ADDR, counter)
  BY DEF WithRegisters
<1> HIDE DEF m1
<1>3. CASE InRam(TIMA_ADDR)
  BY <1>2, <1>3, ReadWritten
<1>4. CASE ~InRam(TIMA_ADDR)
  BY <1>1, <1>2, <1>4, WriteLost
<1> QED
  BY <1>3, <1>4

\* A counter as wide as its register goes down by an increment only if the
\* increment remembers the overflow.
LEMMA CountRemembers ==
  ASSUME NEW edge, NEW counter \in Byte, NEW pending, NEW waited,
         Count(edge, counter, pending, waited), TimaLast = 255
  PROVE  (tima' >= counter /\ counter \in Nat /\ tima' \in Nat) \/ tima_overflow'
<1>1. counter # 255 => AsByte(counter + 1) = counter + 1
  BY DEF AsByte, Byte
<1> QED
  BY <1>1 DEF Count, Byte

\* The three operations that count, when no reload is due: what they count
\* from is what TIMA reads as.
LEMMA CountedTima ==
  ASSUME NEW edge, NEW m, NEW div, NEW pending, NEW waited, IsMemory(m),
         TimaLast = 255, Count(edge, Read(m, TIMA_ADDR), pending, waited),
         mem' = WithRegisters(m, div, tima')
  PROVE  ~(Read(mem', TIMA_ADDR) < Read(m, TIMA_ADDR)) \/ tima_overflow'
<1>1. Read(m, TIMA_ADDR) \in Byte
  BY ReadType, RegistersType DEF Registers
<1>2. Read(mem', TIMA_ADDR) = tima' \/ Read(mem', TIMA_ADDR) = Read(m, TIMA_ADDR)
  BY TimaStored
<1> QED
  BY <1>1, <1>2, CountRemembers DEF Byte

LEMMA TimaDrops ==
  ASSUME Inv, TimaLast = 255, [Next]_vars,
         Read(mem', TIMA_ADDR) < Read(mem, TIMA_ADDR)
  PROVE  tima_overflow' \/ Reloaded \/ StoreTima \/ initialize
<1>1. IsMemory(mem) /\ Read(mem, TIMA_ADDR) \in Byte
  BY RegisterReads DEF Inv, TypeOK
<1>2. ~(Read(mem, TIMA_ADDR) < Read(mem, TIMA_ADDR))
  BY <1>1 DEF Byte
<1>3. CASE Update
  <2>1. PICK cycles \in CycleCounts : update(cycles)
    BY <1>3 DEF Update
  <2>2. CASE ~Reloads(cycles)
    <3>1. PICK edge, pending, waited : Count(edge, Read(mem, TIMA_ADDR), pending, waited)
      BY <2>1, <2>2 DEF update
    <3>2. mem' = WithRegisters(mem, Advanced(cycles), tima')
      BY <2>1, <2>2 DEF update
    <3> QED
      BY <1>1, <3>1, <3>2, CountedTima
  <2>3. CASE Reloads(cycles)
    <3>1. PICK edge, pending, waited : Count(edge, Read(mem, TMA_ADDR), pending, waited)
      BY <2>1, <2>3 DEF update
    <3>2. mem' = WithRegisters(WithRequest(mem), Advanced(cycles), tima')
      BY <2>1, <2>3 DEF update
    <3>3. Read(WithRequest(mem), TIMA_ADDR) = Read(mem, TIMA_ADDR)
      BY ReadOther, RegistersDistinct DEF WithRequest
    <3>4. Read(mem', TIMA_ADDR) = tima'
      BY <1>2, <3>2, <3>3, TimaStored
    <3>5. Read(mem, TMA_ADDR) \in Byte
      BY <1>1, RegisterReads
    <3>6. tima' >= Read(mem, TMA_ADDR) \/ tima_overflow'
      BY <3>1, <3>5, CountRemembers
    <3> QED
      BY <2>3, <3>4, <3>6 DEF Reloads, Reloaded
  <2> QED
    BY <2>2, <2>3
<1>4. CASE reset_div
  <2>1. PICK edge : Count(edge, Read(mem, TIMA_ADDR), tima_overflow, overflow_cycles)
    BY <1>4 DEF reset_div
  <2>2. mem' = WithRegisters(mem, 0, tima')
    BY <1>4 DEF reset_div
  <2> QED
    BY <1>1, <2>1, <2>2, CountedTima
<1>5. CASE TacUpdated
  <2>1. PICK old \in TacValues, new \in TacValues : tac_updated(old, new)
    BY <1>5 DEF TacUpdated
  <2>2. PICK edge : Count(edge, Read(mem, TIMA_ADDR), tima_overflow, overflow_cycles)
    BY <2>1 DEF tac_updated
  <2>3. mem' = WithRegisters(mem, div_internal, tima')
    BY <2>1 DEF tac_updated
  <2> QED
    BY <1>1, <2>2, <2>3, CountedTima
<1>6. CASE StoreDiv \/ StoreTma \/ StoreTac \/ StoreIf
  <2>1. Read(mem', TIMA_ADDR) = Read(mem, TIMA_ADDR)
    BY <1>6, ReadOther, RegistersDistinct
    DEF StoreDiv, StoreTma, StoreTac, StoreIf, Store
  <2> QED
    BY <1>2, <2>1
<1>7. CASE UNCHANGED vars
  BY <1>2, <1>7 DEF vars
<1> QED
  BY <1>3, <1>4, <1>5, <1>6, <1>7 DEF Next, Stores

\* With the TIMA of the code, eight bits wide, no wrap goes unnoticed, on any
\* memory map: where TIMA is no memory it never changes.
THEOREM WrapsAreRemembered ==
  ASSUME TimaLast = 255
  PROVE  Spec => WrapRemembered
<1>1. Inv /\ [Next]_vars
        => [Read(mem', TIMA_ADDR) < Read(mem, TIMA_ADDR)
              => \/ tima_overflow'
                 \/ Reloaded
                 \/ StoreTima
                 \/ initialize]_vars
  BY TimaDrops
<1> QED
  BY <1>1, InvHolds, PTL DEF Spec, WrapRemembered

-----------------------------------------------------------------------------
(* Answers, and edges that never come. *)

\* What OverflowEventuallyAnswered rests on, with a bound: for every map on
\* which IF is real memory.
THEOREM AnswersAreImmediate ==
  ASSUME InRam(IF_REG)
  PROVE  Spec => AnsweredByNextInstruction
<1>1. ASSUME Inv, tima_overflow, NEW n \in CycleCounts, n >= 4, update(n)
      PROVE  Requested'
  <2>1. Reloads(n)
    BY <1>1, InputsAssumption DEF Reloads, Inv, TypeOK, Byte
  <2>2. Read(mem', IF_REG) = Read(WithRequest(mem), IF_REG)
    BY <1>1, <2>1, UpdateIf
  <2> QED
    BY <1>1, <2>2, RequestSetsBit DEF Requested, Inv, TypeOK
<1>2. Inv /\ [Next]_vars => [tima_overflow /\ InstructionUpdate => Requested']_vars
  BY <1>1 DEF InstructionUpdate
<1> QED
  BY <1>2, InvHolds, PTL DEF Spec, AnsweredByNextInstruction

LEMMA WatchedBits ==
  ASSUME NEW select
  PROVE  InputBit(select) \in {8, 32, 128, 512}
BY DEF InputBit

\* A reset of the divider leaves TIMA, and an overflow that waits, as they are,
\* whatever bit is watched: the edge it looks for is in prev_div_value_, which
\* nothing ever sets.
ResetCountsNothing ==
  [][reset_div => /\ tima' = Read(mem, TIMA_ADDR)
                  /\ UNCHANGED overflowVars]_vars

THEOREM ResetNeverCounts == Spec => ResetCountsNothing
<1>1. ASSUME Inv, reset_div
      PROVE  tima' = Read(mem, TIMA_ADDR) /\ UNCHANGED overflowVars
  <2> DEFINE weight == InputBit(ClockSelect(Read(mem, TAC_ADDR)))
  <2>1. weight \in {8, 32, 128, 512}
    BY WatchedBits
  <2>2. ~IsSet(prev_div_value, weight)
    <3> HIDE DEF weight
    <3> QED
      BY <1>1, <2>1 DEF Inv, IsSet
  <2> QED
    BY <1>1, <2>2 DEF reset_div, Count, overflowVars
<1>2. Inv /\ [Next]_vars => [reset_div => /\ tima' = Read(mem, TIMA_ADDR)
                                          /\ UNCHANGED overflowVars]_vars
  BY <1>1
<1> QED
  BY <1>2, InvHolds, PTL DEF Spec, ResetCountsNothing

\* With updates by whole instructions the divider's low four bits stay clear.
LEMMA DividerInSteps ==
  ASSUME \A n \in CycleCounts : n % 4 = 0
  PROVE  Spec => [](div_internal % 16 = 0)
<1>1. Init => div_internal % 16 = 0
  BY DEF Init
<1>2. Inv /\ div_internal % 16 = 0 /\ [Next]_vars => (div_internal % 16 = 0)'
  <2> SUFFICES ASSUME Inv, div_internal % 16 = 0, [Next]_vars
               PROVE  div_internal' % 16 = 0
    OBVIOUS
  <2>1. CASE Update
    <3>1. PICK n \in CycleCounts : update(n)
      BY <2>1 DEF Update
    <3>2. n \in Nat /\ n <= 255 /\ n % 4 = 0
      BY InputsAssumption DEF Byte
    <3>3. div_internal \in Nat /\ div_internal' = (div_internal + n * 4) % DivWrap
      BY <3>1 DEF update, Advanced, Inv, TypeOK
    <3>4. (div_internal + n * 4) % 16 = 0
      BY <3>2, <3>3
    <3> QED
      BY <3>2, <3>3, <3>4, DivWrapAssumption
  <2>2. CASE initialize \/ reset_div
    BY <2>2 DEF initialize, reset_div
  <2>3. CASE TacUpdated \/ Stores \/ UNCHANGED vars
    BY <2>3 DEF TacUpdated, tac_updated, divVars, Stores, StoreDiv, StoreTima,
                StoreTma, StoreTac, StoreIf, Store, timerVars, vars
  <2> QED
    BY <2>1, <2>2, <2>3 DEF Next
<1> QED
  BY <1>1, <1>2, InvHolds, PTL DEF Spec

\* With clock select 1 an update leaves TIMA as it is, or reloads it for an
\* overflow that another select, or a switch between selects, brought about.
FastSelectStuck ==
  [][\A n \in CycleCounts :
       update(n) /\ ClockSelect(Read(mem, TAC_ADDR)) = 1
         => tima' = Read(mem, IF Reloads(n) THEN TMA_ADDR ELSE TIMA_ADDR)]_vars

\* The fastest select never counts, for every divider, TIMA and memory map:
\* its bit is one that no instruction reaches.
THEOREM FastSelectNeverCounts ==
  ASSUME \A n \in CycleCounts : n % 4 = 0
  PROVE  Spec => FastSelectStuck
<1>1. ASSUME Inv, div_internal % 16 = 0, NEW n \in CycleCounts, update(n),
             ClockSelect(Read(mem, TAC_ADDR)) = 1
      PROVE  tima' = Read(mem, IF Reloads(n) THEN TMA_ADDR ELSE TIMA_ADDR)
  <2>1. ~IsSet(div_internal, 8)
    BY <1>1 DEF IsSet, Inv, TypeOK
  <2>2. InputBit(1) = 8
    BY DEF InputBit
  <2> QED
    BY <1>1, <2>1, <2>2 DEF update, Count
<1>2. Inv /\ div_internal % 16 = 0 /\ [Next]_vars
        => [\A n \in CycleCounts :
              update(n) /\ ClockSelect(Read(mem, TAC_ADDR)) = 1
                => tima' = Read(mem, IF Reloads(n) THEN TMA_ADDR ELSE TIMA_ADDR)]_vars
  BY <1>1
<1> QED
  BY <1>2, InvHolds, DividerInSteps, PTL DEF Spec, FastSelectStuck
=============================================================================
