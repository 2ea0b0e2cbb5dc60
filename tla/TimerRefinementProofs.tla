------------------------ MODULE TimerRefinementProofs ------------------------
(* One look at the divider bit per update counts every period of the slow   *)
(* clock selects, and none twice: the timer implements IdealTimer.          *)
EXTENDS SlowTimer, TimerProofs

-----------------------------------------------------------------------------
(* Falling edges and periods. *)

\* Stepping by at most w moves the number of whole w's by 0 or 1, and the
\* bit of weight w falls exactly when that number leaves an odd value.
LEMMA HalfPeriods ==
  ASSUME NEW q \in Nat, NEW r \in Nat, r = q \/ r = q + 1
  PROVE  r \div 2 = IF q % 2 = 1 /\ r % 2 = 0 THEN q \div 2 + 1 ELSE q \div 2
OBVIOUS

LEMMA WrapKeepsBit512 ==
  ASSUME NEW y \in Nat
  PROVE  IsSet(y % DivWrap, 512) <=> IsSet(y, 512)
<1>1. CASE DivWrap = 1024
  <2>1. ((y % 1024) \div 512) % 2 = (y \div 512) % 2
    OBVIOUS
  <2> QED
    BY <1>1, <2>1 DEF IsSet
<1>2. CASE DivWrap = 65536
  <2>1. ((y % 65536) \div 512) % 2 = (y \div 512) % 2
    OBVIOUS
  <2> QED
    BY <1>2, <2>1 DEF IsSet
<1> QED
  BY <1>1, <1>2, WideAssumption

LEMMA WrapKeepsBit128 ==
  ASSUME NEW y \in Nat
  PROVE  IsSet(y % DivWrap, 128) <=> IsSet(y, 128)
<1>1. CASE DivWrap = 1024
  <2>1. ((y % 1024) \div 128) % 2 = (y \div 128) % 2
    OBVIOUS
  <2> QED
    BY <1>1, <2>1 DEF IsSet
<1>2. CASE DivWrap = 65536
  <2>1. ((y % 65536) \div 128) % 2 = (y \div 128) % 2
    OBVIOUS
  <2> QED
    BY <1>2, <2>1 DEF IsSet
<1> QED
  BY <1>1, <1>2, WideAssumption

\* The bit of weight w falls when the divider advances from x by n, and the
\* periods of length p that n completes.
Falls(x, n, w) == IsSet(x, w) /\ ~IsSet((x + n) % DivWrap, w)
Periods(x, n, p) == (x + n) \div p - x \div p

\* Select 0: bit 9 falls once per 1024 clock periods.
LEMMA EdgeExact512 ==
  ASSUME NEW x \in Nat, NEW n \in Nat, n <= 512
  PROVE  Periods(x, n, 1024) = IF Falls(x, n, 512) THEN 1 ELSE 0
<1>1. (x + n) \div 512 = x \div 512 \/ (x + n) \div 512 = x \div 512 + 1
  OBVIOUS
<1>2. x \div 1024 = (x \div 512) \div 2 /\ (x + n) \div 1024 = ((x + n) \div 512) \div 2
  OBVIOUS
<1>3. x \div 512 \in Nat /\ (x + n) \div 512 \in Nat
  OBVIOUS
<1>4. ((x + n) \div 512) \div 2 =
        IF (x \div 512) % 2 = 1 /\ ((x + n) \div 512) % 2 = 0
        THEN (x \div 512) \div 2 + 1 ELSE (x \div 512) \div 2
  BY <1>1, <1>3, HalfPeriods
<1>5. IsSet((x + n) % DivWrap, 512) <=> ((x + n) \div 512) % 2 = 1
  BY WrapKeepsBit512 DEF IsSet
<1>6. ((x + n) \div 512) % 2 = 0 <=> ~(((x + n) \div 512) % 2 = 1)
  BY <1>3
<1>7. (x \div 512) \div 2 \in Int
  BY <1>3
<1> QED
  BY <1>2, <1>4, <1>5, <1>6, <1>7 DEF IsSet, Falls, Periods

\* Select 3: bit 7 falls once per 256 clock periods.
LEMMA EdgeExact128 ==
  ASSUME NEW x \in Nat, NEW n \in Nat, n <= 128
  PROVE  Periods(x, n, 256) = IF Falls(x, n, 128) THEN 1 ELSE 0
<1>1. (x + n) \div 128 = x \div 128 \/ (x + n) \div 128 = x \div 128 + 1
  OBVIOUS
<1>2. x \div 256 = (x \div 128) \div 2 /\ (x + n) \div 256 = ((x + n) \div 128) \div 2
  OBVIOUS
<1>3. x \div 128 \in Nat /\ (x + n) \div 128 \in Nat
  OBVIOUS
<1>4. ((x + n) \div 128) \div 2 =
        IF (x \div 128) % 2 = 1 /\ ((x + n) \div 128) % 2 = 0
        THEN (x \div 128) \div 2 + 1 ELSE (x \div 128) \div 2
  BY <1>1, <1>3, HalfPeriods
<1>5. IsSet((x + n) % DivWrap, 128) <=> ((x + n) \div 128) % 2 = 1
  BY WrapKeepsBit128 DEF IsSet
<1>6. ((x + n) \div 128) % 2 = 0 <=> ~(((x + n) \div 128) % 2 = 1)
  BY <1>3
<1>7. (x \div 128) \div 2 \in Int
  BY <1>3
<1> QED
  BY <1>2, <1>4, <1>5, <1>6, <1>7 DEF IsSet, Falls, Periods

-----------------------------------------------------------------------------
(* The registers stay within what programs store and the timer counts.      *)

Stored ==
  /\ Read(mem, TIMA_ADDR) <= TimaLast
  /\ Read(mem, TMA_ADDR) <= TimaLast
  /\ Read(mem, TAC_ADDR) \in TacValues \cup {0}

FullInv == Inv /\ Stored

LEMMA Backed ==
  InRam(DIV_ADDR) /\ InRam(TIMA_ADDR) /\ InRam(TMA_ADDR) /\ InRam(TAC_ADDR)
    /\ InRam(IF_REG)
BY BackedAssumption

LEMMA TimaLastType == TimaLast \in Nat /\ TimaLast < 256
BY TimaLastAssumption DEF Byte

LEMMA CyclesType ==
  ASSUME NEW cycles \in CycleCounts
  PROVE  cycles \in Nat /\ 4 <= cycles /\ cycles <= 32
BY InputsAssumption, StepAssumption DEF Byte

\* What the registers read after an operation that wrote them back.
LEMMA WrittenBack ==
  ASSUME NEW m, NEW div, mem' = WithRegisters(m, div, tima')
  PROVE  /\ Read(mem', TIMA_ADDR) = tima'
         /\ Read(mem', TMA_ADDR) = Read(m, TMA_ADDR)
         /\ Read(mem', TAC_ADDR) = Read(m, TAC_ADDR)
         /\ Read(mem', IF_REG) = Read(m, IF_REG)
BY Backed, ReadWritten, WithRegistersKeeps, RegistersDistinct DEF WithRegisters

\* One edge is one increment, modulo TimaLast + 1, and the overflow is noted.
LEMMA CountBy ==
  ASSUME NEW edge \in BOOLEAN, NEW counter \in Byte, NEW pending \in BOOLEAN,
         NEW waited, counter <= TimaLast, Count(edge, counter, pending, waited)
  PROVE  LET total == counter + (IF edge THEN 1 ELSE 0)
         IN  /\ tima' = IF total > TimaLast THEN total - (TimaLast + 1) ELSE total
             /\ tima' <= TimaLast
             /\ tima_overflow' = (total > TimaLast \/ pending)
<1>1. counter \in Nat /\ counter < 256
  BY DEF Byte
<1>2. CASE ~edge
  BY <1>1, <1>2, TimaLastType DEF Count
<1>3. CASE edge /\ counter = TimaLast
  <2> DEFINE total == counter + (IF edge THEN 1 ELSE 0)
  <2>1. tima' = 0 /\ tima_overflow' = TRUE
    BY <1>3 DEF Count
  <2>2. total > TimaLast /\ total - (TimaLast + 1) = 0 /\ 0 <= TimaLast
    BY <1>1, <1>3, TimaLastType
  <2> HIDE DEF total
  <2>3. (total > TimaLast \/ pending) = TRUE
    BY <2>2
  <2>4. tima' = IF total > TimaLast THEN total - (TimaLast + 1) ELSE total
    BY <2>1, <2>2
  <2> QED
    BY <2>1, <2>2, <2>3, <2>4 DEF total
<1>4. CASE edge /\ counter # TimaLast
  <2>1. AsByte(counter + 1) = counter + 1 /\ counter + 1 <= TimaLast
    BY <1>1, <1>4, TimaLastType DEF AsByte
  <2> QED
    BY <1>1, <1>4, <2>1, TimaLastType DEF Count
<1> QED
  BY <1>2, <1>3, <1>4

-----------------------------------------------------------------------------
(* Each operation maps to an action of IdealTimer or to a stutter, and      *)
(* keeps the registers within their bounds.                                 *)

LEMMA InitMaps == Init => Ideal!Init /\ Stored
<1> SUFFICES ASSUME Init PROVE Ideal!Init /\ Stored
  OBVIOUS
<1>1. /\ Read(mem, TIMA_ADDR) = 0 /\ Read(mem, TMA_ADDR) = 0
      /\ Read(mem, TAC_ADDR) = 0 /\ Read(mem, IF_REG) = 0
  BY Backed DEF Init, Read, NoMemory
<1>2. ~Requested
  BY <1>1, BitValueCases DEF Requested, Bit, TimerBit
<1> QED
  BY <1>1, <1>2, TimaLastType DEF Ideal!Init, Init, Stored

\* The weight of the watched bit is half a period of the selected frequency.
LEMMA ElapsedIsEdge ==
  ASSUME FullInv, NEW cycles \in CycleCounts
  PROVE  LET control == Read(mem, TAC_ADDR)
             weight == InputBit(ClockSelect(control))
             edge == Enabled(control) /\ Falls(div_internal, cycles * 4, weight)
         IN  Ideal!Elapsed(4 * cycles) = IF edge THEN 1 ELSE 0
<1> DEFINE control == Read(mem, TAC_ADDR)
           n == 4 * cycles
<1>1. control \in Byte /\ div_internal \in Nat
  BY RegisterReads DEF FullInv, Inv, TypeOK
<1>2. n \in Nat /\ n <= 128 /\ cycles * 4 = n
  BY CyclesType
<1>3. Ideal!Running <=> Enabled(control)
  BY BitValueCases DEF Ideal!Running, Enabled, Bit
<1>4. control \in TacValues \cup {0}
  BY DEF FullInv, Stored
<1> HIDE DEF n
<1>5. CASE ~Enabled(control)
  BY <1>3, <1>5 DEF Ideal!Elapsed
<1>6. CASE Enabled(control) /\ control % 4 = 0
  <2>1. Ideal!Period(control % 4) = 1024
    BY <1>6 DEF Ideal!Period, Ideal!Frequency, Ideal!ClockHz
  <2>2. InputBit(ClockSelect(control)) = 512
    BY <1>6 DEF InputBit, ClockSelect
  <2>3. Periods(div_internal, n, 1024) = IF Falls(div_internal, n, 512) THEN 1 ELSE 0
    <3>1. n <= 512
      BY <1>2
    <3> QED
      BY <1>1, <1>2, <3>1, EdgeExact512
  <2> QED
    BY <1>2, <1>3, <1>6, <2>1, <2>2, <2>3 DEF Ideal!Elapsed, Periods, n
<1>7. CASE Enabled(control) /\ control % 4 = 3
  <2>1. Ideal!Period(control % 4) = 256
    BY <1>7 DEF Ideal!Period, Ideal!Frequency, Ideal!ClockHz
  <2>2. InputBit(ClockSelect(control)) = 128
    BY <1>7 DEF InputBit, ClockSelect
  <2>3. Periods(div_internal, n, 256) = IF Falls(div_internal, n, 128) THEN 1 ELSE 0
    BY <1>1, <1>2, EdgeExact128
  <2> QED
    BY <1>2, <1>3, <1>7, <2>1, <2>2, <2>3 DEF Ideal!Elapsed, Periods, n
<1>8. Enabled(control) => control % 4 \in {0, 3}
  <2>1. ~Enabled(0)
    BY BitValueCases DEF Enabled, Bit
  <2> QED
    BY <1>4, <2>1, SlowSelectAssumption DEF ClockSelect
<1> QED
  BY <1>5, <1>6, <1>7, <1>8 DEF n

\* Setting bit 2 of IF is what IdealTimer calls requested.
LEMMA RequestMaps ==
  ASSUME FullInv
  PROVE  Bit(Read(WithRequest(mem), IF_REG), TimerBit)
BY RequestSetsBit, Backed DEF FullInv, Inv, TypeOK

LEMMA UpdateMaps ==
  ASSUME FullInv, NEW cycles \in CycleCounts, update(cycles)
  PROVE  Ideal!Advance(4 * cycles) /\ Stored'
<1> DEFINE reload  == Reloads(cycles)
           counter == Read(mem, IF reload THEN TMA_ADDR ELSE TIMA_ADDR)
           control == Read(mem, TAC_ADDR)
           edge    == Enabled(control) /\ Falls(div_internal, cycles * 4,
                                                InputBit(ClockSelect(control)))
           m       == IF reload THEN WithRequest(mem) ELSE mem
           pending == tima_overflow /\ ~reload
           waited  == Waited(cycles)
           div     == Advanced(cycles)
           elapsed == IF edge THEN 1 ELSE 0
           total   == counter + elapsed
<1>1. /\ Count(edge, counter, pending, waited)
      /\ div_internal' = div
      /\ mem' = WithRegisters(m, div, tima')
  BY DEF update, Advanced, Falls
<1>2. /\ TypeOK /\ Stored /\ cycles \in Nat /\ cycles >= 4
      /\ overflow_cycles \in Nat
  BY CyclesType DEF FullInv, Inv, TypeOK
<1>3. reload <=> tima_overflow
  BY <1>2 DEF Reloads
<1>4. counter \in Byte /\ counter <= TimaLast
  BY <1>2, RegisterReads DEF TypeOK, Stored
<1>5. edge \in BOOLEAN
  BY DEF Enabled, Bit, Falls, IsSet
<1>6. Ideal!Elapsed(4 * cycles) = elapsed
  BY ElapsedIsEdge
<1>7. /\ Read(mem', TIMA_ADDR) = tima'
      /\ Read(mem', TMA_ADDR) = Read(mem, TMA_ADDR)
      /\ Read(mem', TAC_ADDR) = Read(mem, TAC_ADDR)
  <2>1. /\ Read(m, TMA_ADDR) = Read(mem, TMA_ADDR)
        /\ Read(m, TAC_ADDR) = Read(mem, TAC_ADDR)
    BY ReadOther, RegistersDistinct DEF WithRequest
  <2> QED
    BY <1>1, <2>1, WrittenBack
<1>8. Requested' = (Requested \/ tima_overflow)
  <2>1. Read(mem', IF_REG) = Read(m, IF_REG)
    BY <1>1, WrittenBack
  <2>2. CASE tima_overflow
    BY <1>3, <2>1, <2>2, RequestMaps DEF Requested
  <2>3. CASE ~tima_overflow
    <3>1. Read(mem', IF_REG) = Read(mem, IF_REG)
      BY <1>3, <2>1, <2>3
    <3>2. Requested' = Requested
      BY <3>1 DEF Requested
    <3>3. Requested \in BOOLEAN
      BY DEF Requested, Bit
    <3> QED
      BY <2>3, <3>2, <3>3
  <2> QED
    BY <2>2, <2>3
<1>9. (tima_overflow = TRUE \/ tima_overflow = FALSE) /\ (pending \in BOOLEAN) /\ ~pending
  BY <1>2, <1>3 DEF TypeOK
<1>10. counter = IF tima_overflow THEN Read(mem, TMA_ADDR) ELSE Read(mem, TIMA_ADDR)
  BY <1>3
<1>11. div = (div_internal + 4 * cycles) % DivWrap
  BY <1>2 DEF TypeOK, Advanced
<1> HIDE DEF reload, counter, control, edge, m, pending, waited, div, total, elapsed
<1>12. /\ tima' = IF total > TimaLast THEN total - (TimaLast + 1) ELSE total
       /\ tima' <= TimaLast
       /\ tima_overflow' = (total > TimaLast \/ pending)
  BY <1>1, <1>4, <1>5, <1>9, CountBy DEF total, elapsed
<1>13. tima_overflow' = (total > TimaLast)
  BY <1>9, <1>12
<1>14. Stored'
  BY <1>2, <1>7, <1>12 DEF Stored
<1>15. Ideal!Advance(4 * cycles)
  BY <1>1, <1>6, <1>7, <1>8, <1>10, <1>11, <1>12, <1>13 DEF Ideal!Advance, total
<1> QED
  BY <1>14, <1>15

LEMMA ResetDivMaps ==
  ASSUME FullInv, reset_div
  PROVE  Ideal!ResetClock /\ Stored'
<1>1. ~IsSet(prev_div_value, InputBit(ClockSelect(Read(mem, TAC_ADDR))))
  <2>1. InputBit(ClockSelect(Read(mem, TAC_ADDR))) \in {512, 8, 32, 128}
    BY DEF InputBit
  <2>2. \A w \in {512, 8, 32, 128} : (0 \div w) % 2 = 0
    OBVIOUS
  <2> QED
    BY <2>1, <2>2 DEF IsSet, FullInv, Inv
<1>2. /\ tima' = Read(mem, TIMA_ADDR) /\ tima_overflow' = tima_overflow
      /\ div_internal' = 0 /\ mem' = WithRegisters(mem, 0, tima')
  BY <1>1 DEF reset_div, Count
<1>3. /\ Read(mem', TIMA_ADDR) = Read(mem, TIMA_ADDR)
      /\ Read(mem', TMA_ADDR) = Read(mem, TMA_ADDR)
      /\ Read(mem', TAC_ADDR) = Read(mem, TAC_ADDR)
      /\ Read(mem', IF_REG) = Read(mem, IF_REG)
  BY <1>2, WrittenBack
<1> QED
  BY <1>2, <1>3 DEF Ideal!ResetClock, Stored, FullInv, Requested

LEMMA TacUpdatedMaps ==
  ASSUME FullInv, NEW old, NEW new, tac_updated(old, new)
  PROVE  (Ideal!ChangeSelect \/ UNCHANGED Ideal!vars) /\ Stored'
<1> DEFINE edge == /\ /\ Enabled(new)
                      /\ ~Enabled(old) \/ ClockSelect(old) # ClockSelect(new)
                   /\ IsSet(div_internal, InputBit(ClockSelect(old)))
                   /\ ~IsSet(div_internal, InputBit(ClockSelect(new)))
           counter == Read(mem, TIMA_ADDR)
           total == counter + (IF edge THEN 1 ELSE 0)
<1>1. /\ Count(edge, counter, tima_overflow, overflow_cycles)
      /\ div_internal' = div_internal
      /\ mem' = WithRegisters(mem, div_internal, tima')
  BY DEF tac_updated, divVars
<1>2. /\ Read(mem', TIMA_ADDR) = tima'
      /\ Read(mem', TMA_ADDR) = Read(mem, TMA_ADDR)
      /\ Read(mem', TAC_ADDR) = Read(mem, TAC_ADDR)
      /\ Read(mem', IF_REG) = Read(mem, IF_REG)
  BY <1>1, WrittenBack
<1>3. edge \in BOOLEAN
  BY DEF Enabled, Bit, IsSet
<1>4. counter \in Byte /\ counter <= TimaLast
  BY RegisterReads DEF FullInv, Inv, TypeOK, Stored
<1>5. tima_overflow = TRUE \/ tima_overflow = FALSE
  BY DEF FullInv, Inv, TypeOK
<1> HIDE DEF edge
<1>6. tima' <= TimaLast
  BY <1>1, <1>3, <1>4, <1>5, CountBy
<1>7. Stored'
  BY <1>2, <1>6 DEF FullInv, Stored
<1> HIDE DEF counter, total
<1>11. Requested' = Requested
  BY <1>2 DEF Requested
<1>8. CASE ~edge
  <2>1. tima' = counter /\ tima_overflow' = tima_overflow
    BY <1>1, <1>8 DEF Count
  <2> QED
    BY <1>1, <1>2, <1>7, <1>11, <2>1 DEF Ideal!vars, counter
<1>9. CASE edge /\ counter = TimaLast
  <2>1. tima' = 0 /\ tima_overflow' = TRUE
    BY <1>1, <1>9 DEF Count
  <2> QED
    BY <1>1, <1>2, <1>7, <1>9, <1>11, <2>1 DEF Ideal!ChangeSelect, counter
<1>10. CASE edge /\ counter # TimaLast
  <2>1. AsByte(counter + 1) = counter + 1 /\ counter < TimaLast
    BY <1>4, <1>10, TimaLastType DEF AsByte, Byte
  <2>2. tima' = counter + 1 /\ tima_overflow' = tima_overflow
    BY <1>1, <1>10, <2>1 DEF Count
  <2> QED
    BY <1>1, <1>2, <1>7, <1>11, <2>1, <2>2 DEF Ideal!ChangeSelect, counter
<1> QED
  BY <1>8, <1>9, <1>10

LEMMA RestartMaps ==
  ASSUME FullInv, initialize
  PROVE  Ideal!Restart /\ Stored'
<1>1. /\ Read(mem', TIMA_ADDR) = 0
      /\ Read(mem', TMA_ADDR) = Read(mem, TMA_ADDR)
      /\ Read(mem', TAC_ADDR) = Read(mem, TAC_ADDR)
      /\ Read(mem', IF_REG) = Read(mem, IF_REG)
  BY WrittenBack DEF initialize
<1> QED
  BY <1>1, TimaLastType
  DEF initialize, Ideal!Restart, Stored, FullInv, Requested

LEMMA StoresMap ==
  ASSUME FullInv, Stores
  PROVE  (Ideal!StoreRegister \/ UNCHANGED Ideal!vars) /\ Stored'
<1>1. div_internal' = div_internal /\ tima_overflow' = tima_overflow
  BY DEF Stores, StoreDiv, StoreTima, StoreTma, StoreTac, StoreIf, Store, timerVars
<1>2. ASSUME NEW a \in Registers, NEW v, mem' = Write(mem, a, v)
      PROVE  /\ Read(mem', a) = v
             /\ \A b \in Registers : b # a => Read(mem', b) = Read(mem, b)
  BY <1>2, Backed, ReadWritten, ReadOther DEF Registers
<1>3. CASE StoreDiv
  <2>1. PICK v : mem' = Write(mem, DIV_ADDR, v)
    BY <1>3 DEF StoreDiv, Store
  <2> QED
    BY <1>1, <1>2, <2>1, RegistersDistinct
    DEF Registers, Ideal!vars, Stored, FullInv, Requested
<1>4. CASE StoreTima
  <2>1. PICK v \in 0 .. TimaLast : mem' = Write(mem, TIMA_ADDR, v)
    BY <1>4, InputsAssumption DEF StoreTima, Store
  <2> QED
    BY <1>1, <1>2, <2>1, RegistersDistinct, TimaLastType
    DEF Registers, Ideal!StoreRegister, Stored, FullInv, Requested
<1>5. CASE StoreTma
  <2>1. PICK v \in 0 .. TimaLast : mem' = Write(mem, TMA_ADDR, v)
    BY <1>5, InputsAssumption DEF StoreTma, Store
  <2> QED
    BY <1>1, <1>2, <2>1, RegistersDistinct, TimaLastType
    DEF Registers, Ideal!StoreRegister, Stored, FullInv, Requested
<1>6. CASE StoreTac
  <2>1. PICK v \in TacValues : mem' = Write(mem, TAC_ADDR, v)
    BY <1>6 DEF StoreTac, Store
  <2>2. v \in 0 .. 255
    BY <2>1, InputsAssumption DEF Byte
  <2> QED
    BY <1>1, <1>2, <2>1, <2>2, RegistersDistinct
    DEF Registers, Ideal!StoreRegister, Stored, FullInv, Requested
<1>7. CASE StoreIf
  <2>1. PICK v : mem' = Write(mem, IF_REG, v)
    BY <1>7 DEF StoreIf, Store
  <2>2. Requested' \in BOOLEAN
    BY DEF Requested, Bit
  <2> QED
    BY <1>1, <1>2, <2>1, <2>2, RegistersDistinct
    DEF Registers, Ideal!StoreRegister, Stored, FullInv
<1> QED
  BY <1>3, <1>4, <1>5, <1>6, <1>7 DEF Stores

LEMMA StepMaps ==
  ASSUME FullInv, [Next]_vars
  PROVE  [Ideal!Next]_(Ideal!vars) /\ Stored'
<1>1. CASE initialize
  BY <1>1, RestartMaps DEF Ideal!Next
<1>2. CASE Update
  BY <1>2, UpdateMaps DEF Update, Ideal!Next
<1>3. CASE reset_div
  BY <1>3, ResetDivMaps DEF Ideal!Next
<1>4. CASE TacUpdated
  BY <1>4, TacUpdatedMaps DEF TacUpdated, Ideal!Next
<1>5. CASE Stores
  BY <1>5, StoresMap DEF Ideal!Next
<1>6. CASE UNCHANGED vars
  BY <1>6 DEF vars, Ideal!vars, FullInv, Stored, Requested
<1> QED
  BY <1>1, <1>2, <1>3, <1>4, <1>5, <1>6 DEF Next

\* With the slow clock selects the timer advances TIMA exactly once per
\* period, answers each overflow once, and does nothing else to its registers.
THEOREM TimerCountsExactly == Spec => CountsExactly
<1>1. Init => Ideal!Init /\ Stored
  BY InitMaps
<1>2. Inv /\ Stored /\ [Next]_vars => [Ideal!Next]_(Ideal!vars) /\ Stored'
  BY StepMaps DEF FullInv
<1> QED
  BY <1>1, <1>2, InvHolds, PTL DEF Spec, CountsExactly, Ideal!Spec
=============================================================================
