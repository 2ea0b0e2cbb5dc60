--------------------------- MODULE InterruptProofs ---------------------------
(* The interrupt controller implements IdealInterrupts whenever IF and IE    *)
(* are cells of a RAM, for every set of callers and of stored values.        *)
EXTENDS InterruptController, MemoryMapProofs

LEMMA AddressesDiffer == IF_ADDR \in Word /\ IE_ADDR \in Word /\ IF_ADDR # IE_ADDR
BY DEF IF_ADDR, IE_ADDR, Word

LEMMA RegistersType ==
  ASSUME IsMemory(mem)
  PROVE  IF_now \in Byte /\ IE_now \in Byte
BY ReadType, AddressesDiffer DEF IF_now, IE_now

LEMMA VectorOfCases ==
  /\ VectorOf[0] = 64 /\ VectorOf[1] = 72 /\ VectorOf[2] = 80
  /\ VectorOf[3] = 88 /\ VectorOf[4] = 96
BY DEF VectorOf, Sources

\* The candidate the tests find first, and its vector.
LEMMA HighestIn ==
  ASSUME NEW S, S \subseteq Sources, S # {}
  PROVE  /\ Highest(S) \in S
         /\ VectorOf[Highest(S)] = 64 + 8 * Highest(S)
<1>1. \E i \in S : \A j \in S : i <= j
  <2>1. S \subseteq {0, 1, 2, 3, 4}
    BY DEF Sources
  <2>2. CASE 0 \in S
    BY <2>1, <2>2
  <2>3. CASE 0 \notin S /\ 1 \in S
    BY <2>1, <2>3
  <2>4. CASE 0 \notin S /\ 1 \notin S /\ 2 \in S
    BY <2>1, <2>4
  <2>5. CASE 0 \notin S /\ 1 \notin S /\ 2 \notin S /\ 3 \in S
    BY <2>1, <2>5
  <2>6. CASE 0 \notin S /\ 1 \notin S /\ 2 \notin S /\ 3 \notin S
    <3>1. S = {4}
      BY <2>1, <2>6
    <3> QED
      BY <3>1
  <2> QED
    BY <2>2, <2>3, <2>4, <2>5, <2>6
<1>2. Highest(S) \in S
  BY <1>1 DEF Highest
<1> DEFINE h == Highest(S)
<1>3. h = 0 \/ h = 1 \/ h = 2 \/ h = 3 \/ h = 4
  <2>1. h \in Sources
    BY <1>2
  <2> HIDE DEF h
  <2> QED
    BY <2>1 DEF Sources
<1> HIDE DEF h
<1>4. VectorOf[h] = 64 + 8 * h
  BY <1>3, VectorOfCases
<1> QED
  BY <1>2, <1>4 DEF h

-----------------------------------------------------------------------------
(* Types. *)

LEMMA SetRegistersType ==
  ASSUME IsMemory(mem), NEW f \in Byte, NEW e \in Byte, SetRegisters(f, e)
  PROVE  if_' \in Byte /\ ie_' \in Byte /\ IsMemory(mem')
BY WriteType, AddressesDiffer DEF SetRegisters

LEMMA OperationType ==
  ASSUME TypeOK, NEW i \in Interrupts, Operation(i)
  PROVE  TypeOK'
<1>1. i \in 0 .. 7 /\ IF_now \in Byte /\ IE_now \in Byte
  BY InputsAssumption, RegistersType DEF TypeOK
<1>2. PICK f \in Byte, e \in Byte : SetRegisters(f, e)
  BY <1>1, SetClearType
  DEF Operation, request_interrupt, clear_interrupt, enable_interrupt,
      disable_interrupt
<1>3. if_' \in Byte /\ ie_' \in Byte /\ IsMemory(mem')
  BY <1>2, SetRegistersType DEF TypeOK
<1>4. pending' = pending /\ vector' = vector
  BY DEF Operation, request_interrupt, clear_interrupt, enable_interrupt,
         disable_interrupt, answers
<1> QED
  BY <1>3, <1>4 DEF TypeOK

LEMMA VectorType ==
  ASSUME TypeOK, get_interrupt_vector
  PROVE  TypeOK'
<1> DEFINE S == Pending(IF_now, IE_now)
<1>1. IF_now \in Byte /\ IE_now \in Byte /\ S \subseteq Sources
  BY RegistersType DEF TypeOK, Pending
<1>2. pending' = pending
  BY DEF get_interrupt_vector
<1> HIDE DEF S
<1>3. CASE S = {}
  BY <1>1, <1>2, <1>3 DEF get_interrupt_vector, S, TypeOK
<1>4. CASE S # {}
  <2>1. Highest(S) \in Sources /\ Highest(S) \in 0 .. 7
    <3>1. Highest(S) \in S
      BY <1>1, <1>4, HighestIn
    <3>2. Highest(S) \in Sources
      BY <1>1, <3>1
    <3> QED
      BY <3>2 DEF Sources
  <2>2. SetRegisters(ClearBit(IF_now, Highest(S)), IE_now)
        /\ vector' = VectorOf[Highest(S)]
    BY <1>4 DEF get_interrupt_vector, S
  <2>3. if_' \in Byte /\ ie_' \in Byte /\ IsMemory(mem')
    BY <1>1, <2>1, <2>2, SetClearType, SetRegistersType DEF TypeOK
  <2>4. vector' \in {64, 72, 80, 88, 96}
    BY <2>1, <2>2, VectorOfCases DEF Sources
  <2> QED
    BY <1>2, <2>3, <2>4 DEF TypeOK
<1> QED
  BY <1>3, <1>4

LEMMA NextType == TypeOK /\ [Next]_vars => TypeOK'
<1> SUFFICES ASSUME TypeOK, [Next]_vars PROVE TypeOK'
  OBVIOUS
<1>1. CASE initialize
  <2>1. if_' \in Byte /\ ie_' \in Byte /\ IsMemory(mem')
    BY <1>1, SetRegistersType DEF initialize, TypeOK, Byte
  <2> QED
    BY <1>1, <2>1 DEF initialize, answers, TypeOK
<1>2. CASE \E i \in Interrupts : Operation(i)
  BY <1>2, OperationType
<1>3. CASE interrupts_pending
  <2>1. IF_now \in Byte /\ IE_now \in Byte
    BY RegistersType DEF TypeOK
  <2> QED
    BY <1>3, <2>1 DEF interrupts_pending, TypeOK
<1>4. CASE get_interrupt_vector
  BY <1>4, VectorType
<1>5. CASE StoreIf \/ StoreIe
  BY <1>5, WriteType, AddressesDiffer, InputsAssumption
  DEF StoreIf, StoreIe, Store, TypeOK
<1>6. CASE UNCHANGED vars
  BY <1>6 DEF vars, TypeOK
<1> QED
  BY <1>1, <1>2, <1>3, <1>4, <1>5, <1>6 DEF Next

\* The copies and the registers stay bytes, and every answer is a vector.
THEOREM TypeCorrect == Spec => []TypeOK
<1>1. Init => TypeOK
  <2> SUFFICES ASSUME Init PROVE TypeOK
    OBVIOUS
  <2>1. pending \in BOOLEAN
    BY Zenon DEF Init
  <2>2. IsMemory(mem)
    BY DEF Init, IsMemory, NoMemory, Word
  <2> QED
    BY <2>1, <2>2 DEF Init, TypeOK, Byte
<1> QED
  BY <1>1, NextType, PTL DEF Spec

-----------------------------------------------------------------------------
(* Refinement. *)

\* What write_registers leaves in the registers.
LEMMA SetRegistersReads ==
  ASSUME InRam(IF_ADDR), InRam(IE_ADDR), NEW f, NEW e, SetRegisters(f, e)
  PROVE  Read(mem', IF_ADDR) = f /\ Read(mem', IE_ADDR) = e
BY ReadWritten, ReadOther, AddressesDiffer DEF SetRegisters

LEMMA BitsInLines == ASSUME NEW b PROVE Bits(b) \in SUBSET Ideal!Lines
BY DEF Bits, Ideal!Lines

\* Every operation maps to the step of the same name.
LEMMA InitMaps ==
  ASSUME InRam(IF_ADDR), InRam(IE_ADDR), Init
  PROVE  Ideal!Init
<1>1. Read(mem, IF_ADDR) = 0 /\ Read(mem, IE_ADDR) = 0
  BY DEF Init, Read, NoMemory
<1>2. Bits(0) = {}
  BY BitValueCases DEF Bits, Bit
<1> QED
  BY <1>1, <1>2 DEF Init, Ideal!Init, Requested, Enabled

LEMMA OperationMaps ==
  ASSUME InRam(IF_ADDR), InRam(IE_ADDR), TypeOK,
         NEW i \in Interrupts, Operation(i)
  PROVE  Ideal!Next
<1>1. i \in 0 .. 7 /\ IF_now \in Byte /\ IE_now \in Byte /\ vector' = vector
  BY InputsAssumption, RegistersType
  DEF TypeOK, Operation, request_interrupt, clear_interrupt, enable_interrupt,
      disable_interrupt, answers
<1>2. CASE request_interrupt(i)
  <2>1. Requested' = Requested \cup {i} /\ Enabled' = Enabled
    BY <1>1, <1>2, SetRegistersReads, BitsOfSet
    DEF request_interrupt, Requested, Enabled, IF_now, IE_now
  <2> QED
    BY <1>1, <2>1 DEF Ideal!Next, Ideal!Request, Ideal!Lines
<1>3. CASE clear_interrupt(i)
  <2>1. Requested' = Requested \ {i} /\ Enabled' = Enabled
    BY <1>1, <1>3, SetRegistersReads, BitsOfClear
    DEF clear_interrupt, Requested, Enabled, IF_now, IE_now
  <2> QED
    BY <1>1, <2>1 DEF Ideal!Next, Ideal!Clear, Ideal!Lines
<1>4. CASE enable_interrupt(i)
  <2>1. Enabled' = Enabled \cup {i} /\ Requested' = Requested
    BY <1>1, <1>4, SetRegistersReads, BitsOfSet
    DEF enable_interrupt, Requested, Enabled, IF_now, IE_now
  <2> QED
    BY <1>1, <2>1 DEF Ideal!Next, Ideal!Enable, Ideal!Lines
<1>5. CASE disable_interrupt(i)
  <2>1. Enabled' = Enabled \ {i} /\ Requested' = Requested
    BY <1>1, <1>5, SetRegistersReads, BitsOfClear
    DEF disable_interrupt, Requested, Enabled, IF_now, IE_now
  <2> QED
    BY <1>1, <2>1 DEF Ideal!Next, Ideal!Disable, Ideal!Lines
<1> QED
  BY <1>2, <1>3, <1>4, <1>5 DEF Operation

LEMMA VectorMaps ==
  ASSUME InRam(IF_ADDR), InRam(IE_ADDR), TypeOK, get_interrupt_vector
  PROVE  Ideal!Next
<1> DEFINE S == Pending(IF_now, IE_now)
<1>1. /\ S = Requested \cap Enabled \cap Sources
      /\ S \subseteq Sources /\ IF_now \in Byte
  BY RegistersType
  DEF Pending, Requested, Enabled, IF_now, IE_now, Sources, TypeOK
<1>2. Highest(S) = Ideal!Urgent
  BY <1>1 DEF Highest, Ideal!Urgent
<1> HIDE DEF S
<1>3. CASE S = {}
  <2>1. mem' = mem /\ vector' = 0
    BY <1>3 DEF get_interrupt_vector, S
  <2>2. Requested' = Requested /\ Enabled' = Enabled
    BY <2>1 DEF Requested, Enabled
  <2> QED
    BY <1>1, <1>3, <2>1, <2>2 DEF Ideal!Next, Ideal!NothingToAcknowledge
<1>4. CASE S # {}
  <2> DEFINE h == Highest(S)
  <2>1. h \in 0 .. 7 /\ VectorOf[h] = 64 + 8 * h
    <3>1. h \in S /\ VectorOf[h] = 64 + 8 * h
      BY <1>1, <1>4, HighestIn
    <3>2. h \in Sources
      BY <1>1, <3>1
    <3> HIDE DEF h
    <3> QED
      BY <3>1, <3>2 DEF Sources
  <2>2. SetRegisters(ClearBit(IF_now, h), IE_now) /\ vector' = VectorOf[h]
    BY <1>4 DEF get_interrupt_vector, S
  <2>3. Requested' = Requested \ {h} /\ Enabled' = Enabled
    BY <1>1, <2>1, <2>2, SetRegistersReads, BitsOfClear
    DEF Requested, Enabled, IF_now, IE_now
  <2> QED
    BY <1>1, <1>2, <1>4, <2>1, <2>2, <2>3 DEF Ideal!Next, Ideal!Acknowledge
<1> QED
  BY <1>3, <1>4

LEMMA StepMaps ==
  ASSUME InRam(IF_ADDR), InRam(IE_ADDR), TypeOK, [Next]_vars
  PROVE  [Ideal!Next]_Ideal!vars
<1>1. CASE initialize
  <2>1. Read(mem', IF_ADDR) = 225 /\ Read(mem', IE_ADDR) = 0 /\ vector' = vector
    BY <1>1, SetRegistersReads DEF initialize, answers
  <2>2. Bits(225) = {0, 5, 6, 7} /\ Bits(0) = {}
    BY BitValueCases DEF Bits, Bit
  <2> QED
    BY <2>1, <2>2 DEF Ideal!Next, Ideal!Restart, Requested, Enabled
<1>2. CASE \E i \in Interrupts : Operation(i)
  BY <1>2, OperationMaps
<1>3. CASE interrupts_pending
  BY <1>3 DEF interrupts_pending, Ideal!vars, Requested, Enabled
<1>4. CASE get_interrupt_vector
  BY <1>4, VectorMaps
<1>5. CASE StoreIf
  <2>1. Enabled' = Enabled /\ vector' = vector
    BY <1>5, ReadOther, AddressesDiffer DEF StoreIf, Store, Enabled
  <2>2. Requested' \in SUBSET Ideal!Lines
    BY BitsInLines DEF Requested
  <2> QED
    BY <2>1, <2>2 DEF Ideal!Next, Ideal!StoreRequested
<1>6. CASE StoreIe
  <2>1. Requested' = Requested /\ vector' = vector
    BY <1>6, ReadOther, AddressesDiffer DEF StoreIe, Store, Requested
  <2>2. Enabled' \in SUBSET Ideal!Lines
    BY BitsInLines DEF Enabled
  <2> QED
    BY <2>1, <2>2 DEF Ideal!Next, Ideal!StoreEnabled
<1>7. CASE UNCHANGED vars
  BY <1>7 DEF vars, Ideal!vars, Requested, Enabled
<1> QED
  BY <1>1, <1>2, <1>3, <1>4, <1>5, <1>6, <1>7 DEF Next

\* On real memory the read-modify-write of both registers, with copies that
\* others make stale at any time, is a set of requests and a set of enables.
THEOREM ControllerIsSets ==
  ASSUME InRam(IF_ADDR), InRam(IE_ADDR)
  PROVE  Spec => BehavesAsSets
<1>1. Init => Ideal!Init
  BY InitMaps
<1>2. TypeOK /\ [Next]_vars => [Ideal!Next]_Ideal!vars
  BY StepMaps
<1> QED
  BY <1>1, <1>2, TypeCorrect, PTL DEF Spec, BehavesAsSets, Ideal!Spec

-----------------------------------------------------------------------------
(* Requests. *)

\* The registers as sets after each operation.
LEMMA KeptByOperation ==
  ASSUME InRam(IF_ADDR), InRam(IE_ADDR), TypeOK, NEW j \in Interrupts,
         Operation(j), NEW i \in Requested
  PROVE  i \in Requested' \/ clear_interrupt(i)
<1>1. j \in 0 .. 7 /\ IF_now \in Byte
  BY InputsAssumption, RegistersType DEF TypeOK
<1>2. CASE request_interrupt(j)
  BY <1>1, <1>2, SetRegistersReads, BitsOfSet
  DEF request_interrupt, Requested, IF_now
<1>3. CASE clear_interrupt(j)
  <2>1. Requested' = Requested \ {j}
    BY <1>1, <1>3, SetRegistersReads, BitsOfClear
    DEF clear_interrupt, Requested, IF_now
  <2> QED
    BY <1>3, <2>1
<1>4. CASE enable_interrupt(j)
  BY <1>4, SetRegistersReads DEF enable_interrupt, Requested, IF_now
<1>5. CASE disable_interrupt(j)
  BY <1>5, SetRegistersReads DEF disable_interrupt, Requested, IF_now
<1> QED
  BY <1>2, <1>3, <1>4, <1>5 DEF Operation

LEMMA KeptByVector ==
  ASSUME InRam(IF_ADDR), InRam(IE_ADDR), TypeOK, get_interrupt_vector,
         NEW i \in Requested
  PROVE  \/ i \in Requested'
         \/ i \in Sources /\ vector' = VectorOf[i]
<1> DEFINE S == Pending(IF_now, IE_now)
           h == Highest(S)
<1>1. S \subseteq Sources /\ IF_now \in Byte
  BY RegistersType DEF Pending, TypeOK
<1>2. CASE S = {}
  BY <1>2 DEF get_interrupt_vector, Requested
<1>3. CASE S # {}
  <2>1. SetRegisters(ClearBit(IF_now, h), IE_now) /\ vector' = VectorOf[h]
    BY <1>3 DEF get_interrupt_vector
  <2> HIDE DEF S
  <2>2. h \in Sources
    BY <1>1, <1>3, HighestIn
  <2> HIDE DEF h
  <2>3. h \in 0 .. 7
    BY <2>2 DEF Sources
  <2>4. Requested' = Requested \ {h}
    BY <1>1, <2>1, <2>3, SetRegistersReads, BitsOfClear DEF Requested, IF_now
  <2> QED
    BY <2>1, <2>2, <2>4
<1> QED
  BY <1>2, <1>3

\* A request survives every operation on another interrupt.
THEOREM RequestsSurvive ==
  ASSUME InRam(IF_ADDR), InRam(IE_ADDR)
  PROVE  Spec => RequestsKept
<1> DEFINE Kept == \A i \in Requested :
                     \/ i \in Requested'
                     \/ clear_interrupt(i)
                     \/ get_interrupt_vector /\ i \in Sources /\ vector' = VectorOf[i]
                     \/ StoreIf
                     \/ initialize
<1>1. TypeOK /\ [Next]_vars => [Kept]_vars
  <2> SUFFICES ASSUME TypeOK, Next, NEW i \in Requested
               PROVE  \/ i \in Requested'
                      \/ clear_interrupt(i)
                      \/ get_interrupt_vector /\ i \in Sources /\ vector' = VectorOf[i]
                      \/ StoreIf
                      \/ initialize
    OBVIOUS
  <2>1. CASE \E j \in Interrupts : Operation(j)
    BY <2>1, KeptByOperation
  <2>2. CASE interrupts_pending
    BY <2>2 DEF interrupts_pending, Requested
  <2>3. CASE get_interrupt_vector
    BY <2>3, KeptByVector
  <2>4. CASE StoreIe
    BY <2>4, ReadOther, AddressesDiffer DEF StoreIe, Store, Requested
  <2>5. CASE initialize \/ StoreIf
    BY <2>5
  <2> QED
    BY <2>1, <2>2, <2>3, <2>4, <2>5 DEF Next
<1> QED
  BY <1>1, TypeCorrect, PTL DEF Spec, RequestsKept
=============================================================================
