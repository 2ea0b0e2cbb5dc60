------------------------------- MODULE Timer -------------------------------
(***************************************************************************)
(* The timer (system/timer.hpp): a free-running divider, the counter TIMA  *)
(* that advances on falling edges of one divider bit, and the delayed      *)
(* reload and interrupt request after TIMA overflows.                      *)
(*                                                                         *)
(* The timer keeps copies of TIMA, TMA and TAC, which every operation      *)
(* refreshes from memory first; memory is shared with the program, the     *)
(* CPU and the interrupt controller.                                       *)
(***************************************************************************)
EXTENDS MemoryMap

CONSTANTS DivWrap,       \* 2^width of div_internal_: 2^16 in the code
          TimaLast,      \* the TIMA that overflows next: 0xFF in the code
          CycleCounts,   \* the arguments update() is called with
          TacValues,     \* what programs store into TAC
          TimaValues,    \* what programs store into TIMA and TMA
          IfValues       \* what the rest of the system stores into IF

ASSUME DivWrapAssumption == DivWrap \in {64, 1024, 65536}
ASSUME TimaLastAssumption == TimaLast \in Byte
ASSUME InputsAssumption ==
  /\ CycleCounts \subseteq Byte \ {0}
  /\ TacValues \subseteq Byte
  /\ TimaValues \subseteq 0 .. TimaLast
  /\ IfValues \subseteq Byte

VARIABLES div_internal,      \* the private fields of class Timer
          prev_div_value,
          tima, tma, tac,
          tima_overflow,
          overflow_cycles,
          mem                \* the contents of the memory map

divVars == <<div_internal, prev_div_value>>
regVars == <<tima, tma, tac>>
overflowVars == <<tima_overflow, overflow_cycles>>
timerVars == <<div_internal, prev_div_value, tima, tma, tac, tima_overflow,
               overflow_cycles>>
vars == <<div_internal, prev_div_value, tima, tma, tac, tima_overflow,
          overflow_cycles, mem>>

DIV_ADDR  == \hFF04
TIMA_ADDR == \hFF05
TMA_ADDR  == \hFF06
TAC_ADDR  == \hFF07
IF_REG    == \hFF0F          \* the literal 0xFF0F of request_interrupt

TimerBit == 2

Enabled(tacValue) == Bit(tacValue, 2)
ClockSelect(tacValue) == tacValue % 4

\* Fault: the bits of selects 1 and 3 exchanged.
InputBitSwapped(select) ==
  CASE select = 0 -> 512 [] select = 1 -> 128 [] select = 2 -> 32 [] OTHER -> 8

\* get_input_bit: the divider bit a clock select watches, as its weight.
InputBit(select) ==
  CASE select = 0 -> 512 [] select = 1 -> 8 [] select = 2 -> 32 [] OTHER -> 128

\* The divider keeps every bit that a program makes the timer watch.
ASSUME WatchedAssumption ==
  \A v \in TacValues : 2 * InputBit(ClockSelect(v)) <= DivWrap

IsSet(div, weight) == (div \div weight) % 2 = 1

-----------------------------------------------------------------------------
(* What the operations do to memory. *)

\* write_registers: TMA and TAC are never written back.
WithRegisters(m, div, counter) ==
  Write(Write(m, DIV_ADDR, AsByte(div \div 256)), TIMA_ADDR, counter)

\* Fault: the request is forgotten.
RequestForgotten(m) == m

\* request_interrupt
WithRequest(m) == Write(m, IF_REG, SetBit(Read(m, IF_REG), TimerBit))

\* Fault: an overflow does not set tima_overflow_.
CountForgetting(edge, counter, pending, waited) ==
  /\ tima' = IF ~edge THEN counter
             ELSE IF counter = TimaLast THEN 0 ELSE AsByte(counter + 1)
  /\ tima_overflow' = pending /\ overflow_cycles' = waited

\* One increment of TIMA, from counter, if there is an edge.  An overflow
\* clears TIMA and starts the delay; otherwise the delay in progress stays.
Count(edge, counter, pending, waited) ==
  IF ~edge
  THEN tima' = counter /\ tima_overflow' = pending /\ overflow_cycles' = waited
  ELSE IF counter = TimaLast
  THEN tima' = 0 /\ tima_overflow' = TRUE /\ overflow_cycles' = 0
  ELSE /\ tima' = AsByte(counter + 1)
       /\ tima_overflow' = pending
       /\ overflow_cycles' = waited

-----------------------------------------------------------------------------
Init ==
  /\ div_internal = 0 /\ prev_div_value = 0
  /\ tima = 0 /\ tma = 0 /\ tac = 0
  /\ tima_overflow = FALSE /\ overflow_cycles = 0
  /\ mem = NoMemory

initialize ==
  /\ div_internal' = 0 /\ prev_div_value' = 0
  /\ tima' = 0 /\ tma' = 0 /\ tac' = 0
  /\ tima_overflow' = FALSE /\ overflow_cycles' = 0
  /\ mem' = WithRegisters(mem, 0, 0)

\* Faults: the delay counter is compared whether or not an overflow waits, or
\* before the cycles are added to it.
ReloadsAnyway(cycles) == overflow_cycles + cycles >= 4
ReloadsLate(cycles) == tima_overflow /\ overflow_cycles >= 4

\* The delayed reload is due within these cycles.
Reloads(cycles) == tima_overflow /\ overflow_cycles + cycles >= 4

\* Fault: the reload does not reset the delay counter.
WaitedOn(cycles) == IF tima_overflow THEN overflow_cycles + cycles ELSE overflow_cycles

\* The delay counter once these cycles have passed.
Waited(cycles) ==
  IF Reloads(cycles) THEN 0
  ELSE IF tima_overflow THEN overflow_cycles + cycles
  ELSE overflow_cycles

Advanced(cycles) == (div_internal + cycles * 4) % DivWrap

\* update: first the delayed reload, then the divider and its edge.
update(cycles) ==
  LET counter  == Read(mem, IF Reloads(cycles) THEN TMA_ADDR ELSE TIMA_ADDR)
      control  == Read(mem, TAC_ADDR)
      div      == Advanced(cycles)
      weight   == InputBit(ClockSelect(control))
      edge     == /\ Enabled(control)
                  /\ IsSet(div_internal, weight) /\ ~IsSet(div, weight)
      requested == IF Reloads(cycles) THEN WithRequest(mem) ELSE mem
  IN  /\ Count(edge, counter, tima_overflow /\ ~Reloads(cycles), Waited(cycles))
      /\ div_internal' = div
      /\ tma' = Read(mem, TMA_ADDR) /\ tac' = control
      /\ mem' = WithRegisters(requested, div, tima')
      /\ UNCHANGED prev_div_value

\* reset_div compares with prev_div_value_, not with the divider it clears.
reset_div ==
  LET control == Read(mem, TAC_ADDR)
      edge    == Enabled(control)
                 /\ IsSet(prev_div_value, InputBit(ClockSelect(control)))
  IN  /\ Count(edge, Read(mem, TIMA_ADDR), tima_overflow, overflow_cycles)
      /\ div_internal' = 0 /\ prev_div_value' = 0
      /\ tma' = Read(mem, TMA_ADDR) /\ tac' = control
      /\ mem' = WithRegisters(mem, 0, tima')

\* tac_updated returns before it reads anything if the timer stays disabled.
tac_updated(old, new) ==
  LET switched == /\ Enabled(new)
                  /\ ~Enabled(old) \/ ClockSelect(old) # ClockSelect(new)
      edge     == /\ switched
                  /\ IsSet(div_internal, InputBit(ClockSelect(old)))
                  /\ ~IsSet(div_internal, InputBit(ClockSelect(new)))
      disabled == Enabled(old) /\ ~Enabled(new)
  IN  /\ Enabled(old) \/ Enabled(new)
      /\ Count(edge, Read(mem, TIMA_ADDR), tima_overflow, overflow_cycles)
      /\ tma' = Read(mem, TMA_ADDR)
      /\ tac' = IF disabled \/ switched THEN new ELSE Read(mem, TAC_ADDR)
      /\ mem' = WithRegisters(mem, div_internal, tima')
      /\ UNCHANGED divVars

\* A store by the program, the CPU or the interrupt controller.
Store(a, values) ==
  /\ \E v \in values : mem' = Write(mem, a, v)
  /\ UNCHANGED timerVars

StoreDiv  == Store(DIV_ADDR, {0})     \* the next operation overwrites it
StoreTima == Store(TIMA_ADDR, TimaValues)
StoreTma  == Store(TMA_ADDR, TimaValues)
StoreTac  == Store(TAC_ADDR, TacValues)
StoreIf   == Store(IF_REG, IfValues)

Update == \E cycles \in CycleCounts : update(cycles)
TacUpdated == \E old, new \in TacValues : tac_updated(old, new)
Stores == StoreDiv \/ StoreTima \/ StoreTma \/ StoreTac \/ StoreIf

Next == initialize \/ Update \/ reset_div \/ TacUpdated \/ Stores

Spec == Init /\ [][Next]_vars

\* The run loops update the timer after every instruction, by the cycles it
\* took: four at least.
InstructionUpdate == \E cycles \in CycleCounts : cycles >= 4 /\ update(cycles)
FairSpec == Spec /\ WF_vars(InstructionUpdate)

-----------------------------------------------------------------------------
(* Properties. *)

Requested == Bit(Read(mem, IF_REG), TimerBit)

\* The fields keep their widths, and memory holds bytes.
TypeOK ==
  /\ div_internal \in Nat /\ div_internal < DivWrap
  /\ prev_div_value \in Nat /\ prev_div_value < DivWrap
  /\ tima \in Byte /\ tma \in Byte /\ tac \in Byte
  /\ tima_overflow \in BOOLEAN
  /\ overflow_cycles \in 0 .. 3
  /\ IsMemory(mem)

\* The delay counter runs only while an overflow waits, whatever mixture of
\* updates, divider resets and TAC changes came before: a stale count would
\* shorten the delay of the next overflow.
DelayOnlyWhilePending == ~tima_overflow => overflow_cycles = 0

\* An overflow is never lost: the timer stops waiting only by requesting the
\* interrupt, however often TAC, TIMA or the divider change in between.
\* (Re-initialising the machine drops it, as it drops everything.)
OverflowAnswered ==
  [][tima_overflow /\ ~tima_overflow' => Requested' \/ initialize]_vars

\* The timer never invents an interrupt: its operations raise bit 2 of IF
\* only if TIMA had overflowed in an EARLIER operation.
RequestsEarned ==
  [][~Requested /\ Requested' => tima_overflow \/ StoreIf]_vars

\* A waiting overflow is answered by the very next instruction, however often
\* its delay was restarted before: at most 3 of the 4 cycles are left, and
\* the shortest instruction takes 4.
AnsweredByNextInstruction ==
  [][tima_overflow /\ InstructionUpdate => Requested']_vars

\* A waiting overflow is answered by a reload, which may count on from TMA.
Reloaded == tima_overflow /\ Read(mem', TIMA_ADDR) >= Read(mem, TMA_ADDR)

\* TIMA is never left at zero by an overflow without the overflow being
\* remembered, the one that follows a reload within the same update included:
\* a TIMA that goes down was reloaded, stored, re-initialised or has overflowed
\* just now.
WrapRemembered ==
  [][Read(mem', TIMA_ADDR) < Read(mem, TIMA_ADDR)
       => \/ tima_overflow'
          \/ Reloaded
          \/ StoreTima
          \/ initialize]_vars

\* Every overflow is answered in the end, or dropped by a restart: no sequence
\* of TAC changes and further overflows, each of which restarts the delay,
\* holds the request back for ever.
OverflowEventuallyAnswered == tima_overflow ~> Requested \/ ~tima_overflow
=============================================================================
