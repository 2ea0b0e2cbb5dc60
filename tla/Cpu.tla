-------------------------------- MODULE Cpu --------------------------------
(***************************************************************************)
(* The CPU (cpu/cpu.hpp): one instruction or one interrupt dispatch per    *)
(* call, and run(), which repeats that until its cycles are used up.  The  *)
(* CPU looks at the interrupt registers only through memory, which the     *)
(* timer and the other devices write between its calls.                    *)
(***************************************************************************)
EXTENDS LoadReference

CONSTANTS Memories,    \* the memories the CPU may be constructed on
          IfValues,    \* what the devices leave in IF between calls
          Limits,      \* the cycles run() is asked for
          CountWrap,   \* the width of run()'s counter: 2^32 in the code
          Code,        \* bound: calls are made with the PC in here
          Stacks       \* bound: and with the SP in here

\* The largest cycle count an instruction returns.
Longest == 20

ASSUME LimitsAssumption ==
  /\ CountWrap \in Nat /\ Limits \subseteq Nat
  /\ \A n \in Limits : n + Longest <= CountWrap

ASSUME MemoriesAssumption ==
  (\A m \in Memories : IsMemory(m)) /\ IfValues \subseteq Byte

VARIABLES regs, ime, halted, stopped,
          mem,
          cycles,        \* what the last call returned
          limit, done    \* run(): cycles asked for and executed; 0 and 0 outside

flags == <<ime, halted, stopped>>
progress == <<limit, done>>
vars == <<regs, ime, halted, stopped, mem, cycles, limit, done>>

Running == done < limit

-----------------------------------------------------------------------------
(* Interrupts. *)

IF_ADDR == \hFF0F
IE_ADDR == \hFFFF

Requested == Bits(Read(mem, IF_ADDR))
Enabled == Bits(Read(mem, IE_ADDR))

\* interrupt_flag & interrupt_enable & 0x1F
Pending == {bit \in 0 .. 4 : bit \in Requested /\ bit \in Enabled}

\* Fault: the loop runs from bit 4 down.
LastSet(S) == CHOOSE bit \in S : \A other \in S : other <= bit

\* The bit at which the loop over the five bits stops.
FirstSet(S) == CHOOSE bit \in S : \A other \in S : bit <= other

interrupt_vectors ==
  [bit \in 0 .. 4 |-> CASE bit = 0 -> \h40 [] bit = 1 -> \h48 [] bit = 2 -> \h50
                        [] bit = 3 -> \h58 [] OTHER -> \h60]

\* The request is cleared first, then the PC is pushed, wherever SP points.
Dispatch(bit) ==
  LET sp == AsWord(regs.sp - 2)
      acknowledged == Write(mem, IF_ADDR, ClearBit(Read(mem, IF_ADDR), bit))
  IN  /\ ime' = FALSE
      /\ mem' = WriteWord(acknowledged, sp, regs.pc)
      /\ regs' = [regs EXCEPT !.sp = sp, !.pc = interrupt_vectors[bit]]
      /\ cycles' = 20

\* The public method: without IME it only ends a HALT.
handle_interrupts ==
  \/ /\ Pending = {} /\ cycles' = 0
     /\ UNCHANGED <<regs, ime, halted, stopped, mem>>
  \/ /\ Pending # {} /\ halted' = FALSE /\ UNCHANGED stopped
     /\ \/ ime /\ Dispatch(FirstSet(Pending))
        \/ ~ime /\ cycles' = 0 /\ UNCHANGED <<regs, ime, mem>>

-----------------------------------------------------------------------------
(* Instructions. *)

\* Fault: a CPU that waits takes no time.
NoCycles == 0

\* What a halted or stopped CPU returns.
WaitCycles == 4

Wait ==
  /\ halted \/ stopped
  /\ cycles' = WaitCycles
  /\ UNCHANGED <<regs, flags, mem>>

\* Fault: IME is not asked.
InterruptedAnyway == ~halted /\ ~stopped /\ Pending # {}

Interrupted == ~halted /\ ~stopped /\ ime /\ Pending # {}

Fetched == ~halted /\ ~stopped /\ ~(ime /\ Pending # {})

Instruction ==
  LET result == Execute(regs, mem)
  IN  /\ Fetched
      /\ regs' = result.regs /\ mem' = result.mem /\ cycles' = result.cycles
      /\ UNCHANGED flags

execute_instruction ==
  Wait \/ (Interrupted /\ handle_interrupts) \/ Instruction

-----------------------------------------------------------------------------
Init ==
  /\ regs = [af |-> 0, bc |-> 0, de |-> 0, hl |-> 0, sp |-> 0, pc |-> 0]
  /\ ime = FALSE /\ halted = FALSE /\ stopped = FALSE
  /\ mem \in Memories
  /\ cycles = 0 /\ limit = 0 /\ done = 0

initialize ==
  /\ regs' = [af |-> FlagsOnly(\h01B0), bc |-> \h0013, de |-> \h00D8,
              hl |-> \h014D, sp |-> \hFFFE, pc |-> \h0100]
  /\ ime' = FALSE /\ halted' = FALSE /\ stopped' = FALSE
  /\ UNCHANGED <<mem, cycles>>

Control(master, wait, stop) ==
  /\ ime' = master /\ halted' = wait /\ stopped' = stop
  /\ UNCHANGED <<regs, mem, cycles>>

enable_interrupts == Control(TRUE, halted, stopped)
disable_interrupts == Control(FALSE, halted, stopped)
halt_cpu == Control(ime, TRUE, stopped)
stop_cpu == Control(ime, halted, TRUE)

Bounded == regs.pc \in Code /\ regs.sp \in Stacks

\* The devices, between two calls.
Devices ==
  /\ \E v \in IfValues : mem' = Write(mem, IF_ADDR, v)
  /\ UNCHANGED <<regs, flags, cycles>>

Call ==
  /\ ~Running /\ UNCHANGED progress
  /\ \/ initialize
     \/ enable_interrupts \/ disable_interrupts \/ halt_cpu \/ stop_cpu
     \/ Devices
     \/ Bounded /\ (execute_instruction \/ handle_interrupts)

run(n) ==
  /\ ~Running /\ Bounded
  /\ limit' = n /\ done' = 0
  /\ UNCHANGED <<regs, flags, mem, cycles>>

\* One turn of run()'s loop; its variables are forgotten when it returns.
Turn ==
  /\ Running /\ execute_instruction
  /\ LET executed == (done + cycles') % CountWrap
     IN  IF executed < limit THEN done' = executed /\ UNCHANGED limit
         ELSE done' = 0 /\ limit' = 0

Next == Call \/ (\E n \in Limits : run(n)) \/ Turn

Spec == Init /\ [][Next]_vars

\* run() is a loop: the program does not stop in the middle of it.
FairSpec == Spec /\ WF_vars(Turn)

\* ... and the emulator's main loop keeps calling it.
LoopSpec == FairSpec /\ WF_vars(\E n \in Limits : run(n))

-----------------------------------------------------------------------------
(* Properties. *)

TypeOK ==
  /\ regs \in RegisterFile
  /\ ime \in BOOLEAN /\ halted \in BOOLEAN /\ stopped \in BOOLEAN
  /\ IsMemory(mem)
  /\ cycles \in {0, 4, 8, 12, 16, 20}
  /\ (limit = 0 /\ done = 0) \/ (limit \in Limits /\ done \in 0 .. limit - 1)

\* The four bits of F that do not exist stay clear, whatever is popped into
\* AF and whatever flags are set.
FlagsClean == regs.af % 16 = 0

\* Control goes nowhere else: a call leaves the program counter, or moves it
\* past the instruction by the length in the instruction table (handlers
\* have lengths of their own), or takes it to the vector of an interrupt that
\* was requested and enabled while IME was set, once per IME.
ControlFlow ==
  [][execute_instruction =>
       \/ (halted \/ stopped) /\ regs' = regs
       \/ /\ ~(ime /\ Requested \cap Enabled \cap (0 .. 4) # {})
          /\ regs'.pc = Plus(regs.pc, LengthOf(Opcode(regs, mem)))
       \/ /\ ime /\ ~ime'
          /\ \E i \in Requested \cap Enabled : regs'.pc = 64 + 8 * i]_vars

\* The stack is where a push meets memory and no interrupt register.
StackApart ==
  \A a \in {AsWord(regs.sp - 1), AsWord(regs.sp - 2)} :
    InRam(a) /\ a # IF_ADDR /\ a # IE_ADDR

Ideal ==
  INSTANCE IdealInterrupts WITH
    Sources <- 0 .. 4, requested <- Requested, enabled <- Enabled,
    vector <- regs.pc

\* The CPU's own dispatch, which never asks the interrupt controller, is the
\* acknowledgement the controller implements: of all that is requested and
\* enabled it clears the most urgent and jumps to its vector, and the
\* interrupted program counter is on top of the stack.
DispatchAcknowledges ==
  [][(execute_instruction /\ Interrupted /\ StackApart) =>
       Ideal!Acknowledge /\ Top(regs', mem') = regs.pc]_vars

\* Every load instruction moves what its opcode's bit fields say.
LoadsAsNamed ==
  [][Instruction => AsNamed(Opcode(regs, mem), regs, mem, regs', mem')]_vars

\* run() counts every cycle it executes, no call of it is free, and it goes on
\* until the first that completes what was asked: its 32-bit count never
\* wraps, and it never stops short, halted, stopped and interrupted CPUs
\* included.
RunAdvances ==
  [][Running => /\ cycles' >= 4
                /\ \/ Running' /\ limit' = limit /\ done' = done + cycles'
                   \/ ~Running' /\ done + cycles' >= limit]_vars

\* run() returns: every call costs cycles, halted and interrupted ones too.
RunEnds == Running ~> ~Running

\* A halted CPU goes on once an enabled interrupt is requested: "HALT stops
\* the CPU until an interrupt occurs".  (Bounded, so that the bound on the
\* program counter is not what holds it back.)
HaltEnds ==
  (Bounded /\ halted /\ ~stopped /\ Pending # {}) ~> (~halted \/ stopped)
=============================================================================
