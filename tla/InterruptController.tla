------------------------ MODULE InterruptController ------------------------
(***************************************************************************)
(* The interrupt controller (system/interrupt_controller.hpp): requests    *)
(* in IF, enables in IE.  It keeps copies of both registers and writes     *)
(* both back, so an operation that did not refresh its copies first would  *)
(* undo what the timer, the CPU or the program stored meanwhile.           *)
(***************************************************************************)
EXTENDS MemoryMap

CONSTANTS Interrupts,   \* the bits callers pass to the operations
          IfValues,     \* what the rest of the system stores into IF
          IeValues      \* what the rest of the system stores into IE

ASSUME InputsAssumption ==
  /\ Interrupts \subseteq 0 .. 7
  /\ IfValues \subseteq Byte /\ IeValues \subseteq Byte

VARIABLES if_, ie_,     \* the private copies of the registers
          pending,      \* what interrupts_pending() returned last
          vector,       \* what get_interrupt_vector() returned last
          mem

answers == <<pending, vector>>
vars == <<if_, ie_, pending, vector, mem>>

IF_ADDR == \hFF0F
IE_ADDR == \hFFFF

Sources == 0 .. 4       \* VBLANK, LCD_STAT, TIMER, SERIAL, JOYPAD

VectorOf ==
  [i \in Sources |-> CASE i = 0 -> \h40 [] i = 1 -> \h48 [] i = 2 -> \h50
                       [] i = 3 -> \h58 [] OTHER -> \h60]

\* Fault: the copy is used, not the register.
IF_copy == if_

\* read_registers
IF_now == Read(mem, IF_ADDR)
IE_now == Read(mem, IE_ADDR)

\* The interrupts both requested and enabled: if_ & ie_ & 0x1F.
Pending(flags, enables) == Bits(flags) \cap Bits(enables) \cap Sources

\* Fault: the tests in the opposite order.
Lowest(S) == CHOOSE i \in S : \A j \in S : j <= i

\* The order of the tests in get_interrupt_vector.
Highest(S) == CHOOSE i \in S : \A j \in S : i <= j

\* The copies after an operation, and write_registers.
SetRegisters(flags, enables) ==
  /\ if_' = flags /\ ie_' = enables
  /\ mem' = Write(Write(mem, IF_ADDR, flags), IE_ADDR, enables)

-----------------------------------------------------------------------------
Init ==
  /\ if_ = 0 /\ ie_ = 0
  /\ pending = FALSE /\ vector = 0
  /\ mem = NoMemory

initialize == SetRegisters(\hE1, 0) /\ UNCHANGED answers

request_interrupt(i) == SetRegisters(SetBit(IF_now, i), IE_now) /\ UNCHANGED answers
clear_interrupt(i) == SetRegisters(ClearBit(IF_now, i), IE_now) /\ UNCHANGED answers
enable_interrupt(i) == SetRegisters(IF_now, SetBit(IE_now, i)) /\ UNCHANGED answers
disable_interrupt(i) == SetRegisters(IF_now, ClearBit(IE_now, i)) /\ UNCHANGED answers

interrupts_pending ==
  /\ if_' = IF_now /\ ie_' = IE_now
  /\ pending' = (Pending(IF_now, IE_now) # {})
  /\ UNCHANGED <<vector, mem>>

\* With nothing pending the registers are read and not written back.
get_interrupt_vector ==
  LET candidates == Pending(IF_now, IE_now)
  IN  /\ \/ /\ candidates = {}
            /\ if_' = IF_now /\ ie_' = IE_now /\ vector' = 0
            /\ UNCHANGED mem
         \/ /\ candidates # {}
            /\ SetRegisters(ClearBit(IF_now, Highest(candidates)), IE_now)
            /\ vector' = VectorOf[Highest(candidates)]
      /\ UNCHANGED pending

\* The timer, the CPU and the program store into the registers.
Store(a, values) ==
  /\ \E v \in values : mem' = Write(mem, a, v)
  /\ UNCHANGED <<if_, ie_, pending, vector>>

StoreIf == Store(IF_ADDR, IfValues)
StoreIe == Store(IE_ADDR, IeValues)

Operation(i) ==
  \/ request_interrupt(i) \/ clear_interrupt(i)
  \/ enable_interrupt(i) \/ disable_interrupt(i)

Next ==
  \/ initialize
  \/ \E i \in Interrupts : Operation(i)
  \/ interrupts_pending \/ get_interrupt_vector
  \/ StoreIf \/ StoreIe

Spec == Init /\ [][Next]_vars

-----------------------------------------------------------------------------
(* Properties. *)

Requested == Bits(Read(mem, IF_ADDR))
Enabled == Bits(Read(mem, IE_ADDR))

TypeOK ==
  /\ if_ \in Byte /\ ie_ \in Byte
  /\ pending \in BOOLEAN
  /\ vector \in {0, 64, 72, 80, 88, 96}
  /\ IsMemory(mem)

\* A request made by anyone survives every operation on another interrupt:
\* only clearing it, acknowledging it, storing into IF or a restart drops it,
\* whatever was stored between the operations, which all write back both
\* registers whole.
RequestsKept ==
  [][\A i \in Requested :
       \/ i \in Requested'
       \/ clear_interrupt(i)
       \/ get_interrupt_vector /\ i \in Sources /\ vector' = VectorOf[i]
       \/ StoreIf
       \/ initialize]_vars

\* On registers that are real memory the controller is a set of requests and
\* a set of enables, and acknowledges the most urgent of both.
Ideal ==
  INSTANCE IdealInterrupts WITH
    requested <- Requested, enabled <- Enabled

BehavesAsSets == Ideal!Spec
=============================================================================
