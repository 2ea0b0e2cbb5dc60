------------------------------- MODULE GameBoy -------------------------------
(***************************************************************************)
(* The machine (system/gameboy.hpp): CPU, timer, interrupt controller and  *)
(* cartridge on the memory map that initialize_memory_map builds, the      *)
(* serial port, and the operations a front end calls.                      *)
(*                                                                         *)
(* An operation is the list of calls it still has to make, in the order it *)
(* makes them; the program is single-threaded, so the next operation       *)
(* starts when the list is empty.  MemoryMap's Regions are the machine's   *)
(* own, GameBoyRegions.  What an operation logs is left to Logger.         *)
(***************************************************************************)
EXTENDS MemoryMap, Cartridge

CONSTANTS DivWrap,     \* 2^width of the timer's divider: 2^16 in the code
          Files,       \* the files load_rom may be asked for
          Totals,      \* the cycles run_for_cycles is asked for
          CountWrap,   \* the width of its counter: 2^32 in the code
          TacValues,   \* the values handle_memory_write is called with
          Code,        \* bound: instructions start with the PC in here
          MaxSerial    \* bound: and this much serial data unread

ASSUME GameBoyAssumption ==
  /\ DivWrap \in {1024, 65536} /\ TacValues \subseteq Byte
  /\ MaxSerial \in Nat /\ CountWrap \in Nat \ {0}
  /\ \A n \in Totals : n \in Nat /\ n + 20 <= CountWrap
  /\ \A file \in Files : IsFile(file) /\ \A a \in DOMAIN file.bytes : InRom(a)

VARIABLES
  regs, ime, halted, stopped, cycles,               \* the CPU
  div_internal, prev_div_value, tima, tma, tac,
  tima_overflow, overflow_cycles,                   \* the timer
  if_, ie_,                                         \* the interrupt controller
  cartridge,           \* the ROM get_cartridge() returns
  mem, powered_on, serial_buffer,
  todo,                \* the calls the current operation still makes
  total, executed,     \* run_for_cycles: cycles asked for and executed
  elapsed              \* history: cycles since the divider was last zero

cpuVars == <<regs, ime, halted, stopped, cycles>>
timerVars == <<div_internal, prev_div_value, tima, tma, tac, tima_overflow,
               overflow_cycles>>
controllerVars == <<if_, ie_>>
loopVars == <<total, executed>>
vars == <<regs, ime, halted, stopped, cycles, div_internal, prev_div_value,
          tima, tma, tac, tima_overflow, overflow_cycles, if_, ie_, cartridge,
          mem, powered_on, serial_buffer, todo, total, executed, elapsed>>

(* The parts, with what is proved about them. *)

CPU == INSTANCE CpuProofs WITH
         Memories <- {}, IfValues <- {}, Limits <- {}, Stacks <- Word,
         limit <- 0, done <- 0

Clock == INSTANCE TimerProofs WITH
           TimaLast <- 255, CycleCounts <- {4, 8, 12, 16, 20},
           TimaValues <- {}, IfValues <- {}

Controller == INSTANCE InterruptProofs WITH
                Interrupts <- {}, IfValues <- {}, IeValues <- {},
                pending <- FALSE, vector <- 0

SB_ADDR == \hFF01
SC_ADDR == \hFF02

-----------------------------------------------------------------------------
(* The calls. *)

execute_instruction ==
  /\ CPU!execute_instruction
  /\ elapsed' = (elapsed + cycles') % DivWrap
  /\ UNCHANGED <<timerVars, controllerVars, powered_on, serial_buffer, loopVars>>

timer_update ==
  /\ Clock!update(cycles)
  /\ UNCHANGED <<cpuVars, controllerVars, powered_on, serial_buffer, loopVars,
                 elapsed>>

\* Bit 7 of SC asks for a transfer.
TransferAsked == Bit(Read(mem, SC_ADDR), 7)

handle_serial_transfer ==
  /\ serial_buffer' = IF TransferAsked THEN Append(serial_buffer, Read(mem, SB_ADDR))
                      ELSE serial_buffer
  /\ mem' = IF TransferAsked THEN Write(mem, SC_ADDR, ClearBit(Read(mem, SC_ADDR), 7))
            ELSE mem
  /\ UNCHANGED <<cpuVars, timerVars, controllerVars, powered_on, loopVars, elapsed>>

cpu_initialize ==
  /\ CPU!initialize
  /\ UNCHANGED <<timerVars, controllerVars, powered_on, serial_buffer, loopVars,
                 elapsed>>

controller_initialize ==
  /\ Controller!SetRegisters(\hE1, 0)
  /\ UNCHANGED <<cpuVars, timerVars, powered_on, serial_buffer, loopVars, elapsed>>

\* The last of a restart, which then sets powered_on_.  (reset also clears
\* the RAM members: the memory map holds copies of them.)
timer_initialize ==
  /\ Clock!initialize
  /\ powered_on' = TRUE /\ elapsed' = 0
  /\ UNCHANGED <<cpuVars, controllerVars, serial_buffer, loopVars>>

\* cycles_executed += cycle_count
Counted(count) == (count + cycles) % CountWrap

\* Faults: the timer is not updated in the loop; the CPU is not run in it.
TurnWithoutTimer == <<"execute_instruction", "count">>
TurnWithoutCpu == <<"timer_update", "count">>

Turn == <<"execute_instruction", "timer_update", "count">>

\* Fault: one more turn when the cycles come out even.
AgainOnEqual == Counted(executed) <= total

\* The end of one turn of run_for_cycles, which makes no serial transfers.
Again == Counted(executed) < total

count_cycles ==
  /\ executed' = IF Again THEN Counted(executed) ELSE 0
  /\ total' = IF Again THEN total ELSE 0
  /\ UNCHANGED <<cpuVars, timerVars, controllerVars, mem, powered_on,
                 serial_buffer, elapsed>>

\* The next call of the current operation.
Call ==
  /\ todo # <<>>
  /\ UNCHANGED cartridge
  /\ todo' = IF todo = <<"count">> THEN (IF Again THEN Turn ELSE <<>>) ELSE Tail(todo)
  /\ CASE Head(todo) = "execute_instruction" -> execute_instruction
       [] Head(todo) = "timer_update" -> timer_update
       [] Head(todo) = "handle_serial_transfer" -> handle_serial_transfer
       [] Head(todo) = "cpu_initialize" -> cpu_initialize
       [] Head(todo) = "controller_initialize" -> controller_initialize
       [] Head(todo) = "timer_initialize" -> timer_initialize
       [] Head(todo) = "count" -> count_cycles

-----------------------------------------------------------------------------
(* The operations. *)

Init ==
  /\ regs = [af |-> 0, bc |-> 0, de |-> 0, hl |-> 0, sp |-> 0, pc |-> 0]
  /\ ime = FALSE /\ halted = FALSE /\ stopped = FALSE /\ cycles = 0
  /\ div_internal = 0 /\ prev_div_value = 0
  /\ tima = 0 /\ tma = 0 /\ tac = 0
  /\ tima_overflow = FALSE /\ overflow_cycles = 0
  /\ if_ = 0 /\ ie_ = 0
  /\ \/ cartridge = NewRom               \* the two constructors
     \/ \E file \in Files : Succeeds(file) /\ cartridge = from_file(file)
  /\ mem = cartridge.bytes
  /\ powered_on = FALSE /\ serial_buffer = <<>>
  /\ todo = <<>> /\ total = 0 /\ executed = 0 /\ elapsed = 0

Idle == todo = <<>>

machine == <<cpuVars, timerVars, controllerVars, elapsed>>

\* Fault: the CPU is forgotten and goes on where it was.
RestartWithoutCpu == <<"controller_initialize", "timer_initialize">>

RestartCalls == <<"cpu_initialize", "controller_initialize", "timer_initialize">>

power_on ==
  /\ Idle /\ ~powered_on
  /\ todo' = RestartCalls
  /\ UNCHANGED <<machine, cartridge, mem, powered_on, serial_buffer, loopVars>>

reset ==
  /\ Idle
  /\ todo' = RestartCalls
  /\ UNCHANGED <<machine, cartridge, mem, powered_on, serial_buffer, loopVars>>

\* Fault: the new ROM covers the old one where it is longer.
Overlaid(bytes) ==
  [a \in DOMAIN mem \cup DOMAIN bytes |->
     IF a \in DOMAIN bytes THEN bytes[a] ELSE mem[a]]

\* The ROM is replaced whole; what was written to RAM stays.
Loaded(bytes) ==
  [a \in {x \in DOMAIN mem : ~InRom(x)} \cup DOMAIN bytes |->
     IF a \in DOMAIN bytes THEN bytes[a] ELSE mem[a]]

\* A load that fails does not restart the machine, although a file that opens
\* and cannot be read empties the cartridge.  (One that throws changes nothing.)
load_rom(file) ==
  /\ Idle /\ ~Throws(file)
  /\ cartridge' = load_from_file(cartridge, file)
  /\ mem' = Loaded(cartridge'.bytes)
  /\ todo' = IF Succeeds(file) THEN RestartCalls ELSE todo
  /\ UNCHANGED <<machine, powered_on, serial_buffer, loopVars>>

Bounded == regs.pc \in Code /\ Len(serial_buffer) < MaxSerial

StepCalls == <<"execute_instruction", "timer_update", "handle_serial_transfer">>

step ==
  /\ Idle /\ powered_on /\ Bounded
  /\ todo' = StepCalls
  /\ UNCHANGED <<machine, cartridge, mem, powered_on, serial_buffer, loopVars>>

\* run_frame calls it with 70224.
run_for_cycles(n) ==
  /\ Idle /\ powered_on /\ Bounded
  /\ n > 0
  /\ todo' = Turn /\ total' = n /\ executed' = 0
  /\ UNCHANGED <<machine, cartridge, mem, powered_on, serial_buffer>>

\* A public method that nothing calls: the program's own stores do not reach it.
handle_memory_write ==
  /\ Idle
  /\ \/ Clock!reset_div /\ elapsed' = 0
     \/ /\ \E value \in TacValues : Clock!tac_updated(Read(mem, Clock!TAC_ADDR), value)
        /\ UNCHANGED elapsed
  /\ UNCHANGED <<cpuVars, controllerVars, cartridge, powered_on, serial_buffer,
                 todo, loopVars>>

read_serial_data ==
  /\ Idle /\ serial_buffer # <<>>
  /\ serial_buffer' = Tail(serial_buffer)
  /\ UNCHANGED <<machine, cartridge, mem, powered_on, todo, loopVars>>

Operation ==
  \/ power_on \/ reset \/ (\E file \in Files : load_rom(file))
  \/ step \/ (\E n \in Totals : run_for_cycles(n))
  \/ handle_memory_write \/ read_serial_data

Next == Operation \/ Call

Spec == Init /\ [][Next]_vars

-----------------------------------------------------------------------------
(* Properties. *)

TypeOK ==
  /\ regs \in CPU!RegisterFile /\ cycles \in {0, 4, 8, 12, 16, 20}
  /\ Clock!TypeOK
  /\ if_ \in Byte /\ ie_ \in Byte
  /\ IsRom(cartridge)
  /\ powered_on \in BOOLEAN /\ serial_buffer \in Seq(Byte)
  /\ total \in Totals \cup {0} /\ executed \in Nat /\ elapsed \in Nat

\* Every cycle an instruction returns reaches the timer, once: between
\* operations the divider is four counts for each of the cycles since it was
\* last zero, through single steps, frames, restarts, loads and divider resets
\* in any order.  (That it counts four is how the timer takes what it is given,
\* DividerIsClock what its documentation says of it.)
DividerFollowsCpu == Idle => div_internal = (4 * elapsed) % DivWrap

\* The divider is a count of clock cycles ("CPU freq/256" is the rate of its
\* high byte), and clock cycles are what instructions return ("Cycles{4};
\* // 1 M-cycle"): between operations it is the number of them.
DividerIsClock == Idle => div_internal = elapsed % DivWrap

\* Whatever ran before, a restart ends in the one state a restart ends in: no
\* register of CPU, timer or interrupt controller, no delay in progress and no
\* halt survives it.  (The serial queue does, and is not part of them.)
StartRegisters ==
  [af |-> \h01B0, bc |-> \h0013, de |-> \h00D8, hl |-> \h014D, sp |-> \hFFFE,
   pc |-> \h0100]
CpuFresh == regs = StartRegisters /\ ~ime /\ ~halted /\ ~stopped
TimerFresh ==
  /\ div_internal = 0 /\ prev_div_value = 0 /\ tima = 0 /\ tma = 0 /\ tac = 0
  /\ ~tima_overflow /\ overflow_cycles = 0
Fresh == CpuFresh /\ TimerFresh /\ if_ = \hE1 /\ ie_ = 0 /\ powered_on

RestartIsFresh == [][todo = <<"timer_initialize">> /\ Idle' => Fresh']_vars

\* What an operation has left to do: calls to make and, in a run, cycles.
Work == total - executed + Len(todo)

\* Every operation ends, whatever it runs: each call leaves less to do, so that
\* a run of n cycles makes n + 3 calls at most.  (A run that counted anything
\* but the cycles of an instruction just executed could go on for ever.)
OperationsEnd == [][~Idle => Work' \in Nat /\ Work' < Work]_vars

\* The memory programs see is the cartridge loaded last and nothing else,
\* however loads failed and whatever was stored since: so the restart that
\* follows a load, or comes later, starts from the same memory each time.
MemoryIsCartridge == mem = cartridge.bytes

\* A cartridge long enough to have a header is described by its own, after
\* any sequence of loads that succeed, come too short or fail in the middle.
HeaderDescribes ==
  cartridge.size >= HeaderEnd => cartridge.header = parse_data(cartridge.bytes)

\* "Reset transfer flag to indicate completion": once a transfer was handled
\* none is asked for any more.
TransferCompletes ==
  [][Idle' /\ todo = <<"handle_serial_transfer">> => ~TransferAsked']_vars
=============================================================================
