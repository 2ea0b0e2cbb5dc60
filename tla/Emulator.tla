------------------------------ MODULE Emulator ------------------------------
(***************************************************************************)
(* The emulator program (cycle_perfect_gameboy_emu/main.cpp): load the     *)
(* file named on the command line, print what its header says, run the     *)
(* machine for a while and print its registers.                            *)
(*                                                                         *)
(* The program's own statements are steps between the machine's calls: a   *)
(* statement starts when the operation before it has made all its calls.   *)
(***************************************************************************)
EXTENDS GameBoy

VARIABLES
  arguments,    \* the command line after the program's name
  at,           \* the statement main is at
  status,       \* what main returned; 0 before
  shown         \* the numbers of the banner, once printed

mainVars == <<arguments, at, status, shown>>
machineVars == vars
emulatorVars == <<mainVars, machineVars>>

Statements ==
  {"load", "banner", "power", "demo", "registers", "returned", "terminated"}

demo_cycles == 1000

ASSUME EmulatorAssumption == demo_cycles \in Totals

-----------------------------------------------------------------------------
(* The banner. *)

(***************************************************************************)
(* base_rom_size_kb << code, in units of that base, 32 KB.  The result has *)
(* 32 bits, of which the base takes the lowest six.  From a code of 32 on  *)
(* the shift is undefined: machines use its low five bits, or give zero.   *)
(***************************************************************************)
Shifted(code) == IF code <= 26 THEN OneShifted(code) ELSE 0
SizesShown(code) == IF code < 32 THEN {Shifted(code)} ELSE {Shifted(code % 32), 0}

Numbers(header, size) ==
  [size |-> size, rom_banks |-> get_rom_banks(header),
   ram_banks |-> get_ram_banks(header), code |-> get_rom_size(header)]

NoNumbers == [size |-> 0, rom_banks |-> 0, ram_banks |-> 0, code |-> 0]

-----------------------------------------------------------------------------
(* The statements of main. *)

EmulatorInit ==
  /\ Init /\ cartridge = NewRom
  /\ arguments \in {<<>>} \cup {<<file>> : file \in Files}
  /\ at = "load" /\ status = 0 /\ shown = NoNumbers

\* Fault: a failure is not reported.
ReturnZero(code) == at' = "returned" /\ status' = 0

Return(code) == at' = "returned" /\ status' = code

usage ==
  /\ at = "load" /\ arguments = <<>>
  /\ Return(1)
  /\ UNCHANGED <<machineVars, arguments, shown>>

load ==
  /\ at = "load" /\ arguments # <<>>
  /\ load_rom(arguments[1])
  /\ \/ Succeeds(arguments[1]) /\ at' = "banner" /\ UNCHANGED status
     \/ ~Succeeds(arguments[1]) /\ Return(1)
  /\ UNCHANGED <<arguments, shown>>

\* Nothing catches what load_rom throws.
terminate ==
  /\ at = "load" /\ arguments # <<>> /\ Throws(arguments[1])
  /\ at' = "terminated"
  /\ UNCHANGED <<machineVars, arguments, status, shown>>

print_banner ==
  /\ at = "banner" /\ Idle
  /\ \E size \in SizesShown(get_rom_size(cartridge.header)) :
       shown' = Numbers(cartridge.header, size)
  /\ at' = "power"
  /\ UNCHANGED <<machineVars, arguments, status>>

\* load_rom has switched the machine on.
switch_on ==
  /\ at = "power"
  /\ at' = "demo"
  /\ IF powered_on THEN UNCHANGED machineVars ELSE power_on
  /\ UNCHANGED <<arguments, status, shown>>

run_demo ==
  /\ at = "demo"
  /\ run_for_cycles(demo_cycles)
  /\ at' = "registers"
  /\ UNCHANGED <<arguments, status, shown>>

print_registers ==
  /\ at = "registers" /\ Idle
  /\ Return(0)
  /\ UNCHANGED <<machineVars, arguments, shown>>

EmulatorNext ==
  \/ usage \/ load \/ terminate
  \/ print_banner \/ switch_on \/ run_demo \/ print_registers
  \/ Call /\ UNCHANGED mainVars

EmulatorSpec == EmulatorInit /\ [][EmulatorNext]_emulatorVars

\* One thread, and nothing it waits for: it goes on while it can.
FairSpec == EmulatorSpec /\ WF_emulatorVars(EmulatorNext)

-----------------------------------------------------------------------------
(* Properties. *)

Succeeded == at = "returned" /\ status = 0

EmulatorTypeOK ==
  /\ at \in Statements /\ status \in {0, 1}
  /\ at = "registers" \/ Succeeded => powered_on /\ Len(arguments) = 1
  /\ shown \in [size : Nat, rom_banks : Nat, ram_banks : Nat, code : Byte]

\* Whatever the file holds, the program ends.
EmulatorEnds == <>(at \in {"returned", "terminated"})

\* main goes forward, or waits for an operation that has less left to do: what
\* EmulatorEnds rests on, and a bound on the steps the program can make.
Position(statement) ==
  CASE statement = "load" -> 0 [] statement = "banner" -> 1
    [] statement = "power" -> 2 [] statement = "demo" -> 3
    [] statement = "registers" -> 4 [] OTHER -> 5

MainAdvances ==
  [][Position(at') > Position(at) \/ (at' = at /\ Work' \in Nat /\ Work' < Work)]_emulatorVars

\* It succeeds when the demonstration has run its cycles, and not an
\* instruction later.
DemoStopsInTime ==
  Succeeded => elapsed >= demo_cycles /\ elapsed - cycles < demo_cycles

\* What the demonstration makes of an image, by repeated Execute: the state
\* after one instruction, unless the cycles are complete, and after[k] that
\* after 2^k of them.  Of four cycles at least each, 2^8 complete the cycles.
Doublings == 8
States == [regs : CPU!RegisterFile, cycles : Nat]
Started == [regs |-> StartRegisters, cycles |-> 0]
Executed(state, image) ==
  LET result == CPU!Execute(state.regs, image)
  IN  IF state.cycles >= demo_cycles THEN state
      ELSE [regs |-> result.regs, cycles |-> state.cycles + result.cycles]
Computed(image) ==
  LET after[k \in 0 .. Doublings] ==
        [state \in States |-> IF k = 0 THEN Executed(state, image)
                              ELSE after[k - 1][after[k - 1][state]]]
  IN  after[Doublings][Started]

\* The registers the program prints are what the instructions of the file come
\* to, from the start registers on: nothing is left of how the file was loaded,
\* of restarts, of stores, of the timer or its requests, and no instruction is
\* left out, run twice or run too many.
RegistersAreComputed ==
  at = "registers" /\ Idle =>
    regs = Computed(arguments[1].bytes).regs

\* For every size code the header documents, the banner's size and its number
\* of 16 KB banks, which come from a shift and from a table, are the same.
BannerAgrees == at = "power" /\ shown.code <= 8 => shown.rom_banks = 2 * shown.size

\* The header checksum does what it is for: of a valid header no byte can be
\* changed, the checksum included, without the check failing.
ChecksumGuards ==
  at = "banner" /\ validate_header_checksum(cartridge.header) =>
    \A i \in \h34 .. \h4D : \A b \in 0 .. 255 :
      b # cartridge.header[i]
        => ~validate_header_checksum([cartridge.header EXCEPT ![i] = b])
=============================================================================
