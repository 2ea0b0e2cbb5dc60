--------------------------- MODULE EmulatorProofs ---------------------------
(* The program goes forward, stops its demonstration at the first            *)
(* instruction that reaches the cycles asked for, and prints the registers   *)
(* its file computes; and what the recursions of the header checksum and of  *)
(* the computation come to.                                                  *)
EXTENDS Emulator, GameBoyProofs, WellFoundedInduction

-----------------------------------------------------------------------------
(* The machine under the program. *)

Arguments == arguments = <<>> \/ \E file \in Files : arguments = <<file>>

LEMMA FileAsked ==
  ASSUME Arguments, arguments # <<>>
  PROVE  arguments[1] \in Files /\ Len(arguments) = 1
BY DEF Arguments

LEMMA StepOfTheMachine ==
  ASSUME Arguments, [EmulatorNext]_emulatorVars
  PROVE  [Next]_vars /\ Arguments'
<1>1. CASE usage \/ terminate \/ print_banner \/ print_registers
  BY <1>1 DEF usage, terminate, print_banner, print_registers, machineVars, Arguments
<1>2. CASE load
  BY <1>2, FileAsked DEF load, Next, Operation, Arguments
<1>3. CASE switch_on
  BY <1>3 DEF switch_on, machineVars, Next, Operation, Arguments
<1>4. CASE run_demo
  BY <1>4, EmulatorAssumption DEF run_demo, Next, Operation, Arguments
<1>5. CASE Call /\ UNCHANGED mainVars
  BY <1>5 DEF Next, mainVars, Arguments
<1>6. CASE UNCHANGED emulatorVars
  BY <1>6 DEF emulatorVars, machineVars, mainVars, Arguments
<1> QED
  BY <1>1, <1>2, <1>3, <1>4, <1>5, <1>6 DEF EmulatorNext

LEMMA ArgumentsKept == EmulatorSpec => []Arguments
<1>1. EmulatorInit => Arguments
  BY DEF EmulatorInit, Arguments
<1> QED
  BY <1>1, StepOfTheMachine, PTL DEF EmulatorSpec

\* What is proved of the machine holds of the program.
LEMMA ProgramUsesTheMachine == EmulatorSpec => Spec
<1>1. EmulatorInit => Init
  BY DEF EmulatorInit
<1> QED
  BY <1>1, ArgumentsKept, StepOfTheMachine, PTL DEF EmulatorSpec, Spec

\* On the map the code builds the program is, for as long as it runs, the
\* interpreter of the cartridge it has loaded.
THEOREM ProgramInterprets ==
  ASSUME Regions = GameBoyRegions
  PROVE  EmulatorSpec => InterpretsCartridge
<1>1. Spec => InterpretsCartridge
  BY MachineInterprets
<1> QED
  BY <1>1, ProgramUsesTheMachine, PTL

\* Every step of the program is a step towards its end: the next statement, or
\* a call of an operation that has fewer left.
THEOREM MainGoesForward == EmulatorSpec => MainAdvances
<1>1. ASSUME IInv, Looping, Arguments, EmulatorNext
      PROVE  Position(at') > Position(at) \/ (at' = at /\ Work' \in Nat /\ Work' < Work)
  <2>1. CASE usage \/ load \/ terminate
    BY <2>1 DEF usage, load, terminate, Return, Position
  <2>2. CASE print_banner \/ switch_on \/ run_demo \/ print_registers
    BY <2>2 DEF print_banner, switch_on, run_demo, print_registers, Return, Position
  <2>3. CASE Call /\ UNCHANGED mainVars
    BY <1>1, <2>3, RunCallLoops, OtherCallLoops DEF mainVars
  <2> QED
    BY <1>1, <2>1, <2>2, <2>3 DEF EmulatorNext
<1>2. EmulatorSpec => [](IInv /\ Looping /\ Arguments)
  BY ProgramUsesTheMachine, InvHolds, LoopingHolds, ArgumentsKept, PTL
<1>3. IInv /\ Looping /\ Arguments /\ [EmulatorNext]_emulatorVars
        => [Position(at') > Position(at)
            \/ (at' = at /\ Work' \in Nat /\ Work' < Work)]_emulatorVars
  BY <1>1
<1> QED
  BY <1>2, <1>3, PTL DEF EmulatorSpec, MainAdvances

-----------------------------------------------------------------------------
(* Induction over the naturals. *)

\* A set of naturals has a least element, so a set that has 0 and with each
\* number the next is all of them.
LEMMA Least ==
  ASSUME NEW T \in SUBSET Nat, T # {}
  PROVE  \E x \in T : \A y \in T : x <= y
<1> DEFINE R == OpToRel(<, Nat)
<1>1. IsWellFoundedOn(R, Nat)
  BY NatLessThanWellFounded
<1>2. \A x, y \in Nat : <<y, x>> \in R <=> y < x
  BY DEF OpToRel
<1> HIDE DEF R
<1>3. \E x \in T : \A y \in T : ~(<<y, x>> \in R)
  <2>1. T \subseteq Nat OBVIOUS
  <2> QED BY ONLY <1>1, <2>1, T # {}, WFMin, Zenon
<1>4. PICK x \in T : \A y \in T : ~(<<y, x>> \in R)
  BY ONLY <1>3
<1>5. \A y \in T : ~(y < x)
  <2>1. T \subseteq Nat OBVIOUS
  <2> QED BY ONLY <1>2, <1>4, <2>1, Zenon
<1>6. T \subseteq Nat OBVIOUS
<1> QED
  BY ONLY <1>5, <1>6, <1>4

LEMMA NatInduct ==
  ASSUME NEW T \in SUBSET Nat, 0 \in T, \A n \in T : n + 1 \in T
  PROVE  T = Nat
<1>1. SUFFICES ASSUME Nat \ T # {} PROVE FALSE
  OBVIOUS
<1>2. PICK x \in Nat \ T : \A y \in Nat \ T : x <= y
  BY <1>1, Least
<1>3. x # 0 /\ x - 1 \in Nat /\ x - 1 \in T
  BY <1>2
<1> QED BY <1>3, <1>2

-----------------------------------------------------------------------------
(* The demonstration. *)

\* The cycles the CPU has executed, one instruction at most beyond those asked.
InTime == elapsed >= demo_cycles /\ elapsed - cycles < demo_cycles

\* The elapsed cycles are those counted, plus an instruction not counted yet.
Counting ==
  /\ total = demo_cycles /\ executed < demo_cycles
  /\ \/ todo = Turn /\ elapsed = executed
     \/ /\ todo \in {RunUpdate, Count} /\ cycles \in {4, 8, 12, 16, 20}
        /\ elapsed = executed + cycles

\* What the machine is doing at each statement of main.
AtStatement ==
  /\ at \in {"load", "terminated"} => todo = <<>> /\ status = 0
  /\ at = "banner" => /\ todo \in {RestartCalls, ControllerNext, TimerNext, <<>>}
                      /\ status = 0 /\ (todo = <<>> => powered_on /\ elapsed = 0)
  /\ at \in {"power", "demo"} => todo = <<>> /\ status = 0 /\ powered_on /\ elapsed = 0
  /\ at = "registers" => /\ status = 0 /\ powered_on
                         /\ Counting \/ (todo = <<>> /\ InTime)
  /\ at = "returned" => /\ todo = <<>>
                        /\ \/ status = 1
                           \/ status = 0 /\ powered_on /\ InTime

Program ==
  /\ at \in Statements /\ AtStatement
  /\ at \notin {"load", "returned", "terminated"} \/ Succeeded => Len(arguments) = 1

LEMMA RunLists ==
  /\ Tail(Turn) = RunUpdate /\ Tail(RunUpdate) = Count
  /\ RunUpdate \in Updates /\ RunUpdate # Count /\ RunUpdate # <<>>
  /\ Turn # RunUpdate /\ RunUpdate \notin {RestartCalls, ControllerNext, TimerNext}
BY DEF Turn, RunUpdate, Count, Updates, RestartCalls, ControllerNext, TimerNext

LEMMA ListsDistinct ==
  /\ Turn \notin {<<>>, StepCalls, Serial, Count, RestartCalls, ControllerNext, TimerNext}
  /\ Count \notin {<<>>, Serial, RestartCalls, ControllerNext, TimerNext}
  /\ RestartCalls \notin {<<>>, StepCalls, Serial}
  /\ TimerNext \notin {ControllerNext, RestartCalls, <<>>, StepCalls, Serial}
  /\ ControllerNext \notin {RestartCalls, <<>>, StepCalls, Serial}
BY DEF Turn, Count, Serial, StepCalls, RestartCalls, ControllerNext, TimerNext

\* The counts are far from both widths.
LEMMA NoWrap ==
  ASSUME NEW e \in Nat, e < demo_cycles, NEW c \in {4, 8, 12, 16, 20}
  PROVE  (e + c) % DivWrap = e + c /\ (e + c) % CountWrap = e + c
<1>1. e + c \in Nat /\ e + c < 1020
  BY DEF demo_cycles
<1>2. CountWrap \in Nat /\ 1020 <= CountWrap
  BY EmulatorAssumption, GameBoyAssumption DEF demo_cycles
<1>3. (e + c) % CountWrap = e + c
  <2>1. \A n, d \in Nat : n < d => n % d = n
    OBVIOUS
  <2>2. e + c < CountWrap
    BY <1>1, <1>2
  <2> QED
    BY <1>1, <1>2, <2>1, <2>2
<1>4. (e + c) % DivWrap = e + c
  <2>1. CASE DivWrap = 1024
    BY <1>1, <2>1
  <2>2. CASE DivWrap = 65536
    BY <1>1, <2>2
  <2> QED
    BY <2>1, <2>2, GameBoyAssumption
<1> QED
  BY <1>3, <1>4

\* Calls of a restart leave the machine on with the divider at zero.
LEMMA RestartCall ==
  ASSUME IInv, Call, todo \in {RestartCalls, ControllerNext, TimerNext}
  PROVE  /\ todo' \in {ControllerNext, TimerNext, <<>>}
         /\ todo' = <<>> => powered_on' /\ elapsed' = 0
<1>1. \/ todo = RestartCalls /\ todo' = ControllerNext
      \/ todo = ControllerNext /\ todo' = TimerNext
      \/ todo = TimerNext /\ timer_initialize /\ todo' = <<>>
  BY Calls, ListsDiffer, ListsDistinct DEF IInv
<1> QED
  BY <1>1, ListsDistinct DEF timer_initialize

\* Calls of the run go on counting, or have counted enough.
LEMMA RunCall ==
  ASSUME IInv, Call, Counting
  PROVE  Counting' \/ (todo' = <<>> /\ InTime')
<1>1. /\ total = demo_cycles /\ executed < demo_cycles /\ executed \in Nat
      /\ elapsed \in Nat
  BY DEF Counting, IInv, FrontEnd, Pace
<1>2. CASE todo = Turn
  <2>1. execute_instruction /\ todo' = RunUpdate
    BY <1>2, Calls, ListsDiffer, ListsDistinct, RunLists DEF IInv, Call, Count
  <2>2. cycles' \in {4, 8, 12, 16, 20}
    BY <2>1, ExecuteKeeps DEF IInv
  <2>3. elapsed = executed
    BY <1>2, RunLists, ListsDistinct DEF Counting
  <2>4. elapsed' = (executed + cycles') % DivWrap /\ UNCHANGED <<total, executed>>
    BY <2>1, <2>3 DEF execute_instruction, loopVars
  <2> DEFINE c == cycles'
  <2> HIDE DEF c
  <2>5. elapsed' = executed + c
    BY <1>1, <2>2, <2>4, NoWrap DEF c
  <2> QED
    BY <1>1, <2>1, <2>2, <2>4, <2>5 DEF Counting, c
<1>3. CASE todo = RunUpdate
  <2>1. timer_update /\ todo' = Count
    BY <1>3, Calls, ListsDiffer, RunLists DEF IInv, Call, Count
  <2>2. cycles' = cycles /\ UNCHANGED <<total, executed, elapsed>>
    BY <2>1 DEF timer_update, cpuVars, loopVars
  <2> QED
    BY <1>3, <2>1, <2>2, RunLists DEF Counting
<1>4. CASE todo = Count
  <2>1. count_cycles /\ todo' = IF Again THEN Turn ELSE <<>>
    BY <1>4, Calls, ListsDiffer, ListsDistinct, RunLists DEF IInv, Call, Count
  <2>2. cycles \in {4, 8, 12, 16, 20} /\ elapsed = executed + cycles
    BY <1>4, RunLists, ListsDistinct DEF Counting
  <2>3. Counted(executed) = executed + cycles
    BY <1>1, <2>2, NoWrap DEF Counted
  <2>4. cycles' = cycles /\ elapsed' = elapsed
    BY <2>1 DEF count_cycles, cpuVars
  <2>5. CASE Again
    BY <1>1, <2>1, <2>2, <2>3, <2>4, <2>5 DEF Counting, count_cycles, Again
  <2>6. CASE ~Again
    BY <1>1, <2>1, <2>2, <2>3, <2>4, <2>6 DEF InTime, Again, demo_cycles
  <2> QED
    BY <2>5, <2>6
<1> QED
  BY <1>2, <1>3, <1>4 DEF Counting

-----------------------------------------------------------------------------
(* The statements. *)

EInv == IInv /\ Arguments /\ Program

LEMMA StatementKeeps ==
  ASSUME EInv, [EmulatorNext]_emulatorVars
  PROVE  Program'
<1>1. /\ at \in Statements /\ AtStatement
      /\ at \notin {"load", "returned", "terminated"} \/ Succeeded => Len(arguments) = 1
  BY DEF EInv, Program
<1>2. CASE usage
  <2>1. at = "load" /\ at' = "returned" /\ status' = 1 /\ todo' = todo
    BY <1>2 DEF usage, Return, machineVars, vars
  <2> QED
    BY <1>1, <2>1 DEF Program, AtStatement, Statements, Succeeded
<1>3. CASE load
  <2>1. at = "load" /\ todo = <<>> /\ status = 0 /\ arguments' = arguments
    BY <1>1, <1>3 DEF load, AtStatement
  <2>2. Len(arguments) = 1
    BY <1>3, FileAsked DEF load, EInv
  <2>3. \/ at' = "banner" /\ status' = 0 /\ todo' = RestartCalls
        \/ at' = "returned" /\ status' = 1 /\ todo' = <<>>
    BY <1>3, <2>1 DEF load, load_rom, Return
  <2> QED
    BY <2>1, <2>2, <2>3, ListsDistinct DEF Program, AtStatement, Statements, Succeeded
<1>4. CASE terminate
  <2>1. /\ at = "load" /\ at' = "terminated"
        /\ todo' = todo /\ status' = status
    BY <1>4 DEF terminate, machineVars, vars
  <2> QED
    BY <1>1, <2>1 DEF Program, AtStatement, Statements, Succeeded
<1>5. CASE print_banner
  <2>1. /\ at = "banner" /\ todo = <<>> /\ at' = "power"
        /\ UNCHANGED <<todo, status, powered_on, elapsed, arguments>>
    BY <1>5 DEF print_banner, Idle, machineVars, vars
  <2> QED
    BY <1>1, <2>1 DEF Program, AtStatement, Statements, Succeeded
<1>6. CASE switch_on
  <2>1. at = "power" /\ powered_on
    BY <1>1, <1>6 DEF switch_on, AtStatement
  <2>2. /\ at' = "demo"
        /\ UNCHANGED <<todo, status, powered_on, elapsed, arguments>>
    BY <1>6, <2>1 DEF switch_on, machineVars, vars
  <2> QED
    BY <1>1, <2>1, <2>2 DEF Program, AtStatement, Statements, Succeeded
<1>7. CASE run_demo
  <2>1. /\ at = "demo" /\ at' = "registers" /\ UNCHANGED <<status, arguments>>
        /\ todo' = Turn /\ total' = demo_cycles /\ executed' = 0
        /\ UNCHANGED <<powered_on, elapsed>>
    BY <1>7 DEF run_demo, run_for_cycles, machine
  <2>2. status = 0 /\ powered_on /\ elapsed = 0
    BY <1>1, <2>1 DEF AtStatement
  <2>3. Counting'
    BY <2>1, <2>2 DEF Counting, demo_cycles
  <2> QED
    BY <1>1, <2>1, <2>2, <2>3 DEF Program, AtStatement, Statements, Succeeded
<1>8. CASE print_registers
  <2>1. /\ at = "registers" /\ todo = <<>> /\ at' = "returned" /\ status' = 0
        /\ UNCHANGED <<todo, powered_on, elapsed, cycles, arguments>>
    BY <1>8 DEF print_registers, Return, Idle, machineVars, vars
  <2>2. powered_on /\ InTime
    BY <1>1, <2>1, ListsDistinct, RunLists DEF AtStatement, Counting
  <2> QED
    BY <1>1, <2>1, <2>2 DEF Program, AtStatement, Statements, Succeeded, InTime
<1>9. CASE Call /\ UNCHANGED mainVars
  <2>1. UNCHANGED <<at, status, arguments>> /\ todo # <<>> /\ IInv
    BY <1>9 DEF mainVars, Call, EInv
  <2>2. CASE at = "banner"
    <3>1. todo \in {RestartCalls, ControllerNext, TimerNext} /\ status = 0
      BY <1>1, <2>1, <2>2 DEF AtStatement
    <3> QED
      BY <1>1, <1>9, <2>1, <2>2, <3>1, RestartCall
         DEF Program, AtStatement, Statements, Succeeded
  <2>3. CASE at = "registers"
    <3>1. Counting /\ status = 0 /\ powered_on
      BY <1>1, <2>1, <2>3 DEF AtStatement
    <3>2. Counting' \/ (todo' = <<>> /\ InTime')
      BY <1>9, <2>1, <3>1, RunCall
    <3>3. powered_on'
      <4>1. todo \in {Turn, RunUpdate, Count}
        BY <3>1 DEF Counting
      <4>2. execute_instruction \/ timer_update \/ count_cycles
        BY <1>9, <2>1, <4>1, Calls, ListsDiffer, ListsDistinct, RunLists DEF IInv
      <4> QED
        BY <3>1, <4>2 DEF execute_instruction, timer_update, count_cycles
    <3> QED
      BY <1>1, <2>1, <2>3, <3>1, <3>2, <3>3 DEF Program, AtStatement, Statements, Succeeded
  <2> QED
    BY <1>1, <2>1, <2>2, <2>3 DEF AtStatement, Statements
<1>10. CASE UNCHANGED emulatorVars
  <2>1. UNCHANGED <<at, status, arguments, todo, total, executed, elapsed, cycles,
                    powered_on>>
    BY <1>10 DEF emulatorVars, mainVars, machineVars, vars
  <2> QED
    BY <1>1, <2>1 DEF Program, AtStatement, Succeeded, Counting, InTime
<1> QED
  BY <1>2, <1>3, <1>4, <1>5, <1>6, <1>7, <1>8, <1>9, <1>10 DEF EmulatorNext

LEMMA EInvHolds == EmulatorSpec => []EInv
<1>1. EmulatorInit => EInv
  <2> SUFFICES ASSUME EmulatorInit PROVE EInv
    OBVIOUS
  <2>1. IInv
    BY InitInv DEF EmulatorInit
  <2>2. at = "load" /\ todo = <<>> /\ status = 0
    BY DEF EmulatorInit, Init
  <2>3. Program
    BY <2>2 DEF Program, AtStatement, Statements, Succeeded
  <2> QED
    BY <2>1, <2>3 DEF EInv, EmulatorInit, Arguments
<1>2. EInv /\ [EmulatorNext]_emulatorVars => EInv'
  BY StepOfTheMachine, StatementKeeps, NextInv DEF EInv
<1> QED
  BY <1>1, <1>2, PTL DEF EmulatorSpec

\* A program that succeeds has run the cycles of its demonstration, and no
\* instruction more.
THEOREM DemoIsInTime == EmulatorSpec => []DemoStopsInTime
<1>1. EInv => DemoStopsInTime
  BY DEF EInv, Program, AtStatement, Succeeded, InTime, DemoStopsInTime
<1> QED
  BY <1>1, EInvHolds, PTL

-----------------------------------------------------------------------------
(* The banner. *)

LEMMA ShiftedType ==
  ASSUME NEW code \in Byte
  PROVE  Shifted(code) \in Nat
<1>1. CASE code <= 26
  <2>1. code % 8 \in 0 .. 7 /\ code \div 8 \in 0 .. 3
    BY <1>1 DEF Byte
  <2>2. BitValue[code % 8] \in Nat
    BY <2>1, BitValueType
  <2>3. ByteValue[code \div 8] \in Nat
    BY <2>1 DEF ByteValue
  <2>4. \A m, n \in Nat : m * n \in Nat
    OBVIOUS
  <2> QED
    BY <1>1, <2>2, <2>3, <2>4, Zenon DEF Shifted, OneShifted
<1>2. CASE ~(code <= 26)
  BY <1>2 DEF Shifted
<1> QED
  BY <1>1, <1>2

LEMMA SizesType ==
  ASSUME NEW code \in Byte
  PROVE  SizesShown(code) \subseteq Nat
<1>1. code % 32 \in Byte
  BY DEF Byte
<1> QED
  BY <1>1, ShiftedType DEF SizesShown

\* The shift and the table agree on the documented codes.
LEMMA TableIsShift ==
  ASSUME NEW code \in 0 .. 8
  PROVE  SizesShown(code) = {Shifted(code)} /\ RomBanks[code] = 2 * Shifted(code)
<1>1. code = 0 \/ code = 1 \/ code = 2 \/ code = 3 \/ code = 4 \/ code = 5
      \/ code = 6 \/ code = 7 \/ code = 8
  OBVIOUS
<1>2. ByteValue[0] = 1 /\ ByteValue[1] = 256
  BY DEF ByteValue
<1>3. Shifted(code) = OneShifted(code)
  BY DEF Shifted
<1>4. CASE code = 8
  <2>1. OneShifted(8) = BitValue[0] * ByteValue[1]
    BY DEF OneShifted
  <2> QED
    BY <1>2, <1>3, <1>4, <2>1, BitValueCases DEF RomBanks, SizesShown
<1>5. CASE code # 8
  <2>1. OneShifted(code) = BitValue[code] * ByteValue[0]
    BY <1>1, <1>5 DEF OneShifted
  <2>2. OneShifted(code) = BitValue[code]
    BY <1>1, <1>2, <1>5, <2>1, BitValueType
  <2> QED
    BY <1>1, <1>3, <1>5, <2>2, BitValueCases DEF RomBanks, SizesShown
<1> QED
  BY <1>4, <1>5

LEMMA NumbersType ==
  ASSUME NEW header \in [HeaderOffsets -> Byte], NEW size \in Nat
  PROVE  Numbers(header, size) \in
           [size : Nat, rom_banks : Nat, ram_banks : Nat, code : Byte]
<1>1. get_rom_size(header) \in Byte /\ get_ram_size(header) \in Byte
  BY DEF get_rom_size, get_ram_size, HeaderOffsets
<1>2. get_rom_banks(header) \in Nat
  BY DEF get_rom_banks, RomBanks
<1>3. get_ram_banks(header) \in Nat
  BY DEF get_ram_banks, RamBanks
<1> QED
  BY <1>1, <1>2, <1>3 DEF Numbers

Shown ==
  /\ shown \in [size : Nat, rom_banks : Nat, ram_banks : Nat, code : Byte]
  /\ BannerAgrees

LEMMA BannerStep ==
  ASSUME EInv, print_banner
  PROVE  Shown'
<1> DEFINE header == cartridge.header
           code == get_rom_size(header)
<1>1. PICK size \in SizesShown(code) : shown' = Numbers(header, size)
  BY DEF print_banner
<1>2. header \in [HeaderOffsets -> Byte]
  BY DEF EInv, IInv, FrontEnd, Plugged, IsRom
<1>3. code \in Byte
  BY <1>2 DEF get_rom_size, HeaderOffsets
<1>4. size \in Nat
  BY <1>1, <1>3, SizesType
<1>5. /\ shown'.size = size /\ shown'.code = code
      /\ shown'.rom_banks = get_rom_banks(header)
  BY <1>1 DEF Numbers
<1>6. ASSUME code <= 8 PROVE get_rom_banks(header) = 2 * size
  <2>1. code \in 0 .. 8
    BY <1>3, <1>6 DEF Byte
  <2>2. get_rom_banks(header) = RomBanks[code]
    BY <2>1 DEF get_rom_banks
  <2> HIDE DEF code, header
  <2> QED
    BY <1>1, <2>1, <2>2, TableIsShift
<1> HIDE DEF code, header
<1>7. Numbers(header, size) \in
        [size : Nat, rom_banks : Nat, ram_banks : Nat, code : Byte]
  BY <1>2, <1>4, NumbersType
<1> QED
  BY <1>1, <1>5, <1>6, <1>7 DEF Shown, BannerAgrees

LEMMA ShownKept ==
  ASSUME EInv, Shown, [EmulatorNext]_emulatorVars
  PROVE  Shown'
<1>1. CASE print_banner
  BY <1>1, BannerStep
<1>2. CASE /\ ~print_banner
  <2>1. shown' = shown /\ (at' = "power" => at = "power")
    BY <1>2 DEF EmulatorNext, usage, load, terminate, switch_on, run_demo,
                print_registers, Return, mainVars, emulatorVars
  <2> QED
    BY <2>1 DEF Shown, BannerAgrees
<1> QED
  BY <1>1, <1>2

LEMMA ShownHolds == EmulatorSpec => []Shown
<1>1. EmulatorInit => Shown
  <2>1. NoNumbers \in [size : Nat, rom_banks : Nat, ram_banks : Nat, code : Byte]
    BY DEF NoNumbers, Byte
  <2> QED
    BY <2>1 DEF EmulatorInit, Shown, BannerAgrees
<1> QED
  BY <1>1, ShownKept, EInvHolds, PTL DEF EmulatorSpec

\* For every header, documented codes or not, the numbers of the banner are
\* numbers, and a run only starts on a machine that is on.
THEOREM EmulatorTypeCorrect == EmulatorSpec => []EmulatorTypeOK
<1>1. EInv /\ Shown => EmulatorTypeOK
  BY DEF EInv, Program, AtStatement, Shown, Statements, Succeeded, EmulatorTypeOK
<1> QED
  BY <1>1, EInvHolds, ShownHolds, PTL

\* The size that is shifted and the banks that are looked up agree on every
\* documented code.
THEOREM BannersAgree == EmulatorSpec => []BannerAgrees
<1>1. Shown => BannerAgrees
  BY DEF Shown
<1> QED
  BY <1>1, ShownHolds, PTL

-----------------------------------------------------------------------------
(* The header checksum: what its recursion computes, by induction on the     *)
(* bytes it has read.                                                        *)

\* The next sum, from the last one and a byte.
Less(sum, byte) == AsByte(sum - byte - 1)

LEMMA LessType ==
  ASSUME NEW s \in Byte, NEW b \in Byte
  PROVE  Less(s, b) \in Byte
BY DEF Less, AsByte, Byte

\* Different sums stay different, and different bytes make them so.
LEMMA LessInjective ==
  ASSUME NEW s \in Byte, NEW t \in Byte, NEW b \in Byte
  PROVE  (Less(s, b) = Less(t, b)) => (s = t)
BY DEF Less, AsByte, Byte

LEMMA LessOfBytes ==
  ASSUME NEW s \in Byte, NEW b \in Byte, NEW c \in Byte
  PROVE  (Less(s, b) = Less(s, c)) => (b = c)
BY DEF Less, AsByte, Byte

\* The sums are what the code's loop leaves after each byte.
IsSums(sum, header, last) ==
  sum = [i \in \h33 .. last |-> IF i = \h33 THEN 0 ELSE AsByte(sum[i - 1] - header[i] - 1)]

LEMMA SumsExist ==
  ASSUME NEW header, NEW n \in Nat
  PROVE  \E sum : IsSums(sum, header, \h33 + n)
<1> DEFINE T == {k \in Nat : \E sum : IsSums(sum, header, \h33 + k)}
<1>1. 0 \in T
  <2> DEFINE sum == [i \in \h33 .. \h33 |-> 0]
  <2>1. IsSums(sum, header, \h33 + 0)
    BY DEF IsSums
  <2> QED
    BY <2>1
<1>2. ASSUME NEW k \in T PROVE k + 1 \in T
  <2>1. PICK sum : IsSums(sum, header, \h33 + k)
    OBVIOUS
  <2> DEFINE next == [i \in \h33 .. \h33 + (k + 1) |->
                        IF i = \h34 + k THEN AsByte(sum[\h33 + k] - header[i] - 1) ELSE sum[i]]
             more == [i \in \h33 .. \h33 + (k + 1) |->
                        IF i = \h33 THEN 0 ELSE AsByte(next[i - 1] - header[i] - 1)]
  <2>2. \A i \in \h33 .. \h33 + k : sum[i] = IF i = \h33 THEN 0 ELSE AsByte(sum[i - 1] - header[i] - 1)
    BY <2>1 DEF IsSums
  <2>3. \A i \in \h33 .. \h33 + k : next[i] = sum[i]
    OBVIOUS
  <2>4. next[\h34 + k] = AsByte(sum[\h33 + k] - header[\h34 + k] - 1)
    OBVIOUS
  <2> HIDE DEF next
  <2>5. ASSUME NEW i \in \h33 .. \h33 + (k + 1)
        PROVE  next[i] = IF i = \h33 THEN 0 ELSE AsByte(next[i - 1] - header[i] - 1)
    <3>1. CASE i = \h34 + k
      BY <2>3, <2>4, <3>1
    <3>2. CASE i # \h34 + k
      BY <2>2, <2>3, <3>2
    <3> QED
      BY <3>1, <3>2
  <2>6. next = [i \in \h33 .. \h33 + (k + 1) |-> next[i]]
    BY DEF next
  <2>7. IsSums(next, header, \h33 + (k + 1))
    BY <2>5, <2>6 DEF IsSums
  <2> QED
    BY <2>7
<1> HIDE DEF T
<1>3. T = Nat
  <2>1. T \in SUBSET Nat
    BY DEF T
  <2> QED
    BY <1>1, <1>2, <2>1, NatInduct
<1> QED
  BY <1>3 DEF T

LEMMA ChecksumIsSum ==
  ASSUME NEW header
  PROVE  \E sum : IsSums(sum, header, \h4C) /\ Checksum(header) = sum[\h4C]
<1> DEFINE sum == CHOOSE s : IsSums(s, header, \h4C)
<1>1. IsSums(sum, header, \h4C)
  <2>1. \E s : IsSums(s, header, \h33 + 25)
    BY SumsExist
  <2>2. \E s : IsSums(s, header, \h4C)
    BY <2>1
  <2> QED
    BY <2>2, Zenon
<1>2. Checksum(header) = sum[\h4C]
  BY Zenon DEF IsSums, Checksum
<1> HIDE DEF sum
<1> QED
  BY <1>1, <1>2

\* One sum after another.
LEMMA NextSum ==
  ASSUME NEW sum, NEW header, IsSums(sum, header, \h4C)
  PROVE  /\ sum[\h33] = 0
         /\ \A n \in Nat : n < 25 => sum[\h34 + n] = Less(sum[\h33 + n], header[\h34 + n])
<1>1. \A i \in \h33 .. \h4C : sum[i] = IF i = \h33 THEN 0 ELSE AsByte(sum[i - 1] - header[i] - 1)
  BY DEF IsSums
<1> QED
  BY <1>1 DEF Less

LEMMA SumsType ==
  ASSUME NEW header \in [HeaderOffsets -> Byte], NEW sum, IsSums(sum, header, \h4C)
  PROVE  \A n \in Nat : n <= 25 => sum[\h33 + n] \in Byte
<1> DEFINE T == {n \in Nat : n <= 25 => sum[\h33 + n] \in Byte}
<1>1. 0 \in T
  BY NextSum DEF Byte
<1>2. ASSUME NEW n \in T PROVE n + 1 \in T
  <2>1. CASE n < 25
    <3>1. sum[\h34 + n] = Less(sum[\h33 + n], header[\h34 + n])
      BY <2>1, NextSum
    <3>2. header[\h34 + n] \in Byte
      BY <2>1 DEF HeaderOffsets
    <3>3. Less(sum[\h33 + n], header[\h34 + n]) \in Byte
      BY <2>1, <3>2, LessType
    <3> QED
      BY <3>1, <3>3
  <2> QED
    BY <2>1
<1> HIDE DEF T
<1>3. T = Nat
  <2>1. T \in SUBSET Nat
    BY DEF T
  <2> QED
    BY <1>1, <1>2, <2>1, NatInduct
<1> QED
  BY <1>3 DEF T

LEMMA ChecksumSeesByte ==
  ASSUME NEW header \in [HeaderOffsets -> Byte], NEW k \in \h34 .. \h4C,
         NEW b \in Byte, b # header[k]
  PROVE  Checksum([header EXCEPT ![k] = b]) # Checksum(header)
<1> DEFINE changed == [header EXCEPT ![k] = b]
<1>1. /\ changed \in [HeaderOffsets -> Byte] /\ changed[k] = b
      /\ \A n \in Nat : n < 25 /\ \h34 + n # k => changed[\h34 + n] = header[\h34 + n]
  BY DEF HeaderOffsets
<1> HIDE DEF changed
<1>2. PICK s : IsSums(s, header, \h4C) /\ Checksum(header) = s[\h4C]
  BY ChecksumIsSum
<1>3. PICK t : IsSums(t, changed, \h4C) /\ Checksum(changed) = t[\h4C]
  BY ChecksumIsSum
<1> DEFINE Same(n) == \h33 + n < k => t[\h33 + n] = s[\h33 + n]
           Differ(n) == \h33 + n >= k => t[\h33 + n] # s[\h33 + n]
           T == {n \in Nat : n <= 25 => Same(n) /\ Differ(n)}
<1>4. 0 \in T
  BY <1>2, <1>3, NextSum
<1>5. ASSUME NEW n \in T PROVE n + 1 \in T
  <2> SUFFICES ASSUME n < 25 PROVE Same(n + 1) /\ Differ(n + 1)
    OBVIOUS
  <2>1. s[\h34 + n] = Less(s[\h33 + n], header[\h34 + n])
    BY <1>2, NextSum
  <2>2. t[\h34 + n] = Less(t[\h33 + n], changed[\h34 + n])
    BY <1>3, NextSum
  <2>3. s[\h33 + n] \in Byte /\ t[\h33 + n] \in Byte
    BY <1>1, <1>2, <1>3, SumsType
  <2>4. header[\h34 + n] \in Byte /\ changed[\h34 + n] \in Byte
    BY <1>1 DEF HeaderOffsets
  <2>5. Same(n) /\ Differ(n)
    OBVIOUS
  <2>6. CASE \h34 + n < k
    <3>1. t[\h34 + n] = s[\h34 + n]
      BY <1>1, <2>1, <2>2, <2>5, <2>6
    <3> QED
      BY <2>6, <3>1
  <2>7. CASE \h34 + n = k
    <3>1. t[\h33 + n] = s[\h33 + n] /\ changed[\h34 + n] # header[\h34 + n]
      BY <1>1, <2>5, <2>7
    <3>2. t[\h34 + n] # s[\h34 + n]
      BY <2>1, <2>2, <2>3, <2>4, <3>1, LessOfBytes
    <3> QED
      BY <2>7, <3>2
  <2>8. CASE \h34 + n > k
    <3>1. t[\h33 + n] # s[\h33 + n] /\ changed[\h34 + n] = header[\h34 + n]
      BY <1>1, <2>5, <2>8
    <3>2. t[\h34 + n] # s[\h34 + n]
      BY <2>1, <2>2, <2>3, <2>4, <3>1, LessInjective
    <3> QED
      BY <2>8, <3>2
  <2> QED
    BY <2>6, <2>7, <2>8
<1>6. T = Nat
  <2> HIDE DEF T
  <2>1. T \in SUBSET Nat
    BY DEF T
  <2> QED
    BY <1>4, <1>5, <2>1, NatInduct
<1>7. Differ(25)
  BY <1>6
<1> QED
  BY <1>2, <1>3, <1>7 DEF changed

\* A valid header is no more valid when any byte from the title to the
\* checksum is changed.
LEMMA HeaderGuarded ==
  ASSUME NEW header \in [HeaderOffsets -> Byte], validate_header_checksum(header),
         NEW i \in \h34 .. \h4D, NEW b \in Byte, b # header[i]
  PROVE  ~validate_header_checksum([header EXCEPT ![i] = b])
<1>1. CASE i = \h4D
  <2> DEFINE changed == [header EXCEPT ![i] = b]
  <2>1. changed[\h4D] = b /\ \A j \in \h34 .. \h4C : changed[j] = header[j]
    BY <1>1 DEF HeaderOffsets
  <2> HIDE DEF changed
  <2>2. PICK s : IsSums(s, header, \h4C) /\ Checksum(header) = s[\h4C]
    BY ChecksumIsSum
  <2>3. PICK t : IsSums(t, changed, \h4C) /\ Checksum(changed) = t[\h4C]
    BY ChecksumIsSum
  <2> DEFINE T == {n \in Nat : n <= 25 => t[\h33 + n] = s[\h33 + n]}
  <2>4. 0 \in T
    BY <2>2, <2>3, NextSum
  <2>5. ASSUME NEW n \in T PROVE n + 1 \in T
    <3>1. CASE n < 25
      <4>1. changed[\h34 + n] = header[\h34 + n]
        BY <2>1, <3>1
      <4> QED
        BY <2>2, <2>3, <3>1, <4>1, NextSum
    <3> QED
      BY <3>1
  <2>6. T = Nat
    <3> HIDE DEF T
    <3>1. T \in SUBSET Nat
      BY DEF T
    <3> QED
      BY <2>4, <2>5, <3>1, NatInduct
  <2>7. t[\h4C] = s[\h4C]
    <3>1. 25 \in T
      BY <2>6
    <3> QED
      BY <3>1
  <2> QED
    BY <1>1, <2>1, <2>2, <2>3, <2>7 DEF validate_header_checksum, changed
<1>2. CASE i # \h4D
  <2>1. Checksum([header EXCEPT ![i] = b]) # Checksum(header)
    <3>1. i \in \h34 .. \h4C
      BY <1>2
    <3> QED
      BY <3>1, ChecksumSeesByte
  <2>2. [header EXCEPT ![i] = b][\h4D] = header[\h4D]
    BY <1>2 DEF HeaderOffsets
  <2> QED
    BY <2>1, <2>2 DEF validate_header_checksum
<1> QED
  BY <1>1, <1>2

\* No header whatever passes its check with one byte wrong: of a valid one any
\* byte from the title to the checksum may be changed to any other, and the
\* banner would be printed of an invalid one.
THEOREM ChecksumsGuard == EmulatorSpec => []ChecksumGuards
<1>1. EInv => ChecksumGuards
  <2>1. EInv => cartridge.header \in [HeaderOffsets -> Byte]
    BY DEF EInv, IInv, FrontEnd, Plugged, IsRom
  <2>2. 0 .. 255 = Byte
    BY DEF Byte
  <2> QED
    BY <2>1, <2>2, HeaderGuarded DEF ChecksumGuards
<1> QED
  BY <1>1, EInvHolds, PTL

-----------------------------------------------------------------------------
(* The registers: what the recursion of Computed comes to, by induction on   *)
(* the doublings.                                                            *)

SoundStates == {s \in States : CPU!Sound(s.regs)}

LEMMA SoundStateIs ==
  ASSUME NEW r, CPU!Sound(r), NEW c \in Nat
  PROVE  [regs |-> r, cycles |-> c] \in SoundStates
BY DEF SoundStates, States, CPU!Sound

\* An instruction takes four cycles at least, and none is executed once the
\* cycles are complete.
LEMMA ExecutedSound ==
  ASSUME NEW image, IsMemory(image), NEW s \in SoundStates
  PROVE  /\ Executed(s, image) \in SoundStates
         /\ s.cycles >= demo_cycles => Executed(s, image) = s
         /\ s.cycles < demo_cycles => Executed(s, image).cycles >= s.cycles + 4
<1> DEFINE result == CPU!Execute(s.regs, image)
<1>1. CPU!Sound(s.regs) /\ s.cycles \in Nat /\ s \in States
  BY DEF SoundStates, States
<1>2. CPU!Leaves(s.regs, result, CPU!LengthOf(CPU!Opcode(s.regs, image)))
  BY <1>1, CPU!ExecuteLeaves, SameMemories, RegionsAssumption, GameBoyAssumption,
     SameTypes
<1>3. CPU!Sound(result.regs) /\ result.cycles \in {4, 8, 12, 16, 20}
  BY <1>2 DEF CPU!Leaves
<1>4. Executed(s, image) =
        IF s.cycles >= demo_cycles THEN s
        ELSE [regs |-> result.regs, cycles |-> s.cycles + result.cycles]
  BY DEF Executed
<1> HIDE DEF result
<1>5. CASE s.cycles >= demo_cycles
  BY <1>4, <1>5 DEF demo_cycles, SoundStates, States
<1>6. CASE ~(s.cycles >= demo_cycles)
  <2>1. s.cycles + result.cycles \in Nat /\ s.cycles + result.cycles >= s.cycles + 4
    BY <1>1, <1>3
  <2>2. Executed(s, image) \in SoundStates
    BY <1>3, <1>4, <1>6, <2>1, SoundStateIs
  <2> QED
    BY <1>4, <1>6, <2>1, <2>2
<1> QED
  BY <1>5, <1>6

\* The functions of Computed, up to one of 2^last instructions.
IsAfter(after, image, last) ==
  after = [k \in 0 .. last |->
             [state \in States |-> IF k = 0 THEN Executed(state, image)
                                   ELSE after[k - 1][after[k - 1][state]]]]

LEMMA AfterExists ==
  ASSUME NEW image, NEW n \in Nat
  PROVE  \E after : IsAfter(after, image, n)
<1> DEFINE T == {m \in Nat : \E after : IsAfter(after, image, m)}
<1>1. 0 \in T
  <2> DEFINE after == [k \in 0 .. 0 |-> [state \in States |-> Executed(state, image)]]
  <2>1. IsAfter(after, image, 0)
    BY DEF IsAfter
  <2> QED
    BY <2>1
<1>2. ASSUME NEW m \in T PROVE m + 1 \in T
  <2>1. PICK after : IsAfter(after, image, m)
    OBVIOUS
  <2> DEFINE last == [state \in States |-> after[m][after[m][state]]]
             next == [k \in 0 .. m + 1 |-> IF k = m + 1 THEN last ELSE after[k]]
             Entry(f, k) == [state \in States |-> IF k = 0 THEN Executed(state, image)
                                                  ELSE f[k - 1][f[k - 1][state]]]
  <2>2. \A k \in 0 .. m : after[k] = Entry(after, k)
    BY <2>1 DEF IsAfter
  <2>3. \A k \in 0 .. m : next[k] = after[k]
    OBVIOUS
  <2>4. next[m + 1] = last
    OBVIOUS
  <2>5. next = [k \in 0 .. m + 1 |-> next[k]]
    OBVIOUS
  <2> HIDE DEF next
  <2>6. ASSUME NEW k \in 0 .. m + 1 PROVE next[k] = Entry(next, k)
    <3>1. CASE k = m + 1
      <4>1. k # 0 /\ k - 1 = m /\ next[k - 1] = after[m]
        BY <2>3, <3>1
      <4> QED
        BY <2>4, <3>1, <4>1
    <3>2. CASE k # m + 1 /\ k # 0
      <4>1. next[k - 1] = after[k - 1] /\ next[k] = after[k] /\ k \in 0 .. m
        BY <2>3, <3>2
      <4> QED
        BY <2>2, <3>2, <4>1
    <3>3. CASE k = 0
      BY <2>2, <2>3, <3>3
    <3> QED
      BY <3>1, <3>2, <3>3
  <2>7. IsAfter(next, image, m + 1)
    BY <2>5, <2>6 DEF IsAfter
  <2> QED
    BY <2>7
<1> HIDE DEF T
<1>3. T = Nat
  <2>1. T \in SUBSET Nat
    BY DEF T
  <2> QED
    BY <1>1, <1>2, <2>1, NatInduct
<1> QED
  BY <1>3 DEF T

LEMMA ComputedIsAfter ==
  ASSUME NEW image
  PROVE  \E after : /\ IsAfter(after, image, Doublings)
                    /\ Computed(image) = after[Doublings][Started]
<1> DEFINE after == CHOOSE f : IsAfter(f, image, Doublings)
<1>1. IsAfter(after, image, Doublings)
  <2>1. Doublings \in Nat
    BY DEF Doublings
  <2>2. \E f : IsAfter(f, image, Doublings)
    BY <2>1, AfterExists
  <2> QED
    BY <2>2, Zenon
<1>2. Computed(image) = after[Doublings][Started]
  BY Zenon DEF IsAfter, Computed
<1> HIDE DEF after
<1> QED
  BY <1>1, <1>2

\* 2^k instructions are 2^(k-1) instructions, twice.
LEMMA AfterIs ==
  ASSUME NEW after, NEW image, IsAfter(after, image, Doublings), NEW s \in SoundStates
  PROVE  /\ after[0][s] = Executed(s, image)
         /\ \A k \in Nat : k < 8 => after[k + 1][s] = after[k][after[k][s]]
<1>1. s \in States
  BY DEF SoundStates
<1>2. \A k \in 0 .. 8 : after[k][s] = IF k = 0 THEN Executed(s, image)
                                      ELSE after[k - 1][after[k - 1][s]]
  <2> SUFFICES ASSUME NEW k \in 0 .. 8
               PROVE  after[k][s] = IF k = 0 THEN Executed(s, image)
                                    ELSE after[k - 1][after[k - 1][s]]
    OBVIOUS
  <2>1. k \in 0 .. Doublings
    BY DEF Doublings
  <2>2. after[k] = [state \in States |-> IF k = 0 THEN Executed(state, image)
                                         ELSE after[k - 1][after[k - 1][state]]]
    BY <2>1, Zenon DEF IsAfter
  <2> QED
    BY <1>1, <2>2, Zenon
<1>3. ASSUME NEW k \in Nat, k < 8 PROVE after[k + 1][s] = after[k][after[k][s]]
  <2>1. k + 1 \in 0 .. 8 /\ k + 1 # 0 /\ (k + 1) - 1 = k
    BY <1>3
  <2> QED
    BY <1>2, <2>1
<1> QED
  BY <1>2, <1>3

\* 2^k instructions leave a sound state, of which a completed one is its own,
\* and executing one more before them or after them is the same.
Orderly(f, image) ==
  \A s \in SoundStates :
    /\ f[s] \in SoundStates
    /\ s.cycles >= demo_cycles => f[s] = s
    /\ f[Executed(s, image)] = Executed(f[s], image)

LEMMA AfterOrderly ==
  ASSUME NEW after, NEW image, IsMemory(image), IsAfter(after, image, Doublings)
  PROVE  \A k \in Nat : k <= 8 => Orderly(after[k], image)
<1> DEFINE T == {k \in Nat : k <= 8 => Orderly(after[k], image)}
<1>1. 0 \in T
  BY AfterIs, ExecutedSound DEF Orderly
<1>2. ASSUME NEW k \in T PROVE k + 1 \in T
  <2> SUFFICES ASSUME k < 8 PROVE Orderly(after[k + 1], image)
    OBVIOUS
  <2> DEFINE f == after[k]
             g == after[k + 1]
  <2>1. Orderly(f, image)
    OBVIOUS
  <2>2. \A s \in SoundStates : g[s] = f[f[s]]
    BY AfterIs
  <2> HIDE DEF f, g
  <2>3. ASSUME NEW s \in SoundStates
        PROVE  /\ g[s] \in SoundStates
               /\ s.cycles >= demo_cycles => g[s] = s
               /\ g[Executed(s, image)] = Executed(g[s], image)
    <3>1. Executed(s, image) \in SoundStates /\ f[s] \in SoundStates
      BY <2>1, ExecutedSound DEF Orderly
    <3>2. g[Executed(s, image)] = f[f[Executed(s, image)]]
      BY <2>2, <3>1
    <3>3. f[Executed(s, image)] = Executed(f[s], image)
      BY <2>1 DEF Orderly
    <3>4. f[Executed(f[s], image)] = Executed(f[f[s]], image)
      BY <2>1, <3>1 DEF Orderly
    <3>5. g[s] \in SoundStates /\ (s.cycles >= demo_cycles => g[s] = s)
      BY <2>1, <2>2, <3>1 DEF Orderly
    <3> QED
      BY <2>2, <3>2, <3>3, <3>4, <3>5
  <2>4. Orderly(g, image)
    BY <2>3 DEF Orderly
  <2> QED
    BY <2>4 DEF g
<1> HIDE DEF T
<1>3. T = Nat
  <2>1. T \in SUBSET Nat
    BY DEF T
  <2> QED
    BY <1>1, <1>2, <2>1, NatInduct
<1> QED
  BY <1>3 DEF T

\* They complete the cycles or make c of them.
Makes(f, c) ==
  \A s \in SoundStates : f[s].cycles >= demo_cycles \/ f[s].cycles >= s.cycles + c

LEMMA Twice ==
  ASSUME NEW after, NEW image, IsMemory(image), IsAfter(after, image, Doublings),
         NEW k \in Nat, k < 8, NEW c \in Nat, Makes(after[k], c)
  PROVE  Makes(after[k + 1], 2 * c)
<1> SUFFICES ASSUME NEW s \in SoundStates
             PROVE  \/ after[k + 1][s].cycles >= demo_cycles
                    \/ after[k + 1][s].cycles >= s.cycles + 2 * c
  BY DEF Makes
<1> DEFINE t == after[k][s]
           u == after[k][t]
<1>1. after[k + 1][s] = u
  BY AfterIs
<1>2. Orderly(after[k], image)
  BY AfterOrderly
<1>3. t \in SoundStates /\ u \in SoundStates /\ (t.cycles >= demo_cycles => u = t)
  BY <1>2 DEF Orderly
<1>4. /\ t.cycles >= demo_cycles \/ t.cycles >= s.cycles + c
      /\ u.cycles >= demo_cycles \/ u.cycles >= t.cycles + c
  BY <1>3 DEF Makes
<1> HIDE DEF t, u
<1>5. s.cycles \in Nat /\ t.cycles \in Nat /\ u.cycles \in Nat
  BY <1>3 DEF SoundStates, States
<1> QED
  BY <1>1, <1>3, <1>4, <1>5 DEF demo_cycles

LEMMA AllComplete ==
  ASSUME NEW after, NEW image, IsMemory(image), IsAfter(after, image, Doublings)
  PROVE  \A s \in SoundStates : after[8][s].cycles >= demo_cycles
<1>0. Makes(after[0], 4)
  <2> SUFFICES ASSUME NEW s \in SoundStates
               PROVE  after[0][s].cycles >= demo_cycles \/ after[0][s].cycles >= s.cycles + 4
    BY DEF Makes
  <2>1. s.cycles \in Nat
    BY DEF SoundStates, States
  <2> QED
    BY <2>1, AfterIs, ExecutedSound DEF demo_cycles
<1>1. Makes(after[1], 8)
  BY <1>0, Twice
<1>2. Makes(after[2], 16)
  BY <1>1, Twice
<1>3. Makes(after[3], 32)
  BY <1>2, Twice
<1>4. Makes(after[4], 64)
  BY <1>3, Twice
<1>5. Makes(after[5], 128)
  BY <1>4, Twice
<1>6. Makes(after[6], 256)
  BY <1>5, Twice
<1>7. Makes(after[7], 512)
  BY <1>6, Twice
<1>8. Makes(after[8], 1024)
  BY <1>7, Twice
<1> SUFFICES ASSUME NEW s \in SoundStates PROVE after[8][s].cycles >= demo_cycles
  OBVIOUS
<1>9. s.cycles \in Nat /\ after[8][s] \in SoundStates
  BY AfterOrderly DEF Orderly, SoundStates, States
<1>10. after[8][s].cycles \in Nat
  BY <1>9 DEF SoundStates, States
<1> QED
  BY <1>8, <1>9, <1>10 DEF Makes, demo_cycles

\* One instruction more or less at the start makes no difference in the end.
IsEnd(end, image) ==
  \A s \in SoundStates :
    /\ end[Executed(s, image)] = end[s]
    /\ s.cycles >= demo_cycles => end[s] = s

LEMMA ComputedIsEnd ==
  ASSUME NEW image, IsMemory(image)
  PROVE  \E end : IsEnd(end, image) /\ Computed(image) = end[Started]
<1>1. PICK after : /\ IsAfter(after, image, Doublings)
                   /\ Computed(image) = after[Doublings][Started]
  BY ComputedIsAfter
<1> DEFINE end == after[8]
<1>2. Orderly(end, image) /\ \A s \in SoundStates : end[s].cycles >= demo_cycles
  BY <1>1, AfterOrderly, AllComplete
<1>3. Computed(image) = end[Started]
  BY <1>1 DEF Doublings
<1> HIDE DEF end
<1>4. ASSUME NEW s \in SoundStates PROVE end[Executed(s, image)] = end[s]
  <2>1. /\ end[Executed(s, image)] = Executed(end[s], image)
        /\ end[s] \in SoundStates /\ end[s].cycles >= demo_cycles
    BY <1>2 DEF Orderly
  <2> QED
    BY <2>1, ExecutedSound
<1>5. IsEnd(end, image)
  BY <1>2, <1>4 DEF IsEnd, Orderly
<1> QED
  BY <1>3, <1>5

\* The computation of an image goes through a state.
Leads(state, image) ==
  \A end : IsEnd(end, image) => end[state] = end[Started]

LEMMA LeadsOn ==
  ASSUME NEW image, NEW s \in SoundStates, Leads(s, image)
  PROVE  Leads(Executed(s, image), image)
BY DEF Leads, IsEnd

LEMMA LeadsToComputed ==
  ASSUME NEW image, IsMemory(image), NEW s \in SoundStates, Leads(s, image),
         s.cycles >= demo_cycles
  PROVE  Computed(image) = s
<1>1. PICK end : IsEnd(end, image) /\ Computed(image) = end[Started]
  BY ComputedIsEnd
<1> QED
  BY <1>1 DEF Leads, IsEnd

-----------------------------------------------------------------------------
(* The program computes what its file does. *)

\* The state the instructions executed so far have reached.
Reached(c) == [regs |-> regs, cycles |-> c]

Computing ==
  /\ at \in {"banner", "power", "demo", "registers"} =>
       cartridge.bytes = arguments[1].bytes
  /\ at = "banner" /\ todo = <<>> => regs = StartRegisters
  /\ at \in {"power", "demo"} => regs = StartRegisters
  /\ at = "registers" =>
       /\ todo = Turn => Leads(Reached(executed), cartridge.bytes)
       /\ todo \in {RunUpdate, Count} => Leads(Reached(executed + cycles), cartridge.bytes)
       /\ todo = <<>> => regs = Computed(cartridge.bytes).regs

RInv == EInv /\ MemoryIsCartridge /\ Unattended /\ Computing

LEMMA RunComputes ==
  ASSUME RInv, Call, at = "registers", UNCHANGED mainVars
  PROVE  Computing'
<1>1. /\ IInv /\ Counting /\ at' = at /\ arguments' = arguments
      /\ todo # <<>> /\ cartridge' = cartridge
  BY DEF RInv, EInv, Program, AtStatement, Call, mainVars
<1>2. /\ total = demo_cycles /\ executed < demo_cycles /\ executed \in Nat
  BY <1>1 DEF Counting, IInv, FrontEnd
<1>3. CPU!Sound(regs) /\ IsMemory(mem) /\ mem = cartridge.bytes
  BY <1>1, CpuByParts DEF IInv, Parts, RInv, MemoryIsCartridge
<1>4. cartridge'.bytes = arguments'[1].bytes
  BY <1>1 DEF RInv, Computing
<1>5. CASE todo = Turn
  <2>1. execute_instruction /\ todo' = RunUpdate
    BY <1>1, <1>5, Calls, AllDiffer, RunLists, ListsDiffer DEF IInv, Call, Count
  <2>2. CPU!Instruction
    BY <2>1 DEF RInv, Unattended, execute_instruction, CPU!execute_instruction,
                CPU!Wait, CPU!Interrupted
  <2>3. /\ regs' = CPU!Execute(regs, cartridge.bytes).regs
        /\ cycles' = CPU!Execute(regs, cartridge.bytes).cycles
    BY <1>3, <2>2 DEF CPU!Instruction
  <2>4. executed' = executed
    BY <2>1 DEF execute_instruction, loopVars
  <2>5. Leads(Reached(executed), cartridge.bytes)
    BY <1>1, <1>5 DEF RInv, Computing
  <2>6. Reached(executed) \in SoundStates
    BY <1>2, <1>3, SoundStateIs DEF Reached
  <2>7. Executed(Reached(executed), cartridge.bytes)
          = [regs |-> regs', cycles |-> executed + cycles']
    BY <1>2, <2>3 DEF Executed, Reached, demo_cycles
  <2>8. Leads([regs |-> regs', cycles |-> executed + cycles'], cartridge.bytes)
    BY <2>5, <2>6, <2>7, LeadsOn
  <2> QED
    BY <1>1, <1>4, <2>1, <2>4, <2>8, AllDiffer DEF Computing, Reached
<1>6. CASE todo = RunUpdate
  <2>1. timer_update /\ todo' = Count
    BY <1>1, <1>6, Calls, AllDiffer, RunLists, ListsDiffer DEF IInv, Call, Count
  <2>2. UNCHANGED <<regs, cycles, executed>>
    BY <2>1 DEF timer_update, cpuVars, loopVars
  <2>3. Leads(Reached(executed + cycles), cartridge.bytes)
    BY <1>1, <1>6 DEF RInv, Computing
  <2> QED
    BY <1>1, <1>4, <2>1, <2>2, <2>3, AllDiffer DEF Computing, Reached
<1>7. CASE todo = Count
  <2>1. count_cycles /\ todo' = IF Again THEN Turn ELSE <<>>
    BY <1>1, <1>7, Calls, AllDiffer, RunLists, ListsDiffer DEF IInv, Call, Count
  <2>2. cycles \in {4, 8, 12, 16, 20}
    BY <1>1, <1>7, AllDiffer DEF Counting
  <2>3. Counted(executed) = executed + cycles
    BY <1>2, <2>2, NoWrap DEF Counted
  <2>4. regs' = regs
    BY <2>1 DEF count_cycles, cpuVars
  <2>5. Leads(Reached(executed + cycles), cartridge.bytes)
    BY <1>1, <1>7 DEF RInv, Computing
  <2>6. CASE Again
    <3>1. executed' = executed + cycles
      BY <2>1, <2>3, <2>6 DEF count_cycles
    <3> QED
      BY <1>1, <1>4, <2>1, <2>4, <2>5, <2>6, <3>1, AllDiffer DEF Computing, Reached
  <2>7. CASE ~Again
    <3>1. executed + cycles \in Nat /\ executed + cycles >= demo_cycles
      BY <1>2, <2>2, <2>3, <2>7 DEF Again, demo_cycles
    <3>2. Reached(executed + cycles) \in SoundStates
      BY <1>3, <3>1, SoundStateIs DEF Reached
    <3>3. Computed(cartridge.bytes) = Reached(executed + cycles)
      BY <1>3, <2>5, <3>1, <3>2, LeadsToComputed DEF Reached
    <3>4. regs = Computed(cartridge.bytes).regs
      BY <3>3 DEF Reached
    <3> QED
      BY <1>1, <1>4, <2>1, <2>4, <2>7, <3>4, AllDiffer DEF Computing
  <2> QED
    BY <2>6, <2>7
<1> QED
  BY <1>1, <1>5, <1>6, <1>7 DEF Counting

LEMMA StatementComputes ==
  ASSUME RInv, [EmulatorNext]_emulatorVars
  PROVE  Computing'
<1>1. /\ IInv /\ Computing /\ AtStatement /\ Arguments
  BY DEF RInv, EInv, Program
<1>2. CASE usage
  BY <1>2 DEF usage, Return, Computing
<1>3. CASE terminate
  BY <1>3 DEF terminate, Computing
<1>4. CASE load
  <2>1. at = "load" /\ arguments' = arguments /\ load_rom(arguments[1])
    BY <1>4 DEF load
  <2>2. CASE Succeeds(arguments[1]) /\ at' = "banner"
    <3>1. cartridge' = Filled(cartridge, arguments[1]) /\ todo' = RestartCalls
      BY <2>1, <2>2 DEF load_rom, load_from_file, Succeeds
    <3>2. cartridge'.bytes = arguments[1].bytes
      BY <3>1 DEF Filled
    <3> QED
      BY <2>1, <2>2, <3>1, <3>2, AllDiffer DEF Computing
  <2>3. CASE at' = "returned"
    BY <2>3 DEF Computing
  <2> QED
    BY <1>4, <2>2, <2>3 DEF load, Return
<1>5. CASE print_banner
  <2>1. /\ at = "banner" /\ todo = <<>> /\ at' = "power"
        /\ UNCHANGED <<regs, cartridge, arguments>>
    BY <1>5 DEF print_banner, Idle, machineVars, vars
  <2> QED
    BY <1>1, <2>1 DEF Computing
<1>6. CASE switch_on
  <2>1. at = "power" /\ powered_on
    BY <1>1, <1>6 DEF switch_on, AtStatement
  <2>2. at' = "demo" /\ UNCHANGED <<regs, cartridge, arguments>>
    BY <1>6, <2>1 DEF switch_on, machineVars, vars
  <2> QED
    BY <1>1, <2>1, <2>2 DEF Computing
<1>7. CASE run_demo
  <2>1. /\ at = "demo" /\ at' = "registers" /\ todo' = Turn /\ executed' = 0
        /\ UNCHANGED <<regs, cartridge, arguments>>
    BY <1>7 DEF run_demo, run_for_cycles, machine, cpuVars
  <2>2. regs = StartRegisters /\ cartridge.bytes = arguments[1].bytes
    BY <1>1, <2>1 DEF Computing
  <2>3. Reached(executed)' = Started
    BY <2>1, <2>2 DEF Reached, Started
  <2>4. Leads(Started, cartridge.bytes)
    BY DEF Leads
  <2>5. Leads(Reached(executed), cartridge.bytes)'
    BY <2>1, <2>3, <2>4 DEF Leads
  <2> QED
    BY <2>1, <2>2, <2>5, AllDiffer DEF Computing
<1>8. CASE print_registers
  BY <1>8 DEF print_registers, Return, Computing
<1>9. CASE Call /\ UNCHANGED mainVars
  <2>1. UNCHANGED <<at, arguments, cartridge>> /\ todo # <<>>
    BY <1>9 DEF mainVars, Call
  <2>2. CASE at = "banner"
    <3>1. todo \in {RestartCalls, ControllerNext, TimerNext}
      BY <1>1, <2>1, <2>2 DEF AtStatement
    <3>2. \/ todo # TimerNext /\ todo' # <<>>
          \/ todo = TimerNext /\ timer_initialize
      BY <1>1, <1>9, <3>1, Calls, AllDiffer, ListsDiffer DEF IInv
    <3>3. todo' = <<>> => regs' = StartRegisters
      BY <1>1, <3>2 DEF IInv, Restarting, CpuFresh, timer_initialize, cpuVars
    <3> QED
      BY <1>1, <2>1, <2>2, <3>3 DEF Computing
  <2>3. CASE at = "registers"
    BY <1>9, <2>3, RunComputes
  <2>4. CASE at \notin {"banner", "registers"}
    BY <1>1, <2>1, <2>4 DEF AtStatement, Computing, EInv, RInv, Program, Statements
  <2> QED
    BY <2>2, <2>3, <2>4
<1>10. CASE UNCHANGED emulatorVars
  <2>1. UNCHANGED <<at, arguments, todo, executed, cycles, regs, cartridge>>
    BY <1>10 DEF emulatorVars, mainVars, machineVars, vars
  <2> QED
    BY <1>1, <2>1 DEF Computing, Reached
<1> QED
  BY <1>2, <1>3, <1>4, <1>5, <1>6, <1>7, <1>8, <1>9, <1>10 DEF EmulatorNext

\* For every file, and on the map the code builds, the registers the program
\* prints are those its file's instructions compute from the start registers.
THEOREM RegistersComputed ==
  ASSUME Regions = GameBoyRegions
  PROVE  EmulatorSpec => []RegistersAreComputed
<1>1. EmulatorSpec => [](MemoryIsCartridge /\ Unattended)
  <2>1. Spec => []MemoryIsCartridge
    BY MemoryStaysCartridge
  <2> QED
    BY <2>1, NothingInterrupts, ProgramUsesTheMachine, PTL
<1>2. EmulatorInit => Computing
  BY DEF EmulatorInit, Computing
<1>3. EInv /\ MemoryIsCartridge /\ Unattended /\ Computing /\ [EmulatorNext]_emulatorVars
        => Computing'
  BY StatementComputes DEF RInv
<1>4. Computing => RegistersAreComputed
  BY DEF Computing, RegistersAreComputed, Idle
<1> QED
  BY <1>1, <1>2, <1>3, <1>4, EInvHolds, PTL DEF EmulatorSpec
=============================================================================
