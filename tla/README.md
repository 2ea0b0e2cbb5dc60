# Verification of cycle_perfect_gameboy

TLA+ models of the Game Boy emulator in `include/cycle_perfect_gameboy/`, TLC
runs that check them on small instances, and TLAPS proofs for every instance.
Everything is translated from the headers (the `.cpp` files of the library are
empty); `PROJECT.json` maps each definition to its lines.

## The system

The emulator is single-threaded. A `GameBoy` owns a memory map, a cartridge, a
CPU, a timer and an interrupt controller. The parts do not call each other:
they meet in **memory**. The timer raises an interrupt by setting a bit of
`0xFF0F`, the CPU finds it there when it starts its next instruction, and a
program configures the timer by storing into `0xFF05`-`0xFF07`. Two parts (timer
and controller) keep private copies of memory-mapped registers, which they must
refresh before use. What makes the code hard is therefore not threads but
*ordering*: which component has touched a register since it was last copied,
and what has happened between an event and its delayed effect.

| part | state | operations | modelled in |
|---|---|---|---|
| core types (`core/types.hpp`) | - | 8/16-bit arithmetic, halves, bits | `Bytes` |
| memory map, RAM (`memory/`) | regions, bytes | `read`, `write` | `MemoryMap` |
| cartridge (`cartridge/rom.hpp`, `cartridge_header.hpp`) | ROM bytes, header bytes | loading, `from_file`, the header's accessors | `Cartridge` |
| timer (`system/timer.hpp`) | divider, TIMA/TMA/TAC copies, overflow flag and delay | `initialize`, `update`, `reset_div`, `tac_updated` | `Timer` |
| interrupt controller (`system/interrupt_controller.hpp`) | copies of IF and IE | request, clear, enable, disable, pending, vector | `InterruptController` |
| registers, flags (`cpu/registers.hpp`, `cpu/flags.hpp`) | six pairs | getters, setters, flag setters | `Registers` |
| load instructions (`cpu/load_instructions.hpp`) | - | the 12 handlers | `LoadInstructions` |
| instruction table (`cpu/instructions.hpp`) | - | 256 rows, `nop`, `halt` | `Instructions` |
| CPU (`cpu/cpu.hpp`) | registers, IME, halted, stopped | `execute_instruction`, `handle_interrupts`, `run`, controls | `Cpu` |
| machine (`system/gameboy.hpp`) | all of it, cartridge, power, serial queue | power, reset, load, step, frames, serial | `GameBoy` |
| emulator program (`cycle_perfect_gameboy_emu/main.cpp`) | where `main` is, its exit status | the statements of `main` | `Emulator` |
| logger (`debug/logger.hpp`) | level, outputs, a count; a dump's loop | settings, messages, CPU states, dumps | `Logger` |
| template samples | - | - | not modelled (below) |

Correctness, part by part: the timer counts periods of the selected frequency,
and every overflow becomes exactly one interrupt request, late by a bounded
delay; the controller loses no request although it writes whole registers back;
the CPU follows the program and diverts only to enabled pending interrupts, the
most urgent first; handlers advance the PC by what the table says and move what
their opcode says; the machine passes every cycle executed on to the timer, a
restart leaves nothing behind in CPU, timer and interrupt controller (the serial
queue survives it), and memory and header are those of the cartridge loaded last
however loads fail; the emulator program ends on every file, stops its
demonstration in time, prints the registers the file computes and shows numbers
that agree; the logger numbers states uniquely and writes whole dumps.

## The modules

Values are naturals of the code's width, with its wrap-around (`AsByte`,
`AsWord`). Memory is a sparse function of the bytes written or loaded, read
through the region sequence `Regions`: `FlatRegions` is the 64 KiB test memory
of the unit tests, `GameBoyRegions` the map the machine builds. Handlers get
absolute addresses, as in the code.

* `Timer`: variables are the fields of the class and `mem`. One action per
  method; `StoreDiv` ... `StoreIf` are the stores other parts make in between.
  `Count` is the increment the code repeats three times. `DivWrap` is `2^16` in
  the code and `TimaLast` is `0xFF`; runs make both small.
* `IdealTimer`: the promise. A clock, a period per select, no bits, no edges.
  `TimerRefinement` maps the timer onto it; `SlowTimer` adds the assumptions
  under which the mapping is a refinement.
* `InterruptController` and `IdealInterrupts`: the controller, and two sets.
  `pending` and `vector` are what the two queries returned last.
* `Registers`, `LoadInstructions`, `Instructions`: operators from a register
  record and a memory to `[regs, mem, cycles]`. `Execute` is the table.
* `LoadReference`: what the loads should do, from the opcode's bit fields.
  It models no code: it is what `LoadInstructions` is compared with.
* `Cpu`: one call of a public method per step, and `run()` turn by turn
  (`limit`, `done`), since interrupts are looked for in every turn. `Devices`
  is another component storing into IF between calls.
* `Cartridge`: files, the ROM filled from one, the header copied out of it.
  A file is absent, without a size (a directory), unreadable or sound. No
  variables: `GameBoy` holds the `cartridge`. `Checksum` is a recursive function.
* `GameBoy`: `INSTANCE`s of `Cpu`, `Timer` and `InterruptController` (through their
  proof modules, so that their lemmas can be cited) over one `mem`. An operation is a list (`todo`) of the calls it still makes, so every
  intermediate state exists; the next operation starts when it is empty.
  `elapsed` is a history variable: the cycles since the divider was zeroed.
  `Work` is what an operation has left to do.
* `IdealMachine`: the machine's promise, an interpreter of the cartridge: one
  instruction after another, a divider, cycles owed to whoever asked for them;
  no parts, no order among them, no interrupts, no memory but the image. A load
  that succeeds puts in one of the images the files hold and owes a restart
  (`restarting`); one that breaks while reading leaves the cartridge empty and
  the program running in it (`Break`): that is the code's behaviour, and part of
  the promise so that it is seen. The divider is `DividerFollowsCpu`'s, four
  counts for a cycle.
  `MachineRefinement` maps the machine onto it: what an operation has still to do
  for divider and count after the CPU's call is taken as done.
* `Emulator`: `main` as a program counter (`at`) over the statements, composed
  with `GameBoy`: a statement that calls an operation starts it, the next waits
  until its calls are made. `shown` holds the numbers of the banner, every value
  an undefined shift may give included; `terminated` is an exception nobody
  catches. `Computed` is what the program's printed registers are compared with:
  `Execute` repeated on the file's bytes until the cycles are complete, without
  a machine around it.
* `Logger`: a line is what it is about, an output the sequence of its lines.
  A dump is modelled row by row, with how often each address was written in it.
  It is a module of its own: what the machine logs changes nothing it reads.
* `...Proofs` hold theorems; `MC...` instantiate modules for TLC.

Operators commented "Fault:" are plausible mistakes; no specification uses
them. Replacing the definition after them by one of them must break the property
named in `PROJECT.json`, which shows that the property can fail.

## The runs

| run | module and instance | shows |
|---|---|---|
| `MCTimer` | `Timer`, divider modulo 64, TIMA overflowing at 3, updates of 2 and 4 cycles, TAC off, select 1, select 2 | overflows are never lost or invented, and answered by the next instruction; no delay is left over; no TIMA wrap goes unnoticed |
| `MCTimerExact` | selects 0 and 3, divider modulo 1024, updates of 4, 12, 20 | `CountsExactly`: the timer implements `IdealTimer` |
| `MCTimerReset` | divider resets with the watched bit set | **violated**: the edge the comments describe is never counted |
| `MCInterrupts` | lines 0 and 4, other writers of IF and IE | no request is lost; the controller implements `IdealInterrupts` |
| `MCCpu` | a short program, stacks in RAM, over IF and wrapping into IE; IME, HALT, STOP at any point | control flow, acknowledgement as in `IdealInterrupts`; `run()` goes forward, never stops short, and ends |
| `MCCpuHalt` | a halted CPU in a main loop | **violated**: nothing ends HALT |
| `MCLoads` | all 256 opcodes on three settings | lengths agree with the table, flags stay clean, loads do what they are named |
| `MCGameBoy` | the machine, its own map; a ROM that ends with its header, one that ends before it, three ways to fail; frames of 8 and 88 cycles | no cycle is lost between CPU and timer; restarts are fresh; memory is the cartridge, the header its own; operations end; all of it implements `IdealMachine` |
| `MCGameBoyClock` | the same | **violated**: the divider is not a count of clock cycles |
| `MCGameBoySerial` | the same | **violated**: a serial transfer never completes |
| `MCEmulator` | `main` with no argument, ten size codes, a ROM that is just long enough, an empty file, three ways to fail; 1000 cycles, as in the code | the program goes forward and ends, stops in time and prints the registers its file computes; the banner agrees; the header checksum guards every byte |
| `MCLogger` | two files, up to three lines in each output, four states; addresses modulo 16, rows of 4 | numbers identify states; dumps that fit the row counter are complete, go forward and end |

### Bounds

* The timer's arithmetic depends on `DivWrap` only through the watched bits:
  64 keeps bits 3 and 5, 1024 keeps all four. `TimaLast = 2` lets TIMA overflow
  within a few periods, and repeatedly. An update of 2 cycles (which no
  instruction takes, but which the unit test makes) splits the delay of 4 over
  two updates; without it the states between would not exist.
* `Interrupts = {0, 4}`: the most and the least urgent; stored values `4` and
  `20` add line 2, so up to three lines compete.
* `Code` and `Stacks` bound where calls are *made*; what a call does is not
  bounded. They keep a program from running through the whole address space,
  which is full of NOPs.
* `CountWrap` stands for `2^32`. A limit within 20 of it is excluded by
  `LimitsAssumption`; the largest the code uses is 70224.
* `MaxSerial = 2`: the serial queue grows with every step (see the findings),
  so steps stop when two bytes are unread.
* `MCEmulator`: codes 0, 1 and 8 are in the bank table, 9 to 255 are not; 26 is
  the last whose size fits 32 bits, 31 the last whose shift is defined, `0x52` and
  255 are two of the undefined ones. `Program` stores SP to RAM and reads it back
  (the store is lost, so what it reads is open bus), and lets the cycles come to
  992 before a PUSH of 16, so the demonstration overshoots; other files hit 1000
  exactly. `Code` has 0 besides 256 for the machine that forgets its restart. One header has the right checksum. `CountWrap` and `DivWrap` exceed
  what 1000 cycles reach.
* `MCLogger`: dumps start at 3 and 15, so they wrap; lengths 0, 7, 12 and 13 are
  empty, with a short last row, the longest that ends and the first that does
  not. `MaxLines` and `MaxStates` bound where calls are made. The widths only
  matter through `Width % Row = 0`; the proofs cover `2^16` and 16 as well.
* `MCGameBoy` uses the machine's own map, in which no RAM answers. That is
  what the code does; the behaviour of the parts on working memory is what the
  other runs, on flat memory, are for.

### Fairness

Safety runs use no fairness. `MCTimer`'s `FairSpec` assumes weak fairness of
updates of at least four cycles: both loops update the timer after every
instruction, and an instruction takes at least four. `MCCpu`'s assumes weak
fairness of a turn of `run()`: a loop in a single-threaded program.
`MCCpuHalt` adds that the main loop calls `run()` again. `MCEmulator` assumes
that `main` goes on while it can, and `MCLogger` that the loop of a dump does:
neither waits for anything. Nothing is assumed about who calls the logger.

## What the violated runs show

1. **The divider runs four times too fast** (`gameboy.hpp:151`, `:210`).
   Instructions return clock cycles (4 for one M-cycle, 70224 for a frame);
   `Timer::update` documents machine cycles and multiplies by 4. Each side agrees
   with its own comments and tests; the machine joins them. `DividerFollowsCpu`
   says no more than that no cycle is lost on the way; `PaceIsKept` proves it, and
   with it the factor, for every program. One consequence is that clock select 1
   never counts (`timer.hpp:117-126`): the divider moves by multiples of 16, so
   bit 3 never changes. `FastSelectNeverCounts` proves it for every divider and
   every such update.
2. **`reset_div` never counts an edge** (`timer.hpp:155`). `prev_div_value_`
   is never assigned anything but 0; the proofs need that as an invariant, and
   `ResetNeverCounts` draws the conclusion for every select and memory map.
3. **HALT does not end** (`cpu.hpp:50`). A halted CPU returns before it looks
   for interrupts. The HALT opcode, on the other hand, does not halt.
4. **Serial transfers never complete** (`gameboy.hpp:229`). A `RAM<Size>`
   takes absolute addresses, so the I/O registers are not there: SC reads 0xFF
   and a byte is queued on every step. `GameBoyOpenBus` proves that this is so
   for every RAM address of the map, and `SerialNeverCompletes` that no program
   sees a transfer end, or anything but 0xFF in the queue.

Met on the way, without a run of its own: two sections of
`test/system_timer_test.cpp` expect what the code does not do. Lines 105-125
expect one `update` of 512 to overflow TIMA, reload it and request the interrupt,
which takes a second `update`; lines 127-138 expect a store to TAC alone to
increment TIMA, which needs `tac_updated`. The file is not part of
`test/CMakeLists.txt`, and could not be: `Cycles{512}` and `Cycles{256}` do not
fit the eight bits of `core::Cycles` (`types.hpp:26-33`). The model's updates are
bytes, as the type's are.

`handle_memory_write` (`gameboy.hpp:160`), which would call `reset_div` and
`tac_updated`, has no caller: a program's store to DIV, which is "reset ... when
written to" (`timer.hpp:142`), does not reach the divider, and the special effects
of TAC are as far out of its reach. The program of `MCGameBoy` makes both stores.

Nothing that sets IME, HALT or STOP of the machine's CPU has a caller
(`cpu.hpp:161-164`; the EI opcode has no handler, the HALT opcode does not halt),
so none of the timer's requests ever reaches a program: `NothingInterrupts`, for
every map. With the map the code builds, what is left of the machine is an
interpreter of its cartridge: `MachineInterprets`. `validate_header_checksum` and
`Logger::log_memory_dump` have no caller either; a dump of more than `0xFFF0`
bytes would not end (theorem `LongDumpsRunAway`; no run, as no line says that it
should). "Instruction #" in the log numbers the states logged: `reset` logs one,
`run_for_cycles` none (`logger.hpp:96`).

## The proofs

Proved by TLAPS for every value of the constants that the named assumptions
allow. TLC evaluates those assumptions in the runs.

* **Timer** (`TimerProofs`). The inductive invariant is `Inv == TypeOK /\
  DelayOnlyWhilePending /\ prev_div_value = 0`. `TypeOK` alone is not inductive:
  `overflow_cycles` stays below 4 only because it is reset with the flag. Each
  operation is reduced to a lemma about `Count`. From it: `TypeCorrect`,
  `DelayCorrect`; `RequestsAreEarned` from what each step does to IF, on *any*
  memory map; `OverflowsAreAnswered` where IF is real memory.
  `WrapsAreRemembered` (for a TIMA of eight bits) from what each step does to
  TIMA: a step that stores a smaller value either wrapped, and then remembers
  the overflow, or loads what TMA (at the end of an earlier overflow's delay,
  `Reloaded`) or software gave. `AnswersAreImmediate` is the
  bounded half of `OverflowEventuallyAnswered`: the delay is below 4 when the
  next instruction comes. `FastSelectNeverCounts` needs one fact more, that the
  divider stays a multiple of 16 while cycles are multiples of 4.
* **Timer refinement** (`TimerRefinementProofs`). `TimerCountsExactly`: under
  `SlowTimer`'s assumptions (registers backed by memory, updates of 4 to 32
  cycles, selects 0 and 3) every step is a step of `IdealTimer`. The heart is
  arithmetic: for a divider and an advance of at most one half period, a falling
  edge of bit k happens exactly when the number of completed periods grows, by
  one. It needs the invariant strengthened by `Stored`, which bounds what memory
  holds in the three registers.
* **Interrupts** (`InterruptProofs`). `TypeCorrect` on any map; on real memory
  `ControllerIsSets` (setting and clearing a bit of a byte is adding and
  removing an element of a set; the chain of tests finds the minimum) and
  `RequestsSurvive`.
* **CPU** (`CpuProofs`). `IInv == TypeOK /\ FlagsOnly(regs.af) = regs.af`. One
  lemma per handler states that it leaves sound registers, memory and the PC
  advanced by the table's length (`Leaves`); `ExecuteLeaves` combines them for
  all opcodes. From it `TypeCorrect`, `FlagsStayClean`, `ControlIsFollowed` and,
  where IF is real memory, `DispatchIsAcknowledge`. `TypeCorrect` includes that
  `run()`'s counter never wraps, from `LimitsAssumption`; `RunsAdvance` adds
  that each turn counts all it executed, and that the loop ends with the first
  call that completes what was asked, which is what `RunEnds` rests on.
  `LoadsMoveAsNamed` shows the handlers, written opcode by opcode, equal to
  `LoadReference`'s decoding of bit fields, in every state: one lemma per
  handler (`RegisterMoves`, `Pops`, ...), and for the carries of LD HL,SP+n that
  a bit of a sum differs from the sum of the bits exactly when what lies below
  carries (`CarriesInto16`, `CarriesInto256`).
* **Memory** (`MemoryMapProofs`). Reads after writes, bits of bytes, and
  `FlatIsRam`, `GameBoyHasNoRam`, `GameBoyOpenBus`.
* **Machine** (`GameBoyProofs`). The invariant of the composition is `IInv ==
  todo \in Lists /\ Parts /\ FrontEnd /\ Pace /\ Restarting`: the calls left are
  one of ten lists; the parts keep *their* inductive invariants, over the memory
  they share; the cartridge was read from a file (`Plugged`); between the CPU's
  call and the timer's the divider lags by the one instruction; and what a
  restart has done so far is done. `DividerFollowsCpu` alone is not inductive: it
  says nothing while an operation is under way. `Calls` reduces a step to one of
  the seven calls by the list; each call cites the part's own lemma
  (`CPU!ExecutesSound`, `Clock!TacUpdatedInv`, ...). From it `TypeCorrect`,
  `PaceIsKept`, `RestartsAreFresh`, `HeadersDescribe`. `MemoryStaysCartridge` is
  about the machine's own map: by `GameBoyOpenBus` every store of an
  instruction, a dispatch, the timer and the serial port is lost
  (`CPU!MemoryKept`). `EveryOperationEnds`: `Work`, the cycles and calls left,
  goes down with each call. Its invariant `Looping` relates the counts to the
  list of calls, since the count of a run may not reach `2^32`, and is zero
  outside a run.
* **Machine as an interpreter** (`MachineInterprets`, on the machine's own map).
  The mapping depends on the list of calls alone (`DividerBy`, `OwedBy`), so
  each call is compared with the interpreter on its own: the CPU's call is an
  instruction, its initialisation a restart, and every other call leaves the
  mapped state as it is. It rests on `MInv`: memory is the cartridge, nothing is
  halted or waits for an interrupt (`NothingInterrupts`, an invariant on any
  map), and no count wraps.
* **Program** (`EmulatorProofs`). The module is built so that the statements of
  `main` are operations of the machine (lemma `ProgramUsesTheMachine`), so
  whatever is proved of it holds here, the interpreter included
  (`ProgramInterprets`).
  `MainGoesForward`: a step is the next statement, or a call with less work left
  after it; the program's length is bounded without a word on fairness. For the
  demonstration the invariant relates the statement, the list of calls and the
  counts (`AtStatement`, `Counting`): `DemoIsInTime`, `EmulatorTypeCorrect`.
  `BannersAgree` compares the shift with the table for every documented code.
* **What is printed** (`RegistersComputed`, on the machine's own map). `Computed`
  is recursive, by doubling: `after[k]` is `2^k` instructions. By induction each
  `after[k]` keeps states sound, leaves completed ones alone and commutes with
  one instruction (`AfterOrderly`), and makes `4 * 2^k` cycles or completes them
  (`AllComplete`). So an instruction more or less at the start makes no
  difference in the end (`ComputedIsEnd`), and it is an invariant that what the
  run has reached still `Leads` to the same result: from the start registers, by
  what restarts leave (`Restarting`), call by call, to the last count. It rests
  on memory being the cartridge and on nothing interrupting the CPU.
* **Header checksum** (`EmulatorProofs`). `ChecksumsGuard` is about a recursive
  function. `Least` (a set of naturals that is not empty has a least element,
  from the well-foundedness of `<`) gives induction in the form of a set of
  naturals (`NatInduct`); with it the running sum exists, is the one the
  recursion defines, and differs between headers that differ in one byte
  (`LessInjective`: subtracting is injective modulo 256).
* **Logger** (`LoggerProofs`). `DInv` says that the loop counter is at the start
  of a row that ends within the width, and that the bytes before it are dumped:
  `DumpsAreComplete`, `LongDumpsRunAway`. For the numbers, `Numbered` adds that
  all are below the count and that the file that is *open* has the latest, which
  keeps it without a gap; a file that is closed may miss numbers, and is emptied
  before it gets another. `NumbersIdentifyStates`. `TypeCorrect` needs neither.
  `DumpsAdvance`: of a dump that fits, every turn is a row further.

Every invariant and every action property of the passing runs, and every
refinement, is proved. Only model-checked are the four liveness properties
(`OverflowEventuallyAnswered`, `RunEnds`, `EmulatorEnds`, `DumpEnds`): liveness
under fairness is outside what TLAPS proves here. The step each of them repeats is
proved: `AnsweredByNextInstruction`, `RunAdvances`, `OperationsEnd` with
`MainAdvances`, `DumpAdvances`. What is missing is only that a step which may
always be taken is taken. Model-checked only, because their violation is a
finding, are the properties of the violated runs; what the code does instead is
proved for all but HALT, where it is the guard of `Wait`.

The assumptions: those of the modules (`...Assumption`), which TLC evaluates, and
in a theorem's `ASSUME` where it needs more. `Regions = GameBoyRegions` is the map
the code builds; `InRam(IF_REG)` and its like hold of the flat map of the tests
and say that a register is memory at all; `TimaLast = 255` is the code's width.

## Not modelled

The interface sample, the factorial library and the fuzz stub that came with the
project template, and the build files: none touches the emulator. Of what is
modelled: the wording of the log and of the program's output, the first 0x34
bytes of the header (entry point and logo, which no accessor reads), and reading
a file byte by byte: a load fails in one of three ways or yields the contents.
The joypad, the PPU and memory banking are not in the code.

The machine on a map whose RAM answers is no state of this program
(`GameBoyHasNoRam`), so nothing is checked of it; the parts on working memory
are what the runs on flat memory are for.

## Plan

Done, in the order the machine's behaviour depends on it: memory, timer,
interrupts, CPU and loads, composition; one abstract specification each for the
timer and for interrupts; the cartridge and its header; the emulator program as a
front end of the machine; the logger; theorems for the composition, the program
and the logger; the machine as an interpreter of its cartridge. Left:

1. Theorems about the rest of the banner: that the title ends where the first
   zero is, by the least elements the checksum's induction uses.
2. On working memory, if a map whose RAM answers is ever built: the machine
   as an interpreter with a timer, which `TimerCountsExactly` and
   `DispatchIsAcknowledge` are the parts of.
3. The checks of the accessors that are read nowhere but in the banner (title,
   region, global checksum), should a caller appear.
