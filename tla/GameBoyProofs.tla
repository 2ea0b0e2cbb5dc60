---------------------------- MODULE GameBoyProofs ----------------------------
(* The composed machine: its parts keep their invariants whatever order the  *)
(* front end calls its operations in, CPU and timer keep the same time, and  *)
(* a restart is complete.                                                    *)
EXTENDS MachineRefinement, MemoryMapProofs

-----------------------------------------------------------------------------
(* The parts' own assumptions hold, so their lemmas may be cited. *)

LEMMA SameTypes ==
  /\ CPU!RegionType = RegionType /\ Clock!RegionType = RegionType
  /\ Controller!RegionType = RegionType
  /\ CPU!Byte = Byte /\ Clock!Byte = Byte /\ Controller!Byte = Byte
  /\ CPU!Word = Word
BY DEF CPU!RegionType, Clock!RegionType, Controller!RegionType, RegionType,
       CPU!Byte, Clock!Byte, Controller!Byte, Byte,
       CPU!Word, Clock!Word, Controller!Word, Word

LEMMA SameMemories ==
  ASSUME NEW m
  PROVE  /\ CPU!IsMemory(m) <=> IsMemory(m)
         /\ Clock!IsMemory(m) <=> IsMemory(m)
         /\ Controller!IsMemory(m) <=> IsMemory(m)
BY DEF CPU!IsMemory, Clock!IsMemory, Controller!IsMemory, IsMemory,
       CPU!Byte, Clock!Byte, Controller!Byte, Byte,
       CPU!Word, Clock!Word, Controller!Word, Word

\* What the timer assumes of its inputs.
LEMMA ClockInputs ==
  /\ DivWrap \in {64, 1024, 65536} /\ 255 \in Clock!Byte
  /\ {4, 8, 12, 16, 20} \subseteq Clock!Byte \ {0}
  /\ TacValues \subseteq Clock!Byte
  /\ \A v \in TacValues : 2 * Clock!InputBit(Clock!ClockSelect(v)) <= DivWrap
<1>1. ASSUME NEW select PROVE Clock!InputBit(select) \in {8, 32, 128, 512}
  BY DEF Clock!InputBit
<1>2. DivWrap \in {1024, 65536}
  BY GameBoyAssumption
<1> QED
  BY <1>1, <1>2, GameBoyAssumption, SameTypes DEF Clock!Byte

-----------------------------------------------------------------------------
(* The calls an operation may still have to make. *)

Updates == {<<"timer_update", "handle_serial_transfer">>, <<"timer_update", "count">>}
Serial == <<"handle_serial_transfer">>
Count == <<"count">>
ControllerNext == <<"controller_initialize", "timer_initialize">>
TimerNext == <<"timer_initialize">>

Lists == {<<>>, StepCalls, Turn, Serial, Count, RestartCalls, ControllerNext, TimerNext}
         \cup Updates

\* The first call of each list, and the list without it.
LEMMA Heads ==
  /\ Head(StepCalls) = "execute_instruction" /\ Head(Turn) = "execute_instruction"
  /\ \A list \in Updates : Head(list) = "timer_update"
  /\ Head(Serial) = "handle_serial_transfer" /\ Head(Count) = "count"
  /\ Head(RestartCalls) = "cpu_initialize"
  /\ Head(ControllerNext) = "controller_initialize"
  /\ Head(TimerNext) = "timer_initialize"
BY DEF StepCalls, Turn, Updates, Serial, Count, RestartCalls, ControllerNext, TimerNext

LEMMA Tails ==
  /\ Tail(StepCalls) \in Updates /\ Tail(Turn) \in Updates
  /\ \A list \in Updates : Tail(list) \in {Serial, Count}
  /\ Tail(Serial) = <<>> /\ Tail(RestartCalls) = ControllerNext
  /\ Tail(ControllerNext) = TimerNext /\ Tail(TimerNext) = <<>>
BY DEF StepCalls, Turn, Updates, Serial, Count, RestartCalls, ControllerNext, TimerNext

LEMMA ListsDiffer ==
  /\ \A list \in Updates : list \notin {<<>>, StepCalls, Turn, Serial, Count,
                                        RestartCalls, ControllerNext, TimerNext}
  /\ TimerNext \notin {<<>>, StepCalls, Turn, Serial, Count, RestartCalls, ControllerNext}
  /\ ControllerNext \notin {<<>>, StepCalls, Turn, Serial, Count, RestartCalls}
  /\ Count \notin {<<>>, StepCalls, Turn, Serial, RestartCalls}
BY DEF StepCalls, Turn, Updates, Serial, Count, RestartCalls, ControllerNext, TimerNext

\* All the lists there are, none equal to another.
StepUpdate == <<"timer_update", "handle_serial_transfer">>
RunUpdate == <<"timer_update", "count">>

LEMMA AllDiffer ==
  /\ StepCalls \notin {<<>>, Turn, StepUpdate, RunUpdate, Serial, Count}
  /\ StepCalls \notin {RestartCalls, ControllerNext, TimerNext}
  /\ Turn \notin {<<>>, StepUpdate, RunUpdate, Serial, Count}
  /\ Turn \notin {RestartCalls, ControllerNext, TimerNext}
  /\ StepUpdate \notin {<<>>, RunUpdate, Serial, Count}
  /\ StepUpdate \notin {RestartCalls, ControllerNext, TimerNext}
  /\ RunUpdate \notin {<<>>, Serial, Count, RestartCalls, ControllerNext, TimerNext}
  /\ Serial \notin {<<>>, Count, RestartCalls, ControllerNext, TimerNext}
  /\ Count \notin {<<>>, RestartCalls, ControllerNext, TimerNext}
  /\ RestartCalls \notin {<<>>, ControllerNext, TimerNext}
  /\ ControllerNext \notin {<<>>, TimerNext} /\ TimerNext # <<>>
BY DEF StepCalls, Turn, StepUpdate, RunUpdate, Serial, Count, RestartCalls,
       ControllerNext, TimerNext

\* What a call does to the list, by the call.
LEMMA Calls ==
  ASSUME todo \in Lists, Call
  PROVE  \/ todo \in {StepCalls, Turn} /\ execute_instruction /\ todo' \in Updates
         \/ todo \in Updates /\ timer_update /\ todo' \in {Serial, Count}
         \/ todo = Serial /\ handle_serial_transfer /\ todo' = <<>>
         \/ todo = Count /\ count_cycles /\ todo' \in {Turn, <<>>}
         \/ todo = RestartCalls /\ cpu_initialize /\ todo' = ControllerNext
         \/ todo = ControllerNext /\ controller_initialize /\ todo' = TimerNext
         \/ todo = TimerNext /\ timer_initialize /\ todo' = <<>>
<1>1. /\ todo # <<>>
      /\ todo' = IF todo = Count THEN (IF Again THEN Turn ELSE <<>>) ELSE Tail(todo)
  BY DEF Call, Count
<1>2. /\ Head(todo) = "execute_instruction" => execute_instruction
      /\ Head(todo) = "timer_update" => timer_update
      /\ Head(todo) = "handle_serial_transfer" => handle_serial_transfer
      /\ Head(todo) = "cpu_initialize" => cpu_initialize
      /\ Head(todo) = "controller_initialize" => controller_initialize
      /\ Head(todo) = "timer_initialize" => timer_initialize
      /\ Head(todo) = "count" => count_cycles
  BY DEF Call
<1>3. CASE todo = Count
  BY <1>1, <1>2, <1>3, Heads
<1>4. CASE todo \in {StepCalls, Turn}
  BY <1>1, <1>2, <1>4, Heads, Tails, ListsDiffer
<1>5. CASE todo \in Updates
  BY <1>1, <1>2, <1>5, Heads, Tails, ListsDiffer
<1>6. CASE todo \in {Serial, RestartCalls, ControllerNext, TimerNext}
  BY <1>1, <1>2, <1>6, Heads, Tails, ListsDiffer
<1> QED
  BY <1>1, <1>3, <1>4, <1>5, <1>6 DEF Lists

-----------------------------------------------------------------------------
(* The inductive invariant. *)

\* The invariants of the parts, over the one memory they share.
Parts ==
  /\ CPU!IInv /\ Clock!Inv
  /\ if_ \in Byte /\ ie_ \in Byte /\ IsMemory(mem)

\* A cartridge read from the files.
Plugged(rom) ==
  /\ IsRom(rom) /\ \A a \in DOMAIN rom.bytes : InRom(a)
  /\ rom.size >= HeaderEnd => rom.header = parse_data(rom.bytes)

FrontEnd ==
  /\ Plugged(cartridge) /\ powered_on \in BOOLEAN /\ serial_buffer \in Seq(Byte)
  /\ total \in Totals \cup {0} /\ executed \in Nat

\* While the timer is not updated yet it lags by the instruction just executed.
Pace ==
  /\ elapsed \in Nat
  /\ todo \in Updates =>
       /\ cycles \in {4, 8, 12, 16, 20}
       /\ (div_internal + cycles * 4) % DivWrap = (4 * elapsed) % DivWrap
  /\ todo \notin Updates => div_internal = (4 * elapsed) % DivWrap

\* What a restart in progress has done so far.
Restarting ==
  /\ todo \in {ControllerNext, TimerNext} => CpuFresh
  /\ todo = TimerNext => if_ = 225 /\ ie_ = 0

IInv == todo \in Lists /\ Parts /\ FrontEnd /\ Pace /\ Restarting

-----------------------------------------------------------------------------
(* The calls and the parts. *)

\* The CPU's and the timer's invariants from their parts.
LEMMA CpuByParts ==
  CPU!IInv <=> /\ CPU!Sound(regs) /\ IsMemory(mem) /\ cycles \in {0, 4, 8, 12, 16, 20}
               /\ ime \in BOOLEAN /\ halted \in BOOLEAN /\ stopped \in BOOLEAN
BY SameMemories DEF CPU!IInv, CPU!TypeOK, CPU!Sound

LEMMA ExecuteKeeps ==
  ASSUME Parts, execute_instruction
  PROVE  Parts' /\ cycles' \in {4, 8, 12, 16, 20}
<1>1. /\ CPU!Sound(regs') /\ IsMemory(mem') /\ cycles' \in {4, 8, 12, 16, 20}
      /\ ime' \in BOOLEAN /\ halted' \in BOOLEAN /\ stopped' \in BOOLEAN
  BY CPU!ExecutesSound, RegionsAssumption, GameBoyAssumption, SameTypes, SameMemories
     DEF Parts, execute_instruction
<1>2. CPU!IInv'
  BY <1>1, SameMemories DEF CPU!IInv, CPU!TypeOK, CPU!Sound
<1>3. Clock!Inv'
  BY <1>1, SameMemories
     DEF Parts, execute_instruction, timerVars, Clock!Inv, Clock!TypeOK,
         Clock!DelayOnlyWhilePending
<1> QED
  BY <1>1, <1>2, <1>3 DEF Parts, execute_instruction, controllerVars

LEMMA UpdateKeeps ==
  ASSUME Parts, cycles \in {4, 8, 12, 16, 20}, timer_update
  PROVE  Parts' /\ div_internal' = (div_internal + cycles * 4) % DivWrap
<1>1. Clock!Inv'
  BY Clock!UpdateInv, RegionsAssumption, ClockInputs, SameTypes
     DEF Parts, timer_update
<1>2. IsMemory(mem')
  BY <1>1, SameMemories DEF Clock!Inv, Clock!TypeOK
<1> QED
  BY <1>1, <1>2, SameMemories
     DEF Parts, timer_update, cpuVars, controllerVars, Clock!update, Clock!Advanced,
         CPU!IInv, CPU!TypeOK

\* A call that touches memory alone.
LEMMA MemoryKeeps ==
  ASSUME Parts, IsMemory(mem'), UNCHANGED <<cpuVars, timerVars, controllerVars>>
  PROVE  Parts'
BY SameMemories
DEF Parts, cpuVars, timerVars, controllerVars, CPU!IInv, CPU!TypeOK,
    Clock!Inv, Clock!TypeOK, Clock!DelayOnlyWhilePending

LEMMA SerialKeeps ==
  ASSUME Parts, serial_buffer \in Seq(Byte), handle_serial_transfer
  PROVE  Parts' /\ serial_buffer' \in Seq(Byte)
<1>1. SB_ADDR \in Word /\ SC_ADDR \in Word
  BY DEF SB_ADDR, SC_ADDR, Word
<1>2. Read(mem, SB_ADDR) \in Byte /\ Read(mem, SC_ADDR) \in Byte
  BY <1>1, ReadType DEF Parts
<1>3. ClearBit(Read(mem, SC_ADDR), 7) \in Byte
  BY <1>2, SetClearType
<1>4. IsMemory(mem')
  BY <1>1, <1>3, WriteType DEF Parts, handle_serial_transfer
<1>5. serial_buffer' \in Seq(Byte)
  BY <1>2 DEF handle_serial_transfer
<1> QED
  BY <1>4, <1>5, MemoryKeeps DEF handle_serial_transfer

LEMMA CpuInitKeeps ==
  ASSUME Parts, cpu_initialize
  PROVE  Parts' /\ CpuFresh' /\ cycles' = cycles
<1>1. CPU!Sound(regs') /\ regs' = StartRegisters
  BY DEF cpu_initialize, CPU!initialize, CPU!Sound, CPU!RegisterFile,
         CPU!FlagsOnly, CPU!Word, StartRegisters
<1>2. ime' = FALSE /\ halted' = FALSE /\ stopped' = FALSE /\ mem' = mem /\ cycles' = cycles
  BY DEF cpu_initialize, CPU!initialize
<1>3. ime' \in BOOLEAN /\ halted' \in BOOLEAN /\ stopped' \in BOOLEAN
  BY <1>2, Zenon
<1>4. CPU!IInv'
  BY <1>1, <1>2, <1>3 DEF Parts, CPU!IInv, CPU!TypeOK, CPU!Sound
<1>5. Clock!Inv'
  BY <1>2 DEF Parts, cpu_initialize, timerVars, Clock!Inv, Clock!TypeOK,
              Clock!DelayOnlyWhilePending
<1> QED
  BY <1>1, <1>2, <1>4, <1>5 DEF Parts, CpuFresh, cpu_initialize, controllerVars

LEMMA ControllerInitKeeps ==
  ASSUME Parts, controller_initialize
  PROVE  Parts' /\ if_' = 225 /\ ie_' = 0
<1>1. /\ if_' = 225 /\ ie_' = 0 /\ 225 \in Byte /\ 0 \in Byte
      /\ Controller!SetRegisters(225, 0)
  BY DEF controller_initialize, Controller!SetRegisters, Byte
<1>2. IsMemory(mem')
  BY <1>1, Controller!SetRegistersType, SameTypes, SameMemories, RegionsAssumption
     DEF Parts
<1> QED
  BY <1>1, <1>2, SameMemories
     DEF Parts, controller_initialize, cpuVars, timerVars, CPU!IInv, CPU!TypeOK,
         Clock!Inv, Clock!TypeOK, Clock!DelayOnlyWhilePending

LEMMA TimerInitKeeps ==
  ASSUME Parts, timer_initialize
  PROVE  Parts' /\ TimerFresh'
<1>1. Clock!Inv'
  BY Clock!NextInv, RegionsAssumption, ClockInputs, SameTypes
     DEF Parts, timer_initialize, Clock!Next
<1>2. IsMemory(mem')
  BY <1>1, SameMemories DEF Clock!Inv, Clock!TypeOK
<1> QED
  BY <1>1, <1>2, SameMemories
     DEF Parts, timer_initialize, cpuVars, controllerVars, Clock!initialize,
         CPU!IInv, CPU!TypeOK, TimerFresh

-----------------------------------------------------------------------------
(* Cartridges. *)

LEMMA InRomIsWord ==
  ASSUME NEW a \in Nat, InRom(a)
  PROVE  a \in Word
<1>1. PICK i \in 1 .. Len(Regions) : Contains(Regions[i], a)
  BY DEF InRom, Handles
<1>2. Regions[i] \in RegionType
  BY RegionsAssumption
<1> QED
  BY <1>1, <1>2 DEF Contains, RegionType, Word

LEMMA PluggedIsMemory ==
  ASSUME NEW rom, Plugged(rom)
  PROVE  IsMemory(rom.bytes)
<1>1. /\ rom.bytes \in [DOMAIN rom.bytes -> Byte]
      /\ \A a \in DOMAIN rom.bytes : a \in Nat /\ InRom(a)
  BY DEF Plugged, IsRom, IsSparse
<1> QED
  BY <1>1, InRomIsWord DEF IsMemory

LEMMA NewRomPlugged == Plugged(NewRom)
<1>1. NewRom.size = 0 /\ NewRom.bytes = NoBytes /\ NewRom.header = NoHeader
  BY DEF NewRom
<1>2. NoHeader \in [HeaderOffsets -> Byte] /\ DOMAIN NoBytes = {}
      /\ NoBytes \in [DOMAIN NoBytes -> Byte]
  BY DEF NoHeader, NoBytes, Byte
<1> QED
  BY <1>1, <1>2 DEF Plugged, IsRom, IsSparse, HeaderEnd

LEMMA ParsedType ==
  ASSUME NEW bytes, bytes \in [DOMAIN bytes -> Byte]
  PROVE  parse_data(bytes) \in [HeaderOffsets -> Byte]
<1>1. \A offset : At(bytes, offset) \in Byte
  BY DEF At, Byte
<1> QED
  BY <1>1 DEF parse_data

\* However a load ends, the header is the ROM's own if it has room for one.
LEMMA LoadPlugged ==
  ASSUME NEW rom, Plugged(rom), NEW file \in Files
  PROVE  Plugged(load_from_file(rom, file))
<1>1. IsFile(file) /\ \A a \in DOMAIN file.bytes : InRom(a)
  BY GameBoyAssumption
<1>2. CASE file.kind = "sound"
  <2> DEFINE filled == Filled(rom, file)
  <2>1. /\ filled.size = file.size /\ filled.bytes = file.bytes
        /\ filled.header = IF Parses(file) THEN parse_data(file.bytes) ELSE rom.header
    BY DEF Filled
  <2>2. load_from_file(rom, file) = filled
    BY <1>2 DEF load_from_file
  <2> HIDE DEF filled
  <2>3. parse_data(file.bytes) \in [HeaderOffsets -> Byte]
    BY <1>1, ParsedType DEF IsFile, IsSparse
  <2> QED
    BY <1>1, <2>1, <2>2, <2>3 DEF Plugged, IsRom, IsFile, Parses
<1>3. CASE file.kind = "broken"
  <2>1. load_from_file(rom, file) = Emptied(rom)
    BY <1>3 DEF load_from_file
  <2>2. NoBytes \in [DOMAIN NoBytes -> Byte] /\ DOMAIN NoBytes = {}
    BY DEF NoBytes
  <2>3. /\ Emptied(rom).size = 0 /\ Emptied(rom).bytes = NoBytes
        /\ Emptied(rom).header = rom.header
    BY DEF Emptied, Plugged, IsRom
  <2> QED
    BY <2>1, <2>2, <2>3 DEF Plugged, IsRom, IsSparse, HeaderEnd
<1>4. CASE file.kind \notin {"sound", "broken"}
  BY <1>4 DEF load_from_file
<1> QED
  BY <1>2, <1>3, <1>4

LEMMA LoadedType ==
  ASSUME IsMemory(mem), NEW rom, Plugged(rom)
  PROVE  IsMemory(Loaded(rom.bytes))
<1>1. IsMemory(rom.bytes)
  BY PluggedIsMemory
<1> QED
  BY <1>1 DEF Loaded, IsMemory

-----------------------------------------------------------------------------
(* The arithmetic of the pace. *)

LEMMA LagsByInstruction ==
  ASSUME NEW e \in Nat, NEW c \in {4, 8, 12, 16, 20}
  PROVE  /\ (e + c) % DivWrap \in Nat
         /\ (((4 * e) % DivWrap) + c * 4) % DivWrap = (4 * ((e + c) % DivWrap)) % DivWrap
<1>1. CASE DivWrap = 1024
  BY <1>1
<1>2. CASE DivWrap = 65536
  BY <1>2
<1> QED
  BY <1>1, <1>2, GameBoyAssumption

LEMMA ZeroKeepsPace == (4 * 0) % DivWrap = 0
<1>1. CASE DivWrap = 1024
  BY <1>1
<1>2. CASE DivWrap = 65536
  BY <1>2
<1> QED
  BY <1>1, <1>2, GameBoyAssumption

-----------------------------------------------------------------------------
(* Every call and every operation keeps the invariant. *)

\* A list that is no part of a restart owes nothing.
LEMMA NothingOwed ==
  \A list \in {<<>>, StepCalls, Turn, Serial, Count, RestartCalls} \cup Updates :
    list \notin {ControllerNext, TimerNext}
BY ListsDiffer

LEMMA ExecuteStep ==
  ASSUME IInv, todo \in {StepCalls, Turn}, execute_instruction, todo' \in Updates,
         cartridge' = cartridge
  PROVE  IInv'
<1>1. Parts' /\ cycles' \in {4, 8, 12, 16, 20}
  BY ExecuteKeeps DEF IInv
<1>2. todo \notin Updates
  BY ListsDiffer
<1>3. elapsed \in Nat /\ div_internal = (4 * elapsed) % DivWrap
  BY <1>2 DEF IInv, Pace
<1>4. elapsed' = (elapsed + cycles') % DivWrap /\ div_internal' = div_internal
  BY DEF execute_instruction, timerVars
<1>5. Pace'
  <2> DEFINE c == cycles'
  <2>1. c \in {4, 8, 12, 16, 20} /\ elapsed' = (elapsed + c) % DivWrap
    BY <1>1, <1>4
  <2> HIDE DEF c
  <2>2. /\ elapsed' \in Nat
        /\ (div_internal' + c * 4) % DivWrap = (4 * elapsed') % DivWrap
    BY <1>3, <1>4, <2>1, LagsByInstruction
  <2> QED
    BY <2>1, <2>2 DEF Pace, c
<1>6. FrontEnd'
  BY DEF IInv, FrontEnd, execute_instruction, loopVars
<1>7. Restarting'
  BY NothingOwed DEF Restarting
<1> QED
  BY <1>1, <1>5, <1>6, <1>7 DEF IInv, Lists

LEMMA UpdateStep ==
  ASSUME IInv, todo \in Updates, timer_update, todo' \in {Serial, Count},
         cartridge' = cartridge
  PROVE  IInv'
<1>1. /\ cycles \in {4, 8, 12, 16, 20} /\ elapsed \in Nat
      /\ (div_internal + cycles * 4) % DivWrap = (4 * elapsed) % DivWrap
  BY DEF IInv, Pace
<1>2. Parts' /\ div_internal' = (div_internal + cycles * 4) % DivWrap
  BY <1>1, UpdateKeeps DEF IInv
<1>3. Pace'
  BY <1>1, <1>2, ListsDiffer DEF Pace, timer_update
<1>4. FrontEnd'
  BY DEF IInv, FrontEnd, timer_update, loopVars
<1>5. Restarting'
  BY NothingOwed DEF Restarting
<1> QED
  BY <1>2, <1>3, <1>4, <1>5 DEF IInv, Lists

LEMMA SerialStep ==
  ASSUME IInv, todo = Serial, handle_serial_transfer, todo' = <<>>,
         cartridge' = cartridge
  PROVE  IInv'
<1>1. Parts' /\ serial_buffer' \in Seq(Byte)
  BY SerialKeeps DEF IInv, FrontEnd
<1>2. Pace'
  BY ListsDiffer DEF IInv, Pace, handle_serial_transfer, timerVars
<1>3. FrontEnd'
  BY <1>1 DEF IInv, FrontEnd, handle_serial_transfer, loopVars
<1>4. Restarting'
  BY NothingOwed DEF Restarting
<1> QED
  BY <1>1, <1>2, <1>3, <1>4 DEF IInv, Lists

LEMMA CountStep ==
  ASSUME IInv, todo = Count, count_cycles, todo' \in {Turn, <<>>},
         cartridge' = cartridge
  PROVE  IInv'
<1>1. IsMemory(mem) /\ mem' = mem /\ UNCHANGED <<cpuVars, timerVars, controllerVars>>
  BY DEF IInv, Parts, count_cycles
<1>2. Parts'
  BY <1>1, MemoryKeeps DEF IInv
<1>3. Pace'
  BY ListsDiffer DEF IInv, Pace, count_cycles, timerVars
<1>4. Counted(executed) \in Nat
  <2>1. executed \in Nat /\ cycles \in Nat
    BY DEF IInv, Parts, FrontEnd, CPU!IInv, CPU!TypeOK
  <2>2. CountWrap \in Nat /\ CountWrap > 0
    BY GameBoyAssumption
  <2> QED
    BY <2>1, <2>2 DEF Counted
<1>5. FrontEnd'
  BY <1>4 DEF IInv, FrontEnd, count_cycles
<1>6. Restarting'
  BY NothingOwed DEF Restarting
<1> QED
  BY <1>2, <1>3, <1>5, <1>6 DEF IInv, Lists

LEMMA CpuInitStep ==
  ASSUME IInv, todo = RestartCalls, cpu_initialize, todo' = ControllerNext,
         cartridge' = cartridge
  PROVE  IInv'
<1>1. Parts' /\ CpuFresh'
  BY CpuInitKeeps DEF IInv
<1>2. todo' \notin Updates /\ todo' # TimerNext /\ todo \notin Updates
  BY ListsDiffer
<1>3. Pace'
  BY <1>2 DEF IInv, Pace, cpu_initialize, timerVars
<1>4. FrontEnd'
  BY DEF IInv, FrontEnd, cpu_initialize, loopVars
<1>5. Restarting'
  BY <1>1, <1>2 DEF Restarting
<1> QED
  BY <1>1, <1>3, <1>4, <1>5 DEF IInv, Lists

LEMMA ControllerInitStep ==
  ASSUME IInv, todo = ControllerNext, controller_initialize, todo' = TimerNext,
         cartridge' = cartridge
  PROVE  IInv'
<1>1. Parts' /\ if_' = 225 /\ ie_' = 0
  BY ControllerInitKeeps DEF IInv
<1>2. todo' \notin Updates /\ todo \notin Updates
  BY ListsDiffer
<1>3. Pace'
  BY <1>2 DEF IInv, Pace, controller_initialize, timerVars
<1>4. FrontEnd'
  BY DEF IInv, FrontEnd, controller_initialize, loopVars
<1>5. CpuFresh'
  BY DEF IInv, Restarting, CpuFresh, controller_initialize, cpuVars
<1> QED
  BY <1>1, <1>3, <1>4, <1>5 DEF IInv, Lists, Restarting

\* The end of a restart, and the state it ends in.
LEMMA TimerInitStep ==
  ASSUME IInv, todo = TimerNext, timer_initialize, todo' = <<>>,
         cartridge' = cartridge
  PROVE  IInv' /\ Fresh'
<1>1. Parts' /\ TimerFresh'
  BY TimerInitKeeps DEF IInv
<1>2. Pace'
  <2>1. elapsed' = 0 /\ 0 \in Nat /\ todo' \notin Updates
    BY ListsDiffer DEF timer_initialize
  <2> QED
    BY <1>1, <2>1, ZeroKeepsPace DEF Pace, TimerFresh
<1>3. FrontEnd' /\ powered_on'
  <2>1. powered_on' = TRUE /\ UNCHANGED <<serial_buffer, total, executed>>
    BY DEF timer_initialize, loopVars
  <2>2. powered_on' \in BOOLEAN
    BY <2>1, Zenon
  <2> QED
    BY <2>1, <2>2 DEF IInv, FrontEnd
<1>4. Restarting'
  BY NothingOwed DEF Restarting
<1>5. CpuFresh' /\ if_' = 225 /\ ie_' = 0
  BY DEF IInv, Restarting, CpuFresh, timer_initialize, cpuVars, controllerVars
<1> QED
  BY <1>1, <1>2, <1>3, <1>4, <1>5 DEF IInv, Lists, Fresh

LEMMA CallKeeps ==
  ASSUME IInv, Call
  PROVE  IInv' /\ (todo = TimerNext => Fresh')
<1>1. cartridge' = cartridge
  BY DEF Call
<1>2. \/ todo \in {StepCalls, Turn} /\ execute_instruction /\ todo' \in Updates
      \/ todo \in Updates /\ timer_update /\ todo' \in {Serial, Count}
      \/ todo = Serial /\ handle_serial_transfer /\ todo' = <<>>
      \/ todo = Count /\ count_cycles /\ todo' \in {Turn, <<>>}
      \/ todo = RestartCalls /\ cpu_initialize /\ todo' = ControllerNext
      \/ todo = ControllerNext /\ controller_initialize /\ todo' = TimerNext
      \/ todo = TimerNext /\ timer_initialize /\ todo' = <<>>
  BY Calls DEF IInv
<1> QED
  BY <1>1, <1>2, ExecuteStep, UpdateStep, SerialStep, CountStep, CpuInitStep,
     ControllerInitStep, TimerInitStep, ListsDiffer

\* An operation that only names the calls to make, or the ones a load does.
LEMMA Starts ==
  ASSUME IInv, Idle, UNCHANGED machine, IsMemory(mem'), FrontEnd',
         todo' \in {<<>>, StepCalls, Turn, RestartCalls}
  PROVE  IInv'
<1>1. UNCHANGED <<cpuVars, timerVars, controllerVars, elapsed>>
  BY DEF machine
<1>2. Parts'
  BY <1>1, MemoryKeeps DEF IInv
<1>3. todo \notin Updates /\ todo' \notin Updates
  BY ListsDiffer DEF Idle
<1>4. Pace'
  BY <1>1, <1>3 DEF IInv, Pace, timerVars
<1>5. Restarting'
  BY NothingOwed DEF Restarting
<1> QED
  BY <1>2, <1>4, <1>5 DEF IInv, Lists

LEMMA LoadKeeps ==
  ASSUME IInv, NEW file \in Files, load_rom(file)
  PROVE  IInv'
<1>1. Plugged(cartridge') /\ IsMemory(mem')
  BY LoadPlugged, LoadedType DEF IInv, Parts, FrontEnd, load_rom
<1>2. FrontEnd'
  BY <1>1 DEF IInv, FrontEnd, load_rom, loopVars
<1>3. todo' \in {<<>>, RestartCalls}
  BY DEF load_rom, Idle
<1> QED
  BY <1>1, <1>2, <1>3, Starts DEF load_rom

LEMMA TimerWriteKeeps ==
  ASSUME IInv, handle_memory_write
  PROVE  IInv'
<1>1. /\ Idle /\ todo' = todo
      /\ UNCHANGED <<cpuVars, controllerVars, cartridge, powered_on, serial_buffer,
                     loopVars>>
  BY DEF handle_memory_write
<1>2. Clock!Inv' /\ \/ div_internal' = 0 /\ elapsed' = 0
                    \/ UNCHANGED <<div_internal, elapsed>>
  <2>1. CASE Clock!reset_div /\ elapsed' = 0
    <3>1. Clock!Inv'
      BY <2>1, Clock!ResetDivInv, RegionsAssumption, ClockInputs, SameTypes
         DEF IInv, Parts
    <3> QED
      BY <2>1, <3>1 DEF Clock!reset_div
  <2>2. CASE /\ \E value \in TacValues : Clock!tac_updated(Read(mem, Clock!TAC_ADDR), value)
             /\ UNCHANGED elapsed
    <3>1. PICK value \in TacValues : Clock!tac_updated(Read(mem, Clock!TAC_ADDR), value)
      BY <2>2
    <3>2. Clock!Inv'
      BY <3>1, Clock!TacUpdatedInv, RegionsAssumption, ClockInputs, SameTypes
         DEF IInv, Parts
    <3> QED
      BY <2>2, <3>1, <3>2 DEF Clock!tac_updated, Clock!divVars
  <2> QED
    BY <2>1, <2>2 DEF handle_memory_write
<1>3. Parts'
  BY <1>1, <1>2, SameMemories
     DEF IInv, Parts, cpuVars, controllerVars, CPU!IInv, CPU!TypeOK, Clock!Inv,
         Clock!TypeOK
<1>4. Pace'
  <2>1. todo = <<>> /\ todo \notin Updates
    BY <1>1, ListsDiffer DEF Idle
  <2> QED
    BY <1>1, <1>2, <2>1, ZeroKeepsPace DEF IInv, Pace
<1>5. FrontEnd' /\ Restarting'
  BY <1>1, NothingOwed DEF IInv, FrontEnd, loopVars, Restarting, Idle
<1> QED
  BY <1>1, <1>3, <1>4, <1>5 DEF IInv

LEMMA OperationKeeps ==
  ASSUME IInv, Operation
  PROVE  IInv' /\ Idle
<1>1. CASE power_on \/ reset \/ step
  <2>1. /\ Idle /\ todo' \in {RestartCalls, StepCalls}
        /\ UNCHANGED <<machine, cartridge, mem, powered_on, serial_buffer, loopVars>>
    BY <1>1 DEF power_on, reset, step
  <2>2. IsMemory(mem') /\ FrontEnd'
    BY <2>1 DEF IInv, Parts, FrontEnd, loopVars
  <2> QED
    BY <2>1, <2>2, Starts
<1>2. CASE \E file \in Files : load_rom(file)
  BY <1>2, LoadKeeps DEF load_rom
<1>3. CASE \E n \in Totals : run_for_cycles(n)
  <2>1. PICK n \in Totals : run_for_cycles(n)
    BY <1>3
  <2>2. /\ Idle /\ todo' = Turn /\ total' = n /\ executed' = 0
        /\ UNCHANGED <<machine, cartridge, mem, powered_on, serial_buffer>>
    BY <2>1 DEF run_for_cycles
  <2>3. IsMemory(mem') /\ FrontEnd'
    BY <2>2 DEF IInv, Parts, FrontEnd
  <2> QED
    BY <2>2, <2>3, Starts
<1>4. CASE handle_memory_write
  BY <1>4, TimerWriteKeeps DEF handle_memory_write
<1>5. CASE read_serial_data
  <2>1. /\ Idle /\ todo' = <<>> /\ serial_buffer # <<>>
        /\ serial_buffer' = Tail(serial_buffer)
        /\ UNCHANGED <<machine, cartridge, mem, powered_on, loopVars>>
    BY <1>5 DEF read_serial_data, Idle
  <2>2. serial_buffer \in Seq(Byte)
    BY DEF IInv, FrontEnd
  <2>3. serial_buffer' \in Seq(Byte)
    BY <2>1, <2>2
  <2>4. IsMemory(mem') /\ FrontEnd'
    BY <2>1, <2>3 DEF IInv, Parts, FrontEnd, loopVars
  <2> QED
    BY <2>1, <2>4, Starts
<1> QED
  BY <1>1, <1>2, <1>3, <1>4, <1>5 DEF Operation

LEMMA InitInv == Init => IInv
<1> SUFFICES ASSUME Init PROVE IInv
  OBVIOUS
<1>1. Plugged(cartridge)
  BY NewRomPlugged, LoadPlugged DEF Init, from_file
<1>2. IsMemory(mem)
  BY <1>1, PluggedIsMemory DEF Init
<1>3. CPU!IInv
  <2>1. ime \in BOOLEAN /\ halted \in BOOLEAN /\ stopped \in BOOLEAN
    BY Zenon DEF Init
  <2>2. CPU!Sound(regs)
    BY DEF Init, CPU!Sound, CPU!RegisterFile, CPU!FlagsOnly, CPU!Word
  <2> QED
    BY <1>2, <2>1, <2>2, SameMemories DEF Init, CPU!IInv, CPU!TypeOK, CPU!Sound
<1>4. Clock!Inv
  <2>1. tima_overflow \in BOOLEAN
    BY Zenon DEF Init
  <2> QED
    BY <1>2, <2>1, SameMemories, GameBoyAssumption
       DEF Init, Clock!Inv, Clock!TypeOK, Clock!DelayOnlyWhilePending, Clock!Byte
<1>5. FrontEnd
  <2>1. powered_on \in BOOLEAN
    BY Zenon DEF Init
  <2> QED
    BY <1>1, <2>1 DEF Init, FrontEnd
<1>6. Pace
  BY ZeroKeepsPace, ListsDiffer DEF Init, Pace
<1>7. Restarting
  BY NothingOwed DEF Init, Restarting
<1>8. if_ \in Byte /\ ie_ \in Byte /\ todo = <<>>
  BY DEF Init, Byte
<1> QED
  BY <1>2, <1>3, <1>4, <1>5, <1>6, <1>7, <1>8 DEF IInv, Parts, Lists

LEMMA NextInv == IInv /\ [Next]_vars => IInv'
<1> SUFFICES ASSUME IInv, [Next]_vars PROVE IInv'
  OBVIOUS
<1>1. CASE Operation
  BY <1>1, OperationKeeps
<1>2. CASE Call
  BY <1>2, CallKeeps
<1>3. CASE UNCHANGED vars
  <2>1. UNCHANGED <<cpuVars, timerVars, controllerVars, cartridge, mem, powered_on,
                    serial_buffer, todo, loopVars, elapsed>>
    BY <1>3 DEF vars, cpuVars, timerVars, controllerVars, loopVars
  <2>2. Parts'
    BY <2>1, MemoryKeeps DEF IInv, Parts
  <2> QED
    BY <2>1, <2>2 DEF IInv, FrontEnd, Pace, Restarting, CpuFresh, cpuVars,
                      timerVars, controllerVars, loopVars
<1> QED
  BY <1>1, <1>2, <1>3 DEF Next

LEMMA InvHolds == Spec => []IInv
BY InitInv, NextInv, PTL DEF Spec

-----------------------------------------------------------------------------
(* What it comes to. *)

\* The composed machine keeps every width, whatever program is loaded and
\* however the front end mixes loads, restarts, steps and frames.
THEOREM TypeCorrect == Spec => []TypeOK
<1>1. IInv => TypeOK
  BY DEF IInv, Parts, FrontEnd, Plugged, Pace, CPU!IInv, CPU!TypeOK, Clock!Inv, TypeOK
<1> QED
  BY <1>1, InvHolds, PTL

\* Between operations the divider is four counts for every cycle executed
\* since it was last zero, as a number of the divider's width.
THEOREM PaceIsKept == Spec => []DividerFollowsCpu
<1>1. IInv => DividerFollowsCpu
  BY ListsDiffer DEF IInv, Pace, DividerFollowsCpu, Idle
<1> QED
  BY <1>1, InvHolds, PTL

\* A cartridge with room for a header is described by its own, however loads
\* ended before.
THEOREM HeadersDescribe == Spec => []HeaderDescribes
<1>1. IInv => HeaderDescribes
  BY DEF IInv, FrontEnd, Plugged, HeaderDescribes
<1> QED
  BY <1>1, InvHolds, PTL

\* A restart, from whatever state, ends in the one state restarts end in.
THEOREM RestartsAreFresh == Spec => RestartIsFresh
<1>1. IInv /\ [Next]_vars => [todo = <<"timer_initialize">> /\ Idle' => Fresh']_vars
  <2> SUFFICES ASSUME IInv, Next, todo = <<"timer_initialize">> PROVE Fresh'
    OBVIOUS
  <2>1. todo = TimerNext /\ ~Idle
    BY ListsDiffer DEF TimerNext, Idle
  <2>2. Call
    BY <2>1, OperationKeeps DEF Next
  <2> QED
    BY <2>1, <2>2, CallKeeps
<1> QED
  BY <1>1, InvHolds, PTL DEF Spec, RestartIsFresh

-----------------------------------------------------------------------------
(* The memory of the machine as it is built, where no RAM answers. *)

NoRam == \A a \in Word : ~InRam(a)

LEMMA SameRam ==
  ASSUME NoRam
  PROVE  /\ \A a \in CPU!Word : ~CPU!InRam(a)
         /\ \A a \in Clock!Word : ~Clock!InRam(a)
         /\ \A a \in Controller!Word : ~Controller!InRam(a)
BY DEF NoRam, InRam, Handles, Contains, CPU!InRam, CPU!Handles, CPU!Contains,
       Clock!InRam, Clock!Handles, Clock!Contains, Controller!InRam,
       Controller!Handles, Controller!Contains, Word, CPU!Word, Clock!Word,
       Controller!Word

\* Registers and requests are written nowhere.
LEMMA DeviceWritesLost ==
  ASSUME NoRam
  PROVE  /\ \A m, div, counter : Clock!WithRegisters(m, div, counter) = m
         /\ \A m : Clock!WithRequest(m) = m
         /\ Controller!SetRegisters(225, 0) => mem' = mem
<1>1. ASSUME NEW m, NEW div, NEW counter
      PROVE  Clock!WithRegisters(m, div, counter) = m
  <2>1. Clock!DIV_ADDR \in Clock!Word /\ Clock!TIMA_ADDR \in Clock!Word
    BY DEF Clock!DIV_ADDR, Clock!TIMA_ADDR, Clock!Word
  <2> QED
    BY <2>1, SameRam DEF Clock!WithRegisters, Clock!Write
<1>2. ASSUME NEW m PROVE Clock!WithRequest(m) = m
  <2>1. Clock!IF_REG \in Clock!Word
    BY DEF Clock!IF_REG, Clock!Word
  <2> QED
    BY <2>1, SameRam DEF Clock!WithRequest, Clock!Write
<1>3. ASSUME Controller!SetRegisters(225, 0) PROVE mem' = mem
  <2>1. Controller!IF_ADDR \in Controller!Word /\ Controller!IE_ADDR \in Controller!Word
    BY DEF Controller!IF_ADDR, Controller!IE_ADDR, Controller!Word
  <2> QED
    BY <1>3, <2>1, SameRam DEF Controller!SetRegisters, Controller!Write
<1> QED
  BY <1>1, <1>2, <1>3

LEMMA CallsKeepMemory ==
  ASSUME NoRam, IInv, Call
  PROVE  mem' = mem
<1>1. CASE execute_instruction
  BY <1>1, CPU!MemoryKept, SameRam, SameTypes, RegionsAssumption, GameBoyAssumption
     DEF IInv, Parts, execute_instruction
<1>2. CASE timer_update
  BY <1>2, DeviceWritesLost DEF timer_update, Clock!update
<1>3. CASE handle_serial_transfer
  <2>1. SC_ADDR \in Word
    BY DEF SC_ADDR, Word
  <2> QED
    BY <1>3, <2>1, WriteLost DEF NoRam, handle_serial_transfer
<1>4. CASE cpu_initialize \/ count_cycles
  BY <1>4 DEF cpu_initialize, CPU!initialize, count_cycles
<1>5. CASE controller_initialize
  BY <1>5, DeviceWritesLost DEF controller_initialize
<1>6. CASE timer_initialize
  BY <1>6, DeviceWritesLost DEF timer_initialize, Clock!initialize
<1>7. \/ execute_instruction \/ timer_update \/ handle_serial_transfer
      \/ cpu_initialize \/ count_cycles \/ controller_initialize \/ timer_initialize
  BY Calls DEF IInv
<1> QED
  BY <1>1, <1>2, <1>3, <1>4, <1>5, <1>6, <1>7

LEMMA MemoryStep ==
  ASSUME NoRam, IInv, MemoryIsCartridge, [Next]_vars
  PROVE  MemoryIsCartridge'
<1>1. CASE Call
  <2>1. cartridge' = cartridge
    BY <1>1 DEF Call
  <2> QED
    BY <1>1, <2>1, CallsKeepMemory DEF MemoryIsCartridge
<1>2. CASE \E file \in Files : load_rom(file)
  <2>1. PICK file \in Files : load_rom(file)
    BY <1>2
  <2>2. Plugged(cartridge) /\ Plugged(cartridge')
    BY <2>1, LoadPlugged DEF IInv, FrontEnd, load_rom
  <2>3. {x \in DOMAIN mem : ~InRom(x)} = {}
    BY <2>2 DEF MemoryIsCartridge, Plugged
  <2>4. mem' = [a \in DOMAIN cartridge'.bytes |-> cartridge'.bytes[a]]
    BY <2>1, <2>3 DEF load_rom, Loaded
  <2>5. cartridge'.bytes \in [DOMAIN cartridge'.bytes -> Byte]
    BY <2>2 DEF Plugged, IsRom, IsSparse
  <2> QED
    BY <2>4, <2>5 DEF MemoryIsCartridge
<1>3. CASE handle_memory_write
  BY <1>3, DeviceWritesLost
     DEF handle_memory_write, Clock!reset_div, Clock!tac_updated, MemoryIsCartridge
<1>4. CASE \/ power_on \/ reset \/ step \/ read_serial_data
           \/ \E n \in Totals : run_for_cycles(n)
  BY <1>4 DEF power_on, reset, step, read_serial_data, run_for_cycles,
              MemoryIsCartridge
<1>5. CASE UNCHANGED vars
  BY <1>5 DEF vars, MemoryIsCartridge
<1> QED
  BY <1>1, <1>2, <1>3, <1>4, <1>5 DEF Next, Operation

\* On the map the code builds, programs see the cartridge loaded last and
\* nothing else, whatever they and the devices stored.
THEOREM MemoryStaysCartridge ==
  ASSUME Regions = GameBoyRegions
  PROVE  Spec => []MemoryIsCartridge
<1>1. NoRam
  BY GameBoyHasNoRam DEF NoRam
<1>2. Init => MemoryIsCartridge
  BY DEF Init, MemoryIsCartridge
<1>3. IInv /\ MemoryIsCartridge /\ [Next]_vars => MemoryIsCartridge'
  BY <1>1, MemoryStep
<1> QED
  BY <1>2, <1>3, InvHolds, PTL DEF Spec

-----------------------------------------------------------------------------
(* Operations end, and nothing interrupts them. *)

\* A run has counted less than it was asked for, and nothing else counts.
Looping ==
  /\ todo \in {Turn, RunUpdate, Count} => total \in Totals /\ executed < total
  /\ todo \in {RunUpdate, Count} => cycles \in {4, 8, 12, 16, 20}
  /\ todo \notin {Turn, RunUpdate, Count} => total = 0 /\ executed = 0

\* The counter of a run does not reach its width.
LEMMA CountsWithoutWrap ==
  ASSUME NEW t \in Totals, NEW e \in Nat, e < t, NEW c \in {4, 8, 12, 16, 20}
  PROVE  (e + c) % CountWrap = e + c
<1>1. t \in Nat /\ t + 20 <= CountWrap /\ CountWrap \in Nat
  BY GameBoyAssumption
<1>2. \A n, d \in Nat : n < d => n % d = n
  OBVIOUS
<1>3. e + c \in Nat /\ e + c < CountWrap
  BY <1>1
<1> QED
  BY <1>1, <1>2, <1>3

\* What the list becomes, call by call.
LEMMA CallLists ==
  ASSUME IInv, Call
  PROVE  \/ todo = StepCalls /\ execute_instruction /\ todo' = StepUpdate
         \/ todo = Turn /\ execute_instruction /\ todo' = RunUpdate
         \/ todo = StepUpdate /\ timer_update /\ todo' = Serial
         \/ todo = RunUpdate /\ timer_update /\ todo' = Count
         \/ todo = Serial /\ handle_serial_transfer /\ todo' = <<>>
         \/ todo = Count /\ count_cycles /\ Again /\ todo' = Turn
         \/ todo = Count /\ count_cycles /\ ~Again /\ todo' = <<>>
         \/ todo = RestartCalls /\ cpu_initialize /\ todo' = ControllerNext
         \/ todo = ControllerNext /\ controller_initialize /\ todo' = TimerNext
         \/ todo = TimerNext /\ timer_initialize /\ todo' = <<>>
<1>1. todo' = IF todo = Count THEN (IF Again THEN Turn ELSE <<>>) ELSE Tail(todo)
  BY DEF Call, Count
<1>2. /\ Tail(StepCalls) = StepUpdate /\ Tail(Turn) = RunUpdate
      /\ Tail(StepUpdate) = Serial /\ Tail(RunUpdate) = Count
  BY DEF StepCalls, Turn, StepUpdate, RunUpdate, Serial, Count
<1>3. Updates = {StepUpdate, RunUpdate}
  BY DEF Updates, StepUpdate, RunUpdate
<1>4. \/ todo \in {StepCalls, Turn} /\ execute_instruction
      \/ todo \in Updates /\ timer_update
      \/ todo = Serial /\ handle_serial_transfer /\ todo' = <<>>
      \/ todo = Count /\ count_cycles
      \/ todo = RestartCalls /\ cpu_initialize /\ todo' = ControllerNext
      \/ todo = ControllerNext /\ controller_initialize /\ todo' = TimerNext
      \/ todo = TimerNext /\ timer_initialize /\ todo' = <<>>
  BY Calls DEF IInv
<1> QED
  BY <1>1, <1>2, <1>3, <1>4, AllDiffer

LEMMA Lengths ==
  /\ Len(<<>>) = 0 /\ Len(Serial) = 1 /\ Len(Count) = 1 /\ Len(TimerNext) = 1
  /\ Len(StepUpdate) = 2 /\ Len(RunUpdate) = 2 /\ Len(ControllerNext) = 2
  /\ Len(StepCalls) = 3 /\ Len(Turn) = 3 /\ Len(RestartCalls) = 3
BY DEF Serial, Count, TimerNext, StepUpdate, RunUpdate, ControllerNext, StepCalls,
       Turn, RestartCalls

\* A call of a run keeps the count below the total or ends the run, and
\* leaves less to do.
LEMMA RunCallLoops ==
  ASSUME IInv, Looping, Call, todo \in {Turn, RunUpdate, Count}
  PROVE  Looping' /\ Work' \in Nat /\ Work' < Work
<1>1. /\ total \in Totals /\ total \in Nat /\ executed \in Nat /\ executed < total
  BY GameBoyAssumption DEF Looping, IInv, FrontEnd
<1>2. CASE todo = Turn
  <2>1. execute_instruction /\ todo' = RunUpdate
    BY <1>2, CallLists, AllDiffer
  <2>2. cycles' \in {4, 8, 12, 16, 20} /\ UNCHANGED <<total, executed>>
    BY <2>1, ExecuteKeeps DEF IInv, execute_instruction, loopVars
  <2>3. Looping'
    BY <1>1, <2>1, <2>2, AllDiffer DEF Looping
  <2>4. Work = total - executed + 3 /\ Work' = total - executed + 2
    BY <1>2, <2>1, <2>2, Lengths DEF Work
  <2> QED
    BY <1>1, <2>3, <2>4
<1>3. CASE todo = RunUpdate
  <2>1. timer_update /\ todo' = Count
    BY <1>3, CallLists, AllDiffer
  <2>2. UNCHANGED <<cycles, total, executed>>
    BY <2>1 DEF timer_update, cpuVars, loopVars
  <2>3. Looping'
    BY <1>1, <1>3, <2>1, <2>2, AllDiffer DEF Looping
  <2>4. Work = total - executed + 2 /\ Work' = total - executed + 1
    BY <1>3, <2>1, <2>2, Lengths DEF Work
  <2> QED
    BY <1>1, <2>3, <2>4
<1>4. CASE todo = Count
  <2>1. cycles \in {4, 8, 12, 16, 20}
    BY <1>4 DEF Looping
  <2>2. Counted(executed) = executed + cycles
    BY <1>1, <2>1, CountsWithoutWrap DEF Counted
  <2>3. count_cycles
    BY <1>4, CallLists, AllDiffer
  <2>4. cycles' = cycles
    BY <2>3 DEF count_cycles, cpuVars
  <2>5. Work = total - executed + 1
    BY <1>4, Lengths DEF Work
  <2>6. CASE Again
    <3>1. todo' = Turn
      BY <1>4, <2>6, CallLists, AllDiffer
    <3>2. total' = total /\ executed' = executed + cycles /\ executed + cycles < total
      BY <2>2, <2>3, <2>6 DEF count_cycles, Again
    <3>3. Looping'
      BY <1>1, <2>1, <2>4, <3>1, <3>2, AllDiffer DEF Looping
    <3>4. Work' = total - (executed + cycles) + 3
      BY <3>1, <3>2, Lengths DEF Work
    <3> QED
      BY <1>1, <2>1, <2>5, <3>2, <3>3, <3>4
  <2>7. CASE ~Again
    <3>1. todo' = <<>> /\ total' = 0 /\ executed' = 0
      BY <1>4, <2>3, <2>7, CallLists, AllDiffer DEF count_cycles
    <3>2. Looping' /\ Work' = 0
      BY <3>1, AllDiffer, Lengths DEF Looping, Work
    <3> QED
      BY <1>1, <2>5, <3>2
  <2> QED
    BY <2>6, <2>7
<1> QED
  BY <1>2, <1>3, <1>4

\* Outside a run nothing counts, and the calls left become fewer.
LEMMA OtherCallLoops ==
  ASSUME IInv, Looping, Call, todo \notin {Turn, RunUpdate, Count}
  PROVE  Looping' /\ Work' \in Nat /\ Work' < Work
<1>1. total = 0 /\ executed = 0
  BY DEF Looping
<1>2. UNCHANGED <<total, executed>> /\
      \/ todo = StepCalls /\ todo' = StepUpdate
      \/ todo = StepUpdate /\ todo' = Serial
      \/ todo = Serial /\ todo' = <<>>
      \/ todo = RestartCalls /\ todo' = ControllerNext
      \/ todo = ControllerNext /\ todo' = TimerNext
      \/ todo = TimerNext /\ todo' = <<>>
  BY CallLists DEF execute_instruction, timer_update, handle_serial_transfer,
                   cpu_initialize, controller_initialize, timer_initialize, loopVars
<1>3. Looping'
  BY <1>1, <1>2, AllDiffer DEF Looping
<1>4. Work = Len(todo) /\ Work' = Len(todo')
  <2>1. Len(todo) \in Nat /\ Len(todo') \in Nat
    BY <1>2, Lengths
  <2> QED
    BY <1>1, <1>2, <2>1 DEF Work
<1>5. Len(todo') \in Nat /\ Len(todo') < Len(todo)
  <2>1. CASE todo' = <<>>
    BY <1>2, <2>1, AllDiffer, Lengths
  <2>2. CASE todo' # <<>>
    BY <1>2, <2>2, Lengths
  <2> QED
    BY <2>1, <2>2
<1> QED
  BY <1>3, <1>4, <1>5

LEMMA OperationLoops ==
  ASSUME IInv, Looping, Operation
  PROVE  Looping'
<1>1. total = 0 /\ executed = 0
  BY OperationKeeps, AllDiffer DEF Looping, Idle
<1>2. CASE \E n \in Totals : run_for_cycles(n)
  <2>1. PICK n \in Totals : run_for_cycles(n)
    BY <1>2
  <2>2. todo' = Turn /\ total' = n /\ executed' = 0 /\ n > 0
    BY <2>1 DEF run_for_cycles
  <2> QED
    BY <2>2, AllDiffer DEF Looping
<1>3. CASE ~(\E n \in Totals : run_for_cycles(n))
  <2>1. UNCHANGED <<total, executed>> /\ todo' \in {<<>>, StepCalls, RestartCalls}
    BY <1>3 DEF Operation, power_on, reset, step, load_rom, handle_memory_write,
                read_serial_data, loopVars, Idle
  <2> QED
    BY <1>1, <2>1, AllDiffer DEF Looping
<1> QED
  BY <1>2, <1>3

LEMMA LoopingHolds == Spec => []Looping
<1>1. Init => Looping
  BY AllDiffer DEF Init, Looping
<1>2. IInv /\ Looping /\ [Next]_vars => Looping'
  <2> SUFFICES ASSUME IInv, Looping, [Next]_vars PROVE Looping'
    OBVIOUS
  <2>1. CASE UNCHANGED vars
    BY <2>1 DEF vars, Looping
  <2> QED
    BY <2>1, RunCallLoops, OtherCallLoops, OperationLoops DEF Next
<1> QED
  BY <1>1, <1>2, InvHolds, PTL DEF Spec

\* Every operation ends, on any map and whatever the program: with each call
\* it makes less is left, so a run of n cycles makes n + 3 calls at most.
THEOREM EveryOperationEnds == Spec => OperationsEnd
<1>1. IInv /\ Looping /\ [Next]_vars => [~Idle => Work' \in Nat /\ Work' < Work]_vars
  BY OperationKeeps, RunCallLoops, OtherCallLoops DEF Next
<1> QED
  BY <1>1, InvHolds, LoopingHolds, PTL DEF Spec, OperationsEnd

\* Nothing has set IME, HALT or STOP.
Unattended == ~ime /\ ~halted /\ ~stopped

\* The timer's requests reach no program: enable_interrupts, halt_cpu and
\* stop_cpu have no caller, no handler stands in for them, and a CPU without
\* IME takes no interrupt.  So on any map an instruction is always the next
\* one of the program.
THEOREM NothingInterrupts == Spec => []Unattended
<1>1. Init => Unattended
  BY DEF Init, Unattended
<1>2. IInv /\ Unattended /\ [Next]_vars => Unattended'
  <2> SUFFICES ASSUME IInv, Unattended, [Next]_vars PROVE Unattended'
    OBVIOUS
  <2>1. CASE execute_instruction
    <3>1. CPU!Instruction
      BY <2>1 DEF Unattended, execute_instruction, CPU!execute_instruction, CPU!Wait,
                  CPU!Interrupted
    <3> QED
      BY <3>1 DEF CPU!Instruction, CPU!flags, Unattended
  <2>2. CASE cpu_initialize
    BY <2>2 DEF cpu_initialize, CPU!initialize, Unattended
  <2>3. CASE \/ timer_update \/ handle_serial_transfer \/ count_cycles
             \/ controller_initialize \/ timer_initialize
    BY <2>3 DEF timer_update, handle_serial_transfer, count_cycles,
                controller_initialize, timer_initialize, cpuVars, Unattended
  <2>4. CASE Operation
    BY <2>4 DEF Operation, power_on, reset, step, load_rom, run_for_cycles,
                handle_memory_write, read_serial_data, machine, cpuVars, Unattended
  <2>5. CASE UNCHANGED vars
    BY <2>5 DEF vars, Unattended
  <2> QED
    BY <2>1, <2>2, <2>3, <2>4, <2>5, Calls DEF IInv, Next
<1> QED
  BY <1>1, <1>2, InvHolds, PTL DEF Spec

-----------------------------------------------------------------------------
(* The machine interprets its cartridge.                                     *)

\* What the mapping makes of a list and of what it counts.
DividerBy(list, div, c) ==
  IF list \in {ControllerNext, TimerNext} THEN 0
  ELSE IF list \in {StepUpdate, RunUpdate} THEN (div + 4 * c) % DivWrap
  ELSE div
OwedBy(list, t, e, c) ==
  IF list = StepCalls THEN 1
  ELSE IF list = Turn THEN AtLeastZero(t - e)
  ELSE IF list \in {RunUpdate, Count} THEN AtLeastZero(t - e - c)
  ELSE 0

LEMMA MappedBy ==
  /\ Divider = DividerBy(todo, div_internal, cycles)
  /\ Owed = OwedBy(todo, total, executed, cycles)
  /\ Restarted <=> todo \in {ControllerNext, TimerNext}
BY DEF Divider, Owed, Restarted, TimerBehind, CountBehind, DividerBy, OwedBy,
       StepUpdate, RunUpdate, Count, ControllerNext, TimerNext

LEMMA MappedNextBy ==
  /\ Divider' = DividerBy(todo', div_internal', cycles')
  /\ Owed' = OwedBy(todo', total', executed', cycles')
  /\ Restarted' <=> todo' \in {ControllerNext, TimerNext}
BY DEF Divider, Owed, Restarted, TimerBehind, CountBehind, DividerBy, OwedBy,
       StepUpdate, RunUpdate, Count, ControllerNext, TimerNext

LEMMA DividerCases ==
  ASSUME NEW div, NEW c
  PROVE  /\ \A list \in {<<>>, StepCalls, Turn, Serial, Count, RestartCalls} :
              DividerBy(list, div, c) = div
         /\ DividerBy(StepUpdate, div, c) = (div + 4 * c) % DivWrap
         /\ DividerBy(RunUpdate, div, c) = (div + 4 * c) % DivWrap
         /\ DividerBy(ControllerNext, div, c) = 0
         /\ DividerBy(TimerNext, div, c) = 0
BY AllDiffer DEF DividerBy

LEMMA OwedCases ==
  ASSUME NEW t, NEW e, NEW c
  PROVE  /\ \A list \in {<<>>, StepUpdate, Serial, RestartCalls, ControllerNext, TimerNext} :
              OwedBy(list, t, e, c) = 0
         /\ OwedBy(StepCalls, t, e, c) = 1
         /\ OwedBy(Turn, t, e, c) = AtLeastZero(t - e)
         /\ OwedBy(RunUpdate, t, e, c) = AtLeastZero(t - e - c)
         /\ OwedBy(Count, t, e, c) = AtLeastZero(t - e - c)
BY AllDiffer DEF OwedBy

\* What the mapping rests on besides the machine's invariant.
MInv == IInv /\ MemoryIsCartridge /\ Unattended /\ Looping

-----------------------------------------------------------------------------
(* The calls, each as a step of the interpreter or none.                     *)

\* Nothing of the interpreter moves.
Unmoved ==
  UNCHANGED <<powered_on \/ Restarted, cartridge.bytes, regs, Divider, Owed,
              todo = RestartCalls>>

Moves == Ideal!Next \/ Unmoved

\* The CPU's call is an instruction of the interpreter.
LEMMA ExecuteMoves ==
  ASSUME MInv, execute_instruction, cartridge' = cartridge,
         \/ todo = StepCalls /\ todo' = StepUpdate
         \/ todo = Turn /\ todo' = RunUpdate
  PROVE  Moves
<1> DEFINE result == CPU!Execute(regs, cartridge.bytes)
<1>1. CPU!Instruction
  BY DEF MInv, Unattended, execute_instruction, CPU!execute_instruction, CPU!Wait,
         CPU!Interrupted
<1>2. regs' = result.regs /\ cycles' = result.cycles
  BY <1>1 DEF MInv, MemoryIsCartridge, CPU!Instruction
<1> HIDE DEF result
<1>4. /\ cycles' \in {4, 8, 12, 16, 20}
      /\ UNCHANGED <<div_internal, powered_on, total, executed>>
  BY ExecuteKeeps DEF MInv, IInv, execute_instruction, timerVars, loopVars
<1>6. ~Restarted /\ ~Restarted'
  BY MappedBy, MappedNextBy, AllDiffer
<1>7. /\ Divider = div_internal
      /\ Divider' = (div_internal + 4 * result.cycles) % DivWrap
  BY <1>2, <1>4, MappedBy, MappedNextBy, DividerCases
<1>8. Owed > 0 /\ Owed' = IF result.cycles < Owed THEN Owed - result.cycles ELSE 0
  <2> DEFINE c == cycles'
  <2>1. c \in Nat /\ 4 <= c /\ c = result.cycles
    BY <1>2, <1>4
  <2> HIDE DEF c
  <2>2. CASE todo = StepCalls /\ todo' = StepUpdate
    <3>1. Owed = 1 /\ Owed' = 0
      BY <2>2, MappedBy, MappedNextBy, OwedCases
    <3> QED
      BY <2>1, <3>1
  <2>3. CASE todo = Turn /\ todo' = RunUpdate
    <3>1. total \in Nat /\ executed \in Nat /\ executed < total
      BY <2>3, GameBoyAssumption DEF MInv, Looping, IInv, FrontEnd
    <3>2. Owed = AtLeastZero(total - executed)
      BY <2>3, MappedBy, OwedCases
    <3>3. Owed' = AtLeastZero(total - executed - c)
      BY <1>4, <2>3, MappedNextBy, OwedCases DEF c
    <3> QED
      BY <2>1, <3>1, <3>2, <3>3 DEF AtLeastZero
  <2> QED
    BY <2>2, <2>3
<1>9. UNCHANGED <<powered_on \/ Restarted, cartridge.bytes>>
  BY <1>4, <1>6
<1>10. UNCHANGED (todo = RestartCalls)
  BY AllDiffer
<1>11. Ideal!Instruction
  BY <1>2, <1>7, <1>8, <1>9, <1>10 DEF Ideal!Instruction, Ideal!Less, result
<1> QED
  BY <1>11 DEF Moves, Ideal!Next

\* The timer catches up with what is taken as done.
LEMMA UpdateMoves ==
  ASSUME MInv, timer_update, cartridge' = cartridge,
         \/ todo = StepUpdate /\ todo' = Serial
         \/ todo = RunUpdate /\ todo' = Count
  PROVE  Unmoved
<1>1. cycles \in {4, 8, 12, 16, 20}
  BY DEF MInv, IInv, Pace, Updates, StepUpdate, RunUpdate
<1>2. div_internal' = (div_internal + cycles * 4) % DivWrap
  BY <1>1, UpdateKeeps DEF MInv, IInv
<1>3. UNCHANGED <<regs, cycles, powered_on, total, executed>>
  BY DEF timer_update, cpuVars, loopVars
<1>4. ~Restarted /\ ~Restarted'
  BY MappedBy, MappedNextBy, AllDiffer
<1>5. Divider' = Divider
  <2>1. Divider = (div_internal + 4 * cycles) % DivWrap /\ Divider' = div_internal'
    BY MappedBy, MappedNextBy, DividerCases
  <2> QED
    BY <1>1, <1>2, <2>1
<1>6. Owed' = Owed
  BY <1>3, MappedBy, MappedNextBy, OwedCases
<1>7. UNCHANGED <<powered_on \/ Restarted, cartridge.bytes>>
  BY <1>3, <1>4
<1>8. UNCHANGED (todo = RestartCalls)
  BY AllDiffer
<1> QED
  BY <1>1, <1>3, <1>5, <1>6, <1>7, <1>8 DEF Unmoved

LEMMA SerialMoves ==
  ASSUME MInv, handle_serial_transfer, cartridge' = cartridge,
         todo = Serial, todo' = <<>>
  PROVE  Unmoved
<1>1. UNCHANGED <<regs, cycles, div_internal, powered_on>>
  BY DEF handle_serial_transfer, cpuVars, timerVars
<1>2. ~Restarted /\ ~Restarted'
  BY MappedBy, MappedNextBy, AllDiffer
<1>3. Divider' = Divider /\ Owed' = Owed
  BY <1>1, MappedBy, MappedNextBy, DividerCases, OwedCases
<1>4. UNCHANGED <<powered_on \/ Restarted, cartridge.bytes>>
  BY <1>1, <1>2
<1>5. UNCHANGED (todo = RestartCalls)
  BY AllDiffer
<1> QED
  BY <1>1, <1>3, <1>4, <1>5 DEF Unmoved

\* The count of the loop catches up, and the loop ends with nothing owed.
LEMMA CountMoves ==
  ASSUME MInv, count_cycles, cartridge' = cartridge, todo = Count,
         \/ Again /\ todo' = Turn
         \/ ~Again /\ todo' = <<>>
  PROVE  Unmoved
<1>1. /\ total \in Totals /\ total \in Nat /\ executed \in Nat /\ executed < total
      /\ cycles \in {4, 8, 12, 16, 20}
  BY GameBoyAssumption, AllDiffer DEF MInv, Looping, IInv, FrontEnd
<1>2. Counted(executed) = executed + cycles
  BY <1>1, CountsWithoutWrap DEF Counted
<1>3. UNCHANGED <<regs, cycles, div_internal, powered_on>>
  BY DEF count_cycles, cpuVars, timerVars
<1>4. ~Restarted /\ ~Restarted'
  BY MappedBy, MappedNextBy, AllDiffer
<1>5. Divider' = Divider
  BY <1>3, MappedBy, MappedNextBy, DividerCases
<1>6. Owed = AtLeastZero(total - executed - cycles)
  BY MappedBy, OwedCases
<1>9. UNCHANGED (todo = RestartCalls)
  BY AllDiffer
<1>7. CASE Again /\ todo' = Turn
  <2>1. total' = total /\ executed' = executed + cycles /\ executed + cycles < total
    BY <1>2, <1>7 DEF count_cycles, Again
  <2>2. Owed' = AtLeastZero(total - (executed + cycles))
    BY <1>7, <2>1, MappedNextBy, OwedCases
  <2>3. Owed' = Owed
    BY <1>1, <1>6, <2>2
  <2> QED
    BY <1>3, <1>4, <1>5, <1>9, <2>3 DEF Unmoved
<1>8. CASE ~Again /\ todo' = <<>>
  <2>1. ~(executed + cycles < total)
    BY <1>2, <1>8 DEF Again
  <2>2. Owed' = 0
    BY <1>8, MappedNextBy, OwedCases
  <2>3. Owed = 0
    BY <1>1, <1>6, <2>1 DEF AtLeastZero
  <2> QED
    BY <1>3, <1>4, <1>5, <1>9, <2>2, <2>3 DEF Unmoved
<1> QED
  BY <1>7, <1>8

\* The first call of a restart is the interpreter's, the others catch up.
LEMMA RestartMoves ==
  ASSUME MInv, cartridge' = cartridge,
         \/ todo = RestartCalls /\ cpu_initialize /\ todo' = ControllerNext
         \/ todo = ControllerNext /\ controller_initialize /\ todo' = TimerNext
         \/ todo = TimerNext /\ timer_initialize /\ todo' = <<>>
  PROVE  Moves
<1>2. Owed = 0 /\ Owed' = 0
  BY MappedBy, MappedNextBy, OwedCases
<1>3. CASE todo = RestartCalls /\ cpu_initialize /\ todo' = ControllerNext
  <2>1. Divider' = 0 /\ Restarted'
    BY <1>3, MappedNextBy, DividerCases
  <2>2. regs' = [af |-> 432, bc |-> 19, de |-> 216, hl |-> 333, sp |-> 65534, pc |-> 256]
    BY <1>3 DEF cpu_initialize, CPU!initialize, CPU!FlagsOnly
  <2>3. (todo = RestartCalls) /\ (todo' = RestartCalls) = FALSE
    BY <1>3, AllDiffer
  <2>4. (powered_on \/ Restarted)' = TRUE
    BY <2>1
  <2>5. Ideal!Restart
    BY <1>2, <2>1, <2>2, <2>3, <2>4 DEF Ideal!Restart
  <2> QED
    BY <2>5 DEF Moves, Ideal!Next
<1>4. CASE todo = ControllerNext /\ controller_initialize /\ todo' = TimerNext
  <2>1. regs' = regs
    BY <1>4 DEF controller_initialize, cpuVars
  <2>2. Divider = 0 /\ Divider' = 0 /\ Restarted /\ Restarted'
    BY <1>4, MappedBy, MappedNextBy, DividerCases
  <2>3. UNCHANGED (powered_on \/ Restarted) /\ UNCHANGED (todo = RestartCalls)
    BY <1>4, <2>2, AllDiffer
  <2> QED
    BY <1>2, <2>1, <2>2, <2>3 DEF Moves, Unmoved
<1>5. CASE todo = TimerNext /\ timer_initialize /\ todo' = <<>>
  <2>1. regs' = regs /\ div_internal' = 0 /\ powered_on'
    BY <1>5 DEF timer_initialize, cpuVars, Clock!initialize
  <2>2. Divider = 0 /\ Divider' = 0 /\ Restarted
    BY <1>5, <2>1, MappedBy, MappedNextBy, DividerCases
  <2>3. UNCHANGED (powered_on \/ Restarted) /\ UNCHANGED (todo = RestartCalls)
    BY <1>5, <2>1, <2>2, AllDiffer
  <2> QED
    BY <1>2, <2>1, <2>2, <2>3 DEF Moves, Unmoved
<1> QED
  BY <1>3, <1>4, <1>5

LEMMA CallMoves ==
  ASSUME MInv, Call
  PROVE  Moves
<1>1. cartridge' = cartridge
  BY DEF Call
<1> QED
  BY <1>1, CallLists, ExecuteMoves, UpdateMoves, SerialMoves, CountMoves,
     RestartMoves DEF MInv, Moves

-----------------------------------------------------------------------------
(* The operations: between them nothing is owed and nothing lags. *)

LEMMA IdleMapped ==
  ASSUME todo = <<>>
  PROVE  Owed = 0 /\ Divider = div_internal /\ ~Restarted /\ todo # RestartCalls
BY MappedBy, DividerCases, OwedCases, AllDiffer

LEMMA StaysIdle ==
  ASSUME todo' \in {<<>>, RestartCalls}
  PROVE  Owed' = 0 /\ Divider' = div_internal' /\ ~Restarted'
BY MappedNextBy, DividerCases, OwedCases, AllDiffer

\* An operation that moves neither registers, divider nor image either leaves
\* all as it is or presses for a restart.
LEMMA QuietMoves ==
  ASSUME MInv, Idle, todo' \in {<<>>, RestartCalls}, UNCHANGED cpuVars,
         UNCHANGED <<div_internal, powered_on, cartridge>>
  PROVE  Moves
<1>1. Owed = 0 /\ Divider = div_internal /\ ~Restarted /\ todo # RestartCalls
  BY IdleMapped DEF Idle
<1>2. Owed' = 0 /\ Divider' = div_internal' /\ ~Restarted'
  BY StaysIdle
<1>3. UNCHANGED (powered_on \/ Restarted)
  BY <1>1, <1>2
<1>4. CASE todo' = <<>>
  <2>1. UNCHANGED (todo = RestartCalls)
    BY <1>1, <1>4, AllDiffer
  <2> QED
    BY <1>1, <1>2, <1>3, <2>1 DEF Moves, Unmoved, cpuVars
<1>5. CASE todo' = RestartCalls
  <2>1. (todo' = RestartCalls) = TRUE
    BY <1>5
  <2>2. Ideal!Press
    BY <1>1, <1>2, <1>3, <2>1 DEF Ideal!Press, Ideal!Resting, cpuVars
  <2> QED
    BY <2>2 DEF Moves, Ideal!Next
<1> QED
  BY <1>4, <1>5

LEMMA LoadMoves ==
  ASSUME MInv, NEW file \in Files, load_rom(file)
  PROVE  Moves
<1>1. /\ Idle /\ todo' \in {<<>>, RestartCalls}
      /\ UNCHANGED cpuVars /\ UNCHANGED <<div_internal, powered_on>>
      /\ cartridge' = load_from_file(cartridge, file)
      /\ todo' = IF Succeeds(file) THEN RestartCalls ELSE <<>>
  BY DEF load_rom, Idle, machine, timerVars
<1>2. Owed = 0 /\ Divider = div_internal /\ ~Restarted /\ todo # RestartCalls
  BY <1>1, IdleMapped DEF Idle
<1>3. Owed' = 0 /\ Divider' = div_internal' /\ ~Restarted'
  BY <1>1, StaysIdle
<1>4. UNCHANGED (powered_on \/ Restarted)
  BY <1>1, <1>2, <1>3
<1>5. CASE Succeeds(file)
  <2>1. cartridge'.bytes \in {f.bytes : f \in {g \in Files : Succeeds(g)}}
    BY <1>1, <1>5 DEF Succeeds, load_from_file, Filled
  <2>2. (todo' = RestartCalls) = TRUE
    BY <1>1, <1>5
  <2>3. Ideal!Insert
    BY <1>1, <1>2, <1>3, <1>4, <2>1, <2>2 DEF Ideal!Insert, Ideal!Resting, cpuVars
  <2> QED
    BY <2>3 DEF Moves, Ideal!Next
<1>6. CASE file.kind = "broken"
  <2>1. cartridge'.bytes = NoBytes
    BY <1>1, <1>6 DEF load_from_file, Emptied
  <2>2. UNCHANGED (todo = RestartCalls)
    BY <1>1, <1>2, <1>6, AllDiffer DEF Succeeds
  <2>3. Ideal!Break
    BY <1>1, <1>2, <1>3, <1>4, <2>1, <2>2 DEF Ideal!Break, Ideal!Resting, cpuVars
  <2> QED
    BY <2>3 DEF Moves, Ideal!Next
<1>7. CASE file.kind \notin {"sound", "broken"}
  <2>1. cartridge' = cartridge
    BY <1>1, <1>7 DEF load_from_file
  <2> QED
    BY <1>1, <2>1, QuietMoves
<1> QED
  BY <1>5, <1>6, <1>7 DEF Succeeds

\* A step asks for one cycle, a run for the cycles it is given.
LEMMA AskMoves ==
  ASSUME MInv, step \/ \E n \in Totals : run_for_cycles(n)
  PROVE  Moves
<1>1. /\ todo = <<>> /\ powered_on /\ UNCHANGED machine
      /\ UNCHANGED <<cartridge, powered_on>>
  BY DEF step, run_for_cycles, Idle
<1>2. UNCHANGED cpuVars /\ UNCHANGED div_internal
  BY <1>1 DEF machine, timerVars
<1>3. Owed = 0 /\ Divider = div_internal /\ ~Restarted /\ todo # RestartCalls
  BY <1>1, IdleMapped
<1>4. /\ Owed' \in Totals \cup {1} /\ Divider' = div_internal'
      /\ ~Restarted' /\ todo' # RestartCalls
  <2>1. CASE step
    <3>1. todo' = StepCalls
      BY <2>1 DEF step
    <3> QED
      BY <3>1, MappedNextBy, DividerCases, OwedCases, AllDiffer
  <2>2. CASE \E n \in Totals : run_for_cycles(n)
    <3>1. PICK n \in Totals : run_for_cycles(n)
      BY <2>2
    <3>2. todo' = Turn /\ total' = n /\ executed' = 0 /\ n > 0 /\ n \in Nat
      BY <3>1, GameBoyAssumption DEF run_for_cycles
    <3>3. Owed' = AtLeastZero(total' - executed')
      BY <3>2, MappedNextBy, OwedCases
    <3>4. Owed' = n
      BY <3>2, <3>3 DEF AtLeastZero
    <3>5. Divider' = div_internal' /\ ~Restarted' /\ todo' # RestartCalls
      BY <3>2, MappedNextBy, DividerCases, AllDiffer
    <3> QED
      BY <3>2, <3>4, <3>5
  <2> QED
    BY <2>1, <2>2
<1>5. UNCHANGED (powered_on \/ Restarted) /\ (powered_on \/ Restarted)
  BY <1>1, <1>3, <1>4
<1>6. UNCHANGED (todo = RestartCalls)
  BY <1>3, <1>4
<1>7. Ideal!Ask
  BY <1>1, <1>2, <1>3, <1>4, <1>5, <1>6 DEF Ideal!Ask, Ideal!Resting, cpuVars
<1> QED
  BY <1>7 DEF Moves, Ideal!Next

\* A store to DIV clears the divider; one to TAC moves nothing a program sees.
LEMMA TimerWriteMoves ==
  ASSUME MInv, handle_memory_write
  PROVE  Moves
<1>1. /\ Idle /\ todo' = <<>> /\ UNCHANGED cpuVars /\ UNCHANGED <<powered_on, cartridge>>
  BY DEF handle_memory_write, Idle
<1>2. CASE Clock!reset_div
  <2>1. div_internal' = 0
    BY <1>2 DEF Clock!reset_div
  <2>2. Owed = 0 /\ ~Restarted /\ todo # RestartCalls
    BY <1>1, IdleMapped DEF Idle
  <2>3. Owed' = 0 /\ Divider' = div_internal' /\ ~Restarted'
    BY <1>1, StaysIdle
  <2>4. UNCHANGED (powered_on \/ Restarted) /\ UNCHANGED (todo = RestartCalls)
    BY <1>1, <2>2, <2>3, AllDiffer
  <2>5. Ideal!ClearDivider
    BY <1>1, <2>1, <2>2, <2>3, <2>4 DEF Ideal!ClearDivider, Ideal!Resting, cpuVars
  <2> QED
    BY <2>5 DEF Moves, Ideal!Next
<1>3. CASE \E value \in TacValues : Clock!tac_updated(Read(mem, Clock!TAC_ADDR), value)
  <2>1. div_internal' = div_internal
    BY <1>3 DEF Clock!tac_updated, Clock!divVars
  <2> QED
    BY <1>1, <2>1, QuietMoves
<1> QED
  BY <1>2, <1>3 DEF handle_memory_write

LEMMA OperationMoves ==
  ASSUME MInv, Operation
  PROVE  Moves
<1>1. CASE power_on \/ reset \/ read_serial_data
  <2>1. /\ Idle /\ todo' \in {<<>>, RestartCalls} /\ UNCHANGED machine
        /\ UNCHANGED <<powered_on, cartridge>>
    BY <1>1 DEF power_on, reset, read_serial_data, Idle
  <2>2. UNCHANGED cpuVars /\ UNCHANGED <<div_internal, powered_on, cartridge>>
    BY <2>1 DEF machine, timerVars
  <2> QED
    BY <2>1, <2>2, QuietMoves
<1> QED
  BY <1>1, LoadMoves, AskMoves, TimerWriteMoves DEF Operation

\* On the map the code builds, the composed machine implements the
\* interpreter: every call of every operation is one of its instructions,
\* restarts, requests or insertions, or leaves it as it is.
THEOREM MachineInterprets ==
  ASSUME Regions = GameBoyRegions
  PROVE  Spec => InterpretsCartridge
<1>1. NoRam
  BY GameBoyHasNoRam DEF NoRam
<1>2. Init => Ideal!Init
  <2> SUFFICES ASSUME Init PROVE Ideal!Init
    OBVIOUS
  <2>1. todo = <<>> /\ ~powered_on /\ div_internal = 0
    BY DEF Init
  <2>2. Owed = 0 /\ Divider = 0 /\ ~Restarted
    BY <2>1, IdleMapped
  <2>3. cartridge.bytes \in {f.bytes : f \in {g \in Files : Succeeds(g)}} \cup {NoBytes}
    BY DEF Init, NewRom, from_file, load_from_file, Succeeds, Filled
  <2>4. (powered_on \/ Restarted) = FALSE /\ (todo = RestartCalls) = FALSE
    BY <2>1, <2>2, AllDiffer
  <2> QED
    BY <2>2, <2>3, <2>4 DEF Init, Ideal!Init
<1>3. MInv /\ [Next]_vars => [Ideal!Next]_(Ideal!vars)
  <2> SUFFICES ASSUME MInv, [Next]_vars PROVE Moves
    BY DEF Moves, Unmoved, Ideal!vars
  <2>1. CASE UNCHANGED vars
    <3>1. UNCHANGED <<regs, cycles, div_internal, powered_on, cartridge, todo,
                      total, executed>>
      BY <2>1 DEF vars
    <3>2. Divider' = Divider /\ Owed' = Owed /\ (Restarted' <=> Restarted)
      BY <3>1, MappedBy, MappedNextBy
    <3>3. UNCHANGED (powered_on \/ Restarted) /\ UNCHANGED (todo = RestartCalls)
      BY <3>1, <3>2
    <3> QED
      BY <3>1, <3>2, <3>3 DEF Moves, Unmoved
  <2> QED
    BY <2>1, CallMoves, OperationMoves DEF Next
<1>4. Spec => []MemoryIsCartridge
  BY MemoryStaysCartridge
<1>5. IInv /\ MemoryIsCartridge /\ Unattended /\ Looping => MInv
  BY DEF MInv
<1> QED
  BY <1>2, <1>3, <1>4, <1>5, InvHolds, NothingInterrupts, LoopingHolds, PTL
     DEF Spec, InterpretsCartridge, Ideal!Spec

-----------------------------------------------------------------------------
(* The serial port of that map. *)

\* Every byte a front end is ever given from the serial port is the open bus.
OnlyOpenBus == \A k \in 1 .. Len(serial_buffer) : serial_buffer[k] = OpenBus

\* A transfer is asked for before it is handled and still afterwards, and one
\* more byte that nobody sent is in the queue.
QueuesForEver ==
  [][handle_serial_transfer =>
       /\ TransferAsked /\ TransferAsked'
       /\ serial_buffer' = Append(serial_buffer, OpenBus)]_vars

LEMMA AlwaysAsked ==
  ASSUME Regions = GameBoyRegions
  PROVE  /\ TransferAsked /\ TransferAsked'
         /\ Read(mem, SB_ADDR) = OpenBus
<1>1. SB_ADDR \in Word /\ SC_ADDR \in Word /\ SB_ADDR >= 32768 /\ SC_ADDR >= 32768
  BY DEF SB_ADDR, SC_ADDR, Word
<1>2. Read(mem, SC_ADDR) = OpenBus /\ Read(mem', SC_ADDR) = OpenBus
  BY <1>1, GameBoyOpenBus
<1>3. Bit(OpenBus, 7)
  BY BitValueCases DEF Bit, OpenBus
<1> QED
  BY <1>1, <1>2, <1>3, GameBoyOpenBus DEF TransferAsked

LEMMA QueueSteps ==
  ASSUME Regions = GameBoyRegions, IInv, [Next]_vars
  PROVE  \/ serial_buffer' = serial_buffer
         \/ serial_buffer' = Append(serial_buffer, OpenBus)
         \/ serial_buffer # <<>> /\ serial_buffer' = Tail(serial_buffer)
<1>1. CASE Call
  BY <1>1, CallLists, AlwaysAsked
     DEF execute_instruction, timer_update, handle_serial_transfer, cpu_initialize,
         controller_initialize, timer_initialize, count_cycles
<1>2. CASE Operation
  BY <1>2 DEF Operation, power_on, reset, load_rom, step, run_for_cycles,
              handle_memory_write, read_serial_data
<1>3. CASE UNCHANGED vars
  BY <1>3 DEF vars
<1> QED
  BY <1>1, <1>2, <1>3 DEF Next

\* No transfer of any program ever completes on the map GameBoy builds: each
\* step() puts the open bus into the queue, and nothing else gets there.
THEOREM SerialNeverCompletes ==
  ASSUME Regions = GameBoyRegions
  PROVE  Spec => QueuesForEver /\ []OnlyOpenBus
<1>1. [Next]_vars => [handle_serial_transfer =>
                        /\ TransferAsked /\ TransferAsked'
                        /\ serial_buffer' = Append(serial_buffer, OpenBus)]_vars
  BY AlwaysAsked DEF handle_serial_transfer
<1>2. Init => OnlyOpenBus
  BY DEF Init, OnlyOpenBus
<1>3. IInv /\ OnlyOpenBus /\ [Next]_vars => OnlyOpenBus'
  <2> SUFFICES ASSUME IInv, OnlyOpenBus, [Next]_vars PROVE OnlyOpenBus'
    OBVIOUS
  <2>1. serial_buffer \in Seq(Byte)
    BY DEF IInv, FrontEnd
  <2>2. CASE serial_buffer' = serial_buffer
    BY <2>2 DEF OnlyOpenBus
  <2>3. CASE serial_buffer' = Append(serial_buffer, OpenBus)
    BY <2>1, <2>3 DEF OnlyOpenBus
  <2>4. CASE serial_buffer # <<>> /\ serial_buffer' = Tail(serial_buffer)
    BY <2>1, <2>4 DEF OnlyOpenBus
  <2> QED
    BY <2>2, <2>3, <2>4, QueueSteps
<1> QED
  BY <1>1, <1>2, <1>3, InvHolds, PTL DEF Spec, QueuesForEver
=============================================================================
