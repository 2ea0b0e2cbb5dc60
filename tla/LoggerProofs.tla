---------------------------- MODULE LoggerProofs ----------------------------
(* The logger's outputs and its dumps, for every width the code may have,    *)
(* every number of files and every sequence of calls.                        *)
EXTENDS Logger, TLAPS

-----------------------------------------------------------------------------
(* Types. *)

LEMMA WidthType ==
  /\ Width \in Nat /\ Row \in Nat /\ 0 < Row /\ Row < Width
  /\ 0 \in Addresses
BY LoggerAssumption DEF Addresses

LEMMA LinesType ==
  /\ Text \in Line /\ Opcode \in Line /\ Dump \in Line
  /\ \A n \in Nat : State(n) \in Line
BY DEF Text, Opcode, Dump, State, Line

LEMMA LogType ==
  ASSUME TypeOK, NEW line \in Line, log(line)
  PROVE  console' \in Seq(Line) /\ disk' \in [Names -> Seq(Line)]
BY DEF log, TypeOK

LEMMA DumpedType == NothingDumped \in [Addresses -> 0 .. 2]
BY DEF NothingDumped

LEMMA NextIndexType ==
  ASSUME i \in Addresses
  PROVE  NextIndex \in Addresses
<1>1. i \in Nat /\ i + Row \in Nat
  BY WidthType DEF Addresses
<1>2. \A n, d \in Nat : d > 0 => n % d \in 0 .. d - 1
  OBVIOUS
<1> QED
  BY <1>1, <1>2, WidthType DEF NextIndex, Addresses

LEMMA SettingType ==
  ASSUME TypeOK, Setting
  PROVE  TypeOK'
<1>1. CASE \E l \in Levels : set_level(l)
  BY <1>1 DEF set_level, dumpVars, TypeOK
<1>2. CASE \E name \in Names : set_log_file(name)
  <2>1. PICK name \in Names : set_log_file(name)
    BY <1>2
  <2>2. log_file' \in {<<>>} \cup {<<n>> : n \in Names}
    <3>1. log_file' = <<name>> \/ log_file' = <<>>
      BY <2>1 DEF set_log_file
    <3> QED
      BY <3>1
  <2>3. disk' \in [Names -> Seq(Line)]
    <3>1. <<>> \in Seq(Line) /\ disk \in [Names -> Seq(Line)]
      BY DEF TypeOK
    <3> QED
      BY <2>1, <3>1 DEF set_log_file
  <2> QED
    BY <2>1, <2>2, <2>3 DEF set_log_file, dumpVars, TypeOK
<1>3. CASE \E enabled \in BOOLEAN : set_console_output(enabled)
  <2>1. console_output' \in BOOLEAN
    BY <1>3, Zenon DEF set_console_output
  <2> QED
    BY <1>3, <2>1 DEF set_console_output, dumpVars, TypeOK
<1>4. CASE close_log_file
  BY <1>4 DEF close_log_file, dumpVars, TypeOK
<1> QED
  BY <1>1, <1>2, <1>3, <1>4 DEF Setting

LEMMA LoggingType ==
  ASSUME TypeOK, Logging
  PROVE  TypeOK'
<1>1. CASE \E severity \in ERROR .. TRACE : message(severity)
  BY <1>1, LogType, LinesType DEF message, NoLog, settings, dumpVars, TypeOK
<1>2. CASE log_cpu_state
  <2>1. instruction_count' \in Nat
    BY <1>2 DEF log_cpu_state, TypeOK
  <2>2. console' \in Seq(Line) /\ disk' \in [Names -> Seq(Line)]
    BY <1>2, LogType, LinesType DEF log_cpu_state, NoLog, TypeOK
  <2> QED
    BY <1>2, <2>1, <2>2 DEF log_cpu_state, settings, dumpVars, TypeOK
<1>3. CASE log_instruction
  BY <1>3, LogType, LinesType DEF log_instruction, NoLog, settings, dumpVars, TypeOK
<1>4. CASE \E from \in Starts, count \in Lengths : log_memory_dump(from, count)
  <2>1. PICK from \in Starts, count \in Lengths : log_memory_dump(from, count)
    BY <1>4
  <2>2. from \in Addresses /\ count \in Addresses
    BY LoggerAssumption, WidthType DEF Addresses
  <2>3. CASE level >= DEBUG
    <3>1. dumping' \in BOOLEAN
      BY <2>1, <2>3, Zenon DEF log_memory_dump
    <3> QED
      BY <2>1, <2>2, <2>3, <3>1, DumpedType, WidthType
         DEF log_memory_dump, settings, TypeOK
  <2>4. CASE ~(level >= DEBUG)
    BY <2>1, <2>4 DEF log_memory_dump, settings, dumpVars, TypeOK
  <2> QED
    BY <2>3, <2>4
<1> QED
  BY <1>1, <1>2, <1>3, <1>4 DEF Logging

LEMMA DumpStepType ==
  ASSUME TypeOK, DumpStep
  PROVE  TypeOK'
<1>1. CASE dump_row
  <2>1. dumped' \in [Addresses -> 0 .. 2]
    BY <1>1 DEF dump_row, TypeOK
  <2> QED
    BY <1>1, <2>1, NextIndexType DEF dump_row, settings, TypeOK
<1>2. CASE dump_written
  <2>1. console' \in Seq(Line) /\ disk' \in [Names -> Seq(Line)]
    BY <1>2, LogType, LinesType DEF dump_written
  <2>2. dumping' \in BOOLEAN
    BY <1>2, Zenon DEF dump_written
  <2> QED
    BY <1>2, <2>1, <2>2, DumpedType, WidthType DEF dump_written, settings, TypeOK
<1> QED
  BY <1>1, <1>2 DEF DumpStep

\* The counters, the lines and the bytes of a dump keep their types.
THEOREM TypeCorrect == Spec => []TypeOK
<1>1. Init => TypeOK
  <2> SUFFICES ASSUME Init PROVE TypeOK
    OBVIOUS
  <2>1. console_output \in BOOLEAN /\ dumping \in BOOLEAN
    BY Zenon DEF Init
  <2> QED
    BY <2>1, DumpedType, WidthType DEF Init, TypeOK, Levels, INFO, NONE, TRACE
<1>2. TypeOK /\ [Next]_vars => TypeOK'
  <2>1. ASSUME TypeOK, UNCHANGED vars PROVE TypeOK'
    BY <2>1 DEF vars, TypeOK
  <2> QED
    BY <2>1, SettingType, LoggingType, DumpStepType DEF Next, Call
<1> QED
  BY <1>1, <1>2, PTL DEF Spec

-----------------------------------------------------------------------------
(* Dumps. *)

\* The loop counter is at the start of a row that ends within the width.
AtRow == i % Row = 0 /\ i <= Width - Row

\* Byte a of the dump, counted from its start.
Offset(a) == (a - start) % Width

\* So far the bytes before the counter are dumped, in a dump that will end.
DumpedSoFar ==
  dumping /\ length <= LongestDump =>
    \A a \in Addresses :
      dumped[a] = IF Offset(a) < i /\ Offset(a) < length THEN 1 ELSE 0

DInv == TypeOK /\ AtRow /\ DumpedSoFar

\* The next row, if there is one below the width.
LEMMA NextRow ==
  ASSUME i \in Addresses, AtRow
  PROVE  /\ NextIndex % Row = 0 /\ NextIndex <= Width - Row
         /\ i < Width - Row => NextIndex = i + Row
<1>1. CASE Width = 16 /\ Row = 4
  BY <1>1 DEF AtRow, NextIndex, Addresses
<1>2. CASE Width = 65536 /\ Row = 16
  <2>1. i \in Nat /\ i <= 65520 /\ i % 16 = 0
    BY <1>2, WidthType DEF AtRow, Addresses
  <2>2. CASE i = 65520
    BY <1>2, <2>2 DEF NextIndex
  <2>3. CASE i < 65520
    <3>1. NextIndex = i + 16
      BY <1>2, <2>1, <2>3 DEF NextIndex
    <3>2. (i + 16) % 16 = 0 /\ i + 16 <= 65520
      BY <2>1, <2>3
    <3> QED
      BY <1>2, <3>1, <3>2
  <2> QED
    BY <2>1, <2>2, <2>3
<1> QED
  BY <1>1, <1>2, LoggerAssumption

\* The bytes of a row are those whose offset is in it.
LEMMA RowByOffset ==
  ASSUME TypeOK, AtRow, NEW a \in Addresses
  PROVE  InRow(a) <=> i <= Offset(a) /\ Offset(a) < i + Row /\ Offset(a) < length
<1>1. /\ i \in Nat /\ start \in Nat /\ start < Width /\ a \in Nat /\ a < Width
      /\ length \in Nat
  BY WidthType DEF TypeOK, Addresses
<1>2. ASSUME InRow(a)
      PROVE  i <= Offset(a) /\ Offset(a) < i + Row /\ Offset(a) < length
  <2>1. PICK j \in 0 .. Row - 1 : i + j < length /\ a = (start + i + j) % Width
    BY <1>2 DEF InRow
  <2>2. j \in Nat /\ j < Row /\ i + j < Width
    BY <1>1, <2>1, WidthType DEF AtRow
  <2>3. Offset(a) = i + j
    <3>1. CASE Width = 16
      BY <1>1, <2>1, <2>2, <3>1 DEF Offset
    <3>2. CASE Width = 65536
      BY <1>1, <2>1, <2>2, <3>2 DEF Offset
    <3> QED
      BY <3>1, <3>2, LoggerAssumption
  <2> QED
    BY <1>1, <2>1, <2>2, <2>3, WidthType
<1>3. ASSUME i <= Offset(a), Offset(a) < i + Row, Offset(a) < length
      PROVE  InRow(a)
  <2> DEFINE j == Offset(a) - i
  <2>1. Offset(a) \in Nat /\ a = (start + Offset(a)) % Width
    <3>1. CASE Width = 16
      BY <1>1, <3>1 DEF Offset
    <3>2. CASE Width = 65536
      BY <1>1, <3>2 DEF Offset
    <3> QED
      BY <3>1, <3>2, LoggerAssumption
  <2>2. j \in 0 .. Row - 1 /\ i + j < length /\ start + i + j = start + Offset(a)
    BY <1>1, <1>3, <2>1, WidthType
  <2> HIDE DEF j
  <2> QED
    BY <2>1, <2>2 DEF InRow
<1> QED
  BY <1>2, <1>3

LEMMA RowDumps ==
  ASSUME DInv, dump_row
  PROVE  AtRow' /\ DumpedSoFar'
<1>1. TypeOK /\ AtRow /\ i \in Addresses /\ dumping /\ i < length
  BY DEF DInv, TypeOK, dump_row, RowLeft
<1>2. /\ i' = NextIndex /\ UNCHANGED <<dumping, start, length>>
      /\ dumped' = [a \in Addresses |->
                      IF InRow(a) /\ dumped[a] < 2 THEN dumped[a] + 1 ELSE dumped[a]]
  BY DEF dump_row
<1>3. AtRow'
  BY <1>1, <1>2, NextRow DEF AtRow
<1>4. ASSUME length <= LongestDump, NEW a \in Addresses
      PROVE  dumped'[a] = IF Offset(a) < i' /\ Offset(a) < length THEN 1 ELSE 0
  <2>1. i \in Nat /\ length \in Nat /\ i < Width - Row
    BY <1>1, <1>4, WidthType DEF TypeOK, Addresses, LongestDump
  <2>2. i' = i + Row
    BY <1>1, <1>2, <2>1, NextRow
  <2>3. dumped[a] = IF Offset(a) < i /\ Offset(a) < length THEN 1 ELSE 0
    BY <1>1, <1>4 DEF DInv, DumpedSoFar
  <2>4. InRow(a) <=> i <= Offset(a) /\ Offset(a) < i + Row /\ Offset(a) < length
    BY <1>1, RowByOffset
  <2>5. Offset(a) \in Nat
    <3>1. a - start \in Int
      BY <1>1 DEF TypeOK, Addresses
    <3>2. \A n \in Int, d \in Nat : d > 0 => n % d \in Nat
      OBVIOUS
    <3> QED
      BY <3>1, <3>2, WidthType DEF Offset
  <2>6. dumped'[a] = IF InRow(a) /\ dumped[a] < 2 THEN dumped[a] + 1 ELSE dumped[a]
    BY <1>2, <1>4
  <2> DEFINE o == Offset(a)
  <2> HIDE DEF o
  <2>7. CASE InRow(a)
    BY <2>1, <2>2, <2>3, <2>4, <2>5, <2>6, <2>7, WidthType
  <2>8. CASE ~InRow(a)
    BY <2>1, <2>2, <2>3, <2>4, <2>5, <2>6, <2>8, WidthType
  <2> QED
    BY <2>7, <2>8
<1>5. DumpedSoFar'
  BY <1>2, <1>4 DEF DumpedSoFar, Offset, LongestDump
<1> QED
  BY <1>3, <1>5

LEMMA StartsDump ==
  ASSUME DInv, NEW from \in Starts, NEW count \in Lengths, log_memory_dump(from, count)
  PROVE  AtRow' /\ DumpedSoFar'
<1>1. CASE level >= DEBUG
  <2>1. i' = 0 /\ dumped' = NothingDumped /\ start' = from
    BY <1>1 DEF log_memory_dump
  <2>2. AtRow'
    BY <2>1, LoggerAssumption DEF AtRow
  <2>3. ASSUME NEW a \in Addresses PROVE (a - from) % Width >= 0
    <3>1. a - from \in Int
      BY LoggerAssumption DEF Addresses
    <3>2. \A n \in Int, d \in Nat : d > 0 => n % d >= 0
      OBVIOUS
    <3> QED
      BY <3>1, <3>2, WidthType
  <2>4. \A a \in Addresses : NothingDumped[a] = 0
    BY DEF NothingDumped
  <2>5. ASSUME NEW a \in Addresses PROVE ~(Offset(a)' < i')
    <3>1. (a - from) % Width \in Int
      BY LoggerAssumption, WidthType DEF Addresses
    <3> QED
      BY <2>1, <2>3, <3>1 DEF Offset
  <2> QED
    BY <2>1, <2>2, <2>4, <2>5 DEF DumpedSoFar, Offset
<1>2. CASE ~(level >= DEBUG)
  BY <1>2 DEF log_memory_dump, dumpVars, DInv, AtRow, DumpedSoFar, Offset
<1> QED
  BY <1>1, <1>2

LEMMA DInvHolds == Spec => []DInv
<1>1. Init => AtRow /\ DumpedSoFar
  <2> SUFFICES ASSUME Init PROVE AtRow /\ DumpedSoFar
    OBVIOUS
  <2>1. i = 0 /\ ~dumping
    BY DEF Init
  <2> QED
    BY <2>1, LoggerAssumption DEF AtRow, DumpedSoFar
<1>2. DInv /\ [Next]_vars => (AtRow /\ DumpedSoFar)'
  <2> SUFFICES ASSUME DInv, [Next]_vars PROVE AtRow' /\ DumpedSoFar'
    OBVIOUS
  <2>1. CASE UNCHANGED dumpVars
    BY <2>1 DEF dumpVars, DInv, AtRow, DumpedSoFar, Offset
  <2>2. CASE dump_row
    BY <2>2, RowDumps
  <2>3. CASE dump_written
    <3>1. i' = 0 /\ ~dumping'
      BY <2>3 DEF dump_written
    <3> QED
      BY <3>1, LoggerAssumption DEF AtRow, DumpedSoFar
  <2>4. CASE \E from \in Starts, count \in Lengths : log_memory_dump(from, count)
    BY <2>4, StartsDump
  <2>5. CASE Setting
    BY <2>1, <2>5 DEF Setting, set_level, set_log_file, set_console_output, close_log_file
  <2>6. CASE (\E severity \in ERROR .. TRACE : message(severity))
             \/ log_cpu_state \/ log_instruction
    BY <2>1, <2>6 DEF message, log_cpu_state, log_instruction
  <2>7. CASE UNCHANGED vars
    BY <2>1, <2>7 DEF vars, dumpVars
  <2> QED
    BY <2>2, <2>3, <2>4, <2>5, <2>6, <2>7 DEF Next, Call, Logging, DumpStep
<1> QED
  BY <1>1, <1>2, TypeCorrect, PTL DEF Spec, DInv

\* A dump that is written holds the bytes asked for, each once, where the
\* addresses wrap and in a short last row too.
THEOREM DumpsAreComplete == Spec => []DumpComplete
<1>1. DInv => DumpComplete
  <2> SUFFICES ASSUME DInv, dumping, ~RowLeft, NEW a \in Addresses
               PROVE  dumped[a] = IF (a - start) % Width < length THEN 1 ELSE 0
    BY DEF DumpComplete
  <2>1. i \in Nat /\ length \in Nat /\ length <= i /\ i <= Width - Row
    BY DEF DInv, TypeOK, Addresses, RowLeft, AtRow
  <2>2. length <= LongestDump
    BY <2>1, WidthType DEF LongestDump
  <2>3. dumped[a] = IF Offset(a) < i /\ Offset(a) < length THEN 1 ELSE 0
    BY <2>2 DEF DInv, DumpedSoFar
  <2>4. Offset(a) \in Int
    BY WidthType DEF Offset, DInv, TypeOK, Addresses
  <2> QED
    BY <2>1, <2>3, <2>4 DEF Offset
<1> QED
  BY <1>1, DInvHolds, PTL

\* What DumpEnds rests on, for both widths, every start and every length.
THEOREM DumpsAdvance == Spec => DumpAdvances
<1>1. ASSUME DInv, dumping, length <= LongestDump, Next
      PROVE  \/ ~dumping' /\ i >= length
             \/ /\ i < length /\ i' = i + Row
                /\ UNCHANGED <<dumping, start, length>>
  <2>1. i \in Addresses /\ i \in Nat /\ length \in Nat /\ AtRow
    BY <1>1 DEF DInv, TypeOK, Addresses
  <2>2. CASE dump_row
    <3>1. i < length /\ length <= Width - Row
      BY <1>1, <2>2 DEF dump_row, RowLeft, LongestDump
    <3>2. NextIndex = i + Row
      BY <2>1, <3>1, NextRow, WidthType
    <3> QED
      BY <2>2, <3>1, <3>2 DEF dump_row
  <2>3. CASE dump_written
    <3>1. ~(i < length) /\ ~dumping'
      BY <2>3 DEF dump_written, RowLeft
    <3> QED
      BY <2>1, <3>1
  <2> QED
    BY <1>1, <2>2, <2>3 DEF Next, Call, DumpStep
<1>2. DInv /\ [Next]_vars
        => [dumping /\ length <= LongestDump =>
              \/ ~dumping' /\ i >= length
              \/ /\ i < length /\ i' = i + Row
                 /\ UNCHANGED <<dumping, start, length>>]_vars
  BY <1>1
<1> QED
  BY <1>2, DInvHolds, PTL DEF Spec, DumpAdvances

\* A dump longer than the width allows for whole rows is never written: the
\* counter wraps to zero before it passes the length.
THEOREM LongDumpsRunAway ==
  Spec => [][dumping /\ length > LongestDump => dumping']_vars
<1>1. DInv /\ [Next]_vars => [dumping /\ length > LongestDump => dumping']_vars
  <2> SUFFICES ASSUME DInv, Next, dumping, length > LongestDump PROVE dumping'
    OBVIOUS
  <2>1. i \in Nat /\ length \in Nat /\ i <= Width - Row
    BY DEF DInv, TypeOK, Addresses, AtRow
  <2>2. RowLeft
    BY <2>1, WidthType DEF RowLeft, LongestDump
  <2>3. dump_row
    BY <2>2 DEF Next, Call, DumpStep, dump_written
  <2> QED
    BY <2>3 DEF dump_row
<1> QED
  BY <1>1, DInvHolds, PTL DEF Spec

-----------------------------------------------------------------------------
(* Numbers. *)

\* The numbers of an output are below n; the last of them is n - 1.
Below(lines, n) == \A k \in States(lines) : lines[k].number < n
Latest(lines, n) ==
  States(lines) = {} \/ \E k \in States(lines) : lines[k].number = n - 1

\* The outputs agree on their states.
SameStates(old, new) ==
  /\ States(new) = States(old)
  /\ \A k \in States(old) : new[k] = old[k]

LEMMA SameKeeps ==
  ASSUME NEW old, NEW new, SameStates(old, new), NEW n
  PROVE  /\ Ascending(old) => Ascending(new)
         /\ Gapless(old) => Gapless(new)
         /\ Below(old, n) => Below(new, n)
         /\ Latest(old, n) => Latest(new, n)
BY DEF SameStates, Ascending, Gapless, Below, Latest

LEMMA AppendOther ==
  ASSUME NEW lines \in Seq(Line), NEW line \in Line, line.about # "state"
  PROVE  SameStates(lines, Append(lines, line))
<1> DEFINE new == Append(lines, line)
<1>1. /\ DOMAIN lines = 1 .. Len(lines) /\ DOMAIN new = 1 .. Len(lines) + 1
      /\ new[Len(lines) + 1] = line /\ Len(lines) \in Nat
      /\ \A k \in 1 .. Len(lines) : new[k] = lines[k]
  OBVIOUS
<1> HIDE DEF new
<1>2. \A k \in 1 .. Len(lines) + 1 : k \in 1 .. Len(lines) \/ k = Len(lines) + 1
  BY <1>1
<1>3. \A k \in 1 .. Len(lines) : k \in 1 .. Len(lines) + 1
  BY <1>1
<1>4. SameStates(lines, new)
  BY <1>1, <1>2, <1>3 DEF SameStates, States
<1> QED
  BY <1>4 DEF new

\* A state with the next number keeps the numbers of an output in order, and
\* without a gap if the output has the latest one.
LEMMA AppendState ==
  ASSUME NEW lines \in Seq(Line), NEW n \in Nat, Below(lines, n)
  PROVE  LET new == Append(lines, State(n))
         IN  /\ Ascending(lines) => Ascending(new)
             /\ Gapless(lines) /\ Latest(lines, n) => Gapless(new)
             /\ Below(new, n + 1) /\ Latest(new, n + 1)
             /\ \A k \in States(new) :
                  new[k].number = n \/ (k \in States(lines) /\ new[k] = lines[k])
<1> DEFINE new == Append(lines, State(n))
           last == Len(lines) + 1
<1>1. /\ DOMAIN lines = 1 .. Len(lines) /\ DOMAIN new = 1 .. last
      /\ new[last] = State(n) /\ Len(lines) \in Nat /\ last \in Nat
      /\ \A k \in 1 .. Len(lines) : new[k] = lines[k]
  BY LinesType
<1>2. State(n).about = "state" /\ State(n).number = n
  BY DEF State
<1> HIDE DEF new
<1>3. /\ \A k \in 1 .. last : k \in 1 .. Len(lines) \/ k = last
      /\ \A k \in 1 .. Len(lines) : k \in 1 .. last /\ k < last
      /\ last \in 1 .. last
  BY <1>1
<1> HIDE DEF last
<1>4. States(new) = States(lines) \cup {last}
  BY <1>1, <1>2, <1>3 DEF States
<1>5. /\ \A k \in States(lines) : k < last /\ k \in Nat /\ new[k] = lines[k]
      /\ \A k \in States(lines) : lines[k].number \in Nat /\ lines[k].number < n
      /\ new[last].number = n
  <2>1. \A k \in States(lines) : k \in 1 .. Len(lines) /\ lines[k] \in Line
    BY <1>1 DEF States
  <2> QED
    BY <1>1, <1>2, <1>3, <2>1 DEF Line, Below
<1>6. Ascending(lines) => Ascending(new)
  BY <1>1, <1>4, <1>5 DEF Ascending
<1>7. Below(new, n + 1) /\ Latest(new, n + 1)
  BY <1>4, <1>5 DEF Below, Latest
<1>8. ASSUME Gapless(lines), Latest(lines, n) PROVE Gapless(new)
  <2> SUFFICES ASSUME NEW k \in States(new), NEW l \in States(new),
                      NEW x \in new[k].number .. new[l].number
               PROVE  \E m \in States(new) : new[m].number = x
    BY DEF Gapless
  <2>1. CASE k \in States(lines) /\ l \in States(lines)
    BY <1>4, <1>5, <1>8, <2>1 DEF Gapless
  <2>2. CASE x = n
    BY <1>4, <1>5, <2>2
  <2>3. CASE k \in States(lines) /\ l = last /\ x # n
    <3>1. PICK m \in States(lines) : lines[m].number = n - 1
      BY <1>8, <2>3 DEF Latest
    <3>2. x \in lines[k].number .. lines[m].number
      BY <1>5, <2>3, <3>1
    <3> QED
      BY <1>4, <1>5, <1>8, <2>3, <3>1, <3>2 DEF Gapless
  <2>4. CASE k = last /\ x # n
    BY <1>4, <1>5, <2>4
  <2> QED
    BY <1>4, <2>1, <2>2, <2>3, <2>4
<1>9. \A k \in States(new) :
        new[k].number = n \/ (k \in States(lines) /\ new[k] = lines[k])
  BY <1>4, <1>5
<1> QED
  BY <1>6, <1>7, <1>8, <1>9 DEF new

Apart ==
  \A first, second \in Names : first # second =>
    \A k \in States(disk[first]), l \in States(disk[second]) :
      disk[first][k].number # disk[second][l].number

\* Only the file that is open has to have the latest number.
Numbered ==
  /\ Ascending(console) /\ Below(console, instruction_count)
  /\ \A name \in Names :
       /\ Ascending(disk[name]) /\ Gapless(disk[name])
       /\ Below(disk[name], instruction_count)
       /\ log_file = <<name>> => Latest(disk[name], instruction_count)
  /\ Apart

\* Lines that are not states number nothing.
LEMMA OtherLines ==
  ASSUME TypeOK, Numbered, NEW line \in Line, line.about # "state", log(line),
         UNCHANGED <<instruction_count, log_file>>
  PROVE  Numbered'
<1>1. SameStates(console, console')
  BY AppendOther DEF log, TypeOK, SameStates
<1>2. ASSUME NEW name \in Names PROVE SameStates(disk[name], disk'[name])
  BY AppendOther DEF log, TypeOK, SameStates
<1>3. Ascending(console') /\ Below(console', instruction_count)
  BY <1>1, SameKeeps DEF Numbered
<1>4. ASSUME NEW name \in Names
      PROVE  /\ Ascending(disk'[name]) /\ Gapless(disk'[name])
             /\ Below(disk'[name], instruction_count)
             /\ log_file = <<name>> => Latest(disk'[name], instruction_count)
  BY <1>2, SameKeeps DEF Numbered
<1>5. Apart'
  BY <1>2 DEF Numbered, Apart, SameStates
<1> QED
  BY <1>3, <1>4, <1>5 DEF Numbered

LEMMA StateLine ==
  ASSUME TypeOK, Numbered, log(State(instruction_count)),
         instruction_count' = instruction_count + 1, UNCHANGED log_file
  PROVE  Numbered'
<1> DEFINE n == instruction_count
<1>1. n \in Nat /\ console \in Seq(Line) /\ disk \in [Names -> Seq(Line)]
  BY DEF TypeOK
<1>2. /\ console' = Append(console, State(n)) \/ console' = console
      /\ \A name \in Names : disk'[name] =
           IF log_file = <<name>> THEN Append(disk[name], State(n)) ELSE disk[name]
  BY DEF log
<1>3. \A lines : Below(lines, n) /\ (\A k \in States(lines) : lines[k].number \in Nat)
        => Below(lines, n + 1)
  BY <1>1 DEF Below
<1>4. ASSUME NEW lines \in Seq(Line)
      PROVE  \A k \in States(lines) : lines[k].number \in Nat
  <2>1. DOMAIN lines = 1 .. Len(lines)
    OBVIOUS
  <2>2. \A k \in States(lines) : k \in 1 .. Len(lines) /\ lines[k] \in Line
    BY <2>1 DEF States
  <2> QED
    BY <2>2 DEF Line
<1>5. Ascending(console') /\ Below(console', n + 1)
  <2>1. Ascending(console) /\ Below(console, n)
    BY DEF Numbered
  <2> QED
    BY <1>1, <1>2, <1>3, <1>4, <2>1, AppendState
<1>6. ASSUME NEW name \in Names
      PROVE  /\ Ascending(disk'[name]) /\ Gapless(disk'[name])
             /\ Below(disk'[name], n + 1)
             /\ log_file = <<name>> => Latest(disk'[name], n + 1)
  <2>1. /\ Ascending(disk[name]) /\ Gapless(disk[name]) /\ Below(disk[name], n)
        /\ log_file = <<name>> => Latest(disk[name], n)
        /\ disk[name] \in Seq(Line)
    BY <1>1 DEF Numbered
  <2>2. CASE log_file = <<name>>
    BY <1>1, <1>2, <2>1, <2>2, AppendState
  <2>3. CASE log_file # <<name>>
    BY <1>2, <1>3, <1>4, <2>1, <2>3
  <2> QED
    BY <2>2, <2>3
<1>7. ASSUME NEW name \in Names, NEW k \in States(disk'[name]),
             Below(disk[name], n), disk[name] \in Seq(Line)
      PROVE  \/ disk'[name][k].number = n /\ log_file = <<name>>
             \/ k \in States(disk[name]) /\ disk'[name][k] = disk[name][k]
  <2>1. CASE log_file = <<name>>
    <3> DEFINE new == Append(disk[name], State(n))
    <3>1. disk'[name] = new
      BY <1>2, <2>1
    <3>2. \A x \in States(new) :
            new[x].number = n \/ (x \in States(disk[name]) /\ new[x] = disk[name][x])
      BY <1>1, <1>7, AppendState
    <3> HIDE DEF new
    <3> QED
      BY <1>7, <2>1, <3>1, <3>2
  <2>2. CASE log_file # <<name>>
    BY <1>2, <1>7, <2>2
  <2> QED
    BY <2>1, <2>2
<1>8. ASSUME NEW first \in Names, NEW second \in Names, first # second,
             NEW k \in States(disk'[first]), NEW l \in States(disk'[second])
      PROVE  disk'[first][k].number # disk'[second][l].number
  <2>1. /\ disk[first] \in Seq(Line) /\ disk[second] \in Seq(Line)
        /\ Below(disk[first], n) /\ Below(disk[second], n)
    BY <1>1 DEF Numbered
  <2>2. /\ \A x \in States(disk[first]) :
             disk[first][x].number < n /\ disk[first][x].number \in Nat
        /\ \A x \in States(disk[second]) :
             disk[second][x].number < n /\ disk[second][x].number \in Nat
    BY <1>4, <2>1 DEF Below
  <2>3. ~(log_file = <<first>> /\ log_file = <<second>>)
    BY <1>8
  <2>4. \/ disk'[first][k].number = n /\ log_file = <<first>>
        \/ k \in States(disk[first]) /\ disk'[first][k] = disk[first][k]
    BY <1>8, <1>7, <2>1
  <2>5. \/ disk'[second][l].number = n /\ log_file = <<second>>
        \/ l \in States(disk[second]) /\ disk'[second][l] = disk[second][l]
    BY <1>8, <1>7, <2>1
  <2>6. ASSUME k \in States(disk[first]), l \in States(disk[second])
        PROVE  disk[first][k].number # disk[second][l].number
    BY <1>8, <2>6 DEF Numbered, Apart
  <2>7. ASSUME NEW x \in Nat, NEW y \in Nat, x < n, y < n
        PROVE  x # n /\ n # y
    BY <1>1, <2>7
  <2>8. CASE disk'[first][k].number = n
    BY <2>2, <2>3, <2>4, <2>5, <2>7, <2>8
  <2>9. CASE disk'[first][k].number # n
    BY <2>2, <2>4, <2>5, <2>6, <2>7, <2>9
  <2> QED
    BY <2>8, <2>9
<1>9. Apart'
  BY <1>8 DEF Apart
<1> QED
  BY <1>5, <1>6, <1>9 DEF Numbered

\* A file that is opened is empty.
LEMMA FileOpened ==
  ASSUME TypeOK, Numbered, NEW name \in Names, set_log_file(name)
  PROVE  Numbered'
<1>1. UNCHANGED <<console, instruction_count>> /\ disk \in [Names -> Seq(Line)]
  BY DEF set_log_file, dumpVars, TypeOK
<1>2. CASE log_file' = <<>> /\ UNCHANGED disk
  BY <1>1, <1>2 DEF Numbered, Apart
<1>3. CASE log_file' = <<name>> /\ disk' = [disk EXCEPT ![name] = <<>>]
  <2>1. States(<<>>) = {}
    BY DEF States
  <2>2. \A other \in Names :
          disk'[other] = IF other = name THEN <<>> ELSE disk[other]
    BY <1>1, <1>3
  <2>3. \A n : /\ Ascending(<<>>) /\ Gapless(<<>>)
               /\ Below(<<>>, n) /\ Latest(<<>>, n)
    BY <2>1 DEF Ascending, Gapless, Below, Latest
  <2>4. ASSUME NEW other \in Names
        PROVE  /\ Ascending(disk'[other]) /\ Gapless(disk'[other])
               /\ Below(disk'[other], instruction_count')
               /\ log_file' = <<other>> => Latest(disk'[other], instruction_count')
    <3>1. CASE other = name
      BY <2>2, <2>3, <3>1
    <3>2. CASE other # name
      BY <1>1, <1>3, <2>2, <3>2 DEF Numbered
    <3> QED
      BY <3>1, <3>2
  <2>5. Apart'
    BY <2>1, <2>2 DEF Numbered, Apart
  <2>6. Ascending(console') /\ Below(console', instruction_count')
    BY <1>1 DEF Numbered
  <2> QED
    BY <2>4, <2>5, <2>6 DEF Numbered
<1> QED
  BY <1>2, <1>3 DEF set_log_file

LEMMA NumberedStep ==
  ASSUME TypeOK, Numbered, [Next]_vars
  PROVE  Numbered'
<1>1. ASSUME UNCHANGED <<console, disk, instruction_count>>,
             log_file' = log_file \/ log_file' = <<>>
      PROVE  Numbered'
  BY <1>1 DEF Numbered, Apart
<1>2. CASE \E name \in Names : set_log_file(name)
  BY <1>2, FileOpened
<1>3. CASE (\E l \in Levels : set_level(l)) \/ close_log_file
           \/ (\E enabled \in BOOLEAN : set_console_output(enabled))
  BY <1>1, <1>3 DEF set_level, close_log_file, set_console_output
<1>4. /\ Text.about # "state" /\ Opcode.about # "state" /\ Dump.about # "state"
      /\ Text \in Line /\ Opcode \in Line /\ Dump \in Line
  BY LinesType DEF Text, Opcode, Dump
<1>5. CASE \E severity \in ERROR .. TRACE : message(severity)
  BY <1>1, <1>4, <1>5, OtherLines DEF message, NoLog, settings
<1>6. CASE log_cpu_state
  <2>1. CASE level >= TRACE
    <3>1. /\ log(State(instruction_count)) /\ UNCHANGED log_file
          /\ instruction_count' = instruction_count + 1
      BY <1>6, <2>1 DEF log_cpu_state, Counts, settings
    <3> QED
      BY <3>1, StateLine
  <2>2. CASE ~(level >= TRACE)
    <3>1. /\ UNCHANGED <<console, disk, log_file>>
          /\ instruction_count' = instruction_count
      BY <1>6, <2>2 DEF log_cpu_state, Counts, NoLog, settings, TypeOK
    <3> QED
      BY <1>1, <3>1
  <2> QED
    BY <2>1, <2>2
<1>7. CASE log_instruction
  BY <1>1, <1>4, <1>7, OtherLines DEF log_instruction, NoLog, settings
<1>8. CASE \E from \in Starts, count \in Lengths : log_memory_dump(from, count)
  BY <1>1, <1>8 DEF log_memory_dump, settings
<1>9. CASE dump_row
  BY <1>1, <1>9 DEF dump_row, settings
<1>10. CASE dump_written
  BY <1>4, <1>10, OtherLines DEF dump_written, settings
<1>11. CASE UNCHANGED vars
  BY <1>1, <1>11 DEF vars
<1> QED
  BY <1>2, <1>3, <1>5, <1>6, <1>7, <1>8, <1>9, <1>10, <1>11
     DEF Next, Call, Setting, Logging, DumpStep

\* However level, file and console are switched, a number identifies a state.
THEOREM NumbersIdentifyStates == Spec => []NumbersIdentify
<1>1. Init => Numbered
  <2> SUFFICES ASSUME Init PROVE Numbered
    OBVIOUS
  <2>1. States(<<>>) = {}
    BY DEF States
  <2>2. console = <<>> /\ log_file = <<>> /\ \A name \in Names : disk[name] = <<>>
    BY DEF Init
  <2> QED
    BY <2>1, <2>2 DEF Numbered, Apart, Ascending, Gapless, Below, Latest
<1>2. TypeOK /\ Numbered /\ [Next]_vars => Numbered'
  BY NumberedStep
<1>3. Numbered => NumbersIdentify
  BY DEF Numbered, Apart, NumbersIdentify
<1> QED
  BY <1>1, <1>2, <1>3, TypeCorrect, PTL DEF Spec
=============================================================================
