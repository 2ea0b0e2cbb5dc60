------------------------------- MODULE Logger -------------------------------
(***************************************************************************)
(* The logger (debug/logger.hpp): static members only, so one logger with  *)
(* one level, one optional file and one count for the whole process.  The  *)
(* machine logs its CPU state before a step and after a reset.             *)
(*                                                                         *)
(* A line is what it is about; only the states of the CPU carry a number.  *)
(* Each line is flushed when written, so a file is what was written to it. *)
(* A dump of memory is a loop, and is modelled row by row.                 *)
(***************************************************************************)
EXTENDS Integers, Sequences

CONSTANTS Names,       \* of log files
          Width,       \* 2^width of addresses and lengths: 2^16 in the code
          Row,         \* the bytes dumped in a row: 16 in the code
          Starts,      \* where dumps start
          Lengths,     \* and how many bytes they are asked for
          MaxLines,    \* bound: calls are made with fewer lines in an output
          MaxStates    \* bound: and with fewer states counted

ASSUME LoggerAssumption ==
  /\ (Width = 16 /\ Row = 4) \/ (Width = 65536 /\ Row = 16)
  /\ \A n \in Starts \cup Lengths : n \in Nat /\ n < Width
  /\ MaxLines \in Nat /\ MaxStates \in Nat

VARIABLES
  level,               \* current_level_
  log_file,            \* <<name>> while lines go to that file, or <<>>
  console_output,
  instruction_count,
  console, disk,       \* what was written to the console, and to each file
  dumping,             \* a dump is in progress, with these arguments and
  start, length, i,    \* this loop counter
  dumped               \* and these bytes so far: how often, twice at most

dumpVars == <<dumping, start, length, i, dumped>>
settings == <<level, log_file, console_output>>
vars == <<level, log_file, console_output, instruction_count, console, disk,
          dumping, start, length, i, dumped>>

\* enum class LogLevel
NONE == 0
ERROR == 1
WARNING == 2
INFO == 3
DEBUG == 4
TRACE == 5
Levels == NONE .. TRACE

Addresses == 0 .. Width - 1

Text == [about |-> "text", number |-> 0]
State(n) == [about |-> "state", number |-> n]
Opcode == [about |-> "opcode", number |-> 0]
Dump == [about |-> "dump", number |-> 0]

-----------------------------------------------------------------------------
(* Output. *)

log(line) ==
  /\ console' = IF console_output THEN Append(console, line) ELSE console
  /\ disk' = [name \in Names |->
                IF log_file = <<name>> THEN Append(disk[name], line) ELSE disk[name]]

NoLog == UNCHANGED <<console, disk>>

Bounded ==
  /\ instruction_count < MaxStates /\ Len(console) < MaxLines
  /\ \A name \in Names : Len(disk[name]) < MaxLines

\* error, warning, info, debug, trace
message(severity) ==
  /\ IF level >= severity THEN log(Text) ELSE NoLog
  /\ UNCHANGED <<settings, instruction_count, dumpVars>>

\* Fault: a state is counted whether or not it is logged.
CountsAlways == TRUE

Counts == level >= TRACE

log_cpu_state ==
  /\ IF level >= TRACE THEN log(State(instruction_count)) ELSE NoLog
  /\ instruction_count' = instruction_count + (IF Counts THEN 1 ELSE 0)
  /\ UNCHANGED <<settings, dumpVars>>

log_instruction ==
  /\ IF level >= DEBUG THEN log(Opcode) ELSE NoLog
  /\ UNCHANGED <<settings, instruction_count, dumpVars>>

-----------------------------------------------------------------------------
(* Dumps. *)

NothingDumped == [a \in Addresses |-> 0]

log_memory_dump(from, count) ==
  /\ IF level >= DEBUG
     THEN /\ dumping' = TRUE /\ start' = from /\ length' = count
          /\ i' = 0 /\ dumped' = NothingDumped
     ELSE UNCHANGED dumpVars
  /\ UNCHANGED <<settings, instruction_count, console, disk>>

\* Fault: a last row for a dump that ends with a full one.
RowLeftOnEqual == i <= length

RowLeft == i < length

\* Fault: the row's bytes are not checked against the length.
InWholeRow(a) == \E j \in 0 .. Row - 1 : a = (start + i + j) % Width

\* Address a is in the row at i; i and j are added at the width of int, the
\* address wraps.
InRow(a) == \E j \in 0 .. Row - 1 : i + j < length /\ a = (start + i + j) % Width

\* Fault: the counter is as wide as int.
NextIndexWide == i + Row

\* i += 16, at the width of a length.
NextIndex == (i + Row) % Width

dump_row ==
  /\ dumping /\ RowLeft
  /\ dumped' = [a \in Addresses |->
                  IF InRow(a) /\ dumped[a] < 2 THEN dumped[a] + 1 ELSE dumped[a]]
  /\ i' = NextIndex
  /\ UNCHANGED <<dumping, start, length, settings, instruction_count, console, disk>>

dump_written ==
  /\ dumping /\ ~RowLeft
  /\ log(Dump)
  /\ dumping' = FALSE /\ start' = 0 /\ length' = 0 /\ i' = 0
  /\ dumped' = NothingDumped
  /\ UNCHANGED <<settings, instruction_count>>

-----------------------------------------------------------------------------
(* Settings. *)

set_level(l) ==
  /\ level' = l
  /\ UNCHANGED <<log_file, console_output, instruction_count, console, disk, dumpVars>>

\* The old stream is closed; the new one empties the file, if it opens.  One
\* that does not open takes no lines, as if there were none.
set_log_file(name) ==
  /\ \/ /\ log_file' = <<name>>
        /\ disk' = [disk EXCEPT ![name] = <<>>]
     \/ log_file' = <<>> /\ UNCHANGED disk
  /\ UNCHANGED <<level, console_output, instruction_count, console, dumpVars>>

set_console_output(enabled) ==
  /\ console_output' = enabled
  /\ UNCHANGED <<level, log_file, instruction_count, console, disk, dumpVars>>

close_log_file ==
  /\ log_file' = <<>>
  /\ UNCHANGED <<level, console_output, instruction_count, console, disk, dumpVars>>

-----------------------------------------------------------------------------
Init ==
  /\ level = INFO /\ log_file = <<>> /\ console_output = TRUE
  /\ instruction_count = 0
  /\ console = <<>> /\ disk = [name \in Names |-> <<>>]
  /\ dumping = FALSE /\ start = 0 /\ length = 0 /\ i = 0
  /\ dumped = NothingDumped

Setting ==
  \/ \E l \in Levels : set_level(l)
  \/ \E name \in Names : set_log_file(name)
  \/ \E enabled \in BOOLEAN : set_console_output(enabled)
  \/ close_log_file

Logging ==
  \/ \E severity \in ERROR .. TRACE : message(severity)
  \/ log_cpu_state \/ log_instruction
  \/ \E from \in Starts, count \in Lengths : log_memory_dump(from, count)

Call == ~dumping /\ (Setting \/ (Bounded /\ Logging))
DumpStep == dump_row \/ dump_written
Next == Call \/ DumpStep

Spec == Init /\ [][Next]_vars

\* A dump is a loop of a single-threaded program.
FairSpec == Spec /\ WF_vars(DumpStep)

-----------------------------------------------------------------------------
(* Properties. *)

Line == [about : {"text", "state", "opcode", "dump"}, number : Nat]

TypeOK ==
  /\ level \in Levels /\ console_output \in BOOLEAN /\ instruction_count \in Nat
  /\ log_file \in {<<>>} \cup {<<name>> : name \in Names}
  /\ console \in Seq(Line) /\ disk \in [Names -> Seq(Line)]
  /\ dumping \in BOOLEAN
  /\ start \in Addresses /\ length \in Addresses /\ i \in Addresses
  /\ dumped \in [Addresses -> 0 .. 2]

States(lines) == {k \in DOMAIN lines : lines[k].about = "state"}

Ascending(lines) ==
  \A k, l \in States(lines) : k < l => lines[k].number < lines[l].number

Gapless(lines) ==
  \A k, l \in States(lines) : \A n \in lines[k].number .. lines[l].number :
    \E m \in States(lines) : lines[m].number = n

\* "Instruction #" identifies a state: numbers ascend in every output, no two
\* files have one in common, and no file has a gap in its numbers, however the
\* level, the file and the console are switched between the states.
NumbersIdentify ==
  /\ Ascending(console)
  /\ \A name \in Names : Ascending(disk[name]) /\ Gapless(disk[name])
  /\ \A first, second \in Names : first # second =>
       \A k \in States(disk[first]), l \in States(disk[second]) :
         disk[first][k].number # disk[second][l].number

\* A dump that is written holds every byte asked for once and no other byte,
\* also where the addresses wrap and where the last row is short.
DumpComplete ==
  dumping /\ ~RowLeft =>
    \A a \in Addresses : dumped[a] = IF (a - start) % Width < length THEN 1 ELSE 0

\* The longest dump whose last row ends below the width of a length.
LongestDump == Width - Row

\* Every dump of up to that many bytes is written.
DumpEnds == (dumping /\ length <= LongestDump) ~> ~dumping

\* Every turn of such a dump writes it or is a row further, and only rows that
\* begin inside it are: it takes no more turns than it has rows, and one.
DumpAdvances ==
  [][dumping /\ length <= LongestDump =>
       \/ ~dumping' /\ i >= length
       \/ /\ i < length /\ i' = i + Row
          /\ UNCHANGED <<dumping, start, length>>]_vars
=============================================================================
