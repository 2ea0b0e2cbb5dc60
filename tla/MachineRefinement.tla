------------------------- MODULE MachineRefinement -------------------------
(***************************************************************************)
(* The machine against what it comes to (IdealMachine).  An instruction of *)
(* the interpreter happens when the CPU is called, and a restart when the  *)
(* CPU is initialised: what the operation has still to do for the divider  *)
(* and for its count is taken as done.                                     *)
(***************************************************************************)
EXTENDS GameBoy

\* The CPU is ahead of the timer, or of the count of the run loop.
TimerBehind ==
  todo \in {<<"timer_update", "handle_serial_transfer">>, <<"timer_update", "count">>}
CountBehind == todo \in {<<"timer_update", "count">>, <<"count">>}

Restarted ==
  todo \in {<<"controller_initialize", "timer_initialize">>, <<"timer_initialize">>}

Divider ==
  IF Restarted THEN 0
  ELSE IF TimerBehind THEN (div_internal + 4 * cycles) % DivWrap
  ELSE div_internal

AtLeastZero(n) == IF n > 0 THEN n ELSE 0

\* A step is a run of one cycle.
Owed ==
  IF todo = StepCalls THEN 1
  ELSE IF todo = Turn THEN AtLeastZero(total - executed)
  ELSE IF CountBehind THEN AtLeastZero(total - executed - cycles)
  ELSE 0

Ideal ==
  INSTANCE IdealMachine WITH
    Execute <- CPU!Execute,
    Images <- {file.bytes : file \in {f \in Files : Succeeds(f)}},
    Empty <- NoBytes,
    Requests <- Totals \cup {1},
    on <- powered_on \/ Restarted,
    image <- cartridge.bytes,
    divider <- Divider,
    owed <- Owed,
    restarting <- todo = RestartCalls

\* The machine interprets its cartridge and does nothing else: neither the
\* timer, nor the requests it raises, nor the serial port ever changes what a
\* program computes, no instruction is run that was not asked for, and none is
\* left out, in any order of operations.  A cartridge changes in two ways
\* only: by a load that succeeds, and then the machine restarts before anything
\* else happens, or by one that fails in the read, which takes the program's
\* memory away and nothing else.  Every other load that fails changes nothing.
InterpretsCartridge == Ideal!Spec
=============================================================================
