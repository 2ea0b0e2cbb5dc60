---------------------------- MODULE IdealMachine ----------------------------
(***************************************************************************)
(* What the machine comes to for a program and for a front end: an         *)
(* interpreter of the cartridge.  It runs one instruction after another,   *)
(* each a function of the registers and the image; its divider counts      *)
(* their cycles; and asked for n cycles, it stops at the first instruction *)
(* that completes them.  There are no calls between parts and no order of  *)
(* them, no interrupts, and no memory but the image.                       *)
(***************************************************************************)
EXTENDS Integers

CONSTANTS Execute(_, _),   \* what registers and an image make of the next
                           \* instruction: registers and cycles
          Images,          \* what a cartridge may hold
          Empty,           \* and what is left of one that could not be read
          Requests,        \* the cycles a front end asks for
          DivWrap          \* the divider is known modulo this number

VARIABLES on, image, regs, divider,
          owed,            \* the cycles asked for and not run yet
          restarting       \* a restart is due before anything else

vars == <<on, image, regs, divider, owed, restarting>>

Init ==
  /\ on = FALSE /\ image \in Images \cup {Empty}
  /\ regs = [af |-> 0, bc |-> 0, de |-> 0, hl |-> 0, sp |-> 0, pc |-> 0]
  /\ divider = 0 /\ owed = 0 /\ restarting = FALSE

Resting == owed = 0 /\ ~restarting

\* A cartridge is exchanged for another with a restart, and for one that could
\* not be read without: the program goes on in it.
Insert ==
  /\ Resting
  /\ image' \in Images /\ restarting' = TRUE
  /\ UNCHANGED <<on, regs, divider, owed>>

Break ==
  /\ Resting
  /\ image' = Empty
  /\ UNCHANGED <<on, regs, divider, owed, restarting>>

Press ==
  /\ Resting
  /\ restarting' = TRUE
  /\ UNCHANGED <<on, image, regs, divider, owed>>

Restart ==
  /\ restarting /\ restarting' = FALSE
  /\ on' = TRUE /\ divider' = 0
  /\ regs' = [af |-> \h01B0, bc |-> \h0013, de |-> \h00D8, hl |-> \h014D,
              sp |-> \hFFFE, pc |-> \h0100]
  /\ UNCHANGED <<image, owed>>

Ask ==
  /\ on /\ Resting
  /\ owed' \in Requests
  /\ UNCHANGED <<on, image, regs, divider, restarting>>

\* What is owed once more cycles have been run.
Less(cycles) == IF cycles < owed THEN owed - cycles ELSE 0

\* (The divider counts four for each cycle, as the timer of the code does.)
Instruction ==
  LET result == Execute(regs, image)
  IN  /\ owed > 0
      /\ regs' = result.regs
      /\ divider' = (divider + 4 * result.cycles) % DivWrap
      /\ owed' = Less(result.cycles)
      /\ UNCHANGED <<on, image, restarting>>

ClearDivider ==
  /\ Resting
  /\ divider' = 0
  /\ UNCHANGED <<on, image, regs, owed, restarting>>

Next ==
  Insert \/ Break \/ Press \/ Restart \/ Ask \/ Instruction \/ ClearDivider

Spec == Init /\ [][Next]_vars
=============================================================================
