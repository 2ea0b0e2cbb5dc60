----------------------------- MODULE IdealTimer -----------------------------
(***************************************************************************)
(* What the comments and register names of system/timer.hpp promise, with  *)
(* no divider bits and no edges: TIMA advances at the frequency TAC        *)
(* selects, by one per period of the system clock, and an overflow is      *)
(* answered with a reload from TMA and an interrupt request when the clock *)
(* next advances.                                                          *)
(***************************************************************************)
EXTENDS Integers

CONSTANTS ClockWrap,   \* the clock is known modulo this number
          Last,        \* the counter value that overflows next
          Steps        \* the clock periods one advance may take

VARIABLES clock, counter, modulo, control, pending, requested

vars == <<clock, counter, modulo, control, pending, requested>>

ClockHz == 4194304
Frequency(select) ==
  CASE select = 0 -> 4096 [] select = 1 -> 262144
    [] select = 2 -> 65536 [] OTHER -> 16384
Period(select) == ClockHz \div Frequency(select)

Running == (control \div 4) % 2 = 1

\* Whole periods completed while the clock advances by n.
Elapsed(n) ==
  IF Running
  THEN (clock + n) \div Period(control % 4) - clock \div Period(control % 4)
  ELSE 0

Init ==
  /\ clock = 0 /\ counter = 0 /\ modulo = 0 /\ control = 0
  /\ pending = FALSE /\ requested = FALSE

Advance(n) ==
  LET total == (IF pending THEN modulo ELSE counter) + Elapsed(n)
  IN  /\ clock' = (clock + n) % ClockWrap
      /\ counter' = IF total > Last THEN total - (Last + 1) ELSE total
      /\ pending' = (total > Last)
      /\ requested' = (requested \/ pending)
      /\ UNCHANGED <<modulo, control>>

ResetClock ==
  /\ clock' = 0
  /\ UNCHANGED <<counter, modulo, control, pending, requested>>

\* Changing the clock select may itself complete one period.
ChangeSelect ==
  /\ \/ counter < Last /\ counter' = counter + 1 /\ UNCHANGED pending
     \/ counter = Last /\ counter' = 0 /\ pending' = TRUE
  /\ UNCHANGED <<clock, modulo, control, requested>>

\* Programs store into the registers; nothing else moves.
StoreRegister ==
  /\ \/ counter' \in 0 .. Last /\ UNCHANGED <<modulo, control, requested>>
     \/ modulo' \in 0 .. Last /\ UNCHANGED <<counter, control, requested>>
     \/ control' \in 0 .. 255 /\ UNCHANGED <<counter, modulo, requested>>
     \/ requested' \in BOOLEAN /\ UNCHANGED <<counter, modulo, control>>
  /\ UNCHANGED <<clock, pending>>

Restart ==
  /\ clock' = 0 /\ counter' = 0 /\ pending' = FALSE
  /\ UNCHANGED <<modulo, control, requested>>

Next ==
  \/ \E n \in Steps : Advance(n)
  \/ ResetClock \/ ChangeSelect \/ StoreRegister \/ Restart

Spec == Init /\ [][Next]_vars
=============================================================================
