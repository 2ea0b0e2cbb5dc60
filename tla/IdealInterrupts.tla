-------------------------- MODULE IdealInterrupts --------------------------
(***************************************************************************)
(* What an interrupt controller is: a set of requested interrupts, a set   *)
(* of enabled ones, and an acknowledgement that takes the most urgent of   *)
(* those in both sets.  No bytes, no masks, no copies.                     *)
(***************************************************************************)
EXTENDS Integers

CONSTANT Sources       \* the interrupts that have a vector

VARIABLES requested, enabled, vector

vars == <<requested, enabled, vector>>

Lines == 0 .. 7        \* the bits of the two registers

Urgent == CHOOSE i \in requested \cap enabled \cap Sources :
            \A j \in requested \cap enabled \cap Sources : i <= j

Init == requested = {} /\ enabled = {} /\ vector = 0

Request == \E i \in Lines :
  requested' = requested \cup {i} /\ UNCHANGED <<enabled, vector>>

Clear == \E i \in Lines :
  requested' = requested \ {i} /\ UNCHANGED <<enabled, vector>>

Enable == \E i \in Lines :
  enabled' = enabled \cup {i} /\ UNCHANGED <<requested, vector>>

Disable == \E i \in Lines :
  enabled' = enabled \ {i} /\ UNCHANGED <<requested, vector>>

Acknowledge ==
  /\ requested \cap enabled \cap Sources # {}
  /\ requested' = requested \ {Urgent}
  /\ vector' = 64 + 8 * Urgent
  /\ UNCHANGED enabled

NothingToAcknowledge ==
  /\ requested \cap enabled \cap Sources = {}
  /\ vector' = 0
  /\ UNCHANGED <<requested, enabled>>

\* Programs store into either register.
StoreRequested == requested' \in SUBSET Lines /\ UNCHANGED <<enabled, vector>>
StoreEnabled == enabled' \in SUBSET Lines /\ UNCHANGED <<requested, vector>>

\* After power-on the vertical blank is requested and nothing is enabled.
Restart == requested' = {0, 5, 6, 7} /\ enabled' = {} /\ UNCHANGED vector

Next ==
  \/ Request \/ Clear \/ Enable \/ Disable
  \/ Acknowledge \/ NothingToAcknowledge
  \/ StoreRequested \/ StoreEnabled \/ Restart

Spec == Init /\ [][Next]_vars
=============================================================================
