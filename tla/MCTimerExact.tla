---------------------------- MODULE MCTimerExact ----------------------------
(* The timer on flat memory with the two slow clock selects, against       *)
(* IdealTimer.                                                             *)
EXTENDS SlowTimer

MCRegions == FlatRegions
=============================================================================
