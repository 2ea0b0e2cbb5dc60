---------------------------- MODULE MCInterrupts ----------------------------
(* The interrupt controller on flat memory, with a program that stores into *)
(* both registers.                                                          *)
EXTENDS InterruptController

MCRegions == FlatRegions
=============================================================================
