------------------------------ MODULE MCTimer ------------------------------
(* Timer on flat memory, with every operation and every clock select. *)
EXTENDS Timer

MCRegions == FlatRegions
=============================================================================
