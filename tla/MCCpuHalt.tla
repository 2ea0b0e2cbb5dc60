------------------------------ MODULE MCCpuHalt ------------------------------
(* A halted CPU, a request for an enabled interrupt, and a main loop that      *)
(* keeps calling run().                                                        *)
EXTENDS Cpu, TLC

MCMemories == {IE_ADDR :> 1}
MCCode == {0, 256}
MCStacks == {0, \hFFFE}
MCRegions == FlatRegions
=============================================================================
