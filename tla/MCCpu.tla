-------------------------------- MODULE MCCpu --------------------------------
(* The CPU among interrupts: a program that stores into IF itself, on a        *)
(* stack that is ordinary memory or runs over the interrupt registers.         *)
EXTENDS Cpu, TLC

\* LD SP,nn; LD A,n; LDH (0F),A; PUSH AF; POP BC; NOP ...
Program(sp, requests, enables) ==
  (256 :> \h31) @@ (257 :> Low(sp)) @@ (258 :> High(sp)) @@
  (259 :> \h3E) @@ (260 :> requests) @@
  (261 :> \hE0) @@ (262 :> \h0F) @@
  (263 :> \hF5) @@ (264 :> \hC1) @@
  (IE_ADDR :> enables)

\* Stacks in plain memory, over IF, and wrapping from address 1 to IE.
MCMemories ==
  {Program(sp, requests, enables) :
     sp \in {\hC002, \hFF11, 1}, requests \in {\h14}, enables \in {\h06}}

\* The program, and the starts of the interrupt handlers.
MCCode == (256 .. 264) \cup {64, 72, 80, 88, 96}

MCStacks == {\hFFFE, \hC002, \hC000, \hFF11, \hFF0F, 1, \hFFFF}
MCRegions == FlatRegions
=============================================================================
