------------------------------- MODULE MCLoads -------------------------------
(* Every opcode, after a prelude that fills the registers: LD SP,nn; POP AF;  *)
(* POP BC; POP DE; POP HL.                                                    *)
EXTENDS Cpu, TLC

Prelude(sp) ==
  (256 :> \h31) @@ (257 :> Low(sp)) @@ (258 :> High(sp)) @@
  (259 :> \hF1) @@ (260 :> \hC1) @@ (261 :> \hD1) @@ (262 :> \hE1)

\* What the prelude pops; HL is the last.
Stacked(sp, hl) ==
  (sp :> \h6F) @@ (sp + 1 :> \hA5) @@ (sp + 2 :> \h81) @@ (sp + 3 :> \hC3) @@
  (sp + 4 :> \h42) @@ (sp + 5 :> \hC4) @@ (sp + 6 :> Low(hl)) @@ (sp + 7 :> High(hl))

\* Bytes for the loads to find.
Cells ==
  (\hC381 :> 17) @@ (\hC442 :> 34) @@ (\hC510 :> 51) @@ (\hFF7E :> 68) @@ (\hFF81 :> 85)

\* The stack ends in plain memory or at the top of the address space, HL is
\* an ordinary address or one of its two ends, the operand is positive or
\* negative.
MCMemories ==
  {Prelude(s[1]) @@ Stacked(s[1], s[2]) @@ Cells @@
     (263 :> op) @@ (264 :> s[3]) @@ (265 :> \hC5) :
     op \in 0 .. 255,
     s \in {<<\hD000, \hC510, \h7E>>, <<\hFFF8, \hFFFF, \hFE>>, <<\hD0F7, 0, \h81>>}}

MCCode == 256 .. 264
MCStacks == Word
MCRegions == FlatRegions
=============================================================================
