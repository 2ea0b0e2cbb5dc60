------------------------------ MODULE MCGameBoy ------------------------------
(* The machine with cartridges of a few instructions that take 4 to 20        *)
(* cycles, its own memory map, and frames long enough for TIMA to overflow.   *)
EXTENDS MachineRefinement, TLC

Sound(size, bytes) == [kind |-> "sound", size |-> size, bytes |-> bytes]
Other(kind) == [kind |-> kind, size |-> 0, bytes |-> NoBytes]

\* LD (C000),SP; LD A,5; LDH (07),A; PUSH AF; LDH (04),A, a title and a size code
Program ==
  (256 :> \h08) @@ (257 :> 0) @@ (258 :> \hC0) @@ (259 :> \h3E) @@ (260 :> 5) @@
  (261 :> \hE0) @@ (262 :> \h07) @@ (263 :> \hF5) @@ (264 :> \hE0) @@ (265 :> \h04) @@
  (\h134 :> \h43) @@ (\h135 :> 0) @@ (\h148 :> 1)

\* A ROM that ends with its header, one that ends before it, and failures.
MCFiles ==
  {Sound(HeaderEnd, Program), Sound(257, 256 :> \hF1),
   Other("absent"), Other("unsized"), Other("broken")}
MCCode == 256 .. 263
MCRegions == GameBoyRegions
=============================================================================
