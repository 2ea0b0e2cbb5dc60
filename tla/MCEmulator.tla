----------------------------- MODULE MCEmulator -----------------------------
(* The program with no file, files that fail, a short one, and files whose    *)
(* size codes reach every case of the banner's shift.                         *)
EXTENDS Emulator, TLC

Image(size, bytes) == [kind |-> "sound", size |-> size, bytes |-> bytes]
Failing(kind) == [kind |-> kind, size |-> 0, bytes |-> NoBytes]

\* LD (C000),SP and LD A,(C000) first; PUSH AF where 992 cycles have passed: it
\* ends at 1008.
Program ==
  (256 :> \h08) @@ (257 :> 0) @@ (258 :> \hC0) @@
  (259 :> \hFA) @@ (260 :> 0) @@ (261 :> \hC0) @@ (501 :> \hF5)

\* A title of one letter, two sizes and, for a ROM size code of 1, the checksum.
HeaderBytes(romSize, ramSize) ==
  (\h134 :> \h43) @@ (\h135 :> 0) @@ (\h148 :> romSize) @@ (\h149 :> ramSize) @@
  (\h14D :> \hB6)

MCFiles ==
  {Image(512, Program @@ HeaderBytes(code, 2)) :
     code \in {0, 1, 8, 9, 26, 27, 31, 32, \h52, 255}}
  \cup {Image(HeaderEnd, HeaderBytes(7, 5)), Image(0, NoBytes)}
  \cup {Failing(kind) : kind \in {"absent", "unsized", "broken"}}
\* Where a restart, and a machine without one, starts.
MCCode == {0, 256}
MCRegions == GameBoyRegions
=============================================================================
