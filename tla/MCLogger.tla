------------------------------ MODULE MCLogger ------------------------------
(* Two log files, three lines an output, and dumps of up to the whole         *)
(* address space of sixteen bytes, in rows of four.                           *)
EXTENDS Logger

MCStarts == {3, 15}
MCLengths == {0, 7, 12, 13}
=============================================================================
