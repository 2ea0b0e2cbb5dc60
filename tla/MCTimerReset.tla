---------------------------- MODULE MCTimerReset ----------------------------
(* The timer on flat memory, where a program resets the divider while the   *)
(* watched bit is set.                                                      *)
EXTENDS Timer

MCRegions == FlatRegions

\* Clearing the divider while the timer runs and the watched bit is 1 is a
\* falling edge, and TIMA counts it: the comments of reset_div.
ResetCountsEdge ==
  [][(/\ reset_div
      /\ Enabled(Read(mem, TAC_ADDR))
      /\ IsSet(div_internal, InputBit(ClockSelect(Read(mem, TAC_ADDR)))))
     => Read(mem', TIMA_ADDR) # Read(mem, TIMA_ADDR)]_vars
=============================================================================
