-------------------------- MODULE TimerRefinement --------------------------
(***************************************************************************)
(* The timer against what it promises (IdealTimer): the divider is the     *)
(* clock, and the registers are what memory holds.  A cycle of update() is *)
(* four periods of the clock.                                              *)
(***************************************************************************)
EXTENDS Timer

Ideal ==
  INSTANCE IdealTimer WITH
    ClockWrap <- DivWrap, Last <- TimaLast,
    Steps <- {4 * c : c \in CycleCounts},
    clock <- div_internal,
    counter <- Read(mem, TIMA_ADDR),
    modulo <- Read(mem, TMA_ADDR),
    control <- Read(mem, TAC_ADDR),
    pending <- tima_overflow,
    requested <- Requested

\* Counting falling edges of one divider bit, one look per update, gives
\* exactly one increment per period of the selected frequency, in every
\* interleaving with divider resets, TAC changes and program stores.
CountsExactly == Ideal!Spec
=============================================================================
