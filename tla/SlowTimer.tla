----------------------------- MODULE SlowTimer -----------------------------
(***************************************************************************)
(* The conditions under which the timer counts exactly: its registers are  *)
(* real memory, its divider holds the bits watched, an update is long      *)
(* enough to end the reload delay and no longer than an instruction, and   *)
(* the period selected is long enough for no edge to fall between two      *)
(* updates (selects 0 and 3).                                              *)
(***************************************************************************)
EXTENDS TimerRefinement

ASSUME BackedAssumption ==
  \A a \in {DIV_ADDR, TIMA_ADDR, TMA_ADDR, TAC_ADDR, IF_REG} : InRam(a)

ASSUME WideAssumption == DivWrap \in {1024, 65536}

ASSUME StepAssumption == \A c \in CycleCounts : 4 <= c /\ c <= 32

ASSUME SlowSelectAssumption ==
  \A v \in TacValues : Enabled(v) => ClockSelect(v) \in {0, 3}
=============================================================================
