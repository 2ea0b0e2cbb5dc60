SPECIFICATION FairSpec
CONSTANTS
  Regions <- MCRegions
  DivWrap = 64
  TimaLast = 2
  CycleCounts = {2, 4}
  TacValues = {2, 5, 6}
  TimaValues = {2}
  IfValues = {0}
INVARIANTS TypeOK DelayOnlyWhilePending
PROPERTIES OverflowAnswered RequestsEarned WrapRemembered OverflowEventuallyAnswered AnsweredByNextInstruction
