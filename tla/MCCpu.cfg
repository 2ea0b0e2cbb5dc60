SPECIFICATION FairSpec
CONSTANTS
  Regions <- MCRegions
  Memories <- MCMemories
  IfValues = {6}
  Limits = {16}
  CountWrap = 64
  Stacks <- MCStacks
  Code <- MCCode
INVARIANTS TypeOK
PROPERTIES ControlFlow DispatchAcknowledges RunEnds RunAdvances
