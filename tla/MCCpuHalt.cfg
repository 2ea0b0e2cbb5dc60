SPECIFICATION LoopSpec
CONSTANTS
  Regions <- MCRegions
  Memories <- MCMemories
  IfValues = {1}
  Limits = {8}
  CountWrap = 64
  Stacks <- MCStacks
  Code <- MCCode
PROPERTY HaltEnds
