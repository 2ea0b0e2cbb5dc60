SPECIFICATION Spec
CONSTANTS
  Regions <- MCRegions
  Memories <- MCMemories
  IfValues = {}
  Limits = {}
  CountWrap = 64
  Stacks <- MCStacks
  Code <- MCCode
INVARIANTS FlagsClean
PROPERTIES ControlFlow LoadsAsNamed
