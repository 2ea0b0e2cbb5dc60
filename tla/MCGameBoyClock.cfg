SPECIFICATION Spec
CONSTANTS
  Regions <- MCRegions
  DivWrap = 1024
  Files <- MCFiles
  Totals = {8, 88}
  CountWrap = 256
  TacValues = {0, 5}
  Code <- MCCode
  MaxSerial = 2
INVARIANT DividerIsClock
