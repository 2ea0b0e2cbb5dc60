SPECIFICATION Spec
CONSTANTS
  Regions <- MCRegions
  DivWrap = 1024
  TimaLast = 2
  CycleCounts = {4, 12, 20}
  TacValues = {0, 4, 7}
  TimaValues = {2}
  IfValues = {0}
PROPERTIES CountsExactly
