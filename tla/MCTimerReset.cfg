SPECIFICATION Spec
CONSTANTS
  Regions <- MCRegions
  DivWrap = 1024
  TimaLast = 2
  CycleCounts = {4, 20}
  TacValues = {4, 7}
  TimaValues = {2}
  IfValues = {0}
PROPERTIES ResetCountsEdge
