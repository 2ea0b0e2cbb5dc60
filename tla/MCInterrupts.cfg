SPECIFICATION Spec
CONSTANTS
  Regions <- MCRegions
  Interrupts = {0, 4}
  IfValues = {4}
  IeValues = {20}
INVARIANTS TypeOK
PROPERTIES RequestsKept BehavesAsSets
