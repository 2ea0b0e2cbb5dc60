SPECIFICATION FairSpec
CONSTANTS
  Names = {f, g}
  Width = 16
  Row = 4
  Starts <- MCStarts
  Lengths <- MCLengths
  MaxLines = 2
  MaxStates = 3
INVARIANTS TypeOK NumbersIdentify DumpComplete
PROPERTIES DumpEnds DumpAdvances
