SPECIFICATION FairSpec
CONSTANTS
  Regions <- MCRegions
  DivWrap = 65536
  Files <- MCFiles
  Totals = {1000}
  CountWrap = 65536
  TacValues = {0}
  Code <- MCCode
  MaxSerial = 1
CHECK_DEADLOCK FALSE
INVARIANTS EmulatorTypeOK DemoStopsInTime RegistersAreComputed BannerAgrees ChecksumGuards
PROPERTIES EmulatorEnds MainAdvances
