SPECIFICATION Spec
CONSTANTS
  BlockInterval = 2
  ScanEvery = 3
  Epoch = 6
  MaxTime = 20
  MaxCrashes = 1
  MaxSetBack = 4
INVARIANTS
  BuildTimesNeverGoBack
CHECK_DEADLOCK FALSE
