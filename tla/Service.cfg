SPECIFICATION SSpec
CONSTANTS
  BlockInterval = 2
  ScanEvery = 2
  Epoch = 2
  MaxTime = 10
  MaxCrashes = 1
  MaxSetBack = 0
  maxRetry = 2
  delay = 2
  Disabled = {"wss"}
  HasCert = FALSE
INVARIANTS
  RunsFullyBound
PROPERTIES
  ScansArePaced
  ShortOutageSurvived
  ExitIsOrderly
  SignalEnds
CHECK_DEADLOCK FALSE
