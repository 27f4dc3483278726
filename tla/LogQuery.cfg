SPECIFICATION Spec
CONSTANTS
  a = a
  b = b
  x = x
  y = y
  Criteria <- MCCriteria
  BlockLogs <- MCBlockLogs
  MaxBlocks = 2
  MaxConfirmations = 1
  MaxMoves = 1
  MaxFaults = 1
  maxRetry = 2
  Uint32 = 8
  AllOne = 255
  GetRpcMaxLogResults = 2
INVARIANTS
  LogsMatch
  RangeIsBounded
  ConfirmationsWereTrue
PROPERTIES
  GetLogsEnds
CHECK_DEADLOCK FALSE
