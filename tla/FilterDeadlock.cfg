SPECIFICATION FairSpec
CONSTANTS
  f = f
  g = g
  h = h
  a = a
  b = b
  None = None
  Polled = {f, g}
  Pushed = {}
  Typ <- MCTyp
  CritOf <- MCCritOf
  BlockLogs <- MCBlockLogs
  ChanSize = 1
  MaxBlocks = 1
  MayExpire = TRUE
PROPERTIES
  BroadcastEnds
CHECK_DEADLOCK FALSE
