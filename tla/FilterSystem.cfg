SPECIFICATION FairSpec
CONSTANTS
  f = f
  g = g
  h = h
  a = a
  b = b
  None = None
  Polled = {f}
  Pushed = {h}
  Typ <- MCTyp
  CritOf <- MCCritOf
  BlockLogs <- MCBlockLogs
  ChanSize = 1
  MaxBlocks = 2
  MayExpire = TRUE
INVARIANTS
  StreamComplete
  FeedsAreExact
  UnsubscribedIsSilent
  NoOrphan
  PollCannotBlock
PROPERTIES
  BroadcastEnds
  PublisherGoesOn
  UnsubscribeReturns
  ExpiredIsSwept
CHECK_DEADLOCK FALSE
