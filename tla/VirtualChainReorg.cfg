CONSTANTS
  a = a
  f = f
  p = p
  Txs = {a, f, p}
  Derivable = {a}
  Fatal = {f}
  GenesisMainChainBlockHeight = 1
  MaxMainHeight = 3
  MaxReorgs = 1
  MidRoundReorg = FALSE
  AddBlockDurable = TRUE
  SlowIndexing = FALSE
  MaxTxsInBlock = 2
  MaxCacheSize = 0
  ScanEvery = 2
  MaxVirtualHeight = 3
  MaxCrashes = 1
SYMMETRY Symmetry
SPECIFICATION Spec
CHECK_DEADLOCK FALSE
INVARIANTS RecordedOnce CacheIsSound AnnouncedIsFinal
PROPERTIES AnnouncedInOrder
