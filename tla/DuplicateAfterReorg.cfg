CONSTANTS
  a = a
  Txs = {a}
  Derivable = {a}
  Fatal = {}
  GenesisMainChainBlockHeight = 1
  MaxMainHeight = 3
  MaxReorgs = 1
  MidRoundReorg = TRUE
  AddBlockDurable = TRUE
  SlowIndexing = FALSE
  MaxTxsInBlock = 2
  MaxCacheSize = 2
  ScanEvery = 2
  MaxVirtualHeight = 3
  MaxCrashes = 0
SYMMETRY Symmetry
SPECIFICATION Spec
CHECK_DEADLOCK FALSE
INVARIANTS NoNeedToCacheMinedTx
