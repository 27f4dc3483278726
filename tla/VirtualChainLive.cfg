CONSTANTS
  a = a
  b = b
  Txs = {a, b}
  Derivable = {a, b}
  Fatal = {}
  GenesisMainChainBlockHeight = 1
  MaxMainHeight = 3
  MaxReorgs = 0
  MidRoundReorg = FALSE
  AddBlockDurable = FALSE
  SlowIndexing = TRUE
  MaxTxsInBlock = 1
  MaxCacheSize = 2
  ScanEvery = 2
  MaxVirtualHeight = 3
  MaxCrashes = 1
SPECIFICATION FairSpec
CHECK_DEADLOCK FALSE
INVARIANTS TypeOK ScannedIsRecorded OversizeIsOneBlock ChainIsLinear NewestIsAnnounced
PROPERTIES ImplementsLedger RoundEnds MinedIsRecorded AnnouncedBecomesReadable
