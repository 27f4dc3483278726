--------------------------- MODULE VirtualChainInv ---------------------------
(***************************************************************************)
(* The inductive invariant behind ScannedIsRecorded, RecordedOnce and the  *)
(* refinement of VirtualLedger, in named parts.                            *)
(***************************************************************************)
EXTENDS VirtualChain

Scanning == {"count", "nextBlock", "blockTx", "mempool", "mempoolTx", "emit"}

\* Main chain transactions up to a height.
MinedUpTo(chain, height) == UNION {chain[h] : h \in {g \in DOMAIN chain : g <= height}}

\* Every variable has its type; the block about to be read or published is
\* there.
TypeInv ==
  /\ TypeOK
  /\ pc \in {"nextBlock", "blockTx"} => newestHeight <= Len(mainChain)
  /\ pc \in {"publish", "publishLogs"} => pending # NoBlock \/ ledger # <<>>

\* The node: no transaction in two places.
NodeInv ==
  /\ GenesisMainChainBlockHeight <= Len(mainChain)
  /\ \A g, h \in DOMAIN mainChain : g # h => mainChain[g] \cap mainChain[h] = {}
  /\ mempool \cap TxsIn(mainChain) = {}

\* Where the program is and what its variables then are.
ControlInv ==
  /\ pc = "down" => pending = NoBlock /\ knownTxCache = {}
  /\ pc \notin {"blockTx", "mempoolTx"} => todo = {}
  /\ pc \notin Scanning \ {"count"} => newModbTxs = <<>>
  /\ pc = "blockTx" => latestScanBlockHeight < newestHeight
  /\ pc # "down" =>
       /\ GenesisMainChainBlockHeight <= latestScanBlockHeight
       /\ latestScanBlockHeight <= Len(mainChain)
       /\ currentBlockHeight = Len(Blocks)
       /\ Blocks # <<>> => Blocks[Len(Blocks)].gasUsed <= latestScanBlockHeight
  /\ Hashes(newModbTxs) \subseteq Derivable
  /\ ~SlowIndexing /\ pc \in Scanning => pending = NoBlock

ShapeInv ==
  /\ ChainIsLinear
  /\ \A n \in DOMAIN Blocks :
       /\ GenesisMainChainBlockHeight <= Blocks[n].gasUsed
       /\ Hashes(Blocks[n].txs) \subseteq Derivable
  /\ pending # NoBlock => pending.number = Len(ledger) + 1

\* Nothing scanned is lost.
RecordInv ==
  /\ ScannedIsRecorded
  /\ CacheIsSound
  /\ reorgs = 0 /\ pc # "down" =>
       \A h \in (GenesisMainChainBlockHeight + 1)..latestScanBlockHeight :
         mainChain[h] \cap Derivable \subseteq HashesOf(Blocks) \cup Hashes(newModbTxs)
  /\ reorgs = 0 /\ pc = "blockTx" =>
       (mainChain[latestScanBlockHeight + 1] \cap Derivable) \ todo
         \subseteq HashesOf(Blocks) \cup Hashes(newModbTxs)

\* The node does not change what a running round has read.
StableRound == reorgs = 0 \/ ~MidRoundReorg

\* What the loops have yet to look at is not in the block being built.
RoundInv ==
  StableRound =>
    /\ pc \in {"nextBlock", "mempool"} => Hashes(newModbTxs) \subseteq MinedUpTo(mainChain, latestScanBlockHeight)
    /\ pc = "blockTx" =>
         /\ todo \subseteq mainChain[latestScanBlockHeight + 1]
         /\ Hashes(newModbTxs) \subseteq MinedUpTo(mainChain, latestScanBlockHeight + 1) \ todo
    /\ pc = "mempoolTx" => todo \cap Hashes(newModbTxs) = {}

\* While a block is not indexed, the cache or the scanned height stand in for
\* IsTxMined.
PendingInv ==
  reorgs = 0 /\ CacheHoldsAll /\ pc # "down" =>
    /\ Hashes(pending.txs) \subseteq knownTxCache \cup MinedUpTo(mainChain, latestScanBlockHeight)
    /\ pc # "blockTx" =>
         Hashes(newModbTxs) \subseteq knownTxCache \cup MinedUpTo(mainChain, latestScanBlockHeight)
    /\ pc = "mempoolTx" => todo \cap MinedUpTo(mainChain, latestScanBlockHeight) = {}

OnceCondition ==
  \/ ~SlowIndexing /\ StableRound
  \/ reorgs = 0 /\ CacheHoldsAll

Distinct(txs) == \A i, j \in DOMAIN txs : txs[i].hash = txs[j].hash => i = j

OnceInv ==
  OnceCondition =>
    /\ NoDuplicates(Blocks)
    /\ Distinct(newModbTxs)
    /\ Hashes(newModbTxs) \cap HashesOf(Blocks) = {}

\* The entries that are not of a main chain block.
Beside(txs, block) == {i \in DOMAIN txs : txs[i].hash \notin block}

OneBlockOver(txs, chain, height) ==
  Len(txs) > MaxTxsInBlock => height \in DOMAIN chain /\ Cardinality(Beside(txs, chain[height])) < MaxTxsInBlock

\* Only the main chain block that is being read takes a block over the limit.
SizeInv ==
  reorgs = 0 =>
    /\ \A n \in DOMAIN Blocks : OneBlockOver(Blocks[n].txs, mainChain, Blocks[n].gasUsed)
    /\ pc \in {"nextBlock", "mempool", "mempoolTx"} => Len(newModbTxs) < MaxTxsInBlock
    /\ pc = "blockTx" => Cardinality(Beside(newModbTxs, mainChain[latestScanBlockHeight + 1])) < MaxTxsInBlock
    /\ pc = "emit" => OneBlockOver(newModbTxs, mainChain, latestScanBlockHeight)

IInv == TypeInv /\ NodeInv /\ ControlInv /\ ShapeInv /\ RecordInv /\ RoundInv /\ PendingInv /\ OnceInv /\ SizeInv

=============================================================================
