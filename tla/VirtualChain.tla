---------------------------- MODULE VirtualChain ----------------------------
(***************************************************************************)
(* chains.VirtualChain on top of its scanner and its store: recovery, the  *)
(* ticker loop, GenerateNewBlock and publishNewBlock, with the node moving *)
(* and the process dying at any point in between.                          *)
(*                                                                         *)
(* Time is left to module BlockClock: here a tick may come whenever the    *)
(* loop waits for one.                                                     *)
(***************************************************************************)
EXTENDS BchScanner

CONSTANTS
  ScanEvery,         \* every ScanEvery-th tick also scans blocks (12)
  SlowIndexing,      \* may indexing a block outlast the wait for a tick?
  MidRoundReorg,     \* may the node reorganise while GetNewTxs runs?
  MaxVirtualHeight,  \* bound on the virtual chain
  MaxCrashes         \* bound on crashes that are not a panic on a Fatal tx

ASSUME ChainAssumption ==
  /\ ScanEvery \in Nat \ {0}
  /\ SlowIndexing \in BOOLEAN
  /\ MidRoundReorg \in BOOLEAN
  /\ MaxVirtualHeight \in Nat
  /\ MaxCrashes \in Nat

VARIABLES
  currentBlockHeight,
  prevBlockHash,
  scanBlock,              \* GenerateNewBlock's argument
  tryGenerateBlockCount,  \* modulo ScanEvery
  announced,              \* last block sent on chainFeed, in any run
  logged,                 \* last block whose logs were sent on logsFeed
  crashes

chainVars == <<currentBlockHeight, prevBlockHash, scanBlock,
               tryGenerateBlockCount, announced, logged, crashes>>

vars == <<nodeVars, storeVars, scannerVars, pc, chainVars>>

Init ==
  /\ NodeInit
  /\ StoreInit
  /\ knownTxCache = {}
  /\ latestScanBlockHeight = 0
  /\ newestHeight = 0
  /\ todo = {}
  /\ newModbTxs = <<>>
  /\ txIndex = 0
  /\ pc = "down"
  /\ currentBlockHeight = 0
  /\ prevBlockHash = ZeroHash
  /\ scanBlock = FALSE
  /\ tryGenerateBlockCount = 0
  /\ announced = NoBlock
  /\ logged = NoBlock
  /\ crashes = 0

-----------------------------------------------------------------------------
\* The call of GenerateNewBlock up to the scanner's first node call.
EnterGenerate(scan) ==
  /\ currentBlockHeight' < MaxVirtualHeight
  /\ scanBlock' = scan
  /\ pc' = IF scan THEN "count" ELSE "mempool"

\* RecoveryFromDB and the first block.
Start ==
  LET info == GetLatestBlockInfo
  IN  /\ pc = "down"
      /\ currentBlockHeight' = info.height
      /\ prevBlockHash' = info.hash
      /\ latestScanBlockHeight' = IF info.scanned = 0
                                    THEN GenesisMainChainBlockHeight
                                    ELSE info.scanned
      /\ EnterGenerate(TRUE)
      /\ tryGenerateBlockCount' = 0
      /\ UNCHANGED <<nodeVars, storeVars, knownTxCache, newestHeight, todo,
                     newModbTxs, txIndex, announced, logged, crashes>>

\* Mutant: no tick has the block scan.
TickNeverScans ==
  /\ pc = "idle"
  /\ SlowIndexing \/ pending = NoBlock
  /\ tryGenerateBlockCount' = (tryGenerateBlockCount + 1) % ScanEvery
  /\ UNCHANGED currentBlockHeight
  /\ EnterGenerate(FALSE)
  /\ UNCHANGED <<nodeVars, storeVars, scannerVars, prevBlockHash,
                 announced, logged, crashes>>

Tick ==
  /\ pc = "idle"
  /\ SlowIndexing \/ pending = NoBlock
  /\ tryGenerateBlockCount' = (tryGenerateBlockCount + 1) % ScanEvery
  /\ UNCHANGED currentBlockHeight
  /\ EnterGenerate(tryGenerateBlockCount' = 0)
  /\ UNCHANGED <<nodeVars, storeVars, scannerVars, prevBlockHash,
                 announced, logged, crashes>>

Scan ==
  /\ ScannerStep
  /\ UNCHANGED <<nodeVars, storeVars, chainVars>>

\* Nothing found in a round that did not scan blocks: no block.
SkipRound ==
  /\ pc = "emit"
  /\ newModbTxs = <<>>
  /\ ~scanBlock
  /\ pc' = "idle"
  /\ ScannerReset
  /\ UNCHANGED <<nodeVars, storeVars, knownTxCache, latestScanBlockHeight, chainVars>>

NewBlock ==
  [number     |-> currentBlockHeight + 1,
   hash       |-> BlockHash(currentBlockHeight),
   parentHash |-> prevBlockHash,
   gasUsed    |-> latestScanBlockHeight,
   txs        |-> newModbTxs]

StoreNewBlock ==
  /\ pc = "emit"
  /\ newModbTxs # <<>> \/ scanBlock
  /\ AddBlock(NewBlock)
  /\ currentBlockHeight' = currentBlockHeight + 1
  /\ pc' = "publish"
  /\ ScannerReset
  /\ UNCHANGED <<nodeVars, knownTxCache, latestScanBlockHeight, prevBlockHash,
                 scanBlock, tryGenerateBlockCount, announced, logged, crashes>>

\* The block GenerateNewBlock handed to AddBlock, indexed by now or not.
StoredBlock == IF pending = NoBlock THEN ledger[Len(ledger)] ELSE pending

\* Mutant: no block has its logs sent.
SendChainEventOnly ==
  /\ pc = "publish"
  /\ announced' = StoredBlock
  /\ pc' = "idle"
  /\ UNCHANGED <<nodeVars, storeVars, scannerVars, currentBlockHeight,
                 prevBlockHash, scanBlock, tryGenerateBlockCount, logged, crashes>>

\* Mutant: a block without transactions is not announced.
SendChainEventNotEmpty ==
  /\ pc = "publish"
  /\ announced' = IF StoredBlock.txs = <<>> THEN announced ELSE StoredBlock
  /\ pc' = IF StoredBlock.txs = <<>> THEN "idle" ELSE "publishLogs"
  /\ UNCHANGED <<nodeVars, storeVars, scannerVars, currentBlockHeight,
                 prevBlockHash, scanBlock, tryGenerateBlockCount, logged, crashes>>

\* publishNewBlock: chainFeed, then logsFeed if the block has logs (every
\* derived transaction has exactly one).
SendChainEvent ==
  /\ pc = "publish"
  /\ announced' = StoredBlock
  /\ pc' = IF StoredBlock.txs = <<>> THEN "idle" ELSE "publishLogs"
  /\ UNCHANGED <<nodeVars, storeVars, scannerVars, currentBlockHeight,
                 prevBlockHash, scanBlock, tryGenerateBlockCount, logged, crashes>>

SendLogs ==
  /\ pc = "publishLogs"
  /\ logged' = StoredBlock
  /\ pc' = "idle"
  /\ UNCHANGED <<nodeVars, storeVars, scannerVars, currentBlockHeight,
                 prevBlockHash, scanBlock, tryGenerateBlockCount, announced, crashes>>

-----------------------------------------------------------------------------
\* The process ends: memory is gone, the store is what Reopen finds.
Die ==
  /\ pc' = "down"
  /\ Reopen
  /\ ScannerReset
  /\ knownTxCache' = {}
  /\ latestScanBlockHeight' = 0
  /\ currentBlockHeight' = 0
  /\ prevBlockHash' = ZeroHash
  /\ scanBlock' = FALSE
  /\ tryGenerateBlockCount' = 0
  /\ UNCHANGED <<nodeVars, announced, logged>>

\* A failed node call (panic(err)), a signal or a power cut, at any point.
Crash ==
  /\ pc # "down"
  /\ crashes < MaxCrashes
  /\ crashes' = crashes + 1
  /\ Die

Panic ==
  /\ \E t \in todo : PanicsOn(t)
  /\ Die
  /\ UNCHANGED crashes

-----------------------------------------------------------------------------
NodeStep ==
  /\ \/ NodeNext
     \/ /\ MidRoundReorg \/ pc \in {"idle", "down"}
        /\ \E b1, b2 \in SUBSET Txs : Reorg(b1, b2)
  /\ UNCHANGED <<storeVars, scannerVars, pc, chainVars>>

Index ==
  /\ IndexBlock
  /\ UNCHANGED <<nodeVars, scannerVars, pc, chainVars>>

\* What the program does by itself, against what happens to it.
ProgramStep ==
  \/ Start
  \/ Tick
  \/ Scan
  \/ SkipRound
  \/ StoreNewBlock
  \/ SendChainEvent
  \/ SendLogs

Next == ProgramStep \/ Index \/ Crash \/ Panic \/ NodeStep

Spec == Init /\ [][Next]_vars

\* The loop, the scanner and moeingdb's goroutine keep running; the node, a
\* crash and a failing fetch owe nothing.
Fairness == WF_vars(ProgramStep) /\ WF_vars(Panic) /\ WF_vars(Index)

FairSpec == Spec /\ Fairness

-----------------------------------------------------------------------------
(* Properties *)

PcValues == {"down", "idle", "count", "nextBlock", "blockTx", "mempool",
             "mempoolTx", "emit", "publish", "publishLogs"}

DerivedTx == [hash : Txs, index : Nat]

Block == [number : Nat, hash : Nat, parentHash : Nat, gasUsed : Nat,
          txs : Seq(DerivedTx)]

\* Every variable has its type.
TypeOK ==
  /\ NodeTypeOK
  /\ ledger \in Seq(Block)
  /\ pending \in Block
  /\ knownTxCache \in SUBSET Txs
  /\ latestScanBlockHeight \in Nat
  /\ newestHeight \in Nat
  /\ todo \in SUBSET Txs
  /\ newModbTxs \in Seq(DerivedTx)
  /\ txIndex \in Nat
  /\ pc \in PcValues
  /\ currentBlockHeight \in Nat
  /\ prevBlockHash \in Nat
  /\ scanBlock \in BOOLEAN
  /\ tryGenerateBlockCount \in 0..(ScanEvery - 1)
  /\ announced \in Block
  /\ logged \in Block
  /\ crashes \in 0..MaxCrashes

\* The virtual chain as GenerateNewBlock left it: indexed blocks and the one
\* on its way.
Blocks == IF pending = NoBlock THEN ledger ELSE Append(ledger, pending)

\* The block that says in GasUsed that the main chain was scanned up to some
\* height, and the blocks before it, hold every derivable transaction up to
\* that height, whatever crashes, lost blocks, cache evictions and slow
\* indexing came before.  The node has not reorganised.
ScannedIsRecorded ==
  reorgs = 0 =>
    \A n \in DOMAIN Blocks :
      \A h \in (GenesisMainChainBlockHeight + 1)..Blocks[n].gasUsed :
        \A t \in mainChain[h] \cap Derivable :
          \E m \in 1..n : t \in Hashes(Blocks[m].txs)

\* The comment on knownTxCache, "cache non-EGTXs and mined EGTXs": a derivable
\* transaction in the cache is in a virtual block or in the one being built,
\* so isKnownTx never skips one that is recorded nowhere.
CacheIsSound ==
  knownTxCache \cap Derivable \subseteq HashesOf(Blocks) \cup Hashes(newModbTxs)

\* No two entries of the virtual chain are the same transaction.
NoDuplicates(blocks) ==
  \A m, n \in DOMAIN blocks :
    \A i \in DOMAIN blocks[m].txs, j \in DOMAIN blocks[n].txs :
      blocks[m].txs[i].hash = blocks[n].txs[j].hash => m = n /\ i = j

CacheHoldsAll == IsFiniteSet(Txs) /\ Cardinality(Txs) <= MaxCacheSize + 1

\* A transaction enters the virtual chain once.  Either of two things is
\* enough.  Indexing is done before the next round, and the node does not
\* reorganise in the middle of a round.  Or the node does not reorganise at
\* all, and knownTxCache never has to evict.
RecordedOnce ==
  \/ ~SlowIndexing /\ (reorgs = 0 \/ ~MidRoundReorg)
  \/ reorgs = 0 /\ CacheHoldsAll
  => NoDuplicates(Blocks)

\* "allow nums of EGTX bigger than config only in situation which there has
\* more EGTX in current main chain block": leaving out the last scanned main
\* chain block, a virtual block is below the limit.
OversizeIsOneBlock ==
  reorgs = 0 =>
    \A n \in DOMAIN Blocks :
      LET txs  == Blocks[n].txs
          last == {i \in DOMAIN txs : txs[i].hash \in mainChain[Blocks[n].gasUsed]}
      IN  Len(txs) > MaxTxsInBlock => Len(txs) - Cardinality(last) < MaxTxsInBlock

\* Virtual heights have no gap and no repetition and GasUsed never goes back
\* nor ahead of the node, across restarts and lost blocks.
ChainIsLinear ==
  \A n \in DOMAIN Blocks :
    /\ Blocks[n].number = n
    /\ Blocks[n].hash = BlockHash(n - 1)
    /\ Blocks[n].gasUsed <= Len(mainChain)
    /\ n > 1 => Blocks[n - 1].gasUsed <= Blocks[n].gasUsed

\* The block last announced on chainFeed or logsFeed is never replaced, if
\* moeingdb keeps what AddBlock took: publishNewBlock comes after AddBlock.
AnnouncedIsFinal ==
  AddBlockDurable =>
    \A b \in {announced, logged} \ {NoBlock} :
      b.number \in DOMAIN Blocks /\ Blocks[b.number] = b

\* Between rounds subscribers have been sent the newest block, and its logs
\* if it has any; no round ends with its block unannounced.
NewestIsAnnounced ==
  pc = "idle" =>
    /\ announced = Blocks[Len(Blocks)]
    /\ announced.txs # <<>> => logged = announced

\* Subscribers are sent the blocks in order, none twice, and miss at most one
\* for every crash: the one that AddBlock had taken and publishNewBlock not
\* yet sent.  moeingdb keeps what AddBlock took.
AnnouncedInOrder ==
  [][ AddBlockDurable /\ announced' # announced =>
        announced'.number \in (announced.number + 1)..(announced.number + 1 + crashes) ]_vars

\* What a reader of the ledger is promised something about.
BlockView(block) ==
  [scanned |-> block.gasUsed,
   txs     |-> [i \in DOMAIN block.txs |-> block.txs[i].hash]]

View(blocks) == [n \in DOMAIN blocks |-> BlockView(blocks[n])]

Ledger == INSTANCE VirtualLedger WITH
  Genesis <- GenesisMainChainBlockHeight,
  ledger  <- View(ledger)

\* The indexed blocks and the main chain behave as VirtualLedger says, when
\* the node does not reorganise.
ImplementsLedger == Ledger!Spec

\* A round ends, whatever the node does meanwhile: GetBlockCount and
\* GetRawMempool are read once.
RoundEnds == pc \notin {"idle", "down"} ~> pc \in {"idle", "down"}

IsMined(t) ==
  \E h \in DOMAIN mainChain : h > GenesisMainChainBlockHeight /\ t \in mainChain[h]

\* A derivable transaction that a mined block holds gets into a virtual block
\* that can be read, although the scan may stop early at MaxTxsInBlock, a
\* crash may lose the block that had it, and the scan comes only with every
\* ScanEvery-th tick.  It needs one virtual block for the round under way and
\* at most one per derivable transaction, below the bound of the model.
MinedIsRecorded ==
  \A t \in Derivable :
    /\ IsMined(t)
    /\ Len(Blocks) + Cardinality(Derivable) + 1 <= MaxVirtualHeight
    ~> t \in HashesOf(ledger)

-----------------------------------------------------------------------------
(* Claims of the documentation that the code does not keep. *)

\* scanner/bch.go:129, "no need to add already mined tx in main chain block",
\* and the AddKnownTx of a collected one is commented out (134): the entries of
\* the virtual chain stay distinct without it.
NoNeedToCacheMinedTx == NoDuplicates(Blocks)

\* README.md:46, "The mined blocks are also checked to find new derivable
\* transactions": one whose block stays in the main chain is recorded in the
\* end.  There is room for the round under way and for a virtual block per
\* derivable transaction, as in MinedIsRecorded.
MinedBlocksAreChecked ==
  \A t \in Derivable :
    /\ IsMined(t)
    /\ Len(Blocks) + Cardinality(Derivable) + 1 <= MaxVirtualHeight
    ~> t \in HashesOf(ledger) \/ ~IsMined(t)

=============================================================================
