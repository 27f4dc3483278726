-------------------------- MODULE VirtualChainOnce --------------------------
(***************************************************************************)
(* No transaction enters the virtual chain twice, and the virtual chain    *)
(* keeps what VirtualLedger promises, for every value of the constants.    *)
(***************************************************************************)
EXTENDS VirtualChainProofs, FiniteSetTheorems

-----------------------------------------------------------------------------
(* Lemmas about distinct entries *)

LEMMA DistinctAppend ==
  ASSUME NEW s \in Seq(DerivedTx), NEW x \in DerivedTx,
         Distinct(s), x.hash \notin Hashes(s)
  PROVE  Distinct(Append(s, x))
<1>1. \A i \in DOMAIN Append(s, x) : \/ i \in DOMAIN s /\ Append(s, x)[i] = s[i]
                                     \/ i = Len(s) + 1 /\ Append(s, x)[i] = x
  OBVIOUS
<1>2. \A i \in DOMAIN s : s[i].hash # x.hash
  BY DEF Hashes
<1> QED
  BY <1>1, <1>2 DEF Distinct

LEMMA NoDuplicatesAppend ==
  ASSUME NEW s \in Seq(Block), NEW b \in Block,
         NoDuplicates(s), Distinct(b.txs), Hashes(b.txs) \cap HashesOf(s) = {}
  PROVE  NoDuplicates(Append(s, b))
<1> DEFINE t == Append(s, b)
<1>1. \A n \in DOMAIN t : \/ n \in DOMAIN s /\ t[n] = s[n]
                          \/ n = Len(s) + 1 /\ t[n] = b
  OBVIOUS
<1>2. \A n \in DOMAIN s : \A i \in DOMAIN s[n].txs, j \in DOMAIN b.txs : s[n].txs[i].hash # b.txs[j].hash
  BY DEF Hashes, HashesOf
<1> SUFFICES ASSUME NEW m \in DOMAIN t, NEW n \in DOMAIN t,
                    NEW i \in DOMAIN t[m].txs, NEW j \in DOMAIN t[n].txs,
                    t[m].txs[i].hash = t[n].txs[j].hash
             PROVE  m = n /\ i = j
  BY DEF NoDuplicates
<1> HIDE DEF t
<1>3. CASE m \in DOMAIN s /\ t[m] = s[m] /\ n \in DOMAIN s /\ t[n] = s[n]
  <2>1. i \in DOMAIN s[m].txs /\ j \in DOMAIN s[n].txs /\ s[m].txs[i].hash = s[n].txs[j].hash
    BY <1>3, Zenon
  <2> QED
    BY <1>3, <2>1, SMTT(30) DEF NoDuplicates
<1>4. CASE m = Len(s) + 1 /\ t[m] = b /\ n = Len(s) + 1 /\ t[n] = b
  BY <1>4, Zenon DEF Distinct
<1>5. ~(m \in DOMAIN s /\ t[m] = s[m] /\ t[n] = b)
  BY <1>2, Zenon
<1>6. ~(n \in DOMAIN s /\ t[n] = s[n] /\ t[m] = b)
  BY <1>2, Zenon
<1> QED
  BY <1>1, <1>3, <1>4, <1>5, <1>6

\* What Blocks loses in a crash leaves no duplicate behind.
LEMMA NoDuplicatesReopen ==
  ASSUME TypeOK, Reopen, NoDuplicates(Blocks)
  PROVE  NoDuplicates(Blocks')
<1>1. \A n \in DOMAIN Blocks' : n \in DOMAIN Blocks /\ Blocks'[n] = Blocks[n]
  BY BlocksReopen, LedgerIsPrefix
<1> QED
  BY <1>1, SMTT(30) DEF NoDuplicates

LEMMA NoBlockHashes == Hashes(NoBlock.txs) = {}
BY HashesEmpty DEF NoBlock

\* What is recorded is indexed or pending.
LEMMA BlocksHashes == TypeOK => HashesOf(Blocks) = HashesOf(ledger) \cup Hashes(pending.txs)
BY HashesOfAppend, NoBlockHashes DEF Blocks, TypeOK

\* A cache that can hold all transactions never evicts for a new one.
LEMMA NoEviction ==
  ASSUME TypeOK, CacheHoldsAll, NEW t \in Txs, t \notin knownTxCache, AddKnownTx(t)
  PROVE  knownTxCache' = knownTxCache \cup {t}
<1>1. /\ IsFiniteSet(Txs \ {t}) /\ Cardinality(Txs \ {t}) = Cardinality(Txs) - 1
      /\ Cardinality(Txs) \in Nat
  BY FS_RemoveElement, FS_CardinalityType DEF CacheHoldsAll
<1>2. knownTxCache \subseteq Txs \ {t}
  BY DEF TypeOK
<1>3. IsFiniteSet(knownTxCache) /\ Cardinality(knownTxCache) <= Cardinality(Txs \ {t})
  BY <1>1, <1>2, FS_Subset
<1>4. Cardinality(knownTxCache) \in Nat
  BY <1>3, FS_CardinalityType
<1>5. Cardinality(knownTxCache) <= MaxCacheSize
  BY <1>1, <1>3, <1>4, ScannerAssumption DEF CacheHoldsAll
<1> QED
  BY <1>4, <1>5, ScannerAssumption DEF AddKnownTx

-----------------------------------------------------------------------------
(* Lemmas about the blocks up to a height *)

LEMMA MinedUpToNext ==
  ASSUME NEW c \in Seq(SUBSET Txs), NEW height \in Nat, height + 1 \in DOMAIN c,
         \A g, h \in DOMAIN c : g # h => c[g] \cap c[h] = {}
  PROVE  /\ MinedUpTo(c, height + 1) = MinedUpTo(c, height) \cup c[height + 1]
         /\ MinedUpTo(c, height) \cap c[height + 1] = {}
<1>1. \A g \in DOMAIN c : g <= height + 1 <=> g <= height \/ g = height + 1
  OBVIOUS
<1>2. MinedUpTo(c, height + 1) = MinedUpTo(c, height) \cup c[height + 1]
  BY <1>1 DEF MinedUpTo
<1>3. \A g \in DOMAIN c : g <= height => c[g] \cap c[height + 1] = {}
  OBVIOUS
<1> QED
  BY <1>2, <1>3 DEF MinedUpTo

LEMMA MinedUpToSame ==
  ASSUME NEW c \in Seq(SUBSET Txs), NEW d \in Seq(SUBSET Txs), NEW height \in Nat, height <= Len(c),
         \A h \in DOMAIN c : h \in DOMAIN d /\ d[h] = c[h]
  PROVE  MinedUpTo(d, height) = MinedUpTo(c, height)
<1>1. \A g \in DOMAIN d : g <= height => g \in DOMAIN c
  OBVIOUS
<1> QED
  BY <1>1 DEF MinedUpTo

LEMMA MinedUpToIsMined ==
  ASSUME NEW c \in Seq(SUBSET Txs), NEW height
  PROVE  MinedUpTo(c, height) \subseteq TxsIn(c)
BY DEF MinedUpTo, TxsIn

\* While a round that may rely on it runs, the main chain only grows.
LEMMA StableStep ==
  ASSUME TypeInv, [Next]_vars, StableRound'
  PROVE  /\ StableRound
         /\ pc \notin {"idle", "down"} \/ reorgs' = 0 =>
              \A h \in DOMAIN mainChain : h \in DOMAIN mainChain' /\ mainChain'[h] = mainChain[h]
<1> USE DEF TypeInv, TypeOK, NodeTypeOK
<1>1. CASE UNCHANGED nodeVars
  BY <1>1 DEF nodeVars, StableRound
<1>2. ASSUME NEW t \in Txs, Broadcast(t) \/ Drop(t) PROVE UNCHANGED <<mainChain, reorgs>>
  BY <1>2 DEF Broadcast, Drop
<1>3. ASSUME NEW block \in SUBSET Txs, Mine(block)
      PROVE  /\ reorgs' = reorgs
             /\ \A h \in DOMAIN mainChain : h \in DOMAIN mainChain' /\ mainChain'[h] = mainChain[h]
  BY <1>3 DEF Mine
<1>4. ASSUME NEW b1 \in SUBSET Txs, NEW b2 \in SUBSET Txs, Reorg(b1, b2)
      PROVE  reorgs' # 0
  BY <1>4 DEF Reorg
<1>5. CASE NodeStep
  BY <1>2, <1>3, <1>4, <1>5, ZenonT(30) DEF NodeStep, NodeNext, StableRound
<1> QED
  BY <1>1, <1>5, Zenon DEF Next, ProgramStep, Start, Tick, Scan, SkipRound, StoreNewBlock,
     SendChainEvent, SendLogs, Index, Crash, Panic, Die, vars

-----------------------------------------------------------------------------
(* The loops of a round *)

LEMMA CollectedTx ==
  ASSUME TypeOK, NEW t \in todo, newModbTxs' = Append(newModbTxs, Converted(t))
  PROVE  /\ Converted(t) \in DerivedTx /\ Converted(t).hash = t
         /\ Hashes(newModbTxs') = Hashes(newModbTxs) \cup {t}
<1>1. Converted(t) \in DerivedTx /\ Converted(t).hash = t
  BY DEF TypeOK, Converted, DerivedTx
<1> QED
  BY <1>1, HashesAppend DEF TypeOK

LEMMA RoundInit == Init => RoundInv /\ PendingInv /\ OnceInv
<1> SUFFICES ASSUME Init PROVE RoundInv /\ PendingInv /\ OnceInv
  OBVIOUS
<1>1. pc = "down" /\ newModbTxs = <<>> /\ Blocks = <<>>
  BY DEF Init, StoreInit, Blocks
<1>2. OnceInv
  BY <1>1, HashesEmpty DEF OnceInv, NoDuplicates, Distinct
<1> QED
  BY <1>1, <1>2 DEF RoundInv, PendingInv

\* The two loops take away from todo what they add to the block.
LEMMA RoundScan ==
  ASSUME TypeInv, NodeInv, ControlInv, RoundInv, Scan
  PROVE  RoundInv'
<1> DEFINE l == latestScanBlockHeight
           New == Hashes(newModbTxs)
<1> USE DEF TypeInv, TypeOK, NodeTypeOK
<1> SUFFICES ASSUME StableRound PROVE RoundInv'
  BY ZenonT(30) DEF Scan, nodeVars, RoundInv, StableRound
<1>0. UNCHANGED <<mainChain, reorgs>> /\ l \in Nat /\ DOMAIN mainChain = 1..Len(mainChain)
  BY DEF Scan, nodeVars
<1>1. CASE ReadBlockCount
  <2>1. newModbTxs' = <<>> /\ pc' = "nextBlock"
    BY <1>1, ZenonT(30) DEF ReadBlockCount, ControlInv, Scanning
  <2> QED
    BY <2>1, HashesEmpty DEF RoundInv
<1>2. CASE ReadBlock
  <2>1. l + 1 \in DOMAIN mainChain
    BY <1>0, <1>2 DEF ReadBlock
  <2>2. /\ MinedUpTo(mainChain, l + 1) = MinedUpTo(mainChain, l) \cup mainChain[l + 1]
        /\ MinedUpTo(mainChain, l) \cap mainChain[l + 1] = {}
    BY <1>0, <2>1, MinedUpToNext DEF NodeInv
  <2>3. /\ New \subseteq MinedUpTo(mainChain, l)
        /\ pc' = "blockTx" /\ todo' = mainChain[l + 1] /\ UNCHANGED <<newModbTxs, latestScanBlockHeight>>
    BY <1>2 DEF ReadBlock, GetBlockVerboseTx, RoundInv
  <2> QED
    BY <1>0, <2>2, <2>3 DEF RoundInv
<1>3. ASSUME NEW t \in todo, SkipBlockTx(t) PROVE RoundInv'
  BY <1>0, <1>3 DEF SkipBlockTx, RoundInv
<1>4. ASSUME NEW t \in todo, CollectBlockTx(t) PROVE RoundInv'
  <2>1. /\ New' = New \cup {t} /\ todo' = todo \ {t}
        /\ pc = "blockTx" /\ pc' = pc /\ UNCHANGED latestScanBlockHeight
    BY <1>4, CollectedTx DEF CollectBlockTx
  <2>2. l + 1 \in DOMAIN mainChain
    BY <1>0, <2>1 DEF ControlInv
  <2>3. mainChain[l + 1] \subseteq MinedUpTo(mainChain, l + 1)
    BY <1>0, <2>2, SMTT(30) DEF MinedUpTo
  <2> QED
    BY <1>0, <2>1, <2>3 DEF RoundInv
<1>5. CASE FinishBlock
  <2>1. pc' \in {"emit", "nextBlock"} /\ latestScanBlockHeight' = l + 1 /\ UNCHANGED newModbTxs
    BY <1>5 DEF FinishBlock
  <2>2. New \subseteq MinedUpTo(mainChain, l + 1)
    BY <1>5 DEF FinishBlock, RoundInv
  <2> QED
    BY <1>0, <2>1, <2>2 DEF RoundInv
<1>6. CASE FinishScan
  BY <1>0, <1>6, ZenonT(30) DEF FinishScan, scannerVars, RoundInv
<1>7. CASE ReadMempool
  <2>1. /\ pc' = "mempoolTx" /\ todo' = mempool /\ UNCHANGED newModbTxs
        /\ New \subseteq MinedUpTo(mainChain, l)
    BY <1>7 DEF ReadMempool, GetRawMempool, RoundInv
  <2>2. mempool \cap MinedUpTo(mainChain, l) = {}
    BY MinedUpToIsMined, ZenonT(30) DEF NodeInv
  <2> QED
    BY <2>1, <2>2, ZenonT(30) DEF RoundInv
<1>8. ASSUME NEW t \in todo, SkipMempoolTx(t) \/ FailMempoolTx(t) \/ RejectMempoolTx(t)
      PROVE  RoundInv'
  BY <1>8, ZenonT(30) DEF SkipMempoolTx, FailMempoolTx, RejectMempoolTx, RoundInv
<1>9. ASSUME NEW t \in todo, CollectMempoolTx(t) PROVE RoundInv'
  <2>1. /\ New' = New \cup {t} /\ pc = "mempoolTx"
        /\ todo' = todo \ {t} \/ todo' = {}
        /\ pc' \in {"mempoolTx", "emit"}
    BY <1>9, CollectedTx, ZenonT(30) DEF CollectMempoolTx
  <2> QED
    BY <2>1 DEF RoundInv
<1>10. CASE FinishMempool
  BY <1>10 DEF FinishMempool, RoundInv
<1> QED
  BY <1>1, <1>2, <1>3, <1>4, <1>5, <1>6, <1>7, <1>8, <1>9, <1>10, ZenonT(30) DEF Scan, ScannerStep

LEMMA RoundStep ==
  ASSUME TypeInv, NodeInv, ControlInv, RoundInv, [Next]_vars
  PROVE  RoundInv'
<1> SUFFICES ASSUME StableRound' PROVE RoundInv'
  BY DEF RoundInv
<1>0. StableRound
  BY StableStep
<1>1. CASE Scan
  BY <1>1, RoundScan
<1>2. CASE Start \/ Tick \/ SkipRound \/ StoreNewBlock \/ SendChainEvent \/ SendLogs \/ Crash \/ Panic
  <2>1. newModbTxs' = <<>> /\ pc' \notin {"blockTx", "mempoolTx", "nextBlock"}
    BY <1>2, ZenonT(30) DEF Start, Tick, SkipRound, StoreNewBlock, SendChainEvent, SendLogs, Crash, Panic, Die,
       ScannerReset, EnterGenerate, scannerVars, ControlInv, Scanning
  <2> QED
    BY <2>1, HashesEmpty, ZenonT(30) DEF RoundInv
<1>3. CASE Index \/ UNCHANGED vars
  BY <1>0, <1>3 DEF Index, vars, nodeVars, scannerVars, RoundInv
<1>4. CASE NodeStep
  <2>1. UNCHANGED <<scannerVars, pc>>
    BY <1>4 DEF NodeStep
  <2>2. CASE pc \in {"idle", "down"}
    BY <2>1, <2>2 DEF RoundInv
  <2>3. CASE pc \notin {"idle", "down"}
    <3>1. \A h \in DOMAIN mainChain : h \in DOMAIN mainChain' /\ mainChain'[h] = mainChain[h]
      BY <2>3, StableStep
    <3>2. /\ mainChain \in Seq(SUBSET Txs) /\ mainChain' \in Seq(SUBSET Txs)
          /\ latestScanBlockHeight \in Nat /\ latestScanBlockHeight + 1 \in Nat
      BY TypeStep DEF TypeInv, TypeOK, NodeTypeOK
    <3>3. /\ latestScanBlockHeight <= Len(mainChain)
          /\ pc = "blockTx" => latestScanBlockHeight + 1 <= Len(mainChain) /\ latestScanBlockHeight + 1 \in DOMAIN mainChain
      BY <2>3, <3>2 DEF ControlInv, TypeInv, TypeOK
    <3>4. MinedUpTo(mainChain', latestScanBlockHeight) = MinedUpTo(mainChain, latestScanBlockHeight)
      BY <3>1, <3>2, <3>3, MinedUpToSame
    <3>5. pc = "blockTx" =>
            MinedUpTo(mainChain', latestScanBlockHeight + 1) = MinedUpTo(mainChain, latestScanBlockHeight + 1)
      BY <3>1, <3>2, <3>3, MinedUpToSame, ZenonT(30)
    <3> QED
      BY <1>0, <2>1, <3>1, <3>3, <3>4, <3>5 DEF RoundInv, scannerVars
  <2> QED
    BY <2>2, <2>3
<1> QED
  BY <1>1, <1>2, <1>3, <1>4, ZenonT(30) DEF Next, ProgramStep

\* What is collected is in the cache, or was mined below the scanned height.
LEMMA PendingScan ==
  ASSUME TypeInv, NodeInv, ControlInv, RoundInv, PendingInv, Scan
  PROVE  PendingInv'
<1> DEFINE l == latestScanBlockHeight
           Mined == MinedUpTo(mainChain, l)
           New == Hashes(newModbTxs)
<1> USE DEF TypeInv, TypeOK, NodeTypeOK
<1>0. UNCHANGED <<mainChain, reorgs, pending>> /\ l \in Nat /\ pc # "down" /\ DOMAIN mainChain = 1..Len(mainChain)
  BY SMTT(30) DEF Scan, ScannerStep, ReadBlockCount, ReadBlock, SkipBlockTx, CollectBlockTx, FinishBlock, FinishScan,
     ReadMempool, SkipMempoolTx, FailMempoolTx, RejectMempoolTx, CollectMempoolTx, FinishMempool, nodeVars, storeVars
<1> SUFFICES ASSUME reorgs = 0, CacheHoldsAll PROVE PendingInv'
  BY <1>0 DEF PendingInv
<1>a. Hashes(pending.txs) \subseteq knownTxCache \cup Mined
  BY <1>0 DEF PendingInv
<1>1. CASE ReadBlockCount \/ FinishScan
  BY <1>0, <1>1, ZenonT(30) DEF ReadBlockCount, FinishScan, scannerVars, PendingInv
<1>2. CASE ReadBlock
  BY <1>0, <1>2, ZenonT(30) DEF ReadBlock, PendingInv
<1>3. ASSUME NEW t \in todo, SkipBlockTx(t) \/ CollectBlockTx(t) PROVE PendingInv'
  BY <1>0, <1>a, <1>3, ZenonT(30) DEF SkipBlockTx, CollectBlockTx, PendingInv
<1>4. CASE FinishBlock
  <2>1. l + 1 \in DOMAIN mainChain
    BY <1>0, <1>4, SMTT(30) DEF FinishBlock, ControlInv
  <2>2. Mined \subseteq MinedUpTo(mainChain, l + 1)
    BY <1>0, <2>1, MinedUpToNext DEF NodeInv
  <2>3. New \subseteq MinedUpTo(mainChain, l + 1)
    BY <1>4 DEF FinishBlock, RoundInv, StableRound
  <2>4. latestScanBlockHeight' = l + 1 /\ pc' \in {"emit", "nextBlock"} /\ UNCHANGED <<newModbTxs, knownTxCache>>
    BY <1>4 DEF FinishBlock
  <2> QED
    BY <1>0, <1>a, <2>2, <2>3, <2>4, ZenonT(30) DEF PendingInv
<1>5. CASE ReadMempool
  <2>1. mempool \cap Mined = {}
    BY MinedUpToIsMined DEF NodeInv
  <2> QED
    BY <1>0, <1>5, <2>1, ZenonT(30) DEF ReadMempool, GetRawMempool, PendingInv
<1>6. ASSUME NEW t \in todo, SkipMempoolTx(t) \/ FailMempoolTx(t) PROVE PendingInv'
  BY <1>0, <1>6, ZenonT(30) DEF SkipMempoolTx, FailMempoolTx, PendingInv
<1>7. ASSUME NEW t \in todo, RejectMempoolTx(t) PROVE PendingInv'
  <2>1. knownTxCache' = knownTxCache \cup {t}
    BY <1>7, NoEviction, ZenonT(30) DEF RejectMempoolTx, Seen, isKnownTx
  <2> QED
    BY <1>0, <1>7, <2>1, ZenonT(30) DEF RejectMempoolTx, PendingInv
<1>8. ASSUME NEW t \in todo, CollectMempoolTx(t) PROVE PendingInv'
  <2>1. knownTxCache' = knownTxCache \cup {t}
    BY <1>8, NoEviction, ZenonT(30) DEF CollectMempoolTx, Seen, isKnownTx
  <2>2. /\ New' = New \cup {t} /\ pc = "mempoolTx" /\ pc' \in {"mempoolTx", "emit"}
        /\ todo' \subseteq todo /\ UNCHANGED latestScanBlockHeight
    BY <1>8, CollectedTx DEF CollectMempoolTx
  <2> QED
    BY <1>0, <2>1, <2>2, ZenonT(30) DEF PendingInv
<1>9. CASE FinishMempool
  BY <1>0, <1>9 DEF FinishMempool, scannerVars, PendingInv
<1> QED
  BY <1>1, <1>2, <1>3, <1>4, <1>5, <1>6, <1>7, <1>8, <1>9, ZenonT(30) DEF Scan, ScannerStep

LEMMA PendingStep ==
  ASSUME TypeInv, NodeInv, ControlInv, RoundInv, PendingInv, [Next]_vars
  PROVE  PendingInv'
<1> SUFFICES ASSUME reorgs' = 0, CacheHoldsAll, pc' # "down" PROVE PendingInv'
  BY DEF PendingInv
<1>1. CASE Scan
  BY <1>1, PendingScan
<1>2. CASE Start
  <2>1. pending' = NoBlock /\ newModbTxs' = <<>> /\ pc' = "count"
    BY <1>2 DEF Start, EnterGenerate, storeVars, ControlInv, Scanning
  <2> QED
    BY <2>1, HashesEmpty, NoBlockHashes DEF PendingInv
<1>3. CASE Tick \/ SkipRound \/ SendChainEvent \/ SendLogs
  <2>1. /\ pc # "down" /\ newModbTxs' = <<>> /\ pc' \notin {"blockTx", "mempoolTx"}
        /\ UNCHANGED <<mainChain, reorgs, pending, knownTxCache, latestScanBlockHeight>>
    BY <1>3 DEF Tick, SkipRound, SendChainEvent, SendLogs, ScannerReset, EnterGenerate,
       nodeVars, storeVars, scannerVars, ControlInv, Scanning
  <2> QED
    BY <2>1, HashesEmpty, ZenonT(30) DEF PendingInv
<1>4. CASE StoreNewBlock
  <2>1. /\ pc = "emit" /\ pc' = "publish" /\ newModbTxs' = <<>> /\ pending'.txs = newModbTxs
        /\ UNCHANGED <<mainChain, reorgs, knownTxCache, latestScanBlockHeight>>
    BY <1>4 DEF StoreNewBlock, AddBlock, NewBlock, ScannerReset, nodeVars
  <2> QED
    BY <2>1, HashesEmpty DEF PendingInv
<1>5. CASE Index
  <2>1. pending' = NoBlock /\ UNCHANGED <<mainChain, reorgs, knownTxCache, latestScanBlockHeight, newModbTxs, todo, pc>>
    BY <1>5 DEF Index, IndexBlock, nodeVars, scannerVars
  <2> QED
    BY <2>1, NoBlockHashes DEF PendingInv
<1>6. CASE Crash \/ Panic
  BY <1>6 DEF Crash, Panic, Die
<1>7. CASE NodeStep
  <2>1. /\ mainChain \in Seq(SUBSET Txs) /\ mainChain' \in Seq(SUBSET Txs) /\ latestScanBlockHeight \in Nat
        /\ UNCHANGED <<storeVars, scannerVars, pc>>
    BY <1>7, TypeStep, ZenonT(30) DEF NodeStep, TypeInv, TypeOK, NodeTypeOK
  <2>2. MinedUpTo(mainChain', latestScanBlockHeight) = MinedUpTo(mainChain, latestScanBlockHeight)
    BY <2>1, StableStep, MinedUpToSame, ZenonT(30) DEF ControlInv, StableRound
  <2>3. reorgs = 0
    <3>1. reorgs' = reorgs \/ reorgs' = reorgs + 1
      BY <1>7, Zenon DEF NodeStep, NodeNext, Broadcast, Drop, Mine, Reorg
    <3>2. reorgs \in Nat
      BY DEF TypeInv, TypeOK, NodeTypeOK
    <3> QED
      BY <3>1, <3>2
  <2> QED
    BY <2>1, <2>2, <2>3, ZenonT(30) DEF PendingInv, storeVars, scannerVars
<1>8. CASE UNCHANGED vars
  BY <1>8 DEF vars, nodeVars, storeVars, scannerVars, PendingInv
<1> QED
  BY <1>1, <1>2, <1>3, <1>4, <1>5, <1>6, <1>7, <1>8, ZenonT(30) DEF Next, ProgramStep

-----------------------------------------------------------------------------
(* No transaction twice *)

LEMMA OnceConditionStable == OnceCondition => StableRound
BY DEF OnceCondition, StableRound

\* What the checks of both loops let through is new.
LEMMA Fresh ==
  ASSUME TypeInv, NodeInv, ControlInv, RoundInv, PendingInv, OnceCondition,
         pc \in {"blockTx", "mempoolTx"}, NEW t \in todo, ~Seen(t)
  PROVE  t \notin HashesOf(Blocks) /\ t \notin Hashes(newModbTxs)
<1> DEFINE l == latestScanBlockHeight
<1> USE DEF TypeInv
<1>1. t \notin HashesOf(ledger) /\ t \notin knownTxCache
  BY DEF Seen, isKnownTx, IsTxMined
<1>2. t \notin Hashes(newModbTxs)
  BY OnceConditionStable DEF RoundInv
<1>3. CASE ~SlowIndexing
  <2>1. pending = NoBlock
    BY <1>3 DEF ControlInv, Scanning
  <2> QED
    BY <1>1, <1>2, <2>1, BlocksHashes, NoBlockHashes, ZenonT(30)
<1>4. CASE reorgs = 0 /\ CacheHoldsAll
  <2>1. Hashes(pending.txs) \subseteq knownTxCache \cup MinedUpTo(mainChain, l)
    BY <1>4 DEF PendingInv
  <2>2. CASE pc = "blockTx"
    <3>1. mainChain \in Seq(SUBSET Txs) /\ l \in Nat /\ l + 1 \in DOMAIN mainChain
      BY <2>2 DEF ControlInv, TypeOK, NodeTypeOK
    <3>2. MinedUpTo(mainChain, l) \cap mainChain[l + 1] = {}
      BY <3>1, MinedUpToNext, ZenonT(30) DEF NodeInv
    <3>3. t \in mainChain[l + 1]
      BY <2>2, OnceConditionStable DEF RoundInv
    <3> QED
      BY <1>1, <1>2, <2>1, <3>2, <3>3, BlocksHashes, ZenonT(30)
  <2>3. CASE pc = "mempoolTx"
    BY <1>1, <1>2, <1>4, <2>1, <2>3, BlocksHashes, ZenonT(30) DEF PendingInv
  <2> QED
    BY <2>2, <2>3
<1> QED
  BY <1>3, <1>4 DEF OnceCondition

LEMMA OnceScan ==
  ASSUME TypeInv, NodeInv, ControlInv, RoundInv, PendingInv, OnceInv, OnceCondition, Scan
  PROVE  OnceInv'
<1>0. Blocks' = Blocks
  BY BlocksSame DEF Scan
<1>1. CASE UNCHANGED newModbTxs
  BY <1>0, <1>1 DEF OnceInv
<1>2. ASSUME NEW t \in todo, CollectBlockTx(t) \/ CollectMempoolTx(t) PROVE OnceInv'
  <2>1. /\ newModbTxs' = Append(newModbTxs, Converted(t))
        /\ ~Seen(t) /\ pc \in {"blockTx", "mempoolTx"}
    BY <1>2 DEF CollectBlockTx, CollectMempoolTx
  <2>2. t \notin HashesOf(Blocks) /\ t \notin Hashes(newModbTxs)
    BY <2>1, Fresh
  <2>3. /\ Converted(t) \in DerivedTx /\ Converted(t).hash = t
        /\ Hashes(newModbTxs') = Hashes(newModbTxs) \cup {t}
    BY <2>1, CollectedTx, ZenonT(30) DEF TypeInv
  <2>4. Distinct(newModbTxs')
    BY <2>1, <2>2, <2>3, DistinctAppend, ZenonT(30) DEF OnceInv, TypeInv, TypeOK
  <2> QED
    BY <1>0, <2>2, <2>3, <2>4 DEF OnceInv
<1> QED
  BY <1>1, <1>2 DEF Scan, ScannerStep, ReadBlockCount, ReadBlock, SkipBlockTx, FinishBlock, FinishScan,
     ReadMempool, SkipMempoolTx, FailMempoolTx, RejectMempoolTx, FinishMempool, scannerVars

LEMMA OnceStep ==
  ASSUME TypeInv, NodeInv, ControlInv, RoundInv, PendingInv, OnceInv, [Next]_vars
  PROVE  OnceInv'
<1> SUFFICES ASSUME OnceCondition' PROVE OnceInv'
  BY DEF OnceInv
<1>0. OnceCondition
  BY StableStep, StableChain DEF OnceCondition, StableRound
<1>1. CASE Scan
  BY <1>0, <1>1, OnceScan, ZenonT(30)
<1>2. CASE Start \/ Tick \/ SkipRound \/ SendChainEvent \/ SendLogs
  <2>1. newModbTxs' = <<>> /\ UNCHANGED storeVars
    BY <1>2 DEF Start, Tick, SkipRound, SendChainEvent, SendLogs, ScannerReset, EnterGenerate,
       scannerVars, ControlInv, Scanning
  <2>2. Blocks' = Blocks
    BY <2>1, BlocksSame, ZenonT(30)
  <2> QED
    BY <1>0, <2>1, <2>2, HashesEmpty, SMTT(30) DEF OnceInv, Distinct
<1>3. CASE StoreNewBlock
  <2>1. newModbTxs' = <<>> /\ AddBlock(NewBlock)
    BY <1>3 DEF StoreNewBlock, ScannerReset
  <2>2. Blocks' = Append(Blocks, NewBlock) /\ Blocks \in Seq(Block) /\ NewBlock \in Block
    BY <2>1, BlocksStore, BlocksType, NewBlockType, ZenonT(30) DEF TypeInv
  <2>3. NewBlock.txs = newModbTxs
    BY DEF NewBlock
  <2>4. NoDuplicates(Append(Blocks, NewBlock))
    BY <1>0, <2>2, <2>3, NoDuplicatesAppend DEF OnceInv
  <2> QED
    BY <2>1, <2>2, <2>4, HashesEmpty DEF OnceInv, Distinct
<1>4. CASE Index \/ NodeStep \/ UNCHANGED vars
  <2>1. UNCHANGED newModbTxs /\ (UNCHANGED storeVars \/ IndexBlock)
    BY <1>4 DEF Index, NodeStep, vars, scannerVars, storeVars
  <2>2. Blocks' = Blocks
    BY <2>1, BlocksSame, ZenonT(30)
  <2> QED
    BY <1>0, <2>1, <2>2 DEF OnceInv
<1>5. CASE Crash \/ Panic
  <2>1. newModbTxs' = <<>> /\ Reopen
    BY <1>5 DEF Crash, Panic, Die, ScannerReset
  <2>2. NoDuplicates(Blocks')
    BY <1>0, <2>1, NoDuplicatesReopen DEF OnceInv, TypeInv
  <2> QED
    BY <2>1, <2>2, HashesEmpty, SMTT(30) DEF OnceInv, Distinct
<1> QED
  BY <1>1, <1>2, <1>3, <1>4, <1>5 DEF Next, ProgramStep

-----------------------------------------------------------------------------
(* The size of a block *)

LEMMA BesideFacts ==
  ASSUME NEW txs \in Seq(DerivedTx), NEW block
  PROVE  /\ IsFiniteSet(Beside(txs, block)) /\ Cardinality(Beside(txs, block)) \in Nat
         /\ Cardinality(Beside(txs, block)) <= Len(txs)
         /\ Len(txs) - Cardinality({i \in DOMAIN txs : txs[i].hash \in block}) = Cardinality(Beside(txs, block))
<1> DEFINE D == DOMAIN txs
           L == {i \in D : txs[i].hash \in block}
           B == Beside(txs, block)
<1>1. Len(txs) \in Nat /\ D = 1..Len(txs)
  OBVIOUS
<1>2. IsFiniteSet(D) /\ Cardinality(D) = Len(txs)
  BY <1>1, FS_Interval, SMTT(30)
<1>3. B \subseteq D /\ L \subseteq D /\ L = D \ B
  BY DEF Beside
<1>4. IsFiniteSet(B) /\ Cardinality(B) <= Cardinality(D) /\ Cardinality(B) \in Nat
  BY <1>2, <1>3, FS_Subset, FS_CardinalityType
<1>5. D \cap B = B
  BY <1>3
<1>6. Cardinality(D \ B) = Cardinality(D) - Cardinality(D \cap B)
  BY <1>2, FS_Difference
<1>7. Cardinality(L) = Len(txs) - Cardinality(B)
  BY <1>2, <1>3, <1>5, <1>6
<1> HIDE DEF D, L, B
<1>8. Len(txs) - Cardinality(L) = Cardinality(B)
  BY <1>1, <1>4, <1>7
<1> QED
  BY <1>1, <1>2, <1>4, <1>8 DEF B, L, D

LEMMA BesideAppend ==
  ASSUME NEW txs \in Seq(DerivedTx), NEW x, NEW block, x.hash \in block
  PROVE  Beside(Append(txs, x), block) = Beside(txs, block)
<1>1. DOMAIN Append(txs, x) = DOMAIN txs \cup {Len(txs) + 1} /\ Append(txs, x)[Len(txs) + 1] = x
  OBVIOUS
<1>2. \A i \in DOMAIN txs : Append(txs, x)[i] = txs[i]
  OBVIOUS
<1> QED
  BY <1>1, <1>2 DEF Beside

LEMMA SizeInit == Init => SizeInv
<1> SUFFICES ASSUME Init PROVE SizeInv
  OBVIOUS
<1>1. Blocks = <<>> /\ pc = "down"
  BY DEF Init, StoreInit, Blocks
<1> QED
  BY <1>1 DEF SizeInv

\* Blocks that stay, or go, keep below the limit what they have.
LEMMA SizeOfBlocks ==
  ASSUME TypeInv, ShapeInv, SizeInv, [Next]_vars, reorgs' = 0,
         \A n \in DOMAIN Blocks' : n \in DOMAIN Blocks /\ Blocks'[n] = Blocks[n]
  PROVE  \A n \in DOMAIN Blocks' : OneBlockOver(Blocks'[n].txs, mainChain', Blocks'[n].gasUsed)
<1>1. reorgs = 0 /\ \A h \in DOMAIN mainChain : h \in DOMAIN mainChain' /\ mainChain'[h] = mainChain[h]
  BY StableChain, ZenonT(30)
<1>2. \A n \in DOMAIN Blocks : OneBlockOver(Blocks[n].txs, mainChain, Blocks[n].gasUsed)
  BY <1>1 DEF SizeInv
<1> QED
  BY <1>1, <1>2, Zenon DEF OneBlockOver

LEMMA SizeScan ==
  ASSUME TypeInv, ControlInv, ShapeInv, RoundInv, SizeInv, Scan, [Next]_vars, reorgs' = 0
  PROVE  SizeInv'
<1> DEFINE M == MaxTxsInBlock
           N == newModbTxs
           h == latestScanBlockHeight
<1>0. /\ Blocks' = Blocks /\ UNCHANGED <<mainChain, reorgs>> /\ reorgs = 0
      /\ N \in Seq(DerivedTx) /\ M \in Nat \ {0} /\ Len(N) \in Nat /\ h \in Nat
      /\ DOMAIN mainChain = 1..Len(mainChain) /\ Len(mainChain) \in Nat
  BY BlocksSame, ScannerAssumption, SMTT(30) DEF Scan, nodeVars, TypeInv, TypeOK, NodeTypeOK
<1>1. \A n \in DOMAIN Blocks' : OneBlockOver(Blocks'[n].txs, mainChain', Blocks'[n].gasUsed)
  BY <1>0, SizeOfBlocks, ZenonT(30)
<1>2. CASE ReadBlockCount
  <2>1. pc' = "nextBlock" /\ N' = <<>>
    BY <1>2, ZenonT(30) DEF ReadBlockCount, ControlInv, Scanning
  <2> QED
    BY <1>0, <1>1, <2>1, SMTT(30) DEF SizeInv
<1>3. CASE ReadBlock
  <2>1. pc = "nextBlock" /\ pc' = "blockTx" /\ UNCHANGED <<newModbTxs, latestScanBlockHeight>>
    BY <1>3, ZenonT(30) DEF ReadBlock
  <2>2. Len(N) < M
    BY <1>0, <2>1 DEF SizeInv
  <2>3. Cardinality(Beside(N, mainChain[h + 1])) < M
    <3> DEFINE b == mainChain[h + 1]
    <3> HIDE DEF b, N, M
    <3>1. Cardinality(Beside(N, b)) \in Nat /\ Cardinality(Beside(N, b)) <= Len(N)
      BY <1>0, BesideFacts
    <3> QED
      BY <1>0, <2>2, <3>1 DEF b
  <2> QED
    BY <1>0, <1>1, <2>1, <2>3 DEF SizeInv
<1>4. ASSUME NEW t \in todo, SkipBlockTx(t) \/ SkipMempoolTx(t) \/ FailMempoolTx(t) \/ RejectMempoolTx(t)
      PROVE  SizeInv'
  <2>1. UNCHANGED <<newModbTxs, latestScanBlockHeight, pc>>
    BY <1>4, ZenonT(30) DEF SkipBlockTx, SkipMempoolTx, FailMempoolTx, RejectMempoolTx
  <2> QED
    BY <1>0, <1>1, <2>1 DEF SizeInv
<1>5. ASSUME NEW t \in todo, CollectBlockTx(t) PROVE SizeInv'
  <2>1. pc = "blockTx" /\ pc' = "blockTx" /\ N' = Append(N, Converted(t)) /\ UNCHANGED latestScanBlockHeight
    BY <1>5, ZenonT(30) DEF CollectBlockTx
  <2>2. Converted(t).hash \in mainChain[h + 1]
    BY <1>0, <2>1, ZenonT(30) DEF RoundInv, StableRound, Converted
  <2>3. Beside(N', mainChain[h + 1]) = Beside(N, mainChain[h + 1])
    BY <1>0, <2>1, <2>2, BesideAppend, ZenonT(30)
  <2> QED
    BY <1>0, <1>1, <2>1, <2>3 DEF SizeInv
<1>6. CASE FinishBlock
  <2>1. /\ pc = "blockTx" /\ h' = h + 1 /\ pc' = IF Full(N) THEN "emit" ELSE "nextBlock"
        /\ UNCHANGED newModbTxs
    BY <1>6, ZenonT(30) DEF FinishBlock
  <2>2. h + 1 \in DOMAIN mainChain
    BY <1>0, <2>1, SMTT(30) DEF ControlInv, TypeInv, TypeOK
  <2>3. OneBlockOver(N, mainChain, h + 1)
    BY <1>0, <2>1, <2>2 DEF SizeInv, OneBlockOver
  <2>4. pc' = "nextBlock" => Len(N) < M
    BY <1>0, <2>1, SMTT(30) DEF Full
  <2> QED
    BY <1>0, <1>1, <2>1, <2>3, <2>4, ZenonT(30) DEF SizeInv
<1>7. CASE FinishScan \/ ReadMempool \/ FinishMempool
  <2>1. /\ pc \in {"nextBlock", "mempool", "mempoolTx"} /\ pc' \in {"mempool", "mempoolTx", "emit"}
        /\ UNCHANGED <<newModbTxs, latestScanBlockHeight>>
    BY <1>7, ZenonT(30) DEF FinishScan, ReadMempool, FinishMempool, scannerVars
  <2>2. Len(N) < M
    BY <1>0, <2>1 DEF SizeInv
  <2>3. OneBlockOver(N, mainChain, h)
    BY <1>0, <2>2, SMTT(30) DEF OneBlockOver
  <2> QED
    BY <1>0, <1>1, <2>1, <2>2, <2>3, ZenonT(30) DEF SizeInv
<1>8. ASSUME NEW t \in todo, CollectMempoolTx(t) PROVE SizeInv'
  <2>1. /\ pc = "mempoolTx" /\ N' = Append(N, Converted(t)) /\ UNCHANGED latestScanBlockHeight
        /\ IF Full(N') THEN pc' = "emit" ELSE pc' = pc
    BY <1>8 DEF CollectMempoolTx
  <2>2. Len(N') = Len(N) + 1 /\ Len(N) < M
    BY <1>0, <2>1 DEF SizeInv
  <2>3. OneBlockOver(N', mainChain, h) /\ (pc' = "mempoolTx" => Len(N') < M)
    BY <1>0, <2>1, <2>2 DEF OneBlockOver, Full
  <2>4. pc' \in {"mempoolTx", "emit"}
    BY <2>1
  <2> QED
    BY <1>0, <1>1, <2>1, <2>3, <2>4, ZenonT(30) DEF SizeInv
<1> HIDE DEF M, N, h
<1> QED
  BY <1>2, <1>3, <1>4, <1>5, <1>6, <1>7, <1>8, ZenonT(30) DEF Scan, ScannerStep

LEMMA SizeStep ==
  ASSUME TypeInv, ControlInv, ShapeInv, RoundInv, SizeInv, [Next]_vars
  PROVE  SizeInv'
<1> SUFFICES ASSUME reorgs' = 0 PROVE SizeInv'
  BY DEF SizeInv
<1>0. reorgs = 0 /\ \A h \in DOMAIN mainChain : h \in DOMAIN mainChain' /\ mainChain'[h] = mainChain[h]
  BY StableChain
<1>1. CASE Scan
  BY <1>1, SizeScan, ZenonT(30)
<1>2. ASSUME Blocks' = Blocks \/ Reopen, pc' \in {"idle", "down", "count", "mempool", "publishLogs"}, newModbTxs' = <<>>
      PROVE  SizeInv'
  <2>1. \A n \in DOMAIN Blocks' : n \in DOMAIN Blocks /\ Blocks'[n] = Blocks[n]
    BY <1>2, BlocksReopen, LedgerIsPrefix DEF TypeInv
  <2>2. Len(newModbTxs') < MaxTxsInBlock
    BY <1>2, ScannerAssumption, SMTT(30)
  <2>3. \A n \in DOMAIN Blocks' : OneBlockOver(Blocks'[n].txs, mainChain', Blocks'[n].gasUsed)
    BY <2>1, SizeOfBlocks
  <2> QED
    BY <1>2, <2>2, <2>3 DEF SizeInv
<1>3. CASE Start \/ Tick \/ SkipRound \/ SendChainEvent \/ SendLogs
  <2>1. newModbTxs' = <<>> /\ UNCHANGED storeVars /\ pc' \in {"idle", "down", "count", "mempool", "publishLogs"}
    BY <1>3, ZenonT(30) DEF Start, Tick, SkipRound, SendChainEvent, SendLogs, ScannerReset, EnterGenerate,
       scannerVars, ControlInv, Scanning
  <2> QED
    BY <1>2, <2>1, BlocksSame, ZenonT(30)
<1>4. CASE StoreNewBlock
  <2>1. pc = "emit" /\ newModbTxs' = <<>> /\ AddBlock(NewBlock) /\ pc' = "publish" /\ UNCHANGED mainChain
    BY <1>4 DEF StoreNewBlock, ScannerReset, nodeVars
  <2>2. Blocks' = Append(Blocks, NewBlock) /\ Blocks \in Seq(Block) /\ NewBlock \in Block
    BY <2>1, BlocksStore, BlocksType, NewBlockType, ZenonT(30) DEF TypeInv
  <2>3. OneBlockOver(NewBlock.txs, mainChain, NewBlock.gasUsed)
    BY <1>0, <2>1 DEF SizeInv, NewBlock
  <2>4. \A n \in DOMAIN Blocks' : Blocks'[n] = NewBlock \/ (n \in DOMAIN Blocks /\ Blocks'[n] = Blocks[n])
    BY <2>2
  <2>5. \A n \in DOMAIN Blocks' : OneBlockOver(Blocks'[n].txs, mainChain', Blocks'[n].gasUsed)
    BY <1>0, <2>1, <2>3, <2>4, ZenonT(30) DEF SizeInv
  <2> QED
    BY <2>1, <2>5 DEF SizeInv
<1>5. CASE Index \/ NodeStep \/ UNCHANGED vars
  <2>1. /\ UNCHANGED <<newModbTxs, pc, latestScanBlockHeight>>
        /\ UNCHANGED storeVars \/ IndexBlock
    BY <1>5 DEF Index, NodeStep, vars, scannerVars
  <2>2. Blocks' = Blocks
    BY <2>1, BlocksSame
  <2>3. \A n \in DOMAIN Blocks' : OneBlockOver(Blocks'[n].txs, mainChain', Blocks'[n].gasUsed)
    BY <2>2, SizeOfBlocks, ZenonT(30)
  <2>4. pc = "blockTx" => latestScanBlockHeight + 1 \in DOMAIN mainChain
    BY SMTT(30) DEF ControlInv, TypeInv, TypeOK, NodeTypeOK
  <2>5. pc = "blockTx" => Cardinality(Beside(newModbTxs, mainChain'[latestScanBlockHeight + 1])) < MaxTxsInBlock
    BY <1>0, <2>4, ZenonT(30) DEF SizeInv
  <2>6. pc = "emit" => OneBlockOver(newModbTxs, mainChain', latestScanBlockHeight)
    BY <1>0 DEF SizeInv, OneBlockOver
  <2> QED
    BY <1>0, <2>1, <2>3, <2>5, <2>6, ZenonT(30) DEF SizeInv
<1>6. CASE Crash \/ Panic
  BY <1>2, <1>6 DEF Crash, Panic, Die, ScannerReset
<1> QED
  BY <1>1, <1>3, <1>4, <1>5, <1>6, ZenonT(30) DEF Next, ProgramStep

LEMMA IInvariant == Spec => []IInv
<1>1. Init => IInv
  BY TypeInit, NodeInvInit, ControlInit, RecordInit, RoundInit, SizeInit, ZenonT(30) DEF IInv
<1>2. IInv /\ [Next]_vars => IInv'
  BY TypeStep, NodeInvStep, ControlStep, ShapeStep, RecordStep, RoundStep, PendingStep, OnceStep, SizeStep, ZenonT(30) DEF IInv
<1> QED
  BY <1>1, <1>2, PTL DEF Spec

\* A transaction enters the virtual chain once, for any number of
\* transactions, blocks, crashes and reorganisations: when moeingdb indexes a
\* block before the next round and no reorganisation falls into a round, or
\* when there is none at all and knownTxCache has room for every transaction.
THEOREM EntersOnce == Spec => []RecordedOnce
<1>1. IInv => RecordedOnce
  BY ZenonT(30) DEF IInv, OnceInv, OnceCondition, StableRound, RecordedOnce
<1> QED
  BY <1>1, IInvariant, PTL

\* Only the main chain block read last takes a virtual block over the limit:
\* collectMainChainBlockTxs stops at the first block that fills it and the
\* mempool half of GetNewTxs at the first transaction, for any limit and any
\* sizes of the main chain's blocks.
THEOREM OneBlockOversize == Spec => []OversizeIsOneBlock
<1>1. IInv => OversizeIsOneBlock
  <2> SUFFICES ASSUME IInv, reorgs = 0, NEW n \in DOMAIN Blocks, Len(Blocks[n].txs) > MaxTxsInBlock
               PROVE  Len(Blocks[n].txs)
                        - Cardinality({i \in DOMAIN Blocks[n].txs : Blocks[n].txs[i].hash \in mainChain[Blocks[n].gasUsed]})
                      < MaxTxsInBlock
    BY Zenon DEF OversizeIsOneBlock
  <2>1. Blocks[n].txs \in Seq(DerivedTx)
    BY BlockFields, ZenonT(30) DEF IInv, TypeInv
  <2>2. Cardinality(Beside(Blocks[n].txs, mainChain[Blocks[n].gasUsed])) < MaxTxsInBlock
    BY ZenonT(30) DEF IInv, SizeInv, OneBlockOver
  <2> QED
    BY <2>1, <2>2, BesideFacts
<1> QED
  BY <1>1, IInvariant, PTL

-----------------------------------------------------------------------------
(* The virtual chain implements VirtualLedger *)

LEMMA BlockViewFields ==
  ASSUME NEW b \in Block
  PROVE  /\ BlockView(b) \in [scanned : Nat, txs : Seq(Txs)]
         /\ BlockView(b).scanned = b.gasUsed
         /\ DOMAIN BlockView(b).txs = DOMAIN b.txs
         /\ \A i \in DOMAIN b.txs : BlockView(b).txs[i] = b.txs[i].hash
<1>1. b.gasUsed \in Nat /\ b.txs \in Seq(DerivedTx)
  BY DEF Block
<1>2. ASSUME NEW i \in DOMAIN b.txs PROVE b.txs[i].hash \in Txs
  <2>1. b.txs[i] \in DerivedTx
    BY <1>1, <1>2
  <2> QED
    BY <2>1 DEF DerivedTx
<1>3. DOMAIN b.txs = 1..Len(b.txs) /\ Len(b.txs) \in Nat
  BY <1>1
<1>4. [i \in DOMAIN b.txs |-> b.txs[i].hash] \in Seq(Txs)
  BY <1>2, <1>3
<1> QED
  BY <1>1, <1>4 DEF BlockView

LEMMA ViewFields ==
  ASSUME NEW s \in Seq(Block)
  PROVE  /\ View(s) \in Seq([scanned : Nat, txs : Seq(Txs)])
         /\ Len(View(s)) = Len(s) /\ DOMAIN View(s) = DOMAIN s
         /\ \A n \in DOMAIN s : s[n] \in Block /\ View(s)[n] = BlockView(s[n])
<1>1. DOMAIN s = 1..Len(s) /\ Len(s) \in Nat /\ \A n \in DOMAIN s : s[n] \in Block
  OBVIOUS
<1>2. View(s) \in Seq([scanned : Nat, txs : Seq(Txs)])
  BY <1>1, BlockViewFields, SMTT(30) DEF View
<1> QED
  BY <1>1, <1>2 DEF View

LEMMA ViewAppend ==
  ASSUME NEW s \in Seq(Block), NEW b \in Block
  PROVE  /\ Len(View(Append(s, b))) = Len(View(s)) + 1
         /\ SubSeq(View(Append(s, b)), 1, Len(View(s))) = View(s)
         /\ View(Append(s, b))[Len(View(Append(s, b)))] = BlockView(b)
<1> DEFINE t == Append(s, b)
<1>1. /\ t \in Seq(Block) /\ Len(t) = Len(s) + 1 /\ Len(s) \in Nat
      /\ \A n \in 1..Len(s) : n \in DOMAIN s /\ n \in DOMAIN t /\ t[n] = s[n]
      /\ Len(t) \in DOMAIN t /\ t[Len(t)] = b
  OBVIOUS
<1> HIDE DEF t
<1>2. /\ View(t) \in Seq([scanned : Nat, txs : Seq(Txs)]) /\ Len(View(t)) = Len(t)
      /\ View(s) \in Seq([scanned : Nat, txs : Seq(Txs)]) /\ Len(View(s)) = Len(s)
  BY <1>1, ViewFields
<1>3. (\A n \in 1..Len(s) : View(t)[n] = View(s)[n]) /\ View(t)[Len(t)] = BlockView(b)
  BY <1>1, Zenon DEF View
<1>4. SubSeq(View(t), 1, Len(s)) = View(s)
  BY <1>1, <1>2, <1>3
<1> QED
  BY <1>1, <1>2, <1>3, <1>4, ZenonT(30) DEF t

LEMMA BlockViewHashes ==
  ASSUME NEW b \in Block
  PROVE  {BlockView(b).txs[i] : i \in DOMAIN BlockView(b).txs} = Hashes(b.txs)
<1>1. DOMAIN BlockView(b).txs = DOMAIN b.txs /\ \A i \in DOMAIN b.txs : BlockView(b).txs[i] = b.txs[i].hash
  BY BlockViewFields
<1> QED
  BY <1>1 DEF Hashes

LEMMA RecordedInLedger ==
  ASSUME TypeOK
  PROVE  Ledger!Recorded(Len(View(ledger))) = HashesOf(ledger)
<1> DEFINE R(n) == {View(ledger)[n].txs[i] : i \in DOMAIN View(ledger)[n].txs}
<1>1. ledger \in Seq(Block) /\ DOMAIN ledger = 1..Len(ledger)
  BY DEF TypeOK
<1>2. ASSUME NEW n \in DOMAIN ledger PROVE R(n) = Hashes(ledger[n].txs)
  <2>1. ledger[n] \in Block /\ View(ledger)[n] = BlockView(ledger[n])
    BY <1>1, ViewFields
  <2> QED
    BY <2>1, BlockViewHashes, Zenon
<1>3. 1..Len(View(ledger)) = DOMAIN ledger
  BY <1>1, ViewFields
<1>4. Ledger!Recorded(Len(View(ledger))) = UNION {R(n) : n \in 1..Len(View(ledger))}
  BY Zenon DEF Ledger!Recorded
<1> HIDE DEF R
<1>5. UNION {R(n) : n \in DOMAIN ledger} = HashesOf(ledger)
  BY <1>2, ZenonT(30) DEF HashesOf
<1> QED
  BY <1>3, <1>4, <1>5, Zenon

\* The pending block is what VirtualLedger lets the ledger be extended by.
LEMMA PendingIsNext ==
  ASSUME TypeOK, ShapeInv, ScannedIsRecorded, NoDuplicates(Blocks), reorgs = 0, pending # NoBlock
  PROVE  Ledger!IsNext(BlockView(pending))
<1> DEFINE N == Len(ledger) + 1
           b == BlockView(pending)
<1>1. /\ ledger \in Seq(Block) /\ pending \in Block /\ Blocks = Append(ledger, pending)
      /\ Len(ledger) \in Nat /\ pending.gasUsed \in Nat
  <2>1. ledger \in Seq(Block) /\ pending \in Block
    BY DEF TypeOK
  <2>2. pending.gasUsed \in Nat
    BY <2>1 DEF Block
  <2> QED
    BY <2>1, <2>2 DEF Blocks
<1>2. /\ N \in DOMAIN Blocks /\ Blocks[N] = pending /\ Len(Blocks) = N /\ DOMAIN Blocks = 1..N
      /\ DOMAIN ledger = 1..Len(ledger)
      /\ \A n \in 1..Len(ledger) : n \in DOMAIN Blocks /\ n # N /\ Blocks[n] = ledger[n]
  BY <1>1, SMTT(30)
<1>3. /\ b.scanned = pending.gasUsed /\ DOMAIN b.txs = DOMAIN pending.txs
      /\ \A i \in DOMAIN pending.txs : b.txs[i] = pending.txs[i].hash
  BY <1>1, BlockViewFields
<1>4. Ledger!Recorded(Len(View(ledger))) = HashesOf(ledger)
  BY RecordedInLedger
<1> HIDE DEF b
<1>5. Ledger!LastScanned <= b.scanned
  <2>1. CASE View(ledger) = <<>>
    BY <1>1, <1>3, <2>1, SMTT(30) DEF Ledger!LastScanned
  <2>2. CASE View(ledger) # <<>>
    <3>1. /\ Len(View(ledger)) = Len(ledger) /\ View(ledger) \in Seq([scanned : Nat, txs : Seq(Txs)])
      BY <1>1, ViewFields
    <3>2. Len(ledger) \in DOMAIN ledger /\ N > 1 /\ N - 1 = Len(ledger)
      BY <1>1, <1>2, <2>2, <3>1
    <3>3. View(ledger)[Len(ledger)].scanned = ledger[Len(ledger)].gasUsed
      BY <1>1, <3>2, ViewFields, BlockViewFields, ZenonT(30)
    <3>4. Blocks[N - 1].gasUsed <= Blocks[N].gasUsed
      BY <1>2, <3>2, ZenonT(30) DEF ShapeInv, ChainIsLinear
    <3> QED
      BY <1>2, <1>3, <2>2, <3>1, <3>2, <3>3, <3>4, ZenonT(30) DEF Ledger!LastScanned
  <2> QED
    BY <2>1, <2>2
<1>6. b.scanned <= Len(mainChain)
  BY <1>2, <1>3 DEF ShapeInv, ChainIsLinear
<1>7. ASSUME NEW i \in DOMAIN b.txs
      PROVE  /\ b.txs[i] \in Derivable
             /\ b.txs[i] \notin Ledger!Recorded(Len(View(ledger)))
             /\ \A j \in DOMAIN b.txs : b.txs[i] = b.txs[j] => i = j
  <2>1. i \in DOMAIN Blocks[N].txs /\ b.txs[i] = Blocks[N].txs[i].hash
    BY <1>2, <1>3, <1>7, ZenonT(30)
  <2>2. b.txs[i] \in Derivable
    BY <1>2, <2>1, ZenonT(30) DEF ShapeInv, Hashes
  <2>3. ASSUME NEW n \in DOMAIN ledger, NEW j \in DOMAIN ledger[n].txs, ledger[n].txs[j].hash = b.txs[i]
        PROVE  FALSE
    <3>1. n \in DOMAIN Blocks /\ n # N /\ j \in DOMAIN Blocks[n].txs /\ Blocks[n].txs[j].hash = Blocks[N].txs[i].hash
      BY <1>2, <2>1, <2>3, ZenonT(30)
    <3> QED
      BY <1>2, <2>1, <3>1, ZenonT(30) DEF NoDuplicates
  <2>4. b.txs[i] \notin HashesOf(ledger)
    BY <2>3, ZenonT(30) DEF HashesOf, Hashes
  <2>5. ASSUME NEW j \in DOMAIN b.txs, b.txs[i] = b.txs[j] PROVE i = j
    <3>1. j \in DOMAIN Blocks[N].txs /\ b.txs[j] = Blocks[N].txs[j].hash
      BY <1>2, <1>3, <2>5, ZenonT(30)
    <3>2. Blocks[N].txs[i].hash = Blocks[N].txs[j].hash
      BY <2>1, <2>5, <3>1, ZenonT(30)
    <3> HIDE DEF N
    <3> QED
      BY <1>2, <2>1, <3>1, <3>2, SMTT(30) DEF NoDuplicates
  <2> QED
    BY <1>4, <2>2, <2>4, <2>5, ZenonT(30)
<1>8. ASSUME NEW h \in (GenesisMainChainBlockHeight + 1)..b.scanned, NEW t \in mainChain[h] \cap Derivable
      PROVE  \/ t \in Ledger!Recorded(Len(View(ledger)))
             \/ \E i \in DOMAIN b.txs : b.txs[i] = t
  <2>1. h \in (GenesisMainChainBlockHeight + 1)..Blocks[N].gasUsed
    BY <1>2, <1>3, <1>8, ZenonT(30)
  <2>2. PICK m \in 1..N : t \in Hashes(Blocks[m].txs)
    BY <1>2, <1>8, <2>1, ZenonT(30) DEF ScannedIsRecorded
  <2>3. CASE m = N
    BY <1>2, <1>3, <2>2, <2>3, SMTT(30) DEF Hashes
  <2>4. CASE m # N
    <3>1. m \in DOMAIN ledger /\ Blocks[m] = ledger[m]
      BY <1>1, <1>2, <2>4
    <3> QED
      BY <1>4, <2>2, <3>1, ZenonT(30) DEF HashesOf
  <2> QED
    BY <2>3, <2>4, ZenonT(30)
<1> QED
  BY <1>5, <1>6, <1>7, <1>8 DEF Ledger!IsNext, b

LEMMA LedgerInit == Init => Ledger!Init
<1> SUFFICES ASSUME Init PROVE Ledger!Init
  OBVIOUS
<1>1. ledger = <<>> /\ mainChain = [h \in 1..GenesisMainChainBlockHeight |-> {}]
  BY DEF Init, StoreInit, NodeInit
<1>2. View(<<>>) = <<>>
  <2>1. View(<<>>) \in Seq([scanned : Nat, txs : Seq(Txs)]) /\ Len(View(<<>>)) = 0
    <3>1. <<>> \in Seq(Block) /\ Len(<<>>) = 0
      OBVIOUS
    <3> QED
      BY <3>1, ViewFields, Zenon
  <2> QED
    BY <2>1
<1> QED
  BY <1>1, <1>2 DEF Ledger!Init

LEMMA LedgerExtend ==
  ASSUME TypeOK, ShapeInv, ScannedIsRecorded, NoDuplicates(Blocks), reorgs = 0, pending # NoBlock,
         ledger' = Append(ledger, pending), UNCHANGED mainChain
  PROVE  Ledger!Extend
<1>1. ledger \in Seq(Block) /\ pending \in Block
  BY DEF TypeOK
<1>2. /\ Len(View(ledger')) = Len(View(ledger)) + 1
      /\ SubSeq(View(ledger'), 1, Len(View(ledger))) = View(ledger)
      /\ View(ledger')[Len(View(ledger'))] = BlockView(pending)
  BY <1>1, ViewAppend
<1> QED
  BY <1>2, PendingIsNext DEF Ledger!Extend

LEMMA LedgerMine ==
  ASSUME TypeOK, NEW block \in SUBSET Txs, Mine(block), UNCHANGED ledger
  PROVE  Ledger!Mine
<1>1. mainChain \in Seq(SUBSET Txs) /\ mainChain' = Append(mainChain, block)
  BY DEF TypeOK, NodeTypeOK, Mine
<1>2. Len(mainChain') = Len(mainChain) + 1 /\ SubSeq(mainChain', 1, Len(mainChain)) = mainChain
  BY <1>1, SMTT(30)
<1> QED
  BY <1>2 DEF Ledger!Mine

LEMMA LedgerStep ==
  ASSUME MaxReorgs = 0, ~SlowIndexing \/ CacheHoldsAll, IInv, [Next]_vars
  PROVE  [Ledger!Next]_(Ledger!ledgerVars)
<1>0. TypeOK /\ ShapeInv /\ ScannedIsRecorded /\ reorgs = 0 /\ NoDuplicates(Blocks)
  <2>1. TypeOK /\ ShapeInv /\ ScannedIsRecorded /\ OnceInv
    BY DEF IInv, TypeInv, RecordInv
  <2>2. reorgs = 0
    BY <2>1 DEF TypeOK, NodeTypeOK
  <2>3. OnceCondition
    BY <2>2 DEF OnceCondition, StableRound
  <2> QED
    BY <2>1, <2>2, <2>3 DEF OnceInv
<1>1. CASE UNCHANGED <<mainChain, ledger>>
  BY <1>1 DEF Ledger!ledgerVars
<1>2. CASE Index
  BY <1>0, <1>2, LedgerExtend DEF Index, IndexBlock, nodeVars, Ledger!Next
<1>3. CASE Crash \/ Panic
  <2>1. UNCHANGED mainChain /\ (UNCHANGED ledger \/ (pending # NoBlock /\ ledger' = Append(ledger, pending)))
    BY <1>3 DEF Crash, Panic, Die, Reopen, nodeVars
  <2> QED
    BY <1>0, <1>1, <2>1, LedgerExtend DEF Ledger!Next
<1>4. CASE NodeStep
  <2>1. UNCHANGED ledger
    BY <1>4 DEF NodeStep, storeVars
  <2>2. ASSUME NEW block \in SUBSET Txs, Mine(block) PROVE Ledger!Next
    BY <1>0, <2>1, <2>2, LedgerMine DEF Ledger!Next
  <2>3. ASSUME NEW t \in Txs, Broadcast(t) \/ Drop(t) PROVE UNCHANGED mainChain
    BY <2>3 DEF Broadcast, Drop
  <2>4. ~ \E b1, b2 \in SUBSET Txs : Reorg(b1, b2)
    BY <1>0 DEF Reorg
  <2> QED
    BY <1>1, <1>4, <2>1, <2>2, <2>3, <2>4 DEF NodeStep, NodeNext
<1> QED
  BY <1>1, <1>2, <1>3, <1>4 DEF Next, ProgramStep, Start, Tick, Scan, SkipRound, StoreNewBlock, AddBlock,
     SendChainEvent, SendLogs, vars, nodeVars, storeVars

\* Without reorganisations, and with either prompt indexing or a cache for
\* every transaction, the indexed blocks are a ledger that is only extended,
\* by blocks that keep their claim and repeat nothing: whatever the crashes,
\* the lost blocks and the limit on transactions per block.
THEOREM LedgerRefinement ==
  MaxReorgs = 0 /\ (~SlowIndexing \/ CacheHoldsAll) => (Spec => ImplementsLedger)
<1> SUFFICES ASSUME MaxReorgs = 0, ~SlowIndexing \/ CacheHoldsAll
             PROVE  Spec => ImplementsLedger
  OBVIOUS
<1>1. IInv /\ [Next]_vars => [Ledger!Next]_(Ledger!ledgerVars)
  BY LedgerStep
<1> QED
  BY <1>1, LedgerInit, IInvariant, PTL DEF Spec, ImplementsLedger, Ledger!Spec

-----------------------------------------------------------------------------
(* What a round has left to do *)

\* How far the round is, counted down to 0 between rounds.
RoundPhase ==
  CASE pc = "count"                    -> 7
    [] pc \in {"nextBlock", "blockTx"} -> 6
    [] pc = "mempool"                  -> 5
    [] pc = "mempoolTx"                -> 4
    [] pc = "emit"                     -> 3
    [] pc = "publish"                  -> 2
    [] pc = "publishLogs"              -> 1
    [] OTHER                           -> 0

\* Main chain blocks up to the height that was read when the round began.
BlocksLeft == IF latestScanBlockHeight < newestHeight THEN newestHeight - latestScanBlockHeight ELSE 0

\* Transactions of the block or of the mempool; before a block is read, more
\* than it can have.
TxsLeft == IF pc = "nextBlock" THEN Cardinality(Txs) + 1 ELSE Cardinality(todo)

RoundVariant == <<RoundPhase, BlocksLeft, TxsLeft>>

\* The lexicographic order.
Smaller(v, w) == v[1] < w[1] \/ (v[1] = w[1] /\ (v[2] < w[2] \/ (v[2] = w[2] /\ v[3] < w[3])))

\* What a step may be while a round is under way.
RoundGoesOn ==
  pc \notin {"idle", "down"} =>
    \/ ProgramStep /\ Smaller(RoundVariant', RoundVariant)
    \/ ~ProgramStep /\ (RoundVariant' = RoundVariant \/ pc' = "down")

LEMMA VariantType ==
  ASSUME TypeOK, IsFiniteSet(Txs)
  PROVE  /\ RoundPhase \in Nat /\ BlocksLeft \in Nat /\ TxsLeft \in Nat /\ Cardinality(Txs) \in Nat
         /\ IsFiniteSet(todo) /\ Cardinality(todo) \in Nat /\ Cardinality(todo) <= Cardinality(Txs)
<1>1. todo \subseteq Txs /\ latestScanBlockHeight \in Nat /\ newestHeight \in Nat
  BY DEF TypeOK
<1>2. IsFiniteSet(todo) /\ Cardinality(todo) <= Cardinality(Txs)
  BY <1>1, FS_Subset
<1>3. Cardinality(todo) \in Nat /\ Cardinality(Txs) \in Nat
  BY <1>2, FS_CardinalityType
<1>4. RoundPhase \in Nat
  BY DEF RoundPhase
<1>5. BlocksLeft \in Nat
  BY <1>1 DEF BlocksLeft
<1>6. TxsLeft \in Nat
  BY <1>3 DEF TxsLeft
<1> QED
  BY <1>2, <1>3, <1>4, <1>5, <1>6

LEMMA VariantSmaller ==
  \/ RoundPhase' < RoundPhase
  \/ RoundPhase' = RoundPhase /\ BlocksLeft' < BlocksLeft
  \/ RoundPhase' = RoundPhase /\ BlocksLeft' = BlocksLeft /\ TxsLeft' < TxsLeft
  => Smaller(RoundVariant', RoundVariant)
BY DEF Smaller, RoundVariant

LEMMA OneTxLess ==
  ASSUME TypeOK, IsFiniteSet(Txs), NEW t \in todo, todo' = todo \ {t}, pc' = pc, pc # "nextBlock",
         UNCHANGED <<latestScanBlockHeight, newestHeight>>
  PROVE  Smaller(RoundVariant', RoundVariant)
<1>1. Cardinality(todo \ {t}) = Cardinality(todo) - 1
  BY VariantType, FS_RemoveElement
<1>2. RoundPhase' = RoundPhase /\ BlocksLeft' = BlocksLeft
  BY Zenon DEF RoundPhase, BlocksLeft
<1>3. TxsLeft' = Cardinality(todo') /\ TxsLeft = Cardinality(todo)
  BY Zenon DEF TxsLeft
<1>4. TxsLeft' < TxsLeft
  BY <1>1, <1>3, VariantType
<1> QED
  BY <1>2, <1>4, VariantSmaller, Zenon

LEMMA ScanShrinks ==
  ASSUME TypeOK, ControlInv, IsFiniteSet(Txs), ScannerStep, TypeOK'
  PROVE  Smaller(RoundVariant', RoundVariant)
<1>1. CASE ReadBlockCount \/ FinishScan \/ ReadMempool \/ FinishMempool
  <2>1. \/ pc = "count" /\ pc' = "nextBlock"
        \/ pc = "nextBlock" /\ pc' \in {"emit", "mempool"}
        \/ pc = "mempool" /\ pc' = "mempoolTx"
        \/ pc = "mempoolTx" /\ pc' = "emit"
    BY <1>1 DEF ReadBlockCount, FinishScan, ReadMempool, FinishMempool
  <2>2. RoundPhase' < RoundPhase
    BY <2>1 DEF RoundPhase
  <2> QED
    BY <2>2, VariantSmaller, Zenon
<1>2. CASE ReadBlock
  <2>1. pc = "nextBlock" /\ pc' = "blockTx" /\ UNCHANGED <<latestScanBlockHeight, newestHeight>>
    BY <1>2 DEF ReadBlock
  <2>2. RoundPhase' = RoundPhase /\ BlocksLeft' = BlocksLeft
    BY <2>1 DEF RoundPhase, BlocksLeft
  <2>3. TxsLeft' = Cardinality(todo') /\ TxsLeft = Cardinality(Txs) + 1
    BY <2>1 DEF TxsLeft
  <2>4. todo' \subseteq Txs
    BY DEF TypeOK
  <2>5. Cardinality(todo') <= Cardinality(Txs) /\ IsFiniteSet(todo')
    BY <2>4, FS_Subset
  <2>6. Cardinality(todo') \in Nat
    BY <2>5, FS_CardinalityType
  <2>7. TxsLeft' < TxsLeft
    BY <2>3, <2>5, <2>6, VariantType
  <2> QED
    BY <2>2, <2>7, VariantSmaller, Zenon
<1>3. CASE FinishBlock
  <2>1. CASE pc' = "emit"
    <3>1. RoundPhase' < RoundPhase
      BY <1>3, <2>1 DEF FinishBlock, RoundPhase
    <3> QED
      BY <3>1, VariantSmaller, Zenon
  <2>2. CASE pc' = "nextBlock"
    <3>1. RoundPhase' = RoundPhase
      BY <1>3, <2>2 DEF FinishBlock, RoundPhase
    <3>2. /\ latestScanBlockHeight' = latestScanBlockHeight + 1 /\ newestHeight' = newestHeight
          /\ latestScanBlockHeight < newestHeight /\ latestScanBlockHeight \in Nat /\ newestHeight \in Nat
      BY <1>3 DEF FinishBlock, ControlInv, TypeOK
    <3>3. BlocksLeft' < BlocksLeft
      BY <3>2 DEF BlocksLeft
    <3> QED
      BY <3>1, <3>3, VariantSmaller, Zenon
  <2> QED
    BY <1>3, <2>1, <2>2 DEF FinishBlock
<1>4. ASSUME NEW t \in todo, SkipBlockTx(t) \/ CollectBlockTx(t) \/ SkipMempoolTx(t) \/ FailMempoolTx(t) \/ RejectMempoolTx(t)
      PROVE  Smaller(RoundVariant', RoundVariant)
  <2>1. todo' = todo \ {t} /\ pc' = pc /\ pc # "nextBlock" /\ UNCHANGED <<latestScanBlockHeight, newestHeight>>
    BY <1>4 DEF SkipBlockTx, CollectBlockTx, SkipMempoolTx, FailMempoolTx, RejectMempoolTx
  <2> QED
    BY <2>1, OneTxLess
<1>5. ASSUME NEW t \in todo, CollectMempoolTx(t) PROVE Smaller(RoundVariant', RoundVariant)
  <2>1. CASE pc' = "emit"
    <3>1. RoundPhase' < RoundPhase
      BY <1>5, <2>1 DEF CollectMempoolTx, RoundPhase
    <3> QED
      BY <3>1, VariantSmaller, Zenon
  <2>2. CASE pc' # "emit"
    <3>1. todo' = todo \ {t} /\ pc' = pc /\ pc # "nextBlock" /\ UNCHANGED <<latestScanBlockHeight, newestHeight>>
      BY <1>5, <2>2 DEF CollectMempoolTx
    <3> QED
      BY <3>1, OneTxLess
  <2> QED
    BY <2>1, <2>2
<1> QED
  BY <1>1, <1>2, <1>3, <1>4, <1>5 DEF ScannerStep

\* Every step of the program takes a round nearer to its end, and nothing the
\* node, the store or a client does takes it back: the height and the listing
\* of the mempool are read once.  What is left is three natural numbers in
\* lexicographic order, so a round has finitely many steps, however far the
\* node is ahead and however much it moves meanwhile.
THEOREM RoundShrinks ==
  ASSUME IsFiniteSet(Txs)
  PROVE  Spec => [](RoundVariant \in Nat \X Nat \X Nat) /\ [][RoundGoesOn]_vars
<1>1. TypeOK => RoundVariant \in Nat \X Nat \X Nat
  BY VariantType DEF RoundVariant
<1>2. ASSUME TypeOK, ControlInv, TypeOK', [Next]_vars, pc \notin {"idle", "down"} PROVE RoundGoesOn
  <2>1. ASSUME ProgramStep PROVE Smaller(RoundVariant', RoundVariant)
    <3>1. ~Start /\ ~Tick
      BY <1>2 DEF Start, Tick
    <3>2. CASE Scan
      BY <1>2, <3>2, ScanShrinks DEF Scan
    <3>3. CASE SkipRound \/ StoreNewBlock \/ SendChainEvent \/ SendLogs
      <4>1. \/ pc = "emit" /\ pc' \in {"idle", "publish"}
            \/ pc = "publish" /\ pc' \in {"idle", "publishLogs"}
            \/ pc = "publishLogs" /\ pc' = "idle"
        BY <3>3 DEF SkipRound, StoreNewBlock, SendChainEvent, SendLogs
      <4>2. RoundPhase' < RoundPhase
        BY <4>1 DEF RoundPhase
      <4> QED
        BY <4>2, VariantSmaller, Zenon
    <3> QED
      BY <2>1, <3>1, <3>2, <3>3 DEF ProgramStep
  <2>2. ASSUME Crash \/ Panic PROVE pc' = "down"
    BY <2>2 DEF Crash, Panic, Die
  <2>3. ASSUME Index \/ NodeStep \/ UNCHANGED vars PROVE RoundVariant' = RoundVariant
    <3>1. UNCHANGED <<pc, todo, latestScanBlockHeight, newestHeight>>
      BY <2>3, Zenon DEF Index, NodeStep, vars, scannerVars
    <3> QED
      BY <3>1, Zenon DEF RoundVariant, RoundPhase, BlocksLeft, TxsLeft
  <2> QED
    BY <1>2, <2>1, <2>2, <2>3, Zenon DEF Next, RoundGoesOn
<1>3. IInv /\ IInv' /\ [Next]_vars => [RoundGoesOn]_vars
  <2>1. IInv => TypeOK /\ ControlInv
    BY DEF IInv, TypeInv
  <2>2. IInv' => TypeOK'
    BY DEF IInv, TypeInv
  <2>3. pc \in {"idle", "down"} => RoundGoesOn
    BY Zenon DEF RoundGoesOn
  <2> QED
    BY <1>2, <2>1, <2>2, <2>3, Zenon
<1>4. IInv => TypeOK
  BY DEF IInv, TypeInv
<1> QED
  BY <1>1, <1>3, <1>4, IInvariant, PTL DEF Spec

=============================================================================
