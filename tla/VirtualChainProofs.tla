------------------------- MODULE VirtualChainProofs -------------------------
(***************************************************************************)
(* VirtualChain, for every number of transactions, every main chain, every *)
(* bound and every order of steps.                                         *)
(***************************************************************************)
EXTENDS VirtualChainInv, TLAPS

-----------------------------------------------------------------------------
(* Lemmas about lists of derived transactions and about Blocks. *)

LEMMA HashesAppend ==
  ASSUME NEW s \in Seq(DerivedTx), NEW x \in DerivedTx
  PROVE  Hashes(Append(s, x)) = Hashes(s) \cup {x.hash}
BY DEF Hashes

LEMMA HashesOfAppend ==
  ASSUME NEW s \in Seq(Block), NEW b \in Block
  PROVE  HashesOf(Append(s, b)) = HashesOf(s) \cup Hashes(b.txs)
<1>1. ASSUME NEW t \in HashesOf(Append(s, b))
      PROVE  t \in HashesOf(s) \cup Hashes(b.txs)
  <2>1. PICK n \in DOMAIN Append(s, b) : t \in Hashes(Append(s, b)[n].txs)
    BY <1>1 DEF HashesOf
  <2>2. (n \in DOMAIN s /\ Append(s, b)[n] = s[n]) \/ Append(s, b)[n] = b
    BY <2>1
  <2> QED
    BY <2>1, <2>2 DEF HashesOf
<1>2. ASSUME NEW t \in HashesOf(s) \cup Hashes(b.txs)
      PROVE  t \in HashesOf(Append(s, b))
  <2>1. CASE t \in HashesOf(s)
    <3>1. PICK n \in DOMAIN s : t \in Hashes(s[n].txs)
      BY <2>1 DEF HashesOf
    <3>2. n \in DOMAIN Append(s, b) /\ Append(s, b)[n] = s[n]
      OBVIOUS
    <3> QED
      BY <3>1, <3>2 DEF HashesOf
  <2>2. CASE t \in Hashes(b.txs)
    <3>1. Len(s) + 1 \in DOMAIN Append(s, b) /\ Append(s, b)[Len(s) + 1] = b
      OBVIOUS
    <3> QED
      BY <2>2, <3>1 DEF HashesOf
  <2> QED
    BY <1>2, <2>1, <2>2
<1> QED
  BY <1>1, <1>2

LEMMA HashesEmpty == Hashes(<<>>) = {}
BY DEF Hashes

LEMMA HashesType ==
  ASSUME NEW s \in Seq(DerivedTx)
  PROVE  Hashes(s) \subseteq Txs
<1>1. ASSUME NEW i \in DOMAIN s PROVE s[i].hash \in Txs
  <2>1. s[i] \in DerivedTx
    BY <1>1
  <2> QED
    BY <2>1 DEF DerivedTx
<1> QED
  BY <1>1 DEF Hashes

LEMMA NoBlockType == NoBlock \in Block
BY DEF NoBlock, Block, ZeroHash

LEMMA BlocksType == TypeOK => Blocks \in Seq(Block)
BY DEF TypeOK, Blocks

LEMMA BlockFields ==
  ASSUME TypeOK, NEW n \in DOMAIN Blocks
  PROVE  /\ Blocks[n] \in Block
         /\ Blocks[n].gasUsed \in Nat
         /\ Blocks[n].txs \in Seq(DerivedTx)
<1>1. Blocks[n] \in Block
  BY BlocksType
<1> QED
  BY <1>1 DEF Block

\* A block that GenerateNewBlock builds is one.
LEMMA NewBlockType == TypeOK => NewBlock \in Block /\ NewBlock # NoBlock
BY DEF TypeOK, NewBlock, NoBlock, Block, BlockHash

-----------------------------------------------------------------------------
(* Types *)

LEMMA TypeInit == Init => TypeInv
<1> SUFFICES ASSUME Init PROVE TypeInv
  OBVIOUS
<1>1. NodeTypeOK
  BY NodeAssumption DEF Init, NodeInit, NodeTypeOK
<1>2. pending \in Block /\ announced \in Block /\ logged \in Block
  BY NoBlockType DEF Init, StoreInit
<1>3. tryGenerateBlockCount \in 0..(ScanEvery - 1) /\ crashes \in 0..MaxCrashes
  BY ChainAssumption DEF Init
<1>4. scanBlock \in BOOLEAN /\ pc \in PcValues \ {"publish", "publishLogs"}
  BY Zenon DEF Init, PcValues
<1>5. ledger \in Seq(Block) /\ newModbTxs \in Seq(DerivedTx)
  BY DEF Init, StoreInit
<1> QED
  BY <1>1, <1>2, <1>3, <1>4, <1>5 DEF Init, StoreInit, TypeInv, TypeOK, ZeroHash

\* The node moves, and its variables keep their types.
LEMMA NodeTypeStep ==
  ASSUME NodeTypeOK, NodeStep
  PROVE  NodeTypeOK'
<1>1. ASSUME NEW t \in Txs, Broadcast(t) PROVE NodeTypeOK'
  BY <1>1 DEF NodeTypeOK, Broadcast
<1>2. ASSUME NEW t \in Txs, Drop(t) PROVE NodeTypeOK'
  BY <1>2 DEF NodeTypeOK, Drop
<1>3. ASSUME NEW block \in SUBSET Txs, Mine(block) PROVE NodeTypeOK'
  BY <1>3 DEF NodeTypeOK, Mine
<1>4. ASSUME NEW b1 \in SUBSET Txs, NEW b2 \in SUBSET Txs, Reorg(b1, b2)
      PROVE  NodeTypeOK'
  <2>1. Len(mainChain) \in 1..Len(mainChain)
    BY <1>4, NodeAssumption DEF Reorg, NodeTypeOK
  <2>2. mainChain' \in Seq(SUBSET Txs)
    BY <1>4, <2>1 DEF Reorg, NodeTypeOK
  <2>3. mempool' \in SUBSET Txs /\ reorgs' \in 0..MaxReorgs
    BY <1>4, <2>1, NodeAssumption DEF Reorg, NodeTypeOK
  <2> QED
    BY <2>2, <2>3 DEF NodeTypeOK
<1> QED
  BY <1>1, <1>2, <1>3, <1>4 DEF NodeStep, NodeNext

\* The main chain never gets shorter.
LEMMA MainChainGrows ==
  ASSUME NodeTypeOK, NodeStep \/ UNCHANGED nodeVars
  PROVE  Len(mainChain) <= Len(mainChain')
<1>1. ASSUME NEW block \in SUBSET Txs, Mine(block) PROVE Len(mainChain) <= Len(mainChain')
  BY <1>1 DEF NodeTypeOK, Mine
<1>2. ASSUME NEW b1 \in SUBSET Txs, NEW b2 \in SUBSET Txs, Reorg(b1, b2)
      PROVE  Len(mainChain) <= Len(mainChain')
  BY <1>2 DEF Reorg, NodeTypeOK
<1> QED
  BY <1>1, <1>2 DEF NodeStep, NodeNext, Broadcast, Drop, nodeVars, NodeTypeOK

\* A scanner step keeps the scanner's types; the rest it leaves alone.
LEMMA ScanTypeStep ==
  ASSUME TypeInv, Scan
  PROVE  /\ knownTxCache' \in SUBSET Txs
         /\ latestScanBlockHeight' \in Nat
         /\ newestHeight' \in Nat
         /\ todo' \in SUBSET Txs
         /\ newModbTxs' \in Seq(DerivedTx)
         /\ txIndex' \in Nat
         /\ pc' \in PcValues \ {"publish", "publishLogs"}
         /\ pc' \in {"nextBlock", "blockTx"} => newestHeight' <= Len(mainChain)
<1> USE DEF TypeInv, TypeOK, NodeTypeOK
<1> DEFINE Goal == /\ knownTxCache' \in SUBSET Txs
                   /\ latestScanBlockHeight' \in Nat
                   /\ newestHeight' \in Nat
                   /\ todo' \in SUBSET Txs
                   /\ newModbTxs' \in Seq(DerivedTx)
                   /\ txIndex' \in Nat
                   /\ pc' \in PcValues \ {"publish", "publishLogs"}
                   /\ pc' \in {"nextBlock", "blockTx"} => newestHeight' <= Len(mainChain)
<1>0. ASSUME NEW t \in Txs PROVE Converted(t) \in DerivedTx
  BY DEF Converted, DerivedTx
<1>1. CASE ReadBlockCount
  BY <1>1 DEF ReadBlockCount, GetBlockCount, PcValues
<1>2. CASE ReadBlock
  BY <1>2 DEF ReadBlock, GetBlockVerboseTx, PcValues
<1>3. ASSUME NEW t \in todo, SkipBlockTx(t) PROVE Goal
  BY <1>3 DEF SkipBlockTx, PcValues
<1>4. ASSUME NEW t \in todo, CollectBlockTx(t) PROVE Goal
  BY <1>0, <1>4 DEF CollectBlockTx, PcValues
<1>5. CASE FinishBlock
  BY <1>5 DEF FinishBlock, PcValues
<1>6. CASE FinishScan
  BY <1>6 DEF FinishScan, scannerVars, PcValues
<1>7. CASE ReadMempool
  BY <1>7 DEF ReadMempool, GetRawMempool, PcValues
<1>8. ASSUME NEW t \in todo, SkipMempoolTx(t) \/ FailMempoolTx(t) PROVE Goal
  BY <1>8 DEF SkipMempoolTx, FailMempoolTx, PcValues
<1>9. ASSUME NEW t \in todo, AddKnownTx(t) PROVE knownTxCache' \in SUBSET Txs
  BY <1>9 DEF AddKnownTx
<1>10. ASSUME NEW t \in todo, RejectMempoolTx(t) PROVE Goal
  BY <1>9, <1>10 DEF RejectMempoolTx, PcValues
<1>11. ASSUME NEW t \in todo, CollectMempoolTx(t) PROVE Goal
  BY <1>0, <1>9, <1>11 DEF CollectMempoolTx, PcValues
<1>12. CASE FinishMempool
  BY <1>12, ZenonT(30) DEF FinishMempool, scannerVars, PcValues
<1> QED
  BY <1>1, <1>2, <1>3, <1>4, <1>5, <1>6, <1>7, <1>8, <1>10, <1>11, <1>12
     DEF Scan, ScannerStep

\* The store's two ways to grow, and the publication, keep the types.
LEMMA TypeStep == TypeInv /\ [Next]_vars => TypeInv'
<1> SUFFICES ASSUME TypeInv, [Next]_vars PROVE TypeInv'
  OBVIOUS
<1> USE DEF TypeInv, TypeOK
<1>1. CASE Start
  <2>1. /\ GetLatestBlockInfo.height \in Nat
        /\ GetLatestBlockInfo.hash \in Nat
        /\ GetLatestBlockInfo.scanned \in Nat
    <3>1. CASE ledger = <<>>
      BY <3>1 DEF GetLatestBlockInfo, ZeroHash
    <3>2. CASE ledger # <<>>
      <4>1. ledger[Len(ledger)] \in Block
        BY <3>2
      <4>2. ledger[Len(ledger)].hash \in Nat /\ ledger[Len(ledger)].gasUsed \in Nat
        BY <4>1, Zenon DEF Block
      <4>3. GetLatestBlockInfo = [height  |-> Len(ledger),
                                  hash    |-> ledger[Len(ledger)].hash,
                                  scanned |-> ledger[Len(ledger)].gasUsed]
        BY <3>2 DEF GetLatestBlockInfo
      <4>4. Len(ledger) \in Nat
        OBVIOUS
      <4> QED
        BY <4>2, <4>3, <4>4
    <3> QED
      BY <3>1, <3>2
  <2>2. scanBlock' \in BOOLEAN /\ pc' = "count"
    BY <1>1 DEF Start, EnterGenerate
  <2>3. tryGenerateBlockCount' \in 0..(ScanEvery - 1)
    BY <1>1, ChainAssumption DEF Start
  <2> QED
    BY <1>1, <2>1, <2>2, <2>3, NodeAssumption
       DEF Start, nodeVars, storeVars, NodeTypeOK, PcValues
<1>2. CASE Tick
  <2>1. tryGenerateBlockCount' \in 0..(ScanEvery - 1)
    BY <1>2, ChainAssumption DEF Tick
  <2>2. scanBlock' \in BOOLEAN /\ pc' \in {"count", "mempool"}
    BY <1>2 DEF Tick, EnterGenerate
  <2> QED
    BY <1>2, <2>1, <2>2 DEF Tick, nodeVars, storeVars, scannerVars, NodeTypeOK, PcValues
<1>3. CASE Scan
  BY <1>3, ScanTypeStep DEF Scan, nodeVars, storeVars, chainVars, NodeTypeOK
<1>4. CASE SkipRound
  BY <1>4 DEF SkipRound, ScannerReset, nodeVars, storeVars, chainVars, NodeTypeOK, PcValues
<1>5. CASE StoreNewBlock
  BY <1>5, NewBlockType DEF StoreNewBlock, AddBlock, ScannerReset, nodeVars, NodeTypeOK, PcValues
<1>6. CASE SendChainEvent \/ SendLogs
  <2>1. StoredBlock \in Block
    BY <1>6 DEF SendChainEvent, SendLogs, StoredBlock
  <2> QED
    BY <1>6, <2>1, ZenonT(30) DEF SendChainEvent, SendLogs, nodeVars, storeVars, scannerVars, NodeTypeOK, PcValues
<1>7. CASE Index
  BY <1>7, NoBlockType DEF Index, IndexBlock, nodeVars, scannerVars, chainVars, NodeTypeOK
<1>8. CASE Crash \/ Panic
  <2>1. Die /\ crashes' \in 0..MaxCrashes
    BY <1>8, ChainAssumption DEF Crash, Panic
  <2>2. ledger' \in Seq(Block) /\ pending' \in Block
    BY <2>1, NoBlockType DEF Die, Reopen
  <2>3. tryGenerateBlockCount' \in 0..(ScanEvery - 1)
    <3>1. tryGenerateBlockCount' = 0
      BY <2>1 DEF Die
    <3> QED
      BY <3>1, ChainAssumption
  <2>4. scanBlock' \in BOOLEAN
    BY <2>1, Zenon DEF Die
  <2> QED
    BY <2>1, <2>2, <2>3, <2>4 DEF Die, ScannerReset, nodeVars, NodeTypeOK, PcValues, ZeroHash
<1>9. CASE NodeStep
  <2>1. NodeTypeOK' /\ Len(mainChain) <= Len(mainChain')
    BY <1>9, NodeTypeStep, MainChainGrows
  <2>2. newestHeight <= Len(mainChain) => newestHeight <= Len(mainChain')
    BY <2>1 DEF NodeTypeOK
  <2> QED
    BY <1>9, <2>1, <2>2 DEF NodeStep, storeVars, scannerVars, chainVars
<1>10. CASE UNCHANGED vars
  BY <1>10 DEF vars, nodeVars, storeVars, scannerVars, chainVars, NodeTypeOK
<1> QED
  BY <1>1, <1>2, <1>3, <1>4, <1>5, <1>6, <1>7, <1>8, <1>9, <1>10 DEF Next, ProgramStep

\* Every variable keeps its type in every behaviour of the virtual chain.
THEOREM TypeCorrect == Spec => []TypeOK
<1>1. TypeInv => TypeOK
  BY DEF TypeInv
<1> QED
  BY <1>1, TypeInit, TypeStep, PTL DEF Spec

-----------------------------------------------------------------------------
(* How Blocks changes: it stays, grows by NewBlock, or loses its last block. *)

LEMMA BlocksSame ==
  ASSUME UNCHANGED storeVars \/ IndexBlock
  PROVE  Blocks' = Blocks
BY Zenon DEF storeVars, IndexBlock, Blocks

LEMMA BlocksStore ==
  ASSUME TypeOK, AddBlock(NewBlock)
  PROVE  Blocks' = Append(Blocks, NewBlock) /\ Blocks = ledger
BY NewBlockType DEF AddBlock, Blocks

LEMMA BlocksReopen ==
  ASSUME TypeOK, Reopen
  PROVE  /\ pending' = NoBlock
         /\ Blocks' = ledger'
         /\ Blocks' = Blocks \/ Blocks' = ledger
BY DEF Reopen, Blocks

\* The indexed blocks are the first ones of Blocks.
LEMMA LedgerIsPrefix ==
  ASSUME TypeOK
  PROVE  /\ Len(ledger) \in Nat /\ Len(Blocks) \in Nat
         /\ DOMAIN ledger = 1..Len(ledger) /\ DOMAIN Blocks = 1..Len(Blocks)
         /\ Len(ledger) <= Len(Blocks)
         /\ \A n \in DOMAIN ledger : n \in DOMAIN Blocks /\ Blocks[n] = ledger[n]
         /\ HashesOf(ledger) \subseteq HashesOf(Blocks)
         /\ pending = NoBlock => Blocks = ledger
<1>1. CASE pending = NoBlock
  BY <1>1 DEF TypeOK, Blocks
<1>2. CASE pending # NoBlock
  <2>1. Blocks = Append(ledger, pending) /\ ledger \in Seq(Block) /\ pending \in Block
    BY <1>2 DEF TypeOK, Blocks
  <2>2. HashesOf(ledger) \subseteq HashesOf(Blocks)
    BY <2>1, HashesOfAppend
  <2> QED
    BY <1>2, <2>1, <2>2
<1> QED
  BY <1>1, <1>2

-----------------------------------------------------------------------------
(* The node *)

LEMMA NodeInvInit == Init => NodeInv
BY NodeAssumption DEF Init, NodeInit, NodeInv, TxsIn

LEMMA NodeInvStep ==
  ASSUME TypeInv, NodeInv, [Next]_vars
  PROVE  NodeInv'
<1> USE DEF TypeInv, TypeOK, NodeTypeOK, NodeInv
<1>1. CASE UNCHANGED nodeVars
  BY <1>1 DEF nodeVars, TxsIn
<1>2. ASSUME NEW t \in Txs, Broadcast(t) \/ Drop(t) PROVE NodeInv'
  BY <1>2 DEF Broadcast, Drop, TxsIn
<1>3. ASSUME NEW block \in SUBSET Txs, Mine(block) PROVE NodeInv'
  <2>1. /\ mainChain' = Append(mainChain, block)
        /\ \A h \in DOMAIN mainChain : block \cap mainChain[h] = {}
        /\ mempool' = mempool \ block
    BY <1>3 DEF Mine, TxsIn
  <2>2. \A h \in DOMAIN mainChain' : \/ h \in DOMAIN mainChain /\ mainChain'[h] = mainChain[h]
                                     \/ h = Len(mainChain) + 1 /\ mainChain'[h] = block
    BY <2>1
  <2>3. \A g, h \in DOMAIN mainChain' : g # h => mainChain'[g] \cap mainChain'[h] = {}
    BY <2>1, <2>2
  <2>4. \A h \in DOMAIN mainChain' : mempool' \cap mainChain'[h] = {}
    BY <2>1, <2>2 DEF TxsIn
  <2> QED
    BY <2>1, <2>3, <2>4, NodeAssumption, SMTT(30) DEF TxsIn
<1>4. ASSUME NEW b1 \in SUBSET Txs, NEW b2 \in SUBSET Txs, Reorg(b1, b2) PROVE NodeInv'
  <2> DEFINE k == Len(mainChain)
  <2>1. /\ k \in Nat /\ k \in DOMAIN mainChain
        /\ mainChain' = Append([mainChain EXCEPT ![k] = b1], b2)
        /\ b1 \cap b2 = {}
        /\ mempool' = (mempool \cup mainChain[k]) \ (b1 \cup b2)
    BY <1>4, NodeAssumption DEF Reorg
  <2>2. \A h \in DOMAIN mainChain : h # k => (b1 \cup b2) \cap mainChain[h] = {}
    BY <1>4, <2>1 DEF Reorg, TxsIn
  <2>3. \A h \in DOMAIN mainChain' :
          \/ h \in DOMAIN mainChain /\ h # k /\ mainChain'[h] = mainChain[h]
          \/ h = k /\ mainChain'[h] = b1
          \/ h = k + 1 /\ mainChain'[h] = b2
    BY <2>1
  <2>4. \A g, h \in DOMAIN mainChain' : g # h => mainChain'[g] \cap mainChain'[h] = {}
    BY <2>1, <2>2, <2>3
  <2>5. \A h \in DOMAIN mainChain' : mempool' \cap mainChain'[h] = {}
    BY <2>1, <2>2, <2>3, SMTT(30) DEF TxsIn
  <2> QED
    BY <1>4, <2>1, <2>4, <2>5, NodeAssumption DEF TxsIn
<1>5. CASE NodeStep
  BY <1>2, <1>3, <1>4, <1>5, Zenon DEF NodeStep, NodeNext
<1> QED
  BY <1>1, <1>5, Zenon DEF Next, ProgramStep, Start, Tick, Scan, SkipRound, StoreNewBlock,
     SendChainEvent, SendLogs, Index, Crash, Panic, Die, vars

-----------------------------------------------------------------------------
(* Control and the shape of the virtual chain *)

LEMMA ControlInit == Init => ControlInv /\ ShapeInv
<1> SUFFICES ASSUME Init PROVE ControlInv /\ ShapeInv
  OBVIOUS
<1>1. Blocks = <<>> /\ pending = NoBlock /\ pc = "down" /\ newModbTxs = <<>>
  BY DEF Init, StoreInit, Blocks
<1>2. DOMAIN Blocks = {}
  BY <1>1
<1>3. ControlInv
  BY <1>1, HashesEmpty DEF Init, ControlInv, Scanning
<1>4. ShapeInv
  BY <1>1, <1>2 DEF ShapeInv, ChainIsLinear
<1> QED
  BY <1>3, <1>4

\* The scanner keeps to its own variables and to the main chain it has seen.
LEMMA ControlScan ==
  ASSUME TypeInv, NodeInv, ControlInv, ShapeInv, Scan
  PROVE  ControlInv'
<1> USE DEF TypeInv, TypeOK, NodeTypeOK, ControlInv, Scanning
<1>0. Blocks' = Blocks /\ UNCHANGED <<mainChain, ledger, pending, currentBlockHeight>>
  BY BlocksSame DEF Scan, storeVars, nodeVars, chainVars
<1>1. CASE ReadBlockCount
  BY <1>0, <1>1, ZenonT(30) DEF ReadBlockCount
<1>2. CASE ReadBlock
  BY <1>0, <1>2, SMTT(30) DEF ReadBlock
<1>3. ASSUME NEW t \in todo, SkipBlockTx(t) PROVE ControlInv'
  BY <1>0, <1>3 DEF SkipBlockTx
<1>4. ASSUME NEW t \in todo, CollectBlockTx(t) PROVE ControlInv'
  <2>1. Hashes(newModbTxs') = Hashes(newModbTxs) \cup {t}
    <3>1. Converted(t) \in DerivedTx /\ Converted(t).hash = t
      BY ZenonT(30) DEF Converted, DerivedTx
    <3> QED
      BY <1>4, <3>1, HashesAppend DEF CollectBlockTx
  <2> QED
    BY <1>0, <1>4, <2>1, ZenonT(30) DEF CollectBlockTx
<1>5. CASE FinishBlock
  <2>1. Blocks # <<>> => Blocks[Len(Blocks)].gasUsed \in Nat
    <3>1. Blocks # <<>> => Len(Blocks) \in DOMAIN Blocks
      BY BlocksType
    <3> QED
      BY <3>1, BlockFields
  <2>2. /\ latestScanBlockHeight + 1 <= Len(mainChain)
        /\ Blocks # <<>> => Blocks[Len(Blocks)].gasUsed <= latestScanBlockHeight + 1
    BY <1>5, <2>1, SMTT(30) DEF FinishBlock
  <2> QED
    BY <1>0, <1>5, <2>2, NodeAssumption DEF FinishBlock
<1>6. CASE FinishScan
  BY <1>0, <1>6, ZenonT(30) DEF FinishScan, scannerVars
<1>7. CASE ReadMempool
  BY <1>0, <1>7, ZenonT(30) DEF ReadMempool
<1>8. ASSUME NEW t \in todo, SkipMempoolTx(t) \/ FailMempoolTx(t) \/ RejectMempoolTx(t)
      PROVE  ControlInv'
  BY <1>0, <1>8, ZenonT(30) DEF SkipMempoolTx, FailMempoolTx, RejectMempoolTx
<1>9. ASSUME NEW t \in todo, CollectMempoolTx(t) PROVE ControlInv'
  <2>1. Hashes(newModbTxs') = Hashes(newModbTxs) \cup {t}
    <3>1. Converted(t) \in DerivedTx /\ Converted(t).hash = t
      BY DEF Converted, DerivedTx
    <3> QED
      BY <1>9, <3>1, HashesAppend, ZenonT(30) DEF CollectMempoolTx
  <2> QED
    BY <1>0, <1>9, <2>1, ZenonT(30) DEF CollectMempoolTx
<1>10. CASE FinishMempool
  BY <1>0, <1>10, ZenonT(30) DEF FinishMempool, scannerVars
<1> QED
  BY <1>1, <1>2, <1>3, <1>4, <1>5, <1>6, <1>7, <1>8, <1>9, <1>10, Zenon DEF Scan, ScannerStep

LEMMA ControlStep ==
  ASSUME TypeInv, NodeInv, ControlInv, ShapeInv, [Next]_vars
  PROVE  ControlInv'
<1> USE DEF TypeInv, TypeOK, ControlInv, Scanning
<1>1. CASE Start
  <2>1. Blocks = ledger /\ Blocks' = Blocks /\ UNCHANGED <<mainChain, pending>>
    BY <1>1, BlocksSame, ZenonT(30) DEF Start, Blocks, nodeVars, storeVars
  <2>2. CASE ledger = <<>>
    <3>1. currentBlockHeight' = 0 /\ latestScanBlockHeight' = GenesisMainChainBlockHeight
      BY <1>1, <2>2, Zenon DEF Start, GetLatestBlockInfo
    <3>2. Len(Blocks') = 0 /\ Blocks' = <<>>
      BY <2>1, <2>2
    <3>3. /\ GenesisMainChainBlockHeight <= Len(mainChain')
          /\ GenesisMainChainBlockHeight <= GenesisMainChainBlockHeight
      BY <2>1, NodeAssumption DEF NodeInv
    <3>4. pc = "down" /\ pc' = "count" /\ UNCHANGED <<newModbTxs, todo>>
      BY <1>1, Zenon DEF Start, EnterGenerate
    <3> QED
      BY <2>1, <3>1, <3>2, <3>3, <3>4
  <2>3. CASE ledger # <<>>
    <3> DEFINE last == ledger[Len(ledger)]
    <3>1. Len(ledger) \in DOMAIN Blocks /\ last \in Block /\ last = Blocks[Len(Blocks)]
      BY <2>1, <2>3
    <3>2. last.gasUsed \in Nat
      BY <3>1, Zenon DEF Block
    <3>3. GenesisMainChainBlockHeight <= last.gasUsed /\ last.gasUsed <= Len(mainChain)
      BY <2>1, <3>1, ZenonT(30) DEF ShapeInv, ChainIsLinear
    <3>4. currentBlockHeight' = Len(ledger) /\ latestScanBlockHeight' = last.gasUsed
      BY <1>1, <2>3, <3>2, <3>3, NodeAssumption, SMTT(30) DEF Start, GetLatestBlockInfo
    <3>5. Blocks'[Len(Blocks')].gasUsed <= latestScanBlockHeight'
      BY <2>1, <3>1, <3>2, <3>4, SMTT(30)
    <3> QED
      BY <1>1, <2>1, <3>3, <3>4, <3>5 DEF Start, EnterGenerate
  <2> QED
    BY <2>2, <2>3, ZenonT(30)
<1>2. CASE Tick
  <2>1. Blocks' = Blocks
    BY <1>2, BlocksSame, ZenonT(30) DEF Tick
  <2> QED
    BY <1>2, <2>1, ZenonT(30) DEF Tick, EnterGenerate, nodeVars, storeVars, scannerVars
<1>3. CASE Scan
  BY <1>3, ControlScan, ZenonT(30)
<1>4. CASE SkipRound
  <2>1. Blocks' = Blocks
    BY <1>4, BlocksSame DEF SkipRound
  <2> QED
    BY <1>4, <2>1, HashesEmpty DEF SkipRound, ScannerReset, nodeVars, storeVars, chainVars
<1>5. CASE StoreNewBlock
  <2>1. Blocks' = Append(Blocks, NewBlock) /\ Blocks \in Seq(Block)
    BY <1>5, BlocksStore, BlocksType, ZenonT(30) DEF StoreNewBlock
  <2>2. Len(Blocks') = Len(Blocks) + 1 /\ Blocks'[Len(Blocks')] = NewBlock
    BY <2>1, SMTT(30)
  <2>3. NewBlock.gasUsed = latestScanBlockHeight
    BY ZenonT(30) DEF NewBlock
  <2> QED
    BY <1>5, <2>1, <2>2, <2>3, HashesEmpty, SMTT(30) DEF StoreNewBlock, ScannerReset, nodeVars
<1>6. CASE SendChainEvent \/ SendLogs
  <2>1. Blocks' = Blocks
    BY <1>6, BlocksSame DEF SendChainEvent, SendLogs
  <2> QED
    BY <1>6, <2>1, ZenonT(30) DEF SendChainEvent, SendLogs, nodeVars, storeVars, scannerVars
<1>7. CASE Index
  <2>1. Blocks' = Blocks
    BY <1>7, BlocksSame, ZenonT(30) DEF Index
  <2> QED
    BY <1>7, <2>1 DEF Index, IndexBlock, nodeVars, scannerVars, chainVars
<1>8. CASE Crash \/ Panic
  BY <1>8, HashesEmpty, ZenonT(30) DEF Crash, Panic, Die, Reopen, ScannerReset
<1>9. CASE NodeStep
  <2>1. Blocks' = Blocks /\ Len(mainChain) <= Len(mainChain')
    BY <1>9, BlocksSame, MainChainGrows, ZenonT(30) DEF NodeStep
  <2>2. Len(mainChain) \in Nat /\ Len(mainChain') \in Nat
    BY <1>9, NodeTypeStep DEF NodeTypeOK
  <2>3. latestScanBlockHeight <= Len(mainChain) => latestScanBlockHeight <= Len(mainChain')
    BY <2>1, <2>2, SMTT(30)
  <2> QED
    BY <1>9, <2>1, <2>3, ZenonT(30) DEF NodeStep, storeVars, scannerVars, chainVars
<1>10. CASE UNCHANGED vars
  BY <1>10, BlocksSame, ZenonT(30) DEF vars, nodeVars, storeVars, scannerVars, chainVars
<1> QED
  BY <1>1, <1>2, <1>3, <1>4, <1>5, <1>6, <1>7, <1>8, <1>9, <1>10, ZenonT(30) DEF Next, ProgramStep

LEMMA ShapeStep ==
  ASSUME TypeInv, NodeInv, ControlInv, ShapeInv, [Next]_vars
  PROVE  ShapeInv'
<1> USE DEF TypeInv
<1>0. Len(mainChain) \in Nat /\ Len(mainChain') \in Nat /\ Len(mainChain) <= Len(mainChain')
  <2>1. NodeStep \/ UNCHANGED nodeVars
    BY Zenon DEF Next, ProgramStep, Start, Tick, Scan, SkipRound, StoreNewBlock,
       SendChainEvent, SendLogs, Index, Crash, Panic, Die, vars
  <2>2. NodeTypeOK /\ NodeTypeOK'
    <3>1. TypeInv'
      BY TypeStep
    <3> QED
      BY <3>1 DEF TypeOK
  <2>3. Len(mainChain) \in Nat /\ Len(mainChain') \in Nat
    BY <2>2, SMTT(30) DEF NodeTypeOK
  <2> QED
    BY <2>1, <2>2, <2>3, MainChainGrows
<1>4. \A n \in DOMAIN Blocks : Blocks[n].gasUsed <= Len(mainChain')
  <2> SUFFICES ASSUME NEW n \in DOMAIN Blocks PROVE Blocks[n].gasUsed <= Len(mainChain')
    OBVIOUS
  <2>1. Blocks[n].gasUsed \in Nat
    BY BlockFields, Zenon
  <2>2. Blocks[n].gasUsed <= Len(mainChain)
    BY Zenon DEF ShapeInv, ChainIsLinear
  <2> QED
    BY <1>0, <2>1, <2>2
<1>1. CASE Blocks' = Blocks /\ (UNCHANGED storeVars \/ IndexBlock)
  <2>1. pending' # NoBlock => pending'.number = Len(ledger') + 1
    BY <1>1 DEF ShapeInv, storeVars, IndexBlock
  <2> QED
    BY <1>1, <1>4, <2>1, ZenonT(30) DEF ShapeInv, ChainIsLinear
<1>2. CASE StoreNewBlock
  <2>1. /\ Blocks' = Append(Blocks, NewBlock) /\ Blocks = ledger /\ Blocks \in Seq(Block)
        /\ ledger' = ledger /\ pending' = NewBlock /\ pc # "down"
        /\ NewBlock \in Block
    BY <1>2, BlocksStore, BlocksType, NewBlockType DEF StoreNewBlock, AddBlock
  <2>2. /\ NewBlock.number = Len(Blocks) + 1
        /\ NewBlock.hash = BlockHash(Len(Blocks))
        /\ NewBlock.gasUsed = latestScanBlockHeight
        /\ Hashes(NewBlock.txs) \subseteq Derivable
    BY <2>1 DEF NewBlock, ControlInv
  <2>3. \A n \in DOMAIN Blocks' : \/ n \in DOMAIN Blocks /\ Blocks'[n] = Blocks[n]
                                  \/ n = Len(Blocks) + 1 /\ Blocks'[n] = NewBlock
    BY <2>1, SMTT(30)
  <2>4. \A n \in DOMAIN Blocks' :
          /\ Blocks'[n].number = n
          /\ Blocks'[n].hash = BlockHash(n - 1)
    BY <2>1, <2>2, <2>3, SMTT(30) DEF ShapeInv, ChainIsLinear, BlockHash
  <2>5. \A n \in DOMAIN Blocks' : Blocks'[n].gasUsed <= Len(mainChain')
    BY <1>0, <2>1, <2>2, <2>3, BlockFields, SMTT(30) DEF ShapeInv, ChainIsLinear, ControlInv, TypeOK
  <2>6. \A n \in DOMAIN Blocks' : n > 1 => Blocks'[n - 1].gasUsed <= Blocks'[n].gasUsed
    <3> SUFFICES ASSUME NEW n \in DOMAIN Blocks', n > 1
                 PROVE  Blocks'[n - 1].gasUsed <= Blocks'[n].gasUsed
      OBVIOUS
    <3>1. n - 1 \in DOMAIN Blocks /\ Blocks'[n - 1] = Blocks[n - 1]
      BY <2>1
    <3>2. CASE n \in DOMAIN Blocks
      BY <2>1, <2>3, <3>1, <3>2 DEF ShapeInv, ChainIsLinear
    <3>3. CASE n = Len(Blocks) + 1
      BY <2>1, <2>2, <3>1, <3>3, SMTT(30) DEF ControlInv
    <3> QED
      BY <2>3, <3>2, <3>3
  <2>7. \A n \in DOMAIN Blocks' :
          /\ GenesisMainChainBlockHeight <= Blocks'[n].gasUsed
          /\ Hashes(Blocks'[n].txs) \subseteq Derivable
    BY <2>1, <2>2, <2>3 DEF ShapeInv, ControlInv
  <2> QED
    BY <2>1, <2>2, <2>4, <2>5, <2>6, <2>7, ZenonT(30) DEF ShapeInv, ChainIsLinear
<1>3. CASE Crash \/ Panic
  <2>1. pending' = NoBlock /\ (Blocks' = Blocks \/ Blocks' = ledger)
    BY <1>3, BlocksReopen DEF Crash, Panic, Die
  <2>2. \A n \in DOMAIN Blocks' :
          /\ n \in DOMAIN Blocks /\ Blocks'[n] = Blocks[n]
          /\ n > 1 => Blocks'[n - 1] = Blocks[n - 1]
    BY <2>1, LedgerIsPrefix, SMTT(30)
  <2> QED
    BY <1>4, <2>1, <2>2, Zenon DEF ShapeInv, ChainIsLinear
<1> QED
  BY <1>1, <1>2, <1>3, BlocksSame, Zenon DEF Next, ProgramStep, Start, Tick, Scan, SkipRound,
     SendChainEvent, SendLogs, Index, NodeStep, vars

-----------------------------------------------------------------------------
(* Nothing scanned is lost *)

LEMMA RecordInit == Init => RecordInv
<1> SUFFICES ASSUME Init PROVE RecordInv
  OBVIOUS
<1>1. Blocks = <<>> /\ pc = "down" /\ knownTxCache = {}
  BY DEF Init, StoreInit, Blocks
<1> QED
  BY <1>1 DEF RecordInv, ScannedIsRecorded, CacheIsSound

\* In terms of positions: t is in Blocks iff it is in one of its blocks.
LEMMA InBlocks ==
  ASSUME TypeOK, NEW t
  PROVE  t \in HashesOf(Blocks) <=> \E m \in 1..Len(Blocks) : t \in Hashes(Blocks[m].txs)
BY LedgerIsPrefix, ZenonT(30) DEF HashesOf

\* What a step may do to the main chain when no reorganisation has happened.
LEMMA StableChain ==
  ASSUME TypeInv, [Next]_vars, reorgs' = 0
  PROVE  /\ reorgs = 0
         /\ \A h \in DOMAIN mainChain : h \in DOMAIN mainChain' /\ mainChain'[h] = mainChain[h]
<1> USE DEF TypeInv, TypeOK, NodeTypeOK
<1>1. CASE UNCHANGED nodeVars
  BY <1>1, ZenonT(30) DEF nodeVars
<1>2. ASSUME NEW t \in Txs, Broadcast(t) \/ Drop(t) PROVE UNCHANGED <<mainChain, reorgs>>
  BY <1>2, ZenonT(30) DEF Broadcast, Drop
<1>3. ASSUME NEW block \in SUBSET Txs, Mine(block)
      PROVE  /\ reorgs = 0
             /\ \A h \in DOMAIN mainChain : h \in DOMAIN mainChain' /\ mainChain'[h] = mainChain[h]
  BY <1>3 DEF Mine
<1>4. ASSUME NEW b1 \in SUBSET Txs, NEW b2 \in SUBSET Txs, Reorg(b1, b2) PROVE FALSE
  BY <1>4 DEF Reorg
<1>5. CASE NodeStep
  BY <1>2, <1>3, <1>4, <1>5 DEF NodeStep, NodeNext
<1> QED
  BY <1>1, <1>5, Zenon DEF Next, ProgramStep, Start, Tick, Scan, SkipRound, StoreNewBlock,
     SendChainEvent, SendLogs, Index, Crash, Panic, Die, vars

\* A scanner step adds to the block being built what it adds to the cache,
\* and passes over a derivable transaction only if it is recorded.
LEMMA RecordScan ==
  ASSUME TypeInv, ControlInv, RecordInv, Scan
  PROVE  RecordInv'
<1> DEFINE R == HashesOf(Blocks) \cup Hashes(newModbTxs)
<1> USE DEF TypeInv, TypeOK, NodeTypeOK
<1>0. Blocks' = Blocks /\ UNCHANGED <<mainChain, reorgs>>
  BY BlocksSame, ZenonT(30) DEF Scan, nodeVars
<1>1. ScannedIsRecorded'
  BY <1>0, ZenonT(30) DEF RecordInv, ScannedIsRecorded
<1>2. ASSUME NEW t, Seen(t), t \in Derivable PROVE t \in R
  BY <1>2, LedgerIsPrefix DEF Seen, isKnownTx, IsTxMined, RecordInv, CacheIsSound
<1>3. ASSUME NEW t \in todo, newModbTxs' = Append(newModbTxs, Converted(t))
      PROVE  R' = R \cup {t}
  <2>1. Converted(t) \in DerivedTx /\ Converted(t).hash = t
    BY DEF Converted, DerivedTx
  <2> QED
    BY <1>0, <1>3, <2>1, HashesAppend, ZenonT(30)
<1>4. ASSUME NEW t, AddKnownTx(t) PROVE knownTxCache' \subseteq knownTxCache \cup {t}
  BY <1>4, ZenonT(30) DEF AddKnownTx
<1>5. CASE ReadBlockCount
  BY <1>0, <1>1, <1>5, ZenonT(30) DEF ReadBlockCount, RecordInv, CacheIsSound
<1>6. CASE ReadBlock
  BY <1>0, <1>1, <1>6, ZenonT(30) DEF ReadBlock, GetBlockVerboseTx, RecordInv, CacheIsSound
<1>7. ASSUME NEW t \in todo, SkipBlockTx(t) PROVE RecordInv'
  BY <1>0, <1>1, <1>2, <1>7, ZenonT(30) DEF SkipBlockTx, RecordInv, CacheIsSound
<1>8. ASSUME NEW t \in todo, CollectBlockTx(t) PROVE RecordInv'
  <2>1. R' = R \cup {t}
    BY <1>3, <1>8, ZenonT(30) DEF CollectBlockTx
  <2> QED
    BY <1>0, <1>1, <1>8, <2>1, ZenonT(30) DEF CollectBlockTx, RecordInv, CacheIsSound
<1>9. CASE FinishBlock
  BY <1>0, <1>1, <1>9, NodeAssumption, SMTT(30) DEF FinishBlock, RecordInv, CacheIsSound
<1>10. CASE FinishScan \/ FinishMempool
  BY <1>0, <1>1, <1>10, ZenonT(30) DEF FinishScan, FinishMempool, scannerVars, RecordInv, CacheIsSound
<1>11. CASE ReadMempool
  BY <1>0, <1>1, <1>11, ZenonT(30) DEF ReadMempool, RecordInv, CacheIsSound
<1>12. ASSUME NEW t \in todo, SkipMempoolTx(t) \/ FailMempoolTx(t) PROVE RecordInv'
  BY <1>0, <1>1, <1>12, ZenonT(30) DEF SkipMempoolTx, FailMempoolTx, RecordInv, CacheIsSound
<1>13. ASSUME NEW t \in todo, RejectMempoolTx(t) PROVE RecordInv'
  BY <1>0, <1>1, <1>4, <1>13, SMTT(90) DEF RejectMempoolTx, RecordInv, CacheIsSound
<1>14. ASSUME NEW t \in todo, CollectMempoolTx(t) PROVE RecordInv'
  <2>1. R' = R \cup {t} /\ knownTxCache' \subseteq knownTxCache \cup {t}
    BY <1>3, <1>4, <1>14, ZenonT(30) DEF CollectMempoolTx
  <2> QED
    BY <1>0, <1>1, <1>14, <2>1, Zenon DEF CollectMempoolTx, RecordInv, CacheIsSound
<1> QED
  BY <1>5, <1>6, <1>7, <1>8, <1>9, <1>10, <1>11, <1>12, <1>13, <1>14, ZenonT(30) DEF Scan, ScannerStep

LEMMA RecordStep ==
  ASSUME TypeInv, NodeInv, ControlInv, ShapeInv, RecordInv, [Next]_vars
  PROVE  RecordInv'
<1> DEFINE R == HashesOf(Blocks) \cup Hashes(newModbTxs)
           G == GenesisMainChainBlockHeight
<1> USE DEF TypeInv
<1>1. CASE Start
  <2>1. Blocks = ledger /\ Blocks' = Blocks /\ UNCHANGED <<mainChain, reorgs, knownTxCache, newModbTxs>>
    BY <1>1, BlocksSame, ZenonT(30) DEF Start, Blocks, nodeVars, storeVars, ControlInv
  <2>2. ScannedIsRecorded' /\ CacheIsSound'
    BY <2>1, ZenonT(30) DEF RecordInv, ScannedIsRecorded, CacheIsSound
  <2>3. ASSUME reorgs = 0, NEW h \in (G + 1)..latestScanBlockHeight'
        PROVE  mainChain[h] \cap Derivable \subseteq R
    <3>1. CASE ledger = <<>>
      BY <1>1, <2>3, <3>1, NodeAssumption, SMTT(30) DEF Start, GetLatestBlockInfo
    <3>2. CASE ledger # <<>>
      <4>1. Len(Blocks) \in DOMAIN Blocks
        BY <2>1, <3>2, BlocksType, SMTT(30)
      <4>2. G <= Blocks[Len(Blocks)].gasUsed /\ Blocks[Len(Blocks)].gasUsed \in Nat
        BY <4>1, BlockFields, ZenonT(30) DEF ShapeInv
      <4>3. latestScanBlockHeight' = Blocks[Len(Blocks)].gasUsed
        BY <1>1, <2>1, <3>2, <4>2, NodeAssumption, SMTT(60) DEF Start, GetLatestBlockInfo
      <4> QED
        BY <2>3, <4>1, <4>3, InBlocks DEF RecordInv, ScannedIsRecorded
    <3> QED
      BY <3>1, <3>2, ZenonT(30)
  <2>4. pc' = "count"
    BY <1>1, ZenonT(30) DEF Start, EnterGenerate
  <2> QED
    BY <2>1, <2>2, <2>3, <2>4, ZenonT(30) DEF RecordInv
<1>2. CASE Tick \/ SendChainEvent \/ SendLogs \/ SkipRound
  <2>1. /\ Blocks' = Blocks
        /\ UNCHANGED <<mainChain, reorgs, knownTxCache, newModbTxs, latestScanBlockHeight>>
        /\ pc' \notin {"blockTx"}
        /\ pc # "down"
    BY <1>2, BlocksSame
       DEF Tick, SendChainEvent, SendLogs, SkipRound, ScannerReset, EnterGenerate, nodeVars, scannerVars
  <2> QED
    BY <2>1 DEF RecordInv, ScannedIsRecorded, CacheIsSound
<1>3. CASE Scan
  BY <1>3, RecordScan, ZenonT(30)
<1>4. CASE StoreNewBlock
  <2>1. /\ Blocks' = Append(Blocks, NewBlock)
        /\ Blocks \in Seq(Block) /\ NewBlock \in Block
        /\ NewBlock.txs = newModbTxs
        /\ NewBlock.gasUsed = latestScanBlockHeight
        /\ UNCHANGED <<mainChain, reorgs, knownTxCache, latestScanBlockHeight>>
        /\ newModbTxs' = <<>> /\ pc' = "publish" /\ pc # "down"
    BY <1>4, BlocksStore, BlocksType, NewBlockType, ZenonT(30) DEF StoreNewBlock, ScannerReset, nodeVars, NewBlock
  <2>2. R' = R /\ HashesOf(Blocks') = R
    BY <2>1, HashesOfAppend, HashesEmpty, ZenonT(30)
  <2>3. ScannedIsRecorded'
    <3> SUFFICES ASSUME reorgs = 0, NEW n \in DOMAIN Blocks',
                        NEW h \in (G + 1)..(Blocks'[n].gasUsed),
                        NEW t \in mainChain[h] \cap Derivable
                 PROVE  \E m \in 1..n : t \in Hashes(Blocks'[m].txs)
      BY <2>1, ZenonT(30) DEF ScannedIsRecorded
    <3>1. CASE n \in DOMAIN Blocks
      <4>1. Blocks'[n] = Blocks[n] /\ \A m \in 1..n : Blocks'[m] = Blocks[m]
        BY <2>1, <3>1
      <4> QED
        BY <3>1, <4>1, ZenonT(30) DEF RecordInv, ScannedIsRecorded
    <3>2. CASE n = Len(Blocks) + 1
      <4>1. Blocks'[n] = NewBlock /\ t \in HashesOf(Blocks')
        BY <2>1, <2>2, <3>2, SMTT(30) DEF RecordInv
      <4>2. n = Len(Blocks')
        BY <2>1, <3>2
      <4>3. TypeOK'
        BY TypeStep, ZenonT(30)
      <4>4. HashesOf(Blocks') = UNION {Hashes(Blocks'[m].txs) : m \in 1..Len(Blocks')}
        BY <2>1, SMTT(30) DEF HashesOf
      <4> QED
        BY <4>1, <4>2, <4>4, ZenonT(30)
    <3>3. n \in DOMAIN Blocks \/ n = Len(Blocks) + 1
      BY <2>1
    <3> QED
      BY <3>1, <3>2, <3>3, Zenon
  <2> QED
    BY <2>1, <2>2, <2>3, Zenon DEF RecordInv, CacheIsSound
<1>5. CASE Index
  <2>1. Blocks' = Blocks
    BY <1>5, BlocksSame, ZenonT(30) DEF Index
  <2> QED
    BY <1>5, <2>1 DEF Index, nodeVars, scannerVars, RecordInv, ScannedIsRecorded, CacheIsSound
<1>6. CASE Crash \/ Panic
  <2>1. /\ Blocks' = Blocks \/ Blocks' = ledger
        /\ UNCHANGED <<mainChain, reorgs>>
        /\ knownTxCache' = {} /\ pc' = "down"
    BY <1>6, BlocksReopen DEF Crash, Panic, Die, nodeVars
  <2>2. \A n \in DOMAIN Blocks' : /\ n \in DOMAIN Blocks
                                  /\ \A m \in 1..n : Blocks'[m] = Blocks[m]
                                  /\ Blocks'[n] = Blocks[n]
    BY <2>1, LedgerIsPrefix, SMTT(30)
  <2>3. ScannedIsRecorded'
    <3> SUFFICES ASSUME reorgs = 0, NEW n \in DOMAIN Blocks',
                        NEW h \in (G + 1)..(Blocks'[n].gasUsed),
                        NEW t \in mainChain[h] \cap Derivable
                 PROVE  \E m \in 1..n : t \in Hashes(Blocks'[m].txs)
      BY <2>1, Zenon DEF ScannedIsRecorded
    <3>1. \E m \in 1..n : t \in Hashes(Blocks[m].txs)
      BY <2>2, ZenonT(30) DEF RecordInv, ScannedIsRecorded
    <3> QED
      BY <2>2, <3>1, ZenonT(30)
  <2> QED
    BY <2>1, <2>3 DEF RecordInv, CacheIsSound
<1>7. CASE NodeStep
  <2>1. Blocks' = Blocks /\ UNCHANGED <<pc, scannerVars>>
    BY <1>7, BlocksSame, ZenonT(30) DEF NodeStep
  <2>2. CacheIsSound'
    BY <2>1 DEF RecordInv, CacheIsSound, scannerVars
  <2>3. ASSUME reorgs' = 0
        PROVE  reorgs = 0 /\ \A h \in DOMAIN mainChain : mainChain'[h] = mainChain[h]
    BY <2>3, StableChain
  <2>4. DOMAIN mainChain = 1..Len(mainChain) /\ Len(mainChain) \in Nat
    BY SMTT(30) DEF TypeOK, NodeTypeOK
  <2>5. ASSUME reorgs' = 0, NEW n \in DOMAIN Blocks, NEW h \in (G + 1)..Blocks[n].gasUsed
        PROVE  mainChain'[h] = mainChain[h]
    BY <2>3, <2>4, <2>5, BlockFields, NodeAssumption, SMTT(30) DEF ShapeInv, ChainIsLinear
  <2>6. ScannedIsRecorded'
    <3> SUFFICES ASSUME reorgs' = 0, NEW n \in DOMAIN Blocks,
                        NEW h \in (G + 1)..Blocks[n].gasUsed,
                        NEW t \in mainChain'[h] \cap Derivable
                 PROVE  \E m \in 1..n : t \in Hashes(Blocks[m].txs)
      BY <2>1 DEF ScannedIsRecorded
    <3>1. reorgs = 0 /\ t \in mainChain[h] \cap Derivable
      BY <2>3, <2>5, ZenonT(30)
    <3> QED
      BY <3>1 DEF RecordInv, ScannedIsRecorded
  <2>7. ASSUME reorgs' = 0, pc # "down", NEW h \in (G + 1)..latestScanBlockHeight
        PROVE  mainChain'[h] = mainChain[h]
    BY <2>3, <2>4, <2>7, NodeAssumption, SMTT(30) DEF ControlInv, TypeOK
  <2>8. ASSUME reorgs' = 0, pc = "blockTx"
        PROVE  mainChain'[latestScanBlockHeight + 1] = mainChain[latestScanBlockHeight + 1]
    BY <2>3, <2>4, <2>8, NodeAssumption, SMTT(30) DEF ControlInv, TypeOK
  <2> QED
    BY <2>1, <2>2, <2>3, <2>6, <2>7, <2>8 DEF RecordInv, scannerVars
<1>8. CASE UNCHANGED vars
  <2>1. Blocks' = Blocks
    BY <1>8, BlocksSame DEF vars
  <2> QED
    BY <1>8, <2>1 DEF vars, nodeVars, scannerVars, RecordInv, ScannedIsRecorded, CacheIsSound
<1> QED
  BY <1>1, <1>2, <1>3, <1>4, <1>5, <1>6, <1>7, <1>8, ZenonT(30) DEF Next, ProgramStep

\* A block's GasUsed is a true claim in every behaviour: what the main chain
\* holds up to that height, the virtual chain has recorded by that block.
\* collectMainChainBlockTxs, GenerateNewBlock and RecoveryFromDB keep it across
\* crashes, whether or not moeingdb keeps the block that is being indexed.
THEOREM ScannedRecorded == Spec => []ScannedIsRecorded
<1> DEFINE Inv == TypeInv /\ NodeInv /\ ControlInv /\ ShapeInv /\ RecordInv
<1>1. Init => Inv
  BY TypeInit, NodeInvInit, ControlInit, RecordInit
<1>2. Inv /\ [Next]_vars => Inv'
  BY TypeStep, NodeInvStep, ControlStep, ShapeStep, RecordStep, ZenonT(30)
<1>3. Inv => ScannedIsRecorded
  BY ZenonT(30) DEF RecordInv
<1> QED
  BY <1>1, <1>2, <1>3, PTL DEF Spec

\* knownTxCache never hides a derivable transaction that no virtual block has,
\* whatever AddKnownTx evicts.
THEOREM CacheSound == Spec => []CacheIsSound
<1> DEFINE Inv == TypeInv /\ NodeInv /\ ControlInv /\ ShapeInv /\ RecordInv
<1>1. Init => Inv
  BY TypeInit, NodeInvInit, ControlInit, RecordInit
<1>2. Inv /\ [Next]_vars => Inv'
  BY TypeStep, NodeInvStep, ControlStep, ShapeStep, RecordStep
<1>3. Inv => CacheIsSound
  BY DEF RecordInv
<1> QED
  BY <1>1, <1>2, <1>3, PTL DEF Spec

\* Virtual heights are consecutive and GasUsed is monotone, across restarts
\* and blocks that moeingdb lost.
THEOREM LinearChain == Spec => []ChainIsLinear
<1> DEFINE Inv == TypeInv /\ NodeInv /\ ControlInv /\ ShapeInv
<1>1. Init => Inv
  BY TypeInit, NodeInvInit, ControlInit
<1>2. Inv /\ [Next]_vars => Inv'
  BY TypeStep, NodeInvStep, ControlStep, ShapeStep
<1>3. Inv => ChainIsLinear
  BY DEF ShapeInv
<1> QED
  BY <1>1, <1>2, <1>3, PTL DEF Spec

-----------------------------------------------------------------------------
(* What publishNewBlock has told the subscribers: it is never taken back,  *)
(* and it is never behind.                                                 *)

Newest == Blocks[Len(Blocks)]

\* Between rounds, or in one that may end without a block.
Quiet == pc = "idle" \/ (pc \in Scanning /\ ~scanBlock)

PublishInv ==
  /\ AnnouncedIsFinal
  /\ Quiet => announced = Newest /\ (announced.txs # <<>> => logged = announced)
  /\ pc = "publishLogs" => announced = Newest

LEMMA StoredIsNewest ==
  ASSUME TypeInv, ShapeInv, pc \in {"publish", "publishLogs"}
  PROVE  /\ StoredBlock = Newest
         /\ Newest.number \in DOMAIN Blocks /\ Blocks[Newest.number] = Newest
<1>1. StoredBlock = Newest /\ Blocks # <<>>
  BY DEF TypeInv, TypeOK, StoredBlock, Newest, Blocks
<1>2. Len(Blocks) \in DOMAIN Blocks
  BY <1>1, BlocksType, LedgerIsPrefix DEF TypeInv
<1> QED
  BY <1>1, <1>2 DEF ShapeInv, ChainIsLinear, Newest

\* A step keeps every block that moeingdb keeps.
LEMMA BlocksKept ==
  ASSUME TypeInv, [Next]_vars, AddBlockDurable
  PROVE  \A n \in DOMAIN Blocks : n \in DOMAIN Blocks' /\ Blocks'[n] = Blocks[n]
<1> USE DEF TypeInv
<1>1. CASE UNCHANGED storeVars \/ IndexBlock
  BY <1>1, BlocksSame
<1>2. CASE AddBlock(NewBlock)
  <2>1. Blocks \in Seq(Block) /\ Blocks' = Append(Blocks, NewBlock)
    BY <1>2, BlocksStore, BlocksType
  <2> QED
    BY <2>1
<1>3. CASE Reopen
  <2>1. Blocks' = Blocks
    BY <1>3, NoBlockType DEF Reopen, Blocks
  <2> QED
    BY <2>1
<1> QED
  BY <1>1, <1>2, <1>3, Zenon DEF Next, ProgramStep, Start, Tick, Scan, SkipRound, StoreNewBlock,
     SendChainEvent, SendLogs, Index, Crash, Panic, Die, NodeStep, vars

LEMMA PublishInit == Init => PublishInv
BY ZenonT(30) DEF Init, PublishInv, AnnouncedIsFinal, Quiet, Scanning

LEMMA PublishStep ==
  ASSUME TypeInv, ShapeInv, PublishInv, [Next]_vars
  PROVE  PublishInv'
<1>1. CASE SendChainEvent
  <2>1. /\ announced' = Newest /\ UNCHANGED <<logged, storeVars>>
        /\ pc' = IF Newest.txs = <<>> THEN "idle" ELSE "publishLogs"
    BY <1>1, StoredIsNewest DEF SendChainEvent
  <2>2. Blocks' = Blocks /\ Newest' = Newest
    BY <2>1, BlocksSame, ZenonT(30) DEF Newest
  <2>3. AnnouncedIsFinal'
    BY <1>1, <2>1, <2>2, StoredIsNewest DEF PublishInv, AnnouncedIsFinal, SendChainEvent
  <2> QED
    BY <2>1, <2>2, <2>3 DEF PublishInv, Quiet, Scanning
<1>2. CASE SendLogs
  <2>1. logged' = Newest /\ announced' = announced /\ announced = Newest /\ pc' = "idle" /\ UNCHANGED storeVars
    BY <1>2, StoredIsNewest DEF SendLogs, PublishInv
  <2>2. Blocks' = Blocks /\ Newest' = Newest
    BY <2>1, BlocksSame DEF Newest
  <2>3. AnnouncedIsFinal'
    BY <1>2, <2>1, <2>2, StoredIsNewest DEF PublishInv, AnnouncedIsFinal, SendLogs
  <2> QED
    BY <2>1, <2>2, <2>3 DEF PublishInv
<1>3. CASE UNCHANGED <<announced, logged>>
  <2>0. AnnouncedIsFinal'
    BY <1>3, BlocksKept DEF PublishInv, AnnouncedIsFinal
  <2>1. ASSUME UNCHANGED storeVars \/ IndexBlock, Quiet' => Quiet, pc' = "publishLogs" => pc = "publishLogs"
        PROVE  PublishInv'
    <3>1. Newest' = Newest
      BY <2>1, BlocksSame, ZenonT(30) DEF Newest
    <3> QED
      BY <1>3, <2>0, <2>1, <3>1 DEF PublishInv
  <2>2. CASE Start
    BY <2>0, <2>2 DEF Start, EnterGenerate, PublishInv, Quiet
  <2>3. CASE Tick
    BY <2>1, <2>3 DEF Tick, EnterGenerate, Quiet
  <2>4. CASE Scan
    <3>1. pc \in Scanning /\ pc' \in Scanning
      BY <2>4, ZenonT(30) DEF Scan, ScannerStep, ReadBlockCount, ReadBlock, SkipBlockTx, CollectBlockTx, FinishBlock,
         FinishScan, ReadMempool, SkipMempoolTx, FailMempoolTx, RejectMempoolTx, CollectMempoolTx, FinishMempool, Scanning
    <3> QED
      BY <2>1, <2>4, <3>1, ZenonT(30) DEF Scan, chainVars, Quiet, Scanning
  <2>5. CASE SkipRound
    BY <2>1, <2>5, ZenonT(30) DEF SkipRound, chainVars, Quiet, Scanning
  <2>6. CASE StoreNewBlock \/ Crash \/ Panic
    BY <2>0, <2>6 DEF StoreNewBlock, Crash, Panic, Die, PublishInv, Quiet, Scanning
  <2>7. CASE Index \/ NodeStep \/ UNCHANGED vars
    BY <2>1, <2>7 DEF Index, NodeStep, vars, chainVars, Quiet
  <2> QED
    BY <1>1, <1>2, <2>2, <2>3, <2>4, <2>5, <2>6, <2>7, ZenonT(30) DEF Next, ProgramStep
<1> QED
  BY <1>1, <1>2, <1>3 DEF Next, ProgramStep, Start, Tick, Scan, SkipRound, StoreNewBlock, Crash, Panic, Die,
     Index, NodeStep, chainVars, vars

\* A block that chainFeed or logsFeed has carried stays in the chain as it was
\* sent, over any number of rounds and crashes, if moeingdb keeps what AddBlock
\* took.
THEOREM AnnouncedStays == Spec => []AnnouncedIsFinal
<1> DEFINE Inv == TypeInv /\ NodeInv /\ ControlInv /\ ShapeInv /\ PublishInv
<1>1. Init => Inv
  BY TypeInit, NodeInvInit, ControlInit, PublishInit
<1>2. Inv /\ [Next]_vars => Inv'
  BY TypeStep, NodeInvStep, ControlStep, ShapeStep, PublishStep
<1>3. Inv => AnnouncedIsFinal
  BY ZenonT(30) DEF PublishInv
<1> HIDE DEF Inv
<1> QED
  BY <1>1, <1>2, <1>3, PTL DEF Spec

\* Whenever the loop waits for a tick, the newest block and its logs have been
\* sent, also after a restart and after rounds that made no block.
THEOREM NewestSent == Spec => []NewestIsAnnounced
<1> DEFINE Inv == TypeInv /\ NodeInv /\ ControlInv /\ ShapeInv /\ PublishInv
<1>1. Init => Inv
  BY TypeInit, NodeInvInit, ControlInit, PublishInit
<1>2. Inv /\ [Next]_vars => Inv'
  BY TypeStep, NodeInvStep, ControlStep, ShapeStep, PublishStep
<1>3. Inv => NewestIsAnnounced
  BY DEF PublishInv, NewestIsAnnounced, Quiet, Newest
<1> HIDE DEF Inv
<1> QED
  BY <1>1, <1>2, <1>3, PTL DEF Spec

-----------------------------------------------------------------------------
(* The order of the announcements *)

\* Of the blocks that moeingdb keeps, those not announced are one per crash
\* and the one about to be.
GapInv ==
  AddBlockDurable =>
    /\ announced.number <= Len(Blocks)
    /\ Len(Blocks) <= announced.number + crashes + (IF pc = "publish" THEN 1 ELSE 0)
    /\ pc = "publish" => announced.number < Len(Blocks)

LEMMA GapInit == Init => GapInv
BY DEF Init, StoreInit, GapInv, Blocks, NoBlock

\* A step that neither stores a block nor loses one.
LEMMA GapKept ==
  ASSUME TypeInv, GapInv, Blocks' = Blocks, UNCHANGED <<announced, crashes>>,
         pc # "publish", pc' # "publish"
  PROVE  GapInv'
BY DEF GapInv

LEMMA GapStep ==
  ASSUME TypeInv, ControlInv, ShapeInv, GapInv, [Next]_vars
  PROVE  GapInv'
<1> SUFFICES ASSUME AddBlockDurable PROVE GapInv'
  BY DEF GapInv
<1>0. announced.number \in Nat /\ crashes \in Nat /\ Len(Blocks) \in Nat
  <2>1. announced \in Block /\ crashes \in Nat
    BY ChainAssumption DEF TypeInv, TypeOK
  <2> QED
    BY <2>1, LedgerIsPrefix DEF TypeInv, Block
<1>1. CASE StoreNewBlock
  <2>1. Blocks' = Append(Blocks, NewBlock) /\ Blocks \in Seq(Block)
    BY <1>1, BlocksStore, BlocksType DEF StoreNewBlock, TypeInv
  <2>2. Len(Blocks') = Len(Blocks) + 1
    BY <2>1
  <2>3. pc = "emit" /\ pc' = "publish" /\ UNCHANGED <<announced, crashes>>
    BY <1>1 DEF StoreNewBlock
  <2> QED
    BY <1>0, <2>2, <2>3 DEF GapInv
<1>2. CASE SendChainEvent
  <2>1. announced' = Newest /\ Newest.number = Len(Blocks)
    <3>1. Len(Blocks) \in DOMAIN Blocks
      BY <1>2, LedgerIsPrefix, NoBlockType DEF SendChainEvent, TypeInv, TypeOK, Blocks
    <3> QED
      BY <1>2, <3>1, StoredIsNewest DEF SendChainEvent, ShapeInv, ChainIsLinear, Newest
  <2>2. Blocks' = Blocks /\ pc' # "publish" /\ UNCHANGED crashes
    BY <1>2, BlocksSame DEF SendChainEvent
  <2> QED
    BY <1>0, <2>1, <2>2 DEF GapInv
<1>3. CASE Crash
  <2>1. Blocks' = Blocks
    BY <1>3, NoBlockType DEF Crash, Die, Reopen, Blocks
  <2>2. pc' = "down" /\ crashes' = crashes + 1 /\ UNCHANGED announced
    BY <1>3 DEF Crash, Die
  <2> QED
    BY <1>0, <2>1, <2>2 DEF GapInv
<1>4. CASE Panic
  <2>1. Blocks' = Blocks
    BY <1>4, NoBlockType DEF Panic, Die, Reopen, Blocks
  <2>2. pc # "publish" /\ pc' = "down" /\ UNCHANGED <<announced, crashes>>
    BY <1>4, Zenon DEF Panic, Die, ControlInv
  <2> QED
    BY <2>1, <2>2, GapKept
<1>5. CASE Start \/ Tick \/ SkipRound \/ SendLogs
  <2>1. Blocks' = Blocks /\ UNCHANGED <<announced, crashes>>
    BY <1>5, BlocksSame, Zenon DEF Start, Tick, SkipRound, SendLogs, chainVars
  <2>2. pc # "publish" /\ pc' # "publish"
    BY <1>5, Zenon DEF Start, Tick, EnterGenerate, SkipRound, SendLogs
  <2> QED
    BY <2>1, <2>2, GapKept
<1>6. CASE Scan
  <2>1. Blocks' = Blocks /\ UNCHANGED <<announced, crashes>>
    BY <1>6, BlocksSame DEF Scan, chainVars
  <2>2. pc \in Scanning /\ pc' \in Scanning
    BY <1>6, ZenonT(30) DEF Scan, ScannerStep, ReadBlockCount, ReadBlock, SkipBlockTx, CollectBlockTx, FinishBlock,
       FinishScan, ReadMempool, SkipMempoolTx, FailMempoolTx, RejectMempoolTx, CollectMempoolTx, FinishMempool, Scanning
  <2>3. pc # "publish" /\ pc' # "publish"
    BY <2>2 DEF Scanning
  <2> QED
    BY <2>1, <2>3, GapKept
<1>7. CASE Index \/ NodeStep \/ UNCHANGED vars
  <2>1. Blocks' = Blocks
    BY <1>7, BlocksSame DEF Index, NodeStep, vars
  <2>2. UNCHANGED <<pc, announced, crashes>>
    BY <1>7 DEF Index, NodeStep, vars, chainVars
  <2> QED
    BY <2>1, <2>2 DEF GapInv
<1> QED
  BY <1>1, <1>2, <1>3, <1>4, <1>5, <1>6, <1>7, Zenon DEF Next, ProgramStep

\* chainFeed carries the blocks in order and none twice, over any number of
\* rounds, panics and reorganisations, and between two of them at most one
\* block is missing for each crash so far, if moeingdb keeps what AddBlock took.
THEOREM SentInOrder == Spec => AnnouncedInOrder
<1> DEFINE Inv == TypeInv /\ NodeInv /\ ControlInv /\ ShapeInv /\ GapInv
           InOrder == AddBlockDurable /\ announced' # announced =>
                        announced'.number \in (announced.number + 1)..(announced.number + 1 + crashes)
<1>1. Init => Inv
  BY TypeInit, NodeInvInit, ControlInit, GapInit
<1>2. Inv /\ [Next]_vars => Inv'
  BY TypeStep, NodeInvStep, ControlStep, ShapeStep, GapStep
<1>3. ASSUME Inv, [Next]_vars, AddBlockDurable, announced' # announced
      PROVE  announced'.number \in (announced.number + 1)..(announced.number + 1 + crashes)
  <2>1. SendChainEvent
    BY <1>3, Zenon DEF Next, ProgramStep, Start, Tick, Scan, SkipRound, StoreNewBlock, SendLogs,
       Index, Crash, Panic, Die, NodeStep, chainVars, vars
  <2>2. announced' = Newest /\ pc = "publish"
    BY <1>3, <2>1, StoredIsNewest DEF SendChainEvent
  <2>3. Len(Blocks) \in DOMAIN Blocks
    BY <1>3, <2>1, LedgerIsPrefix, NoBlockType DEF SendChainEvent, TypeInv, TypeOK, Blocks
  <2>4. announced'.number = Len(Blocks)
    BY <1>3, <2>2, <2>3 DEF ShapeInv, ChainIsLinear, Newest
  <2>5. announced.number \in Nat /\ crashes \in Nat /\ Len(Blocks) \in Nat
    <3>1. announced \in Block /\ crashes \in Nat
      BY <1>3, ChainAssumption DEF TypeInv, TypeOK
    <3> QED
      BY <1>3, <3>1, LedgerIsPrefix DEF TypeInv, Block
  <2>6. announced.number < Len(Blocks) /\ Len(Blocks) <= announced.number + crashes + 1
    BY <1>3, <2>2, <2>5 DEF GapInv
  <2> QED
    BY <2>4, <2>5, <2>6
<1>4. Inv /\ [Next]_vars => [InOrder]_vars
  BY <1>3
<1> HIDE DEF Inv
<1> QED
  BY <1>1, <1>2, <1>4, PTL DEF Spec, AnnouncedInOrder

-----------------------------------------------------------------------------
(* The scan never stalls: whatever MaxTxsInBlock leaves for later rounds,  *)
(* a block that scanned says more in GasUsed than the one before it, or    *)
(* has caught up with the node.                                            *)

LastScanned ==
  IF Blocks = <<>> THEN GenesisMainChainBlockHeight ELSE Blocks[Len(Blocks)].gasUsed

\* Between rounds the height in memory is the one on record; in a round that
\* scans it has moved when the round is about to end.
ScanInv ==
  /\ pc \in {"idle", "count", "publish", "publishLogs"} => latestScanBlockHeight = LastScanned
  /\ pc \in {"mempool", "mempoolTx", "emit"} /\ ~scanBlock => latestScanBlockHeight = LastScanned
  /\ pc \in {"mempool", "mempoolTx", "emit"} /\ scanBlock =>
       latestScanBlockHeight > LastScanned \/ latestScanBlockHeight >= newestHeight
  /\ pc \in {"nextBlock", "blockTx"} => scanBlock /\ latestScanBlockHeight >= LastScanned

\* Only a round that scans asks the node for its height.
CountScans == pc = "count" => scanBlock

LEMMA LastScannedType == TypeOK => LastScanned \in Nat
<1> SUFFICES ASSUME TypeOK PROVE LastScanned \in Nat
  OBVIOUS
<1>1. Blocks # <<>> => Len(Blocks) \in DOMAIN Blocks
  BY BlocksType
<1> QED
  BY <1>1, BlockFields, NodeAssumption DEF LastScanned

LEMMA ScanInvScan ==
  ASSUME TypeInv, ScanInv, CountScans, Scan
  PROVE  ScanInv' /\ CountScans'
<1> USE DEF ScanInv, CountScans
<1>0. /\ LastScanned' = LastScanned /\ scanBlock' = scanBlock
      /\ LastScanned \in Nat /\ latestScanBlockHeight \in Nat /\ newestHeight \in Nat
  BY BlocksSame, LastScannedType DEF Scan, chainVars, LastScanned, TypeInv, TypeOK
<1>1. CASE ReadBlockCount
  BY <1>0, <1>1 DEF ReadBlockCount
<1>2. CASE ReadBlock
  BY <1>0, <1>2 DEF ReadBlock
<1>3. ASSUME NEW t \in todo, SkipBlockTx(t) \/ CollectBlockTx(t) PROVE ScanInv' /\ CountScans'
  BY <1>0, <1>3 DEF SkipBlockTx, CollectBlockTx
<1>4. CASE FinishBlock
  BY <1>0, <1>4 DEF FinishBlock
<1>5. CASE FinishScan
  BY <1>0, <1>5 DEF FinishScan, scannerVars
<1>6. CASE ReadMempool
  BY <1>0, <1>6 DEF ReadMempool
<1>7. ASSUME NEW t \in todo, SkipMempoolTx(t) \/ FailMempoolTx(t) \/ RejectMempoolTx(t)
      PROVE  ScanInv' /\ CountScans'
  BY <1>0, <1>7 DEF SkipMempoolTx, FailMempoolTx, RejectMempoolTx
<1>8. ASSUME NEW t \in todo, CollectMempoolTx(t) PROVE ScanInv' /\ CountScans'
  BY <1>0, <1>8 DEF CollectMempoolTx
<1>9. CASE FinishMempool
  BY <1>0, <1>9 DEF FinishMempool, scannerVars
<1> QED
  BY <1>1, <1>2, <1>3, <1>4, <1>5, <1>6, <1>7, <1>8, <1>9, Zenon DEF Scan, ScannerStep

LEMMA ScanInvStep ==
  ASSUME TypeInv, ControlInv, ShapeInv, ScanInv, CountScans, [Next]_vars
  PROVE  ScanInv' /\ CountScans'
<1>1. CASE Start
  <2>1. Blocks = ledger /\ Blocks' = Blocks /\ pc' = "count" /\ scanBlock'
    BY <1>1, BlocksSame DEF Start, EnterGenerate, Blocks, ControlInv
  <2>2. LastScanned' = LastScanned
    BY <2>1, Zenon DEF LastScanned
  <2>3. CASE ledger = <<>>
    BY <1>1, <2>1, <2>2, <2>3 DEF Start, GetLatestBlockInfo, ScanInv, CountScans, LastScanned
  <2>4. CASE ledger # <<>>
    <3>1. Len(Blocks) \in DOMAIN Blocks
      BY <2>1, <2>4 DEF TypeInv, TypeOK
    <3>2. LastScanned = ledger[Len(ledger)].gasUsed
      BY <2>1, <2>4, Zenon DEF LastScanned
    <3>3. LastScanned \in Nat /\ GenesisMainChainBlockHeight <= LastScanned
      BY <2>1, <3>1, <3>2, LastScannedType DEF ShapeInv, TypeInv
    <3>4. latestScanBlockHeight' = IF LastScanned = 0 THEN GenesisMainChainBlockHeight ELSE LastScanned
      BY <1>1, <2>4, <3>2 DEF Start, GetLatestBlockInfo
    <3>5. latestScanBlockHeight' = LastScanned
      BY <3>3, <3>4, NodeAssumption
    <3> QED
      BY <2>1, <2>2, <3>5 DEF ScanInv, CountScans
  <2> QED
    BY <2>3, <2>4
<1>2. CASE Tick
  <2>1. LastScanned' = LastScanned /\ UNCHANGED latestScanBlockHeight
    BY <1>2, BlocksSame DEF Tick, LastScanned, scannerVars
  <2> QED
    BY <1>2, <2>1 DEF Tick, EnterGenerate, ScanInv, CountScans
<1>3. CASE Scan
  BY <1>3, ScanInvScan
<1>4. CASE SkipRound
  <2>1. LastScanned' = LastScanned /\ UNCHANGED latestScanBlockHeight
    BY <1>4, BlocksSame DEF SkipRound, LastScanned
  <2> QED
    BY <1>4, <2>1 DEF SkipRound, ScanInv, CountScans
<1>5. CASE StoreNewBlock
  <2>1. Blocks' = Append(Blocks, NewBlock) /\ Blocks \in Seq(Block)
    BY <1>5, BlocksStore, BlocksType DEF StoreNewBlock, TypeInv
  <2>2. LastScanned' = NewBlock.gasUsed
    BY <2>1 DEF LastScanned
  <2> QED
    BY <1>5, <2>2 DEF StoreNewBlock, NewBlock, ScanInv, CountScans
<1>6. CASE SendChainEvent \/ SendLogs
  <2>1. LastScanned' = LastScanned /\ UNCHANGED latestScanBlockHeight
    BY <1>6, BlocksSame DEF SendChainEvent, SendLogs, LastScanned, scannerVars
  <2> QED
    BY <1>6, <2>1 DEF SendChainEvent, SendLogs, ScanInv, CountScans
<1>7. CASE Crash \/ Panic
  BY <1>7 DEF Crash, Panic, Die, ScanInv, CountScans
<1>8. CASE Index \/ NodeStep \/ UNCHANGED vars
  <2>1. LastScanned' = LastScanned
    BY <1>8, BlocksSame DEF Index, NodeStep, vars, LastScanned
  <2>2. UNCHANGED <<pc, scanBlock, latestScanBlockHeight, newestHeight>>
    BY <1>8 DEF Index, NodeStep, vars, scannerVars, chainVars
  <2> QED
    BY <2>1, <2>2 DEF ScanInv, CountScans
<1> QED
  BY <1>1, <1>2, <1>3, <1>4, <1>5, <1>6, <1>7, <1>8, Zenon DEF Next, ProgramStep

\* GenerateNewBlock never stores a block of a scanning round that leaves the
\* scan where it was while the node has more: collectMainChainBlockTxs stops
\* at MaxTxsInBlock only behind a whole main chain block, also after crashes,
\* lost blocks and reorganisations.
THEOREM ScanAdvances ==
  Spec => [][StoreNewBlock /\ scanBlock =>
               NewBlock.gasUsed > LastScanned \/ NewBlock.gasUsed >= newestHeight]_vars
<1> DEFINE Inv == TypeInv /\ NodeInv /\ ControlInv /\ ShapeInv /\ ScanInv /\ CountScans
           Advance == NewBlock.gasUsed > LastScanned \/ NewBlock.gasUsed >= newestHeight
<1>1. Init => Inv
  <2>1. Init => ScanInv /\ CountScans
    BY DEF Init, ScanInv, CountScans
  <2> QED
    BY <2>1, TypeInit, NodeInvInit, ControlInit
<1>2. Inv /\ [Next]_vars => Inv'
  BY TypeStep, NodeInvStep, ControlStep, ShapeStep, ScanInvStep
<1>3. Inv /\ StoreNewBlock /\ scanBlock => Advance
  BY DEF ScanInv, StoreNewBlock, NewBlock
<1>4. Inv /\ [Next]_vars => [StoreNewBlock /\ scanBlock => Advance]_vars
  BY <1>3
<1> QED
  BY <1>1, <1>2, <1>4, PTL DEF Spec

=============================================================================
