----------------------------- MODULE BchScanner -----------------------------
(***************************************************************************)
(* scanner.BchScanner: GetNewTxs as the sequence of its node and store     *)
(* calls, between which the node moves on and the store indexes.           *)
(*                                                                         *)
(* convertUtxoInfoToTx is reduced to its three outcomes: a derived         *)
(* transaction, an error, or a panic.                                      *)
(***************************************************************************)
EXTENDS BchNode, ChainLogDB

CONSTANTS
  Derivable,     \* transactions convertUtxoInfoToTx converts
  Fatal,         \* transactions on which it panics
  MaxTxsInBlock,
  MaxCacheSize

ASSUME ScannerAssumption ==
  /\ Derivable \subseteq Txs
  /\ Fatal \subseteq Txs \ Derivable
  /\ MaxTxsInBlock \in Nat \ {0}
  /\ MaxCacheSize \in Nat

VARIABLES
  knownTxCache,           \* txids
  latestScanBlockHeight,
  newestHeight,           \* GetBlockCount at the start of the scan
  todo,                   \* transactions of the current block or mempool
                          \* listing that the loop has not reached
  newModbTxs,             \* derived transactions collected so far
  txIndex,
  pc                      \* where GenerateNewBlock and GetNewTxs are

scannerVars == <<knownTxCache, latestScanBlockHeight, newestHeight, todo,
                 newModbTxs, txIndex>>

ScannerReset ==
  /\ newestHeight' = 0
  /\ todo' = {}
  /\ newModbTxs' = <<>>
  /\ txIndex' = 0

isKnownTx(t) == t \in knownTxCache

\* A random entry makes room once the cache exceeds its limit.
AddKnownTx(t) ==
  \/ /\ Cardinality(knownTxCache) > MaxCacheSize
     /\ \E e \in knownTxCache : knownTxCache' = (knownTxCache \ {e}) \cup {t}
  \/ /\ Cardinality(knownTxCache) <= MaxCacheSize
     /\ knownTxCache' = knownTxCache \cup {t}

\* Mutant: the store is not asked.
SeenCacheOnly(t) == isKnownTx(t)

\* The two checks both loops start with.
Seen(t) == isKnownTx(t) \/ IsTxMined(t)

\* Mutant: the index of the transaction before.
ConvertedOffByOne(t) == [hash |-> t, index |-> txIndex - 1]

Converted(t) == [hash |-> t, index |-> txIndex]

\* Mutant: > for >=.
FullOffByOne(txs) == Len(txs) > MaxTxsInBlock

Full(txs) == Len(txs) >= MaxTxsInBlock

-----------------------------------------------------------------------------
(* collectMainChainBlockTxs *)

ReadBlockCount ==
  /\ pc = "count"
  /\ newestHeight' = GetBlockCount
  /\ pc' = "nextBlock"
  /\ UNCHANGED <<knownTxCache, latestScanBlockHeight, todo, newModbTxs, txIndex>>

ReadBlock ==
  /\ pc = "nextBlock"
  /\ latestScanBlockHeight + 1 <= newestHeight
  /\ todo' = GetBlockVerboseTx(latestScanBlockHeight + 1)
  /\ pc' = "blockTx"
  /\ UNCHANGED <<knownTxCache, latestScanBlockHeight, newestHeight, newModbTxs, txIndex>>

\* The iterations of the loop over blk.Tx: `continue', or a derived
\* transaction.  Nothing enters knownTxCache here.
SkipBlockTx(t) ==
  /\ pc = "blockTx"
  /\ Seen(t) \/ t \notin Derivable \cup Fatal
  /\ todo' = todo \ {t}
  /\ UNCHANGED <<knownTxCache, latestScanBlockHeight, newestHeight, newModbTxs, txIndex, pc>>

CollectBlockTx(t) ==
  /\ pc = "blockTx"
  /\ ~Seen(t)
  /\ t \in Derivable
  /\ todo' = todo \ {t}
  /\ newModbTxs' = Append(newModbTxs, Converted(t))
  /\ txIndex' = txIndex + 1
  /\ UNCHANGED <<knownTxCache, latestScanBlockHeight, newestHeight, pc>>

\* Mutant: what exceeds the limit is cut off.
FinishBlockTruncates ==
  /\ pc = "blockTx"
  /\ todo = {}
  /\ latestScanBlockHeight' = latestScanBlockHeight + 1
  /\ pc' = IF Full(newModbTxs) THEN "emit" ELSE "nextBlock"
  /\ newModbTxs' = IF Full(newModbTxs) THEN SubSeq(newModbTxs, 1, MaxTxsInBlock) ELSE newModbTxs
  /\ UNCHANGED <<knownTxCache, newestHeight, todo, txIndex>>

\* Mutant: the scanned height does not move.
FinishBlockNoAdvance ==
  /\ pc = "blockTx"
  /\ todo = {}
  /\ pc' = IF Full(newModbTxs) THEN "emit" ELSE "nextBlock"
  /\ UNCHANGED scannerVars

FinishBlock ==
  /\ pc = "blockTx"
  /\ todo = {}
  /\ latestScanBlockHeight' = latestScanBlockHeight + 1
  /\ pc' = IF Full(newModbTxs) THEN "emit" ELSE "nextBlock"
  /\ UNCHANGED <<knownTxCache, newestHeight, todo, newModbTxs, txIndex>>

FinishScan ==
  /\ pc = "nextBlock"
  /\ latestScanBlockHeight + 1 > newestHeight
  /\ pc' = IF Full(newModbTxs) THEN "emit" ELSE "mempool"
  /\ UNCHANGED scannerVars

-----------------------------------------------------------------------------
(* The mempool half of GetNewTxs *)

ReadMempool ==
  /\ pc = "mempool"
  /\ todo' = GetRawMempool
  /\ pc' = "mempoolTx"
  /\ UNCHANGED <<knownTxCache, latestScanBlockHeight, newestHeight, newModbTxs, txIndex>>

\* GetRawTransactionVerbose fails when the node no longer has the transaction.
SkipMempoolTx(t) ==
  /\ pc = "mempoolTx"
  /\ Seen(t) \/ ~HasRawTransaction(t)
  /\ todo' = todo \ {t}
  /\ UNCHANGED <<knownTxCache, latestScanBlockHeight, newestHeight, newModbTxs, txIndex, pc>>

\* Mutant: a transaction that could not be fetched is cached.
FailMempoolTxCached(t) ==
  /\ pc = "mempoolTx"
  /\ ~Seen(t)
  /\ HasRawTransaction(t)
  /\ AddKnownTx(t)
  /\ todo' = todo \ {t}
  /\ UNCHANGED <<latestScanBlockHeight, newestHeight, newModbTxs, txIndex, pc>>

\* It also fails when the node stays out of reach for all the retries.
FailMempoolTx(t) ==
  /\ pc = "mempoolTx"
  /\ ~Seen(t)
  /\ HasRawTransaction(t)
  /\ todo' = todo \ {t}
  /\ UNCHANGED <<knownTxCache, latestScanBlockHeight, newestHeight, newModbTxs, txIndex, pc>>

RejectMempoolTx(t) ==
  /\ pc = "mempoolTx"
  /\ ~Seen(t)
  /\ HasRawTransaction(t)
  /\ t \notin Derivable \cup Fatal
  /\ AddKnownTx(t)
  /\ todo' = todo \ {t}
  /\ UNCHANGED <<latestScanBlockHeight, newestHeight, newModbTxs, txIndex, pc>>

\* txIndex does not advance in this loop.
CollectMempoolTx(t) ==
  /\ pc = "mempoolTx"
  /\ ~Seen(t)
  /\ HasRawTransaction(t)
  /\ t \in Derivable
  /\ newModbTxs' = Append(newModbTxs, Converted(t))
  /\ AddKnownTx(t)
  /\ IF Full(newModbTxs')
       THEN todo' = {} /\ pc' = "emit"
       ELSE todo' = todo \ {t} /\ UNCHANGED pc
  /\ UNCHANGED <<latestScanBlockHeight, newestHeight, txIndex>>

FinishMempool ==
  /\ pc = "mempoolTx"
  /\ todo = {}
  /\ pc' = "emit"
  /\ UNCHANGED scannerVars

ScannerStep ==
  \/ ReadBlockCount
  \/ ReadBlock
  \/ \E t \in todo : SkipBlockTx(t) \/ CollectBlockTx(t)
  \/ FinishBlock
  \/ FinishScan
  \/ ReadMempool
  \/ \E t \in todo : \/ SkipMempoolTx(t)
                     \/ FailMempoolTx(t)
                     \/ RejectMempoolTx(t)
                     \/ CollectMempoolTx(t)
  \/ FinishMempool

\* convertUtxoInfoToTx is about to panic on t.
PanicsOn(t) ==
  /\ t \in todo \cap Fatal
  /\ ~Seen(t)
  /\ pc = "mempoolTx" => HasRawTransaction(t)

=============================================================================
