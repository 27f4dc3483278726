------------------------------ MODULE BchNode ------------------------------
(***************************************************************************)
(* The Bitcoin Cash node behind bch.IBchClient, as far as chainlogs can    *)
(* see it.  The node is not part of the repository: it is modelled from    *)
(* the calls the scanner makes (GetBlockCount, GetBlockHash and            *)
(* GetBlockVerboseTx, GetRawMempool, GetRawTransactionVerbose).            *)
(*                                                                         *)
(* A transaction is its txid.  A block is the set of its transactions: the *)
(* scanner filters and converts them one by one, so it may meet them in    *)
(* any order.                                                              *)
(***************************************************************************)
EXTENDS Naturals, Sequences, FiniteSets

CONSTANTS
  Txs,                          \* txids
  GenesisMainChainBlockHeight,  \* blocks up to this height are never scanned
  MaxMainHeight,                \* bound on the length of the main chain
  MaxReorgs                     \* bound on the number of reorganisations

ASSUME NodeAssumption ==
  /\ GenesisMainChainBlockHeight \in Nat
  /\ MaxMainHeight \in Nat
  /\ MaxReorgs \in Nat

VARIABLES
  mainChain,  \* sequence of blocks, index is the height
  mempool,    \* unconfirmed transactions
  reorgs      \* reorganisations so far

nodeVars == <<mainChain, mempool, reorgs>>

TxsIn(chain) == UNION {chain[h] : h \in DOMAIN chain}

NodeTypeOK ==
  /\ mainChain \in Seq(SUBSET Txs)
  /\ mempool \in SUBSET Txs
  /\ reorgs \in 0..MaxReorgs

NodeInit ==
  /\ mainChain = [h \in 1..GenesisMainChainBlockHeight |-> {}]
  /\ mempool = {}
  /\ reorgs = 0

(* What the RPCs answer. *)
GetBlockCount == Len(mainChain)

GetBlockVerboseTx(h) == mainChain[h]

GetRawMempool == mempool

\* GetRawTransactionVerbose answers for what is in a block or in the mempool.
HasRawTransaction(t) == t \in mempool \cup TxsIn(mainChain)

(* How the node's state changes under the scanner. *)
Broadcast(t) ==
  /\ t \notin mempool \cup TxsIn(mainChain)
  /\ mempool' = mempool \cup {t}
  /\ UNCHANGED <<mainChain, reorgs>>

\* A double spend or the node's own eviction removes a transaction.
Drop(t) ==
  /\ t \in mempool
  /\ mempool' = mempool \ {t}
  /\ UNCHANGED <<mainChain, reorgs>>

\* A block may hold transactions the node never had in its mempool.
Mine(block) ==
  /\ Len(mainChain) < MaxMainHeight
  /\ block \cap TxsIn(mainChain) = {}
  /\ mainChain' = Append(mainChain, block)
  /\ mempool' = mempool \ block
  /\ UNCHANGED reorgs

\* The tip is replaced by a longer branch <<b1, b2>>; the transactions that
\* the branch leaves out return to the mempool.
Reorg(b1, b2) ==
  LET tip == mainChain[Len(mainChain)]
  IN  /\ reorgs < MaxReorgs
      /\ GenesisMainChainBlockHeight < Len(mainChain)
      /\ Len(mainChain) < MaxMainHeight
      /\ b1 \cap b2 = {}
      /\ (b1 \cup b2) \cap (TxsIn(mainChain) \ tip) = {}
      /\ mainChain' = Append([mainChain EXCEPT ![Len(mainChain)] = b1], b2)
      /\ mempool' = (mempool \cup tip) \ (b1 \cup b2)
      /\ reorgs' = reorgs + 1

NodeNext ==
  \/ \E t \in Txs : Broadcast(t) \/ Drop(t)
  \/ \E block \in SUBSET Txs : Mine(block)

=============================================================================
