------------------------------- MODULE EthApi -------------------------------
(***************************************************************************)
(* rpc/api/eth_api.go: eth_blockNumber, eth_getBlockByNumber and           *)
(* eth_getTransactionByHash, with the backend and the store below them, as *)
(* functions of the store.  They take no lock and keep no state: a client  *)
(* may call them in every state of VirtualChain, after a block event too.  *)
(***************************************************************************)
EXTENDS VirtualChain

Null == [number |-> 0]

BlockNumber == GetLatestBlockInfo.height

\* Mutant: heights count from zero.
GetBlockByHeightFromZero(height) ==
  IF height + 1 \in DOMAIN ledger THEN ledger[height + 1] ELSE NoBlock

\* moeingdb has no block at a height that is not indexed, or at the negative
\* ones that "latest" and "pending" stand for.
GetBlockByHeight(height) == IF height \in DOMAIN ledger THEN ledger[height] ELSE NoBlock

blockToRpcResp(block) ==
  [number |-> block.number, hash |-> block.hash, parentHash |-> block.parentHash, gasUsed |-> block.gasUsed,
   transactions |-> [k \in DOMAIN block.txs |-> block.txs[k].hash]]

GetBlockByNumber(number) ==
  LET block == GetBlockByHeight(number)
  IN  IF block = NoBlock THEN Null ELSE blockToRpcResp(block)

\* The first of the entries with this hash; a transaction carries the number
\* and the hash of its block.
GetTxByHash(hash) ==
  LET At(n) == {k \in DOMAIN ledger[n].txs : ledger[n].txs[k].hash = hash}
      n     == CHOOSE m \in DOMAIN ledger : At(m) # {} /\ \A l \in 1..(m - 1) : At(l) = {}
      k     == CHOOSE j \in At(n) : \A l \in At(n) : j <= l
  IN  [block |-> ledger[n], tx |-> ledger[n].txs[k]]

txToRpcResp(found) ==
  [number |-> found.block.number, blockHash |-> found.block.hash,
   hash |-> found.tx.hash, transactionIndex |-> found.tx.index]

GetTransactionByHash(hash) ==
  IF IsTxMined(hash) THEN txToRpcResp(GetTxByHash(hash)) ELSE Null

-----------------------------------------------------------------------------
(* Properties *)

\* A client that was sent a block can ask for it: the event comes while the
\* block is still being indexed and the first answer may be null, but the
\* height becomes readable with every transaction in it, also when a crash
\* loses the block and the restart has to build that height again, and
\* eth_blockNumber comes to say so.  (The number last announced does not go
\* down and moves on only once it is read.)
AnnouncedBecomesReadable ==
  []<>(announced # NoBlock =>
         LET answer == GetBlockByNumber(announced.number)
         IN  /\ answer # Null
             /\ answer.number = announced.number /\ announced.number <= BlockNumber
             /\ \A k \in DOMAIN answer.transactions : GetTransactionByHash(answer.transactions[k]) # Null)

=============================================================================
