----------------------------- MODULE ChainLogDB -----------------------------
(***************************************************************************)
(* store.ChainLogDB: the virtual blocks in moeingdb.                       *)
(*                                                                         *)
(* AddBlock hands a block to moeingdb and returns; the block can be read   *)
(* once moeingdb has indexed it, and the next AddBlock (with nil, in the   *)
(* repository's tests) waits for that.  `pending' is the block in between. *)
(***************************************************************************)
EXTENDS Naturals, Sequences

CONSTANT
  AddBlockDurable  \* does a block AddBlock took survive a crash before it
                   \* is indexed? (moeingdb; both answers are explored)

ASSUME StoreAssumption == AddBlockDurable \in BOOLEAN

VARIABLES
  ledger,   \* indexed virtual blocks, index is the virtual height
  pending   \* the block being indexed, or NoBlock

storeVars == <<ledger, pending>>

\* sha256(ChainName + ":" + height) of the height before the block: the only
\* thing the properties need of it is that it tells heights apart.
BlockHash(height) == height + 1

ZeroHash == 0

NoBlock == [number |-> 0, hash |-> ZeroHash, parentHash |-> ZeroHash,
            gasUsed |-> 0, txs |-> <<>>]

\* The txids of a list of derived transactions, of a block, of all blocks.
Hashes(txs) == {txs[i].hash : i \in DOMAIN txs}

HashesOf(blocks) == UNION {Hashes(blocks[n].txs) : n \in DOMAIN blocks}

StoreInit ==
  /\ ledger = <<>>
  /\ pending = NoBlock

IsTxMined(t) == t \in HashesOf(ledger)

\* Mutant: the height of the block before the latest.
GetLatestBlockInfoOffByOne ==
  IF ledger = <<>>
    THEN [height |-> 0, hash |-> ZeroHash, scanned |-> 0]
    ELSE LET blk == ledger[Len(ledger)]
         IN  [height |-> Len(ledger) - 1, hash |-> blk.hash, scanned |-> blk.gasUsed]

GetLatestBlockInfo ==
  IF ledger = <<>>
    THEN [height |-> 0, hash |-> ZeroHash, scanned |-> 0]
    ELSE LET blk == ledger[Len(ledger)]
         IN  [height |-> Len(ledger), hash |-> blk.hash, scanned |-> blk.gasUsed]

\* Waits until the block before it is indexed.
AddBlock(blk) ==
  /\ pending = NoBlock
  /\ pending' = blk
  /\ UNCHANGED ledger

\* moeingdb's background goroutine.
IndexBlock ==
  /\ pending # NoBlock
  /\ ledger' = Append(ledger, pending)
  /\ pending' = NoBlock

\* Mutant: a block that AddBlock took is lost in every case.
ReopenLosesPending ==
  /\ pending' = NoBlock
  /\ UNCHANGED ledger

\* Mutant: an indexed block is lost.
ReopenLosesIndexed ==
  /\ pending' = NoBlock
  /\ IF ledger = <<>> THEN UNCHANGED ledger ELSE ledger' = SubSeq(ledger, 1, Len(ledger) - 1)

\* What NewChainLogDB finds after the process died.
Reopen ==
  /\ pending' = NoBlock
  /\ \/ pending # NoBlock /\ ledger' = Append(ledger, pending)
     \/ (pending = NoBlock \/ ~AddBlockDurable) /\ UNCHANGED ledger

=============================================================================
