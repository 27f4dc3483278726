--------------------------- MODULE VirtualLedger ---------------------------
(***************************************************************************)
(* What a virtual chain promises to those who read it, with no scanner, no *)
(* cache, no crash and no indexing in sight.  The main chain grows; the    *)
(* ledger of virtual blocks grows by one block at a time, each one         *)
(* claiming a scanned height, and is never rewritten.  The claim is true:  *)
(* the ledger then has every derivable transaction up to that height, and  *)
(* none twice.                                                             *)
(***************************************************************************)
EXTENDS Naturals, Sequences

CONSTANTS
  Txs, Derivable,
  Genesis  \* nothing up to this height is promised

VARIABLES
  mainChain,  \* sequence of sets of transactions
  ledger      \* sequence of [scanned, txs]

ledgerVars == <<mainChain, ledger>>

Recorded(n) == UNION {{ledger[m].txs[i] : i \in DOMAIN ledger[m].txs} : m \in 1..n}

LastScanned == IF ledger = <<>> THEN 0 ELSE ledger[Len(ledger)].scanned

Init ==
  /\ mainChain = [h \in 1..Genesis |-> {}]
  /\ ledger = <<>>

Mine ==
  /\ Len(mainChain') = Len(mainChain) + 1
  /\ SubSeq(mainChain', 1, Len(mainChain)) = mainChain
  /\ UNCHANGED ledger

\* The new block is derivable transactions that are not in the ledger yet,
\* each once, and leaves none out up to the height it claims.
IsNext(block) ==
  /\ LastScanned <= block.scanned
  /\ block.scanned <= Len(mainChain)
  /\ \A i \in DOMAIN block.txs :
       /\ block.txs[i] \in Derivable
       /\ block.txs[i] \notin Recorded(Len(ledger))
       /\ \A j \in DOMAIN block.txs : block.txs[i] = block.txs[j] => i = j
  /\ \A h \in (Genesis + 1)..block.scanned : \A t \in mainChain[h] \cap Derivable :
       \/ t \in Recorded(Len(ledger))
       \/ \E i \in DOMAIN block.txs : block.txs[i] = t

Extend ==
  /\ Len(ledger') = Len(ledger) + 1
  /\ SubSeq(ledger', 1, Len(ledger)) = ledger
  /\ IsNext(ledger'[Len(ledger')])
  /\ UNCHANGED mainChain

Next == Mine \/ Extend

Spec == Init /\ [][Next]_ledgerVars

=============================================================================
