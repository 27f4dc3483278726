--------------------------- MODULE MCVirtualChain ---------------------------
(* VirtualChain and EthApi for TLC: derivable transactions are interchangeable. *)
EXTENDS EthApi, TLC

Symmetry == Permutations(Derivable)

=============================================================================
