----------------------------- MODULE MCLogQuery -----------------------------
(* Small instances of LogQuery: two contracts, one topic position. *)
EXTENDS LogQuery

CONSTANTS a, b, x, y

Log(addr, topics) == [address |-> addr, topics |-> topics]

MCBlockLogs == {<<>>, <<Log(a, <<x>>)>>, <<Log(b, <<x, y>>), Log(a, <<>>)>>}

\* Ranges that are open, closed, reversed, beyond the chain, and up to the last
\* number whose successor is a uint32, or one more.
Ranges ==
  [fromBlock : {Latest, 0, 2}, toBlock : {Latest, 1, 2, Uint32 - 2}]
  \cup {[fromBlock |-> 1, toBlock |-> Uint32 - 1], [fromBlock |-> Uint32 + 1, toBlock |-> Uint32 + 2]}

With(range, addresses, topics, hash) ==
  [fromBlock |-> range.fromBlock, toBlock |-> range.toBlock,
   addresses |-> addresses, topics |-> topics, blockHash |-> hash]

MCCriteria ==
  {With(r, {}, <<>>, 0) : r \in Ranges}
  \cup {With(r, {a}, <<>>, 0) : r \in Ranges}
  \cup {With(r, {a, b}, <<{}, {x, y}>>, 0) : r \in Ranges}
  \cup {With([fromBlock |-> Latest, toBlock |-> Latest], {}, <<>>, h) : h \in 1..2}

=============================================================================
