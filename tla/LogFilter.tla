----------------------------- MODULE LogFilter -----------------------------
(***************************************************************************)
(* The pure half of rpc/api/filters: which logs a filter selects, and      *)
(* which block ranges a subscription accepts.                              *)
(*                                                                         *)
(* A log is [blockNumber, address, topics], topics a sequence.  A          *)
(* criterion is [fromBlock, toBlock, addresses, topics], addresses a set   *)
(* and topics a sequence of sets of alternatives.                          *)
(***************************************************************************)
EXTENDS Selection

\* rpc.LatestBlockNumber and rpc.PendingBlockNumber of go-ethereum 1.11.  A
\* block number that is not given counts as Latest in SubscribeLogs and in
\* GetLogs, and filterLogs ignores it as it ignores any negative one.
Latest == -2
Pending == -1

includes(addresses, a) == a \in addresses

filterFunc(addr, topics, addrList, topicsList) ==
  /\ addrList # {} => includes(addrList, addr)
  /\ Len(topicsList) <= Len(topics)
  /\ \A i \in DOMAIN topicsList : topicsList[i] = {} \/ topics[i] \in topicsList[i]

Selects(crit, log) ==
  /\ ~(crit.fromBlock >= 0 /\ crit.fromBlock > log.blockNumber)
  /\ ~(crit.toBlock >= 0 /\ crit.toBlock < log.blockNumber)
  /\ filterFunc(log.address, log.topics, crit.addresses, crit.topics)

filterLogs(logs, crit) == Selected(logs, {k \in DOMAIN logs : Selects(crit, logs[k])})

\* SubscribeLogs returns an error for any other combination.
SubscribeLogsAccepts(crit) ==
  LET from == crit.fromBlock
      to   == crit.toBlock
  IN  \/ from = Latest /\ to = Latest
      \/ from >= 0 /\ to >= 0 /\ to >= from
      \/ from >= 0 /\ to = Latest

=============================================================================
