------------------------------ MODULE LogQuery ------------------------------
(***************************************************************************)
(* filterAPI.GetLogs over a virtual chain that grows meanwhile: the two    *)
(* reads of LatestHeight, the loop of getLogsByBlockNumberRange with one   *)
(* read of the store per block, QueryLogs, which may fail or stop early,   *)
(* and the refresh of the confirmation count of every log, a call to a     *)
(* node that moves, too.                                                   *)
(*                                                                         *)
(* A transaction has one log, so block number and index name either.  Log  *)
(* data is the count, its first field; the flip of the hash is left out.   *)
(***************************************************************************)
EXTENDS LogFilter, Functions, RetryableClient

CONSTANTS
  Criteria,             \* criteria with a further field blockHash: the number
                        \* of the block asked for by hash, or 0
  BlockLogs,            \* possible logs of a block
  MaxBlocks,            \* bound on the virtual chain
  MaxConfirmations,     \* bound on the node's counts
  MaxMoves,             \* bound on its moves during the call
  MaxFaults,            \* bound on attempts that fail without a reason
  Uint32,               \* 2^32
  AllOne,               \* 2^256 - 1
  GetRpcMaxLogResults   \* 2000

\* The node and the network do not fail a whole call.
ASSUME FaultAssumption == MaxFaults \in Nat /\ MaxFaults < maxRetry

\* A uint32 holds the height of the chain; the numbers that are given may be
\* larger.
ASSUME QueryAssumption ==
  /\ GetRpcMaxLogResults \in Nat /\ MaxConfirmations \in Nat
  /\ MaxBlocks \in Nat /\ Uint32 \in Nat /\ MaxBlocks + 1 < Uint32
  /\ \A c \in Criteria :
       c \in [fromBlock : Int, toBlock : Int, addresses : {c.addresses}, topics : {c.topics}, blockHash : Nat]

\* Blocks are lists of logs, and a log has a list of topics.
ASSUME BlockAssumption ==
  \A content \in BlockLogs :
    /\ content \in Seq(Range(content))
    /\ \A log \in Range(content) : log.topics \in Seq(Range(log.topics))

VARIABLES
  blocks,         \* readable blocks: their logs
  confirmations,  \* the node's count for each transaction, or Gone
  moves,          \* moves of the node during the call
  faults,         \* attempts that failed without a reason
  pc,             \* where GetLogs is
  crit,           \* its argument
  begin,
  end,
  fetched,        \* logs read from the store whose count is not refreshed
  logs,           \* what it has collected
  cut,            \* history: the store's query stopped early and nobody was told
  before,         \* history: how many blocks there were when it was called
  seen            \* history: <<block, index, count>> that held since

envVars == <<blocks, confirmations, moves, seen>>
vars == <<envVars, faults, pc, crit, begin, end, fetched, logs, cut, before, i>>

\* Neither in the mempool nor in a block.
Gone == -1

Init ==
  /\ blocks = <<>>
  /\ confirmations = <<>>
  /\ moves = 0
  /\ faults = 0
  /\ pc = "called"
  /\ crit \in Criteria
  /\ begin = crit.fromBlock
  /\ end = crit.toBlock
  /\ fetched = <<>>
  /\ logs = <<>>
  /\ cut = FALSE
  /\ before = 0
  /\ seen = {}
  /\ ClientInit

LogsOf(n) ==
  [k \in DOMAIN blocks[n] |-> [blockNumber |-> n, index |-> k, data |-> 0,
                               address     |-> blocks[n][k].address,
                               topics      |-> blocks[n][k].topics]]

\* The logs of a block, none if there is no such block.
Stored(n) == IF n \in DOMAIN blocks THEN LogsOf(n) ELSE <<>>

LogsBetween(first, last) ==
  IF last < first THEN <<>> ELSE FlattenSeq([k \in 1..(last - first + 1) |-> Stored(first + k - 1)])

LatestHeight == Len(blocks)

-----------------------------------------------------------------------------
(* The environment, while the call lasts *)

Running == pc \notin {"returned", "failed"}

Counts(bs, cs) == UNION {{<<n, k, cs[n][k]>> : k \in DOMAIN bs[n]} : n \in DOMAIN bs}

\* The next block of the virtual chain becomes readable.
NewBlock(content, count) ==
  /\ Running
  /\ Len(blocks) < MaxBlocks
  /\ blocks' = Append(blocks, content)
  /\ confirmations' = Append(confirmations, [k \in DOMAIN content |-> count])
  /\ seen' = IF pc = "called" THEN seen ELSE seen \cup Counts(blocks', confirmations')
  /\ UNCHANGED <<moves, faults, pc, crit, begin, end, fetched, logs, cut, before, i>>

\* A block is mined or undone, a transaction leaves the mempool or is back.
\* What happens before the call is in the count of NewBlock.
NodeMoves(n, k, count) ==
  /\ Running
  /\ pc # "called"
  /\ moves < MaxMoves
  /\ moves' = moves + 1
  /\ count - confirmations[n][k] \in {-1, 1}
  /\ confirmations' = [confirmations EXCEPT ![n][k] = count]
  /\ seen' = seen \cup {<<n, k, count>>}
  /\ UNCHANGED <<blocks, faults, pc, crit, begin, end, fetched, logs, cut, before, i>>

-----------------------------------------------------------------------------
(* GetLogs *)

BlockByHash(number) == {n \in DOMAIN blocks : n = number}

\* The call, and BlockByHash if a block is asked for by hash.
LookupHash ==
  /\ pc = "called"
  /\ before' = Len(blocks)
  /\ seen' = Counts(blocks, confirmations)
  /\ \/ /\ crit.blockHash = 0
        /\ pc' = "begin"
        /\ UNCHANGED <<begin, end>>
     \/ \E number \in BlockByHash(crit.blockHash) :
          /\ begin' = number
          /\ end' = number
          /\ pc' = "begin"
     \/ /\ crit.blockHash # 0
        /\ BlockByHash(crit.blockHash) = {}
        /\ pc' = "failed"
        /\ UNCHANGED <<begin, end>>
  /\ UNCHANGED <<blocks, confirmations, moves, faults, crit, fetched, logs, cut, i>>

ResolveBegin ==
  /\ pc = "begin"
  /\ begin' = IF begin < 0 THEN LatestHeight ELSE begin
  /\ pc' = "end"
  /\ UNCHANGED <<envVars, faults, crit, end, fetched, logs, cut, before, i>>

ByRange == crit.addresses = {} /\ crit.topics = <<>>

ResolveEnd ==
  /\ pc = "end"
  /\ end' = IF end < 0 THEN LatestHeight ELSE end
  /\ pc' = IF ByRange THEN "range" ELSE "query"
  /\ UNCHANGED <<envVars, faults, crit, begin, fetched, logs, cut, before, i>>

\* An iteration of getLogsByBlockNumberRange up to the store's answer; begin
\* is the loop variable.
getLogsByBlockNumberRange ==
  /\ pc = "range"
  /\ begin < end + 1
  /\ fetched' = Stored(begin % Uint32)
  /\ begin' = begin + 1
  /\ pc' = "refresh"
  /\ UNCHANGED <<envVars, faults, crit, end, logs, cut, before, i>>

RangeDone ==
  /\ pc = "range"
  /\ begin >= end + 1
  /\ pc' = "returned"
  /\ UNCHANGED <<envVars, faults, crit, begin, end, fetched, logs, cut, before, i>>

\* moeingdb finds candidates from startHeight up to and excluding endHeight;
\* the callback keeps those filterFunc accepts, and stops the scan after the
\* first n of them when it is given nil ("too many entities") or a transaction
\* that it cannot decode.
QueryLogs(startHeight, endHeight, n) ==
  LET found == LogsBetween(startHeight, endHeight - 1)
  IN  Selected(found, {k \in DOMAIN found :
                         k <= n /\ filterFunc(found[k].address, found[k].topics, crit.addresses, crit.topics)})

\* Mutant: the last block is left out.
QueryOffByOne ==
  /\ pc = "query"
  /\ fetched' = QueryLogs(begin % Uint32, end % Uint32, Len(LogsBetween(begin, end)))
  /\ pc' = "refresh"
  /\ UNCHANGED <<envVars, faults, crit, begin, end, logs, cut, before, i>>

\* The callback's error is overwritten by moeingdb's return value.  If that is
\* nil, an answer that was cut short passes for a complete one.
Query ==
  /\ pc = "query"
  /\ LET size == Len(LogsBetween(begin % Uint32, ((end + 1) % Uint32) - 1))
     IN  \E n \in 0..size :
           /\ fetched' = QueryLogs(begin % Uint32, (end + 1) % Uint32, n)
           /\ cut' = (n < size)
  /\ pc' = "refresh"
  /\ UNCHANGED <<envVars, faults, crit, begin, end, logs, before, i>>

\* moeingdb returns an error from QueryLogs, or a transaction of the range does
\* not decode.
StoreFails ==
  /\ pc = "query" \/ (pc = "range" /\ begin < end + 1)
  /\ pc' = "failed"
  /\ UNCHANGED <<envVars, faults, crit, begin, end, fetched, logs, cut, before, i>>

-----------------------------------------------------------------------------
(* The refresh: GetConfirmations for one log after the other *)

LatestConfirmations(c) == IF c = Gone THEN AllOne ELSE c

\* The log of the call in progress is done, with count c.
Refreshed(c) ==
  /\ logs' = Append(logs, [Head(fetched) EXCEPT !.data = LatestConfirmations(c)])
  /\ fetched' = Tail(fetched)

Count == LET log == Head(fetched) IN confirmations[log.blockNumber][log.index]

\* The node answers.
GetConfirmations ==
  /\ fetched # <<>>
  /\ Count # Gone
  /\ Answered
  /\ Refreshed(Count)
  /\ UNCHANGED <<envVars, faults, pc, crit, begin, end, cut, before>>

\* It does not know the transaction, or the attempt fails for no such reason;
\* after the last one the count is -1.
GetConfirmationsFails ==
  /\ fetched # <<>>
  /\ \/ Count = Gone /\ UNCHANGED faults
     \/ faults < MaxFaults /\ faults' = faults + 1
  /\ \/ Retry /\ UNCHANGED <<fetched, logs>>
     \/ GiveUp /\ Refreshed(Gone)
  /\ UNCHANGED <<envVars, pc, crit, begin, end, cut, before>>

\* Mutant: no limit.
RefreshDoneUnlimited ==
  /\ pc = "refresh"
  /\ fetched = <<>>
  /\ pc' = IF ByRange THEN "range" ELSE "returned"
  /\ UNCHANGED <<envVars, faults, crit, begin, end, fetched, logs, cut, before, i>>

\* The rest of the iteration, or of QueryLogs.
RefreshDone ==
  /\ pc = "refresh"
  /\ fetched = <<>>
  /\ pc' = IF ~ByRange THEN "returned"
           ELSE IF Len(logs) > GetRpcMaxLogResults THEN "failed" ELSE "range"
  /\ UNCHANGED <<envVars, faults, crit, begin, end, fetched, logs, cut, before, i>>

-----------------------------------------------------------------------------
GetLogs ==
  \/ LookupHash
  \/ ResolveBegin
  \/ ResolveEnd
  \/ getLogsByBlockNumberRange
  \/ RangeDone
  \/ Query
  \/ StoreFails
  \/ GetConfirmations
  \/ GetConfirmationsFails
  \/ RefreshDone

Next ==
  \/ \E content \in BlockLogs, count \in Gone..MaxConfirmations : NewBlock(content, count)
  \/ \E n \in DOMAIN blocks : \E k \in DOMAIN blocks[n] :
       \E count \in Gone..MaxConfirmations : NodeMoves(n, k, count)
  \/ GetLogs

\* The handler's goroutine runs; nothing is assumed of chain, node or network.
Spec == Init /\ [][Next]_vars /\ WF_vars(GetLogs)

-----------------------------------------------------------------------------
(* Properties *)

\* What the criterion says of the blocks 1..n, "latest" being one of the
\* heights low..high.
Wanted(n, low, high) ==
  LET from == IF crit.blockHash # 0 THEN crit.blockHash
              ELSE IF crit.fromBlock < 0 THEN low ELSE crit.fromBlock
      to   == IF crit.blockHash # 0 THEN crit.blockHash
              ELSE IF crit.toBlock < 0 THEN high ELSE crit.toBlock
      one  == [crit EXCEPT !.fromBlock = from, !.toBlock = to]
  IN  Range(filterLogs(LogsBetween(1, n), one))

Earlier(x, y) ==
  \/ x.blockNumber < y.blockNumber
  \/ x.blockNumber = y.blockNumber /\ x.index < y.index

\* The conversions to uint32 keep the numbers that are given.
NumbersFit == crit.fromBlock < Uint32 /\ crit.toBlock + 1 < Uint32

\* "GetLogs returns logs matching the given argument that are stored within
\* the state": the matching logs that were there when it was called, and only
\* matching ones, each once and in order, although blocks are added while it
\* resolves "latest" twice and reads block after block.  An answer that
\* QueryLogs cut short without an error lacks logs at its end and nowhere else.
\* Numbers that a uint32 does not hold are read as others.
LogsMatch ==
  pc = "returned" /\ NumbersFit =>
    LET found == {[log EXCEPT !.data = 0] : log \in Range(logs)}
    IN  /\ \A log \in Wanted(before, Len(blocks), before) :
             log \in found \/ (cut /\ \A k \in DOMAIN logs : Earlier(logs[k], log))
        /\ found \subseteq Wanted(Len(blocks), before, Len(blocks))
        /\ \A j, k \in DOMAIN logs : j < k => Earlier(logs[j], logs[k])

\* The number of logs getLogsByBlockNumberRange returns is within the limit;
\* it fails rather than cut the answer short.
RangeIsBounded ==
  pc = "returned" /\ ByRange => Len(logs) <= GetRpcMaxLogResults

\* "It will be -1 if the transaction cannot be found in mempool or the block
\* history any more" (README.md:17): the count in every log GetLogs gives out
\* is one the node had for it at some moment of the call, -1 as all ones, and
\* an attempt that failed is no reason for a -1.
ConfirmationsWereTrue ==
  \A k \in DOMAIN logs :
    \E c \in Gone..MaxConfirmations :
      /\ <<logs[k].blockNumber, logs[k].index, c>> \in seen
      /\ logs[k].data = IF c = Gone THEN AllOne ELSE c

\* GetLogs returns or fails, also when the node does not know a transaction or
\* attempts fail: RetryableClient gives up.
GetLogsEnds == pc = "called" ~> ~Running

=============================================================================
