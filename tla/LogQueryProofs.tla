--------------------------- MODULE LogQueryProofs ---------------------------
(***************************************************************************)
(* Safety of GetLogs for any virtual chain, criterion and limit, whenever  *)
(* the store fails or stops early.                                         *)
(***************************************************************************)
EXTENDS LogQuery, SequenceLemmas

Entries == UNION {Range(content) : content \in BlockLogs}

Counting == Gone..MaxConfirmations

Rows == UNION {[DOMAIN content -> Counting] : content \in BlockLogs}

Logs == [blockNumber : Nat, index : Nat, data : Counting \cup {0, AllOne},
         address : {log.address : log \in Entries}, topics : {log.topics : log \in Entries}]

Steps == {"called", "begin", "end", "range", "query", "refresh", "returned", "failed"}

\* The range is resolved and reading has begun.
Reading == {"range", "refresh", "returned"}

TypeInv ==
  /\ blocks \in Seq(BlockLogs) /\ Len(blocks) <= MaxBlocks
  /\ confirmations \in Seq(Rows) /\ Len(confirmations) = Len(blocks)
  /\ \A n \in DOMAIN blocks : confirmations[n] \in [DOMAIN blocks[n] -> Counting]
  /\ pc \in Steps /\ crit \in Criteria
  /\ begin \in Int /\ end \in Int
  /\ before \in Nat /\ before <= Len(blocks)
  /\ fetched \in Seq(Logs) /\ logs \in Seq(Logs)
  /\ i \in Nat /\ faults \in Nat /\ faults <= MaxFaults
  /\ cut \in BOOLEAN

\* Where GetLogs is and what its variables then are.
ControlInv ==
  /\ fetched # <<>> => pc = "refresh"
  /\ fetched = <<>> => i = 0
  /\ pc \in {"called", "begin", "end", "query"} => logs = <<>>
  /\ pc = "range" => ByRange
  /\ pc = "query" => ~ByRange
  /\ cut => ~ByRange

LimitInv ==
  pc \in {"range", "returned"} /\ ByRange => Len(logs) <= GetRpcMaxLogResults

\* Of the log that is being refreshed.
GoneSeen == <<Head(fetched).blockNumber, Head(fetched).index, Gone>> \in seen

\* The node's counts since the call are in the history; more failures than
\* faults are from a transaction that was gone.
SeenInv ==
  /\ pc # "called" => Counts(blocks, confirmations) \subseteq seen
  /\ fetched # <<>> /\ i > faults => GoneSeen
  /\ ConfirmationsWereTrue

-----------------------------------------------------------------------------
\* The first and the last block asked for, if "latest" is h.
Floor(h) == IF crit.blockHash # 0 THEN crit.blockHash ELSE IF crit.fromBlock < 0 THEN h ELSE crit.fromBlock

Ceiling(h) == IF crit.blockHash # 0 THEN crit.blockHash ELSE IF crit.toBlock < 0 THEN h ELSE crit.toBlock

\* Latest is resolved to a height between the one at the call and the present
\* one.
RangeInv ==
  /\ pc = "called" => begin = crit.fromBlock /\ end = crit.toBlock
  /\ pc \notin {"called", "failed"} /\ crit.blockHash # 0 => crit.blockHash \in DOMAIN blocks
  /\ pc = "begin" => begin = IF crit.blockHash # 0 THEN crit.blockHash ELSE crit.fromBlock
  /\ pc \in {"begin", "end"} => end = IF crit.blockHash # 0 THEN crit.blockHash ELSE crit.toBlock
  /\ pc \in {"end", "query"} => begin <= Floor(Len(blocks))
  /\ pc \in {"end", "query"} \cup Reading => Floor(before) <= begin
  /\ pc \in {"query"} \cup Reading => Ceiling(before) <= end /\ end <= Ceiling(Len(blocks))
  /\ pc = "returned" /\ ByRange => end < begin

Matches(log) == filterFunc(log.address, log.topics, crit.addresses, crit.topics)

\* What was read are logs of the blocks, whether or not those asked for.
InBlocks(log) == log.blockNumber \in DOMAIN blocks /\ log.index \in DOMAIN blocks[log.blockNumber]

ExistInv ==
  /\ \A j \in DOMAIN fetched : InBlocks(fetched[j])
  /\ \A j \in DOMAIN logs : InBlocks(logs[j])

\* A log of the blocks, and of those that were asked for.
Stands(log) ==
  /\ log.blockNumber \in DOMAIN blocks
  /\ log.index \in DOMAIN blocks[log.blockNumber]
  /\ log.address = blocks[log.blockNumber][log.index].address
  /\ log.topics = blocks[log.blockNumber][log.index].topics
  /\ Floor(before) <= log.blockNumber /\ log.blockNumber <= end
  /\ ByRange => log.blockNumber < begin
  /\ Matches(log)

Lists(s, n, k) == \E j \in DOMAIN s : s[j].blockNumber = n /\ s[j].index = k

\* All of s comes before the log of block n at index k.
Behind(s, n, k) ==
  \A j \in DOMAIN s : s[j].blockNumber < n \/ (s[j].blockNumber = n /\ s[j].index < k)

\* The log was read, or the scan stopped before it.
Accounted(n, k) ==
  \/ Lists(logs, n, k) \/ Lists(fetched, n, k)
  \/ cut /\ Behind(logs, n, k) /\ Behind(fetched, n, k)

Sorted(s) == \A j, k \in DOMAIN s : j < k => Earlier(s[j], s[k])

\* What was read so far, if uint32 holds the numbers: matching logs of the
\* blocks asked for, in order, and all that were there at the call.
CollectInv ==
  /\ \A j \in DOMAIN fetched : Stands(fetched[j])
  /\ \A j \in DOMAIN logs : Stands(logs[j])
  /\ Sorted(fetched) /\ Sorted(logs)
  /\ \A j \in DOMAIN logs, k \in DOMAIN fetched : Earlier(logs[j], fetched[k])
  /\ pc \in Reading =>
       \A n \in 1..before : \A k \in DOMAIN blocks[n] :
         /\ Floor(Len(blocks)) <= n /\ n <= end
         /\ ByRange => n < begin
         /\ Matches(blocks[n][k])
         => Accounted(n, k)

QueryInv ==
  /\ TypeInv /\ ControlInv /\ LimitInv /\ SeenInv /\ RangeInv /\ ExistInv
  /\ NumbersFit => CollectInv

-----------------------------------------------------------------------------
(* The blocks and the store's answers *)

LEMMA ContentType ==
  ASSUME NEW content \in BlockLogs
  PROVE  /\ content \in Seq(Entries)
         /\ \A k \in DOMAIN content : content[k] \in Entries /\ Len(content[k].topics) \in Nat
<1>1. Range(content) \subseteq Entries
  BY DEF Entries
<1>2. content \in Seq(Range(content)) /\ \A log \in Range(content) : log.topics \in Seq(Range(log.topics))
  BY BlockAssumption
<1>3. content \in Seq(Entries)
  BY <1>1, <1>2
<1>4. \A k \in DOMAIN content : content[k] \in Range(content)
  BY DEF Range
<1>5. \A S : \A s \in Seq(S) : Len(s) \in Nat
  OBVIOUS
<1>6. \A k \in DOMAIN content : Len(content[k].topics) \in Nat
  BY <1>2, <1>4, <1>5, Zenon
<1> QED
  BY <1>1, <1>3, <1>4, <1>6

LEMMA BlockType ==
  ASSUME blocks \in Seq(BlockLogs), NEW n \in DOMAIN blocks
  PROVE  /\ n \in Nat /\ 1 <= n /\ n <= Len(blocks)
         /\ blocks[n] \in BlockLogs /\ blocks[n] \in Seq(Entries)
         /\ \A k \in DOMAIN blocks[n] : k \in Nat /\ blocks[n][k] \in Entries /\ Len(blocks[n][k].topics) \in Nat
<1>1. n \in Nat /\ 1 <= n /\ n <= Len(blocks) /\ blocks[n] \in BlockLogs
  OBVIOUS
<1>2. blocks[n] \in Seq(Entries) /\ \A k \in DOMAIN blocks[n] : blocks[n][k] \in Entries /\ Len(blocks[n][k].topics) \in Nat
  BY <1>1, ContentType
<1>3. \A k \in DOMAIN blocks[n] : k \in Nat
  BY <1>2
<1> QED
  BY <1>1, <1>2, <1>3

\* The log at an index of a block.
Entry(n, k) ==
  [blockNumber |-> n, index |-> k, data |-> 0,
   address |-> blocks[n][k].address, topics |-> blocks[n][k].topics]

LEMMA EntryType ==
  ASSUME blocks \in Seq(BlockLogs), NEW n \in DOMAIN blocks, NEW k \in DOMAIN blocks[n]
  PROVE  Entry(n, k) \in Logs
<1>1. n \in Nat /\ k \in Nat /\ blocks[n][k] \in Entries
  BY BlockType
<1> QED
  BY <1>1 DEF Entry, Logs

LEMMA StoredType ==
  ASSUME blocks \in Seq(BlockLogs), NEW n
  PROVE  /\ Stored(n) \in Seq(Logs)
         /\ n \in DOMAIN blocks => DOMAIN Stored(n) = DOMAIN blocks[n]
         /\ \A k \in DOMAIN Stored(n) : n \in DOMAIN blocks /\ k \in DOMAIN blocks[n] /\ Stored(n)[k] = Entry(n, k)
<1>1. CASE n \in DOMAIN blocks
  <2> DEFINE m == Len(blocks[n])
             f == LogsOf(n)
  <2>1. blocks[n] \in Seq(Entries)
    BY <1>1, BlockType
  <2>2. m \in Nat /\ DOMAIN blocks[n] = 1..m
    BY <2>1
  <2>3. f = [k \in DOMAIN blocks[n] |-> Entry(n, k)]
    BY DEF LogsOf, Entry
  <2>4. \A k \in 1..m : f[k] = Entry(n, k) /\ Entry(n, k) \in Logs
    BY <1>1, <2>2, <2>3, EntryType
  <2>5. f = [k \in 1..m |-> f[k]]
    BY <2>2, <2>3
  <2>6. Stored(n) = f
    BY <1>1 DEF Stored
  <2>7. DOMAIN f = 1..m
    BY <2>5
  <2> HIDE DEF f, m
  <2>8. f \in Seq(Logs)
    BY <2>2, <2>4, <2>5, IntervalIsSequence
  <2> QED
    BY <1>1, <2>2, <2>4, <2>6, <2>7, <2>8
<1>2. CASE n \notin DOMAIN blocks
  BY <1>2 DEF Stored
<1> QED
  BY <1>1, <1>2

\* A log as the store gives it out, of a block from first to last.
IsBetween(log, first, last) ==
  /\ log.blockNumber \in DOMAIN blocks
  /\ log.index \in DOMAIN blocks[log.blockNumber]
  /\ log = Entry(log.blockNumber, log.index)
  /\ first <= log.blockNumber /\ log.blockNumber <= last

\* s is the list of them.
Gathers(s, first, last) ==
  /\ s \in Seq(Logs)
  /\ \A j \in DOMAIN s : IsBetween(s[j], first, last)
  /\ \A n \in DOMAIN blocks : first <= n /\ n <= last =>
       \A k \in DOMAIN blocks[n] : \E j \in DOMAIN s : s[j] = Entry(n, k)
  /\ Sorted(s)

LEMMA GathersNone ==
  ASSUME blocks \in Seq(BlockLogs), NEW first \in Int, NEW last \in Int, last < first
  PROVE  Gathers(<<>>, first, last)
<1>1. \A n \in DOMAIN blocks : ~(first <= n /\ n <= last)
  OBVIOUS
<1>2. <<>> \in Seq(Logs) /\ DOMAIN <<>> = {}
  OBVIOUS
<1> QED
  BY <1>1, <1>2, Zenon DEF Gathers, Sorted

LEMMA EntryFields ==
  \A n, k : Entry(n, k).blockNumber = n /\ Entry(n, k).index = k
BY DEF Entry

LEMMA GathersNext ==
  ASSUME blocks \in Seq(BlockLogs), NEW first \in Int, NEW last \in Int, first <= last + 1,
         NEW s, Gathers(s, first, last)
  PROVE  Gathers(s \o Stored(last + 1), first, last + 1)
<1> DEFINE t == Stored(last + 1)
           st == s \o t
           m == Len(s)
<1>1. /\ s \in Seq(Logs)
      /\ \A j \in DOMAIN s : IsBetween(s[j], first, last)
      /\ \A n \in DOMAIN blocks : first <= n /\ n <= last =>
           \A k \in DOMAIN blocks[n] : \E j \in DOMAIN s : s[j] = Entry(n, k)
      /\ Sorted(s)
  BY DEF Gathers
<1>2. /\ t \in Seq(Logs)
      /\ last + 1 \in DOMAIN blocks => DOMAIN t = DOMAIN blocks[last + 1]
      /\ \A k \in DOMAIN t : last + 1 \in DOMAIN blocks /\ k \in DOMAIN blocks[last + 1] /\ t[k] = Entry(last + 1, k)
  BY StoredType
<1> HIDE DEF t
<1>3. /\ st \in Seq(Logs)
      /\ Len(st) = m + Len(t) /\ m \in Nat /\ Len(t) \in Nat
      /\ DOMAIN s = 1..m /\ DOMAIN t = 1..Len(t) /\ DOMAIN st = 1..(m + Len(t))
      /\ \A j \in 1..m : st[j] = s[j]
      /\ \A j \in 1..Len(t) : st[m + j] = t[j]
  BY <1>1, <1>2, SMTT(30)
<1> HIDE DEF st, m
<1>4. \A j \in DOMAIN st : \/ j \in DOMAIN s /\ st[j] = s[j]
                           \/ j - m \in DOMAIN t /\ j > m /\ st[j] = t[j - m]
  <2> TAKE j \in DOMAIN st
  <2>1. j \in 1..m \/ (j - m \in 1..Len(t) /\ j > m /\ m + (j - m) = j)
    BY <1>3
  <2>2. CASE j \in 1..m
    BY <1>3, <2>2, Zenon
  <2>3. CASE j - m \in 1..Len(t) /\ j > m /\ m + (j - m) = j
    <3>1. st[m + (j - m)] = t[j - m]
      BY <1>3, <2>3, Zenon
    <3> QED
      BY <1>3, <2>3, <3>1, Zenon
  <2> QED
    BY <2>1, <2>2, <2>3
<1>5. \A j \in DOMAIN t : t[j].blockNumber = last + 1 /\ t[j].index = j /\ IsBetween(t[j], first, last + 1)
  BY <1>2, EntryFields DEF IsBetween
<1>6. \A j \in DOMAIN s : /\ s[j].blockNumber \in Nat /\ s[j].blockNumber <= last
                          /\ IsBetween(s[j], first, last + 1)
  <2> TAKE j \in DOMAIN s
  <2>1. IsBetween(s[j], first, last)
    BY <1>1
  <2>2. s[j].blockNumber \in Nat
    BY <2>1 DEF IsBetween
  <2> QED
    BY <2>1, <2>2 DEF IsBetween
<1>7. \A j \in DOMAIN st : IsBetween(st[j], first, last + 1)
  BY <1>4, <1>5, <1>6, Zenon
<1>8. Sorted(st)
  <2> SUFFICES ASSUME NEW j \in DOMAIN st, NEW k \in DOMAIN st, j < k
               PROVE  Earlier(st[j], st[k])
    BY DEF Sorted
  <2>1. j \in Int /\ k \in Int
    BY <1>3
  <2>2. CASE k \in DOMAIN s /\ st[k] = s[k]
    <3>1. j \in DOMAIN s /\ st[j] = s[j]
      BY <1>3, <2>1, <2>2
    <3> QED
      BY <1>1, <2>2, <3>1 DEF Sorted
  <2>3. CASE k - m \in DOMAIN t /\ k > m /\ st[k] = t[k - m]
    <3>1. CASE j \in DOMAIN s /\ st[j] = s[j]
      BY <1>5, <1>6, <2>3, <3>1 DEF Earlier
    <3>2. CASE j - m \in DOMAIN t /\ j > m /\ st[j] = t[j - m]
      <4>1. j - m < k - m
        BY <1>3, <2>1
      <4> QED
        BY <1>5, <2>3, <3>2, <4>1 DEF Earlier
    <3> QED
      BY <1>4, <3>1, <3>2
  <2> QED
    BY <1>4, <2>2, <2>3
<1>9. ASSUME NEW n \in DOMAIN blocks, first <= n, n <= last + 1, NEW k \in DOMAIN blocks[n]
      PROVE  \E j \in DOMAIN st : st[j] = Entry(n, k)
  <2>1. CASE n <= last
    <3>1. PICK j \in DOMAIN s : s[j] = Entry(n, k)
      BY <1>1, <1>9, <2>1
    <3>2. j \in DOMAIN st /\ st[j] = s[j]
      BY <1>3
    <3> QED
      BY <3>1, <3>2
  <2>2. CASE n = last + 1
    <3>1. k \in DOMAIN t /\ t[k] = Entry(n, k)
      BY <1>2, <2>2
    <3>2. m + k \in DOMAIN st /\ st[m + k] = t[k]
      BY <1>3, <3>1
    <3> QED
      BY <3>1, <3>2
  <2>3. n \in Int
    OBVIOUS
  <2> QED
    BY <1>9, <2>1, <2>2, <2>3
<1> QED
  BY <1>3, <1>7, <1>8, <1>9, Zenon DEF Gathers, st, t

\* The reads of a range are the logs of its blocks, in order.
LEMMA BetweenGathers ==
  ASSUME blocks \in Seq(BlockLogs), NEW first \in Int, NEW last \in Int
  PROVE  Gathers(LogsBetween(first, last), first, last)
<1> DEFINE Parts(m) == [k \in 1..m |-> Stored(first + k - 1)]
           T == {m \in Nat : Gathers(FlattenSeq(Parts(m)), first, first + m - 1)}
<1>1. \A n : Stored(n) \in Seq(Logs)
  BY StoredType
<1>2. ASSUME NEW m \in Nat PROVE Parts(m) \in Seq(Seq(Logs)) /\ Len(Parts(m)) = m
  <2> DEFINE f == Parts(m)
  <2>1. f = [k \in 1..m |-> f[k]] /\ \A k \in 1..m : f[k] \in Seq(Logs)
    BY <1>1
  <2> HIDE DEF f
  <2>2. f \in Seq(Seq(Logs)) /\ Len(f) = m
    BY <2>1, IntervalIsSequence
  <2> QED
    BY <2>2 DEF f
<1>3. 0 \in T
  <2>1. Parts(0) = <<>>
    <3>1. Parts(0) \in Seq(Seq(Logs)) /\ Len(Parts(0)) = 0
      BY <1>2
    <3> HIDE DEF Parts
    <3> QED
      BY <3>1
  <2>2. FlattenSeq(<<>>) = <<>>
    BY DEF FlattenSeq
  <2>3. Gathers(<<>>, first, first + 0 - 1)
    BY GathersNone
  <2> QED
    BY <2>1, <2>2, <2>3, Zenon
<1>4. ASSUME NEW m \in Nat, m \in T PROVE m + 1 \in T
  <2> DEFINE p == Parts(m)
             q == Parts(m + 1)
             s == Stored(first + m)
             l == first + m - 1
  <2>1. /\ p \in Seq(Seq(Logs)) /\ Len(p) = m
        /\ q \in Seq(Seq(Logs)) /\ Len(q) = m + 1
    <3>1. m + 1 \in Nat
      OBVIOUS
    <3> HIDE DEF Parts
    <3> QED
      BY <1>2, <3>1, Zenon
  <2>2. \A k \in 1..m : q[k] = p[k]
    OBVIOUS
  <2>3. q[m + 1] = s
    <3>1. m + 1 \in 1..(m + 1) /\ first + (m + 1) - 1 = first + m
      OBVIOUS
    <3>2. q[m + 1] = Stored(first + (m + 1) - 1)
      BY <3>1
    <3> QED
      BY <3>1, <3>2, Zenon
  <2>4. s \in Seq(Logs)
    BY <1>1
  <2>5. Gathers(FlattenSeq(p), first, l)
    BY <1>4
  <2>6. l \in Int /\ first <= l + 1 /\ l + 1 = first + m /\ first + (m + 1) - 1 = l + 1
    OBVIOUS
  <2> HIDE DEF p, q, l
  <2>7. q = Append(p, s)
    <3> HIDE DEF s
    <3>1. Append(p, s) \in Seq(Seq(Logs)) /\ Len(Append(p, s)) = m + 1
      BY <2>1, <2>4
    <3>2. \A k \in 1..(m + 1) : q[k] = Append(p, s)[k]
      BY <2>1, <2>2, <2>3, <2>4
    <3> QED
      BY <2>1, <3>1, <3>2, SeqEqual
  <2>8. FlattenSeq(q) = FlattenSeq(p) \o s
    BY <2>1, <2>4, <2>7, FlattenAppend
  <2>9. Gathers(FlattenSeq(p) \o Stored(l + 1), first, l + 1)
    BY <2>5, <2>6, GathersNext
  <2>10. Gathers(FlattenSeq(q), first, first + (m + 1) - 1)
    BY <2>6, <2>8, <2>9, Zenon
  <2> QED
    BY <2>10 DEF q
<1> HIDE DEF T
<1>5. Nat \subseteq T
  BY <1>3, <1>4, Induction
<1>6. CASE last < first
  BY <1>6, GathersNone DEF LogsBetween
<1>7. CASE ~(last < first)
  <2> DEFINE m == last - first + 1
  <2>1. m \in Nat /\ first + m - 1 = last
    BY <1>7
  <2>2. LogsBetween(first, last) = FlattenSeq(Parts(m))
    BY <1>7 DEF LogsBetween
  <2> HIDE DEF m
  <2>3. Gathers(FlattenSeq(Parts(m)), first, first + m - 1)
    BY <1>5, <2>1 DEF T
  <2> QED
    BY <2>1, <2>2, <2>3, Zenon
<1> QED
  BY <1>6, <1>7

IsSelection(r, s, keep) ==
  /\ r \in Seq(Logs)
  /\ \A j \in DOMAIN r : \E k \in DOMAIN s : k \in keep /\ r[j] = s[k]
  /\ \A k \in DOMAIN s : k \in keep => \E j \in DOMAIN r : r[j] = s[k]
  /\ Sorted(r)

LEMMA SelectedSorted ==
  ASSUME NEW s \in Seq(Logs), Sorted(s), NEW keep
  PROVE  IsSelection(Selected(s, keep), s, keep)
<1> DEFINE r == Selected(s, keep)
<1>0. r \in Seq(Logs) /\ \E h : Enumerates(h, r, s, keep, Len(s))
  BY SelectedEnumerates
<1> HIDE DEF r
<1>1. r \in Seq(Logs)
  BY <1>0
<1>2. PICK h : Enumerates(h, r, s, keep, Len(s))
  BY <1>0
<1>3. DOMAIN r = 1..Len(r) /\ DOMAIN s = 1..Len(s)
  BY <1>1
<1>4. /\ \A j \in DOMAIN r : h[j] \in DOMAIN s /\ h[j] \in keep /\ r[j] = s[h[j]]
      /\ \A j, k \in DOMAIN r : j < k => h[j] < h[k]
      /\ \A k \in DOMAIN s : k \in keep => \E j \in DOMAIN r : h[j] = k
  BY <1>2, <1>3 DEF Enumerates
<1>5. Sorted(r)
  <2> SUFFICES ASSUME NEW j \in DOMAIN r, NEW k \in DOMAIN r, j < k
               PROVE  Earlier(r[j], r[k])
    BY DEF Sorted
  <2>1. h[j] \in DOMAIN s /\ h[k] \in DOMAIN s /\ h[j] < h[k] /\ r[j] = s[h[j]] /\ r[k] = s[h[k]]
    BY <1>4
  <2>2. Earlier(s[h[j]], s[h[k]])
    BY <2>1 DEF Sorted
  <2> QED
    BY <2>1, <2>2
<1>6. ASSUME NEW k \in DOMAIN s, k \in keep PROVE \E j \in DOMAIN r : r[j] = s[k]
  BY <1>4, <1>6
<1>7. ASSUME NEW j \in DOMAIN r PROVE \E k \in DOMAIN s : k \in keep /\ r[j] = s[k]
  BY <1>4
<1>8. IsSelection(r, s, keep)
  BY <1>1, <1>5, <1>6, <1>7 DEF IsSelection
<1> QED
  BY <1>8 DEF r

LEMMA EntryMatches ==
  \A n, k : Matches(Entry(n, k)) <=> Matches(blocks[n][k])
<1>1. \A n, k : Entry(n, k).address = blocks[n][k].address /\ Entry(n, k).topics = blocks[n][k].topics
  BY DEF Entry
<1> QED
  BY <1>1, Zenon DEF Matches

\* s is the list of those that match, or of the first ones.
GathersMatching(s, first, last, partial) ==
  /\ s \in Seq(Logs)
  /\ \A j \in DOMAIN s : IsBetween(s[j], first, last) /\ Matches(s[j])
  /\ \A n \in DOMAIN blocks : first <= n /\ n <= last =>
       \A k \in DOMAIN blocks[n] : Matches(blocks[n][k]) =>
         (\E j \in DOMAIN s : s[j] = Entry(n, k)) \/ (partial /\ Behind(s, n, k))
  /\ Sorted(s)

LEMMA QueryGathers ==
  ASSUME blocks \in Seq(BlockLogs), NEW first \in Int, NEW last \in Int, NEW stop \in Nat
  PROVE  GathersMatching(QueryLogs(first, last + 1, stop), first, last, stop < Len(LogsBetween(first, last)))
<1> DEFINE r == QueryLogs(first, last + 1, stop)
           found == LogsBetween(first, last)
           keep == {k \in DOMAIN found : k <= stop /\ Matches(found[k])}
<1>1. Gathers(found, first, last)
  BY BetweenGathers
<1>2. r = Selected(found, keep)
  <2>1. (last + 1) - 1 = last
    OBVIOUS
  <2>2. r = Selected(LogsBetween(first, (last + 1) - 1),
                     {k \in DOMAIN LogsBetween(first, (last + 1) - 1) :
                        k <= stop /\ Matches(LogsBetween(first, (last + 1) - 1)[k])})
    BY Zenon DEF QueryLogs, Matches
  <2> QED
    BY <2>1, <2>2, Zenon
<1> HIDE DEF r, found
<1>3. /\ found \in Seq(Logs) /\ Sorted(found)
      /\ \A j \in DOMAIN found : IsBetween(found[j], first, last)
      /\ \A n \in DOMAIN blocks : first <= n /\ n <= last =>
           \A k \in DOMAIN blocks[n] : \E j \in DOMAIN found : found[j] = Entry(n, k)
  BY <1>1 DEF Gathers
<1>4. \A k : k \in keep <=> k \in DOMAIN found /\ k <= stop /\ Matches(found[k])
  OBVIOUS
<1> HIDE DEF keep
<1>5. /\ r \in Seq(Logs)
      /\ \A j \in DOMAIN r : \E k \in DOMAIN found : k \in keep /\ r[j] = found[k]
      /\ \A k \in DOMAIN found : k \in keep => \E j \in DOMAIN r : r[j] = found[k]
      /\ Sorted(r)
  <2>1. IsSelection(Selected(found, keep), found, keep)
    BY <1>3, SelectedSorted
  <2> QED
    BY <1>2, <2>1 DEF IsSelection
<1>6. ASSUME NEW j \in DOMAIN r PROVE IsBetween(r[j], first, last) /\ Matches(r[j])
  <2>1. PICK k \in DOMAIN found : k \in keep /\ r[j] = found[k]
    BY <1>5
  <2> QED
    BY <1>3, <1>4, <2>1, Zenon
<1>7. ASSUME NEW n \in DOMAIN blocks, first <= n, n <= last, NEW k \in DOMAIN blocks[n], Matches(blocks[n][k])
      PROVE  (\E j \in DOMAIN r : r[j] = Entry(n, k)) \/ (stop < Len(found) /\ Behind(r, n, k))
  <2>1. PICK m \in DOMAIN found : found[m] = Entry(n, k)
    BY <1>3, <1>7, Zenon
  <2>2. Matches(found[m])
    BY <1>7, <2>1, EntryMatches, Zenon
  <2>3. CASE m <= stop
    <3>1. m \in keep
      BY <1>4, <2>2, <2>3, Zenon
    <3>2. PICK j \in DOMAIN r : r[j] = found[m]
      BY <1>5, <3>1, Zenon
    <3> QED
      BY <2>1, <3>2, Zenon
  <2>4. CASE ~(m <= stop)
    <3>1. m \in Nat /\ m <= Len(found) /\ Len(found) \in Nat
      BY <1>3
    <3>2. stop < m /\ stop < Len(found)
      BY <2>4, <3>1
    <3>3. found[m].blockNumber = n /\ found[m].index = k
      BY <2>1, EntryFields
    <3>4. ASSUME NEW j \in DOMAIN r PROVE r[j].blockNumber < n \/ (r[j].blockNumber = n /\ r[j].index < k)
      <4>1. PICK l \in DOMAIN found : l \in keep /\ r[j] = found[l]
        BY <1>5
      <4>2. l <= stop /\ l \in Nat
        BY <1>3, <1>4, <4>1
      <4>3. l < m
        BY <3>1, <3>2, <4>2
      <4>4. Earlier(found[l], found[m])
        BY <1>3, <4>3 DEF Sorted
      <4> QED
        BY <3>3, <4>1, <4>4, Zenon DEF Earlier
    <3> QED
      BY <3>2, <3>4, Zenon DEF Behind
  <2> QED
    BY <2>3, <2>4
<1>8. GathersMatching(r, first, last, stop < Len(found))
  BY <1>5, <1>6, <1>7, Zenon DEF GathersMatching
<1> QED
  BY <1>8 DEF r, found

\* Wanted is a set of logs of the blocks 1..n.
LEMMA WantedIs ==
  ASSUME blocks \in Seq(BlockLogs), crit \in Criteria,
         NEW n \in Nat, n <= Len(blocks), NEW low \in Nat, NEW high \in Nat, NEW log
  PROVE  log \in Wanted(n, low, high) <=>
           IsBetween(log, 1, n) /\ Floor(low) <= log.blockNumber /\ log.blockNumber <= Ceiling(high) /\ Matches(log)
<1> DEFINE found == LogsBetween(1, n)
           one == [crit EXCEPT !.fromBlock = Floor(low), !.toBlock = Ceiling(high)]
           keep == {k \in DOMAIN found : Selects(one, found[k])}
           r == Selected(found, keep)
<1>1. /\ crit \in [fromBlock : Int, toBlock : Int, addresses : {crit.addresses}, topics : {crit.topics}, blockHash : Nat]
      /\ crit.fromBlock \in Int /\ crit.toBlock \in Int /\ crit.blockHash \in Nat
  <2>1. crit \in [fromBlock : Int, toBlock : Int, addresses : {crit.addresses}, topics : {crit.topics}, blockHash : Nat]
    BY QueryAssumption
  <2> QED
    BY <2>1
<1>2. Floor(low) \in Nat /\ Ceiling(high) \in Nat
  BY <1>1 DEF Floor, Ceiling
<1>3. /\ one.fromBlock = Floor(low) /\ one.toBlock = Ceiling(high)
      /\ one.addresses = crit.addresses /\ one.topics = crit.topics
  <2>1. DOMAIN crit = {"fromBlock", "toBlock", "addresses", "topics", "blockHash"}
    BY <1>1
  <2> QED
    BY <2>1
<1>4. Wanted(n, low, high) = Range(r)
  BY DEF Wanted, filterLogs, Floor, Ceiling
<1>5. Gathers(found, 1, n)
  BY BetweenGathers
<1> HIDE DEF found, one
<1>6. ASSUME NEW k \in DOMAIN found
      PROVE  /\ IsBetween(found[k], 1, n)
             /\ k \in keep <=> /\ Floor(low) <= found[k].blockNumber /\ found[k].blockNumber <= Ceiling(high)
                               /\ Matches(found[k])
  <2>1. IsBetween(found[k], 1, n)
    BY <1>5, Zenon DEF Gathers
  <2>2. found[k].blockNumber \in Nat
    BY <2>1 DEF IsBetween
  <2>3. Selects(one, found[k]) <=> /\ Floor(low) <= found[k].blockNumber /\ found[k].blockNumber <= Ceiling(high)
                                   /\ filterFunc(found[k].address, found[k].topics, one.addresses, one.topics)
    BY <1>2, <1>3, <2>2 DEF Selects
  <2>4. Selects(one, found[k]) <=> /\ Floor(low) <= found[k].blockNumber /\ found[k].blockNumber <= Ceiling(high)
                                   /\ Matches(found[k])
    BY <1>3, <2>3, Zenon DEF Matches
  <2> QED
    BY <2>1, <2>4
<1> HIDE DEF keep
<1>7. /\ r \in Seq(Logs)
      /\ \A j \in DOMAIN r : \E k \in DOMAIN found : k \in keep /\ r[j] = found[k]
      /\ \A k \in DOMAIN found : k \in keep => \E j \in DOMAIN r : r[j] = found[k]
  <2>1. found \in Seq(Logs) /\ Sorted(found)
    BY <1>5 DEF Gathers
  <2>2. IsSelection(r, found, keep)
    BY <2>1, SelectedSorted
  <2> HIDE DEF r
  <2> QED
    BY <2>2 DEF IsSelection
<1> HIDE DEF r
<1>8. log \in Range(r) <=> \E j \in DOMAIN r : r[j] = log
  BY DEF Range
<1>9. ASSUME NEW j \in DOMAIN r, r[j] = log
      PROVE  IsBetween(log, 1, n) /\ Floor(low) <= log.blockNumber /\ log.blockNumber <= Ceiling(high) /\ Matches(log)
  <2>1. PICK k \in DOMAIN found : k \in keep /\ r[j] = found[k]
    BY <1>7
  <2>2. found[k] = log
    BY <1>9, <2>1
  <2> QED
    BY <1>6, <2>1, <2>2, Zenon
<1>10. ASSUME IsBetween(log, 1, n), Floor(low) <= log.blockNumber, log.blockNumber <= Ceiling(high), Matches(log)
       PROVE  \E j \in DOMAIN r : r[j] = log
  <2>1. PICK k \in DOMAIN found : found[k] = log
    <3>1. \E k \in DOMAIN found : found[k] = Entry(log.blockNumber, log.index)
      BY <1>5, <1>10, Zenon DEF Gathers, IsBetween
    <3> QED
      BY <1>10, <3>1, Zenon DEF IsBetween
  <2>2. k \in keep
    BY <1>6, <1>10, <2>1, Zenon
  <2>3. PICK j \in DOMAIN r : r[j] = found[k]
    BY <1>7, <2>2
  <2> QED
    BY <2>1, <2>3
<1> QED
  BY <1>4, <1>8, <1>9, <1>10, Zenon

-----------------------------------------------------------------------------
(* The invariant is inductive *)

LEMMA CritType ==
  ASSUME crit \in Criteria
  PROVE  /\ crit.fromBlock \in Int /\ crit.toBlock \in Int /\ crit.blockHash \in Nat
<1>1. crit \in [fromBlock : Int, toBlock : Int, addresses : {crit.addresses}, topics : {crit.topics}, blockHash : Nat]
  BY QueryAssumption
<1> QED
  BY <1>1

LEMMA FloorType ==
  ASSUME crit \in Criteria
  PROVE  /\ \A h \in Nat : Floor(h) \in Nat /\ Ceiling(h) \in Nat
         /\ \A g, h \in Nat : g <= h => Floor(g) <= Floor(h) /\ Ceiling(g) <= Ceiling(h)
BY CritType DEF Floor, Ceiling

\* Blocks are only added.
Grown ==
  /\ Len(blocks) <= Len(blocks')
  /\ \A n \in DOMAIN blocks : n \in DOMAIN blocks' /\ blocks'[n] = blocks[n]

LEMMA BlocksGrow ==
  ASSUME TypeInv, Next
  PROVE  Grown /\ crit' = crit
<1>1. blocks \in Seq(BlockLogs)
  BY DEF TypeInv
<1>2. crit' = crit
  BY Zenon DEF Next, NewBlock, NodeMoves, GetLogs, LookupHash, ResolveBegin, ResolveEnd, getLogsByBlockNumberRange,
     RangeDone, Query, StoreFails, GetConfirmations, GetConfirmationsFails, RefreshDone
<1>3. CASE blocks' = blocks
  <2>1. Len(blocks) <= Len(blocks')
    BY <1>1, <1>3
  <2>2. \A n \in DOMAIN blocks : n \in DOMAIN blocks' /\ blocks'[n] = blocks[n]
    BY <1>3
  <2> QED
    BY <1>2, <2>1, <2>2, Zenon DEF Grown
<1>4. ASSUME NEW content \in BlockLogs, blocks' = Append(blocks, content) PROVE Grown
  BY <1>1, <1>4 DEF Grown
<1>5. blocks' = blocks \/ \E content \in BlockLogs : blocks' = Append(blocks, content)
  BY Zenon DEF Next, NewBlock, NodeMoves, GetLogs, LookupHash, ResolveBegin, ResolveEnd, getLogsByBlockNumberRange,
     RangeDone, Query, StoreFails, GetConfirmations, GetConfirmationsFails, RefreshDone, envVars
<1> QED
  BY <1>2, <1>3, <1>4, <1>5

LEMMA FloorGrows ==
  ASSUME TypeInv, Grown, crit' = crit, before' = before, Len(blocks') \in Nat
  PROVE  /\ (Floor(before))' = Floor(before) /\ (Ceiling(before))' = Ceiling(before)
         /\ Floor(Len(blocks)) <= (Floor(Len(blocks)))' /\ Ceiling(Len(blocks)) <= (Ceiling(Len(blocks)))'
         /\ Floor(Len(blocks)) \in Nat /\ (Floor(Len(blocks)))' \in Nat /\ Floor(before) \in Nat
         /\ Ceiling(Len(blocks)) \in Nat /\ (Ceiling(Len(blocks)))' \in Nat /\ Ceiling(before) \in Nat
<1>1. Len(blocks) \in Nat /\ before \in Nat /\ crit \in Criteria
  BY DEF TypeInv
<1>2. Len(blocks) <= Len(blocks')
  BY DEF Grown
<1>3. /\ (Floor(Len(blocks)))' = Floor(Len(blocks')) /\ (Floor(before))' = Floor(before)
      /\ (Ceiling(Len(blocks)))' = Ceiling(Len(blocks')) /\ (Ceiling(before))' = Ceiling(before)
  BY DEF Floor, Ceiling
<1>4. /\ \A h \in Nat : Floor(h) \in Nat /\ Ceiling(h) \in Nat
      /\ \A g, h \in Nat : g <= h => Floor(g) <= Floor(h) /\ Ceiling(g) <= Ceiling(h)
  BY <1>1, FloorType
<1> QED
  BY <1>1, <1>2, <1>3, <1>4, Zenon

LEMMA StandsFrame ==
  ASSUME TypeInv, Grown, UNCHANGED <<crit, before, end>>, begin' \in Int, begin <= begin', NEW log, Stands(log)
  PROVE  Stands(log)'
<1>1. (Floor(before))' = Floor(before)
  BY DEF Floor
<1>2. /\ log.blockNumber \in DOMAIN blocks /\ log.index \in DOMAIN blocks[log.blockNumber]
      /\ log.address = blocks[log.blockNumber][log.index].address
      /\ log.topics = blocks[log.blockNumber][log.index].topics
      /\ Floor(before) <= log.blockNumber /\ log.blockNumber <= end
      /\ Matches(log)
  BY DEF Stands
<1>3. log.blockNumber \in DOMAIN blocks' /\ blocks'[log.blockNumber] = blocks[log.blockNumber]
  BY <1>2 DEF Grown
<1>4. Matches(log)'
  BY <1>2 DEF Matches
<1>5. ByRange' = ByRange
  BY DEF ByRange
<1>6. ByRange => log.blockNumber < begin'
  <2>1. begin \in Int /\ log.blockNumber \in Nat
    BY <1>2 DEF TypeInv
  <2>2. ByRange => log.blockNumber < begin
    BY DEF Stands
  <2> QED
    BY <2>1, <2>2
<1> QED
  BY <1>1, <1>2, <1>3, <1>4, <1>5, <1>6, Zenon DEF Stands

LEMMA CollectFrame ==
  ASSUME TypeInv, CollectInv, Grown, Len(blocks') \in Nat, UNCHANGED <<crit, before, begin, end, fetched, logs, cut>>,
         pc' \in Reading => pc \in Reading
  PROVE  CollectInv'
<1>1. begin' \in Int /\ begin <= begin'
  BY DEF TypeInv
<1>2. \A log : Stands(log) => Stands(log)'
  BY <1>1, StandsFrame
<1>3. (\A j \in DOMAIN fetched : Stands(fetched[j]))'
  BY <1>2 DEF CollectInv
<1>4. (\A j \in DOMAIN logs : Stands(logs[j]))'
  BY <1>2 DEF CollectInv
<1>5. (Sorted(fetched) /\ Sorted(logs))'
  BY DEF CollectInv, Sorted, Earlier
<1>6. (\A j \in DOMAIN logs, k \in DOMAIN fetched : Earlier(logs[j], fetched[k]))'
  BY DEF CollectInv, Earlier
<1>7. ASSUME pc' \in Reading, NEW n \in 1..before, NEW k \in DOMAIN blocks'[n],
             (Floor(Len(blocks)))' <= n, n <= end, ByRange' => n < begin, Matches(blocks[n][k])'
      PROVE  Accounted(n, k)'
  <2>1. n \in DOMAIN blocks /\ blocks'[n] = blocks[n] /\ n \in Nat
    BY DEF TypeInv, Grown
  <2>2. Floor(Len(blocks)) <= n
    <3>1. /\ Floor(Len(blocks)) <= (Floor(Len(blocks)))'
          /\ Floor(Len(blocks)) \in Nat /\ (Floor(Len(blocks)))' \in Nat
      BY FloorGrows
    <3> QED
      BY <1>7, <2>1, <3>1
  <2>3. (ByRange => n < begin) /\ Matches(blocks[n][k])
    BY <1>7, <2>1 DEF ByRange, Matches
  <2>4. Accounted(n, k)
    BY <1>7, <2>1, <2>2, <2>3 DEF CollectInv
  <2> QED
    BY <2>4, Zenon DEF Accounted, Lists, Behind
<1> QED
  BY <1>3, <1>4, <1>5, <1>6, <1>7 DEF CollectInv

LEMMA ExistFrame ==
  ASSUME ExistInv, Grown, UNCHANGED <<fetched, logs>>
  PROVE  ExistInv'
<1>1. \A log : InBlocks(log) => InBlocks(log)'
  BY DEF InBlocks, Grown
<1> QED
  BY <1>1, Zenon DEF ExistInv

LEMMA CollectNothing ==
  ASSUME fetched' = <<>>, logs' = <<>>
  PROVE  ExistInv' /\ (pc' \notin Reading => CollectInv')
BY DEF CollectInv, Sorted, ExistInv

\* The log whose count is asked for.
LEMMA HeadExists ==
  ASSUME TypeInv, ControlInv, ExistInv, fetched # <<>>
  PROVE  /\ pc = "refresh" /\ Head(fetched) \in Logs
         /\ Count \in Counting
         /\ <<Head(fetched).blockNumber, Head(fetched).index, Count>> \in Counts(blocks, confirmations)
<1> DEFINE log == Head(fetched)
<1>1. fetched \in Seq(Logs) /\ pc = "refresh"
  BY DEF TypeInv, ControlInv
<1>2. log \in Logs /\ 1 \in DOMAIN fetched /\ log = fetched[1]
  BY <1>1
<1>4. log.blockNumber \in DOMAIN blocks /\ log.index \in DOMAIN blocks[log.blockNumber]
  BY <1>2, Zenon DEF ExistInv, InBlocks
<1>5. confirmations[log.blockNumber] \in [DOMAIN blocks[log.blockNumber] -> Counting]
  BY <1>4 DEF TypeInv
<1>6. Count = confirmations[log.blockNumber][log.index]
  BY DEF Count
<1>7. Count \in Counting
  BY <1>4, <1>5, <1>6
<1> HIDE DEF log
<1>8. <<log.blockNumber, log.index, confirmations[log.blockNumber][log.index]>> \in Counts(blocks, confirmations)
  BY <1>4 DEF Counts
<1>9. <<log.blockNumber, log.index, Count>> \in Counts(blocks, confirmations)
  BY <1>6, <1>8
<1> QED
  BY <1>1, <1>2, <1>7, <1>9 DEF log

LEMMA RefreshedLog ==
  ASSUME NEW log \in Logs, NEW c \in Counting, NEW new, new = [log EXCEPT !.data = LatestConfirmations(c)]
  PROVE  /\ new \in Logs
         /\ new.blockNumber = log.blockNumber /\ new.index = log.index
         /\ new.address = log.address /\ new.topics = log.topics
         /\ new.data = LatestConfirmations(c)
<1>1. LatestConfirmations(c) \in Counting \cup {0, AllOne}
  BY DEF LatestConfirmations
<1> QED
  BY <1>1 DEF Logs

LEMMA RefreshKeeps ==
  ASSUME TypeInv, ExistInv, fetched # <<>>, NEW c \in Counting, Refreshed(c), UNCHANGED blocks
  PROVE  ExistInv' /\ fetched' \in Seq(Logs) /\ logs' \in Seq(Logs)
<1> DEFINE first == fetched[1]
           new == [first EXCEPT !.data = LatestConfirmations(c)]
<1>1. fetched \in Seq(Logs) /\ logs \in Seq(Logs)
  BY DEF TypeInv
<1>2. first \in Logs /\ 1 \in DOMAIN fetched /\ Head(fetched) = first
  BY <1>1
<1>3. InBlocks(first)
  BY <1>2, Zenon DEF ExistInv
<1>4. fetched' = Tail(fetched) /\ logs' = Append(logs, new)
  BY <1>2 DEF Refreshed
<1> HIDE DEF first
<1>5. new \in Logs /\ new.blockNumber = first.blockNumber /\ new.index = first.index
  BY <1>2, RefreshedLog
<1> HIDE DEF new
<1>6. logs' \in Seq(Logs) /\ \A j \in DOMAIN logs' : (j \in DOMAIN logs /\ logs'[j] = logs[j]) \/ logs'[j] = new
  BY <1>1, <1>4, <1>5
<1>7. fetched' \in Seq(Logs) /\ \A j \in DOMAIN fetched' : j + 1 \in DOMAIN fetched /\ fetched'[j] = fetched[j + 1]
  BY <1>1, <1>4
<1>8. InBlocks(new)
  BY <1>3, <1>5, Zenon DEF InBlocks
<1>9. \A log : InBlocks(log) => InBlocks(log)'
  BY DEF InBlocks
<1>10. (\A j \in DOMAIN logs : InBlocks(logs[j]))'
  BY <1>6, <1>8, <1>9, Zenon DEF ExistInv
<1>11. (\A j \in DOMAIN fetched : InBlocks(fetched[j]))'
  BY <1>7, <1>9, Zenon DEF ExistInv
<1> QED
  BY <1>6, <1>7, <1>10, <1>11, Zenon DEF ExistInv

LEMMA RefreshCollects ==
  ASSUME TypeInv, ControlInv, CollectInv, fetched # <<>>, NEW c \in Counting, Refreshed(c),
         UNCHANGED <<blocks, pc, crit, begin, end, cut, before>>
  PROVE  CollectInv'
<1> DEFINE first == fetched[1]
           new == [first EXCEPT !.data = LatestConfirmations(c)]
           m == Len(logs)
<1>1. fetched \in Seq(Logs) /\ logs \in Seq(Logs) /\ blocks \in Seq(BlockLogs) /\ m \in Nat
  BY DEF TypeInv
<1>2. first \in Logs /\ 1 \in DOMAIN fetched /\ Head(fetched) = first
  BY <1>1
<1>3. Stands(first)
  BY <1>2 DEF CollectInv
<1>4. fetched' = Tail(fetched) /\ logs' = Append(logs, new)
  BY <1>2 DEF Refreshed
<1> HIDE DEF first
<1>5. /\ new \in Logs
      /\ new.blockNumber = first.blockNumber /\ new.index = first.index
      /\ new.address = first.address /\ new.topics = first.topics
  BY <1>2, RefreshedLog
<1> HIDE DEF new, m
<1>6. /\ logs' \in Seq(Logs) /\ DOMAIN logs' = 1..(m + 1) /\ DOMAIN logs = 1..m
      /\ \A j \in 1..m : logs'[j] = logs[j]
      /\ logs'[m + 1] = new
  BY <1>1, <1>4, <1>5 DEF m
<1>7. /\ fetched' \in Seq(Logs)
      /\ \A j \in DOMAIN fetched' : j + 1 \in DOMAIN fetched /\ fetched'[j] = fetched[j + 1] /\ j \in Nat /\ 1 < j + 1
      /\ \A j \in DOMAIN fetched : j # 1 => j - 1 \in DOMAIN fetched' /\ fetched'[j - 1] = fetched[j]
  BY <1>1, <1>4
<1>8. Stands(new)
  BY <1>3, <1>5 DEF Stands, Matches
<1>9. \A log : Stands(log) => Stands(log)'
  BY DEF Stands, Matches, Floor, ByRange
<1>10. (\A j \in DOMAIN fetched : Stands(fetched[j]))'
  BY <1>7, <1>9 DEF CollectInv
<1>11. \A j \in DOMAIN logs' : (j \in DOMAIN logs /\ logs'[j] = logs[j]) \/ (j = m + 1 /\ logs'[j] = new)
  BY <1>1, <1>6
<1>12. (\A j \in DOMAIN logs : Stands(logs[j]))'
  <2>1. \A j \in DOMAIN logs' : Stands(logs'[j])
    BY <1>8, <1>11 DEF CollectInv
  <2> QED
    BY <1>9, <2>1
<1>13. /\ \A log : Earlier(log, first) => Earlier(log, new)
       /\ \A log : Earlier(first, log) => Earlier(new, log)
  BY <1>5 DEF Earlier
<1>14. Sorted(logs')
  <2> SUFFICES ASSUME NEW j \in DOMAIN logs', NEW k \in DOMAIN logs', j < k PROVE Earlier(logs'[j], logs'[k])
    BY DEF Sorted
  <2>1. j \in DOMAIN logs /\ logs'[j] = logs[j]
    BY <1>1, <1>6
  <2>2. CASE k \in DOMAIN logs /\ logs'[k] = logs[k]
    BY <2>1, <2>2 DEF CollectInv, Sorted
  <2>3. CASE k = m + 1 /\ logs'[k] = new
    <3>1. Earlier(logs[j], first)
      BY <1>2, <2>1 DEF CollectInv, first
    <3> QED
      BY <1>13, <2>1, <2>3, <3>1
  <2> QED
    BY <1>11, <2>2, <2>3
<1>15. Sorted(fetched')
  <2> SUFFICES ASSUME NEW j \in DOMAIN fetched', NEW k \in DOMAIN fetched', j < k PROVE Earlier(fetched'[j], fetched'[k])
    BY DEF Sorted
  <2>1. /\ j + 1 \in DOMAIN fetched /\ k + 1 \in DOMAIN fetched /\ j + 1 < k + 1
        /\ fetched'[j] = fetched[j + 1] /\ fetched'[k] = fetched[k + 1]
    BY <1>7
  <2> QED
    BY <2>1 DEF CollectInv, Sorted
<1>16. ASSUME NEW j \in DOMAIN logs', NEW k \in DOMAIN fetched' PROVE Earlier(logs'[j], fetched'[k])
  <2>1. k + 1 \in DOMAIN fetched /\ fetched'[k] = fetched[k + 1] /\ 1 < k + 1
    BY <1>7
  <2>2. CASE j \in DOMAIN logs /\ logs'[j] = logs[j]
    BY <2>1, <2>2 DEF CollectInv
  <2>3. CASE j = m + 1 /\ logs'[j] = new
    <3>1. Earlier(first, fetched[k + 1])
      BY <1>2, <2>1 DEF CollectInv, Sorted, first
    <3> QED
      BY <1>13, <2>1, <2>3, <3>1
  <2> QED
    BY <1>11, <2>2, <2>3
<1>17. ASSUME NEW n, NEW k, Lists(logs, n, k) \/ Lists(fetched, n, k)
       PROVE  Lists(logs', n, k) \/ Lists(fetched', n, k)
  <2>1. CASE Lists(logs, n, k)
    BY <1>1, <1>6, <2>1 DEF Lists
  <2>2. ASSUME NEW j \in DOMAIN fetched, fetched[j].blockNumber = n, fetched[j].index = k
        PROVE  Lists(logs', n, k) \/ Lists(fetched', n, k)
    <3>1. CASE j = 1
      <4>1. m + 1 \in DOMAIN logs' /\ logs'[m + 1].blockNumber = n /\ logs'[m + 1].index = k
        BY <1>1, <1>5, <1>6, <2>2, <3>1 DEF first
      <4> QED
        BY <4>1 DEF Lists
    <3>2. CASE j # 1
      BY <1>7, <2>2, <3>2 DEF Lists
    <3> QED
      BY <3>1, <3>2
  <2> QED
    BY <1>17, <2>1, <2>2 DEF Lists
<1>18. ASSUME NEW n, NEW k, Behind(logs, n, k), Behind(fetched, n, k)
       PROVE  Behind(logs', n, k) /\ Behind(fetched', n, k)
  <2>1. first.blockNumber < n \/ (first.blockNumber = n /\ first.index < k)
    BY <1>2, <1>18, Zenon DEF Behind, first
  <2>2. new.blockNumber < n \/ (new.blockNumber = n /\ new.index < k)
    BY <1>5, <2>1, Zenon
  <2>3. Behind(logs', n, k)
    BY <1>11, <1>18, <2>2, Zenon DEF Behind
  <2>4. ASSUME NEW j \in DOMAIN fetched'
        PROVE  fetched'[j].blockNumber < n \/ (fetched'[j].blockNumber = n /\ fetched'[j].index < k)
    <3>1. j + 1 \in DOMAIN fetched /\ fetched'[j] = fetched[j + 1]
      BY <1>7
    <3>2. fetched[j + 1].blockNumber < n \/ (fetched[j + 1].blockNumber = n /\ fetched[j + 1].index < k)
      BY <1>18, <3>1, Zenon DEF Behind
    <3> QED
      BY <3>1, <3>2, Zenon
  <2> QED
    BY <2>3, <2>4, Zenon DEF Behind
<1>19. (pc \in Reading =>
          \A n \in 1..before : \A k \in DOMAIN blocks[n] :
            /\ Floor(Len(blocks)) <= n /\ n <= end
            /\ ByRange => n < begin
            /\ Matches(blocks[n][k])
            => Accounted(n, k))'
  <2> SUFFICES ASSUME pc' \in Reading, NEW n \in 1..before', NEW k \in DOMAIN blocks'[n],
                      (Floor(Len(blocks)))' <= n, n <= end', ByRange' => n < begin', Matches(blocks[n][k])'
               PROVE  Accounted(n, k)'
    OBVIOUS
  <2>1. (Floor(Len(blocks)))' = Floor(Len(blocks)) /\ ByRange' = ByRange /\ Matches(blocks[n][k])' = Matches(blocks[n][k])
    BY DEF Floor, ByRange, Matches
  <2>2. Accounted(n, k)
    BY <2>1 DEF CollectInv
  <2>3. \/ Lists(logs', n, k) \/ Lists(fetched', n, k)
        \/ cut' /\ Behind(logs', n, k) /\ Behind(fetched', n, k)
    BY <1>17, <1>18, <2>2, Zenon DEF Accounted
  <2> QED
    BY <2>3, Zenon DEF Accounted, Lists, Behind
<1> QED
  BY <1>10, <1>12, <1>14, <1>15, <1>16, <1>19 DEF CollectInv, Sorted

\* Where nothing but the history and the node differ.
LEMMA RangeFrame ==
  ASSUME TypeInv, RangeInv, Grown, Len(blocks') \in Nat, UNCHANGED <<pc, crit, before, begin, end>>
  PROVE  RangeInv'
<1>1. /\ (Floor(before))' = Floor(before) /\ (Ceiling(before))' = Ceiling(before)
      /\ Floor(Len(blocks)) <= (Floor(Len(blocks)))' /\ Ceiling(Len(blocks)) <= (Ceiling(Len(blocks)))'
      /\ Floor(Len(blocks)) \in Nat /\ (Floor(Len(blocks)))' \in Nat
      /\ Ceiling(Len(blocks)) \in Nat /\ (Ceiling(Len(blocks)))' \in Nat
  BY FloorGrows
<1>2. begin \in Int /\ end \in Int
  BY DEF TypeInv
<1>3. begin <= Floor(Len(blocks)) => begin <= (Floor(Len(blocks)))'
  BY <1>1, <1>2
<1>4. end <= Ceiling(Len(blocks)) => end <= (Ceiling(Len(blocks)))'
  BY <1>1, <1>2
<1>5. \A n : n \in DOMAIN blocks => n \in DOMAIN blocks'
  BY DEF Grown
<1>6. ByRange' = ByRange
  BY DEF ByRange
<1> QED
  BY <1>1, <1>3, <1>4, <1>5, <1>6 DEF RangeInv

LEMMA Frame ==
  ASSUME TypeInv, RangeInv, ExistInv, NumbersFit => CollectInv, Grown, Len(blocks') \in Nat,
         UNCHANGED <<pc, crit, before, begin, end, fetched, logs, cut>>
  PROVE  RangeInv' /\ ExistInv' /\ (NumbersFit' => CollectInv')
<1>1. NumbersFit' = NumbersFit
  BY DEF NumbersFit
<1>2. CollectInv => CollectInv'
  BY CollectFrame
<1>3. ExistInv'
  BY ExistFrame
<1>4. RangeInv'
  BY RangeFrame
<1> QED
  BY <1>1, <1>2, <1>3, <1>4

LEMMA RefreshStep ==
  ASSUME QueryInv, fetched # <<>>, NEW c \in Counting, Refreshed(c),
         <<Head(fetched).blockNumber, Head(fetched).index, c>> \in seen,
         UNCHANGED <<envVars, pc, crit, begin, end, cut, before>>,
         i' = 0, faults' \in Nat, faults' <= MaxFaults
  PROVE  QueryInv'
<1> USE DEF QueryInv
<1>0. ExistInv' /\ fetched' \in Seq(Logs) /\ logs' \in Seq(Logs)
  BY RefreshKeeps DEF envVars
<1>1. NumbersFit' => CollectInv'
  <2>1. NumbersFit' = NumbersFit
    BY DEF NumbersFit
  <2>2. CollectInv => CollectInv'
    BY RefreshCollects DEF envVars
  <2> QED
    BY <2>1, <2>2
<1>2. blocks \in Seq(BlockLogs) /\ logs \in Seq(Logs) /\ Len(blocks) \in Nat /\ Len(blocks') \in Nat
  BY DEF TypeInv, envVars
<1>3. TypeInv'
  BY <1>0 DEF TypeInv, envVars
<1>4. Grown
  BY <1>2 DEF Grown, envVars
<1>5. RangeInv'
  BY <1>2, <1>4, RangeFrame
<1>6. pc = "refresh" /\ pc' = "refresh" /\ Head(fetched) \in Logs
  BY HeadExists
<1>7. ControlInv' /\ LimitInv'
  BY <1>6 DEF ControlInv, LimitInv, ByRange
<1>8. ConfirmationsWereTrue'
  <2> DEFINE log == Head(fetched)
             new == [log EXCEPT !.data = LatestConfirmations(c)]
             m == Len(logs)
             True(l) == \E d \in Counting : /\ <<l.blockNumber, l.index, d>> \in seen
                                            /\ l.data = IF d = Gone THEN AllOne ELSE d
  <2>1. logs' = Append(logs, new)
    BY DEF Refreshed
  <2>2. /\ new \in Logs /\ new.blockNumber = log.blockNumber /\ new.index = log.index
        /\ new.data = LatestConfirmations(c)
    BY <1>6, RefreshedLog
  <2>3. \A j \in DOMAIN logs : True(logs[j])
    BY DEF SeenInv, ConfirmationsWereTrue, Counting
  <2>4. <<log.blockNumber, log.index, c>> \in seen
    OBVIOUS
  <2> HIDE DEF new, log
  <2>5. \A j \in DOMAIN logs' : (j \in DOMAIN logs /\ logs'[j] = logs[j]) \/ logs'[j] = new
    BY <1>2, <2>1, <2>2
  <2>6. True(new)
    BY <2>2, <2>4 DEF LatestConfirmations
  <2> HIDE DEF True
  <2>7. \A j \in DOMAIN logs' : True(logs'[j])
    BY <2>3, <2>5, <2>6, Zenon
  <2> QED
    BY <2>7, Zenon DEF True, ConfirmationsWereTrue, Counting, envVars
<1>9. SeenInv'
  BY <1>6, <1>8 DEF SeenInv, envVars, Counts
<1> QED
  BY <1>0, <1>1, <1>3, <1>5, <1>7, <1>9

LEMMA GetConfirmationsStep ==
  ASSUME QueryInv, GetConfirmations
  PROVE  QueryInv'
<1>1. TypeInv /\ ControlInv /\ ExistInv /\ SeenInv
  BY DEF QueryInv
<1>2. fetched # <<>> /\ Refreshed(Count) /\ i' = 0
  BY DEF GetConfirmations, Answered
<1>3. /\ pc = "refresh" /\ Count \in Counting
      /\ <<Head(fetched).blockNumber, Head(fetched).index, Count>> \in Counts(blocks, confirmations)
  BY <1>1, <1>2, HeadExists
<1>4. <<Head(fetched).blockNumber, Head(fetched).index, Count>> \in seen
  BY <1>1, <1>3 DEF SeenInv
<1>5. UNCHANGED <<envVars, pc, crit, begin, end, cut, before>> /\ faults' \in Nat /\ faults' <= MaxFaults
  BY <1>1 DEF GetConfirmations, TypeInv
<1> QED
  BY <1>2, <1>3, <1>4, <1>5, RefreshStep

LEMMA GetConfirmationsFailsStep ==
  ASSUME QueryInv, GetConfirmationsFails
  PROVE  QueryInv'
<1>1. TypeInv /\ ControlInv /\ ExistInv /\ SeenInv /\ RangeInv /\ (NumbersFit => CollectInv)
  BY DEF QueryInv
<1>2. fetched # <<>> /\ UNCHANGED <<envVars, pc, crit, begin, end, cut, before>>
  BY DEF GetConfirmationsFails
<1>3. /\ pc = "refresh" /\ Count \in Counting
      /\ <<Head(fetched).blockNumber, Head(fetched).index, Count>> \in Counts(blocks, confirmations)
  BY <1>1, <1>2, HeadExists
<1>4. Count = Gone => GoneSeen
  BY <1>1, <1>3 DEF SeenInv, GoneSeen
<1>5. i \in Nat /\ faults \in Nat /\ faults <= MaxFaults /\ (i > faults => GoneSeen)
  BY <1>1, <1>2 DEF TypeInv, SeenInv
<1>6. faults' \in Nat /\ faults' <= MaxFaults /\ (i + 1 > faults' => GoneSeen)
  <2>1. CASE Count = Gone /\ UNCHANGED faults
    BY <1>4, <1>5, <2>1
  <2>2. CASE faults < MaxFaults /\ faults' = faults + 1
    BY <1>5, <2>2, FaultAssumption
  <2> QED
    BY <2>1, <2>2 DEF GetConfirmationsFails
<1>7. CASE Retry /\ UNCHANGED <<fetched, logs>>
  <2>1. i' = i + 1 /\ i' \in Nat
    BY <1>5, <1>7 DEF Retry
  <2>2. TypeInv'
    BY <1>1, <1>2, <1>6, <1>7, <2>1 DEF TypeInv, envVars
  <2>3. Grown /\ Len(blocks') \in Nat
    BY <1>1, <1>2 DEF Grown, envVars, TypeInv
  <2>4. RangeInv' /\ ExistInv' /\ (NumbersFit' => CollectInv')
    BY <1>1, <1>2, <1>7, <2>3, Frame
  <2>5. ControlInv' /\ LimitInv'
    BY <1>1, <1>2, <1>3, <1>7, SMTT(30) DEF ControlInv, LimitInv, ByRange
  <2>6. SeenInv'
    BY <1>1, <1>2, <1>6, <1>7, <2>1, SMTT(30) DEF SeenInv, GoneSeen, ConfirmationsWereTrue, envVars, Counts
  <2> QED
    BY <2>2, <2>4, <2>5, <2>6 DEF QueryInv
<1>8. CASE GiveUp /\ Refreshed(Gone)
  <2>1. i' = 0 /\ i + 1 > faults'
    BY <1>5, <1>6, <1>8, FaultAssumption, RetryAssumption DEF GiveUp
  <2>2. <<Head(fetched).blockNumber, Head(fetched).index, Gone>> \in seen
    BY <1>6, <2>1 DEF GoneSeen
  <2>3. Gone \in Counting
    BY QueryAssumption DEF Counting, Gone
  <2> QED
    BY <1>2, <1>6, <1>8, <2>1, <2>2, <2>3, RefreshStep
<1> QED
  BY <1>7, <1>8 DEF GetConfirmationsFails

LEMMA SeenFrame ==
  ASSUME SeenInv, seen \subseteq seen', UNCHANGED <<i, faults, fetched, logs>>,
         pc' # "called" => (Counts(blocks, confirmations))' \subseteq seen'
  PROVE  SeenInv'
<1>1. fetched' # <<>> /\ i' > faults' => GoneSeen'
  BY DEF SeenInv, GoneSeen
<1>2. ConfirmationsWereTrue'
  BY DEF SeenInv, ConfirmationsWereTrue
<1> QED
  BY <1>1, <1>2 DEF SeenInv

LEMMA CountsAre ==
  ASSUME NEW bs, NEW cs, NEW t
  PROVE  t \in Counts(bs, cs) <=> \E n \in DOMAIN bs : \E k \in DOMAIN bs[n] : t = <<n, k, cs[n][k]>>
BY DEF Counts

LEMMA NewBlockStep ==
  ASSUME QueryInv, NEW content \in BlockLogs, NEW count \in Counting, NewBlock(content, count)
  PROVE  QueryInv'
<1> DEFINE row == [k \in DOMAIN content |-> count]
           m == Len(blocks)
<1>1. TypeInv /\ ControlInv /\ LimitInv /\ SeenInv /\ RangeInv /\ ExistInv /\ (NumbersFit => CollectInv)
  BY DEF QueryInv
<1>2. /\ Len(blocks) < MaxBlocks /\ blocks' = Append(blocks, content) /\ confirmations' = Append(confirmations, row)
      /\ UNCHANGED <<moves, faults, pc, crit, begin, end, fetched, logs, cut, before, i>>
  BY DEF NewBlock
<1>3. blocks \in Seq(BlockLogs) /\ confirmations \in Seq(Rows) /\ Len(confirmations) = m /\ m \in Nat
  BY <1>1 DEF TypeInv
<1>4. row \in [DOMAIN content -> Counting] /\ row \in Rows
  BY DEF Rows
<1> HIDE DEF row, m
<1>5. /\ blocks' \in Seq(BlockLogs) /\ Len(blocks') = m + 1 /\ Len(blocks') \in Nat /\ m = Len(blocks)
      /\ DOMAIN blocks' = 1..(m + 1) /\ DOMAIN blocks = 1..m
      /\ \A n \in 1..m : blocks'[n] = blocks[n]
      /\ blocks'[m + 1] = content
  BY <1>2, <1>3 DEF m
<1>6. /\ confirmations' \in Seq(Rows) /\ Len(confirmations') = m + 1
      /\ \A n \in 1..m : confirmations'[n] = confirmations[n]
      /\ confirmations'[m + 1] = row
  BY <1>2, <1>3, <1>4
<1>7. \A n \in DOMAIN blocks' : confirmations'[n] \in [DOMAIN blocks'[n] -> Counting]
  <2> TAKE n \in DOMAIN blocks'
  <2>1. n \in 1..m \/ n = m + 1
    BY <1>3, <1>5
  <2>2. CASE n \in 1..m
    BY <1>1, <1>5, <1>6, <2>2, Zenon DEF TypeInv
  <2>3. CASE n = m + 1
    BY <1>4, <1>5, <1>6, <2>3, Zenon
  <2> QED
    BY <2>1, <2>2, <2>3
<1>8. Len(blocks') <= MaxBlocks /\ before' <= Len(blocks') /\ Len(blocks) <= Len(blocks')
  <2>1. before' = before /\ before \in Nat /\ before <= Len(blocks) /\ MaxBlocks \in Nat /\ m < MaxBlocks
    BY <1>1, <1>2, <1>5, QueryAssumption, Zenon DEF TypeInv
  <2> QED
    BY <1>3, <1>5, <2>1
<1>9. TypeInv'
  BY <1>1, <1>2, <1>5, <1>6, <1>7, <1>8, Zenon DEF TypeInv
<1>10. Grown
  BY <1>3, <1>5, <1>8 DEF Grown
<1>11. RangeInv' /\ ExistInv' /\ (NumbersFit' => CollectInv')
  BY <1>1, <1>2, <1>5, <1>10, Frame
<1>12. ControlInv' /\ LimitInv'
  BY <1>1, <1>2 DEF ControlInv, LimitInv, ByRange
<1>13. SeenInv'
  <2>1. seen \subseteq seen' /\ (pc' # "called" => (Counts(blocks, confirmations))' \subseteq seen')
    BY <1>2, Zenon DEF NewBlock, Counts
  <2> QED
    BY <1>1, <1>2, <2>1, SeenFrame, SMTT(30)
<1> QED
  BY <1>9, <1>11, <1>12, <1>13 DEF QueryInv

LEMMA NodeMovesStep ==
  ASSUME QueryInv, NEW n \in DOMAIN blocks, NEW k \in DOMAIN blocks[n], NEW count \in Counting, NodeMoves(n, k, count)
  PROVE  QueryInv'
<1>1. TypeInv /\ ControlInv /\ LimitInv /\ SeenInv /\ RangeInv /\ ExistInv /\ (NumbersFit => CollectInv)
  BY DEF QueryInv
<1>2. /\ pc # "called" /\ confirmations' = [confirmations EXCEPT ![n][k] = count] /\ seen' = seen \cup {<<n, k, count>>}
      /\ UNCHANGED <<blocks, faults, pc, crit, begin, end, fetched, logs, cut, before, i>>
  BY DEF NodeMoves
<1>3. /\ blocks \in Seq(BlockLogs) /\ confirmations \in Seq(Rows) /\ Len(confirmations) = Len(blocks)
      /\ \A m \in DOMAIN blocks : confirmations[m] \in [DOMAIN blocks[m] -> Counting]
  BY <1>1 DEF TypeInv
<1>4. DOMAIN confirmations = DOMAIN blocks
  BY <1>3
<1> DEFINE row == [confirmations[n] EXCEPT ![k] = count]
<1>5. row \in [DOMAIN blocks[n] -> Counting] /\ row \in Rows
  <2>1. confirmations[n] \in [DOMAIN blocks[n] -> Counting] /\ blocks[n] \in BlockLogs
    BY <1>3
  <2> QED
    BY <2>1 DEF Rows
<1>6. confirmations' = [confirmations EXCEPT ![n] = row]
  BY <1>2
<1>7. \A j \in DOMAIN blocks[n] : row[j] = IF j = k THEN count ELSE confirmations[n][j]
  BY <1>3
<1> HIDE DEF row
<1>8. /\ confirmations' \in Seq(Rows) /\ Len(confirmations') = Len(blocks)
      /\ \A m \in DOMAIN blocks : confirmations'[m] = IF m = n THEN row ELSE confirmations[m]
  BY <1>3, <1>4, <1>5, <1>6, SMTT(30)
<1>9. TypeInv'
  <2>1. \A m \in DOMAIN blocks : confirmations'[m] \in [DOMAIN blocks[m] -> Counting]
    BY <1>3, <1>5, <1>8
  <2> QED
    BY <1>1, <1>2, <1>8, <2>1, SMTT(30) DEF TypeInv
<1>10. Grown /\ Len(blocks') \in Nat
  BY <1>2, <1>3 DEF Grown
<1>11. RangeInv' /\ ExistInv' /\ (NumbersFit' => CollectInv')
  BY <1>1, <1>2, <1>10, Frame
<1>12. ControlInv' /\ LimitInv'
  BY <1>1, <1>2 DEF ControlInv, LimitInv, ByRange
<1>13. (Counts(blocks, confirmations))' \subseteq seen'
  <2> SUFFICES ASSUME NEW t, t \in Counts(blocks, confirmations') PROVE t \in seen \cup {<<n, k, count>>}
    BY <1>2 DEF Counts
  <2>1. PICK m \in DOMAIN blocks : \E j \in DOMAIN blocks[m] : t = <<m, j, confirmations'[m][j]>>
    BY DEF Counts
  <2>2. PICK j \in DOMAIN blocks[m] : t = <<m, j, confirmations'[m][j]>>
    BY <2>1
  <2>3. CASE m = n /\ j = k
    <3>1. confirmations'[m][j] = count
      BY <1>7, <1>8, <2>3
    <3> QED
      BY <2>2, <2>3, <3>1, SMTT(30)
  <2>4. CASE ~(m = n /\ j = k)
    <3>1. confirmations'[m][j] = confirmations[m][j]
      BY <1>7, <1>8, <2>4
    <3>2. <<m, j, confirmations[m][j]>> \in Counts(blocks, confirmations)
      BY CountsAre
    <3>3. Counts(blocks, confirmations) \subseteq seen
      BY <1>1, <1>2 DEF SeenInv
    <3> QED
      BY <2>2, <3>1, <3>2, <3>3, SMTT(30)
  <2> QED
    BY <2>3, <2>4
<1>14. SeenInv'
  BY <1>1, <1>2, <1>13, SeenFrame, Zenon
<1> QED
  BY <1>9, <1>11, <1>12, <1>14 DEF QueryInv

LEMMA LookupHashStep ==
  ASSUME QueryInv, LookupHash
  PROVE  QueryInv'
<1>1. TypeInv /\ ControlInv /\ RangeInv /\ pc = "called"
  BY DEF QueryInv, LookupHash
<1>2. /\ before' = Len(blocks) /\ seen' = Counts(blocks, confirmations)
      /\ UNCHANGED <<blocks, confirmations, moves, faults, crit, fetched, logs, cut, i>>
  BY DEF LookupHash
<1>3. logs = <<>> /\ fetched = <<>> /\ blocks \in Seq(BlockLogs) /\ Len(blocks) \in Nat
  BY <1>1 DEF ControlInv, TypeInv
<1>4. crit.blockHash \in Nat /\ crit.fromBlock \in Int /\ crit.toBlock \in Int
  BY <1>1, CritType DEF TypeInv
<1>5. \/ crit.blockHash = 0 /\ pc' = "begin" /\ begin' = crit.fromBlock /\ end' = crit.toBlock
      \/ /\ crit.blockHash # 0 /\ crit.blockHash \in DOMAIN blocks
         /\ pc' = "begin" /\ begin' = crit.blockHash /\ end' = crit.blockHash
      \/ pc' = "failed" /\ begin' = crit.fromBlock /\ end' = crit.toBlock
  BY <1>1, <1>3 DEF LookupHash, BlockByHash, RangeInv
<1>6. pc' \in {"begin", "failed"} /\ begin' \in Int /\ end' \in Int
  BY <1>4, <1>5, SMTT(30)
<1>7. TypeInv'
  <2>1. before' \in Nat /\ before' <= Len(blocks')
    BY <1>2, <1>3
  <2>2. pc' \in Steps
    BY <1>6 DEF Steps
  <2> QED
    BY <1>1, <1>2, <1>6, <2>1, <2>2 DEF TypeInv
<1>8. ControlInv' /\ LimitInv'
  BY <1>1, <1>2, <1>3, <1>6, SMTT(30) DEF ControlInv, LimitInv, ByRange
<1>9. SeenInv'
  <2>1. DOMAIN logs' = {}
    BY <1>2, <1>3
  <2> QED
    BY <1>2, <1>3, <2>1 DEF SeenInv, ConfirmationsWereTrue, Counts
<1>10. RangeInv'
  BY <1>2, <1>5 DEF RangeInv, Reading
<1>11. ExistInv' /\ CollectInv'
  BY <1>2, <1>3, <1>6, CollectNothing DEF Reading
<1> QED
  BY <1>7, <1>8, <1>9, <1>10, <1>11 DEF QueryInv

LEMMA ResolveBeginStep ==
  ASSUME QueryInv, ResolveBegin
  PROVE  QueryInv'
<1>1. TypeInv /\ ControlInv /\ RangeInv /\ SeenInv /\ pc = "begin"
  BY DEF QueryInv, ResolveBegin
<1>2. /\ begin' = IF begin < 0 THEN Len(blocks) ELSE begin
      /\ pc' = "end" /\ UNCHANGED <<blocks, confirmations, moves, seen, faults, crit, end, fetched, logs, cut, before, i>>
  BY DEF ResolveBegin, LatestHeight, envVars
<1>3. logs = <<>> /\ fetched = <<>> /\ blocks \in Seq(BlockLogs) /\ Len(blocks) \in Nat /\ begin \in Int
  BY <1>1 DEF ControlInv, TypeInv
<1>4. TypeInv'
  BY <1>1, <1>2, <1>3 DEF TypeInv, Steps
<1>5. ControlInv' /\ LimitInv'
  BY <1>1, <1>2, <1>3 DEF ControlInv, LimitInv, ByRange
<1>6. SeenInv'
  <2>1. (Counts(blocks, confirmations))' \subseteq seen'
    BY <1>1, <1>2 DEF SeenInv, Counts
  <2> QED
    BY <1>1, <1>2, <2>1, SeenFrame
<1>7. RangeInv'
  <2>1. /\ crit.blockHash # 0 => crit.blockHash \in DOMAIN blocks
        /\ begin = IF crit.blockHash # 0 THEN crit.blockHash ELSE crit.fromBlock
        /\ end = IF crit.blockHash # 0 THEN crit.blockHash ELSE crit.toBlock
    BY <1>1 DEF RangeInv
  <2>2. crit.blockHash \in Nat /\ crit.fromBlock \in Int
    BY <1>1, CritType DEF TypeInv
  <2>3. before \in Nat /\ before <= Len(blocks)
    BY <1>1 DEF TypeInv
  <2>4. Floor(before) <= begin' /\ begin' <= Floor(Len(blocks))
    BY <1>2, <1>3, <2>1, <2>2, <2>3 DEF Floor
  <2>5. (Floor(before))' <= begin' /\ begin' <= (Floor(Len(blocks)))'
    BY <1>2, <2>4 DEF Floor
  <2> QED
    BY <1>2, <2>1, <2>5 DEF RangeInv, Reading
<1>8. ExistInv' /\ CollectInv'
  BY <1>2, <1>3, CollectNothing DEF Reading
<1> QED
  BY <1>4, <1>5, <1>6, <1>7, <1>8 DEF QueryInv

LEMMA ResolveEndStep ==
  ASSUME QueryInv, ResolveEnd
  PROVE  QueryInv'
<1>1. TypeInv /\ ControlInv /\ RangeInv /\ SeenInv /\ pc = "end"
  BY DEF QueryInv, ResolveEnd
<1>2. /\ end' = IF end < 0 THEN Len(blocks) ELSE end
      /\ pc' = IF ByRange THEN "range" ELSE "query"
      /\ UNCHANGED <<blocks, confirmations, moves, seen, faults, crit, begin, fetched, logs, cut, before, i>>
  BY DEF ResolveEnd, LatestHeight, envVars
<1>3. /\ logs = <<>> /\ fetched = <<>> /\ blocks \in Seq(BlockLogs) /\ Len(blocks) \in Nat
      /\ begin \in Int /\ end \in Int /\ before \in Nat /\ before <= Len(blocks)
  BY <1>1 DEF ControlInv, TypeInv
<1>4. TypeInv'
  BY <1>1, <1>2, <1>3 DEF TypeInv, Steps
<1>5. ByRange' = ByRange
  BY <1>2 DEF ByRange
<1>6. ControlInv' /\ LimitInv'
  <2>1. Len(logs') <= GetRpcMaxLogResults
    BY <1>2, <1>3, QueryAssumption
  <2> QED
    BY <1>1, <1>2, <1>3, <1>5, <2>1 DEF ControlInv, LimitInv
<1>7. SeenInv'
  <2>1. (Counts(blocks, confirmations))' \subseteq seen'
    BY <1>1, <1>2 DEF SeenInv, Counts
  <2> QED
    BY <1>1, <1>2, <2>1, SeenFrame
<1>8. begin <= Floor(Len(blocks)) /\ Floor(Len(blocks)) \in Nat
  BY <1>1, <1>3, FloorType, SMTT(30) DEF RangeInv, TypeInv
<1>9. RangeInv'
  <2>1. /\ crit.blockHash # 0 => crit.blockHash \in DOMAIN blocks
        /\ end = IF crit.blockHash # 0 THEN crit.blockHash ELSE crit.toBlock
        /\ Floor(before) <= begin
    BY <1>1 DEF RangeInv
  <2>2. crit.blockHash \in Nat /\ crit.toBlock \in Int
    BY <1>1, CritType DEF TypeInv
  <2>3. Ceiling(before) <= end' /\ end' <= Ceiling(Len(blocks))
    BY <1>2, <1>3, <2>1, <2>2, SMTT(30) DEF Ceiling
  <2>4. (Ceiling(before))' <= end' /\ end' <= (Ceiling(Len(blocks)))'
    BY <1>2, <2>3 DEF Ceiling
  <2>5. (Floor(before))' <= begin' /\ begin' <= (Floor(Len(blocks)))'
    BY <1>2, <1>8, <2>1 DEF Floor
  <2> QED
    BY <1>2, <2>1, <2>4, <2>5, SMTT(30) DEF RangeInv, Reading
<1>0. ExistInv'
  BY <1>2, <1>3, CollectNothing
<1>10. CASE ~ByRange
  <2>1. CollectInv'
    BY <1>2, <1>3, <1>10, CollectNothing DEF Reading
  <2> QED
    BY <1>0, <1>4, <1>6, <1>7, <1>9, <2>1 DEF QueryInv
<1>11. CASE ByRange
  <2>1. \A n \in Nat : (Floor(Len(blocks)))' <= n => ~(n < begin')
    BY <1>2, <1>3, <1>8 DEF Floor
  <2>2. \A n \in 1..before' : n \in Nat
    BY <1>2, <1>3
  <2>3. CollectInv'
    BY <1>2, <1>3, <1>5, <1>11, <2>1, <2>2 DEF CollectInv, Sorted
  <2> QED
    BY <1>0, <1>4, <1>6, <1>7, <1>9, <2>3 DEF QueryInv
<1> QED
  BY <1>10, <1>11

\* A uint32 holds the numbers of the blocks that are read.
LEMMA NoWrap ==
  ASSUME NEW n \in Nat, n < Uint32
  PROVE  n % Uint32 = n
BY QueryAssumption

LEMMA EndFits ==
  ASSUME TypeInv, NumbersFit, crit.blockHash # 0 => crit.blockHash \in DOMAIN blocks, NEW e \in Int, e <= Ceiling(Len(blocks))
  PROVE  e + 1 < Uint32
<1>1. Len(blocks) \in Nat /\ Len(blocks) <= MaxBlocks /\ \A n \in DOMAIN blocks : n <= Len(blocks)
  BY DEF TypeInv
<1>2. crit.toBlock \in Int /\ crit.toBlock + 1 < Uint32 /\ crit.blockHash \in Nat
  BY CritType DEF TypeInv, NumbersFit
<1> QED
  BY <1>1, <1>2, QueryAssumption DEF Ceiling

LEMMA RangeReads ==
  ASSUME QueryInv, getLogsByBlockNumberRange
  PROVE  TypeInv' /\ ControlInv' /\ LimitInv' /\ SeenInv' /\ RangeInv' /\ ExistInv'
<1> DEFINE read == Stored(begin % Uint32)
<1>1. TypeInv /\ ControlInv /\ RangeInv /\ SeenInv /\ ExistInv /\ pc = "range" /\ begin < end + 1
  BY DEF QueryInv, getLogsByBlockNumberRange
<1>2. /\ fetched' = read /\ begin' = begin + 1 /\ pc' = "refresh"
      /\ UNCHANGED <<blocks, confirmations, moves, seen, faults, crit, end, logs, cut, before, i>>
  BY DEF getLogsByBlockNumberRange, envVars
<1>3. /\ fetched = <<>> /\ i = 0 /\ ByRange /\ blocks \in Seq(BlockLogs)
      /\ begin \in Int /\ end \in Int /\ before \in Nat /\ faults \in Nat
  BY <1>1 DEF ControlInv, TypeInv
<1>4. /\ Floor(before) <= begin /\ Floor(before) \in Nat /\ end <= Ceiling(Len(blocks))
      /\ Ceiling(before) <= end
  BY <1>1, <1>3, FloorType DEF RangeInv, Reading, TypeInv
<1>5. /\ read \in Seq(Logs)
      /\ \A k \in DOMAIN read : /\ begin % Uint32 \in DOMAIN blocks /\ k \in DOMAIN blocks[begin % Uint32]
                               /\ read[k] = Entry(begin % Uint32, k)
  BY <1>3, StoredType
<1> HIDE DEF read
<1>6. TypeInv'
  BY <1>1, <1>2, <1>3, <1>5 DEF TypeInv, Steps
<1>7. ControlInv' /\ LimitInv'
  BY <1>1, <1>2, <1>3, SMTT(30) DEF ControlInv, LimitInv
<1>8. SeenInv'
  <2>1. (Counts(blocks, confirmations))' \subseteq seen'
    BY <1>1, <1>2 DEF SeenInv, Counts
  <2>2. ~(i' > faults')
    BY <1>2, <1>3
  <2> QED
    BY <1>1, <1>2, <2>1, <2>2, SMTT(30) DEF SeenInv, ConfirmationsWereTrue
<1>9. RangeInv'
  <2>1. Floor(before) <= begin'
    BY <1>2, <1>3, <1>4
  <2>2. /\ (Floor(before))' = Floor(before) /\ (Ceiling(before))' = Ceiling(before)
        /\ (Ceiling(Len(blocks)))' = Ceiling(Len(blocks))
    BY <1>2 DEF Floor, Ceiling
  <2>3. crit'.blockHash # 0 => crit'.blockHash \in DOMAIN blocks'
    BY <1>1, <1>2 DEF RangeInv
  <2> QED
    BY <1>2, <1>4, <2>1, <2>2, <2>3 DEF RangeInv, Reading
<1>10. \A j \in DOMAIN read : InBlocks(read[j])
  <2> TAKE j \in DOMAIN read
  <2>1. read[j].blockNumber = begin % Uint32 /\ read[j].index = j
    BY <1>5, EntryFields
  <2> QED
    BY <1>5, <2>1 DEF InBlocks
<1>11. ExistInv'
  BY <1>1, <1>2, <1>10, Zenon DEF ExistInv, InBlocks
<1> QED
  BY <1>6, <1>7, <1>8, <1>9, <1>11

LEMMA RangeCollects ==
  ASSUME QueryInv, NumbersFit, getLogsByBlockNumberRange
  PROVE  CollectInv'
<1> DEFINE read == Stored(begin)
<1>1. TypeInv /\ ControlInv /\ RangeInv /\ CollectInv /\ pc = "range" /\ begin < end + 1
  BY DEF QueryInv, getLogsByBlockNumberRange
<1>2. /\ fetched' = Stored(begin % Uint32) /\ begin' = begin + 1 /\ pc' = "refresh"
      /\ UNCHANGED <<blocks, confirmations, moves, seen, faults, crit, end, logs, cut, before, i>>
  BY DEF getLogsByBlockNumberRange, envVars
<1>3. /\ fetched = <<>> /\ i = 0 /\ ByRange /\ blocks \in Seq(BlockLogs) /\ Len(blocks) \in Nat
      /\ begin \in Int /\ end \in Int /\ before \in Nat /\ before <= Len(blocks) /\ faults \in Nat
  BY <1>1 DEF ControlInv, TypeInv
<1>4. /\ Floor(before) <= begin /\ Floor(before) \in Nat /\ end <= Ceiling(Len(blocks))
      /\ Ceiling(before) <= end
  BY <1>1, <1>3, FloorType DEF RangeInv, Reading, TypeInv
<1>5. begin \in Nat /\ begin <= end /\ begin < Uint32
  <2>1. end + 1 < Uint32
    BY <1>1, <1>3, <1>4, EndFits DEF RangeInv
  <2> QED
    BY <1>1, <1>3, <1>4, <2>1, QueryAssumption
<1>6. fetched' = read
  BY <1>2, <1>5, NoWrap
<1>7. /\ read \in Seq(Logs)
      /\ begin \in DOMAIN blocks => DOMAIN read = DOMAIN blocks[begin]
      /\ \A k \in DOMAIN read : begin \in DOMAIN blocks /\ k \in DOMAIN blocks[begin] /\ read[k] = Entry(begin, k)
  BY <1>3, StoredType
<1> HIDE DEF read
<1>9. ByRange'
  BY <1>2, <1>3 DEF ByRange
<1>13. Grown
  BY <1>2, <1>3 DEF Grown
<1>14. \A log : Stands(log) => Stands(log)'
  BY <1>1, <1>2, <1>3, <1>13, StandsFrame
<1>15. (\A j \in DOMAIN logs : Stands(logs[j]))'
  BY <1>1, <1>2, <1>14, SMTT(30) DEF CollectInv
<1>16. ASSUME NEW k \in DOMAIN read, NEW log, log = read[k]
       PROVE  Stands(log)' /\ log.blockNumber = begin /\ log.index = k /\ k \in Nat
  <2>1. begin \in DOMAIN blocks /\ k \in DOMAIN blocks[begin] /\ read[k] = Entry(begin, k)
    BY <1>7, SMTT(30)
  <2>2. /\ log.blockNumber = begin /\ log.index = k
        /\ log.address = blocks[begin][k].address /\ log.topics = blocks[begin][k].topics
    BY <1>16, <2>1 DEF Entry
  <2>3. k \in Nat /\ Len(blocks[begin][k].topics) \in Nat
    BY <1>3, <2>1, BlockType, SMTT(30)
  <2>4. Matches(log)'
    BY <1>2, <1>3, <2>2, <2>3 DEF Matches, filterFunc, ByRange
  <2>5. (Floor(before))' = Floor(before) /\ begin < begin'
    BY <1>2, <1>3 DEF Floor
  <2> QED
    BY <1>2, <1>4, <1>5, <2>1, <2>2, <2>3, <2>4, <2>5 DEF Stands
<1>17. (\A j \in DOMAIN fetched : Stands(fetched[j]))'
  BY <1>6, <1>16
<1>18. Sorted(fetched') /\ Sorted(logs')
  <2>1. Sorted(fetched')
    BY <1>6, <1>16 DEF Sorted, Earlier
  <2> QED
    BY <1>1, <1>2, <2>1 DEF CollectInv
<1>19. \A j \in DOMAIN logs', k \in DOMAIN fetched' : Earlier(logs'[j], fetched'[k])
  <2>1. \A j \in DOMAIN logs : logs[j].blockNumber < begin
    BY <1>1, <1>3 DEF CollectInv, Stands
  <2> QED
    BY <1>2, <1>6, <1>16, <2>1 DEF Earlier
<1>20. ASSUME NEW n \in 1..before', NEW k \in DOMAIN blocks'[n],
              (Floor(Len(blocks)))' <= n, n <= end', n < begin', Matches(blocks[n][k])'
       PROVE  Accounted(n, k)'
  <2>1. n \in Nat /\ n \in 1..before /\ n \in DOMAIN blocks /\ k \in DOMAIN blocks[n]
    BY <1>2, <1>3
  <2>2. Floor(Len(blocks)) <= n /\ Matches(blocks[n][k])
    BY <1>2, <1>20 DEF Floor, Matches
  <2>3. CASE n < begin
    <3>1. Accounted(n, k)
      BY <1>1, <1>2, <1>20, <2>1, <2>2, <2>3 DEF CollectInv, Reading
    <3>2. ~Lists(fetched, n, k) /\ ~cut
      BY <1>1, <1>3 DEF Lists, ControlInv
    <3>3. Lists(logs, n, k)
      BY <3>1, <3>2, Zenon DEF Accounted
    <3> QED
      BY <1>2, <3>3, Zenon DEF Accounted, Lists
  <2>4. CASE n = begin
    <3>1. Lists(fetched', n, k)
      BY <1>6, <1>7, <1>16, <2>1, <2>4 DEF Lists
    <3> QED
      BY <3>1, Zenon DEF Accounted, Lists
  <2> QED
    BY <1>2, <1>3, <1>20, <2>1, <2>3, <2>4
<1> QED
  BY <1>9, <1>15, <1>17, <1>18, <1>19, <1>20 DEF CollectInv, Sorted

LEMMA RangeStep ==
  ASSUME QueryInv, getLogsByBlockNumberRange
  PROVE  QueryInv'
<1>1. NumbersFit' = NumbersFit
  BY DEF getLogsByBlockNumberRange, NumbersFit
<1> QED
  BY <1>1, RangeReads, RangeCollects DEF QueryInv

\* The answer of QueryLogs, of whatever range; first and last + 1 are uint32.
LEMMA QueryAnswers ==
  ASSUME TypeInv, Query, NEW first, first = begin % Uint32, NEW last, last = ((end + 1) % Uint32) - 1
  PROVE  GathersMatching(fetched', first, last, cut') /\ cut' \in BOOLEAN
<1>1. blocks \in Seq(BlockLogs) /\ begin \in Int /\ end \in Int /\ Uint32 \in Nat /\ Uint32 > 0
  BY QueryAssumption DEF TypeInv
<1>2. first \in Int /\ last \in Int /\ (end + 1) % Uint32 = last + 1
  BY <1>1
<1> DEFINE size == Len(LogsBetween(first, last))
<1>3. PICK n \in 0..size : fetched' = QueryLogs(first, last + 1, n) /\ cut' = (n < size)
  <2>1. \E n \in 0..Len(LogsBetween(begin % Uint32, ((end + 1) % Uint32) - 1)) :
          /\ fetched' = QueryLogs(begin % Uint32, (end + 1) % Uint32, n)
          /\ cut' = (n < Len(LogsBetween(begin % Uint32, ((end + 1) % Uint32) - 1)))
    BY Zenon DEF Query
  <2> QED
    BY <1>2, <2>1, Zenon
<1>4. size \in Nat
  <2>1. Gathers(LogsBetween(first, last), first, last)
    BY <1>1, <1>2, BetweenGathers
  <2>2. LogsBetween(first, last) \in Seq(Logs)
    BY <2>1, Zenon DEF Gathers
  <2> QED
    BY <2>2
<1>5. n \in Nat
  BY <1>4
<1>6. GathersMatching(QueryLogs(first, last + 1, n), first, last, n < size)
  BY <1>1, <1>2, <1>5, QueryGathers, Zenon
<1>7. cut' \in BOOLEAN
  BY <1>3
<1> HIDE DEF size
<1>8. cut' <=> (n < size)
  BY <1>3
<1>9. GathersMatching(fetched', first, last, n < size)
  BY <1>3, <1>6
<1>10. GathersMatching(fetched', first, last, cut')
  BY <1>8, <1>9, Zenon DEF GathersMatching
<1> QED
  BY <1>7, <1>10

LEMMA QueryReads ==
  ASSUME QueryInv, Query
  PROVE  TypeInv' /\ ControlInv' /\ LimitInv' /\ SeenInv' /\ RangeInv' /\ ExistInv'
<1>1. TypeInv /\ ControlInv /\ RangeInv /\ SeenInv /\ pc = "query"
  BY DEF QueryInv, Query
<1>2. /\ pc' = "refresh"
      /\ UNCHANGED <<blocks, confirmations, moves, seen, faults, crit, begin, end, logs, before, i>>
  BY DEF Query, envVars
<1>3. /\ fetched = <<>> /\ logs = <<>> /\ i = 0 /\ ~ByRange /\ faults \in Nat
      /\ before \in Nat /\ Len(blocks) \in Nat
  BY <1>1 DEF ControlInv, TypeInv
<1>4. /\ Floor(before) <= begin
      /\ Ceiling(before) <= end /\ end <= Ceiling(Len(blocks))
      /\ crit.blockHash # 0 => crit.blockHash \in DOMAIN blocks
  BY <1>1, <1>3 DEF RangeInv, Reading
<1>5. /\ fetched' \in Seq(Logs) /\ cut' \in BOOLEAN
      /\ \A j \in DOMAIN fetched' : InBlocks(fetched'[j])
  <2>1. GathersMatching(fetched', begin % Uint32, ((end + 1) % Uint32) - 1, cut') /\ cut' \in BOOLEAN
    BY <1>1, QueryAnswers, Zenon
  <2> QED
    BY <2>1, Zenon DEF GathersMatching, IsBetween, InBlocks
<1>6. TypeInv'
  BY <1>1, <1>2, <1>5, SMTT(30) DEF TypeInv, Steps
<1>7. ByRange' = ByRange
  BY <1>2 DEF ByRange
<1>8. ControlInv' /\ LimitInv'
  BY <1>1, <1>2, <1>3, <1>7 DEF ControlInv, LimitInv
<1>9. SeenInv'
  <2>1. (Counts(blocks, confirmations))' \subseteq seen'
    BY <1>1, <1>2 DEF SeenInv, Counts
  <2>2. ~(i' > faults')
    BY <1>2, <1>3
  <2> QED
    BY <1>1, <1>2, <2>1, <2>2 DEF SeenInv, ConfirmationsWereTrue
<1>10. /\ (Floor(before))' = Floor(before) /\ (Ceiling(before))' = Ceiling(before)
       /\ (Ceiling(Len(blocks)))' = Ceiling(Len(blocks))
  BY <1>2 DEF Floor, Ceiling
<1>11. RangeInv'
  BY <1>2, <1>4, <1>10, SMTT(30) DEF RangeInv, Reading
<1>12. DOMAIN logs' = {}
  BY <1>2, <1>3
<1>13. ExistInv'
  BY <1>2, <1>5, <1>12, Zenon DEF ExistInv, InBlocks
<1> QED
  BY <1>6, <1>8, <1>9, <1>11, <1>13

LEMMA QueryCollects ==
  ASSUME QueryInv, NumbersFit, Query
  PROVE  CollectInv'
<1>1. TypeInv /\ ControlInv /\ RangeInv /\ pc = "query"
  BY DEF QueryInv, Query
<1>2. /\ pc' = "refresh"
      /\ UNCHANGED <<blocks, confirmations, moves, seen, faults, crit, begin, end, logs, before, i>>
  BY DEF Query, envVars
<1>3. /\ fetched = <<>> /\ logs = <<>> /\ i = 0 /\ ~ByRange /\ blocks \in Seq(BlockLogs) /\ Len(blocks) \in Nat
      /\ begin \in Int /\ end \in Int /\ before \in Nat /\ before <= Len(blocks) /\ faults \in Nat
      /\ Len(blocks) <= MaxBlocks
  BY <1>1 DEF ControlInv, TypeInv
<1>4. /\ Floor(before) <= begin /\ begin <= Floor(Len(blocks)) /\ Floor(before) \in Nat /\ Floor(Len(blocks)) \in Nat
      /\ Ceiling(before) <= end /\ end <= Ceiling(Len(blocks)) /\ Ceiling(before) \in Nat
      /\ crit.blockHash # 0 => crit.blockHash \in DOMAIN blocks
  BY <1>1, <1>3, FloorType DEF RangeInv, Reading, TypeInv
<1>5. begin % Uint32 = begin
  <2>1. crit.fromBlock \in Int /\ crit.fromBlock < Uint32 /\ crit.blockHash \in Nat
    BY <1>1, CritType DEF TypeInv, NumbersFit
  <2>2. Floor(Len(blocks)) < Uint32
    BY <1>3, <1>4, <2>1, QueryAssumption, SMTT(30) DEF Floor
  <2>3. begin \in Nat /\ begin < Uint32
    BY <1>3, <1>4, <2>2, QueryAssumption, SMTT(30)
  <2> QED
    BY <2>3, NoWrap
<1>6. (end + 1) % Uint32 = end + 1
  <2>1. end + 1 < Uint32
    BY <1>1, <1>3, <1>4, EndFits
  <2>2. end + 1 \in Nat
    BY <1>3, <1>4
  <2> QED
    BY <2>1, <2>2, NoWrap
<1>7. end = ((end + 1) % Uint32) - 1
  BY <1>3, <1>6
<1>8. /\ \A j \in DOMAIN fetched' : IsBetween(fetched'[j], begin, end) /\ Matches(fetched'[j])
      /\ \A n \in DOMAIN blocks : begin <= n /\ n <= end =>
           \A k \in DOMAIN blocks[n] : Matches(blocks[n][k]) =>
             (\E j \in DOMAIN fetched' : fetched'[j] = Entry(n, k)) \/ (cut' /\ Behind(fetched', n, k))
      /\ Sorted(fetched')
  <2>1. GathersMatching(fetched', begin, end, cut')
    BY <1>1, <1>5, <1>7, QueryAnswers, Zenon
  <2> QED
    BY <2>1, Zenon DEF GathersMatching
<1>10. ByRange' = ByRange
  BY <1>2 DEF ByRange
<1>13. /\ (Floor(before))' = Floor(before) /\ (Ceiling(before))' = Ceiling(before)
       /\ (Floor(Len(blocks)))' = Floor(Len(blocks)) /\ (Ceiling(Len(blocks)))' = Ceiling(Len(blocks))
  BY <1>2 DEF Floor, Ceiling
<1>15. ASSUME NEW log, IsBetween(log, begin, end), Matches(log) PROVE Stands(log)'
  <2>1. /\ log.blockNumber \in DOMAIN blocks /\ log.index \in DOMAIN blocks[log.blockNumber]
        /\ log = Entry(log.blockNumber, log.index) /\ begin <= log.blockNumber /\ log.blockNumber <= end
    BY <1>15 DEF IsBetween
  <2>2. /\ log.address = blocks[log.blockNumber][log.index].address
        /\ log.topics = blocks[log.blockNumber][log.index].topics
    BY <2>1 DEF Entry
  <2>3. Floor(before) <= log.blockNumber
    BY <1>3, <1>4, <2>1, SMTT(30)
  <2>4. Matches(log)'
    BY <1>2, <1>15, SMTT(30) DEF Matches
  <2> QED
    BY <1>2, <1>3, <1>10, <1>13, <2>1, <2>2, <2>3, <2>4 DEF Stands
<1>16. (\A j \in DOMAIN fetched : Stands(fetched[j]))'
  BY <1>8, <1>15, SMTT(30)
<1>18. DOMAIN logs' = {}
  BY <1>2, <1>3
<1>17. ASSUME NEW n \in 1..before', NEW k \in DOMAIN blocks'[n],
              (Floor(Len(blocks)))' <= n, n <= end', Matches(blocks[n][k])'
       PROVE  Accounted(n, k)'
  <2>1. n \in DOMAIN blocks /\ k \in DOMAIN blocks[n] /\ begin <= n /\ n <= end
    BY <1>2, <1>3, <1>4, <1>13, <1>17
  <2>2. Matches(blocks[n][k])
    BY <1>2, <1>17, SMTT(30) DEF Matches
  <2>3. CASE \E j \in DOMAIN fetched' : fetched'[j] = Entry(n, k)
    <3>1. Lists(fetched', n, k)
      BY <2>3, EntryFields DEF Lists
    <3> QED
      BY <3>1, Zenon DEF Accounted, Lists
  <2>4. CASE cut' /\ Behind(fetched', n, k)
    <3>1. Behind(logs', n, k)
      BY <1>18, Zenon DEF Behind
    <3> QED
      BY <2>4, <3>1, Zenon DEF Accounted, Behind
  <2> QED
    BY <1>8, <2>1, <2>2, <2>3, <2>4, Zenon
<1> QED
  BY <1>8, <1>16, <1>17, <1>18, Zenon DEF CollectInv, Sorted

LEMMA QueryStep ==
  ASSUME QueryInv, Query
  PROVE  QueryInv'
<1>1. NumbersFit' = NumbersFit
  BY DEF Query, NumbersFit
<1> QED
  BY <1>1, QueryReads, QueryCollects DEF QueryInv

LEMMA DoneStep ==
  ASSUME QueryInv, RangeDone \/ RefreshDone \/ StoreFails
  PROVE  QueryInv'
<1>1. /\ TypeInv /\ ControlInv /\ RangeInv /\ SeenInv /\ ExistInv /\ LimitInv /\ (NumbersFit => CollectInv)
      /\ begin \in Int /\ end \in Int /\ Len(logs) \in Nat /\ Len(blocks) \in Nat
  BY DEF QueryInv, TypeInv
<1>2. UNCHANGED <<blocks, confirmations, moves, seen, faults, crit, begin, end, fetched, logs, cut, before, i>>
  BY DEF RangeDone, RefreshDone, StoreFails, envVars
<1>3. /\ pc \in {"query", "range", "refresh"} /\ fetched = <<>>
      /\ pc = "query" => pc' = "failed"
      /\ \/ pc' = "returned" /\ (ByRange => end < begin /\ Len(logs) <= GetRpcMaxLogResults)
         \/ pc' = "failed"
         \/ pc' = "range" /\ ByRange /\ Len(logs) <= GetRpcMaxLogResults
  BY <1>1, QueryAssumption DEF RangeDone, RefreshDone, StoreFails, ControlInv, LimitInv
<1>4. TypeInv'
  BY <1>1, <1>2, <1>3 DEF TypeInv, Steps
<1>5. ByRange' = ByRange
  BY <1>2 DEF ByRange
<1>6. ControlInv' /\ LimitInv'
  BY <1>1, <1>2, <1>3, <1>5 DEF ControlInv, LimitInv
<1>7. SeenInv'
  <2>0. Counts(blocks, confirmations) \subseteq seen
    BY <1>1, <1>3, Zenon DEF SeenInv
  <2>1. (Counts(blocks, confirmations))' \subseteq seen'
    <3>1. blocks' = blocks /\ confirmations' = confirmations /\ seen' = seen
      BY <1>2
    <3>2. (Counts(blocks, confirmations))' = Counts(blocks, confirmations)
      BY <3>1 DEF Counts
    <3> QED
      BY <2>0, <3>1, <3>2, Zenon
  <2> QED
    BY <1>1, <1>2, <2>1, SeenFrame
<1>8. RangeInv'
  <2>1. /\ (Floor(before))' = Floor(before) /\ (Ceiling(before))' = Ceiling(before)
        /\ (Ceiling(Len(blocks)))' = Ceiling(Len(blocks))
    BY <1>2 DEF Floor, Ceiling
  <2>2. /\ crit.blockHash # 0 => crit.blockHash \in DOMAIN blocks
        /\ Floor(before) <= begin /\ Ceiling(before) <= end /\ end <= Ceiling(Len(blocks))
    BY <1>1, <1>3 DEF RangeInv, Reading
  <2> QED
    BY <1>2, <1>3, <1>5, <2>1, <2>2 DEF RangeInv, Reading
<1>9. ExistInv' /\ (NumbersFit' => CollectInv')
  <2>1. Grown /\ Len(blocks') \in Nat
    BY <1>1, <1>2 DEF Grown
  <2>2. pc' \in Reading => pc \in Reading
    BY <1>3 DEF Reading
  <2>3. NumbersFit' = NumbersFit
    BY <1>2 DEF NumbersFit
  <2>4. CollectInv => CollectInv'
    BY <1>1, <1>2, <2>1, <2>2, CollectFrame
  <2> QED
    BY <1>1, <1>2, <2>1, <2>3, <2>4, ExistFrame
<1> QED
  BY <1>4, <1>6, <1>7, <1>8, <1>9 DEF QueryInv

LEMMA QueryInit == Init => QueryInv
<1> SUFFICES ASSUME Init PROVE QueryInv
  OBVIOUS
<1> USE DEF Init, ClientInit
<1>1. crit \in Criteria /\ crit.fromBlock \in Int /\ crit.toBlock \in Int
  BY CritType
<1>2. blocks = <<>> /\ confirmations = <<>> /\ fetched = <<>> /\ logs = <<>>
  OBVIOUS
<1>0. cut \in BOOLEAN
  BY Zenon
<1>3. TypeInv
  BY <1>0, <1>1, <1>2, QueryAssumption, FaultAssumption, SMTT(30) DEF TypeInv, Steps
<1>4. ControlInv /\ LimitInv /\ SeenInv
  BY <1>2 DEF ControlInv, LimitInv, SeenInv, ConfirmationsWereTrue
<1>5. RangeInv
  BY DEF RangeInv, Reading
<1>6. ExistInv /\ CollectInv
  BY <1>2 DEF ExistInv, CollectInv, Sorted, Reading
<1> QED
  BY <1>3, <1>4, <1>5, <1>6 DEF QueryInv

LEMMA QueryStutter ==
  ASSUME QueryInv, UNCHANGED vars
  PROVE  QueryInv'
<1>1. TypeInv /\ ControlInv /\ LimitInv /\ SeenInv /\ RangeInv /\ ExistInv /\ (NumbersFit => CollectInv)
  BY DEF QueryInv
<1>2. UNCHANGED <<blocks, confirmations, moves, seen, faults, pc, crit, begin, end, fetched, logs, cut, before, i>>
  BY DEF vars, envVars
<1>3. TypeInv'
  BY <1>1, <1>2, SMTT(30) DEF TypeInv
<1>4. ControlInv' /\ LimitInv'
  BY <1>1, <1>2, SMTT(30) DEF ControlInv, LimitInv, ByRange
<1>5. SeenInv'
  <2>0. pc # "called" => Counts(blocks, confirmations) \subseteq seen
    BY <1>1, Zenon DEF SeenInv
  <2>1. pc' # "called" => (Counts(blocks, confirmations))' \subseteq seen'
    <3>1. blocks' = blocks /\ confirmations' = confirmations /\ seen' = seen /\ pc' = pc
      BY <1>2
    <3>2. (Counts(blocks, confirmations))' = Counts(blocks, confirmations)
      BY <3>1 DEF Counts
    <3> QED
      BY <2>0, <3>1, <3>2, Zenon
  <2> QED
    BY <1>1, <1>2, <2>1, SeenFrame
<1>6. Grown /\ Len(blocks') \in Nat
  BY <1>1, <1>2 DEF Grown, TypeInv
<1>7. RangeInv' /\ ExistInv' /\ (NumbersFit' => CollectInv')
  BY <1>1, <1>2, <1>6, Frame
<1> QED
  BY <1>3, <1>4, <1>5, <1>7 DEF QueryInv

\* The inductive invariant of GetLogs holds in every state.
THEOREM QueryInvariant == Spec => []QueryInv
<1>1. QueryInv /\ [Next]_vars => QueryInv'
  <2> SUFFICES ASSUME QueryInv, [Next]_vars PROVE QueryInv'
    OBVIOUS
  <2>1. ASSUME NEW content \in BlockLogs, NEW count \in Gone..MaxConfirmations, NewBlock(content, count)
        PROVE  QueryInv'
    BY <2>1, NewBlockStep DEF Counting
  <2>2. ASSUME NEW n \in DOMAIN blocks, NEW k \in DOMAIN blocks[n], NEW count \in Gone..MaxConfirmations,
               NodeMoves(n, k, count)
        PROVE  QueryInv'
    BY <2>2, NodeMovesStep DEF Counting
  <2>3. CASE LookupHash
    BY <2>3, LookupHashStep
  <2>4. CASE ResolveBegin
    BY <2>4, ResolveBeginStep, SMTT(30)
  <2>5. CASE ResolveEnd
    BY <2>5, ResolveEndStep
  <2>6. CASE getLogsByBlockNumberRange
    BY <2>6, RangeStep
  <2>7. CASE RangeDone \/ RefreshDone \/ StoreFails
    BY <2>7, DoneStep
  <2>8. CASE Query
    BY <2>8, QueryStep
  <2>9. CASE GetConfirmations
    BY <2>9, GetConfirmationsStep
  <2>10. CASE GetConfirmationsFails
    BY <2>10, GetConfirmationsFailsStep
  <2>11. CASE UNCHANGED vars
    BY <2>11, QueryStutter
  <2> QED
    BY <2>1, <2>2, <2>3, <2>4, <2>5, <2>6, <2>7, <2>8, <2>9, <2>10, <2>11 DEF Next, GetLogs
<1> QED
  BY <1>1, QueryInit, PTL DEF Spec

-----------------------------------------------------------------------------
(* What GetLogs returns *)

\* getLogsByBlockNumberRange never returns more logs than the limit.
THEOREM RangesAreBounded == Spec => []RangeIsBounded
<1>1. QueryInv => RangeIsBounded
  BY DEF QueryInv, LimitInv, RangeIsBounded
<1> QED
  BY <1>1, QueryInvariant, PTL

\* The count in every log is one the node had during the call.
THEOREM ConfirmationsAreTrue == Spec => []ConfirmationsWereTrue
<1>1. QueryInv => ConfirmationsWereTrue
  BY DEF QueryInv, SeenInv
<1> QED
  BY <1>1, QueryInvariant, PTL

LEMMA Erased ==
  ASSUME NEW log \in Logs, Stands(log)
  PROVE  /\ [log EXCEPT !.data = 0] = Entry(log.blockNumber, log.index)
         /\ log.blockNumber \in DOMAIN blocks /\ log.index \in DOMAIN blocks[log.blockNumber]
<1>1. /\ log.blockNumber \in DOMAIN blocks /\ log.index \in DOMAIN blocks[log.blockNumber]
      /\ log.address = blocks[log.blockNumber][log.index].address
      /\ log.topics = blocks[log.blockNumber][log.index].topics
  BY DEF Stands
<1> QED
  BY <1>1 DEF Entry, Logs

\* For every criterion whose numbers a uint32 holds, GetLogs returns the logs
\* that match and were there at the call, and only matching ones, each once and
\* in order, however many blocks are added while it runs; when QueryLogs stops
\* early and reports no error, the answer lacks logs at its end only.
THEOREM AnswersMatch == Spec => []LogsMatch
<1>1. ASSUME QueryInv, pc = "returned", NumbersFit PROVE LogsMatch
  <2> DEFINE found == {[log EXCEPT !.data = 0] : log \in Range(logs)}
  <2>1. TypeInv /\ ControlInv /\ RangeInv /\ CollectInv
    BY <1>1 DEF QueryInv
  <2>2. /\ blocks \in Seq(BlockLogs) /\ crit \in Criteria /\ Len(blocks) \in Nat /\ before \in Nat /\ before <= Len(blocks)
        /\ logs \in Seq(Logs) /\ end \in Int /\ begin \in Int
        /\ Ceiling(before) <= end /\ end <= Ceiling(Len(blocks)) /\ (ByRange => end < begin)
        /\ fetched = <<>>
    BY <1>1, <2>1 DEF TypeInv, ControlInv, RangeInv, Reading
  <2>3. Floor(before) \in Nat /\ Floor(Len(blocks)) \in Nat /\ Ceiling(before) \in Nat /\ Ceiling(Len(blocks)) \in Nat
    BY <2>2, FloorType
  <2>4. \A j \in DOMAIN logs : logs[j] \in Logs /\ Stands(logs[j])
    BY <2>1, <2>2 DEF CollectInv
  <2>5. \A t : t \in found <=> \E j \in DOMAIN logs : t = Entry(logs[j].blockNumber, logs[j].index)
    <3>1. \A j \in DOMAIN logs : [logs[j] EXCEPT !.data = 0] = Entry(logs[j].blockNumber, logs[j].index)
      BY <2>4, Erased
    <3> DEFINE Zero(log) == [log EXCEPT !.data = 0]
    <3>2. \A t : t \in found <=> \E log \in Range(logs) : t = Zero(log)
      OBVIOUS
    <3>3. \A log : log \in Range(logs) <=> \E j \in DOMAIN logs : log = logs[j]
      BY DEF Range
    <3>4. \A j \in DOMAIN logs : Zero(logs[j]) = Entry(logs[j].blockNumber, logs[j].index)
      BY <3>1
    <3> HIDE DEF found, Zero
    <3> QED
      BY <3>2, <3>3, <3>4
  <2> HIDE DEF found
  <2>6. ASSUME NEW log \in Wanted(before, Len(blocks), before)
        PROVE  log \in found \/ (cut /\ \A j \in DOMAIN logs : Earlier(logs[j], log))
    <3>1. /\ IsBetween(log, 1, before) /\ Floor(Len(blocks)) <= log.blockNumber /\ log.blockNumber <= Ceiling(before)
          /\ Matches(log)
      BY <2>2, WantedIs, SMTT(30)
    <3> DEFINE n == log.blockNumber
               k == log.index
    <3>2. n \in DOMAIN blocks /\ k \in DOMAIN blocks[n] /\ log = Entry(n, k) /\ 1 <= n /\ n <= before
      BY <3>1 DEF IsBetween
    <3>3. n \in 1..before /\ n \in Nat /\ n <= end /\ (ByRange => n < begin)
      BY <2>2, <2>3, <3>1, <3>2
    <3>4. Matches(blocks[n][k])
      BY <3>1, <3>2, EntryMatches, Zenon
    <3>5. Accounted(n, k)
      BY <1>1, <2>1, <3>1, <3>2, <3>3, <3>4, Zenon DEF CollectInv, Reading
    <3>6. ~Lists(fetched, n, k)
      BY <2>2 DEF Lists
    <3>7. CASE Lists(logs, n, k)
      <4>1. PICK j \in DOMAIN logs : logs[j].blockNumber = n /\ logs[j].index = k
        BY <3>7 DEF Lists
      <4> QED
        BY <2>5, <3>2, <4>1, SMTT(30)
    <3>8. CASE cut /\ Behind(logs, n, k)
      BY <3>8, Zenon DEF Behind, Earlier
    <3> QED
      BY <3>5, <3>6, <3>7, <3>8, Zenon DEF Accounted
  <2>7. ASSUME NEW log \in found PROVE log \in Wanted(Len(blocks), before, Len(blocks))
    <3>1. PICK j \in DOMAIN logs : log = Entry(logs[j].blockNumber, logs[j].index)
      BY <2>5
    <3> DEFINE n == logs[j].blockNumber
               k == logs[j].index
    <3>2. Stands(logs[j])
      BY <2>4, SMTT(30)
    <3>3. /\ n \in DOMAIN blocks /\ k \in DOMAIN blocks[n] /\ Floor(before) <= n /\ n <= end
          /\ logs[j].address = blocks[n][k].address /\ logs[j].topics = blocks[n][k].topics /\ Matches(logs[j])
      BY <3>2, Zenon DEF Stands
    <3>4. Matches(blocks[n][k])
      BY <3>3 DEF Matches
    <3> HIDE DEF n, k
    <3>5. log = Entry(n, k) /\ log.blockNumber = n /\ log.index = k
      BY <3>1, EntryFields DEF n, k
    <3>6. Matches(log)
      BY <3>4, <3>5, EntryMatches, Zenon
    <3>7. n \in Nat /\ 1 <= n /\ n <= Len(blocks) /\ n <= Ceiling(Len(blocks))
      BY <2>2, <2>3, <3>3, SMTT(30)
    <3>8. IsBetween(log, 1, Len(blocks))
      BY <3>3, <3>5, <3>7 DEF IsBetween
    <3>9. Floor(before) <= log.blockNumber /\ log.blockNumber <= Ceiling(Len(blocks)) /\ Len(blocks) <= Len(blocks)
      BY <2>2, <3>3, <3>5, <3>7
    <3> QED
      BY <2>2, <3>6, <3>8, <3>9, WantedIs
  <2>8. \A j, k \in DOMAIN logs : j < k => Earlier(logs[j], logs[k])
    BY <2>1 DEF CollectInv, Sorted
  <2> QED
    BY <2>6, <2>7, <2>8 DEF LogsMatch, found
<1>2. QueryInv => LogsMatch
  BY <1>1 DEF LogsMatch
<1> QED
  BY <1>2, QueryInvariant, PTL

-----------------------------------------------------------------------------
(* What a call has left to do *)

CallPhase ==
  CASE pc = "called"               -> 5
    [] pc = "begin"                -> 4
    [] pc = "end"                  -> 3
    [] pc = "query"                -> 2
    [] pc \in {"range", "refresh"} -> 1
    [] OTHER                       -> 0

\* Blocks of the range, logs of the block or of QueryLogs, and attempts of the
\* call of the node.
BlocksLeft == IF begin <= end THEN (end + 1) - begin ELSE 0

LogsLeft == IF pc = "refresh" THEN Len(fetched) + 1 ELSE 0

AttemptsLeft == IF i < maxRetry THEN maxRetry - i ELSE 0

CallVariant == <<CallPhase, BlocksLeft, LogsLeft, AttemptsLeft>>

\* The lexicographic order.
Smaller(v, w) ==
  \/ v[1] < w[1]
  \/ v[1] = w[1] /\ v[2] < w[2]
  \/ v[1] = w[1] /\ v[2] = w[2] /\ v[3] < w[3]
  \/ v[1] = w[1] /\ v[2] = w[2] /\ v[3] = w[3] /\ v[4] < w[4]

\* What a step may be while the call lasts.
CallGoesOn ==
  Running => \/ GetLogs /\ Smaller(CallVariant', CallVariant)
             \/ ~GetLogs /\ CallVariant' = CallVariant

LEMMA CallVariantSmaller ==
  \/ CallPhase' < CallPhase
  \/ CallPhase' = CallPhase /\ BlocksLeft' < BlocksLeft
  \/ CallPhase' = CallPhase /\ BlocksLeft' = BlocksLeft /\ LogsLeft' < LogsLeft
  \/ CallPhase' = CallPhase /\ BlocksLeft' = BlocksLeft /\ LogsLeft' = LogsLeft /\ AttemptsLeft' < AttemptsLeft
  => Smaller(CallVariant', CallVariant)
BY DEF Smaller, CallVariant

LEMMA CallVariantType ==
  ASSUME TypeInv
  PROVE  CallPhase \in Nat /\ BlocksLeft \in Nat /\ LogsLeft \in Nat /\ AttemptsLeft \in Nat
<1>1. begin \in Int /\ end \in Int /\ Len(fetched) \in Nat /\ i \in Nat /\ maxRetry \in Nat
  BY RetryAssumption DEF TypeInv
<1>2. CallPhase \in Nat
  BY DEF CallPhase
<1>3. BlocksLeft \in Nat
  BY <1>1 DEF BlocksLeft
<1>4. LogsLeft \in Nat
  BY <1>1 DEF LogsLeft
<1>5. AttemptsLeft \in Nat
  BY <1>1 DEF AttemptsLeft
<1> QED
  BY <1>2, <1>3, <1>4, <1>5

\* A log is done, whatever became of the call for it.
LEMMA RefreshShrinks ==
  ASSUME TypeInv, pc = "refresh", fetched # <<>>, fetched' = Tail(fetched), UNCHANGED <<pc, begin, end>>
  PROVE  Smaller(CallVariant', CallVariant)
<1>1. Len(fetched) \in Nat /\ Len(fetched') = Len(fetched) - 1
  BY DEF TypeInv
<1>2. CallPhase' = CallPhase /\ BlocksLeft' = BlocksLeft
  BY Zenon DEF CallPhase, BlocksLeft
<1>3. LogsLeft' < LogsLeft
  BY <1>1 DEF LogsLeft
<1> QED
  BY <1>2, <1>3, CallVariantSmaller, Zenon

LEMMA CallShrinks ==
  ASSUME TypeInv, ControlInv, GetLogs
  PROVE  Smaller(CallVariant', CallVariant)
<1>0. begin \in Int /\ end \in Int /\ i \in Nat /\ maxRetry \in Nat /\ pc \in Steps
  BY RetryAssumption DEF TypeInv
<1>1. CASE LookupHash \/ ResolveBegin \/ ResolveEnd \/ RangeDone \/ Query \/ StoreFails
  <2>1. \/ pc = "called" /\ pc' \in {"begin", "failed"}
        \/ pc = "begin" /\ pc' = "end"
        \/ pc = "end" /\ pc' \in {"range", "query"}
        \/ pc = "range" /\ pc' \in {"returned", "failed"}
        \/ pc = "query" /\ pc' \in {"refresh", "failed"}
    BY <1>1, Zenon DEF LookupHash, ResolveBegin, ResolveEnd, RangeDone, Query, StoreFails
  <2>2. CallPhase' < CallPhase
    BY <2>1 DEF CallPhase
  <2> QED
    BY <2>2, CallVariantSmaller, Zenon
<1>2. CASE getLogsByBlockNumberRange
  <2>1. pc = "range" /\ pc' = "refresh" /\ begin < end + 1 /\ begin' = begin + 1 /\ end' = end
    BY <1>2 DEF getLogsByBlockNumberRange
  <2>2. CallPhase' = CallPhase
    BY <2>1 DEF CallPhase
  <2>3. BlocksLeft' < BlocksLeft
    BY <1>0, <2>1 DEF BlocksLeft
  <2> QED
    BY <2>2, <2>3, CallVariantSmaller, Zenon
<1>3. CASE GetConfirmations
  <2>1. fetched # <<>> /\ fetched' = Tail(fetched) /\ UNCHANGED <<pc, begin, end>>
    BY <1>3 DEF GetConfirmations, Refreshed
  <2> QED
    BY <2>1, RefreshShrinks DEF ControlInv
<1>4. CASE GetConfirmationsFails
  <2>1. fetched # <<>> /\ UNCHANGED <<pc, begin, end>> /\ pc = "refresh"
    BY <1>4 DEF GetConfirmationsFails, ControlInv
  <2>2. CASE GiveUp /\ Refreshed(Gone)
    BY <2>1, <2>2, RefreshShrinks DEF Refreshed
  <2>3. CASE Retry /\ UNCHANGED <<fetched, logs>>
    <3>1. CallPhase' = CallPhase /\ BlocksLeft' = BlocksLeft /\ LogsLeft' = LogsLeft
      BY <2>1, <2>3, Zenon DEF CallPhase, BlocksLeft, LogsLeft
    <3>2. AttemptsLeft' < AttemptsLeft
      BY <1>0, <2>3 DEF Retry, AttemptsLeft
    <3> QED
      BY <3>1, <3>2, CallVariantSmaller, Zenon
  <2> QED
    BY <1>4, <2>2, <2>3 DEF GetConfirmationsFails
<1>5. CASE RefreshDone
  <2>1. pc = "refresh" /\ fetched = <<>> /\ UNCHANGED <<begin, end>> /\ pc' \in {"returned", "failed", "range"}
    BY <1>5 DEF RefreshDone
  <2>2. CASE pc' = "range"
    <3>1. CallPhase' = CallPhase /\ BlocksLeft' = BlocksLeft
      BY <2>1, <2>2 DEF CallPhase, BlocksLeft
    <3>2. LogsLeft' < LogsLeft
      BY <2>1, <2>2 DEF LogsLeft
    <3> QED
      BY <3>1, <3>2, CallVariantSmaller, Zenon
  <2>3. CASE pc' # "range"
    <3>1. CallPhase' < CallPhase
      BY <2>1, <2>3 DEF CallPhase
    <3> QED
      BY <3>1, CallVariantSmaller, Zenon
  <2> QED
    BY <2>2, <2>3
<1> QED
  BY <1>1, <1>2, <1>3, <1>4, <1>5, Zenon DEF GetLogs

\* Every step of GetLogs takes the call nearer to its end, and no block that is
\* added, no move of the node and no lost attempt takes it back: "latest" is
\* resolved once, and RetryableClient counts its attempts.  What is left is
\* four natural numbers in lexicographic order, so a call has finitely many
\* steps, for every criterion, chain and maxRetry.
THEOREM QueryShrinks == Spec => [](CallVariant \in Nat \X Nat \X Nat \X Nat) /\ [][CallGoesOn]_vars
<1>1. QueryInv => CallVariant \in Nat \X Nat \X Nat \X Nat
  BY CallVariantType DEF CallVariant, QueryInv
<1>2. ASSUME QueryInv, [Next]_vars PROVE CallGoesOn
  <2>1. GetLogs => Smaller(CallVariant', CallVariant)
    BY <1>2, CallShrinks DEF QueryInv
  <2>2. ASSUME ~GetLogs PROVE CallVariant' = CallVariant
    <3>1. UNCHANGED <<pc, begin, end, fetched, i>>
      BY <1>2, <2>2, Zenon DEF Next, NewBlock, NodeMoves, vars
    <3> QED
      BY <3>1, Zenon DEF CallVariant, CallPhase, BlocksLeft, LogsLeft, AttemptsLeft
  <2> QED
    BY <2>1, <2>2, Zenon DEF CallGoesOn
<1>3. QueryInv /\ [Next]_vars => [CallGoesOn]_vars
  BY <1>2, Zenon
<1> QED
  BY <1>1, <1>3, QueryInvariant, PTL DEF Spec

=============================================================================
