# Chainlogs in TLA+

Chainlogs derives EVM logs from the EGTX transactions of a Bitcoin Cash node,
packs them into *virtual blocks*, keeps these in moeingdb, and serves them over
the Ethereum JSON-RPC, with filters and subscriptions. This directory has TLA+
models of it, the TLC configurations that check them, and TLAPS proofs. Paths
and line numbers are those of the repository; `PROJECT.json` maps each
definition to the lines it models.

## The system

| Part | State | Operations | What is hard about it |
| --- | --- | --- | --- |
| BCH node (external) | main chain, mempool | RPCs read it; it mines, drops, reorganises | moves between any two calls |
| `scanner/bch.go` | `LatestScanBlockHeight`, `knownTxCache` | `GetNewTxs`: new blocks, then the mempool | stale reads, cache eviction, a limit that stops it early, panics |
| `chains/adapter.go` | height, hashes, ticker | `Start`, `RecoveryFromDB`, `GenerateNewBlock`, `publishNewBlock` | death at any point, ticks that are late, announcing what is not yet readable |
| `store/store.go` | blocks in moeingdb | `AddBlock`, `IsTxMined`, `GetLatestBlockInfo`, queries | indexing in the background |
| `convertUtxoInfoToTx`, `bch/egtx.go` | none | deriving rules | boundaries; errors against panics |
| `rpc/api/filters` event system | index of subscriptions, feeds' channels | `eventLoop`, `Unsubscribe` | unbuffered channels, back pressure |
| `rpc/api/filters` API | `filters`, queues, timers, `filtersMu` | filters, subscriptions, polling, sweep, `GetLogs` | a mutex held across a rendezvous; reads of a growing chain |
| `rpc/api/eth_api.go`, `api/` | none | lookups of blocks and transactions | asked while a block is being indexed |
| `bch/client.go` | loop variable | node calls with retries | stalls of hours, outages |
| `rpc/server.go` | listeners | `OnStart`, `OnStop` | a port that is taken when others are served already |
| `cmd/chainlogs`, `config` | store, trap | start-up, signal, cleanup, exit | a signal at any point, cleanup beside a running round |
| `bch/abi.go`, `buildTokenInfo` | none | packing of a log's data | offsets, padding, the count written over packed data |
| `cmd/txbuilder` | unspent outputs | list, build, send | lost answers, rounded amounts, a format shared with the scanner |

A round goes: ticker -> `GenerateNewBlock` -> `GetNewTxs` (node and store
calls) -> `AddBlock` -> `publishNewBlock` -> feeds -> `eventLoop` -> goroutine
of each filter or subscription -> client. Beside it run moeingdb's goroutine,
the RPC handlers and `timeoutLoop`.

What should be true, by part:

* scanner and chain: a block that claims a scanned height leaves nothing out;
  no transaction twice; heights without gap; announced blocks stay; rounds end;
  what is mined is recorded in the end;
* clock: scanning rounds keep their distance, build times do not go back;
* process: it runs with all of its ports or not at all, bridges an outage of
  the node by retrying, and a signal closes store and ports and then ends it;
* deriving: pushed data, inputs and outputs are conserved, padding keeps
  values, packed data and tokens can be read back, only EGTX transactions can
  stop the scanner;
* builder: what it writes derives, pays its fee, and is sent once;
* events: every stream reaches its client exactly once and in order,
  unsubscribing is final and ends, nobody waits for ever, expired filters go;
* queries: the matching logs, all, once, in order, although blocks are added;
  confirmation counts that were true during the call; calls end;
* subscribers and the eth API: blocks are announced in order, none twice, and
  at most one is missed for a crash; what was announced becomes readable.

## Modules

| Module | Models |
| --- | --- |
| `BchNode` | the node, from how the scanner uses it. A transaction is its txid, a block a set of them |
| `ChainLogDB` | the store; `pending` is the block moeingdb is indexing |
| `BchScanner` | `GetNewTxs`: one action for each node call and for each iteration of the two loops |
| `VirtualChain` | recovery, ticks, `GenerateNewBlock`, publishing, crash and panic; composes the three above |
| `VirtualLedger` | what readers are promised: a ledger that only grows, by blocks whose claims are true |
| `EthApi` | the lookups of `eth_api.go` as functions of the store, in every state of `VirtualChain` |
| `VirtualChainInv` | the inductive invariant of `VirtualChain`, in parts |
| `VirtualChainProofs`, `VirtualChainOnce` | theorems: nothing lost, what was announced and in which order, the scan's progress; nothing twice, the refinement, the limit on a block, the end of a round |
| `BlockClock` | the time side of the same loop: recovered timestamp, first sleep, ticker, rounds of any length |
| `RpcServer` | the four endpoints: bind in order, serve, stop |
| `Service` | the process: start-up, trap, cleanup and exit, with `BlockClock`, `RpcServer`, and rounds that are calls of `RetryableClient` in real time, through an outage |
| `ServiceProofs` | theorems about `BlockClock` and `Service` |
| `EgtxDeriving` | the conversion of a transaction, as operators and one action |
| `EgtxLogData` | its data: token words, ABI packing and unpacking, the refresh of the count |
| `TxBuilder` | a run of `cmd/txbuilder` against a node, and the scanner's reading of what it sent |
| `EgtxProofs`, `BuilderProofs` | theorems: packing and unpacking, the conversion; the builder with the scanner's reading |
| `Selection` | the filtering loop that is written out in many places of the code, and the joining of lists |
| `SequenceLemmas` | lemmas about lists, about that loop and about joined lists, for all the proofs |
| `LogFilter` | criteria matching and accepted ranges (pure), used by `FilterSystem` and `LogQuery` |
| `FilterSystem`, `FilterSystemProofs` | feeds, event loop, filters, subscriptions, RPCs, sweep, mutex |
| `RetryableClient` | the retry loop of `bch/client.go`, composed into `Service` and `LogQuery` |
| `LogQuery`, `LogQueryProofs` | `GetLogs` while the chain grows, and the refresh of confirmation counts while the node moves |
| `MC...` | small instances for TLC |

`convertUtxoInfoToTx` appears in `BchScanner` as its three outcomes
(`Derivable`, `Fatal`, neither) and in `EgtxDeriving` in full. Operators whose
comment starts with "Mutant" are variants of the definition after them with a
bug put in; no specification uses them. They show that each property notices
such a bug.

### Correspondence worth knowing

* `pc` is the point that `GenerateNewBlock` and `GetNewTxs` have reached. The
  transactions of a block or a mempool listing are looked at in any order: the
  checks are made one by one and the order of the node's answer is free.
* `Tick` may come whenever the loop waits. With `SlowIndexing` it may come
  before moeingdb is done with the last block; without, not.
* `Crash` stands for a panic on a failed node call, a signal and a power cut.
  `Panic` is the panic on a `Fatal` transaction: `extractInputInfos` and
  `DecodeAddress`. `AddBlockDurable` says whether a block that moeingdb took
  and has not indexed survives; the properties do not depend on the answer,
  except `AnnouncedIsFinal` and `AnnouncedInOrder`, which say so.
* A send on an unbuffered Go channel and its receipt are one action.
  `timeoutLoop` is the only holder of `filtersMu` that waits for something
  meanwhile, so the mutex is the variable `sweeping`; every other critical
  section is one action with guard `~sweeping`.
* `due` and `got` are history variables, for `StreamComplete`.
* In `LogQuery` heights are cut to `Uint32`, in the run 8 instead of 2^32. `i` is
  the loop variable of the `RetryableClient` call in progress; the history
  variable `seen` has every confirmation count the node had since the call.
  `GetFilterLogs` is a lookup followed by `GetLogs`. A store call may fail
  (`StoreFails`), and a query may stop at any entry and report no error, because
  `QueryLogs` overwrites the error of its callback; the history variable `cut`
  has that. `LogsMatch` then lets the answer lack logs at its end, and says nothing
  of numbers that a `uint32` does not hold (`NumbersFit`).
* `BlockClock` has the clock set back only while the process is down: Go's
  tickers and timers use the monotonic clock.
* In `Service` a round is its node calls. `GetBlockCount` stands for the calls
  that panic when they give up while the chain is scanned; `GetRawMempool` panics
  too; after `GetRawTransactionVerbose` the loop goes on. `gone` is a transaction
  that left the mempool after it was listed: all attempts fail although the node
  is well. Start-up and cleanup take no time. That the node knows the inputs of
  EGTX transactions is assumed here; `EgtxDeriving` has the other case.
* Data in `EgtxLogData` is a sequence of words with byte offsets. `amount` is a
  non-negative number or does not parse. `cut` in `EgtxDeriving` is the satoshi
  that `uint64(Value*1e8)` loses for some values.

## Runs

| Run | Shows |
| --- | --- |
| `live` | two derivable transactions, a limit of one per block, lagging indexing, a crash at any step that may lose a block: `TypeOK`, `ScannedIsRecorded`, `OversizeIsOneBlock`, `ChainIsLinear`, `NewestIsAnnounced`, and `VirtualChain` implements `VirtualLedger`, whose blocks keep their claim and repeat nothing; under fairness `RoundEnds`, `MinedIsRecorded` and `AnnouncedBecomesReadable` |
| `reorg` | a reorganisation between rounds, an evicting cache, a plain and a fatal transaction, a crash: `RecordedOnce`, `CacheIsSound`, `AnnouncedIsFinal`, `AnnouncedInOrder` |
| `clock` | the process (module `Service`): `RunsFullyBound`, `ScansArePaced`, `ShortOutageSurvived`, `ExitIsOrderly`, and `SignalEnds` under fairness |
| `filters` | the streams (`StreamComplete`, `FeedsAreExact`), `UnsubscribedIsSilent`, `NoOrphan`, `PollCannotBlock`, and progress: `BroadcastEnds`, `PublisherGoesOn`, `UnsubscribeReturns`, `ExpiredIsSwept` |
| `egtx` | the conversion: `ConversionKeepsValue`, `ElementsConserved`, `PartiesConserved`, `DataUnpacks`, `TokensCanBeRead`, `OnlyEgtxCanPanic`; and the builder: `BuiltIsDerived`, `FeeIsPaid`, `SendsOnce` |
| `get_logs` | `LogsMatch`, `RangeIsBounded`, `ConfirmationsWereTrue`, and `GetLogsEnds` under fairness |

Six runs show where the code and what is written about it disagree. The
property is the written claim; TLC's counterexample is the disagreement.

| Run | Claim | What happens |
| --- | --- | --- |
| `duplicate_after_reorg` | `scanner/bch.go:129` (and the call left out at 134), mined transactions need not be cached | a reorganisation in the middle of a round puts a transaction into a virtual block twice |
| `missed_after_reorg` | `README.md:46`, mined blocks are checked | the block that replaces a scanned one is never read: a transaction it brings stays out, however many complete scans follow and although the block stays in the chain (a leads-to property, under the fairness of `live`; without a reorganisation it holds) |
| `clock_set_back` | the assertion at `chains/adapter.go:85` | `GetLatestBlockInfo` returns `Timestamp`, always 0, not `Size`: it cannot fire, and a restart never waits out the interval |
| `filter_deadlock` | `geth_filter_system.go:160`, no deadlock with the broadcast | `timeoutLoop` unsubscribes filter f with `filtersMu` held, `eventLoop` sends to filter g, whose goroutine waits for `filtersMu` |
| `input_rule` | `README.md:31`, the first P2PKH/P2SH input gives the sender | any other input makes the scanner panic |
| `value_rule` | `README.md:19` and `:21`, the value is the satoshis times 10^10 | `uint64(Value*1e8)` truncates a floating point product (0.29 * 1e8 is 28999999.999999996): the value may be a satoshi short |

Further disagreements met on the way, without a run of their own: an EGTX
transaction whose second output is an OP_RETURN is rejected
(`scanner/bch.go:213`, against `README.md:9`); `ParentHash` is not left empty
after a restart (`chains/adapter.go:137`, against `README.md:54`); `toBlock`
4294967295 with an address or a topic returns no logs (`filter_api.go:293`);
`GetFilterLogs` returns an error for an unknown filter, not "an empty array"
(`filter_api.go:241`); a confirmation count of -1 is reported for every error,
not only when the transaction is gone (`README.md:18`);
`QueryLogs` overwrites the error that its callback sets (`store.go:118`), so an
answer may be cut short without one; `eth_getBlockByNumber` answers null to
"latest"; a payment that the builder makes to a bare public key is not derived
(`BuiltIsDerived` says so).

### Bounds

* Two derivable transactions (`live`) are enough for one to be left over by the
  limit, met twice, or lost while the other is kept; a derivable, a plain and a
  fatal one (`reorg`) for one to be evicted by another and for a round to panic. Two main chain blocks above the genesis height let
  a scan stop between them; three virtual blocks let one be lost and two
  follow. `ScanEvery` is 2 instead of 12: rounds with and without scan alternate.
  One crash and one reorganisation, at any point: the state after a crash is an
  initial state but for the store and the node, which the model varies anyway.
* `MaxCacheSize` is 2 in `live` (never evicts) and 0 in `reorg` (evicts with
  the second entry; `RecordedOnce` then rests on prompt indexing). An evicting
  cache together with lagging indexing is outside of `RecordedOnce`: a duplicate
  is then possible. Derivable transactions are symmetric; symmetry is used for
  safety only.
* `live` has `MaxVirtualHeight` 3, so `MinedIsRecorded` speaks of transactions
  mined before the first virtual block is made, or again after its loss.
* `ChanSize` is 1 instead of 10 in the filter models: a publisher that waits
  needs only a full channel. Two blocks show order; one subscription of each
  kind suffices for the streams. The deadlock takes a second polled filter, which
  the run `filters` does not have: its progress properties say nothing of it, the
  run `filter_deadlock` and the theorems `OnlySweepDeadlocks`, `DeadlockIsFinal`
  and `NoDeadlockAlone` do.
* `clock` has an interval and a delay of 2, `ScanEvery` 2, two attempts and time
  up to 10: a call's retries outlast an interval, so a tick waits and another is
  dropped, and an outage may be shorter or longer than the retries. One process
  and its end; what a restart finds is an initial state (a store with or without
  a block). One endpoint is off and there is no certificate, so both branches
  of a TLS endpoint occur.
* `egtx` has every output list up to length three, inputs up to two, and pushed
  element lists up to seven elements of zero to four bytes. Addresses have 2
  bytes, topics and words 3, a commitment's first part 2 (instead of 20, 32, 32
  and 8): shorter, exact and longer values occur for each. The builder has flags
  too short and too long, every kind of recipient and up to three unspent outputs
  around what payment and fee need; the node refuses, accepts, or accepts and is
  not heard.
* `get_logs` has two blocks of up to two logs, both of which may come during the
  call, so "latest" can differ between its two reads; two attempts for each node
  call; and one move of the node and one attempt that fails for no reason during
  the call. Every transaction starts as gone, unconfirmed or confirmed. That
  fewer attempts fail than a call makes is assumed (`FaultAssumption`): otherwise
  `GetConfirmations` reports -1 for a transaction the node has.

### Fairness

`VirtualChain`: weak fairness of the program's own steps (one goroutine, always
runnable), of its panic, and of moeingdb's indexing. Nothing is assumed of the
node, and a crash is never required.

`FilterSystem`: weak fairness of publisher, event loop, sweep and notification.
Strong fairness of `Uninstall` and of the filters' goroutines: they compete
in a Go `select`, which chooses at random among ready cases, and for a
`sync.Mutex`, which does not starve. No client has to do anything.
`Notify` is weakly fair: go-ethereum's notifier drops slow connections.

`LogQuery`: weak fairness of the handler's own steps; nothing of chain, node and
network.

`Service`: weak fairness of the three steps of the signal handler, a goroutine
that is runnable from the signal to the exit. Nothing of rounds, node and clock:
`SignalEnds` holds although the round may hang in its retries.

## Proofs

All of it holds for every value of the constants, under the named assumptions of
the modules (types of the constants, disjointness of sets), which TLC evaluates.
No run's bound enters: sets of transactions, filters and blocks, numbers of
crashes and reorganisations, intervals, delays and attempts, lists of inputs,
outputs and elements and the sizes of a word are arbitrary. Every property of a
run that is not a liveness property is a theorem.

| Module | Theorem | States |
| --- | --- | --- |
| `VirtualChainProofs` | `TypeCorrect` | `Spec => []TypeOK` |
| | `ScannedRecorded` | `Spec => []ScannedIsRecorded` |
| | `CacheSound` | `Spec => []CacheIsSound` |
| | `LinearChain` | `Spec => []ChainIsLinear` |
| | `AnnouncedStays` | `Spec => []AnnouncedIsFinal` |
| | `NewestSent` | `Spec => []NewestIsAnnounced` |
| | `SentInOrder` | `Spec => AnnouncedInOrder` |
| | `ScanAdvances` | a block of a scanning round has scanned further than the block before it, or as far as the node is |
| `VirtualChainOnce` | `EntersOnce` | `Spec => []RecordedOnce` |
| | `LedgerRefinement` | `Spec => ImplementsLedger`, without reorganisations, and with prompt indexing or a cache that never evicts |
| | `OneBlockOversize` | `Spec => []OversizeIsOneBlock` |
| | `RoundShrinks` | a step of a round makes `RoundVariant` smaller, any other leaves it alone or ends the round; for finite `Txs` |
| `FilterSystemProofs` | `SilentOnceUnsubscribed` | `Spec => []UnsubscribedIsSilent` |
| | `NoFilterOrphaned` | `Spec => []NoOrphan` |
| | `PollNeverBlocks` | `Spec => []PollCannotBlock` |
| | `StreamsAreComplete` | `Spec => []StreamComplete` |
| | `FeedsLoseNothing` | `Spec => []FeedsAreExact` |
| | `OnlySweepDeadlocks` | a broadcast under way can go on, or the state is `Deadlocked` |
| | `DeadlockIsFinal` | `Deadlocked` is never left |
| | `NoDeadlockAlone` | with one polled filter at most, or none that expires, a broadcast under way can go on |
| `ServiceProofs` | `ScansPaced` | `Spec => ScansArePaced`, of `BlockClock` |
| | `BuildTimesInOrder` | `Spec => []BuildTimesNeverGoBack`, if the clock is never set back |
| | `ServiceScansPaced` | `SSpec => ScansArePaced` |
| | `FullyBound` | `SSpec => []RunsFullyBound` |
| | `OrderlyExit` | `SSpec => ExitIsOrderly` |
| | `OutageSurvived` | `SSpec => ShortOutageSurvived` |
| `EgtxProofs` | `EventReadsBack` | what `PackEGTXLogDataEvent` packs `UnPackEGTXLog` reads back |
| | `ConversionIsCorrect` | `Spec => []` of the six properties of the conversion, of `EgtxDeriving` by itself |
| `BuilderProofs` | `PanicsOnlyOnEgtx` | `BSpec => []OnlyEgtxCanPanic` |
| | `DerivedDataUnpacks` | `BSpec => []DataUnpacks` |
| | `PartiesAreConserved` | `BSpec => []PartiesConserved` |
| | `TokensReadBack` | `BSpec => []TokensCanBeRead` |
| | `ConversionIsFaithful` | `BSpec => []ConversionKeepsValue` |
| | `ElementsAreConserved` | `BSpec => []ElementsConserved` |
| | `BuilderSendsOnce` | `BSpec => []SendsOnce` |
| | `BuilderPaysTheFee` | `BSpec => []FeeIsPaid` |
| | `BuiltIsRead` | `BSpec => []BuiltIsDerived` |
| `LogQueryProofs` | `AnswersMatch` | `Spec => []LogsMatch` |
| | `RangesAreBounded` | `Spec => []RangeIsBounded` |
| | `ConfirmationsAreTrue` | `Spec => []ConfirmationsWereTrue` |
| | `QueryShrinks` | a step of a call makes `CallVariant` smaller, any other leaves it alone |

### Arguments

**Virtual chain.** None of the invariants is inductive. `VirtualChainInv` has the
strengthening in parts, each with a lemma for its initial states and one for a
step, with a case for each action:

* `TypeInv` (a block about to be read exists) and `NodeInv` (no transaction in
  two places);
* `ControlInv`: what the variables are at each `pc`; the scanned height lies
  between the newest block's claim and the node's height;
* `ShapeInv`: `ChainIsLinear`, and blocks hold derivable transactions;
* `RecordInv`: what was scanned in this run is in a block or in the one being
  built; within a main chain block, what is no longer in `todo` is. It holds
  across a crash because recovery goes back to the height the newest surviving
  block claims, and across the loss of a block because a prefix of the chain
  supports its claims by itself (`LedgerIsPrefix`);
* `RoundInv`: what the loops have yet to look at is not in the block being built,
  because `todo` comes from a main chain block or a mempool that has nothing in
  common with what was scanned before;
* `PendingInv`: while a block is being indexed, `IsTxMined` does not see it; then
  the cache or the scanned height must keep its transactions out;
* `OnceInv`: the block being built has no duplicates and shares nothing with the
  chain, under the condition of `RecordedOnce`;
* `SizeInv`: while a main chain block is read, the entries that are not of that
  block stay below the limit. The limit is tested between main chain blocks, so
  only the entries of the last one can exceed it.

The refinement maps a block to its claim and its hashes. `Index` is the ledger's
`Extend`, by `ScannedIsRecorded` and `RecordedOnce`; `Mine` is its `Mine`; every
other step, the crash that loses a block included, leaves the ledger alone.

`PublishInv` adds to these what has been announced while the loop waits or is in
a round that may end without a block.

`GapInv`, for `SentInOrder`: if moeingdb keeps what `AddBlock` took, the blocks
that are not announced are the one about to be and at most one per crash, since
only a crash between `AddBlock` and `publishNewBlock` leaves one behind.

`ScanAdvances` rests on `ScanInv`: between rounds the height in memory is the one
on record, and a scanning round leaves its loop behind a whole main chain block or
at the height the node had. `MaxTxsInBlock` is tested after the height has moved,
so a limit of any size from one on delays transactions and stalls nothing.

`RoundVariant` is the phase of the round, the main chain blocks still to be read
and the transactions still to be looked at. The number of blocks does not grow
while the node mines, because `newestHeight` is read once; that is all of
`RoundEnds` but the fairness.

**Lists.** Most other properties speak of lists that a loop filters or joins.
`Selected` and `FlattenSeq` are recursive functions, that is, a `CHOOSE`, so
`SequenceLemmas` first shows that such a function exists. Induction over the
length is an appeal to the least counterexample (`LeastNumber`, `Induction`): a
set of numbers stands for the predicate, which no prover takes as a parameter.
`SelectedEnumerates` says what filtering returns, by an increasing function from
the places of the result to those of the list; `FlattenAppend`, `FlattenConcat`
and `FlattenPart` say what joining does. `SelectSeq`, whose definition has its
recursion hidden in the library, is not used where something is proved. `SequencesExt` is not extended either: the
two operators taken from it are in `Selection`, because the facts that come with
that module slow every step of every proof down.

**Filters.** `ControlInv`: the event loop only has sends ahead to installed
subscriptions (`LoopInv`), how far a subscription's goroutine, its installation
and its `Unsubscribe` can be apart (`LifeInv`), and that only the filter the sweep
is removing can be drained or half unsubscribed while it is in the map
(`SweepInv`). `StreamInv`: given so far, queued, in the goroutine's hand and still
to be sent make up what the loop took, also before a filter is in the map.
`ExactInv` is the same one step earlier: what the loop took since the subscription
was installed, what is in the channel and what the publisher is about to send are
the end of what was published. It is stated of every id, since a filter may be
installed while blocks are on their way.

`EndInv` adds how far a goroutine can have ended: it leaves only after an
`Unsubscribe` began, that of a filter never does so on its own, and the sweep
waits in the `Unsubscribe` of an expired filter. Hence the receiver of a broadcast
is ready, in `Notify`, or waiting for `filtersMu`, which only the sweep holds across
steps. The state of the run `filter_deadlock` (`Deadlocked`) is then the only one in
which a broadcast cannot go on; it takes a second polled filter and an expired one,
and nothing in the program leaves it.

**Clock.** `PaceInv`: each tick taken since the last scan, and the one in the
channel, has moved `nextTick` on by an interval. A tick that is dropped only moves
it further. `ClockInv` keeps the clock above zero, which is `nextTick` before
there is a ticker. `TimesInv`, for `BuildTimesInOrder`: neither the recorded build
time nor that of the round is ahead of the clock. It needs `MaxSetBack = 0`, the
assumption whose failure the run `clock_set_back` shows.

**Process.** `Service` implements `BlockClock` (`ServiceClock`), so its theorem
carries over. `StageInv` relates the stage to ports, store and ending.
`RetryInv`: a call for something the node has fails only while the node is away,
so its delays lie in the outage; there is one outage, so they add up.

**Packed data.** `HoldsAt(d, off, s)` says that `s` is found at an offset of `d`.
Each part of the packed data is found where its head says, since the offsets are
the lengths of what comes before; writing the count over the first word changes
no other word. `WordAssumption` has what this needs of the sizes: a length fits a
byte of the token's head, and words are not empty.

**Conversion and builder.** `EgtxInv`: a derived log is that of its transaction, a
transaction is well formed, and the loop over the unspent outputs has not
succeeded yet while it goes on. The properties then follow from what the operators
do, one lemma each: `CommitmentReadsBack` for the two words of a commitment,
`NumberOfPadded` for padding, `TopicElementsFacts` and `Consumed` for the first
five elements. `CandidatesAssumption` says that transactions have an output, and
values and amounts that fit 96 bits. `WrittenInv`: whatever is sent, and later
read, has the shape that `buildEGTX` gave it (`Written`), so each output that the
scanner looks for is where it looks (`FirstPayment`, `ScriptTopics`).
`BuilderAssumption` has the types of the command line; its addresses are not the
one that stands for none.

**Queries.** `QueryInv` of `LogQueryProofs` has six parts besides types.
`RangeInv`: each "latest" is resolved to a height between the one at the call and
the present one. `CollectInv`: what was returned or fetched so far is a sorted
list of matching logs of the blocks asked for, and has all those of blocks that
were there at the call and are behind the loop variable; a new block changes
neither. `LogsBetween` is shown to be the sorted list of a range (`Gathers`), and
`Wanted`, the criterion applied to the whole chain, a set of such logs
(`WantedIs`). `LimitInv` has the limit after each block. `SeenInv`: when more
attempts of the present call failed than there were faults at all, the node did
not have the transaction; so a call that gives up has seen it gone, because
`FaultAssumption` leaves at least one attempt. `ExistInv`: what was fetched is
there, for every criterion. `CollectInv` has the hypothesis `NumbersFit`, that a
`uint32` holds the numbers of the criterion and the successor of the last: beyond
that the code wraps, see above. `Accounted` says of a query that was cut short that
what it lacks comes after all it has. `CallVariant` is the phase of the call, the
blocks of the range still to be read, the logs still to be refreshed and the
attempts left for the present one.

### Only model-checked

Liveness, because fairness and `ENABLED` are out of the prover's reach:
`RoundEnds`, `MinedIsRecorded`, `AnnouncedBecomesReadable`, `BroadcastEnds`,
`PublisherGoesOn`, `UnsubscribeReturns`, `ExpiredIsSwept`, `GetLogsEnds`,
`SignalEnds`. Of three of them the part without fairness is proved: the variants of
`RoundEnds` and `GetLogsEnds`, and for `BroadcastEnds` that the only obstacle is the
known one. That a broadcast which can go on does so is left to TLC.

## Not modelled

* Signatures and keys in the builder: the sender's address is a constant and
  the node accepts the signature.
* HTTP and WebSocket handlers, CORS, TLS and the registration of APIs, which
  are go-ethereum's. The self-signed certificate is unreachable code. JSON
  formatting, and the constant `eth_chainId`.
* moeingdb's inside and its limit on entries: in `LogQuery` its `QueryLogs` may
  stop at any entry, with an error or without. Its use by a round that goes on after the trap closed it; opening a directory
  that a crash left before the database was created in it.
* `VirtualChain.Stop` and the event loop's stop cases: nothing calls `Stop`.
  `txsCh`, `rmLogsCh`, `pendingLogsCh`: nothing sends on their feeds.
* Test support: mocks, fixed data and builders that only tests run.

## Plan

1. The composition of `VirtualChain` with `FilterSystem`: one publisher for both,
   so that a full feed delays the next round.
