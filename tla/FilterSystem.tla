---------------------------- MODULE FilterSystem ----------------------------
(***************************************************************************)
(* From publishNewBlock to the client: the two feeds, EventSystem's        *)
(* eventLoop, the goroutine of every filter and subscription, the RPC      *)
(* handlers of filterAPI and its timeoutLoop, with the unbuffered channels *)
(* and the mutex filtersMu they meet on.                                   *)
(*                                                                         *)
(* The mutex is held across steps by timeoutLoop only (sweeping); the      *)
(* critical section of every other holder is one action that waits for     *)
(* ~sweeping.  A send on an unbuffered channel and its receipt are one     *)
(* action of both sides.  The channels txsCh, rmLogsCh and pendingLogsCh   *)
(* never carry anything: nothing sends on their feeds.                     *)
(***************************************************************************)
EXTENDS LogFilter, Functions

CONSTANTS
  Polled,     \* ids of filters (NewFilter, NewBlockFilter)
  Pushed,     \* ids of subscriptions (Logs, NewHeads)
  Typ,        \* "logs" or "blocks", for each id
  CritOf,     \* criterion, for each id of type "logs"
  None,       \* no id
  BlockLogs,  \* what the logs of a block may be: sequences of [address, topics]
  ChanSize,   \* logsChanSize and chainEvChanSize (10)
  MaxBlocks,  \* bound on the virtual chain
  MayExpire   \* may a filter miss its deadline?

Ids == Polled \cup Pushed

ASSUME FilterAssumption ==
  /\ Polled \cap Pushed = {}
  /\ None \notin Ids
  /\ Typ \in [Ids -> {"logs", "blocks"}]
  /\ \A id \in Ids : Typ[id] = "logs" => SubscribeLogsAccepts(CritOf[id])
  /\ \A logs \in BlockLogs : logs \in Seq(Range(logs))
  /\ ChanSize \in Nat \ {0}
  /\ MaxBlocks \in Nat
  /\ MayExpire \in BOOLEAN

VARIABLES
  blocks,      \* logs of each published block
  publishing,  \* where publishNewBlock is: "none", "chain" or "logs"
  chainCh,     \* block numbers
  logsCh,      \* block numbers
  index,       \* subscriptions eventLoop has installed
  event,       \* block number eventLoop is handing out
  target,      \* subscription on whose channel eventLoop is sending, or None
  left,        \* subscriptions it goes on to after that
  filters,     \* keys of filterAPI.filters
  queue,       \* logs or hashes of each filter
  timer,       \* deadline of each filter: "running", "fired" (the value is in
               \* the channel) or "drained"
  gor,         \* where the goroutine of each filter or subscription is
  hand,        \* what it has received and not yet passed on
  unsub,       \* Unsubscribe: "none", "loop" (in its select), "closed" (done)
  sweeping,    \* timeoutLoop holds filtersMu
  unswept,     \* filters it has not looked at
  sweepingOf,  \* filter whose Unsubscribe it is in, or None
  due,         \* history: what eventLoop took for each subscription
  got          \* history: what each client was given

feedVars == <<blocks, publishing>>
chanVars == <<chainCh, logsCh>>
loopVars == <<index, event, target, left>>
apiVars == <<filters, queue, timer>>
sweepVars == <<sweeping, unswept, sweepingOf>>
vars == <<feedVars, chanVars, loopVars, apiVars, gor, hand, unsub, sweepVars, due, got>>

Init ==
  /\ blocks = <<>>
  /\ publishing = "none"
  /\ chainCh = <<>>
  /\ logsCh = <<>>
  /\ index = {}
  /\ event = 0
  /\ target = None
  /\ left = {}
  /\ filters = {}
  /\ queue = [id \in Polled |-> <<>>]
  /\ timer = [id \in Polled |-> "running"]
  /\ gor = [id \in Ids |-> "none"]
  /\ hand = [id \in Ids |-> <<>>]
  /\ unsub = [id \in Ids |-> "none"]
  /\ sweeping = FALSE
  /\ unswept = {}
  /\ sweepingOf = None
  /\ due = [id \in Ids |-> <<>>]
  /\ got = [id \in Ids |-> <<>>]

-----------------------------------------------------------------------------
(* publishNewBlock; Feed.Send waits for room in the channel. *)

Publish(logs) ==
  /\ publishing = "none"
  /\ Len(blocks) < MaxBlocks
  /\ blocks' = Append(blocks, logs)
  /\ publishing' = "chain"
  /\ UNCHANGED <<chanVars, loopVars, apiVars, gor, hand, unsub, sweepVars, due, got>>

SendChainEvent ==
  /\ publishing = "chain"
  /\ Len(chainCh) < ChanSize
  /\ chainCh' = Append(chainCh, Len(blocks))
  /\ publishing' = IF blocks[Len(blocks)] = <<>> THEN "none" ELSE "logs"
  /\ UNCHANGED <<blocks, logsCh, loopVars, apiVars, gor, hand, unsub, sweepVars, due, got>>

\* Mutant: logs that find no room are dropped.
SendLogsDrops ==
  /\ publishing = "logs"
  /\ logsCh' = IF Len(logsCh) < ChanSize THEN Append(logsCh, Len(blocks)) ELSE logsCh
  /\ publishing' = "none"
  /\ UNCHANGED <<blocks, chainCh, loopVars, apiVars, gor, hand, unsub, sweepVars, due, got>>

SendLogs ==
  /\ publishing = "logs"
  /\ Len(logsCh) < ChanSize
  /\ logsCh' = Append(logsCh, Len(blocks))
  /\ publishing' = "none"
  /\ UNCHANGED <<blocks, chainCh, loopVars, apiVars, gor, hand, unsub, sweepVars, due, got>>

-----------------------------------------------------------------------------
(* eventLoop *)

LogsOf(n) ==
  [i \in DOMAIN blocks[n] |-> [blockNumber |-> n,
                               address     |-> blocks[n][i].address,
                               topics      |-> blocks[n][i].topics]]

\* What the event of block n puts on the channel of id: a header, or the
\* matching logs.
Payload(id, n) ==
  IF Typ[id] = "blocks" THEN <<n>> ELSE filterLogs(LogsOf(n), CritOf[id])

Receivers(typ, n) == {id \in index : Typ[id] = typ /\ Payload(id, n) # <<>>}

\* The next subscription in the order of Go's map iteration.
Offer(ids) ==
  IF ids = {}
    THEN target' = None /\ left' = {}
    ELSE \E id \in ids : target' = id /\ left' = ids \ {id}

\* handleLogs and handleChainEvent up to their first send.
HandOut(typ, n) ==
  /\ target = None
  /\ event' = n
  /\ Offer(Receivers(typ, n))
  /\ due' = [id \in Ids |-> IF id \in Receivers(typ, n)
                              THEN due[id] \o Payload(id, n)
                              ELSE due[id]]

handleLogs ==
  /\ logsCh # <<>>
  /\ logsCh' = Tail(logsCh)
  /\ HandOut("logs", Head(logsCh))
  /\ UNCHANGED <<feedVars, chainCh, index, apiVars, gor, hand, unsub, sweepVars, got>>

handleChainEvent ==
  /\ chainCh # <<>>
  /\ chainCh' = Tail(chainCh)
  /\ HandOut("blocks", Head(chainCh))
  /\ UNCHANGED <<feedVars, logsCh, index, apiVars, gor, hand, unsub, sweepVars, got>>

\* The send: received by the goroutine, ...
Deliver ==
  /\ target # None
  /\ gor[target] = "select"
  /\ hand' = [hand EXCEPT ![target] = Payload(target, event)]
  /\ gor' = [gor EXCEPT ![target] = "received"]
  /\ Offer(left)
  /\ UNCHANGED <<feedVars, chanVars, index, event, apiVars, unsub, sweepVars, due, got>>

\* Mutant: Unsubscribe does not read the subscription's channels.
ConsumeNever == FALSE

\* ... or consumed by Unsubscribe.
Consume ==
  /\ target # None
  /\ unsub[target] = "loop"
  /\ Offer(left)
  /\ UNCHANGED <<feedVars, chanVars, index, event, apiVars, gor, hand, unsub, sweepVars, due, got>>

\* subscribeLogs or SubscribeNewHeads, and subscribe; a filter goes on to be
\* registered, a subscription to its goroutine's loop.
subscribe(id) ==
  /\ gor[id] = "none"
  /\ gor' = [gor EXCEPT ![id] = IF id \in Polled THEN "register" ELSE "select"]

\* The request es.install <- sub, its receipt and close(f.installed).
Install(id) ==
  /\ target = None
  /\ subscribe(id)
  /\ index' = index \cup {id}
  /\ UNCHANGED <<feedVars, chanVars, event, target, left, apiVars, hand, unsub, sweepVars, due, got>>

\* Mutant: the subscription stays in the index.
UninstallKeeps(id) ==
  /\ target = None
  /\ unsub[id] = "loop"
  /\ unsub' = [unsub EXCEPT ![id] = "closed"]
  /\ UNCHANGED <<feedVars, chanVars, loopVars, apiVars, gor, hand, sweepVars, due, got>>

\* Mutant: f.err is not closed.
UninstallNoClose(id) ==
  /\ target = None
  /\ unsub[id] = "loop"
  /\ index' = index \ {id}
  /\ UNCHANGED <<feedVars, chanVars, event, target, left, apiVars, gor, hand, unsub, sweepVars, due, got>>

\* The request es.uninstall <- sub.f, its receipt and close(f.err).
Uninstall(id) ==
  /\ target = None
  /\ unsub[id] = "loop"
  /\ index' = index \ {id}
  /\ unsub' = [unsub EXCEPT ![id] = "closed"]
  /\ UNCHANGED <<feedVars, chanVars, event, target, left, apiVars, gor, hand, sweepVars, due, got>>

-----------------------------------------------------------------------------
(* Filters: the rest of NewFilter and NewBlockFilter, their goroutines, and *)
(* the RPCs.                                                                *)

Register(id) ==
  /\ gor[id] = "register"
  /\ ~sweeping
  /\ filters' = filters \cup {id}
  /\ gor' = [gor EXCEPT ![id] = "select"]
  /\ UNCHANGED <<feedVars, chanVars, loopVars, queue, timer, hand, unsub, sweepVars, due, got>>

AppendReceived(id) ==
  /\ gor[id] = "received"
  /\ ~sweeping
  /\ queue' = IF id \in filters THEN [queue EXCEPT ![id] = @ \o hand[id]] ELSE queue
  /\ hand' = [hand EXCEPT ![id] = <<>>]
  /\ gor' = [gor EXCEPT ![id] = "select"]
  /\ UNCHANGED <<feedVars, chanVars, loopVars, filters, timer, unsub, sweepVars, due, got>>

\* The select takes logsSub.Err().
ExitFilter(id) ==
  /\ gor[id] = "select"
  /\ unsub[id] = "closed"
  /\ ~sweeping
  /\ filters' = filters \ {id}
  /\ gor' = [gor EXCEPT ![id] = "exited"]
  /\ UNCHANGED <<feedVars, chanVars, loopVars, queue, timer, hand, unsub, sweepVars, due, got>>

\* Mutant: only the map entry goes.
UninstallFilterNoUnsubscribe(id) ==
  /\ id \in filters
  /\ ~sweeping
  /\ filters' = filters \ {id}
  /\ UNCHANGED <<feedVars, chanVars, loopVars, queue, timer, gor, hand, unsub, sweepVars, due, got>>

UninstallFilter(id) ==
  /\ id \in filters
  /\ ~sweeping
  /\ filters' = filters \ {id}
  /\ unsub' = [unsub EXCEPT ![id] = "loop"]
  /\ UNCHANGED <<feedVars, chanVars, loopVars, queue, timer, gor, hand, sweepVars, due, got>>

\* Mutant: the queue is not emptied.
GetFilterChangesKeeps(id) ==
  /\ id \in filters
  /\ ~sweeping
  /\ queue[id] # <<>>
  /\ got' = [got EXCEPT ![id] = @ \o queue[id]]
  /\ UNCHANGED <<feedVars, chanVars, loopVars, apiVars, gor, hand, unsub, sweepVars, due>>

\* Stop fails on a timer that is not running, and the value is then received:
\* on a drained timer that would be for ever.
GetFilterChanges(id) ==
  /\ id \in filters
  /\ ~sweeping
  /\ timer[id] # "drained"
  /\ timer' = [timer EXCEPT ![id] = "running"]
  /\ got' = [got EXCEPT ![id] = @ \o queue[id]]
  /\ queue' = [queue EXCEPT ![id] = <<>>]
  /\ UNCHANGED <<feedVars, chanVars, loopVars, filters, gor, hand, unsub, sweepVars, due>>

Expire(id) ==
  /\ MayExpire
  /\ id \in filters
  /\ timer[id] = "running"
  /\ timer' = [timer EXCEPT ![id] = "fired"]
  /\ UNCHANGED <<feedVars, chanVars, loopVars, filters, queue, gor, hand, unsub, sweepVars, due, got>>

-----------------------------------------------------------------------------
(* Subscriptions: the goroutines of Logs and NewHeads *)

Notify(id) ==
  /\ gor[id] = "received"
  /\ got' = [got EXCEPT ![id] = @ \o hand[id]]
  /\ hand' = [hand EXCEPT ![id] = <<>>]
  /\ gor' = [gor EXCEPT ![id] = "select"]
  /\ UNCHANGED <<feedVars, chanVars, loopVars, apiVars, unsub, sweepVars, due>>

\* The client unsubscribes or its connection closes.
Leave(id) ==
  /\ gor[id] = "select"
  /\ gor' = [gor EXCEPT ![id] = "leaving"]
  /\ unsub' = [unsub EXCEPT ![id] = "loop"]
  /\ UNCHANGED <<feedVars, chanVars, loopVars, apiVars, hand, sweepVars, due, got>>

ExitSubscription(id) ==
  /\ gor[id] = "leaving"
  /\ unsub[id] = "closed"
  /\ gor' = [gor EXCEPT ![id] = "exited"]
  /\ UNCHANGED <<feedVars, chanVars, loopVars, apiVars, hand, unsub, sweepVars, due, got>>

-----------------------------------------------------------------------------
(* timeoutLoop *)

\* A tick, and filtersMu.Lock().
SweepBegin ==
  /\ ~sweeping
  /\ filters # {}
  /\ sweeping' = TRUE
  /\ unswept' = filters
  /\ UNCHANGED <<feedVars, chanVars, loopVars, apiVars, gor, hand, unsub, sweepingOf, due, got>>

SweepKeep(id) ==
  /\ sweepingOf = None
  /\ id \in unswept
  /\ timer[id] = "running"
  /\ unswept' = unswept \ {id}
  /\ UNCHANGED <<feedVars, chanVars, loopVars, apiVars, gor, hand, unsub, sweeping, sweepingOf, due, got>>

\* Mutant: the sweep passes over an expired filter.
SweepExpiredSkips(id) ==
  /\ sweepingOf = None
  /\ id \in unswept
  /\ timer[id] = "fired"
  /\ unswept' = unswept \ {id}
  /\ UNCHANGED <<feedVars, chanVars, loopVars, apiVars, gor, hand, unsub, sweeping, sweepingOf, due, got>>

\* <-f.deadline.C, and the call of Unsubscribe with the mutex held.
SweepExpired(id) ==
  /\ sweepingOf = None
  /\ id \in unswept
  /\ timer[id] = "fired"
  /\ timer' = [timer EXCEPT ![id] = "drained"]
  /\ unsub' = [unsub EXCEPT ![id] = "loop"]
  /\ sweepingOf' = id
  /\ unswept' = unswept \ {id}
  /\ UNCHANGED <<feedVars, chanVars, loopVars, filters, queue, gor, hand, sweeping, due, got>>

\* Mutant: the map entry stays.
SweepDeleteForgets ==
  /\ sweepingOf # None
  /\ unsub[sweepingOf] = "closed"
  /\ sweepingOf' = None
  /\ UNCHANGED <<feedVars, chanVars, loopVars, apiVars, gor, hand, unsub, sweeping, unswept, due, got>>

SweepDelete ==
  /\ sweepingOf # None
  /\ unsub[sweepingOf] = "closed"
  /\ filters' = filters \ {sweepingOf}
  /\ sweepingOf' = None
  /\ UNCHANGED <<feedVars, chanVars, loopVars, queue, timer, gor, hand, unsub, sweeping, unswept, due, got>>

SweepEnd ==
  /\ sweeping
  /\ sweepingOf = None
  /\ unswept = {}
  /\ sweeping' = FALSE
  /\ UNCHANGED <<feedVars, chanVars, loopVars, apiVars, gor, hand, unsub, unswept, sweepingOf, due, got>>

-----------------------------------------------------------------------------
PublisherStep == SendChainEvent \/ SendLogs

LoopStep == handleLogs \/ handleChainEvent \/ Deliver \/ Consume

FilterStep(id) == Register(id) \/ AppendReceived(id) \/ ExitFilter(id)

SubscriptionStep(id) == Notify(id) \/ ExitSubscription(id)

SweepStep ==
  \/ \E id \in unswept : SweepKeep(id) \/ SweepExpired(id)
  \/ SweepDelete
  \/ SweepEnd

ClientStep ==
  \/ \E id \in Ids : Install(id)
  \/ \E id \in Polled : UninstallFilter(id) \/ GetFilterChanges(id) \/ Expire(id)
  \/ \E id \in Pushed : Leave(id)

Next ==
  \/ \E logs \in BlockLogs : Publish(logs)
  \/ PublisherStep
  \/ LoopStep
  \/ \E id \in Ids : Uninstall(id)
  \/ \E id \in Polled : FilterStep(id)
  \/ \E id \in Pushed : SubscriptionStep(id)
  \/ SweepBegin
  \/ SweepStep
  \/ ClientStep

Spec == Init /\ [][Next]_vars

\* Goroutines that can run do; select picks at random among the cases that
\* are ready and the mutex is starvation free, hence SF where others compete.
\* Blocks and clients come as they like; the ticker ticks.
Fairness ==
  /\ WF_vars(PublisherStep)
  /\ WF_vars(LoopStep)
  /\ \A id \in Ids : SF_vars(Uninstall(id))
  /\ \A id \in Polled : SF_vars(FilterStep(id))
  /\ \A id \in Pushed : WF_vars(SubscriptionStep(id))
  /\ WF_vars(SweepBegin)
  /\ WF_vars(SweepStep)

FairSpec == Spec /\ Fairness

-----------------------------------------------------------------------------
(* Properties *)

\* What eventLoop has taken for id and not handed over.
Undelivered(id) == IF id = target \/ id \in left THEN Payload(id, event) ELSE <<>>

\* Every log or header eventLoop takes while a filter or subscription is
\* installed reaches its client once and in order: it has been returned by
\* GetFilterChanges, or is in the filter's queue, in the goroutine's hand or
\* still with eventLoop.  Of subscriptions: it has been notified.
StreamComplete ==
  /\ \A id \in filters :
       unsub[id] = "none" => got[id] \o queue[id] \o hand[id] \o Undelivered(id) = due[id]
  /\ \A id \in Pushed :
       gor[id] \in {"select", "received"} => got[id] \o hand[id] \o Undelivered(id) = due[id]

\* The part of a stream that is in a feed's channel or about to be sent.
Queued(id) ==
  LET sending == IF publishing = "chain" \/ (publishing = "logs" /\ Typ[id] = "logs")
                   THEN Payload(id, Len(blocks)) ELSE <<>>
      ch      == IF Typ[id] = "logs" THEN logsCh ELSE chainCh
  IN  FlattenSeq([i \in DOMAIN ch |-> Payload(id, ch[i])]) \o sending

\* All that ever matched.
Stream(id) == FlattenSeq([n \in DOMAIN blocks |-> Payload(id, n)])

\* The feeds lose, repeat and reorder nothing: what eventLoop took for an
\* installed subscription and what is on its way are together the newest part
\* of all that matched, also when publishNewBlock had to wait for room.
FeedsAreExact == \A id \in index : IsSuffix(due[id] \o Queued(id), Stream(id))

\* "this ensures that the manager won't use the event channel": once
\* Unsubscribe has returned, eventLoop has no send to that channel ahead.
UnsubscribedIsSilent ==
  \A id \in Ids : unsub[id] = "closed" => id \notin index \cup left \cup {target}

\* eventLoop never holds a filter that no RPC and no timeout can remove any
\* more: it is in filterAPI.filters, or about to be, or being unsubscribed.
NoOrphan ==
  \A id \in index \cap Polled : id \in filters \/ gor[id] = "register" \/ unsub[id] = "loop"

\* GetFilterChanges, which receives from deadline.C with filtersMu held, finds
\* a value there: whoever else drained the timer has removed the filter before
\* the mutex is free.
PollCannotBlock == ~sweeping => \A id \in filters : timer[id] # "drained"

\* A send on a subscription's channel ends ("This prevents the eventLoop
\* broadcast method to deadlock").
BroadcastEnds == target # None ~> target = None

\* publishNewBlock, and with it the virtual chain, is not held up for ever by
\* clients that are slow or leave.
PublisherGoesOn == publishing # "none" ~> publishing = "none"

\* Unsubscribe, UninstallFilter with it, and the goroutine of a client that
\* left do end.
UnsubscribeReturns ==
  \A id \in Ids : unsub[id] = "loop" ~> gor[id] = "exited"

\* A filter whose deadline passed is polled again or removed ("deletes filters
\* that have not been recently used").
ExpiredIsSwept ==
  \A id \in Polled : timer[id] = "fired" ~> id \notin filters \/ timer[id] = "running"

=============================================================================
