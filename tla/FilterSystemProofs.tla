------------------------ MODULE FilterSystemProofs ------------------------
(***************************************************************************)
(* Safety of FilterSystem for any number of filters, subscriptions and     *)
(* blocks and any size of the channels.                                    *)
(***************************************************************************)
EXTENDS FilterSystem, SequenceLemmas

GorStates == {"none", "register", "select", "received", "leaving", "exited"}

TypeInv ==
  /\ index \subseteq Ids /\ left \subseteq Ids /\ target \in Ids \cup {None}
  /\ filters \subseteq Polled
  /\ timer \in [Polled -> {"running", "fired", "drained"}]
  /\ gor \in [Ids -> GorStates]
  /\ unsub \in [Ids -> {"none", "loop", "closed"}]
  /\ sweeping \in BOOLEAN
  /\ unswept \subseteq Polled /\ sweepingOf \in Polled \cup {None}

\* eventLoop sends to installed subscriptions only.
LoopInv ==
  /\ target = None => left = {}
  /\ target \in index \cup {None}
  /\ left \subseteq index /\ target \notin left

\* From the request to install to the end of the goroutine.
LifeInv ==
  /\ \A id \in Ids :
       /\ gor[id] = "none" => id \notin index
       /\ gor[id] \in {"none", "register"} => unsub[id] = "none" /\ id \notin filters
       /\ unsub[id] = "closed" => id \notin index
  /\ \A id \in Pushed : gor[id] \in {"select", "received"} => unsub[id] = "none"
  /\ \A id \in Polled :
       /\ gor[id] \in {"none", "register"} => timer[id] = "running"
       /\ gor[id] \in {"select", "received"} /\ unsub[id] = "none" => id \in filters

\* filtersMu, while timeoutLoop holds it, and the one filter it has begun to
\* remove: no other filter in the map is drained or being unsubscribed.
SweepInv ==
  /\ unswept \subseteq filters /\ sweepingOf \notin unswept
  /\ ~sweeping => sweepingOf = None /\ unswept = {}
  /\ \A id \in filters : timer[id] = "drained" \/ unsub[id] # "none" => sweepingOf = id

ControlInv == TypeInv /\ LoopInv /\ LifeInv /\ SweepInv /\ NoOrphan

-----------------------------------------------------------------------------

LEMMA IdsFacts == Polled \subseteq Ids /\ Pushed \subseteq Ids /\ None \notin Ids /\ Polled \cap Pushed = {}
BY FilterAssumption DEF Ids

LEMMA ControlInit == Init => ControlInv
BY IdsFacts, ZenonT(30) DEF Init, ControlInv, TypeInv, LoopInv, LifeInv, SweepInv, NoOrphan, GorStates

LEMMA OfferStep ==
  ASSUME NEW ids \in SUBSET Ids, Offer(ids)
  PROVE  /\ target' \in ids \cup {None} /\ left' \subseteq ids /\ target' \notin left'
         /\ target' = None <=> ids = {}
         /\ target' = None => left' = {}
         /\ ids = left' \cup ({target'} \ {None})
BY IdsFacts DEF Offer

LEMMA ControlStep == ControlInv /\ [Next]_vars => ControlInv'
<1> SUFFICES ASSUME ControlInv, [Next]_vars PROVE ControlInv'
  OBVIOUS
<1> USE DEF ControlInv, TypeInv, GorStates
<1>0. Polled \subseteq Ids /\ Pushed \subseteq Ids /\ None \notin Ids /\ Polled \cap Pushed = {}
  BY IdsFacts
<1>1. ASSUME NEW ids \in SUBSET index, Offer(ids), UNCHANGED <<index, filters, timer, unsub, sweepVars, gor>>
      PROVE  ControlInv'
  BY <1>0, <1>1, OfferStep, ZenonT(30) DEF LoopInv, LifeInv, SweepInv, NoOrphan, sweepVars
<1>2. CASE handleLogs \/ handleChainEvent
  <2>1. PICK typ, n : Offer(Receivers(typ, n))
    BY <1>2 DEF handleLogs, handleChainEvent, HandOut
  <2> QED
    BY <1>1, <1>2, <2>1, ZenonT(30) DEF handleLogs, handleChainEvent, Receivers, apiVars
<1>3. CASE Consume
  BY <1>1, <1>3 DEF Consume, LoopInv, apiVars
<1>4. CASE Deliver
  <2>1. /\ target \in Ids /\ gor[target] = "select" /\ gor' = [gor EXCEPT ![target] = "received"]
        /\ Offer(left) /\ UNCHANGED <<index, filters, timer, unsub, sweepVars>>
    BY <1>0, <1>4 DEF Deliver, apiVars
  <2>2. TypeInv' /\ LoopInv'
    BY <1>0, <2>1, OfferStep DEF LoopInv, sweepVars
  <2>3. LifeInv' /\ SweepInv' /\ NoOrphan'
    BY <1>0, <2>1, ZenonT(30) DEF LifeInv, SweepInv, NoOrphan, sweepVars
  <2> QED
    BY <2>2, <2>3
<1>5. CASE (\E logs \in BlockLogs : Publish(logs)) \/ PublisherStep \/ UNCHANGED vars
  BY <1>5 DEF Publish, PublisherStep, SendChainEvent, SendLogs, vars, loopVars, apiVars, sweepVars,
     LoopInv, LifeInv, SweepInv, NoOrphan
<1>6. ASSUME NEW id \in Ids, Install(id) PROVE ControlInv'
  BY <1>0, <1>6 DEF Install, subscribe, apiVars, sweepVars, LoopInv, LifeInv, SweepInv, NoOrphan
<1>7. ASSUME NEW id \in Ids, Uninstall(id) PROVE ControlInv'
  BY <1>0, <1>7 DEF Uninstall, apiVars, sweepVars, LoopInv, LifeInv, SweepInv, NoOrphan
<1>8. ASSUME NEW id \in Polled, Register(id) PROVE ControlInv'
  BY <1>0, <1>8 DEF Register, loopVars, sweepVars, LoopInv, LifeInv, SweepInv, NoOrphan
<1>9. ASSUME NEW id \in Polled, AppendReceived(id) PROVE ControlInv'
  BY <1>0, <1>9 DEF AppendReceived, loopVars, sweepVars, LoopInv, LifeInv, SweepInv, NoOrphan
<1>10. ASSUME NEW id \in Polled, ExitFilter(id) PROVE ControlInv'
  BY <1>0, <1>10, ZenonT(30) DEF ExitFilter, loopVars, sweepVars, LoopInv, LifeInv, SweepInv, NoOrphan
<1>11. ASSUME NEW id \in Polled, UninstallFilter(id) PROVE ControlInv'
  BY <1>0, <1>11 DEF UninstallFilter, loopVars, sweepVars, LoopInv, LifeInv, SweepInv, NoOrphan
<1>12. ASSUME NEW id \in Polled, GetFilterChanges(id) \/ Expire(id) PROVE ControlInv'
  <2>1. CASE GetFilterChanges(id)
    BY <1>0, <2>1 DEF GetFilterChanges, loopVars, sweepVars, LoopInv, LifeInv, SweepInv, NoOrphan
  <2>2. CASE Expire(id)
    BY <1>0, <2>2, ZenonT(30) DEF Expire, loopVars, sweepVars, LoopInv, LifeInv, SweepInv, NoOrphan
  <2> QED
    BY <1>12, <2>1, <2>2, ZenonT(30)
<1>13. ASSUME NEW id \in Pushed, Notify(id) \/ Leave(id) \/ ExitSubscription(id) PROVE ControlInv'
  <2>1. CASE Notify(id)
    BY <1>0, <2>1 DEF Notify, loopVars, apiVars, sweepVars, LoopInv, LifeInv, SweepInv, NoOrphan
  <2>2. CASE Leave(id)
    BY <1>0, <2>2, SMTT(30) DEF Leave, loopVars, apiVars, sweepVars, LoopInv, LifeInv, SweepInv, NoOrphan
  <2>3. CASE ExitSubscription(id)
    BY <1>0, <2>3, ZenonT(30) DEF ExitSubscription, loopVars, apiVars, sweepVars, LoopInv, LifeInv, SweepInv, NoOrphan
  <2> QED
    BY <1>13, <2>1, <2>2, <2>3, ZenonT(30)
<1>14. CASE SweepBegin \/ SweepEnd
  <2>1. CASE SweepBegin
    BY <1>0, <2>1, ZenonT(30) DEF SweepBegin, loopVars, apiVars, LoopInv, LifeInv, SweepInv, NoOrphan
  <2>2. CASE SweepEnd
    BY <1>0, <2>2, ZenonT(30) DEF SweepEnd, loopVars, apiVars, LoopInv, LifeInv, SweepInv, NoOrphan
  <2> QED
    BY <1>14, <2>1, <2>2, ZenonT(30)
<1>15. ASSUME NEW id \in unswept, SweepKeep(id) \/ SweepExpired(id) PROVE ControlInv'
  <2>1. CASE SweepKeep(id)
    BY <1>0, <2>1, ZenonT(30) DEF SweepKeep, loopVars, apiVars, LoopInv, LifeInv, SweepInv, NoOrphan
  <2>2. CASE SweepExpired(id)
    BY <1>0, <2>2, SMTT(30) DEF SweepExpired, loopVars, apiVars, LoopInv, LifeInv, SweepInv, NoOrphan
  <2> QED
    BY <1>15, <2>1, <2>2
<1>16. CASE SweepDelete
  BY <1>0, <1>16, ZenonT(30) DEF SweepDelete, loopVars, LoopInv, LifeInv, SweepInv, NoOrphan
<1> QED
  BY <1>2, <1>3, <1>4, <1>5, <1>6, <1>7, <1>8, <1>9, <1>10, <1>11, <1>12, <1>13, <1>14, <1>15, <1>16
     DEF Next, LoopStep, FilterStep, SubscriptionStep, SweepStep, ClientStep

LEMMA ControlInvariant == Spec => []ControlInv
BY ControlInit, ControlStep, PTL DEF Spec

\* Once Unsubscribe has returned, eventLoop has no send to that channel ahead,
\* however many clients come and leave.
THEOREM SilentOnceUnsubscribed == Spec => []UnsubscribedIsSilent
<1>1. ControlInv => UnsubscribedIsSilent
  BY IdsFacts, ZenonT(30) DEF ControlInv, LoopInv, LifeInv, UnsubscribedIsSilent
<1> QED
  BY <1>1, ControlInvariant, PTL

\* eventLoop never holds a filter that neither UninstallFilter nor timeoutLoop
\* can remove.
THEOREM NoFilterOrphaned == Spec => []NoOrphan
<1>1. ControlInv => NoOrphan
  BY ZenonT(30) DEF ControlInv
<1> QED
  BY <1>1, ControlInvariant, PTL

\* GetFilterChanges never waits, with filtersMu held, for a deadline whose
\* value timeoutLoop has taken.
THEOREM PollNeverBlocks == Spec => []PollCannotBlock
<1>1. ControlInv => PollCannotBlock
  BY IdsFacts DEF ControlInv, TypeInv, SweepInv, PollCannotBlock
<1> QED
  BY <1>1, ControlInvariant, PTL

-----------------------------------------------------------------------------
(* What can stop eventLoop *)

\* How a goroutine ends, and what the sweep is in the middle of.
EndInv ==
  /\ \A id \in Ids :
       /\ gor[id] = "leaving" => unsub[id] # "none"
       /\ gor[id] = "exited" => unsub[id] = "closed"
  /\ \A id \in Polled : gor[id] # "leaving" /\ (timer[id] # "running" => MayExpire)
  /\ \A id \in Pushed : gor[id] # "register"
  /\ sweepingOf # None => unsub[sweepingOf] # "none" /\ MayExpire

\* The goroutine that eventLoop is sending to waits for filtersMu.
WaitsForMutex == target \in Polled /\ gor[target] \in {"register", "received"}

\* The send can be received, or what its receiver is at can go on without
\* eventLoop: Notify, the critical section after the receipt, or the sweep that
\* has the mutex.
BroadcastCanGoOn ==
  \/ gor[target] = "select"
  \/ unsub[target] = "loop"
  \/ target \in Pushed /\ gor[target] = "received"
  \/ /\ WaitsForMutex
     /\ \/ ~sweeping
        \/ sweepingOf = None /\ \A id \in unswept : timer[id] \in {"running", "fired"}
        \/ sweepingOf # None /\ unsub[sweepingOf] = "closed"

\* eventLoop waits for the goroutine of a filter, the goroutine for filtersMu,
\* and timeoutLoop, which holds it, in the Unsubscribe of another filter for
\* eventLoop.
Deadlocked ==
  /\ WaitsForMutex
  /\ unsub[target] = "none"
  /\ sweepingOf \in Polled \ {target} /\ unsub[sweepingOf] = "loop"

LEMMA EndStep == ASSUME ControlInv, EndInv, [Next]_vars PROVE EndInv'
<1> USE DEF EndInv
<1>0. /\ Polled \subseteq Ids /\ Pushed \subseteq Ids /\ None \notin Ids /\ Polled \cap Pushed = {}
      /\ gor \in [Ids -> GorStates] /\ unsub \in [Ids -> {"none", "loop", "closed"}]
      /\ timer \in [Polled -> {"running", "fired", "drained"}]
      /\ unswept \subseteq Polled /\ sweepingOf \in Polled \cup {None} /\ filters \subseteq Polled
      /\ target \in Ids \cup {None}
  BY IdsFacts DEF ControlInv, TypeInv
<1>1. ASSUME UNCHANGED <<gor, unsub, timer, sweepingOf>> PROVE EndInv'
  BY <1>1
<1>2. CASE \/ handleLogs \/ handleChainEvent \/ Consume \/ SweepBegin \/ SweepEnd \/ UNCHANGED vars \/ PublisherStep
           \/ \E logs \in BlockLogs : Publish(logs)
  BY <1>1, <1>2, Zenon DEF handleLogs, handleChainEvent, Consume, SweepBegin, SweepEnd, vars, PublisherStep, SendChainEvent,
     SendLogs, Publish, apiVars, sweepVars
<1>3. CASE Deliver
  BY <1>0, <1>3 DEF Deliver, apiVars, sweepVars, GorStates
<1>4. ASSUME NEW id \in Ids, Install(id) PROVE EndInv'
  BY <1>0, <1>4 DEF Install, subscribe, apiVars, sweepVars, GorStates
<1>5. ASSUME NEW id \in Ids, Uninstall(id) PROVE EndInv'
  BY <1>0, <1>5 DEF Uninstall, apiVars, sweepVars
<1>6. ASSUME NEW id \in Polled, FilterStep(id) PROVE EndInv'
  <2>1. CASE Register(id) \/ AppendReceived(id)
    <3>1. gor[id] \in {"register", "received"} /\ gor' = [gor EXCEPT ![id] = "select"] /\ UNCHANGED <<unsub, timer, sweepingOf>>
      BY <2>1 DEF Register, AppendReceived, sweepVars
    <3> QED
      BY <1>0, <3>1
  <2>2. CASE ExitFilter(id)
    <3>1. unsub[id] = "closed" /\ gor' = [gor EXCEPT ![id] = "exited"] /\ UNCHANGED <<unsub, timer, sweepingOf>>
      BY <2>2 DEF ExitFilter, sweepVars
    <3> QED
      BY <1>0, <3>1
  <2> QED
    BY <1>6, <2>1, <2>2 DEF FilterStep
<1>7. ASSUME NEW id \in Pushed, SubscriptionStep(id) \/ Leave(id) PROVE EndInv'
  <2>1. CASE Notify(id)
    <3>1. gor[id] = "received" /\ gor' = [gor EXCEPT ![id] = "select"] /\ UNCHANGED <<unsub, timer, sweepingOf>>
      BY <2>1 DEF Notify, apiVars, sweepVars
    <3> QED
      BY <1>0, <3>1
  <2>2. CASE ExitSubscription(id)
    <3>1. unsub[id] = "closed" /\ gor' = [gor EXCEPT ![id] = "exited"] /\ UNCHANGED <<unsub, timer, sweepingOf>>
      BY <2>2 DEF ExitSubscription, apiVars, sweepVars
    <3> QED
      BY <1>0, <3>1
  <2>3. CASE Leave(id)
    <3>1. /\ gor[id] = "select" /\ gor' = [gor EXCEPT ![id] = "leaving"] /\ unsub' = [unsub EXCEPT ![id] = "loop"]
          /\ UNCHANGED <<timer, sweepingOf>>
      BY <2>3 DEF Leave, apiVars, sweepVars
    <3> QED
      BY <1>0, <3>1
  <2> QED
    BY <1>7, <2>1, <2>2, <2>3 DEF SubscriptionStep
<1>8. ASSUME NEW id \in Polled, UninstallFilter(id) PROVE EndInv'
  <2>1. unsub[id] # "closed"
    BY <1>0, <1>8 DEF UninstallFilter, ControlInv, SweepInv
  <2>2. gor[id] # "exited"
    BY <1>0, <2>1
  <2> QED
    BY <1>0, <1>8, <2>2 DEF UninstallFilter, sweepVars
<1>9. ASSUME NEW id \in Polled, GetFilterChanges(id) \/ Expire(id) PROVE EndInv'
  BY <1>0, <1>9 DEF GetFilterChanges, Expire, sweepVars
<1>10. ASSUME NEW id \in unswept, SweepKeep(id) \/ SweepExpired(id) PROVE EndInv'
  <2>1. CASE SweepKeep(id)
    BY <1>1, <2>1, Zenon DEF SweepKeep, apiVars
  <2>2. CASE SweepExpired(id)
    <3>1. id \in Polled /\ id \in Ids /\ unsub[id] = "none" /\ gor[id] # "exited"
      BY <1>0, <2>2 DEF SweepExpired, ControlInv, SweepInv
    <3> QED
      BY <1>0, <2>2, <3>1 DEF SweepExpired
  <2> QED
    BY <1>10, <2>1, <2>2
<1>11. CASE SweepDelete
  BY <1>0, <1>11 DEF SweepDelete
<1> QED
  BY <1>2, <1>3, <1>4, <1>5, <1>6, <1>7, <1>8, <1>9, <1>10, <1>11 DEF Next, LoopStep, SweepStep, ClientStep

LEMMA EndInvariant == Spec => []EndInv
<1>1. Init => EndInv
  BY IdsFacts DEF Init, EndInv
<1>2. ControlInv /\ EndInv /\ [Next]_vars => EndInv'
  BY EndStep
<1> QED
  BY <1>1, <1>2, ControlInvariant, PTL DEF Spec

\* A send of eventLoop either can be received, or its receiver can go on
\* without eventLoop, or the broadcast is deadlocked with the sweep of another
\* filter: nothing else stops it, for any number of filters and subscriptions
\* and whatever their clients do.
THEOREM OnlySweepDeadlocks == Spec => [](target # None => BroadcastCanGoOn \/ Deadlocked)
<1>1. ASSUME ControlInv, EndInv, target # None, ~BroadcastCanGoOn PROVE Deadlocked
  <2>1. /\ target \in Ids /\ gor[target] \in GorStates /\ unsub[target] \in {"none", "loop", "closed"}
        /\ sweepingOf \in Polled \cup {None} /\ Ids = Polled \cup Pushed /\ target \in index
        /\ timer \in [Polled -> {"running", "fired", "drained"}] /\ unswept \subseteq filters /\ filters \subseteq Polled
    BY <1>1 DEF ControlInv, TypeInv, LoopInv, SweepInv, Ids
  <2>2. unsub[target] = "none" /\ gor[target] \in {"register", "received"}
    BY <1>1, <2>1 DEF BroadcastCanGoOn, EndInv, ControlInv, LifeInv, GorStates
  <2>3. WaitsForMutex
    BY <1>1, <2>1, <2>2 DEF WaitsForMutex, BroadcastCanGoOn, EndInv
  <2>4. \A id \in unswept : timer[id] \in {"running", "fired"} \/ sweepingOf = id
    BY <1>1, <2>1 DEF ControlInv, SweepInv
  <2>5. sweepingOf # None /\ unsub[sweepingOf] # "closed"
    BY <1>1, <2>1, <2>3, <2>4, IdsFacts DEF BroadcastCanGoOn, ControlInv, SweepInv
  <2>6. unsub[sweepingOf] = "loop"
    BY <1>1, <2>1, <2>5, IdsFacts DEF EndInv, ControlInv, TypeInv
  <2> QED
    BY <2>1, <2>2, <2>3, <2>5, <2>6 DEF Deadlocked
<1>2. ControlInv /\ EndInv => (target # None => BroadcastCanGoOn \/ Deadlocked)
  BY <1>1
<1> QED
  BY <1>2, ControlInvariant, EndInvariant, PTL

\* That deadlock is for ever: no step of any goroutine or client undoes it.
THEOREM DeadlockIsFinal == Spec => [](Deadlocked => []Deadlocked)
<1>1. ASSUME ControlInv, Deadlocked, [Next]_vars PROVE Deadlocked'
  <2>1. sweeping /\ target # None /\ gor[target] # "select" /\ unsub[target] # "loop" /\ sweepingOf # None
    BY <1>1, IdsFacts DEF Deadlocked, WaitsForMutex, ControlInv, SweepInv
  <2>2. ~handleLogs /\ ~handleChainEvent /\ ~Deliver /\ ~Consume /\ ~SweepBegin /\ ~SweepDelete /\ ~SweepEnd
    BY <1>1, <2>1 DEF handleLogs, handleChainEvent, HandOut, Deliver, Consume, SweepBegin, SweepDelete, SweepEnd, Deadlocked
  <2>3. \A id \in Ids : ~Install(id) /\ ~Uninstall(id)
    BY <2>1, Zenon DEF Install, Uninstall
  <2>4. \A id \in unswept : ~SweepKeep(id) /\ ~SweepExpired(id)
    BY <2>1, Zenon DEF SweepKeep, SweepExpired
  <2>5. \A id \in Polled : ~FilterStep(id) /\ ~UninstallFilter(id)
    BY <2>1, Zenon DEF FilterStep, Register, AppendReceived, ExitFilter, UninstallFilter
  <2>6. CASE PublisherStep \/ (\E logs \in BlockLogs : Publish(logs)) \/ UNCHANGED vars
    BY <1>1, <2>6, Zenon DEF PublisherStep, SendChainEvent, SendLogs, Publish, vars, loopVars, sweepVars, Deadlocked, WaitsForMutex
  <2>7. ASSUME NEW id \in Polled, GetFilterChanges(id) \/ Expire(id) PROVE Deadlocked'
    BY <1>1, <2>7, Zenon DEF GetFilterChanges, Expire, loopVars, sweepVars, Deadlocked, WaitsForMutex
  <2>8. ASSUME NEW id \in Pushed, SubscriptionStep(id) \/ Leave(id) PROVE Deadlocked'
    <3>1. /\ id # target /\ id # sweepingOf /\ id \in Ids /\ target \in Ids /\ sweepingOf \in Ids
          /\ gor \in [Ids -> GorStates] /\ unsub \in [Ids -> {"none", "loop", "closed"}]
      BY <1>1, <2>8, IdsFacts DEF Deadlocked, WaitsForMutex, ControlInv, TypeInv
    <3>2. \E x, y : gor' = [gor EXCEPT ![id] = x] /\ (unsub' = unsub \/ unsub' = [unsub EXCEPT ![id] = y])
      BY <2>8, Zenon DEF SubscriptionStep, Notify, ExitSubscription, Leave
    <3>3. UNCHANGED <<target, sweepingOf>>
      BY <2>8, Zenon DEF SubscriptionStep, Notify, ExitSubscription, Leave, loopVars, sweepVars
    <3>4. gor'[target] = gor[target] /\ unsub'[target] = unsub[target] /\ unsub'[sweepingOf] = unsub[sweepingOf]
      BY <3>1, <3>2
    <3> QED
      BY <1>1, <3>3, <3>4 DEF Deadlocked, WaitsForMutex
  <2> QED
    BY <1>1, <2>2, <2>3, <2>4, <2>5, <2>6, <2>7, <2>8 DEF Next, LoopStep, SweepStep, ClientStep, Deadlocked, WaitsForMutex
<1>2. ControlInv /\ Deadlocked /\ [Next]_vars => Deadlocked'
  BY <1>1
<1> QED
  BY <1>2, ControlInvariant, PTL DEF Spec

\* It takes two filters and a deadline that passes: with one filter, or when
\* every filter is polled in time, eventLoop is never stopped.
THEOREM NoDeadlockAlone ==
  ASSUME ~MayExpire \/ \A x, y \in Polled : x = y
  PROVE  Spec => [](target # None => BroadcastCanGoOn)
<1>1. EndInv => ~Deadlocked
  BY IdsFacts DEF EndInv, Deadlocked, WaitsForMutex
<1> QED
  BY <1>1, EndInvariant, OnlySweepDeadlocks, PTL

-----------------------------------------------------------------------------
(* The streams.  V is a set that what eventLoop sends is made of. *)

PayloadsIn(V) == \A id \in Ids, n \in DOMAIN blocks : Payload(id, n) \in Seq(V)

\* What eventLoop hands out belongs to a published block.
FeedInv ==
  /\ blocks \in Seq(BlockLogs)
  /\ publishing # "none" => Len(blocks) \in DOMAIN blocks
  /\ chainCh \in Seq(DOMAIN blocks) /\ logsCh \in Seq(DOMAIN blocks)
  /\ target # None => event \in DOMAIN blocks

StreamTypes(V) ==
  /\ due \in [Ids -> Seq(V)] /\ got \in [Ids -> Seq(V)] /\ hand \in [Ids -> Seq(V)]
  /\ queue \in [Polled -> Seq(V)]

Waiting(id) == IF id \in Polled THEN queue[id] ELSE <<>>

\* StreamComplete for every id nobody has begun to unsubscribe, registered or
\* not.
WholeStream(id) == got[id] \o Waiting(id) \o hand[id] \o Undelivered(id) = due[id]

StreamInv(V) ==
  /\ FeedInv
  /\ StreamTypes(V)
  /\ \A id \in Ids : gor[id] # "received" => hand[id] = <<>>
  /\ \A id \in Ids : unsub[id] = "none" => WholeStream(id)

LEMMA ConcatMoves ==
  ASSUME NEW V, NEW p \in Seq(V), NEW q \in Seq(V), NEW r \in Seq(V), NEW s \in Seq(V)
  PROVE  /\ p \o q \o <<>> \o <<>> = p \o q
         /\ p \o <<>> = p /\ <<>> \o p = p
         /\ (p \o q) \o <<>> \o r \o s = p \o q \o r \o s
         /\ p \o (q \o r) \o <<>> \o s = p \o q \o r \o s
         /\ (p \o r) \o <<>> \o <<>> \o s = p \o <<>> \o r \o s
         /\ p \o q \o s \o <<>> = p \o q \o <<>> \o s
         /\ (p \o q \o r \o <<>>) \o s = p \o q \o r \o s
<1>1. \A a, b \in Seq(V) : a \o b \in Seq(V)
  BY ConcatProperties
<1>2. \A a \in Seq(V) : a \o <<>> = a /\ <<>> \o a = a
  BY ConcatEmptySeq
<1>3. p \o q \in Seq(V) /\ p \o r \in Seq(V) /\ p \o q \o r \in Seq(V) /\ p \o q \o s \in Seq(V)
  BY <1>1
<1>4. (p \o q) \o r = p \o (q \o r)
  BY ConcatAssociative, SMTT(30)
<1>5. /\ p \o <<>> = p /\ <<>> \o p = p /\ p \o q \o <<>> = p \o q /\ p \o r \o <<>> = p \o r
      /\ p \o q \o r \o <<>> = p \o q \o r /\ p \o q \o s \o <<>> = p \o q \o s
  BY <1>2, <1>3
<1> QED
  BY <1>4, <1>5, Zenon

\* A published block stays what it is.
LEMMA PayloadSame ==
  ASSUME FeedInv, UNCHANGED blocks \/ \E logs \in BlockLogs : blocks' = Append(blocks, logs)
  PROVE  /\ \A n \in DOMAIN blocks : n \in DOMAIN blocks' /\ \A id \in Ids : Payload(id, n)' = Payload(id, n)
         /\ blocks' \in Seq(BlockLogs)
<1>1. blocks' \in Seq(BlockLogs) /\ \A n \in DOMAIN blocks : n \in DOMAIN blocks' /\ blocks'[n] = blocks[n]
  <2>1. CASE UNCHANGED blocks
    BY <2>1 DEF FeedInv
  <2>2. ASSUME NEW logs \in BlockLogs, blocks' = Append(blocks, logs)
        PROVE  blocks' \in Seq(BlockLogs) /\ \A n \in DOMAIN blocks : n \in DOMAIN blocks' /\ blocks'[n] = blocks[n]
    BY <2>2 DEF FeedInv
  <2> QED
    BY <2>1, <2>2
<1>2. \A n \in DOMAIN blocks : LogsOf(n)' = LogsOf(n)
  BY <1>1, Zenon DEF LogsOf
<1> QED
  BY <1>1, <1>2, Zenon DEF Payload

LEMMA FeedStep ==
  ASSUME ControlInv, FeedInv, [Next]_vars
  PROVE  FeedInv'
<1> USE DEF FeedInv
<1>1. ASSUME NEW logs \in BlockLogs, Publish(logs) PROVE FeedInv'
  <2>1. DOMAIN blocks \subseteq DOMAIN blocks' /\ Len(blocks') \in DOMAIN blocks' /\ blocks' \in Seq(BlockLogs)
    BY <1>1 DEF Publish
  <2>2. UNCHANGED <<chainCh, logsCh, target, event>>
    BY <1>1 DEF Publish, chanVars, loopVars
  <2>3. chainCh \in Seq(DOMAIN blocks') /\ logsCh \in Seq(DOMAIN blocks')
    BY <2>1, SeqMonotonic, ZenonT(30)
  <2> QED
    BY <2>1, <2>2, <2>3, ZenonT(30)
<1>2. CASE SendChainEvent
  BY <1>2 DEF SendChainEvent, loopVars
<1>3. CASE SendLogs
  BY <1>3 DEF SendLogs, loopVars
<1>4. CASE handleLogs
  BY <1>4 DEF handleLogs, HandOut, feedVars
<1>5. CASE handleChainEvent
  BY <1>5 DEF handleChainEvent, HandOut, feedVars
<1>6. CASE UNCHANGED <<feedVars, chanVars, event>> /\ (target' # None => target # None)
  BY <1>6 DEF feedVars, chanVars
<1>7. CASE Deliver \/ Consume
  BY <1>6, <1>7, ZenonT(30) DEF Deliver, Consume
<1>8. ASSUME NEW id \in Ids, Install(id) \/ Uninstall(id) PROVE FeedInv'
  BY <1>6, <1>8 DEF Install, Uninstall
<1>9. ASSUME NEW id, \/ FilterStep(id) \/ SubscriptionStep(id)
                    \/ UninstallFilter(id) \/ GetFilterChanges(id) \/ Expire(id) \/ Leave(id)
      PROVE  FeedInv'
  BY <1>6, <1>9, Zenon DEF FilterStep, Register, AppendReceived, ExitFilter, SubscriptionStep, Notify, ExitSubscription,
     UninstallFilter, GetFilterChanges, Expire, Leave, loopVars
<1>10. CASE SweepBegin \/ SweepStep
  BY <1>6, <1>10, Zenon DEF SweepBegin, SweepStep, SweepKeep, SweepExpired, SweepDelete, SweepEnd, loopVars
<1>11. CASE UNCHANGED vars
  BY <1>6, <1>11, ZenonT(30) DEF vars, loopVars
<1> QED
  BY <1>1, <1>2, <1>3, <1>4, <1>5, <1>7, <1>8, <1>9, <1>10, <1>11, ZenonT(30) DEF Next, PublisherStep, LoopStep, ClientStep

LEMMA UndeliveredSame ==
  ASSUME ControlInv, FeedInv, UNCHANGED <<target, left, event>>,
         UNCHANGED blocks \/ \E logs \in BlockLogs : blocks' = Append(blocks, logs)
  PROVE  \A id \in Ids : Undelivered(id)' = Undelivered(id)
<1>1. CASE target = None
  BY <1>1, IdsFacts, ZenonT(30) DEF ControlInv, LoopInv, Undelivered
<1>2. CASE target # None
  <2>1. event \in DOMAIN blocks /\ \A id \in Ids : Payload(id, event)' = Payload(id, event)
    BY <1>2, PayloadSame, ZenonT(30) DEF FeedInv
  <2> QED
    BY <2>1, Zenon DEF Undelivered
<1> QED
  BY <1>1, <1>2, ZenonT(30)

LEMMA WholeTypes ==
  ASSUME NEW V, ControlInv, StreamInv(V), PayloadsIn(V), NEW id \in Ids
  PROVE  /\ got[id] \in Seq(V) /\ hand[id] \in Seq(V) /\ Waiting(id) \in Seq(V) /\ Undelivered(id) \in Seq(V)
         /\ target = None => Undelivered(id) = <<>>
<1>1. <<>> \in Seq(V)
  OBVIOUS
<1>2. got[id] \in Seq(V) /\ hand[id] \in Seq(V) /\ Waiting(id) \in Seq(V)
  BY <1>1 DEF StreamInv, StreamTypes, Waiting
<1>3. target = None => Undelivered(id) = <<>>
  BY IdsFacts DEF ControlInv, LoopInv, Undelivered
<1>4. target # None => Payload(id, event) \in Seq(V)
  BY Zenon DEF StreamInv, FeedInv, PayloadsIn
<1> QED
  BY <1>1, <1>2, <1>3, <1>4 DEF Undelivered

\* Steps that move nothing.
LEMMA StreamFrame ==
  ASSUME NEW V, ControlInv, StreamInv(V), FeedInv',
         UNCHANGED <<due, got, hand, queue, target, left, event>>,
         UNCHANGED blocks \/ \E logs \in BlockLogs : blocks' = Append(blocks, logs),
         \A id \in Ids : unsub'[id] = "none" => unsub[id] = "none",
         \A id \in Ids : gor'[id] # "received" => gor[id] # "received"
  PROVE  StreamInv(V)'
<1>1. \A id \in Ids : Undelivered(id)' = Undelivered(id)
  BY UndeliveredSame, ZenonT(30) DEF StreamInv
<1>2. ASSUME NEW id \in Ids, unsub'[id] = "none" PROVE WholeStream(id)'
  <2>1. WholeStream(id) /\ Undelivered(id)' = Undelivered(id) /\ Waiting(id)' = Waiting(id)
    BY <1>1, <1>2, Zenon DEF StreamInv, Waiting
  <2> QED
    BY <2>1, Zenon DEF WholeStream
<1>3. StreamTypes(V)'
  BY Zenon DEF StreamInv, StreamTypes
<1>4. \A id \in Ids : gor'[id] # "received" => hand'[id] = <<>>
  BY Zenon DEF StreamInv
<1> QED
  BY <1>2, <1>3, <1>4, Zenon DEF StreamInv

LEMMA StreamHandOut ==
  ASSUME NEW V, ControlInv, StreamInv(V), PayloadsIn(V), FeedInv', UNCHANGED <<blocks, got, hand, queue, gor, unsub>>,
         NEW typ, NEW n \in DOMAIN blocks, HandOut(typ, n)
  PROVE  StreamInv(V)'
<1> DEFINE R == Receivers(typ, n)
<1>1. R \subseteq Ids
  BY DEF Receivers, ControlInv, TypeInv
<1>2. target = None /\ event' = n /\ Offer(R) /\ R = left' \cup ({target'} \ {None})
  BY <1>1, OfferStep DEF HandOut
<1>3. ASSUME NEW id \in Ids
      PROVE  /\ due'[id] = IF id \in R THEN due[id] \o Payload(id, n) ELSE due[id]
             /\ Payload(id, n)' = Payload(id, n) /\ Payload(id, n) \in Seq(V)
  BY PayloadSame, Zenon DEF HandOut, StreamInv, PayloadsIn
<1>4. ASSUME NEW id \in Ids
      PROVE  Undelivered(id)' = IF id \in R THEN Payload(id, n) ELSE <<>>
  <2>1. id = target' \/ id \in left' <=> id \in R
    BY <1>2, <1>4, IdsFacts, ZenonT(30)
  <2>2. Undelivered(id)' = IF id \in R THEN Payload(id, n)' ELSE <<>>
    BY <1>2, <2>1, ZenonT(30) DEF Undelivered, Payload, LogsOf
  <2> QED
    BY <1>3, <2>2
<1> HIDE DEF R
<1>5. \A id \in Ids : due[id] \in Seq(V)
  BY ZenonT(30) DEF StreamInv, StreamTypes
<1>6. \A id \in Ids : due'[id] \in Seq(V)
  BY <1>3, <1>5, ConcatProperties, ZenonT(30)
<1>7. due' \in [Ids -> Seq(V)]
  BY <1>6 DEF HandOut
<1>8. ASSUME NEW id \in Ids, unsub'[id] = "none" PROVE WholeStream(id)'
  <2> DEFINE p == got[id]  q == Waiting(id)  r == hand[id]  s == Payload(id, n)
  <2>1. p \in Seq(V) /\ q \in Seq(V) /\ r \in Seq(V) /\ s \in Seq(V) /\ Undelivered(id) = <<>>
    BY <1>2, <1>3, WholeTypes, ZenonT(30)
  <2>2. p \o q \o r \o <<>> = due[id]
    BY <1>8, <2>1 DEF StreamInv, WholeStream
  <2>3. p' = p /\ q' = q /\ r' = r
    BY DEF Waiting
  <2> HIDE DEF p, q, r, s
  <2>4. (p \o q \o r \o <<>>) \o s = p \o q \o r \o s
    BY <2>1, ConcatMoves
  <2>5. p \o q \o r \o Undelivered(id)' = due'[id]
    BY <1>3, <1>4, <2>2, <2>4, Zenon DEF s
  <2> QED
    BY <2>3, <2>5, Zenon DEF WholeStream, p, q, r
<1> QED
  BY <1>7, <1>8, ZenonT(30) DEF StreamInv, StreamTypes

\* The end of a send: only the receiver has one less to come.
LEMMA UndeliveredNext ==
  ASSUME ControlInv, FeedInv, target # None, Offer(left), UNCHANGED <<blocks, event>>
  PROVE  \A id \in Ids : Undelivered(id)' = IF id = target THEN <<>> ELSE Undelivered(id)
<1>1. left = left' \cup ({target'} \ {None}) /\ target \notin left /\ target \in Ids
  BY OfferStep, ZenonT(30) DEF ControlInv, TypeInv, LoopInv
<1>2. ASSUME NEW id \in Ids PROVE id = target' \/ id \in left' <=> id \in left
  BY <1>1, <1>2, IdsFacts, ZenonT(30)
<1>3. \A id \in Ids : Payload(id, event)' = Payload(id, event)
  BY PayloadSame DEF FeedInv
<1> QED
  BY <1>1, <1>2, <1>3, Zenon DEF Undelivered

LEMMA StreamDeliver ==
  ASSUME NEW V, ControlInv, StreamInv(V), PayloadsIn(V), FeedInv', Deliver
  PROVE  StreamInv(V)'
<1>1. /\ target \in Ids /\ gor[target] = "select" /\ target # None /\ Offer(left)
      /\ hand' = [hand EXCEPT ![target] = Payload(target, event)]
      /\ gor' = [gor EXCEPT ![target] = "received"]
      /\ UNCHANGED <<blocks, event, due, got, queue, unsub>>
  BY ZenonT(30) DEF Deliver, ControlInv, TypeInv, feedVars, apiVars
<1>2. \A id \in Ids : Undelivered(id)' = IF id = target THEN <<>> ELSE Undelivered(id)
  BY <1>1, UndeliveredNext DEF StreamInv
<1>3. Payload(target, event) \in Seq(V) /\ hand[target] = <<>> /\ Undelivered(target) = Payload(target, event)
  BY <1>1, Zenon DEF StreamInv, FeedInv, PayloadsIn, Undelivered
<1>4. StreamTypes(V)'
  BY <1>1, <1>3, ZenonT(30) DEF StreamInv, StreamTypes
<1>5. \A id \in Ids : gor'[id] # "received" => hand'[id] = <<>>
  BY <1>1 DEF StreamInv, StreamTypes, ControlInv, TypeInv
<1>6. ASSUME NEW id \in Ids, unsub'[id] = "none" PROVE WholeStream(id)'
  <2>1. WholeStream(id) /\ Waiting(id)' = Waiting(id)
    BY <1>1, <1>6 DEF StreamInv, Waiting
  <2>2. CASE id # target
    <3>1. hand'[id] = hand[id]
      BY <1>1, <2>2 DEF StreamInv, StreamTypes
    <3> QED
      BY <1>1, <1>2, <2>1, <2>2, <3>1, ZenonT(30) DEF WholeStream
  <2>3. CASE id = target
    <3> DEFINE p == got[id]  q == Waiting(id)  s == Payload(target, event)
    <3>1. p \in Seq(V) /\ q \in Seq(V) /\ s \in Seq(V)
      BY <1>3, WholeTypes, ZenonT(30)
    <3>2. p \o q \o <<>> \o s = due[id]
      BY <1>3, <2>1, <2>3, ZenonT(30) DEF WholeStream
    <3>3. hand'[id] = s /\ Undelivered(id)' = <<>>
      BY <1>1, <1>2, <2>3, ZenonT(30) DEF StreamInv, StreamTypes
    <3> HIDE DEF p, q, s
    <3>4. p \o q \o s \o <<>> = p \o q \o <<>> \o s
      BY <3>1, ConcatMoves, SMTT(30)
    <3> QED
      BY <1>1, <2>1, <3>2, <3>3, <3>4, Zenon DEF WholeStream, p, q
  <2> QED
    BY <2>2, <2>3, ZenonT(30)
<1> QED
  BY <1>4, <1>5, <1>6, ZenonT(30) DEF StreamInv

LEMMA StreamConsume ==
  ASSUME NEW V, ControlInv, StreamInv(V), FeedInv', Consume
  PROVE  StreamInv(V)'
<1>1. /\ target # None /\ unsub[target] = "loop" /\ Offer(left)
      /\ UNCHANGED <<blocks, event, due, got, hand, queue, gor, unsub>>
  BY DEF Consume, feedVars, apiVars
<1>2. \A id \in Ids : Undelivered(id)' = IF id = target THEN <<>> ELSE Undelivered(id)
  BY <1>1, UndeliveredNext, ZenonT(30) DEF StreamInv
<1>3. ASSUME NEW id \in Ids, unsub'[id] = "none" PROVE WholeStream(id)'
  <2>1. WholeStream(id) /\ Waiting(id)' = Waiting(id) /\ id # target
    BY <1>1, <1>3, ZenonT(30) DEF StreamInv, Waiting
  <2> QED
    BY <1>1, <1>2, <2>1, Zenon DEF WholeStream
<1> QED
  BY <1>1, <1>3 DEF StreamInv, StreamTypes

\* What a goroutine or a poll moves on stays in its place in the stream.
LEMMA StreamMove ==
  ASSUME NEW V, ControlInv, StreamInv(V), PayloadsIn(V), FeedInv', NEW id \in Ids,
         UNCHANGED <<blocks, event, target, left, due, unsub>>,
         StreamTypes(V)',
         \A x \in Ids : gor'[x] # "received" => hand'[x] = <<>>,
         \A x \in Ids \ {id} : got'[x] = got[x] /\ hand'[x] = hand[x] /\ Waiting(x)' = Waiting(x),
         unsub[id] = "none" =>
           \A s \in Seq(V) : got'[id] \o Waiting(id)' \o hand'[id] \o s = got[id] \o Waiting(id) \o hand[id] \o s
  PROVE  StreamInv(V)'
<1>1. \A x \in Ids : Undelivered(x)' = Undelivered(x)
  BY UndeliveredSame DEF StreamInv
<1>2. ASSUME NEW x \in Ids, unsub'[x] = "none" PROVE WholeStream(x)'
  <2>1. WholeStream(x) /\ Undelivered(x) \in Seq(V) /\ Undelivered(x)' = Undelivered(x)
    BY <1>1, <1>2, WholeTypes, ZenonT(30) DEF StreamInv
  <2>2. got'[x] \o Waiting(x)' \o hand'[x] \o Undelivered(x) = got[x] \o Waiting(x) \o hand[x] \o Undelivered(x)
    BY <1>2, <2>1, ZenonT(30)
  <2> QED
    BY <2>1, <2>2, Zenon DEF WholeStream
<1> QED
  BY <1>2, ZenonT(30) DEF StreamInv

LEMMA StreamAppend ==
  ASSUME NEW V, ControlInv, StreamInv(V), PayloadsIn(V), FeedInv', NEW id \in Polled, AppendReceived(id)
  PROVE  StreamInv(V)'
<1>1. /\ id \in Ids /\ gor[id] = "received"
      /\ queue' = IF id \in filters THEN [queue EXCEPT ![id] = @ \o hand[id]] ELSE queue
      /\ hand' = [hand EXCEPT ![id] = <<>>] /\ gor' = [gor EXCEPT ![id] = "select"]
      /\ UNCHANGED <<blocks, event, target, left, due, got, unsub>>
  BY IdsFacts, ZenonT(30) DEF AppendReceived, feedVars, loopVars
<1>2. /\ got[id] \in Seq(V) /\ queue[id] \in Seq(V) /\ hand[id] \in Seq(V)
      /\ queue[id] \o hand[id] \in Seq(V) /\ <<>> \in Seq(V)
  <2>1. got[id] \in Seq(V) /\ queue[id] \in Seq(V) /\ hand[id] \in Seq(V)
    BY <1>1, Zenon DEF StreamInv, StreamTypes
  <2>2. queue[id] \o hand[id] \in Seq(V)
    BY <2>1, ConcatProperties, Zenon
  <2> QED
    BY <2>1, <2>2
<1>3. StreamTypes(V)'
  BY <1>1, <1>2, ZenonT(30) DEF StreamInv, StreamTypes
<1>4. \A x \in Ids : gor'[x] # "received" => hand'[x] = <<>>
  BY <1>1, ZenonT(30) DEF StreamInv, StreamTypes, ControlInv, TypeInv
<1>5. \A x \in Ids \ {id} : got'[x] = got[x] /\ hand'[x] = hand[x] /\ Waiting(x)' = Waiting(x)
  BY <1>1, ZenonT(30) DEF Waiting, StreamInv, StreamTypes
<1>6. ASSUME unsub[id] = "none", NEW s \in Seq(V)
      PROVE  got'[id] \o Waiting(id)' \o hand'[id] \o s = got[id] \o Waiting(id) \o hand[id] \o s
  <2>1. id \in filters
    BY <1>1, <1>6, ZenonT(30) DEF ControlInv, LifeInv
  <2>2. Waiting(id) = queue[id] /\ Waiting(id)' = queue[id] \o hand[id] /\ hand'[id] = <<>> /\ got'[id] = got[id]
    BY <1>1, <2>1, ZenonT(30) DEF Waiting, StreamInv, StreamTypes
  <2> DEFINE p == got[id]  q == queue[id]  r == hand[id]
  <2>3. p \in Seq(V) /\ q \in Seq(V) /\ r \in Seq(V)
    BY <1>2, ZenonT(30)
  <2>4. got'[id] = p /\ Waiting(id)' = q \o r /\ hand'[id] = <<>> /\ got[id] = p /\ Waiting(id) = q /\ hand[id] = r
    BY <2>2, ZenonT(30)
  <2> HIDE DEF p, q, r
  <2>5. p \o (q \o r) \o <<>> \o s = p \o q \o r \o s
    BY <1>6, <2>3, ConcatMoves, SMTT(30)
  <2> QED
    BY <2>4, <2>5, Zenon
<1> QED
  BY <1>1, <1>3, <1>4, <1>5, <1>6, StreamMove

LEMMA StreamPoll ==
  ASSUME NEW V, ControlInv, StreamInv(V), PayloadsIn(V), FeedInv', NEW id \in Polled, GetFilterChanges(id)
  PROVE  StreamInv(V)'
<1>1. /\ id \in Ids
      /\ got' = [got EXCEPT ![id] = @ \o queue[id]] /\ queue' = [queue EXCEPT ![id] = <<>>]
      /\ UNCHANGED <<blocks, event, target, left, due, hand, gor, unsub>>
  BY IdsFacts, ZenonT(30) DEF GetFilterChanges, feedVars, loopVars
<1>2. /\ got[id] \in Seq(V) /\ queue[id] \in Seq(V) /\ hand[id] \in Seq(V)
      /\ got[id] \o queue[id] \in Seq(V) /\ <<>> \in Seq(V)
  <2>1. got[id] \in Seq(V) /\ queue[id] \in Seq(V) /\ hand[id] \in Seq(V)
    BY <1>1 DEF StreamInv, StreamTypes
  <2>2. got[id] \o queue[id] \in Seq(V)
    BY <2>1, ConcatProperties, ZenonT(30)
  <2> QED
    BY <2>1, <2>2, SMTT(30)
<1>3. StreamTypes(V)'
  BY <1>1, <1>2, ZenonT(30) DEF StreamInv, StreamTypes
<1>4. \A x \in Ids : gor'[x] # "received" => hand'[x] = <<>>
  BY <1>1, ZenonT(30) DEF StreamInv
<1>5. \A x \in Ids \ {id} : got'[x] = got[x] /\ hand'[x] = hand[x] /\ Waiting(x)' = Waiting(x)
  BY <1>1 DEF Waiting, StreamInv, StreamTypes
<1>6. ASSUME NEW s \in Seq(V)
      PROVE  got'[id] \o Waiting(id)' \o hand'[id] \o s = got[id] \o Waiting(id) \o hand[id] \o s
  <2>1. Waiting(id) = queue[id] /\ Waiting(id)' = <<>> /\ hand'[id] = hand[id] /\ got'[id] = got[id] \o queue[id]
    BY <1>1 DEF Waiting, StreamInv, StreamTypes
  <2>2. (got[id] \o queue[id]) \o <<>> \o hand[id] \o s = got[id] \o queue[id] \o hand[id] \o s
    BY <1>2, <1>6, ConcatMoves, ZenonT(30)
  <2> QED
    BY <2>1, <2>2, Zenon
<1> QED
  BY <1>1, <1>3, <1>4, <1>5, <1>6, StreamMove

LEMMA StreamNotify ==
  ASSUME NEW V, ControlInv, StreamInv(V), PayloadsIn(V), FeedInv', NEW id \in Pushed, Notify(id)
  PROVE  StreamInv(V)'
<1>1. /\ id \in Ids /\ id \notin Polled
      /\ got' = [got EXCEPT ![id] = @ \o hand[id]] /\ hand' = [hand EXCEPT ![id] = <<>>]
      /\ gor' = [gor EXCEPT ![id] = "select"]
      /\ UNCHANGED <<blocks, event, target, left, due, queue, unsub>>
  BY IdsFacts, ZenonT(30) DEF Notify, feedVars, loopVars, apiVars
<1>2. got[id] \in Seq(V) /\ hand[id] \in Seq(V) /\ got[id] \o hand[id] \in Seq(V) /\ <<>> \in Seq(V)
  <2>1. got[id] \in Seq(V) /\ hand[id] \in Seq(V)
    BY <1>1, Zenon DEF StreamInv, StreamTypes
  <2>2. got[id] \o hand[id] \in Seq(V)
    BY <2>1, ConcatProperties, Zenon
  <2> QED
    BY <2>1, <2>2
<1>3. StreamTypes(V)'
  BY <1>1, <1>2, ZenonT(30) DEF StreamInv, StreamTypes
<1>4. \A x \in Ids : gor'[x] # "received" => hand'[x] = <<>>
  BY <1>1, ZenonT(30) DEF StreamInv, StreamTypes, ControlInv, TypeInv
<1>5. \A x \in Ids \ {id} : got'[x] = got[x] /\ hand'[x] = hand[x] /\ Waiting(x)' = Waiting(x)
  BY <1>1 DEF Waiting, StreamInv, StreamTypes
<1>6. ASSUME NEW s \in Seq(V)
      PROVE  got'[id] \o Waiting(id)' \o hand'[id] \o s = got[id] \o Waiting(id) \o hand[id] \o s
  <2>1. Waiting(id) = <<>> /\ Waiting(id)' = <<>> /\ hand'[id] = <<>> /\ got'[id] = got[id] \o hand[id]
    BY <1>1 DEF Waiting, StreamInv, StreamTypes
  <2>2. (got[id] \o hand[id]) \o <<>> \o <<>> \o s = got[id] \o <<>> \o hand[id] \o s
    BY <1>2, <1>6, ConcatMoves, SMTT(30)
  <2> QED
    BY <2>1, <2>2, Zenon
<1> QED
  BY <1>1, <1>3, <1>4, <1>5, <1>6, StreamMove

LEMMA StreamStep ==
  ASSUME NEW V, ControlInv, StreamInv(V), PayloadsIn(V), [Next]_vars
  PROVE  StreamInv(V)'
<1>0. FeedInv' /\ FeedInv
  BY FeedStep, ZenonT(30) DEF StreamInv
<1>1. ASSUME UNCHANGED <<due, got, hand, queue, target, left, event>>,
             UNCHANGED blocks \/ \E logs \in BlockLogs : blocks' = Append(blocks, logs),
             \A id \in Ids : unsub'[id] = "none" => unsub[id] = "none",
             \A id \in Ids : gor'[id] # "received" => gor[id] # "received"
      PROVE  StreamInv(V)'
  BY <1>0, <1>1, StreamFrame, ZenonT(30)
<1>2. ASSUME NEW logs \in BlockLogs, Publish(logs) PROVE StreamInv(V)'
  BY <1>1, <1>2, ZenonT(30) DEF Publish, loopVars, apiVars
<1>3. CASE PublisherStep \/ UNCHANGED vars
  BY <1>1, <1>3, Zenon DEF PublisherStep, SendChainEvent, SendLogs, vars, feedVars, loopVars, apiVars
<1>4. CASE handleLogs
  <2>1. Head(logsCh) \in DOMAIN blocks
    BY <1>0, <1>4, SMTT(30) DEF handleLogs, FeedInv
  <2> QED
    BY <1>0, <1>4, <2>1, StreamHandOut, ZenonT(30) DEF handleLogs, feedVars, apiVars
<1>5. CASE handleChainEvent
  <2>1. Head(chainCh) \in DOMAIN blocks
    BY <1>0, <1>5, SMTT(30) DEF handleChainEvent, FeedInv
  <2> QED
    BY <1>0, <1>5, <2>1, StreamHandOut, ZenonT(30) DEF handleChainEvent, feedVars, apiVars
<1>6. CASE Deliver \/ Consume
  BY <1>0, <1>6, StreamDeliver, StreamConsume, ZenonT(30)
<1>7. ASSUME NEW id \in Ids, Install(id) PROVE StreamInv(V)'
  <2>1. \A x \in Ids : gor'[x] # "received" => gor[x] # "received"
    BY <1>7, ZenonT(30) DEF Install, subscribe, ControlInv, TypeInv
  <2> QED
    BY <1>1, <1>7, <2>1, ZenonT(30) DEF Install, feedVars, apiVars
<1>8. ASSUME NEW id \in Ids, Uninstall(id) PROVE StreamInv(V)'
  BY <1>1, <1>8, ZenonT(30) DEF Uninstall, feedVars, apiVars, ControlInv, TypeInv
<1>9. ASSUME NEW id \in Polled, Register(id) \/ ExitFilter(id) PROVE StreamInv(V)'
  <2>1. \A x \in Ids : gor'[x] # "received" => gor[x] # "received"
    BY <1>9 DEF Register, ExitFilter, ControlInv, TypeInv
  <2> QED
    BY <1>1, <1>9, <2>1, ZenonT(30) DEF Register, ExitFilter, feedVars, loopVars
<1>10. ASSUME NEW id \in Polled, AppendReceived(id) \/ GetFilterChanges(id) PROVE StreamInv(V)'
  BY <1>0, <1>10, StreamAppend, StreamPoll, ZenonT(30)
<1>11. ASSUME NEW id \in Polled, UninstallFilter(id) \/ Expire(id) PROVE StreamInv(V)'
  <2>1. \A x \in Ids : unsub'[x] = "none" => unsub[x] = "none"
    BY <1>11, ZenonT(30) DEF UninstallFilter, Expire, ControlInv, TypeInv
  <2> QED
    BY <1>1, <1>11, <2>1, ZenonT(30) DEF UninstallFilter, Expire, feedVars, loopVars
<1>12. ASSUME NEW id \in Pushed, Notify(id) PROVE StreamInv(V)'
  BY <1>0, <1>12, StreamNotify, ZenonT(30)
<1>13. ASSUME NEW id \in Pushed, Leave(id) \/ ExitSubscription(id) PROVE StreamInv(V)'
  <2>1. /\ \A x \in Ids : unsub'[x] = "none" => unsub[x] = "none"
        /\ \A x \in Ids : gor'[x] # "received" => gor[x] # "received"
    BY <1>13, ZenonT(30) DEF Leave, ExitSubscription, ControlInv, TypeInv
  <2> QED
    BY <1>1, <1>13, <2>1, ZenonT(30) DEF Leave, ExitSubscription, feedVars, loopVars, apiVars
<1>14. ASSUME NEW id \in unswept, SweepExpired(id) PROVE StreamInv(V)'
  <2>1. \A x \in Ids : unsub'[x] = "none" => unsub[x] = "none"
    BY <1>14, ZenonT(30) DEF SweepExpired, ControlInv, TypeInv
  <2> QED
    BY <1>1, <1>14, <2>1, ZenonT(30) DEF SweepExpired, feedVars, loopVars
<1>15. ASSUME NEW id \in unswept, SweepKeep(id) PROVE StreamInv(V)'
  BY <1>1, <1>15 DEF SweepKeep, feedVars, loopVars, apiVars
<1>16. CASE SweepBegin \/ SweepDelete \/ SweepEnd
  BY <1>1, <1>16, ZenonT(30) DEF SweepBegin, SweepDelete, SweepEnd, feedVars, loopVars, apiVars
<1> QED
  BY ZenonT(30), <1>2, <1>3, <1>4, <1>5, <1>6, <1>7, <1>8, <1>9, <1>10, <1>11, <1>12, <1>13, <1>14, <1>15, <1>16
     DEF Next, LoopStep, FilterStep, SubscriptionStep, SweepStep, ClientStep

LogValues ==
  UNION {{[blockNumber |-> n, address |-> logs[k].address, topics |-> logs[k].topics] :
             n \in Nat, k \in DOMAIN logs} : logs \in BlockLogs}

Values == Nat \cup LogValues

LEMMA LogsType ==
  ASSUME FeedInv, NEW n \in DOMAIN blocks
  PROVE  LogsOf(n) \in Seq(LogValues) /\ Len(LogsOf(n)) = Len(blocks[n])
<1>1. n \in Nat /\ blocks[n] \in BlockLogs
  BY DEF FeedInv
<1>2. blocks[n] \in Seq(Range(blocks[n]))
  BY <1>1, FilterAssumption, ZenonT(30)
<1>3. DOMAIN blocks[n] = 1..Len(blocks[n]) /\ Len(blocks[n]) \in Nat
  BY <1>2, SMTT(30)
<1>4. \A k \in DOMAIN blocks[n] :
        [blockNumber |-> n, address |-> blocks[n][k].address, topics |-> blocks[n][k].topics] \in LogValues
  BY <1>1, SMTT(30) DEF LogValues
<1>5. LogsOf(n) \in [1..Len(blocks[n]) -> LogValues]
  BY <1>3, <1>4, Zenon DEF LogsOf
<1> QED
  BY <1>3, <1>5

\* What filterLogs returns is a list of logs.
LEMMA PayloadType ==
  ASSUME FeedInv
  PROVE  PayloadsIn(Values)
<1> SUFFICES ASSUME NEW id \in Ids, NEW n \in DOMAIN blocks PROVE Payload(id, n) \in Seq(Values)
  BY ZenonT(30) DEF PayloadsIn
<1>1. CASE Typ[id] = "blocks"
  BY <1>1 DEF Payload, FeedInv, Values
<1>2. CASE Typ[id] = "logs"
  <2>1. LogsOf(n) \in Seq(LogValues)
    BY LogsType, ZenonT(30)
  <2>2. Payload(id, n) \in Seq(LogValues)
    BY <1>2, <2>1, SelectedEnumerates, ZenonT(30) DEF Payload, filterLogs
  <2> QED
    BY <2>2, SeqMonotonic, ZenonT(30) DEF Values
<1> QED
  BY <1>1, <1>2, FilterAssumption, ZenonT(30)

LEMMA StreamInit == Init => StreamInv(Values)
<1> SUFFICES ASSUME Init PROVE StreamInv(Values)
  OBVIOUS
<1>1. <<>> \in Seq(Values) /\ <<>> \o <<>> = <<>> /\ <<>> \in Seq(BlockLogs) /\ <<>> \in Seq(DOMAIN blocks)
  OBVIOUS
<1>2. FeedInv /\ StreamTypes(Values)
  BY <1>1 DEF Init, FeedInv, StreamTypes
<1>3. ASSUME NEW id \in Ids PROVE WholeStream(id)
  <2>1. Undelivered(id) = <<>> /\ Waiting(id) = <<>> /\ got[id] = <<>> /\ hand[id] = <<>> /\ due[id] = <<>>
    BY IdsFacts DEF Init, Undelivered, Waiting
  <2> QED
    BY <1>1, <2>1, Zenon DEF WholeStream
<1> QED
  BY <1>2, <1>3 DEF StreamInv, Init

\* Every log or header that eventLoop takes for a filter or a subscription
\* reaches its client once and in order, for any number of filters,
\* subscriptions and blocks and any interleaving of their goroutines with
\* polls, sweeps and clients that leave.
THEOREM StreamsAreComplete == Spec => []StreamComplete
<1> DEFINE V == Values
           Inv == ControlInv /\ StreamInv(V)
<1>1. Init => Inv
  BY ControlInit, StreamInit, ZenonT(30)
<1>2. Inv /\ [Next]_vars => Inv'
  BY ControlStep, PayloadType, StreamStep, ZenonT(30) DEF StreamInv
<1>3. Inv => StreamComplete
  <2> SUFFICES ASSUME Inv PROVE StreamComplete
    BY ZenonT(30)
  <2>1. ASSUME NEW id \in filters, unsub[id] = "none"
        PROVE  got[id] \o queue[id] \o hand[id] \o Undelivered(id) = due[id]
    BY <2>1, IdsFacts DEF ControlInv, TypeInv, StreamInv, WholeStream, Waiting
  <2>2. ASSUME NEW id \in Pushed, gor[id] \in {"select", "received"}
        PROVE  got[id] \o hand[id] \o Undelivered(id) = due[id]
    <3>1. id \in Ids /\ unsub[id] = "none" /\ Waiting(id) = <<>>
      BY <2>2, IdsFacts, ZenonT(30) DEF ControlInv, LifeInv, Waiting
    <3>2. got[id] \o <<>> \o hand[id] \o Undelivered(id) = due[id]
      BY <3>1, Zenon DEF StreamInv, WholeStream
    <3>3. got[id] \o <<>> = got[id]
      BY <3>1, ConcatEmptySeq, ZenonT(30) DEF StreamInv, StreamTypes
    <3> QED
      BY <3>2, <3>3, Zenon
  <2> QED
    BY <2>1, <2>2, Zenon DEF StreamComplete
<1> HIDE DEF Inv
<1> QED
  BY <1>1, <1>2, <1>3, PTL DEF Spec

-----------------------------------------------------------------------------
(* The feeds.  pay is what each block has for one subscription, ch the       *)
(* block numbers in a channel.                                               *)

LEMMA EntryType ==
  ASSUME NEW V, NEW s \in Seq(V), NEW n \in DOMAIN s
  PROVE  s[n] \in V
OBVIOUS

CarriedBy(pay, ch) == FlattenSeq([i \in DOMAIN ch |-> pay[ch[i]]])

LEMMA CarriedType ==
  ASSUME NEW V, NEW pay \in Seq(Seq(V)), NEW ch \in Seq(DOMAIN pay)
  PROVE  CarriedBy(pay, ch) \in Seq(V)
<1>1. Len(ch) \in Nat /\ DOMAIN ch = 1..Len(ch) /\ \A i \in 1..Len(ch) : ch[i] \in DOMAIN pay
  OBVIOUS
<1>2. \A n \in DOMAIN pay : pay[n] \in Seq(V)
  BY SMTT(30)
<1>3. [i \in DOMAIN ch |-> pay[ch[i]]] \in Seq(Seq(V))
  BY <1>1, <1>2, SMTT(30)
<1> QED
  BY <1>3, FlattenType, ZenonT(30) DEF CarriedBy

LEMMA CarriedExtend ==
  ASSUME NEW V, NEW pay \in Seq(Seq(V)), NEW p \in Seq(V), NEW ch \in Seq(DOMAIN pay)
  PROVE  CarriedBy(Append(pay, p), ch) = CarriedBy(pay, ch)
<1>1. \A i \in DOMAIN ch : Append(pay, p)[ch[i]] = pay[ch[i]]
  BY SMTT(30)
<1>2. [i \in DOMAIN ch |-> Append(pay, p)[ch[i]]] = [i \in DOMAIN ch |-> pay[ch[i]]]
  BY <1>1, Zenon
<1> QED
  BY <1>2, Zenon DEF CarriedBy

LEMMA CarriedAppend ==
  ASSUME NEW V, NEW pay \in Seq(Seq(V)), NEW ch \in Seq(DOMAIN pay), NEW n \in DOMAIN pay
  PROVE  CarriedBy(pay, Append(ch, n)) = CarriedBy(pay, ch) \o pay[n]
<1> DEFINE old == [i \in DOMAIN ch |-> pay[ch[i]]]
           new == [i \in DOMAIN Append(ch, n) |-> pay[Append(ch, n)[i]]]
<1>0. /\ Len(ch) \in Nat /\ DOMAIN ch = 1..Len(ch) /\ \A i \in 1..Len(ch) : ch[i] \in DOMAIN pay
      /\ \A m \in DOMAIN pay : pay[m] \in Seq(V)
  OBVIOUS
<1>1. old \in Seq(Seq(V)) /\ pay[n] \in Seq(V)
  BY <1>0, SMTT(30)
<1>2. new = Append(old, pay[n])
  BY SMTT(30)
<1>3. FlattenSeq(new) = FlattenSeq(old) \o pay[n]
  BY <1>1, <1>2, FlattenAppend
<1> QED
  BY <1>3 DEF CarriedBy

HeadIsCarried(pay, ch) ==
  /\ Head(ch) \in DOMAIN pay /\ Tail(ch) \in Seq(DOMAIN pay)
  /\ CarriedBy(pay, ch) = pay[Head(ch)] \o CarriedBy(pay, Tail(ch))

LEMMA CarriedHead ==
  ASSUME NEW V, NEW pay \in Seq(Seq(V)), NEW ch \in Seq(DOMAIN pay), ch # <<>>
  PROVE  HeadIsCarried(pay, ch)
<1> DEFINE all == [i \in DOMAIN ch |-> pay[ch[i]]]
           rest == [i \in DOMAIN Tail(ch) |-> pay[Tail(ch)[i]]]
           first == <<pay[Head(ch)]>>
<1>0. Head(ch) \in DOMAIN pay /\ Tail(ch) \in Seq(DOMAIN pay)
  OBVIOUS
<1>1. rest \in Seq(Seq(V)) /\ first \in Seq(Seq(V)) /\ pay[Head(ch)] \in Seq(V)
  BY <1>0, SMTT(30)
<1>2. all = first \o rest
  <2>1. Len(ch) \in Nat \ {0} /\ Len(Tail(ch)) = Len(ch) - 1
    OBVIOUS
  <2>2. \A i \in 1..Len(Tail(ch)) : Tail(ch)[i] = ch[i + 1] /\ i + 1 \in 1..Len(ch)
    OBVIOUS
  <2>3. all = [i \in 1..Len(ch) |-> all[i]] /\ \A i \in 1..Len(ch) : all[i] \in Seq(V)
    BY SMTT(30)
  <2>4. rest = [i \in 1..Len(Tail(ch)) |-> rest[i]] /\ \A i \in 1..Len(Tail(ch)) : rest[i] \in Seq(V)
    BY <1>0, SMTT(30)
  <2>5. all[1] = pay[Head(ch)] /\ \A i \in 1..Len(Tail(ch)) : all[i + 1] = rest[i]
    BY <2>1, <2>2, SMTT(30)
  <2>6. Len(Tail(ch)) \in Nat
    BY <2>1
  <2> HIDE DEF all, rest
  <2>7. all \in Seq(Seq(V)) /\ Len(all) = Len(ch)
    BY <2>1, <2>3, IntervalIsSequence, ZenonT(30)
  <2>8. Len(rest) = Len(Tail(ch))
    BY <2>4, <2>6, IntervalIsSequence, ZenonT(30)
  <2> QED
    BY <1>1, <2>1, <2>5, <2>7, <2>8, FirstAndRest, SMTT(30) DEF first
<1>3. first = Append(<<>>, pay[Head(ch)]) /\ <<>> \in Seq(Seq(V))
  OBVIOUS
<1> HIDE DEF all, rest, first
<1>4. FlattenSeq(<<>>) = <<>>
  BY DEF FlattenSeq
<1>5. FlattenSeq(first) = <<>> \o pay[Head(ch)]
  BY <1>1, <1>3, <1>4, FlattenAppend
<1>6. FlattenSeq(first) = pay[Head(ch)]
  BY <1>1, <1>5
<1>7. FlattenSeq(all) = FlattenSeq(first) \o FlattenSeq(rest)
  BY <1>1, <1>2, FlattenConcat, ZenonT(30)
<1> QED
  BY <1>0, <1>6, <1>7 DEF HeadIsCarried, CarriedBy, all, rest

-----------------------------------------------------------------------------
\* What was handled, what is in the channel and what is about to be sent are
\* the end of the stream.
Exact(V, stream, handled, carried, sending) ==
  \E u \in Seq(V) : stream = u \o (handled \o (carried \o sending))

LEMMA ExactPublish ==
  ASSUME NEW V, NEW stream \in Seq(V), NEW d \in Seq(V), NEW c \in Seq(V), NEW p \in Seq(V),
         Exact(V, stream, d, c, <<>>)
  PROVE  Exact(V, stream \o p, d, c, p)
<1>1. PICK u \in Seq(V) : stream = u \o (d \o (c \o <<>>))
  BY Zenon DEF Exact
<1>2. c \o <<>> = c
  BY ConcatEmptySeq
<1>3. Regrouped(u, d, c, p)
  BY Regroup
<1> QED
  BY <1>1, <1>2, <1>3, Zenon DEF Exact, Regrouped

LEMMA ExactSend ==
  ASSUME NEW V, NEW stream \in Seq(V), NEW d \in Seq(V), NEW c \in Seq(V), NEW p \in Seq(V),
         Exact(V, stream, d, c, p)
  PROVE  Exact(V, stream, d, c \o p, <<>>)
<1>1. (c \o p) \o <<>> = c \o p
  BY Reassociate, ConcatEmptySeq
<1> QED
  BY <1>1, Zenon DEF Exact

LEMMA ExactTake ==
  ASSUME NEW V, NEW stream \in Seq(V), NEW d \in Seq(V), NEW c \in Seq(V), NEW p \in Seq(V), NEW s \in Seq(V),
         Exact(V, stream, d, p \o c, s)
  PROVE  Exact(V, stream, d \o p, c, s)
<1>1. Reassociated(p, c, s)
  BY Reassociate, ZenonT(30)
<1>2. Regrouped(d, p, c, s)
  BY Regroup
<1> QED
  BY <1>1, <1>2, Zenon DEF Exact, Reassociated, Regrouped

LEMMA ExactForget ==
  ASSUME NEW V, NEW stream \in Seq(V), NEW d \in Seq(V), NEW c \in Seq(V), NEW s \in Seq(V),
         Exact(V, stream, d, c, s)
  PROVE  Exact(V, stream, <<>>, c, s)
<1>1. PICK u \in Seq(V) : stream = u \o (d \o (c \o s))
  BY Zenon DEF Exact
<1>2. c \o s \in Seq(V) /\ u \o d \in Seq(V)
  BY Reassociate
<1>3. Regrouped(u, d, c, s)
  BY Regroup
<1>4. <<>> \o (c \o s) = c \o s
  BY <1>2, ConcatEmptySeq
<1> QED
  BY <1>1, <1>2, <1>3, <1>4, Zenon DEF Exact, Regrouped

-----------------------------------------------------------------------------
Payloads(id) == [n \in DOMAIN blocks |-> Payload(id, n)]

Channel(id) == IF Typ[id] = "logs" THEN logsCh ELSE chainCh

Sending(id) ==
  IF publishing = "chain" \/ (publishing = "logs" /\ Typ[id] = "logs") THEN Payload(id, Len(blocks)) ELSE <<>>

Handled(id) == IF id \in index THEN due[id] ELSE <<>>

\* The feeds are exact for every id, installed or not: for the ones that are
\* not, what is on its way is the end of the stream.
ExactFor(id) == Exact(Values, Stream(id), Handled(id), CarriedBy(Payloads(id), Channel(id)), Sending(id))

ExactInv == \A id \in Ids : ExactFor(id) /\ (gor[id] = "none" => due[id] = <<>>)

LEMMA PieceTypes ==
  ASSUME FeedInv, due \in [Ids -> Seq(Values)], NEW id \in Ids
  PROVE  /\ Payloads(id) \in Seq(Seq(Values)) /\ DOMAIN Payloads(id) = DOMAIN blocks
         /\ Stream(id) = FlattenSeq(Payloads(id)) /\ Stream(id) \in Seq(Values)
         /\ Channel(id) \in Seq(DOMAIN Payloads(id))
         /\ CarriedBy(Payloads(id), Channel(id)) \in Seq(Values)
         /\ Sending(id) \in Seq(Values) /\ Handled(id) \in Seq(Values)
<1>1. \A n \in DOMAIN blocks : Payload(id, n) \in Seq(Values)
  BY PayloadType DEF PayloadsIn
<1>2. DOMAIN blocks = 1..Len(blocks) /\ Len(blocks) \in Nat
  BY DEF FeedInv
<1>3. Payloads(id) \in Seq(Seq(Values)) /\ DOMAIN Payloads(id) = DOMAIN blocks
  BY <1>1, <1>2, SMTT(30) DEF Payloads
<1>4. Stream(id) = FlattenSeq(Payloads(id))
  BY DEF Stream, Payloads
<1>5. Stream(id) \in Seq(Values)
  BY <1>3, <1>4, FlattenType, ZenonT(30)
<1>6. Channel(id) \in Seq(DOMAIN Payloads(id))
  BY <1>3, ZenonT(30) DEF Channel, FeedInv
<1>7. CarriedBy(Payloads(id), Channel(id)) \in Seq(Values)
  BY <1>3, <1>6, CarriedType, ZenonT(30)
<1>8. <<>> \in Seq(Values)
  OBVIOUS
<1>9. Sending(id) \in Seq(Values)
  BY <1>1, <1>8, ZenonT(30) DEF Sending, FeedInv
<1>10. Handled(id) \in Seq(Values)
  BY <1>8, ZenonT(30) DEF Handled
<1> QED
  BY <1>3, <1>4, <1>5, <1>6, <1>7, <1>9, <1>10, Zenon

\* A block without logs has nothing for anyone.
LEMMA EmptyPayload ==
  ASSUME FeedInv, NEW id \in Ids, Typ[id] = "logs", NEW n \in DOMAIN blocks, blocks[n] = <<>>
  PROVE  Payload(id, n) = <<>>
<1>1. Len(LogsOf(n)) = 0 /\ 0 \in Nat
  BY LogsType, ZenonT(30)
<1> DEFINE keep == {k \in DOMAIN LogsOf(n) : Selects(CritOf[id], LogsOf(n)[k])}
<1>2. Payload(id, n) = Selected(LogsOf(n), keep)
  BY DEF Payload, filterLogs
<1> HIDE DEF keep
<1>3. PICK f : Selected(LogsOf(n), keep) = f[0] /\ SelectionLoop(f, LogsOf(n), keep, 0)
  BY <1>1, SelectedDef, Zenon
<1> QED
  BY <1>2, <1>3, ZenonT(30) DEF SelectionLoop

LEMMA ExactFrame ==
  ASSUME FeedInv, due \in [Ids -> Seq(Values)], NEW id \in Ids, ExactFor(id),
         UNCHANGED <<blocks, publishing, chainCh, logsCh>>, Handled(id)' \in {Handled(id), <<>>}
  PROVE  ExactFor(id)'
<1>1. /\ Stream(id)' = Stream(id) /\ Payloads(id)' = Payloads(id)
      /\ Channel(id)' = Channel(id) /\ Sending(id)' = Sending(id)
  BY Zenon DEF Stream, Payloads, Channel, Sending, Payload, LogsOf
<1> DEFINE Rest(h) == Exact(Values, Stream(id), h, CarriedBy(Payloads(id), Channel(id)), Sending(id))
<1>2. Rest(Handled(id))
  BY ZenonT(30) DEF ExactFor
<1>3. Rest(<<>>)
  <2>1. /\ Stream(id) \in Seq(Values) /\ Handled(id) \in Seq(Values)
        /\ CarriedBy(Payloads(id), Channel(id)) \in Seq(Values) /\ Sending(id) \in Seq(Values)
    BY PieceTypes, Zenon
  <2> QED
    BY <1>2, <2>1, ExactForget, ZenonT(30)
<1>4. Rest(Handled(id)')
  BY <1>2, <1>3, ZenonT(30)
<1> QED
  BY <1>1, <1>4, Zenon DEF ExactFor

LEMMA ExactPublished ==
  ASSUME FeedInv, FeedInv', due \in [Ids -> Seq(Values)], NEW id \in Ids, ExactFor(id),
         NEW logs \in BlockLogs, Publish(logs)
  PROVE  ExactFor(id)'
<1>0. PICK n : n = Len(blocks')
  OBVIOUS
<1> DEFINE p == Payload(id, n)'
<1>1. /\ publishing = "none" /\ publishing' = "chain" /\ blocks' = Append(blocks, logs)
      /\ UNCHANGED <<chainCh, logsCh, index, due>>
  BY DEF Publish, chanVars, loopVars
<1>2. n = Len(blocks) + 1 /\ Len(blocks) \in Nat /\ DOMAIN blocks = 1..Len(blocks) /\ DOMAIN blocks' = 1..n
  BY <1>0, <1>1 DEF FeedInv
<1>3. \A m \in DOMAIN blocks : Payload(id, m)' = Payload(id, m)
  BY <1>1, PayloadSame, ZenonT(30)
<1>4. PayloadsIn(Values)'
  BY PayloadType, PTL
<1>5. p \in Seq(Values)
  <2>1. n \in DOMAIN blocks'
    BY <1>2
  <2>2. \A x \in Ids, m \in DOMAIN blocks' : Payload(x, m)' \in Seq(Values)
    BY <1>4, Zenon DEF PayloadsIn
  <2> QED
    BY <2>1, <2>2, Zenon
<1>6. Sending(id) = <<>> /\ Sending(id)' = p /\ Handled(id)' = Handled(id) /\ Channel(id)' = Channel(id)
  <2>1. Payload(id, Len(blocks))' = p
    BY <1>0, Zenon DEF Payload, LogsOf
  <2>2. Sending(id)' = Payload(id, Len(blocks))'
    BY <1>1 DEF Sending
  <2> QED
    BY <1>1, <2>1, <2>2, Zenon DEF Sending, Handled, Channel
<1>7. Payloads(id)' = [m \in DOMAIN blocks' |-> Payload(id, m)']
  BY DEF Payloads
<1>8. Payloads(id) = [m \in DOMAIN blocks |-> Payload(id, m)]
  BY ZenonT(30) DEF Payloads
<1> HIDE DEF p
<1>9. Payload(id, n)' = p
  BY ZenonT(30) DEF p
<1>10. Payloads(id)' = Append(Payloads(id), p)
  BY <1>2, <1>3, <1>7, <1>8, <1>9, SMTT(30)
<1>11. Stream(id)' = FlattenSeq(Payloads(id)')
  BY ZenonT(30) DEF Stream, Payloads
<1>12. Stream(id)' = Stream(id) \o p
  BY <1>5, <1>10, <1>11, PieceTypes, FlattenAppend
<1>13. CarriedBy(Payloads(id), Channel(id))' = CarriedBy(Payloads(id), Channel(id))
  <2>1. CarriedBy(Append(Payloads(id), p), Channel(id)) = CarriedBy(Payloads(id), Channel(id))
    BY <1>5, PieceTypes, CarriedExtend, ZenonT(30)
  <2> QED
    BY <1>6, <1>10, <2>1, Zenon
<1> DEFINE c == CarriedBy(Payloads(id), Channel(id))
<1>14. Exact(Values, Stream(id), Handled(id), c, <<>>)
  BY <1>6, ZenonT(30) DEF ExactFor
<1>15. Exact(Values, Stream(id) \o p, Handled(id), c, p)
  BY <1>5, <1>14, PieceTypes, ExactPublish
<1> QED
  BY <1>6, <1>12, <1>13, <1>15, Zenon DEF ExactFor

\* Len(blocks) goes onto the channel of id.
LEMMA ExactSent ==
  ASSUME FeedInv, due \in [Ids -> Seq(Values)], NEW id \in Ids, ExactFor(id), publishing # "none",
         UNCHANGED <<blocks, index, due>>, Channel(id)' = Append(Channel(id), Len(blocks)),
         Sending(id) = Payload(id, Len(blocks)), Sending(id)' = <<>>
  PROVE  ExactFor(id)'
<1> DEFINE n == Len(blocks)
           c == CarriedBy(Payloads(id), Channel(id))
<1>1. Stream(id)' = Stream(id) /\ Payloads(id)' = Payloads(id) /\ Handled(id)' = Handled(id)
  BY Zenon DEF Stream, Payloads, Handled, Payload, LogsOf
<1>2. n \in DOMAIN Payloads(id) /\ Payloads(id)[n] = Payload(id, n)
  BY ZenonT(30) DEF FeedInv, Payloads
<1>3. CarriedBy(Payloads(id), Channel(id)') = c \o Sending(id)
  BY <1>2, PieceTypes, CarriedAppend, ZenonT(30)
<1>4. Exact(Values, Stream(id), Handled(id), c \o Sending(id), <<>>)
  BY PieceTypes, ExactSend DEF ExactFor
<1> QED
  BY <1>1, <1>3, <1>4, Zenon DEF ExactFor

\* eventLoop takes the first block of the channel of id.
LEMMA ExactTaken ==
  ASSUME FeedInv, due \in [Ids -> Seq(Values)], NEW id \in Ids, ExactFor(id),
         UNCHANGED <<blocks, publishing, index>>, Channel(id) # <<>>, Channel(id)' = Tail(Channel(id)),
         id \in index => due'[id] = due[id] \o Payload(id, Head(Channel(id)))
  PROVE  ExactFor(id)'
<1> DEFINE n == Head(Channel(id))
           p == Payload(id, n)
           c == CarriedBy(Payloads(id), Tail(Channel(id)))
<1>1. Stream(id)' = Stream(id) /\ Payloads(id)' = Payloads(id) /\ Sending(id)' = Sending(id)
  BY ZenonT(30) DEF Stream, Payloads, Sending, Payload, LogsOf
<1>2. /\ n \in DOMAIN Payloads(id) /\ Tail(Channel(id)) \in Seq(DOMAIN Payloads(id))
      /\ CarriedBy(Payloads(id), Channel(id)) = Payloads(id)[n] \o c
  <2>1. HeadIsCarried(Payloads(id), Channel(id))
    BY PieceTypes, CarriedHead, Zenon
  <2> QED
    BY <2>1, Zenon DEF HeadIsCarried
<1>3. Payloads(id)[n] = p /\ p \in Seq(Values) /\ c \in Seq(Values)
  <2>1. Payloads(id)[n] = p
    BY <1>2, ZenonT(30) DEF Payloads
  <2>2. p \in Seq(Values)
    BY <1>2, <2>1, PieceTypes, EntryType, ZenonT(30)
  <2>3. c \in Seq(Values)
    BY <1>2, PieceTypes, CarriedType, ZenonT(30)
  <2> QED
    BY <2>1, <2>2, <2>3, ZenonT(30)
<1>4. Exact(Values, Stream(id), Handled(id), p \o c, Sending(id))
  BY <1>2, <1>3, ZenonT(30) DEF ExactFor
<1>5. Exact(Values, Stream(id), Handled(id) \o p, c, Sending(id))
  <2>1. Stream(id) \in Seq(Values) /\ Handled(id) \in Seq(Values) /\ Sending(id) \in Seq(Values)
    BY PieceTypes, Zenon
  <2> HIDE DEF p, c
  <2> QED
    BY <1>3, <1>4, <2>1, ExactTake, ZenonT(30)
<1>6. Handled(id) \o p \in Seq(Values)
  <2>1. Handled(id) \in Seq(Values) /\ p \in Seq(Values)
    BY <1>3, PieceTypes, Zenon
  <2> HIDE DEF p
  <2> QED
    BY <2>1, ConcatRight, ZenonT(30)
<1>7. Exact(Values, Stream(id), <<>>, c, Sending(id))
  <2> HIDE DEF p, c
  <2> QED
    BY <1>3, <1>5, <1>6, PieceTypes, ExactForget, ZenonT(30)
<1>8. Handled(id)' = (IF id \in index THEN Handled(id) \o p ELSE <<>>)
  BY DEF Handled
<1>9. Exact(Values, Stream(id), Handled(id)', c, Sending(id))
  BY <1>5, <1>7, <1>8
<1> QED
  BY <1>1, <1>9, Zenon DEF ExactFor

\* Nobody starts afresh.
LEMMA StartedStays ==
  ASSUME ControlInv, [Next]_vars, NEW x \in Ids, gor[x] # "none"
  PROVE  gor'[x] # "none"
<1> USE DEF ControlInv, TypeInv
<1>1. CASE UNCHANGED gor
  BY <1>1, ZenonT(30)
<1>2. ASSUME NEW id, NEW g, g # "none", gor' = [gor EXCEPT ![id] = g] PROVE gor'[x] # "none"
  BY <1>2, ZenonT(30)
<1>3. ASSUME NEW id \in Ids, Install(id) PROVE gor'[x] # "none"
  BY <1>2, <1>3, ZenonT(30) DEF Install, subscribe
<1>4. CASE Deliver
  BY <1>2, <1>4, ZenonT(30) DEF Deliver
<1>5. ASSUME NEW id \in Polled, FilterStep(id) PROVE gor'[x] # "none"
  <2>1. gor' = [gor EXCEPT ![id] = "select"] \/ gor' = [gor EXCEPT ![id] = "exited"]
    BY <1>5, Zenon DEF FilterStep, Register, AppendReceived, ExitFilter
  <2> QED
    BY <1>2, <2>1, ZenonT(30)
<1>6. ASSUME NEW id \in Pushed, SubscriptionStep(id) \/ Leave(id) PROVE gor'[x] # "none"
  <2>1. \/ gor' = [gor EXCEPT ![id] = "select"]
        \/ gor' = [gor EXCEPT ![id] = "exited"]
        \/ gor' = [gor EXCEPT ![id] = "leaving"]
    BY <1>6, Zenon DEF SubscriptionStep, Notify, ExitSubscription, Leave
  <2> QED
    BY <1>2, <2>1, ZenonT(30)
<1>7. ASSUME NEW logs \in BlockLogs, Publish(logs) PROVE UNCHANGED gor
  BY <1>7 DEF Publish
<1>8. ASSUME NEW id, Uninstall(id) \/ UninstallFilter(id) \/ GetFilterChanges(id) \/ Expire(id) PROVE UNCHANGED gor
  BY <1>8, Zenon DEF Uninstall, UninstallFilter, GetFilterChanges, Expire
<1>9. CASE PublisherStep \/ handleLogs \/ handleChainEvent \/ Consume \/ SweepBegin \/ SweepStep \/ UNCHANGED vars
  <2>1. UNCHANGED gor
    BY <1>9, ZenonT(30) DEF PublisherStep, SendChainEvent, SendLogs, handleLogs, handleChainEvent, Consume,
       SweepBegin, SweepStep, SweepKeep, SweepExpired, SweepDelete, SweepEnd, vars
  <2> QED
    BY <1>1, <2>1, ZenonT(30)
<1> QED
  BY ZenonT(30), <1>1, <1>3, <1>4, <1>5, <1>6, <1>7, <1>8, <1>9 DEF Next, LoopStep, ClientStep

LEMMA ExactStep ==
  ASSUME ControlInv, FeedInv, FeedInv', due \in [Ids -> Seq(Values)], ExactInv, [Next]_vars
  PROVE  ExactInv'
<1> SUFFICES ASSUME NEW id \in Ids PROVE ExactFor(id)' /\ (gor'[id] = "none" => due'[id] = <<>>)
  BY ZenonT(30) DEF ExactInv
<1>0. ExactFor(id) /\ (gor[id] = "none" => due[id] = <<>>) /\ (gor'[id] = "none" => gor[id] = "none")
  BY StartedStays, ZenonT(30) DEF ExactInv
<1>1. ASSUME UNCHANGED <<blocks, publishing, chainCh, logsCh, due>>, Handled(id)' \in {Handled(id), <<>>}
      PROVE  ExactFor(id)' /\ (gor'[id] = "none" => due'[id] = <<>>)
  BY <1>0, <1>1, ExactFrame, ZenonT(30)
<1>2. ASSUME UNCHANGED <<blocks, publishing, chainCh, logsCh, due, index>>
      PROVE  ExactFor(id)' /\ (gor'[id] = "none" => due'[id] = <<>>)
  <2>1. Handled(id)' = Handled(id)
    BY <1>2, ZenonT(30) DEF Handled
  <2> QED
    BY <1>1, <1>2, <2>1, ZenonT(30)
<1>3. ASSUME NEW logs \in BlockLogs, Publish(logs)
      PROVE  ExactFor(id)' /\ (gor'[id] = "none" => due'[id] = <<>>)
  BY <1>0, <1>3, ExactPublished, ZenonT(30) DEF Publish
<1>4. CASE SendChainEvent
  <2>1. /\ publishing = "chain" /\ chainCh' = Append(chainCh, Len(blocks))
        /\ publishing' = IF blocks[Len(blocks)] = <<>> THEN "none" ELSE "logs"
        /\ UNCHANGED <<blocks, logsCh, index, due>>
    BY <1>4 DEF SendChainEvent, loopVars
  <2>2. Sending(id) = Payload(id, Len(blocks)) /\ Len(blocks) \in DOMAIN blocks
    BY <2>1, ZenonT(30) DEF Sending, FeedInv
  <2>3. CASE Typ[id] = "blocks"
    <3>1. Channel(id)' = Append(Channel(id), Len(blocks)) /\ Sending(id)' = <<>>
      BY <2>1, <2>3 DEF Channel, Sending
    <3> QED
      BY <1>0, <2>1, <2>2, <3>1, ExactSent
  <2>4. CASE Typ[id] = "logs"
    <3>1. /\ Channel(id)' = Channel(id) /\ Handled(id)' = Handled(id)
          /\ Stream(id)' = Stream(id) /\ Payloads(id)' = Payloads(id)
      BY <2>1, <2>4, ZenonT(30) DEF Channel, Handled, Stream, Payloads, Payload, LogsOf
    <3>2. blocks[Len(blocks)] = <<>> => Sending(id) = <<>> /\ Sending(id)' = <<>>
      BY <2>1, <2>2, <2>4, EmptyPayload, ZenonT(30) DEF Sending
    <3>3. Payload(id, Len(blocks))' = Payload(id, Len(blocks))
      BY <2>1, ZenonT(30) DEF Payload, LogsOf
    <3>4. blocks[Len(blocks)] # <<>> => Sending(id)' = Sending(id)
      BY <2>1, <2>2, <2>4, <3>3, ZenonT(30) DEF Sending
    <3>5. Sending(id)' = Sending(id)
      BY <3>2, <3>4, ZenonT(30)
    <3>6. ExactFor(id)'
      BY <1>0, <3>1, <3>5, Zenon DEF ExactFor
    <3> QED
      BY <1>0, <2>1, <3>6, ZenonT(30)
  <2> QED
    BY <2>3, <2>4, FilterAssumption, ZenonT(30)
<1>5. CASE SendLogs
  <2>1. /\ publishing = "logs" /\ logsCh' = Append(logsCh, Len(blocks)) /\ publishing' = "none"
        /\ UNCHANGED <<blocks, chainCh, index, due>>
    BY <1>5, ZenonT(30) DEF SendLogs, loopVars
  <2>2. CASE Typ[id] = "logs"
    <3>1. /\ Sending(id) = Payload(id, Len(blocks)) /\ Sending(id)' = <<>>
          /\ Channel(id)' = Append(Channel(id), Len(blocks))
      BY <2>1, <2>2, ZenonT(30) DEF Channel, Sending
    <3> QED
      BY <1>0, <2>1, <3>1, ExactSent, ZenonT(30)
  <2>3. CASE Typ[id] = "blocks"
    <3>1. /\ Channel(id)' = Channel(id) /\ Handled(id)' = Handled(id)
          /\ Stream(id)' = Stream(id) /\ Payloads(id)' = Payloads(id)
      BY <2>1, <2>3, ZenonT(30) DEF Channel, Handled, Stream, Payloads, Payload, LogsOf
    <3>2. Sending(id)' = <<>> /\ Sending(id) = <<>>
      BY <2>1, <2>3, ZenonT(30) DEF Sending
    <3>3. ExactFor(id)'
      BY <1>0, <3>1, <3>2, Zenon DEF ExactFor
    <3> QED
      BY <1>0, <2>1, <3>3, ZenonT(30)
  <2> QED
    BY <2>2, <2>3, FilterAssumption, ZenonT(30)
<1>6. ASSUME NEW typ, NEW ch, NEW ch1, ch # <<>>, ch1 = Tail(ch), HandOut(typ, Head(ch)),
             UNCHANGED <<blocks, publishing, index>>,
             Typ[id] = typ => Channel(id) = ch /\ Channel(id)' = ch1,
             Typ[id] # typ => Channel(id)' = Channel(id)
      PROVE  ExactFor(id)' /\ (gor'[id] = "none" => due'[id] = <<>>)
  <2> DEFINE R == Receivers(typ, Head(ch))
  <2>1. due'[id] = IF id \in R THEN due[id] \o Payload(id, Head(ch)) ELSE due[id]
    BY <1>6, Zenon DEF HandOut
  <2>2. id \in R => id \in index /\ Typ[id] = typ
    BY ZenonT(30) DEF Receivers
  <2>3. gor'[id] = "none" => due'[id] = <<>>
    BY <1>0, <2>1, <2>2, ZenonT(30) DEF ControlInv, LifeInv
  <2>4. CASE Typ[id] = typ
    <3>1. id \in index /\ id \notin R => Payload(id, Head(ch)) = <<>>
      BY <2>4 DEF Receivers
    <3>2. due[id] \in Seq(Values)
      OBVIOUS
    <3>3. due[id] \o <<>> = due[id]
      BY <3>2, ConcatEmptySeq
    <3> HIDE DEF R
    <3>4. id \in index => due'[id] = due[id] \o Payload(id, Head(ch))
      BY <2>1, <3>1, <3>3, Zenon
    <3>5. Channel(id) # <<>> /\ Channel(id)' = Tail(Channel(id)) /\ Head(Channel(id)) = Head(ch)
      BY <1>6, <2>4, ZenonT(30)
    <3>6. ExactFor(id)'
      BY <1>0, <1>6, <3>4, <3>5, ExactTaken
    <3> QED
      BY <2>3, <3>6
  <2>5. CASE Typ[id] # typ
    <3>1. due'[id] = due[id]
      BY <2>1, <2>2, <2>5
    <3>2. /\ Channel(id)' = Channel(id) /\ Handled(id)' = Handled(id) /\ Sending(id)' = Sending(id)
          /\ Stream(id)' = Stream(id) /\ Payloads(id)' = Payloads(id)
      BY <1>6, <2>5, <3>1, Zenon DEF Handled, Sending, Stream, Payloads, Payload, LogsOf
    <3>3. ExactFor(id)'
      BY <1>0, <3>2, Zenon DEF ExactFor
    <3> QED
      BY <2>3, <3>3
  <2> QED
    BY <2>4, <2>5
<1>7. CASE handleLogs
  <2>1. /\ logsCh # <<>> /\ logsCh' = Tail(logsCh) /\ HandOut("logs", Head(logsCh))
        /\ UNCHANGED <<blocks, publishing, index, chainCh>>
    BY <1>7 DEF handleLogs, feedVars
  <2>2. /\ Typ[id] = "logs" => Channel(id) = logsCh /\ Channel(id)' = Tail(logsCh)
        /\ Typ[id] # "logs" => Channel(id)' = Channel(id)
    BY <2>1 DEF Channel
  <2> QED
    BY <1>6, <2>1, <2>2
<1>8. CASE handleChainEvent
  <2>1. /\ chainCh # <<>> /\ chainCh' = Tail(chainCh) /\ HandOut("blocks", Head(chainCh))
        /\ UNCHANGED <<blocks, publishing, index, logsCh>>
    BY <1>8 DEF handleChainEvent, feedVars
  <2>2. /\ Typ[id] = "blocks" => Channel(id) = chainCh /\ Channel(id)' = Tail(chainCh)
        /\ Typ[id] # "blocks" => Channel(id)' = Channel(id)
    BY <2>1, FilterAssumption DEF Channel
  <2> QED
    BY <1>6, <2>1, <2>2
<1>9. ASSUME NEW x \in Ids, Install(x)
      PROVE  ExactFor(id)' /\ (gor'[id] = "none" => due'[id] = <<>>)
  <2>1. gor[x] = "none" /\ index' = index \cup {x} /\ UNCHANGED <<blocks, publishing, chainCh, logsCh, due>>
    BY <1>9 DEF Install, subscribe, feedVars, chanVars
  <2>2. Handled(id)' \in {Handled(id), <<>>}
    BY <1>0, <2>1, ZenonT(30) DEF Handled
  <2> QED
    BY <1>1, <2>1, <2>2, ZenonT(30)
<1>10. ASSUME NEW x \in Ids, Uninstall(x)
       PROVE  ExactFor(id)' /\ (gor'[id] = "none" => due'[id] = <<>>)
  <2>1. index' = index \ {x} /\ UNCHANGED <<blocks, publishing, chainCh, logsCh, due>>
    BY <1>10 DEF Uninstall, feedVars, chanVars
  <2>2. Handled(id)' \in {Handled(id), <<>>}
    BY <2>1 DEF Handled
  <2> QED
    BY <1>1, <2>1, <2>2, ZenonT(30)
<1>11. CASE Deliver \/ Consume \/ SweepBegin \/ SweepStep \/ UNCHANGED vars
  <2>1. UNCHANGED <<blocks, publishing, chainCh, logsCh, due, index>>
    BY <1>11, ZenonT(30) DEF Deliver, Consume, SweepBegin, SweepStep, SweepKeep, SweepExpired, SweepDelete, SweepEnd,
       vars, feedVars, chanVars, loopVars
  <2> QED
    BY <1>2, <2>1
<1>12. ASSUME NEW x, \/ FilterStep(x) \/ SubscriptionStep(x)
                    \/ UninstallFilter(x) \/ GetFilterChanges(x) \/ Expire(x) \/ Leave(x)
       PROVE  UNCHANGED <<blocks, publishing, chainCh, logsCh, due, index>>
  BY <1>12, ZenonT(30) DEF FilterStep, Register, AppendReceived, ExitFilter, SubscriptionStep, Notify, ExitSubscription,
     UninstallFilter, GetFilterChanges, Expire, Leave, feedVars, chanVars, loopVars
<1> HIDE DEF ExactFor
<1> QED
  BY ZenonT(30), <1>2, <1>3, <1>4, <1>5, <1>7, <1>8, <1>9, <1>10, <1>11, <1>12 DEF Next, PublisherStep, LoopStep, ClientStep

\* The feeds lose, repeat and reorder nothing, for any size of the channels,
\* any number of blocks and whatever their logs are: what eventLoop took for
\* an installed subscription and what publishNewBlock still has on its way to
\* it are together the newest part of all that matched.
THEOREM FeedsLoseNothing == Spec => []FeedsAreExact
<1> DEFINE Inv == ControlInv /\ StreamInv(Values) /\ ExactInv
<1>1. Init => ExactInv
  <2> SUFFICES ASSUME Init, NEW id \in Ids PROVE ExactFor(id) /\ due[id] = <<>>
    BY DEF ExactInv
  <2>1. due[id] = <<>> /\ Handled(id) = <<>> /\ Channel(id) = <<>> /\ Sending(id) = <<>>
    BY DEF Init, Handled, Channel, Sending
  <2>2. blocks = <<>> /\ <<>> \in Seq(Values) /\ <<>> \o <<>> = <<>>
    BY DEF Init
  <2>3. Stream(id) = <<>> /\ CarriedBy(Payloads(id), <<>>) = <<>>
    <3>1. [n \in DOMAIN blocks |-> Payload(id, n)] = <<>> /\ [i \in DOMAIN <<>> |-> Payloads(id)[<<>>[i]]] = <<>>
      BY <2>2, SMTT(30)
    <3>2. FlattenSeq(<<>>) = <<>>
      BY DEF FlattenSeq
    <3> QED
      BY <3>1, <3>2, Zenon DEF Stream, CarriedBy
  <2> QED
    BY <2>1, <2>2, <2>3, Zenon DEF ExactFor, Exact
<1>2. Inv /\ [Next]_vars => Inv'
  <2> SUFFICES ASSUME Inv, [Next]_vars PROVE Inv'
    OBVIOUS
  <2>1. ControlInv' /\ StreamInv(Values)'
    BY ControlStep, PayloadType, StreamStep, ZenonT(30) DEF StreamInv
  <2>2. FeedInv /\ FeedInv' /\ due \in [Ids -> Seq(Values)]
    BY <2>1 DEF StreamInv, StreamTypes
  <2>3. ExactInv'
    BY <2>2, ExactStep
  <2> QED
    BY <2>1, <2>3
<1>3. Inv => FeedsAreExact
  <2> SUFFICES ASSUME Inv, NEW id \in index PROVE IsSuffix(due[id] \o Queued(id), Stream(id))
    BY DEF FeedsAreExact
  <2>1. id \in Ids /\ FeedInv /\ due \in [Ids -> Seq(Values)] /\ Handled(id) = due[id]
    BY DEF ControlInv, TypeInv, StreamInv, StreamTypes, Handled
  <2> DEFINE c == CarriedBy(Payloads(id), Channel(id))
  <2>2. \A k \in DOMAIN Channel(id) : Payloads(id)[Channel(id)[k]] = Payload(id, Channel(id)[k])
    <3>1. Channel(id) \in Seq(DOMAIN blocks)
      BY <2>1, PieceTypes, Zenon
    <3>2. \A k \in DOMAIN Channel(id) : Channel(id)[k] \in DOMAIN blocks
      BY <3>1
    <3> QED
      BY <3>2, Zenon DEF Payloads
  <2>3. [k \in DOMAIN Channel(id) |-> Payloads(id)[Channel(id)[k]]] = [k \in DOMAIN Channel(id) |-> Payload(id, Channel(id)[k])]
    BY <2>2, Zenon
  <2>4. Queued(id) = c \o Sending(id)
    BY <2>3, Zenon DEF Queued, CarriedBy, Channel, Sending
  <2>5. PICK u \in Seq(Values) : Stream(id) = u \o (due[id] \o (c \o Sending(id)))
    BY <2>1, ZenonT(30) DEF ExactInv, ExactFor, Exact
  <2>6. c \in Seq(Values) /\ Sending(id) \in Seq(Values) /\ due[id] \in Seq(Values)
    <3>1. c \in Seq(Values) /\ Sending(id) \in Seq(Values)
      BY <2>1, PieceTypes, Zenon
    <3> QED
      BY <2>1, <3>1
  <2> DEFINE q == c \o Sending(id)
             s == due[id] \o q
  <2> HIDE DEF c
  <2>7. q \in Seq(Values)
    BY <2>6, ConcatProperties, ZenonT(30)
  <2> HIDE DEF q
  <2>8. s \in Seq(Values)
    BY <2>6, <2>7, ConcatProperties, ZenonT(30)
  <2> HIDE DEF s
  <2>9. IsSuffix(s, u \o s)
    BY <2>8, SuffixOfConcat, ZenonT(30)
  <2> QED
    BY <2>4, <2>5, <2>9, Zenon DEF s, q
<1>4. Init => Inv
  BY <1>1, StreamInit, ControlInit
<1> HIDE DEF Inv
<1> QED
  BY <1>2, <1>3, <1>4, PTL DEF Spec

=============================================================================
