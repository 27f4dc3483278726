--------------------------- MODULE ServiceProofs ---------------------------
(***************************************************************************)
(* The process for every interval, delay, maxRetry and set of endpoints.   *)
(***************************************************************************)
EXTENDS Service, TLAPS

-----------------------------------------------------------------------------
(* How far apart block scans are *)

\* The clock is never set back to zero, which is nextTick before the ticker
\* exists.
ClockInv ==
  /\ TypeOK
  /\ now >= BlockInterval + (MaxCrashes - crashes) * MaxSetBack

Taken == tryGenerateBlockCount * BlockInterval

\* The ticker: each tick taken since the last scan, and the one in the
\* channel, has moved nextTick on by an interval.
PaceInv ==
  /\ phase \in {"down", "sleep"} => nextTick = 0 /\ scannedAt = Never
  /\ nextTick = 0 => ~tick /\ tryGenerateBlockCount = 0 /\ phase # "wait"
  /\ nextTick # 0 => now < nextTick
  /\ tick => nextTick <= now + BlockInterval
  /\ scannedAt <= now
  /\ nextTick # 0 /\ scannedAt # Never
       => scannedAt + Taken + (IF tick THEN BlockInterval ELSE 0) < nextTick

ClockIInv == ClockInv /\ PaceInv

LEMMA Multiply ==
  ASSUME NEW a \in Int, NEW b \in Int
  PROVE  (a + 1) * b = a * b + b /\ (a - 1) * b = a * b - b /\ 0 * b = 0 /\ a * b \in Int
OBVIOUS

LEMMA NatProduct ==
  ASSUME NEW a \in Nat, NEW b \in Nat
  PROVE  a * b \in Nat
OBVIOUS

LEMMA ClockInit == Init => ClockIInv
<1> SUFFICES ASSUME Init PROVE ClockIInv
  OBVIOUS
<1>1. 0 \in 0..(ScanEvery - 1) /\ 0 \in 0..MaxCrashes /\ Epoch \in Nat
  BY ClockAssumption
<1>2. MaxCrashes * MaxSetBack \in Nat
  BY ClockAssumption, NatProduct
<1>3. Epoch - BlockInterval \in Nat
  BY <1>2, ClockAssumption
<1>4. TypeOK
  BY <1>1, <1>3 DEF Init, TypeOK, Never
<1>5. MaxCrashes - crashes = MaxCrashes /\ now = Epoch
  BY ClockAssumption DEF Init
<1>6. ClockInv
  BY <1>4, <1>5, ClockAssumption DEF ClockInv
<1>7. PaceInv
  BY ClockAssumption DEF Init, PaceInv, Never
<1> QED
  BY <1>6, <1>7 DEF ClockIInv

LEMMA ClockInvStep == ClockInv /\ [Next]_vars => ClockInv'
<1> SUFFICES ASSUME ClockInv, [Next]_vars PROVE ClockInv'
  OBVIOUS
<1> USE ClockAssumption DEF ClockInv, TypeOK, Never
<1>0. now \in Nat /\ RecoveredTimestamp \in Nat
  BY DEF RecoveredTimestamp
<1>1. CASE Advance
  BY <1>1 DEF Advance
<1>2. CASE Start
  <2>1. CASE now - RecoveredTimestamp >= BlockInterval
    BY <1>0, <1>2, <2>1 DEF Start, BeginRound
  <2>2. CASE ~(now - RecoveredTimestamp >= BlockInterval)
    <3>1. wakeAt' = now + BlockInterval - (now - RecoveredTimestamp)
      BY <1>2, <2>2 DEF Start
    <3>2. wakeAt' \in Nat
      BY <1>0, <3>1
    <3> QED
      BY <1>0, <1>2, <2>2, <3>2 DEF Start
  <2> QED
    BY <2>1, <2>2
<1>3. CASE Wake
  BY <1>3 DEF Wake, BeginRound
<1>4. ASSUME NEW block \in BOOLEAN, EndRound(block) PROVE ClockInv'
  BY <1>4 DEF EndRound
<1>5. CASE TickRound
  <2>1. tryGenerateBlockCount' \in 0..(ScanEvery - 1) /\ scanBlock' \in BOOLEAN
    BY <1>5 DEF TickRound, BeginRound
  <2> QED
    BY <1>5, <2>1 DEF TickRound, BeginRound
<1>6. ASSUME NEW back \in 0..MaxSetBack, Crash(back) PROVE ClockInv'
  <2>1. /\ crashes' = crashes + 1 /\ crashes' \in 0..MaxCrashes /\ now' = now - back
        /\ MaxCrashes - crashes' = (MaxCrashes - crashes) - 1
        /\ MaxCrashes - crashes \in Int /\ MaxCrashes - crashes' \in Nat
    BY <1>6 DEF Crash
  <2>2. PICK left \in Int : left = MaxCrashes - crashes
    BY <2>1
  <2>3. (left - 1) * MaxSetBack = left * MaxSetBack - MaxSetBack /\ left * MaxSetBack \in Int
    BY Multiply
  <2>4. (left - 1) * MaxSetBack \in Nat
    BY <2>1, <2>2, NatProduct
  <2>5. now >= BlockInterval + left * MaxSetBack
    BY <2>2
  <2>6. now' \in Nat /\ now' >= BlockInterval + (left - 1) * MaxSetBack
    BY <1>0, <2>1, <2>3, <2>4, <2>5
  <2>7. TypeOK'
    <3>1. 0 \in 0..(ScanEvery - 1) /\ Never \in Int
      BY ClockAssumption
    <3> QED
      BY <1>6, <2>1, <2>6, <3>1 DEF Crash
  <2>8. MaxCrashes - crashes' = left - 1
    BY <2>1, <2>2
  <2> QED
    BY <2>6, <2>7, <2>8
<1>7. CASE UNCHANGED vars
  BY <1>7 DEF vars
<1> QED
  BY <1>1, <1>2, <1>3, <1>4, <1>5, <1>6, <1>7 DEF Next

LEMMA PaceStep == ClockIInv /\ [Next]_vars => PaceInv'
<1> SUFFICES ASSUME ClockInv, PaceInv, [Next]_vars PROVE PaceInv'
  BY DEF ClockIInv
<1> USE ClockAssumption DEF TypeOK, Never
<1>0. Taken \in Nat /\ now \in Nat /\ nextTick \in Nat /\ scannedAt \in Nat \cup {-1} /\ BlockInterval \in Nat \ {0}
      /\ (tryGenerateBlockCount = 0 => Taken = 0) /\ tick \in BOOLEAN
  BY DEF ClockInv, Taken
<1>1. CASE Advance
  <2>1. Taken' = Taken /\ now' = now + 1 /\ UNCHANGED <<phase, scannedAt, tryGenerateBlockCount>>
    BY <1>1 DEF Advance, Taken
  <2>2. CASE phase \in {"round", "wait"} /\ nextTick = now'
    <3>1. nextTick # 0 /\ tick' = TRUE /\ nextTick' = nextTick + BlockInterval
      <4>1. nextTick # 0 /\ nextTick' = nextTick + BlockInterval
        BY <1>0, <1>1, <2>1, <2>2 DEF Advance
      <4>2. tick' = TRUE
        BY <1>1, <2>2, Zenon DEF Advance
      <4> QED
        BY <4>1, <4>2
    <3> QED
      BY <1>0, <2>1, <2>2, <3>1 DEF PaceInv
  <2>3. CASE ~(phase \in {"round", "wait"} /\ nextTick = now')
    <3>1. tick' = tick /\ nextTick' = nextTick
      BY <1>0, <1>1, <2>3 DEF Advance
    <3> QED
      BY <1>0, <2>1, <2>3, <3>1 DEF PaceInv, ClockInv
  <2> QED
    BY <2>2, <2>3
<1>2. CASE Start \/ Wake
  <2>1. /\ nextTick = 0 /\ scannedAt = Never /\ UNCHANGED <<nextTick, tick, now>>
        /\ (phase' = "sleep" /\ scannedAt' = scannedAt) \/ (phase' = "round" /\ scannedAt' = now)
        /\ tryGenerateBlockCount' = 0
    BY <1>2 DEF Start, Wake, BeginRound, PaceInv
  <2> QED
    BY <1>0, <2>1 DEF PaceInv
<1>3. ASSUME NEW block \in BOOLEAN, EndRound(block) PROVE PaceInv'
  <2>1. /\ phase' = "wait" /\ nextTick' = (IF nextTick = 0 THEN now + BlockInterval ELSE nextTick)
        /\ UNCHANGED <<now, tick, scannedAt, tryGenerateBlockCount>> /\ Taken' = Taken
    BY <1>3 DEF EndRound, Taken
  <2> QED
    BY <1>0, <2>1 DEF PaceInv
<1>4. CASE TickRound
  <2>1. /\ phase = "wait" /\ tick /\ tick' = FALSE /\ phase' = "round" /\ UNCHANGED <<now, nextTick>>
        /\ tryGenerateBlockCount' = (tryGenerateBlockCount + 1) % ScanEvery
        /\ scannedAt' = IF tryGenerateBlockCount' = 0 THEN now ELSE scannedAt
    BY <1>4 DEF TickRound, BeginRound
  <2>2. nextTick # 0
    BY <2>1 DEF PaceInv
  <2>3. CASE tryGenerateBlockCount' = 0
    <3>1. Taken' = 0 /\ scannedAt' = now
      BY <2>1, <2>3 DEF Taken
    <3> QED
      BY <1>0, <2>1, <2>2, <3>1 DEF PaceInv
  <2>4. CASE tryGenerateBlockCount' # 0
    <3>1. tryGenerateBlockCount' = tryGenerateBlockCount + 1
      BY <2>1, <2>4 DEF ClockInv
    <3>2. Taken' = Taken + BlockInterval
      BY <3>1, Multiply DEF Taken, ClockInv
    <3> QED
      BY <1>0, <2>1, <2>2, <2>4, <3>2 DEF PaceInv
  <2> QED
    BY <2>3, <2>4
<1>5. ASSUME NEW back \in 0..MaxSetBack, Crash(back) PROVE PaceInv'
  <2>1. now' \in Nat
    BY ClockInvStep DEF ClockInv
  <2> QED
    BY <1>5, <2>1 DEF Crash, PaceInv
<1>6. CASE UNCHANGED vars
  BY <1>6 DEF vars, PaceInv, Taken
<1> QED
  BY <1>1, <1>2, <1>3, <1>4, <1>5, <1>6 DEF Next

LEMMA ClockIInvariant == Spec => []ClockIInv
<1>1. ClockIInv /\ [Next]_vars => ClockIInv'
  BY ClockInvStep, PaceStep DEF ClockIInv
<1> QED
  BY <1>1, ClockInit, PTL DEF Spec

\* A scanning round begins ScanEvery - 1 intervals or more after the last one
\* of the same run, for every BlockInterval and ScanEvery (12 in the code) and
\* however long the rounds take.
THEOREM ScansPaced == Spec => ScansArePaced
<1>1. ASSUME ClockIInv, [Next]_vars, scanBlock' /\ phase # "round" /\ phase' = "round" /\ scannedAt # Never
      PROVE  now - scannedAt >= (ScanEvery - 1) * BlockInterval
  <2>1. TickRound
    BY <1>1 DEF Next, Advance, Start, Wake, EndRound, Crash, vars, ClockIInv, PaceInv
  <2>2. tryGenerateBlockCount' = 0 /\ tryGenerateBlockCount' = (tryGenerateBlockCount + 1) % ScanEvery /\ tick
    BY <1>1, <2>1 DEF TickRound, BeginRound
  <2>3. tryGenerateBlockCount = ScanEvery - 1
    BY <1>1, <2>2, ClockAssumption DEF ClockIInv, ClockInv, TypeOK
  <2>4. Taken = (ScanEvery - 1) * BlockInterval /\ Taken \in Int
    BY <2>3, ClockAssumption DEF Taken
  <2>5. nextTick # 0 /\ nextTick <= now + BlockInterval /\ scannedAt + Taken + BlockInterval < nextTick
    BY <1>1, <2>2 DEF ClockIInv, PaceInv
  <2>6. now \in Int /\ nextTick \in Int /\ scannedAt \in Int /\ BlockInterval \in Int
    BY <1>1, ClockAssumption DEF ClockIInv, ClockInv, TypeOK, Never
  <2> HIDE DEF Taken
  <2>7. now - scannedAt >= Taken
    BY <2>4, <2>5, <2>6
  <2> QED
    BY <2>4, <2>7
<1>2. ClockIInv /\ [Next]_vars =>
        [scanBlock' /\ phase # "round" /\ phase' = "round" /\ scannedAt # Never
           => now - scannedAt >= (ScanEvery - 1) * BlockInterval]_vars
  BY <1>1
<1> QED
  BY <1>2, ClockIInvariant, PTL DEF Spec, ScansArePaced

-----------------------------------------------------------------------------
(* The order of build times *)

\* No time that a block got or will get is ahead of the clock.
TimesInv ==
  /\ ~backwards
  /\ size <= now
  /\ currentBlockTimestamp <= now
  /\ phase = "round" => size <= currentBlockTimestamp

LEMMA TimesStep == ASSUME MaxSetBack = 0, ClockIInv, TimesInv, [Next]_vars PROVE TimesInv'
<1> USE DEF TimesInv
<1>0. now \in Nat /\ size \in Nat \cup {-1} /\ currentBlockTimestamp \in Nat /\ backwards = FALSE
  BY DEF ClockIInv, ClockInv, TypeOK, Never
<1>1. CASE Advance
  BY <1>0, <1>1 DEF Advance
<1>2. CASE Start
  BY <1>0, <1>2 DEF Start, BeginRound
<1>3. CASE Wake \/ TickRound
  BY <1>0, <1>3 DEF Wake, TickRound, BeginRound
<1>4. ASSUME NEW block \in BOOLEAN, EndRound(block) PROVE TimesInv'
  <2>1. /\ phase = "round" /\ phase' = "wait" /\ now' = now /\ currentBlockTimestamp' = 0
        /\ size' = currentBlockTimestamp \/ size' = size
    BY <1>4 DEF EndRound
  <2>2. ~(size' < size)
    BY <1>0, <2>1
  <2>3. ~backwards'
    BY <1>0, <1>4, <2>2, Zenon DEF EndRound
  <2> QED
    BY <1>0, <2>1, <2>3
<1>5. ASSUME NEW back \in 0..MaxSetBack, Crash(back) PROVE TimesInv'
  <2>1. back = 0
    BY <1>5
  <2> QED
    BY <1>0, <1>5, <2>1 DEF Crash
<1>6. CASE UNCHANGED vars
  BY <1>6 DEF vars
<1> QED
  BY <1>1, <1>2, <1>3, <1>4, <1>5, <1>6 DEF Next

\* What the check in Start does not ensure, as the run clock_set_back shows,
\* the clock does: as long as it is never set back, no block is built at an
\* earlier time than the block before, over any number of restarts.
THEOREM BuildTimesInOrder == ASSUME MaxSetBack = 0 PROVE Spec => []BuildTimesNeverGoBack
<1>1. Init => TimesInv
  BY ClockAssumption DEF Init, TimesInv, Never
<1>2. ClockIInv /\ TimesInv /\ [Next]_vars => TimesInv'
  BY TimesStep
<1>3. TimesInv => BuildTimesNeverGoBack
  BY DEF TimesInv, BuildTimesNeverGoBack
<1> QED
  BY <1>1, <1>2, <1>3, ClockIInvariant, PTL DEF Spec

-----------------------------------------------------------------------------
(* The clock of the process is BlockClock's. *)

LEMMA EndKeepsClock == ASSUME NEW how, End(how) PROVE [Next]_vars
<1>1. 0 \in 0..MaxSetBack
  BY ClockAssumption
<1>2. UNCHANGED vars \/ Crash(0)
  BY DEF End
<1> QED
  BY <1>1, <1>2 DEF Next

LEMMA StepKeepsClock == [SNext]_all => [Next]_vars
<1> SUFFICES ASSUME [SNext]_all PROVE [Next]_vars
  OBVIOUS
<1>1. CASE OpenStore \/ NewAndStartServer \/ TrapSignal \/ CloseStore \/ StopServer
  BY <1>1 DEF OpenStore, NewAndStartServer, TrapSignal, CloseStore, StopServer
<1>2. CASE StartFails
  BY <1>2, EndKeepsClock DEF StartFails
<1>3. CASE Signal
  BY <1>3, EndKeepsClock DEF Signal
<1>4. CASE SignalExit
  BY <1>4, EndKeepsClock DEF SignalExit
<1>5. CASE Kill
  BY <1>5, EndKeepsClock DEF Kill
<1>6. CASE Begin
  BY <1>6 DEF Begin, Next
<1>7. CASE Attempt \/ TryAgain \/ NodeGoesDown \/ NodeComesBack
  BY <1>7 DEF Attempt, TryAgain, NodeGoesDown, NodeComesBack
<1>8. CASE ReturnError
  BY <1>8, EndKeepsClock DEF ReturnError
<1>9. CASE Finish
  BY <1>9 DEF Finish, Next
<1>10. CASE Tick
  BY <1>10 DEF Tick, Next
<1>11. CASE UNCHANGED all
  BY <1>11 DEF all
<1> QED
  BY <1>1, <1>2, <1>3, <1>4, <1>5, <1>6, <1>7, <1>8, <1>9, <1>10, <1>11 DEF SNext

LEMMA ServiceClock == SSpec => Spec
BY StepKeepsClock, PTL DEF SSpec, SInit, Spec

\* The process, its retries and its outages included, scans at the pace of
\* BlockClock.
THEOREM ServiceScansPaced == SSpec => ScansArePaced
BY ServiceClock, ScansPaced, PTL

-----------------------------------------------------------------------------
(* The stages of the process *)

\* The endpoints OnStart has come past.
Past == {Endpoints[k] : k \in 1..(step - 1)}

StageInv ==
  /\ stage \in {"off", "start", "up", "exit"}
  /\ stage = "off" => step = 1 /\ bound = {} /\ served = {}
  /\ stage = "start" => step \in 1..4 /\ bound = Past \ Disabled /\ Past \ Tls \subseteq served
  /\ stage = "up" => /\ bound = {Endpoints[k] : k \in DOMAIN Endpoints} \ Disabled
                     /\ {"http", "ws"} \subseteq served
  /\ stage = "exit" => store = "closed" /\ bound = {}
  /\ stage # "off" => ending = "none"

LEMMA EndpointsAre ==
  /\ Len(Endpoints) = 4 /\ DOMAIN Endpoints = 1..4
  /\ Endpoints[1] = "http" /\ Endpoints[2] = "https" /\ Endpoints[3] = "ws" /\ Endpoints[4] = "wss"
BY DEF Endpoints

LEMMA StageInit == SInit => StageInv
BY DEF SInit, ServerInit, StageInv

LEMMA StageStep == StageInv /\ [SNext]_all => StageInv'
<1> SUFFICES ASSUME StageInv, [SNext]_all PROVE StageInv'
  OBVIOUS
<1>1. ASSUME NEW how, End(how) PROVE StageInv'
  BY <1>1 DEF End, ServerGone, StageInv
<1>2. CASE OpenStore
  <2>1. stage' = "start" /\ ending' = "none" /\ UNCHANGED <<step, bound, served>> /\ stage = "off"
    BY <1>2 DEF OpenStore, server
  <2>2. Past' = {} /\ step' = 1 /\ bound' = {} /\ served' = {}
    BY <2>1 DEF StageInv, Past
  <2> QED
    BY <2>1, <2>2 DEF StageInv
<1>3. CASE NewAndStartServer
  <2>1. /\ stage = "start" /\ Listen /\ UNCHANGED <<store, ending>>
        /\ stage' = IF step' > 4 THEN "up" ELSE "start"
    BY <1>3, EndpointsAre DEF NewAndStartServer, OnStart, startHTTPAndHTTPS, startWSAndWSS
  <2>2. step \in 1..4 /\ step' = step + 1 /\ bound = Past \ Disabled /\ Past \ Tls \subseteq served
    BY <2>1 DEF StageInv, Listen
  <2>3. Past' = Past \cup {Endpoints[step]}
    BY <2>2 DEF Past
  <2>4. bound' = Past' \ Disabled
    BY <2>1, <2>2, <2>3 DEF Listen
  <2>5. Past' \ Tls \subseteq served'
    BY <2>1, <2>2, <2>3, EndpointAssumption DEF Listen
  <2>6. CASE step' > 4
    <3>1. step' = 5 /\ Past' = {Endpoints[k] : k \in DOMAIN Endpoints}
      BY <2>2, <2>6, EndpointsAre DEF Past
    <3>2. {"http", "ws"} \subseteq Past' \ Tls
      BY <3>1, EndpointsAre DEF Tls
    <3> QED
      BY <2>1, <2>4, <2>5, <2>6, <3>1, <3>2 DEF StageInv
  <2>7. CASE ~(step' > 4)
    BY <2>1, <2>2, <2>4, <2>5, <2>7 DEF StageInv
  <2> QED
    BY <2>6, <2>7
<1>4. CASE StartFails
  BY <1>1, <1>4 DEF StartFails
<1>5. CASE Signal
  BY <1>1, <1>5 DEF Signal, server, StageInv, Past
<1>6. CASE SignalExit
  BY <1>1, <1>6 DEF SignalExit
<1>7. CASE Kill
  BY <1>1, <1>7 DEF Kill
<1>8. CASE ReturnError
  BY <1>1, <1>8 DEF ReturnError, server, process, StageInv, Past
<1>9. CASE CloseStore \/ StopServer
  BY <1>9 DEF CloseStore, StopServer, OnStop, server, StageInv, Past
<1>10. CASE UNCHANGED <<stage, store, ending, server>>
  BY <1>10 DEF server, StageInv, Past
<1>11. CASE TrapSignal
  BY <1>10, <1>11 DEF TrapSignal
<1>12. CASE Begin
  BY <1>10, <1>12 DEF Begin, FirstCall, process
<1>13. CASE Attempt
  BY <1>10, <1>13 DEF Attempt, process
<1>14. CASE TryAgain
  BY <1>10, <1>14 DEF TryAgain, process
<1>15. CASE Finish
  BY <1>10, <1>15 DEF Finish, process
<1>16. CASE Tick \/ NodeGoesDown \/ NodeComesBack
  BY <1>10, <1>16 DEF Tick, NodeGoesDown, NodeComesBack, process
<1>17. CASE UNCHANGED all
  BY <1>10, <1>17 DEF all, process
<1> QED
  BY <1>2, <1>3, <1>4, <1>5, <1>6, <1>7, <1>8, <1>9, <1>11, <1>12, <1>13, <1>14, <1>15,
     <1>16, <1>17 DEF SNext

LEMMA StageInvariant == SSpec => []StageInv
BY StageInit, StageStep, PTL DEF SSpec

\* For every set of disabled endpoints and with or without a certificate, the
\* chain runs only in a process that has all its ports.
THEOREM FullyBound == SSpec => []RunsFullyBound
<1>1. StageInv => RunsFullyBound
  BY DEF StageInv, RunsFullyBound
<1> QED
  BY <1>1, StageInvariant, PTL

\* The exit of the signal trap comes after the whole cleanup.
THEOREM OrderlyExit == SSpec => ExitIsOrderly
<1>1. ASSUME StageInv, [SNext]_all, ending' = "signal", stage # "off"
      PROVE  store = "closed" /\ bound = {}
  <2>1. ending = "none"
    BY <1>1, SMTT(30) DEF StageInv
  <2>2. SignalExit
    BY <1>1, <2>1 DEF SNext, OpenStore, NewAndStartServer, StartFails, TrapSignal, Signal, CloseStore,
       StopServer, Kill, Begin, FirstCall, Attempt, TryAgain, ReturnError, Finish, Tick, NodeGoesDown,
       NodeComesBack, all, End
  <2> QED
    BY <1>1, <2>2 DEF SignalExit, StageInv
<1>2. StageInv /\ [SNext]_all
        => [ending' = "signal" /\ stage # "off" => store = "closed" /\ bound = {}]_all
  BY <1>1
<1> QED
  BY <1>2, StageInvariant, PTL DEF SSpec, ExitIsOrderly

-----------------------------------------------------------------------------
(* The calls of a round, and how long the node has been away *)

Waited == i * delay

CallTypes ==
  /\ call \in {"none", "GetBlockCount", "GetRawMempool", "GetRawTransactionVerbose"}
  /\ i \in Nat /\ i < maxRetry
  /\ retryAt \in Nat /\ downAt \in Nat \cup {Never} /\ outage \in Nat \cup {Never}
  /\ downAt <= now

CallInv ==
  /\ call = "none" => i = 0 /\ ~sleeping /\ ~gone
  /\ call # "none" => phase = "round"
  /\ gone => call = "GetRawTransactionVerbose"

\* A call for something the node has fails only while the node is away: i
\* delays lie between its first failure and its latest one, all in the outage.
OutageInv ==
  /\ sleeping => retryAt <= now + delay
  /\ sleeping /\ ~gone =>
       Waited <= IF NodeUp THEN outage ELSE retryAt - delay - downAt
  /\ ~sleeping /\ ~gone /\ i > 0 =>
       IF NodeUp THEN outage # Never ELSE Waited <= now - downAt

RetryInv == CallTypes /\ CallInv /\ OutageInv

LEMMA WaitedFacts ==
  ASSUME i \in Nat
  PROVE  /\ Waited \in Nat /\ (i = 0 => Waited = 0) /\ (i' = 0 => Waited' = 0)
         /\ (i' = i => Waited' = Waited) /\ (i' = i + 1 => Waited' = Waited + delay)
<1>1. delay \in Nat
  BY DelayAssumption
<1>2. i' = i + 1 => Waited' = Waited + delay
  BY <1>1, Multiply DEF Waited
<1>3. Waited \in Nat
  BY <1>1, NatProduct DEF Waited
<1> QED
  BY <1>1, <1>2, <1>3 DEF Waited

LEMMA RetryInit == SInit => RetryInv
<1> SUFFICES ASSUME SInit PROVE RetryInv
  OBVIOUS
<1>1. now \in Nat
  BY ClockInit DEF SInit, ClockIInv, ClockInv, TypeOK
<1>2. CallTypes
  BY <1>1, RetryAssumption DEF SInit, ClientInit, CallTypes, Never
<1>3. CallInv
  BY DEF SInit, ClientInit, CallInv
<1>4. OutageInv
  BY DEF SInit, ClientInit, OutageInv
<1> QED
  BY <1>2, <1>3, <1>4 DEF RetryInv

LEMMA RetryStep == RetryInv /\ ClockIInv /\ [SNext]_all => RetryInv'
<1> SUFFICES ASSUME RetryInv, ClockIInv, [SNext]_all PROVE RetryInv'
  OBVIOUS
<1>0. now \in Nat /\ now' \in Nat /\ i \in Nat
  BY ClockInvStep, StepKeepsClock DEF ClockIInv, ClockInv, TypeOK, RetryInv, CallTypes
<1>w. /\ Waited \in Nat /\ (i = 0 => Waited = 0) /\ (i' = 0 => Waited' = 0)
      /\ (i' = i => Waited' = Waited) /\ (i' = i + 1 => Waited' = Waited + delay)
  BY <1>0, WaitedFacts
<1> USE DelayAssumption, RetryAssumption DEF Never, NodeUp
<1>1. ASSUME NEW how, End(how) PROVE RetryInv'
  <2>1. now' = now
    BY <1>0, <1>1 DEF End, vars, Crash
  <2> QED
    BY <1>0, <1>1, <2>1 DEF End, node, RetryInv, CallTypes, CallInv, OutageInv
<1>2. CASE UNCHANGED <<now, phase, client, node>>
  BY <1>2 DEF client, node, RetryInv, CallTypes, CallInv, OutageInv, Waited
<1>3. CASE OpenStore \/ NewAndStartServer \/ TrapSignal \/ CloseStore \/ StopServer
  BY <1>2, <1>3 DEF OpenStore, NewAndStartServer, TrapSignal, CloseStore, StopServer, vars
<1>4. CASE StartFails \/ SignalExit \/ Kill
  BY <1>1, <1>4 DEF StartFails, SignalExit, Kill
<1>5. CASE Signal
  BY <1>1, <1>2, <1>5 DEF Signal, vars
<1>6. CASE Begin
  <2>1. /\ phase # "round" /\ now' = now /\ UNCHANGED <<i, gone, sleeping, retryAt, node>>
        /\ call' \in {"none", "GetBlockCount", "GetRawMempool"} /\ (call' # "none" => phase' = "round")
    BY <1>6 DEF Begin, FirstCall, Start, Wake, TickRound
  <2>2. i = 0 /\ ~sleeping /\ ~gone
    BY <2>1 DEF RetryInv, CallInv
  <2> QED
    BY <1>0, <2>1, <2>2 DEF node, RetryInv, CallTypes, CallInv, OutageInv
<1>7. ASSUME NextTransaction, i' = 0, UNCHANGED <<now, phase, node>>, phase = "round" PROVE RetryInv'
  <2>1. sleeping' = FALSE /\ retryAt' = 0 /\ call' \in {"none", "GetRawTransactionVerbose"}
    BY <1>7 DEF NextTransaction
  <2>2. call' = "none" => gone' = FALSE
    BY <1>7 DEF NextTransaction
  <2> QED
    BY <1>0, <1>7, <2>1, <2>2 DEF node, RetryInv, CallTypes, CallInv, OutageInv
<1>8. CASE Attempt
  <2>1. call # "none" /\ ~sleeping /\ UNCHANGED <<now, phase, node>> /\ phase = "round"
    BY <1>8 DEF Attempt, vars, RetryInv, CallInv
  <2>2. CASE NodeUp /\ ~gone
    <3>1. i' = 0 /\ NextCall
      BY <1>8, <2>2 DEF Attempt, Answered
    <3>2. CASE NextTransaction
      BY <1>7, <2>1, <3>1, <3>2
    <3>3. CASE /\ call' \in {"GetBlockCount", "GetRawMempool", "none"}
               /\ UNCHANGED <<gone, sleeping, retryAt>>
      BY <1>0, <2>1, <2>2, <3>1, <3>3 DEF node, RetryInv, CallTypes, CallInv, OutageInv
    <3> QED
      BY <3>1, <3>2, <3>3 DEF NextCall
  <2>3. CASE ~(NodeUp /\ ~gone)
    <3>1. sleeping' = TRUE /\ retryAt' = now + delay /\ UNCHANGED <<i, call, gone>>
      BY <1>8, <2>3 DEF Attempt
    <3>2. CallTypes' /\ CallInv'
      BY <1>0, <2>1, <3>1 DEF node, RetryInv, CallTypes, CallInv
    <3>3. ~gone => downAt # Never /\ Waited <= now - downAt
      BY <1>0, <1>w, <2>1, <2>3 DEF RetryInv, CallTypes, OutageInv
    <3>4. OutageInv'
      BY <1>0, <1>w, <2>1, <3>1, <3>3 DEF node, OutageInv, RetryInv, CallTypes
    <3> QED
      BY <3>2, <3>4 DEF RetryInv
  <2> QED
    BY <2>2, <2>3
<1>9. CASE TryAgain
  <2>1. /\ sleeping /\ now >= retryAt /\ i + 1 < maxRetry /\ i' = i + 1 /\ sleeping' = FALSE
        /\ retryAt' = 0 /\ UNCHANGED <<call, gone, now, phase, node>>
    BY <1>9 DEF TryAgain, DelayIsOver, Retry, vars
  <2>2. CallTypes' /\ CallInv'
    BY <1>0, <2>1 DEF node, RetryInv, CallTypes, CallInv
  <2>3. OutageInv'
    BY <1>0, <1>w, <2>1 DEF node, RetryInv, CallTypes, OutageInv
  <2> QED
    BY <2>2, <2>3 DEF RetryInv
<1>10. CASE ReturnError
  <2>1. sleeping /\ i' = 0
    BY <1>10 DEF ReturnError, DelayIsOver, GiveUp
  <2>2. phase = "round"
    BY <2>1 DEF RetryInv, CallInv
  <2> QED
    BY <1>1, <1>7, <1>10, <2>1, <2>2 DEF ReturnError, vars
<1>11. CASE Finish
  <2>1. call = "none" /\ UNCHANGED <<client, node, now>>
    BY <1>11 DEF Finish, EndRound
  <2> QED
    BY <1>0, <2>1 DEF client, node, RetryInv, CallTypes, CallInv, OutageInv
<1>12. CASE Tick
  <2>1. now' = now + 1 /\ UNCHANGED <<client, node, phase>>
    BY <1>12 DEF Tick, Advance
  <2> QED
    BY <1>0, <1>w, <2>1 DEF client, node, RetryInv, CallTypes, CallInv, OutageInv
<1>13. CASE NodeGoesDown
  <2>1. downAt = Never /\ outage = Never /\ downAt' = now /\ UNCHANGED <<outage, now, phase, client>>
    BY <1>13 DEF NodeGoesDown, vars
  <2> QED
    BY <1>0, <1>w, <2>1 DEF client, RetryInv, CallTypes, CallInv, OutageInv
<1>14. CASE NodeComesBack
  <2>1. downAt # Never /\ downAt' = Never /\ outage' = now - downAt /\ UNCHANGED <<now, phase, client>>
    BY <1>14 DEF NodeComesBack, vars
  <2> QED
    BY <1>0, <1>w, <2>1 DEF client, RetryInv, CallTypes, CallInv, OutageInv
<1>15. CASE UNCHANGED all
  BY <1>2, <1>15 DEF all, vars
<1> QED
  BY <1>3, <1>4, <1>5, <1>6, <1>8, <1>9, <1>10, <1>11, <1>12, <1>13, <1>14, <1>15 DEF SNext

LEMMA RetryInvariant == SSpec => []RetryInv
BY RetryInit, RetryStep, ServiceClock, ClockIInvariant, PTL DEF SSpec

\* For every maxRetry (999 in the code) and delay (10 seconds): a process that
\* is up panics over the node only when the node was away for all the delays
\* between its attempts.
THEOREM OutageSurvived == SSpec => ShortOutageSurvived
<1>1. ASSUME StageInv, RetryInv, ClockIInv, [SNext]_all, ending' = "panic", stage = "up"
      PROVE  (IF NodeUp THEN outage ELSE now - downAt) >= (maxRetry - 1) * delay
  <2>1. ending = "none"
    BY <1>1, SMTT(30) DEF StageInv
  <2>2. ReturnError /\ call # "GetRawTransactionVerbose"
    BY <1>1, <2>1 DEF SNext, OpenStore, NewAndStartServer, StartFails, TrapSignal, Signal, CloseStore,
       StopServer, SignalExit, Kill, Begin, FirstCall, Attempt, TryAgain, ReturnError, Finish, Tick,
       NodeGoesDown, NodeComesBack, all, End
  <2>3. sleeping /\ now >= retryAt /\ ~gone /\ i = maxRetry - 1
    BY <1>1, <2>2, RetryAssumption DEF ReturnError, DelayIsOver, GiveUp, RetryInv, CallTypes, CallInv
  <2>4. Waited = (maxRetry - 1) * delay /\ Waited \in Nat
    BY <1>1, <2>3, WaitedFacts DEF Waited, RetryInv, CallTypes
  <2>5. (IF NodeUp THEN outage ELSE now - downAt) >= Waited
    BY <1>1, <2>3, <2>4, DelayAssumption DEF RetryInv, CallTypes, OutageInv, NodeUp, Never, ClockIInv,
       ClockInv, TypeOK
  <2> QED
    BY <2>4, <2>5
<1>2. StageInv /\ RetryInv /\ ClockIInv /\ [SNext]_all
        => [ending' = "panic" /\ stage = "up"
              => (IF NodeUp THEN outage ELSE now - downAt) >= (maxRetry - 1) * delay]_all
  BY <1>1
<1> QED
  BY <1>2, StageInvariant, RetryInvariant, ServiceClock, ClockIInvariant, PTL DEF SSpec, ShortOutageSurvived

=============================================================================
