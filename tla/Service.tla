------------------------------ MODULE Service ------------------------------
(***************************************************************************)
(* The process chainlogs (cmd/chainlogs): main opens the store, starts the *)
(* RPC server, sets the signal trap and runs the chain.  BlockClock times  *)
(* the rounds; here a round is its calls of the node through               *)
(* RetryableClient, in real time, with an outage of the node.              *)
(*                                                                         *)
(* Start-up and cleanup take no time.  A round that scans makes calls that *)
(* panic when they give up (GetBlockCount stands for GetBlockHash and      *)
(* GetBlockVerboseTx too); then comes GetRawMempool, which panics as well, *)
(* and GetRawTransactionVerbose, after which the loop goes on.  That the   *)
(* node knows the inputs of EGTX transactions is assumed here; module      *)
(* EgtxDeriving has the other case.                                        *)
(***************************************************************************)
EXTENDS BlockClock, RetryableClient, RpcServer

CONSTANT delay  \* 10 seconds

ASSUME DelayAssumption == delay \in Nat \ {0}

VARIABLES
  stage,     \* "off", "start" (binding), "up" or "exit" (cleanup is done)
  store,     \* "open" or "closed"
  trap,      \* has the goroutine called signal.Notify?
  signalled, \* is a trapped signal being handled?
  call,      \* "none" or the call the round is in
  gone,      \* does the call ask for a transaction that has left the mempool?
  sleeping,  \* is the call in Delay?
  retryAt,   \* and until when
  downAt,    \* since when the node is away, or Never
  outage,    \* how long it was, or Never before it is back
  ending     \* how the process ended: "none", "panic", "killed" or "signal"

process == <<stage, store, trap, signalled>>
client == <<i, call, gone, sleeping, retryAt>>
server == <<step, bound, served>>
node == <<downAt, outage>>
all == <<vars, process, client, server, node, ending>>

NodeUp == downAt = Never

SInit ==
  /\ Init /\ ServerInit /\ ClientInit
  /\ stage = "off" /\ store = "closed" /\ trap = FALSE /\ signalled = FALSE
  /\ call = "none" /\ gone = FALSE /\ sleeping = FALSE /\ retryAt = 0
  /\ downAt = Never /\ outage = Never
  /\ ending = "none"

-----------------------------------------------------------------------------
(* The process *)

\* The process ends, at whatever point it is.
End(how) ==
  /\ ending' = how
  /\ stage' = "off" /\ store' = "closed" /\ trap' = FALSE /\ signalled' = FALSE
  /\ i' = 0 /\ call' = "none" /\ gone' = FALSE /\ sleeping' = FALSE /\ retryAt' = 0
  /\ ServerGone
  /\ IF phase = "down" THEN UNCHANGED vars ELSE Crash(0)
  /\ UNCHANGED node

\* main, up to the start of the server.
OpenStore ==
  /\ stage = "off"
  /\ crashes < MaxCrashes  \* bounds the number of processes
  /\ stage' = "start" /\ store' = "open" /\ ending' = "none"
  /\ UNCHANGED <<vars, trap, signalled, client, server, node>>

NewAndStartServer ==
  /\ stage = "start"
  /\ OnStart
  /\ stage' = IF step' > Len(Endpoints) THEN "up" ELSE "start"
  /\ UNCHANGED <<vars, store, trap, signalled, client, node, ending>>

\* main panics.
StartFails ==
  /\ stage = "start"
  /\ ListenFails
  /\ End("panic")

\* The goroutine that main starts beside the chain.
TrapSignal ==
  /\ stage = "up" /\ ~trap
  /\ trap' = TRUE
  /\ UNCHANGED <<vars, stage, store, signalled, client, server, node, ending>>

\* SIGINT or SIGTERM; without the trap it ends the process.  The channel holds
\* one signal and is read once: a second one changes nothing.
Signal ==
  /\ stage # "off"
  /\ IF trap
       THEN /\ ~signalled
            /\ signalled' = TRUE
            /\ UNCHANGED <<vars, stage, store, trap, client, server, node, ending>>
       ELSE End("killed")

\* Mutant: the cleanup waits for the round to end.
CloseStoreAfterRound ==
  /\ signalled /\ store = "open" /\ call = "none"
  /\ store' = "closed"
  /\ UNCHANGED <<vars, stage, trap, signalled, client, server, node, ending>>

\* The cleanup, beside rounds that go on: close the store, ...
CloseStore ==
  /\ signalled /\ store = "open"
  /\ store' = "closed"
  /\ UNCHANGED <<vars, stage, trap, signalled, client, server, node, ending>>

\* ... stop the server, ...
StopServer ==
  /\ signalled /\ store = "closed" /\ stage = "up"
  /\ OnStop
  /\ stage' = "exit"
  /\ UNCHANGED <<vars, store, trap, signalled, client, node, ending>>

\* Mutant: the exit does not wait for the cleanup.
SignalExitAtOnce == signalled /\ End("signal")

\* ... and os.Exit.
SignalExit == signalled /\ stage = "exit" /\ End("signal")

Kill == stage # "off" /\ End("killed")

-----------------------------------------------------------------------------
(* Rounds and their calls *)

\* GetNewTxs begins with the blocks or with the mempool.
FirstCall ==
  /\ call' = IF phase' # "round" THEN "none" ELSE IF scanBlock' THEN "GetBlockCount" ELSE "GetRawMempool"
  /\ UNCHANGED <<i, gone, sleeping, retryAt, process, server, node, ending>>

Begin ==
  /\ stage \in {"up", "exit"}
  /\ Start \/ Wake \/ TickRound
  /\ FirstCall

\* The next transaction of the mempool, which may have left it, or none.
NextTransaction ==
  /\ sleeping' = FALSE /\ retryAt' = 0
  /\ call' \in {"none", "GetRawTransactionVerbose"}
  /\ gone' \in IF call' = "none" THEN {FALSE} ELSE BOOLEAN

\* What comes after an answer: more blocks, the mempool or, if the block is
\* full, nothing; then the transactions of the mempool.
NextCall ==
  \/ /\ call = "GetBlockCount"
     /\ call' \in {"GetBlockCount", "GetRawMempool", "none"}
     /\ UNCHANGED <<gone, sleeping, retryAt>>
  \/ call # "GetBlockCount" /\ NextTransaction

Attempt ==
  /\ call # "none" /\ ~sleeping
  /\ IF NodeUp /\ ~gone
       THEN Answered /\ NextCall
       ELSE /\ sleeping' = TRUE
            /\ retryAt' = now + delay
            /\ UNCHANGED <<i, call, gone>>
  /\ UNCHANGED <<vars, process, server, node, ending>>

\* Mutant: Delay returns at once.
DelayIsOverAtOnce == sleeping

DelayIsOver == sleeping /\ now >= retryAt

TryAgain ==
  /\ DelayIsOver /\ Retry
  /\ sleeping' = FALSE /\ retryAt' = 0
  /\ UNCHANGED <<call, gone, vars, process, server, node, ending>>

\* A transaction of the mempool that cannot be fetched is passed over; the
\* other calls panic.
ReturnError ==
  /\ DelayIsOver /\ GiveUp
  /\ IF call = "GetRawTransactionVerbose"
       THEN NextTransaction /\ UNCHANGED <<vars, process, server, node, ending>>
       ELSE End("panic")

Finish ==
  /\ call = "none"
  /\ \E block \in BOOLEAN : EndRound(block)
  /\ UNCHANGED <<process, client, server, node, ending>>

\* Time does not pass while the process starts, until the goroutine of the
\* trap has run, or while it cleans up.
Tick ==
  /\ stage = "off" \/ (stage = "up" /\ trap /\ ~signalled)
  /\ crashes < MaxCrashes
  /\ Advance
  /\ UNCHANGED <<process, client, server, node, ending>>

\* One outage, at any time and of any length.
NodeGoesDown ==
  /\ downAt = Never /\ outage = Never
  /\ downAt' = now
  /\ UNCHANGED <<outage, vars, process, client, server, ending>>

NodeComesBack ==
  /\ downAt # Never
  /\ downAt' = Never
  /\ outage' = now - downAt
  /\ UNCHANGED <<vars, process, client, server, ending>>

SNext ==
  \/ OpenStore \/ NewAndStartServer \/ StartFails \/ TrapSignal
  \/ Signal \/ CloseStore \/ StopServer \/ SignalExit \/ Kill
  \/ Begin \/ Attempt \/ TryAgain \/ ReturnError \/ Finish
  \/ Tick \/ NodeGoesDown \/ NodeComesBack

\* The goroutine of the trap is scheduled.
SSpec == SInit /\ [][SNext]_all /\ WF_all(CloseStore) /\ WF_all(StopServer) /\ WF_all(SignalExit)

-----------------------------------------------------------------------------
(* Properties *)

\* The retries bridge an outage: a chain that is up ends by a panic only after
\* the node was away from the first to the last of maxRetry attempts.
ShortOutageSurvived ==
  [][ ending' = "panic" /\ stage = "up"
        => (IF NodeUp THEN outage ELSE now - downAt) >= (maxRetry - 1) * delay ]_all

\* Rounds run only in a process that got every port it was told to use, and
\* until the cleanup each plain endpoint is served.
RunsFullyBound ==
  phase # "down" /\ stage = "up" =>
    /\ bound = {Endpoints[k] : k \in DOMAIN Endpoints} \ Disabled
    /\ {"http", "ws"} \subseteq served

\* An exit with a signal's code comes after the store is closed and the ports
\* are given back.
ExitIsOrderly ==
  [][ ending' = "signal" /\ stage # "off" => store = "closed" /\ bound = {} ]_all

\* A signal that was trapped ends the process, whatever its round waits for.
SignalEnds == signalled ~> stage = "off"

=============================================================================
