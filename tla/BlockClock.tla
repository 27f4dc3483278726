----------------------------- MODULE BlockClock -----------------------------
(***************************************************************************)
(* The time side of VirtualChain.Start and GenerateNewBlock: when rounds   *)
(* begin, the ticker whose channel holds one tick, and the time a block    *)
(* was built at, which goes to its field Size.  What a round does is       *)
(* module VirtualChain; here it takes any time and yields a block or not.  *)
(***************************************************************************)
EXTENDS Integers

CONSTANTS
  BlockInterval,
  ScanEvery,   \* 12
  Epoch,       \* the clock at the first start
  MaxTime,     \* bound on the clock
  MaxCrashes,
  MaxSetBack   \* how far the clock may be set back while the process is down

ASSUME ClockAssumption ==
  /\ BlockInterval \in Nat \ {0}
  /\ ScanEvery \in Nat \ {0}
  /\ MaxTime \in Nat /\ MaxCrashes \in Nat /\ MaxSetBack \in Nat
  /\ Epoch \in Nat /\ Epoch >= BlockInterval + MaxCrashes * MaxSetBack

Never == -1

VARIABLES
  now,
  phase,      \* "down", "sleep" (before the first round), "round" or "wait"
  wakeAt,     \* end of that sleep, 0 outside of it
  nextTick,   \* when the ticker fires next
  tick,       \* is a tick in its channel?
  tryGenerateBlockCount,
  currentBlockTimestamp,  \* GenerateNewBlock's local variable, 0 outside of it
  scanBlock,
  size,       \* Size of the newest block, Never without one
  backwards,  \* was a block ever built at an earlier time than the one before?
  scannedAt,  \* when this run's last scanning round began, or Never
  crashes

vars == <<now, phase, wakeAt, nextTick, tick, tryGenerateBlockCount,
          currentBlockTimestamp, scanBlock, size, backwards, scannedAt, crashes>>

\* A new database, or one that an earlier process left a block in.
Init ==
  /\ now = Epoch
  /\ phase = "down"
  /\ wakeAt = 0
  /\ nextTick = 0
  /\ tick = FALSE
  /\ tryGenerateBlockCount = 0
  /\ currentBlockTimestamp = 0
  /\ scanBlock = FALSE
  /\ size \in {Never, Epoch - BlockInterval}
  /\ backwards = FALSE
  /\ scannedAt = Never
  /\ crashes = 0

\* Time passes; the ticker drops a tick when its channel has one.
Advance ==
  /\ now < MaxTime
  /\ now' = now + 1
  /\ LET fires == phase \in {"round", "wait"} /\ nextTick = now'
     IN  /\ tick' = (tick \/ fires)
         /\ nextTick' = IF fires THEN nextTick + BlockInterval ELSE nextTick
  /\ UNCHANGED <<phase, wakeAt, tryGenerateBlockCount, currentBlockTimestamp,
                 scanBlock, size, backwards, scannedAt, crashes>>

\* GetLatestBlockInfo: the field Timestamp of the newest block, always zero,
\* or the time when there is no block.
RecoveredTimestamp == IF size = Never THEN now ELSE 0

BeginRound(scan) ==
  /\ phase' = "round"
  /\ currentBlockTimestamp' = now
  /\ scanBlock' = scan
  /\ scannedAt' = IF scan THEN now ELSE scannedAt

\* Start panics (it stays down), sleeps or goes straight to the first round.
Start ==
  LET downtime == now - RecoveredTimestamp
  IN  /\ phase = "down"
      /\ now >= RecoveredTimestamp
      /\ tryGenerateBlockCount' = 0
      /\ IF downtime >= BlockInterval
           THEN /\ BeginRound(TRUE)
                /\ UNCHANGED wakeAt
           ELSE /\ phase' = "sleep"
                /\ wakeAt' = now + BlockInterval - downtime
                /\ UNCHANGED <<currentBlockTimestamp, scanBlock, scannedAt>>
      /\ UNCHANGED <<now, nextTick, tick, size, backwards, crashes>>

Wake ==
  /\ phase = "sleep"
  /\ now >= wakeAt
  /\ wakeAt' = 0
  /\ BeginRound(TRUE)
  /\ UNCHANGED <<now, nextTick, tick, tryGenerateBlockCount, size, backwards, crashes>>

\* The end of a round; the ticker is created after the first one (nextTick is
\* 0 until then).  A scanning round always has a block.
EndRound(block) ==
  /\ phase = "round"
  /\ scanBlock => block
  /\ size' = IF block THEN currentBlockTimestamp ELSE size
  /\ backwards' = (backwards \/ size' < size)
  /\ phase' = "wait"
  /\ nextTick' = IF nextTick = 0 THEN now + BlockInterval ELSE nextTick
  /\ currentBlockTimestamp' = 0
  /\ UNCHANGED <<now, wakeAt, tick, tryGenerateBlockCount, scanBlock, scannedAt, crashes>>

\* Mutant of TickRound: every round scans, like the first.
TickRoundAlwaysScans ==
  /\ phase = "wait"
  /\ tick
  /\ tick' = FALSE
  /\ tryGenerateBlockCount' = (tryGenerateBlockCount + 1) % ScanEvery
  /\ BeginRound(TRUE)
  /\ UNCHANGED <<now, wakeAt, nextTick, size, backwards, crashes>>

TickRound ==
  /\ phase = "wait"
  /\ tick
  /\ tick' = FALSE
  /\ tryGenerateBlockCount' = (tryGenerateBlockCount + 1) % ScanEvery
  /\ BeginRound(tryGenerateBlockCount' = 0)
  /\ UNCHANGED <<now, wakeAt, nextTick, size, backwards, crashes>>

Crash(back) ==
  /\ phase # "down"
  /\ crashes < MaxCrashes
  /\ crashes' = crashes + 1
  /\ now' = now - back
  /\ phase' = "down"
  /\ tick' = FALSE
  /\ nextTick' = 0
  /\ scannedAt' = Never
  /\ wakeAt' = 0 /\ tryGenerateBlockCount' = 0 /\ currentBlockTimestamp' = 0 /\ scanBlock' = FALSE
  /\ UNCHANGED <<size, backwards>>

Next ==
  \/ Advance
  \/ Start
  \/ Wake
  \/ \E block \in BOOLEAN : EndRound(block)
  \/ TickRound
  \/ \E back \in 0..MaxSetBack : Crash(back)

Spec == Init /\ [][Next]_vars

-----------------------------------------------------------------------------
(* Properties *)

\* Every variable has its type; the count of ticks stays below ScanEvery.
TypeOK ==
  /\ now \in Nat
  /\ phase \in {"down", "sleep", "round", "wait"}
  /\ wakeAt \in Nat /\ nextTick \in Nat
  /\ tick \in BOOLEAN
  /\ tryGenerateBlockCount \in 0..(ScanEvery - 1)
  /\ currentBlockTimestamp \in Nat
  /\ scanBlock \in BOOLEAN /\ backwards \in BOOLEAN
  /\ size \in Nat \cup {Never}
  /\ scannedAt \in Nat \cup {Never}
  /\ crashes \in 0..MaxCrashes

\* The rounds of one run that scan the main chain begin at least ScanEvery - 1
\* intervals apart: a slow round leaves one tick waiting, never a backlog.
ScansArePaced ==
  [][ scanBlock' /\ phase # "round" /\ phase' = "round" /\ scannedAt # Never
        => now - scannedAt >= (ScanEvery - 1) * BlockInterval ]_vars

\* Start panics when the clock is behind the newest block ("now[%d] <=
\* v.CurrentBlockTimestamp[%d]"): blocks are never built at an earlier time
\* than the block before.
BuildTimesNeverGoBack == ~backwards

=============================================================================
