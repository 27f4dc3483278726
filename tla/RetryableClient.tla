-------------------------- MODULE RetryableClient --------------------------
(***************************************************************************)
(* A call of bch.RetryableClient.  Its nine methods are the same loop: up  *)
(* to maxRetry attempts, and a Delay after each one that failed, the last  *)
(* one included.  Whether an attempt fails is up to the node and the       *)
(* network, that is to the module that composes this one.                  *)
(***************************************************************************)
EXTENDS Naturals

CONSTANT maxRetry  \* 999

ASSUME RetryAssumption == maxRetry \in Nat \ {0}

VARIABLE i  \* loop variable of the call, 0 between calls

ClientInit == i = 0

\* The attempt is answered and the call returns.
Answered == i' = 0

\* Mutant: the loop variable does not advance.
RetryForever == i + 1 < maxRetry /\ i' = i

\* The attempt fails and another one follows.
Retry ==
  /\ i + 1 < maxRetry
  /\ i' = i + 1

\* Mutant: the first error is returned.
GiveUpAtOnce == i' = 0

\* The last attempt fails: the call returns its error.
GiveUp ==
  /\ i + 1 >= maxRetry
  /\ i' = 0

=============================================================================
