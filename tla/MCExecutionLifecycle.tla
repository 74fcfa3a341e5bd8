------------------------ MODULE MCExecutionLifecycle ------------------------
(***************************************************************************)
(* Small instances of ExecutionLifecycle for TLC.                          *)
(***************************************************************************)
EXTENDS ExecutionLifecycle, TLC

\* What a finished invocation was doing, and how often a loop that is over went
\* round, is never looked at again.
Current(a) == IF pc[a] = "ready" THEN <<"ready">> ELSE <<pc[a], cmd[a], msg[a]>>

Rounds == IF \E a \in Actors : pc[a] \in LoopPoints \ {"task"}
          THEN iteration ELSE 0

View == <<stage, holder, appendQueue, flags, memory, doorbell, Rounds,
          [a \in Actors |-> Current(a)], resetSaw>>

Symmetry == Permutations(Actors) \cup Permutations(Messages)
=============================================================================
