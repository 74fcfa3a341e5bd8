---------------------------- MODULE MCPauseControl ----------------------------
(***************************************************************************)
(* Instances of PauseControl for TLC: two concurrent commands, five ids    *)
(* (the most that can be named at once), one instruction, two iterations   *)
(* of the leader and one of a sub-task, two polls of a wait.               *)
(***************************************************************************)
EXTENDS PauseControl

MCIds == 1 .. 5

(***************************************************************************)
(* Only the current id and the id waited on can still be read.  Every other *)
(* id is a dead one: it never becomes current again, no step reads its     *)
(* entry, and it behaves like any other dead id, so states that differ in  *)
(* nothing but dead ids have the same behaviours.                          *)
(***************************************************************************)
Role(i) == IF i = NoId THEN "none"
           ELSE IF i = pauseId THEN "current"
           ELSE IF i = loopId THEN "waited" ELSE "dead"

\* A Continue and an Append lead the loop and a later answer the same way, but
\* for the texts.
Verdict(d) == IF d.kind = "append" THEN "continue" ELSE d.kind

Entry(i) == IF i = NoId THEN <<>> ELSE <<Verdict(decisions[i]), i \in owed>>

\* An answer for a dead id, or a text for the queue, changes nothing that the
\* view shows, whatever it says; nor does the id of a stop that has its flag
\* still to raise.
Inert(c) == \/ pc[c] \in {"answer", "appendSet"} /\ Role(cid[c]) = "dead"
            \/ pc[c] = "appendBusy"

Caller(c) == IF Inert(c) THEN <<"inert", "none", None>>
             ELSE <<pc[c], IF pc[c] = "stopRaise" THEN "none" ELSE Role(cid[c]),
                    cdec[c]>>

\* Which of the two callers does what makes no difference.
BothCallers == {Caller(c) : c \in Callers}

\* A starting round voids the cancel flag.  A closing one asks for its counters
\* no more, nor does a cancelled leader, which runs no further tool and leaves at
\* the next check or answer of the model.
Cancelled == cancelFlag /\ at \notin {"idle", "prepare"}
Leaving == at = "closing" \/ (Cancelled /\ ~sub)

\* A failed refine matters as long as the leader may look at its budget again.
RefinesNoMore == /\ hardStopFailed /\ ~Leaving /\ ~Cancelled
                 /\ \/ iter + 1 < MaxIterations
                    \/ ~sub /\ at \notin {"llm", "tools"}

Loop == <<at, sub, polls, Verdict(got), soloStop,
          IF Leaving THEN <<>> ELSE <<counters, stops, terminated>>,
          Cancelled, refining, RefinesNoMore,
          kind = "refine" /\ at \in LoopPoints>>

\* Whose flag is up is asked only while it is up or obeyed, and not of a retry,
\* which differs from other rounds in nothing else once it has begun.
FlagOwner == <<at = "prepare" /\ kind = "retry",
               /\ kind = "retry" \/ flagIsOurs
               /\ at \in WaitPoints \/ (at \in LoopPoints /\ pauseFlag)>>

\* The appended texts decide nothing.
View == <<pauseFlag, Role(pauseId), Entry(pauseId), Role(loopId),
          Entry(loopId), Role(menu), BothCallers, Loop,
          FlagOwner>>
=============================================================================
