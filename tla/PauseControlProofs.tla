-------------------------- MODULE PauseControlProofs --------------------------
(***************************************************************************)
(* Proofs about PauseControl, for any number of callers, ids and           *)
(* instructions and any bounds.                                            *)
(*                                                                         *)
(* The inductive invariant adds six facts to the types: which points have  *)
(* an id to work with, that an entry of the table is an answer no wait has *)
(* taken yet, that a loop which acted on Terminate is past its last tool,  *)
(* that a flag which is up was raised in this round, which loop is inside  *)
(* which, and, SoloInv, where the decision of an undisturbed graceful stop *)
(* is at every moment.                                                     *)
(***************************************************************************)
EXTENDS PauseControl, TLAPS

\* Where a step reads or writes the table, it has an id.
IdInv ==
  /\ at \in {"peek", "emit", "wait"} => loopId \in Ids
  /\ \A c \in Callers :
       pc[c] \in {"preset", "answer", "appendFlag", "appendSet"} => cid[c] \in Ids

\* An entry of the table was put there since the last one was taken out.
OwedInv == \A i \in Ids : decisions[i] # None => i \in owed

\* A loop that acted on Terminate calls no tool any more, and a leader that
\* dispatched such a sub-task closes when the sub-task returns.
TerminateInv ==
  terminated => /\ at # "tools"
                /\ IF sub THEN subStop ELSE leaderStop \/ at = "closing"

\* Only a retry begins with the flag up.
FlagInv ==
  /\ at \in LoopPoints /\ pauseFlag /\ kind # "retry" => flagIsOurs
  /\ OldPauseIgnored

\* One loop runs inside the leader's at a time.  The return point belongs to a
\* sub-task, the rollback to a refine, the look at the budget and the tool calls
\* to neither.
NestInv ==
  /\ at = "return" => sub
  /\ at = "rollback" => refining
  /\ at = "budget" => ~sub /\ ~refining /\ kind # "refine"
  /\ at = "tools" => ~refining
  /\ sub => ~refining /\ at \in LoopPoints
  /\ refining => at \in LoopPoints /\ kind # "refine"

IInv == TypeOK /\ IdInv /\ OwedInv /\ TerminateInv /\ FlagInv /\ NestInv

\* A text to append is sent as one.
AppendInv ==
  \A c \in Callers :
    pc[c] \in {"mobileFlag", "mobileId", "appendFlag", "appendSet"}
      => cdec[c].kind = "append"

\* The commands of a graceful stop before its flag is up.
Stopping == {c \in Callers : pc[c] \in {"preset", "stopRaise"}}

\* The id of an undisturbed graceful stop is the current one, no menu shows it,
\* and only a phone's append, which cannot replace a Terminate, may be sent for
\* it.
SoloIds ==
  /\ pauseId \in Ids /\ menu # pauseId
  /\ \A c \in Callers :
       /\ pc[c] \notin {"raise", "resetFlag", "clearId"}
       /\ c \in Stopping => cid[c] = pauseId
       /\ cid[c] = pauseId => c \in Stopping \/ pc[c] = "appendSet"

\* The decision is there before the flag is.
SoloCommand ==
  /\ \A c, d \in Stopping : c = d
  /\ \A c \in Stopping :
       /\ ~pauseFlag
       /\ at \notin WaitPoints
       /\ pc[c] = "preset" => cdec[c] = Terminate
       /\ pc[c] = "stopRaise" => decisions[pauseId] = Terminate

\* And it stays there until the loop takes it, on the loop's first poll.
SoloWait ==
  /\ pauseFlag /\ at # "lower" => decisions[pauseId] = Terminate
  /\ at \in WaitPoints => pauseFlag
  /\ at \in {"peek", "wait"} => loopId = pauseId
  /\ at # "emit"
  /\ at = "lower" => got = Terminate

SoloInv == soloStop => SoloIds /\ SoloCommand /\ SoloWait

\* What a step may do.
AnswerStep == at = "wait" /\ at' = "lower" /\ ~cancelFlag
                => loopId \in owed \/ polls + 1 = MaxPolls
ToolStep == terminated /\ at # "tools" => at' # "tools"
-----------------------------------------------------------------------------
LEMMA InitIInv == Init => IInv
<1> SUFFICES ASSUME Init PROVE IInv
  OBVIOUS
<1> USE DEF Init, None, Decision, DecisionSet, DecisionKinds, CallPoints,
    RequestPoints, RoundPoints, RunningPoints, LoopPoints, WaitPoints
<1>1. TypeOK
  <2>1. /\ MaxIterations \in Nat \ {0} /\ MaxSubIterations \in Nat \ {0}
        /\ MaxPolls \in Nat \ {0}
    BY BoundsAssumption
  <2>2. /\ 0 \in 0 .. MaxIterations - 1 /\ 0 \in 0 .. MaxSubIterations - 1
        /\ 0 \in 0 .. MaxPolls - 1
    BY <2>1
  <2>3. None \in DecisionSet
    OBVIOUS
  <2>. QED  BY <2>2, <2>3 DEF TypeOK, InnerBound
<1>2. IdInv /\ OwedInv /\ TerminateInv /\ NestInv
  BY DEF IdInv, OwedInv, TerminateInv, NestInv
<1>3. FlagInv
  BY DEF FlagInv, OldPauseIgnored
<1>. QED  BY <1>1, <1>2, <1>3 DEF IInv

\* The table keeps its type, and every entry is owed, whoever writes it.
LEMMA TableStep ==
  ASSUME TypeOK, OwedInv, NEW i \in Ids,
         \/ NewId(i)
         \/ \E d \in DecisionSet : SetDecision(i, d)
  PROVE  decisions' \in [Ids -> DecisionSet] /\ owed' \subseteq Ids /\ OwedInv'
<1>1. CASE NewId(i)
  BY <1>1 DEF NewId, TypeOK, OwedInv, None, Decision, DecisionSet, DecisionKinds
<1>2. CASE \E d \in DecisionSet : SetDecision(i, d)
  <2>1. PICK d \in DecisionSet : SetDecision(i, d)
    BY <1>2
  <2> DEFINE e == IF d.kind # "append" \/ decisions[i].kind = "none" THEN d
                  ELSE IF decisions[i].kind = "append"
                  THEN Decision("append", decisions[i].texts \cup d.texts)
                  ELSE decisions[i]
  <2>2. e \in DecisionSet
    BY DEF TypeOK, DecisionSet, DecisionKinds, Decision
  <2>3. decisions' = [decisions EXCEPT ![i] = e] /\ owed' = owed \cup {i}
    BY <2>1 DEF SetDecision
  <2>. QED  BY <2>2, <2>3 DEF TypeOK, OwedInv
<1>. QED  BY <1>1, <1>2

\* What leaves the table alone leaves it owed.
LEMMA OwedStutter ==
  ASSUME OwedInv, UNCHANGED <<decisions, owed>>
  PROVE  OwedInv'
BY DEF OwedInv

\* The decisions that are sent have the type of the table's.
LEMMA DecisionTypes ==
  /\ None \in DecisionSet /\ Continue \in DecisionSet
  /\ Terminate \in DecisionSet
  /\ \A t \in Instructions : Decision("append", {t}) \in DecisionSet
BY DEF None, Continue, Terminate, Decision, DecisionSet, DecisionKinds

\* A command keeps the types, and an id where it needs one.
LEMMA CommandTypes ==
  ASSUME TypeOK, IdInv, OwedInv, NEW c \in Callers, Call(c) \/ CallStep(c)
  PROVE  TypeOK' /\ IdInv' /\ OwedInv'
<1> USE DEF TypeOK, IdInv, signals, callers, loop, run, wait, counters, stops,
    history, CallPoints, RequestPoints, InnerBound
<1>0. cdec[c].texts \subseteq Instructions
  BY DEF DecisionSet
<1>1. CASE PauseBegin(c)
  <2>1. PICK i \in Ids : NewId(i) /\ Enter(c, pc'[c], i, cdec'[c])
    BY <1>1 DEF PauseBegin, Enter
  <2>2. decisions' \in [Ids -> DecisionSet] /\ owed' \subseteq Ids /\ OwedInv'
    BY <2>1, TableStep
  <2>3. /\ pc' \in [Callers -> CallPoints]
        /\ cid' \in [Callers -> Ids \cup {NoId}]
        /\ cdec' \in [Callers -> DecisionSet]
    BY <1>1, <2>1, DecisionTypes DEF PauseBegin, Enter
  <2>4. pauseId' \in Ids \cup {NoId} /\ soloStop' \in BOOLEAN
    BY <1>1 DEF PauseBegin, Enter, Undisturbed
  <2>5. /\ UNCHANGED <<pauseFlag, cancelFlag, queue, menu, loop>>
        /\ UNCHANGED <<terminated, flagIsOurs, taken>>
    BY <1>1 DEF PauseBegin, Enter
  <2>6. TypeOK'
    BY <2>2, <2>3, <2>4, <2>5
  <2>7. IdInv'
    BY <1>1, <2>1 DEF PauseBegin, Enter
  <2>. QED  BY <2>2, <2>6, <2>7
<1>2. CASE StopBegin(c)
  <2>1. PICK i \in Ids : NewId(i) /\ Enter(c, pc'[c], i, cdec'[c])
    BY <1>2 DEF StopBegin, Enter
  <2>2. decisions' \in [Ids -> DecisionSet] /\ owed' \subseteq Ids /\ OwedInv'
    BY <2>1, TableStep
  <2>3. /\ pc' \in [Callers -> CallPoints]
        /\ cid' \in [Callers -> Ids \cup {NoId}]
        /\ cdec' \in [Callers -> DecisionSet]
    BY <1>2, <2>1, DecisionTypes DEF StopBegin, Enter
  <2>4. pauseId' \in Ids \cup {NoId} /\ soloStop' \in BOOLEAN
    BY <1>2 DEF StopBegin, Enter, Undisturbed
  <2>5. /\ UNCHANGED <<pauseFlag, cancelFlag, queue, menu, loop>>
        /\ UNCHANGED <<terminated, flagIsOurs, taken>>
    BY <1>2 DEF StopBegin, Enter
  <2>6. TypeOK'
    BY <2>2, <2>3, <2>4, <2>5
  <2>7. IdInv'
    BY <1>2, <2>1 DEF StopBegin, Enter
  <2>. QED  BY <2>2, <2>6, <2>7
<1>3. CASE InterruptBegin(c)
  <2>1. /\ pc' \in [Callers -> CallPoints]
        /\ cid' \in [Callers -> Ids \cup {NoId}]
        /\ cdec' \in [Callers -> DecisionSet]
    BY <1>3, DecisionTypes DEF InterruptBegin, Enter
  <2>2. /\ pauseFlag' \in BOOLEAN /\ cancelFlag' \in BOOLEAN
        /\ soloStop' \in BOOLEAN /\ queue' \subseteq Instructions
    BY <1>0, <1>3 DEF InterruptBegin, Enter
  <2>3. UNCHANGED <<decisions, owed, menu, loop, terminated, flagIsOurs, taken>>
    BY <1>3 DEF InterruptBegin, Enter
  <2>4. pauseId' \in Ids \cup {NoId}
    BY <1>3 DEF InterruptBegin, Enter
  <2>5. TypeOK'
    BY <2>1, <2>2, <2>3, <2>4
  <2>6. IdInv'
    BY <1>3 DEF InterruptBegin, Enter
  <2>. QED  BY <2>3, <2>5, <2>6, OwedStutter
<1>4. CASE ResetBegin(c)
  <2>1. /\ pc' \in [Callers -> CallPoints]
        /\ cid' \in [Callers -> Ids \cup {NoId}]
        /\ cdec' \in [Callers -> DecisionSet]
    BY <1>4, DecisionTypes DEF ResetBegin, Enter
  <2>2. /\ pauseFlag' \in BOOLEAN /\ cancelFlag' \in BOOLEAN
        /\ soloStop' \in BOOLEAN /\ queue' \subseteq Instructions
    BY <1>0, <1>4 DEF ResetBegin, Enter
  <2>3. UNCHANGED <<decisions, owed, menu, loop, terminated, flagIsOurs, taken>>
    BY <1>4 DEF ResetBegin, Enter
  <2>4. pauseId' \in Ids \cup {NoId}
    BY <1>4 DEF ResetBegin, Enter
  <2>5. TypeOK'
    BY <2>1, <2>2, <2>3, <2>4
  <2>6. IdInv'
    BY <1>4 DEF ResetBegin, Enter
  <2>. QED  BY <2>3, <2>5, <2>6, OwedStutter
<1>5. CASE AnswerBegin(c, Continue)
  BY <1>5, DecisionTypes, OwedStutter DEF AnswerBegin, Enter
<1>6. CASE AnswerBegin(c, Terminate)
  BY <1>6, DecisionTypes, OwedStutter DEF AnswerBegin, Enter
<1>7. CASE \E t \in Instructions : AppendBegin(c, t)
  BY <1>7, DecisionTypes, OwedStutter DEF AppendBegin, Enter
<1>8. CASE \E t \in Instructions : MobileBegin(c, t)
  BY <1>8, DecisionTypes, OwedStutter DEF MobileBegin, Enter
<1>9. CASE PauseRaise(c)
  BY <1>9, OwedStutter DEF PauseRaise, RaiseFlag, Go
<1>10. CASE PauseAnnounce(c)
  BY <1>10, DecisionTypes, OwedStutter DEF PauseAnnounce, Return
<1>11. CASE StopPreset(c)
  <2>1. cid[c] \in Ids /\ SetDecision(cid[c], cdec[c])
    BY <1>11 DEF StopPreset, Go
  <2>2. decisions' \in [Ids -> DecisionSet] /\ owed' \subseteq Ids /\ OwedInv'
    BY <2>1, TableStep
  <2>. QED  BY <1>11, <2>2 DEF StopPreset, Go
<1>12. CASE StopRaise(c)
  BY <1>12, DecisionTypes, OwedStutter DEF StopRaise, RaiseFlag, Return
<1>13. CASE Answer(c)
  <2>1. cid[c] \in Ids /\ SetDecision(cid[c], cdec[c])
    BY <1>13 DEF Answer, Return
  <2>2. decisions' \in [Ids -> DecisionSet] /\ owed' \subseteq Ids /\ OwedInv'
    BY <2>1, TableStep
  <2>. QED  BY <1>13, <2>2, DecisionTypes DEF Answer, Return
<1>14. CASE AppendFlag(c)
  BY <1>14, OwedStutter DEF AppendFlag
<1>15. CASE AppendBusy(c)
  <2>1. /\ pc' \in [Callers -> CallPoints]
        /\ cid' \in [Callers -> Ids \cup {NoId}]
        /\ cdec' \in [Callers -> DecisionSet]
    BY <1>15, DecisionTypes DEF AppendBusy, Return
  <2>2. /\ pauseFlag' \in BOOLEAN /\ cancelFlag' \in BOOLEAN
        /\ soloStop' \in BOOLEAN /\ queue' \subseteq Instructions
    BY <1>0, <1>15 DEF AppendBusy, Return
  <2>3. UNCHANGED <<decisions, owed, menu, loop, terminated, flagIsOurs, taken>>
    BY <1>15 DEF AppendBusy, Return
  <2>4. pauseId' \in Ids \cup {NoId}
    BY <1>15 DEF AppendBusy, Return
  <2>5. TypeOK'
    BY <2>1, <2>2, <2>3, <2>4
  <2>6. IdInv'
    BY <1>15 DEF AppendBusy, Return
  <2>. QED  BY <2>3, <2>5, <2>6, OwedStutter
<1>16. CASE MobileFlag(c)
  <2>1. /\ pc' \in [Callers -> CallPoints]
        /\ cid' \in [Callers -> Ids \cup {NoId}]
        /\ cdec' \in [Callers -> DecisionSet]
    BY <1>16, DecisionTypes DEF MobileFlag, Go, Return
  <2>2. /\ pauseFlag' \in BOOLEAN /\ cancelFlag' \in BOOLEAN
        /\ soloStop' \in BOOLEAN /\ queue' \subseteq Instructions
    BY <1>0, <1>16 DEF MobileFlag, Go, Return
  <2>3. UNCHANGED <<decisions, owed, menu, loop, terminated, flagIsOurs, taken>>
    BY <1>16 DEF MobileFlag, Go, Return
  <2>4. pauseId' \in Ids \cup {NoId}
    BY <1>16 DEF MobileFlag, Go, Return
  <2>5. TypeOK'
    BY <2>1, <2>2, <2>3, <2>4
  <2>6. IdInv'
    BY <1>16 DEF MobileFlag, Go, Return
  <2>. QED  BY <2>3, <2>5, <2>6, OwedStutter
<1>17. CASE MobileId(c)
  BY <1>17, DecisionTypes, OwedStutter DEF MobileId, Return
<1>18. CASE ResetFlag(c)
  <2>1. /\ pc' \in [Callers -> CallPoints]
        /\ cid' \in [Callers -> Ids \cup {NoId}]
        /\ cdec' \in [Callers -> DecisionSet]
    BY <1>18, DecisionTypes DEF ResetFlag, Go
  <2>2. /\ pauseFlag' \in BOOLEAN /\ cancelFlag' \in BOOLEAN
        /\ soloStop' \in BOOLEAN /\ queue' \subseteq Instructions
    BY <1>0, <1>18 DEF ResetFlag, Go
  <2>3. UNCHANGED <<decisions, owed, menu, loop, terminated, flagIsOurs, taken>>
    BY <1>18 DEF ResetFlag, Go
  <2>4. pauseId' \in Ids \cup {NoId}
    BY <1>18 DEF ResetFlag, Go
  <2>5. TypeOK'
    BY <2>1, <2>2, <2>3, <2>4
  <2>6. IdInv'
    BY <1>18 DEF ResetFlag, Go
  <2>. QED  BY <2>3, <2>5, <2>6, OwedStutter
<1>19. CASE ClearId(c)
  BY <1>19, DecisionTypes, OwedStutter DEF ClearId, Return
<1>. QED  BY <1>1, <1>2, <1>3, <1>4, <1>5, <1>6, <1>7, <1>8, <1>9, <1>10,
          <1>11, <1>12, <1>13, <1>14, <1>15, <1>16, <1>17, <1>18, <1>19
     DEF Call, CallStep

\* A command does not touch the loop, and raises the flag as one of its round.
LEMMA CommandLeavesLoop ==
  ASSUME NEW c \in Callers, Call(c) \/ CallStep(c)
  PROVE  /\ UNCHANGED <<loop, terminated>>
         /\ \/ UNCHANGED <<pauseFlag, flagIsOurs>>
            \/ pauseFlag' = FALSE /\ UNCHANGED flagIsOurs
            \/ pauseFlag' = TRUE /\ flagIsOurs' = (at \in LoopPoints)
BY DEF Call, CallStep, PauseBegin, StopBegin, InterruptBegin, ResetBegin,
       AnswerBegin, AppendBegin, MobileBegin, PauseRaise, PauseAnnounce,
       StopPreset, StopRaise, Answer, AppendFlag, AppendBusy, MobileFlag,
       MobileId, ResetFlag, ClearId, RaiseFlag, history, signals

\* So it keeps what is said about the loop.
LEMMA CommandStep ==
  ASSUME IInv, NEW c \in Callers, Call(c) \/ CallStep(c)
  PROVE  IInv'
<1>1. TypeOK' /\ IdInv' /\ OwedInv'
  BY CommandTypes DEF IInv
<1>a. UNCHANGED <<at, sub, refining, kind, stops, terminated>>
  BY CommandLeavesLoop DEF loop, run
<1>2. TerminateInv' /\ NestInv'
  BY <1>a DEF IInv, TerminateInv, NestInv, stops
<1>3. FlagInv'
  BY CommandLeavesLoop DEF IInv, FlagInv, OldPauseIgnored, LoopPoints, loop, run
<1>. QED  BY <1>1, <1>2, <1>3 DEF IInv

\* The loop keeps the types, and an id where it waits on one.
LEMMA LoopTypes ==
  ASSUME TypeOK, IdInv, OwedInv,
         LoopStep \/ \E k \in {"fresh", "retry", "refine"} : StartRound(k)
  PROVE  TypeOK' /\ IdInv' /\ OwedInv'
<1> USE DEF TypeOK, IdInv, signals, callers, loop, run, wait, counters, stops,
    history, RoundPoints, RunningPoints, LoopPoints, WaitPoints, InnerBound
<1>b. /\ MaxIterations \in Nat \ {0} /\ MaxSubIterations \in Nat \ {0}
      /\ MaxPolls \in Nat \ {0}
  BY BoundsAssumption
<1>0. /\ MaxIterations \in Nat \ {0} /\ MaxSubIterations \in Nat \ {0}
      /\ MaxPolls \in Nat \ {0}
      /\ 0 \in 0 .. MaxIterations - 1 /\ 0 \in 0 .. MaxSubIterations - 1
      /\ 0 \in 0 .. MaxPolls - 1
  BY <1>b
<1>a. got.texts \subseteq Instructions
  BY DEF DecisionSet
<1>1. CASE \E k \in {"fresh", "retry", "refine"} : StartRound(k)
  BY <1>0, <1>a, <1>1, DecisionTypes, OwedStutter DEF StartRound, Step
<1>2. CASE Prepare
  <2>1. UNCHANGED <<decisions, owed, pauseId, menu, pc, cid, cdec>>
    BY <1>2 DEF Prepare, EnterLoop, Step
  <2>2. /\ pauseFlag' \in BOOLEAN /\ cancelFlag' \in BOOLEAN
        /\ queue' \subseteq Instructions /\ seen' \subseteq Instructions
        /\ taken' \subseteq Instructions
    BY <1>a, <1>2 DEF Prepare, EnterLoop, Step
  <2>3. /\ at' \in RoundPoints /\ kind' \in {"none", "fresh", "retry", "refine"}
        /\ sub' \in BOOLEAN /\ refining' \in BOOLEAN
        /\ mark' \subseteq Instructions /\ hardStopFailed' \in BOOLEAN
        /\ iter' \in 0 .. MaxIterations - 1
        /\ subIter' \in 0 .. InnerBound' - 1
    BY <1>0, <1>2 DEF Prepare, EnterLoop, Step
  <2>4. /\ loopId' \in Ids \cup {NoId} /\ polls' \in 0 .. MaxPolls - 1
        /\ got' \in DecisionSet
    BY <1>0, <1>2, DecisionTypes DEF Prepare, EnterLoop, Step
  <2>5. /\ leaderStop' \in BOOLEAN /\ subStop' \in BOOLEAN
        /\ terminated' \in BOOLEAN /\ soloStop' \in BOOLEAN
        /\ flagIsOurs' \in BOOLEAN
    BY <1>2 DEF Prepare, EnterLoop, Step
  <2>6. TypeOK'
    BY <2>1, <2>2, <2>3, <2>4, <2>5
  <2>7. IdInv'
    BY <1>2, <2>1 DEF Prepare, EnterLoop, Step
  <2>. QED  BY <2>1, <2>6, <2>7, OwedStutter
<1>3. CASE CheckTop
  BY <1>0, <1>a, <1>3, DecisionTypes, OwedStutter DEF CheckTop, Step, Leave
<1>4. CASE PauseCheck
  BY <1>0, <1>a, <1>4, DecisionTypes, OwedStutter DEF PauseCheck, Step, AfterPause
<1>5. CASE Ask
  <2>1. CASE \E i \in Ids : NewId(i) /\ loopId' = i
    <3>1. PICK i \in Ids : NewId(i) /\ loopId' = i
      BY <2>1
    <3>2. decisions' \in [Ids -> DecisionSet] /\ owed' \subseteq Ids /\ OwedInv'
      BY <3>1, TableStep
    <3>. QED  BY <1>5, <3>1, <3>2 DEF Ask, Step
  <2>2. CASE loopId' = pauseId /\ UNCHANGED <<decisions, owed>>
    BY <1>5, <2>2, OwedStutter DEF Ask, Step
  <2>. QED  BY <1>5, <2>1, <2>2 DEF Ask, Step
<1>6. CASE Peek
  BY <1>0, <1>a, <1>6, DecisionTypes, OwedStutter DEF Peek
<1>7. CASE Emit
  BY <1>0, <1>a, <1>7, DecisionTypes, OwedStutter DEF Emit, Step
<1>8. CASE WaitCancel
  BY <1>0, <1>a, <1>8, DecisionTypes, OwedStutter DEF WaitCancel, Step
<1>9. CASE TakeDecision
  <2>1. OwedInv'
    BY <1>9 DEF TakeDecision, Step, OwedInv
  <2>2. decisions' \in [Ids -> DecisionSet] /\ got' \in DecisionSet
    BY <1>9, DecisionTypes DEF TakeDecision, Step
  <2>. QED  BY <1>9, <2>1, <2>2 DEF TakeDecision, Step
<1>10. CASE PollAgain
  BY <1>0, <1>a, <1>10, DecisionTypes, OwedStutter DEF PollAgain
<1>11. CASE ActContinue
  <2>1. UNCHANGED <<decisions, owed, pauseId, menu, pc, cid, cdec>>
    BY <1>11 DEF ActContinue, Lower, Step, AfterPause
  <2>2. /\ pauseFlag' \in BOOLEAN /\ cancelFlag' \in BOOLEAN
        /\ queue' \subseteq Instructions /\ seen' \subseteq Instructions
        /\ taken' \subseteq Instructions
    BY <1>a, <1>11 DEF ActContinue, Lower, Step, AfterPause
  <2>3. /\ at' \in RoundPoints /\ kind' \in {"none", "fresh", "retry", "refine"}
        /\ sub' \in BOOLEAN /\ refining' \in BOOLEAN
        /\ mark' \subseteq Instructions /\ hardStopFailed' \in BOOLEAN
        /\ iter' \in 0 .. MaxIterations - 1
        /\ subIter' \in 0 .. InnerBound' - 1
    BY <1>0, <1>11 DEF ActContinue, Lower, Step, AfterPause
  <2>4. /\ loopId' \in Ids \cup {NoId} /\ polls' \in 0 .. MaxPolls - 1
        /\ got' \in DecisionSet
    BY <1>0, <1>11, DecisionTypes DEF ActContinue, Lower, Step, AfterPause
  <2>5. /\ leaderStop' \in BOOLEAN /\ subStop' \in BOOLEAN
        /\ terminated' \in BOOLEAN /\ soloStop' \in BOOLEAN
        /\ flagIsOurs' \in BOOLEAN
    BY <1>11 DEF ActContinue, Lower, Step, AfterPause
  <2>6. TypeOK'
    BY <2>1, <2>2, <2>3, <2>4, <2>5
  <2>7. IdInv'
    BY <1>11, <2>1 DEF ActContinue, Lower, Step, AfterPause
  <2>. QED  BY <2>1, <2>6, <2>7, OwedStutter
<1>12. CASE ActAppend
  <2>1. UNCHANGED <<decisions, owed, pauseId, menu, pc, cid, cdec>>
    BY <1>12 DEF ActAppend, Lower, Step, AfterPause
  <2>2. /\ pauseFlag' \in BOOLEAN /\ cancelFlag' \in BOOLEAN
        /\ queue' \subseteq Instructions /\ seen' \subseteq Instructions
        /\ taken' \subseteq Instructions
    BY <1>a, <1>12 DEF ActAppend, Lower, Step, AfterPause
  <2>3. /\ at' \in RoundPoints /\ kind' \in {"none", "fresh", "retry", "refine"}
        /\ sub' \in BOOLEAN /\ refining' \in BOOLEAN
        /\ mark' \subseteq Instructions /\ hardStopFailed' \in BOOLEAN
        /\ iter' \in 0 .. MaxIterations - 1
        /\ subIter' \in 0 .. InnerBound' - 1
    BY <1>0, <1>12 DEF ActAppend, Lower, Step, AfterPause
  <2>4. /\ loopId' \in Ids \cup {NoId} /\ polls' \in 0 .. MaxPolls - 1
        /\ got' \in DecisionSet
    BY <1>0, <1>12, DecisionTypes DEF ActAppend, Lower, Step, AfterPause
  <2>5. /\ leaderStop' \in BOOLEAN /\ subStop' \in BOOLEAN
        /\ terminated' \in BOOLEAN /\ soloStop' \in BOOLEAN
        /\ flagIsOurs' \in BOOLEAN
    BY <1>12 DEF ActAppend, Lower, Step, AfterPause
  <2>6. TypeOK'
    BY <2>1, <2>2, <2>3, <2>4, <2>5
  <2>7. IdInv'
    BY <1>12, <2>1 DEF ActAppend, Lower, Step, AfterPause
  <2>. QED  BY <2>1, <2>6, <2>7, OwedStutter
<1>13. CASE ActTerminate
  <2>1. UNCHANGED <<decisions, owed, pauseId, menu, pc, cid, cdec>>
    BY <1>13 DEF ActTerminate, Lower, Step, AfterPause
  <2>2. /\ pauseFlag' \in BOOLEAN /\ cancelFlag' \in BOOLEAN
        /\ queue' \subseteq Instructions /\ seen' \subseteq Instructions
        /\ taken' \subseteq Instructions
    BY <1>a, <1>13 DEF ActTerminate, Lower, Step, AfterPause
  <2>3. /\ at' \in RoundPoints /\ kind' \in {"none", "fresh", "retry", "refine"}
        /\ sub' \in BOOLEAN /\ refining' \in BOOLEAN
        /\ mark' \subseteq Instructions /\ hardStopFailed' \in BOOLEAN
        /\ iter' \in 0 .. MaxIterations - 1
        /\ subIter' \in 0 .. InnerBound' - 1
    BY <1>0, <1>13 DEF ActTerminate, Lower, Step, AfterPause
  <2>4. /\ loopId' \in Ids \cup {NoId} /\ polls' \in 0 .. MaxPolls - 1
        /\ got' \in DecisionSet
    BY <1>0, <1>13, DecisionTypes DEF ActTerminate, Lower, Step, AfterPause
  <2>5. /\ leaderStop' \in BOOLEAN /\ subStop' \in BOOLEAN
        /\ terminated' \in BOOLEAN /\ soloStop' \in BOOLEAN
        /\ flagIsOurs' \in BOOLEAN
    BY <1>13 DEF ActTerminate, Lower, Step, AfterPause
  <2>6. TypeOK'
    BY <2>1, <2>2, <2>3, <2>4, <2>5
  <2>7. IdInv'
    BY <1>13, <2>1 DEF ActTerminate, Lower, Step, AfterPause
  <2>. QED  BY <2>1, <2>6, <2>7, OwedStutter
<1>14. CASE LlmLeave
  BY <1>0, <1>a, <1>14, DecisionTypes, OwedStutter DEF LlmLeave, Step, Leave
<1>15. CASE LlmAgain
  BY <1>0, <1>a, <1>15, DecisionTypes, OwedStutter DEF LlmAgain, NextIteration, Leave
<1>16. CASE LlmCalls
  BY <1>0, <1>a, <1>16, DecisionTypes, OwedStutter DEF LlmCalls, Step, Leave
<1>17. CASE LeaderTool
  BY <1>0, <1>a, <1>17, DecisionTypes, OwedStutter DEF LeaderTool, NextIteration, Leave
<1>18. CASE SubTaskTool
  BY <1>0, <1>a, <1>18, DecisionTypes, OwedStutter DEF SubTaskTool,
     NextIteration, Leave
<1>19. CASE Dispatch
  <2>1. UNCHANGED <<decisions, owed, pauseId, menu, pc, cid, cdec>>
    BY <1>19 DEF Dispatch, Step
  <2>2. /\ pauseFlag' \in BOOLEAN /\ cancelFlag' \in BOOLEAN
        /\ queue' \subseteq Instructions /\ seen' \subseteq Instructions
        /\ taken' \subseteq Instructions
    BY <1>a, <1>19 DEF Dispatch, Step
  <2>3. /\ at' \in RoundPoints /\ kind' \in {"none", "fresh", "retry", "refine"}
        /\ sub' \in BOOLEAN /\ refining' \in BOOLEAN
        /\ mark' \subseteq Instructions /\ hardStopFailed' \in BOOLEAN
        /\ iter' \in 0 .. MaxIterations - 1
        /\ subIter' \in 0 .. InnerBound' - 1
    BY <1>0, <1>19 DEF Dispatch, Step
  <2>4. /\ loopId' \in Ids \cup {NoId} /\ polls' \in 0 .. MaxPolls - 1
        /\ got' \in DecisionSet
    BY <1>0, <1>19, DecisionTypes DEF Dispatch, Step
  <2>5. /\ leaderStop' \in BOOLEAN /\ subStop' \in BOOLEAN
        /\ terminated' \in BOOLEAN /\ soloStop' \in BOOLEAN
        /\ flagIsOurs' \in BOOLEAN
    BY <1>19 DEF Dispatch, Step
  <2>6. TypeOK'
    BY <2>1, <2>2, <2>3, <2>4, <2>5
  <2>7. IdInv'
    BY <1>19, <2>1 DEF Dispatch, Step
  <2>. QED  BY <2>1, <2>6, <2>7, OwedStutter
<1>20. CASE SubTaskReturns
  <2>1. UNCHANGED <<decisions, owed, pauseId, menu, pc, cid, cdec>>
    BY <1>20 DEF SubTaskReturns, LeaveSubTask
  <2>2. /\ pauseFlag' \in BOOLEAN /\ cancelFlag' \in BOOLEAN
        /\ queue' \subseteq Instructions /\ seen' \subseteq Instructions
        /\ taken' \subseteq Instructions
    BY <1>a, <1>20 DEF SubTaskReturns, LeaveSubTask
  <2>3. /\ at' \in RoundPoints /\ kind' \in {"none", "fresh", "retry", "refine"}
        /\ sub' \in BOOLEAN /\ refining' \in BOOLEAN
        /\ mark' \subseteq Instructions /\ hardStopFailed' \in BOOLEAN
        /\ iter' \in 0 .. MaxIterations - 1
        /\ subIter' \in 0 .. InnerBound' - 1
    <3>1. \/ iter + 1 < MaxIterations /\ at' = "check" /\ iter' = iter + 1
          \/ at' = "closing" /\ iter' = iter
      BY <1>20 DEF SubTaskReturns, LeaveSubTask
    <3>2. sub' \in BOOLEAN /\ UNCHANGED run
      BY <1>20 DEF SubTaskReturns, LeaveSubTask
    <3>3. subIter' \in 0 .. InnerBound' - 1
      BY <1>0, <1>20 DEF SubTaskReturns, LeaveSubTask
    <3>4. iter' \in 0 .. MaxIterations - 1
      <4>1. iter \in 0 .. MaxIterations - 1
        OBVIOUS
      <4>. QED  BY <1>0, <3>1, <4>1
    <3>5. at' \in RoundPoints
      BY <3>1
    <3>. QED  BY <3>2, <3>3, <3>4, <3>5
  <2>4. /\ loopId' \in Ids \cup {NoId} /\ polls' \in 0 .. MaxPolls - 1
        /\ got' \in DecisionSet
    BY <1>0, <1>20, DecisionTypes DEF SubTaskReturns, LeaveSubTask
  <2>5. /\ leaderStop' \in BOOLEAN /\ subStop' \in BOOLEAN
        /\ terminated' \in BOOLEAN /\ soloStop' \in BOOLEAN
        /\ flagIsOurs' \in BOOLEAN
    BY <1>20 DEF SubTaskReturns, LeaveSubTask
  <2>6. TypeOK'
    BY <2>1, <2>2, <2>3, <2>4, <2>5
  <2>7. IdInv'
    BY <1>20, <2>1 DEF SubTaskReturns, LeaveSubTask
  <2>. QED  BY <2>1, <2>6, <2>7, OwedStutter
<1>21. CASE EndRound
  <2>1. UNCHANGED <<decisions, owed, pauseId, menu, pc, cid, cdec>>
    BY <1>21 DEF EndRound, Step
  <2>2. /\ pauseFlag' \in BOOLEAN /\ cancelFlag' \in BOOLEAN
        /\ queue' \subseteq Instructions /\ seen' \subseteq Instructions
        /\ taken' \subseteq Instructions
    BY <1>a, <1>21 DEF EndRound, Step
  <2>3. /\ at' \in RoundPoints /\ kind' \in {"none", "fresh", "retry", "refine"}
        /\ sub' \in BOOLEAN /\ refining' \in BOOLEAN
        /\ mark' \subseteq Instructions /\ hardStopFailed' \in BOOLEAN
        /\ iter' \in 0 .. MaxIterations - 1
        /\ subIter' \in 0 .. InnerBound' - 1
    BY <1>0, <1>21 DEF EndRound, Step
  <2>4. /\ loopId' \in Ids \cup {NoId} /\ polls' \in 0 .. MaxPolls - 1
        /\ got' \in DecisionSet
    BY <1>0, <1>21, DecisionTypes DEF EndRound, Step
  <2>5. /\ leaderStop' \in BOOLEAN /\ subStop' \in BOOLEAN
        /\ terminated' \in BOOLEAN /\ soloStop' \in BOOLEAN
        /\ flagIsOurs' \in BOOLEAN
    BY <1>21 DEF EndRound, Step
  <2>6. TypeOK'
    BY <2>1, <2>2, <2>3, <2>4, <2>5
  <2>7. IdInv'
    BY <1>21, <2>1 DEF EndRound, Step
  <2>. QED  BY <2>1, <2>6, <2>7, OwedStutter
<1>22. CASE WithinBudget
  BY <1>0, <1>a, DecisionTypes, OwedStutter, <1>22 DEF WithinBudget, Step
<1>23. CASE RefineBegin
  BY <1>0, <1>a, DecisionTypes, OwedStutter, <1>23 DEF RefineBegin, Step
<1>24. CASE RefineSucceeds
  <2>1. UNCHANGED <<signals, queue, menu, callers, history>>
    BY <1>24 DEF RefineSucceeds, RefineEnds
  <2>2. /\ at' \in RoundPoints /\ kind' = kind
        /\ sub' \in BOOLEAN /\ refining' \in BOOLEAN
        /\ mark' \subseteq Instructions /\ seen' \subseteq Instructions
        /\ hardStopFailed' \in BOOLEAN
    BY <1>24 DEF RefineSucceeds, RefineEnds
  <2>3. iter' = iter /\ subIter' \in 0 .. InnerBound' - 1
    BY <1>0, <1>24 DEF RefineSucceeds, RefineEnds
  <2>4. /\ loopId' \in Ids \cup {NoId} /\ polls' \in 0 .. MaxPolls - 1
        /\ got' \in DecisionSet
        /\ leaderStop' \in BOOLEAN /\ subStop' \in BOOLEAN
    BY <1>0, <1>24 DEF RefineSucceeds, RefineEnds
  <2>5. TypeOK'
    BY <2>1, <2>2, <2>3, <2>4
  <2>6. IdInv'
    BY <1>24, <2>1 DEF RefineSucceeds, RefineEnds
  <2>. QED  BY <2>1, <2>5, <2>6, OwedStutter
<1>25. CASE RollBack
  <2>1. UNCHANGED <<signals, queue, menu, callers, history>>
    BY <1>25 DEF RollBack, RefineEnds
  <2>2. /\ at' \in RoundPoints /\ kind' = kind
        /\ sub' \in BOOLEAN /\ refining' \in BOOLEAN
        /\ mark' \subseteq Instructions /\ seen' \subseteq Instructions
        /\ hardStopFailed' \in BOOLEAN
    BY <1>25 DEF RollBack, RefineEnds
  <2>3. iter' = iter /\ subIter' \in 0 .. InnerBound' - 1
    BY <1>0, <1>25 DEF RollBack, RefineEnds
  <2>4. /\ loopId' \in Ids \cup {NoId} /\ polls' \in 0 .. MaxPolls - 1
        /\ got' \in DecisionSet
        /\ leaderStop' \in BOOLEAN /\ subStop' \in BOOLEAN
    BY <1>0, <1>25 DEF RollBack, RefineEnds
  <2>5. TypeOK'
    BY <2>1, <2>2, <2>3, <2>4
  <2>6. IdInv'
    BY <1>25, <2>1 DEF RollBack, RefineEnds
  <2>. QED  BY <2>1, <2>5, <2>6, OwedStutter
<1>26. CASE RefineTimesOut
  BY <1>0, <1>a, DecisionTypes, OwedStutter, <1>26 DEF RefineTimesOut, Suspended
<1>27. CASE CommandTimesOut
  <2>1. UNCHANGED <<signals, queue, menu, callers, history>>
    BY <1>27 DEF CommandTimesOut, Suspended
  <2>2. /\ at' \in RoundPoints /\ kind' = kind
        /\ sub' \in BOOLEAN /\ refining' \in BOOLEAN
        /\ mark' \subseteq Instructions /\ seen' \subseteq Instructions
        /\ hardStopFailed' \in BOOLEAN
    BY <1>27 DEF CommandTimesOut, Suspended
  <2>3. iter' = iter /\ subIter' \in 0 .. InnerBound' - 1
    BY <1>0, <1>27 DEF CommandTimesOut, Suspended
  <2>4. /\ loopId' \in Ids \cup {NoId} /\ polls' \in 0 .. MaxPolls - 1
        /\ got' \in DecisionSet
        /\ leaderStop' \in BOOLEAN /\ subStop' \in BOOLEAN
    BY <1>0, <1>27 DEF CommandTimesOut, Suspended
  <2>5. TypeOK'
    BY <2>1, <2>2, <2>3, <2>4
  <2>6. IdInv'
    BY <1>27, <2>1 DEF CommandTimesOut, Suspended
  <2>. QED  BY <2>1, <2>5, <2>6, OwedStutter
<1>. QED  BY <1>1, <1>2, <1>3, <1>4, <1>5, <1>6, <1>7, <1>8, <1>9, <1>10,
          <1>11, <1>12, <1>13, <1>14, <1>15, <1>16, <1>17, <1>18, <1>19,
          <1>20, <1>21, <1>22, <1>23, <1>24, <1>25, <1>26, <1>27
     DEF LoopStep, WaitStep, RefineStep

\* The loop runs no tool after a Terminate, and lowers an old flag first.
LEMMA LoopControl ==
  ASSUME IInv, LoopStep \/ \E k \in {"fresh", "retry", "refine"} : StartRound(k)
  PROVE  TerminateInv' /\ FlagInv' /\ NestInv'
<1> USE DEF IInv, TypeOK, TerminateInv, FlagInv, OldPauseIgnored, NestInv,
    signals, loop, run, wait, counters, stops, history, RoundPoints,
    RunningPoints, LoopPoints, WaitPoints
<1>1. CASE \E k \in {"fresh", "retry", "refine"} : StartRound(k)
  BY <1>1 DEF StartRound, Step
<1>2. CASE Prepare
  BY <1>2 DEF Prepare, EnterLoop, Step
<1>3. CASE CheckTop
  BY <1>3 DEF CheckTop, Step, Leave
<1>4. CASE PauseCheck
  BY <1>4 DEF PauseCheck, Step, AfterPause
<1>5. CASE Ask
  BY <1>5 DEF Ask, Step
<1>6. CASE Peek
  BY <1>6 DEF Peek
<1>7. CASE Emit
  BY <1>7 DEF Emit, Step
<1>8. CASE WaitCancel
  BY <1>8 DEF WaitCancel, Step
<1>9. CASE TakeDecision
  BY <1>9 DEF TakeDecision, Step
<1>10. CASE PollAgain
  BY <1>10 DEF PollAgain
<1>11. CASE ActContinue
  BY <1>11 DEF ActContinue, Lower, Step, AfterPause
<1>12. CASE ActAppend
  BY <1>12 DEF ActAppend, Lower, Step, AfterPause
<1>13. CASE ActTerminate
  BY <1>13 DEF ActTerminate, Lower, Step, AfterPause
<1>14. CASE LlmLeave
  BY <1>14 DEF LlmLeave, Step, Leave
<1>15. CASE LlmAgain
  BY <1>15 DEF LlmAgain, NextIteration, Leave
<1>16. CASE LlmCalls
  BY <1>16 DEF LlmCalls, Step, Leave
<1>17. CASE LeaderTool
  BY <1>17 DEF LeaderTool, NextIteration, Leave
<1>18. CASE SubTaskTool
  BY <1>18 DEF SubTaskTool, NextIteration, Leave
<1>19. CASE Dispatch
  BY <1>19 DEF Dispatch, Step
<1>20. CASE SubTaskReturns
  BY <1>20 DEF SubTaskReturns, LeaveSubTask
<1>21. CASE EndRound
  BY <1>21 DEF EndRound, Step
<1>22. CASE WithinBudget
  BY <1>22 DEF WithinBudget, Step
<1>23. CASE RefineBegin
  BY <1>23 DEF RefineBegin, Step
<1>24. CASE RefineSucceeds
  BY <1>24 DEF RefineSucceeds, RefineEnds
<1>25. CASE RollBack
  BY <1>25 DEF RollBack, RefineEnds
<1>26. CASE RefineTimesOut
  BY <1>26 DEF RefineTimesOut, Suspended
<1>27. CASE CommandTimesOut
  BY <1>27 DEF CommandTimesOut, Suspended
<1>. QED  BY <1>1, <1>2, <1>3, <1>4, <1>5, <1>6, <1>7, <1>8, <1>9, <1>10,
          <1>11, <1>12, <1>13, <1>14, <1>15, <1>16, <1>17, <1>18, <1>19,
          <1>20, <1>21, <1>22, <1>23, <1>24, <1>25, <1>26, <1>27
     DEF LoopStep, WaitStep, RefineStep

LEMMA NextIInv == IInv /\ [Next]_vars => IInv'
<1> SUFFICES ASSUME IInv, [Next]_vars PROVE IInv'
  OBVIOUS
<1>1. ASSUME NEW c \in Callers, Call(c) \/ CallStep(c) PROVE IInv'
  BY <1>1, CommandStep
<1>2. CASE LoopStep \/ \E k \in {"fresh", "retry", "refine"} : StartRound(k)
  BY <1>2, LoopTypes, LoopControl DEF IInv
<1>3. CASE UNCHANGED vars
  <2>1. UNCHANGED <<signals, queue, menu, callers, loop, history>>
    BY <1>3 DEF vars
  <2>2. TypeOK' /\ IdInv'
    BY <2>1 DEF IInv, TypeOK, IdInv, InnerBound, signals, callers, loop, run,
       wait, counters, stops, history
  <2>3. OwedInv' /\ TerminateInv'
    BY <2>1 DEF IInv, OwedInv, TerminateInv, signals, loop, run, stops, history
  <2>4. FlagInv' /\ NestInv'
    BY <2>1 DEF IInv, FlagInv, OldPauseIgnored, NestInv, signals, loop, run, history
  <2>. QED  BY <2>2, <2>3, <2>4 DEF IInv
<1>. QED  BY <1>1, <1>2, <1>3 DEF Next

LEMMA Invariance == Spec => []IInv
BY InitIInv, NextIInv, PTL DEF Spec

\* The types hold, for any number of commands, ids and polls.
THEOREM TypeCorrect == Spec => []TypeOK
<1>1. IInv => TypeOK
  BY DEF IInv
<1>. QED  BY <1>1, Invariance, PTL

\* A new round or a refine never waits for a pause that was asked for before
\* it began (process.rs and refine.rs lower the flag, retry.rs does not).
THEOREM OldPausesAreIgnored == Spec => []OldPauseIgnored
<1>1. IInv => OldPauseIgnored
  BY DEF IInv, FlagInv
<1>. QED  BY <1>1, Invariance, PTL

\* No wait is let through by an answer given for another pause or used before
\* (take_pause_decision removes what it returns).
THEOREM EveryAnswerWasGiven == Spec => EveryAnswerGiven
<1>1. IInv /\ [Next]_vars => [AnswerStep]_vars
  <2> SUFFICES ASSUME IInv, [Next]_vars PROVE [AnswerStep]_vars
    OBVIOUS
  <2>1. CASE UNCHANGED vars
    BY <2>1
  <2>2. ASSUME NEW c \in Callers, Call(c) \/ CallStep(c) PROVE AnswerStep
    BY <2>2, CommandLeavesLoop DEF AnswerStep, loop, run
  <2>3. CASE TakeDecision
    <3>1. at = "wait" /\ decisions[loopId] # None
      BY <2>3 DEF TakeDecision, Step
    <3>. QED  BY <3>1 DEF IInv, IdInv, OwedInv, AnswerStep
  <2>4. CASE PollAgain
    <3>1. at' = "lower" => ~(polls + 1 < MaxPolls)
      BY <2>4 DEF PollAgain
    <3>2. polls \in 0 .. MaxPolls - 1 /\ MaxPolls \in Nat
      BY BoundsAssumption DEF IInv, TypeOK
    <3>. QED  BY <3>1, <3>2 DEF AnswerStep
  <2>5. CASE WaitCancel
    BY <2>5 DEF WaitCancel, AnswerStep
  <2>6. CASE /\ LoopStep \/ \E k \in {"fresh", "retry", "refine"} : StartRound(k)
             /\ ~(TakeDecision \/ PollAgain \/ WaitCancel)
    BY <2>6 DEF LoopStep, WaitStep, AnswerStep, Step, StartRound, Prepare,
       EnterLoop, CheckTop, PauseCheck, Ask, Peek, Emit, ActContinue, ActAppend,
       ActTerminate, Lower, LlmLeave, LlmAgain, LlmCalls, LeaderTool,
       SubTaskTool, Dispatch, SubTaskReturns, LeaveSubTask, EndRound,
       NextIteration, Leave, AfterPause,
       RefineStep, WithinBudget, RefineBegin, RefineEnds, RefineSucceeds, RollBack,
       RefineTimesOut, CommandTimesOut
  <2>. QED  BY <2>1, <2>2, <2>3, <2>4, <2>5, <2>6 DEF Next
<1>2. Spec => [][AnswerStep]_vars
  BY <1>1, Invariance, PTL DEF Spec
<1>. QED  BY <1>2 DEF EveryAnswerGiven, AnswerStep

\* After a Terminate, in the leader or in a sub-task, the round calls no tool
\* (leader_should_stop, user_terminated and the cancel flag of dispatch.rs).
THEOREM TerminateStopsTools == Spec => NoToolsAfterTerminate
<1>1. IInv /\ [Next]_vars => [ToolStep]_vars
  <2> SUFFICES ASSUME IInv, [Next]_vars, ~UNCHANGED vars, terminated,
                      at # "tools"
               PROVE  at' # "tools"
    BY DEF ToolStep
  <2>1. terminated' => at' # "tools"
    BY NextIInv DEF IInv, TerminateInv
  <2>2. CASE terminated'
    BY <2>1, <2>2
  <2>3. CASE ~terminated'
    <3>1. ASSUME NEW c \in Callers, Call(c) \/ CallStep(c) PROVE FALSE
      BY <2>3, <3>1, CommandLeavesLoop
    <3>2. EndRound
      BY <2>3, <3>1 DEF Next, LoopStep, WaitStep, history, StartRound, Prepare,
         CheckTop, PauseCheck, Ask, Peek, Emit, WaitCancel, TakeDecision,
         PollAgain, ActContinue, ActAppend, ActTerminate, LlmLeave, LlmAgain,
         LlmCalls, LeaderTool, SubTaskTool, Dispatch, SubTaskReturns,
         LeaveSubTask, RefineStep, WithinBudget, RefineBegin, RefineEnds,
         RefineSucceeds, RollBack, RefineTimesOut, CommandTimesOut
    <3>. QED  BY <3>2 DEF EndRound, Step
  <2>. QED  BY <2>2, <2>3
<1>2. Spec => [][ToolStep]_vars
  BY <1>1, Invariance, PTL DEF Spec
<1>. QED  BY <1>2 DEF NoToolsAfterTerminate, ToolStep

\* What a command sends stays what it is.
LEMMA AppendStep ==
  ASSUME TypeOK, AppendInv, [Next]_vars
  PROVE  AppendInv'
<1> USE DEF TypeOK, AppendInv, None, Continue, Terminate, Decision
<1>1. CASE UNCHANGED callers
  BY <1>1 DEF callers
<1>2. ASSUME NEW c \in Callers, Call(c) PROVE AppendInv'
  BY <1>2 DEF Call, PauseBegin, StopBegin, InterruptBegin, ResetBegin,
     AnswerBegin, AppendBegin, MobileBegin, Enter
<1>3. ASSUME NEW c \in Callers, CallStep(c) PROVE AppendInv'
  BY <1>3 DEF CallStep, PauseRaise, PauseAnnounce, StopPreset, StopRaise,
     Answer,
     AppendFlag, AppendBusy, MobileFlag, MobileId, ResetFlag, ClearId, Go, Return
<1>4. LoopStep \/ (\E k \in {"fresh", "retry", "refine"} : StartRound(k))
        => UNCHANGED callers
  BY DEF LoopStep, WaitStep, StartRound, Prepare, CheckTop, PauseCheck, Ask,
     Peek,
     Emit, WaitCancel, TakeDecision, PollAgain, ActContinue, ActAppend,
     ActTerminate, Lower, LlmLeave, LlmAgain, LlmCalls, LeaderTool, SubTaskTool,
     Dispatch, SubTaskReturns, LeaveSubTask, EndRound, callers,
     RefineStep, WithinBudget, RefineBegin, RefineEnds, RefineSucceeds, RollBack,
     RefineTimesOut, CommandTimesOut
<1>5. UNCHANGED vars => UNCHANGED callers
  BY DEF vars
<1>. QED  BY <1>1, <1>2, <1>3, <1>4, <1>5 DEF Next

\* A command does not disturb a graceful stop unless it says so.
LEMMA SoloCommandStep ==
  ASSUME IInv, AppendInv, SoloInv, NEW c \in Callers, Call(c) \/ CallStep(c)
  PROVE  SoloInv'
<1> SUFFICES ASSUME soloStop' PROVE SoloIds' /\ SoloCommand' /\ SoloWait'
  BY DEF SoloInv
<1> USE NoIdAssumption
    DEF IInv, TypeOK, IdInv, SoloIds, SoloCommand, SoloWait, Stopping,
       LoopPoints,
    WaitPoints, RequestPoints
<1>1. CASE PauseBegin(c)
  BY <1>1 DEF PauseBegin
<1>2. CASE StopBegin(c)
  <2>1. PICK i \in Ids : NewId(i) /\ Enter(c, "preset", i, Terminate) /\ pauseId' = i
    BY <1>2 DEF StopBegin
  <2>2. Undisturbed(c)
    BY <1>2 DEF StopBegin
  <2>3. i # menu /\ \A d \in Callers : cid[d] # i
    BY <2>1 DEF NewId, InUse
  <2>4. UNCHANGED <<at, pauseFlag, menu>>
    BY <1>2 DEF StopBegin, loop
  <2>5. SoloIds'
    BY <2>1, <2>2, <2>3, <2>4 DEF Enter, Undisturbed
  <2>6. SoloCommand' /\ SoloWait'
    BY <2>1, <2>2, <2>4 DEF Enter, Undisturbed
  <2>. QED  BY <2>5, <2>6
<1>3. CASE InterruptBegin(c)
  BY <1>3 DEF InterruptBegin
<1>4. CASE ResetBegin(c)
  BY <1>4 DEF ResetBegin
<1>5. CASE AnswerBegin(c, Continue)
  <2>1. soloStop
    BY <1>5 DEF AnswerBegin, history
  <2>2. SoloIds /\ SoloCommand /\ SoloWait
    BY <2>1 DEF SoloInv
  <2>3. SoloIds'
    BY <1>5, <2>1, <2>2 DEF AnswerBegin, Enter, signals, callers, loop,
       wait, history
  <2>4. SoloCommand' /\ SoloWait'
    BY <1>5, <2>1, <2>2 DEF AnswerBegin, Enter, signals, callers, loop,
       wait, history
  <2>. QED  BY <2>3, <2>4
<1>6. CASE AnswerBegin(c, Terminate)
  <2>1. soloStop
    BY <1>6 DEF AnswerBegin, history
  <2>2. SoloIds /\ SoloCommand /\ SoloWait
    BY <2>1 DEF SoloInv
  <2>3. SoloIds'
    BY <1>6, <2>1, <2>2 DEF AnswerBegin, Enter, signals, callers, loop,
       wait, history
  <2>4. SoloCommand' /\ SoloWait'
    BY <1>6, <2>1, <2>2 DEF AnswerBegin, Enter, signals, callers, loop,
       wait, history
  <2>. QED  BY <2>3, <2>4
<1>7. CASE \E t \in Instructions : AppendBegin(c, t)
  <2>1. soloStop
    BY <1>7 DEF AppendBegin, history
  <2>2. SoloIds /\ SoloCommand /\ SoloWait
    BY <2>1 DEF SoloInv
  <2>3. SoloIds'
    BY <1>7, <2>1, <2>2 DEF AppendBegin, Enter, signals, callers, loop,
       wait, history
  <2>4. SoloCommand' /\ SoloWait'
    BY <1>7, <2>1, <2>2 DEF AppendBegin, Enter, signals, callers, loop,
       wait, history
  <2>. QED  BY <2>3, <2>4
<1>8. CASE \E t \in Instructions : MobileBegin(c, t)
  <2>1. soloStop
    BY <1>8 DEF MobileBegin, history
  <2>2. SoloIds /\ SoloCommand /\ SoloWait
    BY <2>1 DEF SoloInv
  <2>3. SoloIds'
    BY <1>8, <2>1, <2>2 DEF MobileBegin, Enter, signals, callers, loop,
       wait, history
  <2>4. SoloCommand' /\ SoloWait'
    BY <1>8, <2>1, <2>2 DEF MobileBegin, Enter, signals, callers, loop,
       wait, history
  <2>. QED  BY <2>3, <2>4
<1>9. CASE PauseRaise(c)
  <2>1. soloStop
    BY <1>9 DEF PauseRaise, history, RaiseFlag
  <2>2. SoloIds /\ SoloCommand /\ SoloWait
    BY <2>1 DEF SoloInv
  <2>3. SoloIds'
    BY <1>9, <2>1, <2>2 DEF PauseRaise, RaiseFlag, Go, signals, callers,
       loop, wait, history
  <2>4. SoloCommand' /\ SoloWait'
    BY <1>9, <2>1, <2>2 DEF PauseRaise, RaiseFlag, Go, signals, callers,
       loop, wait, history
  <2>. QED  BY <2>3, <2>4
<1>10. CASE PauseAnnounce(c)
  <2>1. soloStop
    BY <1>10 DEF PauseAnnounce, history
  <2>2. SoloIds /\ SoloCommand /\ SoloWait
    BY <2>1 DEF SoloInv
  <2>3. SoloIds'
    BY <1>10, <2>1, <2>2 DEF PauseAnnounce, Return, signals, callers, loop,
       wait, history
  <2>4. SoloCommand' /\ SoloWait'
    BY <1>10, <2>1, <2>2 DEF PauseAnnounce, Return, signals, callers, loop,
       wait, history
  <2>. QED  BY <2>3, <2>4
<1>11. CASE StopPreset(c)
  <2>1. soloStop /\ UNCHANGED <<pauseId, menu, pauseFlag, at, loopId, got>>
    BY <1>11 DEF StopPreset, loop, wait
  <2>2. SoloIds /\ SoloCommand /\ SoloWait
    BY <2>1 DEF SoloInv
  <2>3. SoloIds'
    BY <1>11, <2>1, <2>2 DEF StopPreset, Go
  <2>4. decisions[pauseId] = Terminate => decisions'[pauseId] = Terminate
    BY <1>11, <2>1, <2>2 DEF StopPreset, Go, SetDecision, Terminate, Decision
  <2>5. decisions'[pauseId] = Terminate
    <3>1. cid[c] = pauseId /\ cdec[c] = Terminate
      BY <1>11, <2>2 DEF StopPreset, Go
    <3>2. cdec[c].kind # "append"
      BY <3>1 DEF Terminate, Decision
    <3>3. decisions' = [decisions EXCEPT ![pauseId] = Terminate]
      BY <1>11, <3>1, <3>2 DEF StopPreset, SetDecision
    <3>. QED  BY <2>1, <2>2, <3>3
  <2>6. SoloCommand' /\ SoloWait'
    BY <1>11, <2>1, <2>2, <2>4, <2>5 DEF StopPreset, Go
  <2>. QED  BY <2>3, <2>6
<1>12. CASE StopRaise(c)
  <2>1. soloStop
    BY <1>12 DEF StopRaise, history, RaiseFlag
  <2>2. SoloIds /\ SoloCommand /\ SoloWait
    BY <2>1 DEF SoloInv
  <2>3. SoloIds'
    BY <1>12, <2>1, <2>2 DEF StopRaise, RaiseFlag, Return, signals, callers,
       loop, wait, history
  <2>4. SoloCommand' /\ SoloWait'
    BY <1>12, <2>1, <2>2 DEF StopRaise, RaiseFlag, Return, signals, callers,
       loop, wait, history
  <2>. QED  BY <2>3, <2>4
<1>13. CASE Answer(c)
  <2>1. soloStop /\ UNCHANGED <<pauseId, menu, pauseFlag, at, loopId, got>>
    BY <1>13 DEF Answer, loop, wait
  <2>2. SoloIds /\ SoloCommand /\ SoloWait
    BY <2>1 DEF SoloInv
  <2>3. SoloIds'
    BY <1>13, <2>1, <2>2 DEF Answer, Return
  <2>4. decisions[pauseId] = Terminate => decisions'[pauseId] = Terminate
    <3>1. CASE cid[c] = pauseId
      <4>1. pc[c] = "appendSet"
        BY <1>13, <2>2, <3>1 DEF Answer
      <4>2. cdec[c].kind = "append"
        BY <4>1 DEF AppendInv
      <4>. QED  BY <1>13, <2>1, <3>1, <4>2 DEF Answer, SetDecision, Terminate,
           Decision
    <3>2. CASE cid[c] # pauseId
      BY <1>13, <2>1, <3>2 DEF Answer, SetDecision
    <3>. QED  BY <3>1, <3>2
  <2>6. SoloCommand' /\ SoloWait'
    BY <1>13, <2>1, <2>2, <2>4 DEF Answer, Return
  <2>. QED  BY <2>3, <2>6
<1>14. CASE AppendFlag(c)
  <2>1. soloStop
    BY <1>14 DEF AppendFlag, history
  <2>2. SoloIds /\ SoloCommand /\ SoloWait
    BY <2>1 DEF SoloInv
  <2>3. SoloIds'
    BY <1>14, <2>1, <2>2 DEF AppendFlag, signals, callers, loop, wait, history
  <2>4. SoloCommand' /\ SoloWait'
    BY <1>14, <2>1, <2>2 DEF AppendFlag, signals, callers, loop, wait, history
  <2>. QED  BY <2>3, <2>4
<1>15. CASE AppendBusy(c)
  <2>1. soloStop
    BY <1>15 DEF AppendBusy, history
  <2>2. SoloIds /\ SoloCommand /\ SoloWait
    BY <2>1 DEF SoloInv
  <2>3. SoloIds'
    BY <1>15, <2>1, <2>2 DEF AppendBusy, Return, signals, callers, loop,
       wait, history
  <2>4. SoloCommand' /\ SoloWait'
    BY <1>15, <2>1, <2>2 DEF AppendBusy, Return, signals, callers, loop,
       wait, history
  <2>. QED  BY <2>3, <2>4
<1>16. CASE MobileFlag(c)
  <2>1. soloStop
    BY <1>16 DEF MobileFlag, history
  <2>2. SoloIds /\ SoloCommand /\ SoloWait
    BY <2>1 DEF SoloInv
  <2>3. SoloIds'
    BY <1>16, <2>1, <2>2 DEF MobileFlag, Go, Return, signals, callers, loop,
       wait, history
  <2>4. SoloCommand' /\ SoloWait'
    BY <1>16, <2>1, <2>2 DEF MobileFlag, Go, Return, signals, callers, loop,
       wait, history
  <2>. QED  BY <2>3, <2>4
<1>17. CASE MobileId(c)
  <2>1. soloStop
    BY <1>17 DEF MobileId, history
  <2>2. SoloIds /\ SoloCommand /\ SoloWait
    BY <2>1 DEF SoloInv
  <2>3. SoloIds'
    BY <1>17, <2>1, <2>2 DEF MobileId, Return, signals, callers, loop, wait,
       history
  <2>4. SoloCommand' /\ SoloWait'
    BY <1>17, <2>1, <2>2 DEF MobileId, Return, signals, callers, loop, wait,
       history
  <2>. QED  BY <2>3, <2>4
<1>18. CASE ResetFlag(c)
  <2>1. soloStop
    BY <1>18 DEF ResetFlag, history
  <2>2. SoloIds /\ SoloCommand /\ SoloWait
    BY <2>1 DEF SoloInv
  <2>3. SoloIds'
    BY <1>18, <2>1, <2>2 DEF ResetFlag, Go, signals, callers, loop, wait,
       history
  <2>4. SoloCommand' /\ SoloWait'
    BY <1>18, <2>1, <2>2 DEF ResetFlag, Go, signals, callers, loop, wait,
       history
  <2>. QED  BY <2>3, <2>4
<1>19. CASE ClearId(c)
  <2>1. soloStop
    BY <1>19 DEF ClearId, history
  <2>2. SoloIds /\ SoloCommand /\ SoloWait
    BY <2>1 DEF SoloInv
  <2>3. SoloIds'
    BY <1>19, <2>1, <2>2 DEF ClearId, Return, signals, callers, loop, wait,
       history
  <2>4. SoloCommand' /\ SoloWait'
    BY <1>19, <2>1, <2>2 DEF ClearId, Return, signals, callers, loop, wait,
       history
  <2>. QED  BY <2>3, <2>4
<1>. QED  BY <1>1, <1>2, <1>3, <1>4, <1>5, <1>6, <1>7, <1>8, <1>9, <1>10,
          <1>11, <1>12, <1>13, <1>14, <1>15, <1>16, <1>17, <1>18, <1>19
     DEF Call, CallStep

\* Nor does the loop: it obeys it.
LEMMA SoloLoopStep ==
  ASSUME IInv, AppendInv, SoloInv,
         LoopStep \/ \E k \in {"fresh", "retry", "refine"} : StartRound(k)
  PROVE  SoloInv'
<1> SUFFICES ASSUME soloStop' PROVE SoloIds' /\ SoloCommand' /\ SoloWait'
  BY DEF SoloInv
<1> USE NoIdAssumption
    DEF IInv, TypeOK, IdInv, SoloIds, SoloCommand, SoloWait, Stopping,
       LoopPoints,
    WaitPoints, RequestPoints, signals, callers, loop, run, wait, history
<1>0. soloStop => SoloIds /\ SoloCommand /\ SoloWait
  BY DEF SoloInv
<1>1. CASE \E k \in {"fresh", "retry", "refine"} : StartRound(k)
  BY <1>0, <1>1 DEF StartRound, Step
<1>2. CASE Prepare
  BY <1>0, <1>2 DEF Prepare, EnterLoop, Step
<1>3. CASE CheckTop
  BY <1>0, <1>3 DEF CheckTop, Step, Leave
<1>4. CASE PauseCheck
  BY <1>0, <1>4 DEF PauseCheck, Step, AfterPause
<1>5. CASE Ask
  BY <1>0, <1>5 DEF Ask, Step
<1>6. CASE Peek
  BY <1>0, <1>6 DEF Peek, None, Terminate, Decision
<1>7. CASE Emit
  BY <1>0, <1>7 DEF Emit, Step
<1>8. CASE WaitCancel
  BY <1>0, <1>8 DEF WaitCancel, Step
<1>9. CASE TakeDecision
  BY <1>0, <1>9 DEF TakeDecision, Step
<1>10. CASE PollAgain
  BY <1>0, <1>10 DEF PollAgain, None, Terminate, Decision
<1>11. CASE ActContinue
  BY <1>0, <1>11 DEF ActContinue, Lower, Step, AfterPause, None, Terminate, Decision
<1>12. CASE ActAppend
  BY <1>0, <1>12 DEF ActAppend, Lower, Step, AfterPause, None, Terminate, Decision
<1>13. CASE ActTerminate
  BY <1>0, <1>13 DEF ActTerminate, Lower, Step, AfterPause, None, Terminate, Decision
<1>14. CASE LlmLeave
  BY <1>0, <1>14 DEF LlmLeave, Step, Leave
<1>15. CASE LlmAgain
  BY <1>0, <1>15 DEF LlmAgain, NextIteration, Leave
<1>16. CASE LlmCalls
  BY <1>0, <1>16 DEF LlmCalls, Step, Leave
<1>17. CASE LeaderTool
  BY <1>0, <1>17 DEF LeaderTool, NextIteration, Leave
<1>18. CASE SubTaskTool
  BY <1>0, <1>18 DEF SubTaskTool, NextIteration, Leave
<1>19. CASE Dispatch
  BY <1>0, <1>19 DEF Dispatch, Step
<1>20. CASE SubTaskReturns
  BY <1>0, <1>20 DEF SubTaskReturns, LeaveSubTask
<1>21. CASE EndRound
  BY <1>0, <1>21 DEF EndRound, Step
<1>22. CASE WithinBudget
  BY <1>0, <1>22 DEF WithinBudget, Step
<1>23. CASE RefineBegin
  BY <1>0, <1>23 DEF RefineBegin, Step
<1>24. CASE RefineSucceeds
  BY <1>0, <1>24 DEF RefineSucceeds, RefineEnds
<1>25. CASE RollBack
  BY <1>0, <1>25 DEF RollBack, RefineEnds
<1>26. CASE RefineTimesOut
  BY <1>0, <1>26 DEF RefineTimesOut, Suspended
<1>27. CASE CommandTimesOut
  BY <1>0, <1>27 DEF CommandTimesOut, Suspended
<1>. QED  BY <1>1, <1>2, <1>3, <1>4, <1>5, <1>6, <1>7, <1>8, <1>9, <1>10,
          <1>11, <1>12, <1>13, <1>14, <1>15, <1>16, <1>17, <1>18, <1>19,
          <1>20, <1>21, <1>22, <1>23, <1>24, <1>25, <1>26, <1>27
     DEF LoopStep, WaitStep, RefineStep

LEMMA SoloInvariance == Spec => [](IInv /\ AppendInv /\ SoloInv)
<1>1. Init => AppendInv /\ SoloInv
  BY DEF Init, AppendInv, SoloInv
<1>2. IInv /\ AppendInv /\ SoloInv /\ [Next]_vars => SoloInv'
  <2> SUFFICES ASSUME IInv, AppendInv, SoloInv, [Next]_vars PROVE SoloInv'
    OBVIOUS
  <2>1. ASSUME NEW c \in Callers, Call(c) \/ CallStep(c) PROVE SoloInv'
    BY <2>1, SoloCommandStep
  <2>2. CASE LoopStep \/ \E k \in {"fresh", "retry", "refine"} : StartRound(k)
    BY <2>2, SoloLoopStep
  <2>3. CASE UNCHANGED vars
    BY <2>3 DEF vars, SoloInv, SoloIds, SoloCommand, SoloWait, Stopping,
       signals,
       callers, loop, run, wait, history
  <2>. QED  BY <2>1, <2>2, <2>3 DEF Next
<1>3. IInv /\ AppendInv /\ [Next]_vars => AppendInv'
  BY AppendStep DEF IInv
<1>. QED  BY InitIInv, NextIInv, <1>1, <1>2, <1>3, PTL DEF Spec

\* A graceful stop that nothing disturbs is obeyed when its flag is lowered:
\* graceful_stop writes the decision before it raises the flag, and a phone's
\* append for the same id cannot replace it.
THEOREM GracefulStopIsObeyed == Spec => []SoloStopObeyed
<1>1. SoloInv => SoloStopObeyed
  BY DEF SoloInv, SoloWait, SoloStopObeyed
<1>. QED  BY <1>1, SoloInvariance, PTL

\* And no menu ever shows its id, because the loop finds the decision there.
THEOREM GracefulStopIsSilent == Spec => []SoloStopSilent
<1>1. SoloInv => SoloStopSilent
  BY DEF SoloInv, SoloIds, SoloStopSilent
<1>. QED  BY <1>1, SoloInvariance, PTL
-----------------------------------------------------------------------------
\* A text that a pause of this round took from the user is in the conversation or
\* waits in the queue for the next drain: no decision, second pause, sub-task or
\* cancel loses it on the way, or gives it to a later round.  Only a refine inside
\* the round that failed may: it cuts off again what it had drained.
PausedAppendKept == hardStopFailed \/ taken \subseteq seen \cup queue

\* Before its loop is entered, a round has taken nothing yet.
FreshInv == at \in {"idle", "prepare"} => taken = {}

LEMMA KeptStep ==
  ASSUME PausedAppendKept, FreshInv, LoopStep
  PROVE  PausedAppendKept' /\ FreshInv'
<1> USE DEF PausedAppendKept, FreshInv, history, loop, run, wait, counters, stops
<1>1. CASE Prepare
  BY <1>1 DEF Prepare, EnterLoop, Step
<1>2. CASE CheckTop
  BY <1>2 DEF CheckTop, Step, Leave
<1>3. CASE PauseCheck \/ Ask \/ Peek \/ Emit \/ WaitCancel \/ TakeDecision
           \/ PollAgain
  BY <1>3 DEF PauseCheck, Ask, Peek, Emit, WaitCancel, TakeDecision, PollAgain,
              Step, AfterPause
<1>4. CASE ActContinue \/ ActTerminate
  BY <1>4 DEF ActContinue, ActTerminate, Lower, Step, AfterPause
<1>5. CASE ActAppend
  BY <1>5 DEF ActAppend, Lower, Step, AfterPause
<1>6. CASE LlmLeave \/ LlmAgain \/ LlmCalls
  BY <1>6 DEF LlmLeave, LlmAgain, LlmCalls, NextIteration, Step, Leave
<1>7. CASE LeaderTool \/ SubTaskTool \/ Dispatch
  BY <1>7 DEF LeaderTool, SubTaskTool, Dispatch, NextIteration, Step, Leave
<1>8. CASE SubTaskReturns
  BY <1>8 DEF SubTaskReturns, LeaveSubTask
<1>9. CASE EndRound
  BY <1>9 DEF EndRound, Step
<1>10. CASE RefineStep
  BY <1>10 DEF RefineStep, WithinBudget, RefineBegin, RefineEnds, RefineSucceeds,
     RollBack, RefineTimesOut, CommandTimesOut, Step
<1>. QED  BY <1>1, <1>2, <1>3, <1>4, <1>5, <1>6, <1>7, <1>8, <1>9, <1>10
          DEF LoopStep, WaitStep

\* What a pause takes from the user is not lost while its round runs, unless the
\* round had to roll a refine back: where the run pause_append shows a round that
\* closes without having injected it, the text is still in the queue, put there
\* after the round's last drain.
THEOREM PausedAppendIsKept == Spec => []PausedAppendKept
<1>1. Init => PausedAppendKept /\ FreshInv
  BY DEF Init, PausedAppendKept, FreshInv
<1>2. PausedAppendKept /\ FreshInv /\ [Next]_vars => PausedAppendKept' /\ FreshInv'
  <2> SUFFICES ASSUME PausedAppendKept, FreshInv, [Next]_vars
               PROVE  PausedAppendKept' /\ FreshInv'
    OBVIOUS
  <2>1. ASSUME NEW c \in Callers, Call(c) \/ CallStep(c)
        PROVE  PausedAppendKept' /\ FreshInv'
    <3>1. UNCHANGED <<at, hardStopFailed, seen, taken>> /\ queue \subseteq queue'
      BY <2>1 DEF Call, CallStep, PauseBegin, StopBegin, InterruptBegin,
           ResetBegin, AnswerBegin, AppendBegin, MobileBegin, PauseRaise,
           PauseAnnounce, StopPreset, StopRaise, Answer, AppendFlag, AppendBusy,
           MobileFlag, MobileId, ResetFlag, ClearId, RaiseFlag, loop, run, history
    <3>. QED  BY <3>1 DEF PausedAppendKept, FreshInv
  <2>2. CASE \E k \in {"fresh", "retry", "refine"} : StartRound(k)
    BY <2>2 DEF StartRound, Step, history, PausedAppendKept, FreshInv
  <2>3. CASE UNCHANGED vars
    BY <2>3 DEF vars, loop, run, history, PausedAppendKept, FreshInv
  <2>. QED  BY <2>1, <2>2, <2>3, KeptStep DEF Next
<1>. QED  BY <1>1, <1>2, PTL DEF Spec
-----------------------------------------------------------------------------
\* Within one iteration the leader comes to its pause check and its budget, then
\* perhaps a refine, then the model and its tools, then perhaps a sub-task.
Phase == IF sub THEN 3
         ELSE IF refining THEN 1
         ELSE IF at \in {"llm", "tools"} THEN 2 ELSE 0

\* Where a loop is within one iteration.
Place == [p \in LoopPoints |->
            CASE p = "check"    -> 0
              [] p = "pause"    -> 1
              [] p = "ask"      -> 2
              [] p = "peek"     -> 3
              [] p = "emit"     -> 4
              [] p = "wait"     -> 5
              [] p = "lower"    -> 6
              [] p = "budget"   -> 7
              [] p = "llm"      -> 8
              [] p = "tools"    -> 9
              [] p = "return"   -> 10
              [] p = "rollback" -> 11]

\* A loop gets further within its iteration, or its wait has one poll less.
GetsFurther == /\ at' \in LoopPoints
               /\ \/ Place[at'] > Place[at]
                  \/ at = "wait" /\ at' = "wait" /\ polls' > polls

\* The loop goes on: it closes, or the leader's iteration counts up, or enters its
\* next phase, or the inner loop counts up, or the loop gets further.
Advances ==
  \/ at' = "closing"
  \/ iter' > iter
  \/ iter' = iter /\ Phase' > Phase
  \/ iter' = iter /\ Phase' = Phase /\ subIter' > subIter
  \/ iter' = iter /\ Phase' = Phase /\ subIter' = subIter /\ GetsFurther

StandsStill == UNCHANGED <<at, sub, refining, counters, polls>>

\* The loop is never set back: five counters, each of them bounded, compared one
\* after the other.
LoopAdvances == [][(at \in LoopPoints) => (Advances \/ StandsStill)]_vars

\* No series of pauses, answers, appended texts and interrupts keeps a round
\* where it is or sends it back: what a command does leaves the loop's place
\* alone, and every step of the loop, the polls of a wait and the refine inside an
\* iteration included, uses up something that is bounded (a wait of react_loop.rs
\* has at most MaxPolls polls).
THEOREM PausesCannotHoldTheLoop == Spec => LoopAdvances
<1>1. ASSUME TypeOK, NestInv, LoopStep, at \in LoopPoints
      PROVE  Advances \/ StandsStill
  <2> USE <1>1, BoundsAssumption
      DEF TypeOK, NestInv, Advances, Phase, GetsFurther, StandsStill, Place,
          counters, run, LoopPoints, WaitPoints
  <2>1. CASE Prepare \/ EndRound
    BY <2>1 DEF Prepare, EnterLoop, EndRound, Step
  <2>2. CASE CheckTop
    BY <2>2 DEF CheckTop, Step, Leave
  <2>3. CASE PauseCheck
    BY <2>3 DEF PauseCheck, AfterPause, Step, wait
  <2>4. CASE Ask \/ Peek \/ Emit
    BY <2>4 DEF Ask, Peek, Emit, Step, wait
  <2>5. CASE WaitCancel \/ TakeDecision
    BY <2>5 DEF WaitCancel, TakeDecision, Step
  <2>6. CASE PollAgain
    BY <2>6 DEF PollAgain
  <2>7. CASE ActContinue \/ ActAppend \/ ActTerminate
    BY <2>7 DEF ActContinue, ActAppend, ActTerminate, Lower, AfterPause, Step
  <2>8. CASE WithinBudget \/ RefineBegin
    BY <2>8 DEF WithinBudget, RefineBegin, Step
  <2>9. CASE RefineSucceeds \/ RollBack
    BY <2>9 DEF RefineSucceeds, RollBack, RefineEnds
  <2>10. CASE RefineTimesOut \/ CommandTimesOut
    BY <2>10 DEF RefineTimesOut, CommandTimesOut, Suspended
  <2>11. CASE LlmLeave \/ LlmCalls
    BY <2>11 DEF LlmLeave, LlmCalls, Step, Leave
  <2>12. CASE LlmAgain
    BY <2>12 DEF LlmAgain, NextIteration, Leave
  <2>13. CASE LeaderTool \/ SubTaskTool
    BY <2>13 DEF LeaderTool, SubTaskTool, NextIteration, Leave
  <2>14. CASE Dispatch
    BY <2>14 DEF Dispatch, Step
  <2>15. CASE SubTaskReturns
    <3>1. at' = "closing" \/ iter' = iter + 1
      BY <2>15 DEF SubTaskReturns, LeaveSubTask
    <3>2. iter \in Nat
      OBVIOUS
    <3>. QED  BY <3>1, <3>2
  <2>. QED  BY <2>1, <2>2, <2>3, <2>4, <2>5, <2>6, <2>7, <2>8, <2>9, <2>10,
               <2>11, <2>12, <2>13, <2>14, <2>15
            DEF LoopStep, WaitStep, RefineStep
<1>2. ASSUME NEW c \in Callers, Call(c) \/ CallStep(c)
      PROVE  StandsStill
  BY <1>2, CommandLeavesLoop DEF StandsStill, loop, run, wait
<1>3. ASSUME NEW k \in {"fresh", "retry", "refine"}, StartRound(k)
      PROVE  at \notin LoopPoints
  BY <1>3 DEF StartRound, Step, LoopPoints, WaitPoints
<1>4. IInv /\ [Next]_vars => [(at \in LoopPoints) => (Advances \/ StandsStill)]_vars
  BY <1>1, <1>2, <1>3 DEF IInv, Next
<1>. QED  BY <1>4, Invariance, PTL DEF Spec, LoopAdvances
=============================================================================
