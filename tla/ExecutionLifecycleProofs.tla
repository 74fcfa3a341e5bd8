---------------------- MODULE ExecutionLifecycleProofs ----------------------
(***************************************************************************)
(* Proofs about ExecutionLifecycle, for any number of invocations,         *)
(* messages and wakes and any bound of the loop.                           *)
(*                                                                         *)
(* The inductive invariant has four parts.  TypeOK and CommandInv say what *)
(* the variables hold and which commands reach which points.  ControlInv   *)
(* says who owns the gate, the body and the stage.  RefineFlagHonest and   *)
(* ResetInv are about refine_active and the waiting resets.                *)
(*                                                                         *)
(* On it rest two more arguments.  A rank that every step of a body lowers *)
(* gives BodiesDescend.  Who will still empty the queue, or the list of    *)
(* wakes, gives the two theorems on appends and wakes that are not lost.   *)
(***************************************************************************)
EXTENDS ExecutionLifecycle, SequenceTheorems, TLAPS

\* Which commands reach which points, and what their message is there.
CommandInv ==
  \A a \in Actors :
    /\ cmd[a] = "wake" => msg[a] \in WakeTexts
    /\ cmd[a] \in {"desktop", "mobile", "append"} => msg[a] \in Messages
    /\ pc[a] \in {"replayCheck", "wakeLoad", "deferLoad", "deferPush"}
         => cmd[a] = "wake"
    /\ pc[a] = "mobileDispose" => cmd[a] = "mobile"
    /\ pc[a] = "enqueue" => cmd[a] \in {"mobile", "append"}
    /\ pc[a] \in {"dispose", "push", "acquire", "swap", "claim", "prepare",
                  "launch", "dropRunning"}
         => cmd[a] \in {"desktop", "mobile", "wake"}
    /\ pc[a] \in {"retryAcquire", "retrySwap", "retryPrepare"}
         => cmd[a] = "retry"
    /\ pc[a] \in (RefineFlagPoints \ LoopPoints) \cup LatePoints
         => cmd[a] = "refine"

\* The gate is held exactly by the invocation that is between its acquire and
\* its drop.
GateInv == \A a \in Actors : pc[a] \in Holding <=> holder = a

\* The stage cannot change between the two halves of refine's compare_exchange:
\* whoever could change it holds the gate.
ExchangeInv == \A a \in Actors : pc[a] = "refineWrite" => stage = "Idle"

\* Until its loop is entered nobody else changes the stage of a starting body.
StartInv ==
  \A a \in Actors :
    pc[a] \in {"claim", "prepare", "launch", "retryPrepare", "refinePrepare"}
      => stage = "Running"

\* Finalizing always has an invocation that is closing its body.
ClosingInv ==
  stage = "Finalizing" => \E a \in Actors : pc[a] \in ClosingPoints

ControlInv == /\ GateInv
              /\ OneBody
              /\ StageHonest
              /\ ExchangeInv
              /\ StartInv
              /\ ClosingInv

\* A reset waits only for bodies that still run, and none is left to wait for
\* once it has seen Idle.
ResetInv ==
  \A r \in Actors :
    /\ resetSaw[r] \subseteq Bodies
    /\ pc[r] \in {"resetCancelIdle", "resetClear"} => resetSaw[r] = {}

\* What a step may do to the stage, the cancel flag and the gate.
ObservableStep ==
  /\ stage = "Finalizing" => stage' \in {"Finalizing", "Idle"}
  /\ cancelFlag /\ ~cancelFlag' => stage = "Running"
  /\ holder' # holder => \/ /\ holder = NoActor
                           /\ holder' \in Actors \cup {External}
                        \/ /\ holder \in Actors \cup {External}
                           /\ holder' = NoActor

IInv == TypeOK /\ CommandInv /\ ControlInv /\ RefineFlagHonest /\ ResetInv
-----------------------------------------------------------------------------
\* Removing an element leaves a sequence of the same kind.
LEMMA RemoveAtType ==
  ASSUME NEW S, NEW s \in Seq(S), NEW i \in 1 .. Len(s)
  PROVE  RemoveAt(s, i) \in Seq(S)
<1>1. SubSeq(s, 1, i - 1) \in Seq(S)
  BY SubSeqProperties
<1>2. SubSeq(s, i + 1, Len(s)) \in Seq(S)
  BY SubSeqProperties
<1>. QED  BY <1>1, <1>2, ConcatProperties DEF RemoveAt

\* Wakes joined into one message are a message for a wake.
LEMMA JoinedWakes ==
  ASSUME NEW D \in SUBSET WakeTexts, D # {}
  PROVE  UNION D \in WakeTexts
<1>1. UNION D \subseteq Wakes
  BY DEF WakeTexts
<1>2. PICK W \in D : W # {}
  BY DEF WakeTexts
<1>3. UNION D # {}
  BY <1>2
<1>. QED  BY <1>1, <1>3 DEF WakeTexts

\* Every step keeps the gate, the body and the stage together.
LEMMA ControlStep ==
  ASSUME TypeOK, ControlInv, [Next]_vars
  PROVE  ControlInv'
<1> USE ActorAssumption
      DEF TypeOK, ControlInv, GateInv, OneBody, StageHonest, ExchangeInv,
             StartInv, ClosingInv, Bodies, Stages, Points, Outside, Holding, HoldingInBody, InBody,
             LoopPoints, ClosingPoints, RoundPoints, LatePoints
<1>1. CASE UNCHANGED vars BY <1>1 DEF vars, state
<1>2. ASSUME NEW a \in Actors, SubmitStep(a)
      PROVE  ControlInv'
  <2>1. CASE MobileDispose(a) BY <2>1 DEF MobileDispose, UnlessRepeated, Go, state
  <2>2. CASE SubmitDispose(a) BY <2>2 DEF SubmitDispose, Go, NotTaken, state
  <2>3. CASE SubmitPush(a) BY <2>3 DEF SubmitPush, Go
  <2>4. CASE Enqueue(a) BY <2>4 DEF Enqueue, Go
  <2>5. CASE SubmitAcquire(a)
    BY <2>5 DEF SubmitAcquire, Go, TakeGate, GateFree
  <2>6. CASE SubmitRefused(a)
    BY <2>6 DEF SubmitRefused, Go, NotTaken, GateFree, state
  <2>7. CASE SubmitSwap(a) BY <2>7 DEF SubmitSwap, Go, Busy
  <2>8. CASE SubmitDuplicate(a) BY <2>8 DEF SubmitDuplicate, EndBody
  <2>9. CASE SubmitClaim(a) BY <2>9 DEF SubmitClaim, Go
  <2>10. CASE SubmitPrepare(a) BY <2>10 DEF SubmitPrepare, Go
  <2>11. CASE SubmitAbort(a) BY <2>11 DEF SubmitAbort, EndBody
  <2>12. CASE SubmitLaunch(a) BY <2>12 DEF SubmitLaunch, Go
  <2>13. CASE DropLease(a) BY <2>13 DEF DropLease, Go, NotTaken, UnlessRepeated
  <2>. QED  BY <1>2, <2>1, <2>2, <2>3, <2>4, <2>5, <2>6, <2>7, <2>8, <2>9,
       <2>10, <2>11, <2>12, <2>13 DEF SubmitStep
<1>3. ASSUME NEW a \in Actors, LoopStep(a)
      PROVE  ControlInv'
  <2>1. CASE TaskFail(a) BY <2>1 DEF TaskFail, FailRound, Go, IsRound, state
  <2>2. CASE EnterLoop(a) BY <2>2 DEF EnterLoop, Go
  <2>3. CASE ClearStaleAppends(a) BY <2>3 DEF ClearStaleAppends, Go
  <2>4. CASE DrainAppends(a) BY <2>4 DEF DrainAppends, Go
  <2>5. CASE StopOnCancel(a) BY <2>5 DEF StopOnCancel, Go, state
  <2>6. CASE InjectDoorbell(a) BY <2>6 DEF InjectDoorbell, Go
  <2>7. CASE NextIteration(a) BY <2>7 DEF NextIteration, Go
  <2>8. CASE LeaveLoop(a) BY <2>8 DEF LeaveLoop, Go, state
  <2>9. CASE AbandonLoop(a) BY <2>9 DEF AbandonLoop, Go, state
  <2>. QED  BY <1>3, <2>1, <2>2, <2>3, <2>4, <2>5, <2>6, <2>7, <2>8, <2>9 DEF LoopStep
<1>4. ASSUME NEW a \in Actors, EndStep(a)
      PROVE  ControlInv'
  <2>1. CASE RoundDone(a) BY <2>1 DEF RoundDone, Go
  <2>2. CASE RelockRuntime(a) BY <2>2 DEF RelockRuntime, Go, state
  <2>3. CASE RoundRebuild(a) BY <2>3 DEF RoundRebuild, state
  <2>4. CASE RebuildDone(a) BY <2>4 DEF RebuildDone, Go, state
  <2>5. CASE RoundError(a) BY <2>5 DEF RoundError, FailRound, IsRound, state
  <2>6. CASE RetryDone(a) BY <2>6 DEF RetryDone, Go, state
  <2>7. CASE Finalize(a) BY <2>7 DEF Finalize, Go
  <2>8. CASE ClosingWork(a) BY <2>8 DEF ClosingWork, Go
  <2>9. CASE EndTakeQueue(a) BY <2>9 DEF EndTakeQueue, Go
  <2>10. CASE EndIdle(a) BY <2>10 DEF EndIdle, EndBody
  <2>11. CASE EndReleaseGate(a) BY <2>11 DEF EndReleaseGate, Go
  <2>. QED  BY <1>4, <2>1, <2>2, <2>3, <2>4, <2>5, <2>6, <2>7, <2>8, <2>9,
       <2>10, <2>11 DEF EndStep
<1>5. ASSUME NEW a \in Actors, WakeStep(a)
      PROVE  ControlInv'
  <2>1. CASE ReplayTake(a) BY <2>1 DEF ReplayTake
  <2>2. CASE ReplayCheck(a) BY <2>2 DEF ReplayCheck, Go, state
  <2>3. CASE WakeLoad(a) BY <2>3 DEF WakeLoad, Go, Busy, state
  <2>4. CASE DeferLoad(a) BY <2>4 DEF DeferLoad, Go, Busy, state
  <2>5. CASE DeferPush(a) BY <2>5 DEF DeferPush, Go
  <2>. QED  BY <1>5, <2>1, <2>2, <2>3, <2>4, <2>5 DEF WakeStep
<1>6. ASSUME NEW a \in Actors, RetryStep(a)
      PROVE  ControlInv'
  <2>1. CASE RetryAcquire(a) BY <2>1 DEF RetryAcquire, Go, TakeGate, GateFree
  <2>2. CASE RetryRefused(a) BY <2>2 DEF RetryRefused, Go, GateFree
  <2>3. CASE RetrySwap(a) BY <2>3 DEF RetrySwap, Go, Busy
  <2>4. CASE RetryPrepare(a) BY <2>4 DEF RetryPrepare, Go
  <2>. QED  BY <1>6, <2>1, <2>2, <2>3, <2>4 DEF RetryStep
<1>7. ASSUME NEW a \in Actors, RefineStep(a)
      PROVE  ControlInv'
  <2>1. CASE RefineAcquire(a)
    BY <2>1 DEF RefineAcquire, Go, TakeGate, GateFree
  <2>2. CASE RefineRefused(a) BY <2>2 DEF RefineRefused, Go, GateFree
  <2>3. CASE RefineCompare(a) BY <2>3 DEF RefineCompare, Go, Busy, state
  <2>4. CASE RefineExchange(a) BY <2>4 DEF RefineExchange, Go
  <2>5. CASE RefineRollback(a) BY <2>5 DEF RefineRollback, Go
  <2>6. CASE RefinePrepare(a) BY <2>6 DEF RefinePrepare, Go
  <2>7. CASE RefineClearFlag(a) BY <2>7 DEF RefineClearFlag, Go
  <2>8. CASE RefineLoopDone(a) BY <2>8 DEF RefineLoopDone, Go, state
  <2>9. CASE RefineDropGate(a) BY <2>9 DEF RefineDropGate, Go
  <2>10. CASE RefineLateFlag(a) BY <2>10 DEF RefineLateFlag, Go
  <2>11. CASE RefineLateIdle(a) BY <2>11 DEF RefineLateIdle, EndBody
  <2>. QED  BY <1>7, <2>1, <2>2, <2>3, <2>4, <2>5, <2>6, <2>7, <2>8, <2>9,
       <2>10, <2>11 DEF RefineStep
<1>8. ASSUME NEW a \in Actors, ResetStep(a)
      PROVE  ControlInv'
  <2>1. CASE ResetCancel(a) BY <2>1 DEF ResetCancel, Go
  <2>2. CASE ResetSeesIdle(a) BY <2>2 DEF ResetSeesIdle, Go, Busy, state
  <2>3. CASE ResetTimeout(a) BY <2>3 DEF ResetTimeout, Go, Busy, state
  <2>4. CASE ResetClearQueue(a) BY <2>4 DEF ResetClearQueue, Go
  <2>. QED  BY <1>8, <2>1, <2>2, <2>3, <2>4 DEF ResetStep
<1>9. ASSUME NEW a \in Actors, Call(a)
      PROVE  ControlInv'
  <2>1. CASE \E m \in Messages : DesktopBegin(a, m)
    BY <2>1 DEF DesktopBegin, Enter, state
  <2>2. CASE \E m \in Messages : MobileBegin(a, m)
    BY <2>2 DEF MobileBegin, Enter, state
  <2>3. CASE \E m \in Messages : AppendInstruction(a, m)
    BY <2>3 DEF AppendInstruction, Enter, Busy, state
  <2>4. CASE \E w \in Wakes : Doorbell(a, w) BY <2>4 DEF Doorbell, Enter
  <2>5. CASE RetryBegin(a) BY <2>5 DEF RetryBegin, Enter
  <2>6. CASE RefineBegin(a) BY <2>6 DEF RefineBegin, Enter
  <2>7. CASE ResetBegin(a) BY <2>7 DEF ResetBegin, Busy, state
  <2>8. CASE SubTaskDrain(a) BY <2>8 DEF SubTaskDrain, Go
  <2>. QED  BY <1>9, <2>1, <2>2, <2>3, <2>4, <2>5, <2>6, <2>7, <2>8 DEF Call
<1>10. CASE Environment
  <2>1. CASE Interrupt BY <2>1 DEF Interrupt
  <2>2. CASE \E i \in 1 .. Len(appendQueue) : RemoveAppend(i)
    BY <2>2 DEF RemoveAppend
  <2>3. CASE ExternalTake BY <2>3 DEF ExternalTake, GateFree
  <2>4. CASE ExternalRelease BY <2>4 DEF ExternalRelease
  <2>5. CASE \E t \in WakeTexts : FailedWakeReturns(t)
    BY <2>5 DEF FailedWakeReturns
  <2>. QED  BY <1>10, <2>1, <2>2, <2>3, <2>4, <2>5 DEF Environment
<1>. QED  BY <1>1, <1>2, <1>3, <1>4, <1>5, <1>6, <1>7, <1>8, <1>9, <1>10 DEF Next, Proceed

\* Every step keeps commands, points and messages together.
LEMMA CommandStep ==
  ASSUME TypeOK, CommandInv, [Next]_vars
  PROVE  CommandInv'
<1> USE DEF TypeOK, CommandInv, Commands, RefineFlagPoints,
             Points, Outside, Holding, HoldingInBody, InBody,
             LoopPoints, ClosingPoints, RoundPoints, LatePoints
<1>1. CASE UNCHANGED vars BY <1>1 DEF vars, state
<1>2. ASSUME NEW a \in Actors, SubmitStep(a)
      PROVE  CommandInv'
  <2>1. CASE MobileDispose(a) BY <2>1 DEF MobileDispose, UnlessRepeated, Go, state
  <2>2. CASE SubmitDispose(a) BY <2>2 DEF SubmitDispose, Go, NotTaken, state
  <2>3. CASE SubmitPush(a) BY <2>3 DEF SubmitPush, Go
  <2>4. CASE Enqueue(a) BY <2>4 DEF Enqueue, Go
  <2>5. CASE SubmitAcquire(a)
    BY <2>5 DEF SubmitAcquire, Go, TakeGate, GateFree
  <2>6. CASE SubmitRefused(a)
    BY <2>6 DEF SubmitRefused, Go, NotTaken, GateFree, state
  <2>7. CASE SubmitSwap(a) BY <2>7 DEF SubmitSwap, Go, Busy
  <2>8. CASE SubmitDuplicate(a) BY <2>8 DEF SubmitDuplicate, EndBody
  <2>9. CASE SubmitClaim(a) BY <2>9 DEF SubmitClaim, Go
  <2>10. CASE SubmitPrepare(a) BY <2>10 DEF SubmitPrepare, Go
  <2>11. CASE SubmitAbort(a) BY <2>11 DEF SubmitAbort, EndBody
  <2>12. CASE SubmitLaunch(a) BY <2>12 DEF SubmitLaunch, Go
  <2>13. CASE DropLease(a) BY <2>13 DEF DropLease, Go, NotTaken, UnlessRepeated
  <2>. QED  BY <1>2, <2>1, <2>2, <2>3, <2>4, <2>5, <2>6, <2>7, <2>8, <2>9,
       <2>10, <2>11, <2>12, <2>13 DEF SubmitStep
<1>3. ASSUME NEW a \in Actors, LoopStep(a)
      PROVE  CommandInv'
  <2>1. CASE TaskFail(a) BY <2>1 DEF TaskFail, FailRound, Go, IsRound, state
  <2>2. CASE EnterLoop(a) BY <2>2 DEF EnterLoop, Go
  <2>3. CASE ClearStaleAppends(a) BY <2>3 DEF ClearStaleAppends, Go
  <2>4. CASE DrainAppends(a) BY <2>4 DEF DrainAppends, Go
  <2>5. CASE StopOnCancel(a) BY <2>5 DEF StopOnCancel, Go, state
  <2>6. CASE InjectDoorbell(a) BY <2>6 DEF InjectDoorbell, Go
  <2>7. CASE NextIteration(a) BY <2>7 DEF NextIteration, Go
  <2>8. CASE LeaveLoop(a) BY <2>8 DEF LeaveLoop, Go, state
  <2>9. CASE AbandonLoop(a) BY <2>9 DEF AbandonLoop, Go, state
  <2>. QED  BY <1>3, <2>1, <2>2, <2>3, <2>4, <2>5, <2>6, <2>7, <2>8, <2>9 DEF LoopStep
<1>4. ASSUME NEW a \in Actors, EndStep(a)
      PROVE  CommandInv'
  <2>1. CASE RoundDone(a) BY <2>1 DEF RoundDone, Go
  <2>2. CASE RelockRuntime(a) BY <2>2 DEF RelockRuntime, Go, state
  <2>3. CASE RoundRebuild(a) BY <2>3 DEF RoundRebuild, state
  <2>4. CASE RebuildDone(a) BY <2>4 DEF RebuildDone, Go, state
  <2>5. CASE RoundError(a) BY <2>5 DEF RoundError, FailRound, IsRound, state
  <2>6. CASE RetryDone(a) BY <2>6 DEF RetryDone, Go, state
  <2>7. CASE Finalize(a) BY <2>7 DEF Finalize, Go
  <2>8. CASE ClosingWork(a) BY <2>8 DEF ClosingWork, Go
  <2>9. CASE EndTakeQueue(a) BY <2>9 DEF EndTakeQueue, Go
  <2>10. CASE EndIdle(a) BY <2>10 DEF EndIdle, EndBody
  <2>11. CASE EndReleaseGate(a) BY <2>11 DEF EndReleaseGate, Go
  <2>. QED  BY <1>4, <2>1, <2>2, <2>3, <2>4, <2>5, <2>6, <2>7, <2>8, <2>9,
       <2>10, <2>11 DEF EndStep
<1>5. ASSUME NEW a \in Actors, WakeStep(a)
      PROVE  CommandInv'
  <2>1. CASE ReplayTake(a)
    <3>1. CASE deferredWakes = {}
      BY <2>1, <3>1 DEF ReplayTake
    <3>2. CASE deferredWakes # {}
      <4> DEFINE joined == UNION deferredWakes
      <4>1. joined \in WakeTexts
        BY <3>2, JoinedWakes
      <4>2. /\ pc' = [pc EXCEPT ![a] = "replayCheck"]
            /\ cmd' = [cmd EXCEPT ![a] = "wake"]
            /\ msg' = [msg EXCEPT ![a] = joined]
            /\ deferredWakes' = {}
            /\ UNCHANGED <<stage, holder, appendQueue, flags, memory,
                           terminalEvents, rung, iteration, resetSaw>>
        BY <2>1, <3>2 DEF ReplayTake
      <4> HIDE DEF joined
      <4>. QED  BY <4>1, <4>2
    <3>. QED  BY <3>1, <3>2
  <2>2. CASE ReplayCheck(a) BY <2>2 DEF ReplayCheck, Go, state
  <2>3. CASE WakeLoad(a) BY <2>3 DEF WakeLoad, Go, Busy, state
  <2>4. CASE DeferLoad(a) BY <2>4 DEF DeferLoad, Go, Busy, state
  <2>5. CASE DeferPush(a) BY <2>5 DEF DeferPush, Go
  <2>. QED  BY <1>5, <2>1, <2>2, <2>3, <2>4, <2>5 DEF WakeStep
<1>6. ASSUME NEW a \in Actors, RetryStep(a)
      PROVE  CommandInv'
  <2>1. CASE RetryAcquire(a) BY <2>1 DEF RetryAcquire, Go, TakeGate, GateFree
  <2>2. CASE RetryRefused(a) BY <2>2 DEF RetryRefused, Go, GateFree
  <2>3. CASE RetrySwap(a) BY <2>3 DEF RetrySwap, Go, Busy
  <2>4. CASE RetryPrepare(a) BY <2>4 DEF RetryPrepare, Go
  <2>. QED  BY <1>6, <2>1, <2>2, <2>3, <2>4 DEF RetryStep
<1>7. ASSUME NEW a \in Actors, RefineStep(a)
      PROVE  CommandInv'
  <2>1. CASE RefineAcquire(a)
    BY <2>1 DEF RefineAcquire, Go, TakeGate, GateFree
  <2>2. CASE RefineRefused(a) BY <2>2 DEF RefineRefused, Go, GateFree
  <2>3. CASE RefineCompare(a) BY <2>3 DEF RefineCompare, Go, Busy, state
  <2>4. CASE RefineExchange(a) BY <2>4 DEF RefineExchange, Go
  <2>5. CASE RefineRollback(a) BY <2>5 DEF RefineRollback, Go
  <2>6. CASE RefinePrepare(a) BY <2>6 DEF RefinePrepare, Go
  <2>7. CASE RefineClearFlag(a) BY <2>7 DEF RefineClearFlag, Go
  <2>8. CASE RefineLoopDone(a) BY <2>8 DEF RefineLoopDone, Go, state
  <2>9. CASE RefineDropGate(a) BY <2>9 DEF RefineDropGate, Go
  <2>10. CASE RefineLateFlag(a) BY <2>10 DEF RefineLateFlag, Go
  <2>11. CASE RefineLateIdle(a) BY <2>11 DEF RefineLateIdle, EndBody
  <2>. QED  BY <1>7, <2>1, <2>2, <2>3, <2>4, <2>5, <2>6, <2>7, <2>8, <2>9,
       <2>10, <2>11 DEF RefineStep
<1>8. ASSUME NEW a \in Actors, ResetStep(a)
      PROVE  CommandInv'
  <2>1. CASE ResetCancel(a) BY <2>1 DEF ResetCancel, Go
  <2>2. CASE ResetSeesIdle(a) BY <2>2 DEF ResetSeesIdle, Go, Busy, state
  <2>3. CASE ResetTimeout(a) BY <2>3 DEF ResetTimeout, Go, Busy, state
  <2>4. CASE ResetClearQueue(a) BY <2>4 DEF ResetClearQueue, Go
  <2>. QED  BY <1>8, <2>1, <2>2, <2>3, <2>4 DEF ResetStep
<1>9. ASSUME NEW a \in Actors, Call(a)
      PROVE  CommandInv'
  <2>1. CASE \E m \in Messages : DesktopBegin(a, m)
    BY <2>1 DEF DesktopBegin, Enter, state
  <2>2. CASE \E m \in Messages : MobileBegin(a, m)
    BY <2>2 DEF MobileBegin, Enter, state
  <2>3. CASE \E m \in Messages : AppendInstruction(a, m)
    BY <2>3 DEF AppendInstruction, Enter, Busy, state
  <2>4. ASSUME NEW w \in Wakes, Doorbell(a, w)
       PROVE  CommandInv'
    <3>1. {w} \in WakeTexts
      BY DEF WakeTexts
    <3>. QED  BY <2>4, <3>1 DEF Doorbell, Enter
  <2>5. CASE RetryBegin(a) BY <2>5 DEF RetryBegin, Enter
  <2>6. CASE RefineBegin(a) BY <2>6 DEF RefineBegin, Enter
  <2>7. CASE ResetBegin(a) BY <2>7 DEF ResetBegin, Busy, state
  <2>8. CASE SubTaskDrain(a) BY <2>8 DEF SubTaskDrain, Go
  <2>. QED  BY <1>9, <2>1, <2>2, <2>3, <2>4, <2>5, <2>6, <2>7, <2>8 DEF Call
<1>10. CASE Environment
  <2>1. CASE Interrupt BY <2>1 DEF Interrupt
  <2>2. CASE \E i \in 1 .. Len(appendQueue) : RemoveAppend(i)
    BY <2>2 DEF RemoveAppend
  <2>3. CASE ExternalTake BY <2>3 DEF ExternalTake, GateFree
  <2>4. CASE ExternalRelease BY <2>4 DEF ExternalRelease
  <2>5. CASE \E t \in WakeTexts : FailedWakeReturns(t)
    BY <2>5 DEF FailedWakeReturns
  <2>. QED  BY <1>10, <2>1, <2>2, <2>3, <2>4, <2>5 DEF Environment
<1>. QED  BY <1>1, <1>2, <1>3, <1>4, <1>5, <1>6, <1>7, <1>8, <1>9, <1>10 DEF Next, Proceed

\* Every step keeps refine_active and the refine that owns it together.
LEMMA RefineFlagStep ==
  ASSUME TypeOK, CommandInv, RefineFlagHonest, [Next]_vars
  PROVE  RefineFlagHonest'
<1> USE DEF TypeOK, CommandInv, RefineFlagHonest, RefineFlagHolders,
             RefineFlagPoints, Commands, flags,
             Points, Outside, Holding, HoldingInBody, InBody,
             LoopPoints, ClosingPoints, RoundPoints, LatePoints
<1>1. CASE UNCHANGED vars BY <1>1 DEF vars, state
<1>2. ASSUME NEW a \in Actors, SubmitStep(a)
      PROVE  RefineFlagHonest'
  <2>1. CASE MobileDispose(a) BY <2>1 DEF MobileDispose, UnlessRepeated, Go, state
  <2>2. CASE SubmitDispose(a) BY <2>2 DEF SubmitDispose, Go, NotTaken, state
  <2>3. CASE SubmitPush(a) BY <2>3 DEF SubmitPush, Go
  <2>4. CASE Enqueue(a) BY <2>4 DEF Enqueue, Go
  <2>5. CASE SubmitAcquire(a)
    BY <2>5 DEF SubmitAcquire, Go, TakeGate, GateFree
  <2>6. CASE SubmitRefused(a)
    BY <2>6 DEF SubmitRefused, Go, NotTaken, GateFree, state
  <2>7. CASE SubmitSwap(a) BY <2>7 DEF SubmitSwap, Go, Busy
  <2>8. CASE SubmitDuplicate(a) BY <2>8 DEF SubmitDuplicate, EndBody
  <2>9. CASE SubmitClaim(a) BY <2>9 DEF SubmitClaim, Go
  <2>10. CASE SubmitPrepare(a) BY <2>10 DEF SubmitPrepare, Go
  <2>11. CASE SubmitAbort(a) BY <2>11 DEF SubmitAbort, EndBody
  <2>12. CASE SubmitLaunch(a) BY <2>12 DEF SubmitLaunch, Go
  <2>13. CASE DropLease(a) BY <2>13 DEF DropLease, Go, NotTaken, UnlessRepeated
  <2>. QED  BY <1>2, <2>1, <2>2, <2>3, <2>4, <2>5, <2>6, <2>7, <2>8, <2>9,
       <2>10, <2>11, <2>12, <2>13 DEF SubmitStep
<1>3. ASSUME NEW a \in Actors, LoopStep(a)
      PROVE  RefineFlagHonest'
  <2>1. CASE TaskFail(a) BY <2>1 DEF TaskFail, FailRound, Go, IsRound, state
  <2>2. CASE EnterLoop(a) BY <2>2 DEF EnterLoop, Go
  <2>3. CASE ClearStaleAppends(a) BY <2>3 DEF ClearStaleAppends, Go
  <2>4. CASE DrainAppends(a) BY <2>4 DEF DrainAppends, Go
  <2>5. CASE StopOnCancel(a) BY <2>5 DEF StopOnCancel, Go, state
  <2>6. CASE InjectDoorbell(a) BY <2>6 DEF InjectDoorbell, Go
  <2>7. CASE NextIteration(a) BY <2>7 DEF NextIteration, Go
  <2>8. CASE LeaveLoop(a) BY <2>8 DEF LeaveLoop, Go, state
  <2>9. CASE AbandonLoop(a) BY <2>9 DEF AbandonLoop, Go, state
  <2>. QED  BY <1>3, <2>1, <2>2, <2>3, <2>4, <2>5, <2>6, <2>7, <2>8, <2>9 DEF LoopStep
<1>4. ASSUME NEW a \in Actors, EndStep(a)
      PROVE  RefineFlagHonest'
  <2>1. CASE RoundDone(a) BY <2>1 DEF RoundDone, Go
  <2>2. CASE RelockRuntime(a) BY <2>2 DEF RelockRuntime, Go, state
  <2>3. CASE RoundRebuild(a) BY <2>3 DEF RoundRebuild, state
  <2>4. CASE RebuildDone(a) BY <2>4 DEF RebuildDone, Go, state
  <2>5. CASE RoundError(a) BY <2>5 DEF RoundError, FailRound, IsRound, state
  <2>6. CASE RetryDone(a) BY <2>6 DEF RetryDone, Go, state
  <2>7. CASE Finalize(a) BY <2>7 DEF Finalize, Go
  <2>8. CASE ClosingWork(a) BY <2>8 DEF ClosingWork, Go
  <2>9. CASE EndTakeQueue(a) BY <2>9 DEF EndTakeQueue, Go
  <2>10. CASE EndIdle(a) BY <2>10 DEF EndIdle, EndBody
  <2>11. CASE EndReleaseGate(a) BY <2>11 DEF EndReleaseGate, Go
  <2>. QED  BY <1>4, <2>1, <2>2, <2>3, <2>4, <2>5, <2>6, <2>7, <2>8, <2>9,
       <2>10, <2>11 DEF EndStep
<1>5. ASSUME NEW a \in Actors, WakeStep(a)
      PROVE  RefineFlagHonest'
  <2>1. CASE ReplayTake(a) BY <2>1 DEF ReplayTake
  <2>2. CASE ReplayCheck(a) BY <2>2 DEF ReplayCheck, Go, state
  <2>3. CASE WakeLoad(a) BY <2>3 DEF WakeLoad, Go, Busy, state
  <2>4. CASE DeferLoad(a) BY <2>4 DEF DeferLoad, Go, Busy, state
  <2>5. CASE DeferPush(a) BY <2>5 DEF DeferPush, Go
  <2>. QED  BY <1>5, <2>1, <2>2, <2>3, <2>4, <2>5 DEF WakeStep
<1>6. ASSUME NEW a \in Actors, RetryStep(a)
      PROVE  RefineFlagHonest'
  <2>1. CASE RetryAcquire(a) BY <2>1 DEF RetryAcquire, Go, TakeGate, GateFree
  <2>2. CASE RetryRefused(a) BY <2>2 DEF RetryRefused, Go, GateFree
  <2>3. CASE RetrySwap(a) BY <2>3 DEF RetrySwap, Go, Busy
  <2>4. CASE RetryPrepare(a) BY <2>4 DEF RetryPrepare, Go
  <2>. QED  BY <1>6, <2>1, <2>2, <2>3, <2>4 DEF RetryStep
<1>7. ASSUME NEW a \in Actors, RefineStep(a)
      PROVE  RefineFlagHonest'
  <2>1. CASE RefineAcquire(a)
    BY <2>1 DEF RefineAcquire, Go, TakeGate, GateFree
  <2>2. CASE RefineRefused(a) BY <2>2 DEF RefineRefused, Go, GateFree
  <2>3. CASE RefineCompare(a) BY <2>3 DEF RefineCompare, Go, Busy, state
  <2>4. CASE RefineExchange(a) BY <2>4 DEF RefineExchange, Go
  <2>5. CASE RefineRollback(a) BY <2>5 DEF RefineRollback, Go
  <2>6. CASE RefinePrepare(a) BY <2>6 DEF RefinePrepare, Go
  <2>7. CASE RefineClearFlag(a) BY <2>7 DEF RefineClearFlag, Go
  <2>8. CASE RefineLoopDone(a) BY <2>8 DEF RefineLoopDone, Go, state
  <2>9. CASE RefineDropGate(a) BY <2>9 DEF RefineDropGate, Go
  <2>10. CASE RefineLateFlag(a) BY <2>10 DEF RefineLateFlag, Go
  <2>11. CASE RefineLateIdle(a) BY <2>11 DEF RefineLateIdle, EndBody
  <2>. QED  BY <1>7, <2>1, <2>2, <2>3, <2>4, <2>5, <2>6, <2>7, <2>8, <2>9,
       <2>10, <2>11 DEF RefineStep
<1>8. ASSUME NEW a \in Actors, ResetStep(a)
      PROVE  RefineFlagHonest'
  <2>1. CASE ResetCancel(a) BY <2>1 DEF ResetCancel, Go
  <2>2. CASE ResetSeesIdle(a) BY <2>2 DEF ResetSeesIdle, Go, Busy, state
  <2>3. CASE ResetTimeout(a) BY <2>3 DEF ResetTimeout, Go, Busy, state
  <2>4. CASE ResetClearQueue(a) BY <2>4 DEF ResetClearQueue, Go
  <2>. QED  BY <1>8, <2>1, <2>2, <2>3, <2>4 DEF ResetStep
<1>9. ASSUME NEW a \in Actors, Call(a)
      PROVE  RefineFlagHonest'
  <2>1. CASE \E m \in Messages : DesktopBegin(a, m)
    BY <2>1 DEF DesktopBegin, Enter, state
  <2>2. CASE \E m \in Messages : MobileBegin(a, m)
    BY <2>2 DEF MobileBegin, Enter, state
  <2>3. CASE \E m \in Messages : AppendInstruction(a, m)
    BY <2>3 DEF AppendInstruction, Enter, Busy, state
  <2>4. CASE \E w \in Wakes : Doorbell(a, w) BY <2>4 DEF Doorbell, Enter
  <2>5. CASE RetryBegin(a) BY <2>5 DEF RetryBegin, Enter
  <2>6. CASE RefineBegin(a) BY <2>6 DEF RefineBegin, Enter
  <2>7. CASE ResetBegin(a) BY <2>7 DEF ResetBegin, Busy, state
  <2>8. CASE SubTaskDrain(a) BY <2>8 DEF SubTaskDrain, Go
  <2>. QED  BY <1>9, <2>1, <2>2, <2>3, <2>4, <2>5, <2>6, <2>7, <2>8 DEF Call
<1>10. CASE Environment
  <2>1. CASE Interrupt BY <2>1 DEF Interrupt
  <2>2. CASE \E i \in 1 .. Len(appendQueue) : RemoveAppend(i)
    BY <2>2 DEF RemoveAppend
  <2>3. CASE ExternalTake BY <2>3 DEF ExternalTake, GateFree
  <2>4. CASE ExternalRelease BY <2>4 DEF ExternalRelease
  <2>5. CASE \E t \in WakeTexts : FailedWakeReturns(t)
    BY <2>5 DEF FailedWakeReturns
  <2>. QED  BY <1>10, <2>1, <2>2, <2>3, <2>4, <2>5 DEF Environment
<1>. QED  BY <1>1, <1>2, <1>3, <1>4, <1>5, <1>6, <1>7, <1>8, <1>9, <1>10 DEF Next, Proceed

\* Every step keeps the resets and the bodies they wait for together.
LEMMA ResetHistoryStep ==
  ASSUME TypeOK, ControlInv, ResetInv, [Next]_vars
  PROVE  ResetInv'
<1> USE DEF TypeOK, ControlInv, StageHonest, ResetInv, Bodies, Stages,
             Points, Outside, Holding, HoldingInBody, InBody,
             LoopPoints, ClosingPoints, RoundPoints, LatePoints
<1>1. CASE UNCHANGED vars BY <1>1 DEF vars, state
<1>2. ASSUME NEW a \in Actors, SubmitStep(a)
      PROVE  ResetInv'
  <2>1. CASE MobileDispose(a) BY <2>1 DEF MobileDispose, UnlessRepeated, Go, state
  <2>2. CASE SubmitDispose(a) BY <2>2 DEF SubmitDispose, Go, NotTaken, state
  <2>3. CASE SubmitPush(a) BY <2>3 DEF SubmitPush, Go
  <2>4. CASE Enqueue(a) BY <2>4 DEF Enqueue, Go
  <2>5. CASE SubmitAcquire(a)
    BY <2>5 DEF SubmitAcquire, Go, TakeGate, GateFree
  <2>6. CASE SubmitRefused(a)
    BY <2>6 DEF SubmitRefused, Go, NotTaken, GateFree, state
  <2>7. CASE SubmitSwap(a) BY <2>7 DEF SubmitSwap, Go, Busy
  <2>8. CASE SubmitDuplicate(a) BY <2>8 DEF SubmitDuplicate, EndBody
  <2>9. CASE SubmitClaim(a) BY <2>9 DEF SubmitClaim, Go
  <2>10. CASE SubmitPrepare(a) BY <2>10 DEF SubmitPrepare, Go
  <2>11. CASE SubmitAbort(a) BY <2>11 DEF SubmitAbort, EndBody
  <2>12. CASE SubmitLaunch(a) BY <2>12 DEF SubmitLaunch, Go
  <2>13. CASE DropLease(a) BY <2>13 DEF DropLease, Go, NotTaken, UnlessRepeated
  <2>. QED  BY <1>2, <2>1, <2>2, <2>3, <2>4, <2>5, <2>6, <2>7, <2>8, <2>9,
       <2>10, <2>11, <2>12, <2>13 DEF SubmitStep
<1>3. ASSUME NEW a \in Actors, LoopStep(a)
      PROVE  ResetInv'
  <2>1. CASE TaskFail(a) BY <2>1 DEF TaskFail, FailRound, Go, IsRound, state
  <2>2. CASE EnterLoop(a) BY <2>2 DEF EnterLoop, Go
  <2>3. CASE ClearStaleAppends(a) BY <2>3 DEF ClearStaleAppends, Go
  <2>4. CASE DrainAppends(a) BY <2>4 DEF DrainAppends, Go
  <2>5. CASE StopOnCancel(a) BY <2>5 DEF StopOnCancel, Go, state
  <2>6. CASE InjectDoorbell(a) BY <2>6 DEF InjectDoorbell, Go
  <2>7. CASE NextIteration(a) BY <2>7 DEF NextIteration, Go
  <2>8. CASE LeaveLoop(a) BY <2>8 DEF LeaveLoop, Go, state
  <2>9. CASE AbandonLoop(a) BY <2>9 DEF AbandonLoop, Go, state
  <2>. QED  BY <1>3, <2>1, <2>2, <2>3, <2>4, <2>5, <2>6, <2>7, <2>8, <2>9 DEF LoopStep
<1>4. ASSUME NEW a \in Actors, EndStep(a)
      PROVE  ResetInv'
  <2>1. CASE RoundDone(a) BY <2>1 DEF RoundDone, Go
  <2>2. CASE RelockRuntime(a) BY <2>2 DEF RelockRuntime, Go, state
  <2>3. CASE RoundRebuild(a) BY <2>3 DEF RoundRebuild, state
  <2>4. CASE RebuildDone(a) BY <2>4 DEF RebuildDone, Go, state
  <2>5. CASE RoundError(a) BY <2>5 DEF RoundError, FailRound, IsRound, state
  <2>6. CASE RetryDone(a) BY <2>6 DEF RetryDone, Go, state
  <2>7. CASE Finalize(a) BY <2>7 DEF Finalize, Go
  <2>8. CASE ClosingWork(a) BY <2>8 DEF ClosingWork, Go
  <2>9. CASE EndTakeQueue(a) BY <2>9 DEF EndTakeQueue, Go
  <2>10. CASE EndIdle(a) BY <2>10 DEF EndIdle, EndBody
  <2>11. CASE EndReleaseGate(a) BY <2>11 DEF EndReleaseGate, Go
  <2>. QED  BY <1>4, <2>1, <2>2, <2>3, <2>4, <2>5, <2>6, <2>7, <2>8, <2>9,
       <2>10, <2>11 DEF EndStep
<1>5. ASSUME NEW a \in Actors, WakeStep(a)
      PROVE  ResetInv'
  <2>1. CASE ReplayTake(a) BY <2>1 DEF ReplayTake
  <2>2. CASE ReplayCheck(a) BY <2>2 DEF ReplayCheck, Go, state
  <2>3. CASE WakeLoad(a) BY <2>3 DEF WakeLoad, Go, Busy, state
  <2>4. CASE DeferLoad(a) BY <2>4 DEF DeferLoad, Go, Busy, state
  <2>5. CASE DeferPush(a) BY <2>5 DEF DeferPush, Go
  <2>. QED  BY <1>5, <2>1, <2>2, <2>3, <2>4, <2>5 DEF WakeStep
<1>6. ASSUME NEW a \in Actors, RetryStep(a)
      PROVE  ResetInv'
  <2>1. CASE RetryAcquire(a) BY <2>1 DEF RetryAcquire, Go, TakeGate, GateFree
  <2>2. CASE RetryRefused(a) BY <2>2 DEF RetryRefused, Go, GateFree
  <2>3. CASE RetrySwap(a) BY <2>3 DEF RetrySwap, Go, Busy
  <2>4. CASE RetryPrepare(a) BY <2>4 DEF RetryPrepare, Go
  <2>. QED  BY <1>6, <2>1, <2>2, <2>3, <2>4 DEF RetryStep
<1>7. ASSUME NEW a \in Actors, RefineStep(a)
      PROVE  ResetInv'
  <2>1. CASE RefineAcquire(a)
    BY <2>1 DEF RefineAcquire, Go, TakeGate, GateFree
  <2>2. CASE RefineRefused(a) BY <2>2 DEF RefineRefused, Go, GateFree
  <2>3. CASE RefineCompare(a) BY <2>3 DEF RefineCompare, Go, Busy, state
  <2>4. CASE RefineExchange(a) BY <2>4 DEF RefineExchange, Go
  <2>5. CASE RefineRollback(a) BY <2>5 DEF RefineRollback, Go
  <2>6. CASE RefinePrepare(a) BY <2>6 DEF RefinePrepare, Go
  <2>7. CASE RefineClearFlag(a) BY <2>7 DEF RefineClearFlag, Go
  <2>8. CASE RefineLoopDone(a) BY <2>8 DEF RefineLoopDone, Go, state
  <2>9. CASE RefineDropGate(a) BY <2>9 DEF RefineDropGate, Go
  <2>10. CASE RefineLateFlag(a) BY <2>10 DEF RefineLateFlag, Go
  <2>11. CASE RefineLateIdle(a) BY <2>11 DEF RefineLateIdle, EndBody
  <2>. QED  BY <1>7, <2>1, <2>2, <2>3, <2>4, <2>5, <2>6, <2>7, <2>8, <2>9,
       <2>10, <2>11 DEF RefineStep
<1>8. ASSUME NEW a \in Actors, ResetStep(a)
      PROVE  ResetInv'
  <2>1. CASE ResetCancel(a) BY <2>1 DEF ResetCancel, Go
  <2>2. CASE ResetSeesIdle(a) BY <2>2 DEF ResetSeesIdle, Go, Busy, state
  <2>3. CASE ResetTimeout(a) BY <2>3 DEF ResetTimeout, Go, Busy, state
  <2>4. CASE ResetClearQueue(a) BY <2>4 DEF ResetClearQueue, Go
  <2>. QED  BY <1>8, <2>1, <2>2, <2>3, <2>4 DEF ResetStep
<1>9. ASSUME NEW a \in Actors, Call(a)
      PROVE  ResetInv'
  <2>1. CASE \E m \in Messages : DesktopBegin(a, m)
    BY <2>1 DEF DesktopBegin, Enter, state
  <2>2. CASE \E m \in Messages : MobileBegin(a, m)
    BY <2>2 DEF MobileBegin, Enter, state
  <2>3. CASE \E m \in Messages : AppendInstruction(a, m)
    BY <2>3 DEF AppendInstruction, Enter, Busy, state
  <2>4. CASE \E w \in Wakes : Doorbell(a, w) BY <2>4 DEF Doorbell, Enter
  <2>5. CASE RetryBegin(a) BY <2>5 DEF RetryBegin, Enter
  <2>6. CASE RefineBegin(a) BY <2>6 DEF RefineBegin, Enter
  <2>7. CASE ResetBegin(a) BY <2>7 DEF ResetBegin, Busy, state
  <2>8. CASE SubTaskDrain(a) BY <2>8 DEF SubTaskDrain, Go
  <2>. QED  BY <1>9, <2>1, <2>2, <2>3, <2>4, <2>5, <2>6, <2>7, <2>8 DEF Call
<1>10. CASE Environment
  <2>1. CASE Interrupt BY <2>1 DEF Interrupt
  <2>2. CASE \E i \in 1 .. Len(appendQueue) : RemoveAppend(i)
    BY <2>2 DEF RemoveAppend
  <2>3. CASE ExternalTake BY <2>3 DEF ExternalTake, GateFree
  <2>4. CASE ExternalRelease BY <2>4 DEF ExternalRelease
  <2>5. CASE \E t \in WakeTexts : FailedWakeReturns(t)
    BY <2>5 DEF FailedWakeReturns
  <2>. QED  BY <1>10, <2>1, <2>2, <2>3, <2>4, <2>5 DEF Environment
<1>. QED  BY <1>1, <1>2, <1>3, <1>4, <1>5, <1>6, <1>7, <1>8, <1>9, <1>10 DEF Next, Proceed

\* Every step keeps the types.
LEMMA TypeStep ==
  ASSUME TypeOK, CommandInv, [Next]_vars
  PROVE  TypeOK'
<1> USE ActorAssumption, BoundAssumption
      DEF TypeOK, CommandInv, flags, memory, doorbell, 
             Commands, Stages, Texts, MaybeTexts,
             Points, Outside, Holding, HoldingInBody, InBody,
             LoopPoints, ClosingPoints, RoundPoints, LatePoints
<1>1. CASE UNCHANGED vars BY <1>1 DEF vars, state
<1>2. ASSUME NEW a \in Actors, SubmitStep(a)
      PROVE  TypeOK'
  <2>1. CASE MobileDispose(a) BY <2>1 DEF MobileDispose, UnlessRepeated, Go, state
  <2>2. CASE SubmitDispose(a) BY <2>2 DEF SubmitDispose, Go, NotTaken, state
  <2>3. CASE SubmitPush(a)
    <3>1. msg[a] \in Texts
      BY <2>3 DEF SubmitPush, Go
    <3>2. Append(appendQueue, msg[a]) \in Seq(Texts)
      BY <3>1, AppendProperties
    <3>. QED  BY <2>3, <3>2 DEF SubmitPush, Go, memory, flags, doorbell
  <2>4. CASE Enqueue(a)
    <3>1. msg[a] \in Texts
      BY <2>4 DEF Enqueue, Go
    <3>2. Append(appendQueue, msg[a]) \in Seq(Texts)
      BY <3>1, AppendProperties
    <3>. QED  BY <2>4, <3>2 DEF Enqueue, Go, memory, flags, doorbell
  <2>5. CASE SubmitAcquire(a)
    BY <2>5 DEF SubmitAcquire, Go, TakeGate, GateFree
  <2>6. CASE SubmitRefused(a)
    BY <2>6 DEF SubmitRefused, Go, NotTaken, GateFree, state
  <2>7. CASE SubmitSwap(a) BY <2>7 DEF SubmitSwap, Go, Busy
  <2>8. CASE SubmitDuplicate(a) BY <2>8 DEF SubmitDuplicate, EndBody
  <2>9. CASE SubmitClaim(a) BY <2>9 DEF SubmitClaim, Go
  <2>10. CASE SubmitPrepare(a) BY <2>10 DEF SubmitPrepare, Go
  <2>11. CASE SubmitAbort(a) BY <2>11 DEF SubmitAbort, EndBody
  <2>12. CASE SubmitLaunch(a) BY <2>12 DEF SubmitLaunch, Go
  <2>13. CASE DropLease(a) BY <2>13 DEF DropLease, Go, NotTaken, UnlessRepeated
  <2>. QED  BY <1>2, <2>1, <2>2, <2>3, <2>4, <2>5, <2>6, <2>7, <2>8, <2>9,
       <2>10, <2>11, <2>12, <2>13 DEF SubmitStep
<1>3. ASSUME NEW a \in Actors, LoopStep(a)
      PROVE  TypeOK'
  <2>1. CASE TaskFail(a) BY <2>1 DEF TaskFail, FailRound, Go, IsRound, state
  <2>2. CASE EnterLoop(a) BY <2>2 DEF EnterLoop, Go
  <2>3. CASE ClearStaleAppends(a) BY <2>3 DEF ClearStaleAppends, Go
  <2>4. CASE DrainAppends(a) BY <2>4 DEF DrainAppends, Go
  <2>5. CASE StopOnCancel(a) BY <2>5 DEF StopOnCancel, Go, state
  <2>6. CASE InjectDoorbell(a) BY <2>6 DEF InjectDoorbell, Go
  <2>7. CASE NextIteration(a) BY <2>7 DEF NextIteration, Go
  <2>8. CASE LeaveLoop(a) BY <2>8 DEF LeaveLoop, Go, state
  <2>9. CASE AbandonLoop(a) BY <2>9 DEF AbandonLoop, Go, state
  <2>. QED  BY <1>3, <2>1, <2>2, <2>3, <2>4, <2>5, <2>6, <2>7, <2>8, <2>9 DEF LoopStep
<1>4. ASSUME NEW a \in Actors, EndStep(a)
      PROVE  TypeOK'
  <2>1. CASE RoundDone(a) BY <2>1 DEF RoundDone, Go
  <2>2. CASE RelockRuntime(a) BY <2>2 DEF RelockRuntime, Go, state
  <2>3. CASE RoundRebuild(a) BY <2>3 DEF RoundRebuild, state
  <2>4. CASE RebuildDone(a) BY <2>4 DEF RebuildDone, Go, state
  <2>5. CASE RoundError(a) BY <2>5 DEF RoundError, FailRound, IsRound, state
  <2>6. CASE RetryDone(a) BY <2>6 DEF RetryDone, Go, state
  <2>7. CASE Finalize(a) BY <2>7 DEF Finalize, Go
  <2>8. CASE ClosingWork(a) BY <2>8 DEF ClosingWork, Go
  <2>9. CASE EndTakeQueue(a) BY <2>9 DEF EndTakeQueue, Go
  <2>10. CASE EndIdle(a) BY <2>10 DEF EndIdle, EndBody
  <2>11. CASE EndReleaseGate(a) BY <2>11 DEF EndReleaseGate, Go
  <2>. QED  BY <1>4, <2>1, <2>2, <2>3, <2>4, <2>5, <2>6, <2>7, <2>8, <2>9,
       <2>10, <2>11 DEF EndStep
<1>5. ASSUME NEW a \in Actors, WakeStep(a)
      PROVE  TypeOK'
  <2>1. CASE ReplayTake(a)
    <3>1. CASE deferredWakes = {}
      BY <2>1, <3>1 DEF ReplayTake
    <3>2. CASE deferredWakes # {}
      <4> DEFINE joined == UNION deferredWakes
      <4>1. joined \in WakeTexts
        BY <3>2, JoinedWakes
      <4>2. /\ pc' = [pc EXCEPT ![a] = "replayCheck"]
            /\ cmd' = [cmd EXCEPT ![a] = "wake"]
            /\ msg' = [msg EXCEPT ![a] = joined]
            /\ deferredWakes' = {}
            /\ failedWakes' \subseteq WakeTexts
            /\ UNCHANGED <<stage, holder, appendQueue, flags, memory,
                           terminalEvents, rung, iteration, resetSaw>>
        BY <2>1, <3>2 DEF ReplayTake
      <4> HIDE DEF joined
      <4>. QED  BY <4>1, <4>2
    <3>. QED  BY <3>1, <3>2
  <2>2. CASE ReplayCheck(a) BY <2>2 DEF ReplayCheck, Go, state
  <2>3. CASE WakeLoad(a) BY <2>3 DEF WakeLoad, Go, Busy, state
  <2>4. CASE DeferLoad(a) BY <2>4 DEF DeferLoad, Go, Busy, state
  <2>5. CASE DeferPush(a) BY <2>5 DEF DeferPush, Go
  <2>. QED  BY <1>5, <2>1, <2>2, <2>3, <2>4, <2>5 DEF WakeStep
<1>6. ASSUME NEW a \in Actors, RetryStep(a)
      PROVE  TypeOK'
  <2>1. CASE RetryAcquire(a) BY <2>1 DEF RetryAcquire, Go, TakeGate, GateFree
  <2>2. CASE RetryRefused(a) BY <2>2 DEF RetryRefused, Go, GateFree
  <2>3. CASE RetrySwap(a)
    <3>1. pendingRetry' \in {pendingRetry, msg[a]}
      BY <2>3 DEF RetrySwap
    <3>2. pc' \in [Actors -> Points]
      BY <2>3 DEF RetrySwap, Go
    <3>. QED  BY <2>3, <3>1, <3>2 DEF RetrySwap, Go
  <2>4. CASE RetryPrepare(a) BY <2>4 DEF RetryPrepare, Go
  <2>. QED  BY <1>6, <2>1, <2>2, <2>3, <2>4 DEF RetryStep
<1>7. ASSUME NEW a \in Actors, RefineStep(a)
      PROVE  TypeOK'
  <2>1. CASE RefineAcquire(a)
    BY <2>1 DEF RefineAcquire, Go, TakeGate, GateFree
  <2>2. CASE RefineRefused(a) BY <2>2 DEF RefineRefused, Go, GateFree
  <2>3. CASE RefineCompare(a) BY <2>3 DEF RefineCompare, Go, Busy, state
  <2>4. CASE RefineExchange(a) BY <2>4 DEF RefineExchange, Go
  <2>5. CASE RefineRollback(a) BY <2>5 DEF RefineRollback, Go
  <2>6. CASE RefinePrepare(a) BY <2>6 DEF RefinePrepare, Go
  <2>7. CASE RefineClearFlag(a) BY <2>7 DEF RefineClearFlag, Go
  <2>8. CASE RefineLoopDone(a) BY <2>8 DEF RefineLoopDone, Go, state
  <2>9. CASE RefineDropGate(a) BY <2>9 DEF RefineDropGate, Go
  <2>10. CASE RefineLateFlag(a) BY <2>10 DEF RefineLateFlag, Go
  <2>11. CASE RefineLateIdle(a) BY <2>11 DEF RefineLateIdle, EndBody
  <2>. QED  BY <1>7, <2>1, <2>2, <2>3, <2>4, <2>5, <2>6, <2>7, <2>8, <2>9,
       <2>10, <2>11 DEF RefineStep
<1>8. ASSUME NEW a \in Actors, ResetStep(a)
      PROVE  TypeOK'
  <2>1. CASE ResetCancel(a) BY <2>1 DEF ResetCancel, Go
  <2>2. CASE ResetSeesIdle(a) BY <2>2 DEF ResetSeesIdle, Go, Busy, state
  <2>3. CASE ResetTimeout(a) BY <2>3 DEF ResetTimeout, Go, Busy, state
  <2>4. CASE ResetClearQueue(a) BY <2>4 DEF ResetClearQueue, Go
  <2>. QED  BY <1>8, <2>1, <2>2, <2>3, <2>4 DEF ResetStep
<1>9. ASSUME NEW a \in Actors, Call(a)
      PROVE  TypeOK'
  <2>1. CASE \E m \in Messages : DesktopBegin(a, m)
    BY <2>1 DEF DesktopBegin, Enter, state
  <2>2. CASE \E m \in Messages : MobileBegin(a, m)
    BY <2>2 DEF MobileBegin, Enter, state
  <2>3. CASE \E m \in Messages : AppendInstruction(a, m)
    BY <2>3 DEF AppendInstruction, Enter, Busy, state
  <2>4. ASSUME NEW w \in Wakes, Doorbell(a, w)
       PROVE  TypeOK'
    <3>1. {w} \in WakeTexts
      BY DEF WakeTexts
    <3>. QED  BY <2>4, <3>1 DEF Doorbell, Enter
  <2>5. CASE RetryBegin(a) BY <2>5 DEF RetryBegin, Enter
  <2>6. CASE RefineBegin(a) BY <2>6 DEF RefineBegin, Enter
  <2>7. CASE ResetBegin(a)
    <3>1. Bodies \in SUBSET Actors
      BY DEF Bodies
    <3>. QED  BY <2>7, <3>1 DEF ResetBegin, Busy, state
  <2>8. CASE SubTaskDrain(a) BY <2>8 DEF SubTaskDrain, Go
  <2>. QED  BY <1>9, <2>1, <2>2, <2>3, <2>4, <2>5, <2>6, <2>7, <2>8 DEF Call
<1>10. CASE Environment
  <2>1. CASE Interrupt BY <2>1 DEF Interrupt
  <2>2. ASSUME NEW i \in 1 .. Len(appendQueue), RemoveAppend(i)
       PROVE  TypeOK'
    <3>1. RemoveAt(appendQueue, i) \in Seq(Texts)
      BY RemoveAtType
    <3>. QED  BY <2>2, <3>1 DEF RemoveAppend, memory, flags, doorbell
  <2>3. CASE ExternalTake BY <2>3 DEF ExternalTake, GateFree
  <2>4. CASE ExternalRelease BY <2>4 DEF ExternalRelease
  <2>5. CASE \E t \in WakeTexts : FailedWakeReturns(t)
    BY <2>5 DEF FailedWakeReturns
  <2>. QED  BY <1>10, <2>1, <2>2, <2>3, <2>4, <2>5 DEF Environment
<1>. QED  BY <1>1, <1>2, <1>3, <1>4, <1>5, <1>6, <1>7, <1>8, <1>9, <1>10 DEF Next, Proceed

\* Every step is one of the allowed ones.
LEMMA ObservableSteps ==
  ASSUME TypeOK, ControlInv, [Next]_vars
  PROVE  ObservableStep
<1> USE ActorAssumption
      DEF TypeOK, ControlInv, GateInv, StartInv, ClosingInv, ObservableStep,
             flags, Stages, Points, Outside, Holding, HoldingInBody, InBody,
             LoopPoints, ClosingPoints, RoundPoints, LatePoints
<1>1. CASE UNCHANGED vars BY <1>1 DEF vars, state
<1>2. ASSUME NEW a \in Actors, SubmitStep(a)
      PROVE  ObservableStep
  <2>1. CASE MobileDispose(a) BY <2>1 DEF MobileDispose, UnlessRepeated, Go, state
  <2>2. CASE SubmitDispose(a) BY <2>2 DEF SubmitDispose, Go, NotTaken, state
  <2>3. CASE SubmitPush(a) BY <2>3 DEF SubmitPush, Go
  <2>4. CASE Enqueue(a) BY <2>4 DEF Enqueue, Go
  <2>5. CASE SubmitAcquire(a)
    BY <2>5 DEF SubmitAcquire, Go, TakeGate, GateFree
  <2>6. CASE SubmitRefused(a)
    BY <2>6 DEF SubmitRefused, Go, NotTaken, GateFree, state
  <2>7. CASE SubmitSwap(a) BY <2>7 DEF SubmitSwap, Go, Busy
  <2>8. CASE SubmitDuplicate(a) BY <2>8 DEF SubmitDuplicate, EndBody
  <2>9. CASE SubmitClaim(a) BY <2>9 DEF SubmitClaim, Go
  <2>10. CASE SubmitPrepare(a) BY <2>10 DEF SubmitPrepare, Go
  <2>11. CASE SubmitAbort(a) BY <2>11 DEF SubmitAbort, EndBody
  <2>12. CASE SubmitLaunch(a) BY <2>12 DEF SubmitLaunch, Go
  <2>13. CASE DropLease(a) BY <2>13 DEF DropLease, Go, NotTaken, UnlessRepeated
  <2>. QED  BY <1>2, <2>1, <2>2, <2>3, <2>4, <2>5, <2>6, <2>7, <2>8, <2>9,
       <2>10, <2>11, <2>12, <2>13 DEF SubmitStep
<1>3. ASSUME NEW a \in Actors, LoopStep(a)
      PROVE  ObservableStep
  <2>1. CASE TaskFail(a) BY <2>1 DEF TaskFail, FailRound, Go, IsRound, state
  <2>2. CASE EnterLoop(a) BY <2>2 DEF EnterLoop, Go
  <2>3. CASE ClearStaleAppends(a) BY <2>3 DEF ClearStaleAppends, Go
  <2>4. CASE DrainAppends(a) BY <2>4 DEF DrainAppends, Go
  <2>5. CASE StopOnCancel(a) BY <2>5 DEF StopOnCancel, Go, state
  <2>6. CASE InjectDoorbell(a) BY <2>6 DEF InjectDoorbell, Go
  <2>7. CASE NextIteration(a) BY <2>7 DEF NextIteration, Go
  <2>8. CASE LeaveLoop(a) BY <2>8 DEF LeaveLoop, Go, state
  <2>9. CASE AbandonLoop(a) BY <2>9 DEF AbandonLoop, Go, state
  <2>. QED  BY <1>3, <2>1, <2>2, <2>3, <2>4, <2>5, <2>6, <2>7, <2>8, <2>9 DEF LoopStep
<1>4. ASSUME NEW a \in Actors, EndStep(a)
      PROVE  ObservableStep
  <2>1. CASE RoundDone(a) BY <2>1 DEF RoundDone, Go
  <2>2. CASE RelockRuntime(a) BY <2>2 DEF RelockRuntime, Go, state
  <2>3. CASE RoundRebuild(a) BY <2>3 DEF RoundRebuild, state
  <2>4. CASE RebuildDone(a) BY <2>4 DEF RebuildDone, Go, state
  <2>5. CASE RoundError(a) BY <2>5 DEF RoundError, FailRound, IsRound, state
  <2>6. CASE RetryDone(a) BY <2>6 DEF RetryDone, Go, state
  <2>7. CASE Finalize(a) BY <2>7 DEF Finalize, Go
  <2>8. CASE ClosingWork(a) BY <2>8 DEF ClosingWork, Go
  <2>9. CASE EndTakeQueue(a) BY <2>9 DEF EndTakeQueue, Go
  <2>10. CASE EndIdle(a) BY <2>10 DEF EndIdle, EndBody
  <2>11. CASE EndReleaseGate(a) BY <2>11 DEF EndReleaseGate, Go
  <2>. QED  BY <1>4, <2>1, <2>2, <2>3, <2>4, <2>5, <2>6, <2>7, <2>8, <2>9,
       <2>10, <2>11 DEF EndStep
<1>5. ASSUME NEW a \in Actors, WakeStep(a)
      PROVE  ObservableStep
  <2>1. CASE ReplayTake(a) BY <2>1 DEF ReplayTake
  <2>2. CASE ReplayCheck(a) BY <2>2 DEF ReplayCheck, Go, state
  <2>3. CASE WakeLoad(a) BY <2>3 DEF WakeLoad, Go, Busy, state
  <2>4. CASE DeferLoad(a) BY <2>4 DEF DeferLoad, Go, Busy, state
  <2>5. CASE DeferPush(a) BY <2>5 DEF DeferPush, Go
  <2>. QED  BY <1>5, <2>1, <2>2, <2>3, <2>4, <2>5 DEF WakeStep
<1>6. ASSUME NEW a \in Actors, RetryStep(a)
      PROVE  ObservableStep
  <2>1. CASE RetryAcquire(a) BY <2>1 DEF RetryAcquire, Go, TakeGate, GateFree
  <2>2. CASE RetryRefused(a) BY <2>2 DEF RetryRefused, Go, GateFree
  <2>3. CASE RetrySwap(a) BY <2>3 DEF RetrySwap, Go, Busy
  <2>4. CASE RetryPrepare(a) BY <2>4 DEF RetryPrepare, Go
  <2>. QED  BY <1>6, <2>1, <2>2, <2>3, <2>4 DEF RetryStep
<1>7. ASSUME NEW a \in Actors, RefineStep(a)
      PROVE  ObservableStep
  <2>1. CASE RefineAcquire(a)
    BY <2>1 DEF RefineAcquire, Go, TakeGate, GateFree
  <2>2. CASE RefineRefused(a) BY <2>2 DEF RefineRefused, Go, GateFree
  <2>3. CASE RefineCompare(a) BY <2>3 DEF RefineCompare, Go, Busy, state
  <2>4. CASE RefineExchange(a) BY <2>4 DEF RefineExchange, Go
  <2>5. CASE RefineRollback(a) BY <2>5 DEF RefineRollback, Go
  <2>6. CASE RefinePrepare(a) BY <2>6 DEF RefinePrepare, Go
  <2>7. CASE RefineClearFlag(a) BY <2>7 DEF RefineClearFlag, Go
  <2>8. CASE RefineLoopDone(a) BY <2>8 DEF RefineLoopDone, Go, state
  <2>9. CASE RefineDropGate(a) BY <2>9 DEF RefineDropGate, Go
  <2>10. CASE RefineLateFlag(a) BY <2>10 DEF RefineLateFlag, Go
  <2>11. CASE RefineLateIdle(a) BY <2>11 DEF RefineLateIdle, EndBody
  <2>. QED  BY <1>7, <2>1, <2>2, <2>3, <2>4, <2>5, <2>6, <2>7, <2>8, <2>9,
       <2>10, <2>11 DEF RefineStep
<1>8. ASSUME NEW a \in Actors, ResetStep(a)
      PROVE  ObservableStep
  <2>1. CASE ResetCancel(a) BY <2>1 DEF ResetCancel, Go
  <2>2. CASE ResetSeesIdle(a) BY <2>2 DEF ResetSeesIdle, Go, Busy, state
  <2>3. CASE ResetTimeout(a) BY <2>3 DEF ResetTimeout, Go, Busy, state
  <2>4. CASE ResetClearQueue(a) BY <2>4 DEF ResetClearQueue, Go
  <2>. QED  BY <1>8, <2>1, <2>2, <2>3, <2>4 DEF ResetStep
<1>9. ASSUME NEW a \in Actors, Call(a)
      PROVE  ObservableStep
  <2>1. CASE \E m \in Messages : DesktopBegin(a, m)
    BY <2>1 DEF DesktopBegin, Enter, state
  <2>2. CASE \E m \in Messages : MobileBegin(a, m)
    BY <2>2 DEF MobileBegin, Enter, state
  <2>3. CASE \E m \in Messages : AppendInstruction(a, m)
    BY <2>3 DEF AppendInstruction, Enter, Busy, state
  <2>4. CASE \E w \in Wakes : Doorbell(a, w) BY <2>4 DEF Doorbell, Enter
  <2>5. CASE RetryBegin(a) BY <2>5 DEF RetryBegin, Enter
  <2>6. CASE RefineBegin(a) BY <2>6 DEF RefineBegin, Enter
  <2>7. CASE ResetBegin(a) BY <2>7 DEF ResetBegin, Busy, state
  <2>8. CASE SubTaskDrain(a) BY <2>8 DEF SubTaskDrain, Go
  <2>. QED  BY <1>9, <2>1, <2>2, <2>3, <2>4, <2>5, <2>6, <2>7, <2>8 DEF Call
<1>10. CASE Environment
  <2>1. CASE Interrupt BY <2>1 DEF Interrupt
  <2>2. CASE \E i \in 1 .. Len(appendQueue) : RemoveAppend(i)
    BY <2>2 DEF RemoveAppend
  <2>3. CASE ExternalTake BY <2>3 DEF ExternalTake, GateFree
  <2>4. CASE ExternalRelease BY <2>4 DEF ExternalRelease
  <2>5. CASE \E t \in WakeTexts : FailedWakeReturns(t)
    BY <2>5 DEF FailedWakeReturns
  <2>. QED  BY <1>10, <2>1, <2>2, <2>3, <2>4, <2>5 DEF Environment
<1>. QED  BY <1>1, <1>2, <1>3, <1>4, <1>5, <1>6, <1>7, <1>8, <1>9, <1>10 DEF Next, Proceed
-----------------------------------------------------------------------------
\* The invariant holds at the start.
LEMMA InitIInv == Init => IInv
<1> SUFFICES ASSUME Init
             PROVE  IInv
  OBVIOUS
<1> USE BoundAssumption, ActorAssumption DEF Init
<1>1. TypeOK
  <2>1. appendQueue \in Seq(Texts)
    BY EmptySeq
  <2>2. 0 \in 0 .. MaxIterations - 1
    OBVIOUS
  <2>3. resetSaw \in [Actors -> SUBSET Actors]
    OBVIOUS
  <2>. QED  BY <2>1, <2>2, <2>3
            DEF TypeOK, Stages, MaybeTexts, Points, Outside, Commands
<1>2. CommandInv
  BY DEF CommandInv, RefineFlagPoints, LoopPoints, LatePoints
<1>3. ControlInv
  BY DEF ControlInv, GateInv, OneBody, StageHonest, ExchangeInv, StartInv,
         ClosingInv, Bodies, InBody, Holding, HoldingInBody, LoopPoints,
         ClosingPoints, RoundPoints, LatePoints
<1>4. RefineFlagHonest
  BY DEF RefineFlagHonest, RefineFlagHolders
<1>5. ResetInv
  BY DEF ResetInv
<1>. QED  BY <1>1, <1>2, <1>3, <1>4, <1>5 DEF IInv

\* Every step keeps the invariant.
LEMMA NextIInv == IInv /\ [Next]_vars => IInv'
<1> SUFFICES ASSUME IInv, [Next]_vars
             PROVE  IInv'
  OBVIOUS
<1>1. TypeOK /\ CommandInv /\ ControlInv /\ RefineFlagHonest /\ ResetInv
  BY DEF IInv
<1>. QED  BY <1>1, TypeStep, CommandStep, ControlStep, RefineFlagStep,
             ResetHistoryStep DEF IInv

\* The inductive invariant.
THEOREM Invariance == Spec => []IInv
  BY InitIInv, NextIInv, PTL DEF Spec

\* Every variable keeps its type, for any number of invocations and messages
\* and any loop bound.
THEOREM TypeCorrect == Spec => []TypeOK
<1>1. IInv => TypeOK
  BY DEF IInv
<1>. QED  BY <1>1, Invariance, PTL

\* At most one execution body runs, whatever commands race for it: the gate
\* decides between rounds, retries and refines, and the stage between them and
\* the end of a refine that has already let the gate go.
THEOREM OneBodyAtATime == Spec => []OneBody
<1>1. IInv => OneBody
  BY DEF IInv, ControlInv
<1>. QED  BY <1>1, Invariance, PTL

\* The stage is Idle exactly when no body runs.
THEOREM StageIsHonest == Spec => []StageHonest
<1>1. IInv => StageHonest
  BY DEF IInv, ControlInv
<1>. QED  BY <1>1, Invariance, PTL

\* Rounds and retries hold the gate from before their body to after it.
THEOREM RoundHoldsGate == Spec => []RoundKeepsGate
<1>1. ASSUME IInv PROVE RoundKeepsGate
  BY <1>1 DEF IInv, ControlInv, GateInv, CommandInv, RoundKeepsGate, Bodies,
              InBody, Holding
<1>. QED  BY <1>1, Invariance, PTL

\* refine_active is up exactly while one refine can still take it down.
THEOREM RefineFlagIsHonest == Spec => []RefineFlagHonest
<1>1. IInv => RefineFlagHonest
  BY DEF IInv
<1>. QED  BY <1>1, Invariance, PTL

\* A force_reset that clears the queue has seen every earlier body end.
THEOREM ResetWaits == Spec => []ResetWaitsForOldBody
<1>1. IInv => ResetWaitsForOldBody
  BY DEF IInv, ResetInv, ResetWaitsForOldBody
<1>. QED  BY <1>1, Invariance, PTL

\* Finalizing is left for Idle only.
THEOREM FinalizingLeadsOnlyToIdle == Spec => FinalizingIsFinal
<1>1. IInv /\ [Next]_vars =>
        [stage = "Finalizing" => stage' \in {"Finalizing", "Idle"}]_vars
  BY ObservableSteps DEF IInv, ObservableStep
<1>. QED  BY <1>1, Invariance, PTL DEF Spec, FinalizingIsFinal

\* A cancel is only ever voided by a body that is starting.
THEOREM CancelVoidedByStartOnly == Spec => CancelOutlivesBody
<1>1. IInv /\ [Next]_vars =>
        [cancelFlag /\ ~cancelFlag' => stage = "Running"]_vars
  BY ObservableSteps DEF IInv, ObservableStep
<1>. QED  BY <1>1, Invariance, PTL DEF Spec, CancelOutlivesBody

\* The gate of this specification implements the single slot.
THEOREM GateImplementsSlot == Spec => GateNeverHandedOver
<1>1. Init => GateSlot!Init
  BY DEF Init, GateSlot!Init
<1>2. IInv /\ [Next]_vars => [GateSlot!Next]_holder
  BY ObservableSteps
  DEF IInv, ObservableStep, GateSlot!Next, GateSlot!Take, GateSlot!GiveUp
<1>. QED  BY <1>1, <1>2, Invariance, PTL DEF Spec, GateNeverHandedOver, GateSlot!Spec

\* In a step at most one invocation moves, and only a loop's own body counts.
OnlyMoves(a) ==
  /\ \A b \in Actors \ {a} : pc'[b] = pc[b] /\ cmd'[b] = cmd[b]
  /\ iteration' = iteration \/ pc[a] \in {"task", "step"}

LEMMA StepOf ==
  ASSUME TypeOK, NEW a \in Actors, Call(a) \/ Proceed(a)
  PROVE  OnlyMoves(a)
<1> USE DEF TypeOK, OnlyMoves
<1>1. CASE SubmitStep(a)
  BY <1>1 DEF SubmitStep, MobileDispose, SubmitDispose, SubmitPush, Enqueue,
       SubmitAcquire, SubmitRefused, SubmitSwap, SubmitDuplicate,
       SubmitClaim, SubmitPrepare, SubmitAbort, SubmitLaunch, DropLease, Go,
       EndBody, state
<1>2. CASE LoopStep(a)
  BY <1>2 DEF LoopStep, TaskFail, FailRound, EnterLoop, ClearStaleAppends,
       DrainAppends, StopOnCancel, InjectDoorbell, NextIteration, LeaveLoop,
       AbandonLoop, Go, state
<1>3. CASE EndStep(a)
  BY <1>3 DEF EndStep, RoundDone, RelockRuntime, RoundRebuild, RebuildDone,
       RoundError, FailRound, RetryDone, Finalize, ClosingWork, EndTakeQueue,
       EndIdle, EndReleaseGate, Go, EndBody, state
<1>4. CASE WakeStep(a)
  BY <1>4 DEF WakeStep, ReplayTake, ReplayCheck, WakeLoad, DeferLoad,
       DeferPush, Go, state
<1>5. CASE RetryStep(a)
  BY <1>5 DEF RetryStep, RetryAcquire, RetryRefused, RetrySwap,
       RetryPrepare, Go, state
<1>6. CASE RefineStep(a)
  BY <1>6 DEF RefineStep, RefineAcquire, RefineRefused, RefineCompare,
       RefineExchange, RefineRollback, RefinePrepare, RefineClearFlag,
       RefineLoopDone, RefineDropGate, RefineLateFlag, RefineLateIdle, Go,
       EndBody, state
<1>7. CASE ResetStep(a)
  BY <1>7 DEF ResetStep, ResetCancel, ResetSeesIdle, ResetTimeout,
       ResetClearQueue, Go, state
<1>8. CASE Call(a)
  BY <1>8 DEF Call, DesktopBegin, MobileBegin, AppendInstruction, Doorbell,
       RetryBegin, RefineBegin, ResetBegin, SubTaskDrain, Enter, Go, state
<1>. QED  BY <1>1, <1>2, <1>3, <1>4, <1>5, <1>6, <1>7, <1>8 DEF Proceed

LEMMA OneMoves ==
  ASSUME TypeOK, [Next]_vars, Actors # {}
  PROVE  \E a \in Actors : OnlyMoves(a)
<1>1. CASE \E a \in Actors : Call(a) \/ Proceed(a)
  BY <1>1, StepOf
<1>2. CASE UNCHANGED vars
  BY <1>2 DEF vars, state, OnlyMoves
<1>3. CASE Environment
  BY <1>3 DEF Environment, Interrupt, RemoveAppend, ExternalTake,
       ExternalRelease, FailedWakeReturns, OnlyMoves
<1>. QED  BY <1>1, <1>2, <1>3 DEF Next

\* The execution body of this specification implements the single slot: bodies
\* follow each other, and none is replaced by another in one step.
THEOREM BodyImplementsSlot == Spec => BodyNeverHandedOver
<1>1. ASSUME Init PROVE BodySlot!Init
  BY <1>1 DEF Init, BodySlot!Init, CurrentBody, Bodies, InBody, HoldingInBody,
              LoopPoints, ClosingPoints, RoundPoints, LatePoints
<1>2. ASSUME IInv, IInv', [Next]_vars
      PROVE  [BodySlot!Next]_CurrentBody
  <2>1. TypeOK /\ OneBody /\ OneBody'
    BY <1>2 DEF IInv, ControlInv
  <2>2. CASE Actors = {}
    BY <2>2 DEF CurrentBody, Bodies
  <2>3. CASE Actors # {}
    <3>1. PICK a \in Actors : \A b \in Actors \ {a} : pc'[b] = pc[b]
      BY <1>2, <2>1, <2>3, OneMoves DEF OnlyMoves
    <3>2. Bodies \ {a} = Bodies' \ {a}
      BY <3>1 DEF Bodies
    <3>3. Bodies \subseteq Actors /\ Bodies' \subseteq Actors
      BY DEF Bodies
    <3>4. CASE Bodies = Bodies'
      BY <3>4 DEF CurrentBody
    <3>5. CASE a \in Bodies /\ a \notin Bodies'
      <4>1. Bodies = {a} /\ Bodies' = {}
        BY <2>1, <3>2, <3>5 DEF OneBody
      <4>2. CurrentBody = a /\ CurrentBody' = NoActor
        BY <4>1 DEF CurrentBody
      <4>. QED  BY <4>2 DEF BodySlot!Next, BodySlot!GiveUp
    <3>6. CASE a \notin Bodies /\ a \in Bodies'
      <4>1. Bodies = {} /\ Bodies' = {a}
        BY <2>1, <3>2, <3>6 DEF OneBody
      <4>2. CurrentBody = NoActor /\ CurrentBody' = a
        BY <4>1 DEF CurrentBody
      <4>. QED  BY <4>2 DEF BodySlot!Next, BodySlot!Take
    <3>. QED  BY <3>2, <3>4, <3>5, <3>6
  <2>. QED  BY <2>2, <2>3
<1>. QED  BY <1>1, <1>2, Invariance, PTL
          DEF Spec, BodyNeverHandedOver, BodySlot!Spec

Descends(a) == /\ Rank(a)' <= Rank(a)
               /\ pc'[a] # pc[a] => Rank(a)' < Rank(a)

\* The distance is a natural number, and what is left of a lap is part of it.
LEMMA RankIsNat ==
  ASSUME TypeOK, NEW a \in Actors
  PROVE  /\ Left \in 1 .. MaxIterations
         /\ Lap \in Nat
         /\ 3 * Left + 8 <= Lap
         /\ Rank(a) \in Nat
<1>1. Left \in 1 .. MaxIterations
  BY BoundAssumption DEF TypeOK, Left
<1>2. Lap \in Nat /\ 3 * Left + 8 <= Lap
  BY <1>1, BoundAssumption DEF Lap
<1>3. Rank(a) \in Nat
  <2> DEFINE lap == Lap
             left == Left
             again == IF cmd[a] \in {"desktop", "mobile", "wake"} THEN lap ELSE 0
  <2>1. left \in Nat /\ lap \in Nat /\ again \in Nat /\ lap > 3
    BY <1>1, <1>2, BoundAssumption
  <2>2. CASE pc[a] \in {"swap", "refineRead", "claim", "prepare", "retrySwap",
                        "refineWrite", "launch", "retryPrepare",
                        "refinePrepare", "task", "clear"}
    <3>1. Rank(a) \in {again + lap + 3, again + lap + 2, again + lap + 1, again + lap,
                       again + lap - 1, again + lap - 2}
      BY <2>2 DEF Rank
    <3>. HIDE DEF again, lap, left
    <3>. QED  BY <2>1, <3>1
  <2>3. CASE pc[a] \in {"iterate", "check", "step", "exit"}
    <3>1. Rank(a) \in {again + 3 * left + 5, again + 3 * left + 4,
                       again + 3 * left + 3, again + 5}
      BY <2>3 DEF Rank
    <3>. HIDE DEF again, lap, left
    <3>. QED  BY <2>1, <3>1
  <2>4. CASE pc[a] \notin {"swap", "refineRead", "claim", "prepare",
                           "retrySwap", "refineWrite", "launch",
                           "retryPrepare", "refinePrepare", "task", "clear",
                           "iterate", "check", "step", "exit"}
    <3>1. Rank(a) \in {4, 3, 2, 1, 0}
      BY <2>4 DEF Rank
    <3>. QED  BY <3>1
  <2>. QED  BY <2>2, <2>3, <2>4
<1>. QED  BY <1>1, <1>2, <1>3

\* Inside its loop a body is farther from its end than at any closing point.
LEMMA LoopIsFar ==
  ASSUME TypeOK, NEW a \in Actors, pc[a] \in {"task", "check", "step"}
  PROVE  Rank(a) > 3
<1> DEFINE lap == Lap
           left == Left
           again == IF cmd[a] \in {"desktop", "mobile", "wake"} THEN lap ELSE 0
<1>1. left \in Nat /\ lap \in Nat /\ again \in Nat /\ lap > 8 /\ left > 0
  BY RankIsNat
<1>2. Rank(a) \in {again + lap - 1, again + 3 * left + 4, again + 3 * left + 3}
  BY DEF Rank
<1>. HIDE DEF again, lap, left
<1>. QED  BY <1>1, <1>2

LEMMA Nearer ==
  ASSUME TypeOK, NEW a \in Actors, pc[a] \in {"task", "check", "step"},
         Rank(a)' \in {1, 2, 3}
  PROVE  Descends(a)
<1>1. Rank(a) > 3 /\ Rank(a) \in Nat
  BY LoopIsFar, RankIsNat
<1> DEFINE old == Rank(a)
           new == Rank(a)'
<1>2. new <= old /\ new < old
  <2>. HIDE DEF old
  <2>. HIDE DEF new
  <2>1. new \in {1, 2, 3}
    BY DEF new
  <2>2. old > 3 /\ old \in Nat
    BY <1>1 DEF old
  <2>. QED  BY <2>1, <2>2
<1>. QED  BY <1>2 DEF Descends

\* An early error and an abandoned loop lead straight to the end.
LEMMA ShortcutDescends ==
  ASSUME TypeOK, NEW a \in Actors, TaskFail(a) \/ AbandonLoop(a)
  PROVE  Descends(a)
<1>1. pc[a] \in {"task", "check", "step"}
  BY DEF TaskFail, AbandonLoop, FailRound, Go
<1>2. pc'[a] \in {"endTake", "endIdle", "refineFlag", "refineDropGate"}
  BY DEF TypeOK, TaskFail, AbandonLoop, FailRound, Go
<1>3. Rank(a)' \in {1, 2, 3}
  BY <1>2 DEF Rank
<1>. QED  BY <1>1, <1>3, Nearer

\* What a lap counts covers the whole loop, which starts at its first iteration.
LEMMA EnterDescends ==
  ASSUME TypeOK, NEW a \in Actors, EnterLoop(a)
  PROVE  Descends(a)
<1> DEFINE lap == Lap
           again == IF cmd[a] \in {"desktop", "mobile", "wake"} THEN lap ELSE 0
<1>1. lap = 3 * MaxIterations + 8 /\ lap' = lap /\ again' = again
  BY DEF Lap, EnterLoop, Go
<1>2. Left' = MaxIterations
  BY BoundAssumption DEF Left, EnterLoop
<1>3. Rank(a) = again + lap - 1
  BY DEF Rank, EnterLoop, Go
<1>4. pc'[a] \in {"clear", "iterate"}
  BY DEF TypeOK, EnterLoop, Go
<1>5. Rank(a)' \in {again + lap - 2, again + 3 * MaxIterations + 5}
  <2>1. CASE pc'[a] = "clear"
    <3>1. Rank(a)' = again' + lap' - 2
      BY <2>1 DEF Rank
    <3>. QED  BY <3>1, <1>1
  <2>2. CASE pc'[a] = "iterate"
    <3>1. Rank(a)' = again' + 3 * Left' + 5
      BY <2>2 DEF Rank
    <3>. QED  BY <3>1, <1>1, <1>2
  <2>. QED  BY <1>4, <2>1, <2>2
<1>6. again \in Nat /\ lap \in Nat
  BY RankIsNat
<1>. HIDE DEF again, lap
<1>7. Rank(a)' < Rank(a) /\ Rank(a)' <= Rank(a)
  BY <1>1, <1>3, <1>5, <1>6, BoundAssumption
<1>. QED  BY <1>7 DEF Descends

\* Each step that an invocation takes underway brings it nearer to its end.
LEMMA OwnStepDescends ==
  ASSUME TypeOK, CommandInv, NEW a \in Actors, Call(a) \/ Proceed(a),
         pc[a] \in Underway, pc'[a] \in Underway
  PROVE  Descends(a)
<1> USE BoundAssumption
    DEF TypeOK, Descends, Rank, Lap, Left, Underway, Points, Outside, Holding, HoldingInBody,
        InBody, LoopPoints, ClosingPoints, RoundPoints, LatePoints
<1>1. CASE SubmitStep(a)
  <2>1. CASE SubmitClaim(a) BY <2>1 DEF SubmitClaim, Go
  <2>2. CASE SubmitPrepare(a) BY <2>2 DEF SubmitPrepare, Go
  <2>3. CASE SubmitLaunch(a) BY <2>3 DEF SubmitLaunch, Go
  <2>4. CASE SubmitSwap(a) BY <2>4 DEF SubmitSwap, Go, CommandInv
  <2>5. CASE SubmitDuplicate(a) BY <2>5 DEF SubmitDuplicate, EndBody
  <2>6. CASE SubmitAbort(a) BY <2>6 DEF SubmitAbort, EndBody
  <2>7. CASE DropLease(a) BY <2>7 DEF DropLease, Go, NotTaken, UnlessRepeated
  <2>8. CASE \/ MobileDispose(a) \/ SubmitDispose(a) \/ SubmitPush(a)
             \/ Enqueue(a) \/ SubmitAcquire(a) \/ SubmitRefused(a)
    BY <2>8 DEF MobileDispose, SubmitDispose, SubmitPush, Enqueue, SubmitAcquire,
                SubmitRefused, Go
  <2>. QED  BY <1>1, <2>1, <2>2, <2>3, <2>4, <2>5, <2>6, <2>7, <2>8 DEF SubmitStep
<1>2. CASE LoopStep(a)
  <2>1. CASE TaskFail(a) BY <2>1, ShortcutDescends
  <2>2. CASE EnterLoop(a) BY <2>2, EnterDescends
  <2>3. CASE ClearStaleAppends(a) BY <2>3 DEF ClearStaleAppends, Go
  <2>4. CASE DrainAppends(a) BY <2>4 DEF DrainAppends, Go
  <2>5. CASE StopOnCancel(a) BY <2>5 DEF StopOnCancel, Go, state
  <2>6. CASE InjectDoorbell(a) BY <2>6 DEF InjectDoorbell, Go
  <2>7. CASE NextIteration(a) BY <2>7 DEF NextIteration, Go
  <2>8. CASE LeaveLoop(a) BY <2>8 DEF LeaveLoop, Go, state
  <2>9. CASE AbandonLoop(a) BY <2>9, ShortcutDescends
  <2>. QED  BY <1>2, <2>1, <2>2, <2>3, <2>4, <2>5, <2>6, <2>7, <2>8, <2>9 DEF LoopStep
<1>3. CASE EndStep(a)
  <2>1. CASE RoundDone(a) BY <2>1 DEF RoundDone, Go
  <2>2. CASE RelockRuntime(a) BY <2>2 DEF RelockRuntime, Go
  <2>3. CASE RoundRebuild(a) BY <2>3 DEF RoundRebuild
  <2>4. CASE RebuildDone(a) BY <2>4 DEF RebuildDone, Go
  <2>5. CASE RoundError(a) BY <2>5 DEF RoundError, FailRound, IsRound
  <2>6. CASE RetryDone(a) BY <2>6 DEF RetryDone, Go
  <2>7. CASE Finalize(a) BY <2>7 DEF Finalize, Go
  <2>8. CASE ClosingWork(a) BY <2>8 DEF ClosingWork, Go
  <2>9. CASE EndTakeQueue(a) BY <2>9 DEF EndTakeQueue, Go
  <2>10. CASE EndIdle(a) BY <2>10 DEF EndIdle, EndBody
  <2>11. CASE EndReleaseGate(a) BY <2>11 DEF EndReleaseGate, Go
  <2>. QED  BY <1>3, <2>1, <2>2, <2>3, <2>4, <2>5, <2>6, <2>7, <2>8, <2>9,
       <2>10, <2>11 DEF EndStep
<1>4. CASE WakeStep(a)
  BY <1>4 DEF WakeStep, ReplayTake, ReplayCheck, WakeLoad, DeferLoad, DeferPush, Go
<1>5. CASE RetryStep(a)
  <2>1. CASE RetryPrepare(a) BY <2>1 DEF RetryPrepare, Go
  <2>2. CASE RetrySwap(a) BY <2>2 DEF RetrySwap, Go
  <2>3. CASE RetryAcquire(a) \/ RetryRefused(a)
    BY <2>3 DEF RetryAcquire, RetryRefused, Go
  <2>. QED  BY <1>5, <2>1, <2>2, <2>3 DEF RetryStep
<1>6. CASE RefineStep(a)
  <2>1. CASE RefinePrepare(a) BY <2>1 DEF RefinePrepare, Go
  <2>2. CASE RefineClearFlag(a) BY <2>2 DEF RefineClearFlag, Go
  <2>3. CASE RefineLoopDone(a) BY <2>3 DEF RefineLoopDone, Go
  <2>4. CASE RefineDropGate(a) BY <2>4 DEF RefineDropGate, Go
  <2>5. CASE RefineLateFlag(a) BY <2>5 DEF RefineLateFlag, Go
  <2>6. CASE RefineCompare(a) BY <2>6 DEF RefineCompare, Go
  <2>7. CASE RefineExchange(a) BY <2>7 DEF RefineExchange, Go
  <2>8. CASE RefineRollback(a) BY <2>8 DEF RefineRollback, Go
  <2>9. CASE RefineAcquire(a) \/ RefineRefused(a) \/ RefineLateIdle(a)
    BY <2>9 DEF RefineAcquire, RefineRefused, RefineLateIdle, Go, EndBody
  <2>. QED  BY <1>6, <2>1, <2>2, <2>3, <2>4, <2>5, <2>6, <2>7, <2>8, <2>9
       DEF RefineStep
<1>7. CASE ResetStep(a)
  BY <1>7 DEF ResetStep, ResetCancel, ResetSeesIdle, ResetTimeout, ResetClearQueue, Go
<1>8. CASE Call(a)
  <2>1. CASE SubTaskDrain(a) BY <2>1 DEF SubTaskDrain, Go
  <2>2. CASE ~SubTaskDrain(a)
    BY <1>8, <2>2 DEF Call, DesktopBegin, MobileBegin, AppendInstruction, Doorbell,
                      RetryBegin, RefineBegin, ResetBegin, Enter
  <2>. QED  BY <2>1, <2>2
<1>. QED  BY <1>1, <1>2, <1>3, <1>4, <1>5, <1>6, <1>7, <1>8 DEF Proceed

\* Nobody else touches what the distance is measured in: the counter belongs to
\* the one body.
LEMMA OtherStepsKeepRank ==
  ASSUME TypeOK, OneBody, NEW a \in Actors, NEW b \in Actors, a # b, OnlyMoves(a)
  PROVE  Rank(b)' = Rank(b) /\ pc'[b] = pc[b]
<1>1. pc'[b] = pc[b] /\ cmd'[b] = cmd[b]
  BY DEF OnlyMoves
<1>2. CASE pc[b] \in LoopPoints
  <2>1. pc[a] \notin InBody
    BY <1>2 DEF OneBody, Bodies, InBody, HoldingInBody
  <2>2. iteration' = iteration
    BY <2>1 DEF OnlyMoves, InBody, HoldingInBody, LoopPoints
  <2>. QED  BY <1>1, <2>2 DEF Rank, Left
<1>3. CASE pc[b] \notin LoopPoints
  BY <1>1, <1>3 DEF Rank, Lap, LoopPoints
<1>. QED  BY <1>2, <1>3

\* For any number of invocations and any bound of the loop, who holds the gate or
\* the stage moves only towards its end.  With fair scheduling of Proceed this is
\* why both come free again.
THEOREM BodiesDescend == Spec => BodyDescends
<1>1. ASSUME IInv, [Next]_vars, NEW b \in Actors, pc[b] \in Underway, pc'[b] \in Underway
      PROVE  Descends(b)
  <2>1. TypeOK /\ CommandInv /\ OneBody
    BY <1>1 DEF IInv, ControlInv
  <2>2. Rank(b) \in Nat
    BY <2>1, RankIsNat
  <2>3. CASE Call(b) \/ Proceed(b)
    BY <1>1, <2>1, <2>3, OwnStepDescends
  <2>4. CASE \E a \in Actors \ {b} : OnlyMoves(a)
    BY <1>1, <2>1, <2>2, <2>4, OtherStepsKeepRank DEF Descends
  <2>5. CASE Environment \/ UNCHANGED vars
    <3>1. pc' = pc /\ cmd' = cmd /\ iteration' = iteration
      BY <2>5 DEF Environment, Interrupt, RemoveAppend, ExternalTake,
                  ExternalRelease, FailedWakeReturns, vars, state
    <3>2. Rank(b)' = Rank(b)
      BY <3>1 DEF Rank, Left
    <3>. QED  BY <2>2, <3>1, <3>2 DEF Descends
  <2>6. ASSUME NEW a \in Actors \ {b}, Call(a) \/ Proceed(a)
        PROVE  OnlyMoves(a)
    BY <2>1, <2>6, StepOf
  <2>. QED  BY <1>1, <2>3, <2>4, <2>5, <2>6 DEF Next
<1>2. IInv /\ [Next]_vars =>
        [\A a \in Actors : pc[a] \in Underway /\ pc'[a] \in Underway =>
           /\ Rank(a)' <= Rank(a)
           /\ pc'[a] # pc[a] => Rank(a)' < Rank(a)]_vars
  BY <1>1 DEF Descends
<1>. QED  BY <1>2, Invariance, PTL DEF Spec, BodyDescends
-----------------------------------------------------------------------------
\* Where a round is while it is sure to clear the queue before it writes Idle:
\* from its spawn to the take of its guard.
TakingPoints == LoopPoints \cup {"relock", "finalize", "tail", "endTake"}
Takes(a) == /\ cmd[a] \in {"desktop", "mobile", "wake", "rebuild", "failed"}
            /\ pc[a] \in TakingPoints
RoundOpen == \E a \in Actors : Takes(a)

\* What an append needs in order not to be left behind: that such a round is
\* there when it is pushed.  The code pushes on a read of the stage that may be
\* old by then, and on a Running that may belong to a retry, a refine or a round
\* that is not spawned yet.
AppendsInTime == [][Len(appendQueue') > Len(appendQueue) => RoundOpen']_vars

QueueHasTaker == appendQueue # <<>> => RoundOpen

\* A round that takes goes on taking until it has emptied the queue.
LEMMA TakerStays ==
  ASSUME TypeOK, CommandInv, NEW a \in Actors, Call(a) \/ Proceed(a), Takes(a)
  PROVE  Takes(a)' \/ appendQueue' = <<>>
<1> USE DEF TypeOK, CommandInv, Takes, TakingPoints, LoopPoints, RefineFlagPoints,
            LatePoints
<1>1. CASE SubmitStep(a)
  BY <1>1 DEF SubmitStep, MobileDispose, SubmitDispose, SubmitPush, Enqueue,
       SubmitAcquire, SubmitRefused, SubmitSwap, SubmitDuplicate,
       SubmitClaim, SubmitPrepare, SubmitAbort, SubmitLaunch, DropLease, Go,
       EndBody, state
<1>2. CASE LoopStep(a)
  BY <1>2 DEF LoopStep, TaskFail, FailRound, IsRound, EnterLoop,
       ClearStaleAppends, DrainAppends, StopOnCancel, InjectDoorbell,
       NextIteration, LeaveLoop, AbandonLoop, Go, state
<1>3. CASE EndStep(a)
  BY <1>3 DEF EndStep, RoundDone, RelockRuntime, RoundRebuild, RebuildDone,
       RoundError, FailRound, IsRound, RetryDone, Finalize, ClosingWork,
       EndTakeQueue, EndIdle, EndReleaseGate, Go, EndBody, state
<1>4. CASE WakeStep(a)
  BY <1>4 DEF WakeStep, ReplayTake, ReplayCheck, WakeLoad, DeferLoad,
       DeferPush, Go, state
<1>5. CASE RetryStep(a)
  BY <1>5 DEF RetryStep, RetryAcquire, RetryRefused, RetrySwap,
       RetryPrepare, Go, state
<1>6. CASE RefineStep(a)
  BY <1>6 DEF RefineStep, RefineAcquire, RefineRefused, RefineCompare,
       RefineExchange, RefineRollback, RefinePrepare, RefineClearFlag,
       RefineLoopDone, RefineDropGate, RefineLateFlag, RefineLateIdle, Go,
       EndBody, state
<1>7. CASE ResetStep(a)
  BY <1>7 DEF ResetStep, ResetCancel, ResetSeesIdle, ResetTimeout,
       ResetClearQueue, Go, state
<1>8. CASE Call(a)
  BY <1>8 DEF Call, DesktopBegin, MobileBegin, AppendInstruction, Doorbell,
       RetryBegin, RefineBegin, ResetBegin, SubTaskDrain, Enter, Go, state
<1>. QED  BY <1>1, <1>2, <1>3, <1>4, <1>5, <1>6, <1>7, <1>8 DEF Proceed

\* A command keeps the queue, empties it or makes it longer.
LEMMA QueueSteps ==
  ASSUME TypeOK, CommandInv, NEW a \in Actors, Call(a) \/ Proceed(a)
  PROVE  \/ appendQueue' \in {<<>>, appendQueue}
         \/ Len(appendQueue') > Len(appendQueue)
<1>1. CASE SubmitPush(a) \/ Enqueue(a)
  <2>1. msg[a] \in Texts
    BY <1>1 DEF CommandInv, SubmitPush, Enqueue, Go, Texts
  <2>2. appendQueue' \in {appendQueue, Append(appendQueue, msg[a])}
    BY <1>1 DEF SubmitPush, Enqueue
  <2>3. appendQueue \in Seq(Texts)
    BY DEF TypeOK
  <2>4. Len(Append(appendQueue, msg[a])) = Len(appendQueue) + 1
    BY <2>1, <2>3
  <2>5. Len(appendQueue) \in Nat
    BY <2>3
  <2>. QED  BY <2>2, <2>4, <2>5
<1>2. CASE SubmitStep(a) /\ ~(SubmitPush(a) \/ Enqueue(a))
  BY <1>2 DEF SubmitStep, MobileDispose, SubmitDispose,
       SubmitAcquire, SubmitRefused, SubmitSwap, SubmitDuplicate,
       SubmitClaim, SubmitPrepare, SubmitAbort, SubmitLaunch, DropLease, state
<1>3. CASE LoopStep(a)
  BY <1>3 DEF LoopStep, TaskFail, EnterLoop, ClearStaleAppends, DrainAppends,
       StopOnCancel, InjectDoorbell, NextIteration, LeaveLoop, AbandonLoop, state
<1>4. CASE EndStep(a)
  BY <1>4 DEF EndStep, RoundDone, RelockRuntime, RoundRebuild, RebuildDone,
       RoundError, RetryDone, Finalize, ClosingWork, EndTakeQueue, EndIdle,
       EndReleaseGate, state
<1>5. CASE WakeStep(a)
  BY <1>5 DEF WakeStep, ReplayTake, ReplayCheck, WakeLoad, DeferLoad,
       DeferPush, state
<1>6. CASE RetryStep(a)
  BY <1>6 DEF RetryStep, RetryAcquire, RetryRefused, RetrySwap, RetryPrepare
<1>7. CASE RefineStep(a)
  BY <1>7 DEF RefineStep, RefineAcquire, RefineRefused, RefineCompare,
       RefineExchange, RefineRollback, RefinePrepare, RefineClearFlag,
       RefineLoopDone, RefineDropGate, RefineLateFlag, RefineLateIdle, state
<1>8. CASE ResetStep(a)
  BY <1>8 DEF ResetStep, ResetCancel, ResetSeesIdle, ResetTimeout,
       ResetClearQueue, state
<1>9. CASE Call(a)
  BY <1>9 DEF Call, DesktopBegin, MobileBegin, AppendInstruction, Doorbell,
       RetryBegin, RefineBegin, ResetBegin, SubTaskDrain, state
<1>. QED  BY <1>1, <1>2, <1>3, <1>4, <1>5, <1>6, <1>7, <1>8, <1>9 DEF Proceed

\* When every append is pushed while a round is there to take it, the stage is
\* never Idle with appends waiting, for any number of invocations and messages:
\* the appends that are left behind, which the run lifecycle_idle_queue shows,
\* are those that were pushed too late, too early, or into a retry or a refine.
THEOREM NoIdleWithAppendsInTime == Spec /\ AppendsInTime => []NoIdleWithAppends
<1>1. Init => QueueHasTaker
  BY DEF Init, QueueHasTaker
<1>2. ASSUME IInv, QueueHasTaker, [Next]_vars,
             [Len(appendQueue') > Len(appendQueue) => RoundOpen']_vars
      PROVE  QueueHasTaker'
  <2>1. TypeOK /\ CommandInv
    BY <1>2 DEF IInv
  <2>2. CASE UNCHANGED vars
    BY <1>2, <2>2 DEF QueueHasTaker, RoundOpen, Takes, vars, state
  <2>3. CASE Environment
    <3>1. UNCHANGED <<pc, cmd>>
      BY <2>3 DEF Environment, Interrupt, RemoveAppend, ExternalTake,
                  ExternalRelease, FailedWakeReturns
    <3>2. RoundOpen' = RoundOpen
      BY <3>1 DEF RoundOpen, Takes
    <3>3. appendQueue = <<>> => appendQueue' = <<>>
      BY <2>3 DEF Environment, Interrupt, RemoveAppend, ExternalTake,
                  ExternalRelease, FailedWakeReturns
    <3>. QED  BY <1>2, <3>2, <3>3 DEF QueueHasTaker
  <2>4. ASSUME ~UNCHANGED vars, NEW a \in Actors, Call(a) \/ Proceed(a)
        PROVE  QueueHasTaker'
    <3>1. CASE appendQueue' = <<>>
      BY <3>1 DEF QueueHasTaker
    <3>2. CASE Len(appendQueue') > Len(appendQueue)
      BY <1>2, <2>4, <3>2 DEF QueueHasTaker
    <3>3. CASE appendQueue' = appendQueue /\ appendQueue # <<>>
      <4>1. PICK b \in Actors : Takes(b)
        BY <1>2, <3>3 DEF QueueHasTaker, RoundOpen
      <4>2. CASE b = a
        BY <2>1, <2>4, <3>3, <4>1, <4>2, TakerStays DEF QueueHasTaker, RoundOpen
      <4>3. CASE b # a
        <5>1. pc'[b] = pc[b] /\ cmd'[b] = cmd[b]
          BY <2>1, <2>4, <4>3, StepOf DEF OnlyMoves
        <5>2. Takes(b)'
          BY <4>1, <5>1 DEF Takes
        <5>. QED  BY <5>2 DEF QueueHasTaker, RoundOpen
      <4>. QED  BY <4>2, <4>3
    <3>. QED  BY <2>1, <2>4, <3>1, <3>2, <3>3, QueueSteps
  <2>. QED  BY <1>2, <2>2, <2>3, <2>4 DEF Next
<1>3. IInv /\ QueueHasTaker => NoIdleWithAppends
  <2>1. ASSUME IInv, RoundOpen PROVE stage # "Idle"
    BY <2>1 DEF IInv, ControlInv, StageHonest, Bodies, RoundOpen, Takes,
                TakingPoints, InBody, HoldingInBody, LoopPoints, ClosingPoints,
                RoundPoints
  <2>. QED  BY <2>1 DEF QueueHasTaker, NoIdleWithAppends
<1>. QED  BY <1>1, <1>2, <1>3, Invariance, PTL DEF Spec, AppendsInTime
-----------------------------------------------------------------------------
\* Where a round or a retry is while it is sure to replay the wakes that were put
\* off.  A refine never replays, and a round that is not spawned yet may still
\* return without it.
ReplayPoints == LoopPoints \cup ClosingPoints
                \cup {"retryPrepare", "relock", "finalize", "endGate", "replay"}
Replays(a) ==
  /\ cmd[a] \in {"desktop", "mobile", "wake", "rebuild", "failed", "retry"}
  /\ pc[a] \in ReplayPoints
ReplayOpen == \E a \in Actors : Replays(a)

\* What a wake needs in order to be replayed: that a body which replays is still
\* there when it is pushed.  The code pushes on a read of the stage that may be
\* old by then.
WakesInTime == [][deferredWakes' \subseteq deferredWakes \/ ReplayOpen']_vars

\* A wake that was put off has somebody on the way to its replay.
WakeHasReplay == deferredWakes # {} => ReplayOpen

\* A body that replays goes on until it has emptied the list.
LEMMA ReplayStays ==
  ASSUME TypeOK, CommandInv, NEW a \in Actors, Call(a) \/ Proceed(a), Replays(a)
  PROVE  Replays(a)' \/ deferredWakes' = {}
<1> USE DEF TypeOK, CommandInv, Replays, ReplayPoints, LoopPoints, ClosingPoints,
            RefineFlagPoints, LatePoints
<1>1. CASE SubmitStep(a)
  BY <1>1 DEF SubmitStep, MobileDispose, SubmitDispose, SubmitPush, Enqueue,
       SubmitAcquire, SubmitRefused, SubmitSwap, SubmitDuplicate,
       SubmitClaim, SubmitPrepare, SubmitAbort, SubmitLaunch, DropLease, Go,
       EndBody, state
<1>2. CASE LoopStep(a)
  BY <1>2 DEF LoopStep, TaskFail, FailRound, IsRound, EnterLoop,
       ClearStaleAppends, DrainAppends, StopOnCancel, InjectDoorbell,
       NextIteration, LeaveLoop, AbandonLoop, Go, state
<1>3. CASE EndStep(a)
  BY <1>3 DEF EndStep, RoundDone, RelockRuntime, RoundRebuild, RebuildDone,
       RoundError, FailRound, IsRound, RetryDone, Finalize, ClosingWork,
       EndTakeQueue, EndIdle, EndReleaseGate, Go, EndBody, state
<1>4. CASE WakeStep(a)
  BY <1>4 DEF WakeStep, ReplayTake, ReplayCheck, WakeLoad, DeferLoad,
       DeferPush, Go, state
<1>5. CASE RetryStep(a)
  BY <1>5 DEF RetryStep, RetryAcquire, RetryRefused, RetrySwap,
       RetryPrepare, Go, state
<1>6. CASE RefineStep(a)
  BY <1>6 DEF RefineStep, RefineAcquire, RefineRefused, RefineCompare,
       RefineExchange, RefineRollback, RefinePrepare, RefineClearFlag,
       RefineLoopDone, RefineDropGate, RefineLateFlag, RefineLateIdle, Go,
       EndBody, state
<1>7. CASE ResetStep(a)
  BY <1>7 DEF ResetStep, ResetCancel, ResetSeesIdle, ResetTimeout,
       ResetClearQueue, Go, state
<1>8. CASE Call(a)
  BY <1>8 DEF Call, DesktopBegin, MobileBegin, AppendInstruction, Doorbell,
       RetryBegin, RefineBegin, ResetBegin, SubTaskDrain, Enter, Go, state
<1>. QED  BY <1>1, <1>2, <1>3, <1>4, <1>5, <1>6, <1>7, <1>8 DEF Proceed

\* When every wake is put off while a body that replays is there, no wake is ever
\* stranded: the wakes that are, which the run lifecycle_deferred_wake shows, were
\* pushed after the body they were put off for had replayed, or for a refine.
THEOREM WakesInTimeHaveReplay == Spec /\ WakesInTime => []WakeHasReplay
<1>1. Init => WakeHasReplay
  BY DEF Init, WakeHasReplay
<1>2. ASSUME IInv, WakeHasReplay, [Next]_vars,
             [deferredWakes' \subseteq deferredWakes \/ ReplayOpen']_vars
      PROVE  WakeHasReplay'
  <2>1. TypeOK /\ CommandInv
    BY <1>2 DEF IInv
  <2>2. CASE UNCHANGED vars
    BY <1>2, <2>2 DEF WakeHasReplay, ReplayOpen, Replays, vars, state, doorbell
  <2>3. CASE ReplayOpen'
    BY <2>3 DEF WakeHasReplay
  <2>4. CASE deferredWakes' \subseteq deferredWakes /\ Environment
    <3>1. UNCHANGED <<pc, cmd>>
      BY <2>4 DEF Environment, Interrupt, RemoveAppend, ExternalTake,
                  ExternalRelease, FailedWakeReturns
    <3>2. ReplayOpen' = ReplayOpen
      BY <3>1 DEF ReplayOpen, Replays
    <3>. QED  BY <1>2, <2>4, <3>2 DEF WakeHasReplay
  <2>5. ASSUME deferredWakes' \subseteq deferredWakes, deferredWakes' # {},
               NEW a \in Actors, Call(a) \/ Proceed(a)
        PROVE  ReplayOpen'
    <3>1. PICK b \in Actors : Replays(b)
      BY <1>2, <2>5 DEF WakeHasReplay, ReplayOpen
    <3>2. CASE b = a
      BY <2>1, <2>5, <3>1, <3>2, ReplayStays DEF ReplayOpen
    <3>3. CASE b # a
      <4>1. pc'[b] = pc[b] /\ cmd'[b] = cmd[b]
        BY <2>1, <2>5, <3>3, StepOf DEF OnlyMoves
      <4>2. Replays(b)'
        BY <3>1, <4>1 DEF Replays
      <4>. QED  BY <4>2 DEF ReplayOpen
    <3>. QED  BY <3>2, <3>3
  <2>. QED  BY <1>2, <2>2, <2>3, <2>4, <2>5 DEF Next, WakeHasReplay
<1>. QED  BY <1>1, <1>2, Invariance, PTL DEF Spec, WakesInTime
=============================================================================
