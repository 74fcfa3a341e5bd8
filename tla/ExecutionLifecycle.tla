------------------------- MODULE ExecutionLifecycle -------------------------
(***************************************************************************)
(* The execution lifecycle of the desktop shell: who may run the main      *)
(* execution body, what the shared execution stage says meanwhile, and     *)
(* what happens to the messages, doorbell wakes, interrupts and resets     *)
(* that arrive while it runs.                                              *)
(*                                                                         *)
(* An actor is one invocation of a command: submit_user_message from the   *)
(* desktop, POST /message from the phone, a doorbell wake, retry_agent,    *)
(* execute_session_refine, append_instruction or force_reset.  pc[a] is    *)
(* the next step of invocation a, cmd[a] the command, msg[a] its message.  *)
(* A step is what the code does between two points where another thread    *)
(* can run: one lock region, or several when what lies between them        *)
(* touches no shared variable of this model.  Definitions marked Mutation  *)
(* are not part of the specification: each is a plausible bug in the       *)
(* definition that follows it, which some property must catch.             *)
(***************************************************************************)
EXTENDS Naturals, Sequences, FiniteSets, SequencesExt

CONSTANTS Actors,         \* command invocations that may run concurrently
          Messages,       \* user messages
          Wakes,          \* terminal doorbell events (done, blocked)
          NoMessage, NoActor, External,
          MaxIterations,  \* config.max_iterations
          QueueBound      \* bound of the model: appends waiting or in flight

ASSUME ActorAssumption == NoActor \notin Actors /\ External \notin Actors
                          /\ NoActor # External
ASSUME BoundAssumption == MaxIterations \in Nat \ {0} /\ QueueBound \in Nat

VARIABLES stage,          \* SignalState::execution_stage
          holder,         \* AutomationGate::holder
          appendQueue,    \* SignalState::append_queue
          lastMessage,    \* SessionState::last_message
          cancelFlag,     \* AppState::cancel_flag
          refineActive,   \* AppState::refine_active
          pendingRetry,   \* ExecutionContext::pending_retry (its message)
          terminalEvents, \* HandoffState::terminal_events
          rung,           \* HandoffState::terminal_ids
          deferredWakes,  \* AppState::deferred_handoff_wakes
          failedWakes,    \* wakes whose round failed, their caller not back yet
          iteration,      \* loop counter of the running body
          pc, cmd, msg,
          resetSaw        \* history: the bodies a force_reset found running

flags == <<cancelFlag, refineActive>>
memory == <<lastMessage, pendingRetry>>
doorbell == <<terminalEvents, rung, deferredWakes, failedWakes>>
state == <<stage, holder, appendQueue, flags, memory, doorbell, iteration>>
vars == <<state, pc, cmd, msg, resetSaw>>

\* The text of a submission: a user message, or the wakes joined into one.
WakeTexts == (SUBSET Wakes) \ {{}}
Texts == Messages \cup WakeTexts
MaybeTexts == {NoMessage} \cup Texts

ASSUME MessageAssumption == \A t \in Texts : t # NoMessage

Stages == {"Idle", "Running", "Finalizing"}

Commands == {"none", "desktop", "mobile", "wake", "rebuild", "failed",
             "retry", "refine", "append", "reset"}

(***************************************************************************)
(* Where an invocation can be.  Holding is where it owns the gate lease,   *)
(* InBody where it owns the execution stage: from the write of Running     *)
(* that found Idle to the write of Idle that ends it.                      *)
(***************************************************************************)
LoopPoints == {"task", "clear", "iterate", "check", "step", "exit"}

ClosingPoints == {"tail", "endTake", "endIdle"}

RoundPoints == {"claim", "prepare", "launch", "relock", "finalize",
                "retryPrepare", "refinePrepare", "refineFlag"}

HoldingInBody == LoopPoints \cup ClosingPoints \cup RoundPoints
                 \cup {"refineDropGate"}

LatePoints == {"lateFlag", "lateIdle"}

InBody == HoldingInBody \cup LatePoints

Holding == HoldingInBody \cup
           {"swap", "retrySwap", "refineRead", "refineWrite", "refineRollback",
            "dropOk", "dropError", "dropRunning", "endGate"}

Outside == {"ready", "mobileDispose", "dispose", "push", "enqueue", "acquire",
            "retryAcquire", "refineAcquire", "replay", "replayCheck",
            "wakeLoad", "deferLoad", "deferPush",
            "resetCancelBusy", "resetCancelIdle", "resetWait", "resetClear"}

Points == Outside \cup Holding \cup LatePoints

Bodies == {a \in Actors : pc[a] \in InBody}

\* The refine that set refine_active and has not reset it yet.
RefineFlagPoints == {"refineAcquire", "refineRead", "refineRollback",
                     "refineWrite", "refinePrepare", "refineFlag",
                     "refineDropGate", "lateFlag"} \cup LoopPoints

RefineFlagHolders ==
  {a \in Actors : cmd[a] = "refine" /\ pc[a] \in RefineFlagPoints}

Init == /\ stage = "Idle"
        /\ holder = NoActor
        /\ appendQueue = <<>>
        /\ lastMessage = NoMessage
        /\ cancelFlag = FALSE
        /\ refineActive = FALSE
        /\ pendingRetry = NoMessage
        /\ terminalEvents = {}
        /\ rung = {}
        /\ deferredWakes = {}
        /\ failedWakes = {}
        /\ iteration = 0
        /\ pc = [a \in Actors |-> "ready"]
        /\ cmd = [a \in Actors |-> "none"]
        /\ msg = [a \in Actors |-> NoMessage]
        /\ resetSaw = [a \in Actors |-> {}]
-----------------------------------------------------------------------------
Busy == stage # "Idle"

\* One step of an invocation: from one point to another.
Go(a, from, to) == /\ pc[a] = from
                   /\ pc' = [pc EXCEPT ![a] = to]
                   /\ UNCHANGED <<cmd, msg, resetSaw>>

\* An invocation starts.
Enter(a, to, c, m) == /\ pc[a] = "ready"
                      /\ pc' = [pc EXCEPT ![a] = to]
                      /\ cmd' = [cmd EXCEPT ![a] = c]
                      /\ msg' = [msg EXCEPT ![a] = m]
                      /\ UNCHANGED resetSaw

\* set_execution_stage(Idle): resets that found this body have seen it end.
EndBody(a, from, to) ==
  /\ pc[a] = from
  /\ pc' = [pc EXCEPT ![a] = to]
  /\ stage' = "Idle"
  /\ resetSaw' = [r \in Actors |-> resetSaw[r] \ {a}]
  /\ UNCHANGED <<cmd, msg>>

\* Where a submission that was not taken goes: a wake is put off, others return.
NotTaken(a) == IF cmd[a] = "wake" THEN "deferLoad" ELSE "ready"

AppendsInFlight ==
  Cardinality({b \in Actors : pc[b] \in {"mobileDispose", "dispose", "push",
                                         "enqueue", "acquire", "swap",
                                         "dropRunning"}})

RoomToAppend == Len(appendQueue) + AppendsInFlight < QueueBound
-----------------------------------------------------------------------------
(***************************************************************************)
(* submit_user_message and its callers.                                    *)
(***************************************************************************)

\* The desktop command.  Its completion dedup returns without any effect.
DesktopBegin(a, m) == /\ RoomToAppend
                      /\ Enter(a, "dispose", "desktop", m)
                      /\ UNCHANGED state

\* POST /message.
MobileBegin(a, m) == /\ RoomToAppend
                     /\ Enter(a, "mobileDispose", "mobile", m)
                     /\ UNCHANGED state

\* is_duplicate_of_last: what repeats the round's own message is dropped, on a
\* read that may be old when the rest is pushed.
UnlessRepeated(a) == IF lastMessage = msg[a] THEN "ready" ELSE "enqueue"

\* POST /message reads the stage itself before it calls the shared entry.
MobileDispose(a) ==
  /\ \/ stage = "Finalizing" /\ Go(a, "mobileDispose", "ready")
     \/ stage = "Running"    /\ Go(a, "mobileDispose", UnlessRepeated(a))
     \/ stage = "Idle"       /\ Go(a, "mobileDispose", "dispose")
  /\ UNCHANGED state

\* Mutation: the entry voids the cancel flag before it knows that it may run.
SubmitDisposeClearsCancel(a) ==
  /\ \/ stage = "Finalizing" /\ Go(a, "dispose", NotTaken(a))
     \/ stage = "Running"    /\ Go(a, "dispose", "push")
     \/ stage = "Idle"       /\ Go(a, "dispose", "acquire")
  /\ cancelFlag' = FALSE
  /\ UNCHANGED <<stage, holder, appendQueue, memory, refineActive, doorbell,
                 iteration>>

\* The shared entry: reject, append or start a round, on one read of the stage.
SubmitDispose(a) ==
  /\ \/ stage = "Finalizing" /\ Go(a, "dispose", NotTaken(a))
     \/ stage = "Running"    /\ Go(a, "dispose", "push")
     \/ stage = "Idle"       /\ Go(a, "dispose", "acquire")
  /\ UNCHANGED state

\* The append branch: dropped if it repeats the round's own message, pushed
\* otherwise.  The stage is not read again.
SubmitPush(a) ==
  /\ Go(a, "push", "ready")
  /\ appendQueue' = IF lastMessage = msg[a] THEN appendQueue
                                            ELSE Append(appendQueue, msg[a])
  /\ UNCHANGED <<stage, holder, memory, flags, doorbell, iteration>>

\* mobile_append::enqueue drops what is already waiting.
Enqueue(a) ==
  /\ Go(a, "enqueue", "ready")
  /\ appendQueue' = IF Contains(appendQueue, msg[a])
                    THEN appendQueue
                    ELSE Append(appendQueue, msg[a])
  /\ UNCHANGED <<stage, holder, memory, flags, doorbell, iteration>>

\* try_acquire of the gate by a new owner.
GateFree == holder = NoActor

TakeGate(a) == /\ GateFree
               /\ holder' = a

\* Mutation: the gate is taken without looking whether it is free.
SubmitAcquireHeld(a) ==
  /\ Go(a, "acquire", "swap")
  /\ holder' = a
  /\ UNCHANGED <<stage, appendQueue, memory, flags, doorbell, iteration>>

SubmitAcquire(a) ==
  /\ Go(a, "acquire", "swap")
  /\ TakeGate(a)
  /\ UNCHANGED <<stage, appendQueue, memory, flags, doorbell, iteration>>

SubmitRefused(a) ==
  /\ ~GateFree
  /\ Go(a, "acquire", NotTaken(a))
  /\ UNCHANGED state

\* Mutation: the old value of the swap is ignored.
SubmitSwapAlwaysWins(a) ==
  /\ Go(a, "swap", "claim")
  /\ stage' = "Running"
  /\ UNCHANGED <<holder, appendQueue, memory, flags, doorbell, iteration>>

\* Mutation: the loser of the swap returns without its lease being dropped.
SubmitSwapLeaksLease(a) ==
  /\ Go(a, "swap", IF Busy THEN "ready" ELSE "claim")
  /\ stage' = "Running"
  /\ UNCHANGED <<holder, appendQueue, memory, flags, doorbell, iteration>>

\* busy.swap(true): the old stage decides, the new one is Running either way.
SubmitSwap(a) ==
  /\ Go(a, "swap", IF Busy THEN "dropRunning" ELSE "claim")
  /\ stage' = "Running"
  /\ UNCHANGED <<holder, appendQueue, memory, flags, doorbell, iteration>>

\* The second dedup, inside its 30 s window: the round is given up as done.
SubmitDuplicate(a) ==
  /\ lastMessage = msg[a]
  /\ EndBody(a, "claim", "dropOk")
  /\ UNCHANGED <<holder, appendQueue, memory, flags, doorbell, iteration>>

SubmitClaim(a) ==
  /\ Go(a, "claim", "prepare")
  /\ lastMessage' = msg[a]
  /\ UNCHANGED <<stage, holder, appendQueue, flags, pendingRetry, doorbell, iteration>>

\* cancel_flag.store(false): a cancel left over from an earlier round is void.
SubmitPrepare(a) ==
  /\ Go(a, "prepare", "launch")
  /\ cancelFlag' = FALSE
  /\ UNCHANGED <<stage, holder, appendQueue, memory, refineActive, doorbell, iteration>>

\* Mutation: an early return that forgets store(false).
SubmitAbortStaysBusy(a) ==
  /\ Go(a, "launch", "dropError")
  /\ UNCHANGED state

\* An error before the spawn (registry, lock): Idle first, then the lease.
SubmitAbort(a) ==
  /\ EndBody(a, "launch", "dropError")
  /\ UNCHANGED <<holder, appendQueue, memory, flags, doorbell, iteration>>

\* tokio::spawn: the task takes the lease and declares Running again.
SubmitLaunch(a) ==
  /\ Go(a, "launch", "task")
  /\ stage' = "Running"
  /\ UNCHANGED <<holder, appendQueue, memory, flags, doorbell, iteration>>

\* The lease of an invocation that did not become a round is dropped.
DropLease(a) ==
  /\ \/ Go(a, "dropOk", "ready")
     \/ Go(a, "dropError", NotTaken(a))
     \/ Go(a, "dropRunning", IF cmd[a] = "mobile" THEN UnlessRepeated(a)
                                                  ELSE NotTaken(a))
  /\ holder' = NoActor
  /\ UNCHANGED <<stage, appendQueue, memory, flags, doorbell, iteration>>
-----------------------------------------------------------------------------
(***************************************************************************)
(* The body: the spawned round task, or the loop that retry and refine run *)
(* inside their command.                                                   *)
(***************************************************************************)

\* The invocation runs a round: a task of its own, spawned by a submission.
IsRound(a) == cmd[a] \in {"desktop", "mobile", "wake", "rebuild"}

\* A round ends in an error: what is left of it runs in its guards.
FailRound(a, from) == /\ IsRound(a)
                      /\ pc[a] = from
                      /\ pc' = [pc EXCEPT ![a] = "endTake"]
                      /\ cmd' = [cmd EXCEPT ![a] = "failed"]
                      /\ UNCHANGED <<msg, resetSaw>>

\* An early error of the task.  The round's guard clears the queue and then
\* writes Idle; the guards of retry and refine do not touch the queue.
TaskFail(a) ==
  /\ \/ FailRound(a, "task")
     \/ cmd[a] = "retry"  /\ Go(a, "task", "endIdle")
     \/ cmd[a] = "refine" /\ Go(a, "task", "refineFlag")
  /\ UNCHANGED state

\* The loop is entered: Running is declared once more.  A resumed loop (retry,
\* refine of the leader) keeps the queue, a fresh one clears it.
EnterLoop(a) ==
  /\ \/ cmd[a] # "retry"              /\ Go(a, "task", "clear")
     \/ cmd[a] \in {"retry", "refine"} /\ Go(a, "task", "iterate")
  /\ stage' = "Running"
  /\ iteration' = 0
  /\ UNCHANGED <<holder, appendQueue, flags, memory, doorbell>>

ClearStaleAppends(a) ==
  /\ Go(a, "clear", "iterate")
  /\ appendQueue' = <<>>
  /\ UNCHANGED <<stage, holder, flags, memory, doorbell, iteration>>

\* The top of an iteration takes the whole queue into the conversation.
DrainAppends(a) ==
  /\ Go(a, "iterate", "check")
  /\ appendQueue' = <<>>
  /\ UNCHANGED <<stage, holder, flags, memory, doorbell, iteration>>

\* The cancel check comes after the drain and before the doorbell injection.
StopOnCancel(a) ==
  /\ cancelFlag
  /\ Go(a, "check", "exit")
  /\ UNCHANGED state

InjectDoorbell(a) ==
  /\ ~cancelFlag
  /\ Go(a, "check", "step")
  /\ terminalEvents' = {}
  /\ UNCHANGED <<stage, holder, appendQueue, flags, memory, rung,
                 deferredWakes, failedWakes, iteration>>

\* A dispatched sub-task runs inside the step: its loop declares Running and
\* drains the same queue.
SubTaskDrain(a) ==
  /\ Go(a, "step", "step")
  /\ stage' = "Running"
  /\ appendQueue' = <<>>
  /\ UNCHANGED <<holder, flags, memory, doorbell, iteration>>

\* Mutation: the bound of the loop is off by one.
NextIterationOffByOne(a) ==
  /\ iteration < MaxIterations
  /\ Go(a, "step", "iterate")
  /\ iteration' = iteration + 1
  /\ UNCHANGED <<stage, holder, appendQueue, flags, memory, doorbell>>

\* Mutation: the loop does not count its iterations.
NextIterationUncounted(a) ==
  /\ Go(a, "step", "iterate")
  /\ UNCHANGED state

\* The model call and its tools, then the next iteration.
NextIteration(a) ==
  /\ iteration + 1 < MaxIterations
  /\ Go(a, "step", "iterate")
  /\ iteration' = iteration + 1
  /\ UNCHANGED <<stage, holder, appendQueue, flags, memory, doorbell>>

\* A final answer, an error, a cancel seen inside the step, or the last one.
LeaveLoop(a) ==
  /\ Go(a, "step", "exit")
  /\ UNCHANGED state

\* The refine's timeout abandons its loop at an await, and so does the drop of
\* the command's future for retry and refine: only rounds have their own task.
AbandonLoop(a) ==
  /\ pc[a] \in {"check", "step"}
  /\ \/ cmd[a] = "refine" /\ Go(a, pc[a], "refineDropGate")
     \/ cmd[a] = "retry"  /\ Go(a, pc[a], "endIdle")
  /\ UNCHANGED state
-----------------------------------------------------------------------------
(***************************************************************************)
(* The end of a body.                                                      *)
(***************************************************************************)
\* The loop returned Ok: the message is no longer the one being worked on.
RoundDone(a) ==
  /\ cmd[a] \in {"desktop", "mobile", "wake"}
  /\ Go(a, "exit", "finalize")
  /\ lastMessage' = NoMessage
  /\ UNCHANGED <<stage, holder, appendQueue, flags, pendingRetry, doorbell,
                 iteration>>

\* A retryable error: the task locks AppState::runtime, finds the leader's slot
\* empty (this round took the agent out of it) and, still holding the guard,
\* locks the same std::sync::Mutex again for an argument.  The second lock waits
\* for the first: no step follows "relock".
RelockRuntime(a) ==
  /\ cmd[a] \in {"desktop", "mobile", "wake"}
  /\ ~cancelFlag
  /\ Go(a, "exit", "relock")
  /\ UNCHANGED state

\* Any other error rebuilds the runtime and runs the whole loop once more.
RoundRebuild(a) ==
  /\ cmd[a] \in {"desktop", "mobile", "wake"}
  /\ ~cancelFlag
  /\ pc[a] = "exit"
  /\ pc' = [pc EXCEPT ![a] = "task"]
  /\ cmd' = [cmd EXCEPT ![a] = "rebuild"]
  /\ UNCHANGED <<state, msg, resetSaw>>

RebuildDone(a) ==
  /\ cmd[a] = "rebuild"
  /\ Go(a, "exit", "finalize")
  /\ UNCHANGED state

\* An error returned from the task skips the closing work: only the guards run.
RoundError(a) ==
  /\ FailRound(a, "exit")
  /\ UNCHANGED state

\* A retry enters Finalizing whether its loop failed or not.
RetryDone(a) ==
  /\ cmd[a] = "retry"
  /\ Go(a, "exit", "finalize")
  /\ UNCHANGED state

Finalize(a) ==
  /\ Go(a, "finalize", "tail")
  /\ stage' = "Finalizing"
  /\ UNCHANGED <<holder, appendQueue, flags, memory, doorbell, iteration>>

\* Mutation: the closing refine runs the main loop, which declares Running.
ClosingWorkReenters(a) ==
  /\ Go(a, "tail", IF cmd[a] = "retry" THEN "endIdle" ELSE "endTake")
  /\ stage' = "Running"
  /\ UNCHANGED <<holder, appendQueue, flags, memory, doorbell, iteration>>

\* The closing work.  Of its effects this model keeps the saved retry.
ClosingWork(a) ==
  /\ Go(a, "tail", IF cmd[a] = "retry" THEN "endIdle" ELSE "endTake")
  /\ pendingRetry' \in {pendingRetry, msg[a]}
  /\ UNCHANGED <<stage, holder, appendQueue, flags, lastMessage, doorbell,
                 iteration>>

\* Mutation: the lease is declared after the guard, so it is dropped before it.
EndTakeQueueDropsLease(a) ==
  /\ Go(a, "endTake", "endIdle")
  /\ appendQueue' = <<>>
  /\ holder' = NoActor
  /\ UNCHANGED <<stage, flags, memory, doorbell, iteration>>

\* TaskBusyGuard: take the queue, and only then write Idle.
EndTakeQueue(a) ==
  /\ Go(a, "endTake", "endIdle")
  /\ appendQueue' = <<>>
  /\ UNCHANGED <<stage, holder, flags, memory, doorbell, iteration>>

EndIdle(a) ==
  /\ EndBody(a, "endIdle", "endGate")
  /\ UNCHANGED <<holder, appendQueue, flags, memory, doorbell, iteration>>

EndReleaseGate(a) ==
  /\ Go(a, "endGate", IF cmd[a] = "refine" THEN "ready" ELSE "replay")
  /\ holder' = NoActor
  /\ UNCHANGED <<stage, appendQueue, flags, memory, doorbell, iteration>>
-----------------------------------------------------------------------------
(***************************************************************************)
(* Doorbell wakes: put off while the body is taken, replayed at its end.   *)
(***************************************************************************)

\* HandoffWakeReplay takes the whole list and joins it into one message.  It is
\* the last thing a round does: the caller that awaits the round learns now that
\* it failed, if it did.
ReplayTake(a) ==
  /\ pc[a] = "replay"
  /\ deferredWakes' = {}
  /\ failedWakes' = failedWakes \cup {t \in WakeTexts : cmd[a] = "failed" /\ t = msg[a]}
  /\ IF deferredWakes = {}
     THEN /\ pc' = [pc EXCEPT ![a] = "ready"]
          /\ UNCHANGED <<cmd, msg>>
     ELSE /\ pc' = [pc EXCEPT ![a] = "replayCheck"]
          /\ cmd' = [cmd EXCEPT ![a] = "wake"]
          /\ msg' = [msg EXCEPT ![a] = UNION deferredWakes]
  /\ UNCHANGED <<stage, holder, appendQueue, flags, memory, terminalEvents,
                 rung, iteration, resetSaw>>

\* The caller of a wake whose round failed puts it off like one that was refused,
\* if by then the body is taken again (the two steps of it as one).
FailedWakeReturns(t) ==
  /\ t \in failedWakes
  /\ failedWakes' = failedWakes \ {t}
  /\ deferredWakes' = IF Busy THEN deferredWakes \cup {t} ELSE deferredWakes
  /\ UNCHANGED <<stage, holder, appendQueue, flags, memory, terminalEvents,
                 rung, iteration, pc, cmd, msg, resetSaw>>

\* A wake whose event was injected meanwhile is dropped.
ReplayCheck(a) ==
  /\ Go(a, "replayCheck", IF terminalEvents = {} THEN "ready" ELSE "wakeLoad")
  /\ UNCHANGED state

\* POST of a terminal event: accepted once per id, answered by a wake each time.
Doorbell(a, w) ==
  /\ RoomToAppend
  /\ Enter(a, "wakeLoad", "wake", {w})
  /\ terminalEvents' = IF w \in rung THEN terminalEvents
                                     ELSE terminalEvents \cup {w}
  /\ rung' = rung \cup {w}
  /\ UNCHANGED <<stage, holder, appendQueue, flags, memory, deferredWakes,
                 failedWakes, iteration>>

\* try_spawn_leader_round: a busy stage puts the wake off.
WakeLoad(a) ==
  /\ Go(a, "wakeLoad", IF Busy THEN "deferLoad" ELSE "dispose")
  /\ UNCHANGED state

\* defer_if_execution_busy reads the stage again ...
DeferLoad(a) ==
  /\ Go(a, "deferLoad", IF Busy THEN "deferPush" ELSE "ready")
  /\ UNCHANGED state

\* ... and pushes in a step of its own.
DeferPush(a) ==
  /\ Go(a, "deferPush", "ready")
  /\ deferredWakes' = deferredWakes \cup {msg[a]}
  /\ UNCHANGED <<stage, holder, appendQueue, flags, memory, terminalEvents,
                 rung, failedWakes, iteration>>
-----------------------------------------------------------------------------
(***************************************************************************)
(* retry_agent.                                                            *)
(***************************************************************************)
RetryBegin(a) ==
  /\ pendingRetry # NoMessage
  /\ Enter(a, "retryAcquire", "retry", pendingRetry)
  /\ pendingRetry' = NoMessage
  /\ UNCHANGED <<stage, holder, appendQueue, flags, lastMessage, doorbell,
                 iteration>>

RetryAcquire(a) ==
  /\ Go(a, "retryAcquire", "retrySwap")
  /\ TakeGate(a)
  /\ UNCHANGED <<stage, appendQueue, flags, memory, doorbell, iteration>>

\* Refused by the gate: the retry data go back.
RetryRefused(a) ==
  /\ ~GateFree
  /\ Go(a, "retryAcquire", "ready")
  /\ pendingRetry' = msg[a]
  /\ UNCHANGED <<stage, holder, appendQueue, flags, lastMessage, doorbell,
                 iteration>>

RetrySwap(a) ==
  /\ stage' = "Running"
  /\ \/ /\ ~Busy
        /\ Go(a, "retrySwap", "retryPrepare")
        /\ UNCHANGED pendingRetry
     \/ /\ Busy
        /\ Go(a, "retrySwap", "dropOk")
        /\ pendingRetry' = msg[a]
  /\ UNCHANGED <<holder, appendQueue, flags, lastMessage, doorbell, iteration>>

RetryPrepare(a) ==
  /\ Go(a, "retryPrepare", "task")
  /\ cancelFlag' = FALSE
  /\ UNCHANGED <<stage, holder, appendQueue, refineActive, memory, doorbell,
                 iteration>>
-----------------------------------------------------------------------------
(***************************************************************************)
(* execute_session_refine.                                                 *)
(***************************************************************************)
RefineBegin(a) ==
  /\ ~refineActive
  /\ Enter(a, "refineAcquire", "refine", NoMessage)
  /\ refineActive' = TRUE
  /\ UNCHANGED <<stage, holder, appendQueue, cancelFlag, memory, doorbell,
                 iteration>>

RefineAcquire(a) ==
  /\ Go(a, "refineAcquire", "refineRead")
  /\ TakeGate(a)
  /\ UNCHANGED <<stage, appendQueue, flags, memory, doorbell, iteration>>

RefineRefused(a) ==
  /\ ~GateFree
  /\ Go(a, "refineAcquire", "ready")
  /\ refineActive' = FALSE
  /\ UNCHANGED <<stage, holder, appendQueue, cancelFlag, memory, doorbell,
                 iteration>>

\* busy.compare_exchange(false, true): a read of the stage ...
RefineCompare(a) ==
  /\ Go(a, "refineRead", IF Busy THEN "refineRollback" ELSE "refineWrite")
  /\ UNCHANGED state

\* ... and a write of it, under two separate locks.
RefineExchange(a) ==
  /\ Go(a, "refineWrite", "refinePrepare")
  /\ stage' = "Running"
  /\ UNCHANGED <<holder, appendQueue, flags, memory, doorbell, iteration>>

\* Mutation: a refine refused by the stage leaves refine_active up.
RefineRollbackForgets(a) ==
  /\ Go(a, "refineRollback", "dropOk")
  /\ UNCHANGED state

RefineRollback(a) ==
  /\ Go(a, "refineRollback", "dropOk")
  /\ refineActive' = FALSE
  /\ UNCHANGED <<stage, holder, appendQueue, cancelFlag, memory, doorbell,
                 iteration>>

RefinePrepare(a) ==
  /\ Go(a, "refinePrepare", "task")
  /\ cancelFlag' = FALSE
  /\ UNCHANGED <<stage, holder, appendQueue, refineActive, memory, doorbell,
                 iteration>>

\* No agent to refine: the guard runs before the lease is dropped.
RefineClearFlag(a) ==
  /\ Go(a, "refineFlag", "endIdle")
  /\ refineActive' = FALSE
  /\ UNCHANGED <<stage, holder, appendQueue, cancelFlag, memory, doorbell,
                 iteration>>

\* After its loop the lease, which lives in an inner scope, goes first ...
RefineLoopDone(a) ==
  /\ cmd[a] = "refine"
  /\ Go(a, "exit", "refineDropGate")
  /\ UNCHANGED state

RefineDropGate(a) ==
  /\ Go(a, "refineDropGate", "lateFlag")
  /\ holder' = NoActor
  /\ UNCHANGED <<stage, appendQueue, flags, memory, doorbell, iteration>>

\* ... then the distillate is persisted, and RefineGuard runs last.
RefineLateFlag(a) ==
  /\ Go(a, "lateFlag", "lateIdle")
  /\ refineActive' = FALSE
  /\ UNCHANGED <<stage, holder, appendQueue, cancelFlag, memory, doorbell,
                 iteration>>

RefineLateIdle(a) ==
  /\ EndBody(a, "lateIdle", "ready")
  /\ UNCHANGED <<holder, appendQueue, flags, memory, doorbell, iteration>>
-----------------------------------------------------------------------------
(***************************************************************************)
(* The other commands.                                                     *)
(***************************************************************************)

\* append_instruction while not paused: any busy stage is good enough.
AppendInstruction(a, m) ==
  /\ RoomToAppend
  /\ lastMessage # m
  /\ Busy
  /\ Enter(a, "enqueue", "append", m)
  /\ UNCHANGED state

RemoveAppend(i) ==
  /\ appendQueue' = RemoveAt(appendQueue, i)
  /\ UNCHANGED <<stage, holder, flags, memory, doorbell, iteration,
                 pc, cmd, msg, resetSaw>>

Interrupt ==
  /\ cancelFlag' = TRUE
  /\ UNCHANGED <<stage, holder, appendQueue, refineActive, memory, doorbell,
                 iteration, pc, cmd, msg, resetSaw>>

\* force_reset reads busy first; the history variable notes what was running.
ResetBegin(a) ==
  /\ pc[a] = "ready"
  /\ pc' = [pc EXCEPT ![a] = IF Busy THEN "resetCancelBusy"
                                     ELSE "resetCancelIdle"]
  /\ cmd' = [cmd EXCEPT ![a] = "reset"]
  /\ resetSaw' = [resetSaw EXCEPT ![a] = Bodies]
  /\ UNCHANGED <<state, msg>>

ResetCancel(a) ==
  /\ \/ Go(a, "resetCancelBusy", "resetWait")
     \/ Go(a, "resetCancelIdle", "resetClear")
  /\ cancelFlag' = TRUE
  /\ UNCHANGED <<stage, holder, appendQueue, refineActive, memory, doorbell,
                 iteration>>

ResetSeesIdle(a) == /\ ~Busy
                    /\ Go(a, "resetWait", "resetClear")
                    /\ UNCHANGED state

\* Mutation: a timed out reset clears all the same.
ResetTimeoutClears(a) == /\ Busy
                         /\ Go(a, "resetWait", "resetClear")
                         /\ UNCHANGED state

\* Ten seconds passed: an error is returned and the stage is left alone.
ResetTimeout(a) == /\ Busy
                   /\ Go(a, "resetWait", "ready")
                   /\ UNCHANGED state

ResetClearQueue(a) ==
  /\ Go(a, "resetClear", "ready")
  /\ appendQueue' = <<>>
  /\ UNCHANGED <<stage, holder, flags, memory, doorbell, iteration>>

\* Other holders of the gate: a manual tool, wf_run, a scheduled workflow, a
\* plugin runtime.
ExternalTake ==
  /\ GateFree
  /\ holder' = External
  /\ UNCHANGED <<stage, appendQueue, flags, memory, doorbell, iteration,
                 pc, cmd, msg, resetSaw>>

ExternalRelease ==
  /\ holder = External
  /\ holder' = NoActor
  /\ UNCHANGED <<stage, appendQueue, flags, memory, doorbell, iteration,
                 pc, cmd, msg, resetSaw>>
-----------------------------------------------------------------------------
SubmitStep(a) ==
  \/ MobileDispose(a) \/ SubmitDispose(a) \/ SubmitPush(a) \/ Enqueue(a)
  \/ SubmitAcquire(a) \/ SubmitRefused(a) \/ SubmitSwap(a)
  \/ SubmitDuplicate(a) \/ SubmitClaim(a) \/ SubmitPrepare(a)
  \/ SubmitAbort(a) \/ SubmitLaunch(a) \/ DropLease(a)

LoopStep(a) ==
  \/ TaskFail(a) \/ EnterLoop(a) \/ ClearStaleAppends(a) \/ DrainAppends(a)
  \/ StopOnCancel(a) \/ InjectDoorbell(a) \/ NextIteration(a)
  \/ LeaveLoop(a) \/ AbandonLoop(a)

EndStep(a) ==
  \/ RoundDone(a) \/ RelockRuntime(a) \/ RoundRebuild(a) \/ RebuildDone(a)
  \/ RoundError(a) \/ RetryDone(a) \/ Finalize(a) \/ ClosingWork(a)
  \/ EndTakeQueue(a) \/ EndIdle(a) \/ EndReleaseGate(a)

WakeStep(a) ==
  \/ ReplayTake(a) \/ ReplayCheck(a) \/ WakeLoad(a) \/ DeferLoad(a)
  \/ DeferPush(a)

RetryStep(a) ==
  \/ RetryAcquire(a) \/ RetryRefused(a) \/ RetrySwap(a) \/ RetryPrepare(a)

RefineStep(a) ==
  \/ RefineAcquire(a) \/ RefineRefused(a) \/ RefineCompare(a)
  \/ RefineExchange(a) \/ RefineRollback(a) \/ RefinePrepare(a)
  \/ RefineClearFlag(a) \/ RefineLoopDone(a) \/ RefineDropGate(a)
  \/ RefineLateFlag(a) \/ RefineLateIdle(a)

ResetStep(a) ==
  \/ ResetCancel(a) \/ ResetSeesIdle(a) \/ ResetTimeout(a)
  \/ ResetClearQueue(a)

\* A started invocation goes on: its thread is scheduled, its awaits return.
Proceed(a) == \/ SubmitStep(a) \/ LoopStep(a) \/ EndStep(a) \/ WakeStep(a)
              \/ RetryStep(a) \/ RefineStep(a) \/ ResetStep(a)

\* Users, phones and external agents may call at any time, or never.
Call(a) == \/ \E m \in Messages : \/ DesktopBegin(a, m)
                                  \/ MobileBegin(a, m)
                                  \/ AppendInstruction(a, m)
           \/ \E w \in Wakes : Doorbell(a, w)
           \/ RetryBegin(a) \/ RefineBegin(a) \/ ResetBegin(a)
           \/ SubTaskDrain(a)

Environment == \/ Interrupt
               \/ \E i \in 1 .. Len(appendQueue) : RemoveAppend(i)
               \/ ExternalTake \/ ExternalRelease
               \/ \E t \in WakeTexts : FailedWakeReturns(t)

Next == (\E a \in Actors : Call(a) \/ Proceed(a)) \/ Environment

\* Threads are scheduled, the loop is bounded by max_iterations, and model
\* calls, the pause wait and the reset wait all have timeouts.
Fairness == /\ \A a \in Actors : WF_vars(Proceed(a))
            /\ \A t \in WakeTexts : WF_vars(FailedWakeReturns(t))

Spec == Init /\ [][Next]_vars
FairSpec == Spec /\ Fairness
-----------------------------------------------------------------------------
(***************************************************************************)
(* Properties.                                                             *)
(***************************************************************************)
TypeOK ==
  /\ stage \in Stages
  /\ holder \in Actors \cup {NoActor, External}
  /\ appendQueue \in Seq(Texts)
  /\ lastMessage \in MaybeTexts
  /\ cancelFlag \in BOOLEAN
  /\ refineActive \in BOOLEAN
  /\ pendingRetry \in MaybeTexts
  /\ terminalEvents \subseteq rung
  /\ rung \subseteq Wakes
  /\ deferredWakes \subseteq WakeTexts
  /\ failedWakes \subseteq WakeTexts
  /\ iteration \in 0 .. MaxIterations - 1
  /\ pc \in [Actors -> Points]
  /\ cmd \in [Actors -> Commands]
  /\ msg \in [Actors -> MaybeTexts]
  /\ resetSaw \in [Actors -> SUBSET Actors]

\* Never two execution bodies at once: no double run of the agent, whatever the
\* interleaving of submits, retries, refines, wakes and resets, although refine
\* takes the stage by a compare_exchange that is not atomic and lets go of the
\* gate before its body ends.
OneBody == \A a, b \in Bodies : a = b

\* The stage tells the truth: it is Idle exactly when no body runs.  A reset, a
\* guard or a refused command never writes Idle over a body that still runs, and
\* no path leaves the stage busy with nobody to end it.
StageHonest == (stage = "Idle") <=> (Bodies = {})

\* A round or a retry holds the gate lease until its body has ended, so manual
\* tools and scheduled workflows are refused for its whole life.
RoundKeepsGate == \A a \in Bodies : cmd[a] # "refine" => holder = a

\* refine_active is up exactly while one refine can still take it down: no path
\* of refusal or failure leaves "refining" up for good.
RefineFlagHonest ==
  /\ refineActive <=> RefineFlagHolders # {}
  /\ \A a, b \in RefineFlagHolders : a = b

\* When force_reset reports success, and clears the queue, every body that ran
\* when it was called has ended.
ResetWaitsForOldBody ==
  \A r \in Actors : pc[r] = "resetClear" => resetSaw[r] = {}

\* Once the loop has been left the stage stays Finalizing until Idle: nothing
\* that happens meanwhile makes it accept appends again.
FinalizingIsFinal ==
  [][stage = "Finalizing" => stage' \in {"Finalizing", "Idle"}]_vars

\* While a round closes, a cancel flag set by an interrupt or a reset is not
\* taken back: only a starting body voids it.
CancelOutlivesBody ==
  [][cancelFlag /\ ~cancelFlag' => stage = "Running"]_vars

\* A body that has locked AppState::runtime twice waits for itself.
SelfLocked(a) == pc[a] = "relock"

\* How far an invocation that holds the gate or the stage is from its end, in
\* moves: a lap of the loop and what comes before and after it, and the whole once
\* more for a round that may still rebuild.
Underway == Holding \cup LatePoints

Lap == 3 * MaxIterations + 8
Left == MaxIterations - iteration

Rank(a) ==
  LET again == IF cmd[a] \in {"desktop", "mobile", "wake"} THEN Lap ELSE 0
  IN CASE pc[a] \in {"swap", "refineRead"}             -> again + Lap + 3
       [] pc[a] = "claim"                              -> again + Lap + 2
       [] pc[a] \in {"prepare", "retrySwap",
                     "refineWrite"}                    -> again + Lap + 1
       [] pc[a] \in {"launch", "retryPrepare",
                     "refinePrepare"}                  -> again + Lap
       [] pc[a] = "task"                               -> again + Lap - 1
       [] pc[a] = "clear"                              -> again + Lap - 2
       [] pc[a] = "iterate"                            -> again + 3 * Left + 5
       [] pc[a] = "check"                              -> again + 3 * Left + 4
       [] pc[a] = "step"                               -> again + 3 * Left + 3
       [] pc[a] = "exit"                               -> again + 5
       [] pc[a] \in {"finalize", "relock"}             -> 4
       [] pc[a] \in {"tail", "refineDropGate"}         -> 3
       [] pc[a] \in {"endTake", "refineFlag",
                     "lateFlag"}                       -> 2
       [] pc[a] \in {"endIdle", "lateIdle",
                     "refineRollback"}                 -> 1
       [] OTHER                                        -> 0

\* Nobody can keep the gate or the stage by going round for ever, for all the
\* retries, rebuilds and abandoned loops: each move brings the invocation nearer
\* to its end, and nothing that anybody else does, sub-tasks and interrupts
\* included, takes it back.
BodyDescends ==
  [][\A a \in Actors : pc[a] \in Underway /\ pc'[a] \in Underway =>
       /\ Rank(a)' <= Rank(a)
       /\ pc'[a] # pc[a] => Rank(a)' < Rank(a)]_vars

\* What the round guard promises (process.rs:612-614, 629): the busy stage lives
\* exactly as long as the task, which ends in Idle.
BodyEnds == \A a \in Actors : pc[a] \in InBody ~> pc[a] \notin InBody

\* Except for that self-deadlock every body ends, whatever errors, cancels,
\* timeouts and resets it meets.
BodyEndsOrSelfLocks ==
  \A a \in Actors : pc[a] \in InBody ~> pc[a] \notin InBody \/ SelfLocked(a)

\* The gate lease an invocation took is given back on every other path, the
\* refusals and early errors that never become a body included.
LeaseReturned == \A a \in Actors : holder = a ~> holder # a \/ SelfLocked(a)

\* A started refine always takes its flag down again.
RefineFlagFalls == refineActive ~> ~refineActive

\* What the round guard promises (process.rs:632-634): clearing the queue before
\* writing Idle leaves no window in which the stage is Idle with appends waiting.
NoIdleWithAppends == stage = "Idle" => appendQueue = <<>>

\* What the deferral promises (process.rs:1426-1428): a wake that was put off is
\* replayed when the body it was put off for ends.
DeferredWakeReplayed == deferredWakes # {} ~> deferredWakes = {}

\* The body seen as one slot: SingleSlot with the running body in it.
CurrentBody == IF Bodies = {} THEN NoActor ELSE CHOOSE a \in Bodies : TRUE
BodySlot == INSTANCE SingleSlot WITH Holders <- Actors, Free <- NoActor,
                                     slot <- CurrentBody
GateSlot == INSTANCE SingleSlot WITH Holders <- Actors \cup {External},
                                     Free <- NoActor, slot <- holder

\* The body is never handed over: it passes from one invocation to another only
\* through a moment in which nobody has it.
BodyNeverHandedOver == BodySlot!Spec

\* The gate is a slot that is only ever taken when free and freed by its holder.
GateNeverHandedOver == GateSlot!Spec
=============================================================================
