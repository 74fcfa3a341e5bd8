----------------------------- MODULE PauseControl -----------------------------
(***************************************************************************)
(* The pause channel between the user's commands and the running loop: the *)
(* pause flag, the id of the current pause, the table of decisions by id,  *)
(* and the cancel flag that outranks them.                                 *)
(*                                                                         *)
(* A caller is one invocation of pause_execution, graceful_stop,           *)
(* continue_execution, terminate_execution, append_instruction, the append *)
(* branch of POST /message, interrupt or force_reset (the phone's routes   *)
(* call the same functions; the wait of force_reset is in                  *)
(* ExecutionLifecycle).  Each of their accesses to shared state is a step. *)
(* The loop is the leader's react_loop with the two loops that run inside  *)
(* it: the sub-task loop that task_dispatch runs in a tool call, and the   *)
(* react_loop of refine_in_loop, which condenses a conversation that has   *)
(* grown too long in the middle of an iteration.  All three poll the       *)
(* channel.                                                                *)
(* Who may start a round, and what ends it, is ExecutionLifecycle's        *)
(* subject: here one round runs at a time.  A response of the model is one *)
(* batch of tool calls.  Definitions marked Mutation are not part of the   *)
(* specification.                                                          *)
(***************************************************************************)
EXTENDS Naturals

CONSTANTS Callers,        \* command invocations that may run concurrently
          Ids,            \* action ids (uuids)
          NoId,
          Instructions,   \* texts a user may append
          MaxIterations,  \* config.max_iterations of the leader
          MaxSubIterations, \* and of a sub-task
          MaxPolls        \* polls of one wait (600 in the code)

ASSUME NoIdAssumption == NoId \notin Ids
ASSUME BoundsAssumption ==
  \A bound \in {MaxIterations, MaxSubIterations, MaxPolls} : bound \in Nat \ {0}

VARIABLES pauseFlag,      \* AppState::pause_flag
          pauseId,        \* SignalState::pause_action_id
          decisions,      \* SignalState::pause_decisions
          cancelFlag,     \* AppState::cancel_flag
          queue,          \* SignalState::append_queue, as a set
          menu,           \* the id the frontends' pause menu shows
          pc, cid, cdec,  \* callers: next step, their id, their decision
          at, kind, sub,  \* the loop: next step, kind of round, in a sub-task
          refining,       \* in the react_loop of refine_in_loop
          mark,           \* seen when it began, for its rollback
          hardStopFailed, \* ctx_hard_stop_failed
          iter, subIter,  \* iterations of the leader, and of the inner loop
          loopId, polls,  \* the wait: the id waited on, polls done
          got,            \* the decision the wait returned
          leaderStop,     \* leader_should_stop
          subStop,        \* SubTaskRunner::user_terminated
          seen,           \* appended texts a conversation has got, or summed up
          owed,           \* history: ids with an answer no wait has taken
          terminated,     \* history: a loop of this round acted on Terminate
          soloStop,       \* history: a graceful stop no other request disturbs
          flagIsOurs,     \* history: the flag was raised after Prepare
          taken           \* history: texts this round's wait returned

signals == <<pauseFlag, pauseId, decisions, cancelFlag>>
callers == <<pc, cid, cdec>>
wait == <<loopId, polls, got>>
counters == <<iter, subIter>>
stops == <<leaderStop, subStop>>
run == <<kind, refining, mark, hardStopFailed>>
loop == <<at, run, sub, counters, wait, stops, seen>>
history == <<owed, terminated, soloStop, flagIsOurs, taken>>
vars == <<signals, queue, menu, callers, loop, history>>

Decision(k, texts) == [kind |-> k, texts |-> texts]
None == Decision("none", {})
Continue == Decision("continue", {})
Terminate == Decision("terminate", {})
DecisionKinds == {"none", "continue", "terminate", "append"}
DecisionSet == [kind : DecisionKinds, texts : SUBSET Instructions]

WaitPoints == {"ask", "peek", "emit", "wait", "lower"}
LoopPoints == {"check", "pause", "budget", "llm", "tools", "return", "rollback"}
                \cup WaitPoints
RunningPoints == LoopPoints \cup {"prepare"}
RoundPoints == RunningPoints \cup {"closing", "idle"}

\* Requests that touch the flag or the id, while they are under way.
RequestPoints == {"raise", "preset", "stopRaise", "resetFlag", "clearId"}
CallPoints == RequestPoints \cup
  {"ready", "announce", "answer", "appendFlag", "appendBusy", "appendSet",
   "mobileFlag", "mobileId"}

Init == /\ pauseFlag = FALSE /\ pauseId = NoId
        /\ decisions = [i \in Ids |-> None]
        /\ cancelFlag = FALSE
        /\ queue = {} /\ menu = NoId
        /\ pc = [c \in Callers |-> "ready"]
        /\ cid = [c \in Callers |-> NoId]
        /\ cdec = [c \in Callers |-> None]
        /\ at = "idle" /\ kind = "none" /\ sub = FALSE
        /\ refining = FALSE /\ mark = {} /\ hardStopFailed = FALSE
        /\ iter = 0 /\ subIter = 0
        /\ loopId = NoId /\ polls = 0 /\ got = None
        /\ leaderStop = FALSE /\ subStop = FALSE
        /\ seen = {}
        /\ owed = {} /\ terminated = FALSE /\ soloStop = FALSE
        /\ flagIsOurs = FALSE /\ taken = {}
-----------------------------------------------------------------------------
\* A caller goes on, or returns.
Go(c, from, to) == /\ pc[c] = from
                   /\ pc' = [pc EXCEPT ![c] = to]
                   /\ UNCHANGED <<cid, cdec>>

Enter(c, to, i, d) == /\ pc[c] = "ready"
                      /\ pc' = [pc EXCEPT ![c] = to]
                      /\ cid' = [cid EXCEPT ![c] = i]
                      /\ cdec' = [cdec EXCEPT ![c] = d]

Return(c, from) == /\ pc[c] = from
                   /\ pc' = [pc EXCEPT ![c] = "ready"]
                   /\ cid' = [cid EXCEPT ![c] = NoId]
                   /\ cdec' = [cdec EXCEPT ![c] = None]

\* A uuid is never drawn twice.  An id that nobody can name any more stands for
\* a new one: an entry it may have left in the table is never read again.
InUse(i) == \/ i \in {pauseId, loopId, menu}
            \/ \E c \in Callers : cid[c] = i

NewId(i) == /\ ~InUse(i)
            /\ i = CHOOSE j \in Ids : ~InUse(j)
            /\ decisions' = [decisions EXCEPT ![i] = None]
            /\ owed' = owed \ {i}

\* set_pause_decision: an Append joins an Append, is dropped if another
\* decision is there, and any other decision replaces what is there.
SetDecision(i, d) ==
  /\ decisions' = [decisions EXCEPT ![i] =
       IF d.kind # "append" \/ @.kind = "none" THEN d
       ELSE IF @.kind = "append" THEN Decision("append", @.texts \cup d.texts)
       ELSE @]
  /\ owed' = owed \cup {i}
-----------------------------------------------------------------------------
(***************************************************************************)
(* The commands.                                                           *)
(***************************************************************************)

\* pause_execution: the id, then the flag, then the menu.
PauseBegin(c) ==
  /\ \E i \in Ids : /\ Enter(c, "raise", i, None)
                    /\ NewId(i)
                    /\ pauseId' = i
  /\ soloStop' = FALSE
  /\ UNCHANGED <<pauseFlag, cancelFlag, queue, menu, loop, terminated,
                 flagIsOurs, taken>>

RaiseFlag == /\ pauseFlag' = TRUE
             /\ flagIsOurs' = (at \in LoopPoints)

PauseRaise(c) ==
  /\ Go(c, "raise", "announce")
  /\ RaiseFlag
  /\ UNCHANGED <<pauseId, decisions, cancelFlag, queue, menu, loop, owed,
                 terminated, soloStop, taken>>

PauseAnnounce(c) ==
  /\ menu' = cid[c]
  /\ Return(c, "announce")
  /\ UNCHANGED <<signals, queue, loop, history>>

\* Nothing that could disturb a graceful stop is under way.
Undisturbed(c) == /\ at \in LoopPoints \ WaitPoints
                  /\ ~pauseFlag
                  /\ \A d \in Callers \ {c} : pc[d] \notin RequestPoints

\* graceful_stop: the id, the decision, and only then the flag.
StopBegin(c) ==
  /\ \E i \in Ids : /\ Enter(c, "preset", i, Terminate)
                    /\ NewId(i)
                    /\ pauseId' = i
  /\ soloStop' = Undisturbed(c)
  /\ UNCHANGED <<pauseFlag, cancelFlag, queue, menu, loop, terminated,
                 flagIsOurs, taken>>

StopPreset(c) ==
  /\ Go(c, "preset", "stopRaise")
  /\ SetDecision(cid[c], cdec[c])
  /\ UNCHANGED <<pauseFlag, pauseId, cancelFlag, queue, menu, loop, terminated,
                 soloStop, flagIsOurs, taken>>

StopRaise(c) ==
  /\ Return(c, "stopRaise")
  /\ RaiseFlag
  /\ UNCHANGED <<pauseId, decisions, cancelFlag, queue, menu, loop, owed,
                 terminated, soloStop, taken>>

\* continue_execution and terminate_execution, with the id of the menu the user
\* looked at, which may be out of date when the command runs.
AnswerBegin(c, d) ==
  /\ menu # NoId
  /\ Enter(c, "answer", menu, d)
  /\ UNCHANGED <<signals, queue, menu, loop, history>>

Answer(c) ==
  /\ pc[c] \in {"answer", "appendSet"}
  /\ SetDecision(cid[c], cdec[c])
  /\ Return(c, pc[c])
  /\ UNCHANGED <<pauseFlag, pauseId, cancelFlag, queue, menu, loop, terminated,
                 soloStop, flagIsOurs, taken>>

\* append_instruction: paused, running, or refused.
AppendBegin(c, t) ==
  /\ menu # NoId
  /\ Enter(c, "appendFlag", menu, Decision("append", {t}))
  /\ UNCHANGED <<signals, queue, menu, loop, history>>

AppendFlag(c) ==
  /\ pc[c] = "appendFlag"
  /\ pc' = [pc EXCEPT ![c] = IF pauseFlag THEN "appendSet" ELSE "appendBusy"]
  /\ cid' = [cid EXCEPT ![c] = IF pauseFlag THEN @ ELSE NoId]
  /\ UNCHANGED cdec
  /\ UNCHANGED <<signals, queue, menu, loop, history>>

AppendBusy(c) ==
  /\ queue' = IF at = "idle" THEN queue ELSE queue \cup cdec[c].texts
  /\ Return(c, "appendBusy")
  /\ UNCHANGED <<signals, menu, loop, history>>

\* POST /message while Running: it looks up the current id by itself.
MobileBegin(c, t) ==
  /\ at \in RunningPoints
  /\ Enter(c, "mobileFlag", NoId, Decision("append", {t}))
  /\ UNCHANGED <<signals, queue, menu, loop, history>>

MobileFlag(c) ==
  /\ \/ /\ pauseFlag
        /\ Go(c, "mobileFlag", "mobileId")
        /\ UNCHANGED queue
     \/ /\ ~pauseFlag
        /\ Return(c, "mobileFlag")
        /\ queue' = queue \cup cdec[c].texts
  /\ UNCHANGED <<signals, menu, loop, history>>

\* Without a current id it draws one that nobody will ever look up.
MobileId(c) ==
  /\ \/ /\ pauseId = NoId
        /\ Return(c, "mobileId")
     \/ /\ pauseId # NoId
        /\ pc[c] = "mobileId"
        /\ pc' = [pc EXCEPT ![c] = "appendSet"]
        /\ cid' = [cid EXCEPT ![c] = pauseId]
        /\ UNCHANGED cdec
  /\ UNCHANGED <<signals, queue, menu, loop, history>>

\* interrupt: the cancel flag, then the id.
InterruptBegin(c) ==
  /\ Enter(c, "clearId", NoId, None)
  /\ cancelFlag' = TRUE
  /\ soloStop' = FALSE
  /\ UNCHANGED <<pauseFlag, pauseId, decisions, queue, menu, loop, owed,
                 terminated, flagIsOurs, taken>>

\* force_reset: the cancel flag, the pause flag, the id.
ResetBegin(c) ==
  /\ Enter(c, "resetFlag", NoId, None)
  /\ cancelFlag' = TRUE
  /\ soloStop' = FALSE
  /\ UNCHANGED <<pauseFlag, pauseId, decisions, queue, menu, loop, owed,
                 terminated, flagIsOurs, taken>>

ResetFlag(c) ==
  /\ Go(c, "resetFlag", "clearId")
  /\ pauseFlag' = FALSE
  /\ UNCHANGED <<pauseId, decisions, cancelFlag, queue, menu, loop, history>>

ClearId(c) ==
  /\ Return(c, "clearId")
  /\ pauseId' = NoId
  /\ UNCHANGED <<pauseFlag, decisions, cancelFlag, queue, menu, loop, history>>
-----------------------------------------------------------------------------
(***************************************************************************)
(* The loop.                                                               *)
(***************************************************************************)
Step(from, to) == /\ at = from
                  /\ at' = to

\* Leaving a loop: the sub-task returns to the leader, a refine without a summary
\* is rolled back, the leader closes.
Leave == IF sub THEN "return" ELSE IF refining THEN "rollback" ELSE "closing"

\* The loop of a refine has the bound of the leader's own.
InnerBound == IF sub THEN MaxSubIterations ELSE MaxIterations

\* Only the loop of a task looks at what is left of the context window.
AfterPause == IF sub \/ refining \/ kind = "refine" THEN "llm" ELSE "budget"

NextIteration ==
  \/ /\ sub \/ refining
     /\ subIter + 1 < InnerBound
     /\ at' = "check" /\ subIter' = subIter + 1 /\ UNCHANGED iter
  \/ /\ ~sub /\ ~refining
     /\ iter + 1 < MaxIterations
     /\ at' = "check" /\ iter' = iter + 1 /\ UNCHANGED subIter
  \/ /\ IF sub \/ refining THEN subIter + 1 = InnerBound
                          ELSE iter + 1 = MaxIterations
     /\ at' = Leave /\ UNCHANGED counters

StartRound(k) ==
  /\ Step("idle", "prepare")
  /\ kind' = k
  /\ UNCHANGED <<signals, queue, menu, callers, refining, mark, hardStopFailed,
                 sub, counters, wait, stops, seen, history>>

\* A fresh loop clears the queue, a resumed one keeps it.
EnterLoop ==
  /\ Step("prepare", "check")
  /\ \/ kind # "retry" /\ queue' = {}
     \/ kind # "fresh" /\ UNCHANGED queue

\* Mutation: a round starts without lowering the flag.
PrepareKeepsFlag ==
  /\ EnterLoop
  /\ cancelFlag' = FALSE
  /\ UNCHANGED <<pauseFlag, pauseId, decisions, menu, callers, run,
                 sub, counters, wait, stops, seen, history>>

\* Both flags are void for a new round; a retry leaves the pause flag alone.
Prepare ==
  /\ EnterLoop
  /\ cancelFlag' = FALSE
  /\ pauseFlag' = (pauseFlag /\ kind = "retry")
  /\ UNCHANGED <<pauseId, decisions, menu, callers, run, sub,
                 counters, wait, stops, seen, history>>

\* The top of an iteration takes the queue and looks at the cancel flag; a
\* cancelled sub-task leaves before it takes the queue.
CheckTop ==
  /\ Step("check", IF cancelFlag THEN Leave ELSE "pause")
  /\ IF sub /\ cancelFlag
     THEN UNCHANGED <<queue, seen>>
     ELSE /\ seen' = seen \cup queue
          /\ queue' = {}
  /\ UNCHANGED <<signals, menu, callers, run, sub, counters, wait, stops,
                 history>>

PauseCheck ==
  /\ Step("pause", IF pauseFlag THEN "ask" ELSE AfterPause)
  /\ UNCHANGED <<signals, queue, menu, callers, run, sub, counters, wait,
                 stops, seen, history>>

\* Mutation: the loop waits on an id of its own whatever was asked.
AskOwnId ==
  /\ Step("ask", "peek")
  /\ \E i \in Ids : NewId(i) /\ loopId' = i
  /\ UNCHANGED <<pauseFlag, pauseId, cancelFlag, queue, menu, callers, run,
                 sub, counters, polls, got, stops, seen, terminated, soloStop,
                 flagIsOurs, taken>>

\* The current id, or, if an interrupt has cleared it, one of the loop's own.
Ask ==
  /\ Step("ask", "peek")
  /\ \/ /\ pauseId # NoId
        /\ loopId' = pauseId
        /\ UNCHANGED <<decisions, owed>>
     \/ /\ pauseId = NoId
        /\ \E i \in Ids : NewId(i) /\ loopId' = i
  /\ UNCHANGED <<pauseFlag, pauseId, cancelFlag, queue, menu, callers, run,
                 sub, counters, polls, got, stops, seen, terminated, soloStop,
                 flagIsOurs, taken>>

\* Mutation: the menu pops up even if the decision is there already.
PeekAlwaysEmits ==
  /\ Step("peek", "emit")
  /\ UNCHANGED <<signals, queue, menu, callers, run, sub, counters, wait,
                 stops, seen, history>>

\* The menu is announced unless the decision is there already.
Peek ==
  /\ at = "peek"
  /\ at' = IF decisions[loopId] = None THEN "emit" ELSE "wait"
  /\ UNCHANGED <<signals, queue, menu, callers, run, sub, counters, wait,
                 stops, seen, history>>

\* A refine's events do not reach the frontends (RefineStreamFilter).
Emit ==
  /\ Step("emit", "wait")
  /\ menu' = IF refining \/ kind = "refine" THEN menu ELSE loopId
  /\ UNCHANGED <<signals, queue, callers, run, sub, counters, wait, stops,
                 seen, history>>

\* One poll looks at the cancel flag first ...  (The flag only goes up while a
\* round runs, so an interrupt between its two looks is one right after them.)
WaitCancel ==
  /\ cancelFlag
  /\ Step("wait", "lower")
  /\ got' = Terminate
  /\ UNCHANGED <<signals, queue, menu, callers, run, sub, counters, loopId,
                 polls, stops, seen, history>>

\* Mutation: the decision is read and left in the table.
TakeDecisionByPeek ==
  /\ ~cancelFlag
  /\ Step("wait", "lower")
  /\ decisions[loopId] # None
  /\ got' = decisions[loopId]
  /\ owed' = owed \ {loopId}
  /\ UNCHANGED <<signals, queue, menu, callers, run, sub, counters, loopId,
                 polls, stops, seen, terminated, soloStop, flagIsOurs, taken>>

\* ... and then takes the decision out of the table, if there is one.
TakeDecision ==
  /\ ~cancelFlag
  /\ Step("wait", "lower")
  /\ decisions[loopId] # None
  /\ got' = decisions[loopId]
  /\ decisions' = [decisions EXCEPT ![loopId] = None]
  /\ owed' = owed \ {loopId}
  /\ UNCHANGED <<pauseFlag, pauseId, cancelFlag, queue, menu, callers, run,
                 sub, counters, loopId, polls, stops, seen, terminated,
                 soloStop, flagIsOurs, taken>>

\* Mutation: one poll too many.
PollAgainOnceMore ==
  /\ at = "wait" /\ ~cancelFlag
  /\ decisions[loopId] = None
  /\ IF polls < MaxPolls
     THEN polls' = polls + 1 /\ UNCHANGED <<at, got>>
     ELSE at' = "lower" /\ got' = Continue /\ UNCHANGED polls
  /\ UNCHANGED <<signals, queue, menu, callers, run, sub, counters, loopId,
                 stops, seen, history>>

\* Half a second later again; after the last poll the answer is Continue.
PollAgain ==
  /\ at = "wait" /\ ~cancelFlag
  /\ decisions[loopId] = None
  /\ IF polls + 1 < MaxPolls
     THEN polls' = polls + 1 /\ UNCHANGED <<at, got>>
     ELSE at' = "lower" /\ got' = Continue /\ UNCHANGED polls
  /\ UNCHANGED <<signals, queue, menu, callers, run, sub, counters, loopId,
                 stops, seen, history>>

\* The flag goes down whoever raised it, and for whatever id.
Lower(k) ==
  /\ got.kind = k
  /\ Step("lower", AfterPause)
  /\ pauseFlag' = FALSE
  /\ loopId' = NoId /\ polls' = 0 /\ got' = None
  /\ UNCHANGED <<pauseId, decisions, cancelFlag, menu, callers, run, sub,
                 counters, owed, soloStop, flagIsOurs>>

ActContinue ==
  /\ Lower("continue")
  /\ UNCHANGED <<queue, stops, seen, terminated, taken>>

\* A react_loop puts the text into the queue, a sub-task into its conversation.
ActAppend ==
  /\ Lower("append")
  /\ taken' = taken \cup got.texts
  /\ IF sub THEN seen' = seen \cup got.texts /\ UNCHANGED queue
            ELSE queue' = queue \cup got.texts /\ UNCHANGED seen
  /\ UNCHANGED <<stops, terminated>>

\* leader_should_stop is a variable of its react_loop: the one of a refine, whose
\* tool calls are dropped anyhow, stops nothing.
ActTerminate ==
  /\ Lower("terminate")
  /\ terminated' = (terminated \/ ~refining)
  /\ leaderStop' = (leaderStop \/ (~sub /\ ~refining))
  /\ subStop' = (subStop \/ sub)
  /\ UNCHANGED <<queue, seen, taken>>

WithinBudget ==
  /\ Step("budget", "llm")
  /\ UNCHANGED <<signals, queue, menu, callers, run, sub, counters, wait, stops,
                 seen, history>>

\* The conversation fills 85% of the window: it is condensed on the spot, by a
\* react_loop of kind Refine inside this iteration.
RefineBegin ==
  /\ Step("budget", "check")
  /\ ~hardStopFailed /\ ~cancelFlag
  /\ refining' = TRUE
  /\ mark' = seen
  /\ UNCHANGED <<signals, queue, menu, callers, kind, hardStopFailed, sub,
                 counters, wait, stops, seen, history>>

\* The iteration goes on where it was, after its own pause check.
RefineEnds == /\ at' = "llm"
              /\ refining' = FALSE
              /\ mark' = {}
              /\ subIter' = 0
              /\ UNCHANGED <<signals, queue, menu, callers, kind, sub, iter,
                             wait, stops, history>>

\* A summary replaces the conversation.
RefineSucceeds ==
  /\ refining /\ ~cancelFlag
  /\ at = "llm"
  /\ RefineEnds
  /\ UNCHANGED <<hardStopFailed, seen>>

\* Otherwise what the conversation has got since is cut off again, appended texts
\* included, and this round does not try once more.
RollBack ==
  /\ at = "rollback"
  /\ RefineEnds
  /\ hardStopFailed' = TRUE
  /\ seen' = mark

\* A call of the model, a tool, and the time between two polls can be dropped.
Suspended == at \in {"llm", "tools"} \/ (at = "wait" /\ polls > 0)

\* The time for a refine inside the iteration is over: its future is dropped where
\* it waits, the flag and the decisions stay as they are.
RefineTimesOut ==
  /\ refining /\ Suspended
  /\ at' = "rollback"
  /\ loopId' = NoId /\ polls' = 0
  /\ UNCHANGED <<signals, queue, menu, callers, run, sub, counters, got, stops,
                 seen, history>>

\* The same for the loop of the refine command, with the sub-task it may be in.
CommandTimesOut ==
  /\ kind = "refine" /\ Suspended
  /\ at' = "closing"
  /\ loopId' = NoId /\ polls' = 0
  /\ sub' = FALSE /\ subIter' = 0 /\ subStop' = FALSE
  /\ UNCHANGED <<signals, queue, menu, callers, run, iter, got, leaderStop, seen,
                 history>>

\* The model answers, fails or is cancelled: the loop is left.
LlmLeave ==
  /\ Step("llm", Leave)
  /\ UNCHANGED <<signals, queue, menu, callers, run, sub, counters, wait,
                 stops, seen, history>>

\* Only the leader looks at the cancel flag after the model's answer.
NotCancelled == sub \/ ~cancelFlag

\* An empty answer, or one to be repeated.
LlmAgain ==
  /\ at = "llm"
  /\ NotCancelled
  /\ NextIteration
  /\ UNCHANGED <<signals, queue, menu, callers, run, sub, wait, stops, seen,
                 history>>

\* Tool calls, which are not run once a stop was asked for.
LlmCalls ==
  /\ ~refining
  /\ NotCancelled
  /\ Step("llm", IF (sub /\ subStop) \/ (~sub /\ leaderStop) THEN Leave
                 ELSE "tools")
  /\ UNCHANGED <<signals, queue, menu, callers, run, sub, counters, wait,
                 stops, seen, history>>

\* The leader looks at the cancel flag after every tool call, and a tool may
\* end the loop by an error.
LeaderTool ==
  /\ ~sub
  /\ at = "tools"
  /\ \/ at' = "closing" /\ UNCHANGED counters
     \/ ~cancelFlag /\ NextIteration
  /\ UNCHANGED <<signals, queue, menu, callers, run, sub, wait, stops, seen,
                 history>>

SubTaskTool ==
  /\ sub
  /\ at = "tools"
  /\ NextIteration
  /\ UNCHANGED <<signals, queue, menu, callers, run, sub, wait, stops, seen,
                 history>>

\* task_dispatch runs the sub-task's loop inside the leader's tool call.
Dispatch ==
  /\ ~sub
  /\ Step("tools", "check")
  /\ sub' = TRUE
  /\ subIter' = 0
  /\ subStop' = FALSE
  /\ UNCHANGED <<signals, queue, menu, callers, run, iter, wait, leaderStop,
                 seen, history>>

\* A sub-task's return ends the tool call of the leader that dispatched it.
LeaveSubTask(cancelled) ==
  /\ at = "return"
  /\ sub' = FALSE
  /\ subIter' = 0
  /\ subStop' = FALSE
  /\ IF ~cancelled /\ iter + 1 < MaxIterations
     THEN at' = "check" /\ iter' = iter + 1
     ELSE at' = "closing" /\ UNCHANGED iter
  /\ UNCHANGED <<pauseFlag, pauseId, decisions, queue, menu, callers, run,
                 wait, leaderStop, seen, history>>

\* Mutation: the leader is not told of the user's Terminate.
SubTaskReturnsSilently ==
  /\ LeaveSubTask(cancelFlag)
  /\ UNCHANGED cancelFlag

\* A Terminate that the sub-task acted on reaches the leader as a cancel.
SubTaskReturns ==
  /\ LeaveSubTask(cancelFlag \/ subStop)
  /\ cancelFlag' = (cancelFlag \/ subStop)

\* The guard of a round clears the queue; those of retry and refine do not.
EndRound ==
  /\ Step("closing", "idle")
  /\ queue' = IF kind = "fresh" THEN {} ELSE queue
  /\ kind' = "none"
  /\ iter' = 0
  /\ leaderStop' = FALSE
  /\ hardStopFailed' = FALSE
  /\ seen' = {} /\ taken' = {}
  /\ terminated' = FALSE /\ soloStop' = FALSE /\ flagIsOurs' = FALSE
  /\ UNCHANGED <<signals, menu, callers, refining, mark, sub, subIter, wait,
                 subStop, owed>>
-----------------------------------------------------------------------------
CallStep(c) ==
  \/ PauseRaise(c) \/ PauseAnnounce(c) \/ StopPreset(c) \/ StopRaise(c)
  \/ Answer(c) \/ AppendFlag(c) \/ AppendBusy(c) \/ MobileFlag(c)
  \/ MobileId(c) \/ ResetFlag(c) \/ ClearId(c)

Call(c) ==
  \/ PauseBegin(c) \/ StopBegin(c) \/ InterruptBegin(c) \/ ResetBegin(c)
  \/ AnswerBegin(c, Continue) \/ AnswerBegin(c, Terminate)
  \/ \E t \in Instructions : AppendBegin(c, t) \/ MobileBegin(c, t)

WaitStep ==
  \/ PauseCheck \/ Ask \/ Peek \/ Emit \/ WaitCancel \/ TakeDecision
  \/ PollAgain \/ ActContinue \/ ActAppend \/ ActTerminate

RefineStep ==
  \/ WithinBudget \/ RefineBegin \/ RefineSucceeds \/ RollBack \/ RefineTimesOut
  \/ CommandTimesOut

LoopStep ==
  \/ Prepare \/ CheckTop \/ WaitStep \/ RefineStep
  \/ LlmLeave \/ LlmAgain \/ LlmCalls
  \/ LeaderTool \/ SubTaskTool \/ Dispatch \/ SubTaskReturns \/ EndRound

Next == \/ \E c \in Callers : Call(c) \/ CallStep(c)
        \/ \E k \in {"fresh", "retry", "refine"} : StartRound(k)
        \/ LoopStep

Spec == Init /\ [][Next]_vars
-----------------------------------------------------------------------------
(***************************************************************************)
(* Properties.                                                             *)
(***************************************************************************)
TypeOK ==
  /\ pauseFlag \in BOOLEAN /\ cancelFlag \in BOOLEAN
  /\ pauseId \in Ids \cup {NoId}
  /\ decisions \in [Ids -> DecisionSet]
  /\ queue \subseteq Instructions /\ menu \in Ids \cup {NoId}
  /\ pc \in [Callers -> CallPoints]
  /\ cid \in [Callers -> Ids \cup {NoId}]
  /\ cdec \in [Callers -> DecisionSet]
  /\ at \in RoundPoints
  /\ kind \in {"none", "fresh", "retry", "refine"}
  /\ sub \in BOOLEAN
  /\ refining \in BOOLEAN /\ mark \subseteq Instructions
  /\ hardStopFailed \in BOOLEAN
  /\ iter \in 0 .. MaxIterations - 1
  /\ subIter \in 0 .. InnerBound - 1
  /\ loopId \in Ids \cup {NoId} /\ polls \in 0 .. MaxPolls - 1
  /\ got \in DecisionSet
  /\ leaderStop \in BOOLEAN /\ subStop \in BOOLEAN
  /\ seen \subseteq Instructions
  /\ owed \subseteq Ids /\ taken \subseteq Instructions
  /\ terminated \in BOOLEAN /\ soloStop \in BOOLEAN /\ flagIsOurs \in BOOLEAN

\* A wait ends by an answer that was given for its own id and has not been used
\* before, or by running out of polls (or by a cancel): two pauses that overlap
\* may make the loop wait twice on one id, and the first wait's answer must not
\* let the second one through.
EveryAnswerGiven ==
  [][at = "wait" /\ at' = "lower" /\ ~cancelFlag
       => loopId \in owed \/ polls + 1 = MaxPolls]_vars

\* Once a Terminate has been acted on, by the leader itself or inside a sub-task,
\* no further tool runs in this round, whatever is continued, appended, paused or
\* condensed afterwards.  (One that a refine inside the leader's iteration takes
\* binds nobody: the flag is down and the leader goes on.)
NoToolsAfterTerminate ==
  [][terminated /\ at # "tools" => at' # "tools"]_vars

\* A graceful stop that no other pause, stop, interrupt or reset disturbs is
\* obeyed: when the loop lowers the flag the stop raised, it has its Terminate.
SoloStopObeyed == soloStop /\ at = "lower" => got = Terminate

\* And it never pops up a pause menu, as graceful_stop promises.
SoloStopSilent == soloStop => menu # pauseId

\* A new round or refine never waits for a pause asked for before it began.
\* (A retry may: it does not lower the flag.)
OldPauseIgnored == at \in WaitPoints /\ kind # "retry" => flagIsOurs

\* What the loop says of an instruction appended during a pause
\* (react_loop.rs:507): this round's drain injects it.  So when a round that
\* was not cancelled closes, every such text is in the conversation.  (The refine
\* command, which the clock may stop anywhere, is not held to it.)
PausedAppendInjected ==
  at = "closing" /\ kind # "refine" /\ ~cancelFlag => taken \subseteq seen
=============================================================================
