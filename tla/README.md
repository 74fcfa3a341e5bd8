# Verification of the nuphus execution core

nuphus is a desktop agent: a Tauri shell (`src-tauri/`) around a Rust core (`src/`) that runs
a language model's tool calls on the user's machine.  Messages come in from the desktop
window, from a paired phone, from external agents that ring a doorbell, and from scheduled
workflows; all of them compete for one agent, one mouse and one browser, while the user may
pause, stop, append to, interrupt, retry or reset what runs.

These modules model that competition: who may run, what the shared flags say meanwhile,
and what becomes of every request that arrives at the wrong moment; what a desktop action
needs to be let through; which processes outlive the call that started them; and what the
floating timer shows meanwhile.  TLC checks them on
small instances and TLAPS proves the main safety properties for all values of the constants.
Paths below are relative to the repository.

- [1 Inventory](#1-inventory)
- [2 Modules and the code](#2-modules-and-the-code)
- [3 Runs, bounds, fairness](#3-runs-bounds-fairness)
- [4 What the code does otherwise than it says](#4-what-the-code-does-otherwise-than-it-says)
- [5 Proofs](#5-proofs)
- [6 Abstractions and known losses](#6-abstractions-and-known-losses)
- [7 Not modelled](#7-not-modelled)
- [8 Plan](#8-plan)

To repeat the checks: `tlc -workers 2 -config <X>.cfg <MC module>` for each row of section 3
(the first part of a configuration's name is its component's), and
`tlapm <X>Proofs.tla` for each proof module.

## 1 Inventory

### Parts that are modelled

| Part | State | Operations | What makes it hard, what makes it correct |
|---|---|---|---|
| Execution lifecycle, `src-tauri/src/commands/process.rs` and `process/` | execution stage (Idle, Running, Finalizing), append queue, last message, cancel flag, refine flag, pending retry | submit (window, phone, wake), retry, refine, append, remove an append, interrupt, force_reset | Every command is an async task of its own, there is no queue of commands, a dozen early returns between taking the stage and spawning the task.  One body at a time; the stage tells the truth; every lease and flag comes back. |
| ReAct loop and sub-task loop, `src/runtime/react_loop.rs`, `sub_task_loop.rs` | iteration counter, what has been injected | drain appends, look at cancel, wait for a pause, inject doorbell events, call tools, run a sub-task inside a tool | Polls the shared flags between awaits; sub-tasks poll the same flags. |
| Doorbell, `src/handoff.rs`, `src-tauri/src/handoff_server.rs` | terminal events, ids seen, deferred wakes | push, drain, peek, wake, put off, replay | An event must lead to a round even if it arrives while a round closes. |
| Automation gate, `src/automation_gate.rs` | one slot: owner and token | acquire, reenter, drop | Leases are values that may be dropped late; nested calls of the owner get empty leases.  One owner; no leak; no early release. |
| Automation lock, `src/utils/automation_lock.rs` | a lock file with token and expiry | publish, inspect, reclaim, heartbeat, release | Several processes, crashes, stalls, file system errors; the file system has no compare-and-swap. |
| Pause channel, `src/agent/pause.rs`, `process/lifecycle.rs`, the loops | pause flag, current action id, decisions by id, cancel flag, the menus | pause, graceful stop, continue, terminate, append, interrupt, reset | A command changes these one at a time while the loop polls them.  No answer is applied to another pause; a stop stops. |

| Desktop approval, `src/tools/desktop_approval.rs` | pending approvals, tickets bound to an execution owner, the two cancel flags | authorize, resolve, look, expire, the guard's drop | The record and the ticket are under two locks; an answer uses the channel after it has let go of the lock; deadline, cancel, a new round and the end of the call race with it.  Only an action the user approved for this call is dispatched, and not after a stop. |
| Background tasks, `src/tools/background_tasks.rs`, the shells of `tools/definitions/system.rs` and `runtime/sub_task_shell.rs` | ledger of child processes with a retain mark, their logs | register, unregister, set_retain, kill_one, kill_foreground, kill_expired, kill_all, list_and_prune | Every killer acts on a copy of an entry after it has let go of the lock, while the waiting call acts too.  What lives is listed; what was declared background survives a cancel. |
| HUD arbiter, `src/hud_arbiter.rs` | active calls with priorities, the text shown, a count of terminal frames | call start, running hint, terminal frame, call end, flush | Terminal frames and ends are paired by a counter, and the leader and a sub-task send them in different orders.  The timer stops with the last call. |

How they meet.  A submit first acquires the **gate**, then swaps the **stage**; the body it
spawns owns both until a guard clears the queue, writes Idle and drops the lease.  The
body runs the **loop**, which reads the append **queue**, the **cancel flag**, the **pause
channel** and the **doorbell**.  A body that ends replays the **wakes** put off for it, each of
which is a submit again.  Manual tool calls, workflows and side chats take the same gate; a desktop
action asks for its **approval** inside the gate's lease and listens to the **cancel flag**; an interrupt
sweeps the **background tasks** of the calls it stops; every call reports to the **HUD**.  A
desktop or browser call takes the **lock file** as well, against other processes.

### Parts that are planned

| Part | State | Operations | Hazard |
|---|---|---|---|
| Workflow engine, `src/workflow/` | active run, executor signals, schedules, history | execute, cancel, pause, resume, set_schedule, fire | The active-run gate reads the execution stage, a round does not read the active run (`workflow/mod.rs:158`). |
| Session shelf, `process/shelf.rs`, `src/session/` | active session, mirrors, snapshots | switch, new, delete | guard_switch looks at stage and queue and acts later (`shelf.rs:420`). |

The remaining parts and the reasons for leaving them out are in section 7.
`PROJECT.json` lists, under `hazards`, the places where each of these parts can go wrong in a
way that a test would hardly reach, with the properties that watch it.

## 2 Modules and the code

| Module | Stands for | EXTENDS / INSTANCE |
|---|---|---|
| `SingleSlot` | The abstract promise of an exclusive resource: taken only when free, freed only by a step of its own. | - |
| `OneShotRequest` | The abstract promise to the user: a request is put once, answered once, acted on once and only after a yes, and a stop is final. | - |
| `ExecutionLifecycle` | Commands, stage, queue, doorbell, refine and retry, the loop's control. | `SingleSlot` twice: the body and the gate |
| `AutomationGate` | The gate's own operations. | `SingleSlot` |
| `DesktopApproval` | One approval per desktop call, on top of the gate's leases. | EXTENDS `AutomationGate`; `OneShotRequest` with a call's `Status` |
| `AutomationLock` | The lock file, one file system call per step. | - |
| `PauseControl` | The pause channel between commands and loop. | - |
| `BackgroundTasks` | Both shells, the ledger and its killers. | - |
| `HudArbiter` | The arbiter's handlers and the order of events of leader and sub-task. | - |
| `MC...` | The instance TLC checks: symmetry and view. | its component |
| `...Proofs` | The theorems. | its component and `TLAPS` |

`PROJECT.json`, under `map`, gives the source lines of every definition.  Definitions whose comment
begins with *Mutation* are not part of a specification: each is a plausible bug in the
definition after it, kept to show that some property notices.

**ExecutionLifecycle.**  An actor is one invocation of a command; `pc[a]` is its next step.  A step
is what the code does between two points at which another task can run: a lock region, or
several when nothing shared lies between them.  For a submit: `DesktopBegin` or
`MobileBegin`/`MobileDispose` (the phone looks at the stage first, `mobile_append.rs`),
`SubmitDispose` (busy: append or refuse), `SubmitPush`/`Enqueue` (the append itself, on a stage
read earlier; `UnlessRepeated` drops a text that repeats the round's own message, on a read that is as old),
`SubmitAcquire` (gate), `SubmitSwap` (stage), `SubmitClaim` (dedup), `SubmitPrepare`
(void the cancel flag), `SubmitAbort` (the early returns), `SubmitLaunch` (spawn).  Then
`EnterLoop` .. `LeaveLoop`, `Finalize`, `ClosingWork`, and the guards in their drop order:
`EndTakeQueue`, `EndIdle`, `EndReleaseGate`, `ReplayTake`.  `RelockRuntime` is the branch of section 4
that waits for itself.  Retry, refine and reset are laid out the same way.  `Interrupt`,
`ExternalTake` and `ExternalRelease` are the environment: a user's interrupt, a manual tool or
workflow with the gate.  `resetSaw` is a history variable: the bodies that a reset found.

**AutomationGate.**  Each operation runs inside the gate's mutex, so each is one step.  `lease[l]`
is what a frame holds; `Reenter` gives it token 0, and `DropLease` frees the slot only if the
token is still the slot's.  A frame's nested lease is dropped before the outer one, as Rust
scopes do (`Innermost`).

**AutomationLock.**  `file` is the record at the path, `aside[c]` the one a caller renamed away.
`Publish` is the hard link that fails if a file is there; `Inspect`, `Capture`, `Verify` are the
reclaim; `RenewRead`, `RenewWrite` the heartbeat thread; `Drop`, `ReleaseCapture`, `ReleaseVerify` the
guard.  `Expire` is the passing of time, `Crash` the end of a process, with `Faults = FALSE` they and
the file system's errors do not happen.  With faults a read may fail (`Inspect` then reclaims, `RenewRead` ends the
heartbeat), and so may each rename: `ReleaseGone` is a release whose rename fails, the file gone or not, and
`PutBackUnread` one that cannot read its caller's own record and puts it back.  `moved` and `left` are
history variables: records taken from under a live owner, and records on which their own call's release failed.

**PauseControl.**  A caller is one invocation of a command, a step one access to shared state: for
`pause_execution` it is `PauseBegin` (write the id), `PauseRaise` (flag), `PauseAnnounce` (menu); for
`graceful_stop` the id, the preset Terminate, the flag.  `at` is the loop's next step:
`CheckTop` (drain, cancel), `PauseCheck`, then the wait `Ask`, `Peek`, `Emit`, `TakeDecision` /
`WaitCancel` / `PollAgain`, `Lower`, and the reaction `ActContinue`, `ActAppend`, `ActTerminate`; then the
model's answer and the tools, one of which may be a sub-task (`sub`) with the same steps.  The leader of a task looks
at its budget first (`AfterPause`): `WithinBudget`, or `RefineBegin`, which runs a second `react_loop` inside the iteration
(`refining`, `refine_in_loop`), with a drain, a pause wait and a `leader_should_stop` of its own and without tools.  It
ends by `RefineSucceeds`, or by `RollBack` to what the conversation was (`mark`), after which the round does not try again
(`hardStopFailed`); `RefineTimesOut` and, for the refine command, `CommandTimesOut` drop the loop where it waits.
`owed`, `terminated`, `soloStop`, `flagIsOurs` and `taken` are history variables.  `soloStop` is true from a
graceful stop that found no other request under way until some other request that would
replace it begins.

**DesktopApproval.**  A frame of the gate is a body or a desktop call.  `OpenRound` takes the gate
(`process.rs:302`) and only `ResetCancel` voids the cancel flag (`process.rs:347`); `OpenBody` is any other body (a
plug-in chat, a workflow, a schedule, a manual tool), which never touches the flag.  A call enters the gate
(`OpenCall`), then `Ask` writes the pending record (lock 1), `Prompt` the ticket (lock 2), the guard and the
event; it leaves its wait by `Receive` (an answer, then the checks after the await) or `GiveUp`
(cancel or deadline), and ends by `Dispatch` or `Return`.  An answer is `Look` (`approval::get`), `Resolve` (the ticket
is taken under one lock) and `Send` (the channel, after the lock).  `Tick` ages a prompt (fresh, stale, late), `Sweep` is the
removal of old records, `CancelHost` an interrupt or a reset, `CancelRun` a workflow's own flag.

**BackgroundTasks.**  A call goes from `Spawn` and `Register` into its polling loop, whose
looks at cancel, deadline, output and exit are steps of their own (`SeeCancel`, `SeeDeadline`, `SeeClosedOutput`,
`SeeExit`), and then keeps (`Keep`, `KeepUnmarked`) or kills (`KillOwn`, `SettleKill`).  A killer is the panel, a
sweep (of an interrupt, or of a cancelled tool call), the watchdog or the exit: it copies its targets (`Copy`), and for each
one kills, probes, notes and unlists (`Kill`, `ProbeAlive`, `ProbeGone`, `Unlist`).  `PipeBreaks` is the loss described in
section 6.  `faulty` and `told` are history variables: a process on which a kill or a
probe failed, and what the agent was told of its call.

**HudArbiter.**  One event is one step; the handlers are `OnToolCallStart`, `OnRunningHint`, `OnHudTerminal`,
`OnToolCallEnd` and `FlushAll`.  The executors are modelled by the order of their events: the leader takes its
calls one at a time, a sub-task starts all calls of a batch, checks them, runs them, and
then reports and ends them (`Turn`).  `rank` is the order in which a hash map iterates over calls of equal priority.

## 3 Runs, bounds, fairness

| Run | Config | Result | Shows |
|---|---|---|---|
| `lifecycle_safety` | `LifecycleSafety.cfg` | holds, 1,007,771 states | All safety properties, both refinements and the descent of the lifecycle. |
| `lifecycle_liveness` | `LifecycleLiveness.cfg` | holds, 71,316 states | Every body ends or waits for itself; leases and the refine flag come back. |
| `lifecycle_self_lock` | `LifecycleSelfLock.cfg` | violated | `BodyEnds`, finding 1. |
| `lifecycle_idle_queue` | `LifecycleIdleQueue.cfg` | violated | `NoIdleWithAppends`, finding 2. |
| `lifecycle_deferred_wake` | `LifecycleDeferredWake.cfg` | violated | `DeferredWakeReplayed`, finding 3. |
| `automation_gate` | `DesktopApproval.cfg` | holds, 451,386 states | The gate and the approvals on top of it: one owner, no leak, refinement of the slot; what runs was approved, stops are kept, every prompt is taken down; refinement of the one-shot request. |
| `automation_lock` | `AutomationLock.cfg` | holds, 1.6 million states | Exclusion as far as it goes, with all faults. |
| `automation_lock_race` | `AutomationLockRace.cfg` | violated | `MutualExclusion` without any fault, finding 4. |
| `pause_control` | `PauseControl.cfg` | holds, 1.8 million states | All safety properties of the pause channel. |
| `pause_append` | `PauseAppend.cfg` | violated | `PausedAppendInjected`, finding 5. |
| `background_tasks` | `BackgroundTasks.cfg` | holds, 95,098 states | What lives is listed, declared processes survive a cancel, kills are noted, nothing runs for ever. |
| `hud_timer` | `HudTimer.cfg` | violated | `TimerStops`, finding 6. |

**Bounds of the lifecycle.**  Two invocations run at a time and each returns to `ready`, so any
number run one after the other, in every overlap of two.  A body, a starter and the environment
(interrupts, external holders) are three parties; the queue bound of 1 already lets an append meet
every step of a round.  `QueueBound` counts appends waiting or in flight and guards only the
beginning of new submissions.  Two iterations suffice for a second drain after an append; the
liveness run has one.  `pendingRetry`, `lastMessage` and the texts matter only by equality, so one
message and one wake do.  The wake run has one wake; the liveness run has none, because
fairness makes the state graph with wakes too large and the wake's own liveness fails anyway
(finding 3).

**View of the lifecycle.**  The view hides the command and message of a finished invocation and the
loop counter outside the loop.  No action reads either before it writes it.  Symmetry permutes
actors and messages; it is used in the safety run only.

**Bounds of the gate and the approvals.**  Two owners, two leases for bodies, which are used again and
again, two desktop calls, four tokens, two answers under way.  Two bodies and two calls give a nested
lease next to a stranger's, and a call that waits while another round starts; two answers give a
yes and a no to the same prompt, or one to each of two prompts.  The system may stop when the calls and
tokens are used up, so deadlock is not checked.

**Bounds of the lock.**  Three callers, three successful acquisitions (tokens), three attempts of each
acquire.  Three callers are needed: one whose verdict is stale, one whose record is taken, one
that publishes in the gap.  Callers may crash and tokens run out, so deadlock is not checked.

**Bounds of the pause channel.**  Two concurrent commands, five ids (the current one, the one the loop
waits on, the menu's and one per command are the most that can be named at once), one
instruction, two leader iterations with one sub-task iteration in each, two polls per wait (600 in
the code: the last and one that is not).  A refine inside an iteration has the leader's iterations, as in the code.  The
view replaces ids by their roles (ids that nobody can read any more are alike), takes the two callers as a set, which
stands for symmetry, takes a Continue for an Append, which differ by the text alone, and drops what no further step of the round reads.  `pause_append` needs only one caller.

**Bounds of the background tasks.**  One call, one killer besides the watchdog; the killer is
panel, sweep and exit in turn, so each race of a killer with the call, the watchdog and another listing
occurs.  A second killer gives 1.8 million states and the same results in four minutes.  The theorems
do without these bounds.

**Bounds of the HUD.**  Batches of two calls, two texts, no permission questions: the smallest instance in
which the timer stays.  `TypeCorrect` and `DisplayCorrect` hold for batches of any size.

**Fairness.**  `FairSpec` of the lifecycle assumes weak fairness of `Proceed(a)` for each
invocation, and of `FailedWakeReturns`.  `Proceed` is the code an async task runs by itself; the
runtime polls every ready task, a model request has a timeout (`src/llm/client.rs:188`), and the wait for a
tool ends by its result, its timeout or a cancel (`src/tools/registry.rs:538-545`), so a task that can go on
does at some time.  No fairness is given to the user, to external
holders of the gate or to the doorbell; nobody need ever call anything.
`ApprovalSpec` assumes weak fairness of `Prompt`, `Tick` and `GiveUp`: the clock runs and the poll loop of
`authorize` is scheduled (`desktop_approval.rs:257`); nobody need ever answer.  `FairSpec` of the background
tasks assumes that a call's thread goes on to register what it spawned, that the watchdog's ticks come
back to an entry that stays too old (strong fairness, since entries come and go), and
that the watchdog finishes its work; it assumes nothing of calls, panels or sweeps.  The other
specifications state safety only.

**Properties.**  Each is stated in a comment above its definition.  The ones that say most:

- `OneBody`, `StageHonest`, `BodyNeverHandedOver`: no double run, no stage left busy, although refine takes
  the stage by a compare_exchange made of two lock regions and drops its lease early.
- `RefineFlagHonest`, `RefineFlagFalls`: no refused refine leaves "refining" up.
- `ResetWaitsForOldBody`: a reset that reports success has outlived every body it found.
- `BodyDescends`: whoever holds the gate or the stage never moves back: each of its steps lowers a rank, and no
  step of anybody else raises it.  A retry, a replay or an append sent in time cannot keep a body for ever.
- `SlotMatchesLease`, `GateIsSlot`: no drop, late or nested, frees or leaks the gate's slot.
- `ExclusionUnlessMoved`, `FirstLossIsReclaimOrUnread`: the lock file excludes unless a record was moved away from
  its live owner, and the first such move is made by a reclaim, or by a release that could not read its own record and
  puts it back; never by a heartbeat, a late drop or the put-back of a foreign record.
- `LockNotLeftBehind`: a record at the path has an owner at work, or a crashed one, unless it was moved or its own
  release failed on it; such a record keeps others out until its TTL ends.
- `SoloStopObeyed`, `SoloStopSilent`: a graceful stop that nothing else replaces reaches the loop as a
  Terminate and shows no menu, in whatever order its three writes meet the loop's reads.
- `EveryAnswerGiven`: a wait ends by an unused answer for its own id, by its last poll or by a cancel.
- `NoToolsAfterTerminate`: a Terminate taken by the leader or by a sub-task, whose leader it stops too, is the end of all
  tools of the round.  One that a refine inside an iteration takes binds nobody (section 6).
- `OldPauseIgnored`: only a retry ever waits for a pause raised before its round.

- `DispatchIsApproved`: an action is dispatched only if the user was told that the yes to this call's own prompt is
  accepted, with no other answer to it under way.
- `StoppedNeverRuns`: a call whose run was stopped while its prompt was open never dispatches, although the next
  round voids the flag.
- `ApprovalIsOneShot`: the approval in its parts is a one-shot request: what a late answer, a second answer, an old
  ticket or a new round does to a request is nothing, or a step of that request.
- `RecordsMatchCall`, `OneAnswer`: record, ticket and channel of a call agree although they are written under three
  locks, and of two answers one counts.
- `PromptEnds`: a prompt that nobody answers is taken down.
- `SurvivorIsListed`: a process alive after its call is in the ledger, unless a kill or a probe failed on it.
- `DeclaredSurvivesCancel`: no sweep of an interrupt and no kill of a cancelled call ends what was declared background.  (A
  declared process of a sub-task may still die of its lost pipe at its next write, which the model counts apart:
  section 6.)
- `KilledKeptIsNoted`: the log of a kept process that panel, watchdog or exit ended says so.
- `NothingRunsForever`: every process dies at some time, unless a kill or a probe failed on it or the application
  has exited.

Every property of a passing run has a mutant in `PROJECT.json` that breaks it.

## 4 What the code does otherwise than it says

1. **A round may never end** (`lifecycle_self_lock`).  On a retryable error the task locks
   `state.runtime` (`process.rs:1020`), finds no agent, and evaluates `state.runtime.lock()` again
   (`process.rs:1027`) with the first guard alive.  The mutex is not reentrant.  The stage stays Running and the
   gate is held.  `BodyEndsOrSelfLocks` and `LeaseReturned`, which hold, make an exception for this branch.
2. **An append may land in an idle backend** (`lifecycle_idle_queue`).  A submission takes the stage (`process.rs:308`),
   `append_instruction` finds the backend busy and accepts an append (`lifecycle.rs:165-167`), and the submission gives up
   before its spawn (`process.rs:354`, 378, 544).  Such an early return stores Idle and never clears the queue, so that
   the append waits in an idle backend, against `process.rs:632-634`, until the next round discards it.  No guard of
   a round takes part in this trace.  The code has two more ways to the same state: an append decided on
   the stage read at `process.rs:199` and pushed at 272 after the guard has cleared the queue (637), and
   the guards of retry and refine, which write Idle and leave the queue alone.
3. **A deferred wake may be forgotten** (`lifecycle_deferred_wake`).  A refine, and a round that aborts before it
   spawns, have no replay guard; and the stage is read (`process.rs:1508`) before the wake is put on the
   list, so that the replay may have taken the list already, against `process.rs:1426-1428`.
4. **Two processes may hold the lock file** (`automation_lock_race`).  A record that cannot be read, for example
   because it was just released, counts as stale (`automation_lock.rs:135`), and the reclaim renames
   whatever is there by then, a live record too, against `automation_lock.rs:3-4`.
5. **An instruction given in a pause may never be seen** (`pause_append`).  The leader queues it
   (`react_loop.rs:508`) after the drain of its iteration; if the model's next answer is final, the round
   ends without it, against the comment at `react_loop.rs:507`.  The sub-task loop does it right.

6. **The timer may stay with no tool behind it** (`hud_timer`).  Two shells of one batch of a sub-task both send
   their terminal frames before either end: `pending_ends` is 2 and nothing is displayed.  The first end shows the
   other call as running (`hud_arbiter.rs:308`), the last one finds a frame to consume and shows nothing, against
   `hud_arbiter.rs:6-7`.

## 5 Proofs

All proofs are checked by TLAPS to the last leaf.  What they assume of the constants is named
in the component modules: special values differ from ordinary ones
(`ActorAssumption`, `MessageAssumption`, `OwnerAssumption`, `NoIdAssumption`), bounds are numbers
(`BoundAssumption`, `TokenAssumption`, `TryAssumption`, `BoundsAssumption`), `Faults` is Boolean.
No set is assumed finite: the theorems speak of any number of invocations, callers, leases, ids.

**ExecutionLifecycleProofs.**  `OneBody` is not inductive: nothing in it says why a starter that has the gate finds
the stage Idle.  `IInv` adds

- `CommandInv`: which command can be at which point, and with which kind of message;
- `GateInv`: an invocation is at a point of `Holding` exactly if it is the gate's holder;
- `ExchangeInv`: a refine between the two halves of compare_exchange still finds the stage Idle.  This is where
  the gate is needed: anybody who could write Running in between would have to hold it;
- `StartInv`, `ClosingInv`: what the stage says while a body starts or closes;
- `ResetInv`: the bodies a waiting reset still remembers are bodies that run.

From `IInv` follow `OneBodyAtATime`, `StageIsHonest`, `RoundHoldsGate`, `RefineFlagIsHonest`, `ResetWaits`, the action
properties `FinalizingLeadsOnlyToIdle` and `CancelVoidedByStartOnly`, and the refinements
`GateImplementsSlot` and `BodyImplementsSlot`.  For the body the mapping is
`CurrentBody`, which picks the one element of `Bodies`; lemma `OneMoves` shows that a step lets at most one
invocation into or out of `Bodies`.

`BodiesDescend` is the safety half of the liveness properties.  `Rank(a)` is a number made of the iterations
left (`Lap`) and the points left in this one (`Left`).  `OwnStepDescends` goes through the steps of a body or a starter
(`ShortcutDescends` collects the early returns), `OtherStepsKeepRank` through everybody else's.  A body therefore takes
a bounded number of steps, and what `BodyEndsOrSelfLocks` and `LeaseReturned` need on top is only that the runtime schedules
it, which TLC checks.

Two conditional theorems say where findings 2 and 3 begin and that nothing else goes wrong.
`NoIdleWithAppendsInTime`: if an append is only ever pushed while a round that will still drain or clear the
queue is there, no append is left in an idle backend; `TakerStays` shows that such a round stays until it has emptied the queue.
`WakesInTimeHaveReplay`: if a wake is only ever put off while a body that replays is there, a deferred wake has
such a body at every moment until its replay.

**AutomationGateProofs.**  `LeasesFollowSlot` (a lease alive is the slot owner's) and `TokensCounted` (the slot's
token is below the counter, and a free slot has none) strengthen `SlotMatchesLease`.  From them follow
`OwnersExclude`, `SlotIsNotLeaked` and the refinement `GateImplementsSlot`.

**DesktopApprovalProofs.**  `ApprovalUsesGate` shows that the composed specification implements the gate's, step by
step, and so takes over the gate's invariant.  `AInv` adds `Frames` (a round that has the gate but not yet
voided the flag is alone), `Untouched` (a call that has not asked has no record), `Tokens` (a request
has one token: its ticket, the answer that took it, or the word in the channel), `RecordsMatchCall` and `Stops`
(what a stopped call may still do).  From it follow `ApprovalTypeCorrect`, `OnlyApprovedRun`, `StopsAreKept`, `RecordsAgree` and
`AnswersStand`.  `ApprovalImplementsOneShot` is the refinement of `OneShotRequest`: `Status` reads what has become of a request
off the place of its call, the ticket, the answer that holds the ticket and the channel.  Lemma `OneStatus`
shows by `Tokens` that these agree, and `OneShotStep` maps every step to a step of one request or a stutter.

**BackgroundTasksProofs.**  `LedgerInv`: whoever removes an entry has seen the process dead or killed it first, unless
something failed on it.  `IntentInv`: what was declared background is never listed as foreground, so no sweep has it
among its targets.  `NoteInv`: a killer that leaves notes is on its way to the log until the note is there.  Together they
give `SurvivorsAreListed`, `DeclaredSurvive` and `KilledKeptAreNoted`, for any number of calls and killers.  Two more theorems are
the safety half of `NothingRunsForever`: `WatchdogMissesNothing` (a live process is in the ledger from its registration on,
whatever its call did) and `KillersComeBack` (a killer works through the copy it took and nobody adds to it, so the
watchdog comes round to the next listing).

**HudArbiterProofs.**  `TypeCorrect` and `DisplayCorrect` (the text taken for displayed is that of a registered
call) hold for batches of any size; the lemma `TopOfSet` shows that the arbiter's choice of a top call is well
defined.  The others say where finding 6 begins.  `TimerStopsWhenPaired`: if a terminal frame is consumed
before the next one is sent (`Paired`), no timer is left running when the last call has ended; its invariant `TimerInv`
relates the counter to the calls whose frame is out.  `TimerStopsWhenCalm` says which batches are like that (`Calm`): a
leader's, whose calls do not overlap, and a sub-task's that runs no shell beside a second shell or a screen tool;
no permission question, no user prompt, and at most one call left by the circuit breaker.  `TimerStopsAlone`, for
one call at a time, is a corollary.

**AutomationLockProofs.**  `TokenInv` (a token is below the counter and in one guard), `GuardInv` (who has a
guard, whose heartbeat may run), `FileInv` (a caller at work finds its own record at the path, unless moved) and
`AsideInv` (a record set aside counts as moved, unless its owner is releasing it or is dead, or its own release
failed on it).  From these
`ExclusionHolds`, `RecordHasOwner`, `ReclaimOrUnreadIsTheCause`.  That a record may be moved at all is
finding 4, so mutual exclusion is not a theorem of the code as it stands.  `UnclaimedTakesExclude` says what it would take: if
what a capture takes, and what the put-back of an unread own record replaces, is still a stale record, or none, that no
call at work answers for (`TakesOnlyUnclaimed`), mutual exclusion holds, with crashes, retries and failing file
operations.  Nothing else in the protocol has to change.

**PauseControlProofs.**  `IInv` joins the type invariant with `IdInv` (who reads or writes the table has an
id), `OwedInv` (an entry of the table was put there since the last one was taken), `TerminateInv` (after a
Terminate the loop is past its tools, and a leader whose sub-task took it has its own flag up), `FlagInv` (only a
retry begins with the flag up) and `NestInv` (which loop runs inside which, and where).  `OwedInv` gives
`EveryAnswerWasGiven`, `TerminateInv` gives `TerminateStopsTools`, `FlagInv` gives
`OldPausesAreIgnored`.  `SoloInv` describes a graceful stop step by step: before its flag is up
nobody waits on its id, after it the preset decision is still in the table or was returned by the
wait.  `PausedAppendIsKept` is the good half of finding 5: a text taken from a pause is among those the model has seen
or is still in the queue, so that it is left behind, never dropped, unless the round had to roll back a refine inside
it.  `PausesCannotHoldTheLoop` is an
action property: `LoopAdvances` compares five bounded counters one after the other (the leader's iteration, its phase in
this one, the inner loop's iteration, place and polls), so that
no series of pauses, answers and appends sends a round back or keeps it by steps of its own.

**Conditional theorems.**  `AppendsInTime`, `WakesInTime`, `TakesOnlyUnclaimed`, `Paired` and `Calm` are hypotheses about behaviours,
not assumptions on constants.  Each is met by ordinary runs of the code (a desktop append in the middle of a round,
a wake in the middle of a round, a reclaim of a dead process's lock without a competitor, a leader's calls) and every
counterexample of the finding breaks it.  A change of the code that enforces the hypothesis has the conclusion.

**Only model-checked.**  The liveness properties `BodyEndsOrSelfLocks`, `LeaseReturned`, `RefineFlagFalls`, `PromptEnds` and
`NothingRunsForever`, since the prover treats neither fairness nor ENABLED; of the first two and the last one the
part without fairness is proved as said above.  The counterexamples of section 4 are TLC's.  Every invariant and every action
property of a passing run is a theorem.

## 6 Abstractions and known losses

Abstractions:

- The model, the tools, compression, the conversation and its persistence are absent; a round's
  outcome is a choice between done, error, retryable error and failure.
- The session backup is left out.  So are the dedup by send id and the dedup of an append that repeats the last
  one: they drop what was delivered before.
- `ExecutionLifecycle` leaves out the refine inside an iteration: what it drains and what it injects from the doorbell is
  drained and injected at the top of some iteration there.  The last message and the stage that an append looks at are
  read in one step; the push comes later.
- A wake whose round failed is reloaded and pushed in one step (`FailedWakeReturns`).
- Terminal doorbell events are kept until they are injected; the code drops the oldest of more than 100.
- In `PauseControl` one round runs at a time, a response is one batch of tool calls, a poll's look at cancel and
  its take of the decision are one step, and so are the drain and the cancel check at the top of an
  iteration.  The ten second wait and the queue clear of force_reset are in
  `ExecutionLifecycle`.  A refine's future is dropped at its deadline only where it waits for something.  Workflows have a
  copy of the wait and of the refine inside an iteration (`workflow_agent.rs:683`, 1766), which is not modelled.
  Ids are reused once nobody can name them, with their table entries gone, where the
  code draws a fresh uuid and keeps the dead entries.
- Approvals: which actions need one, the window's single dialog (a later request replaces the earlier one), the phone (it
  never gets these requests: the host's emitter is built before the phone's channel), and the commands of older
  clients in `security.rs`, whose late answers are said to be approved though nothing runs.
- Background tasks: reuse of a process id, descendants that leave the tree, a log that cannot be opened, a `wait` that
  fails in a sub-task, which unlists its process (`sub_task_shell.rs:314`), and the check for a second cargo.
- HUD: a reply with more than `BATCH_SIZE` calls, which the sub-task loop runs in chunks and the model in one
  batch; two threads that take their sequence numbers in another order than the arbiter's lock
  (`emitter.rs:133`, 139), the frames of workflow and plug-in agents, the titles.
- Strings, events to the frontend and logs are left out, except the pause menu's id.

Losses that the models show as legal steps and that no comment of the code promises to avoid, so that no
property excludes them:

- A second pause, or a graceful stop, that arrives while the loop waits on an older id replaces the id;
  the wait ends without its answer and lowers the flag.  (`lifecycle.rs:199-202` reads as if a stop
  always took.)  The theorem about stops is therefore about undisturbed ones.
- A Terminate that the refine inside an iteration takes (`react_loop.rs:605`, `loop.rs:803-882`) lowers the flag and sets
  the `leader_should_stop` of that inner loop only.  The iteration around it, whose pause check is behind it, goes on to the
  model and its tools, for a graceful stop too, although `lifecycle.rs:199-202` reads as if a stop stopped the agent.
- A refine inside an iteration that is rolled back takes with it the appended texts and the doorbell events that it
  drained (`loop.rs:854`, 869, 874).
- An append with a stale pause flag on an idle backend is answered "appended" and never read.
- An append for an id that already has a Continue or a Terminate is dropped.
- A reset's queue clear may take the appends of a round that started just before.
- An interrupt or reset between the swap of the stage and the reset of the cancel flag is void.
- A retry that fails early loses the pending retry it took.
- A release of the lock file whose first rename fails leaves its record at the path without a guard
  (`automation_lock.rs:260`): others find it busy until its TTL has passed.  The comment at 278 speaks of a file that is
  gone only.  A release that cannot read the record it captured takes it for another's and puts it back over whatever
  was published in between (269-272), though the record is its own and the comment at 270 says "不是我们的".
- A refine of the leader drops its gate lease at the end of an inner scope, before Idle, though the comment at
  `refine.rs:61-64` says it is held to the end.  `OneBody` holds all the same, because every
  starter looks at the stage too; `RoundKeepsGate` is stated for rounds and retries.

- After an interrupted round the host's cancel flag stays up until the next round, so the approval of a plug-in chat or
  of a manual tool is refused as cancelled, although the chat has a flag of its own (`plugin_apps.rs:1091`).
- Between an approval and the dispatch the target is observed anew and nobody looks at a cancel
  (`semantic_desktop.rs:932-983`): a stop in that window does not stop the action.
- `kill_foreground` kills a call that its own timeout has meanwhile marked as kept, although the comment says
  that kept entries are never touched (`background_tasks.rs:27-28`, 633).  It holds for declared ones.
- The panel's note goes to a log that a call still waiting for the process deletes.
- A process kept by a sub-task loses its pipe readers when the call returns (`sub_task_shell.rs:147`): its log stops and its
  next write may end it, against the comment at 255-257.  A sub-task's timeout kills the shell, not the tree (239);
  after closed outputs its call waits for the process and hears neither cancel nor deadline (314).
- On Unix `kill_process_tree` ignores the status of kill (`background_tasks.rs:389-398`).
- `settle_cancellation` names the first process of the sweep, maybe another call's (`registry.rs:610`).
- The header of `background_tasks.rs` (23-26) says that a timeout kills by default; the leader's shell keeps.
- A process spawned but not yet registered outlives the exit's `kill_all`.
- The HUD counts a "security" frame as a terminal one (`exec_tool.rs:79`) and one of request_user_input that no end
  follows (`agent/mod.rs:875`); a circuit breaker leaves its calls in the arbiter until the flush (`sub_task_loop.rs:477`).

## 7 Not modelled

| Part | Why |
|---|---|
| LLM clients, transports | Network I/O; the core depends only on whether a call returns, fails or is cancelled. |
| Memory, knowledge, stores | SQLite and retrieval: transformations of data, no protocol of their own. |
| Desktop and browser automation, `crates/` | Platform APIs; what keeps them apart is modelled (gate, lock). |
| Configuration, skills, MCP, security, permissions | Parsing, tables and policies. |
| Side chat, plugin apps | Loops of their own; they meet the core at the gate, where they are `External`. |
| Relay, pairing, other phone routes | A wire protocol to a server outside this repository's core; POST /message, append and pause routes are covered. |
| Frontend, packaging, examples | The backend is the only authority on the state modelled here. |

## 8 Plan

Done, in this order: the lifecycle (the program's most important promise is that one body runs at a
time), the gate it relies on, the lock file that extends the gate to other processes, the pause
channel, the background tasks, the desktop approvals composed with the gate, the HUD arbiter; each checked first and then
proved.  Then the descending halves of the liveness properties, the one-shot request, and the conditional theorems that
bound the findings.

What remains, in this order.  Of proofs: that no step but the two self-locking ones leaves the body without an enabled step
is a question of ENABLED and stays with TLC; item 5 is the next refinement worth a proof.

1. `WorkflowEngine`: the active-run gate against the stage and the gate; cancel, pause and wait of the executor; the
   schedule's replacement.  Abstract specification: `SingleSlot` for the active run.
2. The doorbell's bound of 100 pending events (`handoff.rs:193`) and the waiter of `agent_dispatch`, as a module of its own;
   the waiter's lost-wakeup question.
3. `SessionSwitch`: guard_switch and its later steps against the lifecycle, and the queue clear of a reset
   (`lifecycle.rs:281`).
4. The HUD with two emitting threads, whose frames overtake each other between the lock and the sequence number.
5. That the lifecycle's use of the gate implements `AutomationGate` itself, as `DesktopApproval` does, and not only the slot.
