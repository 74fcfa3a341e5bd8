-------------------------- MODULE BackgroundTasks --------------------------
(***************************************************************************)
(* The ledger of processes started by the shell tool: who is still alive,  *)
(* and who may end it.                                                     *)
(*                                                                         *)
(* A call c starts one process and owns one entry of the ledger; c stands  *)
(* for the call, its task id and its pid (reuse of a pid by the system is  *)
(* left out).  Around it work the thread of the call, which waits on the   *)
(* process, the agent's side of the call, which may stop waiting first,    *)
(* and the killers: the panel, the sweep of a cancel, the watchdog and the *)
(* exit of the application.  A killer copies entries under the ledger's    *)
(* lock and then acts on the processes without it.                         *)
(***************************************************************************)
EXTENDS FiniteSets

CONSTANTS Calls,
          Killers,   \* threads of the panel, of cancels and of the exit
          Watchdog,  \* the watchdog's own thread
          NoCall

ASSUME CallAssumption == NoCall \notin Calls
ASSUME WatchdogAssumption == Watchdog \notin Killers

VARIABLES mode,   \* what the call declared, and which of the two shells runs it
          pc,     \* where the thread of the call is
          proc,   \* the process: "none", "alive", or what ended it
          entry,  \* BackgroundTaskRegistry::tasks: absent, foreground, retained
          log,    \* the output file: with or without a termination note, or deleted
          told,   \* what the agent has been told about its call
          killer, \* where each killer is
          cancel, \* cancel_flag
          app,    \* the application is "up" or "exited"
          faulty  \* history: a kill, a probe or a wait on the process failed

vars == <<mode, pc, proc, entry, log, told, killer, cancel, app, faulty>>

\* "undeclared", "foreground", "background": the leader's run_system_shell;
\* a timeout above the cap counts as a declared background.
\* "subFront", "subBack": stream_shell_blocking of a sub-task.
Modes == {"undeclared", "foreground", "background", "subFront", "subBack"}
SubTask(c) == mode[c] \in {"subFront", "subBack"}
Background(c) == mode[c] \in {"background", "subBack"}
KillOnTimeout(c) == mode[c] \in {"foreground", "subFront"}

Waits == {"polling", "deaf", "timeout", "cancelled", "killed", "refused"}
Points == {"ready", "spawned", "done"} \cup Waits

\* What the agent hears of its call: it ended or was terminated; it is kept;
\* a sweep has terminated it; or that it may still be running.
Heard == {"nothing", "settling", "ended", "kept", "swept", "unsure"}

\* What ended a process: itself, its own pipe, a cancel, or a killer that
\* leaves a note.
Deaths == {"own", "pipe", "cancel", "killer"}
Ops == {"panel", "sweep", "lifetime", "exit"}
Threads == Killers \cup {Watchdog}

Idle == [at |-> "idle", op |-> "panel", targets |-> {}, task |-> NoCall,
         settles |-> NoCall, hit |-> FALSE]

Init == /\ mode \in [Calls -> Modes]
        /\ pc = [c \in Calls |-> "ready"]
        /\ proc = [c \in Calls |-> "none"]
        /\ entry = [c \in Calls |-> "absent"]
        /\ log = [c \in Calls |-> "open"]
        /\ told = [c \in Calls |-> "nothing"]
        /\ killer = [k \in Threads |-> Idle]
        /\ cancel = FALSE
        /\ app = "up"
        /\ faulty = [c \in Calls |-> FALSE]

Alive(c) == proc[c] = "alive"
Goto(c, point) == pc' = [pc EXCEPT ![c] = point]
Unregister(c) == entry' = [entry EXCEPT ![c] = "absent"]

\* set_retain writes only into an entry that is there.
SetRetain(c) ==
  entry' = [entry EXCEPT ![c] = IF @ = "absent" THEN @ ELSE "retained"]

\* kill_process_tree: what the process becomes and what the caller sees.  On
\* Windows the status of taskkill decides; on Unix that of kill is not looked
\* at, so a process that lives on may count as killed.
KillTree(c, by, ok) ==
  \/ /\ Alive(c)
     /\ ok
     /\ proc' = [proc EXCEPT ![c] = by]
     /\ UNCHANGED faulty
  \/ /\ Alive(c)
     /\ faulty' = [faulty EXCEPT ![c] = TRUE]
     /\ UNCHANGED proc
  \/ /\ ~Alive(c)
     /\ UNCHANGED <<proc, faulty>>

\* The thread of the call returns.  Its answer reaches the agent unless the
\* agent's side has stopped waiting.  Only this thread looks at the call's copy
\* of retain, so settling the ledger and returning are one step.
Return(c, answer) ==
  /\ Goto(c, "done")
  /\ told' = [told EXCEPT ![c] = IF @ = "nothing" THEN answer ELSE @]

\* unregister and discard_log, which keeps the file of a call that was
\* declared background.
Settled(c) ==
  /\ Unregister(c)
  /\ log' = [log EXCEPT ![c] = IF Background(c) THEN @ ELSE "deleted"]
-----------------------------------------------------------------------------
(* The thread of the call.                                                 *)

\* The shell cannot be started.
SpawnFails(c) ==
  /\ pc[c] = "ready"
  /\ Return(c, "ended")
  /\ UNCHANGED <<mode, proc, entry, log, killer, cancel, app, faulty>>

Spawn(c) ==
  /\ pc[c] = "ready"
  /\ proc' = [proc EXCEPT ![c] = "alive"]
  /\ Goto(c, "spawned")
  /\ UNCHANGED <<mode, entry, log, told, killer, cancel, app, faulty>>

Register(c) ==
  /\ pc[c] = "spawned"
  /\ entry' = [entry EXCEPT ![c] = IF Background(c) THEN "retained" ELSE "foreground"]
  /\ Goto(c, "polling")
  /\ UNCHANGED <<mode, proc, log, told, killer, cancel, app, faulty>>

\* The wait loop looks at the process, the flag and the deadline one after the
\* other, so each may be out of date when the loop leaves by it.
SeeCancel(c) ==
  /\ pc[c] = "polling"
  /\ cancel
  /\ Goto(c, "cancelled")
  /\ UNCHANGED <<mode, proc, entry, log, told, killer, cancel, app, faulty>>

SeeDeadline(c) ==
  /\ pc[c] = "polling"
  /\ Goto(c, "timeout")
  /\ UNCHANGED <<mode, proc, entry, log, told, killer, cancel, app, faulty>>

\* A sub-task's loop ends with the pipes.  If the process has only closed its
\* output, the loop waits for it and hears neither the flag nor the deadline.
SeeClosedOutput(c) ==
  /\ pc[c] = "polling"
  /\ SubTask(c)
  /\ Goto(c, "deaf")
  /\ UNCHANGED <<mode, proc, entry, log, told, killer, cancel, app, faulty>>

SeeExit(c) ==
  /\ pc[c] \in {"polling", "deaf"}
  /\ proc[c] \in Deaths
  /\ Settled(c)
  /\ Return(c, "ended")
  /\ UNCHANGED <<mode, proc, killer, cancel, app, faulty>>

\* try_wait fails: the leader gives the process up.
WaitFails(c) ==
  /\ pc[c] = "polling"
  /\ ~SubTask(c)
  /\ Settled(c)
  /\ Return(c, "ended")
  /\ faulty' = [faulty EXCEPT ![c] = TRUE]
  /\ UNCHANGED <<mode, proc, killer, cancel, app>>

\* Mutation: the answer says that the process is kept, the ledger does not.
KeepUnmarked(c) ==
  /\ \/ pc[c] = "timeout" /\ ~KillOnTimeout(c)
     \/ pc[c] = "cancelled" /\ Background(c)
  /\ Return(c, "kept")
  /\ UNCHANGED <<mode, proc, entry, log, killer, cancel, app, faulty>>

\* A timeout keeps the process unless the call was declared foreground, a
\* cancel only if it was declared background.
Keep(c) ==
  /\ \/ pc[c] = "timeout" /\ ~KillOnTimeout(c)
     \/ pc[c] = "cancelled" /\ Background(c)
  /\ SetRetain(c)
  /\ Return(c, "kept")
  /\ UNCHANGED <<mode, proc, log, killer, cancel, app, faulty>>

\* kill_process_tree, or in a sub-task that times out Child::kill, which ends
\* only the shell itself and whose result is dropped.
KillOwn(c) ==
  /\ \/ pc[c] = "timeout" /\ KillOnTimeout(c)
     \/ pc[c] = "cancelled" /\ ~Background(c)
  /\ \E ok \in BOOLEAN :
       /\ KillTree(c, "cancel", ok)
       /\ Goto(c, IF ok \/ (SubTask(c) /\ pc[c] = "timeout") THEN "killed" ELSE "refused")
  /\ UNCHANGED <<mode, entry, log, told, killer, cancel, app>>

\* After its kill the call clears its entry, whether the kill worked or not.
SettleKill(c) ==
  /\ pc[c] \in {"killed", "refused"}
  /\ Settled(c)
  /\ Return(c, IF pc[c] = "killed" THEN "ended" ELSE "unsure")
  /\ UNCHANGED <<mode, proc, killer, cancel, app, faulty>>

\* ToolRegistry::execute gives up after its own limit; nothing is cancelled.
ToolTimeout(c) ==
  /\ ~SubTask(c)
  /\ pc[c] # "done"
  /\ told[c] = "nothing"
  /\ told' = [told EXCEPT ![c] = "unsure"]
  /\ UNCHANGED <<mode, pc, proc, entry, log, killer, cancel, app, faulty>>

CallNext(c) == \/ SpawnFails(c) \/ Spawn(c) \/ Register(c)
               \/ SeeCancel(c) \/ SeeDeadline(c) \/ SeeClosedOutput(c)
               \/ SeeExit(c) \/ WaitFails(c)
               \/ Keep(c) \/ KillOwn(c) \/ SettleKill(c) \/ ToolTimeout(c)
-----------------------------------------------------------------------------
(* The process itself and what its surroundings do to it.                  *)

Quit(c) ==
  /\ Alive(c)
  /\ proc' = [proc EXCEPT ![c] = "own"]
  /\ UNCHANGED <<mode, pc, entry, log, told, killer, cancel, app, faulty>>

\* Once stream_shell_blocking has returned, its receiver is gone: the reader of
\* the pipe stops after one more line, and the closed pipe ends the process
\* when it writes again.
PipeBreaks(c) ==
  /\ Alive(c)
  /\ SubTask(c)
  /\ pc[c] = "done"
  /\ proc' = [proc EXCEPT ![c] = "pipe"]
  /\ UNCHANGED <<mode, pc, entry, log, told, killer, cancel, app, faulty>>

\* A new round lowers the flag the shells poll.
NewRound ==
  /\ cancel
  /\ cancel' = FALSE
  /\ UNCHANGED <<mode, pc, proc, entry, log, told, killer, app, faulty>>

Listed == {c \in Calls : entry[c] # "absent"}

\* list_and_prune: under the lock, every entry whose process does not show up
\* goes.  A probe that fails counts as a dead process.
Prune ==
  \E missed \in SUBSET {c \in Listed : Alive(c)} :
    /\ entry' = [c \in Calls |-> IF Alive(c) /\ c \notin missed THEN entry[c] ELSE "absent"]
    /\ faulty' = [c \in Calls |-> faulty[c] \/ c \in missed]

List == /\ Prune
        /\ UNCHANGED <<mode, pc, proc, log, told, killer, cancel, app>>
-----------------------------------------------------------------------------
(* The killers.                                                            *)

Start(k, state) == /\ killer[k] = Idle
                   /\ killer' = [killer EXCEPT ![k] = state]

Purge(op, targets) == [Idle EXCEPT !.at = "kill", !.op = op, !.targets = targets]
Sweep(settled) == [Idle EXCEPT !.at = "copy", !.op = "sweep", !.settles = settled]

\* kill_one, for the panel.
StartPanel(k, c) ==
  /\ c \in Listed
  /\ Start(k, Purge("panel", {c}))
  /\ UNCHANGED <<mode, pc, proc, entry, log, told, cancel, app, faulty>>

\* interrupt raises the flag and then sweeps.
Interrupt(k) ==
  /\ cancel' = TRUE
  /\ Start(k, Sweep(NoCall))
  /\ UNCHANGED <<mode, pc, proc, entry, log, told, app, faulty>>

\* The agent's side of a leader's call sees the flag before the thread of the
\* call has answered: settle_cancellation sweeps in its name.
Settle(k, c) ==
  /\ cancel
  /\ ~SubTask(c)
  /\ pc[c] # "done"
  /\ told[c] = "nothing"
  /\ told' = [told EXCEPT ![c] = "settling"]
  /\ Start(k, Sweep(c))
  /\ UNCHANGED <<mode, pc, proc, entry, log, cancel, app, faulty>>

\* Mutation: the sweep takes retained entries too.
CopyAll(k) ==
  /\ killer[k].at = "copy"
  /\ killer' = [killer EXCEPT ![k].at = "kill", ![k].targets = Listed]
  /\ UNCHANGED <<mode, pc, proc, entry, log, told, cancel, app, faulty>>

\* kill_foreground copies the entries that are not retained.
Copy(k) ==
  /\ killer[k].at = "copy"
  /\ killer' = [killer EXCEPT ![k].at = "kill",
                              ![k].targets = {c \in Listed : entry[c] = "foreground"}]
  /\ UNCHANGED <<mode, pc, proc, entry, log, told, cancel, app, faulty>>

\* Mutation: the watchdog spares what is retained.
TickSparesRetained(expired) ==
  /\ expired # {}
  /\ expired \subseteq {c \in Listed : entry[c] = "foreground"}
  /\ Start(Watchdog, Purge("lifetime", expired))
  /\ UNCHANGED <<mode, pc, proc, entry, log, told, cancel, app, faulty>>

\* kill_expired with the entries that are an hour old.  A tick that finds none
\* only prunes, which is List.
Tick(expired) ==
  /\ expired # {}
  /\ expired \subseteq Listed
  /\ Start(Watchdog, Purge("lifetime", expired))
  /\ UNCHANGED <<mode, pc, proc, entry, log, told, cancel, app, faulty>>

\* kill_all, when the application exits.
StartExit(k) ==
  /\ \A j \in Threads : killer[j].op # "exit"
  /\ Start(k, Purge("exit", Listed))
  /\ UNCHANGED <<mode, pc, proc, entry, log, told, cancel, app, faulty>>

IsSweep(k) == killer[k].op = "sweep"
Death(k) == IF IsSweep(k) THEN "cancel" ELSE "killer"

Kill(k) ==
  /\ killer[k].at = "kill"
  /\ \E t \in killer[k].targets, ok \in BOOLEAN :
       /\ KillTree(t, Death(k), ok)
       /\ killer' = [killer EXCEPT ![k].at = IF ok THEN "unlist" ELSE "probe",
                                   ![k].task = t,
                                   ![k].targets = @ \ {t},
                                   ![k].hit = @ \/ (ok /\ IsSweep(k))]
  /\ UNCHANGED <<mode, pc, entry, log, told, cancel, app>>

\* Mutation: the killer stays with a task it could not end.
ProbeAliveStays(k) ==
  /\ killer[k].at = "probe"
  /\ Alive(killer[k].task)
  /\ killer' = [killer EXCEPT ![k].at = "kill"]
  /\ UNCHANGED <<mode, pc, proc, entry, log, told, cancel, app, faulty>>

\* After a failed kill the process is probed.  Alive: the failure is reported
\* and the entry stays.
ProbeAlive(k) ==
  /\ killer[k].at = "probe"
  /\ Alive(killer[k].task)
  /\ killer' = [killer EXCEPT ![k].at = "kill", ![k].task = NoCall]
  /\ UNCHANGED <<mode, pc, proc, entry, log, told, cancel, app, faulty>>

\* Not seen alive: gone already, or the probe failed.
ProbeGone(k) ==
  /\ killer[k].at = "probe"
  /\ LET t == killer[k].task IN faulty' = [faulty EXCEPT ![t] = @ \/ Alive(t)]
  /\ killer' = [killer EXCEPT ![k].at = "unlist"]
  /\ UNCHANGED <<mode, pc, proc, entry, log, told, cancel, app>>

\* append_kill_note opens the file to append: a deleted one is not made again.
\* A sweep writes no note.
Noted(t, k) == IF ~IsSweep(k) /\ log[t] = "open" THEN [log EXCEPT ![t] = "noted"] ELSE log

\* Mutation: the note is written only for an entry that is still in the ledger.
UnlistNotesListed(k) ==
  /\ killer[k].at = "unlist"
  /\ LET t == killer[k].task
     IN /\ log' = IF t \in Listed THEN Noted(t, k) ELSE log
        /\ Unregister(t)
  /\ killer' = [killer EXCEPT ![k].at = "kill", ![k].task = NoCall]
  /\ UNCHANGED <<mode, pc, proc, told, cancel, app, faulty>>

Unlist(k) ==
  /\ killer[k].at = "unlist"
  /\ LET t == killer[k].task
     IN /\ log' = Noted(t, k)
        /\ Unregister(t)
  /\ killer' = [killer EXCEPT ![k].at = "kill", ![k].task = NoCall]
  /\ UNCHANGED <<mode, pc, proc, told, cancel, app, faulty>>

\* All targets dealt with.  A sweep counts the retained entries and the
\* watchdog prunes, which is the same; if a sweep settles a call, the agent
\* hears that the first process killed was terminated, whoever's it was, or
\* only that the wait is over.
Finish(k) ==
  /\ killer[k].at = "kill"
  /\ killer[k].targets = {}
  /\ killer' = [killer EXCEPT ![k] = Idle]
  /\ IF killer[k].op \in {"sweep", "lifetime"} THEN Prune ELSE UNCHANGED <<entry, faulty>>
  /\ app' = IF killer[k].op = "exit" THEN "exited" ELSE app
  /\ told' = [c \in Calls |-> IF c # killer[k].settles THEN told[c]
                              ELSE IF killer[k].hit THEN "swept" ELSE "unsure"]
  /\ UNCHANGED <<mode, pc, proc, log, cancel>>

Work(k) == \/ Copy(k) \/ Kill(k) \/ ProbeAlive(k) \/ ProbeGone(k)
           \/ Unlist(k) \/ Finish(k)

Running == \/ \E c \in Calls : CallNext(c) \/ Quit(c) \/ PipeBreaks(c)
           \/ NewRound \/ List
           \/ \E expired \in SUBSET Calls : Tick(expired)
           \/ \E k \in Killers : \/ \E c \in Calls : StartPanel(k, c) \/ Settle(k, c)
                                 \/ Interrupt(k) \/ StartExit(k)
           \/ \E k \in Threads : Work(k)

Next == app = "up" /\ Running

\* Threads of calls run, and the watchdog ticks and works for ever.  An entry
\* that stays in the ledger is old at last and then in the copy of every tick,
\* hence the strong fairness: a tick under way disables the next one.  Nothing
\* is assumed of users, processes and other killers.
Ages(c) == \E expired \in SUBSET Calls : c \in expired /\ Tick(expired)
Fairness == /\ \A c \in Calls : /\ WF_vars(app = "up" /\ Register(c))
                                /\ SF_vars(app = "up" /\ Ages(c))
            /\ WF_vars(app = "up" /\ Work(Watchdog))

Spec == Init /\ [][Next]_vars
FairSpec == Spec /\ Fairness
-----------------------------------------------------------------------------
KillerStates == [at : {"idle", "copy", "kill", "probe", "unlist"}, op : Ops,
                 targets : SUBSET Calls, task : Calls \cup {NoCall},
                 settles : Calls \cup {NoCall}, hit : BOOLEAN]

\* A killer has a task exactly between the kill and the ledger.
Engaged(k) == killer[k].at \in {"probe", "unlist"}

\* The type invariant, with what a killer's place says of its task.
TypeOK == /\ mode \in [Calls -> Modes]
          /\ pc \in [Calls -> Points]
          /\ proc \in [Calls -> {"none", "alive"} \cup Deaths]
          /\ entry \in [Calls -> {"absent", "foreground", "retained"}]
          /\ log \in [Calls -> {"open", "noted", "deleted"}]
          /\ told \in [Calls -> Heard]
          /\ killer \in [Threads -> KillerStates]
          /\ \A k \in Threads : Engaged(k) <=> killer[k].task # NoCall
          /\ cancel \in BOOLEAN
          /\ app \in {"up", "exited"}
          /\ faulty \in [Calls -> BOOLEAN]

\* The ledger knows who is alive: when the thread of a call has gone and its
\* process still runs, the process is in the ledger as retained and its agent
\* has not heard from the call that it ended, unless a kill, a probe or a wait
\* failed on it.
SurvivorIsListed ==
  \A c \in Calls : (pc[c] = "done" /\ Alive(c) /\ ~faulty[c]) =>
     entry[c] = "retained" /\ told[c] # "ended"

\* A process declared background is not ended by a cancel, neither by a sweep
\* nor by its own call, however the copies, flags and ends interleave.
DeclaredSurvivesCancel ==
  \A c \in Calls : Background(c) => proc[c] # "cancel"

\* An agent that was told to read the output file of a process that runs on
\* finds a note there when the panel, the watchdog or the exit has ended it.
KilledKeptIsNoted ==
  \A c \in Calls : (told[c] = "kept" /\ proc[c] = "killer") =>
     \/ log[c] = "noted"
     \/ \E k \in Threads : killer[k].task = c /\ killer[k].at = "unlist"

\* The watchdog is the last resort: no process runs for ever, retained or not.
NothingRunsForever ==
  \A c \in Calls : Alive(c) ~> (~Alive(c) \/ faulty[c] \/ app = "exited")
=============================================================================
