----------------------- MODULE BackgroundTasksProofs -----------------------
(***************************************************************************)
(* Theorems about BackgroundTasks, for any number of calls and killers.    *)
(*                                                                         *)
(* The argument: as long as nothing failed on it, a live process stays in  *)
(* the ledger from its registration on, because whoever removes an entry   *)
(* has seen the process dead or has killed it first (LedgerInv).  What was *)
(* declared background is never listed as foreground, and so no sweep has  *)
(* it among its targets (IntentInv).  A killer that leaves notes is on its *)
(* way to the log until the note is there (NoteInv).                       *)
(*                                                                         *)
(* The last two theorems are what NothingRunsForever needs besides fairness. *)
(***************************************************************************)
EXTENDS BackgroundTasks, TLAPS

\* A process is in the ledger while its call waits on it, and a killer about
\* to remove an entry has nothing alive behind it.
LedgerInv ==
  /\ \A c \in Calls :
       /\ pc[c] = "ready" => proc[c] = "none"
       /\ Alive(c) /\ ~faulty[c] =>
            /\ pc[c] \in {"polling", "deaf", "timeout", "cancelled"} => entry[c] # "absent"
            /\ pc[c] \notin {"killed", "refused"}
            /\ pc[c] = "done" => entry[c] = "retained" /\ told[c] # "ended"
  /\ \A c \in Calls : told[c] \in {"ended", "kept"} => pc[c] = "done"
  /\ \A c \in Calls : pc[c] = "spawned" \/ entry[c] # "absent" => proc[c] # "none"
  /\ \A k \in Threads :
       /\ \A t \in killer[k].targets : proc[t] # "none"
       /\ Engaged(k) => proc[killer[k].task] # "none"
       /\ killer[k].at = "unlist" => ~Alive(killer[k].task) \/ faulty[killer[k].task]

\* No cancel ever has a declared process in its hands.
IntentInv ==
  /\ \A c \in Calls : Background(c) => /\ entry[c] # "foreground"
                                       /\ proc[c] # "cancel"
  /\ \A k \in Threads : IsSweep(k) => \A t \in killer[k].targets : ~Background(t)

\* What a killer with notes has ended is noted, or will be, or its log is gone.
NoteInv ==
  /\ \A c \in Calls : proc[c] = "killer" =>
       \/ log[c] # "open"
       \/ \E k \in Threads : ~IsSweep(k) /\ killer[k].task = c /\ killer[k].at = "unlist"
  /\ \A c \in Calls : log[c] = "deleted" => told[c] # "kept" /\ pc[c] = "done"

IInv == TypeOK /\ LedgerInv /\ IntentInv /\ NoteInv

LEMMA TypeStep == TypeOK /\ [Next]_vars => TypeOK'
<1>. SUFFICES ASSUME TypeOK, [Next]_vars PROVE TypeOK'
  OBVIOUS
<1>. DEFINE Goal == TypeOK'
<1>. USE CallAssumption DEF TypeOK, KillerStates, Engaged, Modes, Points, Waits, Heard, Deaths, Ops,
                            Threads, Idle, Goto, Return, Settled, Unregister, SetRetain, KillTree, Listed, Alive
<1>. QED
  <2>1. ASSUME NEW c \in Calls, SpawnFails(c) PROVE Goal
    BY <2>1 DEF SpawnFails
  <2>2. ASSUME NEW c \in Calls, Spawn(c) PROVE Goal
    BY <2>2 DEF Spawn
  <2>3. ASSUME NEW c \in Calls, Register(c) PROVE Goal
    BY <2>3 DEF Register
  <2>4. ASSUME NEW c \in Calls, SeeCancel(c) PROVE Goal
    BY <2>4 DEF SeeCancel
  <2>5. ASSUME NEW c \in Calls, SeeDeadline(c) PROVE Goal
    BY <2>5 DEF SeeDeadline
  <2>6. ASSUME NEW c \in Calls, SeeClosedOutput(c) PROVE Goal
    BY <2>6 DEF SeeClosedOutput
  <2>7. ASSUME NEW c \in Calls, SeeExit(c) PROVE Goal
    BY <2>7 DEF SeeExit
  <2>8. ASSUME NEW c \in Calls, WaitFails(c) PROVE Goal
    BY <2>8 DEF WaitFails
  <2>9. ASSUME NEW c \in Calls, Keep(c) PROVE Goal
    BY <2>9 DEF Keep
  <2>10. ASSUME NEW c \in Calls, KillOwn(c) PROVE Goal
    <3>1. PICK ok \in BOOLEAN :
            /\ KillTree(c, "cancel", ok)
            /\ Goto(c, IF ok \/ (SubTask(c) /\ pc[c] = "timeout") THEN "killed" ELSE "refused")
      BY <2>10 DEF KillOwn
    <3>2. pc' \in [Calls -> Points]
      BY <3>1
    <3>3. proc' \in [Calls -> {"none", "alive"} \cup Deaths] /\ faulty' \in [Calls -> BOOLEAN]
      BY <3>1
    <3>4. QED
      BY <2>10, <3>2, <3>3 DEF KillOwn
  <2>11. ASSUME NEW c \in Calls, SettleKill(c) PROVE Goal
    BY <2>11 DEF SettleKill
  <2>12. ASSUME NEW c \in Calls, ToolTimeout(c) PROVE Goal
    BY <2>12 DEF ToolTimeout
  <2>13. ASSUME NEW c \in Calls, Quit(c) PROVE Goal
    BY <2>13 DEF Quit
  <2>14. ASSUME NEW c \in Calls, PipeBreaks(c) PROVE Goal
    BY <2>14 DEF PipeBreaks
  <2>15. CASE NewRound
    BY <2>15 DEF NewRound
  <2>16. CASE List
    BY <2>16 DEF List, Prune
  <2>17. ASSUME NEW e \in SUBSET Calls, Tick(e) PROVE Goal
    BY <2>17 DEF Tick, Start, Purge
  <2>18. ASSUME NEW k \in Killers, NEW c \in Calls, StartPanel(k, c) PROVE Goal
    BY <2>18 DEF StartPanel, Start, Purge
  <2>19. ASSUME NEW k \in Killers, NEW c \in Calls, Settle(k, c) PROVE Goal
    BY <2>19 DEF Settle, Start, Sweep
  <2>20. ASSUME NEW k \in Killers, Interrupt(k) PROVE Goal
    BY <2>20 DEF Interrupt, Start, Sweep
  <2>21. ASSUME NEW k \in Killers, StartExit(k) PROVE Goal
    BY <2>21 DEF StartExit, Start, Purge
  <2>22. ASSUME NEW k \in Threads, Copy(k) PROVE Goal
    BY <2>22 DEF Copy
  <2>23. ASSUME NEW k \in Threads, Kill(k) PROVE Goal
    BY <2>23 DEF Kill, Death, IsSweep
  <2>24. ASSUME NEW k \in Threads, ProbeAlive(k) PROVE Goal
    BY <2>24 DEF ProbeAlive
  <2>25. ASSUME NEW k \in Threads, ProbeGone(k) PROVE Goal
    BY <2>25 DEF ProbeGone
  <2>26. ASSUME NEW k \in Threads, Unlist(k) PROVE Goal
    BY <2>26 DEF Unlist, Noted, IsSweep
  <2>27. ASSUME NEW k \in Threads, Finish(k) PROVE Goal
    <3>1. /\ entry' \in [Calls -> {"absent", "foreground", "retained"}]
          /\ faulty' \in [Calls -> BOOLEAN]
      <4>1. CASE killer[k].op \in {"sweep", "lifetime"}
        <5>1. Prune
          BY <2>27, <4>1 DEF Finish
        <5>2. PICK missed \in SUBSET {c \in Listed : Alive(c)} :
                /\ entry' = [c \in Calls |-> IF Alive(c) /\ c \notin missed THEN entry[c] ELSE "absent"]
                /\ faulty' = [c \in Calls |-> faulty[c] \/ c \in missed]
          BY <5>1 DEF Prune
        <5>3. QED
          BY <5>2
      <4>2. CASE killer[k].op \notin {"sweep", "lifetime"}
        BY <2>27, <4>2 DEF Finish
      <4>3. QED
        BY <4>1, <4>2
    <3>2. told' \in [Calls -> Heard]
      BY <2>27 DEF Finish
    <3>3. /\ killer' \in [Threads -> KillerStates]
          /\ \A j \in Threads : Engaged(j)' <=> killer'[j].task # NoCall
      BY <2>27 DEF Finish
    <3>4. QED
      BY <2>27, <3>1, <3>2, <3>3 DEF Finish
  <2>28. CASE UNCHANGED vars
    BY <2>28 DEF vars
  <2>29. QED
    BY <2>1, <2>2, <2>3, <2>4, <2>5, <2>6, <2>7, <2>8, <2>9, <2>10, <2>11, <2>12, <2>13, <2>14, <2>15, <2>16, <2>17, <2>18, <2>19, <2>20, <2>21, <2>22, <2>23, <2>24, <2>25, <2>26, <2>27, <2>28 DEF Next, Running, CallNext, Work

\* A listing drops the entries of dead processes, or of those it misreads.
LEMMA LedgerList == TypeOK /\ LedgerInv /\ List => LedgerInv'
<1>. SUFFICES ASSUME TypeOK, LedgerInv, List PROVE LedgerInv'
  OBVIOUS
<1>1. PICK missed \in SUBSET {c \in Listed : Alive(c)} :
        /\ entry' = [c \in Calls |-> IF Alive(c) /\ c \notin missed THEN entry[c] ELSE "absent"]
        /\ faulty' = [c \in Calls |-> faulty[c] \/ c \in missed]
  BY DEF List, Prune
<1>2. \A c \in Calls : /\ \/ entry'[c] = entry[c]
                          \/ entry'[c] = "absent" /\ (~Alive(c) \/ faulty'[c])
                       /\ faulty[c] => faulty'[c]
  BY <1>1 DEF TypeOK
<1>3. \A k \in Threads : Engaged(k) => killer[k].task \in Calls
  BY DEF TypeOK, KillerStates
<1>4. UNCHANGED <<pc, proc, told, killer>>
  BY DEF List
<1>. QED
  BY <1>2, <1>3, <1>4 DEF LedgerInv, Alive, Engaged

\* What a kill does to the process and to the killer's record.
LEMMA KillStep ==
  ASSUME TypeOK, NEW k \in Threads, Kill(k)
  PROVE  \E t \in killer[k].targets, ok \in BOOLEAN :
           /\ t \in Calls
           /\ \A c \in Calls : /\ c # t => proc'[c] = proc[c]
                               /\ faulty[c] => faulty'[c]
           /\ proc'[t] = proc[t] \/ (ok /\ proc'[t] = Death(k))
           /\ proc'[t] # "alive" \/ faulty'[t]
           /\ killer[k].at = "kill"
           /\ killer'[k].at = IF ok THEN "unlist" ELSE "probe"
           /\ killer'[k].task = t
           /\ \A j \in Threads : /\ killer'[j].op = killer[j].op
                                 /\ killer'[j].targets \subseteq killer[j].targets
                                 /\ j # k => killer'[j] = killer[j]
           /\ UNCHANGED <<pc, entry, log, told>>
<1>1. PICK t \in killer[k].targets, ok \in BOOLEAN :
        /\ KillTree(t, Death(k), ok)
        /\ killer' = [killer EXCEPT ![k].at = IF ok THEN "unlist" ELSE "probe",
                                    ![k].task = t,
                                    ![k].targets = @ \ {t},
                                    ![k].hit = @ \/ (ok /\ IsSweep(k))]
  BY DEF Kill
<1>2. t \in Calls
  BY DEF TypeOK, KillerStates
<1>3. /\ \A c \in Calls : /\ c # t => proc'[c] = proc[c]
                          /\ faulty[c] => faulty'[c]
      /\ proc'[t] = proc[t] \/ (ok /\ proc'[t] = Death(k))
      /\ proc'[t] # "alive" \/ faulty'[t]
  BY <1>1, <1>2 DEF KillTree, Alive, TypeOK, Death
<1>4. /\ killer'[k].at = IF ok THEN "unlist" ELSE "probe"
      /\ killer'[k].task = t
      /\ \A j \in Threads : /\ killer'[j].op = killer[j].op
                            /\ killer'[j].targets \subseteq killer[j].targets
                            /\ j # k => killer'[j] = killer[j]
  BY <1>1 DEF TypeOK, KillerStates
<1>5. killer[k].at = "kill" /\ UNCHANGED <<pc, entry, log, told>>
  BY DEF Kill
<1>. QED
  BY <1>2, <1>3, <1>4, <1>5

LEMMA LedgerKill == TypeOK /\ LedgerInv /\ (\E k \in Threads : Kill(k)) => LedgerInv'
<1>. SUFFICES ASSUME TypeOK, LedgerInv, NEW k \in Threads, Kill(k) PROVE LedgerInv'
  OBVIOUS
<1>1. PICK t \in killer[k].targets :
           /\ t \in Calls
           /\ \A c \in Calls : /\ c # t => proc'[c] = proc[c]
                               /\ faulty[c] => faulty'[c]
           /\ proc'[t] = proc[t] \/ proc'[t] = Death(k)
           /\ proc'[t] # "alive" \/ faulty'[t]
           /\ killer'[k].task = t
           /\ \A j \in Threads : /\ killer'[j].targets \subseteq killer[j].targets
                                 /\ j # k => killer'[j] = killer[j]
           /\ UNCHANGED <<pc, entry, told>>
  BY KillStep
<1>2. proc[t] # "none"
  BY DEF LedgerInv
<1>3. \A c \in Calls : /\ proc'[c] = "alive" => proc[c] = "alive"
                       /\ proc'[c] = "none" <=> proc[c] = "none"
                       /\ faulty[c] => faulty'[c]
  BY <1>1, <1>2 DEF Death
<1>4. \A j \in Threads : /\ killer[j].targets \subseteq Calls
                         /\ Engaged(j) => killer[j].task \in Calls
  BY DEF TypeOK, KillerStates
<1>5. ASSUME NEW j \in Threads
      PROVE  /\ \A u \in killer'[j].targets : proc'[u] # "none"
             /\ Engaged(j)' => proc'[killer'[j].task] # "none"
             /\ killer'[j].at = "unlist" =>
                  proc'[killer'[j].task] # "alive" \/ faulty'[killer'[j].task]
  <2>1. CASE j = k
    BY <1>1, <1>2, <1>3, <1>4, <2>1 DEF LedgerInv, Engaged
  <2>2. CASE j # k
    BY <1>1, <1>3, <1>4, <2>2 DEF LedgerInv, Engaged, Alive
  <2>3. QED
    BY <2>1, <2>2
<1>. QED
  BY <1>1, <1>3, <1>5 DEF LedgerInv, Alive, Engaged

LEMMA LedgerProbe == TypeOK /\ LedgerInv /\ (\E k \in Threads : ProbeGone(k)) => LedgerInv'
<1>. SUFFICES ASSUME TypeOK, LedgerInv, NEW k \in Threads, ProbeGone(k) PROVE LedgerInv'
  OBVIOUS
<1>. DEFINE t == killer[k].task
<1>1. t \in Calls /\ Engaged(k)
  BY DEF ProbeGone, TypeOK, KillerStates, Engaged
<1>2. faulty' = [faulty EXCEPT ![t] = @ \/ Alive(t)]
  BY DEF ProbeGone
<1>3. /\ \A c \in Calls : faulty[c] => faulty'[c]
      /\ Alive(t) => faulty'[t]
  BY <1>1, <1>2 DEF TypeOK
<1>4. \A j \in Threads : /\ killer'[j].targets = killer[j].targets
                         /\ killer'[j].task = killer[j].task
                         /\ j # k => killer'[j] = killer[j]
  BY DEF ProbeGone, TypeOK, KillerStates
<1>5. UNCHANGED <<pc, proc, entry, told>>
  BY DEF ProbeGone
<1>6. \A j \in Threads : Engaged(j) => killer[j].task \in Calls
  BY DEF TypeOK, KillerStates
<1>7. ASSUME NEW j \in Threads
      PROVE  /\ Engaged(j)' => Engaged(j)
             /\ killer'[j].at = "unlist" =>
                  proc'[killer'[j].task] # "alive" \/ faulty'[killer'[j].task]
  <2>1. CASE j = k
    BY <1>1, <1>3, <1>4, <1>5, <2>1 DEF Alive
  <2>2. CASE j # k
    BY <1>3, <1>4, <1>5, <1>6, <2>2 DEF LedgerInv, Engaged, Alive
  <2>3. QED
    BY <2>1, <2>2
<1>. QED
  BY <1>3, <1>4, <1>5, <1>7 DEF LedgerInv, Alive

\* An entry goes only after its process, and a call waits only on an entry.
\* A killer that starts on entries of the ledger has nothing under way yet.
LEMMA LedgerStart ==
  ASSUME TypeOK, LedgerInv, NEW k \in Threads, NEW op, NEW targets \in SUBSET Listed,
         Start(k, Purge(op, targets)), UNCHANGED <<pc, proc, entry, told, faulty>>
  PROVE  LedgerInv'
<1>1. killer'[k].at = "kill" /\ killer'[k].targets = targets
  BY DEF TypeOK, Start, Purge, Idle
<1>2. \A j \in Threads \ {k} : killer'[j] = killer[j]
  BY DEF TypeOK, Start
<1>3. \A t \in targets : t \in Calls /\ entry[t] # "absent"
  BY DEF Listed
<1>. QED
  BY <1>1, <1>2, <1>3 DEF LedgerInv, Alive, Engaged

LEMMA LedgerStep == TypeOK /\ TypeOK' /\ LedgerInv /\ [Next]_vars => LedgerInv'
<1>. SUFFICES ASSUME TypeOK, TypeOK', LedgerInv, [Next]_vars PROVE LedgerInv'
  OBVIOUS
<1>. DEFINE Goal == LedgerInv'
<1>. USE CallAssumption
     DEF LedgerInv, TypeOK, KillerStates, Engaged, Points, Waits, Heard, Deaths, Ops, Threads, Idle,
           Goto, Return, Settled, Unregister, SetRetain, KillTree, Listed, Alive, IsSweep, Background
<1>. QED
  <2>1. ASSUME NEW c \in Calls, SpawnFails(c) PROVE Goal
    BY <2>1 DEF SpawnFails
  <2>2. ASSUME NEW c \in Calls, Spawn(c) PROVE Goal
    BY <2>2 DEF Spawn
  <2>3. ASSUME NEW c \in Calls, Register(c) PROVE Goal
    BY <2>3 DEF Register
  <2>4. ASSUME NEW c \in Calls, SeeCancel(c) PROVE Goal
    BY <2>4 DEF SeeCancel
  <2>5. ASSUME NEW c \in Calls, SeeDeadline(c) PROVE Goal
    BY <2>5 DEF SeeDeadline
  <2>6. ASSUME NEW c \in Calls, SeeClosedOutput(c) PROVE Goal
    BY <2>6 DEF SeeClosedOutput
  <2>7. ASSUME NEW c \in Calls, SeeExit(c) PROVE Goal
    BY <2>7 DEF SeeExit
  <2>8. ASSUME NEW c \in Calls, WaitFails(c) PROVE Goal
    BY <2>8 DEF WaitFails
  <2>9. ASSUME NEW c \in Calls, Keep(c) PROVE Goal
    BY <2>9 DEF Keep
  <2>10. ASSUME NEW c \in Calls, KillOwn(c) PROVE Goal
    BY <2>10 DEF KillOwn
  <2>11. ASSUME NEW c \in Calls, SettleKill(c) PROVE Goal
    BY <2>11 DEF SettleKill
  <2>12. ASSUME NEW c \in Calls, ToolTimeout(c) PROVE Goal
    BY <2>12 DEF ToolTimeout
  <2>13. ASSUME NEW c \in Calls, Quit(c) PROVE Goal
    BY <2>13 DEF Quit
  <2>14. ASSUME NEW c \in Calls, PipeBreaks(c) PROVE Goal
    BY <2>14 DEF PipeBreaks
  <2>15. CASE NewRound
    BY <2>15 DEF NewRound
  <2>16. CASE List
    BY <2>16, LedgerList
  <2>17. ASSUME NEW e \in SUBSET Calls, Tick(e) PROVE Goal
    BY <2>17, LedgerStart DEF Tick
  <2>18. ASSUME NEW k \in Killers, NEW c \in Calls, StartPanel(k, c) PROVE Goal
    BY <2>18, LedgerStart DEF StartPanel
  <2>19. ASSUME NEW k \in Killers, NEW c \in Calls, Settle(k, c) PROVE Goal
    BY <2>19 DEF Settle, Start, Sweep
  <2>20. ASSUME NEW k \in Killers, Interrupt(k) PROVE Goal
    BY <2>20 DEF Interrupt, Start, Sweep
  <2>21. ASSUME NEW k \in Killers, StartExit(k) PROVE Goal
    BY <2>21, LedgerStart DEF StartExit
  <2>22. ASSUME NEW k \in Threads, Copy(k) PROVE Goal
    BY <2>22 DEF Copy
  <2>23. ASSUME NEW k \in Threads, Kill(k) PROVE Goal
    BY <2>23, LedgerKill
  <2>24. ASSUME NEW k \in Threads, ProbeAlive(k) PROVE Goal
    BY <2>24 DEF ProbeAlive
  <2>25. ASSUME NEW k \in Threads, ProbeGone(k) PROVE Goal
    BY <2>25, LedgerProbe
  <2>26. ASSUME NEW k \in Threads, Unlist(k) PROVE Goal
    BY <2>26 DEF Unlist, Noted
  <2>27. ASSUME NEW k \in Threads, Finish(k) PROVE Goal
    BY <2>27 DEF Finish, Prune
  <2>28. CASE UNCHANGED vars
    BY <2>28 DEF vars
  <2>29. QED
    BY <2>1, <2>2, <2>3, <2>4, <2>5, <2>6, <2>7, <2>8, <2>9, <2>10, <2>11, <2>12, <2>13, <2>14, <2>15, <2>16, <2>17, <2>18, <2>19, <2>20, <2>21, <2>22, <2>23, <2>24, <2>25, <2>26, <2>27, <2>28 DEF Next, Running, CallNext, Work

\* A sweep has no declared process among the targets it ends.
LEMMA IntentKill == TypeOK /\ IntentInv /\ (\E k \in Threads : Kill(k)) => IntentInv'
<1>. SUFFICES ASSUME TypeOK, IntentInv, NEW k \in Threads, Kill(k) PROVE IntentInv'
  OBVIOUS
<1>1. PICK t \in killer[k].targets, ok \in BOOLEAN :
        /\ t \in Calls
        /\ \A c \in Calls : c # t => proc'[c] = proc[c]
        /\ proc'[t] = proc[t] \/ proc'[t] = Death(k)
        /\ \A j \in Threads : /\ killer'[j].op = killer[j].op
                              /\ killer'[j].targets \subseteq killer[j].targets
        /\ UNCHANGED entry
  BY KillStep
<1>2. UNCHANGED mode
  BY DEF Kill
<1>3. \A c \in Calls : Background(c)' <=> Background(c)
  BY <1>2 DEF Background
<1>4. Background(t) => Death(k) # "cancel"
  BY <1>1 DEF IntentInv, Death
<1>5. \A c \in Calls : Background(c) => proc'[c] # "cancel"
  BY <1>1, <1>4 DEF IntentInv
<1>6. \A j \in Threads : IsSweep(j)' => \A u \in killer'[j].targets : ~Background(u)
  BY <1>1 DEF IntentInv, IsSweep
<1>7. \A j \in Threads : killer'[j].targets \subseteq Calls
  BY <1>1 DEF TypeOK, KillerStates
<1>. QED
  BY <1>1, <1>3, <1>5, <1>6, <1>7 DEF IntentInv

\* Nothing takes the declared intent away, and no sweep copies it.
LEMMA IntentStep == TypeOK /\ TypeOK' /\ IntentInv /\ [Next]_vars => IntentInv'
<1>. SUFFICES ASSUME TypeOK, TypeOK', IntentInv, [Next]_vars PROVE IntentInv'
  OBVIOUS
<1>. DEFINE Goal == IntentInv'
<1>. USE CallAssumption
     DEF IntentInv, TypeOK, KillerStates, Engaged, Points, Waits, Heard, Deaths, Ops, Threads, Idle,
           Goto, Return, Settled, Unregister, SetRetain, KillTree, Listed, Alive, IsSweep, Background
<1>. QED
  <2>1. ASSUME NEW c \in Calls, SpawnFails(c) PROVE Goal
    BY <2>1 DEF SpawnFails
  <2>2. ASSUME NEW c \in Calls, Spawn(c) PROVE Goal
    BY <2>2 DEF Spawn
  <2>3. ASSUME NEW c \in Calls, Register(c) PROVE Goal
    BY <2>3 DEF Register
  <2>4. ASSUME NEW c \in Calls, SeeCancel(c) PROVE Goal
    BY <2>4 DEF SeeCancel
  <2>5. ASSUME NEW c \in Calls, SeeDeadline(c) PROVE Goal
    BY <2>5 DEF SeeDeadline
  <2>6. ASSUME NEW c \in Calls, SeeClosedOutput(c) PROVE Goal
    BY <2>6 DEF SeeClosedOutput
  <2>7. ASSUME NEW c \in Calls, SeeExit(c) PROVE Goal
    BY <2>7 DEF SeeExit
  <2>8. ASSUME NEW c \in Calls, WaitFails(c) PROVE Goal
    BY <2>8 DEF WaitFails
  <2>9. ASSUME NEW c \in Calls, Keep(c) PROVE Goal
    BY <2>9 DEF Keep
  <2>10. ASSUME NEW c \in Calls, KillOwn(c) PROVE Goal
    BY <2>10 DEF KillOwn, KillOnTimeout
  <2>11. ASSUME NEW c \in Calls, SettleKill(c) PROVE Goal
    BY <2>11 DEF SettleKill
  <2>12. ASSUME NEW c \in Calls, ToolTimeout(c) PROVE Goal
    BY <2>12 DEF ToolTimeout
  <2>13. ASSUME NEW c \in Calls, Quit(c) PROVE Goal
    BY <2>13 DEF Quit
  <2>14. ASSUME NEW c \in Calls, PipeBreaks(c) PROVE Goal
    BY <2>14 DEF PipeBreaks
  <2>15. CASE NewRound
    BY <2>15 DEF NewRound
  <2>16. CASE List
    BY <2>16 DEF List, Prune
  <2>17. ASSUME NEW e \in SUBSET Calls, Tick(e) PROVE Goal
    BY <2>17 DEF Tick, Start, Purge
  <2>18. ASSUME NEW k \in Killers, NEW c \in Calls, StartPanel(k, c) PROVE Goal
    BY <2>18 DEF StartPanel, Start, Purge
  <2>19. ASSUME NEW k \in Killers, NEW c \in Calls, Settle(k, c) PROVE Goal
    BY <2>19 DEF Settle, Start, Sweep
  <2>20. ASSUME NEW k \in Killers, Interrupt(k) PROVE Goal
    BY <2>20 DEF Interrupt, Start, Sweep
  <2>21. ASSUME NEW k \in Killers, StartExit(k) PROVE Goal
    BY <2>21 DEF StartExit, Start, Purge
  <2>22. ASSUME NEW k \in Threads, Copy(k) PROVE Goal
    BY <2>22 DEF Copy
  <2>23. ASSUME NEW k \in Threads, Kill(k) PROVE Goal
    BY <2>23, IntentKill
  <2>24. ASSUME NEW k \in Threads, ProbeAlive(k) PROVE Goal
    BY <2>24 DEF ProbeAlive
  <2>25. ASSUME NEW k \in Threads, ProbeGone(k) PROVE Goal
    BY <2>25 DEF ProbeGone
  <2>26. ASSUME NEW k \in Threads, Unlist(k) PROVE Goal
    BY <2>26 DEF Unlist, Noted
  <2>27. ASSUME NEW k \in Threads, Finish(k) PROVE Goal
    BY <2>27 DEF Finish, Prune
  <2>28. CASE UNCHANGED vars
    BY <2>28 DEF vars
  <2>29. QED
    BY <2>1, <2>2, <2>3, <2>4, <2>5, <2>6, <2>7, <2>8, <2>9, <2>10, <2>11, <2>12, <2>13, <2>14, <2>15, <2>16, <2>17, <2>18, <2>19, <2>20, <2>21, <2>22, <2>23, <2>24, <2>25, <2>26, <2>27, <2>28 DEF Next, Running, CallNext, Work

LEMMA NoteStart == TypeOK /\ NoteInv /\ (\E k \in Killers : StartExit(k)) => NoteInv'
<1>. SUFFICES ASSUME TypeOK, NoteInv, NEW k \in Killers, StartExit(k) PROVE NoteInv'
  OBVIOUS
<1>1. \A j \in Threads : killer[j].at = "unlist" => killer'[j] = killer[j]
  BY DEF StartExit, Start, Idle, TypeOK
<1>2. UNCHANGED <<pc, proc, log, told>>
  BY DEF StartExit
<1>. QED
  BY <1>1, <1>2 DEF NoteInv, IsSweep

LEMMA NoteKill == TypeOK /\ NoteInv /\ (\E k \in Threads : Kill(k)) => NoteInv'
<1>. SUFFICES ASSUME TypeOK, NoteInv, NEW k \in Threads, Kill(k) PROVE NoteInv'
  OBVIOUS
<1>1. PICK t \in killer[k].targets, ok \in BOOLEAN :
           /\ \A c \in Calls : c # t => proc'[c] = proc[c]
           /\ proc'[t] = proc[t] \/ (ok /\ proc'[t] = Death(k))
           /\ killer[k].at = "kill"
           /\ killer'[k].at = IF ok THEN "unlist" ELSE "probe"
           /\ killer'[k].task = t
           /\ \A j \in Threads : /\ killer'[j].op = killer[j].op
                                 /\ j # k => killer'[j] = killer[j]
           /\ UNCHANGED <<pc, log, told>>
  BY KillStep
<1>2. ASSUME NEW c \in Calls, proc'[c] = "killer", log[c] = "open"
      PROVE  \E j \in Threads : /\ killer'[j].op # "sweep" /\ killer'[j].task = c
                                /\ killer'[j].at = "unlist"
  <2>1. CASE proc[c] = "killer"
    <3>1. PICK j \in Threads : ~IsSweep(j) /\ killer[j].task = c /\ killer[j].at = "unlist"
      BY <1>2, <2>1 DEF NoteInv
    <3>2. j # k
      BY <1>1, <3>1
    <3>3. QED
      BY <1>1, <3>1, <3>2 DEF IsSweep
  <2>2. CASE proc[c] # "killer"
    BY <1>1, <1>2, <2>2 DEF Death, IsSweep
  <2>3. QED
    BY <2>1, <2>2
<1>. QED
  BY <1>1, <1>2 DEF NoteInv, IsSweep

\* A death by a killer with notes is followed by the note.
LEMMA NoteStep == TypeOK /\ TypeOK' /\ LedgerInv /\ NoteInv /\ [Next]_vars => NoteInv'
<1>. SUFFICES ASSUME TypeOK, TypeOK', LedgerInv, NoteInv, [Next]_vars PROVE NoteInv'
  OBVIOUS
<1>. DEFINE Goal == NoteInv'
<1>. USE CallAssumption
     DEF NoteInv, TypeOK, KillerStates, Engaged, Points, Waits, Heard, Deaths, Ops, Threads, Idle,
           Goto, Return, Settled, Unregister, SetRetain, KillTree, Listed, Alive, IsSweep, Background
<1>. QED
  <2>1. ASSUME NEW c \in Calls, SpawnFails(c) PROVE Goal
    BY <2>1 DEF SpawnFails
  <2>2. ASSUME NEW c \in Calls, Spawn(c) PROVE Goal
    BY <2>2 DEF Spawn
  <2>3. ASSUME NEW c \in Calls, Register(c) PROVE Goal
    BY <2>3 DEF Register
  <2>4. ASSUME NEW c \in Calls, SeeCancel(c) PROVE Goal
    BY <2>4 DEF SeeCancel
  <2>5. ASSUME NEW c \in Calls, SeeDeadline(c) PROVE Goal
    BY <2>5 DEF SeeDeadline
  <2>6. ASSUME NEW c \in Calls, SeeClosedOutput(c) PROVE Goal
    BY <2>6 DEF SeeClosedOutput
  <2>7. ASSUME NEW c \in Calls, SeeExit(c) PROVE Goal
    BY <2>7 DEF SeeExit, LedgerInv
  <2>8. ASSUME NEW c \in Calls, WaitFails(c) PROVE Goal
    BY <2>8 DEF WaitFails, LedgerInv
  <2>9. ASSUME NEW c \in Calls, Keep(c) PROVE Goal
    BY <2>9 DEF Keep
  <2>10. ASSUME NEW c \in Calls, KillOwn(c) PROVE Goal
    BY <2>10 DEF KillOwn
  <2>11. ASSUME NEW c \in Calls, SettleKill(c) PROVE Goal
    BY <2>11 DEF SettleKill, LedgerInv
  <2>12. ASSUME NEW c \in Calls, ToolTimeout(c) PROVE Goal
    BY <2>12 DEF ToolTimeout
  <2>13. ASSUME NEW c \in Calls, Quit(c) PROVE Goal
    BY <2>13 DEF Quit
  <2>14. ASSUME NEW c \in Calls, PipeBreaks(c) PROVE Goal
    BY <2>14 DEF PipeBreaks
  <2>15. CASE NewRound
    BY <2>15 DEF NewRound
  <2>16. CASE List
    BY <2>16 DEF List, Prune
  <2>17. ASSUME NEW e \in SUBSET Calls, Tick(e) PROVE Goal
    BY <2>17 DEF Tick, Start, Purge
  <2>18. ASSUME NEW k \in Killers, NEW c \in Calls, StartPanel(k, c) PROVE Goal
    BY <2>18 DEF StartPanel, Start, Purge
  <2>19. ASSUME NEW k \in Killers, NEW c \in Calls, Settle(k, c) PROVE Goal
    BY <2>19 DEF Settle, Start, Sweep
  <2>20. ASSUME NEW k \in Killers, Interrupt(k) PROVE Goal
    BY <2>20 DEF Interrupt, Start, Sweep
  <2>21. ASSUME NEW k \in Killers, StartExit(k) PROVE Goal
    BY <2>21, NoteStart
  <2>22. ASSUME NEW k \in Threads, Copy(k) PROVE Goal
    BY <2>22 DEF Copy
  <2>23. ASSUME NEW k \in Threads, Kill(k) PROVE Goal
    BY <2>23, NoteKill
  <2>24. ASSUME NEW k \in Threads, ProbeAlive(k) PROVE Goal
    BY <2>24 DEF ProbeAlive
  <2>25. ASSUME NEW k \in Threads, ProbeGone(k) PROVE Goal
    BY <2>25 DEF ProbeGone
  <2>26. ASSUME NEW k \in Threads, Unlist(k) PROVE Goal
    BY <2>26 DEF Unlist, Noted
  <2>27. ASSUME NEW k \in Threads, Finish(k) PROVE Goal
    BY <2>27 DEF Finish, Prune
  <2>28. CASE UNCHANGED vars
    BY <2>28 DEF vars
  <2>29. QED
    BY <2>1, <2>2, <2>3, <2>4, <2>5, <2>6, <2>7, <2>8, <2>9, <2>10, <2>11, <2>12, <2>13, <2>14, <2>15, <2>16, <2>17, <2>18, <2>19, <2>20, <2>21, <2>22, <2>23, <2>24, <2>25, <2>26, <2>27, <2>28 DEF Next, Running, CallNext, Work
LEMMA Invariance == Spec => []IInv
<1>1. Init => IInv
  <2>. SUFFICES ASSUME Init PROVE IInv
    OBVIOUS
  <2>1. TypeOK
    BY CallAssumption
       DEF Init, TypeOK, KillerStates, Engaged, Points, Waits, Heard, Deaths, Ops, Threads, Idle
  <2>2. LedgerInv
    BY DEF Init, LedgerInv, Alive, Engaged, Idle
  <2>3. IntentInv
    BY DEF Init, IntentInv, IsSweep, Idle
  <2>4. NoteInv
    BY DEF Init, NoteInv
  <2>5. QED
    BY <2>1, <2>2, <2>3, <2>4 DEF IInv
<1>2. IInv /\ [Next]_vars => IInv'
  BY TypeStep, LedgerStep, IntentStep, NoteStep DEF IInv
<1>. QED
  BY <1>1, <1>2, PTL DEF Spec

\* Type correctness, for any number of calls and killers.
THEOREM TypeCorrect == Spec => []TypeOK
<1>1. IInv => TypeOK
  BY DEF IInv
<1>. QED
  BY <1>1, Invariance, PTL

\* Whatever kills, sweeps, prunes and timeouts interleave, a process that lives
\* on after its call is in the ledger as retained.
THEOREM SurvivorsAreListed == Spec => []SurvivorIsListed
<1>1. IInv => SurvivorIsListed
  BY DEF IInv, LedgerInv, SurvivorIsListed
<1>. QED
  BY <1>1, Invariance, PTL

\* No cancel ends a process that was declared background.
THEOREM DeclaredSurvive == Spec => []DeclaredSurvivesCancel
<1>1. IInv => DeclaredSurvivesCancel
  BY DEF IInv, IntentInv, DeclaredSurvivesCancel
<1>. QED
  BY <1>1, Invariance, PTL

\* A kept process that a killer has ended has its note, or is about to.
THEOREM KilledKeptAreNoted == Spec => []KilledKeptIsNoted
<1>1. IInv => KilledKeptIsNoted
  BY DEF IInv, TypeOK, NoteInv, KilledKeptIsNoted
<1>. QED
  BY <1>1, Invariance, PTL
-----------------------------------------------------------------------------
\* The watchdog sees everything: a live process that nothing failed on is in the
\* ledger, except between its spawn and its registration.
LiveIsListed ==
  \A c \in Calls : Alive(c) /\ ~faulty[c] => pc[c] = "spawned" \/ c \in Listed

\* Whoever may end a process looks for it in the ledger, and finds it there
\* whatever timeouts, sweeps, prunes and failed kills came before: the reason why
\* NothingRunsForever holds under the watchdog's fairness.
THEOREM WatchdogMissesNothing == Spec => []LiveIsListed
<1>1. IInv => LiveIsListed
  BY DEF IInv, TypeOK, LedgerInv, LiveIsListed, Listed, Alive, Points, Waits, Deaths
<1>. QED
  BY <1>1, Invariance, PTL

\* What a killer does with one task: kill, probe, unlist.
Onward == {<<"probe", "unlist">>, <<"probe", "kill">>, <<"unlist", "kill">>}

\* A killer that has its copy comes to its end: each move of it finishes, takes a
\* target off the copy, or gets on with the one in hand.
KillersDescend ==
  [][\A k \in Threads : killer[k].at \in {"kill", "probe", "unlist"} =>
       \/ killer'[k] \in {killer[k], Idle}
       \/ /\ killer'[k].targets \subseteq killer[k].targets
          /\ killer'[k].targets # killer[k].targets
       \/ /\ killer'[k].targets = killer[k].targets
          /\ <<killer[k].at, killer'[k].at>> \in Onward]_vars

\* No new process, retained entry or failing kill keeps a killer at work for ever,
\* in particular not the watchdog, which must come back to see the next one: it
\* works on the copy it took, and nobody adds to it.
THEOREM KillersComeBack == Spec => KillersDescend
<1>1. ASSUME TypeOK, [Next]_vars, NEW k \in Threads,
             killer[k].at \in {"kill", "probe", "unlist"}
      PROVE  \/ killer'[k] \in {killer[k], Idle}
             \/ /\ killer'[k].targets \subseteq killer[k].targets
                /\ killer'[k].targets # killer[k].targets
             \/ /\ killer'[k].targets = killer[k].targets
                /\ <<killer[k].at, killer'[k].at>> \in Onward
  <2> USE <1>1 DEF TypeOK, KillerStates, Threads, Onward, Idle
  <2>1. ASSUME NEW c \in Calls, CallNext(c) \/ Quit(c) \/ PipeBreaks(c)
        PROVE  killer' = killer
    BY <2>1 DEF CallNext, SpawnFails, Spawn, Register, SeeCancel, SeeDeadline,
         SeeClosedOutput, SeeExit, WaitFails, Keep, KillOwn, SettleKill,
         ToolTimeout, Quit, PipeBreaks
  <2>2. ASSUME NewRound \/ List PROVE killer' = killer
    BY <2>2 DEF NewRound, List
  <2>3. ASSUME NEW j \in Threads, NEW new,
               killer[j] = Idle, killer' = [killer EXCEPT ![j] = new]
        PROVE  killer'[k] = killer[k]
    BY <2>3
  <2>4. ASSUME NEW expired \in SUBSET Calls, Tick(expired)
        PROVE  killer'[k] = killer[k]
    BY <2>3, <2>4 DEF Tick, Start
  <2>5. ASSUME NEW j \in Killers,
               \/ \E c \in Calls : StartPanel(j, c) \/ Settle(j, c)
               \/ Interrupt(j) \/ StartExit(j)
        PROVE  killer'[k] = killer[k]
    <3>1. PICK new : Start(j, new)
      BY <2>5 DEF StartPanel, Settle, Interrupt, StartExit
    <3>. QED  BY <2>3, <3>1 DEF Start
  <2>6. ASSUME NEW j \in Threads, j # k, Work(j)
        PROVE  killer'[k] = killer[k]
    BY <2>6 DEF Work, Copy, Kill, ProbeAlive, ProbeGone, Unlist, Finish
  <2>7. CASE Kill(k)
    <3>1. PICK t \in killer[k].targets : killer'[k].targets = killer[k].targets \ {t}
      BY <2>7 DEF Kill
    <3>. QED  BY <3>1
  <2>8. CASE ProbeAlive(k) BY <2>8 DEF ProbeAlive
  <2>9. CASE ProbeGone(k) BY <2>9 DEF ProbeGone
  <2>10. CASE Unlist(k) BY <2>10 DEF Unlist
  <2>11. CASE Finish(k) BY <2>11 DEF Finish
  <2>12. CASE UNCHANGED vars BY <2>12 DEF vars
  <2>13. ~Copy(k) BY DEF Copy
  <2>. QED
    BY <2>1, <2>2, <2>4, <2>5, <2>6, <2>7, <2>8, <2>9, <2>10, <2>11, <2>12, <2>13
       DEF Next, Running, Work
<1>2. IInv /\ [Next]_vars =>
        [\A k \in Threads : killer[k].at \in {"kill", "probe", "unlist"} =>
           \/ killer'[k] \in {killer[k], Idle}
           \/ /\ killer'[k].targets \subseteq killer[k].targets
              /\ killer'[k].targets # killer[k].targets
           \/ /\ killer'[k].targets = killer[k].targets
              /\ <<killer[k].at, killer'[k].at>> \in Onward]_vars
  BY <1>1 DEF IInv
<1>. QED
  BY <1>2, Invariance, PTL DEF Spec, KillersDescend
=============================================================================
