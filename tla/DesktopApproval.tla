-------------------------- MODULE DesktopApproval --------------------------
(***************************************************************************)
(* The one-shot approval of critical desktop actions, on top of the gate.  *)
(*                                                                         *)
(* A desktop call holds a lease of the gate from before it asks until      *)
(* after it has acted.  It writes a pending record and a ticket, shows a   *)
(* prompt, and polls a channel, a cancel flag and a deadline.  The answer  *)
(* is a command of the user interface that takes the two records under one *)
(* lock and uses the channel after it has let go of the lock.              *)
(*                                                                         *)
(* The frames are the leases of AutomationGate: bodies (rounds, workflows, *)
(* plug-in chats, manual tools) and desktop calls.  The lease of a call is *)
(* not used again, so it also stands for the request's id.                 *)
(***************************************************************************)
EXTENDS AutomationGate

CONSTANTS Calls,    \* the leases that are desktop calls; the others are bodies
          Commands  \* answers of the user that may be under way at a time

ASSUME CallsAssumption == Calls \subseteq Leases

VARIABLES at,         \* how far the frame of each lease is
          pending,    \* SecurityState::pending_approvals
          tickets,    \* DesktopApprovalState::tickets
          age,        \* how old a request is: past TIMEOUT for a record, for the call
          reply,      \* the oneshot channel, as its receiver sees it
          looked,     \* answers that have found the pending record
          won,        \* answers that have taken the ticket
          told,       \* the answer the user was told is accepted
          scope,      \* whose cancel flag the call listens to
          hostCancel, \* AppState::cancel_flag
          runCancel,  \* calls whose workflow run has been stopped
          stopped     \* history: calls cancelled while they waited

records == <<pending, tickets>>
answers == <<looked, won, told>>
flags == <<scope, hostCancel, runCancel, stopped>>
request == <<records, age, reply, answers, flags>>
approvalVars == <<vars, at, request>>

Answer == [by : Commands, call : Calls, yes : BOOLEAN]

\* A call that has asked and has not been answered to.
Asking(c) == at[c] \in {"asked", "waiting"}

\* cancelled: a workflow's own flag if the call runs under one, else the host's.
Cancelled(c) == IF scope[c] = "run" THEN c \in runCancel ELSE hostCancel

Enter(c, from, to) == at[c] = from /\ at' = [at EXCEPT ![c] = to]

ApprovalInit ==
  /\ Init
  /\ at = [c \in Leases |-> "none"]
  /\ pending = {} /\ tickets = {}
  /\ age = [c \in Calls |-> "fresh"]
  /\ reply = [c \in Calls |-> "none"]
  /\ looked = {} /\ won = {}
  /\ told = [c \in Calls |-> "none"]
  /\ scope = [c \in Calls |-> "host"]
  /\ hostCancel = FALSE /\ runCancel = {} /\ stopped = {}
-----------------------------------------------------------------------------
(* Bodies. *)

\* Mutation: the flag is voided before the gate is asked.
OpenRoundResetsFirst(l, o) ==
  /\ at[l] = "none" /\ l \notin Live
  /\ hostCancel' = FALSE
  /\ UNCHANGED <<vars, at, records, age, reply, answers, scope, runCancel, stopped>>

\* A round, retry or refine takes the gate first and voids the cancel flag then.
OpenRound(l, o) == /\ Enter(l, "none", "starting")
                   /\ TryAcquire(l, o)
                   /\ UNCHANGED request

ResetCancel(l) == /\ Enter(l, "starting", "frame")
                  /\ hostCancel' = FALSE
                  /\ UNCHANGED <<vars, records, age, reply, answers, scope,
                                 runCancel, stopped>>

\* The bodies outside the execution stage never touch the flag.
OpenBody(l, o) == /\ Enter(l, "none", "frame")
                  /\ TryAcquire(l, o)
                  /\ UNCHANGED request

CloseBody(l) == /\ Enter(l, "frame", "none") \/ Enter(l, "starting", "none")
                /\ DropLease(l)
                /\ UNCHANGED request
-----------------------------------------------------------------------------
(* A desktop call. *)

\* acquire_semantic_desktop_lease: a body makes one call at a time; a call
\* without an owner takes the slot itself.
OpenCall(c, o) ==
  /\ \A d \in Live : at[d] = "frame"
  /\ Enter(c, "none", "called")
  /\ Reenter(c, o) \/ TryAcquire(c, o)
  /\ \E s \in {"host", "run"}, ran \in BOOLEAN :
       /\ scope' = [scope EXCEPT ![c] = s]
       /\ runCancel' = IF ran THEN runCancel \cup {c} ELSE runCancel
  /\ UNCHANGED <<records, age, reply, answers, hostCancel, stopped>>

\* authorize, first lock: the pending record.
Ask(c) == /\ Enter(c, "called", "asked")
          /\ ~Cancelled(c)
          /\ pending' = pending \cup {c}
          /\ UNCHANGED <<vars, tickets, age, reply, answers, flags>>

\* Second lock: the ticket, then the guard and the prompt.
Prompt(c) == /\ Enter(c, "asked", "waiting")
             /\ tickets' = tickets \cup {c}
             /\ UNCHANGED <<vars, pending, age, reply, answers, flags>>

\* Mutation: the guard forgets the ticket.
LeaveTicket(c) == /\ at' = [at EXCEPT ![c] = "back"]
                  /\ pending' = pending \ {c}
                  /\ UNCHANGED <<vars, tickets, age, reply, answers, flags>>

\* The call returns, or its future is dropped: PendingGuard takes both records.
Leave(c) == /\ at' = [at EXCEPT ![c] = "back"]
            /\ pending' = pending \ {c}
            /\ tickets' = tickets \ {c}
            /\ UNCHANGED <<vars, age, reply, answers, flags>>

\* Mutation: the loop has no deadline.
GiveUpOnCancel(c) == at[c] = "waiting" /\ Cancelled(c) /\ Leave(c)

\* The head of the poll loop.
GiveUp(c) == /\ at[c] = "waiting"
             /\ Cancelled(c) \/ age[c] = "late"
             /\ Leave(c)

\* Mutation: no look at the cancel flag after the await.
VoidedByTime(c) == reply[c] = "closed" \/ age[c] = "late"

Voided(c) == reply[c] = "closed" \/ Cancelled(c) \/ age[c] = "late"

\* Mutation: what is received counts as a yes.
ReceiveAny(c) == /\ Enter(c, "waiting", "granted")
                 /\ reply[c] # "none" /\ ~Voided(c)
                 /\ UNCHANGED <<vars, request>>

\* The response branch, with the check that follows the await.
Receive(c) == /\ at[c] = "waiting"
              /\ reply[c] # "none"
              /\ IF ~Voided(c) /\ reply[c] = "yes"
                 THEN /\ Enter(c, "waiting", "granted")
                      /\ pending' = pending \ {c}
                      /\ tickets' = tickets \ {c}
                      /\ UNCHANGED <<vars, age, reply, answers, flags>>
                 ELSE Leave(c)

\* The action itself, after the target was observed anew.
Dispatch(c) == Enter(c, "granted", "sent") /\ UNCHANGED <<vars, request>>

\* Refused before it asked, the target changed, the action done, or the future
\* dropped at an await by a time limit around it.
Return(c) == /\ at[c] \in {"called", "waiting", "granted", "sent"}
             /\ Leave(c)

\* The end of the call: its channel and its run's flag are gone.
CloseCall(c) == /\ Enter(c, "back", "over")
                /\ DropLease(c)
                /\ age' = [age EXCEPT ![c] = "fresh"]
                /\ reply' = [reply EXCEPT ![c] = "none"]
                /\ told' = [told EXCEPT ![c] = "none"]
                /\ scope' = [scope EXCEPT ![c] = "host"]
                /\ runCancel' = runCancel \ {c}
                /\ stopped' = stopped \ {c}
                /\ UNCHANGED <<records, looked, won, hostCancel>>

\* Mutation: the clock has a further mark.
TickOn(c) == /\ at[c] = "waiting"
             /\ age' = [age EXCEPT ![c] = CASE @ = "fresh" -> "stale"
                                          [] @ = "stale" -> "late"
                                          [] OTHER -> "expired"]
             /\ UNCHANGED <<vars, at, records, reply, answers, flags>>

\* Time: first the records pass TIMEOUT, then the deadline of the call.
Tick(c) == /\ at[c] = "waiting"
           /\ age[c] # "late"
           /\ age' = [age EXCEPT ![c] = IF @ = "fresh" THEN "stale" ELSE "late"]
           /\ UNCHANGED <<vars, at, records, reply, answers, flags>>
-----------------------------------------------------------------------------
(* The user. *)

\* approve_pending or reject_pending, up to approval::get.
Look(a) == /\ \A b \in looked \cup won : b.by # a.by
           /\ at[a.call] # "asked"   \* the id goes out with the prompt
           /\ a.call \in pending
           /\ looked' = looked \cup {a}
           /\ UNCHANGED <<vars, at, records, age, reply, won, told, flags>>

\* cleanup_expired, in any later get or add: long after the deadline.
Sweep(c) == /\ age[c] = "late"
            /\ c \in pending
            /\ pending' = pending \ {c}
            /\ UNCHANGED <<vars, at, tickets, age, reply, answers, flags>>

\* Mutation: the records stay until the call takes them down.
ResolveKeeps(a) ==
  /\ a \in looked
  /\ looked' = looked \ {a}
  /\ won' = IF a.call \in tickets /\ age[a.call] = "fresh"
            THEN won \cup {a} ELSE won
  /\ UNCHANGED <<vars, at, records, age, reply, told, flags>>

\* resolve, under its lock: both records are valid, or both go.
Resolve(a) ==
  LET c == a.call
      valid == c \in pending /\ c \in tickets /\ age[c] = "fresh"
  IN /\ a \in looked
     /\ looked' = looked \ {a}
     /\ won' = IF valid THEN won \cup {a} ELSE won
     /\ pending' = pending \ {c}
     /\ tickets' = tickets \ {c}
     /\ reply' = IF c \in tickets /\ ~valid      \* the sender is dropped
                 THEN [reply EXCEPT ![c] = "closed"] ELSE reply
     /\ UNCHANGED <<vars, at, age, told, flags>>

\* resolve, after its lock: the send fails once the receiver is gone.
Send(a) ==
  LET word == IF a.yes THEN "yes" ELSE "no"
      heard == at[a.call] = "waiting"
  IN /\ a \in won
     /\ won' = won \ {a}
     /\ reply' = IF heard THEN [reply EXCEPT ![a.call] = word] ELSE reply
     /\ told' = IF heard THEN [told EXCEPT ![a.call] = word] ELSE told
     /\ UNCHANGED <<vars, at, records, age, looked, flags>>

\* interrupt and force_reset, or the stop of a workflow run.
CancelHost == /\ hostCancel' = TRUE
              /\ stopped' = stopped \cup
                            {c \in Calls : Asking(c) /\ scope[c] = "host"}
              /\ UNCHANGED <<vars, at, records, age, reply, answers, scope,
                             runCancel>>

CancelRun(c) == /\ c \in Live /\ scope[c] = "run"
                /\ runCancel' = runCancel \cup {c}
                /\ stopped' = IF Asking(c) THEN stopped \cup {c} ELSE stopped
                /\ UNCHANGED <<vars, at, records, age, reply, answers, scope,
                               hostCancel>>

ApprovalNext ==
  \/ \E l \in Leases \ Calls : \/ \E o \in Owners : OpenRound(l, o) \/ OpenBody(l, o)
                             \/ ResetCancel(l) \/ CloseBody(l)
  \/ \E c \in Calls : \/ \E o \in Owners : OpenCall(c, o)
                     \/ Ask(c) \/ Prompt(c) \/ GiveUp(c) \/ Receive(c)
                     \/ Dispatch(c) \/ Return(c) \/ CloseCall(c)
                     \/ Tick(c) \/ Sweep(c) \/ CancelRun(c)
  \/ \E a \in Answer : Look(a) \/ Resolve(a) \/ Send(a)
  \/ CancelHost

\* The clock runs and the poll loop is scheduled; nobody has to answer.
ApprovalSpec == /\ ApprovalInit
                /\ [][ApprovalNext]_approvalVars
                /\ \A c \in Calls : /\ WF_approvalVars(Prompt(c))
                                    /\ WF_approvalVars(Tick(c))
                                    /\ WF_approvalVars(GiveUp(c))
-----------------------------------------------------------------------------
ApprovalTypeOK ==
  /\ at \in [Leases -> {"none", "starting", "frame", "called", "asked", "waiting",
                        "granted", "sent", "back", "over"}]
  /\ pending \subseteq Calls /\ tickets \subseteq Calls
  /\ age \in [Calls -> {"fresh", "stale", "late"}]
  /\ reply \in [Calls -> {"none", "yes", "no", "closed"}]
  /\ looked \subseteq Answer /\ won \subseteq Answer
  /\ told \in [Calls -> {"none", "yes", "no"}]
  /\ scope \in [Calls -> {"host", "run"}]
  /\ hostCancel \in BOOLEAN
  /\ runCancel \subseteq Calls /\ stopped \subseteq Calls

\* An action is carried out only after the user was told that the yes to this
\* very request is accepted, and then no other answer to it is under way.
DispatchIsApproved ==
  \A c \in Calls : at[c] \in {"granted", "sent"} =>
    told[c] = "yes" /\ \A a \in won : a.call # c

\* Of several answers to a request one at most is told to be accepted: what the
\* user was told stands until the call has ended.
OneAnswer ==
  [][\A c \in Calls : told[c] # "none" /\ at'[c] # "over" => told'[c] = told[c]]_told

\* A call that was cancelled while it waited for its answer never acts, although
\* a round that starts voids the flag: the call holds the gate until it has seen it.
StoppedNeverRuns == \A c \in stopped : at[c] \notin {"granted", "sent"}

\* A request that has ended leaves no record behind, and one that can still be
\* answered has both of its records.
RecordsMatchCall ==
  /\ \A c \in pending \cup tickets : Asking(c)
  /\ \A c \in Calls :
       at[c] = "waiting" /\ age[c] = "fresh" /\ reply[c] = "none" =>
         (c \in pending /\ c \in tickets) \/ \E a \in won : a.call = c

\* What a request has come to, as the user sees it.
Status(c) == CASE at[c] \in {"none", "called"} -> "new"
               [] Asking(c) -> IF told[c] = "none" THEN "open" ELSE told[c]
               [] at[c] = "granted" -> "granted"
               [] at[c] = "sent" -> "acted"
               [] OTHER -> "over"

Request == INSTANCE OneShotRequest
           WITH Requests <- Calls, status <- [c \in Calls |-> Status(c)]

\* The approval is a one-shot request: put once, answered once, acted on once
\* and only after a yes that no stop has overtaken.
ApprovalIsOneShot == Request!Spec

\* No prompt stays for ever: answered or not, the call leaves its wait.
PromptEnds == \A c \in Calls : Asking(c) ~> ~Asking(c)
=============================================================================
