----------------------------- MODULE HudArbiter -----------------------------
(***************************************************************************)
(* The arbiter of the floating HUD: which running tool its timer shows and *)
(* when the timer stops.                                                   *)
(*                                                                         *)
(* Tool calls register with the arbiter when they start and leave it when  *)
(* they end.  A frame of a terminal phase does not say whose it is: the    *)
(* arbiter counts it and lets the next end consume it.  The events come    *)
(* from the leader, which takes its calls one at a time, or from a         *)
(* sub-task, which starts all calls of a batch, runs them, and only then   *)
(* reports and ends them.  One event is one step: the frames it produces   *)
(* reach the window in the order of their sequence numbers.                *)
(***************************************************************************)
EXTENDS Naturals, FiniteSets

CONSTANTS N,       \* calls of one reply of the model, at most BATCH_SIZE
          Kinds,   \* which of the kinds below the calls may have
          Labels,  \* display texts
          MayAsk   \* may a call ask for a permission?

Calls == 1 .. N
NoCall == 0

VARIABLES active,      \* ArbiterState::active
          displayed,   \* ArbiterState::displayed, as the call whose text it is
          pendingEnds, \* ArbiterState::pending_ends
          screen,      \* what the window shows
          who,         \* the executor of the calls
          kind, label, \* what the calls are and how they are displayed
          rank,        \* the order in which the map iterates over equals
          at,          \* how far each call is
          closing      \* the leader has sent its last frame, not yet flushed

arbiter == <<active, displayed, pendingEnds, screen>>
batch == <<who, kind, label, rank>>
vars == <<arbiter, batch, at, closing>>

\* shell: system_shell, which in a sub-task sends its own terminal frame.
\* system: the other tools with a system hint, and no terminal frame there.
\* screen: desktop and browser tools.   plain: not shown.
\* prompt: not shown, yet it sends a terminal frame (request_user_input).
AllKinds == {"shell", "system", "screen", "plain", "prompt"}

OnHud(c) == kind[c] \in {"shell", "system", "screen"}

Priority(c) == IF kind[c] \in {"shell", "system"} THEN 0 ELSE 1

\* ArbiterState::top: a minimum by priority, the first in the map's order.
Above(c, d) == \/ Priority(c) < Priority(d)
               \/ Priority(c) = Priority(d) /\ rank[c] < rank[d]

Top(set) == CHOOSE c \in set : \A d \in set \ {c} : Above(c, d)

SameText(c, d) == d # NoCall /\ label[c] = label[d]

\* The passes of a sub-task over its batch.
PassOf(stage) == CASE stage \in {"new", "started", "hinted", "asked"} -> 1
                   [] stage = "checked" -> 2
                   [] stage \in {"ran", "told"} -> 3
                   [] stage = "ended" -> 4

\* Whether the executor has come to call c.
Turn(c) == IF who = "leader"
           THEN \A d \in 1 .. c - 1 : at[d] = "ended"
           ELSE /\ \A d \in 1 .. c - 1 : PassOf(at[d]) > PassOf(at[c])
                /\ \A d \in c + 1 .. N : PassOf(at[d]) >= PassOf(at[c])

Goes(c, from, to) == /\ at[c] = from
                     /\ Turn(c)
                     /\ at' = [at EXCEPT ![c] = to]
                     /\ UNCHANGED <<batch, closing>>

AllEnded == \A c \in Calls : at[c] = "ended"

Init == /\ active = {} /\ displayed = NoCall /\ pendingEnds = 0
        /\ screen = "blank"
        /\ who = "leader"
        /\ kind = [c \in Calls |-> "plain"]
        /\ label \in [Calls -> Labels]
        /\ rank = [c \in Calls |-> c]
        /\ at = [c \in Calls |-> "ended"]
        /\ closing = FALSE
-----------------------------------------------------------------------------
(* The handlers of the arbiter, with the frames that the emitter shows. *)

\* on_tool_call_start_with: only a higher priority takes the display over.
OnToolCallStart(c) ==
  IF OnHud(c)
  THEN LET top == Top(active \cup {c})
           takes == \/ displayed = NoCall
                    \/ /\ Priority(top) < Priority(displayed)
                       /\ ~SameText(top, displayed)
       IN /\ active' = active \cup {c}
          /\ displayed' = IF takes THEN top ELSE displayed
          /\ screen' = IF takes THEN "running" ELSE screen
          /\ UNCHANGED pendingEnds
  ELSE UNCHANGED arbiter

\* on_running_hint: a running frame passes with the text of the top call.
OnRunningHint ==
  /\ displayed' = IF active = {} THEN displayed ELSE Top(active)
  /\ screen' = "running"
  /\ UNCHANGED <<active, pendingEnds>>

\* on_hud_terminal: the frame passes, unless some call is left running whose
\* text differs from the one displayed: its running frame gets the higher number.
OnHudTerminal ==
  LET live == Cardinality(active) > pendingEnds + 1
      switch == live /\ ~SameText(Top(active), displayed)
  IN /\ pendingEnds' = pendingEnds + 1
     /\ displayed' = IF live THEN Top(active) ELSE NoCall
     /\ screen' = IF switch THEN "running" ELSE "settled"
     /\ UNCHANGED active

\* on_tool_call_end: an end consumes a terminal frame, whoever sent it.  The
\* last one stops the timer itself only if there was none to consume.
OnToolCallEnd(c) ==
  IF c \in active
  THEN LET left == active \ {c}
           switch == left # {} /\ ~SameText(Top(left), displayed)
       IN /\ active' = left
          /\ pendingEnds' = IF pendingEnds > 0 THEN pendingEnds - 1 ELSE 0
          /\ displayed' = CASE left = {} -> NoCall
                            [] switch -> Top(left)
                            [] OTHER -> displayed
          /\ screen' = CASE left = {} /\ pendingEnds = 0 -> "settled"
                         [] switch -> "running"
                         [] OTHER -> screen
  ELSE UNCHANGED arbiter
-----------------------------------------------------------------------------
(* The executors. *)

\* A reply of the model with tool calls.
BeginBatch(w, k, l, r) ==
  /\ AllEnded /\ ~closing
  /\ active = {}          \* after a halt the round is closed first
  /\ \A c, d \in Calls : k[c] # k[d] => l[c] # l[d]
  /\ \A c, d \in Calls : r[c] = r[d] => c = d
  /\ who' = w /\ kind' = k /\ label' = l /\ rank' = r
  /\ at' = [c \in Calls |-> "new"]
  /\ UNCHANGED <<arbiter, closing>>

StartCall(c) == Goes(c, "new", "started") /\ OnToolCallStart(c)

\* A sub-task announces system tools right after their start.
Announce(c) ==
  /\ Goes(c, "started", "hinted")
  /\ IF who = "subtask" /\ kind[c] \in {"shell", "system"}
     THEN OnRunningHint
     ELSE UNCHANGED arbiter

\* The frame of phase "security" counts as a terminal one.
AskPermission(c) == MayAsk /\ Goes(c, "hinted", "asked") /\ OnHudTerminal

PassCheck(c) == /\ Goes(c, "hinted", "checked") \/ Goes(c, "asked", "checked")
                /\ UNCHANGED arbiter

\* The safety check refuses the call: its end comes without a terminal frame.
FailCheck(c) == /\ Goes(c, "hinted", "ended") \/ Goes(c, "asked", "ended")
                /\ OnToolCallEnd(c)

\* The circuit breaker: the batch is left, and the calls that passed their
\* check never end.
Halt(c) == /\ who = "subtask"
           /\ at[c] \in {"hinted", "asked"}
           /\ Turn(c)
           /\ OnToolCallEnd(c)
           /\ at' = [d \in Calls |-> "ended"]
           /\ UNCHANGED <<batch, closing>>

\* The leader, and in a sub-task a desktop or browser tool, sends a running
\* frame before it executes.
RunCall(c) ==
  /\ Goes(c, "checked", "ran")
  /\ IF kind[c] = "screen" \/ (who = "leader" /\ OnHud(c))
     THEN OnRunningHint
     ELSE UNCHANGED arbiter

\* stream_shell_blocking ends with a frame of its own, except when it kills the
\* process on a cancel or a timeout: then it is an ordinary RunCall.
RunShell(c) == /\ who = "subtask" /\ kind[c] = "shell"
               /\ Goes(c, "checked", "ran")
               /\ OnHudTerminal

\* The terminal frame of the executor.
ReportCall(c) ==
  /\ Goes(c, "ran", "told")
  /\ IF kind[c] = "screen" \/ (who = "leader" /\ kind[c] # "plain")
     THEN OnHudTerminal
     ELSE UNCHANGED arbiter

EndCall(c) == Goes(c, "told", "ended") /\ OnToolCallEnd(c)

\* A leader's call that a hook vetoes or that is left early: ToolEndGuard ends it.
AbortCall(c) == /\ who = "leader"
                /\ \E stage \in {"hinted", "asked", "checked", "ran"} :
                     Goes(c, stage, "ended")
                /\ OnToolCallEnd(c)

\* The end of a round: a terminal frame, then an event that flushes the arbiter
\* and shows nothing.
LastFrame == /\ AllEnded /\ ~closing
             /\ OnHudTerminal
             /\ closing' = TRUE
             /\ UNCHANGED <<batch, at>>

FlushAll == /\ closing
            /\ active' = {} /\ displayed' = NoCall /\ pendingEnds' = 0
            /\ closing' = FALSE
            /\ UNCHANGED <<screen, batch, at>>

Ranks == [Calls -> Calls]

Next ==
  \/ \E w \in {"leader", "subtask"}, k \in [Calls -> Kinds],
        l \in [Calls -> Labels], r \in Ranks : BeginBatch(w, k, l, r)
  \/ \E c \in Calls :
       \/ StartCall(c) \/ Announce(c) \/ AskPermission(c)
       \/ PassCheck(c) \/ FailCheck(c) \/ Halt(c)
       \/ RunCall(c) \/ RunShell(c) \/ ReportCall(c) \/ EndCall(c)
       \/ AbortCall(c)
  \/ LastFrame
  \/ FlushAll

Spec == Init /\ [][Next]_vars
-----------------------------------------------------------------------------
TypeOK == /\ active \subseteq Calls
          /\ displayed \in Calls \cup {NoCall}
          /\ pendingEnds \in Nat
          /\ screen \in {"blank", "running", "settled"}
          /\ who \in {"leader", "subtask"}
          /\ kind \in [Calls -> AllKinds]
          /\ label \in [Calls -> Labels]
          /\ rank \in Ranks
          /\ at \in [Calls -> {"new", "started", "hinted", "asked", "checked",
                               "ran", "told", "ended"}]
          /\ closing \in BOOLEAN

\* When every tool call has ended and left the arbiter the timer is stopped: the
\* HUD never stays "running" with nothing behind it.
TimerStops == AllEnded /\ active = {} => screen # "running"

\* The text that the arbiter takes for displayed is that of a registered call.
DisplayedIsActive ==
  displayed # NoCall => \E c \in active : SameText(c, displayed)
=============================================================================
