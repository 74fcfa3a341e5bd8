----------------------- MODULE DesktopApprovalProofs -----------------------
(***************************************************************************)
(* Theorems about DesktopApproval, for any owners, leases and answers.     *)
(*                                                                         *)
(* The approval is first shown to use the gate as the gate's own           *)
(* specification says, so that the gate's invariant is at hand.  On it     *)
(* rests that a round that starts is alone (Frames), and on that that the  *)
(* flag it voids is awaited by nobody (Stops).  Tokens says that a request *)
(* has one token only: its ticket, an answer that took it, or the word in  *)
(* the channel.                                                            *)
(***************************************************************************)
EXTENDS DesktopApproval, AutomationGateProofs

\* A frame is alive exactly while it holds its lease, and a body that starts
\* is the only one.
Frames ==
  /\ \A l \in Leases \ Calls : at[l] \in {"none", "starting", "frame"}
  /\ \A c \in Calls : at[c] \notin {"starting", "frame"}
  /\ \A l \in Leases : l \in Live <=> at[l] \notin {"none", "over"}
  /\ \A l \in Leases : at[l] = "starting" => \A k \in Live : k = l

\* A call that has not shown its prompt is untouched.
Untouched ==
  \A c \in Calls : at[c] \in {"none", "called", "asked"} =>
    /\ age[c] = "fresh" /\ reply[c] = "none" /\ told[c] = "none"
    /\ c \notin tickets
    /\ at[c] = "asked" => c \in pending
    /\ \A a \in looked \cup won : a.call # c

Tokens ==
  /\ \A c \in pending \cup tickets : Asking(c)
  /\ \A c \in tickets : reply[c] = "none" /\ told[c] = "none"
  /\ \A a \in won : /\ a.call \notin tickets
                    /\ reply[a.call] = "none" /\ told[a.call] = "none"
                    /\ \A b \in won : b.call = a.call => b = a
  /\ \A c \in Calls : reply[c] \in {"yes", "no"} => told[c] = reply[c]
  /\ \A c \in Calls : told[c] # "none" => reply[c] = told[c]
  /\ \A c \in Calls : at[c] \in {"granted", "sent"} => told[c] = "yes"

Stops ==
  \A c \in stopped : /\ at[c] \in {"asked", "waiting", "back"}
                     /\ Asking(c) => Cancelled(c)

AInv == ApprovalTypeOK /\ Frames /\ Untouched /\ Tokens /\ RecordsMatchCall /\
            Stops
-----------------------------------------------------------------------------
(* The gate under the approval. *)

\* Every step is a step of the gate, or leaves the gate alone.
LEMMA GateStep == [ApprovalNext]_approvalVars => [Next]_vars
<1>. SUFFICES ASSUME ApprovalNext \/ UNCHANGED approvalVars PROVE [Next]_vars
  OBVIOUS
<1>. USE CallsAssumption
<1>1. ASSUME NEW l \in Leases \ Calls, NEW o \in Owners,
             OpenRound(l, o) \/ OpenBody(l, o)
      PROVE  [Next]_vars
  BY <1>1 DEF OpenRound, OpenBody, Next
<1>2. ASSUME NEW l \in Leases \ Calls, ResetCancel(l) \/ CloseBody(l)
      PROVE  [Next]_vars
  BY <1>2 DEF ResetCancel, CloseBody, Next
<1>3. ASSUME NEW c \in Calls, NEW o \in Owners, OpenCall(c, o)
      PROVE  [Next]_vars
  BY <1>3 DEF OpenCall, Next
<1>4. ASSUME NEW c \in Calls, CloseCall(c)
      PROVE  [Next]_vars
  BY <1>4 DEF CloseCall, Next
<1>5. ASSUME NEW c \in Calls,
             \/ Ask(c) \/ Prompt(c) \/ GiveUp(c) \/ Receive(c)
             \/ Dispatch(c) \/ Return(c) \/ Tick(c) \/ Sweep(c) \/ CancelRun(c)
      PROVE  [Next]_vars
  BY <1>5 DEF Ask, Prompt, GiveUp, Receive, Dispatch, Return, Tick, Sweep,
              CancelRun, Leave
<1>6. ASSUME NEW a \in Answer, Look(a) \/ Resolve(a) \/ Send(a)
      PROVE  [Next]_vars
  BY <1>6 DEF Look, Resolve, Send
<1>7. CASE CancelHost
  BY <1>7 DEF CancelHost
<1>8. CASE UNCHANGED approvalVars
  BY <1>8 DEF approvalVars
<1>. QED BY <1>1, <1>2, <1>3, <1>4, <1>5, <1>6, <1>7, <1>8 DEF ApprovalNext

\* The approval uses the gate as its specification says: whatever is proved of
\* the gate holds under it.
THEOREM ApprovalUsesGate == ApprovalSpec => Spec
<1>1. ApprovalInit => Init
  BY DEF ApprovalInit
<1>. QED BY <1>1, GateStep, PTL DEF ApprovalSpec, Spec

\* How the operations of the gate change the set of leases alive.
LEMMA LiveAfter ==
  ASSUME IInv, NEW l \in Leases
  PROVE  /\ \A o \in Owners : TryAcquire(l, o) => Live = {} /\ Live' = {l}
         /\ \A o \in Owners : Reenter(l, o) => Live' = Live \cup {l}
         /\ DropLease(l) => Live' = Live \ {l}
<1>. USE OwnerAssumption DEF IInv, TypeOK, LeasesFollowSlot, Claims, Live
<1>1. ASSUME NEW o \in Owners, TryAcquire(l, o) PROVE Live = {} /\ Live' = {l}
  BY <1>1 DEF TryAcquire, IsFree
<1>2. ASSUME NEW o \in Owners, Reenter(l, o) PROVE Live' = Live \cup {l}
  BY <1>2 DEF Reenter
<1>3. ASSUME DropLease(l) PROVE Live' = Live \ {l}
  BY <1>3 DEF DropLease, Nobody
<1>. QED BY <1>1, <1>2, <1>3
-----------------------------------------------------------------------------
(* The invariant of the approval, one lemma for each of its parts. *)

\* The initial state.
LEMMA InitSound == ApprovalInit => AInv
<1>. SUFFICES ASSUME ApprovalInit PROVE AInv
  OBVIOUS
<1>. USE CallsAssumption DEF ApprovalInit, Init
<1>1. ApprovalTypeOK
  BY DEF ApprovalTypeOK
<1>2. \A l \in Leases : at[l] = "none" /\ l \notin Live
  BY DEF Live, Nobody
<1>3. Frames /\ Untouched /\ Tokens /\ Stops
  BY <1>2 DEF Frames, Untouched, Tokens, Stops
<1>4. RecordsMatchCall
  BY <1>2 DEF RecordsMatchCall
<1>. QED BY <1>1, <1>3, <1>4 DEF AInv

\* The variables stay in range.
LEMMA TypeStep ==
  ASSUME IInv, AInv, [ApprovalNext]_approvalVars PROVE ApprovalTypeOK'
<1>. USE CallsAssumption DEF AInv, ApprovalTypeOK, Answer,
         vars, records, answers, flags, request, approvalVars
<1>1. ASSUME NEW l \in Leases \ Calls, NEW o \in Owners, OpenRound(l, o)
      PROVE  ApprovalTypeOK'
  BY <1>1 DEF OpenRound, Enter
<1>2. ASSUME NEW l \in Leases \ Calls, NEW o \in Owners, OpenBody(l, o)
      PROVE  ApprovalTypeOK'
  BY <1>2 DEF OpenBody, Enter
<1>3. ASSUME NEW l \in Leases \ Calls, ResetCancel(l)
      PROVE  ApprovalTypeOK'
  BY <1>3 DEF ResetCancel, Enter
<1>4. ASSUME NEW l \in Leases \ Calls, CloseBody(l)
      PROVE  ApprovalTypeOK'
  BY <1>4 DEF CloseBody, Enter
<1>5. ASSUME NEW c \in Calls, NEW o \in Owners, OpenCall(c, o)
      PROVE  ApprovalTypeOK'
  BY <1>5 DEF OpenCall, Enter
<1>6. ASSUME NEW c \in Calls, Ask(c)
      PROVE  ApprovalTypeOK'
  BY <1>6 DEF Ask, Enter
<1>7. ASSUME NEW c \in Calls, Prompt(c)
      PROVE  ApprovalTypeOK'
  BY <1>7 DEF Prompt, Enter
<1>8. ASSUME NEW c \in Calls, GiveUp(c)
      PROVE  ApprovalTypeOK'
  BY <1>8 DEF GiveUp, Leave
<1>9. ASSUME NEW c \in Calls, Receive(c)
      PROVE  ApprovalTypeOK'
  BY <1>9 DEF Receive, Voided, Leave, Enter
<1>10. ASSUME NEW c \in Calls, Dispatch(c)
      PROVE  ApprovalTypeOK'
  BY <1>10 DEF Dispatch, Enter
<1>11. ASSUME NEW c \in Calls, Return(c)
      PROVE  ApprovalTypeOK'
  BY <1>11 DEF Return, Leave
<1>12. ASSUME NEW c \in Calls, CloseCall(c)
      PROVE  ApprovalTypeOK'
  BY <1>12 DEF CloseCall, Enter
<1>13. ASSUME NEW c \in Calls, Tick(c)
      PROVE  ApprovalTypeOK'
  BY <1>13 DEF Tick
<1>14. ASSUME NEW c \in Calls, Sweep(c)
      PROVE  ApprovalTypeOK'
  BY <1>14 DEF Sweep
<1>15. ASSUME NEW c \in Calls, CancelRun(c)
      PROVE  ApprovalTypeOK'
  BY <1>15 DEF CancelRun
<1>16. ASSUME NEW a \in Answer, Look(a)
      PROVE  ApprovalTypeOK'
  BY <1>16 DEF Look
<1>17. ASSUME NEW a \in Answer, Resolve(a)
      PROVE  ApprovalTypeOK'
  BY <1>17 DEF Resolve
<1>18. ASSUME NEW a \in Answer, Send(a)
      PROVE  ApprovalTypeOK'
  BY <1>18 DEF Send
<1>19. CASE CancelHost
  BY <1>19 DEF CancelHost
<1>20. CASE UNCHANGED approvalVars
  BY <1>20
<1>. QED BY <1>1, <1>2, <1>3, <1>4, <1>5, <1>6, <1>7, <1>8, <1>9, <1>10, <1>11,
            <1>12, <1>13, <1>14, <1>15, <1>16, <1>17, <1>18, <1>19, <1>20
        DEF ApprovalNext

\* Frames and leases agree, and a body that starts is alone.
LEMMA FramesStep ==
  ASSUME IInv, AInv, [ApprovalNext]_approvalVars PROVE Frames'
<1>. USE CallsAssumption DEF AInv, ApprovalTypeOK, Frames,
         vars, records, answers, flags, request, approvalVars
<1>1. ASSUME NEW l \in Leases \ Calls, NEW o \in Owners, OpenRound(l, o)
      PROVE  Frames'
  BY <1>1, LiveAfter DEF OpenRound, Enter
<1>2. ASSUME NEW l \in Leases \ Calls, NEW o \in Owners, OpenBody(l, o)
      PROVE  Frames'
  BY <1>2, LiveAfter DEF OpenBody, Enter
<1>3. ASSUME NEW l \in Leases \ Calls, ResetCancel(l)
      PROVE  Frames'
  BY <1>3 DEF ResetCancel, Enter, Live
<1>4. ASSUME NEW l \in Leases \ Calls, CloseBody(l)
      PROVE  Frames'
  BY <1>4, LiveAfter DEF CloseBody, Enter
<1>5. ASSUME NEW c \in Calls, NEW o \in Owners, OpenCall(c, o)
      PROVE  Frames'
  BY <1>5, LiveAfter DEF OpenCall, Enter
<1>6. ASSUME NEW c \in Calls, Ask(c)
      PROVE  Frames'
  BY <1>6 DEF Ask, Enter, Live
<1>7. ASSUME NEW c \in Calls, Prompt(c)
      PROVE  Frames'
  BY <1>7 DEF Prompt, Enter, Live
<1>8. ASSUME NEW c \in Calls, GiveUp(c)
      PROVE  Frames'
  BY <1>8 DEF GiveUp, Leave, Live
<1>9. ASSUME NEW c \in Calls, Receive(c)
      PROVE  Frames'
  BY <1>9 DEF Receive, Voided, Leave, Enter, Live
<1>10. ASSUME NEW c \in Calls, Dispatch(c)
      PROVE  Frames'
  BY <1>10 DEF Dispatch, Enter, Live
<1>11. ASSUME NEW c \in Calls, Return(c)
      PROVE  Frames'
  BY <1>11 DEF Return, Leave, Live
<1>12. ASSUME NEW c \in Calls, CloseCall(c)
      PROVE  Frames'
  BY <1>12, LiveAfter DEF CloseCall, Enter
<1>13. ASSUME NEW c \in Calls, Tick(c)
      PROVE  Frames'
  BY <1>13 DEF Tick, Live
<1>14. ASSUME NEW c \in Calls, Sweep(c)
      PROVE  Frames'
  BY <1>14 DEF Sweep, Live
<1>15. ASSUME NEW c \in Calls, CancelRun(c)
      PROVE  Frames'
  BY <1>15 DEF CancelRun, Live
<1>16. ASSUME NEW a \in Answer, Look(a)
      PROVE  Frames'
  BY <1>16 DEF Look, Live
<1>17. ASSUME NEW a \in Answer, Resolve(a)
      PROVE  Frames'
  BY <1>17 DEF Resolve, Live
<1>18. ASSUME NEW a \in Answer, Send(a)
      PROVE  Frames'
  BY <1>18 DEF Send, Live
<1>19. CASE CancelHost
  BY <1>19 DEF CancelHost, Live
<1>20. CASE UNCHANGED approvalVars
  BY <1>20 DEF Live
<1>. QED BY <1>1, <1>2, <1>3, <1>4, <1>5, <1>6, <1>7, <1>8, <1>9, <1>10, <1>11,
            <1>12, <1>13, <1>14, <1>15, <1>16, <1>17, <1>18, <1>19, <1>20
        DEF ApprovalNext

\* A call is untouched until its prompt.
LEMMA UntouchedStep ==
  ASSUME IInv, AInv, [ApprovalNext]_approvalVars PROVE Untouched'
<1>. USE CallsAssumption DEF AInv, ApprovalTypeOK, Frames, Untouched, Answer,
         Tokens, Asking,
         vars, records, answers, flags, request, approvalVars
<1>1. ASSUME NEW l \in Leases \ Calls, NEW o \in Owners, OpenRound(l, o)
      PROVE  Untouched'
  BY <1>1 DEF OpenRound, Enter
<1>2. ASSUME NEW l \in Leases \ Calls, NEW o \in Owners, OpenBody(l, o)
      PROVE  Untouched'
  BY <1>2 DEF OpenBody, Enter
<1>3. ASSUME NEW l \in Leases \ Calls, ResetCancel(l)
      PROVE  Untouched'
  BY <1>3 DEF ResetCancel, Enter
<1>4. ASSUME NEW l \in Leases \ Calls, CloseBody(l)
      PROVE  Untouched'
  BY <1>4 DEF CloseBody, Enter
<1>5. ASSUME NEW c \in Calls, NEW o \in Owners, OpenCall(c, o)
      PROVE  Untouched'
  BY <1>5 DEF OpenCall, Enter
<1>6. ASSUME NEW c \in Calls, Ask(c)
      PROVE  Untouched'
  BY <1>6 DEF Ask, Enter
<1>7. ASSUME NEW c \in Calls, Prompt(c)
      PROVE  Untouched'
  BY <1>7 DEF Prompt, Enter
<1>8. ASSUME NEW c \in Calls, GiveUp(c)
      PROVE  Untouched'
  BY <1>8 DEF GiveUp, Leave
<1>9. ASSUME NEW c \in Calls, Receive(c)
      PROVE  Untouched'
  BY <1>9 DEF Receive, Voided, Leave, Enter
<1>10. ASSUME NEW c \in Calls, Dispatch(c)
      PROVE  Untouched'
  BY <1>10 DEF Dispatch, Enter
<1>11. ASSUME NEW c \in Calls, Return(c)
      PROVE  Untouched'
  BY <1>11 DEF Return, Leave
<1>12. ASSUME NEW c \in Calls, CloseCall(c)
      PROVE  Untouched'
  BY <1>12 DEF CloseCall, Enter
<1>13. ASSUME NEW c \in Calls, Tick(c)
      PROVE  Untouched'
  BY <1>13 DEF Tick
<1>14. ASSUME NEW c \in Calls, Sweep(c)
      PROVE  Untouched'
  BY <1>14 DEF Sweep
<1>15. ASSUME NEW c \in Calls, CancelRun(c)
      PROVE  Untouched'
  BY <1>15 DEF CancelRun
<1>16. ASSUME NEW a \in Answer, Look(a)
      PROVE  Untouched'
  BY <1>16 DEF Look
<1>17. ASSUME NEW a \in Answer, Resolve(a)
      PROVE  Untouched'
  BY <1>17 DEF Resolve
<1>18. ASSUME NEW a \in Answer, Send(a)
      PROVE  Untouched'
  BY <1>18 DEF Send
<1>19. CASE CancelHost
  BY <1>19 DEF CancelHost
<1>20. CASE UNCHANGED approvalVars
  BY <1>20
<1>. QED BY <1>1, <1>2, <1>3, <1>4, <1>5, <1>6, <1>7, <1>8, <1>9, <1>10, <1>11,
            <1>12, <1>13, <1>14, <1>15, <1>16, <1>17, <1>18, <1>19, <1>20
        DEF ApprovalNext

\* A request has one token.
LEMMA TokensStep ==
  ASSUME IInv, AInv, [ApprovalNext]_approvalVars PROVE Tokens'
<1>. USE CallsAssumption DEF AInv, ApprovalTypeOK, Frames, Untouched, Tokens,
         Answer, Asking,
         vars, records, answers, flags, request, approvalVars
<1>1. ASSUME NEW l \in Leases \ Calls, NEW o \in Owners, OpenRound(l, o)
      PROVE  Tokens'
  BY <1>1 DEF OpenRound, Enter
<1>2. ASSUME NEW l \in Leases \ Calls, NEW o \in Owners, OpenBody(l, o)
      PROVE  Tokens'
  BY <1>2 DEF OpenBody, Enter
<1>3. ASSUME NEW l \in Leases \ Calls, ResetCancel(l)
      PROVE  Tokens'
  BY <1>3 DEF ResetCancel, Enter
<1>4. ASSUME NEW l \in Leases \ Calls, CloseBody(l)
      PROVE  Tokens'
  BY <1>4 DEF CloseBody, Enter
<1>5. ASSUME NEW c \in Calls, NEW o \in Owners, OpenCall(c, o)
      PROVE  Tokens'
  BY <1>5 DEF OpenCall, Enter
<1>6. ASSUME NEW c \in Calls, Ask(c)
      PROVE  Tokens'
  BY <1>6 DEF Ask, Enter
<1>7. ASSUME NEW c \in Calls, Prompt(c)
      PROVE  Tokens'
  BY <1>7 DEF Prompt, Enter
<1>8. ASSUME NEW c \in Calls, GiveUp(c)
      PROVE  Tokens'
  BY <1>8 DEF GiveUp, Leave
<1>9. ASSUME NEW c \in Calls, Receive(c)
      PROVE  Tokens'
  BY <1>9 DEF Receive, Voided, Leave, Enter
<1>10. ASSUME NEW c \in Calls, Dispatch(c)
      PROVE  Tokens'
  BY <1>10 DEF Dispatch, Enter
<1>11. ASSUME NEW c \in Calls, Return(c)
      PROVE  Tokens'
  BY <1>11 DEF Return, Leave
<1>12. ASSUME NEW c \in Calls, CloseCall(c)
      PROVE  Tokens'
  BY <1>12 DEF CloseCall, Enter
<1>13. ASSUME NEW c \in Calls, Tick(c)
      PROVE  Tokens'
  BY <1>13 DEF Tick
<1>14. ASSUME NEW c \in Calls, Sweep(c)
      PROVE  Tokens'
  BY <1>14 DEF Sweep
<1>15. ASSUME NEW c \in Calls, CancelRun(c)
      PROVE  Tokens'
  BY <1>15 DEF CancelRun
<1>16. ASSUME NEW a \in Answer, Look(a)
      PROVE  Tokens'
  BY <1>16 DEF Look
<1>17. ASSUME NEW a \in Answer, Resolve(a)
      PROVE  Tokens'
  BY <1>17 DEF Resolve
<1>18. ASSUME NEW a \in Answer, Send(a)
      PROVE  Tokens'
  BY <1>18 DEF Send
<1>19. CASE CancelHost
  BY <1>19 DEF CancelHost
<1>20. CASE UNCHANGED approvalVars
  BY <1>20
<1>. QED BY <1>1, <1>2, <1>3, <1>4, <1>5, <1>6, <1>7, <1>8, <1>9, <1>10, <1>11,
            <1>12, <1>13, <1>14, <1>15, <1>16, <1>17, <1>18, <1>19, <1>20
        DEF ApprovalNext

\* Records and calls agree.
LEMMA RecordsStep ==
  ASSUME IInv, AInv, [ApprovalNext]_approvalVars PROVE RecordsMatchCall'
<1>. USE CallsAssumption DEF AInv, ApprovalTypeOK, Frames, Untouched, Tokens,
         RecordsMatchCall, Answer, Asking,
         vars, records, answers, flags, request, approvalVars
<1>1. ASSUME NEW l \in Leases \ Calls, NEW o \in Owners, OpenRound(l, o)
      PROVE  RecordsMatchCall'
  BY <1>1 DEF OpenRound, Enter
<1>2. ASSUME NEW l \in Leases \ Calls, NEW o \in Owners, OpenBody(l, o)
      PROVE  RecordsMatchCall'
  BY <1>2 DEF OpenBody, Enter
<1>3. ASSUME NEW l \in Leases \ Calls, ResetCancel(l)
      PROVE  RecordsMatchCall'
  BY <1>3 DEF ResetCancel, Enter
<1>4. ASSUME NEW l \in Leases \ Calls, CloseBody(l)
      PROVE  RecordsMatchCall'
  BY <1>4 DEF CloseBody, Enter
<1>5. ASSUME NEW c \in Calls, NEW o \in Owners, OpenCall(c, o)
      PROVE  RecordsMatchCall'
  BY <1>5 DEF OpenCall, Enter
<1>6. ASSUME NEW c \in Calls, Ask(c)
      PROVE  RecordsMatchCall'
  BY <1>6 DEF Ask, Enter
<1>7. ASSUME NEW c \in Calls, Prompt(c)
      PROVE  RecordsMatchCall'
  BY <1>7 DEF Prompt, Enter
<1>8. ASSUME NEW c \in Calls, GiveUp(c)
      PROVE  RecordsMatchCall'
  BY <1>8 DEF GiveUp, Leave
<1>9. ASSUME NEW c \in Calls, Receive(c)
      PROVE  RecordsMatchCall'
  BY <1>9 DEF Receive, Voided, Leave, Enter
<1>10. ASSUME NEW c \in Calls, Dispatch(c)
      PROVE  RecordsMatchCall'
  BY <1>10 DEF Dispatch, Enter
<1>11. ASSUME NEW c \in Calls, Return(c)
      PROVE  RecordsMatchCall'
  BY <1>11 DEF Return, Leave
<1>12. ASSUME NEW c \in Calls, CloseCall(c)
      PROVE  RecordsMatchCall'
  BY <1>12 DEF CloseCall, Enter
<1>13. ASSUME NEW c \in Calls, Tick(c)
      PROVE  RecordsMatchCall'
  BY <1>13 DEF Tick
<1>14. ASSUME NEW c \in Calls, Sweep(c)
      PROVE  RecordsMatchCall'
  BY <1>14 DEF Sweep
<1>15. ASSUME NEW c \in Calls, CancelRun(c)
      PROVE  RecordsMatchCall'
  BY <1>15 DEF CancelRun
<1>16. ASSUME NEW a \in Answer, Look(a)
      PROVE  RecordsMatchCall'
  BY <1>16 DEF Look
<1>17. ASSUME NEW a \in Answer, Resolve(a)
      PROVE  RecordsMatchCall'
  BY <1>17 DEF Resolve
<1>18. ASSUME NEW a \in Answer, Send(a)
      PROVE  RecordsMatchCall'
  BY <1>18 DEF Send
<1>19. CASE CancelHost
  BY <1>19 DEF CancelHost
<1>20. CASE UNCHANGED approvalVars
  BY <1>20
<1>. QED BY <1>1, <1>2, <1>3, <1>4, <1>5, <1>6, <1>7, <1>8, <1>9, <1>10, <1>11,
            <1>12, <1>13, <1>14, <1>15, <1>16, <1>17, <1>18, <1>19, <1>20
        DEF ApprovalNext

\* A call that was cancelled while it waited can only end.
LEMMA StopsStep ==
  ASSUME IInv, AInv, [ApprovalNext]_approvalVars PROVE Stops'
<1>. USE CallsAssumption DEF AInv, ApprovalTypeOK, Frames, Untouched, Stops,
         Asking, Cancelled,
         vars, records, answers, flags, request, approvalVars
<1>1. ASSUME NEW l \in Leases \ Calls, NEW o \in Owners, OpenRound(l, o)
      PROVE  Stops'
  BY <1>1, LiveAfter DEF OpenRound, Enter
<1>2. ASSUME NEW l \in Leases \ Calls, NEW o \in Owners, OpenBody(l, o)
      PROVE  Stops'
  BY <1>2, LiveAfter DEF OpenBody, Enter
<1>3. ASSUME NEW l \in Leases \ Calls, ResetCancel(l)
      PROVE  Stops'
  BY <1>3 DEF ResetCancel, Enter, Live
<1>4. ASSUME NEW l \in Leases \ Calls, CloseBody(l)
      PROVE  Stops'
  BY <1>4, LiveAfter DEF CloseBody, Enter
<1>5. ASSUME NEW c \in Calls, NEW o \in Owners, OpenCall(c, o)
      PROVE  Stops'
  BY <1>5, LiveAfter DEF OpenCall, Enter
<1>6. ASSUME NEW c \in Calls, Ask(c)
      PROVE  Stops'
  BY <1>6 DEF Ask, Enter, Live
<1>7. ASSUME NEW c \in Calls, Prompt(c)
      PROVE  Stops'
  BY <1>7 DEF Prompt, Enter, Live
<1>8. ASSUME NEW c \in Calls, GiveUp(c)
      PROVE  Stops'
  BY <1>8 DEF GiveUp, Leave, Live
<1>9. ASSUME NEW c \in Calls, Receive(c)
      PROVE  Stops'
  BY <1>9 DEF Receive, Voided, Leave, Enter, Live
<1>10. ASSUME NEW c \in Calls, Dispatch(c)
      PROVE  Stops'
  BY <1>10 DEF Dispatch, Enter, Live
<1>11. ASSUME NEW c \in Calls, Return(c)
      PROVE  Stops'
  BY <1>11 DEF Return, Leave, Live
<1>12. ASSUME NEW c \in Calls, CloseCall(c)
      PROVE  Stops'
  BY <1>12, LiveAfter DEF CloseCall, Enter
<1>13. ASSUME NEW c \in Calls, Tick(c)
      PROVE  Stops'
  BY <1>13 DEF Tick, Live
<1>14. ASSUME NEW c \in Calls, Sweep(c)
      PROVE  Stops'
  BY <1>14 DEF Sweep, Live
<1>15. ASSUME NEW c \in Calls, CancelRun(c)
      PROVE  Stops'
  BY <1>15 DEF CancelRun, Live
<1>16. ASSUME NEW a \in Answer, Look(a)
      PROVE  Stops'
  BY <1>16 DEF Look, Live
<1>17. ASSUME NEW a \in Answer, Resolve(a)
      PROVE  Stops'
  BY <1>17 DEF Resolve, Live
<1>18. ASSUME NEW a \in Answer, Send(a)
      PROVE  Stops'
  BY <1>18 DEF Send, Live
<1>19. CASE CancelHost
  BY <1>19 DEF CancelHost, Live
<1>20. CASE UNCHANGED approvalVars
  BY <1>20 DEF Live
<1>. QED BY <1>1, <1>2, <1>3, <1>4, <1>5, <1>6, <1>7, <1>8, <1>9, <1>10, <1>11,
            <1>12, <1>13, <1>14, <1>15, <1>16, <1>17, <1>18, <1>19, <1>20
        DEF ApprovalNext

-----------------------------------------------------------------------------
(* The theorems. *)

\* The invariant holds of the approval, on top of that of the gate.
LEMMA ApprovalInvariance == ApprovalSpec => []AInv
<1>1. IInv /\ AInv /\ [ApprovalNext]_approvalVars => AInv'
  BY TypeStep, FramesStep, UntouchedStep, TokensStep, RecordsStep, StopsStep
  DEF AInv
<1>2. ApprovalSpec => []IInv
  BY ApprovalUsesGate, Invariance, PTL
<1>. QED BY <1>1, <1>2, InitSound, PTL DEF ApprovalSpec

\* The requests, the answers and the flags stay in range.
THEOREM ApprovalTypeCorrect == ApprovalSpec => []ApprovalTypeOK
<1>1. AInv => ApprovalTypeOK
  BY DEF AInv
<1>. QED BY <1>1, ApprovalInvariance, PTL

\* No critical action without an accepted yes to this very request, however many
\* answers are under way and whatever expires meanwhile.
THEOREM OnlyApprovedRun == ApprovalSpec => []DispatchIsApproved
<1>1. AInv => DispatchIsApproved
  BY DEF AInv, Tokens, DispatchIsApproved
<1>. QED BY <1>1, ApprovalInvariance, PTL

\* A cancel that reaches a call in its wait is never lost to a round that voids
\* the flag: the gate keeps that round from starting before the call has ended.
THEOREM StopsAreKept == ApprovalSpec => []StoppedNeverRuns
<1>1. AInv => StoppedNeverRuns
  BY DEF AInv, Stops, StoppedNeverRuns
<1>. QED BY <1>1, ApprovalInvariance, PTL

\* The two records and the call agree although they are written under two locks
\* and taken down by three parties.
THEOREM RecordsAgree == ApprovalSpec => []RecordsMatchCall
<1>1. AInv => RecordsMatchCall
  BY DEF AInv
<1>. QED BY <1>1, ApprovalInvariance, PTL

\* What the user was told stands: no second answer to a request is accepted.
THEOREM AnswersStand == ApprovalSpec => OneAnswer
<1>1. AInv /\ [ApprovalNext]_approvalVars =>
        [\A c \in Calls : told[c] # "none" /\ at'[c] # "over"
                           => told'[c] = told[c]]_told
  <2>. SUFFICES ASSUME AInv, ApprovalNext, told' # told, NEW k \in Calls,
                       told[k] # "none", at'[k] # "over"
                PROVE  told'[k] = told[k]
    BY DEF approvalVars, request, answers
  <2>. USE CallsAssumption DEF AInv, ApprovalTypeOK
  <2>1. ASSUME NEW a \in Answer, Send(a) PROVE told'[k] = told[k]
    BY <2>1 DEF Send, Tokens, Answer
  <2>2. ASSUME NEW c \in Calls, CloseCall(c) PROVE told'[k] = told[k]
    BY <2>2 DEF CloseCall, Enter
  <2>. QED BY <2>1, <2>2
       DEF ApprovalNext, OpenRound, OpenBody, ResetCancel, CloseBody, OpenCall,
            Ask,
           Prompt, GiveUp, Receive, Dispatch, Return, Leave, Enter, Tick, Sweep,
           CancelRun, Look, Resolve, CancelHost, request, answers
<1>. QED BY <1>1, ApprovalInvariance, PTL DEF ApprovalSpec, OneAnswer
-----------------------------------------------------------------------------
(* The approval as a one-shot request. *)

\* A step that changes one call changes the status of that call alone.
LEMMA OneStatus ==
  ASSUME NEW c \in Calls, ApprovalTypeOK, NEW stage,
         at' = [at EXCEPT ![c] = stage] \/ at' = at,
         \A d \in Calls \ {c} : told'[d] = told[d]
  PROVE  [d \in Calls |-> Status(d)]' =
           [[d \in Calls |-> Status(d)] EXCEPT ![c] = Status(c)']
<1>1. \A d \in Calls \ {c} : at'[d] = at[d]
  BY CallsAssumption DEF ApprovalTypeOK
<1>2. \A d \in Calls \ {c} : Status(d)' = Status(d)
  BY <1>1 DEF Status, Asking
<1>. QED BY <1>2

LEMMA OneShotStep ==
  ASSUME IInv, AInv, AInv', [ApprovalNext]_approvalVars
  PROVE  [Request!Next]_(Request!vars)
<1>. DEFINE S == [d \in Calls |-> Status(d)]
<1>. USE CallsAssumption DEF AInv, ApprovalTypeOK
<1>0. /\ ApprovalTypeOK
      /\ \A c \in Calls : at[c] # "starting" /\ at[c] # "frame"
      /\ \A c \in Calls : Status(c) = S[c] /\ [S EXCEPT ![c] = S[c]] = S
  <2>2. \A c \in Calls : at[c] # "starting" /\ at[c] # "frame"
    BY DEF Frames
  <2>3. \A c \in Calls : Status(c) = S[c] /\ [S EXCEPT ![c] = S[c]] = S
    OBVIOUS
  <2>. QED BY <2>2, <2>3
<1>. DEFINE Kept == S' = S /\ stopped' = stopped
<1>k. Kept => [Request!Next]_(Request!vars)
  BY DEF Request!vars
\* Steps that no request can see.
<1>1. ASSUME NEW l \in Leases \ Calls,
             \/ \E o \in Owners : OpenRound(l, o) \/ OpenBody(l, o)
             \/ ResetCancel(l) \/ CloseBody(l)
      PROVE  Kept
  <2>1. /\ \A c \in Calls : at'[c] = at[c] /\ told'[c] = told[c]
        /\ stopped' = stopped
    BY <1>1 DEF OpenRound, OpenBody, ResetCancel, CloseBody, Enter, request, answers,
                flags
  <2>. QED BY <2>1 DEF Status, Asking
<1>2. ASSUME NEW a \in Answer, Look(a) \/ Resolve(a)
      PROVE  Kept
  BY <1>2 DEF Look, Resolve, flags, Status, Asking
<1>3. ASSUME NEW c \in Calls, Tick(c) \/ Sweep(c)
      PROVE  Kept
  BY <1>3 DEF Tick, Sweep, answers, flags, Status, Asking
<1>4. ASSUME NEW c \in Calls,
             Prompt(c) \/ \E o \in Owners : OpenCall(c, o)
      PROVE  Kept
  <2>1. \/ at[c] = "none" /\ at' = [at EXCEPT ![c] = "called"]
        \/ at[c] = "asked" /\ at' = [at EXCEPT ![c] = "waiting"]
    BY <1>4 DEF Prompt, OpenCall, Enter
  <2>2. told' = told /\ stopped' = stopped
    BY <1>4 DEF Prompt, OpenCall, answers, flags
  <2>3. Status(c)' = Status(c)
    BY <2>1, <2>2 DEF Status, Asking
  <2>4. S' = [S EXCEPT ![c] = Status(c)']
    BY <1>0, <2>1, <2>2, OneStatus
  <2>. HIDE DEF S
  <2>. QED BY <1>0, <2>2, <2>3, <2>4
\* The life of a request.
<1>5. ASSUME NEW c \in Calls, Ask(c) PROVE Request!Open(c)
  <2>1. /\ at[c] = "called" /\ at' = [at EXCEPT ![c] = "asked"]
        /\ told' = told /\ told[c] = "none" /\ stopped' = stopped
    BY <1>5 DEF Ask, Enter, Untouched, answers, flags
  <2>2. Status(c) = "new" /\ Status(c)' = "open"
    BY <2>1 DEF Status, Asking
  <2>3. S' = [S EXCEPT ![c] = Status(c)']
    BY <1>0, <2>1, OneStatus
  <2>. QED BY <2>1, <2>2, <2>3 DEF Request!Open, Request!Becomes
<1>6. ASSUME NEW a \in Answer, Send(a)
      PROVE  Kept \/ Request!Answer(a.call)
  <2>. DEFINE c == a.call
  <2>1. c \in Calls /\ told[c] = "none" /\ at' = at /\ stopped' = stopped
    BY <1>6 DEF Send, Tokens, Answer, flags
  <2>2. CASE at[c] = "waiting"
    <3>1. told'[c] \in {"yes", "no"} /\ \A d \in Calls \ {c} : told'[d] = told[d]
      BY <1>6, <2>1, <2>2 DEF Send
    <3>2. Status(c) = "open" /\ Status(c)' = told'[c]
      BY <2>1, <2>2, <3>1 DEF Status, Asking
    <3>3. S' = [S EXCEPT ![c] = Status(c)']
      BY <1>0, <2>1, <3>1, OneStatus
    <3>. QED BY <2>1, <3>1, <3>2, <3>3 DEF Request!Answer, Request!Answered, Request!Becomes
  <2>3. CASE at[c] # "waiting"
    BY <1>6, <2>1, <2>3 DEF Send, Status, Asking
  <2>. QED BY <2>2, <2>3
<1>7. ASSUME NEW c \in Calls, GiveUp(c) \/ Return(c) \/ Receive(c)
      PROVE  Request!Grant(c) \/ Request!End(c)
  <2>1. told' = told /\ stopped' = stopped
    BY <1>7 DEF GiveUp, Return, Receive, Leave, answers, flags
  <2>2. CASE at' = [at EXCEPT ![c] = "back"]
    <3>1. Status(c)' = "over"
      BY <2>2 DEF Status, Asking
    <3>2. S' = [S EXCEPT ![c] = Status(c)']
      BY <1>0, <2>1, <2>2, OneStatus
    <3>. QED BY <2>1, <3>1, <3>2 DEF Request!End, Request!Becomes
  <2>3. CASE at' # [at EXCEPT ![c] = "back"]
    <3>1. /\ at[c] = "waiting" /\ at' = [at EXCEPT ![c] = "granted"]
          /\ reply[c] = "yes" /\ ~Cancelled(c)
      BY <1>7, <2>3 DEF GiveUp, Return, Receive, Leave, Enter, Voided
    <3>2. told[c] = "yes" /\ c \notin stopped
      BY <3>1 DEF Tokens, Stops, Asking
    <3>3. Status(c) = "yes" /\ Status(c)' = "granted"
      BY <2>1, <3>1, <3>2 DEF Status, Asking
    <3>4. S' = [S EXCEPT ![c] = Status(c)']
      BY <1>0, <2>1, <3>1, OneStatus
    <3>. QED BY <2>1, <3>2, <3>3, <3>4 DEF Request!Grant, Request!Becomes
  <2>. QED BY <2>2, <2>3
<1>8. ASSUME NEW c \in Calls, Dispatch(c) PROVE Request!Act(c)
  <2>1. /\ at[c] = "granted" /\ at' = [at EXCEPT ![c] = "sent"]
        /\ told' = told /\ stopped' = stopped
    BY <1>8 DEF Dispatch, Enter, request, answers, flags
  <2>2. Status(c) = "granted" /\ Status(c)' = "acted"
    BY <2>1 DEF Status, Asking
  <2>3. S' = [S EXCEPT ![c] = Status(c)']
    BY <1>0, <2>1, OneStatus
  <2>. QED BY <2>1, <2>2, <2>3 DEF Request!Act, Request!Becomes
<1>9. ASSUME NEW c \in Calls, CloseCall(c) PROVE Request!Forget(c)
  <2>1. /\ at[c] = "back" /\ at' = [at EXCEPT ![c] = "over"]
        /\ stopped' = stopped \ {c} /\ \A d \in Calls \ {c} : told'[d] = told[d]
    BY <1>9 DEF CloseCall, Enter
  <2>2. Status(c) = "over" /\ Status(c)' = "over"
    BY <2>1 DEF Status, Asking
  <2>3. S' = [S EXCEPT ![c] = Status(c)']
    BY <1>0, <2>1, OneStatus
  <2>4. S[c] = "over" /\ S' = S
    <3>. HIDE DEF S
    <3>. QED BY <1>0, <2>2, <2>3
  <2>. QED BY <2>1, <2>4 DEF Request!Forget
<1>10. ASSUME NEW set \in SUBSET {c \in Calls : Asking(c)},
              stopped' = stopped \cup set, at' = at, told' = told
       PROVE  Request!Stop
  <2>1. S' = S
    BY <1>10 DEF Status, Asking
  <2>2. \A c \in set : Request!Standing(c)
    <3>. SUFFICES ASSUME NEW c \in set PROVE Request!Standing(c)
      OBVIOUS
    <3>1. c \in Calls /\ Asking(c) /\ told[c] \in {"none", "yes", "no"}
      OBVIOUS
    <3>2. Status(c) \in {"open", "yes", "no"}
      BY <3>1 DEF Status, Asking
    <3>. QED BY <3>1, <3>2 DEF Request!Standing, Request!Answered
  <2>. QED BY <1>10, <2>1, <2>2 DEF Request!Stop
<1>11. CASE CancelHost
  <2>1. {c \in Calls : Asking(c) /\ scope[c] = "host"} \in SUBSET {c \in Calls : Asking(c)}
    OBVIOUS
  <2>. QED BY <1>10, <1>11, <2>1 DEF CancelHost, answers, Request!Next
<1>12. ASSUME NEW c \in Calls, CancelRun(c) PROVE Request!Stop
  <2>1. {c} \cap {d \in Calls : Asking(d)} \in SUBSET {d \in Calls : Asking(d)}
    OBVIOUS
  <2>2. stopped' = stopped \cup ({c} \cap {d \in Calls : Asking(d)})
    BY <1>12 DEF CancelRun
  <2>. QED BY <1>10, <1>12, <2>1, <2>2 DEF CancelRun, answers
<1>13. CASE UNCHANGED approvalVars
  BY <1>13 DEF approvalVars, request, answers, flags, Status, Asking, Request!vars
<1>14. ASSUME NEW a \in Answer PROVE a.call \in Calls
  BY DEF Answer
<1>. HIDE DEF Kept
<1>15. ASSUME NEW c \in Calls,
              \/ \E o \in Owners : OpenCall(c, o)
              \/ Prompt(c) \/ Tick(c) \/ Sweep(c)
       PROVE  [Request!Next]_(Request!vars)
  BY <1>k, <1>3, <1>4, <1>15
<1>16. ASSUME NEW c \in Calls,
              \/ Ask(c) \/ GiveUp(c) \/ Receive(c) \/ Dispatch(c) \/ Return(c)
              \/ CloseCall(c) \/ CancelRun(c)
       PROVE  [Request!Next]_(Request!vars)
  BY <1>5, <1>7, <1>8, <1>9, <1>12, <1>16 DEF Request!Next
<1>17. ASSUME NEW a \in Answer, Look(a) \/ Resolve(a) \/ Send(a)
       PROVE  [Request!Next]_(Request!vars)
  BY <1>k, <1>2, <1>6, <1>14, <1>17 DEF Request!Next
<1>. QED BY <1>k, <1>1, <1>11, <1>13, <1>15, <1>16, <1>17 DEF ApprovalNext

\* For any number of calls, answers and stops the approval, with its two locks,
\* its channel, its two cancel flags and its deadlines, is a one-shot request.
THEOREM ApprovalImplementsOneShot == ApprovalSpec => ApprovalIsOneShot
<1>1. ApprovalInit => Request!Init
  <2>. SUFFICES ASSUME ApprovalInit PROVE Request!Init
    OBVIOUS
  <2>1. \A c \in Calls : at[c] = "none"
    BY CallsAssumption DEF ApprovalInit
  <2>2. \A c \in Calls : Status(c) = "new"
    BY <2>1 DEF Status, Asking
  <2>. QED BY <2>2 DEF ApprovalInit, Request!Init
<1>2. ApprovalSpec => []IInv
  BY ApprovalUsesGate, Invariance, PTL
<1>3. IInv /\ AInv /\ AInv' /\ [ApprovalNext]_approvalVars => [Request!Next]_(Request!vars)
  BY OneShotStep
<1>. QED BY <1>1, <1>2, <1>3, ApprovalInvariance, PTL
         DEF ApprovalSpec, ApprovalIsOneShot, Request!Spec
=============================================================================
