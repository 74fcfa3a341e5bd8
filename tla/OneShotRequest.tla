--------------------------- MODULE OneShotRequest ---------------------------
(***************************************************************************)
(* What the approval of a desktop action promises to the user: a request   *)
(* is put once, one answer to it is accepted at most, the action is taken  *)
(* once and only after a yes, and a stop that comes while the request is   *)
(* open is final, whatever was answered.                                   *)
(* The approval in its parts (records, tickets, channel, flags, deadlines) *)
(* is shown to implement it.                                               *)
(***************************************************************************)
CONSTANT Requests

VARIABLES status,  \* what has become of each request
          stopped  \* the requests that a stop has reached

vars == <<status, stopped>>

Answered == {"yes", "no"}

\* Still before the user, or answered and not yet acted on.
Standing(r) == status[r] \in {"open"} \cup Answered

Becomes(r, s) == status' = [status EXCEPT ![r] = s]

Init == status = [r \in Requests |-> "new"] /\ stopped = {}

Open(r) == /\ status[r] = "new"
           /\ Becomes(r, "open")
           /\ UNCHANGED stopped

Answer(r) == /\ status[r] = "open"
             /\ \E word \in Answered : Becomes(r, word)
             /\ UNCHANGED stopped

Grant(r) == /\ status[r] = "yes" /\ r \notin stopped
            /\ Becomes(r, "granted")
            /\ UNCHANGED stopped

Act(r) == /\ status[r] = "granted"
          /\ Becomes(r, "acted")
          /\ UNCHANGED stopped

\* A request may be given up at any time, and is never put again.
End(r) == Becomes(r, "over") /\ UNCHANGED stopped

Stop == /\ \E set \in SUBSET {r \in Requests : Standing(r)} :
             stopped' = stopped \cup set
        /\ UNCHANGED status

Forget(r) == /\ status[r] = "over"
             /\ stopped' = stopped \ {r}
             /\ UNCHANGED status

Next == \/ \E r \in Requests : \/ Open(r) \/ Answer(r) \/ Grant(r)
                               \/ Act(r) \/ End(r) \/ Forget(r)
        \/ Stop

Spec == Init /\ [][Next]_vars
=============================================================================
