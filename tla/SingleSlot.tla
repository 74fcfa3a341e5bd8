----------------------------- MODULE SingleSlot -----------------------------
(***************************************************************************)
(* What every mutual-exclusion mechanism of the program promises: one slot *)
(* that is either free or held by one holder, and that only ever goes from *)
(* free to held and from held to free.  A slot is never handed over from   *)
(* one holder to another, and a holder never loses it to somebody else.    *)
(* The resource gate, the execution body and the lease table are shown to  *)
(* implement it.                                                           *)
(***************************************************************************)
CONSTANTS Holders, Free

VARIABLE slot

Init == slot = Free

Take == /\ slot = Free
        /\ slot' \in Holders

GiveUp == /\ slot \in Holders
          /\ slot' = Free

Next == Take \/ GiveUp

Spec == Init /\ [][Next]_slot
=============================================================================
