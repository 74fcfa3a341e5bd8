------------------------ MODULE AutomationGateProofs ------------------------
(***************************************************************************)
(* Theorems about AutomationGate, for any sets of owners and leases.       *)
(*                                                                         *)
(* The inductive invariant adds to the checked ones what makes tokens      *)
(* unique: every token in use is below the counter, a free slot carries    *)
(* none, and a lease works for the owner of the slot.                      *)
(***************************************************************************)
EXTENDS AutomationGate, TLAPS

\* Every lease alive works for the owner of the slot.
LeasesFollowSlot == \A l \in Live : lease[l].owner = holder.owner

\* Tokens come from the counter, and only a taken slot has one.
TokensCounted == /\ holder.token < nextToken
                 /\ IsFree <=> holder.token = 0
                 /\ \A l \in Leases \ Live : ~Primary(l)

IInv == TypeOK /\ LeasesFollowSlot /\ TokensCounted /\ SlotMatchesLease

\* The initial state, and every operation of the gate, keep the invariant.
LEMMA Invariance == Spec => []IInv
<1>1. Init => IInv
  BY DEF Init, IInv, TypeOK, LeasesFollowSlot, TokensCounted, SlotMatchesLease,
         Nobody, Claims, Live, Primary, IsFree
<1>2. IInv /\ [Next]_vars => IInv'
  <2>. SUFFICES ASSUME IInv, [Next]_vars PROVE IInv'
    OBVIOUS
  <2>. USE OwnerAssumption, TokenAssumption
       DEF IInv, TypeOK, LeasesFollowSlot, TokensCounted, SlotMatchesLease,
           Nobody, Claims, Live, Primary, IsFree
  <2>1. ASSUME NEW l \in Leases, NEW o \in Owners, TryAcquire(l, o)
        PROVE  IInv'
    <3>1. Live = {} /\ holder = Nobody
      BY <2>1 DEF TryAcquire
    <3>2. /\ holder' = [owner |-> o, token |-> nextToken]
          /\ nextToken' = nextToken + 1
          /\ lease' = [lease EXCEPT ![l] = [owner |-> o, token |-> nextToken]]
      BY <2>1 DEF TryAcquire
    <3>3. TypeOK'
      BY <3>2
    <3>4. \A k \in Leases : lease'[k] = IF k = l THEN holder' ELSE Nobody
      BY <3>1, <3>2
    <3>. QED BY <3>2, <3>3, <3>4
  <2>2. ASSUME NEW l \in Leases, NEW o \in Owners, Reenter(l, o)
        PROVE  IInv'
    <3>1. /\ UNCHANGED <<holder, nextToken>> /\ l \notin Live /\ holder.owner = o
          /\ lease' = [lease EXCEPT ![l] = [owner |-> o, token |-> 0]]
      BY <2>2 DEF Reenter
    <3>2. TypeOK'
      BY <3>1
    <3>3. \A k \in Leases : lease'[k] = IF k = l THEN [owner |-> o, token |-> 0]
                                                 ELSE lease[k]
      BY <3>1
    <3>. QED BY <3>1, <3>2, <3>3
  <2>3. ASSUME NEW l \in Leases, DropLease(l)
        PROVE  IInv'
    <3>1. /\ l \in Live /\ Innermost(l) /\ UNCHANGED nextToken
          /\ lease' = [lease EXCEPT ![l] = Nobody]
      BY <2>3 DEF DropLease
    <3>2. \A k \in Leases : lease'[k] = IF k = l THEN Nobody ELSE lease[k]
      BY <3>1
    <3>3. CASE Primary(l)
      <4>1. holder' = Nobody
        BY <2>3, <3>3 DEF DropLease, Release
      <4>2. \A k \in Leases : lease'[k] = Nobody
        BY <3>1, <3>2, <3>3 DEF Innermost
      <4>. QED BY <3>1, <3>2, <4>1, <4>2
    <3>4. CASE ~Primary(l)
      <4>1. UNCHANGED holder
        BY <2>3, <3>4 DEF DropLease
      <4>2. TypeOK'
        BY <3>1, <4>1
      <4>. QED BY <3>1, <3>2, <3>4, <4>1, <4>2
    <3>. QED BY <3>3, <3>4
  <2>4. CASE UNCHANGED vars
    BY <2>4 DEF vars
  <2>. QED BY <2>1, <2>2, <2>3, <2>4 DEF Next
<1>. QED BY <1>1, <1>2, PTL DEF Spec

\* The slot, the leases and the token counter stay in range, and a lease that
\* is not alive carries nothing.
THEOREM TypeCorrect == Spec => []TypeOK
<1>1. IInv => TypeOK
  BY DEF IInv
<1>. QED BY <1>1, Invariance, PTL

\* No two owners ever work under the gate at the same time, whatever nested
\* calls they make and whatever order their leases are asked for in.
THEOREM OwnersExclude == Spec => []OneOwner
<1>1. IInv => OneOwner
  BY DEF IInv, LeasesFollowSlot, OneOwner
<1>. QED BY <1>1, Invariance, PTL

\* The slot lives exactly as long as the lease that carries its token: neither
\* a leak nor an early release is possible.
THEOREM SlotIsNotLeaked == Spec => []SlotMatchesLease
<1>1. IInv => SlotMatchesLease
  BY DEF IInv
<1>. QED BY <1>1, Invariance, PTL

\* The gate implements the single slot that the execution lifecycle takes it for.
THEOREM GateImplementsSlot == Spec => GateIsSlot
<1>1. Init => Slot!Init
  BY DEF Init, Slot!Init, Nobody
<1>2. IInv /\ [Next]_vars => [Slot!Next]_(holder.owner)
  <2>. SUFFICES ASSUME IInv, [Next]_vars, holder'.owner # holder.owner
                PROVE  Slot!Next
    OBVIOUS
  <2>. USE DEF Slot!Next, Slot!Take, Slot!GiveUp
  <2>1. ASSUME NEW l \in Leases, NEW o \in Owners, TryAcquire(l, o)
        PROVE  Slot!Take
    BY <2>1 DEF TryAcquire, IsFree
  <2>2. ASSUME NEW l \in Leases, DropLease(l)
        PROVE  Slot!GiveUp
    BY <2>2 DEF DropLease, Release, Nobody, IInv, TypeOK, Claims
  <2>. QED BY <2>1, <2>2 DEF Next, Reenter, vars
<1>. QED BY <1>1, <1>2, Invariance, PTL DEF Spec, GateIsSlot, Slot!Spec
=============================================================================
