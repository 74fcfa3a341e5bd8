--------------------------- MODULE AutomationGate ---------------------------
(***************************************************************************)
(* The in-process resource gate: one slot that guards mouse, keyboard,     *)
(* browser and the main execution body.                                    *)
(*                                                                         *)
(* A lease is a value in the frame of some call; lease[l] says whose it is *)
(* and which token it carries.  Token 0 marks the reentrant lease that a   *)
(* nested call of the holder gets: it owns nothing.  Every operation runs  *)
(* inside the gate's own mutex, so it is one step.                         *)
(***************************************************************************)
EXTENDS Naturals, FiniteSets

CONSTANTS Owners,    \* execution bodies, manual tool calls
          Leases,    \* the frames that may hold a lease
          NoOwner,
          MaxToken   \* bound of the model: tokens handed out

ASSUME OwnerAssumption == NoOwner \notin Owners
ASSUME TokenAssumption == MaxToken \in Nat

VARIABLES holder,    \* AutomationGate::holder
          nextToken, \* AutomationGate::next_token
          lease      \* the leases alive

vars == <<holder, nextToken, lease>>

Nobody == [owner |-> NoOwner, token |-> 0]

\* What the slot or a lease may contain.
Claims == [owner : Owners \cup {NoOwner}, token : Nat]

Live == {l \in Leases : lease[l].owner # NoOwner}

\* A lease that occupies the slot.
Primary(l) == lease[l].token # 0

\* Mutation: the counter starts at the value reserved for reentrant leases.
InitTokenZero == /\ holder = Nobody
                 /\ nextToken = 0
                 /\ lease = [l \in Leases |-> Nobody]

Init == /\ holder = Nobody
        /\ nextToken = 1
        /\ lease = [l \in Leases |-> Nobody]
-----------------------------------------------------------------------------
IsFree == holder.owner = NoOwner

\* Mutation: the slot is written although another owner holds it.
TryAcquireOverwrites(l, o) ==
  /\ l \notin Live
  /\ nextToken <= MaxToken
  /\ holder.owner # o
  /\ holder' = [owner |-> o, token |-> nextToken]
  /\ lease' = [lease EXCEPT ![l] = [owner |-> o, token |-> nextToken]]
  /\ nextToken' = nextToken + 1

\* try_acquire on a free slot.
TryAcquire(l, o) ==
  /\ l \notin Live
  /\ nextToken <= MaxToken
  /\ IsFree
  /\ holder' = [owner |-> o, token |-> nextToken]
  /\ lease' = [lease EXCEPT ![l] = [owner |-> o, token |-> nextToken]]
  /\ nextToken' = nextToken + 1

\* Mutation: a nested call is let through without comparing owners.
ReenterAnyone(l, o) ==
  /\ l \notin Live
  /\ ~IsFree
  /\ lease' = [lease EXCEPT ![l] = [owner |-> o, token |-> 0]]
  /\ UNCHANGED <<holder, nextToken>>

\* Mutation: the reentrant lease carries the token of the slot.
ReenterWithToken(l, o) ==
  /\ l \notin Live
  /\ holder.owner = o
  /\ lease' = [lease EXCEPT ![l] = holder]
  /\ UNCHANGED <<holder, nextToken>>

\* try_acquire by the owner of the slot.  Any other owner is refused with
\* LeaseBusy, which changes nothing.
Reenter(l, o) ==
  /\ l \notin Live
  /\ holder.owner = o
  /\ lease' = [lease EXCEPT ![l] = [owner |-> o, token |-> 0]]
  /\ UNCHANGED <<holder, nextToken>>

\* A nested lease lives in the frame of a call that the frame of the primary
\* lease awaits, so it is dropped first, on return and on unwinding alike.
Innermost(l) ==
  Primary(l) => \A k \in Live \ {l} : lease[k].owner # lease[l].owner

\* AutomationGate::release frees the slot only for the token it holds: a late
\* release leaves the slot of a newer holder alone.
Release(token) == holder' = IF token = holder.token THEN Nobody ELSE holder

\* AutomationLease::drop.
DropLease(l) ==
  /\ l \in Live
  /\ Innermost(l)
  /\ IF Primary(l) THEN Release(lease[l].token) ELSE UNCHANGED holder
  /\ lease' = [lease EXCEPT ![l] = Nobody]
  /\ UNCHANGED nextToken

Next == \E l \in Leases : \/ \E o \in Owners : TryAcquire(l, o) \/ Reenter(l, o)
                          \/ DropLease(l)

Spec == Init /\ [][Next]_vars
-----------------------------------------------------------------------------
TypeOK == /\ holder \in Claims
          /\ nextToken \in Nat \ {0}
          /\ lease \in [Leases -> Claims]

\* Whoever works under a lease, nested calls included, works for one and the
\* same owner: the machine is never driven by two at a time.
OneOwner == \A k, l \in Live : lease[k].owner = lease[l].owner

\* The slot is taken exactly as long as the one lease that carries its token
\* lives: no drop leaks the slot or frees it early, and the branch of release
\* for late tokens has nothing to catch.
SlotMatchesLease ==
  /\ \A l \in Live : Primary(l) => lease[l] = holder
  /\ ~IsFree => \E l \in Live : Primary(l) /\ \A k \in Live : Primary(k) => k = l

\* The gate is the abstract single slot: an owner takes it when it is free, and
\* it becomes free again before another owner has it.
Slot == INSTANCE SingleSlot WITH Holders <- Owners, Free <- NoOwner,
                                 slot <- holder.owner
GateIsSlot == Slot!Spec
=============================================================================
