------------------------ MODULE AutomationLockProofs ------------------------
(***************************************************************************)
(* Theorems about AutomationLock, for any number of callers, any bound on  *)
(* attempts and acquisitions, and with or without faults.                  *)
(*                                                                         *)
(* The argument follows the records: a caller at work finds its own record *)
(* at the path unless that record is in moved; a record set aside is in    *)
(* moved too, unless its capturer owns it, its owner is dead or its own    *)
(* release failed on it.                                                   *)
(*                                                                         *)
(* The last theorem says what a capture would have to find for the lock to *)
(* exclude without that exception.                                         *)
(***************************************************************************)
EXTENDS AutomationLock, TLAPS

\* Tokens are drawn from the counter and shared by no two guards.
TokenInv ==
  /\ \A c \in Callers : /\ token[c] < nextToken
                        /\ aside[c].token < nextToken
                        /\ aside[c].token = 0 => ~aside[c].live
  /\ file.token < nextToken
  /\ file.token = 0 => file = Absent
  /\ \A c, d \in Callers : token[c] = token[d] => c = d \/ token[c] = 0
  /\ \A t \in left : t > 0 /\ t < nextToken /\ \A c \in Callers : token[c] # t

\* Which callers have a guard, and whose heartbeat may run.
GuardInv ==
  \A c \in Callers :
    /\ AtWork(c) \/ pc[c] = "releaseVerify" => token[c] # 0
    /\ pc[c] \in {"idle", "publish", "inspect", "capture", "verify"} => token[c] = 0
    /\ heartbeat[c] # "off" => pc[c] = "hold"
    /\ pc[c] \notin {"verify", "releaseVerify"} => aside[c] = Absent

\* Where the records are.
FileInv ==
  \A c \in Callers :
    /\ AtWork(c) /\ token[c] \notin moved => file.token = token[c]
    /\ pc[c] = "releaseVerify" /\ file.token = token[c] => token[c] \in moved

AsideInv ==
  \A c \in Callers :
    /\ pc[c] = "verify" /\ aside[c].live => aside[c].token \in moved
    /\ pc[c] = "releaseVerify" /\ token[c] \notin moved
         => aside[c].token = token[c]
    /\ aside[c].token # 0
         => \/ aside[c].token \in moved
            \/ pc[c] = "releaseVerify" /\ aside[c].token = token[c]
            \/ \E d \in Callers : pc[d] = "dead" /\ token[d] = aside[c].token
            \/ aside[c].token \in left

IInv == TypeOK /\ TokenInv /\ GuardInv /\ FileInv /\ AsideInv
        /\ LockNotLeftBehind

\* Every step keeps the invariant.  Those of an acquire that only look at the
\* disk (<2>1) are treated together.
LEMMA Invariance == Spec => []IInv
<1>. USE TryAssumption, TokenAssumption, FaultAssumption
<1>1. Init => IInv
  BY DEF Init, IInv, TypeOK, TokenInv, GuardInv, FileInv, AsideInv,
         LockNotLeftBehind, Absent, Records, Points, AtWork
<1>2. IInv /\ [Next]_vars => IInv'
  <2>. SUFFICES ASSUME IInv, [Next]_vars PROVE IInv'
    OBVIOUS
  <2>. USE DEF IInv, TypeOK, TokenInv, GuardInv, FileInv, AsideInv,
               LockNotLeftBehind, Absent, Records, Points, AtWork, disk
  <2>1. ASSUME NEW c \in Callers,
               NEW p \in {"idle", "publish", "inspect", "capture"},
               pc[c] \in {"idle", "publish", "inspect", "capture"},
               pc' = [pc EXCEPT ![c] = p],
               tries' \in [Callers -> 0 .. MaxTries],
               UNCHANGED <<disk, token, heartbeat, nextToken>>
        PROVE  IInv'
    <3>1. TypeOK'
      BY <2>1
    <3>2. TokenInv'
      BY <2>1
    <3>3. GuardInv'
      BY <2>1
    <3>4. FileInv'
      BY <2>1
    <3>5. AsideInv'
      BY <2>1
    <3>6. LockNotLeftBehind'
      BY <2>1
    <3>. QED BY <3>1, <3>2, <3>3, <3>4, <3>5, <3>6
  <2>2. ASSUME NEW c \in Callers,
               \/ Acquire(c) \/ PublishExists(c) \/ PublishFails(c)
               \/ Inspect(c) \/ CaptureGone(c)
        PROVE  IInv'
    <3>1. PICK p \in {"idle", "publish", "inspect", "capture"} :
            pc' = [pc EXCEPT ![c] = p]
      BY <2>2 DEF Acquire, PublishExists, PublishFails, Inspect, CaptureGone,
                  Retry, Go
    <3>2. pc[c] \in {"idle", "publish", "inspect", "capture"}
      BY <2>2 DEF Acquire, PublishExists, PublishFails, Inspect, CaptureGone,
                  Retry, Go
    <3>3. tries' \in [Callers -> 0 .. MaxTries]
      BY <2>2 DEF Acquire, PublishExists, PublishFails, Inspect, CaptureGone, Retry
    <3>4. UNCHANGED <<disk, token, heartbeat, nextToken>>
      BY <2>2 DEF Acquire, PublishExists, PublishFails, Inspect, CaptureGone, Retry
    <3>. QED BY <2>1, <3>1, <3>2, <3>3, <3>4
  <2>3. ASSUME NEW c \in Callers, Publish(c) PROVE IInv'
    <3>1. TypeOK'
      BY <2>3 DEF Publish, Go
    <3>2. TokenInv'
      BY <2>3 DEF Publish, Go
    <3>3. GuardInv' /\ LockNotLeftBehind'
      BY <2>3 DEF Publish, Go
    <3>4. FileInv' /\ AsideInv'
      BY <2>3 DEF Publish, Go
    <3>. QED BY <3>1, <3>2, <3>3, <3>4
  <2>4. ASSUME NEW c \in Callers, Capture(c) PROVE IInv'
    <3>1. TypeOK'
      BY <2>4 DEF Capture, Go, TakeAside, Loss
    <3>2. TokenInv'
      BY <2>4 DEF Capture, Go, TakeAside, Loss
    <3>3. GuardInv'
      BY <2>4 DEF Capture, Go, TakeAside, Loss
    <3>4. FileInv'
      BY <2>4 DEF Capture, Go, TakeAside, Loss
    <3>5. AsideInv'
      BY <2>4 DEF Capture, Go, TakeAside, Loss
    <3>6. LockNotLeftBehind'
      BY <2>4 DEF Capture, Go, TakeAside, Loss
    <3>. QED BY <3>1, <3>2, <3>3, <3>4, <3>5, <3>6
  <2>5. ASSUME NEW c \in Callers, Verify(c) PROVE IInv'
    <3>1. aside' = [aside EXCEPT ![c] = Absent]
      BY <2>5 DEF Verify, Discard, PutBack
    <3>2. /\ file' \in {file, aside[c]} /\ moved' \subseteq moved \cup {file.token}
          /\ UNCHANGED <<left, token, heartbeat, nextToken>>
      BY <2>5 DEF Verify, Retry, Discard, PutBack, PutInPlace, Loss
    <3>3. TypeOK'
      BY <2>5, <3>1, <3>2 DEF Verify, Retry, Go
    <3>4. TokenInv'
      BY <3>1, <3>2
    <3>5. GuardInv'
      BY <2>5, <3>1 DEF Verify, Retry, Go
    <3>6. FileInv'
      BY <2>5 DEF Verify, Retry, Go, Discard, PutBack, PutInPlace, Loss
    <3>7. AsideInv'
      BY <2>5 DEF Verify, Retry, Go, Discard, PutBack, PutInPlace, Loss
    <3>8. LockNotLeftBehind'
      BY <2>5 DEF Verify, Retry, Go, Discard, PutBack, PutInPlace, Loss
    <3>. QED BY <3>3, <3>4, <3>5, <3>6, <3>7, <3>8
  <2>6. ASSUME NEW c \in Callers, RenewRead(c) PROVE IInv'
    BY <2>6 DEF RenewRead
  <2>7. ASSUME NEW c \in Callers, RenewWrite(c) PROVE IInv'
    <3>1. TypeOK'
      BY <2>7 DEF RenewWrite, PutInPlace, Loss
    <3>2. TokenInv'
      BY <2>7 DEF RenewWrite, PutInPlace, Loss
    <3>3. GuardInv'
      BY <2>7 DEF RenewWrite, PutInPlace, Loss
    <3>4. FileInv'
      BY <2>7 DEF RenewWrite, PutInPlace, Loss
    <3>5. AsideInv'
      BY <2>7 DEF RenewWrite, PutInPlace, Loss
    <3>6. LockNotLeftBehind'
      BY <2>7 DEF RenewWrite, PutInPlace, Loss
    <3>. QED BY <3>1, <3>2, <3>3, <3>4, <3>5, <3>6
  <2>8. ASSUME NEW c \in Callers, RenewFails(c) PROVE IInv'
    BY <2>8 DEF RenewFails
  <2>9. ASSUME NEW c \in Callers, Drop(c) PROVE IInv'
    <3>1. TypeOK' /\ TokenInv' /\ GuardInv'
      BY <2>9 DEF Drop, Go
    <3>2. FileInv' /\ LockNotLeftBehind'
      BY <2>9 DEF Drop, Go
    <3>3. AsideInv'
      BY <2>9 DEF Drop, Go
    <3>. QED BY <3>1, <3>2, <3>3
  <2>10. ASSUME NEW c \in Callers, ReleaseCapture(c) PROVE IInv'
    <3>1. TypeOK'
      BY <2>10 DEF ReleaseCapture, Go, TakeAside, Loss
    <3>2. TokenInv'
      BY <2>10 DEF ReleaseCapture, Go, TakeAside, Loss
    <3>3. GuardInv'
      BY <2>10 DEF ReleaseCapture, Go, TakeAside, Loss
    <3>4. FileInv'
      BY <2>10 DEF ReleaseCapture, Go, TakeAside, Loss
    <3>5. AsideInv'
      BY <2>10 DEF ReleaseCapture, Go, TakeAside, Loss
    <3>6. LockNotLeftBehind'
      BY <2>10 DEF ReleaseCapture, Go, TakeAside, Loss
    <3>. QED BY <3>1, <3>2, <3>3, <3>4, <3>5, <3>6
  <2>11. ASSUME NEW c \in Callers, ReleaseGone(c) PROVE IInv'
    <3>7. /\ left' \subseteq left \cup {token[c]} /\ token[c] \in Nat
          /\ UNCHANGED <<file, aside, moved, heartbeat, tries, nextToken>>
      BY <2>11 DEF ReleaseGone
    <3>8. pc' \in [Callers -> Points] /\ token' \in [Callers -> Nat]
      BY <2>11 DEF ReleaseGone, Go
    <3>1. TypeOK'
      BY <3>7, <3>8
    <3>2. TokenInv'
      BY <2>11 DEF ReleaseGone, Go
    <3>3. GuardInv'
      BY <2>11 DEF ReleaseGone, Go
    <3>4. FileInv'
      BY <2>11 DEF ReleaseGone, Go
    <3>5. AsideInv'
      BY <2>11 DEF ReleaseGone, Go
    <3>6. LockNotLeftBehind'
      BY <2>11 DEF ReleaseGone, Go
    <3>. QED BY <3>1, <3>2, <3>3, <3>4, <3>5, <3>6
  <2>12. ASSUME NEW c \in Callers, ReleaseVerify(c) PROVE IInv'
    <3>1. aside' = [aside EXCEPT ![c] = Absent]
      BY <2>12 DEF ReleaseVerify, PutBackUnread, Discard, PutBack
    <3>2. /\ file' \in {file, aside[c]} /\ moved' \subseteq moved \cup {file.token}
      BY <2>12 DEF ReleaseVerify, PutBackUnread, Discard, PutBack, PutInPlace, Loss
    <3>10. /\ pc' = [pc EXCEPT ![c] = "idle"]
           /\ token' = [token EXCEPT ![c] = 0]
           /\ pc[c] = "releaseVerify"
           /\ UNCHANGED <<heartbeat, nextToken>>
           /\ moved \subseteq moved' /\ left \subseteq left'
           /\ \/ UNCHANGED file
              \/ /\ file' = aside[c]
                 /\ file.token # aside[c].token => moved' = moved \cup Loss(c)
      BY <2>12 DEF ReleaseVerify, PutBackUnread, Go, Discard, PutBack, PutInPlace
    <3>9. left' \subseteq left \cup {token[c]}
      BY <2>12 DEF ReleaseVerify, PutBackUnread, Discard
    <3>3. TypeOK'
      BY <2>12, <3>1, <3>2, <3>9 DEF ReleaseVerify, Go
    <3>4. TokenInv'
      <4>1. token[c] > 0 /\ token[c] < nextToken
        BY <3>10
      <4>2. \A d \in Callers : token'[d] = IF d = c THEN 0 ELSE token[d]
        BY <3>10
      <4>3. \A d \in Callers : d # c => token[d] # token[c]
        BY <4>1
      <4>4. ASSUME NEW t \in left'
            PROVE  /\ t > 0 /\ t < nextToken'
                   /\ \A d \in Callers : token'[d] # t
        <5>1. CASE t = token[c]
          BY <3>10, <4>1, <4>2, <4>3, <5>1
        <5>2. CASE t # token[c]
          <6>1. t \in left
            BY <3>9, <5>2
          <6>2. /\ t \in Nat /\ t > 0 /\ t < nextToken
                /\ \A d \in Callers : token[d] # t
            BY <6>1
          <6>. QED BY <3>10, <4>2, <6>2
        <5>. QED BY <5>1, <5>2
      <4>. QED BY <3>1, <3>2, <3>10, <4>4
    <3>5. GuardInv'
      BY <2>12, <3>1 DEF ReleaseVerify, Go
    <3>6. FileInv'
      <4>1. ASSUME NEW d \in Callers, AtWork(d)', token'[d] \notin moved'
            PROVE  file'.token = token'[d]
        BY <3>10, <4>1 DEF Loss
      <4>2. ASSUME NEW d \in Callers, pc'[d] = "releaseVerify",
                   file'.token = token'[d]
            PROVE  token'[d] \in moved'
        BY <3>10, <4>2
      <4>. QED BY <4>1, <4>2
    <3>7. AsideInv'
      BY <3>1, <3>10
    <3>8. LockNotLeftBehind'
      BY <2>12 DEF ReleaseVerify, PutBackUnread, Go, Discard, PutBack,
                   PutInPlace, Loss
    <3>. QED BY <3>3, <3>4, <3>5, <3>6, <3>7, <3>8
  <2>13. ASSUME NEW c \in Callers, ExpireAside(c) PROVE IInv'
    <3>1. /\ aside[c].live
          /\ aside' = [aside EXCEPT ![c] = Expired(aside[c])]
          /\ UNCHANGED <<file, moved, left, token, heartbeat, tries, nextToken, pc>>
      BY <2>13 DEF ExpireAside, MayExpire
    <3>2. pc[c] \in {"verify", "releaseVerify"}
      BY <3>1
    <3>3. \A d \in Callers : d # c => aside'[d] = aside[d]
      BY <3>1
    <3>4. TypeOK'
      BY <3>1 DEF Expired
    <3>5. TokenInv'
      BY <3>1 DEF Expired
    <3>6. GuardInv'
      <4>. SUFFICES ASSUME NEW d \in Callers,
                           pc[d] \notin {"verify", "releaseVerify"}
                    PROVE  aside'[d] = Absent
        BY <3>1
      <4>. QED BY <3>2, <3>3
    <3>7. FileInv' /\ LockNotLeftBehind'
      BY <3>1
    <3>8. AsideInv'
      BY <3>1 DEF Expired
    <3>. QED BY <3>4, <3>5, <3>6, <3>7, <3>8
  <2>14. ASSUME NEW c \in Callers, Crash(c) PROVE IInv'
    BY <2>14 DEF Crash, Discard
  <2>15. CASE Expire
    <3>1. /\ file.live /\ file' = Expired(file)
          /\ UNCHANGED <<aside, moved, left, token, heartbeat, tries, nextToken, pc>>
      BY <2>15 DEF Expire, MayExpire
    <3>2. TypeOK' /\ TokenInv'
      BY <3>1 DEF Expired
    <3>3. GuardInv' /\ AsideInv'
      BY <3>1
    <3>4. FileInv' /\ LockNotLeftBehind'
      BY <3>1 DEF Expired
    <3>. QED BY <3>2, <3>3, <3>4
  <2>16. CASE UNCHANGED vars
    BY <2>16 DEF vars
  <2>. QED
    BY <2>2, <2>3, <2>4, <2>5, <2>6, <2>7, <2>8, <2>9, <2>10, <2>11,
       <2>12, <2>13, <2>14, <2>15, <2>16
       DEF Next, AcquireStep, GuardStep
<1>. QED BY <1>1, <1>2, PTL DEF Spec

\* The state and the history keep their types, for every bound.
THEOREM TypeCorrect == Spec => []TypeOK
<1>1. IInv => TypeOK
  BY DEF IInv
<1>. QED BY <1>1, Invariance, PTL

\* Exclusion can only be broken through a record that another caller took away
\* or replaced: two holders that both still have theirs would share the path.
THEOREM ExclusionHolds == Spec => []ExclusionUnlessMoved
<1>1. IInv => ExclusionUnlessMoved
  BY DEF IInv, TokenInv, GuardInv, FileInv, ExclusionUnlessMoved, Holders, AtWork
<1>. QED BY <1>1, Invariance, PTL

\* A record found at the path has an owner that will answer for it, unless it
\* had been captured by somebody else.
THEOREM RecordHasOwner == Spec => []LockNotLeftBehind
<1>1. IInv => LockNotLeftBehind
  BY DEF IInv
<1>. QED BY <1>1, Invariance, PTL

\* The first record to be lost is lost in a capture, or to a release that puts
\* its caller's own record back.
LEMMA FirstLossCause ==
  ASSUME IInv, [Next]_vars, moved = {}, moved' # {}
  PROVE  \E c \in Callers : Capture(c) \/ (ReleaseVerify(c) /\ PutBackUnread(c))
<1>. USE DEF IInv, disk
<1>1. ASSUME NEW c \in Callers, Verify(c) PROVE FALSE
  <2>1. aside[c].live => aside[c].token \in moved
    BY <1>1 DEF Verify, Retry, Go, AsideInv
  <2>. QED BY <1>1, <2>1 DEF Verify, Discard
<1>2. ASSUME NEW c \in Callers, RenewWrite(c) PROVE FALSE
  <2>1. file.token = token[c]
    BY <1>2 DEF RenewWrite, GuardInv, FileInv, AtWork
  <2>. QED BY <1>2, <2>1 DEF RenewWrite, PutInPlace
<1>3. ASSUME NEW c \in Callers, ReleaseCapture(c) PROVE FALSE
  <2>1. file.token = token[c]
    BY <1>3 DEF ReleaseCapture, Go, FileInv, AtWork
  <2>. QED BY <1>3, <2>1 DEF ReleaseCapture, TakeAside, Loss
<1>4. ASSUME NEW c \in Callers, ReleaseVerify(c) PROVE PutBackUnread(c)
  <2>1. aside[c].token = token[c]
    BY <1>4 DEF ReleaseVerify, Go, AsideInv
  <2>. QED BY <1>4, <2>1 DEF ReleaseVerify, Discard
<1>5. ASSUME NEW c \in Callers,
             \/ Acquire(c) \/ Publish(c) \/ PublishExists(c) \/ PublishFails(c)
             \/ Inspect(c) \/ CaptureGone(c) \/ RenewRead(c) \/ RenewFails(c)
             \/ Drop(c) \/ ReleaseGone(c) \/ ExpireAside(c) \/ Crash(c)
      PROVE  FALSE
  BY <1>5 DEF Acquire, Publish, PublishExists, PublishFails, Inspect,
              CaptureGone, RenewRead, RenewFails, Drop, ReleaseGone,
              ExpireAside, Crash, Discard
<1>6. ~Expire /\ vars' # vars
  BY DEF Expire, vars
<1>7. ASSUME NEW c \in Callers,
             \/ Acquire(c) \/ AcquireStep(c) \/ GuardStep(c)
             \/ ExpireAside(c) \/ Crash(c)
      PROVE  Capture(c) \/ (ReleaseVerify(c) /\ PutBackUnread(c))
  <2>1. ~Verify(c) /\ ~RenewWrite(c) /\ ~ReleaseCapture(c)
    BY <1>1, <1>2, <1>3
  <2>2. Capture(c) \/ ReleaseVerify(c)
    BY <1>5, <1>7, <2>1 DEF AcquireStep, GuardStep
  <2>. QED BY <1>4, <2>2
<1>. QED
  BY <1>6, <1>7 DEF Next

\* The first record lost is lost to reclaim_stale, or to the put-back of an own
\* record that could not be read.
THEOREM ReclaimOrUnreadIsTheCause == Spec => FirstLossIsReclaimOrUnread
<1> DEFINE Cause(c) ==
      \/ pc[c] = "capture" /\ pc'[c] = "verify"
      \/ /\ pc[c] = "releaseVerify" /\ pc'[c] = "idle"
         /\ aside[c].token = token[c] /\ token[c] \in left'
<1>1. ASSUME IInv, NEW c \in Callers, Capture(c) PROVE Cause(c)
  BY <1>1 DEF IInv, TypeOK, Capture, Go
<1>2. ASSUME IInv, NEW c \in Callers, ReleaseVerify(c), PutBackUnread(c)
      PROVE  Cause(c)
  BY <1>2 DEF IInv, TypeOK, ReleaseVerify, PutBackUnread, Go
<1>3. IInv /\ [Next]_vars /\ moved = {} /\ moved' # {}
        => \E c \in Callers : Cause(c)
  BY <1>1, <1>2, FirstLossCause
<1>. QED BY <1>3, Invariance, PTL DEF Spec, FirstLossIsReclaimOrUnread

\* A record nobody would miss: stale, or none, and no call at work answers for it.
Unclaimed(r) == /\ ~r.live
                /\ \A h \in Callers : AtWork(h) => token[h] # r.token

\* What the steps that take or replace the record at the path would have to find
\* there: a reclaim's capture goes by the path, whatever has come there since its
\* verdict, and a call whose heartbeat is stalled works on behind a stale record;
\* a release puts its unread record back over whatever was published since.
TakesOnlyUnclaimed ==
  [][\A c \in Callers : Capture(c) \/ PutBackUnread(c) => Unclaimed(file)]_vars

\* When they do, the module keeps its promise: at most one call holds the lock, for
\* any number of callers, with crashes, failing file operations and retries.
\* Captures are all that the run automation_lock_race breaks.
THEOREM UnclaimedTakesExclude == Spec /\ TakesOnlyUnclaimed => []MutualExclusion
<1> DEFINE NothingLost == moved = {}
<1>1. Init => NothingLost
  BY DEF Init
<1>2. ASSUME IInv, NothingLost, [Next]_vars,
             [\A c \in Callers :
                Capture(c) \/ PutBackUnread(c) => Unclaimed(file)]_vars
      PROVE  NothingLost'
  <2>1. ASSUME NEW c \in Callers, Capture(c), vars' # vars PROVE moved' = {}
    BY <1>2, <2>1 DEF Capture, TakeAside, Loss, Unclaimed
  <2>2. ASSUME NEW c \in Callers, PutBackUnread(c), vars' # vars
        PROVE  moved' = {}
    BY <1>2, <2>2 DEF PutBackUnread, PutBack, PutInPlace, Loss, Unclaimed
  <2>3. CASE UNCHANGED vars
    BY <1>2, <2>3 DEF vars, disk
  <2>. QED  BY <1>2, <2>1, <2>2, <2>3, FirstLossCause
<1>3. IInv /\ NothingLost => MutualExclusion
  BY DEF IInv, TokenInv, GuardInv, FileInv, MutualExclusion, Holders, AtWork
<1>. HIDE DEF NothingLost
<1>. QED BY <1>1, <1>2, <1>3, Invariance, PTL DEF Spec, TakesOnlyUnclaimed
=============================================================================
