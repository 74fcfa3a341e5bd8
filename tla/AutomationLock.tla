--------------------------- MODULE AutomationLock ---------------------------
(***************************************************************************)
(* The lock file that keeps two programs from driving the same desktop:    *)
(* every direct desktop_* or browser_* call of this program, and every     *)
(* call of an nuphus-mcp process, acquires it for the time of one tool     *)
(* call.  A caller is one such call after another; a crashed one stays     *)
(* dead.                                                                   *)
(*                                                                         *)
(* A record of the lock file is its token and whether expires_at is still  *)
(* ahead.  file is the record at the lock's path, aside[c] the record that *)
(* caller c renamed to a scratch path of its own, which nobody else looks  *)
(* at.  A step is one call of the file system: hard_link publishes only    *)
(* where no file is, rename captures whatever is there and replaces        *)
(* whatever is at its target.                                              *)
(***************************************************************************)
EXTENDS Naturals, FiniteSets

CONSTANTS Callers,
          MaxTries,  \* attempts of one acquire
          MaxToken,  \* bound of the model: successful acquisitions
          Faults     \* crashes, file system errors and stalled threads happen

ASSUME TryAssumption == MaxTries \in Nat \ {0}
ASSUME TokenAssumption == MaxToken \in Nat
ASSUME FaultAssumption == Faults \in BOOLEAN

VARIABLES file, aside,
          token,      \* the token of a caller's guard, 0 without one
          heartbeat,  \* the thread that renews the record
          tries,      \* attempts the running acquire has begun, 0 outside one
          nextToken,
          pc,
          moved,      \* history: records that were taken or replaced by a
                      \* caller other than their own, while live or in use
          left        \* history: records at the path when the release of their
                      \* own call gave up on them

disk == <<file, aside, moved, left>>
vars == <<disk, token, heartbeat, tries, nextToken, pc>>

Absent == [token |-> 0, live |-> FALSE]

Records == [token : Nat, live : BOOLEAN]

Points == {"idle", "publish", "inspect", "capture", "verify", "hold",
           "release", "releaseVerify", "dead"}

\* The guard exists and its record should be at the path.
AtWork(c) == pc[c] \in {"hold", "release"}

Init == /\ file = Absent
        /\ aside = [c \in Callers |-> Absent]
        /\ token = [c \in Callers |-> 0]
        /\ heartbeat = [c \in Callers |-> "off"]
        /\ tries = [c \in Callers |-> 0]
        /\ nextToken = 1
        /\ pc = [c \in Callers |-> "idle"]
        /\ moved = {}
        /\ left = {}
-----------------------------------------------------------------------------
Go(c, from, to) == /\ pc[c] = from
                   /\ pc' = [pc EXCEPT ![c] = to]

\* What is lost when c takes or replaces the record at the path.
Loss(c) == IF /\ file.token \notin {0, token[c]}
              /\ file.live \/ \E h \in Callers : AtWork(h) /\ token[h] = file.token
           THEN {file.token}
           ELSE {}

\* rename(path, scratch).
TakeAside(c) == /\ file # Absent
                /\ aside' = [aside EXCEPT ![c] = file]
                /\ file' = Absent
                /\ moved' = moved \cup Loss(c)
                /\ UNCHANGED left

\* rename(scratch, path): what is at the path is replaced.
PutInPlace(c, r) == /\ file' = r
                    /\ moved' = IF r.token = file.token
                                THEN moved ELSE moved \cup Loss(c)

\* remove_file(scratch), or a scratch file left behind.
Discard(c) == /\ aside' = [aside EXCEPT ![c] = Absent]
              /\ UNCHANGED <<file, moved, left>>

PutBack(c) == /\ PutInPlace(c, aside[c])
              /\ aside' = [aside EXCEPT ![c] = Absent]
-----------------------------------------------------------------------------
(***************************************************************************)
(* acquire: up to three attempts to publish, with a look at the holder.    *)
(***************************************************************************)
Acquire(c) ==
  /\ Go(c, "idle", "publish")
  /\ tries' = [tries EXCEPT ![c] = 1]
  /\ UNCHANGED <<disk, token, heartbeat, nextToken>>

\* Mutation: AlreadyExists is reported as success.
PublishRegardless(c) ==
  /\ nextToken <= MaxToken
  /\ Go(c, "publish", "hold")
  /\ file' = IF file = Absent THEN [token |-> nextToken, live |-> TRUE] ELSE file
  /\ token' = [token EXCEPT ![c] = nextToken]
  /\ heartbeat' = [heartbeat EXCEPT ![c] = "on"]
  /\ nextToken' = nextToken + 1
  /\ tries' = [tries EXCEPT ![c] = 0]
  /\ UNCHANGED <<aside, moved, left>>

\* publish_new: hard_link succeeds where there is no file, and the guard
\* starts its heartbeat.
Publish(c) ==
  /\ nextToken <= MaxToken
  /\ file = Absent
  /\ Go(c, "publish", "hold")
  /\ file' = [token |-> nextToken, live |-> TRUE]
  /\ token' = [token EXCEPT ![c] = nextToken]
  /\ heartbeat' = [heartbeat EXCEPT ![c] = "on"]
  /\ nextToken' = nextToken + 1
  /\ tries' = [tries EXCEPT ![c] = 0]
  /\ UNCHANGED <<aside, moved, left>>

PublishExists(c) ==
  /\ file # Absent
  /\ Go(c, "publish", "inspect")
  /\ UNCHANGED <<disk, token, heartbeat, tries, nextToken>>

PublishFails(c) ==
  /\ Faults
  /\ Go(c, "publish", "idle")
  /\ tries' = [tries EXCEPT ![c] = 0]
  /\ UNCHANGED <<disk, token, heartbeat, nextToken>>

\* A live record is a busy answer.  A stale one, and equally a file that is no
\* longer there or cannot be read, is reclaimed.
Inspect(c) ==
  /\ \/ /\ file.live
        /\ Go(c, "inspect", "idle")
        /\ tries' = [tries EXCEPT ![c] = 0]
     \/ /\ ~file.live \/ Faults
        /\ Go(c, "inspect", "capture")
        /\ UNCHANGED tries
  /\ UNCHANGED <<disk, token, heartbeat, nextToken>>

\* Mutation: one attempt too many.
RetryOnceMore(c, from) ==
  /\ Go(c, from, IF tries[c] <= MaxTries THEN "publish" ELSE "idle")
  /\ tries' = [tries EXCEPT ![c] = IF tries[c] <= MaxTries THEN @ + 1 ELSE 0]
  /\ UNCHANGED <<token, heartbeat, nextToken>>

\* The next attempt, or the contention error.
Retry(c, from) ==
  /\ Go(c, from, IF tries[c] < MaxTries THEN "publish" ELSE "idle")
  /\ tries' = [tries EXCEPT ![c] = IF tries[c] < MaxTries THEN @ + 1 ELSE 0]
  /\ UNCHANGED <<token, heartbeat, nextToken>>

\* reclaim_stale: capture first ...
Capture(c) ==
  /\ Go(c, "capture", "verify")
  /\ TakeAside(c)
  /\ UNCHANGED <<token, heartbeat, tries, nextToken>>

\* The rename fails: another caller took the file, or an error.
CaptureGone(c) ==
  /\ file = Absent \/ Faults
  /\ Retry(c, "capture")
  /\ UNCHANGED disk

\* ... then look at what was captured: a stale record is removed, a live one
\* goes back.
Verify(c) ==
  /\ Retry(c, "verify")
  /\ \/ ~aside[c].live /\ Discard(c)
     \/ aside[c].live  /\ PutBack(c) /\ UNCHANGED left
     \/ Faults         /\ Discard(c)

AcquireStep(c) == \/ Publish(c) \/ PublishExists(c) \/ PublishFails(c)
                  \/ Inspect(c) \/ Capture(c) \/ CaptureGone(c) \/ Verify(c)
-----------------------------------------------------------------------------
(***************************************************************************)
(* LockGuard: the heartbeat, and the release on drop.                      *)
(***************************************************************************)
\* renew reads the record: only the holder's own is renewed, stale or not; a
\* foreign record, none, or one that cannot be read ends the heartbeat.
RenewRead(c) ==
  /\ heartbeat[c] = "on"
  /\ \E h \in {"write", "off"} :
       /\ h = "write" => file.token = token[c]
       /\ h = "off"   => file.token # token[c] \/ Faults
       /\ heartbeat' = [heartbeat EXCEPT ![c] = h]
  /\ UNCHANGED <<disk, token, tries, nextToken, pc>>

\* The rename of the new record does not look at what it replaces.
RenewWrite(c) ==
  /\ heartbeat[c] = "write"
  /\ PutInPlace(c, [token |-> token[c], live |-> TRUE])
  /\ heartbeat' = [heartbeat EXCEPT ![c] = "on"]
  /\ UNCHANGED <<aside, left, token, tries, nextToken, pc>>

\* A temporary file that cannot be written is tried again at the next beat; a
\* failed rename ends the heartbeat.
RenewFails(c) ==
  /\ Faults
  /\ heartbeat[c] = "write"
  /\ \E h \in {"on", "off"} : heartbeat' = [heartbeat EXCEPT ![c] = h]
  /\ UNCHANGED <<disk, token, tries, nextToken, pc>>

\* Mutation: drop does not wait for the renewal that is under way.
DropWithoutJoin(c) ==
  /\ Go(c, "hold", "release")
  /\ UNCHANGED <<disk, token, heartbeat, tries, nextToken>>

\* The tool call is over: drop stops the heartbeat and joins its thread.
Drop(c) ==
  /\ heartbeat[c] # "write"
  /\ Go(c, "hold", "release")
  /\ heartbeat' = [heartbeat EXCEPT ![c] = "off"]
  /\ UNCHANGED <<disk, token, tries, nextToken>>

\* release_owned: capture whatever is at the path ...
ReleaseCapture(c) ==
  /\ Go(c, "release", "releaseVerify")
  /\ TakeAside(c)
  /\ UNCHANGED <<token, heartbeat, tries, nextToken>>

\* A rename that fails ends the release, whatever is at the path: the file is
\* gone, or an error left the caller's own record there.
ReleaseGone(c) ==
  /\ file = Absent \/ Faults
  /\ Go(c, "release", "idle")
  /\ left' = IF file.token = token[c] THEN left \cup {token[c]} ELSE left
  /\ token' = [token EXCEPT ![c] = 0]
  /\ UNCHANGED <<file, aside, moved, heartbeat, tries, nextToken>>

\* release_owned cannot read its caller's own record, so it puts it back.
PutBackUnread(c) == /\ Faults
                    /\ pc[c] = "releaseVerify"
                    /\ aside[c].token = token[c]
                    /\ PutBack(c)
                    /\ left' = left \cup {token[c]}

\* Mutation: the captured record is put back unless it is stale.
ReleaseVerifyByAge(c) ==
  /\ Go(c, "releaseVerify", "idle")
  /\ \/ ~aside[c].live /\ Discard(c)
     \/ aside[c].live  /\ PutBack(c) /\ UNCHANGED left
  /\ token' = [token EXCEPT ![c] = 0]
  /\ UNCHANGED <<heartbeat, tries, nextToken>>

\* ... remove it if it is one's own; a foreign record goes back, and so does a
\* record that cannot be read, one's own included, over whatever was published
\* meanwhile; if the put-back fails the record is removed all the same.
ReleaseVerify(c) ==
  /\ Go(c, "releaseVerify", "idle")
  /\ \/ aside[c].token = token[c] /\ Discard(c)
     \/ aside[c].token # token[c] /\ PutBack(c) /\ UNCHANGED left
     \/ Faults                    /\ Discard(c)
     \/ PutBackUnread(c)
  /\ token' = [token EXCEPT ![c] = 0]
  /\ UNCHANGED <<heartbeat, tries, nextToken>>

GuardStep(c) == \/ RenewRead(c) \/ RenewWrite(c) \/ RenewFails(c) \/ Drop(c)
                \/ ReleaseCapture(c) \/ ReleaseGone(c) \/ ReleaseVerify(c)
-----------------------------------------------------------------------------
(***************************************************************************)
(* Time and crashes.                                                       *)
(***************************************************************************)
\* The heartbeat, which beats three times per TTL, keeps a record from expiring
\* unless its thread is stalled; a drop takes less than what is left of the TTL.
MayExpire(r) ==
  /\ r.live
  /\ Faults \/ \A h \in Callers : heartbeat[h] # "off" \/ pc[h] = "release"
                                   => token[h] # r.token

Expired(r) == [token |-> r.token, live |-> FALSE]

Expire ==
  /\ MayExpire(file)
  /\ file' = Expired(file)
  /\ UNCHANGED <<aside, moved, left, token, heartbeat, tries, nextToken, pc>>

ExpireAside(c) ==
  /\ MayExpire(aside[c])
  /\ aside' = [aside EXCEPT ![c] = Expired(@)]
  /\ UNCHANGED <<file, moved, left, token, heartbeat, tries, nextToken, pc>>

\* A scratch file outlives its process, but nobody reads it again.
Crash(c) ==
  /\ Faults
  /\ pc[c] \notin {"idle", "dead"}
  /\ pc' = [pc EXCEPT ![c] = "dead"]
  /\ heartbeat' = [heartbeat EXCEPT ![c] = "off"]
  /\ tries' = [tries EXCEPT ![c] = 0]
  /\ Discard(c)
  /\ UNCHANGED <<token, nextToken>>

Next == \/ \E c \in Callers : \/ Acquire(c) \/ AcquireStep(c) \/ GuardStep(c)
                              \/ ExpireAside(c) \/ Crash(c)
        \/ Expire

Spec == Init /\ [][Next]_vars
-----------------------------------------------------------------------------
TypeOK ==
  /\ file \in Records
  /\ aside \in [Callers -> Records]
  /\ token \in [Callers -> Nat]
  /\ heartbeat \in [Callers -> {"off", "on", "write"}]
  /\ tries \in [Callers -> 0 .. MaxTries]
  /\ nextToken \in Nat \ {0}
  /\ pc \in [Callers -> Points]
  /\ moved \subseteq Nat
  /\ left \subseteq Nat

Holders == {c \in Callers : pc[c] = "hold"}

\* What the module promises (automation_lock.rs:3-4): at any time at most one
\* agent executes automation operations.
MutualExclusion == \A a, b \in Holders : a = b

\* Two calls drive the desktop at once only if the record of one of them had been
\* taken from the path, or replaced there, behind its back: publishing, renewing
\* and releasing never break the exclusion by themselves, with crashes, stalls
\* and file system errors at any point.
ExclusionUnlessMoved ==
  \A a, b \in Holders : a # b => {token[a], token[b]} \cap moved # {}

\* The first record to be lost that way is lost to reclaim_stale, which acts on a
\* verdict that is out of date, or to a release that could not read its caller's
\* own record and puts it back over the next holder's.  A late drop, a renewal
\* under way and the put-back of a foreign record do no harm unless that has
\* happened before.
FirstLossIsReclaimOrUnread ==
  [][moved = {} /\ moved' # {}
       => \E c \in Callers :
            \/ pc[c] = "capture" /\ pc'[c] = "verify"
            \/ /\ pc[c] = "releaseVerify" /\ pc'[c] = "idle"
               /\ aside[c].token = token[c] /\ token[c] \in left']_vars

\* A finished call leaves no lock behind: the record at the path belongs to a call
\* that still works or crashed, unless somebody had captured it meanwhile or the
\* call's own release had failed on it.
LockNotLeftBehind ==
  file.token \in {0} \cup moved \cup left \cup {token[c] : c \in Callers}
=============================================================================
