-------------------------- MODULE HudArbiterProofs --------------------------
(***************************************************************************)
(* Theorems about HudArbiter.                                              *)
(*                                                                         *)
(* What the arbiter believes about the screen is sound for every number of *)
(* calls (DisplayCorrect).  That the timer stops is not, as a run shows.   *)
(* TimerStopsWhenPaired says what it takes: the arbiter counts terminal    *)
(* frames, and that is right while no second frame comes before the end    *)
(* that the first one is for.  TimerStopsWhenCalm says which batches of    *)
(* calls are like that.                                                    *)
(***************************************************************************)
EXTENDS HudArbiter, FiniteSetTheorems, WellFoundedInduction, TLAPS

\* Every nonempty set of naturals has a least element.
LEMMA Smallest == ASSUME NEW T, T \subseteq Nat, T # {}
                  PROVE  \E x \in T : \A y \in T : x <= y
<1>. DEFINE R == {ss \in Nat \X Nat : ss[1] < ss[2]}
<1>1. IsWellFoundedOn(R, Nat)
  BY NatLessThanWellFounded, Zenon DEF OpToRel
<1>2. PICK x \in T : \A y \in T : ~(<<y, x>> \in R)
  <2>. HIDE DEF R
  <2>. QED BY <1>1, WFMin
<1>3. ASSUME NEW y \in T PROVE x <= y
  <2>1. ~(<<y, x>> \in R)
    BY <1>2
  <2>2. x \in Nat /\ y \in Nat /\ <<y, x>> \in Nat \X Nat
    OBVIOUS
  <2>3. <<y, x>>[1] = y /\ <<y, x>>[2] = x
    OBVIOUS
  <2>. QED BY <2>1, <2>2, <2>3
<1>. QED BY <1>3

\* The map never has two calls in one place of its order.
RanksDiffer == \A c, d \in Calls : rank[c] = rank[d] => c = d

IInv == TypeOK /\ RanksDiffer /\ DisplayedIsActive

\* ArbiterState::top yields a call of the set: a nonempty set has a least call.
LEMMA TopOfSet ==
  ASSUME N \in Nat, TypeOK, RanksDiffer, NEW S, S \subseteq Calls, S # {}
  PROVE  Top(S) \in S
<1>. DEFINE Best == {c \in S : \A d \in S : Priority(c) <= Priority(d)}
            Places == {rank[c] : c \in Best}
<1>1. \A c \in S : Priority(c) \in {0, 1}
  BY DEF Priority
<1>2. Best # {}
  <2>1. CASE \E c \in S : Priority(c) = 0
    BY <2>1, <1>1
  <2>2. CASE \A c \in S : Priority(c) # 0
    BY <2>2, <1>1
  <2>. QED BY <2>1, <2>2
<1>3. Places \subseteq Nat /\ Places # {}
  <2>1. \A c \in Calls : rank[c] \in Calls
    BY DEF TypeOK, Ranks
  <2>2. Calls \subseteq Nat
    BY DEF Calls
  <2>3. Best \subseteq Calls
    OBVIOUS
  <2>. HIDE DEF Best
  <2>. QED BY <1>2, <2>1, <2>2, <2>3
<1>4. PICK x \in Places : \A y \in Places : x <= y
  BY <1>3, Smallest
<1>5. PICK c \in Best : rank[c] = x
  OBVIOUS
<1>6. \A d \in S \ {c} : Above(c, d)
  <2>. SUFFICES ASSUME NEW d \in S \ {c} PROVE Above(c, d)
    OBVIOUS
  <2>1. CASE Priority(d) = Priority(c)
    <3>1. d \in Best
      BY <2>1, <1>5
    <3>2. rank[c] <= rank[d] /\ rank[c] # rank[d]
      BY <3>1, <1>4, <1>5 DEF RanksDiffer
    <3>. QED BY <2>1, <3>2 DEF Above, TypeOK, Ranks, Calls
  <2>2. CASE Priority(d) # Priority(c)
    BY <2>2, <1>1, <1>5 DEF Above
  <2>. QED BY <2>1, <2>2
<1>. QED BY <1>5, <1>6 DEF Top

\* What each handler keeps: the types, and a display that is registered.
Sound == /\ active \subseteq Calls
         /\ displayed \in Calls \cup {NoCall}
         /\ pendingEnds \in Nat
         /\ screen \in {"blank", "running", "settled"}
         /\ DisplayedIsActive

LEMMA HandlersSound ==
  ASSUME N \in Nat, IInv, NEW c \in Calls, UNCHANGED label,
         \/ OnToolCallStart(c)
         \/ OnRunningHint
         \/ OnHudTerminal
         \/ OnToolCallEnd(c)
         \/ UNCHANGED arbiter
  PROVE  Sound'
<1>. USE DEF IInv, TypeOK, Sound, DisplayedIsActive, SameText
<1>1. CASE OnToolCallStart(c)
  <2>1. CASE OnHud(c)
    <3>1. active \cup {c} \subseteq Calls /\ active \cup {c} # {}
      OBVIOUS
    <3>2. Top(active \cup {c}) \in active \cup {c}
      BY <3>1, TopOfSet
    <3>. QED BY <1>1, <2>1, <3>1, <3>2 DEF OnToolCallStart, NoCall
  <2>2. CASE ~OnHud(c)
    BY <1>1, <2>2 DEF OnToolCallStart, arbiter
  <2>. QED BY <2>1, <2>2
<1>2. CASE OnRunningHint
  <2>1. CASE active = {}
    BY <1>2, <2>1 DEF OnRunningHint
  <2>2. CASE active # {}
    <3>1. Top(active) \in active
      BY <2>2, TopOfSet
    <3>. QED BY <1>2, <2>2, <3>1 DEF OnRunningHint
  <2>. QED BY <2>1, <2>2
<1>3. CASE OnHudTerminal
  <2>. DEFINE live == Cardinality(active) > pendingEnds + 1
  <2>0. screen' \in {"blank", "running", "settled"} /\ pendingEnds' \in Nat /\ active' = active
    BY <1>3 DEF OnHudTerminal
  <2>1. CASE live
    <3>0. ~(0 > pendingEnds + 1)
      OBVIOUS
    <3>1. active # {}
      BY <2>1, <3>0, FS_EmptySet
    <3>2. Top(active) \in active
      BY <3>1, TopOfSet
    <3>3. displayed' = Top(active)
      BY <1>3, <2>1 DEF OnHudTerminal
    <3>. QED BY <2>0, <3>2, <3>3
  <2>2. CASE ~live
    <3>1. displayed' = NoCall
      BY <1>3, <2>2 DEF OnHudTerminal
    <3>. QED BY <2>0, <3>1
  <2>. QED BY <2>1, <2>2
<1>4. CASE OnToolCallEnd(c)
  <2>1. CASE c \in active
    <3>. DEFINE left == active \ {c}
    <3>0. /\ active' = left /\ pendingEnds' \in Nat
          /\ screen' \in {"blank", "running", "settled"}
      BY <1>4, <2>1 DEF OnToolCallEnd
    <3>1. CASE left = {}
      <4>1. displayed' = NoCall
        BY <1>4, <2>1, <3>1 DEF OnToolCallEnd
      <4>. QED BY <3>0, <4>1
    <3>2. CASE left # {}
      <4>1. Top(left) \in left
        BY <3>2, TopOfSet
      <4>2. CASE SameText(Top(left), displayed)
        <5>1. displayed' = displayed
          BY <1>4, <2>1, <3>2, <4>2 DEF OnToolCallEnd
        <5>. QED BY <3>0, <4>1, <4>2, <5>1
      <4>3. CASE ~SameText(Top(left), displayed)
        <5>1. displayed' = Top(left)
          BY <1>4, <2>1, <3>2, <4>3 DEF OnToolCallEnd
        <5>. QED BY <3>0, <4>1, <5>1
      <4>. QED BY <4>2, <4>3
    <3>. QED BY <3>1, <3>2
  <2>2. CASE c \notin active
    BY <1>4, <2>2 DEF OnToolCallEnd, arbiter
  <2>. QED BY <2>1, <2>2
<1>5. CASE UNCHANGED arbiter
  BY <1>5 DEF arbiter
<1>. QED BY <1>1, <1>2, <1>3, <1>4, <1>5

LEMMA StepSound ==
  ASSUME N \in Nat, Kinds \subseteq AllKinds, IInv, [Next]_vars
  PROVE  IInv'
<1>. USE DEF IInv
<1>1. ASSUME NEW w \in {"leader", "subtask"}, NEW k \in [Calls -> Kinds],
             NEW l \in [Calls -> Labels], NEW r \in Ranks, BeginBatch(w, k, l, r)
      PROVE  IInv'
  <2>1. displayed = NoCall
    BY <1>1 DEF BeginBatch, DisplayedIsActive
  <2>2. TypeOK' /\ RanksDiffer'
    BY <1>1 DEF BeginBatch, TypeOK, RanksDiffer, arbiter
  <2>. QED BY <1>1, <2>1, <2>2 DEF BeginBatch, DisplayedIsActive, arbiter
<1>2. ASSUME NEW c \in Calls,
             \/ StartCall(c) \/ Announce(c) \/ AskPermission(c)
             \/ PassCheck(c) \/ FailCheck(c) \/ Halt(c)
             \/ RunCall(c) \/ RunShell(c) \/ ReportCall(c) \/ EndCall(c)
             \/ AbortCall(c)
      PROVE  IInv'
  <2>1. /\ UNCHANGED <<batch, closing>>
        /\ at' \in [Calls -> {"new", "started", "hinted", "asked", "checked",
                              "ran", "told", "ended"}]
    BY <1>2 DEF StartCall, Announce, AskPermission, PassCheck, FailCheck, Halt,
                RunCall, RunShell, ReportCall, EndCall, AbortCall, Goes, TypeOK
  <2>2. \/ OnToolCallStart(c)
        \/ OnRunningHint
        \/ OnHudTerminal
        \/ OnToolCallEnd(c)
        \/ UNCHANGED arbiter
    BY <1>2 DEF StartCall, Announce, AskPermission, PassCheck, FailCheck, Halt,
                RunCall, RunShell, ReportCall, EndCall, AbortCall
  <2>3. Sound'
    BY <2>1, <2>2, HandlersSound DEF batch
  <2>. QED BY <2>1, <2>3 DEF TypeOK, RanksDiffer, Sound, batch
<1>3. CASE LastFrame
  <2>1. UNCHANGED <<batch, at>> /\ closing' \in BOOLEAN /\ OnHudTerminal
    BY <1>3 DEF LastFrame
  <2>2. CASE Calls = {}
    BY <1>3, <2>1, <2>2, FS_EmptySet
       DEF OnHudTerminal, TypeOK, RanksDiffer, DisplayedIsActive, batch, NoCall
  <2>3. CASE Calls # {}
    <3>1. Sound'
      BY <2>1, <2>3, HandlersSound DEF batch
    <3>. QED BY <2>1, <3>1 DEF TypeOK, RanksDiffer, Sound, batch
  <2>. QED BY <2>2, <2>3
<1>4. CASE FlushAll
  BY <1>4 DEF FlushAll, TypeOK, RanksDiffer, DisplayedIsActive, batch, NoCall
<1>5. CASE UNCHANGED vars
  BY <1>5 DEF vars, arbiter, batch, TypeOK, RanksDiffer, DisplayedIsActive, SameText
<1>. QED BY <1>1, <1>2, <1>3, <1>4, <1>5 DEF Next

LEMMA InitSound ==
  ASSUME N \in Nat, Kinds \subseteq AllKinds, Init
  PROVE  IInv
BY DEF Init, IInv, TypeOK, RanksDiffer, DisplayedIsActive, AllKinds, Ranks, NoCall

LEMMA Invariance ==
  ASSUME N \in Nat, Kinds \subseteq AllKinds
  PROVE  Spec => []IInv
<1>1. Init => IInv
  BY InitSound
<1>2. IInv /\ [Next]_vars => IInv'
  BY StepSound
<1>. QED BY <1>1, <1>2, PTL DEF Spec

\* The registered calls, the display and the counter stay in range.
THEOREM TypeCorrect ==
  ASSUME N \in Nat, Kinds \subseteq AllKinds
  PROVE  Spec => []TypeOK
<1>1. IInv => TypeOK
  BY DEF IInv
<1>. QED BY <1>1, Invariance, PTL

\* However many calls overlap, and whatever the order of the map, the text that
\* the arbiter takes for displayed is the text of a call that is registered: no
\* end leaves the display pointing at a call that is gone.
THEOREM DisplayCorrect ==
  ASSUME N \in Nat, Kinds \subseteq AllKinds
  PROVE  Spec => []DisplayedIsActive
<1>1. IInv => DisplayedIsActive
  BY DEF IInv
<1>. QED BY <1>1, Invariance, PTL
-----------------------------------------------------------------------------
(* When the timer stops. *)

\* A terminal frame is consumed before the next one is sent, every frame belongs
\* to a registered call, and the circuit breaker leaves at most one call behind.
\* This is what hud_arbiter.rs takes for granted of its callers.
Paired == /\ pendingEnds <= 1
          /\ \A c \in Calls : at[c] # "asked" /\ kind[c] # "prompt"
          /\ AllEnded => Cardinality(active) <= 1

\* The same of the batch rather than of the counter: a sub-task runs no shell
\* beside a call that has a terminal frame too.
Calm == /\ \A c \in Calls : at[c] # "asked" /\ kind[c] # "prompt"
        /\ AllEnded => Cardinality(active) <= 1
        /\ who = "subtask" =>
             \A c, d \in Calls :
               kind[c] = "shell" /\ kind[d] \in {"shell", "screen"} => c = d

Started == {"started", "hinted", "checked", "ran", "told"}

\* The leader comes to a call when the ones before it are over, a sub-task
\* reports them in order when all have run.
InOrder == \A c, d \in Calls : d < c =>
             /\ who = "leader" /\ at[c] # "new" => at[d] = "ended"
             /\ at[c] = "told" => at[d] = "ended"
             /\ who = "subtask" /\ at[d] = "told" => PassOf(at[c]) >= 3

Registered == \A c \in Calls : at[c] \in Started /\ OnHud(c) => c \in active

\* The call whose end the counted frame waits for.
Awaited(c) == /\ c \in active
              /\ \/ at[c] = "told"
                 \/ at[c] = "ran" /\ who = "subtask" /\ kind[c] = "shell"

\* A frame is counted only while such a call is there and nobody is starting,
\* and the screen left "running" only if another call is registered, too: the
\* end that consumes the frame without showing it is then not the last.
FrameAwaits ==
  ~closing /\ pendingEnds # 0 =>
    /\ \E c \in Calls : Awaited(c)
    /\ who = "subtask" => \A d \in Calls : PassOf(at[d]) >= 2
    /\ screen = "running" => \E c, d \in active : c # d

Quiet == /\ closing => AllEnded /\ screen # "running"
         /\ active = {} => screen # "running"

TimerInv == InOrder /\ Registered /\ FrameAwaits /\ Quiet

LEMMA Passes ==
  /\ PassOf("new") = 1 /\ PassOf("started") = 1 /\ PassOf("hinted") = 1
  /\ PassOf("asked") = 1 /\ PassOf("checked") = 2
  /\ PassOf("ran") = 3 /\ PassOf("told") = 3 /\ PassOf("ended") = 4
BY DEF PassOf

\* No frame is counted when a call starts, or when the leader is at a call that
\* it has not reported.
LEMMA NoFrameYet ==
  ASSUME N \in Nat, TypeOK, TimerInv, NEW c \in Calls,
         \/ at[c] \in {"new", "started", "hinted"} /\ Turn(c)
         \/ who = "leader" /\ at[c] \in {"checked", "ran"} /\ Turn(c)
  PROVE  pendingEnds = 0 /\ ~closing
<1>1. at[c] # "ended"
  OBVIOUS
<1>2. ~closing
  BY <1>1 DEF TimerInv, Quiet, AllEnded
<1>. SUFFICES ASSUME pendingEnds # 0 PROVE FALSE
  BY <1>2
<1>3. PICK e \in Calls : Awaited(e)
  BY <1>2 DEF TimerInv, FrameAwaits
<1>4. CASE who = "leader"
  <2>1. at[e] = "told"
    BY <1>3, <1>4 DEF Awaited
  <2>2. c < e
    BY <1>4, <2>1 DEF Turn, Calls
  <2>. QED BY <1>1, <1>4, <2>1, <2>2 DEF TimerInv, InOrder
<1>5. CASE who = "subtask"
  <2>1. at[c] \in {"new", "started", "hinted"}
    BY <1>5
  <2>2. PassOf(at[c]) = 1
    BY <2>1, Passes
  <2>. QED BY <1>2, <1>5, <2>2 DEF TimerInv, FrameAwaits
<1>. QED BY <1>4, <1>5 DEF TypeOK

\* A step of one call keeps the order of the calls.
LEMMA StageStep ==
  ASSUME N \in Nat, TypeOK, InOrder, NEW c \in Calls, NEW from, NEW to,
         Goes(c, from, to), from # "ended",
         <<from, to>> \in
           {<<"new", "started">>, <<"started", "hinted">>, <<"hinted", "checked">>,
            <<"checked", "ran">>, <<"ran", "told">>}
           \cup {"hinted", "checked", "ran", "told"} \X {"ended"},
         to = "ended" => who = "leader" \/ from \in {"hinted", "told"}
  PROVE  InOrder'
<1>. USE Passes
<1>. SUFFICES ASSUME NEW x \in Calls, NEW y \in Calls, y < x
              PROVE  /\ who' = "leader" /\ at'[x] # "new" => at'[y] = "ended"
                     /\ at'[x] = "told" => at'[y] = "ended"
                     /\ who' = "subtask" /\ at'[y] = "told" => PassOf(at'[x]) >= 3
  BY DEF InOrder
<1>1. /\ at'[c] = to /\ at[c] = from /\ who' = who /\ Turn(c)
      /\ \A d \in Calls : d # c => at'[d] = at[d]
  BY DEF Goes, batch, TypeOK
<1>2. /\ who = "leader" /\ at[x] # "new" => at[y] = "ended"
      /\ at[x] = "told" => at[y] = "ended"
      /\ who = "subtask" /\ at[y] = "told" => PassOf(at[x]) >= 3
  BY DEF InOrder
<1>3. x \in Nat /\ y \in Nat /\ x # y
  BY DEF Calls
<1>4. CASE x # c /\ y # c
  BY <1>1, <1>2, <1>4
<1>5. CASE y = c
  <2>1. at'[x] = at[x] /\ x \in c + 1 .. N
    BY <1>1, <1>3, <1>5 DEF Calls
  <2>2. who = "subtask" => PassOf(at[x]) >= PassOf(from)
    BY <1>1, <2>1 DEF Turn
  <2>. QED BY <1>1, <1>2, <1>5, <2>1, <2>2
<1>6. CASE x = c
  <2>1. at'[y] = at[y] /\ y \in 1 .. c - 1
    BY <1>1, <1>3, <1>6 DEF Calls
  <2>2. who = "leader" => at[y] = "ended"
    BY <1>1, <2>1 DEF Turn
  <2>3. who = "subtask" => PassOf(at[y]) > PassOf(from)
    BY <1>1, <2>1 DEF Turn
  <2>4. who \in {"leader", "subtask"} /\ at[y] \in
          {"new", "started", "hinted", "asked", "checked", "ran", "told", "ended"}
    BY DEF TypeOK
  <2>. QED BY <1>1, <1>2, <1>6, <2>1, <2>2, <2>3, <2>4
<1>. QED BY <1>4, <1>5, <1>6

\* A registered call is never the only one that a frame leaves "running".
LEMMA TerminalFrame ==
  ASSUME N \in Nat, IInv, OnHudTerminal
  PROVE  /\ active' = active /\ pendingEnds' = pendingEnds + 1
         /\ screen' = "running" => \E c, d \in active : c # d
         /\ Cardinality(active) <= 1 => screen' = "settled"
<1>1. IsFiniteSet(active) /\ Cardinality(active) \in Nat /\ pendingEnds \in Nat
  <2>1. IsFiniteSet(Calls) /\ active \subseteq Calls
    BY FS_Interval DEF Calls, IInv, TypeOK
  <2>. QED BY <2>1, FS_Subset, FS_CardinalityType DEF IInv, TypeOK
<1>2. screen' = "running" => Cardinality(active) > pendingEnds + 1
  BY DEF OnHudTerminal
<1>3. screen' \in {"running", "settled"}
  BY DEF OnHudTerminal
<1>4. ASSUME Cardinality(active) > 1 PROVE \E c, d \in active : c # d
  <2>. SUFFICES ASSUME \A c, d \in active : c = d PROVE FALSE
    OBVIOUS
  <2>1. active # {}
    BY <1>4, FS_EmptySet
  <2>2. PICK c \in active : TRUE
    BY <2>1
  <2>3. active = {c}
    BY <2>2
  <2>. QED BY <1>4, <2>3, FS_Singleton
<1>. QED BY <1>1, <1>2, <1>3, <1>4 DEF OnHudTerminal

\* The end of a call, with at most one frame counted.
LEMMA EndFrame ==
  ASSUME N \in Nat, IInv, NEW c \in Calls, OnToolCallEnd(c), pendingEnds <= 1,
         pendingEnds = 1 /\ screen = "running" => \E d, e \in active : d # e,
         active = {} => screen # "running"
  PROVE  /\ active' = active \ {c}
         /\ active' = {} => screen' # "running"
         /\ c \in active => pendingEnds' = 0
         /\ c \notin active => UNCHANGED arbiter
<1>0. pendingEnds \in {0, 1}
  BY DEF IInv, TypeOK
<1>1. CASE c \in active
  <2>1. active' = active \ {c} /\ pendingEnds' = 0
    BY <1>0, <1>1 DEF OnToolCallEnd
  <2>2. ASSUME active \ {c} = {} PROVE screen' # "running"
    <3>1. CASE pendingEnds = 0
      <4>1. screen' = "settled"
        BY <1>1, <2>2, <3>1 DEF OnToolCallEnd
      <4>. QED BY <4>1
    <3>2. CASE pendingEnds = 1
      <4>1. screen # "running"
        BY <2>2, <3>2
      <4>2. screen' = screen
        BY <1>1, <2>2, <3>2 DEF OnToolCallEnd
      <4>. QED BY <4>1, <4>2
    <3>. QED BY <1>0, <3>1, <3>2
  <2>. QED BY <1>1, <2>1, <2>2
<1>2. CASE c \notin active
  BY <1>2 DEF OnToolCallEnd, arbiter
<1>. QED BY <1>1, <1>2

\* One step of the executors, of a batch whose frames are paired before and after.
LEMMA TimerStep ==
  ASSUME N \in Nat, Kinds \subseteq AllKinds, IInv, TimerInv, Paired, Paired', Next
  PROVE  TimerInv'
<1>. USE DEF TimerInv
<1>0. TypeOK /\ pendingEnds \in {0, 1}
  BY DEF IInv, TypeOK, Paired
<1>1. ASSUME NEW w \in {"leader", "subtask"}, NEW k \in [Calls -> Kinds],
             NEW l \in [Calls -> Labels], NEW r \in Ranks, BeginBatch(w, k, l, r)
      PROVE  TimerInv'
  <2>1. /\ active = {} /\ ~closing /\ UNCHANGED <<arbiter, closing>>
        /\ at' = [c \in Calls |-> "new"]
    BY <1>1 DEF BeginBatch
  <2>2. pendingEnds = 0
    BY <2>1 DEF FrameAwaits, Awaited
  <2>3. InOrder' /\ Registered'
    BY <2>1 DEF InOrder, Registered, Started
  <2>4. FrameAwaits' /\ Quiet'
    BY <2>1, <2>2 DEF FrameAwaits, Quiet, arbiter
  <2>. QED BY <2>3, <2>4
<1>2. ASSUME NEW c \in Calls, StartCall(c) PROVE TimerInv'
  <2>1. Goes(c, "new", "started") /\ OnToolCallStart(c)
    BY <1>2 DEF StartCall
  <2>2. pendingEnds = 0 /\ ~closing
    BY <1>0, <2>1, NoFrameYet DEF Goes
  <2>3. InOrder'
    BY <1>0, <2>1, StageStep
  <2>4. /\ pendingEnds' = 0 /\ active \subseteq active' /\ (OnHud(c) => c \in active')
        /\ active' = {} => screen' # "running"
    <3>1. CASE OnHud(c)
      BY <2>1, <2>2, <3>1 DEF OnToolCallStart
    <3>2. CASE ~OnHud(c)
      BY <2>1, <2>2, <3>2 DEF OnToolCallStart, arbiter, Quiet
    <3>. QED BY <3>1, <3>2
  <2>5. Registered'
    BY <1>0, <2>1, <2>4 DEF Registered, Goes, batch, OnHud, TypeOK
  <2>. QED BY <2>1, <2>2, <2>3, <2>4, <2>5 DEF FrameAwaits, Quiet, Goes
<1>3. ASSUME NEW c \in Calls, Announce(c) PROVE TimerInv'
  <2>1. Goes(c, "started", "hinted")
    BY <1>3 DEF Announce
  <2>2. pendingEnds = 0 /\ ~closing
    BY <1>0, <2>1, NoFrameYet DEF Goes
  <2>3. InOrder'
    BY <1>0, <2>1, StageStep
  <2>4. OnHud(c) => c \in active
    BY <2>1 DEF Registered, Started, Goes
  <2>5. /\ pendingEnds' = 0 /\ active' = active
        /\ active' = {} => screen' # "running"
    BY <1>3, <2>2, <2>4 DEF Announce, OnRunningHint, arbiter, OnHud, Quiet
  <2>6. Registered'
    BY <1>0, <2>1, <2>5 DEF Registered, Goes, batch, OnHud, TypeOK, Started
  <2>. QED BY <2>1, <2>2, <2>3, <2>5, <2>6 DEF FrameAwaits, Quiet, Goes
<1>4. ASSUME NEW c \in Calls, PassCheck(c) PROVE TimerInv'
  <2>1. Goes(c, "hinted", "checked") /\ UNCHANGED arbiter
    BY <1>4 DEF PassCheck, Goes, Paired
  <2>2. pendingEnds = 0 /\ ~closing
    BY <1>0, <2>1, NoFrameYet DEF Goes
  <2>3. InOrder'
    BY <1>0, <2>1, StageStep
  <2>4. Registered'
    BY <1>0, <2>1 DEF Registered, Goes, batch, arbiter, OnHud, TypeOK, Started
  <2>. QED BY <2>1, <2>2, <2>3, <2>4 DEF FrameAwaits, Quiet, Goes, arbiter
<1>5. ASSUME NEW c \in Calls, FailCheck(c) \/ AbortCall(c) PROVE TimerInv'
  <2>1. PICK from \in {"hinted", "checked", "ran"} :
          /\ Goes(c, from, "ended")
          /\ from = "hinted" \/ who = "leader"
    BY <1>5 DEF FailCheck, AbortCall, Goes, Paired
  <2>2. pendingEnds = 0 /\ ~closing
    BY <1>0, <2>1, NoFrameYet DEF Goes
  <2>3. InOrder'
    BY <1>0, <2>1, StageStep
  <2>4. OnToolCallEnd(c)
    BY <1>5 DEF FailCheck, AbortCall
  <2>5. /\ active' = active \ {c} /\ pendingEnds' = 0
        /\ active' = {} => screen' # "running"
    BY <2>2, <2>4, EndFrame DEF Quiet, arbiter
  <2>6. Registered'
    BY <1>0, <2>1, <2>5 DEF Registered, Goes, batch, OnHud, TypeOK, Started
  <2>. QED BY <2>1, <2>2, <2>3, <2>5, <2>6 DEF FrameAwaits, Quiet, Goes
<1>6. ASSUME NEW c \in Calls, Halt(c) PROVE TimerInv'
  <2>1. /\ at[c] = "hinted" /\ Turn(c) /\ OnToolCallEnd(c)
        /\ at' = [d \in Calls |-> "ended"] /\ UNCHANGED closing
    BY <1>6 DEF Halt, Paired
  <2>2. pendingEnds = 0 /\ ~closing
    BY <1>0, <2>1, NoFrameYet
  <2>3. pendingEnds' = 0 /\ (active' = {} => screen' # "running")
    BY <2>1, <2>2, EndFrame DEF Quiet, arbiter
  <2>4. InOrder' /\ Registered'
    BY <2>1, Passes DEF InOrder, Registered, Started
  <2>. QED BY <2>1, <2>2, <2>3, <2>4 DEF FrameAwaits, Quiet
<1>7. ASSUME NEW c \in Calls, RunCall(c) PROVE TimerInv'
  <2>1. Goes(c, "checked", "ran")
    BY <1>7 DEF RunCall
  <2>2. ~closing
    BY <2>1 DEF Goes, Quiet, AllEnded
  <2>3. InOrder'
    BY <1>0, <2>1, StageStep
  <2>4. OnHud(c) => c \in active
    BY <2>1 DEF Registered, Started, Goes
  <2>5. /\ active' = active /\ pendingEnds' = pendingEnds
        /\ screen' = screen \/ OnHud(c)
    BY <1>7 DEF RunCall, OnRunningHint, arbiter, OnHud
  <2>6. Registered'
    BY <1>0, <2>1, <2>5 DEF Registered, Goes, batch, OnHud, TypeOK, Started
  <2>7. Quiet'
    BY <2>1, <2>2, <2>4, <2>5 DEF Quiet, Goes
  <2>8. FrameAwaits'
    <3>. SUFFICES ASSUME pendingEnds # 0 PROVE FrameAwaits'
      BY <2>5 DEF FrameAwaits
    <3>1. who = "subtask"
      BY <1>0, <2>1, NoFrameYet DEF Goes, TypeOK
    <3>2. PICK e \in Calls : Awaited(e)
      BY <2>2 DEF FrameAwaits
    <3>3. e # c /\ Awaited(e)'
      BY <1>0, <2>1, <2>5, <3>2 DEF Awaited, Goes, batch, TypeOK
    <3>4. \A d \in Calls : PassOf(at'[d]) >= 2
      BY <1>0, <2>1, <2>2, <3>1, Passes DEF FrameAwaits, Goes, TypeOK
    <3>5. screen' = "running" => \E d, f \in active' : d # f
      BY <2>2, <2>4, <2>5, <3>2, <3>3 DEF FrameAwaits, Awaited
    <3>. QED BY <3>3, <3>4, <3>5 DEF FrameAwaits
  <2>. QED BY <2>3, <2>6, <2>7, <2>8
<1>8. ASSUME NEW c \in Calls, RunShell(c) PROVE TimerInv'
  <2>1. /\ Goes(c, "checked", "ran") /\ OnHudTerminal
        /\ who = "subtask" /\ kind[c] = "shell"
    BY <1>8 DEF RunShell
  <2>2. ~closing
    BY <2>1 DEF Goes, Quiet, AllEnded
  <2>3. InOrder'
    BY <1>0, <2>1, StageStep
  <2>4. c \in active
    BY <2>1 DEF Registered, Started, Goes, OnHud
  <2>5. /\ active' = active
        /\ screen' = "running" => \E d, e \in active : d # e
    BY <2>1, TerminalFrame
  <2>6. Registered'
    BY <1>0, <2>1, <2>5 DEF Registered, Goes, batch, OnHud, TypeOK, Started
  <2>7. Quiet'
    BY <2>1, <2>2, <2>4, <2>5 DEF Quiet, Goes
  <2>8. Awaited(c)'
    BY <1>0, <2>1, <2>4, <2>5 DEF Awaited, Goes, batch, TypeOK
  <2>9. \A d \in Calls : PassOf(at'[d]) >= 2
    <3>. SUFFICES ASSUME NEW d \in Calls PROVE PassOf(at'[d]) >= 2
      OBVIOUS
    <3>1. Turn(c) /\ at[c] = "checked" /\ at' = [at EXCEPT ![c] = "ran"]
      BY <2>1 DEF Goes
    <3>2. CASE d = c
      BY <1>0, <3>1, <3>2, Passes DEF TypeOK
    <3>3. CASE d # c
      <4>1. at'[d] = at[d] /\ (d \in 1 .. c - 1 \/ d \in c + 1 .. N)
        BY <1>0, <3>1, <3>3 DEF TypeOK, Calls
      <4>2. PassOf(at[d]) > PassOf("checked") \/ PassOf(at[d]) >= PassOf("checked")
        BY <2>1, <3>1, <4>1 DEF Turn
      <4>3. at[d] \in {"new", "started", "hinted", "asked", "checked", "ran", "told", "ended"}
        BY <1>0 DEF TypeOK
      <4>. QED BY <4>1, <4>2, <4>3, Passes
    <3>. QED BY <3>2, <3>3
  <2>. QED BY <2>3, <2>5, <2>6, <2>7, <2>8, <2>9 DEF FrameAwaits
<1>9. ASSUME NEW c \in Calls, ReportCall(c) PROVE TimerInv'
  <2>1. Goes(c, "ran", "told")
    BY <1>9 DEF ReportCall
  <2>2. ~closing
    BY <2>1 DEF Goes, Quiet, AllEnded
  <2>3. InOrder'
    BY <1>0, <2>1, StageStep
  <2>4. OnHud(c) => c \in active
    BY <2>1 DEF Registered, Started, Goes
  <2>5. CASE OnHudTerminal
    <3>1. OnHud(c)
      <4>1. kind[c] \in AllKinds /\ kind[c] # "prompt"
        BY <1>0 DEF TypeOK, Paired
      <4>2. kind[c] = "screen" \/ kind[c] # "plain"
        <5>1. CASE UNCHANGED arbiter
          BY <1>0, <2>5, <5>1 DEF OnHudTerminal, arbiter
        <5>2. CASE ~UNCHANGED arbiter
          BY <1>9, <5>2 DEF ReportCall
        <5>. QED BY <5>1, <5>2
      <4>. QED BY <4>1, <4>2 DEF OnHud, AllKinds
    <3>2. /\ active' = active /\ pendingEnds' = pendingEnds + 1
          /\ screen' = "running" => \E d, e \in active : d # e
      BY <2>5, TerminalFrame
    <3>3. Registered'
      BY <1>0, <2>1, <3>2 DEF Registered, Goes, batch, OnHud, TypeOK, Started
    <3>4. Quiet'
      BY <2>1, <2>2, <2>4, <3>1, <3>2 DEF Quiet, Goes
    <3>5. Awaited(c)'
      BY <1>0, <2>1, <2>4, <3>1, <3>2 DEF Awaited, Goes, TypeOK
    <3>6. who = "subtask" => \A d \in Calls : PassOf(at'[d]) >= 2
      <4>. SUFFICES ASSUME who = "subtask", NEW d \in Calls PROVE PassOf(at'[d]) >= 2
        OBVIOUS
      <4>1. Turn(c) /\ at[c] = "ran" /\ at' = [at EXCEPT ![c] = "told"]
        BY <2>1 DEF Goes
      <4>2. CASE d = c
        BY <1>0, <4>1, <4>2, Passes DEF TypeOK
      <4>3. CASE d # c
        <5>1. at'[d] = at[d] /\ (d \in 1 .. c - 1 \/ d \in c + 1 .. N)
          BY <1>0, <4>1, <4>3 DEF TypeOK, Calls
        <5>2. PassOf(at[d]) > PassOf("ran") \/ PassOf(at[d]) >= PassOf("ran")
          BY <4>1, <5>1 DEF Turn
        <5>3. at[d] \in {"new", "started", "hinted", "asked", "checked", "ran", "told", "ended"}
          BY <1>0 DEF TypeOK
        <5>. QED BY <5>1, <5>2, <5>3, Passes
      <4>. QED BY <4>2, <4>3
    <3>. QED BY <2>1, <2>3, <3>2, <3>3, <3>4, <3>5, <3>6 DEF FrameAwaits, Goes, batch
  <2>6. CASE UNCHANGED arbiter
    <3>1. Registered'
      BY <1>0, <2>1, <2>6 DEF Registered, Goes, batch, arbiter, OnHud, TypeOK, Started
    <3>2. Quiet'
      BY <2>1, <2>2, <2>6 DEF Quiet, Goes, arbiter
    <3>3. ASSUME NEW e \in Calls, Awaited(e) PROVE Awaited(e)'
      BY <1>0, <2>1, <2>6, <3>3 DEF Awaited, Goes, batch, arbiter, TypeOK
    <3>4. ASSUME \A d \in Calls : PassOf(at[d]) >= 2
          PROVE  \A d \in Calls : PassOf(at'[d]) >= 2
      BY <1>0, <2>1, <3>4, Passes DEF Goes, TypeOK
    <3>5. FrameAwaits'
      BY <2>1, <2>2, <2>6, <3>3, <3>4 DEF FrameAwaits, Goes, batch, arbiter
    <3>. QED BY <2>3, <3>1, <3>2, <3>5
  <2>. QED BY <1>9, <2>5, <2>6 DEF ReportCall
<1>10. ASSUME NEW c \in Calls, EndCall(c) PROVE TimerInv'
  <2>1. Goes(c, "told", "ended") /\ OnToolCallEnd(c)
    BY <1>10 DEF EndCall
  <2>2. ~closing
    BY <2>1 DEF Goes, Quiet, AllEnded
  <2>3. InOrder'
    BY <1>0, <2>1, StageStep
  <2>4. /\ active' = active \ {c}
        /\ active' = {} => screen' # "running"
        /\ c \in active => pendingEnds' = 0
        /\ c \notin active => UNCHANGED arbiter
    BY <1>0, <2>1, <2>2, EndFrame DEF FrameAwaits, Quiet
  <2>5. Registered'
    BY <1>0, <2>1, <2>4 DEF Registered, Goes, batch, OnHud, TypeOK, Started
  <2>6. Quiet'
    BY <2>1, <2>2, <2>4 DEF Quiet, Goes
  <2>7. CASE c \in active
    BY <2>3, <2>4, <2>5, <2>6, <2>7 DEF FrameAwaits
  <2>8. CASE c \notin active
    <3>1. ASSUME NEW e \in Calls, Awaited(e) PROVE Awaited(e)'
      BY <1>0, <2>1, <2>4, <2>8, <3>1 DEF Awaited, Goes, batch, arbiter, TypeOK
    <3>2. ASSUME \A d \in Calls : PassOf(at[d]) >= 2
          PROVE  \A d \in Calls : PassOf(at'[d]) >= 2
      BY <1>0, <2>1, <3>2, Passes DEF Goes, TypeOK
    <3>3. FrameAwaits'
      BY <2>1, <2>2, <2>4, <2>8, <3>1, <3>2 DEF FrameAwaits, Goes, batch, arbiter
    <3>. QED BY <2>3, <2>5, <2>6, <3>3
  <2>. QED BY <2>7, <2>8
<1>11. ASSUME NEW c \in Calls, AskPermission(c) PROVE TimerInv'
  BY <1>0, <1>11 DEF AskPermission, Goes, Paired, TypeOK
<1>12. CASE LastFrame
  <2>1. /\ AllEnded /\ closing' /\ UNCHANGED <<batch, at>> /\ OnHudTerminal
    BY <1>12 DEF LastFrame
  <2>2. screen' = "settled" /\ active' = active
    BY <2>1, TerminalFrame DEF Paired
  <2>3. InOrder' /\ Registered'
    BY <2>1, <2>2 DEF InOrder, Registered, batch, OnHud
  <2>. QED BY <2>1, <2>2, <2>3 DEF FrameAwaits, Quiet, AllEnded
<1>13. CASE FlushAll
  <2>1. /\ AllEnded /\ screen # "running" /\ UNCHANGED <<screen, batch, at>>
        /\ ~closing' /\ pendingEnds' = 0
    BY <1>13 DEF FlushAll, Quiet
  <2>2. InOrder'
    BY <2>1 DEF InOrder, batch
  <2>3. Registered'
    BY <2>1 DEF Registered, AllEnded, Started, batch
  <2>. QED BY <2>1, <2>2, <2>3 DEF FrameAwaits, Quiet
<1>. QED BY <1>1, <1>2, <1>3, <1>4, <1>5, <1>6, <1>7, <1>8, <1>9, <1>10, <1>11,
            <1>12, <1>13 DEF Next

LEMMA TimerInvariance ==
  ASSUME N \in Nat, Kinds \subseteq AllKinds
  PROVE  Spec /\ []Paired => []TimerInv
<1>1. Init => TimerInv
  BY DEF Init, TimerInv, InOrder, Registered, FrameAwaits, Quiet, Started
<1>2. TimerInv /\ UNCHANGED vars => TimerInv'
  BY DEF vars, arbiter, batch, TimerInv, InOrder, Registered, FrameAwaits, Awaited,
         Quiet, AllEnded, OnHud
<1>3. IInv /\ TimerInv /\ Paired /\ Paired' /\ [Next]_vars => TimerInv'
  BY <1>2, TimerStep
<1>. QED BY <1>1, <1>3, Invariance, PTL DEF Spec

\* hud_arbiter.rs counts terminal frames and lets the next end consume one.  That
\* is right as long as the frames are paired: with any number of calls, of any
\* kinds and texts, under the leader or a sub-task, refused, halted or left early,
\* the HUD is then never left "running" when the last call has gone.
THEOREM TimerStopsWhenPaired ==
  ASSUME N \in Nat, Kinds \subseteq AllKinds
  PROVE  Spec /\ []Paired => []TimerStops
<1>1. TimerInv => TimerStops
  BY DEF TimerInv, Quiet, TimerStops
<1>. QED BY <1>1, TimerInvariance, PTL

\* In a calm batch no frame is counted when the next one is sent.
LEMMA NoSecondFrame ==
  ASSUME N \in Nat, TypeOK, TimerInv, Calm, NEW c \in Calls, Turn(c),
         \/ at[c] = "checked" /\ who = "subtask" /\ kind[c] = "shell"
         \/ at[c] = "ran" /\ (kind[c] = "screen" \/ who = "leader")
  PROVE  pendingEnds = 0
<1>1. CASE who = "leader"
  BY <1>1, NoFrameYet
<1>2. CASE who = "subtask"
  <2>1. ~closing
    BY DEF TimerInv, Quiet, AllEnded
  <2>. SUFFICES ASSUME pendingEnds # 0 PROVE FALSE
    OBVIOUS
  <2>2. PICK e \in Calls : Awaited(e)
    BY <2>1 DEF TimerInv, FrameAwaits
  <2>3. CASE at[e] = "ran" /\ kind[e] = "shell"
    <3>1. e = c
      BY <1>2, <2>3 DEF Calm
    <3>. QED BY <1>2, <2>3, <3>1
  <2>4. CASE at[e] = "told"
    <3>1. e < c \/ c < e
      BY <2>4 DEF Calls
    <3>2. CASE c < e
      BY <2>4, <3>2 DEF TimerInv, InOrder
    <3>3. CASE e < c
      <4>1. PassOf(at[c]) >= 3
        BY <1>2, <2>4, <3>3 DEF TimerInv, InOrder
      <4>2. PassOf(at[e]) > PassOf(at[c])
        BY <1>2, <3>3 DEF Turn, Calls
      <4>. QED BY <2>4, <4>1, <4>2, Passes
    <3>. QED BY <3>1, <3>2, <3>3
  <2>. QED BY <2>2, <2>3, <2>4 DEF Awaited
<1>. QED BY <1>1, <1>2 DEF TypeOK

LEMMA CalmStep ==
  ASSUME N \in Nat, Kinds \subseteq AllKinds, IInv, TimerInv, Paired, Calm, Calm', Next
  PROVE  Paired'
<1>0. TypeOK /\ pendingEnds \in {0, 1}
  BY DEF IInv, TypeOK, Paired
<1>. SUFFICES pendingEnds' <= 1
  BY DEF Paired, Calm
<1>1. ASSUME NEW w \in {"leader", "subtask"}, NEW k \in [Calls -> Kinds],
             NEW l \in [Calls -> Labels], NEW r \in Ranks, BeginBatch(w, k, l, r)
      PROVE  pendingEnds' <= 1
  BY <1>0, <1>1 DEF BeginBatch, arbiter
<1>2. ASSUME NEW c \in Calls, StartCall(c) PROVE pendingEnds' <= 1
  BY <1>0, <1>2 DEF StartCall, OnToolCallStart, arbiter
<1>3. ASSUME NEW c \in Calls, Announce(c) \/ RunCall(c) \/ PassCheck(c)
      PROVE  pendingEnds' <= 1
  BY <1>0, <1>3 DEF Announce, RunCall, PassCheck, OnRunningHint, arbiter
<1>4. ASSUME NEW c \in Calls, FailCheck(c) \/ AbortCall(c) \/ Halt(c) \/ EndCall(c)
      PROVE  pendingEnds' <= 1
  BY <1>0, <1>4 DEF FailCheck, AbortCall, Halt, EndCall, OnToolCallEnd, arbiter
<1>5. ASSUME NEW c \in Calls, RunShell(c) PROVE pendingEnds' <= 1
  <2>1. pendingEnds = 0
    BY <1>0, <1>5, NoSecondFrame DEF RunShell, Goes
  <2>. QED BY <1>5, <2>1 DEF RunShell, OnHudTerminal
<1>6. ASSUME NEW c \in Calls, ReportCall(c) PROVE pendingEnds' <= 1
  <2>1. CASE kind[c] = "screen" \/ who = "leader"
    <3>1. pendingEnds = 0
      BY <1>0, <1>6, <2>1, NoSecondFrame DEF ReportCall, Goes
    <3>. QED BY <1>6, <3>1 DEF ReportCall, OnHudTerminal, arbiter
  <2>2. CASE ~(kind[c] = "screen" \/ who = "leader")
    BY <1>0, <1>6, <2>2 DEF ReportCall, arbiter
  <2>. QED BY <2>1, <2>2
<1>7. ASSUME NEW c \in Calls, AskPermission(c) PROVE pendingEnds' <= 1
  BY <1>0, <1>7 DEF AskPermission, Goes, Calm, TypeOK
<1>8. CASE LastFrame
  <2>1. pendingEnds = 0
    BY <1>8 DEF LastFrame, AllEnded, TimerInv, FrameAwaits, Awaited
  <2>. QED BY <1>8, <2>1 DEF LastFrame, OnHudTerminal
<1>9. CASE FlushAll
  BY <1>9 DEF FlushAll
<1>. QED BY <1>1, <1>2, <1>3, <1>4, <1>5, <1>6, <1>7, <1>8, <1>9 DEF Next

\* Finding 6 needs a sub-task that runs a shell beside a call with a frame of its
\* own.  Otherwise the frames are paired: under the leader always, and in a
\* sub-task whose batch has no shell, or one and no second call that would report.
LEMMA CalmIsPaired ==
  ASSUME N \in Nat, Kinds \subseteq AllKinds
  PROVE  Spec /\ []Calm => []Paired
<1>1. Init /\ Calm => TimerInv /\ Paired
  BY DEF Init, Calm, Paired, TimerInv, InOrder, Registered, FrameAwaits, Quiet, Started
<1>2. IInv /\ TimerInv /\ Paired /\ Calm /\ Calm' /\ [Next]_vars => (TimerInv /\ Paired)'
  <2>. SUFFICES ASSUME IInv, TimerInv, Paired, Calm, Calm', [Next]_vars
                PROVE  TimerInv' /\ Paired'
    OBVIOUS
  <2>1. CASE Next
    BY <2>1, CalmStep, TimerStep
  <2>2. CASE UNCHANGED vars
    <3>1. Paired'
      BY <2>2 DEF vars, arbiter, batch, Paired, AllEnded
    <3>2. TimerInv'
      BY <2>2 DEF vars, arbiter, batch, TimerInv, InOrder, Registered, FrameAwaits,
                  Awaited, Quiet, AllEnded, OnHud
    <3>. QED BY <3>1, <3>2
  <2>. QED BY <2>1, <2>2
<1>. QED BY <1>1, <1>2, Invariance, PTL DEF Spec

\* So the leader, whose calls do not overlap, always sees the timer stop, and so
\* does a sub-task that runs no shell beside a shell or a screen tool, as long as
\* no permission question is asked, no user prompt is shown and the circuit
\* breaker leaves at most one call.
THEOREM TimerStopsWhenCalm ==
  ASSUME N \in Nat, Kinds \subseteq AllKinds
  PROVE  Spec /\ []Calm => []TimerStops
BY CalmIsPaired, TimerStopsWhenPaired, PTL

LEMMA AloneIsCalm ==
  ASSUME N = 1, Kinds \subseteq AllKinds, "prompt" \notin Kinds, MayAsk = FALSE
  PROVE  Spec => []Calm
<1>. DEFINE P == at[1] # "asked" /\ kind[1] # "prompt"
<1>0. N \in Nat /\ Calls = {1}
  BY DEF Calls
<1>1. Init => P
  BY <1>0 DEF Init
<1>2. IInv /\ P /\ [Next]_vars => P'
  <2>. SUFFICES ASSUME IInv, P, [Next]_vars PROVE P'
    OBVIOUS
  <2>. USE <1>0 DEF IInv, TypeOK
  <2>1. CASE UNCHANGED vars
    BY <2>1 DEF vars, batch
  <2>2. CASE \E w \in {"leader", "subtask"}, k \in [Calls -> Kinds],
                l \in [Calls -> Labels], r \in Ranks : BeginBatch(w, k, l, r)
    BY <2>2 DEF BeginBatch
  <2>3. ASSUME NEW c \in Calls,
               \/ StartCall(c) \/ Announce(c)
               \/ PassCheck(c) \/ FailCheck(c) \/ Halt(c)
               \/ RunCall(c) \/ RunShell(c) \/ ReportCall(c) \/ EndCall(c)
               \/ AbortCall(c)
        PROVE  P'
    BY <2>3 DEF StartCall, Announce, PassCheck, FailCheck, Halt, RunCall, RunShell,
                ReportCall, EndCall, AbortCall, Goes, batch
  <2>4. CASE \E c \in Calls : AskPermission(c)
    BY <2>4 DEF AskPermission
  <2>5. CASE LastFrame \/ FlushAll
    BY <2>5 DEF LastFrame, FlushAll, batch
  <2>. QED BY <2>1, <2>2, <2>3, <2>4, <2>5 DEF Next
<1>3. IInv /\ P => Calm
  <2>. SUFFICES ASSUME IInv, P PROVE Calm
    OBVIOUS
  <2>1. active = {} \/ active = {1}
    BY <1>0 DEF IInv, TypeOK
  <2>2. Cardinality({}) = 0 /\ Cardinality({1}) = 1
    BY FS_EmptySet, FS_Singleton
  <2>. QED BY <1>0, <2>1, <2>2 DEF Calm
<1>4. Spec => []IInv
  BY <1>0, Invariance
<1>. QED BY <1>1, <1>2, <1>3, <1>4, PTL DEF Spec

\* With one call per reply, no permission question and no frame from a tool that
\* is not shown, the timer has stopped whenever the calls have ended, however
\* they ended.
THEOREM TimerStopsAlone ==
  ASSUME N = 1, Kinds \subseteq AllKinds, "prompt" \notin Kinds, MayAsk = FALSE
  PROVE  Spec => []TimerStops
<1>0. N \in Nat
  OBVIOUS
<1>. QED BY <1>0, AloneIsCalm, TimerStopsWhenCalm, PTL
=============================================================================
