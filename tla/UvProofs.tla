------------------------------ MODULE UvProofs ------------------------------
(***************************************************************************)
(* Proofs about uvgo: its timers, for any timers, goroutines, modes,       *)
(* delays and capacity of the channel fire; and its sockets and polled     *)
(* files, for any items, stat results, hooks and channel capacity.         *)
(***************************************************************************)
EXTENDS UvTimers, UvIO, SequenceTheorems, FiniteSetTheorems, WellFoundedInduction, TLAPS

\* The handle dispatchTimer has, until it has put it back or is done with it.
Dispatching == IF loop \in {"dispatch", "callback"} THEN {th} ELSE {}

\* The list, the scheduler, the channel and the dispatcher have no handle twice and none
\* in common.
Distinct ==
    /\ IsInjective(timers) /\ IsInjective(due) /\ IsInjective(fire)
    /\ ToSet(timers) \cap ToSet(due) = {}
    /\ (ToSet(timers) \cup ToSet(due)) \cap ToSet(fire) = {}
    /\ (ToSet(timers) \cup ToSet(due) \cup ToSet(fire)) \cap Dispatching = {}

\* Whatever is in circulation was started, and what was stopped is not active.
OfStarted ==
    /\ ToSet(timers) \cup ToSet(due) \cup ToSet(fire) \cup Dispatching \subseteq started
    /\ stopped \subseteq started
    /\ \A t \in Timers : t \in stopped \/ t \notin started => ~active[t]
    /\ \A t \in Timers : t \notin started => begun[t] = 0

\* fireDueTimers has sent everything when it returns; the dispatcher has a handle.
Placed ==
    /\ sched # "send" => due = <<>>
    /\ loop \in {"dispatch", "callback", "reping"} => th \in Timers

Somewhere ==
    ~ctxDone => \A t \in Timers : active[t] =>
        t \in ToSet(timers) \cup ToSet(due) \cup ToSet(fire) \cup Dispatching

TimeOver == \A t \in ToSet(due) \cup ToSet(fire) \cup Dispatching : left[t] = 0

\* A one-shot timer whose callback has begun is nowhere on its way to another.
OnceOnly ==
    \A t \in Timers : repeat[t] = 0 =>
        /\ begun[t] <= 1
        /\ begun[t] = 1 => /\ t \notin ToSet(timers) \cup ToSet(due) \cup ToSet(fire)
                           /\ ~(loop = "dispatch" /\ th = t)

\* Nor is a timer whose callback has begun after Stop about to begin another.
LateOnce ==
    \A t \in Timers : /\ late[t] <= 1
                      /\ late[t] = 1 => t \in stopped /\ ~(loop = "dispatch" /\ th = t)

UTInv == UTTypeOK /\ Distinct /\ OfStarted /\ Placed /\ Somewhere /\ TimeOver /\ OnceOnly /\ LateOnce

-----------------------------------------------------------------------------
(* Sequences without duplicates.                                           *)

\* Appending a handle that is not in a sequence keeps its handles different.
LEMMA InjAppend ==
    ASSUME NEW S, NEW s \in Seq(S), NEW x \in S, IsInjective(s), x \notin ToSet(s)
    PROVE  /\ Append(s, x) \in Seq(S) /\ IsInjective(Append(s, x))
           /\ ToSet(Append(s, x)) = ToSet(s) \cup {x}
<1> DEFINE a == Append(s, x)
<1>1. /\ a \in Seq(S) /\ DOMAIN a = 1 .. Len(s) + 1 /\ DOMAIN s = 1 .. Len(s) /\ Len(s) \in Nat
      /\ \A i \in 1 .. Len(s) : a[i] = s[i]
      /\ a[Len(s) + 1] = x
  BY AppendProperties
<1> HIDE DEF a
<1>2. \A i \in DOMAIN s : s[i] # x BY DEF ToSet
<1>3. IsInjective(a) BY <1>1, <1>2 DEF IsInjective
<1>4. ToSet(a) = ToSet(s) \cup {x}
  <2>1. \A y \in ToSet(a) : y \in ToSet(s) \cup {x} BY <1>1 DEF ToSet
  <2>2. \A y \in ToSet(s) : y \in ToSet(a) BY <1>1 DEF ToSet
  <2>3. x \in ToSet(a) BY <1>1 DEF ToSet
  <2> QED BY <2>1, <2>2, <2>3
<1> QED BY <1>1, <1>3, <1>4 DEF a

\* Taking the first handle off keeps the rest different.
LEMMA InjTail ==
    ASSUME NEW S, NEW s \in Seq(S), s # <<>>, IsInjective(s)
    PROVE  /\ Tail(s) \in Seq(S) /\ IsInjective(Tail(s)) /\ Len(Tail(s)) = Len(s) - 1
           /\ Head(s) \in S /\ Head(s) \in ToSet(s)
           /\ ToSet(Tail(s)) = ToSet(s) \ {Head(s)}
<1> DEFINE a == Tail(s)
<1>1. /\ a \in Seq(S) /\ Len(a) = Len(s) - 1 /\ Len(s) \in Nat \ {0}
      /\ DOMAIN a = 1 .. Len(s) - 1 /\ DOMAIN s = 1 .. Len(s)
      /\ \A i \in 1 .. Len(s) - 1 : a[i] = s[i + 1]
      /\ Head(s) = s[1] /\ s[1] \in S
  BY HeadTailProperties
<1> HIDE DEF a
<1>2. IsInjective(a)
  <2> SUFFICES ASSUME NEW i \in DOMAIN a, NEW j \in DOMAIN a, a[i] = a[j] PROVE i = j
    BY DEF IsInjective
  <2>1. s[i + 1] = s[j + 1] /\ i + 1 \in DOMAIN s /\ j + 1 \in DOMAIN s BY <1>1
  <2>2. i + 1 = j + 1 BY <2>1 DEF IsInjective
  <2> QED BY <1>1, <2>2
<1>3. Head(s) \in ToSet(s) BY <1>1 DEF ToSet
<1>4. ToSet(a) = ToSet(s) \ {Head(s)}
  <2>1. ASSUME NEW y \in ToSet(a) PROVE y \in ToSet(s) \ {Head(s)}
    <3>1. PICK i \in DOMAIN a : y = a[i] BY <2>1 DEF ToSet
    <3>2. i + 1 \in DOMAIN s /\ y = s[i + 1] /\ i + 1 # 1 /\ 1 \in DOMAIN s BY <1>1, <3>1
    <3>3. s[i + 1] # s[1] BY <3>2 DEF IsInjective
    <3> QED BY <1>1, <3>2, <3>3 DEF ToSet
  <2>2. ASSUME NEW y \in ToSet(s) \ {Head(s)} PROVE y \in ToSet(a)
    <3>1. PICK i \in DOMAIN s : y = s[i] BY <2>2 DEF ToSet
    <3>2. i # 1 BY <1>1, <3>1
    <3>3. i - 1 \in DOMAIN a /\ a[i - 1] = s[i] BY <1>1, <3>2
    <3> QED BY <3>1, <3>3 DEF ToSet
  <2> QED BY <2>1, <2>2
<1> QED BY <1>1, <1>2, <1>3, <1>4 DEF a

\* What the loop of fireDueTimers picks.
LEMMA InjPick ==
    ASSUME NEW S, NEW s \in Seq(S), IsInjective(s),
           NEW I \in SUBSET DOMAIN s, NEW o \in InOrder(I)
    PROVE  LET a == [k \in DOMAIN o |-> s[o[k]]] IN
           a \in Seq(S) /\ IsInjective(a) /\ ToSet(a) = {s[i] : i \in I}
<1> DEFINE a == [k \in DOMAIN o |-> s[o[k]]]
<1>1. Cardinality(I) \in Nat
  <2>1. IsFiniteSet(1 .. Len(s)) BY FS_Interval
  <2>2. I \subseteq 1 .. Len(s) OBVIOUS
  <2>3. IsFiniteSet(I) BY <2>1, <2>2, FS_Subset
  <2> QED BY <2>3, FS_CardinalityType
<1>2. /\ o \in [1 .. Cardinality(I) -> I]
      /\ \A i, j \in 1 .. Cardinality(I) : o[i] = o[j] => i = j
      /\ \A i \in I : \E k \in 1 .. Cardinality(I) : o[k] = i
  BY DEF InOrder, Bijection, Injection, Surjection, IsInjective
<1>3. a = [k \in 1 .. Cardinality(I) |-> s[o[k]]] BY <1>2
<1>4. \A i \in I : s[i] \in S OBVIOUS
<1>5. a \in Seq(S)
  <2>1. a \in [1 .. Cardinality(I) -> S] BY <1>2, <1>3, <1>4
  <2> QED BY <1>1, <2>1, SeqDef
<1>6. IsInjective(a) BY <1>2, <1>3 DEF IsInjective
<1>7. ToSet(a) = {s[i] : i \in I} BY <1>2, <1>3 DEF ToSet
<1> QED BY <1>5, <1>6, <1>7

\* Two sequences of different handles that share none have different handles together.
LEMMA InjConcat ==
    ASSUME NEW S, NEW a \in Seq(S), NEW b \in Seq(S), IsInjective(a), IsInjective(b),
           ToSet(a) \cap ToSet(b) = {}
    PROVE  a \o b \in Seq(S) /\ IsInjective(a \o b) /\ ToSet(a \o b) = ToSet(a) \cup ToSet(b)
<1> DEFINE c == a \o b
<1>1. /\ c \in Seq(S) /\ Len(a) \in Nat /\ Len(b) \in Nat
      /\ DOMAIN a = 1 .. Len(a) /\ DOMAIN b = 1 .. Len(b) /\ DOMAIN c = 1 .. Len(a) + Len(b)
      /\ \A i \in 1 .. Len(a) : c[i] = a[i]
      /\ \A i \in Len(a) + 1 .. Len(a) + Len(b) : c[i] = b[i - Len(a)]
  BY ConcatProperties
<1> HIDE DEF c
<1>2. \A i \in DOMAIN a, j \in DOMAIN b : a[i] # b[j] BY DEF ToSet
<1>3. IsInjective(c)
  <2> SUFFICES ASSUME NEW i \in DOMAIN c, NEW j \in DOMAIN c, c[i] = c[j] PROVE i = j
    BY DEF IsInjective
  <2>1. CASE i \in DOMAIN a /\ j \in DOMAIN a BY <1>1, <2>1 DEF IsInjective
  <2>2. CASE i \notin DOMAIN a /\ j \notin DOMAIN a
    <3>1. i - Len(a) \in DOMAIN b /\ j - Len(a) \in DOMAIN b /\ b[i - Len(a)] = b[j - Len(a)]
      BY <1>1, <2>2
    <3>2. i - Len(a) = j - Len(a) BY <3>1 DEF IsInjective
    <3> QED BY <1>1, <3>2
  <2>3. CASE i \in DOMAIN a /\ j \notin DOMAIN a
    <3>1. c[i] = a[i] /\ j - Len(a) \in DOMAIN b /\ c[j] = b[j - Len(a)] BY <1>1, <2>3
    <3> QED BY <1>2, <2>3, <3>1
  <2>4. CASE i \notin DOMAIN a /\ j \in DOMAIN a
    <3>1. c[j] = a[j] /\ i - Len(a) \in DOMAIN b /\ c[i] = b[i - Len(a)] BY <1>1, <2>4
    <3> QED BY <1>2, <2>4, <3>1
  <2> QED BY <2>1, <2>2, <2>3, <2>4
<1>4. ToSet(c) = ToSet(a) \cup ToSet(b)
  <2>1. ASSUME NEW y \in ToSet(c) PROVE y \in ToSet(a) \cup ToSet(b)
    <3>1. PICK i \in DOMAIN c : y = c[i] BY <2>1 DEF ToSet
    <3>2. \/ i \in DOMAIN a /\ y = a[i]
          \/ i - Len(a) \in DOMAIN b /\ y = b[i - Len(a)]
      BY <1>1, <3>1
    <3> QED BY <3>2 DEF ToSet
  <2>2. \A y \in ToSet(a) : y \in ToSet(c) BY <1>1 DEF ToSet
  <2>3. ASSUME NEW y \in ToSet(b) PROVE y \in ToSet(c)
    <3>1. PICK i \in DOMAIN b : y = b[i] BY <2>3 DEF ToSet
    <3>2. i + Len(a) \in Len(a) + 1 .. Len(a) + Len(b) BY <1>1
    <3>3. i + Len(a) \in DOMAIN c /\ c[i + Len(a)] = b[i] BY <1>1, <3>2
    <3> QED BY <3>1, <3>3 DEF ToSet
  <2> QED BY <2>1, <2>2, <2>3
<1> QED BY <1>1, <1>3, <1>4 DEF c

\* The same handles, in the four places as in their concatenation.
LEMMA PlacesOnce ==
    ASSUME UTTypeOK, Distinct, Placed
    PROVE  /\ IsInjective(Places)
           /\ ToSet(Places) = ToSet(timers) \cup ToSet(due) \cup ToSet(fire) \cup Dispatching
           /\ ToSet(due \o fire \o InDispatch) = ToSet(due) \cup ToSet(fire) \cup Dispatching
<1>1. timers \in Seq(Timers) /\ due \in Seq(Timers) /\ fire \in Seq(Timers) BY DEF UTTypeOK
<1>2. InDispatch \in Seq(Timers) /\ IsInjective(InDispatch) /\ ToSet(InDispatch) = Dispatching
  <2>1. CASE loop \in {"dispatch", "callback"}
    <3>1. InDispatch = <<th>> /\ th \in Timers BY <2>1 DEF InDispatch, Placed
    <3>2. Dispatching = {th} BY <2>1 DEF Dispatching
    <3> QED BY <3>1, <3>2 DEF IsInjective, ToSet
  <2>2. CASE loop \notin {"dispatch", "callback"}
    <3>1. InDispatch = <<>> /\ Dispatching = {} BY <2>2 DEF InDispatch, Dispatching
    <3> QED BY <3>1 DEF IsInjective, ToSet
  <2> QED BY <2>1, <2>2
<1> DEFINE td == timers \o due
           tdf == td \o fire
<1>3. td \in Seq(Timers) /\ IsInjective(td) /\ ToSet(td) = ToSet(timers) \cup ToSet(due)
  BY <1>1, InjConcat DEF Distinct
<1>4. /\ tdf \in Seq(Timers) /\ IsInjective(tdf)
      /\ ToSet(tdf) = ToSet(timers) \cup ToSet(due) \cup ToSet(fire)
  <2> HIDE DEF td
  <2> QED BY <1>1, <1>3, InjConcat DEF Distinct
<1>5. /\ IsInjective(tdf \o InDispatch)
      /\ ToSet(tdf \o InDispatch) = ToSet(timers) \cup ToSet(due) \cup ToSet(fire) \cup Dispatching
  <2> HIDE DEF tdf
  <2>1. ToSet(tdf) \cap ToSet(InDispatch) = {} BY <1>2, <1>4 DEF Distinct
  <2> QED BY <1>2, <1>4, <2>1, InjConcat
<1> DEFINE df == due \o fire
<1>6. df \in Seq(Timers) /\ IsInjective(df) /\ ToSet(df) = ToSet(due) \cup ToSet(fire)
  BY <1>1, InjConcat DEF Distinct
<1>7. ToSet(df \o InDispatch) = ToSet(due) \cup ToSet(fire) \cup Dispatching
  <2> HIDE DEF df
  <2>1. ToSet(df) \cap ToSet(InDispatch) = {} BY <1>2, <1>6 DEF Distinct
  <2> QED BY <1>2, <1>6, <2>1, InjConcat
<1> QED BY <1>5, <1>7 DEF Places

-----------------------------------------------------------------------------
(* The invariant at the start, and under the steps that move no handle.    *)

\* The invariant of the timers holds when the loop is made.
LEMMA UTInitInv == UTInit => UTInv
<1> SUFFICES ASSUME UTInit PROVE UTInv OBVIOUS
<1>1. UTTypeOK
  <2>1. active \in [Timers -> BOOLEAN] BY DEF UTInit
  <2>2. /\ repeat \in [Timers -> Repeats \cup {0}] /\ left \in [Timers -> 0..MaxDelay]
        /\ begun \in [Timers -> 0..2] /\ late \in [Timers -> 0..2] /\ cur \in 0..MaxDelay
    BY BoundsAreNat DEF UTInit
  <2>3. /\ timers \in Seq(Timers) /\ due \in Seq(Timers)
        /\ fire \in Seq(Timers) /\ Len(fire) <= FireCap
    BY BoundsAreNat DEF UTInit
  <2> QED BY <2>1, <2>2, <2>3 DEF UTInit, UTTypeOK
<1>2. ToSet(timers) = {} /\ ToSet(due) = {} /\ ToSet(fire) = {} /\ Dispatching = {}
  BY DEF UTInit, ToSet, Dispatching
<1>3. Distinct BY <1>2 DEF UTInit, Distinct, IsInjective
<1>4. OfStarted /\ Placed BY <1>2 DEF UTInit, OfStarted, Placed
<1>5. Somewhere /\ TimeOver BY <1>2 DEF UTInit, Somewhere, TimeOver
<1>6. OnceOnly /\ LateOnce BY <1>2 DEF UTInit, OnceOnly, LateOnce
<1> QED BY <1>1, <1>3, <1>4, <1>5, <1>6 DEF UTInv

\* A step that moves no handle.
LEMMA Unmoved ==
    ASSUME UTInv,
           UNCHANGED <<active, repeat, left, started, timers, due, fire, begun, stopped, late>>,
           ctxDone => ctxDone',
           Dispatching' = Dispatching,
           loop' = "dispatch" => loop = "dispatch" /\ th' = th
    PROVE  Distinct' /\ OfStarted' /\ Somewhere' /\ TimeOver' /\ OnceOnly' /\ LateOnce'
<1>1. Distinct' BY DEF UTInv, Distinct
<1>2. OfStarted' BY DEF UTInv, OfStarted
<1>3. Somewhere' /\ TimeOver' BY DEF UTInv, Somewhere, TimeOver
<1>4. OnceOnly' /\ LateOnce' BY DEF UTInv, OnceOnly, LateOnce
<1> QED BY <1>1, <1>2, <1>3, <1>4

\* PingScheduler, RequestStop and Cancel.
LEMMA SignalStep ==
    ASSUME UTInv, RequestStop \/ Cancel \/ \E g \in Callers \cup {Loop} : PingScheduler(g)
    PROVE  UTInv'
<1>1. /\ UNCHANGED <<active, repeat, left, started, timers, due, fire, begun, stopped, late>>
      /\ UNCHANGED <<sched, cur, loop, mode, th>>
      /\ pinging' \subseteq pinging
  BY DEF RequestStop, Cancel, PingScheduler, handleVars, schedVars, loopVars, utStopVars, histVars
<1>2. ctxDone => ctxDone' BY DEF RequestStop, Cancel, PingScheduler, utStopVars
<1>3. wake' \in BOOLEAN /\ stopFlag' \in BOOLEAN /\ stopping' \in BOOLEAN /\ ctxDone' \in BOOLEAN
  BY DEF RequestStop, Cancel, PingScheduler, utStopVars, UTInv, UTTypeOK
<1>4. UTTypeOK' BY <1>1, <1>3 DEF UTInv, UTTypeOK
<1>5. Placed' BY <1>1 DEF UTInv, Placed
<1>6. Dispatching' = Dispatching BY <1>1 DEF Dispatching
<1> QED BY <1>1, <1>2, <1>4, <1>5, <1>6, Unmoved DEF UTInv

\* A set of naturals has a least element.
LEMMA LeastOf ==
    ASSUME NEW T \in SUBSET Nat, T # {}
    PROVE  \E x \in T : \A y \in T : x <= y
<1> DEFINE R == {ss \in Nat \X Nat : ss[1] < ss[2]}
<1>1. IsWellFoundedOn(R, Nat) BY NatLessThanWellFounded DEF OpToRel
<1>2. \A x, y \in Nat : <<y, x>> \in R <=> y < x OBVIOUS
<1> HIDE DEF R
<1>3. PICK x \in T : \A y \in T : ~(<<y, x>> \in R) BY <1>1, WFMin
<1>4. \A y \in T : ~(y < x) BY <1>2, <1>3
<1>5. \A y \in T : x <= y BY <1>4
<1> QED BY <1>5

\* nextTimerDeadline is the deadline of an active timer, none of which is earlier.
LEMMA NextDeadline ==
    ASSUME UTTypeOK, ActiveListed # {}
    PROVE  /\ nextTimerDeadline \in 0..MaxDelay
           /\ \A t \in ActiveListed : nextTimerDeadline <= left[t]
<1> DEFINE T == {left[t] : t \in ActiveListed}
<1>1. ActiveListed \subseteq Timers
  <2>1. \A i \in DOMAIN timers : timers[i] \in Timers BY DEF UTTypeOK
  <2> QED BY <2>1 DEF ActiveListed, ToSet
<1>2. T \in SUBSET (0..MaxDelay) /\ T # {} BY <1>1 DEF UTTypeOK
<1>3. T \in SUBSET Nat BY <1>2, BoundsAreNat
<1>4. \E d \in T : \A e \in T : d <= e BY <1>2, <1>3, LeastOf
<1>5. \E d \in T : \A t \in ActiveListed : d <= left[t] BY <1>4
<1>6. nextTimerDeadline \in T /\ \A t \in ActiveListed : nextTimerDeadline <= left[t]
  BY <1>5 DEF nextTimerDeadline
<1> QED BY <1>2, <1>6

\* The scheduler goes from one wait to another.
LEMMA SchedulerWaits ==
    ASSUME UTInv, SchedWake \/ SchedArm \/ SchedRewake \/ SchedExpired \/ SchedDone
    PROVE  UTInv'
<1>1. /\ UNCHANGED <<active, repeat, left, started, timers, due, fire, begun, stopped, late>>
      /\ UNCHANGED <<loop, mode, th, pinging, stopFlag, stopping, ctxDone>>
      /\ sched' \in {"wait", "arm", "armed", "fire", "exit"}
      /\ sched \in {"wait", "arm", "armed"}
  BY DEF SchedWake, SchedArm, SchedRewake, SchedExpired, SchedDone, handleVars, loopVars,
         utStopVars, histVars
<1>2. cur' \in 0..MaxDelay
  <2>1. CASE SchedArm BY <2>1, NextDeadline, BoundsAreNat DEF SchedArm, UTInv
  <2>2. CASE SchedWake \/ SchedRewake \/ SchedExpired \/ SchedDone
    BY <2>2, BoundsAreNat DEF SchedWake, SchedRewake, SchedExpired, SchedDone, UTInv, UTTypeOK
  <2> QED BY <2>1, <2>2
<1>3. wake' \in BOOLEAN
  BY DEF SchedWake, SchedArm, SchedRewake, SchedExpired, SchedDone, UTInv, UTTypeOK
<1>4. UTTypeOK' BY <1>1, <1>2, <1>3 DEF UTInv, UTTypeOK
<1>5. Placed' BY <1>1 DEF UTInv, Placed
<1>6. Dispatching' = Dispatching BY <1>1 DEF Dispatching
<1> QED BY <1>1, <1>4, <1>5, <1>6, Unmoved DEF UTInv

\* RunMode goes on without a handle.
LEMMA LoopGoesOn ==
    ASSUME UTInv,
           \/ IterationTop \/ PollEmpty \/ PollOther \/ PollDone \/ Repinged \/ IterationEnd
           \/ Teardown \/ \E m \in Modes : RunMode(m)
    PROVE  UTInv'
<1>1. /\ UNCHANGED <<active, repeat, left, started, timers, due, fire, begun, stopped, late>>
      /\ UNCHANGED <<cur, wake, pinging, stopping, ctxDone>>
  BY DEF IterationTop, PollEmpty, PollOther, PollDone, Repinged, IterationEnd, Teardown, RunMode,
         handleVars, schedVars, utStopVars, histVars
<1>2. /\ loop \notin {"dispatch", "callback"}
      /\ loop' \in {"out", "top", "poll", "check", "teardown"}
      /\ mode' \in Modes \cup {None} /\ th' \in Timers \cup {None}
  BY DEF IterationTop, PollEmpty, PollOther, PollDone, Repinged, IterationEnd, Teardown, RunMode,
         AfterDispatch, UTInv, UTTypeOK
<1>3. stopFlag' \in BOOLEAN
  BY DEF IterationTop, PollEmpty, PollOther, PollDone, Repinged, IterationEnd, Teardown, RunMode,
         utStopVars, UTInv, UTTypeOK
<1>4. sched' = sched \/ (sched = "off" /\ sched' = "wait")
  BY DEF IterationTop, PollEmpty, PollOther, PollDone, Repinged, IterationEnd, Teardown, RunMode,
         schedVars
<1>5. UTTypeOK' BY <1>1, <1>2, <1>3, <1>4 DEF UTInv, UTTypeOK
<1>6. Placed' BY <1>1, <1>2, <1>4 DEF UTInv, Placed
<1>7. Dispatching' = Dispatching BY <1>2 DEF Dispatching
<1> QED BY <1>1, <1>2, <1>5, <1>6, <1>7, Unmoved DEF UTInv

-----------------------------------------------------------------------------
(* The steps that move handles.                                            *)

\* TimerStart: a new handle enters the list.
LEMMA TimerStartStep ==
    ASSUME UTInv, NEW g \in Callers \cup {Loop}, NEW t \in Timers, NEW first \in 0..MaxDelay,
           NEW every \in Repeats, TimerStart(g, t, first, every)
    PROVE  UTInv'
<1>1. /\ UNCHANGED <<wake, sched, cur, due, fire, loop, mode, th, stopFlag, stopping, ctxDone,
                     begun, stopped, late>>
      /\ t \notin started /\ started' = started \cup {t}
      /\ active' = [active EXCEPT ![t] = TRUE]
      /\ repeat' = [repeat EXCEPT ![t] = every]
      /\ left' = [left EXCEPT ![t] = first]
      /\ timers' = Append(timers, t)
      /\ pinging' = pinging \cup {g}
  BY DEF TimerStart, schedVars, loopVars, utStopVars, histVars
<1>2. t \notin ToSet(timers) \cup ToSet(due) \cup ToSet(fire) \cup Dispatching
  BY <1>1 DEF UTInv, OfStarted
<1>3. /\ timers' \in Seq(Timers) /\ IsInjective(timers')
      /\ ToSet(timers') = ToSet(timers) \cup {t}
  <2>1. timers \in Seq(Timers) /\ IsInjective(timers) BY DEF UTInv, UTTypeOK, Distinct
  <2> QED BY <1>1, <1>2, <2>1, InjAppend
<1>4. Dispatching' = Dispatching BY <1>1 DEF Dispatching
<1>5. UTTypeOK'
  <2>1. active' \in [Timers -> BOOLEAN] BY <1>1, Zenon DEF UTInv, UTTypeOK
  <2>2. repeat' \in [Timers -> Repeats \cup {0}] /\ left' \in [Timers -> 0..MaxDelay]
    BY <1>1 DEF UTInv, UTTypeOK
  <2> QED BY <1>1, <1>3, <2>1, <2>2 DEF UTInv, UTTypeOK
<1>6. /\ active'[t]
      /\ \A u \in Timers \ {t} : /\ active'[u] <=> active[u]
                                 /\ repeat'[u] = repeat[u] /\ left'[u] = left[u]
  BY <1>1 DEF UTInv, UTTypeOK
<1>7. Distinct' BY <1>1, <1>2, <1>3, <1>4 DEF UTInv, Distinct
<1>8. OfStarted'
  <2>1. t \notin stopped BY <1>1 DEF UTInv, OfStarted
  <2> QED BY <1>1, <1>3, <1>4, <1>6, <2>1 DEF UTInv, OfStarted
<1>9. Placed' BY <1>1 DEF UTInv, Placed
<1>10. Somewhere' BY <1>1, <1>3, <1>4, <1>6 DEF UTInv, Somewhere
<1>11. TimeOver'
  <2>1. ToSet(due) \cup ToSet(fire) \cup Dispatching \subseteq Timers \ {t}
    BY <1>2 DEF UTInv, UTTypeOK, OfStarted
  <2> QED BY <1>1, <1>4, <1>6, <2>1 DEF UTInv, TimeOver
<1>12. OnceOnly'
  <2>1. begun[t] = 0 BY <1>1 DEF UTInv, OfStarted
  <2> QED BY <1>1, <1>3, <1>6, <2>1 DEF UTInv, OnceOnly
<1>13. LateOnce' BY <1>1 DEF UTInv, LateOnce
<1> QED BY <1>5, <1>7, <1>8, <1>9, <1>10, <1>11, <1>12, <1>13 DEF UTInv

\* Timer.Stop: the handle stays where it is.
LEMMA StopTimerStep ==
    ASSUME UTInv, NEW g \in Callers \cup {Loop}, NEW t \in Timers, StopTimer(g, t)
    PROVE  UTInv'
<1>1. /\ UNCHANGED <<repeat, left, started, timers, wake, sched, cur, due, fire, loop, mode, th,
                     stopFlag, stopping, ctxDone, begun, late>>
      /\ t \in started /\ stopped' = stopped \cup {t}
      /\ active' = [active EXCEPT ![t] = FALSE]
      /\ pinging' = pinging \cup {g}
  BY DEF StopTimer, schedVars, loopVars, utStopVars
<1>2. UTTypeOK'
  <2>1. active' \in [Timers -> BOOLEAN] BY <1>1, Zenon DEF UTInv, UTTypeOK
  <2> QED BY <1>1, <2>1 DEF UTInv, UTTypeOK
<1>3. Dispatching' = Dispatching BY <1>1 DEF Dispatching
<1>4. ~active'[t] /\ \A u \in Timers \ {t} : active'[u] <=> active[u]
  BY <1>1 DEF UTInv, UTTypeOK
<1>5. Distinct' BY <1>1, <1>3 DEF UTInv, Distinct
<1>6. OfStarted' BY <1>1, <1>3, <1>4 DEF UTInv, OfStarted
<1>7. Placed' BY <1>1 DEF UTInv, Placed
<1>8. Somewhere' BY <1>1, <1>3, <1>4 DEF UTInv, Somewhere
<1>9. TimeOver' BY <1>1, <1>3 DEF UTInv, TimeOver
<1>10. OnceOnly' BY <1>1 DEF UTInv, OnceOnly
<1>11. LateOnce' BY <1>1 DEF UTInv, LateOnce
<1> QED BY <1>2, <1>5, <1>6, <1>7, <1>8, <1>9, <1>10, <1>11 DEF UTInv

\* fireDueTimers: the list is divided between the scheduler and itself.
LEMMA FireDueStep ==
    ASSUME UTInv, FireDueTimers
    PROVE  UTInv'
<1>1. /\ UNCHANGED <<active, repeat, left, started, wake, pinging, cur, fire, loop, mode, th,
                     stopFlag, stopping, ctxDone, begun, stopped, late>>
      /\ sched = "fire" /\ sched' = "send"
  BY DEF FireDueTimers, handleVars, loopVars, utStopVars, histVars
<1> DEFINE D == {i \in DOMAIN timers : IsDue(timers[i])}
           R == {i \in DOMAIN timers : IsLater(timers[i])}
<1>2. timers \in Seq(Timers) /\ IsInjective(timers) BY DEF UTInv, UTTypeOK, Distinct
<1>3. PICK d \in InOrder(D), r \in InOrder(R) :
          /\ due' = [k \in DOMAIN d |-> timers[d[k]]]
          /\ timers' = [k \in DOMAIN r |-> timers[r[k]]]
  BY DEF FireDueTimers
<1>4. D \in SUBSET DOMAIN timers /\ R \in SUBSET DOMAIN timers OBVIOUS
<1>5. due' \in Seq(Timers) /\ IsInjective(due') /\ ToSet(due') = {timers[i] : i \in D}
  <2> DEFINE a == [k \in DOMAIN d |-> timers[d[k]]]
  <2> HIDE DEF D
  <2>1. a \in Seq(Timers) /\ IsInjective(a) /\ ToSet(a) = {timers[i] : i \in D}
    BY <1>2, <1>3, <1>4, InjPick
  <2>2. due' = a BY <1>3
  <2> QED BY <2>1, <2>2
<1>6. timers' \in Seq(Timers) /\ IsInjective(timers') /\ ToSet(timers') = {timers[i] : i \in R}
  <2> DEFINE a == [k \in DOMAIN r |-> timers[r[k]]]
  <2> HIDE DEF R
  <2>1. a \in Seq(Timers) /\ IsInjective(a) /\ ToSet(a) = {timers[i] : i \in R}
    BY <1>2, <1>3, <1>4, InjPick
  <2>2. timers' = a BY <1>3
  <2> QED BY <2>1, <2>2
<1>7. /\ ToSet(due') = {t \in ToSet(timers) : IsDue(t)}
      /\ ToSet(timers') = {t \in ToSet(timers) : IsLater(t)}
  <2>1. ToSet(timers) = {timers[i] : i \in DOMAIN timers} BY DEF ToSet
  <2>2. {timers[i] : i \in D} = {t \in ToSet(timers) : IsDue(t)} BY <2>1
  <2>3. {timers[i] : i \in R} = {t \in ToSet(timers) : IsLater(t)} BY <2>1
  <2> QED BY <1>5, <1>6, <2>2, <2>3
<1>8. due = <<>> /\ ToSet(due) = {} BY <1>1 DEF UTInv, Placed, ToSet
<1>9. ToSet(timers) \subseteq Timers BY DEF UTInv, UTTypeOK, OfStarted
<1>10. \A t \in Timers : left[t] \in Nat BY BoundsAreNat DEF UTInv, UTTypeOK
<1>11. /\ ToSet(due') \cup ToSet(timers') \subseteq ToSet(timers)
       /\ ToSet(due') \cap ToSet(timers') = {}
       /\ \A t \in ToSet(timers) : active[t] => t \in ToSet(due') \cup ToSet(timers')
       /\ \A t \in ToSet(due') : left[t] = 0
  BY <1>7, <1>9, <1>10 DEF IsDue, IsLater
<1>12. Dispatching' = Dispatching BY <1>1 DEF Dispatching
<1>13. UTTypeOK' BY <1>1, <1>5, <1>6 DEF UTInv, UTTypeOK
<1>14. Distinct' BY <1>1, <1>5, <1>6, <1>11, <1>12 DEF UTInv, Distinct
<1>15. OfStarted' BY <1>1, <1>11, <1>12 DEF UTInv, OfStarted
<1>16. Placed' BY <1>1 DEF UTInv, Placed
<1>17. Somewhere' BY <1>1, <1>8, <1>11, <1>12 DEF UTInv, Somewhere
<1>18. TimeOver' BY <1>1, <1>11, <1>12 DEF UTInv, TimeOver
<1>19. OnceOnly' BY <1>1, <1>11 DEF UTInv, OnceOnly
<1>20. LateOnce' BY <1>1 DEF UTInv, LateOnce
<1> QED BY <1>13, <1>14, <1>15, <1>16, <1>17, <1>18, <1>19, <1>20 DEF UTInv

\* A due handle goes from the scheduler to the channel.
LEMMA SendDueStep ==
    ASSUME UTInv, SendDue
    PROVE  UTInv'
<1> DEFINE t == Head(due)
<1>1. /\ UNCHANGED <<active, repeat, left, started, timers, wake, pinging, sched, cur, loop, mode,
                     th, stopFlag, stopping, ctxDone, begun, stopped, late>>
      /\ sched = "send" /\ due # <<>> /\ Len(fire) < FireCap
      /\ fire' = Append(fire, t) /\ due' = Tail(due)
  BY DEF SendDue, handleVars, loopVars, utStopVars, histVars
<1>2. /\ due' \in Seq(Timers) /\ IsInjective(due') /\ t \in Timers /\ t \in ToSet(due)
      /\ ToSet(due') = ToSet(due) \ {t}
  BY <1>1, InjTail DEF UTInv, UTTypeOK, Distinct
<1> HIDE DEF t
<1>3. /\ fire' \in Seq(Timers) /\ IsInjective(fire') /\ ToSet(fire') = ToSet(fire) \cup {t}
      /\ Len(fire') <= FireCap
  <2>1. fire \in Seq(Timers) /\ IsInjective(fire) /\ t \notin ToSet(fire)
    BY <1>2 DEF UTInv, UTTypeOK, Distinct
  <2>2. Len(fire') = Len(fire) + 1 BY <1>1, <2>1
  <2> QED BY <1>1, <1>2, <2>1, <2>2, InjAppend, BoundsAreNat
<1>4. Dispatching' = Dispatching BY <1>1 DEF Dispatching
<1>5. UTTypeOK' BY <1>1, <1>2, <1>3 DEF UTInv, UTTypeOK
<1>6. Distinct' BY <1>1, <1>2, <1>3, <1>4 DEF UTInv, Distinct
<1>7. OfStarted' BY <1>1, <1>2, <1>3, <1>4 DEF UTInv, OfStarted
<1>8. Placed' BY <1>1 DEF UTInv, Placed
<1>9. Somewhere' BY <1>1, <1>2, <1>3, <1>4 DEF UTInv, Somewhere
<1>10. TimeOver' BY <1>1, <1>2, <1>3, <1>4 DEF UTInv, TimeOver
<1>11. OnceOnly' BY <1>1, <1>2, <1>3 DEF UTInv, OnceOnly
<1>12. LateOnce' BY <1>1 DEF UTInv, LateOnce
<1> QED BY <1>5, <1>6, <1>7, <1>8, <1>9, <1>10, <1>11, <1>12 DEF UTInv

\* fireDueTimers returns.
LEMMA SentDueStep ==
    ASSUME UTInv, SentDue
    PROVE  UTInv'
<1>1. /\ UNCHANGED <<active, repeat, left, started, timers, wake, pinging, cur, fire, loop, mode,
                     th, stopFlag, stopping, ctxDone, begun, stopped, late>>
      /\ due = <<>> \/ ctxDone
      /\ due' = <<>> /\ sched' = "wait"
  BY DEF SentDue, handleVars, loopVars, utStopVars, histVars
<1>2. ToSet(due') = {} /\ due' \in Seq(Timers) /\ IsInjective(due')
  BY <1>1 DEF ToSet, IsInjective
<1>3. Dispatching' = Dispatching BY <1>1 DEF Dispatching
<1>4. UTTypeOK' BY <1>1, <1>2 DEF UTInv, UTTypeOK
<1>5. Distinct' BY <1>1, <1>2, <1>3 DEF UTInv, Distinct
<1>6. OfStarted' BY <1>1, <1>2, <1>3 DEF UTInv, OfStarted
<1>7. Placed' BY <1>1 DEF UTInv, Placed
<1>8. Somewhere' BY <1>1, <1>3 DEF UTInv, Somewhere
<1>9. TimeOver' BY <1>1, <1>2, <1>3 DEF UTInv, TimeOver
<1>10. OnceOnly' BY <1>1, <1>2 DEF UTInv, OnceOnly
<1>11. LateOnce' BY <1>1 DEF UTInv, LateOnce
<1> QED BY <1>4, <1>5, <1>6, <1>7, <1>8, <1>9, <1>10, <1>11 DEF UTInv

\* dispatchTimer takes a handle that is active; one that is not drops out.
LEMMA PollTimerStep ==
    ASSUME UTInv, PollTimer
    PROVE  UTInv'
<1> DEFINE t == Head(fire)
<1>1. /\ UNCHANGED <<active, repeat, left, started, timers, wake, pinging, sched, cur, due, mode,
                     stopFlag, stopping, ctxDone, begun, stopped, late>>
      /\ loop = "poll" /\ fire # <<>> /\ fire' = Tail(fire)
      /\ \/ active[t] /\ loop' = "dispatch" /\ th' = t
         \/ ~active[t] /\ loop' \in {"poll", "check"} /\ th' = None
  BY DEF PollTimer, handleVars, schedVars, utStopVars, histVars
<1>2. /\ fire' \in Seq(Timers) /\ IsInjective(fire') /\ Len(fire') = Len(fire) - 1
      /\ t \in Timers /\ t \in ToSet(fire) /\ ToSet(fire') = ToSet(fire) \ {t}
  BY <1>1, InjTail DEF UTInv, UTTypeOK, Distinct
<1> HIDE DEF t
<1>3. Dispatching = {} BY <1>1 DEF Dispatching
<1>4. \/ active[t] /\ Dispatching' = {t} /\ th' = t
      \/ ~active[t] /\ Dispatching' = {} /\ loop' # "dispatch"
  BY <1>1 DEF Dispatching
<1>5. UTTypeOK'
  <2>1. Len(fire') <= FireCap BY <1>2, BoundsAreNat DEF UTInv, UTTypeOK
  <2>2. th' \in Timers \cup {None} BY <1>1, <1>2
  <2>3. loop' \in {"out", "top", "poll", "dispatch", "callback", "reping", "check", "teardown"}
    BY <1>1
  <2> QED BY <1>1, <1>2, <2>1, <2>2, <2>3 DEF UTInv, UTTypeOK
<1>6. Distinct' BY <1>1, <1>2, <1>4 DEF UTInv, Distinct
<1>7. OfStarted' BY <1>1, <1>2, <1>4 DEF UTInv, OfStarted
<1>8. Placed' BY <1>1, <1>2 DEF UTInv, Placed
<1>9. Somewhere' BY <1>1, <1>2, <1>3, <1>4 DEF UTInv, Somewhere
<1>10. TimeOver' BY <1>1, <1>2, <1>4 DEF UTInv, TimeOver
<1>11. OnceOnly' BY <1>1, <1>2, <1>4 DEF UTInv, OnceOnly
<1>12. LateOnce'
  <2>1. active[t] => t \notin stopped BY <1>2 DEF UTInv, OfStarted
  <2> QED BY <1>1, <1>4, <2>1 DEF UTInv, LateOnce
<1> QED BY <1>5, <1>6, <1>7, <1>8, <1>9, <1>10, <1>11, <1>12 DEF UTInv

\* A callback begins.
LEMMA CallbackBeginStep ==
    ASSUME UTInv, CallbackBegin
    PROVE  UTInv'
<1>1. /\ UNCHANGED <<active, repeat, left, started, timers, wake, pinging, sched, cur, due, fire,
                     mode, th, stopFlag, stopping, ctxDone, stopped>>
      /\ loop = "dispatch" /\ loop' = "callback"
      /\ begun' = [begun EXCEPT ![th] = Capped(begun[th])]
      /\ late' = [late EXCEPT ![th] = IF th \in stopped THEN Capped(late[th]) ELSE late[th]]
  BY DEF CallbackBegin, handleVars, schedVars, utStopVars
<1>2. th \in Timers /\ Dispatching = {th} /\ Dispatching' = {th}
  BY <1>1 DEF UTInv, Placed, Dispatching
<1>3. begun[th] \in 0..2 /\ late[th] \in 0..2 BY <1>2 DEF UTInv, UTTypeOK
<1>4. /\ begun' \in [Timers -> 0..2] /\ late' \in [Timers -> 0..2]
      /\ begun'[th] = Capped(begun[th])
      /\ late'[th] = IF th \in stopped THEN Capped(late[th]) ELSE late[th]
      /\ \A u \in Timers \ {th} : begun'[u] = begun[u] /\ late'[u] = late[u]
  BY <1>1, <1>2, <1>3 DEF UTInv, UTTypeOK, Capped
<1>5. UTTypeOK' BY <1>1, <1>4 DEF UTInv, UTTypeOK
<1>6. Distinct' BY <1>1, <1>2 DEF UTInv, Distinct
<1>7. OfStarted'
  <2>1. th \in started BY <1>2 DEF UTInv, OfStarted
  <2> QED BY <1>1, <1>2, <1>4, <2>1 DEF UTInv, OfStarted
<1>8. Placed' BY <1>1, <1>2 DEF UTInv, Placed
<1>9. Somewhere' /\ TimeOver' BY <1>1, <1>2 DEF UTInv, Somewhere, TimeOver
<1>10. OnceOnly'
  <2>1. th \notin ToSet(timers) \cup ToSet(due) \cup ToSet(fire) BY <1>2 DEF UTInv, Distinct
  <2>2. repeat[th] = 0 => begun[th] = 0 BY <1>1, <1>2, <1>3 DEF UTInv, OnceOnly
  <2> QED BY <1>1, <1>2, <1>3, <1>4, <2>1, <2>2 DEF UTInv, OnceOnly, Capped
<1>11. LateOnce'
  <2>1. late[th] = 0 BY <1>1, <1>2, <1>3 DEF UTInv, LateOnce
  <2> QED BY <1>1, <1>2, <1>4, <2>1 DEF UTInv, LateOnce, Capped
<1> QED BY <1>5, <1>6, <1>7, <1>8, <1>9, <1>10, <1>11 DEF UTInv

\* rescheduleTimer puts a repeating timer back into the list.
LEMMA EndRepeatStep ==
    ASSUME UTInv, CallbackEndRepeat
    PROVE  UTInv'
<1>1. /\ UNCHANGED <<active, repeat, started, wake, sched, cur, due, fire, mode, th, stopFlag,
                     stopping, ctxDone, begun, stopped, late>>
      /\ loop = "callback" /\ loop' = "reping" /\ repeat[th] > 0
      /\ left' = [left EXCEPT ![th] = repeat[th]]
      /\ timers' = IF th \in ToSet(timers) THEN timers ELSE Append(timers, th)
      /\ pinging' = pinging \cup {Loop}
  BY DEF CallbackEndRepeat, schedVars, utStopVars, histVars
<1>2. th \in Timers /\ Dispatching = {th} /\ Dispatching' = {}
  BY <1>1 DEF UTInv, Placed, Dispatching
<1>3. th \notin ToSet(timers) \cup ToSet(due) \cup ToSet(fire) BY <1>2 DEF UTInv, Distinct
<1>4. timers' \in Seq(Timers) /\ IsInjective(timers') /\ ToSet(timers') = ToSet(timers) \cup {th}
  <2>1. timers \in Seq(Timers) /\ IsInjective(timers) BY DEF UTInv, UTTypeOK, Distinct
  <2> QED BY <1>1, <1>2, <1>3, <2>1, InjAppend
<1>5. /\ left' \in [Timers -> 0..MaxDelay]
      /\ \A u \in Timers \ {th} : left'[u] = left[u]
  <2>1. repeat[th] \in 0..MaxDelay
    <3>1. repeat[th] \in Repeats \cup {0} BY <1>2 DEF UTInv, UTTypeOK
    <3>2. \A n \in Repeats : n \in 0..MaxDelay BY RepeatsWithinDelay, Zenon
    <3>3. 0 \in 0..MaxDelay BY BoundsAreNat
    <3> QED BY <3>1, <3>2, <3>3, Zenon
  <2> QED BY <1>1, <1>2, <2>1 DEF UTInv, UTTypeOK
<1>6. UTTypeOK' BY <1>1, <1>4, <1>5 DEF UTInv, UTTypeOK
<1>7. Distinct' BY <1>1, <1>2, <1>3, <1>4 DEF UTInv, Distinct
<1>8. OfStarted' BY <1>1, <1>2, <1>4 DEF UTInv, OfStarted
<1>9. Placed' BY <1>1, <1>2 DEF UTInv, Placed
<1>10. Somewhere' BY <1>1, <1>2, <1>4 DEF UTInv, Somewhere
<1>11. TimeOver'
  <2>1. ToSet(due) \cup ToSet(fire) \subseteq Timers \ {th}
    BY <1>3 DEF UTInv, UTTypeOK, OfStarted
  <2> QED BY <1>1, <1>2, <1>5, <2>1 DEF UTInv, TimeOver
<1>12. OnceOnly' BY <1>1, <1>2, <1>4 DEF UTInv, OnceOnly
<1>13. LateOnce' BY <1>1 DEF UTInv, LateOnce
<1> QED BY <1>6, <1>7, <1>8, <1>9, <1>10, <1>11, <1>12, <1>13 DEF UTInv

\* A one-shot timer is over.
LEMMA EndOneShotStep ==
    ASSUME UTInv, CallbackEndOneShot
    PROVE  UTInv'
<1>1. /\ UNCHANGED <<repeat, left, started, timers, wake, pinging, sched, cur, due, fire, mode,
                     stopFlag, stopping, ctxDone, begun, stopped, late>>
      /\ loop = "callback" /\ loop' \in {"poll", "check"} /\ th' = None
      /\ active' = [active EXCEPT ![th] = FALSE]
  BY DEF CallbackEndOneShot, AfterDispatch, schedVars, utStopVars, histVars
<1>2. th \in Timers /\ Dispatching = {th} /\ Dispatching' = {}
  BY <1>1 DEF UTInv, Placed, Dispatching
<1>3. active' \in [Timers -> BOOLEAN] BY <1>1, Zenon DEF UTInv, UTTypeOK
<1>4. ~active'[th] /\ \A u \in Timers \ {th} : active'[u] <=> active[u]
  BY <1>1, <1>2 DEF UTInv, UTTypeOK
<1>5. UTTypeOK' BY <1>1, <1>3 DEF UTInv, UTTypeOK
<1>6. Distinct' BY <1>1, <1>2 DEF UTInv, Distinct
<1>7. OfStarted' BY <1>1, <1>2, <1>4 DEF UTInv, OfStarted
<1>8. Placed' BY <1>1 DEF UTInv, Placed
<1>9. Somewhere' BY <1>1, <1>2, <1>4 DEF UTInv, Somewhere
<1>10. TimeOver' BY <1>1, <1>2 DEF UTInv, TimeOver
<1>11. OnceOnly' BY <1>1 DEF UTInv, OnceOnly
<1>12. LateOnce' BY <1>1 DEF UTInv, LateOnce
<1> QED BY <1>5, <1>6, <1>7, <1>8, <1>9, <1>10, <1>11, <1>12 DEF UTInv

\* Time passes: what was due stays due.
LEMMA TickStep ==
    ASSUME UTInv, UTTick
    PROVE  UTInv'
<1>1. /\ UNCHANGED <<active, repeat, started, timers, wake, pinging, sched, due, fire, loop, mode,
                     th, stopFlag, stopping, ctxDone, begun, stopped, late>>
      /\ left' = [t \in Timers |-> IF t \in started /\ left[t] > 0 THEN left[t] - 1 ELSE left[t]]
      /\ cur' = IF cur > 0 THEN cur - 1 ELSE 0
  BY DEF UTTick, loopVars, utStopVars, histVars
<1>2. Dispatching' = Dispatching BY <1>1 DEF Dispatching
<1>3. left' \in [Timers -> 0..MaxDelay] /\ cur' \in 0..MaxDelay
  BY <1>1, BoundsAreNat DEF UTInv, UTTypeOK
<1>4. \A t \in Timers : left[t] = 0 => left'[t] = 0 BY <1>1
<1>5. UTTypeOK' BY <1>1, <1>3 DEF UTInv, UTTypeOK
<1>6. Distinct' /\ OfStarted' BY <1>1, <1>2 DEF UTInv, Distinct, OfStarted
<1>7. Placed' /\ Somewhere' BY <1>1, <1>2 DEF UTInv, Placed, Somewhere
<1>8. TimeOver'
  <2>1. ToSet(due) \cup ToSet(fire) \cup Dispatching \subseteq Timers
    BY DEF UTInv, UTTypeOK, OfStarted
  <2> QED BY <1>1, <1>2, <1>4, <2>1 DEF UTInv, TimeOver
<1>9. OnceOnly' /\ LateOnce' BY <1>1 DEF UTInv, OnceOnly, LateOnce
<1> QED BY <1>5, <1>6, <1>7, <1>8, <1>9 DEF UTInv

\* Every step of the API, the scheduler and the loop keeps the invariant of the timers.
LEMMA UTStep == UTInv /\ [UTNext]_utVars => UTInv'
<1> SUFFICES ASSUME UTInv, [UTNext]_utVars PROVE UTInv' OBVIOUS
<1>1. CASE Api BY <1>1, TimerStartStep, StopTimerStep DEF Api
<1>2. CASE Ping \/ RequestStop \/ Cancel BY <1>2, SignalStep DEF Ping
<1>3. CASE Scheduler BY <1>3, SchedulerWaits, FireDueStep, SendDueStep, SentDueStep DEF Scheduler
<1>4. CASE Run \/ PollOther \/ \E m \in Modes : RunMode(m)
  BY <1>4, LoopGoesOn, PollTimerStep, CallbackBeginStep, EndRepeatStep, EndOneShotStep DEF Run
<1>5. CASE UTTick BY <1>5, TickStep
<1>6. CASE UNCHANGED utVars
  <2>1. /\ UNCHANGED <<active, repeat, left, started, timers, due, fire, begun, stopped, late>>
        /\ UNCHANGED <<wake, pinging, sched, cur, loop, mode, th, stopFlag, stopping, ctxDone>>
    BY <1>6 DEF utVars, handleVars, schedVars, loopVars, utStopVars, histVars
  <2>2. UTTypeOK' BY <2>1 DEF UTInv, UTTypeOK
  <2>3. Placed' BY <2>1 DEF UTInv, Placed
  <2>4. Dispatching' = Dispatching BY <2>1 DEF Dispatching
  <2> QED BY <2>1, <2>2, <2>3, <2>4, Unmoved DEF UTInv
<1> QED BY <1>1, <1>2, <1>3, <1>4, <1>5, <1>6 DEF UTNext

\* TimerStart, Timer.Stop, timerScheduler, fireDueTimers and dispatchTimer, for any number
\* of timers and goroutines in any order: a handle is in at most one place and an active
\* one somewhere, no callback begins early, a one-shot's begins once, and at most one
\* begins after Stop.
THEOREM TimersAreConsistent == UTSpec => []TimersConsistent
<1>1. UTInv => TimersConsistent
  <2> SUFFICES ASSUME UTInv PROVE TimersConsistent OBVIOUS
  <2>1. /\ IsInjective(Places)
        /\ ToSet(Places) = ToSet(timers) \cup ToSet(due) \cup ToSet(fire) \cup Dispatching
        /\ ToSet(due \o fire \o InDispatch) = ToSet(due) \cup ToSet(fire) \cup Dispatching
    BY PlacesOnce DEF UTInv
  <2>2. OneOwner BY <2>1 DEF OneOwner, UTInv
  <2>3. ActiveTimerIsSomewhere BY <2>1 DEF ActiveTimerIsSomewhere, UTInv, Somewhere
  <2>4. NeverEarly BY <2>1 DEF NeverEarly, UTInv, TimeOver
  <2>5. OneShotRunsOnce BY DEF OneShotRunsOnce, UTInv, OnceOnly
  <2>6. StopCancelsFurther BY DEF StopCancelsFurther, UTInv, LateOnce
  <2> QED BY <2>2, <2>3, <2>4, <2>5, <2>6 DEF TimersConsistent
<1> QED BY UTInitInv, UTStep, <1>1, PTL DEF UTSpec

-----------------------------------------------------------------------------
(* uvgo's sockets and polled files.                                        *)

\* What goes through the channels of the loop.
UIEvents == UIItems \cup {Failed, "sent", "failed", "posted", "amid"} \cup StatOutcomes

\* Types; and a goroutine that is about to push has something to push.
UITypeOK ==
    /\ uiSock \in [Socks -> {"none", "open", "closing", "closed"}]
    /\ uiClose \in {"idle", "conn", "unlist", "done"}
    /\ uiListen \in [Socks -> {"idle", "bind", "append", "spawn", "done"}]
    /\ uiListed \in SUBSET Socks
    /\ uiTaken \in [{"stop", "loop"} -> SUBSET Socks]
    /\ uiGo \in [Goroutines -> {"none", "read", "push", "report", "top", "stat", "send",
                                "resume", "done"}]
    /\ uiHeld \in [Goroutines -> UIItems \cup {Nil, "resume"}]
    /\ uiQ \in [Goroutines -> Seq(UIEvents)]
    /\ uiItem \in [UIItems -> {"none", "held", "queued", "delivered", "closed", "dropped"}]
    /\ \A k \in Socks : uiGo[k] = "push" => uiHeld[k] \in UIItems
    /\ uiGo["poll"] \in {"send", "resume"} => fpJob \in StatOutcomes

\* A socket that is not closed is still to be listed, is listed, or is being closed by
\* whoever has taken it off the list or has taken its conn; the list stays empty once the
\* loop has taken it; and a socket's goroutine comes last.
SocketsOwned ==
    /\ \A k \in Socks : uiSock[k] \in {"open", "closing"} =>
          uiListen[k] = "append" \/ k \in uiListed \/ BeingClosed(k)
    /\ uiClose # "idle" => uiListen["udp"] = "done"
    /\ uiClose = "conn" => uiSock["udp"] = "closing"
    /\ uiClose \in {"unlist", "done"} => uiSock["udp"] = "closed"
    /\ TearingDown /\ uiRaced = {} => uiListed = {}
    /\ \A k \in Socks : uiListen[k] # "done" => uiGo[k] = "none"
    /\ uiLoop = "returned" /\ uiRaced = {} => \A k \in Socks : uiGo[k] \in {"none", "done"}

\* A connection or datagram that was read is with its goroutine or in its channel, and
\* in the channel only until the loop has drained it.
ItemsKept ==
    /\ \A i \in UIItems : uiItem[i] = "held" => \E k \in Socks : uiGo[k] = "push" /\ uiHeld[k] = i
    /\ \A i \in UIItems : uiItem[i] = "queued" =>
          \/ i \in uiPushed
          \/ uiLoop \notin {"wait", "returned"} /\ \E k \in Socks : i \in ToSet(uiQ[k])

\* The stat under way is in one place: with the worker, in the channel, in the dispatch,
\* or dispatched; and nobody but Start makes the poll active.
JobKept ==
    /\ uiQ["poll"] # <<>> =>
          Len(uiQ["poll"]) = 1 /\ uiLoop # "dispatch" /\ uiHeld["poll"] # "resume"
    /\ uiLoop = "dispatch" => uiHeld["poll"] # "resume"
    /\ uiQ["poll"] # <<>> \/ uiLoop = "dispatch" \/ uiHeld["poll"] = "resume" =>
          uiGo["poll"] \in {"resume", "done"} /\ fpJob \in StatOutcomes
    /\ uiGo["poll"] = "none" => ~fpActive

\* What the callback has been told, as fspollDispatch remembers it in busy and prev.
ToldKept ==
    /\ fpBusy \in Int /\ fpTold \in [status : Int, stat : UIStats \cup {Nil}]
    /\ fpTold.stat = fpPrev
    /\ fpBusy \notin {0, 1} => fpTold.status = fpBusy
    /\ fpBusy = 1 => fpTold.status >= 0
    /\ \/ fpLate = 0
       \/ fpLate = 1 /\ ~fpActive /\ uiGo["poll"] # "none" /\ uiLoop # "dispatch"

\* Appending to a channel adds the event and takes none away.
LEMMA SetAppend ==
    ASSUME NEW S, NEW s \in Seq(S), NEW x \in S
    PROVE  Append(s, x) \in Seq(S) /\ ToSet(Append(s, x)) = ToSet(s) \cup {x}
<1> DEFINE a == Append(s, x)
<1>1. /\ a \in Seq(S) /\ Len(a) = Len(s) + 1 /\ Len(s) \in Nat
      /\ \A i \in 1..Len(s) : a[i] = s[i]
      /\ a[Len(s) + 1] = x
  BY AppendProperties, LenProperties
<1>2. DOMAIN a = 1..(Len(s) + 1) /\ DOMAIN s = 1..Len(s)
  BY <1>1, LenProperties
<1> HIDE DEF a
<1>3. \A i \in DOMAIN s : i \in DOMAIN a /\ a[i] = s[i]
  BY <1>1, <1>2
<1>4. \A i \in DOMAIN a : i \in DOMAIN s \/ a[i] = x
  BY <1>1, <1>2
<1>5. Len(s) + 1 \in DOMAIN a
  BY <1>1, <1>2
<1>6. ToSet(a) = ToSet(s) \cup {x}
  BY <1>1, <1>3, <1>4, <1>5 DEF ToSet
<1> QED BY <1>1, <1>6 DEF a

\* What is in a channel is its head or stays in it when the head is taken.
LEMMA SetTail ==
    ASSUME NEW S, NEW s \in Seq(S), s # <<>>
    PROVE  Tail(s) \in Seq(S) /\ ToSet(s) \subseteq ToSet(Tail(s)) \cup {Head(s)}
<1> DEFINE t == Tail(s)
<1>1. /\ t \in Seq(S) /\ Len(t) = Len(s) - 1 /\ Len(s) \in Nat \ {0}
      /\ \A i \in 1..(Len(s) - 1) : t[i] = s[i + 1]
      /\ Head(s) = s[1]
  BY HeadTailProperties, LenProperties, EmptySeq
<1>2. DOMAIN t = 1..(Len(s) - 1) /\ DOMAIN s = 1..Len(s)
  BY <1>1, LenProperties
<1> HIDE DEF t
<1>3. ASSUME NEW i \in DOMAIN s PROVE s[i] \in ToSet(t) \cup {Head(s)}
  <2>1. CASE i = 1
    BY <1>1, <2>1
  <2>2. CASE i # 1
    <3>1. i - 1 \in DOMAIN t /\ t[i - 1] = s[i]
      BY <1>1, <1>2, <2>2
    <3> QED BY <3>1 DEF ToSet
  <2> QED BY <2>1, <2>2
<1>4. ToSet(s) \subseteq ToSet(t) \cup {Head(s)}
  BY <1>3 DEF ToSet
<1> QED BY <1>1, <1>4 DEF t

\* Replacing one value of a function keeps its type.
LEMMA ExceptIn ==
    ASSUME NEW A, NEW B, NEW f \in [A -> B], NEW a \in A, NEW b \in B
    PROVE  [f EXCEPT ![a] = b] \in [A -> B]
OBVIOUS

\* What shutdownSockets does to the sockets and lists, to their types
LEMMA ShutdownTypes ==
    ASSUME UITypeOK, NEW a \in {"stop", "loop"}, TakeSockets(a) \/ CloseTaken(a)
    PROVE  /\ uiSock' \in [Socks -> {"none", "open", "closing", "closed"}]
           /\ uiListed' \in SUBSET Socks
           /\ uiTaken' \in [{"stop", "loop"} -> SUBSET Socks]
           /\ UNCHANGED <<uiListen, uiClose>>
<1>1. CASE TakeSockets(a)
  BY <1>1 DEF TakeSockets, UITypeOK
<1>2. CASE CloseTaken(a)
  <2>1. \A k \in Socks : uiSock[k] \in {"none", "open", "closing", "closed"}
    BY DEF UITypeOK
  <2> HIDE DEF Socks
  <2>2. uiSock' \in [Socks -> {"none", "open", "closing", "closed"}]
    BY <1>2, <2>1 DEF CloseTaken
  <2> QED BY <1>2, <2>2 DEF CloseTaken, UITypeOK
<1> QED BY <1>1, <1>2

\* and to their owners: a socket that CloseTaken does not close is as it was, with another
\* owner, or has just been marked.
LEMMA CloseTakenOwners ==
    ASSUME UITypeOK, SocketsOwned, NEW a \in {"stop", "loop"}, CloseTaken(a)
    PROVE  /\ UNCHANGED <<uiTaken, uiListed, uiClose, uiListen>>
           /\ \A k \in Socks : uiSock'[k] \in {"open", "closing"} =>
                 \/ uiSock'[k] = uiSock[k] /\ k \notin uiTaken[a]
                 \/ k = "udp" /\ uiClose = "conn"
                 \/ BeginsClose(a) /\ k \in uiTaken[a]
           /\ uiClose = "conn" => uiSock'["udp"] = "closing"
           /\ uiSock["udp"] = "closed" => uiSock'["udp"] = "closed"
<1>1. /\ UNCHANGED <<uiTaken, uiListed, uiClose, uiListen>>
      /\ \A k \in Socks : uiSock'[k] =
             IF k \notin uiTaken[a] \/ (k = "udp" /\ uiClose = "conn") THEN uiSock[k]
             ELSE IF k = "udp" /\ BeginsClose(a) THEN "closing" ELSE "closed"
      /\ "udp" \in Socks
  BY DEF CloseTaken, Socks
<1>2. uiClose = "conn" => uiSock["udp"] = "closing"
  BY DEF SocketsOwned
<1>3. BeginsClose(a) => "udp" \in uiTaken[a] /\ uiSock["udp"] = "open"
  BY DEF BeginsClose
<1> QED BY <1>1, <1>2, <1>3

\* Every variable of the goroutines keeps its type.
THEOREM UvIOTypes == UISpec => []UITypeOK
<1>1. UIInit => UITypeOK
  <2> SUFFICES ASSUME UIInit PROVE UITypeOK
    OBVIOUS
  <2>1. <<>> \in Seq(UIEvents)
    BY EmptySeq
  <2> QED BY <2>1 DEF UIInit, UITypeOK, Goroutines, Socks
<1>2. UITypeOK /\ [UINext]_uiVars => UITypeOK'
  <2> SUFFICES ASSUME UITypeOK, [UINext]_uiVars PROVE UITypeOK'
    OBVIOUS
  <2> USE DEF Socks, Goroutines
  <2>0. uiQ \in [Goroutines -> Seq(UIEvents)]
    BY DEF UITypeOK
  <2>1. ASSUME NEW k \in Socks, Listen(k) PROVE UITypeOK'
    <3>1. /\ uiListen' \in [Socks -> {"idle", "bind", "append", "spawn", "done"}]
          /\ uiSock' \in [Socks -> {"none", "open", "closing", "closed"}]
          /\ uiListed' \in SUBSET Socks
      <4>1. /\ uiListen \in [Socks -> {"idle", "bind", "append", "spawn", "done"}]
            /\ uiSock \in [Socks -> {"none", "open", "closing", "closed"}]
            /\ uiListed \in SUBSET Socks
        BY DEF UITypeOK
      <4>2. /\ \/ UNCHANGED uiSock \/ uiSock' = [uiSock EXCEPT ![k] = "open"]
            /\ \/ UNCHANGED uiListed \/ uiListed' = uiListed \cup {k}
        BY <2>1 DEF Listen
      <4>3. \E l \in {"idle", "bind", "append", "spawn", "done"} : uiListen' = [uiListen EXCEPT ![k] = l]
        BY <2>1 DEF Listen
      <4> HIDE DEF Socks
      <4>4. uiListen' \in [Socks -> {"idle", "bind", "append", "spawn", "done"}]
        BY <4>1, <4>3, ExceptIn
      <4>5. uiSock' \in [Socks -> {"none", "open", "closing", "closed"}]
        BY <4>1, <4>2
      <4> QED BY <4>1, <4>2, <4>4, <4>5
    <3>2. /\ uiGo' \in [Goroutines -> {"none", "read", "push", "report", "top", "stat", "send",
                                       "resume", "done"}]
          /\ \A l \in Socks : uiGo'[l] = "push" => uiGo[l] = "push"
          /\ uiGo'["poll"] = uiGo["poll"]
      BY <2>1 DEF Listen, Begins, UITypeOK, goVs
    <3>3. UNCHANGED <<uiTaken, uiClose, uiHeld, uiQ, uiItem, fpJob>>
      BY <2>1 DEF Listen, goVs, pollVs
    <3> QED BY <3>1, <3>2, <3>3 DEF UITypeOK
  <2>2. CASE CloseUDP
    <3>1. /\ uiSock' \in [Socks -> {"none", "open", "closing", "closed"}]
          /\ uiClose' \in {"idle", "conn", "unlist", "done"}
          /\ uiListed' \in SUBSET Socks
      BY <2>2 DEF CloseUDP, UITypeOK
    <3>2. UNCHANGED <<uiListen, uiTaken, uiGo, uiHeld, uiQ, uiItem, fpJob>>
      BY <2>2 DEF CloseUDP, goVs, pollVs
    <3> QED BY <3>1, <3>2 DEF UITypeOK
  <2>3. ASSUME NEW k \in Socks, ReadItem(k) PROVE UITypeOK'
    <3>1. /\ uiItem' \in [UIItems -> {"none", "held", "queued", "delivered", "closed", "dropped"}]
          /\ uiHeld' \in [Goroutines -> UIItems \cup {Nil, "resume"}]
      <4>1. CASE UNCHANGED <<uiHeld, uiItem>>
        BY <4>1 DEF UITypeOK
      <4>2. CASE \E i \in UIItems : /\ uiItem' = [uiItem EXCEPT ![i] = "held"]
                                    /\ uiHeld' = [uiHeld EXCEPT ![k] = i]
        BY <4>2 DEF UITypeOK
      <4> QED BY <2>3, <4>1, <4>2 DEF ReadItem
    <3>2. /\ uiGo' \in [Goroutines -> {"none", "read", "push", "report", "top", "stat", "send",
                                       "resume", "done"}]
          /\ \A l \in Socks : uiGo'[l] = "push" => uiHeld'[l] \in UIItems
          /\ uiGo'["poll"] = uiGo["poll"]
      BY <2>3 DEF ReadItem, Move, UITypeOK
    <3>3. UNCHANGED <<sockVs, uiQ, fpJob>>
      BY <2>3 DEF ReadItem, pollVs
    <3> QED BY <3>1, <3>2, <3>3 DEF UITypeOK, sockVs
  <2>3a. CASE LooksAtConn
    BY <2>3a DEF LooksAtConn, Move, UITypeOK, sockVs, pollVs
  <2>4. ASSUME NEW k \in Socks, ReadFails(k) PROVE UITypeOK'
    BY <2>4 DEF ReadFails, Move, UITypeOK, sockVs, pollVs
  <2>5. ASSUME NEW k \in Socks, PushItem(k) PROVE UITypeOK'
    <3>1. uiHeld[k] \in UIEvents /\ uiQ[k] \in Seq(UIEvents)
      BY <2>5 DEF PushItem, UITypeOK, UIEvents
    <3>2. Append(uiQ[k], uiHeld[k]) \in Seq(UIEvents)
      BY <3>1, SetAppend
    <3>3. uiQ' \in [Goroutines -> Seq(UIEvents)]
      BY <2>0, <2>5, <3>2, ExceptIn DEF PushItem
    <3>4. /\ uiItem' \in [UIItems -> {"none", "held", "queued", "delivered", "closed", "dropped"}]
          /\ uiHeld' \in [Goroutines -> UIItems \cup {Nil, "resume"}]
      BY <2>5 DEF PushItem, UITypeOK
    <3>5. /\ uiGo' \in [Goroutines -> {"none", "read", "push", "report", "top", "stat", "send",
                                       "resume", "done"}]
          /\ \A l \in Socks : uiGo'[l] = "push" => uiHeld'[l] = uiHeld[l] /\ uiGo[l] = "push"
          /\ uiGo'["poll"] = uiGo["poll"]
      BY <2>5 DEF PushItem, Move, Begins, UITypeOK
    <3>6. UNCHANGED <<sockVs, fpJob>>
      BY <2>5 DEF PushItem, pollVs
    <3> QED BY <3>3, <3>4, <3>5, <3>6 DEF UITypeOK, sockVs
  <2>6. CASE Report
    <3>1. Failed \in UIEvents /\ uiQ["udp"] \in Seq(UIEvents)
      BY DEF UITypeOK, UIEvents
    <3>2. Append(uiQ["udp"], Failed) \in Seq(UIEvents)
      BY <3>1, SetAppend
    <3>3. uiQ' \in [Goroutines -> Seq(UIEvents)]
      BY <2>0, <2>6, <3>2, ExceptIn DEF Report
    <3> QED BY <2>6, <3>3 DEF Report, Move, UITypeOK, sockVs, pollVs
  <2>7. CASE Send
    <3>1. /\ "sent" \in UIEvents /\ "failed" \in UIEvents /\ uiQ["send"] \in Seq(UIEvents)
      BY DEF UITypeOK, UIEvents
    <3>2. /\ Append(uiQ["send"], "sent") \in Seq(UIEvents)
          /\ Append(uiQ["send"], "failed") \in Seq(UIEvents)
      BY <3>1, SetAppend
    <3>3. uiQ' \in [Goroutines -> Seq(UIEvents)]
      BY <2>0, <2>7, <3>2, ExceptIn DEF Send
    <3> QED BY <2>7, <3>3 DEF Send, Move, UITypeOK, sockVs, pollVs
  <2>8. CASE FSPollStart
    BY <2>8 DEF FSPollStart, Move, UITypeOK, sockVs
  <2>9. CASE PollWorker
    <3>1. uiQ' \in [Goroutines -> Seq(UIEvents)]
      <4>1. CASE uiGo["poll"] = "send" /\ uiQ' = [uiQ EXCEPT !["poll"] = Append(@, fpJob)]
        <5>1. fpJob \in UIEvents /\ uiQ["poll"] \in Seq(UIEvents)
          BY <4>1 DEF UITypeOK, UIEvents
        <5>2. Append(uiQ["poll"], fpJob) \in Seq(UIEvents)
          BY <5>1, SetAppend
        <5> QED BY <4>1, <5>2 DEF UITypeOK
      <4>2. CASE UNCHANGED uiQ
        BY <4>2 DEF UITypeOK
      <4> QED BY <2>9, <4>1, <4>2 DEF PollWorker
    <3>2. uiHeld' \in [Goroutines -> UIItems \cup {Nil, "resume"}]
      BY <2>9 DEF PollWorker, UITypeOK
    <3>3. /\ uiGo' \in [Goroutines -> {"none", "read", "push", "report", "top", "stat", "send",
                                       "resume", "done"}]
          /\ \A k \in Socks : uiGo'[k] = uiGo[k] /\ uiHeld'[k] = uiHeld[k]
          /\ uiGo'["poll"] \in {"send", "resume"} => fpJob' \in StatOutcomes
      BY <2>9 DEF PollWorker, Move, UITypeOK
    <3> QED BY <2>9, <3>1, <3>2, <3>3 DEF PollWorker, UITypeOK, sockVs
  <2>10. CASE PollCallback
    BY <2>10 DEF PollCallback, UITypeOK, sockVs
  <2>11. CASE Post
    <3>1. "posted" \in UIEvents /\ "amid" \in UIEvents /\ uiQ["send"] \in Seq(UIEvents)
      BY DEF UITypeOK, UIEvents
    <3>2. /\ Append(uiQ["send"], "posted") \in Seq(UIEvents)
          /\ Append(uiQ["send"], "amid") \in Seq(UIEvents)
      BY <3>1, SetAppend
    <3>3. uiQ' \in [Goroutines -> Seq(UIEvents)]
      BY <2>0, <2>11, <3>2, ExceptIn DEF Post
    <3> QED BY <2>11, <3>3 DEF Post, UITypeOK, sockVs, pollVs
  <2>12. CASE RunPending
    <3>1. uiQ["send"] # <<>> => Tail(uiQ["send"]) \in Seq(UIEvents)
      BY <2>0, SetTail
    <3>2. uiQ' \in [Goroutines -> Seq(UIEvents)]
      <4>1. CASE UNCHANGED uiQ
        BY <2>0, <4>1
      <4>2. CASE uiQ["send"] # <<>> /\ uiQ' = [uiQ EXCEPT !["send"] = Tail(uiQ["send"])]
        BY <2>0, <3>1, <4>2, ExceptIn
      <4> QED BY <2>12, <4>1, <4>2 DEF RunPending
    <3> QED BY <2>12, <3>2 DEF RunPending, UITypeOK, sockVs, pollVs
  <2>13. ASSUME NEW g \in Goroutines, Poll(g) PROVE UITypeOK'
    <3>1. uiQ[g] # <<>> => Tail(uiQ[g]) \in Seq(UIEvents)
      BY <2>0, SetTail
    <3>2. uiQ' \in [Goroutines -> Seq(UIEvents)]
      BY <2>0, <2>13, <3>1, ExceptIn DEF Poll
    <3>3. uiItem' \in [UIItems -> {"none", "held", "queued", "delivered", "closed", "dropped"}]
      BY <2>13 DEF Poll, UITypeOK
    <3>4. uiHeld' \in [Goroutines -> UIItems \cup {Nil, "resume"}] /\ \A k \in Socks : uiHeld'[k] = uiHeld[k]
      BY <2>13 DEF Poll, UITypeOK
    <3> QED BY <2>13, <3>2, <3>3, <3>4 DEF Poll, UITypeOK, sockVs, pollVs
  <2>14. CASE UITeardown
    <3>1. uiQ' \in [Goroutines -> Seq(UIEvents)]
      <4>1. CASE UNCHANGED uiQ
        BY <2>0, <4>1
      <4>2. CASE uiQ' = [g \in Goroutines |-> IF g = "poll" \/ "hooks" \in uiUse THEN uiQ[g] ELSE <<>>]
        <5>1. <<>> \in Seq(UIEvents) /\ \A g \in Goroutines : uiQ[g] \in Seq(UIEvents)
          BY <2>0, EmptySeq
        <5> HIDE DEF Goroutines
        <5> QED BY <4>2, <5>1
      <4> QED BY <2>14, <4>1, <4>2 DEF UITeardown
    <3>2. uiItem' \in [UIItems -> {"none", "held", "queued", "delivered", "closed", "dropped"}]
      BY <2>14 DEF UITeardown, UITypeOK
    <3>3. \/ TakeSockets("loop") \/ CloseTaken("loop")
          \/ UNCHANGED sockVs
      BY <2>14 DEF UITeardown
    <3>4. /\ uiSock' \in [Socks -> {"none", "open", "closing", "closed"}]
          /\ uiListed' \in SUBSET Socks
          /\ uiTaken' \in [{"stop", "loop"} -> SUBSET Socks]
          /\ UNCHANGED <<uiListen, uiClose>>
      BY <3>3, ShutdownTypes DEF UITypeOK, sockVs
    <3> QED BY <2>14, <3>1, <3>2, <3>4 DEF UITeardown, UITypeOK, pollVs
  <2>15. CASE StopLoop
    <3>1. UNCHANGED <<goVs, fpJob>> BY <2>15 DEF StopLoop, pollVs
    <3>2. \/ TakeSockets("stop") \/ CloseTaken("stop")
          \/ UNCHANGED sockVs
      BY <2>15 DEF StopLoop
    <3>3. /\ uiSock' \in [Socks -> {"none", "open", "closing", "closed"}]
          /\ uiListed' \in SUBSET Socks
          /\ uiTaken' \in [{"stop", "loop"} -> SUBSET Socks]
          /\ UNCHANGED <<uiListen, uiClose>>
      BY <3>2, ShutdownTypes DEF UITypeOK, sockVs
    <3> QED BY <3>1, <3>3 DEF UITypeOK, goVs
  <2>16. CASE UNCHANGED <<sockVs, goVs, fpJob>>
    BY <2>16 DEF UITypeOK, sockVs, goVs
  <2>17. CASE \/ RunLoop \/ LoopTop \/ RunHooks \/ Wait \/ FSPollStop \/ UIRequestStop \/ ParentCancels
              \/ \E h \in UIHooks : Hook(h) \/ Unhook(h)
    BY <2>16, <2>17 DEF RunLoop, LoopTop, RunHooks, Wait, FSPollStop, UIRequestStop, ParentCancels,
                        Hook, Unhook, pollVs
  <2>18. CASE UNCHANGED uiVars
    BY <2>16, <2>18 DEF uiVars, pollVs
  <2> QED BY <2>1, <2>2, <2>3, <2>3a, <2>4, <2>5, <2>6, <2>7, <2>8, <2>9, <2>10, <2>11, <2>12, <2>13,
             <2>14, <2>15, <2>17, <2>18 DEF UINext, LoopStep, GoStep
<1> QED BY <1>1, <1>2, PTL DEF UISpec

\* The steps that touch neither sockets nor their goroutines, and leave the loop where it
\* is or among the states before the teardown.
LEMMA QuietSteps ==
    ASSUME UITypeOK,
           \/ FSPollStart \/ FSPollStop \/ PollWorker \/ PollCallback \/ Post \/ RunPending \/ RunHooks
           \/ RunLoop \/ LoopTop \/ UIRequestStop \/ ParentCancels \/ Send
           \/ \E h \in UIHooks : Hook(h) \/ Unhook(h)
           \/ UNCHANGED uiVars
    PROVE  /\ UNCHANGED <<sockVs, uiItem, uiStop, lateVs>>
           /\ \A k \in Socks : uiGo'[k] = uiGo[k] /\ uiHeld'[k] = uiHeld[k] /\ uiQ'[k] = uiQ[k]
           /\ \/ uiLoop' = uiLoop
              \/ /\ uiLoop \notin {"close", "drain", "wait", "returned"}
                 /\ uiLoop' \notin {"close", "drain", "wait", "returned"}
<1> DEFINE Quiet == /\ UNCHANGED <<sockVs, uiItem, uiStop, lateVs>>
                    /\ \A k \in Socks : uiGo'[k] = uiGo[k] /\ uiHeld'[k] = uiHeld[k] /\ uiQ'[k] = uiQ[k]
                    /\ \/ uiLoop' = uiLoop
                       \/ /\ uiLoop \notin {"close", "drain", "wait", "returned"}
                          /\ uiLoop' \notin {"close", "drain", "wait", "returned"}
<1>1. /\ DOMAIN uiGo = Goroutines /\ DOMAIN uiQ = Goroutines /\ DOMAIN uiHeld = Goroutines
      /\ \A k \in Socks : k \in Goroutines /\ k # "poll" /\ k # "send"
  BY DEF UITypeOK, Goroutines, Socks
<1>2. CASE FSPollStart \/ FSPollStop
  BY <1>1, <1>2 DEF FSPollStart, FSPollStop, Move, loopVs, stopVs, goVs
<1>3. CASE PollWorker
  BY <1>1, <1>3 DEF PollWorker, Move, loopVs, stopVs
<1>4. CASE PollCallback
  BY <1>1, <1>4 DEF PollCallback, stopVs
<1>5. CASE Post \/ RunPending \/ Send
  BY <1>1, <1>5 DEF Post, RunPending, Send, Move, loopVs, stopVs
<1>6. CASE RunHooks \/ RunLoop \/ LoopTop \/ UIRequestStop \/ ParentCancels
  BY <1>6 DEF RunHooks, RunLoop, LoopTop, UIRequestStop, ParentCancels, stopVs, goVs
<1>7. CASE UNCHANGED uiVars \/ \E h \in UIHooks : Hook(h) \/ Unhook(h)
  BY <1>7 DEF Hook, Unhook, uiVars, loopVs, stopVs, goVs
<1> QED BY <1>2, <1>3, <1>4, <1>5, <1>6, <1>7

\* No socket is forgotten before it is closed, in whatever order Stop and the teardown take
\* what is on the list, and its user closes it.
THEOREM SocketsAreOwned == UISpec => []SocketsOwned
<1>1. UIInit => SocketsOwned
  BY DEF UIInit, SocketsOwned, BeingClosed, TearingDown, Socks, Goroutines
<1>2. UITypeOK /\ SocketsOwned /\ [UINext]_uiVars => SocketsOwned'
  <2> SUFFICES ASSUME UITypeOK, SocketsOwned, [UINext]_uiVars PROVE SocketsOwned'
    OBVIOUS
  <2>0. /\ DOMAIN uiGo = Goroutines /\ DOMAIN uiSock = Socks /\ DOMAIN uiListen = Socks
        /\ DOMAIN uiTaken = {"stop", "loop"}
        /\ Socks \subseteq Goroutines
    BY DEF UITypeOK, Goroutines, Socks
  <2>1. ASSUME NEW k \in Socks, Listen(k) PROVE SocketsOwned'
    <3>1. UNCHANGED <<uiLoop, uiStop, uiTaken, uiClose>>
      BY <2>1 DEF Listen, loopVs, stopVs
    <3>2. CASE uiListen[k] = "idle" \/ uiListen[k] = "bind"
      <4>1. /\ UNCHANGED <<uiListed, uiRaced, uiGo>>
            /\ \A l \in Socks \ {k} : uiSock'[l] = uiSock[l] /\ uiListen'[l] = uiListen[l]
            /\ \/ uiSock'[k] = uiSock[k]
               \/ uiSock'[k] = "open" /\ uiListen'[k] = "append"
        BY <2>0, <2>1, <3>2 DEF Listen, goVs, lateVs
      <4>2. uiListen[k] # "done" /\ (k = "udp" => uiClose = "idle")
        BY <3>2 DEF SocketsOwned
      <4>3. \A l \in Socks : BeingClosed(l) => BeingClosed(l)'
        BY <3>1 DEF BeingClosed
      <4>5. uiListen[k] # "append" BY <3>2
      <4>6. \A l \in Socks : uiSock'[l] \in {"open", "closing"} =>
               uiListen'[l] = "append" \/ l \in uiListed' \/ BeingClosed(l)'
        BY <4>1, <4>3, <4>5 DEF SocketsOwned
      <4>7. /\ uiClose' # "idle" => uiListen'["udp"] = "done"
            /\ uiClose' = "conn" => uiSock'["udp"] = "closing"
            /\ uiClose' \in {"unlist", "done"} => uiSock'["udp"] = "closed"
        BY <3>1, <4>1, <4>2 DEF SocketsOwned, Socks
      <4> QED BY <3>1, <3>2, <4>1, <4>6, <4>7 DEF SocketsOwned, TearingDown
    <3>3. CASE uiListen[k] = "append"
      <4>1. /\ UNCHANGED <<uiSock, uiGo>> /\ uiListed' = uiListed \cup {k}
            /\ uiRaced' = IF TearingDown THEN uiRaced \cup {k} ELSE uiRaced
            /\ \A l \in Socks \ {k} : uiListen'[l] = uiListen[l]
        BY <2>0, <2>1, <3>3 DEF Listen, goVs
      <4>2. \A l \in Socks : BeingClosed(l)' = BeingClosed(l)
        BY <3>1, <4>1 DEF BeingClosed
      <4>3. k = "udp" => uiClose = "idle"
        BY <3>3 DEF SocketsOwned
      <4> QED BY <3>1, <3>3, <4>1, <4>2, <4>3 DEF SocketsOwned, TearingDown, Socks
    <3>4. CASE uiListen[k] = "spawn"
      <4>1. /\ UNCHANGED <<uiSock, uiListed>>
            /\ uiRaced' = IF TearingDown THEN uiRaced \cup {k} ELSE uiRaced
            /\ \A l \in Socks \ {k} : uiListen'[l] = uiListen[l] /\ uiGo'[l] = uiGo[l]
            /\ uiListen'[k] = "done"
        BY <2>0, <2>1, <3>4 DEF Listen
      <4>2. \A l \in Socks : BeingClosed(l)' = BeingClosed(l)
        BY <3>1, <4>1 DEF BeingClosed
      <4>3. k = "udp" => uiClose = "idle"
        BY <3>4 DEF SocketsOwned
      <4> QED BY <3>1, <3>4, <4>1, <4>2, <4>3 DEF SocketsOwned, TearingDown, Socks
    <3> QED BY <2>1, <3>2, <3>3, <3>4 DEF Listen
  <2>2. CASE CloseUDP
    <3>1. /\ UNCHANGED <<uiLoop, uiStop, uiTaken, uiListen, uiRaced, uiGo>>
          /\ \A l \in Socks \ {"udp"} : uiSock'[l] = uiSock[l] /\ (l \in uiListed' <=> l \in uiListed)
          /\ uiListed' \subseteq uiListed
          /\ uiListen["udp"] = "done"
      BY <2>0, <2>2 DEF CloseUDP, loopVs, stopVs, goVs, lateVs, Socks, SocketsOwned
    <3>2. /\ uiClose' # "idle"
          /\ uiClose' = "conn" => uiSock'["udp"] = "closing"
          /\ uiClose' \in {"unlist", "done"} => uiSock'["udp"] = "closed"
          /\ uiClose' = "conn" \/ uiSock'["udp"] = "closed"
      BY <2>0, <2>2 DEF CloseUDP, Socks, SocketsOwned
    <3>3. \A l \in Socks \ {"udp"} : BeingClosed(l) => BeingClosed(l)'
      BY <3>1 DEF BeingClosed
    <3>4. uiSock'["udp"] \in {"open", "closing"} => BeingClosed("udp")'
      BY <3>2 DEF BeingClosed
    <3>5. \A l \in Socks : uiSock'[l] \in {"open", "closing"} =>
             uiListen'[l] = "append" \/ l \in uiListed' \/ BeingClosed(l)'
      BY <3>1, <3>3, <3>4 DEF SocketsOwned
    <3> QED BY <3>1, <3>2, <3>5 DEF SocketsOwned, TearingDown
  <2>3. ASSUME NEW k \in Socks, ReadItem(k) \/ ReadFails(k) \/ PushItem(k) \/ (k = "udp" /\ (LooksAtConn \/ Report))
        PROVE SocketsOwned'
    <3>1. UNCHANGED <<uiLoop, uiStop, sockVs, uiRaced>> /\ uiGo[k] \notin {"none", "done"}
      BY <2>3 DEF ReadItem, ReadFails, PushItem, LooksAtConn, Report, loopVs, stopVs, lateVs
    <3>2. \A l \in Socks \ {k} : uiGo'[l] = uiGo[l]
      BY <2>0, <2>3 DEF ReadItem, ReadFails, PushItem, LooksAtConn, Report, Move
    <3> QED BY <3>1, <3>2 DEF SocketsOwned, BeingClosed, TearingDown, sockVs
  <2>4. ASSUME NEW g \in Goroutines, Poll(g) PROVE SocketsOwned'
    <3>1. /\ UNCHANGED <<uiStop, sockVs, uiRaced, uiGo>>
          /\ uiLoop = "poll" /\ uiLoop' \in {"dispatch", "check", "shut"}
      BY <2>4 DEF Poll, stopVs, lateVs
    <3> QED BY <3>1 DEF SocketsOwned, BeingClosed, TearingDown, sockVs
  <2>5. CASE UITeardown
    <3>1. UNCHANGED <<uiStop, uiListen, uiRaced, uiGo, uiClose>> /\ uiLoop' \in {"close", "drain", "wait"}
      BY <2>5 DEF UITeardown, TakeSockets, CloseTaken, sockVs, stopVs, lateVs
    <3>2. CASE uiLoop = "shut"
      <4>1. /\ uiListed' = {} /\ uiTaken'["loop"] = uiListed /\ uiTaken'["stop"] = uiTaken["stop"]
            /\ uiLoop' = "close" /\ uiSock' = uiSock
        BY <2>0, <2>5, <3>2 DEF UITeardown, TakeSockets
      <4> QED BY <3>1, <3>2, <4>1 DEF SocketsOwned, BeingClosed, TearingDown
    <3>3. CASE uiLoop = "close"
      <4>1. CloseTaken("loop") /\ uiLoop' = IF BeginsClose("loop") THEN "close" ELSE "drain"
        BY <2>5, <3>3 DEF UITeardown
      <4>2. /\ UNCHANGED <<uiTaken, uiListed, uiClose, uiListen>>
            /\ uiClose = "conn" => uiSock'["udp"] = "closing"
            /\ uiSock["udp"] = "closed" => uiSock'["udp"] = "closed"
        BY <4>1, CloseTakenOwners
      <4>3. ASSUME NEW k \in Socks, uiSock'[k] \in {"open", "closing"}
            PROVE  uiListen'[k] = "append" \/ k \in uiListed' \/ BeingClosed(k)'
        <5>1. \/ uiSock'[k] = uiSock[k] /\ k \notin uiTaken["loop"]
              \/ k = "udp" /\ uiClose = "conn"
              \/ BeginsClose("loop") /\ k \in uiTaken["loop"]
          BY <4>1, <4>3, CloseTakenOwners
        <5> QED BY <3>1, <4>1, <4>2, <4>3, <5>1 DEF SocketsOwned, BeingClosed
      <4> QED BY <3>1, <3>3, <4>1, <4>2, <4>3 DEF SocketsOwned, TearingDown
    <3>4. CASE uiLoop = "drain"
      <4>1. UNCHANGED <<uiListed, uiTaken, uiSock>> /\ uiLoop' = "wait"
        BY <2>5, <3>4 DEF UITeardown, sockVs
      <4> QED BY <3>1, <3>4, <4>1 DEF SocketsOwned, BeingClosed, TearingDown
    <3> QED BY <2>5, <3>2, <3>3, <3>4 DEF UITeardown
  <2>6. CASE Wait
    <3>1. /\ UNCHANGED <<uiStop, sockVs, uiRaced, uiGo>>
          /\ uiLoop = "wait" /\ uiLoop' = "returned"
          /\ \A g \in Goroutines : uiGo[g] \in {"none", "done"}
      BY <2>6 DEF Wait, stopVs, goVs, lateVs
    <3> QED BY <2>0, <3>1 DEF SocketsOwned, BeingClosed, TearingDown, sockVs
  <2>7. CASE StopLoop
    <3>1. UNCHANGED <<uiLoop, uiListen, uiRaced, uiGo, uiClose>>
      BY <2>7 DEF StopLoop, TakeSockets, CloseTaken, sockVs, goVs, lateVs
    <3>2. CASE uiStop \in {"idle", "cancel"}
      <4>1. UNCHANGED <<uiSock, uiListed, uiTaken>> /\ uiStop' # "close"
        BY <2>7, <3>2 DEF StopLoop, sockVs
      <4> QED BY <3>1, <3>2, <4>1 DEF SocketsOwned, BeingClosed, TearingDown
    <3>3. CASE uiStop = "take"
      <4>1. /\ uiListed' = {} /\ uiTaken'["stop"] = uiListed /\ uiTaken'["loop"] = uiTaken["loop"]
            /\ uiStop' = "close" /\ uiSock' = uiSock
        BY <2>0, <2>7, <3>3 DEF StopLoop, TakeSockets
      <4> QED BY <3>1, <3>3, <4>1 DEF SocketsOwned, BeingClosed, TearingDown
    <3>4. CASE uiStop = "close"
      <4>1. CloseTaken("stop") /\ uiStop' = IF BeginsClose("stop") THEN "close" ELSE "cancel"
        BY <2>7, <3>4 DEF StopLoop
      <4>2. /\ UNCHANGED <<uiTaken, uiListed, uiClose, uiListen>>
            /\ uiClose = "conn" => uiSock'["udp"] = "closing"
            /\ uiSock["udp"] = "closed" => uiSock'["udp"] = "closed"
        BY <4>1, CloseTakenOwners
      <4>3. ASSUME NEW k \in Socks, uiSock'[k] \in {"open", "closing"}
            PROVE  uiListen'[k] = "append" \/ k \in uiListed' \/ BeingClosed(k)'
        <5>1. \/ uiSock'[k] = uiSock[k] /\ k \notin uiTaken["stop"]
              \/ k = "udp" /\ uiClose = "conn"
              \/ BeginsClose("stop") /\ k \in uiTaken["stop"]
          BY <4>1, <4>3, CloseTakenOwners
        <5> QED BY <3>1, <4>1, <4>2, <4>3, <5>1 DEF SocketsOwned, BeingClosed
      <4> QED BY <3>1, <3>4, <4>2, <4>3 DEF SocketsOwned, TearingDown
    <3> QED BY <2>7, <3>2, <3>3, <3>4 DEF StopLoop
  <2>8. CASE /\ UNCHANGED <<sockVs, uiItem, uiStop, lateVs>>
             /\ \A k \in Socks : uiGo'[k] = uiGo[k] /\ uiHeld'[k] = uiHeld[k] /\ uiQ'[k] = uiQ[k]
             /\ \/ uiLoop' = uiLoop
                \/ /\ uiLoop \notin {"close", "drain", "wait", "returned"}
                   /\ uiLoop' \notin {"close", "drain", "wait", "returned"}
    BY <2>8 DEF SocketsOwned, BeingClosed, TearingDown, sockVs, lateVs
  <2>9. CASE \/ FSPollStart \/ FSPollStop \/ PollWorker \/ PollCallback \/ Post \/ RunPending \/ RunHooks
             \/ RunLoop \/ LoopTop \/ UIRequestStop \/ ParentCancels \/ Send
             \/ \E h \in UIHooks : Hook(h) \/ Unhook(h)
             \/ UNCHANGED uiVars
    BY <2>8, <2>9, QuietSteps
  <2>10. CASE LoopStep
    BY <2>4, <2>5, <2>6, <2>9, <2>10 DEF LoopStep
  <2>11. ASSUME NEW g \in Goroutines, GoStep(g) PROVE SocketsOwned'
    BY <2>3, <2>9, <2>11 DEF GoStep, Socks
  <2> QED BY <2>1, <2>2, <2>3, <2>7, <2>9, <2>10, <2>11 DEF UINext
<1> QED BY <1>1, <1>2, UvIOTypes, PTL DEF UISpec

\* No connection or datagram is forgotten between the read and its delivery or its end.
THEOREM ItemsAreKept == UISpec => []ItemsKept
<1>1. UIInit => ItemsKept
  BY DEF UIInit, ItemsKept
<1>2. UITypeOK /\ SocketsOwned /\ ItemsKept /\ [UINext]_uiVars => ItemsKept'
  <2> SUFFICES ASSUME UITypeOK, SocketsOwned, ItemsKept, [UINext]_uiVars PROVE ItemsKept'
    OBVIOUS
  <2>0. /\ DOMAIN uiGo = Goroutines /\ DOMAIN uiHeld = Goroutines /\ DOMAIN uiQ = Goroutines
        /\ DOMAIN uiItem = UIItems /\ Socks \subseteq Goroutines
        /\ \A k \in Socks : uiQ[k] \in Seq(UIEvents)
        /\ UIItems \subseteq UIEvents /\ Failed \in UIEvents /\ Failed \notin UIItems
    BY UIAssumption DEF UITypeOK, Goroutines, Socks, UIEvents
  <2>1. ASSUME NEW k \in Socks, Listen(k) PROVE ItemsKept'
    <3>1. UNCHANGED <<uiLoop, uiHeld, uiQ, uiItem, uiPushed>>
      BY <2>1 DEF Listen, loopVs, goVs, lateVs
    <3>2. \A l \in Socks : uiGo[l] = "push" => uiGo'[l] = "push"
      BY <2>0, <2>1 DEF Listen, SocketsOwned, goVs
    <3> QED BY <3>1, <3>2 DEF ItemsKept
  <2>2. ASSUME NEW k \in Socks, ReadItem(k) PROVE ItemsKept'
    <3>1. UNCHANGED <<uiLoop, uiQ, uiPushed>> /\ uiGo[k] = "read"
      BY <2>2 DEF ReadItem, loopVs, lateVs
    <3>2. \A l \in Socks \ {k} : uiGo'[l] = uiGo[l] /\ uiHeld'[l] = uiHeld[l]
      BY <2>0, <2>2 DEF ReadItem, Move
    <3>3. \/ UNCHANGED uiItem
          \/ \E i \in UIItems : /\ uiItem' = [uiItem EXCEPT ![i] = "held"]
                                /\ uiHeld'[k] = i /\ uiGo'[k] = "push"
      BY <2>0, <2>2 DEF ReadItem, Move
    <3>4. CASE UNCHANGED uiItem
      BY <3>1, <3>2, <3>4 DEF ItemsKept
    <3>5. ASSUME NEW i \in UIItems, uiItem' = [uiItem EXCEPT ![i] = "held"],
                 uiHeld'[k] = i, uiGo'[k] = "push"
          PROVE  ItemsKept'
      <4>1. uiItem'[i] = "held" /\ \A j \in UIItems \ {i} : uiItem'[j] = uiItem[j]
        BY <2>0, <3>5
      <4> QED BY <3>1, <3>2, <3>5, <4>1 DEF ItemsKept
    <3> QED BY <3>3, <3>4, <3>5
  <2>3. ASSUME NEW k \in Socks, PushItem(k) PROVE ItemsKept'
    <3> DEFINE i == uiHeld[k]
    <3>1. UNCHANGED uiLoop /\ uiGo[k] = "push" /\ i \in UIItems
      BY <2>3 DEF PushItem, loopVs, UITypeOK
    <3>2. \A l \in Socks \ {k} : uiGo'[l] = uiGo[l] /\ uiHeld'[l] = uiHeld[l]
      BY <2>0, <2>3 DEF PushItem, Move
    <3>3. CASE /\ uiQ' = [uiQ EXCEPT ![k] = Append(uiQ[k], i)]
               /\ uiItem' = [uiItem EXCEPT ![i] = "queued"]
               /\ uiPushed' = IF uiLoop \in {"wait", "returned"} THEN uiPushed \cup {i} ELSE uiPushed
      <4>1. uiItem'[i] = "queued" /\ \A j \in UIItems \ {i} : uiItem'[j] = uiItem[j]
        BY <2>0, <3>1, <3>3
      <4>2. ToSet(uiQ'[k]) = ToSet(uiQ[k]) \cup {i}
        BY <2>0, <3>1, <3>3, SetAppend
      <4>3. \A l \in Socks \ {k} : uiQ'[l] = uiQ[l]
        BY <2>0, <3>3
      <4>4. \A l \in Socks : ToSet(uiQ[l]) \subseteq ToSet(uiQ'[l])
        BY <4>2, <4>3
      <4>5. uiPushed \subseteq uiPushed' /\ (i \in uiPushed' \/ uiLoop \notin {"wait", "returned"})
        BY <3>3
      <4>6. i \in ToSet(uiQ'[k])
        BY <4>2
      <4> HIDE DEF i
      <4>7. ASSUME NEW j \in UIItems, uiItem'[j] = "held"
            PROVE  \E l \in Socks : uiGo'[l] = "push" /\ uiHeld'[l] = j
        <5>1. j # i /\ uiItem[j] = "held"
          BY <4>1, <4>7
        <5>2. PICK l \in Socks : uiGo[l] = "push" /\ uiHeld[l] = j
          BY <5>1 DEF ItemsKept
        <5> QED BY <3>2, <5>1, <5>2 DEF i
      <4>8. ASSUME NEW j \in UIItems, uiItem'[j] = "queued"
            PROVE  \/ j \in uiPushed'
                   \/ uiLoop' \notin {"wait", "returned"} /\ \E l \in Socks : j \in ToSet(uiQ'[l])
        <5>1. CASE j = i
          BY <3>1, <4>5, <4>6, <5>1
        <5>2. CASE j # i
          <6>1. uiItem[j] = "queued"
            BY <4>1, <4>8, <5>2
          <6> QED BY <3>1, <4>4, <4>5, <6>1 DEF ItemsKept
        <5> QED BY <5>1, <5>2
      <4> QED BY <4>7, <4>8 DEF ItemsKept
    <3>4. CASE /\ uiItem' = [uiItem EXCEPT ![i] = IF k = "tcp" THEN "closed" ELSE "dropped"]
               /\ UNCHANGED <<uiQ, uiPushed>>
      <4>1. uiItem'[i] \notin {"held", "queued"} /\ \A j \in UIItems \ {i} : uiItem'[j] = uiItem[j]
        BY <2>0, <3>1, <3>4
      <4>2. \A j \in UIItems \ {i} : \A l \in Socks :
               uiGo[l] = "push" /\ uiHeld[l] = j => uiGo'[l] = "push" /\ uiHeld'[l] = j
        BY <3>2
      <4> HIDE DEF i
      <4> QED BY <3>1, <3>4, <4>1, <4>2 DEF ItemsKept
    <3> QED BY <2>3, <3>3, <3>4 DEF PushItem
  <2>4. ASSUME NEW g \in Goroutines, Poll(g) PROVE ItemsKept'
    <3>1. /\ UNCHANGED <<uiGo, uiPushed>> /\ uiLoop = "poll" /\ uiLoop' \notin {"wait", "returned"}
      BY <2>4 DEF Poll, lateVs
    <3>2. \A l \in Socks : uiHeld'[l] = uiHeld[l]
      BY <2>0, <2>4 DEF Poll, Socks
    <3>3. CASE UNCHANGED <<uiQ, uiItem>>
      BY <3>1, <3>2, <3>3 DEF ItemsKept
    <3>4. CASE /\ uiQ[g] # <<>> /\ uiQ' = [uiQ EXCEPT ![g] = Tail(uiQ[g])]
               /\ uiItem' = IF g \in Socks /\ Head(uiQ[g]) # Failed
                            THEN [uiItem EXCEPT ![Head(uiQ[g])] = "delivered"] ELSE uiItem
      <4>1. \A j \in UIItems : \/ uiItem'[j] = uiItem[j] /\ (g \in Socks => j # Head(uiQ[g]))
                               \/ uiItem'[j] = "delivered"
        BY <2>0, <3>4
      <4>2. \A l \in Socks : ToSet(uiQ[l]) \subseteq ToSet(uiQ'[l]) \cup (IF l = g THEN {Head(uiQ[g])} ELSE {})
        <5>1. ASSUME NEW l \in Socks
              PROVE  ToSet(uiQ[l]) \subseteq ToSet(uiQ'[l]) \cup (IF l = g THEN {Head(uiQ[g])} ELSE {})
          <6>1. CASE l = g
            <7>1. uiQ'[l] = Tail(uiQ[l])
              BY <2>0, <3>4, <6>1
            <7> QED BY <2>0, <3>4, <6>1, <7>1, SetTail
          <6>2. CASE l # g
            BY <2>0, <3>4, <6>2
          <6> QED BY <6>1, <6>2
        <5> QED BY <5>1
      <4>3. ASSUME NEW j \in UIItems, uiItem'[j] = "queued"
            PROVE  \/ j \in uiPushed'
                   \/ uiLoop' \notin {"wait", "returned"} /\ \E l \in Socks : j \in ToSet(uiQ'[l])
        <5>1. uiItem[j] = "queued" /\ (g \in Socks => j # Head(uiQ[g]))
          BY <4>1, <4>3
        <5>2. CASE j \in uiPushed
          BY <3>1, <5>2
        <5>3. CASE \E l \in Socks : j \in ToSet(uiQ[l])
          <6>1. PICK l \in Socks : j \in ToSet(uiQ[l])
            BY <5>3
          <6>2. j \in ToSet(uiQ'[l])
            BY <4>2, <5>1, <6>1
          <6> QED BY <3>1, <6>2
        <5> QED BY <5>1, <5>2, <5>3 DEF ItemsKept
      <4>4. \A j \in UIItems : uiItem'[j] = "held" => uiItem[j] = "held"
        BY <4>1
      <4> QED BY <3>1, <3>2, <4>3, <4>4 DEF ItemsKept
    <3> QED BY <2>4, <3>3, <3>4 DEF Poll
  <2>5. CASE UITeardown
    <3>1. UNCHANGED <<uiGo, uiHeld, uiPushed>>
      BY <2>5 DEF UITeardown, lateVs
    <3>2. CASE UNCHANGED <<uiQ, uiItem>> /\ uiLoop' \notin {"wait", "returned"}
      BY <3>1, <3>2 DEF ItemsKept
    <3>3. CASE /\ uiLoop' = "wait"
               /\ uiItem' = [i \in UIItems |-> IF i \in ToSet(uiQ["tcp"]) THEN "closed"
                                              ELSE IF i \in ToSet(uiQ["udp"]) THEN "dropped" ELSE uiItem[i]]
      <4>1. \A i \in UIItems : \/ uiItem'[i] \in {"closed", "dropped"}
                               \/ uiItem'[i] = uiItem[i] /\ \A k \in Socks : i \notin ToSet(uiQ[k])
        BY <3>3 DEF Socks
      <4> QED BY <3>1, <4>1 DEF ItemsKept
    <3> QED BY <2>5, <3>2, <3>3 DEF UITeardown
  <2>6. ASSUME NEW k \in Socks, ReadFails(k) \/ (k = "udp" /\ (LooksAtConn \/ Report)) PROVE ItemsKept'
    <3>1. /\ UNCHANGED <<uiLoop, uiHeld, uiItem, uiPushed>> /\ uiGo[k] # "push"
          /\ \A l \in Socks \ {k} : uiGo'[l] = uiGo[l]
      BY <2>0, <2>6 DEF ReadFails, LooksAtConn, Report, Move, loopVs, lateVs
    <3>2. \A l \in Socks : ToSet(uiQ[l]) \subseteq ToSet(uiQ'[l])
      <4>1. CASE UNCHANGED uiQ
        BY <4>1
      <4>2. CASE k = "udp" /\ uiQ' = [uiQ EXCEPT !["udp"] = Append(uiQ["udp"], Failed)]
        <5>1. ToSet(Append(uiQ[k], Failed)) = ToSet(uiQ[k]) \cup {Failed}
          BY <2>0, SetAppend
        <5>2. uiQ'[k] = Append(uiQ[k], Failed) /\ \A l \in Socks \ {k} : uiQ'[l] = uiQ[l]
          BY <2>0, <4>2
        <5> QED BY <5>1, <5>2
      <4> QED BY <2>6, <4>1, <4>2 DEF ReadFails, LooksAtConn, Report
    <3> QED BY <3>1, <3>2 DEF ItemsKept
  <2>7. CASE Wait \/ CloseUDP \/ StopLoop
    <3>1. /\ UNCHANGED <<uiGo, uiHeld, uiQ, uiItem, uiPushed>>
          /\ uiLoop' \in {"wait", "returned"} => uiLoop \in {"wait", "returned"}
      BY <2>7 DEF Wait, CloseUDP, StopLoop, goVs, lateVs, loopVs
    <3> QED BY <3>1 DEF ItemsKept
  <2>8. CASE /\ UNCHANGED <<sockVs, uiItem, uiStop, lateVs>>
             /\ \A k \in Socks : uiGo'[k] = uiGo[k] /\ uiHeld'[k] = uiHeld[k] /\ uiQ'[k] = uiQ[k]
             /\ \/ uiLoop' = uiLoop
                \/ /\ uiLoop \notin {"close", "drain", "wait", "returned"}
                   /\ uiLoop' \notin {"close", "drain", "wait", "returned"}
    BY <2>8 DEF ItemsKept, lateVs
  <2>9. CASE \/ FSPollStart \/ FSPollStop \/ PollWorker \/ PollCallback \/ Post \/ RunPending \/ RunHooks
             \/ RunLoop \/ LoopTop \/ UIRequestStop \/ ParentCancels \/ Send
             \/ \E h \in UIHooks : Hook(h) \/ Unhook(h)
             \/ UNCHANGED uiVars
    BY <2>8, <2>9, QuietSteps
  <2>10. CASE LoopStep
    BY <2>4, <2>5, <2>7, <2>9, <2>10 DEF LoopStep
  <2>11. ASSUME NEW g \in Goroutines, GoStep(g) PROVE ItemsKept'
    BY <2>3, <2>2, <2>6, <2>9, <2>11 DEF GoStep, Socks
  <2> QED BY <2>1, <2>2, <2>3, <2>6, <2>7, <2>9, <2>10, <2>11 DEF UINext
<1> QED BY <1>1, <1>2, UvIOTypes, SocketsAreOwned, PTL DEF UISpec

\* When RunMode has returned, no socket is open and no item left behind, but for the races
\* that TornDown names.
THEOREM TeardownIsComplete == UISpec => []TornDown
<1>1. UITypeOK /\ SocketsOwned /\ ItemsKept => TornDown
  BY DEF UITypeOK, SocketsOwned, ItemsKept, TornDown, TearingDown
<1> QED BY <1>1, UvIOTypes, SocketsAreOwned, ItemsAreKept, PTL

\* The steps that do not concern the polled file.
LEMMA PollApart ==
    ASSUME UITypeOK, [UINext]_uiVars
    PROVE  \/ FSPollStart \/ FSPollStop \/ PollWorker \/ PollCallback \/ Poll("poll")
           \/ /\ UNCHANGED pollVs
              /\ uiGo'["poll"] = uiGo["poll"] /\ uiHeld'["poll"] = uiHeld["poll"]
              /\ uiQ'["poll"] = uiQ["poll"]
              /\ uiLoop' = uiLoop \/ (uiLoop # "dispatch" /\ uiLoop' # "dispatch")
<1> DEFINE Apart ==
       /\ UNCHANGED pollVs
       /\ uiGo'["poll"] = uiGo["poll"] /\ uiHeld'["poll"] = uiHeld["poll"] /\ uiQ'["poll"] = uiQ["poll"]
       /\ uiLoop' = uiLoop \/ (uiLoop # "dispatch" /\ uiLoop' # "dispatch")
       Goal == FSPollStart \/ FSPollStop \/ PollWorker \/ PollCallback \/ Poll("poll") \/ Apart
<1> SUFFICES Goal
  OBVIOUS
<1> HIDE DEF Goal
<1>1. /\ DOMAIN uiGo = Goroutines /\ DOMAIN uiQ = Goroutines /\ DOMAIN uiHeld = Goroutines
      /\ \A k \in Socks : k # "poll"
      /\ "poll" \in Goroutines
  BY DEF UITypeOK, Goroutines, Socks
<1>2. ASSUME NEW k \in Socks, Listen(k) \/ ReadFails(k) PROVE Apart
  BY <1>1, <1>2 DEF Listen, ReadFails, Move, loopVs, goVs
<1>3. ASSUME NEW k \in Socks, ReadItem(k) \/ PushItem(k) PROVE Apart
  BY <1>1, <1>3 DEF ReadItem, PushItem, Move, loopVs
<1>4. CASE LooksAtConn \/ Report \/ Send \/ Post
  BY <1>1, <1>4 DEF Goal, LooksAtConn, Report, Send, Post, Move, loopVs
<1>5. CASE CloseUDP \/ StopLoop \/ UIRequestStop \/ ParentCancels \/ RunLoop \/ LoopTop \/ Wait
  BY <1>5 DEF Goal, CloseUDP, StopLoop, UIRequestStop, ParentCancels, RunLoop, LoopTop, Wait, loopVs, goVs
<1>6. CASE RunHooks \/ \E h \in UIHooks : Hook(h) \/ Unhook(h)
  BY <1>6 DEF Goal, RunHooks, Hook, Unhook, loopVs, goVs
<1>7. CASE RunPending \/ UITeardown
  BY <1>1, <1>7 DEF Goal, RunPending, UITeardown
<1>8. ASSUME NEW g \in Goroutines \ {"poll"}, Poll(g) PROVE Apart
  BY <1>1, <1>8 DEF Poll
<1>9. CASE UNCHANGED uiVars
  BY <1>9 DEF Goal, uiVars, loopVs, goVs
<1> HIDE DEF Apart
<1>10. ASSUME NEW g \in Goroutines, Poll(g) PROVE Goal
  <2>1. CASE g = "poll"
    BY <1>10, <2>1 DEF Goal
  <2>2. CASE g # "poll"
    BY <1>8, <1>10, <2>2 DEF Goal
  <2> QED BY <2>1, <2>2
<1>11. CASE LoopStep
  <2>1. CASE LoopTop \/ RunPending \/ RunHooks \/ PollCallback \/ UITeardown \/ Wait
    BY <1>5, <1>6, <1>7, <2>1 DEF Goal
  <2>2. CASE \E g \in Goroutines : Poll(g)
    BY <1>10, <2>2
  <2> QED BY <1>11, <2>1, <2>2 DEF LoopStep
<1>12. ASSUME NEW g \in Goroutines, GoStep(g) PROVE Goal
  <2>1. CASE g \in Socks /\ (ReadItem(g) \/ PushItem(g))
    BY <1>3, <2>1 DEF Goal
  <2>2. CASE LooksAtConn \/ Report \/ Send \/ PollWorker
    BY <1>4, <2>2 DEF Goal
  <2> QED BY <1>12, <2>1, <2>2 DEF GoStep
<1>13. CASE \/ RunLoop \/ CloseUDP \/ StopLoop \/ UIRequestStop \/ ParentCancels \/ Send \/ Post
            \/ FSPollStart \/ FSPollStop \/ UNCHANGED uiVars
            \/ \E h \in UIHooks : Hook(h) \/ Unhook(h)
  BY <1>4, <1>5, <1>6, <1>9, <1>13 DEF Goal
<1>14. CASE \E k \in Socks : Listen(k) \/ ReadFails(k)
  BY <1>2, <1>14 DEF Goal
<1> QED BY <1>11, <1>12, <1>13, <1>14 DEF UINext

\* The callback is told what the stats found, and at most once after Stop.
THEOREM PollIsTold == UISpec => []PollTold
<1> DEFINE Inv == JobKept /\ ToldKept /\ PollTold
<1>1. UIInit => Inv
  <2> SUFFICES ASSUME UIInit PROVE Inv
    OBVIOUS
  <2>1. JobKept
    BY UIAssumption DEF UIInit, JobKept, Goroutines
  <2>2. ToldKept
    BY DEF UIInit, ToldKept
  <2>3. PollTold
    BY DEF UIInit, PollTold
  <2> QED BY <2>1, <2>2, <2>3
<1>2. UITypeOK /\ Inv /\ [UINext]_uiVars => Inv'
  <2> SUFFICES ASSUME UITypeOK, JobKept, ToldKept, PollTold, [UINext]_uiVars
               PROVE  JobKept' /\ ToldKept' /\ PollTold'
    OBVIOUS
  <2>0. /\ DOMAIN uiGo = Goroutines /\ DOMAIN uiQ = Goroutines /\ DOMAIN uiHeld = Goroutines
        /\ "poll" \in Goroutines /\ uiQ["poll"] \in Seq(UIEvents)
    BY DEF UITypeOK, Goroutines
  <2>1. CASE FSPollStart
    <3>1. /\ uiGo["poll"] = "none" /\ uiGo'["poll"] = "top"
          /\ UNCHANGED <<uiLoop, uiHeld, uiQ, fpJob, fpBusy, fpPrev, fpTold, fpLate>>
      BY <2>0, <2>1 DEF FSPollStart, Move, loopVs
    <3>2. uiQ["poll"] = <<>> /\ uiLoop # "dispatch" /\ uiHeld["poll"] # "resume" /\ fpLate = 0
      BY <3>1 DEF JobKept, ToldKept
    <3>3. JobKept'
      BY <3>1, <3>2 DEF JobKept
    <3>4. ToldKept'
      BY <3>1, <3>2 DEF ToldKept
    <3>5. PollTold'
      BY <3>1, <3>2 DEF PollTold
    <3> QED BY <3>3, <3>4, <3>5
  <2>2. CASE FSPollStop
    <3>1. /\ fpActive' => fpActive
          /\ UNCHANGED <<uiLoop, uiGo, uiHeld, uiQ, fpJob, fpBusy, fpPrev, fpTold, fpLate>>
      BY <2>2 DEF FSPollStop, loopVs, goVs
    <3>2. JobKept'
      BY <3>1 DEF JobKept
    <3>3. ToldKept'
      BY <3>1 DEF ToldKept
    <3>4. PollTold'
      BY <3>1 DEF PollTold
    <3> QED BY <3>2, <3>3, <3>4
  <2>3. CASE PollWorker
    <3>1. UNCHANGED <<uiLoop, fpActive, fpBusy, fpPrev, fpTold, fpLate>>
      BY <2>3 DEF PollWorker, loopVs
    <3>2. uiGo["poll"] # "none" /\ uiGo'["poll"] # "none"
      BY <2>0, <2>3 DEF PollWorker, Move
    <3>3. ToldKept'
      BY <3>1, <3>2 DEF ToldKept
    <3>4. uiHeld'["poll"] = IF uiGo'["poll"] = "top" THEN Nil ELSE uiHeld["poll"]
      BY <2>0, <2>3 DEF PollWorker
    <3>5. CASE uiGo'["poll"] = "done" /\ UNCHANGED <<fpJob, uiQ>>
      <4>1. JobKept'
        BY <3>1, <3>2, <3>4, <3>5 DEF JobKept
      <4>2. PollTold'
        BY <3>1, <3>4, <3>5 DEF PollTold
      <4> QED BY <3>3, <4>1, <4>2
    <3>6. CASE uiGo["poll"] \in {"top", "stat", "send"} /\ uiGo'["poll"] # "done"
      <4>1. uiQ["poll"] = <<>> /\ uiLoop # "dispatch" /\ uiHeld["poll"] # "resume"
        BY <3>6 DEF JobKept
      <4>2. /\ uiGo'["poll"] \in {"stat", "send", "resume"}
            /\ uiGo'["poll"] # "resume" => uiQ'["poll"] = <<>>
            /\ uiGo'["poll"] = "resume" => /\ uiGo["poll"] = "send" /\ fpJob' = fpJob
                                           /\ uiQ'["poll"] = Append(uiQ["poll"], fpJob)
        BY <2>0, <2>3, <3>6, <4>1 DEF PollWorker, Move
      <4>3. uiGo'["poll"] = "resume" => fpJob' \in StatOutcomes /\ Len(uiQ'["poll"]) = 1
        <5>1. SUFFICES ASSUME uiGo'["poll"] = "resume" PROVE fpJob' \in StatOutcomes /\ Len(uiQ'["poll"]) = 1
          OBVIOUS
        <5>2. fpJob \in StatOutcomes /\ fpJob' = fpJob /\ uiQ'["poll"] = Append(<<>>, fpJob)
          BY <4>1, <4>2, <5>1 DEF UITypeOK
        <5> QED BY <5>2
      <4>4. uiHeld'["poll"] = uiHeld["poll"]
        BY <3>4, <4>2
      <4>5. JobKept'
        BY <3>1, <3>2, <4>1, <4>2, <4>3, <4>4 DEF JobKept
      <4>6. PollTold'
        BY <3>1, <4>1, <4>4 DEF PollTold
      <4> QED BY <3>3, <4>5, <4>6
    <3>7. CASE uiGo["poll"] = "resume" /\ uiHeld["poll"] = "resume" /\ uiGo'["poll"] = "top" /\ UNCHANGED uiQ
      <4>1. uiHeld'["poll"] # "resume"
        BY <3>4, <3>7, UIAssumption
      <4>2. uiQ'["poll"] = <<>> /\ uiLoop' # "dispatch"
        BY <3>1, <3>7 DEF JobKept
      <4>3. JobKept'
        BY <3>1, <3>2, <4>1, <4>2, <3>7 DEF JobKept
      <4>4. PollTold'
        BY <3>1, <4>1 DEF PollTold
      <4> QED BY <3>3, <4>3, <4>4
    <3> QED BY <2>0, <2>3, <3>5, <3>6, <3>7 DEF PollWorker, Move
  <2>4. CASE PollCallback
    <3>1. /\ uiLoop = "dispatch" /\ uiLoop' = "check" /\ uiHeld'["poll"] = "resume"
          /\ UNCHANGED <<uiGo, uiQ, fpActive, fpJob>>
      BY <2>0, <2>4 DEF PollCallback
    <3>2. /\ fpJob \in StatOutcomes /\ uiGo["poll"] \in {"resume", "done"} /\ uiQ["poll"] = <<>>
          /\ fpLate = 0
      BY <3>1 DEF JobKept, ToldKept
    <3>3. /\ fpJob.status \in Int
          /\ fpJob.status = 0 => fpJob.stat \in UIStats
      <4>1. CASE fpJob \in [status : UIErrors, stat : {Nil}]
        <5>1. fpJob.status \in UIErrors
          BY <4>1
        <5> QED BY <5>1, UIAssumption
      <4>2. CASE fpJob \in [status : {0}, stat : UIStats]
        BY <4>2
      <4> QED BY <3>2, <4>1, <4>2 DEF StatOutcomes
    <3>4. JobKept'
      BY <3>1, <3>2 DEF JobKept
    <3>5. fpLate' = 0 \/ (fpLate' = 1 /\ ~fpActive)
      BY <2>4, <3>2 DEF PollCallback
    <3>6. CASE Tells(fpJob) \/ (fpJob.status = 0 /\ fpBusy = 0)
      <4>1. /\ fpTold' = [status |-> fpJob.status,
                          stat |-> IF fpJob.status = 0 THEN fpJob.stat ELSE fpTold.stat]
            /\ fpBusy' = IF fpJob.status # 0 THEN fpJob.status ELSE 1
            /\ fpPrev' = IF fpJob.status # 0 THEN fpPrev ELSE fpJob.stat
        BY <2>4, <3>6 DEF PollCallback, Dispatched
      <4>2. /\ fpTold'.status = fpJob.status
            /\ fpTold'.stat = IF fpJob.status = 0 THEN fpJob.stat ELSE fpTold.stat
            /\ fpTold' \in [status : Int, stat : UIStats \cup {Nil}]
        BY <3>3, <4>1 DEF ToldKept
      <4>3. ToldKept'
        BY <3>1, <3>2, <3>3, <3>5, <4>1, <4>2 DEF ToldKept
      <4>4. PollTold'
        BY <3>1, <3>5, <4>2 DEF PollTold
      <4> QED BY <3>4, <4>3, <4>4
    <3>7. CASE ~(Tells(fpJob) \/ (fpJob.status = 0 /\ fpBusy = 0))
      <4>1. /\ fpTold' = fpTold
            /\ fpBusy' = IF fpJob.status # 0 THEN fpJob.status ELSE 1
            /\ fpPrev' = IF fpJob.status # 0 THEN fpPrev ELSE fpJob.stat
        BY <2>4, <3>7 DEF PollCallback, Dispatched
      <4>2. IF fpJob.status # 0 THEN fpBusy = fpJob.status
            ELSE fpBusy # 0 /\ ~(fpBusy < 0) /\ fpPrev = fpJob.stat
        BY <3>7 DEF Tells
      <4>3. ToldKept'
        BY <3>1, <3>2, <3>3, <3>5, <4>1, <4>2 DEF ToldKept
      <4>4. PollTold'
        <5>1. CASE fpJob.status # 0
          BY <3>1, <3>3, <3>5, <4>1, <4>2, <5>1 DEF PollTold, ToldKept
        <5>2. CASE fpJob.status = 0
          <6>1. fpBusy \in Int /\ fpTold.status \in Int /\ fpTold.stat = fpJob.stat
            BY <4>2, <5>2 DEF ToldKept
          <6>2. fpTold.status >= 0
            BY <4>2, <5>2, <6>1 DEF ToldKept
          <6> QED BY <3>1, <3>5, <4>1, <5>2, <6>1, <6>2 DEF PollTold
        <5> QED BY <5>1, <5>2
      <4> QED BY <3>4, <4>3, <4>4
    <3> QED BY <3>6, <3>7
  <2>5. CASE Poll("poll")
    <3>1. /\ uiLoop = "poll"
          /\ UNCHANGED <<uiGo, pollVs>>
      BY <2>5 DEF Poll
    <3>2. CASE UNCHANGED <<uiQ, uiHeld>> /\ uiLoop' = "shut"
      <4>1. JobKept'
        BY <3>1, <3>2 DEF JobKept, pollVs
      <4>2. ToldKept' /\ PollTold'
        BY <3>1, <3>2 DEF ToldKept, PollTold, pollVs
      <4> QED BY <4>1, <4>2
    <3>3. CASE /\ uiQ["poll"] # <<>> /\ uiQ' = [uiQ EXCEPT !["poll"] = Tail(uiQ["poll"])]
               /\ uiLoop' = IF fpActive THEN "dispatch" ELSE "check"
               /\ uiHeld' = IF ~fpActive THEN [uiHeld EXCEPT !["poll"] = "resume"] ELSE uiHeld
      <4>1. /\ Len(uiQ["poll"]) = 1 /\ uiHeld["poll"] # "resume"
            /\ uiGo["poll"] \in {"resume", "done"} /\ fpJob \in StatOutcomes
        BY <3>3 DEF JobKept
      <4>2. uiQ'["poll"] = <<>>
        <5>1. uiQ'["poll"] = Tail(uiQ["poll"])
          BY <2>0, <3>3
        <5>2. Tail(uiQ["poll"]) \in Seq(UIEvents) /\ Len(Tail(uiQ["poll"])) = 0
          BY <2>0, <3>3, <4>1, HeadTailProperties
        <5> QED BY <5>1, <5>2, EmptySeq
      <4>3. uiHeld'["poll"] = IF ~fpActive THEN "resume" ELSE uiHeld["poll"]
        BY <2>0, <3>3
      <4>4. JobKept'
        BY <3>1, <3>3, <4>1, <4>2, <4>3 DEF JobKept, pollVs
      <4>5. ToldKept'
        BY <3>1, <3>3 DEF ToldKept, pollVs
      <4>6. PollTold'
        BY <3>1, <4>1, <4>3 DEF PollTold, pollVs
      <4> QED BY <4>4, <4>5, <4>6
    <3> QED BY <2>5, <3>2, <3>3 DEF Poll
  <2>6. CASE /\ UNCHANGED pollVs
             /\ uiGo'["poll"] = uiGo["poll"] /\ uiHeld'["poll"] = uiHeld["poll"]
             /\ uiQ'["poll"] = uiQ["poll"]
             /\ uiLoop' = uiLoop \/ (uiLoop # "dispatch" /\ uiLoop' # "dispatch")
    <3>1. JobKept'
      BY <2>6 DEF JobKept, pollVs
    <3>2. ToldKept' /\ PollTold'
      BY <2>6 DEF ToldKept, PollTold, pollVs
    <3> QED BY <3>1, <3>2
  <2> QED BY <2>1, <2>2, <2>3, <2>4, <2>5, <2>6, PollApart
<1>3. Inv => PollTold
  OBVIOUS
<1> QED BY <1>1, <1>2, <1>3, UvIOTypes, PTL DEF UISpec
=============================================================================
