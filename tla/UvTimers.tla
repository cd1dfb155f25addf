------------------------------ MODULE UvTimers ------------------------------
(***************************************************************************)
(* The timers of uvgo: TimerStart and Timer.Stop (any goroutine), the      *)
(* scheduler goroutine that sleeps until the next deadline and sends due   *)
(* handles on the channel fire, and the goroutine in RunMode that receives *)
(* them, runs the callbacks and re-registers repeating timers.             *)
(*                                                                         *)
(* Time is relative: left[t] is how long it is until th.next, 0 when the   *)
(* time has come.  Events of the other sources RunMode polls (sockets,     *)
(* fspoll) are the action PollOther.                                       *)
(***************************************************************************)
EXTENDS Naturals, Sequences, FiniteSets, SequencesExt

CONSTANTS
    Timers,     \* timer handles
    Callers,    \* goroutines, other than the loop's, that use the API
    Modes,      \* run modes explored: "default", "once", "nowait"
    FireCap,    \* capacity of l.fire
    MaxDelay,   \* bound: longest first delay
    Repeats     \* bound: repeat intervals explored, 0 for one-shot

ASSUME BoundsAreNat == MaxDelay \in Nat /\ FireCap \in Nat /\ FireCap > 0
ASSUME RepeatsWithinDelay == Repeats \subseteq 0..MaxDelay

VARIABLES
    active,     \* active[t]: th.active
    repeat,     \* repeat[t]: th.repeat
    left,       \* left[t]: time until th.next
    started,    \* the handles TimerStart has made
    timers,     \* l.timers
    wake,       \* the one-place channel l.timerWake holds a ping
    pinging,    \* goroutines that changed the timers and have yet to ping
    sched,      \* program counter of timerScheduler
    cur,        \* time until cur.C fires, while the scheduler waits for it
    due,        \* handles fireDueTimers has yet to send
    fire,       \* the channel l.fire
    loop,       \* where the goroutine in RunMode is
    mode,       \* the mode it runs in
    th,         \* the handle it dispatches, while it does
    stopFlag,   \* l.stopFlag
    stopping,   \* a RequestStop has set the flag and has yet to cancel
    ctxDone,    \* l.ctx is done
    begun,      \* history: begun[t] callbacks of t begun (counted up to 2)
    stopped,    \* history: the timers Timer.Stop was called for
    late        \* history: late[t] callbacks of t begun after its Stop (up to 2)

handleVars == <<active, repeat, left, started>>
schedVars  == <<sched, cur, due>>
loopVars   == <<loop, mode, th>>
utStopVars   == <<stopFlag, stopping, ctxDone>>
histVars   == <<begun, stopped, late>>
utVars == <<handleVars, timers, wake, pinging, schedVars, fire, loopVars, utStopVars, histVars>>

None == "none"
Loop == "loop goroutine"

Capped(n) == IF n < 2 THEN n + 1 ELSE n

UTInit ==
    /\ active = [t \in Timers |-> FALSE]
    /\ repeat = [t \in Timers |-> 0]
    /\ left = [t \in Timers |-> 0]
    /\ started = {}
    /\ timers = <<>>
    /\ wake = FALSE
    /\ pinging = {}
    /\ sched = "off" /\ cur = 0 /\ due = <<>>
    /\ fire = <<>>
    /\ loop = "out" /\ mode = None /\ th = None
    /\ stopFlag = FALSE /\ stopping = FALSE /\ ctxDone = FALSE
    /\ begun = [t \in Timers |-> 0]
    /\ stopped = {}
    /\ late = [t \in Timers |-> 0]

-----------------------------------------------------------------------------
(* The API.  The loop's goroutine may use it from inside a callback.       *)

CanCall(g) == /\ g \notin pinging
              /\ g = Loop => loop = "callback"

TimerStart(g, t, first, every) ==
    /\ CanCall(g)
    /\ t \notin started
    /\ started' = started \cup {t}
    /\ active' = [active EXCEPT ![t] = TRUE]
    /\ repeat' = [repeat EXCEPT ![t] = every]
    /\ left' = [left EXCEPT ![t] = first]
    /\ timers' = Append(timers, t)
    /\ pinging' = pinging \cup {g}
    /\ UNCHANGED <<wake, schedVars, fire, loopVars, utStopVars, histVars>>

StopTimer(g, t) ==
    /\ CanCall(g)
    /\ t \in started
    /\ active' = [active EXCEPT ![t] = FALSE]
    /\ stopped' = stopped \cup {t}
    /\ pinging' = pinging \cup {g}
    /\ UNCHANGED <<repeat, left, started, timers, wake, schedVars, fire, loopVars, utStopVars, begun, late>>

\* Mutant: timerWake has no buffer, a ping nobody waits for is lost.
PingScheduler_Unbuffered(g) ==
    /\ g \in pinging
    /\ wake' = (sched \in {"wait", "armed"})
    /\ pinging' = pinging \ {g}
    /\ UNCHANGED <<handleVars, timers, schedVars, fire, loopVars, utStopVars, histVars>>

PingScheduler(g) ==
    /\ g \in pinging
    /\ wake' = TRUE
    /\ pinging' = pinging \ {g}
    /\ UNCHANGED <<handleVars, timers, schedVars, fire, loopVars, utStopVars, histVars>>

\* RequestStop: the flag first, then the context.
RequestStop ==
    /\ ~stopping
    /\ stopFlag' = TRUE
    /\ stopping' = TRUE
    /\ UNCHANGED <<handleVars, timers, wake, pinging, schedVars, fire, loopVars, ctxDone, histVars>>

\* The second half of RequestStop, Loop.Stop, or the parent context is done.
Cancel ==
    /\ ctxDone' = TRUE
    /\ stopping' = FALSE
    /\ UNCHANGED <<handleVars, timers, wake, pinging, schedVars, fire, loopVars, stopFlag, histVars>>

-----------------------------------------------------------------------------
(* timerScheduler.                                                         *)

SchedWake ==
    /\ sched = "wait"
    /\ wake
    /\ wake' = FALSE
    /\ sched' = "arm"
    /\ UNCHANGED <<handleVars, timers, pinging, cur, due, fire, loopVars, utStopVars, histVars>>

ActiveListed == {t \in ToSet(timers) : active[t]}

nextTimerDeadline ==
    CHOOSE d \in {left[t] : t \in ActiveListed} : \A t \in ActiveListed : d <= left[t]

\* Without an active timer the scheduler goes back to waiting for a ping.
SchedArm ==
    /\ sched = "arm"
    /\ IF ActiveListed = {}
       THEN sched' = "wait" /\ cur' = 0
       ELSE sched' = "armed" /\ cur' = nextTimerDeadline
    /\ UNCHANGED <<handleVars, timers, wake, pinging, due, fire, loopVars, utStopVars, histVars>>

\* A ping while armed: the timer is stopped and the ping is used up, so the
\* scheduler does not look at the deadlines before the next ping.
SchedRewake ==
    /\ sched = "armed"
    /\ wake
    /\ wake' = FALSE
    /\ sched' = "wait"
    /\ cur' = 0
    /\ UNCHANGED <<handleVars, timers, pinging, due, fire, loopVars, utStopVars, histVars>>

SchedExpired ==
    /\ sched = "armed"
    /\ cur = 0
    /\ sched' = "fire"
    /\ UNCHANGED <<handleVars, timers, wake, pinging, cur, due, fire, loopVars, utStopVars, histVars>>

IsDue(t)    == active[t] /\ left[t] = 0
IsLater(t)  == active[t] /\ left[t] > 0

\* The indices I of l.timers in the order of the loop over it.
InOrder(I) ==
    {s \in Bijection(1 .. Cardinality(I), I) : \A i, j \in DOMAIN s : i < j => s[i] < s[j]}

\* Under l.mu: inactive handles are dropped, due ones set aside, the rest kept.
FireDueTimers ==
    /\ sched = "fire"
    /\ \E d \in InOrder({i \in DOMAIN timers : IsDue(timers[i])}),
          r \in InOrder({i \in DOMAIN timers : IsLater(timers[i])}) :
         /\ due' = [k \in DOMAIN d |-> timers[d[k]]]
         /\ timers' = [k \in DOMAIN r |-> timers[r[k]]]
    /\ sched' = "send"
    /\ UNCHANGED <<handleVars, wake, pinging, cur, fire, loopVars, utStopVars, histVars>>

SendDue ==
    /\ sched = "send"
    /\ due # <<>>
    /\ Len(fire) < FireCap
    /\ fire' = Append(fire, Head(due))
    /\ due' = Tail(due)
    /\ UNCHANGED <<handleVars, timers, wake, pinging, sched, cur, loopVars, utStopVars, histVars>>

\* fireDueTimers returns, all sent or the context done, and the scheduler goes
\* back to its first select.
SentDue ==
    /\ sched = "send"
    /\ due = <<>> \/ ctxDone
    /\ due' = <<>>
    /\ sched' = "wait"
    /\ UNCHANGED <<handleVars, timers, wake, pinging, cur, fire, loopVars, utStopVars, histVars>>

SchedDone ==
    /\ sched \in {"wait", "armed"}
    /\ ctxDone
    /\ sched' = "exit"
    /\ cur' = 0
    /\ UNCHANGED <<handleVars, timers, wake, pinging, due, fire, loopVars, utStopVars, histVars>>

Scheduler == \/ SchedWake \/ SchedArm \/ SchedRewake \/ SchedExpired
             \/ FireDueTimers \/ SendDue \/ SentDue \/ SchedDone

-----------------------------------------------------------------------------
(* RunMode.                                                                *)

\* startTimerScheduler: timerOnce starts the scheduler on the first run only.
RunMode(m) ==
    /\ loop = "out"
    /\ loop' = "top"
    /\ mode' = m
    /\ stopFlag' = FALSE
    /\ sched' = IF sched = "off" THEN "wait" ELSE sched
    /\ UNCHANGED <<handleVars, timers, wake, pinging, cur, due, fire, th, stopping, ctxDone, histVars>>

IterationTop ==
    /\ loop = "top"
    /\ loop' = IF ctxDone \/ stopFlag THEN "teardown" ELSE "poll"
    /\ stopFlag' = IF ctxDone THEN stopFlag ELSE FALSE
    /\ UNCHANGED <<handleVars, timers, wake, pinging, schedVars, fire, mode, th, stopping, ctxDone, histVars>>

\* pollOneBlocking and pollNoWait receive from l.fire; dispatchTimer reads active.
PollTimer ==
    /\ loop = "poll"
    /\ fire # <<>>
    /\ fire' = Tail(fire)
    /\ IF active[Head(fire)]
       THEN loop' = "dispatch" /\ th' = Head(fire)
       ELSE loop' = (IF mode = "nowait" THEN "poll" ELSE "check") /\ th' = None
    /\ UNCHANGED <<handleVars, timers, wake, pinging, schedVars, mode, utStopVars, histVars>>

\* An event of another source, for which pollNoWait goes on polling.
PollOther ==
    /\ loop = "poll"
    /\ mode # "nowait"
    /\ loop' = "check"
    /\ UNCHANGED <<handleVars, timers, wake, pinging, schedVars, fire, mode, th, utStopVars, histVars>>

PollEmpty ==
    /\ loop = "poll"
    /\ mode = "nowait"
    /\ fire = <<>>
    /\ loop' = "check"
    /\ UNCHANGED <<handleVars, timers, wake, pinging, schedVars, fire, mode, th, utStopVars, histVars>>

\* Mutant: pollOneBlocking does not watch the context.
PollDone_NoWaitOnly ==
    /\ loop = "poll"
    /\ mode = "nowait"
    /\ ctxDone
    /\ loop' = "check"
    /\ UNCHANGED <<handleVars, timers, wake, pinging, schedVars, fire, mode, th, utStopVars, histVars>>

\* The context is done: pollNoWait returns as if the poll were over.
PollDone ==
    /\ loop = "poll"
    /\ ctxDone
    /\ loop' = IF mode = "nowait" THEN "check" ELSE "teardown"
    /\ UNCHANGED <<handleVars, timers, wake, pinging, schedVars, fire, mode, th, utStopVars, histVars>>

CallbackBegin ==
    /\ loop = "dispatch"
    /\ loop' = "callback"
    /\ begun' = [begun EXCEPT ![th] = Capped(@)]
    /\ late' = [late EXCEPT ![th] = IF th \in stopped THEN Capped(@) ELSE @]
    /\ UNCHANGED <<handleVars, timers, wake, pinging, schedVars, fire, mode, th, utStopVars, stopped>>

AfterDispatch == IF mode = "nowait" THEN "poll" ELSE "check"

\* Mutant: rescheduleTimer makes the handle active again.
CallbackEndRepeat_Reactivate ==
    /\ loop = "callback" /\ Loop \notin pinging
    /\ repeat[th] > 0
    /\ active' = [active EXCEPT ![th] = TRUE]
    /\ left' = [left EXCEPT ![th] = repeat[th]]
    /\ timers' = IF th \in ToSet(timers) THEN timers ELSE Append(timers, th)
    /\ pinging' = pinging \cup {Loop}
    /\ loop' = "reping"
    /\ UNCHANGED <<repeat, started, wake, schedVars, fire, mode, th, utStopVars, histVars>>

\* dispatchTimer after the callback of a repeating timer: rescheduleTimer puts
\* the handle back, also if the timer was stopped meanwhile, and pings.
CallbackEndRepeat ==
    /\ loop = "callback" /\ Loop \notin pinging
    /\ repeat[th] > 0
    /\ left' = [left EXCEPT ![th] = repeat[th]]
    /\ timers' = IF th \in ToSet(timers) THEN timers ELSE Append(timers, th)
    /\ pinging' = pinging \cup {Loop}
    /\ loop' = "reping"
    /\ UNCHANGED <<active, repeat, started, wake, schedVars, fire, mode, th, utStopVars, histVars>>

Repinged ==
    /\ loop = "reping" /\ Loop \notin pinging
    /\ loop' = AfterDispatch
    /\ th' = None
    /\ UNCHANGED <<handleVars, timers, wake, pinging, schedVars, fire, mode, utStopVars, histVars>>

CallbackEndOneShot ==
    /\ loop = "callback" /\ Loop \notin pinging
    /\ repeat[th] = 0
    /\ active' = [active EXCEPT ![th] = FALSE]
    /\ loop' = AfterDispatch
    /\ th' = None
    /\ UNCHANGED <<repeat, left, started, timers, wake, pinging, schedVars, fire, mode, utStopVars, histVars>>

\* The check phase; RunOnce and RunNoWait return here, without a teardown.
IterationEnd ==
    /\ loop = "check"
    /\ loop' = IF mode = "default" THEN "top" ELSE "out"
    /\ UNCHANGED <<handleVars, timers, wake, pinging, schedVars, fire, mode, th, utStopVars, histVars>>

\* teardownAfterRun waits for the scheduler.
Teardown ==
    /\ loop = "teardown"
    /\ sched = "exit"
    /\ loop' = "out"
    /\ UNCHANGED <<handleVars, timers, wake, pinging, schedVars, fire, mode, th, utStopVars, histVars>>

Run == \/ IterationTop \/ PollTimer \/ PollEmpty \/ PollDone
       \/ CallbackBegin \/ CallbackEndRepeat \/ Repinged \/ CallbackEndOneShot
       \/ IterationEnd \/ Teardown

-----------------------------------------------------------------------------
UTTick ==
    /\ cur > 0 \/ \E t \in started : left[t] > 0
    /\ left' = [t \in Timers |-> IF t \in started /\ left[t] > 0 THEN left[t] - 1 ELSE left[t]]
    /\ cur' = IF cur > 0 THEN cur - 1 ELSE 0
    /\ UNCHANGED <<active, repeat, started, timers, wake, pinging, sched, due, fire, loopVars, utStopVars, histVars>>

Api == \E g \in Callers \cup {Loop} :
          \/ \E t \in Timers, first \in 0..MaxDelay, every \in Repeats :
                TimerStart(g, t, first, every)
          \/ \E t \in Timers : StopTimer(g, t)

Ping == \E g \in Callers \cup {Loop} : PingScheduler(g)

UTNext == \/ Api \/ Ping \/ RequestStop \/ Cancel
          \/ Scheduler
          \/ Run \/ PollOther \/ \E m \in Modes : RunMode(m)
          \/ UTTick

\* No socket event is promised.  Time passes, the Go scheduler runs every goroutine, a
\* RequestStop that has begun goes on, callbacks return, and select does not pass over a
\* done context or a due timer for ever.
UTFairness ==
    /\ WF_utVars(UTTick)
    /\ \A g \in Callers \cup {Loop} : WF_utVars(PingScheduler(g))
    /\ WF_utVars(stopping /\ Cancel)
    /\ WF_utVars(Scheduler) /\ SF_utVars(SchedDone)
    /\ WF_utVars(Run) /\ SF_utVars(PollTimer)
    /\ SF_utVars(CallbackEndRepeat \/ CallbackEndOneShot)

UTSpec == UTInit /\ [][UTNext]_utVars

\* No case at all is passed over for ever, where that must not be what goes wrong.
UTFairSpec == UTSpec /\ UTFairness /\ SF_utVars(SchedExpired) /\ SF_utVars(PollDone)

-----------------------------------------------------------------------------
(* Properties.                                                             *)

UTTypeOK ==
    /\ active \in [Timers -> BOOLEAN]
    /\ repeat \in [Timers -> Repeats \cup {0}]
    /\ left \in [Timers -> 0..MaxDelay]
    /\ started \subseteq Timers
    /\ timers \in Seq(Timers) /\ due \in Seq(Timers)
    /\ fire \in Seq(Timers) /\ Len(fire) <= FireCap
    /\ wake \in BOOLEAN
    /\ pinging \subseteq Callers \cup {Loop}
    /\ sched \in {"off", "wait", "arm", "armed", "fire", "send", "exit"}
    /\ cur \in 0..MaxDelay
    /\ loop \in {"out", "top", "poll", "dispatch", "callback", "reping", "check", "teardown"}
    /\ mode \in Modes \cup {None}
    /\ th \in Timers \cup {None}
    /\ stopFlag \in BOOLEAN /\ stopping \in BOOLEAN /\ ctxDone \in BOOLEAN
    /\ stopped \subseteq Timers
    /\ begun \in [Timers -> 0..2] /\ late \in [Timers -> 0..2]

InDispatch == IF loop \in {"dispatch", "callback"} THEN <<th>> ELSE <<>>
Places == timers \o due \o fire \o InDispatch

\* The list, the scheduler, the channel and the dispatcher hand a handle on to
\* each other and never share it, which is what makes the unlocked write of
\* th.next in dispatchTimer safe and keeps a timer from being fired twice.
OneOwner == UTTypeOK /\ IsInjective(Places)

\* Until the context is done no active timer drops out of circulation.
ActiveTimerIsSomewhere ==
    ~ctxDone => \A t \in Timers : active[t] => t \in ToSet(Places)

\* No callback begins before its delay, or its repeat interval, is over: a
\* handle that has left the list has its time behind it.
NeverEarly ==
    \A t \in ToSet(due \o fire \o InDispatch) : left[t] = 0

\* A one-shot timer's callback begins at most once.
OneShotRunsOnce == \A t \in Timers : repeat[t] = 0 => begun[t] <= 1

\* "Stop corresponds to uv_timer_stop: cancel further callbacks": after
\* Timer.Stop at most the callback that had already passed its check begins.
StopCancelsFurther == \A t \in Timers : late[t] <= 1

\* Run returns once its context is done, and with it the scheduler.
RunReturns == (ctxDone /\ loop # "out") ~> (loop = "out")

Waiting(t) == active[t] /\ loop # "out" /\ ~ctxDone

\* While the loop runs, a registered timer that nobody stops is called back:
\* after its first delay, and again after every repeat.
TimerIsCalledBack ==
    \A t \in Timers :
        Waiting(t) ~> (~Waiting(t) \/ (loop = "callback" /\ th = t))

\* Handles and callbacks: every handle is in one place, an active one is somewhere, and
\* callbacks are neither early nor doubled nor repeated after Stop.
TimersConsistent ==
    OneOwner /\ ActiveTimerIsSomewhere /\ NeverEarly /\ OneShotRunsOnce /\ StopCancelsFurther
=============================================================================
