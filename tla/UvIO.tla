-------------------------------- MODULE UvIO --------------------------------
(***************************************************************************)
(* uvgo without its timers: TCP listeners, UDP sockets, polled files,      *)
(* posted functions and phase hooks, with the goroutines behind them and   *)
(* the loop that dispatches what they queue (tcp.go, udp.go, fspoll.go,    *)
(* eventloop.go, loop.go).                                                 *)
(*                                                                         *)
(* A listener and a UDP socket work alike: a goroutine reads items         *)
(* (connections, datagrams) and pushes them to a channel of the loop.      *)
(* Callbacks are instantaneous.  A select with several ready cases may     *)
(* take any.                                                               *)
(***************************************************************************)
EXTENDS Outcomes, Integers, Sequences, FiniteSets, SequencesExt

CONSTANTS
    UIUses,         \* which of "tcp", "udp", "send", "poll", "hooks" a loop is used for
    UIItems,        \* connections, or datagrams, numbered as they arrive
    UICap,          \* bound: capacity of the channels
    UIStats,        \* metadata the polled file may have
    UIErrors,       \* status of a stat that fails: the errno, or -1 for an unknown error
    UIHooks         \* hooks

ASSUME UIAssumption ==
    /\ UICap \in Nat \ {0} /\ UIItems \subseteq Nat
    /\ UIErrors \subseteq Int \ {0} /\ Nil \notin UIStats
    /\ Failed \notin UIItems /\ Nil # "resume"

VARIABLES
    uiUse, uiLoop, uiCtx, uiFlag,   \* the loop: where it is, ctx is done, stop_flag
    uiStop, uiStopped, uiAsk,       \* where Stop is; l.stopped; where RequestStop is
    uiListen, uiSock, uiListed,     \* ListenTCP/ListenUDP, the sockets, l.listeners and l.udps
    uiTaken,                        \* what shutdownSockets of "stop" and "loop" has taken
    uiClose,                        \* where the UDP.Close of the socket's user is
    uiGo, uiHeld, uiQ,              \* the goroutines, the item each has, the channels
    uiItem,                         \* where each item is
    fpActive, fpCanceled, fpStop,   \* the polled file: active, its context, where Stop is
    fpJob, fpBusy, fpPrev,          \* the outcome of the stat under way, busy and prev
    fpTold, fpLate,                 \* history: what the callback was told, how often after Stop
    uiHooks, uiSnap,                \* registered hooks, those this phase has yet to run
    uiRaced, uiPushed               \* history: sockets added, and items queued, too late

loopVs == <<uiUse, uiLoop, uiCtx, uiFlag>>
stopVs == <<uiStop, uiStopped, uiAsk>>
sockVs == <<uiListen, uiSock, uiListed, uiTaken, uiClose>>
goVs == <<uiGo, uiHeld, uiQ, uiItem>>
pollVs == <<fpActive, fpCanceled, fpStop, fpJob, fpBusy, fpPrev, fpTold, fpLate>>
hookVs == <<uiHooks, uiSnap>>
lateVs == <<uiRaced, uiPushed>>
uiVars == <<loopVs, stopVs, sockVs, goVs, pollVs, hookVs, lateVs>>

Socks == {"tcp", "udp"}
Goroutines == {"tcp", "udp", "send", "poll"}

\* NewLoop.
UIInit ==
    /\ uiUse \in UIUses
    /\ uiLoop = "out" /\ uiCtx = FALSE /\ uiFlag = FALSE
    /\ uiStop = "idle" /\ uiStopped = FALSE /\ uiAsk = "idle"
    /\ uiListen = [k \in Socks |-> IF k \in uiUse THEN "idle" ELSE "done"]
    /\ uiSock = [k \in Socks |-> "none"]
    /\ uiListed = {}
    /\ uiTaken = [a \in {"stop", "loop"} |-> {}]
    /\ uiClose = "idle"
    /\ uiGo = [g \in Goroutines |-> "none"]
    /\ uiHeld = [g \in Goroutines |-> Nil]
    /\ uiQ = [g \in Goroutines |-> <<>>]
    /\ uiItem = [i \in UIItems |-> "none"]
    /\ fpActive = FALSE /\ fpCanceled = FALSE /\ fpStop = "idle"
    /\ fpJob = Nil /\ fpBusy = 0 /\ fpPrev = Nil
    /\ fpTold = [status |-> 0, stat |-> Nil] /\ fpLate = 0
    /\ uiHooks = {} /\ uiSnap = {}
    /\ uiRaced = {} /\ uiPushed = {}

-----------------------------------------------------------------------------
(* ListenTCP and ListenUDP: the check of stopped, the bind, and the append *)
(* are apart.                                                              *)

TearingDown == uiLoop \in {"close", "drain", "wait", "returned"}

\* Where the loop of a socket's goroutine begins: recvLoop looks at the socket first.
Begins(k) == IF k = "udp" THEN "top" ELSE "read"

Listen(k) ==
    \/ /\ uiListen[k] = "idle"
       /\ uiListen' = [uiListen EXCEPT ![k] = IF uiStopped THEN "done" ELSE "bind"]
       /\ UNCHANGED <<loopVs, stopVs, uiSock, uiListed, uiTaken, uiClose, goVs, pollVs, hookVs, lateVs>>
    \/ /\ uiListen[k] = "bind"
       /\ \/ /\ uiSock' = [uiSock EXCEPT ![k] = "open"]
             /\ uiListen' = [uiListen EXCEPT ![k] = "append"]
          \/ /\ uiListen' = [uiListen EXCEPT ![k] = "done"]
             /\ UNCHANGED uiSock
       /\ UNCHANGED <<loopVs, stopVs, uiListed, uiTaken, uiClose, goVs, pollVs, hookVs, lateVs>>
    \/ /\ uiListen[k] = "append"
       /\ uiListed' = uiListed \cup {k}
       /\ uiListen' = [uiListen EXCEPT ![k] = "spawn"]
       /\ uiRaced' = IF TearingDown THEN uiRaced \cup {k} ELSE uiRaced
       /\ UNCHANGED <<loopVs, stopVs, uiSock, uiTaken, uiClose, goVs, pollVs, hookVs, uiPushed>>
    \/ /\ uiListen[k] = "spawn"
       /\ uiGo' = [uiGo EXCEPT ![k] = Begins(k)]
       /\ uiListen' = [uiListen EXCEPT ![k] = "done"]
       /\ uiRaced' = IF TearingDown THEN uiRaced \cup {k} ELSE uiRaced
       /\ UNCHANGED <<loopVs, stopVs, uiSock, uiListed, uiTaken, uiClose, uiHeld, uiQ, uiItem,
                      pollVs, hookVs, uiPushed>>

\* UDP.Close: closed is set and conn taken away under the lock ("closing"), and only then
\* is the connection closed.  Another Close returns at once in the meantime.
CloseUDP ==
    /\ \/ /\ uiClose = "idle" /\ uiListen["udp"] = "done" /\ uiSock["udp"] = "open"
          /\ uiSock' = [uiSock EXCEPT !["udp"] = "closing"]
          /\ uiClose' = "conn"
          /\ UNCHANGED uiListed
       \/ /\ uiClose = "conn"
          /\ uiSock' = [uiSock EXCEPT !["udp"] = "closed"]
          /\ uiClose' = "unlist"
          /\ UNCHANGED uiListed
       \/ /\ uiClose = "unlist"
          /\ uiListed' = uiListed \ {"udp"}
          /\ uiClose' = "done"
          /\ UNCHANGED uiSock
    /\ UNCHANGED <<loopVs, stopVs, uiListen, uiTaken, goVs, pollVs, hookVs, lateVs>>

\* shutdownSockets by a: the lists are emptied under the lock,
TakeSockets(a) ==
    /\ uiTaken' = [uiTaken EXCEPT ![a] = uiListed]
    /\ uiListed' = {}
    /\ UNCHANGED <<uiSock, uiClose, uiListen>>

\* and what was taken is closed, which takes a UDP socket the steps of UDP.Close.
BeginsClose(a) == "udp" \in uiTaken[a] /\ uiSock["udp"] = "open"

CloseTaken(a) ==
    /\ uiSock' = [k \in Socks |->
                    IF k \notin uiTaken[a] \/ (k = "udp" /\ uiClose = "conn") THEN uiSock[k]
                    ELSE IF k = "udp" /\ BeginsClose(a) THEN "closing" ELSE "closed"]
    /\ UNCHANGED <<uiTaken, uiListed, uiClose, uiListen>>

-----------------------------------------------------------------------------
(* The goroutines.                                                         *)

Move(g, pc) == uiGo' = [uiGo EXCEPT ![g] = pc]

\* recvLoop ends when it finds that the socket has no conn any more.
LooksAtConn ==
    /\ uiGo["udp"] = "top"
    /\ Move("udp", IF uiSock["udp"] = "open" THEN "read" ELSE "done")
    /\ UNCHANGED <<loopVs, stopVs, sockVs, uiHeld, uiQ, uiItem, pollVs, hookVs, lateVs>>

\* Accept or ReadFrom gives an item, or fails because the socket is closed.
ReadItem(k) ==
    /\ uiGo[k] = "read"
    /\ \/ /\ uiSock[k] # "closed"
          /\ \E i \in UIItems :
               /\ uiItem[i] = "none" /\ \A j \in UIItems : j < i => uiItem[j] # "none"
               /\ uiItem' = [uiItem EXCEPT ![i] = "held"]
               /\ uiHeld' = [uiHeld EXCEPT ![k] = i]
          /\ Move(k, "push")
       \/ /\ uiSock[k] = "closed"
          /\ Move(k, "done")
          /\ UNCHANGED <<uiHeld, uiItem>>
    /\ UNCHANGED <<loopVs, stopVs, sockVs, uiQ, pollVs, hookVs, lateVs>>

\* Another error ends the goroutine: without a word that of a listener, with a last
\* message that of a UDP socket.  The socket stays open.
ReadFails(k) ==
    /\ uiGo[k] = "read" /\ uiSock[k] # "closed"
    /\ Move(k, IF k = "udp" THEN "report" ELSE "done")
    /\ UNCHANGED <<loopVs, stopVs, sockVs, uiHeld, uiQ, uiItem, pollVs, hookVs, lateVs>>

\* The select between the loop's channel and its context.
PushItem(k) ==
    LET i == uiHeld[k] IN
    /\ uiGo[k] = "push"
    /\ uiHeld' = [uiHeld EXCEPT ![k] = Nil]
    /\ \/ /\ Len(uiQ[k]) < UICap
          /\ uiQ' = [uiQ EXCEPT ![k] = Append(@, i)]
          /\ uiItem' = [uiItem EXCEPT ![i] = "queued"]
          /\ uiPushed' = IF uiLoop \in {"wait", "returned"} THEN uiPushed \cup {i} ELSE uiPushed
          /\ Move(k, Begins(k))
       \/ /\ uiCtx
          /\ uiItem' = [uiItem EXCEPT ![i] = IF k = "tcp" THEN "closed" ELSE "dropped"]
          /\ Move(k, "done")
          /\ UNCHANGED <<uiQ, uiPushed>>
    /\ UNCHANGED <<loopVs, stopVs, sockVs, pollVs, hookVs, uiRaced>>

Report ==
    /\ uiGo["udp"] = "report"
    /\ Len(uiQ["udp"]) < UICap \/ uiCtx
    /\ Move("udp", "done")
    /\ \/ Len(uiQ["udp"]) < UICap /\ uiQ' = [uiQ EXCEPT !["udp"] = Append(@, Failed)]
       \/ uiCtx /\ UNCHANGED uiQ
    /\ UNCHANGED <<loopVs, stopVs, sockVs, uiHeld, uiItem, pollVs, hookVs, lateVs>>

\* Send and its goroutine: written or failed, its completion is queued, or forgotten
\* once the loop is done.
Send ==
    /\ "send" \in uiUse
    /\ \/ uiGo["send"] = "none" /\ uiListen["udp"] = "done" /\ Move("send", "push") /\ UNCHANGED uiQ
       \/ /\ uiGo["send"] = "push"
          /\ Move("send", "done")
          /\ \/ uiQ' = [uiQ EXCEPT !["send"] = Append(@, IF uiSock["udp"] = "open" THEN "sent" ELSE "failed")]
             \/ uiCtx /\ UNCHANGED uiQ
    /\ UNCHANGED <<loopVs, stopVs, sockVs, uiHeld, uiItem, pollVs, hookVs, lateVs>>

-----------------------------------------------------------------------------
(* Polled files.                                                           *)

FSPollStart ==
    /\ "poll" \in uiUse /\ uiGo["poll"] = "none" /\ ~uiStopped
    /\ fpActive' = TRUE
    /\ Move("poll", "top")
    /\ UNCHANGED <<loopVs, stopVs, sockVs, uiHeld, uiQ, uiItem, fpCanceled, fpStop, fpJob,
                   fpBusy, fpPrev, fpTold, fpLate, hookVs, lateVs>>

\* FSPoll.Stop: active goes under the lock, then the context is cancelled.
FSPollStop ==
    /\ \/ /\ fpActive /\ fpStop = "idle"
          /\ fpActive' = FALSE /\ fpStop' = "cancel"
          /\ UNCHANGED fpCanceled
       \/ /\ fpStop = "cancel"
          /\ fpCanceled' = TRUE /\ fpStop' = "done"
          /\ UNCHANGED fpActive
    /\ UNCHANGED <<loopVs, stopVs, sockVs, goVs, fpJob, fpBusy, fpPrev, fpTold, fpLate, hookVs, lateVs>>

\* What os.Stat of a file others change may find.
StatOutcomes == [status : UIErrors, stat : {Nil}] \cup [status : {0}, stat : UIStats]

\* fspollWorker: stat, queue the job, wait until it is dispatched, sleep.
PollWorker ==
    /\ \/ /\ uiGo["poll"] # "none" /\ uiGo["poll"] # "done" /\ (uiCtx \/ fpCanceled)
          /\ Move("poll", "done")
          /\ UNCHANGED <<fpJob, uiQ>>
       \/ /\ uiGo["poll"] = "top"
          /\ Move("poll", IF fpActive THEN "stat" ELSE "done")
          /\ UNCHANGED <<fpJob, uiQ>>
       \/ /\ uiGo["poll"] = "stat"
          /\ fpJob' \in StatOutcomes
          /\ Move("poll", "send")
          /\ UNCHANGED uiQ
       \/ /\ uiGo["poll"] = "send" /\ Len(uiQ["poll"]) < UICap
          /\ uiQ' = [uiQ EXCEPT !["poll"] = Append(@, fpJob)]
          /\ Move("poll", "resume")
          /\ UNCHANGED fpJob
       \/ /\ uiGo["poll"] = "resume" /\ uiHeld["poll"] = "resume"
          /\ Move("poll", "top")
          /\ fpJob' = Nil
          /\ UNCHANGED uiQ
    /\ uiHeld' = [uiHeld EXCEPT !["poll"] = IF uiGo'["poll"] = "top" THEN Nil ELSE @]
    /\ UNCHANGED <<loopVs, stopVs, sockVs, uiItem, fpActive, fpCanceled, fpStop, fpBusy, fpPrev,
                   fpTold, fpLate, hookVs, lateVs>>

\* Whether the callback is due for the outcome j of a stat.
Tells(j) ==
    IF j.status # 0 THEN fpBusy # j.status
    ELSE fpBusy # 0 /\ (fpBusy < 0 \/ fpPrev # j.stat)

\* Mutant: prev is only set by the first stat.
Dispatched_KeepsPrev(j) ==
    /\ fpBusy' = IF j.status # 0 THEN j.status ELSE 1
    /\ fpPrev' = IF j.status # 0 \/ fpBusy # 0 THEN fpPrev ELSE j.stat

\* What fspollDispatch makes of busy and prev.
Dispatched(j) ==
    /\ fpBusy' = IF j.status # 0 THEN j.status ELSE 1
    /\ fpPrev' = IF j.status # 0 THEN fpPrev ELSE j.stat

\* fspollDispatch after it has seen that the poll is active: Stop may come in between.
PollCallback ==
    /\ uiLoop = "dispatch"
    /\ LET j == fpJob
           tells == Tells(j) \/ (j.status = 0 /\ fpBusy = 0)
       IN  /\ Dispatched(j)
           /\ fpTold' = IF ~tells THEN fpTold
                        ELSE [status |-> j.status, stat |-> IF j.status = 0 THEN j.stat ELSE fpTold.stat]
           /\ fpLate' = IF Tells(j) /\ ~fpActive THEN fpLate + 1 ELSE fpLate
    /\ uiHeld' = [uiHeld EXCEPT !["poll"] = "resume"]
    /\ uiLoop' = "check"
    /\ UNCHANGED <<uiUse, uiCtx, uiFlag, stopVs, sockVs, uiGo, uiQ, uiItem, fpActive, fpCanceled, fpStop, fpJob, hookVs, lateVs>>

-----------------------------------------------------------------------------
(* Posted functions and hooks.  The idle, prepare and check phases work    *)
(* alike; the hooks here stand for those of one of them.                   *)

\* Post, by any goroutine at any time, the function included that the loop is running;
\* what does not fit is dropped.  "amid": posted while the loop runs a posted function.
Post ==
    /\ "hooks" \in uiUse
    /\ Len(uiQ["send"]) < UICap
    /\ uiQ' = [uiQ EXCEPT !["send"] = Append(@, IF uiLoop = "fn" THEN "amid" ELSE "posted")]
    /\ UNCHANGED <<loopVs, stopVs, sockVs, uiGo, uiHeld, uiItem, pollVs, hookVs, lateVs>>

Hook(h) ==
    /\ "hooks" \in uiUse /\ h \notin uiHooks
    /\ uiHooks' = uiHooks \cup {h}
    /\ UNCHANGED <<loopVs, stopVs, sockVs, goVs, pollVs, uiSnap, lateVs>>

\* The unregister function; a phase that has begun still runs the hook.
Unhook(h) ==
    /\ h \in uiHooks
    /\ uiHooks' = uiHooks \ {h}
    /\ UNCHANGED <<loopVs, stopVs, sockVs, goVs, pollVs, uiSnap, lateVs>>

\* runHooks: a copy of the list under the lock, and one after the other of the copy.
RunHooks ==
    /\ \/ /\ uiLoop = "phases"
          /\ uiSnap' = uiHooks
          /\ uiLoop' = "hooks"
       \/ /\ uiLoop = "hooks"
          /\ \E h \in uiSnap : uiSnap' = uiSnap \ {h}
          /\ UNCHANGED uiLoop
       \/ /\ uiLoop = "hooks" /\ uiSnap = {}
          /\ uiLoop' = "poll"
          /\ UNCHANGED uiSnap
    /\ UNCHANGED <<uiUse, uiCtx, uiFlag, stopVs, sockVs, goVs, pollVs, uiHooks, lateVs>>

\* runPendingPhase takes and runs what was posted, until there is no more.
RunPending ==
    /\ \/ /\ uiLoop = "pending" /\ "hooks" \in uiUse /\ uiQ["send"] # <<>>
          /\ uiQ' = [uiQ EXCEPT !["send"] = Tail(@)]
          /\ uiLoop' = "fn"
       \/ /\ uiLoop = "pending" /\ ("hooks" \in uiUse => uiQ["send"] = <<>>)
          /\ uiLoop' = "phases" /\ UNCHANGED uiQ
       \/ /\ uiLoop = "fn"
          /\ uiLoop' = "pending" /\ UNCHANGED uiQ
    /\ UNCHANGED <<uiUse, uiCtx, uiFlag, stopVs, sockVs, uiGo, uiHeld, uiItem, pollVs, hookVs, lateVs>>

-----------------------------------------------------------------------------
(* The loop: RunMode(RunDefault) and its teardown.                         *)

RunLoop ==
    /\ uiLoop = "out"
    /\ uiLoop' = "top" /\ uiFlag' = FALSE
    /\ UNCHANGED <<uiUse, uiCtx, stopVs, sockVs, goVs, pollVs, hookVs, lateVs>>

LoopTop ==
    /\ uiLoop \in {"top", "check"}
    /\ uiLoop' = IF uiLoop = "top" /\ (uiCtx \/ uiFlag) THEN "shut"
                 ELSE IF uiLoop = "check" THEN "top" ELSE "pending"
    /\ uiFlag' = (uiFlag /\ (uiLoop = "check" \/ uiCtx))
    /\ UNCHANGED <<uiUse, uiCtx, stopVs, sockVs, goVs, pollVs, hookVs, lateVs>>

\* pollOneBlocking takes one event of any channel, or sees that the context is done.
Poll(g) ==
    LET e == Head(uiQ[g]) IN
    /\ uiLoop = "poll"
    /\ \/ /\ uiQ[g] # <<>> /\ (g = "send" => "send" \in uiUse)
          /\ uiQ' = [uiQ EXCEPT ![g] = Tail(@)]
          /\ uiItem' = IF g \in Socks /\ e # Failed THEN [uiItem EXCEPT ![e] = "delivered"] ELSE uiItem
          /\ uiLoop' = IF g = "poll" /\ fpActive THEN "dispatch" ELSE "check"
          /\ uiHeld' = IF g = "poll" /\ ~fpActive THEN [uiHeld EXCEPT !["poll"] = "resume"] ELSE uiHeld
       \/ /\ uiCtx
          /\ uiLoop' = "shut"
          /\ UNCHANGED <<uiQ, uiItem, uiHeld>>
    /\ UNCHANGED <<uiUse, uiCtx, uiFlag, stopVs, sockVs, uiGo, pollVs, hookVs, lateVs>>

\* Mutant: the sockets are left open.
UITeardown_NoShutdown ==
    /\ uiLoop = "shut"
    /\ uiLoop' = "wait"
    /\ UNCHANGED <<uiUse, uiCtx, uiFlag, stopVs, sockVs, goVs, pollVs, hookVs, lateVs>>

\* Mutant: the channels are not drained.
UITeardown_NoDrain ==
    /\ \/ uiLoop = "shut" /\ TakeSockets("loop") /\ uiLoop' = "close"
       \/ uiLoop = "close" /\ CloseTaken("loop") /\ uiLoop' = IF BeginsClose("loop") THEN "close" ELSE "wait"
    /\ UNCHANGED <<uiUse, uiCtx, uiFlag, stopVs, goVs, pollVs, hookVs, lateVs>>

\* teardownAfterRun: shutdownSockets; then the channels are drained, and only then are the
\* goroutines waited for.
UITeardown ==
    /\ \/ uiLoop = "shut" /\ TakeSockets("loop") /\ uiLoop' = "close" /\ UNCHANGED <<uiQ, uiItem>>
       \/ /\ uiLoop = "close" /\ CloseTaken("loop")
          /\ uiLoop' = IF BeginsClose("loop") THEN "close" ELSE "drain"
          /\ UNCHANGED <<uiQ, uiItem>>
       \/ /\ uiLoop = "drain"
          /\ uiItem' = [i \in UIItems |-> IF i \in ToSet(uiQ["tcp"]) THEN "closed"
                                         ELSE IF i \in ToSet(uiQ["udp"]) THEN "dropped" ELSE uiItem[i]]
          /\ uiQ' = [g \in Goroutines |-> IF g = "poll" \/ "hooks" \in uiUse THEN uiQ[g] ELSE <<>>]
          /\ uiLoop' = "wait"
          /\ UNCHANGED sockVs
    /\ UNCHANGED <<uiUse, uiCtx, uiFlag, stopVs, uiGo, uiHeld, pollVs, hookVs, lateVs>>

\* wg.Wait.
Wait ==
    /\ uiLoop = "wait"
    /\ \A g \in Goroutines : uiGo[g] \in {"none", "done"}
    /\ uiLoop' = "returned"
    /\ UNCHANGED <<uiUse, uiCtx, uiFlag, stopVs, sockVs, goVs, pollVs, hookVs, lateVs>>

\* Stop: stopped, shutdownSockets, cancel.
StopLoop ==
    /\ \/ uiStop = "idle" /\ uiStopped' = TRUE /\ uiStop' = "take" /\ UNCHANGED <<uiCtx, sockVs>>
       \/ uiStop = "take" /\ TakeSockets("stop") /\ uiStop' = "close" /\ UNCHANGED <<uiStopped, uiCtx>>
       \/ /\ uiStop = "close" /\ CloseTaken("stop")
          /\ uiStop' = IF BeginsClose("stop") THEN "close" ELSE "cancel"
          /\ UNCHANGED <<uiStopped, uiCtx>>
       \/ uiStop = "cancel" /\ uiCtx' = TRUE /\ uiStop' = "done" /\ UNCHANGED <<uiStopped, sockVs>>
    /\ UNCHANGED <<uiAsk, uiUse, uiLoop, uiFlag, goVs, pollVs, hookVs, lateVs>>

\* RequestStop: stop_flag, then cancel.  The parent's context may end as well.
UIRequestStop ==
    /\ \/ /\ uiAsk = "idle"
          /\ uiFlag' = TRUE /\ uiAsk' = "cancel"
          /\ UNCHANGED uiCtx
       \/ /\ uiAsk = "cancel"
          /\ uiCtx' = TRUE /\ uiAsk' = "done"
          /\ UNCHANGED uiFlag
    /\ UNCHANGED <<uiUse, uiLoop, uiStop, uiStopped, sockVs, goVs, pollVs, hookVs, lateVs>>

ParentCancels ==
    /\ ~uiCtx
    /\ uiCtx' = TRUE
    /\ UNCHANGED <<uiUse, uiLoop, uiFlag, stopVs, sockVs, goVs, pollVs, hookVs, lateVs>>

-----------------------------------------------------------------------------

LoopStep == \/ LoopTop \/ RunPending \/ RunHooks \/ PollCallback \/ UITeardown \/ Wait
            \/ \E g \in Goroutines : Poll(g)

GoStep(g) == \/ g \in Socks /\ (ReadItem(g) \/ PushItem(g))
             \/ g = "udp" /\ (LooksAtConn \/ Report)
             \/ g = "send" /\ uiGo["send"] = "push" /\ Send
             \/ g = "poll" /\ PollWorker

UINext ==
    \/ RunLoop \/ LoopStep
    \/ \E g \in Goroutines : GoStep(g)
    \/ \E k \in Socks : Listen(k) \/ ReadFails(k)
    \/ CloseUDP \/ Send \/ FSPollStart \/ FSPollStop \/ Post
    \/ \E h \in UIHooks : Hook(h) \/ Unhook(h)
    \/ StopLoop \/ UIRequestStop \/ ParentCancels

\* The loop and the goroutines run, and calls that have begun come to their ends.
UIFairness ==
    /\ WF_uiVars(LoopStep)
    /\ \A g \in Goroutines : WF_uiVars(GoStep(g))
    /\ \A k \in Socks : WF_uiVars(uiListen[k] # "idle" /\ Listen(k))
    /\ WF_uiVars(uiStop # "idle" /\ StopLoop)
    /\ WF_uiVars(uiClose # "idle" /\ CloseUDP)
    /\ WF_uiVars(uiAsk # "idle" /\ UIRequestStop)

UISpec == UIInit /\ [][UINext]_uiVars /\ UIFairness

-----------------------------------------------------------------------------

\* Whoever is between taking socket k, or its conn, and closing it.
BeingClosed(k) ==
    \/ uiStop = "close" /\ k \in uiTaken["stop"]
    \/ uiLoop = "close" /\ k \in uiTaken["loop"]
    \/ uiClose = "conn" /\ k = "udp"

\* teardownAfterRun: when RunMode has returned every socket is closed, or a Stop or a
\* UDP.Close that has begun is about to close it; and no connection is left.  Except for a
\* socket ListenTCP or ListenUDP added while the loop was torn down, and for what was
\* queued between the draining and the wait.
TornDown ==
    uiLoop = "returned" /\ uiRaced = {} =>
        /\ \A k \in Socks : uiListen[k] \in {"spawn", "done"} =>
              uiSock[k] \in {"none", "closed"} \/ BeingClosed(k)
        /\ \A i \in UIItems \ uiPushed : uiItem[i] \notin {"held", "queued"}

\* fspollDispatch: the callback knows the outcome of the last stat dispatched, except that
\* a file that comes back as it was is not told of, nor errno 1 after a success, which
\* busy takes for a success; and Stop lets at most the callback finish that is running.
PollTold ==
    /\ fpLate <= 1
    /\ uiHeld["poll"] = "resume" /\ fpActive /\ fpBusy # 0 =>
        \/ fpTold.status = fpJob.status /\ (fpJob.status = 0 => fpTold.stat = fpJob.stat)
        \/ fpJob.status = 0 /\ fpTold.status > 0 /\ fpTold.stat = fpJob.stat
        \/ fpJob.status = 1

\* Once the context is done RunMode returns and every socket is closed, whatever calls of
\* UDP.Close and Stop it overtakes: unless functions are posted during the pending phase
\* again and again, which keeps runPendingPhase from ending, or a socket added behind the
\* back of the teardown stays open.
LoopReturns ==
    \/ []<><<Post /\ uiLoop \in {"pending", "fn"}>>_uiVars
    \/ <>[](\E k \in uiRaced : uiSock[k] = "open")
    \/ uiCtx /\ uiLoop # "out" ~>
          uiLoop = "returned" /\ \A k \in Socks : uiSock[k] \in {"none", "closed"}

\* The comment on Post: "schedules fn on the next event-loop iteration".  What is posted
\* while the pending phase runs a function is not run in that phase.
PostIsForNextIteration ==
    [][uiLoop = "pending" /\ uiLoop' = "fn" => Head(uiQ["send"]) # "amid"]_uiVars
=============================================================================
