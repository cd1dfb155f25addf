-------------------------- MODULE WriteBehindDepth --------------------------
(***************************************************************************)
(* The write-behind strategy without its data: how long the queue and the  *)
(* batch are, where the worker is, and which calls are under way.  Calls   *)
(* of UpdateUser are not bounded, so clients may refill the queue for ever, *)
(* also while the worker drains it.  WriteBehind implements this module.   *)
(***************************************************************************)
EXTENDS Naturals

CONSTANTS
    WDClients,      \* goroutines calling UpdateUser
    WDStoppers,     \* goroutines calling Stop
    WDQueueSize,    \* cfg.QueueSize
    WDBatchSize     \* cfg.BatchSize

VARIABLES
    wdQueue,        \* len(updateQueue)
    wdBatch,        \* len(batch)
    wdWorker,       \* program counter of dbWriterWorker, as in WriteBehind
    wdCancelled,    \* cancelCtx is done
    wdCalls,        \* the clients between the write of the cache and the queue
    wdOnce,         \* stopOnce
    wdStopper       \* wdStopper[s]: where the Stop call of s is

wdWorkerVars == <<wdBatch, wdWorker>>
wdStopVars   == <<wdCancelled, wdOnce, wdStopper>>
wdVars == <<wdQueue, wdWorkerVars, wdCalls, wdStopVars>>

WDInit ==
    /\ wdQueue = 0 /\ wdBatch = 0
    /\ wdWorker = "select"
    /\ wdCancelled = FALSE
    /\ wdCalls = {}
    /\ wdOnce = "new"
    /\ wdStopper = [s \in WDStoppers |-> "idle"]

-----------------------------------------------------------------------------
(* UpdateUser, as often as a client likes.                                 *)

WDSet(c) ==
    /\ c \notin wdCalls
    /\ wdCalls' = wdCalls \cup {c}
    /\ UNCHANGED <<wdQueue, wdWorkerVars, wdStopVars>>

WDAccept(c) ==
    /\ c \in wdCalls /\ wdQueue < WDQueueSize
    /\ wdQueue' = wdQueue + 1
    /\ wdCalls' = wdCalls \ {c}
    /\ UNCHANGED <<wdWorkerVars, wdStopVars>>

WDOverflow(c) ==
    /\ c \in wdCalls /\ wdQueue >= WDQueueSize
    /\ wdCalls' = wdCalls \ {c}
    /\ UNCHANGED <<wdQueue, wdWorkerVars, wdStopVars>>

-----------------------------------------------------------------------------
(* dbWriterWorker.                                                         *)

\* One update goes from the queue to the batch; a full batch is flushed.
WDMove(full, otherwise) ==
    /\ wdQueue > 0
    /\ wdQueue' = wdQueue - 1
    /\ wdBatch' = wdBatch + 1
    /\ wdWorker' = IF wdBatch + 1 >= WDBatchSize THEN full ELSE otherwise
    /\ UNCHANGED <<wdCalls, wdStopVars>>

WDRecvUpdate == wdWorker = "select" /\ WDMove("flush", "select")

WDTick ==
    /\ wdWorker = "select" /\ wdBatch > 0
    /\ wdWorker' = "flush"
    /\ UNCHANGED <<wdQueue, wdBatch, wdCalls, wdStopVars>>

\* A flush empties the batch whatever the database says, except the first one of the
\* shutdown branch, which keeps it.
WDFlush ==
    /\ \/ wdWorker = "flush" /\ wdWorker' = "select"
       \/ wdWorker = "flushDrain" /\ wdWorker' = "drain"
       \/ wdWorker = "flushFinal" /\ wdWorker' = "finished"
    /\ wdBatch' = 0
    /\ UNCHANGED <<wdQueue, wdCalls, wdStopVars>>

WDRecvDone ==
    /\ wdWorker = "select" /\ wdCancelled
    /\ wdWorker' = IF wdBatch = 0 THEN "drain" ELSE "flushShutdown"
    /\ UNCHANGED <<wdQueue, wdBatch, wdCalls, wdStopVars>>

WDFlushShutdown ==
    /\ wdWorker = "flushShutdown"
    /\ wdWorker' = "drain"
    /\ UNCHANGED <<wdQueue, wdBatch, wdCalls, wdStopVars>>

WDDrainRecv == wdWorker = "drain" /\ WDMove("flushDrain", "drain")

\* Mutant: break leaves the select and not the loop.
WDDrainEmpty_BreakSelect ==
    /\ wdWorker = "drain" /\ wdQueue = 0
    /\ UNCHANGED wdVars

WDDrainEmpty ==
    /\ wdWorker = "drain" /\ wdQueue = 0
    /\ wdWorker' = IF wdBatch = 0 THEN "finished" ELSE "flushFinal"
    /\ UNCHANGED <<wdQueue, wdBatch, wdCalls, wdStopVars>>

-----------------------------------------------------------------------------
(* Stop.                                                                   *)

WDStopCancel(s) ==
    /\ wdStopper[s] = "idle" /\ wdOnce = "new"
    /\ wdOnce' = "running"
    /\ wdCancelled' = TRUE
    /\ wdStopper' = [wdStopper EXCEPT ![s] = "waiting"]
    /\ UNCHANGED <<wdQueue, wdWorkerVars, wdCalls>>

\* A later caller waits inside sync.Once.
WDStopBlock(s) ==
    /\ wdStopper[s] = "idle" /\ wdOnce = "running"
    /\ wdStopper' = [wdStopper EXCEPT ![s] = "blocked"]
    /\ UNCHANGED <<wdQueue, wdWorkerVars, wdCalls, wdCancelled, wdOnce>>

WDStopWait(s) ==
    /\ wdStopper[s] = "waiting" /\ wdWorker = "finished"
    /\ wdOnce' = "done"
    /\ wdStopper' = [wdStopper EXCEPT ![s] = "returned"]
    /\ UNCHANGED <<wdQueue, wdWorkerVars, wdCalls, wdCancelled>>

WDStopAgain(s) ==
    /\ wdStopper[s] \in {"idle", "blocked"} /\ wdOnce = "done"
    /\ wdStopper' = [wdStopper EXCEPT ![s] = "returned"]
    /\ UNCHANGED <<wdQueue, wdWorkerVars, wdCalls, wdCancelled, wdOnce>>

-----------------------------------------------------------------------------
WDWorker == \/ WDRecvUpdate \/ WDTick \/ WDFlush \/ WDRecvDone
            \/ WDFlushShutdown \/ WDDrainRecv \/ WDDrainEmpty

WDStop(s) == WDStopCancel(s) \/ WDStopBlock(s) \/ WDStopWait(s) \/ WDStopAgain(s)

WDNext == \/ \E c \in WDClients : WDSet(c) \/ WDAccept(c) \/ WDOverflow(c)
          \/ WDWorker
          \/ \E s \in WDStoppers : WDStop(s)

\* The worker runs, its select does not pass over a done context for ever, and a Stop
\* call gets on once what it waits for has happened.  Nothing is assumed of clients.
WDFairness ==
    /\ WF_wdVars(WDWorker) /\ SF_wdVars(WDRecvDone)
    /\ \A s \in WDStoppers :
           WF_wdVars(WDStopWait(s)) /\ WF_wdVars(wdStopper[s] = "blocked" /\ WDStopAgain(s))

WDSpec == WDInit /\ [][WDNext]_wdVars

-----------------------------------------------------------------------------
(* Properties.                                                             *)

\* The drain loop (lines 110-125) ends only on an empty queue, and UpdateUser never looks
\* at the context: while clients keep the queue filled, Stop does not return.  That is
\* the only way: unless updates are queued for ever while the worker drains, every Stop
\* call returns, the one that waits for the worker and those that wait for that call.
StopReturns ==
    \/ []<><< /\ wdWorker \in {"drain", "flushDrain"}
              /\ \E c \in WDClients : WDAccept(c) >>_wdVars
    \/ \A s \in WDStoppers :
           (wdStopper[s] \in {"waiting", "blocked"}) ~> (wdStopper[s] = "returned")
=============================================================================
