---------------------------- MODULE WriteBehind ----------------------------
(***************************************************************************)
(* The write-behind strategy of go_cache_strategy: UpdateUser writes the   *)
(* cache and queues the update, a single worker goroutine (dbWriterWorker) *)
(* collects queued updates in a batch and writes the batch to the database *)
(* when it is full, when the ticker fires, and when Stop cancels the       *)
(* worker's context.                                                       *)
(*                                                                         *)
(* A user value is abstracted to the identity of the UpdateUser call that  *)
(* wrote it.  The field "seq" of a queued update is a history field: the   *)
(* position of the update in the order in which the channel accepted it.   *)
(***************************************************************************)
EXTENDS Naturals, Sequences, FiniteSets

CONSTANTS
    Users,          \* user IDs
    Clients,        \* goroutines calling UpdateUser
    Stoppers,       \* goroutines calling Stop
    QueueSize,      \* cfg.QueueSize, the capacity of updateQueue
    BatchSize,      \* cfg.BatchSize
    MaxUpdates,     \* bound: number of UpdateUser calls explored
    DbMayFail       \* TRUE: transactions and single statements may fail

ASSUME SizesAreNat == QueueSize \in Nat /\ BatchSize \in Nat /\ MaxUpdates \in Nat
ASSUME DefaultsApplied == QueueSize > 0 /\ BatchSize > 0
ASSUME DbMayFailIsBoolean == DbMayFail \in BOOLEAN

VARIABLES
    cache,          \* cache[u]: the call whose value the memory cache holds, 0 if none
    db,             \* db[u]: the update the row of u was last written by
    queue,          \* updateQueue
    batch,          \* the worker's local batch
    worker,         \* program counter of dbWriterWorker
    cancelled,      \* cancelCtx is done
    client,         \* client[c]: where the UpdateUser call of c is
    calls,          \* number of UpdateUser calls begun
    once,           \* stopOnce
    stopper,        \* stopper[s]: where the Stop call of s is
    accepted,       \* history: number of updates the queue has accepted
    dropped,        \* history: the calls a full queue turned away
    writers,        \* history: writers[u], the clients that have updated u
    written,        \* history: seq of the updates committed to the database
    acceptedAtStop  \* history: accepted when Stop cancelled the context

workerVars == <<batch, worker>>
stopVars   == <<cancelled, once, stopper, acceptedAtStop>>
clientVars == <<cache, client, calls, dropped, writers>>
dbVars     == <<db, written>>
vars == <<clientVars, dbVars, queue, workerVars, stopVars, accepted>>

Update == [id : Nat, user : Users, seq : Nat]
Row    == [id : Nat, seq : Nat]
NoRow  == [id |-> 0, seq |-> 0]

IdleCall == [at |-> "idle", id |-> 0]
Call == {IdleCall} \cup [at : {"queueing"}, id : Nat, user : Users]

\* The worker is in its shutdown branch (lines 104-128) or has returned.
ShutdownStates == {"flushShutdown", "drain", "flushDrain", "flushFinal", "finished"}
WorkerStates   == {"select", "flush"} \cup ShutdownStates

Init ==
    /\ cache = [u \in Users |-> 0]
    /\ db = [u \in Users |-> NoRow]
    /\ queue = <<>>
    /\ batch = <<>>
    /\ worker = "select"
    /\ cancelled = FALSE
    /\ client = [c \in Clients |-> IdleCall]
    /\ calls = 0
    /\ once = "new"
    /\ stopper = [s \in Stoppers |-> "idle"]
    /\ accepted = 0
    /\ dropped = {}
    /\ writers = [u \in Users |-> {}]
    /\ written = {}
    /\ acceptedAtStop = 0

-----------------------------------------------------------------------------
(* UpdateUser: the cache is written first, then the queue is tried.        *)

UpdateUserSet(c, u) ==
    /\ client[c] = IdleCall
    /\ calls < MaxUpdates
    /\ calls' = calls + 1
    /\ cache' = [cache EXCEPT ![u] = calls + 1]
    /\ client' = [client EXCEPT ![c] = [at |-> "queueing", id |-> calls + 1, user |-> u]]
    /\ writers' = [writers EXCEPT ![u] = @ \cup {c}]
    /\ UNCHANGED <<dropped, dbVars, queue, workerVars, stopVars, accepted>>

UpdateUserQueue(c) ==
    /\ client[c].at = "queueing"
    /\ Len(queue) < QueueSize
    /\ queue' = Append(queue, [id |-> client[c].id, user |-> client[c].user,
                               seq |-> accepted + 1])
    /\ accepted' = accepted + 1
    /\ client' = [client EXCEPT ![c] = IdleCall]
    /\ UNCHANGED <<cache, calls, dropped, writers, dbVars, workerVars, stopVars>>

\* The default case of the select: the update is dropped and an error returned.
UpdateUserOverflow(c) ==
    /\ client[c].at = "queueing"
    /\ Len(queue) >= QueueSize
    /\ client' = [client EXCEPT ![c] = IdleCall]
    /\ dropped' = dropped \cup {client[c].id}
    /\ UNCHANGED <<cache, calls, writers, dbVars, queue, workerVars, stopVars, accepted>>

-----------------------------------------------------------------------------
(* BulkUpdateUsers: one transaction over the batch.                        *)

\* Mutant: INSERT OR IGNORE, a row that exists is kept.
Commit_OrIgnore(ok) ==
    /\ db' = [u \in Users |->
                IF db[u] # NoRow \/ {i \in ok : batch[i].user = u} = {} THEN db[u]
                ELSE LET i == CHOOSE i \in ok : batch[i].user = u
                     IN  [id |-> batch[i].id, seq |-> batch[i].seq]]
    /\ written' = written \cup {batch[i].seq : i \in ok}

\* The statements at the positions in ok take effect in batch order; a failed
\* statement is logged and skipped.
Commit(ok) ==
    LET rows(u) == {i \in ok : batch[i].user = u}
        last(u) == CHOOSE i \in rows(u) : \A j \in rows(u) : j <= i
    IN  /\ db' = [u \in Users |->
                    IF rows(u) = {} THEN db[u]
                    ELSE [id |-> batch[last(u)].id, seq |-> batch[last(u)].seq]]
        /\ written' = written \cup {batch[i].seq : i \in ok}

\* BeginTx or Commit returned an error: rolled back, nothing is written.
Rollback == UNCHANGED dbVars

BulkUpdateUsers ==
    \/ Commit(DOMAIN batch)
    \/ DbMayFail /\ \E ok \in SUBSET (DOMAIN batch) : Commit(ok)
    \/ DbMayFail /\ Rollback

-----------------------------------------------------------------------------
(* dbWriterWorker.  A flush is a step of its own, so that Stop may cancel  *)
(* the context between the decision to flush and the transaction.          *)

\* Mutant: a full batch is noticed one update too late.
AfterAppend_Late(full, otherwise) ==
    IF Len(batch) >= BatchSize THEN full ELSE otherwise

AfterAppend(full, otherwise) ==
    IF Len(batch) + 1 >= BatchSize THEN full ELSE otherwise

\* Mutant: the update is put in front of the batch.
RecvUpdate_Front ==
    /\ worker = "select"
    /\ queue # <<>>
    /\ batch' = <<Head(queue)>> \o batch
    /\ queue' = Tail(queue)
    /\ worker' = AfterAppend("flush", "select")
    /\ UNCHANGED <<clientVars, dbVars, stopVars, accepted>>

RecvUpdate ==
    /\ worker = "select"
    /\ queue # <<>>
    /\ batch' = Append(batch, Head(queue))
    /\ queue' = Tail(queue)
    /\ worker' = AfterAppend("flush", "select")
    /\ UNCHANGED <<clientVars, dbVars, stopVars, accepted>>

\* Mutant: the ticker flushes full batches only.
Tick_FullOnly ==
    /\ worker = "select"
    /\ Len(batch) >= BatchSize
    /\ worker' = "flush"
    /\ UNCHANGED <<clientVars, dbVars, queue, batch, stopVars, accepted>>

Tick ==
    /\ worker = "select"
    /\ batch # <<>>
    /\ worker' = "flush"
    /\ UNCHANGED <<clientVars, dbVars, queue, batch, stopVars, accepted>>

\* flushBatchToDB(s.cancelCtx, batch): with the context done BeginTx fails, the
\* error is logged, and the batch is emptied all the same.
Flush ==
    /\ worker = "flush"
    /\ IF cancelled THEN Rollback ELSE BulkUpdateUsers
    /\ batch' = <<>>
    /\ worker' = "select"
    /\ UNCHANGED <<clientVars, queue, stopVars, accepted>>

RecvDone ==
    /\ worker = "select"
    /\ cancelled
    /\ worker' = IF batch = <<>> THEN "drain" ELSE "flushShutdown"
    /\ UNCHANGED <<clientVars, dbVars, queue, batch, stopVars, accepted>>

\* Line 106: the batch is written under a background context and not emptied.
FlushShutdown ==
    /\ worker = "flushShutdown"
    /\ BulkUpdateUsers
    /\ worker' = "drain"
    /\ UNCHANGED <<clientVars, queue, batch, stopVars, accepted>>

DrainRecv ==
    /\ worker = "drain"
    /\ queue # <<>>
    /\ batch' = Append(batch, Head(queue))
    /\ queue' = Tail(queue)
    /\ worker' = AfterAppend("flushDrain", "drain")
    /\ UNCHANGED <<clientVars, dbVars, stopVars, accepted>>

\* Mutant: the drain loop flushes under the worker's context too.
FlushDrain_WorkerCtx ==
    /\ worker = "flushDrain"
    /\ IF cancelled THEN Rollback ELSE BulkUpdateUsers
    /\ batch' = <<>>
    /\ worker' = "drain"
    /\ UNCHANGED <<clientVars, queue, stopVars, accepted>>

FlushDrain ==
    /\ worker = "flushDrain"
    /\ BulkUpdateUsers
    /\ batch' = <<>>
    /\ worker' = "drain"
    /\ UNCHANGED <<clientVars, queue, stopVars, accepted>>

DrainEmpty ==
    /\ worker = "drain"
    /\ queue = <<>>
    /\ worker' = IF batch = <<>> THEN "finished" ELSE "flushFinal"
    /\ UNCHANGED <<clientVars, dbVars, queue, batch, stopVars, accepted>>

FlushFinal ==
    /\ worker = "flushFinal"
    /\ BulkUpdateUsers
    /\ batch' = <<>>              \* the local goes out of scope with the return
    /\ worker' = "finished"
    /\ UNCHANGED <<clientVars, queue, stopVars, accepted>>

-----------------------------------------------------------------------------
(* Stop: the first caller cancels and waits for the worker, the others     *)
(* wait inside sync.Once for the first one.                                *)

StopCancel(s) ==
    /\ stopper[s] = "idle"
    /\ once = "new"
    /\ once' = "running"
    /\ cancelled' = TRUE
    /\ acceptedAtStop' = accepted
    /\ stopper' = [stopper EXCEPT ![s] = "waiting"]
    /\ UNCHANGED <<clientVars, dbVars, queue, workerVars, accepted>>

StopWait(s) ==
    /\ stopper[s] = "waiting"
    /\ worker = "finished"
    /\ once' = "done"
    /\ stopper' = [stopper EXCEPT ![s] = "returned"]
    /\ UNCHANGED <<clientVars, dbVars, queue, workerVars, cancelled, acceptedAtStop, accepted>>

StopAgain(s) ==
    /\ stopper[s] = "idle"
    /\ once = "done"
    /\ stopper' = [stopper EXCEPT ![s] = "returned"]
    /\ UNCHANGED <<clientVars, dbVars, queue, workerVars, cancelled, once, acceptedAtStop, accepted>>

-----------------------------------------------------------------------------
Worker == \/ RecvUpdate \/ Tick \/ Flush \/ RecvDone \/ FlushShutdown
          \/ DrainRecv \/ FlushDrain \/ DrainEmpty \/ FlushFinal

UpdateUser(c) == \/ \E u \in Users : UpdateUserSet(c, u)
                 \/ UpdateUserQueue(c)
                 \/ UpdateUserOverflow(c)

Stop(s) == StopCancel(s) \/ StopWait(s) \/ StopAgain(s)

Next == \/ \E c \in Clients : UpdateUser(c)
        \/ Worker
        \/ \E s \in Stoppers : Stop(s)

\* The Go scheduler runs the worker, the ticker keeps firing, and select picks
\* uniformly among its ready cases, so a case that is ready again and again is
\* taken: strong fairness for the cases of the worker's select.  When Stop returns
\* is checked in WriteBehindDepth, where calls are not bounded.
Fairness ==
    /\ WF_vars(Worker)
    /\ SF_vars(RecvUpdate) /\ SF_vars(Tick) /\ SF_vars(RecvDone)

Spec     == Init /\ [][Next]_vars
FairSpec == Spec /\ Fairness

-----------------------------------------------------------------------------
(* Properties.                                                             *)

\* Types, and the two resource bounds: the queue stays within the channel's
\* capacity and the batch within BatchSize, also when the shutdown branch keeps
\* the batch it has flushed (line 106) and goes on appending to it.
TypeOK ==
    /\ cache \in [Users -> Nat]
    /\ db \in [Users -> Row]
    /\ queue \in Seq(Update) /\ Len(queue) <= QueueSize
    /\ batch \in Seq(Update) /\ Len(batch) <= BatchSize
    /\ worker \in WorkerStates
    /\ cancelled \in BOOLEAN
    /\ client \in [Clients -> Call]
    /\ calls \in Nat
    /\ once \in {"new", "running", "done"}
    /\ stopper \in [Stoppers -> {"idle", "waiting", "returned"}]
    /\ accepted \in Nat
    /\ dropped \in SUBSET Nat
    /\ writers \in [Users -> SUBSET Clients]
    /\ written \in SUBSET Nat
    /\ acceptedAtStop \in Nat

Pending == {queue[i].seq : i \in DOMAIN queue} \cup {batch[i].seq : i \in DOMAIN batch}

\* An UpdateUser call that returned nil is not lost while the strategy runs:
\* until Stop is called its update is in the queue, in the worker's batch or in
\* the database (given a database that does not fail).
NothingLostBeforeStop ==
    ~DbMayFail /\ ~cancelled => 1..accepted \subseteq Pending \cup written

\* FIFO through queue and batch: together they hold the most recently accepted
\* updates, in acceptance order and without a gap, whatever was written, rolled
\* back or written twice before.
InAcceptanceOrder ==
    LET base == accepted - (Len(queue) + Len(batch)) IN
    /\ Len(queue) + Len(batch) <= accepted
    /\ \A i \in DOMAIN batch : batch[i].seq = base + i
    /\ \A i \in DOMAIN queue : queue[i].seq = base + Len(batch) + i

\* When Stop returns the worker has returned, and what is left in the queue was
\* accepted after the context had been cancelled.
StopIsComplete ==
    (\E s \in Stoppers : stopper[s] = "returned") =>
        /\ worker = "finished"
        /\ \A i \in DOMAIN queue : queue[i].seq > acceptedAtStop

\* A row is never overwritten by an update accepted earlier than the one it
\* holds, although the shutdown branch writes one batch twice.
DbNeverRegresses == [][~DbMayFail => \A u \in Users : db'[u].seq >= db[u].seq]_vars

\* The only step that loses an accepted update is a flush under the worker's
\* context after Stop has cancelled it (given a database that does not fail).
LostOnlyByCancelledFlush ==
    [][~DbMayFail => \/ Pending \cup written \subseteq Pending' \cup written'
                     \/ worker = "flush" /\ cancelled]_vars

\* Once no call is under way and everything accepted is flushed, the cache and
\* the database agree about every user that only one client updates, except
\* where the user's last update was turned away by a full queue after it had
\* already reached the cache, and unless Stop intervened.
CacheMatchesDbWhenFlushed ==
    (/\ ~DbMayFail /\ ~cancelled /\ Pending = {}
     /\ \A c \in Clients : client[c] = IdleCall)
        => \A u \in Users : Cardinality(writers[u]) <= 1 =>
               cache[u] = db[u].id \/ cache[u] \in dropped

\* The comment "保证将缓存中的数据写入数据库" (guarantee that the cached data is
\* written to the database) on the drain loop: when the worker has returned,
\* every update accepted before Stop is in the database.
DrainGuarantee ==
    worker = "finished" /\ ~DbMayFail => 1..acceptedAtStop \subseteq written

\* The ticker (or a full batch) gets every accepted update out of the queue and
\* the batch and into a transaction, whatever the database does with it.
AcceptedEventuallyFlushed ==
    \A n \in 1..MaxUpdates : (n <= accepted) ~> (n \notin Pending \/ cancelled)

\* The strategy without its data, in which calls are not bounded.
Depth == INSTANCE WriteBehindDepth WITH
    WDClients <- Clients, WDStoppers <- Stoppers,
    WDQueueSize <- QueueSize, WDBatchSize <- BatchSize,
    wdQueue <- Len(queue), wdBatch <- Len(batch), wdWorker <- worker,
    wdCancelled <- cancelled, wdCalls <- {c \in Clients : client[c].at = "queueing"},
    wdOnce <- once, wdStopper <- stopper

\* Every step of the strategy, whatever the database does with a batch, is one of
\* WriteBehindDepth or leaves lengths and program counters alone, so what that module
\* says of Stop is said of this worker.
ImplementsDepth == Depth!WDSpec

\* What a client may count on once UpdateUser has returned true: within the bounds of
\* queue and batch nothing accepted is lost before Stop, updates keep their order, and
\* Stop has drained what came before it.
AcceptedSafe == TypeOK /\ NothingLostBeforeStop /\ InAcceptanceOrder /\ StopIsComplete

\* What flushes may do to the rows: none goes back, and only a flush under the cancelled
\* context loses an update.
FlushesSafe == DbNeverRegresses /\ LostOnlyByCancelledFlush
=============================================================================
