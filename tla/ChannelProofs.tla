--------------------------- MODULE ChannelProofs ---------------------------
(***************************************************************************)
(* Proofs about the parts built on goroutines and channels: WriteBehind,   *)
(* for every number of users, clients and stoppers and every queue and     *)
(* batch size; and Pipelines, for every number of stages and every values. *)
(***************************************************************************)
EXTENDS WriteBehind, Pipelines, SequenceTheorems, FiniteSetTheorems, WellFoundedInduction, TLAPS

-----------------------------------------------------------------------------
(* Facts about sets of positions.                                          *)

\* A nonempty set of positions of a sequence has a greatest element: the last
\* statement BulkUpdateUsers executes for a user.
LEMMA GreatestPosition ==
    ASSUME NEW n \in Nat, NEW S \in SUBSET (1..n), S # {}
    PROVE  \E i \in S : \A j \in S : j <= i
<1> DEFINE T == {n - i : i \in S}
<1>1. T \subseteq Nat /\ T # {}
  <2>1. \A i \in S : n - i \in Nat
    OBVIOUS
  <2>2. PICK i \in S : TRUE
    OBVIOUS
  <2>3. n - i \in T
    BY <2>2
  <2> QED BY <2>1, <2>3
<1>2. PICK x \in T : \A y \in T : ~(<<y, x>> \in OpToRel(<, Nat))
  BY <1>1, NatLessThanWellFounded, WFMin
<1>3. PICK i \in S : x = n - i
  BY <1>2
<1>4. ASSUME NEW j \in S PROVE j <= i
  <2>1. n - j \in T /\ n - j \in Nat /\ x \in Nat
    BY <1>1, <1>2
  <2>2. ~(n - j < x)
    BY <1>2, <2>1 DEF OpToRel
  <2> QED BY <2>2, <1>3
<1> QED BY <1>4

-----------------------------------------------------------------------------
(* What the helper operations do to the sequences and to the database.     *)

\* The worker takes the head of the queue to the end of its batch.
LEMMA MoveHead ==
    ASSUME TypeOK, queue # <<>>, batch' = Append(batch, Head(queue)), queue' = Tail(queue)
    PROVE  /\ queue' \in Seq(Update) /\ Len(queue') = Len(queue) - 1
           /\ batch' \in Seq(Update) /\ Len(batch') = Len(batch) + 1
           /\ Len(queue) \in Nat \ {0} /\ Len(batch) \in Nat
           /\ \A i \in 1..Len(batch) : batch'[i] = batch[i]
           /\ batch'[Len(batch) + 1] = queue[1]
           /\ \A i \in 1..(Len(queue) - 1) : queue'[i] = queue[i + 1]
<1>1. queue \in Seq(Update) /\ batch \in Seq(Update)
  BY DEF TypeOK
<1>2. Head(queue) = queue[1] /\ Head(queue) \in Update
  BY <1>1
<1>3. Len(queue) \in Nat \ {0} /\ Len(batch) \in Nat
  BY <1>1, EmptySeq, LenProperties
<1>4. /\ queue' \in Seq(Update) /\ Len(queue') = Len(queue) - 1
      /\ \A i \in 1..(Len(queue) - 1) : queue'[i] = queue[i + 1]
  BY <1>1, HeadTailProperties
<1>5. /\ batch' \in Seq(Update) /\ Len(batch') = Len(batch) + 1
      /\ \A i \in 1..Len(batch) : batch'[i] = batch[i]
      /\ batch'[Len(batch) + 1] = queue[1]
  BY <1>1, <1>2, AppendProperties
<1> QED BY <1>3, <1>4, <1>5

\* UpdateUser appends one update, numbered accepted + 1, to the queue.
LEMMA Enqueue ==
    ASSUME TypeOK, NEW c \in Clients, UpdateUserQueue(c)
    PROVE  /\ queue' \in Seq(Update) /\ Len(queue') = Len(queue) + 1
           /\ Len(queue') <= QueueSize /\ Len(queue) \in Nat
           /\ \A i \in 1..Len(queue) : queue'[i] = queue[i]
           /\ queue'[Len(queue) + 1].seq = accepted + 1
<1> DEFINE e == [id |-> client[c].id, user |-> client[c].user, seq |-> accepted + 1]
<1>1. e \in Update /\ e.seq = accepted + 1
  BY DEF UpdateUserQueue, TypeOK, Call, IdleCall, Update
<1>2. queue \in Seq(Update) /\ queue' = Append(queue, e) /\ Len(queue) < QueueSize
  BY DEF TypeOK, UpdateUserQueue
<1> HIDE DEF e
<1>3. /\ queue' \in Seq(Update) /\ Len(queue') = Len(queue) + 1
      /\ \A i \in 1..Len(queue) : queue'[i] = queue[i]
      /\ queue'[Len(queue) + 1] = e
  BY <1>1, <1>2, AppendProperties
<1>4. Len(queue) \in Nat
  BY <1>2, LenProperties
<1> QED BY <1>1, <1>2, <1>3, <1>4, SizesAreNat

\* A committed transaction leaves in the row of a user the last of the user's
\* statements that succeeded.
LEMMA CommitEffect ==
    ASSUME TypeOK, NEW ok \in SUBSET (DOMAIN batch), Commit(ok)
    PROVE  /\ db' \in [Users -> Row]
           /\ written' \in SUBSET Nat
           /\ written' = written \cup {batch[i].seq : i \in ok}
           /\ \A u \in Users :
                \/ db'[u] = db[u] /\ \A i \in ok : batch[i].user # u
                \/ \E i \in ok : /\ batch[i].user = u
                                 /\ db'[u].id = batch[i].id /\ db'[u].seq = batch[i].seq
                                 /\ \A j \in ok : batch[j].user = u => j <= i
<1> DEFINE rows(u) == {i \in ok : batch[i].user = u}
           last(u) == CHOOSE i \in rows(u) : \A j \in rows(u) : j <= i
<1>1. /\ batch \in Seq(Update) /\ Len(batch) \in Nat /\ DOMAIN batch = 1..Len(batch)
      /\ \A i \in DOMAIN batch : batch[i] \in Update
  <2>1. batch \in Seq(Update)
    BY DEF TypeOK
  <2> QED BY <2>1, LenProperties, ElementOfSeq
<1>2. ASSUME NEW u \in Users, rows(u) # {}
      PROVE  last(u) \in rows(u) /\ \A j \in rows(u) : j <= last(u)
  <2>1. rows(u) \in SUBSET (1..Len(batch))
    BY <1>1
  <2>2. \E i \in rows(u) : \A j \in rows(u) : j <= i
    BY <1>1, <1>2, <2>1, GreatestPosition
  <2> QED BY <2>2
<1>3. ASSUME NEW u \in Users
      PROVE  db'[u] = IF rows(u) = {} THEN db[u]
                      ELSE [id |-> batch[last(u)].id, seq |-> batch[last(u)].seq]
  BY DEF Commit
<1>4. ASSUME NEW u \in Users
      PROVE  /\ db'[u] \in Row
             /\ \/ db'[u] = db[u] /\ \A i \in ok : batch[i].user # u
                \/ \E i \in ok : /\ batch[i].user = u
                                 /\ db'[u].id = batch[i].id /\ db'[u].seq = batch[i].seq
                                 /\ \A j \in ok : batch[j].user = u => j <= i
  <2>1. CASE rows(u) = {}
    BY <1>3, <2>1 DEF TypeOK
  <2>2. CASE rows(u) # {}
    <3>1. last(u) \in ok /\ batch[last(u)].user = u /\ batch[last(u)] \in Update
      BY <1>1, <1>2, <2>2
    <3>2. \A j \in ok : batch[j].user = u => j <= last(u)
      BY <1>2, <2>2
    <3>3. db'[u] = [id |-> batch[last(u)].id, seq |-> batch[last(u)].seq]
      BY <1>3, <2>2
    <3> HIDE DEF last
    <3> QED BY <3>1, <3>2, <3>3 DEF Row, Update
  <2> QED BY <2>1, <2>2
<1>5. db' \in [Users -> Row]
  <2>1. db' = [u \in Users |-> db'[u]]
    BY DEF Commit
  <2> QED BY <1>4, <2>1
<1>6. written' = written \cup {batch[i].seq : i \in ok} /\ written' \in SUBSET Nat
  <2>1. written' = written \cup {batch[i].seq : i \in ok}
    BY DEF Commit
  <2>2. \A i \in ok : batch[i].seq \in Nat
    BY <1>1 DEF Update
  <2>3. written \in SUBSET Nat
    BY DEF TypeOK
  <2> QED BY <2>1, <2>2, <2>3
<1> QED BY <1>4, <1>5, <1>6

\* BulkUpdateUsers commits some of the statements of the batch or none; all of
\* them if the database does not fail.
LEMMA BulkUpdateUsersEffect ==
    ASSUME BulkUpdateUsers
    PROVE  \/ UNCHANGED dbVars /\ DbMayFail
           \/ \E ok \in SUBSET (DOMAIN batch) :
                 Commit(ok) /\ (~DbMayFail => ok = DOMAIN batch)
BY DEF BulkUpdateUsers, Rollback

-----------------------------------------------------------------------------
(* Type correctness.  The bound on the batch is inductive only with the    *)
(* room that is left whenever the worker may append: in particular after   *)
(* line 106 has flushed the batch without emptying it.                     *)

BatchHasRoom ==
    worker \in {"select", "flushShutdown", "drain"} => Len(batch) < BatchSize

\* Queue and batch stay within their sizes, for every size, and every variable
\* keeps its type.
THEOREM TypeCorrect == Spec => [](TypeOK /\ BatchHasRoom)
<1>1. Init => TypeOK /\ BatchHasRoom
  <2> SUFFICES ASSUME Init PROVE TypeOK /\ BatchHasRoom
    OBVIOUS
  <2>1. /\ queue \in Seq(Update) /\ Len(queue) = 0 /\ batch \in Seq(Update) /\ Len(batch) = 0
        /\ worker = "select"
    BY EmptySeq DEF Init
  <2>2. IdleCall \in Call /\ NoRow \in Row
    BY DEF Call, NoRow, Row
  <2>3. /\ cache \in [Users -> Nat] /\ db \in [Users -> Row] /\ client \in [Clients -> Call]
        /\ stopper \in [Stoppers -> {"idle", "waiting", "returned"}]
        /\ writers \in [Users -> SUBSET Clients]
    BY <2>2 DEF Init
  <2>4. /\ cancelled \in BOOLEAN /\ calls \in Nat /\ once \in {"new", "running", "done"}
        /\ accepted \in Nat /\ dropped \in SUBSET Nat /\ written \in SUBSET Nat
        /\ acceptedAtStop \in Nat
    BY DEF Init
  <2> QED BY <2>1, <2>3, <2>4, SizesAreNat, DefaultsApplied
          DEF TypeOK, BatchHasRoom, WorkerStates
<1>2. TypeOK /\ BatchHasRoom /\ [Next]_vars => (TypeOK /\ BatchHasRoom)'
  <2> SUFFICES ASSUME TypeOK, BatchHasRoom, [Next]_vars
               PROVE  TypeOK' /\ BatchHasRoom'
    OBVIOUS
  <2> USE SizesAreNat, DefaultsApplied DEF WorkerStates, ShutdownStates
  <2>1. ASSUME NEW c \in Clients, NEW u \in Users, UpdateUserSet(c, u)
        PROVE  TypeOK' /\ BatchHasRoom'
    <3>1. calls + 1 \in Nat /\ [at |-> "queueing", id |-> calls + 1, user |-> u] \in Call
      BY DEF TypeOK, Call
    <3> QED BY <2>1, <3>1 DEF UpdateUserSet, TypeOK, BatchHasRoom, dbVars, workerVars, stopVars
  <2>2. ASSUME NEW c \in Clients, UpdateUserQueue(c) PROVE TypeOK' /\ BatchHasRoom'
    <3>1. queue' \in Seq(Update) /\ Len(queue') <= QueueSize
      BY <2>2, Enqueue
    <3>2. IdleCall \in Call
      BY DEF Call
    <3> QED BY <2>2, <3>1, <3>2 DEF UpdateUserQueue, TypeOK, BatchHasRoom, dbVars, workerVars, stopVars
  <2>3. ASSUME NEW c \in Clients, UpdateUserOverflow(c) PROVE TypeOK' /\ BatchHasRoom'
    <3>1. IdleCall \in Call /\ client[c].id \in Nat
      BY DEF Call, IdleCall, TypeOK
    <3> QED BY <2>3, <3>1 DEF UpdateUserOverflow, TypeOK, BatchHasRoom, dbVars, workerVars, stopVars
  <2>4. CASE RecvUpdate \/ DrainRecv
    <3>1. /\ queue' \in Seq(Update) /\ Len(queue') = Len(queue) - 1 /\ Len(queue) \in Nat
          /\ batch' \in Seq(Update) /\ Len(batch') = Len(batch) + 1 /\ Len(batch) \in Nat
      BY <2>4, MoveHead DEF RecvUpdate, DrainRecv
    <3>2. /\ worker' \in WorkerStates
          /\ worker' \in {"select", "flushShutdown", "drain"} => Len(batch) + 1 < BatchSize
          /\ Len(batch) < BatchSize
      BY <2>4, <3>1 DEF RecvUpdate, DrainRecv, AfterAppend, BatchHasRoom
    <3>3. UNCHANGED <<clientVars, dbVars, stopVars, accepted>>
      BY <2>4 DEF RecvUpdate, DrainRecv
    <3> QED BY <3>1, <3>2, <3>3 DEF TypeOK, BatchHasRoom, clientVars, dbVars, stopVars
  <2>5. CASE Tick \/ RecvDone \/ DrainEmpty
    BY <2>5 DEF Tick, RecvDone, DrainEmpty, TypeOK, BatchHasRoom, clientVars, dbVars, stopVars
  <2>6. ASSUME BulkUpdateUsers \/ Rollback PROVE db' \in [Users -> Row] /\ written' \in SUBSET Nat
    <3>1. CASE UNCHANGED dbVars
      BY <3>1 DEF TypeOK, dbVars
    <3>2. CASE \E ok \in SUBSET (DOMAIN batch) : Commit(ok)
      BY <3>2, CommitEffect
    <3> QED BY <2>6, <3>1, <3>2, BulkUpdateUsersEffect DEF Rollback
  <2>7. CASE Flush \/ FlushDrain \/ FlushFinal
    <3>1. db' \in [Users -> Row] /\ written' \in SUBSET Nat
      BY <2>6, <2>7 DEF Flush, FlushDrain, FlushFinal
    <3>2. batch' \in Seq(Update) /\ Len(batch') = 0
      BY <2>7, EmptySeq DEF Flush, FlushDrain, FlushFinal
    <3>3. worker' \in WorkerStates /\ UNCHANGED <<clientVars, queue, stopVars, accepted>>
      BY <2>7 DEF Flush, FlushDrain, FlushFinal
    <3> QED BY <3>1, <3>2, <3>3 DEF TypeOK, BatchHasRoom, clientVars, stopVars
  <2>8. CASE FlushShutdown
    BY <2>6, <2>8 DEF FlushShutdown, TypeOK, BatchHasRoom, clientVars, stopVars
  <2>9. ASSUME NEW s \in Stoppers, Stop(s) PROVE TypeOK' /\ BatchHasRoom'
    BY <2>9 DEF Stop, StopCancel, StopWait, StopAgain, TypeOK, BatchHasRoom,
                clientVars, dbVars, workerVars
  <2>10. CASE UNCHANGED vars
    BY <2>10 DEF vars, TypeOK, BatchHasRoom, clientVars, dbVars, workerVars, stopVars
  <2> QED BY <2>1, <2>2, <2>3, <2>4, <2>5, <2>7, <2>8, <2>9, <2>10 DEF Next, UpdateUser, Worker
<1> QED BY <1>1, <1>2, PTL DEF Spec

-----------------------------------------------------------------------------
(* FIFO through queue and batch.                                           *)

\* How a step of Next changes queue, batch and accepted: the case split of every
\* proof below.
LEMMA QueueSteps ==
    ASSUME [Next]_vars
    PROVE  \/ \E c \in Clients : UpdateUserQueue(c)
           \/ /\ RecvUpdate \/ DrainRecv
              /\ queue # <<>> /\ batch' = Append(batch, Head(queue)) /\ queue' = Tail(queue)
              /\ UNCHANGED <<dbVars, stopVars, accepted>>
           \/ /\ Flush \/ FlushDrain \/ FlushFinal
              /\ batch' = <<>> /\ UNCHANGED <<queue, stopVars, accepted>>
           \/ FlushShutdown
           \/ \E s \in Stoppers : StopCancel(s)
           \/ /\ \/ \E c \in Clients : UpdateUserOverflow(c) \/ \E u \in Users : UpdateUserSet(c, u)
                 \/ Tick \/ RecvDone \/ DrainEmpty
                 \/ \E s \in Stoppers : StopWait(s) \/ StopAgain(s)
                 \/ UNCHANGED vars
              /\ UNCHANGED <<queue, batch, dbVars, cancelled, acceptedAtStop, accepted>>
<1>1. CASE \E c \in Clients : UpdateUser(c)
  BY <1>1 DEF UpdateUser, UpdateUserOverflow, UpdateUserSet, workerVars, stopVars
<1>2. CASE Worker
  BY <1>2 DEF Worker, RecvUpdate, DrainRecv, Flush, FlushDrain, FlushFinal, Tick, RecvDone,
              DrainEmpty, stopVars
<1>3. CASE \E s \in Stoppers : Stop(s)
  BY <1>3 DEF Stop, StopWait, StopAgain, workerVars
<1>4. CASE UNCHANGED vars
  BY <1>4 DEF vars, workerVars, stopVars
<1> QED BY <1>1, <1>2, <1>3, <1>4 DEF Next

\* Queue and batch together always hold the most recently accepted updates, in
\* acceptance order and without a gap.
THEOREM FifoOrder == Spec => []InAcceptanceOrder
<1>1. Init => InAcceptanceOrder
  BY EmptySeq DEF Init, InAcceptanceOrder
<1>2. TypeOK /\ InAcceptanceOrder /\ [Next]_vars => InAcceptanceOrder'
  <2> SUFFICES ASSUME TypeOK, InAcceptanceOrder, [Next]_vars PROVE InAcceptanceOrder'
    OBVIOUS
  <2>1. /\ Len(queue) \in Nat /\ DOMAIN queue = 1..Len(queue)
        /\ Len(batch) \in Nat /\ DOMAIN batch = 1..Len(batch)
        /\ accepted \in Nat
    BY LenProperties DEF TypeOK
  <2>2. ASSUME NEW c \in Clients, UpdateUserQueue(c) PROVE InAcceptanceOrder'
    <3>1. /\ queue' \in Seq(Update) /\ Len(queue') = Len(queue) + 1
          /\ \A i \in 1..Len(queue) : queue'[i] = queue[i]
          /\ queue'[Len(queue) + 1].seq = accepted + 1
      BY <2>2, Enqueue
    <3>2. accepted' = accepted + 1 /\ batch' = batch
      BY <2>2 DEF UpdateUserQueue, workerVars
    <3>3. DOMAIN queue' = 1..(Len(queue) + 1)
      BY <3>1, LenProperties
    <3>4. /\ Len(queue) + Len(batch) <= accepted
          /\ \A i \in 1..Len(batch) : batch[i].seq = accepted - (Len(queue) + Len(batch)) + i
          /\ \A i \in 1..Len(queue) :
                queue[i].seq = accepted - (Len(queue) + Len(batch)) + Len(batch) + i
      BY <2>1 DEF InAcceptanceOrder
    <3>5. Len(queue') + Len(batch') <= accepted'
      BY <2>1, <3>1, <3>2, <3>4
    <3>6. accepted' - (Len(queue') + Len(batch')) = accepted - (Len(queue) + Len(batch))
      BY <2>1, <3>1, <3>2
    <3>7. \A i \in DOMAIN batch' :
             batch'[i].seq = accepted' - (Len(queue') + Len(batch')) + i
      BY <2>1, <3>2, <3>4, <3>6
    <3>8. \A i \in DOMAIN queue' :
             queue'[i].seq = accepted' - (Len(queue') + Len(batch')) + Len(batch') + i
      <4> SUFFICES ASSUME NEW i \in 1..(Len(queue) + 1)
                   PROVE  queue'[i].seq = accepted - (Len(queue) + Len(batch)) + Len(batch) + i
        BY <3>2, <3>3, <3>6
      <4>1. CASE i = Len(queue) + 1
        BY <2>1, <3>1, <4>1
      <4>2. CASE i # Len(queue) + 1
        <5>1. i \in 1..Len(queue)
          BY <2>1, <4>2
        <5> QED BY <3>1, <3>4, <5>1
      <4> QED BY <4>1, <4>2
    <3> QED BY <3>5, <3>7, <3>8 DEF InAcceptanceOrder
  <2>3. CASE /\ queue # <<>> /\ batch' = Append(batch, Head(queue)) /\ queue' = Tail(queue)
             /\ accepted' = accepted
    <3>1. /\ queue' \in Seq(Update) /\ Len(queue') = Len(queue) - 1
          /\ batch' \in Seq(Update) /\ Len(batch') = Len(batch) + 1
          /\ Len(queue) > 0
          /\ \A i \in 1..Len(batch) : batch'[i] = batch[i]
          /\ batch'[Len(batch) + 1] = queue[1]
          /\ \A i \in 1..(Len(queue) - 1) : queue'[i] = queue[i + 1]
      BY <2>3, MoveHead
    <3>2. DOMAIN queue' = 1..(Len(queue) - 1) /\ DOMAIN batch' = 1..(Len(batch) + 1)
      BY <3>1, LenProperties
    <3>3. accepted' - (Len(queue') + Len(batch')) = accepted - (Len(queue) + Len(batch))
      BY <2>1, <2>3, <3>1
    <3>4. ASSUME NEW i \in DOMAIN batch'
          PROVE  batch'[i].seq = accepted - (Len(queue) + Len(batch)) + i
      <4>1. CASE i \in 1..Len(batch)
        BY <2>1, <3>1, <4>1 DEF InAcceptanceOrder
      <4>2. CASE i = Len(batch) + 1
        <5>1. 1 \in DOMAIN queue /\ batch'[i] = queue[1]
          BY <2>1, <3>1, <4>2
        <5> QED BY <2>1, <4>2, <5>1 DEF InAcceptanceOrder
      <4> QED BY <2>1, <3>2, <4>1, <4>2
    <3>5. ASSUME NEW i \in DOMAIN queue'
          PROVE  queue'[i].seq = accepted - (Len(queue) + Len(batch)) + Len(batch') + i
      <4>1. i \in Nat /\ i + 1 \in DOMAIN queue /\ queue'[i] = queue[i + 1]
        BY <2>1, <3>1, <3>2
      <4> QED BY <2>1, <3>1, <4>1 DEF InAcceptanceOrder
    <3>6. Len(queue') + Len(batch') <= accepted'
      BY <2>1, <2>3, <3>1 DEF InAcceptanceOrder
    <3> QED BY <3>3, <3>4, <3>5, <3>6 DEF InAcceptanceOrder
  <2>4. CASE batch' = <<>> /\ UNCHANGED <<queue, accepted>>
    <3>1. Len(batch') = 0 /\ DOMAIN batch' = {}
      BY <2>4
    <3> QED BY <2>1, <2>4, <3>1 DEF InAcceptanceOrder
  <2>5. CASE UNCHANGED <<queue, batch, accepted>>
    BY <2>5 DEF InAcceptanceOrder
  <2> QED BY <2>2, <2>3, <2>4, <2>5, QueueSteps DEF FlushShutdown, StopCancel, workerVars
<1> QED BY <1>1, <1>2, TypeCorrect, PTL DEF Spec

-----------------------------------------------------------------------------
(* Stop.                                                                   *)

\* How Stop, the worker and the context are related.
StopInv ==
    /\ once = "new" <=> ~cancelled
    /\ ~cancelled => worker \in {"select", "flush"}
    /\ acceptedAtStop <= accepted
    /\ \A s \in Stoppers : stopper[s] = "returned" => once = "done"
    /\ once = "done" => worker = "finished"
    /\ worker \in {"flushFinal", "finished"} =>
          \A i \in DOMAIN queue : queue[i].seq > acceptedAtStop

\* The relations above hold in every state: what Stop, the once and the worker's
\* shutdown branch guarantee each other.
THEOREM StopOrder == Spec => []StopInv
<1>1. Init => StopInv
  BY DEF Init, StopInv
<1>2. TypeOK /\ StopInv /\ [Next]_vars => StopInv'
  <2> SUFFICES ASSUME TypeOK, StopInv, [Next]_vars PROVE StopInv'
    OBVIOUS
  <2>1. ASSUME NEW c \in Clients, UpdateUserQueue(c) PROVE StopInv'
    <3>1. /\ accepted' = accepted + 1 /\ accepted \in Nat /\ acceptedAtStop \in Nat
          /\ UNCHANGED <<worker, cancelled, once, stopper, acceptedAtStop>>
      BY <2>1 DEF UpdateUserQueue, workerVars, stopVars, TypeOK
    <3>2. ASSUME worker \in {"flushFinal", "finished"}, NEW i \in DOMAIN queue'
          PROVE  queue'[i].seq > acceptedAtStop
      <4>1. /\ queue' \in Seq(Update) /\ Len(queue') = Len(queue) + 1 /\ Len(queue) \in Nat
            /\ \A j \in 1..Len(queue) : queue'[j] = queue[j]
            /\ queue'[Len(queue) + 1].seq = accepted + 1
        BY <2>1, Enqueue
      <4>2. DOMAIN queue' = 1..(Len(queue) + 1) /\ DOMAIN queue = 1..Len(queue)
        BY <4>1, LenProperties DEF TypeOK
      <4> QED BY <3>1, <3>2, <4>1, <4>2 DEF StopInv
    <3> QED BY <3>1, <3>2 DEF StopInv
  <2>2. CASE RecvUpdate \/ DrainRecv
    BY <2>2 DEF RecvUpdate, DrainRecv, AfterAppend, StopInv, stopVars
  <2>3. CASE Flush \/ FlushDrain \/ FlushFinal \/ FlushShutdown
    BY <2>3 DEF Flush, FlushDrain, FlushFinal, FlushShutdown, StopInv, stopVars
  <2>4. ASSUME NEW s \in Stoppers, StopCancel(s) PROVE StopInv'
    BY <2>4 DEF StopCancel, StopInv, workerVars, TypeOK
  <2>5. ASSUME NEW s \in Stoppers, StopWait(s) \/ StopAgain(s) PROVE StopInv'
    BY <2>5 DEF StopWait, StopAgain, StopInv, workerVars, TypeOK
  <2>6. CASE Tick \/ RecvDone \/ DrainEmpty
    BY <2>6 DEF Tick, RecvDone, DrainEmpty, StopInv, stopVars
  <2>7. CASE \/ \E c \in Clients : UpdateUserOverflow(c) \/ \E u \in Users : UpdateUserSet(c, u)
             \/ UNCHANGED vars
    BY <2>7 DEF UpdateUserOverflow, UpdateUserSet, vars, StopInv, workerVars, stopVars
  <2> QED BY <2>1, <2>2, <2>3, <2>4, <2>5, <2>6, <2>7, QueueSteps
<1> QED BY <1>1, <1>2, TypeCorrect, PTL DEF Spec

\* When a Stop call has returned, the worker has returned and every update still
\* in the queue was accepted after the context was cancelled.
THEOREM StopCompletes == Spec => []StopIsComplete
<1>1. StopInv => StopIsComplete
  BY DEF StopInv, StopIsComplete
<1> QED BY <1>1, StopOrder, PTL

-----------------------------------------------------------------------------
(* No accepted update is lost while the strategy runs.                     *)

\* Everything accepted before the updates in queue and batch is written.
PrefixWritten ==
    ~DbMayFail /\ ~cancelled => 1..(accepted - (Len(queue) + Len(batch))) \subseteq written

\* Until Stop is called every accepted update is queued, batched or written.
THEOREM NothingLost == Spec => []NothingLostBeforeStop
<1>1. Init => PrefixWritten
  BY EmptySeq DEF Init, PrefixWritten
<1>2. TypeOK /\ InAcceptanceOrder /\ StopInv /\ PrefixWritten /\ [Next]_vars => PrefixWritten'
  <2> SUFFICES ASSUME TypeOK, InAcceptanceOrder, StopInv, PrefixWritten, [Next]_vars,
                      ~DbMayFail, ~cancelled'
               PROVE  1..(accepted' - (Len(queue') + Len(batch'))) \subseteq written'
    BY DEF PrefixWritten
  <2>1. /\ Len(queue) \in Nat /\ Len(batch) \in Nat /\ DOMAIN batch = 1..Len(batch)
        /\ accepted \in Nat
    BY LenProperties DEF TypeOK
  <2>2. ASSUME NEW c \in Clients, UpdateUserQueue(c)
        PROVE  1..(accepted' - (Len(queue') + Len(batch'))) \subseteq written'
    <3>1. Len(queue') = Len(queue) + 1
      BY <2>2, Enqueue
    <3>2. accepted' = accepted + 1 /\ batch' = batch /\ written' = written /\ ~cancelled
      BY <2>2 DEF UpdateUserQueue, workerVars, dbVars, stopVars
    <3> QED BY <2>1, <3>1, <3>2 DEF PrefixWritten
  <2>3. CASE /\ queue # <<>> /\ batch' = Append(batch, Head(queue)) /\ queue' = Tail(queue)
             /\ UNCHANGED <<dbVars, stopVars, accepted>>
    <3>1. Len(queue') = Len(queue) - 1 /\ Len(batch') = Len(batch) + 1
      BY <2>3, MoveHead
    <3>2. accepted' = accepted /\ written' = written /\ ~cancelled
      BY <2>3 DEF dbVars, stopVars
    <3> QED BY <2>1, <3>1, <3>2 DEF PrefixWritten
  <2>4. CASE Flush \/ FlushDrain \/ FlushFinal \/ FlushShutdown
    <3>1. Flush /\ ~cancelled
      BY <2>4 DEF Flush, FlushDrain, FlushFinal, FlushShutdown, StopInv, stopVars
    <3>2. Commit(DOMAIN batch) /\ Len(batch') = 0 /\ UNCHANGED <<queue, accepted>>
      BY <3>1, BulkUpdateUsersEffect, EmptySeq DEF Flush
    <3>3. written' = written \cup {batch[i].seq : i \in DOMAIN batch}
      BY <3>2, CommitEffect
    <3>4. ASSUME NEW n \in 1..(accepted - Len(queue)) PROVE n \in written'
      <4>1. CASE n <= accepted - (Len(queue) + Len(batch))
        BY <2>1, <3>1, <3>3, <4>1 DEF PrefixWritten
      <4>2. CASE n > accepted - (Len(queue) + Len(batch))
        <5> DEFINE i == n - (accepted - (Len(queue) + Len(batch)))
        <5>1. i \in DOMAIN batch /\ accepted - (Len(queue) + Len(batch)) + i = n
          BY <2>1, <4>2
        <5>2. batch[i].seq = accepted - (Len(queue) + Len(batch)) + i
          BY <5>1 DEF InAcceptanceOrder
        <5> QED BY <3>3, <5>1, <5>2
      <4> QED BY <2>1, <4>1, <4>2
    <3> QED BY <2>1, <3>2, <3>4
  <2>5. CASE UNCHANGED <<queue, batch, dbVars, cancelled, acceptedAtStop, accepted>>
    BY <2>5 DEF PrefixWritten, dbVars
  <2> QED BY <2>2, <2>3, <2>4, <2>5, QueueSteps DEF StopCancel
<1>3. TypeOK /\ InAcceptanceOrder /\ PrefixWritten => NothingLostBeforeStop
  <2> SUFFICES ASSUME TypeOK, InAcceptanceOrder, PrefixWritten, ~DbMayFail, ~cancelled,
                      NEW n \in 1..accepted
               PROVE  n \in Pending \cup written
    BY DEF NothingLostBeforeStop
  <2> DEFINE base == accepted - (Len(queue) + Len(batch))
  <2>1. /\ Len(queue) \in Nat /\ DOMAIN queue = 1..Len(queue)
        /\ Len(batch) \in Nat /\ DOMAIN batch = 1..Len(batch)
        /\ accepted \in Nat /\ base \in Nat
    BY LenProperties DEF TypeOK, InAcceptanceOrder
  <2>2. CASE n <= base
    BY <2>1, <2>2 DEF PrefixWritten
  <2>3. CASE n > base /\ n <= base + Len(batch)
    <3>1. n - base \in DOMAIN batch /\ base + (n - base) = n
      BY <2>1, <2>3
    <3>2. batch[n - base].seq = n
      BY <3>1 DEF InAcceptanceOrder
    <3> QED BY <3>1, <3>2 DEF Pending
  <2>4. CASE n > base + Len(batch)
    <3> DEFINE i == n - (base + Len(batch))
    <3>1. i \in DOMAIN queue /\ base + Len(batch) + i = n
      BY <2>1, <2>4
    <3>2. queue[i].seq = n
      BY <3>1 DEF InAcceptanceOrder
    <3> QED BY <3>1, <3>2 DEF Pending
  <2> QED BY <2>1, <2>2, <2>3, <2>4
<1> QED BY <1>1, <1>2, <1>3, TypeCorrect, FifoOrder, StopOrder, PTL DEF Spec

-----------------------------------------------------------------------------
(* The database.                                                           *)

\* The row of a user holds an update accepted before everything in queue and
\* batch, or one that is still in the batch: line 106 has written the batch and
\* kept it.
RowsBehindQueue ==
    \A u \in Users :
        \/ db[u].seq <= accepted - (Len(queue) + Len(batch))
        \/ \E i \in DOMAIN batch : batch[i].user = u /\ batch[i].seq = db[u].seq

\* Rows never hold an update from the queue, in every reachable state.
THEOREM RowsAreBehind == Spec => []RowsBehindQueue
<1>1. Init => RowsBehindQueue
  BY EmptySeq DEF Init, RowsBehindQueue, NoRow
<1>2. TypeOK /\ InAcceptanceOrder /\ RowsBehindQueue /\ [Next]_vars => RowsBehindQueue'
  <2> SUFFICES ASSUME TypeOK, InAcceptanceOrder, RowsBehindQueue, [Next]_vars, NEW u \in Users
               PROVE  \/ db'[u].seq <= accepted' - (Len(queue') + Len(batch'))
                      \/ \E i \in DOMAIN batch' : batch'[i].user = u /\ batch'[i].seq = db'[u].seq
    BY DEF RowsBehindQueue
  <2>1. /\ Len(queue) \in Nat /\ Len(batch) \in Nat /\ DOMAIN batch = 1..Len(batch)
        /\ accepted \in Nat /\ db[u].seq \in Nat /\ Len(queue) + Len(batch) <= accepted
        /\ \A i \in DOMAIN batch : batch[i].seq = accepted - (Len(queue) + Len(batch)) + i
    BY LenProperties DEF TypeOK, Row, InAcceptanceOrder
  <2>2. \/ db[u].seq <= accepted - (Len(queue) + Len(batch))
        \/ \E i \in DOMAIN batch : batch[i].user = u /\ batch[i].seq = db[u].seq
    BY DEF RowsBehindQueue
  <2>3. ASSUME NEW c \in Clients, UpdateUserQueue(c)
        PROVE  \/ db'[u].seq <= accepted' - (Len(queue') + Len(batch'))
               \/ \E i \in DOMAIN batch' : batch'[i].user = u /\ batch'[i].seq = db'[u].seq
    <3>1. Len(queue') = Len(queue) + 1
      BY <2>3, Enqueue
    <3>2. accepted' = accepted + 1 /\ batch' = batch /\ db' = db
      BY <2>3 DEF UpdateUserQueue, workerVars, dbVars
    <3> QED BY <2>1, <2>2, <3>1, <3>2
  <2>4. CASE /\ queue # <<>> /\ batch' = Append(batch, Head(queue)) /\ queue' = Tail(queue)
             /\ UNCHANGED <<dbVars, stopVars, accepted>>
    <3>1. /\ Len(queue') = Len(queue) - 1 /\ Len(batch') = Len(batch) + 1
          /\ batch' \in Seq(Update)
          /\ \A i \in 1..Len(batch) : batch'[i] = batch[i]
      BY <2>4, MoveHead
    <3>2. accepted' = accepted /\ db' = db /\ DOMAIN batch' = 1..(Len(batch) + 1)
      BY <2>4, <3>1, LenProperties DEF dbVars
    <3>3. accepted' - (Len(queue') + Len(batch')) = accepted - (Len(queue) + Len(batch))
      BY <2>1, <3>1, <3>2
    <3>4. \A i \in DOMAIN batch : i \in DOMAIN batch' /\ batch'[i] = batch[i]
      BY <2>1, <3>1, <3>2
    <3> QED BY <2>2, <3>2, <3>3, <3>4
  <2>5. db'[u].seq = db[u].seq \/ \E i \in DOMAIN batch : batch[i].user = u /\ batch[i].seq = db'[u].seq
    <3>1. UNCHANGED dbVars \/ \E ok \in SUBSET (DOMAIN batch) : Commit(ok)
      BY QueueSteps, BulkUpdateUsersEffect
         DEF UpdateUserQueue, Flush, FlushDrain, FlushFinal, FlushShutdown, StopCancel, Rollback
    <3> QED BY <3>1, CommitEffect DEF dbVars
  <2>6. CASE batch' = <<>> /\ UNCHANGED <<queue, accepted>>
    <3>1. accepted' - (Len(queue') + Len(batch')) = accepted - Len(queue)
      BY <2>1, <2>6, EmptySeq
    <3>2. \A i \in DOMAIN batch : batch[i].seq <= accepted - Len(queue)
      BY <2>1
    <3>3. db'[u].seq <= accepted - Len(queue)
      BY <2>1, <2>2, <2>5, <3>2
    <3> QED BY <3>1, <3>3
  <2>7. CASE UNCHANGED <<queue, batch, accepted>>
    BY <2>2, <2>5, <2>7
  <2> QED BY <2>3, <2>4, <2>6, <2>7, QueueSteps DEF FlushShutdown, StopCancel, workerVars
<1> QED BY <1>1, <1>2, TypeCorrect, FifoOrder, PTL DEF Spec

\* With a database that does not fail no row ever goes back to an update accepted
\* earlier, although the shutdown branch writes a batch twice.
THEOREM NoRegression == Spec => DbNeverRegresses
<1>1. TypeOK /\ InAcceptanceOrder /\ RowsBehindQueue /\ [Next]_vars
        => [~DbMayFail => \A u \in Users : db'[u].seq >= db[u].seq]_vars
  <2> SUFFICES ASSUME TypeOK, InAcceptanceOrder, RowsBehindQueue, [Next]_vars, ~DbMayFail,
                      NEW u \in Users
               PROVE  db'[u].seq >= db[u].seq
    OBVIOUS
  <2>1. /\ Len(queue) \in Nat /\ Len(batch) \in Nat /\ DOMAIN batch = 1..Len(batch)
        /\ accepted \in Nat /\ db[u].seq \in Nat
        /\ \A i \in DOMAIN batch : batch[i].seq = accepted - (Len(queue) + Len(batch)) + i
    BY LenProperties DEF TypeOK, Row, InAcceptanceOrder
  <2>2. UNCHANGED dbVars \/ Commit(DOMAIN batch)
    BY QueueSteps, BulkUpdateUsersEffect
       DEF UpdateUserQueue, Flush, FlushDrain, FlushFinal, FlushShutdown, StopCancel, Rollback
  <2>3. CASE UNCHANGED dbVars
    BY <2>1, <2>3 DEF dbVars
  <2>4. CASE Commit(DOMAIN batch)
    <3>1. \/ db'[u] = db[u]
          \/ \E i \in DOMAIN batch : /\ batch[i].user = u /\ db'[u].seq = batch[i].seq
                                     /\ \A j \in DOMAIN batch : batch[j].user = u => j <= i
      BY <2>4, CommitEffect
    <3>2. \/ db[u].seq <= accepted - (Len(queue) + Len(batch))
          \/ \E j \in DOMAIN batch : batch[j].user = u /\ batch[j].seq = db[u].seq
      BY DEF RowsBehindQueue
    <3> QED BY <2>1, <3>1, <3>2
  <2> QED BY <2>2, <2>3, <2>4
<1> QED BY <1>1, TypeCorrect, FifoOrder, RowsAreBehind, PTL DEF Spec, DbNeverRegresses

\* With a database that does not fail only a flush under the cancelled worker
\* context takes an accepted update out of queue, batch and database.
THEOREM LossNeedsCancelledFlush == Spec => LostOnlyByCancelledFlush
<1>1. TypeOK /\ [Next]_vars
        => [~DbMayFail => \/ Pending \cup written \subseteq Pending' \cup written'
                          \/ worker = "flush" /\ cancelled]_vars
  <2> SUFFICES ASSUME TypeOK, [Next]_vars, ~DbMayFail, ~(worker = "flush" /\ cancelled)
               PROVE  Pending \cup written \subseteq Pending' \cup written'
    OBVIOUS
  <2>1. /\ Len(queue) \in Nat /\ Len(batch) \in Nat
        /\ DOMAIN queue = 1..Len(queue) /\ DOMAIN batch = 1..Len(batch)
    BY LenProperties DEF TypeOK
  <2>2. ASSUME NEW c \in Clients, UpdateUserQueue(c)
        PROVE  Pending \cup written \subseteq Pending' \cup written'
    <3>1. /\ queue' \in Seq(Update) /\ Len(queue') = Len(queue) + 1
          /\ \A i \in 1..Len(queue) : queue'[i] = queue[i]
      BY <2>2, Enqueue
    <3>2. \A i \in DOMAIN queue : i \in DOMAIN queue' /\ queue'[i] = queue[i]
      BY <2>1, <3>1, LenProperties
    <3>3. batch' = batch /\ written' = written
      BY <2>2 DEF UpdateUserQueue, workerVars, dbVars
    <3> QED BY <3>2, <3>3 DEF Pending
  <2>3. CASE /\ queue # <<>> /\ batch' = Append(batch, Head(queue)) /\ queue' = Tail(queue)
             /\ UNCHANGED <<dbVars, stopVars, accepted>>
    <3>1. /\ queue' \in Seq(Update) /\ Len(queue') = Len(queue) - 1
          /\ batch' \in Seq(Update) /\ Len(batch') = Len(batch) + 1
          /\ \A i \in 1..Len(batch) : batch'[i] = batch[i]
          /\ batch'[Len(batch) + 1] = queue[1]
          /\ \A i \in 1..(Len(queue) - 1) : queue'[i] = queue[i + 1]
      BY <2>3, MoveHead
    <3>2. DOMAIN queue' = 1..(Len(queue) - 1) /\ DOMAIN batch' = 1..(Len(batch) + 1)
      BY <3>1, LenProperties
    <3>3. ASSUME NEW i \in DOMAIN queue PROVE queue[i].seq \in Pending'
      <4>1. CASE i = 1
        <5>1. Len(batch) + 1 \in DOMAIN batch' /\ batch'[Len(batch) + 1] = queue[i]
          BY <2>1, <3>1, <3>2, <4>1
        <5> QED BY <5>1 DEF Pending
      <4>2. CASE i # 1
        <5>1. i - 1 \in DOMAIN queue' /\ queue'[i - 1] = queue[i]
          BY <2>1, <3>1, <3>2, <4>2
        <5> QED BY <5>1 DEF Pending
      <4> QED BY <4>1, <4>2
    <3>4. ASSUME NEW i \in DOMAIN batch PROVE batch[i].seq \in Pending'
      <4>1. i \in DOMAIN batch' /\ batch'[i] = batch[i]
        BY <2>1, <3>1, <3>2
      <4> QED BY <4>1 DEF Pending
    <3>5. written' = written BY <2>3 DEF dbVars
    <3>6. Pending \subseteq Pending'
      <4>1. ASSUME NEW e \in Pending PROVE e \in Pending' BY <3>3, <3>4 DEF Pending
      <4> QED BY <4>1
    <3> QED BY <3>5, <3>6
  <2>4. CASE Flush \/ FlushDrain \/ FlushFinal \/ FlushShutdown
    <3>1. Commit(DOMAIN batch) /\ queue' = queue
      BY <2>4, BulkUpdateUsersEffect DEF Flush, FlushDrain, FlushFinal, FlushShutdown
    <3>2. written' = written \cup {batch[i].seq : i \in DOMAIN batch}
      BY <3>1, CommitEffect
    <3> QED BY <3>1, <3>2 DEF Pending
  <2>5. CASE UNCHANGED <<queue, batch, dbVars>>
    BY <2>5 DEF Pending, dbVars
  <2> QED BY <2>2, <2>3, <2>4, <2>5, QueueSteps DEF StopCancel, workerVars
<1> QED BY <1>1, TypeCorrect, PTL DEF Spec, LostOnlyByCancelledFlush

\* What was accepted is safe: the four invariants together.
THEOREM AcceptedUpdatesSafe == Spec => []AcceptedSafe
<1>1. TypeOK /\ BatchHasRoom /\ NothingLostBeforeStop /\ InAcceptanceOrder /\ StopIsComplete
        => AcceptedSafe
  BY DEF AcceptedSafe
<1> QED BY <1>1, TypeCorrect, NothingLost, FifoOrder, StopCompletes, PTL

\* What a flush may do to the rows: both action properties together.
THEOREM FlushesAreSafe == Spec => FlushesSafe
BY NoRegression, LossNeedsCancelledFlush DEF FlushesSafe

-----------------------------------------------------------------------------
(* The strategy implements WriteBehindDepth: lengths and program counters   *)
(* change as that module says, whatever the data are.                       *)

Queueing == {c \in Clients : client[c].at = "queueing"}

\* A client that begins a call is counted, and one whose call returns is not.
LEMMA QueueingChanges ==
    ASSUME TypeOK, NEW c \in Clients
    PROVE  /\ \A u \in Users : UpdateUserSet(c, u) =>
                c \notin Queueing /\ Queueing' = Queueing \cup {c}
           /\ client[c].at = "queueing" /\ client' = [client EXCEPT ![c] = IdleCall] =>
                c \in Queueing /\ Queueing' = Queueing \ {c}
<1>1. client \in [Clients -> Call]
  BY DEF TypeOK
<1>2. IdleCall.at = "idle"
  BY DEF IdleCall
<1>3. ASSUME NEW u \in Users, UpdateUserSet(c, u)
      PROVE  c \notin Queueing /\ Queueing' = Queueing \cup {c}
  BY <1>1, <1>2, <1>3 DEF UpdateUserSet, Queueing
<1>4. ASSUME client[c].at = "queueing", client' = [client EXCEPT ![c] = IdleCall]
      PROVE  c \in Queueing /\ Queueing' = Queueing \ {c}
  BY <1>1, <1>2, <1>4 DEF Queueing
<1> QED BY <1>3, <1>4

\* A step of the worker is a step of the worker without data.
LEMMA WorkerDepth ==
    ASSUME TypeOK, TypeOK', Worker
    PROVE  Depth!WDWorker
<1>1. /\ queue \in Seq(Update) /\ batch \in Seq(Update)
      /\ queue # <<>> => Len(queue) > 0
      /\ batch # <<>> => Len(batch) > 0
      /\ Len(queue) \in Nat /\ Len(batch) \in Nat
      /\ queue = <<>> => Len(queue) = 0
      /\ batch = <<>> => Len(batch) = 0
  BY EmptySeq, LenProperties DEF TypeOK
<1>2. ASSUME client' = client PROVE Queueing' = Queueing
  BY <1>2 DEF Queueing
<1> USE DEF Depth!WDWorker, Depth!wdStopVars, stopVars, clientVars
<1>3. ASSUME RecvUpdate \/ DrainRecv
      PROVE  Len(queue) > 0 /\ Len(queue') = Len(queue) - 1 /\ Len(batch') = Len(batch) + 1
  BY <1>1, <1>3, MoveHead DEF RecvUpdate, DrainRecv
<1>4. CASE RecvUpdate
  BY <1>2, <1>3, <1>4 DEF RecvUpdate, AfterAppend, Depth!WDRecvUpdate, Depth!WDMove, Queueing
<1>5. CASE DrainRecv
  BY <1>2, <1>3, <1>5 DEF DrainRecv, AfterAppend, Depth!WDDrainRecv, Depth!WDMove, Queueing
<1>6. CASE Tick
  BY <1>1, <1>2, <1>6 DEF Tick, Depth!WDTick, Queueing
<1>7. CASE Flush \/ FlushDrain \/ FlushFinal
  <2>1. Len(batch') = 0
    BY <1>7, EmptySeq DEF Flush, FlushDrain, FlushFinal
  <2> QED BY <1>2, <1>7, <2>1 DEF Flush, FlushDrain, FlushFinal, Depth!WDFlush, Queueing
<1>8. CASE RecvDone
  BY <1>1, <1>2, <1>8 DEF RecvDone, Depth!WDRecvDone, Queueing
<1>9. CASE FlushShutdown
  BY <1>2, <1>9 DEF FlushShutdown, Depth!WDFlushShutdown, Queueing
<1>10. CASE DrainEmpty
  BY <1>1, <1>2, <1>10 DEF DrainEmpty, Depth!WDDrainEmpty, Queueing
<1> QED BY <1>4, <1>5, <1>6, <1>7, <1>8, <1>9, <1>10 DEF Worker

\* Every step of the strategy is a step without data, or changes nothing of it.
LEMMA StepDepth ==
    ASSUME TypeOK, TypeOK', [Next]_vars
    PROVE  [Depth!WDNext]_(Depth!wdVars)
<1> USE DEF Depth!WDNext, Depth!wdVars, Depth!wdWorkerVars, Depth!wdStopVars,
            vars, clientVars, workerVars, stopVars
<1>1. ASSUME NEW c \in Clients, NEW u \in Users, UpdateUserSet(c, u) PROVE Depth!WDSet(c)
  BY <1>1, QueueingChanges DEF UpdateUserSet, Depth!WDSet, Queueing
<1>2. ASSUME NEW c \in Clients, UpdateUserQueue(c) PROVE Depth!WDAccept(c)
  BY <1>2, QueueingChanges, Enqueue DEF UpdateUserQueue, Depth!WDAccept, Queueing
<1>3. ASSUME NEW c \in Clients, UpdateUserOverflow(c) PROVE Depth!WDOverflow(c)
  BY <1>3, QueueingChanges DEF UpdateUserOverflow, Depth!WDOverflow, Queueing
<1>4. ASSUME client' = client PROVE Queueing' = Queueing
  BY <1>4 DEF Queueing
<1>5. ASSUME NEW s \in Stoppers, Stop(s) PROVE Depth!WDStop(s)
  BY <1>4, <1>5 DEF Stop, StopCancel, StopWait, StopAgain, Depth!WDStop, Depth!WDStopCancel,
                    Depth!WDStopWait, Depth!WDStopAgain, Queueing
<1>6. CASE UNCHANGED vars
  BY <1>4, <1>6 DEF Queueing
<1> QED BY <1>1, <1>2, <1>3, <1>5, <1>6, WorkerDepth DEF Next, UpdateUser

\* The strategy with its data is one of the strategies without: what WriteBehindDepth says
\* of Stop while clients go on calling is said of this code, for any database.
THEOREM StrategyImplementsDepth == Spec => ImplementsDepth
<1>1. Init => Depth!WDInit
  BY EmptySeq DEF Init, Depth!WDInit, IdleCall
<1> QED BY <1>1, StepDepth, TypeCorrect, PTL DEF Spec, ImplementsDepth, Depth!WDSpec

-----------------------------------------------------------------------------
(* The cache and the database.  The property speaks of the moments at which *)
(* nothing is on its way; its invariant says where the value in the cache   *)
(* is at every other moment: a call still has to queue it, it is the user's *)
(* last update in queue and batch, or the row holds it already.             *)

\* The updates in the queue and in the worker's batch.
Waiting == {batch[i] : i \in DOMAIN batch} \cup {queue[i] : i \in DOMAIN queue}

OneWriter(u) == \A c, d \in writers[u] : c = d

\* Client c has written the cache entry of u and not yet tried the queue.
Writing(c, u) == client[c].at = "queueing" /\ client[c].user = u

\* Every call under way is by a client that counts as a writer of its user, and
\* a user's only writer holds what the cache holds.
WritersCounted ==
    /\ \A u \in Users : IsFiniteSet(writers[u])
    /\ \A c \in Clients, u \in Users :
          Writing(c, u) => /\ c \in writers[u]
                           /\ OneWriter(u) => client[c].id = cache[u]

\* Where the value that the cache holds for u is on its way to the database.
OnItsWay(u) ==
    \/ cache[u] \in dropped
    \/ \E c \in Clients : Writing(c, u)
    \/ \E e \in Waiting : /\ e.user = u /\ e.id = cache[u]
                          /\ \A f \in Waiting : f.user = u => f.seq <= e.seq
    \/ /\ \A e \in Waiting : e.user # u
       /\ cache[u] = db[u].id

CacheOnItsWay ==
    ~DbMayFail /\ ~cancelled => \A u \in Users : OneWriter(u) => OnItsWay(u)

\* What waits are updates that have been accepted, those of the batch before
\* those of the queue and each in the order of its position.
LEMMA WaitingOrder ==
    ASSUME TypeOK, InAcceptanceOrder
    PROVE  /\ DOMAIN batch = 1..Len(batch) /\ DOMAIN queue = 1..Len(queue)
           /\ \A e \in Waiting : e \in Update /\ e.seq \in Nat /\ e.seq <= accepted
           /\ \A i, j \in DOMAIN batch : batch[i].seq <= batch[j].seq => i <= j
           /\ \A i \in DOMAIN batch, j \in DOMAIN queue : batch[i].seq < queue[j].seq
<1> DEFINE base == accepted - (Len(queue) + Len(batch))
<1>1. /\ batch \in Seq(Update) /\ queue \in Seq(Update)
      /\ Len(batch) \in Nat /\ Len(queue) \in Nat /\ accepted \in Nat
      /\ DOMAIN batch = 1..Len(batch) /\ DOMAIN queue = 1..Len(queue)
  BY LenProperties DEF TypeOK
<1>2. /\ base \in Nat /\ base + Len(batch) + Len(queue) = accepted
      /\ \A i \in DOMAIN batch : batch[i].seq = base + i
      /\ \A i \in DOMAIN queue : queue[i].seq = base + Len(batch) + i
  BY <1>1 DEF InAcceptanceOrder
<1> HIDE DEF base
<1>3. /\ \A i \in DOMAIN batch : batch[i] \in Update /\ batch[i].seq \in Nat /\ batch[i].seq <= accepted
      /\ \A i \in DOMAIN queue : queue[i] \in Update /\ queue[i].seq \in Nat /\ queue[i].seq <= accepted
  <2>1. /\ \A i \in DOMAIN batch : batch[i] \in Update
        /\ \A i \in DOMAIN queue : queue[i] \in Update
    BY <1>1, ElementOfSeq
  <2> QED BY <1>1, <1>2, <2>1
<1>4. \A e \in Waiting : e \in Update /\ e.seq \in Nat /\ e.seq <= accepted
  BY <1>3 DEF Waiting
<1>5. \A i, j \in DOMAIN batch : batch[i].seq <= batch[j].seq => i <= j
  BY <1>1, <1>2
<1>6. \A i \in DOMAIN batch, j \in DOMAIN queue : batch[i].seq < queue[j].seq
  BY <1>1, <1>2
<1> QED BY <1>1, <1>4, <1>5, <1>6

\* The worker's receive changes where an update waits and not what waits.
LEMMA ReceiveKeepsWaiting ==
    ASSUME TypeOK, queue # <<>>, batch' = Append(batch, Head(queue)), queue' = Tail(queue)
    PROVE  Waiting' = Waiting
<1>1. /\ queue' \in Seq(Update) /\ Len(queue') = Len(queue) - 1
      /\ batch' \in Seq(Update) /\ Len(batch') = Len(batch) + 1
      /\ Len(queue) \in Nat \ {0} /\ Len(batch) \in Nat
      /\ \A i \in 1..Len(batch) : batch'[i] = batch[i]
      /\ batch'[Len(batch) + 1] = queue[1]
      /\ \A i \in 1..(Len(queue) - 1) : queue'[i] = queue[i + 1]
  BY MoveHead
<1>2. /\ DOMAIN queue' = 1..(Len(queue) - 1) /\ DOMAIN batch' = 1..(Len(batch) + 1)
      /\ DOMAIN queue = 1..Len(queue) /\ DOMAIN batch = 1..Len(batch)
  BY <1>1, LenProperties DEF TypeOK
<1>3. ASSUME NEW i \in DOMAIN batch PROVE batch[i] \in Waiting'
  <2>1. i \in DOMAIN batch' /\ batch'[i] = batch[i]
    BY <1>1, <1>2
  <2> QED BY <2>1 DEF Waiting
<1>4. ASSUME NEW i \in DOMAIN queue PROVE queue[i] \in Waiting'
  <2>1. CASE i = 1
    <3>1. Len(batch) + 1 \in DOMAIN batch' /\ batch'[Len(batch) + 1] = queue[i]
      BY <1>1, <1>2, <2>1
    <3> QED BY <3>1 DEF Waiting
  <2>2. CASE i # 1
    <3>1. i - 1 \in DOMAIN queue' /\ queue'[i - 1] = queue[i]
      BY <1>1, <1>2, <2>2
    <3> QED BY <3>1 DEF Waiting
  <2> QED BY <2>1, <2>2
<1>5. ASSUME NEW i \in DOMAIN batch' PROVE batch'[i] \in Waiting
  <2>1. CASE i = Len(batch) + 1
    <3>1. 1 \in DOMAIN queue /\ batch'[i] = queue[1]
      BY <1>1, <1>2, <2>1
    <3> QED BY <3>1 DEF Waiting
  <2>2. CASE i # Len(batch) + 1
    <3>1. i \in DOMAIN batch /\ batch'[i] = batch[i]
      BY <1>1, <1>2, <2>2
    <3> QED BY <3>1 DEF Waiting
  <2> QED BY <2>1, <2>2
<1>6. ASSUME NEW i \in DOMAIN queue' PROVE queue'[i] \in Waiting
  <2>1. i + 1 \in DOMAIN queue /\ queue'[i] = queue[i + 1]
    BY <1>1, <1>2
  <2> QED BY <2>1 DEF Waiting
<1>7. ASSUME NEW e \in Waiting PROVE e \in Waiting'
  <2>1. (\E i \in DOMAIN batch : e = batch[i]) \/ (\E i \in DOMAIN queue : e = queue[i])
    BY DEF Waiting
  <2> QED BY <1>3, <1>4, <2>1
<1>8. ASSUME NEW e \in Waiting' PROVE e \in Waiting
  <2>1. (\E i \in DOMAIN batch' : e = batch'[i]) \/ (\E i \in DOMAIN queue' : e = queue'[i])
    BY DEF Waiting
  <2> QED BY <1>5, <1>6, <2>1
<1> QED BY <1>7, <1>8

\* Writers are counted: clients enter UpdateUser only through UpdateUserSet, and
\* a second client's call on a user ends the case of a single writer.
THEOREM WritersAreCounted == Spec => []WritersCounted
<1>1. Init => WritersCounted
  BY FS_EmptySet DEF Init, WritersCounted, Writing, IdleCall
<1>2. TypeOK /\ WritersCounted /\ [Next]_vars => WritersCounted'
  <2> SUFFICES ASSUME TypeOK, WritersCounted, [Next]_vars PROVE WritersCounted'
    OBVIOUS
  <2>1. ASSUME NEW c \in Clients, NEW u \in Users, UpdateUserSet(c, u) PROVE WritersCounted'
    <3>1. /\ \A v \in Users : writers'[v] = IF v = u THEN writers[u] \cup {c} ELSE writers[v]
          /\ \A v \in Users : cache'[v] = IF v = u THEN calls + 1 ELSE cache[v]
          /\ \A d \in Clients : client'[d] = IF d = c THEN [at |-> "queueing", id |-> calls + 1, user |-> u]
                                             ELSE client[d]
      BY <2>1 DEF UpdateUserSet, TypeOK
    <3>2. ASSUME NEW v \in Users PROVE IsFiniteSet(writers'[v])
      BY <3>1, FS_AddElement DEF WritersCounted
    <3>3. ASSUME NEW d \in Clients, NEW v \in Users, Writing(d, v)'
          PROVE  d \in writers'[v] /\ (OneWriter(v)' => client'[d].id = cache'[v])
      <4>1. CASE d = c
        <5>1. v = u
          BY <3>1, <3>3, <4>1 DEF Writing
        <5> QED BY <3>1, <4>1, <5>1
      <4>2. CASE d # c
        <5>1. Writing(d, v) /\ client'[d] = client[d]
          BY <3>1, <3>3, <4>2 DEF Writing
        <5>2. d \in writers[v] /\ (OneWriter(v) => client[d].id = cache[v])
          BY <5>1 DEF WritersCounted
        <5>3. CASE v = u
          <6>1. d \in writers'[v] /\ c \in writers'[v]
            BY <3>1, <5>2, <5>3
          <6>2. ~OneWriter(v)'
            BY <4>2, <6>1 DEF OneWriter
          <6> QED BY <6>1, <6>2
        <5>4. CASE v # u
          <6>1. writers'[v] = writers[v] /\ cache'[v] = cache[v]
            BY <3>1, <5>4
          <6> QED BY <5>1, <5>2, <6>1 DEF OneWriter
        <5> QED BY <5>3, <5>4
      <4> QED BY <4>1, <4>2
    <3> QED BY <3>2, <3>3 DEF WritersCounted
  <2>2. ASSUME NEW c \in Clients, UpdateUserQueue(c) \/ UpdateUserOverflow(c) PROVE WritersCounted'
    <3>1. /\ writers' = writers /\ cache' = cache
          /\ \A d \in Clients : client'[d] = IF d = c THEN IdleCall ELSE client[d]
      BY <2>2 DEF UpdateUserQueue, UpdateUserOverflow, TypeOK
    <3>2. \A d \in Clients, v \in Users : Writing(d, v)' => Writing(d, v) /\ client'[d] = client[d]
      BY <3>1 DEF Writing, IdleCall
    <3>3. \A v \in Users : OneWriter(v)' <=> OneWriter(v)
      BY <3>1 DEF OneWriter
    <3> QED BY <3>1, <3>2, <3>3 DEF WritersCounted
  <2>3. CASE UNCHANGED <<cache, client, writers>>
    BY <2>3 DEF WritersCounted, Writing, OneWriter
  <2>4. \/ \E c \in Clients : UpdateUser(c)
        \/ UNCHANGED <<cache, client, writers>>
    BY DEF Next, Worker, RecvUpdate, Tick, Flush, RecvDone, FlushShutdown, DrainRecv, FlushDrain,
           DrainEmpty, FlushFinal, Stop, StopCancel, StopWait, StopAgain, clientVars, vars
  <2> QED BY <2>1, <2>2, <2>3, <2>4 DEF UpdateUser
<1> QED BY <1>1, <1>2, TypeCorrect, PTL DEF Spec

\* While the strategy runs over a database that does not fail, what the cache
\* holds for a user with one writer is on its way to the row or already there.
THEOREM CacheIsOnItsWay == Spec => []CacheOnItsWay
<1>1. Init => CacheOnItsWay
  BY EmptySeq DEF Init, CacheOnItsWay, OnItsWay, Waiting, NoRow
<1>2. TypeOK /\ InAcceptanceOrder /\ StopInv /\ WritersCounted /\ CacheOnItsWay /\ [Next]_vars
        => CacheOnItsWay'
  <2> SUFFICES ASSUME TypeOK, InAcceptanceOrder, StopInv, WritersCounted, CacheOnItsWay,
                      [Next]_vars, ~DbMayFail, ~cancelled', NEW v \in Users, OneWriter(v)'
               PROVE  OnItsWay(v)'
    BY DEF CacheOnItsWay
  <2>1. ~cancelled
    BY DEF Next, UpdateUser, UpdateUserSet, UpdateUserQueue, UpdateUserOverflow, Worker, RecvUpdate,
           Tick, Flush, RecvDone, FlushShutdown, DrainRecv, FlushDrain, DrainEmpty, FlushFinal,
           Stop, StopCancel, StopWait, StopAgain, stopVars, vars
  <2>2. OneWriter(v) => OnItsWay(v)
    BY <2>1 DEF CacheOnItsWay
  <2>3. ASSUME NEW c \in Clients, NEW u \in Users, UpdateUserSet(c, u) PROVE OnItsWay(v)'
    <3>1. /\ client' = [client EXCEPT ![c] = [at |-> "queueing", id |-> calls + 1, user |-> u]]
          /\ cache' = [cache EXCEPT ![u] = calls + 1]
          /\ writers' = [writers EXCEPT ![u] = @ \cup {c}]
          /\ client[c] = IdleCall
          /\ dropped' = dropped /\ batch' = batch /\ queue' = queue /\ db' = db
      BY <2>3 DEF UpdateUserSet, dbVars, workerVars
    <3>2. CASE v = u
      <4>1. client'[c] = [at |-> "queueing", id |-> calls + 1, user |-> u]
        BY <3>1 DEF TypeOK
      <4>2. Writing(c, v)'
        BY <3>2, <4>1 DEF Writing
      <4> QED BY <4>2 DEF OnItsWay
    <3>3. CASE v # u
      <4>1. cache'[v] = cache[v] /\ writers'[v] = writers[v]
        BY <3>1, <3>3 DEF TypeOK
      <4>2. OnItsWay(v)
        BY <2>2, <4>1 DEF OneWriter
      <4>3. Waiting' = Waiting
        BY <3>1 DEF Waiting
      <4>4. \A d \in Clients : Writing(d, v) => Writing(d, v)'
        <5>1. ASSUME NEW d \in Clients, Writing(d, v) PROVE client'[d] = client[d]
          BY <3>1, <5>1 DEF Writing, IdleCall, TypeOK
        <5> QED BY <5>1 DEF Writing
      <4> QED BY <3>1, <4>1, <4>2, <4>3, <4>4 DEF OnItsWay
    <3> QED BY <3>2, <3>3
  <2>4. ASSUME NEW c \in Clients, UpdateUserQueue(c) PROVE OnItsWay(v)'
    <3> DEFINE e == [id |-> client[c].id, user |-> client[c].user, seq |-> accepted + 1]
    <3>1. /\ client[c].at = "queueing" /\ queue' = Append(queue, e)
          /\ cache' = cache /\ writers' = writers /\ dropped' = dropped /\ batch' = batch /\ db' = db
          /\ client' = [client EXCEPT ![c] = IdleCall]
      BY <2>4 DEF UpdateUserQueue, dbVars, workerVars
    <3>2. e.id = client[c].id /\ e.user = client[c].user /\ e.seq = accepted + 1
      OBVIOUS
    <3>3. Waiting' = Waiting \cup {e}
      <4>1. e \in Update
        BY <3>1 DEF TypeOK, Call, IdleCall, Update
      <4>2. queue \in Seq(Update)
        BY DEF TypeOK
      <4> HIDE DEF e
      <4>3. /\ queue' \in Seq(Update) /\ Len(queue') = Len(queue) + 1 /\ Len(queue) \in Nat
            /\ \A i \in 1..Len(queue) : queue'[i] = queue[i]
            /\ queue'[Len(queue) + 1] = e
        BY <3>1, <4>1, <4>2, AppendProperties, LenProperties
      <4>4. DOMAIN queue' = 1..(Len(queue) + 1) /\ DOMAIN queue = 1..Len(queue)
        BY <4>2, <4>3, LenProperties
      <4>5. \A i \in DOMAIN queue : i \in DOMAIN queue' /\ queue'[i] = queue[i]
        BY <4>3, <4>4
      <4>6. \A i \in DOMAIN queue' : i \in DOMAIN queue \/ queue'[i] = e
        BY <4>3, <4>4
      <4>7. Len(queue) + 1 \in DOMAIN queue'
        BY <4>3, <4>4
      <4>8. {queue'[i] : i \in DOMAIN queue'} = {queue[i] : i \in DOMAIN queue} \cup {e}
        BY <4>3, <4>5, <4>6, <4>7
      <4> QED BY <3>1, <4>8 DEF Waiting
    <3> HIDE DEF e
    <3>4. OneWriter(v)
      BY <3>1 DEF OneWriter
    <3>5. CASE client[c].user = v
      <4>1. e.user = v /\ e.id = cache'[v]
        BY <3>1, <3>2, <3>4, <3>5 DEF WritersCounted, Writing
      <4>2. \A f \in Waiting' : f.user = v => f.seq <= e.seq
        BY <3>2, <3>3, WaitingOrder DEF TypeOK
      <4>3. e \in Waiting'
        BY <3>3
      <4> QED BY <4>1, <4>2, <4>3 DEF OnItsWay
    <3>6. CASE client[c].user # v
      <4>1. OnItsWay(v)
        BY <2>2, <3>4
      <4>2. \A d \in Clients : Writing(d, v) => Writing(d, v)'
        <5>1. ASSUME NEW d \in Clients, Writing(d, v) PROVE client'[d] = client[d]
          BY <3>1, <3>6, <5>1 DEF Writing, TypeOK
        <5> QED BY <5>1 DEF Writing
      <4>3. e.user # v
        BY <3>2, <3>6
      <4> QED BY <3>1, <3>3, <4>1, <4>2, <4>3 DEF OnItsWay
    <3> QED BY <3>5, <3>6
  <2>5. ASSUME NEW c \in Clients, UpdateUserOverflow(c) PROVE OnItsWay(v)'
    <3>1. /\ client[c].at = "queueing" /\ dropped' = dropped \cup {client[c].id}
          /\ cache' = cache /\ writers' = writers /\ queue' = queue /\ batch' = batch /\ db' = db
          /\ client' = [client EXCEPT ![c] = IdleCall]
      BY <2>5 DEF UpdateUserOverflow, dbVars, workerVars
    <3>2. OneWriter(v) /\ Waiting' = Waiting
      BY <3>1 DEF OneWriter, Waiting
    <3>3. CASE client[c].user = v
      <4>1. client[c].id = cache[v]
        BY <3>1, <3>2, <3>3 DEF WritersCounted, Writing
      <4> QED BY <3>1, <4>1 DEF OnItsWay
    <3>4. CASE client[c].user # v
      <4>1. \A d \in Clients : Writing(d, v) => Writing(d, v)'
        <5>1. ASSUME NEW d \in Clients, Writing(d, v) PROVE client'[d] = client[d]
          BY <3>1, <3>4, <5>1 DEF Writing, TypeOK
        <5> QED BY <5>1 DEF Writing
      <4> QED BY <2>2, <3>1, <3>2, <4>1 DEF OnItsWay
    <3> QED BY <3>3, <3>4
  <2>6. CASE UNCHANGED clientVars /\ db' = db /\ Waiting' = Waiting
    <3>1. OneWriter(v) /\ \A d \in Clients : Writing(d, v) => Writing(d, v)'
      BY <2>6 DEF clientVars, OneWriter, Writing
    <3> QED BY <2>2, <2>6, <3>1 DEF clientVars, OnItsWay
  <2>7. CASE Flush
    <3>1. /\ Commit(DOMAIN batch) /\ batch' = <<>> /\ queue' = queue
          /\ cache' = cache /\ writers' = writers /\ dropped' = dropped /\ client' = client
      BY <2>1, <2>7, BulkUpdateUsersEffect DEF Flush, clientVars
    <3>2. /\ OnItsWay(v)
          /\ \A d \in Clients : Writing(d, v) => Writing(d, v)'
      BY <2>2, <3>1 DEF OneWriter, Writing
    <3>3. Waiting' = {queue[i] : i \in DOMAIN queue} /\ Waiting' \subseteq Waiting
      BY <3>1 DEF Waiting
    <3>4. CASE \E e \in Waiting : /\ e.user = v /\ e.id = cache[v]
                                  /\ \A f \in Waiting : f.user = v => f.seq <= e.seq
      <4>1. PICK e \in Waiting : /\ e.user = v /\ e.id = cache[v]
                                 /\ \A f \in Waiting : f.user = v => f.seq <= e.seq
        BY <3>4
      <4>2. CASE e \in Waiting'
        BY <3>1, <3>3, <4>1, <4>2 DEF OnItsWay
      <4>3. CASE e \notin Waiting'
        <5>1. PICK i \in DOMAIN batch : e = batch[i]
          BY <3>3, <4>3 DEF Waiting
        <5>2. ASSUME NEW f \in Waiting' PROVE f.user # v
          <6>1. PICK j \in DOMAIN queue : f = queue[j]
            BY <3>3
          <6>2. e.seq < f.seq /\ f \in Waiting /\ e.seq \in Nat /\ f.seq \in Nat
            BY <3>3, <5>1, <6>1, WaitingOrder
          <6> QED BY <4>1, <6>2
        <5>3. PICK k \in DOMAIN batch : /\ batch[k].user = v /\ db'[v].id = batch[k].id
                                        /\ \A j \in DOMAIN batch : batch[j].user = v => j <= k
          BY <3>1, <4>1, <5>1, CommitEffect
        <5>4. i <= k /\ k <= i
          <6>1. batch[k] \in Waiting
            BY DEF Waiting
          <6>2. batch[k].seq <= batch[i].seq
            BY <4>1, <5>1, <5>3, <6>1
          <6> QED BY <4>1, <5>1, <5>3, <6>2, WaitingOrder
        <5>5. i = k
          BY <5>4, WaitingOrder, LenProperties DEF TypeOK
        <5> QED BY <3>1, <4>1, <5>1, <5>2, <5>3, <5>5 DEF OnItsWay
      <4> QED BY <4>2, <4>3
    <3>5. CASE /\ \A e \in Waiting : e.user # v
               /\ cache[v] = db[v].id
      <4>1. \A i \in DOMAIN batch : batch[i].user # v
        BY <3>5 DEF Waiting
      <4>2. db'[v] = db[v]
        BY <3>1, <4>1, CommitEffect
      <4> QED BY <3>1, <3>3, <3>5, <4>2 DEF OnItsWay
    <3> QED BY <3>1, <3>2, <3>4, <3>5 DEF OnItsWay
  <2>8. CASE RecvUpdate
    BY <2>6, <2>8, ReceiveKeepsWaiting DEF RecvUpdate, dbVars
  <2>9. CASE UNCHANGED <<clientVars, dbVars, queue, batch>>
    BY <2>6, <2>9 DEF Waiting, dbVars
  <2>10. \/ \E c \in Clients : UpdateUser(c)
         \/ Flush \/ RecvUpdate
         \/ UNCHANGED <<clientVars, dbVars, queue, batch>>
    BY <2>1 DEF Next, Worker, StopInv, Tick, RecvDone, FlushShutdown, DrainRecv, FlushDrain,
           DrainEmpty, FlushFinal, Stop, StopCancel, StopWait, StopAgain, workerVars, vars
  <2> QED BY <2>3, <2>4, <2>5, <2>7, <2>8, <2>9, <2>10 DEF UpdateUser
<1> QED BY <1>1, <1>2, TypeCorrect, FifoOrder, StopOrder, WritersAreCounted, PTL DEF Spec

\* Whenever nothing is on its way, cache and database agree about every user with
\* one writer, except where the queue turned the last update away.
THEOREM CacheAgreesWhenFlushed == Spec => []CacheMatchesDbWhenFlushed
<1>1. TypeOK /\ WritersCounted /\ CacheOnItsWay => CacheMatchesDbWhenFlushed
  <2> SUFFICES ASSUME TypeOK, WritersCounted, CacheOnItsWay, ~DbMayFail, ~cancelled, Pending = {},
                      \A c \in Clients : client[c] = IdleCall,
                      NEW u \in Users, Cardinality(writers[u]) <= 1
               PROVE  cache[u] = db[u].id \/ cache[u] \in dropped
    BY DEF CacheMatchesDbWhenFlushed
  <2>1. OneWriter(u)
    <3> SUFFICES ASSUME NEW c \in writers[u], NEW d \in writers[u], c # d PROVE FALSE
      BY DEF OneWriter
    <3>1. IsFiniteSet(writers[u]) /\ {c, d} \subseteq writers[u]
      BY DEF WritersCounted
    <3>2. Cardinality({c, d}) <= Cardinality(writers[u]) /\ Cardinality(writers[u]) \in Nat
      BY <3>1, FS_Subset, FS_CardinalityType
    <3>3. IsFiniteSet({c}) /\ Cardinality({c}) = 1
      BY FS_Singleton
    <3>4. Cardinality({c} \cup {d}) = 2
      <4>1. d \notin {c}
        OBVIOUS
      <4>2. Cardinality({c} \cup {d}) = Cardinality({c}) + 1
        BY <3>3, <4>1, FS_AddElement
      <4> QED BY <3>3, <4>2
    <3>5. {c} \cup {d} = {c, d}
      OBVIOUS
    <3> QED BY <3>2, <3>4, <3>5
  <2>2. OnItsWay(u)
    BY <2>1 DEF CacheOnItsWay
  <2>3. Waiting = {}
    BY DEF Pending, Waiting
  <2>4. \A c \in Clients : ~Writing(c, u)
    BY DEF Writing, IdleCall
  <2> QED BY <2>2, <2>3, <2>4 DEF OnItsWay
<1> QED BY <1>1, TypeCorrect, WritersAreCounted, CacheIsOnItsWay, PTL

-----------------------------------------------------------------------------
(* The pipelines.                                                          *)

\* A nonempty set of natural numbers has a least element.
LEMMA LeastNumber ==
    ASSUME NEW T \in SUBSET Nat, T # {}
    PROVE  \E n \in T : \A m \in T : n <= m
<1>1. PICK n \in T : \A m \in T : ~(<<m, n>> \in OpToRel(<, Nat)) BY NatLessThanWellFounded, WFMin
<1>2. ASSUME NEW m \in T PROVE n <= m
  <2>1. ~(m < n) BY <1>1 DEF OpToRel
  <2> QED BY <2>1
<1> QED BY <1>2

\* The recursion over the stages: what stage i makes of a value is what it makes of what
\* the stage before it made.
LEMMA StageByStage ==
    ASSUME NEW v
    PROVE  /\ StageOut(v)[0] = v
           /\ \A i \in Stages : StageOut(v)[i] = Apply(i, StageOut(v)[i - 1])
<1> DEFINE Def(g, i) == IF i = 0 THEN v ELSE Apply(i, g[i - 1])
           Solves(g, n) == g = [i \in 0 .. n |-> Def(g, i)]
           T == {n \in Nat : ~ \E g : Solves(g, n)}
<1>1. \E g : Solves(g, 0)
  <2>1. Solves([i \in 0 .. 0 |-> v], 0) OBVIOUS
  <2> QED BY <2>1
<1>2. ASSUME NEW n \in Nat, \E g : Solves(g, n) PROVE \E g : Solves(g, n + 1)
  <2>1. PICK g : Solves(g, n) BY <1>2
  <2> DEFINE h == [i \in 0 .. n + 1 |-> IF i <= n THEN g[i] ELSE Apply(i, g[i - 1])]
  <2>2. \A i \in 0 .. n + 1 : h[i] = Def(h, i)
    <3> SUFFICES ASSUME NEW i \in 0 .. n + 1 PROVE h[i] = Def(h, i) OBVIOUS
    <3>1. CASE i = n + 1
      <4>1. h[n] = g[n] OBVIOUS
      <4> QED BY <3>1, <4>1
    <3>2. CASE i \in 1 .. n
      <4>1. h[i] = g[i] /\ h[i - 1] = g[i - 1] /\ i # 0 BY <3>2
      <4>2. g[i] = Apply(i, g[i - 1]) BY <2>1, <3>2
      <4> QED BY <4>1, <4>2
    <3>3. CASE i = 0
      <4>1. g[0] = v BY <2>1
      <4> QED BY <3>3, <4>1
    <3> QED BY <3>1, <3>2, <3>3
  <2>3. Solves(h, n + 1)
    <3>1. h = [i \in 0 .. n + 1 |-> h[i]] OBVIOUS
    <3> HIDE DEF h
    <3> QED BY <2>2, <3>1
  <2> QED BY <2>3
<1> HIDE DEF Solves
<1>3. T = {}
  <2> SUFFICES ASSUME T # {} PROVE FALSE OBVIOUS
  <2>1. PICK n \in T : \A m \in T : n <= m BY LeastNumber
  <2>2. n # 0 BY <1>1, <2>1
  <2>3. n - 1 \in Nat /\ n - 1 \notin T BY <2>1, <2>2
  <2>4. \E g : Solves(g, n - 1) BY <2>3
  <2>5. \E g : Solves(g, n - 1 + 1) BY <1>2, <2>3, <2>4
  <2>6. n - 1 + 1 = n BY <2>1
  <2> QED BY <2>1, <2>5, <2>6
<1>4. PLStages \in Nat BY PLAssumption
<1>5. \E g : Solves(g, PLStages) BY <1>3, <1>4
<1>6. StageOut(v) = CHOOSE g : Solves(g, PLStages) BY DEF StageOut, Solves
<1>7. Solves(StageOut(v), PLStages) BY <1>5, <1>6
<1> QED BY <1>4, <1>7 DEF Solves, Stages

PLTypeOK ==
    /\ plChecked \in BOOLEAN /\ plDone \in BOOLEAN
    /\ plPc \in [0 .. PLStages -> {"recv", "send", "closed"}]
    /\ plVal \in [Stages -> Nat]
    /\ plNext \in 0 .. Len(PLValues)
    /\ plGot \in Seq(Nat)

\* AddOnPipe: no channel is closed before quit is.
QuitFirst == ~plChecked /\ ~plDone => \A i \in 0 .. PLStages : plPc[i] # "closed"

\* c[i] is how many values stage i has taken, the consumer being the last: one more than
\* the next stage, if it holds one, and that is what it makes of its latest.
Counts(c) ==
    /\ c \in [1 .. PLStages + 1 -> 0 .. Len(PLValues)]
    /\ c[1] = plNext /\ c[PLStages + 1] = Len(plGot)
    /\ \A i \in Stages :
         IF plPc[i] = "send"
         THEN c[i] = c[i + 1] + 1 /\ plVal[i] = StageOut(PLValues[c[i]])[i]
         ELSE c[i] = c[i + 1]

InFlight == plChecked \/ ~plDone => (\E c : Counts(c)) /\ plGot = Expected(Len(plGot))

PLInv == PLTypeOK /\ QuitFirst /\ InFlight /\ OrNotSpurious

\* The pipeline is empty, and no channel is closed.
LEMMA PLInitInv == PLInit => PLInv
<1> SUFFICES ASSUME PLInit PROVE PLInv OBVIOUS
<1>1. Len(PLValues) \in Nat /\ PLStages \in Nat BY PLAssumption
<1>2. PLTypeOK BY <1>1 DEF PLInit, PLTypeOK, Stages
<1>3. QuitFirst /\ OrNotSpurious BY DEF PLInit, QuitFirst, OrNotSpurious
<1>4. Counts([i \in 1 .. PLStages + 1 |-> 0]) BY <1>1 DEF PLInit, Counts, Stages
<1>5. plGot = Expected(Len(plGot)) BY DEF PLInit, Expected
<1> QED BY <1>2, <1>3, <1>4, <1>5 DEF PLInv, InFlight

\* What stage i makes of a natural number is one.
LEMMA ApplyType == \A i \in Stages, v \in Nat : Apply(i, v) \in Nat
BY PLAssumption DEF Apply, Stages

\* A stage takes one more, and nobody is before it but the one that held it.
LEMMA PipeSteps ==
    ASSUME PLTypeOK, InFlight, PLTypeOK', UNCHANGED <<plChecked, plDone>>,
           NEW k \in 1 .. PLStages + 1,
           \A i \in Stages : i # k => plVal'[i] = plVal[i],
           \A i \in Stages : i # k /\ i # k - 1 => (plPc'[i] = "send" <=> plPc[i] = "send"),
           k > 1 => plPc[k - 1] = "send" /\ plPc'[k - 1] # "send",
           k = 1 => plNext < Len(PLValues) /\ plNext' = plNext + 1,
           k > 1 => UNCHANGED plNext,
           k <= PLStages => /\ plPc[k] # "send" /\ plPc'[k] = "send" /\ UNCHANGED plGot
                            /\ plVal'[k] = Apply(k, IF k = 1 THEN PLValues[plNext + 1] ELSE plVal[k - 1]),
           k = PLStages + 1 /\ Len(plGot) <= Len(PLValues) => plGot' = Append(plGot, plVal[PLStages])
    PROVE  InFlight'
<1> SUFFICES ASSUME plChecked \/ ~plDone
             PROVE  (\E c : Counts(c)') /\ plGot' = Expected(Len(plGot'))
  BY DEF InFlight
<1>0. PLStages \in Nat /\ PLStages > 0 /\ Len(PLValues) \in Nat
      /\ \A j \in 1 .. Len(PLValues) : PLValues[j] \in Nat
  BY PLAssumption
<1>1. PICK c : Counts(c) BY DEF InFlight
<1>2. /\ c \in [1 .. PLStages + 1 -> 0 .. Len(PLValues)]
      /\ c[1] = plNext /\ c[PLStages + 1] = Len(plGot)
  BY <1>1 DEF Counts
<1>3. \A i \in 1 .. PLStages :
        IF plPc[i] = "send"
        THEN c[i] = c[i + 1] + 1 /\ plVal[i] = StageOut(PLValues[c[i]])[i]
        ELSE c[i] = c[i + 1]
  BY <1>1 DEF Counts, Stages
<1> DEFINE d == [c EXCEPT ![k] = c[k] + 1]
<1>4. c[k] + 1 \in 0 .. Len(PLValues) /\ (k > 1 => c[k - 1] = c[k] + 1)
  <2>1. CASE k = 1 BY <1>0, <1>2, <2>1
  <2>2. CASE k > 1
    <3>1. k - 1 \in 1 .. PLStages /\ k - 1 + 1 = k BY <1>0, <2>2
    <3>2. c[k - 1] = c[k] + 1 BY <1>3, <2>2, <3>1
    <3> QED BY <1>0, <1>2, <3>1, <3>2
  <2> QED BY <1>0, <2>1, <2>2
<1>5. d \in [1 .. PLStages + 1 -> 0 .. Len(PLValues)] BY <1>2, <1>4
<1>6. /\ d[k] = c[k] + 1
      /\ \A i \in 1 .. PLStages + 1 : i # k => d[i] = c[i]
  BY <1>2
<1>7. CASE k <= PLStages
  <2>1. k \in 1 .. PLStages BY <1>0, <1>7
  <2>2. plGot' = plGot BY <1>7
  <2>3. d[1] = plNext' /\ d[PLStages + 1] = Len(plGot) BY <1>0, <1>2, <1>6, <2>1
  <2>4. plVal'[k] = StageOut(PLValues[d[k]])[k]
    <3>1. CASE k = 1
      <4>1. StageOut(PLValues[plNext + 1])[1] = Apply(1, StageOut(PLValues[plNext + 1])[1 - 1])
        BY <1>0, StageByStage DEF Stages
      <4>2. StageOut(PLValues[plNext + 1])[0] = PLValues[plNext + 1] BY StageByStage
      <4>3. 1 - 1 = 0 OBVIOUS
      <4>4. d[1] = plNext + 1 BY <1>2, <1>6, <3>1
      <4>5. plVal'[1] = Apply(1, PLValues[plNext + 1]) BY <1>7, <3>1
      <4> QED BY <3>1, <4>1, <4>2, <4>3, <4>4, <4>5
    <3>2. CASE k > 1
      <4>1. k - 1 \in 1 .. PLStages BY <1>0, <2>1, <3>2
      <4>2. plVal[k - 1] = StageOut(PLValues[c[k - 1]])[k - 1] BY <1>3, <3>2, <4>1
      <4>3. d[k] = c[k - 1] BY <1>4, <1>6, <3>2
      <4>4. StageOut(PLValues[d[k]])[k] = Apply(k, StageOut(PLValues[d[k]])[k - 1])
        BY <2>1, StageByStage DEF Stages
      <4>5. plVal'[k] = Apply(k, plVal[k - 1]) BY <1>7, <3>2
      <4> QED BY <4>2, <4>3, <4>4, <4>5
    <3> QED BY <2>1, <3>1, <3>2
  <2>5. ASSUME NEW i \in 1 .. PLStages
        PROVE  IF plPc'[i] = "send"
               THEN d[i] = d[i + 1] + 1 /\ plVal'[i] = StageOut(PLValues[d[i]])[i]
               ELSE d[i] = d[i + 1]
    <3>1. i + 1 \in 1 .. PLStages + 1 /\ i \in 1 .. PLStages + 1 /\ c[i + 1] \in Nat /\ c[i] \in Nat
      BY <1>0, <1>2
    <3>2. CASE i = k
      <4>1. d[i + 1] = c[i + 1] /\ c[i] = c[i + 1] BY <1>3, <1>6, <1>7, <3>1, <3>2
      <4> QED BY <1>6, <1>7, <2>4, <3>1, <3>2, <4>1
    <3>3. CASE i = k - 1
      <4>1. d[i] = c[i] /\ d[i + 1] = c[i + 1] + 1 /\ c[i] = c[i + 1] + 1 BY <1>4, <1>6, <3>1, <3>3
      <4>2. plPc'[i] # "send" BY <3>3
      <4> QED BY <3>1, <4>1, <4>2
    <3>4. CASE i # k /\ i # k - 1
      <4>1. d[i] = c[i] /\ d[i + 1] = c[i + 1] BY <1>6, <3>1, <3>4
      <4>2. (plPc'[i] = "send" <=> plPc[i] = "send") /\ plVal'[i] = plVal[i] BY <3>4 DEF Stages
      <4> QED BY <1>3, <4>1, <4>2
    <3> QED BY <3>2, <3>3, <3>4
  <2>6. Counts(d)'
    <3> HIDE DEF d
    <3> QED BY <1>5, <2>2, <2>3, <2>5 DEF Counts, Stages
  <2>7. plGot = Expected(Len(plGot)) BY DEF InFlight
  <2> QED BY <2>2, <2>6, <2>7
<1>8. CASE k = PLStages + 1
  <2>1. Len(plGot) < Len(PLValues) /\ Len(plGot) \in Nat BY <1>0, <1>2, <1>4, <1>8
  <2>2. plGot' = Append(plGot, plVal[PLStages]) /\ UNCHANGED plNext /\ plPc[PLStages] = "send"
    BY <1>0, <1>8, <2>1
  <2>3. plGot \in Seq(Nat) /\ plVal[PLStages] \in Nat BY <1>0 DEF PLTypeOK, Stages
  <2>4. /\ Len(plGot') = Len(plGot) + 1 /\ plGot'[Len(plGot) + 1] = plVal[PLStages]
        /\ \A j \in 1 .. Len(plGot) : plGot'[j] = plGot[j]
        /\ plGot' \in Seq(Nat)
    BY <2>2, <2>3, AppendProperties
  <2>5. d[1] = plNext' /\ d[PLStages + 1] = Len(plGot')
    <3>1. 1 \in 1 .. PLStages + 1 /\ 1 # k BY <1>0, <1>8
    <3>2. d[1] = c[1] BY <1>6, <3>1
    <3>3. d[PLStages + 1] = c[PLStages + 1] + 1 BY <1>6, <1>8
    <3> QED BY <1>2, <2>2, <2>4, <3>2, <3>3
  <2>6. ASSUME NEW i \in 1 .. PLStages
        PROVE  IF plPc'[i] = "send"
               THEN d[i] = d[i + 1] + 1 /\ plVal'[i] = StageOut(PLValues[d[i]])[i]
               ELSE d[i] = d[i + 1]
    <3>1. i + 1 \in 1 .. PLStages + 1 /\ i \in 1 .. PLStages + 1 /\ c[i + 1] \in Nat /\ c[i] \in Nat
      BY <1>0, <1>2
    <3>2. CASE i = PLStages
      <4>1. d[i] = c[i] /\ d[i + 1] = c[i + 1] + 1 /\ c[i] = c[i + 1] + 1
        BY <1>0, <1>4, <1>6, <1>8, <3>1, <3>2
      <4>2. plPc'[i] # "send" BY <1>0, <1>8, <3>2
      <4> QED BY <4>1, <4>2
    <3>3. CASE i # PLStages
      <4>1. d[i] = c[i] /\ d[i + 1] = c[i + 1] BY <1>0, <1>6, <1>8, <3>1, <3>3
      <4>2. (plPc'[i] = "send" <=> plPc[i] = "send") /\ plVal'[i] = plVal[i]
        BY <1>0, <1>8, <3>3 DEF Stages
      <4> QED BY <1>3, <4>1, <4>2
    <3> QED BY <3>2, <3>3
  <2>7. Counts(d)'
    <3> HIDE DEF d
    <3> QED BY <1>5, <2>5, <2>6 DEF Counts, Stages
  <2>8. plVal[PLStages] = StageOut(PLValues[Len(plGot) + 1])[PLStages]
    <3>1. c[PLStages] = Len(plGot) + 1 BY <1>0, <1>2, <1>3, <2>2
    <3> QED BY <1>0, <1>3, <2>2, <3>1
  <2>9. plGot' = Expected(Len(plGot'))
    <3>1. plGot = [j \in 1 .. Len(plGot) |-> StageOut(PLValues[j])[PLStages]]
      BY DEF InFlight, Expected
    <3>2. ASSUME NEW j \in 1 .. Len(plGot) + 1 PROVE plGot'[j] = StageOut(PLValues[j])[PLStages]
      <4>1. CASE j = Len(plGot) + 1 BY <2>4, <2>8, <4>1
      <4>2. CASE j \in 1 .. Len(plGot)
        <5>1. plGot[j] = StageOut(PLValues[j])[PLStages] BY <3>1, <4>2
        <5> QED BY <2>4, <4>2, <5>1
      <4> QED BY <2>1, <4>1, <4>2
    <3>3. plGot' = [j \in 1 .. Len(plGot) + 1 |-> plGot'[j]] BY <2>4
    <3> QED BY <2>4, <3>2, <3>3 DEF Expected
  <2> QED BY <2>7, <2>9
<1> QED BY <1>0, <1>7, <1>8

\* A step that hands nothing on.
LEMMA PipeStays ==
    ASSUME PLTypeOK, InFlight, UNCHANGED <<plChecked, plVal, plNext, plGot>>,
           plDone => plDone',
           \A i \in Stages : plPc'[i] = "send" <=> plPc[i] = "send"
    PROVE  InFlight'
<1> SUFFICES ASSUME (plChecked \/ ~plDone)' PROVE (\E c : Counts(c)') /\ (plGot = Expected(Len(plGot)))'
  BY DEF InFlight
<1>1. plChecked \/ ~plDone BY DEF PLTypeOK
<1>2. PICK c : Counts(c) BY <1>1 DEF InFlight
<1>3. Counts(c)' BY <1>2 DEF Counts
<1>4. (plGot = Expected(Len(plGot)))' BY <1>1 DEF InFlight, Expected
<1> QED BY <1>3, <1>4

\* A stage takes a value: the generator's next, or that of the stage before.
LEMMA HandOn == PLInv /\ (GenerateNext \/ \E i \in Stages : Hand(i)) => PLInv'
<1> SUFFICES ASSUME PLInv, GenerateNext \/ \E i \in Stages : Hand(i) PROVE PLInv' OBVIOUS
<1>0. /\ PLStages \in Nat /\ PLStages > 0 /\ Len(PLValues) \in Nat
      /\ \A j \in 1 .. Len(PLValues) : PLValues[j] \in Nat
  BY PLAssumption
<1>1. CASE GenerateNext
  <2>1. /\ plNext < Len(PLValues) /\ plPc[1] = "recv" /\ plNext' = plNext + 1
        /\ plPc' = [plPc EXCEPT ![1] = "send"]
        /\ plVal' = [plVal EXCEPT ![1] = Apply(1, PLValues[plNext + 1])]
        /\ UNCHANGED <<plChecked, plDone, plGot, orClosed>>
    BY <1>1 DEF GenerateNext, Takes
  <2>2. Apply(1, PLValues[plNext + 1]) \in Nat
    <3>1. PLValues[plNext + 1] \in Nat BY <1>0, <2>1 DEF PLInv, PLTypeOK
    <3>2. 1 \in Stages BY <1>0 DEF Stages
    <3> QED BY <3>1, <3>2, ApplyType
  <2>3. PLTypeOK'
    <3>1. plNext' \in 0 .. Len(PLValues) BY <1>0, <2>1 DEF PLInv, PLTypeOK
    <3>2. plVal' \in [Stages -> Nat] BY <2>1, <2>2 DEF PLInv, PLTypeOK
    <3>3. plPc' \in [0 .. PLStages -> {"recv", "send", "closed"}] BY <2>1 DEF PLInv, PLTypeOK
    <3> QED BY <2>1, <3>1, <3>2, <3>3 DEF PLInv, PLTypeOK
  <2>4. QuitFirst' BY <1>0, <2>1 DEF PLInv, PLTypeOK, QuitFirst
  <2>5. OrNotSpurious' BY <2>1 DEF PLInv, OrNotSpurious
  <2>6. /\ \A i \in Stages : i # 1 => plVal'[i] = plVal[i] /\ plPc'[i] = plPc[i]
        /\ plPc'[1] = "send" /\ plVal'[1] = Apply(1, PLValues[plNext + 1])
    BY <1>0, <2>1 DEF PLInv, PLTypeOK, Stages
  <2>7. 1 \in 1 .. PLStages + 1 /\ 1 <= PLStages BY <1>0
  <2>8. PLTypeOK /\ InFlight BY DEF PLInv
  <2>9. InFlight' BY <1>0, <2>1, <2>3, <2>6, <2>7, <2>8, PipeSteps
  <2> QED BY <2>3, <2>4, <2>5, <2>9 DEF PLInv
<1>2. ASSUME NEW i \in Stages, Hand(i) PROVE PLInv'
  <2>1. /\ i < PLStages /\ plPc[i] = "send" /\ plPc[i + 1] = "recv"
        /\ plPc' = [plPc EXCEPT ![i] = "recv", ![i + 1] = "send"]
        /\ plVal' = [plVal EXCEPT ![i + 1] = Apply(i + 1, plVal[i])]
        /\ UNCHANGED <<plChecked, plNext, plDone, plGot, orClosed>>
    BY <1>2 DEF Hand
  <2>2. i \in 1 .. PLStages /\ i + 1 \in 1 .. PLStages BY <1>0, <2>1 DEF Stages
  <2>3. Apply(i + 1, plVal[i]) \in Nat BY <2>2, ApplyType DEF PLInv, PLTypeOK, Stages
  <2>4. PLTypeOK' BY <1>0, <2>1, <2>2, <2>3 DEF PLInv, PLTypeOK
  <2>5. QuitFirst' BY <1>0, <2>1, <2>2 DEF PLInv, PLTypeOK, QuitFirst
  <2>6. OrNotSpurious' BY <2>1 DEF PLInv, OrNotSpurious
  <2> DEFINE k == i + 1
  <2>7. /\ \A j \in Stages : j # k => plVal'[j] = plVal[j]
        /\ \A j \in Stages : j # k /\ j # k - 1 => plPc'[j] = plPc[j]
        /\ plPc'[k] = "send" /\ plPc'[k - 1] = "recv" /\ plVal'[k] = Apply(k, plVal[k - 1])
        /\ plPc[k] = "recv" /\ plPc[k - 1] = "send"
    BY <1>0, <2>1, <2>2 DEF PLInv, PLTypeOK, Stages
  <2>8. k \in 1 .. PLStages + 1 /\ k <= PLStages /\ k > 1 /\ k # 1 BY <1>0, <2>2
  <2>9. PLTypeOK /\ InFlight BY DEF PLInv
  <2> HIDE DEF k
  <2>10. /\ ~(k = PLStages + 1) /\ ~(k = 1)
         /\ plVal'[k] = Apply(k, IF k = 1 THEN PLValues[plNext + 1] ELSE plVal[k - 1])
    BY <1>0, <2>7, <2>8
  <2>11. UNCHANGED <<plChecked, plDone, plNext, plGot>> BY <2>1
  <2>12. InFlight' BY <2>4, <2>7, <2>8, <2>9, <2>10, <2>11, PipeSteps
  <2> QED BY <2>4, <2>5, <2>6, <2>12 DEF PLInv
<1> QED BY <1>1, <1>2

\* The consumer takes what the last stage holds.
LEMMA ConsumeKeeps == PLInv /\ Consume => PLInv'
<1> SUFFICES ASSUME PLInv, Consume PROVE PLInv' OBVIOUS
<1>0. PLStages \in Nat /\ PLStages > 0 /\ Len(PLValues) \in Nat /\ PLStages \in Stages
  BY PLAssumption DEF Stages
<1>1. /\ plPc[PLStages] = "send" /\ plPc' = [plPc EXCEPT ![PLStages] = "recv"]
      /\ plGot' = IF Len(plGot) <= Len(PLValues) THEN Append(plGot, plVal[PLStages]) ELSE plGot
      /\ UNCHANGED <<plChecked, plVal, plNext, plDone, orClosed>>
  BY DEF Consume
<1>2. PLTypeOK'
  <2>1. plGot \in Seq(Nat) /\ plVal[PLStages] \in Nat BY <1>0 DEF PLInv, PLTypeOK
  <2>2. plGot' \in Seq(Nat) BY <1>1, <2>1, AppendProperties
  <2> QED BY <1>0, <1>1, <2>2 DEF PLInv, PLTypeOK
<1>3. QuitFirst' BY <1>0, <1>1 DEF PLInv, PLTypeOK, QuitFirst
<1>4. OrNotSpurious' BY <1>1 DEF PLInv, OrNotSpurious
<1> DEFINE k == PLStages + 1
<1>5. /\ \A j \in Stages : plVal'[j] = plVal[j]
      /\ \A j \in Stages : j # k /\ j # k - 1 => plPc'[j] = plPc[j]
      /\ plPc'[k - 1] = "recv" /\ plPc[k - 1] = "send"
  BY <1>0, <1>1 DEF PLInv, PLTypeOK, Stages
<1>6. k \in 1 .. PLStages + 1 /\ ~(k <= PLStages) /\ k > 1 /\ k # 1 BY <1>0
<1>7. PLTypeOK /\ InFlight BY DEF PLInv
<1>8. Len(plGot) <= Len(PLValues) => plGot' = Append(plGot, plVal[PLStages]) BY <1>1
<1> HIDE DEF k
<1>9. InFlight' BY <1>0, <1>1, <1>2, <1>5, <1>6, <1>7, <1>8, PipeSteps
<1> QED BY <1>2, <1>3, <1>4, <1>9 DEF PLInv

\* A channel is closed; what AddOnPipe reads from one, it reads after quit.
LEMMA CloseKeeps ==
    PLInv /\ (GeneratorEnds \/ \E i \in Stages : UpstreamClosed(i) \/ SeesDone(i)) => PLInv'
<1>0. PLStages \in Nat /\ PLStages > 0 /\ \A i \in Stages : i - 1 \in 0 .. PLStages /\ i \in 0 .. PLStages
  BY PLAssumption DEF Stages
<1>1. ASSUME PLInv, NEW i \in 0 .. PLStages, plPc[i] = "recv", plPc' = [plPc EXCEPT ![i] = "closed"],
             plChecked \/ plDone, UNCHANGED <<plChecked, plVal, plNext, plDone, plGot, orClosed>>
      PROVE  PLInv'
  <2>1. PLTypeOK' /\ QuitFirst' /\ OrNotSpurious'
    BY <1>1 DEF PLInv, PLTypeOK, QuitFirst, OrNotSpurious
  <2>2. \A j \in Stages : plPc'[j] = "send" <=> plPc[j] = "send" BY <1>0, <1>1 DEF PLInv, PLTypeOK
  <2>3. PLTypeOK /\ InFlight BY <1>1 DEF PLInv
  <2>4. InFlight' BY <1>1, <2>2, <2>3, PipeStays
  <2> QED BY <2>1, <2>4 DEF PLInv
<1>2. ASSUME PLInv, GeneratorEnds PROVE PLInv'
  <2>1. 0 \in 0 .. PLStages BY <1>0
  <2> QED BY <1>1, <1>2, <2>1 DEF GeneratorEnds
<1>3. ASSUME PLInv, NEW i \in Stages, SeesDone(i) PROVE PLInv'
  BY <1>0, <1>1, <1>3 DEF SeesDone
<1>4. ASSUME PLInv, NEW i \in Stages, UpstreamClosed(i) PROVE PLInv'
  <2>1. CASE plChecked
    BY <1>0, <1>1, <1>4, <2>1 DEF UpstreamClosed
  <2>2. CASE ~plChecked
    <3>1. /\ plPc[i - 1] = "closed" /\ plPc' = [plPc EXCEPT ![i] = "send"]
          /\ plVal' = [plVal EXCEPT ![i] = Apply(i, 0)]
          /\ UNCHANGED <<plChecked, plNext, plDone, plGot, orClosed>>
      BY <1>4, <2>2 DEF UpstreamClosed, Takes
    <3>2. plDone BY <1>0, <1>4, <2>2, <3>1 DEF PLInv, QuitFirst
    <3>3. Apply(i, 0) \in Nat BY ApplyType
    <3>4. PLTypeOK' BY <1>0, <1>4, <3>1, <3>3 DEF PLInv, PLTypeOK
    <3> QED BY <1>4, <2>2, <3>1, <3>2, <3>4 DEF PLInv, QuitFirst, InFlight, OrNotSpurious
  <2> QED BY <2>1, <2>2
<1> QED BY <1>2, <1>3, <1>4

\* The other steps of a pipeline, and those of Or: a call sees a channel that is closed.
LEMMA RestKeeps == PLInv /\ (Begin \/ Leave \/ CloseDone \/ OrNext \/ UNCHANGED plVars) => PLInv'
<1> SUFFICES ASSUME PLInv, Begin \/ Leave \/ CloseDone \/ OrNext \/ UNCHANGED plVars PROVE PLInv' OBVIOUS
<1>1. /\ UNCHANGED <<plChecked, plPc, plVal, plNext, plGot>>
      /\ plDone' = plDone \/ plDone' = TRUE
  BY DEF Begin, Leave, CloseDone, OrNext, CloseInput, OrSees, plVars
<1>2. PLTypeOK' /\ QuitFirst' BY <1>1 DEF PLInv, PLTypeOK, QuitFirst
<1>3. PLTypeOK /\ InFlight BY DEF PLInv
<1>4. InFlight' BY <1>1, <1>3, PipeStays
<1>5. OrNotSpurious'
  <2>1. CASE OrNext
    <3>1. OrNotSpurious BY DEF PLInv
    <3>2. CASE \E i \in 1 .. PLOrInputs : CloseInput(i) BY <3>1, <3>2 DEF OrNotSpurious, CloseInput
    <3>3. CASE \E j \in OrCalls : OrSees(j)
      <4>1. orClosed # {} /\ orClosed \subseteq orClosed' BY <3>3 DEF OrSees
      <4> QED BY <3>1, <4>1 DEF OrNotSpurious
    <3> QED BY <2>1, <3>2, <3>3 DEF OrNext
  <2>2. CASE UNCHANGED orClosed BY <2>2 DEF PLInv, OrNotSpurious
  <2> QED BY <2>1, <2>2 DEF Begin, Leave, CloseDone, plVars
<1> QED BY <1>2, <1>4, <1>5 DEF PLInv

\* Pipelines of any length over any values, and Or of any number of channels: the consumer
\* gets the results of the first values, in order and once each, however done races with
\* the stages, unless AddOnPipe is used and quit is closed; and Or closes nothing unless
\* one of its channels is closed.
THEOREM PipelinesAreRight == PLSpec => []PipelineResults
<1>1. PLInv /\ [PLNext]_plVars => PLInv'
  BY HandOn, ConsumeKeeps, CloseKeeps, RestKeeps DEF PLNext, PipeNext
<1>2. PLInv => PipelineResults
  <2> SUFFICES ASSUME PLInv PROVE PipelineResults OBVIOUS
  <2>1. ASSUME plChecked \/ ~plDone PROVE Len(plGot) <= Len(PLValues) /\ plGot = Expected(Len(plGot))
    <3>1. PICK c : Counts(c) BY <2>1 DEF PLInv, InFlight
    <3>2. PLStages + 1 \in 1 .. PLStages + 1 /\ Len(PLValues) \in Nat BY PLAssumption
    <3>3. Len(plGot) \in 0 .. Len(PLValues) BY <3>1, <3>2 DEF Counts
    <3> QED BY <2>1, <3>2, <3>3 DEF PLInv, InFlight
  <2> QED BY <2>1 DEF PLInv, PipelineResults, ResultsInOrder
<1> QED BY <1>1, <1>2, PLInitInv, PTL DEF PLSpec
=============================================================================
