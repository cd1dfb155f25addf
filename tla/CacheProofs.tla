----------------------------- MODULE CacheProofs -----------------------------
(***************************************************************************)
(* Proofs about the caches: CacheStrategies, for any sets of users, logs,  *)
(* clients and stoppers and any number of writes; SingleFlight, for any    *)
(* set of keys, callers and any number of calls; GeeCache, for any keys,   *)
(* clients, lengths and limit; GeePeers, for any nodes, keys and names.    *)
(***************************************************************************)
EXTENDS CacheStrategies, SingleFlight, GeeCache, GeePeers, SequenceTheorems, FiniteSetTheorems,
        WellFoundedInduction, TLAPS

-----------------------------------------------------------------------------
(* The strategies.                                                         *)


\* Only GetLog reads log entries, so no call for one caches a row that is not
\* there.
LogReaders ==
    \A c \in Clients : client[c].at \in {"lazy", "query"} /\ client[c].key \in Logs
                          => client[c].op = "getlog"

\* A log entry that is cached, or about to be, is the one in the database.
LogsAgree ==
    /\ \A l \in Logs : items[l].found => items[l].value = db[l] /\ db[l] # 0
    /\ \A c \in Clients : client[c].at = "fill" /\ client[c].key \in Logs
                             => client[c].value = db[client[c].key] /\ client[c].value # 0

\* For a key no write has raced on, a call about to cache it holds the current
\* row, and an item that is not current is about to be replaced.
UnracedAgree ==
    \A k \in Keys : k \notin raced =>
        /\ \A c \in Clients : Filling(c, k) => client[c].value = db[k]
        /\ items[k].found => items[k].value = db[k] \/ \E c \in Clients : Filling(c, k)

IInv == CSTypeOK /\ NeverAheadOfDb /\ LogReaders /\ LogsAgree /\ UnracedAgree

\* The cache starts empty and no call is under way.
LEMMA InitIInv == CSInit => IInv
<1> SUFFICES ASSUME CSInit PROVE IInv OBVIOUS
<1>1. \A k \in Keys : ~items[k].found BY DEF CSInit, CacheInit, NoItem
<1>2. \A c \in Clients : client[c].at = "idle" BY DEF CSInit, Idle
<1>3. CSTypeOK
  <2>1. /\ items \in [Keys -> CacheItem] /\ cleaner \in {"select", "returned"}
        /\ closed \in BOOLEAN /\ stopper \in [Stoppers -> {"idle", "waiting", "returned"}]
    BY DEF CSInit, CacheInit, CacheItem
  <2>2. db \in [Keys -> Nat] /\ \A l \in Logs : db[l] <= 1 BY KeysAreUsersAndLogs DEF CSInit
  <2>3. client \in [Clients -> Call] /\ raced \in SUBSET Users BY DEF CSInit, Call
  <2> QED BY <2>1, <2>2, <2>3 DEF CSTypeOK
<1>4. NeverAheadOfDb BY <1>1, <1>2 DEF NeverAheadOfDb
<1>5. LogReaders BY <1>2 DEF LogReaders
<1>6. LogsAgree BY <1>1, <1>2, KeysAreUsersAndLogs DEF LogsAgree
<1>7. UnracedAgree BY <1>1, <1>2 DEF UnracedAgree, Filling
<1> QED BY <1>3, <1>4, <1>5, <1>6, <1>7 DEF IInv

\* What the record of a call looks like in each of its states.
LEMMA CallShape ==
    ASSUME CSTypeOK, NEW c \in Clients
    PROVE  /\ client[c].at \in {"lazy", "query"} =>
                 client[c] \in [at : {"lazy", "query"}, op : Reads, key : Keys]
           /\ client[c].at = "fill" => client[c] \in [at : {"fill"}, key : Keys, value : Nat]
           /\ client[c] = Idle => client[c].at = "idle"
BY DEF CSTypeOK, Call, Idle

\* An item that is found has a value and an expiration.
LEMMA ItemShape ==
    ASSUME CSTypeOK, NEW k \in Keys, items[k].found
    PROVE  items[k] \in [found : {TRUE}, value : Nat, fresh : BOOLEAN]
<1>1. items[k] \in CacheItem BY DEF CSTypeOK
<1>2. NoItem.found = FALSE BY DEF NoItem
<1>3. items[k] # NoItem BY <1>2
<1> QED BY <1>1, <1>3 DEF CacheItem

\* A step that only removes items, lets them expire or moves the cleanup along
\* (Expire, Cleanup, LazyDelete) preserves what the invariant says of items.
LEMMA ItemsShrink ==
    ASSUME IInv,
           items' \in [Keys -> CacheItem],
           \A k \in Keys : items'[k].found => items[k].found /\ items'[k].value = items[k].value,
           UNCHANGED <<db, raced>>,
           client' \in [Clients -> Call],
           \A c \in Clients : client'[c].at = "fill" => client'[c] = client[c],
           \A c \in Clients : client[c].at = "fill" => client'[c] = client[c],
           LogReaders',
           cleaner' \in {"select", "returned"}, closed' \in BOOLEAN,
           stopper' \in [Stoppers -> {"idle", "waiting", "returned"}]
    PROVE  IInv'
<1> USE DEF IInv
<1>1. CSTypeOK' BY DEF CSTypeOK
<1>2. NeverAheadOfDb' BY DEF NeverAheadOfDb
<1>3. LogsAgree' BY KeysAreUsersAndLogs DEF LogsAgree
<1>4. \A c \in Clients, k \in Keys : Filling(c, k)' <=> Filling(c, k) BY DEF Filling
<1>5. \A c \in Clients, k \in Keys : Filling(c, k) => client'[c].value = client[c].value
  BY DEF Filling
<1>6. UnracedAgree' BY <1>4, <1>5 DEF UnracedAgree
<1> QED BY <1>1, <1>2, <1>3, <1>6

\* A cached item that has expired is no other item.
LEMMA CacheStepIInv == ASSUME IInv, CacheStep PROVE IInv'
<1> USE DEF IInv
<1>1. UNCHANGED <<db, client, raced>> BY DEF CacheStep
<1>2. LogReaders' BY <1>1 DEF LogReaders
<1>3. client' \in [Clients -> Call] BY <1>1 DEF CSTypeOK
<1>4. ASSUME NEW k \in Keys, Expire(k) PROVE IInv'
  <2>1. items[k] \in [found : {TRUE}, value : Nat, fresh : BOOLEAN]
    BY <1>4, ItemShape DEF Expire, GetHit
  <2>2. /\ items'[k] = [items[k] EXCEPT !.fresh = FALSE]
        /\ \A j \in Keys : j # k => items'[j] = items[j]
        /\ items' \in [Keys -> CacheItem]
    BY <1>4, <2>1 DEF Expire, CSTypeOK, CacheItem
  <2>3. items'[k].value = items[k].value /\ items[k].found BY <2>1, <2>2
  <2>4. \A j \in Keys : items'[j].found => items[j].found /\ items'[j].value = items[j].value
    BY <2>2, <2>3
  <2>5. UNCHANGED <<cleaner, closed, stopper>> BY <1>4 DEF Expire
  <2> QED BY <1>1, <1>2, <1>3, <2>2, <2>4, <2>5, ItemsShrink DEF CSTypeOK
<1>5. CASE Cleanup
  <2>1. items' \in [Keys -> CacheItem] BY <1>5 DEF Cleanup, CSTypeOK, CacheItem
  <2>2. \A j \in Keys : items'[j].found => items[j].found /\ items'[j].value = items[j].value
    BY <1>5 DEF Cleanup, NoItem
  <2>3. UNCHANGED <<cleaner, closed, stopper>> BY <1>5 DEF Cleanup
  <2> QED BY <1>1, <1>2, <1>3, <2>1, <2>2, <2>3, ItemsShrink DEF CSTypeOK
<1>6. CASE CleanupStops \/ \E s \in Stoppers : StopCleanup(s) \/ StopCleanupReturns(s)
  <2>1. items' = items BY <1>6 DEF CleanupStops, StopCleanup, StopCleanupReturns
  <2>2. /\ cleaner' \in {"select", "returned"} /\ closed' \in BOOLEAN
        /\ stopper' \in [Stoppers -> {"idle", "waiting", "returned"}]
    BY <1>6 DEF CleanupStops, StopCleanup, StopCleanupReturns, CSTypeOK
  <2>3. items' \in [Keys -> CacheItem] BY <2>1 DEF CSTypeOK
  <2> QED BY <1>1, <1>2, <1>3, <2>1, <2>2, <2>3, ItemsShrink
<1> QED BY <1>4, <1>5, <1>6 DEF CacheStep

\* The reading steps before the row is in hand: the call's record changes, and at
\* most an expired item goes.
LEMMA LookupIInv ==
    ASSUME IInv, NEW c \in Clients, NEW op \in Reads, NEW k \in KeysOf(op),
           ReadHit(c, op, k) \/ ReadExpired(c, op, k) \/ ReadMiss(c, op, k)
    PROVE  IInv'
<1> USE DEF IInv
<1>0. k \in Keys /\ (k \in Logs => op = "getlog") BY KeysAreUsersAndLogs DEF KeysOf
<1>1. CASE UNCHANGED csVars
  BY <1>1, ItemsShrink DEF csVars, cacheVars, CSTypeOK, LogReaders
<1>2. CASE ReadExpired(c, op, k) \/ ReadMiss(c, op, k)
  <2>1. UNCHANGED <<items, cleaner, closed, stopper, db, raced>> /\ client[c] = Idle
    BY <1>2 DEF ReadExpired, ReadMiss, cacheVars
  <2>2. PICK a \in {"lazy", "query"} :
           client' = [client EXCEPT ![c] = [at |-> a, op |-> op, key |-> k]]
    BY <1>2 DEF ReadExpired, ReadMiss
  <2>3. client'[c] = [at |-> a, op |-> op, key |-> k] /\ client[c].at = "idle"
    BY <2>1, <2>2, CallShape DEF CSTypeOK
  <2>4. client' \in [Clients -> Call] BY <1>0, <2>2 DEF CSTypeOK, Call
  <2>5. \A d \in Clients : d # c => client'[d] = client[d] BY <2>2 DEF CSTypeOK
  <2>6. LogReaders' BY <1>0, <2>3, <2>5 DEF LogReaders
  <2> QED BY <2>1, <2>3, <2>4, <2>5, <2>6, ItemsShrink DEF CSTypeOK
<1> QED BY <1>1, <1>2 DEF ReadHit

\* The lazy deletion, and a query that fails, preserve the invariant.
LEMMA LazyIInv ==
    ASSUME IInv, NEW c \in Clients, ReadLazyDelete(c) \/ QueryFails(c)
    PROVE  IInv'
<1> USE DEF IInv
<1>1. UNCHANGED <<cleaner, closed, stopper, db, raced>>
  BY DEF ReadLazyDelete, QueryFails, cacheVars
<1>2. client[c] \in [at : {"lazy", "query"}, op : Reads, key : Keys]
  BY CallShape DEF ReadLazyDelete, QueryFails
<1>3. /\ client' \in [Clients -> Call]
      /\ \A d \in Clients : d # c => client'[d] = client[d]
      /\ client'[c].at # "fill"
      /\ client'[c].at \in {"lazy", "query"} =>
            client'[c].op = client[c].op /\ client'[c].key = client[c].key
  BY <1>2 DEF ReadLazyDelete, QueryFails, CSTypeOK, Call, Idle
<1>4. LogReaders' BY <1>2, <1>3 DEF LogReaders
<1>5. items' \in [Keys -> CacheItem]
  BY <1>2 DEF ReadLazyDelete, QueryFails, LazyDelete, cacheVars, CSTypeOK, CacheItem
<1>6. \A j \in Keys : items'[j].found => items[j].found /\ items'[j].value = items[j].value
  BY <1>2 DEF ReadLazyDelete, QueryFails, LazyDelete, cacheVars, CSTypeOK, NoItem
<1> QED BY <1>1, <1>2, <1>3, <1>4, <1>5, <1>6, ItemsShrink DEF CSTypeOK

\* A query that finds no row, for a reader that does not cache the nil, ends the
\* call; otherwise the call holds the current row.
LEMMA QueryIInv ==
    ASSUME IInv, NEW c \in Clients, QueryNotFound(c) \/ QueryFound(c)
    PROVE  IInv'
<1> USE DEF IInv
<1> DEFINE k == client[c].key
<1>1. UNCHANGED <<items, cleaner, closed, stopper, db, raced>>
  BY DEF QueryNotFound, QueryFound, cacheVars
<1>2. client[c] \in [at : {"lazy", "query"}, op : Reads, key : Keys] /\ client[c].at = "query"
  BY CallShape DEF QueryNotFound, QueryFound
<1>3. \A d \in Clients : d # c => client'[d] = client[d]
  BY DEF QueryNotFound, QueryFound, CSTypeOK
<1>4. CASE client'[c] = Idle
  <2>1. client' \in [Clients -> Call] BY <1>4, <1>3 DEF QueryNotFound, QueryFound, CSTypeOK, Call
  <2>2. client'[c].at = "idle" BY <1>4 DEF Idle
  <2>3. LogReaders' BY <1>3, <2>2 DEF LogReaders
  <2> QED BY <1>1, <1>2, <1>3, <2>1, <2>2, <2>3, ItemsShrink DEF CSTypeOK
<1>5. CASE client'[c] = [at |-> "fill", key |-> k, value |-> db[k]] /\ (k \in Logs => db[k] # 0)
  <2>1. k \in Keys /\ db[k] \in Nat BY <1>2 DEF CSTypeOK
  <2>2. client' \in [Clients -> Call]
    <3>1. \E v \in Call : client' = [client EXCEPT ![c] = v]
      BY <2>1, <1>2 DEF QueryNotFound, QueryFound, Call
    <3> QED BY <3>1 DEF CSTypeOK
  <2>3. CSTypeOK' BY <1>1, <2>2 DEF CSTypeOK
  <2>4. NeverAheadOfDb' BY <1>1, <1>3, <1>5, <2>1 DEF NeverAheadOfDb
  <2>5. LogReaders' BY <1>3, <1>5 DEF LogReaders
  <2>6. LogsAgree' BY <1>1, <1>3, <1>5 DEF LogsAgree
  <2>7. \A d \in Clients, j \in Keys : Filling(d, j) => d # c BY <1>2 DEF Filling
  <2>8. \A d \in Clients, j \in Keys : d # c => (Filling(d, j)' <=> Filling(d, j))
    BY <1>3 DEF Filling
  <2>9. \A j \in Keys : Filling(c, j)' => j = k /\ client'[c].value = db[j]
    BY <1>5 DEF Filling
  <2>10. UnracedAgree' BY <1>1, <1>3, <2>7, <2>8, <2>9 DEF UnracedAgree
  <2> QED BY <2>3, <2>4, <2>5, <2>6, <2>10
<1>6. client'[c] = Idle \/ (client'[c] = [at |-> "fill", key |-> k, value |-> db[k]]
                            /\ (k \in Logs => db[k] # 0))
  <2>1. k \in Logs => client[c].op = "getlog" BY <1>2 DEF LogReaders
  <2> QED BY <1>2, <2>1 DEF QueryNotFound, QueryFound, CSTypeOK
<1> QED BY <1>4, <1>5, <1>6

\* Putting the row in the cache preserves the invariant.
LEMMA FillIInv == ASSUME IInv, NEW c \in Clients, Fill(c) PROVE IInv'
<1> USE DEF IInv
<1> DEFINE k == client[c].key  v == client[c].value
<1>1. UNCHANGED <<cleaner, closed, stopper, db, raced>> BY DEF Fill
<1>2. k \in Keys /\ v \in Nat /\ Filling(c, k) BY CallShape DEF Fill, Filling
<1>3. /\ items'[k] = [found |-> TRUE, value |-> v, fresh |-> TRUE]
      /\ \A j \in Keys : j # k => items'[j] = items[j]
      /\ items' \in [Keys -> CacheItem]
  BY <1>2 DEF Fill, Set, Item, CSTypeOK, CacheItem
<1>4. /\ client' \in [Clients -> Call] /\ client'[c].at = "idle"
      /\ \A d \in Clients : d # c => client'[d] = client[d]
  BY DEF Fill, CSTypeOK, Call, Idle
<1>5. CSTypeOK' BY <1>1, <1>3, <1>4 DEF CSTypeOK
<1>6. NeverAheadOfDb' BY <1>1, <1>2, <1>3, <1>4 DEF NeverAheadOfDb, Filling
<1>7. LogReaders' BY <1>4 DEF LogReaders
<1>8. LogsAgree' BY <1>1, <1>2, <1>3, <1>4, KeysAreUsersAndLogs DEF LogsAgree, Filling
<1>9. \A d \in Clients, j \in Keys : Filling(d, j)' => d # c /\ Filling(d, j) BY <1>4 DEF Filling
<1>10. \A d \in Clients, j \in Keys : j # k /\ Filling(d, j) => Filling(d, j)'
  BY <1>2, <1>4 DEF Filling
<1>11. UnracedAgree'
  <2> SUFFICES ASSUME NEW j \in Keys, j \notin raced
               PROVE  /\ \A d \in Clients : Filling(d, j)' => client'[d].value = db[j]
                      /\ items'[j].found => items'[j].value = db[j] \/ \E d \in Clients : Filling(d, j)'
    BY <1>1 DEF UnracedAgree
  <2>1. \A d \in Clients : Filling(d, j)' => client'[d].value = db[j]
    BY <1>4, <1>9 DEF UnracedAgree
  <2>2. CASE j = k BY <1>2, <1>3, <2>1, <2>2 DEF UnracedAgree
  <2>3. CASE j # k BY <1>3, <1>10, <2>1, <2>3 DEF UnracedAgree
  <2> QED BY <2>2, <2>3
<1> QED BY <1>5, <1>6, <1>7, <1>8, <1>11

\* A write of a user either races with a call that holds the old row, and is
\* recorded as such, or leaves its own call to replace the item.
LEMMA UpdateUserIInv ==
    ASSUME IInv, NEW c \in Clients, NEW u \in Users, UpdateUser(c, u)
    PROVE  IInv'
<1> USE DEF IInv
<1>0. u \in Keys /\ u \notin Logs BY KeysAreUsersAndLogs
<1>1. UNCHANGED <<items, cleaner, closed, stopper>> BY DEF UpdateUser, cacheVars
<1>2. /\ db'[u] = db[u] + 1 /\ \A j \in Keys : j # u => db'[j] = db[j]
      /\ db' \in [Keys -> Nat] /\ db[u] \in Nat
  BY <1>0 DEF UpdateUser, CSTypeOK
<1>3. client'[c] = [at |-> "fill", key |-> u, value |-> db'[u]] /\ client[c].at = "idle"
  BY <1>2, CallShape DEF UpdateUser, CSTypeOK
<1>4. client' \in [Clients -> Call] /\ \A d \in Clients : d # c => client'[d] = client[d]
  BY <1>0, <1>2 DEF UpdateUser, CSTypeOK, Call
<1>5. /\ raced' \in SUBSET Users /\ raced \subseteq raced'
      /\ u \notin raced' => ~\E d \in Clients : Filling(d, u)
      /\ \A j \in Keys : j # u /\ j \notin raced' => j \notin raced
  BY DEF UpdateUser, CSTypeOK
<1>6. CSTypeOK'
  <2>1. \A l \in Logs : db'[l] <= 1 BY <1>0, <1>2, KeysAreUsersAndLogs DEF CSTypeOK
  <2> QED BY <1>1, <1>2, <1>4, <1>5, <2>1 DEF CSTypeOK
<1>7. NeverAheadOfDb'
  <2>1. \A j \in Keys : db[j] <= db'[j] /\ db[j] \in Nat /\ db'[j] \in Nat BY <1>2 DEF CSTypeOK
  <2>2. \A j \in Keys : items[j].found => items[j].value \in Nat
    BY ItemShape
  <2>3. \A j \in Keys : items'[j].found => items'[j].value <= db'[j]
    BY <1>1, <2>1, <2>2 DEF NeverAheadOfDb
  <2>4. ASSUME NEW d \in Clients, client'[d].at = "fill"
        PROVE  client'[d].value <= db'[client'[d].key]
    <3>1. CASE d = c BY <1>2, <1>3, <3>1
    <3>2. CASE d # c
      <4>1. client'[d] = client[d] /\ client[d].key \in Keys /\ client[d].value \in Nat
        BY <1>4, <2>4, <3>2, CallShape
      <4> QED BY <2>1, <2>4, <4>1 DEF NeverAheadOfDb
    <3> QED BY <3>1, <3>2
  <2> QED BY <2>3, <2>4 DEF NeverAheadOfDb
<1>8. LogReaders' BY <1>3, <1>4 DEF LogReaders
<1>9. LogsAgree'
  <2>1. \A l \in Logs : db'[l] = db[l] BY <1>0, <1>2, KeysAreUsersAndLogs
  <2> QED BY <1>0, <1>1, <1>3, <1>4, <2>1 DEF LogsAgree
<1>10. \A d \in Clients, j \in Keys : d # c => (Filling(d, j)' <=> Filling(d, j))
  BY <1>4 DEF Filling
<1>11. Filling(c, u)' /\ \A j \in Keys : ~Filling(c, j) /\ (j # u => ~Filling(c, j)')
  BY <1>0, <1>3 DEF Filling
<1>12. UnracedAgree'
  <2> SUFFICES ASSUME NEW j \in Keys, j \notin raced'
               PROVE  /\ \A d \in Clients : Filling(d, j)' => client'[d].value = db'[j]
                      /\ items'[j].found => items'[j].value = db'[j] \/ \E d \in Clients : Filling(d, j)'
    BY DEF UnracedAgree
  <2>1. CASE j = u
    <3>1. \A d \in Clients : Filling(d, j)' => d = c BY <1>5, <1>10, <2>1
    <3> QED BY <1>3, <1>11, <2>1, <3>1
  <2>2. CASE j # u
    <3>1. j \notin raced /\ db'[j] = db[j] BY <1>2, <1>5, <2>2
    <3>2. \A d \in Clients : Filling(d, j)' <=> Filling(d, j) BY <1>10, <1>11, <2>2
    <3>3. \A d \in Clients : Filling(d, j) => client'[d] = client[d] BY <1>4, <1>11
    <3> QED BY <1>1, <3>1, <3>2, <3>3 DEF UnracedAgree
  <2> QED BY <2>1, <2>2
<1> QED BY <1>6, <1>7, <1>8, <1>9, <1>12

\* A log entry is inserted once, when nothing can be cached for it.
LEMMA WriteLogIInv ==
    ASSUME IInv, NEW c \in Clients, NEW l \in Logs, WriteLog(c, l)
    PROVE  IInv'
<1> USE DEF IInv
<1>0. l \in Keys BY KeysAreUsersAndLogs
<1>1. UNCHANGED <<items, cleaner, closed, stopper, client, raced>> BY DEF WriteLog, cacheVars
<1>2. /\ db[l] = 0 /\ db'[l] = 1 /\ \A j \in Keys : j # l => db'[j] = db[j]
      /\ db' \in [Keys -> Nat]
  BY <1>0 DEF WriteLog, CSTypeOK
<1>3. ~items[l].found /\ \A d \in Clients : ~Filling(d, l)
  BY <1>2 DEF LogsAgree, Filling
<1>4. CSTypeOK'
  <2>1. \A j \in Logs : db'[j] <= 1 BY <1>2, KeysAreUsersAndLogs DEF CSTypeOK
  <2> QED BY <1>1, <1>2, <2>1 DEF CSTypeOK
<1>5. \A d \in Clients : client[d].at = "fill" => client[d].key \in Keys /\ client[d].key # l
  BY <1>3, CallShape DEF Filling
<1>6. NeverAheadOfDb' BY <1>1, <1>2, <1>3, <1>5 DEF NeverAheadOfDb
<1>7. LogReaders' BY <1>1 DEF LogReaders
<1>8. LogsAgree' BY <1>1, <1>2, <1>3, <1>5, KeysAreUsersAndLogs DEF LogsAgree
<1>9. \A d \in Clients, j \in Keys : Filling(d, j)' <=> Filling(d, j) BY <1>1 DEF Filling
<1>10. UnracedAgree' BY <1>1, <1>2, <1>3, <1>9 DEF UnracedAgree
<1> QED BY <1>4, <1>6, <1>7, <1>8, <1>10

\* Every step of every strategy preserves the invariant.
LEMMA NextIInv == IInv /\ [CSNext]_csVars => IInv'
<1> SUFFICES ASSUME IInv, [CSNext]_csVars PROVE IInv' OBVIOUS
<1>1. ASSUME NEW c \in Clients, Read(c) PROVE IInv'
  BY <1>1, LookupIInv, LazyIInv, QueryIInv DEF Read
<1>2. ASSUME NEW c \in Clients, Fill(c) PROVE IInv' BY <1>2, FillIInv
<1>3. ASSUME NEW c \in Clients, Write(c) PROVE IInv'
  BY <1>3, UpdateUserIInv, WriteLogIInv DEF Write
<1>4. CASE CacheStep BY <1>4, CacheStepIInv
<1>5. CASE UNCHANGED csVars
  BY <1>5 DEF IInv, csVars, cacheVars, CSTypeOK, NeverAheadOfDb, LogReaders, LogsAgree, UnracedAgree, Filling
<1> QED BY <1>1, <1>2, <1>3, <1>4, <1>5 DEF CSNext

\* The inductive invariant holds in every reachable state.
THEOREM Invariance == CSSpec => []IInv
BY InitIInv, NextIInv, PTL DEF CSSpec

\* The cache never runs ahead of the database.
THEOREM DatabaseFirst == CSSpec => []NeverAheadOfDb
<1>1. IInv => NeverAheadOfDb BY DEF IInv
<1> QED BY <1>1, Invariance, PTL

\* Cache and database agree about a key unless a write raced with a fill.
THEOREM Agreement == CSSpec => []AgreesUnlessRaced
<1>1. IInv => AgreesUnlessRaced BY DEF IInv, UnracedAgree, AgreesUnlessRaced
<1> QED BY <1>1, Invariance, PTL

\* A cached log entry is the one in the database.
THEOREM LogsAreCurrent == CSSpec => []LogsNeverStale
<1>1. IInv => LogsNeverStale BY DEF IInv, LogsAgree, LogsNeverStale
<1> QED BY <1>1, Invariance, PTL

\* No step removes a fresh item.
THEOREM FreshKept == CSSpec => FreshItemsStay
<1> DEFINE A == \A k \in Keys : GetHit(k) => items'[k].found
<1>1. ASSUME CSTypeOK, [CSNext]_csVars PROVE [A]_csVars
  <2> SUFFICES ASSUME CSNext, NEW k \in Keys, GetHit(k) PROVE items'[k].found
    BY <1>1
  <2>0. items[k].found BY DEF GetHit
  <2>1. ASSUME NEW c \in Clients, Read(c) PROVE items'[k].found
    <3>1. CASE ReadLazyDelete(c)
      BY <1>1, <2>0, <3>1 DEF ReadLazyDelete, LazyDelete, Expired, GetHit, CSTypeOK
    <3>2. CASE ~ReadLazyDelete(c)
      BY <2>0, <2>1, <3>2 DEF Read, ReadHit, ReadExpired, ReadMiss, QueryFails, QueryNotFound,
         QueryFound, csVars, cacheVars
    <3> QED BY <3>1, <3>2
  <2>2. ASSUME NEW c \in Clients, Fill(c) PROVE items'[k].found
    BY <1>1, <2>0, <2>2 DEF Fill, Set, Item, CSTypeOK
  <2>3. ASSUME NEW c \in Clients, Write(c) PROVE items'[k].found
    BY <2>0, <2>3 DEF Write, UpdateUser, WriteLog, cacheVars
  <2>4. ASSUME NEW j \in Keys, Expire(j) PROVE items'[k].found
    <3>1. CASE j = k
      <4>1. items[k] \in [found : {TRUE}, value : Nat, fresh : BOOLEAN]
        BY <1>1, <2>0, ItemShape
      <4> QED BY <1>1, <2>4, <3>1, <4>1 DEF Expire, CSTypeOK
    <3>2. CASE j # k BY <1>1, <2>0, <2>4, <3>2 DEF Expire, CSTypeOK
    <3> QED BY <3>1, <3>2
  <2>5. CASE Cleanup BY <2>0, <2>5 DEF Cleanup, Expired, GetHit
  <2>6. CASE CleanupStops \/ \E s \in Stoppers : StopCleanup(s) \/ StopCleanupReturns(s)
    BY <2>0, <2>6 DEF CleanupStops, StopCleanup, StopCleanupReturns
  <2> QED BY <2>1, <2>2, <2>3, <2>4, <2>5, <2>6 DEF CSNext, CacheStep
<1>2. IInv => CSTypeOK BY DEF IInv
<1> QED BY <1>1, <1>2, Invariance, PTL DEF CSSpec, FreshItemsStay

\* The strategies keep cache and database in agreement, for any number of goroutines.
THEOREM CachesInAgreement == CSSpec => CachesAgree
<1>1. CSSpec => [](NeverAheadOfDb /\ AgreesUnlessRaced /\ LogsNeverStale)
  BY DatabaseFirst, Agreement, LogsAreCurrent, PTL
<1> QED BY <1>1, FreshKept DEF CachesAgree

-----------------------------------------------------------------------------
(* geecache's singleflight.                                                *)


Leads(p) == caller[p].at \in Leading

\* A first caller's call stays registered until that caller deletes it.
Registered == \A p \in SFCallers : Leads(p) => m[caller[p].key] = caller[p].call

\* A call has one first caller.
OneLeader == \A p, q \in SFCallers :
                Leads(p) /\ Leads(q) /\ caller[p].call = caller[q].call => p = q

\* A registered call has a first caller that has not returned.
HasLeader == \A k \in SFKeys : m[k] # 0 =>
                \E p \in SFCallers : Leads(p) /\ caller[p].key = k /\ caller[p].call = m[k]

\* A call whose first caller has returned has no first caller under way.
LeaderNotOver == \A p \in SFCallers : Leads(p) => caller[p].call \notin over

\* wg.Done comes after the assignment of val and err.
DoneIsFilled ==
    /\ done \subseteq filled
    /\ \A p \in SFCallers : caller[p].at \in {"filled", "delete"} => caller[p].call \in filled

SFInv == SFTypeOK /\ Registered /\ OneLeader /\ HasLeader /\ LeaderNotOver /\ DoneIsFilled

\* The initial state of Do's group satisfies the inductive invariant.
LEMMA SFInitInv == SFInit => SFInv
<1> SUFFICES ASSUME SFInit PROVE SFInv OBVIOUS
<1>1. SFTypeOK BY MaxCallsIsNat DEF SFInit, SFTypeOK, SFIdle
<1>2. \A p \in SFCallers : ~Leads(p) BY DEF SFInit, Leads, SFIdle, Leading
<1>3. \A k \in SFKeys : m[k] = 0 BY DEF SFInit
<1>4. done \subseteq filled /\ \A p \in SFCallers : caller[p].at = "idle" BY DEF SFInit, SFIdle
<1> QED BY <1>1, <1>2, <1>3, <1>4 DEF SFInv, Registered, OneLeader, HasLeader, LeaderNotOver, DoneIsFilled

\* What a caller record looks like outside Do and inside it.
LEMMA CallerShape ==
    ASSUME SFTypeOK, NEW p \in SFCallers
    PROVE  /\ caller[p].call \in Nat
           /\ caller[p] # SFIdle => caller[p] \in [at : At, key : SFKeys, call : Nat \ {0}]
           /\ caller[p].at # "idle" => caller[p] # SFIdle
           /\ caller[p] = SFIdle => ~Leads(p) /\ caller[p].at = "idle" /\ caller[p].call = 0
BY DEF SFTypeOK, SFIdle, Leads, Leading

\* A Join (a caller that finds the call registered) preserves the invariant.
LEMMA JoinStep ==
    ASSUME SFInv, NEW p \in SFCallers, NEW k \in SFKeys, Join(p, k)
    PROVE  SFInv'
<1> USE DEF SFInv
<1>1. UNCHANGED <<m, sfCalls, done, filled, over>> BY DEF Join
<1>2. caller'[p] = [at |-> "wait", key |-> k, call |-> m[k]] BY DEF Join, SFTypeOK
<1>3. \A q \in SFCallers : q # p => caller'[q] = caller[q] BY DEF Join, SFTypeOK
<1>4. ~Leads(p) /\ ~Leads(p)' BY <1>2, CallerShape DEF Join, Leads, Leading
<1>5. \A q \in SFCallers : Leads(q)' <=> Leads(q) BY <1>3, <1>4 DEF Leads
<1>6. SFTypeOK'
  <2>1. m[k] \in Nat \ {0} /\ m[k] <= sfCalls BY DEF Join, SFTypeOK
  <2>2. caller' \in [SFCallers -> {SFIdle} \cup [at : At, key : SFKeys, call : Nat \ {0}]]
    BY <2>1 DEF SFTypeOK, Join, At
  <2>3. \A q \in SFCallers : caller'[q].call <= sfCalls BY <1>2, <1>3, <2>1 DEF SFTypeOK
  <2> QED BY <1>1, <2>2, <2>3 DEF SFTypeOK
<1>7. Registered' BY <1>1, <1>3, <1>4, <1>5 DEF Registered
<1>8. OneLeader' BY <1>3, <1>4, <1>5 DEF OneLeader
<1>9. HasLeader' BY <1>1, <1>3, <1>4, <1>5 DEF HasLeader
<1>10. LeaderNotOver' BY <1>1, <1>3, <1>4, <1>5 DEF LeaderNotOver
<1>11. DoneIsFilled' BY <1>1, <1>2, <1>3 DEF DoneIsFilled
<1> QED BY <1>6, <1>7, <1>8, <1>9, <1>10, <1>11

\* A Lead (a caller that registers a new call) preserves the invariant: the new
\* call's number is larger than every number in use.
LEMMA LeadStep ==
    ASSUME SFInv, NEW p \in SFCallers, NEW k \in SFKeys, Lead(p, k)
    PROVE  SFInv'
<1> USE DEF SFInv
<1> DEFINE n == sfCalls + 1
<1>0. sfCalls \in Nat /\ sfCalls' = n /\ n \in Nat \ {0} BY DEF Lead, SFTypeOK
<1>1. UNCHANGED <<done, filled, over>> BY DEF Lead
<1>2. caller'[p] = [at |-> "run", key |-> k, call |-> n] BY DEF Lead, SFTypeOK
<1>3. \A q \in SFCallers : q # p => caller'[q] = caller[q] BY DEF Lead, SFTypeOK
<1>4. ~Leads(p) /\ Leads(p)' BY <1>2, CallerShape DEF Lead, Leads, Leading
<1>5. \A q \in SFCallers : q # p => (Leads(q)' <=> Leads(q)) BY <1>3 DEF Leads
<1>6. m'[k] = n /\ m[k] = 0 /\ \A j \in SFKeys : j # k => m'[j] = m[j] BY DEF Lead, SFTypeOK
<1>7. \A q \in SFCallers : caller[q].call \in Nat /\ caller[q].call <= sfCalls
  BY CallerShape DEF SFTypeOK
<1>8. \A q \in SFCallers : Leads(q) => caller[q].key \in SFKeys /\ caller[q].call # 0
  BY CallerShape
<1>9. \A q \in SFCallers : Leads(q) => caller[q].key # k BY <1>6, <1>8 DEF Registered
<1>10. SFTypeOK'
  <2>1. m' \in [SFKeys -> Nat] BY <1>0 DEF SFTypeOK, Lead
  <2>2. caller' \in [SFCallers -> {SFIdle} \cup [at : At, key : SFKeys, call : Nat \ {0}]]
    BY <1>0 DEF SFTypeOK, Lead, At
  <2>3. \A q \in SFCallers : caller'[q].call <= sfCalls' BY <1>0, <1>2, <1>3, <1>7
  <2>4. \A j \in SFKeys : m'[j] <= sfCalls' BY <1>0, <1>6 DEF SFTypeOK
  <2>5. 1..sfCalls \subseteq 1..n BY <1>0
  <2> QED BY <1>0, <1>1, <2>1, <2>2, <2>3, <2>4, <2>5 DEF SFTypeOK
<1>11. Registered' BY <1>2, <1>3, <1>5, <1>6, <1>8, <1>9 DEF Registered
<1>12. OneLeader'
  <2>1. \A q \in SFCallers : q # p => caller'[q].call # n BY <1>0, <1>3, <1>7
  <2> QED BY <1>2, <1>3, <1>5, <2>1 DEF OneLeader
<1>13. HasLeader'
  <2> SUFFICES ASSUME NEW j \in SFKeys, m'[j] # 0
               PROVE  \E q \in SFCallers : Leads(q)' /\ caller'[q].key = j /\ caller'[q].call = m'[j]
    BY DEF HasLeader
  <2>1. CASE j = k BY <1>2, <1>4, <1>6, <2>1
  <2>2. CASE j # k
    <3>1. PICK q \in SFCallers : Leads(q) /\ caller[q].key = j /\ caller[q].call = m[j]
      BY <1>6, <2>2 DEF HasLeader
    <3> QED BY <1>3, <1>4, <1>5, <1>6, <2>2, <3>1
  <2> QED BY <2>1, <2>2
<1>14. LeaderNotOver'
  <2>1. n \notin over BY <1>0 DEF SFTypeOK
  <2> QED BY <1>1, <1>2, <1>3, <1>5, <2>1 DEF LeaderNotOver
<1>15. DoneIsFilled' BY <1>1, <1>2, <1>3 DEF DoneIsFilled
<1> QED BY <1>10, <1>11, <1>12, <1>13, <1>14, <1>15

\* The steps of a first caller between fn and the deletion preserve the
\* invariant: the result is stored before the WaitGroup is done.
LEMMA LeaderStep ==
    ASSUME SFInv, NEW p \in SFCallers, FnReturns(p) \/ WgDone(p)
    PROVE  SFInv'
<1> USE DEF SFInv
<1> DEFINE c == caller[p].call
<1>1. UNCHANGED <<m, sfCalls, over>> BY DEF FnReturns, WgDone
<1>2. Leads(p) /\ caller[p] \in [at : At, key : SFKeys, call : Nat \ {0}]
  BY CallerShape DEF FnReturns, WgDone, Leads, Leading
<1>3. /\ caller' \in [SFCallers -> {SFIdle} \cup [at : At, key : SFKeys, call : Nat \ {0}]]
      /\ caller'[p].key = caller[p].key /\ caller'[p].call = c
      /\ caller'[p].at \in {"filled", "delete"}
  BY <1>2 DEF FnReturns, WgDone, SFTypeOK, At
<1>4. \A q \in SFCallers : q # p => caller'[q] = caller[q] BY DEF FnReturns, WgDone, SFTypeOK
<1>5. \A q \in SFCallers : Leads(q)' <=> Leads(q) BY <1>2, <1>3, <1>4 DEF Leads, Leading
<1>6. \A q \in SFCallers : caller'[q].key = caller[q].key /\ caller'[q].call = caller[q].call
  BY <1>3, <1>4
<1>7. filled \subseteq filled' /\ done' \subseteq filled' /\ c \in filled'
  BY <1>1 DEF FnReturns, WgDone, DoneIsFilled
<1>8. SFTypeOK'
  <2>1. c \in 1..sfCalls BY <1>2 DEF SFTypeOK
  <2>2. done' \subseteq 1..sfCalls /\ filled' \subseteq 1..sfCalls
    BY <2>1 DEF SFTypeOK, FnReturns, WgDone
  <2> QED BY <1>1, <1>3, <1>6, <2>2 DEF SFTypeOK
<1>9. Registered' BY <1>1, <1>5, <1>6 DEF Registered
<1>10. OneLeader' BY <1>5, <1>6 DEF OneLeader
<1>11. HasLeader' BY <1>1, <1>5, <1>6 DEF HasLeader
<1>12. LeaderNotOver' BY <1>1, <1>5, <1>6 DEF LeaderNotOver
<1>13. DoneIsFilled' BY <1>3, <1>4, <1>7 DEF DoneIsFilled
<1> QED BY <1>8, <1>9, <1>10, <1>11, <1>12, <1>13

\* The deletion preserves the invariant: it removes the caller's own call.
LEMMA DeleteStep ==
    ASSUME SFInv, NEW p \in SFCallers, DeleteAndReturn(p)
    PROVE  SFInv'
<1> USE DEF SFInv
<1> DEFINE c == caller[p].call  k == caller[p].key
<1>1. UNCHANGED <<sfCalls, done, filled>> /\ over' = over \cup {c} BY DEF DeleteAndReturn
<1>2. Leads(p) /\ k \in SFKeys /\ c \in Nat \ {0}
  BY CallerShape DEF DeleteAndReturn, Leads, Leading
<1>3. caller'[p] = SFIdle /\ ~Leads(p)' BY DEF DeleteAndReturn, SFTypeOK, Leads, Leading, SFIdle
<1>4. \A q \in SFCallers : q # p => caller'[q] = caller[q] BY DEF DeleteAndReturn, SFTypeOK
<1>5. \A q \in SFCallers : q # p => (Leads(q)' <=> Leads(q)) BY <1>4 DEF Leads
<1>6. m'[k] = 0 /\ \A j \in SFKeys : j # k => m'[j] = m[j] BY <1>2 DEF DeleteAndReturn, SFTypeOK
<1>7. \A q \in SFCallers : Leads(q) => caller[q].key \in SFKeys BY CallerShape
<1>8. \A q \in SFCallers : q # p /\ Leads(q) => caller[q].call # c BY <1>2 DEF OneLeader
<1>9. \A q \in SFCallers : q # p /\ Leads(q) => caller[q].key # k
  BY <1>2, <1>8 DEF Registered
<1>10. SFTypeOK'
  <2>1. m' \in [SFKeys -> Nat] /\ \A j \in SFKeys : m'[j] <= sfCalls
    BY <1>2, <1>6 DEF SFTypeOK, DeleteAndReturn
  <2>2. caller' \in [SFCallers -> {SFIdle} \cup [at : At, key : SFKeys, call : Nat \ {0}]]
    BY DEF SFTypeOK, DeleteAndReturn
  <2>3. \A q \in SFCallers : caller'[q].call <= sfCalls BY <1>3, <1>4 DEF SFTypeOK, SFIdle
  <2>4. c <= sfCalls /\ sfCalls \in Nat BY DEF SFTypeOK
  <2>5. c \in 1..sfCalls BY <1>2, <2>4
  <2>6. over' \subseteq 1..sfCalls BY <1>1, <2>5 DEF SFTypeOK
  <2> QED BY <1>1, <2>1, <2>2, <2>3, <2>6 DEF SFTypeOK
<1>11. Registered' BY <1>3, <1>4, <1>5, <1>6, <1>7, <1>9 DEF Registered
<1>12. OneLeader' BY <1>3, <1>4, <1>5 DEF OneLeader
<1>13. HasLeader'
  <2> SUFFICES ASSUME NEW j \in SFKeys, m'[j] # 0
               PROVE  \E q \in SFCallers : Leads(q)' /\ caller'[q].key = j /\ caller'[q].call = m'[j]
    BY DEF HasLeader
  <2>1. j # k /\ m'[j] = m[j] BY <1>6
  <2>2. PICK q \in SFCallers : Leads(q) /\ caller[q].key = j /\ caller[q].call = m[j]
    BY <2>1 DEF HasLeader
  <2> QED BY <1>4, <1>5, <2>1, <2>2
<1>14. LeaderNotOver' BY <1>1, <1>3, <1>4, <1>5, <1>8 DEF LeaderNotOver
<1>15. DoneIsFilled' BY <1>1, <1>3, <1>4 DEF DoneIsFilled, SFIdle
<1> QED BY <1>10, <1>11, <1>12, <1>13, <1>14, <1>15

\* A waiter that returns preserves the invariant.
LEMMA WaitStep ==
    ASSUME SFInv, NEW p \in SFCallers, WaitReturns(p)
    PROVE  SFInv'
<1> USE DEF SFInv
<1>1. UNCHANGED <<m, sfCalls, done, filled, over>> BY DEF WaitReturns
<1>2. caller'[p] = SFIdle BY DEF WaitReturns, SFTypeOK
<1>3. \A q \in SFCallers : q # p => caller'[q] = caller[q] BY DEF WaitReturns, SFTypeOK
<1>4. ~Leads(p) /\ ~Leads(p)' BY <1>2 DEF WaitReturns, Leads, Leading, SFIdle
<1>5. \A q \in SFCallers : Leads(q)' <=> Leads(q) BY <1>3, <1>4 DEF Leads
<1>6. SFTypeOK'
  <2>1. caller' \in [SFCallers -> {SFIdle} \cup [at : At, key : SFKeys, call : Nat \ {0}]]
    BY DEF SFTypeOK, WaitReturns
  <2>2. \A q \in SFCallers : caller'[q].call <= sfCalls BY <1>2, <1>3 DEF SFTypeOK, SFIdle
  <2> QED BY <1>1, <2>1, <2>2 DEF SFTypeOK
<1>7. Registered' BY <1>1, <1>3, <1>4, <1>5 DEF Registered
<1>8. OneLeader' BY <1>3, <1>4, <1>5 DEF OneLeader
<1>9. HasLeader' BY <1>1, <1>3, <1>4, <1>5 DEF HasLeader
<1>10. LeaderNotOver' BY <1>1, <1>3, <1>4, <1>5 DEF LeaderNotOver
<1>11. DoneIsFilled' BY <1>1, <1>2, <1>3 DEF DoneIsFilled, SFIdle
<1> QED BY <1>6, <1>7, <1>8, <1>9, <1>10, <1>11

\* The invariant only mentions the module's variables.
LEMMA StutterStep == SFInv /\ UNCHANGED sfVars => SFInv'
BY DEF SFInv, sfVars, SFTypeOK, Registered, OneLeader, HasLeader, LeaderNotOver, DoneIsFilled, Leads

\* Every step of every Do preserves the invariant.
LEMMA SFNextInv == SFInv /\ [SFNext]_sfVars => SFInv'
<1> SUFFICES ASSUME SFInv, [SFNext]_sfVars PROVE SFInv' OBVIOUS
<1>1. CASE UNCHANGED sfVars BY <1>1, StutterStep
<1>2. CASE SFNext
  <2>1. PICK p \in SFCallers : Do(p) BY <1>2 DEF SFNext
  <2>2. CASE \E k \in SFKeys : Join(p, k) \/ Lead(p, k) BY <2>2, JoinStep, LeadStep
  <2>3. CASE FnReturns(p) \/ WgDone(p) BY <2>3, LeaderStep
  <2>4. CASE DeleteAndReturn(p) BY <2>4, DeleteStep
  <2>5. CASE WaitReturns(p) BY <2>5, WaitStep
  <2> QED BY <2>1, <2>2, <2>3, <2>4, <2>5 DEF Do
<1> QED BY <1>1, <1>2

\* The inductive invariant of Do holds in every reachable state.
THEOREM SFInvariance == SFSpec => []SFInv
BY SFInitInv, SFNextInv, PTL DEF SFSpec

\* Types are right in every reachable state.
THEOREM TypeCorrect == SFSpec => []SFTypeOK
<1>1. SFInv => SFTypeOK BY DEF SFInv
<1> QED BY <1>1, SFInvariance, PTL

\* fn never runs twice at the same time for one key.
THEOREM SingleExecution == SFSpec => []OneFlight
<1>1. SFInv => OneFlight BY DEF SFInv, OneFlight, Registered, OneLeader, Leads, Leading
<1> QED BY <1>1, SFInvariance, PTL

\* A caller that waited returns what fn produced.
THEOREM SharedResult == SFSpec => WaiterGetsResult
<1> DEFINE A == \A p \in SFCallers :
                   caller[p].at = "wait" /\ caller'[p] = SFIdle => caller[p].call \in filled
<1>1. ASSUME SFInv, SFNext PROVE A
  <2> SUFFICES ASSUME NEW p \in SFCallers, caller[p].at = "wait", caller'[p] = SFIdle
               PROVE  caller[p].call \in filled
    OBVIOUS
  <2>1. PICK q \in SFCallers : Do(q) BY <1>1 DEF SFNext
  <2>2. caller'[p] # caller[p] BY DEF SFIdle
  <2>3. q = p
    BY <1>1, <2>1, <2>2 DEF SFInv, SFTypeOK, Do, Join, Lead, FnReturns, WgDone, DeleteAndReturn, WaitReturns
  <2>4. WaitReturns(p)
    BY <2>1, <2>3 DEF Do, Join, Lead, FnReturns, WgDone, DeleteAndReturn, SFIdle
  <2> QED BY <1>1, <2>4 DEF WaitReturns, SFInv, DoneIsFilled
<1>2. SFInv /\ [SFNext]_sfVars => [A]_sfVars BY <1>1
<1> QED BY <1>2, SFInvariance, PTL DEF SFSpec, WaiterGetsResult

\* A Do that begins after a call's first caller has returned does not get that
\* call's result.
THEOREM FreshAfterLeader == SFSpec => NoStaleJoin
<1> DEFINE A == \A p \in SFCallers :
                   caller[p] = SFIdle /\ caller'[p].at = "wait" => caller'[p].call \notin over
<1>1. ASSUME SFInv, SFNext PROVE A
  <2> SUFFICES ASSUME NEW p \in SFCallers, caller[p] = SFIdle, caller'[p].at = "wait"
               PROVE  caller'[p].call \notin over
    OBVIOUS
  <2>1. PICK q \in SFCallers : Do(q) BY <1>1 DEF SFNext
  <2>2. caller'[p] # caller[p] BY DEF SFIdle
  <2>3. q = p
    BY <1>1, <2>1, <2>2 DEF SFInv, SFTypeOK, Do, Join, Lead, FnReturns, WgDone, DeleteAndReturn, WaitReturns
  <2>4. PICK k \in SFKeys : Join(p, k) \/ Lead(p, k)
    BY <2>1, <2>3 DEF Do, FnReturns, WgDone, DeleteAndReturn, WaitReturns, SFIdle
  <2>5. Join(p, k)
    BY <1>1, <2>4 DEF Lead, SFInv, SFTypeOK
  <2>6. caller'[p].call = m[k] /\ m[k] # 0 BY <1>1, <2>5 DEF Join, SFInv, SFTypeOK
  <2>7. PICK l \in SFCallers : Leads(l) /\ caller[l].call = m[k]
    BY <1>1, <2>6 DEF SFInv, HasLeader
  <2> QED BY <1>1, <2>6, <2>7 DEF SFInv, LeaderNotOver
<1>2. SFInv /\ [SFNext]_sfVars => [A]_sfVars BY <1>1
<1> QED BY <1>2, SFInvariance, PTL DEF SFSpec, NoStaleJoin

\* Callers of Do share one execution and its fresh result.
THEOREM SharedFlights == SFSpec => FlightsShared
BY SingleExecution, SharedResult, FreshAfterLeader DEF FlightsShared

-----------------------------------------------------------------------------
(* The LRU cache: what the list weighs.                                    *)

\* A nonempty set of natural numbers has a least element.
LEMMA LeastNumber ==
    ASSUME NEW T \in SUBSET Nat, T # {}
    PROVE  \E n \in T : \A l \in T : n <= l
<1>1. PICK n \in T : \A l \in T : ~(<<l, n>> \in OpToRel(<, Nat)) BY NatLessThanWellFounded, WFMin
<1>2. ASSUME NEW l \in T PROVE n <= l
  <2>1. ~(l < n) BY <1>1 DEF OpToRel
  <2> QED BY <2>1
<1> QED BY <1>2

\* What an entry counts for, and P[i] as what the first i entries of s count for.
Weight(e) == KeyLen + e.value.len
Adds(P, s) ==
    /\ P \in [0 .. Len(s) -> Int]
    /\ P[0] = 0
    /\ \A i \in 1 .. Len(s) : P[i] = P[i - 1] + Weight(s[i])

\* Lengths are numbers.
LEMMA WeightType == \A e \in Entry : e.value.len \in Int /\ KeyLen \in Int /\ Weight(e) \in Int
<1> SUFFICES ASSUME NEW e \in Entry PROVE e.value.len \in Int /\ KeyLen \in Int /\ Weight(e) \in Int OBVIOUS
<1>1. e.value \in Value BY DEF Entry
<1>2. e.value.len \in ValueLens BY <1>1 DEF Value
<1>3. KeyLen \in Int /\ \A n \in ValueLens : n \in Int BY LimitIsNat, ValueLengthsAreNat
<1>4. e.value.len \in Int BY <1>2, <1>3
<1> QED BY <1>3, <1>4 DEF Weight

\* The recursion along the list: Sum adds the entries up.
LEMMA SumAdds ==
    ASSUME NEW s \in Seq(Entry)
    PROVE  \E P : Adds(P, s) /\ P[Len(s)] = Sum(s)
<1> DEFINE Plus(a, i) == a + KeyLen + s[i].value.len
           Def(g, i) == IF i = 0 THEN 0 ELSE Plus(g[i - 1], i)
           Solves(g, n) == g = [i \in 0 .. n |-> Def(g, i)]
           T == {n \in Nat : n <= Len(s) /\ ~ \E g : Solves(g, n)}
<1>0. Len(s) \in Nat OBVIOUS
<1>P. \A a, i : Plus(a, i) = a + KeyLen + s[i].value.len OBVIOUS
<1>S. Sum(s) = (CHOOSE g : Solves(g, Len(s)))[Len(s)] BY DEF Sum
<1> HIDE DEF Plus
<1>1. \E g : Solves(g, 0)
  <2>1. Solves([i \in 0 .. 0 |-> 0], 0) OBVIOUS
  <2> QED BY <2>1
<1>2. ASSUME NEW n \in Nat, \E g : Solves(g, n) PROVE \E g : Solves(g, n + 1)
  <2>1. PICK g : Solves(g, n) BY <1>2
  <2> DEFINE h == [i \in 0 .. n + 1 |-> IF i <= n THEN g[i] ELSE Plus(g[i - 1], i)]
  <2>2. \A i \in 0 .. n + 1 : h[i] = Def(h, i)
    <3> SUFFICES ASSUME NEW i \in 0 .. n + 1 PROVE h[i] = Def(h, i) OBVIOUS
    <3>1. CASE i = n + 1
      <4>1. h[n] = g[n] OBVIOUS
      <4> QED BY <3>1, <4>1
    <3>2. CASE i \in 1 .. n
      <4>1. h[i] = g[i] /\ h[i - 1] = g[i - 1] /\ i # 0 BY <3>2
      <4>2. g[i] = Plus(g[i - 1], i) BY <2>1, <3>2
      <4> QED BY <4>1, <4>2
    <3>3. CASE i = 0
      <4>1. g[0] = 0 BY <2>1
      <4> QED BY <3>3, <4>1
    <3> QED BY <3>1, <3>2, <3>3
  <2>3. Solves(h, n + 1)
    <3>1. h = [i \in 0 .. n + 1 |-> h[i]] OBVIOUS
    <3> HIDE DEF h
    <3> QED BY <2>2, <3>1
  <2> QED BY <2>3
<1> HIDE DEF Solves
<1>3. T = {}
  <2> SUFFICES ASSUME T # {} PROVE FALSE OBVIOUS
  <2>1. PICK n \in T : \A l \in T : n <= l BY LeastNumber
  <2>2. n # 0 BY <1>1, <2>1
  <2>3. n - 1 \in Nat /\ n - 1 \notin T /\ n - 1 <= Len(s) BY <1>0, <2>1, <2>2
  <2>4. \E g : Solves(g, n - 1) BY <2>3
  <2>5. \E g : Solves(g, n - 1 + 1) BY <1>2, <2>3, <2>4
  <2>6. n - 1 + 1 = n BY <2>1
  <2> QED BY <2>1, <2>5, <2>6
<1>4. \E g : Solves(g, Len(s)) BY <1>0, <1>3
<1> DEFINE P == CHOOSE g : Solves(g, Len(s))
<1>5. Sum(s) = P[Len(s)] BY <1>S
<1>6. Solves(P, Len(s)) BY <1>4
<1> HIDE DEF P
<1>7. /\ DOMAIN P = 0 .. Len(s) /\ P[0] = 0 /\ P = [i \in 0 .. Len(s) |-> P[i]]
      /\ \A i \in 1 .. Len(s) : P[i] = P[i - 1] + KeyLen + s[i].value.len
  <2>1. P = [i \in 0 .. Len(s) |-> Def(P, i)] BY <1>6 DEF Solves
  <2> HIDE DEF Def
  <2>2. DOMAIN P = 0 .. Len(s) /\ \A i \in 0 .. Len(s) : P[i] = Def(P, i) BY <2>1
  <2>3. P = [i \in 0 .. Len(s) |-> P[i]] BY <2>1, <2>2
  <2> QED BY <1>0, <1>P, <2>2, <2>3 DEF Def
<1>8. \A i \in 1 .. Len(s) : s[i].value.len \in Int /\ Weight(s[i]) \in Int /\ KeyLen \in Int
  <2>1. \A i \in 1 .. Len(s) : s[i] \in Entry OBVIOUS
  <2> QED BY <2>1, WeightType
<1> DEFINE U == {n \in Nat : n <= Len(s) /\ P[n] \notin Int}
<1>9. U = {}
  <2> SUFFICES ASSUME U # {} PROVE FALSE OBVIOUS
  <2>1. PICK n \in U : \A l \in U : n <= l BY LeastNumber
  <2>2. n # 0 BY <1>7, <2>1
  <2>3. n - 1 \in Nat /\ n - 1 \notin U /\ n - 1 <= Len(s) /\ n \in 1 .. Len(s) BY <1>0, <2>1, <2>2
  <2>4. P[n - 1] \in Int BY <2>3
  <2>5. P[n] = P[n - 1] + KeyLen + s[n].value.len /\ s[n].value.len \in Int /\ KeyLen \in Int
    BY <1>7, <1>8, <2>3
  <2>6. P[n] \in Int BY <2>4, <2>5
  <2> QED BY <2>1, <2>6
<1>10. \A i \in 0 .. Len(s) : P[i] \in Int BY <1>0, <1>9
<1>11. P \in [0 .. Len(s) -> Int] BY <1>7, <1>10
<1>12. \A i \in 1 .. Len(s) : P[i] = P[i - 1] + Weight(s[i])
  <2> SUFFICES ASSUME NEW i \in 1 .. Len(s) PROVE P[i] = P[i - 1] + Weight(s[i]) OBVIOUS
  <2>1. P[i - 1] \in Int BY <1>0, <1>10
  <2>2. P[i] = P[i - 1] + KeyLen + s[i].value.len /\ s[i].value.len \in Int /\ KeyLen \in Int
    BY <1>7, <1>8
  <2>3. Weight(s[i]) = KeyLen + s[i].value.len BY DEF Weight
  <2> QED BY <2>1, <2>2, <2>3
<1> QED BY <1>5, <1>7, <1>11, <1>12 DEF Adds

\* There is one way to add a list up.
LEMMA AddsOnce ==
    ASSUME NEW s \in Seq(Entry), NEW P, NEW Q, Adds(P, s), Adds(Q, s)
    PROVE  P[Len(s)] = Q[Len(s)]
<1> DEFINE T == {n \in Nat : n <= Len(s) /\ P[n] # Q[n]}
<1>0. Len(s) \in Nat OBVIOUS
<1> SUFFICES ASSUME T # {} PROVE FALSE BY <1>0
<1>1. PICK n \in T : \A l \in T : n <= l BY LeastNumber
<1>2. n # 0 BY <1>1 DEF Adds
<1>3. n - 1 \in Nat /\ n - 1 \notin T /\ n - 1 <= Len(s) /\ n \in 1 .. Len(s) BY <1>0, <1>1, <1>2
<1>4. P[n - 1] = Q[n - 1] BY <1>3
<1> QED BY <1>1, <1>3, <1>4 DEF Adds

\* So Sum is the last of any partial sums.
LEMMA SumIs ==
    ASSUME NEW s \in Seq(Entry), NEW P, Adds(P, s)
    PROVE  Sum(s) = P[Len(s)]
BY SumAdds, AddsOnce

\* PushFront adds the entry's weight.
LEMMA SumPush ==
    ASSUME NEW s \in Seq(Entry), NEW e \in Entry
    PROVE  Sum(<<e>> \o s) = Sum(s) + Weight(e)
<1>1. PICK P : Adds(P, s) /\ P[Len(s)] = Sum(s) BY SumAdds
<1> DEFINE t == <<e>> \o s
           n == Len(s)
           Q == [i \in 0 .. n + 1 |-> IF i = 0 THEN 0 ELSE P[i - 1] + Weight(e)]
<1>2. /\ t \in Seq(Entry) /\ Len(t) = n + 1 /\ n \in Nat /\ t[1] = e
      /\ \A i \in 2 .. n + 1 : t[i] = s[i - 1]
  OBVIOUS
<1>3. P \in [0 .. n -> Int] /\ P[0] = 0 /\ \A i \in 1 .. n : P[i] = P[i - 1] + Weight(s[i]) BY <1>1 DEF Adds
<1>4. Weight(e) \in Int /\ \A i \in 1 .. n : Weight(s[i]) \in Int BY WeightType
<1> HIDE DEF t, n
<1>5. Q \in [0 .. n + 1 -> Int]
  <2>1. \A i \in 1 .. n + 1 : P[i - 1] \in Int BY <1>2, <1>3
  <2> QED BY <1>2, <1>4, <2>1
<1>6. ASSUME NEW i \in 1 .. n + 1 PROVE Q[i] = Q[i - 1] + Weight(t[i])
  <2>1. CASE i = 1 BY <1>2, <1>3, <1>4, <2>1
  <2>2. CASE i # 1
    <3>1. i - 1 \in 1 .. n /\ i \in 2 .. n + 1 /\ i # 0 /\ i - 1 # 0 BY <1>2, <2>2
    <3>2. Q[i] = P[i - 1] + Weight(e) /\ Q[i - 1] = P[i - 1 - 1] + Weight(e) BY <1>2, <3>1
    <3>3. P[i - 1] = P[i - 1 - 1] + Weight(s[i - 1]) /\ P[i - 1 - 1] \in Int BY <1>2, <1>3, <3>1
    <3>4. t[i] = s[i - 1] /\ Weight(s[i - 1]) \in Int BY <1>2, <1>4, <3>1
    <3> HIDE DEF Q
    <3> QED BY <1>4, <3>2, <3>3, <3>4
  <2> QED BY <2>1, <2>2
<1>7. Q[0] = 0 /\ Q[n + 1] = P[n] + Weight(e) BY <1>2
<1> HIDE DEF Q
<1>8. Adds(Q, t) BY <1>2, <1>5, <1>6, <1>7 DEF Adds
<1>9. Sum(t) = Q[n + 1] BY <1>2, <1>8, SumIs
<1> QED BY <1>1, <1>7, <1>9 DEF t, n

\* The list without its back.
LEMMA FrontIs ==
    ASSUME NEW s \in Seq(Entry), s # <<>>
    PROVE  /\ Front(s) \in Seq(Entry) /\ Len(Front(s)) = Len(s) - 1
           /\ \A i \in 1 .. Len(s) - 1 : Front(s)[i] = s[i]
<1> DEFINE t == Front(s)
           n == Len(s)
<1>1. n \in Nat /\ n > 0 /\ t = SubSeq(s, 1, n - 1) BY DEF Front
<1>2. 1 \in Int /\ n - 1 \in Int /\ \A i \in 1 .. n - 1 : s[i] \in Entry BY <1>1
<1>3. t \in Seq(Entry) /\ Len(t) = IF 1 <= n - 1 THEN n - 1 - 1 + 1 ELSE 0
  BY <1>1, <1>2, SubSeqProperties
<1>4. \A i \in 1 .. n - 1 : t[i] = s[i] BY <1>1, <1>2, SubSeqProperties
<1> HIDE DEF t, n
<1>5. Len(t) = n - 1 BY <1>1, <1>3
<1> QED BY <1>3, <1>4, <1>5 DEF t, n

\* Removing the back takes its weight off.
LEMMA SumFront ==
    ASSUME NEW s \in Seq(Entry), s # <<>>
    PROVE  Sum(Front(s)) = Sum(s) - Weight(Last(s))
<1>1. PICK P : Adds(P, s) /\ P[Len(s)] = Sum(s) BY SumAdds
<1> DEFINE t == Front(s)
           n == Len(s)
           Q == [i \in 0 .. n - 1 |-> P[i]]
<1>2. /\ t \in Seq(Entry) /\ Len(t) = n - 1 /\ n \in Nat /\ n > 0
      /\ \A i \in 1 .. n - 1 : t[i] = s[i]
  BY FrontIs
<1>3. P \in [0 .. n -> Int] /\ P[0] = 0 /\ \A i \in 1 .. n : P[i] = P[i - 1] + Weight(s[i]) BY <1>1 DEF Adds
<1>4. Weight(s[n]) \in Int /\ Last(s) = s[n] BY <1>2, WeightType DEF Last
<1> HIDE DEF t, n
<1>5. Adds(Q, t) BY <1>2, <1>3 DEF Adds
<1>6. Sum(t) = P[n - 1]
  <2>1. Sum(t) = Q[n - 1] BY <1>2, <1>5, SumIs
  <2> QED BY <1>2, <2>1
<1>7. P[n] = P[n - 1] + Weight(s[n]) /\ P[n - 1] \in Int BY <1>2, <1>3
<1>8. P[n] = Sum(s) BY <1>1 DEF n
<1> QED BY <1>4, <1>6, <1>7, <1>8 DEF t

\* container/list's MoveToFront, entry by entry.
LEMMA MovedIs ==
    ASSUME NEW s \in Seq(Entry), NEW k \in DOMAIN s
    PROVE  /\ MoveToFront(s, k) \in Seq(Entry) /\ Len(MoveToFront(s, k)) = Len(s)
           /\ MoveToFront(s, k)[1] = s[k]
           /\ \A j \in 2 .. k : MoveToFront(s, k)[j] = s[j - 1]
           /\ \A j \in k + 1 .. Len(s) : MoveToFront(s, k)[j] = s[j]
<1> DEFINE t == MoveToFront(s, k)
           n == Len(s)
<1>1. n \in Nat /\ k \in 1 .. n /\ DOMAIN s = 1 .. n /\ \A i \in 1 .. n : s[i] \in Entry OBVIOUS
<1> HIDE DEF n
<1>2. t = [j \in 1 .. n |-> IF j = 1 THEN s[k] ELSE IF j <= k THEN s[j - 1] ELSE s[j]] BY <1>1 DEF MoveToFront
<1> HIDE DEF t
<1>3. \A j \in 1 .. n : t[j] \in Entry BY <1>1, <1>2
<1>4. t \in [1 .. n -> Entry] BY <1>2, <1>3
<1>5. t \in Seq(Entry) /\ Len(t) = n BY <1>1, <1>4
<1>6. t[1] = s[k] BY <1>1, <1>2
<1>7. \A j \in 2 .. k : t[j] = s[j - 1] BY <1>1, <1>2
<1>8. \A j \in k + 1 .. n : t[j] = s[j] BY <1>1, <1>2
<1> QED BY <1>5, <1>6, <1>7, <1>8 DEF t, n

\* Moving an entry to the front weighs nothing.
LEMMA SumMove ==
    ASSUME NEW s \in Seq(Entry), NEW k \in DOMAIN s
    PROVE  Sum(MoveToFront(s, k)) = Sum(s)
<1>1. PICK P : Adds(P, s) /\ P[Len(s)] = Sum(s) BY SumAdds
<1> DEFINE t == MoveToFront(s, k)
           n == Len(s)
           Q == [i \in 0 .. n |-> IF i = 0 THEN 0 ELSE IF i <= k THEN P[i - 1] + Weight(s[k]) ELSE P[i]]
<1>2. /\ n \in Nat /\ k \in 1 .. n /\ \A i \in 1 .. n : s[i] \in Entry
      /\ DOMAIN s = 1 .. n
  OBVIOUS
<1>3. P \in [0 .. n -> Int] /\ P[0] = 0 /\ \A i \in 1 .. n : P[i] = P[i - 1] + Weight(s[i]) BY <1>1 DEF Adds
<1>4. \A i \in 1 .. n : Weight(s[i]) \in Int BY <1>2, WeightType
<1> HIDE DEF n
<1>5. t = [j \in 1 .. n |-> IF j = 1 THEN s[k] ELSE IF j <= k THEN s[j - 1] ELSE s[j]] BY <1>2 DEF MoveToFront
<1> HIDE DEF t
<1>6. t \in Seq(Entry) /\ Len(t) = n
  <2>1. \A j \in 1 .. n : t[j] \in Entry BY <1>2, <1>5
  <2>2. t \in [1 .. n -> Entry] BY <1>5, <2>1
  <2> QED BY <1>2, <2>2
<1>7. Q \in [0 .. n -> Int]
  <2>1. \A i \in 1 .. n : P[i] \in Int /\ P[i - 1] \in Int BY <1>2, <1>3
  <2> QED BY <1>2, <1>4, <2>1
<1>8. ASSUME NEW i \in 1 .. n PROVE Q[i] = Q[i - 1] + Weight(t[i])
  <2>0. P[i] \in Int /\ P[i - 1] \in Int /\ P[i] = P[i - 1] + Weight(s[i]) /\ Weight(s[i]) \in Int /\ Weight(s[k]) \in Int
    BY <1>2, <1>3, <1>4
  <2>1. CASE i = 1
    <3>1. t[1] = s[k] /\ Q[0] = 0 /\ Q[1] = P[0] + Weight(s[k]) BY <1>2, <1>5, <2>1
    <3> QED BY <1>3, <2>0, <2>1, <3>1
  <2>2. CASE i # 1 /\ i <= k
    <3>1. i - 1 \in 1 .. n /\ i - 1 <= k /\ i - 1 # 0 /\ i # 0 BY <1>2, <2>2
    <3>2. t[i] = s[i - 1] /\ Q[i] = P[i - 1] + Weight(s[k]) /\ Q[i - 1] = P[i - 1 - 1] + Weight(s[k])
      BY <1>2, <1>5, <2>2, <3>1
    <3>3. P[i - 1] = P[i - 1 - 1] + Weight(s[i - 1]) /\ P[i - 1 - 1] \in Int /\ Weight(s[i - 1]) \in Int
      BY <1>2, <1>3, <1>4, <3>1
    <3> HIDE DEF Q
    <3> QED BY <2>0, <3>2, <3>3
  <2>3. CASE i > k /\ i - 1 > k
    <3>1. t[i] = s[i] /\ Q[i] = P[i] /\ Q[i - 1] = P[i - 1] BY <1>2, <1>5, <2>3
    <3> QED BY <2>0, <3>1
  <2>4. CASE i > k /\ i - 1 = k
    <3>1. t[i] = s[i] /\ Q[i] = P[i] /\ Q[i - 1] = P[k - 1] + Weight(s[k]) BY <1>2, <1>5, <2>4
    <3>2. P[k] = P[k - 1] + Weight(s[k]) BY <1>2, <1>3
    <3> QED BY <2>0, <2>4, <3>1, <3>2
  <2> QED BY <1>2, <2>1, <2>2, <2>3, <2>4
<1>9. Q[0] = 0 /\ Q[n] = P[n]
  <2>1. CASE n = k BY <1>2, <1>3, <2>1
  <2>2. CASE n # k BY <1>2, <2>2
  <2> QED BY <2>1, <2>2
<1> HIDE DEF Q
<1>10. Adds(Q, t) BY <1>6, <1>7, <1>8, <1>9 DEF Adds
<1>11. Sum(t) = Q[n] BY <1>6, <1>10, SumIs
<1> QED BY <1>1, <1>9, <1>11 DEF t, n

\* Replacing a value adds the difference of the lengths.
LEMMA SumReplace ==
    ASSUME NEW s \in Seq(Entry), NEW k \in DOMAIN s, NEW t \in Seq(Entry), Len(t) = Len(s),
           \A i \in DOMAIN s : i # k => t[i] = s[i]
    PROVE  Sum(t) = Sum(s) + (Weight(t[k]) - Weight(s[k]))
<1>1. PICK P : Adds(P, s) /\ P[Len(s)] = Sum(s) BY SumAdds
<1> DEFINE n == Len(s)
           d == Weight(t[k]) - Weight(s[k])
           Q == [i \in 0 .. n |-> IF i < k THEN P[i] ELSE P[i] + d]
<1>2. /\ n \in Nat /\ k \in 1 .. n /\ \A i \in 1 .. n : i # k => t[i] = s[i]
      /\ \A i \in 1 .. n : s[i] \in Entry /\ t[i] \in Entry
  OBVIOUS
<1>3. P \in [0 .. n -> Int] /\ P[0] = 0 /\ \A i \in 1 .. n : P[i] = P[i - 1] + Weight(s[i]) BY <1>1 DEF Adds
<1>4. \A i \in 1 .. n : Weight(s[i]) \in Int /\ Weight(t[i]) \in Int BY <1>2, WeightType
<1>5. d \in Int /\ Weight(t[k]) = Weight(s[k]) + d BY <1>2, <1>4
<1> HIDE DEF n, d
<1>6. Q \in [0 .. n -> Int] BY <1>2, <1>3, <1>5
<1>7. ASSUME NEW i \in 1 .. n PROVE Q[i] = Q[i - 1] + Weight(t[i])
  <2>a. i \in 0 .. n /\ i - 1 \in 0 .. n BY <1>2
  <2>b. P[i] \in Int /\ P[i - 1] \in Int BY <1>3, <2>a
  <2>0. P[i] \in Int /\ P[i - 1] \in Int /\ P[i] = P[i - 1] + Weight(s[i]) /\ Weight(s[i]) \in Int
    BY <1>3, <1>4, <2>b
  <2>1. CASE i < k
    <3>1. t[i] = s[i] /\ Q[i] = P[i] /\ Q[i - 1] = P[i - 1] BY <1>2, <2>1
    <3> QED BY <2>0, <3>1
  <2>2. CASE i = k
    <3>1. Q[i] = P[i] + d /\ Q[i - 1] = P[i - 1] BY <1>2, <2>2
    <3> QED BY <1>5, <2>0, <2>2, <3>1
  <2>3. CASE i > k
    <3>1. t[i] = s[i] /\ Q[i] = P[i] + d /\ Q[i - 1] = P[i - 1] + d BY <1>2, <2>3
    <3> QED BY <1>5, <2>0, <3>1
  <2> QED BY <1>2, <2>1, <2>2, <2>3
<1>8. Q[0] = 0 /\ Q[n] = P[n] + d BY <1>2, <1>3
<1> HIDE DEF Q
<1>9. Len(t) = n BY DEF n
<1>10. Adds(Q, t) BY <1>6, <1>7, <1>8, <1>9 DEF Adds
<1>11. Sum(t) = Q[n] BY <1>9, <1>10, SumIs
<1> QED BY <1>1, <1>8, <1>11 DEF n, d

-----------------------------------------------------------------------------
(* The LRU cache: list, map and order of use.                              *)

\* The list holds the keys of the map, each once, latest use first.
ListInv ==
    /\ ll \in Seq(Entry)
    /\ cache = {ll[i].key : i \in DOMAIN ll}
    /\ \A a, b \in DOMAIN ll : ll[a].key = ll[b].key => a = b
    /\ \A a, b \in DOMAIN ll : a < b => <<ll[a].key, ll[b].key>> \in later

GCInv == GCTypeOK /\ ListInv /\ BytesAccounted /\ OverLimitOnlyByReplacing

\* The map finds the entry of a key it holds.
LEMMA IndexFound ==
    ASSUME ListInv, NEW k \in cache
    PROVE  IndexOf(k) \in DOMAIN ll /\ ll[IndexOf(k)].key = k
BY DEF ListInv, IndexOf

\* A use puts its key before every other and leaves the rest in order.
LEMMA TouchType ==
    ASSUME NEW k \in GCKeys, later \subseteq GCKeys \X GCKeys
    PROVE  /\ Touch(k) \subseteq GCKeys \X GCKeys
           /\ \A j \in GCKeys : j # k => <<k, j>> \in Touch(k)
           /\ \A p \in GCKeys, j \in GCKeys : <<p, j>> \in later /\ j # k => <<p, j>> \in Touch(k)
BY DEF Touch

\* A hit and a replacement move an entry to the front: the list is in the order of use
\* again.
LEMMA ListMoved ==
    ASSUME ListInv, GCTypeOK, NEW i \in DOMAIN ll,
           ll' \in Seq(Entry), Len(ll') = Len(ll),
           ll'[1].key = ll[i].key,
           \A j \in 2 .. i : ll'[j].key = ll[j - 1].key,
           \A j \in i + 1 .. Len(ll) : ll'[j].key = ll[j].key,
           later' = Touch(ll[i].key), cache' = cache
    PROVE  ListInv'
<1> DEFINE n == Len(ll)
           k == ll[i].key
           F(j) == IF j = 1 THEN i ELSE IF j <= i THEN j - 1 ELSE j
<1>1. n \in Nat /\ i \in 1 .. n /\ DOMAIN ll = 1 .. n /\ DOMAIN ll' = 1 .. n BY DEF ListInv
<1>2. \A j \in 1 .. n : ll[j].key \in GCKeys
  <2>1. \A j \in 1 .. n : ll[j] \in Entry BY DEF ListInv
  <2> QED BY <2>1 DEF Entry
<1> HIDE DEF n
<1>3. \A j \in 1 .. n : F(j) \in 1 .. n /\ ll'[j].key = ll[F(j)].key
  <2> SUFFICES ASSUME NEW j \in 1 .. n PROVE F(j) \in 1 .. n /\ ll'[j].key = ll[F(j)].key OBVIOUS
  <2>1. CASE j = 1 BY <1>1, <2>1
  <2>2. CASE j # 1 /\ j <= i
    <3>1. j \in 2 .. i /\ F(j) = j - 1 /\ j - 1 \in 1 .. n BY <1>1, <2>2
    <3> QED BY <3>1
  <2>3. CASE j # 1 /\ j > i
    <3>1. j \in i + 1 .. Len(ll) /\ F(j) = j BY <1>1, <2>3 DEF n
    <3> QED BY <3>1
  <2> QED BY <1>1, <2>1, <2>2, <2>3
<1>4. \A a, b \in 1 .. n : F(a) = F(b) => a = b BY <1>1
<1>5. \A j \in 1 .. n : \E h \in 1 .. n : F(h) = j
  <2> SUFFICES ASSUME NEW j \in 1 .. n PROVE \E h \in 1 .. n : F(h) = j OBVIOUS
  <2>1. CASE j = i
    <3>1. F(1) = j /\ 1 \in 1 .. n BY <1>1, <2>1
    <3> QED BY <3>1
  <2>2. CASE j < i
    <3>1. F(j + 1) = j /\ j + 1 \in 1 .. n BY <1>1, <2>2
    <3> QED BY <3>1
  <2>3. CASE j > i
    <3>1. F(j) = j BY <1>1, <2>3
    <3> QED BY <3>1
  <2> QED BY <1>1, <2>1, <2>2, <2>3
<1>6. \A a, b \in 1 .. n : a < b /\ a # 1 => F(a) < F(b) /\ F(b) # i BY <1>1
<1>7. \A b \in 1 .. n : b # 1 => F(b) # i BY <1>1
<1>8. F(1) = i OBVIOUS
<1> HIDE DEF F
<1>9. cache' = {ll'[j].key : j \in DOMAIN ll'}
  <2>1. cache = {ll[j].key : j \in 1 .. n} BY <1>1 DEF ListInv
  <2>2. {ll[j].key : j \in 1 .. n} \subseteq {ll'[j].key : j \in 1 .. n}
    <3>1. ASSUME NEW j \in 1 .. n PROVE ll[j].key \in {ll'[h].key : h \in 1 .. n}
      <4>1. PICK h \in 1 .. n : F(h) = j BY <1>5
      <4>2. ll'[h].key = ll[j].key BY <1>3, <4>1
      <4> QED BY <4>2
    <3> QED BY <3>1
  <2>3. {ll'[j].key : j \in 1 .. n} \subseteq {ll[j].key : j \in 1 .. n} BY <1>3
  <2> QED BY <1>1, <2>1, <2>2, <2>3
<1>10. \A a, b \in 1 .. n : ll[a].key = ll[b].key => a = b BY <1>1 DEF ListInv
<1>11. ASSUME NEW a \in 1 .. n, NEW b \in 1 .. n, ll'[a].key = ll'[b].key PROVE a = b
  <2>1. F(a) \in 1 .. n /\ F(b) \in 1 .. n /\ ll[F(a)].key = ll[F(b)].key BY <1>3, <1>11
  <2>2. F(a) = F(b) BY <1>10, <2>1
  <2> QED BY <1>4, <2>2
<1>12. ASSUME NEW a \in 1 .. n, NEW b \in 1 .. n, a < b PROVE <<ll'[a].key, ll'[b].key>> \in later'
  <2>0. later \subseteq GCKeys \X GCKeys /\ k \in GCKeys BY <1>1, <1>2 DEF GCTypeOK
  <2>a. b # 1 BY <1>12
  <2>1. b # 1 /\ F(b) # i /\ F(b) \in 1 .. n BY <1>3, <1>7, <2>a
  <2>2. ll[F(b)].key # k BY <1>1, <1>10, <2>1
  <2>3. ll'[b].key = ll[F(b)].key /\ ll[F(b)].key \in GCKeys BY <1>2, <1>3, <2>1
  <2>4. CASE a = 1 BY <1>12, <2>0, <2>2, <2>3, <2>4, TouchType
  <2>5. CASE a # 1
    <3>1. F(a) < F(b) /\ F(a) \in 1 .. n BY <1>3, <1>6, <1>12, <2>5
    <3>2. <<ll[F(a)].key, ll[F(b)].key>> \in later BY <1>1, <2>1, <3>1 DEF ListInv
    <3>3. ll'[a].key = ll[F(a)].key /\ ll[F(a)].key \in GCKeys BY <1>2, <1>3, <3>1
    <3> HIDE DEF k
    <3>4. <<ll[F(a)].key, ll[F(b)].key>> \in Touch(k) BY <2>0, <2>2, <2>3, <3>2, <3>3, TouchType
    <3> QED BY <2>3, <3>3, <3>4 DEF k
  <2> QED BY <2>4, <2>5
<1> QED BY <1>1, <1>9, <1>11, <1>12 DEF ListInv

\* An insertion puts the entry in front of all others.
LEMMA ListPushed ==
    ASSUME ListInv, GCTypeOK, NEW e \in Entry, e.key \notin cache,
           ll' = <<e>> \o ll, cache' = cache \cup {e.key}, later' = Touch(e.key)
    PROVE  ListInv'
<1> DEFINE n == Len(ll)
           k == e.key
<1>1. n \in Nat /\ DOMAIN ll = 1 .. n /\ ll \in Seq(Entry) BY DEF ListInv
<1>2. /\ ll' \in Seq(Entry) /\ DOMAIN ll' = 1 .. n + 1
      /\ ll'[1] = e /\ \A j \in 2 .. n + 1 : ll'[j] = ll[j - 1]
  BY <1>1
<1>3. k \in GCKeys /\ \A j \in 1 .. n : ll[j].key \in GCKeys
  <2>1. \A j \in 1 .. n : ll[j] \in Entry BY <1>1
  <2> QED BY <2>1 DEF Entry
<1> HIDE DEF n, k
<1>4. \A j \in 1 .. n : ll[j].key # k /\ ll[j].key \in cache BY <1>1 DEF ListInv, k
<1>5. cache' = {ll'[j].key : j \in DOMAIN ll'}
  <2>1. cache = {ll[j].key : j \in 1 .. n} /\ cache' = cache \cup {k} BY <1>1 DEF ListInv, k
  <2>2. ASSUME NEW x \in cache' PROVE \E j \in 1 .. n + 1 : ll'[j].key = x
    <3>1. CASE x = k
      <4>1. 1 \in 1 .. n + 1 /\ ll'[1].key = x BY <1>1, <1>2, <3>1 DEF k
      <4> QED BY <4>1
    <3>2. CASE x \in cache
      <4>1. PICK j \in 1 .. n : ll[j].key = x BY <2>1, <3>2
      <4>2. j + 1 \in 2 .. n + 1 /\ (j + 1) - 1 = j BY <1>1
      <4>3. ll'[j + 1].key = x /\ j + 1 \in 1 .. n + 1 BY <1>1, <1>2, <4>1, <4>2
      <4> QED BY <4>3
    <3> QED BY <2>1, <3>1, <3>2
  <2>3. ASSUME NEW j \in 1 .. n + 1 PROVE ll'[j].key \in cache'
    <3>1. CASE j = 1 BY <1>2, <2>1, <3>1 DEF k
    <3>2. CASE j # 1
      <4>1. j \in 2 .. n + 1 /\ j - 1 \in 1 .. n BY <1>1, <3>2
      <4> QED BY <1>2, <1>4, <2>1, <4>1
    <3> QED BY <3>1, <3>2
  <2>4. cache' = {ll'[j].key : j \in 1 .. n + 1} BY <2>2, <2>3
  <2> QED BY <1>2, <2>4
<1>6. ASSUME NEW a \in 1 .. n + 1, NEW b \in 1 .. n + 1, a < b
      PROVE  ll'[a].key # ll'[b].key /\ <<ll'[a].key, ll'[b].key>> \in later'
  <2>0. later \subseteq GCKeys \X GCKeys /\ later' = Touch(k) BY DEF GCTypeOK, k
  <2>1. b \in 2 .. n + 1 /\ b - 1 \in 1 .. n BY <1>1, <1>6
  <2>2. ll'[b].key = ll[b - 1].key /\ ll[b - 1].key # k /\ ll[b - 1].key \in GCKeys
    BY <1>2, <1>3, <1>4, <2>1
  <2>3. CASE a = 1
    <3>1. ll'[a].key = k BY <1>2, <2>3 DEF k
    <3> QED BY <1>3, <2>0, <2>2, <3>1, TouchType
  <2>4. CASE a # 1
    <3>1. a \in 2 .. n + 1 /\ a - 1 \in 1 .. n /\ a - 1 < b - 1 /\ a - 1 # b - 1 BY <1>1, <1>6, <2>4
    <3>2. ll'[a].key = ll[a - 1].key /\ ll[a - 1].key \in GCKeys BY <1>2, <1>3, <3>1
    <3>3. ll[a - 1].key # ll[b - 1].key BY <1>1, <2>1, <3>1 DEF ListInv
    <3>4. <<ll[a - 1].key, ll[b - 1].key>> \in later BY <1>1, <2>1, <3>1 DEF ListInv
    <3>5. <<ll[a - 1].key, ll[b - 1].key>> \in Touch(k) BY <1>3, <2>0, <2>2, <3>2, <3>4, TouchType
    <3> QED BY <2>0, <2>2, <3>2, <3>3, <3>5
  <2> QED BY <2>3, <2>4
<1>7. \A a, b \in 1 .. n + 1 : ll'[a].key = ll'[b].key => a = b
  <2>1. \A a, b \in 1 .. n + 1 : a < b \/ b < a \/ a = b BY <1>1
  <2> QED BY <1>6, <2>1
<1> QED BY <1>2, <1>5, <1>6, <1>7 DEF ListInv

\* RemoveOldest takes the entry nobody was used before.
LEMMA ListPopped ==
    ASSUME ListInv, ll # <<>>, ll' = Front(ll), cache' = cache \ {Last(ll).key}, later' = later
    PROVE  /\ ListInv'
           /\ Last(ll).key \in cache
           /\ \A j \in cache' : <<j, Last(ll).key>> \in later
<1> DEFINE n == Len(ll)
<1>1. n \in Nat /\ n > 0 /\ DOMAIN ll = 1 .. n /\ ll \in Seq(Entry) /\ Last(ll) = ll[n] BY DEF ListInv, Last
<1>2. /\ ll' \in Seq(Entry) /\ DOMAIN ll' = 1 .. n - 1
      /\ \A j \in 1 .. n - 1 : ll'[j] = ll[j]
  BY <1>1, FrontIs
<1> HIDE DEF n
<1>3. \A a, b \in 1 .. n : ll[a].key = ll[b].key => a = b BY <1>1 DEF ListInv
<1>4. cache' = {ll'[j].key : j \in DOMAIN ll'}
  <2>1. cache = {ll[j].key : j \in 1 .. n} /\ cache' = cache \ {ll[n].key} BY <1>1 DEF ListInv
  <2>2. ASSUME NEW x \in cache' PROVE \E j \in 1 .. n - 1 : ll'[j].key = x
    <3>1. PICK j \in 1 .. n : ll[j].key = x BY <2>1
    <3>2. j # n BY <2>1, <3>1
    <3>3. j \in 1 .. n - 1 BY <1>1, <3>2
    <3> QED BY <1>2, <3>1, <3>3
  <2>3. ASSUME NEW j \in 1 .. n - 1 PROVE ll'[j].key \in cache'
    <3>1. j \in 1 .. n /\ n \in 1 .. n /\ j # n BY <1>1
    <3> QED BY <1>2, <1>3, <2>1, <3>1
  <2> QED BY <1>2, <2>2, <2>3
<1>5. \A j \in 1 .. n - 1 : j \in 1 .. n BY <1>1
<1>6. ListInv' BY <1>1, <1>2, <1>4, <1>5 DEF ListInv
<1>7. ASSUME NEW x \in cache' PROVE <<x, ll[n].key>> \in later
  <2>1. PICK j \in 1 .. n - 1 : ll'[j].key = x BY <1>2, <1>4
  <2>2. j \in 1 .. n /\ n \in 1 .. n /\ j < n BY <1>1
  <2>3. ll[j].key = x BY <1>2, <2>1
  <2> QED BY <1>1, <2>2, <2>3 DEF ListInv
<1>8. n \in 1 .. n BY <1>1
<1>9. ll[n].key \in cache BY <1>1, <1>8 DEF ListInv
<1> QED BY <1>1, <1>6, <1>7, <1>9

-----------------------------------------------------------------------------
(* The LRU cache: the steps of Get.                                        *)

\* Where a Get is tells what it carries.
LEMMA ClientFields ==
    ASSUME GCTypeOK, NEW c \in GCClients
    PROVE  /\ gcClient[c].at \in {"idle", "load", "populate", "evict"}
           /\ gcClient[c].at \in {"load", "populate"} => gcClient[c].key \in GCKeys
           /\ gcClient[c].at = "populate" => gcClient[c].value \in Value
           /\ gcClient[c].at = "idle" => gcClient[c] = GCIdle
<1> DEFINE x == gcClient[c]
<1>1. x \in {GCIdle} \cup [at : {"load"}, key : GCKeys]
             \cup [at : {"populate"}, key : GCKeys, value : Value] \cup {[at |-> "evict"]}
  BY DEF GCTypeOK
<1> HIDE DEF x
<1>2. CASE x = GCIdle BY <1>2 DEF GCIdle, x
<1>3. CASE x \in [at : {"load"}, key : GCKeys] BY <1>3 DEF x
<1>4. CASE x \in [at : {"populate"}, key : GCKeys, value : Value] BY <1>4 DEF x
<1>5. CASE x = [at |-> "evict"] BY <1>5 DEF x
<1> QED BY <1>1, <1>2, <1>3, <1>4, <1>5

\* A client moves on: at most one is in the eviction loop.
LEMMA ClientMoves ==
    ASSUME GCTypeOK, NEW c \in GCClients, NEW x,
           gcClient' = [gcClient EXCEPT ![c] = x],
           x \in {GCIdle} \cup [at : {"load"}, key : GCKeys]
                 \cup [at : {"populate"}, key : GCKeys, value : Value] \cup {[at |-> "evict"]},
           x.at = "evict" => Unlocked
    PROVE  /\ gcClient' \in [GCClients -> {GCIdle} \cup [at : {"load"}, key : GCKeys]
                               \cup [at : {"populate"}, key : GCKeys, value : Value]
                               \cup {[at |-> "evict"]}]
           /\ \A a, b \in GCClients : gcClient'[a].at = "evict" /\ gcClient'[b].at = "evict" => a = b
           /\ x.at = "evict" => ~Unlocked'
           /\ x.at # "evict" /\ gcClient[c].at # "evict" => (Unlocked' <=> Unlocked)
<1>1. \A d \in GCClients : gcClient'[d] = IF d = c THEN x ELSE gcClient[d] BY DEF GCTypeOK
<1>2. gcClient' \in [GCClients -> {GCIdle} \cup [at : {"load"}, key : GCKeys]
                               \cup [at : {"populate"}, key : GCKeys, value : Value]
                               \cup {[at |-> "evict"]}]
  BY DEF GCTypeOK
<1>3. \A a, b \in GCClients : gcClient'[a].at = "evict" /\ gcClient'[b].at = "evict" => a = b
  <2>1. \A a, b \in GCClients : gcClient[a].at = "evict" /\ gcClient[b].at = "evict" => a = b BY DEF GCTypeOK
  <2> QED BY <1>1, <2>1 DEF Unlocked
<1>4. x.at = "evict" => ~Unlocked' BY <1>1 DEF Unlocked
<1>5. x.at # "evict" /\ gcClient[c].at # "evict" => (Unlocked' <=> Unlocked) BY <1>1 DEF Unlocked
<1> QED BY <1>2, <1>3, <1>4, <1>5

\* The new cache.
LEMMA GCInitInv == GCInit => GCInv
<1> SUFFICES ASSUME GCInit PROVE GCInv OBVIOUS
<1>1. GCTypeOK
  <2>1. source \in [GCKeys -> Value]
    <3>1. 0 \in 0 .. GCMaxVersion BY LimitIsNat
    <3> QED BY <3>1 DEF GCInit, Value
  <2>2. gcClient \in [GCClients -> {GCIdle} \cup [at : {"load"}, key : GCKeys]
                               \cup [at : {"populate"}, key : GCKeys, value : Value]
                               \cup {[at |-> "evict"]}]
    BY DEF GCInit
  <2>3. \A c \in GCClients : gcClient[c].at = "idle" BY DEF GCInit, GCIdle
  <2>4. ll \in Seq(Entry) /\ cache \subseteq GCKeys /\ nBytes \in Int BY DEF GCInit
  <2>5. replaced \in BOOLEAN /\ later \subseteq GCKeys \X GCKeys BY DEF GCInit
  <2> QED BY <2>1, <2>2, <2>3, <2>4, <2>5 DEF GCTypeOK
<1>2. ListInv BY DEF GCInit, ListInv
<1>3. BytesAccounted
  <2>1. Adds([i \in 0 .. 0 |-> 0], <<>>) BY DEF Adds
  <2>2. Sum(<<>>) = 0 BY <2>1, SumIs
  <2> QED BY <2>2 DEF GCInit, BytesAccounted
<1>4. OverLimitOnlyByReplacing BY LimitIsNat DEF GCInit, OverLimitOnlyByReplacing
<1> QED BY <1>1, <1>2, <1>3, <1>4 DEF GCInv

\* A hit.
LEMMA HitKeeps ==
    ASSUME GCInv, NEW c \in GCClients, NEW k \in GCKeys, GCGetHit(c, k)
    PROVE  GCInv'
<1> DEFINE i == IndexOf(k)
<1>1. ll' = MoveToFront(ll, i) /\ later' = Touch(k) /\ k \in cache
      /\ UNCHANGED <<source, cache, nBytes, gcClient, replaced>>
  BY DEF GCGetHit
<1>2. i \in DOMAIN ll /\ ll[i].key = k BY <1>1, IndexFound DEF GCInv
<1> HIDE DEF i
<1>3. ll \in Seq(Entry) BY DEF GCInv, GCTypeOK
<1>4. /\ ll' \in Seq(Entry) /\ Len(ll') = Len(ll) /\ ll'[1] = ll[i]
      /\ \A j \in 2 .. i : ll'[j] = ll[j - 1]
      /\ \A j \in i + 1 .. Len(ll) : ll'[j] = ll[j]
  BY <1>1, <1>2, <1>3, MovedIs
<1>5. ListInv' BY <1>1, <1>2, <1>4, ListMoved DEF GCInv
<1>6. BytesAccounted' BY <1>1, <1>2, <1>3, SumMove DEF GCInv, BytesAccounted
<1>7. GCTypeOK'
  <2>1. Touch(k) \subseteq GCKeys \X GCKeys BY TouchType DEF GCInv, GCTypeOK
  <2> QED BY <1>1, <1>4, <2>1 DEF GCInv, GCTypeOK
<1>8. OverLimitOnlyByReplacing' BY <1>1 DEF GCInv, OverLimitOnlyByReplacing, Unlocked
<1> QED BY <1>5, <1>6, <1>7, <1>8 DEF GCInv

\* Add for a key that is cached.
LEMMA UpdateKeeps ==
    ASSUME GCInv, NEW c \in GCClients, AddUpdate(c)
    PROVE  GCInv'
<1> DEFINE k == gcClient[c].key
           v == gcClient[c].value
           i == IndexOf(k)
           t == [ll EXCEPT ![i].value = v]
<1>1. /\ gcClient[c].at = "populate" /\ Unlocked /\ k \in cache
      /\ nBytes' = nBytes + v.len - ll[i].value.len
      /\ ll' = MoveToFront(t, i)
      /\ replaced' = TRUE /\ later' = Touch(k)
      /\ gcClient' = [gcClient EXCEPT ![c] = GCIdle]
      /\ UNCHANGED <<source, cache>>
  BY DEF AddUpdate
<1>2. i \in DOMAIN ll /\ ll[i].key = k BY <1>1, IndexFound DEF GCInv
<1>3. ll \in Seq(Entry) /\ k \in GCKeys /\ v \in Value BY <1>1, ClientFields DEF GCInv, GCTypeOK
<1> HIDE DEF i, v, k
<1>4. ll[i] \in Entry /\ ll[i].value \in Value
  <2>1. ll[i] \in Entry BY <1>2, <1>3
  <2> QED BY <2>1 DEF Entry
<1> DEFINE e == [key |-> k, value |-> v]
<1>5. [ll[i] EXCEPT !.value = v] = e BY <1>2, <1>4 DEF Entry
<1>6. e \in Entry /\ e.key = k /\ e.value = v BY <1>3 DEF Entry
<1>7. t = [ll EXCEPT ![i] = e] BY <1>5
<1> HIDE DEF t, e
<1>8. /\ t \in Seq(Entry) /\ Len(t) = Len(ll) /\ DOMAIN t = DOMAIN ll /\ t[i] = e
      /\ \A j \in DOMAIN ll : j # i => t[j] = ll[j]
  BY <1>2, <1>3, <1>6, <1>7
<1>9. /\ ll' \in Seq(Entry) /\ Len(ll') = Len(t) /\ ll'[1] = t[i]
      /\ \A j \in 2 .. i : ll'[j] = t[j - 1]
      /\ \A j \in i + 1 .. Len(t) : ll'[j] = t[j]
  <2>1. i \in DOMAIN t BY <1>2, <1>8
  <2> QED BY <1>1, <1>8, <2>1, MovedIs
<1>10. ListInv'
  <2>1. Len(ll) \in Nat /\ DOMAIN ll = 1 .. Len(ll) /\ i \in 1 .. Len(ll) BY <1>2, <1>3
  <2>2. ll'[1].key = ll[i].key BY <1>2, <1>6, <1>8, <1>9
  <2>3. \A j \in 2 .. i : ll'[j].key = ll[j - 1].key
    <3> SUFFICES ASSUME NEW j \in 2 .. i PROVE ll'[j].key = ll[j - 1].key OBVIOUS
    <3>1. j - 1 \in DOMAIN ll /\ j - 1 # i BY <2>1
    <3> QED BY <1>8, <1>9, <3>1
  <2>4. \A j \in i + 1 .. Len(ll) : ll'[j].key = ll[j].key
    <3> SUFFICES ASSUME NEW j \in i + 1 .. Len(ll) PROVE ll'[j].key = ll[j].key OBVIOUS
    <3>1. j \in DOMAIN ll /\ j # i BY <2>1
    <3> QED BY <1>8, <1>9, <3>1
  <2>5. later' = Touch(ll[i].key) BY <1>1, <1>2
  <2> QED BY <1>1, <1>2, <1>8, <1>9, <2>2, <2>3, <2>4, <2>5, ListMoved DEF GCInv
<1>11. BytesAccounted'
  <2>1. Sum(ll') = Sum(t) BY <1>1, <1>2, <1>8, SumMove
  <2>2. Sum(t) = Sum(ll) + (Weight(e) - Weight(ll[i])) BY <1>2, <1>3, <1>8, SumReplace
  <2>3. Weight(e) = KeyLen + v.len /\ Weight(ll[i]) = KeyLen + ll[i].value.len BY <1>6 DEF Weight
  <2>4. KeyLen \in Int /\ v.len \in Int /\ ll[i].value.len \in Int BY <1>4, <1>6, WeightType
  <2>5. nBytes \in Int /\ nBytes = Sum(ll) BY DEF GCInv, GCTypeOK, BytesAccounted
  <2>6. nBytes' = Sum(ll') BY <1>1, <2>1, <2>2, <2>3, <2>4, <2>5
  <2> QED BY <2>6 DEF BytesAccounted
<1>12. GCTypeOK'
  <2>1. Touch(k) \subseteq GCKeys \X GCKeys BY <1>3, TouchType DEF GCInv, GCTypeOK
  <2>2. nBytes' \in Int
    <3>1. v.len \in Int /\ ll[i].value.len \in Int /\ nBytes \in Int BY <1>4, <1>6, WeightType DEF GCInv, GCTypeOK
    <3> QED BY <1>1, <3>1
  <2>3. GCIdle.at # "evict" BY DEF GCIdle
  <2>4. /\ gcClient' \in [GCClients -> {GCIdle} \cup [at : {"load"}, key : GCKeys]
                               \cup [at : {"populate"}, key : GCKeys, value : Value]
                               \cup {[at |-> "evict"]}]
        /\ \A a, b \in GCClients : gcClient'[a].at = "evict" /\ gcClient'[b].at = "evict" => a = b
    BY <1>1, <2>3, ClientMoves DEF GCInv
  <2> QED BY <1>1, <1>9, <2>1, <2>2, <2>4 DEF GCInv, GCTypeOK
<1>13. OverLimitOnlyByReplacing' BY <1>1 DEF OverLimitOnlyByReplacing
<1> QED BY <1>10, <1>11, <1>12, <1>13 DEF GCInv

\* Add for a new key.
LEMMA NewKeeps ==
    ASSUME GCInv, NEW c \in GCClients, AddNew(c)
    PROVE  GCInv'
<1> DEFINE k == gcClient[c].key
           v == gcClient[c].value
           e == [key |-> k, value |-> v]
<1>1. /\ gcClient[c].at = "populate" /\ Unlocked /\ k \notin cache
      /\ ll' = <<e>> \o ll /\ cache' = cache \cup {k}
      /\ nBytes' = nBytes + KeyLen + v.len
      /\ replaced' = FALSE /\ later' = Touch(k)
      /\ gcClient' = [gcClient EXCEPT ![c] = [at |-> "evict"]]
      /\ UNCHANGED source
  BY DEF AddNew, PushFront
<1>2. ll \in Seq(Entry) /\ k \in GCKeys /\ v \in Value BY <1>1, ClientFields DEF GCInv, GCTypeOK
<1> HIDE DEF k, v
<1>3. e \in Entry /\ e.key = k /\ e.value = v BY <1>2 DEF Entry
<1> HIDE DEF e
<1>4. ListInv' BY <1>1, <1>3, ListPushed DEF GCInv
<1>5. KeyLen \in Int /\ v.len \in Int /\ nBytes \in Int BY <1>3, WeightType DEF GCInv, GCTypeOK
<1>6. BytesAccounted'
  <2>1. Sum(ll') = Sum(ll) + Weight(e) BY <1>1, <1>2, <1>3, SumPush
  <2>2. Weight(e) = KeyLen + v.len BY <1>3 DEF Weight
  <2>3. nBytes = Sum(ll) BY DEF GCInv, BytesAccounted
  <2>4. nBytes' = Sum(ll') BY <1>1, <1>5, <2>1, <2>2, <2>3
  <2> QED BY <2>4 DEF BytesAccounted
<1>7. /\ gcClient' \in [GCClients -> {GCIdle} \cup [at : {"load"}, key : GCKeys]
                             \cup [at : {"populate"}, key : GCKeys, value : Value]
                             \cup {[at |-> "evict"]}]
      /\ \A a, b \in GCClients : gcClient'[a].at = "evict" /\ gcClient'[b].at = "evict" => a = b
      /\ ~Unlocked'
  <2> DEFINE x == [at |-> "evict"]
  <2>1. x.at = "evict" OBVIOUS
  <2>2. x \in {GCIdle} \cup [at : {"load"}, key : GCKeys]
             \cup [at : {"populate"}, key : GCKeys, value : Value] \cup {[at |-> "evict"]}
    OBVIOUS
  <2>3. gcClient' = [gcClient EXCEPT ![c] = x] BY <1>1
  <2> HIDE DEF x
  <2> QED BY <1>1, <2>1, <2>2, <2>3, ClientMoves DEF GCInv
<1>8. GCTypeOK'
  <2>1. Touch(k) \subseteq GCKeys \X GCKeys BY <1>2, TouchType DEF GCInv, GCTypeOK
  <2>2. nBytes' \in Int BY <1>1, <1>5
  <2>3. ll' \in Seq(Entry) BY <1>4 DEF ListInv
  <2> QED BY <1>1, <1>2, <1>7, <2>1, <2>2, <2>3 DEF GCInv, GCTypeOK
<1>9. OverLimitOnlyByReplacing' BY <1>7 DEF OverLimitOnlyByReplacing
<1> QED BY <1>4, <1>6, <1>8, <1>9 DEF GCInv

\* One turn of the eviction loop.
LEMMA EvictKeeps ==
    ASSUME GCInv, NEW c \in GCClients, RemoveOldest(c)
    PROVE  /\ GCInv'
           /\ \A k \in cache \ cache' : /\ MaxBytes # 0 /\ nBytes > MaxBytes
                                        /\ \A j \in cache' : <<j, k>> \in later
<1>1. /\ gcClient[c].at = "evict" /\ OverLimit /\ ll # <<>>
      /\ ll' = Front(ll) /\ cache' = cache \ {Last(ll).key}
      /\ nBytes' = nBytes - (KeyLen + Last(ll).value.len)
      /\ UNCHANGED <<source, gcClient, later, replaced>>
  BY DEF RemoveOldest
<1>2. ll \in Seq(Entry) /\ nBytes \in Int BY DEF GCInv, GCTypeOK
<1>3. ListInv' /\ \A j \in cache' : <<j, Last(ll).key>> \in later BY <1>1, ListPopped DEF GCInv
<1>4. Last(ll) \in Entry BY <1>1, <1>2 DEF Last
<1>5. KeyLen \in Int /\ Last(ll).value.len \in Int /\ Weight(Last(ll)) = KeyLen + Last(ll).value.len
  BY <1>4, WeightType DEF Weight
<1>6. BytesAccounted'
  <2>1. Sum(ll') = Sum(ll) - Weight(Last(ll)) BY <1>1, <1>2, SumFront
  <2>2. nBytes = Sum(ll) BY DEF GCInv, BytesAccounted
  <2>3. nBytes' = Sum(ll') BY <1>1, <1>2, <1>5, <2>1, <2>2
  <2> QED BY <2>3 DEF BytesAccounted
<1>7. GCTypeOK'
  <2>1. nBytes' \in Int BY <1>1, <1>2, <1>5
  <2>2. ll' \in Seq(Entry) BY <1>3 DEF ListInv
  <2> QED BY <1>1, <2>1, <2>2 DEF GCInv, GCTypeOK
<1>8. OverLimitOnlyByReplacing' BY <1>1 DEF OverLimitOnlyByReplacing, Unlocked
<1>9. MaxBytes # 0 /\ nBytes > MaxBytes BY <1>1, <1>2, LimitIsNat DEF OverLimit
<1> QED BY <1>1, <1>3, <1>6, <1>7, <1>8, <1>9 DEF GCInv

\* The steps that leave list, map and count alone.
LEMMA OthersKeep ==
    ASSUME GCInv,
           \/ \E c \in GCClients : \/ \E k \in GCKeys : GCGetMiss(c, k)
                                   \/ GetterReturns(c) \/ GetterFails(c) \/ AddReturns(c)
           \/ \E k \in GCKeys : SourceChange(k)
           \/ UNCHANGED gcVars
    PROVE  GCInv'
<1> DEFINE Client == {GCIdle} \cup [at : {"load"}, key : GCKeys]
                     \cup [at : {"populate"}, key : GCKeys, value : Value] \cup {[at |-> "evict"]}
<1>1. ASSUME UNCHANGED <<ll, cache, nBytes, later, replaced>>, source' \in [GCKeys -> Value],
             gcClient' \in [GCClients -> Client],
             \A a, b \in GCClients : gcClient'[a].at = "evict" /\ gcClient'[b].at = "evict" => a = b,
             (Unlocked' <=> Unlocked) \/ ~OverLimit
      PROVE  GCInv'
  <2>1. GCTypeOK' BY <1>1 DEF GCInv, GCTypeOK
  <2>2. ListInv' BY <1>1 DEF GCInv, ListInv
  <2>3. BytesAccounted' BY <1>1 DEF GCInv, BytesAccounted
  <2>4. OverLimitOnlyByReplacing'
    BY <1>1, LimitIsNat DEF GCInv, GCTypeOK, OverLimitOnlyByReplacing, OverLimit
  <2> QED BY <2>1, <2>2, <2>3, <2>4 DEF GCInv
<1>2. GCTypeOK BY DEF GCInv
<1>3. source \in [GCKeys -> Value] BY <1>2 DEF GCTypeOK
<1>4. GCIdle.at # "evict" /\ GCIdle \in Client BY DEF GCIdle
<1>5. ASSUME NEW c \in GCClients, NEW k \in GCKeys, GCGetMiss(c, k) PROVE GCInv'
  <2> DEFINE x == [at |-> "load", key |-> k]
  <2>1. gcClient' = [gcClient EXCEPT ![c] = x] /\ UNCHANGED <<source, ll, cache, nBytes, later, replaced>>
    BY <1>5 DEF GCGetMiss
  <2>2. x \in Client /\ x.at # "evict" OBVIOUS
  <2>3. gcClient[c].at # "evict" BY <1>5 DEF GCGetMiss, GCIdle
  <2> HIDE DEF x
  <2>4. /\ gcClient' \in [GCClients -> Client] /\ (Unlocked' <=> Unlocked)
        /\ \A a, b \in GCClients : gcClient'[a].at = "evict" /\ gcClient'[b].at = "evict" => a = b
    BY <1>2, <2>1, <2>2, <2>3, ClientMoves
  <2> QED BY <1>1, <1>3, <2>1, <2>4
<1>6. ASSUME NEW c \in GCClients, GetterReturns(c) PROVE GCInv'
  <2> DEFINE k == gcClient[c].key
             x == [at |-> "populate", key |-> k, value |-> source[k]]
  <2>1. gcClient' = [gcClient EXCEPT ![c] = x] /\ UNCHANGED <<source, ll, cache, nBytes, later, replaced>>
    BY <1>2, <1>6 DEF GetterReturns, GCTypeOK
  <2>2. gcClient[c].at = "load" BY <1>6 DEF GetterReturns
  <2>3. k \in GCKeys BY <1>2, <2>2, ClientFields
  <2>4. x \in Client /\ x.at # "evict" BY <1>3, <2>3
  <2>5. gcClient[c].at # "evict" BY <2>2
  <2> HIDE DEF x
  <2>6. /\ gcClient' \in [GCClients -> Client] /\ (Unlocked' <=> Unlocked)
        /\ \A a, b \in GCClients : gcClient'[a].at = "evict" /\ gcClient'[b].at = "evict" => a = b
    BY <1>2, <2>1, <2>4, <2>5, ClientMoves
  <2> QED BY <1>1, <1>3, <2>1, <2>6
<1>7. ASSUME NEW c \in GCClients, GetterFails(c) PROVE GCInv'
  <2>1. gcClient' = [gcClient EXCEPT ![c] = GCIdle] /\ UNCHANGED <<source, ll, cache, nBytes, later, replaced>>
        /\ gcClient[c].at # "evict"
    BY <1>7 DEF GetterFails
  <2>2. /\ gcClient' \in [GCClients -> Client] /\ (Unlocked' <=> Unlocked)
        /\ \A a, b \in GCClients : gcClient'[a].at = "evict" /\ gcClient'[b].at = "evict" => a = b
    BY <1>2, <1>4, <2>1, ClientMoves
  <2> QED BY <1>1, <1>3, <2>1, <2>2
<1>8. ASSUME NEW c \in GCClients, AddReturns(c) PROVE GCInv'
  <2>1. gcClient' = [gcClient EXCEPT ![c] = GCIdle] /\ UNCHANGED <<source, ll, cache, nBytes, later, replaced>>
        /\ ~OverLimit
    BY <1>8 DEF AddReturns
  <2>2. /\ gcClient' \in [GCClients -> Client]
        /\ \A a, b \in GCClients : gcClient'[a].at = "evict" /\ gcClient'[b].at = "evict" => a = b
    BY <1>2, <1>4, <2>1, ClientMoves
  <2> QED BY <1>1, <1>3, <2>1, <2>2
<1>9. ASSUME NEW k \in GCKeys, SourceChange(k) PROVE GCInv'
  <2>1. PICK n \in ValueLens : source' = [source EXCEPT ![k] = [ver |-> source[k].ver + 1, len |-> n]]
    BY <1>3, <1>9 DEF SourceChange
  <2>2. source[k].ver \in 0 .. GCMaxVersion /\ source[k].ver < GCMaxVersion BY <1>3, <1>9 DEF SourceChange, Value
  <2>3. source[k].ver + 1 \in 0 .. GCMaxVersion BY <2>2, LimitIsNat
  <2>4. [ver |-> source[k].ver + 1, len |-> n] \in Value BY <2>3 DEF Value
  <2>5. source' \in [GCKeys -> Value] BY <1>3, <2>1, <2>4
  <2>6. UNCHANGED <<ll, cache, nBytes, gcClient, later, replaced>> BY <1>9 DEF SourceChange
  <2>7. Unlocked' <=> Unlocked BY <2>6 DEF Unlocked
  <2> QED BY <1>1, <1>2, <2>5, <2>6, <2>7 DEF GCTypeOK
<1>10. CASE UNCHANGED gcVars
  <2>1. Unlocked' <=> Unlocked BY <1>10 DEF gcVars, Unlocked
  <2> QED BY <1>1, <1>2, <1>10, <2>1 DEF gcVars, GCTypeOK
<1> QED BY <1>5, <1>6, <1>7, <1>8, <1>9, <1>10

\* Group.Get over the LRU cache, for any keys, clients, lengths and limit: list, map and
\* byte count agree, the limit is only exceeded after a replacement, and eviction takes
\* the least recently used entry, and only over the limit.
THEOREM LRUIsCorrect == GCSpec => LRUCorrect
<1>1. GCInv /\ [GCNext]_gcVars => GCInv'
  BY HitKeeps, UpdateKeeps, NewKeeps, EvictKeeps, OthersKeep DEF GCNext, Get
<1>2. GCInv => MapMatchesList /\ BytesAccounted /\ OverLimitOnlyByReplacing
  <2> SUFFICES ASSUME GCInv PROVE MapMatchesList BY DEF GCInv
  <2>1. ListInv /\ GCTypeOK BY DEF GCInv
  <2> QED BY <2>1 DEF ListInv, MapMatchesList, GCKeysOf, ToSet, IsInjective
<1>3. GCInv /\ [GCNext]_gcVars =>
        [\A k \in cache \ cache' : /\ MaxBytes # 0 /\ nBytes > MaxBytes
                                   /\ \A j \in cache' : <<j, k>> \in later]_gcVars
  <2> SUFFICES ASSUME GCInv, GCNext
               PROVE  \A k \in cache \ cache' : /\ MaxBytes # 0 /\ nBytes > MaxBytes
                                                /\ \A j \in cache' : <<j, k>> \in later
    OBVIOUS
  <2>1. ASSUME NEW c \in GCClients, RemoveOldest(c)
        PROVE  \A k \in cache \ cache' : /\ MaxBytes # 0 /\ nBytes > MaxBytes
                                         /\ \A j \in cache' : <<j, k>> \in later
    BY <2>1, EvictKeeps
  <2>2. ASSUME NEW c \in GCClients, Get(c), ~RemoveOldest(c) PROVE cache \ cache' = {}
    BY <2>2 DEF Get, GCGetHit, GCGetMiss, GetterReturns, GetterFails, AddUpdate, AddNew, AddReturns
  <2>3. ASSUME NEW k \in GCKeys, SourceChange(k) PROVE cache' = cache BY <2>3 DEF SourceChange
  <2> QED BY <2>1, <2>2, <2>3 DEF GCNext
<1> QED BY <1>1, <1>2, <1>3, GCInitInv, PTL DEF GCSpec, LRUCorrect, EvictsOldestOnly

-----------------------------------------------------------------------------
(* geecache's peers.                                                       *)

\* The places of s that hold at most x, and those that hold less.
AtMost(s, x) == {j \in DOMAIN s : s[j] <= x}
Below(s, x) == {j \in DOMAIN s : s[j] < x}

\* There are n numbers from 1 to n.
LEMMA UpTo == ASSUME NEW n \in Nat PROVE IsFiniteSet(1 .. n) /\ Cardinality(1 .. n) = n
<1>1. IsFiniteSet(1 .. n) /\ Cardinality(1 .. n) = IF 1 > n THEN 0 ELSE n - 1 + 1 BY FS_Interval
<1> QED BY <1>1

\* The places grow with the number they are compared to, and are no more than there are.
LEMMA PlacesCounted ==
    ASSUME NEW s \in Seq(Nat)
    PROVE  /\ \A x \in Nat : /\ Cardinality(AtMost(s, x)) \in Nat /\ Cardinality(AtMost(s, x)) <= Len(s)
                             /\ Cardinality(Below(s, x)) \in Nat
           /\ \A x, y \in Nat : x < y => Cardinality(AtMost(s, x)) <= Cardinality(Below(s, y))
           /\ \A x \in Nat : /\ Cardinality(Below(s, x)) <= Cardinality(AtMost(s, x))
                             /\ Cardinality(Below(s, x)) = Cardinality(AtMost(s, x))
                                    <=> (\A j \in DOMAIN s : s[j] # x)
<1>1. /\ IsFiniteSet(1 .. Len(s)) /\ Cardinality(1 .. Len(s)) = Len(s) /\ Len(s) \in Nat
      /\ DOMAIN s = 1 .. Len(s) /\ \A j \in DOMAIN s : s[j] \in Nat
  <2>1. Len(s) \in Nat /\ DOMAIN s = 1 .. Len(s) /\ \A j \in DOMAIN s : s[j] \in Nat OBVIOUS
  <2>2. IsFiniteSet(1 .. Len(s)) /\ Cardinality(1 .. Len(s)) = Len(s) BY <2>1, UpTo
  <2> QED BY <2>1, <2>2
<1>2. \A x \in Nat : AtMost(s, x) \in SUBSET (1 .. Len(s)) /\ Below(s, x) \in SUBSET AtMost(s, x)
  BY <1>1 DEF AtMost, Below
<1>3. \A x \in Nat : /\ IsFiniteSet(AtMost(s, x)) /\ IsFiniteSet(Below(s, x))
                     /\ Cardinality(AtMost(s, x)) <= Len(s)
                     /\ Cardinality(Below(s, x)) <= Cardinality(AtMost(s, x))
                     /\ Cardinality(Below(s, x)) = Cardinality(AtMost(s, x)) => Below(s, x) = AtMost(s, x)
  BY <1>1, <1>2, FS_Subset
<1>4. \A x \in Nat : Cardinality(AtMost(s, x)) \in Nat /\ Cardinality(Below(s, x)) \in Nat
  BY <1>3, FS_CardinalityType
<1>5. ASSUME NEW x \in Nat, NEW y \in Nat, x < y
      PROVE  Cardinality(AtMost(s, x)) <= Cardinality(Below(s, y))
  <2>1. AtMost(s, x) \in SUBSET Below(s, y) BY <1>1, <1>5 DEF AtMost, Below
  <2> QED BY <1>3, <2>1, FS_Subset
<1>6. ASSUME NEW x \in Nat
      PROVE  Below(s, x) = AtMost(s, x) <=> (\A j \in DOMAIN s : s[j] # x)
  BY <1>1 DEF AtMost, Below
<1> QED BY <1>1, <1>3, <1>4, <1>5, <1>6

\* Some number is as large as all of s.
LEMMA SomeBound ==
    ASSUME NEW s \in Seq(Nat)
    PROVE  \E b \in Nat : \A j \in DOMAIN s : s[j] <= b
<1> DEFINE left == {n \in Nat : \E b \in Nat : n = Len(s) - Cardinality(AtMost(s, b))}
<1>0. Len(s) \in Nat OBVIOUS
<1>1. \A b \in Nat : Cardinality(AtMost(s, b)) \in Nat /\ Cardinality(AtMost(s, b)) <= Len(s) BY PlacesCounted
<1>2. left # {}
  <2>1. Len(s) - Cardinality(AtMost(s, 0)) \in left BY <1>0, <1>1
  <2> QED BY <2>1
<1>3. PICK n \in left : \A l \in left : n <= l BY <1>2, LeastNumber
<1>4. PICK b \in Nat : n = Len(s) - Cardinality(AtMost(s, b)) BY <1>3
<1>5. ASSUME NEW j \in DOMAIN s, ~(s[j] <= b) PROVE FALSE
  <2>1. s[j] \in Nat /\ b < s[j] BY <1>5
  <2>2. Cardinality(AtMost(s, b)) <= Cardinality(Below(s, s[j])) BY <2>1, PlacesCounted
  <2>3. Cardinality(Below(s, s[j])) <= Cardinality(AtMost(s, s[j]))
        /\ Cardinality(Below(s, s[j])) # Cardinality(AtMost(s, s[j]))
        /\ Cardinality(Below(s, s[j])) \in Nat
    BY <1>5, <2>1, PlacesCounted
  <2>4. Len(s) - Cardinality(AtMost(s, s[j])) \in left
    <3>1. /\ Cardinality(AtMost(s, s[j])) \in Nat /\ Cardinality(AtMost(s, s[j])) <= Len(s)
      BY <1>1, <2>1, Zenon
    <3>2. Len(s) - Cardinality(AtMost(s, s[j])) \in Nat BY <1>0, <3>1
    <3> QED BY <2>1, <3>2
  <2>5. n <= Len(s) - Cardinality(AtMost(s, s[j])) BY <1>3, <2>4
  <2>6. Cardinality(AtMost(s, s[j])) \in Nat /\ Cardinality(AtMost(s, b)) \in Nat BY <1>1, <2>1
  <2> HIDE DEF left
  <2> QED BY <1>0, <1>4, <2>2, <2>3, <2>5, <2>6
<1> QED BY <1>5

\* The i-th place of Sorted: a number of s, with fewer than i smaller ones, and i or
\* more that are not larger.
Fits(s, i, x) == /\ x \in ToSet(s)
                 /\ Cardinality(Below(s, x)) < i /\ i <= Cardinality(AtMost(s, x))

\* Every place of a sorted sequence has a number that fits.
LEMMA SomeFits ==
    ASSUME NEW s \in Seq(Nat), NEW i \in DOMAIN s
    PROVE  \E x : Fits(s, i, x)
<1> DEFINE T == {x \in Nat : i <= Cardinality(AtMost(s, x))}
<1>1. i \in 1 .. Len(s) /\ Len(s) \in Nat /\ \A j \in DOMAIN s : s[j] \in Nat OBVIOUS
<1>2. PICK b \in Nat : \A j \in DOMAIN s : s[j] <= b BY SomeBound
<1>3. b \in T
  <2>1. AtMost(s, b) = 1 .. Len(s) BY <1>1, <1>2 DEF AtMost
  <2>2. Cardinality(AtMost(s, b)) = Len(s) BY <1>1, <2>1, UpTo
  <2> QED BY <1>1, <2>2
<1>4. PICK x \in T : \A y \in T : x <= y BY <1>3, LeastNumber
<1>5. Cardinality(Below(s, x)) < i
  <2>1. CASE x = 0
    <3>1. Below(s, x) = {} BY <1>1, <2>1 DEF Below
    <3> QED BY <1>1, <3>1, FS_EmptySet
  <2>2. CASE x # 0
    <3>1. x - 1 \in Nat /\ ~(x - 1 \in T) BY <1>4, <2>2
    <3>2. Below(s, x) = AtMost(s, x - 1) BY <1>1, <1>4 DEF Below, AtMost
    <3>3. Cardinality(Below(s, x)) \in Int BY <1>4, PlacesCounted
    <3> QED BY <1>1, <3>1, <3>2, <3>3
  <2> QED BY <2>1, <2>2
<1>6. i <= Cardinality(AtMost(s, x)) /\ x \in Nat BY <1>4
<1>7. x \in ToSet(s)
  <2>1. Cardinality(Below(s, x)) # Cardinality(AtMost(s, x)) BY <1>1, <1>5, <1>6, PlacesCounted
  <2> QED BY <1>6, <2>1, PlacesCounted DEF ToSet
<1> QED BY <1>5, <1>6, <1>7 DEF Fits

\* Sorted rearranges: the same numbers, in order.
LEMMA SortedIs ==
    ASSUME NEW s \in Seq(Nat)
    PROVE  /\ Sorted(s) \in Seq(Nat) /\ ToSet(Sorted(s)) = ToSet(s)
           /\ \A i, j \in DOMAIN Sorted(s) : i <= j => Sorted(s)[i] <= Sorted(s)[j]
<1> DEFINE t == Sorted(s)
<1>1. Len(s) \in Nat /\ DOMAIN s = 1 .. Len(s) /\ \A j \in DOMAIN s : s[j] \in Nat OBVIOUS
<1> DEFINE Place(i) == CHOOSE x \in ToSet(s) : /\ Cardinality({j \in DOMAIN s : s[j] < x}) < i
                                              /\ i <= Cardinality({j \in DOMAIN s : s[j] <= x})
<1>2. t = [i \in DOMAIN s |-> Place(i)] BY Zenon DEF Sorted
<1> HIDE DEF t, Place
<1>3. \A i \in DOMAIN s : Fits(s, i, t[i])
  <2> SUFFICES ASSUME NEW i \in DOMAIN s PROVE Fits(s, i, t[i]) OBVIOUS
  <2>0. t[i] = Place(i) BY <1>2
  <2>1. \E x \in ToSet(s) : /\ Cardinality({j \in DOMAIN s : s[j] < x}) < i
                            /\ i <= Cardinality({j \in DOMAIN s : s[j] <= x})
    BY SomeFits, Zenon DEF Fits, Below, AtMost
  <2>2. /\ t[i] \in ToSet(s) /\ Cardinality({j \in DOMAIN s : s[j] < t[i]}) < i
        /\ i <= Cardinality({j \in DOMAIN s : s[j] <= t[i]})
    BY <2>0, <2>1, Zenon DEF Place
  <2> QED BY <2>2, Zenon DEF Fits, Below, AtMost
<1>4. DOMAIN t = DOMAIN s /\ \A i \in DOMAIN s : t[i] \in ToSet(s) BY <1>2, <1>3 DEF Fits
<1>5. ToSet(s) \subseteq Nat BY <1>1 DEF ToSet
<1>6. t \in Seq(Nat)
  <2>1. t \in [1 .. Len(s) -> Nat] BY <1>1, <1>2, <1>4, <1>5
  <2>2. Len(s) \in Nat BY <1>1
  <2> QED BY <2>1, <2>2
<1>7. ASSUME NEW i \in DOMAIN s, NEW j \in DOMAIN s, i <= j, ~(t[i] <= t[j]) PROVE FALSE
  <2>1. t[i] \in Nat /\ t[j] \in Nat /\ t[j] < t[i] /\ i \in Int /\ j \in Int BY <1>1, <1>4, <1>5, <1>7
  <2>2. Cardinality(AtMost(s, t[j])) <= Cardinality(Below(s, t[i]))
        /\ Cardinality(AtMost(s, t[j])) \in Nat /\ Cardinality(Below(s, t[i])) \in Nat
    BY <2>1, PlacesCounted
  <2>3. j <= Cardinality(AtMost(s, t[j])) /\ Cardinality(Below(s, t[i])) < i BY <1>3 DEF Fits
  <2> QED BY <1>7, <2>1, <2>2, <2>3
<1>8. ASSUME NEW k \in DOMAIN s PROVE \E i \in DOMAIN s : t[i] = s[k]
  <2> DEFINE i == Cardinality(AtMost(s, s[k]))
  <2>1. s[k] \in Nat BY <1>1
  <2>2. /\ i \in Nat /\ i <= Len(s) /\ Cardinality(Below(s, s[k])) \in Nat
        /\ Cardinality(Below(s, s[k])) <= i /\ Cardinality(Below(s, s[k])) # i
    BY <1>8, <2>1, PlacesCounted
  <2> HIDE DEF i
  <2>3. i \in DOMAIN s BY <1>1, <2>2
  <2>4. t[i] \in Nat /\ Cardinality(Below(s, t[i])) < i /\ i <= Cardinality(AtMost(s, t[i]))
        /\ Cardinality(Below(s, t[i])) \in Nat /\ Cardinality(AtMost(s, t[i])) \in Nat
    BY <1>3, <1>4, <1>5, <2>3, PlacesCounted DEF Fits
  <2>5. CASE t[i] < s[k]
    <3>1. Cardinality(AtMost(s, t[i])) <= Cardinality(Below(s, s[k])) BY <2>1, <2>4, <2>5, PlacesCounted
    <3> QED BY <2>2, <2>4, <3>1
  <2>6. CASE s[k] < t[i]
    <3>1. i <= Cardinality(Below(s, t[i])) BY <2>1, <2>4, <2>6, PlacesCounted DEF i
    <3> QED BY <2>2, <2>4, <3>1
  <2> QED BY <2>1, <2>3, <2>4, <2>5, <2>6
<1>9. ToSet(t) = ToSet(s)
  <2>1. ToSet(t) \subseteq ToSet(s) BY <1>4, Zenon DEF ToSet
  <2>2. ToSet(s) \subseteq ToSet(t)
    <3>1. \A k \in DOMAIN s : s[k] \in ToSet(t) BY <1>4, <1>8, Zenon DEF ToSet
    <3> QED BY <3>1, Zenon DEF ToSet
  <2> QED BY <2>1, <2>2
<1> QED BY <1>4, <1>6, <1>7, <1>9 DEF t

\* The places of a concatenation.
LEMMA PlacesOfTwo ==
    ASSUME NEW a \in Nat, NEW b \in Nat
    PROVE  /\ \A i \in 1 .. a : i \in 1 .. a + b
           /\ \A i \in 1 .. b : a + i \in 1 .. a + b
           /\ \A i \in 1 .. a + b : i \in 1 .. a \/ \E j \in 1 .. b : i = a + j
<1>1. ASSUME NEW i \in 1 .. a + b, i \notin 1 .. a PROVE \E j \in 1 .. b : i = a + j
  <2>1. i - a \in 1 .. b /\ i = a + (i - a) BY <1>1
  <2> QED BY <2>1
<1> QED BY <1>1

\* The places of two with one between them.
LEMMA PlacesOfThree ==
    ASSUME NEW a \in Nat, NEW b \in Nat
    PROVE  /\ \A i \in 1 .. a : i \in 1 .. a + 1 + b
           /\ a + 1 \in 1 .. a + 1 + b
           /\ \A i \in 1 .. b : a + 1 + i \in 1 .. a + 1 + b
OBVIOUS

\* What is in them.
LEMMA ConcatIs ==
    ASSUME NEW S, NEW s \in Seq(S), NEW t \in Seq(S)
    PROVE  /\ s \o t \in Seq(S) /\ Len(s \o t) = Len(s) + Len(t)
           /\ \A i \in 1 .. Len(s) : (s \o t)[i] = s[i] /\ i \in 1 .. Len(s \o t)
           /\ \A i \in 1 .. Len(t) : (s \o t)[Len(s) + i] = t[i] /\ Len(s) + i \in 1 .. Len(s \o t)
<1>1. /\ Len(s) \in Nat /\ Len(t) \in Nat
      /\ s \o t \in Seq(S) /\ Len(s \o t) = Len(s) + Len(t)
      /\ \A i \in 1 .. Len(s) + Len(t) : (s \o t)[i] = IF i <= Len(s) THEN s[i] ELSE t[i - Len(s)]
  OBVIOUS
<1>2. ASSUME NEW i \in 1 .. Len(s) PROVE (s \o t)[i] = s[i] /\ i \in 1 .. Len(s \o t)
  <2>1. i \in 1 .. Len(s) + Len(t) /\ i <= Len(s) BY <1>1
  <2> QED BY <1>1, <2>1
<1>3. ASSUME NEW i \in 1 .. Len(t) PROVE (s \o t)[Len(s) + i] = t[i] /\ Len(s) + i \in 1 .. Len(s \o t)
  <2>1. Len(s) + i \in 1 .. Len(s) + Len(t) /\ ~(Len(s) + i <= Len(s)) /\ Len(s) + i - Len(s) = i BY <1>1
  <2> QED BY <1>1, <2>1
<1> QED BY <1>1, <1>2, <1>3

\* A concatenation holds what its parts hold.
LEMMA ToSetOfConcat ==
    ASSUME NEW S, NEW s \in Seq(S), NEW t \in Seq(S)
    PROVE  ToSet(s \o t) = ToSet(s) \cup ToSet(t)
<1> DEFINE u == s \o t
<1>1. /\ u \in Seq(S) /\ Len(u) = Len(s) + Len(t)
      /\ \A i \in 1 .. Len(s) : u[i] = s[i] /\ i \in 1 .. Len(u)
      /\ \A i \in 1 .. Len(t) : u[Len(s) + i] = t[i] /\ Len(s) + i \in 1 .. Len(u)
  BY ConcatIs
<1> HIDE DEF u
<1>2. /\ DOMAIN s = 1 .. Len(s) /\ DOMAIN t = 1 .. Len(t) /\ DOMAIN u = 1 .. Len(u)
      /\ Len(s) \in Nat /\ Len(t) \in Nat
  BY <1>1
<1>3. ASSUME NEW i \in DOMAIN u PROVE u[i] \in ToSet(s) \cup ToSet(t)
  <2>1. i \in 1 .. Len(s) \/ \E j \in 1 .. Len(t) : i = Len(s) + j
    <3>1. i \in 1 .. Len(s) + Len(t) /\ Len(s) \in Nat /\ Len(t) \in Nat BY <1>1, <1>2
    <3>2. \A j \in 1 .. Len(s) + Len(t) : j \in 1 .. Len(s) \/ \E l \in 1 .. Len(t) : j = Len(s) + l
      BY <3>1, PlacesOfTwo, Zenon
    <3> QED BY <3>1, <3>2, Zenon
  <2> QED BY <1>1, <1>2, <2>1, Zenon DEF ToSet
<1>4. ToSet(u) \subseteq ToSet(s) \cup ToSet(t) BY <1>3, Zenon DEF ToSet
<1>5. \A i \in DOMAIN s : s[i] \in ToSet(u) BY <1>1, <1>2, Zenon DEF ToSet
<1>6. \A i \in DOMAIN t : t[i] \in ToSet(u) BY <1>1, <1>2, Zenon DEF ToSet
<1>7. ToSet(s) \subseteq ToSet(u) /\ ToSet(t) \subseteq ToSet(u) BY <1>5, <1>6, Zenon DEF ToSet
<1> QED BY <1>4, <1>7 DEF u

\* The ring holds the hashes that lead to a node, in order.
RingInv ==
    /\ chKeys \in Seq(Nat)
    /\ \A i, j \in DOMAIN chKeys : i <= j => chKeys[i] <= chKeys[j]
    /\ DOMAIN chMap = ToSet(chKeys)

\* h is, of the hashes in R, the first that is not smaller than the hash g, or the
\* smallest one if all are.
Follows(h, R, g) ==
    /\ h \in R
    /\ \/ h >= g /\ \A x \in R : x >= g => h <= x
       \/ \A x \in R : x < g /\ h <= x

\* RingGet finds the node of the hash that follows the key's.
LEMMA RingGetIs ==
    ASSUME RingInv, NEW k \in GPKeys, chKeys # <<>>
    PROVE  \E h \in Nat : RingGet(k) = chMap[h] /\ Follows(h, ToSet(chKeys), GPHash[k])
<1> DEFINE g == GPHash[k]
           at == {i \in DOMAIN chKeys : chKeys[i] >= g}
           idx == IF at = {} THEN 1 ELSE CHOOSE i \in at : \A j \in at : i <= j
<1>1. /\ g \in Nat /\ Len(chKeys) \in Nat /\ DOMAIN chKeys = 1 .. Len(chKeys) /\ Len(chKeys) # 0
      /\ \A i \in DOMAIN chKeys : chKeys[i] \in Nat
  BY GPAssumption DEF RingInv
<1>2. \A i, j \in DOMAIN chKeys : i <= j => chKeys[i] <= chKeys[j] BY DEF RingInv
<1>3. RingGet(k) = chMap[chKeys[idx]] BY Zenon DEF RingGet
<1>4. idx \in DOMAIN chKeys /\ Follows(chKeys[idx], ToSet(chKeys), g)
  <2>1. CASE at = {}
    <3>1. idx = 1 /\ 1 \in DOMAIN chKeys BY <1>1, <2>1
    <3>2. \A j \in DOMAIN chKeys : chKeys[j] < g /\ chKeys[1] <= chKeys[j] BY <1>1, <1>2, <2>1, <3>1
    <3>3. \A x \in ToSet(chKeys) : x < g /\ chKeys[1] <= x BY <3>2, Zenon DEF ToSet
    <3>4. chKeys[1] \in ToSet(chKeys) BY <3>1, Zenon DEF ToSet
    <3> QED BY <3>1, <3>3, <3>4, Zenon DEF Follows
  <2>2. CASE at # {}
    <3>1. at \in SUBSET Nat BY <1>1
    <3>2. \E i \in at : \A j \in at : i <= j BY <2>2, <3>1, LeastNumber
    <3>3. idx \in at /\ \A j \in at : idx <= j BY <2>2, <3>2, Zenon
    <3> HIDE DEF idx
    <3>4. idx \in DOMAIN chKeys /\ chKeys[idx] >= g BY <3>3
    <3>5. \A j \in DOMAIN chKeys : chKeys[j] >= g => chKeys[idx] <= chKeys[j] BY <1>2, <3>3, <3>4
    <3>6. \A x \in ToSet(chKeys) : x >= g => chKeys[idx] <= x BY <3>5, Zenon DEF ToSet
    <3>7. chKeys[idx] \in ToSet(chKeys) BY <3>4, Zenon DEF ToSet
    <3> QED BY <3>4, <3>6, <3>7, Zenon DEF Follows
  <2> QED BY <2>1, <2>2
<1> HIDE DEF idx
<1>5. chKeys[idx] \in Nat BY <1>1, <1>4
<1> QED BY <1>3, <1>4, <1>5

\* So it does after a step.
LEMMA RingGetIsNext ==
    ASSUME NEW k \in GPKeys
    PROVE  (RingInv /\ chKeys # <<>> =>
              \E h \in Nat : RingGet(k) = chMap[h] /\ Follows(h, ToSet(chKeys), GPHash[k]))'
<1>1. RingInv /\ chKeys # <<>> =>
        \E h \in Nat : RingGet(k) = chMap[h] /\ Follows(h, ToSet(chKeys), GPHash[k])
  BY RingGetIs
<1> QED BY <1>1, PTL

\* Only one hash follows another, and one that is in a smaller set follows there too.
LEMMA FollowsOnce ==
    ASSUME NEW S \in SUBSET Nat, NEW R \in SUBSET S, NEW g \in Nat, NEW h \in Nat, NEW f \in Nat,
           Follows(f, S, g), Follows(h, R, g), f \in R
    PROVE  f = h
BY SMT DEF Follows

\* Place k of the replicas is one of the n nodes, and every node has a place.
LEMMA ReplicaOf ==
    ASSUME NEW r \in Nat \ {0}, NEW n \in Nat, NEW k \in 1 .. n * r
    PROVE  ((k - 1) \div r) + 1 \in 1 .. n
<1> DEFINE q == (k - 1) \div r
<1>1. q \in Int /\ r * q <= k - 1 /\ k - 1 < r * q + r BY Z3
<1> HIDE DEF q
<1>2. q >= 0 BY <1>1, Z3
<1>3. q < n BY <1>1, <1>2, Z3
<1> QED BY <1>1, <1>2, <1>3 DEF q

\* Every node has a replica.
LEMMA FirstReplica ==
    ASSUME NEW r \in Nat \ {0}, NEW n \in Nat, NEW i \in 1 .. n
    PROVE  \E k \in 1 .. n * r : ((k - 1) \div r) + 1 = i
<1>1. (i - 1) * r >= 0 BY Z3
<1>2. (i - 1) * r + r <= n * r BY Z3
<1>3. (i - 1) * r \in Int /\ n * r \in Int BY Z3
<1>4. ((i - 1) * r) \div r = i - 1 BY Z3
<1> DEFINE k == (i - 1) * r + 1
<1>5. k \in 1 .. n * r BY <1>1, <1>2, <1>3
<1>6. k - 1 = (i - 1) * r BY <1>3
<1>7. ((k - 1) \div r) + 1 = i BY <1>4, <1>6
<1> QED BY <1>5, <1>7

\* Add puts the hashes of the nodes into the ring; a hash of theirs leads to one of them,
\* and any other to where it led before.
LEMMA AddKeeps ==
    ASSUME RingInv, NEW nodes \in Seq(GPNodes), Len(nodes) \in {1, 2}, Add(nodes)
    PROVE  /\ RingInv'
           /\ chKeys' # <<>>
           /\ ToSet(chKeys)' = ToSet(chKeys) \cup {GPHash[nodes[i]] : i \in DOMAIN nodes}
           /\ \A h \in {GPHash[nodes[i]] : i \in DOMAIN nodes} : chMap'[h] \in chAdded'
           /\ \A h \in ToSet(chKeys) \ {GPHash[nodes[i]] : i \in DOMAIN nodes} : chMap'[h] = chMap[h]
<1> DEFINE hashes == {GPHash[nodes[i]] : i \in DOMAIN nodes}
           more == [i \in 1 .. Len(nodes) * GPReplicas |-> GPHash[nodes[((i - 1) \div GPReplicas) + 1]]]
           last(h) == CHOOSE i \in DOMAIN nodes : /\ GPHash[nodes[i]] = h
                                                  /\ \A j \in i + 1 .. Len(nodes) : GPHash[nodes[j]] # h
<1>1. /\ chKeys' = Sorted(chKeys \o more)
      /\ chMap' = [h \in DOMAIN chMap \cup hashes |-> IF h \in hashes THEN nodes[last(h)] ELSE chMap[h]]
      /\ chAdded' = ToSet(nodes)
  BY Zenon DEF Add
<1>2. /\ DOMAIN nodes = 1 .. Len(nodes) /\ Len(nodes) \in Nat
      /\ \A i \in DOMAIN nodes : GPHash[nodes[i]] \in Nat
      /\ GPReplicas \in Nat \ {0}
  BY GPAssumption
<1>3. /\ more \in Seq(Nat) /\ ToSet(more) = hashes
  <2> DEFINE n == Len(nodes) * GPReplicas
  <2>1. n \in Nat BY <1>2, Z3
  <2>2. \A i \in 1 .. n : ((i - 1) \div GPReplicas) + 1 \in DOMAIN nodes BY <1>2, ReplicaOf
  <2>3. \A j \in DOMAIN nodes : \E i \in 1 .. n : ((i - 1) \div GPReplicas) + 1 = j BY <1>2, FirstReplica
  <2>4. /\ DOMAIN more = 1 .. n
        /\ \A i \in 1 .. n : more[i] = GPHash[nodes[((i - 1) \div GPReplicas) + 1]]
    OBVIOUS
  <2> HIDE DEF n
  <2>5. more \in [1 .. n -> Nat]
    <3>1. \A i \in 1 .. n : GPHash[nodes[((i - 1) \div GPReplicas) + 1]] \in Nat BY <1>2, <2>2, Zenon
    <3> QED BY <3>1 DEF n
  <2> HIDE DEF more
  <2>6. more \in Seq(Nat) BY <2>1, <2>5
  <2>7. ToSet(more) \subseteq hashes
    <3>1. \A i \in 1 .. n : more[i] \in hashes BY <2>2, <2>4, Zenon
    <3> QED BY <2>4, <3>1, Zenon DEF ToSet
  <2>8. hashes \subseteq ToSet(more)
    <3>1. ASSUME NEW j \in DOMAIN nodes PROVE \E i \in DOMAIN more : more[i] = GPHash[nodes[j]]
      <4>1. PICK i \in 1 .. n : ((i - 1) \div GPReplicas) + 1 = j BY <2>3
      <4>2. more[i] = GPHash[nodes[j]] BY <2>4, <4>1, Zenon
      <4> QED BY <2>4, <4>2
    <3>2. \A j \in DOMAIN nodes : GPHash[nodes[j]] \in ToSet(more) BY <3>1, Zenon DEF ToSet
    <3> QED BY <3>2
  <2> QED BY <2>6, <2>7, <2>8
<1>4. /\ chKeys \o more \in Seq(Nat) /\ ToSet(chKeys \o more) = ToSet(chKeys) \cup hashes
  <2> HIDE DEF more, hashes
  <2>1. chKeys \in Seq(Nat) BY DEF RingInv
  <2>2. chKeys \o more \in Seq(Nat) BY <1>3, <2>1
  <2>3. ToSet(chKeys \o more) = ToSet(chKeys) \cup ToSet(more) BY <1>3, <2>1, ToSetOfConcat
  <2> QED BY <1>3, <2>2, <2>3
<1>5. /\ chKeys' \in Seq(Nat) /\ ToSet(chKeys') = ToSet(chKeys) \cup hashes
      /\ \A i, j \in DOMAIN chKeys' : i <= j => chKeys'[i] <= chKeys'[j]
  <2> HIDE DEF more, hashes
  <2> QED BY <1>1, <1>4, SortedIs
<1>6. DOMAIN chMap' = ToSet(chKeys')
  <2> HIDE DEF more, hashes, last
  <2> QED BY <1>1, <1>5 DEF RingInv
<1>7. ToSet(chKeys)' = ToSet(chKeys') BY DEF ToSet
<1>8. RingInv' BY <1>5, <1>6, <1>7 DEF RingInv
<1>9. chKeys' # <<>>
  <2>1. GPHash[nodes[1]] \in hashes BY <1>2
  <2>2. GPHash[nodes[1]] \in ToSet(chKeys') BY <1>5, <2>1
  <2> QED BY <1>5, <2>2 DEF ToSet
<1>10. ASSUME NEW h \in hashes PROVE chMap'[h] \in chAdded'
  <2>1. PICK i \in DOMAIN nodes : GPHash[nodes[i]] = h OBVIOUS
  <2>2. \E l \in DOMAIN nodes : /\ GPHash[nodes[l]] = h
                                /\ \A j \in l + 1 .. Len(nodes) : GPHash[nodes[j]] # h
    <3>1. CASE Len(nodes) = 2 /\ GPHash[nodes[2]] = h
      <4>1. 2 \in DOMAIN nodes /\ 2 + 1 .. Len(nodes) = {} BY <1>2, <3>1
      <4> QED BY <3>1, <4>1
    <3>2. CASE Len(nodes) = 2 /\ GPHash[nodes[2]] # h
      <4>1. i = 1 /\ 1 + 1 .. Len(nodes) = {2} BY <1>2, <2>1, <3>2
      <4> QED BY <2>1, <3>2, <4>1
    <3>3. CASE Len(nodes) = 1
      <4>1. i = 1 /\ 1 + 1 .. Len(nodes) = {} BY <1>2, <2>1, <3>3
      <4> QED BY <2>1, <4>1
    <3> QED BY <3>1, <3>2, <3>3
  <2>3. last(h) \in DOMAIN nodes BY <2>2, Zenon
  <2> HIDE DEF last
  <2>4. chMap'[h] = nodes[last(h)] BY <1>1
  <2> QED BY <1>1, <2>3, <2>4, Zenon DEF ToSet
<1>11. ASSUME NEW h \in ToSet(chKeys) \ hashes PROVE chMap'[h] = chMap[h]
  <2> HIDE DEF last, hashes, more
  <2>1. h \in DOMAIN chMap BY DEF RingInv
  <2> QED BY <1>1, <2>1
<1> QED BY <1>5, <1>7, <1>8, <1>9, <1>10, <1>11

\* Add takes keys to the nodes it adds and moves no key between the others.
LEMMA AddMoves ==
    ASSUME RingInv, NEW nodes \in Seq(GPNodes), Len(nodes) \in {1, 2}, Add(nodes), NEW k \in GPKeys
    PROVE  RingGet(k)' # RingGet(k) => RingGet(k)' \in chAdded'
<1> DEFINE hashes == {GPHash[nodes[i]] : i \in DOMAIN nodes}
<1>1. /\ RingInv' /\ chKeys' # <<>> /\ ToSet(chKeys)' = ToSet(chKeys) \cup hashes
      /\ \A h \in hashes : chMap'[h] \in chAdded'
      /\ \A h \in ToSet(chKeys) \ hashes : chMap'[h] = chMap[h]
  BY AddKeeps
<1> HIDE DEF hashes
<1>2. PICK f \in Nat : RingGet(k)' = chMap'[f] /\ Follows(f, ToSet(chKeys)', GPHash[k])
  BY <1>1, RingGetIsNext
<1>3. CASE f \in hashes BY <1>1, <1>2, <1>3
<1>4. CASE f \notin hashes
  <2>1. f \in ToSet(chKeys) BY <1>1, <1>2, <1>4 DEF Follows
  <2>2. chKeys # <<>> BY <2>1 DEF ToSet
  <2>3. PICK h \in Nat : RingGet(k) = chMap[h] /\ Follows(h, ToSet(chKeys), GPHash[k]) BY <2>2, RingGetIs
  <2>4. ToSet(chKeys)' \in SUBSET Nat /\ ToSet(chKeys) \in SUBSET ToSet(chKeys)'
    <3>1. ToSet(chKeys') \in SUBSET Nat BY <1>1 DEF RingInv, ToSet
    <3>2. ToSet(chKeys)' = ToSet(chKeys') BY DEF ToSet
    <3> QED BY <1>1, <3>1, <3>2
  <2>5. f = h
    <3>1. GPHash[k] \in Nat BY GPAssumption
    <3> DEFINE S == ToSet(chKeys)'
               R == ToSet(chKeys)
    <3>2. S \in SUBSET Nat /\ R \in SUBSET S /\ f \in R /\ Follows(f, S, GPHash[k]) /\ Follows(h, R, GPHash[k])
      BY <1>2, <2>1, <2>3, <2>4
    <3> HIDE DEF S, R
    <3> QED BY <3>1, <3>2, FollowsOnce
  <2> QED BY <1>1, <1>2, <1>4, <2>1, <2>3, <2>5
<1> QED BY <1>3, <1>4

\* A remote Get.  The path of one that was sent is that of its group and key.
CallInv ==
    /\ DOMAIN gpCall = {"pc", "group", "key", "path", "got"}
    /\ gpCall.pc = "sent" => /\ gpCall.group \in GPNames /\ gpCall.key \in GPNames
                             /\ gpCall.path = PathUnescape(
                                    QueryEscape(gpCall.group) \o <<"/">> \o QueryEscape(gpCall.key))
    /\ AskedIsServed

\* The characters of names, and what escaping makes of some.
Marks == STRING \cup {" ", "+", "/", "%2F", "%2B"}

\* Escaping changes characters one by one.
LEMMA EscapeIs ==
    ASSUME NEW s \in Seq(Marks), NEW r, r = QueryEscape(s)
    PROVE  /\ r \in Seq(Marks) /\ Len(r) = Len(s)
           /\ \A i \in 1 .. Len(s) : /\ s[i] = "/" => r[i] = "%2F"
                                     /\ s[i] = "+" => r[i] = "%2B"
                                     /\ s[i] \notin {" ", "/", "+"} => r[i] = s[i]
<1>1. Len(s) \in Nat /\ DOMAIN s = 1 .. Len(s) /\ \A i \in 1 .. Len(s) : s[i] \in Marks OBVIOUS
<1>2. DOMAIN r = 1 .. Len(s) /\ r = [i \in 1 .. Len(s) |-> r[i]] BY <1>1 DEF QueryEscape
<1>3. ASSUME NEW i \in 1 .. Len(s)
      PROVE  /\ s[i] = " " => r[i] = "+"
             /\ s[i] = "/" => r[i] = "%2F"
             /\ s[i] = "+" => r[i] = "%2B"
             /\ s[i] \notin {" ", "/", "+"} => r[i] = s[i]
  BY <1>1 DEF QueryEscape
<1>4. \A i \in 1 .. Len(s) : r[i] \in Marks BY <1>1, <1>3 DEF Marks
<1>5. r \in [1 .. Len(s) -> Marks] BY <1>2, <1>4
<1>6. r \in Seq(Marks) /\ Len(r) = Len(s) BY <1>1, <1>5
<1> QED BY <1>3, <1>6

\* So does unescaping.
LEMMA UnescapeIs ==
    ASSUME NEW s \in Seq(Marks), NEW r, r = PathUnescape(s)
    PROVE  /\ r \in Seq(Marks) /\ Len(r) = Len(s)
           /\ \A i \in 1 .. Len(s) : /\ s[i] = "%2F" => r[i] = "/"
                                     /\ s[i] = "%2B" => r[i] = "+"
                                     /\ s[i] \notin {"%2F", "%2B"} => r[i] = s[i]
<1>1. Len(s) \in Nat /\ DOMAIN s = 1 .. Len(s) /\ \A i \in 1 .. Len(s) : s[i] \in Marks OBVIOUS
<1>2. DOMAIN r = 1 .. Len(s) /\ r = [i \in 1 .. Len(s) |-> r[i]] BY <1>1 DEF PathUnescape
<1>3. ASSUME NEW i \in 1 .. Len(s)
      PROVE  /\ s[i] = "%2F" => r[i] = "/"
             /\ s[i] = "%2B" => r[i] = "+"
             /\ s[i] \notin {"%2F", "%2B"} => r[i] = s[i]
  BY <1>1 DEF PathUnescape
<1>4. \A i \in 1 .. Len(s) : r[i] \in Marks BY <1>1, <1>3 DEF Marks
<1>5. r \in [1 .. Len(s) -> Marks] BY <1>2, <1>4
<1>6. r \in Seq(Marks) /\ Len(r) = Len(s) BY <1>1, <1>5
<1> QED BY <1>3, <1>6

\* A name consists of characters, none of them the escape of one.
LEMMA NameIs ==
    ASSUME NEW n \in GPNames
    PROVE  /\ n \in Seq(Marks) /\ Len(n) \in Nat /\ DOMAIN n = 1 .. Len(n)
           /\ \A i \in 1 .. Len(n) : n[i] # "%2F" /\ n[i] # "%2B"
<1>1. n \in Seq(STRING) /\ ToSet(n) \cap {"%2F", "%2B"} = {} BY GPAssumption
<1>2. Len(n) \in Nat /\ DOMAIN n = 1 .. Len(n) /\ n \in [1 .. Len(n) -> STRING] BY <1>1
<1>3. STRING \subseteq Marks BY DEF Marks
<1>4. n \in [1 .. Len(n) -> Marks] BY <1>2, <1>3
<1>5. \A i \in 1 .. Len(n) : n[i] \in ToSet(n) BY <1>2, Zenon DEF ToSet
<1>6. n \in Seq(Marks) BY <1>2, <1>4
<1>7. \A i \in 1 .. Len(n) : n[i] # "%2F" /\ n[i] # "%2B" BY <1>1, <1>5
<1> QED BY <1>2, <1>6, <1>7

\* p is a, a mark and b.
Joined(p, a, x, b) ==
    /\ p \in Seq(Marks) /\ Len(p) = Len(a) + 1 + Len(b)
    /\ \A i \in 1 .. Len(a) : p[i] = a[i]
    /\ p[Len(a) + 1] = x
    /\ \A i \in 1 .. Len(b) : p[Len(a) + 1 + i] = b[i]

\* A concatenation with a mark in the middle is joined.
LEMMA JoinedIs ==
    ASSUME NEW a \in Seq(Marks), NEW b \in Seq(Marks), NEW x \in Marks
    PROVE  Joined(a \o <<x>> \o b, a, x, b)
<1> DEFINE t == <<x>>
           u == a \o t
           p == u \o b
<1>1. Len(a) \in Nat /\ Len(b) \in Nat OBVIOUS
<1>2. t \in Seq(Marks) /\ Len(t) = 1 /\ t[1] = x OBVIOUS
<1> HIDE DEF t
<1>3. /\ u \in Seq(Marks) /\ Len(u) = Len(a) + Len(t)
      /\ \A i \in 1 .. Len(a) : u[i] = a[i] /\ i \in 1 .. Len(u)
      /\ \A i \in 1 .. Len(t) : u[Len(a) + i] = t[i] /\ Len(a) + i \in 1 .. Len(u)
  BY <1>2, ConcatIs
<1> HIDE DEF u
<1>4. /\ p \in Seq(Marks) /\ Len(p) = Len(u) + Len(b)
      /\ \A i \in 1 .. Len(u) : p[i] = u[i] /\ i \in 1 .. Len(p)
      /\ \A i \in 1 .. Len(b) : p[Len(u) + i] = b[i] /\ Len(u) + i \in 1 .. Len(p)
  BY <1>3, ConcatIs
<1> HIDE DEF p
<1>5. Joined(p, a, x, b)
  <2>1. 1 \in 1 .. Len(t) BY <1>2
  <2>2. u[Len(a) + 1] = x /\ Len(a) + 1 \in 1 .. Len(u) /\ Len(u) = Len(a) + 1 BY <1>2, <1>3, <2>1
  <2> QED BY <1>3, <1>4, <2>2 DEF Joined
<1> QED BY <1>5 DEF p, u, t

\* Where there is no space in them, the path is the group, a slash and the key.
LEMMA PathIs ==
    ASSUME NEW g \in GPNames, NEW k \in GPNames, ~Contains(g \o k, " ")
    PROVE  Joined(PathUnescape(QueryEscape(g) \o <<"/">> \o QueryEscape(k)), g, "/", k)
<1> DEFINE qg == QueryEscape(g)
           qk == QueryEscape(k)
           q == qg \o <<"/">> \o qk
           p == PathUnescape(q)
<1>1. /\ g \in Seq(Marks) /\ k \in Seq(Marks) /\ Len(g) \in Nat /\ Len(k) \in Nat
      /\ \A i \in 1 .. Len(g) : g[i] # "%2F" /\ g[i] # "%2B"
      /\ \A i \in 1 .. Len(k) : k[i] # "%2F" /\ k[i] # "%2B"
  BY NameIs
<1>2. /\ \A i \in 1 .. Len(g) : g[i] # " "
      /\ \A i \in 1 .. Len(k) : k[i] # " "
  <2>1. /\ \A i \in 1 .. Len(g) : (g \o k)[i] = g[i] /\ i \in 1 .. Len(g \o k)
        /\ \A i \in 1 .. Len(k) : (g \o k)[Len(g) + i] = k[i] /\ Len(g) + i \in 1 .. Len(g \o k)
    BY <1>1, ConcatIs
  <2>2. \A i \in 1 .. Len(g \o k) : (g \o k)[i] # " " BY Zenon DEF Contains
  <2> QED BY <2>1, <2>2, Zenon
<1>3. /\ qg \in Seq(Marks) /\ Len(qg) = Len(g) /\ qk \in Seq(Marks) /\ Len(qk) = Len(k)
      /\ \A i \in 1 .. Len(g) : /\ g[i] = "/" => qg[i] = "%2F"
                                /\ g[i] = "+" => qg[i] = "%2B"
                                /\ g[i] \notin {" ", "/", "+"} => qg[i] = g[i]
      /\ \A i \in 1 .. Len(k) : /\ k[i] = "/" => qk[i] = "%2F"
                                /\ k[i] = "+" => qk[i] = "%2B"
                                /\ k[i] \notin {" ", "/", "+"} => qk[i] = k[i]
  BY <1>1, EscapeIs, Zenon
<1> HIDE DEF qg, qk
<1>4. Joined(q, qg, "/", qk)
  <2>1. "/" \in Marks BY DEF Marks
  <2> QED BY <1>3, <2>1, JoinedIs, Zenon
<1> HIDE DEF q
<1>5. q \in Seq(Marks) BY <1>4 DEF Joined
<1>6. /\ p \in Seq(Marks) /\ Len(p) = Len(q)
      /\ \A i \in 1 .. Len(q) : /\ q[i] = "%2F" => p[i] = "/"
                                /\ q[i] = "%2B" => p[i] = "+"
                                /\ q[i] \notin {"%2F", "%2B"} => p[i] = q[i]
  BY <1>5, UnescapeIs, Zenon
<1> HIDE DEF p
<1>7. /\ Len(q) = Len(g) + 1 + Len(k)
      /\ \A i \in 1 .. Len(g) : q[i] = qg[i] /\ i \in 1 .. Len(q)
      /\ q[Len(g) + 1] = "/" /\ Len(g) + 1 \in 1 .. Len(q)
      /\ \A i \in 1 .. Len(k) : q[Len(g) + 1 + i] = qk[i] /\ Len(g) + 1 + i \in 1 .. Len(q)
  <2>1. /\ Len(q) = Len(g) + 1 + Len(k)
        /\ \A i \in 1 .. Len(g) : q[i] = qg[i]
        /\ q[Len(g) + 1] = "/"
        /\ \A i \in 1 .. Len(k) : q[Len(g) + 1 + i] = qk[i]
    BY <1>3, <1>4, Zenon DEF Joined
  <2>2. Len(g) \in Nat /\ Len(k) \in Nat BY <1>1, Zenon
  <2> QED BY <2>1, <2>2, PlacesOfThree, Zenon
<1>8. ASSUME NEW i \in 1 .. Len(g) PROVE p[i] = g[i]
  <2>1. i \in 1 .. Len(q) /\ q[i] = qg[i] /\ g[i] \notin {" ", "%2F", "%2B"} BY <1>1, <1>2, <1>7, Zenon
  <2> QED BY <1>3, <1>6, <2>1
<1>9. ASSUME NEW i \in 1 .. Len(k) PROVE p[Len(g) + 1 + i] = k[i]
  <2>1. /\ Len(g) + 1 + i \in 1 .. Len(q) /\ q[Len(g) + 1 + i] = qk[i]
        /\ k[i] \notin {" ", "%2F", "%2B"}
    BY <1>1, <1>2, <1>7, Zenon
  <2> QED BY <1>3, <1>6, <2>1
<1>10. p[Len(g) + 1] = "/" BY <1>6, <1>7
<1>11. Joined(p, g, "/", k)
  <2>1. Len(p) = Len(g) + 1 + Len(k) BY <1>6, <1>7
  <2> QED BY <1>6, <1>8, <1>9, <1>10, <2>1, Zenon DEF Joined
<1> QED BY <1>11, Zenon DEF p, q, qg, qk

\* What is joined at its first slash is taken apart there.
LEMMA SplitIs ==
    ASSUME NEW g \in Seq(Marks), NEW k \in Seq(Marks), ~Contains(g, "/"), NEW p, Joined(p, g, "/", k)
    PROVE  SubSeq(p, FirstSlash(p) + 1, Len(p)) = k
<1>1. /\ p \in Seq(Marks) /\ Len(p) = Len(g) + 1 + Len(k)
      /\ \A i \in 1 .. Len(g) : p[i] = g[i]
      /\ p[Len(g) + 1] = "/"
      /\ \A i \in 1 .. Len(k) : p[Len(g) + 1 + i] = k[i]
  BY DEF Joined
<1>2. Len(g) \in Nat /\ Len(k) \in Nat OBVIOUS
<1>3. DOMAIN p = 1 .. Len(p) BY <1>1
<1>4. \A i \in 1 .. Len(g) : p[i] # "/" BY <1>1, Zenon DEF Contains
<1>5. FirstSlash(p) = Len(g) + 1
  <2> DEFINE First(i) == i \in DOMAIN p /\ p[i] = "/" /\ \A j \in 1 .. i - 1 : p[j] # "/"
  <2>1. First(Len(g) + 1)
    <3>1. Len(g) + 1 \in 1 .. Len(p) /\ Len(g) + 1 - 1 = Len(g) BY <1>1, <1>2
    <3> QED BY <1>1, <1>3, <1>4, <3>1
  <2>2. ASSUME NEW i, First(i) PROVE i = Len(g) + 1
    <3>1. i \in DOMAIN p /\ p[i] = "/" /\ \A j \in 1 .. i - 1 : p[j] # "/" BY <2>2
    <3>2. i \in Nat /\ i >= 1 BY <1>1, <1>2, <1>3, <3>1
    <3>3. ~(i \in 1 .. Len(g)) BY <1>4, <3>1
    <3>4. ~(Len(g) + 1 \in 1 .. i - 1) BY <1>1, <3>1
    <3> QED BY <1>2, <3>2, <3>3, <3>4
  <2> DEFINE f == CHOOSE i \in DOMAIN p : p[i] = "/" /\ \A j \in 1 .. i - 1 : p[j] # "/"
  <2>3. First(f) BY <2>1, Zenon
  <2>4. f = Len(g) + 1 BY <2>2, <2>3, Zenon
  <2> QED BY <2>4 DEF FirstSlash
<1> DEFINE n == Len(g) + 1
           r == SubSeq(p, n + 1, Len(p))
<1>6. n \in Nat /\ n + Len(k) = Len(p) BY <1>1, <1>2
<1> HIDE DEF n
<1>7. r \in Seq(Marks) /\ Len(r) = Len(k) /\ \A i \in 1 .. Len(k) : r[i] = p[n + i]
  BY <1>1, <1>2, <1>6
<1> HIDE DEF r
<1>8. \A i \in 1 .. Len(k) : r[i] = k[i] BY <1>1, <1>7 DEF n
<1>9. r = k BY <1>2, <1>7, <1>8
<1> QED BY <1>5, <1>9, Zenon DEF r, n

\* The server looks for the key that was asked for.
LEMMA ServeFinds ==
    ASSUME CallInv, ServeGet
    PROVE  CallInv'
<1> DEFINE p == gpCall.path
           group == SubSeq(p, 1, FirstSlash(p) - 1)
           key == SubSeq(p, FirstSlash(p) + 1, Len(p))
           got == IF group \notin gpGroups THEN [status |-> 404, key |-> Nil, bytes |-> Nil]
                  ELSE IF key \notin DOMAIN GPGetter
                  THEN [status |-> 500, key |-> key, bytes |-> Nil]
                  ELSE [status |-> 200, key |-> key, bytes |-> GPGetter[key]]
<1>1. gpCall.pc = "sent" /\ gpCall' = [gpCall EXCEPT !.pc = "answered", !.got = got] BY Zenon DEF ServeGet
<1>2. got.status # 404 => got.key = key
  <2> HIDE DEF group, key
  <2> QED OBVIOUS
<1> HIDE DEF got
<1>3. /\ DOMAIN gpCall' = DOMAIN gpCall /\ gpCall'.pc = "answered" /\ gpCall'.got = got
      /\ gpCall'.group = gpCall.group /\ gpCall'.key = gpCall.key
  BY <1>1 DEF CallInv
<1>4. \/ key = gpCall.key
      \/ Contains(gpCall.group \o gpCall.key, " ") \/ Contains(gpCall.group, "/")
  <2> SUFFICES ASSUME ~Contains(gpCall.group \o gpCall.key, " "), ~Contains(gpCall.group, "/")
               PROVE  key = gpCall.key
    OBVIOUS
  <2>1. /\ gpCall.group \in GPNames /\ gpCall.key \in GPNames
        /\ p = PathUnescape(QueryEscape(gpCall.group) \o <<"/">> \o QueryEscape(gpCall.key))
    BY <1>1, Zenon DEF CallInv
  <2>2. Joined(p, gpCall.group, "/", gpCall.key) BY <2>1, PathIs, Zenon
  <2>3. gpCall.group \in Seq(Marks) /\ gpCall.key \in Seq(Marks) BY <2>1, NameIs
  <2> QED BY <2>2, <2>3, SplitIs, Zenon
<1> HIDE DEF key
<1>5. AskedIsServed' BY <1>2, <1>3, <1>4 DEF AskedIsServed
<1> QED BY <1>3, <1>5 DEF CallInv

GPInv == RingInv /\ CallInv

\* The ring only changes by an Add of one or two nodes.
LEMMA RingAdds ==
    ASSUME RingNext
    PROVE  \E nodes \in Seq(GPNodes) : Len(nodes) \in {1, 2} /\ Add(nodes)
<1>1. ASSUME NEW n \in GPNodes, Add(<<n>>)
      PROVE  \E nodes \in Seq(GPNodes) : Len(nodes) \in {1, 2} /\ Add(nodes)
  <2>1. <<n>> \in Seq(GPNodes) /\ Len(<<n>>) \in {1, 2} OBVIOUS
  <2> QED BY <1>1, <2>1, Zenon
<1>2. ASSUME NEW n \in GPNodes, NEW o \in GPNodes, Add(<<n, o>>)
      PROVE  \E nodes \in Seq(GPNodes) : Len(nodes) \in {1, 2} /\ Add(nodes)
  <2>1. <<n, o>> \in Seq(GPNodes) /\ Len(<<n, o>>) \in {1, 2} OBVIOUS
  <2> QED BY <1>2, <2>1, Zenon
<1> QED BY <1>1, <1>2, Zenon DEF RingNext

\* What leaves the ring as it is preserves its order.
LEMMA RingStays == RingInv /\ UNCHANGED ringVs => RingInv'
BY DEF RingInv, ringVs, ToSet

\* What leaves the call as it is preserves what holds of it.
LEMMA CallStays == CallInv /\ UNCHANGED gpCall => CallInv'
BY DEF CallInv, AskedIsServed

\* Every step of the peers preserves both invariants.
LEMMA GPNextInv == GPInv /\ [RingNext \/ RemoteNext]_gpVars => GPInv'
<1> SUFFICES ASSUME RingInv, CallInv, [RingNext \/ RemoteNext]_gpVars PROVE RingInv' /\ CallInv'
  BY DEF GPInv
<1>1. CASE RingNext
  <2>1. PICK nodes \in Seq(GPNodes) : Len(nodes) \in {1, 2} /\ Add(nodes) BY <1>1, RingAdds
  <2>2. UNCHANGED gpCall BY <2>1 DEF Add
  <2> QED BY <2>1, <2>2, AddKeeps, CallStays
<1>2. ASSUME NEW g \in GPNames, NewGroup(g) PROVE RingInv' /\ CallInv'
  BY <1>2, RingStays, CallStays DEF NewGroup
<1>3. ASSUME NEW g \in GPNames, NEW k \in GPNames, RemoteGet(g, k) PROVE RingInv' /\ CallInv'
  <2>1. CallInv' BY <1>3 DEF RemoteGet, CallInv, AskedIsServed
  <2> QED BY <1>3, <2>1, RingStays DEF RemoteGet
<1>4. CASE ServeGet BY <1>4, ServeFinds, RingStays DEF ServeGet
<1>5. CASE GetReturns
  <2>1. CallInv'
    <3>1. PICK pc \in {"ok", "failed"} : gpCall' = [gpCall EXCEPT !.pc = pc] BY <1>5 DEF GetReturns
    <3> QED BY <3>1 DEF CallInv, AskedIsServed
  <2> QED BY <1>5, <2>1, RingStays DEF GetReturns
<1>6. CASE GetForgotten
  <2>1. CallInv' BY <1>6 DEF GetForgotten, NoCall, CallInv, AskedIsServed
  <2> QED BY <1>6, <2>1, RingStays DEF GetForgotten
<1>7. CASE UNCHANGED gpVars BY <1>7, RingStays, CallStays DEF gpVars, ringVs
<1> QED BY <1>1, <1>2, <1>3, <1>4, <1>5, <1>6, <1>7 DEF RemoteNext

\* The peers, for any nodes, keys, hash function, replicas and names: keys move only to
\* nodes that were added, and the server looks for what was asked for.
THEOREM PeersAgree == GPSpec => PeersCorrect
<1>1. GPInit => GPInv
  <2> SUFFICES ASSUME GPInit PROVE RingInv /\ CallInv BY DEF GPInv
  <2>1. RingInv BY DEF GPInit, RingInv, ToSet
  <2>2. CallInv BY DEF GPInit, CallInv, NoCall, AskedIsServed
  <2> QED BY <2>1, <2>2
<1>2. GPInv /\ [RingNext \/ RemoteNext]_gpVars =>
        [\A k \in GPKeys : RingGet(k)' # RingGet(k) => RingGet(k)' \in chAdded']_gpVars
  <2> SUFFICES ASSUME RingInv, RingNext \/ RemoteNext
               PROVE  \A k \in GPKeys : RingGet(k)' # RingGet(k) => RingGet(k)' \in chAdded'
    BY DEF GPInv
  <2>1. CASE RingNext
    <3>1. PICK nodes \in Seq(GPNodes) : Len(nodes) \in {1, 2} /\ Add(nodes) BY <2>1, RingAdds
    <3> QED BY <3>1, AddMoves
  <2>2. CASE RemoteNext
    <3>1. UNCHANGED ringVs
      BY <2>2 DEF RemoteNext, NewGroup, RemoteGet, ServeGet, GetReturns, GetForgotten
    <3>2. \A k \in GPKeys : RingGet(k)' = RingGet(k) BY <3>1 DEF ringVs, RingGet
    <3> QED BY <3>2
  <2> QED BY <2>1, <2>2
<1>3. GPInv => AskedIsServed BY DEF GPInv, CallInv
<1> QED BY <1>1, <1>2, <1>3, GPNextInv, PTL DEF GPSpec, PeersCorrect, KeysMoveOnlyToAdded
=============================================================================
