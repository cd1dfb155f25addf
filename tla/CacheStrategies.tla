-------------------------- MODULE CacheStrategies --------------------------
(***************************************************************************)
(* The strategies of go_cache_strategy that run in their caller's          *)
(* goroutine, over one in-memory cache and one database:                   *)
(*   aside    cacheaside.GetUser       through  readthrough.Cache.Get      *)
(*   write    writethrough.UpdateUser  getlog   writearound.GetLog         *)
(*   writelog writearound.WriteLog                                         *)
(* Write-behind has a module of its own (WriteBehind).                     *)
(*                                                                         *)
(* Users and logs have different key prefixes, so the type assertions of   *)
(* GetUser and GetLog never fail and the Delete behind them is not         *)
(* reached.                                                                *)
(***************************************************************************)
EXTENDS MemCache

CONSTANTS
    Users, Logs,    \* the keys of users and of log entries
    Clients,        \* goroutines using the strategies
    MaxVersion      \* bound: writes of one user

ASSUME KeysAreUsersAndLogs == Keys = Users \cup Logs /\ Users \cap Logs = {}
ASSUME MaxVersionIsNat == MaxVersion \in Nat

VARIABLES
    db,         \* db[k]: version of the row of k, 0 if there is none
    client,     \* client[c]: where the call of c is
    raced       \* history: keys written while another call held a row to cache

csVars == <<cacheVars, db, client, raced>>

Idle == [at |-> "idle"]
Reads == {"aside", "through", "getlog"}
KeysOf(op) == IF op = "getlog" THEN Logs ELSE Users

\* c has read or written the row of k and has yet to put it in the cache.
Filling(c, k) == client[c].at = "fill" /\ client[c].key = k

CSInit ==
    /\ CacheInit
    /\ db \in [Keys -> {0, 1}]
    /\ client = [c \in Clients |-> Idle]
    /\ raced = {}

-----------------------------------------------------------------------------
(* Reading.                                                                *)

ReadHit(c, op, k) ==
    /\ client[c] = Idle
    /\ GetHit(k)
    /\ UNCHANGED csVars

ReadExpired(c, op, k) ==
    /\ client[c] = Idle
    /\ GetExpired(k)
    /\ client' = [client EXCEPT ![c] = [at |-> "lazy", op |-> op, key |-> k]]
    /\ UNCHANGED <<cacheVars, db, raced>>

ReadLazyDelete(c) ==
    /\ client[c].at = "lazy"
    /\ LazyDelete(client[c].key)
    /\ client' = [client EXCEPT ![c].at = "query"]
    /\ UNCHANGED <<cleaner, closed, stopper, db, raced>>

ReadMiss(c, op, k) ==
    /\ client[c] = Idle
    /\ GetMiss(k)
    /\ client' = [client EXCEPT ![c] = [at |-> "query", op |-> op, key |-> k]]
    /\ UNCHANGED <<cacheVars, db, raced>>

QueryFails(c) ==
    /\ client[c].at = "query"
    /\ client' = [client EXCEPT ![c] = Idle]
    /\ UNCHANGED <<cacheVars, db, raced>>

\* A row that does not exist: GetUser and GetLog return nil.  The loader of
\* readthrough returns a nil *User inside a non-nil interface value, so the
\* comparison with nil is false and the nil pointer is cached.
QueryNotFound(c) ==
    /\ client[c].at = "query"
    /\ db[client[c].key] = 0
    /\ client' = [client EXCEPT ![c] =
                    IF @.op = "through" THEN [at |-> "fill", key |-> @.key, value |-> 0]
                                        ELSE Idle]
    /\ UNCHANGED <<cacheVars, db, raced>>

QueryFound(c) ==
    /\ client[c].at = "query"
    /\ db[client[c].key] # 0
    /\ client' = [client EXCEPT ![c] =
                    [at |-> "fill", key |-> @.key, value |-> db[@.key]]]
    /\ UNCHANGED <<cacheVars, db, raced>>

\* The last step of a read that missed, and of UpdateUser.
Fill(c) ==
    /\ client[c].at = "fill"
    /\ Set(client[c].key, client[c].value)
    /\ client' = [client EXCEPT ![c] = Idle]
    /\ UNCHANGED <<cleaner, closed, stopper, db, raced>>

-----------------------------------------------------------------------------
(* Writing.                                                                *)

\* UpdateUser of writethrough: the database first.  A write that fails changes
\* nothing and returns.
UpdateUser(c, u) ==
    /\ client[c] = Idle
    /\ db[u] < MaxVersion
    /\ db' = [db EXCEPT ![u] = @ + 1]
    /\ client' = [client EXCEPT ![c] = [at |-> "fill", key |-> u, value |-> db[u] + 1]]
    /\ raced' = IF \E d \in Clients : Filling(d, u) THEN raced \cup {u} ELSE raced
    /\ UNCHANGED cacheVars

\* INSERT: a second entry with the same ID violates the primary key.
WriteLog(c, l) ==
    /\ client[c] = Idle
    /\ db[l] = 0
    /\ db' = [db EXCEPT ![l] = 1]
    /\ UNCHANGED <<cacheVars, client, raced>>

-----------------------------------------------------------------------------
Read(c) == \/ \E op \in Reads : \E k \in KeysOf(op) :
                 ReadHit(c, op, k) \/ ReadExpired(c, op, k) \/ ReadMiss(c, op, k)
           \/ ReadLazyDelete(c) \/ QueryFails(c) \/ QueryNotFound(c) \/ QueryFound(c)

Write(c) == (\E u \in Users : UpdateUser(c, u)) \/ (\E l \in Logs : WriteLog(c, l))

CacheStep ==
    /\ \/ \E k \in Keys : Expire(k)
       \/ Cleanup \/ CleanupStops
       \/ \E s \in Stoppers : StopCleanup(s) \/ StopCleanupReturns(s)
    /\ UNCHANGED <<db, client, raced>>

CSNext == \/ \E c \in Clients : Read(c) \/ Fill(c) \/ Write(c)
          \/ CacheStep

\* Both select cases of runCleanup are ready again and again once the channel is
\* closed; the Go scheduler runs every goroutine.
CSFairness ==
    /\ SF_csVars(CleanupStops /\ UNCHANGED <<db, client, raced>>)
    /\ \A s \in Stoppers : WF_csVars(StopCleanupReturns(s) /\ UNCHANGED <<db, client, raced>>)

CSSpec     == CSInit /\ [][CSNext]_csVars
CSFairSpec == CSSpec /\ CSFairness

-----------------------------------------------------------------------------
(* Properties.                                                             *)

CacheItem == {NoItem} \cup [found : {TRUE}, value : Nat, fresh : BOOLEAN]
Call == {Idle} \cup [at : {"lazy", "query"}, op : Reads, key : Keys]
               \cup [at : {"fill"}, key : Keys, value : Nat]

\* Types, and that a log entry's row is written once.
CSTypeOK ==
    /\ items \in [Keys -> CacheItem]
    /\ cleaner \in {"select", "returned"}
    /\ closed \in BOOLEAN
    /\ stopper \in [Stoppers -> {"idle", "waiting", "returned"}]
    /\ db \in [Keys -> Nat] /\ \A l \in Logs : db[l] <= 1
    /\ client \in [Clients -> Call]
    /\ raced \in SUBSET Users

\* "Write to DB first": the cache never holds, and no call is about to cache, a
\* version the database has not committed.
NeverAheadOfDb ==
    /\ \A k \in Keys : items[k].found => items[k].value <= db[k]
    /\ \A c \in Clients : client[c].at = "fill" => client[c].value <= db[client[c].key]

\* Cache and database agree about a key as soon as no call is about to cache it,
\* unless a write overtook a call that already had the row in hand: that race is
\* the only way to a stale item.
AgreesUnlessRaced ==
    \A k \in Keys :
        items[k].found /\ k \notin raced /\ ~(\E c \in Clients : Filling(c, k))
            => items[k].value = db[k]

\* Log entries are immutable, so write-around may cache them without ever
\* invalidating: a cached entry is the entry in the database, races or not.
LogsNeverStale ==
    \A l \in Logs : items[l].found => items[l].value = db[l] /\ db[l] # 0

\* A fresh item is never removed: not by the lazy deletion of a Get that saw its
\* expired predecessor, nor by the cleanup.
FreshItemsStay ==
    [][\A k \in Keys : GetHit(k) => items'[k].found]_csVars

\* StopCleanup returns.
StopCleanupEnds == \A s \in Stoppers : (stopper[s] = "waiting") ~> (stopper[s] = "returned")

\* Cache and database: never ahead, in agreement unless a write overtook a fill, logs
\* always current, and no fresh item removed.
CachesAgree ==
    /\ [](NeverAheadOfDb /\ AgreesUnlessRaced /\ LogsNeverStale)
    /\ FreshItemsStay
=============================================================================
