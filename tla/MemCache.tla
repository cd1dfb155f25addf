------------------------------ MODULE MemCache ------------------------------
(***************************************************************************)
(* internal/cache: the in-memory cache the strategies share, with its      *)
(* cleanup goroutine and StopCleanup.                                      *)
(*                                                                         *)
(* A value is the version of the row it was read from or written with, 0   *)
(* for the nil of a row that does not exist.  An item's expiration is the  *)
(* flag fresh, which time (Expire) turns off.                              *)
(***************************************************************************)
EXTENDS Naturals

CONSTANTS
    Keys,       \* cache keys
    Stoppers    \* goroutines calling StopCleanup

VARIABLES
    items,      \* items[k]: the item cached for k, or NoItem
    cleaner,    \* runCleanup: "select" or "returned"
    closed,     \* the channel stop is closed
    stopper     \* stopper[s]: where the StopCleanup of s is

cacheVars == <<items, cleaner, closed, stopper>>

NoItem == [found |-> FALSE]
Item(v) == [found |-> TRUE, value |-> v, fresh |-> TRUE]
Expired(k) == items[k].found /\ ~items[k].fresh

CacheInit ==
    /\ items = [k \in Keys |-> NoItem]
    /\ cleaner = "select"
    /\ closed = FALSE
    /\ stopper = [s \in Stoppers |-> "idle"]

\* Set, under the write lock.
Set(k, v) == items' = [items EXCEPT ![k] = Item(v)]

\* Get's three outcomes under the read lock.  The clock is read after the lock
\* is released; nothing another goroutine does in between changes the outcome.
GetHit(k)     == items[k].found /\ items[k].fresh
GetExpired(k) == Expired(k)
GetMiss(k)    == ~items[k].found

\* Mutant: the item is deleted without being looked at again.
LazyDelete_NoDoubleCheck(k) == items' = [items EXCEPT ![k] = NoItem]

\* Get of an expired item takes the write lock and looks again, since the item
\* may have been replaced meanwhile.
LazyDelete(k) == items' = IF Expired(k) THEN [items EXCEPT ![k] = NoItem] ELSE items

Expire(k) ==
    /\ GetHit(k)
    /\ items' = [items EXCEPT ![k].fresh = FALSE]
    /\ UNCHANGED <<cleaner, closed, stopper>>

Cleanup ==
    /\ cleaner = "select"
    /\ items' = [k \in Keys |-> IF Expired(k) THEN NoItem ELSE items[k]]
    /\ UNCHANGED <<cleaner, closed, stopper>>

\* Mutant: a break that leaves the select and not the loop.
CleanupStops_BreakSelect ==
    /\ cleaner = "select"
    /\ closed
    /\ UNCHANGED <<items, cleaner, closed, stopper>>

CleanupStops ==
    /\ cleaner = "select"
    /\ closed
    /\ cleaner' = "returned"
    /\ UNCHANGED <<items, closed, stopper>>

\* StopCleanup: the channel is closed unless it is closed already, then the
\* caller waits.  (Two callers may both find it open and close it twice, which
\* panics: callers must not overlap.)
StopCleanup(s) ==
    /\ stopper[s] = "idle"
    /\ closed' = TRUE
    /\ stopper' = [stopper EXCEPT ![s] = "waiting"]
    /\ UNCHANGED <<items, cleaner>>

StopCleanupReturns(s) ==
    /\ stopper[s] = "waiting"
    /\ cleaner = "returned"
    /\ stopper' = [stopper EXCEPT ![s] = "returned"]
    /\ UNCHANGED <<items, cleaner, closed>>
=============================================================================
