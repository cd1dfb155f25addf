------------------------------ MODULE GeeCache ------------------------------
(***************************************************************************)
(* gocache/lrucache: Group.Get over the mutex-guarded cache over the LRU   *)
(* list.  A Get that misses calls the group's getter without a lock and    *)
(* then adds what it got, so two clients may load one key at the same time *)
(* and add different values for it.                                        *)
(*                                                                         *)
(* A value is its version and its length.  c.lru is created by the first   *)
(* add; a nil lru and an empty one behave alike.                           *)
(***************************************************************************)
EXTENDS Integers, Sequences, SequencesExt

CONSTANTS
    GCKeys,
    GCClients,     \* goroutines calling Group.Get
    KeyLen,        \* len(key), the same for every key
    ValueLens,     \* bound: lengths of the values the getter returns
    MaxBytes,      \* cacheBytes, 0 for no limit
    GCMaxVersion   \* bound: how often the data source changes a key

ASSUME LimitIsNat == MaxBytes \in Nat /\ KeyLen \in Nat /\ GCMaxVersion \in Nat
ASSUME ValueLengthsAreNat == ValueLens \subseteq Nat

VARIABLES
    source,        \* source[k]: what the getter would return for k
    ll,            \* the list, most recently used entry first
    cache,         \* the keys of the map
    nBytes,
    gcClient,      \* gcClient[c]: where the Get call of c is
    replaced,      \* history: an Add replaced a value since the last insertion
    later          \* history: <<j, k>> for a key j that was used since k last was

gcVars == <<source, ll, cache, nBytes, gcClient, replaced, later>>

Value == [ver : 0..GCMaxVersion, len : ValueLens]
Entry == [key : GCKeys, value : Value]
GCIdle  == [at |-> "idle"]

GCInit ==
    /\ source \in [GCKeys -> [ver : {0}, len : ValueLens]]
    /\ ll = <<>>
    /\ cache = {}
    /\ nBytes = 0
    /\ gcClient = [c \in GCClients |-> GCIdle]
    /\ replaced = FALSE
    /\ later = {}

-----------------------------------------------------------------------------
(* The list (container/list).                                              *)

IndexOf(k) == CHOOSE i \in DOMAIN ll : ll[i].key = k
MoveToFront(s, i) == [j \in DOMAIN s |-> IF j = 1 THEN s[i] ELSE IF j <= i THEN s[j - 1] ELSE s[j]]
PushFront(e) == <<e>> \o ll

Touch(k) == {p \in later : p[2] # k} \cup {<<k, j>> : j \in GCKeys \ {k}}

\* c.mu is held by the client that is in the eviction loop.
Unlocked == \A c \in GCClients : gcClient[c].at # "evict"

-----------------------------------------------------------------------------
(* Group.Get                                                               *)

\* Mutant: a hit does not move the entry to the front.
GetHit_NoMove(c, k) ==
    /\ gcClient[c] = GCIdle /\ Unlocked
    /\ k \in cache
    /\ later' = Touch(k)
    /\ UNCHANGED <<source, ll, cache, nBytes, gcClient, replaced>>

GCGetHit(c, k) ==
    /\ gcClient[c] = GCIdle /\ Unlocked
    /\ k \in cache
    /\ ll' = MoveToFront(ll, IndexOf(k))
    /\ later' = Touch(k)
    /\ UNCHANGED <<source, cache, nBytes, gcClient, replaced>>

GCGetMiss(c, k) ==
    /\ gcClient[c] = GCIdle /\ Unlocked
    /\ k \notin cache
    /\ gcClient' = [gcClient EXCEPT ![c] = [at |-> "load", key |-> k]]
    /\ UNCHANGED <<source, ll, cache, nBytes, later, replaced>>

\* getLocally: the getter's error is returned and nothing is cached.
GetterReturns(c) ==
    /\ gcClient[c].at = "load"
    /\ gcClient' = [gcClient EXCEPT ![c] =
                    [at |-> "populate", key |-> @.key, value |-> source[@.key]]]
    /\ UNCHANGED <<source, ll, cache, nBytes, later, replaced>>

GetterFails(c) ==
    /\ gcClient[c].at = "load"
    /\ gcClient' = [gcClient EXCEPT ![c] = GCIdle]
    /\ UNCHANGED <<source, ll, cache, nBytes, later, replaced>>

\* lru.Add for a key that is cached: the value is replaced and Add returns
\* before the eviction loop.
AddUpdate(c) ==
    LET k == gcClient[c].key  v == gcClient[c].value  i == IndexOf(k) IN
    /\ gcClient[c].at = "populate" /\ Unlocked
    /\ k \in cache
    /\ nBytes' = nBytes + v.len - ll[i].value.len
    /\ ll' = MoveToFront([ll EXCEPT ![i].value = v], i)
    /\ replaced' = TRUE
    /\ later' = Touch(k)
    /\ gcClient' = [gcClient EXCEPT ![c] = GCIdle]
    /\ UNCHANGED <<source, cache>>

AddNew(c) ==
    LET k == gcClient[c].key  v == gcClient[c].value IN
    /\ gcClient[c].at = "populate" /\ Unlocked
    /\ k \notin cache
    /\ ll' = PushFront([key |-> k, value |-> v])
    /\ cache' = cache \cup {k}
    /\ nBytes' = nBytes + KeyLen + v.len
    /\ replaced' = FALSE
    /\ later' = Touch(k)
    /\ gcClient' = [gcClient EXCEPT ![c] = [at |-> "evict"]]
    /\ UNCHANGED source

OverLimit == MaxBytes # 0 /\ MaxBytes < nBytes

\* One turn of the eviction loop; on an empty list it would change nothing.
RemoveOldest(c) ==
    /\ gcClient[c].at = "evict"
    /\ OverLimit
    /\ ll # <<>>
    /\ ll' = Front(ll)
    /\ cache' = cache \ {Last(ll).key}
    /\ nBytes' = nBytes - (KeyLen + Last(ll).value.len)
    /\ UNCHANGED <<source, gcClient, later, replaced>>

AddReturns(c) ==
    /\ gcClient[c].at = "evict"
    /\ ~OverLimit
    /\ gcClient' = [gcClient EXCEPT ![c] = GCIdle]
    /\ UNCHANGED <<source, ll, cache, nBytes, later, replaced>>

SourceChange(k) ==
    /\ source[k].ver < GCMaxVersion
    /\ \E n \in ValueLens :
          source' = [source EXCEPT ![k] = [ver |-> @.ver + 1, len |-> n]]
    /\ UNCHANGED <<ll, cache, nBytes, gcClient, later, replaced>>

Get(c) == \/ \E k \in GCKeys : GCGetHit(c, k) \/ GCGetMiss(c, k)
          \/ GetterReturns(c) \/ GetterFails(c)
          \/ AddUpdate(c) \/ AddNew(c) \/ RemoveOldest(c) \/ AddReturns(c)

GCNext == (\E c \in GCClients : Get(c)) \/ (\E k \in GCKeys : SourceChange(k))

\* The goroutine in lru.Add goes on until it returns.
GCFairness == \A c \in GCClients : WF_gcVars(RemoveOldest(c) \/ AddReturns(c))

GCSpec     == GCInit /\ [][GCNext]_gcVars
GCFairSpec == GCSpec /\ GCFairness

-----------------------------------------------------------------------------
(* Properties.                                                             *)

GCKeysOf(s) == [i \in DOMAIN s |-> s[i].key]
Sum(s) ==
    LET sum[i \in 0 .. Len(s)] == IF i = 0 THEN 0 ELSE sum[i - 1] + KeyLen + s[i].value.len
    IN  sum[Len(s)]

GCTypeOK ==
    /\ source \in [GCKeys -> Value]
    /\ ll \in Seq(Entry)
    /\ cache \subseteq GCKeys
    /\ nBytes \in Int
    /\ gcClient \in [GCClients -> {GCIdle} \cup [at : {"load"}, key : GCKeys]
                               \cup [at : {"populate"}, key : GCKeys, value : Value]
                               \cup {[at |-> "evict"]}]
    /\ replaced \in BOOLEAN
    /\ later \subseteq GCKeys \X GCKeys
    /\ \A c, d \in GCClients : gcClient[c].at = "evict" /\ gcClient[d].at = "evict" => c = d

\* The map and the list hold the same keys, each once.
MapMatchesList == GCTypeOK /\ cache = ToSet(GCKeysOf(ll)) /\ IsInjective(GCKeysOf(ll))

\* nBytes counts exactly what the list holds through inserts, replacements by
\* longer and shorter values and evictions.  The eviction loop ends because of
\* this: with an empty list nothing is left to be over the limit.
BytesAccounted == nBytes = Sum(ll)

\* An entry that leaves the cache leaves it only while the cache is over its
\* limit, and every entry used since is kept.
EvictsOldestOnly ==
    [][\A k \in cache \ cache' :
          /\ MaxBytes # 0 /\ nBytes > MaxBytes
          /\ \A j \in cache' : <<j, k>> \in later]_gcVars

\* "if the bytes in use exceed the limit the least used elements are removed"
\* says the comment on the eviction loop.  It holds of Add for a new key only:
\* between calls the cache is over its limit only if a value was replaced since
\* the last insertion.
OverLimitOnlyByReplacing ==
    Unlocked /\ MaxBytes # 0 /\ nBytes > MaxBytes => replaced

\* The eviction loop ends.
AddTerminates == \A c \in GCClients : (gcClient[c].at = "evict") ~> (gcClient[c].at # "evict")

\* The cache as a whole: list, map and byte count agree, the limit is only exceeded after
\* a replacement, and eviction takes the least recently used entry.
LRUCorrect ==
    /\ [](MapMatchesList /\ BytesAccounted /\ OverLimitOnlyByReplacing)
    /\ EvictsOldestOnly
=============================================================================
