------------------------------- MODULE MCLibs -------------------------------
(***************************************************************************)
(* Model-checking instance of the libraries that share nothing: the cache  *)
(* strategies, the LRU cache, the bytes queue, the ring buffer, the linked *)
(* containers, and geecache's hash ring and remote Get.  A behaviour is    *)
(* one of one of them; the others stay in an initial state.                *)
(***************************************************************************)
EXTENDS CacheStrategies, GeeCache, BytesQueue, Containers, GeePeers

VARIABLE part

\* Two nodes whose hashes collide, and keys before, between and after the nodes.
MCHash == [n1 |-> 2, n2 |-> 4, n3 |-> 4, a |-> 1, b |-> 3, c |-> 5]

\* Names without anything to escape, with a slash, a space and a plus.
MCNames == {<<>>, <<"k">>, <<"k", "/", "k">>, <<"k", " ">>, <<"k", "+">>}
MCGetter == [k \in MCNames \ {<<>>, <<"k", "/", "k">>} |->
               IF k = <<"k">> THEN "message" ELSE "bytes"]

Parts == {"strategies", "lru", "bytes", "ring", "linked", "hashring", "peers"}

lbVars == <<csVars, gcVars, bqVars, rbVars, llVars, gpVars, part>>

LBInit ==
    /\ part \in Parts
    /\ CSInit /\ GCInit /\ BQInit /\ RBInit /\ LLInit /\ GPInit
    /\ part # "strategies" => \A k \in Keys : db[k] = 0
    /\ \A k \in GCKeys : source[k].len = 0
    /\ part # "ring" => Cap(rbElements) = RINGBUFFER_MIN
    /\ part # "linked" => llKind = "queue"

LBNext ==
    /\ UNCHANGED part
    /\ \/ part = "strategies" /\ CSNext
          /\ UNCHANGED <<gcVars, bqVars, rbVars, llVars, gpVars>>
       \/ part = "lru" /\ GCNext /\ UNCHANGED <<csVars, bqVars, rbVars, llVars, gpVars>>
       \/ part = "bytes" /\ BQNext /\ UNCHANGED <<csVars, gcVars, rbVars, llVars, gpVars>>
       \/ part = "ring" /\ RBNext /\ UNCHANGED <<csVars, gcVars, bqVars, llVars, gpVars>>
       \/ part = "linked" /\ LLNext /\ UNCHANGED <<csVars, gcVars, bqVars, rbVars, gpVars>>
       \/ /\ (part = "hashring" /\ RingNext) \/ (part = "peers" /\ RemoteNext)
          /\ UNCHANGED <<csVars, gcVars, bqVars, rbVars, llVars>>

\* No fair action is enabled in the initial state of a part.
LBSpec == LBInit /\ [][LBNext]_lbVars /\ CSFairness /\ GCFairness

-----------------------------------------------------------------------------

\* The loops of the caches end: eviction, and the goroutine StopCleanup waits for.
CacheLoopsEnd == AddTerminates /\ StopCleanupEnds
=============================================================================
