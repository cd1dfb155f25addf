------------------------------ MODULE GeePeers ------------------------------
(***************************************************************************)
(* gocache/lrucache without its cache: the consistent-hash ring, the       *)
(* registry of groups, and a remote Get: httpGetter, ServeHTTP and the     *)
(* paths between them.                                                     *)
(*                                                                         *)
(* Nothing joins the three yet: HTTPPool.Set makes a ring with a nil hash  *)
(* function and panics as it adds to it, PickPeer picks no peer, and no    *)
(* Group asks for one.  So the ring is modelled with a hash function of    *)
(* its user, and a remote Get as one to a peer the caller knows.           *)
(***************************************************************************)
EXTENDS Outcomes, Integers, Sequences, FiniteSets, SequencesExt

CONSTANTS
    GPNodes, GPKeys,    \* of the ring
    GPHash,             \* its hash function
    GPReplicas,
    GPMaxRing,          \* bound: how many hashes the ring holds
    GPNames,            \* names of groups, and keys, of a remote Get: sequences of characters
    GPGetter            \* GPGetter[k]: the bytes the Getter finds, where it finds any

ASSUME GPAssumption ==
    /\ GPReplicas \in Nat \ {0} /\ GPMaxRing \in Nat
    /\ \A x \in GPNodes \cup GPKeys : GPHash[x] \in Nat
    /\ \A n \in GPNames : n \in Seq(STRING) /\ ToSet(n) \cap {"%2F", "%2B"} = {}

VARIABLES
    chKeys, chMap,      \* the ring: m.keys, m.hashMap
    chAdded,            \* history: the nodes of the last Add
    gpGroups,           \* the registered groups
    gpCall              \* a remote Get: where it is, what it asks for, what it carries

gpVars == <<chKeys, chMap, chAdded, gpGroups, gpCall>>
ringVs == <<chKeys, chMap, chAdded>>

NoCall == [pc |-> "idle", group |-> <<>>, key |-> <<>>, path |-> <<>>, got |-> Nil]

GPInit ==
    /\ chKeys = <<>> /\ chMap = [h \in {} |-> Nil] /\ chAdded = {}
    /\ gpGroups = {}
    /\ gpCall = NoCall

-----------------------------------------------------------------------------
(* consistenthash.                                                         *)

\* sort.Ints: fewer than i numbers are smaller than the i-th, and at least i are not larger.
Sorted(s) == [i \in DOMAIN s |->
    CHOOSE x \in ToSet(s) : /\ Cardinality({j \in DOMAIN s : s[j] < x}) < i
                            /\ i <= Cardinality({j \in DOMAIN s : s[j] <= x})]

\* Add: every replica of a node has the hash of the node.
Add(nodes) ==
    LET hashes == {GPHash[nodes[i]] : i \in DOMAIN nodes}
        more == [i \in 1 .. Len(nodes) * GPReplicas |->
                    GPHash[nodes[((i - 1) \div GPReplicas) + 1]]]
    IN
    /\ Len(chKeys) + Len(more) <= GPMaxRing
    /\ chKeys' = Sorted(chKeys \o more)
    /\ chMap' = [h \in DOMAIN chMap \cup hashes |->
                    IF h \in hashes
                    THEN nodes[CHOOSE i \in DOMAIN nodes : /\ GPHash[nodes[i]] = h
                                                           /\ \A j \in i + 1 .. Len(nodes) : GPHash[nodes[j]] # h]
                    ELSE chMap[h]]
    /\ chAdded' = ToSet(nodes)
    /\ UNCHANGED <<gpGroups, gpCall>>

\* Mutant: the hash itself is taken for the place in the ring.
RingGet_Modulo(key) ==
    IF chKeys = <<>> THEN "" ELSE chMap[chKeys[(GPHash[key] % Len(chKeys)) + 1]]

\* Get: sort.Search for the first hash that is not smaller, round the end of the ring.
RingGet(key) ==
    IF chKeys = <<>> THEN ""
    ELSE LET at == {i \in DOMAIN chKeys : chKeys[i] >= GPHash[key]}
             idx == IF at = {} THEN 1 ELSE CHOOSE i \in at : \A j \in at : i <= j
         IN  chMap[chKeys[idx]]

-----------------------------------------------------------------------------
(* A remote Get.                                                           *)

NewGroup(name) ==
    /\ gpGroups' = gpGroups \cup {name}
    /\ UNCHANGED <<ringVs, gpCall>>

QueryEscape(s) == [i \in DOMAIN s |->
    CASE s[i] = " " -> "+" [] s[i] = "/" -> "%2F" [] s[i] = "+" -> "%2B" [] OTHER -> s[i]]

\* What the server makes of an escaped path: not of a plus.
PathUnescape(s) == [i \in DOMAIN s |->
    CASE s[i] = "%2F" -> "/" [] s[i] = "%2B" -> "+" [] OTHER -> s[i]]

\* httpGetter.Get up to the request, and its way to the server.
RemoteGet(group, key) ==
    /\ gpCall.pc = "idle"
    /\ gpCall' = [pc |-> "sent", group |-> group, key |-> key, got |-> Nil,
                  path |-> PathUnescape(QueryEscape(group) \o <<"/">> \o QueryEscape(key))]
    /\ UNCHANGED <<ringVs, gpGroups>>

FirstSlash(p) == CHOOSE i \in DOMAIN p : p[i] = "/" /\ \A j \in 1 .. i - 1 : p[j] # "/"

\* ServeHTTP: the path behind the base path is split at its first slash.
ServeGet ==
    LET p == gpCall.path
        group == SubSeq(p, 1, FirstSlash(p) - 1)
        key == SubSeq(p, FirstSlash(p) + 1, Len(p))
    IN
    /\ gpCall.pc = "sent"
    /\ gpCall' = [gpCall EXCEPT !.pc = "answered",
                    !.got = IF group \notin gpGroups THEN [status |-> 404, key |-> Nil, bytes |-> Nil]
                            ELSE IF key \notin DOMAIN GPGetter
                            THEN [status |-> 500, key |-> key, bytes |-> Nil]
                            ELSE [status |-> 200, key |-> key, bytes |-> GPGetter[key]]]
    /\ UNCHANGED <<ringVs, gpGroups>>

\* The answer is the bytes themselves; the getter takes them for a message, which they
\* seldom are.  The connection may be lost.
GetReturns ==
    /\ gpCall.pc = "answered"
    /\ \E out \in IF gpCall.got.status = 200 /\ gpCall.got.bytes = "message" THEN {"ok", Failed} ELSE {Failed} :
         gpCall' = [gpCall EXCEPT !.pc = IF out = "ok" THEN "ok" ELSE "failed"]
    /\ UNCHANGED <<ringVs, gpGroups>>

GetForgotten ==
    /\ gpCall.pc \in {"ok", "failed"}
    /\ gpCall' = NoCall
    /\ UNCHANGED <<ringVs, gpGroups>>

RingNext ==
    \/ \E n \in GPNodes : Add(<<n>>)
    \/ \E n, m \in GPNodes : n # m /\ Add(<<n, m>>)

RemoteNext ==
    \/ \E g \in GPNames : NewGroup(g)
    \/ \E g, k \in GPNames : RemoteGet(g, k)
    \/ ServeGet \/ GetReturns \/ GetForgotten

GPSpec == GPInit /\ [][RingNext \/ RemoteNext]_gpVars

-----------------------------------------------------------------------------

\* consistenthash: adding nodes takes keys to the nodes that were added and moves no key
\* between the others, also where hashes collide.
KeysMoveOnlyToAdded ==
    [][\A k \in GPKeys : RingGet(k)' # RingGet(k) => RingGet(k)' \in chAdded']_gpVars

\* httpGetter.Get against ServeHTTP: the server looks for the key that was asked for in
\* the group that was asked for, unless one of them has a space, which comes as a plus, or
\* the group's name a slash.
AskedIsServed ==
    gpCall.pc = "answered" /\ gpCall.got.status # 404 =>
        \/ gpCall.got.key = gpCall.key
        \/ Contains(gpCall.group \o gpCall.key, " ") \/ Contains(gpCall.group, "/")

\* Adding nodes to the ring moves keys only to them, and the peer that is asked looks for
\* the key that was meant.
PeersCorrect == KeysMoveOnlyToAdded /\ []AskedIsServed
=============================================================================
