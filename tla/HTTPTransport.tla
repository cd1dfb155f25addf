---------------------------- MODULE HTTPTransport ----------------------------
(***************************************************************************)
(* net/proxy/http_transport.go: HTTPTransportManager and the round         *)
(* trippers it hands out.                                                  *)
(*                                                                         *)
(* Go maps and pointers are shared.  The caller's map is tmCaller, the     *)
(* configurations it points to are objects in tmObj, and t.configs is      *)
(* either that very map (tmShared) or a map of the manager's own.  The     *)
(* caller may change map and objects at any time; Update is atomic under   *)
(* rtLock and does not run while the caller writes.                        *)
(***************************************************************************)
EXTENDS ProxyTLS

CONSTANTS
    TMNames,        \* names of transports, DefaultName among them
    TMObjs,         \* configuration objects of the caller
    TMConfigs,      \* values a configuration object may take
    DefaultName, DefaultObj, NoObj, NoRT

ASSUME TMAssumption == DefaultName \in TMNames /\ DefaultObj \notin TMObjs

VARIABLES
    tmObj,          \* the value of each object
    tmCaller,       \* the caller's map
    tmShared,       \* t.configs is the caller's map
    tmOwn,          \* t.configs otherwise
    tmRT,           \* t.roundTrippers
    tmTLS,          \* t.tlsConfigs (NoRT: no entry)
    tmTainted       \* history: names whose entry of t.configs changed without Update

tmVars == <<tmObj, tmCaller, tmShared, tmOwn, tmRT, tmTLS, tmTainted>>

configs == IF tmShared THEN tmCaller ELSE tmOwn

\* What a name's configuration is through a map m and the objects obj.
Deref(m, obj, n) ==
    IF m[n] = NoObj THEN NoObj
    ELSE IF m[n] = DefaultObj THEN ServersTransport ELSE obj[m[n]]

-----------------------------------------------------------------------------
(* Round trippers.                                                         *)

\* createTLSConfig's error is dropped, so that a refused configuration leaves nil.
TLSConfigOf(cfg) == LET t == CreateTLSConfig(cfg) IN IF t = Failed THEN Nil ELSE t

\* httpSmartRoundTripper holds one transport per protocol.
NewHTTPSmartRoundTripper == {"http", "http2", "h2c"}

\* With timeouts configured, the dialer wraps its connections in httpConnWithTimeouts
\* when one of the two is positive.
CustomHTTPDialContext(t) == IF t.readTimeout <= 0 /\ t.writeTimeout <= 0
                            THEN "conn" ELSE "connWithTimeouts"

CreateRoundTripper(cfg, tls) ==
    [tls |-> tls,
     dial |-> IF cfg.forwardingTimeouts = Nil THEN "conn"
              ELSE CustomHTTPDialContext(cfg.forwardingTimeouts),
     transports |-> IF cfg.disableHTTP2 THEN {"plain"} ELSE NewHTTPSmartRoundTripper]

\* httpSmartRoundTripper.RoundTrip: the transport a request takes.  A request with an
\* h2c URL that asks for an upgrade goes over HTTP/1.
SmartRoundTrip(scheme, upgrade) ==
    IF upgrade THEN "http" ELSE IF scheme = "h2c" THEN "h2c" ELSE "http2"

BuiltFrom(cfg) == CreateRoundTripper(cfg, TLSConfigOf(cfg))

\* "No object" and "no round tripper" are none of the things they are told from.
ASSUME TMValues ==
    /\ NoObj \notin TMObjs \cup {DefaultObj} \cup TMConfigs \cup {ServersTransport}
    /\ \A cfg \in TMConfigs \cup {ServersTransport} : BuiltFrom(cfg) # NoRT

-----------------------------------------------------------------------------

\* NewHTTPTransportManager ends with an Update of a map nobody else has.
TMInit ==
    /\ tmObj \in [TMObjs -> TMConfigs]
    /\ tmCaller = [n \in TMNames |-> NoObj]
    /\ tmShared = FALSE
    /\ tmOwn = [n \in TMNames |-> IF n = DefaultName THEN DefaultObj ELSE NoObj]
    /\ tmRT = [n \in TMNames |->
                 IF n = DefaultName THEN BuiltFrom(ServersTransport) ELSE NoRT]
    /\ tmTLS = [n \in TMNames |->
                 IF n = DefaultName THEN TLSConfigOf(ServersTransport) ELSE NoRT]
    /\ tmTainted = {}

\* The names whose entry in t.configs is another one after a step of the caller.
ChangedBehindBack == {n \in TMNames : Deref(configs, tmObj, n) # Deref(configs, tmObj, n)'}

\* The caller assigns or deletes an entry of its map.
CallerSets(n, o) ==
    /\ tmCaller[n] # o
    /\ tmCaller' = [tmCaller EXCEPT ![n] = o]
    /\ UNCHANGED <<tmObj, tmShared, tmOwn, tmRT, tmTLS>>
    /\ tmTainted' = tmTainted \cup ChangedBehindBack

\* The caller changes a configuration in place.
CallerMutates(o, c) ==
    /\ tmObj[o] # c
    /\ tmObj' = [tmObj EXCEPT ![o] = c]
    /\ UNCHANGED <<tmCaller, tmShared, tmOwn, tmRT, tmTLS>>
    /\ tmTainted' = tmTainted \cup ChangedBehindBack

\* The caller goes on with a copy of its map, leaving the old one to the manager.
CallerClones ==
    /\ tmShared
    /\ tmShared' = FALSE
    /\ tmOwn' = tmCaller
    /\ UNCHANGED <<tmObj, tmCaller, tmRT, tmTLS, tmTainted>>

\* Mutant: a configuration that changed keeps its round tripper.
Rebuilt_AddedOnly(new, made, old) ==
    [n \in TMNames |->
        IF new[n] = NoObj THEN IF configs[n] # NoObj THEN NoRT ELSE old[n]
        ELSE IF configs[n] # NoObj THEN old[n]
        ELSE made[n]]

\* The two loops of Update, for one of the derived maps: the entry of a name that
\* disappears is deleted, that of an equal configuration stays, any other is made anew.
Rebuilt(new, made, old) ==
    [n \in TMNames |->
        IF new[n] = NoObj THEN IF configs[n] # NoObj THEN NoRT ELSE old[n]
        ELSE IF Deref(configs, tmObj, n) = Deref(new, tmObj, n) THEN old[n]
        ELSE made[n]]

\* Update(newConfigs).  A map without the default transport is cloned.  The first loop
\* deletes from t.configs, which may be the caller's map.
Update(newConfigs) ==
    LET clone == newConfigs[DefaultName] = NoObj
        new == IF clone THEN [newConfigs EXCEPT ![DefaultName] = DefaultObj] ELSE newConfigs
        named == {n \in TMNames : new[n] # NoObj}
    IN  /\ tmRT' = Rebuilt(new, [n \in named |-> BuiltFrom(Deref(new, tmObj, n))], tmRT)
        /\ tmTLS' = Rebuilt(new, [n \in named |-> TLSConfigOf(Deref(new, tmObj, n))], tmTLS)
        /\ tmCaller' = [n \in TMNames |->
                         IF tmShared /\ new[n] = NoObj THEN NoObj ELSE tmCaller[n]]
        /\ tmShared' = ~clone
        /\ tmOwn' = IF tmShared' THEN [n \in TMNames |-> NoObj] ELSE new
        /\ tmTainted' = {n \in tmTainted :
                           IF new[n] = NoObj THEN configs[n] = NoObj
                           ELSE Deref(configs, tmObj, n) = Deref(new, tmObj, n)}
        /\ UNCHANGED tmObj

UpdateWithMap == Update(tmCaller)

\* Update(nil).
UpdateWithNil == Update([n \in TMNames |-> NoObj])

TMNext ==
    \/ \E n \in TMNames, o \in TMObjs \cup {NoObj} : CallerSets(n, o)
    \/ \E o \in TMObjs, c \in TMConfigs : CallerMutates(o, c)
    \/ CallerClones
    \/ UpdateWithMap
    \/ UpdateWithNil

TMSpec == TMInit /\ [][TMNext]_tmVars

-----------------------------------------------------------------------------
(* Lookups, each under the read lock.                                      *)

ResolveName(n) == IF n = "" THEN DefaultName ELSE n

GetRoundTripper(n) == tmRT[ResolveName(n)]

Get(n) == configs[ResolveName(n)]

GetTLSConfig(n) == tmTLS[ResolveName(n)]

-----------------------------------------------------------------------------

\* Round trippers and TLS configurations are those of the configurations in force, and
\* no name without a configuration has one, except for names whose configuration was
\* changed through a map or an object shared with the caller: Update compares such a
\* configuration with itself.  The default transport is there whatever the caller does.
TransportsCurrent ==
    /\ GetRoundTripper("") # NoRT
    /\ \A n \in TMNames \ tmTainted :
        LET cfg == Deref(configs, tmObj, n) IN
        /\ tmRT[n] = IF cfg = NoObj THEN NoRT ELSE BuiltFrom(cfg)
        /\ tmTLS[n] = IF cfg = NoObj THEN NoRT ELSE TLSConfigOf(cfg)
=============================================================================
