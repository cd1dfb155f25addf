------------------------------ MODULE EntryPoint ------------------------------
(***************************************************************************)
(* net/tcp (tcp_listen.go, duration.go) and net/ip: an entry               *)
(* point is configured, listens, accepts connections with or without a     *)
(* PROXY protocol header, and the client's address is looked for in the    *)
(* forwarding header.                                                      *)
(*                                                                         *)
(* An address is a record: its family and its bits, four for IPv6 and two  *)
(* for IPv4, and whether it is written with a zone.  <<0, 1>> at the head  *)
(* of an IPv6 address stands for ::ffff, the prefix of a mapped IPv4       *)
(* address.  A forwarding header is the sequence of its elements, Failed   *)
(* being one that is no address and Blank one of spaces only.              *)
(***************************************************************************)
EXTENDS Outcomes, Integers, Sequences

CONSTANTS
    EPConfigs,      \* entry point configurations
    EPAddrs,        \* addresses of peers
    EPForged,       \* forwarding headers a client may send
    EPMaxHops,      \* bound: proxies between the client and the server
    EPMaxOrphans,   \* bound: listening sockets left behind
    DurationWidth,  \* bits of a duration, of which a second takes SecondUnits
    SecondUnits,
    Blank

\* Addresses, networks, elements of a forwarding header, texts of durations and
\* configurations.
Bits4 == [1 .. 2 -> 0 .. 1]
Bits16 == [1 .. 4 -> 0 .. 1]
Address == [fam : {4}, bits : Bits4, zone : BOOLEAN] \cup [fam : {6}, bits : Bits16, zone : BOOLEAN]
Network == [fam : {4}, bits : Bits4, zone : {FALSE}, len : 0 .. 2]
               \cup [fam : {6}, bits : Bits16, zone : {FALSE}, len : 0 .. 4]
Element == Address \cup {Failed, Blank}

Text == [kind : {"digits", "units", "other"}, n : Int, quoted : BOOLEAN]
ProxyProtocol == [insecure : BOOLEAN, trustedIPs : Seq(Address \cup Network \cup {Failed})]
Configuration == [reusePort : BOOLEAN, transport : BOOLEAN, readTimeout : Text,
                  proxyProtocol : ProxyProtocol \cup {Nil}]

\* A checker, what is built for the PROXY protocol, the listener and the request.
IPNet == [base : Bits16, len : 0 .. 4]
Checker == [ips : SUBSET Bits16, nets : SUBSET IPNet]
ProxyPart == [timeout : Int, policy : Checker \cup {Nil}]
Listener == [cfg : Configuration, proxy : ProxyPart \cup {Nil}, closed : BOOLEAN]
Request == [client : Address, hops : Seq(Address), xff : Seq(Element), from : Address]

ASSUME EPAssumption ==
    /\ EPMaxHops \in Nat /\ EPMaxOrphans \in Nat
    /\ SecondUnits \in Nat /\ 2^DurationWidth \in Nat \ {0} /\ 2^(DurationWidth - 1) \in Nat
    /\ EPConfigs \subseteq Configuration /\ EPAddrs \subseteq Address
    /\ EPForged \subseteq Seq(Element) \ {<<>>}

\* The values returned in place of a result are none, and a blank element is neither an
\* address nor an error.
ASSUME EPOutcomes ==
    /\ Nil \notin Address \cup Bits4 \cup ProxyProtocol \cup ProxyPart \cup Checker
                     \cup Listener \cup Request
    /\ Failed \notin Address \cup Network \cup Bits16 \cup IPNet \cup Checker \cup ProxyPart \cup BOOLEAN
    /\ Blank \notin Address /\ Blank # Failed

VARIABLES
    epUp,           \* the listener, Nil before buildListener and after an error
    epOrphans,      \* listening sockets that nothing refers to any more
    epConns,        \* the accepted connections: peer, header and what the server sees
    epChain         \* a request on its way: client, path taken, header

epVars == <<epUp, epOrphans, epConns, epChain>>

-----------------------------------------------------------------------------
(* Addresses: net.IP and netip.Addr.                                       *)

As16(a) == IF a.fam = 4 THEN <<0, 1, a.bits[1], a.bits[2]>> ELSE a.bits

To4(b) == IF b[1] = 0 /\ b[2] = 1 THEN <<b[3], b[4]>> ELSE Nil

Prefix(b, n) == [i \in DOMAIN b |-> IF i <= n THEN b[i] ELSE 0]

\* net.ParseIP refuses zones, netip.ParseAddr takes them; As16 drops them.
ParseIP(t) == IF t = Failed \/ "len" \in DOMAIN t \/ t.zone THEN Failed ELSE As16(t)

parseIP(t) == IF t = Failed \/ "len" \in DOMAIN t THEN Failed ELSE As16(t)

\* net.ParseCIDR: the network as sixteen bytes and the length of its prefix.
ParseCIDR(t) ==
    IF t = Failed \/ "len" \notin DOMAIN t THEN Failed
    ELSE LET n == IF t.fam = 4 THEN t.len + 2 ELSE t.len IN [base |-> Prefix(As16(t), n), len |-> n]

\* IPNet.Contains: an IPv4 address, mapped or not, is in no IPv6 network.
NetContains(net, ip) == /\ (To4(net.base) = Nil) = (To4(ip) = Nil)
                        /\ Prefix(ip, net.len) = net.base

-----------------------------------------------------------------------------
(* ip.Checker.                                                             *)

NewChecker(trustedIPs) ==
    LET bad == {i \in DOMAIN trustedIPs :
                  ParseIP(trustedIPs[i]) = Failed /\ ParseCIDR(trustedIPs[i]) = Failed}
        isIP(i) == ParseIP(trustedIPs[i]) # Failed
    IN  IF trustedIPs = <<>> \/ bad # {} THEN Failed
        ELSE [ips |-> {ParseIP(trustedIPs[i]) : i \in {j \in DOMAIN trustedIPs : isIP(j)}},
              nets |-> {ParseCIDR(trustedIPs[i]) : i \in {j \in DOMAIN trustedIPs : ~isIP(j)}}]

ContainsIP(checker, ip) ==
    ip \in checker.ips \/ \E net \in checker.nets : NetContains(net, ip)

\* Contains: Failed for an address that is empty or does not parse.
CheckerContains(checker, t) == IF parseIP(t) = Failed THEN Failed ELSE ContainsIP(checker, parseIP(t))

\* IsAuthorized: nil, or an error.
IsAuthorized(checker, t) == CheckerContains(checker, t) = TRUE

-----------------------------------------------------------------------------
(* ip.Strategy.  A header that is missing reads as one blank element.      *)

\* getIPv6SubnetIP: a mapped IPv4 address counts as IPv6 here.
GetIPv6SubnetIP(t, subnet) ==
    IF parseIP(t) = Failed \/ t.fam = 4 \/ subnet < 0 \/ subnet > Len(t.bits) THEN t
    ELSE [fam |-> 6, bits |-> Prefix(t.bits, subnet), zone |-> FALSE]

\* RemoteAddrStrategy.GetIP.
RemoteAddrGetIP(remote, subnet) ==
    IF remote = Failed \/ subnet = Nil THEN remote ELSE GetIPv6SubnetIP(remote, subnet)

\* DepthStrategy.GetIP; a depth below one is out of the slice's range.
DepthGetIP(xffs, depth, subnet) ==
    IF Len(xffs) < depth THEN Blank
    ELSE LET ip == xffs[Len(xffs) - depth + 1] IN
         IF subnet = Nil \/ ip = Blank THEN ip ELSE GetIPv6SubnetIP(ip, subnet)

\* Mutant: the header is read from its beginning.
PoolGetIP_Forward(checker, xffs) ==
    LET out == {i \in DOMAIN xffs : xffs[i] # Blank /\ CheckerContains(checker, xffs[i]) # TRUE}
    IN  IF out = {} THEN Blank ELSE xffs[CHOOSE i \in out : \A j \in out : i <= j]

\* PoolStrategy.GetIP: from the most recent element backwards, the first one that is
\* not known to be in the pool.
PoolGetIP(checker, xffs) ==
    LET out == {i \in DOMAIN xffs : xffs[i] # Blank /\ CheckerContains(checker, xffs[i]) # TRUE}
    IN  IF out = {} THEN Blank ELSE xffs[CHOOSE i \in out : \A j \in out : j <= i]

-----------------------------------------------------------------------------
(* Duration.  A text is digits (a number of seconds), a value with units   *)
(* that time.ParseDuration takes, or neither; in JSON it may be quoted.    *)

Wrap(n) == ((n + 2^(DurationWidth - 1)) % 2^DurationWidth) - 2^(DurationWidth - 1)

\* time.ParseDuration refuses digits without a unit, but for zero.
ParseDuration(t) == IF t.kind = "units" \/ (t.kind = "digits" /\ t.n = 0)
                    THEN [v |-> t.n, err |-> FALSE] ELSE [v |-> 0, err |-> TRUE]

\* Set: digits are seconds, and the product may wrap around; an error leaves zero.
DurationSet(t) == IF t.kind = "digits" THEN [v |-> Wrap(t.n * SecondUnits), err |-> FALSE]
                  ELSE ParseDuration(t)

UnmarshalText(t) == DurationSet(t)

\* UnmarshalJSON: only digits without quotes are seconds; text that is no JSON string
\* leaves the value as it was.
UnmarshalJSON(old, t) ==
    IF ~t.quoted THEN IF t.kind = "digits" THEN [v |-> Wrap(t.n * SecondUnits), err |-> FALSE]
                      ELSE [v |-> old, err |-> TRUE]
    ELSE ParseDuration(t)

\* Mutant: the value is written as a bare number, which UnmarshalText takes for seconds.
MarshalText_Bare(v) == [kind |-> "digits", n |-> v, quoted |-> FALSE]

\* String, MarshalText and MarshalJSON always write units.
MarshalText(v) == [kind |-> "units", n |-> v, quoted |-> FALSE]

MarshalJSON(v) == [kind |-> "units", n |-> v, quoted |-> TRUE]

-----------------------------------------------------------------------------
(* The entry point.                                                        *)

\* The configuration fields that matter here.  The read timeout counts where there is a
\* transport part.  Whatever protocol is written behind the address, it is not looked at.
EntryPoint == [reusePort |-> FALSE, transport |-> TRUE,
               readTimeout |-> [kind |-> "digits", n |-> 0, quoted |-> FALSE],
               proxyProtocol |-> Nil]

\* buildProxyProtocolListener.  proxyproto takes 0 for its default, so that "no timeout"
\* becomes -1; without a policy every header is used.
BuildProxyProtocolListener(cfg) ==
    LET d == DurationSet(cfg.readTimeout).v
        timeout == IF d = 0 THEN -1 ELSE d
        checker == NewChecker(cfg.proxyProtocol.trustedIPs)
    IN  IF cfg.proxyProtocol.insecure THEN [timeout |-> timeout, policy |-> Nil]
        ELSE IF checker = Failed THEN Failed ELSE [timeout |-> timeout, policy |-> checker]

EPInit ==
    /\ epUp = Nil
    /\ epOrphans = 0
    /\ epConns = <<>>
    /\ epChain = Nil

\* newListenConfig sets SO_REUSEPORT when asked to; without it a socket that is left
\* behind keeps the address busy.
CanListen(cfg) == epOrphans = 0 \/ cfg.reusePort

\* buildListener on a configuration that was decoded.  The socket listens before the
\* PROXY protocol part is built, and stays when that fails.  A PROXY protocol part
\* without a transport part panics: the process ends, and its sockets are gone when it is
\* started again.
BuildListener(cfg) ==
    /\ epUp = Nil
    /\ ~DurationSet(cfg.readTimeout).err /\ CanListen(cfg)
    /\ LET proxy == IF cfg.proxyProtocol = Nil THEN Nil ELSE BuildProxyProtocolListener(cfg) IN
       IF cfg.proxyProtocol # Nil /\ ~cfg.transport
       THEN /\ epOrphans' = 0
            /\ UNCHANGED epUp
       ELSE IF proxy = Failed
       THEN /\ epOrphans < EPMaxOrphans
            /\ epOrphans' = epOrphans + 1
            /\ UNCHANGED epUp
       ELSE /\ epUp' = [cfg |-> cfg, proxy |-> proxy, closed |-> FALSE]
            /\ UNCHANGED epOrphans
    /\ UNCHANGED <<epConns, epChain>>

\* The policy for a connection from peer: use the header, or leave it alone.
Policy(peer) ==
    IF epUp.proxy.policy = Nil THEN "USE"
    ELSE IF ContainsIP(epUp.proxy.policy, As16(peer)) THEN "USE" ELSE "IGNORE"

\* tcpKeepAliveListener.Accept, and proxyproto above it: the server sees the address in
\* the header where the policy says so.  A connection whose keep-alive cannot be set is
\* given up without being closed.
Accept(peer, header) ==
    /\ epUp # Nil /\ ~epUp.closed /\ Len(epConns) < 1
    /\ \E keepAlive \in {"ok", "ENOPROTOOPT", "error"} :
         LET seen == IF epUp.proxy # Nil /\ header # Nil /\ Policy(peer) = "USE"
                     THEN header ELSE peer
         IN  epConns' = Append(epConns, IF keepAlive = "error"
                THEN [peer |-> peer, header |-> header, seen |-> Nil]
                ELSE [peer |-> peer, header |-> header, seen |-> seen])
    /\ UNCHANGED <<epUp, epOrphans, epChain>>

\* onceCloseListener.Close.
Close ==
    /\ epUp # Nil
    /\ epUp' = [epUp EXCEPT !.closed = TRUE]
    /\ UNCHANGED <<epOrphans, epConns, epChain>>

\* A listener that was closed is built again from its configuration, which was written
\* and read back as TOML (text) or JSON in between.
Restart(format) ==
    LET v == DurationSet(epUp.cfg.readTimeout).v
        cfg == [epUp.cfg EXCEPT !.readTimeout = IF format = "toml" THEN MarshalText(v)
                                                ELSE MarshalJSON(v)]
        back == IF format = "toml" THEN UnmarshalText(MarshalText(v))
                ELSE UnmarshalJSON(0, MarshalJSON(v))
    IN  /\ epUp # Nil /\ epUp.closed
        /\ ~back.err
        /\ epUp' = [cfg |-> cfg, closed |-> FALSE,
                    proxy |-> IF cfg.proxyProtocol = Nil THEN Nil
                              ELSE BuildProxyProtocolListener(cfg)]
        /\ UNCHANGED <<epOrphans, epConns, epChain>>

-----------------------------------------------------------------------------
(* A request on its way through proxies to the server behind.              *)

\* A client sends a request with a forwarding header of its own making, <<Blank>> for
\* none.
ClientRequest(client, xff) ==
    /\ epChain = Nil
    /\ epChain' = [client |-> client, hops |-> <<>>, xff |-> xff, from |-> client]
    /\ UNCHANGED <<epUp, epOrphans, epConns>>

\* A proxy at address p appends the address it got the request from (http_proxy.go's
\* Rewrite) and passes it on.
ProxyHop(p) ==
    /\ epChain # Nil /\ Len(epChain.hops) < EPMaxHops
    /\ epChain' = [epChain EXCEPT
         !.hops = Append(@, p), !.from = p,
         !.xff = IF @ = <<Blank>> THEN <<epChain.from>> ELSE Append(@, epChain.from)]
    /\ UNCHANGED <<epUp, epOrphans, epConns>>

EPNext ==
    \/ \E cfg \in EPConfigs : BuildListener(cfg)
    \/ \E peer \in EPAddrs, header \in EPAddrs \cup {Nil} : Accept(peer, header)
    \/ Close
    \/ \E format \in {"toml", "json"} : Restart(format)

EPRequestNext ==
    \/ \E client \in EPAddrs, xff \in EPForged : ClientRequest(client, xff)
    \/ \E p \in EPAddrs : ProxyHop(p)

EPSpec == EPInit /\ [][EPNext \/ EPRequestNext]_epVars

-----------------------------------------------------------------------------

\* What a list of trusted addresses and networks means, said directly: the same address,
\* or the same family once mapped addresses count as IPv4, and agreement up to the length.
Trusts(trustedIPs, a) ==
    \E i \in DOMAIN trustedIPs :
        LET t == trustedIPs[i]
            v4(x) == x.fam = 4 \/ To4(x.bits) # Nil
            own(x) == IF x.fam = 6 /\ v4(x) THEN To4(x.bits) ELSE x.bits
        IN  IF "len" \in DOMAIN t
            THEN /\ v4(a) = (t.fam = 4 \/ (v4(t) /\ t.len >= 2))
                 /\ \A k \in 1..t.len :
                      IF t.fam = 4 THEN own(a)[k] = t.bits[k] ELSE As16(a)[k] = t.bits[k]
            ELSE v4(t) = v4(a) /\ own(t) = own(a)

\* buildListener's policy: the server sees another address than the peer's only if the
\* entry point trusts everyone or this peer, however the addresses are written, and a
\* trusted peer's header is not lost; proxyproto's own timeout is never in force.
HeaderOnlyFromTrusted ==
    /\ epUp # Nil /\ epUp.proxy # Nil => epUp.proxy.timeout # 0
    /\ \A i \in DOMAIN epConns :
        LET c == epConns[i]
            pp == epUp.cfg.proxyProtocol
            use == /\ pp # Nil /\ c.header # Nil
                   /\ pp.insecure \/ Trusts(pp.trustedIPs, c.peer)
        IN  c.seen # Nil => c.seen = IF use THEN c.header ELSE c.peer

\* Behind a chain of trusted proxies the strategies find the client whatever header it
\* sent: PoolStrategy when the pool holds the proxies and not the client, DepthStrategy
\* with the number of proxies.
ClientIPFound ==
    epChain # Nil /\ epChain.hops # <<>> =>
        /\ DepthGetIP(epChain.xff, Len(epChain.hops), Nil) = epChain.client
        /\ \A cfg \in EPConfigs :
            LET pp == cfg.proxyProtocol
                n == Len(epChain.hops)
                \* the last proxy is the server's peer and not in the header
                inside == {epChain.hops[i] : i \in 1..(n - 1)}
            IN  /\ pp # Nil /\ ~pp.insecure
                /\ NewChecker(pp.trustedIPs) # Failed
                /\ \A p \in inside : Trusts(pp.trustedIPs, p)
                /\ ~Trusts(pp.trustedIPs, epChain.client)
                => PoolGetIP(NewChecker(pp.trustedIPs), epChain.xff) = epChain.client

\* Whom the server takes a connection or a request to be from is whom the configured
\* trust says, on either way.
ClientAddressRight == HeaderOnlyFromTrusted /\ ClientIPFound

\* A configuration that was marshalled and read again gives the listener the same
\* timeout and the same policy.
RestartKeepsPolicy ==
    [][epUp # Nil /\ epUp' # Nil => epUp'.proxy = epUp.proxy]_epVars

\* What an entry point makes of its configuration: it believes whom that says, and goes
\* on to do so when it is closed and built again.
EntryPointRight == []ClientAddressRight /\ RestartKeepsPolicy
=============================================================================
