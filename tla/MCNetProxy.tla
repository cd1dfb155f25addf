---------------------------- MODULE MCNetProxy ----------------------------
(***************************************************************************)
(* Model-checking instance of net/proxy without UDP, of net/tcp and net/ip *)
(* and of the exporter: the TCP and HTTP proxies, the transport manager,   *)
(* the entry point and the metrics handler.  They share no state while     *)
(* they run, so that a behaviour is one of one part, chosen at the start,  *)
(* and the others keep their initial state.                                *)
(***************************************************************************)
EXTENDS TCPProxy, HTTPProxy, EntryPoint, Exporter

VARIABLE part

\* Files, certificates and identities.
MCFileSystem == [caFile |-> "caPem", gone |-> Failed]
MCKeyPairs == {<<"certPem", "keyPem">>}
MCSpiffe == [ids |-> <<>>, trustDomain |-> "td"]
MCBadSpiffe == [ids |-> <<"id1", "badId">>, trustDomain |-> ""]

\* Transport configurations beside the default: one with everything set, one that is
\* refused because it has a minimum version only, one with SPIFFE.
MCFull == [ServersTransport EXCEPT !.serverName = "h", !.rootCAs = <<"caFile", "gone">>,
    !.certificates = <<[certFile |-> "certPem", keyFile |-> "keyPem"],
                       [certFile |-> "certPem", keyFile |-> "gone"]>>,
    !.cipherSuites = <<"TLS_AES_128_GCM_SHA256">>, !.minVersion = "VersionTLS12",
    !.maxVersion = "VersionTLS13", !.peerCertURI = "u", !.disableHTTP2 = TRUE,
    !.forwardingTimeouts = [readTimeout |-> 1, writeTimeout |-> 0]]
MCMinOnly == [ServersTransport EXCEPT !.minVersion = "VersionTLS12"]
MCSpiffeOnly == [ServersTransport EXCEPT !.spiffe = MCSpiffe]
MCConfigs == {MCFull, MCMinOnly, MCSpiffeOnly}

\* Balancers: own settings, a named transport, a PROXY protocol version that is refused.
MCPlain == [serversTransport |-> "", terminationDelay |-> Nil, proxyProtocol |-> Nil]
MCBalancers == {MCPlain,
    [MCPlain EXCEPT !.terminationDelay = -1, !.proxyProtocol = 2],
    [MCPlain EXCEPT !.proxyProtocol = 3],
    [MCPlain EXCEPT !.serversTransport = "named"],
    [MCPlain EXCEPT !.serversTransport = "missing"]}
MCTLS == [spiffe |-> Nil, serverName |-> "h", insecureSkipVerify |-> FALSE,
    rootCAs |-> <<"caFile">>, certificates |-> <<>>, peerCertURI |-> "", peerCertSANs |-> <<>>]
MCTransports == [n \in {"default@internal", "named"} |->
    [terminationDelay |-> 0, proxyProtocol |-> IF n = "named" THEN 1 ELSE Nil,
     tls |-> IF n = "named" THEN MCTLS ELSE Nil]]

\* Requests and targets: plain, escaped and empty paths, the forms of the forwarding
\* header, an upgrade.
MCInput == [xff |-> Absent, forwarded |-> Absent, notAppendXFF |-> FALSE, remote |-> "ip",
    url |-> <<"/", "a">>, requestURI |-> <<"/", "a">>, host |-> "front", upgrade |-> "",
    wsHeaders |-> {}]
MCInputs == {MCInput,
    [MCInput EXCEPT !.requestURI = <<"/", "%2F", "a">>, !.xff = Nil],
    [MCInput EXCEPT !.requestURI = Failed, !.url = <<>>, !.xff = <<"ip0">>,
                    !.upgrade = "websocket", !.wsHeaders = {"Key"}]}
MCTargets == {[scheme |-> "http", host |-> "h", path |-> <<>>],
              [scheme |-> "https", host |-> "h", path |-> <<"/", "b", "/">>],
              [scheme |-> "h2c", host |-> "h", path |-> <<"/", "b", "%2F">>]}
MCCert == [parses |-> TRUE, name |-> "leaf", issuer |-> "sysRoot", uris |-> {"u"}, hosts |-> {"h"}]
MCPeers == {<<MCCert>>, <<[MCCert EXCEPT !.issuer = "other"]>>, <<>>}

\* Entry points: a pool with an IPv4 network and an IPv6 address, one with an IPv6
\* network and a mapped address, an empty pool, everyone, no PROXY protocol.  The first
\* timeout overflows, the last one does not parse.
MCAddr(f, b) == [fam |-> f, bits |-> b, zone |-> FALSE]
MCNet(f, b, n) == [fam |-> f, bits |-> b, zone |-> FALSE, len |-> n]
MCText(k, n) == [kind |-> k, n |-> n, quoted |-> FALSE]
MCPool(ips) == [EntryPoint EXCEPT !.proxyProtocol = [insecure |-> FALSE, trustedIPs |-> ips]]
MCEntryPoints == {EntryPoint,
    [MCPool(<<MCNet(4, <<1, 0>>, 1), MCAddr(6, <<1, 0, 0, 0>>)>>) EXCEPT
        !.readTimeout = MCText("digits", 15)],
    [MCPool(<<MCNet(6, <<1, 1, 0, 0>>, 2), MCAddr(6, <<0, 1, 0, 1>>)>>) EXCEPT
        !.reusePort = TRUE, !.readTimeout = MCText("units", 3)],
    [MCPool(<<>>) EXCEPT !.reusePort = TRUE],
    MCPool(<<MCNet(4, <<1, 1>>, 2), Failed>>),
    [EntryPoint EXCEPT !.proxyProtocol = [insecure |-> TRUE, trustedIPs |-> <<>>]],
    [EntryPoint EXCEPT !.transport = FALSE],
    [EntryPoint EXCEPT !.proxyProtocol = [insecure |-> TRUE, trustedIPs |-> <<>>],
                       !.transport = FALSE, !.reusePort = TRUE],
    [EntryPoint EXCEPT !.readTimeout = MCText("other", 0)]}
MCAddrs == {MCAddr(4, <<1, 0>>), MCAddr(4, <<0, 1>>), MCAddr(6, <<0, 1, 1, 1>>),
            MCAddr(6, <<1, 0, 0, 0>>), [MCAddr(6, <<1, 1, 0, 1>>) EXCEPT !.zone = TRUE]}
MCForged == {<<Blank>>, <<Failed>>, <<MCAddr(4, <<0, 1>>), Blank>>,
             <<MCAddr(6, <<1, 0, 0, 0>>), MCAddr(4, <<0, 0>>)>>}

\* The collector of the repository, which always succeeds and has a field that is not a
\* number, and one that may fail.
MCFields == [netclass |-> {[name |-> "up", kind |-> "number"],
                           [name |-> "address_assign_type", kind |-> "string"]},
             other |-> {[name |-> "a", kind |-> "pointer"], [name |-> "b", kind |-> "nil"]}]
MCOutcomes == [netclass |-> {Nil}, other |-> {Nil, "NoData", Failed}]
MCOptions == [paths : {0, 1}, logger : BOOLEAN, maxRequests : {0, 1}]

npVars == <<tpVars, tmVars, hpVars, epVars, exVars, part>>

NPInit ==
    /\ part \in {"tcp", "transports", "http", "entry", "client", "exporter"}
    /\ TPInit /\ TMInit /\ HPInit /\ EPInit /\ EXInit
    /\ part # "transports" => tmObj = [o \in TMObjs |-> MCFull]
    /\ part # "http" => /\ hpHandler.target.path = <<>>
                        /\ ~hpHandler.passHostHeader /\ ~hpHandler.preservePath

NPNext ==
    /\ UNCHANGED part
    /\ \/ part = "tcp" /\ TPNext /\ UNCHANGED <<tmVars, hpVars, epVars, exVars>>
       \/ part = "transports" /\ TMNext /\ UNCHANGED <<tpVars, hpVars, epVars, exVars>>
       \/ part = "http" /\ HPNext /\ UNCHANGED <<tpVars, tmVars, epVars, exVars>>
       \/ part = "entry" /\ EPNext /\ UNCHANGED <<tpVars, tmVars, hpVars, exVars>>
       \/ part = "client" /\ EPRequestNext /\ UNCHANGED <<tpVars, tmVars, hpVars, exVars>>
       \/ part = "exporter" /\ EXNext /\ UNCHANGED <<tpVars, tmVars, hpVars, epVars>>

\* No fair action is enabled in the initial state of a part, so that the fairness of the
\* parts that are not chosen asks for nothing.
NPSpec == NPInit /\ [][NPNext]_npVars /\ TPFairness /\ EXFairness
=============================================================================
