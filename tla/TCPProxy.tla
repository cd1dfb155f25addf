------------------------------ MODULE TCPProxy ------------------------------
(***************************************************************************)
(* net/proxy/tcp_proxy.go and tcp_dialer.go: one connection served by      *)
(* ServeTCP, from the dialer that TCPDialerManager.Build makes for it to   *)
(* the deferred closes.  A side is the client's or the backend's           *)
(* connection; the copy of a side is connCopy with that side as src.       *)
(*                                                                         *)
(* Data is counted in chunks.  Peers send, half-close and reset as they    *)
(* like and go on reading what they are sent.  An armed read deadline may  *)
(* pass at any later time.                                                 *)
(***************************************************************************)
EXTENDS ProxyTLS, Integers

CONSTANTS
    TPMaxChunks,        \* bound: chunks a peer sends
    TPTransports,       \* the manager's map: name to TCPServersTransport
    TPBalancers         \* TCPServersLoadBalancer configurations

ASSUME TPAssumption == TPMaxChunks \in Nat

Sides == {"client", "backend"}
Other(s) == IF s = "client" THEN "backend" ELSE "client"

VARIABLES
    tpDialer,       \* the TCPDialer of the proxy
    tpServe,        \* where ServeTCP is
    tpConn,         \* tpConn[s]: none, open or closed
    tpSent, tpGot,  \* chunks the peer of s has sent, and has been sent
    tpEof, tpReset, \* the peer of s has closed its writing side, or reset
    tpWritable,     \* our writing side to s has not been closed
    tpDeadline,     \* the read deadline of s: none, armed or passed
    tpCopy,         \* tpCopy[s]: where connCopy with src = s is
    tpCause         \* history: why io.Copy with src = s ended

tpVars == <<tpDialer, tpServe, tpConn, tpSent, tpGot, tpEof, tpReset, tpWritable,
            tpDeadline, tpCopy, tpCause>>

-----------------------------------------------------------------------------
(* TCPDialerManager.                                                       *)

\* The TLS configuration Build makes of a TLSClientConfig; there are no versions or
\* cipher suites here.
TCPTLSConfig(t) ==
    LET authorizer == SpiffePart(t)
        wants == \/ t.insecureSkipVerify \/ t.serverName # "" \/ t.peerCertURI # ""
                 \/ t.rootCAs # <<>> \/ t.certificates # <<>> \/ t.peerCertSANs # <<>>
    IN  IF authorizer = Failed \/ (wants /\ authorizer # Nil) THEN Failed
        ELSE IF authorizer # Nil THEN [authorizer |-> authorizer]
        ELSE IF ~wants THEN Nil
        ELSE [serverName |-> t.serverName, insecureSkipVerify |-> t.insecureSkipVerify,
              rootCAs |-> CreateRootCACertPool(t.rootCAs),
              certificates |-> GetCertificates(t.certificates), verifySANs |-> SANs(t)]

\* Build.  The balancer's own delay and PROXY protocol count only when it names no
\* transport.
BuildDialer(config, isTLS) ==
    LET name == IF config.serversTransport = "" THEN "default@internal"
                ELSE config.serversTransport
        st == TPTransports[name]
        own == config.serversTransport = ""
        delay == IF ~own THEN st.terminationDelay
                 ELSE IF config.terminationDelay = Nil THEN 0 ELSE config.terminationDelay
        proxy == IF own THEN config.proxyProtocol ELSE st.proxyProtocol
        tls == IF st.tls = Nil THEN Nil ELSE TCPTLSConfig(st.tls)
    IN  IF \/ name \notin DOMAIN TPTransports
           \/ proxy # Nil /\ proxy \notin {1, 2}
           \/ tls = Failed
        THEN Failed
        ELSE [terminationDelay |-> delay, proxyProtocol |-> proxy, isTLS |-> isTLS,
              tls |-> tls]

-----------------------------------------------------------------------------

TPInit ==
    /\ tpDialer = Nil
    /\ tpServe = "idle"
    /\ tpConn = [s \in Sides |-> "none"]
    /\ tpSent = [s \in Sides |-> 0]
    /\ tpGot = [s \in Sides |-> 0]
    /\ tpEof = [s \in Sides |-> FALSE]
    /\ tpReset = [s \in Sides |-> FALSE]
    /\ tpWritable = [s \in Sides |-> TRUE]
    /\ tpDeadline = [s \in Sides |-> "none"]
    /\ tpCopy = [s \in Sides |-> "idle"]
    /\ tpCause = [s \in Sides |-> "none"]

streamVars == <<tpSent, tpGot, tpEof, tpReset, tpWritable, tpDeadline>>

\* A connection has been accepted and ServeTCP is called on it, with the dialer that
\* Build made; without one there is no proxy.
ServeTCP(config, isTLS) ==
    /\ tpServe = "idle"
    /\ tpDialer' = BuildDialer(config, isTLS)
    /\ tpDialer' # Failed
    /\ tpServe' = "dial"
    /\ tpConn' = [tpConn EXCEPT !["client"] = "open"]
    /\ UNCHANGED <<streamVars, tpCopy, tpCause>>

(* DialContext of tcpDialer and tcpTLSDialer.                              *)

DialConn ==
    /\ tpServe = "dial"
    /\ \/ /\ tpServe' = "header"
          /\ tpConn' = [tpConn EXCEPT !["backend"] = "open"]
       \/ tpServe' = "closing" /\ UNCHANGED tpConn
    /\ UNCHANGED <<tpDialer, streamVars, tpCopy, tpCause>>

\* The PROXY protocol header, if there is one to write.
WriteProxyHeader ==
    /\ tpServe = "header"
    /\ \/ tpServe' = "handshake" /\ UNCHANGED tpConn
       \/ /\ tpDialer.proxyProtocol # Nil
          /\ tpServe' = "closing"
          /\ tpConn' = [tpConn EXCEPT !["backend"] = "closed"]
    /\ UNCHANGED <<tpDialer, streamVars, tpCopy, tpCause>>

\* Mutant: a failed handshake leaves the connection open.
Handshake_Leaks ==
    /\ tpServe = "handshake"
    /\ \/ /\ tpServe' = "first"
          /\ tpCopy' = [s \in Sides |-> "copy"]
          /\ UNCHANGED tpConn
       \/ /\ tpDialer.isTLS
          /\ tpServe' = "closing"
          /\ UNCHANGED <<tpCopy, tpConn>>
    /\ UNCHANGED <<tpDialer, streamVars, tpCause>>

\* The TLS handshake, if the dialer does one, then the two copies are started.
Handshake ==
    /\ tpServe = "handshake"
    /\ \/ /\ tpServe' = "first"
          /\ tpCopy' = [s \in Sides |-> "copy"]
          /\ UNCHANGED tpConn
       \/ /\ tpDialer.isTLS
          /\ tpServe' = "closing"
          /\ tpConn' = [tpConn EXCEPT !["backend"] = "closed"]
          /\ UNCHANGED tpCopy
    /\ UNCHANGED <<tpDialer, streamVars, tpCause>>

-----------------------------------------------------------------------------
(* connCopy.                                                               *)

Broken(s) == tpReset[s] \/ tpConn[s] # "open"

\* One turn of io.Copy: a chunk is read from s and written to the other side.
CopyChunk(s) ==
    /\ tpCopy[s] = "copy"
    /\ ~Broken(s) /\ tpDeadline[s] # "passed" /\ tpGot[Other(s)] < tpSent[s]
    /\ IF Broken(Other(s)) \/ ~tpWritable[Other(s)]
       THEN /\ tpCopy' = [tpCopy EXCEPT ![s] = "report"]
            /\ tpCause' = [tpCause EXCEPT ![s] = "write"]
            /\ UNCHANGED tpGot
       ELSE /\ tpGot' = [tpGot EXCEPT ![Other(s)] = @ + 1]
            /\ UNCHANGED <<tpCopy, tpCause>>
    /\ UNCHANGED <<tpDialer, tpServe, tpConn, tpSent, tpEof, tpReset, tpWritable, tpDeadline>>

\* io.Copy ends on the reading side.
CopyEnds(s, cause) ==
    /\ tpCopy[s] = "copy"
    /\ \/ cause = "eof" /\ ~Broken(s) /\ tpEof[s] /\ tpGot[Other(s)] = tpSent[s]
       \/ cause = "deadline" /\ tpDeadline[s] = "passed"
       \/ cause = "reset" /\ tpReset[s]
       \/ cause = "closed" /\ tpConn[s] # "open"
    /\ tpCopy' = [tpCopy EXCEPT ![s] = "report"]
    /\ tpCause' = [tpCause EXCEPT ![s] = cause]
    /\ UNCHANGED <<tpDialer, tpServe, tpConn, streamVars>>

\* Mutant: ServeTCP returns after the first result.
Report_First(s) ==
    /\ tpCopy[s] = "report"
    /\ tpServe \in {"first", "second"}
    /\ tpServe' = "closing"
    /\ tpCopy' = [tpCopy EXCEPT ![s] = "closeWrite"]
    /\ UNCHANGED <<tpDialer, tpConn, streamVars, tpCause>>

\* errCh is unbuffered: the copy's send and ServeTCP's receive are one step.
Report(s) ==
    /\ tpCopy[s] = "report"
    /\ \/ tpServe = "first" /\ tpServe' = "second"
       \/ tpServe = "second" /\ tpServe' = "closing"
    /\ tpCopy' = [tpCopy EXCEPT ![s] = "closeWrite"]
    /\ UNCHANGED <<tpDialer, tpConn, streamVars, tpCause>>

\* dst.CloseWrite(), which fails on a connection that is gone.
CloseWrite(s) ==
    /\ tpCopy[s] = "closeWrite"
    /\ IF Broken(Other(s))
       THEN tpCopy' = [tpCopy EXCEPT ![s] = "end"] /\ UNCHANGED tpWritable
       ELSE /\ tpCopy' = [tpCopy EXCEPT ![s] = "setDeadline"]
            /\ tpWritable' = [tpWritable EXCEPT ![Other(s)] = FALSE]
    /\ UNCHANGED <<tpDialer, tpServe, tpConn, tpSent, tpGot, tpEof, tpReset, tpDeadline, tpCause>>

\* Mutant: the termination delay is put on the side that has ended.
SetDeadline_Src(s) ==
    /\ tpCopy[s] = "setDeadline"
    /\ tpCopy' = [tpCopy EXCEPT ![s] = "end"]
    /\ tpDeadline' = IF tpDialer.terminationDelay >= 0
                     THEN [tpDeadline EXCEPT ![s] = "armed"] ELSE tpDeadline
    /\ UNCHANGED <<tpDialer, tpServe, tpConn, tpSent, tpGot, tpEof, tpReset, tpWritable, tpCause>>

SetDeadline(s) ==
    /\ tpCopy[s] = "setDeadline"
    /\ tpCopy' = [tpCopy EXCEPT ![s] = "end"]
    /\ tpDeadline' = IF tpDialer.terminationDelay >= 0
                     THEN [tpDeadline EXCEPT ![Other(s)] = "armed"] ELSE tpDeadline
    /\ UNCHANGED <<tpDialer, tpServe, tpConn, tpSent, tpGot, tpEof, tpReset, tpWritable, tpCause>>

\* The deferred closes, the backend's first.
DeferredCloses ==
    /\ tpServe = "closing"
    /\ IF tpConn["backend"] = "open" /\ tpCopy["backend"] # "idle"
       THEN tpConn' = [tpConn EXCEPT !["backend"] = "closed"] /\ UNCHANGED tpServe
       ELSE tpConn' = [tpConn EXCEPT !["client"] = "closed"] /\ tpServe' = "done"
    /\ UNCHANGED <<tpDialer, streamVars, tpCopy, tpCause>>

-----------------------------------------------------------------------------
(* Peers and time.                                                         *)

PeerStep(s) ==
    /\ ~tpEof[s] /\ ~tpReset[s] /\ tpConn[s] # "none"
    /\ \/ tpSent[s] < TPMaxChunks /\ tpSent' = [tpSent EXCEPT ![s] = @ + 1]
                                  /\ UNCHANGED <<tpEof, tpReset>>
       \/ tpEof' = [tpEof EXCEPT ![s] = TRUE] /\ UNCHANGED <<tpSent, tpReset>>
       \/ tpReset' = [tpReset EXCEPT ![s] = TRUE] /\ UNCHANGED <<tpSent, tpEof>>
    /\ UNCHANGED <<tpDialer, tpServe, tpConn, tpGot, tpWritable, tpDeadline, tpCopy, tpCause>>

DeadlinePasses(s) ==
    /\ tpDeadline[s] = "armed"
    /\ tpDeadline' = [tpDeadline EXCEPT ![s] = "passed"]
    /\ UNCHANGED <<tpDialer, tpServe, tpConn, tpSent, tpGot, tpEof, tpReset, tpWritable,
                   tpCopy, tpCause>>

Causes == {"eof", "deadline", "reset", "closed"}

TPNext ==
    \/ \E config \in TPBalancers, isTLS \in BOOLEAN : ServeTCP(config, isTLS)
    \/ DialConn \/ WriteProxyHeader \/ Handshake \/ DeferredCloses
    \/ \E s \in Sides :
        \/ CopyChunk(s) \/ Report(s) \/ CloseWrite(s) \/ SetDeadline(s)
        \/ \E cause \in Causes : CopyEnds(s, cause)
        \/ PeerStep(s) \/ DeadlinePasses(s)

\* ServeTCP's goroutine and the copies run when they can, deadlines pass.
TPFairness ==
    /\ WF_tpVars(DialConn \/ WriteProxyHeader \/ Handshake \/ DeferredCloses)
    /\ \A s \in Sides :
        /\ WF_tpVars(CopyChunk(s) \/ (\E cause \in Causes : CopyEnds(s, cause)))
        /\ WF_tpVars(Report(s) \/ CloseWrite(s) \/ SetDeadline(s))
        /\ WF_tpVars(DeadlinePasses(s))

TPSpec == TPInit /\ [][TPNext]_tpVars /\ TPFairness

-----------------------------------------------------------------------------

\* connCopy is never cut off by ServeTCP's own closes, and by a read deadline only after
\* the other direction has ended and with a termination delay that is not negative: data
\* is lost only in that way, by a failure of a peer, or not at all.
CutOnlyAfterHalfClose ==
    \A s \in Sides :
        /\ tpCause[s] # "closed"
        /\ tpCause[s] = "deadline" => /\ tpCause[Other(s)] \notin {"none", "deadline"}
                                      /\ tpDialer.terminationDelay >= 0

\* ServeTCP closes every connection it has opened or was given, on every path of the
\* dialer as well.
NoConnLeft == tpServe = "done" => "open" \notin {tpConn[s] : s \in Sides}

\* With a termination delay that is not negative, one direction that ends brings
\* ServeTCP to its end.
ServeTCPReturns == (\E s \in Sides : tpCopy[s] = "report") /\ tpDialer.terminationDelay >= 0
                     ~> tpServe = "done"
=============================================================================
