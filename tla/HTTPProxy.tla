------------------------------ MODULE HTTPProxy ------------------------------
(***************************************************************************)
(* net/proxy/http_proxy.go and http_builder.go, with the round trippers of *)
(* http_transport.go at work: a request is rewritten, sent through         *)
(* httpKerberosRoundTripper and httpSmartRoundTripper, and answered or     *)
(* turned into a status by ErrorHandler.                                   *)
(*                                                                         *)
(* A path is a sequence of characters, "%2F" being an escaped slash.       *)
(* Header values are opaque.  httputil.ReverseProxy, which calls Rewrite   *)
(* with the forwarding headers already taken out, and the backend are      *)
(* external.                                                               *)
(***************************************************************************)
EXTENDS HTTPTransport

CONSTANTS
    HPReqs,         \* requests
    HPConns,        \* client connections with a sticky holder in their context
    HPInputs,       \* what a request may look like when it arrives
    HPTargets,      \* target URLs: scheme, host and path
    HPPeers,        \* certificate chains a backend may present
    NoConn, Absent

ASSUME HPAssumption == NoConn \notin HPConns

\* A path is a sequence of characters; a RequestURI may not parse.
ASSUME HPPathAssumption ==
    /\ \A t \in HPTargets : t.path \in Seq(STRING)
    /\ \A in \in HPInputs : in.url \in Seq(STRING) /\ in.requestURI \in Seq(STRING) \cup {Failed}

VARIABLES
    hpHandler,      \* the handler: target, its two flags, the round tripper it was given
    hpPc,           \* hpPc[q]: where request q is
    hpIn, hpOut,    \* its incoming and its rewritten form
    hpConn,         \* the connection it came on
    hpVia,          \* the round tripper it took: 0 the original, n the n-th clone
    hpStatus,       \* the status ErrorHandler wrote, 0 if the backend answered
    sticky,         \* sticky[c]: stickyHTTPRoundTripper.RoundTripper, 0 for nil
    hpClones,       \* how many clones k.new() has made
    hpOverlap       \* history: connections with two requests at once

hpVars == <<hpHandler, hpPc, hpIn, hpOut, hpConn, hpVia, hpStatus, sticky, hpClones, hpOverlap>>

-----------------------------------------------------------------------------
(* URLs.                                                                   *)

Unescape(e) == [i \in DOMAIN e |-> IF e[i] = "%2F" THEN "/" ELSE e[i]]

\* url.Parse: RawPath is only set when the default encoding of Path is another one.
ParsePath(e) == [path |-> Unescape(e),
                 rawPath |-> IF "%2F" \in ToSet(e) THEN e ELSE <<>>]

EscapedPath(u) == IF u.rawPath # <<>> THEN u.rawPath ELSE u.path

StartsWithSlash(p) == p # <<>> /\ Head(p) = "/"
EndsWithSlash(p) == p # <<>> /\ Last(p) = "/"

SingleJoiningSlash(a, b) ==
    IF EndsWithSlash(a) /\ StartsWithSlash(b) THEN a \o Tail(b)
    ELSE IF ~EndsWithSlash(a) /\ ~StartsWithSlash(b) THEN a \o <<"/">> \o b
    ELSE a \o b

JoinURLPath(a, b) ==
    IF a.rawPath = <<>> /\ b.rawPath = <<>>
    THEN [path |-> SingleJoiningSlash(a.path, b.path), rawPath |-> <<>>]
    ELSE LET ap == EscapedPath(a)
             bp == EscapedPath(b)
             cut == EndsWithSlash(ap) /\ StartsWithSlash(bp)
             add == ~EndsWithSlash(ap) /\ ~StartsWithSlash(bp)
         IN  [path |-> IF cut THEN a.path \o Tail(b.path)
                       ELSE IF add THEN a.path \o <<"/">> \o b.path ELSE a.path \o b.path,
              rawPath |-> IF cut THEN ap \o Tail(bp)
                          ELSE IF add THEN ap \o <<"/">> \o bp ELSE ap \o bp]

-----------------------------------------------------------------------------
(* The rewriting of a request.                                             *)

\* copyForwardedHeader: the headers are taken over as they are, nil values included.
CopyForwardedHeader(in) == [xff |-> in.xff, forwarded |-> in.forwarded]

\* The client's address is appended unless the context forbids it, the address cannot
\* be split, or the header is there with a nil value.
AppendXFF(in, xff) ==
    IF in.notAppendXFF \/ in.remote = Failed \/ xff = Nil THEN xff
    ELSE IF xff = Absent THEN <<in.remote>> ELSE Append(xff, in.remote)

IsWebSocketUpgrade(in) == in.upgrade = "websocket"

\* cleanWebSocketHeaders: the headers get the spelling of the standard; those that are
\* missing appear with a nil value.
CleanWebSocketHeaders(headers, all) ==
    [h \in all |-> IF h \in headers THEN "value" ELSE Nil]

WebSocketHeaders == {"Key", "Extensions", "Accept", "Protocol", "Version"}

\* rewriteRequestBuilder's function.  Path and query come from RequestURI when it parses,
\* from the URL otherwise.
Rewrite(target, passHostHeader, preservePath, in) ==
    LET u == IF in.requestURI = Failed THEN in.url ELSE in.requestURI
        joined == IF preservePath THEN JoinURLPath(ParsePath(target.path), ParsePath(u))
                  ELSE ParsePath(u)
        headers == CopyForwardedHeader(in)
    IN  [scheme |-> target.scheme, urlHost |-> target.host, from |-> u,
         path |-> joined.path, rawPath |-> joined.rawPath, target |-> target.path,
         xff |-> AppendXFF(in, headers.xff), forwarded |-> headers.forwarded,
         host |-> IF passHostHeader THEN in.host ELSE target.host,
         upgrade |-> in.upgrade,
         ws |-> IF IsWebSocketUpgrade(in)
                THEN CleanWebSocketHeaders(in.wsHeaders, WebSocketHeaders) ELSE Absent]

-----------------------------------------------------------------------------
(* Errors.  An error is the set of the things errors.Is and errors.AsType  *)
(* find in its chain.                                                      *)

StatusClientClosedRequest == 499

ComputeStatusCode(err) ==
    IF "EOF" \in err THEN 502
    ELSE IF "canceled" \in err THEN StatusClientClosedRequest
    ELSE IF "net" \in err THEN IF "timeout" \in err THEN 504 ELSE 502
    ELSE 500

\* What reaches ErrorHandler: the ends of a connection, cancellation by the client,
\* timeouts, refused dials and failed TLS handshakes.
Errors == {{"EOF"}, {"canceled"}, {"net", "timeout"}, {"net"}, {"tls"}}

-----------------------------------------------------------------------------

\* NewSingleHostReverseProxy, or HTTPProxyBuilder.Build with the round tripper of a
\* name: the handler keeps what it was given.
Build(name, target, passHostHeader, preservePath) ==
    [target |-> target, passHostHeader |-> passHostHeader, preservePath |-> preservePath,
     rt |-> GetRoundTripper(name)]

HPInit ==
    /\ \E t \in HPTargets, p, k \in BOOLEAN : hpHandler = Build("", t, p, k)
    /\ hpPc = [q \in HPReqs |-> "idle"]
    /\ hpIn = [q \in HPReqs |-> Absent]
    /\ hpOut = [q \in HPReqs |-> Absent]
    /\ hpConn = [q \in HPReqs |-> NoConn]
    /\ hpVia = [q \in HPReqs |-> 0]
    /\ hpStatus = [q \in HPReqs |-> 0]
    /\ sticky = [c \in HPConns |-> 0]
    /\ hpClones = 0
    /\ hpOverlap = {}

\* ReverseProxy.ServeHTTP up to the transport.
ServeHTTP(q, in, c) ==
    /\ hpPc[q] = "idle"
    /\ hpPc' = [hpPc EXCEPT ![q] = "send"]
    /\ hpIn' = [hpIn EXCEPT ![q] = in]
    /\ hpOut' = [hpOut EXCEPT ![q] =
         Rewrite(hpHandler.target, hpHandler.passHostHeader, hpHandler.preservePath, in)]
    /\ hpConn' = [hpConn EXCEPT ![q] = c]
    /\ hpOverlap' = hpOverlap \cup
         {d \in {c} \ {NoConn} : \E p \in HPReqs : hpConn[p] = d /\ hpPc[p] # "done"}
    /\ UNCHANGED <<hpHandler, hpVia, hpStatus, sticky, hpClones>>

\* Mutant: the sticky round tripper is not looked at.
RoundTrip_NotSticky(q) ==
    /\ hpPc[q] = "send"
    /\ hpVia' = [hpVia EXCEPT ![q] = 0]
    /\ hpPc' = [hpPc EXCEPT ![q] = IF hpConn[q] = NoConn THEN "sent" ELSE "negotiable"]
    /\ UNCHANGED <<hpHandler, hpIn, hpOut, hpConn, hpStatus, sticky, hpClones, hpOverlap>>

\* httpKerberosRoundTripper.RoundTrip up to the answer: without a holder the original is
\* used, with one that is set the sticky clone, otherwise the original, whose answer may
\* set the holder.
RoundTrip(q) ==
    LET held == IF hpConn[q] = NoConn THEN 0 ELSE sticky[hpConn[q]] IN
    /\ hpPc[q] = "send"
    /\ hpVia' = [hpVia EXCEPT ![q] = held]
    /\ hpPc' = [hpPc EXCEPT ![q] =
                  IF hpConn[q] = NoConn \/ held # 0 THEN "sent" ELSE "negotiable"]
    /\ UNCHANGED <<hpHandler, hpIn, hpOut, hpConn, hpStatus, sticky, hpClones, hpOverlap>>

Finish(q, status) ==
    /\ hpPc' = [hpPc EXCEPT ![q] = "done"]
    /\ hpStatus' = [hpStatus EXCEPT ![q] = status]
    /\ UNCHANGED <<hpHandler, hpIn, hpOut, hpConn, hpVia, hpOverlap>>

\* The backend can be reached: the transport is one of the round tripper's, and the
\* handshake with an https backend is accepted.
Reachable(q, peer) ==
    LET rt == hpHandler.rt IN
    /\ "plain" \in rt.transports
         \/ SmartRoundTrip(hpOut[q].scheme, hpOut[q].upgrade # "") \in rt.transports
    /\ hpOut[q].scheme = "https" => HandshakeAccepts(rt.tls, hpOut[q].urlHost, peer)

\* containsNTLMorNegotiate holds of the answer: the holder gets a new clone.
AnswerNegotiates(q, peer) ==
    /\ hpPc[q] \in {"sent", "negotiable"}
    /\ Reachable(q, peer)
    /\ IF hpPc[q] = "negotiable"
       THEN /\ hpClones' = hpClones + 1
            /\ sticky' = [sticky EXCEPT ![hpConn[q]] = hpClones + 1]
       ELSE UNCHANGED <<sticky, hpClones>>
    /\ Finish(q, 0)

Answer(q, peer) ==
    /\ hpPc[q] \in {"sent", "negotiable"}
    /\ Reachable(q, peer)
    /\ Finish(q, 0)
    /\ UNCHANGED <<sticky, hpClones>>

\* ErrorHandler.
AnswerFails(q, err) ==
    /\ hpPc[q] \in {"sent", "negotiable"}
    /\ Finish(q, ComputeStatusCode(err))
    /\ UNCHANGED <<sticky, hpClones>>

HPNext == \E q \in HPReqs :
    \/ \E in \in HPInputs, c \in HPConns \cup {NoConn} : ServeHTTP(q, in, c)
    \/ RoundTrip(q)
    \/ \E peer \in HPPeers : AnswerNegotiates(q, peer) \/ Answer(q, peer)
    \/ \E err \in Errors : AnswerFails(q, err)

HPSpec == HPInit /\ [][HPNext]_hpVars

-----------------------------------------------------------------------------

\* A connection that authenticated with NTLM or Negotiate stays on its clone: the sticky
\* round tripper is replaced only if two requests of the connection were under way at
\* once, and a later request takes it.
StickyKept ==
    [][\A c \in HPConns :
        /\ sticky[c] # 0 /\ sticky'[c] # sticky[c] => c \in hpOverlap
        /\ \A q \in HPReqs : hpConn[q] = c /\ hpPc[q] = "send" /\ hpPc'[q] # "send"
             => hpVia'[q] = sticky[c]]_hpVars

Doubled(p) == \E i \in DOMAIN p : i > 1 /\ p[i] = "/" /\ p[i - 1] = "/"

\* JoinURLPath's two results agree: the raw path is an encoding of the path, and neither
\* doubles nor loses a slash at the joint when an escaped slash stands there.
RewrittenPathsAgree ==
    \A q \in HPReqs : hpOut[q] # Absent =>
        LET o == hpOut[q] IN
        /\ o.rawPath # <<>> => Unescape(o.rawPath) = o.path
        /\ Len(EscapedPath(o)) >= Len(o.from)
        /\ Doubled(o.path) =>
             Doubled(o.from) \/ Doubled(o.target) \/ "%2F" \in ToSet(o.from \o o.target)

\* ServeHTTP sends a request where the target's path and the request's say, over the
\* connection its client authenticated.
RequestsForwarded == StickyKept /\ []RewrittenPathsAgree
=============================================================================
