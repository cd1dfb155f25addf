------------------------------- MODULE Tunnel -------------------------------
(***************************************************************************)
(* net/grpc: agents open tunnels for URL prefixes (cmd/client/client.go),  *)
(* the server routes HTTP requests to them and answers become HTTP         *)
(* responses again (cmd/server/server.go).                                 *)
(*                                                                         *)
(* The id of a request is a fresh UUID, so that the request itself stands  *)
(* for it.  Both ends may call Send on one stream from several goroutines  *)
(* at once, which gRPC does not allow: such a message may be lost.  A      *)
(* stream may break at any time, with what is on its way.                  *)
(***************************************************************************)
EXTENDS Outcomes, Naturals, Sequences, FiniteSets, SequencesExt

CONSTANTS
    TNStreams,      \* the streams agents open
    TNReqs,         \* HTTP requests, numbered as they arrive
    TNPrefixOf,     \* the prefix in a stream's metadata, Nil for none
    TNPrefixes,     \* the prefixes that occur
    TNUrls          \* URLs of requests: their path, and whether they are absolute

ASSUME TNAssumption ==
    /\ TNPrefixOf \in [TNStreams -> TNPrefixes \cup {Nil}]
    /\ Nil \notin TNPrefixes /\ Nil \notin TNStreams
    /\ TNReqs \subseteq Nat
    /\ TNPrefixes \subseteq Seq(STRING) /\ \A url \in TNUrls : url.path \in Seq(STRING)

VARIABLES
    tnRoutes,       \* s.routes: prefix to stream, Nil for no entry
    tnUp,           \* the stream is connected
    tnSrv,          \* tnSrv[s]: where OpenTunnel of stream s is
    tnGot,          \* the response OpenTunnel is dispatching, with the channel it found
    tnDown, tnBack, \* what is on its way to the agent, and to the server
    tnAgent,        \* tnAgent[s]: where recvLoop is
    tnWork,         \* the requests handleRequest is at work on
    tnPc, tnUrl,    \* tnPc[h]: where ServeHTTP of request h is; its URL
    tnVia,          \* the stream it was routed to
    tnPool,         \* responsePool: the requests with a channel
    tnCh,           \* the channel of a request, with a buffer of one
    tnResult        \* what was answered

tnVars == <<tnRoutes, tnUp, tnSrv, tnGot, tnDown, tnBack, tnAgent, tnWork, tnPc, tnUrl,
            tnVia, tnPool, tnCh, tnResult>>

tunnelVars == <<tnRoutes, tnUp, tnSrv, tnGot, tnDown, tnBack, tnAgent, tnWork>>
serveVars == <<tnPc, tnUrl, tnVia, tnPool, tnCh, tnResult>>

\* NewTunnelServer.
TNInit ==
    /\ tnRoutes = [p \in TNPrefixes |-> Nil]
    /\ tnUp = [s \in TNStreams |-> FALSE]
    /\ tnSrv = [s \in TNStreams |-> "idle"]
    /\ tnGot = [s \in TNStreams |-> Nil]
    /\ tnDown = [s \in TNStreams |-> {}]
    /\ tnBack = [s \in TNStreams |-> {}]
    /\ tnAgent = [s \in TNStreams |-> "idle"]
    /\ tnWork = [s \in TNStreams |-> {}]
    /\ tnPc = [h \in TNReqs |-> "idle"]
    /\ tnUrl = [h \in TNReqs |-> Nil]
    /\ tnVia = [h \in TNReqs |-> Nil]
    /\ tnPool = {}
    /\ tnCh = [h \in TNReqs |-> Nil]
    /\ tnResult = [h \in TNReqs |-> Nil]

-----------------------------------------------------------------------------
(* The server's side of a stream.                                          *)

\* Register only says whether OpenTunnel would bind the prefix now.
Register(p) == tnRoutes[p] = Nil

\* OpenTunnel up to its loop: the prefix is bound, or the stream refused because it
\* names none or one that is taken.
Bind(s) ==
    /\ tnSrv[s] = "opened"
    /\ IF TNPrefixOf[s] # Nil /\ tnRoutes[TNPrefixOf[s]] = Nil
       THEN /\ tnRoutes' = [tnRoutes EXCEPT ![TNPrefixOf[s]] = s]
            /\ tnSrv' = [tnSrv EXCEPT ![s] = "recv"]
       ELSE /\ tnSrv' = [tnSrv EXCEPT ![s] = "returned"]
            /\ UNCHANGED tnRoutes
    /\ UNCHANGED <<tnUp, tnGot, tnDown, tnBack, tnAgent, tnWork, serveVars>>

\* Recv gives a response, and dispatchResponse looks up its channel.
Lookup(s, r) ==
    /\ tnSrv[s] = "recv" /\ r \in tnBack[s]
    /\ tnBack' = [tnBack EXCEPT ![s] = @ \ {r}]
    /\ IF r.id \in tnPool
       THEN /\ tnGot' = [tnGot EXCEPT ![s] = r]
            /\ tnSrv' = [tnSrv EXCEPT ![s] = "deliver"]
       ELSE UNCHANGED <<tnGot, tnSrv>>
    /\ UNCHANGED <<tnRoutes, tnUp, tnDown, tnAgent, tnWork, serveVars>>

\* Mutant: the response goes to whoever is waiting.
Deliver_Any(s) ==
    /\ tnSrv[s] = "deliver"
    /\ \E h \in tnPool \cup {tnGot[s].id} :
         tnCh' = [tnCh EXCEPT ![h] = IF @ = Nil /\ tnPc[h] # "done" THEN tnGot[s] ELSE @]
    /\ tnGot' = [tnGot EXCEPT ![s] = Nil]
    /\ tnSrv' = [tnSrv EXCEPT ![s] = "recv"]
    /\ UNCHANGED <<tnRoutes, tnUp, tnDown, tnBack, tnAgent, tnWork, tnPc, tnUrl, tnVia,
                   tnPool, tnResult>>

\* dispatchResponse after the unlock: the send does not block, and is lost when the
\* buffer is full or nobody has the channel any more.
Deliver(s) ==
    /\ tnSrv[s] = "deliver"
    /\ LET h == tnGot[s].id IN
       tnCh' = [tnCh EXCEPT ![h] = IF @ = Nil /\ tnPc[h] # "done" THEN tnGot[s] ELSE @]
    /\ tnGot' = [tnGot EXCEPT ![s] = Nil]
    /\ tnSrv' = [tnSrv EXCEPT ![s] = "recv"]
    /\ UNCHANGED <<tnRoutes, tnUp, tnDown, tnBack, tnAgent, tnWork, tnPc, tnUrl, tnVia,
                   tnPool, tnResult>>

\* Recv fails.
RecvEnds(s) ==
    /\ tnSrv[s] = "recv" /\ ~tnUp[s]
    /\ tnSrv' = [tnSrv EXCEPT ![s] = "unbind"]
    /\ UNCHANGED <<tnRoutes, tnUp, tnGot, tnDown, tnBack, tnAgent, tnWork, serveVars>>

\* The deferred function: the entry of the prefix is deleted, whosever it is.
Unbind(s) ==
    /\ tnSrv[s] = "unbind"
    /\ tnRoutes' = [tnRoutes EXCEPT ![TNPrefixOf[s]] = Nil]
    /\ tnSrv' = [tnSrv EXCEPT ![s] = "returned"]
    /\ UNCHANGED <<tnUp, tnGot, tnDown, tnBack, tnAgent, tnWork, serveVars>>

-----------------------------------------------------------------------------
(* ServeHTTP.                                                              *)

\* extractPrefix: the longest bound prefix of the path; none is the empty prefix, which
\* may be bound itself.
ExtractPrefix(path) ==
    LET matching == {p \in TNPrefixes : tnRoutes[p] # Nil /\ IsPrefix(p, path)}
    IN  IF matching = {} THEN <<>>
        ELSE CHOOSE p \in matching : \A q \in matching : Len(q) <= Len(p)

\* What the request gets: an error of the server, small enough for the buffer of the
\* connection, or an agent's answer, which the client has to read.
Finish(h, status, by) ==
    /\ tnPc' = [tnPc EXCEPT ![h] = IF h \notin tnPool THEN "done"
                                   ELSE IF by = Nil THEN "unregister" ELSE "write"]
    /\ tnResult' = [tnResult EXCEPT ![h] = [status |-> status, by |-> by]]

\* The lookup under the read lock.
ServeHTTP(h, url) ==
    LET p == ExtractPrefix(url.path) IN
    /\ tnPc[h] = "idle" /\ \A g \in TNReqs : g < h => tnPc[g] # "idle"
    /\ tnUrl' = [tnUrl EXCEPT ![h] = url]
    /\ IF p \in TNPrefixes /\ tnRoutes[p] # Nil
       THEN /\ tnVia' = [tnVia EXCEPT ![h] = tnRoutes[p]]
            /\ tnPc' = [tnPc EXCEPT ![h] = "body"]
            /\ UNCHANGED tnResult
       ELSE Finish(h, 502, Nil) /\ UNCHANGED tnVia
    /\ UNCHANGED <<tunnelVars, tnPool, tnCh>>

\* io.ReadAll(r.Body), which ends when the client has sent the body or is gone; the error
\* is not looked at.  No timeout bounds it.
ReadBody(h) ==
    /\ tnPc[h] = "body"
    /\ tnPc' = [tnPc EXCEPT ![h] = "register"]
    /\ UNCHANGED <<tunnelVars, tnUrl, tnVia, tnPool, tnCh, tnResult>>

RegisterWaiter(h) ==
    /\ tnPc[h] = "register"
    /\ tnPool' = tnPool \cup {h}
    /\ tnPc' = [tnPc EXCEPT ![h] = "send"]
    /\ UNCHANGED <<tunnelVars, tnUrl, tnVia, tnCh, tnResult>>

\* stream.Send, on a stream that may have gone since the lookup.
Send(h) ==
    LET s == tnVia[h]
        alone == \A g \in TNReqs \ {h} : tnPc[g] # "send" \/ tnVia[g] # s
    IN
    /\ tnPc[h] = "send"
    /\ IF ~tnUp[s] \/ tnSrv[s] = "returned"
       THEN Finish(h, 502, Nil) /\ UNCHANGED tnDown
       ELSE /\ tnPc' = [tnPc EXCEPT ![h] = "wait"]
            /\ \/ tnDown' = [tnDown EXCEPT ![s] = @ \cup {h}]
               \/ ~alone /\ UNCHANGED tnDown
            /\ UNCHANGED tnResult
    /\ UNCHANGED <<tnRoutes, tnUp, tnSrv, tnGot, tnBack, tnAgent, tnWork, tnUrl, tnVia,
                   tnPool, tnCh>>

Answer(h) ==
    /\ tnPc[h] = "wait" /\ tnCh[h] # Nil
    /\ Finish(h, tnCh[h].status, tnCh[h])
    /\ UNCHANGED <<tunnelVars, tnUrl, tnVia, tnPool, tnCh>>

\* Mutant: the wait has no end of its own.
Timeout_Never(h) == FALSE /\ tnPc[h] = "wait" /\ UNCHANGED tnVars

\* Thirty-five seconds have passed.
Timeout(h) ==
    /\ tnPc[h] = "wait"
    /\ Finish(h, 504, Nil)
    /\ UNCHANGED <<tunnelVars, tnUrl, tnVia, tnPool, tnCh>>

\* The answer is written; no timeout bounds that either.
WriteAnswer(h) ==
    /\ tnPc[h] = "write"
    /\ tnPc' = [tnPc EXCEPT ![h] = "unregister"]
    /\ UNCHANGED <<tunnelVars, tnUrl, tnVia, tnPool, tnCh, tnResult>>

\* The deferred unregisterWaiter.
UnregisterWaiter(h) ==
    /\ tnPc[h] = "unregister"
    /\ tnPool' = tnPool \ {h}
    /\ tnPc' = [tnPc EXCEPT ![h] = "done"]
    /\ tnCh' = [tnCh EXCEPT ![h] = Nil]
    /\ UNCHANGED <<tunnelVars, tnUrl, tnVia, tnResult>>

-----------------------------------------------------------------------------
(* The agent.                                                              *)

StartAgent(s) ==
    /\ tnSrv[s] = "idle"
    /\ tnSrv' = [tnSrv EXCEPT ![s] = "opened"]
    /\ tnUp' = [tnUp EXCEPT ![s] = TRUE]
    /\ tnAgent' = [tnAgent EXCEPT ![s] = "recv"]
    /\ UNCHANGED <<tnRoutes, tnGot, tnDown, tnBack, tnWork, serveVars>>

\* recvLoop starts a goroutine per request, and ends for good on any error: there is no
\* second attempt.
RecvLoop(s) ==
    /\ tnAgent[s] = "recv"
    /\ \/ /\ tnUp[s]
          /\ \E h \in tnDown[s] :
               /\ tnDown' = [tnDown EXCEPT ![s] = @ \ {h}]
               /\ tnWork' = [tnWork EXCEPT ![s] = @ \cup {h}]
          /\ UNCHANGED tnAgent
       \/ /\ ~tnUp[s] \/ tnSrv[s] = "returned"
          /\ tnAgent' = [tnAgent EXCEPT ![s] = "stopped"]
          /\ UNCHANGED <<tnDown, tnWork>>
    /\ UNCHANGED <<tnRoutes, tnUp, tnSrv, tnGot, tnBack, serveVars>>

\* The statuses handleRequest may send: an error because the request cannot be made (400)
\* or done (502), which a URL without a scheme never can, or what the local service says.
Statuses(h) == {502} \cup IF tnUrl[h].absolute THEN {200} ELSE {}

\* handleRequest, with sendError.  The result of Send is not looked at.
HandleRequest(s, h, status) ==
    /\ h \in tnWork[s] /\ status \in Statuses(h)
    /\ tnWork' = [tnWork EXCEPT ![s] = @ \ {h}]
    /\ \/ /\ tnUp[s]
          /\ tnBack' = [tnBack EXCEPT ![s] = @ \cup {[id |-> h, status |-> status, from |-> s]}]
       \/ /\ ~tnUp[s] \/ Cardinality(tnWork[s]) > 1
          /\ UNCHANGED tnBack
    /\ UNCHANGED <<tnRoutes, tnUp, tnSrv, tnGot, tnDown, tnAgent, serveVars>>

\* The connection is lost.
Break(s) ==
    /\ tnUp[s]
    /\ tnUp' = [tnUp EXCEPT ![s] = FALSE]
    /\ tnDown' = [tnDown EXCEPT ![s] = {}]
    /\ tnBack' = [tnBack EXCEPT ![s] = {}]
    /\ UNCHANGED <<tnRoutes, tnSrv, tnGot, tnAgent, tnWork, serveVars>>

-----------------------------------------------------------------------------

ServerStep(s) == \/ Bind(s) \/ Deliver(s) \/ RecvEnds(s) \/ Unbind(s)
                 \/ \E r \in tnBack[s] : Lookup(s, r)

HandlerStep(h) == \/ RegisterWaiter(h) \/ Send(h) \/ Answer(h) \/ Timeout(h)
                  \/ UnregisterWaiter(h)

TNNext ==
    \/ \E s \in TNStreams :
        \/ StartAgent(s) \/ ServerStep(s) \/ RecvLoop(s) \/ Break(s)
        \/ \E h \in TNReqs, status \in {200, 502} : HandleRequest(s, h, status)
    \/ \E h \in TNReqs : \/ HandlerStep(h) \/ ReadBody(h) \/ WriteAnswer(h)
                         \/ \E url \in TNUrls : ServeHTTP(h, url)

\* The goroutines of the server run when they can, and time passes.  A Send on a stream
\* ends, as recvLoop goes on reading or keepalive breaks the stream.  Nothing is assumed
\* of the clients, which may stop sending a body or reading an answer.
TNFairness ==
    /\ \A s \in TNStreams : WF_tnVars(ServerStep(s))
    /\ \A h \in TNReqs : WF_tnVars(HandlerStep(h))

TNSpec == TNInit /\ [][TNNext]_tnVars /\ TNFairness

-----------------------------------------------------------------------------

\* OpenTunnel's routes: an entry belongs to the one stream whose handler is between its
\* binding and its deferred delete, so that the delete takes no other stream's entry.
RoutesOwned ==
    \A s \in TNStreams, p \in TNPrefixes :
        tnRoutes[p] = s <=> /\ TNPrefixOf[s] = p
                            /\ tnSrv[s] \in {"recv", "deliver", "unbind"}

\* dispatchResponse: what a request is answered with was made for it, by the agent whose
\* prefix it has; a relative URL never gets more than an error.
AnswerIsOwn ==
    \A h \in TNReqs : tnResult[h] # Nil /\ tnResult[h].by # Nil =>
        LET r == tnResult[h].by IN
        /\ r.id = h /\ r.from = tnVia[h]
        /\ IsPrefix(TNPrefixOf[r.from], tnUrl[h].path)
        /\ tnResult[h].status = 200 => tnUrl[h].absolute

\* unregisterWaiter: responsePool holds the channels of requests that are under way and
\* no others.
PoolIsWaiting == tnPool = {h \in TNReqs : tnPc[h] \in {"send", "wait", "write", "unregister"}}

\* A request and its answer meet through the routes and the pool: a prefix has one owner,
\* an answer goes to the request it was made for, and no channel is left behind.
TunnelCorrect == RoutesOwned /\ AnswerIsOwn /\ PoolIsWaiting

\* A request is answered, by an agent, an error or the timeout, and its handler ends,
\* whatever agents, streams and other requests do, unless its own client never sends the
\* rest of the body or never reads the answer: neither is bounded by a timeout.
EveryRequestAnswered ==
    \A h \in TNReqs :
        \/ <>[](tnPc[h] \in {"body", "write"})
        \/ (tnPc[h] # "idle") ~> (tnPc[h] = "done")
=============================================================================
