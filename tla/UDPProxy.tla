------------------------------ MODULE UDPProxy ------------------------------
(***************************************************************************)
(* net/proxy/udp_proxy.go: ServeUDP, the owner of every accepted session,  *)
(* composed with the listener.  A session has three goroutines: ServeUDP   *)
(* itself, the copy from the client to the backend (up) and the copy back  *)
(* (down).  errChan is unbuffered: a copy hands its result over before it  *)
(* closes its destination.  The backend may fail at any time.              *)
(***************************************************************************)
EXTENDS UDPListener

VARIABLES
    serve,      \* serve[c]: where ServeUDP is
    up,         \* up[c]: where udpConnCopy(connBackend, conn) is
    down,       \* down[c]: where udpConnCopy(conn, connBackend) is
    backend     \* backend[c]: connBackend

pvars == <<serve, up, down, backend>>
vars  == <<accepting, closed, conns, addr, source, loop, shut, reader,
           msgs, done, routed, got, serve, up, down, backend>>

Init ==
    /\ LInit
    /\ serve = [c \in Sessions |-> "none"]
    /\ up = [c \in Sessions |-> "none"]
    /\ down = [c \in Sessions |-> "none"]
    /\ backend = [c \in Sessions |-> "none"]

-----------------------------------------------------------------------------
(* ServeUDP.                                                               *)

\* The goroutine that accepts starts ServeUDP for the session.
AcceptAndServe(c) ==
    /\ Accept(c)
    /\ serve' = [serve EXCEPT ![c] = "dial"]
    /\ UNCHANGED <<up, down, backend>>

Dial(c) ==
    /\ serve[c] = "dial"
    /\ serve' = [serve EXCEPT ![c] = "first"]
    /\ up' = [up EXCEPT ![c] = "read"]
    /\ down' = [down EXCEPT ![c] = "read"]
    /\ backend' = [backend EXCEPT ![c] = "open"]
    /\ UNCHANGED lvars

DialFails(c) ==
    /\ serve[c] = "dial"
    /\ serve' = [serve EXCEPT ![c] = "close"]
    /\ UNCHANGED <<lvars, up, down, backend>>

\* ServeUDP after one of its receives: the second one is followed by the deferred
\* connBackend.Close().
Received(c) ==
    \/ /\ serve[c] = "first"
       /\ serve' = [serve EXCEPT ![c] = "second"]
       /\ UNCHANGED backend
    \/ /\ serve[c] = "second"
       /\ serve' = [serve EXCEPT ![c] = "close"]
       /\ backend' = [backend EXCEPT ![c] = "closed"]

\* The deferred conn.Close(), in two steps.
ServeCloses(c) ==
    /\ serve[c] = "close"
    /\ CloseDone(c)
    /\ serve' = [serve EXCEPT ![c] = "delete"]
    /\ UNCHANGED <<accepting, closed, conns, addr, source, loop, shut,
                   reader, msgs, routed, got, up, down, backend>>

ServeReturns(c) ==
    /\ serve[c] = "delete"
    /\ CloseDelete(c)
    /\ serve' = [serve EXCEPT ![c] = "end"]
    /\ UNCHANGED <<accepting, closed, addr, source, loop, shut,
                   reader, msgs, done, routed, got, up, down, backend>>

-----------------------------------------------------------------------------
(* udpConnCopy from the session to the backend.                            *)

\* Read's first case, then the write to the backend, which may fail.
UpCopies(c) ==
    /\ up[c] = "read"
    /\ ReadMsg(c)
    /\ \/ backend[c] = "open" /\ UNCHANGED up
       \/ up' = [up EXCEPT ![c] = "send"]
    /\ UNCHANGED <<accepting, closed, conns, addr, source, loop, shut,
                   reader, done, routed, serve, down, backend>>

\* Read's second case.  Both cases may be ready, select takes either.
UpEOF(c) ==
    /\ up[c] = "read"
    /\ c \in done
    /\ up' = [up EXCEPT ![c] = "send"]
    /\ UNCHANGED <<lvars, serve, down, backend>>

UpSends(c) ==
    /\ up[c] = "send"
    /\ Received(c)
    /\ up' = [up EXCEPT ![c] = "close"]
    /\ UNCHANGED <<lvars, down>>

\* Mutant: udpConnCopy does not close its destination.
UpCloses_Missing(c) ==
    /\ up[c] = "close"
    /\ up' = [up EXCEPT ![c] = "end"]
    /\ UNCHANGED <<lvars, serve, down, backend>>

UpCloses(c) ==
    /\ up[c] = "close"
    /\ backend' = [backend EXCEPT ![c] = "closed"]
    /\ up' = [up EXCEPT ![c] = "end"]
    /\ UNCHANGED <<lvars, serve, down>>

-----------------------------------------------------------------------------
(* udpConnCopy from the backend to the session.                            *)

\* The copy of the backend's answers, which changes nothing here, ends: the read
\* fails (the backend is closed, or refuses) or the write does.
DownFails(c) ==
    /\ down[c] = "read"
    /\ down' = [down EXCEPT ![c] = "send"]
    /\ UNCHANGED <<lvars, serve, up, backend>>

DownSends(c) ==
    /\ down[c] = "send"
    /\ Received(c)
    /\ down' = [down EXCEPT ![c] = "close"]
    /\ UNCHANGED <<lvars, up>>

DownCloses(c) ==
    /\ down[c] = "close"
    /\ CloseDone(c)
    /\ down' = [down EXCEPT ![c] = "delete"]
    /\ UNCHANGED <<accepting, closed, conns, addr, source, loop, shut,
                   reader, msgs, routed, got, serve, up, backend>>

DownReturns(c) ==
    /\ down[c] = "delete"
    /\ CloseDelete(c)
    /\ down' = [down EXCEPT ![c] = "end"]
    /\ UNCHANGED <<accepting, closed, addr, source, loop, shut,
                   reader, msgs, done, routed, got, serve, up, backend>>

-----------------------------------------------------------------------------
ServeStep(c) == Dial(c) \/ DialFails(c) \/ ServeCloses(c) \/ ServeReturns(c)
UpStep(c)    == UpCopies(c) \/ UpEOF(c) \/ UpSends(c) \/ UpCloses(c)
DownStep(c)  == DownFails(c) \/ DownSends(c) \/ DownCloses(c) \/ DownReturns(c)

Next ==
    \/ (LoopStep \/ ShutdownStep) /\ UNCHANGED pvars
    \/ \E c \in Sessions :
          \/ AcceptAndServe(c) \/ ServeStep(c) \/ UpStep(c) \/ DownStep(c)
          \/ ReaderStep(c) /\ UNCHANGED pvars

\* No goroutine uses the session any more.
Unused(c) == serve[c] = "end" /\ {up[c], down[c]} \subseteq {"none", "end"}

\* Steps of session c's goroutines that are taken once at most.
OnceStep(c) ==
    \/ Dial(c) \/ DialFails(c) \/ ServeCloses(c) \/ DownSends(c) \/ DownCloses(c)
    \/ backend[c] = "closed" /\ DownFails(c)
    \/ Unused(c) /\ TickerCloses(c) /\ UNCHANGED pvars

\* Those of them that lock l.mu.
LockStep(c) ==
    ServeReturns(c) \/ DownReturns(c) \/ (ReaderReturns(c) /\ UNCHANGED pvars)

CloserStep == \E p \in Closers : StopAccepting(p) \/ ShutdownWaits(p) \/ CloseListener(p)

\* Every goroutine runs, and one that waits for l.mu gets it if the lock is free again
\* and again (sync.RWMutex lets nobody starve).  Nothing is assumed of the clients, of
\* the callers of Shutdown and of the goroutine that accepts, which may stop doing so.
\* A read of the backend ends for sure only when the backend is closed, and a session's
\* deadline passes for sure only when nobody uses it.  Fairness to a disjunction of steps
\* that are taken once at most is fairness to each of them.
Fairness ==
    /\ WF_vars(LoopGoesOn /\ UNCHANGED pvars)
    /\ SF_vars(CloserStep /\ UNCHANGED pvars)
    /\ \A c \in Sessions : WF_vars(UpStep(c)) /\ WF_vars(OnceStep(c)) /\ SF_vars(LockStep(c))

Spec     == Init /\ [][Next]_vars
FairSpec == Spec /\ Fairness

-----------------------------------------------------------------------------
(* Properties.                                                             *)

\* Types of the listener's and the sessions' variables, with the bounds on indices.
LTypeOK ==
    /\ conns \in [Addrs -> Nat]
    /\ addr \in Seq(Addrs)
    /\ Len(addr) <= MaxSessions
    /\ \A a \in Addrs : conns[a] <= Len(addr)
    /\ source \in Seq(Addrs)
    /\ loop \in [at : {"read", "get", "offer", "spawn", "deliver", "end"}, msg : Nat, conn : Nat]
    /\ loop.at \in {"offer", "spawn", "deliver"} => loop.conn \in 1..Len(addr)
    /\ loop.at = "get" => loop.msg \in 1..Len(source)
    /\ shut \in [Closers -> {"idle", "called", "wait", "close", "returned"}]
    /\ reader \in [Sessions -> {"none", "run", "delete", "end"}]
    /\ msgs \in [Sessions -> Seq(Nat)]
    /\ routed \in [Sessions -> Seq(Nat)]
    /\ got \in [Sessions -> Seq(Nat)]
    /\ done \subseteq Nat

\* Types of the handlers' variables.
PTypeOK ==
    /\ serve \in [Sessions -> {"none", "dial", "first", "second", "close", "delete", "end"}]
    /\ up \in [Sessions -> {"none", "read", "send", "close", "end"}]
    /\ down \in [Sessions -> {"none", "read", "send", "close", "delete", "end"}]
    /\ backend \in [Sessions -> {"none", "open", "closed"}]

\* The type invariant.
TypeOK == LTypeOK /\ PTypeOK /\ {accepting, closed} \subseteq BOOLEAN

InFlight(c) ==
    IF loop.at \in {"offer", "spawn", "deliver"} /\ loop.conn = c THEN <<loop.msg>> ELSE << >>

\* As long as a session is open nothing that getConn routed to it is lost,
\* repeated or reordered, however far the handler lags behind: it was read, is
\* queued in msgs or is in the hands of the listener's readLoop.
OpenSessionLossless ==
    \A c \in Sessions : c \notin done => routed[c] = got[c] \o msgs[c] \o InFlight(c)

\* A call of Shutdown that has found accepting set and has not closed the listener yet.
Closing(p) == shut[p] \in {"wait", "close"}

\* After close the listener has no session, never gets to the send on acceptCh, which is
\* closed, and no other Shutdown gets to close it again: both would panic.
NothingAfterClose ==
    closed => /\ MuFree /\ \A a \in Addrs : conns[a] = NoSession
              /\ \A p \in Closers : ~Closing(p)

\* The listener's readLoop, which serves all clients, never waits for a session:
\* when it has a datagram for one, that session's readLoop takes it, whatever the
\* session's handler does, or the session is closed.
NeverStalls ==
    loop.at = "deliver" => reader[loop.conn] = "run" \/ loop.conn \in done

\* getConn offers a session to Accept, holding l.mu, and nobody accepts any more.
NobodyAccepts == <>[](loop.at = "offer")

\* A session that was closed, by whomever, releases all its goroutines and its
\* backend connection, unless a new session waits for Accept for ever.
SessionReclaimed ==
    \/ NobodyAccepts
    \/ \A c \in Sessions :
           c \in done ~> /\ reader[c] = "end" /\ serve[c] = "end"
                         /\ up[c] \in {"none", "end"} /\ down[c] \in {"none", "end"}
                         /\ backend[c] # "open"

\* Every call of Shutdown returns, handlers that never finish notwithstanding, from the
\* call on, which may find l.mu held by a getConn that waits for Accept: the only thing
\* that can keep it for ever is that nobody accepts the session offered there.
ShutdownReturns ==
    \/ NobodyAccepts
    \/ \A p \in Closers : (shut[p] = "called") ~> (shut[p] = "returned")

\* What "Close releases resources related to the UDP session" (udp_conn.go:229)
\* says of the other sessions: one that nobody has closed stays registered.
OpenSessionRegistered ==
    \A c \in 1..Len(addr) : c \notin done => conns[addr[c]] = c

\* Sessions: an open one loses nothing, nothing happens after close, and the read loop
\* that all sessions share waits for none of their handlers.
SessionsSafe == OpenSessionLossless /\ NothingAfterClose /\ NeverStalls
=============================================================================
