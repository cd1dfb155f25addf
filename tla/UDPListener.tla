---------------------------- MODULE UDPListener ----------------------------
(***************************************************************************)
(* net/proxy/udp_conn.go: a listener that turns the datagrams of one UDP   *)
(* socket into one session (UDPConn) per client address.                   *)
(*                                                                         *)
(* Processes: the listener's readLoop, one readLoop per session, the       *)
(* goroutine that calls Accept and the callers of Shutdown.  What the       *)
(* owner of a session does with it (Read, Write, Close) is given here as   *)
(* the effect of each call; UDPProxy says when the calls are made.         *)
(*                                                                         *)
(* l.mu is held across more than one step only while getConn hands a new   *)
(* session to Accept, so the lock is free unless readLoop is there.        *)
(* Unbuffered channels are rendezvous: one step of both sides.             *)
(* A datagram is its number in the order of arrival.  Any amount of time   *)
(* may pass between two steps, so that lastActivity, which Read and Write  *)
(* set, never keeps a session's ticker from finding its deadline passed;   *)
(* it matters to the fairness assumed in UDPProxy.  Accept on the closed   *)
(* acceptCh returns an error and changes nothing.                          *)
(***************************************************************************)
EXTENDS Naturals, Sequences

CONSTANTS
    Addrs,          \* client addresses
    Closers,        \* goroutines calling Shutdown (Close is Shutdown(0))
    MaxSessions,    \* bound: sessions explored; no bound if at least MaxDatagrams
    MaxDatagrams    \* bound: datagrams explored

ASSUME BoundsAreNat == MaxSessions \in Nat /\ MaxDatagrams \in Nat

Sessions == 1..MaxSessions
NoSession == 0

VARIABLES
    accepting,  \* l.accepting
    closed,     \* l.pConn and l.acceptCh are closed
    conns,      \* conns[a]: the session registered for a, or NoSession
    addr,       \* addr[c]: rAddr of session c, for the sessions made so far
    source,     \* source[n]: the address that datagram n came from
    loop,       \* the listener's readLoop: where it is, its datagram and session
    shut,       \* shut[p]: where the call of Shutdown of p is
    reader,     \* reader[c]: where the readLoop of session c is
    msgs,       \* c.msgs
    done,       \* sessions whose doneCh is closed
    routed,     \* history: the datagrams getConn returned session c for
    got         \* history: the datagrams Read returned on session c

lvars == <<accepting, closed, conns, addr, source, loop,
           shut, reader, msgs, done, routed, got>>

Reading == [at |-> "read", msg |-> 0, conn |-> NoSession]
MuFree  == loop.at \notin {"offer", "spawn"}

LInit ==
    /\ accepting = TRUE
    /\ closed = FALSE
    /\ conns = [a \in Addrs |-> NoSession]
    /\ addr = << >>
    /\ source = << >>
    /\ loop = Reading
    /\ shut = [p \in Closers |-> "idle"]
    /\ reader = [c \in Sessions |-> "none"]
    /\ msgs = [c \in Sessions |-> << >>]
    /\ done = {}
    /\ routed = [c \in Sessions |-> << >>]
    /\ got = [c \in Sessions |-> << >>]

-----------------------------------------------------------------------------
(* The listener's readLoop.                                                *)

\* ReadFrom returns a datagram.  It may be old news when getConn gets l.mu.
ReadFrom(a) ==
    /\ loop.at = "read"
    /\ ~closed
    /\ Len(source) < MaxDatagrams
    /\ source' = Append(source, a)
    /\ loop' = [at |-> "get", msg |-> Len(source) + 1, conn |-> NoSession]
    /\ UNCHANGED <<accepting, closed, conns, addr, shut, reader, msgs, done, routed, got>>

Getting(a) == loop.at = "get" /\ source[loop.msg] = a

\* getConn, lines 158-161: the address has a session.
GetConnFound(a) ==
    /\ Getting(a)
    /\ conns[a] # NoSession
    /\ loop' = [at |-> "deliver", msg |-> loop.msg, conn |-> conns[a]]
    /\ routed' = [routed EXCEPT ![conns[a]] = Append(@, loop.msg)]
    /\ UNCHANGED <<accepting, closed, conns, addr, source, shut, reader,
                   msgs, done, got>>

\* getConn, lines 163-165: the datagram is dropped.
GetConnRefused(a) ==
    /\ Getting(a)
    /\ conns[a] = NoSession
    /\ ~accepting
    /\ loop' = Reading
    /\ UNCHANGED <<accepting, closed, conns, addr, source, shut, reader,
                   msgs, done, routed, got>>

NewSession(a) ==
    LET c == Len(addr) + 1 IN
    /\ Getting(a)
    /\ conns[a] = NoSession
    /\ c \in Sessions
    /\ addr' = Append(addr, a)
    /\ conns' = [conns EXCEPT ![a] = c]
    /\ loop' = [at |-> "offer", msg |-> loop.msg, conn |-> c]
    /\ routed' = [routed EXCEPT ![c] = Append(@, loop.msg)]
    /\ UNCHANGED <<accepting, closed, source, shut, reader, msgs, done, got>>

\* getConn, lines 167-169, up to the send on acceptCh; l.mu stays locked.
GetConnNew(a) == accepting /\ NewSession(a)

\* Lines 170-172: go conn.readLoop() and the deferred unlock.
SpawnReader ==
    /\ loop.at = "spawn"
    /\ reader' = [reader EXCEPT ![loop.conn] = "run"]
    /\ loop' = [loop EXCEPT !.at = "deliver"]
    /\ UNCHANGED <<accepting, closed, conns, addr, source, shut,
                   msgs, done, routed, got>>

\* The send on conn.receiveCh, received by either select of the session's readLoop.
Deliver ==
    /\ loop.at = "deliver"
    /\ reader[loop.conn] = "run"
    /\ msgs' = [msgs EXCEPT ![loop.conn] = Append(@, loop.msg)]
    /\ loop' = Reading
    /\ UNCHANGED <<accepting, closed, conns, addr, source, shut, reader,
                   done, routed, got>>

\* Mutant: the select has a default case instead of waiting for doneCh.
SkipDone_Default ==
    /\ loop.at = "deliver"
    /\ loop' = Reading
    /\ UNCHANGED <<accepting, closed, conns, addr, source, shut, reader,
                   msgs, done, routed, got>>

\* The other case of that select: the session is closed, the datagram is dropped.
SkipDone ==
    /\ loop.at = "deliver"
    /\ loop.conn \in done
    /\ loop' = Reading
    /\ UNCHANGED <<accepting, closed, conns, addr, source, shut, reader,
                   msgs, done, routed, got>>

\* ReadFrom fails once the socket is closed.
LoopReturns ==
    /\ loop.at = "read"
    /\ closed
    /\ loop' = [Reading EXCEPT !.at = "end"]
    /\ UNCHANGED <<accepting, closed, conns, addr, source, shut, reader,
                   msgs, done, routed, got>>

-----------------------------------------------------------------------------
(* Accept and Shutdown.                                                    *)

Accept(c) ==
    /\ loop.at = "offer"
    /\ loop.conn = c
    /\ loop' = [loop EXCEPT !.at = "spawn"]
    /\ UNCHANGED <<accepting, closed, conns, addr, source, shut, reader,
                   msgs, done, routed, got>>

\* The call, which may have to wait for l.mu.
Shutdown(p) ==
    /\ shut[p] = "idle"
    /\ shut' = [shut EXCEPT ![p] = "called"]
    /\ UNCHANGED <<accepting, closed, conns, addr, source, loop, reader,
                   msgs, done, routed, got>>

\* Lines 96-102: a call that finds accepting unset returns nil at once, also while
\* another call is still waiting.
StopAccepting(p) ==
    /\ shut[p] = "called"
    /\ MuFree
    /\ accepting' = FALSE
    /\ shut' = [shut EXCEPT ![p] = IF accepting THEN "wait" ELSE "returned"]
    /\ UNCHANGED <<closed, conns, addr, source, loop, reader,
                   msgs, done, routed, got>>

\* Mutant: the loop does not look at the clock.
ShutdownWaits_NoGrace(p) ==
    /\ shut[p] = "wait"
    /\ MuFree
    /\ \A a \in Addrs : conns[a] = NoSession
    /\ shut' = [shut EXCEPT ![p] = "close"]
    /\ UNCHANGED <<accepting, closed, conns, addr, source, loop, reader,
                   msgs, done, routed, got>>

\* Lines 104-117: the loop ends when no session is left or graceTimeout is over,
\* which may be at any time.
ShutdownWaits(p) ==
    /\ shut[p] = "wait"
    /\ shut' = [shut EXCEPT ![p] = "close"]
    /\ UNCHANGED <<accepting, closed, conns, addr, source, loop, reader,
                   msgs, done, routed, got>>

\* close, lines 120-131.
CloseListener(p) ==
    /\ shut[p] = "close"
    /\ MuFree
    /\ closed' = TRUE
    /\ done' = done \cup {conns[a] : a \in {b \in Addrs : conns[b] # NoSession}}
    /\ conns' = [a \in Addrs |-> NoSession]
    /\ shut' = [shut EXCEPT ![p] = "returned"]
    /\ UNCHANGED <<accepting, addr, source, loop, reader,
                   msgs, routed, got>>

-----------------------------------------------------------------------------
(* A session: what each call does to it.                                   *)

\* Close, first half: c.close().
CloseDone(c) == done' = done \cup {c}

\* Close, second half: whatever is registered for the address is deleted.
CloseDelete(c) ==
    /\ MuFree
    /\ conns' = [conns EXCEPT ![addr[c]] = NoSession]

\* Read's first case, received by the second select of the session's readLoop,
\* which answers on sizeCh.
ReadMsg(c) ==
    /\ reader[c] = "run"
    /\ msgs[c] # << >>
    /\ got' = [got EXCEPT ![c] = Append(@, Head(msgs[c]))]
    /\ msgs' = [msgs EXCEPT ![c] = Tail(@)]

\* The ticker case of either select, past the deadline: c.Close() begins.
TickerCloses(c) ==
    /\ reader[c] = "run"
    /\ CloseDone(c)
    /\ reader' = [reader EXCEPT ![c] = "delete"]
    /\ UNCHANGED <<accepting, closed, conns, addr, source, loop, shut,
                   msgs, routed, got>>

ReaderReturns(c) ==
    /\ reader[c] = "delete"
    /\ CloseDelete(c)
    /\ reader' = [reader EXCEPT ![c] = "end"]
    /\ UNCHANGED <<accepting, closed, addr, source, loop, shut,
                   msgs, done, routed, got>>

\* What readLoop does without waiting for a datagram, in particular getConn.
LoopGoesOn ==
    \/ \E a \in Addrs : GetConnFound(a) \/ GetConnRefused(a) \/ GetConnNew(a)
    \/ SpawnReader \/ Deliver \/ SkipDone \/ LoopReturns

\* The steps that are the same whatever the sessions' owners do.
LoopStep      == LoopGoesOn \/ \E a \in Addrs : ReadFrom(a)
ShutdownStep  == \E p \in Closers : \/ Shutdown(p) \/ StopAccepting(p)
                                    \/ ShutdownWaits(p) \/ CloseListener(p)
ReaderStep(c) == TickerCloses(c) \/ ReaderReturns(c)
=============================================================================
