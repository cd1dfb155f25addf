--------------------------- MODULE UDPProxyProofs ---------------------------
(***************************************************************************)
(* Proofs about UDPProxy, for any number of clients, sessions and          *)
(* datagrams.  The listener part of the state has one inductive invariant, *)
(* IInv; the handlers (ServeUDP and its copies) only matter to it through  *)
(* the calls they make, so their own variables need no invariant.          *)
(***************************************************************************)
EXTENDS UDPProxy, TLAPS

USE DEF Closing

\* A Shutdown that went on has unset accepting, and no other goes on.
Refusing ==
    /\ closed \/ (\E p \in Closers : Closing(p)) => ~accepting
    /\ \A p, q \in Closers : Closing(p) /\ Closing(q) => p = q

\* A session's readLoop returns only after it has closed doneCh.
EndedIsDone == \A c \in Sessions : reader[c] \in {"delete", "end"} => c \in done

\* Every session made has its readLoop running, is closed, or is being handed to
\* Accept under l.mu.
Running ==
    \A c \in 1..Len(addr) :
        reader[c] = "run" \/ c \in done \/ (~MuFree /\ loop.conn = c)

IInv ==
    /\ LTypeOK /\ Refusing /\ NothingAfterClose /\ EndedIsDone
    /\ Running /\ NeverStalls /\ OpenSessionLossless

-----------------------------------------------------------------------------
(* Three ways of moving a datagram on that leave the sequence as a whole   *)
(* as it was.                                                              *)

\* A datagram routed to a session is added at the end.
LEMMA Routed ==
    ASSUME NEW g \in Seq(Nat), NEW m \in Seq(Nat), NEW x \in Nat
    PROVE  Append(g \o m \o << >>, x) = g \o m \o <<x>>
OBVIOUS

\* Delivering appends to msgs what was in flight.
LEMMA Delivered ==
    ASSUME NEW g \in Seq(Nat), NEW m \in Seq(Nat), NEW x \in Nat
    PROVE  g \o Append(m, x) \o << >> = g \o m \o <<x>>
OBVIOUS

\* Read takes the head of msgs.
LEMMA ReadOff ==
    ASSUME NEW g \in Seq(Nat), NEW m \in Seq(Nat), m # << >>, NEW f \in Seq(Nat)
    PROVE  Append(g, Head(m)) \o Tail(m) \o f = g \o m \o f
OBVIOUS

-----------------------------------------------------------------------------
(* Initial states and the steps that change only handlers' variables.      *)

\* IInv holds in every initial state.
LEMMA InitIInv == Init => IInv
<1> SUFFICES ASSUME Init PROVE IInv
  OBVIOUS
<1> USE BoundsAreNat DEF Init, LInit, Sessions, NoSession, Reading
<1>1. LTypeOK
  BY DEF LTypeOK
<1>2. Refusing /\ NothingAfterClose /\ EndedIsDone
  BY DEF Refusing, NothingAfterClose, EndedIsDone
<1>3. Running /\ NeverStalls
  BY DEF Running, NeverStalls
<1>4. OpenSessionLossless
  BY DEF OpenSessionLossless, InFlight
<1> QED
  BY <1>1, <1>2, <1>3, <1>4 DEF IInv

\* IInv speaks of the listener's variables only.
LEMMA FrameIInv == ASSUME IInv, UNCHANGED lvars PROVE IInv'
BY DEF IInv, lvars, LTypeOK, Refusing, NothingAfterClose, EndedIsDone, Running,
       NeverStalls, OpenSessionLossless, InFlight, MuFree, Sessions, NoSession

\* What the parts of IInv other than the types depend on.
LEMMA Fields ==
    ASSUME LTypeOK
    PROVE  /\ Len(addr) \in Nat
           /\ 1..Len(addr) \subseteq Sessions
           /\ \A a \in Addrs : conns[a] # NoSession => conns[a] \in 1..Len(addr)
<1>1. Len(addr) \in Nat
  BY DEF LTypeOK
<1> QED
  BY <1>1, BoundsAreNat DEF LTypeOK, Sessions, NoSession

-----------------------------------------------------------------------------
(* The steps that touch the listener or a session.  Each lemma shows the   *)
(* parts of IInv that its step can disturb and frames the others.          *)

\* c.close() in Close: only doneCh changes (and where the caller is).
LEMMA CloseDoneIInv ==
    ASSUME IInv, NEW c \in Sessions, CloseDone(c),
           UNCHANGED <<accepting, closed, conns, addr, source, loop, shut, msgs, routed, got>>,
           \/ UNCHANGED reader
           \/ reader' = [reader EXCEPT ![c] = "delete"]
    PROVE  IInv'
<1> USE DEF IInv
<1>0. c \in Nat /\ done' = done \cup {c} /\ MuFree' = MuFree
  BY BoundsAreNat DEF Sessions, CloseDone, MuFree
<1>1. LTypeOK'
  BY <1>0 DEF LTypeOK
<1>2. Refusing' /\ NothingAfterClose'
  BY <1>0 DEF Refusing, NothingAfterClose
<1>3. \A d \in Sessions : d # c => reader'[d] = reader[d]
  BY DEF LTypeOK
<1>4. EndedIsDone'
  BY <1>0, <1>3 DEF EndedIsDone
<1>5. Running'
  BY <1>0, <1>3, Fields DEF Running
<1>6. loop.at = "deliver" => loop.conn \in Sessions
  BY Fields DEF LTypeOK
<1>7. NeverStalls'
  BY <1>0, <1>3, <1>6 DEF NeverStalls
<1>8. OpenSessionLossless'
  BY <1>0 DEF OpenSessionLossless, InFlight
<1> QED
  BY <1>1, <1>2, <1>4, <1>5, <1>7, <1>8

\* The deletion in Close: the address of c loses its session, whichever it is.
LEMMA CloseDeleteIInv ==
    ASSUME IInv, NEW c \in Sessions, CloseDelete(c),
           UNCHANGED <<accepting, closed, addr, source, loop, shut, msgs, done, routed, got>>,
           \/ UNCHANGED reader
           \/ reader[c] = "delete" /\ reader' = [reader EXCEPT ![c] = "end"]
    PROVE  IInv'
<1> USE DEF IInv
<1>0. MuFree' = MuFree
  BY DEF MuFree
<1>1. \A a \in Addrs : conns'[a] = conns[a] \/ conns'[a] = NoSession
  BY DEF CloseDelete, LTypeOK
<1>2. conns' \in [Addrs -> Nat] /\ \A a \in Addrs : conns'[a] <= Len(addr)
  <2>1. conns' \in [Addrs -> Nat]
    BY DEF CloseDelete, LTypeOK, NoSession
  <2>2. Len(addr) \in Nat /\ \A a \in Addrs : conns[a] <= Len(addr)
    BY Fields DEF LTypeOK
  <2>3. \A a \in Addrs : conns'[a] <= Len(addr)
    BY <1>1, <2>2 DEF NoSession
  <2> QED
    BY <2>1, <2>3
<1>3. \A d \in Sessions : reader'[d] = reader[d] \/ d \in done
  BY DEF LTypeOK, EndedIsDone
<1>4. LTypeOK'
  BY <1>2 DEF LTypeOK
<1>5. Refusing' /\ NothingAfterClose'
  BY <1>0, <1>1 DEF Refusing, NothingAfterClose
<1>6. EndedIsDone'
  BY <1>3 DEF EndedIsDone
<1>7. Running'
  BY <1>0, <1>3, Fields DEF Running
<1>8. loop.at = "deliver" => loop.conn \in Sessions
  BY Fields DEF LTypeOK
<1>9. NeverStalls'
  BY <1>3, <1>8 DEF NeverStalls
<1>10. OpenSessionLossless'
  BY DEF OpenSessionLossless, InFlight
<1> QED
  BY <1>4, <1>5, <1>6, <1>7, <1>9, <1>10

\* getConn finds the session: Running says that it can take the datagram.
LEMMA GetConnFoundIInv == ASSUME IInv, NEW a \in Addrs, GetConnFound(a) PROVE IInv'
<1> DEFINE c == conns[a]
           x == loop.msg
<1> USE DEF IInv
<1>1. /\ loop.at = "get" /\ c # NoSession /\ x \in Nat
      /\ loop' = [at |-> "deliver", msg |-> x, conn |-> c]
      /\ routed' = [routed EXCEPT ![c] = Append(@, x)]
  BY DEF GetConnFound, Getting, LTypeOK
<1>2. UNCHANGED <<accepting, closed, conns, addr, source, shut, reader, msgs, done, got>>
  BY DEF GetConnFound
<1>3. c \in 1..Len(addr) /\ c \in Sessions
  BY <1>1, Fields
<1>4. MuFree /\ MuFree'
  BY <1>1 DEF MuFree
<1> HIDE DEF c, x
<1>5. routed' \in [Sessions -> Seq(Nat)]
  BY <1>1, <1>3 DEF LTypeOK
<1>6. loop' \in [at : {"read", "get", "offer", "spawn", "deliver", "end"}, msg : Nat, conn : Nat]
      /\ loop'.conn = c
  BY <1>1, <1>3
<1>7. LTypeOK'
  BY <1>1, <1>2, <1>3, <1>5, <1>6 DEF LTypeOK
<1>8. Refusing' /\ NothingAfterClose' /\ EndedIsDone'
  BY <1>1, <1>2, <1>4 DEF Refusing, NothingAfterClose, EndedIsDone
<1>9. Running'
  BY <1>2, <1>4 DEF Running
<1>10. NeverStalls'
  BY <1>1, <1>2, <1>3, <1>4 DEF Running, NeverStalls
<1>11. ASSUME NEW d \in Sessions, d \notin done PROVE routed'[d] = got[d] \o msgs[d] \o InFlight(d)'
  <2>1. InFlight(d) = << >>
    BY <1>1 DEF InFlight
  <2>2. routed[d] = got[d] \o msgs[d] \o << >>
    BY <2>1, <1>11 DEF OpenSessionLossless
  <2>3. CASE d = c
    <3>1. InFlight(d)' = <<x>>
      BY <1>1, <2>3 DEF InFlight
    <3>2. routed'[d] = Append(routed[d], x)
      BY <1>1, <2>3 DEF LTypeOK
    <3>3. got[d] \in Seq(Nat) /\ msgs[d] \in Seq(Nat)
      BY DEF LTypeOK
    <3>4. x \in Nat
      BY <1>1
    <3>5. Append(got[d] \o msgs[d] \o << >>, x) = got[d] \o msgs[d] \o <<x>>
      BY <3>3, <3>4, Routed
    <3> QED
      BY <2>2, <3>1, <3>2, <3>5
  <2>4. CASE d # c
    <3>1. InFlight(d)' = << >>
      BY <1>1, <2>4 DEF InFlight
    <3>2. routed'[d] = routed[d]
      BY <1>1, <2>4 DEF LTypeOK
    <3> QED
      BY <2>2, <3>1, <3>2
  <2> QED
    BY <2>3, <2>4
<1>12. OpenSessionLossless'
  BY <1>2, <1>11 DEF OpenSessionLossless
<1> QED
  BY <1>7, <1>8, <1>9, <1>10, <1>12

\* A new session: it is being handed over, l.mu locked, so Running may wait.
LEMMA GetConnNewIInv == ASSUME IInv, NEW a \in Addrs, GetConnNew(a) PROVE IInv'
<1> DEFINE c == Len(addr) + 1
           x == loop.msg
<1> USE DEF IInv
<1>1. /\ loop.at = "get" /\ accepting /\ x \in Nat
      /\ loop' = [at |-> "offer", msg |-> x, conn |-> c]
      /\ routed' = [routed EXCEPT ![c] = Append(@, x)]
      /\ addr' = Append(addr, a)
      /\ conns' = [conns EXCEPT ![a] = c]
      /\ c \in Sessions
  BY DEF GetConnNew, NewSession, Getting, LTypeOK
<1>2. UNCHANGED <<accepting, closed, source, shut, reader, msgs, done, got>>
  BY DEF GetConnNew, NewSession
<1>3. /\ Len(addr) \in Nat /\ Len(addr') = c /\ addr' \in Seq(Addrs)
      /\ c \in Nat /\ c \in 1..Len(addr') /\ c <= MaxSessions /\ Len(addr) <= c
  <2>1. Len(addr) \in Nat /\ c \in Nat /\ Len(addr) <= c /\ c >= 1
    BY Fields
  <2>2. Len(addr') = c /\ addr' \in Seq(Addrs)
    BY <1>1 DEF LTypeOK
  <2>3. c <= MaxSessions
    BY <1>1, BoundsAreNat DEF Sessions
  <2> QED
    BY <2>1, <2>2, <2>3
<1>4. MuFree /\ ~MuFree'
  BY <1>1 DEF MuFree
<1>5. \A d \in 1..Len(addr') : d = c \/ d \in 1..Len(addr)
  BY <1>3
<1> HIDE DEF c, x
<1>6. routed' \in [Sessions -> Seq(Nat)]
  BY <1>1 DEF LTypeOK
<1>7. /\ loop' \in [at : {"read", "get", "offer", "spawn", "deliver", "end"}, msg : Nat, conn : Nat]
      /\ loop'.conn = c
  BY <1>1, <1>3
<1>8. conns' \in [Addrs -> Nat]
  BY <1>1, <1>3 DEF LTypeOK
<1>9. \A b \in Addrs : conns'[b] <= Len(addr')
  <2>1. \A b \in Addrs : conns'[b] = c \/ conns'[b] = conns[b]
    BY <1>1 DEF LTypeOK
  <2>2. \A b \in Addrs : conns[b] \in Nat /\ conns[b] <= Len(addr)
    BY DEF LTypeOK
  <2> QED
    BY <2>1, <2>2, <1>3
<1>10. LTypeOK'
  BY <1>1, <1>2, <1>3, <1>6, <1>7, <1>8, <1>9 DEF LTypeOK
<1>11. Refusing' /\ NothingAfterClose' /\ EndedIsDone'
  BY <1>1, <1>2 DEF Refusing, NothingAfterClose, EndedIsDone
<1>12. Running'
  BY <1>2, <1>4, <1>5, <1>7 DEF Running
<1>13. NeverStalls'
  BY <1>1 DEF NeverStalls
<1>14. ASSUME NEW d \in Sessions, d \notin done PROVE routed'[d] = got[d] \o msgs[d] \o InFlight(d)'
  <2>1. InFlight(d) = << >>
    BY <1>1 DEF InFlight
  <2>2. routed[d] = got[d] \o msgs[d] \o << >>
    BY <2>1, <1>14 DEF OpenSessionLossless
  <2>3. CASE d = c
    <3>1. InFlight(d)' = <<x>>
      BY <1>1, <2>3 DEF InFlight
    <3>2. routed'[d] = Append(routed[d], x)
      BY <1>1, <2>3 DEF LTypeOK
    <3>3. got[d] \in Seq(Nat) /\ msgs[d] \in Seq(Nat)
      BY DEF LTypeOK
    <3>4. x \in Nat
      BY <1>1
    <3>5. Append(got[d] \o msgs[d] \o << >>, x) = got[d] \o msgs[d] \o <<x>>
      BY <3>3, <3>4, Routed
    <3> QED
      BY <2>2, <3>1, <3>2, <3>5
  <2>4. CASE d # c
    <3>1. InFlight(d)' = << >>
      BY <1>1, <2>4 DEF InFlight
    <3>2. routed'[d] = routed[d]
      BY <1>1, <2>4 DEF LTypeOK
    <3> QED
      BY <2>2, <3>1, <3>2
  <2> QED
    BY <2>3, <2>4
<1>15. OpenSessionLossless'
  BY <1>2, <1>14 DEF OpenSessionLossless
<1> QED
  BY <1>10, <1>11, <1>12, <1>13, <1>15

\* Accept takes the session, l.mu stays locked.
LEMMA AcceptIInv == ASSUME IInv, NEW c \in Sessions, Accept(c) PROVE IInv'
<1> USE DEF IInv
<1>1. /\ UNCHANGED <<accepting, closed, conns, addr, source, shut, reader, msgs, done, routed, got>>
      /\ loop.at = "offer" /\ loop' = [loop EXCEPT !.at = "spawn"]
  BY DEF Accept
<1>2. loop'.at = "spawn" /\ loop'.msg = loop.msg /\ loop'.conn = loop.conn
      /\ loop' \in [at : {"read", "get", "offer", "spawn", "deliver", "end"}, msg : Nat, conn : Nat]
  BY <1>1 DEF LTypeOK
<1>3. ~MuFree /\ ~MuFree'
  BY <1>1, <1>2 DEF MuFree
<1>4. LTypeOK'
  BY <1>1, <1>2 DEF LTypeOK
<1>5. Refusing' /\ NothingAfterClose' /\ EndedIsDone' /\ Running' /\ NeverStalls'
  BY <1>1, <1>2, <1>3 DEF Refusing, NothingAfterClose, EndedIsDone, Running, NeverStalls
<1>6. OpenSessionLossless'
  BY <1>1, <1>2 DEF OpenSessionLossless, InFlight
<1> QED
  BY <1>4, <1>5, <1>6

\* The session's readLoop starts, then l.mu is unlocked: the order Running needs.
LEMMA SpawnReaderIInv == ASSUME IInv, SpawnReader PROVE IInv'
<1> DEFINE c == loop.conn
<1> USE DEF IInv
<1>1. /\ UNCHANGED <<accepting, closed, conns, addr, source, shut, msgs, done, routed, got>>
      /\ loop.at = "spawn" /\ loop' = [loop EXCEPT !.at = "deliver"]
      /\ reader' = [reader EXCEPT ![c] = "run"]
  BY DEF SpawnReader
<1>2. loop'.at = "deliver" /\ loop'.msg = loop.msg /\ loop'.conn = c
      /\ loop' \in [at : {"read", "get", "offer", "spawn", "deliver", "end"}, msg : Nat, conn : Nat]
  BY <1>1 DEF LTypeOK
<1>3. ~MuFree /\ MuFree'
  BY <1>1, <1>2 DEF MuFree
<1>4. c \in 1..Len(addr) /\ c \in Sessions
  BY <1>1, Fields DEF LTypeOK
<1>5. reader'[c] = "run" /\ \A d \in Sessions : d # c => reader'[d] = reader[d]
  BY <1>1, <1>4 DEF LTypeOK
<1>6. reader' \in [Sessions -> {"none", "run", "delete", "end"}]
  BY <1>1 DEF LTypeOK
<1> HIDE DEF c
<1>7. LTypeOK'
  BY <1>1, <1>2, <1>4, <1>6 DEF LTypeOK
<1>8. ~closed
  BY <1>3 DEF NothingAfterClose
<1>9. Refusing' /\ NothingAfterClose' /\ EndedIsDone'
  BY <1>1, <1>5, <1>8 DEF Refusing, NothingAfterClose, EndedIsDone
<1>10. loop.conn = c
  BY DEF c
<1>11. Running'
  BY <1>1, <1>5, <1>10, Fields DEF Running
<1>12. NeverStalls'
  BY <1>2, <1>5 DEF NeverStalls
<1>13. OpenSessionLossless'
  BY <1>1, <1>2, <1>10 DEF OpenSessionLossless, InFlight
<1> QED
  BY <1>7, <1>9, <1>11, <1>12, <1>13

\* The listener's readLoop goes back to the socket: nothing is in its hands.
LEMMA BackToReading ==
    ASSUME IInv, loop.at \in {"read", "get", "deliver"},
           loop' = Reading \/ loop' = [Reading EXCEPT !.at = "end"],
           UNCHANGED <<accepting, closed, conns, addr, source, shut, reader, done>>
    PROVE  /\ loop' \in [at : {"read", "get", "offer", "spawn", "deliver", "end"}, msg : Nat, conn : Nat]
           /\ loop'.at \notin {"get", "offer", "spawn", "deliver"}
           /\ Refusing' /\ NothingAfterClose' /\ EndedIsDone' /\ Running' /\ NeverStalls'
<1> USE DEF IInv
<1>1. loop' \in [at : {"read", "get", "offer", "spawn", "deliver", "end"}, msg : Nat, conn : Nat]
      /\ loop'.at \notin {"get", "offer", "spawn", "deliver"}
  BY DEF Reading, NoSession
<1>2. MuFree /\ MuFree'
  BY <1>1 DEF MuFree
<1>3. Refusing' /\ NothingAfterClose' /\ EndedIsDone'
  BY <1>2 DEF Refusing, NothingAfterClose, EndedIsDone
<1>4. Running' /\ NeverStalls'
  BY <1>1, <1>2 DEF Running, NeverStalls
<1> QED
  BY <1>1, <1>3, <1>4

\* The datagram moves from the listener's readLoop to the end of msgs.
LEMMA DeliverIInv == ASSUME IInv, Deliver PROVE IInv'
<1> DEFINE c == loop.conn
           x == loop.msg
<1> USE DEF IInv
<1>1. /\ UNCHANGED <<accepting, closed, conns, addr, source, shut, reader, done, routed, got>>
      /\ loop.at = "deliver" /\ loop' = Reading
      /\ msgs' = [msgs EXCEPT ![c] = Append(@, x)]
  BY DEF Deliver
<1>2. c \in Sessions /\ x \in Nat
  BY <1>1, Fields DEF LTypeOK
<1>3. msgs' \in [Sessions -> Seq(Nat)]
  BY <1>1, <1>2 DEF LTypeOK
<1>4. /\ loop' \in [at : {"read", "get", "offer", "spawn", "deliver", "end"}, msg : Nat, conn : Nat]
      /\ loop'.at \notin {"get", "offer", "spawn", "deliver"}
      /\ Refusing' /\ NothingAfterClose' /\ EndedIsDone' /\ Running' /\ NeverStalls'
  BY <1>1, BackToReading
<1>5. LTypeOK'
  BY <1>1, <1>3, <1>4 DEF LTypeOK
<1>6. ASSUME NEW d \in Sessions, d \notin done PROVE routed[d] = got[d] \o msgs'[d] \o InFlight(d)'
  <2>1. InFlight(d)' = << >>
    BY <1>4 DEF InFlight
  <2>2. routed[d] = got[d] \o msgs[d] \o InFlight(d)
    BY <1>6 DEF OpenSessionLossless
  <2>3. CASE d = c
    <3>1. InFlight(d) = <<x>>
      BY <1>1, <2>3 DEF InFlight
    <3>2. msgs'[d] = Append(msgs[d], x)
      BY <1>1, <2>3 DEF LTypeOK
    <3>3. got[d] \in Seq(Nat) /\ msgs[d] \in Seq(Nat)
      BY DEF LTypeOK
    <3> HIDE DEF x
    <3> QED
      BY <1>2, <2>1, <2>2, <3>1, <3>2, <3>3, Delivered
  <2>4. CASE d # c
    <3>1. InFlight(d) = << >>
      BY <2>4 DEF InFlight
    <3>2. msgs'[d] = msgs[d]
      BY <1>1, <2>4 DEF LTypeOK
    <3> QED
      BY <2>1, <2>2, <3>1, <3>2
  <2> QED
    BY <2>3, <2>4
<1>7. OpenSessionLossless'
  BY <1>1, <1>6 DEF OpenSessionLossless
<1> QED
  BY <1>4, <1>5, <1>7

\* ReadFrom: the datagram is in the hands of readLoop, not yet of a session.
LEMMA ReadFromIInv == ASSUME IInv, NEW a \in Addrs, ReadFrom(a) PROVE IInv'
<1> DEFINE x == Len(source) + 1
<1> USE DEF IInv
<1>1. /\ UNCHANGED <<accepting, closed, conns, addr, shut, reader, msgs, done, routed, got>>
      /\ loop.at = "read" /\ loop' = [at |-> "get", msg |-> x, conn |-> NoSession]
      /\ source' = Append(source, a)
  BY DEF ReadFrom
<1>2. source' \in Seq(Addrs) /\ x \in 1..Len(source') /\ x \in Nat
  BY <1>1 DEF LTypeOK
<1> HIDE DEF x
<1>3. /\ loop' \in [at : {"read", "get", "offer", "spawn", "deliver", "end"}, msg : Nat, conn : Nat]
      /\ loop'.at = "get" /\ loop'.msg = x
  BY <1>1, <1>2 DEF NoSession
<1>4. MuFree /\ MuFree'
  BY <1>1, <1>3 DEF MuFree
<1>5. LTypeOK'
  BY <1>1, <1>2, <1>3 DEF LTypeOK
<1>6. Refusing' /\ NothingAfterClose' /\ EndedIsDone' /\ Running' /\ NeverStalls'
  BY <1>1, <1>3, <1>4 DEF Refusing, NothingAfterClose, EndedIsDone, Running, NeverStalls
<1>7. \A d \in Sessions : InFlight(d) = << >> /\ InFlight(d)' = << >>
  BY <1>1, <1>3 DEF InFlight
<1>8. OpenSessionLossless'
  BY <1>1, <1>7 DEF OpenSessionLossless
<1> QED
  BY <1>5, <1>6, <1>8

\* A datagram is dropped before getConn routed it, or for a closed session;
\* readLoop ends with nothing in its hands.
LEMMA SkipIInv ==
    ASSUME IInv, SkipDone \/ LoopReturns \/ \E a \in Addrs : GetConnRefused(a)
    PROVE  IInv'
<1> USE DEF IInv
<1>1. /\ UNCHANGED <<accepting, closed, conns, addr, source, shut, reader, msgs, done, routed, got>>
      /\ loop.at \in {"read", "get", "deliver"}
      /\ loop' = Reading \/ loop' = [Reading EXCEPT !.at = "end"]
      /\ loop.at = "deliver" => loop.conn \in done
  BY DEF SkipDone, LoopReturns, GetConnRefused, Getting
<1>2. /\ loop' \in [at : {"read", "get", "offer", "spawn", "deliver", "end"}, msg : Nat, conn : Nat]
      /\ loop'.at \notin {"get", "offer", "spawn", "deliver"}
      /\ Refusing' /\ NothingAfterClose' /\ EndedIsDone' /\ Running' /\ NeverStalls'
  BY <1>1, BackToReading
<1>3. LTypeOK'
  BY <1>1, <1>2 DEF LTypeOK
<1>4. \A d \in Sessions : d \notin done => InFlight(d) = << >> /\ InFlight(d)' = << >>
  BY <1>1, <1>2 DEF InFlight
<1>5. OpenSessionLossless'
  BY <1>1, <1>4 DEF OpenSessionLossless
<1> QED
  BY <1>2, <1>3, <1>5

\* The call of Shutdown; with l.mu it unsets accepting and goes on if that was set.
LEMMA ShutdownIInv ==
    ASSUME IInv, NEW p \in Closers, Shutdown(p) \/ StopAccepting(p) \/ ShutdownWaits(p)
    PROVE  IInv'
<1> USE DEF IInv
<1>1. UNCHANGED <<closed, conns, addr, source, loop, reader, msgs, done, routed, got>>
  BY DEF Shutdown, StopAccepting, ShutdownWaits
<1>2. /\ shut \in [Closers -> {"idle", "called", "wait", "close", "returned"}]
      /\ closed => \A q \in Closers : ~Closing(q)
      /\ accepting => \A q \in Closers : ~Closing(q)
      /\ closed => ~accepting
  BY DEF LTypeOK, NothingAfterClose, Refusing
<1>3. shut' \in [Closers -> {"idle", "called", "wait", "close", "returned"}]
  BY <1>2 DEF Shutdown, StopAccepting, ShutdownWaits
<1>4. \A q \in Closers : q # p => shut'[q] = shut[q]
  BY <1>2 DEF Shutdown, StopAccepting, ShutdownWaits
<1>5. /\ Closing(p)' => \/ StopAccepting(p) /\ accepting /\ ~accepting'
                        \/ Closing(p) /\ accepting' = accepting
      /\ accepting' = accepting \/ ~accepting'
  <2>1. CASE Shutdown(p)
    BY <1>2, <2>1 DEF Shutdown
  <2>2. CASE StopAccepting(p)
    BY <1>2, <2>2 DEF StopAccepting
  <2>3. CASE ShutdownWaits(p)
    BY <1>2, <2>3 DEF ShutdownWaits
  <2> QED BY <2>1, <2>2, <2>3
<1>6. closed' => \A q \in Closers : ~Closing(q)'
  BY <1>1, <1>2, <1>4, <1>5
<1>7. Refusing'
  BY <1>1, <1>2, <1>4, <1>5 DEF Refusing
<1>8. LTypeOK'
  BY <1>1, <1>3 DEF LTypeOK
<1>9. NothingAfterClose'
  BY <1>1, <1>6 DEF NothingAfterClose, MuFree
<1>10. EndedIsDone' /\ Running' /\ NeverStalls'
  BY <1>1 DEF EndedIsDone, Running, NeverStalls, MuFree
<1>11. OpenSessionLossless'
  BY <1>1 DEF OpenSessionLossless, InFlight
<1> QED
  BY <1>7, <1>8, <1>9, <1>10, <1>11

\* close: every registered session is closed and unregistered.
LEMMA CloseListenerIInv == ASSUME IInv, NEW p \in Closers, CloseListener(p) PROVE IInv'
<1> USE DEF IInv
<1>1. /\ UNCHANGED <<accepting, addr, source, loop, reader, msgs, routed, got>>
      /\ MuFree /\ Closing(p) /\ shut' = [shut EXCEPT ![p] = "returned"] /\ done \subseteq done'
      /\ conns' = [a \in Addrs |-> NoSession]
  BY DEF CloseListener
<1>2. done' \subseteq Nat
  BY DEF CloseListener, LTypeOK
<1>3. MuFree'
  BY <1>1 DEF MuFree
<1>4. LTypeOK'
  BY <1>1, <1>2, Fields DEF LTypeOK, NoSession
<1>5. Refusing' /\ NothingAfterClose'
  <2>1. \A q \in Closers : ~Closing(q)'
    BY <1>1 DEF Refusing, LTypeOK
  <2> QED BY <1>1, <1>3, <2>1 DEF Refusing, NothingAfterClose
<1>6. EndedIsDone' /\ Running' /\ NeverStalls'
  BY <1>1, <1>3 DEF EndedIsDone, Running, NeverStalls
<1>7. OpenSessionLossless'
  BY <1>1 DEF OpenSessionLossless, InFlight
<1> QED
  BY <1>4, <1>5, <1>6, <1>7

\* Read takes the oldest datagram of msgs.
LEMMA UpCopiesIInv == ASSUME IInv, NEW c \in Sessions, UpCopies(c) PROVE IInv'
<1> USE DEF IInv
<1>1. /\ UNCHANGED <<accepting, closed, conns, addr, source, loop, shut, reader, done, routed>>
      /\ msgs[c] # << >>
      /\ got' = [got EXCEPT ![c] = Append(@, Head(msgs[c]))]
      /\ msgs' = [msgs EXCEPT ![c] = Tail(@)]
  BY DEF UpCopies, ReadMsg
<1>2. /\ got[c] \in Seq(Nat) /\ msgs[c] \in Seq(Nat)
      /\ Head(msgs[c]) \in Nat /\ Tail(msgs[c]) \in Seq(Nat)
  BY <1>1 DEF LTypeOK
<1>3. got' \in [Sessions -> Seq(Nat)] /\ msgs' \in [Sessions -> Seq(Nat)]
  BY <1>1, <1>2 DEF LTypeOK
<1>4. LTypeOK'
  BY <1>1, <1>3 DEF LTypeOK
<1>5. Refusing' /\ NothingAfterClose' /\ EndedIsDone' /\ Running' /\ NeverStalls'
  BY <1>1 DEF Refusing, NothingAfterClose, EndedIsDone, Running, NeverStalls, MuFree
<1>6. \A d \in Sessions : InFlight(d) \in Seq(Nat) /\ InFlight(d)' = InFlight(d)
  BY <1>1 DEF InFlight, LTypeOK
<1>7. ASSUME NEW d \in Sessions PROVE got'[d] \o msgs'[d] \o InFlight(d) = got[d] \o msgs[d] \o InFlight(d)
  <2>1. CASE d = c
    <3>1. got'[d] = Append(got[d], Head(msgs[d])) /\ msgs'[d] = Tail(msgs[d])
      BY <1>1, <2>1 DEF LTypeOK
    <3>2. InFlight(d) \in Seq(Nat) /\ got[d] \in Seq(Nat) /\ msgs[d] \in Seq(Nat) /\ msgs[d] # << >>
      BY <1>1, <1>2, <1>6, <2>1
    <3>3. Append(got[d], Head(msgs[d])) \o Tail(msgs[d]) \o InFlight(d)
            = got[d] \o msgs[d] \o InFlight(d)
      BY <3>2, ReadOff
    <3> QED
      BY <3>1, <3>3
  <2>2. CASE d # c
    BY <1>1, <2>2 DEF LTypeOK
  <2> QED
    BY <2>1, <2>2
<1>8. OpenSessionLossless'
  BY <1>1, <1>6, <1>7 DEF OpenSessionLossless
<1> QED
  BY <1>4, <1>5, <1>8

-----------------------------------------------------------------------------
(* Every step, and the theorems.                                           *)

\* IInv is inductive.
LEMMA NextIInv == IInv /\ [Next]_vars => IInv'
<1> SUFFICES ASSUME IInv, [Next]_vars PROVE IInv'
  OBVIOUS
<1>1. CASE UNCHANGED vars
  BY <1>1, FrameIInv DEF vars, lvars
<1>2. CASE LoopStep
  <2>1. ASSUME NEW a \in Addrs, ReadFrom(a) \/ GetConnFound(a) \/ GetConnNew(a) PROVE IInv'
    BY <2>1, ReadFromIInv, GetConnFoundIInv, GetConnNewIInv
  <2> QED
    BY <1>2, <2>1, SpawnReaderIInv, DeliverIInv, SkipIInv DEF LoopStep, LoopGoesOn
<1>3. CASE ShutdownStep
  BY <1>3, ShutdownIInv, CloseListenerIInv DEF ShutdownStep
<1>4. ASSUME NEW c \in Sessions,
             AcceptAndServe(c) \/ ServeStep(c) \/ UpStep(c) \/ DownStep(c) \/ ReaderStep(c)
      PROVE  IInv'
  <2>1. CASE AcceptAndServe(c)
    BY <2>1, AcceptIInv DEF AcceptAndServe
  <2>2. CASE Dial(c) \/ DialFails(c) \/ UpEOF(c) \/ UpSends(c) \/ UpCloses(c)
             \/ DownFails(c) \/ DownSends(c)
    <3>1. UNCHANGED lvars
      BY <2>2 DEF Dial, DialFails, UpEOF, UpSends, UpCloses, DownFails, DownSends
    <3> QED
      BY <3>1, FrameIInv
  <2>3. CASE ServeCloses(c) \/ DownCloses(c) \/ TickerCloses(c)
    <3>1. /\ CloseDone(c)
          /\ UNCHANGED <<accepting, closed, conns, addr, source, loop, shut, msgs, routed, got>>
          /\ UNCHANGED reader \/ reader' = [reader EXCEPT ![c] = "delete"]
      BY <2>3 DEF ServeCloses, DownCloses, TickerCloses
    <3> QED
      BY <3>1, CloseDoneIInv
  <2>4. CASE ServeReturns(c) \/ DownReturns(c) \/ ReaderReturns(c)
    <3>1. /\ CloseDelete(c)
          /\ UNCHANGED <<accepting, closed, addr, source, loop, shut, msgs, done, routed, got>>
          /\ \/ UNCHANGED reader
             \/ reader[c] = "delete" /\ reader' = [reader EXCEPT ![c] = "end"]
      BY <2>4 DEF ServeReturns, DownReturns, ReaderReturns
    <3> QED
      BY <3>1, CloseDeleteIInv
  <2>5. CASE UpCopies(c)
    BY <2>5, UpCopiesIInv
  <2> QED
    BY <1>4, <2>1, <2>2, <2>3, <2>4, <2>5 DEF ServeStep, UpStep, DownStep, ReaderStep
<1> QED
  BY <1>1, <1>2, <1>3, <1>4 DEF Next

\* IInv holds throughout.
LEMMA Invariance == Spec => []IInv
BY InitIInv, NextIInv, PTL DEF Spec

\* No datagram of an open session is lost, repeated or reordered on its way from
\* getConn through the listener's readLoop and msgs to Read.
THEOREM Lossless == Spec => []OpenSessionLossless
<1>1. IInv => OpenSessionLossless
  BY DEF IInv
<1> QED
  BY <1>1, Invariance, PTL

\* Once the listener is closed there is no session left and no send on the closed
\* acceptCh.
THEOREM CleanClose == Spec => []NothingAfterClose
<1>1. IInv => NothingAfterClose
  BY DEF IInv
<1> QED
  BY <1>1, Invariance, PTL

\* The listener's readLoop never waits for the handler of a session.
THEOREM ReadLoopIsFree == Spec => []NeverStalls
<1>1. IInv => NeverStalls
  BY DEF IInv
<1> QED
  BY <1>1, Invariance, PTL

\* The handlers' variables keep their types.
LEMMA NextPTypeOK == PTypeOK /\ [Next]_vars => PTypeOK'
<1> SUFFICES ASSUME PTypeOK, [Next]_vars PROVE PTypeOK'
  OBVIOUS
<1>1. CASE UNCHANGED pvars
  BY <1>1 DEF pvars, PTypeOK
<1>2. ASSUME NEW c \in Sessions, AcceptAndServe(c) \/ ServeStep(c) PROVE PTypeOK'
  BY <1>2 DEF PTypeOK, AcceptAndServe, ServeStep, Dial, DialFails, ServeCloses, ServeReturns
<1>3. ASSUME NEW c \in Sessions, UpStep(c) PROVE PTypeOK'
  BY <1>3 DEF PTypeOK, UpStep, UpCopies, UpEOF, UpSends, UpCloses, Received
<1>4. ASSUME NEW c \in Sessions, DownStep(c) PROVE PTypeOK'
  BY <1>4 DEF PTypeOK, DownStep, DownFails, DownSends, DownCloses, DownReturns, Received
<1>5. UNCHANGED vars => UNCHANGED pvars
  BY DEF vars, pvars
<1> QED
  BY <1>1, <1>2, <1>3, <1>4, <1>5 DEF Next

\* accepting and closed are Booleans: they are only ever assigned truth values.
LEMMA NextBooleans ==
    ASSUME accepting \in BOOLEAN, closed \in BOOLEAN, [Next]_vars
    PROVE  accepting' \in BOOLEAN /\ closed' \in BOOLEAN
<1>1. \/ accepting' = accepting
      \/ accepting' = FALSE
  BY DEF Next, vars, lvars, LoopStep, LoopGoesOn, ReadFrom,
         GetConnFound, GetConnRefused, GetConnNew, NewSession,
         SpawnReader, Deliver, SkipDone, LoopReturns, ShutdownStep, Shutdown, StopAccepting, ShutdownWaits,
         CloseListener, AcceptAndServe, Accept, ServeStep, Dial, DialFails, ServeCloses,
         ServeReturns, UpStep, UpCopies, UpEOF, UpSends, UpCloses, DownStep, DownFails,
         DownSends, DownCloses, DownReturns, ReaderStep, TickerCloses, ReaderReturns
<1>2. \/ closed' = closed
      \/ closed' = TRUE
  BY DEF Next, vars, lvars, LoopStep, LoopGoesOn, ReadFrom,
         GetConnFound, GetConnRefused, GetConnNew, NewSession,
         SpawnReader, Deliver, SkipDone, LoopReturns, ShutdownStep, Shutdown, StopAccepting, ShutdownWaits,
         CloseListener, AcceptAndServe, Accept, ServeStep, Dial, DialFails, ServeCloses,
         ServeReturns, UpStep, UpCopies, UpEOF, UpSends, UpCloses, DownStep, DownFails,
         DownSends, DownCloses, DownReturns, ReaderStep, TickerCloses, ReaderReturns
<1> QED
  BY <1>1, <1>2, Zenon

\* The type invariant of the composed specification.
THEOREM TypeCorrect == Spec => []TypeOK
<1> DEFINE Typed == PTypeOK /\ accepting \in BOOLEAN /\ closed \in BOOLEAN
<1>1. Init => Typed
  <2>1. Init => PTypeOK
    BY DEF Init, PTypeOK
  <2>2. Init => accepting = TRUE /\ closed = FALSE
    BY DEF Init, LInit
  <2> QED
    BY <2>1, <2>2, Zenon
<1>2. Typed /\ [Next]_vars => Typed'
  BY NextPTypeOK, NextBooleans
<1>3. IInv /\ Typed => TypeOK
  BY DEF IInv, TypeOK
<1> QED
  BY <1>1, <1>2, <1>3, Invariance, PTL DEF Spec

\* The three invariants of sessions and their shared read loop together.
THEOREM SessionsAreSafe == Spec => []SessionsSafe
<1>1. OpenSessionLossless /\ NothingAfterClose /\ NeverStalls => SessionsSafe
  BY DEF SessionsSafe
<1> QED BY <1>1, Lossless, CleanClose, ReadLoopIsFree, PTL
=============================================================================
