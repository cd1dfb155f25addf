--------------------------- MODULE NetProxyProofs ---------------------------
(***************************************************************************)
(* Proofs about net/proxy: one connection served by ServeTCP, for any      *)
(* number of chunks, any transports and any balancers; the transport       *)
(* manager, for any names, objects and configurations; and the sticky      *)
(* round trippers, for any requests and connections.  About exporter:      *)
(* scrapes, for any collectors.  And about net/tcp and net/ip: the entry   *)
(* point and the client's address, for any configurations, addresses and   *)
(* headers.                                                                *)
(***************************************************************************)
EXTENDS TCPProxy, HTTPProxy, Exporter, EntryPoint, FiniteSetTheorems, TLAPS

-----------------------------------------------------------------------------
(* ServeTCP.                                                               *)

\* connCopy has reported its result.
Reported(s) == tpCopy[s] \in {"closeWrite", "setDeadline", "end"}
Running(s) == tpCopy[s] \in {"copy", "report"}

TPTypeOK ==
    /\ tpServe \in {"idle", "dial", "header", "handshake", "first", "second", "closing", "done"}
    /\ tpConn \in [Sides -> {"none", "open", "closed"}]
    /\ tpSent \in [Sides -> 0 .. TPMaxChunks]
    /\ tpGot \in [Sides -> Nat]
    /\ tpEof \in [Sides -> BOOLEAN]
    /\ tpReset \in [Sides -> BOOLEAN]
    /\ tpWritable \in [Sides -> BOOLEAN]
    /\ tpDeadline \in [Sides -> {"none", "armed", "passed"}]
    /\ tpCopy \in [Sides -> {"idle", "copy", "report", "closeWrite", "setDeadline", "end"}]
    /\ tpCause \in [Sides -> {"none", "write"} \cup Causes]

\* Where ServeTCP is tells how many results it has received.
CopiesCounted ==
    /\ tpServe \in {"idle", "dial", "header", "handshake"} => \A s \in Sides : tpCopy[s] = "idle"
    /\ tpServe = "first" => \A s \in Sides : Running(s)
    /\ tpServe = "second" => \E s \in Sides : Reported(s) /\ Running(Other(s))
    /\ tpServe \in {"closing", "done"} =>
         \/ \A s \in Sides : Reported(s)
         \/ \A s \in Sides : tpCopy[s] = "idle"

\* The connections are open while their copies run, and the backend's is only ever open
\* where a deferred or explicit Close is still to come.
ConnsHeld ==
    /\ tpServe \in {"header", "handshake", "first", "second"} => \A s \in Sides : tpConn[s] = "open"
    /\ tpServe = "dial" => tpConn["client"] = "open"
    /\ tpServe \in {"closing", "done"} /\ tpCopy["backend"] = "idle" => tpConn["backend"] # "open"
    /\ tpServe \in {"idle", "dial"} => tpConn["backend"] = "none"
    /\ tpServe = "done" => \A s \in Sides : tpConn[s] # "open"

\* A copy has a cause when it has ended; a deadline is put on a side only at the end of
\* the other side's copy.
CausesKnown ==
    \A s \in Sides :
        /\ tpCause[s] = "none" <=> tpCopy[s] \in {"idle", "copy"}
        /\ tpDeadline[s] # "none" => tpCopy[Other(s)] = "end" /\ tpDialer.terminationDelay >= 0

TPInv == TPTypeOK /\ CopiesCounted /\ ConnsHeld /\ CausesKnown /\ CutOnlyAfterHalfClose

\* Before ServeTCP is called nothing has been copied.
LEMMA TPInitInv == TPInit => TPInv
BY TPAssumption DEF TPInit, TPInv, TPTypeOK, CopiesCounted, ConnsHeld, CausesKnown,
    CutOnlyAfterHalfClose, Sides, Other, Causes, Running, Reported

\* Two sides, each the other's other.
LEMMA TwoSides ==
    /\ "client" \in Sides /\ "backend" \in Sides
    /\ Other("client") = "backend" /\ Other("backend") = "client"
    /\ \A s \in Sides : s = "client" \/ s = "backend"
BY DEF Sides, Other

\* ServeTCP is called: the dialer is made and the client's connection handed over.
LEMMA ServeStep ==
    ASSUME TPInv, NEW config, NEW isTLS, ServeTCP(config, isTLS)
    PROVE  TPInv'
BY TwoSides DEF TPInv, ServeTCP, streamVars, TPTypeOK, CopiesCounted, ConnsHeld,
    CausesKnown, CutOnlyAfterHalfClose, Running, Reported, Causes

\* The dialer's steps, successful or not.
LEMMA DialStep ==
    ASSUME TPInv, DialConn \/ WriteProxyHeader \/ Handshake
    PROVE  TPInv'
<1>1. CASE DialConn
  BY <1>1, TwoSides DEF TPInv, DialConn, streamVars, TPTypeOK, CopiesCounted, ConnsHeld,
    CausesKnown, CutOnlyAfterHalfClose, Running, Reported, Causes
<1>2. CASE WriteProxyHeader
  BY <1>2, TwoSides DEF TPInv, WriteProxyHeader, streamVars, TPTypeOK, CopiesCounted, ConnsHeld,
    CausesKnown, CutOnlyAfterHalfClose, Running, Reported, Causes
<1>3. CASE Handshake
  <2>1. UNCHANGED <<tpDialer, tpSent, tpGot, tpEof, tpReset, tpWritable, tpDeadline, tpCause>>
        /\ tpServe = "handshake"
    BY <1>3 DEF Handshake, streamVars
  <2>2. \A s \in Sides : tpCopy[s] = "idle" /\ tpCause[s] = "none" /\ tpDeadline[s] = "none"
    BY <2>1, TwoSides DEF TPInv, CopiesCounted, CausesKnown, TPTypeOK
  <2>3. CASE tpServe' = "first" /\ tpCopy' = [s \in Sides |-> "copy"] /\ UNCHANGED tpConn
    BY <2>1, <2>2, <2>3, TwoSides DEF TPInv, TPTypeOK, CopiesCounted, ConnsHeld,
      CausesKnown, CutOnlyAfterHalfClose, Running, Reported
  <2>4. CASE tpServe' = "closing" /\ tpConn' = [tpConn EXCEPT !["backend"] = "closed"] /\ UNCHANGED tpCopy
    BY <2>1, <2>2, <2>4, TwoSides DEF TPInv, TPTypeOK, CopiesCounted, ConnsHeld,
      CausesKnown, CutOnlyAfterHalfClose, Running, Reported
  <2> QED BY <1>3, <2>3, <2>4 DEF Handshake
<1> QED BY <1>1, <1>2, <1>3

\* A turn of io.Copy: a write that fails is a cause of its own.
LEMMA CopyStep ==
    ASSUME TPInv, NEW s \in Sides, CopyChunk(s)
    PROVE  TPInv'
BY TwoSides DEF TPInv, CopyChunk, TPTypeOK, CopiesCounted, ConnsHeld,
    CausesKnown, CutOnlyAfterHalfClose, Running, Reported, Causes

\* io.Copy ends.  Its own connection is open, so that it was not cut off by a Close; and
\* when its read deadline has passed, the other copy is at its end, for another cause.
LEMMA EndsStep ==
    ASSUME TPInv, NEW s \in Sides, NEW cause \in Causes, CopyEnds(s, cause)
    PROVE  TPInv'
<1>1. tpCopy[s] = "copy" /\ tpConn[s] = "open"
  BY TwoSides DEF TPInv, CopyEnds, TPTypeOK, CopiesCounted, ConnsHeld, Running, Reported
<1>2. cause # "closed"
  BY <1>1, TwoSides DEF TPInv, CopyEnds, TPTypeOK, CopiesCounted, ConnsHeld, Running, Reported
<1>3. cause = "deadline" => /\ tpCause[Other(s)] \notin {"none", "deadline"}
                            /\ tpDialer.terminationDelay >= 0
  <2> SUFFICES ASSUME cause = "deadline" PROVE tpCause[Other(s)] \notin {"none", "deadline"}
                                           /\ tpDialer.terminationDelay >= 0
    OBVIOUS
  <2>1. tpDeadline[s] = "passed" BY DEF CopyEnds
  <2>2. tpCopy[Other(s)] = "end" /\ tpDialer.terminationDelay >= 0
    BY <2>1 DEF TPInv, CausesKnown
  <2>3. tpCause[Other(s)] # "none" BY <2>2, TwoSides DEF TPInv, CausesKnown
  <2>4. tpCause[s] = "none" BY <1>1 DEF TPInv, CausesKnown
  <2>5. tpCause[Other(s)] # "deadline" BY <2>4, TwoSides DEF TPInv, CutOnlyAfterHalfClose
  <2> QED BY <2>2, <2>3, <2>5
<1>4. UNCHANGED <<tpDialer, tpServe, tpConn, tpSent, tpGot, tpEof, tpReset, tpWritable, tpDeadline>>
      /\ tpCopy' = [tpCopy EXCEPT ![s] = "report"] /\ tpCause' = [tpCause EXCEPT ![s] = cause]
  BY DEF CopyEnds, streamVars
<1>5. tpCause[s] = "none" BY <1>1 DEF TPInv, CausesKnown
<1>6. TPTypeOK' BY <1>4 DEF TPInv, TPTypeOK, Causes
<1>7. CopiesCounted' /\ ConnsHeld'
  BY <1>1, <1>4, TwoSides DEF TPInv, TPTypeOK, CopiesCounted, ConnsHeld, Running, Reported
<1>8. CausesKnown'
  BY <1>1, <1>4, TwoSides DEF TPInv, TPTypeOK, CausesKnown, Causes
<1>9. CutOnlyAfterHalfClose'
  BY <1>2, <1>3, <1>4, <1>5, TwoSides DEF TPInv, TPTypeOK, CutOnlyAfterHalfClose
<1> QED BY <1>6, <1>7, <1>8, <1>9 DEF TPInv

\* What connCopy does after io.Copy: the result is received, the other side's writing end
\* closed, its read deadline set.
LEMMA AfterCopyStep ==
    ASSUME TPInv, NEW s \in Sides, Report(s) \/ CloseWrite(s) \/ SetDeadline(s)
    PROVE  TPInv'
<1>1. CASE Report(s)
  BY <1>1, TwoSides DEF TPInv, Report, streamVars, TPTypeOK, CopiesCounted, ConnsHeld,
    CausesKnown, CutOnlyAfterHalfClose, Running, Reported, Causes
<1>2. CASE CloseWrite(s)
  <2>1. UNCHANGED <<tpDialer, tpServe, tpConn, tpSent, tpGot, tpEof, tpReset, tpDeadline, tpCause>>
    BY <1>2 DEF CloseWrite
  <2>2. tpCopy' \in [Sides -> {"idle", "copy", "report", "closeWrite", "setDeadline", "end"}]
        /\ tpCopy[s] = "closeWrite" /\ tpCopy'[s] \in {"end", "setDeadline"}
        /\ \A t \in Sides : t # s => tpCopy'[t] = tpCopy[t]
    BY <1>2 DEF CloseWrite, TPInv, TPTypeOK
  <2>3. tpWritable' \in [Sides -> BOOLEAN] BY <1>2, TwoSides, Zenon DEF CloseWrite, TPInv, TPTypeOK
  <2>4. TPTypeOK' BY <2>1, <2>2, <2>3 DEF TPInv, TPTypeOK
  <2>5. CopiesCounted' /\ ConnsHeld'
    BY <2>1, <2>2, TwoSides DEF TPInv, TPTypeOK, CopiesCounted, ConnsHeld, Running, Reported
  <2>6. CausesKnown' /\ CutOnlyAfterHalfClose'
    BY <2>1, <2>2, TwoSides DEF TPInv, TPTypeOK, CausesKnown, CutOnlyAfterHalfClose
  <2> QED BY <2>4, <2>5, <2>6 DEF TPInv
<1>3. CASE SetDeadline(s)
  BY <1>3, TwoSides DEF TPInv, SetDeadline, TPTypeOK, CopiesCounted, ConnsHeld,
    CausesKnown, CutOnlyAfterHalfClose, Running, Reported, Causes
<1> QED BY <1>1, <1>2, <1>3

\* The deferred closes come when no copy is reading.
LEMMA CloseStep ==
    ASSUME TPInv, DeferredCloses
    PROVE  TPInv'
BY TwoSides DEF TPInv, DeferredCloses, streamVars, TPTypeOK, CopiesCounted, ConnsHeld,
    CausesKnown, CutOnlyAfterHalfClose, Running, Reported, Causes

\* Peers send, half-close and reset; an armed deadline passes.
LEMMA PeerAndTimeStep ==
    ASSUME TPInv, NEW s \in Sides, PeerStep(s) \/ DeadlinePasses(s)
    PROVE  TPInv'
<1>1. CASE PeerStep(s)
  <2>1. UNCHANGED <<tpDialer, tpServe, tpConn, tpGot, tpWritable, tpDeadline, tpCopy, tpCause>>
    BY <1>1 DEF PeerStep
  <2>2. tpSent' \in [Sides -> 0 .. TPMaxChunks]
    BY <1>1, TPAssumption DEF PeerStep, TPInv, TPTypeOK
  <2>3. tpEof' \in [Sides -> BOOLEAN] /\ tpReset' \in [Sides -> BOOLEAN]
    BY <1>1, Zenon DEF PeerStep, TPInv, TPTypeOK
  <2> QED BY <2>1, <2>2, <2>3 DEF TPInv, TPTypeOK, CopiesCounted, ConnsHeld, CausesKnown,
            CutOnlyAfterHalfClose, Running, Reported
<1>2. CASE DeadlinePasses(s)
  BY <1>2, TwoSides DEF TPInv, DeadlinePasses, TPTypeOK, CopiesCounted, ConnsHeld,
    CausesKnown, CutOnlyAfterHalfClose, Running, Reported, Causes
<1> QED BY <1>1, <1>2

\* Every step of ServeTCP, of its copies, of the peers and of time keeps the invariant.
LEMMA TPNextInv == TPInv /\ [TPNext]_tpVars => TPInv'
<1> SUFFICES ASSUME TPInv, [TPNext]_tpVars PROVE TPInv' OBVIOUS
<1>1. CASE UNCHANGED tpVars
  BY <1>1 DEF TPInv, tpVars, TPTypeOK, CopiesCounted, ConnsHeld, CausesKnown,
    CutOnlyAfterHalfClose, Running, Reported
<1> QED BY <1>1, ServeStep, DialStep, CopyStep, EndsStep, AfterCopyStep, CloseStep,
          PeerAndTimeStep DEF TPNext

\* The inductive invariant of ServeTCP and its two connCopy goroutines.
THEOREM ServeTCPInvariant == TPSpec => []TPInv
BY TPInitInv, TPNextInv, PTL DEF TPSpec

\* connCopy is never cut off by ServeTCP's own closes, and by a read deadline only after
\* the other direction has ended, with a termination delay that is not negative.
THEOREM NoEarlyCut == TPSpec => []CutOnlyAfterHalfClose
<1>1. TPInv => CutOnlyAfterHalfClose BY DEF TPInv
<1> QED BY <1>1, ServeTCPInvariant, PTL

\* When ServeTCP has returned, neither connection is open, whichever step of the dialer
\* failed and whoever closed first.
THEOREM ConnectionsClosed == TPSpec => []NoConnLeft
<1>1. TPInv => NoConnLeft BY DEF TPInv, ConnsHeld, NoConnLeft
<1> QED BY <1>1, ServeTCPInvariant, PTL

-----------------------------------------------------------------------------
(* The transport manager.                                                  *)

TMTypeOK ==
    /\ tmObj \in [TMObjs -> TMConfigs]
    /\ tmCaller \in [TMNames -> TMObjs \cup {NoObj}]
    /\ tmOwn \in [TMNames -> TMObjs \cup {NoObj, DefaultObj}]
    /\ tmShared \in BOOLEAN
    /\ DOMAIN tmRT = TMNames /\ DOMAIN tmTLS = TMNames

\* What Update has derived for a name is what its configuration asks for.
CurrentFor(n) ==
    LET cfg == Deref(configs, tmObj, n) IN
    /\ tmRT[n] = IF cfg = NoObj THEN NoRT ELSE BuiltFrom(cfg)
    /\ tmTLS[n] = IF cfg = NoObj THEN NoRT ELSE TLSConfigOf(cfg)

TMInv ==
    /\ TMTypeOK
    /\ tmRT[DefaultName] # NoRT
    /\ \A n \in TMNames \ tmTainted : CurrentFor(n)

\* NewHTTPTransportManager has updated itself with the default transport.
LEMMA TMInitInv == TMInit => TMInv
<1> SUFFICES ASSUME TMInit PROVE TMInv OBVIOUS
<1>1. TMTypeOK BY TMAssumption DEF TMInit, TMTypeOK
<1>2. tmRT[DefaultName] # NoRT BY TMAssumption, TMValues DEF TMInit
<1>3. ASSUME NEW n \in TMNames PROVE CurrentFor(n)
  <2>1. configs = tmOwn BY DEF TMInit, configs
  <2>2. Deref(configs, tmObj, n) = IF n = DefaultName THEN ServersTransport ELSE NoObj
    BY <2>1, TMValues DEF TMInit, Deref
  <2> QED BY <2>2, TMValues DEF TMInit, CurrentFor
<1> QED BY <1>1, <1>2, <1>3 DEF TMInv

\* A name whose entry the caller's step has not changed is as it was.
LEMMA UnchangedEntries ==
    ASSUME TMInv, TMTypeOK', UNCHANGED <<tmRT, tmTLS>>, tmTainted' = tmTainted \cup ChangedBehindBack
    PROVE  TMInv'
<1>1. ASSUME NEW n \in TMNames \ tmTainted' PROVE CurrentFor(n)'
  <2>1. CurrentFor(n) BY DEF TMInv
  <2>2. Deref(configs, tmObj, n) = Deref(configs, tmObj, n)' BY DEF ChangedBehindBack
  <2> QED BY <2>1, <2>2 DEF CurrentFor
<1> QED BY <1>1 DEF TMInv

\* Assignments to the caller's map, changes of its objects and its going on with a copy.
LEMMA CallerStep ==
    ASSUME TMInv,
           \/ \E n \in TMNames, o \in TMObjs \cup {NoObj} : CallerSets(n, o)
           \/ \E o \in TMObjs, c \in TMConfigs : CallerMutates(o, c)
           \/ CallerClones
    PROVE  TMInv'
<1>1. CASE \E n \in TMNames, o \in TMObjs \cup {NoObj} : CallerSets(n, o)
  <2>1. TMTypeOK' BY <1>1 DEF CallerSets, TMInv, TMTypeOK
  <2> QED BY <1>1, <2>1, UnchangedEntries DEF CallerSets
<1>2. CASE \E o \in TMObjs, c \in TMConfigs : CallerMutates(o, c)
  <2>1. TMTypeOK' BY <1>2 DEF CallerMutates, TMInv, TMTypeOK
  <2> QED BY <1>2, <2>1, UnchangedEntries DEF CallerMutates
<1>3. CASE CallerClones
  <2>1. TMTypeOK' BY <1>3 DEF CallerClones, TMInv, TMTypeOK
  <2>2. configs' = configs BY <1>3 DEF CallerClones, configs
  <2>3. \A n \in TMNames : Deref(configs, tmObj, n)' = Deref(configs, tmObj, n)
    BY <1>3, <2>2 DEF CallerClones, Deref
  <2> QED BY <1>3, <2>1, <2>3 DEF CallerClones, TMInv, CurrentFor
<1> QED BY <1>1, <1>2, <1>3

\* Update, called with the caller's map or with an empty one.
LEMMA UpdateStep ==
    ASSUME TMInv, NEW map, map = tmCaller \/ map = [n \in TMNames |-> NoObj], Update(map)
    PROVE  TMInv'
<1> DEFINE clone == map[DefaultName] = NoObj
           new == IF clone THEN [map EXCEPT ![DefaultName] = DefaultObj] ELSE map
           named == {n \in TMNames : new[n] # NoObj}
           rts == [n \in named |-> BuiltFrom(Deref(new, tmObj, n))]
           tlss == [n \in named |-> TLSConfigOf(Deref(new, tmObj, n))]
<1>1. /\ tmRT' = Rebuilt(new, rts, tmRT)
      /\ tmTLS' = Rebuilt(new, tlss, tmTLS)
      /\ tmCaller' = [n \in TMNames |-> IF tmShared /\ new[n] = NoObj THEN NoObj ELSE tmCaller[n]]
      /\ tmShared' = ~clone
      /\ tmOwn' = IF tmShared' THEN [n \in TMNames |-> NoObj] ELSE new
      /\ tmTainted' = {n \in tmTainted :
                         IF new[n] = NoObj THEN configs[n] = NoObj
                         ELSE Deref(configs, tmObj, n) = Deref(new, tmObj, n)}
      /\ tmObj' = tmObj
  BY DEF Update
<1>2. map \in [TMNames -> TMObjs \cup {NoObj}] BY DEF TMInv, TMTypeOK
<1>3. new \in [TMNames -> TMObjs \cup {NoObj, DefaultObj}] /\ new[DefaultName] # NoObj
  BY <1>2, TMAssumption, TMValues
<1>4. TMTypeOK'
  <2>1. tmCaller' \in [TMNames -> TMObjs \cup {NoObj}] BY <1>1 DEF TMInv, TMTypeOK
  <2>2. tmOwn' \in [TMNames -> TMObjs \cup {NoObj, DefaultObj}] BY <1>1, <1>3
  <2>3. DOMAIN tmRT' = TMNames /\ DOMAIN tmTLS' = TMNames BY <1>1 DEF Rebuilt
  <2>4. tmShared' \in BOOLEAN BY <1>1
  <2> QED BY <1>1, <2>1, <2>2, <2>3, <2>4 DEF TMInv, TMTypeOK
<1>5. \A n \in TMNames : configs'[n] = new[n]
  <2> SUFFICES ASSUME NEW n \in TMNames PROVE configs'[n] = new[n] OBVIOUS
  <2>1. CASE clone BY <1>1, <2>1 DEF configs
  <2>2. CASE ~clone
    <3>1. map = tmCaller BY <2>2, TMAssumption
    <3>2. configs' = tmCaller' BY <1>1, <2>2 DEF configs
    <3> QED BY <1>1, <2>2, <3>1, <3>2
  <2> QED BY <2>1, <2>2
<1>6. \A n \in TMNames : Deref(configs, tmObj, n)' = Deref(new, tmObj, n)
  BY <1>1, <1>5 DEF Deref
<1>7. \A n \in TMNames : new[n] # NoObj =>
        Deref(new, tmObj, n) \in TMConfigs \cup {ServersTransport}
  BY <1>3 DEF Deref, TMInv, TMTypeOK
<1>8. ASSUME NEW n \in TMNames, new[n] # NoObj
      PROVE  /\ tmRT'[n] = IF Deref(configs, tmObj, n) = Deref(new, tmObj, n) THEN tmRT[n]
                           ELSE BuiltFrom(Deref(new, tmObj, n))
             /\ tmTLS'[n] = IF Deref(configs, tmObj, n) = Deref(new, tmObj, n) THEN tmTLS[n]
                            ELSE TLSConfigOf(Deref(new, tmObj, n))
  <2>1. n \in named /\ rts[n] = BuiltFrom(Deref(new, tmObj, n))
        /\ tlss[n] = TLSConfigOf(Deref(new, tmObj, n)) BY <1>8
  <2> HIDE DEF new, rts, tlss
  <2> QED BY <1>1, <1>8, <2>1 DEF Rebuilt
<1>9. ASSUME NEW n \in TMNames, new[n] = NoObj
      PROVE  /\ tmRT'[n] = IF configs[n] # NoObj THEN NoRT ELSE tmRT[n]
             /\ tmTLS'[n] = IF configs[n] # NoObj THEN NoRT ELSE tmTLS[n]
  <2> HIDE DEF new, rts, tlss
  <2> QED BY <1>1, <1>9 DEF Rebuilt
<1> HIDE DEF clone, new, named, rts, tlss
<1>10. tmRT'[DefaultName] # NoRT
  BY <1>3, <1>7, <1>8, TMAssumption, TMValues DEF TMInv
<1>11. ASSUME NEW n \in TMNames \ tmTainted' PROVE CurrentFor(n)'
  <2>1. CASE new[n] = NoObj /\ configs[n] # NoObj
    <3>1. Deref(configs, tmObj, n)' = NoObj BY <1>6, <2>1 DEF Deref
    <3> QED BY <1>9, <2>1, <3>1 DEF CurrentFor
  <2>2. CASE new[n] = NoObj /\ configs[n] = NoObj
    <3>1. n \notin tmTainted BY <1>1, <2>2
    <3>2. Deref(configs, tmObj, n)' = NoObj /\ Deref(configs, tmObj, n) = NoObj
      BY <1>6, <2>2 DEF Deref
    <3> QED BY <1>9, <2>2, <3>1, <3>2 DEF CurrentFor, TMInv
  <2>3. CASE new[n] # NoObj /\ Deref(configs, tmObj, n) = Deref(new, tmObj, n)
    <3>1. n \notin tmTainted BY <1>1, <2>3
    <3> QED BY <1>6, <1>8, <2>3, <3>1 DEF CurrentFor, TMInv
  <2>4. CASE new[n] # NoObj /\ Deref(configs, tmObj, n) # Deref(new, tmObj, n)
    <3>1. Deref(new, tmObj, n) # NoObj BY <1>7, <2>4, TMValues
    <3> QED BY <1>6, <1>8, <2>4, <3>1 DEF CurrentFor
  <2> QED BY <2>1, <2>2, <2>3, <2>4
<1> QED BY <1>4, <1>10, <1>11 DEF TMInv

\* Update and every step of the caller keep the invariant.
LEMMA TMNextInv == TMInv /\ [TMNext]_tmVars => TMInv'
<1> SUFFICES ASSUME TMInv, [TMNext]_tmVars PROVE TMInv' OBVIOUS
<1>1. CASE UNCHANGED tmVars
  BY <1>1 DEF TMInv, TMTypeOK, tmVars, CurrentFor, configs, Deref
<1>2. CASE UpdateWithMap BY <1>2, UpdateStep DEF UpdateWithMap
<1>3. CASE UpdateWithNil BY <1>3, UpdateStep DEF UpdateWithNil
<1> QED BY <1>1, <1>2, <1>3, CallerStep DEF TMNext

\* Round trippers and TLS configurations are those of the configurations in force unless
\* the caller changed one through what it shares with the manager, and GetRoundTripper
\* always finds the default one.
THEOREM TransportsAreCurrent == TMSpec => []TransportsCurrent
<1>1. TMInv => TransportsCurrent
  BY DEF TMInv, TransportsCurrent, CurrentFor, GetRoundTripper, ResolveName
<1> QED BY <1>1, TMInitInv, TMNextInv, PTL DEF TMSpec

-----------------------------------------------------------------------------
(* The sticky round trippers.                                              *)

HPTypeOK ==
    /\ hpPc \in [HPReqs -> {"idle", "send", "sent", "negotiable", "done"}]
    /\ hpConn \in [HPReqs -> HPConns \cup {NoConn}]
    /\ hpVia \in [HPReqs -> Nat] /\ sticky \in [HPConns -> Nat] /\ hpClones \in Nat

\* A request that is under way.
UnderWay(q) == hpPc[q] \in {"send", "sent", "negotiable"}

\* A request has a connection from its start on, and one that may set a holder has one.
ConnKnown ==
    \A q \in HPReqs : /\ hpPc[q] = "idle" => hpConn[q] = NoConn
                      /\ hpPc[q] = "negotiable" => hpConn[q] \in HPConns

\* Two requests that are under way on one connection have been seen.
OverlapSeen ==
    \A p, q \in HPReqs :
        p # q /\ UnderWay(p) /\ UnderWay(q) /\ hpConn[p] = hpConn[q] /\ hpConn[p] # NoConn
            => hpConn[p] \in hpOverlap

\* A request that found no round tripper in the holder still finds none, unless another
\* one was under way beside it.
StillNone ==
    \A q \in HPReqs : hpPc[q] = "negotiable" /\ sticky[hpConn[q]] # 0 => hpConn[q] \in hpOverlap

HPInv == HPTypeOK /\ ConnKnown /\ OverlapSeen /\ StillNone

\* No request yet.
LEMMA HPInitInv == HPInit => HPInv
<1> SUFFICES ASSUME HPInit PROVE HPInv OBVIOUS
<1>1. /\ hpPc = [q \in HPReqs |-> "idle"] /\ hpConn = [q \in HPReqs |-> NoConn]
      /\ hpVia = [q \in HPReqs |-> 0] /\ sticky = [c \in HPConns |-> 0] /\ hpClones = 0
  BY DEF HPInit
<1>2. HPTypeOK BY <1>1 DEF HPTypeOK
<1>3. ConnKnown /\ OverlapSeen /\ StillNone
  BY <1>1 DEF ConnKnown, OverlapSeen, StillNone, UnderWay
<1> QED BY <1>2, <1>3 DEF HPInv

\* ServeHTTP notes the connection that another request is using.
LEMMA ServeKeeps ==
    ASSUME HPInv, NEW q \in HPReqs, NEW in, NEW c \in HPConns \cup {NoConn}, ServeHTTP(q, in, c)
    PROVE  HPInv'
<1>1. /\ hpPc[q] = "idle" /\ hpPc' = [hpPc EXCEPT ![q] = "send"]
      /\ hpConn' = [hpConn EXCEPT ![q] = c]
      /\ hpOverlap' = hpOverlap \cup
           {d \in {c} \ {NoConn} : \E p \in HPReqs : hpConn[p] = d /\ hpPc[p] # "done"}
      /\ UNCHANGED <<hpVia, sticky, hpClones>>
  BY DEF ServeHTTP
<1>2. HPTypeOK' BY <1>1 DEF HPInv, HPTypeOK
<1>3. ConnKnown' BY <1>1 DEF HPInv, HPTypeOK, ConnKnown
<1>4. ASSUME NEW r \in HPReqs, UnderWay(r), hpConn[r] = c, c # NoConn PROVE c \in hpOverlap'
  BY <1>1, <1>4 DEF UnderWay
<1>5. OverlapSeen' BY <1>1, <1>4 DEF HPInv, HPTypeOK, OverlapSeen, UnderWay
<1>6. StillNone' BY <1>1 DEF HPInv, HPTypeOK, StillNone
<1> QED BY <1>2, <1>3, <1>5, <1>6 DEF HPInv

\* RoundTrip looks at the holder.
LEMMA RoundTripKeeps == ASSUME HPInv, NEW q \in HPReqs, RoundTrip(q) PROVE HPInv'
<1> DEFINE held == IF hpConn[q] = NoConn THEN 0 ELSE sticky[hpConn[q]]
<1>1. /\ hpPc[q] = "send" /\ hpVia' = [hpVia EXCEPT ![q] = held]
      /\ hpPc' = [hpPc EXCEPT ![q] =
                    IF hpConn[q] = NoConn \/ held # 0 THEN "sent" ELSE "negotiable"]
      /\ UNCHANGED <<hpConn, hpOverlap, sticky, hpClones>>
  BY DEF RoundTrip
<1>2. HPTypeOK' BY <1>1 DEF HPInv, HPTypeOK
<1>3. ConnKnown' BY <1>1 DEF HPInv, HPTypeOK, ConnKnown
<1>4. OverlapSeen' BY <1>1 DEF HPInv, HPTypeOK, OverlapSeen, UnderWay
<1>5. StillNone' BY <1>1 DEF HPInv, HPTypeOK, StillNone
<1> QED BY <1>2, <1>3, <1>4, <1>5 DEF HPInv

\* An answer ends its request, and may set the holder of its connection.
LEMMA AnswerKeeps ==
    ASSUME HPInv, NEW q \in HPReqs, hpPc[q] \in {"sent", "negotiable"},
           hpPc' = [hpPc EXCEPT ![q] = "done"], UNCHANGED <<hpConn, hpVia, hpOverlap>>,
           \/ UNCHANGED <<sticky, hpClones>>
           \/ /\ hpPc[q] = "negotiable" /\ hpClones' = hpClones + 1
              /\ sticky' = [sticky EXCEPT ![hpConn[q]] = hpClones + 1]
    PROVE  HPInv'
<1>1. HPTypeOK'
  <2>1. hpPc' \in [HPReqs -> {"idle", "send", "sent", "negotiable", "done"}] BY DEF HPInv, HPTypeOK
  <2>2. sticky' \in [HPConns -> Nat] /\ hpClones' \in Nat BY DEF HPInv, HPTypeOK
  <2> QED BY <2>1, <2>2 DEF HPInv, HPTypeOK
<1>2. ConnKnown' BY DEF HPInv, HPTypeOK, ConnKnown
<1>3. OverlapSeen' BY DEF HPInv, HPTypeOK, OverlapSeen, UnderWay
<1>4. StillNone'
  <2> SUFFICES ASSUME NEW p \in HPReqs, hpPc'[p] = "negotiable", sticky'[hpConn[p]] # 0
               PROVE  hpConn[p] \in hpOverlap
    BY DEF StillNone
  <2>1. p # q /\ hpPc[p] = "negotiable" /\ hpConn[p] \in HPConns
    BY DEF HPInv, HPTypeOK, ConnKnown
  <2>2. CASE sticky'[hpConn[p]] = sticky[hpConn[p]] BY <2>1, <2>2 DEF HPInv, StillNone
  <2>3. CASE sticky'[hpConn[p]] # sticky[hpConn[p]]
    <3>1. hpPc[q] = "negotiable" /\ hpConn[p] = hpConn[q] BY <2>1, <2>3 DEF HPInv, HPTypeOK
    <3>2. hpConn[p] # NoConn BY <2>1, HPAssumption
    <3> QED BY <2>1, <3>1, <3>2 DEF HPInv, OverlapSeen, UnderWay
  <2> QED BY <2>2, <2>3
<1> QED BY <1>1, <1>2, <1>3, <1>4 DEF HPInv

\* The requests keep the invariant.
LEMMA HPStepInv == HPInv /\ [HPNext]_hpVars => HPInv'
<1> SUFFICES ASSUME HPInv, [HPNext]_hpVars PROVE HPInv' OBVIOUS
<1>1. ASSUME NEW q \in HPReqs, NEW peer, AnswerNegotiates(q, peer) PROVE HPInv'
  <2>1. /\ hpPc[q] \in {"sent", "negotiable"} /\ hpPc' = [hpPc EXCEPT ![q] = "done"]
        /\ UNCHANGED <<hpConn, hpVia, hpOverlap>>
        /\ \/ UNCHANGED <<sticky, hpClones>>
           \/ /\ hpPc[q] = "negotiable" /\ hpClones' = hpClones + 1
              /\ sticky' = [sticky EXCEPT ![hpConn[q]] = hpClones + 1]
    BY <1>1 DEF AnswerNegotiates, Finish
  <2> QED BY <2>1, AnswerKeeps
<1>2. ASSUME NEW q \in HPReqs, NEW peer, Answer(q, peer) PROVE HPInv'
  <2>1. /\ hpPc[q] \in {"sent", "negotiable"} /\ hpPc' = [hpPc EXCEPT ![q] = "done"]
        /\ UNCHANGED <<hpConn, hpVia, hpOverlap, sticky, hpClones>>
    BY <1>2 DEF Answer, Finish
  <2> QED BY <2>1, AnswerKeeps
<1>3. ASSUME NEW q \in HPReqs, NEW err, AnswerFails(q, err) PROVE HPInv'
  <2>1. /\ hpPc[q] \in {"sent", "negotiable"} /\ hpPc' = [hpPc EXCEPT ![q] = "done"]
        /\ UNCHANGED <<hpConn, hpVia, hpOverlap, sticky, hpClones>>
    BY <1>3 DEF AnswerFails, Finish
  <2> QED BY <2>1, AnswerKeeps
<1>4. CASE UNCHANGED hpVars
  BY <1>4 DEF hpVars, HPInv, HPTypeOK, ConnKnown, OverlapSeen, StillNone, UnderWay
<1> QED BY <1>1, <1>2, <1>3, <1>4, ServeKeeps, RoundTripKeeps DEF HPNext

\* No step takes a request past its holder, or replaces the round tripper of a connection
\* that has not had two requests at once.
LEMMA StickyStep ==
    ASSUME HPInv, HPNext, NEW c \in HPConns
    PROVE  /\ sticky[c] # 0 /\ sticky'[c] # sticky[c] => c \in hpOverlap
           /\ \A q \in HPReqs : hpConn[q] = c /\ hpPc[q] = "send" /\ hpPc'[q] # "send"
                => hpVia'[q] = sticky[c]
<1>1. ASSUME NEW q \in HPReqs, NEW in, NEW d, ServeHTTP(q, in, d)
      PROVE  /\ UNCHANGED sticky
             /\ \A r \in HPReqs : hpPc[r] = "send" => hpPc'[r] = "send"
  BY <1>1 DEF ServeHTTP, HPInv, HPTypeOK
<1>2. ASSUME NEW q \in HPReqs, RoundTrip(q)
      PROVE  /\ UNCHANGED sticky
             /\ \A r \in HPReqs : hpConn[r] = c /\ hpPc[r] = "send" /\ hpPc'[r] # "send"
                  => hpVia'[r] = sticky[c]
  <2>1. c # NoConn BY HPAssumption
  <2> QED BY <1>2, <2>1 DEF RoundTrip, HPInv, HPTypeOK
<1>3. ASSUME NEW q \in HPReqs, NEW peer, AnswerNegotiates(q, peer)
      PROVE  /\ sticky[c] # 0 /\ sticky'[c] # sticky[c] => c \in hpOverlap
             /\ \A r \in HPReqs : hpPc[r] = "send" => hpPc'[r] = "send"
  <2>1. \A r \in HPReqs : hpPc[r] = "send" => hpPc'[r] = "send"
    BY <1>3 DEF AnswerNegotiates, Finish, HPInv, HPTypeOK
  <2>2. ASSUME sticky[c] # 0, sticky'[c] # sticky[c] PROVE c \in hpOverlap
    <3>1. hpPc[q] = "negotiable" /\ sticky' = [sticky EXCEPT ![hpConn[q]] = hpClones + 1]
      BY <1>3, <2>2 DEF AnswerNegotiates
    <3>2. hpConn[q] = c BY <2>2, <3>1 DEF HPInv, HPTypeOK
    <3> QED BY <2>2, <3>1, <3>2 DEF HPInv, StillNone
  <2> QED BY <2>1, <2>2
<1>4. ASSUME NEW q \in HPReqs, NEW peer, Answer(q, peer)
      PROVE  UNCHANGED sticky /\ \A r \in HPReqs : hpPc[r] = "send" => hpPc'[r] = "send"
  BY <1>4 DEF Answer, Finish, HPInv, HPTypeOK
<1>5. ASSUME NEW q \in HPReqs, NEW err, AnswerFails(q, err)
      PROVE  UNCHANGED sticky /\ \A r \in HPReqs : hpPc[r] = "send" => hpPc'[r] = "send"
  BY <1>5 DEF AnswerFails, Finish, HPInv, HPTypeOK
<1> QED BY <1>1, <1>2, <1>3, <1>4, <1>5 DEF HPNext

\* httpKerberosRoundTripper: for any number of requests and connections, the round tripper
\* a connection authenticated with is replaced only when two of its requests were under
\* way at once, and every later request takes it.
THEOREM StickyIsKept == HPSpec => StickyKept
<1>1. HPInv /\ [HPNext]_hpVars =>
        [\A c \in HPConns :
            /\ sticky[c] # 0 /\ sticky'[c] # sticky[c] => c \in hpOverlap
            /\ \A q \in HPReqs : hpConn[q] = c /\ hpPc[q] = "send" /\ hpPc'[q] # "send"
                 => hpVia'[q] = sticky[c]]_hpVars
  BY StickyStep
<1> QED BY <1>1, HPInitInv, HPStepInv, PTL DEF HPSpec, StickyKept

-----------------------------------------------------------------------------
(* Scrapes.                                                                *)

DurationMetric == [metric |-> "duration"]
SuccessMetric(v) == [metric |-> "success", value |-> v]
FieldMetrics == {[metric |-> f.name] : f \in UNION {EXFields[c] : c \in Collectors}}
AllMetrics == FieldMetrics \cup {DurationMetric, SuccessMetric(0), SuccessMetric(1)}

\* Those among some metrics that tell whether the collector succeeded.
Successes(sent) == {m \in sent : m.metric = "success"}

EXTypeOK ==
    /\ exPc \in [EXScrapes -> {"idle", "503", "collect", "collected", "200"}]
    /\ exWg \in [EXScrapes -> Int]
    /\ exGo \in [EXScrapes -> [Collectors -> {"none", "update", "duration", "success", "executed", "done"}]]
    /\ exErr \in [EXScrapes -> [Collectors -> {Nil} \cup UNION {EXOutcomes[c] : c \in Collectors}]]
    /\ exSent \in [EXScrapes -> [Collectors -> SUBSET AllMetrics]]

\* The collectors of a scrape whose goroutine has not called wg.Done.
Unfinished(s) == {c \in Collectors : exGo[s][c] # "done"}

\* The WaitGroup counts them, and there are none before Collect and after it.
WgCounts ==
    \A s \in EXScrapes :
        /\ exPc[s] = "collect" => exWg[s] = Cardinality(Unfinished(s))
        /\ exPc[s] \in {"idle", "503"} => \A c \in Collectors : exGo[s][c] = "none"
        /\ exPc[s] \in {"collected", "200"} => Unfinished(s) = {}

\* What a goroutine has sent follows from where it is.
SentSoFar ==
    \A s \in EXScrapes, c \in Collectors :
        /\ exGo[s][c] \in {"none", "update", "duration", "success"} => Successes(exSent[s][c]) = {}
        /\ exGo[s][c] \in {"success", "executed", "done"} => DurationMetric \in exSent[s][c]
        /\ exGo[s][c] \in {"executed", "done"} =>
             Successes(exSent[s][c]) = {SuccessMetric(IF exErr[s][c] = Nil THEN 1 ELSE 0)}
        /\ exGo[s][c] \in {"duration", "success", "executed", "done"} /\ exErr[s][c] = Nil =>
             \A f \in EXFields[c] : Pushes(f) => [metric |-> f.name] \in exSent[s][c]

EXInv == EXTypeOK /\ WgCounts /\ SentSoFar /\ exLate = FALSE

\* The parts of the invariant do not depend on anything else.
LEMMA EXUnchanged ==
    ASSUME EXInv, UNCHANGED <<exPc, exWg, exGo, exErr, exSent, exLate>>
    PROVE  EXInv'
<1>1. EXTypeOK' BY DEF EXInv, EXTypeOK
<1>2. WgCounts' BY DEF EXInv, WgCounts, Unfinished
<1>3. SentSoFar' BY DEF EXInv, SentSoFar
<1> QED BY <1>1, <1>2, <1>3 DEF EXInv

\* No scrape yet.
LEMMA EXInitInv == EXInit => EXInv
<1> SUFFICES ASSUME EXInit PROVE EXInv OBVIOUS
<1>1. EXTypeOK BY DEF EXInit, EXTypeOK
<1>2. WgCounts BY DEF EXInit, WgCounts
<1>3. SentSoFar BY DEF EXInit, SentSoFar, Successes
<1> QED BY <1>1, <1>2, <1>3 DEF EXInv, EXInit

\* Sending more metrics, none of which tells of success.
LEMMA MoreSuccesses ==
    ASSUME NEW a, NEW b
    PROVE  Successes(a \cup b) = Successes(a) \cup Successes(b)
BY DEF Successes

\* Only a goroutine of a scrape that is collecting sends.
LEMMA CollectorRuns ==
    ASSUME EXInv, NEW s \in EXScrapes, NEW c \in Collectors, exGo[s][c] \notin {"none", "done"}
    PROVE  exPc[s] = "collect"
BY DEF EXInv, EXTypeOK, WgCounts, Unfinished

\* A goroutine that sends and goes on, short of wg.Done.
LEMMA SendKeeps ==
    ASSUME EXInv, NEW s \in EXScrapes, NEW c \in Collectors, NEW metrics \in SUBSET AllMetrics,
           NEW pc \in {"update", "success", "executed"}, exGo[s][c] \in {"update", "duration", "success"},
           SendMetrics(s, c, metrics), exGo' = [exGo EXCEPT ![s][c] = pc],
           UNCHANGED <<exPc, exWg, exErr>>,
           LET sent == exSent[s][c] \cup metrics IN
           /\ pc \in {"update", "success"} => Successes(sent) = {}
           /\ pc \in {"success", "executed"} =>
                /\ DurationMetric \in sent
                /\ exGo[s][c] # "update"
           /\ pc = "executed" =>
                Successes(sent) = {SuccessMetric(IF exErr[s][c] = Nil THEN 1 ELSE 0)}
    PROVE  EXInv'
<1>1. exPc[s] = "collect" BY CollectorRuns
<1>2. exSent' = [exSent EXCEPT ![s][c] = @ \cup metrics] /\ exLate' = FALSE
  BY <1>1 DEF SendMetrics, EXInv
<1>3. /\ exGo'[s][c] = pc /\ exSent'[s][c] = exSent[s][c] \cup metrics
      /\ \A r \in EXScrapes, d \in Collectors : r # s \/ d # c =>
           exGo'[r][d] = exGo[r][d] /\ exSent'[r][d] = exSent[r][d]
  BY <1>2 DEF EXInv, EXTypeOK
<1>4. EXTypeOK'
  <2>1. exSent' \in [EXScrapes -> [Collectors -> SUBSET AllMetrics]] BY <1>2 DEF EXInv, EXTypeOK
  <2>2. exGo' \in [EXScrapes -> [Collectors ->
                     {"none", "update", "duration", "success", "executed", "done"}]]
    BY DEF EXInv, EXTypeOK
  <2> QED BY <2>1, <2>2 DEF EXInv, EXTypeOK
<1>5. \A r \in EXScrapes : Unfinished(r)' = Unfinished(r) BY <1>3 DEF Unfinished
<1>6. WgCounts'
  <2> SUFFICES ASSUME NEW r \in EXScrapes
               PROVE  /\ exPc[r] = "collect" => exWg[r] = Cardinality(Unfinished(r)')
                      /\ exPc[r] \in {"idle", "503"} => \A d \in Collectors : exGo'[r][d] = "none"
                      /\ exPc[r] \in {"collected", "200"} => Unfinished(r)' = {}
    BY DEF WgCounts
  <2>1. exPc[r] \in {"idle", "503"} => \A d \in Collectors : exGo'[r][d] = "none"
    BY <1>1, <1>3 DEF EXInv, WgCounts
  <2> QED BY <1>5, <2>1 DEF EXInv, WgCounts
<1>7. SentSoFar'
  <2> SUFFICES ASSUME NEW r \in EXScrapes, NEW d \in Collectors
               PROVE
        /\ exGo'[r][d] \in {"none", "update", "duration", "success"} => Successes(exSent'[r][d]) = {}
        /\ exGo'[r][d] \in {"success", "executed", "done"} => DurationMetric \in exSent'[r][d]
        /\ exGo'[r][d] \in {"executed", "done"} =>
             Successes(exSent'[r][d]) = {SuccessMetric(IF exErr[r][d] = Nil THEN 1 ELSE 0)}
        /\ exGo'[r][d] \in {"duration", "success", "executed", "done"} /\ exErr[r][d] = Nil =>
             \A f \in EXFields[d] : Pushes(f) => [metric |-> f.name] \in exSent'[r][d]
    BY DEF SentSoFar
  <2>1. CASE r # s \/ d # c BY <1>3, <2>1 DEF EXInv, SentSoFar
  <2>2. CASE r = s /\ d = c
    <3>1. pc # "update" /\ exErr[s][c] = Nil =>
            \A f \in EXFields[c] : Pushes(f) => [metric |-> f.name] \in exSent[s][c] \cup metrics
      BY DEF EXInv, SentSoFar
    <3> QED BY <1>3, <2>2, <3>1
  <2> QED BY <2>1, <2>2
<1> QED BY <1>2, <1>4, <1>6, <1>7 DEF EXInv

\* Sending a field, the duration, and the success.
LEMMA CollectorSends ==
    ASSUME EXInv, NEW s \in EXScrapes, NEW c \in Collectors,
           \/ \E f \in EXFields[c] : UpdateField(s, c, f)
           \/ ReportDuration(s, c)
           \/ ReportSuccess(s, c)
    PROVE  EXInv'
<1>1. ASSUME NEW f \in EXFields[c], UpdateField(s, c, f) PROVE EXInv'
  <2> DEFINE metrics == {[metric |-> g.name] : g \in {h \in {f} : Pushes(h)}}
  <2>1. /\ exGo[s][c] = "update" /\ SendMetrics(s, c, metrics)
        /\ UNCHANGED <<exPc, exWg, exGo, exErr>>
    BY <1>1 DEF UpdateField
  <2>2. metrics \subseteq FieldMetrics
    <3>1. f \in UNION {EXFields[d] : d \in Collectors} OBVIOUS
    <3> QED BY <3>1 DEF FieldMetrics
  <2>3. Successes(metrics) = {}
    <3>1. f.name # "success" BY EXAssumption DEF Collectors
    <3> QED BY <3>1 DEF Successes
  <2>4. Successes(exSent[s][c]) = {} BY <2>1 DEF EXInv, SentSoFar
  <2> HIDE DEF metrics
  <2>5. Successes(exSent[s][c] \cup metrics) = {} BY <2>3, <2>4, MoreSuccesses
  <2>6. exGo' = [exGo EXCEPT ![s][c] = "update"] BY <2>1 DEF EXInv, EXTypeOK
  <2>7. metrics \in SUBSET AllMetrics BY <2>2 DEF AllMetrics
  <2> QED BY <2>1, <2>5, <2>6, <2>7, SendKeeps
<1>2. CASE ReportDuration(s, c)
  <2> DEFINE metrics == {DurationMetric}
  <2>1. /\ exGo[s][c] = "duration" /\ SendMetrics(s, c, metrics)
        /\ exGo' = [exGo EXCEPT ![s][c] = "success"] /\ UNCHANGED <<exPc, exWg, exErr>>
    BY <1>2 DEF ReportDuration, GoOn, DurationMetric
  <2>2. Successes(metrics) = {} BY DEF Successes, DurationMetric
  <2>3. Successes(exSent[s][c]) = {} BY <2>1 DEF EXInv, SentSoFar
  <2>4. metrics \in SUBSET AllMetrics /\ DurationMetric \in exSent[s][c] \cup metrics
    BY DEF AllMetrics
  <2> HIDE DEF metrics
  <2>5. Successes(exSent[s][c] \cup metrics) = {} BY <2>2, <2>3, MoreSuccesses
  <2> QED BY <2>1, <2>4, <2>5, SendKeeps
<1>3. CASE ReportSuccess(s, c)
  <2> DEFINE v == IF exErr[s][c] = Nil THEN 1 ELSE 0
             metrics == {SuccessMetric(v)}
  <2>1. /\ exGo[s][c] = "success" /\ SendMetrics(s, c, metrics)
        /\ exGo' = [exGo EXCEPT ![s][c] = "executed"] /\ UNCHANGED <<exPc, exWg, exErr>>
    BY <1>3 DEF ReportSuccess, GoOn, SuccessMetric
  <2>2. Successes(metrics) = metrics BY DEF Successes, SuccessMetric
  <2>3. Successes(exSent[s][c]) = {} /\ DurationMetric \in exSent[s][c]
    BY <2>1 DEF EXInv, SentSoFar
  <2>4. metrics \in SUBSET AllMetrics BY DEF AllMetrics
  <2>5. Successes(exSent[s][c] \cup metrics) = metrics
    <3> HIDE DEF metrics
    <3> QED BY <2>2, <2>3, MoreSuccesses
  <2>6. DurationMetric \in exSent[s][c] \cup metrics BY <2>3
  <2> QED BY <2>1, <2>4, <2>5, <2>6, SendKeeps
<1> QED BY <1>1, <1>2, <1>3

\* Update returns: without an error it has pushed every field.
LEMMA UpdateReturnsKeeps ==
    ASSUME EXInv, NEW s \in EXScrapes, NEW c \in Collectors, NEW err \in EXOutcomes[c],
           UpdateReturns(s, c, err)
    PROVE  EXInv'
<1>1. /\ exGo[s][c] = "update" /\ exGo' = [exGo EXCEPT ![s][c] = "duration"]
      /\ exErr' = [exErr EXCEPT ![s][c] = err]
      /\ UNCHANGED <<exPc, exWg, exSent, exLate>>
      /\ err = Nil => \A f \in EXFields[c] : Pushes(f) => [metric |-> f.name] \in exSent[s][c]
  BY DEF UpdateReturns, GoOn
<1>2. /\ exGo'[s][c] = "duration" /\ exErr'[s][c] = err
      /\ \A r \in EXScrapes, d \in Collectors : r # s \/ d # c =>
           exGo'[r][d] = exGo[r][d] /\ exErr'[r][d] = exErr[r][d]
  BY <1>1 DEF EXInv, EXTypeOK
<1>3. EXTypeOK'
  <2>1. exErr' \in [EXScrapes -> [Collectors -> {Nil} \cup UNION {EXOutcomes[d] : d \in Collectors}]]
    BY <1>1 DEF EXInv, EXTypeOK
  <2>2. exGo' \in [EXScrapes -> [Collectors ->
                     {"none", "update", "duration", "success", "executed", "done"}]]
    BY <1>1 DEF EXInv, EXTypeOK
  <2> QED BY <1>1, <2>1, <2>2 DEF EXInv, EXTypeOK
<1>4. exPc[s] = "collect" BY <1>1, CollectorRuns
<1>5. \A r \in EXScrapes : Unfinished(r)' = Unfinished(r) BY <1>1, <1>2 DEF Unfinished
<1>6. WgCounts'
  <2> SUFFICES ASSUME NEW r \in EXScrapes
               PROVE  /\ exPc[r] = "collect" => exWg[r] = Cardinality(Unfinished(r)')
                      /\ exPc[r] \in {"idle", "503"} => \A d \in Collectors : exGo'[r][d] = "none"
                      /\ exPc[r] \in {"collected", "200"} => Unfinished(r)' = {}
    BY <1>1 DEF WgCounts
  <2>1. exPc[r] \in {"idle", "503"} => \A d \in Collectors : exGo'[r][d] = "none"
    BY <1>2, <1>4 DEF EXInv, WgCounts
  <2> QED BY <1>5, <2>1 DEF EXInv, WgCounts
<1>7. SentSoFar'
  <2> SUFFICES ASSUME NEW r \in EXScrapes, NEW d \in Collectors
               PROVE
        /\ exGo'[r][d] \in {"none", "update", "duration", "success"} => Successes(exSent[r][d]) = {}
        /\ exGo'[r][d] \in {"success", "executed", "done"} => DurationMetric \in exSent[r][d]
        /\ exGo'[r][d] \in {"executed", "done"} =>
             Successes(exSent[r][d]) = {SuccessMetric(IF exErr'[r][d] = Nil THEN 1 ELSE 0)}
        /\ exGo'[r][d] \in {"duration", "success", "executed", "done"} /\ exErr'[r][d] = Nil =>
             \A f \in EXFields[d] : Pushes(f) => [metric |-> f.name] \in exSent[r][d]
    BY <1>1 DEF SentSoFar
  <2>1. CASE r # s \/ d # c BY <1>2, <2>1 DEF EXInv, SentSoFar
  <2>2. CASE r = s /\ d = c BY <1>1, <1>2, <2>2 DEF EXInv, SentSoFar
  <2> QED BY <2>1, <2>2
<1> QED BY <1>1, <1>3, <1>6, <1>7 DEF EXInv

\* wg.Done counts one collector less.
LEMMA DoneKeeps ==
    ASSUME EXInv, NEW s \in EXScrapes, NEW c \in Collectors, CollectorDone(s, c)
    PROVE  EXInv'
<1>1. /\ exGo[s][c] = "executed" /\ exGo' = [exGo EXCEPT ![s][c] = "done"]
      /\ exWg' = [exWg EXCEPT ![s] = @ - 1]
      /\ UNCHANGED <<exPc, exErr, exSent, exLate>>
  BY DEF CollectorDone, GoOn
<1>2. /\ exGo'[s][c] = "done"
      /\ \A r \in EXScrapes, d \in Collectors : r # s \/ d # c => exGo'[r][d] = exGo[r][d]
      /\ exWg'[s] = exWg[s] - 1 /\ \A r \in EXScrapes : r # s => exWg'[r] = exWg[r]
  BY <1>1 DEF EXInv, EXTypeOK
<1>3. EXTypeOK'
  <2>1. exWg' \in [EXScrapes -> Int] BY <1>1 DEF EXInv, EXTypeOK
  <2>2. exGo' \in [EXScrapes -> [Collectors ->
                     {"none", "update", "duration", "success", "executed", "done"}]]
    BY <1>1 DEF EXInv, EXTypeOK
  <2> QED BY <1>1, <2>1, <2>2 DEF EXInv, EXTypeOK
<1>4. exPc[s] = "collect" BY <1>1, CollectorRuns
<1>5. \A r \in EXScrapes : r # s => Unfinished(r)' = Unfinished(r) BY <1>2 DEF Unfinished
<1>6. Unfinished(s)' = Unfinished(s) \ {c} /\ c \in Unfinished(s) BY <1>1, <1>2 DEF Unfinished
<1>7. Cardinality(Unfinished(s)') = Cardinality(Unfinished(s)) - 1
  <2>1. IsFiniteSet(Collectors) BY EXAssumption DEF Collectors
  <2>2. Unfinished(s) \in SUBSET Collectors BY DEF Unfinished
  <2>3. IsFiniteSet(Unfinished(s)) BY <2>1, <2>2, FS_Subset
  <2> QED BY <1>6, <2>3, FS_RemoveElement
<1>8. WgCounts'
  <2> SUFFICES ASSUME NEW r \in EXScrapes
               PROVE  /\ exPc[r] = "collect" => exWg'[r] = Cardinality(Unfinished(r)')
                      /\ exPc[r] \in {"idle", "503"} => \A d \in Collectors : exGo'[r][d] = "none"
                      /\ exPc[r] \in {"collected", "200"} => Unfinished(r)' = {}
    BY <1>1 DEF WgCounts
  <2>1. CASE r = s BY <1>2, <1>4, <1>7, <2>1 DEF EXInv, WgCounts
  <2>2. CASE r # s
    <3>1. \A d \in Collectors : exGo'[r][d] = exGo[r][d] BY <1>2, <2>2
    <3> QED BY <1>2, <1>5, <2>2, <3>1 DEF EXInv, WgCounts
  <2> QED BY <2>1, <2>2
<1>9. SentSoFar'
  <2> SUFFICES ASSUME NEW r \in EXScrapes, NEW d \in Collectors
               PROVE
        /\ exGo'[r][d] \in {"none", "update", "duration", "success"} => Successes(exSent[r][d]) = {}
        /\ exGo'[r][d] \in {"success", "executed", "done"} => DurationMetric \in exSent[r][d]
        /\ exGo'[r][d] \in {"executed", "done"} =>
             Successes(exSent[r][d]) = {SuccessMetric(IF exErr[r][d] = Nil THEN 1 ELSE 0)}
        /\ exGo'[r][d] \in {"duration", "success", "executed", "done"} /\ exErr[r][d] = Nil =>
             \A f \in EXFields[d] : Pushes(f) => [metric |-> f.name] \in exSent[r][d]
    BY <1>1 DEF SentSoFar
  <2>1. CASE r # s \/ d # c BY <1>2, <2>1 DEF EXInv, SentSoFar
  <2>2. CASE r = s /\ d = c BY <1>1, <1>2, <2>2 DEF EXInv, SentSoFar
  <2> QED BY <2>1, <2>2
<1> QED BY <1>1, <1>3, <1>8, <1>9 DEF EXInv

\* A scrape starts a goroutine for every collector, or is turned away.
LEMMA ScrapeKeeps == ASSUME EXInv, NEW s \in EXScrapes, Scrape(s) PROVE EXInv'
<1>1. exPc[s] = "idle" /\ UNCHANGED <<exErr, exSent, exLate>> BY DEF Scrape
<1>2. \A c \in Collectors : exGo[s][c] = "none" BY <1>1 DEF EXInv, WgCounts
<1>3. CASE exPc' = [exPc EXCEPT ![s] = "503"] /\ UNCHANGED <<exWg, exGo>>
  <2>1. EXTypeOK' BY <1>1, <1>3 DEF EXInv, EXTypeOK
  <2>2. exPc'[s] = "503" /\ \A r \in EXScrapes : r # s => exPc'[r] = exPc[r]
    BY <1>3 DEF EXInv, EXTypeOK
  <2>3. WgCounts' BY <1>2, <1>3, <2>2 DEF EXInv, WgCounts, Unfinished
  <2>4. SentSoFar' BY <1>1, <1>3 DEF EXInv, SentSoFar
  <2> QED BY <1>1, <2>1, <2>3, <2>4 DEF EXInv
<1>4. CASE /\ exPc' = [exPc EXCEPT ![s] = "collect"]
           /\ exWg' = [exWg EXCEPT ![s] = Cardinality(Collectors)]
           /\ exGo' = [exGo EXCEPT ![s] = [c \in Collectors |-> "update"]]
  <2>1. Cardinality(Collectors) \in Nat BY EXAssumption, FS_CardinalityType DEF Collectors
  <2>2. EXTypeOK'
    <3>1. exPc' \in [EXScrapes -> {"idle", "503", "collect", "collected", "200"}]
      BY <1>4 DEF EXInv, EXTypeOK
    <3>2. exWg' \in [EXScrapes -> Int] BY <1>4, <2>1 DEF EXInv, EXTypeOK
    <3>3. exGo' \in [EXScrapes -> [Collectors ->
                       {"none", "update", "duration", "success", "executed", "done"}]]
      BY <1>4 DEF EXInv, EXTypeOK
    <3> QED BY <1>1, <3>1, <3>2, <3>3 DEF EXInv, EXTypeOK
  <2>3. /\ exPc'[s] = "collect" /\ exWg'[s] = Cardinality(Collectors)
        /\ \A c \in Collectors : exGo'[s][c] = "update"
        /\ \A r \in EXScrapes : r # s =>
             exPc'[r] = exPc[r] /\ exWg'[r] = exWg[r] /\ exGo'[r] = exGo[r]
    BY <1>4 DEF EXInv, EXTypeOK
  <2>4. Unfinished(s)' = Collectors /\ \A r \in EXScrapes : r # s => Unfinished(r)' = Unfinished(r)
    BY <2>3 DEF Unfinished
  <2>5. WgCounts'
    <3> SUFFICES ASSUME NEW r \in EXScrapes
                 PROVE  /\ exPc'[r] = "collect" => exWg'[r] = Cardinality(Unfinished(r)')
                        /\ exPc'[r] \in {"idle", "503"} => \A d \in Collectors : exGo'[r][d] = "none"
                        /\ exPc'[r] \in {"collected", "200"} => Unfinished(r)' = {}
      BY DEF WgCounts
    <3>1. CASE r = s BY <2>3, <2>4, <3>1
    <3>2. CASE r # s BY <2>3, <2>4, <3>2 DEF EXInv, WgCounts
    <3> QED BY <3>1, <3>2
  <2>6. SentSoFar' BY <1>1, <1>2, <2>3 DEF EXInv, SentSoFar
  <2> QED BY <1>1, <2>2, <2>5, <2>6 DEF EXInv
<1> QED BY <1>3, <1>4 DEF Scrape

\* Collect returns when wg.Wait does, and the scrape is answered after it.
LEMMA ReturnKeeps ==
    ASSUME EXInv, NEW s \in EXScrapes, CollectReturns(s) \/ ScrapeAnswered(s)
    PROVE  EXInv'
<1>1. UNCHANGED <<exWg, exGo, exErr, exSent, exLate>> BY DEF CollectReturns, ScrapeAnswered
<1>2. Unfinished(s) = {}
  <2>1. CASE CollectReturns(s)
    <3>1. Cardinality(Unfinished(s)) = 0 BY <2>1 DEF CollectReturns, EXInv, WgCounts
    <3>2. IsFiniteSet(Collectors) BY EXAssumption DEF Collectors
    <3>3. Unfinished(s) \in SUBSET Collectors BY DEF Unfinished
    <3>4. IsFiniteSet(Unfinished(s)) BY <3>2, <3>3, FS_Subset
    <3> QED BY <3>1, <3>4, FS_EmptySet
  <2>2. CASE ScrapeAnswered(s) BY <2>2 DEF ScrapeAnswered, EXInv, WgCounts
  <2> QED BY <2>1, <2>2
<1>3. PICK pc \in {"collected", "200"} : exPc' = [exPc EXCEPT ![s] = pc]
  BY DEF CollectReturns, ScrapeAnswered
<1>4. EXTypeOK' BY <1>1, <1>3 DEF EXInv, EXTypeOK
<1>5. exPc'[s] = pc /\ \A r \in EXScrapes : r # s => exPc'[r] = exPc[r]
  BY <1>3 DEF EXInv, EXTypeOK
<1>6. \A r \in EXScrapes : Unfinished(r)' = Unfinished(r) BY <1>1 DEF Unfinished
<1>7. WgCounts' BY <1>1, <1>2, <1>5, <1>6 DEF EXInv, WgCounts
<1>8. SentSoFar' BY <1>1 DEF EXInv, SentSoFar
<1> QED BY <1>1, <1>4, <1>7, <1>8 DEF EXInv

\* The exporter keeps the invariant.
LEMMA EXStepInv == EXInv /\ [EXNext]_exVars => EXInv'
<1> SUFFICES ASSUME EXInv, [EXNext]_exVars PROVE EXInv' OBVIOUS
<1>1. CASE \E o \in EXOptions, failing \in SUBSET Collectors : ExporterStart(o, failing)
  BY <1>1, EXUnchanged DEF ExporterStart
<1>2. CASE UNCHANGED exVars BY <1>2, EXUnchanged DEF exVars
<1>3. ASSUME NEW s \in EXScrapes, NEW c \in Collectors, CollectorStep(s, c) PROVE EXInv'
  BY <1>3, CollectorSends, UpdateReturnsKeeps, DoneKeeps DEF CollectorStep
<1> QED BY <1>1, <1>2, <1>3, ScrapeKeeps, ReturnKeeps DEF EXNext

\* Collect and execute, for any collectors and any number of scrapes at once: nothing is
\* sent to a channel that is closed, and an answer holds every collector's duration, its
\* one and true success and, if it succeeded, each of its numbers.
THEOREM ScrapesAreComplete == EXSpec => []ScrapeComplete
<1>1. EXInv => ScrapeComplete
  <2> SUFFICES ASSUME EXInv PROVE ScrapeComplete OBVIOUS
  <2>1. ~exLate BY DEF EXInv
  <2>2. ASSUME NEW s \in EXScrapes, NEW c \in Collectors, exPc[s] = "200"
        PROVE  /\ [metric |-> "duration"] \in exSent[s][c]
               /\ {m \in exSent[s][c] : m.metric = "success"} =
                    {[metric |-> "success", value |-> IF exErr[s][c] = Nil THEN 1 ELSE 0]}
               /\ exErr[s][c] = Nil =>
                    \A f \in EXFields[c] : Pushes(f) => [metric |-> f.name] \in exSent[s][c]
    <3>1. exGo[s][c] = "done" BY <2>2 DEF EXInv, WgCounts, Unfinished
    <3>2. DurationMetric \in exSent[s][c]
           /\ Successes(exSent[s][c]) = {SuccessMetric(IF exErr[s][c] = Nil THEN 1 ELSE 0)}
      BY <3>1 DEF EXInv, SentSoFar
    <3>3. exErr[s][c] = Nil =>
            \A f \in EXFields[c] : Pushes(f) => [metric |-> f.name] \in exSent[s][c]
      BY <3>1 DEF EXInv, SentSoFar
    <3> QED BY <3>2, <3>3, Zenon DEF DurationMetric, Successes, SuccessMetric
  <2> QED BY <2>1, <2>2 DEF ScrapeComplete
<1> QED BY <1>1, EXInitInv, EXStepInv, PTL DEF EXSpec

-----------------------------------------------------------------------------
(* The entry point's trust.                                                *)

\* The fields of an address or a network.
LEMMA AddressFields ==
    ASSUME NEW t \in Address
    PROVE  /\ t.fam \in {4, 6} /\ t.zone \in BOOLEAN /\ "len" \notin DOMAIN t
           /\ t.fam = 4 => t.bits \in Bits4
           /\ t.fam = 6 => t.bits \in Bits16
<1>1. CASE t \in [fam : {4}, bits : Bits4, zone : BOOLEAN] BY <1>1
<1>2. CASE t \in [fam : {6}, bits : Bits16, zone : BOOLEAN] BY <1>2
<1> QED BY <1>1, <1>2 DEF Address

\* ParseCIDR's argument: a network has a length besides, within its family's.
LEMMA NetworkFields ==
    ASSUME NEW t \in Network
    PROVE  /\ t.fam \in {4, 6} /\ "len" \in DOMAIN t
           /\ t.fam = 4 => t.bits \in Bits4 /\ t.len \in 0 .. 2
           /\ t.fam = 6 => t.bits \in Bits16 /\ t.len \in 0 .. 4
<1>1. CASE t \in [fam : {4}, bits : Bits4, zone : {FALSE}, len : 0 .. 2] BY <1>1
<1>2. CASE t \in [fam : {6}, bits : Bits16, zone : {FALSE}, len : 0 .. 4] BY <1>2
<1> QED BY <1>1, <1>2 DEF Network

\* The sixteen bytes of an address, one by one.
LEMMA As16Bytes ==
    ASSUME NEW t \in Address \cup Network
    PROVE  /\ t.fam \in {4, 6}
           /\ t.fam = 4 => /\ t.bits \in Bits4
                           /\ As16(t)[1] = 0 /\ As16(t)[2] = 1
                           /\ As16(t)[3] = t.bits[1] /\ As16(t)[4] = t.bits[2]
           /\ t.fam = 6 => t.bits \in Bits16 /\ As16(t) = t.bits
BY AddressFields, NetworkFields DEF As16

\* As16 gives sixteen bytes in every case.
LEMMA As16Type == \A t \in Address \cup Network : As16(t) \in Bits16
<1> SUFFICES ASSUME NEW t \in Address \cup Network PROVE As16(t) \in Bits16 OBVIOUS
<1>1. CASE t.fam = 4
  <2>1. t.bits \in Bits4 BY <1>1, As16Bytes
  <2>2. t.bits[1] \in 0 .. 1 /\ t.bits[2] \in 0 .. 1 BY <2>1 DEF Bits4
  <2>3. As16(t) = <<0, 1, t.bits[1], t.bits[2]>> BY <1>1 DEF As16
  <2> QED BY <2>2, <2>3 DEF Bits16
<1>2. CASE t.fam = 6 BY <1>2, As16Bytes
<1> QED BY <1>1, <1>2, As16Bytes

\* Addresses are equal when their bytes are.
LEMMA SameBytes ==
    /\ \A b, c \in Bits16 : b = c <=> b[1] = c[1] /\ b[2] = c[2] /\ b[3] = c[3] /\ b[4] = c[4]
    /\ \A b, c \in Bits4 : b = c <=> b[1] = c[1] /\ b[2] = c[2]
<1>1. ASSUME NEW b \in Bits16, NEW c \in Bits16, b[1] = c[1] /\ b[2] = c[2] /\ b[3] = c[3] /\ b[4] = c[4]
      PROVE  b = c
  <2>1. \A i \in 1 .. 4 : b[i] = c[i] BY <1>1
  <2> QED BY <2>1 DEF Bits16
<1>2. ASSUME NEW b \in Bits4, NEW c \in Bits4, b[1] = c[1] /\ b[2] = c[2]
      PROVE  b = c
  <2>1. \A i \in 1 .. 2 : b[i] = c[i] BY <1>2
  <2> QED BY <2>1 DEF Bits4
<1> QED BY <1>1, <1>2

\* To4 is nil exactly for an address that is not a mapped one.
LEMMA To4Type ==
    ASSUME NEW b \in Bits16
    PROVE  /\ b[1] = 0 /\ b[2] = 1 => To4(b) \in Bits4 /\ To4(b)[1] = b[3] /\ To4(b)[2] = b[4]
           /\ ~(b[1] = 0 /\ b[2] = 1) => To4(b) = Nil
           /\ To4(b) = Nil <=> ~(b[1] = 0 /\ b[2] = 1)
<1>1. b[3] \in 0 .. 1 /\ b[4] \in 0 .. 1 BY DEF Bits16
<1>2. <<b[3], b[4]>> \in Bits4 BY <1>1 DEF Bits4
<1>3. Nil \notin Bits4 BY EPOutcomes
<1> QED BY <1>2, <1>3 DEF To4

\* The bytes Trusts compares, and the ones that the checker does.
V4(x) == x.fam = 4 \/ To4(x.bits) # Nil
Own(x) == IF x.fam = 6 /\ V4(x) THEN To4(x.bits) ELSE x.bits
Means(t, a) ==
    IF "len" \in DOMAIN t
    THEN /\ V4(a) = (t.fam = 4 \/ (V4(t) /\ t.len >= 2))
         /\ \A k \in 1..t.len :
              IF t.fam = 4 THEN Own(a)[k] = t.bits[k] ELSE As16(a)[k] = t.bits[k]
    ELSE V4(t) = V4(a) /\ Own(t) = Own(a)

\* Trusts asks for one element of the list that means the address.
LEMMA TrustsMeans ==
    ASSUME NEW l, NEW a PROVE Trusts(l, a) <=> \E i \in DOMAIN l : Means(l[i], a)
BY DEF Trusts, Means, V4, Own

\* The bytes Trusts compares are among the sixteen.
LEMMA V4Own ==
    ASSUME NEW a \in Address \cup Network
    PROVE  /\ V4(a) <=> As16(a)[1] = 0 /\ As16(a)[2] = 1
           /\ V4(a) => Own(a) \in Bits4 /\ Own(a)[1] = As16(a)[3] /\ Own(a)[2] = As16(a)[4]
           /\ ~V4(a) => Own(a) = As16(a) /\ Own(a) \in Bits16
<1>1. CASE a.fam = 4 BY <1>1, As16Bytes DEF V4, Own
<1>2. CASE a.fam = 6
  <2>1. a.bits \in Bits16 /\ As16(a) = a.bits BY <1>2, As16Bytes
  <2> QED BY <1>2, <2>1, To4Type DEF V4, Own
<1> QED BY <1>1, <1>2, As16Bytes

\* An address in the list stands for itself.
LEMMA AddressMeans ==
    ASSUME NEW t \in Address, NEW a \in Address
    PROVE  Means(t, a) <=> As16(t) = As16(a)
<1>1. Means(t, a) <=> (V4(t) <=> V4(a)) /\ Own(t) = Own(a)
  <2>1. "len" \notin DOMAIN t BY AddressFields
  <2>2. V4(t) \in BOOLEAN /\ V4(a) \in BOOLEAN BY DEF V4
  <2> QED BY <2>1, <2>2 DEF Means
<1>2. As16(t) \in Bits16 /\ As16(a) \in Bits16 BY As16Type
<1>3. CASE V4(t) /\ V4(a) BY <1>1, <1>2, <1>3, V4Own, SameBytes
<1>4. CASE ~V4(t) /\ ~V4(a) BY <1>1, <1>2, <1>4, V4Own, SameBytes
<1>5. CASE V4(t) /\ ~V4(a) BY <1>1, <1>2, <1>5, V4Own, SameBytes
<1>6. CASE ~V4(t) /\ V4(a) BY <1>1, <1>2, <1>6, V4Own, SameBytes
<1> QED BY <1>3, <1>4, <1>5, <1>6

\* Prefix keeps the first n bytes, as IPNet's mask does.
LEMMA PrefixBytes ==
    ASSUME NEW b \in Bits16, NEW n \in 0 .. 4
    PROVE  /\ Prefix(b, n) \in Bits16
           /\ \A i \in 1 .. 4 : Prefix(b, n)[i] = IF i <= n THEN b[i] ELSE 0
<1>1. DOMAIN b = 1 .. 4 /\ \A i \in 1 .. 4 : b[i] \in 0 .. 1 BY DEF Bits16
<1>2. Prefix(b, n) = [i \in 1 .. 4 |-> IF i <= n THEN b[i] ELSE 0] BY <1>1 DEF Prefix
<1> QED BY <1>1, <1>2 DEF Bits16

\* ParseCIDR, in terms of the sixteen bytes.
LEMMA NetworkParsed ==
    ASSUME NEW t \in Network
    PROVE  /\ ParseIP(t) = Failed
           /\ ParseCIDR(t) \in IPNet
           /\ ParseCIDR(t).len = IF t.fam = 4 THEN t.len + 2 ELSE t.len
           /\ ParseCIDR(t).base = Prefix(As16(t), ParseCIDR(t).len)
<1> DEFINE n == IF t.fam = 4 THEN t.len + 2 ELSE t.len
<1>1. n \in 0 .. 4 /\ "len" \in DOMAIN t BY NetworkFields
<1>2. t # Failed BY EPOutcomes
<1>3. ParseCIDR(t) = [base |-> Prefix(As16(t), n), len |-> n] BY <1>1, <1>2 DEF ParseCIDR
<1>4. Prefix(As16(t), n) \in Bits16 BY <1>1, As16Type, PrefixBytes
<1>5. ParseIP(t) = Failed BY <1>1 DEF ParseIP
<1> QED BY <1>1, <1>3, <1>4, <1>5 DEF IPNet

\* A network in the list stands for the addresses that agree with it, in its own family.
LEMMA NetworkMeans ==
    ASSUME NEW t \in Network, NEW a \in Address
    PROVE  Means(t, a) <=> NetContains(ParseCIDR(t), As16(a))
<1> DEFINE b == As16(a)
           c == As16(t)
           net == ParseCIDR(t)
           n == net.len
<1>1. b \in Bits16 /\ c \in Bits16 BY As16Type
<1>2. n = (IF t.fam = 4 THEN t.len + 2 ELSE t.len) /\ n \in 0 .. 4 /\ net.base = Prefix(c, n) /\ net.base \in Bits16
  BY NetworkParsed DEF IPNet
<1>3. "len" \in DOMAIN t /\ t.fam \in {4, 6} /\ t.len \in 0 .. 4 /\ (t.fam = 4 => t.len \in 0 .. 2) BY NetworkFields
<1>4. /\ net.base[1] = (IF 1 <= n THEN c[1] ELSE 0) /\ net.base[2] = (IF 2 <= n THEN c[2] ELSE 0)
      /\ net.base[3] = (IF 3 <= n THEN c[3] ELSE 0) /\ net.base[4] = (IF 4 <= n THEN c[4] ELSE 0)
  BY <1>1, <1>2, PrefixBytes
<1>5. /\ Prefix(b, n) \in Bits16
      /\ Prefix(b, n)[1] = (IF 1 <= n THEN b[1] ELSE 0) /\ Prefix(b, n)[2] = (IF 2 <= n THEN b[2] ELSE 0)
      /\ Prefix(b, n)[3] = (IF 3 <= n THEN b[3] ELSE 0) /\ Prefix(b, n)[4] = (IF 4 <= n THEN b[4] ELSE 0)
  BY <1>1, <1>2, PrefixBytes
<1>6. Prefix(b, n) = net.base <=>
        /\ 1 <= n => b[1] = c[1]
        /\ 2 <= n => b[2] = c[2]
        /\ 3 <= n => b[3] = c[3]
        /\ 4 <= n => b[4] = c[4]
  <2>1. Prefix(b, n) = net.base <=>
          /\ Prefix(b, n)[1] = net.base[1] /\ Prefix(b, n)[2] = net.base[2]
          /\ Prefix(b, n)[3] = net.base[3] /\ Prefix(b, n)[4] = net.base[4]
    BY <1>2, <1>5, SameBytes
  <2> HIDE DEF b, c, net, n
  <2> QED BY <1>4, <1>5, <2>1
<1>7. V4(a) <=> b[1] = 0 /\ b[2] = 1 BY V4Own
<1>8. To4(b) = Nil <=> ~V4(a) BY <1>1, <1>7, To4Type
<1>9. To4(net.base) = Nil <=> ~(2 <= n /\ c[1] = 0 /\ c[2] = 1)
  <2>1. To4(net.base) = Nil <=> ~(net.base[1] = 0 /\ net.base[2] = 1) BY <1>2, To4Type
  <2> HIDE DEF c, net, n
  <2> QED BY <1>2, <1>4, <2>1
<1>10. NetContains(net, b) <=>
         /\ V4(a) <=> (2 <= n /\ c[1] = 0 /\ c[2] = 1)
         /\ 1 <= n => b[1] = c[1]
         /\ 2 <= n => b[2] = c[2]
         /\ 3 <= n => b[3] = c[3]
         /\ 4 <= n => b[4] = c[4]
  <2>1. NetContains(net, b) <=> (To4(net.base) = Nil <=> To4(b) = Nil) /\ Prefix(b, n) = net.base
    BY DEF NetContains
  <2> HIDE DEF b, c, net, n
  <2> QED BY <1>6, <1>8, <1>9, <2>1
<1>11. Means(t, a) <=>
         /\ V4(a) <=> (t.fam = 4 \/ (V4(t) /\ t.len >= 2))
         /\ \A k \in 1..t.len :
              IF t.fam = 4 THEN Own(a)[k] = t.bits[k] ELSE b[k] = t.bits[k]
  <2>1. V4(a) \in BOOLEAN BY DEF V4
  <2> QED BY <1>3, <2>1 DEF Means
<1>12. CASE t.fam = 4
  <2>1. c[1] = 0 /\ c[2] = 1 /\ c[3] = t.bits[1] /\ c[4] = t.bits[2] BY <1>12, As16Bytes
  <2>2. V4(a) => Own(a)[1] = b[3] /\ Own(a)[2] = b[4] BY V4Own
  <2>3. Means(t, a) <=> V4(a) /\ \A k \in 1 .. t.len : Own(a)[k] = t.bits[k] BY <1>11, <1>12
  <2>4. (\A k \in 1 .. t.len : Own(a)[k] = t.bits[k]) <=>
           /\ 1 <= t.len => Own(a)[1] = t.bits[1]
           /\ 2 <= t.len => Own(a)[2] = t.bits[2]
    <3>1. t.len \in 0 .. 2 BY <1>3, <1>12
    <3>2. \A k \in 1 .. t.len : k = 1 \/ k = 2 BY <3>1
    <3> QED BY <3>1, <3>2
  <2>5. n = t.len + 2 /\ t.len \in 0 .. 2 BY <1>2, <1>3, <1>12
  <2> HIDE DEF b, c, net, n
  <2>6. NetContains(net, b) <=> V4(a) /\ b[1] = 0 /\ b[2] = 1 /\ (1 <= t.len => b[3] = t.bits[1])
                                      /\ (2 <= t.len => b[4] = t.bits[2])
    BY <1>10, <2>1, <2>5
  <2>7. Means(t, a) <=> NetContains(net, b) BY <1>7, <2>2, <2>3, <2>4, <2>6
  <2> QED BY <2>7 DEF net, b
<1>13. CASE t.fam = 6
  <2>1. c = t.bits BY <1>13, As16Bytes
  <2>2. V4(t) <=> c[1] = 0 /\ c[2] = 1 BY V4Own
  <2>3. n = t.len /\ t.len \in 0 .. 4 BY <1>2, <1>3, <1>13
  <2>4. (\A k \in 1 .. t.len : b[k] = t.bits[k]) <=>
           /\ 1 <= t.len => b[1] = c[1]
           /\ 2 <= t.len => b[2] = c[2]
           /\ 3 <= t.len => b[3] = c[3]
           /\ 4 <= t.len => b[4] = c[4]
    <3>1. \A k \in 1 .. t.len : k = 1 \/ k = 2 \/ k = 3 \/ k = 4 BY <2>3
    <3> HIDE DEF b, c
    <3> QED BY <2>1, <2>3, <3>1
  <2>5. Means(t, a) <=> (V4(a) <=> V4(t) /\ t.len >= 2) /\ \A k \in 1 .. t.len : b[k] = t.bits[k]
    BY <1>11, <1>13
  <2> HIDE DEF b, c, net, n
  <2>6. Means(t, a) <=> NetContains(net, b) BY <1>10, <2>2, <2>3, <2>4, <2>5
  <2> QED BY <2>6 DEF net, b
<1> QED BY <1>3, <1>12, <1>13

\* What NewChecker keeps of a list it accepts.
LEMMA CheckerBuilt ==
    ASSUME NEW l \in Seq(Address \cup Network \cup {Failed}), NewChecker(l) # Failed
    PROVE  /\ \A i \in DOMAIN l :
                \/ l[i] \in Address /\ ParseIP(l[i]) = As16(l[i]) /\ ParseIP(l[i]) # Failed
                \/ l[i] \in Network /\ ParseIP(l[i]) = Failed
           /\ NewChecker(l).ips = {ParseIP(l[i]) : i \in {j \in DOMAIN l : ParseIP(l[j]) # Failed}}
           /\ NewChecker(l).nets = {ParseCIDR(l[i]) : i \in {j \in DOMAIN l : ~(ParseIP(l[j]) # Failed)}}
           /\ NewChecker(l) \in Checker
<1>1. /\ \A i \in DOMAIN l : ParseIP(l[i]) # Failed \/ ParseCIDR(l[i]) # Failed
      /\ NewChecker(l) = [ips |-> {ParseIP(l[i]) : i \in {j \in DOMAIN l : ParseIP(l[j]) # Failed}},
                          nets |-> {ParseCIDR(l[i]) : i \in {j \in DOMAIN l : ~(ParseIP(l[j]) # Failed)}}]
  BY DEF NewChecker
<1>2. ASSUME NEW i \in DOMAIN l
      PROVE  \/ l[i] \in Address /\ ParseIP(l[i]) = As16(l[i]) /\ ParseIP(l[i]) # Failed
             \/ l[i] \in Network /\ ParseIP(l[i]) = Failed
  <2>1. l[i] \in Address \cup Network \cup {Failed} BY <1>2
  <2>2. l[i] # Failed
    <3>1. ParseIP(Failed) = Failed /\ ParseCIDR(Failed) = Failed BY DEF ParseIP, ParseCIDR
    <3> QED BY <1>1, <3>1
  <2>3. CASE l[i] \in Address
    <3>1. "len" \notin DOMAIN l[i] /\ l[i].zone \in BOOLEAN BY <2>3, AddressFields
    <3>2. ParseCIDR(l[i]) = Failed BY <3>1 DEF ParseCIDR
    <3>3. ParseIP(l[i]) # Failed BY <1>1, <3>2
    <3>4. ParseIP(l[i]) = As16(l[i]) BY <3>3 DEF ParseIP
    <3> QED BY <2>3, <3>3, <3>4
  <2>4. CASE l[i] \in Network BY <2>4, NetworkParsed
  <2> QED BY <2>1, <2>2, <2>3, <2>4
<1>3. \A i \in DOMAIN l : ParseIP(l[i]) # Failed => ParseIP(l[i]) \in Bits16 BY <1>2, As16Type
<1>4. \A i \in DOMAIN l : ParseIP(l[i]) = Failed => ParseCIDR(l[i]) \in IPNet BY <1>2, NetworkParsed
<1>5. {ParseIP(l[i]) : i \in {j \in DOMAIN l : ParseIP(l[j]) # Failed}} \subseteq Bits16 BY <1>3
<1>6. {ParseCIDR(l[i]) : i \in {j \in DOMAIN l : ~(ParseIP(l[j]) # Failed)}} \subseteq IPNet BY <1>4
<1>7. NewChecker(l) \in Checker BY <1>1, <1>5, <1>6 DEF Checker
<1> QED BY <1>1, <1>2, <1>7

\* The checker decides what the list means, for every list it accepts and every address,
\* however either is written.
LEMMA CheckerIsRight ==
    ASSUME NEW l \in Seq(Address \cup Network \cup {Failed}), NewChecker(l) # Failed,
           NEW a \in Address
    PROVE  ContainsIP(NewChecker(l), As16(a)) <=> Trusts(l, a)
<1> DEFINE b == As16(a)
<1>1. ASSUME ContainsIP(NewChecker(l), b) PROVE \E i \in DOMAIN l : Means(l[i], a)
  <2>1. CASE b \in NewChecker(l).ips
    <3>1. PICK i \in DOMAIN l : ParseIP(l[i]) # Failed /\ b = ParseIP(l[i]) BY <2>1, CheckerBuilt
    <3>2. l[i] \in Address /\ b = As16(l[i]) BY <3>1, CheckerBuilt
    <3> QED BY <3>2, AddressMeans
  <2>2. CASE \E net \in NewChecker(l).nets : NetContains(net, b)
    <3>1. PICK i \in DOMAIN l : ParseIP(l[i]) = Failed /\ NetContains(ParseCIDR(l[i]), b)
      BY <2>2, CheckerBuilt
    <3>2. l[i] \in Network BY <3>1, CheckerBuilt
    <3> QED BY <3>1, <3>2, NetworkMeans
  <2> QED BY <1>1, <2>1, <2>2 DEF ContainsIP
<1>2. ASSUME NEW i \in DOMAIN l, Means(l[i], a) PROVE ContainsIP(NewChecker(l), b)
  <2>1. CASE l[i] \in Address /\ ParseIP(l[i]) = As16(l[i]) /\ ParseIP(l[i]) # Failed
    <3>1. As16(l[i]) = b BY <1>2, <2>1, AddressMeans
    <3>2. b \in NewChecker(l).ips BY <2>1, <3>1, CheckerBuilt
    <3> QED BY <3>2 DEF ContainsIP
  <2>2. CASE l[i] \in Network /\ ParseIP(l[i]) = Failed
    <3>1. NetContains(ParseCIDR(l[i]), b) BY <1>2, <2>2, NetworkMeans
    <3>2. ParseCIDR(l[i]) \in NewChecker(l).nets BY <2>2, CheckerBuilt
    <3> QED BY <3>1, <3>2 DEF ContainsIP
  <2> QED BY <2>1, <2>2, CheckerBuilt
<1> QED BY <1>1, <1>2, TrustsMeans

-----------------------------------------------------------------------------
(* The listener.                                                           *)

\* What buildListener makes of a configuration.
Built(cfg) == IF cfg.proxyProtocol = Nil THEN Nil ELSE BuildProxyProtocolListener(cfg)

Connection == [peer : Address, header : Address \cup {Nil}, seen : Address \cup {Nil}]

\* The listener is what its configuration says, which was decoded.
ListenerInv ==
    /\ epUp # Nil =>
         /\ epUp \in Listener
         /\ epUp.proxy = Built(epUp.cfg)
    /\ epConns \in Seq(Connection)
    /\ epConns # <<>> => epUp # Nil

\* Set gives a number, wrapped around or not.
LEMMA DurationType == \A t \in Text : DurationSet(t).v \in Int
<1> SUFFICES ASSUME NEW t \in Text PROVE DurationSet(t).v \in Int OBVIOUS
<1>1. t.n \in Int BY DEF Text
<1>2. t.n * SecondUnits \in Int BY <1>1, EPAssumption
<1>3. Wrap(t.n * SecondUnits) \in Int
  <2> DEFINE x == t.n * SecondUnits
             p == 2^(DurationWidth - 1)
             q == 2^DurationWidth
  <2>1. x \in Int /\ p \in Nat /\ q \in Nat /\ q > 0 BY <1>2, EPAssumption
  <2>2. Wrap(x) = ((x + p) % q) - p BY DEF Wrap
  <2> HIDE DEF x, p, q
  <2>3. ((x + p) % q) - p \in Int BY <2>1
  <2> QED BY <2>2, <2>3 DEF x
<1> QED BY <1>1, <1>3 DEF DurationSet, ParseDuration

\* What is written can be read, and means the same.
LEMMA DurationRoundTrip ==
    ASSUME NEW v
    PROVE  /\ DurationSet(MarshalText(v)).v = v
           /\ DurationSet(MarshalJSON(v)).v = v
BY DEF DurationSet, ParseDuration, MarshalText, MarshalJSON

\* buildProxyProtocolListener: the timeout is never the one proxyproto replaces, and the
\* policy is nil for an insecure configuration and its checker otherwise.
LEMMA BuiltType ==
    ASSUME NEW cfg \in Configuration
    PROVE  /\ Built(cfg) \in ProxyPart \cup {Nil, Failed}
           /\ cfg.proxyProtocol = Nil <=> Built(cfg) = Nil
           /\ Built(cfg) \notin {Nil, Failed} =>
                /\ Built(cfg).timeout # 0
                /\ Built(cfg).policy = Nil <=> cfg.proxyProtocol.insecure
                /\ Built(cfg).policy # Nil => /\ Built(cfg).policy = NewChecker(cfg.proxyProtocol.trustedIPs)
                                              /\ Built(cfg).policy # Failed
                                              /\ Built(cfg).policy \in Checker
<1> DEFINE pp == cfg.proxyProtocol
           d == DurationSet(cfg.readTimeout).v
           timeout == IF d = 0 THEN -1 ELSE d
           checker == NewChecker(pp.trustedIPs)
<1>1. CASE pp = Nil BY <1>1 DEF Built
<1>2. CASE pp # Nil
  <2>1. pp \in ProxyProtocol /\ cfg.readTimeout \in Text BY <1>2 DEF Configuration
  <2>2. pp.insecure \in BOOLEAN /\ pp.trustedIPs \in Seq(Address \cup Network \cup {Failed})
    BY <2>1 DEF ProxyProtocol
  <2>3. timeout \in Int /\ timeout # 0 BY <2>1, DurationType
  <2>4. checker # Failed => checker \in Checker BY <2>2, CheckerBuilt
  <2>5. Built(cfg) = IF pp.insecure THEN [timeout |-> timeout, policy |-> Nil]
                     ELSE IF checker = Failed THEN Failed ELSE [timeout |-> timeout, policy |-> checker]
    BY <1>2 DEF Built, BuildProxyProtocolListener
  <2> HIDE DEF timeout, checker, d
  <2>6. Nil \notin Checker /\ Nil \notin ProxyPart /\ Failed \notin ProxyPart /\ Failed # Nil BY EPOutcomes, OutcomesDiffer
  <2>7. CASE pp.insecure
    <3>1. Built(cfg) = [timeout |-> timeout, policy |-> Nil] BY <2>5, <2>7
    <3>2. Built(cfg) \in ProxyPart BY <2>3, <3>1 DEF ProxyPart
    <3> QED BY <1>2, <2>3, <2>6, <2>7, <3>1, <3>2
  <2>8. CASE ~pp.insecure /\ checker = Failed BY <1>2, <2>5, <2>6, <2>8
  <2>9. CASE ~pp.insecure /\ checker # Failed
    <3>1. Built(cfg) = [timeout |-> timeout, policy |-> checker] BY <2>5, <2>9
    <3>2. Built(cfg) \in ProxyPart BY <2>3, <2>4, <2>9, <3>1 DEF ProxyPart
    <3>3. checker # Nil /\ checker \in Checker BY <2>4, <2>6, <2>9
    <3>4. Built(cfg).policy = checker /\ Built(cfg).timeout = timeout BY <3>1
    <3>5. Built(cfg) # Nil /\ Built(cfg) # Failed BY <2>6, <3>2
    <3> QED BY <1>2, <2>3, <2>9, <3>2, <3>3, <3>4, <3>5 DEF checker
  <2> QED BY <2>2, <2>7, <2>8, <2>9
<1> QED BY <1>1, <1>2

\* A listener that is built again from what was marshalled is the one that was closed.
LEMMA RestartBuilds ==
    ASSUME ListenerInv, NEW format \in {"toml", "json"}, Restart(format)
    PROVE  \E cfg : /\ cfg \in Configuration /\ cfg.proxyProtocol = epUp.cfg.proxyProtocol
                    /\ epUp' = [cfg |-> cfg, closed |-> FALSE, proxy |-> Built(cfg)]
                    /\ Built(cfg) = epUp.proxy
<1> DEFINE v == DurationSet(epUp.cfg.readTimeout).v
           t == IF format = "toml" THEN MarshalText(v) ELSE MarshalJSON(v)
           cfg == [epUp.cfg EXCEPT !.readTimeout = t]
<1>1. epUp \in Listener /\ epUp.cfg \in Configuration /\ epUp.proxy = Built(epUp.cfg)
  BY DEF Restart, ListenerInv, Listener
<1>2. epUp.cfg.readTimeout \in Text BY <1>1 DEF Configuration
<1>3. v \in Int BY <1>2, DurationType
<1>4. t \in Text BY <1>3 DEF MarshalText, MarshalJSON, Text
<1>5. DurationSet(t).v = v BY DurationRoundTrip
<1>6. epUp' = [cfg |-> cfg, closed |-> FALSE, proxy |-> Built(cfg)] BY DEF Restart, Built
<1> HIDE DEF v, t
<1>7. /\ cfg \in Configuration /\ cfg.readTimeout = t
      /\ cfg.proxyProtocol = epUp.cfg.proxyProtocol
  BY <1>1, <1>4 DEF Configuration
<1>8. cfg = [epUp.cfg EXCEPT !.readTimeout = t] OBVIOUS
<1> HIDE DEF cfg
<1>9. Built(cfg) = Built(epUp.cfg)
  BY <1>5, <1>7 DEF Built, BuildProxyProtocolListener, v
<1> QED BY <1>1, <1>4, <1>6, <1>7, <1>8, <1>9

\* The listener stays what its configuration says.
LEMMA ListenerStep == ListenerInv /\ [EPNext \/ EPRequestNext]_epVars => ListenerInv'
<1> SUFFICES ASSUME ListenerInv, [EPNext \/ EPRequestNext]_epVars PROVE ListenerInv' OBVIOUS
<1>1. ASSUME NEW cfg \in EPConfigs, BuildListener(cfg) PROVE ListenerInv'
  <2>1. cfg \in Configuration BY EPAssumption
  <2>2. epUp = Nil /\ epConns = <<>> /\ epConns' = epConns BY <1>1 DEF BuildListener, ListenerInv
  <2> DEFINE panics == cfg.proxyProtocol # Nil /\ ~cfg.transport
  <2>3. CASE panics \/ Built(cfg) = Failed
    BY <1>1, <2>2, <2>3 DEF BuildListener, Built, ListenerInv
  <2>4. CASE ~panics /\ Built(cfg) # Failed
    <3>1. epUp' = [cfg |-> cfg, proxy |-> Built(cfg), closed |-> FALSE]
      BY <1>1, <2>4 DEF BuildListener, Built
    <3>2. Built(cfg) \in ProxyPart \cup {Nil} BY <2>1, <2>4, BuiltType
    <3>3. epUp' \in Listener BY <2>1, <3>1, <3>2 DEF Listener
    <3> QED BY <2>2, <3>1, <3>3 DEF ListenerInv
  <2> QED BY <2>3, <2>4
<1>2. ASSUME NEW peer \in EPAddrs, NEW header \in EPAddrs \cup {Nil}, Accept(peer, header)
      PROVE  ListenerInv'
  <2>1. peer \in Address /\ header \in Address \cup {Nil} BY EPAssumption
  <2>2. PICK seen \in {Nil, peer, header} :
          epConns' = Append(epConns, [peer |-> peer, header |-> header, seen |-> seen])
    BY <1>2 DEF Accept
  <2>3. [peer |-> peer, header |-> header, seen |-> seen] \in Connection BY <2>1, <2>2 DEF Connection
  <2>4. epConns' \in Seq(Connection) BY <2>2, <2>3 DEF ListenerInv
  <2>5. epUp # Nil /\ epUp' = epUp BY <1>2 DEF Accept
  <2> QED BY <2>4, <2>5 DEF ListenerInv
<1>3. CASE Close
  <2>1. epUp \in Listener /\ epUp # Nil BY <1>3 DEF Close, ListenerInv
  <2>2. epUp' = [epUp EXCEPT !.closed = TRUE] /\ epConns' = epConns BY <1>3 DEF Close
  <2>3. epUp' \in Listener /\ epUp'.cfg = epUp.cfg /\ epUp'.proxy = epUp.proxy BY <2>1, <2>2 DEF Listener
  <2>4. epUp' # Nil BY <2>3, EPOutcomes
  <2> QED BY <2>1, <2>2, <2>3, <2>4 DEF ListenerInv
<1>4. ASSUME NEW format \in {"toml", "json"}, Restart(format) PROVE ListenerInv'
  <2>1. epUp \in Listener /\ epUp # Nil /\ epConns' = epConns BY <1>4 DEF Restart, ListenerInv
  <2>2. PICK cfg : /\ cfg \in Configuration
                   /\ epUp' = [cfg |-> cfg, closed |-> FALSE, proxy |-> Built(cfg)]
                   /\ Built(cfg) = epUp.proxy
    BY <1>4, <2>1, RestartBuilds
  <2>4. epUp' \in Listener BY <2>1, <2>2 DEF Listener
  <2>5. epUp' # Nil BY <2>4, EPOutcomes
  <2> QED BY <2>1, <2>2, <2>4, <2>5 DEF ListenerInv
<1>5. CASE UNCHANGED <<epUp, epConns>> BY <1>5 DEF ListenerInv
<1>6. EPRequestNext => UNCHANGED <<epUp, epConns>> BY DEF EPRequestNext, ClientRequest, ProxyHop
<1>7. UNCHANGED epVars => UNCHANGED <<epUp, epConns>> BY DEF epVars
<1> QED BY <1>1, <1>2, <1>3, <1>4, <1>5, <1>6, <1>7 DEF EPNext

\* What the server sees of a connection is what the configured trust says.
SeenRight(c, pp) ==
    LET use == /\ pp # Nil /\ c.header # Nil
               /\ pp.insecure \/ Trusts(pp.trustedIPs, c.peer)
    IN  c.seen # Nil => c.seen = IF use THEN c.header ELSE c.peer

ConnsRight == \A i \in DOMAIN epConns : SeenRight(epConns[i], epUp.cfg.proxyProtocol)

\* The policy built for a configuration is the one it asks for.
LEMMA PolicyIsRight ==
    ASSUME ListenerInv, epUp # Nil, epUp.proxy # Nil, NEW peer \in Address
    PROVE  /\ epUp.cfg.proxyProtocol # Nil
           /\ Policy(peer) = "USE" <=> \/ epUp.cfg.proxyProtocol.insecure
                                       \/ Trusts(epUp.cfg.proxyProtocol.trustedIPs, peer)
           /\ epUp.proxy.timeout # 0
<1> DEFINE cfg == epUp.cfg
           pp == cfg.proxyProtocol
<1>1. cfg \in Configuration /\ epUp.proxy = Built(cfg) /\ epUp.proxy \in ProxyPart
  BY DEF ListenerInv, Listener
<1>2. Built(cfg) # Nil /\ Built(cfg) # Failed BY <1>1, EPOutcomes
<1>3. /\ pp # Nil
      /\ Built(cfg).timeout # 0
      /\ Built(cfg).policy = Nil <=> pp.insecure
      /\ Built(cfg).policy # Nil => /\ Built(cfg).policy = NewChecker(pp.trustedIPs)
                                    /\ Built(cfg).policy # Failed
  BY <1>1, <1>2, BuiltType
<1>4. pp.trustedIPs \in Seq(Address \cup Network \cup {Failed}) /\ pp.insecure \in BOOLEAN
  BY <1>1, <1>3 DEF Configuration, ProxyProtocol
<1>5. CASE pp.insecure
  <2>1. Policy(peer) = "USE" BY <1>1, <1>3, <1>5 DEF Policy
  <2> QED BY <1>1, <1>3, <1>5, <2>1
<1>6. CASE ~pp.insecure
  <2>1. NewChecker(pp.trustedIPs) # Failed BY <1>3, <1>6
  <2>2. Policy(peer) = IF ContainsIP(NewChecker(pp.trustedIPs), As16(peer)) THEN "USE" ELSE "IGNORE"
    BY <1>1, <1>3, <1>6 DEF Policy
  <2>3. ContainsIP(NewChecker(pp.trustedIPs), As16(peer)) <=> Trusts(pp.trustedIPs, peer)
    BY <1>4, <2>1, CheckerIsRight
  <2> QED BY <1>1, <1>3, <1>6, <2>2, <2>3
<1> QED BY <1>4, <1>5, <1>6

\* Accept applies the policy, and no later step changes what it was applied with.
LEMMA ConnsStep ==
    ListenerInv /\ ConnsRight /\ [EPNext \/ EPRequestNext]_epVars => ConnsRight'
<1> SUFFICES ASSUME ListenerInv, ConnsRight, [EPNext \/ EPRequestNext]_epVars PROVE ConnsRight' OBVIOUS
<1>1. ASSUME NEW cfg \in EPConfigs, BuildListener(cfg) PROVE ConnsRight'
  <2>1. epConns' = <<>> BY <1>1 DEF BuildListener, ListenerInv
  <2> QED BY <2>1 DEF ConnsRight
<1>2. ASSUME NEW peer \in EPAddrs, NEW header \in EPAddrs \cup {Nil}, Accept(peer, header)
      PROVE  ConnsRight'
  <2> DEFINE seen == IF epUp.proxy # Nil /\ header # Nil /\ Policy(peer) = "USE" THEN header ELSE peer
             pp == epUp.cfg.proxyProtocol
  <2>1. peer \in Address /\ epUp # Nil /\ epUp' = epUp /\ epConns \in Seq(Connection)
    BY <1>2, EPAssumption DEF Accept, ListenerInv
  <2>2. PICK s \in {Nil, seen} :
          epConns' = Append(epConns, [peer |-> peer, header |-> header, seen |-> s])
    BY <1>2 DEF Accept
  <2> DEFINE c == [peer |-> peer, header |-> header, seen |-> s]
  <2>3. SeenRight(c, pp)
    <3>1. CASE epUp.proxy = Nil
      <4>1. pp = Nil BY <2>1, <3>1, BuiltType DEF ListenerInv, Listener
      <4>2. s # Nil => s = peer BY <2>2, <3>1
      <4> QED BY <4>1, <4>2 DEF SeenRight
    <3>2. CASE epUp.proxy # Nil
      <4>1. pp # Nil /\ (Policy(peer) = "USE" <=> pp.insecure \/ Trusts(pp.trustedIPs, peer))
        BY <2>1, <3>2, PolicyIsRight
      <4>2. s # Nil => s = IF header # Nil /\ Policy(peer) = "USE" THEN header ELSE peer BY <2>2, <3>2
      <4> QED BY <4>1, <4>2 DEF SeenRight
    <3> QED BY <3>1, <3>2
  <2>4. \A i \in DOMAIN epConns' : epConns'[i] = IF i = Len(epConns) + 1 THEN c ELSE epConns[i]
    BY <2>1, <2>2
  <2>5. \A i \in DOMAIN epConns' : i # Len(epConns) + 1 => i \in DOMAIN epConns BY <2>1, <2>2
  <2> HIDE DEF c
  <2> QED BY <2>1, <2>3, <2>4, <2>5 DEF ConnsRight
<1>3. CASE Close
  <2>1. epUp \in Listener BY <1>3 DEF Close, ListenerInv
  <2>2. epUp'.cfg = epUp.cfg /\ epConns' = epConns BY <1>3, <2>1 DEF Close, Listener
  <2> QED BY <2>2 DEF ConnsRight
<1>4. ASSUME NEW format \in {"toml", "json"}, Restart(format) PROVE ConnsRight'
  <2>1. epUp'.cfg.proxyProtocol = epUp.cfg.proxyProtocol BY <1>4, RestartBuilds
  <2>2. epConns' = epConns BY <1>4 DEF Restart
  <2> QED BY <2>1, <2>2 DEF ConnsRight
<1>5. CASE UNCHANGED <<epUp, epConns>> BY <1>5 DEF ConnsRight
<1>6. EPRequestNext => UNCHANGED <<epUp, epConns>> BY DEF EPRequestNext, ClientRequest, ProxyHop
<1>7. UNCHANGED epVars => UNCHANGED <<epUp, epConns>> BY DEF epVars
<1> QED BY <1>1, <1>2, <1>3, <1>4, <1>5, <1>6, <1>7 DEF EPNext

-----------------------------------------------------------------------------
(* The request on its way.                                                 *)

\* Behind n proxies the header ends with the client and the first n - 1 of them.
ChainInv ==
    epChain # Nil =>
        LET n == Len(epChain.hops)
            k == Len(epChain.xff)
        IN  /\ epChain \in Request
            /\ k > 0
            /\ n = 0 => epChain.from = epChain.client
            /\ n > 0 => /\ epChain.from = epChain.hops[n]
                        /\ n <= k
                        /\ epChain.xff[k - n + 1] = epChain.client
                        /\ \A i \in 1 .. n - 1 : epChain.xff[k - n + 1 + i] = epChain.hops[i]

\* Each proxy appends the address it got the request from, and nobody takes any away.
LEMMA ChainStep == ChainInv /\ [EPNext \/ EPRequestNext]_epVars => ChainInv'
<1> SUFFICES ASSUME ChainInv, [EPNext \/ EPRequestNext]_epVars PROVE ChainInv' OBVIOUS
<1>1. ASSUME NEW client \in EPAddrs, NEW xff \in EPForged, ClientRequest(client, xff) PROVE ChainInv'
  <2>1. client \in Address /\ xff \in Seq(Element) /\ xff # <<>> BY EPAssumption
  <2>2. epChain' = [client |-> client, hops |-> <<>>, xff |-> xff, from |-> client] BY <1>1 DEF ClientRequest
  <2>3. epChain' \in Request BY <2>1, <2>2 DEF Request
  <2>4. Len(xff) > 0 BY <2>1
  <2>5. Len(epChain'.hops) = 0 /\ Len(epChain'.xff) > 0 /\ epChain'.from = epChain'.client BY <2>2, <2>4
  <2> QED BY <2>3, <2>5 DEF ChainInv
<1>2. ASSUME NEW p \in EPAddrs, ProxyHop(p) PROVE ChainInv'
  <2> DEFINE c == epChain
             n == Len(c.hops)
             k == Len(c.xff)
             x == IF c.xff = <<Blank>> THEN <<c.from>> ELSE Append(c.xff, c.from)
             h == Append(c.hops, p)
  <2>1. c \in Request /\ c # Nil BY <1>2 DEF ProxyHop, ChainInv
  <2>2. /\ c.client \in Address /\ c.hops \in Seq(Address) /\ c.xff \in Seq(Element) /\ c.from \in Address
        /\ n \in Nat /\ k \in Nat /\ p \in Address
    BY <2>1, EPAssumption DEF Request
  <2>3. epChain' = [c EXCEPT !.hops = h, !.from = p, !.xff = x] BY <1>2 DEF ProxyHop
  <2>4. /\ epChain'.hops = h /\ epChain'.from = p /\ epChain'.xff = x /\ epChain'.client = c.client
        /\ epChain' = [client |-> c.client, hops |-> h, xff |-> x, from |-> p]
    BY <2>1, <2>3 DEF Request
  <2>5. c.from \in Element BY <2>2 DEF Element
  <2>6. x \in Seq(Element) BY <2>2, <2>5
  <2>7. h \in Seq(Address) /\ Len(h) = n + 1 /\ h[n + 1] = p /\ \A i \in 1 .. n : h[i] = c.hops[i] BY <2>2
  <2>8. epChain' \in Request BY <2>2, <2>4, <2>6, <2>7 DEF Request
  <2>9. CASE c.xff = <<Blank>>
    <3>1. n = 0
      <4> SUFFICES ASSUME n > 0 PROVE FALSE BY <2>2
      <4>1. n <= k /\ k = 1 /\ c.xff[k - n + 1] = c.client BY <2>1, <2>9 DEF ChainInv
      <4>2. n = 1 /\ k - n + 1 = 1 BY <2>2, <4>1
      <4>3. c.client = Blank BY <2>9, <4>1, <4>2
      <4> QED BY <2>2, <4>3, EPOutcomes
    <3>2. c.from = c.client BY <2>1, <3>1 DEF ChainInv
    <3>3. x = <<c.client>> /\ Len(x) = 1 /\ x[1] = c.client BY <2>9, <3>2
    <3> HIDE DEF x, h, c, n, k
    <3>4. Len(epChain'.hops) = 1 /\ Len(epChain'.xff) = 1 /\ epChain'.xff[1] = epChain'.client
          /\ epChain'.hops[1] = epChain'.from
      BY <2>4, <2>7, <3>1, <3>3
    <3>5. \A i \in 1 .. Len(epChain'.hops) - 1 : FALSE BY <3>4
    <3> QED BY <2>8, <3>4, <3>5 DEF ChainInv
  <2>10. CASE c.xff # <<Blank>>
    <3>1. x = Append(c.xff, c.from) BY <2>10
    <3>2. Len(x) = k + 1 /\ x[k + 1] = c.from /\ \A i \in 1 .. k : x[i] = c.xff[i] BY <2>2, <2>5, <3>1
    <3>3. /\ n = 0 => c.from = c.client
          /\ n > 0 => /\ c.from = c.hops[n]
                      /\ n <= k
                      /\ c.xff[k - n + 1] = c.client
                      /\ \A i \in 1 .. n - 1 : c.xff[k - n + 1 + i] = c.hops[i]
      BY <2>1 DEF ChainInv
    <3> HIDE DEF x, h, c, n, k
    <3>4. n + 1 <= k + 1 /\ x[(k + 1) - (n + 1) + 1] = c.client
      <4>1. CASE n = 0 BY <2>2, <3>2, <3>3, <4>1
      <4>2. CASE n > 0
        <5>1. (k + 1) - (n + 1) + 1 = k - n + 1 /\ k - n + 1 \in 1 .. k BY <2>2, <3>3, <4>2
        <5> QED BY <2>2, <3>2, <3>3, <4>2, <5>1
      <4> QED BY <2>2, <4>1, <4>2
    <3>5. ASSUME NEW i \in 1 .. (n + 1) - 1 PROVE x[(k + 1) - (n + 1) + 1 + i] = h[i]
      <4>1. n > 0 /\ n <= k /\ i \in 1 .. n BY <2>2, <3>3
      <4>2. CASE i = n
        <5>1. (k + 1) - (n + 1) + 1 + i = k + 1 BY <2>2, <4>2
        <5> QED BY <2>7, <3>2, <3>3, <4>1, <4>2, <5>1
      <4>3. CASE i # n
        <5>1. (k + 1) - (n + 1) + 1 + i = k - n + 1 + i /\ k - n + 1 + i \in 1 .. k /\ i \in 1 .. n - 1
          BY <2>2, <4>1, <4>3
        <5> QED BY <2>7, <3>2, <3>3, <4>1, <5>1
      <4> QED BY <4>2, <4>3
    <3>6. /\ Len(epChain'.hops) = n + 1 /\ Len(epChain'.xff) = k + 1 /\ n + 1 > 0 /\ k + 1 > 0
          /\ epChain'.from = epChain'.hops[n + 1]
      BY <2>2, <2>4, <2>7, <3>2
    <3>7. /\ n + 1 <= k + 1 /\ epChain'.xff[(k + 1) - (n + 1) + 1] = epChain'.client
          /\ \A i \in 1 .. (n + 1) - 1 : epChain'.xff[(k + 1) - (n + 1) + 1 + i] = epChain'.hops[i]
      BY <2>4, <3>4, <3>5
    <3>8. n + 1 # 0 BY <2>2
    <3> QED BY <2>8, <3>6, <3>7, <3>8 DEF ChainInv
  <2> QED BY <2>9, <2>10
<1>3. CASE UNCHANGED epChain BY <1>3 DEF ChainInv
<1>4. EPNext => UNCHANGED epChain BY DEF EPNext, BuildListener, Accept, Close, Restart
<1>5. UNCHANGED epVars => UNCHANGED epChain BY DEF epVars
<1> QED BY <1>1, <1>2, <1>3, <1>4, <1>5 DEF EPRequestNext

\* PoolStrategy walks back over the proxies of the pool and stops at the client.
LEMMA PoolFindsClient ==
    ASSUME NEW l \in Seq(Address \cup Network \cup {Failed}), NewChecker(l) # Failed,
           NEW xffs \in Seq(Element), NEW m \in 1 .. Len(xffs), xffs[m] \in Address,
           ~Trusts(l, xffs[m]),
           \A j \in m + 1 .. Len(xffs) : xffs[j] \in Address /\ Trusts(l, xffs[j])
    PROVE  PoolGetIP(NewChecker(l), xffs) = xffs[m]
<1> DEFINE checker == NewChecker(l)
           out == {i \in DOMAIN xffs : xffs[i] # Blank /\ CheckerContains(checker, xffs[i]) # TRUE}
<1>1. ASSUME NEW a \in Address PROVE CheckerContains(checker, a) = TRUE <=> Trusts(l, a)
  <2>1. parseIP(a) = As16(a) BY AddressFields, EPOutcomes DEF parseIP
  <2>2. As16(a) # Failed BY As16Type, EPOutcomes
  <2>3. CheckerContains(checker, a) = ContainsIP(checker, As16(a)) BY <2>1, <2>2 DEF CheckerContains
  <2>4. ContainsIP(checker, As16(a)) <=> Trusts(l, a) BY CheckerIsRight
  <2>5. ContainsIP(checker, As16(a)) \in BOOLEAN BY DEF ContainsIP
  <2> QED BY <2>3, <2>4, <2>5
<1> HIDE DEF checker
<1>2. m \in out
  <2>1. xffs[m] # Blank BY EPOutcomes
  <2>2. CheckerContains(checker, xffs[m]) # TRUE BY <1>1
  <2>3. m \in DOMAIN xffs OBVIOUS
  <2> QED BY <2>1, <2>2, <2>3
<1>3. ASSUME NEW j \in out PROVE j <= m
  <2> SUFFICES ASSUME j > m PROVE FALSE OBVIOUS
  <2>1. j \in m + 1 .. Len(xffs) OBVIOUS
  <2>2. CheckerContains(checker, xffs[j]) = TRUE BY <1>1, <2>1
  <2> QED BY <1>3, <2>2
<1>4. out \subseteq Int
  <2>1. \A i \in DOMAIN xffs : i \in Int OBVIOUS
  <2> QED BY <2>1
<1>5. PoolGetIP(checker, xffs) = IF out = {} THEN Blank ELSE xffs[CHOOSE i \in out : \A j \in out : j <= i]
  BY DEF PoolGetIP
<1> HIDE DEF out
<1>6. (CHOOSE i \in out : \A j \in out : j <= i) = m
  <2> DEFINE i == CHOOSE i \in out : \A j \in out : j <= i
  <2>1. i \in out /\ \A j \in out : j <= i BY <1>2, <1>3
  <2> HIDE DEF i
  <2>2. i = m BY <1>2, <1>3, <1>4, <2>1
  <2> QED BY <2>2 DEF i
<1>7. PoolGetIP(checker, xffs) = xffs[m] BY <1>2, <1>5, <1>6
<1> QED BY <1>7 DEF checker

\* The chain's invariant tells where the client is.
LEMMA ChainFound == ChainInv => ClientIPFound
<1> SUFFICES ASSUME ChainInv, epChain # Nil, epChain.hops # <<>>
             PROVE  /\ DepthGetIP(epChain.xff, Len(epChain.hops), Nil) = epChain.client
                    /\ \A cfg \in EPConfigs :
                        LET pp == cfg.proxyProtocol
                            n == Len(epChain.hops)
                            inside == {epChain.hops[i] : i \in 1..(n - 1)}
                        IN  /\ pp # Nil /\ ~pp.insecure
                            /\ NewChecker(pp.trustedIPs) # Failed
                            /\ \A p \in inside : Trusts(pp.trustedIPs, p)
                            /\ ~Trusts(pp.trustedIPs, epChain.client)
                            => PoolGetIP(NewChecker(pp.trustedIPs), epChain.xff) = epChain.client
  BY DEF ClientIPFound
<1> DEFINE n == Len(epChain.hops)
           x == epChain.xff
           k == Len(x)
           m == k - n + 1
<1>1. epChain \in Request BY DEF ChainInv
<1>2. epChain.hops \in Seq(Address) /\ x \in Seq(Element) /\ epChain.client \in Address BY <1>1 DEF Request
<1>3. n \in Nat /\ n > 0 /\ k \in Nat BY <1>2
<1>4. /\ n <= k /\ x[m] = epChain.client
      /\ \A i \in 1 .. n - 1 : x[m + i] = epChain.hops[i]
  BY <1>3 DEF ChainInv
<1> HIDE DEF n, x, k
<1>5. m \in 1 .. k /\ m = k - n + 1 BY <1>3, <1>4
<1>6. DepthGetIP(x, n, Nil) = epChain.client
  <2>1. ~(k < n) BY <1>3, <1>4
  <2> QED BY <1>4, <2>1 DEF DepthGetIP, k
<1>7. ASSUME NEW cfg \in EPConfigs, cfg.proxyProtocol # Nil,
             NewChecker(cfg.proxyProtocol.trustedIPs) # Failed,
             \A i \in 1 .. n - 1 : Trusts(cfg.proxyProtocol.trustedIPs, epChain.hops[i]),
             ~Trusts(cfg.proxyProtocol.trustedIPs, epChain.client)
      PROVE  PoolGetIP(NewChecker(cfg.proxyProtocol.trustedIPs), x) = epChain.client
  <2> DEFINE l == cfg.proxyProtocol.trustedIPs
  <2>1. cfg \in Configuration BY EPAssumption
  <2>2. l \in Seq(Address \cup Network \cup {Failed}) BY <1>7, <2>1 DEF Configuration, ProxyProtocol
  <2>3. ASSUME NEW j \in m + 1 .. k PROVE x[j] \in Address /\ Trusts(l, x[j])
    <3>1. j - m \in 1 .. n - 1 /\ m + (j - m) = j BY <1>3, <1>4, <1>5
    <3>2. x[j] = epChain.hops[j - m] BY <1>4, <3>1
    <3>3. j - m \in 1 .. n BY <1>3, <3>1
    <3>4. epChain.hops[j - m] \in Address BY <1>2, <3>3 DEF n
    <3> QED BY <1>7, <3>1, <3>2, <3>4
  <2>4. NewChecker(l) # Failed /\ x[m] \in Address /\ ~Trusts(l, x[m]) BY <1>2, <1>4, <1>7
  <2> HIDE DEF l, x, m, k
  <2>5. PoolGetIP(NewChecker(l), x) = x[m]
    BY <1>2, <1>5, <2>2, <2>3, <2>4, PoolFindsClient DEF k
  <2> QED BY <1>4, <2>5 DEF l
<1> QED BY <1>6, <1>7 DEF n, x

\* net/ip and buildListener, for every configuration, address and header: the server sees
\* the address a PROXY header names exactly where the configuration trusts the peer, and
\* behind proxies of the pool the strategies find the client whatever header it sent.
THEOREM ClientAddressIsRight == EPSpec => []ClientAddressRight
<1>1. EPInit => ListenerInv /\ ConnsRight /\ ChainInv BY DEF EPInit, ListenerInv, ConnsRight, ChainInv
<1>2. ListenerInv /\ ConnsRight => HeaderOnlyFromTrusted
  <2> SUFFICES ASSUME ListenerInv, ConnsRight PROVE HeaderOnlyFromTrusted OBVIOUS
  <2>1. epUp # Nil /\ epUp.proxy # Nil => epUp.proxy.timeout # 0
    <3> SUFFICES ASSUME epUp # Nil, epUp.proxy # Nil PROVE epUp.proxy.timeout # 0 OBVIOUS
    <3>1. epUp.cfg \in Configuration /\ epUp.proxy = Built(epUp.cfg) /\ epUp.proxy \in ProxyPart
      BY DEF ListenerInv, Listener
    <3> QED BY <3>1, BuiltType, EPOutcomes
  <2> QED BY <2>1 DEF ConnsRight, SeenRight, HeaderOnlyFromTrusted
<1> QED BY <1>1, <1>2, ListenerStep, ConnsStep, ChainStep, ChainFound, PTL
       DEF EPSpec, ClientAddressRight

\* Restart: what was marshalled and read again gives the listener its timeout and its
\* policy back, whatever texts the configuration was written with.
THEOREM PolicyIsKept == EPSpec => RestartKeepsPolicy
<1>1. EPInit => ListenerInv BY DEF EPInit, ListenerInv
<1>2. ListenerInv /\ [EPNext \/ EPRequestNext]_epVars =>
        [epUp # Nil /\ epUp' # Nil => epUp'.proxy = epUp.proxy]_epVars
  <2> SUFFICES ASSUME ListenerInv, EPNext \/ EPRequestNext, epUp # Nil PROVE epUp'.proxy = epUp.proxy
    OBVIOUS
  <2>1. \A cfg \in EPConfigs : ~BuildListener(cfg) BY DEF BuildListener
  <2>2. CASE Close
    <3>1. epUp \in Listener BY DEF ListenerInv
    <3> QED BY <2>2, <3>1 DEF Close, Listener
  <2>3. ASSUME NEW format \in {"toml", "json"}, Restart(format) PROVE epUp'.proxy = epUp.proxy
    BY <2>3, RestartBuilds
  <2>4. CASE UNCHANGED epUp BY <2>4
  <2>5. EPRequestNext => UNCHANGED epUp BY DEF EPRequestNext, ClientRequest, ProxyHop
  <2>6. \A peer \in EPAddrs, header \in EPAddrs \cup {Nil} : Accept(peer, header) => UNCHANGED epUp
    BY DEF Accept
  <2> QED BY <2>1, <2>2, <2>3, <2>4, <2>5, <2>6 DEF EPNext
<1> QED BY <1>1, <1>2, ListenerStep, PTL DEF EPSpec, RestartKeepsPolicy

\* Entry points: addresses are who the configuration says, before and after a restart.
THEOREM EntryPointIsRight == EPSpec => EntryPointRight
BY ClientAddressIsRight, PolicyIsKept, PTL DEF EntryPointRight

-----------------------------------------------------------------------------
(* The HTTP proxy: paths.                                                  *)

Characters == STRING \cup {"/"}

\* A slash is a path.
LEMMA SlashIs == <<"/">> \in Seq(Characters) /\ Len(<<"/">>) = 1 /\ "/" \in Characters
<1>1. "/" \in Characters BY DEF Characters
<1> QED BY <1>1

\* What the elements of a concatenation are.
LEMMA PathParts ==
    ASSUME NEW x \in Seq(Characters), NEW y \in Seq(Characters)
    PROVE  /\ x \o y \in Seq(Characters) /\ Len(x \o y) = Len(x) + Len(y)
           /\ Len(x) \in Nat /\ Len(y) \in Nat
           /\ \A i \in 1 .. Len(x) : (x \o y)[i] = x[i]
           /\ \A i \in 1 .. Len(y) : (x \o y)[Len(x) + i] = y[i]
OBVIOUS

\* What the elements of a tail are.
LEMMA PathTail ==
    ASSUME NEW y \in Seq(Characters), y # <<>>
    PROVE  /\ Tail(y) \in Seq(Characters) /\ Len(y) \in Nat /\ Len(y) > 0 /\ Len(Tail(y)) = Len(y) - 1
           /\ \A i \in 1 .. Len(y) - 1 : Tail(y)[i] = y[i + 1]
           /\ Head(y) = y[1]
OBVIOUS

\* Two paths with the same characters are the same.
LEMMA PathEqual ==
    ASSUME NEW x \in Seq(Characters), NEW y \in Seq(Characters), Len(x) = Len(y),
           \A i \in 1 .. Len(x) : x[i] = y[i]
    PROVE  x = y
OBVIOUS

\* Unescape works character by character.
LEMMA UnescapeIs ==
    ASSUME NEW e \in Seq(Characters)
    PROVE  /\ Unescape(e) \in Seq(Characters) /\ Len(Unescape(e)) = Len(e) /\ Len(e) \in Nat
           /\ \A i \in 1 .. Len(e) : Unescape(e)[i] = IF e[i] = "%2F" THEN "/" ELSE e[i]
<1>1. Len(e) \in Nat /\ DOMAIN e = 1 .. Len(e) /\ \A i \in 1 .. Len(e) : e[i] \in Characters OBVIOUS
<1>2. Unescape(e) = [i \in 1 .. Len(e) |-> IF e[i] = "%2F" THEN "/" ELSE e[i]] BY <1>1 DEF Unescape
<1>3. Unescape(e) \in [1 .. Len(e) -> Characters] BY <1>1, <1>2, SlashIs
<1> QED BY <1>1, <1>2, <1>3

\* Whether a path has an escaped slash.
LEMMA EscapedIs ==
    ASSUME NEW e \in Seq(Characters)
    PROVE  "%2F" \in ToSet(e) <=> \E i \in 1 .. Len(e) : e[i] = "%2F"
BY DEF ToSet

\* What has no escaped slash stays as it is.
LEMMA UnescapeNothing ==
    ASSUME NEW e \in Seq(Characters), "%2F" \notin ToSet(e)
    PROVE  Unescape(e) = e
<1>1. \A i \in 1 .. Len(e) : e[i] # "%2F" BY EscapedIs
<1>2. /\ Unescape(e) \in Seq(Characters) /\ Len(Unescape(e)) = Len(e)
      /\ \A i \in 1 .. Len(e) : Unescape(e)[i] = IF e[i] = "%2F" THEN "/" ELSE e[i]
  BY UnescapeIs
<1>3. \A i \in 1 .. Len(Unescape(e)) : Unescape(e)[i] = e[i] BY <1>1, <1>2
<1> QED BY <1>2, <1>3, PathEqual

\* Both results of url.Parse, and the path that is sent.
LEMMA ParseIs ==
    ASSUME NEW e \in Seq(Characters)
    PROVE  /\ ParsePath(e).path = Unescape(e)
           /\ "%2F" \in ToSet(e) => ParsePath(e).rawPath = e /\ e # <<>>
           /\ "%2F" \notin ToSet(e) => ParsePath(e).rawPath = <<>> /\ ParsePath(e).path = e
           /\ EscapedPath(ParsePath(e)) = e
<1>1. ParsePath(e).path = Unescape(e) BY DEF ParsePath
<1>2. "%2F" \in ToSet(e) => ParsePath(e).rawPath = e /\ e # <<>>
  <2>1. "%2F" \in ToSet(e) => e # <<>> BY DEF ToSet
  <2> QED BY <2>1 DEF ParsePath
<1>3. "%2F" \notin ToSet(e) => ParsePath(e).rawPath = <<>> /\ ParsePath(e).path = e
  BY UnescapeNothing DEF ParsePath
<1>4. EscapedPath(ParsePath(e)) = e BY <1>2, <1>3 DEF EscapedPath
<1> QED BY <1>1, <1>2, <1>3, <1>4

\* Unescaping a joint path unescapes the parts.
LEMMA UnescapeConcat ==
    ASSUME NEW x \in Seq(Characters), NEW y \in Seq(Characters)
    PROVE  Unescape(x \o y) = Unescape(x) \o Unescape(y)
<1> DEFINE z == x \o y
           u == Unescape(x)
           v == Unescape(y)
           w == u \o v
<1>1. /\ z \in Seq(Characters) /\ Len(z) = Len(x) + Len(y) /\ Len(x) \in Nat /\ Len(y) \in Nat
      /\ \A i \in 1 .. Len(x) : z[i] = x[i]
      /\ \A i \in 1 .. Len(y) : z[Len(x) + i] = y[i]
  BY PathParts
<1>2. /\ u \in Seq(Characters) /\ Len(u) = Len(x)
      /\ \A i \in 1 .. Len(x) : u[i] = IF x[i] = "%2F" THEN "/" ELSE x[i]
  BY UnescapeIs
<1>3. /\ v \in Seq(Characters) /\ Len(v) = Len(y)
      /\ \A i \in 1 .. Len(y) : v[i] = IF y[i] = "%2F" THEN "/" ELSE y[i]
  BY UnescapeIs
<1> HIDE DEF u, v
<1>4. /\ w \in Seq(Characters) /\ Len(w) = Len(x) + Len(y)
      /\ \A i \in 1 .. Len(x) : w[i] = u[i]
      /\ \A i \in 1 .. Len(y) : w[Len(x) + i] = v[i]
  <2>1. u \in Seq(Characters) /\ v \in Seq(Characters) BY <1>2, <1>3
  <2>2. /\ w \in Seq(Characters) /\ Len(w) = Len(u) + Len(v)
        /\ \A i \in 1 .. Len(u) : w[i] = u[i]
        /\ \A i \in 1 .. Len(v) : w[Len(u) + i] = v[i]
    BY <2>1, PathParts
  <2>3. Len(u) = Len(x) /\ Len(v) = Len(y) BY <1>2, <1>3
  <2> QED BY <2>2, <2>3
<1> HIDE DEF z, w
<1>5. /\ Unescape(z) \in Seq(Characters) /\ Len(Unescape(z)) = Len(x) + Len(y)
      /\ \A i \in 1 .. Len(x) + Len(y) : Unescape(z)[i] = IF z[i] = "%2F" THEN "/" ELSE z[i]
  BY <1>1, UnescapeIs
<1>6. ASSUME NEW i \in 1 .. Len(x) + Len(y) PROVE Unescape(z)[i] = w[i]
  <2>1. CASE i \in 1 .. Len(x) BY <1>1, <1>2, <1>4, <1>5, <2>1
  <2>2. CASE i \notin 1 .. Len(x)
    <3>1. PICK k \in 1 .. Len(y) : i = Len(x) + k
      <4>1. i - Len(x) \in 1 .. Len(y) /\ i = Len(x) + (i - Len(x)) BY <1>1, <2>2
      <4> QED BY <4>1
    <3>2. z[i] = y[k] /\ w[i] = v[k] BY <1>1, <1>4, <3>1
    <3> QED BY <1>3, <1>5, <3>2
  <2> QED BY <2>1, <2>2
<1>7. Unescape(z) = w BY <1>4, <1>5, <1>6, PathEqual
<1> QED BY <1>7 DEF z, w, u, v

\* So does unescaping a tail.
LEMMA UnescapeTail ==
    ASSUME NEW y \in Seq(Characters), y # <<>>
    PROVE  Unescape(Tail(y)) = Tail(Unescape(y))
<1> DEFINE t == Tail(y)
           v == Unescape(y)
<1>1. /\ t \in Seq(Characters) /\ Len(y) \in Nat /\ Len(y) > 0 /\ Len(t) = Len(y) - 1
      /\ \A i \in 1 .. Len(y) - 1 : t[i] = y[i + 1]
  BY PathTail
<1>2. /\ v \in Seq(Characters) /\ Len(v) = Len(y)
      /\ \A i \in 1 .. Len(y) : v[i] = IF y[i] = "%2F" THEN "/" ELSE y[i]
  BY UnescapeIs
<1> HIDE DEF v, t
<1>3. v # <<>>
  <2>1. Len(v) # 0 BY <1>1, <1>2
  <2> QED BY <2>1
<1>4. /\ Tail(v) \in Seq(Characters) /\ Len(Tail(v)) = Len(y) - 1
      /\ \A i \in 1 .. Len(y) - 1 : Tail(v)[i] = v[i + 1]
  BY <1>2, <1>3, PathTail
<1>5. /\ Unescape(t) \in Seq(Characters) /\ Len(Unescape(t)) = Len(y) - 1
      /\ \A i \in 1 .. Len(y) - 1 : Unescape(t)[i] = IF t[i] = "%2F" THEN "/" ELSE t[i]
  BY <1>1, UnescapeIs
<1>6. ASSUME NEW i \in 1 .. Len(y) - 1 PROVE Unescape(t)[i] = Tail(v)[i]
  <2>1. i + 1 \in 1 .. Len(y) BY <1>1
  <2> QED BY <1>1, <1>2, <1>4, <1>5, <2>1
<1>7. Unescape(t) = Tail(v) BY <1>4, <1>5, <1>6, PathEqual
<1> QED BY <1>7 DEF t, v

-----------------------------------------------------------------------------
(* The HTTP proxy: paths that are joined.                                  *)

\* JoinURLPath: what is sent is the two escaped paths joined by one slash, and the path is
\* what its escaped form stands for.
LEMMA JoinIs ==
    ASSUME NEW t \in Seq(Characters), NEW u \in Seq(Characters), NEW o, o = JoinURLPath(ParsePath(t), ParsePath(u))
    PROVE  /\ EscapedPath(o) = SingleJoiningSlash(t, u)
           /\ o.rawPath # <<>> => Unescape(o.rawPath) = o.path
           /\ "%2F" \notin ToSet(t) /\ "%2F" \notin ToSet(u) => o.path = SingleJoiningSlash(t, u)
<1> DEFINE a == ParsePath(t)
           b == ParsePath(u)
           j == SingleJoiningSlash(t, u)
           cut == EndsWithSlash(t) /\ StartsWithSlash(u)
           add == ~EndsWithSlash(t) /\ ~StartsWithSlash(u)
<1>1. /\ a.path = Unescape(t) /\ EscapedPath(a) = t
      /\ "%2F" \in ToSet(t) => a.rawPath = t /\ t # <<>>
      /\ "%2F" \notin ToSet(t) => a.rawPath = <<>> /\ a.path = t
  BY ParseIs
<1>2. /\ b.path = Unescape(u) /\ EscapedPath(b) = u
      /\ "%2F" \in ToSet(u) => b.rawPath = u /\ u # <<>>
      /\ "%2F" \notin ToSet(u) => b.rawPath = <<>> /\ b.path = u
  BY ParseIs
<1>3. o = JoinURLPath(a, b) OBVIOUS
<1> HIDE DEF a, b
<1>4. CASE "%2F" \notin ToSet(t) /\ "%2F" \notin ToSet(u)
  <2>1. o = [path |-> j, rawPath |-> <<>>] BY <1>1, <1>2, <1>3, <1>4 DEF JoinURLPath
  <2> HIDE DEF j
  <2>2. o.path = j /\ o.rawPath = <<>> BY <2>1
  <2>3. EscapedPath(o) = j BY <2>2 DEF EscapedPath
  <2> QED BY <2>2, <2>3 DEF j
<1>5. CASE "%2F" \in ToSet(t) \/ "%2F" \in ToSet(u)
  <2>1. ~(a.rawPath = <<>> /\ b.rawPath = <<>>) BY <1>1, <1>2, <1>5
  <2> DEFINE p == IF cut THEN a.path \o Tail(b.path)
                  ELSE IF add THEN a.path \o <<"/">> \o b.path ELSE a.path \o b.path
  <2>2. o = [path |-> p, rawPath |-> j]
    BY <1>1, <1>2, <1>3, <2>1, Zenon DEF JoinURLPath, SingleJoiningSlash
  <2>3. j # <<>>
    <3>1. Len(t) > 0 \/ Len(u) > 0 BY <1>1, <1>2, <1>5
    <3>2. Len(t) \in Nat /\ Len(u) \in Nat OBVIOUS
    <3>3. CASE cut
      <4>1. t # <<>> /\ u # <<>> BY <3>3 DEF EndsWithSlash, StartsWithSlash
      <4>2. Len(t \o Tail(u)) = Len(t) + Len(Tail(u)) /\ Len(Tail(u)) = Len(u) - 1 /\ Len(u) > 0
            /\ t \o Tail(u) \in Seq(Characters)
        BY <4>1, PathTail, PathParts
      <4>3. Len(t) > 0 BY <4>1
      <4>4. Len(t \o Tail(u)) # 0 BY <3>2, <4>2, <4>3
      <4>5. t \o Tail(u) # <<>>
        <5> DEFINE z == t \o Tail(u)
        <5> HIDE DEF z
        <5>1. Len(z) # 0 BY <4>4 DEF z
        <5>2. z # <<>> BY <5>1
        <5> QED BY <5>2 DEF z
      <4> QED BY <3>3, <4>5 DEF SingleJoiningSlash
    <3>4. CASE ~cut /\ add
      <4>1. j = t \o <<"/">> \o u BY <3>4 DEF SingleJoiningSlash
      <4>2. <<"/">> \in Seq(Characters) /\ Len(<<"/">>) = 1 BY SlashIs
      <4>3. t \o <<"/">> \in Seq(Characters) /\ Len(t \o <<"/">>) = Len(t) + 1 BY <4>2, PathParts
      <4>4. Len(j) = Len(t) + 1 + Len(u) BY <4>1, <4>3, PathParts
      <4>5. Len(j) # 0 BY <3>2, <4>4
      <4> HIDE DEF j
      <4> QED BY <4>5
    <3>5. CASE ~cut /\ ~add
      <4>1. j = t \o u BY <3>5 DEF SingleJoiningSlash
      <4>2. Len(j) = Len(t) + Len(u) BY <4>1, PathParts
      <4>3. Len(j) # 0 BY <3>1, <3>2, <4>2
      <4> HIDE DEF j
      <4> QED BY <4>3
    <3> QED BY <3>3, <3>4, <3>5
  <2>4. Unescape(j) = p
    <3>1. <<"/">> \in Seq(Characters) /\ Unescape(<<"/">>) = <<"/">>
      <4>1. "%2F" \notin ToSet(<<"/">>) BY DEF ToSet
      <4>2. <<"/">> \in Seq(Characters) BY SlashIs
      <4> QED BY <4>1, <4>2, UnescapeNothing
    <3>2. CASE cut
      <4>1. u # <<>> BY <3>2 DEF StartsWithSlash
      <4>2. Tail(u) \in Seq(Characters) BY <4>1, PathTail
      <4>3. Unescape(t \o Tail(u)) = Unescape(t) \o Unescape(Tail(u)) BY <4>2, UnescapeConcat
      <4>4. Unescape(Tail(u)) = Tail(Unescape(u)) BY <4>1, UnescapeTail
      <4>5. j = t \o Tail(u) BY <3>2 DEF SingleJoiningSlash
      <4>6. p = Unescape(t) \o Tail(Unescape(u)) BY <1>1, <1>2, <3>2
      <4> QED BY <4>3, <4>4, <4>5, <4>6
    <3>3. CASE ~cut /\ add
      <4>1. t \o <<"/">> \in Seq(Characters) BY <3>1, PathParts
      <4>2. Unescape(t \o <<"/">> \o u) = Unescape(t \o <<"/">>) \o Unescape(u) BY <4>1, UnescapeConcat
      <4>3. Unescape(t \o <<"/">>) = Unescape(t) \o <<"/">> BY <3>1, UnescapeConcat
      <4>5. j = t \o <<"/">> \o u BY <3>3 DEF SingleJoiningSlash
      <4>6. p = Unescape(t) \o <<"/">> \o Unescape(u) BY <1>1, <1>2, <3>3
      <4> QED BY <4>2, <4>3, <4>5, <4>6
    <3>4. CASE ~cut /\ ~add
      <4>1. Unescape(t \o u) = Unescape(t) \o Unescape(u) BY UnescapeConcat
      <4>2. j = t \o u BY <3>4 DEF SingleJoiningSlash
      <4>3. p = Unescape(t) \o Unescape(u) BY <1>1, <1>2, <3>4
      <4> QED BY <4>1, <4>2, <4>3
    <3> QED BY <3>2, <3>3, <3>4
  <2> HIDE DEF j, p
  <2>5. o.path = p /\ o.rawPath = j BY <2>2
  <2>6. EscapedPath(o) = j BY <2>3, <2>5 DEF EscapedPath
  <2> QED BY <1>5, <2>4, <2>5, <2>6 DEF j
<1> QED BY <1>4, <1>5

\* Where two slashes in a row of a concatenation come from.
LEMMA DoubledConcat ==
    ASSUME NEW x \in Seq(Characters), NEW y \in Seq(Characters), Doubled(x \o y)
    PROVE  Doubled(x) \/ Doubled(y) \/ (EndsWithSlash(x) /\ StartsWithSlash(y))
<1> DEFINE z == x \o y
           a == Len(x)
<1>1. /\ z \in Seq(Characters) /\ Len(z) = a + Len(y) /\ a \in Nat /\ Len(y) \in Nat
      /\ \A i \in 1 .. a : z[i] = x[i]
      /\ \A i \in 1 .. Len(y) : z[a + i] = y[i]
  BY PathParts
<1>2. DOMAIN z = 1 .. a + Len(y) /\ DOMAIN x = 1 .. a /\ DOMAIN y = 1 .. Len(y) BY <1>1
<1>3. PICK i \in 1 .. a + Len(y) : i > 1 /\ z[i] = "/" /\ z[i - 1] = "/" BY <1>2 DEF Doubled
<1>4. a > 0 => x # <<>> OBVIOUS
<1>5. Len(y) > 0 => y # <<>> /\ Head(y) = y[1] OBVIOUS
<1> HIDE DEF z
<1>6. CASE i <= a
  <2>1. i \in 1 .. a /\ i - 1 \in 1 .. a BY <1>1, <1>3, <1>6
  <2>2. i > 1 /\ x[i] = "/" /\ x[i - 1] = "/" BY <1>1, <1>3, <2>1
  <2> QED BY <1>2, <2>1, <2>2 DEF Doubled
<1>7. CASE i = a + 1
  <2>0. a \in Nat /\ Len(y) \in Nat BY <1>1
  <2>1. a \in 1 .. a /\ 1 \in 1 .. Len(y) /\ i - 1 = a /\ a > 0 /\ Len(y) > 0 BY <1>3, <1>7, <2>0
  <2>2. x[a] = "/" /\ y[1] = "/" BY <1>1, <1>3, <1>7, <2>1
  <2>3. EndsWithSlash(x) BY <1>4, <2>1, <2>2 DEF EndsWithSlash, Last
  <2>4. StartsWithSlash(y) BY <1>5, <2>1, <2>2 DEF StartsWithSlash
  <2> QED BY <2>3, <2>4
<1>8. CASE i > a + 1
  <2>0. a \in Nat /\ Len(y) \in Nat BY <1>1
  <2>1. PICK k \in 1 .. Len(y) : i = a + k /\ k > 1 /\ k - 1 \in 1 .. Len(y) /\ i - 1 = a + (k - 1)
    <3>1. i - a \in 1 .. Len(y) /\ i = a + (i - a) /\ i - a > 1 /\ i - a - 1 \in 1 .. Len(y)
          /\ i - 1 = a + (i - a - 1)
      BY <1>3, <1>8, <2>0
    <3> QED BY <3>1
  <2>2. y[k] = "/" /\ y[k - 1] = "/" BY <1>1, <1>3, <2>1
  <2> QED BY <1>2, <2>1, <2>2 DEF Doubled
<1>9. i <= a \/ i = a + 1 \/ i > a + 1 BY <1>1
<1> QED BY <1>6, <1>7, <1>8, <1>9

\* The joint loses nothing of the request's path, and doubles no slash.
LEMMA JointIs ==
    ASSUME NEW t \in Seq(Characters), NEW u \in Seq(Characters)
    PROVE  /\ Len(SingleJoiningSlash(t, u)) >= Len(u)
           /\ Doubled(SingleJoiningSlash(t, u)) => Doubled(t) \/ Doubled(u)
<1> DEFINE j == SingleJoiningSlash(t, u)
           cut == EndsWithSlash(t) /\ StartsWithSlash(u)
           add == ~EndsWithSlash(t) /\ ~StartsWithSlash(u)
<1>1. Len(t) \in Nat /\ Len(u) \in Nat OBVIOUS
<1>2. CASE cut
  <2>1. t # <<>> /\ u # <<>> /\ Head(u) = "/" BY <1>2 DEF EndsWithSlash, StartsWithSlash
  <2>2. j = t \o Tail(u) BY <1>2 DEF SingleJoiningSlash
  <2> DEFINE v == Tail(u)
  <2>3. /\ v \in Seq(Characters) /\ Len(u) > 0 /\ Len(v) = Len(u) - 1
        /\ \A i \in 1 .. Len(u) - 1 : v[i] = u[i + 1]
        /\ u[1] = "/"
    BY <2>1, PathTail
  <2>4. Len(t) > 0 BY <2>1
  <2> HIDE DEF j, v
  <2>5. Len(j) = Len(t) + Len(v) BY <2>2, <2>3, PathParts DEF v
  <2>6. Len(j) >= Len(u) BY <1>1, <2>3, <2>4, <2>5
  <2>7. DOMAIN u = 1 .. Len(u) /\ DOMAIN v = 1 .. Len(u) - 1 BY <2>3
  <2>8. Doubled(v) => Doubled(u)
    <3> SUFFICES ASSUME Doubled(v) PROVE Doubled(u) OBVIOUS
    <3>1. PICK i \in 1 .. Len(u) - 1 : i > 1 /\ v[i] = "/" /\ v[i - 1] = "/" BY <2>7 DEF Doubled
    <3>2. i - 1 \in 1 .. Len(u) - 1 /\ i + 1 \in 1 .. Len(u) /\ i + 1 > 1
          /\ i - 1 + 1 = i /\ i + 1 - 1 = i
      BY <1>1, <3>1
    <3>3. u[i + 1] = "/" /\ u[i] = "/" BY <2>3, <3>1, <3>2
    <3> DEFINE k == i + 1
    <3>4. k \in 1 .. Len(u) /\ k > 1 /\ u[k] = "/" /\ u[k - 1] = "/" BY <3>2, <3>3
    <3> HIDE DEF k
    <3> QED BY <2>7, <3>4 DEF Doubled
  <2>9. StartsWithSlash(v) => Doubled(u)
    <3> SUFFICES ASSUME StartsWithSlash(v) PROVE Doubled(u) OBVIOUS
    <3>1. v # <<>> /\ v[1] = "/" BY <2>3 DEF StartsWithSlash
    <3>2. Len(v) # 0 BY <2>3, <3>1
    <3>3. 1 \in 1 .. Len(u) - 1 /\ 2 \in 1 .. Len(u) /\ 2 > 1 /\ 1 + 1 = 2 /\ 2 - 1 = 1
      BY <1>1, <2>3, <3>2
    <3>4. u[2] = "/" BY <2>3, <3>1, <3>3
    <3>5. 2 > 1 /\ u[2] = "/" /\ u[2 - 1] = "/" BY <2>3, <3>3, <3>4
    <3> QED BY <2>7, <3>3, <3>5 DEF Doubled
  <2>10. Doubled(j) => Doubled(t) \/ Doubled(v) \/ StartsWithSlash(v)
    BY <2>2, <2>3, DoubledConcat DEF v
  <2> QED BY <2>6, <2>8, <2>9, <2>10 DEF j
<1>3. CASE ~cut /\ add
  <2> DEFINE s == <<"/">>
             v == t \o s
  <2>1. j = v \o u BY <1>3 DEF SingleJoiningSlash
  <2>2. s \in Seq(Characters) /\ Len(s) = 1 BY SlashIs
  <2>3. ~Doubled(s)
    <3>1. DOMAIN s = 1 .. 1 OBVIOUS
    <3> HIDE DEF s
    <3> QED BY <3>1 DEF Doubled
  <2> HIDE DEF s, j
  <2>4. v \in Seq(Characters) /\ Len(v) = Len(t) + 1
    <3>1. v \in Seq(Characters) /\ Len(v) = Len(t) + Len(s) BY <2>2, PathParts
    <3> QED BY <2>2, <3>1
  <2>5. Doubled(v) => Doubled(t) BY <1>3, <2>2, <2>3, DoubledConcat
  <2> HIDE DEF v
  <2>6. Len(j) = Len(v) + Len(u) BY <2>1, <2>4, PathParts
  <2>7. Len(j) >= Len(u) BY <1>1, <2>4, <2>6
  <2>8. ~StartsWithSlash(u) BY <1>3
  <2>9. Doubled(j) => Doubled(v) \/ Doubled(u) BY <2>1, <2>4, <2>8, DoubledConcat
  <2> QED BY <2>5, <2>7, <2>9 DEF j
<1>4. CASE ~cut /\ ~add
  <2>1. j = t \o u BY <1>4 DEF SingleJoiningSlash
  <2> HIDE DEF j
  <2>2. Len(j) = Len(t) + Len(u) BY <2>1, PathParts
  <2>3. Len(j) >= Len(u) BY <1>1, <2>2
  <2>4. Doubled(j) => Doubled(t) \/ Doubled(u) BY <1>4, <2>1, DoubledConcat
  <2> QED BY <2>3, <2>4 DEF j
<1> QED BY <1>2, <1>3, <1>4

\* What RewrittenPathsAgree says of one request.
PathRight(o) ==
    /\ o.rawPath # <<>> => Unescape(o.rawPath) = o.path
    /\ Len(EscapedPath(o)) >= Len(o.from)
    /\ Doubled(o.path) =>
         Doubled(o.from) \/ Doubled(o.target) \/ "%2F" \in ToSet(o.from \o o.target)

\* Rewrite makes such a request of every one that arrives.
LEMMA RewriteIsRight ==
    ASSUME NEW target \in HPTargets, NEW passHostHeader, NEW preservePath, NEW in \in HPInputs,
           NEW o, o = Rewrite(target, passHostHeader, preservePath, in)
    PROVE  PathRight(o)
<1> DEFINE t == target.path
           u == IF in.requestURI = Failed THEN in.url ELSE in.requestURI
           w == JoinURLPath(ParsePath(t), ParsePath(u))
           r == ParsePath(u)
           j == IF preservePath THEN w ELSE r
<1>1. t \in Seq(Characters) /\ u \in Seq(Characters)
  <2>1. t \in Seq(STRING) /\ u \in Seq(STRING) BY HPPathAssumption
  <2> HIDE DEF t, u
  <2>2. \A x \in Seq(STRING) : x \in Seq(Characters)
    <3> SUFFICES ASSUME NEW x \in Seq(STRING) PROVE x \in Seq(Characters) OBVIOUS
    <3>1. Len(x) \in Nat /\ x \in [1 .. Len(x) -> STRING] OBVIOUS
    <3>2. x \in [1 .. Len(x) -> Characters] BY <3>1 DEF Characters
    <3> QED BY <3>1, <3>2
  <2> QED BY <2>1, <2>2
<1>2. o.path = j.path /\ o.rawPath = j.rawPath /\ o.from = u /\ o.target = t BY DEF Rewrite
<1> HIDE DEF t, u
<1>3. /\ EscapedPath(w) = SingleJoiningSlash(t, u)
      /\ w.rawPath # <<>> => Unescape(w.rawPath) = w.path
      /\ "%2F" \notin ToSet(t) /\ "%2F" \notin ToSet(u) => w.path = SingleJoiningSlash(t, u)
  BY <1>1, JoinIs
<1>4. /\ r.path = Unescape(u)
      /\ "%2F" \in ToSet(u) => r.rawPath = u /\ u # <<>>
      /\ "%2F" \notin ToSet(u) => r.rawPath = <<>> /\ r.path = u
      /\ EscapedPath(r) = u
  BY <1>1, ParseIs
<1>5. /\ Len(SingleJoiningSlash(t, u)) >= Len(u)
      /\ Doubled(SingleJoiningSlash(t, u)) => Doubled(t) \/ Doubled(u)
  BY <1>1, JointIs
<1>6. "%2F" \in ToSet(t) \/ "%2F" \in ToSet(u) => "%2F" \in ToSet(u \o t)
  <2>1. /\ u \o t \in Seq(Characters) /\ Len(u \o t) = Len(u) + Len(t)
        /\ Len(u) \in Nat /\ Len(t) \in Nat
        /\ \A i \in 1 .. Len(u) : (u \o t)[i] = u[i]
        /\ \A i \in 1 .. Len(t) : (u \o t)[Len(u) + i] = t[i]
    BY <1>1, PathParts
  <2>2. "%2F" \in ToSet(u \o t) <=> \E i \in 1 .. Len(u \o t) : (u \o t)[i] = "%2F" BY <2>1, EscapedIs
  <2> DEFINE z == u \o t
  <2> HIDE DEF z
  <2>3. ASSUME NEW i \in 1 .. Len(u), u[i] = "%2F" PROVE \E k \in 1 .. Len(z) : z[k] = "%2F"
    <3>1. i \in 1 .. Len(z) /\ z[i] = "%2F" BY <2>1, <2>3 DEF z
    <3> QED BY <3>1
  <2>4. ASSUME NEW i \in 1 .. Len(t), t[i] = "%2F" PROVE \E k \in 1 .. Len(z) : z[k] = "%2F"
    <3>1. Len(u) + i \in 1 .. Len(z) /\ z[Len(u) + i] = "%2F" BY <2>1, <2>4 DEF z
    <3> QED BY <3>1
  <2>5. "%2F" \in ToSet(t) => \E i \in 1 .. Len(t) : t[i] = "%2F" BY <1>1, EscapedIs
  <2>6. "%2F" \in ToSet(u) => \E i \in 1 .. Len(u) : u[i] = "%2F" BY <1>1, EscapedIs
  <2> QED BY <2>2, <2>3, <2>4, <2>5, <2>6 DEF z
<1> HIDE DEF w, r
<1>7. EscapedPath(o) = EscapedPath(j) BY <1>2 DEF EscapedPath
<1>8. Len(EscapedPath(j)) >= Len(u)
  <2>1. Len(u) >= Len(u)
    <3>1. Len(u) \in Nat BY <1>1
    <3> QED BY <3>1
  <2> QED BY <1>3, <1>4, <1>5, <2>1
<1>9. j.rawPath # <<>> => Unescape(j.rawPath) = j.path BY <1>3, <1>4
<1>10. Doubled(j.path) => Doubled(u) \/ Doubled(t) \/ "%2F" \in ToSet(u \o t) BY <1>3, <1>4, <1>5, <1>6
<1> HIDE DEF j
<1> QED BY <1>2, <1>7, <1>8, <1>9, <1>10 DEF PathRight

-----------------------------------------------------------------------------
(* The HTTP proxy: every request's path.                                   *)

HPPathInv ==
    /\ hpHandler.target \in HPTargets
    /\ hpOut = [q \in HPReqs |-> hpOut[q]]
    /\ \A q \in HPReqs : hpOut[q] # Absent => PathRight(hpOut[q])

\* Only ServeHTTP writes a request that is sent.
LEMMA HPPathStep == HPPathInv /\ [HPNext]_hpVars => HPPathInv'
<1> SUFFICES ASSUME HPPathInv, [HPNext]_hpVars PROVE HPPathInv' OBVIOUS
<1>1. ASSUME NEW q \in HPReqs, NEW in \in HPInputs, NEW c, ServeHTTP(q, in, c) PROVE HPPathInv'
  <2> DEFINE o == Rewrite(hpHandler.target, hpHandler.passHostHeader, hpHandler.preservePath, in)
  <2>1. hpOut' = [hpOut EXCEPT ![q] = o] /\ hpHandler' = hpHandler BY <1>1 DEF ServeHTTP
  <2>2. PathRight(o)
    <3>1. hpHandler.target \in HPTargets BY DEF HPPathInv
    <3> QED BY <3>1, RewriteIsRight
  <2> HIDE DEF o
  <2>3. hpOut' = [r \in HPReqs |-> IF r = q THEN o ELSE hpOut[r]] BY <2>1 DEF HPPathInv
  <2>4. \A r \in HPReqs : hpOut'[r] = IF r = q THEN o ELSE hpOut[r] BY <2>3
  <2>5. hpOut' = [r \in HPReqs |-> hpOut'[r]] BY <2>3
  <2> QED BY <2>1, <2>2, <2>4, <2>5 DEF HPPathInv
<1>2. ASSUME UNCHANGED <<hpHandler, hpOut>> PROVE HPPathInv' BY <1>2 DEF HPPathInv
<1>3. ASSUME NEW q \in HPReqs, RoundTrip(q) PROVE HPPathInv' BY <1>2, <1>3 DEF RoundTrip
<1>4. ASSUME NEW q \in HPReqs, NEW peer, AnswerNegotiates(q, peer) \/ Answer(q, peer) PROVE HPPathInv'
  BY <1>2, <1>4 DEF AnswerNegotiates, Answer, Finish
<1>5. ASSUME NEW q \in HPReqs, NEW err, AnswerFails(q, err) PROVE HPPathInv'
  BY <1>2, <1>5 DEF AnswerFails, Finish
<1>6. CASE UNCHANGED hpVars BY <1>2, <1>6 DEF hpVars
<1> QED BY <1>1, <1>3, <1>4, <1>5, <1>6 DEF HPNext

\* Whatever path and target: the path of a request that was rewritten is what its escaped form
\* stands for, has nothing of the request's path lost and no slash doubled at the joint.
THEOREM RewritesAgree == HPSpec => []RewrittenPathsAgree
<1>1. HPInit => HPPathInv
  <2> SUFFICES ASSUME HPInit PROVE HPPathInv OBVIOUS
  <2>1. PICK t \in HPTargets, p, k \in BOOLEAN : hpHandler = Build("", t, p, k) BY DEF HPInit
  <2>2. hpHandler.target = t BY <2>1 DEF Build
  <2>3. hpOut = [q \in HPReqs |-> Absent] BY DEF HPInit
  <2> QED BY <2>2, <2>3 DEF HPPathInv
<1>2. HPPathInv => RewrittenPathsAgree BY DEF HPPathInv, RewrittenPathsAgree, PathRight
<1> QED BY <1>1, <1>2, HPPathStep, PTL DEF HPSpec

\* The HTTP proxy forwards as it says: connections keep the round tripper they authenticated
\* with, and paths are joined right.
THEOREM RequestsAreForwarded == HPSpec => RequestsForwarded
<1> QED BY StickyIsKept, RewritesAgree, PTL DEF RequestsForwarded
=============================================================================
