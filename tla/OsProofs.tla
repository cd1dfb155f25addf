------------------------------ MODULE OsProofs ------------------------------
(***************************************************************************)
(* Proofs about what goroutines and processes share through the operating  *)
(* system: the pid file, for any instances, records and number of files;   *)
(* locked files, for any goroutines, processes and contents.               *)
(***************************************************************************)
EXTENDS LockedFile, PidFile, SequenceTheorems, TLAPS

-----------------------------------------------------------------------------
(* The pid file.                                                           *)

PFTypeOK ==
    /\ pfData \in Seq(Seq(Nat))
    /\ pfLock \in Seq(PFProcs \cup {Nil}) /\ Len(pfLock) = Len(pfData)
    /\ pfLast \in Seq(PFProcs \cup {Nil}) /\ Len(pfLast) = Len(pfData)
    /\ pfPath \in 0 .. Len(pfData)
    /\ pfPc \in [PFProcs -> {"out", "lock", "write", "sync", "runs"}]
    /\ pfFile \in [PFProcs -> 0 .. Len(pfData)]
    /\ \A p \in PFProcs : pfPc[p] # "out" => pfFile[p] # 0

\* flock: whoever has the lock of a file is about to write it or to return.
LockHeld ==
    \A f \in 1 .. Len(pfData) : pfLock[f] # Nil =>
        pfPc[pfLock[f]] \in {"write", "sync"} /\ pfFile[pfLock[f]] = f

\* What a call of CreatePidFile finds in its file, if it has it alone.
AsLeft(p) ==
    /\ pfPc[p] \in {"lock", "write"} => pfData[pfFile[p]] = <<>>
    /\ pfPc[p] = "sync" => pfData[pfFile[p]] = PFRecord[p]

\* A file that is not shared is created by one call at a time.
Alone ==
    \A p \in PFProcs : Creating(p) /\ pfFile[p] \notin pfShared =>
        /\ AsLeft(p)
        /\ \A q \in PFProcs : Creating(q) /\ pfFile[q] = pfFile[p] => q = p

\* Beside an instance nobody disturbs, nobody creates, and the path names its file.
Undisturbed ==
    \A p \in PFProcs \ pfDisturbed : pfPc[p] # "out" =>
        /\ \A q \in PFProcs : Creating(q) => q = p
        /\ pfPath = pfFile[p]
        /\ AsLeft(p)
        /\ pfPc[p] = "runs" => pfData[pfFile[p]] = PFRecord[p]

\* A file that is not shared has the last record, once it has been created.
LastKept ==
    \A f \in (1 .. Len(pfData)) \ pfShared :
        (\A p \in PFProcs : Creating(p) => pfFile[p] # f) /\ pfLast[f] # Nil =>
            pfData[f] = PFRecord[pfLast[f]]

PFInv == PFTypeOK /\ LockHeld /\ Alone /\ Undisturbed /\ LastKept

\* No file, no instance: the invariant holds at the start.
LEMMA PFInitInv == PFInit => PFInv
BY DEF PFInit, PFInv, PFTypeOK, LockHeld, Alone, Undisturbed, LastKept, Creating

\* os.OpenFile on a file that is there.
LEMMA OpenStep ==
    ASSUME PFInv, NEW p \in PFProcs, OpenPidFile(p)
    PROVE  PFInv'
<1> DEFINE f == pfPath
<1>1. f \in 1 .. Len(pfData) BY DEF OpenPidFile, PFInv, PFTypeOK
<1>2. /\ pfData' \in Seq(Seq(Nat)) /\ Len(pfData') = Len(pfData) /\ pfData'[f] = <<>>
      /\ \A g \in 1 .. Len(pfData) : g # f => pfData'[g] = pfData[g]
  <2>1. pfData \in Seq(Seq(Nat)) /\ <<>> \in Seq(Nat) BY DEF PFInv, PFTypeOK
  <2> QED BY <1>1, <2>1, ExceptSeq DEF OpenPidFile
<1>3. /\ UNCHANGED <<pfPath, pfLock, pfLast>> /\ pfPc[p] = "out"
      /\ pfPc' = [pfPc EXCEPT ![p] = "lock"] /\ pfFile' = [pfFile EXCEPT ![p] = f]
      /\ pfDisturbed' = (pfDisturbed \ {p}) \cup {q \in PFProcs \ {p} : pfPc[q] # "out"}
                              \cup {q \in {p} : \E r \in PFProcs \ {p} : Creating(r)}
      /\ pfShared' = pfShared \cup {g \in {f} : \E q \in PFProcs : Creating(q) /\ pfFile[q] = g}
  BY DEF OpenPidFile, Disturb
<1>4. PFTypeOK'
  <2>1. pfFile' \in [PFProcs -> 0 .. Len(pfData')] BY <1>1, <1>2, <1>3 DEF PFInv, PFTypeOK
  <2>2. pfPc' \in [PFProcs -> {"out", "lock", "write", "sync", "runs"}]
    BY <1>3 DEF PFInv, PFTypeOK
  <2>3. \A q \in PFProcs : pfPc'[q] # "out" => pfFile'[q] # 0
    BY <1>1, <1>3 DEF PFInv, PFTypeOK
  <2> QED BY <1>1, <1>2, <1>3, <2>1, <2>2, <2>3 DEF PFInv, PFTypeOK
<1>5. /\ \A q \in PFProcs : q # p => pfPc'[q] = pfPc[q] /\ pfFile'[q] = pfFile[q]
      /\ pfPc'[p] = "lock" /\ pfFile'[p] = f
  BY <1>3 DEF PFInv, PFTypeOK
<1>6. LockHeld'
  <2> SUFFICES ASSUME NEW g \in 1 .. Len(pfData), pfLock[g] # Nil
               PROVE  pfPc'[pfLock[g]] \in {"write", "sync"} /\ pfFile'[pfLock[g]] = g
    BY <1>2, <1>3 DEF LockHeld
  <2>1. pfLock[g] \in PFProcs /\ pfPc[pfLock[g]] \in {"write", "sync"} /\ pfFile[pfLock[g]] = g
    BY DEF PFInv, LockHeld, PFTypeOK
  <2> QED BY <1>3, <1>5, <2>1
<1>7. Alone'
  <2> SUFFICES ASSUME NEW r \in PFProcs, Creating(r)', pfFile'[r] \notin pfShared'
               PROVE  AsLeft(r)' /\ \A q \in PFProcs : Creating(q)' /\ pfFile'[q] = pfFile'[r] => q = r
    BY DEF Alone
  <2>1. \A q \in PFProcs : q # p => (Creating(q)' <=> Creating(q)) BY <1>5 DEF Creating
  <2>2. CASE r = p
    <3>1. \A q \in PFProcs : ~(Creating(q) /\ pfFile[q] = f) BY <1>3, <1>5, <2>2
    <3> QED BY <1>2, <1>5, <2>1, <2>2, <3>1 DEF AsLeft
  <2>3. CASE r # p
    <3>1. Creating(r) /\ pfFile'[r] = pfFile[r] /\ pfFile[r] \notin pfShared
      BY <1>3, <1>5, <2>1, <2>3
    <3>2. pfFile[r] # f BY <1>3, <1>5, <2>3, <3>1
    <3>3. AsLeft(r) /\ \A q \in PFProcs : Creating(q) /\ pfFile[q] = pfFile[r] => q = r
      BY <3>1 DEF PFInv, Alone
    <3>4. pfFile[r] \in 1 .. Len(pfData) BY <3>1 DEF PFInv, PFTypeOK, Creating
    <3> QED BY <1>2, <1>5, <2>1, <2>3, <3>2, <3>3, <3>4 DEF AsLeft
  <2> QED BY <2>2, <2>3
<1>8. Undisturbed'
  BY <1>2, <1>3, <1>5 DEF PFInv, PFTypeOK, Undisturbed, AsLeft, Creating
<1>9. LastKept'
  <2> SUFFICES ASSUME NEW g \in 1 .. Len(pfData), g \notin pfShared',
                      \A q \in PFProcs : Creating(q)' => pfFile'[q] # g, pfLast[g] # Nil
               PROVE  pfData'[g] = PFRecord[pfLast[g]]
    BY <1>2, <1>3 DEF LastKept
  <2>1. Creating(p)' /\ ~Creating(p) /\ \A q \in PFProcs : q # p => (Creating(q)' <=> Creating(q))
    BY <1>3, <1>5 DEF Creating
  <2>2. g # f BY <1>5, <2>1
  <2>3. g \notin pfShared /\ \A q \in PFProcs : Creating(q) => pfFile[q] # g BY <1>3, <1>5, <2>1
  <2> QED BY <1>2, <2>2, <2>3 DEF PFInv, LastKept
<1> QED BY <1>4, <1>6, <1>7, <1>8, <1>9 DEF PFInv

\* os.OpenFile makes the file, which nobody has opened yet.
LEMMA MakeStep ==
    ASSUME PFInv, NEW p \in PFProcs, MakePidFile(p)
    PROVE  PFInv'
<1> DEFINE f == Len(pfData) + 1
<1>1. pfPath = 0 /\ pfPc[p] = "out" /\ Len(pfData) \in Nat BY DEF MakePidFile, PFInv, PFTypeOK
<1>2. /\ pfData' \in Seq(Seq(Nat)) /\ Len(pfData') = f /\ pfData'[f] = <<>>
      /\ \A g \in 1 .. Len(pfData) : pfData'[g] = pfData[g]
  <2>1. pfData \in Seq(Seq(Nat)) /\ <<>> \in Seq(Nat) BY DEF PFInv, PFTypeOK
  <2> QED BY <2>1 DEF MakePidFile
<1>3. /\ pfLock' \in Seq(PFProcs \cup {Nil}) /\ Len(pfLock') = f /\ pfLock'[f] = Nil
      /\ pfLast' \in Seq(PFProcs \cup {Nil}) /\ Len(pfLast') = f /\ pfLast'[f] = Nil
      /\ \A g \in 1 .. Len(pfData) : pfLock'[g] = pfLock[g] /\ pfLast'[g] = pfLast[g]
  BY DEF MakePidFile, PFInv, PFTypeOK
<1>4. /\ pfPath' = f /\ pfShared' = pfShared
      /\ pfPc' = [pfPc EXCEPT ![p] = "lock"] /\ pfFile' = [pfFile EXCEPT ![p] = f]
      /\ pfDisturbed' = (pfDisturbed \ {p}) \cup {q \in PFProcs \ {p} : pfPc[q] # "out"}
                              \cup {q \in {p} : \E r \in PFProcs \ {p} : Creating(r)}
  BY DEF MakePidFile, Disturb
<1>5. /\ \A q \in PFProcs : q # p => pfPc'[q] = pfPc[q] /\ pfFile'[q] = pfFile[q]
      /\ pfPc'[p] = "lock" /\ pfFile'[p] = f
  BY <1>4 DEF PFInv, PFTypeOK
<1>6. \A q \in PFProcs : pfFile[q] \in 0 .. Len(pfData) /\ pfFile[q] # f
  BY <1>1 DEF PFInv, PFTypeOK
<1>7. PFTypeOK'
  <2>1. pfFile' \in [PFProcs -> 0 .. Len(pfData')] BY <1>1, <1>2, <1>4 DEF PFInv, PFTypeOK
  <2>2. pfPc' \in [PFProcs -> {"out", "lock", "write", "sync", "runs"}]
    BY <1>4 DEF PFInv, PFTypeOK
  <2>3. \A q \in PFProcs : pfPc'[q] # "out" => pfFile'[q] # 0
    BY <1>1, <1>5 DEF PFInv, PFTypeOK
  <2> QED BY <1>1, <1>2, <1>3, <1>4, <2>1, <2>2, <2>3 DEF PFTypeOK
<1>8. LockHeld'
  <2> SUFFICES ASSUME NEW g \in 1 .. f, pfLock'[g] # Nil
               PROVE  pfPc'[pfLock'[g]] \in {"write", "sync"} /\ pfFile'[pfLock'[g]] = g
    BY <1>2 DEF LockHeld
  <2>1. g \in 1 .. Len(pfData) /\ pfLock'[g] = pfLock[g] BY <1>1, <1>3
  <2>2. pfLock[g] \in PFProcs /\ pfPc[pfLock[g]] \in {"write", "sync"} /\ pfFile[pfLock[g]] = g
    BY <2>1 DEF PFInv, LockHeld, PFTypeOK
  <2> QED BY <1>1, <1>5, <2>1, <2>2
<1>9. Alone'
  <2> SUFFICES ASSUME NEW r \in PFProcs, Creating(r)', pfFile'[r] \notin pfShared'
               PROVE  AsLeft(r)' /\ \A q \in PFProcs : Creating(q)' /\ pfFile'[q] = pfFile'[r] => q = r
    BY DEF Alone
  <2>1. \A q \in PFProcs : q # p => (Creating(q)' <=> Creating(q)) BY <1>5 DEF Creating
  <2>2. CASE r = p BY <1>2, <1>5, <1>6, <2>2 DEF AsLeft
  <2>3. CASE r # p
    <3>1. Creating(r) /\ pfFile'[r] = pfFile[r] /\ pfFile[r] \notin pfShared
      BY <1>4, <1>5, <2>1, <2>3
    <3>2. AsLeft(r) /\ \A q \in PFProcs : Creating(q) /\ pfFile[q] = pfFile[r] => q = r
      BY <3>1 DEF PFInv, Alone
    <3>3. pfFile[r] \in 1 .. Len(pfData) BY <3>1 DEF PFInv, PFTypeOK, Creating
    <3> QED BY <1>1, <1>2, <1>5, <1>6, <2>1, <2>3, <3>2, <3>3 DEF AsLeft
  <2> QED BY <2>2, <2>3
<1>10. Undisturbed'
  BY <1>2, <1>4, <1>5 DEF PFInv, PFTypeOK, Undisturbed, AsLeft, Creating
<1>11. LastKept'
  <2> SUFFICES ASSUME NEW g \in (1 .. f) \ pfShared', \A q \in PFProcs : Creating(q)' => pfFile'[q] # g,
                      pfLast'[g] # Nil
               PROVE  pfData'[g] = PFRecord[pfLast'[g]]
    BY <1>2 DEF LastKept
  <2>1. g \in (1 .. Len(pfData)) \ pfShared /\ pfLast'[g] = pfLast[g] /\ pfData'[g] = pfData[g]
    BY <1>1, <1>2, <1>3, <1>4
  <2>2. \A q \in PFProcs : Creating(q) => pfFile[q] # g BY <1>1, <1>5 DEF Creating
  <2> QED BY <2>1, <2>2 DEF PFInv, LastKept
<1> QED BY <1>7, <1>8, <1>9, <1>10, <1>11 DEF PFInv

\* A step of p that leaves the files open and the others where they are.
LEMMA LockHeldKept ==
    ASSUME PFInv, NEW p \in PFProcs, pfFile' = pfFile, Len(pfData') = Len(pfData),
           \A q \in PFProcs : q # p => pfPc'[q] = pfPc[q],
           \A f \in 1 .. Len(pfData) :
               \/ pfLock'[f] = Nil
               \/ pfLock'[f] = pfLock[f] /\ pfLock[f] # p
               \/ pfLock'[f] = p /\ pfFile[p] = f /\ pfPc'[p] \in {"write", "sync"}
    PROVE  LockHeld'
<1> SUFFICES ASSUME NEW f \in 1 .. Len(pfData), pfLock'[f] # Nil
             PROVE  pfPc'[pfLock'[f]] \in {"write", "sync"} /\ pfFile'[pfLock'[f]] = f
  BY DEF LockHeld
<1>1. CASE pfLock'[f] = p /\ pfFile[p] = f /\ pfPc'[p] \in {"write", "sync"} BY <1>1
<1>2. CASE pfLock'[f] = pfLock[f] /\ pfLock[f] # p
  <2>1. pfLock[f] \in PFProcs BY <1>2 DEF PFInv, PFTypeOK
  <2>2. pfPc[pfLock[f]] \in {"write", "sync"} /\ pfFile[pfLock[f]] = f
    BY <1>2 DEF PFInv, LockHeld
  <2> QED BY <1>2, <2>1, <2>2
<1> QED BY <1>1, <1>2

\* syscall.Flock, which cannot fail on a file that is not shared.
LEMMA FlockStep ==
    ASSUME PFInv, NEW p \in PFProcs, FlockPidFile(p)
    PROVE  PFInv'
<1> DEFINE f == pfFile[p]
<1>1. f \in 1 .. Len(pfData) /\ pfPc[p] = "lock" BY DEF FlockPidFile, PFInv, PFTypeOK
<1>2. UNCHANGED <<pfPath, pfData, pfFile, pfLast, pfShared, pfDisturbed>> BY DEF FlockPidFile
<1>3. /\ pfPc' \in [PFProcs -> {"out", "lock", "write", "sync", "runs"}]
      /\ \A q \in PFProcs : q # p => pfPc'[q] = pfPc[q]
  BY DEF FlockPidFile, PFInv, PFTypeOK
<1>4. \A q \in PFProcs : q # p => (Creating(q)' <=> Creating(q)) BY <1>3 DEF Creating
<1>5. CASE pfLock[f] = Nil
  <2>1. /\ pfLock' \in Seq(PFProcs \cup {Nil}) /\ Len(pfLock') = Len(pfLock) /\ pfLock'[f] = p
        /\ \A g \in 1 .. Len(pfLock) : g # f => pfLock'[g] = pfLock[g]
    <3>1. pfLock \in Seq(PFProcs \cup {Nil}) /\ f \in 1 .. Len(pfLock) BY <1>1 DEF PFInv, PFTypeOK
    <3> QED BY <1>5, <3>1, ExceptSeq DEF FlockPidFile
  <2>2. pfPc'[p] = "write" BY <1>5 DEF FlockPidFile, PFInv, PFTypeOK
  <2>3. PFTypeOK' BY <1>1, <1>2, <1>3, <2>1 DEF PFInv, PFTypeOK
  <2>4. LockHeld'
    <3>1. \A g \in 1 .. Len(pfData) : pfLock[g] # p
      BY <1>1, PFAssumption DEF PFInv, LockHeld
    <3>2. Len(pfLock) = Len(pfData) BY DEF PFInv, PFTypeOK
    <3> QED BY <1>2, <1>3, <2>1, <2>2, <3>1, <3>2, LockHeldKept
  <2>5. Creating(p)' /\ Creating(p) BY <1>1, <2>2 DEF Creating
  <2>6. Alone' /\ LastKept'
    BY <1>1, <1>2, <1>3, <1>4, <2>2, <2>5 DEF PFInv, Alone, AsLeft, LastKept
  <2>7. Undisturbed'
    BY <1>1, <1>2, <1>3, <1>4, <2>2, <2>5 DEF PFInv, Undisturbed, AsLeft
  <2> QED BY <2>3, <2>4, <2>6, <2>7 DEF PFInv
<1>6. CASE pfLock[f] # Nil
  <2>1. pfPc'[p] = "out" /\ pfLock' = pfLock BY <1>6 DEF FlockPidFile, PFInv, PFTypeOK
  <2>2. f \in pfShared
    <3>1. pfLock[f] \in PFProcs BY <1>1, <1>6 DEF PFInv, PFTypeOK
    <3>2. pfPc[pfLock[f]] \in {"write", "sync"} /\ pfFile[pfLock[f]] = f
      BY <1>1, <1>6 DEF PFInv, LockHeld
    <3>3. pfLock[f] # p /\ Creating(pfLock[f]) /\ Creating(p) BY <1>1, <3>2 DEF Creating
    <3> QED BY <3>1, <3>2, <3>3 DEF PFInv, Alone
  <2>3. PFTypeOK' BY <1>1, <1>2, <1>3, <2>1 DEF PFInv, PFTypeOK
  <2>4. LockHeld'
    <3>1. \A g \in 1 .. Len(pfData) : pfLock[g] # p
      BY <1>1, PFAssumption DEF PFInv, LockHeld
    <3> QED BY <1>2, <1>3, <2>1, <3>1, LockHeldKept
  <2>5. ~Creating(p)' BY <2>1 DEF Creating
  <2>6. Alone' /\ Undisturbed'
    BY <1>2, <1>3, <1>4, <2>1, <2>5 DEF PFInv, Alone, AsLeft, Undisturbed
  <2>7. LastKept'
    BY <1>2, <1>4, <2>2 DEF PFInv, LastKept
  <2> QED BY <2>3, <2>4, <2>6, <2>7 DEF PFInv
<1> QED BY <1>5, <1>6

\* A write over an empty file leaves what was written.
LEMMA WrittenOverEmpty ==
    ASSUME NEW r \in Seq(Nat)
    PROVE  SubSeq(r, 1, Len(r)) \o SubSeq(<<>>, Len(r) + 1, Len(<<>>)) = r
<1> DEFINE e == SubSeq(<<>>, Len(r) + 1, Len(<<>>))
<1>1. <<>> \in Seq(Nat) /\ Len(<<>>) = 0 /\ Len(r) \in Nat OBVIOUS
<1>2. e = <<>> BY <1>1, SubSeqProperties
<1>3. SubSeq(r, 1, Len(r)) = r OBVIOUS
<1> QED BY <1>2, <1>3, ConcatEmptySeq

\* f.WriteString, whole or cut off by an error.
LEMMA WriteStep ==
    ASSUME PFInv, NEW p \in PFProcs, NEW n \in 0 .. Len(PFRecord[p]), WritePidFile(p, n)
    PROVE  PFInv'
<1> DEFINE f == pfFile[p]
           d == SubSeq(PFRecord[p], 1, n) \o SubSeq(pfData[f], n + 1, Len(pfData[f]))
<1>1. f \in 1 .. Len(pfData) /\ pfPc[p] = "write" BY DEF WritePidFile, PFInv, PFTypeOK
<1>2. PFRecord[p] \in Seq(Nat) /\ pfData[f] \in Seq(Nat) /\ n \in Nat /\ n <= Len(PFRecord[p])
  BY <1>1, PFAssumption DEF PFInv, PFTypeOK
<1>3. d \in Seq(Nat)
  <2>1. SubSeq(PFRecord[p], 1, n) \in Seq(Nat) BY <1>2
  <2>2. SubSeq(pfData[f], n + 1, Len(pfData[f])) \in Seq(Nat) BY <1>2
  <2> QED BY <2>1, <2>2
<1>4. /\ pfData' \in Seq(Seq(Nat)) /\ Len(pfData') = Len(pfData) /\ pfData'[f] = d
      /\ \A g \in 1 .. Len(pfData) : g # f => pfData'[g] = pfData[g]
  <2> HIDE DEF d
  <2>1. pfData' = [pfData EXCEPT ![f] = d] BY DEF WritePidFile, d
  <2>2. pfData \in Seq(Seq(Nat)) BY DEF PFInv, PFTypeOK
  <2> QED BY <1>1, <1>3, <2>1, <2>2, ExceptSeq
<1>5. pfData[f] = <<>> /\ n = Len(PFRecord[p]) => d = PFRecord[p]
  BY <1>2, WrittenOverEmpty
<1> HIDE DEF d
<1>6. UNCHANGED <<pfPath, pfFile, pfShared, pfDisturbed>> BY DEF WritePidFile
<1>7. /\ pfPc' \in [PFProcs -> {"out", "lock", "write", "sync", "runs"}]
      /\ \A q \in PFProcs : q # p => pfPc'[q] = pfPc[q]
  BY DEF WritePidFile, PFInv, PFTypeOK
<1>8. \A q \in PFProcs : q # p => (Creating(q)' <=> Creating(q)) BY <1>7 DEF Creating
<1>9. Creating(p) BY <1>1 DEF Creating
<1>10. CASE n = Len(PFRecord[p])
  <2>1. pfPc'[p] = "sync" /\ UNCHANGED <<pfLock, pfLast>>
    BY <1>10 DEF WritePidFile, PFInv, PFTypeOK
  <2>2. Creating(p)' BY <2>1 DEF Creating
  <2>3. PFTypeOK' BY <1>1, <1>4, <1>6, <1>7, <2>1 DEF PFInv, PFTypeOK
  <2>4. LockHeld'
    <3>1. \A g \in 1 .. Len(pfData) : pfLock[g] = p => pfFile[p] = g
      BY PFAssumption DEF PFInv, LockHeld
    <3> QED BY <1>4, <1>6, <1>7, <2>1, <3>1, LockHeldKept
  <2>5. Alone'
    <3> SUFFICES ASSUME NEW r \in PFProcs, Creating(r)', pfFile[r] \notin pfShared
                 PROVE  AsLeft(r)' /\ \A q \in PFProcs : Creating(q)' /\ pfFile[q] = pfFile[r] => q = r
      BY <1>6 DEF Alone
    <3>1. Creating(r) /\ \A q \in PFProcs : Creating(q)' => Creating(q) BY <1>8, <1>9
    <3>2. AsLeft(r) /\ \A q \in PFProcs : Creating(q) /\ pfFile[q] = pfFile[r] => q = r
      BY <3>1 DEF PFInv, Alone
    <3>3. CASE r = p BY <1>1, <1>4, <1>5, <1>6, <1>10, <2>1, <3>1, <3>2, <3>3 DEF AsLeft
    <3>4. CASE r # p
      <4>1. pfFile[r] \in 1 .. Len(pfData) /\ pfFile[r] # f
        BY <1>9, <3>1, <3>2, <3>4 DEF PFInv, PFTypeOK, Creating
      <4> QED BY <1>4, <1>6, <1>7, <3>1, <3>2, <3>4, <4>1 DEF AsLeft
    <3> QED BY <3>3, <3>4
  <2>6. Undisturbed'
    <3> SUFFICES ASSUME NEW r \in PFProcs \ pfDisturbed, pfPc'[r] # "out"
                 PROVE  /\ \A q \in PFProcs : Creating(q)' => q = r
                        /\ pfPath = pfFile[r]
                        /\ AsLeft(r)'
                        /\ pfPc'[r] = "runs" => pfData'[pfFile[r]] = PFRecord[r]
      BY <1>6 DEF Undisturbed
    <3>1. pfPc[r] # "out" BY <1>1, <1>7
    <3>2. /\ \A q \in PFProcs : Creating(q) => q = r
          /\ pfPath = pfFile[r] /\ AsLeft(r)
      BY <3>1 DEF PFInv, Undisturbed
    <3>3. r = p BY <1>9, <3>2
    <3>4. \A q \in PFProcs : Creating(q)' => q = r BY <1>8, <1>9, <3>2
    <3>5. AsLeft(r)' BY <1>1, <1>4, <1>5, <1>6, <1>10, <2>1, <3>2, <3>3 DEF AsLeft
    <3> QED BY <2>1, <3>2, <3>3, <3>4, <3>5
  <2>7. LastKept'
    BY <1>4, <1>6, <1>8, <2>1, <2>2 DEF PFInv, PFTypeOK, LastKept
  <2> QED BY <2>3, <2>4, <2>5, <2>6, <2>7 DEF PFInv
<1>11. CASE n # Len(PFRecord[p])
  <2>1. pfPc'[p] = "out" /\ pfLock' = [pfLock EXCEPT ![f] = Nil] /\ pfLast' = [pfLast EXCEPT ![f] = Nil]
    BY <1>11 DEF WritePidFile, PFInv, PFTypeOK
  <2>2. /\ pfLock' \in Seq(PFProcs \cup {Nil}) /\ Len(pfLock') = Len(pfLock) /\ pfLock'[f] = Nil
        /\ \A g \in 1 .. Len(pfLock) : g # f => pfLock'[g] = pfLock[g]
    <3>1. pfLock \in Seq(PFProcs \cup {Nil}) /\ f \in 1 .. Len(pfLock) BY <1>1 DEF PFInv, PFTypeOK
    <3> QED BY <2>1, <3>1, ExceptSeq
  <2>3. /\ pfLast' \in Seq(PFProcs \cup {Nil}) /\ Len(pfLast') = Len(pfLast) /\ pfLast'[f] = Nil
        /\ \A g \in 1 .. Len(pfLast) : g # f => pfLast'[g] = pfLast[g]
    <3>1. pfLast \in Seq(PFProcs \cup {Nil}) /\ f \in 1 .. Len(pfLast) BY <1>1 DEF PFInv, PFTypeOK
    <3> QED BY <2>1, <3>1, ExceptSeq
  <2>4. ~Creating(p)' BY <2>1 DEF Creating
  <2>5. PFTypeOK' BY <1>1, <1>4, <1>6, <1>7, <2>2, <2>3 DEF PFInv, PFTypeOK
  <2>6. LockHeld'
    <3>1. \A g \in 1 .. Len(pfData) : pfLock[g] = p => g = f
      BY PFAssumption DEF PFInv, LockHeld
    <3>2. Len(pfLock) = Len(pfData) BY DEF PFInv, PFTypeOK
    <3>3. \A g \in 1 .. Len(pfData) : pfLock'[g] = Nil \/ (pfLock'[g] = pfLock[g] /\ pfLock[g] # p)
      BY <2>2, <3>1, <3>2
    <3>4. pfFile' = pfFile /\ Len(pfData') = Len(pfData) /\ \A q \in PFProcs : q # p => pfPc'[q] = pfPc[q]
      BY <1>4, <1>6, <1>7
    <3> QED BY <3>3, <3>4, LockHeldKept
  <2>7. Alone'
    <3> SUFFICES ASSUME NEW r \in PFProcs, Creating(r)', pfFile[r] \notin pfShared
                 PROVE  AsLeft(r)' /\ \A q \in PFProcs : Creating(q)' /\ pfFile[q] = pfFile[r] => q = r
      BY <1>6 DEF Alone
    <3>1. r # p /\ Creating(r) /\ \A q \in PFProcs : Creating(q)' => Creating(q)
      BY <1>8, <1>9, <2>4
    <3>2. AsLeft(r) /\ \A q \in PFProcs : Creating(q) /\ pfFile[q] = pfFile[r] => q = r
      BY <3>1 DEF PFInv, Alone
    <3>3. pfFile[r] \in 1 .. Len(pfData) /\ pfFile[r] # f
      BY <1>9, <3>1, <3>2 DEF PFInv, PFTypeOK, Creating
    <3> QED BY <1>4, <1>6, <1>7, <3>1, <3>2, <3>3 DEF AsLeft
  <2>8. Undisturbed'
    BY <1>1, <1>4, <1>6, <1>7, <1>8, <1>9, <2>1, <2>4 DEF PFInv, PFTypeOK, Undisturbed, AsLeft
  <2>9. LastKept'
    BY <1>4, <1>6, <1>8, <2>3, <2>4 DEF PFInv, PFTypeOK, LastKept
  <2> QED BY <2>5, <2>6, <2>7, <2>8, <2>9 DEF PFInv
<1> QED BY <1>10, <1>11

\* CreatePidFile returns, with an error of Sync or without.
LEMMA ReturnStep ==
    ASSUME PFInv, NEW p \in PFProcs, NEW ok \in BOOLEAN, CreateReturns(p, ok)
    PROVE  PFInv'
<1> DEFINE f == pfFile[p]
<1>1. f \in 1 .. Len(pfData) /\ pfPc[p] = "sync" BY DEF CreateReturns, PFInv, PFTypeOK
<1>2. UNCHANGED <<pfPath, pfData, pfFile, pfShared, pfDisturbed>> BY DEF CreateReturns
<1>3. /\ pfPc' \in [PFProcs -> {"out", "lock", "write", "sync", "runs"}]
      /\ \A q \in PFProcs : q # p => pfPc'[q] = pfPc[q]
      /\ pfPc'[p] \in {"runs", "out"}
  BY DEF CreateReturns, PFInv, PFTypeOK
<1>4. /\ pfLock' \in Seq(PFProcs \cup {Nil}) /\ Len(pfLock') = Len(pfLock) /\ pfLock'[f] = Nil
      /\ \A g \in 1 .. Len(pfLock) : g # f => pfLock'[g] = pfLock[g]
  <2>1. pfLock \in Seq(PFProcs \cup {Nil}) /\ f \in 1 .. Len(pfLock) BY <1>1 DEF PFInv, PFTypeOK
  <2> QED BY <2>1, ExceptSeq DEF CreateReturns
<1>5. /\ pfLast' \in Seq(PFProcs \cup {Nil}) /\ Len(pfLast') = Len(pfLast) /\ pfLast'[f] = p
      /\ \A g \in 1 .. Len(pfLast) : g # f => pfLast'[g] = pfLast[g]
  <2>1. pfLast \in Seq(PFProcs \cup {Nil}) /\ f \in 1 .. Len(pfLast) BY <1>1 DEF PFInv, PFTypeOK
  <2> QED BY <2>1, ExceptSeq DEF CreateReturns
<1>6. \A q \in PFProcs : q # p => (Creating(q)' <=> Creating(q)) BY <1>3 DEF Creating
<1>7. Creating(p) /\ ~Creating(p)' BY <1>1, <1>3 DEF Creating
<1>8. PFTypeOK' BY <1>1, <1>2, <1>3, <1>4, <1>5 DEF PFInv, PFTypeOK
<1>9. LockHeld'
  <2>1. \A g \in 1 .. Len(pfData) : pfLock[g] = p => g = f
    BY PFAssumption DEF PFInv, LockHeld
  <2>2. Len(pfLock) = Len(pfData) BY DEF PFInv, PFTypeOK
  <2> QED BY <1>2, <1>3, <1>4, <2>1, <2>2, LockHeldKept
<1>10. Alone'
  BY <1>2, <1>3, <1>6, <1>7 DEF PFInv, Alone, AsLeft
<1>11. Undisturbed'
  BY <1>1, <1>2, <1>3, <1>6, <1>7 DEF PFInv, Undisturbed, AsLeft
<1>12. LastKept'
  <2> SUFFICES ASSUME NEW g \in (1 .. Len(pfData)) \ pfShared,
                      \A q \in PFProcs : Creating(q)' => pfFile[q] # g, pfLast'[g] # Nil
               PROVE  pfData[g] = PFRecord[pfLast'[g]]
    BY <1>2 DEF LastKept
  <2>1. CASE g = f BY <1>1, <1>5, <1>7, <2>1 DEF PFInv, Alone, AsLeft
  <2>2. CASE g # f
    <3>1. Len(pfLast) = Len(pfData) BY DEF PFInv, PFTypeOK
    <3>2. \A q \in PFProcs : Creating(q) => pfFile[q] # g BY <1>6, <2>2
    <3> QED BY <1>5, <2>2, <3>1, <3>2 DEF PFInv, LastKept
  <2> QED BY <2>1, <2>2
<1> QED BY <1>8, <1>9, <1>10, <1>11, <1>12 DEF PFInv

\* RemovePidFile: everyone else is disturbed.
LEMMA RemoveStep ==
    ASSUME PFInv, NEW p \in PFProcs, RemovePidFile(p)
    PROVE  PFInv'
<1>1. /\ pfPc[p] = "runs" /\ pfPath' = 0 /\ UNCHANGED <<pfData, pfLock, pfFile, pfLast, pfShared>>
      /\ pfPc' = [pfPc EXCEPT ![p] = "out"]
      /\ \A q \in PFProcs \ {p} : pfPc[q] # "out" => q \in pfDisturbed'
  BY DEF RemovePidFile, Disturb
<1>2. /\ pfPc' \in [PFProcs -> {"out", "lock", "write", "sync", "runs"}]
      /\ \A q \in PFProcs : q # p => pfPc'[q] = pfPc[q]
      /\ pfPc'[p] = "out"
  BY <1>1 DEF PFInv, PFTypeOK
<1>3. \A q \in PFProcs : Creating(q)' <=> Creating(q) BY <1>1, <1>2 DEF Creating
<1>4. PFTypeOK' BY <1>1, <1>2 DEF PFInv, PFTypeOK
<1>5. LockHeld'
  <2>1. \A g \in 1 .. Len(pfData) : pfLock[g] # p BY <1>1, PFAssumption DEF PFInv, LockHeld
  <2> QED BY <1>1, <1>2, <2>1, LockHeldKept
<1>6. Alone' /\ LastKept'
  BY <1>1, <1>2, <1>3 DEF PFInv, Alone, AsLeft, LastKept
<1>7. Undisturbed' BY <1>1, <1>2 DEF Undisturbed
<1> QED BY <1>4, <1>5, <1>6, <1>7 DEF PFInv

\* Every step of every instance keeps the invariant.
LEMMA PFNextInv == PFInv /\ [PFNext]_pfVars => PFInv'
<1> SUFFICES ASSUME PFInv, [PFNext]_pfVars PROVE PFInv' OBVIOUS
<1>1. CASE UNCHANGED pfVars
  BY <1>1 DEF PFInv, pfVars, PFTypeOK, LockHeld, Alone, AsLeft, Undisturbed, LastKept, Creating
<1> QED BY <1>1, OpenStep, MakeStep, FlockStep, WriteStep, ReturnStep, RemoveStep DEF PFNext

\* CreatePidFile and RemovePidFile: an instance that nobody starts or stops beside is
\* named by the file as long as it runs, and a file that was never open in two calls at
\* once holds one whole record.
THEOREM PidFileIsSafe == PFSpec => []PidFileSafe
<1>1. PFInv => PidFileSafe
  <2> SUFFICES ASSUME PFInv PROVE PidFileSafe OBVIOUS
  <2>1. DOMAIN pfData = 1 .. Len(pfData) BY DEF PFInv, PFTypeOK
  <2> QED BY <2>1 DEF PFInv, PidFileSafe, Undisturbed, LastKept
<1> QED BY <1>1, PFInitInv, PFNextInv, PTL DEF PFSpec

-----------------------------------------------------------------------------
(* Locked files.                                                           *)

LFTypeOK ==
    /\ lfFile \in Seq(Nat) /\ lfGood \in Seq(Nat)
    /\ lfOp \in [LFProcs -> [kind : {"none", "write", "transform", "read", "create", "mutex"},
                             new : Seq(Nat)]]
    /\ lfPc \in [LFProcs -> {"idle", "open", "trunc", "opened", "critical", "tail", "overwrite",
                             "shrink", "deferred", "close", "leaked", "done"}]
    /\ lfLock \in [LFProcs -> {"none", "sh", "ex"}]
    /\ lfOld \in [LFProcs -> Seq(Nat)]
    /\ lfErr \in [LFProcs -> BOOLEAN] /\ lfRet \in [LFProcs -> BOOLEAN]
    /\ lfTorn \in BOOLEAN

\* The lock of a call follows from where it is, and where it is from its kind.
WellPlaced(p) ==
    /\ lfLock[p] = IF lfPc[p] \in {"idle", "open", "done"} THEN "none"
                   ELSE IF Kind(p) = "read" THEN "sh" ELSE "ex"
    /\ lfPc[p] = "trunc" => Truncates(p)
    /\ lfPc[p] \in {"tail", "overwrite", "shrink", "deferred"} => Kind(p) = "transform"
    /\ lfPc[p] = "critical" => Kind(p) = "mutex"
    /\ lfPc[p] \notin {"idle", "done"} => Kind(p) # "none"
    /\ lfPc[p] \notin {"close", "leaked", "done"} => ~lfErr[p]

\* flock: one open file has an exclusive lock, or several have shared ones.
Compatible(p, q) ==
    (Kind(p) = "mutex") = (Kind(q) = "mutex") /\ lfLock[p] = "ex" => lfLock[q] = "none"

\* How far the file has come towards what a writer is to write.
Progress(p) ==
    /\ lfPc[p] = "opened" /\ Truncates(p) =>
         Len(lfFile) <= Len(New(p)) /\ \A i \in 1 .. Len(lfFile) : lfFile[i] = New(p)[i]
    /\ lfPc[p] = "tail" => lfFile = lfOld[p] /\ Len(New(p)) > Len(lfOld[p])
    /\ lfPc[p] = "overwrite" =>
         /\ Len(lfFile) = IF Len(New(p)) > Len(lfOld[p]) THEN Len(New(p)) ELSE Len(lfOld[p])
         /\ \A i \in 1 .. Len(New(p)) : i > Len(lfOld[p]) => lfFile[i] = New(p)[i]
    /\ lfPc[p] = "shrink" =>
         Len(New(p)) <= Len(lfFile) /\ \A i \in 1 .. Len(New(p)) : lfFile[i] = New(p)[i]
    /\ lfPc[p] \in {"deferred", "close"} /\ Writes(p) /\ ~lfRet[p] => lfFile = New(p)

\* What a call has read, and what the file is while it has not touched it, is good.
FromGood(p) ==
    ~lfTorn =>
        /\ lfPc[p] \in {"trunc", "leaked"} /\ Writes(p) => lfFile = lfGood
        /\ lfPc[p] = "opened" /\ Kind(p) = "transform" => lfFile = lfGood
        /\ lfPc[p] \in {"tail", "overwrite", "shrink"} => lfOld[p] = lfGood
        /\ lfPc[p] = "close" /\ Kind(p) = "read" /\ ~lfRet[p] => lfOld[p] = lfGood

\* The file is good while nobody has it locked for writing.
GoodWhenFree ==
    lfTorn \/ (\E p \in LFProcs : Kind(p) # "mutex" /\ lfLock[p] = "ex") \/ lfFile = lfGood

LFInv ==
    /\ LFTypeOK
    /\ \A p \in LFProcs : WellPlaced(p) /\ Progress(p) /\ FromGood(p)
    /\ \A p, q \in LFProcs : p # q => Compatible(p, q)
    /\ GoodWhenFree

\* WriteAt within the file or at its end.
LEMMA WriteAtResult ==
    ASSUME NEW c \in Seq(Nat), NEW s \in Seq(Nat), NEW off \in Nat, off <= Len(c)
    PROVE  /\ WriteAt(c, s, off) \in Seq(Nat)
           /\ Len(WriteAt(c, s, off)) = IF Len(c) > off + Len(s) THEN Len(c) ELSE off + Len(s)
           /\ \A i \in 1 .. Len(WriteAt(c, s, off)) :
                WriteAt(c, s, off)[i] = IF i > off /\ i <= off + Len(s) THEN s[i - off] ELSE c[i]
<1> DEFINE n == IF Len(c) > off + Len(s) THEN Len(c) ELSE off + Len(s)
           w == [i \in 1 .. n |-> IF i > off /\ i <= off + Len(s) THEN s[i - off] ELSE c[i]]
<1>1. n \in Nat /\ Len(c) \in Nat /\ Len(s) \in Nat OBVIOUS
<1>2. \A i \in 1 .. n : i > off /\ i <= off + Len(s) => s[i - off] \in Nat OBVIOUS
<1>3. \A i \in 1 .. n : ~(i > off /\ i <= off + Len(s)) => c[i] \in Nat OBVIOUS
<1>4. w \in [1 .. n -> Nat] BY <1>2, <1>3
<1>5. w \in Seq(Nat) /\ Len(w) = n BY <1>1, <1>4
<1>6. WriteAt(c, s, off) = w BY DEF WriteAt
<1>7. \A i \in 1 .. n : w[i] = IF i > off /\ i <= off + Len(s) THEN s[i - off] ELSE c[i] OBVIOUS
<1> QED BY <1>5, <1>6, <1>7

\* A write that was cut off leaves a file.
LEMMA PartlyIsFile ==
    ASSUME NEW c \in Seq(Nat), NEW s \in Seq(Nat), NEW off \in Nat, off <= Len(c)
    PROVE  Partly(c, s, off) \subseteq Seq(Nat)
<1> SUFFICES ASSUME NEW n \in 0 .. Len(s) PROVE WriteAt(c, SubSeq(s, 1, n), off) \in Seq(Nat)
  BY DEF Partly
<1>1. SubSeq(s, 1, n) \in Seq(Nat) OBVIOUS
<1> QED BY <1>1, WriteAtResult

\* A step of p alone: the rest of the invariant follows from what p does to the file only
\* while it has it locked.
LEMMA OwnStep ==
    ASSUME LFInv, NEW p \in LFProcs, LFTypeOK',
           \A q \in LFProcs : q # p =>
               /\ lfOp'[q] = lfOp[q] /\ lfPc'[q] = lfPc[q] /\ lfLock'[q] = lfLock[q]
               /\ lfOld'[q] = lfOld[q] /\ lfErr'[q] = lfErr[q] /\ lfRet'[q] = lfRet[q],
           WellPlaced(p)', Progress(p)', FromGood(p)',
           \A q \in LFProcs : q # p => Compatible(p, q)' /\ Compatible(q, p)',
           \/ UNCHANGED <<lfFile, lfGood, lfTorn>>
           \/ Kind(p) # "mutex" /\ lfLock[p] = "ex",
           GoodWhenFree'
    PROVE  LFInv'
<1>1. ASSUME NEW q \in LFProcs, q # p PROVE WellPlaced(q)'
  BY <1>1 DEF LFInv, WellPlaced, Truncates, Kind
<1>2. ASSUME NEW q \in LFProcs, q # p PROVE Progress(q)' /\ FromGood(q)'
  <2>1. CASE UNCHANGED <<lfFile, lfGood, lfTorn>>
    <3>1. New(q)' = New(q) /\ (Truncates(q)' <=> Truncates(q)) /\ (Writes(q)' <=> Writes(q))
          /\ Kind(q)' = Kind(q)
      BY <1>2 DEF Truncates, Writes, Kind, New
    <3>2. Progress(q)' BY <1>2, <2>1, <3>1 DEF LFInv, Progress
    <3>3. FromGood(q)' BY <1>2, <2>1, <3>1 DEF LFInv, FromGood
    <3> QED BY <3>2, <3>3
  <2>2. CASE Kind(p) # "mutex" /\ lfLock[p] = "ex" /\ Kind(q) # "mutex"
    <3>1. lfLock[q] = "none" BY <1>2, <2>2 DEF LFInv, Compatible
    <3>2. lfPc[q] \in {"idle", "open", "done"}
      BY <3>1 DEF LFInv, WellPlaced
    <3> QED BY <1>2, <3>2 DEF Progress, FromGood
  <2>3. CASE Kind(q) = "mutex"
    <3>1. Kind(q)' = "mutex" /\ lfPc'[q] \notin {"tail", "overwrite", "shrink", "trunc"}
      BY <1>2, <2>3 DEF LFInv, WellPlaced, Kind, Truncates
    <3> QED BY <3>1 DEF Progress, FromGood, Truncates, Writes
  <2> QED BY <2>1, <2>2, <2>3
<1>3. ASSUME NEW q \in LFProcs, NEW r \in LFProcs, q # r PROVE Compatible(q, r)'
  <2>1. CASE q = p BY <1>3, <2>1
  <2>2. CASE r = p BY <1>3, <2>2
  <2>3. CASE q # p /\ r # p BY <1>3, <2>3 DEF LFInv, Compatible, Kind
  <2> QED BY <2>1, <2>2, <2>3
<1> QED BY <1>1, <1>2, <1>3 DEF LFInv

\* A step of p that leaves the locks alone.
LEMMA SameLockStep ==
    ASSUME LFInv, NEW p \in LFProcs, LFTypeOK', UNCHANGED <<lfOp, lfLock>>,
           \A q \in LFProcs : q # p =>
               /\ lfPc'[q] = lfPc[q] /\ lfOld'[q] = lfOld[q]
               /\ lfErr'[q] = lfErr[q] /\ lfRet'[q] = lfRet[q],
           WellPlaced(p)', Progress(p)', FromGood(p)',
           \/ UNCHANGED <<lfFile, lfGood, lfTorn>>
           \/ Kind(p) # "mutex" /\ lfLock[p] = "ex"
    PROVE  LFInv'
<1>1. \A q \in LFProcs : q # p => Compatible(p, q)' /\ Compatible(q, p)'
  BY DEF LFInv, Compatible, Kind
<1>2. GoodWhenFree' BY DEF LFInv, GoodWhenFree, Kind
<1> QED BY <1>1, <1>2, OwnStep

\* A call begins.
LEMMA StartStep ==
    ASSUME LFInv, NEW p \in LFProcs,
           NEW kind \in {"write", "transform", "read", "create", "mutex"}, NEW new \in Seq(Nat),
           Start(p, kind, new)
    PROVE  LFInv'
<1>1. /\ UNCHANGED <<lfFile, lfLock, lfOld, lfErr, lfRet, lfGood, lfTorn>> /\ lfPc[p] = "idle"
      /\ lfOp' = [lfOp EXCEPT ![p] = [kind |-> kind, new |-> new]]
      /\ lfPc' = [lfPc EXCEPT ![p] = "open"]
  BY DEF Start, Go
<1>2. LFTypeOK' BY <1>1 DEF LFInv, LFTypeOK
<1>3. /\ \A q \in LFProcs : q # p => lfOp'[q] = lfOp[q] /\ lfPc'[q] = lfPc[q]
      /\ lfPc'[p] = "open" /\ Kind(p)' = kind
  BY <1>1 DEF LFInv, LFTypeOK, Kind
<1>4. lfLock[p] = "none" /\ ~lfErr[p] BY <1>1 DEF LFInv, WellPlaced
<1>5. WellPlaced(p)' /\ Progress(p)' /\ FromGood(p)'
  BY <1>1, <1>3, <1>4 DEF WellPlaced, Progress, FromGood
<1>6. \A q \in LFProcs : q # p => Compatible(p, q)' /\ Compatible(q, p)'
  BY <1>1, <1>4 DEF Compatible
<1>7. GoodWhenFree'
  BY <1>1, <1>3, <1>4 DEF LFInv, GoodWhenFree, Kind
<1> QED BY <1>1, <1>2, <1>3, <1>5, <1>6, <1>7, OwnStep

\* OpenFile gets its lock, or fails and leaves nothing open.
LEMMA OpenFileStep ==
    ASSUME LFInv, NEW p \in LFProcs, OpenFile(p)
    PROVE  LFInv'
<1>1. UNCHANGED <<lfFile, lfOp, lfOld, lfErr, lfGood, lfTorn>> /\ lfPc[p] = "open" /\ lfLock[p] = "none"
  BY DEF OpenFile, LFInv, WellPlaced
<1>2. /\ \A q \in LFProcs : Kind(q)' = Kind(q) /\ New(q)' = New(q)
      /\ \A q \in LFProcs : (Truncates(q)' <=> Truncates(q)) /\ (Writes(q)' <=> Writes(q))
  BY <1>1 DEF Kind, New, Truncates, Writes
<1>3. CASE Ends(p, "done", TRUE) /\ UNCHANGED lfLock
  <2>1. lfPc' = [lfPc EXCEPT ![p] = "done"] /\ lfRet' = [lfRet EXCEPT ![p] = TRUE] /\ lfLock' = lfLock
    BY <1>3 DEF Ends, Go
  <2>2. LFTypeOK' BY <1>1, <2>1, Zenon DEF LFInv, LFTypeOK
  <2>3. \A q \in LFProcs : q # p => lfPc'[q] = lfPc[q] /\ lfRet'[q] = lfRet[q]
    BY <2>1 DEF LFInv, LFTypeOK
  <2>4. lfPc'[p] = "done" BY <2>1 DEF LFInv, LFTypeOK
  <2>5. WellPlaced(p)' /\ Progress(p)' /\ FromGood(p)'
    BY <1>1, <2>1, <2>4 DEF WellPlaced, Progress, FromGood
  <2> QED BY <1>1, <2>1, <2>2, <2>3, <2>5, SameLockStep
<1>4. CASE (RLock(p) \/ WLock(p)) /\ Go(p, IF Truncates(p) THEN "trunc" ELSE "opened") /\ UNCHANGED lfRet
  <2> DEFINE mode == IF Kind(p) = "read" THEN "sh" ELSE "ex"
  <2>1. /\ \A q \in LFProcs : (Kind(q) = "mutex") = (Kind(p) = "mutex") =>
             IF mode = "sh" THEN lfLock[q] # "ex" ELSE lfLock[q] = "none"
        /\ lfLock' = [lfLock EXCEPT ![p] = mode]
    BY <1>4 DEF RLock, WLock, flock
  <2>2. lfPc' = [lfPc EXCEPT ![p] = IF Truncates(p) THEN "trunc" ELSE "opened"] /\ lfRet' = lfRet
    BY <1>4 DEF Go
  <2>3. LFTypeOK' BY <1>1, <2>1, <2>2 DEF LFInv, LFTypeOK
  <2>4. /\ \A q \in LFProcs : q # p => lfPc'[q] = lfPc[q] /\ lfLock'[q] = lfLock[q]
        /\ lfPc'[p] = IF Truncates(p) THEN "trunc" ELSE "opened"
        /\ lfLock'[p] = mode
    BY <2>1, <2>2 DEF LFInv, LFTypeOK
  <2>5. Kind(p) # "none" BY <1>1 DEF LFInv, WellPlaced
  <2>6. ~lfErr[p] BY <1>1 DEF LFInv, WellPlaced
  <2>7. WellPlaced(p)'
    BY <1>1, <1>2, <2>4, <2>5, <2>6 DEF WellPlaced
  <2>8. Progress(p)' BY <1>2, <2>4 DEF Progress
  <2>9. \A q \in LFProcs : q # p => Compatible(p, q)' /\ Compatible(q, p)'
    BY <1>2, <2>1, <2>4 DEF Compatible
  <2>10. GoodWhenFree'
    BY <1>1, <1>2, <2>4 DEF LFInv, GoodWhenFree
  <2>11. FromGood(p)'
    <3>1. CASE Writes(p)
      <4>1. Kind(p) # "mutex" /\ Kind(p) # "read" BY <3>1 DEF Writes
      <4>2. \A q \in LFProcs : Kind(q) # "mutex" => lfLock[q] # "ex" BY <2>1, <4>1
      <4>3. lfTorn \/ lfFile = lfGood BY <4>2 DEF LFInv, GoodWhenFree
      <4> QED BY <1>1, <2>4, <4>1, <4>3 DEF FromGood
    <3>2. CASE ~Writes(p)
      <4>1. Kind(p) # "transform" BY <3>2 DEF Writes
      <4> QED BY <1>2, <2>4, <3>2, <4>1 DEF FromGood
    <3> QED BY <3>1, <3>2
  <2> QED BY <1>1, <2>2, <2>3, <2>4, <2>7, <2>8, <2>9, <2>10, <2>11, OwnStep
<1> QED BY <1>3, <1>4 DEF OpenFile

\* A writer has its file to itself.
LEMMA WriterHolds ==
    ASSUME LFInv, NEW p \in LFProcs, Writes(p), lfPc[p] \notin {"idle", "open", "done"}
    PROVE  Kind(p) # "mutex" /\ Kind(p) # "read" /\ lfLock[p] = "ex"
BY DEF LFInv, WellPlaced, Writes

\* A call gives its lock up, with the file as the history says.
LEMMA GiveUpStep ==
    ASSUME LFInv, NEW p \in LFProcs, LFTypeOK', lfOp' = lfOp,
           \A q \in LFProcs : q # p =>
               /\ lfPc'[q] = lfPc[q] /\ lfLock'[q] = lfLock[q] /\ lfOld'[q] = lfOld[q]
               /\ lfErr'[q] = lfErr[q] /\ lfRet'[q] = lfRet[q],
           lfPc'[p] = "done", lfLock'[p] = "none",
           \/ UNCHANGED <<lfFile, lfGood, lfTorn>> /\ (Writes(p) => lfTorn \/ lfFile = lfGood)
           \/ Writes(p) /\ lfLock[p] = "ex" /\ (lfTorn' \/ lfFile' = lfGood')
    PROVE  LFInv'
<1>1. \A q \in LFProcs : Kind(q)' = Kind(q) BY DEF Kind
<1>2. WellPlaced(p)' /\ Progress(p)' /\ FromGood(p)' BY DEF WellPlaced, Progress, FromGood
<1>3. \A q \in LFProcs : q # p => Compatible(p, q)' /\ Compatible(q, p)'
  BY <1>1 DEF LFInv, Compatible
<1>4. Writes(p) => Kind(p) # "mutex" BY DEF Writes
<1>5. GoodWhenFree'
  <2>1. CASE Writes(p) BY <2>1 DEF GoodWhenFree
  <2>2. CASE ~Writes(p)
    <3>1. UNCHANGED <<lfFile, lfGood, lfTorn>> BY <2>2
    <3>2. Kind(p) # "mutex" => lfLock[p] # "ex"
      <4>1. Kind(p) \in {"none", "write", "transform", "read", "create", "mutex"}
        BY DEF LFInv, LFTypeOK, Kind
      <4> QED BY <2>2, <4>1 DEF LFInv, WellPlaced, Writes
    <3> QED BY <1>1, <3>1, <3>2 DEF LFInv, GoodWhenFree
  <2> QED BY <2>1, <2>2
<1> QED BY <1>2, <1>3, <1>4, <1>5, OwnStep

\* O_TRUNC, after the lock.
LEMMA TruncateStep ==
    ASSUME LFInv, NEW p \in LFProcs, Truncate(p)
    PROVE  LFInv'
<1>1. UNCHANGED <<lfOp, lfOld, lfErr, lfGood, lfTorn>> /\ lfPc[p] = "trunc" BY DEF Truncate
<1>2. Truncates(p) /\ Writes(p) /\ ~lfErr[p] /\ Kind(p) # "none" /\ Kind(p) # "mutex"
  BY <1>1 DEF LFInv, WellPlaced, Truncates, Writes
<1>3. lfLock[p] = "ex" /\ Kind(p) # "read" BY <1>1, <1>2, WriterHolds
<1>4. Kind(p)' = Kind(p) /\ New(p)' = New(p) /\ Truncates(p)' /\ Kind(p) # "transform"
  BY <1>1, <1>2 DEF Kind, New, Truncates
<1>5. CASE lfFile' = <<>> /\ Go(p, "opened") /\ UNCHANGED <<lfLock, lfRet>>
  <2>1. lfPc' = [lfPc EXCEPT ![p] = "opened"] BY <1>5 DEF Go
  <2>2. LFTypeOK' BY <1>1, <1>5, <2>1 DEF LFInv, LFTypeOK
  <2>3. lfPc'[p] = "opened" /\ \A q \in LFProcs : q # p => lfPc'[q] = lfPc[q]
    BY <2>1 DEF LFInv, LFTypeOK
  <2>4. WellPlaced(p)' BY <1>1, <1>2, <1>3, <1>4, <1>5, <2>3 DEF WellPlaced
  <2>5. New(p) \in Seq(Nat) BY DEF LFInv, LFTypeOK, New
  <2>6. Progress(p)' BY <1>4, <1>5, <2>3, <2>5 DEF Progress
  <2>7. FromGood(p)' BY <1>4, <2>3 DEF FromGood
  <2> QED BY <1>1, <1>2, <1>3, <1>5, <2>2, <2>3, <2>4, <2>6, <2>7, SameLockStep
<1>6. CASE Ends(p, "done", TRUE) /\ lfLock' = [lfLock EXCEPT ![p] = "none"] /\ UNCHANGED lfFile
  <2>1. lfPc' = [lfPc EXCEPT ![p] = "done"] /\ lfRet' = [lfRet EXCEPT ![p] = TRUE] BY <1>6 DEF Ends, Go
  <2>2. LFTypeOK' BY <1>1, <1>6, <2>1, Zenon DEF LFInv, LFTypeOK
  <2>3. /\ \A q \in LFProcs : q # p => lfPc'[q] = lfPc[q] /\ lfRet'[q] = lfRet[q] /\ lfLock'[q] = lfLock[q]
        /\ lfPc'[p] = "done" /\ lfLock'[p] = "none"
    BY <1>6, <2>1 DEF LFInv, LFTypeOK
  <2>4. lfTorn \/ lfFile = lfGood BY <1>1, <1>2 DEF LFInv, FromGood
  <2> QED BY <1>1, <1>6, <2>2, <2>3, <2>4, GiveUpStep
<1> QED BY <1>5, <1>6 DEF Truncate

\* Close, whose unlock may fail, and the garbage collector after it.
LEMMA CloseFileStep ==
    ASSUME LFInv, NEW p \in LFProcs, Close(p)
    PROVE  LFInv'
<1>1. UNCHANGED <<lfFile, lfOp, lfOld, lfErr>> /\ lfPc[p] = "close" /\ Settle(p, lfRet[p]) BY DEF Close
<1>2. /\ Kind(p)' = Kind(p) /\ New(p)' = New(p) /\ New(p) \in Seq(Nat)
      /\ (Writes(p)' <=> Writes(p)) /\ (Truncates(p)' <=> Truncates(p)) /\ Kind(p) # "none"
  BY <1>1 DEF LFInv, LFTypeOK, WellPlaced, Kind, New, Writes, Truncates
<1>3. /\ lfGood' \in Seq(Nat) /\ lfTorn' \in BOOLEAN
      /\ Writes(p) => lfTorn' \/ lfFile' = lfGood'
      /\ ~Writes(p) => UNCHANGED <<lfGood, lfTorn>>
  <2>1. CASE ~Writes(p) BY <1>1, <2>1 DEF Settle, LFInv, LFTypeOK
  <2>2. CASE Writes(p) /\ lfRet[p] BY <1>1, <2>2 DEF Settle, LFInv, LFTypeOK
  <2>3. CASE Writes(p) /\ ~lfRet[p]
    <3>1. lfFile = New(p) BY <1>1, <2>3 DEF LFInv, Progress
    <3> QED BY <1>1, <1>2, <2>3, <3>1 DEF Settle
  <2> QED BY <2>1, <2>2, <2>3
<1>4. Writes(p) => lfLock[p] = "ex" /\ Kind(p) # "mutex" BY <1>1, WriterHolds
<1>5. CASE Go(p, "done") /\ lfLock' = [lfLock EXCEPT ![p] = "none"] /\ UNCHANGED lfRet
  <2>1. lfPc' = [lfPc EXCEPT ![p] = "done"] BY <1>5 DEF Go
  <2>2. LFTypeOK' BY <1>1, <1>3, <1>5, <2>1 DEF LFInv, LFTypeOK
  <2>3. /\ \A q \in LFProcs : q # p => lfPc'[q] = lfPc[q] /\ lfLock'[q] = lfLock[q]
        /\ lfPc'[p] = "done" /\ lfLock'[p] = "none"
    BY <1>5, <2>1 DEF LFInv, LFTypeOK
  <2> QED BY <1>1, <1>3, <1>4, <1>5, <2>2, <2>3, GiveUpStep
<1>6. CASE Go(p, "leaked") /\ lfRet' = [lfRet EXCEPT ![p] = @ \/ Kind(p) = "write"] /\ UNCHANGED lfLock
  <2>1. lfPc' = [lfPc EXCEPT ![p] = "leaked"] BY <1>6 DEF Go
  <2>2. lfRet' \in [LFProcs -> BOOLEAN] BY <1>6, Zenon DEF LFInv, LFTypeOK
  <2>3. LFTypeOK' BY <1>1, <1>3, <1>6, <2>1, <2>2 DEF LFInv, LFTypeOK
  <2>4. /\ \A q \in LFProcs : q # p => lfPc'[q] = lfPc[q] /\ lfRet'[q] = lfRet[q]
        /\ lfPc'[p] = "leaked"
    BY <1>6, <2>1 DEF LFInv, LFTypeOK
  <2>5. WellPlaced(p)' BY <1>1, <1>2, <1>6, <2>4 DEF LFInv, WellPlaced
  <2>6. Progress(p)' BY <2>4 DEF Progress
  <2>7. FromGood(p)' BY <1>2, <1>3, <2>4 DEF FromGood
  <2> QED BY <1>1, <1>3, <1>4, <1>6, <2>3, <2>4, <2>5, <2>6, <2>7, SameLockStep
<1> QED BY <1>5, <1>6 DEF Close

\* The garbage collector closes a file whose unlock has failed.
LEMMA CollectStep ==
    ASSUME LFInv, NEW p \in LFProcs, Collect(p)
    PROVE  LFInv'
<1>1. /\ UNCHANGED <<lfFile, lfOp, lfOld, lfErr, lfRet, lfGood, lfTorn>> /\ lfPc[p] = "leaked"
      /\ lfPc' = [lfPc EXCEPT ![p] = "done"] /\ lfLock' = [lfLock EXCEPT ![p] = "none"]
  BY DEF Collect, Go
<1>2. LFTypeOK' BY <1>1 DEF LFInv, LFTypeOK
<1>3. /\ \A q \in LFProcs : q # p => lfPc'[q] = lfPc[q] /\ lfLock'[q] = lfLock[q]
      /\ lfPc'[p] = "done" /\ lfLock'[p] = "none"
  BY <1>1 DEF LFInv, LFTypeOK
<1>4. Writes(p) => lfTorn \/ lfFile = lfGood BY <1>1 DEF LFInv, FromGood
<1> QED BY <1>1, <1>2, <1>3, <1>4, GiveUpStep

\* Read, under its shared lock.
LEMMA ReadFileStep ==
    ASSUME LFInv, NEW p \in LFProcs, ReadFile(p)
    PROVE  LFInv'
<1>1. UNCHANGED <<lfFile, lfOp, lfLock, lfErr, lfGood, lfTorn>> /\ lfPc[p] = "opened" /\ Kind(p) = "read"
  BY DEF ReadFile
<1>2. /\ lfPc' = [lfPc EXCEPT ![p] = "close"]
      /\ \/ lfOld' = [lfOld EXCEPT ![p] = lfFile] /\ lfRet' = [lfRet EXCEPT ![p] = FALSE]
         \/ lfOld' = lfOld /\ lfRet' = [lfRet EXCEPT ![p] = TRUE]
  BY DEF ReadFile, Ends, Go
<1>3. lfRet' \in [LFProcs -> BOOLEAN] BY <1>2, Zenon DEF LFInv, LFTypeOK
<1>4. LFTypeOK'
  <2>1. lfOld' \in [LFProcs -> Seq(Nat)] BY <1>2 DEF LFInv, LFTypeOK
  <2>2. UNCHANGED <<lfFile, lfOp, lfLock, lfErr, lfGood, lfTorn>>
        /\ lfPc' = [lfPc EXCEPT ![p] = "close"]
    BY <1>1, <1>2
  <2> QED BY <1>3, <2>1, <2>2 DEF LFInv, LFTypeOK
<1>5. /\ \A q \in LFProcs : q # p => lfPc'[q] = lfPc[q] /\ lfRet'[q] = lfRet[q] /\ lfOld'[q] = lfOld[q]
      /\ lfPc'[p] = "close" /\ (~lfRet'[p] => lfOld'[p] = lfFile)
  BY <1>2 DEF LFInv, LFTypeOK
<1>6. Kind(p)' = "read" /\ ~Writes(p)' BY <1>1 DEF Kind, Writes
<1>7. WellPlaced(p)' BY <1>1, <1>5, <1>6 DEF LFInv, WellPlaced
<1>8. Progress(p)' BY <1>5, <1>6 DEF Progress
<1>9. FromGood(p)'
  <2>1. lfLock[p] = "sh" BY <1>1 DEF LFInv, WellPlaced
  <2>2. \A q \in LFProcs : Kind(q) # "mutex" => lfLock[q] # "ex"
    BY <1>1, <2>1 DEF LFInv, Compatible
  <2>3. lfTorn \/ lfFile = lfGood BY <2>2 DEF LFInv, GoodWhenFree
  <2> QED BY <1>1, <1>5, <1>6, <2>3 DEF FromGood
<1> QED BY <1>1, <1>4, <1>5, <1>7, <1>8, <1>9, SameLockStep

\* Two files that agree all along are the same.
LEMMA SameFile ==
    ASSUME NEW s \in Seq(Nat), NEW t \in Seq(Nat), Len(s) = Len(t), \A i \in 1 .. Len(s) : s[i] = t[i]
    PROVE  s = t
BY SeqEqual

\* io.Copy of Write goes on, ends or fails.
LEMMA CopyFileStep ==
    ASSUME LFInv, NEW p \in LFProcs, Copy(p)
    PROVE  LFInv'
<1>1. UNCHANGED <<lfOp, lfLock, lfOld, lfErr, lfGood, lfTorn>> /\ lfPc[p] = "opened" /\ Truncates(p)
  BY DEF Copy
<1>2. Writes(p) /\ Kind(p) # "transform" /\ Kind(p) # "read" /\ Kind(p) # "none"
  BY <1>1 DEF Truncates, Writes
<1>3. lfLock[p] = "ex" /\ Kind(p) # "mutex" /\ ~lfErr[p]
  BY <1>1, <1>2, WriterHolds DEF LFInv, WellPlaced
<1>4. Kind(p)' = Kind(p) /\ New(p)' = New(p) /\ Truncates(p)' /\ Writes(p)' /\ New(p) \in Seq(Nat)
  BY <1>1, <1>2 DEF Kind, New, Truncates, Writes, LFInv, LFTypeOK
<1>5. lfFile \in Seq(Nat) /\ Len(lfFile) <= Len(New(p)) /\ \A i \in 1 .. Len(lfFile) : lfFile[i] = New(p)[i]
  BY <1>1 DEF LFInv, LFTypeOK, Progress
<1>6. CASE lfFile' = Append(lfFile, New(p)[Len(lfFile) + 1]) /\ UNCHANGED <<lfPc, lfRet>>
            /\ Len(lfFile) # Len(New(p))
  <2>1. Len(lfFile) + 1 \in 1 .. Len(New(p)) BY <1>4, <1>5, <1>6
  <2>2. lfFile' \in Seq(Nat) /\ Len(lfFile') = Len(lfFile) + 1
        /\ \A i \in 1 .. Len(lfFile') : lfFile'[i] = New(p)[i]
    BY <1>4, <1>5, <1>6, <2>1
  <2>3. LFTypeOK' BY <1>1, <1>6, <2>2 DEF LFInv, LFTypeOK
  <2>4. WellPlaced(p)' BY <1>1, <1>2, <1>3, <1>4, <1>6 DEF WellPlaced
  <2>5. Progress(p)' BY <1>1, <1>4, <1>6, <2>1, <2>2 DEF Progress
  <2>6. FromGood(p)' BY <1>1, <1>2, <1>4, <1>6 DEF FromGood
  <2> QED BY <1>1, <1>3, <1>6, <2>3, <2>4, <2>5, <2>6, SameLockStep
<1>7. CASE /\ lfFile' = lfFile /\ lfPc' = [lfPc EXCEPT ![p] = "close"]
           /\ \/ Len(lfFile) = Len(New(p)) /\ lfRet' = [lfRet EXCEPT ![p] = FALSE]
              \/ lfRet' = [lfRet EXCEPT ![p] = TRUE]
  <2>1. lfRet' \in [LFProcs -> BOOLEAN] BY <1>7, Zenon DEF LFInv, LFTypeOK
  <2>2. LFTypeOK' BY <1>1, <1>7, <2>1 DEF LFInv, LFTypeOK
  <2>3. /\ \A q \in LFProcs : q # p => lfPc'[q] = lfPc[q] /\ lfRet'[q] = lfRet[q]
        /\ lfPc'[p] = "close" /\ (~lfRet'[p] => Len(lfFile) = Len(New(p)))
    BY <1>7 DEF LFInv, LFTypeOK
  <2>4. ~lfRet'[p] => lfFile = New(p) BY <1>4, <1>5, <2>3, SameFile
  <2>5. WellPlaced(p)' BY <1>1, <1>2, <1>3, <1>4, <2>3 DEF WellPlaced
  <2>6. Progress(p)' BY <1>4, <1>7, <2>3, <2>4 DEF Progress
  <2>7. FromGood(p)' BY <1>2, <1>4, <2>3 DEF FromGood
  <2> QED BY <1>1, <1>3, <2>2, <2>3, <2>5, <2>6, <2>7, SameLockStep
<1> QED BY <1>6, <1>7 DEF Copy, Ends, Go

\* Mutex.Lock and the unlock function, which leave the other file alone.
LEMMA MutexStep ==
    ASSUME LFInv, NEW p \in LFProcs, MutexLock(p)
    PROVE  LFInv'
<1>1. /\ UNCHANGED <<lfFile, lfOp, lfLock, lfOld, lfErr, lfRet, lfGood, lfTorn>> /\ Kind(p) = "mutex"
      /\ \/ lfPc[p] = "opened" /\ lfPc' = [lfPc EXCEPT ![p] = "critical"]
         \/ lfPc[p] = "critical" /\ lfPc' = [lfPc EXCEPT ![p] = "close"]
  BY DEF MutexLock, Go
<1>2. LFTypeOK' BY <1>1 DEF LFInv, LFTypeOK
<1>3. /\ \A q \in LFProcs : q # p => lfPc'[q] = lfPc[q]
      /\ lfPc'[p] \in {"critical", "close"}
  BY <1>1 DEF LFInv, LFTypeOK
<1>4. lfLock[p] = "ex" /\ ~lfErr[p] BY <1>1 DEF LFInv, WellPlaced
<1>5. Kind(p)' = "mutex" /\ ~Writes(p)' /\ ~Truncates(p)' BY <1>1 DEF Kind, Writes, Truncates
<1>6. WellPlaced(p)' BY <1>1, <1>3, <1>4, <1>5 DEF WellPlaced
<1>7. Progress(p)' /\ FromGood(p)' BY <1>3, <1>5 DEF Progress, FromGood
<1> QED BY <1>1, <1>2, <1>3, <1>6, <1>7, SameLockStep

\* A step of Transform after it has opened its file: where it may go, and with what.
LEMMA TransformStep ==
    ASSUME LFInv, NEW p \in LFProcs, Kind(p) = "transform",
           lfPc[p] \in {"opened", "tail", "overwrite", "shrink", "deferred"},
           UNCHANGED <<lfOp, lfLock, lfGood, lfTorn>>, lfFile' \in Seq(Nat),
           lfOld' \in [LFProcs -> Seq(Nat)],
           lfErr' \in [LFProcs -> BOOLEAN], lfRet' \in [LFProcs -> BOOLEAN],
           NEW pc \in {"tail", "overwrite", "shrink", "deferred", "close"}, Go(p, pc),
           pc # "close" => ~lfErr'[p],
           \A q \in LFProcs : q # p =>
               lfOld'[q] = lfOld[q] /\ lfErr'[q] = lfErr[q] /\ lfRet'[q] = lfRet[q],
           pc \in {"tail", "overwrite", "shrink"} => lfTorn \/ lfOld'[p] = lfGood,
           pc = "tail" => lfFile' = lfOld'[p] /\ Len(New(p)) > Len(lfOld'[p]),
           pc = "overwrite" =>
               /\ Len(lfFile') = IF Len(New(p)) > Len(lfOld'[p]) THEN Len(New(p)) ELSE Len(lfOld'[p])
               /\ \A i \in 1 .. Len(New(p)) : i > Len(lfOld'[p]) => lfFile'[i] = New(p)[i],
           pc = "shrink" =>
               Len(New(p)) <= Len(lfFile') /\ \A i \in 1 .. Len(New(p)) : lfFile'[i] = New(p)[i],
           pc \in {"deferred", "close"} /\ ~lfRet'[p] => lfFile' = New(p)
    PROVE  LFInv'
<1>1. lfPc' = [lfPc EXCEPT ![p] = pc] BY DEF Go
<1>2. /\ LFTypeOK' /\ lfPc'[p] = pc
      /\ \A q \in LFProcs : q # p => lfPc'[q] = lfPc[q]
  BY <1>1 DEF LFInv, LFTypeOK
<1>3. lfLock[p] = "ex" /\ Kind(p)' = "transform" /\ New(p)' = New(p) /\ ~Truncates(p)'
  BY DEF LFInv, WellPlaced, Kind, New, Truncates
<1>4. WellPlaced(p)' BY <1>2, <1>3 DEF WellPlaced
<1>5. Progress(p)' BY <1>2, <1>3 DEF Progress
<1>6. FromGood(p)' BY <1>2, <1>3 DEF FromGood
<1> QED BY <1>2, <1>3, <1>4, <1>5, <1>6, SameLockStep

\* A Transform that is under way.
LEMMA Transforming ==
    ASSUME LFInv, NEW p \in LFProcs
    PROVE  /\ lfPc[p] \in {"tail", "overwrite", "shrink", "deferred"} => Kind(p) = "transform" /\ ~lfErr[p]
           /\ lfPc[p] = "opened" => ~lfErr[p]
           /\ New(p) \in Seq(Nat) /\ Len(New(p)) \in Nat /\ lfOld[p] \in Seq(Nat) /\ Len(lfOld[p]) \in Nat
           /\ lfFile \in Seq(Nat) /\ Len(lfFile) \in Nat
<1>1. WellPlaced(p) /\ LFTypeOK BY DEF LFInv
<1>2. lfOp[p] \in [kind : {"none", "write", "transform", "read", "create", "mutex"}, new : Seq(Nat)]
      /\ lfOld[p] \in Seq(Nat) /\ lfFile \in Seq(Nat)
  BY <1>1 DEF LFTypeOK
<1>3. New(p) \in Seq(Nat) BY <1>2 DEF New
<1>4. /\ lfPc[p] \in {"tail", "overwrite", "shrink", "deferred"} => Kind(p) = "transform" /\ ~lfErr[p]
      /\ lfPc[p] = "opened" => ~lfErr[p]
  BY <1>1 DEF WellPlaced
<1> QED BY <1>2, <1>3, <1>4

\* The file is read and the function called.
LEMMA ReadAllStep ==
    ASSUME LFInv, NEW p \in LFProcs, ReadAll(p)
    PROVE  LFInv'
<1>1. /\ UNCHANGED <<lfFile, lfOp, lfLock, lfGood, lfTorn>> /\ lfPc[p] = "opened" /\ Kind(p) = "transform"
      /\ lfOld' = [lfOld EXCEPT ![p] = lfFile]
  BY DEF ReadAll
<1>2. ~lfErr[p] /\ lfFile \in Seq(Nat) /\ Len(lfFile) \in Nat /\ New(p) \in Seq(Nat) /\ Len(New(p)) \in Nat
  BY <1>1, Transforming
<1>3. lfOld' \in [LFProcs -> Seq(Nat)] /\ lfOld'[p] = lfFile
      /\ \A q \in LFProcs : q # p => lfOld'[q] = lfOld[q]
  BY <1>1 DEF LFInv, LFTypeOK
<1>4. lfTorn \/ lfFile = lfGood BY <1>1 DEF LFInv, FromGood
<1>5. CASE /\ Go(p, IF Len(New(p)) > Len(lfFile) THEN "tail" ELSE "overwrite")
           /\ UNCHANGED <<lfErr, lfRet>>
  <2>1. lfErr \in [LFProcs -> BOOLEAN] /\ lfRet \in [LFProcs -> BOOLEAN] BY DEF LFInv, LFTypeOK
  <2>2. CASE Len(New(p)) > Len(lfFile)
    <3>1. Go(p, "tail") BY <1>5, <2>2
    <3> QED BY <1>1, <1>2, <1>3, <1>4, <1>5, <2>1, <2>2, <3>1, TransformStep
  <2>3. CASE ~(Len(New(p)) > Len(lfFile))
    <3>1. Go(p, "overwrite") BY <1>5, <2>3
    <3>2. \A i \in 1 .. Len(New(p)) : ~(i > Len(lfFile)) BY <1>2, <2>3
    <3> QED BY <1>1, <1>2, <1>3, <1>4, <1>5, <2>1, <2>3, <3>1, <3>2, TransformStep
  <2> QED BY <2>2, <2>3
<1>6. CASE Ends(p, "close", TRUE) /\ lfErr' = [lfErr EXCEPT ![p] = TRUE]
  <2>1. Go(p, "close") /\ lfRet' = [lfRet EXCEPT ![p] = TRUE] BY <1>6 DEF Ends
  <2>2. /\ lfErr' \in [LFProcs -> BOOLEAN] /\ lfRet' \in [LFProcs -> BOOLEAN]
        /\ lfRet'[p]
        /\ \A q \in LFProcs : q # p => lfErr'[q] = lfErr[q] /\ lfRet'[q] = lfRet[q]
    BY <1>6, <2>1, Zenon DEF LFInv, LFTypeOK
  <2> QED BY <1>1, <1>2, <1>3, <2>1, <2>2, TransformStep
<1> QED BY <1>5, <1>6 DEF ReadAll

\* What a call that ends, or goes on to an end, returns.
LEMMA EndsResult ==
    ASSUME LFInv, NEW p \in LFProcs, NEW pc, NEW failed \in BOOLEAN, Ends(p, pc, failed)
    PROVE  /\ Go(p, pc) /\ lfRet' \in [LFProcs -> BOOLEAN] /\ (lfRet'[p] <=> failed)
           /\ \A q \in LFProcs : q # p => lfRet'[q] = lfRet[q]
<1>1. Go(p, pc) /\ lfRet' = [lfRet EXCEPT ![p] = failed] BY DEF Ends
<1>2. lfRet \in [LFProcs -> BOOLEAN] BY DEF LFInv, LFTypeOK
<1> QED BY <1>1, <1>2, Zenon

\* The part of the new contents beyond the old length.
LEMMA LongerIs ==
    ASSUME LFInv, NEW p \in LFProcs, Len(New(p)) > Len(lfOld[p])
    PROVE  /\ Longer(p) \in Seq(Nat) /\ Len(Longer(p)) = Len(New(p)) - Len(lfOld[p])
           /\ \A i \in 1 .. Len(Longer(p)) : Longer(p)[i] = New(p)[Len(lfOld[p]) + i]
<1>1. New(p) \in Seq(Nat) /\ Len(New(p)) \in Nat /\ Len(lfOld[p]) \in Nat BY Transforming
<1> DEFINE m == Len(lfOld[p]) + 1
           n == Len(New(p))
<1>3. m \in Int /\ n \in Int /\ m <= n /\ \A i \in m .. n : New(p)[i] \in Nat BY <1>1
<1> HIDE DEF m, n
<1>4. /\ SubSeq(New(p), m, n) \in Seq(Nat)
      /\ Len(SubSeq(New(p), m, n)) = IF m <= n THEN n - m + 1 ELSE 0
      /\ \A i \in 1 .. n - m + 1 : SubSeq(New(p), m, n)[i] = New(p)[m + i - 1]
  BY <1>3, SubSeqProperties
<1> USE DEF m, n
<1>5. Longer(p) = SubSeq(New(p), m, n) BY DEF Longer
<1>6. n - m + 1 = n - Len(lfOld[p]) /\ \A i \in 1 .. n - m + 1 : m + i - 1 = Len(lfOld[p]) + i
  BY <1>1
<1> QED BY <1>3, <1>4, <1>5, <1>6

\* The tail of a longer file is written, or cut off again.
LEMMA WriteTailStep ==
    ASSUME LFInv, NEW p \in LFProcs, WriteTail(p)
    PROVE  LFInv'
<1> DEFINE n == Len(lfOld[p])
           new == New(p)
<1>1. UNCHANGED <<lfOp, lfLock, lfOld, lfErr, lfGood, lfTorn>> /\ lfPc[p] = "tail" BY DEF WriteTail
<1>2. /\ lfFile = lfOld[p] /\ Len(new) > n /\ (lfTorn \/ lfOld[p] = lfGood)
  BY <1>1 DEF LFInv, Progress, FromGood
<1>3. Kind(p) = "transform" /\ ~lfErr[p] /\ n \in Nat /\ Len(new) \in Nat /\ lfFile \in Seq(Nat) /\ new \in Seq(Nat)
  BY <1>1, Transforming
<1>4. lfErr' \in [LFProcs -> BOOLEAN] /\ lfRet \in [LFProcs -> BOOLEAN] /\ lfOld' \in [LFProcs -> Seq(Nat)]
  BY <1>1 DEF LFInv, LFTypeOK
<1>5. /\ Longer(p) \in Seq(Nat) /\ Len(Longer(p)) = Len(new) - n
      /\ \A i \in 1 .. Len(Longer(p)) : Longer(p)[i] = new[n + i]
  BY <1>2, LongerIs
<1>6. CASE lfFile' = WriteAt(lfFile, Longer(p), n) /\ Go(p, "overwrite") /\ UNCHANGED lfRet
  <2>1. /\ lfFile' \in Seq(Nat) /\ Len(lfFile') = Len(new)
        /\ \A i \in 1 .. Len(lfFile') : i > n => lfFile'[i] = Longer(p)[i - n]
    <3>1. n <= Len(lfFile) /\ Len(lfFile) = n /\ n + Len(Longer(p)) = Len(new) BY <1>2, <1>3, <1>5
    <3>2. /\ WriteAt(lfFile, Longer(p), n) \in Seq(Nat)
          /\ Len(WriteAt(lfFile, Longer(p), n)) =
               IF Len(lfFile) > n + Len(Longer(p)) THEN Len(lfFile) ELSE n + Len(Longer(p))
          /\ \A i \in 1 .. Len(WriteAt(lfFile, Longer(p), n)) :
               WriteAt(lfFile, Longer(p), n)[i] =
                 IF i > n /\ i <= n + Len(Longer(p)) THEN Longer(p)[i - n] ELSE lfFile[i]
      BY <1>3, <1>5, <3>1, WriteAtResult
    <3> QED BY <1>2, <1>3, <1>6, <3>1, <3>2
  <2>2. \A i \in 1 .. Len(new) : i > n => lfFile'[i] = new[i]
    <3> SUFFICES ASSUME NEW i \in 1 .. Len(new), i > n PROVE lfFile'[i] = new[i] OBVIOUS
    <3>0. Len(Longer(p)) = Len(new) - n /\ n \in Nat /\ Len(new) \in Nat BY <1>3, <1>5
    <3> HIDE DEF n, new
    <3>1. i - n \in 1 .. Len(Longer(p)) /\ n + (i - n) = i BY <3>0
    <3> QED BY <1>5, <2>1, <3>1
  <2> QED BY <1>1, <1>2, <1>3, <1>4, <1>6, <2>1, <2>2, TransformStep
<1>7. CASE lfFile' \in Partly(lfFile, Longer(p), n) \cup {SubSeq(lfFile, 1, n)} /\ Ends(p, "close", TRUE)
  <2>1. lfFile' \in Seq(Nat)
    <3>1. SubSeq(lfFile, 1, n) \in Seq(Nat) BY <1>2, <1>3
    <3>2. n <= Len(lfFile) BY <1>2, <1>3
    <3>3. Partly(lfFile, Longer(p), n) \subseteq Seq(Nat) BY <1>3, <1>5, <3>2, PartlyIsFile
    <3> QED BY <1>7, <3>1, <3>3
  <2>2. Go(p, "close") /\ lfRet' \in [LFProcs -> BOOLEAN] /\ lfRet'[p]
        /\ \A q \in LFProcs : q # p => lfRet'[q] = lfRet[q]
    BY <1>7, EndsResult
  <2> QED BY <1>1, <1>3, <1>4, <2>1, <2>2, TransformStep
<1> QED BY <1>6, <1>7 DEF WriteTail

\* The old contents are overwritten, wholly or in part.
LEMMA OverwriteStep ==
    ASSUME LFInv, NEW p \in LFProcs, Overwrite(p)
    PROVE  LFInv'
<1> DEFINE n == Len(lfOld[p])
           new == New(p)
           k == IF n < Len(new) THEN n ELSE Len(new)
           s == SubSeq(new, 1, k)
<1>1. UNCHANGED <<lfOp, lfLock, lfOld, lfErr, lfGood, lfTorn>> /\ lfPc[p] = "overwrite" BY DEF Overwrite
<1>2. /\ Len(lfFile) = IF Len(new) > n THEN Len(new) ELSE n
      /\ \A i \in 1 .. Len(new) : i > n => lfFile[i] = new[i]
      /\ (lfTorn \/ lfOld[p] = lfGood)
  BY <1>1 DEF LFInv, Progress, FromGood
<1>3. Kind(p) = "transform" /\ ~lfErr[p] /\ n \in Nat /\ Len(new) \in Nat /\ lfFile \in Seq(Nat) /\ new \in Seq(Nat)
  BY <1>1, Transforming
<1>4. lfErr' \in [LFProcs -> BOOLEAN] /\ lfRet \in [LFProcs -> BOOLEAN] /\ lfOld' \in [LFProcs -> Seq(Nat)]
  BY <1>1 DEF LFInv, LFTypeOK
<1>5. k \in Nat /\ k <= Len(new) /\ s \in Seq(Nat) /\ Len(s) = k /\ \A i \in 1 .. k : s[i] = new[i]
  BY <1>3
<1> HIDE DEF s
<1>6. CASE lfFile' = WriteAt(lfFile, s, 0) /\ Ends(p, IF Len(new) < n THEN "shrink" ELSE "deferred", FALSE)
  <2>1. /\ WriteAt(lfFile, s, 0) \in Seq(Nat)
        /\ Len(WriteAt(lfFile, s, 0)) = IF Len(lfFile) > 0 + Len(s) THEN Len(lfFile) ELSE 0 + Len(s)
        /\ \A i \in 1 .. Len(WriteAt(lfFile, s, 0)) :
             WriteAt(lfFile, s, 0)[i] = IF i > 0 /\ i <= 0 + Len(s) THEN s[i - 0] ELSE lfFile[i]
    <3>1. lfFile \in Seq(Nat) /\ s \in Seq(Nat) /\ 0 \in Nat /\ 0 <= Len(lfFile) BY <1>3, <1>5
    <3> QED BY <3>1, WriteAtResult
  <2>2. /\ lfFile' \in Seq(Nat) /\ Len(lfFile') = Len(lfFile)
        /\ \A i \in 1 .. Len(lfFile') : lfFile'[i] = IF i <= k THEN new[i] ELSE lfFile[i]
    <3>1. Len(lfFile) >= k BY <1>2, <1>3
    <3> QED BY <1>3, <1>5, <1>6, <2>1, <3>1
  <2>3. /\ Go(p, IF Len(new) < n THEN "shrink" ELSE "deferred") /\ lfRet' \in [LFProcs -> BOOLEAN]
        /\ \A q \in LFProcs : q # p => lfRet'[q] = lfRet[q]
    BY <1>6, EndsResult
  <2>4. CASE Len(new) < n
    <3>0. k = Len(new) /\ Len(lfFile') = n BY <1>2, <1>3, <2>2, <2>4
    <3>1. Len(new) <= Len(lfFile') /\ \A i \in 1 .. Len(new) : lfFile'[i] = new[i]
      <4>1. Len(new) <= Len(lfFile') BY <1>3, <2>4, <3>0
      <4>2. ASSUME NEW i \in 1 .. Len(new) PROVE lfFile'[i] = new[i]
        <5>1. i \in 1 .. Len(lfFile') /\ i <= k BY <1>3, <2>4, <3>0
        <5> QED BY <2>2, <5>1
      <4> QED BY <4>1, <4>2
    <3>2. Go(p, "shrink") BY <2>3, <2>4
    <3> QED BY <1>1, <1>2, <1>3, <1>4, <2>2, <2>3, <3>1, <3>2, TransformStep
  <2>5. CASE ~(Len(new) < n)
    <3>1. Len(lfFile') = Len(new) /\ \A i \in 1 .. Len(lfFile') : lfFile'[i] = new[i]
      BY <1>2, <1>3, <2>2, <2>5
    <3>2. lfFile' = new BY <1>3, <2>2, <3>1, SameFile
    <3>3. Go(p, "deferred") BY <2>3, <2>5
    <3> QED BY <1>1, <1>3, <1>4, <2>2, <2>3, <3>2, <3>3, TransformStep
  <2> QED BY <2>4, <2>5
<1>7. CASE lfFile' \in Partly(lfFile, s, 0) /\ Ends(p, "deferred", TRUE)
  <2>1. lfFile' \in Seq(Nat)
    <3>0. lfFile \in Seq(Nat) /\ s \in Seq(Nat) /\ 0 \in Nat /\ 0 <= Len(lfFile) BY <1>3, <1>5
    <3>1. Partly(lfFile, s, 0) \subseteq Seq(Nat) BY <3>0, PartlyIsFile
    <3> QED BY <1>7, <3>1
  <2>2. Go(p, "deferred") /\ lfRet' \in [LFProcs -> BOOLEAN] /\ lfRet'[p]
        /\ \A q \in LFProcs : q # p => lfRet'[q] = lfRet[q]
    BY <1>7, EndsResult
  <2> QED BY <1>1, <1>3, <1>4, <2>1, <2>2, TransformStep
<1> QED BY <1>6, <1>7 DEF Overwrite, s

\* A shorter file is cut off behind the new contents.
LEMMA ShrinkStep ==
    ASSUME LFInv, NEW p \in LFProcs, Shrink(p)
    PROVE  LFInv'
<1> DEFINE new == New(p)
<1>1. UNCHANGED <<lfOp, lfLock, lfOld, lfErr, lfGood, lfTorn>> /\ lfPc[p] = "shrink" BY DEF Shrink
<1>2. Len(new) <= Len(lfFile) /\ \A i \in 1 .. Len(new) : lfFile[i] = new[i]
  BY <1>1 DEF LFInv, Progress
<1>3. Kind(p) = "transform" /\ ~lfErr[p] /\ Len(new) \in Nat /\ lfFile \in Seq(Nat) /\ new \in Seq(Nat)
  BY <1>1, Transforming
<1>4. lfErr' \in [LFProcs -> BOOLEAN] /\ lfRet \in [LFProcs -> BOOLEAN] /\ lfOld' \in [LFProcs -> Seq(Nat)]
  BY <1>1 DEF LFInv, LFTypeOK
<1>5. CASE lfFile' = SubSeq(lfFile, 1, Len(new)) /\ Ends(p, "deferred", FALSE)
  <2>1. lfFile' \in Seq(Nat) /\ Len(lfFile') = Len(new) /\ \A i \in 1 .. Len(new) : lfFile'[i] = lfFile[i]
    BY <1>2, <1>3, <1>5
  <2>2. lfFile' = new BY <1>2, <1>3, <2>1, SameFile
  <2>3. Go(p, "deferred") /\ lfRet' \in [LFProcs -> BOOLEAN]
        /\ \A q \in LFProcs : q # p => lfRet'[q] = lfRet[q]
    BY <1>5, EndsResult
  <2> QED BY <1>1, <1>3, <1>4, <2>1, <2>2, <2>3, TransformStep
<1>6. CASE UNCHANGED lfFile /\ Ends(p, "deferred", TRUE)
  <2>1. Go(p, "deferred") /\ lfRet' \in [LFProcs -> BOOLEAN] /\ lfRet'[p]
        /\ \A q \in LFProcs : q # p => lfRet'[q] = lfRet[q]
    BY <1>6, EndsResult
  <2> QED BY <1>1, <1>3, <1>4, <1>6, <2>1, TransformStep
<1> QED BY <1>5, <1>6 DEF Shrink

\* The deferred function finds no error in Transform's own scope and leaves the file.
LEMMA DeferredStep ==
    ASSUME LFInv, NEW p \in LFProcs, Deferred(p)
    PROVE  LFInv'
<1>1. UNCHANGED <<lfOp, lfLock, lfOld, lfErr, lfRet, lfGood, lfTorn>> /\ lfPc[p] = "deferred" /\ Go(p, "close")
  BY DEF Deferred
<1>2. Kind(p) = "transform" /\ ~lfErr[p] /\ lfFile \in Seq(Nat) BY <1>1, Transforming
<1>3. lfFile' = lfFile BY <1>2 DEF Deferred
<1>4. ~lfRet[p] => lfFile = New(p) BY <1>1, <1>2 DEF LFInv, Progress, Writes
<1>5. lfErr' \in [LFProcs -> BOOLEAN] /\ lfRet' \in [LFProcs -> BOOLEAN] /\ lfOld' \in [LFProcs -> Seq(Nat)]
  BY <1>1 DEF LFInv, LFTypeOK
<1> QED BY <1>1, <1>2, <1>3, <1>4, <1>5, TransformStep

\* A process dies.  Whoever of it had the file locked for writing was alone with it, and
\* the history remembers what it has left.
LEMMA CrashStep ==
    ASSUME LFInv, NEW x \in Processes, Crash(x)
    PROVE  LFInv'
<1> DEFINE dead == {p \in LFProcs : LFProcessOf[p] = x /\ lfPc[p] \notin {"idle", "done"}}
           writing == {p \in dead : Writes(p) /\ lfLock[p] = "ex"}
<1>1. /\ UNCHANGED <<lfOp, lfOld, lfErr, lfRet, lfGood>>
      /\ lfPc' = [p \in LFProcs |-> IF p \in dead THEN "done" ELSE lfPc[p]]
      /\ lfLock' = [p \in LFProcs |-> IF p \in dead THEN "none" ELSE lfLock[p]]
      /\ lfTorn' = (lfTorn \/ (writing # {} /\ lfFile' # lfGood))
      /\ lfFile' \in {lfFile} \cup
           (UNION {Partly(lfFile, New(p), 0) : p \in {q \in writing : lfPc[q] = "overwrite"}}) \cup
           (UNION {Partly(lfFile, Longer(p), Len(lfOld[p])) : p \in {q \in writing : lfPc[q] = "tail"}})
  BY DEF Crash
<1>2. lfFile' \in Seq(Nat) /\ (writing = {} => lfFile' = lfFile)
  <2>1. ASSUME NEW p \in LFProcs PROVE Partly(lfFile, New(p), 0) \subseteq Seq(Nat)
    BY Transforming, PartlyIsFile
  <2>2. ASSUME NEW p \in LFProcs, lfPc[p] = "tail"
        PROVE  Partly(lfFile, Longer(p), Len(lfOld[p])) \subseteq Seq(Nat)
    <3>1. lfFile = lfOld[p] /\ Len(New(p)) > Len(lfOld[p]) BY <2>2 DEF LFInv, Progress
    <3>2. Longer(p) \in Seq(Nat) BY <3>1, LongerIs
    <3>3. Len(lfOld[p]) \in Nat /\ Len(lfOld[p]) <= Len(lfFile) /\ lfFile \in Seq(Nat)
      BY <3>1, Transforming
    <3> QED BY <3>2, <3>3, PartlyIsFile
  <2>3. lfFile \in Seq(Nat) BY DEF LFInv, LFTypeOK
  <2>4. \/ lfFile' = lfFile
        \/ \E p \in writing : lfFile' \in Partly(lfFile, New(p), 0)
        \/ \E p \in writing : lfPc[p] = "tail" /\ lfFile' \in Partly(lfFile, Longer(p), Len(lfOld[p]))
    <3> HIDE DEF writing
    <3> DEFINE over == UNION {Partly(lfFile, New(p), 0) : p \in {q \in writing : lfPc[q] = "overwrite"}}
               tails == UNION {Partly(lfFile, Longer(p), Len(lfOld[p])) :
                                p \in {q \in writing : lfPc[q] = "tail"}}
    <3>1. lfFile' \in over => \E p \in writing : lfFile' \in Partly(lfFile, New(p), 0) BY Zenon
    <3>2. lfFile' \in tails => \E p \in writing :
            lfPc[p] = "tail" /\ lfFile' \in Partly(lfFile, Longer(p), Len(lfOld[p])) BY Zenon
    <3>3. lfFile' \in {lfFile} \cup over \cup tails BY <1>1, Zenon
    <3> HIDE DEF over, tails
    <3> QED BY <3>1, <3>2, <3>3, Zenon
  <2>5. writing \subseteq LFProcs OBVIOUS
  <2> QED BY <2>1, <2>2, <2>3, <2>4, <2>5
<1>3. LFTypeOK' BY <1>1, <1>2 DEF LFInv, LFTypeOK
<1>4. /\ \A p \in LFProcs : p \in dead => lfPc'[p] = "done" /\ lfLock'[p] = "none"
      /\ \A p \in LFProcs : p \notin dead => lfPc'[p] = lfPc[p] /\ lfLock'[p] = lfLock[p]
      /\ \A p \in LFProcs : Kind(p)' = Kind(p) /\ New(p)' = New(p)
      /\ \A p \in LFProcs : (Truncates(p)' <=> Truncates(p)) /\ (Writes(p)' <=> Writes(p))
  BY <1>1 DEF Kind, New, Truncates, Writes
<1>5. ASSUME NEW w \in writing, NEW p \in LFProcs, p # w, Kind(p) # "mutex"
      PROVE  lfPc[p] \in {"idle", "open", "done"}
  <2>1. w \in LFProcs /\ Kind(w) # "mutex" /\ lfLock[w] = "ex" BY DEF Writes
  <2>2. lfLock[p] = "none" BY <1>5, <2>1 DEF LFInv, Compatible
  <2> QED BY <2>2 DEF LFInv, WellPlaced
<1> HIDE DEF dead, writing
<1>6. \A p \in LFProcs : WellPlaced(p)' BY <1>1, <1>4 DEF LFInv, WellPlaced
<1>7. \A p, q \in LFProcs : p # q => Compatible(p, q)' BY <1>4 DEF LFInv, Compatible
<1>8. ASSUME NEW p \in LFProcs PROVE Progress(p)' /\ FromGood(p)'
  <2>1. CASE p \in dead BY <1>4, <2>1 DEF Progress, FromGood
  <2>2. CASE p \notin dead /\ writing = {}
    <3>1. UNCHANGED <<lfFile, lfGood, lfOld, lfRet>> /\ lfTorn' = lfTorn /\ lfPc'[p] = lfPc[p]
      BY <1>1, <1>2, <1>4, <2>2 DEF LFInv, LFTypeOK
    <3>2. Progress(p)' BY <1>4, <3>1 DEF LFInv, Progress
    <3>3. FromGood(p)' BY <1>4, <3>1 DEF LFInv, FromGood
    <3> QED BY <3>2, <3>3
  <2>3. CASE p \notin dead /\ writing # {} /\ Kind(p) # "mutex"
    <3>1. PICK w \in writing : TRUE BY <2>3
    <3>2. w # p BY <2>3 DEF writing
    <3>3. lfPc'[p] \in {"idle", "open", "done"} BY <1>4, <1>5, <2>3, <3>1, <3>2
    <3> QED BY <3>3 DEF Progress, FromGood
  <2>4. CASE Kind(p) = "mutex"
    <3>1. ~Writes(p)' /\ ~Truncates(p)' /\ Kind(p)' = "mutex"
          /\ lfPc'[p] \notin {"tail", "overwrite", "shrink"}
      BY <1>4, <1>6, <2>4 DEF WellPlaced, Writes, Truncates
    <3> QED BY <3>1 DEF Progress, FromGood
  <2> QED BY <2>1, <2>2, <2>3, <2>4
<1>9. GoodWhenFree'
  <2>1. CASE writing # {} BY <1>1, <2>1 DEF GoodWhenFree
  <2>2. CASE writing = {}
    <3>1. UNCHANGED <<lfFile, lfGood>> /\ lfTorn' = lfTorn BY <1>1, <1>2, <2>2 DEF LFInv, LFTypeOK
    <3>2. ASSUME NEW p \in LFProcs, Kind(p) # "mutex", lfLock[p] = "ex"
          PROVE  Kind(p)' # "mutex" /\ lfLock'[p] = "ex"
      <4>1. Kind(p) \in {"none", "write", "transform", "read", "create", "mutex"}
        BY DEF LFInv, LFTypeOK, Kind
      <4>2. Writes(p) BY <3>2, <4>1 DEF LFInv, WellPlaced, Writes
      <4>3. p \notin dead BY <2>2, <3>2, <4>2 DEF writing
      <4> QED BY <1>4, <3>2, <4>3
    <3> QED BY <3>1, <3>2 DEF LFInv, GoodWhenFree
  <2> QED BY <2>1, <2>2
<1> QED BY <1>3, <1>6, <1>7, <1>8, <1>9 DEF LFInv

\* Every step of every call, and every crash, keeps the invariant.
LEMMA LFNextInv == LFInv /\ [LFNext]_lfVars => LFInv'
<1> SUFFICES ASSUME LFInv, [LFNext]_lfVars PROVE LFInv' OBVIOUS
<1>1. CASE UNCHANGED lfVars
  <2>1. LFTypeOK' /\ GoodWhenFree' /\ \A p, q \in LFProcs : p # q => Compatible(p, q)'
    BY <1>1 DEF LFInv, lfVars, LFTypeOK, GoodWhenFree, Compatible, Kind
  <2>2. \A p \in LFProcs : WellPlaced(p)' /\ Progress(p)' /\ FromGood(p)'
    BY <1>1 DEF LFInv, lfVars, WellPlaced, Progress, FromGood, Truncates, Writes, Kind, New
  <2> QED BY <2>1, <2>2 DEF LFInv
<1>2. ASSUME NEW p \in LFProcs,
             \/ \E kind \in {"write", "transform"}, new \in LFContents : Start(p, kind, new)
             \/ \E kind \in {"read", "create", "mutex"} : Start(p, kind, <<>>)
      PROVE  LFInv'
  <2>1. <<>> \in Seq(Nat) /\ LFContents \subseteq Seq(Nat) BY LFAssumption
  <2> QED BY <1>2, <2>1, StartStep
<1>3. CASE \E x \in Processes : Crash(x) BY <1>3, CrashStep
<1> QED BY <1>1, <1>2, <1>3, OpenFileStep, TruncateStep, CloseFileStep, CollectStep, ReadFileStep,
          CopyFileStep, MutexStep, ReadAllStep, WriteTailStep, OverwriteStep, ShrinkStep,
          DeferredStep DEF LFNext

\* Before any call the file is empty, which is what it is supposed to be.
LEMMA LFInitInv == LFInit => LFInv
<1> SUFFICES ASSUME LFInit PROVE LFInv OBVIOUS
<1>1. LFTypeOK
  <2>1. <<>> \in Seq(Nat) OBVIOUS
  <2>2. lfOp \in [LFProcs -> [kind : {"none", "write", "transform", "read", "create", "mutex"},
                              new : Seq(Nat)]]
    BY <2>1 DEF LFInit
  <2> QED BY <2>1, <2>2 DEF LFInit, LFTypeOK
<1>2. \A p \in LFProcs : WellPlaced(p) /\ Progress(p) /\ FromGood(p)
  BY DEF LFInit, WellPlaced, Progress, FromGood
<1>3. GoodWhenFree /\ \A p, q \in LFProcs : p # q => Compatible(p, q)
  BY DEF LFInit, GoodWhenFree, Compatible
<1> QED BY <1>1, <1>2, <1>3 DEF LFInv

\* lockedfile, with any number of goroutines and processes that fail and die as they
\* like: what is read under the lock is what the last successful call was to write, unless
\* a call failed or died over it, and the Mutex has one holder.
THEOREM LockedFileIsSafe == LFSpec => []LockedFileSafe
<1>1. LFInv => LockedFileSafe
  <2> SUFFICES ASSUME LFInv PROVE LockedFileSafe OBVIOUS
  <2>1. LastWriteRead BY DEF LFInv, LastWriteRead, GoodWhenFree, FromGood
  <2>2. ASSUME NEW p \in LFProcs, NEW q \in LFProcs, lfPc[p] = "critical", lfPc[q] = "critical", p # q
        PROVE  FALSE
    <3>1. Kind(p) = "mutex" /\ Kind(q) = "mutex" /\ lfLock[p] = "ex" /\ lfLock[q] = "ex"
      BY <2>2 DEF LFInv, WellPlaced
    <3> QED BY <2>2, <3>1 DEF LFInv, Compatible
  <2> QED BY <2>1, <2>2 DEF LockedFileSafe, MutexExcludes
<1> QED BY <1>1, LFInitInv, LFNextInv, PTL DEF LFSpec

=============================================================================
