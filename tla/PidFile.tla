------------------------------ MODULE PidFile ------------------------------
(***************************************************************************)
(* The pid file of utils/pidfile/pidfile.go.  The path names a file or     *)
(* none; an instance that has opened a file keeps it when the path is      *)
(* removed and made anew.  A lock belongs to an open file, and goes with   *)
(* it when CreatePidFile returns.                                          *)
(***************************************************************************)
EXTENDS Outcomes, Naturals, Sequences, FiniteSets

CONSTANTS
    PFProcs,        \* instances of the program
    PFRecord,       \* what an instance writes about itself: sequences that may differ in length
    PFMaxFiles      \* bound: how many files the path has named

ASSUME PFAssumption ==
    /\ \A p \in PFProcs : PFRecord[p] \in Seq(Nat) /\ PFRecord[p] # <<>>
    /\ PFMaxFiles \in Nat \ {0} /\ Nil \notin PFProcs

VARIABLES
    pfPath,         \* the file the path names, 0 for none
    pfData, pfLock, \* the contents of each file, and the instance that has its lock
    pfPc, pfFile,   \* where each instance is, and the file it has opened
    pfLast,         \* history: the instance that wrote each file last and returned nil
    pfShared,       \* history: files that two calls of CreatePidFile had open at once
    pfDisturbed     \* history: instances that another one started or stopped beside

pfVars == <<pfPath, pfData, pfLock, pfPc, pfFile, pfLast, pfShared, pfDisturbed>>

PFInit ==
    /\ pfPath = 0 /\ pfData = <<>> /\ pfLock = <<>> /\ pfLast = <<>>
    /\ pfPc = [p \in PFProcs |-> "out"]
    /\ pfFile = [p \in PFProcs |-> 0]
    /\ pfShared = {} /\ pfDisturbed = {}

Creating(p) == pfPc[p] \in {"lock", "write", "sync"}

\* Every other instance that runs or starts has company.
Disturb(p) == pfDisturbed' = (pfDisturbed \ {p}) \cup {q \in PFProcs \ {p} : pfPc[q] # "out"}
                              \cup {q \in {p} : \E r \in PFProcs \ {p} : Creating(r)}

\* Mutant: the file is opened without O_TRUNC.
OpenPidFile_Keeps(p) ==
    /\ pfPc[p] = "out" /\ pfPath # 0
    /\ pfFile' = [pfFile EXCEPT ![p] = pfPath]
    /\ pfPc' = [pfPc EXCEPT ![p] = "lock"]
    /\ Disturb(p)
    /\ pfShared' = pfShared \cup {f \in {pfPath} : \E q \in PFProcs : Creating(q) /\ pfFile[q] = f}
    /\ UNCHANGED <<pfPath, pfData, pfLock, pfLast>>

\* os.OpenFile: a file that is there is emptied, whoever has its lock.
OpenPidFile(p) ==
    /\ pfPc[p] = "out" /\ pfPath # 0
    /\ pfFile' = [pfFile EXCEPT ![p] = pfPath]
    /\ pfPc' = [pfPc EXCEPT ![p] = "lock"]
    /\ Disturb(p)
    /\ pfData' = [pfData EXCEPT ![pfPath] = <<>>]
    /\ pfShared' = pfShared \cup {f \in {pfPath} : \E q \in PFProcs : Creating(q) /\ pfFile[q] = f}
    /\ UNCHANGED <<pfPath, pfLock, pfLast>>

\* os.OpenFile, with O_CREATE.
MakePidFile(p) ==
    /\ pfPc[p] = "out" /\ pfPath = 0 /\ Len(pfData) < PFMaxFiles
    /\ pfPath' = Len(pfData) + 1
    /\ pfData' = Append(pfData, <<>>)
    /\ pfLock' = Append(pfLock, Nil)
    /\ pfLast' = Append(pfLast, Nil)
    /\ pfFile' = [pfFile EXCEPT ![p] = pfPath']
    /\ pfPc' = [pfPc EXCEPT ![p] = "lock"]
    /\ Disturb(p)
    /\ UNCHANGED pfShared

\* syscall.Flock with LOCK_NB: another one's lock is an error.
FlockPidFile(p) ==
    /\ pfPc[p] = "lock"
    /\ IF pfLock[pfFile[p]] = Nil
       THEN /\ pfLock' = [pfLock EXCEPT ![pfFile[p]] = p]
            /\ pfPc' = [pfPc EXCEPT ![p] = "write"]
       ELSE pfPc' = [pfPc EXCEPT ![p] = "out"] /\ UNCHANGED pfLock
    /\ UNCHANGED <<pfPath, pfData, pfFile, pfLast, pfShared, pfDisturbed>>

\* f.WriteString at the start of the file, whatever has come to be there since it was
\* emptied; an error leaves the first n of it and returns.
WritePidFile(p, n) ==
    LET f == pfFile[p] IN
    /\ pfPc[p] = "write" /\ n \in 0 .. Len(PFRecord[p])
    /\ pfData' = [pfData EXCEPT ![f] = SubSeq(PFRecord[p], 1, n) \o SubSeq(@, n + 1, Len(@))]
    /\ IF n = Len(PFRecord[p])
       THEN pfPc' = [pfPc EXCEPT ![p] = "sync"] /\ UNCHANGED <<pfLock, pfLast>>
       ELSE /\ pfPc' = [pfPc EXCEPT ![p] = "out"]
            /\ pfLock' = [pfLock EXCEPT ![f] = Nil]
            /\ pfLast' = [pfLast EXCEPT ![f] = Nil]
    /\ UNCHANGED <<pfPath, pfFile, pfShared, pfDisturbed>>

\* f.Sync and the deferred Close: the lock is given up whether CreatePidFile returns nil
\* and the instance runs, or an error.
CreateReturns(p, ok) ==
    /\ pfPc[p] = "sync"
    /\ pfPc' = [pfPc EXCEPT ![p] = IF ok THEN "runs" ELSE "out"]
    /\ pfLock' = [pfLock EXCEPT ![pfFile[p]] = Nil]
    /\ pfLast' = [pfLast EXCEPT ![pfFile[p]] = p]
    /\ UNCHANGED <<pfPath, pfData, pfFile, pfShared, pfDisturbed>>

\* RemovePidFile: unlocking a file that was only just opened gives up nobody's lock, and
\* the path is removed whosever file it names.
RemovePidFile(p) ==
    /\ pfPc[p] = "runs"
    /\ pfPath' = 0
    /\ pfPc' = [pfPc EXCEPT ![p] = "out"]
    /\ Disturb(p)
    /\ UNCHANGED <<pfData, pfLock, pfFile, pfLast, pfShared>>

PFNext == \E p \in PFProcs :
    \/ OpenPidFile(p) \/ MakePidFile(p) \/ FlockPidFile(p) \/ RemovePidFile(p)
    \/ \E n \in 0 .. Len(PFRecord[p]) : WritePidFile(p, n)
    \/ \E ok \in BOOLEAN : CreateReturns(p, ok)

PFSpec == PFInit /\ [][PFNext]_pfVars

-----------------------------------------------------------------------------

\* CreatePidFile: an instance is named by the file while it runs, unless another one came
\* or went beside it, which the lock does not prevent once CreatePidFile has returned; and
\* a file nobody is creating has one whole record, written last, unless two calls had it
\* open at once or the last one did not return nil.
PidFileSafe ==
    /\ \A p \in PFProcs \ pfDisturbed : pfPc[p] = "runs" =>
         pfPath = pfFile[p] /\ pfData[pfPath] = PFRecord[p]
    /\ \A f \in DOMAIN pfData \ pfShared :
         (\A p \in PFProcs : Creating(p) => pfFile[p] # f) /\ pfLast[f] # Nil =>
           pfData[f] = PFRecord[pfLast[f]]
=============================================================================
