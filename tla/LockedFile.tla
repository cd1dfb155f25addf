----------------------------- MODULE LockedFile -----------------------------
(***************************************************************************)
(* linux/lockedfile: files that are locked while they are open, and a      *)
(* mutex made of one.  flock locks belong to the open file, so that two    *)
(* goroutines of a process exclude each other like two processes do.       *)
(*                                                                         *)
(* One file holds contents, another is the lock file of the Mutex.  A      *)
(* write that fails or is cut off by a crash has written some prefix.      *)
(* lfErr is the variable err of Transform's own scope, which its deferred  *)
(* function looks at; lfRet is what a call returns.                        *)
(***************************************************************************)
EXTENDS Outcomes, Naturals, Sequences, SequencesExt

CONSTANTS
    LFProcs,        \* goroutines, one call each
    LFProcessOf,    \* the process of each
    LFContents      \* what calls write: short sequences

ASSUME LFAssumption == LFContents \subseteq Seq(Nat) /\ Nil \notin LFProcs

VARIABLES
    lfFile,         \* the contents of the file
    lfOp,           \* lfOp[p]: the call of p: its kind and what it is to write
    lfPc,           \* where it is
    lfLock,         \* the lock its open file has: "none", "sh" or "ex"
    lfOld,          \* what it has read
    lfErr, lfRet,   \* TRUE: an error
    lfMu,           \* lfMu[proc]: who has mu.mu of the process's Mutex
    lfGood,         \* history: what the last call that succeeded was to write
    lfTorn,         \* history: a failed or crashed call has left other contents
    lfTried         \* history: the calls that have tried to bring the old contents back

lfVars == <<lfFile, lfOp, lfPc, lfLock, lfOld, lfErr, lfRet, lfMu, lfGood, lfTorn, lfTried>>

Processes == {LFProcessOf[p] : p \in LFProcs}

LFInit ==
    /\ lfFile = <<>> /\ lfGood = <<>>
    /\ lfOp = [p \in LFProcs |-> [kind |-> "none", new |-> <<>>]]
    /\ lfPc = [p \in LFProcs |-> "idle"]
    /\ lfLock = [p \in LFProcs |-> "none"]
    /\ lfOld = [p \in LFProcs |-> <<>>]
    /\ lfErr = [p \in LFProcs |-> FALSE]
    /\ lfRet = [p \in LFProcs |-> FALSE]
    /\ lfMu = [x \in Processes |-> Nil]
    /\ lfTorn = FALSE
    /\ lfTried = {}

Go(p, pc) == lfPc' = [lfPc EXCEPT ![p] = pc]

\* The call is to return an error, or not, once its file is closed.
Ends(p, pc, failed) == Go(p, pc) /\ lfRet' = [lfRet EXCEPT ![p] = failed]

Kind(p) == lfOp[p].kind
New(p) == lfOp[p].new
Writes(p) == Kind(p) \in {"write", "create", "transform"}
Truncates(p) == Kind(p) \in {"write", "create"}

-----------------------------------------------------------------------------
(* Opening and closing.                                                    *)

Start(p, kind, new) ==
    /\ lfPc[p] = "idle"
    /\ lfOp' = [lfOp EXCEPT ![p] = [kind |-> kind, new |-> new]]
    /\ Go(p, "open")
    /\ UNCHANGED <<lfFile, lfLock, lfOld, lfErr, lfRet, lfMu, lfGood, lfTorn, lfTried>>

\* flock, tried again when a signal interrupts it, on the file of contents or that of the
\* Mutex: waits until no other open file has a lock that conflicts.
flock(p, mode) ==
    /\ \A q \in LFProcs : (Kind(q) = "mutex") = (Kind(p) = "mutex") =>
         IF mode = "sh" THEN lfLock[q] # "ex" ELSE lfLock[q] = "none"
    /\ lfLock' = [lfLock EXCEPT ![p] = mode]

\* filelock.RLock: only Read opens its file for reading alone.
RLock(p) == Kind(p) = "read" /\ flock(p, "sh")

\* filelock.Lock.
WLock(p) == Kind(p) # "read" /\ flock(p, "ex")

\* Mutant: the file is truncated as it is opened, before it is locked.
OpenFile_Truncates(p) ==
    /\ lfPc[p] = "open"
    /\ \/ /\ RLock(p) \/ WLock(p)
          /\ Go(p, IF Truncates(p) THEN "trunc" ELSE "opened")
          /\ UNCHANGED lfFile
       \/ Truncates(p) /\ lfFile' = <<>> /\ UNCHANGED <<lfPc, lfLock>>
    /\ UNCHANGED <<lfOp, lfOld, lfErr, lfRet, lfMu, lfGood, lfTorn, lfTried>>

\* OpenFile up to the lock.  An open or a flock that fails leaves nothing open.
OpenFile(p) ==
    /\ lfPc[p] = "open"
    /\ \/ /\ RLock(p) \/ WLock(p)
          /\ Go(p, IF Truncates(p) THEN "trunc" ELSE "opened")
          /\ UNCHANGED lfRet
       \/ Ends(p, "done", TRUE) /\ UNCHANGED lfLock
    /\ UNCHANGED <<lfFile, lfOp, lfOld, lfErr, lfMu, lfGood, lfTorn, lfTried>>

\* O_TRUNC is done after the lock; a regular file that cannot be truncated is closed.
Truncate(p) ==
    /\ lfPc[p] = "trunc"
    /\ \/ lfFile' = <<>> /\ Go(p, "opened") /\ UNCHANGED <<lfLock, lfRet>>
       \/ Ends(p, "done", TRUE) /\ lfLock' = [lfLock EXCEPT ![p] = "none"] /\ UNCHANGED lfFile
    /\ UNCHANGED <<lfOp, lfOld, lfErr, lfMu, lfGood, lfTorn, lfTried>>

\* What the history remembers when p's call is over.
Settle(p, failed) ==
    IF ~Writes(p) THEN UNCHANGED <<lfGood, lfTorn>>
    ELSE IF failed THEN lfTorn' = (lfTorn \/ lfFile # lfGood) /\ UNCHANGED lfGood
    ELSE lfGood' = New(p) /\ lfTorn' = FALSE

\* Close: unlock, then close.  An unlock that fails leaves the file open and locked until
\* the garbage collector comes to it.
Close(p) ==
    /\ lfPc[p] = "close"
    /\ \/ /\ Go(p, "done")
          /\ lfLock' = [lfLock EXCEPT ![p] = "none"]
          /\ UNCHANGED lfRet
       \/ /\ Go(p, "leaked")
          /\ lfRet' = [lfRet EXCEPT ![p] = @ \/ Kind(p) = "write"]
          /\ UNCHANGED lfLock
    /\ Settle(p, lfRet[p])
    /\ UNCHANGED <<lfFile, lfOp, lfOld, lfErr, lfMu, lfTried>>

Collect(p) ==
    /\ lfPc[p] = "leaked"
    /\ Go(p, "done")
    /\ lfLock' = [lfLock EXCEPT ![p] = "none"]
    /\ UNCHANGED <<lfFile, lfOp, lfOld, lfErr, lfRet, lfMu, lfGood, lfTorn, lfTried>>

-----------------------------------------------------------------------------
(* Read, Write, Create and the Mutex.                                      *)

\* Read reads the file by its name, while its own open file has the lock.
ReadFile(p) ==
    /\ lfPc[p] = "opened" /\ Kind(p) = "read"
    /\ \/ lfOld' = [lfOld EXCEPT ![p] = lfFile] /\ Ends(p, "close", FALSE)
       \/ Ends(p, "close", TRUE) /\ UNCHANGED lfOld
    /\ UNCHANGED <<lfFile, lfOp, lfLock, lfErr, lfMu, lfGood, lfTorn, lfTried>>

\* io.Copy of Write, which may stop anywhere; Create leaves an empty file.
Copy(p) ==
    /\ lfPc[p] = "opened" /\ Truncates(p)
    /\ IF Len(lfFile) = Len(New(p)) THEN Ends(p, "close", FALSE) /\ UNCHANGED lfFile
       ELSE \/ lfFile' = Append(lfFile, New(p)[Len(lfFile) + 1]) /\ UNCHANGED <<lfPc, lfRet>>
            \/ Ends(p, "close", TRUE) /\ UNCHANGED lfFile
    /\ UNCHANGED <<lfOp, lfLock, lfOld, lfErr, lfMu, lfGood, lfTorn, lfTried>>

\* Mutex.Lock takes mu.mu with the file locked; the unlock function gives it back first.
MutexLock(p) ==
    LET proc == LFProcessOf[p] IN
    /\ Kind(p) = "mutex"
    /\ \/ /\ lfPc[p] = "opened" /\ lfMu[proc] = Nil
          /\ lfMu' = [lfMu EXCEPT ![proc] = p]
          /\ Go(p, "critical")
       \/ /\ lfPc[p] = "critical"
          /\ lfMu' = [lfMu EXCEPT ![proc] = Nil]
          /\ Go(p, "close")
    /\ UNCHANGED <<lfFile, lfOp, lfLock, lfOld, lfErr, lfRet, lfGood, lfTorn, lfTried>>

-----------------------------------------------------------------------------
(* Transform.                                                              *)

\* WriteAt(s, off) of the file c.
WriteAt(c, s, off) ==
    [i \in 1..(IF Len(c) > off + Len(s) THEN Len(c) ELSE off + Len(s)) |->
        IF i > off /\ i <= off + Len(s) THEN s[i - off] ELSE c[i]]

\* What a WriteAt that fails may leave.
Partly(c, s, off) == {WriteAt(c, SubSeq(s, 1, n), off) : n \in 0..Len(s)}

\* The file is read and t called; an error of either ends the call.
ReadAll(p) ==
    /\ lfPc[p] = "opened" /\ Kind(p) = "transform"
    /\ lfOld' = [lfOld EXCEPT ![p] = lfFile]
    /\ \/ Go(p, IF Len(New(p)) > Len(lfFile) THEN "tail" ELSE "overwrite")
          /\ UNCHANGED <<lfErr, lfRet>>
       \/ Ends(p, "close", TRUE) /\ lfErr' = [lfErr EXCEPT ![p] = TRUE]
    /\ UNCHANGED <<lfFile, lfOp, lfLock, lfMu, lfGood, lfTorn, lfTried>>

\* What the new contents have beyond the length of the old.
Longer(p) == SubSeq(New(p), Len(lfOld[p]) + 1, Len(New(p)))

\* A longer file: its tail first, which is cut off again when it cannot be written.
WriteTail(p) ==
    LET n == Len(lfOld[p])
        tail == Longer(p)
    IN
    /\ lfPc[p] = "tail"
    /\ \/ lfFile' = WriteAt(lfFile, tail, n) /\ Go(p, "overwrite") /\ UNCHANGED <<lfRet, lfTried>>
       \/ /\ lfFile' \in Partly(lfFile, tail, n) \cup {SubSeq(lfFile, 1, n)}
          /\ lfTried' = lfTried \cup {p}
          /\ Ends(p, "close", TRUE)
    /\ UNCHANGED <<lfOp, lfLock, lfOld, lfErr, lfMu, lfGood, lfTorn>>

\* The old contents are overwritten.  The err of this WriteAt is one of its own scope.
Overwrite(p) ==
    LET n == Len(lfOld[p])
        s == SubSeq(New(p), 1, IF n < Len(New(p)) THEN n ELSE Len(New(p)))
    IN
    /\ lfPc[p] = "overwrite"
    /\ \/ lfFile' = WriteAt(lfFile, s, 0) /\ Ends(p, IF Len(New(p)) < n THEN "shrink" ELSE "deferred", FALSE)
       \/ lfFile' \in Partly(lfFile, s, 0) /\ Ends(p, "deferred", TRUE)
    /\ UNCHANGED <<lfOp, lfLock, lfOld, lfErr, lfMu, lfGood, lfTorn, lfTried>>

Shrink(p) ==
    /\ lfPc[p] = "shrink"
    /\ \/ lfFile' = SubSeq(lfFile, 1, Len(New(p))) /\ Ends(p, "deferred", FALSE)
       \/ UNCHANGED lfFile /\ Ends(p, "deferred", TRUE)
    /\ UNCHANGED <<lfOp, lfLock, lfOld, lfErr, lfMu, lfGood, lfTorn, lfTried>>

\* The deferred function.  It looks at the err of Transform's scope, which is nil here.
Deferred(p) ==
    /\ lfPc[p] = "deferred"
    /\ IF lfErr[p]
       THEN /\ lfTried' = lfTried \cup {p}
            /\ \E whole \in BOOLEAN :
                 lfFile' \in IF whole THEN {lfOld[p]} ELSE Partly(lfFile, lfOld[p], 0)
       ELSE UNCHANGED <<lfFile, lfTried>>
    /\ Go(p, "close")
    /\ UNCHANGED <<lfOp, lfLock, lfOld, lfErr, lfRet, lfMu, lfGood, lfTorn>>

-----------------------------------------------------------------------------

\* A process dies, in the middle of a write as well; the system takes its locks away.
Crash(x) ==
    LET dead == {p \in LFProcs : LFProcessOf[p] = x /\ lfPc[p] \notin {"idle", "done"}}
        writing == {p \in dead : Writes(p) /\ lfLock[p] = "ex"}
    IN
    /\ dead # {}
    /\ lfPc' = [p \in LFProcs |-> IF p \in dead THEN "done" ELSE lfPc[p]]
    /\ lfLock' = [p \in LFProcs |-> IF p \in dead THEN "none" ELSE lfLock[p]]
    /\ lfMu' = [lfMu EXCEPT ![x] = Nil]
    /\ lfFile' \in {lfFile} \cup
         (UNION {Partly(lfFile, New(p), 0) : p \in {q \in writing : lfPc[q] = "overwrite"}}) \cup
         (UNION {Partly(lfFile, Longer(p), Len(lfOld[p])) : p \in {q \in writing : lfPc[q] = "tail"}})
    /\ lfTorn' = (lfTorn \/ (writing # {} /\ lfFile' # lfGood))
    /\ UNCHANGED <<lfOp, lfOld, lfErr, lfRet, lfGood, lfTried>>

LFNext ==
    \/ \E p \in LFProcs :
        \/ \E kind \in {"write", "transform"}, new \in LFContents : Start(p, kind, new)
        \/ \E kind \in {"read", "create", "mutex"} : Start(p, kind, <<>>)
        \/ OpenFile(p) \/ Truncate(p) \/ Close(p) \/ Collect(p)
        \/ ReadFile(p) \/ Copy(p) \/ MutexLock(p)
        \/ ReadAll(p) \/ WriteTail(p) \/ Overwrite(p) \/ Shrink(p) \/ Deferred(p)
    \/ \E x \in Processes : Crash(x)

LFSpec == LFInit /\ [][LFNext]_lfVars

-----------------------------------------------------------------------------

\* The lock: what a call reads, and what Transform hands to its function, is what the
\* last successful call was to write, whole, and the file holds it whenever nobody has it
\* locked for writing.  Only a call that failed or crashed may leave anything else.
LastWriteRead ==
    lfTorn \/
    /\ (\A p \in LFProcs : Kind(p) # "mutex" => lfLock[p] # "ex") => lfFile = lfGood
    /\ \A p \in LFProcs :
         \/ Kind(p) = "read" /\ lfPc[p] = "close" /\ ~lfRet[p]
         \/ Kind(p) = "transform" /\ lfPc[p] \in {"tail", "overwrite", "shrink"}
         => lfOld[p] = lfGood

\* Mutex: one holder at a time, in one process and across processes, also when a holder's
\* process has died.
MutexExcludes ==
    \A p, q \in LFProcs : lfPc[p] = "critical" /\ lfPc[q] = "critical" => p = q

\* What a reader of the package relies on.
LockedFileSafe == LastWriteRead /\ MutexExcludes

\* Transform: "In case of failure, make a best effort to roll back before we close the
\* file" (lockedfile.go:160).
FailureRollsBack ==
    \A p \in LFProcs :
        Kind(p) = "transform" /\ lfPc[p] = "close" /\ lfRet[p] /\ lfFile # lfOld[p] =>
            p \in lfTried
=============================================================================
