------------------------------ MODULE MCSafety ------------------------------
(***************************************************************************)
(* Model-checking instance of state that goroutines and processes share,   *)
(* for safety only and up to symmetry: the updates the write-behind        *)
(* strategy has accepted, the contents of locked files, the pid file, and  *)
(* uvgo's timers.  A behaviour is one of one of the four.                  *)
(***************************************************************************)
EXTENDS WriteBehind, LockedFile, PidFile, UvTimers, TLC

CONSTANTS p1, p2, p3      \* goroutines that use locked files

VARIABLE part

\* Two goroutines of one process and one of another; longer and shorter contents.
MCProcessOf == (p1 :> "A") @@ (p2 :> "A") @@ (p3 :> "B")
MCContents == {<<1>>, <<2, 2>>}

\* Two instances, with records of different lengths.
MCRecord == [i1 |-> <<1, 1>>, i2 |-> <<2>>]

Symmetry == Permutations(Timers) \cup Permutations({p1, p2})

\* Bound: the loop ends by its context and not by the flag that RequestStop sets first,
\* which the run uv_io explores.
StopFlagBound == ~stopFlag'

SHInit ==
    /\ part \in {"strategy", "files", "pidfile", "timers"}
    /\ Init /\ LFInit /\ PFInit /\ UTInit

SHNext ==
    /\ UNCHANGED part
    /\ \/ part = "strategy" /\ Next /\ UNCHANGED <<lfVars, pfVars, utVars>>
       \/ part = "files" /\ LFNext /\ UNCHANGED <<vars, pfVars, utVars>>
       \/ part = "pidfile" /\ PFNext /\ UNCHANGED <<vars, lfVars, utVars>>
       \/ part = "timers" /\ UTNext /\ StopFlagBound /\ UNCHANGED <<vars, lfVars, pfVars>>

SHSpec == SHInit /\ [][SHNext]_<<vars, lfVars, pfVars, utVars, part>>
=============================================================================
