---------------------------- MODULE MCGoroutines ----------------------------
(***************************************************************************)
(* Model-checking instance of goroutines that must get on: the worker of   *)
(* the write-behind strategy over a database that fails, the same worker   *)
(* and Stop under calls without end, singleflight, and the channel         *)
(* pipelines.  A behaviour is one of one of them; the others stay in an    *)
(* initial state.                                                          *)
(***************************************************************************)
EXTENDS WriteBehind, WriteBehindDepth, SingleFlight, Pipelines

VARIABLE part

MCValues == <<1, 2, 3>>

goVars == <<vars, wdVars, sfVars, plVars, part>>

GOInit ==
    /\ part \in {"worker", "stop", "flight", "pipes"}
    /\ Init /\ WDInit /\ SFInit /\ PLInit
    /\ part # "pipes" => plChecked

GONext ==
    /\ UNCHANGED part
    /\ \/ part = "worker" /\ Next /\ UNCHANGED <<wdVars, sfVars, plVars>>
       \/ part = "stop" /\ WDNext /\ UNCHANGED <<vars, sfVars, plVars>>
       \/ part = "flight" /\ SFNext /\ UNCHANGED <<vars, wdVars, plVars>>
       \/ part = "pipes" /\ PLNext /\ UNCHANGED <<vars, wdVars, sfVars>>

\* No fair action is enabled in the initial state of a part.
GOSpec ==
    /\ GOInit /\ [][GONext]_goVars
    /\ Fairness /\ WDFairness /\ SFFairness /\ PLFairness
=============================================================================
