------------------------------- MODULE MCUvIO -------------------------------
(***************************************************************************)
(* Model-checking instance of uvgo: a loop with sockets, a poll, posts or  *)
(* hooks, with stat errors of both signs of errno, or a loop with a timer. *)
(***************************************************************************)
EXTENDS UvIO, UvTimers

VARIABLE part

MCErrors == {1, -1}

\* Bound: RequestStop is called on a loop with a listener or hooks, the others end by
\* Stop or with their parent's context.
AskBound == uiAsk' # "idle" => uiUse \in {{"tcp"}, {"hooks"}}

MUInit ==
    /\ part \in {"io", "timer"}
    /\ UIInit /\ UTInit
    /\ part = "timer" => uiUse = {"hooks"}

MUNext ==
    /\ UNCHANGED part
    /\ \/ part = "io" /\ UINext /\ AskBound /\ UNCHANGED utVars
       \/ part = "timer" /\ UTNext /\ UNCHANGED uiVars

\* No fair action is enabled in the initial state of a part.
MUSpec == MUInit /\ [][MUNext]_<<uiVars, utVars, part>> /\ UIFairness /\ UTFairness
=============================================================================
