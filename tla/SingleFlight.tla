---------------------------- MODULE SingleFlight ----------------------------
(***************************************************************************)
(* gocache/lrucache/singleflight: Group.Do.  The first caller for a key    *)
(* registers a call and runs fn, callers that find the call registered     *)
(* wait for its WaitGroup and share its result.                            *)
(*                                                                         *)
(* fn runs once per call object, so the number of the call stands for the  *)
(* result (value and error) of its fn.                                     *)
(***************************************************************************)
EXTENDS Naturals, FiniteSets

CONSTANTS
    SFKeys,
    SFCallers,  \* goroutines calling Do
    MaxCalls    \* bound: call objects explored

ASSUME MaxCallsIsNat == MaxCalls \in Nat

VARIABLES
    m,          \* m[k]: the call registered for k, 0 if none
    sfCalls,    \* number of call objects made
    done,       \* calls whose WaitGroup is done
    filled,     \* calls whose val and err are assigned
    caller,     \* caller[p]: where the Do of p is
    over        \* history: calls whose first caller has returned

sfVars == <<m, sfCalls, done, filled, caller, over>>

SFIdle == [at |-> "idle", key |-> 0, call |-> 0]
At   == {"wait", "run", "filled", "delete"}
Leading == {"run", "filled", "delete"}

SFInit ==
    /\ m = [k \in SFKeys |-> 0]
    /\ sfCalls = 0
    /\ done = {}
    /\ filled = {}
    /\ caller = [p \in SFCallers |-> SFIdle]
    /\ over = {}

\* Lines 24-26, under g.mu.
Join(p, k) ==
    /\ caller[p] = SFIdle
    /\ m[k] # 0
    /\ caller' = [caller EXCEPT ![p] = [at |-> "wait", key |-> k, call |-> m[k]]]
    /\ UNCHANGED <<m, sfCalls, done, filled, over>>

\* Lines 30-33, under the same lock.
Lead(p, k) ==
    /\ caller[p] = SFIdle
    /\ m[k] = 0
    /\ sfCalls < MaxCalls
    /\ sfCalls' = sfCalls + 1
    /\ m' = [m EXCEPT ![k] = sfCalls + 1]
    /\ caller' = [caller EXCEPT ![p] = [at |-> "run", key |-> k, call |-> sfCalls + 1]]
    /\ UNCHANGED <<done, filled, over>>

FnReturns(p) ==
    /\ caller[p].at = "run"
    /\ filled' = filled \cup {caller[p].call}
    /\ caller' = [caller EXCEPT ![p].at = "filled"]
    /\ UNCHANGED <<m, sfCalls, done, over>>

\* Mutant: wg.Done is missing.
WgDone_Missing(p) ==
    /\ caller[p].at = "filled"
    /\ caller' = [caller EXCEPT ![p].at = "delete"]
    /\ UNCHANGED <<m, sfCalls, done, filled, over>>

WgDone(p) ==
    /\ caller[p].at = "filled"
    /\ done' = done \cup {caller[p].call}
    /\ caller' = [caller EXCEPT ![p].at = "delete"]
    /\ UNCHANGED <<m, sfCalls, filled, over>>

\* Mutant: the call stays registered.
DeleteAndReturn_Keeps(p) ==
    /\ caller[p].at = "delete"
    /\ caller' = [caller EXCEPT ![p] = SFIdle]
    /\ over' = over \cup {caller[p].call}
    /\ UNCHANGED <<m, sfCalls, done, filled>>

\* Lines 37-40.  The map entry deleted is whatever is registered for the key.
DeleteAndReturn(p) ==
    /\ caller[p].at = "delete"
    /\ m' = [m EXCEPT ![caller[p].key] = 0]
    /\ caller' = [caller EXCEPT ![p] = SFIdle]
    /\ over' = over \cup {caller[p].call}
    /\ UNCHANGED <<sfCalls, done, filled>>

WaitReturns(p) ==
    /\ caller[p].at = "wait"
    /\ caller[p].call \in done
    /\ caller' = [caller EXCEPT ![p] = SFIdle]
    /\ UNCHANGED <<m, sfCalls, done, filled, over>>

Do(p) == \/ \E k \in SFKeys : Join(p, k) \/ Lead(p, k)
         \/ FnReturns(p) \/ WgDone(p) \/ DeleteAndReturn(p) \/ WaitReturns(p)

SFNext == \E p \in SFCallers : Do(p)

\* fn returns, and the Go scheduler runs every goroutine.
SFFairness ==
    \A p \in SFCallers : WF_sfVars(FnReturns(p) \/ WgDone(p) \/ DeleteAndReturn(p) \/ WaitReturns(p))

SFSpec     == SFInit /\ [][SFNext]_sfVars
SFFairSpec == SFSpec /\ SFFairness

-----------------------------------------------------------------------------
(* Properties.                                                             *)

SFTypeOK ==
    /\ m \in [SFKeys -> Nat]
    /\ sfCalls \in Nat
    /\ done \subseteq 1..sfCalls /\ filled \subseteq 1..sfCalls /\ over \subseteq 1..sfCalls
    /\ caller \in [SFCallers -> {SFIdle} \cup [at : At, key : SFKeys, call : Nat \ {0}]]
    /\ \A k \in SFKeys : m[k] <= sfCalls
    /\ \A p \in SFCallers : caller[p].call <= sfCalls

\* fn runs for at most one caller per key at any time, although the lock is not
\* held while it runs.
OneFlight ==
    \A p, q \in SFCallers :
        caller[p].at = "run" /\ caller[q].at = "run" /\ caller[p].key = caller[q].key => p = q

\* A caller that waited returns the result fn produced, never the zero value.
WaiterGetsResult ==
    [][\A p \in SFCallers :
          caller[p].at = "wait" /\ caller'[p] = SFIdle => caller[p].call \in filled]_sfVars

\* Do forgets: a Do that begins after the first caller of a call has returned
\* does not get that call's result.
NoStaleJoin ==
    [][\A p \in SFCallers :
          caller[p] = SFIdle /\ caller'[p].at = "wait" => caller'[p].call \notin over]_sfVars

\* Every Do returns.
DoReturns == \A p \in SFCallers : (caller[p] # SFIdle) ~> (caller[p] = SFIdle)

\* Do: fn runs once for those who wait together, they get what it gave, and nobody who
\* comes after the first caller has returned gets an old result.
FlightsShared == []OneFlight /\ WaiterGetsResult /\ NoStaleJoin
=============================================================================
