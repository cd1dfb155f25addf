----------------------------- MODULE MCUDPProxy -----------------------------
(* Model-checking instances of UDPProxy.                                   *)
EXTENDS UDPProxy

\* Bound: the backend of the last session cannot be dialled.
LastDialFails == serve'[MaxSessions] # "first"

UPSpec == Init /\ [][Next /\ LastDialFails]_vars /\ Fairness
=============================================================================
