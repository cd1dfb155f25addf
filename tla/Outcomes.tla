------------------------------ MODULE Outcomes ------------------------------
(***************************************************************************)
(* The two values that Go functions return in place of a result: a nil     *)
(* pointer, and an error.                                                  *)
(***************************************************************************)
CONSTANTS Failed, Nil

ASSUME OutcomesDiffer == Failed # Nil
=============================================================================
