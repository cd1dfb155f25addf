--------------------------- MODULE MCWriteBehind ---------------------------
(* Model-checking instance of WriteBehind on its own.                      *)
EXTENDS WriteBehind
=============================================================================
