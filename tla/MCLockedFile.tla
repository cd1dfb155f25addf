---------------------------- MODULE MCLockedFile ----------------------------
(* Model-checking instance of LockedFile: two goroutines of one process.   *)
EXTENDS LockedFile

MCProcessOf == [p1 |-> "A", p2 |-> "A"]
MCContents == {<<1>>, <<2, 2>>}
=============================================================================
