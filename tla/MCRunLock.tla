------------------------------ MODULE MCRunLock ------------------------------
(* A small instance of RunLock: two plain commands. *)
EXTENDS RunLock

CONSTANTS p1, p2

TwoProcs == {p1, p2}
NoForcing == {}
=============================================================================
