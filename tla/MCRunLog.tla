------------------------------ MODULE MCRunLog ------------------------------
(* A small instance of RunLog: two plain commands and one given --force. *)
EXTENDS RunLog, TLC

CONSTANTS p1, p2, p3

AllProcs == {p1, p2, p3}
OneForcing == {p3}
PlainSymmetry == Permutations({p1, p2})
=============================================================================
