------------------------------- MODULE MCHooks -------------------------------
(* A session that starts in one working copy and works in another, and a     *)
(* person at a terminal.                                                     *)
EXTENDS Hooks, TLC

MCCwd == "s1" :> "A"
=============================================================================
