------------------------------ MODULE MCUpdate ------------------------------
(* Two updates at once among a release, its pre-release and the one before. *)
EXTENDS Update, TLC

CONSTANTS u1, u2

MCUpdaters == {u1, u2}
MCReleases == {[core |-> 1, rc |-> 0], [core |-> 2, rc |-> 1], [core |-> 2, rc |-> 0]}
\* The archive of 2.0 is uploaded a second time.
MCUploads == [r \in MCReleases |-> IF r = [core |-> 2, rc |-> 0] THEN 2 ELSE 1]
MCSymmetry == Permutations(MCUpdaters)
=============================================================================
