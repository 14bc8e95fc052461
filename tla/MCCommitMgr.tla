---------------------------- MODULE MCCommitMgr ----------------------------
(* Instances of the commitment manager for TLC. *)
EXTENDS CommitMgr, TLC

CONSTANTS p1, p2

OneHandler  == {p1}
TwoHandlers == {p1, p2}
Symmetry    == Permutations(Procs)
=============================================================================
