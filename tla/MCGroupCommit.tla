---------------------------- MODULE MCGroupCommit ----------------------------
(* Instances of GroupCommit for model checking. *)
EXTENDS GroupCommit, TLC

CONSTANTS r1, r2, r3, x1, x2

RequestSymmetry == Permutations(Requests) \cup Permutations(Readers)
=============================================================================
