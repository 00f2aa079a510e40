-------------------------------- MODULE MCWal --------------------------------
(* Model-checking instances of Wal. *)
EXTENDS Wal, TLC

CONSTANTS c1, c2, c3

CommitSymmetry == Permutations(Commits)
=============================================================================
