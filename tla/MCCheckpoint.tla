----------------------------- MODULE MCCheckpoint -----------------------------
(* Instances of Checkpoint for model checking. *)
EXTENDS Checkpoint
=============================================================================
