------------------------ MODULE MCCheckpointRelayer ------------------------
(* Small instances of CheckpointRelayer for TLC. *)
EXTENDS CheckpointRelayer, TLC

Symmetry == Permutations(Relayers)
=============================================================================
