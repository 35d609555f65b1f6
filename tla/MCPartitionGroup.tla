-------------------------- MODULE MCPartitionGroup --------------------------
(* Model-checking instance of PartitionGroup.                               *)
EXTENDS PartitionGroup, TLC

Symmetry == Permutations(Parts)
==============================================================================
