------------------------- MODULE MCPartitionBarrier -------------------------
(* Model-checking instance of PartitionBarrier.                             *)
EXTENDS PartitionBarrier, TLC

Symmetry == Permutations(Parts)
==============================================================================
