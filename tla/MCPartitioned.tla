---------------------------- MODULE MCPartitioned ----------------------------
(* PartitionedSchedulers for TLC: the threads are interchangeable.         *)
EXTENDS PartitionedSchedulers, TLC

Symmetry == Permutations(Threads)
=============================================================================
