------------------------------ MODULE MCSystem ------------------------------
(* SchedulerWorkerSystem for TLC: threads of a kind are interchangeable.   *)
EXTENDS SchedulerWorkerSystem, TLC

Symmetry == Permutations(Schedulers) \cup Permutations(Executors)
=============================================================================
