----------------------------- MODULE MCScheduler -----------------------------
(* Instances of Scheduler for TLC. *)
EXTENDS Scheduler, TLC

Symmetry == Permutations(Schedulers) \cup Permutations(Names)
=============================================================================
