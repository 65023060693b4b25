-------------------------- MODULE MCSchedulerLock ---------------------------
(***************************************************************************)
(* SchedulerLock with interchangeable processes, for the safety runs.      *)
(***************************************************************************)
EXTENDS SchedulerLock, TLC

Symmetry == Permutations(Procs) \cup Permutations(Stoppers)
=============================================================================
