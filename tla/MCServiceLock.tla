---------------------------- MODULE MCServiceLock ----------------------------
(* Model values and symmetry for the runs of ServiceLock. *)
EXTENDS ServiceLock, TLC

Permutation == Permutations(Jobs)
=============================================================================
