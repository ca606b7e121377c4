----------------------------- MODULE MCFileLock -----------------------------
(* Model values and symmetry for the runs of FileLock. *)
EXTENDS FileLock, TLC

Permutation == Permutations(Jobs)
=============================================================================
