----------------------------- MODULE MCLruCache -----------------------------
(* Model values and symmetry for the runs of LruCache. *)
EXTENDS LruCache, TLC

Permutation == Permutations(Keys)
=============================================================================
