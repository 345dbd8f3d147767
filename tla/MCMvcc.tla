------------------------------- MODULE MCMvcc -------------------------------
(* Model-checking instance of Mvcc: the bounds are given in the .cfg files. *)
EXTENDS Mvcc, TLC

\* Sessions are interchangeable executors.
SessionSymmetry == Permutations(Sessions)
=============================================================================
