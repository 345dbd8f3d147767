---------------------------- MODULE MCMvccStore ----------------------------
(* Model-checking instance of MvccStore: the bounds are given in the .cfg files. *)
EXTENDS MvccStore, TLC

\* Row contents are interchangeable.
DataSymmetry == Permutations(Data)
=============================================================================
