--------------------------- MODULE MCWalRecovery ---------------------------
(* Model-checking instance of WalRecovery: the bounds are given in the .cfg *)
(* files.                                                                    *)
EXTENDS WalRecovery, TLC
\* Heap pages are interchangeable until a write names one.
PageSymmetry == Permutations(Pages)
====
