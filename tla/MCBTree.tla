------------------------------- MODULE MCBTree -------------------------------
EXTENDS BTree, TLC

RIDSymmetry == Permutations(RIDs)
=============================================================================
