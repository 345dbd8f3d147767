------------------------------- MODULE MCHeap -------------------------------
EXTENDS Heap, TLC

TableSymmetry == Permutations(Tables)
=============================================================================
