--------------------------- MODULE MCPageLockTable ---------------------------
EXTENDS PageLockTable, TLC
ThreadSymmetry == Permutations(Threads)
=============================================================================
