-------------------------- MODULE MCRollbackJournal --------------------------
EXTENDS RollbackJournal, TLC
PagerSymmetry == Permutations(Pagers)
=============================================================================
