---------------------------- MODULE MCGroupCommit ----------------------------
EXTENDS GroupCommit, TLC
TxnSymmetry == Permutations(Txns)
=============================================================================
