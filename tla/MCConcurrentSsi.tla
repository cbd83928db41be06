-------------------------- MODULE MCConcurrentSsi --------------------------
EXTENDS ConcurrentSsi, TLC
Symmetry == Permutations(Txns) \cup Permutations(Pages)
=============================================================================
