------------------------- MODULE MCConnectionCommit -------------------------
EXTENDS ConnectionCommit, TLC
Symmetry == Permutations(Txns) \cup Permutations(Pages)

\* What a transaction reads matters here for its place in the history only.
OneReadEach == \A t \in Txns : Cardinality(reads[t]) <= 1
=============================================================================
