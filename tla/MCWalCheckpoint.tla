--------------------------- MODULE MCWalCheckpoint ---------------------------
EXTENDS WalCheckpoint, TLC
ConnSymmetry == Permutations(Conns)

\* Once FALSE intact stays FALSE, and the properties say nothing more.
Undamaged == intact
=============================================================================
