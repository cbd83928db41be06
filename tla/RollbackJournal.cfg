CONSTANTS
    q1 = q1
    q2 = q2
    Pagers = {q1, q2}
    Pages = {1, 2}
    OneProcess = FALSE
    MaxCommits = 2
    MaxFaults = 3
SPECIFICATION Spec
SYMMETRY PagerSymmetry
INVARIANTS
    TypeOK
    RecoversToCommitted
    ReadersSeeCommitted
CHECK_DEADLOCK FALSE
