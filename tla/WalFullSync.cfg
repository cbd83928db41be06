CONSTANTS
    c1 = c1
    c2 = c2
    Conns = {c1, c2}
    Pages = {1, 2}
    Modes = {"passive", "full", "restart", "truncate"}
    SyncPolicy = "PerCommit"
    MaxCommits = 3
    MaxFaults = 2
SPECIFICATION Spec
SYMMETRY ConnSymmetry
CONSTRAINT Undamaged
INVARIANTS
    TypeOK
    FilesAreHistory
    AckedSurvive
    NoLostUpdate
