CONSTANTS
    c1 = c1
    c2 = c2
    Conns = {c1, c2}
    Pages = {1, 2}
    Modes = {"passive"}
    SyncPolicy = "PerCommit"
    MaxCommits = 2
    MaxFaults = 0
SPECIFICATION Spec
INVARIANTS
    SnapshotReads
