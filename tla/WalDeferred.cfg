CONSTANTS
    c1 = c1
    Conns = {c1}
    Pages = {1, 2}
    Modes = {"passive", "full", "restart", "truncate"}
    SyncPolicy = "Deferred"
    MaxCommits = 2
    MaxFaults = 1
SPECIFICATION Spec
INVARIANTS
    NoPartialCommit
