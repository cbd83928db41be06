CONSTANTS
    t1 = t1
    t2 = t2
    t3 = t3
    p1 = p1
    p2 = p2
    Txns = {t1, t2, t3}
    Pages = {p1, p2}
    NoTxn = NoTxn
    MaxConcurrentWriters = 2
    MaxHistoryEntries = 1
SPECIFICATION ConnSpec
SYMMETRY Symmetry
CONSTRAINT OneReadEach
CHECK_DEADLOCK FALSE
INVARIANTS
    ConnTypeOK
    LocksMatchSessions
    NoLostFrames
    PlannedIsFresh
    SeqOrderMatchesWal
    UnlockedIndexIsCurrent
PROPERTIES
    CommitIndexMonotone
    ConnImplementsStore
    HistoryIsKept
