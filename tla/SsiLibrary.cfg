CONSTANTS
    t1 = t1
    t2 = t2
    t3 = t3
    p1 = p1
    p2 = p2
    p3 = p3
    Txns = {t1, t2, t3}
    Pages = {p1, p2, p3}
    NoTxn = NoTxn
    MaxConcurrentWriters = 3
    MaxHistoryEntries = 3
SPECIFICATION Spec
SYMMETRY Symmetry
CHECK_DEADLOCK FALSE
INVARIANTS
    TypeOK
    LocksMatchSessions
    NoLostUpdate
    HistoryCoversActive
    Serializable
PROPERTIES
    ImplementsStore
