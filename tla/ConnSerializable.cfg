CONSTANTS
    t1 = t1
    t2 = t2
    p1 = p1
    p2 = p2
    Txns = {t1, t2}
    Pages = {p1, p2}
    NoTxn = NoTxn
    MaxConcurrentWriters = 2
    MaxHistoryEntries = 8
SPECIFICATION ConnSpec
SYMMETRY Symmetry
CHECK_DEADLOCK FALSE
INVARIANT UpdatesSerializable
