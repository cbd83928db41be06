CONSTANTS
    t1 = t1
    t2 = t2
    p1 = p1
    p2 = p2
    Txns = {t1, t2}
    Pages = {p1, p2}
    NoTxn = NoTxn
    Exemptable = {p1}
    Freeable = {p2}
SPECIFICATION FairSpec
CHECK_DEADLOCK FALSE
INVARIANTS
    TypeOK
    LockTableAgrees
    PendingPagesAreLocked
PROPERTIES
    RollbackRestoresWriteSet
    OperationsEnd
