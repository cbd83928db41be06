CONSTANTS
    t1 = t1
    t2 = t2
    t3 = t3
    pf = pf
    ps = ps
    Threads = {t1, t2, t3}
    Keeper = Keeper
    Pages = {pf, ps}
    Fast = {pf}
    NoTxn = NoTxn
SPECIFICATION Spec
SYMMETRY ThreadSymmetry
CHECK_DEADLOCK FALSE
INVARIANTS
    TypeOK
    Exclusive
    CountIsExact
    NoLostWakeup
    LeftEntriesAreSwept
