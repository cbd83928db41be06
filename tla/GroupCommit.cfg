CONSTANTS
    t1 = t1
    t2 = t2
    t3 = t3
    p1 = p1
    p2 = p2
    Txns = {t1, t2, t3}
    Pages = {p1, p2}
    Retention = 128
    IoFaults = {"append", "sync"}
SPECIFICATION FairSpec
CHECK_DEADLOCK FALSE
INVARIANTS
    TypeOK
    OneFlusher
    FlushedInTargetEpoch
    FirstCommitterWins
    VacancyWillBeTaken
PROPERTIES
    BatchesSettle
