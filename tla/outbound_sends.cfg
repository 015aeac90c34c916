SPECIFICATION FairSpec
CONSTANTS
    m1 = m1
    None = None
    Messages <- OneMessage
    MaxAttempts = 2
    MaxStalls = 1
    Failures = {"enqueue", "job", "answer", "crash"}
    Receipts <- AllReceipts
CHECK_DEADLOCK FALSE
INVARIANTS
    TypeOK
    StatusIsEarned
    OverIsNotQueued
PROPERTIES
    EveryMessageSettles
