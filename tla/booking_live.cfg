SPECIFICATION FairSpec
CONSTANTS
    r1 = r1
    r2 = r2
    r3 = r3
    None = None
    Requests <- TwoRequests
    Employees = {1, 2, 3}
    Starts = {0}
    Time = {0, 1}
    Plans <- TeamPlans
    Movable = {3}
    Hours <- TeamHours
    Limit = 3
CHECK_DEADLOCK FALSE
INVARIANTS
    SomebodyWins
PROPERTIES
    EveryRequestEnds
    StrandedLockFreed
