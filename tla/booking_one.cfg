SPECIFICATION Spec
CONSTANTS
    r1 = r1
    r2 = r2
    r3 = r3
    None = None
    Requests <- ThreeRequests
    Employees = {1}
    Starts = {0, 2}
    Time = {0, 2}
    Plans <- OnePlans
    Movable = {}
    Hours <- OneHours
    Limit = 2
SYMMETRY RequestSymmetry
CHECK_DEADLOCK FALSE
INVARIANTS
    TypeOK
    NoDoubleBooking
    BlockingIffLive
    RecordIsTrue
    RefusalLeavesNothing
PROPERTIES
    NeverRevived
    LockRespectsHolder
    KeepsCalendar
