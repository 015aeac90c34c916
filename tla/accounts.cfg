SPECIFICATION Spec
CONSTANTS
    r1 = r1
    r2 = r2
    r3 = r3
    t1 = t1
    t2 = t2
    None = None
    Requests <- ThreeRequests
    Kinds <- TwoAny
    Tabs <- TwoTabs
    BrowserOf <- Home
    Opened = {"s1", "s2"}
    Expired = {"s2"}
    FirstLinks <- Mail
    MaxFailures = 2
    Faults = {"lost", "crash"}
SYMMETRY Symmetry
CHECK_DEADLOCK FALSE
INVARIANTS
    ChainsAreSound
    ReuseHasCause
    OnePendingInvitation
    LockoutWorks
