CONSTANTS
    r1 = r1
    r2 = r2
    r3 = r3
    ann = ann
    joe = joe
    cut = cut
    hair = hair
    None = None
    Requests = {r1, r2, r3}
    Kinds <- MCKinds
    FirstStaff = {ann}
    FirstClients <- MCClients
    FirstCatalog <- MCCatalog
    Categories = {hair}
    Users = {joe}
    Phones = {1, 2}
    WeekPlans <- MCWeekPlans
    FirstPlan <- MCPlan
    BusinessWeeks <- MCBusinessWeeks
    FirstWeek <- MCWeek
    Dates = {0, 1}
    Day = 6
    Granularity = 2
    Bookings <- MCBookings
    RawForm <- MCRawForm
    AiForm <- MCAiForm
    Namespace <- MCNamespace
    StaffLimit = 2
SPECIFICATION Spec
SYMMETRY Symmetry
CHECK_DEADLOCK FALSE
INVARIANTS TypeOK OnlyRacesHurt SlotsMatchBooking
PROPERTY SavesKeepOthers
