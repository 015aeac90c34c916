SPECIFICATION DashboardSpec
CONSTANTS
    Roles = {"STAFF", "OWNER", "SUPER_ADMIN"}
    Things = {1, 2}
    Days = {1, 2}
    MaxClicks = 2
    MaxFaults = 1
    Nil = Nil
CHECK_DEADLOCK FALSE
INVARIANTS
    ScreenIsTrue
    UnreadFormsAreKept
    ControlsAreFreed
