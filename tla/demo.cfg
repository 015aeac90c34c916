SPECIFICATION DemoSpec
CONSTANTS
    t1 = t1
    t2 = t2
    Terminals = {t1, t2}
    MaxRuns = 3
    Today = 3
    Clock = 700
    Window <- TwoDays
    Employee = "Sofia"
    Picks <- OnePick
    PerDay = {3}
    Gaps = {0}
    Told <- TwoChats
    Served = {"invitation"}
SYMMETRY Symmetry
CHECK_DEADLOCK FALSE
INVARIANTS
    BookIsClean
    ScriptsRepeat
