CONSTANTS
    a = a
    b = b
    t1 = t1
    t2 = t2
    Turns = {t1, t2}
    Workers = 2
    Viewers = {"panel"}
    Replies = {a, b}
    Trouble = "trouble"
    Tools = {"bookAppointment", "escalateToHuman"}
    MaxRounds = 2
    Threshold = 1
    Limit = 1
    None = None
SPECIFICATION Spec
SYMMETRY Symmetry
CHECK_DEADLOCK FALSE
INVARIANTS TypeOK MemoryIsSound TurnsAreSafe
