SPECIFICATION Spec
CONSTANTS
    e1 = e1
    e2 = e2
    c1 = c1
    c2 = c2
    c3 = c3
    None = None
    Messages = {1, 2}
    Media = {2}
    Events <- TwoEvents
    Payloads <- BatchPayloads
    Convs <- ThreeConvs
    Workers = 2
    MaxAttempts = 2
    MaxStalls = 1
    Evictable = {}
    Staff = {"RESOLVED"}
    Faulty = TRUE
SYMMETRY Symmetry
CHECK_DEADLOCK FALSE
INVARIANTS
    NothingDropped
