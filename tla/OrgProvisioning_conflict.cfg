\* Two shares of one project are created at the same time, nothing fails.
SPECIFICATION Spec
CONSTANTS
    t1 = t1
    t2 = t2
    t3 = t3
    p1 = p1
    p2 = p2
    Threads = {t1, t2, t3}
    NoThread = none
    Processes = {p1, p2}
    Home <- TwoAndOne
    MaxCalls = 1
    MaxTrouble = 0
INVARIANTS ConflictReturnsExisting
CHECK_DEADLOCK FALSE
