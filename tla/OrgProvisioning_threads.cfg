\* Two threads of one share manager and one of another, a call each; two things
\* go wrong.
SPECIFICATION Spec
CONSTANTS
    t1 = t1
    t2 = t2
    t3 = t3
    p1 = p1
    p2 = p2
    Threads = {t1, t2, t3}
    NoThread = none
    Processes = {p1, p2}
    Home <- TwoAndOne
    MaxCalls = 1
    MaxTrouble = 2
INVARIANTS RacesAreTolerated OkMeansProvisioned NoHalfToken OneClient
CHECK_DEADLOCK FALSE
