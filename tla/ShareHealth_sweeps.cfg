\* A WEKAFS share and an NFS one, created or adopted, two sweeps and a delete
\* side by side, two failures, deaths or filesystems deleted by hand.
SPECIFICATION FairSpec
CONSTANTS
    Shares = {w1, n1}
    Isolated = {w1}
    Deletable = {w1}
    Checkers = {c1, c2}
    NoOne = NoOne
    MaxFaults = 2
INVARIANTS NoStackedMount NoFalseAlarm SweepMounts DeleteUnmounts
PROPERTIES CallsEnd GoneIsNoticed
