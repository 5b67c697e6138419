\* One adopted share, no failure: its deletion leaves the filesystem behind.
SPECIFICATION Spec
CONSTANTS
    Snap = {s1}
    Export = {e1}
    GiB = 2
    MaxSize = 1
    MaxFaults = 0
INVARIANTS DeleteRemovesFilesystem
CHECK_DEADLOCK FALSE
