\* One snapshot, sizes 1 to 3, two failures, crashes or losses.
SPECIFICATION Spec
CONSTANTS
    Snap = {s1}
    Export = {e1, e2}
    GiB = 2
    MaxSize = 3
    MaxFaults = 2
INVARIANTS DeletedIsGone SizeAgrees
INVARIANTS LostAnswersAreAbsorbed AdoptedIsClosed
PROPERTIES ShrinkKeepsData Implements
CHECK_DEADLOCK FALSE
