\* A temporary mount outlives its thread, the share is deleted.
SPECIFICATION Spec
CONSTANTS
    MaxFaults = 1
INVARIANTS NotDeletedUnderMount
CHECK_DEADLOCK FALSE
