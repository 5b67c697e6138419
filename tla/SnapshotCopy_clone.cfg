\* Three failures or crashes anywhere; threads run on and the manager polls.
\* A clone ends, and then nothing is left to do.
SPECIFICATION LiveSpec
CONSTANTS
    MaxFaults = 3
INVARIANTS AvailableIsComplete SettledIsQuiet LeavesNothing
PROPERTIES Settles
CHECK_DEADLOCK FALSE
