\* Two threads; three expiries, failures or lockouts, below and above the cap.
SPECIFICATION FairSpec
CONSTANTS
    Threads = {t1, t2}
    NoThread = none
    MaxRetries = 1
    Cap = 3
    Margin = 1
    Usual = 2
    MaxLockout = 4
    MaxEvents = 3
INVARIANTS NoLoginIntoLockout
PROPERTIES TokenMovesForward ResentWithNewToken CallsEnd
