\* Two patchsets, three events, two failures or deaths.
SPECIFICATION FairSpec
CONSTANTS
    Patch = {p1, p2}
    NoPatch = NoPatch
    MaxEvents = 3
    MaxFaults = 2
INVARIANTS TestsAreSound RebuildsAlone BrokenIsMarked
PROPERTIES ListenerReturns TriggersAreAnswered
