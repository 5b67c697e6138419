\* An emptied policy survives the full sync.
SPECIFICATION Spec
CONSTANTS
    Client = {c1}
    MaxFaults = 1
INVARIANTS NoEmptyPolicyAttached
