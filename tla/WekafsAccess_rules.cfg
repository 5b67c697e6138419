\* Safety and liveness together: no symmetry.
SPECIFICATION LiveSpec
CONSTANTS
    Client = {c1, c2}
    MaxFaults = 3
INVARIANTS ActiveIsEnforced ExactWhenClean
PROPERTIES NoGap OpensOnlyWithoutRules Implements EveryRuleAnswered
