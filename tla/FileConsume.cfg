SPECIFICATION Spec
CONSTANTS
    w1 = w1
    w2 = w2
    Workers = {w1, w2}
    Scenarios <- MCScenarios
    Retention = 1
    MaxCalls = 3
    MaxFaults = 1
    MaxTime = 2
INVARIANTS
    ConsumedAtomically
CHECK_DEADLOCK FALSE
