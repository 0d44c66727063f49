SPECIFICATION Spec
CONSTANTS
    r1 = r1
    r2 = r2
    a1 = a1
    a2 = a2
    Requests = {r1, r2}
    Addresses = {a1, a2}
    ResetTTL = 1
    VerifyTTL = 2
    ResetInterval = 2
    Scenarios <- MCScenarios
    MaxRequests = 5
    MaxTime = 3
INVARIANTS
    TypeOK
    EarlierLinksReplaced
    SignOutIsReal
    OldPasswordLockedOut
    NoOrphans
    ResetMailThrottled
SYMMETRY Symmetry
CHECK_DEADLOCK FALSE
