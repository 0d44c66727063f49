SPECIFICATION Spec
CONSTANTS
    r1 = r1
    r2 = r2
    Requests = {r1}
    MaxAttempts = 2
    LockDuration = 1
    PendingLoginAttempts = 2
    PendingLoginTTL = 1
    CeremonyTTL = 1
    TOTPSkew = 1
    RecoveryCodeCount = 1
    Scenarios <- MCScenarios
    MaxRequests = 5
    MaxTime = 4
INVARIANT
    CodesNeverTwice
CHECK_DEADLOCK FALSE
