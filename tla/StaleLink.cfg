SPECIFICATION Spec
CONSTANTS
    r1 = r1
    r2 = r2
    a1 = a1
    a2 = a2
    Requests = {r1}
    Addresses = {a1, a2}
    ResetTTL = 1
    VerifyTTL = 2
    ResetInterval = 2
    Scenarios <- MCStaleLink
    MaxRequests = 5
    MaxTime = 3
INVARIANTS
    VerifiedAddressWasProved
CHECK_DEADLOCK FALSE
