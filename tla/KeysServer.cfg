SPECIFICATION Spec
CONSTANTS
    Server = srv
    Ctl = ctl
    t1 = t1
    t2 = t2
    t3 = t3
    Procs = {srv, ctl}
    Servers = {srv}
    Threads = {t1, t2, t3}
    Home <- MCHome
    Keys = {k1, k2}
    TokenTTL = 2
    CacheTTL = 2
    Grace = 3
    Latency = 0
    MaxTime = 5
    Overlap = FALSE
SYMMETRY MCSymmetry
INVARIANTS
    TypeOK
    SignedTokensVerify
PROPERTIES
    ReplacedForGood
