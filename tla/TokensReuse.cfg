SPECIFICATION Spec
CONSTANTS
    Users = {u1}
    Clients = {c1}
    Codes = {k1}
    Tokens = {t1, t2}
    Jtis = {j1, j2, j3}
    Requests = {p1, p2}
    Scopes = {offline}
    OfflineAccess = offline
    CodeTTL = 1
    AccessLifetime = 1
    RefreshLifetime = 2
    AccessTTL <- MCAccessTTL
    RefreshTTL <- MCRefreshTTL
    MaxAccessTTL = 1
    Retention = 2
    MaxTime = 1
    AdminOps = {}
SYMMETRY MCSymmetry
INVARIANTS
    ReuseEndsGrant
