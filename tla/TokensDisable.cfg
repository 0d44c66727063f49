SPECIFICATION Spec
CONSTANTS
    Users = {u1}
    Clients = {c1}
    Codes = {k1}
    Tokens = {t1}
    Jtis = {j1, j2}
    Requests = {p1}
    Scopes = {offline}
    OfflineAccess = offline
    CodeTTL = 1
    AccessLifetime = 1
    RefreshLifetime = 1
    AccessTTL <- MCAccessTTL
    RefreshTTL <- MCRefreshTTL
    MaxAccessTTL = 1
    Retention = 1
    MaxTime = 1
    AdminOps = {"disable"}
SYMMETRY MCSymmetry
INVARIANTS
    DisablingEndsEverything
