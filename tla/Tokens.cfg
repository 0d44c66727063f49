SPECIFICATION MCSpec
CONSTANTS
    Users = {u1}
    Clients = {c1, c2}
    Codes = {k1}
    Tokens = {t1, t2}
    Jtis = {j1, j2, j3}
    Requests = {p1, p2}
    Scopes = {openid, offline}
    OfflineAccess = offline
    CodeTTL = 1
    AccessLifetime = 1
    RefreshLifetime = 1
    AccessTTL <- MCAccessTTL
    RefreshTTL <- MCRefreshTTL
    MaxAccessTTL = 1
    Retention = 1
    MaxTime = 1
    AdminOps = {"revoke_token", "revoke_user", "revoke_client", "disable", "delete_user", "update_client", "delete_client"}
SYMMETRY MCSymmetry
INVARIANTS
    TypeOK
    OneLiveTokenPerGrant
    RedeemedOnce
    TokensStayWithinGrant
    ReportedCutOffIsReal
PROPERTIES
    RequestsCutOnlyOwnGrant
    RevocationSticks
    ImplementsLifecycle
