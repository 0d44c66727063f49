---------------------------- MODULE TokenGrants ----------------------------
(***************************************************************************)
(* The token endpoint of idpico (internal/oidc/token.go) over the SQLite   *)
(* store: authorization codes, refresh tokens, access tokens, and the      *)
(* revocation rows that are the only way to cut an access token short.     *)
(*                                                                         *)
(* A request is a process.  Every repository call is one step, because     *)
(* each is one SQL statement or one transaction on a single connection;    *)
(* between two of them any other request, the administrator, the           *)
(* maintenance runner or the clock may move.  What a handler read earlier  *)
(* and uses later is kept in its request record.                           *)
(*                                                                         *)
(* Data abstraction: a scope is a set, ids are model values, passwords,    *)
(* secrets, redirect URIs and PKCE are one Boolean (does the request match *)
(* what the code was issued for), signatures are always good (signing keys *)
(* are another module's subject), time is a natural number.                *)
(***************************************************************************)
EXTENDS Integers

CONSTANTS
    Users, Clients,
    Codes,          \* authorization codes that may be issued
    Tokens,         \* refresh token ids that may be issued
    Jtis,           \* access token ids that may be issued
    Requests,       \* concurrent requests to /token
    Scopes,         \* scope values; one of them is OfflineAccess
    OfflineAccess,
    CodeTTL,        \* lifetime of an authorization code
    AccessTTL,      \* lifetime of the access tokens of each client
    RefreshTTL,     \* lifetime of the refresh tokens of each client
    MaxAccessTTL,   \* domain.MaxAccessTokenTTL
    Retention,      \* domain.RevocationRetention
    MaxTime,        \* bound on the clock
    AdminOps        \* administrator operations an instance interleaves

ASSUME IdsAssumption ==
    /\ Codes \cap Tokens = {}
    /\ OfflineAccess \in Scopes

\* config.go, admin.go and idpicoctl refuse a lifetime above MaxAccessTokenTTL,
\* which types.go sets well below RevocationRetention.
ASSUME LifetimesAssumption ==
    /\ CodeTTL \in Nat /\ MaxAccessTTL \in Nat /\ Retention \in Nat
    /\ MaxTime \in Nat
    /\ AccessTTL \in [Clients -> 0..MaxAccessTTL]
    /\ RefreshTTL \in [Clients -> Nat]
    /\ MaxAccessTTL <= Retention

VARIABLES
    now,        \* the clock
    user,       \* the users table, and the admin handler under way on a user
    client,     \* the oauth_clients table, and a delete handler under way
    code,       \* the auth_codes table
    rtok,       \* the tokens table (refresh tokens)
    access,     \* access tokens handed out; the server stores none of them
    revUser, revGrant, revClient, revJti,   \* token_revocations, by kind
    req         \* the requests under way

revRows == <<revUser, revGrant, revClient, revJti>>
tables == <<user, client, code, rtok>>
vars == <<now, tables, access, revRows, req>>

-----------------------------------------------------------------------------
(* Rows *)

GrantTypes == {"authorization_code", "refresh_token"}

\* job: the console handler under way on the user, one at a time.
\* cut: a disable has revoked the user's tokens, and no enable followed.
User == [row : {"active", "inactive", "none"}, job : {"none", "disable", "delete"},
         cut : BOOLEAN]
Client == [row : BOOLEAN, grants : SUBSET GrantTypes, deleting : BOOLEAN]

\* A deleted row keeps its fields: nothing of the server reads them again,
\* the properties about a token's origin do.
NoCode == [st |-> "unborn"]
AuthCode == [st : {"stored", "gone"}, used : BOOLEAN, user : Users,
             client : Clients, scope : SUBSET Scopes, exp : Nat]

\* from: the credential a token was issued for; root: the code its grant
\* started with.  Neither is stored by the server.
NoToken == [st |-> "unborn"]
Token == [st : {"stored", "gone"}, revoked : BOOLEAN, user : Users,
          client : Clients, scope : SUBSET Scopes, exp : Nat,
          from : Codes \cup Tokens, root : Codes]

Access == [jti : Jtis, user : Users, client : Clients, scope : SUBSET Scopes,
           iat : Nat, exp : Nat, from : Codes \cup Tokens, root : Codes]

NoRow == [nb |-> -1, exp |-> -1]
Row == [nb : Nat, exp : Nat] \cup {NoRow}

\* pc: the next repository call.  jti, iat: the access token signed.
\* todo: the listed tokens revokeGrant has not revoked yet.
\* seen: the tokens of the grant's user and client when the reuse was found.
Steps == {"credential", "user", "claim", "sign", "create", "list", "revoke"}
Idle == [pc |-> "idle"]
Request == [pc : Steps \cup {"done"}, op : GrantTypes, client : Clients,
            cred : Codes \cup Tokens, match : BOOLEAN, want : SUBSET Scopes,
            mayRefresh : BOOLEAN, jti : SUBSET Jtis, iat : Nat,
            todo : SUBSET Tokens, seen : SUBSET Tokens, seenJtis : SUBSET Jtis,
            out : {"none", "tokens", "refused", "reuse", "error"}]

TypeOK ==
    /\ now \in Nat
    /\ user \in [Users -> User]
    /\ client \in [Clients -> Client]
    /\ code \in [Codes -> AuthCode \cup {NoCode}]
    /\ rtok \in [Tokens -> Token \cup {NoToken}]
    /\ access \in SUBSET Access
    /\ revUser \in [Users -> Row]
    /\ revGrant \in [Users -> [Clients -> Row]]
    /\ revClient \in [Clients -> Row]
    /\ revJti \in [Jtis -> Row]
    /\ req \in [Requests -> Request \cup {Idle}]

-----------------------------------------------------------------------------
(* Reading the store *)

AllowsGrant(c, g) == client[c].grants = {} \/ g \in client[c].grants

\* IsExpired is now.After(exp); DeleteExpired and ListByUserID use <= and >.
Expired(exp) == now > exp

LiveCode(k) == code[k].st = "stored" /\ ~code[k].used
LiveToken(t) == rtok[t].st = "stored" /\ ~rtok[t].revoked

\* ListByUserID, filtered as revokeGrant filters it.
LiveTokensOf(u, c) ==
    {t \in Tokens : /\ LiveToken(t) /\ rtok[t].exp > now
                    /\ rtok[t].user = u /\ rtok[t].client = c}

UserActive(u) == user[u].row = "active"

\* accessTokenRevoked: the four kinds of row, compared with the issue time.
IsRevoked(a) ==
    \/ revJti[a.jti] # NoRow
    \/ revUser[a.user].nb >= a.iat
    \/ revGrant[a.user][a.client].nb >= a.iat
    \/ revClient[a.client].nb >= a.iat

\* What /introspect answers: active or not.
AccessActive(a) == now < a.exp /\ ~IsRevoked(a) /\ UserActive(a.user)
RefreshActive(t) == LiveToken(t) /\ ~Expired(rtok[t].exp) /\ UserActive(rtok[t].user)

\* The row a request's credential is.
Cred(r) == IF r.op = "authorization_code" THEN code[r.cred] ELSE rtok[r.cred]
Root(r) == IF r.op = "authorization_code" THEN r.cred ELSE rtok[r.cred].root

-----------------------------------------------------------------------------
(* Writing revocation rows *)

\* upsertRevocation keeps the later of each column.
Later(a, b) == IF a >= b THEN a ELSE b
UpsertKeepingExpiry(row, nb, exp) ==
    [nb |-> Later(row.nb, nb), exp |-> IF row = NoRow THEN exp ELSE row.exp]
Upsert(row, nb, exp) == [nb |-> Later(row.nb, nb), exp |-> Later(row.exp, exp)]

WatermarkInThePast(row) == Upsert(row, now, now - Retention)
Watermark(row) == Upsert(row, now, now + Retention)

\* Revoke: the token and, in the same transaction, its grant's access tokens.
RevokeRow(t) ==
    /\ rtok' = [rtok EXCEPT ![t].revoked = TRUE]
    /\ revGrant' = [revGrant EXCEPT ![rtok[t].user][rtok[t].client] = Watermark(@)]

\* The update of the tokens table by RevokeByUserID and RevokeByClientID.
RevokeWhere(P(_)) ==
    rtok' = [t \in Tokens |-> IF rtok[t].st = "stored" /\ P(t)
                              THEN [rtok[t] EXCEPT !.revoked = TRUE] ELSE rtok[t]]

RevokeByUserID(u) ==
    /\ RevokeWhere(LAMBDA t : rtok[t].user = u)
    /\ revUser' = [revUser EXCEPT ![u] = Watermark(@)]
    /\ UNCHANGED <<revGrant, revClient, revJti>>

RevokeByClientID(c) ==
    /\ RevokeWhere(LAMBDA t : rtok[t].client = c)
    /\ revClient' = [revClient EXCEPT ![c] = Watermark(@)]
    /\ UNCHANGED <<revUser, revGrant, revJti>>

-----------------------------------------------------------------------------
(* The token endpoint.  A request that fails client authentication or the  *)
(* grant-type check changes nothing and is not started.                    *)

NewRequest(op, c, cred, match, want) ==
    [pc |-> "credential", op |-> op, client |-> c, cred |-> cred, match |-> match,
     want |-> want, mayRefresh |-> AllowsGrant(c, "refresh_token"), jti |-> {},
     iat |-> 0, todo |-> {}, seen |-> {}, seenJtis |-> {}, out |-> "none"]

Goto(p, step) == req' = [req EXCEPT ![p].pc = step]
Answer(p, out) == req' = [req EXCEPT ![p].pc = "done", ![p].out = out]

\* HandleAuthorizationCode and HandleRefreshToken up to AllowsGrant.
Begin(p, op, c, cred, match, want) ==
    /\ req[p] = Idle
    /\ client[c].row /\ AllowsGrant(c, op)
    /\ req' = [req EXCEPT ![p] = NewRequest(op, c, cred, match, want)]
    /\ UNCHANGED <<now, tables, access, revRows>>

BeginCode(p, c, k, match) ==
    code[k] # NoCode /\ Begin(p, "authorization_code", c, k, match, {})

BeginRefresh(p, c, t, want) ==
    rtok[t] # NoToken /\ Begin(p, "refresh_token", c, t, TRUE, want)

\* A reuse was found: remember what is alive now, then run revokeGrant.
ReuseFound(p) ==
    LET u == Cred(req[p]).user  c == Cred(req[p]).client
    IN  req' = [req EXCEPT
                  ![p].pc = "list",
                  ![p].seen = LiveTokensOf(u, c),
                  ![p].seenJtis = {a.jti : a \in {b \in access : b.user = u /\ b.client = c}}]

\* authCodes.GetByCode and the checks up to MarkUsed.
GetByCodeAnyClient(p) ==
    LET r == req[p]  k == r.cred
    IN  \/ code[k].st = "gone" /\ Answer(p, "refused")
        \/ code[k].st = "stored" /\ code[k].used /\ ReuseFound(p)
        \/ /\ LiveCode(k)
           /\ IF Expired(code[k].exp) \/ ~r.match \/ code[k].client # r.client
              THEN Answer(p, "refused") ELSE Goto(p, "claim")
GetByCodeChecks(p) ==
    LET r == req[p]  k == r.cred
    IN  \/ (code[k].st = "gone" \/ code[k].client # r.client) /\ Answer(p, "refused")
        \/ /\ code[k].st = "stored" /\ code[k].client = r.client
           /\ \/ code[k].used /\ ReuseFound(p)
              \/ /\ ~code[k].used
                 /\ IF Expired(code[k].exp) \/ ~r.match
                    THEN Answer(p, "refused") ELSE Goto(p, "claim")

GetByCode(p) ==
    /\ req[p].pc = "credential" /\ req[p].op = "authorization_code"
    /\ GetByCodeChecks(p)
    /\ UNCHANGED <<now, tables, access, revRows>>

\* tokens.GetByID and the checks up to users.GetByID.
GetTokenChecks(p) ==
    LET r == req[p]  t == r.cred
    IN  \/ (rtok[t].st = "gone" \/ rtok[t].client # r.client) /\ Answer(p, "refused")
        \/ /\ rtok[t].st = "stored" /\ rtok[t].client = r.client
           /\ IF Expired(rtok[t].exp) THEN Answer(p, "refused")
              ELSE IF rtok[t].revoked THEN ReuseFound(p) ELSE Goto(p, "user")

GetToken(p) ==
    /\ req[p].pc = "credential" /\ req[p].op = "refresh_token"
    /\ GetTokenChecks(p)
    /\ UNCHANGED <<now, tables, access, revRows>>

\* users.GetByID and the Active check.  A refresh looks the user up before it
\* takes the token, and then checks the scope; an exchange after it took the code.
ScopeAllowedUnchecked(r) == TRUE
ScopeAllowed(r) == r.want \subseteq Cred(r).scope

GetUser(p) ==
    /\ req[p].pc = "user"
    /\ LET r == req[p]  u == Cred(r).user
       IN  CASE user[u].row = "none" -> Answer(p, "error")
             [] user[u].row = "inactive" -> Answer(p, "refused")
             [] user[u].row = "active" ->
                  IF r.op = "authorization_code" THEN Goto(p, "sign")
                  ELSE IF ScopeAllowed(r) THEN Goto(p, "claim")
                  ELSE Answer(p, "refused")
    /\ UNCHANGED <<now, tables, access, revRows>>

\* authCodes.MarkUsed: one conditional UPDATE; the loser of a race finds the
\* row used and cuts the grant off.
CodeTakeableTwice(k) == code[k].st = "stored"
CodeTakeable(k) == code[k].st = "stored" /\ ~code[k].used

MarkUsed(p) ==
    /\ req[p].pc = "claim" /\ req[p].op = "authorization_code"
    /\ LET k == req[p].cred
       IN  \/ /\ CodeTakeable(k)
              /\ code' = [code EXCEPT ![k].used = TRUE]
              /\ Goto(p, "user")
           \/ /\ ~CodeTakeable(k) /\ code[k].st = "stored"
              /\ ReuseFound(p)
              /\ UNCHANGED code
           \/ /\ code[k].st = "gone"
              /\ Answer(p, "error")
              /\ UNCHANGED code
    /\ UNCHANGED <<now, user, client, rtok, access, revRows>>

\* tokens.Rotate: the same for a refresh token.
TokenTakeableTwice(t) == rtok[t].st = "stored"
TokenTakeable(t) == rtok[t].st = "stored" /\ ~rtok[t].revoked

Rotate(p) ==
    /\ req[p].pc = "claim" /\ req[p].op = "refresh_token"
    /\ LET t == req[p].cred
       IN  \/ /\ TokenTakeable(t)
              /\ rtok' = [rtok EXCEPT ![t].revoked = TRUE]
              /\ Goto(p, "sign")
           \/ /\ ~TokenTakeable(t) /\ rtok[t].st = "stored"
              /\ ReuseFound(p)
              /\ UNCHANGED rtok
           \/ /\ rtok[t].st = "gone"
              /\ Answer(p, "error")
              /\ UNCHANGED rtok
    /\ UNCHANGED <<now, user, client, code, access, revRows>>

\* generateTokens, first half: the access token gets its id and issue time.
UsedJtis == {a.jti : a \in access} \cup UNION {req[p].jti : p \in {q \in Requests : req[q] # Idle}}

Sign(p) ==
    /\ req[p].pc = "sign"
    /\ \E j \in Jtis \ UsedJtis :
         req' = [req EXCEPT ![p].pc = "create", ![p].jti = {j}, ![p].iat = now]
    /\ UNCHANGED <<now, tables, access, revRows>>

\* generateTokens, second half: a refresh token when offline_access was
\* granted and the client may refresh, then the response.
GrantedScope(r) == IF r.want = {} THEN Cred(r).scope ELSE r.want
WithRefreshToken(r) == OfflineAccess \in GrantedScope(r) /\ r.mayRefresh

AccessTokenOf(r, j) ==
    [jti |-> j, user |-> Cred(r).user, client |-> r.client,
     scope |-> GrantedScope(r), iat |-> r.iat, exp |-> r.iat + AccessTTL[r.client],
     from |-> r.cred, root |-> Root(r)]

RefreshTokenOf(r) ==
    [st |-> "stored", revoked |-> FALSE, user |-> Cred(r).user, client |-> r.client,
     scope |-> GrantedScope(r), exp |-> now + RefreshTTL[r.client],
     from |-> r.cred, root |-> Root(r)]

Respond(p) ==
    /\ Answer(p, "tokens")
    /\ access' = access \cup {AccessTokenOf(req[p], j) : j \in req[p].jti}

\* The foreign keys of the tokens table.
ReferencesExist(r) == user[Cred(r).user].row # "none" /\ client[r.client].row

FreshTokens == {t \in Tokens : rtok[t] = NoToken}

\* Running out of token ids is a bound of the instance: it counts as a failed insert.
CreateToken(p) ==
    /\ req[p].pc = "create"
    /\ \/ /\ ~WithRefreshToken(req[p])
          /\ Respond(p)
          /\ UNCHANGED rtok
       \/ /\ WithRefreshToken(req[p]) /\ ReferencesExist(req[p])
          /\ \E t \in FreshTokens : rtok' = [rtok EXCEPT ![t] = RefreshTokenOf(req[p])]
          /\ Respond(p)
       \/ /\ WithRefreshToken(req[p])
          /\ ~ReferencesExist(req[p]) \/ FreshTokens = {}
          /\ Answer(p, "error")
          /\ UNCHANGED <<rtok, access>>
    /\ UNCHANGED <<now, user, client, code, revRows>>

\* revokeGrant: list, revoke one by one, then the watermark that also covers
\* access tokens of a grant without a refresh token.
ListTokens(p) ==
    /\ req[p].pc = "list"
    /\ req' = [req EXCEPT
                 ![p].pc = "revoke",
                 ![p].todo = LiveTokensOf(Cred(req[p]).user, Cred(req[p]).client)]
    /\ UNCHANGED <<now, tables, access, revRows>>

RevokeListed(p, t) ==
    /\ RevokeRow(t)
    /\ req' = [req EXCEPT ![p].todo = @ \ {t}]

RevokeNext(p) ==
    /\ req[p].pc = "revoke"
    /\ \E t \in req[p].todo :
         \/ rtok[t].st = "stored" /\ RevokeListed(p, t)
         \/ rtok[t].st = "gone" /\ Answer(p, "error") /\ UNCHANGED <<rtok, revGrant>>
    /\ UNCHANGED <<now, user, client, code, access, revUser, revClient, revJti>>

WatermarkSkipped(p) == UNCHANGED revGrant
GrantWatermark(p) ==
    LET c == Cred(req[p])
    IN  revGrant' = [revGrant EXCEPT ![c.user][c.client] = Watermark(@)]

RevokeBefore(p) ==
    /\ req[p].pc = "revoke" /\ req[p].todo = {}
    /\ GrantWatermark(p)
    /\ Answer(p, "reuse")
    /\ UNCHANGED <<now, tables, access, revUser, revClient, revJti>>

\* A store or signing error, or the server stopping: the handler returns an
\* error from wherever it was and what it already wrote stays written.
Fail(p) ==
    /\ req[p] # Idle /\ req[p].pc # "done"
    /\ Answer(p, "error")
    /\ UNCHANGED <<now, tables, access, revRows>>

\* The response has been sent and the process serves another request.
Finish(p) ==
    /\ req[p] # Idle /\ req[p].pc = "done"
    /\ req' = [req EXCEPT ![p] = Idle]
    /\ UNCHANGED <<now, tables, access, revRows>>

-----------------------------------------------------------------------------
(* The rest of the server, as far as it touches these tables *)

\* CreateAuthCode, once the user is signed in and has consented: another
\* module's subject.  The insert needs the user and the client to exist.
IssueCode(k, u, c, scope) ==
    /\ code[k] = NoCode
    /\ user[u].row # "none" /\ client[c].row
    /\ code' = [code EXCEPT ![k] =
                  [st |-> "stored", used |-> FALSE, user |-> u, client |-> c,
                   scope |-> scope, exp |-> now + CodeTTL]]
    /\ UNCHANGED <<now, user, client, rtok, access, revRows, req>>

\* HandleRevocation of a refresh token, by the client it belongs to.  The
\* account page and the admin console revoke one token the same way.
RevokeToken(t) ==
    /\ "revoke_token" \in AdminOps
    /\ rtok[t].st = "stored"
    /\ RevokeRow(t)
    /\ UNCHANGED <<now, user, client, code, access, revUser, revClient, revJti, req>>

\* HandleRevocation of an access token: its jti, until the token expires.
JtiRow(a) == Upsert(revJti[a.jti], now, a.exp)

RevokeAccessToken(a) ==
    /\ "revoke_token" \in AdminOps
    /\ client[a.client].row /\ now < a.exp
    /\ revJti' = [revJti EXCEPT ![a.jti] = JtiRow(a)]
    /\ UNCHANGED <<now, tables, access, revUser, revGrant, revClient, req>>

\* SetPassword, "sign out everywhere else" and the console's revoke-all.
SignOutUser(u) ==
    /\ "revoke_user" \in AdminOps
    /\ user[u].row # "none"
    /\ RevokeByUserID(u)
    /\ UNCHANGED <<now, user, client, code, access, req>>

RevokeClientTokens(c) ==
    /\ "revoke_client" \in AdminOps
    /\ client[c].row
    /\ RevokeByClientID(c)
    /\ UNCHANGED <<now, user, client, code, access, req>>

\* UpdateUser clearing Active: the row is written first ...
DisableUser(u) ==
    /\ "disable" \in AdminOps
    /\ user[u].row = "active" /\ user[u].job = "none"
    /\ user' = [user EXCEPT ![u].row = "inactive", ![u].job = "disable"]
    /\ UNCHANGED <<now, client, code, rtok, access, revRows, req>>

\* ... and the tokens are revoked in a second call.  An error of that call is
\* logged and the handler still answers "User updated" (AdminJobFails).
DisableUserTokens(u) ==
    /\ user[u].job = "disable"
    /\ user' = [user EXCEPT ![u].job = "none", ![u].cut = (user[u].row = "inactive")]
    /\ RevokeByUserID(u)
    /\ UNCHANGED <<now, client, code, access, req>>

EnableUser(u) ==
    /\ "disable" \in AdminOps
    /\ user[u].row = "inactive"
    /\ user' = [user EXCEPT ![u].row = "active", ![u].cut = FALSE]
    /\ UNCHANGED <<now, client, code, rtok, access, revRows, req>>

\* DeleteUser: the tokens first, an error of that call being ignored, then the
\* row; ON DELETE CASCADE takes the codes and tokens with it.
DeleteUserTokens(u) ==
    /\ "delete_user" \in AdminOps
    /\ user[u].row # "none" /\ user[u].job = "none"
    /\ user' = [user EXCEPT ![u].job = "delete"]
    /\ RevokeByUserID(u) \/ UNCHANGED <<rtok, revRows>>
    /\ UNCHANGED <<now, client, code, access, req>>

DeleteRow(r) == IF r.st = "stored" THEN [r EXCEPT !.st = "gone"] ELSE r

DeleteUser(u) ==
    /\ user[u].job = "delete"
    /\ user' = [user EXCEPT ![u].row = "none", ![u].job = "none"]
    /\ code' = [k \in Codes |-> IF code[k] # NoCode /\ code[k].user = u
                                THEN DeleteRow(code[k]) ELSE code[k]]
    /\ rtok' = [t \in Tokens |-> IF rtok[t] # NoToken /\ rtok[t].user = u
                                 THEN DeleteRow(rtok[t]) ELSE rtok[t]]
    /\ UNCHANGED <<now, client, access, revRows, req>>

\* The handler stopped between its two calls, or the second one failed.
AdminJobFails(u) ==
    /\ user[u].job # "none"
    /\ user' = [user EXCEPT ![u].job = "none"]
    /\ UNCHANGED <<now, client, code, rtok, access, revRows, req>>

\* UpdateClient choosing other grant types; applyClientForm never stores none.
UpdateClient(c, grants) ==
    /\ "update_client" \in AdminOps
    /\ client[c].row /\ client[c].grants # grants
    /\ client' = [client EXCEPT ![c].grants = grants]
    /\ UNCHANGED <<now, user, code, rtok, access, revRows, req>>

\* DeleteClient, like DeleteUser.
DeleteClientTokens(c) ==
    /\ "delete_client" \in AdminOps
    /\ client[c].row /\ ~client[c].deleting
    /\ client' = [client EXCEPT ![c].deleting = TRUE]
    /\ RevokeByClientID(c) \/ UNCHANGED <<rtok, revRows>>
    /\ UNCHANGED <<now, user, code, access, req>>

DeleteClient(c) ==
    /\ client[c].deleting
    /\ client' = [client EXCEPT ![c].row = FALSE, ![c].deleting = FALSE]
    /\ code' = [k \in Codes |-> IF code[k] # NoCode /\ code[k].client = c
                                THEN DeleteRow(code[k]) ELSE code[k]]
    /\ rtok' = [t \in Tokens |-> IF rtok[t] # NoToken /\ rtok[t].client = c
                                 THEN DeleteRow(rtok[t]) ELSE rtok[t]]
    /\ UNCHANGED <<now, user, access, revRows, req>>

DeleteClientFails(c) ==
    /\ client[c].deleting
    /\ client' = [client EXCEPT ![c].deleting = FALSE]
    /\ UNCHANGED <<now, user, code, rtok, access, revRows, req>>

\* The maintenance runner: three independent DeleteExpired statements.
DeleteExpiredCodes ==
    /\ \E k \in Codes : code[k].st = "stored" /\ code[k].exp <= now
    /\ code' = [k \in Codes |-> IF code[k].st = "stored" /\ code[k].exp <= now
                                THEN DeleteRow(code[k]) ELSE code[k]]
    /\ UNCHANGED <<now, user, client, rtok, access, revRows, req>>

DeleteExpiredTokens ==
    /\ \E t \in Tokens : rtok[t].st = "stored" /\ rtok[t].exp <= now
    /\ rtok' = [t \in Tokens |-> IF rtok[t].st = "stored" /\ rtok[t].exp <= now
                                 THEN DeleteRow(rtok[t]) ELSE rtok[t]]
    /\ UNCHANGED <<now, user, client, code, access, revRows, req>>

Purged(row) == IF row.exp <= now THEN NoRow ELSE row

DeleteExpiredRevocations ==
    /\ revUser' = [u \in Users |-> Purged(revUser[u])]
    /\ revGrant' = [u \in Users |-> [c \in Clients |-> Purged(revGrant[u][c])]]
    /\ revClient' = [c \in Clients |-> Purged(revClient[c])]
    /\ revJti' = [j \in Jtis |-> Purged(revJti[j])]
    /\ UNCHANGED <<now, tables, access, req>>

Tick == /\ now < MaxTime
        /\ now' = now + 1
        /\ UNCHANGED <<tables, access, revRows, req>>

-----------------------------------------------------------------------------
\* The clients start as rows from before grant types were recorded.
Init ==
    /\ now = 0
    /\ user = [u \in Users |-> [row |-> "active", job |-> "none", cut |-> FALSE]]
    /\ client = [c \in Clients |-> [row |-> TRUE, grants |-> {}, deleting |-> FALSE]]
    /\ code = [k \in Codes |-> NoCode]
    /\ rtok = [t \in Tokens |-> NoToken]
    /\ access = {}
    /\ revUser = [u \in Users |-> NoRow]
    /\ revGrant = [u \in Users |-> [c \in Clients |-> NoRow]]
    /\ revClient = [c \in Clients |-> NoRow]
    /\ revJti = [j \in Jtis |-> NoRow]
    /\ req = [p \in Requests |-> Idle]

Start(p) ==
    \E c \in Clients :
        \/ \E k \in Codes, match \in BOOLEAN : BeginCode(p, c, k, match)
        \/ \E t \in Tokens, want \in SUBSET Scopes : BeginRefresh(p, c, t, want)

\* What a request does by itself once it has started.
Progress(p) ==
    \/ GetByCode(p) \/ GetToken(p) \/ GetUser(p) \/ MarkUsed(p) \/ Rotate(p)
    \/ Sign(p) \/ CreateToken(p) \/ ListTokens(p) \/ RevokeNext(p)
    \/ RevokeBefore(p) \/ Finish(p)

Administration ==
    \/ \E t \in Tokens : RevokeToken(t)
    \/ \E a \in access : RevokeAccessToken(a)
    \/ \E u \in Users :
          \/ SignOutUser(u) \/ DisableUser(u) \/ DisableUserTokens(u) \/ EnableUser(u)
          \/ DeleteUserTokens(u) \/ DeleteUser(u) \/ AdminJobFails(u)
    \/ \E c \in Clients :
          \/ RevokeClientTokens(c) \/ DeleteClientTokens(c) \/ DeleteClient(c)
          \/ DeleteClientFails(c)
          \/ \E g \in SUBSET GrantTypes \ {{}} : UpdateClient(c, g)

Maintenance == DeleteExpiredCodes \/ DeleteExpiredTokens \/ DeleteExpiredRevocations

Next ==
    \/ \E p \in Requests : Start(p) \/ Progress(p) \/ Fail(p)
    \/ \E k \in Codes, u \in Users, c \in Clients, s \in SUBSET Scopes \ {{}} :
          IssueCode(k, u, c, s)
    \/ Administration
    \/ Maintenance
    \/ Tick

Spec == Init /\ [][Next]_vars

-----------------------------------------------------------------------------
(* Properties *)

\* A grant never forks: of all refresh tokens that go back to one code, at most
\* one is not revoked, whatever requests race for the code or for a token.
\* (HandleAuthorizationCode, HandleRefreshToken, MarkUsed, Rotate)
OneLiveTokenPerGrant ==
    \A t, s \in Tokens :
        LiveToken(t) /\ LiveToken(s) /\ rtok[t].root = rtok[s].root => t = s

\* One code, or one refresh token, is answered with tokens at most once.
\* (MarkUsed and Rotate are the only gate in front of generateTokens)
RedeemedOnce ==
    \A a, b \in access : a.from = b.from => a = b

\* However often a grant is refreshed and narrowed, its tokens belong to the
\* user and the client the code was issued for, and carry no scope the code
\* did not.  (client_id checks, scopeSubset, generateTokens)
Within(x, k) ==
    x.user = code[k].user /\ x.client = code[k].client /\ x.scope \subseteq code[k].scope
TokensStayWithinGrant ==
    /\ \A a \in access : Within(a, a.root)
    /\ \A t \in Tokens : rtok[t] # NoToken => Within(rtok[t], rtok[t].root)

\* A request answered "all tokens for this client were revoked" has left none
\* of the tokens alive that existed when it found the reuse, and none of them
\* comes back.  (revokeGrant against concurrent creation, rotation and purge)
ReportedCutOffIsReal ==
    \A p \in Requests :
        req[p] # Idle /\ req[p].pc = "done" /\ req[p].out = "reuse" =>
            /\ \A t \in req[p].seen : ~LiveToken(t) \/ rtok[t].exp <= now
            /\ \A a \in access : a.jti \in req[p].seenJtis => ~AccessActive(a)

\* Once a revocation covers an access token the token is refused until it
\* expires: no later row and no purge of the table revives it.
\* (upsertRevocation, DeleteExpired, RevocationRetention, MaxAccessTokenTTL)
RevocationSticks ==
    [][\A a \in access : IsRevoked(a) /\ now' < a.exp => IsRevoked(a)']_vars

\* A request cuts off nothing but the grant of the user and client its
\* credential was issued to, and only when its own client is that client.
\* (the client_id checks before the reuse checks, revokeGrant)
RequestsCutOnlyOwnGrant ==
    [][\A p \in Requests :
         req[p] # Idle /\ req'[p] # req[p] =>
            LET c == req[p].client  u == Cred(req[p]).user
            IN  /\ \A t \in Tokens : LiveToken(t) /\ ~LiveToken(t)' =>
                       rtok[t].client = c /\ rtok[t].user = u
                /\ \A v \in Users, d \in Clients :
                       revGrant'[v][d] # revGrant[v][d] => v = u /\ d = c]_vars

\* The token endpoint implements the life cycle of a grant: the right to
\* continue it is in one place at a time, and a grant that ended stays ended.
HoldsClaim(p, k) ==
    /\ req[p] # Idle
    /\ Root(req[p]) = k
    /\ \/ req[p].pc \in {"sign", "create"}
       \/ req[p].pc = "user" /\ req[p].op = "authorization_code"

GrantPhase(k) ==
    CASE code[k] = NoCode -> "unborn"
      [] LiveCode(k) \/ \E t \in Tokens : LiveToken(t) /\ rtok[t].root = k -> "held"
      [] \E p \in Requests : HoldsClaim(p, k) -> "taken"
      [] OTHER -> "ended"

Lifecycle == INSTANCE GrantLifecycle
    WITH Grants <- Codes, phase <- [k \in Codes |-> GrantPhase(k)]

ImplementsLifecycle == Lifecycle!Spec

\* What comments of the code say and the code does not do.

\* token.go: on reuse of a code "revoke every token issued from it".
ReuseEndsGrant ==
    \A p \in Requests :
        req[p] # Idle /\ req[p].pc = "done" /\ req[p].out = "reuse" =>
            /\ \A a \in access : a.root = Root(req[p]) => ~AccessActive(a)
            /\ \A t \in Tokens :
                  rtok[t] # NoToken /\ rtok[t].root = Root(req[p]) => ~RefreshActive(t)

\* admin.go: "Disabling a user ends everything they hold: sessions, refresh
\* tokens and (through the revocation watermark) access tokens".
DisablingEndsEverything ==
    \A u \in Users :
        user[u].row = "inactive" /\ user[u].cut =>
            \A c \in Clients : LiveTokensOf(u, c) = {}
=============================================================================
