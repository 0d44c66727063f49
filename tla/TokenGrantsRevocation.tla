----------------------- MODULE TokenGrantsRevocation -----------------------
(***************************************************************************)
(* Proof that a revoked access token stays revoked until it expires, and   *)
(* that what revokeGrant reports as revoked is.                            *)
(*                                                                         *)
(* Purging token_revocations is the danger: a row that goes too early      *)
(* revives tokens.  RowsOutlive says that no row does: a watermark lives   *)
(* Retention past its time, a jti row until its token expires, and no      *)
(* access token lives longer than MaxAccessTTL.  CutInv follows the tokens *)
(* a request saw when it found a reuse: those revokeGrant is through with  *)
(* are dead, and its watermark is later than every access token seen.      *)
(***************************************************************************)
EXTENDS TokenGrantsSafety

Outlives(row) == row # NoRow => row.exp >= row.nb + Retention

JtiRowsOutlive ==
    /\ \A j \in Jtis : revJti[j] # NoRow => \E a \in access : a.jti = j
    /\ \A a \in access : revJti[a.jti] # NoRow => revJti[a.jti].exp >= a.exp

RowsOutlive ==
    /\ \A a \in access : a.exp <= a.iat + MaxAccessTTL
    /\ JtiRowsOutlive
    /\ \A u \in Users : Outlives(revUser[u])
    /\ \A c \in Clients : Outlives(revClient[c])
    /\ \A u \in Users, c \in Clients : Outlives(revGrant[u][c])

RevocationInv == TypeInv /\ JtisUnique /\ RowsOutlive

-----------------------------------------------------------------------------
(* What a step does to a revocation row *)

RowMove(old, new) ==
    \/ new = old
    \/ new = Watermark(old)
    \/ old.exp <= now /\ new = NoRow /\ now' = now

JtiMove(j) ==
    \/ revJti'[j] = revJti[j]
    \/ \E a \in access : a.jti = j /\ revJti'[j] = JtiRow(a)
    \/ revJti[j].exp <= now /\ revJti'[j] = NoRow /\ now' = now

RowsMove ==
    /\ \A u \in Users : RowMove(revUser[u], revUser'[u])
    /\ \A c \in Clients : RowMove(revClient[c], revClient'[c])
    /\ \A u \in Users, c \in Clients : RowMove(revGrant[u][c], revGrant'[u][c])
    /\ \A j \in Jtis : JtiMove(j)

\* A step that leaves token_revocations alone moves no row.
LEMMA RowsUnchanged ==
  ASSUME UNCHANGED revRows
  PROVE  RowsMove
BY DEF revRows, RowsMove, RowMove, JtiMove

\* RevokeBefore moves one user_client row up.
LEMMA GrantRowMoves ==
  ASSUME TypeInv, NEW u \in Users, NEW c \in Clients,
         revGrant' = [revGrant EXCEPT ![u][c] = Watermark(revGrant[u][c])],
         UNCHANGED <<revUser, revClient, revJti>>
  PROVE  RowsMove
<1>1. ASSUME NEW v \in Users, NEW d \in Clients
      PROVE  RowMove(revGrant[v][d], revGrant'[v][d])
  BY DEF TypeInv, TypeOK, RowMove
<1> QED BY <1>1 DEF RowsMove, RowMove, JtiMove

\* Revoke moves one user_client row up.
LEMMA RevokeRowMoves ==
  ASSUME TypeInv, NEW t \in Tokens, rtok[t].st = "stored", RevokeRow(t),
         UNCHANGED <<revUser, revClient, revJti>>
  PROVE  RowsMove
<1>1. rtok[t] \in Token
  BY DEF TypeInv, TypeOK, NoToken
<1>2. rtok[t].user \in Users /\ rtok[t].client \in Clients
  BY <1>1 DEF Token
<1> QED BY <1>2, GrantRowMoves DEF RevokeRow

\* RevokeByUserID moves one user row up.
LEMMA UserRowMoves ==
  ASSUME TypeInv, NEW u \in Users, RevokeByUserID(u)
  PROVE  RowsMove
<1>1. ASSUME NEW v \in Users PROVE RowMove(revUser[v], revUser'[v])
  BY DEF RevokeByUserID, TypeInv, TypeOK, RowMove
<1> QED BY <1>1 DEF RevokeByUserID, RowsMove, RowMove, JtiMove

\* RevokeByClientID moves one client row up.
LEMMA ClientRowMoves ==
  ASSUME TypeInv, NEW c \in Clients, RevokeByClientID(c)
  PROVE  RowsMove
<1>1. ASSUME NEW d \in Clients PROVE RowMove(revClient[d], revClient'[d])
  BY DEF RevokeByClientID, TypeInv, TypeOK, RowMove
<1> QED BY <1>1 DEF RevokeByClientID, RowsMove, RowMove, JtiMove

\* Every step leaves a row, moves it up or purges it once it has expired.
LEMMA StepMovesRows ==
  ASSUME TypeInv, [Next]_vars
  PROVE  RowsMove
<1>1. ASSUME NEW p \in Requests,
             \/ Start(p) \/ GetByCode(p) \/ GetToken(p) \/ GetUser(p) \/ MarkUsed(p)
             \/ Rotate(p) \/ Sign(p) \/ ListTokens(p) \/ Finish(p) \/ Fail(p)
             \/ CreateToken(p)
      PROVE  RowsMove
  <2>1. UNCHANGED revRows
    BY <1>1 DEF Start, BeginCode, BeginRefresh, Begin, GetByCode, GetToken, GetUser,
       MarkUsed, Rotate, Sign, ListTokens, Finish, Fail, CreateToken
  <2> QED BY <2>1, RowsUnchanged
<1>2. ASSUME NEW p \in Requests, RevokeNext(p) PROVE RowsMove
  <2>1. req[p] # Idle /\ UNCHANGED <<revUser, revClient, revJti>>
    BY <1>2, NotIdle DEF RevokeNext
  <2>2. PICK t \in req[p].todo :
           \/ rtok[t].st = "stored" /\ RevokeListed(p, t)
           \/ UNCHANGED revGrant
    BY <1>2 DEF RevokeNext
  <2>3. t \in Tokens
    BY <2>1, RequestType DEF Request
  <2> QED BY <2>1, <2>2, <2>3, RevokeRowMoves, RowsUnchanged DEF RevokeListed, revRows
<1>3. ASSUME NEW p \in Requests, RevokeBefore(p) PROVE RowsMove
  <2>1. req[p] # Idle /\ UNCHANGED <<revUser, revClient, revJti>>
    BY <1>3, NotIdle DEF RevokeBefore
  <2>2. Cred(req[p]).user \in Users /\ Cred(req[p]).client \in Clients
    BY <2>1, RequestType
  <2> QED BY <1>3, <2>1, <2>2, GrantRowMoves DEF RevokeBefore, GrantWatermark
<1>4. CASE Administration
  <2>1. ASSUME NEW t \in Tokens, RevokeToken(t) PROVE RowsMove
    BY <2>1, RevokeRowMoves DEF RevokeToken
  <2>2. ASSUME NEW a \in access, RevokeAccessToken(a) PROVE RowsMove
    <3>1. ASSUME NEW j \in Jtis PROVE JtiMove(j)
      BY <2>2 DEF RevokeAccessToken, TypeInv, TypeOK, JtiMove
    <3> QED BY <2>2, <3>1 DEF RevokeAccessToken, RowsMove, RowMove
  <2>3. ASSUME NEW u \in Users,
               \/ SignOutUser(u) \/ DisableUser(u) \/ DisableUserTokens(u) \/ EnableUser(u)
               \/ DeleteUserTokens(u) \/ DeleteUser(u) \/ AdminJobFails(u)
        PROVE  RowsMove
    <3>1. RevokeByUserID(u) \/ UNCHANGED revRows
      BY <2>3 DEF SignOutUser, DisableUser, DisableUserTokens, EnableUser,
         DeleteUserTokens, DeleteUser, AdminJobFails
    <3> QED BY <3>1, UserRowMoves, RowsUnchanged
  <2>4. ASSUME NEW c \in Clients,
               \/ RevokeClientTokens(c) \/ DeleteClientTokens(c) \/ DeleteClient(c)
               \/ DeleteClientFails(c)
               \/ \E g \in SUBSET GrantTypes \ {{}} : UpdateClient(c, g)
        PROVE  RowsMove
    <3>1. RevokeByClientID(c) \/ UNCHANGED revRows
      BY <2>4 DEF RevokeClientTokens, DeleteClientTokens, DeleteClient,
         DeleteClientFails, UpdateClient
    <3> QED BY <3>1, ClientRowMoves, RowsUnchanged
  <2> QED BY <1>4, <2>1, <2>2, <2>3, <2>4 DEF Administration
<1>5. CASE DeleteExpiredRevocations
  <2>1. now' = now
    BY <1>5 DEF DeleteExpiredRevocations
  <2>2. ASSUME NEW u \in Users PROVE RowMove(revUser[u], revUser'[u])
    BY <1>5, <2>1 DEF DeleteExpiredRevocations, RowMove, Purged
  <2>3. ASSUME NEW c \in Clients PROVE RowMove(revClient[c], revClient'[c])
    BY <1>5, <2>1 DEF DeleteExpiredRevocations, RowMove, Purged
  <2>4. ASSUME NEW u \in Users, NEW c \in Clients
        PROVE  RowMove(revGrant[u][c], revGrant'[u][c])
    BY <1>5, <2>1 DEF DeleteExpiredRevocations, RowMove, Purged
  <2>5. ASSUME NEW j \in Jtis PROVE JtiMove(j)
    BY <1>5, <2>1 DEF DeleteExpiredRevocations, JtiMove, Purged
  <2> QED BY <2>2, <2>3, <2>4, <2>5 DEF RowsMove
<1>6. CASE DeleteExpiredCodes \/ DeleteExpiredTokens \/ Tick
  BY <1>6, RowsUnchanged DEF DeleteExpiredCodes, DeleteExpiredTokens, Tick
<1>7. ASSUME NEW k \in Codes, NEW u \in Users, NEW c \in Clients,
             NEW s \in SUBSET Scopes \ {{}}, IssueCode(k, u, c, s)
      PROVE  RowsMove
  BY <1>7, RowsUnchanged DEF IssueCode
<1>8. CASE UNCHANGED vars
  BY <1>8, RowsUnchanged DEF vars
<1> QED BY <1>1, <1>2, <1>3, <1>4, <1>5, <1>6, <1>7, <1>8, NextCases DEF Quiet, Maintenance

\* A watermark that is moved up or purged still outlives its tokens.
LEMMA OutlivesKept ==
  ASSUME TypeInv, NEW old \in Row, NEW new, Outlives(old), RowMove(old, new)
  PROVE  Outlives(new)
<1>1. CASE new = Watermark(old)
  <2>1. now \in Nat /\ Retention \in Nat
    BY LifetimesAssumption DEF TypeInv, TypeOK
  <2> QED BY <1>1, <2>1 DEF Watermark, Upsert, Later, Outlives, Row, NoRow
<1> QED BY <1>1 DEF RowMove, Outlives

\* The access tokens a step adds are those of a request that had signed one.
LEMMA AccessGrows ==
  ASSUME TypeInv, JtisUnique, [Next]_vars
  PROVE  \/ access' = access
         \/ \E p \in Requests, j \in Jtis :
               /\ Signed(p) /\ req[p].jti = {j}
               /\ access' = access \cup {AccessTokenOf(req[p], j)}
               /\ UNCHANGED revJti
<1>1. ASSUME NEW p \in Requests, CreateToken(p)
      PROVE  \/ access' = access
             \/ \E j \in Jtis : /\ Signed(p) /\ req[p].jti = {j}
                                /\ access' = access \cup {AccessTokenOf(req[p], j)}
                                /\ UNCHANGED revJti
  <2>1. Signed(p)
    BY <1>1, NotIdle DEF CreateToken, Signed
  <2>2. PICK j \in Jtis : req[p].jti = {j}
    BY <2>1 DEF JtisUnique
  <2>3. access' = access \/ access' = access \cup {AccessTokenOf(req[p], j)}
    BY <1>1, <2>2 DEF CreateToken, Respond
  <2>4. UNCHANGED revJti
    BY <1>1 DEF CreateToken, revRows
  <2> QED BY <2>1, <2>2, <2>3, <2>4
<1>2. CASE Quiet
  <2>1. ASSUME NEW p \in Requests, Sign(p) PROVE access' = access
    BY <2>1 DEF Sign
  <2> QED BY <1>2, <2>1, RequestSigned, OutsideLeavesRequests DEF Quiet
<1>3. ASSUME NEW k \in Codes, NEW u \in Users, NEW c \in Clients,
             NEW s \in SUBSET Scopes \ {{}}, IssueCode(k, u, c, s)
      PROVE  access' = access
  BY <1>3 DEF IssueCode
<1>4. CASE UNCHANGED vars
  BY <1>4 DEF vars
<1> QED BY <1>1, <1>2, <1>3, <1>4, NextCases

\* Every step keeps the invariant on rows.
LEMMA NextRows == RevocationInv /\ [Next]_vars => RowsOutlive'
<1> SUFFICES ASSUME RevocationInv, [Next]_vars PROVE RowsOutlive'
  OBVIOUS
<1>1. TypeInv /\ JtisUnique /\ RowsOutlive /\ RowsMove /\ TypeInv'
  BY StepMovesRows, NextType DEF RevocationInv
<1>2. /\ \A u \in Users : Outlives(revUser[u])'
      /\ \A c \in Clients : Outlives(revClient[c])'
      /\ \A u \in Users, c \in Clients : Outlives(revGrant[u][c])'
  <2>1. ASSUME NEW u \in Users PROVE Outlives(revUser'[u])
    <3>1. revUser[u] \in Row /\ Outlives(revUser[u]) /\ RowMove(revUser[u], revUser'[u])
      BY <1>1 DEF TypeInv, TypeOK, RowsOutlive, RowsMove
    <3> QED BY <1>1, <3>1, OutlivesKept
  <2>2. ASSUME NEW c \in Clients PROVE Outlives(revClient'[c])
    <3>1. revClient[c] \in Row /\ Outlives(revClient[c]) /\ RowMove(revClient[c], revClient'[c])
      BY <1>1 DEF TypeInv, TypeOK, RowsOutlive, RowsMove
    <3> QED BY <1>1, <3>1, OutlivesKept
  <2>3. ASSUME NEW u \in Users, NEW c \in Clients PROVE Outlives(revGrant'[u][c])
    <3>1. /\ revGrant[u][c] \in Row /\ Outlives(revGrant[u][c])
          /\ RowMove(revGrant[u][c], revGrant'[u][c])
      BY <1>1 DEF TypeInv, TypeOK, RowsOutlive, RowsMove
    <3> QED BY <1>1, <3>1, OutlivesKept
  <2> QED BY <2>1, <2>2, <2>3 DEF Outlives
<1>3. CASE access' = access
  <2>1. \A a \in access' : a.exp <= a.iat + MaxAccessTTL
    BY <1>1, <1>3 DEF RowsOutlive
  <2>2. ASSUME NEW j \in Jtis, revJti'[j] # NoRow PROVE \E a \in access' : a.jti = j
    BY <1>1, <1>3, <2>2 DEF RowsOutlive, JtiRowsOutlive, RowsMove, JtiMove
  <2>3. ASSUME NEW a \in access', revJti'[a.jti] # NoRow PROVE revJti'[a.jti].exp >= a.exp
    <3>1. a \in access /\ a.jti \in Jtis /\ a.exp \in Nat
      BY <1>1, <1>3 DEF TypeInv, TypeOK, Access
    <3>2. CASE revJti'[a.jti] = revJti[a.jti]
      BY <1>1, <2>3, <3>1, <3>2 DEF RowsOutlive, JtiRowsOutlive
    <3>3. ASSUME NEW b \in access, b.jti = a.jti, revJti'[a.jti] = JtiRow(b)
          PROVE  revJti'[a.jti].exp >= a.exp
      <4>1. b = a
        BY <1>1, <3>1, <3>3 DEF JtisUnique
      <4>2. revJti[a.jti] \in Row /\ now \in Nat
        BY <1>1, <3>1 DEF TypeInv, TypeOK
      <4> QED BY <3>1, <3>3, <4>1, <4>2, UpsertType DEF JtiRow
    <3> QED BY <1>1, <2>3, <3>1, <3>2, <3>3 DEF RowsMove, JtiMove
  <2> QED BY <1>2, <2>1, <2>2, <2>3 DEF RowsOutlive, JtiRowsOutlive
<1>4. ASSUME NEW p \in Requests, NEW j \in Jtis, Signed(p), req[p].jti = {j},
             access' = access \cup {AccessTokenOf(req[p], j)}, UNCHANGED revJti
      PROVE  RowsOutlive'
  <2> DEFINE n == AccessTokenOf(req[p], j)
  <2>1. req[p] \in Request
    BY <1>1, <1>4, RequestType DEF Signed
  <2>2. /\ n.jti = j /\ n.iat = req[p].iat /\ n.exp = req[p].iat + AccessTTL[req[p].client]
    BY DEF AccessTokenOf
  <2>3. n.exp <= n.iat + MaxAccessTTL
    <3>1. req[p].iat \in Nat /\ AccessTTL[req[p].client] \in 0..MaxAccessTTL /\ MaxAccessTTL \in Nat
      BY <2>1, LifetimesAssumption DEF Request
    <3> QED BY <2>2, <3>1
  <2>4. \A a \in access : a.jti # j
    BY <1>1, <1>4 DEF JtisUnique
  <2>5. revJti[j] = NoRow
    BY <1>1, <2>4 DEF RowsOutlive, JtiRowsOutlive
  <2> HIDE DEF n
  <2>6. \A a \in access' : a \in access \/ a = n
    BY <1>4 DEF n
  <2>7. \A a \in access' : a.exp <= a.iat + MaxAccessTTL
    BY <1>1, <2>3, <2>6 DEF RowsOutlive
  <2>8. \A x \in Jtis : revJti'[x] # NoRow => \E a \in access' : a.jti = x
    BY <1>1, <1>4 DEF RowsOutlive, JtiRowsOutlive
  <2>9. \A a \in access' : revJti'[a.jti] # NoRow => revJti'[a.jti].exp >= a.exp
    BY <1>1, <1>4, <2>2, <2>5, <2>6 DEF RowsOutlive, JtiRowsOutlive
  <2> QED BY <1>2, <2>7, <2>8, <2>9 DEF RowsOutlive, JtiRowsOutlive
<1> QED BY <1>1, <1>3, <1>4, AccessGrows

\* The empty table satisfies the invariant.
LEMMA InitRows == Init => RowsOutlive
BY DEF Init, RowsOutlive, JtiRowsOutlive, Outlives

\* No row of token_revocations expires before the access tokens it covers.
THEOREM RevocationInvariant == Spec => []RevocationInv
<1>1. Init => RevocationInv
  BY InitType, InitGrantInv, InitRows DEF RevocationInv
<1>2. RevocationInv /\ [Next]_vars => RevocationInv'
  BY NextType, NextJtis, NextRows DEF RevocationInv
<1> QED BY <1>1, <1>2, PTL DEF Spec

\* A watermark that covers an access token covers it until it expires.
LEMMA RowSticks ==
  ASSUME TypeInv, NEW old \in Row, NEW new, RowMove(old, new), Outlives(old),
         NEW a \in access, a.exp <= a.iat + MaxAccessTTL, old.nb >= a.iat, now' < a.exp
  PROVE  new.nb >= a.iat
<1>1. a.iat \in Nat /\ a.exp \in Nat /\ now \in Nat /\ Retention \in Nat /\ MaxAccessTTL \in Nat
      /\ MaxAccessTTL <= Retention
  BY LifetimesAssumption DEF TypeInv, TypeOK, Access
<1>2. old # NoRow
  BY <1>1 DEF NoRow
<1>3. CASE new = Watermark(old)
  BY <1>1, <1>2, <1>3 DEF Watermark, Upsert, Later, Row, NoRow
<1>4. CASE old.exp <= now /\ now' = now
  BY <1>1, <1>2, <1>4 DEF Outlives, Row, NoRow
<1> QED BY <1>3, <1>4 DEF RowMove

\* No step lifts the revocation of an access token that has not expired.
LEMMA RevokedKept ==
  ASSUME RevocationInv, [Next]_vars, NEW a \in access, IsRevoked(a), now' < a.exp
  PROVE  IsRevoked(a)'
<1>1. TypeInv /\ JtisUnique /\ RowsOutlive /\ RowsMove
  BY StepMovesRows DEF RevocationInv
<1>2. a.jti \in Jtis /\ a.user \in Users /\ a.client \in Clients /\ a.exp \in Nat /\ now \in Nat
  BY <1>1 DEF TypeInv, TypeOK, Access
<1>3. a.exp <= a.iat + MaxAccessTTL
  BY <1>1 DEF RowsOutlive
<1>4. CASE revJti[a.jti] # NoRow
  <2>1. revJti[a.jti].exp >= a.exp /\ revJti[a.jti] \in Row
    BY <1>1, <1>2, <1>4 DEF RowsOutlive, JtiRowsOutlive, TypeInv, TypeOK
  <2>2. revJti'[a.jti] # NoRow
    <3>1. CASE \E b \in access : b.jti = a.jti /\ revJti'[a.jti] = JtiRow(b)
      <4>1. PICK b \in access : b.jti = a.jti /\ revJti'[a.jti] = JtiRow(b)
        BY <3>1
      <4>2. b = a
        BY <1>1, <4>1 DEF JtisUnique
      <4> QED BY <1>2, <2>1, <4>1, <4>2, UpsertType DEF JtiRow
    <3>2. ~(revJti[a.jti].exp <= now /\ now' = now)
      BY <1>2, <1>4, <2>1 DEF Row, NoRow
    <3> QED BY <1>1, <1>2, <1>4, <3>1, <3>2 DEF RowsMove, JtiMove
  <2> QED BY <2>2 DEF IsRevoked
<1>5. CASE revUser[a.user].nb >= a.iat
  <2>1. /\ revUser[a.user] \in Row /\ Outlives(revUser[a.user])
        /\ RowMove(revUser[a.user], revUser'[a.user])
    BY <1>1, <1>2 DEF RowsOutlive, RowsMove, TypeInv, TypeOK
  <2>2. revUser'[a.user].nb >= a.iat
    BY <1>1, <1>3, <1>5, <2>1, RowSticks
  <2> QED BY <2>2 DEF IsRevoked
<1>6. CASE revClient[a.client].nb >= a.iat
  <2>1. /\ revClient[a.client] \in Row /\ Outlives(revClient[a.client])
        /\ RowMove(revClient[a.client], revClient'[a.client])
    BY <1>1, <1>2 DEF RowsOutlive, RowsMove, TypeInv, TypeOK
  <2>2. revClient'[a.client].nb >= a.iat
    BY <1>1, <1>3, <1>6, <2>1, RowSticks
  <2> QED BY <2>2 DEF IsRevoked
<1>7. CASE revGrant[a.user][a.client].nb >= a.iat
  <2>1. /\ revGrant[a.user][a.client] \in Row /\ Outlives(revGrant[a.user][a.client])
        /\ RowMove(revGrant[a.user][a.client], revGrant'[a.user][a.client])
    BY <1>1, <1>2 DEF RowsOutlive, RowsMove, TypeInv, TypeOK
  <2>2. revGrant'[a.user][a.client].nb >= a.iat
    BY <1>1, <1>3, <1>7, <2>1, RowSticks
  <2> QED BY <2>2 DEF IsRevoked
<1> QED BY <1>4, <1>5, <1>6, <1>7 DEF IsRevoked

\* Once a revocation covers an access token the token is refused until it
\* expires, whatever is revoked and purged meanwhile.
THEOREM RevokedStaysRevoked == Spec => RevocationSticks
<1>1. RevocationInv /\ [Next]_vars =>
        [\A a \in access : IsRevoked(a) /\ now' < a.exp => IsRevoked(a)']_vars
  BY RevokedKept
<1> QED BY <1>1, RevocationInvariant, PTL DEF Spec, RevocationSticks

-----------------------------------------------------------------------------
(* What a reuse leaves alive *)

\* No access token was issued in the future, nor is one about to be.
ClockPast ==
    /\ \A a \in access : a.iat <= now
    /\ \A p \in Requests : Signed(p) => req[p].iat <= now

TokenOff(t) == ~LiveToken(t) \/ rtok[t].exp <= now
AccessOff(a) == IsRevoked(a) \/ a.exp <= now

\* What a request knows of the tokens it saw when it found a reuse: they are
\* the ones of its credential's user and client, and the ones revokeGrant is
\* through with are dead.
Reported(p) == req[p].pc = "done" /\ req[p].out = "reuse"

SeenTokens(p) ==
    \A t \in req[p].seen :
        /\ rtok[t] # NoToken
        /\ rtok[t].user = Cred(req[p]).user /\ rtok[t].client = Cred(req[p]).client
        /\ req[p].pc = "revoke" => t \in req[p].todo \/ TokenOff(t)
        /\ Reported(p) => TokenOff(t)

SeenAccess(p) ==
    /\ \A j \in req[p].seenJtis :
          \E a \in access : /\ a.jti = j
                            /\ a.user = Cred(req[p]).user /\ a.client = Cred(req[p]).client
    /\ Reported(p) => \A a \in access : a.jti \in req[p].seenJtis => AccessOff(a)

CutInv ==
    /\ RevocationInv
    /\ ClockPast
    /\ \A p \in Requests : req[p] # Idle => SeenTokens(p) /\ SeenAccess(p)

\* Time does not run backwards.
LEMMA TimeAdvances ==
  ASSUME TypeInv, [Next]_vars
  PROVE  now \in Nat /\ now' \in Nat /\ now' >= now
<1>0. now \in Nat
  BY DEF TypeInv, TypeOK
<1>1. CASE UNCHANGED vars
  BY <1>0, <1>1 DEF vars
<1>2. CASE Tick
  BY <1>0, <1>2 DEF Tick
<1>3. CASE Administration \/ Maintenance
  <2>1. now' = now
    BY <1>3 DEF Administration, RevokeToken, RevokeAccessToken, SignOutUser, DisableUser,
       DisableUserTokens, EnableUser, DeleteUserTokens, DeleteUser, AdminJobFails,
       RevokeClientTokens, DeleteClientTokens, DeleteClient, DeleteClientFails, UpdateClient,
       Maintenance, DeleteExpiredCodes, DeleteExpiredTokens, DeleteExpiredRevocations
  <2> QED BY <1>0, <2>1
<1>4. ASSUME NEW p \in Requests, Start(p) \/ Progress(p) \/ Fail(p) PROVE now' = now
  BY <1>4 DEF Start, BeginCode, BeginRefresh, Begin, Progress, GetByCode, GetToken, GetUser,
     MarkUsed, Rotate, Sign, CreateToken, ListTokens, RevokeNext, RevokeBefore, Finish, Fail
<1>5. ASSUME NEW k \in Codes, NEW u \in Users, NEW c \in Clients,
             NEW s \in SUBSET Scopes \ {{}}, IssueCode(k, u, c, s)
      PROVE  now' = now
  BY <1>5 DEF IssueCode
<1> QED BY <1>0, <1>1, <1>2, <1>3, <1>4, <1>5 DEF Next

\* The ways a request moves on: it answers, goes to a next check, finds a
\* reuse, signs, or is somewhere in revokeGrant.
RequestMove(p) ==
    \/ \E out \in {"tokens", "refused", "error"} : Answer(p, out)
    \/ \E step \in {"user", "claim", "sign"} : Goto(p, step)
    \/ ReuseFound(p)
    \/ Sign(p)
    \/ ListTokens(p)
    \/ \E t \in req[p].todo : req[p].pc = "revoke" /\ RevokeListed(p, t)
    \/ RevokeBefore(p)
    \/ Finish(p)

\* Every step of a request under way is one of these.
LEMMA RequestMoves ==
  ASSUME TypeInv, NEW p \in Requests, req[p] # Idle, Start(p) \/ Progress(p) \/ Fail(p)
  PROVE  RequestMove(p)
<1>1. ~Start(p)
  BY DEF Start, BeginCode, BeginRefresh, Begin
<1>2. user[Cred(req[p]).user].row \in {"none", "inactive", "active"}
  BY RequestType DEF TypeInv, TypeOK, User
<1>3. CASE GetByCode(p) \/ GetToken(p) \/ GetUser(p)
  BY <1>2, <1>3 DEF GetByCode, GetByCodeChecks, GetToken, GetTokenChecks, GetUser, RequestMove
<1>4. CASE MarkUsed(p) \/ Rotate(p)
  BY <1>4 DEF MarkUsed, Rotate, RequestMove
<1>5. CASE CreateToken(p) \/ Fail(p)
  BY <1>5 DEF CreateToken, Respond, Fail, RequestMove
<1>6. CASE RevokeNext(p)
  BY <1>6 DEF RevokeNext, RequestMove
<1> QED BY <1>1, <1>3, <1>4, <1>5, <1>6 DEF Progress, RequestMove

\* Only Sign brings a request to the point where a token is signed.
LEMMA OnlySignSigns ==
  ASSUME TypeInv, NEW p \in Requests, Start(p) \/ Progress(p) \/ Fail(p), ~Sign(p)
  PROVE  ~Signed(p)'
<1>1. CASE Start(p)
  <2>1. req'[p].pc = "credential"
    BY <1>1 DEF Start, BeginCode, BeginRefresh, Begin, NewRequest, TypeInv, TypeOK
  <2> QED BY <2>1 DEF Signed
<1>2. CASE ~Start(p)
  <2>1. req[p] # Idle /\ req[p] \in Request
    <3>1. req[p] # Idle
      BY <1>2, NotIdle DEF Progress, GetByCode, GetToken, GetUser, MarkUsed, Rotate, Sign,
         CreateToken, ListTokens, RevokeNext, RevokeBefore, Finish, Fail
    <3> QED BY <3>1, RequestType
  <2>2. RequestMove(p)
    BY <2>1, RequestMoves
  <2>3. req'[p].pc # "create"
    BY <2>1, <2>2 DEF RequestMove, Answer, Goto, ReuseFound, ListTokens, RevokeListed,
       RevokeBefore, Finish, Idle, TypeInv, TypeOK, Request
  <2> QED BY <2>3 DEF Signed
<1> QED BY <1>1, <1>2

\* Access tokens carry the time of their signature, which is past.
LEMMA ClockPastKept ==
  ASSUME RevocationInv, ClockPast, [Next]_vars
  PROVE  ClockPast'
<1>0. TypeInv /\ JtisUnique /\ TypeInv'
  BY NextType DEF RevocationInv
<1>1. now \in Nat /\ now' \in Nat /\ now' >= now
  BY <1>0, TimeAdvances
<1>2. ASSUME NEW a \in access' PROVE a.iat <= now'
  <2>1. a \in Access
    BY <1>0 DEF TypeInv, TypeOK
  <2>2. a.iat \in Nat
    BY <2>1 DEF Access
  <2>3. a.iat <= now
    <3>1. CASE a \in access
      BY <3>1 DEF ClockPast
    <3>2. ASSUME NEW p \in Requests, NEW j \in Jtis, Signed(p), a = AccessTokenOf(req[p], j)
          PROVE  a.iat <= now
      BY <3>2 DEF ClockPast, AccessTokenOf
    <3> QED BY <1>0, <3>1, <3>2, AccessGrows
  <2> QED BY <1>1, <2>2, <2>3
<1>3. ASSUME NEW q \in Requests, Signed(q)' PROVE req'[q].iat <= now'
  <2>0. req'[q] = req[q] => req'[q].iat <= now'
    <3> SUFFICES ASSUME req'[q] = req[q] PROVE req[q].iat <= now'
      OBVIOUS
    <3>1. Signed(q)
      BY <1>3 DEF Signed
    <3>2. req[q].iat <= now /\ req[q].iat \in Nat
      BY <1>0, <3>1, RequestType DEF ClockPast, Signed, Request
    <3> QED BY <1>1, <3>2
  <2>1. ASSUME NEW p \in Requests, Start(p) \/ Progress(p) \/ Fail(p) PROVE req'[q].iat <= now'
    <3>1. CASE p # q
      BY <1>0, <2>0, <2>1, <3>1, OneMoves
    <3>2. CASE p = q
      <4>1. Sign(q)
        BY <1>0, <1>3, <2>1, <3>2, OnlySignSigns
      <4>2. req[q] # Idle
        BY <4>1, NotIdle DEF Sign
      <4>3. req[q] \in Request
        BY <1>0, <4>2, RequestType
      <4>4. req'[q].iat = now
        BY <1>0, <4>1, <4>3 DEF Sign, TypeInv, TypeOK, Request
      <4> QED BY <1>1, <4>4
    <3> QED BY <3>1, <3>2
  <2>2. CASE Administration \/ Maintenance \/ Tick
    BY <2>0, <2>2, OutsideLeavesRequests
  <2>3. ASSUME NEW k \in Codes, NEW u \in Users, NEW c \in Clients,
               NEW s \in SUBSET Scopes \ {{}}, IssueCode(k, u, c, s)
        PROVE  req'[q].iat <= now'
    BY <2>0, <2>3 DEF IssueCode
  <2>4. CASE UNCHANGED vars
    BY <2>0, <2>4 DEF vars
  <2> QED BY <2>1, <2>2, <2>3, <2>4 DEF Next
<1> QED BY <1>2, <1>3 DEF ClockPast

\* A refresh token that is revoked, deleted or expired stays so.
LEMMA TokenOffKept ==
  ASSUME TypeInv, [Next]_vars, NEW t \in Tokens, rtok[t] # NoToken, TokenOff(t)
  PROVE  TokenOff(t)'
<1>1. now \in Nat /\ now' \in Nat /\ now' >= now
  BY TimeAdvances
<1>2. rtok'[t].exp = rtok[t].exp
  BY StepKeepsRows DEF RowsKept
<1>3. rtok[t] \in Token
  BY DEF TypeInv, TypeOK
<1>4. CASE rtok[t].exp <= now
  <2>1. rtok[t].exp \in Nat
    BY <1>3 DEF Token
  <2> QED BY <1>1, <1>2, <1>4, <2>1 DEF TokenOff
<1>5. CASE ~LiveToken(t)
  <2>1. CASE Quiet \/ UNCHANGED vars
    <3>1. TokensAge
      BY <2>1, QuietAges, StutterType DEF AgeingStep
    <3>2. /\ rtok[t].revoked => rtok'[t].revoked
          /\ rtok[t].st = "gone" => rtok'[t].st = "gone"
      BY <3>1 DEF TokensAge
    <3> QED BY <1>3, <1>5, <3>2 DEF TokenOff, LiveToken, Token
  <2>2. ASSUME NEW p \in Requests, CreateToken(p) PROVE TokenOff(t)'
    <3>1. rtok'[t] = rtok[t]
      BY <2>2 DEF CreateToken, FreshTokens, TypeInv, TypeOK
    <3> QED BY <1>5, <3>1 DEF TokenOff, LiveToken
  <2>3. ASSUME NEW k \in Codes, NEW u \in Users, NEW c \in Clients,
               NEW s \in SUBSET Scopes \ {{}}, IssueCode(k, u, c, s)
        PROVE  TokenOff(t)'
    BY <1>5, <2>3 DEF IssueCode, TokenOff, LiveToken
  <2> QED BY <2>1, <2>2, <2>3, NextCases
<1> QED BY <1>4, <1>5 DEF TokenOff

\* An access token that is revoked or expired stays so.
LEMMA AccessOffKept ==
  ASSUME RevocationInv, [Next]_vars, NEW a \in access, AccessOff(a)
  PROVE  AccessOff(a)'
<1>1. now \in Nat /\ now' \in Nat /\ now' >= now
  BY TimeAdvances DEF RevocationInv
<1>2. a.exp \in Nat
  BY DEF RevocationInv, TypeInv, TypeOK, Access
<1>3. CASE a.exp <= now'
  BY <1>3 DEF AccessOff
<1>4. CASE now' < a.exp
  BY <1>1, <1>2, <1>4, RevokedKept DEF AccessOff
<1> QED BY <1>1, <1>2, <1>3, <1>4

\* A request that keeps what it saw, and is through with what it reports.
LEMMA SeenKept ==
  ASSUME CutInv, [Next]_vars, NEW p \in Requests, req[p] # Idle,
         req'[p].op = req[p].op, req'[p].cred = req[p].cred,
         req'[p].seen = req[p].seen, req'[p].seenJtis = req[p].seenJtis,
         \A t \in req[p].seen :
             /\ req'[p].pc = "revoke" => t \in req'[p].todo \/ TokenOff(t)'
             /\ Reported(p)' => TokenOff(t)',
         Reported(p)' => \A a \in access : a.jti \in req[p].seenJtis => AccessOff(a)'
  PROVE  SeenTokens(p)' /\ SeenAccess(p)'
<1>0. RevocationInv /\ TypeInv /\ JtisUnique /\ SeenTokens(p) /\ SeenAccess(p) /\ RowsKept
  BY StepKeepsRows DEF CutInv, RevocationInv
<1>1. /\ Cred(req[p])'.user = Cred(req[p]).user
      /\ Cred(req[p])'.client = Cred(req[p]).client
  BY <1>0, CredKept
<1>2. req[p].seen \subseteq Tokens
  BY <1>0, RequestType DEF Request
<1>3. \A t \in req[p].seen :
         /\ rtok'[t] # NoToken
         /\ rtok'[t].user = Cred(req[p]).user /\ rtok'[t].client = Cred(req[p]).client
  BY <1>0, <1>2 DEF RowsKept, SeenTokens
<1>4. SeenTokens(p)'
  BY <1>1, <1>3 DEF SeenTokens
<1>5. access \subseteq access' /\ \A a \in access' : a.jti \in req[p].seenJtis => a \in access
  <2>1. CASE access' = access
    BY <2>1
  <2>2. ASSUME NEW q \in Requests, NEW j \in Jtis, Signed(q), req[q].jti = {j},
               access' = access \cup {AccessTokenOf(req[q], j)}
        PROVE  access \subseteq access' /\ \A a \in access' : a.jti \in req[p].seenJtis => a \in access
    <3>1. j \notin req[p].seenJtis
      BY <1>0, <2>2 DEF JtisUnique, SeenAccess
    <3>2. AccessTokenOf(req[q], j).jti = j
      BY DEF AccessTokenOf
    <3> QED BY <2>2, <3>1, <3>2
  <2> QED BY <1>0, <2>1, <2>2, AccessGrows
<1>6. SeenAccess(p)'
  <2>1. \A j \in req'[p].seenJtis :
           \E a \in access' : /\ a.jti = j
                              /\ a.user = Cred(req[p])'.user /\ a.client = Cred(req[p])'.client
    BY <1>0, <1>1, <1>5 DEF SeenAccess
  <2>2. Reported(p)' => \A a \in access' : a.jti \in req'[p].seenJtis => AccessOff(a)'
    BY <1>5
  <2> QED BY <2>1, <2>2 DEF SeenAccess
<1> QED BY <1>4, <1>6

\* A request that does not move: what is dead stays dead.
LEMMA RestKeepsSeen ==
  ASSUME CutInv, [Next]_vars, NEW p \in Requests, req[p] # Idle, req'[p] = req[p]
  PROVE  SeenTokens(p)' /\ SeenAccess(p)'
<1>0. RevocationInv /\ TypeInv /\ SeenTokens(p) /\ SeenAccess(p)
  BY DEF CutInv, RevocationInv
<1>1. req[p].seen \subseteq Tokens
  BY <1>0, RequestType DEF Request
<1>2. Reported(p)' => Reported(p)
  BY DEF Reported
<1>3. ASSUME NEW t \in req[p].seen
      PROVE  /\ req'[p].pc = "revoke" => t \in req'[p].todo \/ TokenOff(t)'
             /\ Reported(p)' => TokenOff(t)'
  <2>1. /\ t \in Tokens /\ rtok[t] # NoToken
        /\ req[p].pc = "revoke" => t \in req[p].todo \/ TokenOff(t)
        /\ Reported(p) => TokenOff(t)
    BY <1>0, <1>1 DEF SeenTokens
  <2>2. TokenOff(t) => TokenOff(t)'
    BY <1>0, <2>1, TokenOffKept
  <2> QED BY <1>2, <2>1, <2>2
<1>4. Reported(p)' => \A a \in access : a.jti \in req[p].seenJtis => AccessOff(a)'
  BY <1>0, <1>2, AccessOffKept DEF SeenAccess
<1> QED BY <1>3, <1>4, SeenKept

\* A request that answers without reporting a reuse, or goes on, keeps what it saw.
LEMMA QuietMoveKeepsSeen ==
  ASSUME CutInv, [Next]_vars, NEW p \in Requests, req[p] # Idle,
         \/ \E out \in {"tokens", "refused", "error"} : Answer(p, out)
         \/ \E step \in {"user", "claim", "sign"} : Goto(p, step)
         \/ Sign(p)
  PROVE  SeenTokens(p)' /\ SeenAccess(p)'
<1>0. TypeInv
  BY DEF CutInv, RevocationInv
<1>1. req[p] \in Request
  BY <1>0, RequestType
<1>2. ASSUME NEW out \in {"tokens", "refused", "error"}, Answer(p, out)
      PROVE  /\ req'[p].op = req[p].op /\ req'[p].cred = req[p].cred
             /\ req'[p].seen = req[p].seen /\ req'[p].seenJtis = req[p].seenJtis
             /\ req'[p].pc = "done" /\ req'[p].out # "reuse"
  BY <1>0, <1>1, <1>2 DEF Answer, TypeInv, TypeOK, Request
<1>3. ASSUME NEW step \in {"user", "claim", "sign"}, Goto(p, step)
      PROVE  /\ req'[p].op = req[p].op /\ req'[p].cred = req[p].cred
             /\ req'[p].seen = req[p].seen /\ req'[p].seenJtis = req[p].seenJtis
             /\ req'[p].pc = step
  BY <1>0, <1>1, <1>3 DEF Goto, TypeInv, TypeOK, Request
<1>4. ASSUME NEW j \in Jtis, req' = [req EXCEPT ![p].pc = "create", ![p].jti = {j}, ![p].iat = now]
      PROVE  /\ req'[p].op = req[p].op /\ req'[p].cred = req[p].cred
             /\ req'[p].seen = req[p].seen /\ req'[p].seenJtis = req[p].seenJtis
             /\ req'[p].pc = "create"
  BY <1>0, <1>1, <1>4 DEF TypeInv, TypeOK, Request
<1>5. /\ req'[p].op = req[p].op /\ req'[p].cred = req[p].cred
      /\ req'[p].seen = req[p].seen /\ req'[p].seenJtis = req[p].seenJtis
      /\ req'[p].pc # "revoke" /\ ~Reported(p)'
  BY <1>2, <1>3, <1>4 DEF Sign, Reported
<1> QED BY <1>5, SeenKept

\* Finding a reuse: what the request remembers is alive and belongs to its
\* credential's user and client.
LEMMA ReuseFoundSees ==
  ASSUME CutInv, [Next]_vars, NEW p \in Requests, req[p] # Idle, ReuseFound(p)
  PROVE  SeenTokens(p)' /\ SeenAccess(p)'
<1> DEFINE u == Cred(req[p]).user
           c == Cred(req[p]).client
           T == LiveTokensOf(u, c)
           J == {a.jti : a \in {b \in access : b.user = u /\ b.client = c}}
<1>0. TypeInv /\ JtisUnique /\ RowsKept
  BY StepKeepsRows DEF CutInv, RevocationInv
<1>1. req[p] \in Request
  BY <1>0, RequestType
<1>2. req' = [req EXCEPT ![p].pc = "list", ![p].seen = T, ![p].seenJtis = J]
  BY Zenon DEF ReuseFound
<1>3. \A t \in T : /\ t \in Tokens /\ rtok[t] # NoToken
                   /\ rtok[t].user = u /\ rtok[t].client = c
  BY DEF LiveTokensOf, LiveToken, NoToken
<1>4. \A j \in J : \E a \in access : a.jti = j /\ a.user = u /\ a.client = c
  OBVIOUS
<1> HIDE DEF T, J
<1>5. /\ req'[p].op = req[p].op /\ req'[p].cred = req[p].cred /\ req'[p].pc = "list"
      /\ req'[p].seen = T /\ req'[p].seenJtis = J
  BY <1>0, <1>1, <1>2 DEF TypeInv, TypeOK, Request
<1>6. Cred(req[p])'.user = u /\ Cred(req[p])'.client = c
  BY <1>0, <1>5, CredKept
<1>7. access \subseteq access'
  BY <1>0, AccessGrows
<1> HIDE DEF u, c
<1>8. SeenTokens(p)'
  BY <1>0, <1>3, <1>5, <1>6 DEF SeenTokens, RowsKept, Reported
<1>9. SeenAccess(p)'
  BY <1>4, <1>5, <1>6, <1>7 DEF SeenAccess, Reported
<1> QED BY <1>8, <1>9

\* ListByUserID lists every token seen that is still alive.
LEMMA ListTokensKeepsSeen ==
  ASSUME CutInv, [Next]_vars, NEW p \in Requests, req[p] # Idle, ListTokens(p)
  PROVE  SeenTokens(p)' /\ SeenAccess(p)'
<1> DEFINE T == LiveTokensOf(Cred(req[p]).user, Cred(req[p]).client)
<1>0. TypeInv /\ SeenTokens(p) /\ now \in Nat
  BY DEF CutInv, RevocationInv, TypeInv, TypeOK
<1>1. req[p] \in Request
  BY <1>0, RequestType
<1>2. req' = [req EXCEPT ![p].pc = "revoke", ![p].todo = T]
  BY Zenon DEF ListTokens
<1>3. ASSUME NEW t \in req[p].seen PROVE t \in T \/ TokenOff(t)'
  <2>1. /\ t \in Tokens /\ rtok[t] # NoToken
        /\ rtok[t].user = Cred(req[p]).user /\ rtok[t].client = Cred(req[p]).client
    BY <1>0, <1>1 DEF SeenTokens, Request
  <2>2. rtok[t].exp \in Nat
    BY <1>0, <2>1 DEF TypeInv, TypeOK, Token
  <2>3. t \in T \/ TokenOff(t)
    BY <1>0, <2>1, <2>2 DEF LiveTokensOf, TokenOff
  <2> QED BY <1>0, <2>1, <2>3, TokenOffKept
<1> HIDE DEF T
<1>4. /\ req'[p].op = req[p].op /\ req'[p].cred = req[p].cred
      /\ req'[p].seen = req[p].seen /\ req'[p].seenJtis = req[p].seenJtis
      /\ req'[p].pc = "revoke" /\ req'[p].todo = T
  BY <1>0, <1>1, <1>2 DEF TypeInv, TypeOK, Request
<1> QED BY <1>3, <1>4, SeenKept DEF Reported

\* Revoking the next listed token leaves it dead.
LEMMA RevokeListedKeepsSeen ==
  ASSUME CutInv, [Next]_vars, NEW p \in Requests, req[p] # Idle,
         NEW s \in req[p].todo, req[p].pc = "revoke", RevokeListed(p, s)
  PROVE  SeenTokens(p)' /\ SeenAccess(p)'
<1>0. TypeInv /\ SeenTokens(p)
  BY DEF CutInv, RevocationInv
<1>1. req[p] \in Request
  BY <1>0, RequestType
<1>2. s \in Tokens /\ req[p].seen \subseteq Tokens
  BY <1>1 DEF Request
<1>3. /\ req'[p].op = req[p].op /\ req'[p].cred = req[p].cred
      /\ req'[p].seen = req[p].seen /\ req'[p].seenJtis = req[p].seenJtis
      /\ req'[p].pc = "revoke" /\ req'[p].todo = req[p].todo \ {s}
  BY <1>0, <1>1 DEF RevokeListed, TypeInv, TypeOK, Request
<1>4. ASSUME NEW t \in req[p].seen PROVE t \in req'[p].todo \/ TokenOff(t)'
  <2>1. /\ t \in Tokens /\ rtok[t] # NoToken
        /\ t \in req[p].todo \/ TokenOff(t)
    BY <1>0, <1>2 DEF SeenTokens
  <2>2. CASE t = s
    <3>1. rtok[s] \in Token
      BY <1>0, <2>1, <2>2 DEF TypeInv, TypeOK
    <3>2. rtok'[s].revoked
      BY <1>0, <1>2, <3>1 DEF RevokeListed, RevokeRow, TypeInv, TypeOK, Token
    <3> QED BY <2>2, <3>2 DEF TokenOff, LiveToken
  <2>3. CASE t # s
    BY <1>0, <1>3, <2>1, <2>3, TokenOffKept
  <2> QED BY <2>2, <2>3
<1> QED BY <1>3, <1>4, SeenKept DEF Reported

\* RevokeBefore comes last: the listed tokens are dead by then, and its
\* watermark covers every access token seen.
LEMMA RevokeBeforeKeepsSeen ==
  ASSUME CutInv, [Next]_vars, NEW p \in Requests, req[p] # Idle, RevokeBefore(p)
  PROVE  SeenTokens(p)' /\ SeenAccess(p)'
<1> DEFINE u == Cred(req[p]).user
           c == Cred(req[p]).client
<1>0. /\ TypeInv /\ JtisUnique /\ SeenTokens(p) /\ SeenAccess(p) /\ ClockPast /\ now \in Nat
      /\ Retention \in Nat
  BY LifetimesAssumption DEF CutInv, RevocationInv, TypeInv, TypeOK
<1>1. req[p] \in Request /\ u \in Users /\ c \in Clients
  BY <1>0, RequestType
<1>2. req[p].pc = "revoke" /\ req[p].todo = {}
  BY DEF RevokeBefore
<1>3. /\ req'[p].op = req[p].op /\ req'[p].cred = req[p].cred
      /\ req'[p].seen = req[p].seen /\ req'[p].seenJtis = req[p].seenJtis
      /\ req'[p].pc = "done"
  BY <1>0, <1>1 DEF RevokeBefore, Answer, TypeInv, TypeOK, Request
<1>4. ASSUME NEW t \in req[p].seen PROVE TokenOff(t)'
  <2>1. t \in Tokens /\ rtok[t] # NoToken /\ TokenOff(t)
    BY <1>0, <1>1, <1>2 DEF SeenTokens, Request
  <2> QED BY <1>0, <2>1, TokenOffKept
<1>5. revGrant'[u][c].nb >= now
  <2>1. revGrant' = [revGrant EXCEPT ![u][c] = Watermark(revGrant[u][c])]
    BY DEF RevokeBefore, GrantWatermark
  <2>2. revGrant[u][c] \in Row
    BY <1>0, <1>1 DEF TypeInv, TypeOK
  <2>3. revGrant'[u][c] = Watermark(revGrant[u][c])
    BY <1>0, <1>1, <2>1 DEF TypeInv, TypeOK
  <2>4. Watermark(revGrant[u][c]).nb = Later(revGrant[u][c].nb, now)
    BY DEF Watermark, Upsert
  <2> QED BY <1>0, <2>2, <2>3, <2>4 DEF Later, Row, NoRow
<1>6. ASSUME NEW a \in access, a.jti \in req[p].seenJtis PROVE AccessOff(a)'
  <2>1. a.user = u /\ a.client = c
    BY <1>0, <1>6 DEF SeenAccess, JtisUnique
  <2>2. a.iat <= now /\ a.iat \in Nat
    BY <1>0 DEF ClockPast, TypeInv, TypeOK, Access
  <2>3. revGrant'[u][c].nb \in Int
    <3>1. TypeOK'
      BY <1>0, NextType DEF TypeInv
    <3>2. revGrant'[u][c] \in Row
      BY <1>1, <3>1 DEF TypeOK
    <3> QED BY <3>2 DEF Row, NoRow
  <2>4. revGrant'[a.user][a.client].nb >= a.iat
    BY <1>0, <1>5, <2>1, <2>2, <2>3
  <2> QED BY <2>4 DEF AccessOff, IsRevoked
<1> QED BY <1>3, <1>4, <1>6, SeenKept

\* Every step keeps what requests know of the tokens they saw.
LEMMA NextCut == CutInv /\ [Next]_vars => CutInv'
<1> SUFFICES ASSUME CutInv, [Next]_vars PROVE CutInv'
  OBVIOUS
<1>0. RevocationInv /\ TypeInv /\ JtisUnique
  BY DEF CutInv, RevocationInv
<1>1. RevocationInv'
  BY <1>0, NextType, NextJtis, NextRows DEF RevocationInv
<1>2. ClockPast'
  BY <1>0, ClockPastKept DEF CutInv
<1>3. ASSUME NEW q \in Requests, req'[q] # Idle PROVE SeenTokens(q)' /\ SeenAccess(q)'
  <2>1. CASE req[q] # Idle /\ req'[q] = req[q]
    BY <2>1, RestKeepsSeen
  <2>2. ASSUME NEW p \in Requests, Start(p) \/ Progress(p) \/ Fail(p), p = q
        PROVE  SeenTokens(q)' /\ SeenAccess(q)'
    <3>1. CASE req[q] = Idle
      <4>1. Start(q)
        BY <2>2, <3>1 DEF Progress, GetByCode, GetToken, GetUser, MarkUsed, Rotate, Sign,
           CreateToken, ListTokens, RevokeNext, RevokeBefore, Finish, Fail, Idle
      <4>2. /\ req'[q].seen = {} /\ req'[q].seenJtis = {} /\ req'[q].pc = "credential"
        BY <1>0, <4>1 DEF Start, BeginCode, BeginRefresh, Begin, NewRequest, TypeInv, TypeOK
      <4> QED BY <4>2 DEF SeenTokens, SeenAccess, Reported
    <3>2. CASE req[q] # Idle
      <4>1. RequestMove(q)
        BY <1>0, <2>2, <3>2, RequestMoves
      <4>2. ~Finish(q)
        BY <1>0, <1>3 DEF Finish, TypeInv, TypeOK
      <4> QED BY <3>2, <4>1, <4>2, QuietMoveKeepsSeen, ReuseFoundSees, ListTokensKeepsSeen,
                 RevokeListedKeepsSeen, RevokeBeforeKeepsSeen DEF RequestMove
    <3> QED BY <3>1, <3>2
  <2>3. ASSUME NEW p \in Requests, Start(p) \/ Progress(p) \/ Fail(p), p # q
        PROVE  req'[q] = req[q]
    BY <1>0, <2>3, OneMoves
  <2>4. ASSUME Administration \/ Maintenance \/ Tick PROVE req'[q] = req[q]
    BY <2>4, OutsideLeavesRequests
  <2>5. ASSUME NEW k \in Codes, NEW u \in Users, NEW c \in Clients,
               NEW s \in SUBSET Scopes \ {{}}, IssueCode(k, u, c, s)
        PROVE  req'[q] = req[q]
    BY <2>5 DEF IssueCode
  <2>6. ASSUME UNCHANGED vars PROVE req'[q] = req[q]
    BY <2>6 DEF vars
  <2> QED BY <1>3, <2>1, <2>2, <2>3, <2>4, <2>5, <2>6 DEF Next
<1> QED BY <1>1, <1>2, <1>3 DEF CutInv

\* A request answered "all tokens for this client were revoked" has left none
\* of the tokens alive that existed when it found the reuse, and none of them
\* comes back, whatever is created, rotated, revoked and purged meanwhile.
\* (revokeGrant, Revoke, RevokeBefore, DeleteExpired)
THEOREM CutOffIsReal == Spec => []ReportedCutOffIsReal
<1>1. Init => CutInv
  <2> SUFFICES ASSUME Init PROVE CutInv
    OBVIOUS
  <2>1. RevocationInv
    BY InitType, InitGrantInv, InitRows DEF RevocationInv
  <2>2. ClockPast /\ \A p \in Requests : req[p] = Idle
    BY DEF Init, ClockPast, Signed
  <2> QED BY <2>1, <2>2 DEF CutInv
<1>2. CutInv => ReportedCutOffIsReal
  <2> SUFFICES ASSUME CutInv, NEW p \in Requests, req[p] # Idle, Reported(p)
               PROVE  /\ \A t \in req[p].seen : ~LiveToken(t) \/ rtok[t].exp <= now
                      /\ \A a \in access : a.jti \in req[p].seenJtis => ~AccessActive(a)
    BY DEF ReportedCutOffIsReal, Reported
  <2>1. SeenTokens(p) /\ SeenAccess(p) /\ now \in Nat /\ \A a \in access : a.exp \in Nat
    BY DEF CutInv, RevocationInv, TypeInv, TypeOK, Access
  <2> QED BY <2>1 DEF SeenTokens, SeenAccess, TokenOff, AccessOff, AccessActive
<1> QED BY <1>1, <1>2, NextCut, PTL DEF Spec
=============================================================================
