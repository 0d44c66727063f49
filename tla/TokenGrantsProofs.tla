------------------------- MODULE TokenGrantsProofs -------------------------
(***************************************************************************)
(* Type correctness of TokenGrants, and how its steps change the tables.   *)
(*                                                                         *)
(* Two steps create rows (IssueCode, CreateToken).  All others only age    *)
(* the tables: a row keeps its owner, its scope and its root, a consumed   *)
(* credential stays consumed and a deleted row stays deleted.  The proofs  *)
(* of the safety properties rest on that fact.                             *)
(***************************************************************************)
EXTENDS TokenGrants, TLAPS

\* A request under way was begun on a credential that was issued.
CredentialsExist ==
    \A p \in Requests : req[p] # Idle =>
        /\ req[p].op = "authorization_code" =>
              req[p].cred \in Codes /\ code[req[p].cred] # NoCode
        /\ req[p].op = "refresh_token" =>
              req[p].cred \in Tokens /\ rtok[req[p].cred] # NoToken

TypeInv == TypeOK /\ CredentialsExist

\* A step that creates no row: what it may do to auth_codes and to tokens.
CodesAge ==
    \A k \in Codes :
        /\ code[k] = NoCode => code'[k] = NoCode
        /\ code[k] # NoCode =>
             /\ code'[k] \in AuthCode
             /\ code'[k].user = code[k].user /\ code'[k].client = code[k].client
             /\ code'[k].scope = code[k].scope
             /\ code[k].used => code'[k].used
             /\ code[k].st = "gone" => code'[k].st = "gone"

TokensAge ==
    \A t \in Tokens :
        /\ rtok[t] = NoToken => rtok'[t] = NoToken
        /\ rtok[t] # NoToken =>
             /\ rtok'[t] \in Token
             /\ rtok'[t].user = rtok[t].user /\ rtok'[t].client = rtok[t].client
             /\ rtok'[t].scope = rtok[t].scope
             /\ rtok'[t].root = rtok[t].root /\ rtok'[t].exp = rtok[t].exp
             /\ rtok[t].revoked => rtok'[t].revoked
             /\ rtok[t].st = "gone" => rtok'[t].st = "gone"

\* The empty store is well typed.
LEMMA InitType == Init => TypeInv
BY IdsAssumption, LifetimesAssumption DEF Init, TypeInv, TypeOK, CredentialsExist,
   User, Client, Row, NoRow, GrantTypes

\* A request under way has a credential that exists, and what the handler
\* reads from it (user, client, scope, root) is of the right type.
LEMMA RequestType ==
  ASSUME TypeInv, NEW p \in Requests, req[p] # Idle
  PROVE  /\ req[p] \in Request
         /\ req[p].op = "authorization_code" => req[p].cred \in Codes /\ code[req[p].cred] \in AuthCode
         /\ req[p].op = "refresh_token" => req[p].cred \in Tokens /\ rtok[req[p].cred] \in Token
         /\ Cred(req[p]).user \in Users
         /\ Cred(req[p]).client \in Clients
         /\ Cred(req[p]).scope \subseteq Scopes
         /\ Root(req[p]) \in Codes
<1>1. req[p] \in Request
  BY DEF TypeInv, TypeOK
<1>2. req[p].op \in {"authorization_code", "refresh_token"}
  BY <1>1 DEF Request, GrantTypes
<1>3. CASE req[p].op = "authorization_code"
  <2>1. req[p].cred \in Codes /\ code[req[p].cred] \in AuthCode
    BY <1>3 DEF TypeInv, TypeOK, CredentialsExist
  <2> QED BY <1>1, <1>3, <2>1 DEF Cred, Root, AuthCode
<1>4. CASE req[p].op = "refresh_token"
  <2>1. req[p].cred \in Tokens /\ rtok[req[p].cred] \in Token
    BY <1>4 DEF TypeInv, TypeOK, CredentialsExist
  <2> QED BY <1>1, <1>4, <2>1 DEF Cred, Root, Token
<1> QED BY <1>2, <1>3, <1>4

ReqType == [Requests -> Request \cup {Idle}]

\* Moving to the next repository call keeps the request well typed.
LEMMA GotoType ==
  ASSUME TypeInv, NEW p \in Requests, req[p] # Idle,
         NEW step \in Steps, Goto(p, step)
  PROVE  req' \in ReqType
<1>1. [req[p] EXCEPT !.pc = step] \in Request
  BY RequestType DEF Request
<1> QED BY <1>1 DEF TypeInv, TypeOK, Goto, ReqType

\* Answering keeps the request well typed.
LEMMA AnswerType ==
  ASSUME TypeInv, NEW p \in Requests, req[p] # Idle,
         NEW out \in {"tokens", "refused", "reuse", "error"}, Answer(p, out)
  PROVE  req' \in ReqType
<1>0. req[p] \in Request
  BY RequestType
<1>1. [req[p] EXCEPT !.pc = "done", !.out = out] \in Request
  BY ONLY <1>0, out \in {"tokens", "refused", "reuse", "error"} DEF Request
<1> QED BY <1>1 DEF TypeInv, TypeOK, Answer, ReqType

\* Noticing a reuse keeps the request well typed.
LEMMA ReuseFoundType ==
  ASSUME TypeInv, NEW p \in Requests, req[p] # Idle, ReuseFound(p)
  PROVE  req' \in ReqType
<1> DEFINE u == Cred(req[p]).user
           c == Cred(req[p]).client
           T == LiveTokensOf(u, c)
           J == {a.jti : a \in {b \in access : b.user = u /\ b.client = c}}
<1>1. T \in SUBSET Tokens
  BY DEF LiveTokensOf
<1>2. J \in SUBSET Jtis
  BY DEF TypeInv, TypeOK, Access
<1>3. req' = [req EXCEPT ![p].pc = "list", ![p].seen = T, ![p].seenJtis = J]
  BY Zenon DEF ReuseFound
<1> HIDE DEF T, J
<1>0. req[p] \in Request
  BY RequestType
<1>4. [req[p] EXCEPT !.pc = "list", !.seen = T, !.seenJtis = J] \in Request
  BY ONLY <1>0, <1>1, <1>2 DEF Request, Steps
<1> QED BY <1>3, <1>4 DEF TypeInv, TypeOK, ReqType

\* What a step may do to the requests: leave one alone, end it, move it on,
\* or start one on a credential that exists.
RequestsMove ==
    \A p \in Requests : req'[p] # Idle =>
        \/ req[p] # Idle /\ req'[p].op = req[p].op /\ req'[p].cred = req[p].cred
        \/ req'[p].op = "authorization_code" /\ req'[p].cred \in Codes /\ code[req'[p].cred] # NoCode
        \/ req'[p].op = "refresh_token" /\ req'[p].cred \in Tokens /\ rtok[req'[p].cred] # NoToken

\* Moving on keeps the credential of the request.
LEMMA GotoMoves ==
  ASSUME TypeInv, NEW p \in Requests, req[p] # Idle, NEW step, Goto(p, step)
  PROVE  RequestsMove
BY RequestType DEF TypeInv, TypeOK, Goto, RequestsMove, Request

\* Answering keeps the credential of the request.
LEMMA AnswerMoves ==
  ASSUME TypeInv, NEW p \in Requests, req[p] # Idle, NEW out, Answer(p, out)
  PROVE  RequestsMove
BY RequestType DEF TypeInv, TypeOK, Answer, RequestsMove, Request

\* Noticing a reuse keeps the credential of the request.
LEMMA ReuseFoundMoves ==
  ASSUME TypeInv, NEW p \in Requests, req[p] # Idle, ReuseFound(p)
  PROVE  RequestsMove
BY RequestType DEF TypeInv, TypeOK, ReuseFound, RequestsMove, Request

\* While no row returns to unborn, requests keep existing credentials.
LEMMA CredentialsKept ==
  ASSUME TypeInv, RequestsMove, req' \in ReqType,
         \A k \in Codes : code[k] # NoCode => code'[k] # NoCode,
         \A t \in Tokens : rtok[t] # NoToken => rtok'[t] # NoToken
  PROVE  CredentialsExist'
BY DEF TypeInv, CredentialsExist, RequestsMove

-----------------------------------------------------------------------------
(* The tables *)

CodeType == [Codes -> AuthCode \cup {NoCode}]
TokType == [Tokens -> Token \cup {NoToken}]

\* A step that leaves auth_codes alone only ages it.
LEMMA CodesUnchanged ==
  ASSUME TypeInv, UNCHANGED code
  PROVE  code' \in CodeType /\ CodesAge
BY DEF TypeInv, TypeOK, CodesAge, CodeType

\* A step that leaves tokens alone only ages it.
LEMMA TokensUnchanged ==
  ASSUME TypeInv, UNCHANGED rtok
  PROVE  rtok' \in TokType /\ TokensAge
BY DEF TypeInv, TypeOK, TokensAge, TokType

\* MarkUsed only ages auth_codes.
LEMMA CodeMarked ==
  ASSUME TypeInv, NEW k \in Codes, code[k] # NoCode,
         code' = [code EXCEPT ![k].used = TRUE]
  PROVE  code' \in CodeType /\ CodesAge
<1>1. code[k] \in AuthCode
  BY DEF TypeInv, TypeOK
<1>2. [code[k] EXCEPT !.used = TRUE] \in AuthCode
  BY <1>1 DEF AuthCode
<1>3. code' \in CodeType
  BY <1>2 DEF TypeInv, TypeOK, CodeType
<1> QED BY <1>1, <1>2, <1>3 DEF TypeInv, TypeOK, CodesAge, AuthCode, CodeType

\* Rotate and Revoke only age tokens.
LEMMA TokenRevoked ==
  ASSUME TypeInv, NEW t \in Tokens, rtok[t] # NoToken,
         rtok' = [rtok EXCEPT ![t].revoked = TRUE]
  PROVE  rtok' \in TokType /\ TokensAge
<1>1. rtok[t] \in Token
  BY DEF TypeInv, TypeOK
<1>2. [rtok[t] EXCEPT !.revoked = TRUE] \in Token
  BY <1>1 DEF Token
<1>3. rtok' \in TokType
  BY <1>2 DEF TypeInv, TypeOK, TokType
<1> QED BY <1>1, <1>2, <1>3 DEF TypeInv, TypeOK, TokensAge, Token, TokType

\* Deleting rows (purge, cascade) only ages auth_codes.
LEMMA CodesDeleted ==
  ASSUME TypeInv, NEW S \in SUBSET Codes,
         code' = [k \in Codes |-> IF k \in S THEN DeleteRow(code[k]) ELSE code[k]]
  PROVE  code' \in CodeType /\ CodesAge
<1>1. ASSUME NEW k \in Codes, code[k] # NoCode
      PROVE  /\ DeleteRow(code[k]) \in AuthCode
             /\ DeleteRow(code[k]).user = code[k].user
             /\ DeleteRow(code[k]).client = code[k].client
             /\ DeleteRow(code[k]).scope = code[k].scope
             /\ DeleteRow(code[k]).used = code[k].used
             /\ DeleteRow(code[k]).st = "gone"
  <2>1. code[k] \in AuthCode
    BY <1>1 DEF TypeInv, TypeOK
  <2> QED BY <2>1 DEF DeleteRow, AuthCode
<1>2. ASSUME NEW k \in Codes, code[k] = NoCode
      PROVE  DeleteRow(code[k]) = NoCode
  BY <1>2 DEF DeleteRow, NoCode
<1> HIDE DEF DeleteRow
<1>3. code' \in CodeType
  BY <1>1, <1>2 DEF TypeInv, TypeOK, CodeType
<1>4. CodesAge
  BY <1>1, <1>2 DEF TypeInv, TypeOK, CodesAge
<1> QED BY <1>3, <1>4

\* Deleting rows (purge, cascade) only ages tokens.
LEMMA TokensDeleted ==
  ASSUME TypeInv, NEW S \in SUBSET Tokens,
         rtok' = [t \in Tokens |-> IF t \in S THEN DeleteRow(rtok[t]) ELSE rtok[t]]
  PROVE  rtok' \in TokType /\ TokensAge
<1>1. ASSUME NEW t \in Tokens, rtok[t] # NoToken
      PROVE  /\ DeleteRow(rtok[t]) \in Token
             /\ DeleteRow(rtok[t]).user = rtok[t].user
             /\ DeleteRow(rtok[t]).client = rtok[t].client
             /\ DeleteRow(rtok[t]).scope = rtok[t].scope
             /\ DeleteRow(rtok[t]).root = rtok[t].root
             /\ DeleteRow(rtok[t]).exp = rtok[t].exp
             /\ DeleteRow(rtok[t]).revoked = rtok[t].revoked
             /\ DeleteRow(rtok[t]).st = "gone"
  <2>1. rtok[t] \in Token
    BY <1>1 DEF TypeInv, TypeOK
  <2> QED BY <2>1 DEF DeleteRow, Token
<1>2. ASSUME NEW t \in Tokens, rtok[t] = NoToken
      PROVE  DeleteRow(rtok[t]) = NoToken
  BY <1>2 DEF DeleteRow, NoToken
<1> HIDE DEF DeleteRow
<1>3. rtok' \in TokType
  BY <1>1, <1>2 DEF TypeInv, TypeOK, TokType
<1>4. TokensAge
  BY <1>1, <1>2 DEF TypeInv, TypeOK, TokensAge
<1> QED BY <1>3, <1>4

\* revokeWhere only ages tokens.
LEMMA TokensRevokedWhere ==
  ASSUME TypeInv, NEW S \in SUBSET Tokens,
         rtok' = [t \in Tokens |-> IF rtok[t].st = "stored" /\ t \in S
                                   THEN [rtok[t] EXCEPT !.revoked = TRUE] ELSE rtok[t]]
  PROVE  rtok' \in TokType /\ TokensAge
<1>1. ASSUME NEW t \in Tokens, rtok[t].st = "stored"
      PROVE  rtok[t] \in Token /\ [rtok[t] EXCEPT !.revoked = TRUE] \in Token
  <2>1. rtok[t] \in Token
    BY <1>1 DEF TypeInv, TypeOK, NoToken
  <2> QED BY <2>1 DEF Token
<1>2. rtok' \in TokType
  BY <1>1 DEF TypeInv, TypeOK, TokType
<1>3. TokensAge
  <2> SUFFICES ASSUME NEW t \in Tokens
               PROVE  /\ rtok[t] = NoToken => rtok'[t] = NoToken
                      /\ rtok[t] # NoToken =>
                           /\ rtok'[t] \in Token
                           /\ rtok'[t].user = rtok[t].user /\ rtok'[t].client = rtok[t].client
                           /\ rtok'[t].scope = rtok[t].scope
                           /\ rtok'[t].root = rtok[t].root /\ rtok'[t].exp = rtok[t].exp
                           /\ rtok[t].revoked => rtok'[t].revoked
                           /\ rtok[t].st = "gone" => rtok'[t].st = "gone"
    BY DEF TokensAge
  <2>1. CASE rtok[t].st = "stored" /\ t \in S
    BY <1>1, <2>1 DEF Token, NoToken
  <2>2. CASE ~(rtok[t].st = "stored" /\ t \in S)
    BY <2>2 DEF TypeInv, TypeOK
  <2> QED BY <2>1, <2>2
<1> QED BY <1>2, <1>3

\* upsertRevocation yields a row that is at least as late as both sources.
LEMMA UpsertType ==
  ASSUME NEW row \in Row, NEW n \in Nat, NEW e \in Nat
  PROVE  /\ Upsert(row, n, e) \in [nb : Nat, exp : Nat]
         /\ Upsert(row, n, e).nb >= n /\ Upsert(row, n, e).nb >= row.nb
         /\ Upsert(row, n, e).exp >= e /\ Upsert(row, n, e).exp >= row.exp
         /\ Upsert(row, n, e) \in Row /\ Upsert(row, n, e) # NoRow
BY DEF Upsert, Later, Row, NoRow

\* A watermark is a row.
LEMMA WatermarkType ==
  ASSUME TypeInv, NEW row \in Row
  PROVE  Watermark(row) \in Row
BY UpsertType, LifetimesAssumption DEF TypeInv, TypeOK, Watermark

\* Revoke keeps tokens and token_revocations well typed.
LEMMA RevokeRowType ==
  ASSUME TypeInv, NEW t \in Tokens, rtok[t].st = "stored", RevokeRow(t)
  PROVE  /\ rtok' \in TokType /\ TokensAge
         /\ revGrant' \in [Users -> [Clients -> Row]]
<1>1. rtok[t] # NoToken
  BY DEF NoToken
<1>2. rtok[t] \in Token
  BY <1>1 DEF TypeInv, TypeOK
<1>3. rtok' \in TokType /\ TokensAge
  BY <1>1, TokenRevoked DEF RevokeRow
<1>4. rtok[t].user \in Users /\ rtok[t].client \in Clients
  BY <1>2 DEF Token
<1>5. Watermark(revGrant[rtok[t].user][rtok[t].client]) \in Row
  BY <1>4, WatermarkType DEF TypeInv, TypeOK
<1>6. revGrant' = [revGrant EXCEPT ![rtok[t].user][rtok[t].client] =
                       Watermark(revGrant[rtok[t].user][rtok[t].client])]
  BY DEF RevokeRow
<1>7. revGrant' \in [Users -> [Clients -> Row]]
  BY <1>4, <1>5, <1>6 DEF TypeInv, TypeOK
<1> QED BY <1>3, <1>7

\* RevokeByUserID keeps tokens and token_revocations well typed.
LEMMA RevokeByUserType ==
  ASSUME TypeInv, NEW u \in Users, RevokeByUserID(u)
  PROVE  /\ rtok' \in TokType /\ TokensAge
         /\ revUser' \in [Users -> Row]
         /\ UNCHANGED <<revGrant, revClient, revJti>>
<1> DEFINE S == {t \in Tokens : rtok[t].user = u}
<1>1. rtok' = [t \in Tokens |-> IF rtok[t].st = "stored" /\ t \in S
                                THEN [rtok[t] EXCEPT !.revoked = TRUE] ELSE rtok[t]]
  BY DEF RevokeByUserID, RevokeWhere
<1>2. S \in SUBSET Tokens
  OBVIOUS
<1> HIDE DEF S
<1>3. rtok' \in TokType /\ TokensAge
  BY <1>1, <1>2, TokensRevokedWhere
<1>4. revUser' \in [Users -> Row]
  BY WatermarkType DEF RevokeByUserID, TypeInv, TypeOK
<1> QED BY <1>3, <1>4 DEF RevokeByUserID

\* RevokeByClientID keeps tokens and token_revocations well typed.
LEMMA RevokeByClientType ==
  ASSUME TypeInv, NEW c \in Clients, RevokeByClientID(c)
  PROVE  /\ rtok' \in TokType /\ TokensAge
         /\ revClient' \in [Clients -> Row]
         /\ UNCHANGED <<revUser, revGrant, revJti>>
<1> DEFINE S == {t \in Tokens : rtok[t].client = c}
<1>1. rtok' = [t \in Tokens |-> IF rtok[t].st = "stored" /\ t \in S
                                THEN [rtok[t] EXCEPT !.revoked = TRUE] ELSE rtok[t]]
  BY DEF RevokeByClientID, RevokeWhere
<1>2. S \in SUBSET Tokens
  OBVIOUS
<1> HIDE DEF S
<1>3. rtok' \in TokType /\ TokensAge
  BY <1>1, <1>2, TokensRevokedWhere
<1>4. revClient' \in [Clients -> Row]
  BY WatermarkType DEF RevokeByClientID, TypeInv, TypeOK
<1> QED BY <1>3, <1>4 DEF RevokeByClientID

-----------------------------------------------------------------------------
(* Steps that create no row *)

AgeingStep == TypeInv' /\ CodesAge /\ TokensAge

\* The conjuncts of the type invariant, put together.
LEMMA Ageing ==
  ASSUME TypeInv, code' \in CodeType, CodesAge, rtok' \in TokType, TokensAge,
         req' \in ReqType, RequestsMove,
         now' \in Nat, user' \in [Users -> User], client' \in [Clients -> Client],
         access' \in SUBSET Access, revUser' \in [Users -> Row],
         revGrant' \in [Users -> [Clients -> Row]],
         revClient' \in [Clients -> Row], revJti' \in [Jtis -> Row]
  PROVE  AgeingStep
<1>1. TypeOK'
  BY DEF TypeOK, CodeType, TokType, ReqType
<1>2. \A k \in Codes : code[k] # NoCode => code'[k] # NoCode
  BY DEF CodesAge, AuthCode, NoCode
<1>3. \A t \in Tokens : rtok[t] # NoToken => rtok'[t] # NoToken
  BY DEF TokensAge, Token, NoToken
<1>4. CredentialsExist'
  BY <1>2, <1>3, CredentialsKept
<1> QED BY <1>1, <1>4 DEF TypeInv, AgeingStep

\* A step outside the token endpoint moves no request.
LEMMA RequestsUnchanged ==
  ASSUME TypeInv, UNCHANGED req
  PROVE  req' \in ReqType /\ RequestsMove
BY DEF TypeInv, TypeOK, ReqType, RequestsMove

\* A step that changes nothing but a request is an ageing step.
LEMMA RequestStep ==
  ASSUME TypeInv, UNCHANGED <<now, tables, access, revRows>>,
         req' \in ReqType, RequestsMove
  PROVE  AgeingStep
<1>1. UNCHANGED <<now, user, client, code, rtok, access, revUser, revGrant, revClient, revJti>>
  BY DEF tables, revRows
<1>2. code' \in CodeType /\ CodesAge /\ rtok' \in TokType /\ TokensAge
  BY <1>1, CodesUnchanged, TokensUnchanged
<1> QED BY <1>1, <1>2, Ageing DEF TypeInv, TypeOK

\* A request with a program counter is not idle.
LEMMA NotIdle ==
  ASSUME NEW p \in Requests, req[p].pc # "idle"
  PROVE  req[p] # Idle
BY DEF Idle

\* Accepting a request on an existing credential is an ageing step.
LEMMA BeginStep ==
  ASSUME TypeInv, NEW p \in Requests, NEW op \in GrantTypes, NEW c \in Clients,
         NEW cred, NEW match \in BOOLEAN, NEW want \in SUBSET Scopes,
         \/ op = "authorization_code" /\ cred \in Codes /\ code[cred] # NoCode
         \/ op = "refresh_token" /\ cred \in Tokens /\ rtok[cred] # NoToken,
         Begin(p, op, c, cred, match, want)
  PROVE  AgeingStep
<1> DEFINE r == NewRequest(op, c, cred, match, want)
<1>0. AllowsGrant(c, "refresh_token") \in BOOLEAN
  BY DEF AllowsGrant
<1>1. r \in Request
  BY <1>0 DEF NewRequest, Request, Steps
<1>2. r.op = op /\ r.cred = cred
  BY DEF NewRequest
<1>3. req' = [req EXCEPT ![p] = r]
  BY DEF Begin
<1> HIDE DEF r
<1>4. req' \in ReqType
  BY <1>1, <1>3 DEF TypeInv, TypeOK, ReqType
<1>5. RequestsMove
  BY <1>2, <1>3 DEF TypeInv, TypeOK, RequestsMove
<1> QED BY <1>4, <1>5, RequestStep DEF Begin

\* Start is an ageing step.
LEMMA StartStep ==
  ASSUME TypeInv, NEW p \in Requests, Start(p)
  PROVE  AgeingStep
<1>1. CASE \E c \in Clients, k \in Codes, match \in BOOLEAN : BeginCode(p, c, k, match)
  <2> PICK c \in Clients, k \in Codes, match \in BOOLEAN : BeginCode(p, c, k, match)
    BY <1>1
  <2>1. {} \in SUBSET Scopes /\ "authorization_code" \in GrantTypes
    BY DEF GrantTypes
  <2> QED BY <2>1, BeginStep DEF BeginCode
<1>2. CASE \E c \in Clients, t \in Tokens, want \in SUBSET Scopes : BeginRefresh(p, c, t, want)
  <2> PICK c \in Clients, t \in Tokens, want \in SUBSET Scopes : BeginRefresh(p, c, t, want)
    BY <1>2
  <2>1. TRUE \in BOOLEAN /\ "refresh_token" \in GrantTypes
    BY DEF GrantTypes
  <2> QED BY <2>1, BeginStep DEF BeginRefresh
<1> QED BY <1>1, <1>2 DEF Start

\* GetByCode is an ageing step.
LEMMA GetByCodeStep ==
  ASSUME TypeInv, NEW p \in Requests, GetByCode(p)
  PROVE  AgeingStep
<1>1. req[p] # Idle
  BY NotIdle DEF GetByCode
<1>2. Answer(p, "refused") \/ ReuseFound(p) \/ Goto(p, "claim")
  BY DEF GetByCode, GetByCodeChecks
<1>3. req' \in ReqType /\ RequestsMove
  <2>1. CASE Answer(p, "refused")
    BY <1>1, <2>1, AnswerType, AnswerMoves
  <2>2. CASE ReuseFound(p)
    BY <1>1, <2>2, ReuseFoundType, ReuseFoundMoves
  <2>3. CASE Goto(p, "claim")
    BY <1>1, <2>3, GotoType, GotoMoves DEF Steps
  <2> QED BY <1>2, <2>1, <2>2, <2>3
<1> QED BY <1>3, RequestStep DEF GetByCode

\* GetToken is an ageing step.
LEMMA GetTokenStep ==
  ASSUME TypeInv, NEW p \in Requests, GetToken(p)
  PROVE  AgeingStep
<1>1. req[p] # Idle
  BY NotIdle DEF GetToken
<1>2. Answer(p, "refused") \/ ReuseFound(p) \/ Goto(p, "user")
  BY DEF GetToken, GetTokenChecks
<1>3. req' \in ReqType /\ RequestsMove
  <2>1. CASE Answer(p, "refused")
    BY <1>1, <2>1, AnswerType, AnswerMoves
  <2>2. CASE ReuseFound(p)
    BY <1>1, <2>2, ReuseFoundType, ReuseFoundMoves
  <2>3. CASE Goto(p, "user")
    BY <1>1, <2>3, GotoType, GotoMoves DEF Steps
  <2> QED BY <1>2, <2>1, <2>2, <2>3
<1> QED BY <1>3, RequestStep DEF GetToken

\* GetUser is an ageing step.
LEMMA GetUserStep ==
  ASSUME TypeInv, NEW p \in Requests, GetUser(p)
  PROVE  AgeingStep
<1>1. req[p] # Idle
  BY NotIdle DEF GetUser
<1>2. user[Cred(req[p]).user].row \in {"none", "inactive", "active"}
  BY <1>1, RequestType DEF TypeInv, TypeOK, User
<1>3. \/ Answer(p, "error") \/ Answer(p, "refused") \/ Goto(p, "claim")
      \/ Goto(p, "sign")
  BY <1>2 DEF GetUser
<1>4. req' \in ReqType /\ RequestsMove
  <2>1. CASE Answer(p, "refused") \/ Answer(p, "error")
    BY <1>1, <2>1, AnswerType, AnswerMoves
  <2>2. CASE Goto(p, "claim") \/ Goto(p, "sign")
    BY <1>1, <2>2, GotoType, GotoMoves DEF Steps
  <2> QED BY <1>3, <2>1, <2>2
<1> QED BY <1>4, RequestStep DEF GetUser

\* MarkUsed is an ageing step.
LEMMA MarkUsedStep ==
  ASSUME TypeInv, NEW p \in Requests, MarkUsed(p)
  PROVE  AgeingStep
<1>1. req[p] # Idle
  BY NotIdle DEF MarkUsed
<1> DEFINE k == req[p].cred
<1>2. k \in Codes /\ code[k] # NoCode
  BY <1>1 DEF TypeInv, CredentialsExist, MarkUsed
<1>3. \/ Goto(p, "user") /\ code' = [code EXCEPT ![k].used = TRUE]
      \/ ReuseFound(p) /\ UNCHANGED code
      \/ Answer(p, "error") /\ UNCHANGED code
  BY DEF MarkUsed
<1>4. code' \in CodeType /\ CodesAge
  BY <1>2, <1>3, CodeMarked, CodesUnchanged
<1>5. req' \in ReqType /\ RequestsMove
  BY <1>1, <1>3, GotoType, GotoMoves, ReuseFoundType, ReuseFoundMoves,
     AnswerType, AnswerMoves DEF Steps
<1>6. UNCHANGED <<now, user, client, rtok, access, revUser, revGrant, revClient, revJti>>
  BY DEF MarkUsed, revRows
<1>7. rtok' \in TokType /\ TokensAge
  BY <1>6, TokensUnchanged
<1> QED BY <1>4, <1>5, <1>6, <1>7, Ageing DEF TypeInv, TypeOK

\* Rotate is an ageing step.
LEMMA RotateStep ==
  ASSUME TypeInv, NEW p \in Requests, Rotate(p)
  PROVE  AgeingStep
<1>1. req[p] # Idle
  BY NotIdle DEF Rotate
<1> DEFINE t == req[p].cred
<1>2. t \in Tokens /\ rtok[t] # NoToken
  BY <1>1 DEF TypeInv, CredentialsExist, Rotate
<1>3. \/ Goto(p, "sign") /\ rtok' = [rtok EXCEPT ![t].revoked = TRUE]
      \/ ReuseFound(p) /\ UNCHANGED rtok
      \/ Answer(p, "error") /\ UNCHANGED rtok
  BY DEF Rotate
<1>4. rtok' \in TokType /\ TokensAge
  BY <1>2, <1>3, TokenRevoked, TokensUnchanged
<1>5. req' \in ReqType /\ RequestsMove
  BY <1>1, <1>3, GotoType, GotoMoves, ReuseFoundType, ReuseFoundMoves,
     AnswerType, AnswerMoves DEF Steps
<1>6. UNCHANGED <<now, user, client, code, access, revUser, revGrant, revClient, revJti>>
  BY DEF Rotate, revRows
<1>7. code' \in CodeType /\ CodesAge
  BY <1>6, CodesUnchanged
<1> QED BY <1>4, <1>5, <1>6, <1>7, Ageing DEF TypeInv, TypeOK

\* Sign is an ageing step.
LEMMA SignStep ==
  ASSUME TypeInv, NEW p \in Requests, Sign(p)
  PROVE  AgeingStep
<1>1. req[p] # Idle
  BY NotIdle DEF Sign
<1>2. PICK j \in Jtis : req' = [req EXCEPT ![p].pc = "create", ![p].jti = {j}, ![p].iat = now]
  BY DEF Sign
<1>3. [req[p] EXCEPT !.pc = "create", !.jti = {j}, !.iat = now] \in Request
  <2>1. req[p] \in Request /\ now \in Nat /\ {j} \in SUBSET Jtis
    BY <1>1, RequestType DEF TypeInv, TypeOK
  <2> QED BY <2>1 DEF Request, Steps
<1>4. req' \in ReqType
  BY <1>2, <1>3 DEF TypeInv, TypeOK, ReqType
<1>5. RequestsMove
  BY <1>1, <1>2, RequestType DEF TypeInv, TypeOK, RequestsMove, Request
<1> QED BY <1>4, <1>5, RequestStep DEF Sign

\* ListTokens is an ageing step.
LEMMA ListTokensStep ==
  ASSUME TypeInv, NEW p \in Requests, ListTokens(p)
  PROVE  AgeingStep
<1>1. req[p] # Idle
  BY NotIdle DEF ListTokens
<1> DEFINE T == LiveTokensOf(Cred(req[p]).user, Cred(req[p]).client)
<1>2. T \in SUBSET Tokens
  BY DEF LiveTokensOf
<1>3. req' = [req EXCEPT ![p].pc = "revoke", ![p].todo = T]
  BY DEF ListTokens
<1> HIDE DEF T
<1>0. req[p] \in Request
  BY <1>1, RequestType
<1>4. [req[p] EXCEPT !.pc = "revoke", !.todo = T] \in Request
  BY ONLY <1>0, <1>2 DEF Request, Steps
<1>5. req' \in ReqType
  BY <1>3, <1>4 DEF TypeInv, TypeOK, ReqType
<1>6. RequestsMove
  BY <1>1, <1>3, RequestType DEF TypeInv, TypeOK, RequestsMove, Request
<1> QED BY <1>5, <1>6, RequestStep DEF ListTokens

\* RevokeNext is an ageing step.
LEMMA RevokeNextStep ==
  ASSUME TypeInv, NEW p \in Requests, RevokeNext(p)
  PROVE  AgeingStep
<1>1. req[p] # Idle
  BY NotIdle DEF RevokeNext
<1>2. UNCHANGED <<now, user, client, code, access, revUser, revClient, revJti>>
  BY DEF RevokeNext
<1>3. PICK t \in req[p].todo :
         \/ rtok[t].st = "stored" /\ RevokeListed(p, t)
         \/ Answer(p, "error") /\ UNCHANGED <<rtok, revGrant>>
  BY DEF RevokeNext
<1>4. t \in Tokens
  BY <1>1, RequestType DEF Request
<1>5. code' \in CodeType /\ CodesAge
  BY <1>2, CodesUnchanged
<1>6. CASE rtok[t].st = "stored" /\ RevokeListed(p, t)
  <2>1. rtok' \in TokType /\ TokensAge /\ revGrant' \in [Users -> [Clients -> Row]]
    BY <1>4, <1>6, RevokeRowType DEF RevokeListed
  <2>2. req' = [req EXCEPT ![p].todo = req[p].todo \ {t}]
    BY <1>6 DEF RevokeListed
  <2>3. [req[p] EXCEPT !.todo = req[p].todo \ {t}] \in Request
    BY <1>1, RequestType DEF Request
  <2>4. req' \in ReqType
    BY <2>2, <2>3 DEF TypeInv, TypeOK, ReqType
  <2>5. RequestsMove
    BY <1>1, <2>2, RequestType DEF TypeInv, TypeOK, RequestsMove, Request
  <2> QED BY <1>2, <1>5, <2>1, <2>4, <2>5, Ageing DEF TypeInv, TypeOK
<1>7. CASE Answer(p, "error") /\ UNCHANGED <<rtok, revGrant>>
  <2>1. rtok' \in TokType /\ TokensAge
    BY <1>7, TokensUnchanged
  <2>2. req' \in ReqType /\ RequestsMove
    BY <1>1, <1>7, AnswerType, AnswerMoves
  <2> QED BY <1>2, <1>5, <1>7, <2>1, <2>2, Ageing DEF TypeInv, TypeOK
<1> QED BY <1>3, <1>6, <1>7

\* RevokeBefore is an ageing step.
LEMMA RevokeBeforeStep ==
  ASSUME TypeInv, NEW p \in Requests, RevokeBefore(p)
  PROVE  AgeingStep
<1>1. req[p] # Idle
  BY NotIdle DEF RevokeBefore
<1> DEFINE u == Cred(req[p]).user
           c == Cred(req[p]).client
<1>2. u \in Users /\ c \in Clients
  BY <1>1, RequestType
<1>3. UNCHANGED <<now, user, client, code, rtok, access, revUser, revClient, revJti>>
  BY DEF RevokeBefore, tables
<1>4. revGrant' = [revGrant EXCEPT ![u][c] = Watermark(revGrant[u][c])]
  BY DEF RevokeBefore, GrantWatermark
<1> HIDE DEF u, c
<1>5. Watermark(revGrant[u][c]) \in Row
  BY <1>2, WatermarkType DEF TypeInv, TypeOK
<1>6. revGrant' \in [Users -> [Clients -> Row]]
  BY <1>2, <1>4, <1>5 DEF TypeInv, TypeOK
<1>7. req' \in ReqType /\ RequestsMove
  BY <1>1, AnswerType, AnswerMoves DEF RevokeBefore
<1>8. code' \in CodeType /\ CodesAge /\ rtok' \in TokType /\ TokensAge
  BY <1>3, CodesUnchanged, TokensUnchanged
<1> QED BY <1>3, <1>6, <1>7, <1>8, Ageing DEF TypeInv, TypeOK

\* A failing handler is an ageing step.
LEMMA FailStep ==
  ASSUME TypeInv, NEW p \in Requests, Fail(p)
  PROVE  AgeingStep
BY AnswerType, AnswerMoves, RequestStep DEF Fail

\* Finish is an ageing step.
LEMMA FinishStep ==
  ASSUME TypeInv, NEW p \in Requests, Finish(p)
  PROVE  AgeingStep
<1>1. req' \in ReqType
  BY DEF Finish, TypeInv, TypeOK, ReqType
<1>2. RequestsMove
  BY DEF Finish, TypeInv, TypeOK, RequestsMove
<1> QED BY <1>1, <1>2, RequestStep DEF Finish

\* The updates of a users row the console makes are well typed.
LEMMA UserUpdated ==
  ASSUME TypeInv, NEW u \in Users
  PROVE  /\ [user[u] EXCEPT !.job = "none"] \in User
         /\ [user[u] EXCEPT !.job = "delete"] \in User
         /\ [user[u] EXCEPT !.row = "inactive", !.job = "disable"] \in User
         /\ [user[u] EXCEPT !.row = "active", !.cut = FALSE] \in User
         /\ [user[u] EXCEPT !.job = "none", !.cut = (user[u].row = "inactive")] \in User
<1>1. user[u] \in User /\ (user[u].row = "inactive") \in BOOLEAN
  BY DEF TypeInv, TypeOK
<1> QED BY <1>1 DEF User

\* The administrator and the maintenance runner.
LEMMA AdministrationStep ==
  ASSUME TypeInv, Administration
  PROVE  AgeingStep
<1> USE DEF TypeInv, TypeOK
<1>1. ASSUME NEW t \in Tokens, RevokeToken(t) PROVE AgeingStep
  <2>1. rtok' \in TokType /\ TokensAge /\ revGrant' \in [Users -> [Clients -> Row]]
    BY <1>1, RevokeRowType DEF RevokeToken
  <2> QED BY <1>1, <2>1, CodesUnchanged, RequestsUnchanged, Ageing DEF RevokeToken
<1>2. ASSUME NEW a \in access, RevokeAccessToken(a) PROVE AgeingStep
  <2>1. a.jti \in Jtis /\ a.exp \in Nat
    BY DEF Access
  <2>2. JtiRow(a) \in Row
    BY <2>1, UpsertType DEF JtiRow
  <2>3. revJti' \in [Jtis -> Row]
    BY <1>2, <2>1, <2>2 DEF RevokeAccessToken
  <2>4. UNCHANGED <<now, user, client, code, rtok, access, revUser, revGrant, revClient, req>>
    BY <1>2 DEF RevokeAccessToken, tables
  <2> QED BY <2>3, <2>4, CodesUnchanged, TokensUnchanged, RequestsUnchanged, Ageing
<1>3. ASSUME NEW u \in Users,
             SignOutUser(u) \/ DisableUserTokens(u) \/ DeleteUserTokens(u)
      PROVE  AgeingStep
  <2>1. UNCHANGED <<now, client, code, access, req>>
    BY <1>3 DEF SignOutUser, DisableUserTokens, DeleteUserTokens
  <2>2. RevokeByUserID(u) \/ UNCHANGED <<rtok, revRows>>
    BY <1>3 DEF SignOutUser, DisableUserTokens, DeleteUserTokens
  <2>3. /\ rtok' \in TokType /\ TokensAge /\ revUser' \in [Users -> Row]
        /\ UNCHANGED <<revGrant, revClient, revJti>>
    BY <2>2, RevokeByUserType, TokensUnchanged DEF revRows
  <2>4. user' \in [Users -> User]
    <3>1. \/ user' = user
          \/ user' = [user EXCEPT ![u].job = "delete"]
          \/ user' = [user EXCEPT ![u].job = "none", ![u].cut = (user[u].row = "inactive")]
      BY <1>3 DEF SignOutUser, DisableUserTokens, DeleteUserTokens
    <3>2. user \in [Users -> User]
      BY ONLY TypeInv
    <3>3. /\ [user[u] EXCEPT !.job = "delete"] \in User
          /\ [user[u] EXCEPT !.job = "none", !.cut = (user[u].row = "inactive")] \in User
      BY Zenon, UserUpdated
    <3> QED BY ONLY <3>1, <3>2, <3>3, u \in Users
  <2>5. code' \in CodeType /\ CodesAge /\ req' \in ReqType /\ RequestsMove
    BY <2>1, CodesUnchanged, RequestsUnchanged
  <2> QED BY <2>1, <2>3, <2>4, <2>5, Ageing
<1>4. ASSUME NEW u \in Users, DisableUser(u) \/ EnableUser(u) \/ AdminJobFails(u)
      PROVE  AgeingStep
  <2>1. UNCHANGED <<now, client, code, rtok, access, revUser, revGrant, revClient, revJti, req>>
    BY <1>4 DEF DisableUser, EnableUser, AdminJobFails, revRows
  <2>2. user' \in [Users -> User]
    <3>1. \/ user' = [user EXCEPT ![u].job = "none"]
          \/ user' = [user EXCEPT ![u].row = "inactive", ![u].job = "disable"]
          \/ user' = [user EXCEPT ![u].row = "active", ![u].cut = FALSE]
      BY ONLY <1>4 DEF DisableUser, EnableUser, AdminJobFails
    <3>2. user \in [Users -> User]
      BY ONLY TypeInv
    <3>3. /\ [user[u] EXCEPT !.job = "none"] \in User
          /\ [user[u] EXCEPT !.row = "inactive", !.job = "disable"] \in User
          /\ [user[u] EXCEPT !.row = "active", !.cut = FALSE] \in User
      BY Zenon, UserUpdated
    <3> QED BY ONLY <3>1, <3>2, <3>3, u \in Users
  <2> QED BY <2>1, <2>2, CodesUnchanged, TokensUnchanged, RequestsUnchanged, Ageing
<1>5. ASSUME NEW u \in Users, DeleteUser(u) PROVE AgeingStep
  <2> DEFINE S == {k \in Codes : code[k] # NoCode /\ code[k].user = u}
             T == {t \in Tokens : rtok[t] # NoToken /\ rtok[t].user = u}
  <2>1. /\ code' = [k \in Codes |-> IF k \in S THEN DeleteRow(code[k]) ELSE code[k]]
        /\ rtok' = [t \in Tokens |-> IF t \in T THEN DeleteRow(rtok[t]) ELSE rtok[t]]
    BY <1>5 DEF DeleteUser
  <2>2. S \in SUBSET Codes /\ T \in SUBSET Tokens
    OBVIOUS
  <2> HIDE DEF S, T
  <2>3. code' \in CodeType /\ CodesAge /\ rtok' \in TokType /\ TokensAge
    BY <2>1, <2>2, CodesDeleted, TokensDeleted
  <2>4. UNCHANGED <<now, client, access, revUser, revGrant, revClient, revJti, req>>
    BY <1>5 DEF DeleteUser, revRows
  <2>5. user' \in [Users -> User]
    BY <1>5 DEF DeleteUser, User
  <2> QED BY <2>3, <2>4, <2>5, RequestsUnchanged, Ageing
<1>6. ASSUME NEW c \in Clients, RevokeClientTokens(c) \/ DeleteClientTokens(c)
      PROVE  AgeingStep
  <2>1. UNCHANGED <<now, user, code, access, req>>
    BY <1>6 DEF RevokeClientTokens, DeleteClientTokens
  <2>2. RevokeByClientID(c) \/ UNCHANGED <<rtok, revRows>>
    BY <1>6 DEF RevokeClientTokens, DeleteClientTokens
  <2>3. /\ rtok' \in TokType /\ TokensAge /\ revClient' \in [Clients -> Row]
        /\ UNCHANGED <<revUser, revGrant, revJti>>
    BY <2>2, RevokeByClientType, TokensUnchanged DEF revRows
  <2>4. client' \in [Clients -> Client]
    <3>1. client' = client \/ client' = [client EXCEPT ![c].deleting = TRUE]
      BY <1>6 DEF RevokeClientTokens, DeleteClientTokens
    <3>2. client \in [Clients -> Client]
      BY ONLY TypeInv
    <3> QED BY ONLY <3>1, <3>2, c \in Clients DEF Client
  <2>5. code' \in CodeType /\ CodesAge /\ req' \in ReqType /\ RequestsMove
    BY <2>1, CodesUnchanged, RequestsUnchanged
  <2> QED BY <2>1, <2>3, <2>4, <2>5, Ageing
<1>7. ASSUME NEW c \in Clients, NEW g \in SUBSET GrantTypes, UpdateClient(c, g)
      PROVE  AgeingStep
  <2>1. UNCHANGED <<now, user, code, rtok, access, revUser, revGrant, revClient, revJti, req>>
    BY <1>7 DEF UpdateClient, revRows
  <2>2. client' \in [Clients -> Client]
    BY <1>7 DEF UpdateClient, Client
  <2> QED BY <2>1, <2>2, CodesUnchanged, TokensUnchanged, RequestsUnchanged, Ageing
<1>8. ASSUME NEW c \in Clients, DeleteClientFails(c) PROVE AgeingStep
  <2>1. UNCHANGED <<now, user, code, rtok, access, revUser, revGrant, revClient, revJti, req>>
    BY <1>8 DEF DeleteClientFails, revRows
  <2>2. client' \in [Clients -> Client]
    BY <1>8 DEF DeleteClientFails, Client
  <2> QED BY <2>1, <2>2, CodesUnchanged, TokensUnchanged, RequestsUnchanged, Ageing
<1>9. ASSUME NEW c \in Clients, DeleteClient(c) PROVE AgeingStep
  <2> DEFINE S == {k \in Codes : code[k] # NoCode /\ code[k].client = c}
             T == {t \in Tokens : rtok[t] # NoToken /\ rtok[t].client = c}
  <2>1. /\ code' = [k \in Codes |-> IF k \in S THEN DeleteRow(code[k]) ELSE code[k]]
        /\ rtok' = [t \in Tokens |-> IF t \in T THEN DeleteRow(rtok[t]) ELSE rtok[t]]
    BY <1>9 DEF DeleteClient
  <2>2. S \in SUBSET Codes /\ T \in SUBSET Tokens
    OBVIOUS
  <2> HIDE DEF S, T
  <2>3. code' \in CodeType /\ CodesAge /\ rtok' \in TokType /\ TokensAge
    BY <2>1, <2>2, CodesDeleted, TokensDeleted
  <2>4. UNCHANGED <<now, user, access, revUser, revGrant, revClient, revJti, req>>
    BY <1>9 DEF DeleteClient, revRows
  <2>5. client' \in [Clients -> Client]
    BY <1>9 DEF DeleteClient, Client
  <2> QED BY <2>3, <2>4, <2>5, RequestsUnchanged, Ageing
<1> QED BY <1>1, <1>2, <1>3, <1>4, <1>5, <1>6, <1>7, <1>8, <1>9 DEF Administration

\* The maintenance runner only ages the tables.
LEMMA MaintenanceStep ==
  ASSUME TypeInv, Maintenance
  PROVE  AgeingStep
<1> USE DEF TypeInv, TypeOK
<1>1. CASE DeleteExpiredCodes
  <2> DEFINE S == {k \in Codes : code[k].st = "stored" /\ code[k].exp <= now}
  <2>1. code' = [k \in Codes |-> IF k \in S THEN DeleteRow(code[k]) ELSE code[k]]
    BY <1>1 DEF DeleteExpiredCodes
  <2>2. S \in SUBSET Codes
    OBVIOUS
  <2> HIDE DEF S
  <2>3. UNCHANGED <<now, user, client, rtok, access, revUser, revGrant, revClient, revJti, req>>
    BY <1>1 DEF DeleteExpiredCodes, revRows
  <2> QED BY <2>1, <2>2, <2>3, CodesDeleted, TokensUnchanged, RequestsUnchanged, Ageing
<1>2. CASE DeleteExpiredTokens
  <2> DEFINE T == {t \in Tokens : rtok[t].st = "stored" /\ rtok[t].exp <= now}
  <2>1. rtok' = [t \in Tokens |-> IF t \in T THEN DeleteRow(rtok[t]) ELSE rtok[t]]
    BY <1>2 DEF DeleteExpiredTokens
  <2>2. T \in SUBSET Tokens
    OBVIOUS
  <2> HIDE DEF T
  <2>3. UNCHANGED <<now, user, client, code, access, revUser, revGrant, revClient, revJti, req>>
    BY <1>2 DEF DeleteExpiredTokens, revRows
  <2> QED BY <2>1, <2>2, <2>3, TokensDeleted, CodesUnchanged, RequestsUnchanged, Ageing
<1>3. CASE DeleteExpiredRevocations
  <2>1. ASSUME NEW row \in Row PROVE Purged(row) \in Row
    BY DEF Purged, Row
  <2>2. UNCHANGED <<now, user, client, code, rtok, access, req>>
    BY <1>3 DEF DeleteExpiredRevocations, tables
  <2>3. revUser' \in [Users -> Row] /\ revClient' \in [Clients -> Row] /\ revJti' \in [Jtis -> Row]
    BY <1>3, <2>1 DEF DeleteExpiredRevocations
  <2>4. revGrant' \in [Users -> [Clients -> Row]]
    BY <1>3, <2>1 DEF DeleteExpiredRevocations
  <2> QED BY <2>2, <2>3, <2>4, CodesUnchanged, TokensUnchanged, RequestsUnchanged, Ageing
<1> QED BY <1>1, <1>2, <1>3 DEF Maintenance

\* The clock is an ageing step.
LEMMA TickStep ==
  ASSUME TypeInv, Tick
  PROVE  AgeingStep
<1>1. UNCHANGED <<user, client, code, rtok, access, revUser, revGrant, revClient, revJti, req>>
  BY DEF Tick, tables, revRows
<1>2. now' \in Nat
  BY DEF Tick, TypeInv, TypeOK
<1> QED BY <1>1, <1>2, CodesUnchanged, TokensUnchanged, RequestsUnchanged, Ageing
        DEF TypeInv, TypeOK

-----------------------------------------------------------------------------
(* The two steps that create rows *)

\* CreateAuthCode keeps the type invariant.
LEMMA IssueCodeStep ==
  ASSUME TypeInv, NEW k \in Codes, NEW u \in Users, NEW c \in Clients,
         NEW s \in SUBSET Scopes, IssueCode(k, u, c, s)
  PROVE  TypeInv'
<1> DEFINE row == [st |-> "stored", used |-> FALSE, user |-> u, client |-> c,
                   scope |-> s, exp |-> now + CodeTTL]
<1>1. row \in AuthCode
  BY LifetimesAssumption DEF AuthCode, TypeInv, TypeOK
<1>2. code' = [code EXCEPT ![k] = row]
  BY DEF IssueCode
<1>3. UNCHANGED <<now, user, client, rtok, access, revUser, revGrant, revClient, revJti, req>>
  BY DEF IssueCode, revRows
<1> HIDE DEF row
<1>4. TypeOK'
  BY <1>1, <1>2, <1>3 DEF TypeInv, TypeOK
<1>5. \A x \in Codes : code[x] # NoCode => code'[x] # NoCode
  BY <1>1, <1>2 DEF TypeInv, TypeOK, AuthCode, NoCode
<1>6. CredentialsExist'
  BY <1>3, <1>5, CredentialsKept, RequestsUnchanged
<1> QED BY <1>4, <1>6 DEF TypeInv

\* The access token of generateTokens is well typed.
LEMMA AccessTokenType ==
  ASSUME TypeInv, NEW p \in Requests, req[p] # Idle, NEW j \in req[p].jti
  PROVE  AccessTokenOf(req[p], j) \in Access
<1> DEFINE r == req[p]
<1>1. /\ r \in Request /\ Cred(r).user \in Users /\ Cred(r).scope \subseteq Scopes
      /\ Root(r) \in Codes
  BY RequestType
<1>2. /\ j \in Jtis /\ r.client \in Clients /\ r.want \subseteq Scopes /\ r.iat \in Nat
      /\ r.cred \in Codes \cup Tokens
  BY <1>1 DEF Request
<1>3. GrantedScope(r) \in SUBSET Scopes
  BY <1>1, <1>2 DEF GrantedScope
<1>4. AccessTTL[r.client] \in Nat
  BY <1>2, LifetimesAssumption
<1> QED BY <1>1, <1>2, <1>3, <1>4 DEF AccessTokenOf, Access

\* The refresh token of generateTokens is well typed.
LEMMA RefreshTokenType ==
  ASSUME TypeInv, NEW p \in Requests, req[p] # Idle
  PROVE  RefreshTokenOf(req[p]) \in Token
<1> DEFINE r == req[p]
<1>1. /\ r \in Request /\ Cred(r).user \in Users /\ Cred(r).scope \subseteq Scopes
      /\ Root(r) \in Codes
  BY RequestType
<1>2. r.client \in Clients /\ r.want \subseteq Scopes /\ r.cred \in Codes \cup Tokens
  BY <1>1 DEF Request
<1>3. GrantedScope(r) \in SUBSET Scopes
  BY <1>1, <1>2 DEF GrantedScope
<1>4. now + RefreshTTL[r.client] \in Nat
  BY <1>2, LifetimesAssumption DEF TypeInv, TypeOK
<1> QED BY <1>1, <1>2, <1>3, <1>4 DEF RefreshTokenOf, Token

\* The second half of generateTokens keeps the type invariant.
LEMMA CreateTokenStep ==
  ASSUME TypeInv, NEW p \in Requests, CreateToken(p)
  PROVE  TypeInv'
<1>1. req[p] # Idle
  BY NotIdle DEF CreateToken
<1>2. UNCHANGED <<now, user, client, code, revUser, revGrant, revClient, revJti>>
  BY DEF CreateToken, revRows
<1>3. req' \in ReqType /\ RequestsMove
  BY <1>1, AnswerType, AnswerMoves DEF CreateToken, Respond
<1>4. access' \in SUBSET Access
  BY <1>1, AccessTokenType DEF CreateToken, Respond, TypeInv, TypeOK
<1>5. \/ UNCHANGED rtok
      \/ \E t \in Tokens : rtok[t] = NoToken /\ rtok' = [rtok EXCEPT ![t] = RefreshTokenOf(req[p])]
  BY DEF CreateToken, FreshTokens
<1>6. rtok' \in TokType
  BY <1>1, <1>5, RefreshTokenType DEF TypeInv, TypeOK, TokType
<1>7. \A t \in Tokens : rtok[t] # NoToken => rtok'[t] # NoToken
  BY <1>5 DEF TypeInv, TypeOK
<1>8. CredentialsExist'
  BY <1>2, <1>3, <1>7, CredentialsKept
<1>9. TypeOK'
  BY <1>2, <1>3, <1>4, <1>6 DEF TypeInv, TypeOK, ReqType, TokType
<1> QED BY <1>8, <1>9 DEF TypeInv

\* Every step but the two that create rows.
Quiet ==
    \/ \E p \in Requests :
          \/ Start(p) \/ GetByCode(p) \/ GetToken(p) \/ GetUser(p) \/ MarkUsed(p)
          \/ Rotate(p) \/ Sign(p) \/ ListTokens(p) \/ RevokeNext(p) \/ RevokeBefore(p)
          \/ Finish(p) \/ Fail(p)
    \/ Administration \/ Maintenance \/ Tick

\* A step is quiet, creates a refresh token or issues a code.
LEMMA NextCases ==
  ASSUME Next
  PROVE  \/ Quiet
         \/ \E p \in Requests : CreateToken(p)
         \/ \E k \in Codes, u \in Users, c \in Clients, s \in SUBSET Scopes \ {{}} :
               IssueCode(k, u, c, s)
BY DEF Next, Progress, Quiet

\* Quiet steps only age the tables.
LEMMA QuietAges ==
  ASSUME TypeInv, Quiet
  PROVE  AgeingStep
BY StartStep, GetByCodeStep, GetTokenStep, GetUserStep, MarkUsedStep, RotateStep,
   SignStep, ListTokensStep, RevokeNextStep, RevokeBeforeStep, FinishStep, FailStep,
   AdministrationStep, MaintenanceStep, TickStep DEF Quiet

\* A stuttering step is an ageing step.
LEMMA StutterType ==
  ASSUME TypeInv, UNCHANGED vars
  PROVE  AgeingStep
<1>1. UNCHANGED <<now, user, client, code, rtok, access, revUser, revGrant, revClient, revJti, req>>
  BY DEF vars, tables, revRows
<1> QED BY <1>1, CodesUnchanged, TokensUnchanged, RequestsUnchanged, Ageing DEF TypeInv, TypeOK

\* Every step keeps the type invariant.
LEMMA NextType == TypeInv /\ [Next]_vars => TypeInv'
<1> SUFFICES ASSUME TypeInv, [Next]_vars PROVE TypeInv'
  OBVIOUS
<1>1. CASE Quiet
  BY <1>1, QuietAges DEF AgeingStep
<1>2. ASSUME NEW p \in Requests, CreateToken(p) PROVE TypeInv'
  BY <1>2, CreateTokenStep
<1>3. ASSUME NEW k \in Codes, NEW u \in Users, NEW c \in Clients,
             NEW s \in SUBSET Scopes \ {{}}, IssueCode(k, u, c, s)
      PROVE  TypeInv'
  BY <1>3, IssueCodeStep
<1>4. CASE UNCHANGED vars
  BY <1>4, StutterType DEF AgeingStep
<1> QED BY <1>1, <1>2, <1>3, <1>4, NextCases

\* The tables stay well typed, and a request in flight keeps referring to a
\* credential that was issued, whatever is revoked, purged or deleted meanwhile.
THEOREM TypeInvariant == Spec => []TypeInv
BY InitType, NextType, PTL DEF Spec

\* Every reachable state of the token endpoint and its tables is well typed.
THEOREM TypeCorrect == Spec => []TypeOK
<1>1. TypeInv => TypeOK
  BY DEF TypeInv
<1> QED BY <1>1, TypeInvariant, PTL

=============================================================================
