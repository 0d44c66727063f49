------------------------- MODULE TokenGrantsSafety -------------------------
(***************************************************************************)
(* Proof that a grant never forks and that a credential is redeemed once,  *)
(* that TokenGrants implements GrantLifecycle, and that requests create    *)
(* and revoke only within the grant of the credential they present.        *)
(*                                                                         *)
(* OneLiveTokenPerGrant is not inductive: a state with one live refresh    *)
(* token and, beside it, a request that has already taken the code would   *)
(* satisfy it and lose it in the next step.  Baton says where the right to *)
(* continue a grant can be: in the unused code, in a request that consumed *)
(* a credential and has not answered (Claiming), or in one live refresh    *)
(* token, and in no two of them.  Spent ties the answers given to the      *)
(* credentials consumed.  Baton also makes the phase of a grant well       *)
(* defined (PhasesApart), on which the simulation of GrantLifecycle rests. *)
(* Entitled says what the checks a request has passed let it rely on.      *)
(***************************************************************************)
EXTENDS TokenGrantsProofs

\* The request has consumed its credential and not answered yet.
Claiming(p) ==
    /\ req[p] # Idle
    /\ \/ req[p].pc \in {"sign", "create"}
       \/ req[p].pc = "user" /\ req[p].op = "authorization_code"

Baton ==
    /\ \A k \in Codes : code[k] = NoCode \/ LiveCode(k) =>
          /\ \A t \in Tokens : rtok[t] # NoToken => rtok[t].root # k
          /\ \A p \in Requests : Claiming(p) => Root(req[p]) # k
    /\ \A t, s \in Tokens :
          LiveToken(t) /\ LiveToken(s) /\ rtok[t].root = rtok[s].root => t = s
    /\ \A p, q \in Requests :
          Claiming(p) /\ Claiming(q) /\ Root(req[p]) = Root(req[q]) => p = q
    /\ \A p \in Requests, t \in Tokens :
          Claiming(p) /\ LiveToken(t) => rtok[t].root # Root(req[p])

\* The code is used, or the refresh token revoked.
Consumed(x) ==
    \/ x \in Codes /\ code[x] # NoCode /\ code[x].used
    \/ x \in Tokens /\ rtok[x] # NoToken /\ rtok[x].revoked

Spent ==
    /\ \A a \in access : Consumed(a.from)
    /\ \A p \in Requests : Claiming(p) =>
          /\ Consumed(req[p].cred)
          /\ \A a \in access : a.from # req[p].cred
    /\ \A a, b \in access : a.from = b.from => a = b


GrantInv == TypeInv /\ Baton /\ Spent

-----------------------------------------------------------------------------
\* A step in which no request gains a claim.
ClaimsKept ==
    \A p \in Requests : Claiming(p)' =>
        Claiming(p) /\ req'[p].op = req[p].op /\ req'[p].cred = req[p].cred

\* A request keeps its grant.
LEMMA RootKept ==
  ASSUME TypeInv, TokensAge, NEW p \in Requests, req[p] # Idle,
         req'[p].op = req[p].op, req'[p].cred = req[p].cred
  PROVE  Root(req[p])' = Root(req[p])
<1>1. req[p].op \in {"authorization_code", "refresh_token"}
  BY RequestType DEF Request, GrantTypes
<1>2. req[p].op = "refresh_token" => req[p].cred \in Tokens /\ rtok[req[p].cred] # NoToken
  BY DEF TypeInv, CredentialsExist
<1> QED BY <1>1, <1>2 DEF Root, TokensAge

\* In an ageing step nothing comes alive and what was consumed stays so.
LEMMA LivenessKept ==
  ASSUME TypeInv, AgeingStep
  PROVE  /\ \A k \in Codes : LiveCode(k)' => LiveCode(k)
         /\ \A k \in Codes : code'[k] = NoCode => code[k] = NoCode
         /\ \A t \in Tokens : LiveToken(t)' =>
               LiveToken(t) /\ rtok[t] # NoToken /\ rtok'[t].root = rtok[t].root
         /\ \A t \in Tokens : rtok'[t] # NoToken =>
               rtok[t] # NoToken /\ rtok'[t].root = rtok[t].root
         /\ \A x \in Codes \cup Tokens : Consumed(x) => Consumed(x)'
<1> USE DEF AgeingStep
<1>1. ASSUME NEW k \in Codes PROVE code'[k] = NoCode => code[k] = NoCode
  BY DEF CodesAge, AuthCode, NoCode
<1>2. ASSUME NEW k \in Codes PROVE LiveCode(k)' => LiveCode(k)
  <2>1. CASE code[k] = NoCode
    BY <2>1 DEF CodesAge, LiveCode, NoCode
  <2>2. CASE code[k] # NoCode
    <3>1. code[k] \in AuthCode
      BY <2>2 DEF TypeInv, TypeOK
    <3> QED BY <2>2, <3>1 DEF CodesAge, LiveCode, AuthCode
  <2> QED BY <2>1, <2>2
<1>3. ASSUME NEW t \in Tokens
      PROVE  rtok'[t] # NoToken => rtok[t] # NoToken /\ rtok'[t].root = rtok[t].root
  BY DEF TokensAge
<1>4. ASSUME NEW t \in Tokens
      PROVE  LiveToken(t)' =>
               LiveToken(t) /\ rtok[t] # NoToken /\ rtok'[t].root = rtok[t].root
  <2>1. CASE rtok[t] = NoToken
    BY <2>1 DEF TokensAge, LiveToken, NoToken
  <2>2. CASE rtok[t] # NoToken
    <3>1. rtok[t] \in Token
      BY <2>2 DEF TypeInv, TypeOK
    <3> QED BY <2>2, <3>1 DEF TokensAge, LiveToken, Token
  <2> QED BY <2>1, <2>2
<1>5. ASSUME NEW x \in Codes \cup Tokens, Consumed(x) PROVE Consumed(x)'
  <2>1. CASE x \in Codes /\ code[x] # NoCode /\ code[x].used
    <3>1. code'[x] # NoCode /\ code'[x].used
      BY <1>1, <2>1 DEF CodesAge
    <3> QED BY <2>1, <3>1 DEF Consumed
  <2>2. CASE x \in Tokens /\ rtok[x] # NoToken /\ rtok[x].revoked
    <3>1. rtok'[x] # NoToken /\ rtok'[x].revoked
      BY <2>2 DEF TokensAge, Token, NoToken
    <3> QED BY <2>2, <3>1 DEF Consumed
  <2> QED BY <1>5, <2>1, <2>2 DEF Consumed
<1> QED BY <1>1, <1>2, <1>3, <1>4, <1>5

\* A step that only ages rows and lets go of claims keeps the invariant.
LEMMA LettingGo ==
  ASSUME GrantInv, AgeingStep, ClaimsKept, access' = access
  PROVE  GrantInv'
<1>1. TypeInv /\ TokensAge /\ TypeInv'
  BY DEF GrantInv, AgeingStep
<1>2. \A p \in Requests : Claiming(p)' => Claiming(p) /\ Root(req[p])' = Root(req[p])
                                           /\ req'[p].cred = req[p].cred
  BY <1>1, RootKept DEF ClaimsKept, Claiming
<1>3. Baton'
  <2>1. \A k \in Codes : (code[k] = NoCode \/ LiveCode(k))' => (code[k] = NoCode \/ LiveCode(k))
    BY <1>1, LivenessKept
  <2>2. ASSUME NEW k \in Codes, (code[k] = NoCode \/ LiveCode(k))'
        PROVE  /\ \A t \in Tokens : (rtok[t] # NoToken => rtok[t].root # k)'
               /\ \A p \in Requests : (Claiming(p) => Root(req[p]) # k)'
    BY <1>1, <1>2, <2>1, <2>2, LivenessKept DEF GrantInv, Baton
  <2>3. ASSUME NEW t \in Tokens, NEW s \in Tokens,
               (LiveToken(t) /\ LiveToken(s) /\ rtok[t].root = rtok[s].root)'
        PROVE  t = s
    BY <1>1, <2>3, LivenessKept DEF GrantInv, Baton
  <2>4. ASSUME NEW p \in Requests, NEW q \in Requests,
               (Claiming(p) /\ Claiming(q) /\ Root(req[p]) = Root(req[q]))'
        PROVE  p = q
    BY <1>2, <2>4 DEF GrantInv, Baton
  <2>5. ASSUME NEW p \in Requests, NEW t \in Tokens, (Claiming(p) /\ LiveToken(t))'
        PROVE  (rtok[t].root # Root(req[p]))'
    BY <1>1, <1>2, <2>5, LivenessKept DEF GrantInv, Baton
  <2> QED BY <2>2, <2>3, <2>4, <2>5 DEF Baton
<1>4. Spent'
  <2>1. ASSUME NEW a \in access' PROVE Consumed(a.from)'
    <3>1. a.from \in Codes \cup Tokens
      BY <1>1 DEF TypeInv, TypeOK, Access
    <3> QED BY <1>1, <3>1, LivenessKept DEF GrantInv, Spent
  <2>2. ASSUME NEW p \in Requests, Claiming(p)'
        PROVE  Consumed(req[p].cred)' /\ \A a \in access' : a.from # req'[p].cred
    <3>1. Claiming(p) /\ req'[p].cred = req[p].cred
      BY <1>2, <2>2
    <3>2. req[p].cred \in Codes \cup Tokens
      BY <1>1, <3>1, RequestType DEF Claiming, Request
    <3>3. Consumed(req[p].cred) /\ \A a \in access : a.from # req[p].cred
      BY <3>1 DEF GrantInv, Spent
    <3>4. Consumed(req[p].cred)'
      BY <1>1, <3>1, <3>2, <3>3, LivenessKept DEF Consumed
    <3> QED BY <3>1, <3>3, <3>4
  <2> QED BY <2>1, <2>2 DEF GrantInv, Spent
<1> QED BY <1>1, <1>3, <1>4 DEF GrantInv

-----------------------------------------------------------------------------
(* Which steps let go of claims *)

\* No request moves, no claim appears.
LEMMA RequestsUnchangedClaims ==
  ASSUME UNCHANGED req
  PROVE  ClaimsKept
BY DEF ClaimsKept, Claiming

\* Answering gives a claim up.
LEMMA AnswerClaims ==
  ASSUME TypeInv, NEW p \in Requests, req[p] # Idle, NEW out, Answer(p, out)
  PROVE  ClaimsKept
<1>1. req[p] \in Request
  BY RequestType
<1>2. req'[p].pc = "done"
  BY <1>1 DEF Answer, TypeInv, TypeOK, Request
<1>3. \A q \in Requests : q # p => req'[q] = req[q]
  BY DEF Answer, TypeInv, TypeOK
<1> QED BY <1>2, <1>3 DEF ClaimsKept, Claiming

\* Whoever finds a reuse claims nothing.
LEMMA ReuseFoundClaims ==
  ASSUME TypeInv, NEW p \in Requests, req[p] # Idle, ReuseFound(p)
  PROVE  ClaimsKept
<1>1. req[p] \in Request
  BY RequestType
<1>2. req'[p].pc = "list"
  BY <1>1 DEF ReuseFound, TypeInv, TypeOK, Request
<1>3. \A q \in Requests : q # p => req'[q] = req[q]
  BY DEF ReuseFound, TypeInv, TypeOK
<1> QED BY <1>2, <1>3 DEF ClaimsKept, Claiming

\* Moving on short of MarkUsed and Rotate makes no claim.
LEMMA GotoClaims ==
  ASSUME TypeInv, NEW p \in Requests, req[p] # Idle, NEW step, Goto(p, step),
         \/ step = "claim"
         \/ step = "user" /\ req[p].op = "refresh_token"
         \/ Claiming(p)
  PROVE  ClaimsKept
<1>1. req[p] \in Request
  BY RequestType
<1>2. req'[p].pc = step /\ req'[p].op = req[p].op /\ req'[p].cred = req[p].cred
  BY <1>1 DEF Goto, TypeInv, TypeOK, Request
<1>3. \A q \in Requests : q # p => req'[q] = req[q]
  BY DEF Goto, TypeInv, TypeOK
<1> QED BY <1>2, <1>3 DEF ClaimsKept, Claiming

\* A new request claims nothing.
LEMMA StartClaims ==
  ASSUME TypeInv, NEW p \in Requests, Start(p)
  PROVE  ClaimsKept /\ access' = access
<1>1. PICK op, c, cred, match, want : Begin(p, op, c, cred, match, want)
  BY DEF Start, BeginCode, BeginRefresh
<1>2. req' = [req EXCEPT ![p] = NewRequest(op, c, cred, match, want)] /\ access' = access
  BY <1>1 DEF Begin
<1>3. req'[p].pc = "credential"
  BY <1>2 DEF NewRequest, TypeInv, TypeOK
<1>4. \A q \in Requests : q # p => req'[q] = req[q]
  BY <1>2 DEF TypeInv, TypeOK
<1> QED BY <1>2, <1>3, <1>4 DEF ClaimsKept, Claiming

\* The steps that only read make no claim.
LEMMA ReadingClaims ==
  ASSUME TypeInv, NEW p \in Requests, GetByCode(p) \/ GetToken(p) \/ GetUser(p)
  PROVE  ClaimsKept /\ access' = access
<1>1. CASE GetByCode(p)
  <2>1. req[p] # Idle
    BY <1>1, NotIdle DEF GetByCode
  <2>2. Answer(p, "refused") \/ ReuseFound(p) \/ Goto(p, "claim")
    BY <1>1 DEF GetByCode, GetByCodeChecks
  <2> QED BY <1>1, <2>1, <2>2, AnswerClaims, ReuseFoundClaims, GotoClaims DEF GetByCode
<1>2. CASE GetToken(p)
  <2>1. req[p] # Idle
    BY <1>2, NotIdle DEF GetToken
  <2>2. Answer(p, "refused") \/ ReuseFound(p) \/ Goto(p, "user")
    BY <1>2 DEF GetToken, GetTokenChecks
  <2> QED BY <1>2, <2>1, <2>2, AnswerClaims, ReuseFoundClaims, GotoClaims DEF GetToken
<1>3. CASE GetUser(p)
  <2>1. req[p] # Idle
    BY <1>3, NotIdle DEF GetUser
  <2>2. user[Cred(req[p]).user].row \in {"none", "inactive", "active"}
    BY <2>1, RequestType DEF TypeInv, TypeOK, User
  <2>3. \/ Answer(p, "error") \/ Answer(p, "refused") \/ Goto(p, "claim")
        \/ Goto(p, "sign") /\ req[p].op = "authorization_code"
    BY <1>3, <2>2 DEF GetUser
  <2>4. req[p].op = "authorization_code" => Claiming(p)
    BY <1>3, <2>1 DEF GetUser, Claiming
  <2> QED BY <1>3, <2>1, <2>3, <2>4, AnswerClaims, GotoClaims DEF GetUser
<1> QED BY <1>1, <1>2, <1>3

\* Signing makes no claim.
LEMMA SignClaims ==
  ASSUME TypeInv, NEW p \in Requests, Sign(p)
  PROVE  ClaimsKept /\ access' = access
<1>1. req[p] # Idle /\ Claiming(p)
  BY NotIdle DEF Sign, Claiming
<1>2. req[p] \in Request
  BY <1>1, RequestType
<1>3. req'[p].op = req[p].op /\ req'[p].cred = req[p].cred
  BY <1>2 DEF Sign, TypeInv, TypeOK, Request
<1>4. \A q \in Requests : q # p => req'[q] = req[q]
  BY DEF Sign, TypeInv, TypeOK
<1> QED BY <1>1, <1>3, <1>4 DEF ClaimsKept, Claiming, Sign

\* revokeGrant, failing and finishing make no claim.
LEMMA CutOffClaims ==
  ASSUME TypeInv, NEW p \in Requests,
         ListTokens(p) \/ RevokeNext(p) \/ RevokeBefore(p) \/ Fail(p) \/ Finish(p)
  PROVE  ClaimsKept /\ access' = access
<1>1. CASE ListTokens(p)
  <2>1. req[p] # Idle
    BY <1>1, NotIdle DEF ListTokens
  <2>2. req[p] \in Request
    BY <2>1, RequestType
  <2>3. req'[p].pc = "revoke"
    BY <1>1, <2>2 DEF ListTokens, TypeInv, TypeOK, Request
  <2>4. \A q \in Requests : q # p => req'[q] = req[q]
    BY <1>1 DEF ListTokens, TypeInv, TypeOK
  <2> QED BY <1>1, <2>3, <2>4 DEF ClaimsKept, Claiming, ListTokens
<1>2. CASE RevokeNext(p)
  <2>1. req[p] # Idle
    BY <1>2, NotIdle DEF RevokeNext
  <2>2. req[p] \in Request
    BY <2>1, RequestType
  <2>3. Answer(p, "error") \/ \E t \in req[p].todo : req' = [req EXCEPT ![p].todo = req[p].todo \ {t}]
    BY <1>2 DEF RevokeNext, RevokeListed
  <2>4. CASE \E t \in req[p].todo : req' = [req EXCEPT ![p].todo = req[p].todo \ {t}]
    <3>1. req'[p].pc = "revoke"
      BY <1>2, <2>2, <2>4 DEF RevokeNext, TypeInv, TypeOK, Request
    <3>2. \A q \in Requests : q # p => req'[q] = req[q]
      BY <2>4 DEF TypeInv, TypeOK
    <3> QED BY <1>2, <3>1, <3>2 DEF ClaimsKept, Claiming, RevokeNext
  <2> QED BY <1>2, <2>1, <2>3, <2>4, AnswerClaims DEF RevokeNext
<1>3. CASE RevokeBefore(p)
  BY <1>3, NotIdle, AnswerClaims DEF RevokeBefore
<1>4. CASE Fail(p)
  BY <1>4, AnswerClaims DEF Fail
<1>5. CASE Finish(p)
  <2>1. req'[p] = Idle
    BY <1>5 DEF Finish, TypeInv, TypeOK
  <2>2. \A q \in Requests : q # p => req'[q] = req[q]
    BY <1>5 DEF Finish, TypeInv, TypeOK
  <2> QED BY <1>5, <2>1, <2>2 DEF ClaimsKept, Claiming, Finish
<1> QED BY <1>1, <1>2, <1>3, <1>4, <1>5

\* The administrator, the maintenance runner and the clock touch neither
\* requests nor access tokens.
LEMMA OutsideLeavesRequests ==
  ASSUME Administration \/ Maintenance \/ Tick
  PROVE  UNCHANGED <<req, access>>
BY DEF Administration, RevokeToken, RevokeAccessToken, SignOutUser, DisableUser,
     DisableUserTokens, EnableUser, DeleteUserTokens, DeleteUser, AdminJobFails,
     RevokeClientTokens, DeleteClientTokens, DeleteClient, DeleteClientFails,
     UpdateClient, Maintenance, DeleteExpiredCodes, DeleteExpiredTokens,
     DeleteExpiredRevocations, Tick

\* The administrator, the maintenance runner and the clock make no claim.
LEMMA OutsideClaims ==
  ASSUME Administration \/ Maintenance \/ Tick
  PROVE  ClaimsKept /\ access' = access
BY OutsideLeavesRequests, RequestsUnchangedClaims

-----------------------------------------------------------------------------
(* The steps that take a claim *)

\* p takes the baton of its credential: nobody else had it.
LEMMA Taking ==
  ASSUME GrantInv, AgeingStep, access' = access, NEW p \in Requests, req[p] # Idle,
         ~Claiming(p), ~Consumed(req[p].cred), Consumed(req[p].cred)',
         req'[p].op = req[p].op, req'[p].cred = req[p].cred,
         \A q \in Requests : q # p => req'[q] = req[q],
         ~LiveCode(Root(req[p]))', code[Root(req[p])] # NoCode,
         \A t \in Tokens : LiveToken(t)' => rtok[t].root # Root(req[p]),
         \A q \in Requests : Claiming(q) => Root(req[q]) # Root(req[p])
  PROVE  GrantInv'
<1> DEFINE g == Root(req[p])
<1>1. TypeInv /\ TokensAge /\ TypeInv'
  BY DEF GrantInv, AgeingStep
<1>2. Root(req[p])' = g /\ g \in Codes
  BY <1>1, RootKept, RequestType
<1>3. \A q \in Requests : q # p /\ Claiming(q)' =>
         Claiming(q) /\ Root(req[q])' = Root(req[q]) /\ req'[q].cred = req[q].cred
  BY <1>1, RootKept DEF Claiming
<1> HIDE DEF g
<1>4. code'[g] # NoCode
  BY <1>1, <1>2, LivenessKept DEF g
<1>5. Baton'
  <2>1. \A k \in Codes : (code[k] = NoCode \/ LiveCode(k))' => (code[k] = NoCode \/ LiveCode(k))
    BY <1>1, LivenessKept
  <2>2. ASSUME NEW k \in Codes, (code[k] = NoCode \/ LiveCode(k))'
        PROVE  /\ \A t \in Tokens : (rtok[t] # NoToken => rtok[t].root # k)'
               /\ \A q \in Requests : (Claiming(q) => Root(req[q]) # k)'
    <3>1. k # g
      BY <1>2, <1>4, <2>2 DEF g, LiveCode
    <3> QED BY <1>1, <1>2, <1>3, <2>1, <2>2, <3>1, LivenessKept DEF GrantInv, Baton
  <2>3. ASSUME NEW t \in Tokens, NEW s \in Tokens,
               (LiveToken(t) /\ LiveToken(s) /\ rtok[t].root = rtok[s].root)'
        PROVE  t = s
    BY <1>1, <2>3, LivenessKept DEF GrantInv, Baton
  <2>4. ASSUME NEW q \in Requests, NEW r \in Requests,
               (Claiming(q) /\ Claiming(r) /\ Root(req[q]) = Root(req[r]))'
        PROVE  q = r
    BY <1>2, <1>3, <2>4 DEF GrantInv, Baton, g
  <2>5. ASSUME NEW q \in Requests, NEW t \in Tokens, (Claiming(q) /\ LiveToken(t))'
        PROVE  (rtok[t].root # Root(req[q]))'
    <3>1. LiveToken(t) /\ rtok'[t].root = rtok[t].root /\ rtok[t].root # g
      BY <1>1, <2>5, LivenessKept DEF g
    <3> QED BY <1>2, <1>3, <2>5, <3>1 DEF GrantInv, Baton
  <2> QED BY <2>2, <2>3, <2>4, <2>5 DEF Baton
<1>6. Spent'
  <2>1. ASSUME NEW a \in access' PROVE Consumed(a.from)'
    <3>1. a.from \in Codes \cup Tokens
      BY <1>1 DEF TypeInv, TypeOK, Access
    <3> QED BY <1>1, <3>1, LivenessKept DEF GrantInv, Spent
  <2>2. ASSUME NEW q \in Requests, Claiming(q)'
        PROVE  Consumed(req[q].cred)' /\ \A a \in access' : a.from # req'[q].cred
    <3>1. CASE q = p
      <4>1. \A a \in access : a.from # req[p].cred
        BY DEF GrantInv, Spent
      <4> QED BY <3>1, <4>1
    <3>2. CASE q # p
      <4>1. Claiming(q) /\ req'[q].cred = req[q].cred
        BY <1>3, <2>2, <3>2
      <4>2. req[q].cred \in Codes \cup Tokens
        BY <1>1, <4>1, RequestType DEF Claiming, Request
      <4>3. Consumed(req[q].cred) /\ \A a \in access : a.from # req[q].cred
        BY <4>1 DEF GrantInv, Spent
      <4>4. Consumed(req[q].cred)'
        BY <1>1, <4>1, <4>2, <4>3, LivenessKept DEF Consumed
      <4> QED BY <4>1, <4>3, <4>4
    <3> QED BY <3>1, <3>2
  <2> QED BY <2>1, <2>2 DEF GrantInv, Spent
<1> QED BY <1>1, <1>5, <1>6 DEF GrantInv

\* MarkUsed keeps the invariant: its UPDATE is conditional on used = FALSE.
LEMMA MarkUsedKeeps ==
  ASSUME GrantInv, NEW p \in Requests, MarkUsed(p)
  PROVE  GrantInv'
<1> DEFINE k == req[p].cred
<1>1. /\ req[p] # Idle /\ req[p].op = "authorization_code" /\ req[p].pc = "claim"
      /\ access' = access /\ UNCHANGED rtok
  BY NotIdle DEF MarkUsed
<1>2. TypeInv /\ AgeingStep
  BY MarkUsedStep DEF GrantInv
<1>3. /\ req[p] \in Request /\ k \in Codes /\ code[k] # NoCode /\ code[k] \in AuthCode
      /\ Root(req[p]) = k
  BY <1>1, <1>2, RequestType DEF TypeInv, CredentialsExist, Root
<1>4. \/ CodeTakeable(k) /\ code' = [code EXCEPT ![k].used = TRUE] /\ Goto(p, "user")
      \/ ReuseFound(p)
      \/ Answer(p, "error")
  BY DEF MarkUsed
<1>5. CASE ReuseFound(p) \/ Answer(p, "error")
  BY <1>1, <1>2, <1>5, ReuseFoundClaims, AnswerClaims, LettingGo
<1>6. CASE CodeTakeable(k) /\ code' = [code EXCEPT ![k].used = TRUE] /\ Goto(p, "user")
  <2>1. LiveCode(k)
    BY <1>6 DEF CodeTakeable, LiveCode
  <2>2. code'[k].used
    BY <1>3, <1>6 DEF AuthCode, TypeInv, TypeOK, GrantInv
  <2>3. /\ req'[p].op = req[p].op /\ req'[p].cred = req[p].cred
        /\ \A q \in Requests : q # p => req'[q] = req[q]
    BY <1>3, <1>6 DEF Goto, Request, GrantInv, TypeInv, TypeOK
  <2>4. ~Claiming(p)
    BY <1>1 DEF Claiming
  <2>5. k \notin Tokens
    BY <1>3, IdsAssumption
  <2>6. ~Consumed(k)
    BY <1>3, <2>1, <2>5 DEF Consumed, LiveCode
  <2>7. code'[k] # NoCode
    BY <1>2, <1>3, LivenessKept
  <2>8. Consumed(k)'
    BY <1>3, <2>2, <2>3, <2>7 DEF Consumed
  <2>9. /\ \A t \in Tokens : rtok[t] # NoToken => rtok[t].root # k
        /\ \A q \in Requests : Claiming(q) => Root(req[q]) # k
    BY <1>3, <2>1 DEF GrantInv, Baton
  <2>10. \A t \in Tokens : LiveToken(t)' => rtok[t].root # Root(req[p])
    BY <1>2, <1>3, <2>9, LivenessKept
  <2>11. Root(req[p])' = k
    BY <1>1, <1>2, <1>3, <2>3, RootKept DEF AgeingStep
  <2>12. ~LiveCode(Root(req[p]))'
    BY <2>2, <2>11 DEF LiveCode
  <2> QED BY <1>1, <1>2, <1>3, <2>3, <2>4, <2>6, <2>8, <2>9, <2>10, <2>12, Taking
<1> QED BY <1>4, <1>5, <1>6

\* Rotate keeps the invariant: its UPDATE is conditional on revoked = FALSE.
LEMMA RotateKeeps ==
  ASSUME GrantInv, NEW p \in Requests, Rotate(p)
  PROVE  GrantInv'
<1> DEFINE t == req[p].cred
<1>1. /\ req[p] # Idle /\ req[p].op = "refresh_token" /\ req[p].pc = "claim"
      /\ access' = access /\ UNCHANGED code
  BY NotIdle DEF Rotate
<1>2. TypeInv /\ AgeingStep
  BY RotateStep DEF GrantInv
<1>3. /\ req[p] \in Request /\ t \in Tokens /\ rtok[t] # NoToken /\ rtok[t] \in Token
      /\ Root(req[p]) = rtok[t].root /\ rtok[t].root \in Codes
  BY <1>1, <1>2, RequestType DEF TypeInv, CredentialsExist, Root
<1>4. \/ TokenTakeable(t) /\ rtok' = [rtok EXCEPT ![t].revoked = TRUE] /\ Goto(p, "sign")
      \/ ReuseFound(p)
      \/ Answer(p, "error")
  BY DEF Rotate
<1>5. CASE ReuseFound(p) \/ Answer(p, "error")
  BY <1>1, <1>2, <1>5, ReuseFoundClaims, AnswerClaims, LettingGo
<1>6. CASE TokenTakeable(t) /\ rtok' = [rtok EXCEPT ![t].revoked = TRUE] /\ Goto(p, "sign")
  <2>1. LiveToken(t)
    BY <1>6 DEF TokenTakeable, LiveToken
  <2>2. rtok'[t].revoked
    BY <1>3, <1>6 DEF Token, TypeInv, TypeOK, GrantInv
  <2>3. /\ req'[p].op = req[p].op /\ req'[p].cred = req[p].cred
        /\ \A q \in Requests : q # p => req'[q] = req[q]
    BY <1>3, <1>6 DEF Goto, Request, GrantInv, TypeInv, TypeOK
  <2>4. ~Claiming(p)
    BY <1>1 DEF Claiming
  <2>5. t \notin Codes
    BY <1>3, IdsAssumption
  <2>6. ~Consumed(t)
    BY <1>3, <2>1, <2>5 DEF Consumed, LiveToken
  <2>7. rtok'[t] # NoToken
    BY <1>2, <1>3 DEF AgeingStep, TokensAge, Token, NoToken
  <2>8. Consumed(t)'
    BY <1>3, <2>2, <2>3, <2>7 DEF Consumed
  <2>9. \A q \in Requests : Claiming(q) => Root(req[q]) # Root(req[p])
    BY <1>3, <2>1 DEF GrantInv, Baton
  <2>10. \A s \in Tokens : LiveToken(s)' => rtok[s].root # Root(req[p])
    <3> SUFFICES ASSUME NEW s \in Tokens, LiveToken(s)', rtok[s].root = rtok[t].root
                 PROVE  FALSE
      BY <1>3
    <3>1. LiveToken(s)
      BY <1>2, LivenessKept
    <3>2. s = t
      BY <1>3, <2>1, <3>1 DEF GrantInv, Baton
    <3> QED BY <2>2, <3>2 DEF LiveToken
  <2>11. Root(req[p])' = Root(req[p])
    BY <1>1, <1>2, <2>3, RootKept DEF AgeingStep
  <2>12. ~LiveCode(rtok[t].root) /\ code[rtok[t].root] # NoCode
    BY <1>3 DEF GrantInv, Baton
  <2>13. ~LiveCode(Root(req[p]))'
    BY <1>1, <1>3, <2>11, <2>12 DEF LiveCode
  <2> QED BY <1>1, <1>2, <1>3, <2>3, <2>4, <2>6, <2>8, <2>9, <2>10, <2>12, <2>13, Taking
<1> QED BY <1>4, <1>5, <1>6

\* Every quiet step keeps the invariant.
LEMMA QuietKeeps ==
  ASSUME GrantInv, Quiet
  PROVE  GrantInv'
<1>1. TypeInv /\ AgeingStep
  BY QuietAges DEF GrantInv
<1>2. ASSUME NEW p \in Requests, MarkUsed(p) PROVE GrantInv'
  BY <1>2, MarkUsedKeeps
<1>3. ASSUME NEW p \in Requests, Rotate(p) PROVE GrantInv'
  BY <1>3, RotateKeeps
<1>4. ASSUME NEW p \in Requests,
             \/ Start(p) \/ GetByCode(p) \/ GetToken(p) \/ GetUser(p) \/ Sign(p)
             \/ ListTokens(p) \/ RevokeNext(p) \/ RevokeBefore(p) \/ Finish(p) \/ Fail(p)
      PROVE  GrantInv'
  BY <1>1, <1>4, StartClaims, ReadingClaims, SignClaims, CutOffClaims, LettingGo
<1>5. CASE Administration \/ Maintenance \/ Tick
  BY <1>1, <1>5, OutsideClaims, LettingGo
<1> QED BY <1>2, <1>3, <1>4, <1>5 DEF Quiet

-----------------------------------------------------------------------------
(* The steps that create rows *)

\* A new code starts a grant nobody holds anything of.
LEMMA IssueCodeKeeps ==
  ASSUME GrantInv, NEW k \in Codes, NEW u \in Users, NEW c \in Clients,
         NEW s \in SUBSET Scopes, IssueCode(k, u, c, s)
  PROVE  GrantInv'
<1>1. TypeInv /\ TypeInv'
  BY IssueCodeStep DEF GrantInv
<1>2. UNCHANGED <<rtok, req, access>> /\ code[k] = NoCode
  BY DEF IssueCode
<1>3. \A x \in Codes : x # k => code'[x] = code[x]
  BY <1>1 DEF IssueCode, TypeInv, TypeOK
<1>4. \A p \in Requests : Claiming(p)' = Claiming(p) /\ Root(req[p])' = Root(req[p])
  BY <1>2 DEF Claiming, Root
<1>5. \A t \in Tokens : LiveToken(t)' = LiveToken(t)
  BY <1>2 DEF LiveToken
<1>6. Baton'
  <2>1. ASSUME NEW x \in Codes, (code[x] = NoCode \/ LiveCode(x))'
        PROVE  code[x] = NoCode \/ LiveCode(x)
    BY <1>2, <1>3, <2>1 DEF LiveCode
  <2>2. ASSUME NEW x \in Codes, (code[x] = NoCode \/ LiveCode(x))'
        PROVE  /\ \A t \in Tokens : (rtok[t] # NoToken => rtok[t].root # x)'
               /\ \A p \in Requests : (Claiming(p) => Root(req[p]) # x)'
    BY <1>2, <1>4, <2>1, <2>2 DEF GrantInv, Baton
  <2>3. ASSUME NEW t \in Tokens, NEW v \in Tokens,
               (LiveToken(t) /\ LiveToken(v) /\ rtok[t].root = rtok[v].root)'
        PROVE  t = v
    BY <1>2, <1>5, <2>3 DEF GrantInv, Baton
  <2>4. ASSUME NEW p \in Requests, NEW q \in Requests,
               (Claiming(p) /\ Claiming(q) /\ Root(req[p]) = Root(req[q]))'
        PROVE  p = q
    BY <1>4, <2>4 DEF GrantInv, Baton
  <2>5. ASSUME NEW p \in Requests, NEW t \in Tokens, (Claiming(p) /\ LiveToken(t))'
        PROVE  (rtok[t].root # Root(req[p]))'
    BY <1>2, <1>4, <1>5, <2>5 DEF GrantInv, Baton
  <2> QED BY <2>2, <2>3, <2>4, <2>5 DEF Baton
<1>7. \A x : Consumed(x) => Consumed(x)'
  BY <1>2, <1>3 DEF Consumed
<1>8. Spent'
  BY <1>2, <1>4, <1>7 DEF GrantInv, Spent
<1> QED BY <1>1, <1>6, <1>8 DEF GrantInv

\* generateTokens turns the claim of its request into one refresh token and
\* one access token.
LEMMA CreateTokenKeeps ==
  ASSUME GrantInv, \A p \in Requests : req[p] # Idle /\ req[p].pc = "create" =>
                       \E j \in Jtis : req[p].jti = {j},
         NEW p \in Requests, CreateToken(p)
  PROVE  GrantInv'
<1> DEFINE g == Root(req[p])
<1>1. TypeInv /\ TypeInv'
  BY CreateTokenStep DEF GrantInv
<1>2. req[p] # Idle /\ req[p].pc = "create" /\ UNCHANGED code
  BY NotIdle DEF CreateToken
<1>3. Claiming(p) /\ req[p] \in Request /\ g \in Codes
  BY <1>1, <1>2, RequestType DEF Claiming
<1>4. PICK j \in Jtis : req[p].jti = {j}
  BY <1>2
<1>5. \/ access' = access
      \/ access' = access \cup {AccessTokenOf(req[p], j)}
  BY <1>4 DEF CreateToken, Respond
<1>6. ~Claiming(p)' /\ \A q \in Requests : q # p => req'[q] = req[q]
  <2>1. Answer(p, "tokens") \/ Answer(p, "error")
    BY DEF CreateToken, Respond
  <2>2. req'[p].pc = "done"
    BY <1>1, <1>3, <2>1 DEF Answer, TypeInv, TypeOK, Request
  <2>3. \A q \in Requests : q # p => req'[q] = req[q]
    BY <1>1, <2>1 DEF Answer, TypeInv, TypeOK
  <2> QED BY <2>2, <2>3 DEF Claiming
<1>7. \/ UNCHANGED rtok
      \/ \E t \in Tokens : rtok[t] = NoToken /\ rtok' = [rtok EXCEPT ![t] = RefreshTokenOf(req[p])]
  BY DEF CreateToken, FreshTokens
<1>8. /\ RefreshTokenOf(req[p]).root = g
      /\ AccessTokenOf(req[p], j).from = req[p].cred
  BY DEF RefreshTokenOf, AccessTokenOf
<1>9. ASSUME NEW t \in Tokens, NEW s \in Tokens, rtok'[t] # rtok[t], rtok'[s] # rtok[s]
      PROVE  t = s
  BY <1>1, <1>7, <1>9 DEF TypeInv, TypeOK
<1>10. ASSUME NEW t \in Tokens, rtok'[t] # rtok[t]
       PROVE  rtok'[t].root = g /\ rtok[t] = NoToken
  BY <1>1, <1>7, <1>8, <1>10 DEF TypeInv, TypeOK
<1>11. \A q \in Requests : Claiming(q)' => q # p /\ Claiming(q) /\ req'[q] = req[q]
          /\ Root(req[q])' = Root(req[q])
  <2> SUFFICES ASSUME NEW q \in Requests, Claiming(q)'
               PROVE  q # p /\ Claiming(q) /\ req'[q] = req[q] /\ Root(req[q])' = Root(req[q])
    OBVIOUS
  <2>1. q # p /\ req'[q] = req[q] /\ Claiming(q)
    BY <1>6 DEF Claiming
  <2>2. req[q].op \in {"authorization_code", "refresh_token"}
    BY <1>1, <2>1, RequestType DEF Claiming, Request, GrantTypes
  <2>3. CASE req[q].op = "authorization_code"
    BY <2>1, <2>3 DEF Root
  <2>4. CASE req[q].op = "refresh_token"
    <3>1. req[q].cred \in Tokens /\ rtok[req[q].cred] # NoToken
      BY <1>1, <2>1, <2>4 DEF TypeInv, CredentialsExist, Claiming
    <3>2. rtok'[req[q].cred] = rtok[req[q].cred]
      BY <1>10, <3>1
    <3> QED BY <2>1, <2>4, <3>2 DEF Root
  <2> QED BY <2>1, <2>2, <2>3, <2>4
<1> HIDE DEF g
<1>12. ~LiveCode(g) /\ code[g] # NoCode
  BY <1>3 DEF GrantInv, Baton, g
<1>13. \A q \in Requests : Claiming(q)' => Root(req[q])' # g
  BY <1>3, <1>11 DEF GrantInv, Baton, g
<1>14. \A t \in Tokens : LiveToken(t) => rtok[t].root # g
  BY <1>3 DEF GrantInv, Baton, g
<1>15. Baton'
  <2>1. ASSUME NEW k \in Codes, (code[k] = NoCode \/ LiveCode(k))'
        PROVE  /\ \A t \in Tokens : (rtok[t] # NoToken => rtok[t].root # k)'
               /\ \A q \in Requests : (Claiming(q) => Root(req[q]) # k)'
    <3>1. code[k] = NoCode \/ LiveCode(k)
      BY <1>2, <2>1 DEF LiveCode
    <3>2. k # g
      BY <1>12, <3>1
    <3>3. \A t \in Tokens : (rtok[t] # NoToken => rtok[t].root # k)'
      BY <1>10, <3>1, <3>2 DEF GrantInv, Baton
    <3>4. \A q \in Requests : (Claiming(q) => Root(req[q]) # k)'
      BY <1>11, <3>1 DEF GrantInv, Baton
    <3> QED BY <3>3, <3>4
  <2>2. ASSUME NEW t \in Tokens, NEW s \in Tokens,
               (LiveToken(t) /\ LiveToken(s) /\ rtok[t].root = rtok[s].root)'
        PROVE  t = s
    <3>1. \A x \in Tokens : rtok'[x] = rtok[x] => (LiveToken(x)' => LiveToken(x))
      BY DEF LiveToken
    <3>2. CASE rtok'[t] = rtok[t] /\ rtok'[s] = rtok[s]
      BY <2>2, <3>1, <3>2 DEF GrantInv, Baton
    <3>3. CASE rtok'[t] # rtok[t] /\ rtok'[s] # rtok[s]
      BY <1>9, <3>3
    <3>4. CASE rtok'[t] = rtok[t] /\ rtok'[s] # rtok[s]
      BY <1>10, <1>14, <2>2, <3>1, <3>4
    <3>5. CASE rtok'[t] # rtok[t] /\ rtok'[s] = rtok[s]
      BY <1>10, <1>14, <2>2, <3>1, <3>5
    <3> QED BY <3>2, <3>3, <3>4, <3>5
  <2>3. ASSUME NEW q \in Requests, NEW r \in Requests,
               (Claiming(q) /\ Claiming(r) /\ Root(req[q]) = Root(req[r]))'
        PROVE  q = r
    BY <1>11, <2>3 DEF GrantInv, Baton
  <2>4. ASSUME NEW q \in Requests, NEW t \in Tokens, (Claiming(q) /\ LiveToken(t))'
        PROVE  (rtok[t].root # Root(req[q]))'
    <3>1. CASE rtok'[t] = rtok[t]
      <4>1. LiveToken(t)
        BY <2>4, <3>1 DEF LiveToken
      <4> QED BY <1>11, <2>4, <3>1, <4>1 DEF GrantInv, Baton
    <3>2. CASE rtok'[t] # rtok[t]
      BY <1>10, <1>13, <2>4, <3>2
    <3> QED BY <3>1, <3>2
  <2> QED BY <2>1, <2>2, <2>3, <2>4 DEF Baton
<1>16. ASSUME NEW x, Consumed(x) PROVE Consumed(x)'
  BY <1>2, <1>10, <1>16 DEF Consumed
<1>17. Consumed(req[p].cred) /\ \A a \in access : a.from # req[p].cred
  BY <1>3 DEF GrantInv, Spent
<1>18. Spent'
  <2>1. ASSUME NEW a \in access' PROVE Consumed(a.from)'
    <3>1. Consumed(a.from)
      BY <1>5, <1>8, <1>17 DEF GrantInv, Spent
    <3> QED BY <3>1, <1>16 DEF Consumed
  <2>2. ASSUME NEW q \in Requests, Claiming(q)'
        PROVE  Consumed(req[q].cred)' /\ \A a \in access' : a.from # req'[q].cred
    <3>1. /\ q # p /\ Claiming(q) /\ req'[q] = req[q]
          /\ Consumed(req[q].cred) /\ \A a \in access : a.from # req[q].cred
      BY <1>11, <2>2 DEF GrantInv, Spent
    <3>2. Consumed(req[q].cred)'
      BY <3>1, <1>16 DEF Consumed
    <3>3. req[q].cred # req[p].cred
      <4> SUFFICES ASSUME req[q].cred = req[p].cred PROVE FALSE
        OBVIOUS
      <4>1. req[q].op = req[p].op
        BY <1>1, <1>2, <3>1, RequestType, IdsAssumption DEF Claiming, Request, GrantTypes
      <4>2. Root(req[q]) = Root(req[p])
        BY <4>1 DEF Root
      <4> QED BY <1>3, <3>1, <4>2 DEF GrantInv, Baton
    <3> QED BY <1>5, <1>8, <3>1, <3>2, <3>3
  <2>3. ASSUME NEW a \in access', NEW b \in access', a.from = b.from PROVE a = b
    BY <1>5, <1>8, <1>17, <2>3 DEF GrantInv, Spent
  <2> QED BY <2>1, <2>2, <2>3 DEF Spent
<1> QED BY <1>1, <1>15, <1>18 DEF GrantInv

-----------------------------------------------------------------------------
(* Access token ids *)

\* The request has drawn an access token id and not answered yet.
Signed(p) == req[p] # Idle /\ req[p].pc = "create"

JtisUnique ==
    /\ \A p \in Requests : Signed(p) =>
          /\ \E j \in Jtis : req[p].jti = {j}
          /\ \A a \in access : a.jti \notin req[p].jti
    /\ \A p, q \in Requests :
          Signed(p) /\ Signed(q) /\ p # q => req[p].jti \cap req[q].jti = {}
    /\ \A a, b \in access : a.jti = b.jti => a = b

\* A step in which no request signs.
SignedKept ==
    \A p \in Requests : Signed(p)' => Signed(p) /\ req'[p].jti = req[p].jti

\* Answering signs nothing.
LEMMA AnswerSigned ==
  ASSUME TypeInv, NEW p \in Requests, req[p] # Idle, NEW out, Answer(p, out)
  PROVE  SignedKept
<1>1. req'[p].pc = "done"
  BY RequestType DEF Answer, TypeInv, TypeOK, Request
<1>2. \A q \in Requests : q # p => req'[q] = req[q]
  BY DEF Answer, TypeInv, TypeOK
<1> QED BY <1>1, <1>2 DEF SignedKept, Signed

\* Noticing a reuse signs nothing.
LEMMA ReuseFoundSigned ==
  ASSUME TypeInv, NEW p \in Requests, req[p] # Idle, ReuseFound(p)
  PROVE  SignedKept
<1>0. req[p] \in Request
  BY RequestType
<1>1. req'[p].pc = "list"
  BY <1>0 DEF ReuseFound, TypeInv, TypeOK, Request
<1>2. \A q \in Requests : q # p => req'[q] = req[q]
  BY DEF ReuseFound, TypeInv, TypeOK
<1> QED BY <1>1, <1>2 DEF SignedKept, Signed

\* Moving on signs nothing.
LEMMA GotoSigned ==
  ASSUME TypeInv, NEW p \in Requests, req[p] # Idle, NEW step, step # "create", Goto(p, step)
  PROVE  SignedKept
<1>1. req'[p].pc = step
  BY RequestType DEF Goto, TypeInv, TypeOK, Request
<1>2. \A q \in Requests : q # p => req'[q] = req[q]
  BY DEF Goto, TypeInv, TypeOK
<1> QED BY <1>1, <1>2 DEF SignedKept, Signed

\* Only Sign and CreateToken touch access tokens.
LEMMA RequestSigned ==
  ASSUME TypeInv, NEW p \in Requests,
         \/ Start(p) \/ GetByCode(p) \/ GetToken(p) \/ GetUser(p) \/ MarkUsed(p)
         \/ Rotate(p) \/ ListTokens(p) \/ RevokeNext(p) \/ RevokeBefore(p)
         \/ Finish(p) \/ Fail(p)
  PROVE  SignedKept /\ access' = access
<1>1. CASE Start(p)
  <2>1. PICK op, c, cred, match, want : Begin(p, op, c, cred, match, want)
    BY <1>1 DEF Start, BeginCode, BeginRefresh
  <2>2. req' = [req EXCEPT ![p] = NewRequest(op, c, cred, match, want)] /\ access' = access
    BY <2>1 DEF Begin
  <2>3. req'[p].pc = "credential" /\ \A q \in Requests : q # p => req'[q] = req[q]
    BY <2>2 DEF NewRequest, TypeInv, TypeOK
  <2> QED BY <2>2, <2>3 DEF SignedKept, Signed
<1>2. CASE GetByCode(p)
  <2>1. Answer(p, "refused") \/ ReuseFound(p) \/ Goto(p, "claim")
    BY <1>2 DEF GetByCode, GetByCodeChecks
  <2> QED BY <1>2, <2>1, NotIdle, AnswerSigned, ReuseFoundSigned, GotoSigned DEF GetByCode
<1>3. CASE GetToken(p)
  <2>1. Answer(p, "refused") \/ ReuseFound(p) \/ Goto(p, "user")
    BY <1>3 DEF GetToken, GetTokenChecks
  <2> QED BY <1>3, <2>1, NotIdle, AnswerSigned, ReuseFoundSigned, GotoSigned DEF GetToken
<1>4. CASE GetUser(p)
  <2>1. req[p] # Idle
    BY <1>4, NotIdle DEF GetUser
  <2>2. user[Cred(req[p]).user].row \in {"none", "inactive", "active"}
    BY <2>1, RequestType DEF TypeInv, TypeOK, User
  <2>3. Answer(p, "error") \/ Answer(p, "refused") \/ Goto(p, "claim") \/ Goto(p, "sign")
    BY <1>4, <2>2 DEF GetUser
  <2> QED BY <1>4, <2>1, <2>3, AnswerSigned, GotoSigned DEF GetUser
<1>5. CASE MarkUsed(p)
  <2>1. Answer(p, "error") \/ ReuseFound(p) \/ Goto(p, "user")
    BY <1>5 DEF MarkUsed
  <2> QED BY <1>5, <2>1, NotIdle, AnswerSigned, ReuseFoundSigned, GotoSigned DEF MarkUsed
<1>6. CASE Rotate(p)
  <2>1. Answer(p, "error") \/ ReuseFound(p) \/ Goto(p, "sign")
    BY <1>6 DEF Rotate
  <2> QED BY <1>6, <2>1, NotIdle, AnswerSigned, ReuseFoundSigned, GotoSigned DEF Rotate
<1>7. CASE ListTokens(p)
  <2>1. req[p] \in Request
    BY <1>7, NotIdle, RequestType DEF ListTokens
  <2>2. req'[p].pc = "revoke"
    BY <1>7, <2>1 DEF ListTokens, TypeInv, TypeOK, Request
  <2>3. \A q \in Requests : q # p => req'[q] = req[q]
    BY <1>7 DEF ListTokens, TypeInv, TypeOK
  <2> QED BY <1>7, <2>2, <2>3 DEF SignedKept, Signed, ListTokens
<1>8. CASE RevokeNext(p)
  <2>1. req[p] # Idle /\ req[p] \in Request
    BY <1>8, NotIdle, RequestType DEF RevokeNext
  <2>2. Answer(p, "error") \/ \E t \in req[p].todo : req' = [req EXCEPT ![p].todo = req[p].todo \ {t}]
    BY <1>8 DEF RevokeNext, RevokeListed
  <2>3. CASE \E t \in req[p].todo : req' = [req EXCEPT ![p].todo = req[p].todo \ {t}]
    <3>1. req'[p].pc = "revoke"
      BY <1>8, <2>1, <2>3 DEF RevokeNext, TypeInv, TypeOK, Request
    <3>2. \A q \in Requests : q # p => req'[q] = req[q]
      BY <2>3 DEF TypeInv, TypeOK
    <3> QED BY <1>8, <3>1, <3>2 DEF SignedKept, Signed, RevokeNext
  <2> QED BY <1>8, <2>1, <2>2, <2>3, AnswerSigned DEF RevokeNext
<1>9. CASE RevokeBefore(p)
  BY <1>9, NotIdle, AnswerSigned DEF RevokeBefore
<1>10. CASE Fail(p)
  BY <1>10, AnswerSigned DEF Fail
<1>11. CASE Finish(p)
  <2>1. req'[p] = Idle /\ \A q \in Requests : q # p => req'[q] = req[q]
    BY <1>11 DEF Finish, TypeInv, TypeOK
  <2> QED BY <1>11, <2>1 DEF SignedKept, Signed, Finish
<1> QED BY <1>1, <1>2, <1>3, <1>4, <1>5, <1>6, <1>7, <1>8, <1>9, <1>10, <1>11

\* While nothing is signed the ids stay unique.
LEMMA SignedKeptKeeps ==
  ASSUME JtisUnique, SignedKept, access' = access
  PROVE  JtisUnique'
<1>1. ASSUME NEW p \in Requests, Signed(p)'
      PROVE  /\ \E j \in Jtis : req'[p].jti = {j}
             /\ \A a \in access' : a.jti \notin req'[p].jti
  BY <1>1 DEF JtisUnique, SignedKept
<1>2. ASSUME NEW p \in Requests, NEW q \in Requests, Signed(p)', Signed(q)', p # q
      PROVE  req'[p].jti \cap req'[q].jti = {}
  BY <1>2 DEF JtisUnique, SignedKept
<1>3. \A a, b \in access' : a.jti = b.jti => a = b
  BY DEF JtisUnique
<1> QED BY <1>1, <1>2, <1>3 DEF JtisUnique

\* The id drawn by the signer is new.
LEMMA SignKeepsJtis ==
  ASSUME TypeInv, JtisUnique, NEW p \in Requests, Sign(p)
  PROVE  JtisUnique'
<1>1. req[p] # Idle /\ req[p] \in Request /\ access' = access
  BY NotIdle, RequestType DEF Sign
<1>2. PICK j \in Jtis \ UsedJtis :
         req' = [req EXCEPT ![p].pc = "create", ![p].jti = {j}, ![p].iat = now]
  BY DEF Sign
<1>3. req'[p].jti = {j} /\ \A q \in Requests : q # p => req'[q] = req[q]
  BY <1>1, <1>2 DEF TypeInv, TypeOK, Request
<1>4. /\ \A a \in access : a.jti # j
      /\ \A q \in Requests : req[q] # Idle => j \notin req[q].jti
  BY <1>2 DEF UsedJtis
<1>5. \A q \in Requests : q # p /\ Signed(q)' => Signed(q) /\ req'[q].jti = req[q].jti
  BY <1>3 DEF Signed
<1>6. ASSUME NEW q \in Requests, Signed(q)'
      PROVE  /\ \E x \in Jtis : req'[q].jti = {x}
             /\ \A a \in access' : a.jti \notin req'[q].jti
  BY <1>1, <1>3, <1>4, <1>5, <1>6 DEF JtisUnique
<1>7. ASSUME NEW q \in Requests, NEW r \in Requests, Signed(q)', Signed(r)', q # r
      PROVE  req'[q].jti \cap req'[r].jti = {}
  <2>1. CASE q # p /\ r # p
    BY <1>5, <1>7, <2>1 DEF JtisUnique
  <2>2. CASE q = p
    BY <1>3, <1>4, <1>5, <1>7, <2>2 DEF Signed
  <2>3. CASE r = p
    BY <1>3, <1>4, <1>5, <1>7, <2>3 DEF Signed
  <2> QED BY <2>1, <2>2, <2>3
<1>8. \A a, b \in access' : a.jti = b.jti => a = b
  BY <1>1 DEF JtisUnique
<1> QED BY <1>6, <1>7, <1>8 DEF JtisUnique

\* The access token handed out has the id its request drew.
LEMMA CreateTokenKeepsJtis ==
  ASSUME TypeInv, JtisUnique, NEW p \in Requests, CreateToken(p)
  PROVE  JtisUnique'
<1>1. req[p] # Idle /\ Signed(p)
  BY NotIdle DEF CreateToken, Signed
<1>2. PICK j \in Jtis : req[p].jti = {j}
  BY <1>1 DEF JtisUnique
<1>3. \/ access' = access
      \/ access' = access \cup {AccessTokenOf(req[p], j)}
  BY <1>2 DEF CreateToken, Respond
<1>4. AccessTokenOf(req[p], j).jti = j
  BY DEF AccessTokenOf
<1>5. SignedKept
  BY <1>1, AnswerSigned DEF CreateToken, Respond
<1>6. ~Signed(p)'
  <2>1. Answer(p, "tokens") \/ Answer(p, "error")
    BY DEF CreateToken, Respond
  <2>2. req[p] \in Request
    BY <1>1, RequestType
  <2>3. req'[p].pc = "done"
    BY <2>1, <2>2 DEF Answer, TypeInv, TypeOK, Request
  <2> QED BY <2>3 DEF Signed
<1>7. ASSUME NEW q \in Requests, Signed(q)'
      PROVE  /\ \E x \in Jtis : req'[q].jti = {x}
             /\ \A a \in access' : a.jti \notin req'[q].jti
  <2>1. q # p /\ Signed(q) /\ req'[q].jti = req[q].jti
    BY <1>5, <1>6, <1>7 DEF SignedKept
  <2>2. j \notin req[q].jti
    BY <1>1, <1>2, <2>1 DEF JtisUnique
  <2> QED BY <1>3, <1>4, <2>1, <2>2 DEF JtisUnique
<1>8. ASSUME NEW q \in Requests, NEW r \in Requests, Signed(q)', Signed(r)', q # r
      PROVE  req'[q].jti \cap req'[r].jti = {}
  BY <1>5, <1>8 DEF SignedKept, JtisUnique
<1>9. \A a \in access : a.jti # j
  BY <1>1, <1>2 DEF JtisUnique
<1>10. \A a, b \in access' : a.jti = b.jti => a = b
  BY <1>3, <1>4, <1>9 DEF JtisUnique
<1> QED BY <1>7, <1>8, <1>10 DEF JtisUnique

\* No request moves, nothing is signed.
LEMMA UnchangedRequestsSigned ==
  ASSUME UNCHANGED req
  PROVE  SignedKept
BY DEF SignedKept, Signed

\* Every step keeps access token ids unique.
LEMMA NextJtis == TypeInv /\ JtisUnique /\ [Next]_vars => JtisUnique'
<1> SUFFICES ASSUME TypeInv, JtisUnique, [Next]_vars PROVE JtisUnique'
  OBVIOUS
<1>1. ASSUME NEW p \in Requests, Sign(p) PROVE JtisUnique'
  BY <1>1, SignKeepsJtis
<1>2. ASSUME NEW p \in Requests, CreateToken(p) PROVE JtisUnique'
  BY <1>2, CreateTokenKeepsJtis
<1>3. ASSUME NEW p \in Requests,
             \/ Start(p) \/ GetByCode(p) \/ GetToken(p) \/ GetUser(p) \/ MarkUsed(p)
             \/ Rotate(p) \/ ListTokens(p) \/ RevokeNext(p) \/ RevokeBefore(p)
             \/ Finish(p) \/ Fail(p)
      PROVE  JtisUnique'
  BY <1>3, RequestSigned, SignedKeptKeeps
<1>4. CASE Administration \/ Maintenance \/ Tick
  BY <1>4, OutsideLeavesRequests, UnchangedRequestsSigned, SignedKeptKeeps
<1>5. ASSUME NEW k \in Codes, NEW u \in Users, NEW c \in Clients,
             NEW s \in SUBSET Scopes \ {{}}, IssueCode(k, u, c, s)
      PROVE  JtisUnique'
  BY <1>5, UnchangedRequestsSigned, SignedKeptKeeps DEF IssueCode
<1>6. CASE UNCHANGED vars
  BY <1>6, UnchangedRequestsSigned, SignedKeptKeeps DEF vars
<1> QED BY <1>1, <1>2, <1>3, <1>4, <1>5, <1>6, NextCases DEF Quiet

-----------------------------------------------------------------------------
(* The theorems about grants *)

\* The invariant holds of the empty store.
LEMMA InitGrantInv == Init => GrantInv /\ JtisUnique
<1> SUFFICES ASSUME Init PROVE GrantInv /\ JtisUnique
  OBVIOUS
<1>1. TypeInv
  BY InitType
<1>2. /\ \A t \in Tokens : rtok[t] = NoToken
      /\ \A p \in Requests : req[p] = Idle
      /\ access = {}
  BY DEF Init
<1>3. \A t \in Tokens : ~LiveToken(t)
  BY <1>2 DEF LiveToken, NoToken
<1>4. \A p \in Requests : ~Claiming(p) /\ ~Signed(p)
  BY <1>2 DEF Claiming, Signed
<1> QED BY <1>1, <1>2, <1>3, <1>4 DEF GrantInv, Baton, Spent, JtisUnique

\* Every step keeps the invariant.
LEMMA NextGrantInv == GrantInv /\ JtisUnique /\ [Next]_vars => GrantInv'
<1> SUFFICES ASSUME GrantInv, JtisUnique, [Next]_vars PROVE GrantInv'
  OBVIOUS
<1>1. CASE Quiet
  BY <1>1, QuietKeeps
<1>2. ASSUME NEW p \in Requests, CreateToken(p) PROVE GrantInv'
  BY <1>2, CreateTokenKeeps DEF JtisUnique, Signed
<1>3. ASSUME NEW k \in Codes, NEW u \in Users, NEW c \in Clients,
             NEW s \in SUBSET Scopes \ {{}}, IssueCode(k, u, c, s)
      PROVE  GrantInv'
  BY <1>3, IssueCodeKeeps
<1>4. CASE UNCHANGED vars
  <2>1. TypeInv /\ AgeingStep
    BY <1>4, StutterType DEF GrantInv
  <2>2. UNCHANGED <<req, access>>
    BY <1>4 DEF vars
  <2> QED BY <2>1, <2>2, RequestsUnchangedClaims, LettingGo
<1> QED BY <1>1, <1>2, <1>3, <1>4, NextCases

\* The inductive invariant: the right to continue a grant is in one place.
THEOREM GrantInvariant == Spec => [](GrantInv /\ JtisUnique)
<1>1. GrantInv /\ JtisUnique /\ [Next]_vars => (GrantInv /\ JtisUnique)'
  BY NextGrantInv, NextJtis DEF GrantInv
<1> QED BY <1>1, InitGrantInv, PTL DEF Spec

\* However many requests race for a code or a refresh token (MarkUsed, Rotate),
\* and whatever is revoked, purged, deleted or fails meanwhile, no grant ever has
\* two refresh tokens that are not revoked.
THEOREM GrantsNeverFork == Spec => []OneLiveTokenPerGrant
<1>1. GrantInv => OneLiveTokenPerGrant
  BY DEF GrantInv, Baton, OneLiveTokenPerGrant
<1> QED BY <1>1, GrantInvariant, PTL

\* No authorization code and no refresh token is ever answered with tokens twice
\* (HandleAuthorizationCode, HandleRefreshToken).
THEOREM CredentialsRedeemedOnce == Spec => []RedeemedOnce
<1>1. GrantInv => RedeemedOnce
  BY DEF GrantInv, Spent, RedeemedOnce
<1> QED BY <1>1, GrantInvariant, PTL

-----------------------------------------------------------------------------
(* The life cycle of a grant.  The invariant keeps the cases of GrantPhase *)
(* apart, so each step can be read as what it does to them.                *)

\* A stored credential continues the grant.
Held(k) == LiveCode(k) \/ \E t \in Tokens : LiveToken(t) /\ rtok[t].root = k

\* A request has consumed the grant's credential and not answered yet.
Taken(k) == \E p \in Requests : Claiming(p) /\ Root(req[p]) = k

PhasesApart ==
    \A k \in Codes :
        /\ code[k] = NoCode => GrantPhase(k) = "unborn"
        /\ code[k] # NoCode /\ Held(k) => GrantPhase(k) = "held"
        /\ code[k] # NoCode /\ Taken(k) => GrantPhase(k) = "taken"
        /\ code[k] # NoCode /\ ~Held(k) /\ ~Taken(k) => GrantPhase(k) = "ended"

\* The right to continue a grant is in one place, so its phase is well defined.
LEMMA PhaseIs == Baton => PhasesApart
<1> SUFFICES ASSUME Baton, NEW k \in Codes
             PROVE  /\ code[k] = NoCode => GrantPhase(k) = "unborn"
                    /\ code[k] # NoCode /\ Held(k) => GrantPhase(k) = "held"
                    /\ code[k] # NoCode /\ Taken(k) => GrantPhase(k) = "taken"
                    /\ code[k] # NoCode /\ ~Held(k) /\ ~Taken(k) => GrantPhase(k) = "ended"
  BY DEF PhasesApart
<1>1. (\E p \in Requests : HoldsClaim(p, k)) <=> Taken(k)
  BY DEF HoldsClaim, Taken, Claiming
<1>2. (LiveCode(k) \/ \E t \in Tokens : LiveToken(t) /\ rtok[t].root = k) <=> Held(k)
  BY DEF Held
<1>3. \A t \in Tokens : LiveToken(t) => rtok[t] # NoToken
  BY DEF LiveToken, NoToken
<1>4. code[k] = NoCode => ~Held(k) /\ ~Taken(k)
  BY <1>3 DEF Baton, Held, Taken, LiveCode, NoCode
<1>5. Held(k) => ~Taken(k)
  BY <1>3 DEF Baton, Held, Taken
<1> QED BY <1>1, <1>2, <1>4, <1>5 DEF GrantPhase

\* The same, one step later.
LEMMA NextPhaseIs == Baton' => PhasesApart'
BY PhaseIs, PTL

\* A grant whose code, credentials and claims are as before is in the same phase.
LEMMA SamePhase ==
  ASSUME Baton, Baton', NEW k \in Codes, code'[k] = NoCode <=> code[k] = NoCode,
         Held(k)' <=> Held(k), Taken(k)' <=> Taken(k)
  PROVE  GrantPhase(k)' = GrantPhase(k)
<1>1. PhasesApart /\ PhasesApart'
  BY PhaseIs, NextPhaseIs
<1> QED BY <1>1 DEF PhasesApart

\* A step that only ages rows and lets go of claims ends grants or does nothing.
LEMMA LettingGoEnds ==
  ASSUME TypeInv, CodesAge, TokensAge, TypeInv', Baton, Baton', ClaimsKept
  PROVE  [Lifecycle!Next]_([k \in Codes |-> GrantPhase(k)])
<1>1. PhasesApart /\ PhasesApart' /\ AgeingStep
  BY PhaseIs, NextPhaseIs DEF AgeingStep
<1>2. ASSUME NEW k \in Codes
      PROVE  \/ GrantPhase(k)' = GrantPhase(k)
             \/ GrantPhase(k) \in {"held", "taken"} /\ GrantPhase(k)' = "ended"
  <2>1. code'[k] = NoCode <=> code[k] = NoCode
    BY DEF CodesAge, AuthCode, NoCode
  <2>2. Held(k)' => Held(k)
    BY <1>1, LivenessKept DEF Held
  <2>3. Taken(k)' => Taken(k)
    <3>1. \A p \in Requests : Claiming(p)' => Claiming(p) /\ Root(req[p])' = Root(req[p])
      BY RootKept DEF ClaimsKept, Claiming
    <3> QED BY <3>1 DEF Taken
  <2> QED BY <1>1, <2>1, <2>2, <2>3 DEF PhasesApart
<1> DEFINE S == {k \in Codes : GrantPhase(k)' # GrantPhase(k)}
<1>3. Lifecycle!End(S)
  BY <1>2 DEF Lifecycle!End
<1>4. S \in SUBSET Codes
  OBVIOUS
<1> QED BY <1>3, <1>4 DEF Lifecycle!Next

\* Taking the credential: one grant goes from held to taken.
LEMMA TakingTakes ==
  ASSUME Baton, Baton', NEW g \in Codes, code[g] # NoCode, code'[g] # NoCode,
         Held(g), Taken(g)',
         \A k \in Codes : k # g => /\ code'[k] = NoCode <=> code[k] = NoCode
                                   /\ Held(k)' <=> Held(k)
                                   /\ Taken(k)' <=> Taken(k)
  PROVE  [Lifecycle!Next]_([k \in Codes |-> GrantPhase(k)])
<1>1. \A k \in Codes : k # g => GrantPhase(k)' = GrantPhase(k)
  BY SamePhase
<1>2. GrantPhase(g) = "held" /\ GrantPhase(g)' = "taken"
  BY PhaseIs, NextPhaseIs DEF PhasesApart
<1>3. Lifecycle!Take(g)
  BY <1>1, <1>2 DEF Lifecycle!Take
<1> QED BY <1>3 DEF Lifecycle!Next

\* MarkUsed takes the code's grant, or lets it be.
LEMMA MarkUsedSimulates ==
  ASSUME GrantInv, GrantInv', NEW p \in Requests, MarkUsed(p)
  PROVE  [Lifecycle!Next]_([k \in Codes |-> GrantPhase(k)])
<1>1. /\ req[p] # Idle /\ req[p].op = "authorization_code" /\ req[p].pc = "claim"
      /\ UNCHANGED rtok
  BY NotIdle DEF MarkUsed
<1>2. TypeInv /\ TypeInv' /\ CodesAge /\ TokensAge /\ Baton /\ Baton'
  BY MarkUsedStep DEF GrantInv, AgeingStep
<1>0. req[p].cred \in Codes
  BY <1>1, <1>2 DEF TypeInv, CredentialsExist
<1> PICK g \in Codes : g = req[p].cred
  BY <1>0
<1>3. /\ req[p] \in Request /\ code[g] # NoCode /\ code[g] \in AuthCode
      /\ Root(req[p]) = g
  BY <1>1, <1>2, RequestType DEF TypeInv, CredentialsExist, Root
<1>4. \/ CodeTakeable(g) /\ code' = [code EXCEPT ![g].used = TRUE] /\ Goto(p, "user")
      \/ ReuseFound(p)
      \/ Answer(p, "error")
  BY DEF MarkUsed
<1>5. CASE ReuseFound(p) \/ Answer(p, "error")
  BY <1>1, <1>2, <1>5, ReuseFoundClaims, AnswerClaims, LettingGoEnds
<1>6. CASE CodeTakeable(g) /\ code' = [code EXCEPT ![g].used = TRUE] /\ Goto(p, "user")
  <2>1. Held(g)
    BY <1>6 DEF CodeTakeable, LiveCode, Held
  <2>2. /\ req'[p].op = req[p].op /\ req'[p].cred = req[p].cred /\ req'[p].pc = "user"
        /\ req'[p] # Idle
        /\ \A q \in Requests : q # p => req'[q] = req[q]
    BY <1>2, <1>3, <1>6 DEF Goto, Request, TypeInv, TypeOK, Idle
  <2>3. Claiming(p)' /\ Root(req[p])' = g
    BY <1>1, <2>2 DEF Claiming, Root
  <2>4. ~Claiming(p)
    BY <1>1 DEF Claiming
  <2>5. \A k \in Codes : k # g => code'[k] = code[k]
    BY <1>2, <1>6 DEF TypeInv, TypeOK
  <2>6. code'[g] # NoCode
    BY <1>2, <1>3 DEF CodesAge, AuthCode, NoCode
  <2>7. ASSUME NEW k \in Codes, k # g
        PROVE  /\ code'[k] = NoCode <=> code[k] = NoCode
               /\ Held(k)' <=> Held(k)
               /\ Taken(k)' <=> Taken(k)
    <3>1. Held(k)' <=> Held(k)
      BY <1>1, <2>5, <2>7 DEF Held, LiveCode, LiveToken
    <3>2. \A q \in Requests : q # p => /\ Claiming(q)' <=> Claiming(q)
                                       /\ Root(req[q])' = Root(req[q])
      BY <1>1, <2>2 DEF Claiming, Root
    <3>3. Taken(k)' <=> Taken(k)
      BY <2>3, <2>4, <2>7, <3>2 DEF Taken
    <3> QED BY <2>5, <2>7, <3>1, <3>3
  <2>8. Taken(g)'
    BY <2>3 DEF Taken
  <2> QED BY <1>2, <1>3, <2>1, <2>6, <2>7, <2>8, TakingTakes
<1> QED BY <1>4, <1>5, <1>6

\* Rotate takes the token's grant, or lets it be.
LEMMA RotateSimulates ==
  ASSUME GrantInv, GrantInv', NEW p \in Requests, Rotate(p)
  PROVE  [Lifecycle!Next]_([k \in Codes |-> GrantPhase(k)])
<1>1. /\ req[p] # Idle /\ req[p].op = "refresh_token" /\ req[p].pc = "claim"
      /\ UNCHANGED code
  BY NotIdle DEF Rotate
<1>2. TypeInv /\ TypeInv' /\ CodesAge /\ TokensAge /\ Baton /\ Baton'
  BY RotateStep DEF GrantInv, AgeingStep
<1>0. /\ req[p].cred \in Tokens /\ rtok[req[p].cred] # NoToken
      /\ rtok[req[p].cred].root \in Codes
  BY <1>1, <1>2, RequestType DEF TypeInv, CredentialsExist, Token
<1> PICK t \in Tokens : t = req[p].cred
  BY <1>0
<1> PICK g \in Codes : g = rtok[t].root
  BY <1>0
<1>3. /\ req[p] \in Request /\ rtok[t] # NoToken /\ rtok[t] \in Token
      /\ Root(req[p]) = g
  BY <1>1, <1>2, RequestType DEF TypeInv, CredentialsExist, Root
<1>4. \/ TokenTakeable(t) /\ rtok' = [rtok EXCEPT ![t].revoked = TRUE] /\ Goto(p, "sign")
      \/ ReuseFound(p)
      \/ Answer(p, "error")
  BY DEF Rotate
<1>5. CASE ReuseFound(p) \/ Answer(p, "error")
  BY <1>1, <1>2, <1>5, ReuseFoundClaims, AnswerClaims, LettingGoEnds
<1>6. CASE TokenTakeable(t) /\ rtok' = [rtok EXCEPT ![t].revoked = TRUE] /\ Goto(p, "sign")
  <2>1. Held(g)
    BY <1>3, <1>6 DEF TokenTakeable, LiveToken, Held
  <2>2. /\ req'[p].op = req[p].op /\ req'[p].cred = req[p].cred /\ req'[p].pc = "sign"
        /\ req'[p] # Idle
        /\ \A q \in Requests : q # p => req'[q] = req[q]
    BY <1>2, <1>3, <1>6 DEF Goto, Request, TypeInv, TypeOK, Idle
  <2>3. Root(req[p])' = g
    BY <1>1, <1>2, <1>3, <2>2, RootKept
  <2>4. Claiming(p)'
    BY <2>2 DEF Claiming
  <2>5. ~Claiming(p)
    BY <1>1 DEF Claiming
  <2>6. code[g] # NoCode /\ code'[g] # NoCode
    BY <1>1, <1>2, <1>3 DEF Baton
  <2>7. \A s \in Tokens : s # t => rtok'[s] = rtok[s]
    BY <1>2, <1>6 DEF TypeInv, TypeOK
  <2>8. ~LiveToken(t)'
    BY <1>2, <1>3, <1>6 DEF LiveToken, TypeInv, TypeOK, Token
  <2>9. ASSUME NEW k \in Codes, k # g
        PROVE  /\ code'[k] = NoCode <=> code[k] = NoCode
               /\ Held(k)' <=> Held(k)
               /\ Taken(k)' <=> Taken(k)
    <3>1. \A s \in Tokens : LiveToken(s)' /\ rtok'[s].root = k <=> LiveToken(s) /\ rtok[s].root = k
      BY <2>7, <2>8, <2>9 DEF LiveToken
    <3>2. Held(k)' <=> Held(k)
      BY <1>1, <3>1 DEF Held, LiveCode
    <3>3. \A q \in Requests : q # p => /\ Claiming(q)' <=> Claiming(q)
                                       /\ Claiming(q) => Root(req[q])' = Root(req[q])
      BY <1>2, <2>2, RootKept DEF Claiming
    <3>4. Taken(k)' <=> Taken(k)
      BY <2>3, <2>5, <2>9, <3>3 DEF Taken
    <3> QED BY <1>1, <3>2, <3>4
  <2>10. Taken(g)'
    BY <2>3, <2>4 DEF Taken
  <2> QED BY <1>2, <1>3, <2>1, <2>6, <2>9, <2>10, TakingTakes
<1> QED BY <1>4, <1>5, <1>6

\* generateTokens gives the taken grant a new refresh token, or ends it.
LEMMA CreateTokenSimulates ==
  ASSUME GrantInv, GrantInv', NEW p \in Requests, CreateToken(p)
  PROVE  [Lifecycle!Next]_([k \in Codes |-> GrantPhase(k)])
<1>1. TypeInv /\ TypeInv' /\ Baton /\ Baton'
  BY DEF GrantInv
<1>2. req[p] # Idle /\ req[p].pc = "create" /\ UNCHANGED code
  BY NotIdle DEF CreateToken
<1>0. Root(req[p]) \in Codes
  BY <1>1, <1>2, RequestType
<1> PICK g \in Codes : g = Root(req[p])
  BY <1>0
<1>3. Claiming(p) /\ req[p] \in Request
  BY <1>1, <1>2, RequestType DEF Claiming
<1>4. Answer(p, "tokens") \/ Answer(p, "error")
  BY DEF CreateToken, Respond
<1>5. /\ req'[p].pc = "done" /\ \A q \in Requests : q # p => req'[q] = req[q]
      /\ ~Claiming(p)'
  BY <1>1, <1>3, <1>4 DEF Answer, TypeInv, TypeOK, Request, Claiming
<1>6. CASE UNCHANGED rtok
  BY <1>1, <1>2, <1>4, <1>6, CodesUnchanged, TokensUnchanged, AnswerClaims, LettingGoEnds
<1>7. ASSUME NEW t \in Tokens, rtok[t] = NoToken,
             rtok' = [rtok EXCEPT ![t] = RefreshTokenOf(req[p])]
      PROVE  [Lifecycle!Next]_([k \in Codes |-> GrantPhase(k)])
  <2>1. \A s \in Tokens : s # t => rtok'[s] = rtok[s]
    BY <1>1, <1>7 DEF TypeInv, TypeOK
  <2>2. LiveToken(t)' /\ rtok'[t].root = g /\ ~LiveToken(t)
    BY <1>1, <1>7 DEF LiveToken, RefreshTokenOf, NoToken, TypeInv, TypeOK
  <2>3. ASSUME NEW q \in Requests, q # p
        PROVE  /\ Claiming(q)' <=> Claiming(q)
               /\ Claiming(q) => Root(req[q])' = Root(req[q])
    <3>1. req'[q] = req[q]
      BY <1>5, <2>3
    <3>2. Claiming(q) => Root(req[q])' = Root(req[q])
      <4>1. Claiming(q) /\ req[q].op = "refresh_token" => req[q].cred \in Tokens /\ req[q].cred # t
        BY <1>1, <1>7 DEF TypeInv, CredentialsExist, Claiming
      <4> QED BY <2>1, <3>1, <4>1, RequestType, <1>1 DEF Root, Claiming, Request, GrantTypes
    <3> QED BY <3>1, <3>2 DEF Claiming
  <2>4. ASSUME NEW k \in Codes, k # g PROVE GrantPhase(k)' = GrantPhase(k)
    <3>1. \A s \in Tokens : LiveToken(s)' /\ rtok'[s].root = k <=> LiveToken(s) /\ rtok[s].root = k
      BY <2>1, <2>2, <2>4 DEF LiveToken
    <3>2. Held(k)' <=> Held(k)
      BY <1>2, <3>1 DEF Held, LiveCode
    <3>3. Taken(k)' <=> Taken(k)
      BY <1>5, <2>3, <2>4 DEF Taken
    <3> QED BY <1>1, <1>2, <3>2, <3>3, SamePhase
  <2>5. Taken(g) /\ Held(g)' /\ code[g] # NoCode /\ code'[g] # NoCode
    BY <1>1, <1>2, <1>3, <2>2 DEF Taken, Held, Baton
  <2>6. GrantPhase(g) = "taken" /\ GrantPhase(g)' = "held"
    BY <1>1, <1>3, <2>5, PhaseIs, NextPhaseIs DEF PhasesApart
  <2>7. Lifecycle!Renew(g)
    BY <1>3, <2>4, <2>6 DEF Lifecycle!Renew
  <2> QED BY <1>3, <2>7 DEF Lifecycle!Next
<1>8. \/ UNCHANGED rtok
      \/ \E t \in Tokens : rtok[t] = NoToken /\ rtok' = [rtok EXCEPT ![t] = RefreshTokenOf(req[p])]
  BY DEF CreateToken, FreshTokens
<1> QED BY <1>6, <1>7, <1>8

\* A new code starts a grant.
LEMMA IssueCodeSimulates ==
  ASSUME GrantInv, GrantInv', NEW g \in Codes, NEW u \in Users, NEW c \in Clients,
         NEW s \in SUBSET Scopes, IssueCode(g, u, c, s)
  PROVE  [Lifecycle!Next]_([k \in Codes |-> GrantPhase(k)])
<1>1. TypeInv /\ TypeInv' /\ Baton /\ Baton'
  BY DEF GrantInv
<1>2. code[g] = NoCode /\ UNCHANGED <<rtok, req>>
  BY DEF IssueCode
<1>3. \A k \in Codes : k # g => code'[k] = code[k]
  BY <1>1 DEF IssueCode, TypeInv, TypeOK
<1>4. LiveCode(g)' /\ code'[g] # NoCode
  BY <1>1 DEF IssueCode, LiveCode, NoCode, TypeInv, TypeOK
<1>5. ASSUME NEW k \in Codes, k # g PROVE GrantPhase(k)' = GrantPhase(k)
  <2>1. Held(k)' <=> Held(k)
    BY <1>2, <1>3, <1>5 DEF Held, LiveCode, LiveToken
  <2>2. Taken(k)' <=> Taken(k)
    BY <1>2 DEF Taken, Claiming, Root
  <2> QED BY <1>1, <1>3, <1>5, <2>1, <2>2, SamePhase
<1>6. GrantPhase(g) = "unborn" /\ GrantPhase(g)' = "held"
  BY <1>1, <1>2, <1>4, PhaseIs, NextPhaseIs DEF PhasesApart, Held
<1>7. Lifecycle!Issue(g)
  BY <1>5, <1>6 DEF Lifecycle!Issue
<1> QED BY <1>7 DEF Lifecycle!Next

\* Every step of the endpoint, the administrator, the maintenance runner and
\* the clock is a step of the life cycle, or leaves every grant in its phase.
LEMMA StepSimulation ==
  ASSUME GrantInv, GrantInv', [Next]_vars
  PROVE  [Lifecycle!Next]_([k \in Codes |-> GrantPhase(k)])
<1>1. TypeInv /\ TypeInv' /\ Baton /\ Baton'
  BY DEF GrantInv
<1>2. ASSUME NEW p \in Requests, MarkUsed(p) \/ Rotate(p) \/ CreateToken(p)
      PROVE  [Lifecycle!Next]_([k \in Codes |-> GrantPhase(k)])
  BY <1>2, MarkUsedSimulates, RotateSimulates, CreateTokenSimulates
<1>3. ASSUME AgeingStep, ClaimsKept
      PROVE  [Lifecycle!Next]_([k \in Codes |-> GrantPhase(k)])
  BY <1>1, <1>3, LettingGoEnds DEF AgeingStep
<1>4. ASSUME NEW p \in Requests,
             \/ Start(p) \/ GetByCode(p) \/ GetToken(p) \/ GetUser(p) \/ Sign(p)
             \/ ListTokens(p) \/ RevokeNext(p) \/ RevokeBefore(p) \/ Finish(p) \/ Fail(p)
      PROVE  AgeingStep /\ ClaimsKept
  <2>1. AgeingStep
    BY <1>1, <1>4, QuietAges DEF Quiet
  <2> QED BY <1>1, <1>4, <2>1, StartClaims, ReadingClaims, SignClaims, CutOffClaims
<1>5. ASSUME Administration \/ Maintenance \/ Tick PROVE AgeingStep /\ ClaimsKept
  <2>1. AgeingStep
    BY <1>1, <1>5, QuietAges DEF Quiet
  <2> QED BY <1>5, <2>1, OutsideClaims
<1>6. ASSUME UNCHANGED vars PROVE AgeingStep /\ ClaimsKept
  BY <1>1, <1>6, StutterType, RequestsUnchangedClaims DEF vars
<1>7. ASSUME NEW k \in Codes, NEW u \in Users, NEW c \in Clients,
             NEW s \in SUBSET Scopes \ {{}}, IssueCode(k, u, c, s)
      PROVE  [Lifecycle!Next]_([x \in Codes |-> GrantPhase(x)])
  BY <1>7, IssueCodeSimulates
<1>8. CASE Quiet
  BY <1>2, <1>3, <1>4, <1>5, <1>8 DEF Quiet
<1> QED BY <1>2, <1>3, <1>6, <1>7, <1>8, NextCases

\* The token endpoint, its tables and everything else that writes to them
\* implement the life cycle of a grant: the right to continue it is held by one
\* stored credential or taken by one request, and once it is lost no request,
\* administrator, purge or failure brings it back.
THEOREM LifecycleImplemented == Spec => ImplementsLifecycle
<1>1. Init => Lifecycle!Init
  <2> SUFFICES ASSUME Init PROVE Lifecycle!Init
    OBVIOUS
  <2>1. Baton /\ \A k \in Codes : code[k] = NoCode
    BY InitGrantInv DEF GrantInv, Init
  <2> QED BY <2>1, PhaseIs DEF PhasesApart, Lifecycle!Init
<1>2. GrantInv /\ GrantInv' /\ [Next]_vars =>
         [Lifecycle!Next]_([k \in Codes |-> GrantPhase(k)])
  BY StepSimulation
<1> QED BY <1>1, <1>2, GrantInvariant, PTL DEF Spec, ImplementsLifecycle, Lifecycle!Spec

-----------------------------------------------------------------------------
(* Whose grant a request works on *)

\* What a request past its checks may rely on: it asks for nothing the
\* credential does not have, the credential was issued to its own client, and
\* what it is about to revoke belongs to that user and client.
Entitled(p) ==
    req[p] # Idle =>
        /\ req[p].op = "authorization_code" => req[p].want = {}
        /\ req[p].pc \in {"user", "claim", "sign", "create", "list", "revoke"} =>
              Cred(req[p]).client = req[p].client
        /\ req[p].pc \in {"claim", "sign", "create"} => req[p].want \subseteq Cred(req[p]).scope
        /\ req[p].pc = "revoke" =>
              \A t \in req[p].todo : /\ rtok[t] # NoToken
                                     /\ rtok[t].user = Cred(req[p]).user
                                     /\ rtok[t].client = Cred(req[p]).client

\* The grants that tokens go back to exist.
RootsExist ==
    /\ \A a \in access : code[a.root] # NoCode
    /\ \A t \in Tokens : rtok[t] # NoToken => code[rtok[t].root] # NoCode

OwnInv ==
    /\ TypeInv
    /\ \A p \in Requests : Entitled(p)
    /\ RootsExist
    /\ TokensStayWithinGrant

\* What no step changes of a row that exists.
RowsKept ==
    /\ \A k \in Codes : code[k] # NoCode =>
          /\ code'[k] # NoCode
          /\ code'[k].user = code[k].user /\ code'[k].client = code[k].client
          /\ code'[k].scope = code[k].scope
    /\ \A t \in Tokens : rtok[t] # NoToken =>
          /\ rtok'[t] # NoToken
          /\ rtok'[t].user = rtok[t].user /\ rtok'[t].client = rtok[t].client
          /\ rtok'[t].scope = rtok[t].scope
          /\ rtok'[t].root = rtok[t].root /\ rtok'[t].exp = rtok[t].exp

\* Ageing keeps owner, scope and grant of every row.
LEMMA AgeingKeepsRows ==
  ASSUME AgeingStep
  PROVE  RowsKept
BY DEF AgeingStep, CodesAge, TokensAge, RowsKept, AuthCode, NoCode, Token, NoToken

\* Every step keeps owner, scope and grant of every row.
LEMMA StepKeepsRows ==
  ASSUME TypeInv, [Next]_vars
  PROVE  RowsKept
<1>1. CASE Quiet
  BY <1>1, QuietAges, AgeingKeepsRows
<1>2. ASSUME NEW p \in Requests, CreateToken(p) PROVE RowsKept
  <2>1. UNCHANGED code
    BY <1>2 DEF CreateToken
  <2>2. \/ UNCHANGED rtok
        \/ \E t \in Tokens : rtok[t] = NoToken /\ rtok' = [rtok EXCEPT ![t] = RefreshTokenOf(req[p])]
    BY <1>2 DEF CreateToken, FreshTokens
  <2>3. \A t \in Tokens : rtok[t] # NoToken => rtok'[t] = rtok[t]
    BY <2>2 DEF TypeInv, TypeOK
  <2> QED BY <2>1, <2>3 DEF RowsKept
<1>3. ASSUME NEW k \in Codes, NEW u \in Users, NEW c \in Clients,
             NEW s \in SUBSET Scopes \ {{}}, IssueCode(k, u, c, s)
      PROVE  RowsKept
  <2>1. UNCHANGED rtok /\ \A x \in Codes : code[x] # NoCode => code'[x] = code[x]
    BY <1>3 DEF IssueCode, TypeInv, TypeOK
  <2> QED BY <2>1 DEF RowsKept
<1>4. CASE UNCHANGED vars
  BY <1>4, StutterType, AgeingKeepsRows
<1> QED BY <1>1, <1>2, <1>3, <1>4, NextCases

\* The row of a request's credential keeps its owner, scope and grant.
LEMMA CredKept ==
  ASSUME TypeInv, RowsKept, NEW p \in Requests, req[p] # Idle,
         req'[p].op = req[p].op, req'[p].cred = req[p].cred
  PROVE  /\ Cred(req[p])'.user = Cred(req[p]).user
         /\ Cred(req[p])'.client = Cred(req[p]).client
         /\ Cred(req[p])'.scope = Cred(req[p]).scope
<1>1. req[p].op \in {"authorization_code", "refresh_token"}
  BY RequestType DEF Request, GrantTypes
<1>2. /\ req[p].op = "authorization_code" => req[p].cred \in Codes /\ code[req[p].cred] # NoCode
      /\ req[p].op = "refresh_token" => req[p].cred \in Tokens /\ rtok[req[p].cred] # NoToken
  BY DEF TypeInv, CredentialsExist
<1> QED BY <1>1, <1>2 DEF Cred, RowsKept

\* A request that moves to a step its checks allow stays entitled.
LEMMA MoveKeepsEntitled ==
  ASSUME TypeInv, RowsKept, NEW p \in Requests, req[p] # Idle, Entitled(p),
         req'[p].op = req[p].op, req'[p].cred = req[p].cred,
         req'[p].client = req[p].client, req'[p].want = req[p].want,
         req'[p].pc \in {"user", "claim", "sign", "create", "list", "revoke"} =>
            Cred(req[p]).client = req[p].client,
         req'[p].pc \in {"claim", "sign", "create"} => req[p].want \subseteq Cred(req[p]).scope,
         req'[p].pc = "revoke" =>
            \A t \in req'[p].todo : /\ t \in Tokens /\ rtok[t] # NoToken
                                    /\ rtok[t].user = Cred(req[p]).user
                                    /\ rtok[t].client = Cred(req[p]).client
  PROVE  Entitled(p)'
<1>1. /\ Cred(req[p])'.user = Cred(req[p]).user
      /\ Cred(req[p])'.client = Cred(req[p]).client
      /\ Cred(req[p])'.scope = Cred(req[p]).scope
  BY CredKept
<1>2. req'[p].pc = "revoke" => \A t \in req'[p].todo : /\ rtok'[t] # NoToken
                                                       /\ rtok'[t].user = Cred(req[p]).user
                                                       /\ rtok'[t].client = Cred(req[p]).client
  BY DEF RowsKept
<1>3. req'[p].op = "authorization_code" => req'[p].want = {}
  BY DEF Entitled
<1> QED BY <1>1, <1>2, <1>3 DEF Entitled

\* A request that does not move stays entitled.
LEMMA RestKeepsEntitled ==
  ASSUME TypeInv, RowsKept, NEW p \in Requests, Entitled(p), req'[p] = req[p]
  PROVE  Entitled(p)'
<1>1. CASE req[p] = Idle
  BY <1>1 DEF Entitled
<1>2. CASE req[p] # Idle
  <2>1. req[p].todo \subseteq Tokens
    BY <1>2, RequestType DEF Request
  <2> QED BY <1>2, <2>1, MoveKeepsEntitled DEF Entitled
<1> QED BY <1>1, <1>2

\* Answering keeps a request entitled.
LEMMA AnswerEntitled ==
  ASSUME TypeInv, RowsKept, NEW p \in Requests, req[p] # Idle, Entitled(p),
         NEW out, Answer(p, out)
  PROVE  Entitled(p)'
<1>1. /\ req'[p].op = req[p].op /\ req'[p].cred = req[p].cred /\ req'[p].pc = "done"
      /\ req'[p].client = req[p].client /\ req'[p].want = req[p].want
  BY RequestType DEF Answer, TypeInv, TypeOK, Request
<1> QED BY <1>1, MoveKeepsEntitled

\* Finding a reuse after the client check keeps a request entitled.
LEMMA ReuseFoundEntitled ==
  ASSUME TypeInv, RowsKept, NEW p \in Requests, req[p] # Idle, Entitled(p),
         Cred(req[p]).client = req[p].client, ReuseFound(p)
  PROVE  Entitled(p)'
<1>0. req[p] \in Request
  BY RequestType
<1>1. /\ req'[p].op = req[p].op /\ req'[p].cred = req[p].cred /\ req'[p].pc = "list"
      /\ req'[p].client = req[p].client /\ req'[p].want = req[p].want
  BY <1>0 DEF ReuseFound, TypeInv, TypeOK, Request
<1> QED BY <1>1, MoveKeepsEntitled

\* Going on after the checks keeps a request entitled.
LEMMA GotoEntitled ==
  ASSUME TypeInv, RowsKept, NEW p \in Requests, req[p] # Idle, Entitled(p),
         NEW step \in {"user", "claim", "sign"}, Goto(p, step),
         Cred(req[p]).client = req[p].client,
         step \in {"claim", "sign"} => req[p].want \subseteq Cred(req[p]).scope
  PROVE  Entitled(p)'
<1>1. /\ req'[p].op = req[p].op /\ req'[p].cred = req[p].cred /\ req'[p].pc = step
      /\ req'[p].client = req[p].client /\ req'[p].want = req[p].want
  BY RequestType DEF Goto, TypeInv, TypeOK, Request
<1> QED BY <1>1, MoveKeepsEntitled

\* The steps of a request leave the other requests alone.
LEMMA OneMoves ==
  ASSUME TypeInv, NEW p \in Requests, Start(p) \/ Progress(p) \/ Fail(p)
  PROVE  \A q \in Requests : q # p => req'[q] = req[q]
<1>1. CASE Start(p)
  BY <1>1 DEF Start, BeginCode, BeginRefresh, Begin, TypeInv, TypeOK
<1>2. CASE GetByCode(p) \/ GetToken(p) \/ GetUser(p)
  <2>1. user[Cred(req[p]).user].row \in {"none", "inactive", "active"} \/ ~GetUser(p)
    BY NotIdle, RequestType DEF TypeInv, TypeOK, User, GetUser
  <2>2. (\E out : Answer(p, out)) \/ (\E step : Goto(p, step)) \/ ReuseFound(p)
    BY <1>2, <2>1 DEF GetByCode, GetByCodeChecks, GetToken, GetTokenChecks, GetUser
  <2> QED BY <2>2 DEF Answer, Goto, ReuseFound, TypeInv, TypeOK
<1>3. CASE MarkUsed(p) \/ Rotate(p) \/ Sign(p) \/ CreateToken(p)
  BY <1>3 DEF MarkUsed, Rotate, Sign, CreateToken, Respond, Answer, Goto, ReuseFound, TypeInv, TypeOK
<1>4. CASE ListTokens(p) \/ RevokeNext(p) \/ RevokeBefore(p) \/ Finish(p) \/ Fail(p)
  BY <1>4 DEF ListTokens, RevokeNext, RevokeListed, RevokeBefore, Finish, Fail, Answer, TypeInv, TypeOK
<1> QED BY <1>1, <1>2, <1>3, <1>4 DEF Progress

\* Beginning a request entitles it to nothing yet.
LEMMA StartEntitled ==
  ASSUME TypeInv, NEW p \in Requests, Start(p)
  PROVE  Entitled(p)'
<1>1. ASSUME NEW op, NEW c, NEW cred, NEW match, NEW want, Begin(p, op, c, cred, match, want),
             op = "authorization_code" => want = {}
      PROVE  Entitled(p)'
  <2>1. req'[p] = NewRequest(op, c, cred, match, want)
    BY <1>1 DEF Begin, TypeInv, TypeOK
  <2>2. req'[p].pc = "credential" /\ req'[p].op = op /\ req'[p].want = want
    BY <2>1 DEF NewRequest
  <2> QED BY <1>1, <2>2 DEF Entitled
<1>2. ASSUME NEW c \in Clients, NEW k \in Codes, NEW match \in BOOLEAN, BeginCode(p, c, k, match)
      PROVE  Entitled(p)'
  BY <1>1, <1>2 DEF BeginCode
<1>3. ASSUME NEW c \in Clients, NEW t \in Tokens, NEW want \in SUBSET Scopes,
             BeginRefresh(p, c, t, want)
      PROVE  Entitled(p)'
  BY <1>1, <1>3 DEF BeginRefresh
<1> QED BY <1>2, <1>3 DEF Start

\* GetByCode and the checks before MarkUsed compare the client first.
LEMMA GetByCodeEntitled ==
  ASSUME TypeInv, RowsKept, NEW p \in Requests, Entitled(p), GetByCode(p)
  PROVE  Entitled(p)'
<1>1. req[p] # Idle /\ req[p].op = "authorization_code"
  BY NotIdle DEF GetByCode
<1>2. Cred(req[p]) = code[req[p].cred]
  BY <1>1 DEF Cred
<1>3. req[p].want = {}
  BY <1>1 DEF Entitled
<1>4. \/ Answer(p, "refused")
      \/ Cred(req[p]).client = req[p].client /\ ReuseFound(p)
      \/ Cred(req[p]).client = req[p].client /\ Goto(p, "claim")
  BY <1>2 DEF GetByCode, GetByCodeChecks
<1> QED BY <1>1, <1>3, <1>4, AnswerEntitled, ReuseFoundEntitled, GotoEntitled

\* GetByID and the checks before users.GetByID compare the client first.
LEMMA GetTokenEntitled ==
  ASSUME TypeInv, RowsKept, NEW p \in Requests, Entitled(p), GetToken(p)
  PROVE  Entitled(p)'
<1>1. req[p] # Idle /\ req[p].op = "refresh_token"
  BY NotIdle DEF GetToken
<1>2. Cred(req[p]) = rtok[req[p].cred]
  BY <1>1 DEF Cred
<1>4. \/ Answer(p, "refused")
      \/ Cred(req[p]).client = req[p].client /\ ReuseFound(p)
      \/ Cred(req[p]).client = req[p].client /\ Goto(p, "user")
  BY <1>2 DEF GetToken, GetTokenChecks
<1> QED BY <1>1, <1>4, AnswerEntitled, ReuseFoundEntitled, GotoEntitled

\* The scope of a refresh is checked after the user is; an exchange asks for none.
LEMMA GetUserEntitled ==
  ASSUME TypeInv, RowsKept, NEW p \in Requests, Entitled(p), GetUser(p)
  PROVE  Entitled(p)'
<1>1. req[p] # Idle /\ req[p].pc = "user"
  BY NotIdle DEF GetUser
<1>2. Cred(req[p]).client = req[p].client
  BY <1>1 DEF Entitled
<1>3. user[Cred(req[p]).user].row \in {"none", "inactive", "active"}
  BY <1>1, RequestType DEF TypeInv, TypeOK, User
<1>4. req[p].op = "authorization_code" => req[p].want \subseteq Cred(req[p]).scope
  BY <1>1 DEF Entitled
<1>5. \/ \E out : Answer(p, out)
      \/ Goto(p, "sign") /\ req[p].op = "authorization_code"
      \/ Goto(p, "claim") /\ req[p].want \subseteq Cred(req[p]).scope
  BY <1>3 DEF GetUser, ScopeAllowed
<1> QED BY <1>1, <1>2, <1>4, <1>5, AnswerEntitled, GotoEntitled

\* MarkUsed, whether it takes the code or finds it used.
LEMMA MarkUsedEntitled ==
  ASSUME TypeInv, RowsKept, NEW p \in Requests, Entitled(p), MarkUsed(p)
  PROVE  Entitled(p)'
<1>1. req[p] # Idle /\ req[p].pc = "claim"
  BY NotIdle DEF MarkUsed
<1>2. Cred(req[p]).client = req[p].client
  BY <1>1 DEF Entitled
<1>3. Answer(p, "error") \/ ReuseFound(p) \/ Goto(p, "user")
  BY DEF MarkUsed
<1> QED BY <1>1, <1>2, <1>3, AnswerEntitled, ReuseFoundEntitled, GotoEntitled

\* Rotate, whether it takes the token or finds it revoked.
LEMMA RotateEntitled ==
  ASSUME TypeInv, RowsKept, NEW p \in Requests, Entitled(p), Rotate(p)
  PROVE  Entitled(p)'
<1>1. req[p] # Idle /\ req[p].pc = "claim"
  BY NotIdle DEF Rotate
<1>2. Cred(req[p]).client = req[p].client /\ req[p].want \subseteq Cred(req[p]).scope
  BY <1>1 DEF Entitled
<1>3. Answer(p, "error") \/ ReuseFound(p) \/ Goto(p, "sign")
  BY DEF Rotate
<1> QED BY <1>1, <1>2, <1>3, AnswerEntitled, ReuseFoundEntitled, GotoEntitled

\* Signing, and creating the refresh token.
LEMMA IssuingEntitled ==
  ASSUME TypeInv, RowsKept, NEW p \in Requests, Entitled(p), Sign(p) \/ CreateToken(p)
  PROVE  Entitled(p)'
<1>1. req[p] # Idle /\ req[p].pc \in {"sign", "create"}
  BY NotIdle DEF Sign, CreateToken
<1>2. Cred(req[p]).client = req[p].client /\ req[p].want \subseteq Cred(req[p]).scope
  BY <1>1 DEF Entitled
<1>3. CASE Sign(p)
  <2>0. req[p] \in Request
    BY <1>1, RequestType
  <2> PICK j \in Jtis : req' = [req EXCEPT ![p].pc = "create", ![p].jti = {j}, ![p].iat = now]
    BY <1>3 DEF Sign
  <2>1. /\ req'[p].op = req[p].op /\ req'[p].cred = req[p].cred /\ req'[p].pc = "create"
        /\ req'[p].client = req[p].client /\ req'[p].want = req[p].want
    BY <2>0 DEF TypeInv, TypeOK, Request
  <2> QED BY <1>1, <1>2, <2>1, MoveKeepsEntitled
<1>4. CASE CreateToken(p)
  <2>1. \E out : Answer(p, out)
    BY <1>4 DEF CreateToken, Respond
  <2> QED BY <1>1, <2>1, AnswerEntitled
<1> QED BY <1>3, <1>4

\* revokeGrant lists and revokes the tokens of the credential's user and client.
LEMMA CuttingEntitled ==
  ASSUME TypeInv, RowsKept, NEW p \in Requests, Entitled(p),
         ListTokens(p) \/ RevokeNext(p) \/ RevokeBefore(p)
  PROVE  Entitled(p)'
<1>1. req[p] # Idle /\ req[p].pc \in {"list", "revoke"}
  BY NotIdle DEF ListTokens, RevokeNext, RevokeBefore
<1>2. Cred(req[p]).client = req[p].client
  BY <1>1 DEF Entitled
<1>0. req[p] \in Request
  BY <1>1, RequestType
<1>3. CASE ListTokens(p)
  <2> DEFINE T == LiveTokensOf(Cred(req[p]).user, Cred(req[p]).client)
  <2>1. req' = [req EXCEPT ![p].pc = "revoke", ![p].todo = T]
    BY <1>3, Zenon DEF ListTokens
  <2>2. \A t \in T : /\ t \in Tokens /\ rtok[t] # NoToken
                     /\ rtok[t].user = Cred(req[p]).user /\ rtok[t].client = Cred(req[p]).client
    BY DEF LiveTokensOf, LiveToken, NoToken
  <2> HIDE DEF T
  <2>3. /\ req'[p].op = req[p].op /\ req'[p].cred = req[p].cred /\ req'[p].todo = T
        /\ req'[p].client = req[p].client /\ req'[p].want = req[p].want
        /\ req'[p].pc = "revoke"
    BY <1>0, <2>1 DEF TypeInv, TypeOK, Request
  <2> QED BY <1>1, <1>2, <2>2, <2>3, MoveKeepsEntitled
<1>4. CASE RevokeNext(p)
  <2>1. CASE Answer(p, "error")
    BY <1>1, <2>1, AnswerEntitled
  <2>2. ASSUME NEW t \in req[p].todo, RevokeListed(p, t) PROVE Entitled(p)'
    <3>1. /\ req'[p].op = req[p].op /\ req'[p].cred = req[p].cred
          /\ req'[p].todo = req[p].todo \ {t}
          /\ req'[p].client = req[p].client /\ req'[p].want = req[p].want
          /\ req'[p].pc = req[p].pc
      BY <1>0, <2>2 DEF RevokeListed, TypeInv, TypeOK, Request
    <3>2. req[p].todo \subseteq Tokens /\ req[p].pc = "revoke"
      BY <1>0, <1>4 DEF Request, RevokeNext
    <3>3. \A s \in req'[p].todo : /\ s \in Tokens /\ rtok[s] # NoToken
                                  /\ rtok[s].user = Cred(req[p]).user
                                  /\ rtok[s].client = Cred(req[p]).client
      BY <1>1, <3>1, <3>2 DEF Entitled
    <3> QED BY <1>1, <1>2, <3>1, <3>2, <3>3, MoveKeepsEntitled
  <2> QED BY <1>4, <2>1, <2>2 DEF RevokeNext
<1>5. CASE RevokeBefore(p)
  BY <1>1, <1>5, AnswerEntitled DEF RevokeBefore
<1> QED BY <1>3, <1>4, <1>5

\* The steps of a request keep it entitled.
LEMMA StepEntitled ==
  ASSUME TypeInv, RowsKept, NEW p \in Requests, Entitled(p), Start(p) \/ Progress(p) \/ Fail(p)
  PROVE  Entitled(p)'
<1>1. CASE Finish(p)
  <2>1. req'[p] = Idle
    BY <1>1 DEF Finish, TypeInv, TypeOK
  <2> QED BY <2>1 DEF Entitled
<1>2. CASE Fail(p)
  BY <1>2, AnswerEntitled DEF Fail
<1> QED BY <1>1, <1>2, StartEntitled, GetByCodeEntitled, GetTokenEntitled, GetUserEntitled,
           MarkUsedEntitled, RotateEntitled, IssuingEntitled, CuttingEntitled DEF Progress

\* What a request hands out lies within the grant it goes back to.
LEMMA IssuedWithinGrant ==
  ASSUME OwnInv, NEW p \in Requests, req[p] # Idle, req[p].pc = "create"
  PROVE  /\ code[Root(req[p])] # NoCode
         /\ Cred(req[p]).user = code[Root(req[p])].user
         /\ req[p].client = code[Root(req[p])].client
         /\ GrantedScope(req[p]) \subseteq code[Root(req[p])].scope
<1>1. Cred(req[p]).client = req[p].client /\ GrantedScope(req[p]) \subseteq Cred(req[p]).scope
  BY DEF OwnInv, Entitled, GrantedScope
<1>2. req[p].op \in {"authorization_code", "refresh_token"}
  BY RequestType DEF OwnInv, Request, GrantTypes
<1>3. CASE req[p].op = "authorization_code"
  <2>1. code[req[p].cred] # NoCode
    BY <1>3 DEF OwnInv, TypeInv, CredentialsExist
  <2> QED BY <1>1, <1>3, <2>1 DEF Cred, Root
<1>4. CASE req[p].op = "refresh_token"
  <2>1. req[p].cred \in Tokens /\ rtok[req[p].cred] # NoToken
    BY <1>4 DEF OwnInv, TypeInv, CredentialsExist
  <2>2. code[rtok[req[p].cred].root] # NoCode /\ Within(rtok[req[p].cred], rtok[req[p].cred].root)
    BY <2>1 DEF OwnInv, RootsExist, TokensStayWithinGrant
  <2>3. Cred(req[p]) = rtok[req[p].cred] /\ Root(req[p]) = rtok[req[p].cred].root
    BY <1>4 DEF Cred, Root
  <2> QED BY <1>1, <2>2, <2>3 DEF Within
<1> QED BY <1>2, <1>3, <1>4

\* Rows and access tokens a step does not add stay within their grant.
LEMMA WithinKept ==
  ASSUME TypeInv, RootsExist, TokensStayWithinGrant, RowsKept
  PROVE  /\ \A a \in access : code'[a.root] # NoCode /\ Within(a, a.root)'
         /\ \A t \in Tokens : rtok[t] # NoToken =>
              /\ rtok'[t] # NoToken
              /\ code'[rtok'[t].root] # NoCode
              /\ Within(rtok[t], rtok[t].root)'
<1>1. \A a \in access : a.root \in Codes
  BY DEF TypeInv, TypeOK, Access
<1>2. \A t \in Tokens : rtok[t] # NoToken => rtok[t].root \in Codes
  BY DEF TypeInv, TypeOK, Token
<1>3. \A a \in access : code'[a.root] # NoCode /\ Within(a, a.root)'
  BY <1>1 DEF RootsExist, TokensStayWithinGrant, RowsKept, Within
<1>4. ASSUME NEW t \in Tokens, rtok[t] # NoToken
      PROVE  /\ rtok'[t] # NoToken
             /\ code'[rtok'[t].root] # NoCode
             /\ Within(rtok[t], rtok[t].root)'
  <2> DEFINE k == rtok[t].root
  <2>1. k \in Codes /\ code[k] # NoCode /\ Within(rtok[t], k)
    BY <1>2, <1>4 DEF RootsExist, TokensStayWithinGrant
  <2>2. /\ rtok'[t] # NoToken /\ rtok'[t].root = k
        /\ rtok'[t].user = rtok[t].user /\ rtok'[t].client = rtok[t].client
        /\ rtok'[t].scope = rtok[t].scope
    BY <1>4 DEF RowsKept
  <2>3. /\ code'[k] # NoCode
        /\ code'[k].user = code[k].user /\ code'[k].client = code[k].client
        /\ code'[k].scope = code[k].scope
    BY <2>1 DEF RowsKept
  <2> QED BY <2>1, <2>2, <2>3 DEF Within
<1> QED BY <1>3, <1>4

\* Creating tokens adds an access token and perhaps a refresh token, both
\* within the grant of the request.
LEMMA CreateTokenWithin ==
  ASSUME OwnInv, RowsKept, NEW p \in Requests, CreateToken(p)
  PROVE  RootsExist' /\ TokensStayWithinGrant'
<1> DEFINE r == req[p]
           k == Root(r)
<1>1. r # Idle /\ r.pc = "create"
  BY NotIdle DEF CreateToken
<1>2. /\ code[k] # NoCode /\ Cred(r).user = code[k].user
      /\ r.client = code[k].client /\ GrantedScope(r) \subseteq code[k].scope
  BY <1>1, IssuedWithinGrant
<1>3. code' = code
  BY DEF CreateToken
<1>4. /\ \A a \in access : code'[a.root] # NoCode /\ Within(a, a.root)'
      /\ \A t \in Tokens : rtok[t] # NoToken =>
           /\ rtok'[t] # NoToken
           /\ code'[rtok'[t].root] # NoCode
           /\ Within(rtok[t], rtok[t].root)'
  BY WithinKept DEF OwnInv
<1>5. \A a \in access' : a \in access \/ \E j \in r.jti : a = AccessTokenOf(r, j)
  BY DEF CreateToken, Respond
<1>6. \/ rtok' = rtok
      \/ \E t \in Tokens : rtok[t] = NoToken /\ rtok' = [rtok EXCEPT ![t] = RefreshTokenOf(r)]
  BY DEF CreateToken, FreshTokens
<1>7. ASSUME NEW a \in access' PROVE code'[a.root] # NoCode /\ Within(a, a.root)'
  <2>1. ASSUME NEW j \in r.jti, a = AccessTokenOf(r, j)
        PROVE  code'[a.root] # NoCode /\ Within(a, a.root)'
    <3>1. /\ a.user = Cred(r).user /\ a.client = r.client /\ a.scope = GrantedScope(r)
          /\ a.root = k
      BY <2>1 DEF AccessTokenOf
    <3> HIDE DEF r, k
    <3> QED BY <1>2, <1>3, <3>1 DEF Within
  <2> QED BY <1>4, <1>5, <1>7, <2>1
<1>8. ASSUME NEW t \in Tokens, rtok'[t] # NoToken
      PROVE  code'[rtok'[t].root] # NoCode /\ Within(rtok[t], rtok[t].root)'
  <2>1. CASE rtok[t] # NoToken
    BY <1>4, <2>1
  <2>2. CASE rtok[t] = NoToken
    <3>1. rtok'[t] = RefreshTokenOf(r)
      BY <1>6, <1>8, <2>2 DEF OwnInv, TypeInv, TypeOK
    <3>2. /\ rtok'[t].user = Cred(r).user /\ rtok'[t].client = r.client
          /\ rtok'[t].scope = GrantedScope(r) /\ rtok'[t].root = k
      BY <3>1 DEF RefreshTokenOf
    <3> HIDE DEF r, k
    <3> QED BY <1>2, <1>3, <3>2 DEF Within
  <2> QED BY <2>1, <2>2
<1> QED BY <1>7, <1>8 DEF RootsExist, TokensStayWithinGrant

\* A step that hands out nothing keeps what was handed out within its grant.
LEMMA NothingAddedWithin ==
  ASSUME OwnInv, RowsKept, access' = access,
         \A t \in Tokens : rtok[t] = NoToken => rtok'[t] = NoToken
  PROVE  RootsExist' /\ TokensStayWithinGrant'
<1>1. /\ \A a \in access : code'[a.root] # NoCode /\ Within(a, a.root)'
      /\ \A t \in Tokens : rtok[t] # NoToken =>
           /\ rtok'[t] # NoToken
           /\ code'[rtok'[t].root] # NoCode
           /\ Within(rtok[t], rtok[t].root)'
  BY WithinKept DEF OwnInv
<1> QED BY <1>1 DEF RootsExist, TokensStayWithinGrant

\* Every step keeps requests entitled and tokens within their grant.
LEMMA NextOwn == OwnInv /\ [Next]_vars => OwnInv'
<1> SUFFICES ASSUME OwnInv, [Next]_vars PROVE OwnInv'
  OBVIOUS
<1>0. TypeInv /\ TypeInv' /\ RowsKept
  BY NextType, StepKeepsRows DEF OwnInv
<1>1. \A q \in Requests : Entitled(q)'
  <2> SUFFICES ASSUME NEW q \in Requests PROVE Entitled(q)'
    OBVIOUS
  <2>1. ASSUME NEW p \in Requests, Start(p) \/ Progress(p) \/ Fail(p) PROVE Entitled(q)'
    <3>1. q = p \/ req'[q] = req[q]
      BY <1>0, <2>1, OneMoves
    <3> QED BY <1>0, <2>1, <3>1, StepEntitled, RestKeepsEntitled DEF OwnInv
  <2>2. CASE Administration \/ Maintenance \/ Tick
    BY <1>0, <2>2, OutsideLeavesRequests, RestKeepsEntitled DEF OwnInv
  <2>3. ASSUME NEW k \in Codes, NEW u \in Users, NEW c \in Clients,
               NEW s \in SUBSET Scopes \ {{}}, IssueCode(k, u, c, s)
        PROVE  Entitled(q)'
    BY <1>0, <2>3, RestKeepsEntitled DEF OwnInv, IssueCode
  <2>4. CASE UNCHANGED vars
    BY <1>0, <2>4, RestKeepsEntitled DEF OwnInv, vars
  <2> QED BY <2>1, <2>2, <2>3, <2>4 DEF Next
<1>2. RootsExist' /\ TokensStayWithinGrant'
  <2>1. CASE Quiet
    <3>1. access' = access
      <4>1. ASSUME NEW p \in Requests,
                   \/ Start(p) \/ GetByCode(p) \/ GetToken(p) \/ GetUser(p) \/ MarkUsed(p)
                   \/ Rotate(p) \/ Sign(p) \/ ListTokens(p) \/ RevokeNext(p)
                   \/ RevokeBefore(p) \/ Finish(p) \/ Fail(p)
            PROVE  access' = access
        BY <4>1 DEF Start, BeginCode, BeginRefresh, Begin, GetByCode, GetToken, GetUser,
           MarkUsed, Rotate, Sign, ListTokens, RevokeNext, RevokeBefore, Finish, Fail
      <4> QED BY <2>1, <4>1, OutsideLeavesRequests DEF Quiet
    <3>2. \A t \in Tokens : rtok[t] = NoToken => rtok'[t] = NoToken
      BY <1>0, <2>1, QuietAges DEF AgeingStep, TokensAge
    <3> QED BY <1>0, <3>1, <3>2, NothingAddedWithin
  <2>2. ASSUME NEW p \in Requests, CreateToken(p) PROVE RootsExist' /\ TokensStayWithinGrant'
    BY <1>0, <2>2, CreateTokenWithin
  <2>3. ASSUME NEW k \in Codes, NEW u \in Users, NEW c \in Clients,
               NEW s \in SUBSET Scopes \ {{}}, IssueCode(k, u, c, s)
        PROVE  RootsExist' /\ TokensStayWithinGrant'
    BY <1>0, <2>3, NothingAddedWithin DEF IssueCode
  <2>4. CASE UNCHANGED vars
    BY <1>0, <2>4, NothingAddedWithin DEF vars, tables
  <2> QED BY <2>1, <2>2, <2>3, <2>4, NextCases
<1> QED BY <1>0, <1>1, <1>2 DEF OwnInv

\* The invariant behind both theorems: requests past their checks work on a
\* credential of their own client, and tokens stay within their grant.
THEOREM OwnInvariant == Spec => []OwnInv
<1>1. Init => OwnInv
  <2> SUFFICES ASSUME Init PROVE OwnInv
    OBVIOUS
  <2>1. \A p \in Requests : Entitled(p)
    BY DEF Init, Entitled
  <2>2. RootsExist /\ TokensStayWithinGrant
    BY DEF Init, RootsExist, TokensStayWithinGrant
  <2> QED BY <2>1, <2>2, InitType DEF OwnInv
<1> QED BY <1>1, NextOwn, PTL DEF Spec

\* However often a grant is refreshed and narrowed, its tokens belong to the
\* user and the client its code was issued for and carry no scope the code did
\* not.  (client_id checks, scopeSubset, generateTokens)
THEOREM TokensWithinGrant == Spec => []TokensStayWithinGrant
<1>1. OwnInv => TokensStayWithinGrant
  BY DEF OwnInv
<1> QED BY <1>1, OwnInvariant, PTL

\* What one step of request q may cut off: tokens and the watermark of the
\* credential's user and the request's client.
CutsOnlyOwn(q) ==
    /\ \A t \in Tokens : LiveToken(t) /\ ~LiveToken(t)' =>
           rtok[t].client = req[q].client /\ rtok[t].user = Cred(req[q]).user
    /\ \A v \in Users, d \in Clients :
           revGrant'[v][d] # revGrant[v][d] => v = Cred(req[q]).user /\ d = req[q].client

\* Most steps of a request write neither table.
LEMMA ReadersCutNothing ==
  ASSUME NEW p \in Requests, rtok' = rtok, revGrant' = revGrant
  PROVE  CutsOnlyOwn(p)
BY DEF CutsOnlyOwn, LiveToken

\* Revoking a token of the request's own user and client.
LEMMA RevokeRowCutsOwn ==
  ASSUME TypeInv, NEW p \in Requests, req[p] # Idle, NEW t \in Tokens, RevokeRow(t),
         rtok[t] # NoToken, rtok[t].user = Cred(req[p]).user, rtok[t].client = req[p].client
  PROVE  CutsOnlyOwn(p)
<1>1. \A s \in Tokens : s # t => rtok'[s] = rtok[s]
  BY DEF RevokeRow, TypeInv, TypeOK
<1>2. rtok[t].user \in Users /\ rtok[t].client \in Clients
  BY DEF TypeInv, TypeOK, Token
<1>3. \A v \in Users, d \in Clients :
         revGrant'[v][d] # revGrant[v][d] => v = rtok[t].user /\ d = rtok[t].client
  BY <1>2 DEF RevokeRow, TypeInv, TypeOK
<1> QED BY <1>1, <1>3 DEF CutsOnlyOwn, LiveToken

\* The writing steps of a request stay within its user and client.
LEMMA StepCutsOwn ==
  ASSUME OwnInv, NEW p \in Requests, req[p] # Idle, Start(p) \/ Progress(p) \/ Fail(p)
  PROVE  CutsOnlyOwn(p)
<1>0. TypeInv /\ Entitled(p) /\ req[p] \in Request
  BY RequestType DEF OwnInv
<1>1. CASE \/ Start(p) \/ GetByCode(p) \/ GetToken(p) \/ GetUser(p) \/ MarkUsed(p) \/ Sign(p)
           \/ ListTokens(p) \/ Finish(p) \/ Fail(p)
  <2>1. rtok' = rtok /\ revGrant' = revGrant
    BY <1>1 DEF Start, BeginCode, BeginRefresh, Begin, GetByCode, GetToken, GetUser,
       MarkUsed, Sign, ListTokens, Finish, Fail, tables, revRows
  <2> QED BY <2>1, ReadersCutNothing
<1>2. CASE Rotate(p)
  <2> DEFINE t == req[p].cred
  <2>1. Cred(req[p]) = rtok[t] /\ rtok[t].client = req[p].client
    BY <1>0, <1>2 DEF Rotate, Cred, Entitled
  <2>2. revGrant' = revGrant
    BY <1>2 DEF Rotate, revRows
  <2>3. \A s \in Tokens : s # t => rtok'[s] = rtok[s]
    BY <1>0, <1>2 DEF Rotate, TypeInv, TypeOK
  <2> QED BY <2>1, <2>2, <2>3 DEF CutsOnlyOwn, LiveToken
<1>3. CASE CreateToken(p)
  <2>1. revGrant' = revGrant
    BY <1>3 DEF CreateToken, revRows
  <2>2. \/ rtok' = rtok
        \/ \E t \in Tokens : rtok[t] = NoToken /\ rtok' = [rtok EXCEPT ![t] = RefreshTokenOf(req[p])]
    BY <1>3 DEF CreateToken, FreshTokens
  <2>3. \A s \in Tokens : rtok[s] # NoToken => rtok'[s] = rtok[s]
    BY <1>0, <2>2 DEF TypeInv, TypeOK
  <2> QED BY <2>1, <2>3 DEF CutsOnlyOwn, LiveToken, NoToken
<1>4. CASE RevokeNext(p)
  <2>1. ASSUME NEW t \in req[p].todo, RevokeRow(t) PROVE CutsOnlyOwn(p)
    <3>1. req[p].pc = "revoke" /\ t \in Tokens
      BY <1>0, <1>4 DEF RevokeNext, Request
    <3>2. rtok[t] # NoToken /\ rtok[t].user = Cred(req[p]).user /\ rtok[t].client = req[p].client
      BY <1>0, <3>1 DEF Entitled
    <3> QED BY <1>0, <2>1, <3>1, <3>2, RevokeRowCutsOwn
  <2> QED BY <1>4, <2>1, ReadersCutNothing DEF RevokeNext, RevokeListed
<1>5. CASE RevokeBefore(p)
  <2> DEFINE u == Cred(req[p]).user
             c == Cred(req[p]).client
  <2>1. c = req[p].client
    BY <1>0, <1>5 DEF RevokeBefore, Entitled
  <2>2. u \in Users /\ c \in Clients
    BY <1>0, RequestType
  <2>3. rtok' = rtok /\ revGrant' = [revGrant EXCEPT ![u][c] = Watermark(@)]
    BY <1>5 DEF RevokeBefore, GrantWatermark, tables
  <2> HIDE DEF u, c
  <2>4. \A v \in Users, d \in Clients : revGrant'[v][d] # revGrant[v][d] => v = u /\ d = c
    BY <1>0, <2>2, <2>3 DEF TypeInv, TypeOK
  <2> QED BY <2>1, <2>3, <2>4 DEF CutsOnlyOwn, LiveToken, u
<1> QED BY <1>1, <1>2, <1>3, <1>4, <1>5 DEF Progress

\* A request cuts off nothing but the grant of the user and the client its
\* credential was issued to, and only when its own client is that client.
\* (the client_id checks before the reuse checks, revokeGrant)
THEOREM OnlyOwnGrantCut == Spec => RequestsCutOnlyOwnGrant
<1> DEFINE Step == \A p \in Requests :
                     req[p] # Idle /\ req'[p] # req[p] =>
                        LET c == req[p].client  u == Cred(req[p]).user
                        IN  /\ \A t \in Tokens : LiveToken(t) /\ ~LiveToken(t)' =>
                                   rtok[t].client = c /\ rtok[t].user = u
                            /\ \A v \in Users, d \in Clients :
                                   revGrant'[v][d] # revGrant[v][d] => v = u /\ d = c
<1>1. OwnInv /\ [Next]_vars => [Step]_vars
  <2> SUFFICES ASSUME OwnInv, Next, NEW q \in Requests, req[q] # Idle, req'[q] # req[q]
               PROVE  CutsOnlyOwn(q)
    BY DEF CutsOnlyOwn
  <2>1. ASSUME NEW p \in Requests, Start(p) \/ Progress(p) \/ Fail(p) PROVE CutsOnlyOwn(q)
    <3>1. p = q
      BY <2>1, OneMoves DEF OwnInv
    <3> QED BY <2>1, <3>1, StepCutsOwn
  <2>2. ~(Administration \/ Maintenance \/ Tick)
    BY OutsideLeavesRequests
  <2>3. \A k \in Codes, u \in Users, c \in Clients, s \in SUBSET Scopes \ {{}} :
           ~IssueCode(k, u, c, s)
    BY DEF IssueCode
  <2> QED BY <2>1, <2>2, <2>3 DEF Next
<1> QED BY <1>1, OwnInvariant, PTL DEF Spec, RequestsCutOnlyOwnGrant
=============================================================================
