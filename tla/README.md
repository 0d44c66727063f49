# A TLA+ verification of idpico

idpico is a small OpenID Connect provider: one Go binary (`cmd/idpico`), a
command-line tool that opens the same store (`cmd/idpicoctl`), and SQLite or
JSON files underneath. This directory holds TLA+ models of its core, the TLC
configurations that check them, and TLAPS proofs of the most important results.
Paths below are relative to the repository.

## 1. The system

| Part | State it keeps | Operations | What is hard about it |
|---|---|---|---|
| Token endpoint (`internal/oidc/token.go`) | none of its own; uses codes, refresh tokens, revocations | exchange a code, refresh with rotation, revoke, introspect | several store calls per request, and any other request in between |
| Token, code and revocation tables (`internal/store/sqlite`) | `auth_codes`, `tokens`, `token_revocations` | conditional updates, watermarks, purges | what one transaction covers; purging against lifetimes |
| Signing keys (`internal/crypto/service.go`) | `signing_keys`, a cached active key per process | ensure, rotate, clean up, sign, verify | several processes, a mutex for only one of them, stale caches |
| Maintenance (`internal/maintenance`) | none | purge expired rows, rotate and clean up keys | runs beside everything else |
| Admin console, account page (`internal/http`) | none | disable and delete users, change clients, revoke | two or more store calls per handler, some of whose errors are only logged |
| Login, sessions, lockout (`internal/auth`) | `sessions`, failure counters in memory | sign in, sign out, lock | check and record are separate; sessions against password changes |
| Second factor, passkeys (`internal/auth`) | pending logins in memory, TOTP step and recovery codes in the user row, `passkeys` | challenge, verify, enrol, reset | whole-row updates, attempt limits, replay |
| Account links (`internal/auth/account.go`) | `verification_tokens` | send, consume, reset the password | read, then mark used |
| Authorize and consent (`internal/oidc`) | `consents` | validate, ask, grant, issue a code | read, unite, write; withdrawal against codes under way |
| Client and user rows | `clients`, `users` | whole-row updates by many handlers | lost updates |
| File store (`internal/store/file`) | JSON files | the same interface | load, modify, save; no transaction over two files |
| Groups (`internal/oidc`, console) | `groups`, memberships | create, rename, delete, change memberships one by one | a form applied in several statements |
| Logout, CSRF (`internal/oidc/logout.go`, `internal/auth/csrf.go`) | one cookie per browser | end the session, check a form | tabs share the cookie |
| Userinfo, discovery, pages, audit, mail, metrics, configuration | little or none | mostly reading and output | — |

A browser goes through login and consent to `/authorize`, which inserts a code;
the client exchanges it at `/token` for an access token (a signed JWT that the
server does not store) and, with `offline_access`, a refresh token. Every
refresh consumes the refresh token and creates another. What a client may hold
is cut short in two ways: a refresh token is marked revoked, and a row of
`token_revocations` refuses access tokens issued up to its time. The console,
the account page, password changes and the detection of reuse all end in those
two writes. Signing keys rotate underneath all of it.

`PROJECT.json` lists every part with its status, and under `hazards` the places
where this code is hard to test.

## 2. Modules

| Module | What it is |
|---|---|
| `TokenGrants` | the token endpoint, its tables, and everything else that writes to them |
| `GrantLifecycle` | what the endpoint promises about one grant, abstractly |
| `MCTokenGrants` | values of the constants for TLC |
| `MCTokenScenarios` | three situations of the token endpoint that TLC looks at in one run |
| `TokenGrantsProofs` | proof of the type invariant; what every step does to the tables |
| `TokenGrantsSafety` | proofs that a grant never forks, a credential is redeemed once, `GrantLifecycle` is implemented, and requests stay within their own grant |
| `TokenGrantsRevocation` | proofs that a revoked access token stays revoked and a reported cut-off is real |
| `SigningKeys` | startup, rotation, caching, cleanup, signing and verifying |
| `MCSigningKeys` | one server with two threads and idpicoctl, for TLC |
| `SignIn` | password, lockout, pending logins, second step, passkeys, and the pages that change them |
| `AccountLinks` | reset and verification links, password changes, sign-outs, the user row's life |
| `Registry` | the client row and the user's groups, as administrators and the token endpoint change them |
| `Authorization` | `/authorize`, `/login`, `/consent`, withdrawal and logout in the tabs of one browser; extends `Registry` |
| `FileStore` | the JSON backend under concurrent calls, failed writes and crashes |
| `MCSignIn`, `MCAccountLinks`, `MCAuthorization`, `MCFileStore` | their scenarios for TLC |
| `SigningKeysProofs`, `SignInProofs`, `AccountLinksProofs`, `FileStoreProofs`, `AuthorizationProofs` | proofs of the type invariant and the safety properties of these modules |

### TokenGrants

*Atomicity.* Every repository call is one SQL statement or one transaction on a
single connection (`store.go` opens SQLite with one), so it is one step,
together with the local code that follows it. A request is a process with a
program counter that names its next repository call:

| pc | call | next |
|---|---|---|
| `credential` | `GetByCode` / `GetByID` and the checks after it | `claim` (code), `user` (refresh), `list` (reuse), or an answer |
| `user` | `users.GetByID`, `Active`; for a refresh also `scopeSubset` | `sign` or `claim` |
| `claim` | `MarkUsed` / `Rotate`, a conditional update | `user` (code), `sign` (refresh), `list` when somebody else was first |
| `sign` | `generateTokens` up to the signed access token | `create` |
| `create` | `tokens.Create` if a refresh token is due, then the response | answer |
| `list`, `revoke` | `revokeGrant`: list, revoke one by one, watermark | answer |

An exchange consumes the code *before* it looks the user up, a refresh looks the
user up *before* it consumes the token, as in the code. `Fail` is a store or
signing error, or the server stopping, at any step: what was written stays.

*State.* `code` and `rtok` are the two tables; a deleted row keeps its fields
with `st = "gone"`, because the properties speak of a token's origin. `access`
is the set of access tokens handed out, which the server does not store.
`from` and `root` (the credential a token was issued for and the code its grant
began with) are history: no guard reads them. `revUser`, `revGrant`,
`revClient` and `revJti` are the four kinds of `token_revocations`.

*Environment.* `IssueCode` stands for the whole authorize conversation. The
console's two-step handlers are two actions with the handler's progress in the
user or client row's `job`/`deleting` field (one such handler per row at a
time). The maintenance runner's purges may happen at any time. Time is a
counter; `IsExpired` is strict and the purges are not, as in the code.

*Abstraction.* Secrets, redirect URIs and PKCE are one Boolean of the request
(`match`); a request that fails client authentication changes nothing and is not
started. Scopes are sets. Signatures are good; `SigningKeys` is about that.
The issue time of an access token has the resolution of the clock, as the
server's UUIDv7 ids give it.

### SigningKeys

Threads belong to processes; the threads of a process share the mutex and the
cache of their `KeyService`, processes share only the table. `thread[t].pc`
names the next repository call of `EnsureActiveKey`, `RotateKey` or
`CleanupExpiredKeys`; a thread between `saveOld` and `setActive`, or in
`delete`, holds the mutex. Signing takes the read lock and so waits for it.
`GetActive` may answer "none" although there is an active key: both callers
treat an error that way. `until[k]` is when the last token signed with `k`
expires. A key's age is left out, so maintenance may find a rotation due at any
time. `Latency` bounds how long a change of the keys takes, since the expiry of
the old key is computed before it is written.

`Overlap` says whether two processes may be changing keys at the same time.
Nothing in the code prevents it; with `Overlap = FALSE` the operator does.

The configuration relates no lifetime to another, and neither does the model. A
server that has the old key cached signs with it for up to `cacheTTL` (one
minute) after another process rotated it out, so a token signed then needs the
key for `TokenTTL + CacheTTL + Latency`. `Shortfall` is what the grace period
lacks of that, and `SignedTokensVerify` says that a token verifies until it
expires, less the shortfall. With the defaults (24 h against 5 min and 1 min)
the shortfall is 0; with a grace period that only covers the token lifetime,
which `README.md:591` says is enough, it is not (section 6).

Maintenance with rotation on asks for the active key first and stops when there
is none; with rotation off it cleans up without asking (`Maintain`).

### SignIn

One account. `db` is what is stored (the columns of the user row that signing in
uses, the passkeys, the sessions), `mem` what the process keeps (the lockout
entry, pending logins with their attempts and challenge, a registration
ceremony, the mutex of `lockUser`). A request is a record whose `pc` names its
next access to one of them; `row` is the copy of the user row it works on and
`base` the row it read, so that `SaveUser` writes the whole copy back as
`users.Update` does. `consumeSecondFactor` is the code between `lockUser` and its
unlock: read (`lockUser`), then check and write. The handlers of the account
page (`TwoStepForm`, `PasskeyForm`), `ResetSecondFactors` and the user form do
not take that mutex around their own write, and neither does the model.

Random values (session tokens, TOTP secrets, sets of recovery codes,
challenges, pending-login cookies) are the id of the request that draws them. A
password is right or wrong; a TOTP code is its secret and time step, and
`VerifyTOTP` has the real window and last-step rule; codes of the neighbouring
time steps are typed too (`Near`). The secret of a setup travels in the form, so
`EnableTOTP` meets the secret drawn for it or, when an older form is sent again,
one that has been in use (`SetupCodes`), and it checks the code against last
step 0 as the code does; `log.again` remembers such secrets. An assertion names the
challenge and the passkey it was signed with. `RecordSuccess` and the insertion
of the session are one step. `held`, `checked`, `guesses` and the rest of `log`
are history. A behaviour may start (`ScenariosAssumption`) from any account with
or without an app, a passkey and a password entered already.

### AccountLinks

One account again, this time its existence, state, password, address, links,
sessions and refresh tokens. A request runs its statements in the order of the
handler; `Following` is that order for all password changes, sign-outs and the
deletion. `EndSessions` and `RevokeTokens` may fail: the handlers log that and
go on, and so does the request, with `failed` set. The throttle records its time
before the links are replaced and the mail leaves (`Throttle`); `log.mailed` is
what left, and when the process started is `log.since`, because a restart forgets
the throttle. `usersUpdate` writes the
whole row in hand. Inserts need the user's row (foreign keys). A session
remembers the password it was opened with, which only the properties read.
`Authenticate` stands for all of `SignIn` up to the accepted credentials;
`CreateSession` for the insert.

### Registry and Authorization

`Registry` has one client row, at most a few groups, and operators: console
handlers, idpicoctl commands and token requests that hash a secret stored in
clear. All of them read a row and write it back whole later. Secrets are numbers
in the order they were generated.

`Authorization` adds a browser. A tab shows a page or waits for a request; tabs
share the session cookie and the CSRF cookie, so a form shown in one tab
invalidates the form of another, as in `csrf.go`. A request carries the cookie
it was sent with. `Sent` starts a request afresh: the redirect to `/login` and
back is a new request with the parameters the return URL carries
(`withoutPrompt`), and the answer of the consent form is validated anew.
GET `/authorize` takes every error of `CurrentSession` for "not signed in":
no session (`LoginRequired`), and a session or user that could not be read
(`SessionUnread`, at most `scenario.faults` times). In both cases it strips prompt
and max_age and does not call `Logout`. `DisableUser` has the console's three
statements (row, sessions, tokens), of which the last two may fail, and
`EnableUser` may come in between.
`RevokeConsent` deletes the consent, lists the tokens, and revokes them one by
one, ignoring failures. Of an authorization request the model keeps prompt,
max_age, scopes, redirect URI, whether it has PKCE, and `valid` for all checks
that need nothing but the request. `Redeem` is the only trace of the token
endpoint; the rest is `TokenGrants`.

A behaviour starts from a scenario (`ScenariosAssumption`): any client row whose
secret is the first one or none, any consent, and a user who is signed in or not.
`RegistryAssumption` says what the client form accepts: three flags that are on or
off, and lists of URIs and scopes that are not empty.

### FileStore

Every file is a set of rows with a key, an owner, a tag (the client of a token,
the purpose of a link), one flag and one time. The
operators `usersOp` ... `keysOp` are what each changing method computes from the rows
it loaded; a call loads (`readFile`), truncates and writes (`Truncate`, `Fill`).
The store's mutex covers the load or the write, `consume` covers both but only for
`MarkUsed` of a code and `Rotate`; the key repository has a mutex of its own.
A revocation goes on to write the watermark into a second file. A write may fail after the truncation
and the process may die anywhere; the file is then cut short and every later
call on it fails. Reading methods are one operation, `Get`. `Create` does not
look for the key of a code, token or session, which is drawn at random: such a
call starts only with a key not drawn before (`log.drawn`). `ScenariosAssumption`
says that calls are calls of the repositories' methods and that no two stored
tokens have one id.

## 3. Runs

| Run | Expect | What it shows |
|---|---|---|
| `tokens` | pass | two requests racing for one client's code and refresh tokens; two clients presenting each other's credentials with any scope; one request beside every administrator operation: `TypeOK`, `OneLiveTokenPerGrant`, `RedeemedOnce`, `TokensStayWithinGrant`, `ReportedCutOffIsReal`, `RequestsCutOnlyOwnGrant`, `RevocationSticks`, and `TokenGrants` implements `GrantLifecycle` (`ImplementsLifecycle`) |
| `tokens_reuse` | violation | `ReuseEndsGrant`, see below |
| `tokens_disable` | violation | `DisablingEndsEverything`, see below |
| `keys_server` | pass | a server with two threads and idpicoctl, one changing keys at a time, with errors and crashes anywhere: `TypeOK`, `SignedTokensVerify`, `ReplacedForGood` |
| `keys_overlap` | violation | `ActiveKeyIsPublished`, see below |
| `sign_in` | pass | two requests at a time sign in, guess, change or reset the second step, with restarts: `TypeOK`, `GuessesPerPasswordBounded`, `CodesWorkOnce`, `FailuresBounded`, `SecondStepNotSkipped`, `ChallengesAnsweredOnce` |
| `totp_twice` | violation | `CodesNeverTwice`, see below |
| `account_links` | pass | links, password changes, sign-outs, logins, the user form and the deletion beside each other: `TypeOK`, `EarlierLinksReplaced`, `SignOutIsReal`, `OldPasswordLockedOut`, `NoOrphans`, `ResetMailThrottled` |
| `stale_link` | violation | `VerifiedAddressWasProved`, see below |
| `authorization` | pass | two tabs and two operators: `TypeOK`, `WithdrawnAccessEnds`, `GroupFormApplied`, `WithinRegistration`, `CodeWasAllowed`, `FreshLogin`, and under fairness `FlowsEnd` |
| `file_store` | pass | two threads, a failed write or a crash: `TypeOK`, `ReadsAreWhole`, `WatermarkFollowsToken`, and under fairness `CallsEnd` |
| `file_consume` | violation | `ConsumedAtomically`, see below |

*What the properties say.*
`OneLiveTokenPerGrant`: of the refresh tokens that go back to one code at most
one is not revoked. `RedeemedOnce`: a credential is answered with tokens once.
`ReportedCutOffIsReal`: after the answer "all tokens for this client were
revoked" nothing that existed when the reuse was found is accepted any more.
`TokensStayWithinGrant`: user, client and scope of every token are those of the
code. `RequestsCutOnlyOwnGrant`: presenting somebody else's credential revokes
nothing. `RevocationSticks`: no later row and no purge revives a revoked access
token. `SignedTokensVerify`: a token verifies until it expires, less the
shortfall of the grace period (section 2).
`ReplacedForGood`: only a key just generated becomes active.

`GuessesPerPasswordBounded`: one accepted password pays for at most
`PendingLoginAttempts` checks, however they overlap. `FailuresBounded`: the
lockout limit is exceeded at most by the requests that were past `IsLocked` when
the account locked. `CodesWorkOnce`: a second acceptance of a code needs a
handler that wrote back a stale user row, or an authenticator that was set up
again with the secret it had. `SecondStepNotSkipped`: no session by
password alone while one second step was on during the whole request; if the
user swaps one for another in the middle, the login may see neither.
`ChallengesAnsweredOnce`: a challenge is taken once.

`EarlierLinksReplaced`: what `issueToken` guarantees to requests that do not
overlap it. `SignOutIsReal`: sessions and
refresh tokens found at the start of a sign-out do not work after its success.
`OldPasswordLockedOut`: a session of the old password survives a completed
change only in the two races the property names. `NoOrphans`: as named. `ResetMailThrottled`: the reset mails that have left for one
address since the start are at most one per interval, the first aside; two of
them may leave closer together, because the interval is kept at the throttle and
not where the mail leaves.

`WithinRegistration`: the browser is sent only to a URI, and a code issued only
under rules, that the client row had at some time during the request.
`CodeWasAllowed`: the code's scopes were allowed and not withdrawn when the
request began, or allowed during it; a scope beyond those is one that a grant
with an overtaken read wrote into the stored consent. `FreshLogin`: `prompt` and
`max_age` get the sign-in they ask for, through redirects and consent pages left
open, unless `/authorize` took a stored session for none (`kept`: a read that
failed, a disabled account) and the browser has not signed in since. `WithdrawnAccessEnds`: after a withdrawal that met no failure the
client's refresh tokens are dead. `GroupFormApplied`: the group form
ends with the checked memberships. `FlowsEnd`: no redirect loop while the account
is active. It sees a prompt that is kept; a kept `max_age`, the loop that
`CHANGELOG.md:51` reports as fixed, it cannot see, because the clock is bounded
and a session that no longer ages satisfies any `max_age`.

`ReadsAreWhole`: no call sees a file in the middle of a write.
`WatermarkFollowsToken`: both files of a revocation are written unless calls
overlap or a fault comes between. `CallsEnd`: no deadlock of the mutexes.

Several of these name exceptions. They are what the code really allows: each
exception was added when TLC showed the race without it, and section 6 lists the
races.

*Refinement.* `GrantLifecycle` has one variable, the phase of each grant:
`unborn`, `held` (the unused code or one live refresh token is stored), `taken`
(one request consumed it and has not answered), `ended`. The mapping
(`GrantPhase`) reads it off the tables and the requests. The abstract
specification allows no step from `ended`, and no step that leaves a grant both
held and taken: a second redemption, or a refresh token created for a grant that
is held already, has no counterpart there.

*The six violations.*
1. `tokens_reuse`. Two requests exchange one code. The winner of `MarkUsed` has
   not reached `tokens.Create` when the loser runs `revokeGrant` and answers;
   the winner's refresh token comes later and lives, and so does its access token
   if it is signed in a later second. The comments at `token.go:214` and
   `token.go:235` say the grant is cut off.
2. `tokens_disable`. A request reads the user as active; the console disables
   the user and revokes the user's tokens; the request stores a refresh token.
   It cannot be used while the user is disabled and works again afterwards.
   `admin.go:573` says that disabling ends everything the user holds.
3. `keys_overlap`. One process has saved a new key and not yet called
   `SetActive`; another process finds that key active and retires it, with an
   expiry; the first process's `SetActive` makes it active again. The shortest
   trace has the second process fail at that point; it may also complete before
   the first one's `SetActive`, and then its own new key is left inactive without
   an expiry. After the grace
   period the active key is refused by verification and is not published,
   although `service.go:159` says the JWKS holds the active key.
4. `stale_link`. A verification link is mailed to one address, the administrator
   changes the address (which clears its verified status) and leaves the box
   unticked, then the link is followed: `VerifyEmail` verifies the address the
   row has by then. One request at a time is enough. `admin.go:526` says that
   changing the address invalidates its verified status.
5. `file_consume`. In the file store a `Create` or a purge loads the codes, a
   code is consumed under the `consume` mutex, the other call saves what it
   loaded, and the code is consumed again. `interfaces.go:45` says `MarkUsed`
   "consumes the code atomically", `interfaces.go:65` says of a rotated token that
   it is "refused from now on", and `CHANGELOG.md:42` that "consumption is now
   atomic in both stores". `OnceUnlessOverwritten` proves that this is the only way.
6. `totp_twice`. An authenticator is set up, turned off with another code, and set
   up again with the secret of the first form: `EnableTOTP` verifies against last
   step 0 and accepts the code that proved the secret the first time, while it is
   still in the window. One request at a time is enough. `README.md:367` says
   "never twice", `totp.go:72` and `types.go:23` that a code "is never accepted
   twice". `CodesOnce` proves that this and stale rows are the only ways.

*Bounds.* Ids are the only resources that run out: when no refresh-token id is
left the insert fails (a store error), when no access-token id or key is left
the request or rotation goes no further than an error. Two requests are enough
for every race over a credential, because a third meets the same row a second
has changed; two refresh tokens and three access tokens give a code exchange,
a refresh and its replay, and in the situation of two clients a refresh that
narrows the scope before the next one asks for more. `MCTokenScenarios` splits
the token endpoint into three situations (section 3, run `tokens`), because two
requests, two clients and an administrator at once are out of reach: what
crosses clients concerns what one request may do to somebody else's grant, and
what an administrator does meets one request at every step. A longer chain of
refreshes, or all of it together, is covered by the proofs. The clock has two
values in the token runs, with lifetimes of one, so that codes, tokens and rows
are seen before and at their expiry, where `IsExpired` and the purges differ; past
it a credential is refused and nothing is written.
`keys_server` runs to time 5 with a cache of 2, tokens of 2 and a grace period of
3, that is, with a shortfall of 1: a key is rotated, serves from a stale cache,
expires and is deleted within that. Two keys suffice there for a rotation and for
what a second, failing one does. Requests, tokens and keys are interchangeable
and reduced by symmetry.

The newer runs choose a *scenario* in the initial state: how the account,
client or file starts and which kinds of request the behaviour may mix. This
keeps together the requests that share state and leaves out the product of those
that do not; every kind occurs in some scenario. Two requests, tabs,
operators or threads are in progress at a time, and each finished one makes room
for the next, up to the scenario's number (three to five): enough for a request
that starts before, and one that starts after, a change made in between.
`sign_in` has limits of two attempts, one recovery code and a clock up to 4 in
TOTP periods with a window of one, so that a lock, a pending login and a code
are each seen before, at and after their end. `account_links` has two addresses
and links of lifetime 1 and 2 on a clock of three values. `authorization` has sessions of lifetime
2, forms of lifetime 1, two redirect URIs, two scope sets, and up to time 5 in
the scenario about `max_age`; a session cannot be read once in the scenarios
that allow it. `file_store` makes three calls with one fault:
two calls that overlap and one that meets the result.

*Fairness.* Nothing is assumed in the runs without a liveness property. `FileStore`
assumes weak fairness of each thread's own steps: a goroutine is scheduled, and
Go's mutexes hand over to a waiter after a millisecond of starvation; with the
bounded number of calls weak fairness suffices. `Authorization` assumes that the
server handles every request (`Serve`) and that the user acts on the page shown (`Submit`), and
strong fairness of `LoginAccepted`: two login forms invalidate each other's
cookie, and a user who for ever alternates between them, or answers too late,
never signs in. `FlowsEnd` is about redirect loops, not about that, and claims
nothing for a disabled account.

*Deadlock* is checked in the token and key runs; the maintenance runner's purge
(tokens) and the server's own steps (keys) are always possible. The newer runs
stop when their bounded number of requests and the clock have run out, so there
it is off; that no call of the file store waits for ever is `CallsEnd`.

## 4. Proofs

All proofs are for arbitrary constants that satisfy the named assumptions of
the module: any number of users, clients, credentials, requests, threads,
processes, keys and addresses, and any limits and lifetimes. The assumptions
say that the sets the model counts are finite, that numbers are numbers, and,
where the configuration enforces it, how lifetimes relate: `MaxAccessTTL <=
Retention` (`LifetimesAssumption`). The lifetimes of keys, caches and tokens are
any numbers (`TimesAssumption`). The
bounds on ids, calls and the clock are natural numbers of any size. TLC evaluates
every assumption on the instances of the runs.

None of the properties is inductive by itself. Each proof names the invariant
that is, and TLC checked it on the instances of the run before it was
proved. A proof first says what every action does to the state (`...Facts`, or
`TablesKept`, `Moves`, `Ends` and the like), and then shows, part by part, that
the invariant survives it.

**Token endpoint** (`TokenGrantsProofs`, `TokenGrantsSafety`,
`TokenGrantsRevocation`)

* `TypeCorrect` (`Spec => []TypeOK`). `TypeInv` adds `CredentialsExist`: the
  credential of a request under way is one that was issued; without it the row
  the request reads has no fields. The same lemmas show that all steps but
  `IssueCode`, `MarkUsed`, `Rotate` and `CreateToken` only let rows age
  (`CodesAge`, `TokensAge`), which the other proofs cite.
* `GrantsNeverFork` (`Spec => []OneLiveTokenPerGrant`). A live refresh token
  beside a request that has already consumed the code satisfies the property
  and loses it in the next step. `Baton` says the right to continue a grant is
  in at most one of three places: the unused code, one claiming request, one
  live refresh token.
* `CredentialsRedeemedOnce` (`Spec => []RedeemedOnce`). `Spent`: whatever was
  answered with tokens is consumed, and so is the credential of every claiming
  request, which nobody was answered for yet. `JtisUnique`: no two access tokens,
  handed out or only signed, share an id.
* `LifecycleImplemented` (`Spec => ImplementsLifecycle`), the refinement. `Baton`
  gives every grant exactly one phase (`PhasesApart`). `Init` maps to the
  abstract `Init`; a step that lets rows age can only end grants; `IssueCode`
  creates one, `MarkUsed` and `Rotate` take the one they consume, `CreateToken`
  gives it back, and each leaves the phase of every other grant alone.
* `TokensWithinGrant` (`Spec => []TokensStayWithinGrant`) and `OnlyOwnGrantCut`
  (`Spec => RequestsCutOnlyOwnGrant`). `OwnInv` adds `Entitled`: a request past
  its checks is the client its credential was issued to, wants no more than the
  credential's scope, and has on its list only tokens of that user and client.
* `RevokedStaysRevoked` (`Spec => RevocationSticks`). `RowsOutlive`: a watermark
  lives `Retention` past its time, a jti row until its token expires, and no
  access token lives longer than `MaxAccessTTL`; so a row that may be purged
  covers no token that is still alive.
* `CutOffIsReal` (`Spec => []ReportedCutOffIsReal`). `CutInv` adds that no access
  token was issued in the future (`ClockPast`), so that a watermark written now
  covers all of them, and that the refresh tokens a request saw when it found
  the reuse are still to be revoked by it, or dead (`SeenTokens`, `SeenAccess`).

**Signing keys** (`SigningKeysProofs`). `TypeCorrect` is unconditional.
`TokensVerify` (`SignedTokensVerify`), `ReplacedKeysStayReplaced`
(`ReplacedForGood`) and `ActiveKeyPublished` assume `~Overlap`; without it run
`keys_overlap` refutes the last one. `KeyInv`: a retired key outlives the tokens
signed with it, less the shortfall of the grace period (`KeysOutlive`), and every
token that can still be signed from a cache, likewise (`CachesOutlived`); a change of the keys is not late and works on the
active key (`ChangesInOrder`); one thread makes it (`OneWriter`).

**Signing in** (`SignInProofs`). `SignInInv` has one part per property and three
they share: `Shapes`; `Drawn` (ids are drawn in order, each request has its own,
and which kinds of request reach which step); `MutexHeld`.
* `GuessesBounded`: `Reservations` counts, for each pending login, the checks made
  plus the requests that reserved an attempt and have not checked yet; while the
  login is live they are at most its attempts, and always at most the limit.
* `FailuresLimited`: `Failures`. Once the account is locked, only the requests
  past `IsLocked` (`MayFail`) can fail, and failures so far plus those requests
  stay within `MaxAttempts + |Requests| - 1`.
* `CodesOnce`: `Spent`. As long as no row was written over a newer one, neither
  the stored row nor the row of the request inside the mutex accepts a code
  accepted before, except codes of a secret that was set up again
  (`log.again`). A handler that enrols an app or draws new recovery codes writes
  without the mutex; what it draws is unknown to everybody until it saves
  (`Secrets`, `Without`), a secret that its form brings was used before, and the
  rest of its row comes from the row it read (`Edited`, `RowMade`).
* `SecondStepKept`: `FactorsHeld`. What a request has seen on throughout is on,
  and the row that decided about the app has it.
* `ChallengesOnce`: `Challenges`. A challenge is offered by one pending login,
  held by one submission, or answered: no two of these.

**Account links** (`AccountLinksProofs`). `AccountInv`: ids are apart; the
requests the throttle let pass, whether their mail has left or not (`Owed`), fit
between the start and the last time the throttle recorded (`MailsRecorded`, for
`MailsThrottled`: the mails that left are some of them); a link followed is
marked and one to be issued is not there yet (`UsedMarked`, for
`UsedLinksRefused`); the links a new one replaces are gone when it is stored
(`Replacing`, for `LinksReplaced`); a session to be opened was seen by nobody, and
those a sign-out is through with stay ended (`SignedOut`, for `SignOutsAreReal`);
the stored password, logins under way and sessions have a replaced password only
with one of the two excuses (`LockedOut`, for `OldPasswordsLockedOut`).
`RowsGoWithUser` is `NoOrphans`, which is inductive beside the shapes.

**File store** (`FileStoreProofs`). `StoreInv`: who holds a mutex is at the step
it covers (`Mutexes`), and a file cut short is being written unless there was a
fault (`TornIsWritten`), which gives `WholeReads`. For the other three
(`OnceUnlessOverwritten`, `RevokedForGood`, `WatermarksFollow`), `RecordInv` ties
files and calls under way to the history: keys were drawn before they are
stored (`KeysDrawn`); the rows a call is about to write derive from the rows it
read (`WritesDerived`, `UpsertKeeps`); a file being written is empty on disk
(`Emptied`); a consumed or revoked row is marked unless somebody
wrote older rows back (`TwiceIsOnce`, `ConsumedMarked`, `RevokedMarked`); and the
watermark that belongs to a revocation is on file or on its way
(`WatermarkOnItsWay`).

**Authorization and registry** (`AuthorizationProofs`). A request or an operation
uses what it read some steps ago; the parts of `AuthorizationInv` say what is still
true of it. `RegistryInv` is about operators, `TabInv` about the browser; every
operator's step keeps the second and every tab's step the first.
* `ReplacedSecretsStayDead`: `Secrets`. A row about to be saved carries a dead
  secret only if that secret is in `held`, that is, somebody had it in hand when
  it was replaced.
* `GroupFormsApplied`: `Memberships`. The form lists all groups, then the user's,
  then changes one membership at a time; at each of these steps the groups it is
  through with are as they were checked, unless somebody else touched them.
  `GroupNumbers` keeps the id of a deleted group from coming back.
* `ConsentKeptAsAllowed`: `Merged`. A grant under way that no other write overtook
  is about to write the row plus its own scopes.
* `WithdrawalEndsAccess`: `Issued` (an id is in one place: a tab, a code, or a
  token) and `Listed` (every live token a withdrawal found and did not fail on is
  still on its list).
* `RedirectsWithinRegistration`: `Registered`. A validated request fits a row the
  client has had since the request was sent; lemma `Leaves` says by which steps a
  tab is sent to the client.
* `CodesWereAllowed`: `Allowed`. A tab's history has every scope allowed now, and
  apart from these (`raced`) every scope an overtaken grant wrote into the row, so
  what `CheckConsent` finds, or a grant writes, is in one of them.
* `LoginsAreFresh`: `Signed`. The login page strips `prompt` from the return URL,
  so the request that comes back no longer says what was asked. Unless the
  session was kept (`kept`), it finds no live session older than the tab's first
  request, and so the stripped request and the first one are answered alike.
  `Times` keeps the times in order.

*Only model-checked.* `FlowsEnd` and `CallsEnd`: liveness under fairness is out of
the prover's reach. Every other property of a passing run is also a theorem. The
six properties of the violation runs are false.

*Only proved.* `UsedLinksRefused`, `ConsentKeptAsAllowed`,
`ReplacedSecretsStayDead`, `OnceUnlessOverwritten`, `RevokedForGood`: each says
how far the code keeps a promise that it does not keep in full, and is to be read
with the entry of section 6 or the violation run it belongs to.

## 5. Not modelled

* Configuration, wiring, routing, middleware and rate limiting: no decision of
  the models reads their state; the limits the configuration enforces are the
  modules' assumptions.
* Pages, discovery, the JWKS and health documents, the playground (a demonstration client), mail
  text, audit and metrics: output. Userinfo: it reads a token and a row.
* Opening the store, migrations, backup: file handling. The WebAuthn, JWT,
  password-hashing and SQLite libraries are external.
* `store/storetest`: the test suite both stores run against.
* `Store.SigningKeys()` of both stores, which only tests use: the server and
  idpicoctl take the keys from `keys.go`.
* The administrator flag (two administrators who demote each other), profile
  fields, the sign counter of a passkey, the timer of the maintenance runner.
* A second process on the file store: the repository's README says to stop the
  server first. Clocks of different processes are one clock.

`PROJECT.json` says of every component what is left out.

## 6. Races the models show

The models do what the code does, so the properties name the exceptions below.
Several of them contradict a line of the repository. Six of the contradictions are
violation runs (section 3); the others are stated here, with the line, and in the
note of their hazard in `PROJECT.json`. For those marked with a theorem, the proof
shows that the race described is the only way to the state.

*Against a line of the repository*

| Line | What it says | What the code allows |
|---|---|---|
| `internal/http/admin.go:1218`, `templates/admin/client_form.html:95` | "the previous secret no longer works"; regenerating "invalidates the old one immediately" | `UpdateClient`, a command or a token request that hashes a secret stored in clear reads the client row before the secret is regenerated and writes it back afterwards: the old secret works again. Theorem `ReplacedSecretsStayDead` |
| `README.md:367`, `totp.go:72`, `types.go:23` | a code is accepted "never twice" | run `totp_twice`; and a handler of the account page or the console that saves a user row read before the use brings a used TOTP step, or a used recovery code, back. Theorem `CodesOnce` |
| `README.md:562`, `account.go:28`, `types.go:146`, `interfaces.go:123` | links are single-use | two requests that read one link before either marks it used both go on (`consumeToken`); the last password wins. Theorem `UsedLinksRefused`: later requests are refused |
| `README.md:264` | the JSON backend applies the same rule of unique addresses | `Create` of the file store checks the address, `Update` does not (`usersOp`) |
| `internal/oidc/consent.go:40` | "a narrower request never revokes a wider one" | two consent forms answered at once keep one grant. Theorem `ConsentKeptAsAllowed` |
| `internal/http/account_page.go:270` | a withdrawal "takes effect at once" | a grant that read the consent before the withdrawal writes the withdrawn scopes back (same theorem); the refresh token of a code or a refresh under way when the withdrawal lists the tokens survives |
| `interfaces.go:45`, `interfaces.go:65`, `CHANGELOG.md:42` | consumption is atomic in both stores, a rotated token refused from then on | run `file_consume`. Theorems `OnceUnlessOverwritten`, `RevokedForGood` |
| `README.md:591` | the grace period "only needs to cover the access/ID token TTL" | with a grace period equal to the token lifetime, a token that a server signed from its cache after another process rotated the key is refused up to `cacheTTL` before it expires (with `Grace = TokenTTL = 2` and `CacheTTL = 3` TLC refutes the form of `SignedTokensVerify` without `Shortfall`). Theorem `TokensVerify` gives the exact bound |
| `README.md:355` | "at most one email per" interval to the same mailbox | the interval is kept when the request passes the throttle, and the mail leaves later: two mails can leave closer together. A restart forgets the throttle. Theorem `MailsThrottled` bounds their number |
| `README.md:527` | `prompt=login` drops the current session and re-authenticates | if the session cannot be read, `/authorize` strips the prompt and keeps the session, `/login` finds it valid and sends the browser back, and the request gets a code for the old sign-in (`oidc.go:88-105`, `login.go:46`). A disabled account that is enabled again while its session was not deleted leads to the same. Theorem `LoginsAreFresh` |

*Against no line we know of*

* A login that has checked the old password stores its session after the password
  change ended the sessions. A save of the user form, or `VerifyEmail`, that read
  the row before a password change and writes it after brings the old password
  back. (`UpdateUser` and `UpdateClient` load the row when the form is posted:
  only requests in progress at the same time race, not forms left open.)
* A login that overlaps the exchange of one second step for another may see
  neither.
* While the console is between disabling a user and deleting the user's
  sessions, or if that deletion fails, `/login` takes the session for valid and
  `/authorize` does not: the browser is sent back and forth until the session
  is gone. `FlowsEnd` claims nothing there.
* Without an active key, maintenance with rotation on neither rotates nor cleans up.
* In the file store a failed write leaves a file cut short, or a token revoked
  without its watermark.
* `idpicoctl user passwd` leaves outstanding reset links, which the console's
  password form deletes.

## 7. Plan

1. `TokenGrants`, `GrantLifecycle`, `SigningKeys`, `SignIn`, `AccountLinks`,
   `Registry`, `Authorization`, `FileStore`: done, as above.
2. Proofs of all safety properties of these modules, and of the refinement: done.
3. `FileStore` as a second implementation of the statements `TokenGrants`
   assumes, with two users, for the uniqueness of addresses.
4. The administrator flag; the deletion of a user in `Authorization`.
5. Pure algorithms (redirect-URI matching, scope parsing, group claims) against
   reference definitions.
