------------------------------- MODULE SignIn -------------------------------
(***************************************************************************)
(* Signing in to one account: the password form, account lockout, pending  *)
(* logins, the second step (authenticator code, recovery code or passkey), *)
(* and the pages that change the second step while somebody is signing in. *)
(*                                                                         *)
(* The account's row is read whole and written whole (users.Update); two   *)
(* things keep concurrent requests apart, the mutexes of the in-memory     *)
(* tables and one mutex per user around the check of a code.  A request is *)
(* a record that steps through its accesses to shared state, one per step. *)
(* CSRF refusals and store errors end a request before any effect, so they *)
(* are the request that is never made.                                     *)
(***************************************************************************)
EXTENDS Naturals, FiniteSets

CONSTANTS
    Requests,             \* requests in progress at the same time
    MaxAttempts,          \* failed checks that lock the account
    LockDuration,         \* how long it stays locked
    PendingLoginAttempts, \* wrong codes one password entry allows
    PendingLoginTTL,      \* lifetime of a pending login
    CeremonyTTL,          \* lifetime of a passkey registration challenge
    TOTPSkew,             \* time steps accepted either side of the clock
    RecoveryCodeCount,    \* codes in one set of recovery codes
    Scenarios,            \* account and request kinds a behaviour may start with
    MaxRequests,          \* bound: ids, one per request of a behaviour
    MaxTime               \* bound: the clock, in TOTP periods

ASSUME SignInAssumption ==
    /\ IsFiniteSet(Requests)
    /\ {MaxAttempts, LockDuration, PendingLoginAttempts, PendingLoginTTL,
        CeremonyTTL, TOTPSkew, RecoveryCodeCount, MaxRequests, MaxTime} \subseteq Nat
    /\ MaxAttempts > 0 /\ PendingLoginAttempts > 0

VARIABLES
    db,     \* stored: the user row, the ids of the passkeys and of the sessions
    mem,    \* process memory: lockout, pending logins, ceremony, the user's mutex
    req,    \* the requests in progress
    now,    \* the clock
    scenario, \* what this behaviour starts from and may do (never changes)
    log     \* history, read by the properties only

vars == <<db, mem, req, now, scenario, log>>

-----------------------------------------------------------------------------
(* Fresh random values (session tokens, secrets, code sets, challenges,    *)
(* pending-login cookies) are the id of the request that draws them; what  *)
(* exists before the behaviour starts has id 1, and 0 means none.          *)

Ids == 0..MaxRequests

Kinds == {"login", "code", "passkey", "challenge", "enable", "disable", "renew",
          "register", "finish", "remove", "reset", "update", "restart"}

\* What a behaviour may start from: an account with or without an app and a
\* passkey, with or without a password entered already.
ASSUME ScenariosAssumption ==
    /\ MaxRequests > 0
    /\ Scenarios \subseteq [kinds : SUBSET Kinds, requests : Ids, totp : {0, 1},
                            passkeys : SUBSET {1}, pending : BOOLEAN]

Codes(id) == {[type |-> "recovery", of |-> id, n |-> i] : i \in 1..RecoveryCodeCount}
TOTP(id, step) == [type |-> "totp", of |-> id, n |-> step]
Assertion(id, key) == [type |-> "passkey", of |-> id, n |-> key]
Right == [type |-> "password", of |-> 0, n |-> 0]
Wrong == [type |-> "wrong", of |-> 0, n |-> 0]

\* The columns of a user row that signing in reads or writes.
Row == [active: BOOLEAN, totp: Ids, step: Nat, codes: SUBSET UNION {Codes(i) : i \in Ids}]

NoRow == [active |-> FALSE, totp |-> 0, step |-> 0, codes |-> {}]

Idle == [kind |-> "none", pc |-> "idle", id |-> 0, row |-> NoRow, base |-> NoRow,
         tok |-> 0, code |-> Wrong, n |-> 0, challenge |-> 0, held |-> {}]

NoPending == [expires |-> 0, attempts |-> 0, passkey |-> 0, live |-> FALSE]
NoLockout == [count |-> 0, locked |-> FALSE, lockedAt |-> 0]

FreshMemory == [lockout |-> NoLockout, pending |-> [t \in Ids |-> NoPending],
                ceremony |-> 0, mutex |-> {}]

Init ==
    /\ \E s \in Scenarios :
        /\ scenario = s
        /\ db = [user |-> [active |-> TRUE, totp |-> s.totp, step |-> 0,
                           codes |-> IF s.totp = 0 /\ s.passkeys = {} THEN {} ELSE Codes(1)],
                 passkeys |-> s.passkeys, sessions |-> {1}]
        /\ mem = [FreshMemory EXCEPT !.pending[1] =
                     IF s.pending THEN [expires |-> 2 + PendingLoginTTL, attempts |-> 0,
                                        passkey |-> 0, live |-> TRUE]
                     ELSE NoPending]
    /\ req = [r \in Requests |-> Idle]
    /\ now = 2
    /\ log = [started |-> 1, stale |-> FALSE, accepted |-> {}, twice |-> {}, again |-> {},
              guesses |-> 0, checked |-> [t \in Ids |-> 0], answered |-> {},
              replayed |-> FALSE, skipped |-> FALSE]

-----------------------------------------------------------------------------
(* Lockout, pending logins, codes: the tables' own operations.             *)

LockedAboveLimit == mem.lockout.count > MaxAttempts + 1

IsLocked == mem.lockout.locked /\ now - mem.lockout.lockedAt < LockDuration

LockExpired == mem.lockout.locked /\ now - mem.lockout.lockedAt >= LockDuration

\* One more failed check: an expired lock starts a new count, and the count
\* that reaches the limit (re)locks the account from now.
RecordFailure ==
    LET count == IF LockExpired THEN 1 ELSE mem.lockout.count + 1
    IN  IF count >= MaxAttempts
        THEN [count |-> count, locked |-> TRUE, lockedAt |-> now]
        ELSE [count |-> count, locked |-> FALSE, lockedAt |-> 0]

CountGuess == [log EXCEPT !.guesses = IF LockExpired THEN 1 ELSE @ + 1]

RecordSuccess == NoLockout

Expired(p) == now > p.expires

pendingAdd(t) ==
    [u \in Ids |-> IF u = t THEN [expires |-> now + PendingLoginTTL, attempts |-> 0,
                                  passkey |-> 0, live |-> TRUE]
                   ELSE IF mem.pending[u].live /\ Expired(mem.pending[u]) THEN NoPending
                   ELSE mem.pending[u]]

pendingWithoutLimit(t) == mem.pending[t].live /\ ~Expired(mem.pending[t])

pendingUsable(t) ==
    /\ mem.pending[t].live
    /\ ~Expired(mem.pending[t])
    /\ mem.pending[t].attempts < PendingLoginAttempts

pendingUncounted(t) == mem.pending

pendingReserve(t) ==
    IF pendingUsable(t) THEN [mem.pending EXCEPT ![t].attempts = @ + 1]
    ELSE [mem.pending EXCEPT ![t] = NoPending]

pendingRemove(t) == [mem.pending EXCEPT ![t] = NoPending]

setPasskeyChallenge(t, id) == [mem.pending EXCEPT ![t].passkey = id]

keepPasskeyChallenge(t) == mem.pending

takePasskeyChallenge(t) == [mem.pending EXCEPT ![t].passkey = 0]

ListPasskeys == db.passkeys

PasskeyCreate(id) == [db EXCEPT !.passkeys = @ \cup {id}]

PasskeyDelete(id) == [db EXCEPT !.passkeys = @ \ {id}]

PasskeysDeleteByUser == [db EXCEPT !.passkeys = {}]

SessionCreate(ss, id) == ss \cup {id}

SessionsDeleteByUser == [db EXCEPT !.sessions = {}]

\* The code of a time step is right near that step and after the last one used.
VerifyTOTP(secret, code, last) ==
    /\ code.type = "totp" /\ code.of = secret
    /\ code.n + TOTPSkew >= now /\ code.n <= now + TOTPSkew
    /\ code.n > last

TOTPEnabled(row) == row.totp # 0

AppOnly(row) == TOTPEnabled(row)

hasSecondFactor(row) == TOTPEnabled(row) \/ ListPasskeys # {}

ClearTOTP(row) == [row EXCEPT !.totp = 0, !.step = 0]

\* The row after the code was used, or the row itself when the code is wrong.
UseCode(row, code) ==
    IF TOTPEnabled(row) /\ VerifyTOTP(row.totp, code, row.step)
    THEN [row EXCEPT !.step = code.n]
    ELSE [row EXCEPT !.codes = @ \ {code}]

Accept(code, new) ==
    [new EXCEPT !.twice = @ \cup ({code} \cap new.accepted), !.accepted = @ \cup {code}]

-----------------------------------------------------------------------------
(* Steps shared by the handlers.                                           *)

\* The second steps that are on, and those a request has seen on throughout.
Factors(row, keys) == (IF TOTPEnabled(row) THEN {<<"totp", row.totp>>} ELSE {})
                        \cup {<<"passkey", k>> : k \in keys}

Narrow(rs, row, keys) ==
    [r \in Requests |-> [rs[r] EXCEPT !.held = @ \cap Factors(row, keys)]]

Goto(r, pc) == [req EXCEPT ![r].pc = pc]

End(r) == [req EXCEPT ![r] = Idle]

\* Request r of kind k starts; it draws the next id.
Begin(r, k) ==
    /\ req[r] = Idle
    /\ k \in scenario.kinds
    /\ log.started < scenario.requests

NextId == log.started + 1

Started == [log EXCEPT !.started = NextId]

New(r, k, pc, tok, code) ==
    [req EXCEPT ![r] = [Idle EXCEPT !.kind = k, !.pc = pc, !.id = NextId, !.tok = tok,
                                    !.code = code, !.row = db.user, !.base = db.user,
                                    !.held = Factors(db.user, db.passkeys)]]

\* users.Update writes every column of the row the request has in hand; the
\* write is stale when the stored row is no longer the one it was read from.
usersUpdate(r, row, next) ==
    /\ db' = [db EXCEPT !.user = row]
    /\ req' = Narrow(next, row, db.passkeys)

Staled(r) == [log EXCEPT !.stale = @ \/ db.user # req[r].base]

Unlocked(r) == mem.mutex \ {r}

\* A fresh session replaces the one the browser's cookie named, if any.
startSession(r) ==
    /\ \E old \in db.sessions \cup {0} :
          db' = [db EXCEPT !.sessions = SessionCreate(@ \ {old}, req[r].id)]
    /\ req' = End(r)

-----------------------------------------------------------------------------
(* POST /login.                                                            *)

Login(r, password) ==
    /\ Begin(r, "login") /\ ~IsLocked
    /\ req' = New(r, "login", "authenticate", 0, password)
    /\ log' = Started
    /\ UNCHANGED <<db, mem, now, scenario>>

Authenticate(r) ==
    /\ req[r].pc = "authenticate"
    /\ req' = [req EXCEPT ![r].row = db.user,
                          ![r].pc = IF db.user.active /\ req[r].code # Wrong
                                    THEN "factor" ELSE "failed"]
    /\ UNCHANGED <<db, mem, now, scenario, log>>

LoginFailed(r) ==
    /\ req[r].pc = "failed" /\ req[r].kind \notin {"code", "passkey"}
    /\ mem' = [mem EXCEPT !.lockout = RecordFailure]
    /\ log' = CountGuess
    /\ req' = End(r)
    /\ UNCHANGED <<db, now, scenario>>

SecondFactorRequired(r) ==
    /\ req[r].pc = "factor" /\ hasSecondFactor(req[r].row)
    /\ mem' = [mem EXCEPT !.pending = pendingAdd(req[r].id)]
    /\ req' = End(r)
    /\ UNCHANGED <<db, now, scenario, log>>

PasswordOnly(r) ==
    /\ req[r].pc = "factor" /\ ~hasSecondFactor(req[r].row)
    /\ startSession(r)
    /\ mem' = [mem EXCEPT !.lockout = RecordSuccess]
    /\ log' = [log EXCEPT !.guesses = 0, !.skipped = @ \/ req[r].held # {}]
    /\ UNCHANGED <<now, scenario>>

-----------------------------------------------------------------------------
(* POST /login/code and /login/passkey/*: the second step.                 *)

reservePendingAttempt(r, k, t, code) ==
    /\ Begin(r, k)
    /\ mem' = [mem EXCEPT !.pending = pendingReserve(t)]
    /\ req' = IF pendingUsable(t)
              THEN [New(r, k, "lockcheck", t, code) EXCEPT ![r].n = mem.pending[t].attempts + 1]
              ELSE req
    /\ log' = Started
    /\ UNCHANGED <<db, now, scenario>>

\* POST /login/code and POST /login/passkey/finish.
Code(r, t, code) == reservePendingAttempt(r, "code", t, code)

PasskeyFinish(r, t, assertion) == reservePendingAttempt(r, "passkey", t, assertion)

PendingLockCheck(r) ==
    /\ req[r].pc = "lockcheck"
    /\ mem' = IF IsLocked THEN [mem EXCEPT !.pending = pendingRemove(req[r].tok)] ELSE mem
    /\ req' = IF IsLocked THEN End(r) ELSE Goto(r, "load")
    /\ UNCHANGED <<db, now, scenario, log>>

\* The user must still be active and still have a second step.
PendingLoad(r) ==
    LET gone == ~db.user.active \/ ~hasSecondFactor(db.user)
    IN  /\ req[r].pc = "load"
        /\ mem' = IF gone THEN [mem EXCEPT !.pending = pendingRemove(req[r].tok)] ELSE mem
        /\ req' = IF gone THEN End(r)
                  ELSE Goto(r, IF req[r].kind = "code" THEN "consume" ELSE "take")
        /\ UNCHANGED <<db, now, scenario, log>>

SecondFactorFailed(r) ==
    /\ req[r].pc = "failed" /\ req[r].kind \in {"code", "passkey"}
    /\ mem' = [mem EXCEPT !.lockout = RecordFailure,
                          !.mutex = Unlocked(r),
                          !.pending = IF req[r].n >= PendingLoginAttempts
                                      THEN pendingRemove(req[r].tok) ELSE @]
    /\ log' = CountGuess
    /\ req' = End(r)
    /\ UNCHANGED <<db, now, scenario>>

finishPendingLogin(r) ==
    /\ req[r].pc = "finish" /\ req[r].kind \in {"code", "passkey"}
    /\ startSession(r)
    /\ mem' = [mem EXCEPT !.pending = pendingRemove(req[r].tok),
                          !.lockout = RecordSuccess, !.mutex = Unlocked(r)]
    /\ log' = [log EXCEPT !.guesses = 0]
    /\ UNCHANGED <<now, scenario>>

withoutMutex(r) ==
    /\ req[r].pc = "consume"
    /\ req' = [req EXCEPT ![r].pc = "use", ![r].row = db.user, ![r].base = db.user]
    /\ UNCHANGED <<db, mem, now, scenario, log>>

\* consumeSecondFactor takes the user's mutex and reads the stored row...
lockUser(r) ==
    /\ req[r].pc = "consume" /\ mem.mutex = {}
    /\ mem' = [mem EXCEPT !.mutex = {r}]
    /\ req' = [req EXCEPT ![r].pc = "use", ![r].row = db.user, ![r].base = db.user]
    /\ log' = IF req[r].kind = "code" THEN [log EXCEPT !.checked[req[r].tok] = @ + 1] ELSE log
    /\ UNCHANGED <<db, now, scenario>>

\* ... and records the use of the code before it lets the next request in.
consumeSecondFactor(r) ==
    LET row == UseCode(req[r].row, req[r].code)
        ok  == row # req[r].row
        pc  == IF ~ok THEN "failed" ELSE IF req[r].kind = "code" THEN "finish" ELSE "change"
    IN  /\ req[r].pc = "use"
        /\ IF ok
           THEN /\ usersUpdate(r, row, [req EXCEPT ![r].pc = pc, ![r].row = row, ![r].base = row])
                /\ log' = Accept(req[r].code, log)
           ELSE req' = Goto(r, pc) /\ UNCHANGED <<db, log>>
        /\ mem' = [mem EXCEPT !.mutex = Unlocked(r)]
        /\ UNCHANGED <<now, scenario>>

BeginPasskeyLogin(r, t) ==
    /\ Begin(r, "challenge")
    /\ LET ok == mem.pending[t].live /\ ~Expired(mem.pending[t])
       IN  mem' = [mem EXCEPT !.pending =
                     IF ~ok THEN pendingRemove(t)
                     ELSE IF db.passkeys = {} THEN @ ELSE setPasskeyChallenge(t, NextId)]
    /\ log' = Started
    /\ UNCHANGED <<db, req, now, scenario>>

TakeChallenge(r) ==
    LET c == mem.pending[req[r].tok].passkey
    IN  /\ req[r].pc = "take"
        /\ mem' = [mem EXCEPT !.pending = takePasskeyChallenge(req[r].tok)]
        /\ req' = IF c = 0 THEN End(r) ELSE [req EXCEPT ![r].pc = "verify", ![r].challenge = c]
        /\ UNCHANGED <<db, now, scenario, log>>

\* The assertion must be signed for the challenge taken, by a stored passkey.
CompletePasskeyLogin(r) ==
    LET c  == req[r].challenge
        ok == req[r].code.of = c /\ req[r].code.n \in db.passkeys
    IN  /\ req[r].pc = "verify" /\ mem.mutex = {}
        /\ mem' = [mem EXCEPT !.mutex = {r}]
        /\ req' = Goto(r, IF ok THEN "finish" ELSE "failed")
        /\ log' = [log EXCEPT !.checked[req[r].tok] = @ + 1,
                              !.replayed = @ \/ c \in log.answered,
                              !.answered = IF ok THEN @ \cup {c} ELSE @]
        /\ UNCHANGED <<db, now, scenario>>

-----------------------------------------------------------------------------
(* /account: changing the second step from a signed-in browser.            *)

\* The row a handler of the account page works on is loaded here.
requireUser(r, k, pc, code) ==
    /\ Begin(r, k)
    /\ db.sessions # {} /\ db.user.active
    /\ req' = New(r, k, pc, 0, code)
    /\ log' = Started
    /\ UNCHANGED <<db, mem, now, scenario>>

\* Authenticator and recovery codes; the early refusals read the row.
TwoStepForm(r, k, code) ==
    /\ k = "enable" => ~TOTPEnabled(db.user)
    /\ k = "renew" => hasSecondFactor(db.user)
    /\ requireUser(r, k, "guard", code)

\* Passkeys: only the answer to a challenge needs no password.
PasskeyForm(r, k, password) ==
    requireUser(r, k, IF k = "finish" THEN "change" ELSE "guard", password)

NeedsCode(q) == q.kind = "disable" \/ (q.kind = "renew" /\ TOTPEnabled(q.row))

guarded(r) ==
    /\ req[r].pc = "guard"
    /\ req' = IF IsLocked THEN End(r)
              ELSE Goto(r, IF NeedsCode(req[r]) THEN "consume"
                           ELSE IF req[r].code # Wrong THEN "change" ELSE "failed")
    /\ UNCHANGED <<db, mem, now, scenario, log>>

\* The secret comes from the form of the setup page, whether it is a new one or
\* not; one of its codes proves it, and no step counts as used before.
EnableTOTP(r) ==
    LET ok == VerifyTOTP(req[r].code.of, req[r].code, 0)
    IN  /\ req[r].pc = "change" /\ req[r].kind = "enable"
        /\ req' = IF ok THEN [req EXCEPT ![r].pc = "save",
                                ![r].row = [@ EXCEPT !.totp = req[r].code.of,
                                                     !.step = req[r].code.n,
                                                     !.codes = Codes(req[r].id)]]
                  ELSE End(r)
        /\ log' = IF ok THEN [Accept(req[r].code, log)
                                EXCEPT !.again = @ \cup ({req[r].code.of} \ {req[r].id})]
                  ELSE log
        /\ UNCHANGED <<db, mem, now, scenario>>

DisableTOTP(r) ==
    LET row == ClearTOTP(req[r].row)
    IN  /\ req[r].pc = "change" /\ req[r].kind = "disable"
        /\ req' = [req EXCEPT ![r].pc = "save",
                     ![r].row = IF hasSecondFactor(row) THEN row ELSE [row EXCEPT !.codes = {}]]
        /\ UNCHANGED <<db, mem, now, scenario, log>>

RenewRecoveryCodes(r) ==
    /\ req[r].pc = "change" /\ req[r].kind = "renew"
    /\ req' = [req EXCEPT ![r].pc = "save", ![r].row.codes = Codes(req[r].id)]
    /\ UNCHANGED <<db, mem, now, scenario, log>>

BeginPasskeyRegistration(r) ==
    /\ req[r].pc = "change" /\ req[r].kind = "register"
    /\ mem' = [mem EXCEPT !.ceremony = now + CeremonyTTL]
    /\ req' = End(r)
    /\ UNCHANGED <<db, now, scenario, log>>

\* The ceremony is taken whatever comes of it; a first second step without
\* recovery codes gets a set of them.
FinishPasskeyRegistration(r) ==
    LET ok == mem.ceremony # 0 /\ now <= mem.ceremony
    IN  /\ req[r].pc = "change" /\ req[r].kind = "finish"
        /\ mem' = [mem EXCEPT !.ceremony = 0]
        /\ db' = IF ok THEN PasskeyCreate(req[r].id) ELSE db
        /\ req' = IF ok /\ req[r].row.codes = {}
                  THEN [req EXCEPT ![r].pc = "save", ![r].row.codes = Codes(req[r].id)]
                  ELSE End(r)
        /\ UNCHANGED <<now, scenario, log>>

RemovePasskey(r, k) ==
    LET keys == db.passkeys \ {k}
        drop == ~TOTPEnabled(req[r].row) /\ keys = {} /\ req[r].row.codes # {}
        next == IF drop THEN [req EXCEPT ![r].pc = "save", ![r].row.codes = {}] ELSE End(r)
    IN  /\ req[r].pc = "change" /\ req[r].kind = "remove"
        /\ k \in db.passkeys
        /\ db' = PasskeyDelete(k)
        /\ req' = Narrow(next, db.user, keys)
        /\ UNCHANGED <<mem, now, scenario, log>>

\* The passkey named is not, or no longer, one of the user's.
PasskeyNotFound(r) ==
    /\ req[r].pc = "change" /\ req[r].kind = "remove"
    /\ req' = End(r)
    /\ UNCHANGED <<db, mem, now, scenario, log>>

\* The last step of these handlers: users.Update with the row in hand.
SaveUser(r) ==
    LET pc == IF req[r].kind = "reset" THEN "passkeys"
              ELSE IF req[r].base.active /\ ~req[r].row.active THEN "sessions" ELSE "idle"
    IN  /\ req[r].pc = "save"
        /\ usersUpdate(r, req[r].row, IF pc = "idle" THEN End(r) ELSE Goto(r, pc))
        /\ log' = Staled(r)
        /\ UNCHANGED <<mem, now, scenario>>

-----------------------------------------------------------------------------
(* The administrator: reset of the second step, and the user form.         *)

ResetSecondFactors(r) ==
    /\ Begin(r, "reset")
    /\ req' = [New(r, "reset", "save", 0, Wrong)
                 EXCEPT ![r].row = [ClearTOTP(db.user) EXCEPT !.codes = {}]]
    /\ log' = Started
    /\ UNCHANGED <<db, mem, now, scenario>>

ResetPasskeys(r) ==
    /\ req[r].pc = "passkeys"
    /\ db' = PasskeysDeleteByUser
    /\ req' = Narrow(End(r), db.user, {})
    /\ UNCHANGED <<mem, now, scenario, log>>

UpdateUser(r, active) ==
    /\ Begin(r, "update")
    /\ req' = [New(r, "update", "save", 0, Wrong) EXCEPT ![r].row.active = active]
    /\ log' = Started
    /\ UNCHANGED <<db, mem, now, scenario>>

EndSessions(r) ==
    /\ req[r].pc = "sessions"
    /\ db' = SessionsDeleteByUser
    /\ req' = End(r)
    /\ UNCHANGED <<mem, now, scenario, log>>

-----------------------------------------------------------------------------

\* A restart loses the in-memory tables and the requests being served.
Restart ==
    /\ "restart" \in scenario.kinds
    /\ log.started < scenario.requests
    /\ mem' = FreshMemory
    /\ req' = [r \in Requests |-> Idle]
    /\ log' = [Started EXCEPT !.guesses = 0]
    /\ UNCHANGED <<db, now, scenario>>

Tick ==
    /\ now < MaxTime
    /\ now' = now + 1
    /\ UNCHANGED <<db, mem, req, scenario, log>>

\* The time steps whose codes an app may show, its clock being off by TOTPSkew.
Near == {n \in 0..(now + TOTPSkew) : n + TOTPSkew >= now}

\* What may be typed: nonsense, a code of the app, a recovery code, or any code
\* that was accepted before.
Typed ==
    {Wrong} \cup {TOTP(i, n) : i \in {db.user.totp} \ {0}, n \in Near}
            \cup db.user.codes \cup log.accepted

\* The form of the setup page carries a secret: the one drawn for it or, when it
\* is sent again later, one that has been in use.
UsedSecrets == {c.of : c \in {a \in log.accepted : a.type = "totp"}}
SetupCodes == {TOTP(i, n) : i \in {NextId} \cup UsedSecrets, n \in Near}

Assertions == {Assertion(c, k) : c \in {mem.pending[t].passkey : t \in Ids} \cup log.answered,
                                 k \in db.passkeys}

Step(r) ==
    \/ Authenticate(r) \/ LoginFailed(r) \/ SecondFactorRequired(r) \/ PasswordOnly(r)
    \/ PendingLockCheck(r) \/ PendingLoad(r) \/ SecondFactorFailed(r) \/ finishPendingLogin(r)
    \/ lockUser(r) \/ consumeSecondFactor(r) \/ TakeChallenge(r) \/ CompletePasskeyLogin(r)
    \/ guarded(r) \/ EnableTOTP(r) \/ DisableTOTP(r) \/ RenewRecoveryCodes(r)
    \/ BeginPasskeyRegistration(r) \/ FinishPasskeyRegistration(r)
    \/ \E k \in db.passkeys : RemovePasskey(r, k)
    \/ PasskeyNotFound(r) \/ SaveUser(r) \/ ResetPasskeys(r) \/ EndSessions(r)

Request(r) ==
    \/ \E p \in {Right, Wrong} : Login(r, p)
    \/ \E t \in 1..MaxRequests, c \in Typed : Code(r, t, c)
    \/ \E t \in 1..MaxRequests, c \in Assertions : PasskeyFinish(r, t, c)
    \/ \E t \in 1..MaxRequests : BeginPasskeyLogin(r, t)
    \/ \E k \in {"register", "remove"}, p \in {Right, Wrong} : PasskeyForm(r, k, p)
    \/ PasskeyForm(r, "finish", Right)
    \/ \E c \in {Wrong, Right} \cup SetupCodes : TwoStepForm(r, "enable", c)
    \/ \E c \in Typed : TwoStepForm(r, "disable", c)
    \/ \E c \in Typed \cup {Right} : TwoStepForm(r, "renew", c)
    \/ ResetSecondFactors(r)
    \/ \E active \in BOOLEAN : UpdateUser(r, active)

Next ==
    \/ \E r \in Requests : Step(r)
    \/ \E r \in Requests : Request(r)
    \/ Restart
    \/ Tick

Spec == Init /\ [][Next]_vars

-----------------------------------------------------------------------------
(* Properties.                                                             *)

\* TypeOK: rows, pending logins, lockout entries and requests keep their
\* shape, and only a running request holds the user's mutex.
TypeOK ==
    /\ db \in [user: Row, passkeys: SUBSET Ids, sessions: SUBSET Ids]
    /\ mem.lockout \in [count: Nat, locked: BOOLEAN, lockedAt: Nat]
    /\ mem.pending \in [Ids -> [expires: Nat, attempts: 0..PendingLoginAttempts,
                                passkey: Ids, live: BOOLEAN]]
    /\ mem.ceremony \in Nat
    /\ \A r \in mem.mutex : req[r].pc \in {"use", "finish", "failed"}
    /\ \A r \in Requests : req[r].row \in Row /\ req[r].kind \in Kinds \cup {"none"}
    /\ now \in Nat /\ scenario.kinds \subseteq Kinds

\* GuessesPerPasswordBounded: however the submissions interleave, one
\* accepted password lets at most PendingLoginAttempts codes and passkey
\* assertions be checked (reserve counts before the check; secondfactor.go:112).
GuessesPerPasswordBounded == \A t \in Ids : log.checked[t] <= PendingLoginAttempts

\* CodesWorkOnce: an authenticator or recovery code that was accepted is accepted
\* again in two cases only: some handler wrote back a user row that had changed
\* since it read it, or the code is of an authenticator that was set up again
\* with the secret it had (consumeSecondFactor, secondfactor.go:257).
CodesWorkOnce == ~log.stale => \A c \in log.twice : c.type = "totp" /\ c.of \in log.again

\* CodesNeverTwice: an authenticator code is never accepted twice, as README.md:367
\* and VerifyTOTP (totp.go:72) say.
CodesNeverTwice == \A c \in log.twice : c.type # "totp"

\* FailuresBounded: between two successful sign-ins, or in one lock period,
\* the failed password and code checks exceed the lockout limit at most by
\* the other requests that were past IsLocked when the account locked; a
\* right password does not reset the count while a code is due
\* (lockout.go:58, service.go:156).
FailuresBounded == log.guesses <= MaxAttempts + Cardinality(Requests) - 1

\* SecondStepNotSkipped: no session is opened by the password alone while
\* one and the same authenticator or passkey was on from the start of the
\* request to its end (Login, service.go:159).
SecondStepNotSkipped == ~log.skipped

\* ChallengesAnsweredOnce: a passkey challenge that was answered is not taken
\* for a second answer, even by concurrent submissions of the same signed
\* assertion (takePasskeyChallenge, secondfactor.go:139).
ChallengesAnsweredOnce == ~log.replayed
=============================================================================
