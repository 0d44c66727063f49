---------------------------- MODULE AccountLinks ----------------------------
(***************************************************************************)
(* One account's password and address: the e-mailed reset and verification *)
(* links, every way to change the password, and the sign-outs that go with *)
(* it (account.go, account_page.go, the user pages of admin.go and the     *)
(* user commands of idpicoctl).                                            *)
(*                                                                         *)
(* There is no transaction: a handler reads the user row, writes it back   *)
(* whole, then ends sessions, refresh tokens and links one statement at a  *)
(* time, and logs a statement that fails.  Each statement is a step.       *)
(***************************************************************************)
EXTENDS Integers, FiniteSets

CONSTANTS
    Requests,      \* requests in progress at the same time
    Addresses,     \* e-mail addresses the account may have
    ResetTTL, VerifyTTL, \* lifetime of the links
    ResetInterval, \* least time between two self-service reset mails
    Scenarios,     \* account and request kinds a behaviour may start with
    MaxRequests,   \* bound: ids, one per request of a behaviour
    MaxTime        \* bound: the clock

ASSUME AccountLinksAssumption ==
    /\ IsFiniteSet(Requests) /\ Addresses # {}
    /\ {ResetTTL, VerifyTTL, ResetInterval, MaxRequests, MaxTime} \subseteq Nat /\ MaxRequests > 0
    /\ \A s \in Scenarios : s.exists \in BOOLEAN /\ s.requests \in 0..MaxRequests

VARIABLES
    db,       \* stored: the user row, links, sessions, refresh tokens
    mem,      \* process memory: when a reset mail last went to an address
    req,      \* the requests in progress
    now,      \* the clock
    scenario, \* what this behaviour starts from and may do (never changes)
    log       \* history, read by the properties only

vars == <<db, mem, req, now, scenario, log>>

-----------------------------------------------------------------------------
(* Passwords, sessions and links are known by the id of the request that   *)
(* made them; 1 is what existed before and 0 none.                         *)

Ids == 0..MaxRequests

Purposes == {"reset", "verify"}

TTL(p) == IF p = "reset" THEN ResetTTL ELSE VerifyTTL

\* The password of an invited user until a reset link sets one: nobody knows it.
Placeholder == MaxRequests + 1

Row == [live: BOOLEAN, active: BOOLEAN, pw: Ids \cup {Placeholder}, addr: Addresses, verified: BOOLEAN]

NoRow == [live |-> FALSE, active |-> FALSE, pw |-> 0,
          addr |-> CHOOSE a \in Addresses : TRUE, verified |-> FALSE]

Idle == [kind |-> "none", pc |-> "idle", id |-> 0, row |-> NoRow, link |-> 0, purpose |-> "reset",
         more |-> FALSE, listed |-> {}, failed |-> FALSE,
         seen |-> {}, cut |-> {}, over |-> {}, old |-> 0]

Init ==
    /\ \E s \in Scenarios :
        /\ scenario = s
        /\ db = [user |-> IF s.exists THEN [NoRow EXCEPT !.live = TRUE, !.active = TRUE, !.pw = 1]
                          ELSE NoRow,
                 links |-> {}, sessions |-> IF s.exists THEN {[id |-> 1, pw |-> 1]} ELSE {},
                 tokens |-> IF s.exists THEN {1} ELSE {}]
    /\ mem = [a \in Addresses |-> 0]
    /\ req = [r \in Requests |-> Idle]
    /\ now = 1
    /\ log = [started |-> 1, gone |-> {}, cut |-> {}, done |-> {}, raced |-> {}, revived |-> {},
              used |-> {}, reused |-> FALSE, mailed |-> [a \in Addresses |-> {}],
              since |-> 1, proved |-> {}]

-----------------------------------------------------------------------------
(* The tables' own operations.                                             *)

IsValid(l) == now <= l.expires /\ ~l.used

\* Inserting needs the user's row: a foreign key.
linksCreate(l) == IF db.user.live THEN db.links \cup {l} ELSE db.links

linksUsable(id, p) == {l \in db.links : l.id = id /\ l.purpose = p /\ IsValid(l)}

linksMarkUsed(id, p) ==
    {IF l.id = id /\ l.purpose = p THEN [l EXCEPT !.used = TRUE] ELSE l : l \in db.links}

deleteUsedOnly(p) == {l \in db.links : l.purpose # p \/ ~l.used}

linksDeleteByUserID(p) == {l \in db.links : p # "" /\ l.purpose # p}

linksDeleteExpired == {l \in db.links : l.expires > now}

sessionsCreateUnchecked(s) == db.sessions \cup {s}

sessionsCreate(s) == IF db.user.live THEN db.sessions \cup {s} ELSE db.sessions

sessionsDelete(ids) == {s \in db.sessions : s.id \notin ids}

SessionIds == {s.id : s \in db.sessions}

usersDelete == [db EXCEPT !.user.live = FALSE, !.links = {}, !.sessions = {}, !.tokens = {}]

\* Whether a reset mail may go to the address now, and the record of it.
throttled(a) == ResetInterval > 0 /\ mem[a] # 0 /\ now - mem[a] < ResetInterval

neverRecorded(a) == mem

laterRecorded(a) == [mem EXCEPT ![a] = now + ResetInterval]

recordReset(a) == [mem EXCEPT ![a] = now]

-----------------------------------------------------------------------------
(* Requests.                                                               *)

Goto(r, pc) == [req EXCEPT ![r].pc = pc]

End(r) == [req EXCEPT ![r] = Idle]

NextId == log.started + 1

\* A request of kind k: it draws the next id and, mostly, loads the row.
Begin(r, k) ==
    /\ req[r] = Idle
    /\ k \in scenario.kinds
    /\ log.started < scenario.requests

New(r, k, pc, p) ==
    [req EXCEPT ![r] = [Idle EXCEPT !.kind = k, !.pc = pc, !.id = NextId, !.row = db.user,
                                    !.purpose = p, !.seen = SessionIds, !.cut = db.tokens,
                                    !.over = {l.id : l \in {l \in db.links : l.purpose = p}}]]

Started == log' = [log EXCEPT !.started = NextId]

\* What follows each statement of a request (`pc` is the one that was run).
PasswordKinds == {"reset", "change", "setpw", "passwd"}

forgetTokens(k, pc) == IF pc = "write" THEN "sessions" ELSE "idle"

Following(k, pc) ==
    CASE pc = "write" /\ k \in PasswordKinds                        -> "sessions"
      [] pc = "sessions" /\ k # "one"                               -> "tokens"
      [] pc = "tokens" /\ k \in {"reset", "change", "setpw", "delete"} -> "links"
      [] pc = "links" /\ k = "delete"                               -> "erase"
      [] OTHER                                                      -> "idle"

\* The request ends; what it was to sign out must be gone from here on,
\* unless one of its statements failed (and was logged).
Ended(r, q) ==
    LET complete == ~q.failed \/ q.pc = "erase"
        signsOut == complete /\ (q.pc = "erase" \/ q.kind # "delete")
        sessions == IF signsOut THEN q.seen ELSE {}
        tokens   == IF signsOut /\ q.kind # "one" THEN q.cut ELSE {}
    IN  /\ req' = End(r)
        /\ log' = [log EXCEPT !.gone = @ \cup sessions, !.cut = @ \cup tokens,
                              !.done = IF complete /\ q.old # 0 THEN @ \cup {q.old} ELSE @]

\* Continue request r, whose record is now q, after statement q.pc.
Proceed(r, q) ==
    LET pc == Following(q.kind, q.pc)
    IN  IF pc = "idle" THEN Ended(r, q)
        ELSE req' = [req EXCEPT ![r] = [q EXCEPT !.pc = pc]] /\ UNCHANGED log

withoutPasswordHash(row) ==
    db' = IF db.user.live THEN [db EXCEPT !.user = [row EXCEPT !.live = TRUE, !.pw = db.user.pw]] ELSE db

\* users.Update with the whole row in hand; NotFound when the user is gone.
usersUpdate(row) ==
    db' = IF db.user.live THEN [db EXCEPT !.user = [row EXCEPT !.live = TRUE]] ELSE db

\* A row that brings back a password which another request replaced.
Revived(q, row) ==
    IF row.pw # db.user.pw /\ q.kind \notin PasswordKinds THEN log.revived \cup {row.pw}
    ELSE log.revived

-----------------------------------------------------------------------------
(* Links: asking for one, and following one.                               *)

\* POST /forgot-password: only an active account with that address goes on.
RequestPasswordReset(r, a) ==
    /\ Begin(r, "forgot")
    /\ req' = IF db.user.live /\ db.user.active /\ db.user.addr = a
              THEN New(r, "forgot", "throttle", "reset") ELSE req
    /\ Started
    /\ UNCHANGED <<db, mem, now, scenario>>

Throttle(r) ==
    LET a == req[r].row.addr
    IN  /\ req[r].pc = "throttle"
        /\ mem' = IF throttled(a) THEN mem ELSE recordReset(a)
        /\ req' = IF throttled(a) THEN End(r) ELSE Goto(r, "clear")
        /\ UNCHANGED <<db, now, scenario, log>>

\* The administrator sends a link; no throttle.
SendLink(r, p) ==
    /\ Begin(r, "send") /\ db.user.live
    /\ req' = New(r, "send", "clear", p)
    /\ Started
    /\ UNCHANGED <<db, mem, now, scenario>>

\* The link request q stores and mails.
NewLink(q) == [id |-> q.id, purpose |-> q.purpose, expires |-> now + TTL(q.purpose), used |-> FALSE,
               to |-> q.row.addr, over |-> q.over]

\* issueToken first clears the user's links of the purpose...
ClearLinks(r) ==
    /\ req[r].pc = "clear"
    /\ db' = [db EXCEPT !.links = linksDeleteByUserID(req[r].purpose)]
    /\ req' = Goto(r, "issue")
    /\ UNCHANGED <<mem, now, scenario, log>>

\* ... then stores the new one and mails it to the address read before (not
\* when the user is gone).  An invited user may get a verification link after
\* the reset link.
issueToken(r) ==
    LET q == req[r]
    IN  /\ q.pc = "issue"
        /\ db' = [db EXCEPT !.links = linksCreate(NewLink(q))]
        /\ req' = IF q.more THEN [req EXCEPT ![r] = [q EXCEPT !.pc = "clear", !.more = FALSE,
                                                              !.purpose = "verify", !.over = {}]]
                  ELSE End(r)
        /\ log' = IF q.kind = "forgot" /\ db.user.live
                  THEN [log EXCEPT !.mailed[q.row.addr] = @ \cup {q.id}] ELSE log
        /\ UNCHANGED <<mem, now, scenario>>

\* A link is followed: it must be there, of the right purpose, and valid.
FollowLink(r, p, id) ==
    /\ Begin(r, p)
    /\ req' = IF linksUsable(id, p) # {}
              THEN [New(r, p, "mark", p) EXCEPT ![r].link = id] ELSE req
    /\ log' = [log EXCEPT !.started = NextId,
                          !.reused = @ \/ (linksUsable(id, p) # {} /\ <<id, p>> \in log.used)]
    /\ UNCHANGED <<db, mem, now, scenario>>

\* MarkUsed matches on the hash alone: of two readers both go on, but the
\* row must still be there.
consumeToken(r) ==
    LET q == req[r]
        l == {x \in db.links : x.id = q.link /\ x.purpose = q.purpose}
    IN  /\ q.pc = "mark"
        /\ db' = [db EXCEPT !.links = linksMarkUsed(q.link, q.purpose)]
        /\ req' = IF l = {} THEN End(r) ELSE Goto(r, "load")
        /\ log' = [log EXCEPT !.used = IF l = {} THEN @ ELSE @ \cup {<<q.link, q.purpose>>},
                              !.proved = IF q.purpose = "verify" THEN @ \cup {x.to : x \in l} ELSE @]
        /\ UNCHANGED <<mem, now, scenario>>

\* The row the rest works on is read after the link was marked.
LoadUser(r) ==
    LET q == req[r]
    IN  /\ q.pc = "load"
        /\ req' = IF ~db.user.live THEN End(r)
                  ELSE [req EXCEPT ![r].row = db.user,
                          ![r].pc = IF q.kind = "reset" THEN "write"
                                    ELSE IF db.user.verified THEN "links" ELSE "save"]
        /\ UNCHANGED <<db, mem, now, scenario, log>>

VerifyEmail(r) ==
    LET row == [req[r].row EXCEPT !.verified = TRUE]
    IN  /\ req[r].pc = "save" /\ req[r].kind = "verify"
        /\ usersUpdate(row)
        /\ req' = IF db.user.live THEN Goto(r, "links") ELSE End(r)
        /\ log' = [log EXCEPT !.revived = Revived(req[r], row)]
        /\ UNCHANGED <<mem, now, scenario>>

-----------------------------------------------------------------------------
(* Changing the password and signing out.                                  *)

\* A form of the account page: a signed-in, active user.
AccountForm(r, k) ==
    /\ Begin(r, k) /\ db.user.live
    /\ db.user.active /\ db.sessions # {}
    /\ req' = New(r, k, IF k = "change" THEN "write" ELSE "list", "reset")
    /\ Started
    /\ UNCHANGED <<db, mem, now, scenario>>

\* A form of the console or a command of idpicoctl: any user.
AdminForm(r, k) ==
    LET pc == CASE k \in {"setpw", "passwd"}     -> "write"
                [] k \in {"revokeall", "delete"} -> "sessions"
    IN  /\ Begin(r, k) /\ db.user.live
        /\ req' = New(r, k, pc, "reset")
        /\ Started
        /\ UNCHANGED <<db, mem, now, scenario>>

\* One session, from the user page of the console or the account page.
RevokeUserSession(r) ==
    /\ Begin(r, "one") /\ db.user.live
    /\ req' = New(r, "one", "list", "reset")
    /\ Started
    /\ UNCHANGED <<db, mem, now, scenario>>

SetPassword(r) ==
    LET q   == req[r]
        row == [q.row EXCEPT !.pw = q.id]
    IN  /\ q.pc = "write"
        /\ usersUpdate(row)
        /\ req' = IF db.user.live
                  THEN [req EXCEPT ![r] = [q EXCEPT !.pc = Following(q.kind, "write"), !.old = db.user.pw]]
                  ELSE End(r)
        /\ log' = IF db.user.live
                  THEN [log EXCEPT !.raced = @ \cup {req[x].id : x \in {x \in Requests : req[x].pc = "open"}}]
                  ELSE log
        /\ UNCHANGED <<mem, now, scenario>>

\* Signing out one session, or all but this browser's, works on a list read
\* first; a session that appears later is not in it.
ListSessions(r) ==
    LET q == req[r]
    IN  /\ q.pc = "list"
        /\ \E keep \in q.seen \cup {0} :
              LET ids == IF q.kind = "one" THEN {keep} ELSE SessionIds \ {keep}
              IN  req' = [req EXCEPT ![r] = [q EXCEPT !.pc = "sessions", !.listed = ids,
                                               !.seen = @ \cap ids]]
        /\ UNCHANGED <<db, mem, now, scenario, log>>

\* A statement that fails is logged and the handler goes on.
EndSessions(r) ==
    LET q   == req[r]
        ids == IF q.kind \in {"others", "one"} THEN q.listed ELSE SessionIds
    IN  /\ q.pc = "sessions"
        /\ \E fails \in BOOLEAN :
              /\ db' = IF fails THEN db ELSE [db EXCEPT !.sessions = sessionsDelete(ids)]
              /\ Proceed(r, [q EXCEPT !.failed = @ \/ fails])
        /\ UNCHANGED <<mem, now, scenario>>

RevokeTokens(r) ==
    LET q == req[r]
    IN  /\ q.pc = "tokens"
        /\ \E fails \in BOOLEAN :
              /\ db' = IF fails THEN db ELSE [db EXCEPT !.tokens = {}]
              /\ Proceed(r, [q EXCEPT !.failed = @ \/ fails])
        /\ UNCHANGED <<mem, now, scenario>>

DeleteLinks(r) ==
    LET q == req[r]
    IN  /\ q.pc = "links"
        /\ db' = [db EXCEPT !.links = linksDeleteByUserID(IF q.kind = "delete" THEN "" ELSE q.purpose)]
        /\ IF q.kind = "verify" THEN req' = End(r) /\ UNCHANGED log ELSE Proceed(r, q)
        /\ UNCHANGED <<mem, now, scenario>>

\* The foreign keys take the rest of the user's rows along.
DeleteUser(r) ==
    /\ req[r].pc = "erase"
    /\ db' = usersDelete
    /\ Ended(r, req[r])
    /\ UNCHANGED <<mem, now, scenario>>

\* One refresh token, from the account page or the user form.
RevokeToken(r) ==
    /\ Begin(r, "token") /\ db.user.live
    /\ \E t \in db.tokens : db' = [db EXCEPT !.tokens = @ \ {t}]
    /\ Started
    /\ UNCHANGED <<mem, req, now, scenario>>

-----------------------------------------------------------------------------
(* The rest of the user form, new users, signing in, maintenance.          *)

\* A changed address is unverified unless the box is ticked.
UpdateUser(r, a, active, ticked) ==
    LET row == [db.user EXCEPT !.addr = a, !.active = active,
                               !.verified = ticked \/ (@ /\ a = db.user.addr)]
    IN  /\ Begin(r, "update") /\ db.user.live
        /\ req' = [New(r, "update", "save", "reset") EXCEPT ![r].row = row, ![r].more = db.user.active]
        /\ log' = [log EXCEPT !.started = NextId, !.proved = IF ticked THEN @ \cup {a} ELSE @]
        /\ UNCHANGED <<db, mem, now, scenario>>

\* Disabling ends sessions and tokens; `more` is wasActive.
SaveForm(r) ==
    LET q == req[r]
    IN  /\ q.pc = "save" /\ q.kind = "update"
        /\ usersUpdate(q.row)
        /\ req' = IF db.user.live /\ q.more /\ ~q.row.active THEN Goto(r, "sessions") ELSE End(r)
        /\ log' = [log EXCEPT !.revived = Revived(q, q.row)]
        /\ UNCHANGED <<mem, now, scenario>>

\* A new user with a password, or invited to choose one by a reset link; a
\* verification link only goes to an address not ticked as verified.
CreateUser(r, a, active, ticked, invite, send) ==
    LET row    == [live |-> TRUE, active |-> active, pw |-> IF invite THEN Placeholder ELSE NextId,
                   addr |-> a, verified |-> ticked]
        verify == send /\ ~ticked
    IN  /\ Begin(r, "create") /\ db.user = NoRow
        /\ db' = [db EXCEPT !.user = row]
        /\ req' = IF invite \/ verify
                  THEN [New(r, "create", "clear", IF invite THEN "reset" ELSE "verify")
                          EXCEPT ![r].row = row, ![r].more = invite /\ verify]
                  ELSE req
        /\ log' = [log EXCEPT !.started = NextId, !.proved = IF ticked THEN @ \cup {a} ELSE @]
        /\ UNCHANGED <<mem, now, scenario>>

\* A login (or its second step, after a pending login) has checked the
\* account and the password; the session is stored in a later step.
Authenticate(r) ==
    /\ Begin(r, "login")
    /\ db.user.live /\ db.user.active /\ db.user.pw # Placeholder
    /\ req' = New(r, "login", "open", "reset")
    /\ Started
    /\ UNCHANGED <<db, mem, now, scenario>>

CreateSession(r) ==
    /\ req[r].pc = "open"
    /\ db' = [db EXCEPT !.sessions = sessionsCreate([id |-> req[r].id, pw |-> req[r].row.pw])]
    /\ req' = End(r)
    /\ UNCHANGED <<mem, now, scenario, log>>

RunMaintenance ==
    /\ db.links # linksDeleteExpired
    /\ db' = [db EXCEPT !.links = linksDeleteExpired]
    /\ UNCHANGED <<mem, req, now, scenario, log>>

\* A restart forgets the throttle and the requests being served.
Restart ==
    /\ "restart" \in scenario.kinds /\ log.started < scenario.requests
    /\ mem' = [a \in Addresses |-> 0]
    /\ req' = [r \in Requests |-> Idle]
    /\ log' = [log EXCEPT !.started = NextId, !.since = now, !.mailed = [a \in Addresses |-> {}]]
    /\ UNCHANGED <<db, now, scenario>>

Tick ==
    /\ now < MaxTime
    /\ now' = now + 1
    /\ UNCHANGED <<db, mem, req, scenario, log>>

Request(r) ==
    \/ \E a \in Addresses : RequestPasswordReset(r, a)
    \/ \E p \in Purposes : SendLink(r, p)
    \/ \E p \in Purposes, id \in 1..MaxRequests : FollowLink(r, p, id)
    \/ \E k \in {"change", "others"} : AccountForm(r, k)
    \/ \E k \in {"setpw", "passwd", "revokeall", "delete"} : AdminForm(r, k)
    \/ RevokeUserSession(r)
    \/ RevokeToken(r)
    \/ \E a \in Addresses, active, ticked \in BOOLEAN : UpdateUser(r, a, active, ticked)
    \/ \E a \in Addresses, active, ticked, invite, send \in BOOLEAN :
          CreateUser(r, a, active, ticked, invite, send)
    \/ Authenticate(r)

Step(r) ==
    \/ Throttle(r) \/ ClearLinks(r) \/ issueToken(r) \/ consumeToken(r) \/ LoadUser(r)
    \/ VerifyEmail(r) \/ SetPassword(r) \/ ListSessions(r) \/ EndSessions(r) \/ RevokeTokens(r)
    \/ DeleteLinks(r) \/ DeleteUser(r) \/ SaveForm(r) \/ CreateSession(r)

Next ==
    \/ \E r \in Requests : Request(r)
    \/ \E r \in Requests : Step(r)
    \/ RunMaintenance
    \/ Restart
    \/ Tick

Spec == Init /\ [][Next]_vars

-----------------------------------------------------------------------------
(* Properties.                                                             *)

\* TypeOK: the tables, the throttle and the requests keep their shape; the
\* throttle never remembers a time that has not come.
TypeOK ==
    /\ db.user \in Row
    /\ db.links \subseteq [id: Ids, purpose: Purposes, expires: Nat, used: BOOLEAN,
                           to: Addresses, over: SUBSET Ids]
    /\ db.sessions \subseteq [id: Ids, pw: Ids] /\ db.tokens \subseteq Ids
    /\ mem \in [Addresses -> 0..now]
    /\ \A r \in Requests : req[r].row \in Row /\ req[r].id \in Ids
    /\ now \in Nat

\* EarlierLinksReplaced: a link that existed when a new one of its purpose
\* was asked for is gone once the new one exists, whatever runs beside the
\* request; only requests that overlap can leave two (issueToken, account.go:287).
EarlierLinksReplaced ==
    \A l, m \in db.links : l.purpose = m.purpose => l.id \notin m.over

\* UsedLinkRefused: a request to follow a link that starts after the link was
\* marked used is refused, also when other links, resets and maintenance come
\* between (consumeToken, account.go:327).
UsedLinkRefused == ~log.reused

\* SignOutIsReal: the sessions and refresh tokens a password change, a
\* disabling, a deletion or a sign-out found when it started never work again
\* once it reported success, unless a statement failed and was logged
\* (SetPassword, account.go:231; RevokeOtherSessions, account_page.go:220).
SignOutIsReal ==
    /\ log.gone \cap SessionIds = {}
    /\ log.cut \cap db.tokens = {}

\* OldPasswordLockedOut: once a password change completed, a session opened
\* with the old password exists only if its login had already checked the
\* password when the new one was stored, or a handler wrote back a user row
\* it had read before (account.go:231, account.go:274).
OldPasswordLockedOut ==
    \A s \in db.sessions :
        s.pw \in log.done => s.id \in log.raced \/ s.pw \in log.revived

\* NoOrphans: a session, link or refresh token never outlives its user, even
\* when the login or the mail that makes it overlaps DeleteUser (admin.go:700).
NoOrphans == db.user.live \/ (db.sessions = {} /\ db.links = {} /\ db.tokens = {})

\* ResetMailThrottled: however requests wait between the throttle and the
\* mail, at any time the self-service reset mails that left for one address
\* since the process started are no more than one per ResetInterval, the first
\* aside (throttled, account.go:113; the mail leaves at account.go:183).
ResetMailThrottled ==
    \A a \in Addresses :
        log.mailed[a] # {} => (Cardinality(log.mailed[a]) - 1) * ResetInterval <= now - log.since

\* VerifiedAddressWasProved: the address is verified only if a link mailed to
\* that address was followed or the administrator ticked its box.  The source
\* says of the user form: "Changing the address invalidates its verified
\* status unless the admin explicitly ticks the box." (admin.go:526-527)
VerifiedAddressWasProved == db.user.verified => db.user.addr \in log.proved

=============================================================================
