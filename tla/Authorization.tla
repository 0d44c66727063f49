---------------------------- MODULE Authorization ----------------------------
(***************************************************************************)
(* The authorization endpoint: tabs of one browser ask for codes for one   *)
(* client, are sent to the login page and back, answer the consent page,   *)
(* withdraw consent and log out, while operators change the client row     *)
(* (module Registry).                                                      *)
(*                                                                         *)
(* A tab shows one page or waits for one request, and the tabs share the   *)
(* session and CSRF cookies.  Each statement on the store is a step.       *)
(***************************************************************************)
EXTENDS Registry

CONSTANTS
    Tabs,        \* tabs of the browser
    NoForm,      \* no CSRF cookie
    SessionTTL, CSRFTTL, \* lifetime of a session and of a form
    Scenarios,   \* what a behaviour may start from and may do
    MaxSessions  \* bound: sessions stored at the same time

ASSUME AuthorizationAssumption ==
    /\ IsFiniteSet(Tabs) /\ NoForm \notin Tabs
    /\ {SessionTTL, CSRFTTL, MaxSessions} \subseteq Nat

VARIABLES
    db,      \* stored: sessions, the consent, codes, refresh tokens, user active
    browser, \* its cookies: the session, and the tab whose form is valid
    tab,     \* the tabs
    now,     \* the clock
    log      \* history: tabs used; scopes the user allowed and those in a race;
             \* reads that failed; how far the disabling of the account is

authvars == <<db, browser, tab, now, log>>
vars == <<db, browser, tab, now, log, client, groups, op, scenario, reglog>>

-----------------------------------------------------------------------------
NoMaxAge == -1

\* The parameters of an authorization request.  `valid` stands for the checks
\* that depend on nothing but the request.
Params == [prompt: SUBSET STRING, maxAge: Int, scopes: SUBSET STRING, uri: STRING, pkce: BOOLEAN, valid: BOOLEAN]

NoParams == [prompt |-> {}, maxAge |-> NoMaxAge, scopes |-> {}, uri |-> "", pkce |-> FALSE, valid |-> TRUE]

\* What a behaviour may start from: a client row, whose secret is the first one,
\* a consent, and a user who is signed in or not.
ASSUME ScenariosAssumption ==
    \A s \in Scenarios :
        /\ s.client \in Client /\ s.client.secret \in {0, 1}
        /\ s.params \subseteq Params
        /\ s.consent \subseteq STRING
        /\ s.signedIn \in BOOLEAN /\ (s.signedIn => MaxSessions > 0)
        /\ {s.flows, s.ops, s.time, s.faults} \subseteq Nat

\* p: the parameters of the request; cookie: the session it was sent with;
\* skip, at, merged: what the request has read; the rest is history:
\* asked, start: the first request and its time; from: time of the current one;
\* rows, allowed, raced: the client rows, the scopes allowed and those in a race
\* there have been since then; kept: the tab was sent to the login page as if not
\* signed in, although its session is stored.
Blank == [pc |-> "blank", out |-> "", id |-> 0, p |-> NoParams, cookie |-> 0, allow |-> FALSE,
          skip |-> FALSE, at |-> 0, merged |-> {}, listed |-> {}, had |-> {}, failed |-> FALSE,
          asked |-> NoParams, start |-> 0, from |-> 0, rows |-> {}, allowed |-> {}, raced |-> {},
          stale |-> FALSE, kept |-> FALSE]

Init ==
    /\ scenario \in Scenarios
    /\ RegistryInit
    /\ db = [sessions |-> IF scenario.signedIn THEN {[id |-> 1, at |-> 0]} ELSE {},
             consent |-> scenario.consent, codes |-> {},
             tokens |-> IF scenario.consent = {} THEN {} ELSE {0}, active |-> TRUE]
    /\ browser = [cookie |-> IF scenario.signedIn THEN 1 ELSE 0, form |-> NoForm, formAt |-> 0]
    /\ tab = [t \in Tabs |-> Blank]
    /\ now = 1
    /\ log = [flows |-> 0, allowed |-> scenario.consent, raced |-> {}, cut |-> {}, faults |-> 0, disabling |-> "no"]

-----------------------------------------------------------------------------
(* Pages, forms and sessions.                                              *)

\* ValidateToken: the form is the one the cookie is for, and not too old.
ValidateToken(t) == browser.form = t /\ now - browser.formAt <= CSRFTTL

GenerateToken(t) == [browser EXCEPT !.form = t, !.formAt = now]

IsExpired(s) == now > s.at + SessionTTL

GetSession(c) == {s \in db.sessions : s.id = c /\ ~IsExpired(s)}

CurrentSession(c) == {s \in GetSession(c) : db.active}

\* GetSession also deletes a session that it finds expired.
AfterGet(c) == {s \in db.sessions : s.id = c => ~IsExpired(s)}

DeleteSession(c) == {s \in db.sessions : s.id # c}

ClearedCookies == [browser EXCEPT !.cookie = 0, !.form = NoForm]

\* Tab t sends a request with parameters p.
Sent(t, pc, p, cookie) ==
    [tab[t] EXCEPT !.pc = pc, !.p = p, !.cookie = cookie, !.from = now, !.rows = {client},
                   !.allowed = log.allowed, !.raced = log.raced, !.skip = FALSE, !.at = 0, !.merged = {}]

Send(t, pc, p) == tab' = [tab EXCEPT ![t] = Sent(t, pc, p, browser.cookie)]

Goto(t, pc) == tab' = [tab EXCEPT ![t].pc = pc]

\* The answer: a redirect to the client ("redirect") or a page ("page").
Answer(t, out) == tab' = [tab EXCEPT ![t] = [Blank EXCEPT !.out = out]]

Open(t, k) ==
    /\ tab[t].pc = "blank"
    /\ k \in scenario.kinds
    /\ log.flows < scenario.flows
    /\ log' = [log EXCEPT !.flows = @ + 1]

Opened(t, pc, p) ==
    tab' = [tab EXCEPT ![t] = [Sent(t, pc, p, browser.cookie) EXCEPT !.id = log.flows + 1, !.asked = p, !.start = now]]

-----------------------------------------------------------------------------
(* GET /authorize.                                                         *)

Fresh == {"login", "select_account"}

RequiresFreshLogin(p, at) == p.prompt \cap Fresh # {} \/ (p.maxAge >= 0 /\ now - at > p.maxAge)

keepPrompt(p) == [p EXCEPT !.maxAge = NoMaxAge]

\* What the login page returns to.
withoutPrompt(p) == [p EXCEPT !.prompt = @ \ Fresh, !.maxAge = NoMaxAge]

anyRedirect(p) == IF ~client.live THEN "page" ELSE IF p.uri \notin client.uris THEN "redirect" ELSE "ok"

\* An unknown client or redirect URI is shown to the user, everything else
\* that is wrong goes to the client.
ValidateClient(p) ==
    IF ~client.live \/ p.uri \notin client.uris THEN "page"
    ELSE IF /\ p.valid
            /\ "none" \in p.prompt => p.prompt = {"none"}
            /\ client.code
            /\ "openid" \in p.scopes
            /\ client.public => p.pkce
            /\ p.scopes \subseteq client.scopes
         THEN "ok" ELSE "redirect"

Authorize(t, p) ==
    /\ Open(t, "authorize")
    /\ Opened(t, "validate", p)
    /\ UNCHANGED <<db, browser, now, regvars, scenario>>

Validate(t) ==
    /\ tab[t].pc \in {"validate", "revalidate"}
    /\ LET v == ValidateClient(tab[t].p)
       IN IF v # "ok" THEN Answer(t, v)
          ELSE tab' = [tab EXCEPT ![t].pc = IF @ = "validate" THEN "session" ELSE "resession",
                                  ![t].skip = client.skip]
    /\ UNCHANGED <<db, browser, now, log, regvars, scenario>>

\* To the login page, or an error for the client that wants no page.  The prompt
\* goes and the session stays, whatever the reason CurrentSession failed for.
ToLogin(t) ==
    IF "none" \in tab[t].p.prompt THEN Answer(t, "redirect")
    ELSE tab' = [tab EXCEPT ![t] = [Sent(t, "login", withoutPrompt(tab[t].p), browser.cookie)
                                        EXCEPT !.kept = @ \/ GetSession(tab[t].cookie) # {}]]

\* There is no session, or it is over, or the account is disabled.
LoginRequired(t) ==
    /\ tab[t].pc = "session"
    /\ CurrentSession(tab[t].cookie) = {}
    /\ ToLogin(t)
    /\ db' = [db EXCEPT !.sessions = AfterGet(tab[t].cookie)]
    /\ UNCHANGED <<browser, now, log, regvars, scenario>>

\* The session or the user could not be read: to GET /authorize and POST /consent
\* the user is not signed in, and the login page shows its form.
SessionUnread(t) ==
    /\ log.faults < scenario.faults
    /\ log' = [log EXCEPT !.faults = @ + 1]
    /\ \/ tab[t].pc = "session" /\ ToLogin(t) /\ UNCHANGED browser
       \/ tab[t].pc = "resession" /\ Send(t, "login", tab[t].p) /\ UNCHANGED browser
       \/ tab[t].pc = "login" /\ Goto(t, "loginform") /\ browser' = GenerateToken(t)
    /\ UNCHANGED <<db, now, regvars, scenario>>

FreshLoginRequired(t) ==
    /\ tab[t].pc = "session"
    /\ \E s \in CurrentSession(tab[t].cookie) : RequiresFreshLogin(tab[t].p, s.at)
    /\ IF "none" \in tab[t].p.prompt
       THEN Answer(t, "redirect") /\ UNCHANGED <<db, browser>>
       ELSE /\ tab' = [tab EXCEPT ![t] = Sent(t, "login", withoutPrompt(tab[t].p), 0)]
            /\ db' = [db EXCEPT !.sessions = DeleteSession(tab[t].cookie)]
            /\ browser' = ClearedCookies
    /\ UNCHANGED <<now, log, regvars, scenario>>

SessionFound(t) ==
    /\ tab[t].pc = "session"
    /\ \E s \in CurrentSession(tab[t].cookie) :
        /\ ~RequiresFreshLogin(tab[t].p, s.at)
        /\ tab' = [tab EXCEPT ![t].pc = "granted", ![t].at = s.at]
    /\ UNCHANGED <<db, browser, now, log, regvars, scenario>>

coversSome(scopes) == scopes \cap db.consent # {}

Covers(scopes) == scopes \subseteq db.consent

\* A first-party client (SkipConsent, as read before) needs no consent.
IsGranted(skip, scopes) == skip \/ Covers(scopes)

CheckConsent(t) ==
    /\ tab[t].pc = "granted"
    /\ LET p == tab[t].p
       IN IF IsGranted(tab[t].skip, p.scopes) /\ "consent" \notin p.prompt
          THEN Goto(t, "issue") /\ UNCHANGED browser
          ELSE IF "none" \in p.prompt
          THEN Answer(t, "redirect") /\ UNCHANGED browser
          ELSE Goto(t, "consent") /\ browser' = GenerateToken(t)
    /\ UNCHANGED <<db, now, log, regvars, scenario>>

\* The code needs the client's row: a foreign key.
issueCode(t) ==
    /\ tab[t].pc = "issue"
    /\ db' = IF client.live THEN [db EXCEPT !.codes = @ \cup {tab[t].id}] ELSE db
    /\ Answer(t, "redirect")
    /\ UNCHANGED <<browser, now, log, regvars, scenario>>

-----------------------------------------------------------------------------
(* GET and POST /login.                                                    *)

\* Whoever has a session goes straight back.
LoginPage(t) ==
    /\ tab[t].pc = "login"
    /\ IF GetSession(browser.cookie) # {}
       THEN Send(t, "validate", tab[t].p) /\ UNCHANGED browser
       ELSE Goto(t, "loginform") /\ browser' = GenerateToken(t)
    /\ db' = [db EXCEPT !.sessions = AfterGet(browser.cookie)]
    /\ UNCHANGED <<now, log, regvars, scenario>>

\* The form of another tab took the cookie, or it is too old, or the account
\* is disabled: the page again, with a new form.
LoginRefused(t) ==
    /\ tab[t].pc = "loginform"
    /\ ~ValidateToken(t) \/ ~db.active
    /\ browser' = GenerateToken(t)
    /\ UNCHANGED <<db, tab, now, log, regvars, scenario>>

LoginAccepted(t) ==
    /\ tab[t].pc = "loginform"
    /\ ValidateToken(t) /\ db.active
    /\ tab' = [tab EXCEPT ![t].pc = "startsession", ![t].cookie = browser.cookie]
    /\ UNCHANGED <<db, browser, now, log, regvars, scenario>>

UnusedIds == 1..MaxSessions \ ({s.id : s \in db.sessions} \cup {browser.cookie} \cup {tab[t].cookie : t \in Tabs})

RotateSession(t) ==
    /\ tab[t].pc = "startsession"
    /\ UnusedIds # {}
    /\ LET new == CHOOSE i \in UnusedIds : \A j \in UnusedIds : i <= j
       IN /\ db' = [db EXCEPT !.sessions = DeleteSession(tab[t].cookie) \cup {[id |-> new, at |-> now]}]
          /\ browser' = [ClearedCookies EXCEPT !.cookie = new]
          /\ tab' = [tab EXCEPT ![t] = [Sent(t, "validate", tab[t].p, new) EXCEPT !.kept = FALSE]]
    /\ UNCHANGED <<now, log, regvars, scenario>>

-----------------------------------------------------------------------------
(* POST /consent: the request starts over with what the form carries.      *)

Consent(t, allow) ==
    /\ tab[t].pc = "consent"
    /\ IF ValidateToken(t)
       THEN tab' = [tab EXCEPT ![t] = [Sent(t, "revalidate", tab[t].p, browser.cookie) EXCEPT !.allow = allow]]
       ELSE Answer(t, "page")
    /\ UNCHANGED <<db, browser, now, log, regvars, scenario>>

neverOutlived(p, at) == FALSE

\* A consent page left open can outlive max_age.
OutlivedMaxAge(p, at) == p.maxAge >= 0 /\ RequiresFreshLogin(p, at)

ConsentSession(t) ==
    /\ tab[t].pc = "resession"
    /\ LET p == tab[t].p
           S == CurrentSession(tab[t].cookie)
       IN \/ S = {} /\ Send(t, "login", p)
          \/ \E s \in S :
              IF OutlivedMaxAge(p, s.at) THEN Send(t, "validate", p)
              ELSE IF ~tab[t].allow THEN Answer(t, "redirect")
              ELSE tab' = [tab EXCEPT ![t].pc = "grant", ![t].at = s.at]
    /\ db' = [db EXCEPT !.sessions = AfterGet(tab[t].cookie)]
    /\ UNCHANGED <<browser, now, log, regvars, scenario>>

unionScopes(granted, scopes) == granted \cup scopes

GetConsent(t) ==
    /\ tab[t].pc = "grant"
    /\ tab' = [tab EXCEPT ![t].pc = "upsert", ![t].stale = FALSE,
                          ![t].merged = unionScopes(db.consent, tab[t].p.scopes)]
    /\ UNCHANGED <<db, browser, now, log, regvars, scenario>>

\* Tabs that have read the consent and not yet written it.
Overtaken(tt) == [u \in Tabs |-> IF tt[u].pc = "upsert" THEN [tt[u] EXCEPT !.stale = TRUE] ELSE tt[u]]

Differ(a, b) == (a \ b) \cup (b \ a)

\* The consent row needs the client's row, as the code does.
UpsertConsent(t) ==
    /\ tab[t].pc = "upsert"
    /\ IF ~client.live THEN Answer(t, "redirect") /\ UNCHANGED <<db, log>>
       ELSE LET allowed == log.allowed \cup tab[t].p.scopes
                raced   == IF tab[t].stale THEN Differ(tab[t].merged, allowed) ELSE {}
                seen(k) == [k EXCEPT !.allowed = @ \cup allowed, !.raced = @ \cup raced]
                T       == Overtaken([tab EXCEPT ![t].pc = "issue"])
            IN /\ db' = [db EXCEPT !.consent = tab[t].merged]
               /\ log' = [log EXCEPT !.allowed = allowed, !.raced = @ \cup raced]
               /\ tab' = [u \in Tabs |-> IF T[u].pc = "blank" THEN T[u] ELSE seen(T[u])]
    /\ UNCHANGED <<browser, now, regvars, scenario>>

-----------------------------------------------------------------------------
(* The account page: withdrawing consent.                                  *)

AccountPage(t) ==
    /\ CurrentSession(browser.cookie) # {}
    /\ Open(t, "withdraw")
    /\ Opened(t, "account", NoParams)
    /\ browser' = GenerateToken(t)
    /\ UNCHANGED <<db, now, regvars, scenario>>

consentsDelete == [db EXCEPT !.consent = {}]

Withdrawn == [log EXCEPT !.allowed = {}, !.raced = {}]

RevokeConsent(t) ==
    /\ tab[t].pc = "account"
    /\ IF CurrentSession(browser.cookie) = {} \/ ~ValidateToken(t)
       THEN Answer(t, "page") /\ UNCHANGED <<db, log>>
       ELSE /\ db' = consentsDelete
            /\ tab' = [Overtaken(tab) EXCEPT ![t].pc = "list", ![t].had = db.tokens]
            /\ log' = Withdrawn
    /\ UNCHANGED <<browser, now, regvars, scenario>>

\* A list that cannot be read is taken for an empty one.
ListTokens(t) ==
    /\ tab[t].pc = "list"
    /\ \/ tab' = [tab EXCEPT ![t].pc = "revoke", ![t].listed = db.tokens]
       \/ tab' = [tab EXCEPT ![t].pc = "revoke", ![t].failed = TRUE]
    /\ UNCHANGED <<db, browser, now, log, regvars, scenario>>

noneRevoked(x) == db.tokens

tokensRevoke(x) == db.tokens \ {x}

\* A failure is ignored.
RevokeListed(t, x) ==
    /\ tab[t].pc = "revoke"
    /\ x \in tab[t].listed
    /\ \/ /\ db' = [db EXCEPT !.tokens = tokensRevoke(x)]
          /\ tab' = [tab EXCEPT ![t].listed = @ \ {x}]
       \/ /\ tab' = [tab EXCEPT ![t].listed = @ \ {x}, ![t].failed = TRUE]
          /\ UNCHANGED db
    /\ UNCHANGED <<browser, now, log, regvars, scenario>>

AccessRevoked(t) ==
    /\ tab[t].pc = "revoke"
    /\ tab[t].listed = {}
    /\ Answer(t, "page")
    /\ log' = [log EXCEPT !.cut = @ \cup (IF tab[t].failed THEN {} ELSE tab[t].had)]
    /\ UNCHANGED <<db, browser, now, regvars, scenario>>

\* The administrator's withdrawal leaves the tokens alone.
RevokeUserConsent ==
    /\ "revokeconsent" \in scenario.kinds
    /\ db.consent # {}
    /\ db' = consentsDelete
    /\ tab' = Overtaken(tab)
    /\ log' = Withdrawn
    /\ UNCHANGED <<browser, now, regvars, scenario>>

-----------------------------------------------------------------------------
(* Logout with a page of the client to return to.                          *)

Logout(t, p) ==
    /\ Open(t, "logout")
    /\ tab' = [tab EXCEPT ![t] = [Sent(t, "postlogout", p, 0) EXCEPT !.asked = p, !.start = now]]
    /\ db' = [db EXCEPT !.sessions = DeleteSession(browser.cookie)]
    /\ browser' = ClearedCookies
    /\ UNCHANGED <<now, regvars, scenario>>

PostLogoutRedirect(t) ==
    /\ tab[t].pc = "postlogout"
    /\ Answer(t, IF client.live /\ tab[t].p.uri \in client.uris THEN "redirect" ELSE "page")
    /\ UNCHANGED <<db, browser, now, log, regvars, scenario>>

-----------------------------------------------------------------------------
(* Everybody else.                                                         *)

\* The client exchanges a code for a refresh token (module TokenGrants); the
\* code of a disabled user is consumed for nothing.
Redeem(c) ==
    /\ c \in db.codes
    /\ db' = [db EXCEPT !.codes = @ \ {c}, !.tokens = IF db.active THEN @ \cup {c} ELSE @]
    /\ UNCHANGED <<browser, tab, now, log, regvars, scenario>>

\* Tokens first, then the row and, by cascade, all that belongs to it.
DeleteClient(o) ==
    \/ /\ Begin(o, "delete-client")
       /\ client.live
       /\ db' = [db EXCEPT !.tokens = {}]
       /\ op' = [op EXCEPT ![o] = [Free EXCEPT !.pc = "drop"]]
       /\ reglog' = Began
       /\ UNCHANGED <<browser, tab, now, log, client, groups, scenario>>
    \/ /\ DropClient(o)
       /\ db' = [db EXCEPT !.consent = {}, !.codes = {}, !.tokens = {}]
       /\ tab' = Overtaken(tab)
       /\ log' = Withdrawn
       /\ UNCHANGED <<browser, now>>

\* The account is disabled, then its sessions are deleted and its tokens revoked;
\* a failure of either is logged.
DisableUser ==
    /\ \/ /\ "disable" \in scenario.kinds
          /\ db.active /\ log.disabling = "no"
          /\ db' = [db EXCEPT !.active = FALSE]
          /\ log' = [log EXCEPT !.disabling = "sessions"]
       \/ /\ log.disabling = "sessions"
          /\ db' \in {[db EXCEPT !.sessions = {}], db}
          /\ log' = [log EXCEPT !.disabling = "tokens"]
       \/ /\ log.disabling = "tokens"
          /\ db' \in {[db EXCEPT !.tokens = {}], db}
          /\ log' = [log EXCEPT !.disabling = "no"]
    /\ UNCHANGED <<browser, tab, now, regvars, scenario>>

\* Another administrator may do this before the disabling has come to its end.
EnableUser ==
    /\ "enable" \in scenario.kinds
    /\ ~db.active
    /\ db' = [db EXCEPT !.active = TRUE]
    /\ UNCHANGED <<browser, tab, now, log, regvars, scenario>>

\* Maintenance deletes the sessions that are over.
DeleteExpiredSessions ==
    /\ \E s \in db.sessions : now >= s.at + SessionTTL
    /\ db' = [db EXCEPT !.sessions = {s \in @ : now < s.at + SessionTTL}]
    /\ UNCHANGED <<browser, tab, now, log, regvars, scenario>>

Register ==
    /\ RegistryNext
    /\ tab' = [t \in Tabs |-> IF tab[t].pc = "blank" THEN tab[t]
                              ELSE [tab[t] EXCEPT !.rows = @ \cup {client'}]]
    /\ UNCHANGED <<db, browser, now, log>>

Tick ==
    /\ now < scenario.time
    /\ now' = now + 1
    /\ UNCHANGED <<db, browser, tab, log, regvars, scenario>>

\* A request the server is handling goes on.
Serve(t) ==
    \/ Validate(t) \/ LoginRequired(t) \/ SessionUnread(t) \/ FreshLoginRequired(t) \/ SessionFound(t)
    \/ CheckConsent(t) \/ issueCode(t)
    \/ LoginPage(t) \/ RotateSession(t)
    \/ ConsentSession(t) \/ GetConsent(t) \/ UpsertConsent(t)
    \/ ListTokens(t) \/ (\E x \in tab[t].listed : RevokeListed(t, x)) \/ AccessRevoked(t)
    \/ PostLogoutRedirect(t)

\* The user acts on the page the tab shows.
Submit(t) ==
    \/ LoginRefused(t)
    \/ LoginAccepted(t)
    \/ \E allow \in BOOLEAN : Consent(t, allow)
    \/ RevokeConsent(t)

Next ==
    \/ \E t \in Tabs, p \in scenario.params : Authorize(t, p) \/ Logout(t, p)
    \/ \E t \in Tabs : AccountPage(t)
    \/ \E t \in Tabs : Serve(t)
    \/ \E t \in Tabs : Submit(t)
    \/ RevokeUserConsent
    \/ \E c \in db.codes : Redeem(c)
    \/ \E o \in Operators : DeleteClient(o)
    \/ DisableUser
    \/ EnableUser
    \/ DeleteExpiredSessions
    \/ Register
    \/ Tick

\* The server handles every request and the user stays with the task: acts on
\* the page shown and, among several login forms, submits the last one in time.
Spec ==
    /\ Init /\ [][Next]_vars
    /\ \A t \in Tabs : WF_vars(Serve(t)) /\ WF_vars(Submit(t)) /\ SF_vars(LoginAccepted(t))

-----------------------------------------------------------------------------
(* Properties.                                                             *)

\* TypeOK: rows, sessions and cookies keep their shape, a session id names one
\* session (RotateSession), and a confidential client has a secret.
TypeOK ==
    /\ RegistryTypeOK
    /\ db.sessions \subseteq [id: 1..MaxSessions, at: 0..now]
    /\ \A s, u \in db.sessions : s.id = u.id => s = u
    /\ browser.cookie \in 0..MaxSessions
    /\ browser.form \in Tabs \cup {NoForm}
    /\ \A t \in Tabs : tab[t].from <= now /\ tab[t].start <= tab[t].from

\* The browser leaves for the client's page only under a URI that the client had
\* registered at some time during the request (an error included), and a code is
\* only issued within the scopes and under the rules of such a row: the consent
\* form re-validates the request it carries.
WithinRegistration ==
    [][\A t \in Tabs : tab[t].pc # "blank" /\ tab'[t].out = "redirect" /\ tab'[t].pc = "blank" =>
        \E c \in tab[t].rows :
            /\ tab[t].p.uri \in c.uris
            /\ tab[t].pc = "issue" => c.code /\ tab[t].p.scopes \subseteq c.scopes /\ (c.public => tab[t].p.pkce)]_vars

\* A code for a client that needs consent covers only scopes the user had
\* allowed it and not withdrawn when the request began, or allowed during it.  The
\* exception are scopes that the stored consent had, then or later, because a
\* grant that read the row before a withdrawal or another grant wrote it back.
CodeWasAllowed ==
    [][\A t \in Tabs : tab[t].pc = "issue" /\ tab'[t].pc # "issue" =>
        tab[t].skip \/ tab[t].p.scopes \subseteq tab[t].allowed \cup tab[t].raced]_vars

\* The stored consent is what the user allowed since the last withdrawal: a
\* narrower request never loses a wider one (Grant).  The exception are scopes
\* of a grant that read the row before another grant or withdrawal wrote it.
ConsentAsAllowed == Differ(db.consent, log.allowed) \subseteq log.raced

\* A request with prompt=login or select_account gets a code only for a sign-in
\* made after it began; one with max_age only for such a sign-in or one no older
\* than max_age when its last request began, also if the consent page stayed open.
\* The exception is a tab for which GET /authorize took a session that was there
\* for none, after a read that failed or while the account was disabled, and that
\* has not signed in since: Logout is called only for a session that was found.
FreshLogin ==
    [][\A t \in Tabs : LET k == tab[t] IN k.pc = "issue" /\ tab'[t].pc # "issue" =>
        \/ k.at >= k.start
        \/ k.kept
        \/ k.asked.prompt \cap Fresh = {} /\ (k.asked.maxAge >= 0 => k.from - k.at <= k.asked.maxAge)]_vars

\* Once RevokeConsent on the account page has been answered, without a failure
\* it ignored, the refresh tokens the client held when it began are dead.
WithdrawnAccessEnds == db.tokens \cap log.cut = {}

\* No tab goes round in circles: while the account is active, every request
\* ends in a page or back at the client, because what the login page returns to
\* no longer asks for a fresh login.  It cannot show that max_age goes as well:
\* the clock stops, and then a session is never too old again.
FlowsEnd == \A t \in Tabs : tab[t].pc # "blank" ~> (tab[t].pc = "blank" \/ ~db.active)
=============================================================================
