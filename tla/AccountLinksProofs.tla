------------------------- MODULE AccountLinksProofs -------------------------
(***************************************************************************)
(* Proofs about one account's links, passwords and sign-outs, for any      *)
(* number of requests at the same time.                                    *)
(*                                                                         *)
(* A handler runs statement by statement between the statements of the     *)
(* others.  The invariants therefore say, for a request in the middle of   *)
(* its work, what already holds of everything the later statements will    *)
(* rely on; that ids are drawn one after the other keeps what one request  *)
(* makes apart from what another has seen.                                 *)
(***************************************************************************)
EXTENDS AccountLinks, FiniteSetTheorems, TLAPS

\* Ids drawn so far when n requests started.
Upto(n) == 0..n

Pws(n) == 0..n \cup {Placeholder}

RowSet(n) == [live: BOOLEAN, active: BOOLEAN, pw: Pws(n), addr: Addresses, verified: BOOLEAN]

LinkSet(n) == [id: Upto(n), purpose: Purposes, expires: Nat, used: BOOLEAN, to: Addresses, over: SUBSET Upto(n)]

SessionSet(n) == [id: Upto(n), pw: Upto(n)]

\* The kinds of request that are found at each statement.
KindsAt ==
    [idle     |-> {"none"},
     throttle |-> {"forgot"},
     clear    |-> {"forgot", "send", "create"},
     issue    |-> {"forgot", "send", "create"},
     mark     |-> {"reset", "verify"},
     load     |-> {"reset", "verify"},
     save     |-> {"verify", "update"},
     write    |-> PasswordKinds,
     list     |-> {"others", "one"},
     sessions |-> PasswordKinds \cup {"others", "one", "revokeall", "update", "delete"},
     tokens   |-> PasswordKinds \cup {"others", "revokeall", "update", "delete"},
     links    |-> {"reset", "change", "setpw", "delete", "verify"},
     erase    |-> {"delete"},
     open     |-> {"login"}]

Kinds == {"none", "forgot", "send", "create", "reset", "verify", "update", "change", "setpw", "passwd",
          "others", "one", "revokeall", "delete", "login"}

Pcs == {"idle", "throttle", "clear", "issue", "mark", "load", "save", "write", "list", "sessions",
        "tokens", "links", "erase", "open"}

ReqSet(n) ==
    [kind: Kinds, pc: Pcs, id: Upto(n), row: RowSet(n), link: Ids, purpose: Purposes, more: BOOLEAN,
     listed: SUBSET Ids, failed: BOOLEAN, seen: SUBSET Upto(n), cut: SUBSET Upto(n),
     over: SUBSET Upto(n), old: Pws(n)]

Issuing(q) == q.pc \in {"throttle", "clear", "issue"}

\* A request at work: its id, its kind, and what its fields are for.
Active(q) ==
    /\ q.pc # "idle" /\ q.id >= 2 /\ q.kind \in KindsAt[q.pc]
    /\ q.pc = "open" => q.row.pw # Placeholder
    /\ Issuing(q) /\ q.more => q.purpose = "reset"
    /\ q.old # 0 => q.kind \in PasswordKinds
    /\ q.pc = "sessions" /\ q.kind \in {"others", "one"} => q.seen \subseteq q.listed

DbSet(n) == [user: RowSet(n), links: SUBSET LinkSet(n), sessions: SUBSET SessionSet(n), tokens: SUBSET Upto(n)]

LogSet(n) ==
    [started: {n}, gone: SUBSET Upto(n), cut: SUBSET Upto(n), done: SUBSET Pws(n), raced: SUBSET Upto(n),
     revived: SUBSET Pws(n), used: SUBSET (Upto(n) \X Purposes), reused: BOOLEAN,
     mailed: [Addresses -> SUBSET Ids], since: Nat, proved: SUBSET Addresses]

Shapes ==
    /\ log.started \in 1..MaxRequests
    /\ db \in DbSet(log.started)
    /\ mem \in [Addresses -> Nat]
    /\ req \in [Requests -> ReqSet(log.started)]
    /\ \A r \in Requests : req[r] = Idle \/ Active(req[r])
    /\ now \in Nat
    /\ scenario \in Scenarios
    /\ log \in LogSet(log.started)

\* No two requests at work have one id.
IdsApart == \A r, x \in Requests : req[r] # Idle /\ req[x] # Idle /\ req[r].id = req[x].id => r = x

\* A self-service request the throttle let pass, whose mail is yet to leave.
Passed(q, a) == q.kind = "forgot" /\ q.pc \in {"clear", "issue"} /\ q.row.addr = a

\* The requests that passed the throttle for an address since the start.
Owed(a) == log.mailed[a] \cup {req[r].id : r \in {x \in Requests : Passed(req[x], a)}}

\* They are counted, not the mails alone: the throttle remembers when the
\* last of them passed, and those before passed at least an interval apart.
MailsRecorded ==
    /\ now >= 1 /\ log.since <= now
    /\ \A a \in Addresses :
          /\ mem[a] <= now /\ (mem[a] # 0 => log.since <= mem[a])
          /\ Owed(a) # {} => mem[a] # 0 /\ (Cardinality(Owed(a)) - 1) * ResetInterval <= mem[a] - log.since

\* The purposes for which a request at work will still issue a link.
Due(q) == IF q.more THEN {q.purpose, "verify"} ELSE {q.purpose}

LinkTo(id, p) == {l \in db.links : l.id = id /\ l.purpose = p}

\* A link that was followed is marked; one to be issued is not there yet and
\* was not followed.
UsedMarked ==
    /\ ~log.reused
    /\ \A l \in db.links : <<l.id, l.purpose>> \in log.used => l.used
    /\ \A r \in Requests : Issuing(req[r]) => \A p \in Due(req[r]) :
           <<req[r].id, p>> \notin log.used /\ LinkTo(req[r].id, p) = {}

\* A link to be issued is not among those another one replaces, and when it is
\* stored those that it replaces are gone.
Replacing ==
    /\ EarlierLinksReplaced
    /\ \A r \in Requests : Issuing(req[r]) => \A p \in Due(req[r]) :
           /\ \A m \in db.links : m.purpose = p => req[r].id \notin m.over
           /\ \A x \in Requests : Issuing(req[x]) /\ req[x].purpose = p => req[r].id \notin req[x].over
    /\ \A r \in Requests : req[r].pc = "issue" =>
           \A l \in db.links : l.purpose = req[r].purpose => l.id \notin req[r].over

\* A session to be opened was seen by nobody; those a request has ended stay
\* ended, and so do the tokens.
PastSessions(q) == q.pc \in {"tokens", "links"} /\ q.kind # "verify" /\ ~q.failed

PastTokens(q) == q.pc = "links" /\ q.kind # "verify" /\ ~q.failed

SignedOut ==
    /\ SignOutIsReal
    /\ \A r \in Requests : req[r].pc = "open" =>
           /\ req[r].id \notin SessionIds /\ req[r].id \notin log.gone
           /\ \A x \in Requests : req[r].id \notin req[x].seen
    /\ \A r \in Requests : PastSessions(req[r]) => req[r].seen \cap SessionIds = {}
    /\ \A r \in Requests : PastTokens(req[r]) => db.tokens = {}

\* A password that was replaced, by a request that is over or still at work.
Replaced(p, h, q) == p # 0 /\ p # Placeholder /\ (p \in h.done \/ \E r \in Requests : q[r].old = p)

\* Who has a replaced password raced with the change, or it was revived.
Excused(id, p, h) == id \in h.raced \/ p \in h.revived

BeforeWrite(q) == q.kind \in PasswordKinds /\ q.pc \in {"mark", "load", "write"}

LockedOut ==
    /\ Replaced(db.user.pw, log, req) => db.user.pw \in log.revived
    /\ \A r \in Requests : req[r].pc = "open" /\ Replaced(req[r].row.pw, log, req) => Excused(req[r].id, req[r].row.pw, log)
    /\ \A s \in db.sessions : s.pw \in log.done /\ s.pw # 0 => Excused(s.id, s.pw, log)
    /\ \A r \in Requests : PastSessions(req[r]) =>
           \A s \in db.sessions : s.pw = req[r].old /\ s.pw # 0 => Excused(s.id, s.pw, log)
    /\ \A r \in Requests : BeforeWrite(req[r]) =>
           /\ ~Replaced(req[r].id, log, req) /\ req[r].id # db.user.pw
           /\ \A x \in Requests : req[x].row.pw # req[r].id
    /\ 0 \notin log.done

AccountInv == Shapes /\ IdsApart /\ NoOrphans /\ MailsRecorded /\ UsedMarked /\ Replacing /\ SignedOut /\ LockedOut
-----------------------------------------------------------------------------
(* Shapes.                                                                 *)

\* What has its shape keeps it when more ids are drawn.
LEMMA Grow ==
  ASSUME NEW n \in Nat, NEW m \in Nat, n <= m
  PROVE  /\ Upto(n) \subseteq Upto(m) /\ Pws(n) \subseteq Pws(m) /\ RowSet(n) \subseteq RowSet(m)
         /\ LinkSet(n) \subseteq LinkSet(m) /\ SessionSet(n) \subseteq SessionSet(m)
         /\ ReqSet(n) \subseteq ReqSet(m)
<1>1. Upto(n) \subseteq Upto(m) /\ Pws(n) \subseteq Pws(m)
  BY DEF Upto, Pws
<1>2. RowSet(n) \subseteq RowSet(m)
  BY <1>1 DEF RowSet
<1>3. LinkSet(n) \subseteq LinkSet(m) /\ SessionSet(n) \subseteq SessionSet(m)
  BY <1>1 DEF LinkSet, SessionSet
<1>4. ReqSet(n) \subseteq ReqSet(m)
  <2> HIDE DEF RowSet, Pws, Upto
  <2> QED BY <1>1, <1>2 DEF ReqSet
<1> QED BY <1>1, <1>2, <1>3, <1>4

\* The empty row, and a worker with no request.
LEMMA IdleType ==
  ASSUME NEW n \in Nat
  PROVE  /\ NoRow \in RowSet(n) /\ Idle \in ReqSet(n) /\ ~NoRow.live /\ NoRow.pw = 0
         /\ Idle.pc = "idle" /\ Idle.id = 0 /\ Idle.row = NoRow /\ Idle.seen = {} /\ Idle.old = 0
         /\ Idle.over = {} /\ Idle.kind = "none"
<1>1. (CHOOSE a \in Addresses : TRUE) \in Addresses
  BY AccountLinksAssumption
<1>2. NoRow \in RowSet(n)
  BY <1>1, AccountLinksAssumption DEF NoRow, RowSet, Pws
<1>3. 0 \in Ids /\ 0 \in Upto(n) /\ 0 \in Pws(n)
  BY AccountLinksAssumption DEF Ids, Upto, Pws
<1>4. Idle \in ReqSet(n)
  BY <1>2, <1>3 DEF Idle, ReqSet, Kinds, Pcs, Purposes
<1> QED BY <1>2, <1>4 DEF Idle, NoRow

\* The shapes of a state in pieces.
LEMMA Pieces ==
  ASSUME Shapes
  PROVE  /\ log.started \in 1..MaxRequests /\ log.started \in Nat /\ MaxRequests \in Nat
         /\ db.user \in RowSet(log.started) /\ db.links \subseteq LinkSet(log.started)
         /\ db.sessions \subseteq SessionSet(log.started) /\ db.tokens \subseteq Upto(log.started)
         /\ SessionIds \subseteq Upto(log.started)
         /\ db = [user |-> db.user, links |-> db.links, sessions |-> db.sessions, tokens |-> db.tokens]
         /\ \A r \in Requests : req[r] \in ReqSet(log.started) /\ (req[r] = Idle \/ Active(req[r]))
         /\ Upto(log.started) \subseteq Ids
BY AccountLinksAssumption DEF Shapes, DbSet, SessionIds, SessionSet, Upto, Ids

\* Drawing one more id keeps every shape.
LEMMA GrowOne ==
  ASSUME Shapes
  PROVE  /\ log.started + 1 \in Nat /\ log.started + 1 >= 2 /\ log.started + 1 \in Upto(log.started + 1)
         /\ Upto(log.started) \subseteq Upto(log.started + 1) /\ Pws(log.started) \subseteq Pws(log.started + 1)
         /\ RowSet(log.started) \subseteq RowSet(log.started + 1)
         /\ LinkSet(log.started) \subseteq LinkSet(log.started + 1)
         /\ SessionSet(log.started) \subseteq SessionSet(log.started + 1)
         /\ ReqSet(log.started) \subseteq ReqSet(log.started + 1)
<1>1. /\ log.started \in Nat /\ log.started + 1 \in Nat /\ log.started <= log.started + 1 /\ log.started + 1 >= 2
      /\ log.started + 1 \in 0..(log.started + 1)
  BY Pieces
<1> QED BY <1>1, Grow DEF Upto

\* A step of one request that draws no id.
LEMMA StepShapes ==
  ASSUME Shapes, NEW r \in Requests, NEW c \in ReqSet(log.started), c = Idle \/ Active(c),
         req' = [req EXCEPT ![r] = c],
         db' \in DbSet(log.started), log' \in LogSet(log.started), mem' \in [Addresses -> Nat],
         now' = now, scenario' = scenario
  PROVE  Shapes' /\ req'[r] = c /\ log'.started = log.started /\ \A x \in Requests \ {r} : req'[x] = req[x]
<1>1. log'.started = log.started
  BY DEF LogSet
<1>2. req' \in [Requests -> ReqSet(log.started)] /\ req'[r] = c /\ \A x \in Requests \ {r} : req'[x] = req[x]
  BY DEF Shapes
<1> QED BY <1>1, <1>2 DEF Shapes

\* A step that starts a request draws the next id.
LEMMA StartShapes ==
  ASSUME Shapes, NEW r \in Requests, log.started < MaxRequests,
         NEW c \in ReqSet(log.started + 1), c = Idle \/ Active(c),
         req' = [req EXCEPT ![r] = c],
         db' \in DbSet(log.started + 1), log' \in LogSet(log.started + 1),
         UNCHANGED <<mem, now, scenario>>
  PROVE  Shapes' /\ req'[r] = c /\ log'.started = log.started + 1 /\ \A x \in Requests \ {r} : req'[x] = req[x]
<1>1. log'.started = log.started + 1 /\ log'.started \in 1..MaxRequests
  BY Pieces DEF LogSet
<1>2. ReqSet(log.started) \subseteq ReqSet(log.started + 1)
  BY Grow, Pieces
<1>3. req' \in [Requests -> ReqSet(log.started + 1)] /\ req'[r] = c /\ \A x \in Requests \ {r} : req'[x] = req[x]
  BY <1>2 DEF Shapes
<1> QED BY <1>1, <1>3 DEF Shapes

LinkIds(p) == {l.id : l \in {l \in db.links : l.purpose = p}}

\* A new request: the record Begin's callers make.
NewReq(k, pc, p) ==
    [Idle EXCEPT !.kind = k, !.pc = pc, !.id = NextId, !.row = db.user,
                 !.purpose = p, !.seen = SessionIds, !.cut = db.tokens,
                 !.over = {l.id : l \in {l \in db.links : l.purpose = p}}]

\* It knows the id drawn, the row, and the sessions, tokens and links there are.
LEMMA NewReqType ==
  ASSUME Shapes, NEW k \in Kinds, NEW pc \in Pcs \ {"idle"}, k \in KindsAt[pc], NEW p \in Purposes,
         pc = "sessions" => k \notin {"others", "one"}, pc = "open" => db.user.pw # Placeholder
  PROVE  /\ NewReq(k, pc, p) \in ReqSet(log.started + 1) /\ Active(NewReq(k, pc, p))
<1> DEFINE c == NewReq(k, pc, p)
           over == LinkIds(p)
<1>1. /\ c.kind = k /\ c.pc = pc /\ c.id = log.started + 1 /\ c.row = db.user /\ c.purpose = p
      /\ c.more = FALSE /\ c.seen = SessionIds /\ c.cut = db.tokens /\ c.failed = FALSE /\ c.old = 0
      /\ c.over = over
  BY DEF NewReq, Idle, NextId, LinkIds
<1>2. /\ NextId \in Upto(log.started + 1) /\ db.user \in RowSet(log.started + 1)
      /\ SessionIds \in SUBSET Upto(log.started + 1) /\ db.tokens \in SUBSET Upto(log.started + 1)
      /\ log.started + 1 \in Nat /\ log.started + 1 >= 2
  BY Grow, Pieces DEF NextId, Upto
<1>3. over \in SUBSET Upto(log.started + 1)
  BY Grow, Pieces DEF LinkSet, LinkIds
<1>4. c \in ReqSet(log.started + 1)
  <2>1. Idle \in ReqSet(log.started + 1)
    BY <1>2, IdleType
  <2> HIDE DEF over
  <2>2. c = [Idle EXCEPT !.kind = k, !.pc = pc, !.id = NextId, !.row = db.user,
                 !.purpose = p, !.seen = SessionIds, !.cut = db.tokens, !.over = over]
    BY DEF NewReq, over, LinkIds
  <2> HIDE DEF c
  <2> QED BY <1>2, <1>3, <2>1, <2>2 DEF ReqSet
<1>5. Active(c)
  <2> HIDE DEF c
  <2> QED BY <1>1, <1>2 DEF Active, Issuing
<1> QED BY <1>4, <1>5

-----------------------------------------------------------------------------
(* Starting a request.                                                     *)

Others(r) == \A x \in Requests \ {r} : req'[x] = req[x]

\* The history that only later statements extend.
SameHistory ==
    /\ log'.gone = log.gone /\ log'.cut = log.cut /\ log'.done = log.done /\ log'.raced = log.raced
    /\ log'.revived = log.revived /\ log'.used = log.used
    /\ log'.mailed = log.mailed /\ log'.since = log.since

FreshReq(c) ==
    /\ c.id = log.started + 1 /\ c.seen = SessionIds /\ c.old = 0
    /\ c.over = LinkIds(c.purpose)
    /\ c.pc \notin {"issue", "tokens", "links", "erase"}
    /\ c.pc = "open" => c.row = db.user
    /\ c.kind # "create" => c.row.pw = db.user.pw
    /\ c.kind = "forgot" => c.pc # "clear"

Begun(r) ==
    /\ Shapes'
    /\ req[r] = Idle /\ Others(r) /\ log'.started = log.started + 1
    /\ req'[r] = Idle \/ FreshReq(req'[r])
    /\ db'.links = db.links /\ db'.sessions = db.sessions /\ db'.tokens \subseteq db.tokens
    /\ mem' = mem /\ now' = now /\ SameHistory
    /\ \/ db'.user = db.user
       \/ /\ db.user = NoRow /\ db'.user.live /\ db'.user.pw \in {Placeholder, log.started + 1}
          /\ req'[r] = Idle \/ req'[r].kind = "create"
    /\ req'[r].kind = "create" => req'[r].row = db'.user
    /\ log'.reused => log.reused \/ \E p \in Purposes, id \in Ids : linksUsable(id, p) # {} /\ <<id, p>> \in log.used

\* Starting extends the history by the id, a reused link or a proved address.
LEMMA StartLog ==
  ASSUME Shapes,
         \/ log' = [log EXCEPT !.started = NextId]
         \/ \E b \in BOOLEAN : log' = [log EXCEPT !.started = NextId, !.reused = b]
         \/ \E s \in SUBSET Addresses : log' = [log EXCEPT !.started = NextId, !.proved = s]
  PROVE  log' \in LogSet(log.started + 1) /\ SameHistory /\ log'.started = log.started + 1
<1> DEFINE n == log.started
<1>1. n \in Nat /\ n + 1 \in Nat /\ Upto(n) \subseteq Upto(n + 1) /\ Pws(n) \subseteq Pws(n + 1)
  BY Pieces, GrowOne
<1>2. log \in LogSet(n)
  BY DEF Shapes
<1>3. log'.started = n + 1 /\ SameHistory
  BY <1>2 DEF SameHistory, NextId, LogSet
<1> HIDE DEF n
<1>4. Upto(n) \X Purposes \subseteq Upto(n + 1) \X Purposes
  BY <1>1
<1>5. NextId \in {n + 1}
  BY DEF n, NextId
<1>6. log' \in LogSet(n + 1)
  <2>1. CASE log' = [log EXCEPT !.started = NextId]
    BY <1>1, <1>2, <1>4, <1>5, <2>1 DEF LogSet
  <2>2. CASE \E b \in BOOLEAN : log' = [log EXCEPT !.started = NextId, !.reused = b]
    BY <1>1, <1>2, <1>4, <1>5, <2>2 DEF LogSet
  <2>3. CASE \E s \in SUBSET Addresses : log' = [log EXCEPT !.started = NextId, !.proved = s]
    BY <1>1, <1>2, <1>4, <1>5, <2>3 DEF LogSet
  <2> QED BY <2>1, <2>2, <2>3
<1> QED BY <1>3, <1>6 DEF n

\* The database keeps its shape when an id is drawn.
LEMMA StartDb ==
  ASSUME Shapes
  PROVE  /\ db \in DbSet(log.started + 1)
         /\ \A u \in RowSet(log.started + 1) : [db EXCEPT !.user = u] \in DbSet(log.started + 1)
         /\ \A t \in SUBSET db.tokens : [db EXCEPT !.tokens = t] \in DbSet(log.started + 1)
<1> DEFINE n == log.started
<1>1. n \in Nat /\ n + 1 \in Nat /\ Upto(n) \subseteq Upto(n + 1) /\ RowSet(n) \subseteq RowSet(n + 1)
      /\ LinkSet(n) \subseteq LinkSet(n + 1) /\ SessionSet(n) \subseteq SessionSet(n + 1)
  BY Pieces, Grow
<1>2. db \in DbSet(n)
  BY DEF Shapes
<1> HIDE DEF n
<1> QED BY <1>1, <1>2 DEF n, DbSet

\* Most requests only draw their id and read the database.
LEMMA PlainStart ==
  ASSUME Shapes, NEW r \in Requests, req[r] = Idle, log.started < MaxRequests,
         NEW k \in Kinds, NEW pc \in Pcs \ {"idle", "issue", "tokens", "links", "erase"}, k \in KindsAt[pc], NEW p \in Purposes,
         pc = "sessions" => k \notin {"others", "one"}, pc = "open" => db.user.pw # Placeholder,
         k # "create", k = "forgot" => pc # "clear", req' = New(r, k, pc, p) \/ req' = req, Started, UNCHANGED <<db, mem, now, scenario>>
  PROVE  Begun(r)
<1> DEFINE c == NewReq(k, pc, p)
<1>1. /\ c \in ReqSet(log.started + 1) /\ Active(c)
      /\ c.kind = k /\ c.pc = pc /\ c.id = log.started + 1 /\ c.row = db.user /\ c.purpose = p
      /\ c.seen = SessionIds /\ c.old = 0 /\ c.over = LinkIds(p)
  <2>1. pc \in Pcs \ {"idle"}
    OBVIOUS
  <2>2. NewReq(k, pc, p) \in ReqSet(log.started + 1) /\ Active(NewReq(k, pc, p))
    BY <2>1, NewReqType
  <2>3. /\ NewReq(k, pc, p).kind = k /\ NewReq(k, pc, p).pc = pc /\ NewReq(k, pc, p).id = log.started + 1
        /\ NewReq(k, pc, p).row = db.user /\ NewReq(k, pc, p).purpose = p
    BY DEF NewReq, Idle, NextId
  <2>4. NewReq(k, pc, p).seen = SessionIds /\ NewReq(k, pc, p).old = 0 /\ NewReq(k, pc, p).over = LinkIds(p)
    BY DEF NewReq, Idle, LinkIds
  <2> QED BY <2>2, <2>3, <2>4
<1>2. log' \in LogSet(log.started + 1) /\ SameHistory /\ log'.started = log.started + 1 /\ log'.reused = log.reused
  BY StartLog DEF Started, Shapes, LogSet
<1>3. db' \in DbSet(log.started + 1)
  BY StartDb
<1>4. CASE req' = req
  <2>1. req' = [req EXCEPT ![r] = Idle]
    BY <1>4 DEF Shapes
  <2>2. Idle \in ReqSet(log.started + 1)
    BY IdleType, Pieces
  <2>3. Shapes'
    BY <1>2, <1>3, <2>1, <2>2, StartShapes
  <2> QED BY <1>2, <1>4, <2>3, IdleType DEF Begun, Others
<1>5. CASE req' = New(r, k, pc, p)
  <2>1. req' = [req EXCEPT ![r] = c]
    BY <1>5 DEF New, NewReq
  <2> HIDE DEF c
  <2>2. Shapes' /\ req'[r] = c /\ Others(r)
    BY <1>1, <1>2, <1>3, <2>1, StartShapes DEF Others
  <2>3. FreshReq(req'[r])
    BY <1>1, <2>2 DEF FreshReq
  <2> QED BY <1>1, <1>2, <2>2, <2>3 DEF Begun
<1> QED BY <1>4, <1>5

\* Every request starts by drawing its id; only CreateUser writes a row, and
\* RevokeToken ends a token.
LEMMA StartFacts ==
  ASSUME Shapes, NEW r \in Requests, Request(r)
  PROVE  Begun(r)
<1> DEFINE n == log.started
<1>0. /\ n \in Nat /\ n + 1 \in Nat /\ n + 1 >= 2 /\ db.user \in RowSet(n + 1) /\ Idle \in ReqSet(n + 1)
      /\ \A s \in Scenarios : s.requests <= MaxRequests /\ s.requests \in Nat
      /\ scenario \in Scenarios /\ MaxRequests \in Nat
  BY Pieces, GrowOne, IdleType, AccountLinksAssumption DEF Shapes
<1>00. \A k : Begin(r, k) => req[r] = Idle /\ n < MaxRequests
  BY <1>0 DEF Begin
<1> HIDE DEF n
<1> USE DEF Kinds, Pcs, Purposes, KindsAt, PasswordKinds
<1>1. ASSUME NEW a \in Addresses, RequestPasswordReset(r, a) PROVE Begun(r)
  BY <1>00, <1>1, PlainStart DEF RequestPasswordReset, n
<1>2. ASSUME NEW p \in Purposes, SendLink(r, p) PROVE Begun(r)
  BY <1>00, <1>2, PlainStart DEF SendLink, n
<1>3. ASSUME NEW k \in {"change", "others"}, AccountForm(r, k) PROVE Begun(r)
  <2> DEFINE pc == IF k = "change" THEN "write" ELSE "list"
  <2>1. req' = New(r, k, pc, "reset") /\ pc \in {"write", "list"} /\ k \in KindsAt[pc]
    BY <1>3 DEF AccountForm
  <2> HIDE DEF pc
  <2> QED BY <1>00, <1>3, <2>1, PlainStart DEF AccountForm, n
<1>4. ASSUME NEW k \in {"setpw", "passwd", "revokeall", "delete"}, AdminForm(r, k) PROVE Begun(r)
  <2> DEFINE pc == IF k \in {"setpw", "passwd"} THEN "write" ELSE "sessions"
  <2>1. req' = New(r, k, pc, "reset") /\ pc \in {"write", "sessions"} /\ k \in KindsAt[pc]
    BY <1>4 DEF AdminForm
  <2> HIDE DEF pc
  <2> QED BY <1>00, <1>4, <2>1, PlainStart DEF AdminForm, n
<1>5. ASSUME RevokeUserSession(r) PROVE Begun(r)
  BY <1>00, <1>5, PlainStart DEF RevokeUserSession, n
<1>6. ASSUME Authenticate(r) PROVE Begun(r)
  BY <1>00, <1>6, PlainStart DEF Authenticate, n
<1>7. ASSUME NEW p \in Purposes, NEW id \in 1..MaxRequests, FollowLink(r, p, id) PROVE Begun(r)
  <2> DEFINE b == NewReq(p, "mark", p)
             c == [b EXCEPT !.link = id]
             hit == linksUsable(id, p) # {}
  <2>0. p \in Kinds /\ p \in KindsAt["mark"] /\ id \in Ids
    BY <1>0 DEF Ids
  <2>1. b \in ReqSet(n + 1) /\ Active(b)
    BY <2>0, NewReqType DEF n
  <2>2. c \in ReqSet(n + 1)
    <3> HIDE DEF b
    <3> QED BY <2>0, <2>1 DEF ReqSet
  <2>3. /\ c.pc = "mark" /\ c.kind = p /\ c.purpose = p /\ c.id = n + 1 /\ c.old = 0 /\ c.row = db.user
        /\ c.seen = SessionIds /\ c.over = LinkIds(p)
    BY DEF NewReq, Idle, NextId, LinkIds, n
  <2>4. Active(c)
    <3> HIDE DEF c
    <3> QED BY <1>0, <2>0, <2>3 DEF Active, Issuing
  <2>5. req[r] = Idle /\ n < MaxRequests /\ UNCHANGED <<db, mem, now, scenario>>
        /\ req' = (IF hit THEN [New(r, p, "mark", p) EXCEPT ![r].link = id] ELSE req)
        /\ log' = [log EXCEPT !.started = NextId, !.reused = @ \/ (hit /\ <<id, p>> \in log.used)]
    BY <1>00, <1>7 DEF FollowLink
  <2>6. req' = [req EXCEPT ![r] = IF hit THEN c ELSE Idle]
    <3>1. CASE hit
      <4>1. [New(r, p, "mark", p) EXCEPT ![r].link = id] = [req EXCEPT ![r] = c]
        <5>1. New(r, p, "mark", p) = [req EXCEPT ![r] = b]
          BY DEF New, NewReq
        <5> HIDE DEF b
        <5> QED BY <5>1 DEF Shapes
      <4> QED BY <2>5, <3>1, <4>1
    <3>2. CASE ~hit
      <4>1. req' = req /\ req[r] = Idle
        BY <2>5, <3>2
      <4> HIDE DEF c
      <4> QED BY <3>2, <4>1 DEF Shapes
    <3> QED BY <3>1, <3>2
  <2>7. log' \in LogSet(n + 1) /\ SameHistory /\ log'.started = n + 1
    <3>1. \E x \in BOOLEAN : log' = [log EXCEPT !.started = NextId, !.reused = x]
      BY <2>5 DEF Shapes, LogSet
    <3> QED BY <3>1, StartLog DEF n
  <2>8. log'.reused => log.reused \/ (hit /\ <<id, p>> \in log.used)
    BY <2>5 DEF Shapes, LogSet
  <2> DEFINE e == IF hit THEN c ELSE Idle
  <2>9. e \in ReqSet(n + 1) /\ (e = Idle \/ (Active(e) /\ FreshReq(e))) /\ e.kind # "create"
    <3>1. FreshReq(c)
      <4> HIDE DEF c
      <4> QED BY <2>0, <2>3 DEF FreshReq, n
    <3> HIDE DEF c, hit
    <3> QED BY <1>0, <2>2, <2>3, <2>4, <3>1, IdleType
  <2>10. db' \in DbSet(n + 1)
    BY <2>5, StartDb DEF n
  <2>11. req' = [req EXCEPT ![r] = e]
    BY <2>6
  <2> HIDE DEF e, c
  <2>12. Shapes' /\ req'[r] = e /\ Others(r)
    BY <2>5, <2>7, <2>9, <2>10, <2>11, StartShapes DEF Others, n
  <2> QED BY <2>0, <2>5, <2>7, <2>8, <2>9, <2>12 DEF Begun, n
<1>8. ASSUME RevokeToken(r) PROVE Begun(r)
  <2>1. /\ req[r] = Idle /\ n < MaxRequests /\ log' = [log EXCEPT !.started = NextId] /\ UNCHANGED <<req, mem, now, scenario>>
        /\ \E t \in db.tokens : db' = [db EXCEPT !.tokens = @ \ {t}]
    BY <1>00, <1>8 DEF RevokeToken, Started
  <2>2. log' \in LogSet(n + 1) /\ SameHistory /\ log'.started = n + 1 /\ log'.reused = log.reused
    BY <2>1, StartLog DEF n, Shapes, LogSet
  <2>3. \E t \in SUBSET db.tokens : db' = [db EXCEPT !.tokens = t]
    BY <2>1
  <2>4. db' \in DbSet(n + 1)
    BY <2>3, StartDb DEF n
  <2>5. db'.links = db.links /\ db'.sessions = db.sessions /\ db'.tokens \subseteq db.tokens /\ db'.user = db.user
    BY <2>3 DEF Shapes, DbSet
  <2>6. req' = [req EXCEPT ![r] = Idle]
    BY <2>1 DEF Shapes
  <2>7. Shapes'
    BY <1>0, <2>1, <2>2, <2>4, <2>6, StartShapes DEF n
  <2> QED BY <2>1, <2>2, <2>5, <2>7, IdleType, <1>0 DEF Begun, Others, n
<1>9. ASSUME NEW a \in Addresses, NEW active \in BOOLEAN, NEW ticked \in BOOLEAN, UpdateUser(r, a, active, ticked)
      PROVE  Begun(r)
  <2> DEFINE row == [db.user EXCEPT !.addr = a, !.active = active,
                                    !.verified = ticked \/ (@ /\ a = db.user.addr)]
             b == NewReq("update", "save", "reset")
             c == [b EXCEPT !.row = row, !.more = db.user.active]
  <2>1. row \in RowSet(n + 1) /\ row.pw = db.user.pw
    BY <1>0 DEF RowSet
  <2>2. b \in ReqSet(n + 1)
    BY NewReqType DEF n
  <2>3. c \in ReqSet(n + 1)
    <3>1. db.user.active \in BOOLEAN
      BY <1>0 DEF RowSet
    <3> HIDE DEF b, row
    <3> QED BY <2>1, <2>2, <3>1 DEF ReqSet
  <2>4. /\ c.pc = "save" /\ c.kind = "update" /\ c.purpose = "reset" /\ c.id = n + 1 /\ c.old = 0 /\ c.row = row
        /\ c.seen = SessionIds /\ c.over = LinkIds("reset")
    <3> HIDE DEF row
    <3> QED BY DEF NewReq, Idle, NextId, LinkIds, n
  <2>5. Active(c) /\ FreshReq(c)
    <3> HIDE DEF c, row
    <3> QED BY <1>0, <2>1, <2>4 DEF Active, Issuing, FreshReq, n
  <2>6. /\ req[r] = Idle /\ n < MaxRequests /\ UNCHANGED <<db, mem, now, scenario>>
        /\ req' = [New(r, "update", "save", "reset") EXCEPT ![r].row = row, ![r].more = db.user.active]
        /\ log' = [log EXCEPT !.started = NextId, !.proved = IF ticked THEN @ \cup {a} ELSE @]
    BY <1>00, <1>9 DEF UpdateUser
  <2>7. req' = [req EXCEPT ![r] = c]
    <3>1. New(r, "update", "save", "reset") = [req EXCEPT ![r] = b]
      BY DEF New, NewReq
    <3> HIDE DEF b, row
    <3> QED BY <2>6, <3>1 DEF Shapes
  <2>8. log' \in LogSet(n + 1) /\ SameHistory /\ log'.started = n + 1
    <3>1. \E s \in SUBSET Addresses : log' = [log EXCEPT !.started = NextId, !.proved = s]
      BY <2>6 DEF Shapes, LogSet
    <3> QED BY <3>1, StartLog DEF n
  <2>9. log'.reused = log.reused
    BY <2>6 DEF Shapes, LogSet
  <2>10. db' \in DbSet(n + 1)
    BY <2>6, StartDb DEF n
  <2> HIDE DEF c
  <2>11. Shapes' /\ req'[r] = c /\ Others(r)
    BY <2>3, <2>5, <2>6, <2>7, <2>8, <2>10, StartShapes DEF Others, n
  <2> QED BY <2>4, <2>5, <2>6, <2>8, <2>9, <2>11 DEF Begun, n
<1>10. ASSUME NEW a \in Addresses, NEW active \in BOOLEAN, NEW ticked \in BOOLEAN, NEW invite \in BOOLEAN, NEW send \in BOOLEAN,
              CreateUser(r, a, active, ticked, invite, send)
       PROVE  Begun(r)
  <2> DEFINE row == [live |-> TRUE, active |-> active, pw |-> IF invite THEN Placeholder ELSE NextId,
                     addr |-> a, verified |-> ticked]
             verify == send /\ ~ticked
             p == IF invite THEN "reset" ELSE "verify"
             b == NewReq("create", "clear", p)
             c == [b EXCEPT !.row = row, !.more = invite /\ verify]
             e == IF invite \/ verify THEN c ELSE Idle
  <2>0. p \in Purposes
    OBVIOUS
  <2>1. row \in RowSet(n + 1) /\ row.pw \in {Placeholder, n + 1} /\ row.live
    BY <1>0 DEF RowSet, Pws, NextId, n
  <2>2. b \in ReqSet(n + 1)
    <3> HIDE DEF p
    <3> QED BY <2>0, NewReqType DEF n
  <2>3. c \in ReqSet(n + 1)
    <3> HIDE DEF b, row
    <3> QED BY <2>1, <2>2 DEF ReqSet
  <2>4. /\ c.pc = "clear" /\ c.kind = "create" /\ c.purpose = p /\ c.id = n + 1 /\ c.old = 0 /\ c.row = row
        /\ c.seen = SessionIds /\ c.over = LinkIds(p) /\ c.more = (invite /\ verify)
    <3> HIDE DEF row, p, verify
    <3> QED BY DEF NewReq, Idle, NextId, LinkIds, n
  <2>5. Active(c) /\ FreshReq(c)
    <3> HIDE DEF c, row
    <3> QED BY <1>0, <2>1, <2>4 DEF Active, Issuing, FreshReq, n
  <2>6. /\ req[r] = Idle /\ n < MaxRequests /\ UNCHANGED <<mem, now, scenario>>
        /\ db.user = NoRow /\ db' = [db EXCEPT !.user = row]
        /\ req' = IF invite \/ verify
                  THEN [New(r, "create", "clear", p) EXCEPT ![r].row = row, ![r].more = invite /\ verify] ELSE req
        /\ log' = [log EXCEPT !.started = NextId, !.proved = IF ticked THEN @ \cup {a} ELSE @]
    BY <1>00, <1>10 DEF CreateUser
  <2>7. req' = [req EXCEPT ![r] = e]
    <3>1. New(r, "create", "clear", p) = [req EXCEPT ![r] = b]
      BY DEF New, NewReq
    <3>2. [New(r, "create", "clear", p) EXCEPT ![r].row = row, ![r].more = invite /\ verify] = [req EXCEPT ![r] = c]
      <4> HIDE DEF b, row, p, verify
      <4> QED BY <3>1 DEF Shapes
    <3>3. req = [req EXCEPT ![r] = Idle]
      BY <2>6 DEF Shapes
    <3> HIDE DEF c, row, p, verify
    <3> QED BY <2>6, <3>2, <3>3
  <2>8. log' \in LogSet(n + 1) /\ SameHistory /\ log'.started = n + 1
    <3>1. \E s \in SUBSET Addresses : log' = [log EXCEPT !.started = NextId, !.proved = s]
      BY <2>6 DEF Shapes, LogSet
    <3> QED BY <3>1, StartLog DEF n
  <2>9. log'.reused = log.reused
    BY <2>6 DEF Shapes, LogSet
  <2>10. db' \in DbSet(n + 1)
    <3> HIDE DEF row
    <3> QED BY <2>1, <2>6, StartDb DEF n
  <2>11. db'.links = db.links /\ db'.sessions = db.sessions /\ db'.tokens = db.tokens /\ db'.user = row
    <3> HIDE DEF row
    <3> QED BY <2>6 DEF Shapes, DbSet
  <2>12. e \in ReqSet(n + 1) /\ (e = Idle \/ (e = c /\ Active(e) /\ FreshReq(e)))
    <3> HIDE DEF c, verify
    <3> QED BY <1>0, <2>3, <2>5
  <2> HIDE DEF e, c, row
  <2>13. Shapes' /\ req'[r] = e /\ Others(r)
    BY <2>6, <2>7, <2>8, <2>10, <2>12, StartShapes DEF Others, n
  <2>14. /\ req'[r].kind = "create" => req'[r].row = db'.user
         /\ req'[r] = Idle \/ req'[r].kind = "create"
    BY <1>0, <2>4, <2>11, <2>12, <2>13, IdleType
  <2> QED BY <2>1, <2>6, <2>8, <2>9, <2>11, <2>12, <2>13, <2>14 DEF Begun, n
<1> QED BY <1>1, <1>2, <1>3, <1>4, <1>5, <1>6, <1>7, <1>8, <1>9, <1>10 DEF Request

-----------------------------------------------------------------------------
(* One statement of a request.                                             *)

Kept(r) ==
    /\ req'[r].id = req[r].id /\ req'[r].kind = req[r].kind /\ req'[r].purpose = req[r].purpose
    /\ req'[r].over = req[r].over /\ req'[r].cut = req[r].cut

SameSigns == log'.gone = log.gone /\ log'.cut = log.cut /\ log'.done = log.done
SamePass == log'.raced = log.raced /\ log'.revived = log.revived
SameUsed == log'.used = log.used /\ log'.reused = log.reused
SameMail == mem' = mem /\ now' = now /\ log'.mailed = log.mailed /\ log'.since = log.since

\* What a statement writes keeps the other tables as they are.
LEMMA DbLinks ==
  ASSUME Shapes, NEW e \in SUBSET LinkSet(log.started), db' = [db EXCEPT !.links = e]
  PROVE  db' \in DbSet(log.started) /\ db'.links = e /\ db'.user = db.user /\ db'.sessions = db.sessions /\ db'.tokens = db.tokens
BY DEF Shapes, DbSet

\* The same for the sessions.
LEMMA DbSessions ==
  ASSUME Shapes, NEW e \in SUBSET SessionSet(log.started), db' = [db EXCEPT !.sessions = e]
  PROVE  db' \in DbSet(log.started) /\ db'.sessions = e /\ db'.user = db.user /\ db'.links = db.links /\ db'.tokens = db.tokens
BY DEF Shapes, DbSet

\* users.Update stores the row as a live one, if the user is there.
LEMMA DbUser ==
  ASSUME Shapes, NEW row \in RowSet(log.started), usersUpdate(row)
  PROVE  /\ db' \in DbSet(log.started) /\ db'.sessions = db.sessions /\ db'.links = db.links /\ db'.tokens = db.tokens
         /\ IF db.user.live THEN db'.user.live /\ db'.user.pw = row.pw ELSE db'.user = db.user
<1>1. [row EXCEPT !.live = TRUE] \in RowSet(log.started) /\ [row EXCEPT !.live = TRUE].pw = row.pw /\ [row EXCEPT !.live = TRUE].live
  BY DEF RowSet
<1>2. CASE db.user.live
  <2>1. db' = [db EXCEPT !.user = [row EXCEPT !.live = TRUE]]
    BY <1>2 DEF usersUpdate
  <2>2. PICK u \in RowSet(log.started) : db' = [db EXCEPT !.user = u] /\ u.pw = row.pw /\ u.live
    BY <1>1, <2>1
  <2> QED BY <1>2, <2>2 DEF Shapes, DbSet
<1>3. CASE ~db.user.live
  BY <1>3 DEF usersUpdate, Shapes
<1> QED BY <1>2, <1>3

\* A request that only goes on to its next statement.
LEMMA GotoType ==
  ASSUME Shapes, NEW r \in Requests, req[r] # Idle, NEW pc \in Pcs \ {"idle", "open", "throttle", "sessions"},
         req[r].kind \in KindsAt[pc], pc \in {"clear", "issue"} => Issuing(req[r])
  PROVE  /\ [req[r] EXCEPT !.pc = pc] \in ReqSet(log.started) /\ Active([req[r] EXCEPT !.pc = pc])
         /\ Goto(r, pc) = [req EXCEPT ![r] = [req[r] EXCEPT !.pc = pc]]
<1>1. req[r] \in ReqSet(log.started) /\ Active(req[r])
  BY Pieces
<1>2. [req[r] EXCEPT !.pc = pc] \in ReqSet(log.started)
  BY <1>1 DEF ReqSet
<1>3. Active([req[r] EXCEPT !.pc = pc])
  BY <1>1 DEF ReqSet, Active, Issuing
<1>4. Goto(r, pc) = [req EXCEPT ![r] = [req[r] EXCEPT !.pc = pc]]
  BY DEF Goto, Shapes
<1> QED BY <1>2, <1>3, <1>4

\* A request that ends leaves the shapes.
LEMMA EndShapes ==
  ASSUME Shapes, NEW r \in Requests, req' = End(r),
         db' \in DbSet(log.started), log' \in LogSet(log.started), mem' \in [Addresses -> Nat],
         now' = now, scenario' = scenario
  PROVE  Shapes' /\ req'[r] = Idle /\ log'.started = log.started /\ Others(r)
<1>1. Idle \in ReqSet(log.started)
  BY Pieces, IdleType
<1>2. req' = [req EXCEPT ![r] = Idle]
  BY DEF End
<1> QED BY <1>1, <1>2, StepShapes DEF Others

\* One that goes on does, and keeps its fields.
LEMMA GotoShapes ==
  ASSUME Shapes, NEW r \in Requests, req[r] # Idle, NEW pc \in Pcs \ {"idle", "open", "throttle", "sessions"},
         req[r].kind \in KindsAt[pc], pc \in {"clear", "issue"} => Issuing(req[r]), req' = Goto(r, pc),
         db' \in DbSet(log.started), log' \in LogSet(log.started), mem' \in [Addresses -> Nat],
         now' = now, scenario' = scenario
  PROVE  /\ Shapes' /\ Others(r) /\ log'.started = log.started
         /\ req'[r].pc = pc /\ Kept(r) /\ req'[r].row = req[r].row /\ req'[r].more = req[r].more
         /\ req'[r].seen = req[r].seen /\ req'[r].old = req[r].old /\ req'[r].failed = req[r].failed
<1> DEFINE c == [req[r] EXCEPT !.pc = pc]
<1>1. c \in ReqSet(log.started) /\ Active(c) /\ req' = [req EXCEPT ![r] = c]
  BY GotoType
<1>2. /\ c.pc = pc /\ c.row = req[r].row /\ c.more = req[r].more
      /\ c.id = req[r].id /\ c.kind = req[r].kind /\ c.purpose = req[r].purpose
      /\ c.over = req[r].over /\ c.cut = req[r].cut
      /\ c.seen = req[r].seen /\ c.old = req[r].old /\ c.failed = req[r].failed
  BY Pieces DEF ReqSet
<1> HIDE DEF c
<1>3. Shapes' /\ req'[r] = c /\ Others(r) /\ log'.started = log.started
  BY <1>1, StepShapes DEF Others
<1> QED BY <1>2, <1>3 DEF Kept

\* A self-service mail is sent only when the throttle allows, and recorded.
LEMMA ThrottleFacts ==
  ASSUME Shapes, NEW r \in Requests, Throttle(r)
  PROVE  /\ Shapes' /\ Others(r) /\ req[r].pc = "throttle" /\ log'.started = log.started
         /\ db' = db /\ now' = now /\ SameSigns /\ SamePass /\ SameUsed /\ log' = log
         /\ \/ req'[r] = Idle /\ mem' = mem
            \/ /\ req'[r].pc = "clear" /\ Kept(r) /\ req'[r].row = req[r].row /\ req'[r].more = req[r].more
               /\ req'[r].seen = req[r].seen /\ req'[r].old = req[r].old
               /\ ~throttled(req[r].row.addr) /\ mem' = [mem EXCEPT ![req[r].row.addr] = now]
<1> DEFINE a == req[r].row.addr
<1>0. /\ req[r].pc = "throttle" /\ req[r] # Idle /\ a \in Addresses /\ req[r].kind \in KindsAt["clear"] /\ Issuing(req[r])
      /\ now \in Nat /\ log \in LogSet(log.started)
  <2>1. req[r].pc = "throttle" /\ req[r] # Idle
    BY IdleType, Pieces DEF Throttle
  <2>2. req[r] \in ReqSet(log.started) /\ Active(req[r])
    BY <2>1, Pieces
  <2> QED BY <2>1, <2>2 DEF ReqSet, RowSet, Active, KindsAt, Issuing, Shapes
<1>1. CASE throttled(a)
  <2>1. req' = End(r) /\ mem' = mem /\ log' = log /\ UNCHANGED <<db, now, scenario>>
    BY <1>1 DEF Throttle
  <2> QED BY <1>0, <2>1, EndShapes DEF Shapes, SameSigns, SamePass, SameUsed
<1>2. CASE ~throttled(a)
  <2>1. /\ req' = Goto(r, "clear") /\ mem' = [mem EXCEPT ![a] = now] /\ UNCHANGED <<db, now, scenario, log>>
    BY <1>2 DEF Throttle, recordReset
  <2> HIDE DEF a
  <2>2. /\ log' \in LogSet(log.started) /\ SameSigns /\ SamePass /\ SameUsed
    BY <1>0, <2>1 DEF SameSigns, SamePass, SameUsed
  <2>3. mem' \in [Addresses -> Nat]
    BY <1>0, <2>1 DEF Shapes
  <2>4. "clear" \in Pcs \ {"idle", "open", "throttle", "sessions"} /\ db' \in DbSet(log.started)
    BY <2>1 DEF Pcs, Shapes
  <2> QED BY <1>0, <1>2, <2>1, <2>2, <2>3, <2>4, GotoShapes DEF a
<1> QED BY <1>1, <1>2

\* Clearing the links of a purpose.
LEMMA ClearFacts ==
  ASSUME Shapes, NEW r \in Requests, ClearLinks(r)
  PROVE  /\ Shapes' /\ Others(r) /\ req[r].pc = "clear"
         /\ req'[r].pc = "issue" /\ Kept(r) /\ req'[r].row = req[r].row /\ req'[r].more = req[r].more
         /\ req'[r].seen = req[r].seen /\ req'[r].old = req[r].old
         /\ log' = log /\ mem' = mem /\ now' = now
         /\ db'.user = db.user /\ db'.sessions = db.sessions /\ db'.tokens = db.tokens
         /\ db'.links = {l \in db.links : l.purpose # req[r].purpose}
<1>0. req[r].pc = "clear" /\ req[r] # Idle /\ req[r].kind \in KindsAt["issue"] /\ Issuing(req[r]) /\ req[r].purpose \in Purposes
  <2>1. req[r].pc = "clear" /\ req[r] # Idle
    BY IdleType, Pieces DEF ClearLinks
  <2>2. req[r] \in ReqSet(log.started) /\ Active(req[r])
    BY <2>1, Pieces
  <2> QED BY <2>1, <2>2 DEF ReqSet, Active, KindsAt, Issuing
<1> DEFINE e == {l \in db.links : l.purpose # req[r].purpose}
<1>1. linksDeleteByUserID(req[r].purpose) = e
  BY <1>0 DEF linksDeleteByUserID, Purposes
<1>2. db' = [db EXCEPT !.links = e] /\ req' = Goto(r, "issue") /\ UNCHANGED <<mem, now, scenario, log>>
  BY <1>1 DEF ClearLinks
<1>3. e \in SUBSET LinkSet(log.started)
  BY Pieces
<1> HIDE DEF e
<1>4. db' \in DbSet(log.started) /\ db'.links = e /\ db'.user = db.user /\ db'.sessions = db.sessions /\ db'.tokens = db.tokens
  BY <1>2, <1>3, DbLinks
<1>5. "issue" \in Pcs \ {"idle", "open", "throttle", "sessions"} /\ mem' \in [Addresses -> Nat] /\ log' \in LogSet(log.started)
  BY <1>2 DEF Pcs, Shapes
<1> QED BY <1>0, <1>2, <1>4, <1>5, GotoShapes DEF e

\* What a request at a statement is known to be.
LEMMA AtWork ==
  ASSUME Shapes, NEW r \in Requests, req[r].pc # "idle"
  PROVE  /\ req[r] # Idle /\ req[r] \in ReqSet(log.started) /\ Active(req[r])
         /\ req[r].kind \in KindsAt[req[r].pc] /\ req[r].purpose \in Purposes /\ req[r].row \in RowSet(log.started)
<1>1. req[r] # Idle
  BY IdleType, Pieces
<1>2. req[r] \in ReqSet(log.started) /\ Active(req[r])
  BY <1>1, Pieces
<1> QED BY <1>1, <1>2 DEF Active, ReqSet

\* The fields of a request that most statements leave alone.
SameWork(r) ==
    /\ Kept(r) /\ req'[r].row = req[r].row /\ req'[r].more = req[r].more
    /\ req'[r].seen = req[r].seen /\ req'[r].old = req[r].old

\* Storing the new link; an invited user may get a second one.
LEMMA IssueFacts ==
  ASSUME Shapes, NEW r \in Requests, issueToken(r)
  PROVE  /\ Shapes' /\ Others(r) /\ req[r].pc = "issue" /\ mem' = mem /\ now' = now
         /\ log'.started = log.started /\ SameSigns /\ SamePass /\ SameUsed /\ log'.since = log.since
         /\ \/ log'.mailed = log.mailed
            \/ /\ req[r].kind = "forgot"
               /\ log'.mailed = [log.mailed EXCEPT ![req[r].row.addr] = @ \cup {req[r].id}]
         /\ db'.user = db.user /\ db'.sessions = db.sessions /\ db'.tokens = db.tokens
         /\ IF db.user.live
            THEN \E l \in LinkSet(log.started) :
                    /\ db'.links = db.links \cup {l} /\ l.id = req[r].id /\ l.purpose = req[r].purpose
                    /\ l.over = req[r].over /\ l.used = FALSE
            ELSE db'.links = db.links
         /\ \/ req'[r] = Idle
            \/ /\ req[r].more /\ req'[r].pc = "clear" /\ req'[r].more = FALSE /\ req'[r].purpose = "verify"
               /\ req'[r].over = {} /\ req'[r].id = req[r].id /\ req'[r].kind = req[r].kind
               /\ req'[r].row = req[r].row /\ req'[r].seen = req[r].seen /\ req'[r].old = req[r].old
<1> DEFINE q == req[r]
           l == NewLink(q)
           c == [q EXCEPT !.pc = "clear", !.more = FALSE, !.purpose = "verify", !.over = {}]
<1>0. /\ q.pc = "issue" /\ q # Idle /\ q \in ReqSet(log.started) /\ Active(q) /\ q.kind \in KindsAt["issue"]
      /\ db' = [db EXCEPT !.links = linksCreate(l)] /\ UNCHANGED <<mem, now, scenario>>
      /\ log' = (IF q.kind = "forgot" /\ db.user.live THEN [log EXCEPT !.mailed[q.row.addr] = @ \cup {q.id}] ELSE log)
      /\ req' = IF q.more THEN [req EXCEPT ![r] = c] ELSE End(r)
  BY AtWork DEF issueToken
<1>1. /\ l \in LinkSet(log.started) /\ l.id = q.id /\ l.purpose = q.purpose /\ l.over = q.over /\ l.used = FALSE
  <2>1. now + TTL(q.purpose) \in Nat
    BY AccountLinksAssumption DEF TTL, Shapes
  <2>2. q.row.addr \in Addresses
    BY <1>0 DEF ReqSet, RowSet
  <2> QED BY <1>0, <2>1, <2>2 DEF NewLink, LinkSet, ReqSet
<1> HIDE DEF l
<1>2. linksCreate(l) = (IF db.user.live THEN db.links \cup {l} ELSE db.links)
  BY DEF linksCreate
<1>3. /\ db' \in DbSet(log.started) /\ db'.links = linksCreate(l) /\ db'.user = db.user /\ db'.sessions = db.sessions /\ db'.tokens = db.tokens
  <2>1. linksCreate(l) \in SUBSET LinkSet(log.started)
    BY <1>1, <1>2, Pieces
  <2> QED BY <1>0, <2>1, DbLinks
<1>4. /\ mem' \in [Addresses -> Nat] /\ log' \in LogSet(log.started)
      /\ log'.started = log.started /\ SameSigns /\ SamePass /\ SameUsed /\ log'.since = log.since
      /\ \/ log'.mailed = log.mailed
         \/ q.kind = "forgot" /\ log'.mailed = [log.mailed EXCEPT ![q.row.addr] = @ \cup {q.id}]
  <2>1. q.row.addr \in Addresses /\ q.id \in Ids /\ log \in LogSet(log.started) /\ mem' \in [Addresses -> Nat]
    BY <1>0, Pieces DEF ReqSet, RowSet, Shapes, Upto, Ids
  <2>2. log.mailed \in [Addresses -> SUBSET Ids]
    BY <2>1 DEF LogSet
  <2>3. [log.mailed EXCEPT ![q.row.addr] = @ \cup {q.id}] \in [Addresses -> SUBSET Ids]
    BY <2>1, <2>2
  <2>4. CASE q.kind = "forgot" /\ db.user.live
    <3>1. log' = [log EXCEPT !.mailed = [log.mailed EXCEPT ![q.row.addr] = @ \cup {q.id}]]
      BY <1>0, <2>1, <2>4 DEF LogSet
    <3>2. PICK e \in [Addresses -> SUBSET Ids] :
             log' = [log EXCEPT !.mailed = e] /\ e = [log.mailed EXCEPT ![q.row.addr] = @ \cup {q.id}]
      BY <2>3, <3>1
    <3>3. log' \in LogSet(log.started) /\ log'.mailed = e
      BY <2>1, <3>2 DEF LogSet
    <3>4. log'.started = log.started /\ SameSigns /\ SamePass /\ SameUsed /\ log'.since = log.since
      BY <2>1, <3>2 DEF LogSet, SameSigns, SamePass, SameUsed
    <3> QED BY <2>1, <2>4, <3>2, <3>3, <3>4
  <2>5. CASE ~(q.kind = "forgot" /\ db.user.live)
    BY <1>0, <2>1, <2>5 DEF SameSigns, SamePass, SameUsed
  <2> QED BY <2>4, <2>5
<1>5. CASE ~q.more
  BY <1>0, <1>1, <1>2, <1>3, <1>4, <1>5, EndShapes
<1>6. CASE q.more
  <2>1. /\ c.pc = "clear" /\ c.more = FALSE /\ c.purpose = "verify" /\ c.over = {} /\ c.id = q.id /\ c.kind = q.kind
        /\ c.row = q.row /\ c.seen = q.seen /\ c.old = q.old /\ c \in ReqSet(log.started)
    BY <1>0 DEF ReqSet, Pcs, Purposes
  <2> HIDE DEF c
  <2>2. Active(c)
    BY <1>0, <2>1 DEF Active, KindsAt, Issuing
  <2>3. Shapes' /\ req'[r] = c /\ Others(r)
    BY <1>0, <1>3, <1>4, <1>6, <2>1, <2>2, StepShapes DEF Others
  <2> QED BY <1>0, <1>1, <1>2, <1>3, <1>4, <1>6, <2>1, <2>3
<1> QED BY <1>5, <1>6

\* The links after it: those from before, and perhaps the new one.
LEMMA IssuedLink ==
  ASSUME Shapes, NEW r \in Requests, issueToken(r)
  PROVE  \A m \in db'.links : m \in db.links \/ (/\ m.id = req[r].id /\ m.purpose = req[r].purpose
                                                 /\ m.over = req[r].over /\ ~m.used)
<1>1. CASE db.user.live
  <2>1. PICK l \in LinkSet(log.started) :
                    /\ db'.links = db.links \cup {l} /\ l.id = req[r].id /\ l.purpose = req[r].purpose
                    /\ l.over = req[r].over /\ l.used = FALSE
    BY <1>1, IssueFacts
  <2> QED BY <2>1
<1>2. CASE ~db.user.live
  BY <1>2, IssueFacts
<1> QED BY <1>1, <1>2

\* Following a link marks it; a link that is gone is refused.
LEMMA ConsumeFacts ==
  ASSUME Shapes, NEW r \in Requests, consumeToken(r)
  PROVE  /\ Shapes' /\ Others(r) /\ req[r].pc = "mark" /\ log'.started = log.started
         /\ SameMail /\ SameSigns /\ SamePass /\ log'.reused = log.reused
         /\ db'.user = db.user /\ db'.sessions = db.sessions /\ db'.tokens = db.tokens
         /\ \A m \in db'.links : \E l \in db.links :
               /\ m.id = l.id /\ m.purpose = l.purpose /\ m.over = l.over /\ (l.used => m.used)
               /\ m.id = req[r].link /\ m.purpose = req[r].purpose => m.used
         /\ \/ log'.used = log.used
            \/ LinkTo(req[r].link, req[r].purpose) # {} /\ log'.used = log.used \cup {<<req[r].link, req[r].purpose>>}
         /\ req'[r] = Idle \/ (req'[r].pc = "load" /\ SameWork(r))
<1> DEFINE q == req[r]
           l == {x \in db.links : x.id = q.link /\ x.purpose = q.purpose}
           e == {IF x.id = q.link /\ x.purpose = q.purpose THEN [x EXCEPT !.used = TRUE] ELSE x : x \in db.links}
<1>0. /\ q.pc = "mark" /\ q # Idle /\ q \in ReqSet(log.started) /\ Active(q) /\ q.kind \in KindsAt["mark"]
      /\ db' = [db EXCEPT !.links = e] /\ UNCHANGED <<mem, now, scenario>>
      /\ req' = IF l = {} THEN End(r) ELSE Goto(r, "load")
      /\ log' = [log EXCEPT !.used = IF l = {} THEN @ ELSE @ \cup {<<q.link, q.purpose>>},
                            !.proved = IF q.purpose = "verify" THEN @ \cup {x.to : x \in l} ELSE @]
  BY AtWork DEF consumeToken, linksMarkUsed
<1>1. \A m \in e : /\ m \in LinkSet(log.started)
                   /\ \E x \in db.links :
                        /\ m.id = x.id /\ m.purpose = x.purpose /\ m.over = x.over /\ (x.used => m.used)
                        /\ m.id = q.link /\ m.purpose = q.purpose => m.used
  <2> TAKE m \in e
  <2>1. PICK x \in db.links : m = IF x.id = q.link /\ x.purpose = q.purpose THEN [x EXCEPT !.used = TRUE] ELSE x
    OBVIOUS
  <2>2. x \in LinkSet(log.started)
    BY Pieces
  <2>3. /\ m \in LinkSet(log.started) /\ m.id = x.id /\ m.purpose = x.purpose /\ m.over = x.over /\ (x.used => m.used)
        /\ m.id = q.link /\ m.purpose = q.purpose => m.used
    BY <2>1, <2>2 DEF LinkSet
  <2> QED BY <2>3
<1> HIDE DEF e
<1>2. db' \in DbSet(log.started) /\ db'.links = e /\ db'.user = db.user /\ db'.sessions = db.sessions /\ db'.tokens = db.tokens
  BY <1>0, <1>1, DbLinks
<1>3. \A x \in l : x.to \in Addresses /\ q.link \in Upto(log.started)
  BY Pieces DEF LinkSet
<1>4. l = LinkTo(q.link, q.purpose)
  BY DEF LinkTo
<1> HIDE DEF l
<1> DEFINE u == IF l = {} THEN log.used ELSE log.used \cup {<<q.link, q.purpose>>}
           s == IF q.purpose = "verify" THEN log.proved \cup {x.to : x \in l} ELSE log.proved
<1>5. /\ u \in SUBSET (Upto(log.started) \X Purposes) /\ s \in SUBSET Addresses
      /\ log' = [log EXCEPT !.used = u, !.proved = s]
      /\ u = log.used \/ (l # {} /\ u = log.used \cup {<<q.link, q.purpose>>})
  <2>1. u \in SUBSET (Upto(log.started) \X Purposes)
    BY <1>0, <1>3 DEF Shapes, LogSet, ReqSet
  <2>2. s \in SUBSET Addresses
    BY <1>3 DEF Shapes, LogSet
  <2>3. log' = [log EXCEPT !.used = u, !.proved = s]
    BY <1>0
  <2>4. u = log.used \/ (l # {} /\ u = log.used \cup {<<q.link, q.purpose>>})
    OBVIOUS
  <2> HIDE DEF u, s
  <2> QED BY <2>1, <2>2, <2>3, <2>4
<1> HIDE DEF u, s
<1>6. /\ log' \in LogSet(log.started) /\ SameSigns /\ SamePass /\ log'.reused = log.reused /\ log'.used = u
      /\ log'.mailed = log.mailed /\ log'.since = log.since
  BY <1>5 DEF Shapes, LogSet, SameSigns, SamePass
<1>7. mem' \in [Addresses -> Nat] /\ SameMail /\ now' = now /\ scenario' = scenario
  BY <1>0, <1>6 DEF Shapes, SameMail
<1>8. CASE l = {}
  <2>1. req' = End(r)
    BY <1>0, <1>8
  <2>2. Shapes' /\ Others(r) /\ log'.started = log.started /\ req'[r] = Idle
    BY <1>2, <1>6, <1>7, <2>1, EndShapes
  <2> QED BY <1>0, <1>1, <1>2, <1>4, <1>5, <1>6, <1>7, <2>2
<1>9. CASE l # {}
  <2>1. req' = Goto(r, "load")
    BY <1>0, <1>9
  <2>2. "load" \in Pcs \ {"idle", "open", "throttle", "sessions"} /\ q.kind \in KindsAt["load"]
    BY <1>0 DEF Pcs, KindsAt
  <2>3. Shapes' /\ Others(r) /\ log'.started = log.started /\ req'[r].pc = "load" /\ SameWork(r)
    <3>1. q # Idle
      BY <1>0
    <3> QED BY <1>2, <1>6, <1>7, <2>1, <2>2, <3>1, GotoShapes DEF SameWork
  <2> QED BY <1>0, <1>1, <1>2, <1>4, <1>5, <1>6, <1>7, <2>3
<1> QED BY <1>8, <1>9


\* The row is read after the link was marked.
LEMMA LoadFacts ==
  ASSUME Shapes, NEW r \in Requests, LoadUser(r)
  PROVE  /\ Shapes' /\ Others(r) /\ req[r].pc = "load" /\ db' = db /\ log' = log /\ mem' = mem /\ now' = now
         /\ \/ req'[r] = Idle
            \/ /\ Kept(r) /\ req'[r].row = db.user /\ req'[r].seen = req[r].seen /\ req'[r].old = req[r].old
               /\ \/ req'[r].pc = "write" /\ req[r].kind = "reset"
                  \/ req'[r].pc \in {"links", "save"} /\ req[r].kind = "verify"
<1> DEFINE q == req[r]
           pc == IF q.kind = "reset" THEN "write" ELSE IF db.user.verified THEN "links" ELSE "save"
           c == [q EXCEPT !.row = db.user, !.pc = pc]
<1>0. /\ q.pc = "load" /\ q # Idle /\ q \in ReqSet(log.started) /\ Active(q) /\ q.kind \in KindsAt["load"]
      /\ UNCHANGED <<db, mem, now, scenario, log>>
      /\ req' = IF ~db.user.live THEN End(r) ELSE [req EXCEPT ![r].row = db.user, ![r].pc = pc]
  BY AtWork DEF LoadUser
<1>1. mem' \in [Addresses -> Nat] /\ log' \in LogSet(log.started) /\ db' \in DbSet(log.started) /\ now' = now /\ scenario' = scenario
  BY <1>0 DEF Shapes
<1>2. CASE ~db.user.live
  BY <1>0, <1>1, <1>2, EndShapes
<1>3. CASE db.user.live
  <2>1. /\ pc \in Pcs \ {"idle", "open"} /\ q.kind \in KindsAt[pc]
        /\ \/ pc = "write" /\ q.kind = "reset"
           \/ pc \in {"links", "save"} /\ q.kind = "verify"
    <3>1. q.kind \in {"reset", "verify"}
      BY <1>0 DEF KindsAt
    <3>2. \/ pc = "write" /\ q.kind = "reset"
          \/ pc = "links" /\ q.kind = "verify"
          \/ pc = "save" /\ q.kind = "verify"
      BY <3>1
    <3>3. "reset" \in KindsAt["write"] /\ "verify" \in KindsAt["links"] /\ "verify" \in KindsAt["save"]
      BY DEF KindsAt, PasswordKinds
    <3> HIDE DEF pc
    <3> QED BY <3>2, <3>3 DEF Pcs
  <2> HIDE DEF pc
  <2>2. /\ c \in ReqSet(log.started) /\ c.pc = pc /\ c.row = db.user /\ c.seen = q.seen /\ c.old = q.old
        /\ c.id = q.id /\ c.kind = q.kind /\ c.purpose = q.purpose /\ c.over = q.over /\ c.cut = q.cut
    BY <1>0, <2>1, Pieces DEF ReqSet
  <2>3. req' = [req EXCEPT ![r] = c]
    BY <1>0, <1>3 DEF Shapes
  <2> HIDE DEF c
  <2>4. Active(c)
    BY <1>0, <2>1, <2>2 DEF Active, Issuing
  <2>5. Shapes' /\ req'[r] = c /\ Others(r)
    BY <1>1, <2>2, <2>3, <2>4, StepShapes DEF Others
  <2> QED BY <1>0, <2>1, <2>2, <2>5 DEF Kept
<1> QED BY <1>2, <1>3

\* What the two handlers that write back a row they read before do: the row
\* is stored if the user is there, and a password that another request has
\* replaced in the meantime comes back.
WroteBack(r) ==
    /\ Shapes' /\ Others(r) /\ req[r].pc = "save" /\ log'.started = log.started /\ SameMail /\ SameSigns /\ SameUsed
    /\ log'.raced = log.raced
    /\ db'.sessions = db.sessions /\ db'.links = db.links /\ db'.tokens = db.tokens
    /\ IF db.user.live THEN db'.user.live /\ db'.user.pw = req[r].row.pw ELSE db'.user = db.user
    /\ log'.revived = IF req[r].row.pw # db.user.pw THEN log.revived \cup {req[r].row.pw} ELSE log.revived
    /\ \/ req'[r] = Idle
       \/ SameWork(r) /\ req'[r].pc \in {"links", "sessions"} /\ ~PastSessions(req'[r])

\* The history after writing back a row.
LEMMA RevivedLog ==
  ASSUME Shapes, NEW r \in Requests, req[r].pc = "save", NEW row \in RowSet(log.started), row.pw = req[r].row.pw,
         log' = [log EXCEPT !.revived = Revived(req[r], row)]
  PROVE  /\ log' \in LogSet(log.started) /\ SameSigns /\ SameUsed /\ log'.raced = log.raced
         /\ log'.mailed = log.mailed /\ log'.since = log.since
         /\ log'.revived = IF req[r].row.pw # db.user.pw THEN log.revived \cup {req[r].row.pw} ELSE log.revived
<1>1. req[r].kind \notin PasswordKinds
  BY AtWork DEF KindsAt, PasswordKinds
<1> DEFINE v == Revived(req[r], row)
<1>2. v = IF req[r].row.pw # db.user.pw THEN log.revived \cup {req[r].row.pw} ELSE log.revived
  BY <1>1 DEF Revived
<1>3. v \in SUBSET Pws(log.started)
  BY <1>2 DEF Shapes, LogSet, RowSet
<1> HIDE DEF v
<1>4. log' = [log EXCEPT !.revived = v]
  BY DEF v
<1> QED BY <1>2, <1>3, <1>4 DEF Shapes, LogSet, SameSigns, SameUsed

\* Verifying the address writes back the row read with the link.
LEMMA VerifyFacts ==
  ASSUME Shapes, NEW r \in Requests, VerifyEmail(r)
  PROVE  WroteBack(r)
<1> DEFINE q == req[r]
           row == [q.row EXCEPT !.verified = TRUE]
<1>0. /\ q.pc = "save" /\ q.kind = "verify" /\ q # Idle /\ q \in ReqSet(log.started) /\ Active(q)
      /\ usersUpdate(row) /\ UNCHANGED <<mem, now, scenario>>
      /\ req' = (IF db.user.live THEN Goto(r, "links") ELSE End(r))
      /\ log' = [log EXCEPT !.revived = Revived(q, row)]
  BY AtWork DEF VerifyEmail
<1>1. row \in RowSet(log.started) /\ row.pw = q.row.pw
  BY <1>0 DEF ReqSet, RowSet
<1> HIDE DEF row
<1>2. /\ log' \in LogSet(log.started) /\ SameSigns /\ SameUsed /\ log'.raced = log.raced
      /\ log'.mailed = log.mailed /\ log'.since = log.since
      /\ log'.revived = IF q.row.pw # db.user.pw THEN log.revived \cup {q.row.pw} ELSE log.revived
  BY <1>0, <1>1, RevivedLog
<1>3. /\ db' \in DbSet(log.started) /\ db'.sessions = db.sessions /\ db'.links = db.links /\ db'.tokens = db.tokens
      /\ IF db.user.live THEN db'.user.live /\ db'.user.pw = q.row.pw ELSE db'.user = db.user
  BY <1>0, <1>1, DbUser
<1>4. mem' \in [Addresses -> Nat] /\ now' = now /\ scenario' = scenario /\ SameMail
  BY <1>0, <1>2 DEF Shapes, SameMail
<1>5. CASE ~db.user.live
  <2>1. Shapes' /\ Others(r) /\ req'[r] = Idle /\ log'.started = log.started
    BY <1>0, <1>2, <1>3, <1>4, <1>5, EndShapes
  <2> QED BY <1>0, <1>2, <1>3, <1>4, <2>1 DEF WroteBack
<1>6. CASE db.user.live
  <2>1. "links" \in Pcs \ {"idle", "open", "throttle", "sessions"} /\ q.kind \in KindsAt["links"]
    BY <1>0 DEF Pcs, KindsAt
  <2>2. req' = Goto(r, "links") /\ q # Idle
    BY <1>0, <1>6
  <2>3. Shapes' /\ Others(r) /\ log'.started = log.started /\ req'[r].pc = "links" /\ SameWork(r)
    BY <1>2, <1>3, <1>4, <2>1, <2>2, GotoShapes DEF SameWork
  <2>4. ~PastSessions(req'[r])
    BY <1>0, <2>3 DEF PastSessions, SameWork, Kept
  <2> QED BY <1>0, <1>2, <1>3, <1>4, <2>3, <2>4 DEF WroteBack
<1> QED BY <1>5, <1>6

\* Saving the user form writes back the row read with the form.
LEMMA SaveFacts ==
  ASSUME Shapes, NEW r \in Requests, SaveForm(r)
  PROVE  WroteBack(r)
<1> DEFINE q == req[r]
           c == [q EXCEPT !.pc = "sessions"]
<1>0. /\ q.pc = "save" /\ q.kind = "update" /\ q # Idle /\ q \in ReqSet(log.started) /\ Active(q)
      /\ usersUpdate(q.row) /\ UNCHANGED <<mem, now, scenario>>
      /\ req' = (IF db.user.live /\ q.more /\ ~q.row.active THEN Goto(r, "sessions") ELSE End(r))
      /\ log' = [log EXCEPT !.revived = Revived(q, q.row)]
  BY AtWork DEF SaveForm
<1>1. q.row \in RowSet(log.started)
  BY <1>0 DEF ReqSet
<1>2. /\ log' \in LogSet(log.started) /\ SameSigns /\ SameUsed /\ log'.raced = log.raced
      /\ log'.mailed = log.mailed /\ log'.since = log.since
      /\ log'.revived = IF q.row.pw # db.user.pw THEN log.revived \cup {q.row.pw} ELSE log.revived
  BY <1>0, <1>1, RevivedLog
<1>3. /\ db' \in DbSet(log.started) /\ db'.sessions = db.sessions /\ db'.links = db.links /\ db'.tokens = db.tokens
      /\ IF db.user.live THEN db'.user.live /\ db'.user.pw = q.row.pw ELSE db'.user = db.user
  BY <1>0, <1>1, DbUser
<1>4. mem' \in [Addresses -> Nat] /\ now' = now /\ scenario' = scenario /\ SameMail
  BY <1>0, <1>2 DEF Shapes, SameMail
<1>5. CASE req' = End(r)
  <2>1. Shapes' /\ Others(r) /\ req'[r] = Idle /\ log'.started = log.started
    BY <1>2, <1>3, <1>4, <1>5, EndShapes
  <2> QED BY <1>0, <1>2, <1>3, <1>4, <2>1 DEF WroteBack
<1>6. CASE req' = Goto(r, "sessions")
  <2>1. /\ c \in ReqSet(log.started) /\ c.pc = "sessions" /\ c.row = q.row /\ c.seen = q.seen /\ c.old = q.old
        /\ c.id = q.id /\ c.kind = q.kind /\ c.purpose = q.purpose /\ c.over = q.over /\ c.cut = q.cut /\ c.more = q.more
    BY <1>0 DEF ReqSet, Pcs
  <2>2. req' = [req EXCEPT ![r] = c]
    BY <1>6 DEF Goto, Shapes
  <2> HIDE DEF c
  <2>3. Active(c)
    BY <1>0, <2>1 DEF Active, Issuing, KindsAt
  <2>4. Shapes' /\ req'[r] = c /\ Others(r) /\ log'.started = log.started
    BY <1>2, <1>3, <1>4, <2>1, <2>2, <2>3, StepShapes DEF Others
  <2>5. SameWork(r) /\ req'[r].pc = "sessions" /\ ~PastSessions(req'[r])
    BY <2>1, <2>4 DEF SameWork, Kept, PastSessions
  <2> QED BY <1>0, <1>2, <1>3, <1>4, <2>4, <2>5 DEF WroteBack
<1> QED BY <1>0, <1>5, <1>6


OpenIds == {req[x].id : x \in {x \in Requests : req[x].pc = "open"}}

\* The new password is stored if the user is there; who is about to open a
\* session has raced with it.
LEMMA PasswordFacts ==
  ASSUME Shapes, NEW r \in Requests, SetPassword(r)
  PROVE  /\ Shapes' /\ Others(r) /\ req[r].pc = "write" /\ log'.started = log.started /\ SameMail /\ SameSigns /\ SameUsed
         /\ log'.revived = log.revived
         /\ db'.sessions = db.sessions /\ db'.links = db.links /\ db'.tokens = db.tokens
         /\ IF db.user.live
            THEN /\ db'.user.live /\ db'.user.pw = req[r].id /\ log'.raced = log.raced \cup OpenIds
                 /\ Kept(r) /\ req'[r].pc = "sessions" /\ req'[r].old = db.user.pw
                 /\ req'[r].row = req[r].row /\ req'[r].seen = req[r].seen
            ELSE db'.user = db.user /\ log'.raced = log.raced /\ req'[r] = Idle
<1> DEFINE q == req[r]
           row == [q.row EXCEPT !.pw = q.id]
           c == [q EXCEPT !.pc = "sessions", !.old = db.user.pw]
<1>0. /\ q.pc = "write" /\ q # Idle /\ q \in ReqSet(log.started) /\ Active(q) /\ q.kind \in PasswordKinds
      /\ usersUpdate(row) /\ UNCHANGED <<mem, now, scenario>>
      /\ req' = (IF db.user.live THEN [req EXCEPT ![r] = [q EXCEPT !.pc = Following(q.kind, "write"), !.old = db.user.pw]] ELSE End(r))
      /\ log' = (IF db.user.live THEN [log EXCEPT !.raced = @ \cup OpenIds] ELSE log)
  BY AtWork DEF SetPassword, KindsAt, OpenIds
<1>1. row \in RowSet(log.started) /\ row.pw = q.id
  BY <1>0 DEF ReqSet, RowSet, Pws, Upto
<1>2. OpenIds \in SUBSET Upto(log.started)
  BY Pieces DEF OpenIds, ReqSet
<1> HIDE DEF row
<1>3. /\ db' \in DbSet(log.started) /\ db'.sessions = db.sessions /\ db'.links = db.links /\ db'.tokens = db.tokens
      /\ IF db.user.live THEN db'.user.live /\ db'.user.pw = q.id ELSE db'.user = db.user
  BY <1>0, <1>1, DbUser
<1>4. mem' \in [Addresses -> Nat] /\ now' = now /\ scenario' = scenario /\ mem' = mem
  BY <1>0 DEF Shapes
<1>5. CASE ~db.user.live
  <2>1. log' = log /\ log' \in LogSet(log.started) /\ req' = End(r)
    BY <1>0, <1>5 DEF Shapes
  <2>2. Shapes' /\ Others(r) /\ req'[r] = Idle /\ log'.started = log.started
    BY <1>3, <1>4, <2>1, EndShapes
  <2> QED BY <1>0, <1>3, <1>4, <1>5, <2>1, <2>2 DEF SameMail, SameSigns, SameUsed
<1>6. CASE db.user.live
  <2>1. Following(q.kind, "write") = "sessions"
    BY <1>0 DEF Following
  <2>2. /\ c \in ReqSet(log.started) /\ c.pc = "sessions" /\ c.row = q.row /\ c.seen = q.seen /\ c.old = db.user.pw
        /\ c.id = q.id /\ c.kind = q.kind /\ c.purpose = q.purpose /\ c.over = q.over /\ c.cut = q.cut
    <3>1. db.user.pw \in Pws(log.started)
      BY Pieces DEF RowSet
    <3> QED BY <1>0, <3>1 DEF ReqSet, Pcs
  <2>3. req' = [req EXCEPT ![r] = c]
    BY <1>0, <1>6, <2>1
  <2> HIDE DEF c
  <2>4. Active(c)
    BY <1>0, <2>2 DEF Active, Issuing, KindsAt, PasswordKinds
  <2>5. log' \in LogSet(log.started) /\ SameSigns /\ SameUsed /\ log'.revived = log.revived
        /\ log'.mailed = log.mailed /\ log'.since = log.since /\ log'.raced = log.raced \cup OpenIds
    BY <1>0, <1>2, <1>6 DEF Shapes, LogSet, SameSigns, SameUsed
  <2>6. Shapes' /\ req'[r] = c /\ Others(r) /\ log'.started = log.started
    BY <1>3, <1>4, <2>2, <2>3, <2>4, <2>5, StepShapes DEF Others
  <2> QED BY <1>0, <1>3, <1>4, <1>6, <2>2, <2>5, <2>6 DEF SameMail, Kept
<1> QED BY <1>5, <1>6

\* The list of sessions to end is read first.
LEMMA ListFacts ==
  ASSUME Shapes, NEW r \in Requests, ListSessions(r)
  PROVE  /\ Shapes' /\ Others(r) /\ req[r].pc = "list" /\ db' = db /\ log' = log /\ mem' = mem /\ now' = now
         /\ Kept(r) /\ req'[r].pc = "sessions" /\ req'[r].row = req[r].row /\ req'[r].old = req[r].old
         /\ req'[r].seen \subseteq req[r].seen
<1> DEFINE q == req[r]
<1>0. /\ q.pc = "list" /\ q # Idle /\ q \in ReqSet(log.started) /\ Active(q) /\ q.kind \in KindsAt["list"]
      /\ UNCHANGED <<db, mem, now, scenario, log>>
  BY AtWork DEF ListSessions
<1>1. PICK keep \in q.seen \cup {0} :
         LET ids == IF q.kind = "one" THEN {keep} ELSE SessionIds \ {keep}
         IN  req' = [req EXCEPT ![r] = [q EXCEPT !.pc = "sessions", !.listed = ids, !.seen = @ \cap ids]]
  BY Zenon DEF ListSessions
<1> DEFINE ids == IF q.kind = "one" THEN {keep} ELSE SessionIds \ {keep}
           c == [q EXCEPT !.pc = "sessions", !.listed = ids, !.seen = q.seen \cap ids]
<1>2. ids \in SUBSET Ids
  <2>1. keep \in Ids
    BY <1>0, Pieces DEF ReqSet, Upto, Ids
  <2> QED BY <2>1, Pieces
<1>3. req' = [req EXCEPT ![r] = c]
  BY <1>1
<1> HIDE DEF ids
<1>4. /\ c \in ReqSet(log.started) /\ c.pc = "sessions" /\ c.row = q.row /\ c.seen = q.seen \cap ids /\ c.old = q.old
      /\ c.id = q.id /\ c.kind = q.kind /\ c.purpose = q.purpose /\ c.over = q.over /\ c.cut = q.cut /\ c.listed = ids
  BY <1>0, <1>2 DEF ReqSet, Pcs
<1> HIDE DEF c
<1>5. Active(c)
  BY <1>0, <1>4 DEF Active, Issuing, KindsAt
<1>6. mem' \in [Addresses -> Nat] /\ log' \in LogSet(log.started) /\ db' \in DbSet(log.started) /\ now' = now /\ scenario' = scenario
  BY <1>0 DEF Shapes
<1>7. Shapes' /\ req'[r] = c /\ Others(r)
  BY <1>3, <1>4, <1>5, <1>6, StepShapes DEF Others
<1> QED BY <1>0, <1>4, <1>7 DEF Kept

-----------------------------------------------------------------------------
(* Signing out.                                                            *)

\* A request that ends reports what it signed out, unless a statement failed.
Reported(r) ==
    /\ log'.gone = log.gone \cup req[r].seen /\ log'.cut \subseteq log.cut \cup req[r].cut
    /\ req[r].kind = "one" => log'.cut = log.cut
    /\ log'.done = IF req[r].old # 0 THEN log.done \cup {req[r].old} ELSE log.done

\* The history when a request is over.
LEMMA EndedFacts ==
  ASSUME Shapes, NEW r \in Requests, req[r].pc # "idle", NEW fails \in BOOLEAN, req[r].kind = "delete" => req[r].pc = "erase",
         Ended(r, [req[r] EXCEPT !.failed = @ \/ fails])
  PROVE  /\ req' = End(r) /\ log' \in LogSet(log.started) /\ SamePass /\ SameUsed
         /\ log'.mailed = log.mailed /\ log'.since = log.since
         /\ \/ SameSigns
            \/ ((~req[r].failed /\ ~fails) \/ req[r].pc = "erase") /\ Reported(r)
<1> DEFINE q == req[r]
           f == [q EXCEPT !.failed = @ \/ fails]
           complete == ~(q.failed \/ fails) \/ q.pc = "erase"
           gone == log.gone \cup (IF complete THEN q.seen ELSE {})
           cut == log.cut \cup (IF complete /\ q.kind # "one" THEN q.cut ELSE {})
           done == IF complete /\ q.old # 0 THEN log.done \cup {q.old} ELSE log.done
<1>1. q \in ReqSet(log.started)
  BY Pieces
<1>2. /\ f.failed = (q.failed \/ fails) /\ f.pc = q.pc /\ f.kind = q.kind /\ f.seen = q.seen /\ f.cut = q.cut /\ f.old = q.old
  BY <1>1 DEF ReqSet
<1>3. Ended(r, f)
  OBVIOUS
<1> HIDE DEF f
<1>4. req' = End(r) /\ log' = [log EXCEPT !.gone = gone, !.cut = cut, !.done = done]
  BY <1>2, <1>3 DEF Ended
<1>5. gone \in SUBSET Upto(log.started) /\ cut \in SUBSET Upto(log.started) /\ done \in SUBSET Pws(log.started)
  BY <1>1 DEF Shapes, LogSet, ReqSet
<1>6. \/ gone = log.gone /\ cut = log.cut /\ done = log.done
      \/ /\ (~q.failed /\ ~fails) \/ q.pc = "erase"
         /\ gone = log.gone \cup q.seen /\ cut \subseteq log.cut \cup q.cut /\ (q.kind = "one" => cut = log.cut)
         /\ done = IF q.old # 0 THEN log.done \cup {q.old} ELSE log.done
  BY <1>1 DEF ReqSet
<1> HIDE DEF gone, cut, done
<1>7. /\ log' \in LogSet(log.started) /\ SamePass /\ SameUsed /\ log'.mailed = log.mailed /\ log'.since = log.since
      /\ log'.gone = gone /\ log'.cut = cut /\ log'.done = done
  BY <1>4, <1>5 DEF Shapes, LogSet, SamePass, SameUsed
<1> QED BY <1>4, <1>6, <1>7 DEF SameSigns, Reported


\* A request that signs out goes on, remembering whether a statement failed.
LEMMA OnShapes ==
  ASSUME Shapes, NEW r \in Requests, req[r].pc # "idle", NEW fails \in BOOLEAN, NEW pc \in {"tokens", "links", "erase"},
         req[r].kind \in KindsAt[pc], req' = [req EXCEPT ![r] = [[req[r] EXCEPT !.failed = @ \/ fails] EXCEPT !.pc = pc]],
         db' \in DbSet(log.started), UNCHANGED <<log, mem, now, scenario>>
  PROVE  /\ Shapes' /\ Others(r) /\ log' = log /\ SameMail
         /\ req'[r].pc = pc /\ SameWork(r) /\ req'[r].failed = (req[r].failed \/ fails)
<1> DEFINE q == req[r]
           c == [[q EXCEPT !.failed = @ \/ fails] EXCEPT !.pc = pc]
<1>1. q \in ReqSet(log.started) /\ Active(q)
  BY AtWork
<1>2. /\ c \in ReqSet(log.started) /\ c.pc = pc /\ c.failed = (q.failed \/ fails) /\ c.more = q.more
      /\ c.row = q.row /\ c.seen = q.seen /\ c.old = q.old
      /\ c.id = q.id /\ c.kind = q.kind /\ c.purpose = q.purpose /\ c.over = q.over /\ c.cut = q.cut
  BY <1>1 DEF ReqSet, Pcs
<1>3. req' = [req EXCEPT ![r] = c]
  OBVIOUS
<1> HIDE DEF c
<1>4. Active(c)
  BY <1>1, <1>2 DEF Active, Issuing
<1>5. mem' \in [Addresses -> Nat] /\ log' \in LogSet(log.started) /\ now' = now /\ scenario' = scenario /\ SameMail
  BY DEF Shapes, SameMail
<1>6. Shapes' /\ req'[r] = c /\ Others(r)
  BY <1>2, <1>3, <1>4, <1>5, StepShapes DEF Others
<1> QED BY <1>2, <1>5, <1>6 DEF SameWork, Kept

\* Ending the sessions: all of the user, or the ones listed.
LEMMA SessionsFacts ==
  ASSUME Shapes, NEW r \in Requests, EndSessions(r)
  PROVE  /\ Shapes' /\ Others(r) /\ req[r].pc = "sessions" /\ log'.started = log.started
         /\ SameMail /\ SamePass /\ SameUsed
         /\ db'.user = db.user /\ db'.links = db.links /\ db'.tokens = db.tokens /\ db'.sessions \subseteq db.sessions
         /\ \/ /\ req'[r] = Idle /\ req[r].kind = "one"
               /\ SameSigns \/ (Reported(r) /\ \A s \in db'.sessions : s.id \notin req[r].seen)
            \/ /\ req'[r].pc = "tokens" /\ SameWork(r) /\ log' = log
               /\ ~req'[r].failed => /\ \A s \in db'.sessions : s.id \notin req[r].seen
                                     /\ req[r].kind \in PasswordKinds => db'.sessions = {}
<1> DEFINE q == req[r]
           ids == IF q.kind \in {"others", "one"} THEN q.listed ELSE SessionIds
           e == sessionsDelete(ids)
<1>0. /\ q.pc = "sessions" /\ q # Idle /\ q \in ReqSet(log.started) /\ Active(q) /\ q.kind \in KindsAt["sessions"]
      /\ UNCHANGED <<mem, now, scenario>>
  BY AtWork DEF EndSessions
<1>1. PICK fails \in BOOLEAN :
         /\ db' = (IF fails THEN db ELSE [db EXCEPT !.sessions = e])
         /\ Proceed(r, [q EXCEPT !.failed = @ \/ fails])
  BY Zenon DEF EndSessions
<1>2. e \subseteq db.sessions /\ (q.kind \in PasswordKinds => e = {}) /\ \A s \in e : s.id \notin q.seen
  <2>1. q.kind \in {"others", "one"} => q.seen \subseteq q.listed
    BY <1>0 DEF Active
  <2>2. q.kind \in {"others", "one"} \/ e = {}
    BY DEF sessionsDelete, SessionIds
  <2> QED BY <2>1, <2>2 DEF sessionsDelete, PasswordKinds
<1> HIDE DEF e
<1>3. /\ db' \in DbSet(log.started) /\ db'.sessions = (IF fails THEN db.sessions ELSE e) /\ db'.user = db.user
      /\ db'.links = db.links /\ db'.tokens = db.tokens
  <2>1. CASE fails
    BY <1>1, <2>1 DEF Shapes
  <2>2. CASE ~fails
    <3>1. e \in SUBSET SessionSet(log.started)
      BY <1>2, Pieces
    <3> QED BY <1>1, <2>2, <3>1, DbSessions
  <2> QED BY <2>1, <2>2
<1> DEFINE f == [q EXCEPT !.failed = @ \/ fails]
<1>4. f.kind = q.kind /\ f.pc = "sessions"
  BY <1>0 DEF ReqSet
<1>5. Proceed(r, f)
  BY <1>1
<1>6. CASE q.kind = "one"
  <2>1. Ended(r, f)
    <3> HIDE DEF f
    <3> QED BY <1>4, <1>5, <1>6 DEF Proceed, Following
  <2>2. /\ req' = End(r) /\ log' \in LogSet(log.started) /\ SamePass /\ SameUsed
        /\ log'.mailed = log.mailed /\ log'.since = log.since
        /\ SameSigns \/ (((~q.failed /\ ~fails) \/ q.pc = "erase") /\ Reported(r))
    <3>1. q.pc # "idle" /\ (q.kind = "delete" => q.pc = "erase")
      BY <1>0, <1>6
    <3> QED BY <2>1, <3>1, EndedFacts
  <2>3. Shapes' /\ Others(r) /\ req'[r] = Idle /\ log'.started = log.started
    <3>1. mem' \in [Addresses -> Nat] /\ now' = now /\ scenario' = scenario
      BY <1>0 DEF Shapes
    <3> QED BY <1>3, <2>2, <3>1, EndShapes
  <2>4. SameMail
    BY <1>0, <2>2 DEF SameMail
  <2> QED BY <1>0, <1>2, <1>3, <1>6, <2>2, <2>3, <2>4
<1>7. CASE q.kind # "one"
  <2>1. log' = log /\ req' = [req EXCEPT ![r] = [f EXCEPT !.pc = "tokens"]]
    <3> HIDE DEF f
    <3>1. Following(f.kind, f.pc) = "tokens"
      BY <1>4, <1>7 DEF Following
    <3> QED BY <1>5, <3>1 DEF Proceed
  <2>2. q.kind \in KindsAt["tokens"] /\ q.pc # "idle"
    BY <1>0, <1>7 DEF KindsAt
  <2>3. /\ Shapes' /\ Others(r) /\ log' = log /\ SameMail
        /\ req'[r].pc = "tokens" /\ SameWork(r) /\ req'[r].failed = (q.failed \/ fails)
    <3>1. UNCHANGED <<log, mem, now, scenario>>
      BY <1>0, <2>1
    <3>2. req' = [req EXCEPT ![r] = [[req[r] EXCEPT !.failed = @ \/ fails] EXCEPT !.pc = "tokens"]]
      BY <2>1
    <3> HIDE DEF f
    <3> QED BY <1>3, <2>1, <2>2, <3>1, <3>2, OnShapes, Zenon
  <2> QED BY <1>0, <1>2, <1>3, <2>3 DEF SamePass, SameUsed
<1> QED BY <1>6, <1>7

\* Revoking the refresh tokens.
LEMMA TokensFacts ==
  ASSUME Shapes, NEW r \in Requests, RevokeTokens(r)
  PROVE  /\ Shapes' /\ Others(r) /\ req[r].pc = "tokens" /\ log'.started = log.started
         /\ SameMail /\ SamePass /\ SameUsed
         /\ db'.user = db.user /\ db'.links = db.links /\ db'.tokens \subseteq db.tokens /\ db'.sessions = db.sessions
         /\ \/ /\ req'[r] = Idle
               /\ SameSigns \/ (Reported(r) /\ ~req[r].failed /\ req[r].kind # "verify" /\ db'.tokens = {})
            \/ /\ req'[r].pc = "links" /\ SameWork(r) /\ log' = log
               /\ ~req'[r].failed => ~req[r].failed /\ db'.tokens = {}
<1> DEFINE q == req[r]
<1>0. /\ q.pc = "tokens" /\ q # Idle /\ q \in ReqSet(log.started) /\ Active(q) /\ q.kind \in KindsAt["tokens"]
      /\ UNCHANGED <<mem, now, scenario>>
  BY AtWork DEF RevokeTokens
<1>1. PICK fails \in BOOLEAN :
         /\ db' = (IF fails THEN db ELSE [db EXCEPT !.tokens = {}])
         /\ Proceed(r, [q EXCEPT !.failed = @ \/ fails])
  BY Zenon DEF RevokeTokens
<1>3. /\ db' \in DbSet(log.started) /\ db'.tokens = (IF fails THEN db.tokens ELSE {}) /\ db'.user = db.user
      /\ db'.links = db.links /\ db'.sessions = db.sessions
  BY <1>1 DEF Shapes, DbSet
<1> DEFINE f == [q EXCEPT !.failed = @ \/ fails]
<1>4. f.kind = q.kind /\ f.pc = "tokens"
  BY <1>0 DEF ReqSet
<1>5. Proceed(r, f)
  BY <1>1
<1>6. CASE q.kind \notin {"reset", "change", "setpw", "delete"}
  <2>1. Ended(r, f)
    <3> HIDE DEF f
    <3> QED BY <1>4, <1>5, <1>6 DEF Proceed, Following
  <2>2. /\ req' = End(r) /\ log' \in LogSet(log.started) /\ SamePass /\ SameUsed
        /\ log'.mailed = log.mailed /\ log'.since = log.since
        /\ SameSigns \/ (((~q.failed /\ ~fails) \/ q.pc = "erase") /\ Reported(r))
    <3>1. q.pc # "idle" /\ (q.kind = "delete" => q.pc = "erase")
      BY <1>0, <1>6
    <3> QED BY <2>1, <3>1, EndedFacts
  <2>3. Shapes' /\ Others(r) /\ req'[r] = Idle /\ log'.started = log.started
    <3>1. mem' \in [Addresses -> Nat] /\ now' = now /\ scenario' = scenario
      BY <1>0 DEF Shapes
    <3> QED BY <1>3, <2>2, <3>1, EndShapes
  <2>4. SameMail
    BY <1>0, <2>2 DEF SameMail
  <2>5. q.kind # "verify"
    BY <1>0 DEF KindsAt, PasswordKinds
  <2> QED BY <1>0, <1>3, <2>2, <2>3, <2>4, <2>5
<1>7. CASE q.kind \in {"reset", "change", "setpw", "delete"}
  <2>1. log' = log /\ req' = [req EXCEPT ![r] = [f EXCEPT !.pc = "links"]]
    <3> HIDE DEF f
    <3>1. Following(f.kind, f.pc) = "links"
      BY <1>4, <1>7 DEF Following
    <3> QED BY <1>5, <3>1 DEF Proceed
  <2>2. q.kind \in KindsAt["links"] /\ q.pc # "idle"
    BY <1>0, <1>7 DEF KindsAt
  <2>3. /\ Shapes' /\ Others(r) /\ log' = log /\ SameMail
        /\ req'[r].pc = "links" /\ SameWork(r) /\ req'[r].failed = (q.failed \/ fails)
    <3>1. UNCHANGED <<log, mem, now, scenario>>
      BY <1>0, <2>1
    <3>2. req' = [req EXCEPT ![r] = [[req[r] EXCEPT !.failed = @ \/ fails] EXCEPT !.pc = "links"]]
      BY <2>1
    <3> HIDE DEF f
    <3> QED BY <1>3, <2>1, <2>2, <3>1, <3>2, OnShapes, Zenon
  <2> QED BY <1>0, <1>3, <2>3 DEF SamePass, SameUsed
<1> QED BY <1>6, <1>7


\* A statement that did not fail leaves the record of failures.
LEMMA NoFailure ==
  ASSUME NEW n, NEW q \in ReqSet(n)
  PROVE  [q EXCEPT !.failed = @ \/ FALSE] = q
<1>1. (q.failed \/ FALSE) = q.failed
  BY DEF ReqSet
<1>2. [q EXCEPT !.failed = @ \/ FALSE] = [q EXCEPT !.failed = q.failed]
  BY <1>1
<1>3. [q EXCEPT !.failed = q.failed] = q
  BY DEF ReqSet
<1> QED BY <1>2, <1>3

\* Deleting the links is the last statement of a password change.
LEMMA LinksFacts ==
  ASSUME Shapes, NEW r \in Requests, DeleteLinks(r)
  PROVE  /\ Shapes' /\ Others(r) /\ req[r].pc = "links" /\ log'.started = log.started
         /\ SameMail /\ SamePass /\ SameUsed
         /\ db'.user = db.user /\ db'.links \subseteq db.links /\ db'.tokens = db.tokens /\ db'.sessions = db.sessions
         /\ \/ /\ req'[r] = Idle
               /\ SameSigns \/ (Reported(r) /\ ~req[r].failed /\ req[r].kind # "verify")
            \/ req'[r].pc = "erase" /\ SameWork(r) /\ log' = log
<1> DEFINE q == req[r]
           p == IF q.kind = "delete" THEN "" ELSE q.purpose
           e == linksDeleteByUserID(p)
<1>00. /\ q.pc = "links"  /\ UNCHANGED <<mem, now, scenario>> /\ db' = [db EXCEPT !.links = e]
       /\ IF q.kind = "verify" THEN req' = End(r) /\ UNCHANGED log ELSE Proceed(r, q)
  BY Zenon DEF DeleteLinks
<1> HIDE DEF p, e
<1>0. /\ q.pc = "links" /\ q # Idle /\ q \in ReqSet(log.started) /\ Active(q) /\ q.kind \in KindsAt["links"]
      /\ UNCHANGED <<mem, now, scenario>> /\ db' = [db EXCEPT !.links = e]
      /\ IF q.kind = "verify" THEN req' = End(r) /\ UNCHANGED log ELSE Proceed(r, q)
  <2>1. q # Idle /\ q \in ReqSet(log.started) /\ Active(q) /\ q.kind \in KindsAt[q.pc]
    BY <1>00, AtWork
  <2> QED BY <1>00, <2>1
<1>1. e \subseteq db.links
  BY Zenon DEF linksDeleteByUserID, e
<1> HIDE DEF e
<1>2. /\ db' \in DbSet(log.started) /\ db'.links \subseteq db.links /\ db'.user = db.user
      /\ db'.sessions = db.sessions /\ db'.tokens = db.tokens
  <2>1. e \in SUBSET LinkSet(log.started)
    BY <1>1, Pieces
  <2> QED BY <1>0, <1>1, <2>1, DbLinks
<1>3. mem' \in [Addresses -> Nat] /\ now' = now /\ scenario' = scenario /\ mem' = mem
  BY <1>0 DEF Shapes
<1>4. CASE q.kind = "verify"
  <2>1. req' = End(r) /\ log' = log /\ log' \in LogSet(log.started)
    BY <1>0, <1>4 DEF Shapes
  <2>2. Shapes' /\ Others(r) /\ req'[r] = Idle
    BY <1>2, <1>3, <2>1, EndShapes
  <2> QED BY <1>0, <1>2, <1>3, <2>1, <2>2 DEF SameMail, SamePass, SameUsed, SameSigns
<1>5. CASE q.kind = "delete"
  <2>1. Following(q.kind, q.pc) = "erase"
    BY <1>0, <1>5 DEF Following
  <2>2. UNCHANGED <<log, mem, now, scenario>> /\ req' = [req EXCEPT ![r] = [q EXCEPT !.pc = "erase"]]
    BY <1>0, <1>5, <2>1 DEF Proceed
  <2>3. req' = [req EXCEPT ![r] = [[req[r] EXCEPT !.failed = @ \/ FALSE] EXCEPT !.pc = "erase"]]
    BY <1>0, <2>2, NoFailure
  <2>4. q.kind \in KindsAt["erase"] /\ q.pc # "idle" /\ "erase" \in {"tokens", "links", "erase"} /\ FALSE \in BOOLEAN
    BY <1>0, <1>5 DEF KindsAt
  <2>5. Shapes' /\ Others(r) /\ log' = log /\ SameMail /\ req'[r].pc = "erase" /\ SameWork(r)
    BY <1>2, <2>2, <2>3, <2>4, OnShapes, Zenon
  <2> QED BY <1>0, <1>2, <2>5 DEF SamePass, SameUsed
<1>6. CASE q.kind \notin {"verify", "delete"}
  <2>1. Following(q.kind, q.pc) = "idle"
    BY <1>0, <1>6 DEF Following
  <2>2. Ended(r, q)
    BY <1>0, <1>6, <2>1 DEF Proceed
  <2>3. Ended(r, [q EXCEPT !.failed = @ \/ FALSE])
    BY <1>0, <2>2, NoFailure
  <2>4. /\ req' = End(r) /\ log' \in LogSet(log.started) /\ SamePass /\ SameUsed
        /\ log'.mailed = log.mailed /\ log'.since = log.since
        /\ SameSigns \/ (((~q.failed /\ ~FALSE) \/ q.pc = "erase") /\ Reported(r))
    <3>1. q.pc # "idle" /\ (q.kind = "delete" => q.pc = "erase") /\ FALSE \in BOOLEAN
      BY <1>0, <1>6
    <3> QED BY <2>3, <3>1, EndedFacts, Zenon
  <2>5. Shapes' /\ Others(r) /\ req'[r] = Idle /\ log'.started = log.started
    BY <1>2, <1>3, <2>4, EndShapes
  <2> QED BY <1>0, <1>2, <1>3, <1>6, <2>4, <2>5 DEF SameMail
<1> QED BY <1>4, <1>5, <1>6

\* Deleting the user takes everything along.
LEMMA DeleteFacts ==
  ASSUME Shapes, NEW r \in Requests, DeleteUser(r)
  PROVE  /\ Shapes' /\ Others(r) /\ req[r].pc = "erase" /\ log'.started = log.started
         /\ SameMail /\ SamePass /\ SameUsed
         /\ ~db'.user.live /\ db'.user.pw = db.user.pw
         /\ db'.links = {} /\ db'.tokens = {} /\ db'.sessions = {}
         /\ req'[r] = Idle /\ req[r].old = 0
         /\ SameSigns \/ Reported(r)
<1> DEFINE q == req[r]
<1>0. /\ q.pc = "erase" /\ q # Idle /\ q \in ReqSet(log.started) /\ Active(q) /\ q.kind \in KindsAt["erase"]
      /\ UNCHANGED <<mem, now, scenario>> /\ db' = usersDelete /\ Ended(r, q)
  BY AtWork DEF DeleteUser
<1>1. /\ db' \in DbSet(log.started) /\ ~db'.user.live /\ db'.user.pw = db.user.pw
      /\ db'.links = {} /\ db'.tokens = {} /\ db'.sessions = {}
  <2>1. db.user \in RowSet(log.started)
    BY Pieces
  <2>2. PICK u \in RowSet(log.started) : ~u.live /\ u.pw = db.user.pw /\ u = [db.user EXCEPT !.live = FALSE]
    BY <2>1 DEF RowSet
  <2>3. db' = [db EXCEPT !.user = u, !.links = {}, !.sessions = {}, !.tokens = {}]
    BY <1>0, <2>2 DEF usersDelete, Shapes, DbSet
  <2> QED BY <2>2, <2>3 DEF Shapes, DbSet
<1>2. Ended(r, [q EXCEPT !.failed = @ \/ FALSE])
  BY <1>0, NoFailure
<1>3. /\ req' = End(r) /\ log' \in LogSet(log.started) /\ SamePass /\ SameUsed
      /\ log'.mailed = log.mailed /\ log'.since = log.since /\ (SameSigns \/ Reported(r))
  <2>1. q.pc # "idle" /\ (q.kind = "delete" => q.pc = "erase") /\ FALSE \in BOOLEAN
    BY <1>0
  <2> QED BY <1>2, <2>1, EndedFacts, Zenon
<1>4. Shapes' /\ Others(r) /\ req'[r] = Idle /\ log'.started = log.started
  <2>1. mem' \in [Addresses -> Nat] /\ now' = now /\ scenario' = scenario
    BY <1>0 DEF Shapes
  <2> QED BY <1>1, <1>3, <2>1, EndShapes
<1>5. q.old = 0
  BY <1>0 DEF Active, KindsAt, PasswordKinds
<1> QED BY <1>0, <1>1, <1>3, <1>4, <1>5 DEF SameMail

\* The session a login opens.
LEMMA OpenFacts ==
  ASSUME Shapes, NEW r \in Requests, CreateSession(r)
  PROVE  /\ Shapes' /\ Others(r) /\ req[r].pc = "open" /\ log' = log /\ mem' = mem /\ now' = now /\ req'[r] = Idle
         /\ db'.user = db.user /\ db'.links = db.links /\ db'.tokens = db.tokens
         /\ IF db.user.live
            THEN \E s \in SessionSet(log.started) :
                    s.id = req[r].id /\ s.pw = req[r].row.pw /\ db'.sessions = db.sessions \cup {s}
            ELSE db'.sessions = db.sessions
<1> DEFINE q == req[r]
           s == [id |-> q.id, pw |-> q.row.pw]
<1>0. /\ q.pc = "open" /\ q # Idle /\ q \in ReqSet(log.started) /\ Active(q)
      /\ UNCHANGED <<mem, now, scenario, log>> /\ req' = End(r)
      /\ db' = [db EXCEPT !.sessions = sessionsCreate(s)]
  BY AtWork DEF CreateSession
<1>1. s \in SessionSet(log.started) /\ s.id = q.id /\ s.pw = q.row.pw
  BY <1>0 DEF ReqSet, RowSet, Active, SessionSet, Pws, Upto
<1> HIDE DEF s
<1>2. sessionsCreate(s) = (IF db.user.live THEN db.sessions \cup {s} ELSE db.sessions)
  BY DEF sessionsCreate
<1>3. /\ db' \in DbSet(log.started) /\ db'.sessions = sessionsCreate(s) /\ db'.user = db.user /\ db'.links = db.links /\ db'.tokens = db.tokens
  <2>1. sessionsCreate(s) \in SUBSET SessionSet(log.started)
    BY <1>1, <1>2, Pieces
  <2> QED BY <1>0, <2>1, DbSessions
<1>4. mem' \in [Addresses -> Nat] /\ log' \in LogSet(log.started) /\ now' = now /\ scenario' = scenario
  BY <1>0 DEF Shapes
<1>5. Shapes' /\ Others(r) /\ req'[r] = Idle
  BY <1>0, <1>3, <1>4, EndShapes
<1> QED BY <1>0, <1>1, <1>2, <1>3, <1>5

\* Maintenance deletes links.
LEMMA MaintenanceFacts ==
  ASSUME Shapes, RunMaintenance
  PROVE  /\ Shapes' /\ UNCHANGED <<req, log, mem, now>>
         /\ db'.user = db.user /\ db'.links \subseteq db.links /\ db'.tokens = db.tokens /\ db'.sessions = db.sessions
<1> DEFINE e == linksDeleteExpired
<1>1. e \subseteq db.links
  BY DEF linksDeleteExpired
<1>2. db' = [db EXCEPT !.links = e] /\ UNCHANGED <<mem, req, now, scenario, log>>
  BY DEF RunMaintenance
<1> HIDE DEF e
<1>3. e \in SUBSET LinkSet(log.started)
  BY <1>1, Pieces
<1>4. /\ db' \in DbSet(log.started) /\ db'.links = e /\ db'.user = db.user
      /\ db'.sessions = db.sessions /\ db'.tokens = db.tokens
  BY <1>2, <1>3, DbLinks
<1>5. Shapes'
  BY <1>2, <1>4 DEF Shapes
<1> QED BY <1>1, <1>2, <1>4, <1>5

\* A restart forgets the requests and the throttle.
LEMMA RestartFacts ==
  ASSUME Shapes, Restart
  PROVE  /\ Shapes' /\ db' = db /\ now' = now /\ (\A r \in Requests : req'[r] = Idle)
         /\ (\A a \in Addresses : log'.mailed[a] = {} /\ mem'[a] = 0) /\ log'.since = now
         /\ SameSigns /\ SamePass /\ SameUsed
<1>1. /\ log.started < scenario.requests /\ mem' = [a \in Addresses |-> 0] /\ req' = [r \in Requests |-> Idle]
      /\ log' = [log EXCEPT !.started = log.started + 1, !.since = now, !.mailed = [a \in Addresses |-> {}]] /\ UNCHANGED <<db, now, scenario>>
  BY DEF Restart, NextId
<1>2. log.started + 1 \in 1..MaxRequests
  BY <1>1, Pieces, AccountLinksAssumption DEF Shapes
<1>3. /\ log' \in LogSet(log.started + 1) /\ log'.mailed = [a \in Addresses |-> {}] /\ log'.since = now
      /\ SameSigns /\ SamePass /\ SameUsed /\ log'.started = log.started + 1
  BY <1>1, GrowOne DEF Shapes, LogSet, SameSigns, SamePass, SameUsed
<1>4. db' \in DbSet(log.started + 1)
  <2>1. db \in DbSet(log.started + 1)
    BY GrowOne DEF Shapes, DbSet
  <2> QED BY <1>1, <2>1
<1>5. req' \in [Requests -> ReqSet(log.started + 1)] /\ (\A r \in Requests : req'[r] = Idle)
  BY <1>1, GrowOne, IdleType
<1>6. mem' \in [Addresses -> Nat] /\ (\A a \in Addresses : mem'[a] = 0)
  BY <1>1
<1>7. Shapes'
  BY <1>1, <1>2, <1>3, <1>4, <1>5, <1>6 DEF Shapes
<1> QED BY <1>1, <1>3, <1>5, <1>6, <1>7

\* Time passes.
LEMMA TickFacts ==
  ASSUME Shapes, Tick
  PROVE  Shapes' /\ now' = now + 1 /\ UNCHANGED <<db, mem, req, log>>
BY DEF Shapes, Tick


-----------------------------------------------------------------------------
(* The invariants, one at a time.                                          *)

\* A statement of a request keeps the shapes and the request's id.
LEMMA StepCommon ==
  ASSUME Shapes, NEW r \in Requests, Step(r)
  PROVE  /\ Shapes' /\ Others(r) /\ req[r].pc # "idle" /\ log'.started = log.started
         /\ req'[r] = Idle \/ req'[r].id = req[r].id
<1> USE DEF Kept, SameWork
<1>1. CASE Throttle(r)      BY <1>1, ThrottleFacts
<1>2. CASE ClearLinks(r)    BY <1>2, ClearFacts
<1>3. CASE issueToken(r)    BY <1>3, IssueFacts
<1>4. CASE consumeToken(r)  BY <1>4, ConsumeFacts
<1>5. CASE LoadUser(r)      BY <1>5, LoadFacts
<1>6. CASE VerifyEmail(r)   BY <1>6, VerifyFacts DEF WroteBack
<1>7. CASE SetPassword(r)   BY <1>7, PasswordFacts
<1>8. CASE ListSessions(r)  BY <1>8, ListFacts
<1>9. CASE EndSessions(r)   BY <1>9, SessionsFacts
<1>10. CASE RevokeTokens(r) BY <1>10, TokensFacts
<1>11. CASE DeleteLinks(r)  BY <1>11, LinksFacts
<1>12. CASE DeleteUser(r)   BY <1>12, DeleteFacts
<1>13. CASE SaveForm(r)     BY <1>13, SaveFacts DEF WroteBack
<1>14. CASE CreateSession(r) BY <1>14, OpenFacts
<1> QED BY <1>1, <1>2, <1>3, <1>4, <1>5, <1>6, <1>7, <1>8, <1>9, <1>10, <1>11, <1>12, <1>13, <1>14 DEF Step

\* Every step keeps the shapes.
LEMMA ShapesStep ==
  ASSUME Shapes, [Next]_vars
  PROVE  Shapes'
<1>1. ASSUME NEW r \in Requests, Request(r) PROVE Shapes'
  BY <1>1, StartFacts DEF Begun
<1>2. ASSUME NEW r \in Requests, Step(r) PROVE Shapes'
  BY <1>2, StepCommon
<1>3. CASE RunMaintenance
  BY <1>3, MaintenanceFacts
<1>4. CASE Restart
  BY <1>4, RestartFacts
<1>5. CASE Tick
  BY <1>5, TickFacts
<1>6. CASE UNCHANGED vars
  BY <1>6 DEF vars, Shapes
<1> QED BY <1>1, <1>2, <1>3, <1>4, <1>5, <1>6 DEF Next

\* Ids are drawn one after the other, so no two requests share one.
LEMMA IdsApartStep ==
  ASSUME Shapes, IdsApart, [Next]_vars
  PROVE  IdsApart'
<1>1. ASSUME NEW r \in Requests, Request(r) PROVE IdsApart'
  <2>1. Others(r) /\ (req'[r] = Idle \/ req'[r].id = log.started + 1)
    BY <1>1, StartFacts DEF Begun, FreshReq
  <2>2. \A x \in Requests : req[x].id \in 0..log.started /\ log.started \in Nat
    BY Pieces DEF ReqSet, Upto
  <2>3. \A x \in Requests : req[x].id # log.started + 1
    BY <2>2
  <2> QED BY <2>1, <2>3 DEF IdsApart, Others
<1>2. ASSUME NEW r \in Requests, Step(r) PROVE IdsApart'
  <2>1. Others(r) /\ req[r] # Idle /\ (req'[r] = Idle \/ req'[r].id = req[r].id)
    BY <1>2, StepCommon, AtWork
  <2> QED BY <2>1 DEF IdsApart, Others
<1>3. CASE RunMaintenance \/ Tick \/ UNCHANGED vars
  BY <1>3 DEF RunMaintenance, Tick, vars, IdsApart
<1>4. CASE Restart
  BY <1>4, RestartFacts DEF IdsApart
<1> QED BY <1>1, <1>2, <1>3, <1>4 DEF Next

\* Rows are inserted only while the user's row is there, and go with it.
LEMMA NoOrphansStep ==
  ASSUME Shapes, NoOrphans, [Next]_vars
  PROVE  NoOrphans'
<1>1. ASSUME NEW r \in Requests, Request(r) PROVE NoOrphans'
  BY <1>1, StartFacts DEF Begun, NoOrphans
<1>2. ASSUME NEW r \in Requests, Step(r) PROVE NoOrphans'
  <2>1. CASE Throttle(r)      BY <2>1, ThrottleFacts DEF NoOrphans
  <2>2. CASE ClearLinks(r)    BY <2>2, ClearFacts DEF NoOrphans
  <2>3. CASE issueToken(r)    BY <2>3, IssueFacts DEF NoOrphans
  <2>4. CASE consumeToken(r)  BY <2>4, ConsumeFacts DEF NoOrphans
  <2>5. CASE LoadUser(r)      BY <2>5, LoadFacts DEF NoOrphans
  <2>6. CASE VerifyEmail(r)   BY <2>6, VerifyFacts DEF NoOrphans, WroteBack
  <2>7. CASE SetPassword(r)   BY <2>7, PasswordFacts DEF NoOrphans
  <2>8. CASE ListSessions(r)  BY <2>8, ListFacts DEF NoOrphans
  <2>9. CASE EndSessions(r)   BY <2>9, SessionsFacts DEF NoOrphans
  <2>10. CASE RevokeTokens(r) BY <2>10, TokensFacts DEF NoOrphans
  <2>11. CASE DeleteLinks(r)  BY <2>11, LinksFacts DEF NoOrphans
  <2>12. CASE DeleteUser(r)   BY <2>12, DeleteFacts DEF NoOrphans
  <2>13. CASE SaveForm(r)     BY <2>13, SaveFacts DEF NoOrphans, WroteBack
  <2>14. CASE CreateSession(r) BY <2>14, OpenFacts DEF NoOrphans
  <2> QED BY <1>2, <2>1, <2>2, <2>3, <2>4, <2>5, <2>6, <2>7, <2>8, <2>9, <2>10, <2>11, <2>12, <2>13, <2>14 DEF Step
<1>3. CASE RunMaintenance
  BY <1>3, MaintenanceFacts DEF NoOrphans
<1>4. CASE Restart
  BY <1>4, RestartFacts DEF NoOrphans
<1>5. CASE Tick \/ UNCHANGED vars
  BY <1>5 DEF Tick, vars, NoOrphans
<1> QED BY <1>1, <1>2, <1>3, <1>4, <1>5 DEF Next

\* The requests that passed are finitely many.
LEMMA OwedFinite ==
  ASSUME Shapes, NEW a \in Addresses
  PROVE  IsFiniteSet(Owed(a)) /\ Cardinality(Owed(a)) \in Nat /\ (Owed(a) # {} => Cardinality(Owed(a)) >= 1)
<1>1. Owed(a) \subseteq Ids
  <2>1. log.mailed \in [Addresses -> SUBSET Ids]
    BY DEF Shapes, LogSet
  <2>2. \A r \in Requests : req[r].id \in Ids
    BY Pieces DEF ReqSet, Upto, Ids
  <2> QED BY <2>1, <2>2 DEF Owed
<1>2. IsFiniteSet(Ids)
  BY AccountLinksAssumption, FS_Interval DEF Ids
<1>3. IsFiniteSet(Owed(a))
  BY <1>1, <1>2, FS_Subset
<1>4. Cardinality(Owed(a)) \in Nat /\ (Cardinality(Owed(a)) = 0 <=> Owed(a) = {})
  BY <1>3, FS_CardinalityType, FS_EmptySet
<1> QED BY <1>3, <1>4

\* Fewer mails need no more time.
LEMMA FewerMails ==
  ASSUME NEW k \in Nat, NEW n \in Nat, k <= n, NEW d \in Int, (n - 1) * ResetInterval <= d
  PROVE  (k - 1) * ResetInterval <= d
<1>1. ResetInterval \in Nat
  BY AccountLinksAssumption
<1>2. (n - 1) * ResetInterval = (k - 1) * ResetInterval + (n - k) * ResetInterval
  BY <1>1
<1>3. (n - k) * ResetInterval >= 0
  BY <1>1
<1>4. (k - 1) * ResetInterval \in Int /\ (n - k) * ResetInterval \in Int
  BY <1>1
<1> QED BY <1>2, <1>3, <1>4

\* A step that leaves the throttle alone and lets no further request pass.
LEMMA MailsKept ==
  ASSUME Shapes, Shapes', MailsRecorded, mem' = mem, now' = now, log'.since = log.since,
         \A a \in Addresses : Owed(a)' \subseteq Owed(a)
  PROVE  MailsRecorded'
<1>1. now \in Nat /\ mem \in [Addresses -> Nat] /\ log.since \in Nat
  BY DEF Shapes, LogSet
<1>2. ASSUME NEW a \in Addresses, Owed(a)' # {}
      PROVE  mem[a] # 0 /\ (Cardinality(Owed(a)') - 1) * ResetInterval <= mem[a] - log.since
  <2>1. Owed(a) # {}
    BY <1>2
  <2>2. mem[a] # 0 /\ (Cardinality(Owed(a)) - 1) * ResetInterval <= mem[a] - log.since
    BY <2>1 DEF MailsRecorded
  <2>3. IsFiniteSet(Owed(a)) /\ Cardinality(Owed(a)) \in Nat
    BY OwedFinite
  <2>4. Owed(a)' \subseteq Owed(a)
    OBVIOUS
  <2>5. Cardinality(Owed(a)') <= Cardinality(Owed(a)) /\ Cardinality(Owed(a)') \in Nat
    BY <2>3, <2>4, FS_Subset, FS_CardinalityType
  <2>6. mem[a] - log.since \in Int
    BY <1>1
  <2> QED BY <2>2, <2>3, <2>5, <2>6, FewerMails
<1> QED BY <1>1, <1>2 DEF MailsRecorded

\* It is enough that the request of the step passed before if it has now.
LEMMA OwedQuiet ==
  ASSUME NEW r \in Requests, Others(r), log'.mailed = log.mailed,
         \A a \in Addresses : Passed(req'[r], a) => Passed(req[r], a) /\ req'[r].id = req[r].id
  PROVE  \A a \in Addresses : Owed(a)' \subseteq Owed(a)
<1> TAKE a \in Addresses
<1>1. \A x \in Requests : Passed(req'[x], a) => Passed(req[x], a) /\ req'[x].id = req[x].id
  BY DEF Others
<1>2. Owed(a)' = log'.mailed[a] \cup {req'[x].id : x \in {y \in Requests : Passed(req'[y], a)}}
  BY DEF Owed, Passed
<1> QED BY <1>1, <1>2 DEF Owed

\* A request that is at no such statement has not passed.
LEMMA NotPassed ==
  ASSUME NEW q, q = Idle \/ q.pc \notin {"clear", "issue"} \/ q.kind # "forgot"
  PROVE  \A a : ~Passed(q, a)
BY DEF Passed, Idle

\* The throttle lets one more pass when the last was an interval ago.
LEMMA ThrottleMails ==
  ASSUME Shapes, MailsRecorded, NEW r \in Requests, Throttle(r)
  PROVE  MailsRecorded'
<1>0. Others(r) /\ Shapes' /\ now' = now /\ log' = log
  BY ThrottleFacts
<1>1. CASE req'[r] = Idle /\ mem' = mem
  BY <1>0, <1>1, NotPassed, OwedQuiet, MailsKept
<1>2. CASE /\ req'[r].pc = "clear" /\ Kept(r) /\ req'[r].row = req[r].row
           /\ ~throttled(req[r].row.addr) /\ mem' = [mem EXCEPT ![req[r].row.addr] = now]
  <2>0. PICK b \in Addresses : b = req[r].row.addr
    BY ThrottleFacts, AtWork DEF RowSet
  <2>1. /\ now \in Nat /\ now >= 1 /\ mem \in [Addresses -> Nat] /\ log.since \in Nat /\ log.since <= now
        /\ ResetInterval \in Nat /\ b \in Addresses /\ req[r] # Idle
    BY ThrottleFacts, AtWork, AccountLinksAssumption DEF Shapes, LogSet, MailsRecorded, RowSet
  <2>2. ASSUME NEW a \in Addresses, a # b
        PROVE  Owed(a)' \subseteq Owed(a) /\ mem'[a] = mem[a]
    <3>1. \A x \in Requests : Passed(req'[x], a) => Passed(req[x], a) /\ req'[x].id = req[x].id
      BY <1>0, <1>2, <2>0, <2>2 DEF Others, Passed
    <3>2. Owed(a)' = log'.mailed[a] \cup {req'[x].id : x \in {y \in Requests : Passed(req'[y], a)}}
      BY DEF Owed, Passed
    <3> QED BY <1>0, <1>2, <2>0, <2>1, <2>2, <3>1, <3>2 DEF Owed
  <2>3. Owed(b)' \subseteq Owed(b) \cup {req[r].id}
    <3>1. \A x \in Requests \ {r} : Passed(req'[x], b) => Passed(req[x], b) /\ req'[x].id = req[x].id
      BY <1>0 DEF Others
    <3>2. Owed(b)' = log'.mailed[b] \cup {req'[x].id : x \in {y \in Requests : Passed(req'[y], b)}}
      BY DEF Owed, Passed
    <3>3. req'[r].id = req[r].id
      BY <1>2 DEF Kept
    <3> QED BY <1>0, <3>1, <3>2, <3>3 DEF Owed
  <2>4. /\ IsFiniteSet(Owed(b)) /\ Cardinality(Owed(b)) \in Nat /\ (Owed(b) = {} => Cardinality(Owed(b)) = 0)
    BY <2>1, OwedFinite, FS_EmptySet
  <2>5. /\ Cardinality(Owed(b)') \in Nat /\ Cardinality(Owed(b)') <= Cardinality(Owed(b)) + 1
    <3>1. IsFiniteSet(Owed(b) \cup {req[r].id}) /\ Cardinality(Owed(b) \cup {req[r].id}) <= Cardinality(Owed(b)) + 1
      <4>1. Cardinality(Owed(b) \cup {req[r].id}) = Cardinality(Owed(b)) \/ Cardinality(Owed(b) \cup {req[r].id}) = Cardinality(Owed(b)) + 1
        BY <2>4, FS_AddElement
      <4> QED BY <2>4, <4>1, FS_AddElement
    <3> QED BY <2>3, <3>1, FS_Subset, FS_CardinalityType, <2>4
  <2>6. Cardinality(Owed(b)) * ResetInterval <= now - log.since
    <3>1. CASE Owed(b) = {}
      BY <2>1, <2>4, <3>1
    <3>2. CASE Owed(b) # {}
      <4>1. mem[b] # 0 /\ (Cardinality(Owed(b)) - 1) * ResetInterval <= mem[b] - log.since
        BY <2>1, <3>2 DEF MailsRecorded
      <4>2. Cardinality(Owed(b)) * ResetInterval = (Cardinality(Owed(b)) - 1) * ResetInterval + ResetInterval
        BY <2>1, <2>4
      <4>3. ResetInterval = 0 \/ now - mem[b] >= ResetInterval
        BY <1>2, <2>0, <2>1, <4>1 DEF throttled
      <4>4. mem[b] <= now /\ mem[b] \in Nat /\ (Cardinality(Owed(b)) - 1) * ResetInterval \in Int
        BY <2>1, <2>4 DEF MailsRecorded
      <4> QED BY <2>1, <4>1, <4>2, <4>3, <4>4
    <3> QED BY <3>1, <3>2
  <2>7. (Cardinality(Owed(b)') - 1) * ResetInterval <= now - log.since
    <3>1. Cardinality(Owed(b)) + 1 \in Nat /\ now - log.since \in Int
      BY <2>1, <2>4
    <3>2. ((Cardinality(Owed(b)) + 1) - 1) * ResetInterval <= now - log.since
      BY <2>4, <2>6
    <3> QED BY <2>5, <3>1, <3>2, FewerMails
  <2>8. ASSUME NEW a \in Addresses
        PROVE  /\ mem'[a] <= now' /\ (mem'[a] # 0 => log'.since <= mem'[a])
               /\ Owed(a)' # {} => mem'[a] # 0 /\ (Cardinality(Owed(a)') - 1) * ResetInterval <= mem'[a] - log'.since
    <3>1. CASE a = b
      <4>1. mem'[a] = now
        BY <1>2, <2>0, <2>1, <3>1
      <4> QED BY <1>0, <2>1, <2>7, <3>1, <4>1
    <3>2. CASE a # b
      <4>1. Owed(a)' \subseteq Owed(a) /\ mem'[a] = mem[a]
        BY <2>2, <3>2
      <4>2. /\ mem[a] <= now /\ (mem[a] # 0 => log.since <= mem[a])
            /\ Owed(a) # {} => mem[a] # 0 /\ (Cardinality(Owed(a)) - 1) * ResetInterval <= mem[a] - log.since
        BY DEF MailsRecorded
      <4>3. IsFiniteSet(Owed(a)) /\ Cardinality(Owed(a)) \in Nat
        BY OwedFinite
      <4>4. Cardinality(Owed(a)') <= Cardinality(Owed(a)) /\ Cardinality(Owed(a)') \in Nat
        BY <4>1, <4>3, FS_Subset, FS_CardinalityType
      <4>5. ASSUME Owed(a)' # {} PROVE (Cardinality(Owed(a)') - 1) * ResetInterval <= mem[a] - log.since /\ mem[a] # 0
        <5>1. mem[a] - log.since \in Int
          BY <2>1
        <5> QED BY <4>1, <4>2, <4>3, <4>4, <4>5, <5>1, FewerMails
      <4> QED BY <1>0, <4>1, <4>2, <4>5
    <3> QED BY <3>1, <3>2
  <2> QED BY <1>0, <2>1, <2>8 DEF MailsRecorded
<1> QED BY <1>1, <1>2, ThrottleFacts

\* When the mail leaves, its request is counted as before.
LEMMA IssueMails ==
  ASSUME Shapes, MailsRecorded, NEW r \in Requests, issueToken(r)
  PROVE  MailsRecorded'
<1> DEFINE b == req[r].row.addr
<1>0. /\ Others(r) /\ Shapes' /\ mem' = mem /\ now' = now /\ log'.since = log.since /\ req[r].pc = "issue"
      /\ b \in Addresses /\ log.mailed \in [Addresses -> SUBSET Ids]
      /\ \/ log'.mailed = log.mailed
         \/ req[r].kind = "forgot" /\ log'.mailed = [log.mailed EXCEPT ![b] = @ \cup {req[r].id}]
      /\ \/ req'[r] = Idle
         \/ req'[r].pc = "clear" /\ req'[r].id = req[r].id /\ req'[r].kind = req[r].kind /\ req'[r].row = req[r].row
  BY IssueFacts, AtWork DEF Shapes, LogSet, RowSet
<1>1. ASSUME NEW a \in Addresses PROVE Owed(a)' \subseteq Owed(a)
  <2>1. \A x \in Requests : Passed(req'[x], a) => Passed(req[x], a) /\ req'[x].id = req[x].id
    <3>1. Passed(req'[r], a) => Passed(req[r], a) /\ req'[r].id = req[r].id
      BY <1>0, NotPassed DEF Passed
    <3> QED BY <1>0, <3>1 DEF Others
  <2>2. log'.mailed[a] \subseteq log.mailed[a] \cup {req[x].id : x \in {y \in Requests : Passed(req[y], a)}}
    <3>1. CASE log'.mailed = log.mailed
      BY <3>1
    <3>2. CASE req[r].kind = "forgot" /\ log'.mailed = [log.mailed EXCEPT ![b] = @ \cup {req[r].id}]
      <4>1. Passed(req[r], b)
        BY <1>0, <3>2 DEF Passed
      <4> QED BY <1>0, <3>2, <4>1
    <3> QED BY <1>0, <3>1, <3>2
  <2>3. Owed(a)' = log'.mailed[a] \cup {req'[x].id : x \in {y \in Requests : Passed(req'[y], a)}}
    BY DEF Owed, Passed
  <2> QED BY <2>1, <2>2, <2>3 DEF Owed
<1> QED BY <1>0, <1>1, MailsKept

\* Only the throttle lets a request pass, and time only helps.
LEMMA MailsStep ==
  ASSUME Shapes, MailsRecorded, [Next]_vars
  PROVE  MailsRecorded'
<1> USE DEF SameMail
<1>1. ASSUME NEW r \in Requests, Request(r) PROVE MailsRecorded'
  <2>1. Begun(r)
    BY <1>1, StartFacts
  <2>2. \A a \in Addresses : ~Passed(req'[r], a)
    BY <2>1, NotPassed DEF Begun, FreshReq, Passed
  <2>3. Shapes' /\ Others(r) /\ mem' = mem /\ now' = now /\ log'.mailed = log.mailed /\ log'.since = log.since
    BY <2>1 DEF Begun, SameHistory
  <2> QED BY <2>2, <2>3, OwedQuiet, MailsKept
<1>2. ASSUME NEW r \in Requests, Step(r), ~Throttle(r), ~issueToken(r) PROVE MailsRecorded'
  <2>1. /\ Shapes' /\ Others(r) /\ mem' = mem /\ now' = now /\ log'.mailed = log.mailed /\ log'.since = log.since
        /\ \/ req'[r] = Idle \/ req'[r].pc \notin {"clear", "issue"}
           \/ req[r].pc = "clear" /\ req'[r].id = req[r].id /\ req'[r].kind = req[r].kind /\ req'[r].row = req[r].row
    <3>2. CASE ClearLinks(r)    BY <3>2, ClearFacts DEF Kept
    <3>4. CASE consumeToken(r)  BY <3>4, ConsumeFacts
    <3>5. CASE LoadUser(r)      BY <3>5, LoadFacts
    <3>6. CASE VerifyEmail(r)   BY <3>6, VerifyFacts DEF WroteBack
    <3>7. CASE SetPassword(r)   BY <3>7, PasswordFacts
    <3>8. CASE ListSessions(r)  BY <3>8, ListFacts
    <3>9. CASE EndSessions(r)   BY <3>9, SessionsFacts
    <3>10. CASE RevokeTokens(r) BY <3>10, TokensFacts
    <3>11. CASE DeleteLinks(r)  BY <3>11, LinksFacts
    <3>12. CASE DeleteUser(r)   BY <3>12, DeleteFacts
    <3>13. CASE SaveForm(r)     BY <3>13, SaveFacts DEF WroteBack
    <3>14. CASE CreateSession(r) BY <3>14, OpenFacts
    <3> QED BY <1>2, <3>2, <3>4, <3>5, <3>6, <3>7, <3>8, <3>9, <3>10, <3>11, <3>12, <3>13, <3>14 DEF Step
  <2>2. \A a \in Addresses : Passed(req'[r], a) => Passed(req[r], a) /\ req'[r].id = req[r].id
    BY <2>1, NotPassed DEF Passed
  <2> QED BY <2>1, <2>2, OwedQuiet, MailsKept
<1>3. CASE RunMaintenance
  <2>1. Shapes' /\ UNCHANGED <<mem, req, now, log>>
    BY <1>3, MaintenanceFacts DEF RunMaintenance
  <2> QED BY <2>1 DEF MailsRecorded, Owed, Passed
<1>4. CASE Restart
  <2>1. \A a \in Addresses : Owed(a)' = {}
    BY <1>4, RestartFacts, NotPassed DEF Owed, Passed
  <2> QED BY <1>4, <2>1, RestartFacts DEF MailsRecorded, Shapes
<1>5. CASE Tick
  <2>1. now' = now + 1 /\ now \in Nat /\ log.since \in Nat /\ mem \in [Addresses -> Nat] /\ UNCHANGED <<mem, req, log>>
    BY <1>5, TickFacts DEF Shapes, LogSet
  <2>2. \A a \in Addresses : Owed(a)' = Owed(a)
    BY <2>1 DEF Owed, Passed
  <2> QED BY <2>1, <2>2 DEF MailsRecorded
<1>6. CASE UNCHANGED vars
  BY <1>6 DEF vars, MailsRecorded, Owed, Passed
<1> QED BY <1>1, <1>2, <1>3, <1>4, <1>5, <1>6, ThrottleMails, IssueMails DEF Next


\* The links after a step are links from before it, perhaps marked since.
OldLinks == \A m \in db'.links : \E l \in db.links :
               m.id = l.id /\ m.purpose = l.purpose /\ m.over = l.over /\ (l.used => m.used)

\* A step that stores no link, and a request that is at most as far from
\* issuing one as before.
LEMMA UsedQuiet ==
  ASSUME Shapes, UsedMarked, NEW r \in Requests, Others(r), SameUsed, OldLinks,
         Issuing(req'[r]) => Issuing(req[r]) /\ req'[r].id = req[r].id /\ Due(req'[r]) \subseteq Due(req[r])
  PROVE  UsedMarked'
<1>1. ~log'.reused
  BY DEF SameUsed, UsedMarked
<1>2. \A l \in db'.links : <<l.id, l.purpose>> \in log'.used => l.used
  BY DEF SameUsed, UsedMarked, OldLinks
<1>3. ASSUME NEW x \in Requests, Issuing(req'[x]), NEW p \in Due(req'[x])
      PROVE  <<req'[x].id, p>> \notin log'.used /\ \A l \in db'.links : ~(l.id = req'[x].id /\ l.purpose = p)
  <2>1. Issuing(req[x]) /\ req'[x].id = req[x].id /\ p \in Due(req[x])
    BY <1>3 DEF Others
  <2>2. <<req[x].id, p>> \notin log.used /\ \A l \in db.links : ~(l.id = req[x].id /\ l.purpose = p)
    BY <2>1 DEF UsedMarked, LinkTo
  <2> QED BY <2>1, <2>2 DEF SameUsed, OldLinks
<1>4. \A x \in Requests : Issuing(req'[x]) => \A p \in Due(req'[x]) : <<req'[x].id, p>> \notin log'.used /\ LinkTo(req[x].id, p)' = {}
  BY <1>3 DEF LinkTo
<1> QED BY <1>1, <1>2, <1>4 DEF UsedMarked, LinkTo

\* A followed link stays marked, and one to be issued was never followed.
LEMMA UsedStep ==
  ASSUME Shapes, IdsApart, UsedMarked, [Next]_vars
  PROVE  UsedMarked'
<1>1. ASSUME NEW r \in Requests, Request(r) PROVE UsedMarked'
  <2>1. Begun(r)
    BY <1>1, StartFacts
  <2>2. /\ log.started \in Nat /\ \A l \in db.links : l.id \in 0..log.started
        /\ \A id, p : <<id, p>> \in log.used => id \in 0..log.started
    BY Pieces DEF Shapes, LogSet, LinkSet, Upto
  <2>3. ~log'.reused
    <3>1. ASSUME NEW p \in Purposes, NEW id \in Ids, linksUsable(id, p) # {}, <<id, p>> \in log.used
          PROVE  FALSE
      <4>1. PICK l \in db.links : l.id = id /\ l.purpose = p /\ ~l.used
        BY <3>1 DEF linksUsable, IsValid
      <4> QED BY <3>1, <4>1 DEF UsedMarked
    <3> QED BY <2>1, <3>1 DEF Begun, UsedMarked
  <2>4. \A l \in db'.links : <<l.id, l.purpose>> \in log'.used => l.used
    BY <2>1 DEF Begun, SameHistory, UsedMarked
  <2>5. ASSUME NEW x \in Requests, Issuing(req'[x]), NEW p \in Due(req'[x])
        PROVE  <<req'[x].id, p>> \notin log'.used /\ \A l \in db'.links : ~(l.id = req'[x].id /\ l.purpose = p)
    <3>1. log'.used = log.used /\ db'.links = db.links
      BY <2>1 DEF Begun, SameHistory
    <3>2. CASE x = r
      <4>1. req'[r].id = log.started + 1
        BY <2>1, <2>5, <3>2, IdleType, <2>2 DEF Begun, FreshReq, Issuing
      <4> QED BY <2>2, <3>1, <3>2, <4>1
    <3>3. CASE x # r
      BY <2>1, <2>5, <3>1, <3>3 DEF Begun, Others, UsedMarked, LinkTo
    <3> QED BY <3>2, <3>3
  <2> QED BY <2>3, <2>4, <2>5 DEF UsedMarked, LinkTo
<1>2. ASSUME NEW r \in Requests, Step(r) PROVE UsedMarked'
  <2>0. ~Issuing(Idle)
    BY DEF Idle, Issuing
  <2>1. CASE Throttle(r)
    BY <2>0, <2>1, ThrottleFacts, UsedQuiet DEF OldLinks, Kept, Issuing, Due
  <2>2. CASE ClearLinks(r)
    BY <2>2, ClearFacts, UsedQuiet DEF OldLinks, Kept, Issuing, Due, SameUsed
  <2>3. CASE issueToken(r)
    <3> DEFINE q == req[r]
    <3>1. q.purpose \in Due(q) /\ Issuing(q) /\ q # Idle /\ q.purpose \in Purposes
      BY <2>3, IssueFacts, AtWork DEF Due, Issuing
    <3>2. \A m \in db'.links : m \in db.links \/ (m.id = q.id /\ m.purpose = q.purpose /\ ~m.used)
      BY <2>3, IssuedLink
    <3>3. log'.used = log.used /\ log'.reused = log.reused /\ Others(r)
      BY <2>3, IssueFacts DEF SameUsed
    <3>4. <<q.id, q.purpose>> \notin log.used
      BY <3>1 DEF UsedMarked
    <3>5. ~log'.reused /\ \A l \in db'.links : <<l.id, l.purpose>> \in log'.used => l.used
      BY <3>2, <3>3, <3>4 DEF UsedMarked
    <3>6. ASSUME NEW x \in Requests, Issuing(req'[x]), NEW p \in Due(req'[x])
          PROVE  <<req'[x].id, p>> \notin log'.used /\ \A l \in db'.links : ~(l.id = req'[x].id /\ l.purpose = p)
      <4>1. CASE x = r
        <5>1. q.more /\ req'[r].more = FALSE /\ req'[r].purpose = "verify" /\ req'[r].id = q.id
          BY <2>0, <2>3, <3>6, <4>1, IssueFacts
        <5>2. p = "verify" /\ p \in Due(q)
          BY <3>6, <4>1, <5>1 DEF Due
        <5>3. q.purpose = "reset"
          BY <2>3, <3>1, <5>1, IssueFacts, AtWork DEF Active
        <5> QED BY <3>1, <3>2, <3>3, <4>1, <5>1, <5>2, <5>3 DEF UsedMarked, LinkTo
      <4>2. CASE x # r
        <5>1. req'[x] = req[x] /\ req[x] # Idle
          BY <2>0, <3>3, <3>6, <4>2 DEF Others
        <5>2. req[x].id # q.id
          BY <3>1, <4>2, <5>1 DEF IdsApart
        <5> QED BY <3>2, <3>3, <3>6, <5>1, <5>2 DEF UsedMarked, LinkTo
      <4> QED BY <4>1, <4>2
    <3> QED BY <3>5, <3>6 DEF UsedMarked, LinkTo
  <2>4. CASE consumeToken(r)
    <3> DEFINE q == req[r]
    <3>1. /\ log'.used = log.used \/ (LinkTo(q.link, q.purpose) # {} /\ log'.used = log.used \cup {<<q.link, q.purpose>>})
          /\ \A m \in db'.links : \E l \in db.links :
               /\ m.id = l.id /\ m.purpose = l.purpose /\ m.over = l.over /\ (l.used => m.used)
               /\ m.id = q.link /\ m.purpose = q.purpose => m.used
          /\ log'.reused = log.reused /\ Others(r) /\ (req'[r] = Idle \/ req'[r].pc = "load")
      BY <2>4, ConsumeFacts
    <3>2. \A l \in db'.links : <<l.id, l.purpose>> \in log'.used => l.used
      BY <3>1 DEF UsedMarked
    <3>3. ASSUME NEW x \in Requests, Issuing(req'[x]), NEW p \in Due(req'[x])
          PROVE  <<req'[x].id, p>> \notin log'.used /\ \A l \in db'.links : ~(l.id = req'[x].id /\ l.purpose = p)
      <4>1. x # r
        BY <2>0, <3>1, <3>3 DEF Issuing
      <4>2. req'[x] = req[x] /\ <<req[x].id, p>> \notin log.used /\ LinkTo(req[x].id, p) = {}
        BY <3>1, <3>3, <4>1 DEF Others, UsedMarked
      <4>3. LinkTo(q.link, q.purpose) # {} => <<q.link, q.purpose>> # <<req[x].id, p>>
        BY <4>2
      <4> QED BY <3>1, <4>2, <4>3 DEF LinkTo
    <3> QED BY <3>1, <3>2, <3>3 DEF UsedMarked, LinkTo
  <2>5. CASE LoadUser(r)
    BY <2>0, <2>5, LoadFacts, UsedQuiet DEF OldLinks, Issuing, SameUsed
  <2>6. CASE VerifyEmail(r) \/ SaveForm(r)
    BY <2>0, <2>6, VerifyFacts, SaveFacts, UsedQuiet DEF OldLinks, Issuing, WroteBack
  <2>7. CASE SetPassword(r)
    BY <2>0, <2>7, PasswordFacts, UsedQuiet DEF OldLinks, Issuing
  <2>8. CASE ListSessions(r)
    BY <2>0, <2>8, ListFacts, UsedQuiet DEF OldLinks, Issuing, SameUsed
  <2>9. CASE EndSessions(r)
    BY <2>0, <2>9, SessionsFacts, UsedQuiet DEF OldLinks, Issuing
  <2>10. CASE RevokeTokens(r)
    BY <2>0, <2>10, TokensFacts, UsedQuiet DEF OldLinks, Issuing
  <2>11. CASE DeleteLinks(r)
    BY <2>0, <2>11, LinksFacts, UsedQuiet DEF OldLinks, Issuing
  <2>12. CASE DeleteUser(r)
    BY <2>0, <2>12, DeleteFacts, UsedQuiet DEF OldLinks, Issuing
  <2>14. CASE CreateSession(r)
    BY <2>0, <2>14, OpenFacts, UsedQuiet DEF OldLinks, Issuing, SameUsed
  <2> QED BY <1>2, <2>1, <2>2, <2>3, <2>4, <2>5, <2>6, <2>7, <2>8, <2>9, <2>10, <2>11, <2>12, <2>14 DEF Step
<1>3. CASE RunMaintenance
  BY <1>3, MaintenanceFacts DEF UsedMarked, LinkTo
<1>4. CASE Restart
  <2>1. ~Issuing(Idle)
    BY DEF Idle, Issuing
  <2> QED BY <1>4, <2>1, RestartFacts DEF UsedMarked, SameUsed
<1>5. CASE Tick \/ UNCHANGED vars
  BY <1>5 DEF Tick, vars, UsedMarked, LinkTo
<1> QED BY <1>1, <1>2, <1>3, <1>4, <1>5 DEF Next


\* A step that stores no link, and a request that asks for the same as before.
LEMMA ReplacingQuiet ==
  ASSUME Shapes, Replacing, NEW r \in Requests, Others(r), OldLinks,
         Issuing(req'[r]) => /\ Issuing(req[r]) /\ req'[r].id = req[r].id /\ Due(req'[r]) = Due(req[r])
                             /\ req'[r].purpose = req[r].purpose /\ req'[r].over = req[r].over,
         req'[r].pc = "issue" => req[r].pc = "issue" \/ \A m \in db'.links : m.purpose # req[r].purpose
  PROVE  Replacing'
<1>0. \A x \in Requests : Issuing(req'[x]) => /\ Issuing(req[x]) /\ req'[x].id = req[x].id /\ Due(req'[x]) = Due(req[x])
                                              /\ req'[x].purpose = req[x].purpose /\ req'[x].over = req[x].over
  BY DEF Others
<1>1. \A l, m \in db'.links : l.purpose = m.purpose => l.id \notin m.over
  BY DEF Replacing, EarlierLinksReplaced, OldLinks
<1>2. ASSUME NEW y \in Requests, Issuing(req'[y]), NEW p \in Due(req'[y])
      PROVE  /\ \A m \in db'.links : m.purpose = p => req'[y].id \notin m.over
             /\ \A x \in Requests : Issuing(req'[x]) /\ req'[x].purpose = p => req'[y].id \notin req'[x].over
  <2>1. /\ \A m \in db.links : m.purpose = p => req[y].id \notin m.over
        /\ \A x \in Requests : Issuing(req[x]) /\ req[x].purpose = p => req[y].id \notin req[x].over
    BY <1>0, <1>2 DEF Replacing
  <2> QED BY <1>0, <1>2, <2>1 DEF OldLinks
<1>3. ASSUME NEW y \in Requests, req'[y].pc = "issue", NEW l \in db'.links, l.purpose = req'[y].purpose
      PROVE  l.id \notin req'[y].over
  <2>1. Issuing(req'[y])
    BY <1>3 DEF Issuing
  <2>2. CASE req[y].pc = "issue"
    <3>1. \A m \in db.links : m.purpose = req[y].purpose => m.id \notin req[y].over
      BY <2>2 DEF Replacing
    <3> QED BY <1>0, <1>3, <2>1, <3>1 DEF OldLinks
  <2>3. CASE req[y].pc # "issue"
    <3>1. y = r
      BY <1>3, <2>3 DEF Others
    <3> QED BY <1>0, <1>3, <2>1, <2>3, <3>1
  <2> QED BY <2>2, <2>3
<1> QED BY <1>1, <1>2, <1>3 DEF Replacing, EarlierLinksReplaced

\* A new link replaces those that were there when it was asked for.
LEMMA ReplacingStep ==
  ASSUME Shapes, UsedMarked, Replacing, [Next]_vars
  PROVE  Replacing'
<1>0. ~Issuing(Idle) /\ Idle.pc # "issue"
  BY DEF Idle, Issuing
<1>1. ASSUME NEW r \in Requests, Request(r) PROVE Replacing'
  <2>1. Begun(r)
    BY <1>1, StartFacts
  <2>2. /\ log.started \in Nat /\ (\A l \in db.links : l.id \in 0..log.started /\ l.over \subseteq 0..log.started)
        /\ \A x \in Requests : req[x].over \subseteq 0..log.started
    BY Pieces DEF LinkSet, ReqSet, Upto
  <2>3. db'.links = db.links /\ Others(r)
    BY <2>1 DEF Begun
  <2>4. req'[r].pc # "issue" /\ (Issuing(req'[r]) => req'[r].id = log.started + 1 /\ req'[r].over = LinkIds(req'[r].purpose))
    BY <1>0, <2>1 DEF Begun, FreshReq
  <2>5. \A p : LinkIds(p) \subseteq 0..log.started
    BY <2>2 DEF LinkIds
  <2>6. ASSUME NEW y \in Requests, Issuing(req'[y]), NEW p \in Due(req'[y])
        PROVE  /\ \A m \in db'.links : m.purpose = p => req'[y].id \notin m.over
               /\ \A x \in Requests : Issuing(req'[x]) /\ req'[x].purpose = p => req'[y].id \notin req'[x].over
    <3>1. CASE y = r
      <4>1. \A x \in Requests : Issuing(req'[x]) => req'[x].over \subseteq 0..log.started
        BY <2>2, <2>3, <2>4, <2>5 DEF Others
      <4>2. \A s : s \subseteq 0..log.started => log.started + 1 \notin s
        BY <2>2
      <4> QED BY <2>2, <2>3, <2>4, <2>6, <3>1, <4>1, <4>2
    <3>2. CASE y # r
      <4>1. req'[y] = req[y]
        BY <2>3, <3>2 DEF Others
      <4>2. /\ \A m \in db.links : m.purpose = p => req[y].id \notin m.over
            /\ \A x \in Requests : Issuing(req[x]) /\ req[x].purpose = p => req[y].id \notin req[x].over
        BY <2>6, <4>1 DEF Replacing
      <4>3. req[y].id \notin LinkIds(p)
        BY <2>6, <4>1 DEF UsedMarked, LinkTo, LinkIds
      <4> QED BY <2>3, <2>4, <4>1, <4>2, <4>3 DEF Others
    <3> QED BY <3>1, <3>2
  <2>7. \A y \in Requests : req'[y].pc = "issue" => \A l \in db'.links : l.purpose = req'[y].purpose => l.id \notin req'[y].over
    BY <2>3, <2>4 DEF Others, Replacing
  <2> QED BY <2>3, <2>6, <2>7 DEF Replacing, EarlierLinksReplaced
<1>2. ASSUME NEW r \in Requests, Step(r) PROVE Replacing'
  <2>1. CASE Throttle(r)
    <3>1. Others(r) /\ OldLinks /\ req'[r].pc # "issue" /\ Issuing(req[r])
      BY <1>0, <2>1, ThrottleFacts DEF OldLinks, Issuing
    <3>2. Issuing(req'[r]) => /\ req'[r].id = req[r].id /\ Due(req'[r]) = Due(req[r])
                              /\ req'[r].purpose = req[r].purpose /\ req'[r].over = req[r].over
      BY <1>0, <2>1, ThrottleFacts DEF Kept, Due
    <3> QED BY <3>1, <3>2, ReplacingQuiet
  <2>2. CASE ClearLinks(r)
    <3>1. Others(r) /\ OldLinks /\ Issuing(req[r]) /\ \A m \in db'.links : m.purpose # req[r].purpose
      BY <2>2, ClearFacts DEF OldLinks, Issuing
    <3>2. /\ req'[r].id = req[r].id /\ Due(req'[r]) = Due(req[r])
          /\ req'[r].purpose = req[r].purpose /\ req'[r].over = req[r].over
      BY <2>2, ClearFacts DEF Kept, Due
    <3> QED BY <3>1, <3>2, ReplacingQuiet
  <2>3. CASE issueToken(r)
    <3> DEFINE q == req[r]
    <3>1. q.purpose \in Due(q) /\ Issuing(q) /\ q.pc = "issue" /\ Others(r)
      BY <2>3, IssueFacts DEF Due, Issuing
    <3>2. \A m \in db'.links : m \in db.links \/ (m.id = q.id /\ m.purpose = q.purpose /\ m.over = q.over)
      BY <2>3, IssuedLink
    <3>3. /\ \A m \in db.links : m.purpose = q.purpose => q.id \notin m.over
          /\ \A x \in Requests : Issuing(req[x]) /\ req[x].purpose = q.purpose => q.id \notin req[x].over
          /\ \A m \in db.links : m.purpose = q.purpose => m.id \notin q.over
      BY <3>1 DEF Replacing
    <3>4. \A l, m \in db'.links : l.purpose = m.purpose => l.id \notin m.over
      BY <3>1, <3>2, <3>3 DEF Replacing, EarlierLinksReplaced
    <3>5. Issuing(req'[r]) => /\ req'[r].id = q.id /\ Due(req'[r]) \subseteq Due(q) /\ req'[r].over = {} /\ req'[r].pc = "clear"
      BY <1>0, <2>3, IssueFacts DEF Due
    <3>6. ASSUME NEW y \in Requests, Issuing(req'[y]), NEW p \in Due(req'[y])
          PROVE  /\ \A m \in db'.links : m.purpose = p => req'[y].id \notin m.over
                 /\ \A x \in Requests : Issuing(req'[x]) /\ req'[x].purpose = p => req'[y].id \notin req'[x].over
      <4>1. Issuing(req[y]) /\ req'[y].id = req[y].id /\ p \in Due(req[y])
        BY <3>1, <3>5, <3>6 DEF Others
      <4>2. /\ \A m \in db.links : m.purpose = p => req[y].id \notin m.over
            /\ \A x \in Requests : Issuing(req[x]) /\ req[x].purpose = p => req[y].id \notin req[x].over
        BY <4>1 DEF Replacing
      <4>3. \A x \in Requests : Issuing(req'[x]) /\ req'[x].purpose = p => req'[y].id \notin req'[x].over
        BY <3>1, <3>5, <4>1, <4>2 DEF Others
      <4> QED BY <3>1, <3>2, <4>1, <4>2, <4>3
    <3>7. ASSUME NEW y \in Requests, req'[y].pc = "issue", NEW l \in db'.links, l.purpose = req'[y].purpose
          PROVE  l.id \notin req'[y].over
      <4>1. y # r /\ req'[y] = req[y]
        BY <3>1, <3>5, <3>7 DEF Others, Issuing
      <4> QED BY <3>2, <3>3, <3>7, <4>1 DEF Replacing, Issuing
    <3> QED BY <3>4, <3>6, <3>7 DEF Replacing, EarlierLinksReplaced
  <2>4. CASE consumeToken(r)
    <3>1. Others(r) /\ (req'[r] = Idle \/ req'[r].pc = "load") /\ OldLinks
      BY <2>4, ConsumeFacts DEF OldLinks
    <3> QED BY <1>0, <3>1, ReplacingQuiet DEF Issuing
  <2>5. CASE LoadUser(r)
    BY <1>0, <2>5, LoadFacts, ReplacingQuiet DEF OldLinks, Issuing
  <2>6. CASE VerifyEmail(r) \/ SaveForm(r)
    BY <1>0, <2>6, VerifyFacts, SaveFacts, ReplacingQuiet DEF OldLinks, Issuing, WroteBack
  <2>7. CASE SetPassword(r)
    BY <1>0, <2>7, PasswordFacts, ReplacingQuiet DEF OldLinks, Issuing
  <2>8. CASE ListSessions(r)
    BY <1>0, <2>8, ListFacts, ReplacingQuiet DEF OldLinks, Issuing
  <2>9. CASE EndSessions(r)
    BY <1>0, <2>9, SessionsFacts, ReplacingQuiet DEF OldLinks, Issuing
  <2>10. CASE RevokeTokens(r)
    BY <1>0, <2>10, TokensFacts, ReplacingQuiet DEF OldLinks, Issuing
  <2>11. CASE DeleteLinks(r)
    BY <1>0, <2>11, LinksFacts, ReplacingQuiet DEF OldLinks, Issuing
  <2>12. CASE DeleteUser(r)
    BY <1>0, <2>12, DeleteFacts, ReplacingQuiet DEF OldLinks, Issuing
  <2>14. CASE CreateSession(r)
    BY <1>0, <2>14, OpenFacts, ReplacingQuiet DEF OldLinks, Issuing
  <2> QED BY <1>2, <2>1, <2>2, <2>3, <2>4, <2>5, <2>6, <2>7, <2>8, <2>9, <2>10, <2>11, <2>12, <2>14 DEF Step
<1>3. CASE RunMaintenance
  BY <1>3, MaintenanceFacts DEF Replacing, EarlierLinksReplaced
<1>4. CASE Restart
  BY <1>0, <1>4, RestartFacts DEF Replacing, EarlierLinksReplaced
<1>5. CASE Tick \/ UNCHANGED vars
  BY <1>5 DEF Tick, vars, Replacing, EarlierLinksReplaced
<1> QED BY <1>1, <1>2, <1>3, <1>4, <1>5 DEF Next


\* The invariant of the sign-outs, session by session.
SignForm ==
    /\ \A s \in db.sessions : s.id \notin log.gone
    /\ \A t \in db.tokens : t \notin log.cut
    /\ \A r \in Requests : req[r].pc = "open" =>
           /\ req[r].id \notin log.gone /\ \A s \in db.sessions : s.id # req[r].id
           /\ \A x \in Requests : req[r].id \notin req[x].seen
    /\ \A r \in Requests : PastSessions(req[r]) => \A s \in db.sessions : s.id \notin req[r].seen
    /\ \A r \in Requests : PastTokens(req[r]) => db.tokens = {}

\* It is the same.
LEMMA SignForms ==
  ASSUME TRUE
  PROVE  (SignedOut <=> SignForm) /\ (SignedOut' <=> SignForm')
<1>1. SignedOut <=> SignForm
  BY DEF SignedOut, SignOutIsReal, SessionIds, SignForm
<1>2. SignedOut' <=> SignForm'
  BY DEF SignedOut, SignOutIsReal, SessionIds, SignForm
<1> QED BY <1>1, <1>2

\* A step that opens no session and signs out nothing more.
LEMMA SignQuiet ==
  ASSUME SignForm, NEW r \in Requests, Others(r), SameSigns,
         db'.sessions \subseteq db.sessions, db'.tokens \subseteq db.tokens,
         req'[r].pc # "open", req'[r].seen \subseteq req[r].seen,
         PastSessions(req'[r]) => PastSessions(req[r]) \/ \A s \in db'.sessions : s.id \notin req'[r].seen,
         PastTokens(req'[r]) => PastTokens(req[r]) \/ db'.tokens = {}
  PROVE  SignForm'
<1>1. (\A s \in db'.sessions : s.id \notin log'.gone) /\ (\A t \in db'.tokens : t \notin log'.cut)
  BY DEF SignForm, SameSigns
<1>2. ASSUME NEW y \in Requests, req'[y].pc = "open"
      PROVE  /\ req'[y].id \notin log'.gone /\ (\A s \in db'.sessions : s.id # req'[y].id)
             /\ \A x \in Requests : req'[y].id \notin req'[x].seen
  <2>1. y # r /\ req'[y] = req[y]
    BY <1>2 DEF Others
  <2> QED BY <1>2, <2>1 DEF SignForm, SameSigns, Others
<1>3. ASSUME NEW y \in Requests, PastSessions(req'[y]) PROVE \A s \in db'.sessions : s.id \notin req'[y].seen
  BY <1>3 DEF SignForm, Others
<1>4. ASSUME NEW y \in Requests, PastTokens(req'[y]) PROVE db'.tokens = {}
  BY <1>4 DEF SignForm, Others
<1> QED BY <1>1, <1>2, <1>3, <1>4 DEF SignForm

\* A request reports its sign-out when what it found is gone.
LEMMA SignFinish ==
  ASSUME SignForm, NEW r \in Requests, Others(r), Reported(r), req'[r] = Idle,
         db'.sessions \subseteq db.sessions, db'.tokens \subseteq db.tokens,
         \A s \in db'.sessions : s.id \notin req[r].seen, req[r].kind # "one" => db'.tokens = {}
  PROVE  SignForm'
<1>0. Idle.pc = "idle" /\ Idle.seen = {}
  BY DEF Idle
<1>1. (\A s \in db'.sessions : s.id \notin log'.gone) /\ (\A t \in db'.tokens : t \notin log'.cut)
  BY DEF SignForm, Reported
<1>2. ASSUME NEW y \in Requests, req'[y].pc = "open"
      PROVE  /\ req'[y].id \notin log'.gone /\ (\A s \in db'.sessions : s.id # req'[y].id)
             /\ \A x \in Requests : req'[y].id \notin req'[x].seen
  <2>1. y # r /\ req'[y] = req[y]
    BY <1>0, <1>2 DEF Others
  <2> QED BY <1>0, <1>2, <2>1 DEF SignForm, Reported, Others
<1>3. ASSUME NEW y \in Requests, PastSessions(req'[y]) PROVE \A s \in db'.sessions : s.id \notin req'[y].seen
  BY <1>0, <1>3 DEF SignForm, Others
<1>4. ASSUME NEW y \in Requests, PastTokens(req'[y]) PROVE db'.tokens = {}
  BY <1>0, <1>4 DEF SignForm, Others, PastTokens
<1> QED BY <1>1, <1>2, <1>3, <1>4 DEF SignForm

\* Sessions and tokens once signed out never come back.
LEMMA SignStep ==
  ASSUME Shapes, IdsApart, SignForm, [Next]_vars
  PROVE  SignForm'
<1>0. Idle.pc = "idle" /\ Idle.seen = {} /\ ~PastSessions(Idle) /\ ~PastTokens(Idle)
  BY DEF Idle, PastSessions, PastTokens
<1>1. ASSUME NEW r \in Requests, Request(r) PROVE SignForm'
  <2>1. Begun(r)
    BY <1>1, StartFacts
  <2>2. /\ log.started \in Nat /\ (\A s \in db.sessions : s.id # log.started + 1) /\ log.started + 1 \notin log.gone
        /\ \A x \in Requests : log.started + 1 \notin req[x].seen
    <3>1. log.started \in Nat /\ log.started + 1 \notin Upto(log.started)
      BY Pieces DEF Upto
    <3> QED BY <3>1, Pieces DEF SessionSet, ReqSet, Shapes, LogSet
  <2>3. /\ db'.sessions = db.sessions /\ db'.tokens \subseteq db.tokens /\ Others(r)
        /\ log'.gone = log.gone /\ log'.cut = log.cut
    BY <2>1 DEF Begun, SameHistory
  <2>4. \/ req'[r] = Idle
        \/ /\ req'[r].id = log.started + 1 /\ req'[r].seen = SessionIds
           /\ ~PastSessions(req'[r]) /\ ~PastTokens(req'[r])
    BY <2>1 DEF Begun, FreshReq, PastSessions, PastTokens
  <2>5. (\A s \in db'.sessions : s.id \notin log'.gone) /\ (\A t \in db'.tokens : t \notin log'.cut)
    BY <2>3 DEF SignForm
  <2>6. ASSUME NEW y \in Requests, req'[y].pc = "open"
        PROVE  /\ req'[y].id \notin log'.gone /\ (\A s \in db'.sessions : s.id # req'[y].id)
               /\ \A x \in Requests : req'[y].id \notin req'[x].seen
    <3>0. (\A s \in db.sessions : s.id # req'[y].id) => req'[y].id \notin SessionIds
      BY DEF SessionIds
    <3>1. CASE y = r
      <4>1. req'[y].id = log.started + 1 /\ req'[r].seen = SessionIds
        BY <1>0, <2>4, <2>6, <3>1
      <4> QED BY <2>2, <2>3, <3>0, <4>1 DEF Others
    <3>2. CASE y # r
      <4>1. req'[y] = req[y]
        BY <2>3, <3>2 DEF Others
      <4> QED BY <1>0, <2>3, <2>4, <2>6, <3>0, <4>1 DEF SignForm, Others
    <3> QED BY <3>1, <3>2
  <2>7. ASSUME NEW y \in Requests, PastSessions(req'[y]) PROVE \A s \in db'.sessions : s.id \notin req'[y].seen
    BY <1>0, <2>3, <2>4, <2>7 DEF SignForm, Others
  <2>8. ASSUME NEW y \in Requests, PastTokens(req'[y]) PROVE db'.tokens = {}
    BY <1>0, <2>3, <2>4, <2>8 DEF SignForm, Others
  <2> QED BY <2>5, <2>6, <2>7, <2>8 DEF SignForm
<1>2. ASSUME NEW r \in Requests, Step(r) PROVE SignForm'
  <2> USE DEF PastSessions, PastTokens
  <2>1. CASE Throttle(r)
    BY <1>0, <2>1, ThrottleFacts, SignQuiet
  <2>2. CASE ClearLinks(r)
    BY <2>2, ClearFacts, SignQuiet DEF SameSigns
  <2>3. CASE issueToken(r)
    BY <1>0, <2>3, IssueFacts, SignQuiet DEF SameSigns
  <2>4. CASE consumeToken(r)
    <3>1. Others(r) /\ SameSigns /\ db'.sessions = db.sessions /\ db'.tokens = db.tokens
      BY <2>4, ConsumeFacts
    <3>2. req'[r] = Idle \/ (req'[r].pc = "load" /\ req'[r].seen = req[r].seen)
      BY <2>4, ConsumeFacts DEF SameWork
    <3> QED BY <1>0, <3>1, <3>2, SignQuiet
  <2>5. CASE LoadUser(r)
    <3>1. Others(r) /\ SameSigns /\ db' = db
      BY <2>5, LoadFacts DEF SameSigns
    <3>2. \/ req'[r] = Idle
          \/ req'[r].seen = req[r].seen /\ req'[r].pc \in {"write", "links", "save"} /\ ~PastSessions(req'[r])
      BY <2>5, LoadFacts DEF Kept
    <3> QED BY <1>0, <3>1, <3>2, SignQuiet
  <2>6. CASE VerifyEmail(r) \/ SaveForm(r)
    <3>1. WroteBack(r)
      BY <2>6, VerifyFacts, SaveFacts
    <3>2. Others(r) /\ SameSigns /\ db'.sessions = db.sessions /\ db'.tokens = db.tokens
      BY <3>1 DEF WroteBack
    <3>3. \/ req'[r] = Idle
          \/ req'[r].seen = req[r].seen /\ req'[r].pc \in {"links", "sessions"} /\ ~PastSessions(req'[r])
      BY <3>1 DEF WroteBack, SameWork
    <3> QED BY <1>0, <3>2, <3>3, SignQuiet
  <2>7. CASE SetPassword(r)
    <3>1. Others(r) /\ SameSigns /\ db'.sessions = db.sessions /\ db'.tokens = db.tokens
      BY <2>7, PasswordFacts
    <3>2. req'[r] = Idle \/ (req'[r].pc = "sessions" /\ req'[r].seen = req[r].seen)
      BY <2>7, PasswordFacts
    <3> QED BY <1>0, <3>1, <3>2, SignQuiet
  <2>8. CASE ListSessions(r)
    BY <2>8, ListFacts, SignQuiet DEF SameSigns
  <2>9. CASE EndSessions(r)
    <3>1. Others(r) /\ db'.sessions \subseteq db.sessions /\ db'.tokens = db.tokens
      BY <2>9, SessionsFacts
    <3>2. CASE req'[r] = Idle /\ SameSigns
      BY <1>0, <3>1, <3>2, SignQuiet
    <3>3. CASE req'[r] = Idle /\ req[r].kind = "one" /\ Reported(r) /\ \A s \in db'.sessions : s.id \notin req[r].seen
      BY <3>1, <3>3, SignFinish
    <3>4. CASE /\ req'[r].pc = "tokens" /\ req'[r].seen = req[r].seen /\ log' = log
               /\ ~req'[r].failed => \A s \in db'.sessions : s.id \notin req[r].seen
      BY <3>1, <3>4, SignQuiet DEF SameSigns
    <3> QED BY <2>9, <3>2, <3>3, <3>4, SessionsFacts DEF SameWork
  <2>10. CASE RevokeTokens(r)
    <3>1. Others(r) /\ db'.sessions = db.sessions /\ db'.tokens \subseteq db.tokens /\ req[r].pc = "tokens" /\ req[r].kind # "verify"
      BY <2>10, TokensFacts, AtWork DEF KindsAt, PasswordKinds
    <3>2. CASE req'[r] = Idle /\ SameSigns
      BY <1>0, <3>1, <3>2, SignQuiet
    <3>3. CASE req'[r] = Idle /\ Reported(r) /\ ~req[r].failed /\ db'.tokens = {}
      <4>1. \A s \in db.sessions : s.id \notin req[r].seen
        BY <3>1, <3>3 DEF SignForm
      <4> QED BY <3>1, <3>3, <4>1, SignFinish
    <3>4. CASE /\ req'[r].pc = "links" /\ req'[r].seen = req[r].seen /\ log' = log
               /\ ~req'[r].failed => ~req[r].failed /\ db'.tokens = {}
      BY <3>1, <3>4, SignQuiet DEF SameSigns
    <3> QED BY <2>10, <3>2, <3>3, <3>4, TokensFacts DEF SameWork
  <2>11. CASE DeleteLinks(r)
    <3>1. Others(r) /\ db'.sessions = db.sessions /\ db'.tokens = db.tokens /\ req[r].pc = "links"
      BY <2>11, LinksFacts
    <3>2. CASE req'[r] = Idle /\ SameSigns
      BY <1>0, <3>1, <3>2, SignQuiet
    <3>3. CASE req'[r] = Idle /\ Reported(r) /\ ~req[r].failed /\ req[r].kind # "verify"
      <4>1. (\A s \in db.sessions : s.id \notin req[r].seen) /\ db.tokens = {}
        BY <3>1, <3>3 DEF SignForm
      <4> QED BY <3>1, <3>3, <4>1, SignFinish
    <3>4. CASE req'[r].pc = "erase" /\ req'[r].seen = req[r].seen /\ log' = log
      BY <3>1, <3>4, SignQuiet DEF SameSigns
    <3> QED BY <2>11, <3>2, <3>3, <3>4, LinksFacts DEF SameWork
  <2>12. CASE DeleteUser(r)
    <3>1. Others(r) /\ db'.sessions = {} /\ db'.tokens = {} /\ req'[r] = Idle /\ (SameSigns \/ Reported(r))
      BY <2>12, DeleteFacts
    <3>2. CASE SameSigns
      BY <1>0, <3>1, <3>2, SignQuiet
    <3>3. CASE Reported(r)
      BY <3>1, <3>3, SignFinish
    <3> QED BY <3>1, <3>2, <3>3
  <2>14. CASE CreateSession(r)
    <3> DEFINE q == req[r]
    <3>1. /\ Others(r) /\ q.pc = "open" /\ log' = log /\ req'[r] = Idle /\ db'.tokens = db.tokens /\ q # Idle
      BY <1>0, <2>14, OpenFacts
    <3>2. \A s \in db'.sessions : s \in db.sessions \/ s.id = q.id
      <4>1. CASE db.user.live
        <5>1. PICK s \in SessionSet(log.started) : s.id = q.id /\ s.pw = q.row.pw /\ db'.sessions = db.sessions \cup {s}
          BY <2>14, <4>1, OpenFacts
        <5> QED BY <5>1
      <4>2. CASE ~db.user.live
        BY <2>14, <4>2, OpenFacts
      <4> QED BY <4>1, <4>2
    <3>3. q.id \notin log.gone /\ \A x \in Requests : q.id \notin req[x].seen
      BY <3>1 DEF SignForm
    <3>4. (\A s \in db'.sessions : s.id \notin log'.gone) /\ (\A t \in db'.tokens : t \notin log'.cut)
      BY <3>1, <3>2, <3>3 DEF SignForm
    <3>5. ASSUME NEW y \in Requests, req'[y].pc = "open"
          PROVE  /\ req'[y].id \notin log'.gone /\ (\A s \in db'.sessions : s.id # req'[y].id)
                 /\ \A x \in Requests : req'[y].id \notin req'[x].seen
      <4>1. y # r /\ req'[y] = req[y]
        BY <1>0, <3>1, <3>5 DEF Others
      <4>2. req[y].id # q.id
        BY <1>0, <3>1, <3>5, <4>1 DEF IdsApart
      <4> QED BY <1>0, <3>1, <3>2, <3>5, <4>1, <4>2 DEF SignForm, Others
    <3>6. ASSUME NEW y \in Requests, PastSessions(req'[y]) PROVE \A s \in db'.sessions : s.id \notin req'[y].seen
      <4>1. y # r /\ req'[y] = req[y]
        BY <1>0, <3>1, <3>6 DEF Others
      <4> QED BY <3>2, <3>3, <3>6, <4>1 DEF SignForm
    <3>7. ASSUME NEW y \in Requests, PastTokens(req'[y]) PROVE db'.tokens = {}
      <4>1. y # r /\ req'[y] = req[y]
        BY <1>0, <3>1, <3>7 DEF Others
      <4> QED BY <3>1, <3>7, <4>1 DEF SignForm
    <3> QED BY <3>4, <3>5, <3>6, <3>7 DEF SignForm
  <2> QED BY <1>2, <2>1, <2>2, <2>3, <2>4, <2>5, <2>6, <2>7, <2>8, <2>9, <2>10, <2>11, <2>12, <2>14 DEF Step
<1>3. CASE RunMaintenance
  BY <1>3, MaintenanceFacts DEF SignForm
<1>4. CASE Restart
  BY <1>0, <1>4, RestartFacts DEF SignForm, SameSigns
<1>5. CASE Tick \/ UNCHANGED vars
  BY <1>5 DEF Tick, vars, SignForm
<1> QED BY <1>1, <1>2, <1>3, <1>4, <1>5 DEF Next


\* A step that stores no password and opens no session: every password
\* replaced after it was replaced before.
LEMMA LockQuiet ==
  ASSUME Shapes, LockedOut, NEW r \in Requests, Others(r), db'.user.pw = db.user.pw, db'.sessions \subseteq db.sessions,
         log'.done = log.done, log.raced \subseteq log'.raced, log.revived \subseteq log'.revived,
         req'[r].pc # "open", req'[r].old \in {0, req[r].old}, req'[r].row.pw \in {0, req[r].row.pw, db.user.pw},
         PastSessions(req'[r]) => \/ PastSessions(req[r]) /\ req'[r].old = req[r].old
                                  \/ \A s \in db'.sessions : s.pw = req'[r].old => s.pw = 0,
         BeforeWrite(req'[r]) => BeforeWrite(req[r]) /\ req'[r].id = req[r].id
  PROVE  LockedOut'
<1>1. \A p : Replaced(p, log', req') => Replaced(p, log, req)
  BY DEF Replaced, Others
<1>2. \A i, p : Excused(i, p, log) => Excused(i, p, log')
  BY DEF Excused
<1>3. Replaced(db'.user.pw, log', req') => db'.user.pw \in log'.revived
  BY <1>1 DEF LockedOut
<1>4. ASSUME NEW y \in Requests, req'[y].pc = "open", Replaced(req'[y].row.pw, log', req')
      PROVE  Excused(req'[y].id, req'[y].row.pw, log')
  <2>1. req'[y] = req[y]
    BY <1>4 DEF Others
  <2>2. Replaced(req[y].row.pw, log, req)
    BY <1>1, <1>4, <2>1
  <2>3. Excused(req[y].id, req[y].row.pw, log)
    BY <1>4, <2>1, <2>2 DEF LockedOut
  <2> QED BY <1>2, <2>1, <2>3
<1>5. \A s \in db'.sessions : s.pw \in log'.done /\ s.pw # 0 => Excused(s.id, s.pw, log')
  BY <1>2 DEF LockedOut
<1>6. ASSUME NEW y \in Requests, PastSessions(req'[y]), NEW s \in db'.sessions, s.pw = req'[y].old, s.pw # 0
      PROVE  Excused(s.id, s.pw, log')
  <2>1. PastSessions(req[y]) /\ req'[y].old = req[y].old
    BY <1>6 DEF Others
  <2>2. Excused(s.id, s.pw, log)
    BY <1>6, <2>1 DEF LockedOut
  <2> QED BY <1>2, <2>2
<1>7. ASSUME NEW y \in Requests, BeforeWrite(req'[y])
      PROVE  /\ ~Replaced(req'[y].id, log', req') /\ req'[y].id # db'.user.pw
             /\ \A x \in Requests : req'[x].row.pw # req'[y].id
  <2>1. BeforeWrite(req[y]) /\ req'[y].id = req[y].id
    BY <1>7 DEF Others
  <2>2. /\ ~Replaced(req[y].id, log, req) /\ req[y].id # db.user.pw /\ \A x \in Requests : req[x].row.pw # req[y].id
    BY <2>1 DEF LockedOut
  <2>3. req[y].id # 0
    <3>1. req[y].pc # "idle"
      BY <2>1 DEF BeforeWrite
    <3>2. Active(req[y]) /\ req[y].id \in Nat
      BY <3>1, AtWork, Pieces DEF ReqSet, Upto
    <3> QED BY <3>2 DEF Active
  <2> QED BY <1>1, <2>1, <2>2, <2>3 DEF Others
<1>8. 0 \notin log'.done
  BY DEF LockedOut
<1> QED BY <1>3, <1>4, <1>5, <1>6, <1>7, <1>8 DEF LockedOut


\* A password change ends: the old password is replaced for good.
LEMMA LockFinish ==
  ASSUME Shapes, LockedOut, NEW r \in Requests, Others(r), db'.user.pw = db.user.pw, db'.sessions = db.sessions, SamePass,
         req'[r] = Idle, req[r].old # 0, PastSessions(req[r]), log'.done = log.done \cup {req[r].old}
  PROVE  LockedOut'
<1>0. Idle.pc = "idle" /\ Idle.old = 0 /\ Idle.row.pw = 0 /\ ~PastSessions(Idle) /\ ~BeforeWrite(Idle)
  BY DEF Idle, PastSessions, BeforeWrite, NoRow
<1>1. \A p : Replaced(p, log', req') => Replaced(p, log, req)
  BY <1>0 DEF Replaced, Others
<1>2. \A i, p : Excused(i, p, log) => Excused(i, p, log')
  BY DEF Excused, SamePass
<1>3. Replaced(db'.user.pw, log', req') => db'.user.pw \in log'.revived
  BY <1>1 DEF LockedOut, SamePass
<1>4. ASSUME NEW y \in Requests, req'[y].pc = "open", Replaced(req'[y].row.pw, log', req')
      PROVE  Excused(req'[y].id, req'[y].row.pw, log')
  <2>1. req'[y] = req[y]
    BY <1>0, <1>4 DEF Others
  <2>2. Excused(req[y].id, req[y].row.pw, log)
    BY <1>1, <1>4, <2>1 DEF LockedOut
  <2> QED BY <1>2, <2>1, <2>2
<1>5. \A s \in db'.sessions : s.pw \in log'.done /\ s.pw # 0 => Excused(s.id, s.pw, log')
  BY <1>2 DEF LockedOut
<1>6. ASSUME NEW y \in Requests, PastSessions(req'[y]), NEW s \in db'.sessions, s.pw = req'[y].old, s.pw # 0
      PROVE  Excused(s.id, s.pw, log')
  <2>1. PastSessions(req[y]) /\ req'[y].old = req[y].old
    BY <1>0, <1>6 DEF Others
  <2>2. Excused(s.id, s.pw, log)
    BY <1>6, <2>1 DEF LockedOut
  <2> QED BY <1>2, <2>2
<1>7. ASSUME NEW y \in Requests, BeforeWrite(req'[y])
      PROVE  /\ ~Replaced(req'[y].id, log', req') /\ req'[y].id # db'.user.pw
             /\ \A x \in Requests : req'[x].row.pw # req'[y].id
  <2>1. BeforeWrite(req[y]) /\ req'[y] = req[y]
    BY <1>0, <1>7 DEF Others
  <2>2. /\ ~Replaced(req[y].id, log, req) /\ req[y].id # db.user.pw /\ \A x \in Requests : req[x].row.pw # req[y].id
    BY <2>1 DEF LockedOut
  <2>3. req[y].id # 0
    <3>1. req[y].pc # "idle"
      BY <2>1 DEF BeforeWrite
    <3>2. Active(req[y]) /\ req[y].id \in Nat
      BY <3>1, AtWork, Pieces DEF ReqSet, Upto
    <3> QED BY <3>2 DEF Active
  <2> QED BY <1>0, <1>1, <2>1, <2>2, <2>3 DEF Others
<1>8. 0 \notin log'.done
  BY DEF LockedOut
<1> QED BY <1>3, <1>4, <1>5, <1>6, <1>7, <1>8 DEF LockedOut

\* A request starts: it knows the password of the moment, and its own id is
\* no password yet.
LEMMA LockBegun ==
  ASSUME Shapes, LockedOut, NEW r \in Requests, Begun(r)
  PROVE  LockedOut'
<1> DEFINE n == log.started
<1>0. Idle.pc = "idle" /\ Idle.old = 0 /\ Idle.row.pw = 0 /\ ~PastSessions(Idle) /\ ~BeforeWrite(Idle) /\ Idle.kind = "none"
  BY DEF Idle, PastSessions, BeforeWrite, NoRow
<1>1. /\ Others(r) /\ db'.sessions = db.sessions /\ log'.done = log.done /\ log'.raced = log.raced
      /\ log'.revived = log.revived /\ req[r] = Idle /\ log'.started = n + 1 /\ Shapes'
  BY DEF Begun, SameHistory
<1>2. n \in Nat /\ n + 1 \in 1..MaxRequests /\ n + 1 # Placeholder /\ n + 1 \notin Pws(n) /\ MaxRequests \in Nat
  <2>1. n \in Nat /\ n + 1 \in 1..MaxRequests /\ MaxRequests \in Nat
    BY <1>1, Pieces DEF Shapes
  <2> QED BY <2>1 DEF Placeholder, Pws
<1>3. /\ req'[r].old = 0 /\ ~PastSessions(req'[r])
      /\ BeforeWrite(req'[r]) => req'[r].id = n + 1 /\ req'[r].row.pw = db.user.pw /\ db'.user = db.user
      /\ req'[r].pc = "open" => req'[r].row = db.user /\ req'[r] # Idle
      /\ req'[r].row.pw \in {0, db.user.pw, db'.user.pw}
  <2>1. CASE req'[r] = Idle
    BY <1>0, <2>1
  <2>2. CASE req'[r] # Idle
    <3>1. FreshReq(req'[r])
      BY <2>2 DEF Begun
    <3>2. db'.user = db.user \/ req'[r].kind = "create"
      BY <2>2 DEF Begun
    <3>3. req'[r].kind = "create" => req'[r].row = db'.user
      BY DEF Begun
    <3> QED BY <2>2, <3>1, <3>2, <3>3 DEF FreshReq, PastSessions, BeforeWrite, PasswordKinds
  <2> QED BY <2>1, <2>2
<1>4. \A p : Replaced(p, log', req') <=> Replaced(p, log, req)
  BY <1>0, <1>1, <1>3 DEF Replaced, Others
<1>5. \A i, p : Excused(i, p, log) <=> Excused(i, p, log')
  BY <1>1 DEF Excused
<1>6. ~Replaced(n + 1, log, req) /\ ~Replaced(Placeholder, log, req)
  <2>1. log.done \subseteq Pws(n) /\ \A x \in Requests : req[x].old \in Pws(n)
    BY Pieces DEF Shapes, LogSet, ReqSet
  <2> QED BY <1>2, <2>1 DEF Replaced
<1>7. db'.user.pw = db.user.pw \/ db'.user.pw \in {Placeholder, n + 1}
  BY DEF Begun
<1>8. Replaced(db'.user.pw, log', req') => db'.user.pw \in log'.revived
  BY <1>1, <1>4, <1>6, <1>7 DEF LockedOut
<1>9. ASSUME NEW y \in Requests, req'[y].pc = "open", Replaced(req'[y].row.pw, log', req')
      PROVE  Excused(req'[y].id, req'[y].row.pw, log')
  <2>1. CASE y = r
    <3>1. req'[y].row.pw = db.user.pw
      BY <1>3, <1>9, <2>1
    <3>2. db.user.pw \in log.revived
      BY <1>4, <1>9, <3>1 DEF LockedOut
    <3> QED BY <1>1, <3>1, <3>2 DEF Excused
  <2>2. CASE y # r
    <3>1. req'[y] = req[y]
      BY <1>1, <2>2 DEF Others
    <3> QED BY <1>4, <1>5, <1>9, <3>1 DEF LockedOut
  <2> QED BY <2>1, <2>2
<1>10. \A s \in db'.sessions : s.pw \in log'.done /\ s.pw # 0 => Excused(s.id, s.pw, log')
  BY <1>1, <1>5 DEF LockedOut
<1>11. ASSUME NEW y \in Requests, PastSessions(req'[y]), NEW s \in db'.sessions, s.pw = req'[y].old, s.pw # 0
       PROVE  Excused(s.id, s.pw, log')
  BY <1>1, <1>3, <1>5, <1>11 DEF LockedOut, Others
<1>12. ASSUME NEW y \in Requests, BeforeWrite(req'[y])
       PROVE  /\ ~Replaced(req'[y].id, log', req') /\ req'[y].id # db'.user.pw
              /\ \A x \in Requests : req'[x].row.pw # req'[y].id
  <2>0. \A x \in Requests : req[x].row.pw \in Pws(n) /\ req[x].id \in 0..n /\ db.user.pw \in Pws(n)
    BY Pieces DEF ReqSet, RowSet, Upto
  <2>1. CASE y = r
    <3>1. req'[y].id = n + 1 /\ db'.user = db.user /\ req'[r].row.pw = db.user.pw
      BY <1>3, <1>12, <2>1
    <3> QED BY <1>1, <1>2, <1>4, <1>6, <2>0, <3>1 DEF Others
  <2>2. CASE y # r
    <3>1. req'[y] = req[y] /\ BeforeWrite(req[y])
      BY <1>1, <1>12, <2>2 DEF Others
    <3>2. /\ ~Replaced(req[y].id, log, req) /\ req[y].id # db.user.pw /\ \A x \in Requests : req[x].row.pw # req[y].id
      BY <3>1 DEF LockedOut
    <3>3. req[y].id # 0 /\ req[y].id # n + 1 /\ req[y].id # Placeholder
      <4>1. req[y].pc # "idle"
        BY <3>1 DEF BeforeWrite
      <4>2. Active(req[y]) /\ req[y].id \in 0..n
        BY <4>1, <2>0, AtWork
      <4> QED BY <1>2, <4>2 DEF Active, Placeholder
    <3> QED BY <1>1, <1>3, <1>4, <1>7, <3>1, <3>2, <3>3 DEF Others
  <2> QED BY <2>1, <2>2
<1>13. 0 \notin log'.done
  BY <1>1 DEF LockedOut
<1> QED BY <1>8, <1>9, <1>10, <1>11, <1>12, <1>13 DEF LockedOut

\* The new password is stored: the old one is replaced, and who is about to
\* open a session with it raced.
LEMMA LockPassword ==
  ASSUME Shapes, IdsApart, LockedOut, NEW r \in Requests, SetPassword(r), db.user.live
  PROVE  LockedOut'
<1> DEFINE q == req[r]
           p0 == db.user.pw
<1>1. /\ Others(r) /\ q.pc = "write" /\ db'.sessions = db.sessions /\ log'.done = log.done /\ log'.revived = log.revived
      /\ db'.user.pw = q.id /\ log'.raced = log.raced \cup OpenIds
      /\ Kept(r) /\ req'[r].pc = "sessions" /\ req'[r].old = p0 /\ req'[r].row = q.row
  BY PasswordFacts DEF SameSigns
<1>2. q # Idle /\ BeforeWrite(q)
  BY <1>1, AtWork DEF BeforeWrite, KindsAt
<1>3. ~Replaced(q.id, log, req) /\ q.id # p0 /\ \A x \in Requests : req[x].row.pw # q.id
  BY <1>2 DEF LockedOut
<1>4. \A p : Replaced(p, log', req') => Replaced(p, log, req) \/ p = p0
  BY <1>1 DEF Replaced, Others
<1>5. \A i, p : Excused(i, p, log) => Excused(i, p, log')
  BY <1>1 DEF Excused
<1>6. Replaced(db'.user.pw, log', req') => db'.user.pw \in log'.revived
  BY <1>1, <1>3, <1>4
<1>7. ASSUME NEW y \in Requests, req'[y].pc = "open"
      PROVE  Excused(req'[y].id, req'[y].row.pw, log')
  <2>1. req'[y] = req[y]
    BY <1>1, <1>7 DEF Others
  <2> QED BY <1>1, <1>7, <2>1 DEF Excused, OpenIds
<1>8. \A s \in db'.sessions : s.pw \in log'.done /\ s.pw # 0 => Excused(s.id, s.pw, log')
  BY <1>1, <1>5 DEF LockedOut
<1>9. ASSUME NEW y \in Requests, PastSessions(req'[y]), NEW s \in db'.sessions, s.pw = req'[y].old, s.pw # 0
      PROVE  Excused(s.id, s.pw, log')
  <2>1. y # r /\ req'[y] = req[y]
    BY <1>1, <1>9 DEF Others, PastSessions
  <2>2. Excused(s.id, s.pw, log)
    BY <1>1, <1>9, <2>1 DEF LockedOut
  <2> QED BY <1>5, <2>2
<1>10. ASSUME NEW y \in Requests, BeforeWrite(req'[y])
       PROVE  /\ ~Replaced(req'[y].id, log', req') /\ req'[y].id # db'.user.pw
              /\ \A x \in Requests : req'[x].row.pw # req'[y].id
  <2>1. y # r /\ req'[y] = req[y] /\ BeforeWrite(req[y])
    BY <1>1, <1>10 DEF Others, BeforeWrite
  <2>2. /\ ~Replaced(req[y].id, log, req) /\ req[y].id # p0 /\ \A x \in Requests : req[x].row.pw # req[y].id
    BY <2>1 DEF LockedOut
  <2>3. req[y].id # q.id
    <3>1. req[y] # Idle
      BY <2>1 DEF BeforeWrite, Idle
    <3> QED BY <1>2, <2>1, <3>1 DEF IdsApart
  <2> QED BY <1>1, <1>4, <2>1, <2>2, <2>3 DEF Others
<1>11. 0 \notin log'.done
  BY <1>1 DEF LockedOut
<1> QED BY <1>6, <1>7, <1>8, <1>9, <1>10, <1>11 DEF LockedOut

\* A handler writes back the row it read: a password that comes back with it
\* is recorded as revived.
LEMMA LockWroteBack ==
  ASSUME Shapes, LockedOut, NEW r \in Requests, WroteBack(r), db.user.live
  PROVE  LockedOut'
<1> DEFINE q == req[r]
<1>0. Idle.pc = "idle" /\ Idle.old = 0 /\ Idle.row.pw = 0 /\ ~PastSessions(Idle) /\ ~BeforeWrite(Idle)
  BY DEF Idle, PastSessions, BeforeWrite, NoRow
<1>1. /\ Others(r) /\ q.pc = "save" /\ db'.sessions = db.sessions /\ log'.done = log.done /\ log'.raced = log.raced
      /\ db'.user.pw = q.row.pw
      /\ log'.revived = IF q.row.pw # db.user.pw THEN log.revived \cup {q.row.pw} ELSE log.revived
      /\ req'[r].pc # "open" /\ ~PastSessions(req'[r]) /\ ~BeforeWrite(req'[r]) /\ req'[r].old \in {0, q.old}
      /\ req'[r].row.pw \in {0, q.row.pw}
  BY <1>0 DEF WroteBack, SameSigns, SameWork, BeforeWrite
<1>2. \A p : Replaced(p, log', req') => Replaced(p, log, req)
  BY <1>1 DEF Replaced, Others
<1>3. \A i, p : Excused(i, p, log) => Excused(i, p, log')
  BY <1>1 DEF Excused
<1>4. Replaced(db'.user.pw, log', req') => db'.user.pw \in log'.revived
  BY <1>1, <1>2 DEF LockedOut
<1>5. ASSUME NEW y \in Requests, req'[y].pc = "open", Replaced(req'[y].row.pw, log', req')
      PROVE  Excused(req'[y].id, req'[y].row.pw, log')
  <2>1. req'[y] = req[y]
    BY <1>1, <1>5 DEF Others
  <2>2. Excused(req[y].id, req[y].row.pw, log)
    BY <1>2, <1>5, <2>1 DEF LockedOut
  <2> QED BY <1>3, <2>1, <2>2
<1>6. \A s \in db'.sessions : s.pw \in log'.done /\ s.pw # 0 => Excused(s.id, s.pw, log')
  BY <1>1, <1>3 DEF LockedOut
<1>7. ASSUME NEW y \in Requests, PastSessions(req'[y]), NEW s \in db'.sessions, s.pw = req'[y].old, s.pw # 0
      PROVE  Excused(s.id, s.pw, log')
  <2>1. y # r /\ req'[y] = req[y]
    BY <1>1, <1>7 DEF Others
  <2>2. Excused(s.id, s.pw, log)
    BY <1>1, <1>7, <2>1 DEF LockedOut
  <2> QED BY <1>3, <2>2
<1>8. ASSUME NEW y \in Requests, BeforeWrite(req'[y])
      PROVE  /\ ~Replaced(req'[y].id, log', req') /\ req'[y].id # db'.user.pw
             /\ \A x \in Requests : req'[x].row.pw # req'[y].id
  <2>1. y # r /\ req'[y] = req[y] /\ BeforeWrite(req[y])
    BY <1>1, <1>8 DEF Others
  <2>2. /\ ~Replaced(req[y].id, log, req) /\ req[y].id # db.user.pw /\ \A x \in Requests : req[x].row.pw # req[y].id
    BY <2>1 DEF LockedOut
  <2>3. req[y].id # 0
    <3>1. req[y].pc # "idle"
      BY <2>1 DEF BeforeWrite
    <3>2. Active(req[y]) /\ req[y].id \in Nat
      BY <3>1, AtWork, Pieces DEF ReqSet, Upto
    <3> QED BY <3>2 DEF Active
  <2> QED BY <1>1, <1>2, <2>1, <2>2, <2>3 DEF Others
<1>9. 0 \notin log'.done
  BY <1>1 DEF LockedOut
<1> QED BY <1>4, <1>5, <1>6, <1>7, <1>8, <1>9 DEF LockedOut


\* A replaced password opens no session, unless its login raced with the
\* change or a handler brought the password back.
LEMMA LockStep ==
  ASSUME Shapes, IdsApart, LockedOut, [Next]_vars
  PROVE  LockedOut'
<1>0. Idle.pc = "idle" /\ Idle.old = 0 /\ Idle.row.pw = 0 /\ ~PastSessions(Idle) /\ ~BeforeWrite(Idle)
  BY DEF Idle, PastSessions, BeforeWrite, NoRow
<1>1. ASSUME NEW r \in Requests, Request(r) PROVE LockedOut'
  BY <1>1, StartFacts, LockBegun
<1>2. ASSUME NEW r \in Requests, Step(r) PROVE LockedOut'
  <2>1. CASE Throttle(r)
    <3>1. Others(r) /\ db' = db /\ log'.done = log.done /\ SamePass
      BY <2>1, ThrottleFacts DEF SameSigns
    <3>2. req'[r] = Idle \/ (req'[r].pc = "clear" /\ req'[r].old = req[r].old /\ req'[r].row = req[r].row)
      BY <2>1, ThrottleFacts
    <3> QED BY <1>0, <3>1, <3>2, LockQuiet DEF SamePass, PastSessions, BeforeWrite
  <2>2. CASE ClearLinks(r)
    BY <2>2, ClearFacts, LockQuiet DEF PastSessions, BeforeWrite
  <2>3. CASE issueToken(r)
    <3>1. Others(r) /\ db'.user = db.user /\ db'.sessions = db.sessions /\ log'.done = log.done /\ SamePass
      BY <2>3, IssueFacts DEF SameSigns
    <3>2. req'[r] = Idle \/ (req'[r].pc = "clear" /\ req'[r].old = req[r].old /\ req'[r].row = req[r].row)
      BY <2>3, IssueFacts
    <3> QED BY <1>0, <3>1, <3>2, LockQuiet DEF SamePass, PastSessions, BeforeWrite
  <2>4. CASE consumeToken(r)
    <3>1. Others(r) /\ db'.user = db.user /\ db'.sessions = db.sessions /\ log'.done = log.done /\ SamePass /\ req[r].pc = "mark"
      BY <2>4, ConsumeFacts DEF SameSigns
    <3>2. \/ req'[r] = Idle
          \/ /\ req'[r].pc = "load" /\ req'[r].old = req[r].old /\ req'[r].row = req[r].row
             /\ req'[r].kind = req[r].kind /\ req'[r].id = req[r].id
      BY <2>4, ConsumeFacts DEF SameWork, Kept
    <3> QED BY <1>0, <3>1, <3>2, LockQuiet DEF SamePass, PastSessions, BeforeWrite
  <2>5. CASE LoadUser(r)
    <3>1. Others(r) /\ db' = db /\ log' = log /\ req[r].pc = "load"
      BY <2>5, LoadFacts
    <3>2. \/ req'[r] = Idle
          \/ /\ req'[r].pc \in {"write", "links", "save"} /\ req'[r].old = req[r].old /\ req'[r].row = db.user
             /\ req'[r].kind = req[r].kind /\ req'[r].id = req[r].id /\ ~PastSessions(req'[r])
      BY <2>5, LoadFacts DEF Kept, PastSessions
    <3> QED BY <1>0, <3>1, <3>2, LockQuiet DEF BeforeWrite
  <2>6. CASE VerifyEmail(r) \/ SaveForm(r)
    <3>1. WroteBack(r)
      BY <2>6, VerifyFacts, SaveFacts
    <3>2. CASE db.user.live
      BY <3>1, <3>2, LockWroteBack
    <3>3. CASE ~db.user.live
      <4>1. /\ Others(r) /\ db'.user = db.user /\ db'.sessions = db.sessions /\ log'.done = log.done /\ log'.raced = log.raced
            /\ log.revived \subseteq log'.revived
        BY <3>1, <3>3 DEF WroteBack, SameSigns
      <4>2. \/ req'[r] = Idle
            \/ /\ req'[r].pc \in {"links", "sessions"} /\ req'[r].old = req[r].old /\ req'[r].row = req[r].row
               /\ ~PastSessions(req'[r])
        BY <3>1 DEF WroteBack, SameWork
      <4> QED BY <1>0, <4>1, <4>2, LockQuiet DEF BeforeWrite
    <3> QED BY <3>2, <3>3
  <2>7. CASE SetPassword(r)
    <3>1. CASE db.user.live
      BY <2>7, <3>1, LockPassword
    <3>2. CASE ~db.user.live
      <4>1. /\ Others(r) /\ db'.user = db.user /\ db'.sessions = db.sessions /\ log'.done = log.done /\ log'.raced = log.raced
            /\ log.revived = log'.revived /\ req'[r] = Idle
        BY <2>7, <3>2, PasswordFacts DEF SameSigns
      <4> QED BY <1>0, <4>1, LockQuiet
    <3> QED BY <3>1, <3>2
  <2>8. CASE ListSessions(r)
    BY <2>8, ListFacts, LockQuiet DEF PastSessions, BeforeWrite
  <2>9. CASE EndSessions(r)
    <3>0. req[r].pc = "sessions" /\ (req[r].old # 0 => req[r].kind \in PasswordKinds)
      BY <2>9, SessionsFacts, AtWork DEF Active
    <3>1. Others(r) /\ db'.user = db.user /\ db'.sessions \subseteq db.sessions /\ SamePass
      BY <2>9, SessionsFacts
    <3>2. CASE req'[r] = Idle
      <4>1. log'.done = log.done
        BY <1>0, <2>9, <3>0, <3>2, SessionsFacts DEF SameSigns, Reported, PasswordKinds
      <4> QED BY <1>0, <3>1, <3>2, <4>1, LockQuiet DEF SamePass
    <3>3. CASE req'[r] # Idle
      <4>1. /\ req'[r].pc = "tokens" /\ req'[r].old = req[r].old /\ req'[r].row = req[r].row /\ log' = log
            /\ ~req'[r].failed /\ req[r].kind \in PasswordKinds => db'.sessions = {}
        BY <2>9, <3>3, SessionsFacts DEF SameWork
      <4>2. PastSessions(req'[r]) => \A s \in db'.sessions : s.pw = req'[r].old => s.pw = 0
        BY <3>0, <4>1 DEF PastSessions
      <4> QED BY <3>1, <4>1, <4>2, LockQuiet DEF BeforeWrite
    <3> QED BY <3>2, <3>3
  <2>10. CASE RevokeTokens(r)
    <3>0. req[r].pc = "tokens" /\ req[r].kind # "verify"
      BY <2>10, TokensFacts, AtWork DEF KindsAt, PasswordKinds
    <3>1. Others(r) /\ db'.user = db.user /\ db'.sessions = db.sessions /\ SamePass
      BY <2>10, TokensFacts
    <3>2. CASE req'[r] = Idle /\ log'.done = log.done
      BY <1>0, <3>1, <3>2, LockQuiet DEF SamePass
    <3>3. CASE req'[r] = Idle /\ ~req[r].failed /\ Reported(r) /\ req[r].old # 0
      <4>1. PastSessions(req[r]) /\ log'.done = log.done \cup {req[r].old}
        BY <3>0, <3>3 DEF PastSessions, Reported
      <4> QED BY <3>1, <3>3, <4>1, LockFinish
    <3>4. CASE /\ req'[r].pc = "links" /\ req'[r].old = req[r].old /\ req'[r].row = req[r].row /\ log' = log
               /\ ~req'[r].failed => ~req[r].failed
      BY <3>0, <3>1, <3>4, LockQuiet DEF BeforeWrite, PastSessions
    <3> QED BY <2>10, <3>2, <3>3, <3>4, TokensFacts DEF SameWork, SameSigns, Reported
  <2>11. CASE DeleteLinks(r)
    <3>0. req[r].pc = "links"
      BY <2>11, LinksFacts
    <3>1. Others(r) /\ db'.user = db.user /\ db'.sessions = db.sessions /\ SamePass
      BY <2>11, LinksFacts
    <3>2. CASE req'[r] = Idle /\ log'.done = log.done
      BY <1>0, <3>1, <3>2, LockQuiet DEF SamePass
    <3>3. CASE req'[r] = Idle /\ ~req[r].failed /\ req[r].kind # "verify" /\ Reported(r) /\ req[r].old # 0
      <4>1. PastSessions(req[r]) /\ log'.done = log.done \cup {req[r].old}
        BY <3>0, <3>3 DEF PastSessions, Reported
      <4> QED BY <3>1, <3>3, <4>1, LockFinish
    <3>4. CASE req'[r].pc = "erase" /\ req'[r].old = req[r].old /\ req'[r].row = req[r].row /\ log' = log
      BY <3>0, <3>1, <3>4, LockQuiet DEF BeforeWrite, PastSessions
    <3> QED BY <2>11, <3>2, <3>3, <3>4, LinksFacts DEF SameWork, SameSigns, Reported
  <2>12. CASE DeleteUser(r)
    <3>1. Others(r) /\ db'.user.pw = db.user.pw /\ db'.sessions = {} /\ SamePass /\ req'[r] = Idle /\ log'.done = log.done
      BY <2>12, DeleteFacts DEF SameSigns, Reported
    <3> QED BY <1>0, <3>1, LockQuiet DEF SamePass
  <2>14. CASE CreateSession(r)
    <3> DEFINE q == req[r]
    <3>1. /\ Others(r) /\ q.pc = "open" /\ log' = log /\ req'[r] = Idle /\ db'.user = db.user
      BY <2>14, OpenFacts
    <3>2. \A s \in db'.sessions : s \in db.sessions \/ (s.id = q.id /\ s.pw = q.row.pw)
      <4>1. CASE db.user.live
        <5>1. PICK s \in SessionSet(log.started) : s.id = q.id /\ s.pw = q.row.pw /\ db'.sessions = db.sessions \cup {s}
          BY <2>14, <4>1, OpenFacts
        <5> QED BY <5>1
      <4>2. CASE ~db.user.live
        BY <2>14, <4>2, OpenFacts
      <4> QED BY <4>1, <4>2
    <3>3. q.row.pw # Placeholder
      BY <3>1, AtWork DEF Active
    <3>4. Replaced(q.row.pw, log, req) => Excused(q.id, q.row.pw, log)
      BY <3>1 DEF LockedOut
    <3>5. \A s \in db'.sessions : s.pw \in log'.done /\ s.pw # 0 => Excused(s.id, s.pw, log')
      BY <3>1, <3>2, <3>3, <3>4 DEF LockedOut, Replaced
    <3>6. ASSUME NEW y \in Requests, PastSessions(req'[y]), NEW s \in db'.sessions, s.pw = req'[y].old, s.pw # 0
          PROVE  Excused(s.id, s.pw, log')
      <4>1. y # r /\ req'[y] = req[y]
        BY <1>0, <3>1, <3>6 DEF Others
      <4> QED BY <3>1, <3>2, <3>3, <3>4, <3>6, <4>1 DEF LockedOut, Replaced
    <3>7. \A p : Replaced(p, log', req') => Replaced(p, log, req)
      BY <1>0, <3>1 DEF Replaced, Others
    <3>8. Replaced(db'.user.pw, log', req') => db'.user.pw \in log'.revived
      BY <3>1, <3>7 DEF LockedOut
    <3>9. ASSUME NEW y \in Requests, req'[y].pc = "open", Replaced(req'[y].row.pw, log', req')
          PROVE  Excused(req'[y].id, req'[y].row.pw, log')
      <4>1. req'[y] = req[y]
        BY <1>0, <3>1, <3>9 DEF Others
      <4> QED BY <3>1, <3>7, <3>9, <4>1 DEF LockedOut
    <3>10. ASSUME NEW y \in Requests, BeforeWrite(req'[y])
           PROVE  /\ ~Replaced(req'[y].id, log', req') /\ req'[y].id # db'.user.pw
                  /\ \A x \in Requests : req'[x].row.pw # req'[y].id
      <4>1. req'[y] = req[y] /\ BeforeWrite(req[y])
        BY <1>0, <3>1, <3>10 DEF Others
      <4>2. /\ ~Replaced(req[y].id, log, req) /\ req[y].id # db.user.pw /\ \A x \in Requests : req[x].row.pw # req[y].id
        BY <4>1 DEF LockedOut
      <4>3. req[y].id # 0
        <5>1. req[y].pc # "idle"
          BY <4>1 DEF BeforeWrite
        <5>2. Active(req[y]) /\ req[y].id \in Nat
          BY <5>1, AtWork, Pieces DEF ReqSet, Upto
        <5> QED BY <5>2 DEF Active
      <4> QED BY <1>0, <3>1, <3>7, <4>1, <4>2, <4>3 DEF Others
    <3> QED BY <3>1, <3>5, <3>6, <3>8, <3>9, <3>10 DEF LockedOut
  <2> QED BY <1>2, <2>1, <2>2, <2>3, <2>4, <2>5, <2>6, <2>7, <2>8, <2>9, <2>10, <2>11, <2>12, <2>14 DEF Step
<1>3. CASE RunMaintenance
  BY <1>3, MaintenanceFacts DEF LockedOut
<1>4. CASE Restart
  <2>1. db' = db /\ (\A r \in Requests : req'[r] = Idle) /\ log'.done = log.done /\ SamePass
    BY <1>4, RestartFacts DEF SameSigns
  <2>2. \A p : Replaced(p, log', req') => Replaced(p, log, req)
    BY <1>0, <2>1 DEF Replaced
  <2> QED BY <1>0, <2>1, <2>2 DEF LockedOut, Excused, SamePass
<1>5. CASE Tick \/ UNCHANGED vars
  BY <1>5 DEF Tick, vars, LockedOut
<1> QED BY <1>1, <1>2, <1>3, <1>4, <1>5 DEF Next

-----------------------------------------------------------------------------
(* The theorems.                                                           *)

\* The account as a behaviour starts with it.
LEMMA AccountInit ==
  ASSUME Init
  PROVE  AccountInv
<1>1. PICK s \in Scenarios :
        /\ scenario = s
        /\ db = [user |-> IF s.exists THEN [NoRow EXCEPT !.live = TRUE, !.active = TRUE, !.pw = 1] ELSE NoRow,
                 links |-> {}, sessions |-> IF s.exists THEN {[id |-> 1, pw |-> 1]} ELSE {},
                 tokens |-> IF s.exists THEN {1} ELSE {}]
  BY DEF Init
<1> DEFINE u == IF s.exists THEN [NoRow EXCEPT !.live = TRUE, !.active = TRUE, !.pw = 1] ELSE NoRow
<1>2. 1 \in Nat /\ MaxRequests \in Nat /\ 1 \in 1..MaxRequests /\ s.exists \in BOOLEAN
  BY AccountLinksAssumption
<1>3. NoRow \in RowSet(1) /\ Idle \in ReqSet(1) /\ ~NoRow.live /\ NoRow.pw = 0
  BY <1>2, IdleType
<1>4. u \in RowSet(1) /\ (u.live <=> s.exists)
  <2>1. CASE s.exists
    <3>1. 1 \in Pws(1)
      BY DEF Pws
    <3>2. [NoRow EXCEPT !.live = TRUE, !.active = TRUE, !.pw = 1] \in RowSet(1)
      BY <1>3, <3>1 DEF RowSet
    <3>3. [NoRow EXCEPT !.live = TRUE, !.active = TRUE, !.pw = 1].live
      BY <1>3 DEF RowSet
    <3> QED BY <2>1, <3>2, <3>3
  <2>2. CASE ~s.exists
    BY <1>3, <2>2
  <2> QED BY <2>1, <2>2
<1>5. /\ db.user = u /\ db.links = {} /\ db.sessions = (IF s.exists THEN {[id |-> 1, pw |-> 1]} ELSE {})
      /\ db.tokens = (IF s.exists THEN {1} ELSE {})
      /\ db = [user |-> db.user, links |-> db.links, sessions |-> db.sessions, tokens |-> db.tokens]
  <2> HIDE DEF u
  <2> QED BY <1>1 DEF u
<1> HIDE DEF u
<1>6. /\ req = [r \in Requests |-> Idle] /\ mem = [a \in Addresses |-> 0] /\ now = 1
      /\ log = [started |-> 1, gone |-> {}, cut |-> {}, done |-> {}, raced |-> {}, revived |-> {},
                used |-> {}, reused |-> FALSE, mailed |-> [a \in Addresses |-> {}], since |-> 1, proved |-> {}]
  BY DEF Init
<1>7. /\ log \in LogSet(1) /\ log.started = 1 /\ log.gone = {} /\ log.cut = {} /\ log.done = {} /\ log.used = {}
      /\ ~log.reused /\ log.since = 1 /\ log.mailed = [a \in Addresses |-> {}]
  BY <1>6 DEF LogSet
<1>8. db \in DbSet(1)
  <2>1. db.sessions \in SUBSET SessionSet(1) /\ db.tokens \in SUBSET Upto(1)
    BY <1>2, <1>5 DEF SessionSet, Upto
  <2> QED BY <1>4, <1>5, <2>1 DEF DbSet
<1>9. Shapes
  BY <1>1, <1>2, <1>3, <1>6, <1>7, <1>8 DEF Shapes
<1>10. Idle.pc = "idle" /\ Idle.old = 0 /\ ~PastSessions(Idle) /\ ~PastTokens(Idle) /\ ~BeforeWrite(Idle) /\ ~Issuing(Idle)
  BY DEF Idle, PastSessions, PastTokens, BeforeWrite, Issuing
<1>11. \A r \in Requests : req[r] = Idle
  BY <1>6
<1>12. IdsApart
  BY <1>11 DEF IdsApart
<1>13. NoOrphans
  BY <1>4, <1>5 DEF NoOrphans
<1>14. MailsRecorded
  <2>1. \A a \in Addresses : Owed(a) = {}
    BY <1>7, <1>10, <1>11 DEF Owed, Passed
  <2> QED BY <1>6, <1>7, <2>1 DEF MailsRecorded
<1>15. UsedMarked /\ Replacing
  BY <1>5, <1>7, <1>10, <1>11 DEF UsedMarked, Replacing, EarlierLinksReplaced
<1>16. SignedOut
  BY <1>7, <1>10, <1>11 DEF SignedOut, SignOutIsReal
<1>17. LockedOut
  <2>1. \A p : ~Replaced(p, log, req)
    BY <1>7, <1>10, <1>11 DEF Replaced
  <2> QED BY <1>7, <1>10, <1>11, <2>1 DEF LockedOut
<1> QED BY <1>9, <1>12, <1>13, <1>14, <1>15, <1>16, <1>17 DEF AccountInv

\* Every step keeps the inductive invariant.
LEMMA AccountStep ==
  ASSUME AccountInv, [Next]_vars
  PROVE  AccountInv'
<1>1. SignForm'
  BY SignForms, SignStep DEF AccountInv
<1>2. SignedOut'
  BY <1>1, SignForms
<1> QED BY <1>2, ShapesStep, IdsApartStep, NoOrphansStep, MailsStep, UsedStep, ReplacingStep, LockStep DEF AccountInv

\* AccountInvariant: whatever requests overlap, statement by statement, the
\* inductive invariant of the account handlers holds (account.go,
\* account_page.go, the user pages of admin.go).
THEOREM AccountInvariant == Spec => []AccountInv
<1>1. Init => AccountInv
  BY AccountInit
<1>2. AccountInv /\ [Next]_vars => AccountInv'
  BY AccountStep
<1> QED BY <1>1, <1>2, PTL DEF Spec

\* TypeCorrect: the tables, the throttle and the requests keep their shape,
\* and the throttle never remembers a time that has not come.
THEOREM TypeCorrect == Spec => []TypeOK
<1>1. AccountInv => TypeOK
  <2> SUFFICES ASSUME AccountInv PROVE TypeOK
    OBVIOUS
  <2> DEFINE n == log.started
  <2>1. Shapes /\ MailsRecorded
    BY DEF AccountInv
  <2>2. n \in Nat /\ MaxRequests \in Nat /\ Upto(n) \subseteq Ids /\ Pws(n) \subseteq Ids \cup {Placeholder}
    BY <2>1, Pieces DEF Pws, Upto, Ids
  <2>3. RowSet(n) \subseteq Row
    BY <2>2 DEF RowSet, Row
  <2>4. db.user \in Row /\ db.sessions \subseteq [id: Ids, pw: Ids] /\ db.tokens \subseteq Ids
    BY <2>1, <2>2, <2>3, Pieces DEF SessionSet
  <2>5. db.links \subseteq [id: Ids, purpose: Purposes, expires: Nat, used: BOOLEAN, to: Addresses, over: SUBSET Ids]
    <3>1. db.links \subseteq LinkSet(n)
      BY <2>1, Pieces
    <3> QED BY <2>2, <3>1 DEF LinkSet
  <2>6. \A r \in Requests : req[r].row \in Row /\ req[r].id \in Ids
    BY <2>1, <2>2, <2>3, Pieces DEF ReqSet
  <2>7. now \in Nat /\ mem \in [Addresses -> 0..now]
    BY <2>1 DEF Shapes, MailsRecorded
  <2> QED BY <2>4, <2>5, <2>6, <2>7 DEF TypeOK
<1> QED BY <1>1, AccountInvariant, PTL

\* LinksReplaced: EarlierLinksReplaced holds for any number of requests.  A
\* link to be issued is seen by no other request that asks for one later
\* (issueToken, account.go:287).
THEOREM LinksReplaced == Spec => []EarlierLinksReplaced
<1>1. AccountInv => EarlierLinksReplaced
  BY DEF AccountInv, Replacing
<1> QED BY <1>1, AccountInvariant, PTL

\* UsedLinksRefused: UsedLinkRefused holds however the requests, links and
\* maintenance interleave (consumeToken, account.go:327).
THEOREM UsedLinksRefused == Spec => []UsedLinkRefused
<1>1. AccountInv => UsedLinkRefused
  BY DEF AccountInv, UsedMarked, UsedLinkRefused
<1> QED BY <1>1, AccountInvariant, PTL

\* SignOutsAreReal: SignOutIsReal, for every order of the statements of any
\* number of sign-outs, logins, password changes and deletions (SetPassword,
\* account.go:231; RevokeOtherSessions, account_page.go:220).
THEOREM SignOutsAreReal == Spec => []SignOutIsReal
<1>1. AccountInv => SignOutIsReal
  BY DEF AccountInv, SignedOut
<1> QED BY <1>1, AccountInvariant, PTL

\* OldPasswordsLockedOut: OldPasswordLockedOut, for every order of the
\* statements: a session with a replaced password comes from a login that
\* raced with the change or from a row written back (account.go:231, 274).
THEOREM OldPasswordsLockedOut == Spec => []OldPasswordLockedOut
<1>1. AccountInv => OldPasswordLockedOut
  BY DEF AccountInv, LockedOut, OldPasswordLockedOut, Excused
<1> QED BY <1>1, AccountInvariant, PTL

\* RowsGoWithUser: NoOrphans, also when a login or a mail overlaps the
\* deletion of the user (DeleteUser, admin.go:700).
THEOREM RowsGoWithUser == Spec => []NoOrphans
<1>1. AccountInv => NoOrphans
  BY DEF AccountInv
<1> QED BY <1>1, AccountInvariant, PTL

\* MailsThrottled: ResetMailThrottled, for any number of addresses and
\* requests and any interval: what is counted is every request the throttle
\* let pass, whenever its mail leaves (throttled, account.go:113; 183).
THEOREM MailsThrottled == Spec => []ResetMailThrottled
<1>1. AccountInv => ResetMailThrottled
  <2> SUFFICES ASSUME AccountInv, NEW a \in Addresses, log.mailed[a] # {}
               PROVE  (Cardinality(log.mailed[a]) - 1) * ResetInterval <= now - log.since
    BY DEF ResetMailThrottled
  <2>1. Shapes /\ MailsRecorded
    BY DEF AccountInv
  <2>2. log.mailed[a] \subseteq Owed(a) /\ IsFiniteSet(Owed(a)) /\ Cardinality(Owed(a)) \in Nat
    BY <2>1, OwedFinite DEF Owed
  <2>3. Cardinality(log.mailed[a]) \in Nat /\ Cardinality(log.mailed[a]) <= Cardinality(Owed(a))
    BY <2>2, FS_Subset, FS_CardinalityType
  <2>4. /\ (Cardinality(Owed(a)) - 1) * ResetInterval <= mem[a] - log.since
        /\ mem[a] <= now /\ mem[a] \in Nat /\ now \in Nat /\ log.since \in Nat
    BY <2>1, <2>2 DEF MailsRecorded, Shapes, LogSet
  <2>5. (Cardinality(log.mailed[a]) - 1) * ResetInterval <= mem[a] - log.since
    BY <2>2, <2>3, <2>4, FewerMails
  <2>6. (Cardinality(log.mailed[a]) - 1) * ResetInterval \in Int
    BY <2>3, AccountLinksAssumption
  <2> QED BY <2>4, <2>5, <2>6
<1> QED BY <1>1, AccountInvariant, PTL

=============================================================================
