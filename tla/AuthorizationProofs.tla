------------------------ MODULE AuthorizationProofs ------------------------
(***************************************************************************)
(* Type correctness of Registry and Authorization and the proofs of their  *)
(* safety properties.                                                      *)
(*                                                                         *)
(* A request or an operation uses what it read a few steps ago, so none of *)
(* the properties is inductive.  The parts of the inductive invariant say  *)
(* what is still true of it:                                               *)
(*   - Secrets: a row about to be saved brings back a replaced secret only *)
(*     if it was read before the secret was replaced;                      *)
(*   - Memberships: at each step of the group form, which groups are as    *)
(*     they were checked;                                                  *)
(*   - Merged: a grant not overtaken by another writes what it should;     *)
(*   - Issued: an id is in one place: a tab, a code, or a token that is    *)
(*     live, was seen by a withdrawal or is dead;                          *)
(*   - Listed: a withdrawal without a failure still has every live token   *)
(*     it saw on its list;                                                 *)
(*   - Registered: a validated request fits a row the client has had since *)
(*     the request was sent;                                               *)
(*   - Allowed: a tab's history has every scope allowed or raced now;      *)
(*   - Signed: a request whose prompt was stripped finds no session that   *)
(*     is older than the tab's first request, unless one was left in place *)
(*     when the tab was sent to the login page.                            *)
(***************************************************************************)
EXTENDS Authorization, WellFoundedInduction, TLAPS

-----------------------------------------------------------------------------
(* Shapes *)

OpPcs == {"free", "save", "drop", "rename", "add", "remove", "delete", "list", "mine", "apply"}

OpT == [pc : OpPcs, row : Client, group : Nat, wanted : SUBSET Nat, all : SUBSET Nat,
        todo : SUBSET Nat, touched : SUBSET Nat]

ReglogT == [ops : Nat, secrets : Nat, groups : Nat, dead : SUBSET Nat, held : SUBSET Nat]

SessionT == [id : 1..MaxSessions, at : Nat]

DbT == [sessions : SUBSET SessionT, consent : SUBSET STRING, codes : SUBSET Nat,
        tokens : SUBSET Nat, active : BOOLEAN]

BrowserT == [cookie : 0..MaxSessions, form : Tabs \cup {NoForm}, formAt : Nat]

ParamsT == [prompt : SUBSET STRING, maxAge : Int, scopes : SUBSET STRING, uri : STRING \cup {""},
            pkce : BOOLEAN, valid : BOOLEAN]

Validated == {"session", "granted", "consent", "issue", "resession", "grant", "upsert"}

\* A tab on its way to a code.
Asking == Validated \cup {"validate", "revalidate", "login", "loginform", "startsession"}

TabPcs == Asking \cup {"blank", "account", "list", "revoke", "postlogout"}

TabT == [pc : TabPcs, out : {"", "redirect", "page"}, id : Nat, p : ParamsT, cookie : 0..MaxSessions, allow : BOOLEAN,
         skip : BOOLEAN, at : Nat, merged : SUBSET STRING, listed : SUBSET Nat, had : SUBSET Nat,
         failed : BOOLEAN, asked : ParamsT, start : Nat, from : Nat, rows : SUBSET Client,
         allowed : SUBSET STRING, raced : SUBSET STRING, stale : BOOLEAN, kept : BOOLEAN]

LogT == [flows : Nat, allowed : SUBSET STRING, raced : SUBSET STRING, cut : SUBSET Nat,
         faults : Nat, disabling : {"no", "sessions", "tokens"}]

RegistryShapes ==
    /\ client \in Client
    /\ groups \in [id : [Names -> Nat], member : SUBSET Nat]
    /\ op \in [Operators -> OpT]
    /\ scenario \in Scenarios
    /\ reglog \in ReglogT

TabShapes ==
    /\ db \in DbT
    /\ browser \in BrowserT
    /\ tab \in [Tabs -> TabT]
    /\ now \in Nat
    /\ log \in LogT

-----------------------------------------------------------------------------
(* The inductive invariant: the registry *)

\* Secrets are numbered as they are drawn; a row about to be saved brings a
\* dead secret back only if it was held when the secret died.
Secrets ==
    /\ reglog.secrets >= 1
    /\ client.secret <= reglog.secrets
    /\ \A x \in reglog.dead : x <= reglog.secrets
    /\ OldSecretsStayDead
    /\ \A o \in Operators : op[o].pc = "save" =>
          /\ op[o].row.secret <= reglog.secrets
          /\ client.live /\ op[o].row.secret # 0 /\ op[o].row.secret \in reglog.dead =>
                op[o].row.secret \in reglog.held

\* Group ids are numbered as they are given out.
GroupNumbers ==
    /\ reglog.groups <= MaxGroups
    /\ \A n \in Names : groups.id[n] <= reglog.groups
    /\ groups.member \subseteq GroupIds

\* What the group form of operator o will leave as it was checked.
Memberships(o) ==
    /\ op[o].pc \in {"list", "mine", "apply"} => \A g \in op[o].wanted : g <= reglog.groups
    /\ op[o].pc = "mine" =>
          \A g \in GroupIds : g \notin op[o].all /\ g \notin op[o].touched =>
              g \notin groups.member /\ g \notin op[o].wanted
    /\ op[o].pc = "apply" =>
          \A g \in GroupIds : g \notin op[o].todo /\ g \notin op[o].touched =>
              (g \in groups.member <=> g \in op[o].wanted)

RegistryInv ==
    /\ RegistryShapes
    /\ Secrets
    /\ GroupNumbers
    /\ \A o \in Operators : Memberships(o)

-----------------------------------------------------------------------------
(* The inductive invariant: the tabs *)

\* Times, and one session under an id.
Times ==
    /\ now >= 1
    /\ \A s \in db.sessions : s.at <= now
    /\ \A s, u \in db.sessions : s.id = u.id => s = u
    /\ \A t \in Tabs : tab[t].from <= now /\ tab[t].start <= tab[t].from

\* A grant that nothing has overtaken writes the consent and what was asked.
Merged ==
    /\ ConsentAsAllowed
    /\ \A t \in Tabs : tab[t].pc = "upsert" /\ ~tab[t].stale =>
          tab[t].merged = db.consent \cup tab[t].p.scopes

\* Token ids that a withdrawal has seen.
Seen == log.cut \cup UNION {tab[t].had : t \in Tabs}

\* A tab under way has an id of its own, which is in no other place; a code is
\* not a token yet.
Issued ==
    /\ \A x \in db.codes \cup db.tokens \cup Seen : x <= log.flows
    /\ \A t \in Tabs : tab[t].id <= log.flows
    /\ \A t \in Tabs : tab[t].pc \in {"blank", "postlogout"} <=> tab[t].id = 0
    /\ \A t \in Tabs : tab[t].id # 0 => tab[t].id \notin db.codes \cup db.tokens \cup Seen
    /\ \A t, u \in Tabs : tab[t].id # 0 /\ tab[t].id = tab[u].id => t = u
    /\ db.codes \cap (db.tokens \cup Seen) = {}

\* As long as nothing failed, the live tokens a withdrawal saw are on its list.
Listed ==
    /\ WithdrawnAccessEnds
    /\ \A t \in Tabs : tab[t].pc = "revoke" /\ ~tab[t].failed =>
          tab[t].had \cap db.tokens \subseteq tab[t].listed

\* Row c accepts a request with parameters p.
Fits(c, p) == p.uri \in c.uris /\ c.code /\ p.scopes \subseteq c.scopes /\ (c.public => p.pkce)

Registered(k, c) ==
    /\ k.pc # "blank" /\ c.live => c \in k.rows
    /\ k.pc \in Validated => \E r \in k.rows : Fits(r, k.p)

Allowed(k, scopes) ==
    /\ k.pc # "blank" => scopes \subseteq k.allowed \cup k.raced
    /\ k.pc = "issue" => k.skip \/ k.p.scopes \subseteq k.allowed \cup k.raced

\* A sign-in at time k.at answers what tab k first asked for.
SignedIn(k) ==
    \/ k.at >= k.start
    \/ k.asked.prompt \cap Fresh = {} /\ (k.asked.maxAge >= 0 => k.from - k.at <= k.asked.maxAge)

\* Session s, if it still counts, was made after the tab's first request.
After(k, s) == ~IsExpired(s) => s.at >= k.start

Signed(k) ==
    /\ k.pc \in Asking =>
          /\ \A s \in db.sessions : s.id = browser.cookie => s.id = k.cookie \/ s.at >= k.start
          /\ \/ k.p = k.asked
             \/ /\ k.p = withoutPrompt(k.asked)
                /\ k.kept \/ \A s \in db.sessions : s.id = k.cookie => After(k, s)
    /\ k.pc \in {"granted", "consent", "revalidate", "resession", "grant", "upsert", "issue"} =>
          k.p.prompt \cap Fresh = {}
    /\ k.pc \in {"granted", "grant", "upsert", "issue"} => k.kept \/ SignedIn(k)

TabInv ==
    /\ TabShapes
    /\ Times
    /\ Merged
    /\ Issued
    /\ Listed
    /\ \A t \in Tabs : Registered(tab[t], client)
    /\ \A t \in Tabs : Allowed(tab[t], log.allowed \cup log.raced)
    /\ \A t \in Tabs : Signed(tab[t])

AuthorizationInv == RegistryInv /\ TabInv

-----------------------------------------------------------------------------
(* Rows and operations *)

\* The bounds and lifetimes are numbers.
LEMMA Bounds ==
  /\ MaxSecrets \in Nat /\ MaxGroups \in Nat /\ MaxSessions \in Nat
  /\ SessionTTL \in Nat /\ CSRFTTL \in Nat
BY RegistryAssumption, AuthorizationAssumption

\* The columns of a client row.
ClientT == [live : BOOLEAN, public : BOOLEAN, skip : BOOLEAN, code : BOOLEAN,
            uris : UNION {SUBSET f.uris : f \in Forms}, scopes : UNION {SUBSET f.scopes : f \in Forms},
            secret : 0..MaxSecrets, hashed : BOOLEAN]

\* A client row, by its columns; a live row has a secret unless it is public.
LEMMA ClientType ==
  ASSUME NEW c
  PROVE  c \in Client <=> c \in ClientT /\ (c.live => (c.public <=> c.secret = 0))
BY DEF Client, ClientT

\* Where there is a client row there is a form, and the row of no client is one.
LEMMA NoClientType ==
  ASSUME NEW c \in Client
  PROVE  /\ NoClient \in Client
         /\ [NoClient EXCEPT !.live = TRUE] \in Client
         /\ [NoClient EXCEPT !.live = TRUE].live /\ [NoClient EXCEPT !.live = TRUE].secret = 0
<1>1. PICK f \in Forms : TRUE
  BY ClientType DEF ClientT
<1>2. {} \in UNION {SUBSET g.uris : g \in Forms} /\ {} \in UNION {SUBSET g.scopes : g \in Forms}
  BY <1>1
<1>3. NoClient \in ClientT
  BY <1>2, Bounds DEF ClientT, NoClient
<1>4. [NoClient EXCEPT !.live = TRUE] \in ClientT
  BY <1>3 DEF ClientT
<1> QED BY <1>3, <1>4, ClientType DEF NoClient

\* applyClientForm, the form applied to a row.
LEMMA FormApplied ==
  ASSUME NEW row \in Client, row.live, NEW f \in Forms
  PROVE  LET new == applyClientForm(row, f)
         IN /\ new \in ClientT
            /\ new.live
            /\ new.public <=> f.public
            /\ new.secret = IF f.public THEN 0 ELSE row.secret
<1>1. row \in ClientT
  BY ClientType
<1>2. f.public \in BOOLEAN /\ f.skip \in BOOLEAN /\ f.code \in BOOLEAN
  BY RegistryAssumption
<1>3. f.uris \in UNION {SUBSET g.uris : g \in Forms} /\ f.scopes \in UNION {SUBSET g.scopes : g \in Forms}
  OBVIOUS
<1> DEFINE secret == IF f.public THEN 0 ELSE row.secret
           hashed == f.public \/ row.hashed
           new == applyClientForm(row, f)
<1>4. secret \in 0..MaxSecrets
  BY <1>1, Bounds DEF ClientT
<1>5. hashed \in BOOLEAN
  BY <1>1, <1>2 DEF ClientT
<1>6. new = [row EXCEPT !.public = f.public, !.skip = f.skip, !.code = f.code, !.uris = f.uris, !.scopes = f.scopes,
                        !.secret = secret, !.hashed = hashed]
  BY DEF applyClientForm
<1> HIDE DEF secret, hashed, new
<1>7. new \in ClientT
  BY ONLY <1>1, <1>2, <1>3, <1>4, <1>5, <1>6 DEF ClientT
<1>8. new.live = row.live /\ new.public = f.public /\ new.secret = secret
  BY ONLY <1>1, <1>6 DEF ClientT
<1> QED BY <1>7, <1>8 DEF secret, new

\* newClientSecret, a new secret in a row that is not public.
LEMMA SecretDrawn ==
  ASSUME NEW row \in ClientT, ~row.public, reglog.secrets \in Nat, reglog.secrets < MaxSecrets
  PROVE  /\ newClientSecret(row) \in Client
         /\ newClientSecret(row).secret = reglog.secrets + 1
         /\ newClientSecret(row).live = row.live
<1>1. reglog.secrets + 1 \in 0..MaxSecrets /\ reglog.secrets + 1 # 0
  BY Bounds
<1>2. newClientSecret(row) \in ClientT
  BY <1>1 DEF ClientT, newClientSecret
<1>3. /\ newClientSecret(row).secret = reglog.secrets + 1
      /\ newClientSecret(row).live = row.live
      /\ newClientSecret(row).public = row.public
  BY <1>1 DEF ClientT, newClientSecret
<1> QED BY <1>1, <1>2, <1>3, ClientType

\* The row that UpdateClient or CreateClient saves, and where its secret is from.
LEMMA RowUpdated ==
  ASSUME NEW row \in Client, row.live, NEW f \in Forms,
         reglog.secrets \in Nat, reglog.secrets < MaxSecrets
  PROVE  /\ UpdatedClient(row, f) \in Client
         /\ UpdatedClient(row, f).secret \in {0, row.secret, reglog.secrets + 1}
<1> DEFINE new == applyClientForm(row, f)
<1>1. /\ new \in ClientT /\ new.live
      /\ new.public <=> f.public
      /\ new.secret = IF f.public THEN 0 ELSE row.secret
  BY FormApplied
<1>2. row.public <=> row.secret = 0
  BY ClientType
<1> HIDE DEF new
<1>3. CASE row.public /\ ~f.public
  <2>1. newClientSecret(new) \in Client /\ newClientSecret(new).secret = reglog.secrets + 1
    BY <1>1, <1>3, SecretDrawn
  <2> QED BY <2>1, <1>3 DEF UpdatedClient, new
<1>4. CASE ~(row.public /\ ~f.public)
  <2>1. new \in Client /\ new.secret \in {0, row.secret}
    BY <1>1, <1>2, <1>4, ClientType
  <2> QED BY <2>1, <1>4 DEF UpdatedClient, new
<1> QED BY <1>3, <1>4

\* An operator without an operation has a record of the right shape.
LEMMA FreeType ==
  ASSUME NEW c \in Client
  PROVE  Free \in OpT /\ Free.pc = "free"
<1>1. NoClient \in Client
  BY NoClientType
<1> QED BY <1>1 DEF Free, OpT, OpPcs

\* An operation goes from what it was to r; the other operations stay.
OpMoves(o, r) ==
    /\ op' \in [Operators -> OpT]
    /\ op'[o] = r
    /\ \A q \in Operators : q # o => op'[q] = op[q]

\* How EXCEPT moves one operation.
LEMMA OpMoved ==
  ASSUME op \in [Operators -> OpT], NEW o \in Operators, NEW r \in OpT, op' = [op EXCEPT ![o] = r]
  PROVE  OpMoves(o, r)
BY DEF OpMoves

\* Load: the operation holds the row it is going to save.
LEMMA Loaded ==
  ASSUME RegistryShapes, NEW o \in Operators, NEW row \in Client, NEW l, Load(o, row, l)
  PROVE  /\ op' \in [Operators -> OpT]
         /\ op'[o].pc = "save" /\ op'[o].row = row
         /\ \A q \in Operators : q # o => op'[q] = op[q]
<1> DEFINE r == [Free EXCEPT !.pc = "save", !.row = row]
<1>1. Free \in OpT
  BY FreeType DEF RegistryShapes
<1>2. r \in OpT
  BY <1>1 DEF OpT, OpPcs
<1>4. r.pc = "save" /\ r.row = row
  BY <1>1 DEF OpT
<1>3. op' = [op EXCEPT ![o] = r]
  BY DEF Load
<1> HIDE DEF r
<1> QED BY <1>2, <1>3, <1>4, OpMoved DEF OpMoves, RegistryShapes

-----------------------------------------------------------------------------
(* The registry keeps its invariant: the client row *)

\* The groups and the group forms stay as they are.
GroupsSame ==
    /\ groups' = groups
    /\ reglog'.groups = reglog.groups
    /\ \A o \in Operators : op'[o].pc \in {"list", "mine", "apply"} => op'[o] = op[o]

\* Steps that leave groups and group forms alone keep what is known of them.
LEMMA GroupsStay ==
  ASSUME RegistryInv, GroupsSame
  PROVE  GroupNumbers' /\ \A o \in Operators : Memberships(o)'
<1>1. GroupIds' = GroupIds
  BY DEF GroupsSame, GroupIds
<1>2. GroupNumbers'
  BY <1>1 DEF RegistryInv, GroupNumbers, GroupsSame
<1>3. ASSUME NEW o \in Operators PROVE Memberships(o)'
  <2>1. Memberships(o)
    BY DEF RegistryInv
  <2> QED BY <1>1, <2>1 DEF Memberships, GroupsSame
<1> QED BY <1>2, <1>3

\* An operation begins: only the counter of operations moves.
LEMMA BeganFacts ==
  ASSUME RegistryShapes
  PROVE  /\ Began \in ReglogT
         /\ Began.secrets = reglog.secrets /\ Began.groups = reglog.groups
         /\ Began.dead = reglog.dead /\ Began.held = reglog.held
         /\ [Began EXCEPT !.secrets = @ + 1] \in ReglogT
         /\ [Began EXCEPT !.secrets = @ + 1].secrets = reglog.secrets + 1
         /\ [Began EXCEPT !.secrets = @ + 1].groups = reglog.groups
         /\ [Began EXCEPT !.secrets = @ + 1].dead = reglog.dead
         /\ [Began EXCEPT !.secrets = @ + 1].held = reglog.held
<1>1. reglog \in ReglogT
  BY DEF RegistryShapes
<1>2. /\ Began \in ReglogT
      /\ Began.secrets = reglog.secrets /\ Began.groups = reglog.groups
      /\ Began.dead = reglog.dead /\ Began.held = reglog.held
  BY <1>1 DEF ReglogT, Began
<1> DEFINE b == Began
<1>3. b \in ReglogT
  BY <1>2
<1> HIDE DEF b
<1>4. /\ [b EXCEPT !.secrets = @ + 1] \in ReglogT
      /\ [b EXCEPT !.secrets = @ + 1].secrets = b.secrets + 1
      /\ [b EXCEPT !.secrets = @ + 1].groups = b.groups
      /\ [b EXCEPT !.secrets = @ + 1].dead = b.dead
      /\ [b EXCEPT !.secrets = @ + 1].held = b.held
  BY <1>3 DEF ReglogT
<1> QED BY <1>2, <1>4 DEF b

\* An operation has read the row: what it is going to save has the secret of
\* the row, a new one or none.
LEMMA LoadKept ==
  ASSUME RegistryInv, NEW o \in Operators, NEW row \in Client, NEW l \in ReglogT, op[o] = Free,
         Load(o, row, l), client.live,
         row.secret \in {0, client.secret, reglog.secrets + 1},
         l.secrets \in {reglog.secrets, reglog.secrets + 1}, row.secret <= l.secrets,
         l.groups = reglog.groups, l.dead = reglog.dead, l.held = reglog.held
  PROVE  RegistryInv'
<1>1. /\ op' \in [Operators -> OpT]
      /\ op'[o].pc = "save" /\ op'[o].row = row
      /\ \A q \in Operators : q # o => op'[q] = op[q]
  BY Loaded DEF RegistryInv
<1>2. reglog' = l /\ client' = client /\ groups' = groups /\ scenario' = scenario
  BY DEF Load
<1>3. reglog \in ReglogT /\ client \in Client
  BY DEF RegistryInv, RegistryShapes
<1>4. client.secret \in Nat /\ (client.public <=> client.secret = 0)
  BY <1>3, ClientType, Bounds DEF ClientT
<1>5. RegistryShapes'
  BY <1>1, <1>2 DEF RegistryInv, RegistryShapes
<1>6. Secrets'
  <2>1. /\ reglog.secrets >= 1 /\ client.secret <= reglog.secrets
        /\ \A x \in reglog.dead : x <= reglog.secrets
        /\ ~client.public /\ client.secret \in reglog.dead => client.secret \in reglog.held
        /\ \A q \in Operators : op[q].pc = "save" =>
              /\ op[q].row.secret <= reglog.secrets
              /\ op[q].row.secret # 0 /\ op[q].row.secret \in reglog.dead => op[q].row.secret \in reglog.held
    BY DEF RegistryInv, Secrets, OldSecretsStayDead
  <2>2. reglog.secrets \in Nat /\ reglog.dead \subseteq Nat /\ l.secrets \in Nat
    BY <1>3 DEF ReglogT
  <2>3. \A q \in Operators : op[q] \in OpT
    BY DEF RegistryInv, RegistryShapes
  <2>4. \A q \in Operators : op[q].row.secret \in Nat
    BY <2>3, ClientType, Bounds DEF OpT, ClientT
  <2>5. \A q \in Operators : op'[q].pc = "save" =>
              /\ op'[q].row.secret <= l.secrets
              /\ op'[q].row.secret # 0 /\ op'[q].row.secret \in reglog.dead => op'[q].row.secret \in reglog.held
    <3> SUFFICES ASSUME NEW q \in Operators, op'[q].pc = "save"
                 PROVE  /\ op'[q].row.secret <= l.secrets
                        /\ op'[q].row.secret # 0 /\ op'[q].row.secret \in reglog.dead => op'[q].row.secret \in reglog.held
      OBVIOUS
    <3>1. CASE q # o
      BY <3>1, <1>1, <2>1, <2>2, <2>4
    <3>2. CASE q = o
      <4>1. reglog.secrets + 1 \notin reglog.dead
        BY <2>1, <2>2
      <4> QED BY <3>2, <4>1, <1>1, <1>4, <2>1
    <3> QED BY <3>1, <3>2
  <2>6. l.secrets >= 1 /\ client.secret <= l.secrets /\ \A x \in reglog.dead : x <= l.secrets
    BY <2>1, <2>2, <1>4
  <2> QED BY <1>2, <2>1, <2>5, <2>6 DEF Secrets, OldSecretsStayDead
<1>7. GroupsSame
  <2>1. \A q \in Operators : op'[q].pc \in {"list", "mine", "apply"} => op'[q] = op[q]
    BY <1>1
  <2> QED BY <1>2, <2>1 DEF GroupsSame
<1> QED BY <1>5, <1>6, <1>7, GroupsStay DEF RegistryInv

\* UpdateClient reads the row.
LEMMA UpdateClientKept ==
  ASSUME RegistryInv, NEW o \in Operators, NEW f \in Forms, UpdateClient(o, f)
  PROVE  RegistryInv'
<1> DEFINE row == UpdatedClient(client, f)
           l == IF row.secret > reglog.secrets THEN [Began EXCEPT !.secrets = @ + 1] ELSE Began
<1>1. op[o] = Free /\ client.live /\ reglog.secrets < MaxSecrets /\ Load(o, row, l)
  BY DEF UpdateClient, Begin
<1>2. RegistryShapes /\ client \in Client /\ reglog.secrets \in Nat
  BY DEF RegistryInv, RegistryShapes, ReglogT
<1>3. client.secret \in Nat /\ client.secret <= reglog.secrets
  BY <1>2, ClientType, Bounds DEF ClientT, RegistryInv, Secrets
<1>4. row \in Client /\ row.secret \in {0, client.secret, reglog.secrets + 1}
  BY <1>1, <1>2, RowUpdated
<1> HIDE DEF row
<1>5. /\ l \in ReglogT /\ l.groups = reglog.groups /\ l.dead = reglog.dead /\ l.held = reglog.held
      /\ l.secrets = IF row.secret > reglog.secrets THEN reglog.secrets + 1 ELSE reglog.secrets
  BY <1>2, BeganFacts
<1> HIDE DEF l
<1>6. l.secrets \in {reglog.secrets, reglog.secrets + 1} /\ row.secret <= l.secrets
  BY <1>2, <1>3, <1>4, <1>5
<1> QED BY <1>1, <1>4, <1>5, <1>6, LoadKept

\* RegenerateClientSecret reads the row.
LEMMA RegenerateKept ==
  ASSUME RegistryInv, NEW o \in Operators, RegenerateClientSecret(o)
  PROVE  RegistryInv'
<1> DEFINE row == newClientSecret(client)
           l == [Began EXCEPT !.secrets = @ + 1]
<1>1. op[o] = Free /\ client.live /\ ~client.public /\ reglog.secrets < MaxSecrets /\ Load(o, row, l)
  BY DEF RegenerateClientSecret, Begin
<1>2. RegistryShapes /\ client \in ClientT /\ reglog.secrets \in Nat
  BY ClientType DEF RegistryInv, RegistryShapes, ReglogT
<1>3. row \in Client /\ row.secret = reglog.secrets + 1
  BY <1>1, <1>2, SecretDrawn
<1> HIDE DEF row
<1>4. /\ l \in ReglogT /\ l.groups = reglog.groups /\ l.dead = reglog.dead /\ l.held = reglog.held
      /\ l.secrets = reglog.secrets + 1
  BY <1>2, BeganFacts
<1> HIDE DEF l
<1> QED BY <1>1, <1>2, <1>3, <1>4, LoadKept

\* authenticateClient reads the row and hashes its secret.
LEMMA AuthenticateKept ==
  ASSUME RegistryInv, NEW o \in Operators, authenticateClient(o)
  PROVE  RegistryInv'
<1> DEFINE row == [client EXCEPT !.hashed = TRUE]
<1>1. op[o] = Free /\ client.live /\ Load(o, row, Began)
  BY DEF authenticateClient, Begin
<1>2. RegistryShapes /\ client \in Client /\ reglog.secrets \in Nat /\ client.secret <= reglog.secrets
  BY DEF RegistryInv, RegistryShapes, ReglogT, Secrets
<1>3. client \in ClientT /\ (client.live => (client.public <=> client.secret = 0))
  BY <1>2, ClientType
<1>4. row \in ClientT /\ row.secret = client.secret /\ row.public = client.public /\ row.live = client.live
  BY <1>3 DEF ClientT
<1> HIDE DEF row
<1>5. row \in Client
  BY <1>3, <1>4, ClientType
<1> QED BY <1>1, <1>2, <1>4, <1>5, BeganFacts, LoadKept

\* What the invariant says of the secrets of rows, with their types.
LEMMA SecretFacts ==
  ASSUME RegistryInv
  PROVE  /\ client \in Client /\ client.secret \in Nat
         /\ client.live => (client.public <=> client.secret = 0)
         /\ reglog \in ReglogT /\ reglog.secrets \in Nat /\ reglog.dead \subseteq Nat
         /\ reglog.secrets >= 1 /\ client.secret <= reglog.secrets
         /\ \A x \in reglog.dead : x <= reglog.secrets
         /\ \A q \in Operators : op[q].row \in Client /\ op[q].row.secret \in Nat
         /\ \A q \in Operators : op[q].row.live => (op[q].row.public <=> op[q].row.secret = 0)
         /\ \A q \in Operators : op[q].pc = "save" =>
              /\ op[q].row.secret <= reglog.secrets
              /\ client.live /\ op[q].row.secret # 0 /\ op[q].row.secret \in reglog.dead =>
                    op[q].row.secret \in reglog.held
<1>1. client \in Client /\ reglog \in ReglogT /\ \A q \in Operators : op[q] \in OpT
  BY DEF RegistryInv, RegistryShapes
<1>2. \A c \in Client : c.secret \in Nat /\ (c.live => (c.public <=> c.secret = 0))
  BY ClientType, Bounds DEF ClientT
<1>3. \A q \in Operators : op[q].row \in Client
  BY <1>1 DEF OpT
<1>4. reglog.secrets \in Nat /\ reglog.dead \subseteq Nat
  BY <1>1 DEF ReglogT
<1> QED BY <1>1, <1>2, <1>3, <1>4 DEF RegistryInv, Secrets

\* SaveClient writes the whole row over whatever is there, if there is a row.
LEMMA SaveKept ==
  ASSUME RegistryInv, NEW o \in Operators, SaveClient(o)
  PROVE  RegistryInv'
<1> USE DEF RegistryInv
<1>1. /\ op[o].pc = "save" /\ op' = [op EXCEPT ![o] = Free]
      /\ client' = IF client.live THEN op[o].row ELSE client
      /\ groups' = groups /\ scenario' = scenario
      /\ reglog' = IF client.live /\ op[o].row.secret # client.secret
                 THEN [reglog EXCEPT !.dead = @ \cup {client.secret},
                                     !.held = @ \cup ({client.secret} \cap HeldByOthers(o))]
                 ELSE reglog
  BY DEF SaveClient, clientsUpdate
<1>2. OpMoves(o, Free) /\ Free.pc = "free"
  <2>1. Free \in OpT /\ Free.pc = "free"
    BY FreeType DEF RegistryShapes
  <2> QED BY <2>1, <1>1, OpMoved DEF RegistryShapes
<1>3. /\ client \in Client /\ client.secret \in Nat /\ reglog \in ReglogT
      /\ reglog.secrets \in Nat /\ client.secret <= reglog.secrets /\ op[o].row \in Client
  BY SecretFacts
<1>4. /\ reglog' \in ReglogT
      /\ reglog'.secrets = reglog.secrets /\ reglog'.groups = reglog.groups
  <2>1. CASE client.live /\ op[o].row.secret # client.secret
    <3>1. reglog' = [reglog EXCEPT !.dead = @ \cup {client.secret},
                                   !.held = @ \cup ({client.secret} \cap HeldByOthers(o))]
      BY <1>1, <2>1
    <3> QED BY ONLY <3>1, <1>3 DEF ReglogT
  <2>2. CASE ~(client.live /\ op[o].row.secret # client.secret)
    BY <2>2, <1>1, <1>3
  <2> QED BY <2>1, <2>2
<1>5. RegistryShapes'
  BY <1>1, <1>2, <1>3, <1>4 DEF RegistryShapes, OpMoves
<1>6. GroupsSame
  BY <1>1, <1>2, <1>4 DEF GroupsSame, OpMoves
<1>7. Secrets'
  <2>1. CASE client.live /\ op[o].row.secret # client.secret
    <3>1. /\ reglog'.dead = reglog.dead \cup {client.secret}
          /\ reglog'.held = reglog.held \cup ({client.secret} \cap HeldByOthers(o))
      <4>1. reglog' = [reglog EXCEPT !.dead = @ \cup {client.secret},
                                     !.held = @ \cup ({client.secret} \cap HeldByOthers(o))]
        BY <1>1, <2>1
      <4> QED BY ONLY <4>1, <1>3 DEF ReglogT
    <3>2. client' = op[o].row
      BY <1>1, <2>1
    <3>3. \A q \in Operators : q # o /\ op[q].pc = "save" => op[q].row.secret \in HeldByOthers(o)
      BY DEF HeldByOthers
    <3>4. \A q \in Operators : op'[q].pc = "save" => q # o /\ op'[q] = op[q]
      BY <1>2 DEF OpMoves
    <3>5. OldSecretsStayDead'
      BY <1>1, <2>1, <3>1, <3>2, SecretFacts DEF OldSecretsStayDead
    <3>6. /\ reglog'.secrets >= 1 /\ client'.secret <= reglog'.secrets
          /\ \A x \in reglog'.dead : x <= reglog'.secrets
      BY <1>1, <1>4, <3>1, <3>2, SecretFacts
    <3>7. \A q \in Operators : op'[q].pc = "save" =>
             /\ op'[q].row.secret <= reglog'.secrets
             /\ client'.live /\ op'[q].row.secret # 0 /\ op'[q].row.secret \in reglog'.dead =>
                   op'[q].row.secret \in reglog'.held
      BY <2>1, <1>4, <3>1, <3>3, <3>4, SecretFacts
    <3> QED BY <3>5, <3>6, <3>7 DEF Secrets
  <2>2. CASE ~(client.live /\ op[o].row.secret # client.secret)
    <3>1. reglog' = reglog
      BY <1>1, <2>2
    <3>2. client'.live => client.live /\ client'.secret = client.secret
      BY <1>1, <2>2
    <3>3. client'.secret = client.secret
      BY <1>1, <2>2
    <3>4. \A q \in Operators : op'[q].pc = "save" => op[q].pc = "save" /\ op'[q] = op[q]
      BY <1>2 DEF OpMoves
    <3>5. OldSecretsStayDead'
      <4>1. client'.live => (client'.public <=> client'.secret = 0)
        BY <1>5, ClientType DEF RegistryShapes
      <4>2. client.live /\ client.secret # 0 /\ client.secret \in reglog.dead => client.secret \in reglog.held
        BY SecretFacts DEF OldSecretsStayDead, Secrets
      <4> QED BY <4>1, <4>2, <3>1, <3>2 DEF OldSecretsStayDead
    <3> QED BY <3>1, <3>2, <3>3, <3>4, <3>5, SecretFacts DEF Secrets
  <2> QED BY <2>1, <2>2
<1> QED BY <1>5, <1>6, <1>7, GroupsStay

\* CreateClient: a new row has a new secret or none.
LEMMA CreateKept ==
  ASSUME RegistryInv, NEW o \in Operators, NEW f \in Forms, CreateClient(o, f)
  PROVE  RegistryInv'
<1> USE DEF RegistryInv
<1>1. /\ ~client.live /\ reglog.secrets < MaxSecrets
      /\ client' = NewClient(f)
      /\ reglog' = [Began EXCEPT !.secrets = @ + 1, !.held = @ \cup HeldByOthers(o)]
      /\ groups' = groups /\ op' = op /\ scenario' = scenario /\ op[o] = Free
  BY DEF CreateClient, Begin
<1>2. Began \in ReglogT /\ Began.dead = reglog.dead /\ Began.groups = reglog.groups /\ Began.held = reglog.held
      /\ Began.secrets = reglog.secrets
  BY BeganFacts
<1>3. HeldByOthers(o) \subseteq Nat
  BY SecretFacts DEF HeldByOthers
<1>4. /\ reglog' \in ReglogT /\ reglog'.secrets = reglog.secrets + 1
      /\ reglog'.groups = reglog.groups /\ reglog'.dead = reglog.dead
      /\ reglog'.held = reglog.held \cup HeldByOthers(o)
  <2> DEFINE b == Began
  <2>1. b \in ReglogT /\ reglog' = [b EXCEPT !.secrets = @ + 1, !.held = @ \cup HeldByOthers(o)]
    BY <1>1, <1>2
  <2> HIDE DEF b
  <2>2. reglog' \in ReglogT
    <3>1. b.secrets + 1 \in Nat /\ b.held \cup HeldByOthers(o) \in SUBSET Nat
      BY <2>1, <1>3 DEF ReglogT
    <3> QED BY ONLY <2>1, <3>1 DEF ReglogT
  <2>3. /\ reglog'.secrets = b.secrets + 1
        /\ reglog'.groups = b.groups /\ reglog'.dead = b.dead
        /\ reglog'.held = b.held \cup HeldByOthers(o)
    BY ONLY <2>1, <1>3 DEF ReglogT
  <2> QED BY <2>2, <2>3, <1>2 DEF b
<1>5. client' \in Client /\ client'.secret \in {0, reglog.secrets + 1}
  <2> DEFINE row == [NoClient EXCEPT !.live = TRUE]
  <2>1. row \in Client /\ row.live /\ row.secret = 0
    BY SecretFacts, NoClientType
  <2>2. client' = UpdatedClient(row, f)
    BY <1>1 DEF NewClient
  <2> HIDE DEF row
  <2> QED BY <1>1, <2>1, <2>2, RowUpdated, SecretFacts
<1>6. RegistryShapes'
  BY <1>1, <1>4, <1>5 DEF RegistryShapes
<1>7. GroupsSame
  BY <1>1, <1>4 DEF GroupsSame
<1>8. Secrets'
  <2>1. OldSecretsStayDead'
    <3>1. client'.live => (client'.public <=> client'.secret = 0)
      BY <1>5, ClientType
    <3>2. reglog.secrets + 1 \notin reglog.dead
      BY SecretFacts
    <3> QED BY <1>4, <1>5, <3>1, <3>2 DEF OldSecretsStayDead
  <2>2. /\ reglog'.secrets >= 1 /\ client'.secret <= reglog'.secrets
        /\ \A x \in reglog'.dead : x <= reglog'.secrets
    BY <1>4, <1>5, SecretFacts
  <2>3. \A q \in Operators : op[q].pc = "save" => q # o
    BY <1>1 DEF Free
  <2>4. \A q \in Operators : op[q].pc = "save" =>
             /\ op[q].row.secret <= reglog'.secrets
             /\ op[q].row.secret \in reglog'.held
    BY <2>3, <1>4, SecretFacts DEF HeldByOthers
  <2> QED BY <1>1, <2>1, <2>2, <2>4 DEF Secrets
<1> QED BY <1>6, <1>7, <1>8, GroupsStay

\* The DELETE of DeleteClient: the row is gone, and its secret with it.
LEMMA DropKept ==
  ASSUME RegistryInv, NEW o \in Operators, DropClient(o)
  PROVE  RegistryInv'
<1> USE DEF RegistryInv
<1>1. /\ client' = NoClient /\ op' = [op EXCEPT ![o] = Free]
      /\ reglog' = [reglog EXCEPT !.dead = @ \cup {client.secret}]
      /\ groups' = groups /\ scenario' = scenario
  BY DEF DropClient
<1>2. OpMoves(o, Free) /\ Free.pc = "free"
  <2>1. Free \in OpT /\ Free.pc = "free"
    BY FreeType DEF RegistryShapes
  <2> QED BY <2>1, <1>1, OpMoved DEF RegistryShapes
<1>3. reglog \in ReglogT /\ client.secret \in Nat
  BY SecretFacts
<1>4. /\ reglog' \in ReglogT /\ reglog'.secrets = reglog.secrets /\ reglog'.groups = reglog.groups
      /\ reglog'.dead = reglog.dead \cup {client.secret} /\ reglog'.held = reglog.held
  BY ONLY <1>1, <1>3 DEF ReglogT
<1>5. RegistryShapes'
  <2>1. NoClient \in Client
    BY SecretFacts, NoClientType
  <2> QED BY <2>1, <1>1, <1>2, <1>4 DEF RegistryShapes, OpMoves
<1>6. GroupsSame
  BY <1>1, <1>2, <1>4 DEF GroupsSame, OpMoves
<1>7. Secrets'
  <2>1. ~client'.live /\ client'.secret = 0
    BY <1>1 DEF NoClient
  <2>2. \A q \in Operators : op'[q].pc = "save" => op[q].pc = "save" /\ op'[q] = op[q]
    BY <1>2 DEF OpMoves
  <2> QED BY <2>1, <2>2, <1>4, SecretFacts DEF Secrets, OldSecretsStayDead
<1> QED BY <1>5, <1>6, <1>7, GroupsStay

\* DeleteClient begins: the operation waits for its DELETE.
LEMMA DeleteBeginKept ==
  ASSUME RegistryInv, NEW o \in Operators,
         op' = [op EXCEPT ![o] = [Free EXCEPT !.pc = "drop"]],
         reglog' = Began, client' = client, groups' = groups, scenario' = scenario
  PROVE  RegistryInv'
<1> USE DEF RegistryInv
<1> DEFINE r == [Free EXCEPT !.pc = "drop"]
<1>1. r \in OpT /\ r.pc = "drop"
  <2>1. Free \in OpT
    BY FreeType DEF RegistryShapes
  <2> QED BY <2>1 DEF OpT, OpPcs
<1>2. op' = [op EXCEPT ![o] = r]
  OBVIOUS
<1> HIDE DEF r
<1>3. OpMoves(o, r)
  BY <1>1, <1>2, OpMoved DEF RegistryShapes
<1>4. /\ reglog' \in ReglogT /\ reglog'.secrets = reglog.secrets /\ reglog'.groups = reglog.groups
      /\ reglog'.dead = reglog.dead /\ reglog'.held = reglog.held
  BY BeganFacts
<1>5. RegistryShapes'
  BY <1>3, <1>4 DEF RegistryShapes, OpMoves
<1>6. GroupsSame
  BY <1>1, <1>3, <1>4 DEF GroupsSame, OpMoves
<1>7. Secrets'
  <2>1. \A q \in Operators : op'[q].pc = "save" => op[q].pc = "save" /\ op'[q] = op[q]
    BY <1>1, <1>3 DEF OpMoves
  <2> QED BY <2>1, <1>4 DEF Secrets, OldSecretsStayDead
<1> QED BY <1>5, <1>6, <1>7, GroupsStay

-----------------------------------------------------------------------------
(* The registry keeps its invariant: the groups *)

\* The client row and the rows about to be saved stay as they are.
SecretsSame ==
    /\ client' = client
    /\ reglog'.secrets = reglog.secrets /\ reglog'.dead = reglog.dead /\ reglog'.held = reglog.held
    /\ \A o \in Operators : op'[o].pc = "save" => op[o].pc = "save" /\ op'[o].row = op[o].row

\* Steps that leave them alone keep what is known of the secrets.
LEMMA SecretsStay ==
  ASSUME Secrets, SecretsSame
  PROVE  Secrets'
BY DEF Secrets, SecretsSame, OldSecretsStayDead

\* Ids of groups: numbers above 0 that were given out.
LEMMA GroupIdFacts ==
  ASSUME RegistryInv
  PROVE  /\ \A g \in GroupIds : g \in Nat /\ g # 0 /\ g <= reglog.groups
         /\ groups.member \subseteq GroupIds
         /\ groups \in [id : [Names -> Nat], member : SUBSET Nat]
         /\ reglog.groups \in Nat /\ reglog.groups <= MaxGroups
<1>1. groups \in [id : [Names -> Nat], member : SUBSET Nat] /\ reglog \in ReglogT
  BY DEF RegistryInv, RegistryShapes
<1>2. reglog.groups \in Nat
  BY <1>1 DEF ReglogT
<1> QED BY <1>1, <1>2 DEF RegistryInv, GroupNumbers, GroupIds

\* An operation on groups is taken up or done: nothing but its record moves.
LEMMA GroupOpKept ==
  ASSUME RegistryInv, NEW o \in Operators, NEW r \in OpT, OpMoves(o, r),
         client' = client, groups' = groups, scenario' = scenario, reglog' \in {reglog, Began},
         r.pc # "save", r.pc \notin {"list", "mine", "apply"}
  PROVE  RegistryInv'
<1> USE DEF RegistryInv
<1>1. /\ reglog' \in ReglogT /\ reglog'.secrets = reglog.secrets /\ reglog'.groups = reglog.groups
      /\ reglog'.dead = reglog.dead /\ reglog'.held = reglog.held
  BY BeganFacts DEF RegistryShapes
<1>2. RegistryShapes'
  BY <1>1 DEF RegistryShapes, OpMoves
<1>3. GroupsSame
  BY <1>1 DEF GroupsSame, OpMoves
<1>4. SecretsSame
  BY <1>1 DEF SecretsSame, OpMoves
<1> QED BY <1>2, <1>3, <1>4, GroupsStay, SecretsStay

\* The look-up before a change of a group.
LEMMA LoadGroupKept ==
  ASSUME RegistryInv, NEW o \in Operators, NEW g \in GroupIds,
         NEW k \in {"rename", "add", "remove", "delete"}, LoadGroup(o, k, g)
  PROVE  RegistryInv'
<1> DEFINE r == [Free EXCEPT !.pc = k, !.group = g]
<1>1. r \in OpT
  <2>1. Free \in OpT
    BY FreeType DEF RegistryInv, RegistryShapes
  <2>2. g \in Nat
    BY GroupIdFacts
  <2> QED BY <2>1, <2>2 DEF OpT, OpPcs
<1>2. r.pc = k
  BY DEF Free
<1>3. /\ op' = [op EXCEPT ![o] = r] /\ reglog' = Began
      /\ client' = client /\ groups' = groups /\ scenario' = scenario
  BY DEF LoadGroup
<1> HIDE DEF r
<1>4. OpMoves(o, r)
  BY <1>1, <1>3, OpMoved DEF RegistryInv, RegistryShapes
<1>5. r.pc # "save" /\ r.pc \notin {"list", "mine", "apply"}
  BY <1>2
<1> QED BY <1>1, <1>3, <1>4, <1>5, GroupOpKept

\* Other group forms under way are as they were, or learn that the membership
\* of g changed.
Noted(o, g) ==
    \A q \in Operators : q # o =>
        /\ op'[q].pc = op[q].pc /\ op'[q].row = op[q].row /\ op'[q].wanted = op[q].wanted
        /\ op'[q].all = op[q].all /\ op'[q].todo = op[q].todo
        /\ op'[q].touched \subseteq op[q].touched \cup {g} /\ op[q].touched \subseteq op'[q].touched
        /\ op[q].pc \in {"list", "mine", "apply"} => g \in op'[q].touched

\* Touch, and the operation that touches goes to r.
LEMMA Touched ==
  ASSUME RegistryShapes, NEW o \in Operators, NEW g \in Nat, NEW r \in OpT,
         op' = [Touch(o, {g}) EXCEPT ![o] = r]
  PROVE  op' \in [Operators -> OpT] /\ op'[o] = r /\ Noted(o, g)
<1>1. op \in [Operators -> OpT]
  BY DEF RegistryShapes
<1>2. \A q \in Operators : op[q] \in OpT
  BY <1>1
<1>3. \A q \in Operators : /\ [op[q] EXCEPT !.touched = @ \cup {g}] \in OpT
                           /\ [op[q] EXCEPT !.touched = @ \cup {g}].pc = op[q].pc
                           /\ [op[q] EXCEPT !.touched = @ \cup {g}].row = op[q].row
                           /\ [op[q] EXCEPT !.touched = @ \cup {g}].wanted = op[q].wanted
                           /\ [op[q] EXCEPT !.touched = @ \cup {g}].all = op[q].all
                           /\ [op[q] EXCEPT !.touched = @ \cup {g}].todo = op[q].todo
                           /\ [op[q] EXCEPT !.touched = @ \cup {g}].touched = op[q].touched \cup {g}
  BY <1>2 DEF OpT
<1>4. Touch(o, {g}) \in [Operators -> OpT]
  BY <1>2, <1>3 DEF Touch
<1>5. op' \in [Operators -> OpT] /\ op'[o] = r
  BY <1>4
<1>6. \A q \in Operators : q # o =>
         op'[q] = IF op[q].pc \in {"list", "mine", "apply"} THEN [op[q] EXCEPT !.touched = @ \cup {g}] ELSE op[q]
  BY <1>4 DEF Touch
<1>7. Noted(o, g)
  <2> SUFFICES ASSUME NEW q \in Operators, q # o
               PROVE  /\ op'[q].pc = op[q].pc /\ op'[q].row = op[q].row /\ op'[q].wanted = op[q].wanted
                      /\ op'[q].all = op[q].all /\ op'[q].todo = op[q].todo
                      /\ op'[q].touched \subseteq op[q].touched \cup {g} /\ op[q].touched \subseteq op'[q].touched
                      /\ op[q].pc \in {"list", "mine", "apply"} => g \in op'[q].touched
    BY DEF Noted
  <2>1. CASE op[q].pc \in {"list", "mine", "apply"}
    <3> DEFINE k == [op[q] EXCEPT !.touched = @ \cup {g}]
    <3>1. op'[q] = k
      BY <2>1, <1>6
    <3>2. /\ k.pc = op[q].pc /\ k.row = op[q].row /\ k.wanted = op[q].wanted
          /\ k.all = op[q].all /\ k.todo = op[q].todo /\ k.touched = op[q].touched \cup {g}
      BY <1>3
    <3> HIDE DEF k
    <3> QED BY <3>1, <3>2
  <2>2. CASE op[q].pc \notin {"list", "mine", "apply"}
    BY <2>2, <1>6
  <2> QED BY <2>1, <2>2
<1> QED BY <1>5, <1>7

\* A membership of group g changes, by an operation that goes to r and notes it
\* in the others; at the end of a group form's change, g is as it was checked.
LEMMA MembershipKept ==
  ASSUME RegistryInv, NEW o \in Operators, NEW g \in Nat, NEW r \in OpT,
         op' \in [Operators -> OpT], op'[o] = r, Noted(o, g),
         client' = client, scenario' = scenario, reglog' = reglog,
         groups' = addMember(g) \/ groups' = removeMember(g),
         r.pc # "save", r.pc \notin {"list", "mine", "apply"} \/ Memberships(o)'
  PROVE  RegistryInv'
<1> USE DEF RegistryInv
<1>1. groups \in [id : [Names -> Nat], member : SUBSET Nat]
  BY GroupIdFacts
<1>2. /\ groups' \in [id : [Names -> Nat], member : SUBSET Nat]
      /\ groups'.id = groups.id
      /\ groups'.member \subseteq groups.member \cup {g}
      /\ groups.member \subseteq groups'.member \cup {g}
      /\ groups'.member \subseteq GroupIds
  <2>1. CASE groups' = addMember(g)
    BY <2>1, <1>1, GroupIdFacts DEF addMember
  <2>2. CASE groups' = removeMember(g)
    BY <2>2, <1>1, GroupIdFacts DEF removeMember
  <2> QED BY <2>1, <2>2
<1>3. GroupIds' = GroupIds
  BY <1>2 DEF GroupIds
<1>4. RegistryShapes'
  BY <1>2 DEF RegistryShapes
<1>5. SecretsSame
  BY DEF SecretsSame, Noted
<1>6. GroupNumbers'
  BY <1>2, <1>3 DEF GroupNumbers
<1>7. ASSUME NEW q \in Operators PROVE Memberships(q)'
  <2>1. CASE q = o
    BY <2>1 DEF Memberships
  <2>2. CASE q # o
    <3>1. /\ op'[q].pc = op[q].pc /\ op'[q].wanted = op[q].wanted
          /\ op'[q].all = op[q].all /\ op'[q].todo = op[q].todo
          /\ op[q].touched \subseteq op'[q].touched
          /\ op[q].pc \in {"list", "mine", "apply"} => g \in op'[q].touched
      BY <2>2 DEF Noted
    <3>2. Memberships(q)
      OBVIOUS
    <3> QED BY <3>1, <3>2, <1>2, <1>3 DEF Memberships
  <2> QED BY <2>1, <2>2
<1> QED BY <1>4, <1>5, <1>6, <1>7, SecretsStay

\* AddGroupMember and RemoveGroupMember.
LEMMA MemberKept ==
  ASSUME RegistryInv, NEW o \in Operators, AddGroupMember(o) \/ RemoveGroupMember(o)
  PROVE  RegistryInv'
<1> DEFINE g == op[o].group
<1>1. /\ op' = [Touch(o, {g}) EXCEPT ![o] = Free]
      /\ groups' = addMember(g) \/ groups' = removeMember(g)
      /\ client' = client /\ scenario' = scenario /\ reglog' = reglog
  BY DEF AddGroupMember, RemoveGroupMember
<1>2. g \in Nat
  BY DEF RegistryInv, RegistryShapes, OpT
<1>3. Free \in OpT /\ Free.pc = "free"
  BY FreeType DEF RegistryInv, RegistryShapes
<1> HIDE DEF g
<1>4. op' \in [Operators -> OpT] /\ op'[o] = Free /\ Noted(o, g)
  BY <1>1, <1>2, <1>3, Touched DEF RegistryInv
<1>5. Free.pc # "save" /\ Free.pc \notin {"list", "mine", "apply"}
  BY <1>3
<1> QED BY <1>1, <1>2, <1>3, <1>4, <1>5, MembershipKept

\* One change of the group form: group g is now as it was checked.
LEMMA ChangeKept ==
  ASSUME RegistryInv, NEW o \in Operators, NEW g \in op[o].todo, ChangeMembership(o, g)
  PROVE  RegistryInv'
<1> USE DEF RegistryInv
<1> DEFINE r == [op[o] EXCEPT !.todo = @ \ {g}]
<1>1. /\ op[o].pc = "apply"
      /\ groups' = IF g \in op[o].wanted THEN addMember(g) ELSE removeMember(g)
      /\ op' = [Touch(o, {g}) EXCEPT ![o].todo = @ \ {g}]
      /\ client' = client /\ scenario' = scenario /\ reglog' = reglog
  BY DEF ChangeMembership
<1>2. op[o] \in OpT /\ op \in [Operators -> OpT]
  BY DEF RegistryShapes
<1>3. g \in Nat
  BY <1>2 DEF OpT
<1>4. r \in OpT
  BY <1>2 DEF OpT
<1>5. r.pc = "apply" /\ r.wanted = op[o].wanted /\ r.touched = op[o].touched /\ r.todo = op[o].todo \ {g}
  BY <1>1, <1>2 DEF OpT
<1>6. Touch(o, {g})[o] = op[o]
  BY DEF Touch
<1>7. op' = [Touch(o, {g}) EXCEPT ![o] = r]
  BY <1>1, <1>6
<1> HIDE DEF r
<1>8. op' \in [Operators -> OpT] /\ op'[o] = r /\ Noted(o, g)
  BY <1>3, <1>4, <1>7, Touched
<1>9. groups \in [id : [Names -> Nat], member : SUBSET Nat]
  BY GroupIdFacts
<1>10. /\ groups'.id = groups.id
       /\ \A h \in GroupIds : h # g => (h \in groups'.member <=> h \in groups.member)
       /\ g \in GroupIds => (g \in groups'.member <=> g \in op[o].wanted)
  <2>1. CASE g \in op[o].wanted
    BY <2>1, <1>1, <1>9 DEF addMember
  <2>2. CASE g \notin op[o].wanted
    BY <2>2, <1>1, <1>9 DEF removeMember
  <2> QED BY <2>1, <2>2
<1>11. GroupIds' = GroupIds
  BY <1>10 DEF GroupIds
<1>12. Memberships(o)'
  <2>1. Memberships(o)
    OBVIOUS
  <2>2. \A h \in op[o].wanted : h <= reglog.groups
    BY <2>1, <1>1 DEF Memberships
  <2>3. \A h \in GroupIds : h \notin op[o].todo /\ h \notin op[o].touched =>
              (h \in groups.member <=> h \in op[o].wanted)
    BY <2>1, <1>1 DEF Memberships
  <2> QED BY <2>2, <2>3, <1>1, <1>5, <1>8, <1>10, <1>11 DEF Memberships
<1>13. groups' = addMember(g) \/ groups' = removeMember(g)
  BY <1>1
<1>14. r.pc # "save"
  BY <1>5
<1> QED BY <1>1, <1>3, <1>4, <1>8, <1>12, <1>13, <1>14, MembershipKept

\* CreateGroup: nobody has asked for the new id, and nobody is a member.
LEMMA CreateGroupKept ==
  ASSUME RegistryInv, NEW o \in Operators, NEW n \in Names, CreateGroup(o, n)
  PROVE  RegistryInv'
<1> USE DEF RegistryInv
<1> DEFINE new == reglog.groups + 1
<1>1. /\ groups.id[n] = 0 /\ reglog.groups < MaxGroups
      /\ groups' = [groups EXCEPT !.id[n] = new]
      /\ reglog' = [Began EXCEPT !.groups = @ + 1]
      /\ client' = client /\ op' = op /\ scenario' = scenario
  BY DEF CreateGroup, groupsCreate
<1>2. /\ Began \in ReglogT /\ Began.secrets = reglog.secrets /\ Began.groups = reglog.groups
      /\ Began.dead = reglog.dead /\ Began.held = reglog.held
  BY BeganFacts
<1>3. /\ reglog' \in ReglogT /\ reglog'.groups = new /\ reglog'.secrets = reglog.secrets
      /\ reglog'.dead = reglog.dead /\ reglog'.held = reglog.held
  <2> DEFINE b == Began
  <2>1. b \in ReglogT /\ reglog' = [b EXCEPT !.groups = @ + 1]
    BY <1>1, <1>2
  <2> HIDE DEF b
  <2>2. reglog' \in ReglogT
    BY ONLY <2>1 DEF ReglogT
  <2>3. /\ reglog'.secrets = b.secrets /\ reglog'.groups = b.groups + 1
        /\ reglog'.dead = b.dead /\ reglog'.held = b.held
    BY ONLY <2>1 DEF ReglogT
  <2> QED BY <2>2, <2>3, <1>2 DEF b
<1>4. groups \in [id : [Names -> Nat], member : SUBSET Nat] /\ reglog.groups \in Nat
  BY GroupIdFacts
<1>5. /\ groups' \in [id : [Names -> Nat], member : SUBSET Nat]
      /\ groups'.member = groups.member
      /\ groups'.id = [groups.id EXCEPT ![n] = new]
  BY <1>1, <1>4
<1>6. GroupIds' = GroupIds \cup {new}
  <2>1. GroupIds' = {groups'.id[m] : m \in Names} \ {0}
    BY DEF GroupIds
  <2>2. /\ groups'.id[n] = new /\ new # 0
        /\ \A m \in Names : m # n => groups'.id[m] = groups.id[m]
    BY <1>4, <1>5
  <2> QED BY <1>1, <2>1, <2>2 DEF GroupIds
<1>7. RegistryShapes'
  BY <1>1, <1>3, <1>5 DEF RegistryShapes
<1>8. SecretsSame
  BY <1>1, <1>3 DEF SecretsSame
<1>9. GroupNumbers'
  <2>1. \A m \in Names : groups.id[m] \in Nat /\ groups.id[m] <= reglog.groups
    BY <1>4 DEF GroupNumbers
  <2>2. \A m \in Names : groups'.id[m] <= new
    BY <1>4, <1>5, <2>1
  <2>3. new <= MaxGroups
    BY <1>1, <1>4, Bounds
  <2>4. groups'.member \subseteq GroupIds'
    BY <1>5, <1>6, GroupIdFacts
  <2> QED BY <1>3, <2>2, <2>3, <2>4 DEF GroupNumbers
<1>10. new \notin groups.member /\ \A q \in Operators : \A g \in op[q].wanted : g \in Nat
  <2>1. \A q \in Operators : op[q] \in OpT
    BY DEF RegistryShapes
  <2> QED BY <2>1, <1>4, GroupIdFacts DEF OpT
<1>11. ASSUME NEW q \in Operators PROVE Memberships(q)'
  <2>1. Memberships(q)
    OBVIOUS
  <2>2. op[q].pc \in {"list", "mine", "apply"} =>
          new \notin op[q].wanted /\ \A g \in op[q].wanted : g <= new
    BY <2>1, <1>4, <1>10 DEF Memberships
  <2> HIDE DEF new
  <2> QED BY <2>1, <2>2, <1>1, <1>3, <1>5, <1>6, <1>10 DEF Memberships
<1> QED BY <1>7, <1>8, <1>9, <1>11, SecretsStay

\* A group is renamed or deleted: no group becomes one that was not there, and
\* the memberships of those that stay are as they were.
LEMMA GroupsShrunk ==
  ASSUME RegistryInv, NEW o \in Operators,
         groups' \in [id : [Names -> Nat], member : SUBSET Nat],
         GroupIds' \subseteq GroupIds, groups'.member \subseteq GroupIds',
         \A g \in GroupIds' : g \in groups'.member <=> g \in groups.member,
         op' = [op EXCEPT ![o] = Free], client' = client, scenario' = scenario, reglog' = reglog
  PROVE  RegistryInv'
<1> USE DEF RegistryInv
<1>1. Free \in OpT /\ Free.pc = "free"
  BY FreeType DEF RegistryShapes
<1>2. OpMoves(o, Free)
  BY <1>1, OpMoved DEF RegistryShapes
<1>3. RegistryShapes'
  BY <1>2 DEF RegistryShapes, OpMoves
<1>4. SecretsSame
  BY <1>1, <1>2 DEF SecretsSame, OpMoves
<1>5. GroupNumbers'
  <2>1. \A n \in Names : groups'.id[n] \in Nat /\ (groups'.id[n] # 0 => groups'.id[n] \in GroupIds')
    BY DEF GroupIds
  <2>2. \A n \in Names : groups'.id[n] <= reglog.groups
    BY <2>1, GroupIdFacts
  <2> QED BY <2>2 DEF GroupNumbers
<1>6. ASSUME NEW q \in Operators PROVE Memberships(q)'
  <2>1. CASE q = o
    BY <2>1, <1>1, <1>2 DEF Memberships, OpMoves
  <2>2. CASE q # o
    <3>1. op'[q] = op[q] /\ Memberships(q)
      BY <2>2, <1>2 DEF OpMoves
    <3> QED BY <3>1 DEF Memberships
  <2> QED BY <2>1, <2>2
<1> QED BY <1>3, <1>4, <1>5, <1>6, SecretsStay

\* UpdateGroup moves an id to another name.
LEMMA RenameKept ==
  ASSUME RegistryInv, NEW o \in Operators, NEW n \in Names, UpdateGroup(o, n)
  PROVE  RegistryInv'
<1> DEFINE g == op[o].group
           ids == [m \in Names |-> IF m = n THEN g ELSE IF groups.id[m] = g THEN 0 ELSE groups.id[m]]
<1>1. /\ groups' = IF g \in GroupIds /\ groups.id[n] \in {0, g} THEN [groups EXCEPT !.id = ids] ELSE groups
      /\ op' = [op EXCEPT ![o] = Free] /\ client' = client /\ scenario' = scenario /\ reglog' = reglog
  BY DEF UpdateGroup, groupsUpdate
<1>2. /\ groups \in [id : [Names -> Nat], member : SUBSET Nat] /\ groups.member \subseteq GroupIds
  BY GroupIdFacts
<1>3. g \in Nat
  BY DEF RegistryInv, RegistryShapes, OpT
<1> HIDE DEF g
<1>4. /\ groups' \in [id : [Names -> Nat], member : SUBSET Nat]
      /\ groups'.member = groups.member /\ GroupIds' = GroupIds
  <2>1. CASE g \in GroupIds /\ groups.id[n] \in {0, g}
    <3>1. groups' = [groups EXCEPT !.id = ids]
      BY <1>1, <2>1
    <3>2. ids \in [Names -> Nat]
      BY <1>2, <1>3
    <3>3. {ids[m] : m \in Names} \ {0} = {groups.id[m] : m \in Names} \ {0}
      <4>1. \A m \in Names : ids[m] # 0 => \E k \in Names : ids[m] = groups.id[k]
        BY <2>1, <1>2 DEF GroupIds
      <4>2. \A k \in Names : groups.id[k] # 0 => \E m \in Names : ids[m] = groups.id[k]
        BY <2>1, <1>2 DEF GroupIds
      <4> QED BY <4>1, <4>2
    <3> HIDE DEF ids
    <3>4. groups'.id = ids /\ groups'.member = groups.member
      BY <3>1, <1>2
    <3>5. groups' \in [id : [Names -> Nat], member : SUBSET Nat]
      BY <3>1, <3>2, <1>2
    <3> QED BY <3>3, <3>4, <3>5 DEF GroupIds
  <2>2. CASE ~(g \in GroupIds /\ groups.id[n] \in {0, g})
    BY <1>1, <1>2, <2>2 DEF GroupIds
  <2> QED BY <2>1, <2>2
<1> QED BY <1>1, <1>2, <1>4, GroupsShrunk

\* DeleteGroup frees the name, and the membership goes with the group.
LEMMA DeleteGroupKept ==
  ASSUME RegistryInv, NEW o \in Operators, DeleteGroup(o)
  PROVE  RegistryInv'
<1> DEFINE g == op[o].group
           ids == [n \in Names |-> IF groups.id[n] = g THEN 0 ELSE groups.id[n]]
<1>1. /\ groups' = [id |-> ids, member |-> groups.member \ {g}]
      /\ op' = [op EXCEPT ![o] = Free] /\ client' = client /\ scenario' = scenario /\ reglog' = reglog
  BY DEF DeleteGroup, groupsDelete
<1>2. groups \in [id : [Names -> Nat], member : SUBSET Nat] /\ groups.member \subseteq GroupIds
  BY GroupIdFacts
<1>3. ids \in [Names -> Nat]
  BY <1>2
<1>4. {ids[n] : n \in Names} \ {0} = GroupIds \ {g}
  <2>1. \A n \in Names : ids[n] # 0 => groups.id[n] = ids[n] /\ ids[n] # g
    BY <1>2
  <2>2. \A n \in Names : groups.id[n] # g => ids[n] = groups.id[n]
    BY <1>2
  <2> QED BY <2>1, <2>2 DEF GroupIds
<1> HIDE DEF ids
<1>5. /\ groups' \in [id : [Names -> Nat], member : SUBSET Nat]
      /\ groups'.id = ids /\ groups'.member = groups.member \ {g}
  BY <1>1, <1>2, <1>3
<1> HIDE DEF g
<1>6. GroupIds' = GroupIds \ {g}
  BY <1>4, <1>5 DEF GroupIds
<1> QED BY <1>1, <1>2, <1>5, <1>6, GroupsShrunk

\* A step of the group form that changes no group.
LEMMA FormStepKept ==
  ASSUME RegistryInv, NEW o \in Operators, NEW r \in OpT, OpMoves(o, r),
         client' = client, groups' = groups, scenario' = scenario, reglog' \in {reglog, Began},
         r.pc # "save", Memberships(o)'
  PROVE  RegistryInv'
<1> USE DEF RegistryInv
<1>1. /\ reglog' \in ReglogT /\ reglog'.secrets = reglog.secrets /\ reglog'.groups = reglog.groups
      /\ reglog'.dead = reglog.dead /\ reglog'.held = reglog.held
  BY BeganFacts DEF RegistryShapes
<1>2. RegistryShapes'
  BY <1>1 DEF RegistryShapes, OpMoves
<1>3. GroupIds' = GroupIds
  BY DEF GroupIds
<1>4. SecretsSame
  BY <1>1 DEF SecretsSame, OpMoves
<1>5. GroupNumbers'
  BY <1>1, <1>3 DEF GroupNumbers
<1>6. ASSUME NEW q \in Operators, q # o PROVE Memberships(q)'
  <2>1. op'[q] = op[q] /\ Memberships(q)
    BY <1>6 DEF OpMoves
  <2> QED BY <2>1, <1>1, <1>3 DEF Memberships
<1> QED BY <1>2, <1>4, <1>5, <1>6, SecretsStay

\* SetUserGroups: the form comes in with groups that there are.
LEMMA SetGroupsKept ==
  ASSUME RegistryInv, NEW o \in Operators, NEW w \in SUBSET GroupIds, SetUserGroups(o, w)
  PROVE  RegistryInv'
<1> DEFINE r == [Free EXCEPT !.pc = "list", !.wanted = w]
<1>1. /\ op' = [op EXCEPT ![o] = r] /\ reglog' = Began
      /\ client' = client /\ groups' = groups /\ scenario' = scenario
  BY DEF SetUserGroups
<1>2. Free \in OpT /\ w \in SUBSET Nat
  BY FreeType, GroupIdFacts DEF RegistryInv, RegistryShapes
<1>3. r \in OpT
  BY <1>2 DEF OpT, OpPcs
<1>4. r.pc = "list" /\ r.wanted = w
  BY DEF Free
<1> HIDE DEF r
<1>5. OpMoves(o, r)
  BY <1>1, <1>3, OpMoved DEF RegistryInv, RegistryShapes
<1>6. reglog'.groups = reglog.groups
  BY <1>1, BeganFacts DEF RegistryInv
<1>7. Memberships(o)'
  BY <1>4, <1>5, <1>6, GroupIdFacts DEF Memberships, OpMoves
<1>8. r.pc # "save"
  BY <1>4
<1> QED BY <1>1, <1>3, <1>5, <1>7, <1>8, FormStepKept

\* ListGroups: every group there is, is on the list.
LEMMA ListGroupsKept ==
  ASSUME RegistryInv, NEW o \in Operators, ListGroups(o)
  PROVE  RegistryInv'
<1> DEFINE r == [op[o] EXCEPT !.pc = "mine", !.all = GroupIds]
<1>1. /\ op[o].pc = "list" /\ op' = [op EXCEPT ![o].pc = "mine", ![o].all = GroupIds]
      /\ client' = client /\ groups' = groups /\ scenario' = scenario /\ reglog' = reglog
  BY DEF ListGroups
<1>2. op \in [Operators -> OpT] /\ op[o] \in OpT /\ GroupIds \in SUBSET Nat /\ Memberships(o)
  BY GroupIdFacts DEF RegistryInv, RegistryShapes
<1>3. r \in OpT
  BY <1>2 DEF OpT, OpPcs
<1>4. r.pc = "mine" /\ r.wanted = op[o].wanted /\ r.all = GroupIds
  BY <1>2 DEF OpT
<1>5. op' = [op EXCEPT ![o] = r]
  BY <1>1, <1>2
<1> HIDE DEF r
<1>6. OpMoves(o, r)
  BY <1>2, <1>3, <1>5, OpMoved
<1>7. GroupIds' = GroupIds
  BY <1>1 DEF GroupIds
<1>8. Memberships(o)'
  BY <1>1, <1>2, <1>4, <1>6, <1>7 DEF Memberships, OpMoves
<1>9. r.pc # "save"
  BY <1>4
<1> QED BY <1>1, <1>3, <1>6, <1>8, <1>9, FormStepKept

\* GroupsForUser: a group that is not to be changed is as it was checked.
LEMMA ListMembershipsKept ==
  ASSUME RegistryInv, NEW o \in Operators, ListMemberships(o)
  PROVE  RegistryInv'
<1> DEFINE todo == groupMemberships(op[o].all, GroupsForUser, op[o].wanted)
           r == [op[o] EXCEPT !.pc = "apply", !.todo = todo]
<1>1. /\ op[o].pc = "mine" /\ op' = [op EXCEPT ![o].pc = "apply", ![o].todo = todo]
      /\ client' = client /\ groups' = groups /\ scenario' = scenario /\ reglog' = reglog
  BY DEF ListMemberships
<1>2. op \in [Operators -> OpT] /\ op[o] \in OpT /\ Memberships(o)
  BY DEF RegistryInv, RegistryShapes
<1>3. todo \in SUBSET Nat
  BY <1>2 DEF OpT, groupMemberships
<1>4. \A g \in op[o].all : g \notin todo => (g \in groups.member <=> g \in op[o].wanted)
  BY DEF groupMemberships, GroupsForUser
<1> HIDE DEF todo
<1>5. r \in OpT
  BY <1>2, <1>3 DEF OpT, OpPcs
<1>6. r.pc = "apply" /\ r.wanted = op[o].wanted /\ r.todo = todo /\ r.touched = op[o].touched
  BY <1>2 DEF OpT
<1>7. op' = [op EXCEPT ![o] = r]
  BY <1>1, <1>2
<1> HIDE DEF r
<1>8. OpMoves(o, r)
  BY <1>2, <1>5, <1>7, OpMoved
<1>9. GroupIds' = GroupIds
  BY <1>1 DEF GroupIds
<1>10. Memberships(o)'
  <2>1. /\ \A g \in op[o].wanted : g <= reglog.groups
        /\ \A g \in GroupIds : g \notin op[o].all /\ g \notin op[o].touched =>
              g \notin groups.member /\ g \notin op[o].wanted
    BY <1>1, <1>2 DEF Memberships
  <2> QED BY <2>1, <1>1, <1>4, <1>6, <1>8, <1>9 DEF Memberships, OpMoves
<1>11. r.pc # "save"
  BY <1>6
<1> QED BY <1>1, <1>5, <1>8, <1>10, <1>11, FormStepKept

\* The group form is answered.
LEMMA GroupsUpdatedKept ==
  ASSUME RegistryInv, NEW o \in Operators, GroupsUpdated(o)
  PROVE  RegistryInv'
<1>1. /\ op' = [op EXCEPT ![o] = Free]
      /\ client' = client /\ groups' = groups /\ scenario' = scenario /\ reglog' = reglog
  BY DEF GroupsUpdated
<1>2. Free \in OpT /\ Free.pc = "free"
  BY FreeType DEF RegistryInv, RegistryShapes
<1>3. OpMoves(o, Free)
  BY <1>1, <1>2, OpMoved DEF RegistryInv, RegistryShapes
<1>4. Free.pc # "save" /\ Free.pc \notin {"list", "mine", "apply"}
  BY <1>2
<1> QED BY <1>1, <1>2, <1>3, <1>4, GroupOpKept

\* Every step of the registry keeps its invariant.
LEMMA RegistryNextKept ==
  ASSUME RegistryInv, RegistryNext
  PROVE  RegistryInv'
<1>1. PICK o \in Operators :
        \/ \E f \in Forms : UpdateClient(o, f) \/ CreateClient(o, f)
        \/ RegenerateClientSecret(o)
        \/ authenticateClient(o)
        \/ SaveClient(o)
        \/ \E n \in Names : CreateGroup(o, n) \/ UpdateGroup(o, n)
        \/ \E g \in GroupIds, k \in {"rename", "add", "remove", "delete"} : LoadGroup(o, k, g)
        \/ AddGroupMember(o)
        \/ RemoveGroupMember(o)
        \/ DeleteGroup(o)
        \/ \E w \in SUBSET GroupIds : SetUserGroups(o, w)
        \/ ListGroups(o)
        \/ ListMemberships(o)
        \/ \E g \in op[o].todo : ChangeMembership(o, g)
        \/ GroupsUpdated(o)
  BY Zenon DEF RegistryNext
<1> QED BY Zenon, <1>1, UpdateClientKept, CreateKept, RegenerateKept, AuthenticateKept, SaveKept,
           CreateGroupKept, RenameKept, LoadGroupKept, MemberKept, DeleteGroupKept, SetGroupsKept,
           ListGroupsKept, ListMembershipsKept, ChangeKept, GroupsUpdatedKept

-----------------------------------------------------------------------------
(* How one tab moves *)

\* What a request asks for keeps its shape, and so does what the login page
\* returns to, which asks for no fresh login.
LEMMA ParamsTypes ==
  /\ \A s \in Scenarios : s.params \subseteq ParamsT
  /\ NoParams \in ParamsT
  /\ \A p \in ParamsT :
        /\ withoutPrompt(p) \in ParamsT
        /\ withoutPrompt(p).prompt \cap Fresh = {}
        /\ withoutPrompt(p).maxAge = -1
        /\ withoutPrompt(withoutPrompt(p)) = withoutPrompt(p)
<1>1. Params \subseteq ParamsT
  BY DEF Params, ParamsT
<1>2. NoParams \in ParamsT
  BY DEF NoParams, ParamsT, NoMaxAge
<1>3. ASSUME NEW p \in ParamsT
      PROVE  /\ withoutPrompt(p) \in ParamsT
             /\ withoutPrompt(p).prompt \cap Fresh = {}
             /\ withoutPrompt(p).maxAge = -1
             /\ withoutPrompt(withoutPrompt(p)) = withoutPrompt(p)
  <2> DEFINE q == withoutPrompt(p)
  <2>1. q \in ParamsT
    <3>1. p.prompt \ Fresh \in SUBSET STRING
      BY DEF ParamsT
    <3>2. NoMaxAge \in Int
      BY DEF NoMaxAge
    <3> QED BY <3>1, <3>2 DEF withoutPrompt, ParamsT
  <2>2. q.prompt = p.prompt \ Fresh
    BY DEF withoutPrompt, ParamsT
  <2>3. q.maxAge = -1
    BY DEF withoutPrompt, ParamsT, NoMaxAge
  <2> HIDE DEF q
  <2>4. withoutPrompt(q) = q
    <3>1. q.prompt \ Fresh = q.prompt
      BY <2>2
    <3>2. withoutPrompt(q) = [q EXCEPT !.prompt = q.prompt, !.maxAge = q.maxAge]
      BY <3>1, <2>1, <2>3 DEF withoutPrompt, NoMaxAge
    <3>3. [q EXCEPT !.prompt = q.prompt, !.maxAge = q.maxAge] = q
      BY <2>1 DEF ParamsT
    <3> QED BY <3>2, <3>3
  <2> QED BY <2>1, <2>2, <2>3, <2>4 DEF q
<1> QED BY <1>1, <1>2, <1>3, ScenariosAssumption

\* The pages, by name.
LEMMA Pages ==
  /\ Validated \subseteq Asking /\ Asking \subseteq TabPcs
  /\ {"blank", "account", "list", "revoke", "postlogout"} \subseteq TabPcs
  /\ {"blank", "account", "list", "revoke", "postlogout"} \cap Asking = {}
BY DEF TabPcs, Asking, Validated

\* A tab that shows nothing.
LEMMA BlankTab == Blank \in TabT
<1>1. NoParams \in ParamsT /\ 0 \in 0..MaxSessions /\ "blank" \in TabPcs
  BY ParamsTypes, Bounds, Pages
<1> QED BY <1>1 DEF Blank, TabT

\* An answered tab.
LEMMA BlankType ==
  ASSUME NEW out \in {"redirect", "page"}
  PROVE  LET k == [Blank EXCEPT !.out = out]
         IN k \in TabT /\ k.pc = "blank" /\ k.out = out /\ k.id = 0 /\ k.had = {} /\ k.start = 0 /\ k.from = 0
<1>1. [Blank EXCEPT !.out = out] \in TabT
  BY BlankTab DEF TabT
<1> QED BY <1>1 DEF Blank

\* A tab that has sent a request.
LEMMA SentType ==
  ASSUME TabShapes, client \in Client, NEW t \in Tabs, NEW pc \in TabPcs, NEW p \in ParamsT,
         NEW cookie \in 0..MaxSessions
  PROVE  LET k == Sent(t, pc, p, cookie)
         IN /\ k \in TabT
            /\ k.pc = pc /\ k.p = p /\ k.cookie = cookie /\ k.from = now /\ k.rows = {client}
            /\ k.allowed = log.allowed /\ k.raced = log.raced /\ k.kept = tab[t].kept
            /\ k.id = tab[t].id /\ k.had = tab[t].had /\ k.asked = tab[t].asked /\ k.start = tab[t].start
<1> DEFINE k == Sent(t, pc, p, cookie)
<1>1. tab[t] \in TabT /\ now \in Nat /\ log \in LogT
  BY DEF TabShapes
<1>2. log.allowed \in SUBSET STRING /\ log.raced \in SUBSET STRING
  BY <1>1 DEF LogT
<1>3. k \in TabT
  BY <1>1, <1>2 DEF Sent, TabT
<1>4. /\ k.pc = pc /\ k.p = p /\ k.cookie = cookie /\ k.from = now /\ k.rows = {client}
      /\ k.allowed = log.allowed /\ k.raced = log.raced /\ k.kept = tab[t].kept
  BY <1>1 DEF Sent, TabT
<1>5. k.id = tab[t].id /\ k.had = tab[t].had /\ k.asked = tab[t].asked /\ k.start = tab[t].start
  BY <1>1 DEF Sent, TabT
<1> QED BY <1>3, <1>4, <1>5

\* Tab t moves and the others stay.
Alone(t) ==
    /\ tab' \in [Tabs -> TabT]
    /\ \A u \in Tabs : u # t => tab'[u] = tab[u]

\* How EXCEPT moves one tab.
LEMMA Moved ==
  ASSUME TabShapes, NEW t \in Tabs, NEW k \in TabT, tab' = [tab EXCEPT ![t] = k]
  PROVE  Alone(t) /\ tab'[t] = k
BY DEF TabShapes, Alone

\* The tab gets its answer.
Ends(t) ==
    /\ Alone(t)
    /\ tab'[t].pc = "blank" /\ tab'[t].id = 0 /\ tab'[t].had = {}
    /\ tab'[t].start = 0 /\ tab'[t].from = 0

\* Answer gives the tab its answer.
LEMMA AnswerEnds ==
  ASSUME TabShapes, NEW t \in Tabs, NEW out \in {"redirect", "page"}, Answer(t, out)
  PROVE  Ends(t) /\ tab'[t].out = out
<1> DEFINE k == [Blank EXCEPT !.out = out]
<1>1. /\ k \in TabT /\ k.pc = "blank" /\ k.id = 0 /\ k.had = {} /\ k.start = 0 /\ k.from = 0
      /\ k.out = out
  BY BlankType
<1>2. tab' = [tab EXCEPT ![t] = k]
  BY DEF Answer
<1> HIDE DEF k
<1> QED BY <1>1, <1>2, Moved DEF Ends

\* The tab sends its next request.
Sends(t, pc, p, cookie) ==
    /\ Alone(t)
    /\ tab'[t].pc = pc /\ tab'[t].p = p /\ tab'[t].cookie = cookie /\ tab'[t].from = now
    /\ tab'[t].rows = {client} /\ tab'[t].allowed = log.allowed /\ tab'[t].raced = log.raced
    /\ tab'[t].id = tab[t].id /\ tab'[t].had = tab[t].had
    /\ tab'[t].asked = tab[t].asked /\ tab'[t].start = tab[t].start

\* Send, from the page the tab is on.
LEMMA SentSends ==
  ASSUME TabShapes, client \in Client, NEW t \in Tabs, NEW pc \in TabPcs, NEW p \in ParamsT,
         NEW cookie \in 0..MaxSessions, tab' = [tab EXCEPT ![t] = Sent(t, pc, p, cookie)]
  PROVE  Sends(t, pc, p, cookie) /\ tab'[t].kept = tab[t].kept
<1> DEFINE k == Sent(t, pc, p, cookie)
<1>1. /\ k \in TabT
      /\ k.pc = pc /\ k.p = p /\ k.cookie = cookie /\ k.from = now /\ k.rows = {client}
      /\ k.allowed = log.allowed /\ k.raced = log.raced /\ k.kept = tab[t].kept
      /\ k.id = tab[t].id /\ k.had = tab[t].had /\ k.asked = tab[t].asked /\ k.start = tab[t].start
  BY SentType
<1>2. tab' = [tab EXCEPT ![t] = k]
  OBVIOUS
<1> HIDE DEF k
<1>3. Alone(t) /\ tab'[t] = k
  BY <1>1, <1>2, Moved
<1> QED BY <1>1, <1>3 DEF Sends

\* The same, where the request also says whether a session was left in place.
LEMMA KeptSends ==
  ASSUME TabShapes, client \in Client, NEW t \in Tabs, NEW pc \in TabPcs, NEW p \in ParamsT,
         NEW cookie \in 0..MaxSessions, NEW b \in BOOLEAN,
         tab' = [tab EXCEPT ![t] = [Sent(t, pc, p, cookie) EXCEPT !.kept = b]]
  PROVE  Sends(t, pc, p, cookie) /\ tab'[t].kept = b
<1> DEFINE k == Sent(t, pc, p, cookie)
           m == [k EXCEPT !.kept = b]
<1>1. /\ k \in TabT
      /\ k.pc = pc /\ k.p = p /\ k.cookie = cookie /\ k.from = now /\ k.rows = {client}
      /\ k.allowed = log.allowed /\ k.raced = log.raced
      /\ k.id = tab[t].id /\ k.had = tab[t].had /\ k.asked = tab[t].asked /\ k.start = tab[t].start
  BY SentType
<1>2. tab' = [tab EXCEPT ![t] = m]
  OBVIOUS
<1> HIDE DEF k
<1>3. m \in TabT
  BY <1>1 DEF TabT
<1>4. /\ m.pc = k.pc /\ m.p = k.p /\ m.cookie = k.cookie /\ m.from = k.from /\ m.rows = k.rows
      /\ m.allowed = k.allowed /\ m.raced = k.raced /\ m.kept = b
      /\ m.had = k.had /\ m.id = k.id /\ m.asked = k.asked /\ m.start = k.start
  BY <1>1 DEF TabT
<1> HIDE DEF m
<1>5. Alone(t) /\ tab'[t] = m
  BY <1>2, <1>3, Moved
<1> QED BY <1>1, <1>4, <1>5 DEF Sends

\* The tab's first request.
Opens(t, pc, p, id, cookie) ==
    /\ Alone(t)
    /\ tab'[t].pc = pc /\ tab'[t].p = p /\ tab'[t].cookie = cookie
    /\ tab'[t].from = now /\ tab'[t].start = now /\ tab'[t].asked = p
    /\ tab'[t].rows = {client} /\ tab'[t].allowed = log.allowed /\ tab'[t].raced = log.raced
    /\ tab'[t].id = id /\ tab'[t].had = tab[t].had

\* Opened, with the next id.
LEMMA OpenedOpens ==
  ASSUME TabShapes, client \in Client, NEW t \in Tabs, NEW pc \in TabPcs, NEW p \in ParamsT,
         NEW cookie \in 0..MaxSessions, NEW id \in Nat,
         tab' = [tab EXCEPT ![t] = [Sent(t, pc, p, cookie) EXCEPT !.id = id, !.asked = p, !.start = now]]
  PROVE  Opens(t, pc, p, id, cookie)
<1> DEFINE k == Sent(t, pc, p, cookie)
           m == [k EXCEPT !.id = id, !.asked = p, !.start = now]
<1>1. /\ k \in TabT
      /\ k.pc = pc /\ k.p = p /\ k.cookie = cookie /\ k.from = now /\ k.rows = {client}
      /\ k.allowed = log.allowed /\ k.raced = log.raced /\ k.had = tab[t].had
  BY SentType
<1>2. tab' = [tab EXCEPT ![t] = m]
  OBVIOUS
<1>3. now \in Nat
  BY DEF TabShapes
<1> HIDE DEF k
<1>4. m \in TabT
  BY <1>1, <1>3 DEF TabT
<1>5. /\ m.pc = k.pc /\ m.p = k.p /\ m.cookie = k.cookie /\ m.from = k.from /\ m.rows = k.rows
      /\ m.allowed = k.allowed /\ m.raced = k.raced /\ m.kept = k.kept /\ m.had = k.had /\ m.id = id /\ m.asked = p /\ m.start = now
  BY <1>1 DEF TabT
<1> HIDE DEF m
<1>6. Alone(t) /\ tab'[t] = m
  BY <1>2, <1>4, Moved
<1> QED BY <1>1, <1>5, <1>6 DEF Opens

\* The request goes on: what was asked and its history stay.
Steps(t, pc) ==
    /\ Alone(t)
    /\ tab'[t].pc = pc
    /\ tab'[t].p = tab[t].p /\ tab'[t].from = tab[t].from
    /\ tab'[t].rows = tab[t].rows /\ tab'[t].allowed = tab[t].allowed
    /\ tab'[t].raced = tab[t].raced /\ tab'[t].kept = tab[t].kept
    /\ tab'[t].id = tab[t].id
    /\ tab'[t].asked = tab[t].asked /\ tab'[t].start = tab[t].start

-----------------------------------------------------------------------------
(* What keeps each part of the invariant *)

\* A tab keeps its id, ends, or is opened under the next one.
IdKept(u) ==
    \/ tab'[u].id = tab[u].id /\ (tab'[u].pc \in {"blank", "postlogout"} <=> tab[u].pc \in {"blank", "postlogout"})
    \/ tab'[u].id = 0 /\ tab'[u].pc \in {"blank", "postlogout"}
    \/ /\ tab'[u].id = log.flows + 1 /\ tab'[u].pc \notin {"blank", "postlogout"}
       /\ log'.flows = log.flows + 1
       /\ \A v \in Tabs : v # u => tab'[v] = tab[v]

Used == db.codes \cup db.tokens \cup Seen

\* No id appears in a second place.
LEMMA IssuedKept ==
  ASSUME TabShapes, Issued, tab' \in [Tabs -> TabT], \A u \in Tabs : IdKept(u),
         log'.flows \in Nat, log'.flows >= log.flows, Used' \subseteq Used,
         db'.codes \cap (db'.tokens \cup Seen') = {}
  PROVE  Issued'
<1>1. /\ log.flows \in Nat /\ \A u \in Tabs : tab[u].id \in Nat /\ tab'[u].id \in Nat
  BY DEF TabShapes, LogT, TabT
<1>2. /\ \A x \in Used : x \in Nat /\ x <= log.flows
      /\ \A u \in Tabs : tab[u].id <= log.flows
      /\ \A u \in Tabs : tab[u].pc \in {"blank", "postlogout"} <=> tab[u].id = 0
      /\ \A u \in Tabs : tab[u].id # 0 => tab[u].id \notin Used
      /\ \A u, v \in Tabs : tab[u].id # 0 /\ tab[u].id = tab[v].id => u = v
  <2>1. \A x \in Used : x \in Nat
    <3>1. db.codes \subseteq Nat /\ db.tokens \subseteq Nat /\ log.cut \subseteq Nat
      BY DEF TabShapes, DbT, LogT
    <3>2. \A u \in Tabs : tab[u].had \subseteq Nat
      BY DEF TabShapes, TabT
    <3> QED BY <3>1, <3>2 DEF Used, Seen
  <2> QED BY <2>1 DEF Issued, Used
<1>3. \A x \in Used' : x \in Nat /\ x <= log.flows /\ x \in Used
  BY <1>2
<1>4. \A u \in Tabs : tab'[u].id <= log'.flows
  BY <1>1, <1>2 DEF IdKept
<1>5. \A u \in Tabs : tab'[u].pc \in {"blank", "postlogout"} <=> tab'[u].id = 0
  BY <1>1, <1>2 DEF IdKept
<1>6. \A u \in Tabs : tab'[u].id # 0 => tab'[u].id \notin Used'
  BY <1>1, <1>2, <1>3 DEF IdKept
<1>7. \A u, v \in Tabs : tab'[u].id # 0 /\ tab'[u].id = tab'[v].id => u = v
  <2> SUFFICES ASSUME NEW u \in Tabs, NEW v \in Tabs, tab'[u].id # 0, tab'[u].id = tab'[v].id, u # v
               PROVE  FALSE
    OBVIOUS
  <2>1. /\ tab'[u].id = tab[u].id \/ tab'[u].id = log.flows + 1
        /\ tab'[v].id = tab[v].id \/ tab'[v].id = log.flows + 1
    BY DEF IdKept
  <2>2. tab'[u].id = log.flows + 1 /\ tab[u].id # tab'[u].id => tab'[v] = tab[v]
    BY <1>1 DEF IdKept
  <2>3. tab'[v].id = log.flows + 1 /\ tab[v].id # tab'[v].id => tab'[u] = tab[u]
    BY <1>1 DEF IdKept
  <2> QED BY <1>1, <1>2, <2>1, <2>2, <2>3
<1>8. \A x \in Used' : x <= log'.flows
  BY <1>1, <1>3
<1> QED BY <1>4, <1>5, <1>6, <1>7, <1>8 DEF Issued, Used

\* What a session was, it is at most: sessions end, the account is disabled and
\* the browser forgets its cookie.
Fewer ==
    /\ db'.sessions \subseteq db.sessions
    /\ browser'.cookie \in {browser.cookie, 0}

\* A session that has not expired had not expired before.
LEMMA Expiry ==
  ASSUME TabShapes, now' \in Nat, now' >= now, NEW s \in db.sessions, ~IsExpired(s)'
  PROVE  ~IsExpired(s)
<1>1. s.at \in Nat /\ now \in Nat
  BY DEF TabShapes, DbT, SessionT
<1>2. now' <= s.at + SessionTTL
  BY <1>1, Bounds DEF IsExpired
<1> QED BY <1>1, <1>2, Bounds DEF IsExpired

\* A tab that stays as it is keeps its relation to the sessions.
LEMMA SignedStay ==
  ASSUME TabShapes, NEW u \in Tabs, Signed(tab[u]), Fewer, now' \in Nat, now' >= now,
         tab'[u].pc = tab[u].pc, tab'[u].p = tab[u].p, tab'[u].cookie = tab[u].cookie,
         tab'[u].asked = tab[u].asked, tab'[u].start = tab[u].start, tab'[u].from = tab[u].from,
         tab'[u].at = tab[u].at, tab'[u].kept = tab[u].kept
  PROVE  Signed(tab[u])'
<1>1. \A s \in db'.sessions : s \in db.sessions /\ s.id # 0
  BY DEF Fewer, TabShapes, DbT, SessionT
<1>2. \A s \in db'.sessions : s.id = browser'.cookie => s.id = browser.cookie
  BY <1>1 DEF Fewer
<1>3. ASSUME NEW s \in db'.sessions, s.id = tab[u].cookie, After(tab[u], s)
      PROVE  After(tab[u], s)'
  <2>1. ~IsExpired(s)' => ~IsExpired(s)
    BY <1>1, Expiry
  <2> QED BY <1>3, <2>1 DEF After, Fewer
<1>4. SignedIn(tab[u]) => SignedIn(tab[u])'
  BY DEF SignedIn
<1>5. tab[u].pc \in Asking =>
          /\ \A s \in db'.sessions : s.id = browser'.cookie => s.id = tab'[u].cookie \/ s.at >= tab'[u].start
          /\ \/ tab'[u].p = tab'[u].asked
             \/ /\ tab'[u].p = withoutPrompt(tab'[u].asked)
                /\ tab'[u].kept \/ \A s \in db'.sessions : s.id = tab'[u].cookie => After(tab[u], s)'
  BY <1>1, <1>2, <1>3 DEF Signed
<1> QED BY <1>4, <1>5 DEF Signed, withoutPrompt

\* A step of tab t in which only sessions, cookies and flows move besides it.
Quiet ==
    /\ db' \in DbT /\ browser' \in BrowserT /\ log' \in LogT
    /\ client' = client /\ now' = now
    /\ db'.consent = db.consent /\ db'.codes = db.codes /\ db'.tokens = db.tokens
    /\ log'.allowed = log.allowed /\ log'.raced = log.raced /\ log'.cut = log.cut
    /\ log'.flows \in {log.flows, log.flows + 1}
    /\ Fewer

\* Such a step keeps the invariant if tab t does.
LEMMA QuietKept ==
  ASSUME TabInv, NEW t \in Tabs, Quiet, Alone(t), IdKept(t), tab'[t].had \subseteq tab[t].had,
         tab'[t].from <= now, tab'[t].start <= tab'[t].from,
         Registered(tab[t], client)', Allowed(tab[t], log.allowed \cup log.raced)', Signed(tab[t])',
         tab'[t].pc = "upsert" => tab'[t].merged = db.consent \cup tab'[t].p.scopes,
         tab'[t].pc = "revoke" /\ ~tab'[t].failed => tab'[t].had \cap db.tokens \subseteq tab'[t].listed
  PROVE  TabInv'
<1> USE DEF TabInv
<1>1. TabShapes'
  BY DEF TabShapes, Quiet, Alone
<1>2. Times'
  <2>1. db'.sessions \subseteq db.sessions /\ now' = now
    BY DEF Quiet, Fewer
  <2>2. \A u \in Tabs : tab'[u].from <= now /\ tab'[u].start <= tab'[u].from
    BY DEF Times, Alone
  <2> QED BY <2>1, <2>2 DEF Times
<1>3. Merged'
  <2>1. db'.consent = db.consent /\ log'.allowed = log.allowed /\ log'.raced = log.raced
    BY DEF Quiet
  <2>2. ConsentAsAllowed'
    BY <2>1 DEF Merged, ConsentAsAllowed, Differ
  <2>3. \A u \in Tabs : tab'[u].pc = "upsert" /\ ~tab'[u].stale =>
          tab'[u].merged = db'.consent \cup tab'[u].p.scopes
    BY <2>1 DEF Merged, Alone
  <2> QED BY <2>2, <2>3 DEF Merged
<1>4. Seen' \subseteq Seen
  BY DEF Seen, Quiet, Alone
<1>5. Issued'
  <2>1. \A u \in Tabs : IdKept(u)
    BY DEF Alone, IdKept
  <2>2. log'.flows \in Nat /\ log'.flows >= log.flows
    BY DEF Quiet, TabShapes, LogT
  <2>3. Used' \subseteq Used
    BY <1>4 DEF Used, Quiet
  <2>4. db'.codes \cap (db'.tokens \cup Seen') = {}
    BY <1>4 DEF Quiet, Issued
  <2> QED BY <2>1, <2>2, <2>3, <2>4, IssuedKept DEF Alone
<1>6. Listed'
  <2>1. db'.tokens = db.tokens /\ log'.cut = log.cut
    BY DEF Quiet
  <2> QED BY <2>1 DEF Listed, WithdrawnAccessEnds, Alone
<1>7. ASSUME NEW u \in Tabs
      PROVE  Registered(tab[u], client)' /\ Allowed(tab[u], log.allowed \cup log.raced)' /\ Signed(tab[u])'
  <2>1. CASE u = t
    BY <2>1
  <2>2. CASE u # t
    <3>1. tab'[u] = tab[u]
      BY <2>2 DEF Alone
    <3>2. Registered(tab[u], client)'
      BY <3>1 DEF Registered, Quiet, Fits
    <3>3. Allowed(tab[u], log.allowed \cup log.raced)'
      BY <3>1 DEF Allowed, Quiet
    <3>4. Signed(tab[u])'
      <4>1. now' \in Nat /\ now' >= now
        BY DEF TabShapes, Quiet
      <4> QED BY <3>1, <4>1, SignedStay DEF Quiet
    <3> QED BY <3>2, <3>3, <3>4
  <2> QED BY <2>1, <2>2
<1> QED BY <1>1, <1>2, <1>3, <1>5, <1>6, <1>7

-----------------------------------------------------------------------------
(* Quiet steps, by what the tab does *)

\* A tab that gets its answer has nothing left to keep.
LEMMA EndKept ==
  ASSUME TabInv, NEW t \in Tabs, Quiet, Ends(t)
  PROVE  TabInv'
<1>1. tab'[t].pc \notin Asking /\ tab'[t].pc \notin Validated
  BY DEF Ends, Asking, Validated
<1>2. Registered(tab[t], client)' /\ Allowed(tab[t], log.allowed \cup log.raced)' /\ Signed(tab[t])'
  BY <1>1 DEF Ends, Registered, Allowed, Signed
<1>3. IdKept(t) /\ tab'[t].had \subseteq tab[t].had
  BY DEF Ends, IdKept
<1>4. tab'[t].from <= now /\ tab'[t].start <= tab'[t].from
  BY DEF Ends, TabInv, TabShapes
<1> QED BY <1>2, <1>3, <1>4, QuietKept DEF Ends

\* A tab that sends a request is in step with the client row and the consent.
LEMMA SendKept ==
  ASSUME TabInv, NEW t \in Tabs, Quiet, NEW pc \in {"validate", "revalidate", "login"}, NEW p, NEW cookie,
         Sends(t, pc, p, cookie), tab[t].pc \in Asking, Signed(tab[t])'
  PROVE  TabInv'
<1>1. tab'[t].pc \notin Validated /\ tab'[t].pc # "blank"
  BY DEF Sends, Validated
<1>2. Registered(tab[t], client)'
  BY <1>1 DEF Sends, Registered, Quiet
<1>3. Allowed(tab[t], log.allowed \cup log.raced)'
  BY <1>1 DEF Sends, Allowed, Quiet
<1>4. IdKept(t) /\ tab'[t].had \subseteq tab[t].had
  <2>1. tab[t].pc \notin {"blank", "postlogout"} /\ tab'[t].pc \notin {"blank", "postlogout"}
    BY DEF Asking, Validated, Sends
  <2> QED BY <2>1 DEF Sends, IdKept
<1>5. tab'[t].from <= now /\ tab'[t].start <= tab'[t].from
  <2>1. tab[t].start \in Nat /\ tab[t].from \in Nat /\ now \in Nat
    BY DEF TabInv, TabShapes, TabT
  <2> QED BY <2>1 DEF Sends, TabInv, Times
<1>6. tab'[t].pc # "upsert" /\ tab'[t].pc # "revoke"
  BY DEF Sends
<1> QED BY <1>2, <1>3, <1>4, <1>5, <1>6, QuietKept DEF Sends

\* A tab that goes on keeps its rows and its allowed scopes.
LEMMA StepKept ==
  ASSUME TabInv, NEW t \in Tabs, Quiet, NEW pc \in TabPcs, Steps(t, pc), tab[t].pc \notin {"blank", "postlogout"},
         pc \notin {"blank", "postlogout"}, tab'[t].had \subseteq tab[t].had,
         pc \in Validated => tab[t].pc \in Validated \/ \E r \in tab[t].rows : Fits(r, tab[t].p),
         pc = "issue" => tab'[t].skip \/ tab[t].p.scopes \subseteq tab[t].allowed \cup tab[t].raced,
         Signed(tab[t])',
         pc = "upsert" => tab'[t].merged = db.consent \cup tab[t].p.scopes,
         pc = "revoke" /\ ~tab'[t].failed => tab'[t].had \cap db.tokens \subseteq tab'[t].listed
  PROVE  TabInv'
<1>1. Registered(tab[t], client)'
  <2>1. Registered(tab[t], client)
    BY DEF TabInv
  <2> QED BY <2>1 DEF Registered, Steps, Quiet
<1>2. Allowed(tab[t], log.allowed \cup log.raced)'
  <2>1. Allowed(tab[t], log.allowed \cup log.raced)
    BY DEF TabInv
  <2> QED BY <2>1 DEF Allowed, Steps, Quiet
<1>3. IdKept(t)
  BY DEF Steps, IdKept
<1>4. tab'[t].from <= now /\ tab'[t].start <= tab'[t].from
  BY DEF Steps, TabInv, Times
<1> QED BY <1>1, <1>2, <1>3, <1>4, QuietKept DEF Steps

\* A tab that opens starts its history.
LEMMA OpenKept ==
  ASSUME TabInv, NEW t \in Tabs, Quiet, NEW pc \in {"validate", "account", "postlogout"}, NEW p, NEW id \in Nat,
         NEW cookie, Opens(t, pc, p, id, cookie),
         pc = "postlogout" => id = 0,
         pc # "postlogout" => id = log.flows + 1 /\ log'.flows = log.flows + 1,
         Signed(tab[t])'
  PROVE  TabInv'
<1>1. tab'[t].pc \notin Validated /\ tab'[t].pc # "blank"
  BY DEF Opens, Validated
<1>2. Registered(tab[t], client)'
  BY <1>1 DEF Opens, Registered, Quiet
<1>3. Allowed(tab[t], log.allowed \cup log.raced)'
  BY <1>1 DEF Opens, Allowed, Quiet
<1>4. IdKept(t) /\ tab'[t].had \subseteq tab[t].had
  BY DEF Opens, IdKept, Alone
<1>5. tab'[t].from <= now /\ tab'[t].start <= tab'[t].from
  BY DEF Opens, TabInv, TabShapes
<1>6. tab'[t].pc # "upsert" /\ tab'[t].pc # "revoke"
  BY DEF Opens
<1> QED BY <1>2, <1>3, <1>4, <1>5, <1>6, QuietKept DEF Opens

-----------------------------------------------------------------------------
(* GET /authorize keeps the invariant *)

\* Types of what a tab and the browser hold.
LEMMA TabFacts ==
  ASSUME AuthorizationInv, NEW t \in Tabs
  PROVE  /\ TabInv /\ TabShapes /\ RegistryInv /\ client \in Client
         /\ tab[t] \in TabT /\ tab[t].p \in ParamsT /\ tab[t].asked \in ParamsT
         /\ tab[t].cookie \in 0..MaxSessions /\ browser.cookie \in 0..MaxSessions
         /\ db \in DbT /\ browser \in BrowserT /\ log \in LogT /\ now \in Nat
         /\ log.flows \in Nat /\ 0 \in 0..MaxSessions
         /\ tab[t].at \in Nat /\ tab[t].start \in Nat /\ tab[t].from \in Nat
         /\ tab[t].start <= tab[t].from /\ tab[t].from <= now
         /\ Registered(tab[t], client) /\ Allowed(tab[t], log.allowed \cup log.raced) /\ Signed(tab[t])
         /\ \A s \in db.sessions : s.id # 0 /\ s.at \in Nat /\ s.at <= now
<1>1. TabInv /\ TabShapes /\ RegistryInv /\ client \in Client
  BY DEF AuthorizationInv, TabInv, RegistryInv, RegistryShapes
<1>2. tab[t] \in TabT /\ db \in DbT /\ browser \in BrowserT /\ log \in LogT /\ now \in Nat
  BY <1>1 DEF TabShapes
<1>3. /\ tab[t].p \in ParamsT /\ tab[t].asked \in ParamsT /\ tab[t].cookie \in 0..MaxSessions
      /\ tab[t].at \in Nat /\ tab[t].start \in Nat /\ tab[t].from \in Nat
  BY <1>2 DEF TabT
<1>4. browser.cookie \in 0..MaxSessions /\ log.flows \in Nat /\ 0 \in 0..MaxSessions
  BY <1>2, Bounds DEF BrowserT, LogT
<1>5. /\ tab[t].start <= tab[t].from /\ tab[t].from <= now
      /\ Registered(tab[t], client) /\ Allowed(tab[t], log.allowed \cup log.raced) /\ Signed(tab[t])
  BY <1>1 DEF TabInv, Times
<1>6. \A s \in db.sessions : s.id # 0 /\ s.at \in Nat /\ s.at <= now
  <2>1. \A s \in db.sessions : s \in SessionT
    BY <1>2 DEF DbT
  <2> QED BY <1>1, <2>1 DEF TabInv, Times, SessionT
<1> QED BY <1>1, <1>2, <1>3, <1>4, <1>5, <1>6

\* Nothing but the tab moves.
LEMMA StillQuiet ==
  ASSUME TabShapes, UNCHANGED <<db, browser, now, log, regvars, scenario>>
  PROVE  Quiet
BY DEF Quiet, Fewer, TabShapes, regvars, LogT

\* A form is given out: only the CSRF cookie moves.
LEMMA FormQuiet ==
  ASSUME TabShapes, NEW t \in Tabs
  PROVE  GenerateToken(t) \in BrowserT /\ GenerateToken(t).cookie = browser.cookie
BY DEF GenerateToken, BrowserT, TabShapes

\* Cookies are cleared.
LEMMA ClearQuiet ==
  ASSUME TabShapes
  PROVE  ClearedCookies \in BrowserT /\ ClearedCookies.cookie = 0
<1>1. browser \in BrowserT /\ 0 \in 0..MaxSessions
  BY Bounds DEF TabShapes
<1> QED BY <1>1 DEF ClearedCookies, BrowserT

\* Some sessions end.
LEMMA FewerSessions ==
  ASSUME TabShapes, NEW s \in SUBSET db.sessions
  PROVE  /\ [db EXCEPT !.sessions = s] \in DbT
         /\ [db EXCEPT !.sessions = s].sessions = s
         /\ [db EXCEPT !.sessions = s].consent = db.consent
         /\ [db EXCEPT !.sessions = s].codes = db.codes
         /\ [db EXCEPT !.sessions = s].tokens = db.tokens
         /\ [db EXCEPT !.sessions = s].active = db.active
<1>1. db \in DbT /\ s \in SUBSET SessionT
  BY DEF TabShapes, DbT
<1> QED BY <1>1 DEF DbT

\* GetSession and DeleteSession only end sessions.
LEMMA SessionOps ==
  ASSUME NEW c
  PROVE  AfterGet(c) \in SUBSET db.sessions /\ DeleteSession(c) \in SUBSET db.sessions
BY DEF AfterGet, DeleteSession

\* A step that ends some sessions, and may clear the cookies or give out a form.
LEMMA SessionsQuiet ==
  ASSUME TabShapes, NEW s \in SUBSET db.sessions, db' = [db EXCEPT !.sessions = s],
         browser' = browser \/ browser' = ClearedCookies \/ (\E t \in Tabs : browser' = GenerateToken(t)),
         log' \in LogT, log'.allowed = log.allowed, log'.raced = log.raced, log'.cut = log.cut,
         log'.flows \in {log.flows, log.flows + 1},
         UNCHANGED <<now, client>>
  PROVE  Quiet
<1>1. /\ db' \in DbT /\ db'.sessions = s /\ db'.consent = db.consent /\ db'.codes = db.codes
      /\ db'.tokens = db.tokens /\ db'.active = db.active
  BY FewerSessions
<1>2. browser' \in BrowserT /\ browser'.cookie \in {browser.cookie, 0}
  BY FormQuiet, ClearQuiet DEF TabShapes
<1> QED BY <1>1, <1>2 DEF Quiet, Fewer

\* Open counts the flow.
LEMMA OpenLog ==
  ASSUME TabShapes, NEW t \in Tabs, NEW k, Open(t, k)
  PROVE  /\ log' \in LogT /\ log'.allowed = log.allowed /\ log'.raced = log.raced /\ log'.cut = log.cut
         /\ log'.flows = log.flows + 1 /\ tab[t].pc = "blank"
<1>1. log \in LogT /\ log' = [log EXCEPT !.flows = @ + 1] /\ tab[t].pc = "blank"
  BY DEF TabShapes, Open
<1>2. log' \in LogT
  BY <1>1 DEF LogT
<1>3. log'.allowed = log.allowed /\ log'.raced = log.raced /\ log'.cut = log.cut /\ log'.flows = log.flows + 1
  BY <1>1 DEF LogT
<1> QED BY <1>1, <1>2, <1>3

\* A new authorization request.
LEMMA AuthorizeKept ==
  ASSUME AuthorizationInv, NEW t \in Tabs, NEW p \in scenario.params, Authorize(t, p)
  PROVE  TabInv'
<1>1. /\ Open(t, "authorize") /\ UNCHANGED <<db, browser, now, regvars, scenario>>
      /\ tab' = [tab EXCEPT ![t] = [Sent(t, "validate", p, browser.cookie)
                                      EXCEPT !.id = log.flows + 1, !.asked = p, !.start = now]]
  BY DEF Authorize, Opened
<1>2. p \in ParamsT
  BY ParamsTypes DEF AuthorizationInv, RegistryInv, RegistryShapes
<1>3. Opens(t, "validate", p, log.flows + 1, browser.cookie)
  <2>1. log.flows + 1 \in Nat /\ "validate" \in TabPcs
    BY TabFacts DEF TabPcs, Asking
  <2> QED BY <1>1, <1>2, <2>1, TabFacts, OpenedOpens
<1>4. Quiet /\ log'.flows = log.flows + 1
  BY <1>1, TabFacts, OpenLog DEF Quiet, Fewer, regvars
<1>5. Signed(tab[t])'
  <2>1. /\ tab'[t].pc = "validate" /\ tab'[t].p = tab'[t].asked /\ tab'[t].cookie = browser.cookie
        /\ browser' = browser
    BY <1>1, <1>3 DEF Opens
  <2> QED BY <2>1 DEF Signed
<1> QED BY <1>3, <1>4, <1>5, TabFacts, OpenKept

\* A request sent on with the cookie the browser has: if its prompt was
\* stripped, the sessions it can find are no older than the first request.
LEMMA SendSameSigned ==
  ASSUME AuthorizationInv, NEW t \in Tabs, Fewer, now' = now, browser'.cookie = browser.cookie,
         tab[t].pc \in Asking, NEW pc \in {"validate", "revalidate", "login"},
         Sends(t, pc, tab[t].p, browser.cookie), tab'[t].kept = tab[t].kept,
         pc = "revalidate" => tab[t].p.prompt \cap Fresh = {}
  PROVE  Signed(tab[t])'
<1>1. /\ \A s \in db.sessions : s.id = browser.cookie => s.id = tab[t].cookie \/ s.at >= tab[t].start
      /\ \/ tab[t].p = tab[t].asked
         \/ /\ tab[t].p = withoutPrompt(tab[t].asked)
            /\ tab[t].kept \/ \A s \in db.sessions : s.id = tab[t].cookie => After(tab[t], s)
  BY TabFacts DEF Signed
<1>2. /\ tab'[t].pc = pc /\ tab'[t].p = tab[t].p /\ tab'[t].cookie = browser.cookie
      /\ tab'[t].asked = tab[t].asked /\ tab'[t].start = tab[t].start
  BY DEF Sends
<1>3. ASSUME NEW s \in db'.sessions, s.id = browser.cookie, tab[t].p # tab[t].asked, ~tab[t].kept
      PROVE  After(tab[t], s)'
  <2>1. s \in db.sessions
    BY DEF Fewer
  <2>2. After(tab[t], s)
    BY <1>1, <1>3, <2>1 DEF After
  <2> QED BY <1>2, <2>2 DEF After, Fewer, IsExpired
<1>4. /\ \A s \in db'.sessions : s.id = browser'.cookie => s.id = tab'[t].cookie \/ s.at >= tab'[t].start
      /\ \/ tab'[t].p = tab'[t].asked
         \/ /\ tab'[t].p = withoutPrompt(tab'[t].asked)
            /\ tab'[t].kept \/ \A s \in db'.sessions : s.id = tab'[t].cookie => After(tab[t], s)'
  BY <1>1, <1>2, <1>3
<1>5. tab'[t].pc \notin {"granted", "consent", "resession", "grant", "upsert", "issue"}
  BY <1>2
<1> QED BY <1>2, <1>4, <1>5 DEF Signed, withoutPrompt

\* A request sent to the login page, with its prompt stripped.
LEMMA SendStrippedSigned ==
  ASSUME AuthorizationInv, NEW t \in Tabs, Fewer, now' = now, tab[t].pc \in Asking, NEW c, c = browser'.cookie,
         Sends(t, "login", withoutPrompt(tab[t].p), c),
         tab'[t].kept \/ \A s \in db'.sessions : s.id = c => After(tab[t], s)
  PROVE  Signed(tab[t])'
<1>1. withoutPrompt(tab[t].p) = withoutPrompt(tab[t].asked)
  BY TabFacts, ParamsTypes DEF Signed
<1>2. /\ tab'[t].pc = "login" /\ tab'[t].p = withoutPrompt(tab[t].p) /\ tab'[t].cookie = c
      /\ tab'[t].asked = tab[t].asked /\ tab'[t].start = tab[t].start
  BY DEF Sends
<1>3. ASSUME NEW s \in db'.sessions, s.id = c, ~tab'[t].kept
      PROVE  After(tab[t], s)'
  <2>1. After(tab[t], s)
    BY <1>3
  <2> QED BY <1>2, <2>1 DEF After, Fewer, IsExpired
<1>4. tab'[t].p = withoutPrompt(tab'[t].asked)
  BY <1>1, <1>2
<1>5. tab'[t].pc \notin {"granted", "consent", "revalidate", "resession", "grant", "upsert", "issue"}
  BY <1>2
<1> QED BY <1>2, <1>3, <1>4, <1>5 DEF Signed, withoutPrompt

\* A request that goes on with the cookie it has.
LEMMA StepSigned ==
  ASSUME AuthorizationInv, NEW t \in Tabs, Fewer, now' = now, tab[t].pc \in Asking, NEW pc \in Asking,
         Steps(t, pc), tab'[t].cookie = tab[t].cookie,
         pc \in {"granted", "consent", "revalidate", "resession", "grant", "upsert", "issue"} =>
             tab[t].p.prompt \cap Fresh = {},
         pc \in {"granted", "grant", "upsert", "issue"} => tab'[t].kept \/ SignedIn(tab[t])'
  PROVE  Signed(tab[t])'
<1>1. /\ \A s \in db.sessions : s.id = browser.cookie => s.id = tab[t].cookie \/ s.at >= tab[t].start
      /\ \/ tab[t].p = tab[t].asked
         \/ /\ tab[t].p = withoutPrompt(tab[t].asked)
            /\ tab[t].kept \/ \A s \in db.sessions : s.id = tab[t].cookie => After(tab[t], s)
  BY TabFacts DEF Signed
<1>2. /\ tab'[t].pc = pc /\ tab'[t].p = tab[t].p
      /\ tab'[t].asked = tab[t].asked /\ tab'[t].start = tab[t].start
  BY DEF Steps
<1>3. \A s \in db'.sessions : s \in db.sessions /\ s.id # 0
  BY TabFacts DEF Fewer
<1>4. ASSUME NEW s \in db'.sessions, After(tab[t], s)
      PROVE  After(tab[t], s)'
  BY <1>2, <1>4 DEF After, Fewer, IsExpired
<1>5. /\ \A s \in db'.sessions : s.id = browser'.cookie => s.id = tab'[t].cookie \/ s.at >= tab'[t].start
      /\ \/ tab'[t].p = tab'[t].asked
         \/ /\ tab'[t].p = withoutPrompt(tab'[t].asked)
            /\ tab'[t].kept \/ \A s \in db'.sessions : s.id = tab'[t].cookie => After(tab[t], s)'
  <2> HIDE DEF After
  <2>1. \A s \in db'.sessions : s.id = browser'.cookie => s.id = tab'[t].cookie \/ s.at >= tab'[t].start
    BY <1>1, <1>2, <1>3 DEF Fewer
  <2>2. (\A s \in db.sessions : s.id = tab[t].cookie => After(tab[t], s)) =>
            \A s \in db'.sessions : s.id = tab'[t].cookie => After(tab[t], s)'
    BY <1>3, <1>4
  <2>3. tab'[t].kept = tab[t].kept
    BY DEF Steps
  <2> QED BY <1>1, <1>2, <2>1, <2>2, <2>3
<1>6. tab'[t].pc \in {"granted", "consent", "revalidate", "resession", "grant", "upsert", "issue"} =>
          tab'[t].p.prompt \cap Fresh = {}
  BY <1>2
<1>7. tab'[t].pc \in {"granted", "grant", "upsert", "issue"} => tab'[t].kept \/ SignedIn(tab[t])'
  BY <1>2
<1> HIDE DEF SignedIn, After
<1> QED BY <1>5, <1>6, <1>7 DEF Signed

\* What EXCEPT leaves of a tab's record.
LEMMA PcMoved ==
  ASSUME TabShapes, NEW t \in Tabs, NEW pc \in TabPcs, NEW k \in TabT, k.pc = pc,
         k.p = tab[t].p, k.from = tab[t].from, k.rows = tab[t].rows, k.allowed = tab[t].allowed /\ k.raced = tab[t].raced /\ k.kept = tab[t].kept,
         k.id = tab[t].id, k.asked = tab[t].asked, k.start = tab[t].start,
         tab' = [tab EXCEPT ![t] = k]
  PROVE  Steps(t, pc) /\ tab'[t] = k
BY Moved DEF Steps

\* Validate: the client row of this moment accepts the request, or the tab ends.
LEMMA ValidateKept ==
  ASSUME AuthorizationInv, NEW t \in Tabs, Validate(t)
  PROVE  TabInv'
<1>1. /\ tab[t].pc \in {"validate", "revalidate"} /\ UNCHANGED <<db, browser, now, log, regvars, scenario>>
      /\ IF ValidateClient(tab[t].p) # "ok" THEN Answer(t, ValidateClient(tab[t].p))
         ELSE tab' = [tab EXCEPT ![t].pc = IF @ = "validate" THEN "session" ELSE "resession",
                                 ![t].skip = client.skip]
  BY DEF Validate
<1>2. Quiet
  BY <1>1, TabFacts, StillQuiet
<1>3. ValidateClient(tab[t].p) \in {"ok", "page", "redirect"}
  BY DEF ValidateClient
<1>4. CASE ValidateClient(tab[t].p) # "ok"
  BY <1>1, <1>2, <1>3, <1>4, TabFacts, AnswerEnds, EndKept
<1>5. CASE ValidateClient(tab[t].p) = "ok"
  <2> DEFINE pc == IF tab[t].pc = "validate" THEN "session" ELSE "resession"
             k == [tab[t] EXCEPT !.pc = pc, !.skip = client.skip]
  <2>1. tab[t] \in TabT /\ client.skip \in BOOLEAN
    BY TabFacts, ClientType DEF ClientT
  <2>2. pc \in {"session", "resession"} /\ pc \in TabPcs /\ pc \in Asking
    BY DEF TabPcs, Asking, Validated
  <2>3. pc = "resession" => tab[t].pc = "revalidate"
    BY <1>1
  <2>4. tab' = [tab EXCEPT ![t] = k]
    BY <1>1, <1>5, TabFacts DEF TabShapes
  <2> HIDE DEF pc
  <2>5. k \in TabT
    BY <2>1, <2>2 DEF TabT
  <2>6. /\ k.pc = pc /\ k.p = tab[t].p /\ k.from = tab[t].from /\ k.rows = tab[t].rows
        /\ k.allowed = tab[t].allowed /\ k.raced = tab[t].raced /\ k.kept = tab[t].kept /\ k.id = tab[t].id /\ k.asked = tab[t].asked
        /\ k.start = tab[t].start /\ k.cookie = tab[t].cookie /\ k.had = tab[t].had
    BY <2>1 DEF TabT
  <2> HIDE DEF k
  <2>7. Steps(t, pc) /\ tab'[t] = k
    BY <2>2, <2>4, <2>5, <2>6, TabFacts, PcMoved
  <2>8. \E r \in tab[t].rows : Fits(r, tab[t].p)
    <3>1. client.live /\ Fits(client, tab[t].p)
      BY <1>5 DEF ValidateClient, Fits
    <3>2. client \in tab[t].rows
      BY <1>1, <3>1, TabFacts DEF Registered
    <3> QED BY <3>1, <3>2
  <2>9. tab[t].pc \in Asking /\ tab[t].pc \notin {"blank", "postlogout"}
    BY <1>1 DEF Asking
  <2>10. pc = "resession" => tab[t].p.prompt \cap Fresh = {}
    BY <2>3, TabFacts DEF Signed
  <2>11. Signed(tab[t])'
    BY <2>2, <2>6, <2>7, <2>9, <2>10, <1>2, StepSigned DEF Quiet
  <2>12. pc \notin {"blank", "postlogout", "issue", "upsert", "revoke"}
    BY <2>2
  <2> QED BY <2>2, <2>6, <2>7, <2>8, <2>9, <2>11, <2>12, <1>2, TabFacts, StepKept
<1> QED BY <1>4, <1>5

\* The login page shows its form.
LEMMA FormShownKept ==
  ASSUME AuthorizationInv, NEW t \in Tabs, Quiet, tab[t].pc = "login", tab' = [tab EXCEPT ![t].pc = "loginform"]
  PROVE  TabInv'
<1> DEFINE k == [tab[t] EXCEPT !.pc = "loginform"]
<1>1. /\ tab[t].pc \in Asking /\ "loginform" \in TabPcs /\ "loginform" \in Asking
      /\ "loginform" \notin Validated
  BY DEF Asking, Validated, TabPcs
<1>2. tab' = [tab EXCEPT ![t] = k] /\ tab[t] \in TabT
  BY TabFacts DEF TabShapes
<1>3. k \in TabT
  BY <1>1, <1>2 DEF TabT
<1>4. /\ k.pc = "loginform" /\ k.p = tab[t].p /\ k.from = tab[t].from /\ k.rows = tab[t].rows
      /\ k.allowed = tab[t].allowed /\ k.raced = tab[t].raced /\ k.kept = tab[t].kept
      /\ k.id = tab[t].id /\ k.asked = tab[t].asked
      /\ k.start = tab[t].start /\ k.cookie = tab[t].cookie /\ k.had = tab[t].had
  BY <1>2 DEF TabT
<1> HIDE DEF k
<1>5. Steps(t, "loginform") /\ tab'[t] = k
  BY <1>1, <1>2, <1>3, <1>4, TabFacts, PcMoved
<1>6. Signed(tab[t])'
  BY <1>1, <1>4, <1>5, StepSigned DEF Quiet
<1> QED BY <1>1, <1>4, <1>5, <1>6, TabFacts, StepKept

\* ToLogin: what the login page returns to finds no session but a later one, or
\* the tab is marked.
LEMMA ToLoginKept ==
  ASSUME AuthorizationInv, NEW t \in Tabs, tab[t].pc = "session", ToLogin(t), Quiet, browser' = browser
  PROVE  TabInv'
<1>1. CASE "none" \in tab[t].p.prompt
  BY <1>1, TabFacts, AnswerEnds, EndKept DEF ToLogin
<1>2. CASE "none" \notin tab[t].p.prompt
  <2> DEFINE kept == tab[t].kept \/ GetSession(tab[t].cookie) # {}
             k == Sent(t, "login", withoutPrompt(tab[t].p), browser.cookie)
  <2>1. tab[t].pc \in Asking /\ "login" \in TabPcs
    BY DEF Asking, Validated, TabPcs
  <2>2. withoutPrompt(tab[t].p) \in ParamsT
    BY TabFacts, ParamsTypes
  <2>3. tab' = [tab EXCEPT ![t] = [k EXCEPT !.kept = kept]]
    <3>1. k \in TabT /\ k.kept = tab[t].kept
      BY <2>1, <2>2, TabFacts, SentType
    <3>2. tab' = [tab EXCEPT ![t] = [k EXCEPT !.kept = @ \/ GetSession(tab[t].cookie) # {}]]
      BY <1>2 DEF ToLogin
    <3> HIDE DEF k
    <3> QED BY <3>1, <3>2
  <2>4. kept \in BOOLEAN
    OBVIOUS
  <2>5. ~kept => GetSession(tab[t].cookie) = {}
    OBVIOUS
  <2> HIDE DEF kept
  <2>6. Sends(t, "login", withoutPrompt(tab[t].p), browser.cookie) /\ tab'[t].kept = kept
    BY <2>1, <2>2, <2>3, <2>4, TabFacts, KeptSends
  <2>7. ASSUME NEW s \in db'.sessions, s.id = browser.cookie, ~kept PROVE After(tab[t], s)
    <3>1. s \in db.sessions
      BY DEF Quiet, Fewer
    <3>2. CASE s.id = tab[t].cookie
      BY <2>5, <2>7, <3>1, <3>2 DEF After, GetSession
    <3>3. CASE s.id # tab[t].cookie
      BY <2>1, <2>7, <3>1, <3>3, TabFacts DEF After, Signed
    <3> QED BY <3>2, <3>3
  <2>8. Signed(tab[t])'
    BY <2>1, <2>6, <2>7, SendStrippedSigned DEF Quiet
  <2> QED BY <2>1, <2>6, <2>8, TabFacts, SendKept
<1> QED BY <1>1, <1>2

\* LoginRequired.
LEMMA LoginRequiredKept ==
  ASSUME AuthorizationInv, NEW t \in Tabs, LoginRequired(t)
  PROVE  TabInv'
<1>1. /\ tab[t].pc = "session" /\ ToLogin(t)
      /\ db' = [db EXCEPT !.sessions = AfterGet(tab[t].cookie)]
      /\ browser' = browser /\ now' = now /\ log' = log /\ client' = client
  BY DEF LoginRequired, regvars
<1>2. Quiet
  BY <1>1, TabFacts, SessionOps, SessionsQuiet
<1> QED BY <1>1, <1>2, ToLoginKept

\* SessionUnread: nothing but the tab, the form and the count of failures moves.
LEMMA SessionUnreadKept ==
  ASSUME AuthorizationInv, NEW t \in Tabs, SessionUnread(t)
  PROVE  TabInv'
<1>1. /\ log' = [log EXCEPT !.faults = @ + 1] /\ db' = db /\ now' = now /\ client' = client
      /\ \/ tab[t].pc = "session" /\ ToLogin(t) /\ browser' = browser
         \/ /\ tab[t].pc = "resession" /\ browser' = browser
            /\ tab' = [tab EXCEPT ![t] = Sent(t, "login", tab[t].p, browser.cookie)]
         \/ /\ tab[t].pc = "login" /\ browser' = GenerateToken(t)
            /\ tab' = [tab EXCEPT ![t].pc = "loginform"]
  BY DEF SessionUnread, Send, Goto, regvars
<1>2. /\ log' \in LogT /\ log'.allowed = log.allowed /\ log'.raced = log.raced /\ log'.cut = log.cut
      /\ log'.flows = log.flows
  <2>1. log \in LogT
    BY TabFacts
  <2>2. log' \in LogT
    BY <1>1, <2>1 DEF LogT
  <2>3. log'.allowed = log.allowed /\ log'.raced = log.raced /\ log'.cut = log.cut /\ log'.flows = log.flows
    BY <1>1, <2>1 DEF LogT
  <2> QED BY <2>2, <2>3
<1>3. browser' \in BrowserT /\ browser'.cookie = browser.cookie
  BY <1>1, TabFacts, FormQuiet
<1>4. Quiet
  BY <1>1, <1>2, <1>3, TabFacts DEF Quiet, Fewer
<1>5. CASE tab[t].pc = "session"
  BY <1>1, <1>4, <1>5, ToLoginKept
<1>6. CASE tab[t].pc = "resession"
  <2>1. tab[t].pc \in Asking /\ "login" \in TabPcs
    BY <1>6 DEF Asking, Validated, TabPcs
  <2>2. Sends(t, "login", tab[t].p, browser.cookie) /\ tab'[t].kept = tab[t].kept
    BY <1>1, <1>6, <2>1, TabFacts, SentSends
  <2>3. Signed(tab[t])'
    BY <1>3, <1>4, <2>1, <2>2, SendSameSigned DEF Quiet
  <2> QED BY <1>4, <2>1, <2>2, <2>3, TabFacts, SendKept
<1>7. CASE tab[t].pc = "login"
  <2>1. tab' = [tab EXCEPT ![t].pc = "loginform"]
    BY <1>1, <1>7
  <2> QED BY <1>4, <1>7, <2>1, FormShownKept
<1> QED BY <1>1, <1>5, <1>6, <1>7

\* FreshLoginRequired: the session is deleted and the cookie cleared.
LEMMA FreshLoginRequiredKept ==
  ASSUME AuthorizationInv, NEW t \in Tabs, FreshLoginRequired(t)
  PROVE  TabInv'
<1>1. /\ tab[t].pc = "session" /\ UNCHANGED <<now, log, regvars, scenario>>
      /\ IF "none" \in tab[t].p.prompt
         THEN Answer(t, "redirect") /\ UNCHANGED <<db, browser>>
         ELSE /\ tab' = [tab EXCEPT ![t] = Sent(t, "login", withoutPrompt(tab[t].p), 0)]
              /\ db' = [db EXCEPT !.sessions = DeleteSession(tab[t].cookie)]
              /\ browser' = ClearedCookies
  BY DEF FreshLoginRequired
<1>2. CASE "none" \in tab[t].p.prompt
  <2>1. Quiet
    BY <1>1, <1>2, TabFacts, StillQuiet
  <2> QED BY <1>1, <1>2, <2>1, TabFacts, AnswerEnds, EndKept
<1>3. CASE "none" \notin tab[t].p.prompt
  <2>1. Quiet
    <3>1. log' = log /\ now' = now /\ client' = client
      BY <1>1 DEF regvars
    <3> QED BY <1>1, <1>3, <3>1, TabFacts, SessionOps, SessionsQuiet
  <2>2. tab[t].pc \in Asking /\ "login" \in TabPcs
    BY <1>1 DEF Asking, Validated, TabPcs
  <2>3. withoutPrompt(tab[t].p) \in ParamsT
    BY TabFacts, ParamsTypes
  <2>4. Sends(t, "login", withoutPrompt(tab[t].p), 0)
    BY <1>1, <1>3, <2>2, <2>3, TabFacts, SentSends
  <2>5. 0 = browser'.cookie
    BY <1>1, <1>3, TabFacts, ClearQuiet
  <2>6. \A s \in db'.sessions : s.id # 0
    BY <2>1, TabFacts DEF Quiet, Fewer
  <2>7. Signed(tab[t])'
    BY <2>1, <2>2, <2>4, <2>5, <2>6, SendStrippedSigned DEF Quiet
  <2> QED BY <2>1, <2>2, <2>4, <2>7, TabFacts, SendKept
<1> QED BY <1>2, <1>3

\* A session that answers the request at this moment was made after the first
\* request or is not too old for it.
LEMMA SessionAnswers ==
  ASSUME AuthorizationInv, NEW t \in Tabs, tab[t].pc \in Asking, NEW s \in CurrentSession(tab[t].cookie),
         tab[t].p.prompt \cap Fresh = {}, tab[t].p.maxAge >= 0 => now - s.at <= tab[t].p.maxAge
  PROVE  \/ tab[t].kept
         \/ s.at >= tab[t].start
         \/ tab[t].asked.prompt \cap Fresh = {} /\ (tab[t].asked.maxAge >= 0 => tab[t].from - s.at <= tab[t].asked.maxAge)
<1>1. s \in db.sessions /\ s.id = tab[t].cookie /\ ~IsExpired(s)
  BY DEF CurrentSession, GetSession
<1>2. CASE tab[t].p = tab[t].asked
  <2>1. tab[t].from \in Nat /\ now \in Nat /\ s.at \in Nat /\ tab[t].from <= now /\ tab[t].p.maxAge \in Int
    BY <1>1, TabFacts DEF ParamsT
  <2> QED BY <1>2, <2>1
<1>3. CASE tab[t].p # tab[t].asked
  <2>1. tab[t].kept \/ After(tab[t], s)
    BY <1>1, <1>3, TabFacts DEF Signed
  <2> QED BY <1>1, <2>1 DEF After
<1> QED BY <1>2, <1>3

\* SessionFound.
LEMMA SessionFoundKept ==
  ASSUME AuthorizationInv, NEW t \in Tabs, SessionFound(t)
  PROVE  TabInv'
<1>1. /\ tab[t].pc = "session" /\ UNCHANGED <<db, browser, now, log, regvars, scenario>>
  BY DEF SessionFound
<1>2. PICK s \in CurrentSession(tab[t].cookie) :
        /\ ~RequiresFreshLogin(tab[t].p, s.at)
        /\ tab' = [tab EXCEPT ![t].pc = "granted", ![t].at = s.at]
  BY DEF SessionFound
<1> DEFINE k == [tab[t] EXCEPT !.pc = "granted", !.at = s.at]
<1>3. Quiet
  BY <1>1, TabFacts, StillQuiet
<1>4. s \in db.sessions /\ s.at \in Nat /\ tab[t] \in TabT
  BY TabFacts DEF CurrentSession, GetSession
<1>5. k \in TabT
  BY <1>4 DEF TabT, TabPcs, Asking, Validated
<1>6. /\ k.pc = "granted" /\ k.p = tab[t].p /\ k.from = tab[t].from /\ k.rows = tab[t].rows
      /\ k.allowed = tab[t].allowed /\ k.raced = tab[t].raced /\ k.kept = tab[t].kept /\ k.id = tab[t].id /\ k.asked = tab[t].asked
      /\ k.start = tab[t].start /\ k.cookie = tab[t].cookie /\ k.had = tab[t].had /\ k.at = s.at
  BY <1>4 DEF TabT
<1>7. tab' = [tab EXCEPT ![t] = k]
  BY <1>2, TabFacts DEF TabShapes
<1> HIDE DEF k
<1>8. tab[t].pc \in Asking /\ tab[t].pc \notin {"blank", "postlogout"} /\ "granted" \in TabPcs
      /\ "granted" \in Asking /\ tab[t].pc \in Validated
  BY <1>1 DEF Asking, Validated, TabPcs
<1>9. Steps(t, "granted") /\ tab'[t] = k
  BY <1>5, <1>6, <1>7, <1>8, TabFacts, PcMoved
<1>10. tab[t].p.prompt \cap Fresh = {} /\ (tab[t].p.maxAge >= 0 => now - s.at <= tab[t].p.maxAge)
  <2>1. now \in Nat /\ s.at \in Nat /\ tab[t].p.maxAge \in Int
    BY <1>4, TabFacts DEF ParamsT
  <2> QED BY <1>2, <2>1 DEF RequiresFreshLogin
<1>11. tab'[t].kept \/ SignedIn(tab[t])'
  <2>1. \/ tab[t].kept
        \/ s.at >= tab[t].start
        \/ tab[t].asked.prompt \cap Fresh = {} /\ (tab[t].asked.maxAge >= 0 => tab[t].from - s.at <= tab[t].asked.maxAge)
    BY <1>8, <1>10, SessionAnswers
  <2> QED BY <2>1, <1>6, <1>9 DEF SignedIn
<1>12. Signed(tab[t])'
  BY <1>3, <1>6, <1>8, <1>9, <1>10, <1>11, StepSigned DEF Quiet
<1> QED BY <1>3, <1>6, <1>8, <1>9, <1>12, TabFacts, StepKept

\* CheckConsent: the stored consent is among the scopes the tab knows allowed.
LEMMA CheckConsentKept ==
  ASSUME AuthorizationInv, NEW t \in Tabs, CheckConsent(t)
  PROVE  TabInv'
<1> DEFINE go == IsGranted(tab[t].skip, tab[t].p.scopes) /\ "consent" \notin tab[t].p.prompt
<1>1. /\ tab[t].pc = "granted" /\ UNCHANGED <<db, now, log, regvars, scenario>>
      /\ IF go THEN tab' = [tab EXCEPT ![t].pc = "issue"] /\ browser' = browser
         ELSE IF "none" \in tab[t].p.prompt THEN Answer(t, "redirect") /\ browser' = browser
         ELSE tab' = [tab EXCEPT ![t].pc = "consent"] /\ browser' = GenerateToken(t)
  BY DEF CheckConsent, Goto
<1>2. Quiet
  BY <1>1, TabFacts, FormQuiet DEF Quiet, Fewer, regvars
<1>3. CASE ~go /\ "none" \in tab[t].p.prompt
  BY <1>1, <1>2, <1>3, TabFacts, AnswerEnds, EndKept
<1>4. CASE go \/ "none" \notin tab[t].p.prompt
  <2> DEFINE pc == IF go THEN "issue" ELSE "consent"
             k == [tab[t] EXCEPT !.pc = pc]
  <2>1. tab' = [tab EXCEPT ![t] = k] /\ tab[t] \in TabT
    BY <1>1, <1>4, TabFacts DEF TabShapes
  <2>2. pc \in {"issue", "consent"} /\ (pc = "issue" => go)
    OBVIOUS
  <2>3. pc = "issue" => tab[t].skip \/ tab[t].p.scopes \subseteq tab[t].allowed \cup tab[t].raced
    <3>1. db.consent \subseteq log.allowed \cup log.raced
      BY TabFacts DEF TabInv, Merged, ConsentAsAllowed, Differ
    <3>2. log.allowed \cup log.raced \subseteq tab[t].allowed \cup tab[t].raced
      BY <1>1, TabFacts DEF Allowed
    <3> QED BY <2>2, <3>1, <3>2 DEF IsGranted, Covers
  <2> HIDE DEF go, pc
  <2>4. pc \in TabPcs /\ pc \in Asking /\ tab[t].pc \in Asking /\ tab[t].pc \in Validated
    BY <1>1, <2>2 DEF TabPcs, Asking, Validated
  <2>5. k \in TabT
    BY <2>1, <2>4 DEF TabT
  <2>6. /\ k.pc = pc /\ k.p = tab[t].p /\ k.from = tab[t].from /\ k.rows = tab[t].rows
        /\ k.allowed = tab[t].allowed /\ k.raced = tab[t].raced /\ k.kept = tab[t].kept /\ k.id = tab[t].id /\ k.asked = tab[t].asked
        /\ k.start = tab[t].start /\ k.cookie = tab[t].cookie /\ k.had = tab[t].had
        /\ k.at = tab[t].at /\ k.skip = tab[t].skip
    BY <2>1 DEF TabT
  <2> HIDE DEF k
  <2>7. Steps(t, pc) /\ tab'[t] = k
    BY <2>1, <2>4, <2>5, <2>6, TabFacts, PcMoved
  <2>8. tab[t].p.prompt \cap Fresh = {} /\ (tab[t].kept \/ SignedIn(tab[t]))
    BY <1>1, TabFacts DEF Signed
  <2>9. tab'[t].kept \/ SignedIn(tab[t])'
    BY <2>6, <2>7, <2>8 DEF SignedIn
  <2>10. Signed(tab[t])'
    BY <1>2, <2>4, <2>6, <2>7, <2>8, <2>9, StepSigned DEF Quiet
  <2>11. tab[t].pc \notin {"blank", "postlogout"} /\ pc \notin {"blank", "postlogout", "upsert", "revoke"}
    BY <1>1, <2>2
  <2> QED BY <1>2, <2>3, <2>4, <2>6, <2>7, <2>10, <2>11, TabFacts, StepKept
<1> QED BY <1>3, <1>4

\* A tab's record is the same but for what a withdrawal is working on.
SameTab(u) ==
    /\ tab'[u].pc = tab[u].pc /\ tab'[u].p = tab[u].p /\ tab'[u].cookie = tab[u].cookie
    /\ tab'[u].asked = tab[u].asked /\ tab'[u].start = tab[u].start /\ tab'[u].from = tab[u].from
    /\ tab'[u].at = tab[u].at /\ tab'[u].rows = tab[u].rows /\ tab'[u].allowed = tab[u].allowed /\ tab'[u].raced = tab[u].raced /\ tab'[u].kept = tab[u].kept
    /\ tab'[u].skip = tab[u].skip /\ tab'[u].merged = tab[u].merged /\ tab'[u].stale = tab[u].stale

\* A step on codes, tokens, sessions or the clock: the other parts stay.
LEMMA RestKept ==
  ASSUME AuthorizationInv, TabShapes', Issued', Listed', Fewer, now' >= now,
         client' = client, db'.consent = db.consent, log'.allowed = log.allowed, log'.raced = log.raced,
         \A u \in Tabs : SameTab(u) \/ (tab'[u].pc = "blank" /\ tab'[u].from = 0 /\ tab'[u].start = 0)
  PROVE  TabInv'
<1> USE DEF TabInv, AuthorizationInv
<1>1. now \in Nat /\ now' \in Nat
  BY DEF TabShapes
<1>2. Times'
  <2>1. \A s \in db.sessions : s.at \in Nat /\ s.at <= now
    BY DEF TabShapes, DbT, SessionT, Times
  <2>2. \A u \in Tabs : tab[u].from \in Nat /\ tab[u].start \in Nat
    BY DEF TabShapes, TabT
  <2>3. \A u \in Tabs : tab'[u].from <= now' /\ tab'[u].start <= tab'[u].from
    BY <1>1, <2>2 DEF Times, SameTab
  <2>4. now' >= 1 /\ \A s \in db'.sessions : s.at <= now'
    BY <1>1, <2>1 DEF Times, Fewer
  <2>5. \A s, u \in db'.sessions : s.id = u.id => s = u
    BY DEF Times, Fewer
  <2> QED BY <2>3, <2>4, <2>5 DEF Times
<1>3. Merged'
  <2>1. ConsentAsAllowed'
    BY DEF Merged, ConsentAsAllowed, Differ
  <2>2. \A u \in Tabs : tab'[u].pc = "upsert" /\ ~tab'[u].stale =>
          tab'[u].merged = db'.consent \cup tab'[u].p.scopes
    BY DEF Merged, SameTab
  <2> QED BY <2>1, <2>2 DEF Merged
<1>4. ASSUME NEW u \in Tabs
      PROVE  Registered(tab[u], client)' /\ Allowed(tab[u], log.allowed \cup log.raced)' /\ Signed(tab[u])'
  <2>1. CASE tab'[u].pc = "blank"
    <3>1. tab'[u].pc \notin Asking /\ tab'[u].pc \notin Validated
      BY <2>1 DEF Asking, Validated
    <3> QED BY <2>1, <3>1 DEF Registered, Allowed, Signed
  <2>2. CASE SameTab(u)
    <3>1. Registered(tab[u], client) /\ Allowed(tab[u], log.allowed \cup log.raced) /\ Signed(tab[u])
      OBVIOUS
    <3>2. Registered(tab[u], client)'
      BY <3>1, <2>2 DEF Registered, SameTab, Fits
    <3>3. Allowed(tab[u], log.allowed \cup log.raced)'
      BY <3>1, <2>2 DEF Allowed, SameTab
    <3>4. Signed(tab[u])'
      BY <3>1, <2>2, <1>1, SignedStay DEF SameTab
    <3> QED BY <3>2, <3>3, <3>4
  <2> QED BY <2>1, <2>2
<1> QED BY <1>2, <1>3, <1>4

\* issueCode: the tab's id becomes a code, and the tab ends.
LEMMA IssueCodeKept ==
  ASSUME AuthorizationInv, NEW t \in Tabs, issueCode(t)
  PROVE  TabInv'
<1>1. /\ tab[t].pc = "issue" /\ Answer(t, "redirect")
      /\ db' = IF client.live THEN [db EXCEPT !.codes = @ \cup {tab[t].id}] ELSE db
      /\ browser' = browser /\ now' = now /\ log' = log /\ client' = client
  BY DEF issueCode, regvars
<1>2. Ends(t)
  BY <1>1, TabFacts, AnswerEnds
<1>3. /\ db' \in DbT /\ db'.sessions = db.sessions /\ db'.consent = db.consent /\ db'.tokens = db.tokens
      /\ db'.active = db.active /\ db'.codes \subseteq db.codes \cup {tab[t].id}
  <2>1. tab[t].id \in Nat /\ db \in DbT
    BY TabFacts DEF TabT
  <2>2. CASE client.live
    <3>1. db' = [db EXCEPT !.codes = @ \cup {tab[t].id}]
      BY <1>1, <2>2
    <3>2. db.codes \cup {tab[t].id} \in SUBSET Nat
      BY <2>1 DEF DbT
    <3>3. db' \in DbT
      BY ONLY <2>1, <3>1, <3>2 DEF DbT
    <3>4. /\ db'.sessions = db.sessions /\ db'.consent = db.consent /\ db'.tokens = db.tokens
          /\ db'.active = db.active /\ db'.codes = db.codes \cup {tab[t].id}
      BY ONLY <2>1, <3>1 DEF DbT
    <3> QED BY <3>3, <3>4
  <2>3. CASE ~client.live
    BY <1>1, <2>1, <2>3
  <2> QED BY <2>2, <2>3
<1>4. TabShapes'
  BY <1>1, <1>2, <1>3, TabFacts DEF TabShapes, Ends, Alone
<1>5. Seen' \subseteq Seen
  BY <1>1, <1>2 DEF Seen, Ends, Alone
<1>6. Issued'
  <2>1. Issued /\ TabShapes
    BY TabFacts DEF TabInv
  <2>2. /\ log.flows \in Nat /\ \A u \in Tabs : tab[u].id \in Nat
        /\ tab[t].id # 0 /\ tab[t].id <= log.flows
    BY <2>1, <1>1 DEF Issued, TabShapes, LogT, TabT
  <2>3. \A u \in Tabs : tab'[u].id # 0 => u # t /\ tab'[u] = tab[u]
    BY <1>2 DEF Ends, Alone
  <2>4. \A u \in Tabs : tab'[u].id <= log'.flows
    BY <2>1, <2>2, <2>3, <1>1, <1>2 DEF Issued, Ends, Alone
  <2>5. \A u \in Tabs : tab'[u].pc \in {"blank", "postlogout"} <=> tab'[u].id = 0
    BY <2>1, <1>2 DEF Issued, Ends, Alone
  <2>6. \A x \in Used' : x \in Used \/ x = tab[t].id
    BY <1>3, <1>5 DEF Used
  <2>7. \A u \in Tabs : tab'[u].id # 0 => tab'[u].id \notin Used'
    BY <2>1, <2>2, <2>3, <2>6 DEF Issued, Used
  <2>8. \A u, v \in Tabs : tab'[u].id # 0 /\ tab'[u].id = tab'[v].id => u = v
    BY <2>1, <2>3, <1>2 DEF Issued, Ends
  <2>9. db'.codes \cap (db'.tokens \cup Seen') = {}
    BY <2>1, <2>2, <1>3, <1>5 DEF Issued
  <2>10. \A x \in Used' : x <= log'.flows
    BY <2>1, <2>2, <2>6, <1>1 DEF Issued, Used
  <2> QED BY <2>4, <2>5, <2>7, <2>8, <2>9, <2>10 DEF Issued, Used
<1>7. Listed'
  <2>1. Listed
    BY TabFacts DEF TabInv
  <2> QED BY <2>1, <1>1, <1>2, <1>3 DEF Listed, WithdrawnAccessEnds, Ends, Alone
<1>8. Fewer /\ now' >= now
  BY <1>1, <1>3, TabFacts DEF Fewer
<1>9. \A u \in Tabs : SameTab(u) \/ (tab'[u].pc = "blank" /\ tab'[u].from = 0 /\ tab'[u].start = 0)
  BY <1>2 DEF SameTab, Ends, Alone
<1> QED BY <1>1, <1>3, <1>4, <1>6, <1>7, <1>8, <1>9, RestKept

-----------------------------------------------------------------------------
(* The login page keeps the invariant *)

\* LoginPage: back with the browser's session, or the form.
LEMMA LoginPageKept ==
  ASSUME AuthorizationInv, NEW t \in Tabs, LoginPage(t)
  PROVE  TabInv'
<1>1. /\ tab[t].pc = "login"
      /\ IF GetSession(browser.cookie) # {}
         THEN tab' = [tab EXCEPT ![t] = Sent(t, "validate", tab[t].p, browser.cookie)] /\ browser' = browser
         ELSE tab' = [tab EXCEPT ![t].pc = "loginform"] /\ browser' = GenerateToken(t)
      /\ db' = [db EXCEPT !.sessions = AfterGet(browser.cookie)]
      /\ now' = now /\ log' = log /\ client' = client
  BY DEF LoginPage, Send, Goto, regvars
<1>2. Quiet /\ browser'.cookie = browser.cookie
  <2>1. Quiet
    BY <1>1, TabFacts, SessionOps, SessionsQuiet
  <2> QED BY <2>1, <1>1, TabFacts, FormQuiet
<1>3. tab[t].pc \in Asking /\ "validate" \in TabPcs
  BY <1>1 DEF Asking, Validated, TabPcs
<1>4. CASE GetSession(browser.cookie) # {}
  <2>1. Sends(t, "validate", tab[t].p, browser.cookie) /\ tab'[t].kept = tab[t].kept
    BY <1>1, <1>3, <1>4, TabFacts, SentSends
  <2>2. Signed(tab[t])'
    BY <1>2, <1>3, <2>1, SendSameSigned DEF Quiet
  <2> QED BY <1>2, <1>3, <2>1, <2>2, TabFacts, SendKept
<1>5. CASE GetSession(browser.cookie) = {}
  BY <1>1, <1>2, <1>5, FormShownKept
<1> QED BY <1>4, <1>5

\* Steps that leave codes, tokens, withdrawals and ids alone.
LEMMA TokensStay ==
  ASSUME AuthorizationInv, db'.codes = db.codes, db'.tokens = db.tokens, log'.cut = log.cut,
         log'.flows = log.flows, tab' = tab
  PROVE  Issued' /\ Listed'
<1>1. Issued /\ Listed
  BY DEF AuthorizationInv, TabInv
<1>2. Seen' = Seen
  BY DEF Seen
<1> QED BY <1>1, <1>2 DEF Issued, Listed, WithdrawnAccessEnds

\* LoginRefused: a new form.
LEMMA LoginRefusedKept ==
  ASSUME AuthorizationInv, NEW t \in Tabs, LoginRefused(t)
  PROVE  TabInv'
<1>1. browser' = GenerateToken(t) /\ db' = db /\ tab' = tab /\ now' = now /\ log' = log /\ client' = client
  BY DEF LoginRefused, regvars
<1>2. browser' \in BrowserT /\ browser'.cookie = browser.cookie
  BY <1>1, TabFacts, FormQuiet
<1>3. TabShapes' /\ now' >= now /\ Fewer
  BY <1>1, <1>2, TabFacts DEF TabShapes, Fewer
<1>4. Issued' /\ Listed'
  BY <1>1, TokensStay
<1>5. \A u \in Tabs : SameTab(u)
  BY <1>1 DEF SameTab
<1> QED BY <1>1, <1>3, <1>4, <1>5, RestKept

\* LoginAccepted: the session to replace is the one the browser has.
LEMMA LoginAcceptedKept ==
  ASSUME AuthorizationInv, NEW t \in Tabs, LoginAccepted(t)
  PROVE  TabInv'
<1> DEFINE k == [tab[t] EXCEPT !.pc = "startsession", !.cookie = browser.cookie]
<1>1. /\ tab[t].pc = "loginform" /\ UNCHANGED <<db, browser, now, log, regvars, scenario>>
      /\ tab' = [tab EXCEPT ![t].pc = "startsession", ![t].cookie = browser.cookie]
  BY DEF LoginAccepted
<1>2. Quiet
  BY <1>1, TabFacts, StillQuiet
<1>3. tab[t].pc \in Asking /\ "startsession" \in TabPcs /\ "startsession" \notin Validated
  BY <1>1 DEF Asking, TabPcs, Validated
<1>4. tab' = [tab EXCEPT ![t] = k] /\ tab[t] \in TabT
  BY <1>1, TabFacts DEF TabShapes
<1>5. k \in TabT
  BY <1>3, <1>4, TabFacts DEF TabT
<1>6. /\ k.pc = "startsession" /\ k.p = tab[t].p /\ k.from = tab[t].from /\ k.rows = tab[t].rows
      /\ k.allowed = tab[t].allowed /\ k.raced = tab[t].raced /\ k.kept = tab[t].kept /\ k.id = tab[t].id /\ k.asked = tab[t].asked
      /\ k.start = tab[t].start /\ k.cookie = browser.cookie /\ k.had = tab[t].had
  BY <1>4 DEF TabT
<1> HIDE DEF k
<1>7. Steps(t, "startsession") /\ tab'[t] = k
  BY <1>3, <1>4, <1>5, <1>6, TabFacts, PcMoved
<1>8. Signed(tab[t])'
  <2>1. /\ \A s \in db.sessions : s.id = browser.cookie => s.id = tab[t].cookie \/ s.at >= tab[t].start
        /\ \/ tab[t].p = tab[t].asked
           \/ /\ tab[t].p = withoutPrompt(tab[t].asked)
              /\ tab[t].kept \/ \A s \in db.sessions : s.id = tab[t].cookie => After(tab[t], s)
    BY <1>3, TabFacts DEF Signed
  <2>2. ~tab[t].kept =>
            \A s \in db.sessions : s.id = browser.cookie /\ tab[t].p # tab[t].asked => After(tab[t], s)
    BY <2>1 DEF After
  <2>3. db' = db /\ browser' = browser /\ now' = now
    BY <1>1
  <2>4. \A s \in db.sessions : After(tab[t], s) => After(tab[t], s)'
    BY <2>3, <1>6, <1>7 DEF After, IsExpired
  <2>5. \/ tab'[t].p = tab'[t].asked
        \/ /\ tab'[t].p = withoutPrompt(tab'[t].asked)
           /\ tab'[t].kept \/ \A s \in db'.sessions : s.id = tab'[t].cookie => After(tab[t], s)'
    BY <2>1, <2>2, <2>3, <2>4, <1>6, <1>7
  <2>6. tab'[t].pc \notin {"granted", "consent", "revalidate", "resession", "grant", "upsert", "issue"}
    BY <1>6, <1>7
  <2>7. tab'[t].cookie = browser'.cookie
    BY <1>6, <1>7, <2>3
  <2> QED BY <2>5, <2>6, <2>7 DEF Signed, withoutPrompt
<1>9. tab[t].pc \notin {"blank", "postlogout"}
  BY <1>1
<1> QED BY <1>2, <1>3, <1>6, <1>7, <1>8, <1>9, TabFacts, StepKept

\* Among some numbers there is a least one.
LEMMA LeastId ==
  ASSUME NEW I \in SUBSET Nat, I # {}
  PROVE  \E i \in I : \A j \in I : i <= j
<1> DEFINE Less == {ss \in Nat \X Nat : ss[1] < ss[2]}
<1>1. IsWellFoundedOn(Less, Nat)
  BY NatLessThanWellFounded DEF OpToRel
<1> HIDE DEF Less
<1>2. PICK i \in I : \A j \in I : <<j, i>> \notin Less
  BY <1>1, WFMin, Zenon
<1>3. ASSUME NEW j \in I PROVE i <= j
  <2>1. i \in Nat /\ j \in Nat /\ <<j, i>> \in Nat \X Nat
    OBVIOUS
  <2>2. ~(j < i)
    BY <1>2, <2>1 DEF Less
  <2> QED BY <2>1, <2>2
<1> QED BY <1>3

\* RotateSession: the new session has an id nobody holds, and is newer than
\* every tab's first request.
LEMMA RotateSessionKept ==
  ASSUME AuthorizationInv, NEW t \in Tabs, RotateSession(t)
  PROVE  TabInv'
<1> DEFINE new == CHOOSE i \in UnusedIds : \A j \in UnusedIds : i <= j
<1>1. /\ tab[t].pc = "startsession" /\ UnusedIds # {}
      /\ db' = [db EXCEPT !.sessions = DeleteSession(tab[t].cookie) \cup {[id |-> new, at |-> now]}]
      /\ browser' = [ClearedCookies EXCEPT !.cookie = new]
      /\ tab' = [tab EXCEPT ![t] = [Sent(t, "validate", tab[t].p, new) EXCEPT !.kept = FALSE]]
      /\ now' = now /\ log' = log /\ client' = client
  BY Zenon DEF RotateSession, regvars
<1>2. new \in UnusedIds
  <2>1. UnusedIds \subseteq Nat
    BY Bounds DEF UnusedIds
  <2>2. \E i \in UnusedIds : \A j \in UnusedIds : i <= j
    BY <1>1, <2>1, LeastId
  <2> QED BY <2>2
<1> HIDE DEF new
<1>3. new \in 1..MaxSessions /\ \A s \in db.sessions : s.id # new
  BY <1>2 DEF UnusedIds
<1> DEFINE fresh == [id |-> new, at |-> now]
           left == DeleteSession(tab[t].cookie) \cup {fresh}
<1>4. fresh \in SessionT /\ fresh.id = new /\ fresh.at = now
  BY <1>3, TabFacts DEF SessionT
<1>5. left \in SUBSET SessionT
  BY <1>4, SessionOps, TabFacts DEF DbT
<1>6. \A s \in left : s \in db.sessions \/ s = fresh
  BY SessionOps
<1> HIDE DEF fresh
<1>7. db' = [db EXCEPT !.sessions = left]
  BY <1>1 DEF fresh
<1> HIDE DEF left
<1>8. /\ db' \in DbT /\ db'.sessions = left /\ db'.consent = db.consent /\ db'.codes = db.codes
      /\ db'.tokens = db.tokens /\ db'.active = db.active
  <2>1. db \in DbT
    BY TabFacts
  <2>2. db' \in DbT
    BY ONLY <2>1, <1>5, <1>7 DEF DbT
  <2>3. /\ db'.sessions = left /\ db'.consent = db.consent /\ db'.codes = db.codes
        /\ db'.tokens = db.tokens /\ db'.active = db.active
    BY ONLY <2>1, <1>7 DEF DbT
  <2> QED BY <2>2, <2>3
<1>9. browser' \in BrowserT /\ browser'.cookie = new
  <2>1. ClearedCookies \in BrowserT /\ new \in 0..MaxSessions
    BY <1>3, TabFacts, ClearQuiet
  <2> QED BY <2>1, <1>1 DEF BrowserT
<1>10. /\ tab[t].pc \in Asking /\ "validate" \in TabPcs /\ tab[t].pc \notin {"blank", "postlogout"}
  BY <1>1 DEF Asking, TabPcs
<1>11. Sends(t, "validate", tab[t].p, new)
  <2>1. new \in 0..MaxSessions
    BY <1>3
  <2> QED BY <2>1, <1>1, <1>10, TabFacts, KeptSends
<1>12. TabShapes'
  BY <1>1, <1>8, <1>9, <1>11, TabFacts DEF TabShapes, Sends, Alone
<1>13. Times'
  <2>1. Times
    BY TabFacts DEF TabInv
  <2>2. \A s, u \in left : s.id = u.id => s = u
    BY <2>1, <1>3, <1>4, <1>6 DEF Times
  <2>3. \A s \in left : s.at <= now
    BY <2>1, <1>4, <1>6, TabFacts DEF Times
  <2>4. tab'[t].from <= now /\ tab'[t].start <= tab'[t].from
    BY <1>11, TabFacts DEF Sends
  <2>5. \A u \in Tabs : tab'[u].from <= now /\ tab'[u].start <= tab'[u].from
    BY <2>1, <2>4, <1>11 DEF Times, Sends, Alone
  <2> QED BY <2>1, <2>2, <2>3, <2>5, <1>1, <1>8 DEF Times
<1>14. Merged'
  <2>1. Merged
    BY TabFacts DEF TabInv
  <2>2. ConsentAsAllowed'
    BY <2>1, <1>1, <1>8 DEF Merged, ConsentAsAllowed, Differ
  <2>3. tab'[t].pc # "upsert"
    BY <1>11 DEF Sends
  <2> QED BY <2>1, <2>2, <2>3, <1>8, <1>11 DEF Merged, Sends, Alone
<1>15. Seen' \subseteq Seen
  BY <1>1, <1>11 DEF Seen, Sends, Alone
<1>16. Issued'
  <2>1. Issued
    BY TabFacts DEF TabInv
  <2>2. \A u \in Tabs : IdKept(u)
    BY <1>10, <1>11 DEF Sends, Alone, IdKept
  <2>3. Used' \subseteq Used /\ db'.codes \cap (db'.tokens \cup Seen') = {}
    BY <2>1, <1>8, <1>15 DEF Used, Issued
  <2>4. log'.flows \in Nat /\ log'.flows >= log.flows
    BY <1>1, TabFacts
  <2> QED BY <2>1, <2>2, <2>3, <2>4, <1>11, TabFacts, IssuedKept DEF Sends, Alone
<1>17. Listed'
  <2>1. Listed
    BY TabFacts DEF TabInv
  <2>2. tab'[t].pc # "revoke"
    BY <1>11 DEF Sends
  <2> QED BY <2>1, <2>2, <1>1, <1>8, <1>11 DEF Listed, WithdrawnAccessEnds, Sends, Alone
<1>18. ASSUME NEW u \in Tabs PROVE Registered(tab[u], client)' /\ Allowed(tab[u], log.allowed \cup log.raced)'
  <2>1. CASE u = t
    <3>1. tab'[t].pc \notin Validated /\ tab'[t].pc # "issue"
      BY <1>11 DEF Sends, Validated
    <3> QED BY <2>1, <3>1, <1>1, <1>11 DEF Registered, Allowed, Sends
  <2>2. CASE u # t
    <3>1. tab'[u] = tab[u]
      BY <2>2, <1>11 DEF Sends, Alone
    <3> QED BY <3>1, <1>1, TabFacts DEF Registered, Allowed, Fits
  <2> QED BY <2>1, <2>2
<1>19. ASSUME NEW u \in Tabs PROVE Signed(tab[u])'
  <2>1. \A s \in left : s.id = new => s.at = now
    BY <1>3, <1>4, <1>6
  <2>2. tab'[u].start <= now /\ tab'[u].start \in Nat
    <3>1. tab'[u].start = tab[u].start
      BY <1>11 DEF Sends, Alone
    <3> QED BY <3>1, TabFacts
  <2>3. \A s \in left : s.id = browser'.cookie => s.at >= tab'[u].start
    BY <2>1, <2>2, <1>9, TabFacts
  <2>4. CASE u = t
    <3>1. \A s \in left : s.id = tab'[t].cookie => s.at >= tab'[t].start
      BY <2>1, <2>2, <2>4, <1>11, TabFacts DEF Sends
    <3>2. \A s \in left : s.id = tab'[t].cookie => After(tab[t], s)'
      BY <3>1 DEF After
    <3>3. tab'[t].p = tab'[t].asked \/ tab'[t].p = withoutPrompt(tab'[t].asked)
      BY <1>10, <1>11, TabFacts DEF Sends, Signed
    <3>4. tab'[t].pc \notin {"granted", "consent", "revalidate", "resession", "grant", "upsert", "issue"}
      BY <1>11 DEF Sends
    <3> QED BY <2>3, <2>4, <3>2, <3>3, <3>4, <1>8 DEF Signed, withoutPrompt
  <2>5. CASE u # t
    <3>1. tab'[u] = tab[u] /\ Signed(tab[u])
      BY <2>5, <1>11, TabFacts DEF Sends, Alone
    <3>2. ASSUME NEW s \in left, s.id = tab[u].cookie, \A r \in db.sessions : r.id = tab[u].cookie => After(tab[u], r)
          PROVE  After(tab[u], s)'
      <4>1. CASE s \in db.sessions
        BY <3>1, <3>2, <4>1, <1>1, <1>8 DEF After, IsExpired
      <4>2. CASE s = fresh
        BY <4>2, <2>2, <1>4, TabFacts DEF After
      <4> QED BY <4>1, <4>2, <1>6
    <3>3. tab[u].pc \in Asking => \/ tab'[u].p = tab'[u].asked
                                  \/ /\ tab'[u].p = withoutPrompt(tab'[u].asked)
                                     /\ tab'[u].kept \/ \A s \in db'.sessions : s.id = tab'[u].cookie => After(tab[u], s)'
      BY <3>1, <3>2, <1>8 DEF Signed
    <3> QED BY <3>1, <3>3, <2>3, <1>8 DEF Signed, SignedIn, withoutPrompt
  <2> QED BY <2>4, <2>5
<1> QED BY <1>12, <1>13, <1>14, <1>16, <1>17, <1>18, <1>19 DEF TabInv

-----------------------------------------------------------------------------
(* POST /consent keeps the invariant *)

\* Consent: the request starts over with what the form carries.
LEMMA ConsentKept ==
  ASSUME AuthorizationInv, NEW t \in Tabs, NEW allow \in BOOLEAN, Consent(t, allow)
  PROVE  TabInv'
<1>1. /\ tab[t].pc = "consent" /\ UNCHANGED <<db, browser, now, log, regvars, scenario>>
      /\ IF ValidateToken(t)
         THEN tab' = [tab EXCEPT ![t] = [Sent(t, "revalidate", tab[t].p, browser.cookie) EXCEPT !.allow = allow]]
         ELSE Answer(t, "page")
  BY DEF Consent
<1>2. Quiet
  BY <1>1, TabFacts, StillQuiet
<1>3. CASE ~ValidateToken(t)
  BY <1>1, <1>2, <1>3, TabFacts, AnswerEnds, EndKept
<1>4. CASE ValidateToken(t)
  <2> DEFINE k == Sent(t, "revalidate", tab[t].p, browser.cookie)
             m == [k EXCEPT !.allow = allow]
  <2>1. tab[t].pc \in Asking /\ "revalidate" \in TabPcs /\ tab[t].p.prompt \cap Fresh = {}
    BY <1>1, TabFacts DEF Asking, Validated, TabPcs, Signed
  <2>2. /\ k \in TabT
        /\ k.pc = "revalidate" /\ k.p = tab[t].p /\ k.cookie = browser.cookie /\ k.from = now /\ k.rows = {client}
        /\ k.allowed = log.allowed /\ k.raced = log.raced /\ k.kept = tab[t].kept
        /\ k.id = tab[t].id /\ k.had = tab[t].had /\ k.asked = tab[t].asked /\ k.start = tab[t].start
    BY <2>1, TabFacts, SentType
  <2>3. tab' = [tab EXCEPT ![t] = m]
    BY <1>1, <1>4
  <2> HIDE DEF k
  <2>4. m \in TabT
    BY <2>2 DEF TabT
  <2>5. /\ m.pc = k.pc /\ m.p = k.p /\ m.cookie = k.cookie /\ m.from = k.from /\ m.rows = k.rows
        /\ m.allowed = k.allowed /\ m.raced = k.raced /\ m.kept = k.kept /\ m.id = k.id /\ m.had = k.had /\ m.asked = k.asked /\ m.start = k.start
    BY <2>2 DEF TabT
  <2> HIDE DEF m
  <2>6. Sends(t, "revalidate", tab[t].p, browser.cookie) /\ tab'[t].kept = tab[t].kept
    BY <2>2, <2>3, <2>4, <2>5, TabFacts, Moved DEF Sends
  <2>7. Signed(tab[t])'
    <3>1. browser'.cookie = browser.cookie
      BY <1>1
    <3> QED BY <3>1, <1>2, <2>1, <2>6, SendSameSigned DEF Quiet
  <2> QED BY <1>2, <2>1, <2>6, <2>7, TabFacts, SendKept
<1> QED BY <1>3, <1>4

\* ConsentSession: the session the browser sent has to answer the request
\* again; a consent page that outlived max_age goes back to the beginning.
LEMMA ConsentSessionKept ==
  ASSUME AuthorizationInv, NEW t \in Tabs, ConsentSession(t)
  PROVE  TabInv'
<1>1. /\ tab[t].pc = "resession" /\ db' = [db EXCEPT !.sessions = AfterGet(tab[t].cookie)]
      /\ browser' = browser /\ now' = now /\ log' = log /\ client' = client
      /\ \/ tab' = [tab EXCEPT ![t] = Sent(t, "login", tab[t].p, browser.cookie)]
         \/ tab' = [tab EXCEPT ![t] = Sent(t, "validate", tab[t].p, browser.cookie)]
         \/ Answer(t, "redirect")
         \/ \E s \in CurrentSession(tab[t].cookie) :
               ~OutlivedMaxAge(tab[t].p, s.at) /\ tab' = [tab EXCEPT ![t].pc = "grant", ![t].at = s.at]
  BY DEF ConsentSession, Send, regvars
<1>2. Quiet
  BY <1>1, TabFacts, SessionOps, SessionsQuiet
<1>3. /\ tab[t].pc \in Asking /\ tab[t].pc \in Validated /\ tab[t].p.prompt \cap Fresh = {}
      /\ "login" \in TabPcs /\ "validate" \in TabPcs /\ "grant" \in TabPcs /\ "grant" \in Asking
      /\ tab[t].pc \notin {"blank", "postlogout"}
  BY <1>1, TabFacts DEF Asking, Validated, TabPcs, Signed
<1>4. CASE Answer(t, "redirect")
  BY <1>2, <1>4, TabFacts, AnswerEnds, EndKept
<1>5. ASSUME NEW pc \in {"login", "validate"}, tab' = [tab EXCEPT ![t] = Sent(t, pc, tab[t].p, browser.cookie)]
      PROVE  TabInv'
  <2>1. Sends(t, pc, tab[t].p, browser.cookie) /\ tab'[t].kept = tab[t].kept
    BY <1>3, <1>5, TabFacts, SentSends
  <2>2. Signed(tab[t])'
    BY <1>1, <1>2, <1>3, <2>1, SendSameSigned DEF Quiet
  <2> QED BY <1>2, <1>3, <2>1, <2>2, TabFacts, SendKept
<1>6. ASSUME NEW s \in CurrentSession(tab[t].cookie), ~OutlivedMaxAge(tab[t].p, s.at),
             tab' = [tab EXCEPT ![t].pc = "grant", ![t].at = s.at]
      PROVE  TabInv'
  <2> DEFINE k == [tab[t] EXCEPT !.pc = "grant", !.at = s.at]
  <2>1. s \in db.sessions /\ s.at \in Nat /\ tab[t] \in TabT
    BY TabFacts DEF CurrentSession, GetSession
  <2>2. k \in TabT
    BY <1>3, <2>1 DEF TabT
  <2>3. /\ k.pc = "grant" /\ k.p = tab[t].p /\ k.from = tab[t].from /\ k.rows = tab[t].rows
        /\ k.allowed = tab[t].allowed /\ k.raced = tab[t].raced /\ k.kept = tab[t].kept /\ k.id = tab[t].id /\ k.asked = tab[t].asked
        /\ k.start = tab[t].start /\ k.cookie = tab[t].cookie /\ k.had = tab[t].had /\ k.at = s.at
    BY <2>1 DEF TabT
  <2>4. tab' = [tab EXCEPT ![t] = k]
    BY <1>6, TabFacts DEF TabShapes
  <2> HIDE DEF k
  <2>5. Steps(t, "grant") /\ tab'[t] = k
    BY <1>3, <2>2, <2>3, <2>4, TabFacts, PcMoved
  <2>6. tab[t].p.maxAge >= 0 => now - s.at <= tab[t].p.maxAge
    <3>1. now \in Nat /\ tab[t].p.maxAge \in Int
      BY TabFacts DEF ParamsT
    <3> QED BY <3>1, <2>1, <1>6 DEF OutlivedMaxAge, RequiresFreshLogin
  <2>7. tab'[t].kept \/ SignedIn(tab[t])'
    <3>1. \/ tab[t].kept
          \/ s.at >= tab[t].start
          \/ tab[t].asked.prompt \cap Fresh = {} /\ (tab[t].asked.maxAge >= 0 => tab[t].from - s.at <= tab[t].asked.maxAge)
      BY <1>3, <2>6, SessionAnswers
    <3> QED BY <3>1, <2>3, <2>5 DEF SignedIn
  <2>8. Signed(tab[t])'
    BY <1>2, <1>3, <2>3, <2>5, <2>7, StepSigned DEF Quiet
  <2> QED BY <1>2, <1>3, <2>3, <2>5, <2>8, TabFacts, StepKept
<1> QED BY <1>1, <1>4, <1>5, <1>6

\* GetConsent: what is about to be written is the consent of this moment and
\* what the request asks for.
LEMMA GetConsentKept ==
  ASSUME AuthorizationInv, NEW t \in Tabs, GetConsent(t)
  PROVE  TabInv'
<1> DEFINE merged == db.consent \cup tab[t].p.scopes
           k == [tab[t] EXCEPT !.pc = "upsert", !.stale = FALSE, !.merged = merged]
<1>1. /\ tab[t].pc = "grant" /\ UNCHANGED <<db, browser, now, log, regvars, scenario>>
      /\ tab' = [tab EXCEPT ![t].pc = "upsert", ![t].stale = FALSE, ![t].merged = merged]
  BY DEF GetConsent, unionScopes
<1>2. Quiet
  BY <1>1, TabFacts, StillQuiet
<1>3. /\ tab[t].pc \in Asking /\ tab[t].pc \in Validated /\ "upsert" \in TabPcs /\ "upsert" \in Asking
      /\ tab[t].pc \notin {"blank", "postlogout"}
  BY <1>1 DEF Asking, Validated, TabPcs
<1>4. merged \in SUBSET STRING /\ tab[t] \in TabT
  BY TabFacts DEF DbT, ParamsT
<1>5. tab' = [tab EXCEPT ![t] = k]
  BY <1>1, TabFacts DEF TabShapes
<1> HIDE DEF merged
<1>6. k \in TabT
  BY <1>3, <1>4 DEF TabT
<1>7. /\ k.pc = "upsert" /\ k.p = tab[t].p /\ k.from = tab[t].from /\ k.rows = tab[t].rows
      /\ k.allowed = tab[t].allowed /\ k.raced = tab[t].raced /\ k.kept = tab[t].kept /\ k.id = tab[t].id /\ k.asked = tab[t].asked
      /\ k.start = tab[t].start /\ k.cookie = tab[t].cookie /\ k.had = tab[t].had /\ k.at = tab[t].at
      /\ k.merged = merged
  BY <1>4 DEF TabT
<1> HIDE DEF k
<1>8. Steps(t, "upsert") /\ tab'[t] = k
  BY <1>3, <1>5, <1>6, <1>7, TabFacts, PcMoved
<1>9. tab[t].p.prompt \cap Fresh = {} /\ (tab'[t].kept \/ SignedIn(tab[t])')
  <2>1. tab[t].p.prompt \cap Fresh = {} /\ (tab[t].kept \/ SignedIn(tab[t]))
    BY <1>1, TabFacts DEF Signed
  <2> QED BY <2>1, <1>7, <1>8 DEF SignedIn
<1>10. Signed(tab[t])'
  BY <1>2, <1>3, <1>7, <1>8, <1>9, StepSigned DEF Quiet
<1>11. tab'[t].merged = db.consent \cup tab[t].p.scopes
  BY <1>7, <1>8 DEF merged
<1> QED BY <1>2, <1>3, <1>7, <1>8, <1>10, <1>11, TabFacts, StepKept

-----------------------------------------------------------------------------
(* Steps that write or delete the consent *)

\* What a tab asked for and has read stays.
SameRequest(u) ==
    /\ tab'[u].p = tab[u].p /\ tab'[u].cookie = tab[u].cookie /\ tab'[u].asked = tab[u].asked
    /\ tab'[u].start = tab[u].start /\ tab'[u].from = tab[u].from /\ tab'[u].at = tab[u].at
    /\ tab'[u].rows = tab[u].rows /\ tab'[u].skip = tab[u].skip /\ tab'[u].kept = tab[u].kept

\* A request keeps its place, has written its grant, or starts a withdrawal.
ConsentMove(u) ==
    \/ tab'[u].pc = tab[u].pc
    \/ tab[u].pc = "upsert" /\ tab'[u].pc = "issue" /\ tab'[u].p.scopes \subseteq tab'[u].allowed \cup tab'[u].raced
    \/ tab[u].pc = "account" /\ tab'[u].pc = "list"

\* What is allowed only grows for a tab, and a grant it has written is allowed.
LEMMA AllowedMoved ==
  ASSUME NEW u \in Tabs, SameRequest(u), ConsentMove(u), Allowed(tab[u], log.allowed \cup log.raced),
         tab[u].allowed \cup tab[u].raced \subseteq tab'[u].allowed \cup tab'[u].raced,
         tab[u].pc # "blank" => log'.allowed \cup log'.raced \subseteq tab'[u].allowed \cup tab'[u].raced
  PROVE  Allowed(tab[u], log.allowed \cup log.raced)'
<1>1. tab'[u].pc # "blank" => log'.allowed \cup log'.raced \subseteq tab'[u].allowed \cup tab'[u].raced
  BY DEF ConsentMove
<1>2. tab'[u].pc = "issue" => tab'[u].skip \/ tab'[u].p.scopes \subseteq tab'[u].allowed \cup tab'[u].raced
  <2>1. CASE tab'[u].pc = tab[u].pc
    <3>1. tab'[u].p = tab[u].p /\ tab'[u].skip = tab[u].skip
      BY DEF SameRequest
    <3> QED BY <2>1, <3>1 DEF Allowed
  <2>2. CASE tab'[u].pc # tab[u].pc
    BY <2>2 DEF ConsentMove
  <2> QED BY <2>1, <2>2
<1> QED BY <1>1, <1>2 DEF Allowed

\* A grant that has read the consent is overtaken by whoever writes it, and the
\* tabs that are under way learn what is allowed now.
LEMMA ConsentWritten ==
  ASSUME AuthorizationInv, db' \in DbT, db'.sessions = db.sessions, db'.active = db.active, browser' = browser,
         now' = now, log' \in LogT, tab' \in [Tabs -> TabT], Issued', Listed', ConsentAsAllowed',
         client' = client \/ ~client'.live,
         \A u \in Tabs : /\ SameRequest(u) /\ ConsentMove(u)
                         /\ tab'[u].pc = "upsert" => tab'[u].stale
                         /\ tab[u].allowed \cup tab[u].raced \subseteq tab'[u].allowed \cup tab'[u].raced
                         /\ tab[u].pc # "blank" => log'.allowed \cup log'.raced \subseteq tab'[u].allowed \cup tab'[u].raced
  PROVE  TabInv'
<1> USE DEF TabInv, AuthorizationInv
<1>1. TabShapes'
  BY DEF TabShapes
<1>2. Times'
  BY DEF Times, SameRequest
<1>3. Merged'
  BY DEF Merged
<1>4. ASSUME NEW u \in Tabs
      PROVE  Registered(tab[u], client)' /\ Allowed(tab[u], log.allowed \cup log.raced)' /\ Signed(tab[u])'
  <2>1. SameRequest(u) /\ ConsentMove(u)
    OBVIOUS
  <2>2. Registered(tab[u], client) /\ Allowed(tab[u], log.allowed \cup log.raced) /\ Signed(tab[u])
    OBVIOUS
  <2>3. Registered(tab[u], client)'
    <3>1. tab'[u].pc \in Validated => tab[u].pc \in Validated
      BY <2>1 DEF ConsentMove, Validated
    <3>2. tab'[u].pc # "blank" => tab[u].pc # "blank"
      BY <2>1 DEF ConsentMove
    <3>3. tab'[u].rows = tab[u].rows /\ tab'[u].p = tab[u].p
      BY <2>1 DEF SameRequest
    <3>4. tab'[u].pc \in Validated => \E r \in tab[u].rows : Fits(r, tab[u].p)
      BY <2>2, <3>1 DEF Registered
    <3>5. tab'[u].pc # "blank" /\ client'.live => client' \in tab[u].rows
      BY <2>2, <3>2 DEF Registered
    <3> QED BY <3>3, <3>4, <3>5 DEF Registered, Fits
  <2>4. Allowed(tab[u], log.allowed \cup log.raced)'
    BY <2>1, <2>2, AllowedMoved
  <2>5. Signed(tab[u])'
    <3>1. tab'[u].pc \in Asking => tab[u].pc \in Asking
      BY <2>1 DEF ConsentMove, Asking, Validated
    <3>2. /\ tab'[u].pc \in {"granted", "consent", "revalidate", "resession", "grant", "upsert", "issue"} =>
                tab[u].pc \in {"granted", "consent", "revalidate", "resession", "grant", "upsert", "issue"}
          /\ tab'[u].pc \in {"granted", "grant", "upsert", "issue"} => tab[u].pc \in {"granted", "grant", "upsert", "issue"}
      BY <2>1 DEF ConsentMove
    <3>3. \A s : After(tab[u], s) => After(tab[u], s)'
      BY <2>1 DEF After, IsExpired, SameRequest
    <3>4. SignedIn(tab[u]) => SignedIn(tab[u])'
      BY <2>1 DEF SignedIn, SameRequest
    <3>5. tab'[u].pc \in Asking =>
            /\ \A s \in db'.sessions : s.id = browser'.cookie => s.id = tab'[u].cookie \/ s.at >= tab'[u].start
            /\ \/ tab'[u].p = tab'[u].asked
               \/ /\ tab'[u].p = withoutPrompt(tab'[u].asked)
                  /\ tab'[u].kept \/ \A s \in db'.sessions : s.id = tab'[u].cookie => After(tab[u], s)'
      BY <2>1, <2>2, <3>1, <3>3 DEF Signed, SameRequest
    <3> QED BY <2>1, <2>2, <3>2, <3>4, <3>5 DEF Signed, SameRequest, withoutPrompt
  <2> QED BY <2>3, <2>4, <2>5
<1> QED BY <1>1, <1>2, <1>3, <1>4

\* Overtaken keeps the shape of the tabs.
LEMMA OvertakenType ==
  ASSUME NEW tt \in [Tabs -> TabT]
  PROVE  Overtaken(tt) \in [Tabs -> TabT]
<1>1. ASSUME NEW k \in TabT PROVE [k EXCEPT !.stale = TRUE] \in TabT
  BY DEF TabT
<1> QED BY <1>1 DEF Overtaken

\* Overtaken marks the grants that have read the consent.
LEMMA OvertakenTabs ==
  ASSUME NEW tt \in [Tabs -> TabT], NEW u \in Tabs
  PROVE  LET k == Overtaken(tt)[u]
         IN /\ Overtaken(tt) \in [Tabs -> TabT]
            /\ k.pc = "upsert" => k.stale
            /\ k.pc = tt[u].pc /\ k.p = tt[u].p /\ k.cookie = tt[u].cookie /\ k.asked = tt[u].asked
            /\ k.start = tt[u].start /\ k.from = tt[u].from /\ k.at = tt[u].at /\ k.rows = tt[u].rows
            /\ k.skip = tt[u].skip /\ k.allowed = tt[u].allowed /\ k.raced = tt[u].raced /\ k.kept = tt[u].kept /\ k.id = tt[u].id /\ k.had = tt[u].had
            /\ k.listed = tt[u].listed /\ k.failed = tt[u].failed
<1>1. Overtaken(tt) \in [Tabs -> TabT]
  BY OvertakenType
<1>2. CASE tt[u].pc = "upsert"
  <2>1. Overtaken(tt)[u] = [tt[u] EXCEPT !.stale = TRUE] /\ tt[u] \in TabT
    BY <1>2 DEF Overtaken
  <2> DEFINE k == [tt[u] EXCEPT !.stale = TRUE]
  <2>2. /\ k.stale /\ k.pc = tt[u].pc /\ k.p = tt[u].p /\ k.cookie = tt[u].cookie /\ k.asked = tt[u].asked
        /\ k.start = tt[u].start /\ k.from = tt[u].from /\ k.at = tt[u].at /\ k.rows = tt[u].rows
    BY <2>1 DEF TabT
  <2>3. /\ k.skip = tt[u].skip /\ k.allowed = tt[u].allowed /\ k.raced = tt[u].raced /\ k.kept = tt[u].kept /\ k.id = tt[u].id /\ k.had = tt[u].had
        /\ k.listed = tt[u].listed /\ k.failed = tt[u].failed
    BY <2>1 DEF TabT
  <2> HIDE DEF k
  <2>4. Overtaken(tt)[u] = k
    BY <2>1 DEF k
  <2> QED BY <2>2, <2>3, <2>4, <1>1
<1>3. CASE tt[u].pc # "upsert"
  <2>1. Overtaken(tt)[u] = tt[u]
    BY <1>3 DEF Overtaken
  <2> QED BY <2>1, <1>1, <1>3
<1> QED BY <1>2, <1>3

\* A step after which ids and withdrawals are as they were, codes and tokens at
\* most fewer.
LEMMA IdsStay ==
  ASSUME AuthorizationInv, tab' \in [Tabs -> TabT], db'.codes \subseteq db.codes, db'.tokens \subseteq db.tokens,
         log'.cut = log.cut, log'.flows = log.flows,
         \A u \in Tabs : /\ ConsentMove(u) /\ tab'[u].id = tab[u].id
                         /\ tab'[u].listed = tab[u].listed /\ tab'[u].failed = tab[u].failed
                         /\ tab'[u].had = tab[u].had \/ (tab'[u].had = db.tokens /\ tab'[u].pc = "list")
  PROVE  Issued' /\ Listed'
<1>1. TabShapes /\ Issued /\ Listed /\ log.flows \in Nat
  BY DEF AuthorizationInv, TabInv, TabShapes, LogT
<1>2. Seen' \subseteq Seen \cup db.tokens
  BY DEF Seen
<1>3. \A u \in Tabs : IdKept(u)
  BY DEF IdKept, ConsentMove
<1>4. Used' \subseteq Used
  BY <1>2 DEF Used
<1>5. db'.codes \cap (db'.tokens \cup Seen') = {}
  BY <1>1, <1>2 DEF Issued
<1>6. Issued'
  BY <1>1, <1>3, <1>4, <1>5, IssuedKept
<1>7. \A u \in Tabs : tab'[u].pc = "revoke" => tab[u].pc = "revoke" /\ tab'[u].had = tab[u].had
  BY DEF ConsentMove
<1>8. Listed'
  BY <1>1, <1>7 DEF Listed, WithdrawnAccessEnds
<1> QED BY <1>6, <1>8

\* UpsertConsent: the grant becomes the consent.
LEMMA UpsertConsentKept ==
  ASSUME AuthorizationInv, NEW t \in Tabs, UpsertConsent(t)
  PROVE  TabInv'
<1>1. /\ tab[t].pc = "upsert" /\ browser' = browser /\ now' = now /\ client' = client /\ scenario' = scenario
      /\ UNCHANGED regvars
  BY DEF UpsertConsent, regvars
<1>2. CASE ~client.live
  <2>1. Answer(t, "redirect") /\ db' = db /\ log' = log
    BY <1>2 DEF UpsertConsent
  <2>2. Quiet
    BY <1>1, <2>1, TabFacts, StillQuiet
  <2> QED BY <2>1, <2>2, TabFacts, AnswerEnds, EndKept
<1>3. CASE client.live
  <2> DEFINE allowed == log.allowed \cup tab[t].p.scopes
             raced == IF tab[t].stale THEN Differ(tab[t].merged, allowed) ELSE {}
             T0 == [tab EXCEPT ![t].pc = "issue"]
             T == Overtaken(T0)
  <2>1. /\ db' = [db EXCEPT !.consent = tab[t].merged]
        /\ log' = [log EXCEPT !.allowed = allowed, !.raced = @ \cup raced]
        /\ tab' = [u \in Tabs |-> IF T[u].pc = "blank" THEN T[u] ELSE [T[u] EXCEPT !.allowed = @ \cup allowed, !.raced = @ \cup raced]]
    BY <1>3 DEF UpsertConsent
  <2>2. tab \in [Tabs -> TabT] /\ tab[t] \in TabT /\ "issue" \in TabPcs
    BY TabFacts DEF TabShapes, TabPcs, Asking, Validated
  <2>3. T0 \in [Tabs -> TabT] /\ T0[t] = [tab[t] EXCEPT !.pc = "issue"] /\ \A u \in Tabs : u # t => T0[u] = tab[u]
    <3>1. [tab[t] EXCEPT !.pc = "issue"] \in TabT
      BY <2>2 DEF TabT
    <3> QED BY <3>1, <2>2
  <2>4. /\ T0[t].pc = "issue" /\ T0[t].p = tab[t].p /\ T0[t].cookie = tab[t].cookie /\ T0[t].asked = tab[t].asked
        /\ T0[t].start = tab[t].start /\ T0[t].from = tab[t].from /\ T0[t].at = tab[t].at /\ T0[t].rows = tab[t].rows
        /\ T0[t].skip = tab[t].skip /\ T0[t].allowed = tab[t].allowed /\ T0[t].raced = tab[t].raced /\ T0[t].kept = tab[t].kept /\ T0[t].id = tab[t].id /\ T0[t].had = tab[t].had
        /\ T0[t].listed = tab[t].listed /\ T0[t].failed = tab[t].failed
    BY <2>2, <2>3 DEF TabT
  <2>5. /\ db.consent \in SUBSET STRING /\ tab[t].merged \in SUBSET STRING /\ tab[t].p.scopes \in SUBSET STRING
        /\ log.allowed \in SUBSET STRING /\ log.raced \in SUBSET STRING
    BY <2>2, TabFacts DEF DbT, TabT, ParamsT, LogT
  <2>6. allowed \in SUBSET STRING /\ raced \in SUBSET STRING
    BY <2>5 DEF Differ
  <2>7. Differ(tab[t].merged, allowed) \subseteq log.raced \cup raced
    <3>1. CASE tab[t].stale
      BY <3>1
    <3>2. CASE ~tab[t].stale
      <4>1. tab[t].merged = db.consent \cup tab[t].p.scopes /\ Differ(db.consent, log.allowed) \subseteq log.raced
        BY <1>1, <3>2, TabFacts DEF TabInv, Merged, ConsentAsAllowed
      <4> QED BY <4>1 DEF Differ
    <3> QED BY <3>1, <3>2
  <2>8. tab[t].p.scopes \subseteq allowed
    OBVIOUS
  <2> HIDE DEF T0, raced, allowed
  <2>9. \A u \in Tabs :
          /\ T \in [Tabs -> TabT]
          /\ T[u].pc = "upsert" => T[u].stale
          /\ T[u].pc = T0[u].pc /\ T[u].p = T0[u].p /\ T[u].cookie = T0[u].cookie /\ T[u].asked = T0[u].asked
          /\ T[u].start = T0[u].start /\ T[u].from = T0[u].from /\ T[u].at = T0[u].at /\ T[u].rows = T0[u].rows
          /\ T[u].skip = T0[u].skip /\ T[u].allowed = T0[u].allowed /\ T[u].raced = T0[u].raced /\ T[u].kept = T0[u].kept /\ T[u].id = T0[u].id /\ T[u].had = T0[u].had
          /\ T[u].listed = T0[u].listed /\ T[u].failed = T0[u].failed
    BY <2>3, OvertakenTabs
  <2> HIDE DEF T
  <2>10. ASSUME NEW u \in Tabs
         PROVE  /\ tab'[u] \in TabT
                /\ tab'[u].pc = T[u].pc /\ tab'[u].p = T[u].p /\ tab'[u].cookie = T[u].cookie /\ tab'[u].asked = T[u].asked
                /\ tab'[u].start = T[u].start /\ tab'[u].from = T[u].from /\ tab'[u].at = T[u].at /\ tab'[u].rows = T[u].rows
                /\ tab'[u].skip = T[u].skip /\ tab'[u].kept = T[u].kept /\ tab'[u].id = T[u].id /\ tab'[u].had = T[u].had
                /\ tab'[u].listed = T[u].listed /\ tab'[u].failed = T[u].failed /\ tab'[u].stale = T[u].stale
                /\ T[u].allowed \cup T[u].raced \subseteq tab'[u].allowed \cup tab'[u].raced
                /\ T[u].pc # "blank" => tab'[u].allowed = T[u].allowed \cup allowed /\ tab'[u].raced = T[u].raced \cup raced
    <3>1. T[u] \in TabT
      BY <2>9
    <3>2. CASE T[u].pc = "blank"
      <4>1. tab'[u] = T[u]
        BY <2>1, <3>2
      <4> QED BY <3>1, <3>2, <4>1
    <3>3. CASE T[u].pc # "blank"
      <4> DEFINE scopes == T[u].allowed \cup allowed
                 races == T[u].raced \cup raced
                 k == [T[u] EXCEPT !.allowed = scopes, !.raced = races]
      <4>1. tab'[u] = k
        BY <2>1, <3>3
      <4>2. scopes \in SUBSET STRING /\ races \in SUBSET STRING /\ T[u].allowed \subseteq scopes /\ T[u].raced \subseteq races
        BY <2>6, <3>1 DEF TabT
      <4> HIDE DEF scopes, races
      <4>3. k \in TabT
        BY ONLY <3>1, <4>2 DEF TabT
      <4>4. /\ k.pc = T[u].pc /\ k.p = T[u].p /\ k.cookie = T[u].cookie /\ k.asked = T[u].asked
            /\ k.start = T[u].start /\ k.from = T[u].from /\ k.at = T[u].at /\ k.rows = T[u].rows
        BY ONLY <3>1 DEF TabT
      <4>5. /\ k.skip = T[u].skip /\ k.id = T[u].id /\ k.had = T[u].had /\ k.allowed = scopes /\ k.raced = races /\ k.kept = T[u].kept
            /\ k.listed = T[u].listed /\ k.failed = T[u].failed /\ k.stale = T[u].stale
        BY ONLY <3>1 DEF TabT
      <4> HIDE DEF k
      <4> QED BY <4>1, <4>2, <4>3, <4>4, <4>5 DEF scopes, races
    <3> QED BY <3>2, <3>3
  <2>11. tab' \in [Tabs -> TabT]
    BY <2>1, <2>10
  <2>12. /\ db' \in DbT /\ db'.sessions = db.sessions /\ db'.active = db.active /\ db'.consent = tab[t].merged
         /\ db'.codes = db.codes /\ db'.tokens = db.tokens
    <3>1. db \in DbT
      BY TabFacts
    <3>2. db' \in DbT
      BY ONLY <3>1, <2>1, <2>5 DEF DbT
    <3>3. /\ db'.sessions = db.sessions /\ db'.active = db.active /\ db'.consent = tab[t].merged
          /\ db'.codes = db.codes /\ db'.tokens = db.tokens
      BY ONLY <3>1, <2>1 DEF DbT
    <3> QED BY <3>2, <3>3
  <2>13. /\ log' \in LogT /\ log'.allowed = allowed /\ log'.raced = log.raced \cup raced
         /\ log'.cut = log.cut /\ log'.flows = log.flows
    <3>1. log \in LogT /\ log.raced \cup raced \in SUBSET STRING
      BY <2>5, <2>6, TabFacts
    <3>2. log' \in LogT
      BY ONLY <3>1, <2>1, <2>6 DEF LogT
    <3>3. /\ log'.allowed = allowed /\ log'.raced = log.raced \cup raced
          /\ log'.cut = log.cut /\ log'.flows = log.flows
      BY ONLY <3>1, <2>1 DEF LogT
    <3> QED BY <3>2, <3>3
  <2>14. ConsentAsAllowed'
    BY <2>7, <2>12, <2>13 DEF ConsentAsAllowed, Differ
  <2>15. ASSUME NEW u \in Tabs PROVE SameRequest(u)
    <3>1. CASE u = t
      BY <3>1, <2>4, <2>9, <2>10 DEF SameRequest
    <3>2. CASE u # t
      BY <3>2, <2>3, <2>9, <2>10 DEF SameRequest
    <3> QED BY <3>1, <3>2
  <2>16. ASSUME NEW u \in Tabs PROVE ConsentMove(u)
    <3>1. CASE u = t
      <4>1. tab'[t].pc = "issue" /\ tab'[t].p = tab[t].p /\ allowed \subseteq tab'[t].allowed \cup tab'[t].raced
        BY <2>4, <2>9, <2>10
      <4> QED BY <3>1, <4>1, <2>8, <1>1 DEF ConsentMove
    <3>2. CASE u # t
      BY <3>2, <2>3, <2>9, <2>10 DEF ConsentMove
    <3> QED BY <3>1, <3>2
  <2>17. ASSUME NEW u \in Tabs
         PROVE  /\ tab'[u].id = tab[u].id /\ tab'[u].listed = tab[u].listed /\ tab'[u].failed = tab[u].failed
                /\ tab'[u].had = tab[u].had /\ tab[u].allowed \cup tab[u].raced \subseteq tab'[u].allowed \cup tab'[u].raced
    <3>1. CASE u = t
      BY <3>1, <2>4, <2>9, <2>10
    <3>2. CASE u # t
      BY <3>2, <2>3, <2>9, <2>10
    <3> QED BY <3>1, <3>2
  <2>18. ASSUME NEW u \in Tabs, tab[u].pc # "blank"
         PROVE  log'.allowed \cup log'.raced \subseteq tab'[u].allowed \cup tab'[u].raced
    <3>1. T[u].pc # "blank"
      <4>1. T[u].pc = T0[u].pc
        BY <2>9
      <4>2. CASE u = t
        BY <4>1, <4>2, <2>4
      <4>3. CASE u # t
        BY <4>1, <4>3, <2>3, <2>18
      <4> QED BY <4>2, <4>3
    <3>2. log.raced \subseteq tab[u].allowed \cup tab[u].raced
      BY <2>18, TabFacts DEF Allowed
    <3> QED BY <3>1, <3>2, <2>10, <2>13, <2>17
  <2>19. \A u \in Tabs : tab'[u].pc = "upsert" => tab'[u].stale
    BY <2>9, <2>10
  <2>20. Issued' /\ Listed'
    BY <2>11, <2>12, <2>13, <2>16, <2>17, IdsStay
  <2> QED BY <1>1, <2>11, <2>12, <2>13, <2>14, <2>15, <2>16, <2>17, <2>18, <2>19, <2>20, ConsentWritten
<1> QED BY <1>2, <1>3

\* The consent is deleted and grants under way are overtaken.
LEMMA ConsentDeleted ==
  ASSUME AuthorizationInv, db' \in DbT, db'.sessions = db.sessions, db'.active = db.active, db'.consent = {},
         db'.codes \subseteq db.codes, db'.tokens \subseteq db.tokens,
         browser' = browser, now' = now, log' = Withdrawn, client' = client \/ ~client'.live,
         tab' = Overtaken(tab) \/ \E t \in Tabs : tab[t].pc = "account" /\ tab' = [Overtaken(tab) EXCEPT ![t].pc = "list", ![t].had = db.tokens]
  PROVE  TabInv'
<1>1. TabShapes /\ tab \in [Tabs -> TabT] /\ log \in LogT /\ db \in DbT
  BY DEF AuthorizationInv, TabInv, TabShapes
<1>2. log' \in LogT /\ log'.allowed = {} /\ log'.raced = {} /\ log'.cut = log.cut /\ log'.flows = log.flows
  <2>1. log' \in LogT
    BY <1>1 DEF Withdrawn, LogT
  <2>2. log'.allowed = {} /\ log'.raced = {} /\ log'.cut = log.cut /\ log'.flows = log.flows
    BY <1>1 DEF Withdrawn, LogT
  <2> QED BY <2>1, <2>2
<1> DEFINE T == Overtaken(tab)
<1>3. \A u \in Tabs :
        /\ T \in [Tabs -> TabT]
        /\ T[u].pc = "upsert" => T[u].stale
        /\ T[u].pc = tab[u].pc /\ T[u].p = tab[u].p /\ T[u].cookie = tab[u].cookie /\ T[u].asked = tab[u].asked
        /\ T[u].start = tab[u].start /\ T[u].from = tab[u].from /\ T[u].at = tab[u].at /\ T[u].rows = tab[u].rows
        /\ T[u].skip = tab[u].skip /\ T[u].allowed = tab[u].allowed /\ T[u].raced = tab[u].raced /\ T[u].kept = tab[u].kept /\ T[u].id = tab[u].id /\ T[u].had = tab[u].had
        /\ T[u].listed = tab[u].listed /\ T[u].failed = tab[u].failed
  BY <1>1, OvertakenTabs
<1>4. T \in [Tabs -> TabT]
  BY <1>1, OvertakenType
<1>5. tab' = T \/ \E t \in Tabs : tab[t].pc = "account" /\ tab' = [T EXCEPT ![t].pc = "list", ![t].had = db.tokens]
  OBVIOUS
<1> HIDE DEF T
<1>6. CASE tab' = T
  <2>1. \A u \in Tabs : SameRequest(u) /\ ConsentMove(u)
    BY <1>3, <1>6 DEF SameRequest, ConsentMove
  <2>2. \A u \in Tabs : /\ tab'[u].pc = "upsert" => tab'[u].stale
                        /\ tab[u].allowed \cup tab[u].raced \subseteq tab'[u].allowed \cup tab'[u].raced
    BY <1>3, <1>6
  <2>3. Issued' /\ Listed'
    BY <1>2, <1>3, <1>4, <1>6, <2>1, IdsStay
  <2>4. ConsentAsAllowed'
    BY <1>2 DEF ConsentAsAllowed, Differ
  <2> QED BY <1>2, <1>4, <1>6, <2>1, <2>2, <2>3, <2>4, ConsentWritten
<1>7. ASSUME NEW t \in Tabs, tab[t].pc = "account", tab' = [T EXCEPT ![t].pc = "list", ![t].had = db.tokens]
      PROVE  TabInv'
  <2> DEFINE k == [T[t] EXCEPT !.pc = "list", !.had = db.tokens]
  <2>1. T[t] \in TabT /\ db.tokens \in SUBSET Nat
    BY <1>1, <1>4 DEF DbT
  <2>2. k \in TabT
    BY <2>1, Pages DEF TabT
  <2>3. /\ k.pc = "list" /\ k.p = T[t].p /\ k.cookie = T[t].cookie /\ k.asked = T[t].asked
        /\ k.start = T[t].start /\ k.from = T[t].from /\ k.at = T[t].at /\ k.rows = T[t].rows
    BY <2>1 DEF TabT
  <2>4. /\ k.skip = T[t].skip /\ k.allowed = T[t].allowed /\ k.raced = T[t].raced /\ k.kept = T[t].kept /\ k.id = T[t].id /\ k.had = db.tokens
        /\ k.listed = T[t].listed /\ k.failed = T[t].failed
    BY <2>1 DEF TabT
  <2>5. tab' = [T EXCEPT ![t] = k]
    BY <1>4, <1>7
  <2> HIDE DEF k
  <2>6. tab' \in [Tabs -> TabT] /\ tab'[t] = k /\ \A u \in Tabs : u # t => tab'[u] = T[u]
    BY <1>4, <2>2, <2>5
  <2>7. ASSUME NEW u \in Tabs PROVE SameRequest(u) /\ ConsentMove(u)
    <3>1. CASE u = t
      BY <3>1, <1>3, <1>7, <2>3, <2>4, <2>6 DEF SameRequest, ConsentMove
    <3>2. CASE u # t
      BY <3>2, <1>3, <2>6 DEF SameRequest, ConsentMove
    <3> QED BY <3>1, <3>2
  <2>8. ASSUME NEW u \in Tabs
        PROVE  /\ tab'[u].pc = "upsert" => tab'[u].stale
               /\ tab[u].allowed \cup tab[u].raced \subseteq tab'[u].allowed \cup tab'[u].raced /\ tab'[u].id = tab[u].id
               /\ tab'[u].listed = tab[u].listed /\ tab'[u].failed = tab[u].failed
               /\ tab'[u].had = tab[u].had \/ (tab'[u].had = db.tokens /\ tab'[u].pc = "list")
    <3>1. CASE u = t
      BY <3>1, <1>3, <2>3, <2>4, <2>6
    <3>2. CASE u # t
      BY <3>2, <1>3, <2>6
    <3> QED BY <3>1, <3>2
  <2>9. Issued' /\ Listed'
    BY <1>2, <2>6, <2>7, <2>8, IdsStay
  <2>10. ConsentAsAllowed'
    BY <1>2 DEF ConsentAsAllowed, Differ
  <2> QED BY <1>2, <2>6, <2>7, <2>8, <2>9, <2>10, ConsentWritten
<1> QED BY <1>5, <1>6, <1>7

\* The row of the consent is gone, the rest of the store is as it was.
LEMMA ConsentsDeleteFacts ==
  ASSUME db \in DbT
  PROVE  /\ consentsDelete \in DbT /\ consentsDelete.sessions = db.sessions /\ consentsDelete.active = db.active
         /\ consentsDelete.consent = {} /\ consentsDelete.codes = db.codes /\ consentsDelete.tokens = db.tokens
<1>1. consentsDelete \in DbT
  BY DEF consentsDelete, DbT
<1>2. /\ consentsDelete.sessions = db.sessions /\ consentsDelete.active = db.active
      /\ consentsDelete.consent = {} /\ consentsDelete.codes = db.codes /\ consentsDelete.tokens = db.tokens
  BY DEF consentsDelete, DbT
<1> QED BY <1>1, <1>2

\* RevokeConsent: the consent first, then what the client holds.
LEMMA RevokeConsentKept ==
  ASSUME AuthorizationInv, NEW t \in Tabs, RevokeConsent(t)
  PROVE  TabInv'
<1>1. /\ tab[t].pc = "account" /\ UNCHANGED <<browser, now, regvars, scenario>>
      /\ IF CurrentSession(browser.cookie) = {} \/ ~ValidateToken(t)
         THEN Answer(t, "page") /\ UNCHANGED <<db, log>>
         ELSE /\ db' = consentsDelete
              /\ tab' = [Overtaken(tab) EXCEPT ![t].pc = "list", ![t].had = db.tokens]
              /\ log' = Withdrawn
  BY DEF RevokeConsent
<1>2. CASE CurrentSession(browser.cookie) = {} \/ ~ValidateToken(t)
  <2>1. Quiet
    BY <1>1, <1>2, TabFacts, StillQuiet
  <2> QED BY <1>1, <1>2, <2>1, TabFacts, AnswerEnds, EndKept
<1>3. CASE ~(CurrentSession(browser.cookie) = {} \/ ~ValidateToken(t))
  <2>1. db' = consentsDelete /\ log' = Withdrawn /\ browser' = browser /\ now' = now /\ client' = client
        /\ tab' = [Overtaken(tab) EXCEPT ![t].pc = "list", ![t].had = db.tokens]
    BY <1>1, <1>3 DEF regvars
  <2>2. /\ db' \in DbT /\ db'.sessions = db.sessions /\ db'.active = db.active
        /\ db'.consent = {} /\ db'.codes = db.codes /\ db'.tokens = db.tokens
    BY <2>1, TabFacts, ConsentsDeleteFacts
  <2> QED BY <1>1, <2>1, <2>2, ConsentDeleted
<1> QED BY <1>2, <1>3

\* The administrator's withdrawal.
LEMMA RevokeUserConsentKept ==
  ASSUME AuthorizationInv, RevokeUserConsent
  PROVE  TabInv'
<1>1. /\ db' = consentsDelete /\ log' = Withdrawn /\ browser' = browser /\ now' = now /\ client' = client
      /\ tab' = Overtaken(tab)
  BY DEF RevokeUserConsent, regvars
<1>2. db \in DbT
  BY DEF AuthorizationInv, TabInv, TabShapes
<1>3. /\ db' \in DbT /\ db'.sessions = db.sessions /\ db'.active = db.active
      /\ db'.consent = {} /\ db'.codes = db.codes /\ db'.tokens = db.tokens
  BY <1>1, <1>2, ConsentsDeleteFacts
<1> QED BY <1>1, <1>3, ConsentDeleted

\* DeleteClient: tokens first, then the row and what belongs to it.
LEMMA DeleteClientKept ==
  ASSUME AuthorizationInv, NEW o \in Operators, DeleteClient(o)
  PROVE  AuthorizationInv'
<1>1. TabShapes /\ db \in DbT /\ RegistryInv /\ Issued /\ Listed /\ now \in Nat
  BY DEF AuthorizationInv, TabInv, TabShapes
<1>2. CASE /\ db' = [db EXCEPT !.tokens = {}] /\ op' = [op EXCEPT ![o] = [Free EXCEPT !.pc = "drop"]]
           /\ reglog' = Began /\ UNCHANGED <<browser, tab, now, log, client, groups, scenario>>
  <2>1. RegistryInv'
    BY <1>1, <1>2, DeleteBeginKept
  <2>2. /\ db' \in DbT /\ db'.sessions = db.sessions /\ db'.active = db.active
        /\ db'.consent = db.consent /\ db'.codes = db.codes /\ db'.tokens = {}
    <3>1. db' \in DbT
      BY <1>1, <1>2 DEF DbT
    <3> QED BY <3>1, <1>1, <1>2 DEF DbT
  <2>3. TabShapes' /\ Fewer /\ now' >= now
    BY <1>1, <1>2, <2>2 DEF TabShapes, Fewer
  <2>4. Seen' = Seen
    BY <1>2 DEF Seen
  <2>5. Issued' /\ Listed'
    BY <1>1, <1>2, <2>2, <2>4 DEF Issued, Listed, WithdrawnAccessEnds
  <2>6. \A u \in Tabs : SameTab(u)
    BY <1>2 DEF SameTab
  <2>7. TabInv'
    BY <1>2, <2>2, <2>3, <2>5, <2>6, RestKept
  <2> QED BY <2>1, <2>7 DEF AuthorizationInv
<1>3. CASE /\ DropClient(o) /\ db' = [db EXCEPT !.consent = {}, !.codes = {}, !.tokens = {}]
           /\ tab' = Overtaken(tab) /\ log' = Withdrawn /\ UNCHANGED <<browser, now>>
  <2>1. RegistryInv'
    BY <1>1, <1>3, DropKept
  <2>2. /\ db' \in DbT /\ db'.sessions = db.sessions /\ db'.active = db.active
        /\ db'.consent = {} /\ db'.codes = {} /\ db'.tokens = {}
    <3>1. db' \in DbT
      BY <1>1, <1>3 DEF DbT
    <3> QED BY <3>1, <1>1, <1>3 DEF DbT
  <2>3. ~client'.live
    BY <1>3 DEF DropClient, NoClient
  <2>4. TabInv'
    BY <1>3, <2>2, <2>3, ConsentDeleted
  <2> QED BY <2>1, <2>4 DEF AuthorizationInv
<1> QED BY Zenon, <1>2, <1>3 DEF DeleteClient

-----------------------------------------------------------------------------
(* Withdrawals and logout *)

\* AccountPage.
LEMMA AccountPageKept ==
  ASSUME AuthorizationInv, NEW t \in Tabs, AccountPage(t)
  PROVE  TabInv'
<1>1. /\ Open(t, "withdraw") /\ UNCHANGED <<db, now, regvars, scenario>> /\ browser' = GenerateToken(t)
      /\ tab' = [tab EXCEPT ![t] = [Sent(t, "account", NoParams, browser.cookie)
                                      EXCEPT !.id = log.flows + 1, !.asked = NoParams, !.start = now]]
  BY DEF AccountPage, Opened
<1>2. Opens(t, "account", NoParams, log.flows + 1, browser.cookie)
  <2>1. log.flows + 1 \in Nat /\ "account" \in TabPcs /\ NoParams \in ParamsT
    BY TabFacts, Pages, ParamsTypes
  <2> QED BY <1>1, <2>1, TabFacts, OpenedOpens
<1>3. Quiet /\ log'.flows = log.flows + 1
  BY <1>1, TabFacts, OpenLog, FormQuiet DEF Quiet, Fewer, regvars
<1>4. Signed(tab[t])'
  <2>1. tab'[t].pc = "account" /\ "account" \notin Asking
    BY <1>2, Pages DEF Opens
  <2> QED BY <2>1 DEF Signed
<1> QED BY <1>2, <1>3, <1>4, TabFacts, OpenKept

\* ListTokens: every live token is on the list, or the list could not be read.
LEMMA ListTokensKept ==
  ASSUME AuthorizationInv, NEW t \in Tabs, ListTokens(t)
  PROVE  TabInv'
<1>1. /\ tab[t].pc = "list" /\ UNCHANGED <<db, browser, now, log, regvars, scenario>>
      /\ \/ tab' = [tab EXCEPT ![t].pc = "revoke", ![t].listed = db.tokens]
         \/ tab' = [tab EXCEPT ![t].pc = "revoke", ![t].failed = TRUE]
  BY DEF ListTokens
<1>2. Quiet
  BY <1>1, TabFacts, StillQuiet
<1>3. /\ "revoke" \in TabPcs /\ "revoke" \notin Asking /\ "revoke" \notin Validated
      /\ tab[t].pc \notin {"blank", "postlogout"}
  BY <1>1, Pages
<1>4. db.tokens \in SUBSET Nat /\ tab[t] \in TabT
  BY TabFacts DEF DbT
<1>5. ASSUME NEW k \in TabT, tab' = [tab EXCEPT ![t] = k], k.pc = "revoke",
             k.p = tab[t].p, k.from = tab[t].from, k.rows = tab[t].rows, k.allowed = tab[t].allowed /\ k.raced = tab[t].raced /\ k.kept = tab[t].kept,
             k.id = tab[t].id, k.asked = tab[t].asked, k.start = tab[t].start, k.had = tab[t].had,
             k.listed = db.tokens \/ k.failed
      PROVE  TabInv'
  <2>1. Steps(t, "revoke") /\ tab'[t] = k
    BY <1>3, <1>5, TabFacts, PcMoved
  <2>2. Signed(tab[t])'
    BY <1>3, <1>5, <2>1 DEF Signed
  <2>3. ~tab'[t].failed => tab'[t].had \cap db.tokens \subseteq tab'[t].listed
    BY <1>5, <2>1
  <2> QED BY <1>2, <1>3, <1>5, <2>1, <2>2, <2>3, TabFacts, StepKept
<1>6. CASE tab' = [tab EXCEPT ![t].pc = "revoke", ![t].listed = db.tokens]
  <2> DEFINE k == [tab[t] EXCEPT !.pc = "revoke", !.listed = db.tokens]
  <2>1. tab' = [tab EXCEPT ![t] = k]
    BY <1>6, TabFacts DEF TabShapes
  <2>2. k \in TabT
    BY <1>3, <1>4 DEF TabT
  <2>3. /\ k.pc = "revoke" /\ k.p = tab[t].p /\ k.from = tab[t].from /\ k.rows = tab[t].rows
        /\ k.allowed = tab[t].allowed /\ k.raced = tab[t].raced /\ k.kept = tab[t].kept /\ k.id = tab[t].id /\ k.asked = tab[t].asked
        /\ k.start = tab[t].start /\ k.had = tab[t].had /\ k.listed = db.tokens
    BY <1>4 DEF TabT
  <2> HIDE DEF k
  <2> QED BY <2>1, <2>2, <2>3, <1>5
<1>7. CASE tab' = [tab EXCEPT ![t].pc = "revoke", ![t].failed = TRUE]
  <2> DEFINE k == [tab[t] EXCEPT !.pc = "revoke", !.failed = TRUE]
  <2>1. tab' = [tab EXCEPT ![t] = k]
    BY <1>7, TabFacts DEF TabShapes
  <2>2. k \in TabT
    BY <1>3, <1>4 DEF TabT
  <2>3. /\ k.pc = "revoke" /\ k.p = tab[t].p /\ k.from = tab[t].from /\ k.rows = tab[t].rows
        /\ k.allowed = tab[t].allowed /\ k.raced = tab[t].raced /\ k.kept = tab[t].kept /\ k.id = tab[t].id /\ k.asked = tab[t].asked
        /\ k.start = tab[t].start /\ k.had = tab[t].had /\ k.failed
    BY <1>4 DEF TabT
  <2> HIDE DEF k
  <2> QED BY <2>1, <2>2, <2>3, <1>5
<1> QED BY <1>1, <1>6, <1>7

\* RevokeListed: the token is dead and off the list, or the withdrawal failed.
LEMMA RevokeListedKept ==
  ASSUME AuthorizationInv, NEW t \in Tabs, NEW x \in tab[t].listed, RevokeListed(t, x)
  PROVE  TabInv'
<1>1. /\ tab[t].pc = "revoke" /\ browser' = browser /\ now' = now /\ log' = log /\ client' = client
      /\ \/ /\ db' = [db EXCEPT !.tokens = db.tokens \ {x}]
            /\ tab' = [tab EXCEPT ![t].listed = @ \ {x}]
         \/ /\ tab' = [tab EXCEPT ![t].listed = @ \ {x}, ![t].failed = TRUE]
            /\ db' = db
  BY DEF RevokeListed, tokensRevoke, regvars
<1>2. tab \in [Tabs -> TabT] /\ tab[t] \in TabT /\ db \in DbT /\ Issued /\ Listed
  BY TabFacts DEF TabShapes, TabInv
<1>3. /\ db' \in DbT /\ db'.sessions = db.sessions /\ db'.active = db.active /\ db'.consent = db.consent
      /\ db'.codes = db.codes /\ db'.tokens \subseteq db.tokens
  <2>1. CASE db' = [db EXCEPT !.tokens = db.tokens \ {x}]
    <3>1. db.tokens \ {x} \in SUBSET Nat
      BY <1>2 DEF DbT
    <3>2. db' \in DbT
      BY ONLY <1>2, <2>1, <3>1 DEF DbT
    <3>3. /\ db'.sessions = db.sessions /\ db'.active = db.active /\ db'.consent = db.consent
          /\ db'.codes = db.codes /\ db'.tokens = db.tokens \ {x}
      BY ONLY <1>2, <2>1 DEF DbT
    <3> QED BY <3>2, <3>3
  <2>2. CASE db' = db
    BY <2>2, <1>2
  <2> QED BY <2>1, <2>2, <1>1
<1>4. /\ Alone(t) /\ tab'[t].had = tab[t].had /\ tab'[t].id = tab[t].id /\ SameTab(t)
      /\ \/ tab'[t].failed
         \/ /\ tab'[t].listed = tab[t].listed \ {x} /\ tab'[t].failed = tab[t].failed
            /\ db'.tokens = db.tokens \ {x}
  <2> DEFINE left == tab[t].listed \ {x}
  <2>1. left \in SUBSET Nat
    BY <1>2 DEF TabT
  <2>2. ASSUME NEW k \in TabT, tab' = [tab EXCEPT ![t] = k], \E f \in BOOLEAN : k = [tab[t] EXCEPT !.listed = left, !.failed = f]
        PROVE  Alone(t) /\ tab'[t] = k /\ tab'[t].had = tab[t].had /\ tab'[t].id = tab[t].id /\ SameTab(t)
    <3>1. Alone(t) /\ tab'[t] = k
      BY <2>2, TabFacts, Moved
    <3>2. PICK f \in BOOLEAN : k = [tab[t] EXCEPT !.listed = left, !.failed = f]
      BY <2>2
    <3>3. /\ k.pc = tab[t].pc /\ k.p = tab[t].p /\ k.cookie = tab[t].cookie /\ k.asked = tab[t].asked
          /\ k.start = tab[t].start /\ k.from = tab[t].from /\ k.at = tab[t].at
      BY ONLY <1>2, <3>2 DEF TabT
    <3>4. /\ k.rows = tab[t].rows /\ k.allowed = tab[t].allowed /\ k.raced = tab[t].raced /\ k.kept = tab[t].kept /\ k.skip = tab[t].skip
          /\ k.merged = tab[t].merged /\ k.stale = tab[t].stale /\ k.had = tab[t].had /\ k.id = tab[t].id
      BY ONLY <1>2, <3>2 DEF TabT
    <3> QED BY <3>1, <3>3, <3>4 DEF SameTab
  <2>3. CASE db' = [db EXCEPT !.tokens = db.tokens \ {x}] /\ tab' = [tab EXCEPT ![t].listed = @ \ {x}]
    <3> DEFINE k == [tab[t] EXCEPT !.listed = left]
    <3>1. tab' = [tab EXCEPT ![t] = k]
      BY <2>3, <1>2
    <3>2. tab[t].failed \in BOOLEAN /\ k = [tab[t] EXCEPT !.listed = left, !.failed = tab[t].failed]
      BY <1>2 DEF TabT
    <3>3. k \in TabT
      BY <1>2, <2>1 DEF TabT
    <3>4. k.listed = left /\ k.failed = tab[t].failed
      BY <1>2 DEF TabT
    <3>5. db'.tokens = db.tokens \ {x}
      BY <2>3, <1>2 DEF DbT
    <3> HIDE DEF k
    <3>6. Alone(t) /\ tab'[t] = k /\ tab'[t].had = tab[t].had /\ tab'[t].id = tab[t].id /\ SameTab(t)
      BY <3>1, <3>2, <3>3, <2>2
    <3> QED BY <3>4, <3>5, <3>6
  <2>4. CASE tab' = [tab EXCEPT ![t].listed = @ \ {x}, ![t].failed = TRUE]
    <3> DEFINE k == [tab[t] EXCEPT !.listed = left, !.failed = TRUE]
    <3>1. tab' = [tab EXCEPT ![t] = k]
      BY <2>4, <1>2
    <3>2. k \in TabT
      BY <1>2, <2>1 DEF TabT
    <3>3. k.failed
      BY <1>2 DEF TabT
    <3>4. \E f \in BOOLEAN : k = [tab[t] EXCEPT !.listed = left, !.failed = f]
      OBVIOUS
    <3> HIDE DEF k
    <3>5. Alone(t) /\ tab'[t] = k /\ tab'[t].had = tab[t].had /\ tab'[t].id = tab[t].id /\ SameTab(t)
      BY <3>1, <3>2, <3>4, <2>2
    <3> QED BY <3>3, <3>5
  <2> QED BY <1>1, <2>3, <2>4
<1>5. TabShapes' /\ Fewer /\ now' >= now
  BY <1>1, <1>3, <1>4, TabFacts DEF TabShapes, Fewer, Alone
<1>6. Seen' = Seen
  BY <1>1, <1>4 DEF Seen, Alone
<1>7. \A u \in Tabs : SameTab(u) /\ IdKept(u)
  BY <1>4 DEF SameTab, IdKept, Alone
<1>8. Issued'
  <2>1. Used' \subseteq Used /\ db'.codes \cap (db'.tokens \cup Seen') = {}
    BY <1>2, <1>3, <1>6 DEF Used, Issued
  <2>2. log'.flows \in Nat /\ log'.flows >= log.flows
    BY <1>1, TabFacts
  <2> QED BY <2>1, <2>2, <1>2, <1>4, <1>7, TabFacts, IssuedKept DEF Alone
<1>9. Listed'
  <2>1. WithdrawnAccessEnds'
    BY <1>1, <1>2, <1>3 DEF Listed, WithdrawnAccessEnds
  <2>2. ASSUME NEW u \in Tabs, tab'[u].pc = "revoke", ~tab'[u].failed
        PROVE  tab'[u].had \cap db'.tokens \subseteq tab'[u].listed
    <3>1. CASE u = t
      BY <2>2, <3>1, <1>1, <1>2, <1>4 DEF Listed
    <3>2. CASE u # t
      <4>1. tab'[u] = tab[u]
        BY <3>2, <1>4 DEF Alone
      <4> QED BY <4>1, <2>2, <1>2, <1>3 DEF Listed
    <3> QED BY <3>1, <3>2
  <2> QED BY <2>1, <2>2 DEF Listed
<1> QED BY <1>1, <1>3, <1>5, <1>7, <1>8, <1>9, RestKept

\* AccessRevoked: nothing is left on the list, so every token the withdrawal
\* saw is dead unless a failure was ignored.
LEMMA AccessRevokedKept ==
  ASSUME AuthorizationInv, NEW t \in Tabs, AccessRevoked(t)
  PROVE  TabInv'
<1> DEFINE more == IF tab[t].failed THEN {} ELSE tab[t].had
<1>1. /\ tab[t].pc = "revoke" /\ tab[t].listed = {} /\ Answer(t, "page")
      /\ log' = [log EXCEPT !.cut = @ \cup more]
      /\ db' = db /\ browser' = browser /\ now' = now /\ client' = client
  BY DEF AccessRevoked, regvars
<1>2. Ends(t)
  BY <1>1, TabFacts, AnswerEnds
<1>3. log \in LogT /\ log.cut \cup more \in SUBSET Nat /\ more \subseteq tab[t].had /\ Issued /\ Listed
  BY TabFacts DEF LogT, TabT, TabInv
<1>4. more \cap db.tokens = {}
  BY <1>1, <1>3 DEF Listed
<1> HIDE DEF more
<1>5. /\ log' \in LogT /\ log'.cut = log.cut \cup more /\ log'.flows = log.flows
      /\ log'.allowed = log.allowed /\ log'.raced = log.raced
  <2>1. log' \in LogT
    BY ONLY <1>1, <1>3 DEF LogT
  <2>2. /\ log'.cut = log.cut \cup more /\ log'.flows = log.flows
        /\ log'.allowed = log.allowed /\ log'.raced = log.raced
    BY ONLY <1>1, <1>3 DEF LogT
  <2> QED BY <2>1, <2>2
<1>6. TabShapes' /\ Fewer /\ now' >= now
  BY <1>1, <1>2, <1>5, TabFacts DEF TabShapes, Fewer, Ends, Alone
<1>7. Seen' \subseteq Seen
  BY <1>2, <1>3, <1>5 DEF Seen, Ends, Alone
<1>8. Issued'
  <2>1. Used' \subseteq Used /\ db'.codes \cap (db'.tokens \cup Seen') = {}
    BY <1>1, <1>3, <1>7 DEF Used, Issued
  <2>2. log'.flows \in Nat /\ log'.flows >= log.flows
    BY <1>5, TabFacts
  <2>3. \A u \in Tabs : IdKept(u)
    BY <1>2 DEF IdKept, Ends, Alone
  <2> QED BY <2>1, <2>2, <2>3, <1>2, <1>3, TabFacts, IssuedKept DEF Ends, Alone
<1>9. Listed'
  BY <1>1, <1>2, <1>3, <1>4, <1>5 DEF Listed, WithdrawnAccessEnds, Ends, Alone
<1>10. \A u \in Tabs : SameTab(u) \/ (tab'[u].pc = "blank" /\ tab'[u].from = 0 /\ tab'[u].start = 0)
  BY <1>2 DEF SameTab, Ends, Alone
<1> QED BY <1>1, <1>5, <1>6, <1>8, <1>9, <1>10, RestKept

\* Logout: the session and the cookies go; the tab has no id to give.
LEMMA LogoutKept ==
  ASSUME AuthorizationInv, NEW t \in Tabs, NEW p \in scenario.params, Logout(t, p)
  PROVE  TabInv'
<1> DEFINE k == Sent(t, "postlogout", p, 0)
           m == [k EXCEPT !.asked = p, !.start = now]
<1>1. /\ Open(t, "logout") /\ tab' = [tab EXCEPT ![t] = m]
      /\ db' = [db EXCEPT !.sessions = DeleteSession(browser.cookie)] /\ browser' = ClearedCookies
      /\ now' = now /\ client' = client
  BY DEF Logout, regvars
<1>2. p \in ParamsT
  BY ParamsTypes DEF AuthorizationInv, RegistryInv, RegistryShapes
<1>3. Quiet /\ tab[t].pc = "blank"
  BY <1>1, TabFacts, OpenLog, SessionOps, SessionsQuiet
<1>4. /\ k \in TabT
      /\ k.pc = "postlogout" /\ k.p = p /\ k.cookie = 0 /\ k.from = now /\ k.rows = {client}
      /\ k.allowed = log.allowed /\ k.raced = log.raced /\ k.id = tab[t].id /\ k.had = tab[t].had
  BY <1>2, TabFacts, Pages, SentType
<1> HIDE DEF k
<1>5. m \in TabT
  BY <1>2, <1>4, TabFacts DEF TabT
<1>6. /\ m.pc = k.pc /\ m.p = k.p /\ m.cookie = k.cookie /\ m.from = k.from /\ m.rows = k.rows
      /\ m.allowed = k.allowed /\ m.raced = k.raced /\ m.kept = k.kept /\ m.id = k.id /\ m.had = k.had /\ m.asked = p /\ m.start = now
  BY <1>4 DEF TabT
<1> HIDE DEF m
<1>7. tab[t].id = 0
  BY <1>3, TabFacts DEF TabInv, Issued
<1>8. Opens(t, "postlogout", p, 0, 0)
  BY <1>1, <1>4, <1>5, <1>6, <1>7, TabFacts, Moved DEF Opens
<1>9. Signed(tab[t])'
  <2>1. tab'[t].pc = "postlogout" /\ "postlogout" \notin Asking
    BY <1>8, Pages DEF Opens
  <2> QED BY <2>1 DEF Signed
<1> QED BY <1>3, <1>8, <1>9, TabFacts, OpenKept

\* PostLogoutRedirect.
LEMMA PostLogoutKept ==
  ASSUME AuthorizationInv, NEW t \in Tabs, PostLogoutRedirect(t)
  PROVE  TabInv'
<1>1. \E out \in {"redirect", "page"} : Answer(t, out)
  BY DEF PostLogoutRedirect
<1>2. Quiet
  BY TabFacts, StillQuiet DEF PostLogoutRedirect
<1> QED BY <1>1, <1>2, TabFacts, AnswerEnds, EndKept

-----------------------------------------------------------------------------
(* Everybody else *)

\* Redeem: the id moves from the codes to the tokens; no withdrawal has seen it.
LEMMA RedeemKept ==
  ASSUME AuthorizationInv, NEW c \in db.codes, Redeem(c)
  PROVE  TabInv'
<1>1. /\ db' = [db EXCEPT !.codes = @ \ {c}, !.tokens = IF db.active THEN @ \cup {c} ELSE @]
      /\ browser' = browser /\ tab' = tab /\ now' = now /\ log' = log /\ client' = client
  BY DEF Redeem, regvars
<1>2. TabShapes /\ db \in DbT /\ now \in Nat /\ log \in LogT /\ Issued /\ Listed
  BY DEF AuthorizationInv, TabInv, TabShapes
<1>3. /\ db' \in DbT /\ db'.sessions = db.sessions /\ db'.active = db.active /\ db'.consent = db.consent
      /\ db'.codes = db.codes \ {c} /\ db'.tokens \subseteq db.tokens \cup {c}
  <2> DEFINE codes == db.codes \ {c}
             tokens == IF db.active THEN db.tokens \cup {c} ELSE db.tokens
  <2>1. codes \in SUBSET Nat /\ tokens \in SUBSET Nat /\ tokens \subseteq db.tokens \cup {c}
    BY <1>2 DEF DbT
  <2>2. db' = [db EXCEPT !.codes = codes, !.tokens = tokens]
    BY <1>1
  <2> HIDE DEF tokens
  <2>3. db' \in DbT
    BY ONLY <1>2, <2>1, <2>2 DEF DbT
  <2>4. /\ db'.sessions = db.sessions /\ db'.active = db.active /\ db'.consent = db.consent
        /\ db'.codes = codes /\ db'.tokens = tokens
    BY ONLY <1>2, <2>2 DEF DbT
  <2> QED BY <2>1, <2>3, <2>4
<1>4. TabShapes' /\ Fewer /\ now' >= now
  BY <1>1, <1>2, <1>3 DEF TabShapes, Fewer
<1>5. Seen' = Seen /\ c \notin Seen
  BY <1>1, <1>2 DEF Seen, Issued
<1>6. \A u \in Tabs : SameTab(u) /\ IdKept(u)
  BY <1>1 DEF SameTab, IdKept
<1>7. Issued'
  <2>1. Used' \subseteq Used /\ db'.codes \cap (db'.tokens \cup Seen') = {}
    BY <1>2, <1>3, <1>5 DEF Used, Issued
  <2>2. log'.flows \in Nat /\ log'.flows >= log.flows
    BY <1>1, <1>2 DEF LogT
  <2> QED BY <2>1, <2>2, <1>1, <1>2, <1>6, IssuedKept DEF TabShapes
<1>8. Listed'
  <2>1. c \notin log.cut /\ \A u \in Tabs : c \notin tab[u].had
    BY <1>5 DEF Seen
  <2> QED BY <2>1, <1>1, <1>2, <1>3 DEF Listed, WithdrawnAccessEnds
<1> QED BY <1>1, <1>3, <1>4, <1>6, <1>7, <1>8, RestKept

\* Sessions end, the account is disabled or time passes.
LEMMA SessionsEnd ==
  ASSUME AuthorizationInv, db' \in DbT, db'.sessions \subseteq db.sessions,
         db'.consent = db.consent, db'.codes = db.codes, db'.tokens \subseteq db.tokens,
         browser' = browser, tab' = tab, now' \in Nat, now' >= now, client' = client,
         log' \in LogT, log'.allowed = log.allowed, log'.raced = log.raced, log'.cut = log.cut, log'.flows = log.flows
  PROVE  TabInv'
<1>1. TabShapes
  BY DEF AuthorizationInv, TabInv
<1>2. TabShapes' /\ Fewer
  BY <1>1 DEF TabShapes, Fewer
<1>3. Issued' /\ Listed'
  BY <1>1, IdsStay DEF ConsentMove, TabShapes
<1>4. \A u \in Tabs : SameTab(u)
  BY DEF SameTab
<1> QED BY <1>2, <1>3, <1>4, RestKept

\* DisableUser: the flag, then the sessions, then the tokens.
LEMMA DisableUserKept ==
  ASSUME AuthorizationInv, DisableUser
  PROVE  TabInv'
<1>1. TabShapes /\ db \in DbT /\ log \in LogT /\ now \in Nat /\ now >= now
  BY DEF AuthorizationInv, TabInv, TabShapes
<1>2. /\ browser' = browser /\ tab' = tab /\ now' = now /\ client' = client
      /\ db' \in {db, [db EXCEPT !.active = FALSE], [db EXCEPT !.sessions = {}], [db EXCEPT !.tokens = {}]}
      /\ \E d \in {"no", "sessions", "tokens"} : log' = [log EXCEPT !.disabling = d]
  BY DEF DisableUser, regvars
<1>3. /\ log' \in LogT /\ log'.allowed = log.allowed /\ log'.raced = log.raced
      /\ log'.cut = log.cut /\ log'.flows = log.flows
  <2>1. PICK d \in {"no", "sessions", "tokens"} : log' = [log EXCEPT !.disabling = d]
    BY <1>2
  <2>2. log' \in LogT
    BY ONLY <1>1, <2>1 DEF LogT
  <2>3. log'.allowed = log.allowed /\ log'.raced = log.raced /\ log'.cut = log.cut /\ log'.flows = log.flows
    BY ONLY <1>1, <2>1 DEF LogT
  <2> QED BY <2>2, <2>3
<1>4. /\ db' \in DbT /\ db'.sessions \subseteq db.sessions
      /\ db'.consent = db.consent /\ db'.codes = db.codes /\ db'.tokens \subseteq db.tokens
  <2>1. CASE db' = [db EXCEPT !.active = FALSE]
    <3>1. db' \in DbT
      BY ONLY <1>1, <2>1 DEF DbT
    <3>2. /\ db'.sessions = db.sessions
          /\ db'.consent = db.consent /\ db'.codes = db.codes /\ db'.tokens = db.tokens
      BY ONLY <1>1, <2>1 DEF DbT
    <3> QED BY <3>1, <3>2
  <2>2. CASE db' = [db EXCEPT !.sessions = {}]
    BY <1>1, <2>2, FewerSessions
  <2>3. CASE db' = [db EXCEPT !.tokens = {}]
    <3>1. db' \in DbT
      BY ONLY <1>1, <2>3 DEF DbT
    <3>2. /\ db'.sessions = db.sessions /\ db'.tokens = {}
          /\ db'.consent = db.consent /\ db'.codes = db.codes
      BY ONLY <1>1, <2>3 DEF DbT
    <3> QED BY <3>1, <3>2
  <2> QED BY <1>1, <1>2, <2>1, <2>2, <2>3
<1> QED BY <1>1, <1>2, <1>3, <1>4, SessionsEnd

\* EnableUser.
LEMMA EnableUserKept ==
  ASSUME AuthorizationInv, EnableUser
  PROVE  TabInv'
<1>1. TabShapes /\ db \in DbT /\ log \in LogT /\ now \in Nat /\ now >= now
  BY DEF AuthorizationInv, TabInv, TabShapes
<1>2. /\ browser' = browser /\ tab' = tab /\ now' = now /\ client' = client /\ log' = log
      /\ db' = [db EXCEPT !.active = TRUE]
  BY DEF EnableUser, regvars
<1>3. db' \in DbT
  BY ONLY <1>1, <1>2 DEF DbT
<1>4. /\ db'.sessions = db.sessions /\ db'.consent = db.consent /\ db'.codes = db.codes /\ db'.tokens = db.tokens
  BY ONLY <1>1, <1>2 DEF DbT
<1> QED BY <1>1, <1>2, <1>3, <1>4, SessionsEnd

\* Maintenance.
LEMMA DeleteExpiredKept ==
  ASSUME AuthorizationInv, DeleteExpiredSessions
  PROVE  TabInv'
<1> DEFINE left == {s \in db.sessions : now < s.at + SessionTTL}
<1>1. TabShapes /\ db \in DbT /\ log \in LogT /\ now \in Nat /\ now >= now
  BY DEF AuthorizationInv, TabInv, TabShapes
<1>2. /\ browser' = browser /\ tab' = tab /\ now' = now /\ client' = client /\ log' = log
      /\ db' = [db EXCEPT !.sessions = left]
  BY DEF DeleteExpiredSessions, regvars
<1>3. left \in SUBSET db.sessions
  OBVIOUS
<1> HIDE DEF left
<1>4. /\ db' \in DbT /\ db'.sessions \subseteq db.sessions /\ db'.active = db.active
      /\ db'.consent = db.consent /\ db'.codes = db.codes /\ db'.tokens = db.tokens
  BY <1>1, <1>2, <1>3, FewerSessions
<1> QED BY <1>1, <1>2, <1>4, SessionsEnd

\* Time passes.
LEMMA TickKept ==
  ASSUME AuthorizationInv, Tick
  PROVE  TabInv'
<1>1. TabShapes /\ db \in DbT /\ log \in LogT /\ now \in Nat
  BY DEF AuthorizationInv, TabInv, TabShapes
<1>2. now' = now + 1 /\ db' = db /\ browser' = browser /\ tab' = tab /\ log' = log /\ client' = client
  BY DEF Tick, regvars
<1>3. now' \in Nat /\ now' >= now
  BY <1>1, <1>2
<1> QED BY <1>1, <1>2, <1>3, SessionsEnd

\* Register: tabs under way learn of the new row.
LEMMA RegisterKept ==
  ASSUME AuthorizationInv, Register
  PROVE  AuthorizationInv'
<1>1. /\ RegistryNext /\ db' = db /\ browser' = browser /\ now' = now /\ log' = log
      /\ tab' = [t \in Tabs |-> IF tab[t].pc = "blank" THEN tab[t] ELSE [tab[t] EXCEPT !.rows = @ \cup {client'}]]
  BY DEF Register
<1>2. RegistryInv'
  BY <1>1, RegistryNextKept DEF AuthorizationInv
<1>3. client' \in Client
  BY <1>2 DEF RegistryInv, RegistryShapes
<1>4. TabInv /\ TabShapes /\ tab \in [Tabs -> TabT] /\ now \in Nat /\ now >= now
  <2>1. TabInv
    BY DEF AuthorizationInv
  <2> QED BY <2>1 DEF TabInv, TabShapes
<1>5. ASSUME NEW u \in Tabs
      PROVE  /\ tab'[u] \in TabT
             /\ tab'[u].pc = tab[u].pc /\ tab'[u].p = tab[u].p /\ tab'[u].cookie = tab[u].cookie
             /\ tab'[u].asked = tab[u].asked /\ tab'[u].start = tab[u].start /\ tab'[u].from = tab[u].from
             /\ tab'[u].at = tab[u].at /\ tab'[u].allowed = tab[u].allowed /\ tab'[u].raced = tab[u].raced /\ tab'[u].kept = tab[u].kept /\ tab'[u].skip = tab[u].skip
             /\ tab'[u].merged = tab[u].merged /\ tab'[u].stale = tab[u].stale /\ tab'[u].id = tab[u].id
             /\ tab'[u].had = tab[u].had /\ tab'[u].listed = tab[u].listed /\ tab'[u].failed = tab[u].failed
             /\ tab[u].pc # "blank" => tab'[u].rows = tab[u].rows \cup {client'}
  <2>1. tab[u] \in TabT
    BY <1>4
  <2>2. CASE tab[u].pc = "blank"
    <3>1. tab'[u] = tab[u]
      BY <1>1, <2>2
    <3> QED BY <2>1, <2>2, <3>1
  <2>3. CASE tab[u].pc # "blank"
    <3> DEFINE rows == tab[u].rows \cup {client'}
               k == [tab[u] EXCEPT !.rows = rows]
    <3>1. tab'[u] = k
      BY <1>1, <2>3
    <3>2. rows \in SUBSET Client
      BY <1>3, <2>1 DEF TabT
    <3> HIDE DEF rows
    <3>3. k \in TabT
      BY ONLY <2>1, <3>2 DEF TabT
    <3>4. /\ k.pc = tab[u].pc /\ k.p = tab[u].p /\ k.cookie = tab[u].cookie
          /\ k.asked = tab[u].asked /\ k.start = tab[u].start /\ k.from = tab[u].from
          /\ k.at = tab[u].at /\ k.allowed = tab[u].allowed /\ k.raced = tab[u].raced /\ k.kept = tab[u].kept /\ k.skip = tab[u].skip
      BY ONLY <2>1 DEF TabT
    <3>5. /\ k.merged = tab[u].merged /\ k.stale = tab[u].stale /\ k.id = tab[u].id
          /\ k.had = tab[u].had /\ k.listed = tab[u].listed /\ k.failed = tab[u].failed /\ k.rows = rows
      BY ONLY <2>1 DEF TabT
    <3> HIDE DEF k
    <3> QED BY <3>1, <3>3, <3>4, <3>5 DEF rows
  <2> QED BY <2>2, <2>3
<1>6. tab' \in [Tabs -> TabT]
  BY <1>1, <1>5
<1>7. TabShapes' /\ Fewer
  BY <1>1, <1>4, <1>6 DEF TabShapes, Fewer
<1>8. Times' /\ Merged'
  <2>1. Times'
    BY <1>1, <1>4, <1>5 DEF TabInv, Times
  <2>2. Merged'
    BY <1>1, <1>4, <1>5 DEF TabInv, Merged, ConsentAsAllowed, Differ
  <2> QED BY <2>1, <2>2
<1>9. Issued' /\ Listed'
  <2>1. Seen' = Seen
    BY <1>1, <1>5 DEF Seen
  <2>2. Issued'
    BY <1>1, <1>4, <1>5, <2>1 DEF TabInv, Issued
  <2>3. Listed'
    BY <1>1, <1>4, <1>5 DEF TabInv, Listed, WithdrawnAccessEnds
  <2> QED BY <2>2, <2>3
<1>10. ASSUME NEW u \in Tabs
       PROVE  Registered(tab[u], client)' /\ Allowed(tab[u], log.allowed \cup log.raced)' /\ Signed(tab[u])'
  <2>1. Registered(tab[u], client) /\ Allowed(tab[u], log.allowed \cup log.raced) /\ Signed(tab[u])
    BY <1>4 DEF TabInv
  <2>2. Registered(tab[u], client)'
    <3>1. tab'[u].pc \in Validated => tab[u].pc # "blank" /\ \E r \in tab[u].rows : Fits(r, tab[u].p)
      BY <2>1, <1>5 DEF Registered, Validated
    <3> QED BY <3>1, <1>5 DEF Registered, Fits
  <2>3. Allowed(tab[u], log.allowed \cup log.raced)'
    BY <2>1, <1>1, <1>5 DEF Allowed
  <2>4. Signed(tab[u])'
    <3>1. now' \in Nat /\ now' >= now
      BY <1>1, <1>4
    <3> QED BY <3>1, <2>1, <1>4, <1>5, <1>7, SignedStay
  <2> QED BY <2>2, <2>3, <2>4
<1>11. TabInv'
  BY <1>7, <1>8, <1>9, <1>10 DEF TabInv
<1> QED BY <1>2, <1>11 DEF AuthorizationInv

-----------------------------------------------------------------------------
(* The invariant is inductive *)

\* A request changes nothing in the registry.
LEMMA RegistryStays ==
  ASSUME RegistryInv, UNCHANGED <<regvars, scenario>>
  PROVE  RegistryInv'
<1>1. client' = client /\ groups' = groups /\ op' = op /\ reglog' = reglog /\ scenario' = scenario
  BY DEF regvars
<1>2. GroupIds' = GroupIds
  BY <1>1 DEF GroupIds
<1>3. RegistryShapes'
  BY <1>1 DEF RegistryInv, RegistryShapes
<1>4. Secrets'
  BY <1>1 DEF RegistryInv, Secrets, OldSecretsStayDead
<1>5. GroupNumbers'
  BY <1>1, <1>2 DEF RegistryInv, GroupNumbers
<1>6. \A o \in Operators : Memberships(o)'
  BY <1>1, <1>2 DEF RegistryInv, Memberships
<1> QED BY <1>3, <1>4, <1>5, <1>6 DEF RegistryInv

\* The registry at the start.
LEMMA RegistryInitInv ==
  ASSUME scenario \in Scenarios, RegistryInit
  PROVE  RegistryInv
<1>1. /\ client = scenario.client /\ groups = [id |-> [n \in Names |-> 0], member |-> {}]
      /\ op = [o \in Operators |-> Free]
      /\ reglog = [ops |-> 0, secrets |-> 1, groups |-> 0, dead |-> {}, held |-> {}]
  BY DEF RegistryInit
<1>2. client \in Client /\ client.secret \in {0, 1}
  BY <1>1, ScenariosAssumption
<1>3. Free \in OpT /\ Free.pc = "free"
  BY <1>2, FreeType
<1>4. \A o \in Operators : op[o] = Free
  BY <1>1
<1>5. RegistryShapes
  BY <1>1, <1>2, <1>3 DEF RegistryShapes, ReglogT
<1>6. Secrets
  <2>1. client.secret <= 1
    BY <1>2
  <2>2. \A o \in Operators : op[o].pc # "save"
    BY <1>3, <1>4
  <2> QED BY <2>1, <2>2, <1>1 DEF Secrets, OldSecretsStayDead
<1>7. GroupNumbers
  BY <1>1, Bounds DEF GroupNumbers
<1>8. \A o \in Operators : Memberships(o)
  BY <1>3, <1>4 DEF Memberships
<1> QED BY <1>5, <1>6, <1>7, <1>8 DEF RegistryInv

\* The initial states.
LEMMA AuthInit ==
  ASSUME Init
  PROVE  AuthorizationInv
<1> DEFINE first == [id |-> 1, at |-> 0]
<1>1. /\ scenario \in Scenarios /\ RegistryInit
      /\ db = [sessions |-> IF scenario.signedIn THEN {first} ELSE {},
               consent |-> scenario.consent, codes |-> {},
               tokens |-> IF scenario.consent = {} THEN {} ELSE {0}, active |-> TRUE]
      /\ browser = [cookie |-> IF scenario.signedIn THEN 1 ELSE 0, form |-> NoForm, formAt |-> 0]
      /\ tab = [t \in Tabs |-> Blank] /\ now = 1
      /\ log = [flows |-> 0, allowed |-> scenario.consent, raced |-> {}, cut |-> {},
              faults |-> 0, disabling |-> "no"]
  BY DEF Init
<1>2. RegistryInv
  BY <1>1, RegistryInitInv
<1>3. /\ scenario.consent \in SUBSET STRING /\ scenario.signedIn \in BOOLEAN
      /\ scenario.signedIn => MaxSessions > 0
  BY <1>1, ScenariosAssumption
<1>4. first.at = 0 /\ (MaxSessions > 0 => first \in SessionT)
  BY Bounds DEF SessionT
<1> HIDE DEF first
<1>5. db.sessions \subseteq {first} /\ db.tokens \subseteq {0} /\ db.codes = {} /\ db.consent = scenario.consent
  BY <1>1
<1>6. Blank \in TabT /\ \A t \in Tabs : tab[t] = Blank
  BY <1>1, BlankTab
<1>7. TabShapes
  <2>1. db \in DbT
    <3>1. (IF scenario.signedIn THEN {first} ELSE {}) \in SUBSET SessionT
      BY <1>3, <1>4
    <3> QED BY <3>1, <1>1, <1>3 DEF DbT
  <2>2. browser \in BrowserT
    <3>1. (IF scenario.signedIn THEN 1 ELSE 0) \in 0..MaxSessions
      BY <1>3, Bounds
    <3> QED BY <3>1, <1>1 DEF BrowserT
  <2>3. log \in LogT
    BY <1>1, <1>3 DEF LogT
  <2>4. tab \in [Tabs -> TabT]
    BY <1>1, BlankTab
  <2> QED BY <2>1, <2>2, <2>3, <2>4, <1>1 DEF TabShapes
<1>8. /\ Blank.pc = "blank" /\ Blank.id = 0 /\ Blank.had = {} /\ Blank.from = 0 /\ Blank.start = 0
  BY DEF Blank
<1>9. Times
  BY <1>1, <1>4, <1>5, <1>6, <1>8 DEF Times
<1>10. Merged
  BY <1>1, <1>5, <1>6, <1>8 DEF Merged, ConsentAsAllowed, Differ
<1>11. log.flows = 0 /\ log.cut = {}
  BY <1>1
<1>12. Issued
  <2>1. Seen = {}
    BY <1>6, <1>8, <1>11 DEF Seen
  <2> QED BY <2>1, <1>5, <1>6, <1>8, <1>11 DEF Issued
<1>13. Listed
  BY <1>6, <1>8, <1>11 DEF Listed, WithdrawnAccessEnds
<1>14. \A t \in Tabs : Registered(tab[t], client) /\ Allowed(tab[t], log.allowed \cup log.raced) /\ Signed(tab[t])
  <2>1. Blank.pc \notin Validated /\ Blank.pc \notin Asking
    BY <1>8 DEF Validated, Asking
  <2> QED BY <2>1, <1>6, <1>8 DEF Registered, Allowed, Signed
<1> QED BY <1>2, <1>7, <1>9, <1>10, <1>12, <1>13, <1>14 DEF AuthorizationInv, TabInv

\* A request the server handles.
LEMMA ServeKept ==
  ASSUME AuthorizationInv, NEW t \in Tabs, Serve(t)
  PROVE  AuthorizationInv'
<1>1. \/ Validate(t) \/ LoginRequired(t) \/ SessionUnread(t) \/ FreshLoginRequired(t) \/ SessionFound(t) \/ CheckConsent(t) \/ issueCode(t)
      \/ LoginPage(t) \/ RotateSession(t) \/ ConsentSession(t) \/ GetConsent(t) \/ UpsertConsent(t)
      \/ ListTokens(t) \/ (\E x \in tab[t].listed : RevokeListed(t, x)) \/ AccessRevoked(t)
      \/ PostLogoutRedirect(t)
  BY Zenon DEF Serve
<1>2. TabInv'
  BY Zenon, <1>1, ValidateKept, LoginRequiredKept, SessionUnreadKept, FreshLoginRequiredKept, SessionFoundKept, CheckConsentKept,
     IssueCodeKept, LoginPageKept, RotateSessionKept, ConsentSessionKept, GetConsentKept, UpsertConsentKept,
     ListTokensKept, RevokeListedKept, AccessRevokedKept, PostLogoutKept
<1>3. UNCHANGED <<regvars, scenario>>
  BY Zenon, <1>1 DEF Validate, LoginRequired, SessionUnread, FreshLoginRequired, SessionFound, CheckConsent, issueCode, LoginPage,
     RotateSession, ConsentSession, GetConsent, UpsertConsent, ListTokens, RevokeListed, AccessRevoked, PostLogoutRedirect
<1>4. RegistryInv'
  BY <1>3, RegistryStays DEF AuthorizationInv
<1> QED BY <1>2, <1>4 DEF AuthorizationInv

\* The user acts on a page.
LEMMA SubmitKept ==
  ASSUME AuthorizationInv, NEW t \in Tabs, Submit(t)
  PROVE  AuthorizationInv'
<1>1. LoginRefused(t) \/ LoginAccepted(t) \/ (\E allow \in BOOLEAN : Consent(t, allow)) \/ RevokeConsent(t)
  BY Zenon DEF Submit
<1>2. TabInv'
  BY Zenon, <1>1, LoginRefusedKept, LoginAcceptedKept, ConsentKept, RevokeConsentKept
<1>3. UNCHANGED <<regvars, scenario>>
  BY Zenon, <1>1 DEF LoginRefused, LoginAccepted, Consent, RevokeConsent
<1>4. RegistryInv'
  BY <1>3, RegistryStays DEF AuthorizationInv
<1> QED BY <1>2, <1>4 DEF AuthorizationInv

\* Every step keeps the invariant.
LEMMA AuthNext ==
  ASSUME AuthorizationInv, [Next]_vars
  PROVE  AuthorizationInv'
<1>1. CASE Next
  <2>1. ASSUME NEW t \in Tabs, NEW p \in scenario.params, Authorize(t, p) \/ Logout(t, p)
        PROVE  AuthorizationInv'
    <3>1. TabInv'
      BY <2>1, AuthorizeKept, LogoutKept
    <3>2. RegistryInv'
      BY <2>1, RegistryStays DEF AuthorizationInv, Authorize, Logout
    <3> QED BY <3>1, <3>2 DEF AuthorizationInv
  <2>2. ASSUME NEW t \in Tabs, AccountPage(t)
        PROVE  AuthorizationInv'
    <3>1. TabInv'
      BY <2>2, AccountPageKept
    <3>2. RegistryInv'
      BY <2>2, RegistryStays DEF AuthorizationInv, AccountPage
    <3> QED BY <3>1, <3>2 DEF AuthorizationInv
  <2>3. ASSUME RevokeUserConsent \/ (\E c \in db.codes : Redeem(c)) \/ DisableUser \/ EnableUser \/ DeleteExpiredSessions \/ Tick
        PROVE  AuthorizationInv'
    <3>1. TabInv'
      BY Zenon, <2>3, RevokeUserConsentKept, RedeemKept, DisableUserKept, EnableUserKept, DeleteExpiredKept, TickKept
    <3>2. UNCHANGED <<regvars, scenario>>
      BY Zenon, <2>3 DEF RevokeUserConsent, Redeem, DisableUser, EnableUser, DeleteExpiredSessions, Tick
    <3>3. RegistryInv'
      BY <3>2, RegistryStays DEF AuthorizationInv
    <3> QED BY <3>1, <3>3 DEF AuthorizationInv
  <2> QED BY Zenon, <1>1, <2>1, <2>2, <2>3, ServeKept, SubmitKept, DeleteClientKept, RegisterKept DEF Next
<1>2. CASE UNCHANGED vars
  <2>1. /\ db' = db /\ browser' = browser /\ tab' = tab /\ now' = now /\ log' = log /\ client' = client
        /\ UNCHANGED <<regvars, scenario>>
    BY <1>2 DEF vars, regvars
  <2>2. RegistryInv'
    BY <2>1, RegistryStays DEF AuthorizationInv
  <2>3. TabShapes /\ db \in DbT /\ log \in LogT /\ now \in Nat /\ now >= now
    BY DEF AuthorizationInv, TabInv, TabShapes
  <2>4. TabInv'
    BY <2>1, <2>3, SessionsEnd
  <2> QED BY <2>2, <2>4 DEF AuthorizationInv
<1> QED BY <1>1, <1>2

-----------------------------------------------------------------------------
(* Who leaves for the client *)

\* A request of tab u leaves the place of the other tabs alone.
LEMMA OthersStay ==
  ASSUME AuthorizationInv, NEW u \in Tabs, Serve(u) \/ Submit(u), NEW t \in Tabs, t # u
  PROVE  tab'[t].pc = tab[t].pc
<1>1. tab \in [Tabs -> TabT] /\ tab[t] \in TabT /\ tab[u] \in TabT
  BY TabFacts DEF TabShapes
<1>2. ASSUME NEW k, tab' = [tab EXCEPT ![u] = k] PROVE tab'[t] = tab[t]
  BY <1>1, <1>2
<1>3. ASSUME NEW out, Answer(u, out) PROVE tab'[t] = tab[t]
  BY <1>2, <1>3 DEF Answer
<1>4. ASSUME NEW pc, Goto(u, pc) PROVE tab'[t] = tab[t]
  BY <1>1, <1>4 DEF Goto
<1>5. ASSUME NEW pc, NEW p, Send(u, pc, p) PROVE tab'[t] = tab[t]
  BY <1>2, <1>5 DEF Send
<1>11. ASSUME ToLogin(u) PROVE tab'[t] = tab[t]
  BY <1>2, <1>3, <1>11 DEF ToLogin
<1>6. CASE Validate(u) \/ LoginRequired(u) \/ SessionUnread(u) \/ FreshLoginRequired(u) \/ CheckConsent(u) \/ issueCode(u)
  BY <1>1, <1>3, <1>4, <1>5, <1>6, <1>11 DEF Validate, LoginRequired, SessionUnread, FreshLoginRequired, CheckConsent, issueCode
<1>7. CASE SessionFound(u) \/ LoginPage(u) \/ RotateSession(u) \/ ConsentSession(u) \/ GetConsent(u)
  BY <1>1, <1>3, <1>4, <1>5, <1>7 DEF SessionFound, LoginPage, RotateSession, ConsentSession, GetConsent
<1>8. CASE \/ ListTokens(u) \/ (\E x \in tab[u].listed : RevokeListed(u, x)) \/ AccessRevoked(u) \/ PostLogoutRedirect(u)
           \/ LoginRefused(u) \/ LoginAccepted(u) \/ (\E allow \in BOOLEAN : Consent(u, allow))
  BY <1>1, <1>3, <1>8 DEF ListTokens, RevokeListed, AccessRevoked, PostLogoutRedirect, LoginRefused, LoginAccepted, Consent
<1>9. CASE RevokeConsent(u)
  <2>1. CASE Answer(u, "page")
    BY <2>1, <1>3
  <2>2. CASE tab' = [Overtaken(tab) EXCEPT ![u].pc = "list", ![u].had = db.tokens]
    <3>1. Overtaken(tab) \in [Tabs -> TabT] /\ Overtaken(tab)[t].pc = tab[t].pc
      BY <1>1, OvertakenTabs
    <3> QED BY <3>1, <2>2
  <2> QED BY <1>9, <2>1, <2>2 DEF RevokeConsent
<1>10. CASE UpsertConsent(u)
  <2>1. CASE Answer(u, "redirect")
    BY <2>1, <1>3
  <2>2. CASE client.live
    <3> DEFINE allowed == log.allowed \cup tab[u].p.scopes
               raced == IF tab[u].stale THEN Differ(tab[u].merged, allowed) ELSE {}
               T0 == [tab EXCEPT ![u].pc = "issue"]
               T == Overtaken(T0)
    <3>1. tab' = [v \in Tabs |-> IF T[v].pc = "blank" THEN T[v] ELSE [T[v] EXCEPT !.allowed = @ \cup allowed, !.raced = @ \cup raced]]
      BY <1>10, <2>2 DEF UpsertConsent
    <3>2. T0 \in [Tabs -> TabT] /\ T0[t] = tab[t]
      <4>1. "issue" \in TabPcs
        BY DEF TabPcs, Asking, Validated
      <4>2. [tab[u] EXCEPT !.pc = "issue"] \in TabT
        BY <4>1, <1>1 DEF TabT
      <4> QED BY <4>2, <1>1
    <3> HIDE DEF T0, raced, allowed
    <3>3. T \in [Tabs -> TabT] /\ T[t].pc = tab[t].pc
      BY <3>2, OvertakenTabs
    <3> HIDE DEF T
    <3>4. T[t] \in TabT
      BY <3>3
    <3>5. tab'[t].pc = T[t].pc
      BY <3>1, <3>4 DEF TabT
    <3> QED BY <3>3, <3>5
  <2> QED BY <1>10, <2>1, <2>2 DEF UpsertConsent
<1> QED BY Zenon, <1>6, <1>7, <1>8, <1>9, <1>10 DEF Serve, Submit

\* A tab that is sent to the client had been validated, or its URI is that of
\* the client row of this moment.
LEMMA Leaves ==
  ASSUME AuthorizationInv, Next, NEW t \in Tabs, tab[t].pc # "blank",
         tab'[t].out = "redirect", tab'[t].pc = "blank"
  PROVE  \/ tab[t].pc \in Validated
         \/ tab[t].pc # "issue" /\ client.live /\ tab[t].p.uri \in client.uris
<1>1. tab \in [Tabs -> TabT] /\ tab[t] \in TabT
  BY TabFacts DEF TabShapes
<1>2. ASSUME NEW out \in {"redirect", "page"}, Answer(t, out)
      PROVE  out = "redirect"
  BY <1>2, TabFacts, AnswerEnds
<1>3. CASE Serve(t)
  <2>1. CASE \/ LoginRequired(t) \/ FreshLoginRequired(t) \/ SessionFound(t) \/ CheckConsent(t) \/ issueCode(t)
             \/ ConsentSession(t) \/ GetConsent(t) \/ UpsertConsent(t)
    BY <2>1 DEF LoginRequired, FreshLoginRequired, SessionFound, CheckConsent, issueCode, ConsentSession,
                GetConsent, UpsertConsent, Validated
  <2>2. CASE Validate(t)
    <3>1. tab[t].pc # "issue"
      BY <2>2 DEF Validate
    <3>2. CASE ValidateClient(tab[t].p) = "ok"
      <4>1. tab'[t] = [tab[t] EXCEPT !.pc = IF @ = "validate" THEN "session" ELSE "resession", !.skip = client.skip]
        BY <2>2, <3>2, <1>1 DEF Validate
      <4>2. tab'[t].pc # "blank"
        BY <4>1, <1>1 DEF TabT
      <4> QED BY <4>2
    <3>3. CASE ValidateClient(tab[t].p) # "ok"
      <4>1. Answer(t, ValidateClient(tab[t].p)) /\ ValidateClient(tab[t].p) \in {"redirect", "page"}
        BY <2>2, <3>3 DEF Validate, ValidateClient
      <4>2. ValidateClient(tab[t].p) = "redirect"
        BY <4>1, <1>2
      <4> QED BY <3>1, <4>2 DEF ValidateClient
    <3> QED BY <3>2, <3>3
  <2>3. CASE PostLogoutRedirect(t)
    <3>1. tab[t].pc # "issue" /\ Answer(t, IF client.live /\ tab[t].p.uri \in client.uris THEN "redirect" ELSE "page")
      BY <2>3 DEF PostLogoutRedirect
    <3>2. ~(client.live /\ tab[t].p.uri \in client.uris) => Answer(t, "page")
      BY <3>1
    <3> QED BY <3>1, <3>2, <1>2
  <2>4. CASE LoginPage(t) \/ RotateSession(t)
    <3>1. CASE tab' = [tab EXCEPT ![t].pc = "loginform"]
      BY <3>1, <1>1 DEF TabT
    <3>2. ASSUME NEW c, NEW k, tab' = [tab EXCEPT ![t] = k],
                 \/ k = Sent(t, "validate", tab[t].p, c)
                 \/ k = [Sent(t, "validate", tab[t].p, c) EXCEPT !.kept = FALSE]
          PROVE  FALSE
      <4>1. k.pc = "validate"
        BY <1>1, <3>2 DEF Sent, TabT
      <4> QED BY <3>2, <4>1, <1>1
    <3>3. CASE LoginPage(t)
      BY <3>1, <3>2, <3>3 DEF LoginPage, Send, Goto
    <3>4. CASE RotateSession(t)
      BY <3>2, <3>4 DEF RotateSession
    <3> QED BY <2>4, <3>3, <3>4
  <2>5. CASE ListTokens(t) \/ (\E x \in tab[t].listed : RevokeListed(t, x))
    <3>1. CASE ListTokens(t)
      <4>1. \/ tab'[t] = [tab[t] EXCEPT !.pc = "revoke", !.listed = db.tokens]
            \/ tab'[t] = [tab[t] EXCEPT !.pc = "revoke", !.failed = TRUE]
        BY <3>1, <1>1 DEF ListTokens
      <4> QED BY <4>1, <1>1 DEF TabT
    <3>2. ASSUME NEW x, RevokeListed(t, x) PROVE FALSE
      <4>1. tab[t].pc = "revoke" /\ \/ tab'[t] = [tab[t] EXCEPT !.listed = @ \ {x}]
                                    \/ tab'[t] = [tab[t] EXCEPT !.listed = @ \ {x}, !.failed = TRUE]
        BY <3>2, <1>1 DEF RevokeListed
      <4> QED BY <4>1, <1>1 DEF TabT
    <3> QED BY <2>5, <3>1, <3>2
  <2>6. CASE AccessRevoked(t)
    <3>1. Answer(t, "page")
      BY <2>6 DEF AccessRevoked
    <3> QED BY <3>1, <1>2
  <2>7. CASE SessionUnread(t)
    <3>1. CASE tab[t].pc \in {"session", "resession"}
      BY <3>1 DEF Validated
    <3>2. CASE tab' = [tab EXCEPT ![t].pc = "loginform"]
      BY <3>2, <1>1 DEF TabT
    <3> QED BY <2>7, <3>1, <3>2 DEF SessionUnread, Goto
  <2> QED BY Zenon, <1>3, <2>1, <2>2, <2>3, <2>4, <2>5, <2>6, <2>7 DEF Serve
<1>4. CASE Submit(t)
  <2>1. CASE LoginRefused(t) \/ LoginAccepted(t)
    <3>1. \/ tab' = tab
          \/ tab'[t] = [tab[t] EXCEPT !.pc = "startsession", !.cookie = browser.cookie]
      BY <2>1, <1>1 DEF LoginRefused, LoginAccepted
    <3> QED BY <3>1, <1>1 DEF TabT
  <2>2. CASE \E allow \in BOOLEAN : Consent(t, allow)
    BY <2>2 DEF Consent, Validated
  <2>3. CASE RevokeConsent(t)
    <3>1. CASE Answer(t, "page")
      BY <3>1, <1>2
    <3>2. CASE tab' = [Overtaken(tab) EXCEPT ![t].pc = "list", ![t].had = db.tokens]
      <4>1. Overtaken(tab) \in [Tabs -> TabT] /\ Overtaken(tab)[t] \in TabT
        BY <1>1, OvertakenType
      <4>2. tab'[t] = [Overtaken(tab)[t] EXCEPT !.pc = "list", !.had = db.tokens]
        BY <3>2, <4>1
      <4> QED BY <4>1, <4>2 DEF TabT
    <3> QED BY <2>3, <3>1, <3>2 DEF RevokeConsent
  <2> QED BY Zenon, <1>4, <2>1, <2>2, <2>3 DEF Submit
<1>5. ASSUME NEW u \in Tabs, Serve(u) \/ Submit(u), u # t PROVE FALSE
  BY <1>5, OthersStay
<1>6. ASSUME NEW u \in Tabs, tab[u].pc = "blank", NEW k, tab' = [tab EXCEPT ![u] = k] PROVE FALSE
  <2>1. u # t
    BY <1>6
  <2>2. tab'[t] = tab[t]
    BY Zenon, <1>1, <1>6, <2>1
  <2> QED BY <2>2
<1>7. ASSUME NEW u \in Tabs, (\E p \in scenario.params : Authorize(u, p) \/ Logout(u, p)) \/ AccountPage(u) PROVE FALSE
  BY Zenon, <1>6, <1>7 DEF Authorize, Logout, AccountPage, Open, Opened
<1>8. ASSUME tab' = Overtaken(tab) PROVE FALSE
  BY <1>1, <1>8, OvertakenTabs
<1>9. ASSUME \/ RevokeUserConsent \/ (\E c \in db.codes : Redeem(c)) \/ (\E o \in Operators : DeleteClient(o))
             \/ DisableUser \/ EnableUser \/ DeleteExpiredSessions \/ Tick
      PROVE  FALSE
  <2>1. tab' = tab \/ tab' = Overtaken(tab)
    BY Zenon, <1>9 DEF RevokeUserConsent, Redeem, DeleteClient, DisableUser, EnableUser, DeleteExpiredSessions, Tick
  <2> QED BY <2>1, <1>8
<1>10. ASSUME Register PROVE FALSE
  <2>1. tab'[t] = [tab[t] EXCEPT !.rows = @ \cup {client'}]
    BY <1>10 DEF Register
  <2> QED BY <2>1, <1>1 DEF TabT
<1> QED BY Zenon, <1>3, <1>4, <1>5, <1>7, <1>9, <1>10 DEF Next

-----------------------------------------------------------------------------
(* Theorems *)

\* AuthorizationInv holds in every reachable state, for every set of tabs,
\* operators, forms and scenarios.
THEOREM AuthorizationInvariant == Spec => []AuthorizationInv
<1>1. Init => AuthorizationInv
  BY AuthInit
<1>2. AuthorizationInv /\ [Next]_vars => AuthorizationInv'
  BY AuthNext
<1> QED BY <1>1, <1>2, PTL DEF Spec

\* TypeOK: rows, sessions and cookies keep their shape, a session id names one
\* session, and a live client that is not public has a secret.
THEOREM TypeCorrect == Spec => []TypeOK
<1>1. AuthorizationInv => TypeOK
  <2> SUFFICES ASSUME AuthorizationInv PROVE TypeOK
    OBVIOUS
  <2>1. RegistryInv /\ TabInv /\ RegistryShapes /\ TabShapes /\ Times
    BY DEF AuthorizationInv, RegistryInv, TabInv
  <2>2. RegistryTypeOK
    <3>1. groups.id \in [Names -> 0..MaxGroups]
      <4>1. \A n \in Names : groups.id[n] \in Nat /\ groups.id[n] <= reglog.groups
        BY <2>1, GroupIdFacts DEF RegistryInv, GroupNumbers
      <4>2. groups.id \in [Names -> Nat] /\ reglog.groups \in Nat /\ reglog.groups <= MaxGroups
        BY <2>1, GroupIdFacts
      <4> QED BY <4>1, <4>2, Bounds
    <3>2. \A o \in Operators : op[o].row \in Client
      BY <2>1 DEF RegistryShapes, OpT
    <3> QED BY <3>1, <3>2, <2>1, GroupIdFacts DEF RegistryTypeOK, RegistryShapes
  <2>3. db.sessions \subseteq [id: 1..MaxSessions, at: 0..now]
    <3>1. \A s \in db.sessions : s \in SessionT /\ s.at <= now
      BY <2>1 DEF TabShapes, DbT, Times
    <3>2. now \in Nat
      BY <2>1 DEF TabShapes
    <3> QED BY <3>1, <3>2 DEF SessionT
  <2>4. browser.cookie \in 0..MaxSessions /\ browser.form \in Tabs \cup {NoForm}
    BY <2>1 DEF TabShapes, BrowserT
  <2> QED BY <2>1, <2>2, <2>3, <2>4 DEF TypeOK, Times
<1> QED BY <1>1, AuthorizationInvariant, PTL

\* The stored consent is what the user allowed since the last withdrawal, but
\* for grants that read the row before another one wrote it (UpsertConsent).
THEOREM ConsentKeptAsAllowed == Spec => []ConsentAsAllowed
<1>1. AuthorizationInv => ConsentAsAllowed
  BY DEF AuthorizationInv, TabInv, Merged
<1> QED BY <1>1, AuthorizationInvariant, PTL

\* The refresh tokens the client held when a withdrawal on the account page
\* began are dead once it was answered, unless it ignored a failure.
THEOREM WithdrawalEndsAccess == Spec => []WithdrawnAccessEnds
<1>1. AuthorizationInv => WithdrawnAccessEnds
  BY DEF AuthorizationInv, TabInv, Listed
<1> QED BY <1>1, AuthorizationInvariant, PTL

\* A replaced client secret authenticates the client again only if an operation
\* had read the row before it was replaced (SaveClient).
THEOREM ReplacedSecretsStayDead == Spec => []OldSecretsStayDead
<1>1. AuthorizationInv => OldSecretsStayDead
  BY DEF AuthorizationInv, RegistryInv, Secrets
<1> QED BY <1>1, AuthorizationInvariant, PTL

\* After its last change, SetUserGroups has left the user in exactly the checked
\* groups, but for those that somebody else changed meanwhile.
THEOREM GroupFormsApplied == Spec => []GroupFormApplied
<1>1. AuthorizationInv => GroupFormApplied
  BY DEF AuthorizationInv, RegistryInv, Memberships, GroupFormApplied
<1> QED BY <1>1, AuthorizationInvariant, PTL

\* The browser is sent to the client only under a URI registered at some time
\* during the request, and a code is issued only under the rules of such a row.
THEOREM RedirectsWithinRegistration == Spec => WithinRegistration
<1> DEFINE A == \A t \in Tabs : tab[t].pc # "blank" /\ tab'[t].out = "redirect" /\ tab'[t].pc = "blank" =>
                  \E c \in tab[t].rows :
                      /\ tab[t].p.uri \in c.uris
                      /\ tab[t].pc = "issue" => c.code /\ tab[t].p.scopes \subseteq c.scopes /\ (c.public => tab[t].p.pkce)
<1>1. AuthorizationInv /\ [Next]_vars => [A]_vars
  <2> SUFFICES ASSUME AuthorizationInv, Next, NEW t \in Tabs, tab[t].pc # "blank",
                      tab'[t].out = "redirect", tab'[t].pc = "blank"
               PROVE  \E c \in tab[t].rows :
                        /\ tab[t].p.uri \in c.uris
                        /\ tab[t].pc = "issue" => c.code /\ tab[t].p.scopes \subseteq c.scopes /\ (c.public => tab[t].p.pkce)
    OBVIOUS
  <2>1. CASE tab[t].pc \in Validated
    BY <2>1, TabFacts DEF Registered, Fits
  <2>2. CASE tab[t].pc # "issue" /\ client.live /\ tab[t].p.uri \in client.uris
    BY <2>2, TabFacts DEF Registered
  <2> QED BY <2>1, <2>2, Leaves
<1>2. Spec => [][Next]_vars
  BY PTL DEF Spec
<1> QED BY <1>1, <1>2, AuthorizationInvariant, PTL DEF WithinRegistration

\* A code for a client that needs consent covers only scopes that were allowed
\* when the request began or during it (CheckConsent, UpsertConsent), but for
\* those a grant brought back that had read the consent before it was withdrawn
\* or written by another.
THEOREM CodesWereAllowed == Spec => CodeWasAllowed
<1>1. AuthorizationInv => \A t \in Tabs : tab[t].pc = "issue" => tab[t].skip \/ tab[t].p.scopes \subseteq tab[t].allowed \cup tab[t].raced
  BY DEF AuthorizationInv, TabInv, Allowed
<1>2. AuthorizationInv /\ [Next]_vars =>
        [\A t \in Tabs : tab[t].pc = "issue" /\ tab'[t].pc # "issue" =>
            tab[t].skip \/ tab[t].p.scopes \subseteq tab[t].allowed \cup tab[t].raced]_vars
  BY <1>1
<1>3. Spec => [][Next]_vars
  BY PTL DEF Spec
<1> QED BY <1>2, <1>3, AuthorizationInvariant, PTL DEF CodeWasAllowed

\* A code answers the request as it was first sent: prompt=login and max_age
\* hold across the login page and a consent page left open, unless GET /authorize
\* took a stored session for none and the tab has not signed in since.
THEOREM LoginsAreFresh == Spec => FreshLogin
<1>1. AuthorizationInv => \A t \in Tabs : tab[t].pc = "issue" => tab[t].kept \/ SignedIn(tab[t])
  BY DEF AuthorizationInv, TabInv, Signed
<1>2. AuthorizationInv /\ [Next]_vars =>
        [\A t \in Tabs : LET k == tab[t] IN k.pc = "issue" /\ tab'[t].pc # "issue" =>
            \/ k.at >= k.start
            \/ k.kept
            \/ k.asked.prompt \cap Fresh = {} /\ (k.asked.maxAge >= 0 => k.from - k.at <= k.asked.maxAge)]_vars
  BY <1>1 DEF SignedIn
<1>3. Spec => [][Next]_vars
  BY PTL DEF Spec
<1> QED BY <1>2, <1>3, AuthorizationInvariant, PTL DEF FreshLogin
=============================================================================
