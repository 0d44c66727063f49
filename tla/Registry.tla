------------------------------ MODULE Registry ------------------------------
(***************************************************************************)
(* What administrators register: one client row and the groups of one      *)
(* user, changed by the admin console, idpicoctl and, for a client secret  *)
(* kept in clear by an old release, by the token endpoint.                 *)
(*                                                                         *)
(* There is no transaction and no version check: an operation reads a row  *)
(* or a list, and writes a whole row, or one membership at a time, later.  *)
(***************************************************************************)
EXTENDS Integers, FiniteSets

CONSTANTS
    Operators,  \* administrators and token requests at work at the same time
    Forms,      \* client forms that pass the validation of applyClientForm
    Names,      \* group names
    MaxSecrets, \* bound: client secrets generated
    MaxGroups   \* bound: groups created

ASSUME RegistryAssumption ==
    /\ IsFiniteSet(Operators)
    /\ {MaxSecrets, MaxGroups} \subseteq Nat
    /\ \A f \in Forms : f.uris # {} /\ f.scopes # {} /\ {f.public, f.skip, f.code} \subseteq BOOLEAN

VARIABLES
    client,   \* the client row
    groups,   \* the id under each group name and the ids the user belongs to
    op,       \* operations in progress
    scenario, \* what this behaviour starts from and may do (never changes)
    reglog    \* history: ids given out; secrets replaced

regvars == <<client, groups, op, reglog>>

-----------------------------------------------------------------------------
(* Secrets and group ids are numbers in the order they were generated; 0   *)
(* is no secret and no group.                                              *)

Client == {c \in [live: BOOLEAN, public: BOOLEAN, skip: BOOLEAN, code: BOOLEAN, uris: UNION {SUBSET f.uris : f \in Forms},
                  scopes: UNION {SUBSET f.scopes : f \in Forms}, secret: 0..MaxSecrets, hashed: BOOLEAN] :
             c.live => (c.public <=> c.secret = 0)}

NoClient == [live |-> FALSE, public |-> TRUE, skip |-> FALSE, code |-> FALSE,
             uris |-> {}, scopes |-> {}, secret |-> 0, hashed |-> TRUE]

GroupIds == {groups.id[n] : n \in Names} \ {0}

Free == [pc |-> "free", row |-> NoClient, group |-> 0, wanted |-> {}, all |-> {}, todo |-> {}, touched |-> {}]

RegistryInit ==
    /\ client = scenario.client
    /\ groups = [id |-> [n \in Names |-> 0], member |-> {}]
    /\ op = [o \in Operators |-> Free]
    /\ reglog = [ops |-> 0, secrets |-> 1, groups |-> 0, dead |-> {}, held |-> {}]

\* Operator o takes up an operation of kind k.
Begin(o, k) ==
    /\ op[o] = Free
    /\ k \in scenario.kinds
    /\ reglog.ops < scenario.ops

Began == [reglog EXCEPT !.ops = @ + 1]

-----------------------------------------------------------------------------
(* The client row.                                                         *)

\* A row with a new secret, which is stored as a hash.
newClientSecret(row) == [row EXCEPT !.secret = reglog.secrets + 1, !.hashed = TRUE]

applyClientForm(row, f) ==
    [row EXCEPT !.public = f.public, !.skip = f.skip, !.code = f.code, !.uris = f.uris, !.scopes = f.scopes,
                !.secret = IF f.public THEN 0 ELSE @, !.hashed = f.public \/ @]

noNewSecret(row, f) == applyClientForm(row, f)

\* The row UpdateClient saves: a client that becomes confidential gets a secret.
UpdatedClient(row, f) ==
    IF row.public /\ ~f.public THEN newClientSecret(applyClientForm(row, f)) ELSE applyClientForm(row, f)

\* UPDATE ... WHERE id = ?: the whole row, if there still is one.
clientsUpdate(row) == IF client.live THEN row ELSE client

\* Load the row and work out what to save.
Load(o, row, l) ==
    /\ op' = [op EXCEPT ![o] = [Free EXCEPT !.pc = "save", !.row = row]]
    /\ reglog' = l
    /\ UNCHANGED <<client, groups, scenario>>

UpdateClient(o, f) ==
    /\ Begin(o, "update")
    /\ client.live
    /\ reglog.secrets < MaxSecrets
    /\ LET row == UpdatedClient(client, f)
       IN Load(o, row, IF row.secret > reglog.secrets THEN [Began EXCEPT !.secrets = @ + 1] ELSE Began)

RegenerateClientSecret(o) ==
    /\ Begin(o, "regenerate")
    /\ client.live /\ ~client.public
    /\ reglog.secrets < MaxSecrets
    /\ Load(o, newClientSecret(client), [Began EXCEPT !.secrets = @ + 1])

\* A token request whose secret matches one that is stored in clear: the
\* token endpoint means to store the hash.
authenticateClient(o) ==
    /\ Begin(o, "authenticate")
    /\ client.live /\ ~client.public /\ ~client.hashed
    /\ Load(o, [client EXCEPT !.hashed = TRUE], Began)

\* Secrets that other operations are about to write.
HeldByOthers(o) == {op[p].row.secret : p \in {p \in Operators \ {o} : op[p].pc = "save"}}

SaveClient(o) ==
    /\ op[o].pc = "save"
    /\ client' = clientsUpdate(op[o].row)
    /\ op' = [op EXCEPT ![o] = Free]
    /\ reglog' = IF client.live /\ op[o].row.secret # client.secret
                 THEN [reglog EXCEPT !.dead = @ \cup {client.secret},
                                     !.held = @ \cup ({client.secret} \cap HeldByOthers(o))]
                 ELSE reglog
    /\ UNCHANGED <<groups, scenario>>

\* The row of a new client; a confidential one gets a secret.
NewClient(f) == UpdatedClient([NoClient EXCEPT !.live = TRUE], f)

CreateClient(o, f) ==
    /\ Begin(o, "create")
    /\ ~client.live
    /\ reglog.secrets < MaxSecrets
    /\ client' = NewClient(f)
    /\ reglog' = [Began EXCEPT !.secrets = @ + 1, !.held = @ \cup HeldByOthers(o)]
    /\ UNCHANGED <<groups, op, scenario>>

\* The DELETE of DeleteClient, after the client's tokens were revoked.
DropClient(o) ==
    /\ op[o].pc = "drop"
    /\ client' = NoClient
    /\ op' = [op EXCEPT ![o] = Free]
    /\ reglog' = [reglog EXCEPT !.dead = @ \cup {client.secret}]
    /\ UNCHANGED <<groups, scenario>>

-----------------------------------------------------------------------------
(* Groups.                                                                 *)

GroupsForUser == groups.member

groupsCreate(n, g) == [groups EXCEPT !.id[n] = g]

\* UPDATE of the name, which is unique; the group may be gone.
groupsUpdate(g, n) ==
    IF g \in GroupIds /\ groups.id[n] \in {0, g}
    THEN [groups EXCEPT !.id = [m \in Names |-> IF m = n THEN g ELSE IF @[m] = g THEN 0 ELSE @[m]]]
    ELSE groups

\* Its memberships go with it.
groupsDelete(g) == [id |-> [n \in Names |-> IF groups.id[n] = g THEN 0 ELSE groups.id[n]],
                    member |-> groups.member \ {g}]

\* A membership needs its group: a foreign key.
addMember(g) == [groups EXCEPT !.member = IF g \in GroupIds THEN @ \cup {g} ELSE @]

removeMember(g) == [groups EXCEPT !.member = @ \ {g}]

\* Group forms under way learn that somebody else changed memberships of gs.
Touch(o, gs) == [p \in Operators |-> IF p # o /\ op[p].pc \in {"list", "mine", "apply"}
                                     THEN [op[p] EXCEPT !.touched = @ \cup gs] ELSE op[p]]

CreateGroup(o, n) ==
    /\ Begin(o, "group")
    /\ groups.id[n] = 0
    /\ reglog.groups < MaxGroups
    /\ groups' = groupsCreate(n, reglog.groups + 1)
    /\ reglog' = [Began EXCEPT !.groups = @ + 1]
    /\ UNCHANGED <<client, op, scenario>>

\* The group is looked up, by id in the console and by name in idpicoctl.
LoadGroup(o, k, g) ==
    /\ Begin(o, k)
    /\ g \in GroupIds
    /\ op' = [op EXCEPT ![o] = [Free EXCEPT !.pc = k, !.group = g]]
    /\ reglog' = Began
    /\ UNCHANGED <<client, groups, scenario>>

UpdateGroup(o, n) ==
    /\ op[o].pc = "rename"
    /\ groups' = groupsUpdate(op[o].group, n)
    /\ op' = [op EXCEPT ![o] = Free]
    /\ UNCHANGED <<client, scenario, reglog>>

AddGroupMember(o) ==
    /\ op[o].pc = "add"
    /\ groups' = addMember(op[o].group)
    /\ op' = [Touch(o, {op[o].group}) EXCEPT ![o] = Free]
    /\ UNCHANGED <<client, scenario, reglog>>

RemoveGroupMember(o) ==
    /\ op[o].pc = "remove"
    /\ groups' = removeMember(op[o].group)
    /\ op' = [Touch(o, {op[o].group}) EXCEPT ![o] = Free]
    /\ UNCHANGED <<client, scenario, reglog>>

DeleteGroup(o) ==
    /\ op[o].pc = "delete"
    /\ groups' = groupsDelete(op[o].group)
    /\ op' = [op EXCEPT ![o] = Free]
    /\ UNCHANGED <<client, scenario, reglog>>

\* The group form of the user page, submitted with some groups checked.
SetUserGroups(o, w) ==
    /\ Begin(o, "form")
    /\ w \subseteq GroupIds
    /\ op' = [op EXCEPT ![o] = [Free EXCEPT !.pc = "list", !.wanted = w]]
    /\ reglog' = Began
    /\ UNCHANGED <<client, groups, scenario>>

ListGroups(o) ==
    /\ op[o].pc = "list"
    /\ op' = [op EXCEPT ![o].pc = "mine", ![o].all = GroupIds]
    /\ UNCHANGED <<client, groups, scenario, reglog>>

additionsOnly(all, mine, wanted) == (all \cap wanted) \ mine

\* The memberships to change.
groupMemberships(all, mine, wanted) == {g \in all : (g \in wanted) # (g \in mine)}

ListMemberships(o) ==
    /\ op[o].pc = "mine"
    /\ op' = [op EXCEPT ![o].pc = "apply",
                        ![o].todo = groupMemberships(op[o].all, GroupsForUser, op[o].wanted)]
    /\ UNCHANGED <<client, groups, scenario, reglog>>

ChangeMembership(o, g) ==
    /\ op[o].pc = "apply"
    /\ g \in op[o].todo
    /\ groups' = IF g \in op[o].wanted THEN addMember(g) ELSE removeMember(g)
    /\ op' = [Touch(o, {g}) EXCEPT ![o].todo = @ \ {g}]
    /\ UNCHANGED <<client, scenario, reglog>>

GroupsUpdated(o) ==
    /\ op[o].pc = "apply"
    /\ op[o].todo = {}
    /\ op' = [op EXCEPT ![o] = Free]
    /\ UNCHANGED <<client, groups, scenario, reglog>>

RegistryNext ==
    \E o \in Operators :
        \/ \E f \in Forms : UpdateClient(o, f) \/ CreateClient(o, f)
        \/ RegenerateClientSecret(o)
        \/ authenticateClient(o)
        \/ SaveClient(o)
        \/ \E n \in Names : CreateGroup(o, n) \/ UpdateGroup(o, n)
        \/ \E g \in GroupIds, k \in {"rename", "add", "remove", "delete"} : LoadGroup(o, k, g)
        \/ AddGroupMember(o)
        \/ RemoveGroupMember(o)
        \/ DeleteGroup(o)
        \/ \E w \in SUBSET GroupIds : SetUserGroups(o, w)
        \/ ListGroups(o)
        \/ ListMemberships(o)
        \/ \E g \in op[o].todo : ChangeMembership(o, g)
        \/ GroupsUpdated(o)

-----------------------------------------------------------------------------
\* The Registry's part of the type invariant.
RegistryTypeOK ==
    /\ client \in Client
    /\ groups.id \in [Names -> 0..MaxGroups]
    /\ groups.member \subseteq GroupIds
    /\ \A o \in Operators : op[o].row \in Client

\* A replaced secret stays dead: a secret that was regenerated, dropped with
\* a change of the client's kind or deleted with its client never authenticates
\* the client again (RegenerateClientSecret, admin.go:1193).  The exception is a
\* row that another UpdateClient, reset or hash upgrade had read before the
\* change and writes back after it.
OldSecretsStayDead ==
    client.live /\ ~client.public /\ client.secret \in reglog.dead => client.secret \in reglog.held

\* When SetUserGroups has made its last change, the user belongs to exactly the
\* checked groups, groups deleted or created meanwhile and memberships that
\* another request changed meanwhile excepted.
GroupFormApplied ==
    \A o \in Operators : op[o].pc = "apply" /\ op[o].todo = {} =>
        \A g \in GroupIds \ op[o].touched : g \in groups.member <=> g \in op[o].wanted
=============================================================================
