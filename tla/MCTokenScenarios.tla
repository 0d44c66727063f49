-------------------------- MODULE MCTokenScenarios --------------------------
(***************************************************************************)
(* One instance of TokenGrants that looks at three situations in turn.  An *)
(* instance with two requests, two clients and an administrator at once is *)
(* out of reach; each situation keeps what its questions need, and a       *)
(* behaviour stays in the situation it begins in.                          *)
(***************************************************************************)
EXTENDS MCTokenGrants

VARIABLE scenario

\* Two requests race for the code and the refresh tokens of one client.
Race == [requests : {Requests}, clients : {{c} : c \in Clients}, tokens : {Tokens},
         jtis : {Jtis}, scope : {{OfflineAccess}}, managed : {{}}]

\* Any client presents any credential, and a grant is refreshed and narrowed.
Strangers == [requests : {{p} : p \in Requests}, clients : {Clients}, tokens : {Tokens},
              jtis : {Jtis}, scope : {Scopes}, managed : {{}}]

\* One request, and everything that is revoked, disabled or deleted beside it:
\* the user's rows, or the client's.
Console == [requests : {{p} : p \in Requests}, clients : {{c} : c \in Clients},
            tokens : {{t} : t \in Tokens}, jtis : {Jtis \ {j} : j \in Jtis},
            scope : {{OfflineAccess}}, managed : {Users, Clients}]

\* What is outside the situation has not been touched.
InScenario ==
    /\ \A p \in Requests : req[p] # Idle =>
          /\ req[p].client \in scenario.clients
          /\ req[p].jti \subseteq scenario.jtis
          /\ req[p].want \subseteq scenario.scope
    /\ \A k \in Codes : code[k] # NoCode =>
          code[k].client \in scenario.clients /\ code[k].scope \subseteq scenario.scope
    /\ \A t \in Tokens \ scenario.tokens : rtok[t] = NoToken
    /\ \A c \in Clients \ (scenario.clients \cap scenario.managed) :
          client[c].grants = {} /\ ~client[c].deleting /\ revClient[c] = NoRow
    /\ \A u \in Users \ scenario.managed :
          user[u].row = "active" /\ user[u].job = "none" /\ revUser[u] = NoRow

MCInit == Init /\ scenario \in Race \cup Strangers \cup Console

MCNext ==
    /\ \/ \E p \in scenario.requests : Start(p) \/ Progress(p) \/ Fail(p)
       \/ \E k \in Codes, u \in Users, c \in Clients, s \in SUBSET Scopes \ {{}} :
             IssueCode(k, u, c, s)
       \/ scenario.managed # {} /\ Administration
       \/ Maintenance
       \/ Tick
    /\ UNCHANGED scenario
    /\ InScenario'

MCSpec == MCInit /\ [][MCNext]_<<vars, scenario>>
=============================================================================
