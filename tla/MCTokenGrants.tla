--------------------------- MODULE MCTokenGrants ---------------------------
(* Values for the constants of TokenGrants that a cfg cannot write. *)
EXTENDS TokenGrants, TLC

CONSTANTS AccessLifetime, RefreshLifetime

Lifetime(n) == [c \in Clients |-> n]
MCAccessTTL == Lifetime(AccessLifetime)
MCRefreshTTL == Lifetime(RefreshLifetime)

\* Clients, requests, tokens and access tokens are interchangeable.
MCSymmetry == Permutations(Clients) \cup Permutations(Requests)
              \cup Permutations(Tokens) \cup Permutations(Jtis)
=============================================================================
