--------------------------- MODULE MCAccountLinks ---------------------------
(* Model-checking instance of AccountLinks: one behaviour mixes the request *)
(* kinds of one scenario.                                                   *)
EXTENDS AccountLinks, TLC

CONSTANTS r1, r2, a1, a2

Symmetry == Permutations(Requests)

Scenario(k, n, e) == [kinds |-> k, requests |-> n, exists |-> e]

MCScenarios ==
    { \* asking for links and following them, some at the same time
      Scenario({"forgot", "send", "reset", "restart"}, 5, TRUE),
      \* every password change against logins and row writers
      Scenario({"login", "setpw", "passwd", "update"}, 4, TRUE),
      Scenario({"login", "send", "verify", "change"}, 5, TRUE),
      \* sign-outs, and a deletion in the middle of everything
      Scenario({"login", "others", "one", "revokeall", "token", "delete"}, 4, TRUE),
      Scenario({"delete", "send", "forgot", "reset", "update"}, 4, TRUE),
      \* a new user
      Scenario({"create", "reset", "verify", "login", "delete"}, 4, FALSE) }

\* A link and a change of address, one request at a time.
MCStaleLink == { Scenario({"send", "verify", "update"}, 5, TRUE) }
=============================================================================
