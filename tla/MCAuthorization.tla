-------------------------- MODULE MCAuthorization --------------------------
(* Model-checking instance of Authorization: one behaviour mixes the kinds  *)
(* of one scenario.                                                         *)
EXTENDS Authorization

CONSTANTS t1, t2, o1, o2, n1, n2

Basic == {"openid"}
Wide  == {"openid", "email"}

Form(pub, sk, cd, u, s) == [public |-> pub, skip |-> sk, code |-> cd, uris |-> u, scopes |-> s]

MCForms == { Form(FALSE, FALSE, TRUE, {"u1"}, Wide),
             Form(TRUE, TRUE, TRUE, {"u1", "u2"}, Basic),
             Form(FALSE, FALSE, FALSE, {"u2"}, Basic) }

Plain == [live |-> TRUE, public |-> FALSE, skip |-> FALSE, code |-> TRUE,
          uris |-> {"u1"}, scopes |-> Wide, secret |-> 1, hashed |-> FALSE]

Ask(prompt, maxAge, scopes) ==
    [prompt |-> prompt, maxAge |-> maxAge, scopes |-> scopes, uri |-> "u1", pkce |-> TRUE, valid |-> TRUE]

S(kinds, flows, ops, time, params, signedIn, consent) ==
    [kinds |-> kinds, flows |-> flows, ops |-> ops, time |-> time, params |-> params,
     signedIn |-> signedIn, consent |-> consent, client |-> Plain, faults |-> 0]

MCScenarios ==
    { \* fresh sign-ins in two tabs
      S({"authorize", "logout"}, 2, 0, 2,
        {Ask({"login"}, NoMaxAge, Basic), Ask({}, 1, Wide)}, TRUE, Basic),
      [S({"authorize"}, 1, 0, 5, {Ask({}, 1, Wide), Ask({"select_account", "consent"}, 0, Basic)}, TRUE, Basic)
        EXCEPT !.faults = 1],
      \* grants and withdrawals in two tabs
      S({"authorize", "withdraw"}, 3, 0, 1, {Ask({}, NoMaxAge, Wide)}, TRUE, Basic),
      S({"authorize", "withdraw", "revokeconsent"}, 2, 0, 1,
        {Ask({}, NoMaxAge, Basic), Ask({"consent"}, NoMaxAge, Wide)}, TRUE, Basic),
      \* the client changes under a request
      S({"authorize", "logout", "update", "create", "delete-client"}, 1, 3, 1,
        {Ask({}, NoMaxAge, Wide), [Ask({"none", "login"}, NoMaxAge, Basic) EXCEPT !.pkce = FALSE],
         [Ask({}, NoMaxAge, Basic) EXCEPT !.uri = "u2", !.valid = FALSE]}, FALSE, {}),
      \* the user is disabled and enabled again
      S({"authorize", "disable"}, 2, 0, 1, {Ask({}, NoMaxAge, Basic)}, FALSE, Basic),
      S({"authorize", "disable", "enable"}, 1, 0, 2, {Ask({"login"}, NoMaxAge, Basic), Ask({"none"}, NoMaxAge, Basic)}, TRUE, Basic),
      \* client rows and secrets; groups
      S({"update", "regenerate", "authenticate", "create", "delete-client"}, 0, 4, 1, {}, FALSE, {}),
      S({"group", "rename", "add", "remove", "delete", "form"}, 0, 5, 1, {}, FALSE, {}) }
=============================================================================
