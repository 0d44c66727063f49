------------------------------ MODULE MCSignIn ------------------------------
(* Model-checking instance of SignIn: one behaviour mixes the request kinds *)
(* of one scenario, on an account set up as the scenario says.              *)
EXTENDS SignIn, TLC

CONSTANTS r1, r2

Symmetry == Permutations(Requests)

Scenario(k, n, totp, keys, p) ==
    [kinds |-> k, requests |-> n, totp |-> totp, passkeys |-> keys, pending |-> p]

MCScenarios ==
    { \* guessing codes after the password, in parallel
      Scenario({"login", "code"}, 5, 0, {1}, TRUE),
      Scenario({"login", "code"}, 4, 1, {}, TRUE),
      \* passkey challenges and answers beside codes
      Scenario({"challenge", "passkey", "code"}, 4, 0, {1}, TRUE),
      \* signing in while the second step changes from passkey to app
      Scenario({"login", "enable", "remove"}, 4, 0, {1}, FALSE),
      Scenario({"login", "register", "finish"}, 4, 0, {}, FALSE),
      \* an app set up, turned off and set up again
      Scenario({"enable", "disable"}, 4, 0, {}, FALSE),
      \* whole-row writers against the check of a code
      Scenario({"code", "disable", "update"}, 4, 1, {}, TRUE),
      Scenario({"code", "renew", "update"}, 4, 1, {}, TRUE),
      Scenario({"code", "reset", "restart", "login"}, 4, 1, {1}, TRUE) }
=============================================================================
