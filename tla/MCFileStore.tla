---------------------------- MODULE MCFileStore ----------------------------
(* Model-checking instance of FileStore: a behaviour works on one           *)
(* repository, with one row stored; tokens and revocations go together.     *)
EXTENDS FileStore

CONSTANTS w1, w2

\* Tokens and links belong to client 1, or have purpose 1.
Op(f, n, k, u, t) == [file |-> f, name |-> n, key |-> k, user |-> u, tag |-> 1, at |-> t]

Row(k, u, t) == [key |-> k, user |-> u, tag |-> 1, flag |-> FALSE, at |-> t]

Scenario(stored, ops) ==
    [rows |-> [f \in Files |-> IF f \in DOMAIN stored THEN stored[f] ELSE {}],
     ops  |-> ops \cup {Op(f, "Get", 1, 1, 0) : f \in DOMAIN stored}]

Calls(f, names) == {Op(f, n, k, 1, 3) : n \in names, k \in {1, 2}}

MCScenarios ==
    { Scenario([auth_codes |-> {Row(1, 1, 3)}],
               {Op("auth_codes", "MarkUsed", 1, 1, 0), Op("auth_codes", "Create", 2, 1, 3),
                Op("auth_codes", "Delete", 1, 1, 0), Op("auth_codes", "DeleteExpired", 0, 0, 0)}),
      Scenario([tokens |-> {Row(1, 1, 3)}],
               {Op("tokens", "Rotate", 1, 1, 0), Op("tokens", "Create", 2, 1, 3)}),
      Scenario([tokens |-> {Row(1, 1, 3), Row(2, 2, 3)}],
               {Op("tokens", "Revoke", 2, 2, 0), Op("tokens", "RevokeByUserID", 1, 1, 0),
                Op("tokens", "RevokeByClientID", 1, 1, 0), Op("tokens", "DeleteExpired", 0, 0, 0),
                Op("revocations", "DeleteExpired", 0, 0, 0)}),
      Scenario([users |-> {Row(1, 1, 0)}], Calls("users", {"Create", "Update", "Delete"})),
      Scenario([clients |-> {Row(1, 1, 0)}], Calls("clients", {"Create", "Update", "Delete"})),
      Scenario([sessions |-> {Row(1, 1, 2)}],
               {Op("sessions", "Create", 2, 1, 3), Op("sessions", "Delete", 1, 1, 0),
                Op("sessions", "DeleteByUserID", 0, 1, 0), Op("sessions", "DeleteExpired", 0, 0, 0)}),
      Scenario([consents |-> {Row(1, 1, 0)}], Calls("consents", {"Upsert", "Delete", "DeleteByUserID"})),
      Scenario([verification_tokens |-> {Row(1, 1, 2), [Row(2, 1, 2) EXCEPT !.tag = 2]}],
               {Op("verification_tokens", n, 1, 1, 3) :
                   n \in {"Create", "MarkUsed", "DeleteByUserID", "DeleteExpired"}}),
      Scenario([passkeys |-> {Row(1, 1, 0)}],
               {Op("passkeys", n, 1, 1, 0) : n \in {"Create", "Update", "Delete", "DeleteByUserID"}}),
      Scenario([groups |-> {Row(1, 0, 0)}],
               {Op("groups", "Create", 2, 0, 1), Op("groups", "Update", 1, 0, 1), Op("groups", "Delete", 1, 0, 0)}
                 \cup {Op("groups", n, 1, 1, 0) : n \in {"AddMember", "RemoveMember", "RemoveUser"}}),
      Scenario([audit_events |-> {Row(1, 1, 1)}],
               {Op("audit_events", "Append", 2, 1, 2), Op("audit_events", "DeleteBefore", 0, 0, 2)}),
      Scenario([signing_keys |-> {[Row(1, 0, 0) EXCEPT !.flag = TRUE]}],
               {Op("signing_keys", n, k, 0, 3) : n \in {"Save", "SetActive", "Delete"}, k \in {1, 2}}) }
=============================================================================
