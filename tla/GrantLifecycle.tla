--------------------------- MODULE GrantLifecycle ---------------------------
(***************************************************************************)
(* What the token endpoint promises about one grant, without saying how.   *)
(* A grant starts as an authorization code.  At any time the right to      *)
(* continue it is in one place: a stored credential (the unused code or    *)
(* one live refresh token) or one request that has taken that credential   *)
(* and not yet answered.  A grant that has lost it has ended for good.     *)
(***************************************************************************)
CONSTANT Grants

VARIABLE phase

Phases == {"unborn", "held", "taken", "ended"}

Init == phase = [g \in Grants |-> "unborn"]

\* An authorization code is issued.
Issue(g) == /\ phase[g] = "unborn"
            /\ phase' = [phase EXCEPT ![g] = "held"]

\* One request takes the credential: MarkUsed or Rotate succeeded.
Take(g) == /\ phase[g] = "held"
           /\ phase' = [phase EXCEPT ![g] = "taken"]

\* The request that took it answers with a new refresh token.
Renew(g) == /\ phase[g] = "taken"
            /\ phase' = [phase EXCEPT ![g] = "held"]

\* Grants end: revoked, purged, answered without a refresh token, failed.
\* One administrator action can end many at once.
End(S) == /\ \A g \in S : phase[g] \in {"held", "taken"}
          /\ phase' = [g \in Grants |-> IF g \in S THEN "ended" ELSE phase[g]]

Next == \/ \E g \in Grants : Issue(g) \/ Take(g) \/ Renew(g)
        \/ \E S \in SUBSET Grants : End(S)

Spec == Init /\ [][Next]_phase
=============================================================================
