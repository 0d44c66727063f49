--------------------------- MODULE MCSigningKeys ---------------------------
(* One server with two threads, and runs of idpicoctl beside it. *)
EXTENDS SigningKeys, TLC

CONSTANTS Server, Ctl, t1, t2, t3

MCHome == (t1 :> Server) @@ (t2 :> Server) @@ (t3 :> Ctl)
MCSymmetry == Permutations({t1, t2}) \cup Permutations(Keys)
=============================================================================
