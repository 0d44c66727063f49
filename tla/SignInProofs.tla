---------------------------- MODULE SignInProofs ----------------------------
(***************************************************************************)
(* Type correctness of SignIn and the proofs of its safety properties.     *)
(*                                                                         *)
(* None of the properties is inductive.  Each needs to know what requests  *)
(* that have passed one check and not reached the next may still do:       *)
(*   - MutexHeld: who is inside the user's mutex;                          *)
(*   - Drawn: which ids are taken, and by whom;                            *)
(*   - Reservations: an attempt is reserved before a code is checked, so   *)
(*     checks made and checks under way together never exceed the limit;   *)
(*   - Failures: the requests past IsLocked are the only ones that can     *)
(*     still fail once the account is locked;                              *)
(*   - FactorsHeld: what a request saw on throughout is on now;            *)
(*   - Challenges: a challenge is in one place at a time;                  *)
(*   - Secrets: a secret and the recovery codes drawn with it are known to *)
(*     nobody before the request that drew them saves its row;             *)
(*   - Edited: how the row a handler saves comes from the row it read;     *)
(*   - Spent: as long as no row was written over a newer one, no row       *)
(*     accepts a code that was accepted before, but for those of a secret  *)
(*     that was set up again.                                              *)
(***************************************************************************)
EXTENDS SignIn, FiniteSetTheorems, TLAPS

-----------------------------------------------------------------------------
(* Shapes *)

Seconds == {"totp", "passkey"} \X Ids

Typeable == [type : {"recovery", "totp", "passkey", "password", "wrong"}, of : Ids, n : Nat]

Pcs == {"idle", "authenticate", "failed", "factor", "lockcheck", "load", "consume", "take",
        "use", "finish", "change", "verify", "guard", "save", "sessions", "passkeys"}

ReqT == [kind : Kinds \cup {"none"}, pc : Pcs, id : Ids, row : Row, base : Row, tok : Ids,
         code : Typeable, n : Nat, challenge : Ids, held : SUBSET Seconds]

DbT == [user : Row, passkeys : SUBSET Ids, sessions : SUBSET Ids]

LockoutT == [count : Nat, locked : BOOLEAN, lockedAt : Nat]
PendingT == [expires : Nat, attempts : 0..PendingLoginAttempts, passkey : Ids, live : BOOLEAN]
MemT == [lockout : LockoutT, pending : [Ids -> PendingT], ceremony : Nat,
         mutex : SUBSET Requests]

LogT == [started : Ids, stale : BOOLEAN, accepted : SUBSET Typeable,
         twice : SUBSET Typeable, again : SUBSET Ids,
         guesses : Nat, checked : [Ids -> Nat], answered : SUBSET Ids,
         replayed : BOOLEAN, skipped : BOOLEAN]

ScenarioT == [kinds : SUBSET Kinds, requests : Ids, totp : {0, 1}, passkeys : SUBSET {1},
              pending : BOOLEAN]

Shapes ==
    /\ db \in DbT
    /\ mem \in MemT
    /\ req \in [Requests -> ReqT]
    /\ now \in Nat
    /\ scenario \in ScenarioT
    /\ log \in LogT

-----------------------------------------------------------------------------
(* The inductive invariant *)

Running(r) == req[r].pc # "idle"

\* The user's mutex: one request at a time, and always the one at "use".
MutexHeld ==
    /\ \A r \in mem.mutex :
          /\ req[r].pc \in {"use", "finish", "failed"}
          /\ req[r].pc # "use" => req[r].kind \in {"code", "passkey"}
    /\ \A r, s \in mem.mutex : r = s
    /\ \A r \in Requests : req[r].pc = "use" => r \in mem.mutex

\* The ids drawn so far are the first ones, and each request has its own.
Drawn ==
    /\ log.started >= 1
    /\ \A r \in Requests : Running(r) => req[r].id >= 2 /\ req[r].id <= log.started
    /\ \A r, s \in Requests : Running(r) /\ Running(s) /\ req[r].id = req[s].id => r = s
    /\ \A r \in Requests :
          /\ req[r].pc \in {"lockcheck", "load", "take", "verify"} => req[r].kind \in {"code", "passkey"}
          /\ req[r].pc \in {"authenticate", "factor"} => req[r].kind = "login"
          /\ req[r].pc \in {"consume", "use"} => req[r].kind \in {"code", "disable", "renew"}

\* The requests that have reserved an attempt of pending login t and whose
\* code or assertion has not been checked yet.
Reserved(t) ==
    {r \in Requests : /\ req[r].tok = t /\ req[r].kind \in {"code", "passkey"}
                      /\ req[r].pc \in {"lockcheck", "load", "consume", "take", "verify"}}

\* No pending login has this id yet.
Unborn(t) == t > log.started \/ \E r \in Requests : Running(r) /\ req[r].kind = "login" /\ req[r].id = t

Reservations ==
    \A t \in Ids :
        /\ log.checked[t] + Cardinality(Reserved(t)) <= PendingLoginAttempts
        /\ mem.pending[t].live =>
              log.checked[t] + Cardinality(Reserved(t)) <= mem.pending[t].attempts
        /\ Unborn(t) => /\ ~mem.pending[t].live
                        /\ log.checked[t] = 0
                        /\ Reserved(t) = {}

\* The requests past IsLocked that may still record a failure.
MayFail ==
    {r \in Requests : req[r].pc \in {"authenticate", "load", "consume", "take", "verify",
                                     "use", "failed"}}

Failures ==
    /\ log.guesses = mem.lockout.count
    /\ ~mem.lockout.locked => log.guesses < MaxAttempts
    /\ log.guesses <= MaxAttempts + Cardinality(Requests) - 1
    /\ IsLocked => log.guesses + Cardinality(MayFail) <= MaxAttempts + Cardinality(Requests) - 1

\* What a request has seen on throughout is on, and a password that passed
\* leaves the app it saw in the row the request decides by.
FactorsHeld ==
    /\ \A r \in Requests : req[r].held \subseteq Factors(db.user, db.passkeys)
    /\ \A r \in Requests : req[r].pc = "factor" =>
          \A x \in Ids : <<"totp", x>> \in req[r].held => req[r].row.totp = x
    /\ ~log.skipped

\* A challenge is offered by one pending login, held by one request that is
\* about to answer it, or answered: no two of these.
Challenges ==
    /\ \A t \in Ids :
          /\ mem.pending[t].passkey <= log.started
          /\ mem.pending[t].passkey # 0 => mem.pending[t].passkey \notin log.answered
    /\ \A t, s \in Ids :
          mem.pending[t].passkey # 0 /\ mem.pending[t].passkey = mem.pending[s].passkey => t = s
    /\ \A r \in Requests : req[r].pc = "verify" =>
          /\ req[r].challenge # 0 /\ req[r].challenge <= log.started
          /\ req[r].challenge \notin log.answered
          /\ \A t \in Ids : mem.pending[t].passkey # req[r].challenge
    /\ \A r, s \in Requests : req[r].pc = "verify" /\ req[s].pc = "verify"
                              /\ req[r].challenge = req[s].challenge => r = s
    /\ \A c \in log.answered : c <= log.started
    /\ ~log.replayed

\* The row has neither the secret nor the recovery codes drawn under id i; of a
\* secret that was set up again (A) only the codes.
Without(row, i, A) == (row.totp # i \/ i \in A) /\ \A c \in row.codes : c.of # i

\* A request that has not written its row may still be the only one to know
\* the secret and the codes drawn under its id.
Secret(i) ==
    \/ i > log.started
    \/ \E r \in Requests : Running(r) /\ req[r].id = i /\ req[r].pc \notin {"save", "sessions", "passkeys"}

Secrets ==
    /\ \A i \in Ids : Secret(i) =>
          /\ i \notin log.again
          /\ Without(db.user, i, log.again)
          /\ \A s \in Requests : Without(req[s].row, i, log.again) /\ Without(req[s].base, i, log.again)
          /\ \A c \in log.accepted : c.of # i
    /\ \A r \in Requests : req[r].pc = "save" =>
          /\ Without(db.user, req[r].id, log.again)
          /\ \A s \in Requests : /\ s # r => Without(req[s].row, req[r].id, log.again)
                                 /\ Without(req[s].base, req[r].id, log.again)
          /\ \A c \in log.accepted : c.of = req[r].id =>
                /\ c.type = "totp"
                /\ \/ req[r].row.totp = req[r].id /\ c.n <= req[r].row.step
                   \/ req[r].id \in log.again

\* The secret of code c is one that was used before.
Known(c) == \E a \in log.accepted : a.type = "totp" /\ a.of = c.of

\* How the row a handler is about to save comes from the row it read: only its
\* own codes are new, and the app was kept, dropped, drawn by this request or
\* set up again (A).
RowMade(row, base, id, A) ==
    /\ \A c \in row.codes : c \in base.codes \/ c.of = id
    /\ \/ row.totp = 0
       \/ row.totp = base.totp /\ row.step = base.step
       \/ row.totp = id
       \/ row.totp \in A

Edited ==
    \A r \in Requests :
        /\ req[r].pc \in {"guard", "change"} => req[r].row = req[r].base
        /\ req[r].pc \in {"guard", "change"} /\ req[r].kind = "enable" /\ req[r].code.type = "totp"
              => req[r].code.of = req[r].id \/ Known(req[r].code)
        /\ req[r].pc = "save" => RowMade(req[r].row, req[r].base, req[r].id, log.again)

\* The row refuses every code accepted so far, but for those of a secret that
\* was set up again.
Refuses(row) ==
    \A c \in log.accepted :
        /\ c.type = "totp" /\ c.of = row.totp => c.n <= row.step \/ c.of \in log.again
        /\ c \notin row.codes

Spent ==
    /\ \A c \in log.accepted : c.type \in {"totp", "recovery"} /\ (c.type = "totp" => c.of # 0)
    /\ ~log.stale =>
          /\ Refuses(db.user)
          /\ \A r \in Requests : req[r].pc = "use" => Refuses(req[r].row)
          /\ \A c \in log.twice : c.type = "totp" /\ c.of \in log.again

SignInInv ==
    /\ Shapes /\ MutexHeld /\ Drawn /\ Reservations /\ Failures /\ FactorsHeld
    /\ Challenges /\ Secrets /\ Edited /\ Spent

-----------------------------------------------------------------------------
(* The parts keep their shape *)

AllCodes == UNION {Codes(i) : i \in Ids}

\* The parameters are numbers; 0 and 1 are ids.
LEMMA Parameters ==
  /\ MaxAttempts \in Nat /\ MaxAttempts > 0 /\ LockDuration \in Nat
  /\ PendingLoginAttempts \in Nat /\ PendingLoginAttempts > 0
  /\ PendingLoginTTL \in Nat /\ CeremonyTTL \in Nat /\ TOTPSkew \in Nat
  /\ RecoveryCodeCount \in Nat /\ MaxRequests \in Nat /\ IsFiniteSet(Requests)
  /\ Ids \subseteq Nat /\ 0 \in Ids /\ 1 \in Ids
  /\ Scenarios \subseteq ScenarioT
BY SignInAssumption, ScenariosAssumption DEF Ids, ScenarioT

\* What a recovery code is.
LEMMA RecoveryCodes ==
  /\ \A c \in AllCodes : c \in Typeable /\ c.type = "recovery"
  /\ \A i \in Ids : Codes(i) \subseteq AllCodes
  /\ \A i \in Ids : \A c \in Codes(i) : c.of = i
<1>1. ASSUME NEW i \in Ids, NEW c \in Codes(i)
      PROVE  c \in Typeable /\ c.type = "recovery" /\ c.of = i
  BY <1>1, Parameters DEF Codes, Typeable
<1> QED BY <1>1 DEF AllCodes

\* The row of the account, by its columns.
LEMMA RowType ==
  ASSUME NEW row
  PROVE  row \in Row <=> row \in [active : BOOLEAN, totp : Ids, step : Nat, codes : SUBSET AllCodes]
BY DEF Row, AllCodes

\* The values things start from have the right shape.
LEMMA BasicTypes ==
  /\ NoRow \in Row /\ Wrong \in Typeable /\ Right \in Typeable
  /\ Idle \in ReqT /\ NoPending \in PendingT /\ NoLockout \in LockoutT
  /\ FreshMemory \in MemT
<1>1. NoRow \in Row
  BY Parameters, RowType DEF NoRow
<1>2. Wrong \in Typeable /\ Right \in Typeable
  BY Parameters DEF Wrong, Right, Typeable
<1>3. Idle \in ReqT
  BY <1>1, <1>2, Parameters DEF Idle, ReqT, Pcs
<1>4. NoPending \in PendingT /\ NoLockout \in LockoutT
  BY Parameters DEF NoPending, NoLockout, PendingT, LockoutT
<1>5. FreshMemory \in MemT
  BY <1>4 DEF FreshMemory, MemT
<1> QED BY <1>1, <1>2, <1>3, <1>4, <1>5

\* The edits of a row that handlers make.
LEMMA RowEdits ==
  ASSUME NEW row \in Row
  PROVE  /\ ClearTOTP(row) \in Row
         /\ \A C \in SUBSET AllCodes : [row EXCEPT !.codes = C] \in Row
         /\ \A b \in BOOLEAN : [row EXCEPT !.active = b] \in Row
         /\ \A i \in Ids, n \in Nat, C \in SUBSET AllCodes :
               [row EXCEPT !.totp = i, !.step = n, !.codes = C] \in Row
         /\ \A c \in Typeable : UseCode(row, c) \in Row
<1>1. row \in [active : BOOLEAN, totp : Ids, step : Nat, codes : SUBSET AllCodes]
  BY RowType
<1>2. \A c \in Typeable : [row EXCEPT !.step = c.n] \in Row /\ [row EXCEPT !.codes = @ \ {c}] \in Row
  BY <1>1, RowType DEF Typeable
<1> QED BY <1>1, <1>2, RowType, Parameters DEF ClearTOTP, UseCode

\* What is on is a set of second steps.
LEMMA FactorsType ==
  ASSUME NEW row \in Row, NEW keys \in SUBSET Ids
  PROVE  Factors(row, keys) \subseteq Seconds
BY RowType DEF Factors, Seconds

-----------------------------------------------------------------------------
(* How one request moves *)

\* Another request's step leaves request s alone, but for what it saw on.
Same(s) ==
    /\ req'[s].kind = req[s].kind /\ req'[s].pc = req[s].pc /\ req'[s].id = req[s].id
    /\ req'[s].row = req[s].row /\ req'[s].base = req[s].base /\ req'[s].tok = req[s].tok
    /\ req'[s].code = req[s].code /\ req'[s].n = req[s].n
    /\ req'[s].challenge = req[s].challenge /\ req'[s].held \subseteq req[s].held

OthersSame(r) == \A s \in Requests : s # r => Same(s)

\* r goes on to one of the steps pcs.
Moves(r, pcs) ==
    /\ OthersSame(r)
    /\ req'[r].pc \in pcs /\ req'[r].kind = req[r].kind /\ req'[r].id = req[r].id
    /\ req'[r].tok = req[r].tok /\ req'[r].code = req[r].code /\ req'[r].n = req[r].n
    /\ req'[r].held \subseteq req[r].held

Ends(r) ==
    /\ OthersSame(r)
    /\ req'[r].pc = "idle" /\ req'[r].row = NoRow /\ req'[r].base = NoRow
    /\ req'[r].held = {}

\* r starts on the stored row, under the next id.
Opens(r, kinds, pcs) ==
    /\ OthersSame(r)
    /\ req[r].pc = "idle" /\ NextId \in Ids /\ log' = Started /\ db' = db
    /\ req'[r].kind \in kinds /\ req'[r].pc \in pcs /\ req'[r].id = NextId
    /\ req'[r].base = db.user /\ req'[r].challenge = 0
    /\ req'[r].held = Factors(db.user, db.passkeys)

\* One request's record is replaced.
LEMMA OneReplaced ==
  ASSUME Shapes, NEW r \in Requests, NEW q \in ReqT, req' = [req EXCEPT ![r] = q]
  PROVE  req' \in [Requests -> ReqT] /\ OthersSame(r) /\ req'[r] = q
BY DEF Shapes, OthersSame, Same

\* One request's record is replaced, and what requests saw on is narrowed.
LEMMA OneNarrowed ==
  ASSUME Shapes, NEW r \in Requests, NEW q \in ReqT, NEW row, NEW keys,
         req' = Narrow([req EXCEPT ![r] = q], row, keys)
  PROVE  /\ req' \in [Requests -> ReqT] /\ OthersSame(r)
         /\ req'[r] = [q EXCEPT !.held = @ \cap Factors(row, keys)]
         /\ \A s \in Requests : req'[s].held \subseteq Factors(row, keys)
<1> DEFINE F == Factors(row, keys)
           nx == [req EXCEPT ![r] = q]
<1>1. nx \in [Requests -> ReqT] /\ nx[r] = q /\ \A s \in Requests : s # r => nx[s] = req[s]
  BY DEF Shapes
<1> HIDE DEF nx
<1>2. req' = [s \in Requests |-> [nx[s] EXCEPT !.held = @ \cap F]]
  BY DEF Narrow, nx
<1> HIDE DEF F
<1>3. ASSUME NEW s \in Requests
      PROVE  /\ req'[s] = [nx[s] EXCEPT !.held = @ \cap F] /\ req'[s] \in ReqT
             /\ req'[s].held = nx[s].held \cap F
  <2>1. req'[s] = [nx[s] EXCEPT !.held = @ \cap F] /\ nx[s] \in ReqT
    BY <1>1, <1>2
  <2> QED BY ONLY <2>1 DEF ReqT
<1>4. ASSUME NEW s \in Requests, s # r PROVE Same(s)
  <2>1. req'[s] = [req[s] EXCEPT !.held = @ \cap F] /\ req[s] \in ReqT
    BY <1>1, <1>3, <1>4
  <2> QED BY <2>1 DEF ReqT, Same
<1> QED BY <1>1, <1>2, <1>3, <1>4 DEF OthersSame, F

\* Going to another step.
LEMMA GotoFacts ==
  ASSUME Shapes, NEW r \in Requests, NEW pc \in Pcs, req' = Goto(r, pc)
  PROVE  /\ req' \in [Requests -> ReqT] /\ Moves(r, {pc})
         /\ req'[r].row = req[r].row /\ req'[r].base = req[r].base
         /\ req'[r].challenge = req[r].challenge /\ req'[r].held = req[r].held
<1>1. req[r] \in ReqT
  BY DEF Shapes
<1>2. [req[r] EXCEPT !.pc = pc] \in ReqT
  BY <1>1 DEF ReqT
<1>3. req' = [req EXCEPT ![r] = [req[r] EXCEPT !.pc = pc]]
  BY DEF Goto
<1>4. req' \in [Requests -> ReqT] /\ OthersSame(r) /\ req'[r] = [req[r] EXCEPT !.pc = pc]
  BY <1>2, <1>3, OneReplaced
<1> QED BY <1>1, <1>4 DEF ReqT, Moves

\* Ending.
LEMMA EndFacts ==
  ASSUME Shapes, NEW r \in Requests, req' = End(r)
  PROVE  req' \in [Requests -> ReqT] /\ Ends(r)
<1>1. req' \in [Requests -> ReqT] /\ OthersSame(r) /\ req'[r] = Idle
  BY BasicTypes, OneReplaced DEF End
<1> QED BY <1>1 DEF Ends, Idle

NewRecord(k, pc, tok, code) ==
    [Idle EXCEPT !.kind = k, !.pc = pc, !.id = NextId, !.tok = tok, !.code = code,
                 !.row = db.user, !.base = db.user, !.held = Factors(db.user, db.passkeys)]

\* The record a request starts with.
LEMMA NewRecordType ==
  ASSUME Shapes, NEW k \in Kinds, NEW pc \in Pcs, NEW tok \in Ids, NEW code \in Typeable,
         NextId \in Ids
  PROVE  LET q == NewRecord(k, pc, tok, code)
         IN  /\ q \in ReqT
             /\ q.kind = k /\ q.pc = pc /\ q.id = NextId /\ q.tok = tok /\ q.code = code
             /\ q.row = db.user /\ q.base = db.user /\ q.challenge = 0 /\ q.n = 0
             /\ q.held = Factors(db.user, db.passkeys)
<1> DEFINE F == Factors(db.user, db.passkeys)
<1>1. db.user \in Row /\ db.passkeys \in SUBSET Ids
  BY DEF Shapes, DbT
<1>2. F \in SUBSET Seconds
  BY <1>1, FactorsType
<1>3. Idle \in ReqT /\ Idle.challenge = 0 /\ Idle.n = 0
  BY BasicTypes DEF Idle
<1>4. NewRecord(k, pc, tok, code) =
        [Idle EXCEPT !.kind = k, !.pc = pc, !.id = NextId, !.tok = tok, !.code = code,
                     !.row = db.user, !.base = db.user, !.held = F]
  BY DEF NewRecord
<1> DEFINE new == NewRecord(k, pc, tok, code)
<1> HIDE DEF F
<1>5. /\ new \in ReqT
      /\ new.kind = k /\ new.pc = pc /\ new.id = NextId /\ new.tok = tok /\ new.code = code
      /\ new.row = db.user /\ new.base = db.user /\ new.challenge = 0 /\ new.n = 0
      /\ new.held = F
  <2>1. new = [Idle EXCEPT !.kind = k, !.pc = pc, !.id = NextId, !.tok = tok, !.code = code,
                           !.row = db.user, !.base = db.user, !.held = F]
    BY <1>4
  <2> HIDE DEF new
  <2>2. NextId \in Ids /\ k \in Kinds /\ pc \in Pcs /\ tok \in Ids /\ code \in Typeable
    OBVIOUS
  <2> QED BY ONLY <1>1, <1>2, <1>3, <2>1, <2>2 DEF ReqT
<1> QED BY <1>5 DEF F

\* The next id is an id while requests may start.
LEMMA NextIdType ==
  ASSUME Shapes, NEW r, NEW k, Begin(r, k)
  PROVE  /\ NextId \in Ids /\ req[r] = Idle /\ req[r].pc = "idle" /\ k \in Kinds
         /\ Started \in LogT /\ Started.started = log.started + 1
<1>1. log.started \in Ids /\ scenario.requests \in Ids /\ scenario.kinds \subseteq Kinds
  BY DEF Shapes, LogT, ScenarioT
<1>2. NextId \in Ids
  BY <1>1, Parameters DEF Begin, NextId, Ids
<1>3. Started \in LogT /\ Started.started = log.started + 1
  BY <1>2 DEF Started, NextId, Shapes, LogT
<1> QED BY <1>1, <1>2, <1>3 DEF Begin, Idle

\* Starting: the new record is the only change to the requests.
LEMMA NewFacts ==
  ASSUME Shapes, NEW r \in Requests, NEW k, NEW pc \in Pcs, NEW tok \in Ids,
         NEW code \in Typeable, Begin(r, k), req' = New(r, k, pc, tok, code),
         log' = Started, db' = db
  PROVE  /\ req' \in [Requests -> ReqT] /\ Opens(r, {k}, {pc})
         /\ req'[r].tok = tok /\ req'[r].code = code /\ req'[r].row = db.user
<1>1. NextId \in Ids /\ req[r].pc = "idle" /\ k \in Kinds
  BY NextIdType
<1>2. NewRecord(k, pc, tok, code) \in ReqT
  BY <1>1, NewRecordType
<1>3. req' = [req EXCEPT ![r] = NewRecord(k, pc, tok, code)]
  BY DEF New, NewRecord
<1>4. req' \in [Requests -> ReqT] /\ OthersSame(r) /\ req'[r] = NewRecord(k, pc, tok, code)
  BY <1>2, <1>3, OneReplaced
<1> QED BY <1>1, <1>4, NewRecordType DEF Opens

-----------------------------------------------------------------------------
(* What each step does *)

\* Everything in the history but the count of failures.
HistoryKept ==
    /\ log'.started = log.started /\ log'.stale = log.stale /\ log'.accepted = log.accepted
    /\ log'.twice = log.twice /\ log'.again = log.again /\ log'.checked = log.checked /\ log'.answered = log.answered
    /\ log'.replayed = log.replayed

RowsKept == db'.user = db.user /\ db'.passkeys = db.passkeys

\* The tables' operations keep their shape.
LEMMA TableTypes ==
  ASSUME Shapes
  PROVE  /\ RecordFailure \in LockoutT
         /\ CountGuess \in LogT
         /\ \A t \in Ids : /\ pendingAdd(t) \in [Ids -> PendingT]
                           /\ pendingReserve(t) \in [Ids -> PendingT]
                           /\ pendingRemove(t) \in [Ids -> PendingT]
                           /\ takePasskeyChallenge(t) \in [Ids -> PendingT]
                           /\ \A i \in Ids : setPasskeyChallenge(t, i) \in [Ids -> PendingT]
<1>1. /\ mem.lockout \in LockoutT /\ mem.pending \in [Ids -> PendingT] /\ now \in Nat
      /\ log \in LogT
  BY DEF Shapes, MemT
<1>2. RecordFailure \in LockoutT
  <2>1. mem.lockout.count \in Nat
    BY <1>1 DEF LockoutT
  <2> QED BY <1>1, <2>1 DEF RecordFailure, LockoutT
<1>3. CountGuess \in LogT
  BY <1>1 DEF CountGuess, LogT
<1>4. ASSUME NEW t \in Ids
      PROVE  /\ pendingAdd(t) \in [Ids -> PendingT]
             /\ pendingReserve(t) \in [Ids -> PendingT]
             /\ pendingRemove(t) \in [Ids -> PendingT]
             /\ takePasskeyChallenge(t) \in [Ids -> PendingT]
             /\ \A i \in Ids : setPasskeyChallenge(t, i) \in [Ids -> PendingT]
  <2>1. NoPending \in PendingT /\ mem.pending[t] \in PendingT
    BY <1>1, BasicTypes
  <2>2. [expires |-> now + PendingLoginTTL, attempts |-> 0, passkey |-> 0, live |-> TRUE] \in PendingT
    BY <1>1, Parameters DEF PendingT
  <2>3. pendingUsable(t) => [mem.pending[t] EXCEPT !.attempts = @ + 1] \in PendingT
    BY <2>1, Parameters DEF PendingT, pendingUsable
  <2>4. \A i \in Ids : [mem.pending[t] EXCEPT !.passkey = i] \in PendingT
    BY <2>1 DEF PendingT
  <2>5. pendingAdd(t) \in [Ids -> PendingT]
    BY <1>1, <2>1, <2>2 DEF pendingAdd
  <2>6. pendingReserve(t) \in [Ids -> PendingT]
    BY <1>1, <2>1, <2>3 DEF pendingReserve
  <2> QED BY <1>1, <2>1, <2>4, <2>5, <2>6, Parameters DEF pendingRemove, takePasskeyChallenge, setPasskeyChallenge
<1> QED BY <1>2, <1>3, <1>4

\* Authenticate: the password is right and the row active, or not.
LEMMA AuthenticateFacts ==
  ASSUME Shapes, NEW r \in Requests, Authenticate(r)
  PROVE  /\ Shapes' /\ req[r].pc = "authenticate" /\ Moves(r, {"factor", "failed"})
         /\ req'[r].row = db.user /\ req'[r].base = req[r].base
         /\ UNCHANGED <<db, mem, now, log>>
<1> DEFINE pc == IF db.user.active /\ req[r].code # Wrong THEN "factor" ELSE "failed"
           q == [req[r] EXCEPT !.row = db.user, !.pc = pc]
<1>1. req[r] \in ReqT /\ db.user \in Row
  BY DEF Shapes, DbT
<1>2. pc \in Pcs /\ pc \in {"factor", "failed"}
  BY DEF Pcs
<1>3. req' = [req EXCEPT ![r] = q]
  BY DEF Authenticate
<1> HIDE DEF pc
<1>4. q \in ReqT
  BY <1>1, <1>2 DEF ReqT
<1>5. req' \in [Requests -> ReqT] /\ OthersSame(r) /\ req'[r] = q
  BY <1>3, <1>4, OneReplaced
<1>6. Moves(r, {"factor", "failed"}) /\ req'[r].row = db.user /\ req'[r].base = req[r].base
  BY <1>1, <1>2, <1>5 DEF ReqT, Moves
<1> QED BY <1>5, <1>6 DEF Authenticate, Shapes

\* Login: a password was typed while the account was not locked.
LEMMA LoginFacts ==
  ASSUME Shapes, NEW r \in Requests, NEW password \in {Right, Wrong}, Login(r, password)
  PROVE  /\ Shapes' /\ Opens(r, {"login"}, {"authenticate"}) /\ req'[r].row = db.user
         /\ ~IsLocked /\ UNCHANGED <<mem, now>>
<1>1. "authenticate" \in Pcs /\ 0 \in Ids /\ password \in Typeable
  BY Parameters, BasicTypes DEF Pcs
<1>2. req' \in [Requests -> ReqT] /\ Opens(r, {"login"}, {"authenticate"}) /\ req'[r].row = db.user
  BY <1>1, NewFacts DEF Login
<1> QED BY <1>2, NextIdType DEF Login, Shapes

\* Login's failed check: one more failure.
LEMMA LoginFailedFacts ==
  ASSUME Shapes, NEW r \in Requests, LoginFailed(r)
  PROVE  /\ Shapes' /\ req[r].pc = "failed" /\ req[r].kind \notin {"code", "passkey"} /\ Ends(r)
         /\ mem'.lockout = RecordFailure /\ mem'.pending = mem.pending /\ mem'.mutex = mem.mutex
         /\ log' = CountGuess /\ HistoryKept /\ log'.skipped = log.skipped
         /\ UNCHANGED <<db, now>>
<1>1. req' \in [Requests -> ReqT] /\ Ends(r)
  BY EndFacts DEF LoginFailed
<1>2. /\ mem' \in MemT /\ mem'.lockout = RecordFailure /\ mem'.pending = mem.pending
      /\ mem'.mutex = mem.mutex
  BY TableTypes DEF LoginFailed, Shapes, MemT
<1>3. CountGuess \in LogT
  BY TableTypes
<1>4. HistoryKept /\ log'.skipped = log.skipped
  BY DEF LoginFailed, CountGuess, HistoryKept, Shapes, LogT
<1> QED BY <1>1, <1>2, <1>3, <1>4 DEF LoginFailed, Shapes

\* Login with a second step due: a pending login is recorded.
LEMMA SecondFactorRequiredFacts ==
  ASSUME Shapes, NEW r \in Requests, SecondFactorRequired(r)
  PROVE  /\ Shapes' /\ req[r].pc = "factor" /\ Ends(r)
         /\ mem'.pending = pendingAdd(req[r].id) /\ mem'.lockout = mem.lockout
         /\ mem'.mutex = mem.mutex /\ UNCHANGED <<db, now, log>>
<1>1. req' \in [Requests -> ReqT] /\ Ends(r)
  BY EndFacts DEF SecondFactorRequired
<1>2. req[r].id \in Ids
  BY DEF Shapes, ReqT
<1>3. pendingAdd(req[r].id) \in [Ids -> PendingT]
  BY <1>2, TableTypes
<1>4. /\ mem' \in MemT /\ mem'.pending = pendingAdd(req[r].id) /\ mem'.lockout = mem.lockout
      /\ mem'.mutex = mem.mutex
  BY <1>3 DEF SecondFactorRequired, Shapes, MemT
<1> QED BY <1>1, <1>4 DEF SecondFactorRequired, Shapes

\* A fresh session; the rows that signing in reads stay.
LEMMA StartSessionFacts ==
  ASSUME Shapes, NEW r \in Requests, startSession(r)
  PROVE  db' \in DbT /\ RowsKept /\ req' \in [Requests -> ReqT] /\ Ends(r)
<1>1. req' \in [Requests -> ReqT] /\ Ends(r)
  BY EndFacts DEF startSession
<1>2. db \in DbT /\ req[r].id \in Ids
  BY DEF Shapes, ReqT
<1>3. PICK old : db' = [db EXCEPT !.sessions = SessionCreate(@ \ {old}, req[r].id)]
  BY DEF startSession
<1>4. SessionCreate(db.sessions \ {old}, req[r].id) \in SUBSET Ids
  BY <1>2 DEF SessionCreate, DbT
<1>5. db' \in DbT /\ RowsKept
  BY <1>2, <1>3, <1>4 DEF DbT, RowsKept
<1> QED BY <1>1, <1>5

\* Login by the password alone.
LEMMA PasswordOnlyFacts ==
  ASSUME Shapes, NEW r \in Requests, PasswordOnly(r)
  PROVE  /\ Shapes' /\ req[r].pc = "factor" /\ ~hasSecondFactor(req[r].row) /\ Ends(r) /\ RowsKept
         /\ mem'.lockout = NoLockout /\ mem'.pending = mem.pending /\ mem'.mutex = mem.mutex
         /\ log'.guesses = 0 /\ HistoryKept
         /\ log'.skipped = (log.skipped \/ req[r].held # {}) /\ now' = now
<1>1. db' \in DbT /\ RowsKept /\ req' \in [Requests -> ReqT] /\ Ends(r)
  BY StartSessionFacts DEF PasswordOnly
<1>2. /\ mem' \in MemT /\ mem'.lockout = NoLockout /\ mem'.pending = mem.pending
      /\ mem'.mutex = mem.mutex
  BY BasicTypes DEF PasswordOnly, RecordSuccess, Shapes, MemT
<1>3. /\ log' \in LogT /\ log'.guesses = 0 /\ HistoryKept
      /\ log'.skipped = (log.skipped \/ req[r].held # {})
  BY DEF PasswordOnly, Shapes, LogT, HistoryKept
<1> QED BY <1>1, <1>2, <1>3 DEF PasswordOnly, Shapes

\* reserve: the attempt is counted before anything is checked.
LEMMA ReserveFacts ==
  ASSUME Shapes, NEW r \in Requests, NEW k \in {"code", "passkey"}, NEW t \in Ids,
         NEW code \in Typeable, reservePendingAttempt(r, k, t, code)
  PROVE  /\ Shapes'
         /\ mem'.pending = pendingReserve(t) /\ mem'.lockout = mem.lockout /\ mem'.mutex = mem.mutex
         /\ log' = Started /\ NextId \in Ids /\ UNCHANGED <<db, now>>
         /\ \/ /\ pendingUsable(t) /\ Opens(r, {k}, {"lockcheck"}) /\ req'[r].tok = t
               /\ req'[r].row = db.user
            \/ ~pendingUsable(t) /\ req' = req
<1>1. NextId \in Ids /\ req[r].pc = "idle" /\ Started \in LogT /\ k \in Kinds
  BY NextIdType DEF reservePendingAttempt
<1>2. /\ mem' \in MemT /\ mem'.pending = pendingReserve(t) /\ mem'.lockout = mem.lockout
      /\ mem'.mutex = mem.mutex
  BY TableTypes DEF reservePendingAttempt, Shapes, MemT
<1>3. CASE ~pendingUsable(t)
  BY <1>1, <1>2, <1>3 DEF reservePendingAttempt, Shapes
<1>4. CASE pendingUsable(t)
  <2> DEFINE q == NewRecord(k, "lockcheck", t, code)
             m == mem.pending[t].attempts + 1
  <2>1. /\ q \in ReqT /\ q.kind = k /\ q.pc = "lockcheck" /\ q.id = NextId /\ q.tok = t
        /\ q.row = db.user /\ q.base = db.user /\ q.challenge = 0
        /\ q.held = Factors(db.user, db.passkeys)
    BY <1>1, NewRecordType DEF Pcs
  <2>2. m \in Nat
    BY DEF Shapes, MemT, PendingT
  <2>3. req' = [req EXCEPT ![r] = [q EXCEPT !.n = m]]
    BY <1>4 DEF reservePendingAttempt, New, NewRecord, Shapes
  <2> HIDE DEF q, m
  <2>4. [q EXCEPT !.n = m] \in ReqT
    BY <2>1, <2>2 DEF ReqT
  <2>5. req' \in [Requests -> ReqT] /\ OthersSame(r) /\ req'[r] = [q EXCEPT !.n = m]
    BY <2>3, <2>4, OneReplaced
  <2>6. /\ req'[r].kind = k /\ req'[r].pc = "lockcheck" /\ req'[r].id = NextId /\ req'[r].tok = t
        /\ req'[r].row = db.user /\ req'[r].base = db.user /\ req'[r].challenge = 0
        /\ req'[r].held = Factors(db.user, db.passkeys)
    BY <2>1, <2>5 DEF ReqT
  <2>7. log' = Started /\ UNCHANGED <<db, now, scenario>>
    BY DEF reservePendingAttempt
  <2>8. Opens(r, {k}, {"lockcheck"})
    BY <1>1, <2>5, <2>6, <2>7 DEF Opens
  <2> QED BY <1>1, <1>2, <1>4, <2>5, <2>6, <2>7, <2>8 DEF Shapes
<1> QED BY <1>3, <1>4

\* The lock is looked at again before the second step is checked.
LEMMA PendingLockCheckFacts ==
  ASSUME Shapes, NEW r \in Requests, PendingLockCheck(r)
  PROVE  /\ Shapes' /\ req[r].pc = "lockcheck" /\ UNCHANGED <<db, now, log>>
         /\ mem'.lockout = mem.lockout /\ mem'.mutex = mem.mutex
         /\ \/ Ends(r) /\ mem'.pending = pendingRemove(req[r].tok)
            \/ /\ Moves(r, {"load"}) /\ ~IsLocked /\ mem'.pending = mem.pending
               /\ req'[r].row = req[r].row /\ req'[r].base = req[r].base
<1>1. req[r].tok \in Ids
  BY DEF Shapes, ReqT
<1>2. pendingRemove(req[r].tok) \in [Ids -> PendingT]
  BY <1>1, TableTypes
<1>3. CASE IsLocked
  <2>1. req' \in [Requests -> ReqT] /\ Ends(r)
    BY <1>3, EndFacts DEF PendingLockCheck
  <2>2. /\ mem' \in MemT /\ mem'.pending = pendingRemove(req[r].tok) /\ mem'.lockout = mem.lockout
        /\ mem'.mutex = mem.mutex
    BY <1>2, <1>3 DEF PendingLockCheck, Shapes, MemT
  <2> QED BY <2>1, <2>2 DEF PendingLockCheck, Shapes
<1>4. CASE ~IsLocked
  <2>1. /\ req' \in [Requests -> ReqT] /\ Moves(r, {"load"})
        /\ req'[r].row = req[r].row /\ req'[r].base = req[r].base
    BY <1>4, GotoFacts DEF PendingLockCheck, Pcs
  <2> QED BY <1>4, <2>1 DEF PendingLockCheck, Shapes
<1> QED BY <1>3, <1>4

\* The user is loaded before the second step is checked.
LEMMA PendingLoadFacts ==
  ASSUME Shapes, NEW r \in Requests, PendingLoad(r)
  PROVE  /\ Shapes' /\ req[r].pc = "load" /\ UNCHANGED <<db, now, log>>
         /\ mem'.lockout = mem.lockout /\ mem'.mutex = mem.mutex
         /\ \/ Ends(r) /\ mem'.pending = pendingRemove(req[r].tok)
            \/ /\ Moves(r, {"consume", "take"}) /\ mem'.pending = mem.pending
               /\ req'[r].pc = "consume" <=> req[r].kind = "code"
               /\ req'[r].row = req[r].row /\ req'[r].base = req[r].base
<1> DEFINE gone == ~db.user.active \/ ~hasSecondFactor(db.user)
<1>1. req[r].tok \in Ids
  BY DEF Shapes, ReqT
<1>2. pendingRemove(req[r].tok) \in [Ids -> PendingT]
  BY <1>1, TableTypes
<1>3. CASE gone
  <2>1. req' = End(r) /\ mem' = [mem EXCEPT !.pending = pendingRemove(req[r].tok)]
    BY <1>3 DEF PendingLoad
  <2>2. req' \in [Requests -> ReqT] /\ Ends(r)
    BY <2>1, EndFacts
  <2>3. /\ mem' \in MemT /\ mem'.pending = pendingRemove(req[r].tok) /\ mem'.lockout = mem.lockout
        /\ mem'.mutex = mem.mutex
    BY <1>2, <2>1 DEF Shapes, MemT
  <2> QED BY <2>2, <2>3 DEF PendingLoad, Shapes
<1>4. CASE ~gone
  <2> DEFINE pc == IF req[r].kind = "code" THEN "consume" ELSE "take"
  <2>1. req' = Goto(r, pc) /\ mem' = mem
    BY <1>4 DEF PendingLoad
  <2>2. pc \in Pcs
    BY DEF Pcs
  <2>3. /\ req' \in [Requests -> ReqT] /\ Moves(r, {pc})
        /\ req'[r].row = req[r].row /\ req'[r].base = req[r].base
    BY <2>1, <2>2, GotoFacts
  <2>4. Moves(r, {"consume", "take"}) /\ (req'[r].pc = "consume" <=> req[r].kind = "code")
    BY <2>3 DEF Moves
  <2> QED BY <2>1, <2>3, <2>4 DEF PendingLoad, Shapes
<1> QED BY <1>3, <1>4

\* A wrong code or assertion: one more failure, and the mutex is free.
LEMMA SecondFactorFailedFacts ==
  ASSUME Shapes, NEW r \in Requests, SecondFactorFailed(r)
  PROVE  /\ Shapes' /\ req[r].pc = "failed" /\ Ends(r)
         /\ mem'.lockout = RecordFailure /\ mem'.mutex = mem.mutex \ {r}
         /\ mem'.pending = mem.pending \/ mem'.pending = pendingRemove(req[r].tok)
         /\ log' = CountGuess /\ HistoryKept /\ log'.skipped = log.skipped
         /\ UNCHANGED <<db, now>>
<1> DEFINE P == IF req[r].n >= PendingLoginAttempts THEN pendingRemove(req[r].tok) ELSE mem.pending
           M == mem.mutex \ {r}
<1>1. req' \in [Requests -> ReqT] /\ Ends(r)
  BY EndFacts DEF SecondFactorFailed
<1>2. req[r].tok \in Ids
  BY DEF Shapes, ReqT
<1>3. P \in [Ids -> PendingT] /\ M \in SUBSET Requests
  BY <1>2, TableTypes DEF Shapes, MemT
<1>4. mem' = [mem EXCEPT !.lockout = RecordFailure, !.mutex = M, !.pending = P]
  BY DEF SecondFactorFailed, Unlocked, Shapes, MemT
<1>5. P = mem.pending \/ P = pendingRemove(req[r].tok)
  OBVIOUS
<1> HIDE DEF P, M
<1>6. mem' \in MemT /\ mem'.lockout = RecordFailure /\ mem'.mutex = M /\ mem'.pending = P
  BY <1>3, <1>4, TableTypes DEF Shapes, MemT
<1>7. CountGuess \in LogT
  BY TableTypes
<1>8. HistoryKept /\ log'.skipped = log.skipped
  BY DEF SecondFactorFailed, CountGuess, HistoryKept, Shapes, LogT
<1> QED BY <1>1, <1>5, <1>6, <1>7, <1>8 DEF SecondFactorFailed, Shapes, M

\* A right code or assertion: the pending login is gone and a session opened.
LEMMA FinishPendingFacts ==
  ASSUME Shapes, NEW r \in Requests, finishPendingLogin(r)
  PROVE  /\ Shapes' /\ req[r].pc = "finish" /\ Ends(r) /\ RowsKept
         /\ mem'.lockout = NoLockout /\ mem'.mutex = mem.mutex \ {r}
         /\ mem'.pending = pendingRemove(req[r].tok)
         /\ log'.guesses = 0 /\ HistoryKept /\ log'.skipped = log.skipped /\ now' = now
<1>1. db' \in DbT /\ RowsKept /\ req' \in [Requests -> ReqT] /\ Ends(r)
  BY StartSessionFacts DEF finishPendingLogin
<1>2. req[r].tok \in Ids
  BY DEF Shapes, ReqT
<1>3. pendingRemove(req[r].tok) \in [Ids -> PendingT] /\ mem.mutex \ {r} \in SUBSET Requests
  BY <1>2, TableTypes DEF Shapes, MemT
<1>4. /\ mem' \in MemT /\ mem'.lockout = NoLockout /\ mem'.mutex = mem.mutex \ {r}
      /\ mem'.pending = pendingRemove(req[r].tok)
  BY <1>3, BasicTypes DEF finishPendingLogin, Unlocked, RecordSuccess, Shapes, MemT
<1>5. log' \in LogT /\ log'.guesses = 0 /\ HistoryKept /\ log'.skipped = log.skipped
  BY DEF finishPendingLogin, Shapes, LogT, HistoryKept
<1> QED BY <1>1, <1>4, <1>5 DEF finishPendingLogin, Shapes

\* Entering the mutex: the stored row is read, and a check of a code counts.
LEMMA LockUserFacts ==
  ASSUME Shapes, NEW r \in Requests, lockUser(r)
  PROVE  /\ Shapes' /\ req[r].pc = "consume" /\ Moves(r, {"use"})
         /\ req'[r].row = db.user /\ req'[r].base = db.user
         /\ mem.mutex = {} /\ mem'.mutex = {r} /\ mem'.lockout = mem.lockout
         /\ mem'.pending = mem.pending
         /\ log'.started = log.started /\ log'.stale = log.stale /\ log'.accepted = log.accepted
         /\ log'.twice = log.twice /\ log'.again = log.again /\ log'.answered = log.answered /\ log'.guesses = log.guesses
         /\ log'.replayed = log.replayed /\ log'.skipped = log.skipped
         /\ log'.checked = IF req[r].kind = "code"
                           THEN [log.checked EXCEPT ![req[r].tok] = @ + 1] ELSE log.checked
         /\ UNCHANGED <<db, now>>
<1> DEFINE q == [req[r] EXCEPT !.pc = "use", !.row = db.user, !.base = db.user]
           C == IF req[r].kind = "code"
                THEN [log.checked EXCEPT ![req[r].tok] = @ + 1] ELSE log.checked
<1>1. req[r] \in ReqT /\ db.user \in Row /\ log \in LogT
  BY DEF Shapes, DbT
<1>2. q \in ReqT
  BY <1>1 DEF ReqT, Pcs
<1>3. req' = [req EXCEPT ![r] = q]
  BY DEF lockUser
<1>4. req' \in [Requests -> ReqT] /\ OthersSame(r) /\ req'[r] = q
  BY <1>2, <1>3, OneReplaced
<1>5. Moves(r, {"use"}) /\ req'[r].row = db.user /\ req'[r].base = db.user
  BY <1>1, <1>4 DEF ReqT, Moves
<1>6. /\ mem' \in MemT /\ mem'.mutex = {r} /\ mem'.lockout = mem.lockout
      /\ mem'.pending = mem.pending
  BY DEF lockUser, Shapes, MemT
<1>0. log.checked \in [Ids -> Nat] /\ req[r].tok \in Ids
  BY <1>1 DEF LogT, ReqT
<1>7. C \in [Ids -> Nat]
  BY <1>0
<1>8. log' = [log EXCEPT !.checked = C] \/ (log' = log /\ C = log.checked)
  BY <1>1 DEF lockUser, LogT
<1> HIDE DEF C
<1>9. /\ log'.started = log.started /\ log'.stale = log.stale /\ log'.accepted = log.accepted
      /\ log'.twice = log.twice /\ log'.again = log.again /\ log'.answered = log.answered /\ log'.guesses = log.guesses
      /\ log'.replayed = log.replayed /\ log'.skipped = log.skipped
      /\ log'.checked = C /\ log' \in LogT
  BY <1>1, <1>7, <1>8 DEF LogT
<1> QED BY <1>4, <1>5, <1>6, <1>9 DEF lockUser, Shapes, C

\* Inside the mutex: the code is used and the row written, or it was wrong.
LEMMA ConsumeFacts ==
  ASSUME Shapes, NEW r \in Requests, consumeSecondFactor(r)
  PROVE  /\ Shapes' /\ req[r].pc = "use"
         /\ mem'.mutex = mem.mutex \ {r} /\ mem'.lockout = mem.lockout /\ mem'.pending = mem.pending
         /\ log'.started = log.started /\ log'.stale = log.stale /\ log'.checked = log.checked
         /\ log'.answered = log.answered /\ log'.guesses = log.guesses
         /\ log'.replayed = log.replayed /\ log'.skipped = log.skipped
         /\ log'.again = log.again
         /\ now' = now /\ db'.passkeys = db.passkeys
         /\ \/ /\ UseCode(req[r].row, req[r].code) # req[r].row
               /\ Moves(r, {"finish", "change"})
               /\ req'[r].row = UseCode(req[r].row, req[r].code) /\ req'[r].base = req'[r].row
               /\ db'.user = req'[r].row
               /\ \A s \in Requests : req'[s].held \subseteq Factors(db'.user, db'.passkeys)
               /\ log'.accepted = log.accepted \cup {req[r].code}
               /\ log'.twice = log.twice \cup ({req[r].code} \cap log.accepted)
            \/ /\ UNCHANGED <<db, log>> /\ Moves(r, {"failed"})
               /\ req'[r].row = req[r].row /\ req'[r].base = req[r].base
<1> DEFINE row == UseCode(req[r].row, req[r].code)
           pc == IF req[r].kind = "code" THEN "finish" ELSE "change"
           q == [req[r] EXCEPT !.pc = pc, !.row = row, !.base = row]
<1>1. /\ req[r] \in ReqT /\ req[r].row \in Row /\ req[r].code \in Typeable /\ log \in LogT
      /\ db \in DbT
  BY DEF Shapes, ReqT
<1>2. row \in Row /\ pc \in {"finish", "change"} /\ pc \in Pcs
  BY <1>1, RowEdits DEF Pcs
<1>3. mem.mutex \ {r} \in SUBSET Requests
  BY DEF Shapes, MemT
<1>4. /\ mem' \in MemT /\ mem'.mutex = mem.mutex \ {r} /\ mem'.lockout = mem.lockout
      /\ mem'.pending = mem.pending
  BY <1>3 DEF consumeSecondFactor, Unlocked, Shapes, MemT
<1>5. req[r].pc = "use" /\ UNCHANGED <<now, scenario>>
  BY DEF consumeSecondFactor
<1>6. CASE row # req[r].row
  <2>1. /\ db' = [db EXCEPT !.user = row]
        /\ req' = Narrow([req EXCEPT ![r] = q], row, db.passkeys)
        /\ log' = Accept(req[r].code, log)
    BY <1>6 DEF consumeSecondFactor, usersUpdate
  <2> HIDE DEF row, pc
  <2>2. q \in ReqT /\ q.pc = pc /\ q.row = row /\ q.base = row
    BY <1>1, <1>2 DEF ReqT
  <2>3. /\ req' \in [Requests -> ReqT] /\ OthersSame(r)
        /\ req'[r] = [q EXCEPT !.held = @ \cap Factors(row, db.passkeys)]
        /\ \A s \in Requests : req'[s].held \subseteq Factors(row, db.passkeys)
    BY <2>1, <2>2, OneNarrowed
  <2>4. /\ req'[r].pc = pc /\ req'[r].row = row /\ req'[r].base = row
        /\ req'[r].kind = req[r].kind /\ req'[r].id = req[r].id /\ req'[r].tok = req[r].tok
        /\ req'[r].code = req[r].code /\ req'[r].n = req[r].n /\ req'[r].held \subseteq req[r].held
    BY <1>1, <2>2, <2>3 DEF ReqT
  <2>5. Moves(r, {"finish", "change"})
    BY <1>2, <2>3, <2>4 DEF Moves
  <2>6. db' \in DbT /\ db'.user = row /\ db'.passkeys = db.passkeys
    BY <1>1, <1>2, <2>1 DEF DbT
  <2>7. /\ log' \in LogT
        /\ log'.started = log.started /\ log'.stale = log.stale /\ log'.checked = log.checked
        /\ log'.answered = log.answered /\ log'.guesses = log.guesses
        /\ log'.replayed = log.replayed /\ log'.skipped = log.skipped
        /\ log'.again = log.again
        /\ log'.accepted = log.accepted \cup {req[r].code}
        /\ log'.twice = log.twice \cup ({req[r].code} \cap log.accepted)
    BY <1>1, <2>1 DEF Accept, LogT
  <2>8. Shapes'
    BY <1>4, <1>5, <2>3, <2>6, <2>7 DEF Shapes
  <2> QED BY <1>4, <1>5, <1>6, <2>3, <2>4, <2>5, <2>6, <2>7, <2>8 DEF row
<1>7. CASE row = req[r].row
  <2>1. req' = Goto(r, "failed") /\ UNCHANGED <<db, log>>
    BY <1>7 DEF consumeSecondFactor
  <2>2. /\ req' \in [Requests -> ReqT] /\ Moves(r, {"failed"})
        /\ req'[r].row = req[r].row /\ req'[r].base = req[r].base
    BY <2>1, GotoFacts DEF Pcs
  <2>3. Shapes'
    BY <1>4, <1>5, <2>1, <2>2 DEF Shapes
  <2> HIDE DEF row
  <2> QED BY <1>4, <1>5, <2>1, <2>2, <2>3
<1> QED BY <1>6, <1>7

\* A passkey challenge is offered for a live pending login.
LEMMA BeginPasskeyLoginFacts ==
  ASSUME Shapes, NEW r \in Requests, NEW t \in Ids, BeginPasskeyLogin(r, t)
  PROVE  /\ Shapes' /\ log' = Started /\ NextId \in Ids /\ UNCHANGED <<db, req, now>>
         /\ mem'.lockout = mem.lockout /\ mem'.mutex = mem.mutex
         /\ \/ mem'.pending = pendingRemove(t) \/ mem'.pending = mem.pending
            \/ mem'.pending = setPasskeyChallenge(t, NextId)
<1> DEFINE ok == mem.pending[t].live /\ ~Expired(mem.pending[t])
           P == IF ~ok THEN pendingRemove(t)
                ELSE IF db.passkeys = {} THEN mem.pending ELSE setPasskeyChallenge(t, NextId)
<1>1. NextId \in Ids /\ Started \in LogT
  BY NextIdType DEF BeginPasskeyLogin
<1>2. P \in [Ids -> PendingT]
  BY <1>1, TableTypes DEF Shapes, MemT
<1>3. \/ P = pendingRemove(t) \/ P = mem.pending
      \/ P = setPasskeyChallenge(t, NextId)
  OBVIOUS
<1>4. mem' = [mem EXCEPT !.pending = P]
  BY DEF BeginPasskeyLogin, Shapes, MemT
<1> HIDE DEF P
<1>5. mem' \in MemT /\ mem'.pending = P /\ mem'.lockout = mem.lockout /\ mem'.mutex = mem.mutex
  BY <1>2, <1>4 DEF Shapes, MemT
<1> QED BY <1>1, <1>3, <1>5 DEF BeginPasskeyLogin, Shapes

\* The challenge is taken out of the pending login.
LEMMA TakeChallengeFacts ==
  ASSUME Shapes, NEW r \in Requests, TakeChallenge(r)
  PROVE  /\ Shapes' /\ req[r].pc = "take" /\ UNCHANGED <<db, now, log>>
         /\ mem'.pending = takePasskeyChallenge(req[r].tok)
         /\ mem'.lockout = mem.lockout /\ mem'.mutex = mem.mutex
         /\ \/ Ends(r)
            \/ /\ Moves(r, {"verify"}) /\ mem.pending[req[r].tok].passkey # 0
               /\ req'[r].challenge = mem.pending[req[r].tok].passkey
               /\ req'[r].row = req[r].row /\ req'[r].base = req[r].base
<1> DEFINE c == mem.pending[req[r].tok].passkey
           q == [req[r] EXCEPT !.pc = "verify", !.challenge = c]
<1>1. req[r] \in ReqT /\ req[r].tok \in Ids
  BY DEF Shapes, ReqT
<1>2. takePasskeyChallenge(req[r].tok) \in [Ids -> PendingT]
  BY <1>1, TableTypes
<1>3. c \in Ids
  BY <1>1 DEF Shapes, MemT, PendingT
<1>4. /\ mem' \in MemT /\ mem'.pending = takePasskeyChallenge(req[r].tok)
      /\ mem'.lockout = mem.lockout /\ mem'.mutex = mem.mutex
  BY <1>2 DEF TakeChallenge, Shapes, MemT
<1>5. CASE c = 0
  <2>1. req' \in [Requests -> ReqT] /\ Ends(r)
    BY <1>5, EndFacts DEF TakeChallenge
  <2> QED BY <1>4, <2>1 DEF TakeChallenge, Shapes
<1>6. CASE c # 0
  <2>1. req' = [req EXCEPT ![r] = q]
    BY <1>6 DEF TakeChallenge
  <2> HIDE DEF c
  <2>2. q \in ReqT
    BY <1>1, <1>3 DEF ReqT, Pcs
  <2>3. req' \in [Requests -> ReqT] /\ OthersSame(r) /\ req'[r] = q
    BY <2>1, <2>2, OneReplaced
  <2>4. /\ Moves(r, {"verify"}) /\ req'[r].challenge = c
        /\ req'[r].row = req[r].row /\ req'[r].base = req[r].base
    BY <1>1, <2>3 DEF ReqT, Moves
  <2> QED BY <1>4, <1>6, <2>3, <2>4 DEF TakeChallenge, Shapes, c
<1> QED BY <1>5, <1>6

\* The assertion is checked against the challenge taken.
LEMMA CompletePasskeyFacts ==
  ASSUME Shapes, NEW r \in Requests, CompletePasskeyLogin(r)
  PROVE  /\ Shapes' /\ req[r].pc = "verify" /\ Moves(r, {"finish", "failed"})
         /\ req'[r].row = req[r].row /\ req'[r].base = req[r].base
         /\ mem.mutex = {} /\ mem'.mutex = {r} /\ mem'.lockout = mem.lockout
         /\ mem'.pending = mem.pending
         /\ log'.started = log.started /\ log'.stale = log.stale /\ log'.accepted = log.accepted
         /\ log'.twice = log.twice /\ log'.again = log.again /\ log'.guesses = log.guesses /\ log'.skipped = log.skipped
         /\ log'.checked = [log.checked EXCEPT ![req[r].tok] = @ + 1]
         /\ log'.replayed = (log.replayed \/ req[r].challenge \in log.answered)
         /\ log'.answered \in {log.answered, log.answered \cup {req[r].challenge}}
         /\ UNCHANGED <<db, now>>
<1> DEFINE c == req[r].challenge
           ok == req[r].code.of = c /\ req[r].code.n \in db.passkeys
           pc == IF ok THEN "finish" ELSE "failed"
           A == IF ok THEN log.answered \cup {c} ELSE log.answered
           C == [log.checked EXCEPT ![req[r].tok] = @ + 1]
<1>1. req[r] \in ReqT /\ log \in LogT /\ req[r].tok \in Ids /\ c \in Ids
  BY DEF Shapes, ReqT
<1>2. req' = Goto(r, pc) /\ pc \in Pcs /\ pc \in {"finish", "failed"}
  BY DEF CompletePasskeyLogin, Pcs
<1> HIDE DEF pc
<1>3. /\ req' \in [Requests -> ReqT] /\ Moves(r, {pc})
      /\ req'[r].row = req[r].row /\ req'[r].base = req[r].base
  BY <1>2, GotoFacts
<1>4. Moves(r, {"finish", "failed"})
  BY <1>2, <1>3 DEF Moves
<1>5. /\ mem' \in MemT /\ mem'.mutex = {r} /\ mem'.lockout = mem.lockout
      /\ mem'.pending = mem.pending
  BY DEF CompletePasskeyLogin, Shapes, MemT
<1>6. C \in [Ids -> Nat] /\ A \in SUBSET Ids /\ A \in {log.answered, log.answered \cup {c}}
  BY <1>1 DEF LogT
<1>7. log' = [log EXCEPT !.checked = C, !.replayed = @ \/ c \in log.answered, !.answered = A]
  BY <1>1 DEF CompletePasskeyLogin, LogT
<1> HIDE DEF A, C, c
<1>8. /\ log'.started = log.started /\ log'.stale = log.stale /\ log'.accepted = log.accepted
      /\ log'.twice = log.twice /\ log'.again = log.again /\ log'.guesses = log.guesses /\ log'.skipped = log.skipped
      /\ log'.checked = C /\ log'.answered = A /\ log' \in LogT
      /\ log'.replayed = (log.replayed \/ c \in log.answered)
  BY <1>1, <1>6, <1>7 DEF LogT
<1> QED BY <1>3, <1>4, <1>5, <1>6, <1>8 DEF CompletePasskeyLogin, Shapes, C, c

\* The row a handler writes comes from the row it read: an app kept, dropped
\* or drawn by this request, and only its own codes are new.
RowEdited(row, base, id) ==
    /\ \A c \in row.codes : c \in base.codes \/ c.of = id
    /\ \/ row.totp = 0
       \/ row.totp = base.totp /\ row.step = base.step
       \/ row.totp = id

TablesKept == mem'.lockout = mem.lockout /\ mem'.pending = mem.pending /\ mem'.mutex = mem.mutex

\* The account page's forms start on the row of the signed-in user.
LEMMA RequireUserFacts ==
  ASSUME Shapes, NEW r \in Requests, NEW k, NEW pc \in {"guard", "change"}, NEW code \in Typeable,
         requireUser(r, k, pc, code)
  PROVE  /\ Shapes' /\ Opens(r, {k}, {pc}) /\ req'[r].row = db.user /\ req'[r].code = code
         /\ UNCHANGED <<mem, now>>
<1>1. pc \in Pcs /\ 0 \in Ids
  BY Parameters DEF Pcs
<1>2. Begin(r, k) /\ req' = New(r, k, pc, 0, code) /\ log' = Started /\ UNCHANGED <<db, mem, now, scenario>>
  BY DEF requireUser
<1>3. /\ req' \in [Requests -> ReqT] /\ Opens(r, {k}, {pc}) /\ req'[r].row = db.user
      /\ req'[r].code = code
  BY <1>1, <1>2, NewFacts
<1>4. Started \in LogT
  BY <1>2, NextIdType
<1> QED BY <1>2, <1>3, <1>4 DEF Shapes

\* What may be typed is a code or a password; an assertion answers a
\* challenge that was offered or answered.
LEMMA TypedType ==
  ASSUME Shapes
  PROVE  /\ Typed \subseteq Typeable /\ Assertions \subseteq Typeable
         /\ NextId \in Ids => SetupCodes \subseteq Typeable
<1>1. /\ db.user \in Row /\ db.passkeys \subseteq Ids /\ log.accepted \subseteq Typeable
      /\ now \in Nat /\ log.answered \subseteq Ids /\ mem.pending \in [Ids -> PendingT]
  BY DEF Shapes, DbT, LogT, MemT
<1>2. db.user.totp \in Ids /\ db.user.codes \subseteq AllCodes
  BY <1>1, RowType
<1>3. \A i \in Ids, n \in Near : TOTP(i, n) \in Typeable
  BY <1>1, Parameters DEF TOTP, Typeable, Near
<1>4. Typed \subseteq Typeable
  BY <1>1, <1>2, <1>3, BasicTypes, RecoveryCodes DEF Typed
<1>5. \A t \in Ids : mem.pending[t].passkey \in Ids
  BY <1>1 DEF PendingT
<1>6. \A c \in Ids, k \in Ids : Assertion(c, k) \in Typeable
  BY Parameters DEF Assertion, Typeable
<1>7. \A c \in log.accepted : c.of \in Ids
  BY <1>1 DEF Typeable
<1>8. NextId \in Ids => SetupCodes \subseteq Typeable
  BY <1>3, <1>7 DEF SetupCodes, UsedSecrets
<1> QED BY <1>1, <1>4, <1>5, <1>6, <1>8 DEF Assertions

\* The password or the lock decides before a handler of the account page
\* changes anything.
LEMMA GuardedFacts ==
  ASSUME Shapes, NEW r \in Requests, guarded(r)
  PROVE  /\ Shapes' /\ req[r].pc = "guard" /\ UNCHANGED <<db, mem, now, log>>
         /\ \/ Ends(r)
            \/ /\ Moves(r, {"consume", "change", "failed"}) /\ ~IsLocked
               /\ req'[r].row = req[r].row /\ req'[r].base = req[r].base
               /\ req'[r].pc = "consume" => req[r].kind \in {"disable", "renew"}
<1> DEFINE pc == IF NeedsCode(req[r]) THEN "consume"
                 ELSE IF req[r].code # Wrong THEN "change" ELSE "failed"
<1>1. CASE IsLocked
  <2>1. req' \in [Requests -> ReqT] /\ Ends(r)
    BY <1>1, EndFacts DEF guarded
  <2> QED BY <2>1 DEF guarded, Shapes
<1>2. CASE ~IsLocked
  <2>1. req' = Goto(r, pc)
    BY <1>2 DEF guarded
  <2>2. /\ pc \in Pcs /\ pc \in {"consume", "change", "failed"}
        /\ pc = "consume" => req[r].kind \in {"disable", "renew"}
    BY DEF Pcs, NeedsCode
  <2> HIDE DEF pc
  <2>3. /\ req' \in [Requests -> ReqT] /\ Moves(r, {pc})
        /\ req'[r].row = req[r].row /\ req'[r].base = req[r].base
    BY <2>1, <2>2, GotoFacts
  <2>4. /\ Moves(r, {"consume", "change", "failed"})
        /\ req'[r].pc = "consume" => req[r].kind \in {"disable", "renew"}
    BY <2>2, <2>3 DEF Moves
  <2> QED BY <1>2, <2>3, <2>4 DEF guarded, Shapes
<1> QED BY <1>1, <1>2

\* A handler goes on to save a row made from the one it has.
LEMMA ToSaveFacts ==
  ASSUME Shapes, NEW r \in Requests, NEW row \in Row,
         req' = [req EXCEPT ![r].pc = "save", ![r].row = row]
  PROVE  /\ req' \in [Requests -> ReqT] /\ Moves(r, {"save"})
         /\ req'[r].row = row /\ req'[r].base = req[r].base
<1> DEFINE q == [req[r] EXCEPT !.pc = "save", !.row = row]
<1>1. req[r] \in ReqT
  BY DEF Shapes
<1>2. q \in ReqT
  BY <1>1 DEF ReqT, Pcs
<1>3. req' = [req EXCEPT ![r] = q]
  BY DEF Shapes
<1>4. req' \in [Requests -> ReqT] /\ OthersSame(r) /\ req'[r] = q
  BY <1>2, <1>3, OneReplaced
<1> QED BY <1>1, <1>4 DEF ReqT, Moves

\* Codes of the request's own set are new; the others stay.
LEMMA CodesEdited ==
  ASSUME Shapes, NEW r \in Requests
  PROVE  LET row == req[r].row
         IN  /\ [row EXCEPT !.codes = Codes(req[r].id)] \in Row
             /\ RowEdited([row EXCEPT !.codes = Codes(req[r].id)], row, req[r].id)
             /\ [row EXCEPT !.codes = {}] \in Row
             /\ RowEdited([row EXCEPT !.codes = {}], row, req[r].id)
<1> DEFINE row == req[r].row
<1>1. row \in Row /\ req[r].id \in Ids
  BY DEF Shapes, ReqT
<1>2. Codes(req[r].id) \in SUBSET AllCodes /\ \A c \in Codes(req[r].id) : c.of = req[r].id
  BY <1>1, RecoveryCodes
<1>3. [row EXCEPT !.codes = Codes(req[r].id)] \in Row /\ [row EXCEPT !.codes = {}] \in Row
  BY <1>1, <1>2, RowEdits
<1> HIDE DEF row
<1>4. RowEdited([row EXCEPT !.codes = Codes(req[r].id)], row, req[r].id)
  BY <1>1, <1>2, RowType DEF RowEdited
<1>5. RowEdited([row EXCEPT !.codes = {}], row, req[r].id)
  BY <1>1, RowType DEF RowEdited
<1> QED BY <1>3, <1>4, <1>5 DEF row

\* An app is set up with the code that proves it.
LEMMA EnableFacts ==
  ASSUME Shapes, NEW r \in Requests, EnableTOTP(r)
  PROVE  /\ Shapes' /\ req[r].pc = "change" /\ req[r].kind = "enable" /\ UNCHANGED <<db, mem, now>>
         /\ \/ Ends(r) /\ log' = log
            \/ /\ Moves(r, {"save"}) /\ req[r].code.type = "totp"
               /\ req'[r].base = req[r].base
               /\ req'[r].row.totp = req[r].code.of /\ req'[r].row.step = req[r].code.n
               /\ req'[r].row.codes = Codes(req[r].id)
               /\ log'.accepted = log.accepted \cup {req[r].code}
               /\ log'.again = log.again \cup ({req[r].code.of} \ {req[r].id})
               /\ log'.twice = log.twice \cup ({req[r].code} \cap log.accepted)
               /\ log'.started = log.started /\ log'.stale = log.stale
               /\ log'.checked = log.checked /\ log'.answered = log.answered
               /\ log'.guesses = log.guesses /\ log'.replayed = log.replayed
               /\ log'.skipped = log.skipped
<1> DEFINE ok == VerifyTOTP(req[r].code.of, req[r].code, 0)
           row == [req[r].row EXCEPT !.totp = req[r].code.of, !.step = req[r].code.n,
                                     !.codes = Codes(req[r].id)]
<1>1. /\ req[r] \in ReqT /\ req[r].row \in Row /\ req[r].code \in Typeable /\ req[r].id \in Ids
      /\ log \in LogT
  BY DEF Shapes, ReqT
<1>2. CASE ok
  <2>1. /\ req' = [req EXCEPT ![r].pc = "save", ![r].row = row] 
        /\ log' = [Accept(req[r].code, log) EXCEPT !.again = @ \cup ({req[r].code.of} \ {req[r].id})]
    BY <1>2 DEF EnableTOTP, Shapes
  <2>2. req[r].code.of \in Ids /\ req[r].code.n \in Nat
    BY <1>1 DEF Typeable
  <2>3. Codes(req[r].id) \in SUBSET AllCodes
    BY <1>1, RecoveryCodes
  <2>4. row \in Row
    BY <1>1, <2>2, <2>3, RowEdits
  <2>5. row.totp = req[r].code.of /\ row.step = req[r].code.n /\ row.codes = Codes(req[r].id)
    BY <1>1, RowType
  <2> HIDE DEF row
  <2>6. /\ req' \in [Requests -> ReqT] /\ Moves(r, {"save"})
        /\ req'[r].row = row /\ req'[r].base = req[r].base
    BY <2>1, <2>4, ToSaveFacts
  <2>7. /\ log' \in LogT
        /\ log'.started = log.started /\ log'.stale = log.stale /\ log'.checked = log.checked
        /\ log'.answered = log.answered /\ log'.guesses = log.guesses
        /\ log'.replayed = log.replayed /\ log'.skipped = log.skipped
        /\ log'.accepted = log.accepted \cup {req[r].code}
        /\ log'.again = log.again \cup ({req[r].code.of} \ {req[r].id})
        /\ log'.twice = log.twice \cup ({req[r].code} \cap log.accepted)
    BY <1>1, <2>1, <2>2 DEF Accept, LogT
  <2>8. req[r].code.type = "totp"
    BY <1>2 DEF VerifyTOTP
  <2>9. req[r].pc = "change" /\ req[r].kind = "enable" /\ UNCHANGED <<db, mem, now, scenario>>
    BY DEF EnableTOTP
  <2>10. Shapes'
    BY <2>6, <2>7, <2>9 DEF Shapes
  <2> QED BY <2>5, <2>6, <2>7, <2>8, <2>9, <2>10
<1>3. CASE ~ok
  <2>1. req' \in [Requests -> ReqT] /\ Ends(r)
    BY <1>3, EndFacts DEF EnableTOTP
  <2>2. log' = log
    BY <1>3 DEF EnableTOTP
  <2> QED BY <2>1, <2>2 DEF EnableTOTP, Shapes
<1> QED BY <1>2, <1>3

\* The app is dropped; so are the codes when nothing else is on.
LEMMA DisableFacts ==
  ASSUME Shapes, NEW r \in Requests, DisableTOTP(r)
  PROVE  /\ Shapes' /\ req[r].pc = "change" /\ UNCHANGED <<db, mem, now, log>>
         /\ Moves(r, {"save"}) /\ req'[r].base = req[r].base
         /\ RowEdited(req'[r].row, req[r].row, req[r].id)
<1> DEFINE row == ClearTOTP(req[r].row)
           new == IF hasSecondFactor(row) THEN row ELSE [row EXCEPT !.codes = {}]
<1>1. req[r].row \in Row
  BY DEF Shapes, ReqT
<1>2. row \in Row
  BY <1>1, RowEdits
<1>3. row.totp = 0 /\ row.codes = req[r].row.codes
  BY <1>1, RowType DEF ClearTOTP
<1>4. req' = [req EXCEPT ![r].pc = "save", ![r].row = new]
  BY DEF DisableTOTP
<1> HIDE DEF row
<1>5. [row EXCEPT !.codes = {}] \in Row /\ [row EXCEPT !.codes = {}].totp = 0
      /\ [row EXCEPT !.codes = {}].codes = {}
  BY <1>2, <1>3, RowType
<1>6. new \in Row /\ new.totp = 0 /\ new.codes \subseteq req[r].row.codes
  BY <1>2, <1>3, <1>5
<1> HIDE DEF new
<1>7. /\ req' \in [Requests -> ReqT] /\ Moves(r, {"save"})
      /\ req'[r].row = new /\ req'[r].base = req[r].base
  BY <1>4, <1>6, ToSaveFacts
<1>8. RowEdited(req'[r].row, req[r].row, req[r].id)
  BY <1>6, <1>7 DEF RowEdited
<1> QED BY <1>7, <1>8 DEF DisableTOTP, Shapes

\* A new set of recovery codes.
LEMMA RenewFacts ==
  ASSUME Shapes, NEW r \in Requests, RenewRecoveryCodes(r)
  PROVE  /\ Shapes' /\ req[r].pc = "change" /\ UNCHANGED <<db, mem, now, log>>
         /\ Moves(r, {"save"}) /\ req'[r].base = req[r].base
         /\ RowEdited(req'[r].row, req[r].row, req[r].id)
<1> DEFINE row == [req[r].row EXCEPT !.codes = Codes(req[r].id)]
<1>1. row \in Row /\ RowEdited(row, req[r].row, req[r].id)
  BY CodesEdited
<1>2. req' = [req EXCEPT ![r].pc = "save", ![r].row = row]
  BY DEF RenewRecoveryCodes, Shapes, ReqT
<1> HIDE DEF row
<1>3. /\ req' \in [Requests -> ReqT] /\ Moves(r, {"save"})
      /\ req'[r].row = row /\ req'[r].base = req[r].base
  BY <1>1, <1>2, ToSaveFacts
<1> QED BY <1>1, <1>3 DEF RenewRecoveryCodes, Shapes

\* A passkey registration starts: only its challenge is recorded.
LEMMA BeginRegistrationFacts ==
  ASSUME Shapes, NEW r \in Requests, BeginPasskeyRegistration(r)
  PROVE  Shapes' /\ req[r].pc = "change" /\ Ends(r) /\ TablesKept /\ UNCHANGED <<db, now, log>>
<1>1. req' \in [Requests -> ReqT] /\ Ends(r)
  BY EndFacts DEF BeginPasskeyRegistration
<1>2. now + CeremonyTTL \in Nat
  BY Parameters DEF Shapes
<1>3. mem' \in MemT /\ TablesKept
  BY <1>2 DEF BeginPasskeyRegistration, Shapes, MemT, TablesKept
<1> QED BY <1>1, <1>3 DEF BeginPasskeyRegistration, Shapes

\* A passkey is stored, with recovery codes if it is the first second step.
LEMMA FinishRegistrationFacts ==
  ASSUME Shapes, NEW r \in Requests, FinishPasskeyRegistration(r)
  PROVE  /\ Shapes' /\ req[r].pc = "change" /\ TablesKept /\ UNCHANGED <<now, log>>
         /\ db'.user = db.user /\ db.passkeys \subseteq db'.passkeys
         /\ \/ Ends(r)
            \/ /\ Moves(r, {"save"}) /\ req'[r].base = req[r].base
               /\ RowEdited(req'[r].row, req[r].row, req[r].id)
<1> DEFINE ok == mem.ceremony # 0 /\ now <= mem.ceremony
           row == [req[r].row EXCEPT !.codes = Codes(req[r].id)]
           more == ok /\ req[r].row.codes = {}
<1>1. row \in Row /\ RowEdited(row, req[r].row, req[r].id)
  BY CodesEdited
<1>2. mem' \in MemT /\ TablesKept
  BY DEF FinishPasskeyRegistration, Shapes, MemT, TablesKept
<1>3. req[r].id \in Ids /\ db \in DbT
  BY DEF Shapes, ReqT
<1>4. db' \in DbT /\ db'.user = db.user /\ db.passkeys \subseteq db'.passkeys
  BY <1>3 DEF FinishPasskeyRegistration, PasskeyCreate, DbT
<1>5. req[r].pc = "change" /\ UNCHANGED <<now, scenario, log>>
  BY DEF FinishPasskeyRegistration
<1>6. CASE more
  <2>1. req' = [req EXCEPT ![r].pc = "save", ![r].row = row]
    BY <1>6 DEF FinishPasskeyRegistration, Shapes, ReqT
  <2> HIDE DEF row
  <2>2. /\ req' \in [Requests -> ReqT] /\ Moves(r, {"save"})
        /\ req'[r].row = row /\ req'[r].base = req[r].base
    BY <1>1, <2>1, ToSaveFacts
  <2> QED BY <1>1, <1>2, <1>4, <1>5, <2>2 DEF Shapes
<1>7. CASE ~more
  <2>1. req' = End(r)
    BY <1>7 DEF FinishPasskeyRegistration
  <2>2. req' \in [Requests -> ReqT] /\ Ends(r)
    BY <2>1, EndFacts
  <2> QED BY <1>2, <1>4, <1>5, <2>2 DEF Shapes
<1> QED BY <1>6, <1>7

\* A passkey is deleted; the codes go with the last second step.
LEMMA RemovePasskeyFacts ==
  ASSUME Shapes, NEW r \in Requests, NEW k, RemovePasskey(r, k)
  PROVE  /\ Shapes' /\ req[r].pc = "change" /\ UNCHANGED <<mem, now, log>>
         /\ db'.user = db.user
         /\ \A s \in Requests : req'[s].held \subseteq Factors(db'.user, db'.passkeys)
         /\ \/ Ends(r)
            \/ /\ Moves(r, {"save"}) /\ req'[r].base = req[r].base
               /\ RowEdited(req'[r].row, req[r].row, req[r].id)
<1> DEFINE keys == db.passkeys \ {k}
           drop == ~TOTPEnabled(req[r].row) /\ keys = {} /\ req[r].row.codes # {}
           row == [req[r].row EXCEPT !.codes = {}]
           q == IF drop THEN [req[r] EXCEPT !.pc = "save", !.row = row] ELSE Idle
           F == Factors(db.user, keys)
<1>1. row \in Row /\ RowEdited(row, req[r].row, req[r].id)
  BY CodesEdited
<1>2. req[r] \in ReqT /\ db \in DbT
  BY DEF Shapes
<1>3. db' \in DbT /\ db'.user = db.user /\ db'.passkeys = keys
  BY <1>2 DEF RemovePasskey, PasskeyDelete, DbT
<1>4. req[r].pc = "change" /\ UNCHANGED <<mem, now, scenario, log>>
  BY DEF RemovePasskey
<1>5. req' = Narrow([req EXCEPT ![r] = q], db.user, keys)
  <2>1. req' = Narrow(IF drop THEN [req EXCEPT ![r].pc = "save", ![r].row.codes = {}] ELSE End(r),
                      db.user, keys)
    BY Zenon DEF RemovePasskey
  <2>2. (IF drop THEN [req EXCEPT ![r].pc = "save", ![r].row.codes = {}] ELSE End(r))
          = [req EXCEPT ![r] = q]
    BY <1>2 DEF End, Shapes, ReqT
  <2> QED BY <2>1, <2>2
<1> HIDE DEF row, keys, drop
<1>6. q \in ReqT
  BY <1>1, <1>2, BasicTypes DEF ReqT, Pcs
<1>7. \/ q = Idle
      \/ q.pc = "save" /\ q.row = row /\ q.base = req[r].base /\ q.kind = req[r].kind
         /\ q.id = req[r].id /\ q.tok = req[r].tok /\ q.code = req[r].code /\ q.n = req[r].n
         /\ q.held = req[r].held
  BY <1>2 DEF ReqT
<1> HIDE DEF q
<1>8. /\ req' \in [Requests -> ReqT] /\ OthersSame(r) /\ req'[r] = [q EXCEPT !.held = @ \cap F]
      /\ \A s \in Requests : req'[s].held \subseteq F
  BY <1>5, <1>6, OneNarrowed
<1>9. Shapes'
  BY <1>3, <1>4, <1>8 DEF Shapes
<1> HIDE DEF F
<1>10. /\ req'[r].pc = q.pc /\ req'[r].row = q.row /\ req'[r].base = q.base /\ req'[r].kind = q.kind
       /\ req'[r].id = q.id /\ req'[r].tok = q.tok /\ req'[r].code = q.code /\ req'[r].n = q.n
       /\ req'[r].held \subseteq q.held
  BY <1>6, <1>8 DEF ReqT
<1>11. CASE q = Idle
  <2>1. q.pc = "idle" /\ q.row = NoRow /\ q.base = NoRow /\ q.held = {}
    BY <1>11 DEF Idle
  <2>2. Ends(r)
    BY <1>8, <1>10, <2>1 DEF Ends
  <2> QED BY <1>3, <1>4, <1>8, <1>9, <2>2 DEF F
<1>12. CASE q # Idle
  <2>1. Moves(r, {"save"}) /\ req'[r].base = req[r].base /\ req'[r].row = row
    BY <1>7, <1>8, <1>10, <1>12 DEF Moves
  <2> QED BY <1>1, <1>3, <1>4, <1>8, <1>9, <2>1 DEF F
<1> QED BY <1>11, <1>12

\* The passkey is not there any more.
LEMMA NotFoundFacts ==
  ASSUME Shapes, NEW r \in Requests, PasskeyNotFound(r)
  PROVE  Shapes' /\ req[r].pc = "change" /\ Ends(r) /\ UNCHANGED <<db, mem, now, log>>
<1>1. req' \in [Requests -> ReqT] /\ Ends(r)
  BY EndFacts DEF PasskeyNotFound
<1> QED BY <1>1 DEF PasskeyNotFound, Shapes

\* The whole row is written, whatever is stored by then.
LEMMA SaveUserFacts ==
  ASSUME Shapes, NEW r \in Requests, SaveUser(r)
  PROVE  /\ Shapes' /\ req[r].pc = "save" /\ UNCHANGED <<mem, now>>
         /\ db'.user = req[r].row /\ db'.passkeys = db.passkeys
         /\ \A s \in Requests : req'[s].held \subseteq Factors(db'.user, db'.passkeys)
         /\ log'.stale = (log.stale \/ db.user # req[r].base)
         /\ log'.started = log.started /\ log'.accepted = log.accepted
         /\ log'.twice = log.twice /\ log'.again = log.again /\ log'.checked = log.checked /\ log'.answered = log.answered
         /\ log'.guesses = log.guesses /\ log'.replayed = log.replayed
         /\ log'.skipped = log.skipped
         /\ \/ Ends(r)
            \/ /\ Moves(r, {"passkeys", "sessions"})
               /\ req'[r].row = req[r].row /\ req'[r].base = req[r].base
<1> DEFINE inHand == req[r].row
           pc == IF req[r].kind = "reset" THEN "passkeys"
                 ELSE IF req[r].base.active /\ ~req[r].row.active THEN "sessions" ELSE "idle"
           q == IF pc = "idle" THEN Idle ELSE [req[r] EXCEPT !.pc = pc]
           F == Factors(inHand, db.passkeys)
<1>1. req[r] \in ReqT /\ db \in DbT /\ log \in LogT /\ inHand \in Row
  BY DEF Shapes, ReqT
<1>2. db' = [db EXCEPT !.user = inHand] /\ log' = Staled(r) /\ UNCHANGED <<mem, now, scenario>>
      /\ req[r].pc = "save"
  BY DEF SaveUser, usersUpdate
<1>3. req' = Narrow([req EXCEPT ![r] = q], inHand, db.passkeys)
  <2>1. req' = Narrow(IF pc = "idle" THEN End(r) ELSE Goto(r, pc), inHand, db.passkeys)
    BY Zenon DEF SaveUser, usersUpdate
  <2>2. (IF pc = "idle" THEN End(r) ELSE Goto(r, pc)) = [req EXCEPT ![r] = q]
    BY <1>1 DEF End, Goto, Shapes
  <2> QED BY <2>1, <2>2
<1>4. pc \in {"passkeys", "sessions", "idle"} /\ pc \in Pcs
  BY DEF Pcs
<1> HIDE DEF pc, inHand
<1>5. q \in ReqT
  BY <1>1, <1>4, BasicTypes DEF ReqT
<1>6. \/ q = Idle
      \/ q.pc \in {"passkeys", "sessions"} /\ q.row = req[r].row /\ q.base = req[r].base
         /\ q.kind = req[r].kind /\ q.id = req[r].id /\ q.tok = req[r].tok
         /\ q.code = req[r].code /\ q.n = req[r].n /\ q.held = req[r].held
  BY <1>1, <1>4 DEF ReqT
<1> HIDE DEF q
<1>7. /\ req' \in [Requests -> ReqT] /\ OthersSame(r) /\ req'[r] = [q EXCEPT !.held = @ \cap F]
      /\ \A s \in Requests : req'[s].held \subseteq F
  <2> DEFINE keys == db.passkeys
  <2>1. req' = Narrow([req EXCEPT ![r] = q], inHand, keys)
    BY <1>3
  <2> HIDE DEF keys
  <2>2. /\ req' \in [Requests -> ReqT] /\ OthersSame(r)
        /\ req'[r] = [q EXCEPT !.held = @ \cap Factors(inHand, keys)]
        /\ \A s \in Requests : req'[s].held \subseteq Factors(inHand, keys)
    BY <1>5, <2>1, OneNarrowed
  <2> QED BY <2>2 DEF keys
<1>8. db' \in DbT /\ db'.user = inHand /\ db'.passkeys = db.passkeys
  BY <1>1, <1>2 DEF DbT
<1>9. /\ log' \in LogT /\ log'.stale = (log.stale \/ db.user # req[r].base)
      /\ log'.started = log.started /\ log'.accepted = log.accepted
      /\ log'.twice = log.twice /\ log'.again = log.again /\ log'.checked = log.checked /\ log'.answered = log.answered
      /\ log'.guesses = log.guesses /\ log'.replayed = log.replayed
      /\ log'.skipped = log.skipped
  BY <1>1, <1>2 DEF Staled, LogT
<1>10. Shapes'
  BY <1>2, <1>7, <1>8, <1>9 DEF Shapes
<1> HIDE DEF F
<1>11. /\ req'[r].pc = q.pc /\ req'[r].row = q.row /\ req'[r].base = q.base /\ req'[r].kind = q.kind
       /\ req'[r].id = q.id /\ req'[r].tok = q.tok /\ req'[r].code = q.code /\ req'[r].n = q.n
       /\ req'[r].held \subseteq q.held
  BY <1>5, <1>7 DEF ReqT
<1>12. CASE q = Idle
  <2>1. q.pc = "idle" /\ q.row = NoRow /\ q.base = NoRow /\ q.held = {}
    BY <1>12 DEF Idle
  <2>2. Ends(r)
    BY <1>7, <1>11, <2>1 DEF Ends
  <2> QED BY <1>2, <1>7, <1>8, <1>9, <1>10, <2>2 DEF F, inHand
<1>13. CASE q # Idle
  <2>1. Moves(r, {"passkeys", "sessions"}) /\ req'[r].base = req[r].base /\ req'[r].row = req[r].row
    BY <1>6, <1>7, <1>11, <1>13 DEF Moves
  <2> QED BY <1>2, <1>7, <1>8, <1>9, <1>10, <2>1 DEF F, inHand
<1> QED BY <1>12, <1>13

\* The last steps of a reset and of a deactivation.
LEMMA ResetPasskeysFacts ==
  ASSUME Shapes, NEW r \in Requests, ResetPasskeys(r)
  PROVE  /\ Shapes' /\ req[r].pc = "passkeys" /\ Ends(r) /\ UNCHANGED <<mem, now, log>>
         /\ db'.user = db.user
         /\ \A s \in Requests : req'[s].held \subseteq Factors(db'.user, db'.passkeys)
<1> DEFINE F == Factors(db.user, {})
<1>1. db' \in DbT /\ db'.user = db.user /\ db'.passkeys = {}
  BY DEF ResetPasskeys, PasskeysDeleteByUser, Shapes, DbT
<1>2. req' = Narrow([req EXCEPT ![r] = Idle], db.user, {})
  BY DEF ResetPasskeys, End
<1>3. /\ req' \in [Requests -> ReqT] /\ OthersSame(r) /\ req'[r] = [Idle EXCEPT !.held = @ \cap F]
      /\ \A s \in Requests : req'[s].held \subseteq F
  BY <1>2, BasicTypes, OneNarrowed
<1> HIDE DEF F
<1>4. Ends(r)
  BY <1>3 DEF Ends, Idle
<1> QED BY <1>1, <1>3, <1>4 DEF ResetPasskeys, Shapes, F

\* The administrator's switch-off ends the user's sessions.
LEMMA EndSessionsFacts ==
  ASSUME Shapes, NEW r \in Requests, EndSessions(r)
  PROVE  Shapes' /\ req[r].pc = "sessions" /\ Ends(r) /\ RowsKept /\ UNCHANGED <<mem, now, log>>
<1>1. req' \in [Requests -> ReqT] /\ Ends(r)
  BY EndFacts DEF EndSessions
<1>2. db' \in DbT /\ RowsKept
  BY DEF EndSessions, SessionsDeleteByUser, Shapes, DbT, RowsKept
<1> QED BY <1>1, <1>2 DEF EndSessions, Shapes

\* The administrator's forms: the row to be written is made at once.
LEMMA AdminFacts ==
  ASSUME Shapes, NEW r \in Requests, NEW active \in BOOLEAN,
         ResetSecondFactors(r) \/ UpdateUser(r, active)
  PROVE  /\ Shapes' /\ Opens(r, {"reset", "update"}, {"save"}) /\ UNCHANGED <<mem, now>>
         /\ RowEdited(req'[r].row, db.user, NextId)
<1> DEFINE k == IF ResetSecondFactors(r) THEN "reset" ELSE "update"
           row == IF ResetSecondFactors(r) THEN [ClearTOTP(db.user) EXCEPT !.codes = {}]
                  ELSE [db.user EXCEPT !.active = active]
           q == NewRecord(k, "save", 0, Wrong)
<1>1. k \in {"reset", "update"} /\ Begin(r, k) /\ log' = Started /\ UNCHANGED <<db, mem, now, scenario>>
  BY DEF ResetSecondFactors, UpdateUser
<1>2. NextId \in Ids /\ req[r].pc = "idle" /\ Started \in LogT /\ k \in Kinds
  BY <1>1, NextIdType
<1>3. db.user \in Row
  BY DEF Shapes, DbT
<1>4. row \in Row /\ RowEdited(row, db.user, NextId)
  <2>1. ClearTOTP(db.user) \in Row /\ [db.user EXCEPT !.active = active] \in Row
    BY <1>3, RowEdits
  <2>2. [ClearTOTP(db.user) EXCEPT !.codes = {}] \in Row
    BY <2>1, RowEdits
  <2>3. RowEdited([ClearTOTP(db.user) EXCEPT !.codes = {}], db.user, NextId)
    BY <1>3, RowType DEF RowEdited, ClearTOTP
  <2>4. RowEdited([db.user EXCEPT !.active = active], db.user, NextId)
    BY <1>3, RowType DEF RowEdited
  <2> QED BY <2>1, <2>2, <2>3, <2>4
<1>5. /\ q \in ReqT /\ q.kind = k /\ q.pc = "save" /\ q.id = NextId
      /\ q.row = db.user /\ q.base = db.user /\ q.challenge = 0
      /\ q.held = Factors(db.user, db.passkeys)
  BY <1>2, NewRecordType, Parameters, BasicTypes DEF Pcs
<1>6. req' = [req EXCEPT ![r] = [q EXCEPT !.row = row]]
  <2>1. CASE ResetSecondFactors(r)
    BY <2>1 DEF ResetSecondFactors, New, NewRecord, Shapes
  <2>2. CASE ~ResetSecondFactors(r)
    <3>1. req' = [New(r, "update", "save", 0, Wrong) EXCEPT ![r].row.active = active]
      BY <2>2 DEF UpdateUser
    <3>2. New(r, "update", "save", 0, Wrong) = [req EXCEPT ![r] = q]
      BY <2>2 DEF New, NewRecord
    <3> HIDE DEF q
    <3> QED BY <2>2, <3>1, <3>2, <1>5 DEF Shapes
  <2> QED BY <2>1, <2>2
<1> HIDE DEF k, row, q
<1>7. [q EXCEPT !.row = row] \in ReqT
  BY <1>4, <1>5 DEF ReqT
<1>8. req' \in [Requests -> ReqT] /\ OthersSame(r) /\ req'[r] = [q EXCEPT !.row = row]
  BY <1>6, <1>7, OneReplaced
<1>9. /\ req'[r].kind = k /\ req'[r].pc = "save" /\ req'[r].id = NextId
      /\ req'[r].row = row /\ req'[r].base = db.user /\ req'[r].challenge = 0
      /\ req'[r].held = Factors(db.user, db.passkeys)
  BY <1>5, <1>8 DEF ReqT
<1>10. Opens(r, {"reset", "update"}, {"save"})
  BY <1>1, <1>2, <1>8, <1>9 DEF Opens
<1> QED BY <1>1, <1>2, <1>4, <1>8, <1>9, <1>10 DEF Shapes

\* A restart: the tables are empty and nothing is being served.
LEMMA RestartFacts ==
  ASSUME Shapes, Restart
  PROVE  /\ Shapes' /\ UNCHANGED <<db, now>> /\ mem' = FreshMemory
         /\ \A r \in Requests : req'[r] = Idle
         /\ log'.guesses = 0 /\ log'.started = log.started + 1 /\ log'.started \in Ids
         /\ log'.stale = log.stale /\ log'.accepted = log.accepted
         /\ log'.twice = log.twice /\ log'.again = log.again /\ log'.checked = log.checked /\ log'.answered = log.answered
         /\ log'.replayed = log.replayed /\ log'.skipped = log.skipped
<1>1. log \in LogT /\ scenario \in ScenarioT
  BY DEF Shapes
<1>2. NextId \in Ids
  BY <1>1, Parameters DEF Restart, NextId, Ids, LogT, ScenarioT
<1>3. log' = [log EXCEPT !.started = NextId, !.guesses = 0]
  BY DEF Restart, Started
<1>4. /\ log' \in LogT /\ log'.guesses = 0 /\ log'.started = NextId
      /\ log'.stale = log.stale /\ log'.accepted = log.accepted
      /\ log'.twice = log.twice /\ log'.again = log.again /\ log'.checked = log.checked /\ log'.answered = log.answered
      /\ log'.replayed = log.replayed /\ log'.skipped = log.skipped
  BY <1>1, <1>2, <1>3 DEF LogT
<1> QED BY <1>2, <1>4, BasicTypes DEF Restart, Shapes, NextId

-----------------------------------------------------------------------------
(* The account page and the administrator, from the tables' point of view *)

\* The steps that touch neither the lockout, nor pending logins, nor the mutex.
Work(r) ==
    \/ Authenticate(r) \/ guarded(r) \/ EnableTOTP(r) \/ DisableTOTP(r) \/ RenewRecoveryCodes(r)
    \/ BeginPasskeyRegistration(r) \/ FinishPasskeyRegistration(r)
    \/ \E k \in db.passkeys : RemovePasskey(r, k)
    \/ PasskeyNotFound(r) \/ SaveUser(r) \/ ResetPasskeys(r) \/ EndSessions(r)

CountsKept ==
    /\ log'.started = log.started /\ log'.checked = log.checked /\ log'.answered = log.answered
    /\ log'.guesses = log.guesses /\ log'.replayed = log.replayed /\ log'.skipped = log.skipped

\* How far such a step takes its request.
Works(r) ==
    /\ req[r].pc \in {"authenticate", "guard", "change", "save", "passkeys", "sessions"}
    /\ \/ Ends(r)
       \/ /\ Moves(r, {"factor", "failed", "consume", "change", "save", "passkeys", "sessions"})
          /\ req'[r].pc = "factor" => req[r].pc = "authenticate"
          /\ req'[r].pc \in {"consume", "failed"} => req[r].pc = "authenticate" \/ ~IsLocked
          /\ req'[r].pc = "consume" => req[r].kind \in {"disable", "renew"}

\* The steps of the account page and of the administrator leave the tables
\* and what is counted alone.
LEMMA WorkFacts ==
  ASSUME Shapes, NEW r \in Requests, Work(r)
  PROVE  Shapes' /\ TablesKept /\ now' = now /\ CountsKept /\ Works(r)
<1>1. CASE Authenticate(r)
  <2>1. /\ Shapes' /\ req[r].pc = "authenticate" /\ Moves(r, {"factor", "failed"})
        /\ UNCHANGED <<mem, now, log>>
    BY <1>1, AuthenticateFacts
  <2> QED BY <2>1 DEF TablesKept, CountsKept, Works, Moves
<1>2. CASE guarded(r)
  <2>1. /\ Shapes' /\ req[r].pc = "guard" /\ UNCHANGED <<mem, now, log>>
        /\ \/ Ends(r)
           \/ /\ Moves(r, {"consume", "change", "failed"}) /\ ~IsLocked
              /\ req'[r].pc = "consume" => req[r].kind \in {"disable", "renew"}
    BY <1>2, GuardedFacts
  <2> QED BY <2>1 DEF TablesKept, CountsKept, Works, Moves
<1>3. ASSUME Shapes', req[r].pc \in {"change", "save", "passkeys", "sessions"}, TablesKept,
             now' = now, CountsKept, Ends(r) \/ Moves(r, {"save"}) \/ Moves(r, {"passkeys", "sessions"})
      PROVE  Shapes' /\ TablesKept /\ now' = now /\ CountsKept /\ Works(r)
  BY <1>3 DEF Works, Moves
<1>4. CASE EnableTOTP(r)
  <2>1. /\ Shapes' /\ req[r].pc = "change" /\ UNCHANGED <<mem, now>>
        /\ Ends(r) \/ Moves(r, {"save"})
        /\ CountsKept
    BY <1>4, EnableFacts DEF CountsKept
  <2> QED BY <1>3, <2>1 DEF TablesKept
<1>5. CASE DisableTOTP(r)
  BY <1>3, <1>5, DisableFacts DEF TablesKept, CountsKept
<1>6. CASE RenewRecoveryCodes(r)
  BY <1>3, <1>6, RenewFacts DEF TablesKept, CountsKept
<1>7. CASE BeginPasskeyRegistration(r)
  BY <1>3, <1>7, BeginRegistrationFacts DEF CountsKept
<1>8. CASE FinishPasskeyRegistration(r)
  BY <1>3, <1>8, FinishRegistrationFacts DEF CountsKept
<1>9. CASE \E k \in db.passkeys : RemovePasskey(r, k)
  BY <1>3, <1>9, RemovePasskeyFacts DEF TablesKept, CountsKept
<1>10. CASE PasskeyNotFound(r)
  BY <1>3, <1>10, NotFoundFacts DEF TablesKept, CountsKept
<1>11. CASE SaveUser(r)
  <2>1. /\ Shapes' /\ req[r].pc = "save" /\ UNCHANGED <<mem, now>> /\ CountsKept
        /\ Ends(r) \/ Moves(r, {"passkeys", "sessions"})
    BY <1>11, SaveUserFacts DEF CountsKept
  <2> QED BY <1>3, <2>1 DEF TablesKept
<1>12. CASE ResetPasskeys(r)
  BY <1>3, <1>12, ResetPasskeysFacts DEF TablesKept, CountsKept
<1>13. CASE EndSessions(r)
  BY <1>3, <1>13, EndSessionsFacts DEF TablesKept, CountsKept
<1> QED BY <1>1, <1>2, <1>4, <1>5, <1>6, <1>7, <1>8, <1>9, <1>10, <1>11, <1>12, <1>13 DEF Work

\* The requests that start without a pending login.
Starts(r) ==
    \/ \E p \in {Right, Wrong} : Login(r, p)
    \/ \E k \in {"register", "remove"}, p \in {Right, Wrong} : PasskeyForm(r, k, p)
    \/ PasskeyForm(r, "finish", Right)
    \/ \E c \in {Wrong, Right} \cup SetupCodes : TwoStepForm(r, "enable", c)
    \/ \E c \in Typed : TwoStepForm(r, "disable", c)
    \/ \E c \in Typed \cup {Right} : TwoStepForm(r, "renew", c)
    \/ ResetSecondFactors(r)
    \/ \E active \in BOOLEAN : UpdateUser(r, active)

\* What they start with.
Begun(r) ==
    /\ Opens(r, Kinds \ {"code", "passkey"}, {"authenticate", "guard", "change", "save"})
    /\ req'[r].pc = "authenticate" => req'[r].kind = "login" /\ ~IsLocked
    /\ req'[r].pc # "save" => req'[r].row = db.user
    /\ RowEdited(req'[r].row, db.user, NextId)
    /\ req'[r].kind = "enable" /\ req'[r].code.type = "totp" =>
          req'[r].code.of = NextId \/ Known(req'[r].code)

\* A row is edited from itself by changing nothing.
LEMMA RowUnedited ==
  ASSUME NEW row, NEW id
  PROVE  RowEdited(row, row, id)
BY DEF RowEdited

\* Starting such a request changes nothing but the requests and the ids drawn.
LEMMA StartsFacts ==
  ASSUME Shapes, NEW r \in Requests, Starts(r)
  PROVE  Shapes' /\ UNCHANGED <<mem, now>> /\ Begun(r)
<1>1. ASSUME NEW p \in {Right, Wrong}, Login(r, p)
      PROVE  Shapes' /\ UNCHANGED <<mem, now>> /\ Begun(r)
  <2>1. /\ Shapes' /\ Opens(r, {"login"}, {"authenticate"}) /\ req'[r].row = db.user
        /\ ~IsLocked /\ UNCHANGED <<mem, now>>
    BY <1>1, LoginFacts
  <2> QED BY <2>1, RowUnedited DEF Begun, Opens, Kinds
<1>2. ASSUME NEW k \in {"register", "remove", "finish", "enable", "disable", "renew"},
             NEW pc \in {"guard", "change"}, NEW code \in Typeable, requireUser(r, k, pc, code),
             k = "enable" /\ code.type = "totp" => code.of = NextId \/ Known(code)
      PROVE  Shapes' /\ UNCHANGED <<mem, now>> /\ Begun(r)
  <2>1. /\ Shapes' /\ Opens(r, {k}, {pc}) /\ req'[r].row = db.user /\ req'[r].code = code
        /\ UNCHANGED <<mem, now>>
    BY <1>2, RequireUserFacts
  <2>2. RowEdited(req'[r].row, db.user, NextId)
    BY <2>1, RowUnedited
  <2> QED BY <1>2, <2>1, <2>2 DEF Begun, Opens, Kinds
<1>3. ASSUME NEW k \in {"register", "remove", "finish"}, NEW p \in {Right, Wrong}, PasskeyForm(r, k, p)
      PROVE  Shapes' /\ UNCHANGED <<mem, now>> /\ Begun(r)
  <2>1. p \in Typeable
    BY BasicTypes
  <2> QED BY <1>2, <1>3, <2>1 DEF PasskeyForm
<1>4. ASSUME NEW c \in {Wrong, Right} \cup SetupCodes, TwoStepForm(r, "enable", c)
      PROVE  Shapes' /\ UNCHANGED <<mem, now>> /\ Begun(r)
  <2>1. requireUser(r, "enable", "guard", c)
    BY <1>4 DEF TwoStepForm
  <2>2. NextId \in Ids /\ now \in Nat
    BY <2>1, NextIdType DEF requireUser, Shapes
  <2>3. c \in Typeable
    BY <2>2, BasicTypes, TypedType
  <2>4. ASSUME c \in SetupCodes PROVE c.of = NextId \/ Known(c)
    <3>1. PICK i \in {NextId} \cup UsedSecrets, n \in Near : c = TOTP(i, n)
      BY <2>4 DEF SetupCodes
    <3>2. c.of = i
      BY <3>1 DEF TOTP
    <3> QED BY <3>1, <3>2 DEF Known, UsedSecrets
  <2>5. c.type = "totp" => c.of = NextId \/ Known(c)
    BY <2>4 DEF Wrong, Right
  <2> QED BY <1>2, <2>1, <2>3, <2>5
<1>5. ASSUME NEW k \in {"disable", "renew"}, NEW c \in Typed \cup {Right}, TwoStepForm(r, k, c)
      PROVE  Shapes' /\ UNCHANGED <<mem, now>> /\ Begun(r)
  <2>1. requireUser(r, k, "guard", c)
    BY <1>5 DEF TwoStepForm
  <2>2. c \in Typeable
    BY TypedType, BasicTypes
  <2> QED BY <1>2, <2>1, <2>2
<1>6. ASSUME NEW active \in BOOLEAN, ResetSecondFactors(r) \/ UpdateUser(r, active)
      PROVE  Shapes' /\ UNCHANGED <<mem, now>> /\ Begun(r)
  <2>1. /\ Shapes' /\ Opens(r, {"reset", "update"}, {"save"}) /\ UNCHANGED <<mem, now>>
        /\ RowEdited(req'[r].row, db.user, NextId)
    BY <1>6, AdminFacts
  <2> QED BY <2>1 DEF Begun, Opens, Kinds
<1> QED BY <1>1, <1>3, <1>4, <1>5, <1>6, Zenon DEF Starts

\* Every request that starts is one of these.
LEMMA RequestSplit ==
  ASSUME Shapes, NEW r \in Requests, Request(r)
  PROVE  \/ Starts(r)
         \/ \E k \in {"code", "passkey"}, t \in Ids, c \in Typeable : reservePendingAttempt(r, k, t, c)
         \/ \E t \in Ids : BeginPasskeyLogin(r, t)
<1>1. 1..MaxRequests \subseteq Ids
  BY Parameters DEF Ids
<1>2. \A c \in Typed : c \in Typeable
  BY TypedType
<1>3. \A c \in Assertions : c \in Typeable
  BY TypedType
<1> QED BY <1>1, <1>2, <1>3, Zenon DEF Request, Starts, Code, PasskeyFinish

-----------------------------------------------------------------------------
(* The mutex *)

\* A step of a request outside the mutex.
LEMMA MutexQuiet ==
  ASSUME Shapes, MutexHeld, NEW r \in Requests, OthersSame(r), mem'.mutex = mem.mutex,
         r \notin mem.mutex, req'[r].pc # "use"
  PROVE  MutexHeld'
BY DEF Shapes, MemT, MutexHeld, OthersSame, Same

\* A step that leaves the mutex.
LEMMA MutexLeft ==
  ASSUME Shapes, MutexHeld, NEW r \in Requests, OthersSame(r), mem'.mutex = mem.mutex \ {r},
         req'[r].pc # "use"
  PROVE  MutexHeld'
BY DEF Shapes, MemT, MutexHeld, OthersSame, Same

\* A step that enters the mutex.
LEMMA MutexTaken ==
  ASSUME Shapes, MutexHeld, NEW r \in Requests, OthersSame(r), mem.mutex = {}, mem'.mutex = {r},
         req'[r].pc \in {"use", "finish", "failed"},
         req'[r].pc # "use" => req'[r].kind \in {"code", "passkey"}
  PROVE  MutexHeld'
BY DEF Shapes, MemT, MutexHeld, OthersSame, Same

\* Whoever is past the mutex's check is not inside it.
LEMMA MutexOutside ==
  ASSUME MutexHeld, NEW r \in Requests,
         req[r].pc \notin {"use", "finish", "failed"}
           \/ (req[r].pc = "failed" /\ req[r].kind \notin {"code", "passkey"})
  PROVE  r \notin mem.mutex
BY DEF MutexHeld

\* Where a step of r leaves it, as far as the mutex goes.
LEMMA MovesFacts ==
  ASSUME NEW r \in Requests, NEW P, NEW K
  PROVE  /\ Moves(r, P) => OthersSame(r) /\ req'[r].pc \in P /\ req'[r].kind = req[r].kind
         /\ Ends(r) => OthersSame(r) /\ req'[r].pc = "idle"
         /\ Opens(r, K, P) => OthersSame(r) /\ req'[r].pc \in P /\ req[r].pc = "idle"
BY DEF Moves, Ends, Opens

\* Every step of a request keeps the mutex to one request.
LEMMA MutexStep ==
  ASSUME Shapes, MutexHeld, Drawn, NEW r \in Requests, Step(r)
  PROVE  MutexHeld'
<1>1. CASE Work(r)
  <2>1. TablesKept /\ Works(r)
    BY <1>1, WorkFacts
  <2>2. r \notin mem.mutex
    BY <2>1, MutexOutside DEF Works
  <2>3. OthersSame(r) /\ req'[r].pc # "use"
    BY <2>1, MovesFacts DEF Works
  <2> QED BY <2>1, <2>2, <2>3, MutexQuiet DEF TablesKept
<1>2. CASE LoginFailed(r)
  BY <1>2, LoginFailedFacts, MutexOutside, MovesFacts, MutexQuiet
<1>3. CASE SecondFactorRequired(r)
  BY <1>3, SecondFactorRequiredFacts, MutexOutside, MovesFacts, MutexQuiet
<1>4. CASE PasswordOnly(r)
  BY <1>4, PasswordOnlyFacts, MutexOutside, MovesFacts, MutexQuiet
<1>5. CASE PendingLockCheck(r)
  <2>1. /\ req[r].pc = "lockcheck" /\ mem'.mutex = mem.mutex
        /\ Ends(r) \/ Moves(r, {"load"})
    BY <1>5, PendingLockCheckFacts
  <2> QED BY <2>1, MutexOutside, MovesFacts, MutexQuiet
<1>6. CASE PendingLoad(r)
  <2>1. /\ req[r].pc = "load" /\ mem'.mutex = mem.mutex
        /\ Ends(r) \/ Moves(r, {"consume", "take"})
    BY <1>6, PendingLoadFacts
  <2> QED BY <2>1, MutexOutside, MovesFacts, MutexQuiet
<1>7. CASE SecondFactorFailed(r)
  BY <1>7, SecondFactorFailedFacts, MovesFacts, MutexLeft
<1>8. CASE finishPendingLogin(r)
  BY <1>8, FinishPendingFacts, MovesFacts, MutexLeft
<1>9. CASE lockUser(r)
  <2>1. mem.mutex = {} /\ mem'.mutex = {r} /\ Moves(r, {"use"})
    BY <1>9, LockUserFacts
  <2> QED BY <2>1, MovesFacts, MutexTaken
<1>10. CASE consumeSecondFactor(r)
  <2>1. /\ mem'.mutex = mem.mutex \ {r}
        /\ Moves(r, {"finish", "change"}) \/ Moves(r, {"failed"})
    BY <1>10, ConsumeFacts
  <2> QED BY <2>1, MovesFacts, MutexLeft
<1>11. CASE TakeChallenge(r)
  <2>1. /\ req[r].pc = "take" /\ mem'.mutex = mem.mutex
        /\ Ends(r) \/ Moves(r, {"verify"})
    BY <1>11, TakeChallengeFacts
  <2> QED BY <2>1, MutexOutside, MovesFacts, MutexQuiet
<1>12. CASE CompletePasskeyLogin(r)
  <2>1. /\ req[r].pc = "verify" /\ mem.mutex = {} /\ mem'.mutex = {r}
        /\ Moves(r, {"finish", "failed"})
    BY <1>12, CompletePasskeyFacts
  <2>2. req[r].kind \in {"code", "passkey"}
    BY <2>1 DEF Drawn
  <2> QED BY <2>1, <2>2, MovesFacts, MutexTaken
<1> QED BY <1>1, <1>2, <1>3, <1>4, <1>5, <1>6, <1>7, <1>8, <1>9, <1>10, <1>11, <1>12, Zenon
        DEF Step, Work

\* So does a request that starts.
LEMMA MutexRequest ==
  ASSUME Shapes, MutexHeld, NEW r \in Requests, Request(r)
  PROVE  MutexHeld'
<1>1. CASE Starts(r)
  <2>1. mem' = mem /\ Begun(r)
    BY <1>1, StartsFacts
  <2> QED BY <2>1, MutexOutside, MovesFacts, MutexQuiet DEF Begun
<1>2. ASSUME NEW k \in {"code", "passkey"}, NEW t \in Ids, NEW c \in Typeable,
             reservePendingAttempt(r, k, t, c)
      PROVE  MutexHeld'
  <2>1. mem'.mutex = mem.mutex /\ (Opens(r, {k}, {"lockcheck"}) \/ req' = req)
    BY <1>2, ReserveFacts
  <2>2. CASE Opens(r, {k}, {"lockcheck"})
    BY <2>1, <2>2, MutexOutside, MovesFacts, MutexQuiet
  <2>3. CASE req' = req
    BY <2>1, <2>3 DEF MutexHeld
  <2> QED BY <2>1, <2>2, <2>3
<1>3. ASSUME NEW t \in Ids, BeginPasskeyLogin(r, t) PROVE MutexHeld'
  <2>1. mem'.mutex = mem.mutex /\ req' = req
    BY <1>3, BeginPasskeyLoginFacts
  <2> QED BY <2>1 DEF MutexHeld
<1> QED BY <1>1, <1>2, <1>3, RequestSplit

-----------------------------------------------------------------------------
(* Ids *)

\* The kinds of request that reach a step.
KindFits(pc, kind) ==
    /\ pc \in {"lockcheck", "load", "take", "verify"} => kind \in {"code", "passkey"}
    /\ pc \in {"authenticate", "factor"} => kind = "login"
    /\ pc \in {"consume", "use"} => kind \in {"code", "disable", "renew"}

\* A request goes on under its id, or ends.
LEMMA DrawnMoves ==
  ASSUME Shapes, Drawn, NEW r \in Requests, NEW P, Running(r), Moves(r, P),
         KindFits(req'[r].pc, req[r].kind), log'.started = log.started
  PROVE  Drawn'
BY DEF Drawn, Running, Moves, OthersSame, Same, KindFits

\* A request that ends gives its id back to nobody.
LEMMA DrawnEnds ==
  ASSUME Shapes, Drawn, NEW r \in Requests, Ends(r), log'.started = log.started
  PROVE  Drawn'
BY DEF Drawn, Running, Ends, OthersSame, Same

\* A request starts under the next id.
LEMMA DrawnOpens ==
  ASSUME Shapes, Drawn, NEW r \in Requests, NEW K, NEW P, Opens(r, K, P),
         KindFits(req'[r].pc, req'[r].kind)
  PROVE  Drawn'
<1>1. log.started \in Nat /\ NextId = log.started + 1 /\ log'.started = NextId
      /\ \A s \in Requests : req[s].id \in Nat
  BY Parameters DEF Shapes, LogT, ReqT, NextId, Opens, Started
<1>2. req'[r].id = NextId /\ OthersSame(r)
  BY DEF Opens
<1> QED BY <1>1, <1>2 DEF Drawn, Running, OthersSame, Same, KindFits

\* An id is drawn, or none is.
LEMMA DrawnSame ==
  ASSUME Shapes, Drawn, req' = req, log' = Started \/ log'.started = log.started
  PROVE  Drawn'
<1>1. log.started \in Nat /\ log'.started >= log.started
      /\ \A s \in Requests : req[s].id \in Nat
  BY Parameters DEF Shapes, LogT, ReqT, NextId, Started
<1>2. log'.started \in {log.started, log.started + 1}
  BY <1>1 DEF Shapes, LogT, NextId, Started
<1> QED BY <1>1, <1>2 DEF Drawn, Running

\* A step of a request ends it or takes it on, to a step its kind reaches.
LEMMA StepShape ==
  ASSUME Shapes, Drawn, NEW r \in Requests, Step(r)
  PROVE  /\ log'.started = log.started
         /\ Running(r)
         /\ \/ Ends(r)
            \/ \E P : Moves(r, P) /\ KindFits(req'[r].pc, req[r].kind)
<1>1. CASE Work(r)
  <2>1. CountsKept /\ Works(r)
    BY <1>1, WorkFacts
  <2>2. CASE Ends(r)
    BY <2>1, <2>2 DEF CountsKept, Works, Running
  <2>3. CASE ~Ends(r)
    <3> DEFINE P == {"factor", "failed", "consume", "change", "save", "passkeys", "sessions"}
    <3>1. /\ Moves(r, P)
          /\ req'[r].pc = "factor" => req[r].pc = "authenticate"
          /\ req'[r].pc = "consume" => req[r].kind \in {"disable", "renew"}
      BY <2>1, <2>3 DEF Works
    <3>2. req'[r].pc \in P
      BY <3>1, MovesFacts
    <3>3. KindFits(req'[r].pc, req[r].kind)
      BY <3>1, <3>2 DEF KindFits, Drawn
    <3> QED BY <2>1, <3>1, <3>3 DEF CountsKept, Works, Running
  <2> QED BY <2>2, <2>3
<1>2. CASE LoginFailed(r)
  BY <1>2, LoginFailedFacts DEF HistoryKept, Running
<1>3. CASE SecondFactorRequired(r)
  BY <1>3, SecondFactorRequiredFacts DEF Running
<1>4. CASE PasswordOnly(r)
  BY <1>4, PasswordOnlyFacts DEF HistoryKept, Running
<1>5. CASE PendingLockCheck(r)
  <2>1. req[r].pc = "lockcheck" /\ log' = log /\ (Ends(r) \/ Moves(r, {"load"}))
    BY <1>5, PendingLockCheckFacts
  <2>2. Moves(r, {"load"}) => KindFits(req'[r].pc, req[r].kind)
    BY <2>1, MovesFacts DEF KindFits, Drawn
  <2> QED BY <2>1, <2>2 DEF Running
<1>6. CASE PendingLoad(r)
  <2>1. /\ req[r].pc = "load" /\ log' = log
        /\ Ends(r) \/ (Moves(r, {"consume", "take"}) /\ (req'[r].pc = "consume" <=> req[r].kind = "code"))
    BY <1>6, PendingLoadFacts
  <2>2. Moves(r, {"consume", "take"}) /\ (req'[r].pc = "consume" <=> req[r].kind = "code")
           => KindFits(req'[r].pc, req[r].kind)
    BY <2>1, MovesFacts DEF KindFits, Drawn
  <2> QED BY <2>1, <2>2 DEF Running
<1>7. CASE SecondFactorFailed(r)
  BY <1>7, SecondFactorFailedFacts DEF HistoryKept, Running
<1>8. CASE finishPendingLogin(r)
  BY <1>8, FinishPendingFacts DEF HistoryKept, Running
<1>9. CASE lockUser(r)
  <2>1. req[r].pc = "consume" /\ log'.started = log.started /\ Moves(r, {"use"})
    BY <1>9, LockUserFacts
  <2>2. KindFits(req'[r].pc, req[r].kind)
    BY <2>1, MovesFacts DEF KindFits, Drawn
  <2> QED BY <2>1, <2>2 DEF Running
<1>10. CASE consumeSecondFactor(r)
  <2>1. /\ req[r].pc = "use" /\ log'.started = log.started
        /\ Moves(r, {"finish", "change"}) \/ Moves(r, {"failed"})
    BY <1>10, ConsumeFacts
  <2>2. KindFits(req'[r].pc, req[r].kind)
    BY <2>1, MovesFacts DEF KindFits, Drawn
  <2> QED BY <2>1, <2>2 DEF Running
<1>11. CASE TakeChallenge(r)
  <2>1. req[r].pc = "take" /\ log' = log /\ (Ends(r) \/ Moves(r, {"verify"}))
    BY <1>11, TakeChallengeFacts
  <2>2. Moves(r, {"verify"}) => KindFits(req'[r].pc, req[r].kind)
    BY <2>1, MovesFacts DEF KindFits, Drawn
  <2> QED BY <2>1, <2>2 DEF Running
<1>12. CASE CompletePasskeyLogin(r)
  <2>1. req[r].pc = "verify" /\ log'.started = log.started /\ Moves(r, {"finish", "failed"})
    BY <1>12, CompletePasskeyFacts
  <2>2. KindFits(req'[r].pc, req[r].kind)
    BY <2>1, MovesFacts DEF KindFits, Drawn
  <2> QED BY <2>1, <2>2 DEF Running
<1> QED BY <1>1, <1>2, <1>3, <1>4, <1>5, <1>6, <1>7, <1>8, <1>9, <1>10, <1>11, <1>12, Zenon
        DEF Step, Work

\* Every step of a request keeps ids apart.
LEMMA DrawnStep ==
  ASSUME Shapes, Drawn, NEW r \in Requests, Step(r)
  PROVE  Drawn'
BY StepShape, DrawnEnds, DrawnMoves

\* So does a request that starts.
LEMMA DrawnRequest ==
  ASSUME Shapes, Drawn, NEW r \in Requests, Request(r)
  PROVE  Drawn'
<1>1. CASE Starts(r)
  <2>1. Begun(r)
    BY <1>1, StartsFacts
  <2>2. KindFits(req'[r].pc, req'[r].kind)
    BY <2>1 DEF Begun, Opens, KindFits
  <2> QED BY <2>1, <2>2, DrawnOpens DEF Begun
<1>2. ASSUME NEW k \in {"code", "passkey"}, NEW t \in Ids, NEW c \in Typeable,
             reservePendingAttempt(r, k, t, c)
      PROVE  Drawn'
  <2>1. log' = Started /\ (Opens(r, {k}, {"lockcheck"}) \/ req' = req)
    BY <1>2, ReserveFacts
  <2>2. CASE Opens(r, {k}, {"lockcheck"})
    <3>1. KindFits(req'[r].pc, req'[r].kind)
      BY <2>2 DEF Opens, KindFits
    <3> QED BY <2>2, <3>1, DrawnOpens
  <2>3. CASE req' = req
    BY <2>1, <2>3, DrawnSame
  <2> QED BY <2>1, <2>2, <2>3
<1>3. ASSUME NEW t \in Ids, BeginPasskeyLogin(r, t) PROVE Drawn'
  BY <1>3, BeginPasskeyLoginFacts, DrawnSame
<1> QED BY <1>1, <1>2, <1>3, RequestSplit

-----------------------------------------------------------------------------
(* Attempts *)

\* Counting requests.
LEMMA Counting ==
  ASSUME NEW S \in SUBSET Requests
  PROVE  /\ Cardinality(S) \in Nat /\ Cardinality(S) <= Cardinality(Requests)
         /\ Cardinality(Requests) \in Nat
         /\ \A T \in SUBSET S : Cardinality(T) <= Cardinality(S)
         /\ \A x : x \notin S => Cardinality(S \cup {x}) = Cardinality(S) + 1
         /\ \A x \in S : Cardinality(S \ {x}) = Cardinality(S) - 1
         /\ Cardinality({}) = 0
<1>1. IsFiniteSet(Requests)
  BY Parameters
<1>2. IsFiniteSet(S) /\ Cardinality(S) <= Cardinality(Requests)
  BY <1>1, FS_Subset
<1>3. Cardinality(S) \in Nat /\ Cardinality(Requests) \in Nat
  BY <1>1, <1>2, FS_CardinalityType
<1>4. \A T \in SUBSET S : Cardinality(T) <= Cardinality(S)
  BY <1>2, FS_Subset
<1>5. \A x : x \notin S => Cardinality(S \cup {x}) = Cardinality(S) + 1
  BY <1>2, FS_AddElement
<1>6. \A x \in S : Cardinality(S \ {x}) = Cardinality(S) - 1
  BY <1>2, FS_RemoveElement
<1> QED BY <1>2, <1>3, <1>4, <1>5, <1>6, FS_EmptySet

\* What holds of one pending login.
Reservation(t) ==
    /\ log.checked[t] + Cardinality(Reserved(t)) <= PendingLoginAttempts
    /\ mem.pending[t].live =>
          log.checked[t] + Cardinality(Reserved(t)) <= mem.pending[t].attempts
    /\ Unborn(t) => ~mem.pending[t].live /\ log.checked[t] = 0 /\ Reserved(t) = {}

\* The numbers and sets the counts are made of.
LEMMA ReservationTypes ==
  ASSUME Shapes, NEW t \in Ids
  PROVE  /\ log.checked[t] \in Nat /\ Reserved(t) \in SUBSET Requests
         /\ Cardinality(Reserved(t)) \in Nat
         /\ mem.pending[t].attempts \in 0..PendingLoginAttempts
         /\ mem.pending[t].live \in BOOLEAN
<1>1. log.checked[t] \in Nat /\ Reserved(t) \in SUBSET Requests
  BY DEF Shapes, LogT, Reserved
<1>2. mem.pending[t].attempts \in 0..PendingLoginAttempts /\ mem.pending[t].live \in BOOLEAN
  BY DEF Shapes, MemT, PendingT
<1> QED BY <1>1, <1>2, Counting

\* Pending login t has no more attempts left than before, if it still lives.
Narrowed(t) ==
    mem'.pending[t].live => mem.pending[t].live /\ mem'.pending[t].attempts = mem.pending[t].attempts

\* No attempt of t is reserved or checked.
LEMMA ReservationQuiet ==
  ASSUME Shapes, Shapes', NEW t \in Ids, Reservation(t), Reserved(t)' \subseteq Reserved(t),
         log'.checked[t] = log.checked[t], Narrowed(t), Unborn(t)' => Unborn(t)
  PROVE  Reservation(t)'
<1> DEFINE A == Reserved(t)
           B == Reserved(t)'
<1>1. A \in SUBSET Requests /\ B \in SUBSET A /\ Cardinality(A) \in Nat /\ log.checked[t] \in Nat
      /\ mem.pending[t].attempts \in Nat
  BY ReservationTypes, Parameters
<1> HIDE DEF A, B
<1>2. Cardinality(B) <= Cardinality(A) /\ Cardinality(B) \in Nat
  BY <1>1, Counting
<1> USE DEF A, B
<1>3. log'.checked[t] + Cardinality(B) <= PendingLoginAttempts
  BY <1>1, <1>2, Parameters DEF Reservation
<1>4. mem'.pending[t].live => log'.checked[t] + Cardinality(B) <= mem'.pending[t].attempts
  BY <1>1, <1>2 DEF Reservation, Narrowed
<1>5. Unborn(t)' => ~mem'.pending[t].live /\ log'.checked[t] = 0 /\ B = {}
  BY DEF Reservation, Narrowed
<1> QED BY <1>3, <1>4, <1>5 DEF Reservation

\* A reserved attempt is checked.
LEMMA ReservationChecked ==
  ASSUME Shapes, Shapes', NEW t \in Ids, Reservation(t), NEW r \in Reserved(t),
         Reserved(t)' \subseteq Reserved(t) \ {r},
         log'.checked[t] = log.checked[t] + 1, Narrowed(t), Unborn(t)' => Unborn(t)
  PROVE  Reservation(t)'
<1> DEFINE A == Reserved(t)
           B == Reserved(t)'
<1>1. /\ A \in SUBSET Requests /\ B \in SUBSET (A \ {r}) /\ r \in A /\ A \ {r} \in SUBSET Requests
      /\ Cardinality(A) \in Nat /\ log.checked[t] \in Nat /\ mem.pending[t].attempts \in Nat
  BY ReservationTypes, Parameters
<1> HIDE DEF A, B
<1>2. /\ Cardinality(A \ {r}) = Cardinality(A) - 1 /\ Cardinality(A \ {r}) \in Nat
      /\ Cardinality(B) <= Cardinality(A \ {r})
  BY <1>1, Counting
<1>3. Cardinality(B) \in Nat
  <2>1. B \in SUBSET Requests
    BY <1>1
  <2> QED BY <2>1, Counting
<1> USE DEF A, B
<1>4. log'.checked[t] + Cardinality(B) <= PendingLoginAttempts
  BY <1>1, <1>2, <1>3, Parameters DEF Reservation
<1>5. mem'.pending[t].live => log'.checked[t] + Cardinality(B) <= mem'.pending[t].attempts
  BY <1>1, <1>2, <1>3 DEF Reservation, Narrowed
<1>6. ~Unborn(t)'
  BY <1>1 DEF Reservation
<1> QED BY <1>4, <1>5, <1>6 DEF Reservation

\* An attempt is reserved.
LEMMA ReservationMade ==
  ASSUME Shapes, Shapes', NEW t \in Ids, Reservation(t), NEW r \in Requests, r \notin Reserved(t),
         Reserved(t)' = Reserved(t) \cup {r}, pendingUsable(t), mem'.pending = pendingReserve(t),
         log'.checked[t] = log.checked[t], Unborn(t)' => Unborn(t)
  PROVE  Reservation(t)'
<1> DEFINE A == Reserved(t)
<1>1. /\ A \in SUBSET Requests /\ r \notin A
      /\ Cardinality(A) \in Nat /\ log.checked[t] \in Nat /\ mem.pending[t].attempts \in Nat
  BY ReservationTypes, Parameters
<1> HIDE DEF A
<1>2. Cardinality(A \cup {r}) = Cardinality(A) + 1
  BY <1>1, Counting
<1>3. /\ mem.pending[t].live /\ mem.pending[t].attempts < PendingLoginAttempts
      /\ mem'.pending[t].attempts = mem.pending[t].attempts + 1
  BY DEF pendingUsable, pendingReserve, Shapes, MemT, PendingT
<1>4. Reserved(t)' = A \cup {r} /\ log.checked[t] + Cardinality(A) <= mem.pending[t].attempts
  BY <1>3 DEF A, Reservation
<1> DEFINE a == Cardinality(A)
           b == Cardinality(Reserved(t)')
           n == log.checked[t]
<1>8. b = a + 1 /\ a \in Nat /\ n \in Nat /\ n + a <= mem.pending[t].attempts
  BY <1>1, <1>2, <1>4
<1> HIDE DEF a, b, n
<1>9. n + b <= mem'.pending[t].attempts /\ n + b <= PendingLoginAttempts
  BY <1>1, <1>3, <1>8, Parameters
<1>5. log'.checked[t] + Cardinality(Reserved(t)') <= mem'.pending[t].attempts
  BY <1>9 DEF n, b
<1>6. log'.checked[t] + Cardinality(Reserved(t)') <= PendingLoginAttempts
  BY <1>9 DEF n, b
<1>7. ~Unborn(t)'
  BY <1>3 DEF Reservation
<1> QED BY <1>5, <1>6, <1>7 DEF Reservation

\* A pending login is recorded under the id of the password that passed.
LEMMA ReservationBorn ==
  ASSUME Shapes, Shapes', NEW t \in Ids, Reservation(t), Unborn(t), ~Unborn(t)',
         Reserved(t)' \subseteq Reserved(t), log'.checked[t] = log.checked[t]
  PROVE  Reservation(t)'
<1>1. Reserved(t)' = {} /\ log'.checked[t] = 0 /\ Cardinality(Reserved(t)') = 0
  BY FS_EmptySet DEF Reservation
<1>2. mem'.pending[t].attempts \in 0..PendingLoginAttempts
  BY DEF Shapes, MemT, PendingT
<1> QED BY <1>1, <1>2, Parameters DEF Reservation

\* The operations on pending logins that give no attempts away.
LEMMA PendingNarrowed ==
  ASSUME Shapes, NEW t \in Ids, NEW u \in Ids, NEW i \in Ids,
         mem'.pending \in {mem.pending, pendingRemove(t), takePasskeyChallenge(t), setPasskeyChallenge(t, i)}
  PROVE  Narrowed(u)
<1>1. mem.pending \in [Ids -> PendingT]
  BY DEF Shapes, MemT
<1>2. pendingRemove(t)[u] \in {NoPending, mem.pending[u]}
  BY <1>1 DEF pendingRemove
<1>3. takePasskeyChallenge(t)[u].live = mem.pending[u].live
      /\ takePasskeyChallenge(t)[u].attempts = mem.pending[u].attempts
  BY <1>1 DEF takePasskeyChallenge, PendingT
<1>4. setPasskeyChallenge(t, i)[u].live = mem.pending[u].live
      /\ setPasskeyChallenge(t, i)[u].attempts = mem.pending[u].attempts
  BY <1>1 DEF setPasskeyChallenge, PendingT
<1>5. NoPending.live = FALSE
  BY DEF NoPending
<1> QED BY <1>2, <1>3, <1>4, <1>5 DEF Narrowed

\* r holds a reserved attempt.
Reserving(r) ==
    /\ req[r].kind \in {"code", "passkey"}
    /\ req[r].pc \in {"lockcheck", "load", "consume", "take", "verify"}

\* A step reserves nothing unless it takes its request there.
LEMMA ReservedKept ==
  ASSUME NEW r \in Requests, OthersSame(r), NEW t \in Ids,
         Reserving(r)' => Reserving(r) /\ req'[r].tok = req[r].tok
  PROVE  Reserved(t)' \subseteq Reserved(t)
BY DEF Reserved, Reserving, OthersSame, Same

\* A step that leaves the reserving steps gives its attempt up.
LEMMA ReservedLeft ==
  ASSUME NEW r \in Requests, OthersSame(r), NEW t \in Ids, ~Reserving(r)'
  PROVE  Reserved(t)' \subseteq Reserved(t) \ {r}
BY DEF Reserved, Reserving, OthersSame, Same

\* No id becomes unborn by a step of a request.
LEMMA UnbornStep ==
  ASSUME Shapes, Drawn, NEW r \in Requests, Step(r), NEW t \in Ids
  PROVE  Unborn(t)' => Unborn(t)
<1>1. /\ log'.started = log.started /\ Running(r) /\ OthersSame(r)
      /\ req'[r].pc = "idle" \/ (req'[r].kind = req[r].kind /\ req'[r].id = req[r].id)
  BY StepShape DEF Ends, Moves
<1> QED BY <1>1 DEF Unborn, Running, OthersSame, Same

\* Nor by a request that starts: its id was not drawn before.
LEMMA UnbornRequest ==
  ASSUME Shapes, NEW r \in Requests, log' = Started, NEW t \in Ids,
         req' = req \/ \E K, P : Opens(r, K, P)
  PROVE  Unborn(t)' => Unborn(t)
<1>1. log.started \in Nat /\ NextId = log.started + 1 /\ log'.started = NextId /\ t \in Nat
  BY Parameters DEF Shapes, LogT, NextId, Started
<1>2. CASE req' = req
  BY <1>1, <1>2 DEF Unborn, Running
<1>3. CASE \E K, P : Opens(r, K, P)
  BY <1>1, <1>3 DEF Unborn, Running, Opens, OthersSame, Same
<1> QED BY <1>2, <1>3

\* An id that is running as a login has no pending login yet; afterwards it may.
LEMMA BornFacts ==
  ASSUME Shapes, Drawn, NEW r \in Requests, req[r].pc = "factor", Ends(r), log' = log,
         NEW t \in Ids, t = req[r].id
  PROVE  Unborn(t) /\ ~Unborn(t)'
<1>1. Running(r) /\ req[r].kind = "login"
  BY DEF Running, Drawn
<1>2. Unborn(t)
  BY <1>1 DEF Unborn
<1>3. \A s \in Requests : s # r /\ Running(s) => req[s].id # t
  BY <1>1 DEF Drawn
<1>4. t <= log.started /\ t \in Nat /\ log.started \in Nat
  BY <1>1, Parameters DEF Drawn, Shapes, LogT
<1>5. ~(t > log'.started)
  BY <1>4
<1> QED BY <1>1, <1>2, <1>3, <1>5 DEF Unborn, Running, Ends, OthersSame, Same

\* Reservations, one pending login at a time.
LEMMA ReservationsEach ==
  Reservations <=> \A t \in Ids : Reservation(t)
BY DEF Reservations, Reservation

\* The same after a step.
LEMMA ReservationsEachNext ==
  (\A t \in Ids : Reservation(t)') => Reservations'
BY DEF Reservations, Reservation

\* A step of r that reserves and checks nothing.
LEMMA ReservationsQuiet ==
  ASSUME Shapes, Shapes', Reservations, Drawn, NEW r \in Requests, Step(r),
         Reserving(r)' => Reserving(r) /\ req'[r].tok = req[r].tok,
         log'.checked = log.checked, NEW u \in Ids,
         mem'.pending \in {mem.pending, pendingRemove(u), takePasskeyChallenge(u)}
  PROVE  Reservations'
<1>0. OthersSame(r)
  BY StepShape DEF Ends, Moves
<1>1. ASSUME NEW t \in Ids PROVE Reservation(t)'
  <2>1. Reservation(t) /\ Reserved(t)' \subseteq Reserved(t) /\ (Unborn(t)' => Unborn(t))
    BY <1>0, ReservationsEach, ReservedKept, UnbornStep
  <2>2. Narrowed(t)
    BY PendingNarrowed
  <2> QED BY <2>1, <2>2, ReservationQuiet
<1> QED BY <1>1, ReservationsEachNext

\* A step of r that checks the attempt it reserved.
LEMMA ReservationsChecked ==
  ASSUME Shapes, Shapes', Reservations, Drawn, NEW r \in Requests, Step(r),
         Reserving(r), ~Reserving(r)', mem'.pending = mem.pending,
         log'.checked = [log.checked EXCEPT ![req[r].tok] = @ + 1]
  PROVE  Reservations'
<1>0. OthersSame(r)
  BY StepShape DEF Ends, Moves
<1>1. ASSUME NEW t \in Ids PROVE Reservation(t)'
  <2>1. /\ Reservation(t) /\ Reserved(t)' \subseteq Reserved(t) \ {r} /\ (Unborn(t)' => Unborn(t))
    BY <1>0, ReservationsEach, ReservedLeft, UnbornStep
  <2>2. Narrowed(t)
    BY DEF Narrowed
  <2>3. CASE t = req[r].tok
    <3>1. r \in Reserved(t) /\ log'.checked[t] = log.checked[t] + 1
      BY <2>3 DEF Reserved, Reserving, Shapes, LogT
    <3> QED BY <2>1, <2>2, <3>1, ReservationChecked
  <2>4. CASE t # req[r].tok
    <3>1. log'.checked[t] = log.checked[t]
      BY <2>4 DEF Shapes, LogT
    <3> QED BY <2>1, <2>2, <3>1, ReservationQuiet
  <2> QED BY <2>3, <2>4
<1> QED BY <1>1, ReservationsEachNext

\* Every step of a request keeps checks within the attempts reserved.
LEMMA ReservationsStep ==
  ASSUME Shapes, Drawn, Reservations, NEW r \in Requests, Step(r)
  PROVE  Reservations'
<1>0. req[r].tok \in Ids
  BY DEF Shapes, ReqT
<1>e. Ends(r) => ~Reserving(r)'
  BY MovesFacts DEF Reserving
<1>m. \A P : Moves(r, P) => req'[r].tok = req[r].tok /\ req'[r].kind = req[r].kind /\ req'[r].pc \in P
  BY DEF Moves
<1>1. CASE Work(r)
  <2>1. Shapes' /\ TablesKept /\ CountsKept /\ Works(r)
    BY <1>1, WorkFacts
  <2>2. ~Reserving(r)'
    BY <2>1, <1>e, <1>m DEF Works, Reserving
  <2> QED BY <1>0, <2>1, <2>2, ReservationsQuiet DEF TablesKept, CountsKept
<1>2. CASE LoginFailed(r)
  <2>1. Shapes' /\ Ends(r) /\ mem'.pending = mem.pending /\ log'.checked = log.checked
    BY <1>2, LoginFailedFacts DEF HistoryKept
  <2> QED BY <1>0, <1>e, <2>1, ReservationsQuiet
<1>3. CASE SecondFactorRequired(r)
  <2>1. /\ Shapes' /\ Ends(r) /\ mem'.pending = pendingAdd(req[r].id) /\ log' = log
        /\ req[r].pc = "factor"
    BY <1>3, SecondFactorRequiredFacts
  <2>2. ASSUME NEW t \in Ids PROVE Reservation(t)'
    <3>1. OthersSame(r) /\ ~Reserving(r)'
      BY <2>1, <1>e, MovesFacts
    <3>2. Reservation(t) /\ Reserved(t)' \subseteq Reserved(t) /\ (Unborn(t)' => Unborn(t))
      BY <3>1, ReservationsEach, ReservedKept, UnbornStep
    <3>3. CASE t = req[r].id
      <4>1. Unborn(t) /\ ~Unborn(t)'
        BY <2>1, <3>3, BornFacts
      <4> QED BY <2>1, <3>2, <4>1, ReservationBorn
    <3>4. CASE t # req[r].id
      <4>1. mem'.pending[t] \in {NoPending, mem.pending[t]}
        BY <2>1, <3>4 DEF pendingAdd
      <4>2. Narrowed(t)
        BY <4>1 DEF Narrowed, NoPending
      <4> QED BY <2>1, <3>2, <4>2, ReservationQuiet
    <3> QED BY <3>3, <3>4
  <2> QED BY <2>2, ReservationsEachNext
<1>4. CASE PasswordOnly(r)
  <2>1. Shapes' /\ Ends(r) /\ mem'.pending = mem.pending /\ log'.checked = log.checked
    BY <1>4, PasswordOnlyFacts DEF HistoryKept
  <2> QED BY <1>0, <1>e, <2>1, ReservationsQuiet
<1>5. CASE PendingLockCheck(r)
  <2>1. /\ Shapes' /\ req[r].pc = "lockcheck" /\ log' = log
        /\ mem'.pending \in {mem.pending, pendingRemove(req[r].tok)}
        /\ Ends(r) \/ Moves(r, {"load"})
    BY <1>5, PendingLockCheckFacts
  <2>2. Reserving(r)
    BY <2>1 DEF Drawn, Reserving
  <2> QED BY <1>0, <1>e, <1>m, <2>1, <2>2, ReservationsQuiet
<1>6. CASE PendingLoad(r)
  <2>1. /\ Shapes' /\ req[r].pc = "load" /\ log' = log
        /\ mem'.pending \in {mem.pending, pendingRemove(req[r].tok)}
        /\ Ends(r) \/ Moves(r, {"consume", "take"})
    BY <1>6, PendingLoadFacts
  <2>2. Reserving(r)
    BY <2>1 DEF Drawn, Reserving
  <2> QED BY <1>0, <1>e, <1>m, <2>1, <2>2, ReservationsQuiet
<1>7. CASE SecondFactorFailed(r)
  <2>1. /\ Shapes' /\ Ends(r) /\ mem'.pending \in {mem.pending, pendingRemove(req[r].tok)}
        /\ log'.checked = log.checked
    BY <1>7, SecondFactorFailedFacts DEF HistoryKept
  <2> QED BY <1>0, <1>e, <2>1, ReservationsQuiet
<1>8. CASE finishPendingLogin(r)
  <2>1. /\ Shapes' /\ Ends(r) /\ mem'.pending = pendingRemove(req[r].tok)
        /\ log'.checked = log.checked
    BY <1>8, FinishPendingFacts DEF HistoryKept
  <2> QED BY <1>0, <1>e, <2>1, ReservationsQuiet
<1>9. CASE lockUser(r)
  <2>1. /\ Shapes' /\ req[r].pc = "consume" /\ Moves(r, {"use"}) /\ mem'.pending = mem.pending
        /\ log'.checked = IF req[r].kind = "code"
                          THEN [log.checked EXCEPT ![req[r].tok] = @ + 1] ELSE log.checked
    BY <1>9, LockUserFacts
  <2>2. ~Reserving(r)'
    BY <2>1, <1>m DEF Reserving
  <2>3. CASE req[r].kind = "code"
    <3>1. Reserving(r)
      BY <2>1, <2>3 DEF Reserving
    <3> QED BY <2>1, <2>2, <2>3, <3>1, ReservationsChecked
  <2>4. CASE req[r].kind # "code"
    BY <1>0, <2>1, <2>2, <2>4, ReservationsQuiet
  <2> QED BY <2>3, <2>4
<1>10. CASE consumeSecondFactor(r)
  <2>1. /\ Shapes' /\ req[r].pc = "use" /\ mem'.pending = mem.pending /\ log'.checked = log.checked
        /\ Moves(r, {"finish", "change"}) \/ Moves(r, {"failed"})
    BY <1>10, ConsumeFacts
  <2>2. ~Reserving(r)'
    BY <2>1, <1>m DEF Reserving
  <2> QED BY <1>0, <2>1, <2>2, ReservationsQuiet
<1>11. CASE TakeChallenge(r)
  <2>1. /\ Shapes' /\ req[r].pc = "take" /\ log' = log
        /\ mem'.pending = takePasskeyChallenge(req[r].tok)
        /\ Ends(r) \/ Moves(r, {"verify"})
    BY <1>11, TakeChallengeFacts
  <2>2. Reserving(r)
    BY <2>1 DEF Drawn, Reserving
  <2> QED BY <1>0, <1>e, <1>m, <2>1, <2>2, ReservationsQuiet
<1>12. CASE CompletePasskeyLogin(r)
  <2>1. /\ Shapes' /\ req[r].pc = "verify" /\ Moves(r, {"finish", "failed"})
        /\ mem'.pending = mem.pending
        /\ log'.checked = [log.checked EXCEPT ![req[r].tok] = @ + 1]
    BY <1>12, CompletePasskeyFacts
  <2>2. Reserving(r) /\ ~Reserving(r)'
    BY <2>1, <1>m DEF Drawn, Reserving
  <2> QED BY <2>1, <2>2, ReservationsChecked
<1> QED BY <1>1, <1>2, <1>3, <1>4, <1>5, <1>6, <1>7, <1>8, <1>9, <1>10, <1>11, <1>12, Zenon
        DEF Step, Work

\* So does a request that starts; it may reserve an attempt.
LEMMA ReservationsRequest ==
  ASSUME Shapes, Drawn, Reservations, NEW r \in Requests, Request(r)
  PROVE  Reservations'
<1>1. ASSUME Shapes', log' = Started, NEW u \in Ids, NEW i \in Ids,
             mem'.pending \in {mem.pending, pendingRemove(u), setPasskeyChallenge(u, i)},
             req' = req \/ ((\E K, P : Opens(r, K, P)) /\ ~Reserving(r)'),
             NEW t \in Ids
      PROVE  Reservation(t)'
  <2>1. Reserved(t)' \subseteq Reserved(t)
    <3>1. CASE req' = req
      BY <3>1 DEF Reserved
    <3>2. CASE req' # req
      BY <1>1, <3>2, ReservedKept DEF Opens
    <3> QED BY <3>1, <3>2
  <2>2. Unborn(t)' => Unborn(t)
    BY <1>1, UnbornRequest
  <2>3. Narrowed(t)
    BY <1>1, PendingNarrowed
  <2>4. log'.checked = log.checked
    BY <1>1 DEF Started, Shapes, LogT
  <2> QED BY <1>1, <2>1, <2>2, <2>3, <2>4, ReservationsEach, ReservationQuiet
<1>2. CASE Starts(r)
  <2>1. Shapes' /\ mem' = mem /\ Begun(r)
    BY <1>2, StartsFacts
  <2>2. ~Reserving(r)' /\ log' = Started /\ \E K, P : Opens(r, K, P)
    BY <2>1 DEF Begun, Opens, Reserving
  <2>3. \A t \in Ids : Reservation(t)'
    BY <1>1, <2>1, <2>2, Parameters
  <2> QED BY <2>3, ReservationsEachNext
<1>3. ASSUME NEW k \in {"code", "passkey"}, NEW u \in Ids, NEW c \in Typeable,
             reservePendingAttempt(r, k, u, c)
      PROVE  Reservations'
  <2>1. /\ Shapes' /\ mem'.pending = pendingReserve(u) /\ log' = Started
        /\ \/ pendingUsable(u) /\ Opens(r, {k}, {"lockcheck"}) /\ req'[r].tok = u
           \/ ~pendingUsable(u) /\ req' = req
    BY <1>3, ReserveFacts
  <2>2. CASE ~pendingUsable(u)
    <3>1. mem'.pending = pendingRemove(u) /\ req' = req
      BY <2>1, <2>2 DEF pendingReserve, pendingRemove
    <3>2. \A t \in Ids : Reservation(t)'
      BY <1>1, <2>1, <3>1
    <3> QED BY <3>2, ReservationsEachNext
  <2>3. ASSUME pendingUsable(u), NEW t \in Ids PROVE Reservation(t)'
    <3>0. Opens(r, {k}, {"lockcheck"}) /\ req'[r].tok = u
      BY <2>1, <2>3
    <3>1. Unborn(t)' => Unborn(t)
      BY <2>1, <3>0, UnbornRequest
    <3>2. log'.checked = log.checked /\ Reservation(t)
      BY <2>1, ReservationsEach DEF Started, Shapes, LogT
    <3>3. CASE t = u
      <4>1. r \notin Reserved(t) /\ Reserved(t)' = Reserved(t) \cup {r}
        BY <3>0, <3>3 DEF Opens, OthersSame, Same, Reserved
      <4> QED BY <2>1, <2>3, <3>1, <3>2, <3>3, <4>1, ReservationMade
    <3>4. CASE t # u
      <4>1. Reserved(t)' \subseteq Reserved(t)
        BY <3>0, <3>4 DEF Opens, OthersSame, Same, Reserved
      <4>2. mem'.pending[t] = mem.pending[t]
        BY <2>1, <2>3, <3>4 DEF pendingReserve, Shapes, MemT
      <4>3. Narrowed(t)
        BY <4>2 DEF Narrowed
      <4> QED BY <2>1, <3>1, <3>2, <4>1, <4>3, ReservationQuiet
    <3> QED BY <3>3, <3>4
  <2> QED BY <2>2, <2>3, ReservationsEachNext
<1>4. ASSUME NEW u \in Ids, BeginPasskeyLogin(r, u) PROVE Reservations'
  <2>1. /\ Shapes' /\ log' = Started /\ NextId \in Ids /\ req' = req
        /\ mem'.pending \in {mem.pending, pendingRemove(u), setPasskeyChallenge(u, NextId)}
    BY <1>4, BeginPasskeyLoginFacts
  <2>2. \A t \in Ids : Reservation(t)'
    BY <1>1, <2>1
  <2> QED BY <2>2, ReservationsEachNext
<1> QED BY <1>2, <1>3, <1>4, RequestSplit

-----------------------------------------------------------------------------
(* Failures *)

\* The numbers the lockout counts with.
LEMMA FailureTypes ==
  ASSUME Shapes
  PROVE  /\ log.guesses \in Nat /\ mem.lockout.count \in Nat /\ mem.lockout.lockedAt \in Nat
         /\ mem.lockout.locked \in BOOLEAN /\ now \in Nat /\ MayFail \in SUBSET Requests
         /\ Cardinality(MayFail) \in Nat /\ Cardinality(Requests) \in Nat
         /\ Cardinality(MayFail) <= Cardinality(Requests)
<1>1. MayFail \in SUBSET Requests
  BY DEF MayFail
<1> QED BY <1>1, Counting DEF Shapes, LogT, MemT, LockoutT

\* A step that records neither a failure nor a success, of a request that
\* passes IsLocked only when the account is not locked.
LEMMA FailuresQuiet ==
  ASSUME Shapes, Shapes', Failures, NEW r \in Requests, OthersSame(r),
         r \in MayFail' => r \in MayFail \/ ~IsLocked,
         mem'.lockout = mem.lockout, log'.guesses = log.guesses, now' = now
  PROVE  Failures'
<1>1. IsLocked' = IsLocked
  BY DEF IsLocked
<1>2. ASSUME IsLocked PROVE Cardinality(MayFail)' <= Cardinality(MayFail)
  <2>1. MayFail' \in SUBSET MayFail
    BY <1>2 DEF MayFail, OthersSame, Same
  <2> QED BY <2>1, FailureTypes, Counting
<1>3. Cardinality(MayFail)' \in Nat /\ Cardinality(MayFail) \in Nat /\ log.guesses \in Nat
      /\ Cardinality(Requests) \in Nat
  <2>1. MayFail' \in SUBSET Requests
    BY DEF MayFail
  <2> QED BY <2>1, FailureTypes, Counting
<1> QED BY <1>1, <1>2, <1>3, Parameters DEF Failures

\* A failed check: the request that records it will not record another.
LEMMA FailuresFail ==
  ASSUME Shapes, Shapes', Failures, NEW r \in Requests, Ends(r), r \in MayFail,
         mem'.lockout = RecordFailure, log' = CountGuess, now' = now
  PROVE  Failures'
<1> DEFINE g == log.guesses
           m == Cardinality(MayFail)
           k == Cardinality(MayFail')
           n == Cardinality(Requests)
           h == IF LockExpired THEN 1 ELSE g + 1
<1>1. g \in Nat /\ m \in Nat /\ n \in Nat /\ m <= n
  BY FailureTypes
<1>2. k = m - 1 /\ k \in Nat /\ Cardinality(MayFail)' = k
  <2>1. MayFail' = MayFail \ {r}
    BY DEF MayFail, Ends, OthersSame, Same
  <2>2. MayFail \in SUBSET Requests /\ MayFail' \in SUBSET Requests
    BY <2>1 DEF MayFail
  <2> QED BY <2>1, <2>2, Counting
<1>3. log'.guesses = h
  BY DEF CountGuess, Shapes, LogT
<1>4. /\ mem'.lockout.count = h
      /\ h >= MaxAttempts => mem'.lockout.locked
  <2>1. g = mem.lockout.count
    BY DEF Failures
  <2>2. mem'.lockout = IF h >= MaxAttempts
                       THEN [count |-> h, locked |-> TRUE, lockedAt |-> now]
                       ELSE [count |-> h, locked |-> FALSE, lockedAt |-> 0]
    BY <2>1, Zenon DEF RecordFailure
  <2> HIDE DEF h
  <2> QED BY <2>2
<1>5. /\ ~mem.lockout.locked => g < MaxAttempts
      /\ g <= MaxAttempts + n - 1
      /\ IsLocked => g + m <= MaxAttempts + n - 1
  BY DEF Failures
<1>6. LockExpired \/ IsLocked \/ ~mem.lockout.locked
  BY FailureTypes, Parameters DEF LockExpired, IsLocked
<1> HIDE DEF g, m, k, n
<1>7. h \in Nat /\ h + k <= MaxAttempts + n - 1
  BY <1>1, <1>2, <1>5, <1>6, Parameters
<1> HIDE DEF h
<1>8. h <= MaxAttempts + n - 1
  BY <1>1, <1>2, <1>7, Parameters
<1>9. ~mem'.lockout.locked => h < MaxAttempts
  BY <1>4, <1>7, Parameters
<1> QED BY <1>2, <1>3, <1>4, <1>7, <1>8, <1>9 DEF Failures, n

\* A successful check starts the count again.
LEMMA FailuresForgotten ==
  ASSUME mem'.lockout = NoLockout, log'.guesses = 0
  PROVE  Failures'
<1>1. mem'.lockout.count = 0 /\ mem'.lockout.locked = FALSE
  BY DEF NoLockout
<1>2. ~IsLocked'
  BY <1>1 DEF IsLocked
<1>3. Cardinality(Requests) \in Nat
  BY Counting
<1> QED BY <1>1, <1>2, <1>3, Parameters DEF Failures

\* Every step of a request keeps the failures within the limit.
LEMMA FailuresStep ==
  ASSUME Shapes, Failures, NEW r \in Requests, Step(r)
  PROVE  Failures'
<1>e. Ends(r) => OthersSame(r) /\ r \notin MayFail'
  BY DEF Ends, MayFail
<1>m. \A P : Moves(r, P) => OthersSame(r) /\ req'[r].pc \in P
  BY DEF Moves
<1>1. CASE Work(r)
  <2>1. Shapes' /\ TablesKept /\ now' = now /\ CountsKept /\ Works(r)
    BY <1>1, WorkFacts
  <2>2. OthersSame(r) /\ (r \in MayFail' => r \in MayFail \/ ~IsLocked)
    BY <2>1, <1>e, <1>m DEF Works, MayFail
  <2> QED BY <2>1, <2>2, FailuresQuiet DEF TablesKept, CountsKept
<1>2. CASE LoginFailed(r)
  <2>1. /\ Shapes' /\ req[r].pc = "failed" /\ Ends(r) /\ mem'.lockout = RecordFailure
        /\ log' = CountGuess /\ now' = now
    BY <1>2, LoginFailedFacts
  <2>2. r \in MayFail
    BY <2>1 DEF MayFail
  <2> QED BY <2>1, <2>2, FailuresFail
<1>3. CASE SecondFactorRequired(r)
  <2>1. Shapes' /\ Ends(r) /\ mem'.lockout = mem.lockout /\ log' = log /\ now' = now
    BY <1>3, SecondFactorRequiredFacts
  <2> QED BY <1>e, <2>1, FailuresQuiet
<1>4. CASE PasswordOnly(r)
  BY <1>4, PasswordOnlyFacts, FailuresForgotten
<1>5. CASE PendingLockCheck(r)
  <2>1. /\ Shapes' /\ log' = log /\ now' = now /\ mem'.lockout = mem.lockout
        /\ Ends(r) \/ (Moves(r, {"load"}) /\ ~IsLocked)
    BY <1>5, PendingLockCheckFacts
  <2> QED BY <1>e, <1>m, <2>1, FailuresQuiet
<1>6. CASE PendingLoad(r)
  <2>1. /\ Shapes' /\ req[r].pc = "load" /\ log' = log /\ now' = now /\ mem'.lockout = mem.lockout
        /\ Ends(r) \/ Moves(r, {"consume", "take"})
    BY <1>6, PendingLoadFacts
  <2>2. r \in MayFail
    BY <2>1 DEF MayFail
  <2> QED BY <1>e, <1>m, <2>1, <2>2, FailuresQuiet
<1>7. CASE SecondFactorFailed(r)
  <2>1. /\ Shapes' /\ req[r].pc = "failed" /\ Ends(r) /\ mem'.lockout = RecordFailure
        /\ log' = CountGuess /\ now' = now
    BY <1>7, SecondFactorFailedFacts
  <2>2. r \in MayFail
    BY <2>1 DEF MayFail
  <2> QED BY <2>1, <2>2, FailuresFail
<1>8. CASE finishPendingLogin(r)
  BY <1>8, FinishPendingFacts, FailuresForgotten
<1>9. CASE lockUser(r)
  <2>1. /\ Shapes' /\ req[r].pc = "consume" /\ Moves(r, {"use"}) /\ mem'.lockout = mem.lockout
        /\ log'.guesses = log.guesses /\ now' = now
    BY <1>9, LockUserFacts
  <2>2. r \in MayFail
    BY <2>1 DEF MayFail
  <2> QED BY <1>m, <2>1, <2>2, FailuresQuiet
<1>10. CASE consumeSecondFactor(r)
  <2>1. /\ Shapes' /\ req[r].pc = "use" /\ mem'.lockout = mem.lockout
        /\ log'.guesses = log.guesses /\ now' = now
        /\ Moves(r, {"finish", "change"}) \/ Moves(r, {"failed"})
    BY <1>10, ConsumeFacts
  <2>2. r \in MayFail
    BY <2>1 DEF MayFail
  <2> QED BY <1>m, <2>1, <2>2, FailuresQuiet
<1>11. CASE TakeChallenge(r)
  <2>1. /\ Shapes' /\ req[r].pc = "take" /\ log' = log /\ now' = now /\ mem'.lockout = mem.lockout
        /\ Ends(r) \/ Moves(r, {"verify"})
    BY <1>11, TakeChallengeFacts
  <2>2. r \in MayFail
    BY <2>1 DEF MayFail
  <2> QED BY <1>e, <1>m, <2>1, <2>2, FailuresQuiet
<1>12. CASE CompletePasskeyLogin(r)
  <2>1. /\ Shapes' /\ req[r].pc = "verify" /\ Moves(r, {"finish", "failed"})
        /\ mem'.lockout = mem.lockout /\ log'.guesses = log.guesses /\ now' = now
    BY <1>12, CompletePasskeyFacts
  <2>2. r \in MayFail
    BY <2>1 DEF MayFail
  <2> QED BY <1>m, <2>1, <2>2, FailuresQuiet
<1> QED BY <1>1, <1>2, <1>3, <1>4, <1>5, <1>6, <1>7, <1>8, <1>9, <1>10, <1>11, <1>12, Zenon
        DEF Step, Work

\* So does a request that starts.
LEMMA FailuresRequest ==
  ASSUME Shapes, Failures, NEW r \in Requests, Request(r)
  PROVE  Failures'
<1>0. log' = Started => log'.guesses = log.guesses
  BY DEF Started, Shapes, LogT
<1>s. ASSUME Shapes', req' = req, mem'.lockout = mem.lockout, now' = now, log' = Started
      PROVE  Failures'
  <2>1. IsLocked' = IsLocked /\ MayFail' = MayFail
    BY <1>s DEF IsLocked, MayFail
  <2> QED BY <1>0, <1>s, <2>1 DEF Failures
<1>1. CASE Starts(r)
  <2>1. Shapes' /\ mem' = mem /\ now' = now /\ Begun(r)
    BY <1>1, StartsFacts
  <2>2. OthersSame(r) /\ (r \in MayFail' => ~IsLocked) /\ log' = Started
    BY <2>1 DEF Begun, Opens, MayFail
  <2> QED BY <1>0, <2>1, <2>2, FailuresQuiet
<1>2. ASSUME NEW k \in {"code", "passkey"}, NEW t \in Ids, NEW c \in Typeable,
             reservePendingAttempt(r, k, t, c)
      PROVE  Failures'
  <2>1. /\ Shapes' /\ mem'.lockout = mem.lockout /\ log' = Started /\ now' = now
        /\ Opens(r, {k}, {"lockcheck"}) \/ req' = req
    BY <1>2, ReserveFacts
  <2>2. CASE req' = req
    BY <1>s, <2>1, <2>2
  <2>3. CASE Opens(r, {k}, {"lockcheck"})
    <3>1. OthersSame(r) /\ r \notin MayFail'
      BY <2>3 DEF Opens, MayFail
    <3> QED BY <1>0, <2>1, <3>1, FailuresQuiet
  <2> QED BY <2>1, <2>2, <2>3
<1>3. ASSUME NEW t \in Ids, BeginPasskeyLogin(r, t) PROVE Failures'
  BY <1>3, <1>s, BeginPasskeyLoginFacts
<1> QED BY <1>1, <1>2, <1>3, RequestSplit

-----------------------------------------------------------------------------
(* The second steps a request saw on *)

\* What is on now was all that a request could have seen on throughout.
HeldOn == \A s \in Requests : req[s].held \subseteq Factors(db.user, db.passkeys)

\* Nothing was switched off.
LEMMA HeldQuiet ==
  ASSUME FactorsHeld, NEW r \in Requests, OthersSame(r),
         req'[r].held \subseteq Factors(db.user, db.passkeys),
         db'.user = db.user, db.passkeys \subseteq db'.passkeys
  PROVE  HeldOn'
<1>1. Factors(db.user, db.passkeys) \subseteq Factors(db'.user, db'.passkeys)
  BY DEF Factors
<1>2. \A s \in Requests : req'[s].held \subseteq Factors(db.user, db.passkeys)
  BY DEF FactorsHeld, OthersSame, Same
<1> QED BY <1>1, <1>2 DEF HeldOn

\* A step of a request that does not decide by the password.
LEMMA FactorsQuiet ==
  ASSUME FactorsHeld, NEW r \in Requests, OthersSame(r), HeldOn', req'[r].pc # "factor",
         ~log'.skipped
  PROVE  FactorsHeld'
BY DEF FactorsHeld, HeldOn, OthersSame, Same

\* The app that is on is the row's.
LEMMA AppOn ==
  ASSUME NEW row, NEW keys, NEW x, <<"totp", x>> \in Factors(row, keys)
  PROVE  x = row.totp /\ row.totp # 0
BY DEF Factors, TOTPEnabled

\* Every step of a request keeps what it saw on, and skips nothing.
LEMMA FactorsStep ==
  ASSUME Shapes, FactorsHeld, NEW r \in Requests, Step(r)
  PROVE  FactorsHeld'
<1>h. req[r].held \subseteq Factors(db.user, db.passkeys) /\ ~log.skipped
  BY DEF FactorsHeld
<1>e. Ends(r) => OthersSame(r) /\ req'[r].pc # "factor" /\ req'[r].held = {}
  BY DEF Ends
<1>m. \A P : Moves(r, P) => OthersSame(r) /\ req'[r].pc \in P /\ req'[r].held \subseteq req[r].held
  BY DEF Moves
<1>q. ASSUME Ends(r) \/ (\E P : "factor" \notin P /\ Moves(r, P)), ~log'.skipped,
             (db'.user = db.user /\ db.passkeys \subseteq db'.passkeys) \/ HeldOn'
      PROVE  FactorsHeld'
  <2>1. OthersSame(r) /\ req'[r].pc # "factor" /\ req'[r].held \subseteq Factors(db.user, db.passkeys)
    BY <1>q, <1>h, <1>e, <1>m
  <2>2. HeldOn'
    BY <1>q, <2>1, HeldQuiet
  <2> QED BY <1>q, <2>1, <2>2, FactorsQuiet
<1>1. CASE Authenticate(r)
  <2>1. /\ Moves(r, {"factor", "failed"}) /\ req'[r].row = db.user /\ db' = db /\ log' = log
    BY <1>1, AuthenticateFacts
  <2>2. HeldOn'
    BY <1>h, <1>m, <2>1, HeldQuiet
  <2>3. ASSUME NEW x \in Ids, <<"totp", x>> \in req'[r].held PROVE req'[r].row.totp = x
    BY <1>h, <1>m, <2>1, <2>3, AppOn
  <2>4. OthersSame(r)
    BY <2>1, <1>m
  <2> QED BY <1>h, <2>1, <2>2, <2>3, <2>4 DEF FactorsHeld, HeldOn, OthersSame, Same
<1>2. CASE guarded(r)
  <2>1. (Ends(r) \/ Moves(r, {"consume", "change", "failed"})) /\ db' = db /\ log' = log
    BY <1>2, GuardedFacts
  <2> QED BY <1>h, <1>q, <2>1
<1>3. CASE EnableTOTP(r)
  <2>1. (Ends(r) \/ Moves(r, {"save"})) /\ db' = db /\ log'.skipped = log.skipped
    BY <1>3, EnableFacts
  <2> QED BY <1>h, <1>q, <2>1
<1>4. CASE DisableTOTP(r)
  <2>1. Moves(r, {"save"}) /\ db' = db /\ log' = log
    BY <1>4, DisableFacts
  <2> QED BY <1>h, <1>q, <2>1
<1>5. CASE RenewRecoveryCodes(r)
  <2>1. Moves(r, {"save"}) /\ db' = db /\ log' = log
    BY <1>5, RenewFacts
  <2> QED BY <1>h, <1>q, <2>1
<1>6. CASE BeginPasskeyRegistration(r)
  <2>1. Ends(r) /\ db' = db /\ log' = log
    BY <1>6, BeginRegistrationFacts
  <2> QED BY <1>h, <1>q, <2>1
<1>7. CASE FinishPasskeyRegistration(r)
  <2>1. /\ Ends(r) \/ Moves(r, {"save"})
        /\ log' = log /\ db'.user = db.user /\ db.passkeys \subseteq db'.passkeys
    BY <1>7, FinishRegistrationFacts
  <2> QED BY <1>h, <1>q, <2>1
<1>8. CASE \E k \in db.passkeys : RemovePasskey(r, k)
  <2>1. (Ends(r) \/ Moves(r, {"save"})) /\ log' = log /\ HeldOn'
    BY <1>8, RemovePasskeyFacts DEF HeldOn
  <2> QED BY <1>h, <1>q, <2>1
<1>9. CASE PasskeyNotFound(r)
  <2>1. Ends(r) /\ db' = db /\ log' = log
    BY <1>9, NotFoundFacts
  <2> QED BY <1>h, <1>q, <2>1
<1>10. CASE SaveUser(r)
  <2>1. /\ Ends(r) \/ Moves(r, {"passkeys", "sessions"})
        /\ log'.skipped = log.skipped /\ HeldOn'
    BY <1>10, SaveUserFacts DEF HeldOn
  <2> QED BY <1>h, <1>q, <2>1
<1>11. CASE ResetPasskeys(r)
  <2>1. Ends(r) /\ log' = log /\ HeldOn'
    BY <1>11, ResetPasskeysFacts DEF HeldOn
  <2> QED BY <1>h, <1>q, <2>1
<1>12. CASE EndSessions(r)
  <2>1. Ends(r) /\ log' = log /\ RowsKept
    BY <1>12, EndSessionsFacts
  <2> QED BY <1>h, <1>q, <2>1 DEF RowsKept
<1>13. CASE LoginFailed(r)
  <2>1. Ends(r) /\ log'.skipped = log.skipped /\ db' = db
    BY <1>13, LoginFailedFacts
  <2> QED BY <1>h, <1>q, <2>1
<1>14. CASE SecondFactorRequired(r)
  <2>1. Ends(r) /\ log' = log /\ db' = db
    BY <1>14, SecondFactorRequiredFacts
  <2> QED BY <1>h, <1>q, <2>1
<1>15. CASE PasswordOnly(r)
  <2>1. /\ req[r].pc = "factor" /\ ~hasSecondFactor(req[r].row) /\ Ends(r) /\ RowsKept
        /\ log'.skipped = (log.skipped \/ req[r].held # {})
    BY <1>15, PasswordOnlyFacts
  <2>2. req[r].row.totp = 0 /\ db.passkeys = {}
    BY <2>1 DEF hasSecondFactor, TOTPEnabled, ListPasskeys
  <2>3. ASSUME NEW f \in req[r].held PROVE FALSE
    <3>1. f \in Factors(db.user, {})
      BY <1>h, <2>2
    <3>2. f = <<"totp", db.user.totp>> /\ db.user.totp # 0
      BY <3>1 DEF Factors, TOTPEnabled
    <3>3. db.user.totp \in Ids
      BY RowType DEF Shapes, DbT
    <3>4. req[r].row.totp = db.user.totp
      BY <2>1, <2>3, <3>2, <3>3 DEF FactorsHeld
    <3> QED BY <2>2, <3>2, <3>4
  <2>4. ~log'.skipped
    BY <1>h, <2>1, <2>3
  <2> QED BY <1>q, <2>1, <2>4 DEF RowsKept
<1>16. CASE PendingLockCheck(r)
  <2>1. (Ends(r) \/ Moves(r, {"load"})) /\ db' = db /\ log' = log
    BY <1>16, PendingLockCheckFacts
  <2> QED BY <1>h, <1>q, <2>1
<1>17. CASE PendingLoad(r)
  <2>1. (Ends(r) \/ Moves(r, {"consume", "take"})) /\ db' = db /\ log' = log
    BY <1>17, PendingLoadFacts
  <2> QED BY <1>h, <1>q, <2>1
<1>18. CASE SecondFactorFailed(r)
  <2>1. Ends(r) /\ db' = db /\ log'.skipped = log.skipped
    BY <1>18, SecondFactorFailedFacts
  <2> QED BY <1>h, <1>q, <2>1
<1>19. CASE finishPendingLogin(r)
  <2>1. Ends(r) /\ RowsKept /\ log'.skipped = log.skipped
    BY <1>19, FinishPendingFacts
  <2> QED BY <1>h, <1>q, <2>1 DEF RowsKept
<1>20. CASE lockUser(r)
  <2>1. Moves(r, {"use"}) /\ db' = db /\ log'.skipped = log.skipped
    BY <1>20, LockUserFacts
  <2> QED BY <1>h, <1>q, <2>1
<1>21. CASE consumeSecondFactor(r)
  <2>1. /\ Moves(r, {"finish", "change"}) \/ Moves(r, {"failed"})
        /\ log'.skipped = log.skipped
        /\ db' = db \/ HeldOn'
    BY <1>21, ConsumeFacts DEF HeldOn
  <2> QED BY <1>h, <1>q, <2>1
<1>22. CASE TakeChallenge(r)
  <2>1. (Ends(r) \/ Moves(r, {"verify"})) /\ db' = db /\ log' = log
    BY <1>22, TakeChallengeFacts
  <2> QED BY <1>h, <1>q, <2>1
<1>23. CASE CompletePasskeyLogin(r)
  <2>1. Moves(r, {"finish", "failed"}) /\ db' = db /\ log'.skipped = log.skipped
    BY <1>23, CompletePasskeyFacts
  <2> QED BY <1>h, <1>q, <2>1
<1> QED BY <1>1, <1>2, <1>3, <1>4, <1>5, <1>6, <1>7, <1>8, <1>9, <1>10, <1>11, <1>12, <1>13, <1>14,
           <1>15, <1>16, <1>17, <1>18, <1>19, <1>20, <1>21, <1>22, <1>23, Zenon DEF Step

\* So does a request that starts: it sees on what is on.
LEMMA FactorsRequest ==
  ASSUME Shapes, FactorsHeld, NEW r \in Requests, Request(r)
  PROVE  FactorsHeld'
<1>s. ASSUME log' = Started PROVE ~log'.skipped
  BY <1>s DEF FactorsHeld, Started, Shapes, LogT
<1>q. ASSUME NEW K, NEW P, Opens(r, K, P), "factor" \notin P PROVE FactorsHeld'
  <2>1. /\ OthersSame(r) /\ req'[r].pc # "factor" /\ db' = db /\ log' = Started
        /\ req'[r].held \subseteq Factors(db.user, db.passkeys)
    BY <1>q DEF Opens
  <2> QED BY <1>s, <2>1, HeldQuiet, FactorsQuiet
<1>n. ASSUME req' = req, db' = db, log' = Started PROVE FactorsHeld'
  BY <1>n, <1>s DEF FactorsHeld
<1>1. CASE Starts(r)
  BY <1>1, <1>q, StartsFacts DEF Begun
<1>2. ASSUME NEW k \in {"code", "passkey"}, NEW t \in Ids, NEW c \in Typeable,
             reservePendingAttempt(r, k, t, c)
      PROVE  FactorsHeld'
  <2>1. (Opens(r, {k}, {"lockcheck"}) \/ req' = req) /\ db' = db /\ log' = Started
    BY <1>2, ReserveFacts
  <2> QED BY <1>q, <1>n, <2>1
<1>3. ASSUME NEW t \in Ids, BeginPasskeyLogin(r, t) PROVE FactorsHeld'
  BY <1>3, <1>n, BeginPasskeyLoginFacts
<1> QED BY <1>1, <1>2, <1>3, RequestSplit

-----------------------------------------------------------------------------
(* Passkey challenges *)

\* No challenge is offered that was not before.
OffersNarrowed == \A t \in Ids : mem'.pending[t].passkey \in {0, mem.pending[t].passkey}

\* The operations on pending logins that offer nothing.
LEMMA OffersFacts ==
  ASSUME Shapes, NEW t \in Ids,
         mem'.pending \in {mem.pending, pendingRemove(t), takePasskeyChallenge(t), pendingAdd(t),
                           pendingReserve(t)}
  PROVE  OffersNarrowed
<1>1. mem.pending \in [Ids -> PendingT] /\ NoPending.passkey = 0
  BY DEF Shapes, MemT, NoPending
<1>2. ASSUME NEW u \in Ids
      PROVE  /\ pendingRemove(t)[u].passkey \in {0, mem.pending[u].passkey}
             /\ takePasskeyChallenge(t)[u].passkey \in {0, mem.pending[u].passkey}
             /\ pendingAdd(t)[u].passkey \in {0, mem.pending[u].passkey}
             /\ pendingReserve(t)[u].passkey \in {0, mem.pending[u].passkey}
  <2>1. pendingRemove(t)[u].passkey \in {0, mem.pending[u].passkey}
    BY <1>1 DEF pendingRemove
  <2>2. takePasskeyChallenge(t)[u].passkey \in {0, mem.pending[u].passkey}
    BY <1>1 DEF takePasskeyChallenge, PendingT
  <2>3. pendingAdd(t)[u].passkey \in {0, mem.pending[u].passkey}
    BY <1>1 DEF pendingAdd
  <2>4. pendingReserve(t)[u].passkey \in {0, mem.pending[u].passkey}
    <3>1. [mem.pending EXCEPT ![t].attempts = @ + 1][u].passkey = mem.pending[u].passkey
      BY <1>1 DEF PendingT
    <3>2. [mem.pending EXCEPT ![t] = NoPending][u].passkey \in {0, mem.pending[u].passkey}
      BY <1>1
    <3> QED BY <3>1, <3>2 DEF pendingReserve
  <2> QED BY <2>1, <2>2, <2>3, <2>4
<1> QED BY <1>2 DEF OffersNarrowed

\* The ids challenges are drawn from.
LEMMA ChallengeTypes ==
  ASSUME Shapes
  PROVE  /\ log.started \in Nat
         /\ \A t \in Ids : mem.pending[t].passkey \in Nat
         /\ \A s \in Requests : req[s].challenge \in Nat
         /\ \A c \in log.answered : c \in Nat
<1>1. \A t \in Ids : mem.pending[t].passkey \in Ids
  BY DEF Shapes, MemT, PendingT
<1>2. \A s \in Requests : req[s].challenge \in Ids
  BY DEF Shapes, ReqT
<1>3. log.started \in Ids /\ log.answered \subseteq Ids
  BY DEF Shapes, LogT
<1> QED BY <1>1, <1>2, <1>3, Parameters

\* A step that neither offers nor answers a challenge, nor takes one.
LEMMA ChallengesQuiet ==
  ASSUME Shapes, Challenges, NEW r \in Requests, OthersSame(r), req'[r].pc # "verify",
         OffersNarrowed, log'.answered = log.answered, log'.replayed = log.replayed,
         log'.started \in Nat, log'.started >= log.started
  PROVE  Challenges'
<1>1. \A s \in Requests : req'[s].pc = "verify" =>
         s # r /\ req[s].pc = "verify" /\ req'[s].challenge = req[s].challenge
  BY DEF OthersSame, Same
<1>2. \A t \in Ids : mem'.pending[t].passkey # 0 => mem'.pending[t].passkey = mem.pending[t].passkey
  BY DEF OffersNarrowed
<1>3. \A t \in Ids : /\ mem'.pending[t].passkey <= log'.started
                     /\ mem'.pending[t].passkey # 0 => mem'.pending[t].passkey \notin log'.answered
  BY ChallengeTypes DEF OffersNarrowed, Challenges
<1>4. \A s \in Requests : req'[s].pc = "verify" =>
          /\ req'[s].challenge # 0 /\ req'[s].challenge <= log'.started
          /\ req'[s].challenge \notin log'.answered
          /\ \A t \in Ids : mem'.pending[t].passkey # req'[s].challenge
  BY <1>1, <1>2, ChallengeTypes DEF Challenges
<1>5. \A c \in log'.answered : c <= log'.started
  BY ChallengeTypes DEF Challenges
<1>6. \A t, s \in Ids : mem'.pending[t].passkey # 0 /\ mem'.pending[t].passkey = mem'.pending[s].passkey => t = s
  BY <1>2 DEF Challenges
<1>7. \A p, q \in Requests : req'[p].pc = "verify" /\ req'[q].pc = "verify"
                              /\ req'[p].challenge = req'[q].challenge => p = q
  BY <1>1 DEF Challenges
<1> QED BY <1>3, <1>4, <1>5, <1>6, <1>7 DEF Challenges

\* Every step of a request has each challenge in one place.
LEMMA ChallengesStep ==
  ASSUME Shapes, Drawn, Challenges, NEW r \in Requests, Step(r)
  PROVE  Challenges'
<1>0. /\ log'.started = log.started /\ log.started \in Nat /\ log.started >= log.started
      /\ req[r].tok \in Ids /\ req[r].id \in Ids
  BY StepShape, ChallengeTypes DEF Shapes, ReqT
<1>e. Ends(r) => OthersSame(r) /\ req'[r].pc # "verify"
  BY DEF Ends
<1>m. \A P : Moves(r, P) => OthersSame(r) /\ req'[r].pc \in P
  BY DEF Moves
<1>q. ASSUME Ends(r) \/ (\E P : "verify" \notin P /\ Moves(r, P)), OffersNarrowed,
             log'.answered = log.answered, log'.replayed = log.replayed
      PROVE  Challenges'
  BY <1>q, <1>0, <1>e, <1>m, ChallengesQuiet
<1>1. CASE Work(r)
  <2>1. TablesKept /\ CountsKept /\ Works(r)
    BY <1>1, WorkFacts
  <2>2. OffersNarrowed
    BY <1>0, <2>1, OffersFacts DEF TablesKept
  <2>3. Ends(r) \/ (\E P : "verify" \notin P /\ Moves(r, P))
    BY <2>1 DEF Works
  <2> QED BY <1>q, <2>1, <2>2, <2>3 DEF CountsKept
<1>2. CASE LoginFailed(r)
  <2>1. Ends(r) /\ mem'.pending = mem.pending /\ HistoryKept
    BY <1>2, LoginFailedFacts
  <2> QED BY <1>0, <1>q, <2>1, OffersFacts DEF HistoryKept
<1>3. CASE SecondFactorRequired(r)
  <2>1. Ends(r) /\ mem'.pending = pendingAdd(req[r].id) /\ log' = log
    BY <1>3, SecondFactorRequiredFacts
  <2> QED BY <1>0, <1>q, <2>1, OffersFacts
<1>4. CASE PasswordOnly(r)
  <2>1. Ends(r) /\ mem'.pending = mem.pending /\ HistoryKept
    BY <1>4, PasswordOnlyFacts
  <2> QED BY <1>0, <1>q, <2>1, OffersFacts DEF HistoryKept
<1>5. CASE PendingLockCheck(r)
  <2>1. /\ mem'.pending \in {mem.pending, pendingRemove(req[r].tok)} /\ log' = log
        /\ Ends(r) \/ Moves(r, {"load"})
    BY <1>5, PendingLockCheckFacts
  <2> QED BY <1>0, <1>q, <2>1, OffersFacts
<1>6. CASE PendingLoad(r)
  <2>1. /\ mem'.pending \in {mem.pending, pendingRemove(req[r].tok)} /\ log' = log
        /\ Ends(r) \/ Moves(r, {"consume", "take"})
    BY <1>6, PendingLoadFacts
  <2> QED BY <1>0, <1>q, <2>1, OffersFacts
<1>7. CASE SecondFactorFailed(r)
  <2>1. Ends(r) /\ mem'.pending \in {mem.pending, pendingRemove(req[r].tok)} /\ HistoryKept
    BY <1>7, SecondFactorFailedFacts
  <2> QED BY <1>0, <1>q, <2>1, OffersFacts DEF HistoryKept
<1>8. CASE finishPendingLogin(r)
  <2>1. Ends(r) /\ mem'.pending = pendingRemove(req[r].tok) /\ HistoryKept
    BY <1>8, FinishPendingFacts
  <2> QED BY <1>0, <1>q, <2>1, OffersFacts DEF HistoryKept
<1>9. CASE lockUser(r)
  <2>1. /\ Moves(r, {"use"}) /\ mem'.pending = mem.pending
        /\ log'.answered = log.answered /\ log'.replayed = log.replayed
    BY <1>9, LockUserFacts
  <2> QED BY <1>0, <1>q, <2>1, OffersFacts
<1>10. CASE consumeSecondFactor(r)
  <2>1. /\ Moves(r, {"finish", "change"}) \/ Moves(r, {"failed"})
        /\ mem'.pending = mem.pending
        /\ log'.answered = log.answered /\ log'.replayed = log.replayed
    BY <1>10, ConsumeFacts
  <2> QED BY <1>0, <1>q, <2>1, OffersFacts
<1>11. CASE TakeChallenge(r)
  <2> DEFINE t0 == req[r].tok
             c0 == mem.pending[t0].passkey
  <2>1. /\ mem'.pending = takePasskeyChallenge(t0) /\ log' = log
        /\ \/ Ends(r)
           \/ Moves(r, {"verify"}) /\ c0 # 0 /\ req'[r].challenge = c0
    BY <1>11, TakeChallengeFacts
  <2>2. CASE Ends(r)
    BY <1>0, <1>q, <2>1, <2>2, OffersFacts
  <2>3. CASE ~Ends(r)
    <3>1. OthersSame(r) /\ c0 # 0 /\ req'[r].challenge = c0
      BY <1>m, <2>1, <2>3
    <3>2. \A t \in Ids : mem'.pending[t].passkey = IF t = t0 THEN 0 ELSE mem.pending[t].passkey
      BY <2>1 DEF takePasskeyChallenge, Shapes, MemT, PendingT
    <3>3. \A s \in Requests : s # r => req'[s].pc = req[s].pc /\ req'[s].challenge = req[s].challenge
      BY <3>1 DEF OthersSame, Same
    <3>4. \A t \in Ids : mem.pending[t].passkey = c0 => t = t0
      BY <1>0, <3>1 DEF Challenges
    <3>5. /\ c0 <= log.started /\ c0 \notin log.answered
          /\ \A s \in Requests : req[s].pc = "verify" => req[s].challenge # c0
      BY <1>0, <3>1 DEF Challenges
    <3>6. 0 <= log.started
      BY ChallengeTypes
    <3> HIDE DEF c0, t0
    <3>7. \A t \in Ids : /\ mem'.pending[t].passkey <= log'.started
                         /\ mem'.pending[t].passkey # 0 => mem'.pending[t].passkey \notin log'.answered
      BY <2>1, <3>2, <3>6 DEF Challenges
    <3>8. \A t, s \in Ids : mem'.pending[t].passkey # 0 /\ mem'.pending[t].passkey = mem'.pending[s].passkey => t = s
      BY <3>2 DEF Challenges
    <3>9. \A s \in Requests : req'[s].pc = "verify" =>
            /\ req'[s].challenge # 0 /\ req'[s].challenge <= log'.started
            /\ req'[s].challenge \notin log'.answered
            /\ \A t \in Ids : mem'.pending[t].passkey # req'[s].challenge
      BY <2>1, <3>1, <3>2, <3>3, <3>4, <3>5 DEF Challenges
    <3>10. \A p, q \in Requests : req'[p].pc = "verify" /\ req'[q].pc = "verify"
                                  /\ req'[p].challenge = req'[q].challenge => p = q
      BY <3>1, <3>3, <3>5 DEF Challenges
    <3> QED BY <2>1, <3>7, <3>8, <3>9, <3>10 DEF Challenges
  <2> QED BY <2>2, <2>3
<1>12. CASE CompletePasskeyLogin(r)
  <2> DEFINE c0 == req[r].challenge
  <2>1. /\ req[r].pc = "verify" /\ Moves(r, {"finish", "failed"}) /\ mem'.pending = mem.pending
        /\ log'.replayed = (log.replayed \/ c0 \in log.answered)
        /\ log'.answered \in {log.answered, log.answered \cup {c0}}
    BY <1>12, CompletePasskeyFacts
  <2>2. /\ c0 <= log.started /\ c0 \notin log.answered
        /\ \A t \in Ids : mem.pending[t].passkey # c0
        /\ \A s \in Requests : s # r /\ req[s].pc = "verify" => req[s].challenge # c0
    BY <2>1 DEF Challenges
  <2>3. \A s \in Requests : req'[s].pc = "verify" =>
            s # r /\ req[s].pc = "verify" /\ req'[s].challenge = req[s].challenge
    BY <1>m, <2>1 DEF OthersSame, Same
  <2>4. ~log'.replayed
    BY <2>1, <2>2 DEF Challenges
  <2> HIDE DEF c0
  <2>5. \A t \in Ids : /\ mem'.pending[t].passkey <= log'.started
                       /\ mem'.pending[t].passkey # 0 => mem'.pending[t].passkey \notin log'.answered
    BY <1>0, <2>1, <2>2 DEF Challenges
  <2>6. \A s \in Requests : req'[s].pc = "verify" =>
            /\ req'[s].challenge # 0 /\ req'[s].challenge <= log'.started
            /\ req'[s].challenge \notin log'.answered
            /\ \A t \in Ids : mem'.pending[t].passkey # req'[s].challenge
    BY <1>0, <2>1, <2>2, <2>3 DEF Challenges
  <2>7. \A c \in log'.answered : c <= log'.started
    BY <1>0, <2>1, <2>2 DEF Challenges
  <2>8. \A t, s \in Ids : mem'.pending[t].passkey # 0 /\ mem'.pending[t].passkey = mem'.pending[s].passkey => t = s
    BY <2>1 DEF Challenges
  <2>9. \A p, q \in Requests : req'[p].pc = "verify" /\ req'[q].pc = "verify"
                                /\ req'[p].challenge = req'[q].challenge => p = q
    BY <2>3 DEF Challenges
  <2> QED BY <2>4, <2>5, <2>6, <2>7, <2>8, <2>9 DEF Challenges
<1> QED BY <1>1, <1>2, <1>3, <1>4, <1>5, <1>6, <1>7, <1>8, <1>9, <1>10, <1>11, <1>12, Zenon
        DEF Step, Work

\* So does a request that starts: a new challenge was never offered before.
LEMMA ChallengesRequest ==
  ASSUME Shapes, Challenges, NEW r \in Requests, Request(r)
  PROVE  Challenges'
<1>0. ASSUME log' = Started
      PROVE  /\ log'.answered = log.answered /\ log'.replayed = log.replayed
             /\ log'.started = log.started + 1
             /\ log'.started \in Nat /\ log'.started >= log.started
  BY <1>0, ChallengeTypes DEF Started, NextId, Shapes, LogT
<1>q. ASSUME log' = Started, OffersNarrowed,
             req' = req \/ (\E K, P : Opens(r, K, P) /\ "verify" \notin P)
      PROVE  Challenges'
  <2>1. CASE \E K, P : Opens(r, K, P) /\ "verify" \notin P
    <3>1. OthersSame(r) /\ req'[r].pc # "verify"
      BY <2>1 DEF Opens
    <3> QED BY <1>0, <1>q, <3>1, ChallengesQuiet
  <2>2. CASE req' = req
    <3>1. \A t \in Ids : mem'.pending[t].passkey # 0 => mem'.pending[t].passkey = mem.pending[t].passkey
      BY <1>q DEF OffersNarrowed
    <3>2. \A t \in Ids : mem'.pending[t].passkey <= log'.started
      BY <1>0, <1>q, ChallengeTypes DEF OffersNarrowed, Challenges
    <3>3. \A s \in Requests : req[s].pc = "verify" => req[s].challenge <= log'.started
      BY <1>0, <1>q, ChallengeTypes DEF Challenges
    <3>4. \A c \in log'.answered : c <= log'.started
      BY <1>0, <1>q, ChallengeTypes DEF Challenges
    <3> QED BY <1>0, <1>q, <2>2, <3>1, <3>2, <3>3, <3>4 DEF Challenges
  <2> QED BY <1>q, <2>1, <2>2
<1>1. CASE Starts(r)
  <2>1. mem' = mem /\ Begun(r)
    BY <1>1, StartsFacts
  <2>2. OffersNarrowed
    BY <2>1, Parameters, OffersFacts
  <2>3. log' = Started /\ \E K, P : Opens(r, K, P) /\ "verify" \notin P
    BY <2>1 DEF Begun, Opens
  <2> QED BY <1>q, <2>2, <2>3
<1>2. ASSUME NEW k \in {"code", "passkey"}, NEW t \in Ids, NEW c \in Typeable,
             reservePendingAttempt(r, k, t, c)
      PROVE  Challenges'
  <2>1. /\ Opens(r, {k}, {"lockcheck"}) \/ req' = req
        /\ log' = Started /\ mem'.pending = pendingReserve(t)
    BY <1>2, ReserveFacts
  <2> QED BY <1>q, <2>1, OffersFacts
<1>3. ASSUME NEW t0 \in Ids, BeginPasskeyLogin(r, t0) PROVE Challenges'
  <2>1. /\ log' = Started /\ NextId \in Ids /\ req' = req
        /\ mem'.pending \in {mem.pending, pendingRemove(t0), setPasskeyChallenge(t0, NextId)}
    BY <1>3, BeginPasskeyLoginFacts
  <2>2. CASE mem'.pending \in {mem.pending, pendingRemove(t0)}
    BY <1>q, <2>1, <2>2, OffersFacts
  <2>3. CASE mem'.pending = setPasskeyChallenge(t0, NextId)
    <3> DEFINE c0 == NextId
    <3>1. \A t \in Ids : mem'.pending[t].passkey = IF t = t0 THEN c0 ELSE mem.pending[t].passkey
      BY <2>3 DEF setPasskeyChallenge, Shapes, MemT, PendingT
    <3>2. c0 = log.started + 1
      BY DEF NextId
    <3>3. /\ \A t \in Ids : mem.pending[t].passkey # c0
          /\ \A s \in Requests : req[s].pc = "verify" => req[s].challenge # c0
          /\ c0 \notin log.answered
      BY <3>2, ChallengeTypes DEF Challenges
    <3>4. /\ \A t \in Ids : mem.pending[t].passkey <= c0
          /\ \A s \in Requests : req[s].pc = "verify" => req[s].challenge <= c0
          /\ \A c \in log.answered : c <= c0
          /\ c0 <= c0
      BY <3>2, ChallengeTypes DEF Challenges
    <3>5. log'.started = c0
      BY <1>0, <2>1, <3>2
    <3> HIDE DEF c0
    <3>6. \A t, s \in Ids : mem'.pending[t].passkey # 0 /\ mem'.pending[t].passkey = mem'.pending[s].passkey => t = s
      BY <3>1, <3>3 DEF Challenges
    <3>7. \A t \in Ids : /\ mem'.pending[t].passkey <= log'.started
                         /\ mem'.pending[t].passkey # 0 => mem'.pending[t].passkey \notin log'.answered
      BY <1>0, <2>1, <3>1, <3>3, <3>4, <3>5 DEF Challenges
    <3>8. \A s \in Requests : req'[s].pc = "verify" =>
            /\ req'[s].challenge # 0 /\ req'[s].challenge <= log'.started
            /\ req'[s].challenge \notin log'.answered
            /\ \A t \in Ids : mem'.pending[t].passkey # req'[s].challenge
      BY <1>0, <2>1, <3>1, <3>3, <3>4, <3>5 DEF Challenges
    <3> QED BY <1>0, <2>1, <3>4, <3>5, <3>6, <3>7, <3>8 DEF Challenges
  <2> QED BY <2>1, <2>2, <2>3
<1> QED BY <1>1, <1>2, <1>3, RequestSplit

-----------------------------------------------------------------------------
(* Where secrets and codes go *)

\* A code that works is the app's, for a later step, or one of the row's.
LEMMA UseCodeFacts ==
  ASSUME NEW row \in Row, NEW code \in Typeable, UseCode(row, code) # row
  PROVE  LET new == UseCode(row, code)
         IN  /\ new.totp = row.totp
             /\ \/ /\ row.totp # 0 /\ code.type = "totp" /\ code.of = row.totp /\ code.n > row.step
                   /\ new.step = code.n /\ new.codes = row.codes
                \/ code \in row.codes /\ new.step = row.step /\ new.codes = row.codes \ {code}
<1>1. row \in [active : BOOLEAN, totp : Ids, step : Nat, codes : SUBSET AllCodes]
  BY RowType
<1>2. CASE TOTPEnabled(row) /\ VerifyTOTP(row.totp, code, row.step)
  <2>1. UseCode(row, code) = [row EXCEPT !.step = code.n]
    BY <1>2 DEF UseCode
  <2> QED BY <1>1, <1>2, <2>1 DEF TOTPEnabled, VerifyTOTP
<1>3. CASE ~(TOTPEnabled(row) /\ VerifyTOTP(row.totp, code, row.step))
  <2>1. UseCode(row, code) = [row EXCEPT !.codes = @ \ {code}]
    BY <1>3 DEF UseCode
  <2>2. code \in row.codes
    <3>1. SUFFICES ASSUME code \notin row.codes PROVE FALSE
      OBVIOUS
    <3>2. row.codes \ {code} = row.codes
      BY <3>1
    <3>3. [row EXCEPT !.codes = row.codes] = row
      BY <1>1
    <3> QED BY <2>1, <3>2, <3>3
  <2> QED BY <1>1, <2>1, <2>2
<1> QED BY <1>2, <1>3

\* What is not known stays so when more secrets are set up again.
LEMMA WithoutMore ==
  ASSUME NEW row, NEW i, NEW A, NEW B, A \subseteq B, Without(row, i, A)
  PROVE  Without(row, i, B)
BY DEF Without

\* An edited row is one made under the request's id.
LEMMA EditedMade ==
  ASSUME NEW row, NEW base, NEW id, RowEdited(row, base, id), NEW A
  PROVE  RowMade(row, base, id, A)
BY DEF RowEdited, RowMade

\* A row knows no other secret than the row it was made from.
LEMMA EditedWithout ==
  ASSUME NEW row, NEW base, NEW id, NEW A, NEW B, RowMade(row, base, id, B), A \subseteq B,
         NEW i, i # 0, i # id, Without(base, i, A)
  PROVE  Without(row, i, B)
BY DEF RowMade, Without

\* The empty row knows no secret.
LEMMA NoRowWithout ==
  ASSUME NEW i, i # 0, NEW A
  PROVE  Without(NoRow, i, A)
BY DEF Without, NoRow

\* Nothing that r's step writes or accepts was drawn under i, if nothing it
\* had was.
Derives(r, i) ==
    (/\ i # 0 /\ Without(db.user, i, log.again)
     /\ Without(req[r].row, i, log.again) /\ Without(req[r].base, i, log.again))
    => /\ Without(db'.user, i, log'.again)
       /\ Without(req'[r].row, i, log'.again) /\ Without(req'[r].base, i, log'.again)
       /\ \A c \in log'.accepted :
             c \in log.accepted \/ c.of # i \/ (c.type = "totp" /\ i \in log'.again)

\* What r's step makes of its row: a step to "save" edits it, under r's id,
\* and any other step takes its rows from the ones there are.
Sources(r) ==
    /\ \A i \in Ids : (i = req[r].id => req'[r].pc # "save") => Derives(r, i)
    /\ log.accepted \subseteq log'.accepted
    /\ log.again \subseteq log'.again
    /\ \A i \in log'.again : i \in log.again \/ \E c \in log.accepted : c.of = i
    /\ req'[r].pc = "save" =>
          /\ req[r].pc = "change" /\ db'.user = db.user /\ req'[r].base = req[r].base
          /\ RowMade(req'[r].row, req[r].row, req[r].id, log'.again)
          /\ \A c \in log'.accepted :
                c \in log.accepted
                \/ (c.type = "totp" /\ c.of = req'[r].row.totp /\ c.n = req'[r].row.step)
    /\ req'[r].pc \notin {"save", "passkeys", "sessions", "idle"}
          => req[r].pc \notin {"save", "passkeys", "sessions"}
    /\ req'[r].pc \in {"guard", "change"} =>
          /\ req[r].pc \in {"guard", "change"} => req'[r].row = req[r].row /\ req'[r].base = req[r].base
          /\ req[r].pc \notin {"guard", "change"} =>
                req'[r].row = req'[r].base /\ req[r].kind # "enable"

\* A step that ends r, or takes it on with rows it had or the stored one.
LEMMA SourcesQuiet ==
  ASSUME Shapes, NEW r \in Requests, db'.user = db.user, log'.accepted = log.accepted,
         log'.again = log.again, req'[r].pc \notin {"save", "guard", "change"},
         req'[r].pc # "idle" => req[r].pc \notin {"save", "passkeys", "sessions"},
         req'[r].row \in {NoRow, db.user, req[r].row}, req'[r].base \in {NoRow, db.user, req[r].base}
  PROVE  Sources(r)
<1>1. ASSUME NEW i \in Ids, i # 0, Without(db.user, i, log.again), Without(req[r].row, i, log.again), Without(req[r].base, i, log.again)
      PROVE  Without(req'[r].row, i, log'.again) /\ Without(req'[r].base, i, log'.again)
  BY <1>1, NoRowWithout
<1> QED BY <1>1 DEF Sources, Derives

\* A step to "save" that accepts no code.
LEMMA SourcesSave ==
  ASSUME Shapes, NEW r \in Requests, db'.user = db.user, log' = log,
         req[r].pc = "change", req'[r].pc = "save", req'[r].base = req[r].base,
         RowEdited(req'[r].row, req[r].row, req[r].id)
  PROVE  Sources(r)
<1>2. RowMade(req'[r].row, req[r].row, req[r].id, log'.again)
  BY EditedMade
<1>1. ASSUME NEW i \in Ids, i # req[r].id, i # 0, Without(req[r].row, i, log.again)
      PROVE  Without(req'[r].row, i, log'.again)
  BY <1>1, <1>2, EditedWithout
<1> QED BY <1>1, <1>2 DEF Sources, Derives

\* The rows and codes each step of a request works with.
LEMMA StepSources ==
  ASSUME Shapes, Drawn, Edited, NEW r \in Requests, Step(r)
  PROVE  Sources(r)
<1>e. Ends(r) => req'[r].pc = "idle" /\ req'[r].row = NoRow /\ req'[r].base = NoRow
  BY DEF Ends
<1>m. \A P : Moves(r, P) => req'[r].pc \in P /\ req'[r].kind = req[r].kind
  BY DEF Moves
<1>q. ASSUME Ends(r), db'.user = db.user, log'.accepted = log.accepted, log'.again = log.again
      PROVE  Sources(r)
  BY <1>q, <1>e, SourcesQuiet
<1>s. ASSUME req[r].pc = "change", Moves(r, {"save"}), db'.user = db.user, log' = log,
             req'[r].base = req[r].base, RowEdited(req'[r].row, req[r].row, req[r].id)
      PROVE  Sources(r)
  BY <1>s, <1>m, SourcesSave
<1>1. CASE Authenticate(r)
  <2>1. /\ req[r].pc = "authenticate" /\ Moves(r, {"factor", "failed"}) /\ req'[r].row = db.user
        /\ req'[r].base = req[r].base /\ db' = db /\ log' = log
    BY <1>1, AuthenticateFacts
  <2> QED BY <1>m, <2>1, SourcesQuiet
<1>2. CASE guarded(r)
  <2>1. /\ req[r].pc = "guard" /\ db' = db /\ log' = log
        /\ \/ Ends(r)
           \/ /\ Moves(r, {"consume", "change", "failed"})
              /\ req'[r].row = req[r].row /\ req'[r].base = req[r].base
    BY <1>2, GuardedFacts
  <2>2. CASE Ends(r)
    BY <1>q, <2>1, <2>2
  <2>3. CASE ~Ends(r)
    BY <1>m, <2>1, <2>3 DEF Sources, Derives
  <2> QED BY <2>2, <2>3
<1>3. CASE EnableTOTP(r)
  <2> DEFINE j == req[r].code.of
             id == req[r].id
             row == req'[r].row
  <2>1. /\ req[r].pc = "change" /\ req[r].kind = "enable" /\ db' = db
        /\ \/ Ends(r) /\ log' = log
           \/ /\ Moves(r, {"save"}) /\ req[r].code.type = "totp"
              /\ req'[r].base = req[r].base
              /\ row.totp = j /\ row.step = req[r].code.n
              /\ row.codes = Codes(id)
              /\ log'.accepted = log.accepted \cup {req[r].code}
              /\ log'.again = log.again \cup ({j} \ {id})
    BY <1>3, EnableFacts
  <2>2. CASE Ends(r)
    <3>1. log' = log
      BY <1>e, <1>m, <2>1, <2>2
    <3> QED BY <1>q, <2>1, <2>2, <3>1
  <2>3. CASE ~Ends(r)
    <3>1. (j = id \/ Known(req[r].code)) /\ id \in Ids
      BY <2>1, <2>3 DEF Edited, Shapes, ReqT
    <3>2. \A c \in row.codes : c.of = id
      BY <2>1, <2>3, <3>1, RecoveryCodes
    <3>3. RowMade(row, req[r].row, id, log'.again)
      BY <2>1, <2>3, <3>2 DEF RowMade
    <3>4. req'[r].pc = "save"
      BY <1>m, <2>1, <2>3
    <3>5. log.again \subseteq log'.again
      BY <2>1, <2>3
    <3>6. ASSUME NEW i \in Ids, i # id, i # 0, Without(req[r].row, i, log.again),
                 Without(req[r].base, i, log.again), Without(db.user, i, log.again)
          PROVE  /\ Without(row, i, log'.again) /\ Without(req'[r].base, i, log'.again)
                 /\ Without(db'.user, i, log'.again)
                 /\ req[r].code.of # i \/ i \in log'.again
      <4>1. Without(row, i, log'.again)
        BY <3>3, <3>5, <3>6, EditedWithout
      <4>2. Without(req'[r].base, i, log'.again) /\ Without(db'.user, i, log'.again)
        BY <2>1, <2>3, <3>5, <3>6, WithoutMore
      <4>3. req[r].code.of # i \/ i \in log'.again
        BY <2>1, <2>3, <3>6
      <4> QED BY <4>1, <4>2, <4>3
    <3>7. \A i \in log'.again : i \in log.again \/ \E c \in log.accepted : c.of = i
      BY <2>1, <2>3, <3>1 DEF Known
    <3>8. \A i \in Ids : (i = req[r].id => req'[r].pc # "save") => Derives(r, i)
      BY <2>1, <2>3, <3>4, <3>6 DEF Derives
    <3> HIDE DEF j, id, row
    <3> QED BY <2>1, <2>3, <3>3, <3>4, <3>5, <3>7, <3>8 DEF Sources, row, id, j
  <2> QED BY <2>2, <2>3
<1>4. CASE DisableTOTP(r)
  BY <1>4, <1>s, DisableFacts
<1>5. CASE RenewRecoveryCodes(r)
  BY <1>5, <1>s, RenewFacts
<1>6. CASE BeginPasskeyRegistration(r)
  BY <1>6, <1>q, BeginRegistrationFacts
<1>7. CASE FinishPasskeyRegistration(r)
  <2>1. /\ req[r].pc = "change" /\ log' = log /\ db'.user = db.user
        /\ \/ Ends(r)
           \/ /\ Moves(r, {"save"}) /\ req'[r].base = req[r].base
              /\ RowEdited(req'[r].row, req[r].row, req[r].id)
    BY <1>7, FinishRegistrationFacts
  <2> QED BY <1>q, <1>s, <2>1
<1>8. CASE \E k \in db.passkeys : RemovePasskey(r, k)
  <2>1. /\ req[r].pc = "change" /\ log' = log /\ db'.user = db.user
        /\ \/ Ends(r)
           \/ /\ Moves(r, {"save"}) /\ req'[r].base = req[r].base
              /\ RowEdited(req'[r].row, req[r].row, req[r].id)
    BY <1>8, RemovePasskeyFacts
  <2> QED BY <1>q, <1>s, <2>1
<1>9. CASE PasskeyNotFound(r)
  BY <1>9, <1>q, NotFoundFacts
<1>10. CASE SaveUser(r)
  <2>1. /\ req[r].pc = "save" /\ db'.user = req[r].row /\ log'.accepted = log.accepted
        /\ log'.again = log.again
        /\ \/ Ends(r)
           \/ /\ Moves(r, {"passkeys", "sessions"})
              /\ req'[r].row = req[r].row /\ req'[r].base = req[r].base
    BY <1>10, SaveUserFacts
  <2>2. CASE Ends(r)
    <3>1. \A i \in Ids : i # 0 => Without(NoRow, i, log'.again)
      BY NoRowWithout
    <3> QED BY <1>e, <2>1, <2>2, <3>1 DEF Sources, Derives
  <2>3. CASE ~Ends(r)
    BY <1>m, <2>1, <2>3 DEF Sources, Derives
  <2> QED BY <2>2, <2>3
<1>11. CASE ResetPasskeys(r)
  BY <1>11, <1>q, ResetPasskeysFacts
<1>12. CASE EndSessions(r)
  BY <1>12, <1>q, EndSessionsFacts DEF RowsKept
<1>13. CASE LoginFailed(r)
  <2>1. Ends(r) /\ db' = db /\ HistoryKept
    BY <1>13, LoginFailedFacts
  <2> QED BY <1>q, <2>1 DEF HistoryKept
<1>14. CASE SecondFactorRequired(r)
  BY <1>14, <1>q, SecondFactorRequiredFacts
<1>15. CASE PasswordOnly(r)
  <2>1. Ends(r) /\ RowsKept /\ HistoryKept
    BY <1>15, PasswordOnlyFacts
  <2> QED BY <1>q, <2>1 DEF HistoryKept, RowsKept
<1>16. CASE PendingLockCheck(r)
  <2>1. /\ req[r].pc = "lockcheck" /\ db' = db /\ log' = log
        /\ \/ Ends(r)
           \/ Moves(r, {"load"}) /\ req'[r].row = req[r].row /\ req'[r].base = req[r].base
    BY <1>16, PendingLockCheckFacts
  <2> QED BY <1>q, <1>m, <2>1, SourcesQuiet
<1>17. CASE PendingLoad(r)
  <2>1. /\ req[r].pc = "load" /\ db' = db /\ log' = log
        /\ \/ Ends(r)
           \/ Moves(r, {"consume", "take"}) /\ req'[r].row = req[r].row /\ req'[r].base = req[r].base
    BY <1>17, PendingLoadFacts
  <2> QED BY <1>q, <1>m, <2>1, SourcesQuiet
<1>18. CASE SecondFactorFailed(r)
  <2>1. Ends(r) /\ db' = db /\ HistoryKept
    BY <1>18, SecondFactorFailedFacts
  <2> QED BY <1>q, <2>1 DEF HistoryKept
<1>19. CASE finishPendingLogin(r)
  <2>1. Ends(r) /\ RowsKept /\ HistoryKept
    BY <1>19, FinishPendingFacts
  <2> QED BY <1>q, <2>1 DEF HistoryKept, RowsKept
<1>20. CASE lockUser(r)
  <2>1. /\ req[r].pc = "consume" /\ Moves(r, {"use"}) /\ req'[r].row = db.user
        /\ req'[r].base = db.user /\ db' = db /\ log'.accepted = log.accepted
        /\ log'.again = log.again
    BY <1>20, LockUserFacts
  <2> QED BY <1>m, <2>1, SourcesQuiet
<1>21. CASE consumeSecondFactor(r)
  <2> DEFINE new == UseCode(req[r].row, req[r].code)
  <2>1. /\ req[r].pc = "use" /\ log'.again = log.again
        /\ \/ /\ new # req[r].row
              /\ Moves(r, {"finish", "change"})
              /\ req'[r].row = new /\ req'[r].base = new /\ db'.user = new
              /\ log'.accepted = log.accepted \cup {req[r].code}
           \/ /\ db' = db /\ log' = log /\ Moves(r, {"failed"})
              /\ req'[r].row = req[r].row /\ req'[r].base = req[r].base
    BY <1>21, ConsumeFacts
  <2>2. CASE Moves(r, {"failed"}) /\ db' = db /\ log' = log
              /\ req'[r].row = req[r].row /\ req'[r].base = req[r].base
    BY <1>m, <2>1, <2>2, SourcesQuiet
  <2>3. CASE /\ new # req[r].row
             /\ Moves(r, {"finish", "change"})
             /\ req'[r].row = new /\ req'[r].base = new /\ db'.user = new
             /\ log'.accepted = log.accepted \cup {req[r].code}
    <3>1. req[r].row \in Row /\ req[r].code \in Typeable /\ req[r].kind # "enable"
      BY <2>1 DEF Shapes, ReqT, Drawn
    <3>2. /\ new.totp = req[r].row.totp /\ new.codes \subseteq req[r].row.codes
          /\ \/ req[r].code.of = req[r].row.totp /\ req[r].code.type = "totp"
             \/ req[r].code \in req[r].row.codes
      BY <2>3, <3>1, UseCodeFacts
    <3> HIDE DEF new
    <3>3. ASSUME NEW i \in Ids, Without(req[r].row, i, log.again)
          PROVE  /\ Without(new, i, log.again)
                 /\ req[r].code.of # i \/ (req[r].code.type = "totp" /\ i \in log.again)
      BY <3>2, <3>3 DEF Without
    <3> QED BY <1>m, <2>1, <2>3, <3>1, <3>3 DEF Sources, Derives
  <2> QED BY <2>1, <2>2, <2>3
<1>22. CASE TakeChallenge(r)
  <2>1. /\ req[r].pc = "take" /\ db' = db /\ log' = log
        /\ \/ Ends(r)
           \/ Moves(r, {"verify"}) /\ req'[r].row = req[r].row /\ req'[r].base = req[r].base
    BY <1>22, TakeChallengeFacts
  <2> QED BY <1>q, <1>m, <2>1, SourcesQuiet
<1>23. CASE CompletePasskeyLogin(r)
  <2>1. /\ req[r].pc = "verify" /\ Moves(r, {"finish", "failed"}) /\ db' = db
        /\ req'[r].row = req[r].row /\ req'[r].base = req[r].base
        /\ log'.accepted = log.accepted /\ log'.again = log.again
    BY <1>23, CompletePasskeyFacts
  <2> QED BY <1>m, <2>1, SourcesQuiet
<1> QED BY <1>1, <1>2, <1>3, <1>4, <1>5, <1>6, <1>7, <1>8, <1>9, <1>10, <1>11, <1>12, <1>13, <1>14,
           <1>15, <1>16, <1>17, <1>18, <1>19, <1>20, <1>21, <1>22, <1>23, Zenon DEF Step

\* Where a step of r leaves r and the others.
LEMMA StepIds ==
  ASSUME Shapes, Drawn, NEW r \in Requests, Step(r)
  PROVE  /\ OthersSame(r) /\ log'.started = log.started /\ Running(r)
         /\ \/ Ends(r)
            \/ req'[r].id = req[r].id /\ req'[r].kind = req[r].kind /\ req'[r].code = req[r].code
BY StepShape DEF Ends, Moves

\* Every step of a request makes the row to be saved from the one it read.
LEMMA EditedStep ==
  ASSUME Shapes, Drawn, Edited, NEW r \in Requests, Step(r)
  PROVE  Edited'
<1>1. Sources(r) /\ OthersSame(r)
  BY StepSources, StepIds
<1>2. \/ req'[r].pc = "idle"
      \/ req'[r].id = req[r].id /\ req'[r].kind = req[r].kind /\ req'[r].code = req[r].code
  BY StepIds DEF Ends
<1>3. req'[r].pc = "save" => RowMade(req'[r].row, req'[r].base, req'[r].id, log'.again)
  BY <1>1, <1>2 DEF Sources, Edited
<1>k. \A c : Known(c) => Known(c)'
  BY <1>1 DEF Sources, Known
<1>4. req'[r].pc \in {"guard", "change"} =>
         /\ req'[r].row = req'[r].base
         /\ req'[r].kind = "enable" /\ req'[r].code.type = "totp" =>
               req'[r].code.of = req'[r].id \/ Known(req[r].code)'
  BY <1>1, <1>2, <1>k DEF Sources, Edited
<1>5. ASSUME NEW s \in Requests, s # r
      PROVE  /\ req'[s].pc \in {"guard", "change"} => req'[s].row = req'[s].base
             /\ req'[s].pc \in {"guard", "change"} /\ req'[s].kind = "enable" /\ req'[s].code.type = "totp"
                   => req'[s].code.of = req'[s].id \/ Known(req[s].code)'
             /\ req'[s].pc = "save" => RowMade(req'[s].row, req'[s].base, req'[s].id, log'.again)
  <2>1. /\ req'[s].pc = req[s].pc /\ req'[s].kind = req[s].kind /\ req'[s].code = req[s].code
        /\ req'[s].id = req[s].id /\ req'[s].row = req[s].row /\ req'[s].base = req[s].base
    BY <1>1, <1>5 DEF OthersSame, Same
  <2>2. log.again \subseteq log'.again
    BY <1>1 DEF Sources
  <2>3. req[s].pc = "save" => RowMade(req[s].row, req[s].base, req[s].id, log'.again)
    BY <2>2 DEF Edited, RowMade
  <2> QED BY <1>k, <2>1, <2>3 DEF Edited
<1> QED BY <1>3, <1>4, <1>5 DEF Edited

\* So does a request that starts.
LEMMA EditedRequest ==
  ASSUME Shapes, Edited, NEW r \in Requests, Request(r)
  PROVE  Edited'
<1>1. CASE Starts(r)
  <2>1. Begun(r)
    BY <1>1, StartsFacts
  <2>2. log'.again = log.again /\ log'.accepted = log.accepted
    BY <2>1 DEF Begun, Opens, Started, Shapes, LogT
  <2>3. RowMade(req'[r].row, db.user, NextId, log'.again)
    BY <2>1, EditedMade DEF Begun
  <2>4. \A c : Known(c)' <=> Known(c)
    BY <2>2 DEF Known
  <2>5. ASSUME NEW s \in Requests, s # r
        PROVE  /\ req'[s].pc = req[s].pc /\ req'[s].kind = req[s].kind /\ req'[s].code = req[s].code
               /\ req'[s].id = req[s].id /\ req'[s].row = req[s].row /\ req'[s].base = req[s].base
    BY <2>1, <2>5 DEF Begun, Opens, OthersSame, Same
  <2>6. /\ req'[r].id = NextId /\ req'[r].base = db.user
        /\ req'[r].pc # "save" => req'[r].row = db.user
        /\ req'[r].kind = "enable" /\ req'[r].code.type = "totp" =>
              req'[r].code.of = NextId \/ Known(req'[r].code)
    BY <2>1 DEF Begun, Opens
  <2> QED BY <2>2, <2>3, <2>4, <2>5, <2>6 DEF Edited
<1>2. ASSUME NEW k \in {"code", "passkey"}, NEW t \in Ids, NEW c \in Typeable,
             reservePendingAttempt(r, k, t, c)
      PROVE  Edited'
  <2>1. (Opens(r, {k}, {"lockcheck"}) \/ req' = req) /\ log' = Started
    BY <1>2, ReserveFacts
  <2>4. log'.again = log.again /\ log'.accepted = log.accepted
    BY <2>1 DEF Started, Shapes, LogT
  <2>2. CASE req' = req
    BY <2>2, <2>4 DEF Edited, Known
  <2>3. CASE Opens(r, {k}, {"lockcheck"})
    BY <2>3, <2>4 DEF Opens, OthersSame, Same, Edited, Known
  <2> QED BY <2>1, <2>2, <2>3
<1>3. ASSUME NEW t \in Ids, BeginPasskeyLogin(r, t) PROVE Edited'
  <2>1. req' = req /\ log' = Started
    BY <1>3, BeginPasskeyLoginFacts
  <2>2. log'.again = log.again /\ log'.accepted = log.accepted
    BY <2>1 DEF Started, Shapes, LogT
  <2> QED BY <2>1, <2>2 DEF Edited, Known
<1> QED BY <1>1, <1>2, <1>3, RequestSplit

\* Whoever knows a secret alone after a step of r did so before.
LEMMA SecretStep ==
  ASSUME Shapes, Drawn, Edited, NEW r \in Requests, Step(r), NEW i \in Ids, Secret(i)'
  PROVE  Secret(i) /\ i # 0 /\ (i = req[r].id => req'[r].pc # "save")
<1>1. /\ Sources(r) /\ OthersSame(r) /\ log'.started = log.started /\ Running(r)
      /\ req'[r].pc = "idle" \/ req'[r].id = req[r].id
  BY StepSources, StepIds DEF Ends
<1>2. req[r].id <= log.started /\ log.started >= 1 /\ log.started \in Nat /\ i \in Nat
      /\ \A s \in Requests : req[s].id \in Nat
  BY <1>1, Parameters DEF Drawn, Shapes, LogT, ReqT
<1>3. CASE i > log.started
  <2>1. i # req[r].id /\ i # 0
    BY <1>2, <1>3
  <2> QED BY <1>3, <2>1 DEF Secret
<1>4. ASSUME NEW p \in Requests, Running(p)', req'[p].id = i,
             req'[p].pc \notin {"save", "sessions", "passkeys"}
      PROVE  Secret(i) /\ i # 0 /\ (i = req[r].id => req'[r].pc # "save")
  <2>1. CASE p = r
    <3>1. req[r].id = i /\ req[r].pc \notin {"save", "sessions", "passkeys"} /\ req'[r].pc # "save"
      BY <1>1, <1>4, <2>1 DEF Sources, Running
    <3>2. req[r].id >= 2
      BY <1>1 DEF Drawn
    <3>3. i # 0
      BY <3>1, <3>2
    <3> QED BY <1>1, <3>1, <3>3 DEF Secret
  <2>2. CASE p # r
    <3>1. Running(p) /\ req[p].id = i /\ req[p].pc \notin {"save", "sessions", "passkeys"}
      BY <1>1, <1>4, <2>2 DEF OthersSame, Same, Running
    <3>2. i # req[r].id /\ i >= 2
      BY <1>1, <2>2, <3>1 DEF Drawn
    <3>3. i # 0
      BY <3>2
    <3> QED BY <3>1, <3>2, <3>3 DEF Secret
  <2> QED BY <2>1, <2>2
<1>5. (i > log'.started)
      \/ \E p \in Requests : /\ Running(p)' /\ req'[p].id = i
                             /\ req'[p].pc \notin {"save", "sessions", "passkeys"}
  BY DEF Secret
<1> QED BY <1>1, <1>3, <1>4, <1>5

\* Every step of a request keeps a secret to the request that drew it until
\* that request saves its row.
LEMMA SecretsStep ==
  ASSUME Shapes, Shapes', Drawn, Edited, Secrets, NEW r \in Requests, Step(r)
  PROVE  Secrets'
<1>1. /\ Sources(r) /\ OthersSame(r) /\ Running(r)
      /\ req'[r].pc = "idle" \/ req'[r].id = req[r].id
  BY StepSources, StepIds DEF Ends
<1>0. \A s \in Requests : s # r => /\ req'[s].pc = req[s].pc /\ req'[s].id = req[s].id
                                   /\ req'[s].row = req[s].row /\ req'[s].base = req[s].base
  BY <1>1 DEF OthersSame, Same
<1>a. /\ log.again \subseteq log'.again
      /\ \A i \in log'.again : i \in log.again \/ \E c \in log.accepted : c.of = i
  BY <1>1 DEF Sources
<1>2. ASSUME NEW i \in Ids, Secret(i)'
      PROVE  /\ i \notin log'.again
             /\ Without(db'.user, i, log'.again)
             /\ \A s \in Requests : Without(req'[s].row, i, log'.again) /\ Without(req'[s].base, i, log'.again)
             /\ \A c \in log'.accepted : c.of # i
  <2>1. Secret(i) /\ i # 0 /\ (i = req[r].id => req'[r].pc # "save")
    BY <1>2, SecretStep
  <2>2. Derives(r, i)
    BY <1>1, <2>1 DEF Sources
  <2>3. /\ i \notin log.again
        /\ Without(db.user, i, log.again)
        /\ \A s \in Requests : Without(req[s].row, i, log.again) /\ Without(req[s].base, i, log.again)
        /\ \A c \in log.accepted : c.of # i
    BY <2>1 DEF Secrets
  <2>4. /\ Without(db'.user, i, log'.again) /\ Without(req'[r].row, i, log'.again) /\ Without(req'[r].base, i, log'.again)
        /\ \A c \in log'.accepted :
              c \in log.accepted \/ c.of # i \/ (c.type = "totp" /\ i \in log'.again)
    BY <2>1, <2>2, <2>3 DEF Derives
  <2>5. i \notin log'.again
    BY <1>a, <2>3
  <2>6. \A s \in Requests : s # r =>
            Without(req'[s].row, i, log'.again) /\ Without(req'[s].base, i, log'.again)
    BY <1>0, <1>a, <2>3, WithoutMore
  <2> QED BY <2>3, <2>4, <2>5, <2>6
<1>3. ASSUME NEW q \in Requests, req'[q].pc = "save"
      PROVE  /\ Without(db'.user, req'[q].id, log'.again)
             /\ \A s \in Requests : /\ s # q => Without(req'[s].row, req'[q].id, log'.again)
                                    /\ Without(req'[s].base, req'[q].id, log'.again)
             /\ \A c \in log'.accepted : c.of = req'[q].id =>
                   /\ c.type = "totp"
                   /\ \/ req'[q].row.totp = req'[q].id /\ c.n <= req'[q].row.step
                      \/ req'[q].id \in log'.again
  <2>1. CASE q = r
    <3> DEFINE i == req[r].id
    <3>1. /\ req'[r].id = i /\ req[r].pc = "change" /\ db'.user = db.user
          /\ req'[r].base = req[r].base
          /\ \A c \in log'.accepted :
                c \in log.accepted
                \/ (c.type = "totp" /\ c.of = req'[r].row.totp /\ c.n = req'[r].row.step)
      BY <1>1, <1>3, <2>1 DEF Sources
    <3>2. i \in Ids /\ Secret(i)
      BY <1>1, <3>1 DEF Secret, Shapes, ReqT
    <3>3. /\ Without(db.user, i, log.again)
          /\ \A s \in Requests : Without(req[s].row, i, log.again) /\ Without(req[s].base, i, log.again)
          /\ \A c \in log.accepted : c.of # i
      BY <3>2 DEF Secrets
    <3>4. req'[r].row.step \in Nat
      <4>1. req'[r].row \in Row
        BY DEF Shapes, ReqT
      <4> QED BY <4>1, RowType
    <3>5. /\ Without(db'.user, i, log'.again)
          /\ \A s \in Requests : /\ s # r => Without(req'[s].row, i, log'.again)
                                 /\ Without(req'[s].base, i, log'.again)
      BY <1>0, <1>a, <3>1, <3>3, WithoutMore
    <3> QED BY <2>1, <3>1, <3>3, <3>4, <3>5
  <2>2. CASE q # r
    <3> DEFINE i == req[q].id
    <3>1. req[q].pc = "save" /\ req'[q].id = i /\ req'[q].row = req[q].row /\ req'[q].base = req[q].base
      BY <1>0, <1>3, <2>2
    <3>2. Running(q) /\ i \in Ids /\ i # req[r].id /\ i # 0
      <4>1. Running(q) /\ i \in Ids
        BY <3>1 DEF Running, Shapes, ReqT
      <4>2. i >= 2 /\ i # req[r].id
        BY <1>1, <2>2, <4>1 DEF Drawn
      <4> QED BY <4>1, <4>2
    <3>3. /\ Without(db.user, i, log.again)
          /\ \A s \in Requests : /\ s # q => Without(req[s].row, i, log.again)
                                 /\ Without(req[s].base, i, log.again)
          /\ \A c \in log.accepted : c.of = i =>
                /\ c.type = "totp"
                /\ (req[q].row.totp = i /\ c.n <= req[q].row.step) \/ i \in log.again
      BY <3>1 DEF Secrets
    <3>4. Derives(r, i)
      BY <1>1, <3>2 DEF Sources
    <3>5. /\ Without(db'.user, i, log'.again) /\ Without(req'[r].row, i, log'.again) /\ Without(req'[r].base, i, log'.again)
          /\ \A c \in log'.accepted :
                c \in log.accepted \/ c.of # i \/ (c.type = "totp" /\ i \in log'.again)
      BY <2>2, <3>2, <3>3, <3>4 DEF Derives
    <3>6. /\ \A s \in Requests : s # r =>
                /\ s # q => Without(req'[s].row, i, log'.again)
                /\ Without(req'[s].base, i, log'.again)
          /\ i \in log.again => i \in log'.again
      BY <1>0, <1>a, <3>3, WithoutMore
    <3> QED BY <3>1, <3>3, <3>5, <3>6
  <2> QED BY <2>1, <2>2
<1> QED BY <1>2, <1>3 DEF Secrets

\* So does a request that starts: nobody knew what it will draw.
LEMMA SecretsRequest ==
  ASSUME Shapes, Drawn, Secrets, NEW r \in Requests, Request(r)
  PROVE  Secrets'
<1>0. log.started \in Nat /\ log.started >= 1 /\ NextId = log.started + 1
      /\ \A s \in Requests : req[s].id \in Nat
  BY Parameters DEF Drawn, Shapes, LogT, ReqT, NextId
<1>k. ASSUME log' = Started
      PROVE  log'.accepted = log.accepted /\ log'.started = NextId /\ log'.again = log.again
  BY <1>k DEF Started, Shapes, LogT
<1>n. ASSUME req' = req, db' = db, log' = Started PROVE Secrets'
  <2>1. ASSUME NEW i \in Ids, Secret(i)' PROVE Secret(i)
    <3>1. i \in Nat
      BY Parameters
    <3>2. i > log'.started => i > log.started
      BY <1>0, <1>k, <1>n, <3>1
    <3> QED BY <1>n, <2>1, <3>2 DEF Secret, Running
  <2> QED BY <1>k, <1>n, <2>1 DEF Secrets
<1>q. ASSUME NEW K, NEW P, Opens(r, K, P), req'[r].pc # "save" => req'[r].row = db.user,
             RowEdited(req'[r].row, db.user, NextId)
      PROVE  Secrets'
  <2>1. /\ NextId \in Ids /\ log' = Started /\ db' = db /\ req[r].pc = "idle"
        /\ req'[r].id = NextId /\ req'[r].base = db.user
    BY <1>q DEF Opens
  <2>2. \A s \in Requests : s # r => /\ req'[s].pc = req[s].pc /\ req'[s].id = req[s].id
                                     /\ req'[s].row = req[s].row /\ req'[s].base = req[s].base
    BY <1>q DEF Opens, OthersSame, Same
  <2>3. log'.accepted = log.accepted /\ log'.started = NextId /\ log'.again = log.again
    BY <1>k, <2>1
  <2>4. Secret(NextId)
    BY <1>0 DEF Secret
  <2>5. ASSUME NEW i \in Ids, Secret(i)'
        PROVE  /\ i \notin log'.again
               /\ Without(db'.user, i, log'.again)
               /\ \A s \in Requests : Without(req'[s].row, i, log'.again) /\ Without(req'[s].base, i, log'.again)
               /\ \A c \in log'.accepted : c.of # i
    <3>1. i \in Nat
      BY Parameters
    <3>2. Secret(i) /\ i # 0 /\ (i = NextId => req'[r].pc # "save")
      <4>1. CASE i > log'.started
        <5>1. i > log.started /\ i # 0 /\ i # NextId
          BY <1>0, <2>3, <3>1, <4>1
        <5> QED BY <5>1 DEF Secret
      <4>2. ASSUME NEW p \in Requests, Running(p)', req'[p].id = i,
                   req'[p].pc \notin {"save", "sessions", "passkeys"}
            PROVE  Secret(i) /\ i # 0 /\ (i = NextId => req'[r].pc # "save")
        <5>1. CASE p = r
          <6>1. i = NextId /\ req'[r].pc # "save" /\ i # 0
            BY <1>0, <2>1, <4>2, <5>1
          <6> QED BY <2>4, <6>1
        <5>2. CASE p # r
          <6>1. Running(p) /\ req[p].id = i /\ req[p].pc \notin {"save", "sessions", "passkeys"}
            BY <2>2, <4>2, <5>2 DEF Running
          <6>2. i <= log.started /\ i >= 2
            BY <6>1 DEF Drawn
          <6>3. i # NextId /\ i # 0
            BY <1>0, <3>1, <6>2
          <6> QED BY <6>1, <6>3 DEF Secret
        <5> QED BY <5>1, <5>2
      <4> QED BY <2>5, <4>1, <4>2 DEF Secret
    <3>3. /\ i \notin log.again
          /\ Without(db.user, i, log.again)
          /\ \A s \in Requests : Without(req[s].row, i, log.again) /\ Without(req[s].base, i, log.again)
          /\ \A c \in log.accepted : c.of # i
      BY <3>2 DEF Secrets
    <3>4. Without(req'[r].row, i, log'.again)
      <4>1. CASE i = NextId
        BY <1>q, <2>3, <3>2, <3>3, <4>1
      <4>2. CASE i # NextId
        <5>1. RowMade(req'[r].row, db.user, NextId, log.again)
          BY <1>q, EditedMade
        <5>2. Without(req'[r].row, i, log.again)
          BY <3>2, <3>3, <4>2, <5>1 DEF RowMade, Without
        <5> QED BY <2>3, <5>2
      <4> QED BY <4>1, <4>2
    <3> QED BY <2>1, <2>2, <2>3, <3>3, <3>4
  <2>6. ASSUME NEW q \in Requests, req'[q].pc = "save"
        PROVE  /\ Without(db'.user, req'[q].id, log'.again)
               /\ \A s \in Requests : /\ s # q => Without(req'[s].row, req'[q].id, log'.again)
                                      /\ Without(req'[s].base, req'[q].id, log'.again)
               /\ \A c \in log'.accepted : c.of = req'[q].id =>
                     /\ c.type = "totp"
                     /\ \/ req'[q].row.totp = req'[q].id /\ c.n <= req'[q].row.step
                        \/ req'[q].id \in log'.again
    <3>1. CASE q = r
      <4>1. /\ Without(db.user, NextId, log.again)
            /\ \A s \in Requests : Without(req[s].row, NextId, log.again) /\ Without(req[s].base, NextId, log.again)
            /\ \A c \in log.accepted : c.of # NextId
        BY <2>1, <2>4 DEF Secrets
      <4> QED BY <2>1, <2>2, <2>3, <3>1, <4>1
    <3>2. CASE q # r
      <4> DEFINE i == req[q].id
      <4>1. req[q].pc = "save" /\ req'[q].id = i /\ req'[q].row = req[q].row
        BY <2>2, <2>6, <3>2
      <4>2. i >= 2 /\ i <= log.started
        BY <4>1 DEF Drawn, Running
      <4>3. i # NextId /\ i # 0
        BY <1>0, <4>2
      <4>4. /\ Without(db.user, i, log.again)
            /\ \A s \in Requests : /\ s # q => Without(req[s].row, i, log.again)
                                   /\ Without(req[s].base, i, log.again)
            /\ \A c \in log.accepted : c.of = i =>
                  /\ c.type = "totp"
                  /\ (req[q].row.totp = i /\ c.n <= req[q].row.step) \/ i \in log.again
        BY <4>1 DEF Secrets
      <4>5. Without(req'[r].row, i, log'.again)
        BY <1>q, <2>3, <4>3, <4>4, EditedMade, EditedWithout
      <4> QED BY <2>1, <2>2, <2>3, <4>1, <4>4, <4>5
    <3> QED BY <3>1, <3>2
  <2> QED BY <2>5, <2>6 DEF Secrets
<1>1. CASE Starts(r)
  BY <1>1, <1>q, StartsFacts DEF Begun
<1>2. ASSUME NEW k \in {"code", "passkey"}, NEW t \in Ids, NEW c \in Typeable,
             reservePendingAttempt(r, k, t, c)
      PROVE  Secrets'
  <2>1. /\ (Opens(r, {k}, {"lockcheck"}) /\ req'[r].row = db.user) \/ req' = req
        /\ db' = db /\ log' = Started
    BY <1>2, ReserveFacts
  <2> QED BY <1>n, <1>q, <2>1, RowUnedited
<1>3. ASSUME NEW t \in Ids, BeginPasskeyLogin(r, t) PROVE Secrets'
  BY <1>3, <1>n, BeginPasskeyLoginFacts
<1> QED BY <1>1, <1>2, <1>3, RequestSplit

-----------------------------------------------------------------------------
(* Codes that were accepted *)

\* The stored codes are recovery codes.
LEMMA StoredCodes ==
  ASSUME NEW row \in Row, NEW c \in row.codes
  PROVE  c.type = "recovery"
BY RowType, RecoveryCodes

\* A step that accepts nothing and writes no row.
LEMMA SpentQuiet ==
  ASSUME Spent, NEW r \in Requests, OthersSame(r), db'.user = db.user,
         log'.accepted = log.accepted, log'.stale = log.stale, log'.twice = log.twice, log'.again = log.again,
         req'[r].pc = "use" => req'[r].row = db.user
  PROVE  Spent'
BY DEF Spent, Refuses, OthersSame, Same

\* The code that consumeSecondFactor accepts was not accepted before, and
\* the row it writes refuses it from now on.
LEMMA SpentConsume ==
  ASSUME Shapes, MutexHeld, Spent, NEW r \in Requests, consumeSecondFactor(r)
  PROVE  Spent'
<1> DEFINE row == req[r].row
           code == req[r].code
           new == UseCode(row, code)
<1>1. /\ req[r].pc = "use" /\ log'.stale = log.stale /\ log'.again = log.again
      /\ \/ /\ new # row
            /\ Moves(r, {"finish", "change"})
            /\ db'.user = new
            /\ log'.accepted = log.accepted \cup {code}
            /\ log'.twice = log.twice \cup ({code} \cap log.accepted)
         \/ db' = db /\ log' = log /\ Moves(r, {"failed"})
  BY ConsumeFacts
<1>2. CASE db' = db /\ log' = log /\ Moves(r, {"failed"})
  <2>1. OthersSame(r) /\ req'[r].pc # "use"
    BY <1>2 DEF Moves
  <2> QED BY <1>2, <2>1, SpentQuiet
<1>3. CASE /\ new # row
           /\ Moves(r, {"finish", "change"})
           /\ db'.user = new
           /\ log'.accepted = log.accepted \cup {code}
           /\ log'.twice = log.twice \cup ({code} \cap log.accepted)
  <2>1. row \in Row /\ code \in Typeable /\ row.step \in Nat /\ code.n \in Nat
    <3>1. row \in Row /\ code \in Typeable
      BY DEF Shapes, ReqT
    <3> QED BY <3>1, RowType DEF Typeable
  <2>2. /\ new.totp = row.totp
        /\ \/ /\ row.totp # 0 /\ code.type = "totp" /\ code.of = row.totp /\ code.n > row.step
              /\ new.step = code.n /\ new.codes = row.codes
           \/ code \in row.codes /\ new.step = row.step /\ new.codes = row.codes \ {code}
    BY <1>3, <2>1, UseCodeFacts
  <2>3. \A c \in row.codes : c.type = "recovery"
    BY <2>1, StoredCodes
  <2>4. \A s \in Requests : req'[s].pc # "use"
    <3>1. \A s \in Requests : req[s].pc = "use" => s = r
      BY <1>1 DEF MutexHeld
    <3> QED BY <1>3, <3>1 DEF Moves, OthersSame, Same
  <2>5. \A c \in log.accepted : c.n \in Nat
    BY DEF Shapes, LogT, Typeable
  <2> HIDE DEF new, row, code
  <2>6. \A c \in log'.accepted : c.type \in {"totp", "recovery"} /\ (c.type = "totp" => c.of # 0)
    BY <1>3, <2>2, <2>3 DEF Spent
  <2>7. ASSUME ~log.stale
        PROVE  /\ \A c \in log'.twice : c.type = "totp" /\ c.of \in log.again
               /\ \A c \in log'.accepted :
                     /\ c.type = "totp" /\ c.of = db'.user.totp =>
                           c.n <= db'.user.step \/ c.of \in log.again
                     /\ c \notin db'.user.codes
    <3>1. Refuses(row) /\ \A c \in log.twice : c.type = "totp" /\ c.of \in log.again
      BY <1>1, <2>7 DEF Spent, row
    <3>2. code \in log.accepted => code.type = "totp" /\ code.of \in log.again
      BY <2>1, <2>2, <2>5, <3>1 DEF Refuses
    <3>3. \A c \in log.accepted :
             /\ c.type = "totp" /\ c.of = new.totp => c.n <= new.step \/ c.of \in log.again
             /\ c \notin new.codes
      BY <2>1, <2>2, <2>5, <3>1 DEF Refuses
    <3>4. /\ code.type = "totp" /\ code.of = new.totp => code.n <= new.step
          /\ code \notin new.codes
      BY <2>1, <2>2, <2>3
    <3>5. \A c \in log'.twice : c.type = "totp" /\ c.of \in log.again
      BY <1>3, <3>1, <3>2
    <3>6. \A c \in log'.accepted :
             /\ c.type = "totp" /\ c.of = db'.user.totp =>
                   c.n <= db'.user.step \/ c.of \in log.again
             /\ c \notin db'.user.codes
      BY <1>3, <3>3, <3>4
    <3> QED BY <3>5, <3>6
  <2> QED BY <1>1, <1>3, <2>4, <2>6, <2>7 DEF Spent, Refuses
<1> QED BY <1>1, <1>2, <1>3

\* EnableTOTP accepts a code of a secret that no row knows yet, or of one that
\* is set up again.
LEMMA SpentEnable ==
  ASSUME Shapes, Drawn, Edited, Secrets, Spent, NEW r \in Requests, EnableTOTP(r)
  PROVE  Spent'
<1> DEFINE code == req[r].code
           i == req[r].id
<1>1. /\ req[r].pc = "change" /\ req[r].kind = "enable" /\ db' = db
      /\ \/ Ends(r) /\ log' = log
         \/ /\ Moves(r, {"save"}) /\ code.type = "totp"
            /\ log'.accepted = log.accepted \cup {code}
            /\ log'.again = log.again \cup ({code.of} \ {i})
            /\ log'.twice = log.twice \cup ({code} \cap log.accepted)
            /\ log'.stale = log.stale
  BY EnableFacts
<1>2. CASE Ends(r) /\ log' = log
  <2>1. OthersSame(r) /\ req'[r].pc # "use"
    BY <1>2 DEF Ends
  <2> QED BY <1>1, <1>2, <2>1, SpentQuiet
<1>3. CASE /\ Moves(r, {"save"}) /\ code.type = "totp"
           /\ log'.accepted = log.accepted \cup {code}
           /\ log'.again = log.again \cup ({code.of} \ {i})
           /\ log'.twice = log.twice \cup ({code} \cap log.accepted)
           /\ log'.stale = log.stale
  <2>1. /\ i \in Ids /\ i # 0 /\ i \notin log.again
        /\ Without(db.user, i, log.again)
        /\ \A s \in Requests : Without(req[s].row, i, log.again)
        /\ \A c \in log.accepted : c.of # i
    <3>1. i \in Ids /\ Running(r)
      BY <1>1 DEF Shapes, ReqT, Running
    <3>2. i >= 2
      BY <3>1 DEF Drawn
    <3>3. Secret(i)
      BY <1>1, <3>1 DEF Secret
    <3> QED BY <3>1, <3>2, <3>3 DEF Secrets
  <2>2. code.of = i \/ Known(code)
    BY <1>1, <1>3 DEF Edited
  <2>3. /\ \A c \in db.user.codes : c.type = "recovery"
        /\ \A s \in Requests : \A c \in req[s].row.codes : c.type = "recovery"
    <3>1. db.user \in Row /\ \A s \in Requests : req[s].row \in Row
      BY DEF Shapes, DbT, ReqT
    <3> QED BY <3>1, StoredCodes
  <2>4. \A s \in Requests : req'[s].pc = "use" => req[s].pc = "use" /\ req'[s].row = req[s].row
    BY <1>3 DEF Moves, OthersSame, Same
  <2> HIDE DEF code, i
  <2>5. \A row : Refuses(row) /\ Without(row, i, log.again) /\ (\A c \in row.codes : c.type = "recovery") =>
           \A c \in log'.accepted :
              /\ c.type = "totp" /\ c.of = row.totp => c.n <= row.step \/ c.of \in log'.again
              /\ c \notin row.codes
    BY <1>3, <2>1 DEF Refuses, Without
  <2>6. code \in log.accepted => code.of \in log'.again
    BY <1>3, <2>1
  <2>7. \A c \in log'.accepted : c.type \in {"totp", "recovery"} /\ (c.type = "totp" => c.of # 0)
    <3>1. code.of # 0
      BY <2>1, <2>2 DEF Spent, Known
    <3> QED BY <1>3, <3>1 DEF Spent
  <2>8. ASSUME ~log.stale
        PROVE  /\ \A c \in log'.twice : c.type = "totp" /\ c.of \in log'.again
               /\ \A c \in log'.accepted :
                     /\ c.type = "totp" /\ c.of = db'.user.totp =>
                           c.n <= db'.user.step \/ c.of \in log'.again
                     /\ c \notin db'.user.codes
    <3>1. Refuses(db.user) /\ \A c \in log.twice : c.type = "totp" /\ c.of \in log.again
      BY <2>8 DEF Spent
    <3>2. \A c \in log'.twice : c.type = "totp" /\ c.of \in log'.again
      BY <1>3, <2>6, <3>1
    <3> QED BY <1>1, <2>1, <2>3, <2>5, <3>1, <3>2
  <2>9. ASSUME ~log.stale, NEW s \in Requests, req'[s].pc = "use"
        PROVE  \A c \in log'.accepted :
                  /\ c.type = "totp" /\ c.of = req'[s].row.totp =>
                        c.n <= req'[s].row.step \/ c.of \in log'.again
                  /\ c \notin req'[s].row.codes
    <3>1. req[s].pc = "use" /\ req'[s].row = req[s].row
      BY <2>4, <2>9
    <3>2. Refuses(req[s].row)
      BY <2>9, <3>1 DEF Spent
    <3> QED BY <2>1, <2>3, <2>5, <3>1, <3>2
  <2> QED BY <1>3, <2>7, <2>8, <2>9 DEF Spent, Refuses
<1> QED BY <1>1, <1>2, <1>3

\* SaveUser writes a row that was made from the stored one, unless the write
\* is stale.
LEMMA SpentSave ==
  ASSUME Shapes, Drawn, Edited, Secrets, Spent, NEW r \in Requests, SaveUser(r)
  PROVE  Spent'
<1> DEFINE row == req[r].row
           i == req[r].id
<1>1. /\ req[r].pc = "save" /\ db'.user = row
      /\ log'.stale = (log.stale \/ db.user # req[r].base)
      /\ log'.accepted = log.accepted /\ log'.twice = log.twice /\ log'.again = log.again
      /\ Ends(r) \/ Moves(r, {"passkeys", "sessions"})
  BY SaveUserFacts
<1>2. OthersSame(r) /\ req'[r].pc # "use"
  BY <1>1 DEF Ends, Moves
<1>3. ASSUME ~log'.stale PROVE Refuses(row)
  <2>1. ~log.stale /\ req[r].base = db.user
    BY <1>1, <1>3
  <2>2. Refuses(req[r].base)
    BY <2>1 DEF Spent
  <2>3. RowMade(row, req[r].base, i, log.again)
    BY <1>1 DEF Edited
  <2>4. \A c \in log.accepted : c.of = i =>
           c.type = "totp" /\ ((row.totp = i /\ c.n <= row.step) \/ i \in log.again)
    BY <1>1 DEF Secrets
  <2>5. \A c \in row.codes : c.type = "recovery"
    <3>1. row \in Row
      BY DEF Shapes, ReqT
    <3> QED BY <3>1, StoredCodes
  <2>6. \A c \in log.accepted : c.type = "totp" => c.of # 0
    BY DEF Spent
  <2> HIDE DEF row, i
  <2> QED BY <2>2, <2>3, <2>4, <2>5, <2>6 DEF Refuses, RowMade
<1>4. ASSUME ~log'.stale
      PROVE  \A c \in log'.accepted :
                  /\ c.type = "totp" /\ c.of = db'.user.totp =>
                        c.n <= db'.user.step \/ c.of \in log'.again
                  /\ c \notin db'.user.codes
  BY <1>1, <1>3, <1>4 DEF Refuses
<1> HIDE DEF row
<1>5. ~log'.stale => ~log.stale
  BY <1>1
<1> QED BY <1>1, <1>2, <1>4, <1>5 DEF Spent, Refuses, OthersSame, Same

\* Every step of a request refuses codes that were accepted before.
LEMMA SpentStep ==
  ASSUME Shapes, MutexHeld, Drawn, Edited, Secrets, Spent, NEW r \in Requests, Step(r)
  PROVE  Spent'
<1>e. Ends(r) => OthersSame(r) /\ req'[r].pc # "use"
  BY DEF Ends
<1>m. \A P : Moves(r, P) => OthersSame(r) /\ req'[r].pc \in P
  BY DEF Moves
<1>q. ASSUME Ends(r) \/ (\E P : "use" \notin P /\ Moves(r, P)), db'.user = db.user,
             log'.accepted = log.accepted, log'.stale = log.stale, log'.twice = log.twice, log'.again = log.again
      PROVE  Spent'
  BY <1>q, <1>e, <1>m, SpentQuiet
<1>1. CASE Authenticate(r)
  <2>1. Moves(r, {"factor", "failed"}) /\ db' = db /\ log' = log
    BY <1>1, AuthenticateFacts
  <2> QED BY <1>q, <2>1
<1>2. CASE guarded(r)
  <2>1. (Ends(r) \/ Moves(r, {"consume", "change", "failed"})) /\ db' = db /\ log' = log
    BY <1>2, GuardedFacts
  <2> QED BY <1>q, <2>1
<1>3. CASE EnableTOTP(r)
  BY <1>3, SpentEnable
<1>4. CASE DisableTOTP(r)
  BY <1>4, <1>q, DisableFacts
<1>5. CASE RenewRecoveryCodes(r)
  BY <1>5, <1>q, RenewFacts
<1>6. CASE BeginPasskeyRegistration(r)
  BY <1>6, <1>q, BeginRegistrationFacts
<1>7. CASE FinishPasskeyRegistration(r)
  <2>1. (Ends(r) \/ Moves(r, {"save"})) /\ log' = log /\ db'.user = db.user
    BY <1>7, FinishRegistrationFacts
  <2> QED BY <1>q, <2>1
<1>8. CASE \E k \in db.passkeys : RemovePasskey(r, k)
  <2>1. (Ends(r) \/ Moves(r, {"save"})) /\ log' = log /\ db'.user = db.user
    BY <1>8, RemovePasskeyFacts
  <2> QED BY <1>q, <2>1
<1>9. CASE PasskeyNotFound(r)
  BY <1>9, <1>q, NotFoundFacts
<1>10. CASE SaveUser(r)
  BY <1>10, SpentSave
<1>11. CASE ResetPasskeys(r)
  BY <1>11, <1>q, ResetPasskeysFacts
<1>12. CASE EndSessions(r)
  BY <1>12, <1>q, EndSessionsFacts DEF RowsKept
<1>13. CASE LoginFailed(r)
  <2>1. Ends(r) /\ db' = db /\ HistoryKept
    BY <1>13, LoginFailedFacts
  <2> QED BY <1>q, <2>1 DEF HistoryKept
<1>14. CASE SecondFactorRequired(r)
  BY <1>14, <1>q, SecondFactorRequiredFacts
<1>15. CASE PasswordOnly(r)
  <2>1. Ends(r) /\ RowsKept /\ HistoryKept
    BY <1>15, PasswordOnlyFacts
  <2> QED BY <1>q, <2>1 DEF HistoryKept, RowsKept
<1>16. CASE PendingLockCheck(r)
  <2>1. (Ends(r) \/ Moves(r, {"load"})) /\ db' = db /\ log' = log
    BY <1>16, PendingLockCheckFacts
  <2> QED BY <1>q, <2>1
<1>17. CASE PendingLoad(r)
  <2>1. (Ends(r) \/ Moves(r, {"consume", "take"})) /\ db' = db /\ log' = log
    BY <1>17, PendingLoadFacts
  <2> QED BY <1>q, <2>1
<1>18. CASE SecondFactorFailed(r)
  <2>1. Ends(r) /\ db' = db /\ HistoryKept
    BY <1>18, SecondFactorFailedFacts
  <2> QED BY <1>q, <2>1 DEF HistoryKept
<1>19. CASE finishPendingLogin(r)
  <2>1. Ends(r) /\ RowsKept /\ HistoryKept
    BY <1>19, FinishPendingFacts
  <2> QED BY <1>q, <2>1 DEF HistoryKept, RowsKept
<1>20. CASE lockUser(r)
  <2>1. /\ Moves(r, {"use"}) /\ req'[r].row = db.user /\ db' = db
        /\ log'.accepted = log.accepted /\ log'.stale = log.stale /\ log'.twice = log.twice /\ log'.again = log.again
    BY <1>20, LockUserFacts
  <2> QED BY <1>m, <2>1, SpentQuiet
<1>21. CASE consumeSecondFactor(r)
  BY <1>21, SpentConsume
<1>22. CASE TakeChallenge(r)
  <2>1. (Ends(r) \/ Moves(r, {"verify"})) /\ db' = db /\ log' = log
    BY <1>22, TakeChallengeFacts
  <2> QED BY <1>q, <2>1
<1>23. CASE CompletePasskeyLogin(r)
  <2>1. /\ Moves(r, {"finish", "failed"}) /\ db' = db /\ log'.accepted = log.accepted
        /\ log'.stale = log.stale /\ log'.twice = log.twice /\ log'.again = log.again
    BY <1>23, CompletePasskeyFacts
  <2> QED BY <1>q, <2>1
<1> QED BY <1>1, <1>2, <1>3, <1>4, <1>5, <1>6, <1>7, <1>8, <1>9, <1>10, <1>11, <1>12, <1>13, <1>14,
           <1>15, <1>16, <1>17, <1>18, <1>19, <1>20, <1>21, <1>22, <1>23, Zenon DEF Step

\* A request that starts checks no code.
LEMMA SpentRequest ==
  ASSUME Shapes, Spent, NEW r \in Requests, Request(r)
  PROVE  Spent'
<1>s. ASSUME log' = Started
      PROVE  log'.accepted = log.accepted /\ log'.stale = log.stale /\ log'.twice = log.twice /\ log'.again = log.again
  BY <1>s DEF Started, Shapes, LogT
<1>q. ASSUME NEW K, NEW P, Opens(r, K, P), "use" \notin P PROVE Spent'
  <2>1. OthersSame(r) /\ req'[r].pc # "use" /\ db' = db /\ log' = Started
    BY <1>q DEF Opens
  <2> QED BY <1>s, <2>1, SpentQuiet
<1>n. ASSUME req' = req, db' = db, log' = Started PROVE Spent'
  BY <1>n, <1>s DEF Spent, Refuses
<1>1. CASE Starts(r)
  BY <1>1, <1>q, StartsFacts DEF Begun
<1>2. ASSUME NEW k \in {"code", "passkey"}, NEW t \in Ids, NEW c \in Typeable,
             reservePendingAttempt(r, k, t, c)
      PROVE  Spent'
  <2>1. (Opens(r, {k}, {"lockcheck"}) \/ req' = req) /\ db' = db /\ log' = Started
    BY <1>2, ReserveFacts
  <2> QED BY <1>q, <1>n, <2>1
<1>3. ASSUME NEW t \in Ids, BeginPasskeyLogin(r, t) PROVE Spent'
  BY <1>3, <1>n, BeginPasskeyLoginFacts
<1> QED BY <1>1, <1>2, <1>3, RequestSplit

-----------------------------------------------------------------------------
(* The shapes, and the steps that are nobody's request *)

\* Every step of a request keeps rows, tables and requests in shape.
LEMMA ShapesStep ==
  ASSUME Shapes, NEW r \in Requests, Step(r)
  PROVE  Shapes'
<1>1. CASE Work(r)
  BY <1>1, WorkFacts
<1>2. CASE LoginFailed(r)
  BY <1>2, LoginFailedFacts
<1>3. CASE SecondFactorRequired(r)
  BY <1>3, SecondFactorRequiredFacts
<1>4. CASE PasswordOnly(r)
  BY <1>4, PasswordOnlyFacts
<1>5. CASE PendingLockCheck(r)
  BY <1>5, PendingLockCheckFacts
<1>6. CASE PendingLoad(r)
  BY <1>6, PendingLoadFacts
<1>7. CASE SecondFactorFailed(r)
  BY <1>7, SecondFactorFailedFacts
<1>8. CASE finishPendingLogin(r)
  BY <1>8, FinishPendingFacts
<1>9. CASE lockUser(r)
  BY <1>9, LockUserFacts
<1>10. CASE consumeSecondFactor(r)
  BY <1>10, ConsumeFacts
<1>11. CASE TakeChallenge(r)
  BY <1>11, TakeChallengeFacts
<1>12. CASE CompletePasskeyLogin(r)
  BY <1>12, CompletePasskeyFacts
<1> QED BY <1>1, <1>2, <1>3, <1>4, <1>5, <1>6, <1>7, <1>8, <1>9, <1>10, <1>11, <1>12, Zenon
        DEF Step, Work

\* So does a request that starts.
LEMMA ShapesRequest ==
  ASSUME Shapes, NEW r \in Requests, Request(r)
  PROVE  Shapes'
<1>1. CASE Starts(r)
  BY <1>1, StartsFacts
<1>2. ASSUME NEW k \in {"code", "passkey"}, NEW t \in Ids, NEW c \in Typeable,
             reservePendingAttempt(r, k, t, c)
      PROVE  Shapes'
  BY <1>2, ReserveFacts
<1>3. ASSUME NEW t \in Ids, BeginPasskeyLogin(r, t) PROVE Shapes'
  BY <1>3, BeginPasskeyLoginFacts
<1> QED BY <1>1, <1>2, <1>3, RequestSplit

\* The process's memory after a restart: nothing pending, nothing locked.
LEMMA FreshFacts ==
  /\ FreshMemory.lockout = NoLockout /\ FreshMemory.mutex = {}
  /\ ~NoLockout.locked /\ NoLockout.count = 0
  /\ \A t \in Ids : ~FreshMemory.pending[t].live /\ FreshMemory.pending[t].passkey = 0
  /\ Idle.pc = "idle" /\ Idle.held = {} /\ Idle.row = NoRow /\ Idle.base = NoRow
  /\ NoRow.totp = 0 /\ NoRow.codes = {}
BY DEF FreshMemory, NoPending, NoLockout, Idle, NoRow

\* A restart forgets the requests and the tables in memory; what was counted
\* of codes, challenges and attempts still holds of the rows that are left.
LEMMA RestartKeeps ==
  ASSUME SignInInv, Restart
  PROVE  SignInInv'
<1>0. /\ Shapes /\ Drawn /\ Reservations /\ Failures /\ FactorsHeld /\ Challenges /\ Secrets /\ Spent
  BY DEF SignInInv
<1>1. /\ Shapes' /\ UNCHANGED <<db, now>> /\ mem' = FreshMemory
      /\ log'.guesses = 0 /\ log'.started = log.started + 1
      /\ log'.stale = log.stale /\ log'.accepted = log.accepted
      /\ log'.twice = log.twice /\ log'.again = log.again /\ log'.checked = log.checked /\ log'.answered = log.answered
      /\ log'.replayed = log.replayed /\ log'.skipped = log.skipped
  BY <1>0, RestartFacts
<1>2. \A r \in Requests : /\ req'[r].pc = "idle" /\ req'[r].held = {}
                          /\ req'[r].row = NoRow /\ req'[r].base = NoRow
  BY <1>0, RestartFacts, FreshFacts
<1>3. /\ mem'.mutex = {} /\ mem'.lockout.count = 0 /\ ~mem'.lockout.locked
      /\ \A t \in Ids : ~mem'.pending[t].live /\ mem'.pending[t].passkey = 0
  BY <1>1, FreshFacts
<1>4. log.started \in Nat /\ log.started >= 1 /\ Ids \subseteq Nat
  BY <1>0, ChallengeTypes, Parameters DEF Drawn
<1>5. MutexHeld'
  BY <1>2, <1>3 DEF MutexHeld
<1>6. Drawn'
  BY <1>1, <1>2, <1>4 DEF Drawn, Running
<1>7. Reservations'
  <2>1. ASSUME NEW t \in Ids
        PROVE  /\ Reserved(t)' = {} /\ log.checked[t] \in Nat /\ log.checked[t] <= PendingLoginAttempts
               /\ Unborn(t)' => log.checked[t] = 0
    <3>1. Reserved(t)' = {}
      BY <1>2 DEF Reserved
    <3>2. log.checked[t] \in Nat /\ Cardinality(Reserved(t)) \in Nat
      BY <1>0, Counting DEF Reserved, Shapes, LogT
    <3>3. Unborn(t)' => Unborn(t)
      BY <1>1, <1>2, <1>4 DEF Unborn, Running
    <3> QED BY <1>0, <3>1, <3>2, <3>3, Parameters DEF Reservations
  <2>2. Cardinality({}) = 0
    BY FS_EmptySet
  <2>3. ASSUME NEW t \in Ids PROVE Cardinality(Reserved(t))' = 0
    BY <2>1, <2>2
  <2>4. ASSUME NEW t \in Ids PROVE log'.checked[t] + Cardinality(Reserved(t))' <= PendingLoginAttempts
    BY <1>1, <2>1, <2>3
  <2> QED BY <1>1, <1>3, <2>1, <2>4 DEF Reservations
<1>8. Failures'
  <2>1. MaxAttempts \in Nat /\ MaxAttempts > 0 /\ Cardinality(Requests) \in Nat
    BY <1>0, Parameters, FailureTypes
  <2> QED BY <1>1, <1>3, <2>1 DEF Failures, IsLocked
<1>9. FactorsHeld'
  BY <1>0, <1>1, <1>2 DEF FactorsHeld
<1>10. Challenges'
  <2>1. \A c \in log.answered : c \in Nat /\ c <= log.started
    BY <1>0, ChallengeTypes DEF Challenges
  <2> QED BY <1>0, <1>1, <1>2, <1>3, <1>4, <2>1 DEF Challenges
<1>11. Secrets'
  <2>1. ASSUME NEW i \in Ids, Secret(i)' PROVE Secret(i) /\ i # 0
    BY <1>1, <1>2, <1>4, <2>1 DEF Secret, Running
  <2>2. \A i \in Ids : i # 0 => Without(NoRow, i, log'.again)
    BY FreshFacts DEF Without
  <2>3. ASSUME NEW i \in Ids, Secret(i)'
        PROVE  /\ i \notin log'.again /\ Without(db.user, i, log.again)'
               /\ \A s \in Requests : Without(req'[s].row, i, log'.again) /\ Without(req'[s].base, i, log'.again)
               /\ \A c \in log'.accepted : c.of # i
    <3>1. i \notin log.again /\ Without(db.user, i, log.again) /\ \A c \in log.accepted : c.of # i
      BY <1>0, <2>1, <2>3 DEF Secrets
    <3> QED BY <1>1, <1>2, <2>1, <2>2, <2>3, <3>1
  <2> QED BY <1>2, <2>3 DEF Secrets
<1>12. Edited'
  BY <1>2 DEF Edited
<1>13. Spent'
  BY <1>0, <1>1, <1>2 DEF Spent, Refuses
<1> QED BY <1>1, <1>5, <1>6, <1>7, <1>8, <1>9, <1>10, <1>11, <1>12, <1>13 DEF SignInInv

\* Time passing only ends a lock.
LEMMA TickKeeps ==
  ASSUME SignInInv, Tick
  PROVE  SignInInv'
<1>1. now \in Nat /\ now' = now + 1 /\ UNCHANGED <<db, mem, req, scenario, log>>
  BY DEF SignInInv, Shapes, Tick
<1>2. Shapes'
  BY <1>1 DEF SignInInv, Shapes
<1>3. Failures'
  <2>1. /\ log.guesses \in Nat /\ mem.lockout.lockedAt \in Nat /\ LockDuration \in Nat
    BY FailureTypes, Parameters DEF SignInInv
  <2>2. IsLocked' => IsLocked
    BY <1>1, <2>1 DEF IsLocked
  <2>3. MayFail' = MayFail
    BY <1>1 DEF MayFail
  <2> QED BY <1>1, <2>2, <2>3 DEF SignInInv, Failures
<1>4. MutexHeld' /\ Drawn' /\ FactorsHeld' /\ Challenges' /\ Secrets' /\ Edited' /\ Spent'
  BY <1>1 DEF SignInInv, MutexHeld, Drawn, Running, FactorsHeld, Challenges, Secrets, Secret,
              Edited, Known, Spent, Refuses
<1>5. Reservations'
  BY <1>1 DEF SignInInv, Reservations, Reserved, Unborn, Running
<1> QED BY <1>2, <1>3, <1>4, <1>5 DEF SignInInv

\* What the account is when the behaviour starts.
LEMMA InitFacts ==
  ASSUME Init
  PROVE  /\ Shapes
         /\ \A r \in Requests : req[r] = Idle
         /\ mem.mutex = {} /\ mem.lockout = NoLockout
         /\ \A t \in Ids : mem.pending[t].passkey = 0 /\ (mem.pending[t].live => t = 1)
         /\ db.user.totp \in {0, 1} /\ \A c \in db.user.codes : c.of = 1
         /\ log.started = 1 /\ ~log.stale /\ log.accepted = {} /\ log.twice = {} /\ log.again = {}
         /\ log.guesses = 0 /\ \A t \in Ids : log.checked[t] = 0
         /\ log.answered = {} /\ ~log.replayed /\ ~log.skipped
<1>1. PICK s \in Scenarios :
        /\ scenario = s
        /\ db = [user |-> [active |-> TRUE, totp |-> s.totp, step |-> 0,
                           codes |-> IF s.totp = 0 /\ s.passkeys = {} THEN {} ELSE Codes(1)],
                 passkeys |-> s.passkeys, sessions |-> {1}]
        /\ mem = [FreshMemory EXCEPT !.pending[1] =
                     IF s.pending THEN [expires |-> 2 + PendingLoginTTL, attempts |-> 0,
                                        passkey |-> 0, live |-> TRUE]
                     ELSE NoPending]
  BY Zenon DEF Init
<1>2. s \in ScenarioT /\ s.totp \in {0, 1} /\ s.passkeys \subseteq {1}
  BY Parameters DEF ScenarioT
<1>3. db \in DbT /\ db.user.totp \in {0, 1} /\ \A c \in db.user.codes : c.of = 1
  <2> DEFINE C == IF s.totp = 0 /\ s.passkeys = {} THEN {} ELSE Codes(1)
             row == [active |-> TRUE, totp |-> s.totp, step |-> 0, codes |-> C]
  <2>1. C \in SUBSET AllCodes /\ \A c \in C : c.of = 1
    BY Parameters, RecoveryCodes
  <2>2. db = [user |-> row, passkeys |-> s.passkeys, sessions |-> {1}]
    BY <1>1
  <2> HIDE DEF C
  <2>3. row \in Row /\ row.totp = s.totp /\ row.codes = C
    BY <1>2, <2>1, Parameters, RowType
  <2> HIDE DEF row
  <2> QED BY <1>2, <2>1, <2>2, <2>3, Parameters DEF DbT
<1>4. /\ mem \in MemT /\ mem.mutex = {} /\ mem.lockout = NoLockout
      /\ \A t \in Ids : mem.pending[t].passkey = 0 /\ (mem.pending[t].live => t = 1)
  <2> DEFINE p == IF s.pending THEN [expires |-> 2 + PendingLoginTTL, attempts |-> 0,
                                     passkey |-> 0, live |-> TRUE]
                  ELSE NoPending
  <2>1. p \in PendingT /\ p.passkey = 0
    BY BasicTypes, Parameters DEF PendingT, NoPending
  <2>2. mem = [FreshMemory EXCEPT !.pending[1] = p]
    BY <1>1
  <2> HIDE DEF p
  <2>3. FreshMemory \in MemT
    BY BasicTypes
  <2>4. /\ mem \in MemT /\ mem.mutex = FreshMemory.mutex /\ mem.lockout = FreshMemory.lockout
        /\ mem.pending = [FreshMemory.pending EXCEPT ![1] = p]
    BY <2>1, <2>2, <2>3, Parameters DEF MemT
  <2>5. FreshMemory.pending \in [Ids -> PendingT]
    BY <2>3 DEF MemT
  <2> QED BY <2>1, <2>4, <2>5, FreshFacts, Parameters
<1>5. req \in [Requests -> ReqT] /\ \A r \in Requests : req[r] = Idle
  BY BasicTypes DEF Init
<1>6. /\ log \in LogT /\ log.started = 1 /\ ~log.stale /\ log.accepted = {} /\ log.twice = {} /\ log.again = {}
      /\ log.guesses = 0 /\ \A t \in Ids : log.checked[t] = 0
      /\ log.answered = {} /\ ~log.replayed /\ ~log.skipped
  BY Parameters DEF Init, LogT
<1>7. now \in Nat
  BY DEF Init
<1> QED BY <1>1, <1>2, <1>3, <1>4, <1>5, <1>6, <1>7 DEF Shapes

\* The invariant holds before the first request.
LEMMA InitSignIn ==
  ASSUME Init
  PROVE  SignInInv
<1>1. /\ Shapes
      /\ mem.mutex = {} /\ mem.lockout = NoLockout
      /\ \A t \in Ids : mem.pending[t].passkey = 0 /\ (mem.pending[t].live => t = 1)
      /\ db.user.totp \in {0, 1} /\ \A c \in db.user.codes : c.of = 1
      /\ log.started = 1 /\ ~log.stale /\ log.accepted = {} /\ log.twice = {} /\ log.again = {}
      /\ log.guesses = 0 /\ \A t \in Ids : log.checked[t] = 0
      /\ log.answered = {} /\ ~log.replayed /\ ~log.skipped
  BY InitFacts
<1>2. \A r \in Requests : /\ req[r].pc = "idle" /\ req[r].held = {}
                          /\ req[r].row = NoRow /\ req[r].base = NoRow
  BY InitFacts, FreshFacts
<1>3. MutexHeld /\ Drawn /\ FactorsHeld /\ Challenges /\ Edited /\ Spent
  BY <1>1, <1>2 DEF MutexHeld, Drawn, Running, FactorsHeld, Challenges, Edited, Spent, Refuses
<1>4. Reservations
  <2>1. ASSUME NEW t \in Ids
        PROVE  /\ Cardinality(Reserved(t)) = 0 /\ Reserved(t) = {} /\ (Unborn(t) => ~mem.pending[t].live)
               /\ mem.pending[t].attempts \in Nat /\ log.checked[t] = 0
    <3>1. Reserved(t) = {}
      BY <1>2 DEF Reserved
    <3>2. Unborn(t) => ~mem.pending[t].live
      BY <1>1, <1>2, Parameters DEF Unborn, Running
    <3>3. Cardinality(Reserved(t)) = 0
      BY <3>1, FS_EmptySet
    <3> QED BY <1>1, <3>1, <3>2, <3>3, Parameters DEF Shapes, MemT, PendingT
  <2>2. ASSUME NEW t \in Ids
        PROVE  /\ log.checked[t] + Cardinality(Reserved(t)) <= PendingLoginAttempts
               /\ log.checked[t] + Cardinality(Reserved(t)) <= mem.pending[t].attempts
    BY <2>1, Parameters
  <2> QED BY <2>1, <2>2, Zenon DEF Reservations
<1>5. Failures
  BY <1>1, FreshFacts, FailureTypes, Parameters DEF Failures, IsLocked
<1>6. Secrets
  <2>1. ASSUME NEW i \in Ids, Secret(i) PROVE i # 0 /\ i # 1
    BY <1>1, <1>2, <2>1, Parameters DEF Secret, Running
  <2> QED BY <1>1, <1>2, <2>1, FreshFacts DEF Secrets, Without
<1> QED BY <1>1, <1>3, <1>4, <1>5, <1>6 DEF SignInInv

\* Every step keeps it, whoever takes it.
LEMMA NextSignIn ==
  ASSUME SignInInv, [Next]_vars
  PROVE  SignInInv'
<1>0. /\ Shapes /\ MutexHeld /\ Drawn /\ Reservations /\ Failures /\ FactorsHeld
      /\ Challenges /\ Secrets /\ Edited /\ Spent
  BY DEF SignInInv
<1>1. ASSUME NEW r \in Requests, Step(r) PROVE SignInInv'
  <2>1. Shapes'
    BY <1>0, <1>1, ShapesStep
  <2>2. MutexHeld' /\ Drawn'
    BY <1>0, <1>1, MutexStep, DrawnStep
  <2>3. Reservations' /\ Failures'
    BY <1>0, <1>1, ReservationsStep, FailuresStep
  <2>4. FactorsHeld' /\ Challenges'
    BY <1>0, <1>1, FactorsStep, ChallengesStep
  <2>5. Secrets' /\ Edited'
    BY <1>0, <1>1, <2>1, SecretsStep, EditedStep
  <2>6. Spent'
    BY <1>0, <1>1, SpentStep
  <2> QED BY <2>1, <2>2, <2>3, <2>4, <2>5, <2>6 DEF SignInInv
<1>2. ASSUME NEW r \in Requests, Request(r) PROVE SignInInv'
  <2>1. Shapes'
    BY <1>0, <1>2, ShapesRequest
  <2>2. MutexHeld' /\ Drawn'
    BY <1>0, <1>2, MutexRequest, DrawnRequest
  <2>3. Reservations' /\ Failures'
    BY <1>0, <1>2, ReservationsRequest, FailuresRequest
  <2>4. FactorsHeld' /\ Challenges'
    BY <1>0, <1>2, FactorsRequest, ChallengesRequest
  <2>5. Secrets' /\ Edited'
    BY <1>0, <1>2, SecretsRequest, EditedRequest
  <2>6. Spent'
    BY <1>0, <1>2, SpentRequest
  <2> QED BY <2>1, <2>2, <2>3, <2>4, <2>5, <2>6 DEF SignInInv
<1>3. CASE UNCHANGED vars
  <2>1. UNCHANGED <<db, mem, req, now, scenario, log>>
    BY <1>3 DEF vars
  <2>2. /\ Shapes' /\ MutexHeld' /\ Drawn' /\ FactorsHeld' /\ Challenges' /\ Secrets'
        /\ Edited' /\ Spent'
    BY <1>0, <2>1 DEF Shapes, MutexHeld, Drawn, Running, FactorsHeld, Challenges, Secrets, Secret,
                      Edited, Known, Spent, Refuses
  <2>3. Reservations' /\ Failures'
    BY <1>0, <2>1 DEF Reservations, Reserved, Unborn, Running, Failures, IsLocked, MayFail
  <2> QED BY <2>2, <2>3 DEF SignInInv
<1> QED BY <1>1, <1>2, <1>3, RestartKeeps, TickKeeps DEF Next

-----------------------------------------------------------------------------
(* Theorems *)

\* SignInInv holds in every reachable state, for every set of requests, every
\* limit and every scenario.
THEOREM SignInInvariant == Spec => []SignInInv
<1>1. Init => SignInInv
  BY InitSignIn
<1>2. SignInInv /\ [Next]_vars => SignInInv'
  BY NextSignIn
<1> QED BY <1>1, <1>2, PTL DEF Spec

\* TypeOK: rows, pending logins, lockout entries and requests keep their shape,
\* and only a request inside consumeSecondFactor or finishing holds the mutex.
THEOREM TypeCorrect == Spec => []TypeOK
<1>1. SignInInv => TypeOK
  BY DEF SignInInv, TypeOK, Shapes, DbT, MemT, LockoutT, PendingT, ReqT, ScenarioT, MutexHeld
<1> QED BY <1>1, SignInInvariant, PTL

\* However submissions interleave, one accepted password lets at most
\* PendingLoginAttempts codes and assertions be checked: an attempt is reserved
\* before the check (reserve), so checks made and under way stay within it.
THEOREM GuessesBounded == Spec => []GuessesPerPasswordBounded
<1>1. SignInInv => GuessesPerPasswordBounded
  <2>1. ASSUME Shapes, NEW t \in Ids
        PROVE  log.checked[t] \in Nat /\ Cardinality(Reserved(t)) \in Nat
    BY <2>1, Counting DEF Reserved, Shapes, LogT
  <2> QED BY <2>1, Parameters DEF SignInInv, Reservations, GuessesPerPasswordBounded
<1> QED BY <1>1, SignInInvariant, PTL

\* A code that was accepted is not accepted again unless a handler wrote a row
\* over a newer one, or EnableTOTP set up the app again with the secret the form
\* carried: consumeSecondFactor reads and writes inside the mutex.
THEOREM CodesOnce == Spec => []CodesWorkOnce
<1>1. SignInInv => CodesWorkOnce
  BY DEF SignInInv, Spent, CodesWorkOnce
<1> QED BY <1>1, SignInInvariant, PTL

\* The failed checks of one lock period exceed the limit at most by the other
\* requests that were past IsLocked when RecordFailure locked the account.
THEOREM FailuresLimited == Spec => []FailuresBounded
<1>1. SignInInv => FailuresBounded
  BY DEF SignInInv, Failures, FailuresBounded
<1> QED BY <1>1, SignInInvariant, PTL

\* Login opens no session by the password alone while one second step stayed
\* on from the start of the request to its end.
THEOREM SecondStepKept == Spec => []SecondStepNotSkipped
<1>1. SignInInv => SecondStepNotSkipped
  BY DEF SignInInv, FactorsHeld, SecondStepNotSkipped
<1> QED BY <1>1, SignInInvariant, PTL

\* takePasskeyChallenge hands a challenge to one submission, so none that was
\* answered is answered again.
THEOREM ChallengesOnce == Spec => []ChallengesAnsweredOnce
<1>1. SignInInv => ChallengesAnsweredOnce
  BY DEF SignInInv, Challenges, ChallengesAnsweredOnce
<1> QED BY <1>1, SignInInvariant, PTL
=============================================================================
