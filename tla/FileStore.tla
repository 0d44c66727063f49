----------------------------- MODULE FileStore -----------------------------
(***************************************************************************)
(* The JSON file backend (internal/store/file).  Every repository method   *)
(* that changes something loads a whole file, computes the new rows and    *)
(* writes the whole file back.  The store's mutex covers one read or one   *)
(* write, never both; a second mutex, `consume`, is held across the two by *)
(* the methods that consume a record once (auth code MarkUsed, refresh     *)
(* token Rotate) and by no other.  Writing truncates the file first, and   *)
(* two methods write two files.  Only the server runs on the directory     *)
(* (README.md:224), so the callers are the threads of one process.         *)
(***************************************************************************)
EXTENDS Naturals, FiniteSets

CONSTANTS
    Workers,     \* threads calling the store
    Scenarios,   \* rows a behaviour starts with and calls it may make
    Retention,   \* how long a revocation watermark is kept
    MaxCalls,    \* bound: calls of a behaviour
    MaxFaults,   \* bound: crashes and failed writes
    MaxTime      \* bound: the clock

ASSUME FileStoreAssumption ==
    /\ IsFiniteSet(Workers) /\ "free" \notin Workers
    /\ {Retention, MaxCalls, MaxFaults, MaxTime} \subseteq Nat

VARIABLES
    disk,     \* file -> its rows, and whether it is cut short
    lock,     \* the holders of the mutexes
    call,     \* the call each worker is making
    now,      \* the clock
    scenario, \* what this behaviour starts from and may do (never changes)
    log       \* history; guards read only its counters and the keys drawn

vars == <<disk, lock, call, now, scenario, log>>

-----------------------------------------------------------------------------

Files == {"users", "clients", "sessions", "auth_codes", "tokens", "revocations", "signing_keys",
          "consents", "verification_tokens", "passkeys", "groups", "audit_events"}

\* A row: its key, the user (or e-mail, or member) it belongs to, its tag (the
\* client of a token, the purpose of a link), its one flag (used, revoked,
\* active) and its time (expiry, not-before).
RowSet == [key: Nat, user: Nat, tag: Nat, flag: BOOLEAN, at: Nat]

\* The methods of each repository; `user` is the member of a membership and
\* the kind of a watermark.
Methods ==
    [users               |-> {"Create", "Update", "Delete"},
     clients             |-> {"Create", "Update", "Delete"},
     sessions            |-> {"Create", "Delete", "DeleteByUserID", "DeleteExpired"},
     auth_codes          |-> {"Create", "MarkUsed", "Delete", "DeleteExpired"},
     tokens              |-> {"Create", "Revoke", "Rotate", "RevokeByUserID", "RevokeByClientID", "DeleteExpired"},
     revocations         |-> {"upsert", "DeleteExpired"},
     signing_keys        |-> {"Save", "SetActive", "Delete"},
     consents            |-> {"Upsert", "Delete", "DeleteByUserID"},
     verification_tokens |-> {"Create", "MarkUsed", "DeleteByUserID", "DeleteExpired"},
     passkeys            |-> {"Create", "Update", "Delete", "DeleteByUserID"},
     groups              |-> {"Create", "Update", "Delete", "AddMember", "RemoveMember", "RemoveUser"},
     audit_events        |-> {"Append", "DeleteBefore"}]

\* "Get" is any method that only reads (GetByID, List, IsRevoked...).
OpSet == [file: Files, name: {"Get"} \cup UNION {Methods[f] : f \in Files},
          key: Nat, user: Nat, tag: Nat, at: Nat]

IsMethod(op) ==
    \/ op.name = "Get"
    \/ /\ op.name \in Methods[op.file]
       /\ op.file = "groups" => (op.user > 0 <=> op.name \in {"AddMember", "RemoveMember", "RemoveUser"})
       /\ op.name = "upsert" => op.user > 0

\* Calls are method calls, and no two stored tokens have one id.
ASSUME ScenariosAssumption ==
    \A s \in Scenarios :
        /\ s.rows \in [Files -> SUBSET RowSet]
        /\ s.ops \subseteq OpSet /\ \A op \in s.ops : IsMethod(op)
        /\ \A r, q \in s.rows["tokens"] : r.key = q.key => r = q

\* Create does not look for the key in these files: it is drawn at random.
Random == {"auth_codes", "tokens", "sessions"}

RowOf(op) == [key |-> op.key, user |-> op.user, tag |-> op.tag, flag |-> FALSE, at |-> op.at]

\* What a method returns instead of rows when it refuses, or only reads, and
\* saves nothing.
Refused == [key |-> 0, user |-> 0, tag |-> 0, flag |-> FALSE, at |-> 0]

Free == "free"

NoOp == [file |-> "none", name |-> "none", key |-> 0, user |-> 0, tag |-> 0, at |-> 0]

Idle == [op |-> NoOp, pc |-> "idle", rows |-> {}, base |-> {}]

Init ==
    /\ \E s \in Scenarios :
        /\ scenario = s
        /\ disk = [f \in Files |-> [rows |-> s.rows[f], torn |-> FALSE]]
        /\ log = [calls |-> 0, faults |-> 0, tornRead |-> FALSE, overwritten |-> {}, twice |-> {},
                  consumed |-> {}, revoked |-> {}, cutOff |-> {}, dropped |-> {},
                  drawn |-> UNION {{<<f, r.key>> : r \in s.rows[f]} : f \in Random}]
    /\ lock = [store |-> Free, keys |-> Free, consume |-> Free]
    /\ call = [w \in Workers |-> Idle]
    /\ now = 1

-----------------------------------------------------------------------------
(* What each repository's methods compute from the rows they loaded.       *)

Has(d, op) == \E r \in d : r.key = op.key

Insert(d, op) == IF Has(d, op) THEN {Refused} ELSE d \cup {RowOf(op)}

Replace(d, op) ==
    IF Has(d, op) THEN {r \in d : r.key # op.key} \cup {RowOf(op)} ELSE {Refused}

Remove(d, op) == IF Has(d, op) THEN {r \in d : r.key # op.key} ELSE {Refused}

RemoveUser(d, op) == {r \in d : r.user # op.user}

RemoveExpired(d) == {r \in d : r.at > now}

SetFlag(d, op) ==
    IF Has(d, op) THEN {IF r.key = op.key THEN [r EXCEPT !.flag = TRUE] ELSE r : r \in d} ELSE {Refused}

\* Consume once: a row already flagged is refused (CodeConflict).
Consume(d, op) == IF \E r \in d : r.key = op.key /\ r.flag THEN {Refused} ELSE SetFlag(d, op)

\* users: Create refuses a known id or e-mail (the row's user); Update only
\* looks for the id.
usersOp(op, d) ==
    CASE op.name = "Create" -> IF \E r \in d : r.user = op.user THEN {Refused} ELSE Insert(d, op)
      [] op.name = "Update" -> Replace(d, op)
      [] op.name = "Delete" -> Remove(d, op)

clientsOp(op, d) ==
    CASE op.name = "Create" -> Insert(d, op)
      [] op.name = "Update" -> Replace(d, op)
      [] op.name = "Delete" -> Remove(d, op)

sessionsOp(op, d) ==
    CASE op.name = "Create"         -> d \cup {RowOf(op)}
      [] op.name = "Delete"         -> Remove(d, op)
      [] op.name = "DeleteByUserID" -> RemoveUser(d, op)
      [] op.name = "DeleteExpired"  -> RemoveExpired(d)

authCodesOp(op, d) ==
    CASE op.name = "Create"        -> d \cup {RowOf(op)}
      [] op.name = "MarkUsed"      -> Consume(d, op)
      [] op.name = "Delete"        -> Remove(d, op)
      [] op.name = "DeleteExpired" -> RemoveExpired(d)

tokensOp(op, d) ==
    CASE op.name = "Create"         -> d \cup {RowOf(op)}
      [] op.name = "Revoke"         -> SetFlag(d, op)
      [] op.name = "Rotate"         -> Consume(d, op)
      [] op.name = "RevokeByUserID" ->
             {IF r.user = op.user THEN [r EXCEPT !.flag = TRUE] ELSE r : r \in d}
      [] op.name = "RevokeByClientID" ->
             {IF r.tag = op.tag THEN [r EXCEPT !.flag = TRUE] ELSE r : r \in d}
      [] op.name = "DeleteExpired"  -> RemoveExpired(d)

\* upsert keeps the later not-before; rows expire Retention after it.
revocationsOp(op, d) ==
    CASE op.name = "upsert" ->
             LET same == {r \in d : r.key = op.key /\ r.user = op.user}
             IN  IF \E r \in same : r.at >= op.at THEN d ELSE (d \ same) \cup {RowOf(op)}
      [] op.name = "DeleteExpired" -> {r \in d : r.at + Retention > now}

consentsOp(op, d) ==
    CASE op.name = "Upsert" ->
             {r \in d : ~(r.key = op.key /\ r.user = op.user)} \cup {RowOf(op)}
      [] op.name = "Delete" ->
             IF \E r \in d : r.key = op.key /\ r.user = op.user
             THEN {r \in d : ~(r.key = op.key /\ r.user = op.user)} ELSE {Refused}
      [] op.name = "DeleteByUserID" -> RemoveUser(d, op)

\* MarkUsed of a link: no check of the flag, and no `consume`.  A user's links
\* are deleted for one purpose, or for all (tag 0).
verificationTokensOp(op, d) ==
    CASE op.name = "Create"         -> Insert(d, op)
      [] op.name = "MarkUsed"       -> SetFlag(d, op)
      [] op.name = "DeleteByUserID" -> {r \in d : ~(r.user = op.user /\ op.tag \in {0, r.tag})}
      [] op.name = "DeleteExpired"  -> RemoveExpired(d)

passkeysOp(op, d) ==
    CASE op.name = "Create"         -> Insert(d, op)
      [] op.name = "Update"         -> Replace(d, op)
      [] op.name = "Delete"         -> Remove(d, op)
      [] op.name = "DeleteByUserID" -> RemoveUser(d, op)

\* A group is the row of its key with user 0 and its name in `at`, a membership
\* one with user > 0; adding a member needs the group but not the user.
Group(op, d) == {r \in d : r.key = op.key /\ r.user = 0}

groupsOp(op, d) ==
    LET group == Group(op, d)
        taken == \E r \in d : r.user = 0 /\ r.key # op.key /\ r.at = op.at
    IN  CASE op.name = "Create" ->
                 IF group # {} \/ taken THEN {Refused} ELSE d \cup {RowOf(op)}
          [] op.name = "Update" ->
                 IF group = {} \/ taken THEN {Refused} ELSE (d \ group) \cup {RowOf(op)}
          [] op.name = "Delete" ->
                 IF group = {} THEN {Refused} ELSE {r \in d : r.key # op.key}

membersOp(op, d) ==
    LET member == {r \in d : r.key = op.key /\ r.user = op.user}
    IN  CASE op.name = "AddMember"    ->
                 IF Group(op, d) = {} \/ member # {} THEN {Refused} ELSE d \cup {RowOf(op)}
          [] op.name = "RemoveMember" -> IF member = {} THEN {Refused} ELSE d \ member
          [] op.name = "RemoveUser"   -> RemoveUser(d, op)

auditOp(op, d) ==
    CASE op.name = "Append"       -> d \cup {RowOf(op)}
      [] op.name = "DeleteBefore" -> {r \in d : r.at >= op.at}

\* keys: the flag is the file's active_kid, which saving a key leaves alone.
keysOp(op, d) ==
    CASE op.name = "Save"      ->
             IF Has(d, op) THEN {IF r.key = op.key THEN [r EXCEPT !.at = op.at] ELSE r : r \in d}
             ELSE d \cup {RowOf(op)}
      [] op.name = "SetActive" ->
             IF Has(d, op) THEN {[r EXCEPT !.flag = (r.key = op.key)] : r \in d} ELSE {Refused}
      [] op.name = "Delete"    -> Remove(d, op)

\* A method that only reads has nothing to save.
Apply(op, d) ==
    IF op.name = "Get" THEN {Refused} ELSE
    CASE op.file = "users"               -> usersOp(op, d)
      [] op.file = "clients"             -> clientsOp(op, d)
      [] op.file = "sessions"            -> sessionsOp(op, d)
      [] op.file = "auth_codes"          -> authCodesOp(op, d)
      [] op.file = "tokens"              -> tokensOp(op, d)
      [] op.file = "revocations"         -> revocationsOp(op, d)
      [] op.file = "consents"            -> consentsOp(op, d)
      [] op.file = "verification_tokens" -> verificationTokensOp(op, d)
      [] op.file = "passkeys"            -> passkeysOp(op, d)
      [] op.file = "groups" /\ op.user = 0 -> groupsOp(op, d)
      [] op.file = "groups" /\ op.user > 0 -> membersOp(op, d)
      [] op.file = "audit_events"        -> auditOp(op, d)
      [] op.file = "signing_keys"        -> keysOp(op, d)

-----------------------------------------------------------------------------
(* A call: take `consume` if it consumes, read, compute, write, go on.     *)

Consuming(op) == op.name = "Rotate" \/ (op.file = "auth_codes" /\ op.name = "MarkUsed")

\* The mutex of a file: the key repository has one of its own.
MutexOf(op) == IF op.file = "signing_keys" THEN "keys" ELSE "store"

Revoking == {"Revoke", "RevokeByUserID", "RevokeByClientID"}

watermarkForgotten(op) == NoOp

\* The watermark that goes with a revocation: its kind (the row's user) says
\* whether it stops one grant, the user's tokens or the client's.
Watermark(op) ==
    LET kind == CASE op.name = "Revoke" -> 1 [] op.name = "RevokeByUserID" -> 2
                  [] op.name = "RevokeByClientID" -> 3 [] OTHER -> 0
    IN  IF kind = 0 THEN NoOp
        ELSE [file |-> "revocations", name |-> "upsert", key |-> op.key, user |-> kind, tag |-> 0, at |-> now]

keepsConsume(w) == lock.consume

\* `defer Unlock` on every way out.
Unlocked(w) == IF lock.consume = w THEN Free ELSE lock.consume

End(w) == [call EXCEPT ![w] = Idle]

\* The key of a new code, token or session was never drawn before.
Draws(op) == op.name = "Create" /\ op.file \in Random

Begin(w, op) ==
    /\ call[w] = Idle
    /\ log.calls < MaxCalls
    /\ Draws(op) => <<op.file, op.key>> \notin log.drawn
    /\ call' = [call EXCEPT ![w] = [Idle EXCEPT !.op = op,
                                      !.pc = IF Consuming(op) THEN "consume" ELSE "read"]]
    /\ log' = [log EXCEPT !.calls = @ + 1,
                          !.drawn = IF Draws(op) THEN @ \cup {<<op.file, op.key>>} ELSE @]
    /\ UNCHANGED <<disk, lock, now, scenario>>

LockConsume(w) ==
    /\ call[w].pc = "consume" /\ lock.consume = Free
    /\ lock' = [lock EXCEPT !.consume = w]
    /\ call' = [call EXCEPT ![w].pc = "read"]
    /\ UNCHANGED <<disk, now, scenario, log>>

readUnlocked(w) == call[w].pc = "read"

\* Reading waits for a writer of the file's mutex.
readable(w) == call[w].pc = "read" /\ lock[MutexOf(call[w].op)] = Free

\* readFile and the computation; a file cut short fails the call.
readFile(w) ==
    LET op   == call[w].op
        d    == disk[op.file]
        rows == Apply(op, d.rows)
        ends == d.torn \/ rows = {Refused}
    IN  /\ readable(w)
        /\ call' = IF ends THEN End(w)
                   ELSE [call EXCEPT ![w].pc = "write", ![w].rows = rows, ![w].base = d.rows]
        /\ lock' = IF ends THEN [lock EXCEPT !.consume = Unlocked(w)] ELSE lock
        /\ log' = [log EXCEPT !.tornRead = @ \/ (d.torn /\ log.faults = 0)]
        /\ UNCHANGED <<disk, now, scenario>>

\* writeFile takes the mutex and truncates the file...
Truncate(w) ==
    LET op == call[w].op
    IN  /\ call[w].pc = "write" /\ lock[MutexOf(op)] = Free
        /\ lock' = [lock EXCEPT ![MutexOf(op)] = w]
        /\ disk' = [disk EXCEPT ![op.file] = [rows |-> {}, torn |-> TRUE]]
        /\ call' = [call EXCEPT ![w].pc = "fill"]
        /\ log' = IF disk[op.file].rows # call[w].base
                  THEN [log EXCEPT !.overwritten = @ \cup {<<op.file, Consuming(op)>>}] ELSE log
        /\ UNCHANGED <<now, scenario>>

\* ... then writes it; a revocation goes on to its watermark.
Fill(w) ==
    LET op   == call[w].op
        next == Watermark(op)
        more == next # NoOp
        key  == <<op.file, op.key>>
    IN  /\ call[w].pc = "fill"
        /\ disk' = [disk EXCEPT ![op.file] = [rows |-> call[w].rows, torn |-> FALSE]]
        /\ lock' = [lock EXCEPT ![MutexOf(op)] = Free, !.consume = Unlocked(w)]
        /\ call' = IF more THEN [call EXCEPT ![w] = [Idle EXCEPT !.op = next, !.pc = "read"]] ELSE End(w)
        /\ log' = [log EXCEPT
              !.twice    = IF Consuming(op) /\ key \in log.consumed THEN @ \cup {op.file} ELSE @,
              !.consumed = IF Consuming(op) THEN @ \cup {key} ELSE @,
              !.revoked  = IF op.file = "tokens" /\ op.name # "Create"
                           THEN @ \cup {r.key : r \in {r \in call[w].rows : r.flag}} ELSE @,
              !.cutOff   = IF op.name \in Revoking THEN @ \cup {op.key} ELSE @,
              !.dropped  = IF op.name = "DeleteExpired" THEN @ \cup {op.file} ELSE @]
        /\ UNCHANGED <<now, scenario>>

mutexKept(w) ==
    /\ call[w].pc = "fill" /\ log.faults < MaxFaults
    /\ call' = End(w)
    /\ log' = [log EXCEPT !.faults = @ + 1]
    /\ UNCHANGED <<disk, lock, now, scenario>>

\* The disk is full: the call fails and the file stays cut short.
WriteFails(w) ==
    LET op == call[w].op
    IN  /\ call[w].pc = "fill" /\ log.faults < MaxFaults
        /\ lock' = [lock EXCEPT ![MutexOf(op)] = Free, !.consume = Unlocked(w)]
        /\ call' = End(w)
        /\ log' = [log EXCEPT !.faults = @ + 1]
        /\ UNCHANGED <<disk, now, scenario>>

\* The process dies and starts again: what is on disk stays.
Crash ==
    /\ log.faults < MaxFaults
    /\ lock' = [store |-> Free, keys |-> Free, consume |-> Free]
    /\ call' = [w \in Workers |-> Idle]
    /\ log' = [log EXCEPT !.faults = @ + 1]
    /\ UNCHANGED <<disk, now, scenario>>

Tick ==
    /\ now < MaxTime
    /\ now' = now + 1
    /\ UNCHANGED <<disk, lock, call, scenario, log>>

Step(w) == LockConsume(w) \/ readFile(w) \/ Truncate(w) \/ Fill(w)

Next ==
    \/ \E w \in Workers, op \in scenario.ops : Begin(w, op)
    \/ \E w \in Workers : LockConsume(w)
    \/ \E w \in Workers : readFile(w)
    \/ \E w \in Workers : Truncate(w)
    \/ \E w \in Workers : Fill(w)
    \/ \E w \in Workers : WriteFails(w)
    \/ Crash
    \/ Tick

\* A thread of the server is scheduled; Go's mutexes hand over to a waiter.
Spec == Init /\ [][Next]_vars /\ \A w \in Workers : WF_vars(Step(w))

-----------------------------------------------------------------------------
(* Properties.                                                             *)

Serial(f) == <<f, TRUE>> \notin log.overwritten /\ <<f, FALSE>> \notin log.overwritten

\* TypeOK: files hold rows, a file is cut short only while it is written or
\* after a fault, and the file mutexes are held only by a worker that writes.
TypeOK ==
    /\ \A f \in Files : disk[f].rows \subseteq RowSet
    /\ \A f \in Files : disk[f].torn => log.faults > 0 \/ \E w \in Workers :
                                            call[w].pc = "fill" /\ call[w].op.file = f
    /\ \A w \in Workers : w \in {lock.store, lock.keys} => call[w].pc = "fill"
    /\ \A w \in Workers : call[w] = Idle \/ call[w].op \in OpSet
    /\ now \in Nat

\* ConsumedAtomically: no auth code and no refresh token is ever consumed twice.
\* "MarkUsed consumes the code atomically" (interfaces.go:45), of Rotate "it is
\* refused from now on" (interfaces.go:66), and "consumption is now atomic in
\* both stores" (CHANGELOG.md:42).  The code does not keep it: see the findings.
ConsumedAtomically == log.twice = {}

\* ConsumedOnce: what the code does keep.  A code or a token is consumed twice
\* only if a method that does not take `consume` (Create, DeleteExpired,
\* Revoke...) wrote back the file as it had read it before the first use
\* (file.go:24-26).
ConsumedOnce == \A f \in log.twice : <<f, FALSE>> \in log.overwritten

\* ReadsAreWhole: while no write fails and the process does not die, no call
\* ever finds a file cut short by a write in progress (readFile and writeFile
\* share the mutex; file.go:98).
ReadsAreWhole == ~log.tornRead

\* RevokedStaysRevoked: likewise, a refresh token once rotated or revoked is found
\* usable again only if an overlapping call wrote back older rows of the file
\* (Rotate and Revoke, file.go:609).
RevokedStaysRevoked ==
    Serial("tokens") => \A r \in disk["tokens"].rows : r.key \in log.revoked => r.flag

\* WatermarkFollowsToken: when a revocation is over, the refresh token and the
\* watermark of its access tokens are both on disk; only a fault between the
\* two files, an overlapping write or the watermark's expiry can part them
\* (Revoke, file.go:622).
WatermarkFollowsToken ==
    \A k \in log.cutOff :
        \/ \E r \in disk["revocations"].rows : r.key = k
        \/ log.faults > 0 \/ ~Serial("revocations") \/ "revocations" \in log.dropped
        \/ \E w \in Workers : call[w].op.file = "revocations"

\* CallsEnd: every call returns; no order of the two mutexes, no refusal and
\* no failed write leaves a worker waiting for ever (consume, file.go:26).
CallsEnd == \A w \in Workers : call[w] # Idle ~> call[w] = Idle

=============================================================================
