-------------------------- MODULE FileStoreProofs --------------------------
(***************************************************************************)
(* Proofs about the file store, for any number of threads, calls and       *)
(* faults: no call meets a file in the middle of a write, and the promises *)
(* of the consuming and the revoking methods, up to the overlapping writes *)
(* the properties name.                                                    *)
(*                                                                         *)
(* A write is a whole file computed from a whole file read before.  So the *)
(* invariants say of every call under way how the rows it will write come  *)
(* from the rows it read (Derived), and that a file is still what it was   *)
(* read as, or the write is one of those that `overwritten` records.       *)
(***************************************************************************)
EXTENDS FileStore, TLAPS

Owners == Workers \cup {Free}

CallSet == [op: OpSet, pc: {"consume", "read", "write", "fill"},
            rows: SUBSET RowSet, base: SUBSET RowSet]

LogSet == [calls: Nat, faults: Nat, tornRead: BOOLEAN,
           overwritten: SUBSET (Files \X BOOLEAN), twice: SUBSET Files,
           consumed: SUBSET (Files \X Nat), revoked: SUBSET Nat, cutOff: SUBSET Nat,
           dropped: SUBSET Files, drawn: SUBSET (Files \X Nat)]

Shapes ==
    /\ disk \in [Files -> [rows: SUBSET RowSet, torn: BOOLEAN]]
    /\ lock \in [store: Owners, keys: Owners, consume: Owners]
    /\ call \in [Workers -> CallSet \cup {Idle}]
    /\ \A w \in Workers : call[w] # Idle => IsMethod(call[w].op)
    /\ now \in Nat
    /\ scenario \in Scenarios
    /\ log \in LogSet

\* The mutexes: a file's is held while it is written, and by no other call;
\* `consume` from before the read to after the write of a consuming call.
Mutexes ==
    \A w \in Workers :
        /\ lock.store = w => call[w].pc = "fill" /\ MutexOf(call[w].op) = "store"
        /\ lock.keys = w => call[w].pc = "fill" /\ MutexOf(call[w].op) = "keys"
        /\ call[w].pc = "fill" => lock[MutexOf(call[w].op)] = w
        /\ call[w].pc \in {"read", "write", "fill"} /\ Consuming(call[w].op) => lock.consume = w

\* A file cut short is being written, unless there was a fault.
TornIsWritten ==
    \A f \in Files : disk[f].torn =>
        log.faults > 0 \/ \E w \in Workers : call[w].pc = "fill" /\ call[w].op.file = f

StoreInv == Shapes /\ Mutexes /\ TornIsWritten /\ ReadsAreWhole

-----------------------------------------------------------------------------
(* What the methods compute.                                               *)

\* The row a method stores, and the mark of a refusal, are rows.
LEMMA RowTypes == /\ \A op \in OpSet : RowOf(op) \in RowSet
                  /\ Refused \in RowSet
                  /\ \A r \in RowSet, b \in BOOLEAN : [r EXCEPT !.flag = b] \in RowSet
BY DEF OpSet, RowOf, RowSet, Refused

\* The helpers of the repositories return rows.
LEMMA HelperTypes ==
  ASSUME NEW op \in OpSet, NEW d \in SUBSET RowSet
  PROVE  /\ Insert(d, op) \subseteq RowSet
         /\ Replace(d, op) \subseteq RowSet
         /\ Remove(d, op) \subseteq RowSet
         /\ RemoveUser(d, op) \subseteq RowSet
         /\ RemoveExpired(d) \subseteq RowSet
         /\ SetFlag(d, op) \subseteq RowSet
         /\ Consume(d, op) \subseteq RowSet
<1>1. SetFlag(d, op) \subseteq RowSet
  BY RowTypes DEF SetFlag
<1> QED BY <1>1, RowTypes DEF Insert, Replace, Remove, RemoveUser, RemoveExpired, Consume

\* Every changing method of every repository computes rows from rows.
LEMMA ApplyType ==
  ASSUME NEW op \in OpSet, IsMethod(op), NEW d \in SUBSET RowSet
  PROVE  Apply(op, d) \subseteq RowSet
<1>0. CASE op.name = "Get"
  BY <1>0, RowTypes DEF Apply
<1> SUFFICES ASSUME op.name # "Get" PROVE Apply(op, d) \subseteq RowSet
  BY <1>0
<1> op.name \in Methods[op.file]
  BY DEF IsMethod
<1>1. CASE op.file = "users"
  <2>1. op.name \in {"Create", "Update", "Delete"}
    BY <1>1 DEF Methods
  <2> QED BY <1>1, <2>1, HelperTypes, RowTypes DEF Apply, usersOp
<1>2. CASE op.file = "clients"
  <2>1. op.name \in {"Create", "Update", "Delete"}
    BY <1>2 DEF Methods
  <2> QED BY <1>2, <2>1, HelperTypes DEF Apply, clientsOp
<1>3. CASE op.file = "sessions"
  <2>1. op.name \in {"Create", "Delete", "DeleteByUserID", "DeleteExpired"}
    BY <1>3 DEF Methods
  <2> QED BY <1>3, <2>1, HelperTypes, RowTypes DEF Apply, sessionsOp
<1>4. CASE op.file = "auth_codes"
  <2>1. op.name \in {"Create", "MarkUsed", "Delete", "DeleteExpired"}
    BY <1>4 DEF Methods
  <2> QED BY <1>4, <2>1, HelperTypes, RowTypes DEF Apply, authCodesOp
<1>5. CASE op.file = "tokens"
  <2>1. op.name \in {"Create", "Revoke", "Rotate", "RevokeByUserID", "RevokeByClientID", "DeleteExpired"}
    BY <1>5 DEF Methods
  <2> QED BY <1>5, <2>1, HelperTypes, RowTypes DEF Apply, tokensOp
<1>6. CASE op.file = "revocations"
  <2>1. op.name \in {"upsert", "DeleteExpired"}
    BY <1>6 DEF Methods
  <2> QED BY <1>6, <2>1, RowTypes DEF Apply, revocationsOp
<1>7. CASE op.file = "consents"
  <2>1. op.name \in {"Upsert", "Delete", "DeleteByUserID"}
    BY <1>7 DEF Methods
  <2> QED BY <1>7, <2>1, HelperTypes, RowTypes DEF Apply, consentsOp
<1>8. CASE op.file = "verification_tokens"
  <2>1. op.name \in {"Create", "MarkUsed", "DeleteByUserID", "DeleteExpired"}
    BY <1>8 DEF Methods
  <2> QED BY <1>8, <2>1, HelperTypes DEF Apply, verificationTokensOp
<1>9. CASE op.file = "passkeys"
  <2>1. op.name \in {"Create", "Update", "Delete", "DeleteByUserID"}
    BY <1>9 DEF Methods
  <2> QED BY <1>9, <2>1, HelperTypes DEF Apply, passkeysOp
<1>10. CASE op.file = "groups" /\ op.user = 0
  <2>1. op.name \in {"Create", "Update", "Delete"}
    BY <1>10 DEF Methods, IsMethod
  <2> QED BY <1>10, <2>1, RowTypes DEF Apply, groupsOp, Group
<1>11. CASE op.file = "groups" /\ op.user # 0
  <2>1. op.user > 0 /\ op.name \in {"AddMember", "RemoveMember", "RemoveUser"}
    BY <1>11 DEF Methods, IsMethod, OpSet
  <2> QED BY <1>11, <2>1, HelperTypes, RowTypes DEF Apply, membersOp, Group
<1>12. CASE op.file = "audit_events"
  <2>1. op.name \in {"Append", "DeleteBefore"}
    BY <1>12 DEF Methods
  <2> QED BY <1>12, <2>1, RowTypes DEF Apply, auditOp
<1>13. CASE op.file = "signing_keys"
  <2>1. op.name \in {"Save", "SetActive", "Delete"}
    BY <1>13 DEF Methods
  <2>2. \A r \in RowSet : [r EXCEPT !.at = op.at] \in RowSet
    BY DEF RowSet, OpSet
  <2>3. Apply(op, d) = keysOp(op, d)
    BY <1>13 DEF Apply
  <2>4. CASE op.name = "Save"
    BY <2>2, <2>3, <2>4, RowTypes DEF keysOp
  <2>5. CASE op.name = "SetActive"
    <3>1. \A r \in RowSet : [r EXCEPT !.flag = (r.key = op.key)] \in RowSet
      BY DEF RowSet
    <3>2. keysOp(op, d) = IF Has(d, op) THEN {[r EXCEPT !.flag = (r.key = op.key)] : r \in d} ELSE {Refused}
      BY <2>5 DEF keysOp
    <3>3. {[r EXCEPT !.flag = (r.key = op.key)] : r \in d} \subseteq RowSet
      <4> SUFFICES ASSUME NEW r \in d PROVE [r EXCEPT !.flag = (r.key = op.key)] \in RowSet
        OBVIOUS
      <4> QED BY <3>1
    <3>4. {Refused} \subseteq RowSet
      BY RowTypes
    <3> HIDE DEF keysOp
    <3> QED BY <2>3, <3>2, <3>3, <3>4
  <2>6. CASE op.name = "Delete"
    BY <2>3, <2>6, HelperTypes DEF keysOp
  <2> QED BY <2>1, <2>4, <2>5, <2>6
<1> QED BY <1>1, <1>2, <1>3, <1>4, <1>5, <1>6, <1>7, <1>8, <1>9, <1>10, <1>11, <1>12, <1>13
        DEF OpSet, Files

-----------------------------------------------------------------------------
(* Shapes: what every variable holds.                                      *)

\* A call under way has an operation, which is a method, and sets of rows.
LEMMA CallType ==
  ASSUME Shapes, NEW w \in Workers, call[w].pc # "idle"
  PROVE  call[w] \in CallSet /\ call[w].op \in OpSet /\ IsMethod(call[w].op) /\ call[w].op.file \in Files
BY DEF Shapes, Idle, CallSet, OpSet

\* The watermark that follows a revocation is a call of the revocations file.
LEMMA WatermarkType ==
  ASSUME Shapes, NEW op \in OpSet, Watermark(op) # NoOp
  PROVE  /\ op.name \in Revoking
         /\ Watermark(op) \in OpSet
         /\ IsMethod(Watermark(op))
         /\ Watermark(op).file = "revocations" /\ Watermark(op).name = "upsert"
         /\ Watermark(op).key = op.key
<1> DEFINE kind == CASE op.name = "Revoke" -> 1 [] op.name = "RevokeByUserID" -> 2
                     [] op.name = "RevokeByClientID" -> 3 [] OTHER -> 0
<1>1. kind \in 0..3 /\ (kind # 0 => op.name \in Revoking)
  BY DEF Revoking
<1>2. Watermark(op) = IF kind = 0 THEN NoOp
                      ELSE [file |-> "revocations", name |-> "upsert", key |-> op.key, user |-> kind, tag |-> 0, at |-> now]
  BY DEF Watermark
<1> HIDE DEF kind
<1>3. kind # 0
  BY <1>2
<1>4. Watermark(op) = [file |-> "revocations", name |-> "upsert", key |-> op.key, user |-> kind, tag |-> 0, at |-> now]
  BY <1>2, <1>3
<1>5. Watermark(op) \in OpSet
  <2>1. now \in Nat /\ kind \in Nat /\ op.key \in Nat
    BY <1>1 DEF Shapes, OpSet
  <2>2. "upsert" \in Methods["revocations"] /\ "revocations" \in Files
    BY DEF Files, Methods
  <2> QED BY <1>4, <2>1, <2>2 DEF OpSet
<1>6. /\ Watermark(op).file = "revocations" /\ Watermark(op).name = "upsert"
      /\ Watermark(op).key = op.key /\ Watermark(op).user > 0
  BY <1>1, <1>3, <1>4
<1>7. "upsert" \in Methods["revocations"]
  BY DEF Methods
<1> QED BY <1>1, <1>3, <1>5, <1>6, <1>7 DEF IsMethod

\* A call that ends leaves well-typed calls.
LEMMA EndType ==
  ASSUME Shapes, NEW w \in Workers, call' = End(w)
  PROVE  call' \in [Workers -> CallSet \cup {Idle}] /\ \A v \in Workers : call'[v] # Idle => IsMethod(call'[v].op)
BY DEF Shapes, End

\* So does one that goes on with a method.
LEMMA GoOnType ==
  ASSUME Shapes, NEW w \in Workers, NEW c \in CallSet, IsMethod(c.op), call' = [call EXCEPT ![w] = c]
  PROVE  call' \in [Workers -> CallSet \cup {Idle}] /\ \A v \in Workers : call'[v] # Idle => IsMethod(call'[v].op)
BY DEF Shapes

\* Every variable starts with its shape.
LEMMA InitShapes == Init => Shapes
<1> SUFFICES ASSUME Init PROVE Shapes
  OBVIOUS
<1> PICK s \in Scenarios :
        /\ scenario = s
        /\ disk = [f \in Files |-> [rows |-> s.rows[f], torn |-> FALSE]]
        /\ log = [calls |-> 0, faults |-> 0, tornRead |-> FALSE, overwritten |-> {}, twice |-> {},
                  consumed |-> {}, revoked |-> {}, cutOff |-> {}, dropped |-> {},
                  drawn |-> UNION {{<<f, r.key>> : r \in s.rows[f]} : f \in Random}]
  BY DEF Init
<1>1. s.rows \in [Files -> SUBSET RowSet]
  BY ScenariosAssumption
<1>2. UNION {{<<f, r.key>> : r \in s.rows[f]} : f \in Random} \subseteq Files \X Nat
  BY <1>1 DEF Random, Files, RowSet
<1>3. log \in LogSet
  BY <1>2 DEF LogSet
<1>4. disk \in [Files -> [rows: SUBSET RowSet, torn: BOOLEAN]]
  BY <1>1
<1> QED BY <1>3, <1>4 DEF Init, Shapes, Owners, Idle

\* Every step keeps the shapes.
LEMMA NextShapes == Shapes /\ [Next]_vars => Shapes'
<1> SUFFICES ASSUME Shapes, [Next]_vars PROVE Shapes'
  OBVIOUS
<1> USE FileStoreAssumption
<1>1. ASSUME NEW w \in Workers, NEW op \in scenario.ops, Begin(w, op) PROVE Shapes'
  <2>1. op \in OpSet /\ IsMethod(op)
    BY ScenariosAssumption DEF Shapes
  <2> DEFINE c == [Idle EXCEPT !.op = op, !.pc = IF Consuming(op) THEN "consume" ELSE "read"]
  <2>2. c \in CallSet /\ c.op = op
    BY <2>1 DEF Idle, CallSet
  <2>3. call' = [call EXCEPT ![w] = c]
    BY <1>1 DEF Begin
  <2> HIDE DEF c
  <2>4. <<op.file, op.key>> \in Files \X Nat
    BY <2>1 DEF OpSet
  <2>5. log' \in LogSet
    <3> DEFINE k == IF Draws(op) THEN log.drawn \cup {<<op.file, op.key>>} ELSE log.drawn
    <3>1. log' = [log EXCEPT !.calls = log.calls + 1, !.drawn = k]
      BY <1>1 DEF Begin
    <3>2. k \in SUBSET (Files \X Nat) /\ log.calls + 1 \in Nat
      BY <2>4 DEF Shapes, LogSet
    <3> HIDE DEF k
    <3> QED BY <3>1, <3>2 DEF Shapes, LogSet
  <2> QED BY <1>1, <2>1, <2>2, <2>3, <2>5, GoOnType DEF Begin, Shapes
<1>2. ASSUME NEW w \in Workers, LockConsume(w) PROVE Shapes'
  <2>1. call[w] \in CallSet /\ IsMethod(call[w].op)
    BY <1>2, CallType DEF LockConsume
  <2> DEFINE c == [call[w] EXCEPT !.pc = "read"]
  <2>2. c \in CallSet /\ c.op = call[w].op
    BY <2>1 DEF CallSet
  <2>3. call' = [call EXCEPT ![w] = c]
    BY <1>2 DEF LockConsume, Shapes
  <2> HIDE DEF c
  <2>4. lock' \in [store: Owners, keys: Owners, consume: Owners]
    BY <1>2 DEF LockConsume, Shapes, Owners
  <2> QED BY <1>2, <2>1, <2>2, <2>3, <2>4, GoOnType DEF LockConsume, Shapes
<1>3. ASSUME NEW w \in Workers, readFile(w) PROVE Shapes'
  <2> DEFINE op   == call[w].op
             d    == disk[op.file]
             rows == Apply(op, d.rows)
             ends == d.torn \/ rows = {Refused}
             c    == [call[w] EXCEPT !.pc = "write", !.rows = rows, !.base = d.rows]
  <2>1. call[w] \in CallSet /\ op \in OpSet /\ IsMethod(op) /\ op.file \in Files
    BY <1>3, CallType DEF readFile, readable
  <2>2. d.rows \in SUBSET RowSet
    BY <2>1 DEF Shapes
  <2>3. rows \in SUBSET RowSet
    BY <2>1, <2>2, ApplyType
  <2>4. c \in CallSet /\ c.op = op
    <3> HIDE DEF rows
    <3> QED BY <2>1, <2>2, <2>3 DEF CallSet
  <2>5. /\ call' = IF ends THEN End(w) ELSE [call EXCEPT ![w] = c]
        /\ lock' = IF ends THEN [lock EXCEPT !.consume = Unlocked(w)] ELSE lock
        /\ log' = [log EXCEPT !.tornRead = @ \/ (d.torn /\ log.faults = 0)]
        /\ UNCHANGED <<disk, now, scenario>>
    BY <1>3 DEF readFile, Shapes
  <2>6. Unlocked(w) \in Owners
    BY DEF Unlocked, Shapes, Owners
  <2>7. log' \in LogSet
    BY <2>5 DEF Shapes, LogSet
  <2>8. lock' \in [store: Owners, keys: Owners, consume: Owners]
    <3> HIDE DEF ends
    <3> QED BY <2>5, <2>6 DEF Shapes
  <2> HIDE DEF op, c, ends
  <2> QED BY <2>1, <2>4, <2>5, <2>7, <2>8, GoOnType, EndType DEF Shapes
<1>4. ASSUME NEW w \in Workers, Truncate(w) PROVE Shapes'
  <2> DEFINE op == call[w].op
             c  == [call[w] EXCEPT !.pc = "fill"]
  <2>1. call[w] \in CallSet /\ op \in OpSet /\ IsMethod(op) /\ op.file \in Files
    BY <1>4, CallType DEF Truncate
  <2>2. c \in CallSet /\ c.op = op /\ call' = [call EXCEPT ![w] = c]
    BY <1>4, <2>1 DEF CallSet, Truncate, Shapes
  <2>3. lock' \in [store: Owners, keys: Owners, consume: Owners]
    BY <1>4 DEF Truncate, Shapes, Owners, MutexOf
  <2>4. disk' \in [Files -> [rows: SUBSET RowSet, torn: BOOLEAN]]
    BY <1>4, <2>1 DEF Truncate, Shapes
  <2>5. <<op.file, Consuming(op)>> \in Files \X BOOLEAN
    BY <2>1 DEF Consuming
  <2>6. log' \in LogSet
    BY <1>4, <2>5 DEF Truncate, Shapes, LogSet
  <2> HIDE DEF op, c
  <2> QED BY <1>4, <2>1, <2>2, <2>3, <2>4, <2>6, GoOnType DEF Truncate, Shapes
<1>5. ASSUME NEW w \in Workers, Fill(w) PROVE Shapes'
  <2> DEFINE op == call[w].op
             c  == [Idle EXCEPT !.op = Watermark(op), !.pc = "read"]
  <2>1. call[w] \in CallSet /\ op \in OpSet /\ IsMethod(op) /\ op.file \in Files
    BY <1>5, CallType DEF Fill
  <2>2. Watermark(op) # NoOp => c \in CallSet /\ IsMethod(c.op)
    BY <2>1, WatermarkType DEF CallSet, Idle
  <2>3. call' = IF Watermark(op) # NoOp THEN [call EXCEPT ![w] = c] ELSE End(w)
    BY <1>5 DEF Fill
  <2>4. call' \in [Workers -> CallSet \cup {Idle}] /\ \A v \in Workers : call'[v] # Idle => IsMethod(call'[v].op)
    <3> HIDE DEF op, c
    <3> QED BY <2>2, <2>3, GoOnType, EndType
  <2>5. lock' \in [store: Owners, keys: Owners, consume: Owners]
    BY <1>5 DEF Fill, Shapes, Owners, MutexOf, Unlocked
  <2>6. disk' \in [Files -> [rows: SUBSET RowSet, torn: BOOLEAN]]
    BY <1>5, <2>1 DEF Fill, Shapes, CallSet
  <2>7. /\ op.key \in Nat /\ <<op.file, op.key>> \in Files \X Nat
        /\ {r.key : r \in {r \in call[w].rows : r.flag}} \in SUBSET Nat
    BY <2>1 DEF OpSet, CallSet, RowSet
  <2>8. log' \in LogSet
    <3>1. PICK t \in SUBSET Files, k \in SUBSET (Files \X Nat), v \in SUBSET Nat, x \in SUBSET Nat, y \in SUBSET Files :
            log' = [log EXCEPT !.twice = t, !.consumed = k, !.revoked = v, !.cutOff = x, !.dropped = y]
      <4>1. log.twice \in SUBSET Files /\ log.consumed \in SUBSET (Files \X Nat) /\ log.revoked \in SUBSET Nat
            /\ log.cutOff \in SUBSET Nat /\ log.dropped \in SUBSET Files
        BY DEF Shapes, LogSet
      <4> DEFINE t == IF Consuming(op) /\ <<op.file, op.key>> \in log.consumed THEN log.twice \cup {op.file} ELSE log.twice
                 k == IF Consuming(op) THEN log.consumed \cup {<<op.file, op.key>>} ELSE log.consumed
                 v == IF op.file = "tokens" /\ op.name # "Create"
                      THEN log.revoked \cup {r.key : r \in {r \in call[w].rows : r.flag}} ELSE log.revoked
                 x == IF op.name \in Revoking THEN log.cutOff \cup {op.key} ELSE log.cutOff
                 y == IF op.name = "DeleteExpired" THEN log.dropped \cup {op.file} ELSE log.dropped
      <4>2. t \in SUBSET Files /\ k \in SUBSET (Files \X Nat) /\ x \in SUBSET Nat /\ y \in SUBSET Files
        BY <2>1, <2>7, <4>1
      <4>3. v \in SUBSET Nat
        BY <2>7, <4>1
      <4>4. log' = [log EXCEPT !.twice = t, !.consumed = k, !.revoked = v, !.cutOff = x, !.dropped = y]
        BY <1>5 DEF Fill, Shapes, LogSet
      <4> HIDE DEF t, k, v, x, y
      <4> QED BY <4>2, <4>3, <4>4
    <3> QED BY <3>1 DEF Shapes, LogSet
  <2> QED BY <1>5, <2>4, <2>5, <2>6, <2>8 DEF Fill, Shapes
<1>6. ASSUME NEW w \in Workers, WriteFails(w) PROVE Shapes'
  <2>1. lock' \in [store: Owners, keys: Owners, consume: Owners]
    BY <1>6 DEF WriteFails, Shapes, Owners, MutexOf, Unlocked
  <2>2. log' = [log EXCEPT !.faults = log.faults + 1]
    BY <1>6 DEF WriteFails
  <2>3. log' \in LogSet
    BY <2>2 DEF Shapes, LogSet
  <2> QED BY <1>6, <2>1, <2>3, EndType DEF WriteFails, Shapes
<1>7. ASSUME Crash PROVE Shapes'
  <2>1. log' \in LogSet
    BY <1>7 DEF Crash, Shapes, LogSet
  <2> QED BY <1>7, <2>1 DEF Crash, Shapes, Owners
<1>8. ASSUME Tick PROVE Shapes'
  BY <1>8 DEF Tick, Shapes
<1>9. ASSUME UNCHANGED vars PROVE Shapes'
  BY <1>9 DEF vars, Shapes
<1> QED BY <1>1, <1>2, <1>3, <1>4, <1>5, <1>6, <1>7, <1>8, <1>9 DEF Next

-----------------------------------------------------------------------------
(* The mutexes, and whole files.                                           *)

\* A file has one of two mutexes.
LEMMA TwoMutexes == \A op : MutexOf(op) = "store" \/ MutexOf(op) = "keys"
BY DEF MutexOf

\* Only the holder writes: no two calls fill a file of the same mutex.
LEMMA OneFills ==
  ASSUME Shapes, Mutexes, NEW v \in Workers, NEW w \in Workers,
         call[v].pc = "fill", call[w].pc = "fill", MutexOf(call[v].op) = MutexOf(call[w].op)
  PROVE  v = w
BY DEF Mutexes

\* While a mutex is free no call fills a file of it.
LEMMA NobodyFills ==
  ASSUME Shapes, Mutexes, NEW op, lock[MutexOf(op)] = Free, NEW v \in Workers, call[v].pc = "fill"
  PROVE  MutexOf(call[v].op) # MutexOf(op) /\ call[v].op.file # op.file
BY FileStoreAssumption DEF Mutexes, Free, MutexOf

\* Every step keeps the mutexes with their holders.
LEMMA NextMutexes == Shapes /\ Mutexes /\ [Next]_vars => Mutexes'
<1> SUFFICES ASSUME Shapes, Mutexes, [Next]_vars PROVE Mutexes'
  OBVIOUS
<1> USE FileStoreAssumption
<1>0. call \in [Workers -> CallSet \cup {Idle}] /\ lock \in [store: Owners, keys: Owners, consume: Owners]
  BY DEF Shapes
<1>1. ASSUME NEW w \in Workers, NEW op \in scenario.ops, Begin(w, op) PROVE Mutexes'
  <2>1. /\ call'[w].op = op /\ call'[w].pc \in {"consume", "read"}
        /\ call'[w].pc = "read" => ~Consuming(op)
        /\ \A v \in Workers \ {w} : call'[v] = call[v]
    BY <1>0, <1>1 DEF Begin, Idle
  <2>2. lock.store # w /\ lock.keys # w
    BY <1>1 DEF Mutexes, Begin, Idle
  <2> QED BY <1>1, <2>1, <2>2 DEF Begin, Mutexes
<1>2. ASSUME NEW w \in Workers, LockConsume(w) PROVE Mutexes'
  <2>1. /\ call'[w].op = call[w].op /\ call'[w].pc = "read"
        /\ \A v \in Workers \ {w} : call'[v] = call[v]
    BY <1>0, <1>2, CallType DEF LockConsume, CallSet
  <2>2. lock'.store = lock.store /\ lock'.keys = lock.keys /\ lock'.consume = w
    BY <1>0, <1>2 DEF LockConsume
  <2>3. \A v \in Workers : MutexOf(call'[v].op) = MutexOf(call[v].op) /\ lock'[MutexOf(call[v].op)] = lock[MutexOf(call[v].op)]
    BY <2>1, <2>2, TwoMutexes
  <2>4. \A v \in Workers \ {w} : call[v].pc \in {"read", "write", "fill"} => ~Consuming(call[v].op)
    BY <1>2 DEF LockConsume, Mutexes, Free
  <2>5. lock.store # w /\ lock.keys # w
    BY <1>2 DEF Mutexes, LockConsume
  <2> QED BY <2>1, <2>2, <2>3, <2>4, <2>5 DEF Mutexes
<1>3. ASSUME NEW w \in Workers, readFile(w) PROVE Mutexes'
  <2>1. call[w].pc = "read" /\ call[w] \in CallSet
    BY <1>3, CallType DEF readFile, readable
  <2>2. lock.store # w /\ lock.keys # w
    BY <2>1 DEF Mutexes
  <2>3. CASE call' = End(w) /\ lock' = [lock EXCEPT !.consume = Unlocked(w)]
    <3>1. call'[w] = Idle /\ \A v \in Workers \ {w} : call'[v] = call[v]
      BY <1>0, <2>3 DEF End
    <3>2. lock'.store = lock.store /\ lock'.keys = lock.keys /\ lock'.consume = Unlocked(w)
      BY <1>0, <2>3
    <3>3. \A v \in Workers : lock'[MutexOf(call[v].op)] = lock[MutexOf(call[v].op)]
      BY <3>2, TwoMutexes
    <3> QED BY <2>2, <3>1, <3>2, <3>3 DEF Mutexes, Idle, Unlocked
  <2>4. CASE /\ \E rows, base : call' = [call EXCEPT ![w].pc = "write", ![w].rows = rows, ![w].base = base]
             /\ lock' = lock
    <3>1. call'[w].pc = "write" /\ call'[w].op = call[w].op /\ \A v \in Workers \ {w} : call'[v] = call[v]
      BY <1>0, <2>1, <2>4 DEF CallSet
    <3>2. \A v \in Workers : call'[v].op = call[v].op /\ MutexOf(call'[v].op) = MutexOf(call[v].op)
      BY <3>1
    <3>3. Consuming(call[w].op) => lock.consume = w
      BY <2>1 DEF Mutexes
    <3>4. lock' = lock
      BY <2>4
    <3>5. \A v \in Workers : call'[v].pc = "fill" => call[v].pc = "fill"
      BY <3>1
    <3>6. \A v \in Workers : v # w => call'[v].pc = call[v].pc
      BY <3>1
    <3>7. call'[w].pc = "write"
      BY <3>1
    <3> HIDE <2>4
    <3> QED BY <2>2, <3>2, <3>3, <3>4, <3>5, <3>6, <3>7 DEF Mutexes
  <2> QED BY <1>3, <2>3, <2>4 DEF readFile
<1>4. ASSUME NEW w \in Workers, Truncate(w) PROVE Mutexes'
  <2> DEFINE m == MutexOf(call[w].op)
  <2>1. /\ call'[w].pc = "fill" /\ call'[w].op = call[w].op
        /\ \A v \in Workers \ {w} : call'[v] = call[v]
    BY <1>0, <1>4, CallType DEF Truncate, CallSet
  <2>2. /\ m \in {"store", "keys"} /\ lock[m] = Free /\ lock' = [lock EXCEPT ![m] = w]
    BY <1>4, TwoMutexes DEF Truncate
  <2>3. /\ lock'[m] = w /\ lock'.consume = lock.consume
        /\ \A n \in {"store", "keys"} \ {m} : lock'[n] = lock[n]
    BY <1>0, <2>2
  <2>4. \A v \in Workers \ {w} : call[v].pc = "fill" => MutexOf(call[v].op) \in {"store", "keys"} \ {m}
    BY <1>4, <2>2, NobodyFills, TwoMutexes
  <2>5. \A n \in {"store", "keys"} : lock[n] # w
    BY <1>4 DEF Mutexes, Truncate
  <2>6. \A v \in Workers : v # Free
    BY DEF Free
  <2> QED BY <1>4, <2>1, <2>2, <2>3, <2>4, <2>5, <2>6 DEF Mutexes, Truncate
<1>5. ASSUME NEW w \in Workers, Fill(w) \/ WriteFails(w) PROVE Mutexes'
  <2> DEFINE m == MutexOf(call[w].op)
  <2>1. \A v \in Workers \ {w} : call'[v] = call[v]
    BY <1>0, <1>5 DEF Fill, WriteFails, End
  <2>2. call[w].pc = "fill" /\ lock[m] = w /\ m \in {"store", "keys"}
    BY <1>5, TwoMutexes DEF Fill, WriteFails, Mutexes
  <2>3. lock' = [lock EXCEPT ![m] = Free, !.consume = Unlocked(w)]
    BY <1>5 DEF Fill, WriteFails
  <2>4. /\ lock'[m] = Free /\ lock'.consume = Unlocked(w)
        /\ \A n \in {"store", "keys"} \ {m} : lock'[n] = lock[n]
    BY <1>0, <2>2, <2>3
  <2>5. call'[w] = Idle \/ (call'[w].pc = "read" /\ ~Consuming(call'[w].op))
    <3>1. CASE call' = End(w)
      BY <1>0, <3>1 DEF End
    <3>2. CASE Watermark(call[w].op) # NoOp /\ call' = [call EXCEPT ![w] = [Idle EXCEPT !.op = Watermark(call[w].op), !.pc = "read"]]
      <4>1. Watermark(call[w].op).name = "upsert"
        BY <2>2, <3>2, CallType, WatermarkType
      <4> QED BY <1>0, <3>2, <4>1 DEF Idle, Consuming
    <3> QED BY <1>5, <3>1, <3>2 DEF Fill, WriteFails
  <2>6. \A v \in Workers \ {w} : call[v].pc = "fill" => MutexOf(call[v].op) \in {"store", "keys"} \ {m}
    BY <2>2, TwoMutexes DEF Mutexes
  <2>7. \A n \in {"store", "keys"} \ {m} : lock[n] # w
    BY <2>2 DEF Mutexes
  <2>8. \A v \in Workers : v # Free
    BY DEF Free
  <2> QED BY <2>1, <2>2, <2>4, <2>5, <2>6, <2>7, <2>8 DEF Mutexes, Idle, Unlocked
<1>6. ASSUME Crash PROVE Mutexes'
  BY <1>6 DEF Crash, Mutexes, Idle, Free
<1>7. CASE UNCHANGED <<lock, call>>
  BY <1>7 DEF Mutexes
<1> QED BY <1>1, <1>2, <1>3, <1>4, <1>5, <1>6, <1>7 DEF Next, Tick, vars

\* No call meets a file in the middle of a write: whoever writes it holds the
\* mutex the reader waits for (readFile and writeFile, file.go:98).
LEMMA NextWhole == StoreInv /\ [Next]_vars => TornIsWritten' /\ ReadsAreWhole'
<1> SUFFICES ASSUME StoreInv, [Next]_vars PROVE TornIsWritten' /\ ReadsAreWhole'
  OBVIOUS
<1>0. Shapes /\ Mutexes /\ TornIsWritten /\ ReadsAreWhole
  BY DEF StoreInv
<1>1. /\ call \in [Workers -> CallSet \cup {Idle}] /\ log \in LogSet
      /\ disk \in [Files -> [rows: SUBSET RowSet, torn: BOOLEAN]] /\ log.faults \in Nat
  BY <1>0 DEF Shapes, LogSet
<1>2. ASSUME NEW w \in Workers, NEW op \in scenario.ops, Begin(w, op) PROVE TornIsWritten' /\ ReadsAreWhole'
  <2>1. /\ UNCHANGED disk /\ \A v \in Workers : call[v].pc = "fill" => call'[v] = call[v]
        /\ log'.faults = log.faults /\ log'.tornRead = log.tornRead
    BY <1>1, <1>2 DEF Begin, Idle, LogSet
  <2> QED BY <1>0, <2>1 DEF TornIsWritten, ReadsAreWhole
<1>3. ASSUME NEW w \in Workers, LockConsume(w) PROVE TornIsWritten' /\ ReadsAreWhole'
  <2>1. /\ UNCHANGED <<disk, log>> /\ \A v \in Workers : call[v].pc = "fill" => call'[v] = call[v]
    BY <1>1, <1>3 DEF LockConsume
  <2> QED BY <1>0, <2>1 DEF TornIsWritten, ReadsAreWhole
<1>4. ASSUME NEW w \in Workers, readFile(w) PROVE TornIsWritten' /\ ReadsAreWhole'
  <2>1. /\ UNCHANGED disk /\ \A v \in Workers : call[v].pc = "fill" => call'[v] = call[v]
    BY <1>1, <1>4 DEF readFile, readable, End
  <2>2. call[w].op.file \in Files /\ call[w].pc = "read" /\ lock[MutexOf(call[w].op)] = Free
    BY <1>0, <1>4, CallType DEF readFile, readable
  <2>3. log' = [log EXCEPT !.tornRead = @ \/ (disk[call[w].op.file].torn /\ log.faults = 0)]
    BY <1>4 DEF readFile
  <2>4. ~(disk[call[w].op.file].torn /\ log.faults = 0)
    BY <1>0, <1>1, <2>2, NobodyFills DEF TornIsWritten
  <2>5. log'.faults = log.faults /\ log'.tornRead = log.tornRead
    BY <1>1, <2>3, <2>4 DEF LogSet
  <2> QED BY <1>0, <2>1, <2>5 DEF TornIsWritten, ReadsAreWhole
<1>5. ASSUME NEW w \in Workers, Truncate(w) PROVE TornIsWritten' /\ ReadsAreWhole'
  <2>1. /\ call'[w].pc = "fill" /\ call'[w].op = call[w].op
        /\ \A v \in Workers \ {w} : call'[v] = call[v]
        /\ call[w].pc = "write" /\ call[w].op.file \in Files
    BY <1>0, <1>1, <1>5, CallType DEF Truncate, CallSet
  <2>2. \A f \in Files \ {call[w].op.file} : disk'[f] = disk[f]
    BY <1>1, <1>5 DEF Truncate
  <2>3. log'.faults = log.faults /\ log'.tornRead = log.tornRead
    BY <1>1, <1>5 DEF Truncate, LogSet
  <2> QED BY <1>0, <2>1, <2>2, <2>3 DEF TornIsWritten, ReadsAreWhole
<1>6. ASSUME NEW w \in Workers, Fill(w) PROVE TornIsWritten' /\ ReadsAreWhole'
  <2>1. /\ call[w].pc = "fill" /\ call[w].op.file \in Files
        /\ \A v \in Workers \ {w} : call'[v] = call[v]
    BY <1>0, <1>1, <1>6, CallType DEF Fill, End
  <2>2. disk' = [disk EXCEPT ![call[w].op.file] = [rows |-> call[w].rows, torn |-> FALSE]]
    BY <1>6 DEF Fill
  <2>3. ~disk'[call[w].op.file].torn /\ \A f \in Files \ {call[w].op.file} : disk'[f] = disk[f]
    BY <1>1, <2>1, <2>2
  <2>4. log'.faults = log.faults /\ log'.tornRead = log.tornRead
    BY <1>1, <1>6 DEF Fill, LogSet
  <2> QED BY <1>0, <2>1, <2>3, <2>4 DEF TornIsWritten, ReadsAreWhole
<1>7. ASSUME (\E w \in Workers : WriteFails(w)) \/ Crash PROVE TornIsWritten' /\ ReadsAreWhole'
  <2>1. log' = [log EXCEPT !.faults = @ + 1]
    BY <1>7 DEF WriteFails, Crash
  <2>2. log'.faults > 0 /\ log'.tornRead = log.tornRead
    BY <1>1, <2>1 DEF LogSet
  <2> QED BY <1>0, <2>2 DEF TornIsWritten, ReadsAreWhole
<1>8. CASE UNCHANGED <<disk, call, log>>
  BY <1>0, <1>8 DEF TornIsWritten, ReadsAreWhole
<1> QED BY <1>2, <1>3, <1>4, <1>5, <1>6, <1>7, <1>8 DEF Next, Tick, vars

\* The shapes, the mutexes and the whole files are an inductive invariant.
THEOREM StoreInvariant == Spec => []StoreInv
<1>1. Init => StoreInv
  <2>1. Init => Mutexes /\ TornIsWritten /\ ReadsAreWhole
    BY FileStoreAssumption DEF Init, Mutexes, TornIsWritten, ReadsAreWhole, Idle, Free
  <2> QED BY <2>1, InitShapes DEF StoreInv
<1>2. StoreInv /\ [Next]_vars => StoreInv'
  BY NextShapes, NextMutexes, NextWhole DEF StoreInv
<1> QED BY <1>1, <1>2, PTL DEF Spec

\* Rows, calls and mutexes keep their shape whatever the interleaving, the
\* failed writes and the crashes.
THEOREM TypeCorrect == Spec => []TypeOK
<1>1. StoreInv => TypeOK
  <2> SUFFICES ASSUME StoreInv PROVE TypeOK
    OBVIOUS
  <2>1. \A f \in Files : disk[f].rows \subseteq RowSet
    BY DEF StoreInv, Shapes
  <2>2. \A w \in Workers : w \in {lock.store, lock.keys} => call[w].pc = "fill"
    BY DEF StoreInv, Mutexes
  <2>3. \A w \in Workers : call[w] = Idle \/ call[w].op \in OpSet
    BY DEF StoreInv, Shapes, CallSet
  <2> QED BY <2>1, <2>2, <2>3 DEF StoreInv, Shapes, TornIsWritten, TypeOK
<1> QED BY <1>1, StoreInvariant, PTL

\* While no write fails and the process lives, no call finds a file cut short.
THEOREM WholeReads == Spec => []ReadsAreWhole
BY StoreInvariant, PTL DEF StoreInv

-----------------------------------------------------------------------------
(* Consumed once, and revoked for good: what each call will write.         *)

Once == {"auth_codes", "tokens"}

Keys(d) == {r.key : r \in d}

Writing(w) == call[w].pc \in {"write", "fill"}

\* The keys of a file that were drawn and stored: not those of a Create that
\* is still under way.
Out(f) == {k \in Nat : /\ <<f, k>> \in log.drawn
                       /\ \A w \in Workers : Draws(call[w].op) /\ call[w].op.file = f => call[w].op.key # k}

\* Only keys handed out before are on disk, in a call's rows or in the history,
\* and no two calls under way were handed out the same.
StoredOut(f) ==
    /\ Keys(disk[f].rows) \subseteq Out(f)
    /\ \A k \in Nat : <<f, k>> \in log.consumed => k \in Out(f)
    /\ f = "tokens" => log.revoked \subseteq Out(f)

DrawsAlone(f) ==
    \A w \in Workers : Draws(call[w].op) /\ call[w].op.file = f =>
        /\ <<f, call[w].op.key>> \in log.drawn
        /\ \A v \in Workers : Draws(call[v].op) /\ call[v].op.file = f /\ call[v].op.key = call[w].op.key => v = w

RowsOut(f) ==
    \A w \in Workers : call[w].op.file = f /\ Writing(w) =>
        /\ \A k \in Keys(call[w].rows) : k \in Out(f) \/ (Draws(call[w].op) /\ k = call[w].op.key)
        /\ Consuming(call[w].op) => call[w].op.key \in Out(f)

KeysDrawn == \A f \in Once : StoredOut(f) /\ DrawsAlone(f) /\ RowsOut(f)

\* A row that can still be used was usable when it was read, or is new.
Derived(op, rows, base) ==
    \A r \in rows : ~r.flag => (Draws(op) /\ r.key = op.key) \/ \E b \in base : ~b.flag /\ b.key = r.key

WritesDerived ==
    \A w \in Workers : call[w].op.file \in Once /\ Writing(w) =>
        Derived(call[w].op, call[w].rows, call[w].base)

\* The rows of consumed keys are marked.
Marked(f, d, consumed) == \A r \in d : <<f, r.key>> \in consumed => r.flag

ConsumingOK(f, w) ==
    /\ Marked(f, call[w].rows, log.consumed)
    /\ <<f, call[w].op.key>> \notin log.consumed
    /\ \A r \in call[w].rows : r.key = call[w].op.key => r.flag

FileMarked(f) ==
    /\ f \notin log.twice
    /\ Marked(f, disk[f].rows, log.consumed)
    /\ \A w \in Workers : call[w].op.file = f =>
        /\ call[w].pc = "fill" => Marked(f, call[w].rows, log.consumed)
        /\ Writing(w) /\ Consuming(call[w].op) => ConsumingOK(f, w)

TwiceIsOnce == log.twice \subseteq Once

ConsumedMarked == \A f \in Once : <<f, FALSE>> \notin log.overwritten => FileMarked(f)

\* So are those of revoked tokens, of which there is one row each.
OneRowEach(d) == \A r, q \in d : r.key = q.key => r = q

Flagged(d, revoked) == \A r \in d : r.key \in revoked => r.flag

TokensMarked ==
    /\ OneRowEach(disk["tokens"].rows) /\ Flagged(disk["tokens"].rows, log.revoked)
    /\ \A w \in Workers : call[w].op.file = "tokens" /\ Writing(w) =>
        /\ OneRowEach(call[w].rows)
        /\ call[w].pc = "fill" => Flagged(call[w].rows, log.revoked)

RevokedMarked == Serial("tokens") => TokensMarked

\* A file being written is empty on disk.
Emptied == \A w \in Workers : call[w].pc = "fill" => disk[call[w].op.file].rows = {}

\* A revocation's watermark is stored, or on its way.
Following(k) ==
    \/ k \in Keys(disk["revocations"].rows)
    \/ \E w \in Workers : call[w].op.name = "upsert" /\ call[w].op.key = k
    \/ \E w \in Workers : call[w].pc = "fill" /\ call[w].op.file = "revocations" /\ k \in Keys(call[w].rows)
    \/ \E w \in Workers : call[w].pc = "fill" /\ call[w].op.file = "revocations" /\ call[w].op.name = "DeleteExpired"

WatermarkOnItsWay ==
    log.faults = 0 /\ Serial("revocations") /\ "revocations" \notin log.dropped =>
        \A k \in log.cutOff : Following(k)

\* A method that only reads writes nothing; an upsert writes the keys it read
\* and its own.
UpsertKeeps ==
    \A w \in Workers : Writing(w) =>
        /\ call[w].op.name # "Get"
        /\ call[w].op.name = "upsert" => Keys(call[w].base) \cup {call[w].op.key} \subseteq Keys(call[w].rows)

RecordInv ==
    /\ KeysDrawn /\ WritesDerived /\ UpsertKeeps /\ Emptied
    /\ TwiceIsOnce /\ ConsumedMarked /\ RevokedMarked /\ WatermarkOnItsWay

-----------------------------------------------------------------------------
(* What each step changes, field by field.                                 *)

Others(w) == \A v \in Workers \ {w} : call'[v] = call[v]

SameHistory ==
    /\ log'.consumed = log.consumed /\ log'.twice = log.twice /\ log'.revoked = log.revoked
    /\ log'.cutOff = log.cutOff /\ log'.dropped = log.dropped

\* Begin only starts the call and hands out its key.
LEMMA BeginFacts ==
  ASSUME Shapes, NEW w \in Workers, NEW op \in scenario.ops, Begin(w, op)
  PROVE  /\ call[w] = Idle /\ call'[w].op = op /\ call'[w].pc \in {"consume", "read"} /\ Others(w)
         /\ op \in OpSet /\ IsMethod(op)
         /\ disk' = disk /\ SameHistory /\ log'.faults = log.faults /\ log'.overwritten = log.overwritten
         /\ Draws(op) => <<op.file, op.key>> \notin log.drawn
         /\ log'.drawn = IF Draws(op) THEN log.drawn \cup {<<op.file, op.key>>} ELSE log.drawn
<1>1. call \in [Workers -> CallSet \cup {Idle}] /\ log \in LogSet
  BY DEF Shapes
<1>2. op \in OpSet /\ IsMethod(op)
  BY ScenariosAssumption DEF Shapes
<1>3. call[w] = Idle /\ call'[w].op = op /\ call'[w].pc \in {"consume", "read"} /\ Others(w)
  BY <1>1 DEF Begin, Idle, Others
<1>4. SameHistory /\ log'.faults = log.faults /\ log'.overwritten = log.overwritten
  BY <1>1 DEF Begin, SameHistory, LogSet
<1>5. log'.drawn = IF Draws(op) THEN log.drawn \cup {<<op.file, op.key>>} ELSE log.drawn
  BY <1>1 DEF Begin, LogSet
<1> QED BY <1>2, <1>3, <1>4, <1>5 DEF Begin

\* Taking `consume` only moves the call on.
LEMMA LockFacts ==
  ASSUME Shapes, NEW w \in Workers, LockConsume(w)
  PROVE  /\ call[w].pc = "consume" /\ call'[w].pc = "read" /\ call'[w].op = call[w].op /\ Others(w)
         /\ disk' = disk /\ log' = log
<1>1. call \in [Workers -> CallSet \cup {Idle}] /\ call[w] \in CallSet
  BY CallType DEF Shapes, LockConsume
<1> QED BY <1>1 DEF LockConsume, CallSet, Others

\* A read ends the call, or leaves it with the rows it will write.
LEMMA ReadFacts ==
  ASSUME Shapes, NEW w \in Workers, readFile(w)
  PROVE  /\ call[w].pc = "read" /\ call[w].op \in OpSet /\ IsMethod(call[w].op) /\ call[w].op.file \in Files /\ Others(w)
         /\ lock[MutexOf(call[w].op)] = Free
         /\ disk' = disk /\ SameHistory /\ log'.faults = log.faults /\ log'.overwritten = log.overwritten
         /\ log'.drawn = log.drawn
         /\ \/ call'[w] = Idle /\ (disk[call[w].op.file].torn \/ Apply(call[w].op, disk[call[w].op.file].rows) = {Refused})
            \/ /\ Apply(call[w].op, disk[call[w].op.file].rows) # {Refused}
               /\ call'[w].op = call[w].op /\ call'[w].pc = "write"
               /\ call'[w].rows = Apply(call[w].op, disk[call[w].op.file].rows)
               /\ call'[w].base = disk[call[w].op.file].rows
<1> DEFINE op   == call[w].op
           rows == Apply(op, disk[op.file].rows)
           ends == disk[op.file].torn \/ rows = {Refused}
<1>1. call[w] \in CallSet /\ op \in OpSet /\ IsMethod(op) /\ op.file \in Files
  BY CallType DEF Shapes, readFile, readable
<1>2. log \in LogSet
  BY DEF Shapes
<1>3. call \in [Workers -> CallSet \cup {Idle}]
  BY DEF Shapes
<1>4. call' = IF ends THEN End(w)
              ELSE [call EXCEPT ![w].pc = "write", ![w].rows = rows, ![w].base = disk[op.file].rows]
  BY DEF readFile, readable
<1>5. call[w].pc = "read" /\ lock[MutexOf(op)] = Free /\ disk' = disk
  BY DEF readFile, readable
<1>6. log' = [log EXCEPT !.tornRead = @ \/ (disk[op.file].torn /\ log.faults = 0)]
  BY DEF readFile, readable
<1> HIDE DEF op, rows, ends
<1>7. SameHistory /\ log'.faults = log.faults /\ log'.overwritten = log.overwritten /\ log'.drawn = log.drawn
  BY ONLY <1>2, <1>6 DEF SameHistory, LogSet
<1>8. CASE ends
  <2>1. call' = End(w)
    BY ONLY <1>4, <1>8
  <2>2. call'[w] = Idle /\ Others(w)
    BY ONLY <1>3, <2>1, w \in Workers DEF End, Others
  <2> QED BY <1>1, <1>5, <1>7, <1>8, <2>2 DEF op, rows, ends
<1>9. CASE ~ends
  <2>1. call' = [call EXCEPT ![w].pc = "write", ![w].rows = rows, ![w].base = disk[op.file].rows]
    BY ONLY <1>4, <1>9
  <2>2. call'[w] = [call[w] EXCEPT !.pc = "write", !.rows = rows, !.base = disk[op.file].rows] /\ Others(w)
    BY ONLY <1>3, <2>1, w \in Workers DEF Others
  <2>3. /\ call'[w].op = op /\ call'[w].pc = "write" /\ call'[w].rows = rows
        /\ call'[w].base = disk[op.file].rows
    BY <1>1, <2>2 DEF CallSet, op
  <2>4. rows # {Refused}
    BY <1>9 DEF ends
  <2> QED BY <1>1, <1>5, <1>7, <2>2, <2>3, <2>4 DEF op, rows
<1> QED BY <1>8, <1>9

\* Truncating empties the file and records a write over other rows.
LEMMA TruncateFacts ==
  ASSUME Shapes, NEW w \in Workers, Truncate(w)
  PROVE  /\ call[w].pc = "write" /\ call[w].op.file \in Files /\ call[w].op \in OpSet /\ IsMethod(call[w].op)
         /\ call'[w].pc = "fill" /\ call'[w].op = call[w].op
         /\ call'[w].rows = call[w].rows /\ call'[w].base = call[w].base /\ Others(w)
         /\ lock[MutexOf(call[w].op)] = Free
         /\ disk'[call[w].op.file].rows = {}
         /\ \A f \in Files \ {call[w].op.file} : disk'[f] = disk[f]
         /\ SameHistory /\ log'.faults = log.faults /\ log'.drawn = log.drawn
         /\ log'.overwritten = IF disk[call[w].op.file].rows # call[w].base
                               THEN log.overwritten \cup {<<call[w].op.file, Consuming(call[w].op)>>} ELSE log.overwritten
<1>1. /\ call \in [Workers -> CallSet \cup {Idle}] /\ log \in LogSet
      /\ disk \in [Files -> [rows: SUBSET RowSet, torn: BOOLEAN]]
      /\ call[w] \in CallSet /\ call[w].op \in OpSet /\ IsMethod(call[w].op) /\ call[w].op.file \in Files
  BY CallType DEF Shapes, Truncate
<1>2. /\ call'[w].pc = "fill" /\ call'[w].op = call[w].op
      /\ call'[w].rows = call[w].rows /\ call'[w].base = call[w].base /\ Others(w)
  BY <1>1 DEF Truncate, CallSet, Others
<1>3. /\ disk'[call[w].op.file].rows = {}
      /\ \A f \in Files \ {call[w].op.file} : disk'[f] = disk[f]
  BY <1>1 DEF Truncate
<1>4. SameHistory /\ log'.faults = log.faults /\ log'.drawn = log.drawn
  BY <1>1 DEF Truncate, SameHistory, LogSet
<1>5. log'.overwritten = IF disk[call[w].op.file].rows # call[w].base
                         THEN log.overwritten \cup {<<call[w].op.file, Consuming(call[w].op)>>} ELSE log.overwritten
  BY <1>1 DEF Truncate, LogSet
<1> QED BY <1>1, <1>2, <1>3, <1>4, <1>5 DEF Truncate

\* Writing stores the rows, ends the call or goes on to the watermark, and
\* extends the history.
LEMMA FillFacts ==
  ASSUME Shapes, NEW w \in Workers, Fill(w)
  PROVE  /\ call[w].pc = "fill" /\ call[w] \in CallSet /\ call[w].op.file \in Files /\ call[w].op \in OpSet
         /\ IsMethod(call[w].op) /\ Others(w)
         /\ disk'[call[w].op.file].rows = call[w].rows
         /\ \A f \in Files \ {call[w].op.file} : disk'[f] = disk[f]
         /\ log'.faults = log.faults /\ log'.drawn = log.drawn /\ log'.overwritten = log.overwritten
         /\ \/ Watermark(call[w].op) = NoOp /\ call'[w] = Idle
            \/ /\ Watermark(call[w].op) # NoOp /\ call'[w].op = Watermark(call[w].op) /\ call'[w].pc = "read"
         /\ LET op == call[w].op
                key == <<op.file, op.key>>
            IN  /\ log'.twice = IF Consuming(op) /\ key \in log.consumed THEN log.twice \cup {op.file} ELSE log.twice
                /\ log'.consumed = IF Consuming(op) THEN log.consumed \cup {key} ELSE log.consumed
                /\ log'.revoked = IF op.file = "tokens" /\ op.name # "Create"
                                  THEN log.revoked \cup {r.key : r \in {r \in call[w].rows : r.flag}} ELSE log.revoked
                /\ log'.cutOff = IF op.name \in Revoking THEN log.cutOff \cup {op.key} ELSE log.cutOff
                /\ log'.dropped = IF op.name = "DeleteExpired" THEN log.dropped \cup {op.file} ELSE log.dropped
<1>1. /\ call \in [Workers -> CallSet \cup {Idle}] /\ log \in LogSet
      /\ disk \in [Files -> [rows: SUBSET RowSet, torn: BOOLEAN]]
      /\ call[w] \in CallSet /\ call[w].op \in OpSet /\ IsMethod(call[w].op) /\ call[w].op.file \in Files
  BY CallType DEF Shapes, Fill
<1>2. /\ disk'[call[w].op.file].rows = call[w].rows
      /\ \A f \in Files \ {call[w].op.file} : disk'[f] = disk[f]
  BY <1>1 DEF Fill
<1>3. /\ Others(w)
      /\ \/ Watermark(call[w].op) = NoOp /\ call'[w] = Idle
         \/ /\ Watermark(call[w].op) # NoOp /\ call'[w].op = Watermark(call[w].op) /\ call'[w].pc = "read"
  <2>1. call' = IF Watermark(call[w].op) # NoOp
                THEN [call EXCEPT ![w] = [Idle EXCEPT !.op = Watermark(call[w].op), !.pc = "read"]]
                ELSE [call EXCEPT ![w] = Idle]
    BY DEF Fill, End
  <2> QED BY <1>1, <2>1 DEF Idle, Others
<1>4. log'.faults = log.faults /\ log'.drawn = log.drawn /\ log'.overwritten = log.overwritten
  BY <1>1 DEF Fill, LogSet
<1>5. LET op == call[w].op
          key == <<op.file, op.key>>
      IN  /\ log'.twice = IF Consuming(op) /\ key \in log.consumed THEN log.twice \cup {op.file} ELSE log.twice
          /\ log'.consumed = IF Consuming(op) THEN log.consumed \cup {key} ELSE log.consumed
          /\ log'.cutOff = IF op.name \in Revoking THEN log.cutOff \cup {op.key} ELSE log.cutOff
          /\ log'.dropped = IF op.name = "DeleteExpired" THEN log.dropped \cup {op.file} ELSE log.dropped
  BY <1>1 DEF Fill, LogSet
<1>6. log'.revoked = IF call[w].op.file = "tokens" /\ call[w].op.name # "Create"
                     THEN log.revoked \cup {r.key : r \in {r \in call[w].rows : r.flag}} ELSE log.revoked
  BY <1>1 DEF Fill, LogSet
<1> QED BY <1>1, <1>2, <1>3, <1>4, <1>5, <1>6 DEF Fill

\* A fault ends calls and changes nothing on disk.
LEMMA FaultFacts ==
  ASSUME Shapes, (\E w \in Workers : WriteFails(w)) \/ Crash
  PROVE  /\ \A v \in Workers : call'[v] = call[v] \/ call'[v] = Idle
         /\ disk' = disk /\ SameHistory /\ log'.faults > 0
         /\ log'.overwritten = log.overwritten /\ log'.drawn = log.drawn
<1>1. call \in [Workers -> CallSet \cup {Idle}] /\ log \in LogSet
  BY DEF Shapes
<1>2. \A v \in Workers : call'[v] = call[v] \/ call'[v] = Idle
  BY <1>1 DEF WriteFails, Crash, End
<1>3. disk' = disk /\ log' = [log EXCEPT !.faults = @ + 1]
  BY DEF WriteFails, Crash
<1> QED BY <1>1, <1>2, <1>3 DEF SameHistory, LogSet

-----------------------------------------------------------------------------
(* What the methods of codes and tokens compute.                           *)

\* Flagging some rows keeps the keys and the other flags, and one row per key.
LEMMA FlagRows ==
  ASSUME NEW d \in SUBSET RowSet, NEW u \in SUBSET d, NEW op, NEW e,
         e = {IF r \in u THEN [r EXCEPT !.flag = TRUE] ELSE r : r \in d}
  PROVE  /\ Keys(e) \subseteq Keys(d)
         /\ Derived(op, e, d)
         /\ OneRowEach(d) => OneRowEach(e)
<1>1. \A r \in RowSet : [r EXCEPT !.flag = TRUE].key = r.key /\ [r EXCEPT !.flag = TRUE].flag
  BY DEF RowSet
<1>2. \A q \in e : \E r \in d : q = (IF r \in u THEN [r EXCEPT !.flag = TRUE] ELSE r)
  OBVIOUS
<1>3. ASSUME NEW q \in e PROVE \E r \in d : q.key = r.key /\ (~q.flag => q = r)
  <2>1. PICK r \in d : q = (IF r \in u THEN [r EXCEPT !.flag = TRUE] ELSE r)
    BY <1>2
  <2>2. r \in RowSet
    OBVIOUS
  <2>3. CASE r \in u
    BY <1>1, <2>1, <2>2, <2>3
  <2>4. CASE r \notin u
    BY <2>1, <2>4
  <2> QED BY <2>3, <2>4
<1>4. OneRowEach(d) => OneRowEach(e)
  <2> SUFFICES ASSUME OneRowEach(d), NEW p \in e, NEW q \in e, p.key = q.key PROVE p = q
    BY DEF OneRowEach
  <2>1. PICK r \in d : p = (IF r \in u THEN [r EXCEPT !.flag = TRUE] ELSE r)
    BY <1>2
  <2>2. PICK t \in d : q = (IF t \in u THEN [t EXCEPT !.flag = TRUE] ELSE t)
    BY <1>2
  <2>3. r.key = t.key
    BY <1>1, <2>1, <2>2
  <2>4. r = t
    BY <2>3 DEF OneRowEach
  <2> QED BY <2>1, <2>2, <2>4
<1> QED BY <1>3, <1>4 DEF Keys, Derived

\* A method of auth codes or refresh tokens that saves rows keeps to the keys
\* it read and a new one's, never clears a flag and keeps one row per key.
LEMMA ApplyOnce ==
  ASSUME NEW op \in OpSet, IsMethod(op), op.file \in Once, NEW d \in SUBSET RowSet,
         Apply(op, d) # {Refused}
  PROVE  /\ \A k \in Keys(Apply(op, d)) : k \in Keys(d) \/ (Draws(op) /\ k = op.key)
         /\ Derived(op, Apply(op, d), d)
         /\ OneRowEach(d) /\ (Draws(op) => op.key \notin Keys(d)) => OneRowEach(Apply(op, d))
         /\ Consuming(op) => /\ op.key \in Keys(d)
                             /\ \A r \in d : r.key = op.key => ~r.flag
                             /\ \A r \in Apply(op, d) : r.key = op.key => r.flag
<1> USE DEF Keys, Derived, OneRowEach
<1>1. op.name \in Methods[op.file] /\ op.name # "Get"
  BY DEF IsMethod, Apply
<1>2. \A r \in RowSet : /\ [r EXCEPT !.flag = TRUE].key = r.key /\ [r EXCEPT !.flag = TRUE].flag
  BY DEF RowSet
<1>3. RowOf(op).key = op.key
  BY DEF RowOf
<1>4. CASE Draws(op)
  <2>1. Apply(op, d) = d \cup {RowOf(op)} /\ ~Consuming(op)
    BY <1>1, <1>4 DEF Apply, authCodesOp, tokensOp, Draws, Once, Consuming
  <2> QED BY <1>3, <1>4, <2>1
<1>5. CASE ~Draws(op) /\ Apply(op, d) \subseteq d /\ ~Consuming(op)
  BY <1>5
<1>6. CASE \E u \in SUBSET d : Apply(op, d) = {IF r \in u THEN [r EXCEPT !.flag = TRUE] ELSE r : r \in d} /\ ~Draws(op) /\ ~Consuming(op)
  <2> PICK u \in SUBSET d : Apply(op, d) = {IF r \in u THEN [r EXCEPT !.flag = TRUE] ELSE r : r \in d}
    BY <1>6
  <2>1. Keys(Apply(op, d)) \subseteq Keys(d) /\ Derived(op, Apply(op, d), d) /\ (OneRowEach(d) => OneRowEach(Apply(op, d)))
    <3> HIDE DEF Keys, Derived, OneRowEach
    <3> QED BY FlagRows
  <2> HIDE DEF Keys, Derived, OneRowEach
  <2> QED BY <1>6, <2>1
<1>7. CASE Consuming(op)
  <2>1. Apply(op, d) = Consume(d, op) /\ ~Draws(op)
    BY <1>1, <1>7 DEF Apply, authCodesOp, tokensOp, Draws, Once, Consuming, Methods
  <2>2. /\ \A r \in d : r.key = op.key => ~r.flag
        /\ Has(d, op)
        /\ Apply(op, d) = {IF r.key = op.key THEN [r EXCEPT !.flag = TRUE] ELSE r : r \in d}
    BY <2>1 DEF Consume, SetFlag
  <2> DEFINE u == {r \in d : r.key = op.key}
  <2>3. Apply(op, d) = {IF r \in u THEN [r EXCEPT !.flag = TRUE] ELSE r : r \in d}
    BY <2>2
  <2>4. \A r \in Apply(op, d) : r.key = op.key => r.flag
    BY <1>2, <2>2
  <2>5. op.key \in Keys(d)
    BY <2>2 DEF Has
  <2>6. Keys(Apply(op, d)) \subseteq Keys(d) /\ Derived(op, Apply(op, d), d) /\ (OneRowEach(d) => OneRowEach(Apply(op, d)))
    <3>1. u \in SUBSET d
      OBVIOUS
    <3> HIDE DEF Keys, Derived, OneRowEach, u
    <3> QED BY <2>3, <3>1, FlagRows
  <2> HIDE DEF Keys, Derived, OneRowEach
  <2> QED BY <1>7, <2>1, <2>2, <2>4, <2>5, <2>6
<1>8. CASE ~Draws(op) /\ ~Consuming(op)
  <2>1. CASE op.file = "auth_codes"
    <3>1. op.name \in {"Delete", "DeleteExpired"}
      BY <1>1, <1>8, <2>1 DEF Methods, Draws, Consuming, Random
    <3>2. Apply(op, d) \subseteq d
      BY <2>1, <3>1 DEF Apply, authCodesOp, Remove, RemoveExpired
    <3> QED BY <1>5, <1>8, <3>2
  <2>2. CASE op.file = "tokens"
    <3>1. op.name \in {"Revoke", "RevokeByUserID", "RevokeByClientID", "DeleteExpired"}
      BY <1>1, <1>8, <2>2 DEF Methods, Draws, Consuming, Random
    <3>2. CASE op.name = "DeleteExpired"
      <4>1. Apply(op, d) \subseteq d
        BY <2>2, <3>2 DEF Apply, tokensOp, RemoveExpired
      <4> QED BY <1>5, <1>8, <4>1
    <3>3. CASE op.name = "RevokeByUserID"
      <4> DEFINE u == {r \in d : r.user = op.user}
      <4>1. Apply(op, d) = {IF r.user = op.user THEN [r EXCEPT !.flag = TRUE] ELSE r : r \in d}
        BY <2>2, <3>3 DEF Apply, tokensOp
      <4>2. Apply(op, d) = {IF r \in u THEN [r EXCEPT !.flag = TRUE] ELSE r : r \in d}
        BY <4>1
      <4> QED BY <1>6, <1>8, <4>2
    <3>4. CASE op.name = "Revoke"
      <4> DEFINE u == {r \in d : r.key = op.key}
      <4>1. Apply(op, d) = {IF r.key = op.key THEN [r EXCEPT !.flag = TRUE] ELSE r : r \in d}
        BY <2>2, <3>4 DEF Apply, tokensOp, SetFlag
      <4>2. Apply(op, d) = {IF r \in u THEN [r EXCEPT !.flag = TRUE] ELSE r : r \in d}
        BY <4>1
      <4> QED BY <1>6, <1>8, <4>2
    <3>5. CASE op.name = "RevokeByClientID"
      <4> DEFINE u == {r \in d : r.tag = op.tag}
      <4>1. Apply(op, d) = {IF r.tag = op.tag THEN [r EXCEPT !.flag = TRUE] ELSE r : r \in d}
        BY <2>2, <3>5 DEF Apply, tokensOp
      <4>2. Apply(op, d) = {IF r \in u THEN [r EXCEPT !.flag = TRUE] ELSE r : r \in d}
        BY <4>1
      <4> QED BY <1>6, <1>8, <4>2
    <3> QED BY <3>1, <3>2, <3>3, <3>4, <3>5
  <2> QED BY <2>1, <2>2 DEF Once
<1> QED BY <1>4, <1>7, <1>8

\* The watermark is never refused, keeps the other watermarks and stores its own.
LEMMA ApplyUpsert ==
  ASSUME NEW op \in OpSet, IsMethod(op), op.name = "upsert", NEW d \in SUBSET RowSet
  PROVE  /\ op.file = "revocations"
         /\ Apply(op, d) # {Refused}
         /\ Keys(d) \cup {op.key} \subseteq Keys(Apply(op, d))
<1>1. op.file = "revocations" /\ op.user > 0
  BY DEF IsMethod, OpSet, Files, Methods
<1> DEFINE same == {r \in d : r.key = op.key /\ r.user = op.user}
<1>2. Apply(op, d) = IF \E r \in same : r.at >= op.at THEN d ELSE (d \ same) \cup {RowOf(op)}
  BY <1>1 DEF Apply, revocationsOp
<1>3. RowOf(op).key = op.key /\ RowOf(op).user = op.user
  BY DEF RowOf
<1>4. \E r \in Apply(op, d) : r.key = op.key /\ r.user = op.user
  BY <1>2, <1>3
<1>5. Apply(op, d) # {Refused}
  <2>1. Refused.user = 0
    BY DEF Refused
  <2> HIDE DEF same
  <2> QED BY <1>1, <1>4, <2>1 DEF OpSet
<1>6. Keys(d) \subseteq Keys(Apply(op, d))
  BY <1>2, <1>3 DEF Keys
<1> QED BY <1>1, <1>4, <1>5, <1>6 DEF Keys

-----------------------------------------------------------------------------
(* Keys are drawn once.                                                    *)

\* A key that is out stays out while no call starts.
LEMMA OutKept ==
  ASSUME log'.drawn = log.drawn, \A v \in Workers : Draws(call'[v].op) => call'[v].op = call[v].op, NEW f
  PROVE  Out(f) \subseteq Out(f)' /\ (DrawsAlone(f) => DrawsAlone(f)')
BY DEF Out, DrawsAlone

\* An idle worker draws and writes nothing.
LEMMA IdleFacts ==
  /\ ~Draws(Idle.op) /\ Idle.pc = "idle" /\ Idle.op.file = "none" /\ Idle.op.name = "none"
BY DEF Idle, NoOp, Draws

\* The keys of stored rows stay out while they are not written.
LEMMA StoredKept ==
  ASSUME NEW f \in Once, StoredOut(f), Out(f) \subseteq Out(f)', disk'[f] = disk[f], SameHistory
  PROVE  StoredOut(f)'
BY DEF StoredOut, SameHistory

\* The keys a call writes stay out while it keeps its rows.
LEMMA RowsKept ==
  ASSUME NEW f \in Once, RowsOut(f), Out(f) \subseteq Out(f)',
         \A v \in Workers : Writing(v)' /\ call'[v].op.file = f =>
             Writing(v) /\ call'[v].op = call[v].op /\ call'[v].rows = call[v].rows
  PROVE  RowsOut(f)'
BY DEF RowsOut

\* No key is on disk, in a call's rows or in the history before its Create is over.
LEMMA NextKeysDrawn == StoreInv /\ KeysDrawn /\ [Next]_vars => KeysDrawn'
<1> SUFFICES ASSUME StoreInv, [Next]_vars, NEW f \in Once, StoredOut(f), DrawsAlone(f), RowsOut(f)
             PROVE  StoredOut(f)' /\ DrawsAlone(f)' /\ RowsOut(f)'
  BY DEF KeysDrawn
<1>0. Shapes /\ f \in Files
  BY DEF StoreInv, Once, Files
<1>1. ASSUME NEW w \in Workers, NEW op \in scenario.ops, Begin(w, op)
      PROVE  StoredOut(f)' /\ DrawsAlone(f)' /\ RowsOut(f)'
  <2>1. /\ call[w] = Idle /\ call'[w].op = op /\ call'[w].pc \in {"consume", "read"} /\ Others(w)
        /\ disk' = disk /\ SameHistory
        /\ Draws(op) => <<op.file, op.key>> \notin log.drawn
        /\ log'.drawn = IF Draws(op) THEN log.drawn \cup {<<op.file, op.key>>} ELSE log.drawn
    BY <1>0, <1>1, BeginFacts
  <2>2. Out(f) \subseteq Out(f)'
    BY <2>1 DEF Out, Others
  <2>3. \A v \in Workers : Writing(v)' => Writing(v) /\ call'[v] = call[v]
    BY <2>1 DEF Writing, Others
  <2>4. DrawsAlone(f)'
    BY <2>1 DEF DrawsAlone, Others
  <2>5. RowsOut(f)'
    BY <2>2, <2>3, RowsKept
  <2> QED BY <2>1, <2>2, <2>4, <2>5, StoredKept
<1>3. ASSUME NEW w \in Workers, LockConsume(w) PROVE StoredOut(f)' /\ DrawsAlone(f)' /\ RowsOut(f)'
  <2>1. /\ call[w].pc = "consume" /\ call'[w].pc = "read" /\ call'[w].op = call[w].op /\ Others(w)
        /\ disk' = disk /\ log' = log
    BY <1>0, <1>3, LockFacts
  <2>2. Out(f) \subseteq Out(f)' /\ DrawsAlone(f)'
    BY <2>1, OutKept DEF Others
  <2>3. \A v \in Workers : Writing(v)' => Writing(v) /\ call'[v] = call[v]
    BY <2>1 DEF Writing, Others
  <2>4. RowsOut(f)'
    BY <2>2, <2>3, RowsKept
  <2> QED BY <2>1, <2>2, <2>4, StoredKept DEF SameHistory
<1>4. ASSUME NEW w \in Workers, readFile(w) PROVE StoredOut(f)' /\ DrawsAlone(f)' /\ RowsOut(f)'
  <2> DEFINE op == call[w].op
             d  == disk[call[w].op.file].rows
  <2>1. /\ call[w].pc = "read" /\ op \in OpSet /\ IsMethod(op) /\ op.file \in Files /\ Others(w)
        /\ disk' = disk /\ SameHistory /\ log'.drawn = log.drawn
        /\ \/ call'[w] = Idle
           \/ /\ Apply(op, d) # {Refused}
              /\ call'[w].op = op /\ call'[w].rows = Apply(op, d)
    BY <1>0, <1>4, ReadFacts
  <2>2. Out(f) \subseteq Out(f)' /\ DrawsAlone(f)'
    BY <2>1, OutKept, IdleFacts DEF Others
  <2>3. StoredOut(f)'
    BY <2>1, <2>2, StoredKept
  <2>4. \A v \in Workers \ {w} : Writing(v)' => Writing(v) /\ call'[v] = call[v]
    BY <2>1 DEF Writing, Others
  <2>5. CASE call'[w] = Idle
    <3>1. ~Writing(w)'
      BY <2>5, IdleFacts DEF Writing
    <3> QED BY <2>2, <2>3, <2>4, <3>1, RowsKept
  <2>6. CASE op.file # f
    <3>1. call'[w].op.file # f
      BY <1>0, <2>1, <2>6, IdleFacts DEF Files
    <3> QED BY <2>2, <2>3, <2>4, <3>1, RowsKept
  <2>7. CASE call'[w] # Idle /\ op.file = f
    <3>1. Apply(op, d) # {Refused} /\ call'[w].op = op /\ call'[w].rows = Apply(op, d)
      BY <2>1, <2>7
    <3>2. d \in SUBSET RowSet
      BY <1>0, <2>1 DEF Shapes
    <3>3. /\ \A k \in Keys(Apply(op, d)) : k \in Keys(d) \/ (Draws(op) /\ k = op.key)
          /\ Consuming(op) => op.key \in Keys(d)
      BY <2>1, <2>7, <3>1, <3>2, ApplyOnce
    <3>4. Keys(d) \subseteq Out(f)'
      BY <2>2, <2>7 DEF StoredOut
    <3>5. /\ \A k \in Keys(call'[w].rows) : k \in Out(f)' \/ (Draws(call'[w].op) /\ k = call'[w].op.key)
          /\ Consuming(call'[w].op) => call'[w].op.key \in Out(f)'
      <4> HIDE DEF op, d
      <4> QED BY <3>1, <3>3, <3>4
    <3>6. ASSUME NEW v \in Workers \ {w}, call'[v].op.file = f, Writing(v)'
          PROVE /\ \A k \in Keys(call'[v].rows) : k \in Out(f)' \/ (Draws(call'[v].op) /\ k = call'[v].op.key)
                /\ Consuming(call'[v].op) => call'[v].op.key \in Out(f)'
      BY <2>2, <2>4, <3>6 DEF RowsOut
    <3>7. RowsOut(f)'
      BY <3>5, <3>6 DEF RowsOut
    <3> QED BY <2>2, <2>3, <3>7
  <2> QED BY <2>5, <2>6, <2>7
<1>5. ASSUME NEW w \in Workers, Truncate(w) PROVE StoredOut(f)' /\ DrawsAlone(f)' /\ RowsOut(f)'
  <2>1. /\ call[w].pc = "write" /\ call'[w].op = call[w].op /\ call'[w].rows = call[w].rows /\ Others(w)
        /\ disk'[call[w].op.file].rows = {} /\ \A g \in Files \ {call[w].op.file} : disk'[g] = disk[g]
        /\ SameHistory /\ log'.drawn = log.drawn
    BY <1>0, <1>5, TruncateFacts
  <2>2. Out(f) \subseteq Out(f)' /\ DrawsAlone(f)'
    BY <2>1, OutKept DEF Others
  <2>3. Keys(disk'[f].rows) \subseteq Out(f)'
    BY <1>0, <2>1, <2>2 DEF StoredOut, Keys
  <2>4. StoredOut(f)'
    BY <2>1, <2>2, <2>3 DEF StoredOut, SameHistory
  <2>5. \A v \in Workers : Writing(v)' => Writing(v) /\ call'[v].op = call[v].op /\ call'[v].rows = call[v].rows
    BY <2>1 DEF Writing, Others
  <2> QED BY <2>2, <2>4, <2>5, RowsKept
<1>6. ASSUME NEW w \in Workers, Fill(w) PROVE StoredOut(f)' /\ DrawsAlone(f)' /\ RowsOut(f)'
  <2> DEFINE op == call[w].op
  <2>1. /\ call[w].pc = "fill" /\ call[w] \in CallSet /\ op.file \in Files /\ op \in OpSet /\ IsMethod(op) /\ Others(w)
        /\ disk'[op.file].rows = call[w].rows
        /\ \A g \in Files \ {op.file} : disk'[g] = disk[g]
        /\ log'.drawn = log.drawn
        /\ \/ Watermark(op) = NoOp /\ call'[w] = Idle
           \/ /\ Watermark(op) # NoOp /\ call'[w].op = Watermark(op) /\ call'[w].pc = "read"
        /\ log'.consumed = IF Consuming(op) THEN log.consumed \cup {<<op.file, op.key>>} ELSE log.consumed
        /\ log'.revoked = IF op.file = "tokens" /\ op.name # "Create"
                          THEN log.revoked \cup {r.key : r \in {r \in call[w].rows : r.flag}} ELSE log.revoked
    BY <1>0, <1>6, FillFacts
  <2>2. ~Draws(call'[w].op)
    BY <1>0, <2>1, IdleFacts, WatermarkType DEF Draws
  <2>3. Out(f) \subseteq Out(f)' /\ DrawsAlone(f)'
    BY <2>1, <2>2, OutKept DEF Others
  <2>4. ASSUME op.file = f, NEW k \in Keys(call[w].rows) PROVE k \in Out(f)'
    <3>1. CASE k \in Out(f)
      BY <2>3, <3>1
    <3>2. CASE Draws(op) /\ k = op.key
      <4>1. /\ <<f, k>> \in log.drawn /\ k \in Nat
            /\ \A v \in Workers \ {w} : Draws(call[v].op) /\ call[v].op.file = f => call[v].op.key # k
        BY <2>1, <2>4, <3>2 DEF DrawsAlone, OpSet
      <4>2. \A v \in Workers : Draws(call'[v].op) /\ call'[v].op.file = f => call'[v].op.key # k
        BY <2>1, <2>2, <4>1 DEF Others
      <4> QED BY <2>1, <4>1, <4>2 DEF Out
    <3> QED BY <2>1, <2>4, <3>1, <3>2 DEF RowsOut, Writing
  <2>5. Keys(disk'[f].rows) \subseteq Out(f)'
    BY <1>0, <2>1, <2>3, <2>4 DEF StoredOut
  <2>6. \A k \in Nat : <<f, k>> \in log'.consumed => k \in Out(f)'
    <3>1. Consuming(op) /\ op.file = f => op.key \in Out(f)
      BY <2>1 DEF RowsOut, Writing
    <3> QED BY <2>1, <2>3, <3>1 DEF StoredOut
  <2>7. f = "tokens" => log'.revoked \subseteq Out(f)'
    <3>1. op.file = f => {r.key : r \in {r \in call[w].rows : r.flag}} \subseteq Out(f)'
      BY <2>4 DEF Keys
    <3> HIDE DEF op
    <3> QED BY <2>1, <2>3, <3>1 DEF StoredOut
  <2>8. \A v \in Workers : Writing(v)' => Writing(v) /\ call'[v] = call[v]
    BY <2>1, IdleFacts DEF Writing, Others
  <2>9. StoredOut(f)'
    BY <2>5, <2>6, <2>7 DEF StoredOut
  <2> QED BY <2>3, <2>8, <2>9, RowsKept
<1>7. ASSUME (\E w \in Workers : WriteFails(w)) \/ Crash PROVE StoredOut(f)' /\ DrawsAlone(f)' /\ RowsOut(f)'
  <2>1. /\ \A v \in Workers : call'[v] = call[v] \/ call'[v] = Idle
        /\ disk' = disk /\ SameHistory /\ log'.drawn = log.drawn
    BY <1>0, <1>7, FaultFacts
  <2>2. Out(f) \subseteq Out(f)' /\ DrawsAlone(f)'
    BY <2>1, OutKept, IdleFacts
  <2>3. \A v \in Workers : Writing(v)' => Writing(v) /\ call'[v] = call[v]
    BY <2>1, IdleFacts DEF Writing
  <2>4. StoredOut(f)'
    BY <2>1, <2>2, StoredKept
  <2> QED BY <2>2, <2>3, <2>4, RowsKept
<1>8. CASE UNCHANGED <<disk, call, log>>
  BY <1>8 DEF StoredOut, DrawsAlone, RowsOut, Out, Writing
<1> QED BY <1>1, <1>3, <1>4, <1>5, <1>6, <1>7, <1>8 DEF Next, Tick, vars

-----------------------------------------------------------------------------
(* What is being written.                                                  *)

\* A call that writes has just read, or has the rows it had.
LEMMA WritingSteps ==
  ASSUME Shapes, [Next]_vars, NEW v \in Workers, Writing(v)'
  PROVE  \/ /\ Writing(v) /\ call'[v].op = call[v].op
            /\ call'[v].rows = call[v].rows /\ call'[v].base = call[v].base
            /\ call'[v].pc = call[v].pc \/ Truncate(v)
         \/ /\ readFile(v) /\ call'[v].op = call[v].op /\ call'[v].pc = "write" /\ call[v].op \in OpSet /\ IsMethod(call[v].op)
            /\ disk[call[v].op.file].rows \in SUBSET RowSet
            /\ Apply(call[v].op, disk[call[v].op.file].rows) # {Refused}
            /\ call'[v].rows = Apply(call[v].op, disk[call[v].op.file].rows)
            /\ call'[v].base = disk[call[v].op.file].rows
<1> USE DEF Writing, Others
<1>1. CASE \E w \in Workers, op \in scenario.ops : Begin(w, op)
  <2> PICK w \in Workers, op \in scenario.ops : Begin(w, op)
    BY <1>1
  <2> QED BY BeginFacts
<1>2. CASE \E w \in Workers : LockConsume(w)
  BY <1>2, LockFacts
<1>3. CASE \E w \in Workers : readFile(w)
  <2> PICK w \in Workers : readFile(w)
    BY <1>3
  <2>1. CASE v # w
    BY <2>1, ReadFacts
  <2>2. CASE v = w
    <3>1. disk[call[v].op.file].rows \in SUBSET RowSet
      BY <2>2, ReadFacts DEF Shapes
    <3> QED BY <2>2, <3>1, ReadFacts, IdleFacts
  <2> QED BY <2>1, <2>2
<1>4. CASE \E w \in Workers : Truncate(w)
  BY <1>4, TruncateFacts
<1>5. CASE \E w \in Workers : Fill(w)
  <2> PICK w \in Workers : Fill(w)
    BY <1>5
  <2>1. CASE v # w
    BY <2>1, FillFacts
  <2>2. CASE v = w
    BY <2>2, FillFacts, IdleFacts
  <2> QED BY <2>1, <2>2
<1>6. CASE (\E w \in Workers : WriteFails(w)) \/ Crash
  BY <1>6, FaultFacts, IdleFacts
<1>7. CASE UNCHANGED call
  BY <1>7
<1> QED BY <1>1, <1>2, <1>3, <1>4, <1>5, <1>6, <1>7 DEF Next, Tick, vars

\* Rows to be written come from the rows read; an upsert keeps their keys.
LEMMA NextDerived == StoreInv /\ WritesDerived /\ UpsertKeeps /\ [Next]_vars => WritesDerived' /\ UpsertKeeps'
<1> SUFFICES ASSUME StoreInv, WritesDerived, UpsertKeeps, [Next]_vars, NEW v \in Workers, Writing(v)'
             PROVE  /\ call'[v].op.file \in Once => Derived(call'[v].op, call'[v].rows, call'[v].base)
                    /\ call'[v].op.name # "Get"
                    /\ call'[v].op.name = "upsert" =>
                           Keys(call'[v].base) \cup {call'[v].op.key} \subseteq Keys(call'[v].rows)
  BY DEF WritesDerived, UpsertKeeps, Derived, Keys
<1>0. Shapes
  BY DEF StoreInv
<1>1. CASE Writing(v) /\ call'[v].op = call[v].op /\ call'[v].rows = call[v].rows /\ call'[v].base = call[v].base
  BY <1>1 DEF WritesDerived, UpsertKeeps
<1>2. CASE /\ call'[v].op = call[v].op /\ call[v].op \in OpSet /\ IsMethod(call[v].op)
           /\ disk[call[v].op.file].rows \in SUBSET RowSet
           /\ Apply(call[v].op, disk[call[v].op.file].rows) # {Refused}
           /\ call'[v].rows = Apply(call[v].op, disk[call[v].op.file].rows)
           /\ call'[v].base = disk[call[v].op.file].rows
  <2> DEFINE op == call[v].op
             d  == disk[op.file].rows
  <2>1. op.name # "Get"
    BY <1>2, Zenon DEF Apply
  <2>2. op \in OpSet /\ IsMethod(op) /\ d \in SUBSET RowSet /\ Apply(op, d) # {Refused}
    BY <1>2
  <2>3. call'[v].op = op /\ call'[v].rows = Apply(op, d) /\ call'[v].base = d
    BY <1>2
  <2> HIDE DEF op, d
  <2>4. op.file \in Once => Derived(op, Apply(op, d), d)
    BY <2>2, ApplyOnce
  <2>5. op.name = "upsert" => Keys(d) \cup {op.key} \subseteq Keys(Apply(op, d))
    BY <2>2, ApplyUpsert
  <2> QED BY ONLY <2>1, <2>3, <2>4, <2>5
<1> QED BY <1>0, <1>1, <1>2, WritingSteps

\* A file being written is empty, as its mutex keeps the other writers out.
LEMMA NextEmptied == StoreInv /\ Emptied /\ [Next]_vars => Emptied'
<1> SUFFICES ASSUME StoreInv, Emptied, [Next]_vars, NEW v \in Workers, call'[v].pc = "fill"
             PROVE  disk'[call'[v].op.file].rows = {}
  BY DEF Emptied
<1>0. Shapes /\ Mutexes
  BY DEF StoreInv
<1>1. CASE Truncate(v)
  BY <1>0, <1>1, TruncateFacts
<1>2. CASE call[v].pc = "fill" /\ call'[v].op = call[v].op
  <2>0. call[v].op.file \in Files /\ disk[call[v].op.file].rows = {}
    BY <1>0, <1>2, CallType DEF Emptied
  <2>1. ASSUME NEW w \in Workers, Truncate(w) PROVE disk'[call[v].op.file] = disk[call[v].op.file]
    <3>1. call[v].op.file # call[w].op.file
      BY <1>0, <1>2, <2>1, TruncateFacts, NobodyFills
    <3> QED BY <1>0, <2>0, <2>1, <3>1, TruncateFacts
  <2>2. ASSUME NEW w \in Workers, Fill(w) PROVE disk'[call[v].op.file] = disk[call[v].op.file]
    <3>0. call'[w] = Idle \/ call'[w].pc = "read"
      BY <1>0, <2>2, FillFacts
    <3>1. v # w
      BY <3>0, IdleFacts
    <3>2. call[v].op.file # call[w].op.file
      <4>1. call[v].op.file = call[w].op.file => MutexOf(call[v].op) = MutexOf(call[w].op)
        BY DEF MutexOf
      <4>2. call[w].pc = "fill"
        BY <1>0, <2>2, FillFacts
      <4> QED BY <1>0, <1>2, <3>1, <4>1, <4>2, OneFills
    <3> QED BY <1>0, <2>0, <2>2, <3>2, FillFacts
  <2>3. CASE disk' = disk
    BY <1>2, <2>0, <2>3
  <2> QED BY <1>2, <2>0, <2>1, <2>2, <2>3 DEF Next, Begin, LockConsume, readFile, WriteFails, Crash, Tick, vars
<1> QED
  <2>1. Writing(v)'
    BY DEF Writing
  <2> QED BY <1>0, <1>1, <1>2, <2>1, WritingSteps

-----------------------------------------------------------------------------
(* Consumed once.                                                          *)

\* Every step but the write of a consuming call leaves the consumed keys alone.
LEMMA HistorySteps ==
  ASSUME Shapes, [Next]_vars
  PROVE  \/ \E w \in Workers : Fill(w)
         \/ SameHistory /\ \A f \in Files : disk'[f].rows \in {disk[f].rows, {}}
<1>1. CASE \E w \in Workers, op \in scenario.ops : Begin(w, op)
  BY <1>1, BeginFacts
<1>2. CASE \E w \in Workers : LockConsume(w)
  BY <1>2, LockFacts DEF SameHistory
<1>3. CASE \E w \in Workers : readFile(w)
  BY <1>3, ReadFacts
<1>4. CASE \E w \in Workers : Truncate(w)
  <2> PICK w \in Workers : Truncate(w)
    BY <1>4
  <2> QED BY TruncateFacts
<1>5. CASE (\E w \in Workers : WriteFails(w)) \/ Crash
  BY <1>5, FaultFacts
<1>6. CASE UNCHANGED <<disk, log>>
  BY <1>6 DEF SameHistory
<1> QED BY <1>1, <1>2, <1>3, <1>4, <1>5, <1>6 DEF Next, Tick, vars

\* Overwritten is remembered, and a write that is not recorded meets its base.
LEMMA OverwrittenSteps ==
  ASSUME Shapes, [Next]_vars
  PROVE  /\ log.overwritten \subseteq log'.overwritten
         /\ \A w \in Workers : Truncate(w) =>
                \/ disk[call[w].op.file].rows = call[w].base
                \/ <<call[w].op.file, Consuming(call[w].op)>> \in log'.overwritten
<1>1. \A w \in Workers : Truncate(w) =>
          /\ log.overwritten \subseteq log'.overwritten
          /\ \/ disk[call[w].op.file].rows = call[w].base
             \/ <<call[w].op.file, Consuming(call[w].op)>> \in log'.overwritten
  BY TruncateFacts
<1>2. \A w \in Workers, op \in scenario.ops : Begin(w, op) => log'.overwritten = log.overwritten
  BY BeginFacts
<1>3. \A w \in Workers : LockConsume(w) \/ readFile(w) \/ Fill(w) => log'.overwritten = log.overwritten
  BY LockFacts, ReadFacts, FillFacts
<1>4. (\E w \in Workers : WriteFails(w)) \/ Crash => log'.overwritten = log.overwritten
  BY FaultFacts
<1> QED BY <1>1, <1>2, <1>3, <1>4 DEF Next, Tick, vars

\* A consuming call read its row unmarked and will write it marked.
LEMMA ReadConsuming ==
  ASSUME NEW f \in Once, NEW op \in OpSet, IsMethod(op), op.file = f, Consuming(op),
         NEW d \in SUBSET RowSet, Apply(op, d) # {Refused}, Marked(f, d, log.consumed)
  PROVE  /\ Marked(f, Apply(op, d), log.consumed)
         /\ <<f, op.key>> \notin log.consumed
         /\ \A r \in Apply(op, d) : r.key = op.key => r.flag
<1>1. ~Draws(op)
  BY DEF Draws, Consuming
<1> QED BY <1>1, ApplyOnce DEF Marked, Derived, Keys

\* Only codes and tokens are consumed.
LEMMA NextTwice == StoreInv /\ TwiceIsOnce /\ [Next]_vars => TwiceIsOnce'
<1> SUFFICES ASSUME StoreInv, TwiceIsOnce, [Next]_vars PROVE TwiceIsOnce'
  OBVIOUS
<1>0. Shapes
  BY DEF StoreInv
<1>1. CASE \E w \in Workers : Fill(w)
  <2> PICK w \in Workers : Fill(w)
    BY <1>1
  <2>1. /\ call[w].op \in OpSet /\ IsMethod(call[w].op)
        /\ log'.twice = IF Consuming(call[w].op) /\ <<call[w].op.file, call[w].op.key>> \in log.consumed
                        THEN log.twice \cup {call[w].op.file} ELSE log.twice
    BY <1>0, FillFacts
  <2>2. Consuming(call[w].op) => call[w].op.file \in Once
    BY <2>1 DEF Consuming, IsMethod, Methods, OpSet, Files, Once
  <2> QED BY <2>1, <2>2 DEF TwiceIsOnce
<1>2. CASE SameHistory
  BY <1>2 DEF SameHistory, TwiceIsOnce
<1> QED BY <1>0, <1>1, <1>2, HistorySteps

\* A consumed code or token stays marked: the consuming calls exclude one
\* another from read to write, the other methods write back what they read.
LEMMA NextConsumed ==
  StoreInv /\ KeysDrawn /\ WritesDerived /\ ConsumedMarked /\ [Next]_vars => ConsumedMarked'
<1> SUFFICES ASSUME StoreInv, KeysDrawn, WritesDerived, ConsumedMarked, [Next]_vars,
                    NEW f \in Once, <<f, FALSE>> \notin log'.overwritten
             PROVE  FileMarked(f)'
  BY DEF ConsumedMarked
<1>0. Shapes /\ Mutexes /\ f \in Files
  BY DEF StoreInv, Once, Files
<1>1. FileMarked(f)
  BY <1>0, OverwrittenSteps DEF ConsumedMarked
<1>2. \A v \in Workers : call[v].pc = "fill" /\ call[v].op.file = f => Marked(f, call[v].rows, log.consumed)
  BY <1>1 DEF FileMarked
<1>3. ASSUME NEW v \in Workers, Truncate(v), call[v].op.file = f PROVE Marked(f, call[v].rows, log.consumed)
  <2>0. call[v].pc = "write" /\ Writing(v)
    BY <1>0, <1>3, TruncateFacts DEF Writing
  <2>1. CASE Consuming(call[v].op)
    BY <1>1, <1>3, <2>0, <2>1 DEF FileMarked, ConsumingOK
  <2>2. CASE ~Consuming(call[v].op)
    <3>1. disk[f].rows = call[v].base
      <4>1. Consuming(call[v].op) = FALSE
        BY <2>2 DEF Consuming
      <4> QED BY <1>0, <1>3, <4>1, OverwrittenSteps
    <3>2. Derived(call[v].op, call[v].rows, disk[f].rows)
      BY <1>3, <2>0, <3>1 DEF WritesDerived
    <3>3. Draws(call[v].op) => <<f, call[v].op.key>> \notin log.consumed
      <4> SUFFICES ASSUME Draws(call[v].op), <<f, call[v].op.key>> \in log.consumed PROVE FALSE
        OBVIOUS
      <4>1. call[v].op.key \in Nat
        BY <1>0, <2>0, CallType DEF OpSet
      <4>2. call[v].op.key \in Out(f)
        BY <4>1 DEF KeysDrawn, StoredOut
      <4> QED BY <1>3, <4>2 DEF Out
    <3> QED BY <1>1, <3>2, <3>3 DEF FileMarked, Marked, Derived
  <2> QED BY <2>1, <2>2
<1>4. CASE SameHistory /\ \A g \in Files : disk'[g].rows \in {disk[g].rows, {}}
  <2>1. f \notin log'.twice /\ Marked(f, disk'[f].rows, log'.consumed)
    BY <1>0, <1>1, <1>4 DEF FileMarked, SameHistory, Marked
  <2>2. ASSUME NEW v \in Workers, call'[v].op.file = f, call'[v].pc = "fill"
        PROVE  Marked(f, call'[v].rows, log'.consumed)
    <3>1. Writing(v)' /\ log'.consumed = log.consumed
      BY <1>4, <2>2 DEF Writing, SameHistory
    <3>2. call'[v].op = call[v].op /\ call'[v].rows = call[v].rows /\ (call'[v].pc = call[v].pc \/ Truncate(v))
      BY <1>0, <2>2, <3>1, WritingSteps
    <3> QED BY <1>2, <1>3, <2>2, <3>1, <3>2
  <2>3. ASSUME NEW v \in Workers, call'[v].op.file = f, Writing(v)', Consuming(call'[v].op)
        PROVE  /\ Marked(f, call'[v].rows, log'.consumed)
               /\ <<f, call'[v].op.key>> \notin log'.consumed
               /\ \A r \in call'[v].rows : r.key = call'[v].op.key => r.flag
    <3>1. CASE Writing(v) /\ call'[v].op = call[v].op /\ call'[v].rows = call[v].rows
      BY <1>1, <1>4, <2>3, <3>1 DEF FileMarked, ConsumingOK, SameHistory
    <3>2. CASE /\ call'[v].op = call[v].op /\ call[v].op \in OpSet /\ IsMethod(call[v].op)
               /\ disk[call[v].op.file].rows \in SUBSET RowSet
               /\ Apply(call[v].op, disk[call[v].op.file].rows) # {Refused}
               /\ call'[v].rows = Apply(call[v].op, disk[call[v].op.file].rows)
      <4>1. Marked(f, disk[f].rows, log.consumed) /\ log'.consumed = log.consumed
        BY <1>1, <1>4 DEF FileMarked, SameHistory
      <4> QED BY <2>3, <3>2, <4>1, ReadConsuming
    <3> QED BY <1>0, <2>3, <3>1, <3>2, WritingSteps
  <2> QED BY <2>1, <2>2, <2>3 DEF FileMarked, ConsumingOK
<1>5. CASE \E w \in Workers : Fill(w)
  <2> PICK w \in Workers : Fill(w)
    BY <1>5
  <2> DEFINE op == call[w].op
  <2>1. /\ call[w].pc = "fill" /\ op.file \in Files /\ Others(w)
        /\ disk'[op.file].rows = call[w].rows
        /\ \A g \in Files \ {op.file} : disk'[g] = disk[g]
        /\ call'[w] = Idle \/ call'[w].pc = "read"
        /\ log'.twice = IF Consuming(op) /\ <<op.file, op.key>> \in log.consumed THEN log.twice \cup {op.file} ELSE log.twice
        /\ log'.consumed = IF Consuming(op) THEN log.consumed \cup {<<op.file, op.key>>} ELSE log.consumed
    BY <1>0, FillFacts
  <2>2. \A v \in Workers : Writing(v)' => v # w /\ call'[v] = call[v] /\ Writing(v)
    BY <2>1, IdleFacts DEF Writing, Others
  <2>3. CASE ~Consuming(op) \/ op.file # f
    <3>1. \A r : <<f, r>> \in log'.consumed <=> <<f, r>> \in log.consumed
      BY <2>1, <2>3
    <3>2. \A d : Marked(f, d, log.consumed) => Marked(f, d, log'.consumed)
      BY <3>1 DEF Marked
    <3>3. f \notin log'.twice
      BY <1>1, <2>1, <2>3 DEF FileMarked
    <3>4. Marked(f, disk'[f].rows, log.consumed)
      BY <1>0, <1>1, <1>2, <2>1 DEF FileMarked
    <3>5. ASSUME NEW v \in Workers, call'[v].op.file = f, Writing(v)'
          PROVE  /\ call'[v].pc = "fill" => Marked(f, call'[v].rows, log'.consumed)
                 /\ Consuming(call'[v].op) =>
                     /\ Marked(f, call'[v].rows, log'.consumed)
                     /\ <<f, call'[v].op.key>> \notin log'.consumed
                     /\ \A r \in call'[v].rows : r.key = call'[v].op.key => r.flag
      BY <1>1, <2>2, <3>1, <3>2, <3>5 DEF FileMarked, ConsumingOK
    <3>6. \A v \in Workers : call'[v].pc = "fill" => Writing(v)'
      BY DEF Writing
    <3> QED BY <3>2, <3>3, <3>4, <3>5, <3>6 DEF FileMarked, ConsumingOK
  <2>4. CASE Consuming(op) /\ op.file = f
    <3>1. ConsumingOK(f, w) /\ lock.consume = w
      BY <1>0, <1>1, <2>1, <2>4 DEF FileMarked, Writing, Mutexes
    <3>2. f \notin log'.twice /\ log'.consumed = log.consumed \cup {<<f, op.key>>}
      BY <1>1, <2>1, <2>4, <3>1 DEF FileMarked, ConsumingOK
    <3>3. Marked(f, disk'[f].rows, log'.consumed)
      <4>1. disk'[f].rows = call[w].rows
        BY <2>1, <2>4
      <4> QED BY <3>1, <3>2, <4>1 DEF ConsumingOK, Marked
    <3>4. ASSUME NEW v \in Workers, call'[v].op.file = f, Writing(v)'
          PROVE  call'[v].pc # "fill" /\ ~Consuming(call'[v].op)
      <4>1. v # w /\ call'[v] = call[v] /\ Writing(v)
        BY <2>2, <3>4
      <4>2. call[v].pc # "fill"
        BY <1>0, <2>1, <2>4, <3>4, <4>1, OneFills DEF MutexOf
      <4>3. ~Consuming(call[v].op)
        BY <1>0, <3>1, <4>1 DEF Mutexes, Writing
      <4> QED BY <4>1, <4>2, <4>3
    <3>5. \A v \in Workers : call'[v].pc = "fill" => Writing(v)'
      BY DEF Writing
    <3> QED BY <3>2, <3>3, <3>4, <3>5 DEF FileMarked
  <2> QED BY <2>3, <2>4
<1> QED BY <1>0, <1>4, <1>5, HistorySteps

-----------------------------------------------------------------------------
(* Revoked for good.                                                       *)

\* While no overlapping call wrote the token file, a revoked token is marked
\* on disk and in what is being written.
LEMMA NextRevoked ==
  StoreInv /\ KeysDrawn /\ WritesDerived /\ RevokedMarked /\ [Next]_vars => RevokedMarked'
<1> SUFFICES ASSUME StoreInv, KeysDrawn, WritesDerived, RevokedMarked, [Next]_vars, Serial("tokens")'
             PROVE  TokensMarked'
  BY DEF RevokedMarked
<1>0. Shapes /\ Mutexes /\ "tokens" \in Files /\ "tokens" \in Once
  BY DEF StoreInv, Once, Files
<1>1. TokensMarked
  BY <1>0, OverwrittenSteps DEF RevokedMarked, Serial
<1>2. \A v \in Workers : Truncate(v) /\ call[v].op.file = "tokens" => disk["tokens"].rows = call[v].base
  <2> SUFFICES ASSUME NEW v \in Workers, Truncate(v), call[v].op.file = "tokens"
               PROVE  disk["tokens"].rows = call[v].base
    OBVIOUS
  <2>1. Consuming(call[v].op) \in BOOLEAN
    BY DEF Consuming
  <2>2. <<"tokens", TRUE>> \notin log'.overwritten /\ <<"tokens", FALSE>> \notin log'.overwritten
    BY DEF Serial
  <2>3. <<"tokens", Consuming(call[v].op)>> \notin log'.overwritten
    BY <2>1, <2>2
  <2> QED BY <1>0, <2>3, OverwrittenSteps
<1>3. ASSUME NEW v \in Workers, Truncate(v), call[v].op.file = "tokens" PROVE Flagged(call[v].rows, log.revoked)
  <2>1. call[v].pc = "write" /\ Writing(v) /\ Derived(call[v].op, call[v].rows, disk["tokens"].rows)
    BY <1>0, <1>2, <1>3, TruncateFacts DEF Writing, WritesDerived
  <2>2. Draws(call[v].op) => call[v].op.key \notin log.revoked
    <3>1. log.revoked \subseteq Out("tokens")
      BY <1>0 DEF KeysDrawn, StoredOut
    <3> QED BY <1>3, <3>1 DEF Out
  <2> QED BY <1>1, <2>1, <2>2 DEF TokensMarked, Flagged, Derived
<1>4. ASSUME NEW v \in Workers, call'[v].op.file = "tokens", Writing(v)' PROVE OneRowEach(call'[v].rows)
  <2>1. CASE Writing(v) /\ call'[v].op = call[v].op /\ call'[v].rows = call[v].rows
    BY <1>1, <1>4, <2>1 DEF TokensMarked
  <2>2. CASE /\ call'[v].op = call[v].op /\ call[v].op \in OpSet /\ IsMethod(call[v].op)
             /\ disk[call[v].op.file].rows \in SUBSET RowSet
             /\ Apply(call[v].op, disk[call[v].op.file].rows) # {Refused}
             /\ call'[v].rows = Apply(call[v].op, disk[call[v].op.file].rows)
    <3>1. OneRowEach(disk["tokens"].rows)
      BY <1>1 DEF TokensMarked
    <3>2. Draws(call[v].op) => call[v].op.key \notin Keys(disk["tokens"].rows)
      <4>1. Keys(disk["tokens"].rows) \subseteq Out("tokens")
        BY <1>0 DEF KeysDrawn, StoredOut
      <4> QED BY <1>4, <2>2, <4>1 DEF Out
    <3> QED BY <1>0, <1>4, <2>2, <3>1, <3>2, ApplyOnce
  <2> QED BY <1>0, <1>4, <2>1, <2>2, WritingSteps
<1>5. ASSUME NEW v \in Workers, call'[v].op.file = "tokens", call'[v].pc = "fill" PROVE Flagged(call'[v].rows, log.revoked)
  <2>1. Writing(v)'
    BY <1>5 DEF Writing
  <2>2. /\ Writing(v) /\ call'[v].op = call[v].op /\ call'[v].rows = call[v].rows
        /\ call'[v].pc = call[v].pc \/ Truncate(v)
    BY <1>0, <1>5, <2>1, WritingSteps
  <2> QED BY <1>1, <1>3, <1>5, <2>2 DEF TokensMarked
<1>6. CASE SameHistory /\ \A g \in Files : disk'[g].rows \in {disk[g].rows, {}}
  <2>1. OneRowEach(disk'["tokens"].rows) /\ Flagged(disk'["tokens"].rows, log'.revoked)
    BY <1>0, <1>1, <1>6 DEF TokensMarked, OneRowEach, Flagged, SameHistory
  <2>2. log'.revoked = log.revoked
    BY <1>6 DEF SameHistory
  <2> QED BY <1>4, <1>5, <2>1, <2>2 DEF TokensMarked
<1>7. CASE \E w \in Workers : Fill(w)
  <2> PICK w \in Workers : Fill(w)
    BY <1>7
  <2> DEFINE op == call[w].op
             new == {r.key : r \in {r \in call[w].rows : r.flag}}
  <2>1. /\ call[w].pc = "fill" /\ op.file \in Files /\ Others(w)
        /\ disk'[op.file].rows = call[w].rows
        /\ \A g \in Files \ {op.file} : disk'[g] = disk[g]
        /\ call'[w] = Idle \/ call'[w].pc = "read"
        /\ log'.revoked = IF op.file = "tokens" /\ op.name # "Create" THEN log.revoked \cup new ELSE log.revoked
    BY <1>0, FillFacts
  <2>2. CASE op.file # "tokens"
    <3>1. disk'["tokens"] = disk["tokens"] /\ log'.revoked = log.revoked
      BY <1>0, <2>1, <2>2
    <3> QED BY <1>1, <1>4, <1>5, <3>1 DEF TokensMarked
  <2>3. CASE op.file = "tokens"
    <3>1. OneRowEach(call[w].rows) /\ Flagged(call[w].rows, log.revoked) /\ disk'["tokens"].rows = call[w].rows
      BY <1>1, <2>1, <2>3 DEF TokensMarked, Writing
    <3>2. Flagged(call[w].rows, log.revoked \cup new)
      BY <3>1 DEF Flagged, OneRowEach
    <3>3. Flagged(disk'["tokens"].rows, log'.revoked)
      <4> HIDE DEF new
      <4> QED BY <2>1, <3>1, <3>2
    <3>4. ASSUME NEW v \in Workers, call'[v].op.file = "tokens" PROVE call'[v].pc # "fill"
      <4>1. CASE v = w
        BY <2>1, <4>1, IdleFacts
      <4>2. CASE v # w
        <5>1. call'[v] = call[v]
          BY <2>1, <4>2 DEF Others
        <5>2. MutexOf(call[v].op) = MutexOf(op)
          BY <2>3, <3>4, <5>1 DEF MutexOf
        <5> QED BY <1>0, <2>1, <4>2, <5>1, <5>2, OneFills
      <4> QED BY <4>1, <4>2
    <3> QED BY <1>4, <3>1, <3>3, <3>4 DEF TokensMarked
  <2> QED BY <2>2, <2>3
<1> QED BY <1>0, <1>6, <1>7, HistorySteps

-----------------------------------------------------------------------------
(* The watermark follows.                                                  *)

\* A call that stays what it is keeps a watermark on its way.
LEMMA FollowingKept ==
  ASSUME NEW k, Following(k),
         disk'["revocations"] = disk["revocations"],
         \A v \in Workers : call[v].op.name = "upsert" \/ (call[v].pc = "fill" /\ call[v].op.file = "revocations") =>
             /\ call'[v].op = call[v].op
             /\ call[v].pc = "fill" => call'[v].pc = "fill" /\ call'[v].rows = call[v].rows
  PROVE  Following(k)'
BY DEF Following

\* Without a fault, an overlapping write or an expiry, every revocation has its
\* watermark stored or on its way.
LEMMA NextWatermark ==
  StoreInv /\ Emptied /\ UpsertKeeps /\ WatermarkOnItsWay /\ [Next]_vars => WatermarkOnItsWay'
<1> SUFFICES ASSUME StoreInv, Emptied, UpsertKeeps, WatermarkOnItsWay, [Next]_vars,
                    log'.faults = 0, Serial("revocations")', "revocations" \notin log'.dropped, NEW k \in log'.cutOff
             PROVE  Following(k)'
  BY DEF WatermarkOnItsWay
<1>0. Shapes /\ Mutexes /\ "revocations" \in Files /\ Serial("revocations")
  BY OverwrittenSteps DEF StoreInv, Files, Serial
<1>1. CASE log'.faults = log.faults /\ "revocations" \notin log.dropped /\ k \in log.cutOff
  <2>0. Following(k) /\ log.faults = 0
    BY <1>0, <1>1 DEF WatermarkOnItsWay
  <2>1. ASSUME NEW w \in Workers, NEW op \in scenario.ops, Begin(w, op) PROVE Following(k)'
    <3>1. call[w] = Idle /\ Others(w) /\ disk' = disk
      BY <1>0, <2>1, BeginFacts
    <3> QED BY <2>0, <3>1, FollowingKept, IdleFacts DEF Others
  <2>2. ASSUME NEW w \in Workers, LockConsume(w) PROVE Following(k)'
    <3>1. call[w].pc = "consume" /\ call'[w].op = call[w].op /\ Others(w) /\ disk' = disk
      BY <1>0, <2>2, LockFacts
    <3> QED BY <2>0, <3>1, FollowingKept DEF Others
  <2>3. ASSUME NEW w \in Workers, readFile(w) PROVE Following(k)'
    <3>1. /\ call[w].pc = "read" /\ call[w].op \in OpSet /\ IsMethod(call[w].op) /\ call[w].op.file \in Files
          /\ lock[MutexOf(call[w].op)] = Free /\ Others(w) /\ disk' = disk
          /\ \/ call'[w] = Idle /\ (disk[call[w].op.file].torn \/ Apply(call[w].op, disk[call[w].op.file].rows) = {Refused})
             \/ call'[w].op = call[w].op
      BY <1>0, <2>3, ReadFacts
    <3>2. call[w].op.name = "upsert" => call'[w].op = call[w].op
      <4> SUFFICES ASSUME call[w].op.name = "upsert"
                   PROVE  /\ ~disk[call[w].op.file].torn
                          /\ Apply(call[w].op, disk[call[w].op.file].rows) # {Refused}
        BY <3>1
      <4>1. disk[call[w].op.file].rows \in SUBSET RowSet
        BY <1>0, <3>1 DEF Shapes
      <4>2. Apply(call[w].op, disk[call[w].op.file].rows) # {Refused}
        BY <3>1, <4>1, ApplyUpsert
      <4>3. ~disk[call[w].op.file].torn
        BY <1>0, <2>0, <3>1, NobodyFills DEF StoreInv, TornIsWritten
      <4> QED BY <4>2, <4>3
    <3> QED BY <2>0, <3>1, <3>2, FollowingKept DEF Others
  <2>4. ASSUME NEW w \in Workers, Truncate(w) PROVE Following(k)'
    <3>1. /\ call[w].pc = "write" /\ call[w].op.file \in Files /\ call[w].op \in OpSet /\ IsMethod(call[w].op)
          /\ call'[w].pc = "fill" /\ call'[w].op = call[w].op
          /\ call'[w].rows = call[w].rows /\ Others(w)
          /\ lock[MutexOf(call[w].op)] = Free
          /\ \A f \in Files \ {call[w].op.file} : disk'[f] = disk[f]
      BY <1>0, <2>4, TruncateFacts
    <3>2. CASE call[w].op.file # "revocations"
      <4>1. disk'["revocations"] = disk["revocations"]
        BY <1>0, <3>1, <3>2
      <4> QED BY <2>0, <3>1, <4>1, FollowingKept DEF Others
    <3>3. CASE call[w].op.file = "revocations"
      <4>1. \A v \in Workers : call[v].pc = "fill" => call[v].op.file # "revocations"
        BY <1>0, <3>1, <3>3, NobodyFills
      <4>2. call[w].op.name \in {"Get", "upsert", "DeleteExpired"}
        BY <3>1, <3>3 DEF IsMethod, Methods
      <4>3. CASE call[w].op.name = "DeleteExpired"
        BY <3>1, <3>3, <4>3 DEF Following
      <4>4. CASE call[w].op.name = "upsert"
        <5>1. disk["revocations"].rows = call[w].base
          <6>1. Consuming(call[w].op) \in BOOLEAN
            BY DEF Consuming
          <6> QED BY <1>0, <2>4, <3>3, <6>1, OverwrittenSteps DEF Serial
        <5>2. k \in Keys(disk["revocations"].rows) => k \in Keys(call'[w].rows)
          BY <3>1, <4>4, <5>1 DEF UpsertKeeps, Writing
        <5>3. \A v \in Workers : call'[v].op = call[v].op
          BY <3>1 DEF Others
        <5> QED BY <2>0, <3>1, <3>3, <4>1, <5>2, <5>3 DEF Following
      <4>5. CASE call[w].op.name = "Get"
        BY <3>1, <4>5 DEF UpsertKeeps, Writing
      <4> QED BY <4>2, <4>3, <4>4, <4>5
    <3> QED BY <3>2, <3>3
  <2>5. ASSUME NEW w \in Workers, Fill(w) PROVE Following(k)'
    <3>1. /\ call[w].pc = "fill" /\ call[w].op.file \in Files /\ call[w].op \in OpSet /\ IsMethod(call[w].op) /\ Others(w)
          /\ disk'[call[w].op.file].rows = call[w].rows
          /\ \A f \in Files \ {call[w].op.file} : disk'[f] = disk[f]
          /\ log'.dropped = IF call[w].op.name = "DeleteExpired" THEN log.dropped \cup {call[w].op.file} ELSE log.dropped
      BY <1>0, <2>5, FillFacts
    <3>2. CASE call[w].op.file # "revocations"
      <4>1. disk'["revocations"] = disk["revocations"]
        BY <1>0, <3>1, <3>2
      <4>2. call[w].op.name # "upsert"
        BY <1>0, <3>1, <3>2, ApplyUpsert
      <4> QED BY <2>0, <3>1, <3>2, <4>1, <4>2, FollowingKept DEF Others
    <3>3. CASE call[w].op.file = "revocations"
      <4>1. disk["revocations"].rows = {} /\ disk'["revocations"].rows = call[w].rows
        BY <3>1, <3>3 DEF Emptied
      <4>2. \A v \in Workers : call[v].pc = "fill" /\ call[v].op.file = "revocations" => v = w
        <5>1. \A v \in Workers : call[v].op.file = "revocations" => MutexOf(call[v].op) = MutexOf(call[w].op)
          BY <3>3 DEF MutexOf
        <5> QED BY <1>0, <3>1, <5>1, OneFills
      <4>3. call[w].op.name # "DeleteExpired"
        BY <3>1, <3>3
      <4>4. call[w].op.name = "upsert" => call[w].op.key \in Keys(call[w].rows)
        BY <3>1 DEF UpsertKeeps, Writing
      <4>5. k \notin Keys(disk["revocations"].rows)
        BY <4>1 DEF Keys
      <4>6. CASE k \in Keys(call[w].rows)
        BY <4>1, <4>6 DEF Following
      <4>7. CASE \E v \in Workers \ {w} : call[v].op.name = "upsert" /\ call[v].op.key = k
        BY <3>1, <4>7 DEF Following, Others
      <4> QED BY <2>0, <4>2, <4>3, <4>4, <4>5, <4>6, <4>7 DEF Following
    <3> QED BY <3>2, <3>3
  <2>6. CASE (\E w \in Workers : WriteFails(w)) \/ Crash
    BY <1>0, <2>6, FaultFacts
  <2>7. CASE UNCHANGED <<disk, call>>
    BY <2>0, <2>7, FollowingKept
  <2> QED BY <2>1, <2>2, <2>3, <2>4, <2>5, <2>6, <2>7 DEF Next, Tick, vars
<1>2. CASE (\E w \in Workers : WriteFails(w)) \/ Crash
  BY <1>0, <1>2, FaultFacts
<1>3. ASSUME NEW w \in Workers, Fill(w) PROVE Following(k)'
  <2>1. /\ log'.faults = log.faults
        /\ \/ Watermark(call[w].op) = NoOp /\ call'[w] = Idle
           \/ Watermark(call[w].op) # NoOp /\ call'[w].op = Watermark(call[w].op)
        /\ log'.cutOff = IF call[w].op.name \in Revoking THEN log.cutOff \cup {call[w].op.key} ELSE log.cutOff
        /\ log'.dropped = IF call[w].op.name = "DeleteExpired" THEN log.dropped \cup {call[w].op.file} ELSE log.dropped
        /\ call[w].op \in OpSet
    BY <1>0, <1>3, FillFacts
  <2>2. CASE k \in log.cutOff
    BY <1>1, <2>1, <2>2
  <2>3. CASE k \notin log.cutOff
    <3>1. call[w].op.name \in Revoking /\ k = call[w].op.key
      BY <2>1, <2>3
    <3>2. Watermark(call[w].op) # NoOp
      BY <3>1 DEF Watermark, Revoking, NoOp
    <3>3. call'[w].op.name = "upsert" /\ call'[w].op.key = k
      BY <1>0, <2>1, <3>1, <3>2, WatermarkType
    <3> QED BY <3>3 DEF Following
  <2> QED BY <2>2, <2>3
<1>4. CASE (\E w \in Workers, op \in scenario.ops : Begin(w, op)) \/ UNCHANGED log
  <2>1. log'.faults = log.faults /\ "revocations" \notin log.dropped /\ k \in log.cutOff
    BY <1>0, <1>4, BeginFacts DEF SameHistory
  <2> QED BY <1>1, <2>1
<1>5. ASSUME NEW w \in Workers, LockConsume(w) \/ readFile(w) \/ Truncate(w) PROVE Following(k)'
  <2>1. log'.faults = log.faults /\ "revocations" \notin log.dropped /\ k \in log.cutOff
    BY <1>0, <1>5, LockFacts, ReadFacts, TruncateFacts DEF SameHistory
  <2> QED BY <1>1, <2>1
<1> QED BY <1>2, <1>3, <1>4, <1>5 DEF Next, Tick, vars

-----------------------------------------------------------------------------

\* What every reachable state satisfies, and every step keeps.
THEOREM RecordInvariant == Spec => [](StoreInv /\ RecordInv)
<1>1. Init => RecordInv
  <2> SUFFICES ASSUME Init PROVE RecordInv
    OBVIOUS
  <2>0. Shapes
    BY InitShapes
  <2> PICK s \in Scenarios :
        /\ scenario = s
        /\ disk = [f \in Files |-> [rows |-> s.rows[f], torn |-> FALSE]]
        /\ log = [calls |-> 0, faults |-> 0, tornRead |-> FALSE, overwritten |-> {}, twice |-> {},
                  consumed |-> {}, revoked |-> {}, cutOff |-> {}, dropped |-> {},
                  drawn |-> UNION {{<<f, r.key>> : r \in s.rows[f]} : f \in Random}]
    BY DEF Init
  <2>1. /\ \A w \in Workers : call[w] = Idle
        /\ log.consumed = {} /\ log.revoked = {} /\ log.twice = {} /\ log.cutOff = {}
        /\ log.drawn = UNION {{<<f, r.key>> : r \in s.rows[f]} : f \in Random}
        /\ \A f \in Files : disk[f].rows = s.rows[f]
    BY DEF Init
  <2>2. \A w \in Workers : ~Draws(call[w].op) /\ ~Writing(w) /\ call[w].pc # "fill"
    BY <2>1, IdleFacts DEF Writing
  <2>3. s.rows \in [Files -> SUBSET RowSet] /\ \A r, q \in s.rows["tokens"] : r.key = q.key => r = q
    BY ScenariosAssumption
  <2>4. KeysDrawn
    <3> SUFFICES ASSUME NEW f \in Once PROVE StoredOut(f) /\ DrawsAlone(f) /\ RowsOut(f)
      BY DEF KeysDrawn
    <3>1. f \in Files /\ f \in Random
      BY DEF Once, Files, Random
    <3>2. \A r \in s.rows[f] : r.key \in Nat /\ <<f, r.key>> \in log.drawn
      BY <2>1, <2>3, <3>1 DEF RowSet
    <3>3. Keys(disk[f].rows) \subseteq Out(f)
      BY <2>1, <2>2, <3>1, <3>2 DEF Keys, Out
    <3> QED BY <2>1, <2>2, <3>3 DEF StoredOut, DrawsAlone, RowsOut
  <2>5. ConsumedMarked
    BY <2>1, <2>2 DEF ConsumedMarked, FileMarked, Marked
  <2>6. RevokedMarked
    <3>1. OneRowEach(disk["tokens"].rows)
      BY <2>1, <2>3 DEF OneRowEach, Files
    <3> QED BY <2>1, <2>2, <3>1 DEF RevokedMarked, TokensMarked, Flagged
  <2> QED BY <2>1, <2>2, <2>4, <2>5, <2>6 DEF RecordInv, WritesDerived, Emptied, WatermarkOnItsWay, UpsertKeeps, TwiceIsOnce
<1>2. StoreInv /\ RecordInv /\ [Next]_vars => RecordInv'
  BY NextKeysDrawn, NextDerived, NextConsumed, NextTwice, NextRevoked, NextEmptied, NextWatermark DEF RecordInv
<1> QED BY <1>1, <1>2, StoreInvariant, PTL DEF Spec

\* An auth code or refresh token is consumed twice only where a method that
\* does not take `consume` wrote back older rows (MarkUsed and Rotate).
THEOREM OnceUnlessOverwritten == Spec => []ConsumedOnce
<1>1. StoreInv /\ RecordInv => ConsumedOnce
  <2> SUFFICES ASSUME StoreInv, RecordInv, NEW f \in log.twice, <<f, FALSE>> \notin log.overwritten PROVE FALSE
    BY DEF ConsumedOnce
  <2>1. CASE f \in Once
    BY <2>1 DEF RecordInv, ConsumedMarked, FileMarked
  <2>2. CASE f \notin Once
    BY <2>2 DEF RecordInv, TwiceIsOnce
  <2> QED BY <2>1, <2>2
<1> QED BY <1>1, RecordInvariant, PTL

\* A revoked or rotated refresh token is never found usable again while no
\* overlapping call wrote the file (Rotate, Revoke, RevokeByUserID...).
THEOREM RevokedForGood == Spec => []RevokedStaysRevoked
<1>1. RecordInv => RevokedStaysRevoked
  BY DEF RecordInv, RevokedMarked, TokensMarked, Flagged, RevokedStaysRevoked
<1> QED BY <1>1, RecordInvariant, PTL

\* Without a fault, an overlapping write or an expiry, the watermark of every
\* revocation is on disk once no call works on the watermarks (Revoke).
THEOREM WatermarksFollow == Spec => []WatermarkFollowsToken
<1>1. StoreInv /\ RecordInv => WatermarkFollowsToken
  <2> SUFFICES ASSUME StoreInv, RecordInv, NEW k \in log.cutOff,
                      log.faults = 0, Serial("revocations"), "revocations" \notin log.dropped
               PROVE  (\E r \in disk["revocations"].rows : r.key = k) \/ \E w \in Workers : call[w].op.file = "revocations"
    BY DEF WatermarkFollowsToken, StoreInv, Shapes, LogSet
  <2>1. Following(k)
    BY DEF RecordInv, WatermarkOnItsWay
  <2>2. \A w \in Workers : call[w].op.name = "upsert" => call[w].op.file = "revocations"
    <3> SUFFICES ASSUME NEW w \in Workers, call[w].op.name = "upsert" PROVE call[w].op.file = "revocations"
      OBVIOUS
    <3>1. call[w] # Idle
      BY IdleFacts
    <3>2. call[w].op \in OpSet /\ IsMethod(call[w].op)
      BY <3>1 DEF StoreInv, Shapes, CallSet
    <3> QED BY <3>2, ApplyUpsert
  <2> QED BY <2>1, <2>2 DEF Following, Keys
<1> QED BY <1>1, RecordInvariant, PTL

=============================================================================
