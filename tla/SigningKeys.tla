---------------------------- MODULE SigningKeys ----------------------------
(***************************************************************************)
(* The signing keys of idpico (internal/crypto/service.go) over the SQLite *)
(* store: startup, rotation by the console, by the maintenance runner and  *)
(* by idpicoctl, the per-process cache of the active key, and cleanup.     *)
(*                                                                         *)
(* Threads of one process share a KeyService: its mutex and its cache.     *)
(* Processes share nothing but the signing_keys table.  Every repository   *)
(* call is one step together with the local code that follows it; a store  *)
(* error or a crash may come before any of them.                           *)
(*                                                                         *)
(* A key's age only decides whether maintenance finds a rotation due: that *)
(* is a free choice here.  Key material and algorithms are left out.       *)
(***************************************************************************)
EXTENDS Integers

CONSTANTS
    Procs,      \* processes that share the store
    Servers,    \* those that are servers; the others are runs of idpicoctl
    Threads,    \* threads that use the key service, signers apart
    Home,       \* the process of each thread
    Keys,       \* keys that may be generated
    TokenTTL,   \* the longest lifetime of a signed token
    CacheTTL,   \* how long a process signs with the key it read
    Grace,      \* how long a rotated-out key is to verify tokens
    Latency,    \* bound on the time a change of the keys takes
    MaxTime,    \* bound on the clock
    Overlap     \* may two processes change the keys at the same time

ASSUME ThreadsAssumption ==
    /\ Servers \subseteq Procs
    /\ Home \in [Threads -> Procs]
    /\ Overlap \in BOOLEAN

\* The configuration relates none of these to another.
ASSUME TimesAssumption ==
    /\ TokenTTL \in Nat /\ CacheTTL \in Nat /\ Latency \in Nat /\ MaxTime \in Nat
    /\ Grace \in Nat

VARIABLES
    now,        \* the clock
    row,        \* the signing_keys table
    up,         \* servers that serve requests
    cache,      \* the active key each server has cached, and since when
    thread,     \* what each thread does
    until       \* when the last token signed with a key expires

vars == <<now, row, up, cache, thread, until>>

-----------------------------------------------------------------------------
(* Rows *)

Never == -1     \* the zero ExpiresAt
NoKey == [st |-> "unborn", active |-> FALSE, exp |-> Never]
Key == [st : {"unborn", "stored", "gone"}, active : BOOLEAN, exp : Nat \cup {Never}]

EmptyCache == [key |-> {}, at |-> 0]
Cache == [key : SUBSET Keys, at : Nat]

\* pc: the next repository call; "due" and "clean" hold no lock yet.
\* then: where the thread goes once the key it saves is active.
\* keys: the keys it works on.  at: when it took the lock.
Idle == [pc |-> "idle", then |-> "idle", keys |-> {}, at |-> 0]
Thread == [pc : {"idle", "due", "saveOld", "saveNew", "setActive", "clean", "delete"},
           then : {"idle", "due", "clean"}, keys : SUBSET Keys, at : Nat]

TypeOK ==
    /\ now \in Nat
    /\ row \in [Keys -> Key]
    /\ up \in SUBSET Servers
    /\ cache \in [Servers -> Cache]
    /\ thread \in [Threads -> Thread]
    /\ until \in [Keys -> Nat]

-----------------------------------------------------------------------------
(* The store *)

Stored(k) == row[k].st = "stored"
Active(k) == Stored(k) /\ row[k].active

\* IsExpired; a token verifies with a stored key that is not expired, and
\* GetJWKS publishes the same keys.
IsExpired(k) == row[k].exp # Never /\ now > row[k].exp
Verifies(k) == Stored(k) /\ ~IsExpired(k)

\* What repo.GetActive may answer: the active key, or nothing.
GetActive == {{k} : k \in {j \in Keys : Active(j)}} \cup {{}}

Activate(k, r) == [j \in Keys |-> IF j = k THEN [r EXCEPT !.active = TRUE]
                                  ELSE [row[j] EXCEPT !.active = FALSE]]

-----------------------------------------------------------------------------
(* Locks and the cache *)

Writing(t) == thread[t].pc \in {"saveOld", "saveNew", "setActive"}
Holding(t) == Writing(t) \/ thread[t].pc = "delete"

\* mu.Lock: no other thread of the process holds the mutex.
Unlocked(t) == TRUE
MayLock(t) == \A s \in Threads \ {t} : Home[s] = Home[t] => ~Holding(s)

\* Nothing of the code keeps two processes apart: this is the operator's doing.
OtherProcessesWait(t) ==
    Overlap \/ \A s \in Threads : Home[s] # Home[t] => ~Writing(s)

\* cachedActive and setActive.
CachedForever(p) == cache[p].key
CachedActive(p) == IF now - cache[p].at < CacheTTL THEN cache[p].key ELSE {}

SetCache(p, key) ==
    cache' = [q \in Servers |-> IF q = p THEN [key |-> key, at |-> now] ELSE cache[q]]

\* The thread has let go of the lock, or takes it for the first time.
Goto(t, pc, then) == thread' = [thread EXCEPT ![t] = [Idle EXCEPT !.pc = pc, !.then = then]]
Lock(t, pc, keys, then) ==
    thread' = [thread EXCEPT ![t] = [pc |-> pc, then |-> then, keys |-> keys, at |-> now]]

-----------------------------------------------------------------------------
(* The key service *)

\* A server serves once its main thread has nothing more to start.
Serves(p, then) == up' = IF then = "idle" THEN up \cup ({p} \cap Servers) ELSE up

\* EnsureActiveKey: a server at startup, which then serves or first rotates
\* (the key it found is of another algorithm), or idpicoctl, which then
\* rotates.  Any error of GetActive counts as "there is none".
EnsureActiveKey(t, then) ==
    LET p == Home[t]
    IN  /\ thread[t].pc = "idle" /\ MayLock(t) /\ OtherProcessesWait(t)
        /\ p \in Servers => p \notin up /\ \A s \in Threads : Home[s] = p => thread[s].pc = "idle"
        /\ p \notin Servers => then = "due"
        /\ \E key \in GetActive :
             \/ /\ key # {}
                /\ SetCache(p, key)
                /\ Serves(p, then)
                /\ Goto(t, then, "idle")
             \/ /\ key = {}
                /\ p \in Servers => then = "idle"
                /\ Lock(t, "saveNew", {}, then)
                /\ UNCHANGED <<cache, up>>
        /\ UNCHANGED <<now, row, until>>

\* RotateKey up to the first write; an error of GetActive is ignored.
RotateKey(t) ==
    /\ \/ thread[t].pc = "due"
       \/ thread[t].pc = "idle" /\ Home[t] \in up       \* the console
    /\ MayLock(t) /\ OtherProcessesWait(t)
    /\ \E key \in GetActive :
         Lock(t, IF key = {} THEN "saveNew" ELSE "saveOld", key, thread[t].then)
    /\ UNCHANGED <<now, row, up, cache, until>>

\* repo.Save of the old key, an upsert of the copy read before: it expires a
\* grace period after it was read.
RetiredInThePast(t) == [st |-> "stored", active |-> FALSE, exp |-> thread[t].at - Grace]
Retired(t) == [st |-> "stored", active |-> FALSE, exp |-> thread[t].at + Grace]

SaveOld(t) ==
    /\ thread[t].pc = "saveOld"
    /\ row' = [k \in Keys |-> IF k \in thread[t].keys THEN Retired(t) ELSE row[k]]
    /\ thread' = [thread EXCEPT ![t].pc = "saveNew"]
    /\ UNCHANGED <<now, up, cache, until>>

\* repo.Save of a new key, which is active and takes the others' place in
\* the same transaction.
SaveNew(t) ==
    /\ thread[t].pc = "saveNew"
    /\ \E k \in Keys :
         /\ row[k] = NoKey
         /\ row' = Activate(k, [NoKey EXCEPT !.st = "stored"])
         /\ thread' = [thread EXCEPT ![t].pc = "setActive", ![t].keys = {k}]
    /\ UNCHANGED <<now, up, cache, until>>

\* repo.SetActive of the new key, then the cache.
SetActive(t) ==
    /\ thread[t].pc = "setActive"
    /\ \E k \in thread[t].keys :
         \/ /\ Stored(k)
            /\ row' = Activate(k, row[k])
            /\ SetCache(Home[t], {k})
            /\ Serves(Home[t], thread[t].then)
            /\ Goto(t, thread[t].then, "idle")
         \/ /\ ~Stored(k)
            /\ thread' = [thread EXCEPT ![t] = Idle]
            /\ UNCHANGED <<row, cache, up>>
    /\ UNCHANGED <<now, until>>

\* GetActiveKey: the cached key, or the active one, which is cached.
GetActiveKey(p, key) ==
    \/ /\ CachedActive(p) # {} /\ key = CachedActive(p)
       /\ UNCHANGED cache
    \/ /\ CachedActive(p) = {} /\ key \in GetActive \ {{}}
       /\ SetCache(p, key)

\* maintainKeys: ShouldRotate, then maybe RotateKey, then cleanup.  With
\* rotation on, it returns the error when there is no active key, and neither
\* makes one nor cleans up; with rotation off it does not ask for the key.
Maintain(t, rotate) ==
    /\ thread[t].pc = "idle" /\ Home[t] \in up
    /\ \/ MayLock(t) /\ \E k \in Keys : GetActiveKey(Home[t], {k})
       \/ ~rotate /\ UNCHANGED cache
    /\ Goto(t, IF rotate THEN "due" ELSE "clean", IF rotate THEN "clean" ELSE "idle")
    /\ UNCHANGED <<now, row, up, until>>

\* CleanupExpiredKeys: list, then delete one by one; a key another process
\* deleted first ends the loop with an error.
Cleanup(t) ==
    /\ thread[t].pc = "clean" /\ MayLock(t)
    /\ Lock(t, "delete", {k \in Keys : Stored(k) /\ IsExpired(k) /\ ~row[k].active}, "idle")
    /\ UNCHANGED <<now, row, up, cache, until>>

DeleteKey(t) ==
    /\ thread[t].pc = "delete"
    /\ \/ \E k \in thread[t].keys :
            \/ /\ Stored(k)
               /\ row' = [row EXCEPT ![k].st = "gone", ![k].active = FALSE]
               /\ thread' = [thread EXCEPT ![t].keys = @ \ {k}]
            \/ /\ ~Stored(k)
               /\ thread' = [thread EXCEPT ![t] = Idle]
               /\ UNCHANGED row
       \/ /\ thread[t].keys = {}
          /\ thread' = [thread EXCEPT ![t] = Idle]
          /\ UNCHANGED row
    /\ UNCHANGED <<now, up, cache, until>>

\* A store error: the operation is abandoned where it is.
Fail(t) ==
    /\ thread[t].pc # "idle"
    /\ thread' = [thread EXCEPT ![t] = Idle]
    /\ UNCHANGED <<now, row, up, cache, until>>

\* The process stops; its threads and its cache are lost.
Crash(p) ==
    /\ p \in up
    /\ up' = up \ {p}
    /\ cache' = [cache EXCEPT ![p] = EmptyCache]
    /\ thread' = [t \in Threads |-> IF Home[t] = p THEN Idle ELSE thread[t]]
    /\ UNCHANGED <<now, row, until>>

\* GenerateIDTokenFor: the expiry is computed first, then the key is asked
\* for; the read lock waits while a thread holds the mutex.
Sign(p) ==
    /\ p \in up
    /\ \A t \in Threads : Home[t] = p => ~Holding(t)
    /\ \E k \in Keys :
         /\ GetActiveKey(p, {k})
         /\ until' = [until EXCEPT ![k] = now + TokenTTL]
    /\ UNCHANGED <<now, row, up, thread>>

Tick ==
    /\ now < MaxTime
    /\ \A t \in Threads : Writing(t) => now < thread[t].at + Latency
    /\ now' = now + 1
    /\ UNCHANGED <<row, up, cache, thread, until>>

-----------------------------------------------------------------------------
Init ==
    /\ now = 0
    /\ row = [k \in Keys |-> NoKey]
    /\ up = {}
    /\ cache = [p \in Servers |-> EmptyCache]
    /\ thread = [t \in Threads |-> Idle]
    /\ until = [k \in Keys |-> 0]

Next ==
    \/ \E t \in Threads :
          \/ \E then \in {"idle", "due"} : EnsureActiveKey(t, then)
          \/ RotateKey(t) \/ SaveOld(t) \/ SaveNew(t) \/ SetActive(t)
          \/ \E rotate \in BOOLEAN : Maintain(t, rotate)
          \/ Cleanup(t) \/ DeleteKey(t) \/ Fail(t)
    \/ \E p \in Servers : Crash(p) \/ Sign(p)
    \/ Tick

Spec == Init /\ [][Next]_vars

-----------------------------------------------------------------------------
(* Properties *)

\* A token may be signed CacheTTL after its key was replaced, and the change
\* itself takes time: by how much the grace period falls short of that.
Shortfall ==
    IF Grace >= TokenTTL + CacheTTL + Latency THEN 0
    ELSE TokenTTL + CacheTTL + Latency - Grace

\* A token verifies until it expires, but for the Shortfall of the grace period
\* at its end, whatever rotation, cleanup or crash came in between and however
\* stale the cache it was signed from.  A grace period that only covers the
\* token's lifetime leaves a shortfall of CacheTTL and more.
\* (RotateKey's ExpiresAt, cachedActive, CleanupExpiredKeys, parse)
SignedTokensVerify ==
    \A k \in Keys : now + Shortfall < until[k] => Verifies(k)

\* A key that was replaced never signs for the store again: only a key that
\* was just generated becomes active.  (Save, SetActive under the mutex)
ReplacedForGood ==
    [][\A k \in Keys : row[k] # NoKey /\ ~Active(k) => ~Active(k)']_vars

\* service.go: GetJWKS publishes "the active key and rotated-out keys still
\* inside their grace period".
ActiveKeyIsPublished ==
    \A k \in Keys : Active(k) => Verifies(k)
=============================================================================
