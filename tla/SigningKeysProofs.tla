------------------------- MODULE SigningKeysProofs -------------------------
(***************************************************************************)
(* Type correctness of SigningKeys and, when no two processes change the   *)
(* keys at the same time, the proof that a signed token verifies until it  *)
(* expires, or until Shortfall before that.                                *)
(*                                                                         *)
(* The argument is about time.  A key is retired Grace after the moment    *)
(* the rotating thread took its lock; the row changes at most Latency      *)
(* later; whoever had cached the key until then signs with it for less     *)
(* than CacheTTL more, and what it signs lives TokenTTL.  The grace period *)
(* is a setting of its own: nothing is assumed about its length.           *)
(***************************************************************************)
EXTENDS SigningKeys, TLAPS

\* Of a key: nothing is signed before it is born, an active key is stored and
\* has no expiry, a retired one outlives its tokens, and only an expired one
\* is deleted.
KeysOutlive ==
    \A k \in Keys :
        /\ row[k].st = "unborn" => row[k].exp = Never /\ until[k] = 0
        /\ row[k].active => row[k].st = "stored" /\ row[k].exp = Never
        /\ row[k].st = "gone" => row[k].exp # Never /\ row[k].exp < now
        /\ row[k].exp # Never => until[k] <= row[k].exp + Shortfall
        /\ until[k] <= now + TokenTTL

\* A key a server may still sign with was stored, and if it is retired it
\* outlives every token that can still be signed from the cache.
CachesOutlived ==
    \A p \in Servers :
        /\ cache[p].at <= now
        /\ \A k \in cache[p].key :
             /\ row[k].st # "unborn"
             /\ row[k].exp # Never => cache[p].at + CacheTTL + TokenTTL <= row[k].exp + Shortfall

\* A change of the keys is not late, the key it retires or activates is the
\* active one, and the keys a cleanup has listed are expired.
ChangesInOrder ==
    \A t \in Threads :
        /\ Writing(t) => thread[t].at <= now /\ now <= thread[t].at + Latency
        /\ thread[t].pc \in {"saveOld", "setActive"} => \A k \in thread[t].keys : Active(k)
        /\ thread[t].pc = "delete" => \A k \in thread[t].keys : row[k].exp # Never /\ row[k].exp < now

\* Only one thread of all processes is changing the keys.
OneWriter == \A s, t \in Threads : Writing(s) /\ Writing(t) => s = t

KeyInv == TypeOK /\ KeysOutlive /\ CachesOutlived /\ ChangesInOrder /\ OneWriter

-----------------------------------------------------------------------------
(* Type correctness.                                                       *)

\* The empty store is well typed.
LEMMA InitType == Init => TypeOK
BY TimesAssumption DEF Init, TypeOK, Key, NoKey, Never, Cache, EmptyCache, Thread, Idle

\* A thread that goes on, takes the mutex or gives up is well typed.
LEMMA ThreadType ==
  ASSUME TypeOK, NEW t \in Threads
  PROVE  /\ \A pc \in {"idle", "due", "clean"}, then \in {"idle", "due", "clean"} :
              Goto(t, pc, then) => thread' \in [Threads -> Thread]
         /\ \A pc \in {"saveOld", "saveNew", "delete"}, keys \in SUBSET Keys, then \in {"idle", "due", "clean"} :
              Lock(t, pc, keys, then) => thread' \in [Threads -> Thread]
         /\ [thread EXCEPT ![t] = Idle] \in [Threads -> Thread]
<1>1. Idle \in Thread
  BY DEF Idle, Thread
<1>2. ASSUME NEW pc \in {"idle", "due", "clean"}, NEW then \in {"idle", "due", "clean"}, Goto(t, pc, then)
      PROVE  thread' \in [Threads -> Thread]
  <2>1. [Idle EXCEPT !.pc = pc, !.then = then] \in Thread
    BY DEF Idle, Thread
  <2> QED BY <1>2, <2>1 DEF TypeOK, Goto
<1>3. ASSUME NEW pc \in {"saveOld", "saveNew", "delete"}, NEW keys \in SUBSET Keys,
             NEW then \in {"idle", "due", "clean"}, Lock(t, pc, keys, then)
      PROVE  thread' \in [Threads -> Thread]
  BY <1>3 DEF TypeOK, Lock, Thread
<1>4. [thread EXCEPT ![t] = Idle] \in [Threads -> Thread]
  BY <1>1 DEF TypeOK
<1> QED BY <1>2, <1>3, <1>4

\* What GetActive answers are sets of keys.
LEMMA GetActiveType == ASSUME NEW key \in GetActive PROVE key \in SUBSET Keys
BY DEF GetActive

\* Caching an answer keeps the cache well typed.
LEMMA SetCacheType ==
  ASSUME TypeOK, NEW p, NEW key \in SUBSET Keys, SetCache(p, key)
  PROVE  cache' \in [Servers -> Cache]
BY DEF TypeOK, SetCache, Cache

\* Reading the active key, from the cache or the store, keeps it well typed.
LEMMA GetActiveKeyType ==
  ASSUME TypeOK, NEW p, NEW k \in Keys, GetActiveKey(p, {k})
  PROVE  cache' \in [Servers -> Cache]
BY SetCacheType DEF TypeOK, GetActiveKey

\* Activating a key keeps the table well typed.
LEMMA ActivateType ==
  ASSUME TypeOK, NEW k \in Keys, NEW r \in Key
  PROVE  Activate(k, r) \in [Keys -> Key]
BY DEF TypeOK, Activate, Key

\* Every step of the key service keeps every variable in its type.
LEMMA NextType == TypeOK /\ [Next]_vars => TypeOK'
<1> SUFFICES ASSUME TypeOK, [Next]_vars PROVE TypeOK'
  OBVIOUS
<1>1. ASSUME NEW t \in Threads, NEW then \in {"idle", "due"}, EnsureActiveKey(t, then) PROVE TypeOK'
  <2> PICK key \in GetActive :
             \/ /\ key # {}
                /\ SetCache(Home[t], key)
                /\ Serves(Home[t], then)
                /\ Goto(t, then, "idle")
             \/ /\ key = {}
                /\ Home[t] \in Servers => then = "idle"
                /\ Lock(t, "saveNew", {}, then)
                /\ UNCHANGED <<cache, up>>
    BY <1>1 DEF EnsureActiveKey
  <2>1. thread' \in [Threads -> Thread] /\ cache' \in [Servers -> Cache] /\ up' \in SUBSET Servers
    BY ThreadType, GetActiveType, SetCacheType DEF TypeOK, Serves
  <2> QED BY <1>1, <2>1 DEF EnsureActiveKey, TypeOK
<1>2. ASSUME NEW t \in Threads, RotateKey(t) PROVE TypeOK'
  <2>1. thread[t].then \in {"idle", "due", "clean"}
    BY DEF TypeOK, Thread
  <2>2. thread' \in [Threads -> Thread]
    BY <1>2, <2>1, ThreadType, GetActiveType DEF RotateKey
  <2> QED BY <1>2, <2>2 DEF RotateKey, TypeOK
<1>3. ASSUME NEW t \in Threads, SaveOld(t) PROVE TypeOK'
  <2>1. Retired(t) \in Key
    BY TimesAssumption DEF TypeOK, Retired, Key, Thread
  <2> QED BY <1>3, <2>1 DEF SaveOld, TypeOK, Thread
<1>4. ASSUME NEW t \in Threads, SaveNew(t) PROVE TypeOK'
  <2>1. [NoKey EXCEPT !.st = "stored"] \in Key
    BY DEF NoKey, Key
  <2>2. PICK k \in Keys :
         /\ row' = Activate(k, [NoKey EXCEPT !.st = "stored"])
         /\ thread' = [thread EXCEPT ![t].pc = "setActive", ![t].keys = {k}]
    BY <1>4 DEF SaveNew
  <2>3. row' \in [Keys -> Key]
    BY <2>1, <2>2, ActivateType
  <2>4. [thread[t] EXCEPT !.pc = "setActive", !.keys = {k}] \in Thread
    BY DEF TypeOK, Thread
  <2>5. thread' \in [Threads -> Thread]
    BY <2>2, <2>4 DEF TypeOK
  <2> QED BY <1>4, <2>3, <2>5 DEF SaveNew, TypeOK
<1>5. ASSUME NEW t \in Threads, SetActive(t) PROVE TypeOK'
  <2>1. thread[t].then \in {"idle", "due", "clean"} /\ thread[t].keys \subseteq Keys
    BY DEF TypeOK, Thread
  <2>2. PICK k \in thread[t].keys :
         \/ /\ Stored(k)
            /\ row' = Activate(k, row[k])
            /\ SetCache(Home[t], {k})
            /\ Serves(Home[t], thread[t].then)
            /\ Goto(t, thread[t].then, "idle")
         \/ /\ ~Stored(k)
            /\ thread' = [thread EXCEPT ![t] = Idle]
            /\ UNCHANGED <<row, cache, up>>
    BY <1>5 DEF SetActive
  <2>3. thread' \in [Threads -> Thread] /\ cache' \in [Servers -> Cache] /\ up' \in SUBSET Servers
    BY <2>1, <2>2, ThreadType, SetCacheType DEF TypeOK, Serves
  <2>4. row' \in [Keys -> Key]
    BY <2>1, <2>2, ActivateType DEF TypeOK
  <2> QED BY <1>5, <2>3, <2>4 DEF SetActive, TypeOK
<1>6. ASSUME NEW t \in Threads, NEW rotate \in BOOLEAN, Maintain(t, rotate) PROVE TypeOK'
  BY <1>6, ThreadType, GetActiveKeyType DEF Maintain, TypeOK
<1>7. ASSUME NEW t \in Threads, Cleanup(t) PROVE TypeOK'
  BY <1>7, ThreadType DEF Cleanup, TypeOK
<1>8. ASSUME NEW t \in Threads, DeleteKey(t) PROVE TypeOK'
  <2>1. CASE \E k \in thread[t].keys :
               /\ row' = [row EXCEPT ![k].st = "gone", ![k].active = FALSE]
               /\ thread' = [thread EXCEPT ![t].keys = @ \ {k}]
    <3> PICK k \in thread[t].keys :
               /\ row' = [row EXCEPT ![k].st = "gone", ![k].active = FALSE]
               /\ thread' = [thread EXCEPT ![t].keys = @ \ {k}]
      BY <2>1
    <3>1. k \in Keys
      BY DEF TypeOK, Thread
    <3>2. [row[k] EXCEPT !.st = "gone", !.active = FALSE] \in Key
      BY <3>1 DEF TypeOK, Key
    <3>3. [thread[t] EXCEPT !.keys = @ \ {k}] \in Thread
      BY DEF TypeOK, Thread
    <3> QED BY <1>8, <3>1, <3>2, <3>3 DEF DeleteKey, TypeOK
  <2>2. CASE thread' = [thread EXCEPT ![t] = Idle] /\ UNCHANGED row
    BY <1>8, <2>2, ThreadType DEF DeleteKey, TypeOK
  <2> QED BY <1>8, <2>1, <2>2 DEF DeleteKey
<1>9. ASSUME NEW t \in Threads, Fail(t) PROVE TypeOK'
  BY <1>9, ThreadType DEF Fail, TypeOK
<1>10. ASSUME NEW p \in Servers, Crash(p) PROVE TypeOK'
  BY <1>10 DEF Crash, TypeOK, Cache, EmptyCache, Thread, Idle
<1>11. ASSUME NEW p \in Servers, Sign(p) PROVE TypeOK'
  BY <1>11, GetActiveKeyType, TimesAssumption DEF Sign, TypeOK
<1>12. ASSUME Tick PROVE TypeOK'
  BY <1>12 DEF Tick, TypeOK
<1>13. ASSUME UNCHANGED vars PROVE TypeOK'
  BY <1>13 DEF vars, TypeOK
<1> QED BY <1>1, <1>2, <1>3, <1>4, <1>5, <1>6, <1>7, <1>8, <1>9, <1>10, <1>11, <1>12, <1>13 DEF Next

\* Rows, caches and threads keep their shape through every start, rotation,
\* cleanup, signature, error and crash, whether or not processes overlap.
THEOREM TypeCorrect == Spec => []TypeOK
BY InitType, NextType, PTL DEF Spec

-----------------------------------------------------------------------------
(* The keys outlive what they signed.                                      *)

\* With no process overlapping another, taking the mutex to change the keys
\* means that nobody else is changing them (mu.Lock, service.go:80).
LEMMA Alone ==
  ASSUME TypeOK, ~Overlap, NEW t \in Threads, MayLock(t), OtherProcessesWait(t)
  PROVE  \A s \in Threads \ {t} : ~Writing(s)
BY ThreadsAssumption DEF MayLock, OtherProcessesWait, Holding

\* The shortfall is what the grace period lacks.
LEMMA ShortfallCovers ==
  Shortfall \in Nat /\ TokenTTL + CacheTTL + Latency <= Grace + Shortfall
BY TimesAssumption DEF Shortfall

\* The empty store satisfies the invariant.
LEMMA InitInv == Init => KeyInv
<1> SUFFICES ASSUME Init PROVE KeyInv
  OBVIOUS
<1>1. TypeOK
  BY InitType
<1>2. KeysOutlive
  BY TimesAssumption DEF Init, KeysOutlive, NoKey
<1>3. CachesOutlived
  BY DEF Init, CachesOutlived, EmptyCache
<1>4. ChangesInOrder /\ OneWriter
  BY DEF Init, ChangesInOrder, OneWriter, Writing, Idle
<1> QED BY <1>1, <1>2, <1>3, <1>4 DEF KeyInv

\* A server that caches the active key: it has no expiry yet.
LEMMA CachingActive ==
  ASSUME KeyInv, NEW p, NEW key, \A k \in key : k \in Keys /\ Active(k), SetCache(p, key),
         UNCHANGED <<now, row>>
  PROVE  CachesOutlived'
<1>1. TypeOK /\ KeysOutlive /\ CachesOutlived
  BY DEF KeyInv
<1>2. ASSUME NEW q \in Servers
      PROVE  /\ (cache[q].at <= now)'
             /\ \A k \in cache'[q].key :
                  /\ row'[k].st # "unborn"
                  /\ row'[k].exp # Never => cache'[q].at + CacheTTL + TokenTTL <= row'[k].exp + Shortfall
  <2>1. CASE q = p
    <3>1. cache'[q] = [key |-> key, at |-> now]
      BY <2>1 DEF SetCache
    <3> QED BY <1>1, <3>1 DEF KeysOutlive, Active, Stored, TypeOK
  <2>2. CASE q # p
    BY <1>1, <2>2 DEF SetCache, CachesOutlived
  <2> QED BY <2>1, <2>2
<1> QED BY <1>2 DEF CachesOutlived

\* What GetActive answers is active (repo.GetActive).
LEMMA GetActiveActive == ASSUME NEW key \in GetActive PROVE \A k \in key : k \in Keys /\ Active(k)
BY DEF GetActive

\* Reading the active key for signing or for ShouldRotate.
LEMMA GetActiveKeyKeeps ==
  ASSUME KeyInv, NEW p, NEW k \in Keys, GetActiveKey(p, {k}), UNCHANGED <<now, row>>
  PROVE  CachesOutlived'
<1>1. CASE UNCHANGED cache
  BY <1>1 DEF KeyInv, CachesOutlived
<1>2. CASE {k} \in GetActive /\ SetCache(p, {k})
  BY <1>2, CachingActive, GetActiveActive
<1> QED BY <1>1, <1>2 DEF GetActiveKey

\* While the keys, the clock and the threads that change keys stay as they
\* are, so does what is known about them.
LEMMA QuietKeeps ==
  ASSUME KeyInv, UNCHANGED <<now, row, until>>,
         \A t \in Threads : thread'[t] = thread[t] \/ thread'[t].pc \in {"idle", "due", "clean"}
  PROVE  KeysOutlive' /\ ChangesInOrder' /\ OneWriter'
<1>1. KeysOutlive'
  BY DEF KeyInv, KeysOutlive
<1>2. ChangesInOrder'
  BY DEF KeyInv, ChangesInOrder, Writing, Active, Stored
<1>3. OneWriter'
  BY DEF KeyInv, OneWriter, Writing
<1> QED BY <1>1, <1>2, <1>3

\* A thread that takes the mutex to retire or to generate a key.
LEMMA LockKeeps ==
  ASSUME KeyInv, ~Overlap, NEW t \in Threads, MayLock(t), OtherProcessesWait(t),
         NEW pc \in {"saveOld", "saveNew"}, NEW keys, NEW then, Lock(t, pc, keys, then),
         \A k \in keys : Active(k), UNCHANGED <<now, row, until, cache>>
  PROVE  KeysOutlive' /\ ChangesInOrder' /\ OneWriter' /\ CachesOutlived'
<1>1. KeysOutlive' /\ CachesOutlived'
  BY DEF KeyInv, KeysOutlive, CachesOutlived
<1>2. thread'[t] = [pc |-> pc, then |-> then, keys |-> keys, at |-> now] /\ now \in Nat
  BY DEF Lock, KeyInv, TypeOK
<1>3. \A s \in Threads \ {t} : thread'[s] = thread[s] /\ ~Writing(s)
  BY Alone DEF Lock, KeyInv, TypeOK
<1>4. ChangesInOrder'
  BY <1>2, <1>3, TimesAssumption DEF KeyInv, ChangesInOrder, Writing, Active, Stored
<1>5. OneWriter'
  BY <1>3 DEF OneWriter, Writing
<1> QED BY <1>1, <1>4, <1>5

\* Retiring the old key: its expiry covers the tokens it signed and those a
\* cache that has read it so far may still sign (RotateKey, service.go:121).
LEMMA SaveOldKeeps ==
  ASSUME KeyInv, NEW t \in Threads, SaveOld(t)
  PROVE  KeysOutlive' /\ ChangesInOrder' /\ OneWriter' /\ CachesOutlived'
<1>1. TypeOK /\ KeysOutlive /\ CachesOutlived /\ ChangesInOrder /\ OneWriter
  BY DEF KeyInv
<1>2. /\ thread[t].at \in Nat /\ thread[t].at <= now /\ now <= thread[t].at + Latency
      /\ \A k \in thread[t].keys : k \in Keys /\ Active(k)
  BY <1>1 DEF TypeOK, Thread, SaveOld, ChangesInOrder, Writing
<1>3. \A k \in Keys : row'[k] = IF k \in thread[t].keys THEN Retired(t) ELSE row[k]
  BY DEF SaveOld
<1>4. /\ Retired(t).st = "stored" /\ ~Retired(t).active
      /\ Retired(t).exp = thread[t].at + Grace
  BY DEF Retired
<1>5. KeysOutlive'
  BY <1>1, <1>2, <1>3, <1>4, ShortfallCovers, TimesAssumption DEF SaveOld, KeysOutlive, TypeOK, Never
<1>6. CachesOutlived'
  BY <1>1, <1>2, <1>3, <1>4, ShortfallCovers, TimesAssumption DEF SaveOld, CachesOutlived, TypeOK, Cache, Never
<1>7. thread'[t].pc = "saveNew" /\ thread'[t].at = thread[t].at
  BY <1>1 DEF SaveOld, TypeOK, Thread
<1>8. \A s \in Threads \ {t} : thread'[s] = thread[s] /\ ~Writing(s)
  BY <1>1 DEF SaveOld, TypeOK, OneWriter, Writing
<1>9. ChangesInOrder'
  <2>1. \A s \in Threads \ {t}, k \in Keys :
          thread[s].pc = "delete" /\ k \in thread[s].keys => row'[k] = row[k]
    BY <1>1, <1>2, <1>3 DEF ChangesInOrder, KeysOutlive, Active
  <2>2. \A s \in Threads : thread[s].keys \subseteq Keys
    BY <1>1 DEF TypeOK, Thread
  <2> QED BY <1>1, <1>2, <1>7, <1>8, <2>1, <2>2 DEF SaveOld, ChangesInOrder, Writing
<1>10. OneWriter'
  BY <1>8 DEF OneWriter, Writing
<1> QED BY <1>5, <1>6, <1>9, <1>10

\* Activating a key that is stored and has no expiry: it is the active one
\* and no other key gets or loses an expiry (Save and SetActive).
LEMMA ActivateKeeps ==
  ASSUME TypeOK, KeysOutlive, CachesOutlived, NEW k \in Keys, NEW r \in Key,
         r.st = "stored", r.exp = Never, row[k] = NoKey \/ Active(k),
         row' = Activate(k, r), UNCHANGED <<now, until>>
  PROVE  /\ KeysOutlive'
         /\ UNCHANGED cache => CachesOutlived'
         /\ Active(k)'
         /\ \A j \in Keys : row'[j].exp = row[j].exp
<1>1. \A j \in Keys : row'[j] = IF j = k THEN [r EXCEPT !.active = TRUE] ELSE [row[j] EXCEPT !.active = FALSE]
  BY DEF Activate
<1>2. \A j \in Keys \ {k} : /\ row'[j].st = row[j].st /\ row'[j].exp = row[j].exp /\ ~row'[j].active
  <2> SUFFICES ASSUME NEW j \in Keys \ {k}
               PROVE  row'[j].st = row[j].st /\ row'[j].exp = row[j].exp /\ ~row'[j].active
    OBVIOUS
  <2>1. row'[j] = [row[j] EXCEPT !.active = FALSE] /\ row[j] \in Key
    BY <1>1 DEF TypeOK
  <2> QED BY <2>1 DEF Key
<1>3. row'[k].st = "stored" /\ row'[k].exp = Never /\ row'[k].active
  BY <1>1 DEF Key
<1>4. row[k].exp = Never
  BY DEF KeysOutlive, NoKey, Active
<1>5. KeysOutlive'
  BY <1>2, <1>3 DEF KeysOutlive
<1>6. ASSUME UNCHANGED cache PROVE CachesOutlived'
  BY <1>2, <1>3, <1>6 DEF CachesOutlived, TypeOK, Cache
<1> QED BY <1>2, <1>3, <1>4, <1>5, <1>6 DEF Active, Stored

\* Saving the new key (RotateKey and EnsureActiveKey).
LEMMA SaveNewKeeps ==
  ASSUME KeyInv, NEW t \in Threads, SaveNew(t)
  PROVE  KeysOutlive' /\ ChangesInOrder' /\ OneWriter' /\ CachesOutlived'
<1>1. TypeOK /\ KeysOutlive /\ CachesOutlived /\ ChangesInOrder /\ OneWriter
  BY DEF KeyInv
<1> DEFINE new == [NoKey EXCEPT !.st = "stored"]
<1>2. PICK k \in Keys :
         /\ row[k] = NoKey
         /\ row' = Activate(k, new)
         /\ thread' = [thread EXCEPT ![t].pc = "setActive", ![t].keys = {k}]
  BY DEF SaveNew
<1>3. new \in Key /\ new.st = "stored" /\ new.exp = Never
  BY DEF NoKey, Key
<1>4. /\ KeysOutlive' /\ CachesOutlived' /\ Active(k)'
      /\ \A j \in Keys : row'[j].exp = row[j].exp
  BY <1>1, <1>2, <1>3, ActivateKeeps DEF SaveNew
<1>5. /\ thread'[t].pc = "setActive" /\ thread'[t].at = thread[t].at /\ thread'[t].keys = {k}
  BY <1>1, <1>2 DEF TypeOK, Thread
<1>6. \A s \in Threads \ {t} : thread'[s] = thread[s] /\ ~Writing(s)
  BY <1>1, <1>2 DEF SaveNew, TypeOK, OneWriter, Writing
<1>7. \A s \in Threads : thread[s].keys \subseteq Keys
  BY <1>1 DEF TypeOK, Thread
<1>8. ChangesInOrder'
  <2> SUFFICES ASSUME NEW s \in Threads
               PROVE  /\ Writing(s)' => thread'[s].at <= now' /\ now' <= thread'[s].at + Latency
                      /\ thread'[s].pc \in {"saveOld", "setActive"} => \A j \in thread'[s].keys : Active(j)'
                      /\ thread'[s].pc = "delete" =>
                           \A j \in thread'[s].keys : row'[j].exp # Never /\ row'[j].exp < now'
    BY DEF ChangesInOrder
  <2>1. now' = now /\ thread[t].pc = "saveNew"
    BY DEF SaveNew
  <2>2. CASE s = t
    <3>1. thread[t].at <= now /\ now <= thread[t].at + Latency
      BY <1>1, <2>1 DEF ChangesInOrder, Writing
    <3> QED BY <1>4, <1>5, <2>1, <2>2, <3>1
  <2>3. CASE s # t
    <3>1. thread'[s] = thread[s] /\ ~Writing(s)
      BY <1>6, <2>3
    <3>2. thread[s].pc = "delete" => \A j \in thread[s].keys : row[j].exp # Never /\ row[j].exp < now
      BY <1>1 DEF ChangesInOrder
    <3> QED BY <1>4, <1>7, <2>1, <3>1, <3>2 DEF Writing
  <2> QED BY <2>2, <2>3
<1>9. OneWriter'
  BY <1>6 DEF OneWriter, Writing
<1> QED BY <1>4, <1>8, <1>9

\* Making the new key the active one and caching it.
LEMMA SetActiveKeeps ==
  ASSUME KeyInv, NEW t \in Threads, SetActive(t)
  PROVE  KeysOutlive' /\ ChangesInOrder' /\ OneWriter' /\ CachesOutlived'
<1>1. TypeOK /\ KeysOutlive /\ CachesOutlived /\ ChangesInOrder /\ OneWriter
  BY DEF KeyInv
<1>2. PICK k \in thread[t].keys :
         \/ /\ Stored(k)
            /\ row' = Activate(k, row[k])
            /\ SetCache(Home[t], {k})
            /\ Goto(t, thread[t].then, "idle")
         \/ /\ ~Stored(k)
            /\ thread' = [thread EXCEPT ![t] = Idle]
            /\ UNCHANGED <<row, cache, up>>
  BY DEF SetActive
<1>3. k \in Keys /\ Active(k) /\ row[k] \in Key /\ row[k].st = "stored" /\ row[k].exp = Never
  BY <1>1 DEF SetActive, TypeOK, Thread, ChangesInOrder, KeysOutlive, Active, Stored
<1>4. /\ row' = Activate(k, row[k])
      /\ SetCache(Home[t], {k})
      /\ Goto(t, thread[t].then, "idle")
  BY <1>2, <1>3 DEF Stored
<1>5. /\ KeysOutlive' /\ Active(k)'
      /\ \A j \in Keys : row'[j].exp = row[j].exp
  BY <1>1, <1>3, <1>4, ActivateKeeps DEF SetActive
<1>6. row' \in [Keys -> Key] /\ \A j \in Keys : row'[j].st = row[j].st
  BY <1>1, <1>3, <1>4 DEF Activate, TypeOK, Key
<1>7. CachesOutlived'
  <2> SUFFICES ASSUME NEW q \in Servers
               PROVE  /\ (cache[q].at <= now)'
                      /\ \A j \in cache'[q].key :
                           /\ row'[j].st # "unborn"
                           /\ row'[j].exp # Never => cache'[q].at + CacheTTL + TokenTTL <= row'[j].exp + Shortfall
    BY DEF CachesOutlived
  <2>1. CASE q = Home[t]
    <3>1. cache'[q] = [key |-> {k}, at |-> now] /\ now' = now
      BY <1>4, <2>1 DEF SetCache, SetActive
    <3> QED BY <1>1, <1>3, <1>5, <1>6, <3>1 DEF TypeOK
  <2>2. CASE q # Home[t]
    <3>1. cache'[q] = cache[q] /\ now' = now /\ cache[q].key \subseteq Keys
      BY <1>1, <1>4, <2>2 DEF SetCache, SetActive, TypeOK, Cache
    <3> QED BY <1>1, <1>5, <1>6, <3>1 DEF CachesOutlived
  <2> QED BY <2>1, <2>2
<1>8. thread'[t].pc \in {"idle", "due", "clean"}
  BY <1>1, <1>4 DEF Goto, Idle, TypeOK, Thread
<1>9. \A s \in Threads \ {t} : thread'[s] = thread[s] /\ ~Writing(s)
  BY <1>1, <1>4 DEF Goto, SetActive, TypeOK, OneWriter, Writing
<1>10. \A s \in Threads : thread[s].keys \subseteq Keys
  BY <1>1 DEF TypeOK, Thread
<1>11. ChangesInOrder'
  BY <1>1, <1>5, <1>8, <1>9, <1>10 DEF SetActive, ChangesInOrder, Writing
<1>12. OneWriter'
  BY <1>8, <1>9 DEF OneWriter, Writing
<1> QED BY <1>5, <1>7, <1>11, <1>12

\* Deleting a listed key: it is expired, so no token of it is alive and no
\* thread is about to activate it (CleanupExpiredKeys, service.go:198).
LEMMA DeleteKeyKeeps ==
  ASSUME KeyInv, NEW t \in Threads, DeleteKey(t)
  PROVE  KeysOutlive' /\ ChangesInOrder' /\ OneWriter' /\ CachesOutlived'
<1>1. TypeOK /\ KeysOutlive /\ CachesOutlived /\ ChangesInOrder /\ OneWriter
  BY DEF KeyInv
<1>2. CASE UNCHANGED row /\ thread' = [thread EXCEPT ![t] = Idle]
  <2>1. \A s \in Threads : thread'[s] = thread[s] \/ thread'[s].pc \in {"idle", "due", "clean"}
    BY <1>1, <1>2 DEF TypeOK, Idle
  <2>2. CachesOutlived'
    BY <1>1, <1>2 DEF DeleteKey, CachesOutlived
  <2> QED BY <1>2, <2>1, <2>2, QuietKeeps DEF DeleteKey
<1>3. CASE \E k \in thread[t].keys :
             /\ Stored(k)
             /\ row' = [row EXCEPT ![k].st = "gone", ![k].active = FALSE]
             /\ thread' = [thread EXCEPT ![t].keys = @ \ {k}]
  <2> PICK k \in thread[t].keys :
             /\ Stored(k)
             /\ row' = [row EXCEPT ![k].st = "gone", ![k].active = FALSE]
             /\ thread' = [thread EXCEPT ![t].keys = @ \ {k}]
    BY <1>3
  <2>1. k \in Keys /\ row[k].exp # Never /\ row[k].exp < now
    BY <1>1 DEF DeleteKey, TypeOK, Thread, ChangesInOrder
  <2>2. /\ row'[k].st = "gone" /\ ~row'[k].active /\ row'[k].exp = row[k].exp
        /\ \A j \in Keys \ {k} : row'[j] = row[j]
    BY <1>1, <2>1 DEF TypeOK, Key
  <2>3. KeysOutlive'
    BY <1>1, <2>1, <2>2 DEF DeleteKey, KeysOutlive
  <2>4. CachesOutlived'
    <3>1. UNCHANGED <<cache, now>>
      BY DEF DeleteKey
    <3>2. \A j \in Keys : row'[j].exp = row[j].exp /\ (row[j].st # "unborn" => row'[j].st # "unborn")
      BY <2>2
    <3>3. \A q \in Servers : cache[q].key \subseteq Keys
      BY <1>1 DEF TypeOK, Cache
    <3> QED BY <1>1, <3>1, <3>2, <3>3 DEF CachesOutlived
  <2>5. ~Active(k)
    BY <1>1, <2>1 DEF KeysOutlive, Active
  <2>6. /\ thread'[t].pc = "delete" /\ thread'[t].keys \subseteq thread[t].keys
        /\ \A s \in Threads \ {t} : thread'[s] = thread[s]
        /\ \A s \in Threads : thread[s].keys \subseteq Keys
    BY <1>1 DEF DeleteKey, TypeOK, Thread
  <2>7. ChangesInOrder'
    <3> SUFFICES ASSUME NEW s \in Threads
                 PROVE  /\ Writing(s)' => thread'[s].at <= now' /\ now' <= thread'[s].at + Latency
                        /\ thread'[s].pc \in {"saveOld", "setActive"} => \A j \in thread'[s].keys : Active(j)'
                        /\ thread'[s].pc = "delete" =>
                             \A j \in thread'[s].keys : row'[j].exp # Never /\ row'[j].exp < now'
      BY DEF ChangesInOrder
    <3>1. now' = now /\ \A j \in Keys : row'[j].exp = row[j].exp /\ (Active(j) => Active(j)')
      BY <2>2, <2>5 DEF DeleteKey, Active, Stored
    <3>2. CASE s = t
      BY <1>1, <2>6, <3>1, <3>2 DEF DeleteKey, ChangesInOrder, Writing
    <3>3. CASE s # t
      BY <1>1, <2>6, <3>1, <3>3 DEF ChangesInOrder, Writing
    <3> QED BY <3>2, <3>3
  <2>8. OneWriter'
    BY <1>1, <2>6 DEF OneWriter, Writing
  <2> QED BY <2>3, <2>4, <2>7, <2>8
<1> QED BY <1>2, <1>3 DEF DeleteKey

\* Signing: a key from the cache or the store lives longer than the token
\* (GenerateIDTokenFor, GetActiveKey).
LEMMA SignKeeps ==
  ASSUME KeyInv, NEW p \in Servers, Sign(p)
  PROVE  KeysOutlive' /\ ChangesInOrder' /\ OneWriter' /\ CachesOutlived'
<1>1. TypeOK /\ KeysOutlive /\ CachesOutlived /\ ChangesInOrder /\ OneWriter
  BY DEF KeyInv
<1>2. PICK k \in Keys : GetActiveKey(p, {k}) /\ until' = [until EXCEPT ![k] = now + TokenTTL]
  BY DEF Sign
<1>3. /\ until'[k] = now + TokenTTL /\ now \in Nat /\ until \in [Keys -> Nat]
      /\ \A j \in Keys \ {k} : until'[j] = until[j]
  BY <1>1, <1>2 DEF TypeOK
<1>4. row[k].st # "unborn" /\ (row[k].exp # Never => now + TokenTTL <= row[k].exp + Shortfall)
  <2>1. CASE {k} = CachedActive(p)
    <3>1. k \in cache[p].key /\ now - cache[p].at < CacheTTL
      BY <2>1 DEF CachedActive
    <3>2. cache[p].at \in Nat /\ row[k].exp \in Nat \cup {Never}
      BY <1>1 DEF TypeOK, Cache, Key
    <3> QED BY <1>1, <3>1, <3>2, ShortfallCovers, TimesAssumption DEF CachesOutlived, TypeOK, Never
  <2>2. CASE {k} \in GetActive
    BY <1>1, <2>2, GetActiveActive DEF KeysOutlive, Active, Stored
  <2> QED BY <1>2, <2>1, <2>2 DEF GetActiveKey
<1>5. KeysOutlive'
  BY <1>1, <1>3, <1>4, ShortfallCovers, TimesAssumption DEF Sign, KeysOutlive
<1>6. ChangesInOrder' /\ OneWriter'
  BY <1>1 DEF Sign, ChangesInOrder, OneWriter, Writing, Active, Stored
<1>7. CachesOutlived'
  BY <1>2, GetActiveKeyKeeps DEF Sign
<1> QED BY <1>5, <1>6, <1>7

\* Time passes: expiries do not move, and a change under way is not late yet.
LEMMA TickKeeps ==
  ASSUME KeyInv, Tick
  PROVE  KeysOutlive' /\ ChangesInOrder' /\ OneWriter' /\ CachesOutlived'
<1>1. TypeOK /\ KeysOutlive /\ CachesOutlived /\ ChangesInOrder /\ OneWriter
  BY DEF KeyInv
<1>2. now \in Nat /\ now' = now + 1
  BY <1>1 DEF Tick, TypeOK
<1>3. \A k \in Keys : row[k].exp \in Int /\ until[k] \in Nat
  BY <1>1 DEF TypeOK, Key, Never
<1>4. KeysOutlive'
  BY <1>1, <1>2, <1>3, ShortfallCovers, TimesAssumption DEF Tick, KeysOutlive
<1>5. CachesOutlived'
  BY <1>1, <1>2 DEF Tick, CachesOutlived, TypeOK, Cache
<1>6. \A t \in Threads : thread[t].at \in Nat /\ thread[t].keys \subseteq Keys
  BY <1>1 DEF TypeOK, Thread
<1>7. ChangesInOrder'
  BY <1>1, <1>2, <1>3, <1>6, TimesAssumption DEF Tick, ChangesInOrder, Writing, Active, Stored
<1>8. OneWriter'
  BY <1>1 DEF Tick, OneWriter, Writing
<1> QED BY <1>4, <1>5, <1>7, <1>8

\* Every step of a key service whose processes do not overlap keeps the keys
\* ahead of the tokens.
LEMMA NextInv == ~Overlap /\ KeyInv /\ [Next]_vars => KeyInv'
<1> SUFFICES ASSUME ~Overlap, KeyInv, [Next]_vars
             PROVE  KeysOutlive' /\ ChangesInOrder' /\ OneWriter' /\ CachesOutlived'
  BY NextType DEF KeyInv
<1>0. TypeOK /\ CachesOutlived
  BY DEF KeyInv
<1>1. ASSUME NEW t \in Threads, NEW then \in {"idle", "due"}, EnsureActiveKey(t, then)
      PROVE  KeysOutlive' /\ ChangesInOrder' /\ OneWriter' /\ CachesOutlived'
  <2> PICK key \in GetActive :
             \/ SetCache(Home[t], key) /\ Goto(t, then, "idle")
             \/ Lock(t, "saveNew", {}, then) /\ UNCHANGED cache
    BY <1>1 DEF EnsureActiveKey
  <2>1. CASE SetCache(Home[t], key) /\ Goto(t, then, "idle")
    <3>1. \A s \in Threads : thread'[s] = thread[s] \/ thread'[s].pc \in {"idle", "due", "clean"}
      BY <1>0, <2>1 DEF Goto, Idle, TypeOK
    <3> QED BY <1>1, <2>1, <3>1, GetActiveActive, CachingActive, QuietKeeps DEF EnsureActiveKey
  <2>2. CASE Lock(t, "saveNew", {}, then) /\ UNCHANGED cache
    BY <1>1, <2>2, LockKeeps DEF EnsureActiveKey
  <2> QED BY <2>1, <2>2
<1>2. ASSUME NEW t \in Threads, RotateKey(t)
      PROVE  KeysOutlive' /\ ChangesInOrder' /\ OneWriter' /\ CachesOutlived'
  <2>1. PICK key \in GetActive : Lock(t, IF key = {} THEN "saveNew" ELSE "saveOld", key, thread[t].then)
    BY <1>2 DEF RotateKey
  <2> QED BY <1>2, <2>1, GetActiveActive, LockKeeps DEF RotateKey
<1>3. ASSUME NEW t \in Threads, NEW rotate \in BOOLEAN, Maintain(t, rotate)
      PROVE  KeysOutlive' /\ ChangesInOrder' /\ OneWriter' /\ CachesOutlived'
  <2>1. CachesOutlived'
    <3>1. CASE \E k \in Keys : GetActiveKey(Home[t], {k})
      BY <1>3, <3>1, GetActiveKeyKeeps DEF Maintain
    <3>2. CASE UNCHANGED cache
      BY <1>0, <1>3, <3>2 DEF Maintain, CachesOutlived
    <3> QED BY <1>3, <3>1, <3>2 DEF Maintain
  <2>2. \A s \in Threads : thread'[s] = thread[s] \/ thread'[s].pc \in {"idle", "due", "clean"}
    BY <1>0, <1>3 DEF Maintain, Goto, Idle, TypeOK
  <2> QED BY <1>3, <2>1, <2>2, QuietKeeps DEF Maintain
<1>4. ASSUME NEW t \in Threads, Cleanup(t)
      PROVE  KeysOutlive' /\ ChangesInOrder' /\ OneWriter' /\ CachesOutlived'
  <2> DEFINE old == {k \in Keys : Stored(k) /\ IsExpired(k) /\ ~row[k].active}
  <2>1. thread'[t] = [pc |-> "delete", then |-> "idle", keys |-> old, at |-> now]
    BY <1>0, <1>4 DEF Cleanup, Lock, TypeOK
  <2>2. \A k \in old : k \in Keys /\ row[k].exp # Never /\ row[k].exp < now
    BY <1>0 DEF IsExpired, TypeOK, Key, Never
  <2> HIDE DEF old
  <2>3. \A s \in Threads \ {t} : thread'[s] = thread[s]
    BY <1>0, <1>4 DEF Cleanup, Lock, TypeOK
  <2>4. KeysOutlive' /\ CachesOutlived'
    BY <1>4 DEF Cleanup, KeyInv, KeysOutlive, CachesOutlived
  <2>5. ChangesInOrder'
    BY <1>4, <2>1, <2>2, <2>3 DEF Cleanup, KeyInv, ChangesInOrder, Writing, Active, Stored
  <2>6. OneWriter'
    BY <2>1, <2>3 DEF KeyInv, OneWriter, Writing
  <2> QED BY <2>4, <2>5, <2>6
<1>5. ASSUME NEW t \in Threads, Fail(t)
      PROVE  KeysOutlive' /\ ChangesInOrder' /\ OneWriter' /\ CachesOutlived'
  <2>1. \A s \in Threads : thread'[s] = thread[s] \/ thread'[s].pc \in {"idle", "due", "clean"}
    BY <1>0, <1>5 DEF Fail, Idle, TypeOK
  <2>2. CachesOutlived'
    BY <1>0, <1>5 DEF Fail, CachesOutlived
  <2> QED BY <1>5, <2>1, <2>2, QuietKeeps DEF Fail
<1>6. ASSUME NEW p \in Servers, Crash(p)
      PROVE  KeysOutlive' /\ ChangesInOrder' /\ OneWriter' /\ CachesOutlived'
  <2>1. \A s \in Threads : thread'[s] = thread[s] \/ thread'[s].pc \in {"idle", "due", "clean"}
    BY <1>0, <1>6 DEF Crash, Idle, TypeOK
  <2>2. CachesOutlived'
    BY <1>0, <1>6 DEF Crash, CachesOutlived, EmptyCache, TypeOK
  <2> QED BY <1>6, <2>1, <2>2, QuietKeeps DEF Crash
<1>7. ASSUME UNCHANGED vars
      PROVE  KeysOutlive' /\ ChangesInOrder' /\ OneWriter' /\ CachesOutlived'
  BY <1>0, <1>7, QuietKeeps DEF vars, CachesOutlived
<1> QED BY <1>1, <1>2, <1>3, <1>4, <1>5, <1>6, <1>7, SaveOldKeeps, SaveNewKeeps, SetActiveKeeps,
           DeleteKeyKeeps, SignKeeps, TickKeeps DEF Next

\* With one process changing the keys at a time, the invariant always holds.
THEOREM KeyInvariant == ASSUME ~Overlap PROVE Spec => []KeyInv
BY InitInv, NextInv, PTL DEF Spec

\* As long as no two processes change the keys at the same time, a token
\* verifies until Shortfall before it expires, whatever rotation, cleanup,
\* error or crash comes in between and however stale the cache it was signed
\* from: to its end when the grace period covers the token, the cache and the
\* change itself, and with any other grace period no less than it must.
THEOREM TokensVerify == ASSUME ~Overlap PROVE Spec => []SignedTokensVerify
<1>1. KeyInv => SignedTokensVerify
  <2> SUFFICES ASSUME KeyInv, NEW k \in Keys, now + Shortfall < until[k] PROVE Verifies(k)
    BY DEF SignedTokensVerify
  <2>1. /\ now \in Nat /\ until[k] \in Nat /\ row[k].exp \in Int
        /\ row[k].st \in {"unborn", "stored", "gone"}
    BY DEF KeyInv, TypeOK, Key, Never
  <2>2. row[k].exp # Never => until[k] <= row[k].exp + Shortfall
    BY DEF KeyInv, KeysOutlive
  <2>3. row[k].st = "stored"
    BY <2>1, <2>2, ShortfallCovers DEF KeyInv, KeysOutlive
  <2> QED BY <2>1, <2>2, <2>3, ShortfallCovers DEF Verifies, Stored, IsExpired
<1> QED BY <1>1, KeyInvariant, PTL

\* Under the same condition GetJWKS publishes the active key: the violation
\* that run keys_overlap shows needs processes that overlap.
THEOREM ActiveKeyPublished == ASSUME ~Overlap PROVE Spec => []ActiveKeyIsPublished
<1>1. KeyInv => ActiveKeyIsPublished
  BY DEF KeyInv, KeysOutlive, ActiveKeyIsPublished, Active, Verifies, Stored, IsExpired
<1> QED BY <1>1, KeyInvariant, PTL

\* Under the same condition a key that was replaced is never activated again:
\* SetActive only finds the key its thread has just saved, still active.
THEOREM ReplacedKeysStayReplaced == ASSUME ~Overlap PROVE Spec => ReplacedForGood
<1> DEFINE Kept == \A k \in Keys : row[k] # NoKey /\ ~Active(k) => ~Active(k)'
<1>1. KeyInv /\ [Next]_vars => [Kept]_vars
  <2> SUFFICES ASSUME KeyInv, Next, NEW k \in Keys, row[k] # NoKey, ~Active(k)
               PROVE  ~Active(k)'
    OBVIOUS
  <2>1. ASSUME NEW t \in Threads, SaveOld(t) PROVE ~Active(k)'
    BY <2>1 DEF SaveOld, Active, Stored, Retired
  <2>2. ASSUME NEW t \in Threads, SaveNew(t) PROVE ~Active(k)'
    BY <2>2 DEF SaveNew, Activate, Active, Stored, KeyInv, TypeOK, Key
  <2>3. ASSUME NEW t \in Threads, SetActive(t) PROVE ~Active(k)'
    <3>1. k \notin thread[t].keys
      BY <2>3 DEF SetActive, KeyInv, ChangesInOrder
    <3> QED BY <2>3, <3>1 DEF SetActive, Activate, Active, Stored, KeyInv, TypeOK, Key
  <2>4. ASSUME NEW t \in Threads, DeleteKey(t) PROVE ~Active(k)'
    <3>1. \/ UNCHANGED row
          \/ \E j \in thread[t].keys : row' = [row EXCEPT ![j].st = "gone", ![j].active = FALSE]
      BY <2>4 DEF DeleteKey
    <3>2. row \in [Keys -> Key]
      BY DEF KeyInv, TypeOK
    <3> QED BY <3>1, <3>2 DEF Active, Stored, Key
  <2>5. CASE UNCHANGED row
    BY <2>5 DEF Active, Stored
  <2> QED BY <2>1, <2>2, <2>3, <2>4, <2>5 DEF Next, EnsureActiveKey, RotateKey, Maintain, Cleanup,
             Fail, Crash, Sign, Tick
<1>2. ReplacedForGood <=> [][Kept]_vars
  BY DEF ReplacedForGood
<1> QED BY <1>1, <1>2, KeyInvariant, PTL DEF Spec

=============================================================================
