---------------------------- MODULE SessionPool ----------------------------
(***************************************************************************)
(* SessionManager: the cache of shared ONNX sessions with holder counts     *)
(* (acquire_session / release_session), the pools of exclusive sessions     *)
(* (acquire_exclusive_session / release_exclusive_session) with their       *)
(* condition variable, eviction of idle sessions by the periodic loop and   *)
(* of all unused ones by a thread that ran out of GPU memory, and the       *)
(* threads of the adapters that borrow sessions, run inference and return   *)
(* them. Each lock region of the code is one action.                        *)
(***************************************************************************)
EXTENDS Integers, FiniteSets

CONSTANTS
    Threads,       \* threads that run inference
    Singles,       \* models borrowed with acquire_session
    Pooled,        \* models borrowed with acquire_exclusive_session
    Sessions,      \* numbers of loaded InferenceSession objects
    None,
    Rank,          \* the order in which every adapter borrows its models
    Uses,          \* the sets of models the adapters borrow together
    PoolSizes,     \* values of the tagging_workers and captioning_workers settings
    MaxUses,       \* bound: uses per thread
    MaxFailures    \* bound: failed loads and out-of-memory runs

Models == Singles \cup Pooled

ASSUME ModelAssumption == Singles \cap Pooled = {}
ASSUME SessionAssumption == Sessions \subseteq Nat /\ None \notin Sessions
ASSUME UseAssumption ==
    /\ Uses \subseteq SUBSET Models
    /\ Rank \in [Models -> Nat]
    /\ \A u \in Uses : \A m, k \in u : Rank[m] = Rank[k] => m = k
ASSUME ThreadAssumption == IsFiniteSet(Threads)
ASSUME SizeAssumption == /\ PoolSizes \subseteq Nat /\ PoolSizes # {}
                         /\ MaxUses \in Nat /\ MaxFailures \in Nat

VARIABLES
    pc,            \* [Threads -> where the thread is]
    need,          \* [Threads -> models still to borrow]
    held,          \* [Threads -> [Models -> the session borrowed, or None]]
    limit,         \* [Threads -> pool_size of the present use]
    cache,         \* _sessions: [Singles -> session, or None]
    refs,          \* _SessionEntry.refcount
    pool,          \* _pools[m].entries: [Pooled -> sessions]
    free,          \* those of them with in_use = False
    pending,       \* _pools[m].pending
    uses,          \* [Threads -> uses begun]
    failures

threadVars == <<pc, need, held, limit, uses, failures>>
cacheVars  == <<cache, refs>>
poolVars   == <<pool, free, pending>>
vars == <<threadVars, cacheVars, poolVars>>

Places == {"idle", "asking", "loading", "waiting", "running", "evicting",
           "evictingPools", "releasing"}

Init ==
    /\ pc = [t \in Threads |-> "idle"]
    /\ need = [t \in Threads |-> {}]
    /\ held = [t \in Threads |-> [m \in Models |-> None]]
    /\ limit = [t \in Threads |-> 0]
    /\ uses = [t \in Threads |-> 0]
    /\ failures = 0
    /\ cache = [m \in Singles |-> None]
    /\ refs = [m \in Singles |-> 0]
    /\ pool = [m \in Pooled |-> {}]
    /\ free = [m \in Pooled |-> {}]
    /\ pending = [m \in Pooled |-> 0]

TypeOK ==
    /\ pc \in [Threads -> Places]
    /\ need \in [Threads -> SUBSET Models]
    /\ held \in [Threads -> [Models -> Sessions \cup {None}]]
    /\ limit \in [Threads -> Nat]
    /\ uses \in [Threads -> Nat]
    /\ failures \in Nat
    /\ cache \in [Singles -> Sessions \cup {None}]
    /\ refs \in [Singles -> Nat]
    /\ pool \in [Pooled -> SUBSET Sessions]
    /\ free \in [Pooled -> SUBSET Sessions]
    /\ pending \in [Pooled -> Nat]

-----------------------------------------------------------------------------
\* The session objects in use or cached.
Live == {cache[m] : m \in Singles} \cup (UNION {pool[m] : m \in Pooled})
          \cup {held[t][m] : t \in Threads, m \in Models}

\* A session object that has just been loaded: it is none of the live ones.
New(s) == s \in Sessions \ Live /\ \A r \in Sessions \ Live : s <= r

\* Mutant: the adapter that one of the threads runs borrows in the opposite order.
NextModelOpposed(t, m) ==
    /\ m \in need[t]
    /\ \A k \in need[t] : IF t = CHOOSE u \in Threads : TRUE THEN Rank[k] <= Rank[m]
                                                         ELSE Rank[m] <= Rank[k]

\* The model that the thread borrows next.
NextModel(t, m) == m \in need[t] /\ \A k \in need[t] : Rank[m] <= Rank[k]

\* notify_all: every waiting thread looks again.
Notified(p) == [t \in Threads |-> IF p[t] = "waiting" THEN "asking" ELSE p[t]]

\* The thread owns the session and goes on to its next model, or to inference.
Borrowed(t, m, s) ==
    /\ held' = [held EXCEPT ![t][m] = s]
    /\ need' = [need EXCEPT ![t] = @ \ {m}]
    /\ pc' = [pc EXCEPT ![t] = IF need[t] = {m} THEN "running" ELSE "asking"]

\* An adapter starts: pool_size is read from the settings for this use.
Begin(t) ==
    /\ pc[t] = "idle"
    /\ uses[t] < MaxUses
    /\ uses' = [uses EXCEPT ![t] = @ + 1]
    /\ \E u \in Uses \ {{}}, n \in PoolSizes :
          /\ need' = [need EXCEPT ![t] = u]
          /\ limit' = [limit EXCEPT ![t] = n]
    /\ pc' = [pc EXCEPT ![t] = "asking"]
    /\ UNCHANGED <<held, failures, cacheVars, poolVars>>

-----------------------------------------------------------------------------
(* Shared sessions                                                           *)

\* acquire_session finds the model in the cache.
Hit(t, m) ==
    /\ pc[t] = "asking" /\ NextModel(t, m)
    /\ cache[m] # None
    /\ refs' = [refs EXCEPT ![m] = @ + 1]
    /\ Borrowed(t, m, cache[m])
    /\ UNCHANGED <<limit, uses, failures, cache, poolVars>>

\* ... or does not, and loads it outside the lock.
Miss(t, m) ==
    /\ pc[t] = "asking" /\ NextModel(t, m)
    /\ cache[m] = None
    /\ pc' = [pc EXCEPT ![t] = "loading"]
    /\ UNCHANGED <<need, held, limit, uses, failures, cacheVars, poolVars>>

\* Mutant: the loaded session replaces what another thread has cached meanwhile.
PutOver(t, m) ==
    /\ pc[t] = "loading" /\ NextModel(t, m)
    /\ \E s \in Sessions :
          /\ New(s)
          /\ cache' = [cache EXCEPT ![m] = s]
          /\ refs' = [refs EXCEPT ![m] = 1]
          /\ Borrowed(t, m, s)
    /\ UNCHANGED <<limit, uses, failures, poolVars>>

\* Back under the lock: if another thread was faster its session is used and
\* the own one dropped.
Put(t, m) ==
    /\ pc[t] = "loading" /\ NextModel(t, m)
    /\ IF cache[m] = None
       THEN \E s \in Sessions :
              /\ New(s)
              /\ cache' = [cache EXCEPT ![m] = s]
              /\ refs' = [refs EXCEPT ![m] = 1]
              /\ Borrowed(t, m, s)
       ELSE /\ refs' = [refs EXCEPT ![m] = @ + 1]
            /\ Borrowed(t, m, cache[m])
            /\ cache' = cache
    /\ UNCHANGED <<limit, uses, failures, poolVars>>

\* The thread gives a session back; after the last one its use is over.
Returned(t, m) ==
    /\ held' = [held EXCEPT ![t][m] = None]
    /\ pc' = [pc EXCEPT ![t] =
                 IF \A k \in Models \ {m} : held[t][k] = None THEN "idle" ELSE "releasing"]

\* release_session.
Release(t, m) ==
    /\ pc[t] = "releasing"
    /\ held[t][m] # None
    /\ refs' = [refs EXCEPT ![m] = IF cache[m] = None \/ @ = 0 THEN @ ELSE @ - 1]
    /\ Returned(t, m)
    /\ UNCHANGED <<need, limit, uses, failures, cache, poolVars>>

-----------------------------------------------------------------------------
(* Exclusive sessions                                                        *)

\* Mutant: the slot that is being loaded is not counted.
FullEntries(t, m) == Cardinality(pool[m]) >= limit[t]

Full(t, m) == Cardinality(pool[m]) + pending[m] >= limit[t]

\* Mutant: the entry is handed out without being marked as in use.
TakeUnmarked(t, m) ==
    /\ pc[t] = "asking" /\ NextModel(t, m)
    /\ \E s \in free[m] : Borrowed(t, m, s)
    /\ UNCHANGED <<limit, uses, failures, cacheVars, poolVars>>

\* acquire_exclusive_session takes an entry that is not in use ...
Take(t, m) ==
    /\ pc[t] = "asking" /\ NextModel(t, m)
    /\ \E s \in free[m] :
          /\ free' = [free EXCEPT ![m] = @ \ {s}]
          /\ Borrowed(t, m, s)
    /\ UNCHANGED <<limit, uses, failures, cacheVars, pool, pending>>

\* ... or reserves a slot and loads outside the lock ...
Reserve(t, m) ==
    /\ pc[t] = "asking" /\ NextModel(t, m)
    /\ free[m] = {}
    /\ ~Full(t, m)
    /\ pending' = [pending EXCEPT ![m] = @ + 1]
    /\ pc' = [pc EXCEPT ![t] = "loading"]
    /\ UNCHANGED <<need, held, limit, uses, failures, cacheVars, pool, free>>

\* ... or waits on the condition.
Wait(t, m) ==
    /\ pc[t] = "asking" /\ NextModel(t, m)
    /\ free[m] = {}
    /\ Full(t, m)
    /\ pc' = [pc EXCEPT ![t] = "waiting"]
    /\ UNCHANGED <<need, held, limit, uses, failures, cacheVars, poolVars>>

\* The loaded session becomes an entry that is in use.
Append(t, m) ==
    /\ pc[t] = "loading" /\ NextModel(t, m)
    /\ \E s \in Sessions :
          /\ New(s)
          /\ pool' = [pool EXCEPT ![m] = @ \cup {s}]
          /\ Borrowed(t, m, s)
    /\ pending' = [pending EXCEPT ![m] = @ - 1]
    /\ UNCHANGED <<limit, uses, failures, cacheVars, free>>

\* The entry is free again and all waiting threads are notified.
ReleaseExclusive(t, m) ==
    /\ pc[t] = "releasing"
    /\ held[t][m] # None
    /\ free' = [free EXCEPT ![m] = @ \cup (pool[m] \cap {held[t][m]})]
    /\ held' = [held EXCEPT ![t][m] = None]
    /\ pc' = [Notified(pc) EXCEPT ![t] =
                 IF \A k \in Models \ {m} : held[t][k] = None THEN "idle" ELSE "releasing"]
    /\ UNCHANGED <<need, limit, uses, failures, cacheVars, pool, pending>>

-----------------------------------------------------------------------------
(* Failures and eviction                                                     *)

\* The use is given up; what it has borrowed is given back (finally, ExitStack).
GivenUp(p, t) ==
    [p EXCEPT ![t] = IF \A m \in Models : held[t][m] = None THEN "idle" ELSE "releasing"]

\* _load_session raises for a shared model.
LoadFails(t, m) ==
    /\ pc[t] = "loading" /\ NextModel(t, m)
    /\ failures < MaxFailures
    /\ failures' = failures + 1
    /\ need' = [need EXCEPT ![t] = {}]
    /\ pc' = GivenUp(pc, t)
    /\ UNCHANGED <<held, limit, uses, cacheVars, poolVars>>

\* Mutant: the reserved slot is given back without notifying the waiting threads.
AppendFailsSilently(t, m) ==
    /\ pc[t] = "loading" /\ NextModel(t, m)
    /\ failures < MaxFailures
    /\ failures' = failures + 1
    /\ pending' = [pending EXCEPT ![m] = @ - 1]
    /\ need' = [need EXCEPT ![t] = {}]
    /\ pc' = GivenUp(pc, t)
    /\ UNCHANGED <<held, limit, uses, cacheVars, pool, free>>

\* ... or for a pooled one: the reserved slot is given back.
AppendFails(t, m) ==
    /\ pc[t] = "loading" /\ NextModel(t, m)
    /\ failures < MaxFailures
    /\ failures' = failures + 1
    /\ pending' = [pending EXCEPT ![m] = @ - 1]
    /\ need' = [need EXCEPT ![t] = {}]
    /\ pc' = GivenUp(Notified(pc), t)
    /\ UNCHANGED <<held, limit, uses, cacheVars, pool, free>>

\* The inference calls of the use are over, all with a result or the last with an
\* error that is raised: any but out-of-memory, or the retry's.
Run(t) ==
    /\ pc[t] = "running"
    /\ pc' = [pc EXCEPT ![t] = "releasing"]
    /\ UNCHANGED <<need, held, limit, uses, failures, cacheVars, poolVars>>

\* run_with_oom_retry: an inference call is out of memory.
OutOfMemory(t) ==
    /\ pc[t] = "running"
    /\ failures < MaxFailures
    /\ failures' = failures + 1
    /\ pc' = [pc EXCEPT ![t] = "evicting"]
    /\ UNCHANGED <<need, held, limit, uses, cacheVars, poolVars>>

Evicted(gone) == [m \in Singles |-> IF m \in gone THEN None ELSE cache[m]]

\* Mutant: whatever is cached may go, borrowed or not.
UnusedAll == {m \in Singles : cache[m] # None}

\* The shared sessions nobody holds.
Unused == {m \in Singles : cache[m] # None /\ refs[m] = 0}

\* evict_unused, first under the lock of the cache ...
EvictUnused(t) ==
    /\ pc[t] = "evicting"
    /\ cache' = Evicted(Unused)
    /\ pc' = [pc EXCEPT ![t] = "evictingPools"]
    /\ UNCHANGED <<need, held, limit, uses, failures, refs, poolVars>>

\* Mutant: the pools start afresh, which forgets the loads under way.
EvictFreeResets(t) ==
    /\ pc[t] = "evictingPools"
    /\ pool' = [m \in Pooled |-> pool[m] \ free[m]]
    /\ free' = [m \in Pooled |-> {}]
    /\ pending' = [m \in Pooled |-> 0]
    /\ pc' = [Notified(pc) EXCEPT ![t] = "running"]
    /\ UNCHANGED <<need, held, limit, uses, failures, cacheVars>>

\* ... then under that of the pools, before the call is repeated once.
EvictFree(t) ==
    /\ pc[t] = "evictingPools"
    /\ pool' = [m \in Pooled |-> pool[m] \ free[m]]
    /\ free' = [m \in Pooled |-> {}]
    /\ pc' = [Notified(pc) EXCEPT ![t] = "running"]
    /\ UNCHANGED <<need, held, limit, uses, failures, cacheVars, pending>>

\* evict_idle removes what has been unused for longer than the timeout; which
\* sessions that are is left open. It notifies nobody.
EvictIdleSingles ==
    /\ \E gone \in SUBSET Unused \ {{}} : cache' = Evicted(gone)
    /\ UNCHANGED <<threadVars, refs, poolVars>>

EvictIdlePooled ==
    /\ \E gone \in SUBSET UNION {free[m] : m \in Pooled} \ {{}} :
          /\ pool' = [m \in Pooled |-> pool[m] \ (free[m] \cap gone)]
          /\ free' = [m \in Pooled |-> free[m] \ gone]
    /\ UNCHANGED <<threadVars, cacheVars, pending>>

-----------------------------------------------------------------------------
Borrow(t) ==
    \/ \E m \in Singles : Hit(t, m) \/ Miss(t, m) \/ Put(t, m) \/ LoadFails(t, m)
    \/ \E m \in Pooled : Take(t, m) \/ Reserve(t, m) \/ Wait(t, m) \/ Append(t, m)
                          \/ AppendFails(t, m)

Work(t) == Run(t) \/ OutOfMemory(t) \/ EvictUnused(t) \/ EvictFree(t)

GiveBack(t) ==
    \/ \E m \in Singles : Release(t, m)
    \/ \E m \in Pooled : ReleaseExclusive(t, m)

Thread(t) == Begin(t) \/ Borrow(t) \/ Work(t) \/ GiveBack(t)

Next == (\E t \in Threads : Thread(t)) \/ EvictIdleSingles \/ EvictIdlePooled

Spec == Init /\ [][Next]_vars

\* A thread that can go on does; whether it starts another use, and when the
\* eviction loop finds something idle, is left open.
FairSpec == Spec /\ \A t \in Threads : WF_vars(Borrow(t) \/ Work(t) \/ GiveBack(t))

-----------------------------------------------------------------------------
(* Properties                                                                *)

Holders(m) == {t \in Threads : held[t][m] # None}
Loaders(m) == {t \in Threads : pc[t] = "loading" /\ NextModel(t, m)}

\* "Sessions with active references are never evicted": what a thread has borrowed
\* stays in the cache or in its pool, marked as in use, until it gives it back.
InUseStays ==
    \A t \in Threads :
        /\ \A m \in Singles : held[t][m] # None => cache[m] = held[t][m]
        /\ \A m \in Pooled : held[t][m] # None => held[t][m] \in pool[m] \ free[m]

\* "Each pool entry is handed to exactly one caller at a time" (ONNX Runtime
\* sessions are not re-entrant).
Exclusive ==
    \A t, u \in Threads, m \in Pooled :
        held[t][m] # None /\ held[t][m] = held[u][m] => t = u

\* What is borrowed is safe: it stays, and a pooled session is with one thread only, whatever
\* loads, returns, runs out of memory or is evicted meanwhile.
SessionsKept == InUseStays /\ Exclusive

\* The books balance: the holder count of a shared session is the number of its
\* holders, the reserved slots are the loads under way, and every entry of a
\* pool is free or held. No error path leaks a reference or a slot.
Accounts ==
    /\ \A m \in Singles : refs[m] = Cardinality(Holders(m))
    /\ \A m \in Pooled :
          /\ pending[m] = Cardinality(Loaders(m))
          /\ pool[m] = free[m] \cup {held[t][m] : t \in Holders(m)}

\* No wakeup is lost: a thread waits only while the pool of its model has no free
\* entry and no room for another one.
WaitJustified ==
    \A t \in Threads : pc[t] = "waiting" =>
        \A m \in Pooled : NextModel(t, m) => free[m] = {} /\ Full(t, m)

\* A pool never grows beyond the largest size it was asked for.
Bounded ==
    \A m \in Pooled : \E n \in PoolSizes : Cardinality(pool[m]) + pending[m] <= n

\* The books of cache and pools balance and stay within the size asked for, with the loads
\* outside the lock and those that fail.
BooksBalance == Accounts /\ Bounded

\* Every use of borrowed sessions comes to an end: nobody waits for ever, although
\* a use holds some sessions while it waits for others.
UseEnds == \A t \in Threads : pc[t] # "idle" ~> pc[t] = "idle"
=============================================================================
