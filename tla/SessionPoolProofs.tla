------------------------- MODULE SessionPoolProofs -------------------------
(***************************************************************************)
(* Proofs about SessionPool for any number of threads, models, session      *)
(* objects, uses, failures and pool sizes. The safety properties are proved *)
(* together, since each needs the others: a session in use survives an      *)
(* eviction because its holder count is right, a slot can be given back     *)
(* because the reserved ones are counted, a waiting thread waits for good   *)
(* reason because the pool it waits for is full.                            *)
(*                                                                         *)
(* And proofs about HeavyModels, the models outside the pool, for any       *)
(* number of threads, processes, models and calls. In a process whose       *)
(* threads all use one runtime the bound is a count: a slot holds what some *)
(* thread has, or some thread has nothing. In a process with one thread it  *)
(* follows the order of the lock regions.                                   *)
(***************************************************************************)
EXTENDS SessionPool, HeavyModels, FiniteSetTheorems, TLAPS

\* The models of a set have different ranks: a thread has one next model.
Distinct(S) == \A m, k \in S : Rank[m] = Rank[k] => m = k

\* What a thread holds and needs at each place.
ThreadShape ==
    \A t \in Threads :
        /\ pc[t] # "idle" => limit[t] \in PoolSizes
        /\ pc[t] = "idle" => \A m \in Models : held[t][m] = None
        /\ Distinct(need[t])
        /\ \A m \in need[t] : held[t][m] = None

\* Pools are finite, and what is free is in the pool.
PoolShape == \A m \in Pooled : IsFiniteSet(pool[m]) /\ free[m] \subseteq pool[m]

Shape == ThreadShape /\ PoolShape

\* The inductive invariant.
IInv == /\ TypeOK /\ Shape
        /\ InUseStays /\ Exclusive /\ Accounts /\ WaitJustified /\ Bounded

-----------------------------------------------------------------------------
(* Lemmas about counting and about the next model                           *)

\* A thread has at most one next model.
LEMMA OneNext ==
    ASSUME TypeOK, Shape, NEW t \in Threads, NEW m, NEW k, NextModel(t, m), NextModel(t, k)
    PROVE  m = k
<1>1. m \in need[t] /\ k \in need[t] /\ need[t] \subseteq Models
  BY DEF NextModel, TypeOK
<1>2. Rank[m] \in Nat /\ Rank[k] \in Nat
  BY <1>1, UseAssumption
<1>3. Rank[m] = Rank[k]
  BY <1>1, <1>2 DEF NextModel
<1> QED  BY <1>1, <1>3 DEF Shape, ThreadShape, Distinct

\* The next model is a model.
LEMMA NextIsModel ==
    ASSUME TypeOK, NEW t \in Threads, NEW m, NextModel(t, m)
    PROVE  m \in Models
BY DEF TypeOK, NextModel

\* Sets of threads are finite, and their sizes follow a thread in and out.
LEMMA Counting ==
    ASSUME NEW S \in SUBSET Threads, NEW t
    PROVE  /\ Cardinality(S) \in Nat
           /\ t \in S => Cardinality(S) # 0 /\ Cardinality(S \ {t}) = Cardinality(S) - 1
           /\ t \notin S => Cardinality(S \cup {t}) = Cardinality(S) + 1
           /\ S = {} => Cardinality(S) = 0
<1>1. IsFiniteSet(S)
  BY ThreadAssumption, FS_Subset
<1> QED  BY <1>1, FS_CardinalityType, FS_AddElement, FS_RemoveElement, FS_EmptySet

\* The loads under way stay the same while no thread starts or ends one.
LEMMA LoadersSame ==
    ASSUME \A u \in Threads : pc'[u] = "loading" <=> pc[u] = "loading",
           \A u \in Threads : pc[u] = "loading" => need'[u] = need[u]
    PROVE  \A k : Loaders(k)' = Loaders(k)
BY DEF Loaders, NextModel

\* A thread that ends its load leaves the loads under way of its next model.
LEMMA LoadersLess ==
    ASSUME TypeOK, Shape, NEW t \in Threads, NEW m, NextModel(t, m),
           pc[t] = "loading", pc'[t] # "loading",
           \A u \in Threads \ {t} : pc'[u] = "loading" <=> pc[u] = "loading",
           \A u \in Threads \ {t} : need'[u] = need[u]
    PROVE  /\ t \in Loaders(m)
           /\ Loaders(m)' = Loaders(m) \ {t}
           /\ \A k : k # m => Loaders(k)' = Loaders(k)
<1>1. \A k : NextModel(t, k) => k = m
  BY OneNext
<1>2. \A u \in Threads \ {t} : \A k : NextModel(u, k)' <=> NextModel(u, k)
  BY DEF NextModel
<1> QED  BY <1>1, <1>2 DEF Loaders

-----------------------------------------------------------------------------
(* Steps that leave sessions and counters alone                             *)

\* A step that changes neither sessions nor counters nor the loads under way
\* keeps the properties about them.
LEMMA Quiet ==
    ASSUME IInv, UNCHANGED <<held, cacheVars, poolVars>>,
           \A k \in Pooled : Loaders(k)' = Loaders(k)
    PROVE  InUseStays' /\ Exclusive' /\ Accounts' /\ Bounded'
<1> USE DEF IInv, cacheVars, poolVars
<1>1. InUseStays' /\ Exclusive' /\ Bounded'
  BY DEF InUseStays, Exclusive, Bounded
<1>2. Accounts'
  <2>1. \A k : Holders(k)' = Holders(k)
    BY DEF Holders
  <2>2. \A k \in Pooled : {held[u][k] : u \in Holders(k)}' = {held[u][k] : u \in Holders(k)}
    BY <2>1
  <2> QED  BY <2>1, <2>2 DEF Accounts
<1> QED  BY <1>1, <1>2

\* A waiting thread keeps its reason to wait while free entries do not appear and
\* the pools do not shrink.
LEMMA WaitersKeep ==
    ASSUME WaitJustified,
           \A u \in Threads : pc'[u] = "waiting" =>
               pc[u] = "waiting" /\ need'[u] = need[u] /\ limit'[u] = limit[u],
           \A k \in Pooled : free[k] = {} =>
               /\ free'[k] = {}
               /\ \A n \in Nat : Cardinality(pool[k]) + pending[k] >= n
                                   => Cardinality(pool'[k]) + pending'[k] >= n,
           \A u \in Threads : limit[u] \in Nat
    PROVE  WaitJustified'
<1> SUFFICES ASSUME NEW u \in Threads, pc'[u] = "waiting",
                    NEW k \in Pooled, NextModel(u, k)'
             PROVE  free'[k] = {} /\ Full(u, k)'
  BY DEF WaitJustified
<1>1. pc[u] = "waiting" /\ NextModel(u, k)
  BY DEF NextModel
<1>2. free[k] = {} /\ Full(u, k)
  BY <1>1 DEF WaitJustified
<1> QED  BY <1>2 DEF Full

\* The empty manager satisfies the invariant.
LEMMA InitIInv == Init => IInv
<1> SUFFICES ASSUME Init PROVE IInv
  OBVIOUS
<1>1. TypeOK
  BY DEF Init, TypeOK, Places
<1>2. Shape
  BY FS_EmptySet DEF Init, Shape, ThreadShape, PoolShape, Distinct
<1>3. InUseStays /\ Exclusive /\ WaitJustified
  BY DEF Init, InUseStays, Exclusive, WaitJustified, Models
<1>4. Accounts
  <2>1. \A m \in Models : Holders(m) = {} /\ Loaders(m) = {}
    BY DEF Init, Holders, Loaders
  <2> QED  BY <2>1, FS_EmptySet DEF Init, Accounts, Models
<1>5. Bounded
  <2>1. PICK n \in PoolSizes : n \in Nat
    BY SizeAssumption
  <2>2. \A m \in Pooled : Cardinality(pool[m]) + pending[m] = 0
    BY FS_EmptySet DEF Init
  <2> QED  BY <2>1, <2>2 DEF Bounded
<1> QED  BY <1>1, <1>2, <1>3, <1>4, <1>5 DEF IInv

\* Starting a use, waiting, missing the cache and running keep the invariant.
LEMMA ControlSteps ==
    ASSUME IInv, NEW t \in Threads,
           \/ Begin(t) \/ Run(t) \/ OutOfMemory(t)
           \/ \E m \in Pooled : Wait(t, m)
    PROVE  IInv'
<1> USE DEF IInv
<1>1. TypeOK'
  <2>1. CASE Begin(t)
    <3>1. \A u \in Uses : u \subseteq Models
      BY UseAssumption
    <3> QED  BY <2>1, <3>1, SizeAssumption DEF Begin, TypeOK, Places, cacheVars, poolVars
  <2>2. CASE Run(t) \/ OutOfMemory(t) \/ \E m \in Pooled : Wait(t, m)
    BY <2>2 DEF Run, OutOfMemory, Wait, TypeOK, Places, cacheVars, poolVars
  <2> QED  BY <2>1, <2>2
<1>2. Shape'
  <2>1. CASE Begin(t)
    <3>1. \A u \in Uses : u \subseteq Models /\ Distinct(u)
      BY UseAssumption DEF Distinct
    <3> QED  BY <2>1, <3>1 DEF Begin, Shape, ThreadShape, PoolShape, TypeOK, poolVars, Distinct
  <2>2. CASE Run(t) \/ OutOfMemory(t) \/ \E m \in Pooled : Wait(t, m)
    BY <2>2 DEF Run, OutOfMemory, Wait, Shape, ThreadShape, PoolShape, TypeOK, poolVars, Distinct
  <2> QED  BY <2>1, <2>2
<1>3. UNCHANGED <<held, cacheVars, poolVars>>
  BY DEF Begin, Run, OutOfMemory, Wait
<1>4. \A k : Loaders(k)' = Loaders(k)
  <2>1. \A u \in Threads : pc'[u] = "loading" <=> pc[u] = "loading"
    BY DEF Begin, Run, OutOfMemory, Wait, TypeOK
  <2>2. \A u \in Threads : pc[u] = "loading" => need'[u] = need[u]
    BY DEF Begin, Run, OutOfMemory, Wait, TypeOK
  <2> QED  BY <2>1, <2>2, LoadersSame
<1>5. InUseStays' /\ Exclusive' /\ Accounts' /\ Bounded'
  BY <1>3, <1>4, Quiet
<1>6. WaitJustified'
  <2>1. CASE \E m \in Pooled : Wait(t, m)
    <3>1. PICK m \in Pooled : Wait(t, m)
      BY <2>1
    <3> SUFFICES ASSUME NEW u \in Threads, pc'[u] = "waiting",
                        NEW k \in Pooled, NextModel(u, k)'
                 PROVE  free[k] = {} /\ Full(u, k)
      BY <3>1, <1>3 DEF WaitJustified, Wait, Full, poolVars
    <3>2. NextModel(u, k)
      BY <3>1 DEF Wait, NextModel
    <3>3. CASE u = t
      BY <3>1, <3>2, <3>3, OneNext DEF Wait
    <3>4. CASE u # t
      BY <3>1, <3>2, <3>4 DEF Wait, WaitJustified, TypeOK
    <3> QED  BY <3>3, <3>4
  <2>2. CASE Begin(t) \/ Run(t) \/ OutOfMemory(t)
    <3>1. \A u \in Threads : pc'[u] = "waiting" =>
               pc[u] = "waiting" /\ need'[u] = need[u] /\ limit'[u] = limit[u]
      BY <2>2 DEF Begin, Run, OutOfMemory, TypeOK
    <3> QED  BY <3>1, <1>3, WaitersKeep DEF TypeOK, poolVars
  <2> QED  BY <2>1, <2>2
<1> QED  BY <1>1, <1>2, <1>5, <1>6

-----------------------------------------------------------------------------
(* Borrowing                                                                 *)

\* Borrowing a model adds the thread to its holders and touches nothing else that
\* is held; the thread is then neither idle nor loading nor waiting.
LEMMA BorrowedFacts ==
    ASSUME IInv, NEW t \in Threads, NEW m \in Models, NEW s \in Sessions,
           NextModel(t, m), pc[t] # "idle", limit' = limit, Borrowed(t, m, s)
    PROVE  /\ pc' \in [Threads -> Places]
           /\ need' \in [Threads -> SUBSET Models]
           /\ held' \in [Threads -> [Models -> Sessions \cup {None}]]
           /\ ThreadShape'
           /\ t \notin Holders(m) /\ Holders(m)' = Holders(m) \cup {t}
           /\ \A k \in Models \ {m} : Holders(k)' = Holders(k)
           /\ held[t][m] = None /\ held'[t][m] = s
           /\ \A u \in Threads, k \in Models :
                 u # t \/ k # m => held'[u][k] = held[u][k]
           /\ pc'[t] \notin {"idle", "loading", "waiting"}
           /\ \A u \in Threads \ {t} : pc'[u] = pc[u] /\ need'[u] = need[u]
<1> USE DEF IInv
<1>1. /\ pc' \in [Threads -> Places]
      /\ need' \in [Threads -> SUBSET Models]
      /\ held' \in [Threads -> [Models -> Sessions \cup {None}]]
  BY DEF Borrowed, TypeOK, Places
<1>2. held[t][m] = None
  BY DEF NextModel, Shape, ThreadShape
<1>3. /\ held'[t][m] = s
      /\ \A u \in Threads, k \in Models : u # t \/ k # m => held'[u][k] = held[u][k]
  BY DEF Borrowed, TypeOK
<1>4. /\ pc'[t] \notin {"idle", "loading", "waiting"}
      /\ need'[t] = need[t] \ {m}
      /\ \A u \in Threads \ {t} : pc'[u] = pc[u] /\ need'[u] = need[u]
  BY DEF Borrowed, TypeOK
<1>5. ThreadShape'
  <2> SUFFICES ASSUME NEW u \in Threads
               PROVE  /\ pc'[u] # "idle" => limit'[u] \in PoolSizes
                      /\ pc'[u] = "idle" => \A k \in Models : held'[u][k] = None
                      /\ Distinct(need'[u])
                      /\ \A k \in need'[u] : held'[u][k] = None
    BY DEF ThreadShape, Distinct
  <2>1. CASE u = t
    <3>1. \A k \in need'[u] : k \in Models /\ k # m /\ k \in need[u]
      BY <2>1, <1>4 DEF TypeOK
    <3> QED  BY <2>1, <3>1, <1>3, <1>4 DEF Shape, ThreadShape, Distinct
  <2>2. CASE u # t
    <3>1. \A k \in need[u] : k \in Models
      BY DEF TypeOK
    <3> QED  BY <2>2, <3>1, <1>3, <1>4 DEF Shape, ThreadShape, Distinct
  <2> QED  BY <2>1, <2>2
<1>6. t \notin Holders(m) /\ Holders(m)' = Holders(m) \cup {t}
  BY <1>2, <1>3, SessionAssumption DEF Holders
<1>7. \A k \in Models \ {m} : Holders(k)' = Holders(k)
  BY <1>3 DEF Holders
<1> QED  BY <1>1, <1>2, <1>3, <1>4, <1>5, <1>6, <1>7

\* The sets of sessions held of the other pools stay.
LEMMA SameHeld ==
    ASSUME NEW k, Holders(k)' = Holders(k), \A u \in Threads : held'[u][k] = held[u][k]
    PROVE  {held[u][k] : u \in Holders(k)}' = {held[u][k] : u \in Holders(k)}
BY DEF Holders

\* Borrowing a shared session, from the cache or freshly loaded.
LEMMA SharedBorrow ==
    ASSUME IInv, NEW t \in Threads, NEW m \in Singles, NEW s \in Sessions,
           NextModel(t, m), pc[t] \in {"asking", "loading"}, limit' = limit, Borrowed(t, m, s),
           UNCHANGED <<uses, failures, poolVars>>,
           cache' = [cache EXCEPT ![m] = s],
           \/ cache[m] = s /\ refs' = [refs EXCEPT ![m] = @ + 1]
           \/ cache[m] = None /\ refs' = [refs EXCEPT ![m] = 1],
           \A k \in Pooled : Loaders(k)' = Loaders(k)
    PROVE  IInv'
<1> USE DEF IInv, poolVars
<1> m \in Models /\ Singles \subseteq Models /\ Pooled \subseteq Models /\ m \notin Pooled
  BY ModelAssumption DEF Models
<1> DEFINE B == /\ pc' \in [Threads -> Places]
                /\ need' \in [Threads -> SUBSET Models]
                /\ held' \in [Threads -> [Models -> Sessions \cup {None}]]
                /\ ThreadShape'
                /\ t \notin Holders(m) /\ Holders(m)' = Holders(m) \cup {t}
                /\ \A k \in Models \ {m} : Holders(k)' = Holders(k)
                /\ held[t][m] = None /\ held'[t][m] = s
                /\ \A u \in Threads, k \in Models :
                      u # t \/ k # m => held'[u][k] = held[u][k]
                /\ pc'[t] \notin {"idle", "loading", "waiting"}
                /\ \A u \in Threads \ {t} : pc'[u] = pc[u] /\ need'[u] = need[u]
<1>1. B
  BY BorrowedFacts
<1>2. TypeOK'
  <2>1. cache' \in [Singles -> Sessions \cup {None}] /\ refs' \in [Singles -> Nat]
    BY DEF TypeOK
  <2> HIDE DEF IInv
  <2> QED  BY <2>1, <1>1 DEF IInv, TypeOK
<1>3. Shape'
  BY <1>1 DEF Shape, PoolShape
<1>4. InUseStays'
  <2>1. \A u \in Threads \ {t} : held[u][m] # None => cache'[m] = held[u][m]
    BY SessionAssumption DEF InUseStays, TypeOK
  <2>2. cache'[m] = s /\ \A k \in Singles \ {m} : cache'[k] = cache[k]
    BY DEF TypeOK
  <2>3. \A u \in Threads, k \in Singles : held'[u][k] # None => cache'[k] = held'[u][k]
    BY <2>1, <2>2, <1>1 DEF InUseStays
  <2>4. \A u \in Threads, k \in Pooled : held'[u][k] = held[u][k]
    BY <1>1
  <2> QED  BY <2>3, <2>4 DEF InUseStays
<1>5. Exclusive'
  BY <1>1 DEF Exclusive
<1>6. Accounts'
  <2>1. refs'[m] = Cardinality(Holders(m)')
    <3>1. Holders(m) \in SUBSET Threads
      BY DEF Holders
    <3>2. Cardinality(Holders(m)') = Cardinality(Holders(m)) + 1
      BY <3>1, <1>1, Counting
    <3>3. cache[m] = None => Cardinality(Holders(m)) = 0
      <4>1. cache[m] = None => Holders(m) = {}
        BY DEF Holders, InUseStays
      <4> QED  BY <4>1, FS_EmptySet
    <3> QED  BY <3>2, <3>3, SessionAssumption DEF Accounts, TypeOK
  <2>2. \A k \in Singles \ {m} : refs'[k] = Cardinality(Holders(k)')
    BY <1>1 DEF Accounts, TypeOK
  <2>3. \A k \in Pooled : {held[u][k] : u \in Holders(k)}' = {held[u][k] : u \in Holders(k)}
    <3> TAKE k \in Pooled
    <3>1. Holders(k)' = Holders(k) /\ \A u \in Threads : held'[u][k] = held[u][k]
      BY <1>1
    <3> QED  BY <3>1, SameHeld
  <2> QED  BY <2>1, <2>2, <2>3 DEF Accounts
<1>7. WaitJustified'
  <2>1. \A u \in Threads : pc'[u] = "waiting" =>
               pc[u] = "waiting" /\ need'[u] = need[u] /\ limit'[u] = limit[u]
    BY <1>1
  <2> QED  BY <2>1, WaitersKeep DEF TypeOK
<1>8. Bounded'
  BY DEF Bounded
<1> QED  BY <1>2, <1>3, <1>4, <1>5, <1>6, <1>7, <1>8

\* Borrowing an exclusive session, a free entry or a freshly loaded one.
LEMMA ExclusiveBorrow ==
    ASSUME IInv, NEW t \in Threads, NEW m \in Pooled, NEW s \in Sessions,
           NextModel(t, m), pc[t] \in {"asking", "loading"}, limit' = limit, Borrowed(t, m, s),
           UNCHANGED <<uses, failures, cacheVars>>,
           pool' = [pool EXCEPT ![m] = @ \cup {s}],
           free' = [free EXCEPT ![m] = @ \ {s}],
           \A u \in Threads : held[u][m] # s,
           pending' \in [Pooled -> Nat],
           \A k \in Pooled : pending'[k] = Cardinality(Loaders(k)'),
           \A k \in Pooled : Cardinality(pool'[k]) + pending'[k] = Cardinality(pool[k]) + pending[k]
    PROVE  IInv'
<1> USE DEF IInv, cacheVars
<1> m \in Models /\ Singles \subseteq Models /\ Pooled \subseteq Models /\ m \notin Singles
  BY ModelAssumption DEF Models
<1>1. /\ pc' \in [Threads -> Places]
      /\ need' \in [Threads -> SUBSET Models]
      /\ held' \in [Threads -> [Models -> Sessions \cup {None}]]
      /\ ThreadShape'
  BY BorrowedFacts
<1>2. /\ t \notin Holders(m) /\ Holders(m)' = Holders(m) \cup {t}
      /\ \A k \in Models \ {m} : Holders(k)' = Holders(k)
      /\ held[t][m] = None /\ held'[t][m] = s
      /\ \A u \in Threads, k \in Models : u # t \/ k # m => held'[u][k] = held[u][k]
  BY BorrowedFacts
<1>3. /\ pc'[t] \notin {"idle", "loading", "waiting"}
      /\ \A u \in Threads \ {t} : pc'[u] = pc[u] /\ need'[u] = need[u]
  BY BorrowedFacts
<1>4. /\ pool'[m] = pool[m] \cup {s} /\ free'[m] = free[m] \ {s}
      /\ \A k \in Pooled \ {m} : pool'[k] = pool[k] /\ free'[k] = free[k]
  BY DEF TypeOK
<1>5. TypeOK'
  <2>1. pool' \in [Pooled -> SUBSET Sessions] /\ free' \in [Pooled -> SUBSET Sessions]
    BY DEF TypeOK
  <2> QED  BY <2>1, <1>1 DEF TypeOK
<1>6. Shape'
  <2>1. IsFiniteSet(pool'[m])
    BY <1>4, FS_AddElement DEF Shape, PoolShape
  <2> QED  BY <2>1, <1>1, <1>4 DEF Shape, PoolShape
<1>7. InUseStays'
  <2>1. \A u \in Threads, k \in Singles : held'[u][k] = held[u][k]
    BY <1>2
  <2>2. \A u \in Threads, k \in Pooled :
            held'[u][k] # None => held'[u][k] \in pool'[k] \ free'[k]
    BY <1>2, <1>4 DEF InUseStays
  <2> QED  BY <2>1, <2>2 DEF InUseStays
<1>8. Exclusive'
  <2> SUFFICES ASSUME NEW u \in Threads, NEW v \in Threads, NEW k \in Pooled,
                      held'[u][k] # None, held'[u][k] = held'[v][k]
               PROVE  u = v
    BY DEF Exclusive
  <2>1. CASE k = m
    BY <2>1, <1>2 DEF Exclusive
  <2>2. CASE k # m
    BY <2>2, <1>2 DEF Exclusive
  <2> QED  BY <2>1, <2>2
<1>9. Accounts'
  <2>1. \A k \in Singles : refs'[k] = Cardinality(Holders(k)')
    BY <1>2 DEF Accounts
  <2>2. pool'[m] = free'[m] \cup {held[u][m] : u \in Holders(m)}'
    <3>1. {held[u][m] : u \in Holders(m)}' = {held[u][m] : u \in Holders(m)} \cup {s}
      <4>1. \A u \in Holders(m) : u \in Threads /\ u # t /\ held'[u][m] = held[u][m]
        BY <1>2 DEF Holders
      <4> QED  BY <4>1, <1>2
    <3>2. pool[m] = free[m] \cup {held[u][m] : u \in Holders(m)}
      BY DEF Accounts
    <3> QED  BY <3>1, <3>2, <1>4
  <2>3. \A k \in Pooled \ {m} : pool'[k] = free'[k] \cup {held[u][k] : u \in Holders(k)}'
    <3> TAKE k \in Pooled \ {m}
    <3>1. Holders(k)' = Holders(k) /\ \A u \in Threads : held'[u][k] = held[u][k]
      BY <1>2
    <3>2. {held[u][k] : u \in Holders(k)}' = {held[u][k] : u \in Holders(k)}
      BY <3>1, SameHeld
    <3> QED  BY <3>2, <1>4 DEF Accounts
  <2> QED  BY <2>1, <2>2, <2>3 DEF Accounts
<1>10. WaitJustified'
  <2>1. \A u \in Threads : pc'[u] = "waiting" =>
               pc[u] = "waiting" /\ need'[u] = need[u] /\ limit'[u] = limit[u]
    BY <1>3
  <2>2. \A k \in Pooled : free[k] = {} => free'[k] = {}
    BY <1>4
  <2> QED  BY <2>1, <2>2, WaitersKeep DEF TypeOK
<1>11. Bounded'
  BY DEF Bounded
<1> QED  BY <1>5, <1>6, <1>7, <1>8, <1>9, <1>10, <1>11

-----------------------------------------------------------------------------
(* Giving back                                                               *)

\* Giving a session back removes the thread from its holders; waiting threads may be
\* woken up, and no load starts or ends.
LEMMA ReturnedFacts ==
    ASSUME IInv, NEW t \in Threads, NEW m \in Models,
           pc[t] = "releasing", held[t][m] # None,
           held' = [held EXCEPT ![t][m] = None], need' = need, limit' = limit,
           pc' \in [Threads -> Places],
           \A u \in Threads \ {t} : pc'[u] = pc[u] \/ (pc[u] = "waiting" /\ pc'[u] = "asking"),
           pc'[t] = IF \A k \in Models \ {m} : held[t][k] = None THEN "idle" ELSE "releasing"
    PROVE  /\ held' \in [Threads -> [Models -> Sessions \cup {None}]]
           /\ ThreadShape'
           /\ t \in Holders(m) /\ Holders(m)' = Holders(m) \ {t}
           /\ \A k \in Models \ {m} : Holders(k)' = Holders(k)
           /\ held'[t][m] = None
           /\ \A u \in Threads, k \in Models :
                 u # t \/ k # m => held'[u][k] = held[u][k]
           /\ \A k : Loaders(k)' = Loaders(k)
           /\ \A u \in Threads : pc'[u] = "waiting" => pc[u] = "waiting"
<1> USE DEF IInv
<1>1. /\ held' \in [Threads -> [Models -> Sessions \cup {None}]]
      /\ held'[t][m] = None
      /\ \A u \in Threads, k \in Models : u # t \/ k # m => held'[u][k] = held[u][k]
  BY DEF TypeOK
<1>2. \A u \in Threads, k \in Models : held[u][k] = None => held'[u][k] = None
  BY <1>1
<1>3. ThreadShape'
  <2> SUFFICES ASSUME NEW u \in Threads
               PROVE  /\ pc'[u] # "idle" => limit'[u] \in PoolSizes
                      /\ pc'[u] = "idle" => \A k \in Models : held'[u][k] = None
                      /\ Distinct(need'[u])
                      /\ \A k \in need'[u] : held'[u][k] = None
    BY DEF ThreadShape, Distinct
  <2>1. pc[u] # "idle" => limit'[u] \in PoolSizes
    BY DEF Shape, ThreadShape
  <2>2. Distinct(need'[u]) /\ \A k \in need'[u] : held'[u][k] = None
    BY <1>2 DEF Shape, ThreadShape, TypeOK
  <2>3. pc'[u] = "idle" => \A k \in Models : held'[u][k] = None
    BY <1>1, <1>2 DEF Shape, ThreadShape
  <2>4. pc[u] = "idle" => pc'[u] = "idle"
    BY DEF TypeOK
  <2> QED  BY <2>1, <2>2, <2>3, <2>4
<1>4. t \in Holders(m) /\ Holders(m)' = Holders(m) \ {t}
  BY <1>1 DEF Holders
<1>5. \A k \in Models \ {m} : Holders(k)' = Holders(k)
  BY <1>1 DEF Holders
<1>6. \A k : Loaders(k)' = Loaders(k)
  <2>1. \A u \in Threads : pc'[u] = "loading" <=> pc[u] = "loading"
    OBVIOUS
  <2> QED  BY <2>1, LoadersSame
<1> QED  BY <1>1, <1>3, <1>4, <1>5, <1>6

\* release_session keeps the invariant: the holder count goes down with the holders.
LEMMA ReleaseStep ==
    ASSUME IInv, NEW t \in Threads, NEW m \in Singles, Release(t, m)
    PROVE  IInv'
<1> USE DEF IInv, poolVars
<1> m \in Models /\ Singles \subseteq Models /\ Pooled \subseteq Models /\ m \notin Pooled
  BY ModelAssumption DEF Models
<1>1. /\ pc[t] = "releasing" /\ held[t][m] # None
      /\ held' = [held EXCEPT ![t][m] = None]
      /\ UNCHANGED <<need, limit, uses, failures, cache, poolVars>>
      /\ pc' = [pc EXCEPT ![t] =
                  IF \A k \in Models \ {m} : held[t][k] = None THEN "idle" ELSE "releasing"]
  BY DEF Release, Returned
<1>2. /\ pc' \in [Threads -> Places]
      /\ \A u \in Threads \ {t} : pc'[u] = pc[u]
      /\ pc'[t] = IF \A k \in Models \ {m} : held[t][k] = None THEN "idle" ELSE "releasing"
  BY <1>1 DEF TypeOK, Places
<1>3. /\ held' \in [Threads -> [Models -> Sessions \cup {None}]]
      /\ ThreadShape'
      /\ t \in Holders(m) /\ Holders(m)' = Holders(m) \ {t}
      /\ \A k \in Models \ {m} : Holders(k)' = Holders(k)
      /\ held'[t][m] = None
      /\ \A u \in Threads, k \in Models : u # t \/ k # m => held'[u][k] = held[u][k]
      /\ \A k : Loaders(k)' = Loaders(k)
      /\ \A u \in Threads : pc'[u] = "waiting" => pc[u] = "waiting"
  <2>1. need' = need /\ limit' = limit
    BY <1>1
  <2>2. \A u \in Threads \ {t} : pc'[u] = pc[u] \/ (pc[u] = "waiting" /\ pc'[u] = "asking")
    BY <1>2
  <2> HIDE DEF IInv
  <2> QED  BY <2>1, <2>2, <1>1, <1>2, ReturnedFacts
<1>4. refs[m] = Cardinality(Holders(m)) /\ refs[m] \in Nat
  BY DEF Accounts, TypeOK
<1>5. refs[m] # 0 /\ Cardinality(Holders(m)') = refs[m] - 1
  <2>1. Holders(m) \in SUBSET Threads
    BY DEF Holders
  <2> QED  BY <2>1, <1>3, <1>4, Counting
<1>6. cache[m] # None
  BY <1>1 DEF InUseStays
<1>7. refs' = [refs EXCEPT ![m] = @ - 1]
  BY <1>5, <1>6 DEF Release
<1>8. TypeOK'
  <2>1. refs[m] - 1 \in Nat
    BY <1>4, <1>5
  <2>2. refs' \in [Singles -> Nat]
    BY <2>1, <1>7 DEF TypeOK
  <2> QED  BY <2>2, <1>1, <1>2, <1>3 DEF TypeOK
<1>9. Shape'
  BY <1>1, <1>3 DEF Shape, PoolShape
<1>10. InUseStays' /\ Exclusive'
  BY <1>1, <1>3 DEF InUseStays, Exclusive
<1>11. Accounts'
  <2>1. \A k \in Singles : refs'[k] = Cardinality(Holders(k)')
    BY <1>3, <1>5, <1>7 DEF Accounts, TypeOK
  <2>2. \A k \in Pooled : {held[u][k] : u \in Holders(k)}' = {held[u][k] : u \in Holders(k)}
    <3> TAKE k \in Pooled
    <3>1. Holders(k)' = Holders(k) /\ \A u \in Threads : held'[u][k] = held[u][k]
      BY <1>3
    <3> QED  BY <3>1, SameHeld
  <2> QED  BY <2>1, <2>2, <1>1, <1>3 DEF Accounts
<1>12. WaitJustified'
  BY <1>1, <1>3, WaitersKeep DEF TypeOK
<1>13. Bounded'
  BY <1>1 DEF Bounded
<1> QED  BY <1>8, <1>9, <1>10, <1>11, <1>12, <1>13

\* release_exclusive_session keeps the invariant: the entry is free, and nobody waits
\* any more.
LEMMA ReleaseExclusiveStep ==
    ASSUME IInv, NEW t \in Threads, NEW m \in Pooled, ReleaseExclusive(t, m)
    PROVE  IInv'
<1> USE DEF IInv, cacheVars
<1> m \in Models /\ Singles \subseteq Models /\ Pooled \subseteq Models /\ m \notin Singles
  BY ModelAssumption DEF Models
<1> DEFINE s == held[t][m]
<1>1. /\ pc[t] = "releasing" /\ s # None
      /\ held' = [held EXCEPT ![t][m] = None]
      /\ UNCHANGED <<need, limit, uses, failures, cacheVars, pool, pending>>
      /\ free' = [free EXCEPT ![m] = @ \cup (pool[m] \cap {s})]
      /\ pc' = [Notified(pc) EXCEPT ![t] =
                  IF \A k \in Models \ {m} : held[t][k] = None THEN "idle" ELSE "releasing"]
  BY DEF ReleaseExclusive
<1>2. /\ pc' \in [Threads -> Places]
      /\ \A u \in Threads \ {t} : pc'[u] = IF pc[u] = "waiting" THEN "asking" ELSE pc[u]
      /\ pc'[t] = IF \A k \in Models \ {m} : held[t][k] = None THEN "idle" ELSE "releasing"
  BY <1>1 DEF TypeOK, Places, Notified
<1>3. /\ held' \in [Threads -> [Models -> Sessions \cup {None}]]
      /\ ThreadShape'
      /\ t \in Holders(m) /\ Holders(m)' = Holders(m) \ {t}
      /\ \A k \in Models \ {m} : Holders(k)' = Holders(k)
      /\ held'[t][m] = None
      /\ \A u \in Threads, k \in Models : u # t \/ k # m => held'[u][k] = held[u][k]
      /\ \A k : Loaders(k)' = Loaders(k)
      /\ \A u \in Threads : pc'[u] = "waiting" => pc[u] = "waiting"
  <2>1. need' = need /\ limit' = limit
    BY <1>1
  <2>2. \A u \in Threads \ {t} : pc'[u] = pc[u] \/ (pc[u] = "waiting" /\ pc'[u] = "asking")
    BY <1>2
  <2>3. pc[t] = "releasing" /\ held[t][m] # None /\ held' = [held EXCEPT ![t][m] = None]
    BY <1>1
  <2> HIDE DEF IInv, s
  <2> QED  BY <2>1, <2>2, <2>3, <1>2, ReturnedFacts
<1>4. s \in pool[m] \ free[m] /\ \A u \in Threads \ {t} : held[u][m] # s
  BY <1>1 DEF InUseStays, Exclusive
<1>5. /\ free'[m] = free[m] \cup {s}
      /\ \A k \in Pooled \ {m} : free'[k] = free[k]
      /\ free' \in [Pooled -> SUBSET Sessions]
  BY <1>1, <1>4 DEF TypeOK
<1>6. TypeOK'
  BY <1>1, <1>2, <1>3, <1>5 DEF TypeOK
<1>7. Shape'
  BY <1>1, <1>3, <1>4, <1>5 DEF Shape, PoolShape
<1>8. InUseStays'
  <2>1. \A u \in Threads, k \in Singles : held'[u][k] = held[u][k]
    BY <1>3
  <2>2. \A u \in Threads, k \in Pooled :
            held'[u][k] # None => held'[u][k] \in pool[k] \ free'[k]
    BY <1>3, <1>4, <1>5 DEF InUseStays
  <2> QED  BY <2>1, <2>2, <1>1 DEF InUseStays
<1>9. Exclusive'
  BY <1>3 DEF Exclusive
<1>10. Accounts'
  <2>1. \A k \in Singles : refs'[k] = Cardinality(Holders(k)')
    BY <1>1, <1>3 DEF Accounts
  <2>2. pool[m] = free'[m] \cup {held[u][m] : u \in Holders(m)}'
    <3>1. {held[u][m] : u \in Holders(m)} = {held[u][m] : u \in Holders(m)}' \cup {s}
      <4>1. \A u \in Holders(m)' : u \in Threads /\ u # t /\ held'[u][m] = held[u][m]
        BY <1>3 DEF Holders
      <4> QED  BY <4>1, <1>3
    <3>2. pool[m] = free[m] \cup {held[u][m] : u \in Holders(m)}
      BY DEF Accounts
    <3> QED  BY <3>1, <3>2, <1>5
  <2>3. \A k \in Pooled \ {m} : pool[k] = free'[k] \cup {held[u][k] : u \in Holders(k)}'
    <3> TAKE k \in Pooled \ {m}
    <3>1. Holders(k)' = Holders(k) /\ \A u \in Threads : held'[u][k] = held[u][k]
      BY <1>3
    <3>2. {held[u][k] : u \in Holders(k)}' = {held[u][k] : u \in Holders(k)}
      BY <3>1, SameHeld
    <3> QED  BY <3>2, <1>5 DEF Accounts
  <2>4. \A k \in Pooled : pending'[k] = Cardinality(Loaders(k)')
    BY <1>1, <1>3 DEF Accounts
  <2> QED  BY <2>1, <2>2, <2>3, <2>4, <1>1 DEF Accounts
<1>11. WaitJustified'
  BY <1>2 DEF WaitJustified
<1>12. Bounded'
  BY <1>1 DEF Bounded
<1> QED  BY <1>6, <1>7, <1>8, <1>9, <1>10, <1>11, <1>12

-----------------------------------------------------------------------------
(* Loads                                                                     *)

\* A hit, the end of a load, and taking or adding an exclusive session are borrowings.
LEMMA BorrowSteps ==
    ASSUME IInv, NEW t \in Threads,
           \/ \E m \in Singles : Hit(t, m) \/ Put(t, m)
           \/ \E m \in Pooled : Take(t, m) \/ Append(t, m)
    PROVE  IInv'
<1> USE DEF IInv
<1> Singles \subseteq Models /\ Pooled \subseteq Models /\ Singles \cap Pooled = {}
  BY ModelAssumption DEF Models
<1>1. ASSUME NEW m \in Singles, Hit(t, m)
      PROVE  IInv'
  <2>1. /\ NextModel(t, m) /\ pc[t] = "asking" /\ limit' = limit
        /\ cache[m] \in Sessions /\ Borrowed(t, m, cache[m])
        /\ UNCHANGED <<uses, failures, poolVars>>
        /\ refs' = [refs EXCEPT ![m] = @ + 1]
    BY <1>1 DEF Hit, TypeOK
  <2>2. cache' = [cache EXCEPT ![m] = cache[m]]
    BY <1>1 DEF Hit, TypeOK
  <2>3. \A k : Loaders(k)' = Loaders(k)
    <3>1. \A u \in Threads : pc'[u] = "loading" <=> pc[u] = "loading"
      BY <2>1 DEF Borrowed, TypeOK
    <3>2. \A u \in Threads : pc[u] = "loading" => need'[u] = need[u]
      BY <2>1 DEF Borrowed, TypeOK
    <3> QED  BY <3>1, <3>2, LoadersSame
  <2> QED  BY <2>1, <2>2, <2>3, SharedBorrow
<1>2. ASSUME NEW m \in Models, NextModel(t, m), pc[t] = "loading",
             NEW s, Borrowed(t, m, s)
      PROVE  /\ t \in Loaders(m)
             /\ Loaders(m)' = Loaders(m) \ {t}
             /\ \A k : k # m => Loaders(k)' = Loaders(k)
  <2>1. /\ pc'[t] # "loading"
        /\ \A u \in Threads \ {t} : pc'[u] = "loading" <=> pc[u] = "loading"
        /\ \A u \in Threads \ {t} : need'[u] = need[u]
    BY <1>2 DEF Borrowed, TypeOK
  <2> QED  BY <1>2, <2>1, LoadersLess
<1>3. ASSUME NEW m \in Singles, Put(t, m)
      PROVE  IInv'
  <2>1. NextModel(t, m) /\ pc[t] = "loading" /\ UNCHANGED <<limit, uses, failures, poolVars>>
    BY <1>3 DEF Put
  <2>2. CASE cache[m] = None
    <3>1. PICK s \in Sessions : /\ cache' = [cache EXCEPT ![m] = s]
                               /\ refs' = [refs EXCEPT ![m] = 1]
                               /\ Borrowed(t, m, s)
      BY <1>3, <2>2 DEF Put
    <3>2. \A k \in Pooled : Loaders(k)' = Loaders(k)
      BY <2>1, <3>1, <1>2
    <3> QED  BY <2>1, <2>2, <3>1, <3>2, SharedBorrow
  <2>3. CASE cache[m] # None
    <3>1. /\ cache[m] \in Sessions /\ cache' = [cache EXCEPT ![m] = cache[m]]
          /\ refs' = [refs EXCEPT ![m] = @ + 1]
          /\ Borrowed(t, m, cache[m])
      BY <1>3, <2>3 DEF Put, TypeOK
    <3>2. \A k \in Pooled : Loaders(k)' = Loaders(k)
      BY <2>1, <3>1, <1>2
    <3> QED  BY <2>1, <3>1, <3>2, SharedBorrow
  <2> QED  BY <2>2, <2>3
<1>4. ASSUME NEW m \in Pooled, Take(t, m)
      PROVE  IInv'
  <2>1. PICK s \in free[m] : free' = [free EXCEPT ![m] = @ \ {s}] /\ Borrowed(t, m, s)
    BY <1>4 DEF Take
  <2>2. /\ NextModel(t, m) /\ pc[t] = "asking"
        /\ UNCHANGED <<limit, uses, failures, cacheVars, pool, pending>>
    BY <1>4 DEF Take
  <2>3. s \in Sessions /\ s \in pool[m]
    BY <2>1 DEF TypeOK, Shape, PoolShape
  <2>4. pool' = [pool EXCEPT ![m] = @ \cup {s}]
    BY <2>2, <2>3 DEF TypeOK
  <2>5. \A u \in Threads : held[u][m] # s
    BY <2>1, <2>3, SessionAssumption DEF InUseStays
  <2>6. \A k : Loaders(k)' = Loaders(k)
    <3>1. \A u \in Threads : pc'[u] = "loading" <=> pc[u] = "loading"
      BY <2>1, <2>2 DEF Borrowed, TypeOK
    <3>2. \A u \in Threads : pc[u] = "loading" => need'[u] = need[u]
      BY <2>1, <2>2 DEF Borrowed, TypeOK
    <3> QED  BY <3>1, <3>2, LoadersSame
  <2>7. /\ pending' \in [Pooled -> Nat]
        /\ \A k \in Pooled : pending'[k] = Cardinality(Loaders(k)')
        /\ \A k \in Pooled : Cardinality(pool'[k]) + pending'[k] = Cardinality(pool[k]) + pending[k]
    BY <2>2, <2>6 DEF TypeOK, Accounts
  <2>8. /\ pc[t] \in {"asking", "loading"} /\ limit' = limit
        /\ UNCHANGED <<uses, failures, cacheVars>>
    BY <2>2
  <2>9. /\ NextModel(t, m) /\ Borrowed(t, m, s)
        /\ free' = [free EXCEPT ![m] = @ \ {s}]
        /\ \A k \in Pooled : Cardinality(pool'[k]) + pending'[k] = Cardinality(pool[k]) + pending[k]
    BY <2>1, <2>2
  <2>10. IInv
    OBVIOUS
  <2> HIDE DEF IInv, cacheVars
  <2> QED  BY <2>3, <2>4, <2>5, <2>7, <2>8, <2>9, <2>10, ExclusiveBorrow
<1>5. ASSUME NEW m \in Pooled, Append(t, m)
      PROVE  IInv'
  <2>1. PICK s \in Sessions : /\ New(s)
                             /\ pool' = [pool EXCEPT ![m] = @ \cup {s}]
                             /\ Borrowed(t, m, s)
    BY <1>5 DEF Append
  <2>2. /\ NextModel(t, m) /\ pc[t] = "loading"
        /\ pending' = [pending EXCEPT ![m] = @ - 1]
        /\ UNCHANGED <<limit, uses, failures, cacheVars, free>>
    BY <1>5 DEF Append
  <2>3. s \notin pool[m] /\ \A u \in Threads : held[u][m] # s
    <3>1. s \notin Live
      BY <2>1 DEF New
    <3>2. pool[m] \subseteq Live
      BY DEF Live
    <3>3. \A u \in Threads : held[u][m] \in Live
      <4>1. m \in Models
        BY DEF Models
      <4> QED  BY <4>1 DEF Live
    <3> QED  BY <3>1, <3>2, <3>3
  <2>4. free' = [free EXCEPT ![m] = @ \ {s}]
    <3>1. s \notin free[m]
      BY <2>3 DEF Shape, PoolShape
    <3> QED  BY <3>1, <2>2 DEF TypeOK
  <2>5. /\ t \in Loaders(m)
        /\ Loaders(m)' = Loaders(m) \ {t}
        /\ \A k : k # m => Loaders(k)' = Loaders(k)
    BY <2>1, <2>2, <1>2
  <2>6. /\ pending[m] \in Nat /\ pending[m] # 0
        /\ Cardinality(Loaders(m)') = pending[m] - 1
    <3>1. Loaders(m) \in SUBSET Threads
      BY DEF Loaders
    <3>2. pending[m] = Cardinality(Loaders(m))
      BY DEF Accounts
    <3>3. /\ Cardinality(Loaders(m)) \in Nat /\ Cardinality(Loaders(m)) # 0
          /\ Cardinality(Loaders(m) \ {t}) = Cardinality(Loaders(m)) - 1
      BY <3>1, <2>5, Counting
    <3> QED  BY <3>2, <3>3, <2>5
  <2>7. /\ pending' \in [Pooled -> Nat]
        /\ pending'[m] = pending[m] - 1
        /\ \A k \in Pooled \ {m} : pending'[k] = pending[k]
    <3>1. pending[m] - 1 \in Nat
      BY <2>6
    <3> QED  BY <3>1, <2>2 DEF TypeOK
  <2>8. \A k \in Pooled : pending'[k] = Cardinality(Loaders(k)')
    BY <2>5, <2>6, <2>7 DEF Accounts
  <2>9. \A k \in Pooled : Cardinality(pool'[k]) + pending'[k] = Cardinality(pool[k]) + pending[k]
    <3>1. Cardinality(pool'[m]) = Cardinality(pool[m]) + 1 /\ Cardinality(pool[m]) \in Nat
      <4>1. pool'[m] = pool[m] \cup {s}
        BY <2>1 DEF TypeOK
      <4> QED  BY <4>1, <2>3, FS_AddElement, FS_CardinalityType DEF Shape, PoolShape
    <3>2. \A k \in Pooled \ {m} : pool'[k] = pool[k]
      BY <2>1 DEF TypeOK
    <3> QED  BY <3>1, <3>2, <2>6, <2>7
  <2>10. /\ pc[t] \in {"asking", "loading"} /\ limit' = limit
         /\ UNCHANGED <<uses, failures, cacheVars>>
    BY <2>2
  <2>11. /\ NextModel(t, m) /\ Borrowed(t, m, s)
         /\ pool' = [pool EXCEPT ![m] = @ \cup {s}]
         /\ free' = [free EXCEPT ![m] = @ \ {s}]
         /\ \A u \in Threads : held[u][m] # s
         /\ pending' \in [Pooled -> Nat]
    BY <2>1, <2>2, <2>3, <2>4, <2>7
  <2>12. IInv
    OBVIOUS
  <2> HIDE DEF IInv, cacheVars
  <2> QED  BY <2>8, <2>9, <2>10, <2>11, <2>12, ExclusiveBorrow
<1> QED  BY <1>1, <1>3, <1>4, <1>5

\* Loading a shared model, or failing to, changes no session and no counter.
LEMMA SharedLoadSteps ==
    ASSUME IInv, NEW t \in Threads, NEW m \in Singles, Miss(t, m) \/ LoadFails(t, m)
    PROVE  IInv'
<1> USE DEF IInv
<1> m \in Models /\ m \notin Pooled
  BY ModelAssumption DEF Models
<1>1. UNCHANGED <<held, limit, uses, cacheVars, poolVars>> /\ NextModel(t, m)
  BY DEF Miss, LoadFails
<1>2. /\ pc' \in [Threads -> Places] /\ need' \in [Threads -> SUBSET Models]
      /\ failures' \in Nat
  <2>1. CASE Miss(t, m)
    BY <2>1 DEF Miss, TypeOK, Places
  <2>2. CASE LoadFails(t, m)
    <3>1. pc' \in [Threads -> Places]
      BY <2>2 DEF LoadFails, GivenUp, TypeOK, Places
    <3>2. need' \in [Threads -> SUBSET Models] /\ failures' \in Nat
      BY <2>2 DEF LoadFails, TypeOK
    <3> QED  BY <3>1, <3>2
  <2> QED  BY <2>1, <2>2
<1>3. \A u \in Threads \ {t} : pc'[u] = pc[u] /\ need'[u] = need[u]
  <2>1. CASE Miss(t, m)
    BY <2>1 DEF Miss, TypeOK
  <2>2. CASE LoadFails(t, m)
    BY <2>2 DEF LoadFails, GivenUp, TypeOK
  <2> QED  BY <2>1, <2>2
<1>4. /\ pc[t] \in {"asking", "loading"} /\ pc'[t] # "waiting"
      /\ need'[t] = need[t] \/ need'[t] = {}
      /\ pc'[t] = "idle" => \A k \in Models : held[t][k] = None
  <2>1. CASE Miss(t, m)
    BY <2>1 DEF Miss, TypeOK
  <2>2. CASE LoadFails(t, m)
    <3>1. pc'[t] = IF \A k \in Models : held[t][k] = None THEN "idle" ELSE "releasing"
      BY <2>2 DEF LoadFails, GivenUp, TypeOK
    <3> QED  BY <3>1, <2>2 DEF LoadFails, TypeOK
  <2> QED  BY <2>1, <2>2
<1>5. TypeOK'
  BY <1>1, <1>2 DEF TypeOK, cacheVars, poolVars
<1>6. Shape'
  <2>1. ThreadShape'
    BY <1>1, <1>3, <1>4 DEF Shape, ThreadShape, Distinct
  <2> QED  BY <2>1, <1>1 DEF Shape, PoolShape, poolVars
<1>7. \A k \in Pooled : Loaders(k)' = Loaders(k)
  <2> TAKE k \in Pooled
  <2>1. ~NextModel(t, k)
    BY <1>1, OneNext
  <2>2. need'[t] = need[t] \/ ~NextModel(t, k)'
    BY <1>4 DEF NextModel
  <2>3. ~NextModel(t, k)'
    BY <2>1, <2>2 DEF NextModel
  <2>4. \A u \in Threads \ {t} : NextModel(u, k)' <=> NextModel(u, k)
    BY <1>3 DEF NextModel
  <2> QED  BY <2>1, <2>3, <2>4, <1>3 DEF Loaders
<1>8. InUseStays' /\ Exclusive' /\ Accounts' /\ Bounded'
  BY <1>1, <1>7, Quiet
<1>9. WaitJustified'
  <2>1. \A u \in Threads : pc'[u] = "waiting" =>
               pc[u] = "waiting" /\ need'[u] = need[u] /\ limit'[u] = limit[u]
    BY <1>1, <1>3, <1>4
  <2> QED  BY <2>1, <1>1, WaitersKeep DEF TypeOK, poolVars
<1> QED  BY <1>5, <1>6, <1>8, <1>9

\* Reserving a slot counts the load that begins, within the size that was asked for.
LEMMA ReserveStep ==
    ASSUME IInv, NEW t \in Threads, NEW m \in Pooled, Reserve(t, m)
    PROVE  IInv'
<1> USE DEF IInv
<1> m \in Models /\ m \notin Singles
  BY ModelAssumption DEF Models
<1>1. /\ pc[t] = "asking" /\ NextModel(t, m) /\ ~Full(t, m)
      /\ pending' = [pending EXCEPT ![m] = @ + 1]
      /\ pc' = [pc EXCEPT ![t] = "loading"]
      /\ UNCHANGED <<need, held, limit, uses, failures, cacheVars, pool, free>>
  BY DEF Reserve
<1>2. /\ pc' \in [Threads -> Places] /\ pc'[t] = "loading"
      /\ \A u \in Threads \ {t} : pc'[u] = pc[u]
      /\ pending' \in [Pooled -> Nat] /\ pending'[m] = pending[m] + 1
      /\ \A k \in Pooled \ {m} : pending'[k] = pending[k]
  BY <1>1 DEF TypeOK, Places
<1>3. TypeOK'
  BY <1>1, <1>2 DEF TypeOK, cacheVars
<1>4. Shape'
  BY <1>1, <1>2 DEF Shape, ThreadShape, PoolShape, Distinct
<1>5. InUseStays' /\ Exclusive'
  BY <1>1 DEF InUseStays, Exclusive, cacheVars
<1>6. Accounts'
  <2>1. \A k : Holders(k)' = Holders(k)
    BY <1>1 DEF Holders
  <2>2. \A k : {held[u][k] : u \in Holders(k)}' = {held[u][k] : u \in Holders(k)}
    BY <2>1, <1>1
  <2>3. \A u \in Threads : \A k : NextModel(u, k)' <=> NextModel(u, k)
    BY <1>1 DEF NextModel
  <2>4. /\ t \notin Loaders(m) /\ Loaders(m)' = Loaders(m) \cup {t}
        /\ \A k : k # m => Loaders(k)' = Loaders(k)
    <3>1. \A k : k # m => ~NextModel(t, k)
      BY <1>1, OneNext
    <3> QED  BY <3>1, <2>3, <1>1, <1>2 DEF Loaders
  <2>5. pending'[m] = Cardinality(Loaders(m)')
    <3>1. Loaders(m) \in SUBSET Threads
      BY DEF Loaders
    <3>2. Cardinality(Loaders(m) \cup {t}) = Cardinality(Loaders(m)) + 1
      BY <3>1, <2>4, Counting
    <3> QED  BY <3>2, <2>4, <1>2 DEF Accounts
  <2>6. \A k \in Pooled \ {m} : pending'[k] = Cardinality(Loaders(k)')
    BY <2>4, <1>2 DEF Accounts
  <2> QED  BY <2>1, <2>2, <2>5, <2>6, <1>1 DEF Accounts, cacheVars
<1>7. \A k \in Pooled : Cardinality(pool[k]) \in Nat /\ pending[k] \in Nat /\ pool'[k] = pool[k]
  BY <1>1, FS_CardinalityType DEF Shape, PoolShape, TypeOK
<1>8. WaitJustified'
  <2>1. \A u \in Threads : pc'[u] = "waiting" =>
               pc[u] = "waiting" /\ need'[u] = need[u] /\ limit'[u] = limit[u]
    BY <1>1, <1>2
  <2>2. \A k \in Pooled : pending'[k] >= pending[k]
    BY <1>2, <1>7
  <2>3. \A k \in Pooled : \A n \in Nat : Cardinality(pool[k]) + pending[k] >= n
                                   => Cardinality(pool'[k]) + pending'[k] >= n
    BY <2>2, <1>2, <1>7 DEF TypeOK
  <2> QED  BY <2>1, <2>3, <1>1, WaitersKeep DEF TypeOK
<1>9. Bounded'
  <2>1. limit[t] \in PoolSizes /\ limit[t] \in Nat
    BY <1>1, SizeAssumption DEF Shape, ThreadShape
  <2>2. Cardinality(pool'[m]) + pending'[m] <= limit[t]
    BY <1>1, <1>2, <1>7, <2>1 DEF Full
  <2>3. \A k \in Pooled \ {m} : Cardinality(pool'[k]) + pending'[k] = Cardinality(pool[k]) + pending[k]
    BY <1>2, <1>7
  <2> QED  BY <2>1, <2>2, <2>3 DEF Bounded
<1> QED  BY <1>3, <1>4, <1>5, <1>6, <1>8, <1>9

\* A failed load of an exclusive session gives its slot back and wakes up who waits.
LEMMA AppendFailsStep ==
    ASSUME IInv, NEW t \in Threads, NEW m \in Pooled, AppendFails(t, m)
    PROVE  IInv'
<1> USE DEF IInv
<1> m \in Models /\ m \notin Singles
  BY ModelAssumption DEF Models
<1>1. /\ pc[t] = "loading" /\ NextModel(t, m)
      /\ pending' = [pending EXCEPT ![m] = @ - 1]
      /\ need' = [need EXCEPT ![t] = {}]
      /\ pc' = GivenUp(Notified(pc), t)
      /\ failures' = failures + 1
      /\ UNCHANGED <<held, limit, uses, cacheVars, pool, free>>
  BY DEF AppendFails
<1>2. /\ pc' \in [Threads -> Places]
      /\ pc'[t] = IF \A k \in Models : held[t][k] = None THEN "idle" ELSE "releasing"
      /\ \A u \in Threads \ {t} : pc'[u] = IF pc[u] = "waiting" THEN "asking" ELSE pc[u]
  BY <1>1 DEF GivenUp, Notified, TypeOK, Places
<1>3. /\ need' \in [Threads -> SUBSET Models] /\ need'[t] = {}
      /\ \A u \in Threads \ {t} : need'[u] = need[u]
  BY <1>1 DEF TypeOK
<1>4. /\ t \in Loaders(m) /\ Loaders(m)' = Loaders(m) \ {t}
      /\ \A k : k # m => Loaders(k)' = Loaders(k)
  <2>1. /\ pc'[t] # "loading"
        /\ \A u \in Threads \ {t} : pc'[u] = "loading" <=> pc[u] = "loading"
    BY <1>2
  <2> QED  BY <2>1, <1>1, <1>3, LoadersLess
<1>5. /\ pending[m] \in Nat /\ pending[m] # 0
      /\ Cardinality(Loaders(m)') = pending[m] - 1
  <2>1. Loaders(m) \in SUBSET Threads
    BY DEF Loaders
  <2>2. pending[m] = Cardinality(Loaders(m))
    BY DEF Accounts
  <2>3. /\ Cardinality(Loaders(m)) \in Nat /\ Cardinality(Loaders(m)) # 0
        /\ Cardinality(Loaders(m) \ {t}) = Cardinality(Loaders(m)) - 1
    BY <2>1, <1>4, Counting
  <2> QED  BY <2>2, <2>3, <1>4
<1>6. /\ pending' \in [Pooled -> Nat]
      /\ pending'[m] = pending[m] - 1
      /\ \A k \in Pooled \ {m} : pending'[k] = pending[k]
  <2>1. pending[m] - 1 \in Nat
    BY <1>5
  <2> QED  BY <2>1, <1>1 DEF TypeOK
<1>7. TypeOK'
  BY <1>1, <1>2, <1>3, <1>6 DEF TypeOK, cacheVars
<1>8. Shape'
  <2>1. ThreadShape'
    <3> SUFFICES ASSUME NEW u \in Threads
                 PROVE  /\ pc'[u] # "idle" => limit'[u] \in PoolSizes
                        /\ pc'[u] = "idle" => \A k \in Models : held'[u][k] = None
                        /\ Distinct(need'[u])
                        /\ \A k \in need'[u] : held'[u][k] = None
      BY DEF ThreadShape, Distinct
    <3>1. CASE u = t
      BY <3>1, <1>1, <1>2, <1>3 DEF Shape, ThreadShape, Distinct
    <3>2. CASE u # t
      BY <3>2, <1>1, <1>2, <1>3 DEF Shape, ThreadShape, Distinct
    <3> QED  BY <3>1, <3>2
  <2> QED  BY <2>1, <1>1 DEF Shape, PoolShape
<1>9. InUseStays' /\ Exclusive'
  BY <1>1 DEF InUseStays, Exclusive, cacheVars
<1>10. Accounts'
  <2>1. \A k : Holders(k)' = Holders(k)
    BY <1>1 DEF Holders
  <2>2. \A k : {held[u][k] : u \in Holders(k)}' = {held[u][k] : u \in Holders(k)}
    BY <2>1, <1>1
  <2>3. \A k \in Pooled : pending'[k] = Cardinality(Loaders(k)')
    BY <1>4, <1>5, <1>6 DEF Accounts
  <2> QED  BY <2>1, <2>2, <2>3, <1>1 DEF Accounts, cacheVars
<1>11. WaitJustified'
  BY <1>2 DEF WaitJustified
<1>12. Bounded'
  <2>1. \A k \in Pooled : Cardinality(pool[k]) \in Nat /\ pending[k] \in Nat /\ pool'[k] = pool[k]
    BY <1>1, FS_CardinalityType DEF Shape, PoolShape, TypeOK
  <2>2. \A k \in Pooled : pending'[k] \in Nat /\ pending'[k] <= pending[k]
    BY <1>5, <1>6, <2>1
  <2> SUFFICES ASSUME NEW k \in Pooled
               PROVE  \E n \in PoolSizes : Cardinality(pool'[k]) + pending'[k] <= n
    BY DEF Bounded
  <2>3. PICK n \in PoolSizes : Cardinality(pool[k]) + pending[k] <= n
    BY DEF Bounded
  <2>4. n \in Nat
    BY SizeAssumption
  <2> QED  BY <2>1, <2>2, <2>3, <2>4
<1> QED  BY <1>7, <1>8, <1>9, <1>10, <1>11, <1>12

-----------------------------------------------------------------------------
(* Eviction                                                                  *)

\* Removing unused shared sessions takes none that somebody holds.
LEMMA SharedEviction ==
    ASSUME IInv, NEW gone \in SUBSET Unused, cache' = Evicted(gone),
           UNCHANGED <<held, refs, poolVars>>, \A k : Loaders(k)' = Loaders(k)
    PROVE  /\ cache' \in [Singles -> Sessions \cup {None}]
           /\ InUseStays' /\ Exclusive' /\ Accounts' /\ Bounded'
<1> USE DEF IInv, poolVars
<1>1. cache' \in [Singles -> Sessions \cup {None}]
  BY DEF Evicted, TypeOK
<1>2. \A u \in Threads, k \in Singles : held[u][k] # None => k \notin Unused
  <2> SUFFICES ASSUME NEW u \in Threads, NEW k \in Singles, held[u][k] # None
               PROVE  refs[k] # 0
    BY DEF Unused
  <2>1. u \in Holders(k) /\ Holders(k) \in SUBSET Threads
    BY DEF Holders
  <2> QED  BY <2>1, Counting DEF Accounts
<1>3. InUseStays'
  <2>1. \A u \in Threads, k \in Singles : held[u][k] # None => cache'[k] = held[u][k]
    BY <1>2 DEF Evicted, InUseStays
  <2> QED  BY <2>1 DEF InUseStays
<1>4. Exclusive' /\ Bounded'
  BY DEF Exclusive, Bounded
<1>5. Accounts'
  <2>1. \A k : Holders(k)' = Holders(k)
    BY DEF Holders
  <2>2. \A k : {held[u][k] : u \in Holders(k)}' = {held[u][k] : u \in Holders(k)}
    BY <2>1
  <2> QED  BY <2>1, <2>2 DEF Accounts
<1> QED  BY <1>1, <1>3, <1>4, <1>5

\* Removing free entries takes none that somebody holds, and makes pools smaller.
LEMMA ExclusiveEviction ==
    ASSUME IInv, NEW gone,
           pool' = [m \in Pooled |-> pool[m] \ (free[m] \cap gone[m])],
           free' = [m \in Pooled |-> free[m] \ gone[m]],
           UNCHANGED <<held, cacheVars, pending>>, \A k : Loaders(k)' = Loaders(k)
    PROVE  /\ pool' \in [Pooled -> SUBSET Sessions] /\ free' \in [Pooled -> SUBSET Sessions]
           /\ PoolShape' /\ InUseStays' /\ Exclusive' /\ Accounts' /\ Bounded'
<1> USE DEF IInv, cacheVars
<1>1. pool' \in [Pooled -> SUBSET Sessions] /\ free' \in [Pooled -> SUBSET Sessions]
  BY DEF TypeOK
<1>2. \A k \in Pooled : /\ IsFiniteSet(pool[k]) /\ free[k] \subseteq pool[k]
                        /\ pool'[k] = pool[k] \ (free[k] \cap gone[k])
                        /\ free'[k] = free[k] \ gone[k]
  BY DEF Shape, PoolShape
<1>3. \A k \in Pooled : /\ IsFiniteSet(pool'[k])
                        /\ Cardinality(pool'[k]) <= Cardinality(pool[k])
                        /\ Cardinality(pool'[k]) \in Nat /\ Cardinality(pool[k]) \in Nat
  <2> TAKE k \in Pooled
  <2>1. pool'[k] \in SUBSET pool[k] /\ IsFiniteSet(pool[k])
    BY <1>2
  <2>2. IsFiniteSet(pool'[k]) /\ Cardinality(pool'[k]) <= Cardinality(pool[k])
    BY <2>1, FS_Subset
  <2> QED  BY <2>1, <2>2, FS_CardinalityType
<1>4. PoolShape'
  BY <1>2, <1>3 DEF PoolShape
<1>5. InUseStays' /\ Exclusive'
  BY <1>2 DEF InUseStays, Exclusive
<1>6. Accounts'
  <2>1. \A k : Holders(k)' = Holders(k)
    BY DEF Holders
  <2>2. \A k : {held[u][k] : u \in Holders(k)}' = {held[u][k] : u \in Holders(k)}
    BY <2>1
  <2>3. \A k \in Pooled : pool'[k] = free'[k] \cup {held[u][k] : u \in Holders(k)}
    <3> TAKE k \in Pooled
    <3>1. pool[k] = free[k] \cup {held[u][k] : u \in Holders(k)}
      BY DEF Accounts
    <3>2. {held[u][k] : u \in Holders(k)} \cap free[k] = {}
      BY DEF Holders, InUseStays
    <3> QED  BY <3>1, <3>2, <1>2
  <2> QED  BY <2>1, <2>2, <2>3 DEF Accounts
<1>7. Bounded'
  <2> SUFFICES ASSUME NEW k \in Pooled
               PROVE  \E n \in PoolSizes : Cardinality(pool'[k]) + pending[k] <= n
    BY DEF Bounded
  <2>1. PICK n \in PoolSizes : Cardinality(pool[k]) + pending[k] <= n
    BY DEF Bounded
  <2>2. n \in Nat /\ pending[k] \in Nat
    BY SizeAssumption DEF TypeOK
  <2> QED  BY <2>1, <2>2, <1>3
<1> QED  BY <1>1, <1>4, <1>5, <1>6, <1>7

\* Both halves of the eviction by a thread that ran out of memory.
LEMMA OutOfMemorySteps ==
    ASSUME IInv, NEW t \in Threads, EvictUnused(t) \/ EvictFree(t)
    PROVE  IInv'
<1> USE DEF IInv
<1>1. CASE EvictUnused(t)
  <2>1. /\ cache' = Evicted(Unused) /\ pc[t] = "evicting"
        /\ pc' = [pc EXCEPT ![t] = "evictingPools"]
        /\ UNCHANGED <<need, held, limit, uses, failures, refs, poolVars>>
    BY <1>1 DEF EvictUnused
  <2>2. /\ pc' \in [Threads -> Places] /\ pc'[t] = "evictingPools"
        /\ \A u \in Threads \ {t} : pc'[u] = pc[u]
    BY <2>1 DEF TypeOK, Places
  <2>3. \A k : Loaders(k)' = Loaders(k)
    BY <2>1, <2>2, LoadersSame
  <2>4. /\ cache' \in [Singles -> Sessions \cup {None}]
        /\ InUseStays' /\ Exclusive' /\ Accounts' /\ Bounded'
    BY <2>1, <2>3, SharedEviction
  <2>5. TypeOK'
    BY <2>1, <2>2, <2>4 DEF TypeOK, poolVars
  <2>6. Shape'
    BY <2>1, <2>2 DEF Shape, ThreadShape, PoolShape, Distinct, poolVars
  <2>7. WaitJustified'
    BY <2>1, <2>2, WaitersKeep DEF TypeOK, poolVars
  <2> QED  BY <2>4, <2>5, <2>6, <2>7
<1>2. CASE EvictFree(t)
  <2>1. /\ pc[t] = "evictingPools"
        /\ pool' = [m \in Pooled |-> pool[m] \ free[m]]
        /\ free' = [m \in Pooled |-> {}]
        /\ pc' = [Notified(pc) EXCEPT ![t] = "running"]
        /\ UNCHANGED <<need, held, limit, uses, failures, cacheVars, pending>>
    BY <1>2 DEF EvictFree
  <2>2. /\ pc' \in [Threads -> Places] /\ pc'[t] = "running"
        /\ \A u \in Threads \ {t} : pc'[u] = IF pc[u] = "waiting" THEN "asking" ELSE pc[u]
    BY <2>1 DEF TypeOK, Places, Notified
  <2>3. \A k : Loaders(k)' = Loaders(k)
    BY <2>1, <2>2, LoadersSame
  <2>4. /\ pool' = [m \in Pooled |-> pool[m] \ (free[m] \cap free[m])]
        /\ free' = [m \in Pooled |-> free[m] \ free[m]]
    BY <2>1
  <2>5. /\ pool' \in [Pooled -> SUBSET Sessions] /\ free' \in [Pooled -> SUBSET Sessions]
        /\ PoolShape' /\ InUseStays' /\ Exclusive' /\ Accounts' /\ Bounded'
    BY <2>1, <2>3, <2>4, ExclusiveEviction
  <2>6. TypeOK'
    BY <2>1, <2>2, <2>5 DEF TypeOK, cacheVars
  <2>7. Shape'
    <3>1. ThreadShape'
      BY <2>1, <2>2 DEF Shape, ThreadShape, Distinct
    <3> QED  BY <3>1, <2>5 DEF Shape
  <2>8. WaitJustified'
    BY <2>2 DEF WaitJustified
  <2> QED  BY <2>5, <2>6, <2>7, <2>8
<1> QED  BY <1>1, <1>2

\* The periodic eviction of idle sessions: it wakes up nobody, and nobody waits for
\* what it removes.
LEMMA IdleEviction ==
    ASSUME IInv, EvictIdleSingles \/ EvictIdlePooled
    PROVE  IInv'
<1> USE DEF IInv
<1>1. UNCHANGED threadVars /\ \A k : Loaders(k)' = Loaders(k)
  <2>1. UNCHANGED threadVars
    BY DEF EvictIdleSingles, EvictIdlePooled
  <2> QED  BY <2>1, LoadersSame DEF threadVars
<1>2. CASE EvictIdleSingles
  <2>1. PICK gone \in SUBSET Unused : cache' = Evicted(gone)
    BY <1>2 DEF EvictIdleSingles
  <2>2. UNCHANGED <<refs, poolVars>>
    BY <1>2 DEF EvictIdleSingles
  <2>3. /\ cache' \in [Singles -> Sessions \cup {None}]
        /\ InUseStays' /\ Exclusive' /\ Accounts' /\ Bounded'
    BY <1>1, <2>1, <2>2, SharedEviction DEF threadVars
  <2>4. TypeOK' /\ Shape' /\ WaitJustified'
    BY <1>1, <2>2, <2>3 DEF TypeOK, Shape, ThreadShape, PoolShape, Distinct, WaitJustified,
                            Full, NextModel, threadVars, poolVars
  <2> QED  BY <2>3, <2>4
<1>3. CASE EvictIdlePooled
  <2>1. PICK gone \in SUBSET UNION {free[m] : m \in Pooled} :
            /\ pool' = [m \in Pooled |-> pool[m] \ (free[m] \cap gone)]
            /\ free' = [m \in Pooled |-> free[m] \ gone]
    BY <1>3 DEF EvictIdlePooled
  <2>2. UNCHANGED <<cacheVars, pending>>
    BY <1>3 DEF EvictIdlePooled
  <2> DEFINE g == [m \in Pooled |-> gone]
  <2>3. /\ pool' = [m \in Pooled |-> pool[m] \ (free[m] \cap g[m])]
        /\ free' = [m \in Pooled |-> free[m] \ g[m]]
    BY <2>1
  <2> HIDE DEF g
  <2>4. /\ pool' \in [Pooled -> SUBSET Sessions] /\ free' \in [Pooled -> SUBSET Sessions]
        /\ PoolShape' /\ InUseStays' /\ Exclusive' /\ Accounts' /\ Bounded'
    BY <1>1, <2>2, <2>3, ExclusiveEviction DEF threadVars
  <2>5. TypeOK' /\ Shape'
    BY <1>1, <2>2, <2>4 DEF TypeOK, Shape, ThreadShape, Distinct, threadVars, cacheVars
  <2>6. WaitJustified'
    <3>1. \A k \in Pooled : free[k] = {} => free'[k] = {} /\ pool'[k] = pool[k]
      BY <2>3 DEF TypeOK
    <3> QED  BY <3>1, <1>1, <2>2, WaitersKeep DEF TypeOK, threadVars
  <2> QED  BY <2>4, <2>5, <2>6
<1> QED  BY <1>2, <1>3

-----------------------------------------------------------------------------
(* The theorems                                                              *)

\* Every step keeps the invariant.
LEMMA StepIInv == IInv /\ [Next]_vars => IInv'
<1> SUFFICES ASSUME IInv, [Next]_vars PROVE IInv'
  OBVIOUS
<1>1. ASSUME NEW t \in Threads, Thread(t)
      PROVE  IInv'
  <2>1. CASE Begin(t)
    BY <2>1, ControlSteps
  <2>2. CASE Borrow(t)
    BY <2>2, BorrowSteps, SharedLoadSteps, ReserveStep, AppendFailsStep, ControlSteps DEF Borrow
  <2>3. CASE Work(t)
    BY <2>3, ControlSteps, OutOfMemorySteps DEF Work
  <2>4. CASE GiveBack(t)
    BY <2>4, ReleaseStep, ReleaseExclusiveStep DEF GiveBack
  <2> QED  BY <1>1, <2>1, <2>2, <2>3, <2>4 DEF Thread
<1>2. CASE EvictIdleSingles \/ EvictIdlePooled
  BY <1>2, IdleEviction
<1>3. CASE UNCHANGED vars
  <2> USE <1>3 DEF vars, threadVars, cacheVars, poolVars, IInv
  <2>1. TypeOK' /\ Shape'
    BY DEF TypeOK, Shape, ThreadShape, PoolShape, Distinct
  <2>2. WaitJustified'
    BY DEF WaitJustified, Full, NextModel
  <2>3. \A k : Loaders(k)' = Loaders(k)
    BY LoadersSame
  <2>4. InUseStays' /\ Exclusive' /\ Accounts' /\ Bounded'
    BY <2>3, Quiet
  <2> QED  BY <2>1, <2>2, <2>4
<1> QED  BY <1>1, <1>2, <1>3 DEF Next

\* The inductive invariant holds always.
THEOREM PoolInvariant == Spec => []IInv
BY InitIInv, StepIInv, PTL DEF Spec

\* The types; in particular neither holder counts nor reserved slots go below zero.
THEOREM PoolTypes == Spec => []TypeOK
<1>1. IInv => TypeOK
  BY DEF IInv
<1> QED  BY <1>1, PoolInvariant, PTL

\* No session in use is ever evicted or marked as free, whatever other threads load,
\* return or evict.
THEOREM SessionsInUseStay == Spec => []InUseStays
<1>1. IInv => InUseStays
  BY DEF IInv
<1> QED  BY <1>1, PoolInvariant, PTL

\* A pooled session is never with two threads.
THEOREM PoolIsExclusive == Spec => []Exclusive
<1>1. IInv => Exclusive
  BY DEF IInv
<1> QED  BY <1>1, PoolInvariant, PTL

\* No path, failing or not, leaks a holder count, a slot or an entry.
THEOREM NothingLeaks == Spec => []Accounts
<1>1. IInv => Accounts
  BY DEF IInv
<1> QED  BY <1>1, PoolInvariant, PTL

\* Whoever waits waits for a pool that is full and has nothing free: no wakeup is lost.
THEOREM NoLostWakeup == Spec => []WaitJustified
<1>1. IInv => WaitJustified
  BY DEF IInv
<1> QED  BY <1>1, PoolInvariant, PTL

\* With the loads under way, a pool stays within the largest size asked for.
THEOREM PoolsAreBounded == Spec => []Bounded
<1>1. IInv => Bounded
  BY DEF IInv
<1> QED  BY <1>1, PoolInvariant, PTL

\* What is borrowed stays with its one borrower, the run's first property.
THEOREM BorrowedIsSafe == Spec => []SessionsKept
<1>1. InUseStays /\ Exclusive => SessionsKept
  BY DEF SessionsKept
<1> QED  BY <1>1, SessionsInUseStay, PoolIsExclusive, PTL

\* Counts, slots and sizes agree at all times, the run's second property.
THEOREM BooksAlwaysBalance == Spec => []BooksBalance
<1>1. Accounts /\ Bounded => BooksBalance
  BY DEF BooksBalance
<1> QED  BY <1>1, NothingLeaks, PoolsAreBounded, PTL

-----------------------------------------------------------------------------
(* The models outside the pool.                                              *)

CallPlaces == {"idle", "asking", "missing", "crossed", "loading", "using"}

\* A copy of a model, or none.
Copies == [model : Heavy, n : Nat] \cup {Nothing}

HType ==
    /\ slot \in [Processes -> [Engines -> Copies]]
    /\ at \in [Callers -> CallPlaces]
    /\ copy \in [Callers -> Copies]
    /\ wanted \in [Callers -> Heavy \cup {Nothing}]
    /\ asks \in Nat

\* What a call has at each place.
CallShape ==
    \A c \in Callers :
        /\ at[c] \in {"idle", "asking", "missing", "crossed"} => copy[c] = Nothing
        /\ at[c] # "idle" => wanted[c] \in MayAsk[c]

\* The threads of p use one runtime: the other slot is empty, and what is in the slot is
\* some thread's or some thread has nothing.
Shared(p) ==
    \E e \in Engines :
        /\ \A c \in CallersIn(p) : \A m \in MayAsk[c] : EngineOf[m] = e
        /\ slot[p][Other(e)] = Nothing
        /\ slot[p][e] # Nothing => \E c \in CallersIn(p) : copy[c] \in {Nothing, slot[p][e]}

\* The process of c has no other thread: one slot is filled at most, both are empty while
\* it loads, and what is there while it generates is what it uses.
Single(c) ==
    LET p == ProcessOf[c]
    IN  /\ \E e \in Engines : slot[p][e] = Nothing
        /\ at[c] = "crossed" => slot[p][Other(EngineOf[wanted[c]])] = Nothing
        /\ at[c] = "loading" => \A e \in Engines : slot[p][e] = Nothing
        /\ at[c] = "using"   => \A e \in Engines : slot[p][e] \in {Nothing, copy[c]}

\* The inductive invariant.
HInv ==
    /\ HType /\ CallShape
    /\ \A p \in Processes : OneRuntime(p) => Shared(p)
    /\ \A c \in Callers : OneCaller(ProcessOf[c]) => Single(c)

-----------------------------------------------------------------------------
(* Counting                                                                 *)

\* What a function makes of the elements of a finite set is no more than they are.
LEMMA CountedBy ==
    ASSUME NEW S, IsFiniteSet(S), NEW f, NEW T, T \subseteq {f[x] : x \in S}
    PROVE  IsFiniteSet(T) /\ Cardinality(T) \in Nat /\ Cardinality(T) <= Cardinality(S)
<1> DEFINE R == {f[x] : x \in S}
           g == [x \in S |-> f[x]]
<1>1. g \in Surjection(S, R)
  BY DEF Surjection
<1>2. IsFiniteSet(R) /\ Cardinality(R) <= Cardinality(S)
  BY <1>1, FS_Surjection
<1>3. IsFiniteSet(T) /\ Cardinality(T) <= Cardinality(R)
  BY <1>2, FS_Subset
<1>4. Cardinality(T) \in Nat /\ Cardinality(R) \in Nat /\ Cardinality(S) \in Nat
  BY <1>2, <1>3, FS_CardinalityType
<1> QED  BY <1>2, <1>3, <1>4

\* A set without two different elements has at most one.
LEMMA AtMostOne ==
    ASSUME NEW T, NEW x, T \subseteq {x}
    PROVE  Cardinality(T) <= 1
<1>1. IsFiniteSet({x}) /\ Cardinality({x}) = 1
  BY FS_Singleton
<1> QED  BY <1>1, FS_Subset

\* There are two runtimes.
LEMMA TwoEngines ==
    ASSUME NEW e \in Engines
    PROVE  /\ Other(e) \in Engines /\ Other(e) # e
           /\ \A f \in Engines : f = e \/ f = Other(e)
<1>1. \E f \in Engines : f # e
  BY DEF Engines
<1>2. Other(e) \in Engines /\ Other(e) # e
  BY <1>1 DEF Other
<1> QED  BY <1>2 DEF Engines

\* A process has the threads it is the process of.
LEMMA InProcess ==
    ASSUME NEW p \in Processes
    PROVE  /\ IsFiniteSet(CallersIn(p)) /\ CallersIn(p) # {}
           /\ \A c \in CallersIn(p) : c \in Callers /\ ProcessOf[c] = p
<1>1. CallersIn(p) \subseteq Callers
  BY DEF CallersIn
<1> QED  BY <1>1, CallerAssumption, FS_Subset DEF CallersIn, Processes

\* The models in memory can be counted.
LEMMA MemoryFinite ==
    ASSUME NEW p \in Processes
    PROVE  IsFiniteSet(InMemory(p))
<1>1. IsFiniteSet({copy[c] : c \in CallersIn(p)})
  BY InProcess, CountedBy
<1>2. {slot[p][e] : e \in Engines} = {slot[p]["torch"]} \cup {slot[p]["gguf"]}
  BY DEF Engines
<1>3. IsFiniteSet({slot[p][e] : e \in Engines})
  <2>1. IsFiniteSet({slot[p]["torch"]}) /\ IsFiniteSet({slot[p]["gguf"]})
    BY FS_Singleton
  <2>2. IsFiniteSet({slot[p]["torch"]} \cup {slot[p]["gguf"]})
    BY <2>1, FS_Union
  <2> QED  BY <1>2, <2>2
<1>4. IsFiniteSet({slot[p][e] : e \in Engines} \cup {copy[c] : c \in CallersIn(p)})
  BY <1>1, <1>3, FS_Union
<1> QED  BY <1>4, FS_Subset DEF InMemory

\* A load gets a number that no model in memory has.
LEMMA CopyIsNew ==
    ASSUME NEW c \in Callers, wanted[c] \in Heavy
    PROVE  NewCopy(c) \in Copies /\ NewCopy(c) \notin InMemory(ProcessOf[c])
<1> DEFINE M     == InMemory(ProcessOf[c])
           taken == {x.n : x \in M}
           f     == [x \in M |-> x.n]
           N     == 1..Cardinality(taken) + 1
<1>1. IsFiniteSet(M)
  BY MemoryFinite DEF Processes
<1>2. taken \subseteq {f[x] : x \in M}
  OBVIOUS
<1>3. IsFiniteSet(taken) /\ Cardinality(taken) \in Nat
  <2> HIDE DEF M, taken, f
  <2> QED  BY <1>1, <1>2, CountedBy
<1>4. \E n \in N : n \notin taken
  <2> HIDE DEF taken
  <2> SUFFICES ASSUME N \subseteq taken PROVE FALSE
    OBVIOUS
  <2>1. Cardinality(N) <= Cardinality(taken)
    BY <1>3, FS_Subset
  <2>2. Cardinality(N) = Cardinality(taken) + 1
    BY <1>3, FS_Interval
  <2> QED  BY <2>1, <2>2, <1>3
<1> DEFINE k == CHOOSE n \in N : n \notin taken
<1>5. k \in N /\ k \notin taken
  BY <1>4
<1>6. k \in Nat
  <2> HIDE DEF taken, k
  <2> QED  BY <1>3, <1>5
<1>7. NewCopy(c) = [model |-> wanted[c], n |-> k]
  BY DEF NewCopy
<1> HIDE DEF k
<1>8. NewCopy(c) \in Copies
  BY <1>6, <1>7 DEF Copies
<1>9. NewCopy(c).n = k
  BY <1>7
<1> QED  BY <1>5, <1>8, <1>9

-----------------------------------------------------------------------------
(* The invariant is inductive                                               *)

\* The empty engines satisfy the invariant.
LEMMA InitHInv == HInit => HInv
<1> SUFFICES ASSUME HInit PROVE HInv
  OBVIOUS
<1>1. HType
  BY HeavyAssumption DEF HInit, HType, CallPlaces, Copies
<1>2. CallShape
  BY DEF HInit, CallShape
<1>3. ASSUME NEW p \in Processes, OneRuntime(p) PROVE Shared(p)
  <2>1. PICK e \in Engines : \A c \in CallersIn(p) : \A m \in MayAsk[c] : EngineOf[m] = e
    BY <1>3 DEF OneRuntime
  <2>2. slot[p][Other(e)] = Nothing /\ slot[p][e] = Nothing
    BY TwoEngines DEF HInit
  <2> QED  BY <2>1, <2>2 DEF Shared
<1>4. ASSUME NEW c \in Callers PROVE Single(c)
  <2>1. \A e \in Engines : slot[ProcessOf[c]][e] = Nothing
    BY DEF HInit, Processes
  <2>2. "torch" \in Engines
    BY DEF Engines
  <2>3. at[c] = "idle"
    BY DEF HInit
  <2> QED  BY <2>1, <2>2, <2>3 DEF Single
<1> QED  BY <1>1, <1>2, <1>3, <1>4 DEF HInv

\* A step of a thread in its process leaves the others as they are.
LEMMA Elsewhere ==
    ASSUME HInv, HType', CallShape', NEW c \in Callers,
           OneRuntime(ProcessOf[c]) => Shared(ProcessOf[c])',
           OneCaller(ProcessOf[c]) => Single(c)',
           \A q \in Processes \ {ProcessOf[c]} : slot'[q] = slot[q],
           \A d \in Callers \ {c} : at'[d] = at[d] /\ copy'[d] = copy[d] /\ wanted'[d] = wanted[d]
    PROVE  HInv'
<1>1. ASSUME NEW q \in Processes, OneRuntime(q) PROVE Shared(q)'
  <2>1. CASE q = ProcessOf[c]
    BY <1>1, <2>1
  <2>2. CASE q # ProcessOf[c]
    <3>1. Shared(q)
      BY <1>1 DEF HInv
    <3>2. slot'[q] = slot[q] /\ \A d \in CallersIn(q) : copy'[d] = copy[d]
      BY <2>2 DEF CallersIn
    <3> QED  BY <3>1, <3>2 DEF Shared
  <2> QED  BY <2>1, <2>2
<1>2. ASSUME NEW d \in Callers, OneCaller(ProcessOf[d]) PROVE Single(d)'
  <2>1. CASE d = c
    BY <1>2, <2>1
  <2>2. CASE d # c
    <3>1. Single(d)
      BY <1>2 DEF HInv
    <3>2. ProcessOf[d] # ProcessOf[c]
      BY <1>2, <2>2 DEF OneCaller, CallersIn
    <3>3. slot'[ProcessOf[d]] = slot[ProcessOf[d]]
      BY <3>2 DEF Processes
    <3>4. at'[d] = at[d] /\ copy'[d] = copy[d] /\ wanted'[d] = wanted[d]
      BY <2>2
    <3> QED  BY <3>1, <3>3, <3>4 DEF Single
  <2> QED  BY <2>1, <2>2
<1> QED  BY <1>1, <1>2 DEF HInv

\* What is known of a call that is not idle.
LEMMA Asked ==
    ASSUME HInv, NEW c \in Callers, at[c] # "idle"
    PROVE  /\ ProcessOf[c] \in Processes /\ c \in CallersIn(ProcessOf[c])
           /\ wanted[c] \in MayAsk[c] /\ wanted[c] \in Heavy
           /\ EngineOf[wanted[c]] \in Engines
BY HeavyAssumption DEF HInv, CallShape, Processes, CallersIn

\* In a process of one runtime a slot of that runtime is all a call touches.
LEMMA SharedStep ==
    ASSUME HInv, NEW c \in Callers, at[c] # "idle", OneRuntime(ProcessOf[c]),
           NEW v, NEW e \in Engines,
           e = EngineOf[wanted[c]] => \/ v = Nothing
                                      \/ \E d \in CallersIn(ProcessOf[c]) : copy'[d] \in {Nothing, v},
           e # EngineOf[wanted[c]] => v = Nothing,
           slot' = [slot EXCEPT ![ProcessOf[c]][e] = v],
           \/ UNCHANGED copy
           \/ e = EngineOf[wanted[c]]
    PROVE  Shared(ProcessOf[c])'
<1> DEFINE p == ProcessOf[c]
<1>1. p \in Processes /\ c \in CallersIn(p) /\ wanted[c] \in MayAsk[c]
  BY Asked
<1>2. PICK f \in Engines :
        /\ \A d \in CallersIn(p) : \A m \in MayAsk[d] : EngineOf[m] = f
        /\ slot[p][Other(f)] = Nothing
        /\ slot[p][f] # Nothing => \E d \in CallersIn(p) : copy[d] \in {Nothing, slot[p][f]}
  BY <1>1 DEF HInv, Shared
<1>3. EngineOf[wanted[c]] = f
  BY <1>1, <1>2
<1>4. Other(f) \in Engines /\ Other(f) # f
  BY TwoEngines
<1>5. \A g \in Engines : slot'[p][g] = IF g = e THEN v ELSE slot[p][g]
  BY <1>1 DEF HInv, HType
<1>6. slot'[p][Other(f)] = Nothing
  BY <1>2, <1>3, <1>4, <1>5
<1>7. slot'[p][f] # Nothing => \E d \in CallersIn(p) : copy'[d] \in {Nothing, slot'[p][f]}
  <2>1. CASE e = f
    BY <1>3, <1>5, <2>1
  <2>2. CASE e # f
    BY <1>2, <1>3, <1>5, <2>2
  <2> QED  BY <2>1, <2>2
<1> QED  BY <1>2, <1>6, <1>7 DEF Shared

\* Asking, missing the slot, and ending the call change no slot.
LEMMA CallSteps ==
    ASSUME HInv, NEW c \in Callers,
           \/ \E m \in MayAsk[c] : Ask(c, m)
           \/ Missing(c) \/ Over(c)
    PROVE  HInv'
<1> DEFINE p == ProcessOf[c]
<1>1. slot' = slot /\ \A d \in Callers \ {c} : at'[d] = at[d] /\ copy'[d] = copy[d] /\ wanted'[d] = wanted[d]
  BY DEF HInv, HType, Ask, Missing, Over
<1>2. HType'
  BY HeavyAssumption DEF HInv, HType, Ask, Missing, Over, CallPlaces, Copies
<1>3. CallShape'
  BY DEF HInv, HType, CallShape, Ask, Missing, Over
<1>4. copy'[c] \in {copy[c], Nothing}
  BY DEF HInv, HType, Ask, Missing, Over
<1>5. ASSUME OneRuntime(p) PROVE Shared(p)'
  <2>1. Shared(p)
    BY <1>5 DEF HInv, Processes
  <2>2. \A d \in CallersIn(p) : copy'[d] \in {copy[d], Nothing}
    BY <1>1, <1>4 DEF CallersIn
  <2> QED  BY <1>1, <2>1, <2>2 DEF Shared
<1>6. ASSUME OneCaller(p) PROVE Single(c)'
  <2>1. Single(c)
    BY <1>6 DEF HInv
  <2>2. at'[c] \in {"idle", "asking", "missing"}
    BY DEF HInv, HType, Ask, Missing, Over
  <2> QED  BY <1>1, <2>1, <2>2 DEF Single
<1> QED  BY <1>1, <1>2, <1>3, <1>5, <1>6, Elsewhere

\* A model found in the slot is used.
LEMMA ReuseStep ==
    ASSUME HInv, NEW c \in Callers, Reuse(c)
    PROVE  HInv'
<1> DEFINE p == ProcessOf[c]
           w == EngineOf[wanted[c]]
<1>1. at[c] = "asking" /\ slot' = slot /\ wanted' = wanted
  BY DEF Reuse
<1>2. p \in Processes /\ c \in CallersIn(p) /\ wanted[c] \in MayAsk[c] /\ w \in Engines
  BY <1>1, Asked
<1>3. /\ copy'[c] = slot[p][w] /\ at'[c] = "using"
      /\ \A d \in Callers \ {c} : at'[d] = at[d] /\ copy'[d] = copy[d] /\ wanted'[d] = wanted[d]
  BY DEF HInv, HType, Reuse, Own
<1>4. HType'
  BY <1>2 DEF HInv, HType, Reuse, Own, CallPlaces
<1>5. CallShape'
  BY <1>2, <1>3 DEF HInv, HType, CallShape, Reuse
<1>6. ASSUME OneRuntime(p) PROVE Shared(p)'
  <2>1. PICK f \in Engines :
          /\ \A d \in CallersIn(p) : \A m \in MayAsk[d] : EngineOf[m] = f
          /\ slot[p][Other(f)] = Nothing
    BY <1>2, <1>6 DEF HInv, Shared
  <2>2. w = f
    BY <1>2, <2>1
  <2> QED  BY <1>1, <1>2, <1>3, <2>1, <2>2 DEF Shared
<1>7. ASSUME OneCaller(p) PROVE Single(c)'
  <2>1. PICK e \in Engines : slot[p][e] = Nothing
    BY <1>7 DEF HInv, Single
  <2>2. slot[p][w] # Nothing
    BY DEF Reuse, Own
  <2>3. \A g \in Engines : slot[p][g] \in {Nothing, slot[p][w]}
    BY <1>2, <2>1, <2>2, TwoEngines
  <2> QED  BY <1>1, <1>3, <2>1, <2>3 DEF Single
<1> QED  BY <1>3, <1>1, <1>4, <1>5, <1>6, <1>7, Elsewhere

\* The other runtime is told to unload.
LEMMA CrossUnloadStep ==
    ASSUME HInv, NEW c \in Callers, CrossUnload(c)
    PROVE  HInv'
<1> DEFINE p == ProcessOf[c]
           w == EngineOf[wanted[c]]
<1>1. at[c] = "missing" /\ copy' = copy /\ wanted' = wanted
  BY DEF CrossUnload
<1>2. p \in Processes /\ w \in Engines
  BY <1>1, Asked
<1>3. Other(w) \in Engines /\ Other(w) # w
  BY <1>2, TwoEngines
<1>4. slot' = [slot EXCEPT ![p][Other(w)] = Nothing]
  BY DEF CrossUnload
<1>5. /\ slot'[p][Other(w)] = Nothing /\ at'[c] = "crossed"
      /\ \A q \in Processes \ {p} : slot'[q] = slot[q]
      /\ \A d \in Callers \ {c} : at'[d] = at[d] /\ copy'[d] = copy[d] /\ wanted'[d] = wanted[d]
  BY <1>2, <1>3 DEF HInv, HType, CrossUnload
<1>6. HType'
  BY <1>2, <1>3 DEF HInv, HType, CrossUnload, CallPlaces, Copies
<1>7. CallShape'
  BY <1>1 DEF HInv, HType, CallShape, CrossUnload
<1>8. ASSUME OneRuntime(p) PROVE Shared(p)'
  <2> DEFINE v == Nothing
             e == Other(w)
  <2>1. e \in Engines /\ e # w
    BY <1>3
  <2>2. slot' = [slot EXCEPT ![p][e] = v]
    BY <1>4
  <2> HIDE DEF e, v
  <2>3. v = Nothing
    BY DEF v
  <2> QED  BY <1>1, <1>8, <2>1, <2>2, <2>3, SharedStep
<1>9. ASSUME OneCaller(p) PROVE Single(c)'
  BY <1>1, <1>3, <1>5 DEF Single
<1> QED  BY <1>5, <1>6, <1>7, <1>8, <1>9, Elsewhere

\* The own slot is emptied and the load starts.
LEMMA EvictOwnStep ==
    ASSUME HInv, NEW c \in Callers, EvictOwn(c)
    PROVE  HInv'
<1> DEFINE p == ProcessOf[c]
           w == EngineOf[wanted[c]]
<1>1. at[c] = "crossed" /\ wanted' = wanted
  BY DEF EvictOwn
<1>2. p \in Processes /\ w \in Engines /\ wanted[c] \in Heavy /\ wanted[c] \in MayAsk[c]
  BY <1>1, Asked
<1>3. slot' = [slot EXCEPT ![p][w] = Nothing]
  BY DEF EvictOwn
<1>4. /\ slot'[p][w] = Nothing /\ at'[c] = "loading"
      /\ \A g \in Engines \ {w} : slot'[p][g] = slot[p][g]
      /\ \A q \in Processes \ {p} : slot'[q] = slot[q]
      /\ \A d \in Callers \ {c} : at'[d] = at[d] /\ copy'[d] = copy[d] /\ wanted'[d] = wanted[d]
  BY <1>2 DEF HInv, HType, EvictOwn
<1>5. HType'
  <2>1. NewCopy(c) \in Copies
    BY <1>2, CopyIsNew
  <2> QED  BY <1>2, <2>1 DEF HInv, HType, EvictOwn, CallPlaces, Copies
<1>6. CallShape'
  BY <1>2 DEF HInv, HType, CallShape, EvictOwn
<1>7. ASSUME OneRuntime(p) PROVE Shared(p)'
  <2> DEFINE v == Nothing
             e == w
  <2>1. e \in Engines /\ e = w
    BY <1>2
  <2>2. slot' = [slot EXCEPT ![p][e] = v]
    BY <1>3
  <2> HIDE DEF e, v
  <2>3. v = Nothing
    BY DEF v
  <2> QED  BY <1>1, <1>7, <2>1, <2>2, <2>3, SharedStep
<1>8. ASSUME OneCaller(p) PROVE Single(c)'
  <2>1. slot[p][Other(w)] = Nothing
    BY <1>1, <1>8 DEF HInv, Single
  <2>2. \A g \in Engines : slot'[p][g] = Nothing
    BY <1>2, <1>4, <2>1, TwoEngines
  <2> QED  BY <1>2, <1>4, <2>2 DEF Single
<1> QED  BY <1>4, <1>5, <1>6, <1>7, <1>8, Elsewhere

\* The slot takes the loaded copy.
LEMMA LoadedStep ==
    ASSUME HInv, NEW c \in Callers, Loaded(c)
    PROVE  HInv'
<1> DEFINE p == ProcessOf[c]
           w == EngineOf[wanted[c]]
<1>1. at[c] = "loading" /\ wanted' = wanted /\ copy' = copy
  BY DEF Loaded
<1>2. p \in Processes /\ w \in Engines /\ c \in CallersIn(p) /\ wanted[c] \in MayAsk[c]
  BY <1>1, Asked
<1>3. slot' = [slot EXCEPT ![p][w] = copy[c]]
  BY DEF Loaded
<1>4. /\ slot'[p][w] = copy[c] /\ at'[c] = "using"
      /\ \A g \in Engines \ {w} : slot'[p][g] = slot[p][g]
      /\ \A q \in Processes \ {p} : slot'[q] = slot[q]
      /\ \A d \in Callers \ {c} : at'[d] = at[d] /\ copy'[d] = copy[d] /\ wanted'[d] = wanted[d]
  BY <1>2 DEF HInv, HType, Loaded
<1>5. HType'
  BY <1>2 DEF HInv, HType, Loaded, CallPlaces
<1>6. CallShape'
  BY <1>2 DEF HInv, HType, CallShape, Loaded
<1>7. ASSUME OneRuntime(p) PROVE Shared(p)'
  <2> DEFINE v == copy[c]
             e == w
  <2>1. e \in Engines /\ e = w
    BY <1>2
  <2>2. slot' = [slot EXCEPT ![p][e] = v]
    BY <1>3
  <2>3. copy'[c] = v
    BY <1>1
  <2> HIDE DEF e, v
  <2>4. \E d \in CallersIn(p) : copy'[d] \in {Nothing, v}
    BY <1>2, <2>3
  <2> QED  BY <1>1, <1>7, <2>1, <2>2, <2>4, SharedStep
<1>8. ASSUME OneCaller(p) PROVE Single(c)'
  <2>1. \A g \in Engines : slot[p][g] = Nothing
    BY <1>1, <1>8 DEF HInv, Single
  <2>2. Other(w) \in Engines /\ slot'[p][Other(w)] = Nothing
    BY <1>2, <1>4, <2>1, TwoEngines
  <2>3. \A g \in Engines : slot'[p][g] \in {Nothing, copy[c]}
    BY <1>4, <2>1
  <2> QED  BY <1>1, <1>4, <2>2, <2>3 DEF Single
<1> QED  BY <1>4, <1>5, <1>6, <1>7, <1>8, <1>1, Elsewhere

\* An idle slot is emptied, whoever still uses what was in it.
LEMMA IdleStep ==
    ASSUME HInv, NEW p \in Processes, NEW e \in Engines, EvictHeavyIdle(p, e)
    PROVE  HInv'
<1>1. /\ at' = at /\ copy' = copy /\ wanted' = wanted
      /\ \A q \in Processes, f \in Engines : slot'[q][f] \in {slot[q][f], Nothing}
  BY DEF HInv, HType, EvictHeavyIdle
<1>2. HType' /\ CallShape'
  BY DEF HInv, HType, CallShape, EvictHeavyIdle, Copies
<1>3. ASSUME NEW q \in Processes, OneRuntime(q) PROVE Shared(q)'
  <2>1. PICK f \in Engines :
          /\ \A d \in CallersIn(q) : \A m \in MayAsk[d] : EngineOf[m] = f
          /\ slot[q][Other(f)] = Nothing
          /\ slot[q][f] # Nothing => \E d \in CallersIn(q) : copy[d] \in {Nothing, slot[q][f]}
    BY <1>3 DEF HInv, Shared
  <2>2. Other(f) \in Engines
    BY TwoEngines
  <2>3. slot'[q][Other(f)] = Nothing
    BY <1>1, <2>1, <2>2
  <2>4. slot'[q][f] # Nothing => slot'[q][f] = slot[q][f]
    BY <1>1
  <2> QED  BY <1>1, <2>1, <2>3, <2>4 DEF Shared
<1>4. ASSUME NEW c \in Callers, OneCaller(ProcessOf[c]) PROVE Single(c)'
  <2>1. Single(c) /\ ProcessOf[c] \in Processes
    BY <1>4 DEF HInv, Processes
  <2>2. at[c] = "crossed" => Other(EngineOf[wanted[c]]) \in Engines
    BY Asked, TwoEngines
  <2> QED  BY <1>1, <2>1, <2>2 DEF Single
<1> QED  BY <1>2, <1>3, <1>4 DEF HInv

\* The invariant bounds the models in memory.
LEMMA InvFits == HInv => HeavyModelsFit
<1> SUFFICES ASSUME HInv, NEW p \in Processes,
                    OneCaller(p) \/ (\A c \in CallersIn(p) : at[c] = "idle")
             PROVE  Cardinality(InMemory(p)) <= 1
  BY DEF HeavyModelsFit
<1> DEFINE S == CallersIn(p)
<1>1. IsFiniteSet(S) /\ S # {} /\ \A c \in S : c \in Callers /\ ProcessOf[c] = p
  BY InProcess
<1>2. CASE OneRuntime(p) /\ \A c \in S : at[c] = "idle"
  <2>1. PICK e \in Engines : slot[p][Other(e)] = Nothing
    BY <1>2 DEF HInv, Shared
  <2>2. \A c \in S : copy[c] = Nothing
    BY <1>1, <1>2 DEF HInv, CallShape
  <2>3. InMemory(p) \subseteq {slot[p][e]}
    BY <2>1, <2>2, TwoEngines DEF InMemory
  <2> QED  BY <2>3, AtMostOne
<1>3. CASE OneCaller(p)
  <2>1. PICK c \in S : S = {c}
    BY <1>1, <1>3 DEF OneCaller
  <2>2. c \in Callers /\ ProcessOf[c] = p /\ Single(c)
    BY <1>1, <1>3 DEF HInv
  <2>3. InMemory(p) = ({slot[p][e] : e \in Engines} \cup {copy[c]}) \ {Nothing}
    BY <2>1 DEF InMemory
  <2>4. \E x : InMemory(p) \subseteq {x}
    <3>1. CASE at[c] \in {"loading", "using"}
      <4>1. \A e \in Engines : slot[p][e] \in {Nothing, copy[c]}
        BY <2>2, <3>1 DEF Single
      <4>2. InMemory(p) \subseteq {copy[c]}
        BY <2>3, <4>1
      <4> QED  BY <4>2
    <3>2. CASE at[c] \notin {"loading", "using"}
      <4>1. copy[c] = Nothing
        BY <2>2, <3>2 DEF HInv, HType, CallShape, CallPlaces
      <4>2. PICK e \in Engines : slot[p][e] = Nothing
        BY <2>2 DEF Single
      <4>3. \A g \in Engines : slot[p][g] \in {Nothing, slot[p][Other(e)]}
        BY <4>2, TwoEngines
      <4>4. InMemory(p) \subseteq {slot[p][Other(e)]}
        BY <2>3, <4>1, <4>3
      <4> QED  BY <4>4
    <3> QED  BY <3>1, <3>2
  <2> QED  BY <2>4, AtMostOne
<1> QED  BY <1>2, <1>3, RuntimeAssumption

\* A step that puts only what is in memory into slots and hands adds nothing to it.
LEMMA NoMore ==
    ASSUME NEW p \in Processes,
           \A e \in Engines : slot'[p][e] \in InMemory(p) \cup {Nothing},
           \A d \in CallersIn(p) : copy'[d] \in InMemory(p) \cup {Nothing}
    PROVE  InMemory(p)' \subseteq InMemory(p)
BY DEF InMemory

\* The other runtime has nothing when a load starts.
LEMMA CrossedAlone ==
    ASSUME HInv, NEW c \in Callers, at[c] = "crossed"
    PROVE  slot[ProcessOf[c]][Other(EngineOf[wanted[c]])] = Nothing
<1> DEFINE p == ProcessOf[c]
<1>1. p \in Processes /\ c \in CallersIn(p) /\ wanted[c] \in MayAsk[c]
  BY Asked
<1>2. CASE OneRuntime(p)
  BY <1>1, <1>2 DEF HInv, Shared
<1>3. CASE OneCaller(p)
  BY <1>3 DEF HInv, Single
<1> QED  BY <1>1, <1>2, <1>3, RuntimeAssumption

\* A load beside no other call leaves one model in memory.
LEMMA LoadGrows ==
    ASSUME HInv, NEW c \in Callers, EvictOwn(c), NEW p \in Processes
    PROVE  \/ Cardinality(InMemory(p)') <= 1
           \/ InMemory(p)' \subseteq InMemory(p)
           \/ \E b, d \in CallersIn(p) : b # d /\ EvictOwn(b) /\ copy[d] # Nothing
<1> DEFINE w == EngineOf[wanted[c]]
<1>1. at[c] = "crossed"
  BY DEF EvictOwn
<1>2. ProcessOf[c] \in Processes /\ c \in CallersIn(ProcessOf[c]) /\ w \in Engines
  BY <1>1, Asked
<1>3. /\ \A g \in Engines : slot'[ProcessOf[c]][g] = IF g = w THEN Nothing ELSE slot[ProcessOf[c]][g]
      /\ \A q \in Processes \ {ProcessOf[c]} : slot'[q] = slot[q]
      /\ \A d \in Callers \ {c} : copy'[d] = copy[d]
  BY <1>2 DEF HInv, HType, EvictOwn
<1>4. CASE p # ProcessOf[c]
  <2>1. \A d \in CallersIn(p) : copy'[d] = copy[d]
    BY <1>3, <1>4 DEF CallersIn
  <2> QED  BY <1>3, <1>4, <2>1, NoMore DEF InMemory
<1>5. CASE p = ProcessOf[c] /\ \A d \in CallersIn(p) \ {c} : copy[d] = Nothing
  <2>1. slot[p][Other(w)] = Nothing
    BY <1>1, <1>5, CrossedAlone
  <2>2. \A g \in Engines : slot'[p][g] = Nothing
    BY <1>2, <1>3, <1>5, <2>1, TwoEngines
  <2>3. \A d \in CallersIn(p) : copy'[d] \in {Nothing, copy'[c]}
    BY <1>3, <1>5 DEF CallersIn
  <2>4. InMemory(p)' \subseteq {copy'[c]}
    BY <2>2, <2>3 DEF InMemory
  <2> DEFINE M == InMemory(p)'
  <2>5. M \subseteq {copy'[c]}
    BY <2>4
  <2> HIDE DEF M
  <2>6. Cardinality(M) <= 1
    BY <2>5, AtMostOne
  <2> QED  BY <2>6 DEF M
<1>6. CASE p = ProcessOf[c] /\ \E d \in CallersIn(p) \ {c} : copy[d] # Nothing
  BY <1>2, <1>6
<1> QED  BY <1>4, <1>5, <1>6

\* No other step adds to what is in memory.
LEMMA OthersKeep ==
    ASSUME HInv, NEW p \in Processes,
           \/ \E c \in Callers : \/ \E m \in MayAsk[c] : Ask(c, m)
                                 \/ Reuse(c) \/ Missing(c) \/ CrossUnload(c) \/ Loaded(c) \/ Over(c)
           \/ \E q \in Processes, e \in Engines : EvictHeavyIdle(q, e)
           \/ UNCHANGED hvars
    PROVE  InMemory(p)' \subseteq InMemory(p)
<1>1. /\ \A e \in Engines : slot[p][e] \in InMemory(p) \cup {Nothing}
      /\ \A d \in CallersIn(p) : copy[d] \in InMemory(p) \cup {Nothing}
  BY DEF InMemory
<1>2. \A d \in CallersIn(p) : d \in Callers /\ ProcessOf[d] = p
  BY DEF CallersIn
<1>3. CASE \E c \in Callers : \E m \in MayAsk[c] : Ask(c, m)
  BY <1>1, <1>3, NoMore DEF Ask
<1>4. ASSUME NEW c \in Callers, Reuse(c) PROVE InMemory(p)' \subseteq InMemory(p)
  <2>1. EngineOf[wanted[c]] \in Engines
    BY <1>4, Asked DEF Reuse
  <2>2. slot' = slot /\ copy' = [copy EXCEPT ![c] = slot[ProcessOf[c]][EngineOf[wanted[c]]]]
    BY <1>4 DEF Reuse, Own
  <2>3. \A d \in CallersIn(p) : copy'[d] \in InMemory(p) \cup {Nothing}
    BY <1>1, <1>2, <2>1, <2>2 DEF HInv, HType
  <2> QED  BY <1>1, <2>2, <2>3, NoMore
<1>5. CASE \E c \in Callers : Missing(c)
  BY <1>1, <1>5, NoMore DEF Missing
<1>6. CASE \E c \in Callers : CrossUnload(c)
  <2>1. copy' = copy /\ \A e \in Engines : slot'[p][e] \in {slot[p][e], Nothing}
    BY <1>6 DEF HInv, HType, CrossUnload
  <2> QED  BY <1>1, <2>1, NoMore
<1>7. ASSUME NEW c \in Callers, Loaded(c) PROVE InMemory(p)' \subseteq InMemory(p)
  <2>1. copy' = copy /\ slot' = [slot EXCEPT ![ProcessOf[c]][EngineOf[wanted[c]]] = copy[c]]
    BY <1>7 DEF Loaded
  <2>2. ASSUME NEW e \in Engines PROVE slot'[p][e] \in InMemory(p) \cup {Nothing}
    <3>1. CASE p = ProcessOf[c]
      <4>1. slot'[p][e] \in {slot[p][e], copy[c]} /\ c \in CallersIn(p)
        BY <2>1, <3>1 DEF HInv, HType, CallersIn
      <4> QED  BY <1>1, <4>1
    <3>2. CASE p # ProcessOf[c]
      <4>1. slot'[p][e] = slot[p][e]
        BY <2>1, <3>2 DEF HInv, HType
      <4> QED  BY <1>1, <4>1
    <3> QED  BY <3>1, <3>2
  <2> QED  BY <1>1, <2>1, <2>2, NoMore
<1>8. CASE \E c \in Callers : Over(c)
  <2>1. slot' = slot /\ \A d \in CallersIn(p) : copy'[d] \in {copy[d], Nothing}
    BY <1>2, <1>8 DEF HInv, HType, Over
  <2> QED  BY <1>1, <2>1, NoMore
<1>9. CASE \E q \in Processes, e \in Engines : EvictHeavyIdle(q, e)
  <2>1. copy' = copy /\ \A e \in Engines : slot'[p][e] \in {slot[p][e], Nothing}
    BY <1>9 DEF HInv, HType, EvictHeavyIdle
  <2> QED  BY <1>1, <2>1, NoMore
<1>10. CASE UNCHANGED hvars
  BY <1>1, <1>10, NoMore DEF hvars
<1> QED  BY <1>3, <1>4, <1>5, <1>6, <1>7, <1>8, <1>9, <1>10

-----------------------------------------------------------------------------
\* Every step of the engines keeps the invariant.
THEOREM HeavyInvariant == HSpec => []HInv
<1>1. HInv /\ [HNext]_hvars => HInv'
  <2> SUFFICES ASSUME HInv, [HNext]_hvars PROVE HInv'
    OBVIOUS
  <2>1. ASSUME NEW c \in Callers, \E m \in MayAsk[c] : Ask(c, m) PROVE HInv'
    BY <2>1, CallSteps
  <2>2. ASSUME NEW c \in Callers, Missing(c) \/ Over(c) PROVE HInv'
    BY <2>2, CallSteps
  <2>3. ASSUME NEW c \in Callers, Reuse(c) PROVE HInv'
    BY <2>3, ReuseStep
  <2>4. ASSUME NEW c \in Callers, CrossUnload(c) PROVE HInv'
    BY <2>4, CrossUnloadStep
  <2>5. ASSUME NEW c \in Callers, EvictOwn(c) PROVE HInv'
    BY <2>5, EvictOwnStep
  <2>6. ASSUME NEW c \in Callers, Loaded(c) PROVE HInv'
    BY <2>6, LoadedStep
  <2>7. ASSUME NEW p \in Processes, NEW e \in Engines, EvictHeavyIdle(p, e) PROVE HInv'
    BY <2>7, IdleStep
  <2>8. CASE UNCHANGED hvars
    BY <2>8 DEF hvars, HInv, HType, CallShape, Shared, Single
  <2> QED  BY <2>1, <2>2, <2>3, <2>4, <2>5, <2>6, <2>7, <2>8 DEF HNext
<1> QED  BY <1>1, InitHInv, PTL DEF HSpec

\* A process with one thread that generates texts or captions never has two heavy models in
\* memory, and every process has at most one when all such threads are idle, for any number
\* of processes, threads and models: the two engines keep it together, though each looks at
\* its own slot under its own lock.
THEOREM HeavyModelsSafe == HSpec => []HeavyModelsFit
BY HeavyInvariant, InvFits, PTL

\* Only a load beside another call that has a model brings a second one into memory,
\* whatever unloads, evicts and fails in between.
THEOREM SecondOnlyBesideCall == HSpec => SecondBesideCall
<1>1. HInv /\ [HNext]_hvars =>
        \A p \in Processes :
          \/ Cardinality(InMemory(p)') <= 1
          \/ InMemory(p)' \subseteq InMemory(p)
          \/ \E c, d \in CallersIn(p) : c # d /\ EvictOwn(c) /\ copy[d] # Nothing
  <2> SUFFICES ASSUME HInv, [HNext]_hvars, NEW p \in Processes
               PROVE  \/ Cardinality(InMemory(p)') <= 1
                      \/ InMemory(p)' \subseteq InMemory(p)
                      \/ \E c, d \in CallersIn(p) : c # d /\ EvictOwn(c) /\ copy[d] # Nothing
    OBVIOUS
  <2>1. CASE \E c \in Callers : EvictOwn(c)
    BY <2>1, LoadGrows
  <2>2. CASE ~\E c \in Callers : EvictOwn(c)
    BY <2>2, OthersKeep DEF HNext
  <2> QED  BY <2>1, <2>2
<1> QED  BY <1>1, HeavyInvariant, PTL DEF HSpec, SecondBesideCall

\* A load never takes the place of a model that is in memory: the copies are told apart,
\* so what is counted are copies, not names.
THEOREM CopiesDiffer ==
    ASSUME HInv, NEW c \in Callers, EvictOwn(c)
    PROVE  copy'[c] \in Copies \ InMemory(ProcessOf[c])
<1>1. wanted[c] \in Heavy
  BY Asked DEF EvictOwn
<1>2. copy'[c] = NewCopy(c)
  BY DEF EvictOwn, HInv, HType
<1> QED  BY <1>1, <1>2, CopyIsNew
=============================================================================
