-------------------------- MODULE PoolCreate_proofs --------------------------
(***************************************************************************)
(* Proofs about PoolCreate, for any number of workers.  Chapter 6 frees    *)
(* the pool under its workers when a pthread_create fails (the run         *)
(* PoolCreate_ch6 shows it); the invariant below says that this is the     *)
(* only way in which any chapter can do so.                                *)
(***************************************************************************)
EXTENDS PoolCreate, TLAPS

USE DEF vars, createVars

\* The failure after which chapter 6 destroys a pool it has not finished.
Chapter6Failed == chapter = 6 /\ spawn_failed

TypeOK ==
    /\ chapter \in {1, 6, 10}
    /\ cpc \in {"pool", "arrays", "sync", "err_cleanup", "spawn", "ok", "destroy",
                "join", "null"}
    /\ i \in 0 .. Started
    /\ blocks \in SUBSET Blocks /\ sync \in SUBSET Sync
    /\ shutdown \in BOOLEAN /\ joined \in {0, thread_count}
    /\ cond_failed \in BOOLEAN /\ spawn_failed \in BOOLEAN
    /\ worker \in [Ids -> {"none", "lock", "wait", "exited"}]

\* Workers are started in order, and only once everything else is there.
SpawnedInv ==
    /\ \A w \in Ids : worker[w] # "none" <=> w < i
    /\ cpc \in {"pool", "arrays", "sync", "err_cleanup"} => i = 0 /\ ~spawn_failed

\* What exists at each statement of create and destroy.
ResourceInv ==
    /\ cpc = "pool" => blocks = {} /\ sync = {}
    /\ cpc = "arrays" => blocks = {"pool"} /\ sync = {}
    /\ cpc = "sync" => blocks = Blocks /\ sync = {}
    /\ cpc \in {"pool", "arrays", "sync"} => ~cond_failed
    /\ cpc = "err_cleanup" => sync = IF cond_failed THEN {"lock"} ELSE {}
    /\ cpc \in {"spawn", "ok", "destroy", "join"} =>
        blocks = Blocks /\ sync = Sync /\ ~cond_failed /\ ~spawn_failed
    /\ cpc \in {"ok", "destroy", "join"} => joined = thread_count /\ i = Started
    /\ cpc = "null" /\ spawn_failed => blocks = Blocks /\ sync = Sync
    /\ cpc = "null" /\ ~spawn_failed =>
        /\ blocks = {} /\ sync = IF cond_failed THEN {"lock"} ELSE {}
        /\ \A w \in Ids : ~Alive(w)

IInv == TypeOK /\ SpawnedInv /\ (~Chapter6Failed => ResourceInv)

-----------------------------------------------------------------------------
LEMMA StartedRange == TypeOK => Started \in Nat /\ Started <= thread_count
BY CreateAssumption DEF TypeOK, Started

LEMMA IInit == Init => IInv
<1> SUFFICES ASSUME Init PROVE IInv
    OBVIOUS
<1>1. chapter \in {1, 6, 10} /\ i \in 0 .. Started
    BY CreateAssumption DEF Init, Started
<1>2. TypeOK
    BY <1>1 DEF Init, TypeOK
<1>3. SpawnedInv
    BY CreateAssumption DEF Init, SpawnedInv, Ids
<1>4. ResourceInv
    BY DEF Init, ResourceInv
<1> QED  BY <1>2, <1>3, <1>4 DEF IInv

LEMMA TypeNext == IInv /\ [Next]_vars => TypeOK'
<1> SUFFICES ASSUME IInv, [Next]_vars PROVE TypeOK'
    OBVIOUS
<1> USE CreateAssumption DEF TypeOK, Started, Ids, Blocks, Sync
<1>0. TypeOK /\ SpawnedInv /\ Started \in Nat
    BY StartedRange DEF IInv
<1>1. ASSUME MallocPool PROVE TypeOK'
    BY <1>0, <1>1 DEF MallocPool
<1>2. ASSUME MallocArrays PROVE TypeOK'
    BY <1>0, <1>2 DEF MallocArrays, Arrays, Blocks
<1>3. ASSUME InitSync PROVE TypeOK'
    BY <1>0, <1>3 DEF InitSync, Sync
<1>4. ASSUME ErrCleanup PROVE TypeOK'
    BY <1>0, <1>4 DEF ErrCleanup, FreeAll
<1>5. ASSUME Spawn PROVE TypeOK'
    BY <1>0, <1>5 DEF Spawn
<1>6. ASSUME SpawnFails PROVE TypeOK'
    BY <1>0, <1>6 DEF SpawnFails, AfterFailure
<1>7. ASSUME Created PROVE TypeOK'
    BY <1>0, <1>7 DEF Created
<1>8. ASSUME CallDestroy PROVE TypeOK'
    BY <1>0, <1>8 DEF CallDestroy
<1>9. ASSUME Broadcast PROVE TypeOK'
    BY <1>0, <1>9 DEF Broadcast
<1>10. ASSUME JoinAndFree PROVE TypeOK'
    BY <1>0, <1>10 DEF JoinAndFree, Joined
<1>11. ASSUME JustFree PROVE TypeOK'
    BY <1>0, <1>11 DEF JustFree
<1>12. ASSUME NEW w \in Ids, Enter(w) PROVE TypeOK'
    BY <1>0, <1>12 DEF Enter
<1>13. ASSUME NEW w \in Ids, Spurious(w) PROVE TypeOK'
    BY <1>0, <1>13 DEF Spurious
<1>14. CASE UNCHANGED vars
    BY <1>0, <1>14
<1> QED
    BY <1>1, <1>2, <1>3, <1>4, <1>5, <1>6, <1>7, <1>8, <1>9, <1>10, <1>11, <1>12, <1>13, <1>14 DEF Next

LEMMA SpawnedNext == IInv /\ [Next]_vars => SpawnedInv'
<1> SUFFICES ASSUME IInv, [Next]_vars PROVE SpawnedInv'
    OBVIOUS
<1> USE CreateAssumption DEF TypeOK, Started, SpawnedInv, Ids
<1>0. TypeOK /\ SpawnedInv
    BY StartedRange DEF IInv
<1>1. ASSUME MallocPool PROVE SpawnedInv'
    BY <1>0, <1>1 DEF MallocPool
<1>2. ASSUME MallocArrays PROVE SpawnedInv'
    BY <1>0, <1>2 DEF MallocArrays, Arrays, Blocks
<1>3. ASSUME InitSync PROVE SpawnedInv'
    BY <1>0, <1>3 DEF InitSync, Sync
<1>4. ASSUME ErrCleanup PROVE SpawnedInv'
    BY <1>0, <1>4 DEF ErrCleanup, FreeAll
<1>5. ASSUME Spawn PROVE SpawnedInv'
    BY <1>0, <1>5 DEF Spawn
<1>6. ASSUME SpawnFails PROVE SpawnedInv'
    BY <1>0, <1>6 DEF SpawnFails, AfterFailure
<1>7. ASSUME Created PROVE SpawnedInv'
    BY <1>0, <1>7 DEF Created
<1>8. ASSUME CallDestroy PROVE SpawnedInv'
    BY <1>0, <1>8 DEF CallDestroy
<1>9. ASSUME Broadcast PROVE SpawnedInv'
    BY <1>0, <1>9 DEF Broadcast
<1>10. ASSUME JoinAndFree PROVE SpawnedInv'
    BY <1>0, <1>10 DEF JoinAndFree, Joined
<1>11. ASSUME JustFree PROVE SpawnedInv'
    BY <1>0, <1>11 DEF JustFree
<1>12. ASSUME NEW w \in Ids, Enter(w) PROVE SpawnedInv'
    BY <1>0, <1>12 DEF Enter
<1>13. ASSUME NEW w \in Ids, Spurious(w) PROVE SpawnedInv'
    BY <1>0, <1>13 DEF Spurious
<1>14. CASE UNCHANGED vars
    BY <1>0, <1>14
<1> QED
    BY <1>1, <1>2, <1>3, <1>4, <1>5, <1>6, <1>7, <1>8, <1>9, <1>10, <1>11, <1>12, <1>13, <1>14 DEF Next

LEMMA ResourceNext == IInv /\ [Next]_vars => (~Chapter6Failed => ResourceInv)'
<1> SUFFICES ASSUME IInv, [Next]_vars, ~Chapter6Failed' PROVE ResourceInv'
    OBVIOUS
<1> USE CreateAssumption DEF TypeOK, Started, SpawnedInv, ResourceInv, Chapter6Failed, Alive, Ids
<1>0. TypeOK /\ SpawnedInv /\ (~Chapter6Failed => ResourceInv)
    BY StartedRange DEF IInv
<1>1. ASSUME MallocPool PROVE ResourceInv'
    BY <1>0, <1>1 DEF MallocPool
<1>2. ASSUME MallocArrays PROVE ResourceInv'
    BY <1>0, <1>2 DEF MallocArrays, Arrays, Blocks
<1>3. ASSUME InitSync PROVE ResourceInv'
    <2>0. PICK got \in {{}, {"lock"}, Sync} :
              /\ sync' = got /\ cond_failed' = (got = {"lock"})
              /\ cpc' = IF got = Sync THEN "spawn" ELSE "err_cleanup"
        BY <1>3 DEF InitSync
    <2>1. cpc = "sync" /\ UNCHANGED <<chapter, i, blocks, shutdown, joined, spawn_failed, worker>>
        BY <1>3 DEF InitSync
    <2>2. cond_failed' <=> got = {"lock"}
        BY <2>0, Zenon
    <2>3. sync' = IF cond_failed' THEN {"lock"} ELSE IF got = Sync THEN Sync ELSE {}
        BY <2>0, <2>2 DEF Sync
    <2>4. got = Sync => ~cond_failed'
        BY <2>2 DEF Sync
    <2> QED  BY <1>0, <2>0, <2>1, <2>3, <2>4
<1>4. ASSUME ErrCleanup PROVE ResourceInv'
    BY <1>0, <1>4 DEF ErrCleanup, FreeAll
<1>5. ASSUME Spawn PROVE ResourceInv'
    BY <1>0, <1>5 DEF Spawn
<1>6. ASSUME SpawnFails PROVE ResourceInv'
    BY <1>0, <1>6 DEF SpawnFails, AfterFailure
<1>7. ASSUME Created PROVE ResourceInv'
    BY <1>0, <1>7 DEF Created
<1>8. ASSUME CallDestroy PROVE ResourceInv'
    BY <1>0, <1>8 DEF CallDestroy
<1>9. ASSUME Broadcast PROVE ResourceInv'
    BY <1>0, <1>9 DEF Broadcast
<1>10. ASSUME JoinAndFree PROVE ResourceInv'
    BY <1>0, <1>10 DEF JoinAndFree, Joined
<1>11. ASSUME JustFree PROVE ResourceInv'
    BY <1>0, <1>11 DEF JustFree
<1>12. ASSUME NEW w \in Ids, Enter(w) PROVE ResourceInv'
    BY <1>0, <1>12 DEF Enter
<1>13. ASSUME NEW w \in Ids, Spurious(w) PROVE ResourceInv'
    BY <1>0, <1>13 DEF Spurious
<1>14. CASE UNCHANGED vars
    BY <1>0, <1>14
<1> QED
    BY <1>1, <1>2, <1>3, <1>4, <1>5, <1>6, <1>7, <1>8, <1>9, <1>10, <1>11, <1>12, <1>13, <1>14 DEF Next

-----------------------------------------------------------------------------
(* The theorems. *)

THEOREM Inductive == Spec => []IInv
<1>1. IInv /\ [Next]_vars => IInv'
    BY TypeNext, SpawnedNext, ResourceNext DEF IInv
<1> QED  BY <1>1, IInit, PTL DEF Spec

LEMMA SafeUnlessChapter6Fails ==
    IInv => Chapter6Failed \/ (NoFreeUnderWorkers /\ CreateAllOrNothing)
<1> SUFFICES ASSUME IInv, ~Chapter6Failed PROVE NoFreeUnderWorkers /\ CreateAllOrNothing
    OBVIOUS
<1>0. TypeOK /\ SpawnedInv /\ ResourceInv /\ Started \in Nat
    BY StartedRange DEF IInv
<1>1. NoFreeUnderWorkers
    BY <1>0 DEF TypeOK, SpawnedInv, ResourceInv, NoFreeUnderWorkers, Alive, Ids
<1>2. cpc = "ok" => \A w \in Ids : worker[w] # "none" <=> chapter # 1
    BY <1>0, CreateAssumption DEF SpawnedInv, ResourceInv, Started, Ids
<1>3. CreateAllOrNothing
    BY <1>0, <1>2 DEF ResourceInv, CreateAllOrNothing, Leaked
<1> QED  BY <1>1, <1>3

\* In every chapter: the pool's memory goes away under a running worker, or
\* create leaves something half made, only after a pthread_create failed in
\* chapter 6.
THEOREM OnlyChapter6Frees ==
    Spec => [](Chapter6Failed \/ (NoFreeUnderWorkers /\ CreateAllOrNothing))
BY Inductive, SafeUnlessChapter6Fails, PTL

LEMMA OtherChapters == 6 \notin Chapters /\ Spec => []~Chapter6Failed
<1>1. 6 \notin Chapters /\ Init => chapter # 6
    BY DEF Init
<1>2. chapter # 6 /\ [Next]_vars => (chapter # 6)'
    BY DEF Next, MallocPool, MallocArrays, InitSync, ErrCleanup, Spawn, SpawnFails, Created,
           CallDestroy, Broadcast, JoinAndFree, JustFree, Enter, Spurious
<1>3. chapter # 6 => ~Chapter6Failed
    BY DEF Chapter6Failed
<1> QED  BY <1>1, <1>2, <1>3, PTL DEF Spec

\* As create and destroy are in chapters 1 and 7 to 10, nothing is freed under a
\* running worker.
THEOREM NothingFreedUnderWorkers == 6 \notin Chapters /\ Spec => []NoFreeUnderWorkers
BY OnlyChapter6Frees, OtherChapters, PTL

\* There, thread_pool_create returns a complete pool or nothing, except for the
\* mutex it leaves when pthread_cond_init fails and for what a failed
\* pthread_create leaks.
THEOREM AllOrNothing == 6 \notin Chapters /\ Spec => []CreateAllOrNothing
BY OnlyChapter6Frees, OtherChapters, PTL
=============================================================================
