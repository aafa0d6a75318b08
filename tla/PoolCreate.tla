----------------------------- MODULE PoolCreate -----------------------------
(***************************************************************************)
(* thread_pool_create and its failure paths.  Each allocation, each        *)
(* initialisation and each pthread_create may fail; workers already run    *)
(* while later ones are still being created.  When a pthread_create fails, *)
(* chapter 6 calls thread_pool_destroy, and chapters 7 to 10 just return   *)
(* NULL.  Chapters 7 to 10 also bind each worker to a core; that call, its *)
(* failure and the debug line a worker prints do not touch the pool.       *)
(*                                                                         *)
(* The pool's blocks and its mutex and condition variable are members of   *)
(* two sets.  The critical sections of the workers and of destroy are one  *)
(* action each: here the ring is empty and only the flag matters.  In      *)
(* chapters 1 to 3 a pool has no worker, and destroy only frees it.        *)
(***************************************************************************)
EXTENDS Integers, FiniteSets

CONSTANTS thread_count,  \* the number of workers asked for
          Chapters       \* of {1, 6, 10}: whose code is modelled

ASSUME CreateAssumption == thread_count \in Nat \ {0} /\ Chapters \subseteq {1, 6, 10}

Ids == 0 .. thread_count - 1
Arrays == {"threads", "queue"}
Blocks == Arrays \cup {"pool"}
Sync == {"lock", "notify"}

VARIABLES
    chapter,       \* one of Chapters
    cpc,           \* where create (or the destroy it calls) is
    i,             \* the loop counter
    blocks,        \* allocated blocks
    sync,          \* initialised synchronisation objects
    shutdown,
    joined,        \* pool->thread_count: how many workers a destroy joins
    cond_failed,   \* history: pthread_cond_init failed, after pthread_mutex_init
    spawn_failed,  \* history: a pthread_create failed
    worker         \* "none", "lock", "wait", "exited"
createVars == <<chapter, cpc, i, blocks, sync, shutdown, joined, cond_failed, spawn_failed>>
vars == <<createVars, worker>>

Init ==
    /\ chapter \in Chapters
    /\ cpc = "pool" /\ i = 0
    /\ blocks = {} /\ sync = {}
    /\ shutdown = FALSE /\ joined = 0 /\ cond_failed = FALSE /\ spawn_failed = FALSE
    /\ worker = [w \in Ids |-> "none"]

-----------------------------------------------------------------------------
(* thread_pool_create *)

MallocPool ==
    /\ cpc = "pool"
    /\ \/ blocks' = {"pool"} /\ cpc' = "arrays"
       \/ cpc' = "null" /\ UNCHANGED blocks
    /\ UNCHANGED <<chapter, i, sync, shutdown, joined, cond_failed, spawn_failed, worker>>

\* Both arrays are requested before either result is looked at.
MallocArrays ==
    /\ cpc = "arrays"
    /\ \E got \in SUBSET Arrays :
        /\ blocks' = blocks \cup got
        /\ cpc' = IF got = Arrays THEN "sync" ELSE "err_cleanup"
    /\ UNCHANGED <<chapter, i, sync, shutdown, joined, cond_failed, spawn_failed, worker>>

\* The condition variable is initialised only if the mutex was.
InitSync ==
    /\ cpc = "sync"
    /\ \E got \in {{}, {"lock"}, Sync} :
        /\ sync' = got
        /\ cond_failed' = (got = {"lock"})
        /\ cpc' = IF got = Sync THEN "spawn" ELSE "err_cleanup"
    /\ UNCHANGED <<chapter, i, blocks, shutdown, joined, spawn_failed, worker>>

FreeExceptQueue == {"queue"} \cap blocks
FreeAll == {}
ErrCleanup ==
    /\ cpc = "err_cleanup"
    /\ blocks' = FreeAll
    /\ cpc' = "null"
    /\ UNCHANGED <<chapter, i, sync, shutdown, joined, cond_failed, spawn_failed, worker>>

\* How many workers create starts.
Started == IF chapter = 1 THEN 0 ELSE thread_count

Spawn ==
    /\ cpc = "spawn" /\ i < Started
    /\ worker' = [worker EXCEPT ![i] = "lock"]
    /\ i' = i + 1
    /\ UNCHANGED <<chapter, cpc, blocks, sync, shutdown, joined, cond_failed, spawn_failed>>

\* pthread_create failed: chapter 6 destroys the pool, chapter 10 returns.
AfterFailureDestroy == "destroy"
AfterFailure == IF chapter = 6 THEN "destroy" ELSE "null"
SpawnFails ==
    /\ cpc = "spawn" /\ i < Started
    /\ spawn_failed' = TRUE
    /\ cpc' = AfterFailure
    /\ UNCHANGED <<chapter, i, blocks, sync, shutdown, joined, cond_failed, worker>>

Created ==
    /\ cpc = "spawn" /\ i = Started
    /\ joined' = thread_count
    /\ cpc' = "ok"
    /\ UNCHANGED <<chapter, i, blocks, sync, shutdown, cond_failed, spawn_failed, worker>>

-----------------------------------------------------------------------------
(* thread_pool_destroy, called by chapter 6 or by the owner of the pool *)

CallDestroy ==
    /\ cpc = "ok"
    /\ cpc' = "destroy"
    /\ UNCHANGED <<chapter, i, blocks, sync, shutdown, joined, cond_failed, spawn_failed, worker>>

Broadcast ==
    /\ cpc = "destroy" /\ chapter # 1
    /\ shutdown' = TRUE
    /\ worker' = [w \in Ids |-> IF worker[w] = "wait" THEN "lock" ELSE worker[w]]
    /\ cpc' = "join"
    /\ UNCHANGED <<chapter, i, blocks, sync, joined, cond_failed, spawn_failed>>

\* pool->thread_count workers are joined, then everything is freed.
Joined(n) == \A w \in 0 .. n - 1 : worker[w] = "exited"
JoinAndFree ==
    /\ cpc = "join"
    /\ Joined(joined)
    /\ blocks' = {} /\ sync' = {}
    /\ cpc' = "null"
    /\ UNCHANGED <<chapter, i, shutdown, joined, cond_failed, spawn_failed, worker>>

\* Chapters 1 to 3, whose pools have no worker to stop.
JustFree ==
    /\ cpc = "destroy" /\ chapter = 1
    /\ blocks' = {} /\ sync' = {}
    /\ cpc' = "null"
    /\ UNCHANGED <<chapter, i, shutdown, joined, cond_failed, spawn_failed, worker>>

-----------------------------------------------------------------------------
(* thread_pool_worker on a pool without tasks *)

\* Take the lock; exit if the flag is set, otherwise wait for a signal.  A
\* worker that finds the pool freed is undefined behaviour, the state before
\* it is the last one shown.
Enter(w) ==
    /\ worker[w] = "lock"
    /\ blocks = Blocks
    /\ worker' = [worker EXCEPT ![w] = IF shutdown THEN "exited" ELSE "wait"]
    /\ UNCHANGED createVars

Spurious(w) ==
    /\ worker[w] = "wait"
    /\ worker' = [worker EXCEPT ![w] = "lock"]
    /\ UNCHANGED createVars

Next ==
    \/ MallocPool \/ MallocArrays \/ InitSync \/ ErrCleanup
    \/ Spawn \/ SpawnFails \/ Created
    \/ CallDestroy \/ Broadcast \/ JoinAndFree \/ JustFree
    \/ \E w \in Ids : Enter(w) \/ Spurious(w)
    \/ cpc = "null" /\ UNCHANGED vars

Spec == Init /\ [][Next]_vars

-----------------------------------------------------------------------------
Alive(w) == worker[w] \in {"lock", "wait"}

\* As long as a worker lives the pool's memory and its mutex and condition
\* variable are there: neither an early failure nor a destroy frees them under
\* a running thread.  Chapter 6's README (line 13) promises it of destroy:
\* "Wait till all threads join, then free memory."
NoFreeUnderWorkers ==
    (\E w \in Ids : Alive(w)) => blocks = Blocks /\ sync = Sync

\* What thread_pool_create hands over is complete: a pool with its mutex, its
\* condition variable and every worker.  What it and destroy leave behind with
\* NULL is stated exactly, blocks and synchronisation objects.  The code means
\* to leave nothing ("Handle allocate errors: free all resource") and there are
\* two exceptions: err_cleanup never destroys the mutex when pthread_cond_init
\* fails after pthread_mutex_init succeeded, and a failed pthread_create in
\* chapter 10 leaks everything.
Leaked(all, lock) == IF spawn_failed THEN all ELSE IF cond_failed THEN lock ELSE {}
CreateAllOrNothing ==
    /\ cpc = "ok" => /\ blocks = Blocks /\ sync = Sync
                     /\ \A w \in Ids : worker[w] # "none" <=> chapter # 1
    /\ cpc = "null" => blocks = Leaked(Blocks, {}) /\ sync = Leaked(Sync, {"lock"})
=============================================================================
