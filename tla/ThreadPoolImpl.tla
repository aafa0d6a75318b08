--------------------------- MODULE ThreadPoolImpl ---------------------------
(* The pool of Chapter 10 implements TaskPool: the refinement mapping.       *)
EXTENDS ThreadPool

\* Tasks whose function a worker is executing.
Running == {task[w] : w \in {v \in Workers : wpc[v] = "exec"}}

Abstract == INSTANCE TaskPool WITH
    Capacity   <- QueueSize,
    MaxRunning <- Cardinality(Workers),
    pending    <- Pending,
    running    <- Running,
    closed     <- shutdown,
    released   <- freed

\* Every behaviour of the pool is one of TaskPool: tasks start in the order in
\* which thread_pool_add accepted them, at most once each, never beyond the
\* ring's capacity or after thread_pool_destroy set the flag, and the memory
\* is released only when nothing runs.
ImplementsTaskPool == Abstract!Spec

\* The same with TaskPool's fairness: a pending task does not wait for ever
\* while a worker is free, and a destroyed pool is released.
ImplementsFairTaskPool == Abstract!FairSpec
=============================================================================
