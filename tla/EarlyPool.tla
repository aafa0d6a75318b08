------------------------------ MODULE EarlyPool ------------------------------
(***************************************************************************)
(* The programs of chapters 2 to 4, whose pools have no shutdown yet.      *)
(*                                                                         *)
(* In chapters 2 and 3 there are no workers: main adds tasks whose         *)
(* arguments it allocated, runs pending ones itself (chapter 2 between two *)
(* adds, both chapters to drain the ring), and destroys the pool.          *)
(* In chapter 4 workers run them, main ignores the result of its adds, and *)
(* thread_pool_destroy neither sets a flag nor wakes nor joins anybody: it *)
(* destroys the mutex and the condition variable and frees the pool at     *)
(* once.  The delays in main promise nothing.  Chapter 5 uses this pool.   *)
(*                                                                         *)
(* Worker and add are the code ThreadPool models, without the counter.  A  *)
(* pool access after the free is undefined, so workers take no further     *)
(* pool step then: a state where one is about to is the last one shown.    *)
(***************************************************************************)
EXTENDS ThreadPool

CONSTANT Main  \* the main thread, the only client
ASSUME MainAssumption == Clients = {Main}
\* The adds of either main are numbered; chapter 4's makes QueueSize of them.
ASSUME LoadAssumption ==
    /\ IsFiniteSet(Tasks) /\ Tasks = 0 .. Cardinality(Tasks) - 1
    /\ QueueSize <= Cardinality(Tasks)

VARIABLES chapter,  \* 3 (no workers) or 4
          mpc,      \* "loop", "destroyed", "end"
          i,        \* main's loop counter
          live      \* allocated math_args_t blocks
evars == <<vars, chapter, mpc, i, live>>

EarlyInit ==
    /\ Init
    /\ chapter \in {3, 4}
    /\ mpc = "loop" /\ i = 0 /\ live = {}

\* Chapter 4 adds 8 tasks to 10 slots, so no add of it can find the ring full.
Iterations == IF chapter = 4 THEN QueueSize ELSE Cardinality(Tasks)

\* The worker loop of chapter 4 around the task.
EarlyWorker(w) ==
    /\ chapter = 4
    /\ ~freed
    /\ WorkerPoolStep(w)
    /\ UNCHANGED <<chapter, mpc, i, live>>

\* heavy_calculation reads its arguments and frees them.
KeepArgs(t) == UNCHANGED live
FreeArgs(t) == live' = live \ {t}

HeavyCalculation(w) ==
    /\ mpc # "end"
    /\ WorkerExec(w)
    /\ FreeArgs(task[w])
    /\ UNCHANGED <<chapter, mpc, i>>

\* thread_pool_run_pending_task takes the head and runs it.  The lock is free
\* whenever the only thread takes it, so the call is one action.
HeadKept == head
HeadAfterRun == Advance(head)

RunPendingTask ==
    /\ chapter = 3
    /\ mpc = "loop" /\ cpc[Main] = "idle"
    /\ count > 0
    /\ head' = HeadAfterRun
    /\ count' = count - 1
    /\ taken' = Append(taken, queue[head])
    /\ done' = done \cup {queue[head]}
    /\ FreeArgs(queue[head])
    /\ UNCHANGED <<lock, notify, queue, tail, shutdown, task_completed, freed,
                   threadVars, accepted, chapter, mpc, i>>

\* thread_pool_add's steps after the call.  If the ring is full the arguments
\* still belong to main, which frees them.
AddFailsLeaking == AddFull(Main) /\ UNCHANGED live
AddFails == AddFull(Main) /\ live' = live \ {arg[Main]}

EarlyAdd ==
    /\ \/ (AddLock(Main) \/ AddPut(Main)) /\ UNCHANGED live
       \/ AddFails
    /\ UNCHANGED <<chapter, mpc, i>>

\* malloc, fill, add; a failed malloc skips the task.
MainAdd ==
    /\ mpc = "loop" /\ i < Iterations
    /\ CallAdd(Main, i)
    /\ live' = live \cup {i}
    /\ i' = i + 1
    /\ UNCHANGED <<chapter, mpc>>

MainMallocFails ==
    /\ mpc = "loop" /\ i < Iterations
    /\ cpc[Main] = "idle"
    /\ i' = i + 1
    /\ UNCHANGED <<vars, chapter, mpc, live>>

\* while (thread_pool_run_pending_task(pool) == 0), where there are no workers.
Drained == chapter = 3 => count = 0

\* thread_pool_destroy: no lock, no flag, no join.
EarlyDestroy ==
    /\ mpc = "loop" /\ i = Iterations
    /\ cpc[Main] = "idle"
    /\ Drained
    /\ freed' = TRUE
    /\ mpc' = "destroyed"
    /\ UNCHANGED <<lock, notify, queue, head, tail, count, shutdown, task_completed,
                   threadVars, historyVars, chapter, i, live>>

\* main returns; the process ends with all its threads.
MainReturns ==
    /\ mpc = "destroyed"
    /\ mpc' = "end"
    /\ UNCHANGED <<vars, chapter, i, live>>

EarlyNext ==
    \/ \E w \in Workers : EarlyWorker(w) \/ HeavyCalculation(w)
    \/ RunPendingTask \/ EarlyAdd
    \/ MainAdd \/ MainMallocFails \/ EarlyDestroy \/ MainReturns
    \/ mpc = "end" /\ UNCHANGED evars

EarlySpec == EarlyInit /\ [][EarlyNext]_evars

-----------------------------------------------------------------------------
\* An argument block is allocated exactly as long as somebody will still use
\* it: the add that carries it, the ring slot that refers to it, or the worker
\* that runs its task.  So no task reads a freed block, no block is freed
\* twice, and what leaks when the process ends is what was never run.
ArgsOwned ==
    live = {Pending[k] : k \in 1 .. count}
           \cup {task[w] : w \in {v \in Workers : wpc[v] = "exec"}}
           \cup {arg[c] : c \in {d \in Clients : cpc[d] \in {"add", "put"}}}

\* A program without workers destroys the pool only when every accepted task
\* has run, through full rings, wraps and failed allocations, and then no
\* argument block is left.
NothingLeftBehind ==
    freed /\ chapter = 3 => done = {accepted[k] : k \in 1 .. Len(accepted)} /\ live = {}
=============================================================================
