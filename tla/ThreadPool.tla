----------------------------- MODULE ThreadPool -----------------------------
(***************************************************************************)
(* The thread pool of Chapter 10 (src/Chapter 10/src/thread_pool.c): a     *)
(* ring buffer of tasks guarded by one mutex and one condition variable,   *)
(* worker threads that consume it, client threads that add tasks, and one  *)
(* client that finally destroys the pool.                                  *)
(*                                                                         *)
(* One action is one stretch of code between two points where another      *)
(* thread can intervene: a lock acquisition, a release, or an access made  *)
(* outside the lock.  The code of wpc and cpc names the statement a thread *)
(* is about to execute.  Init is the state a successful                    *)
(* thread_pool_create leaves behind; workers that already ran while        *)
(* create was still spawning others have found an empty queue, which is    *)
(* what their first actions do from here.                                  *)
(***************************************************************************)
EXTENDS Integers, Sequences, FiniteSets

CONSTANTS
    Workers,    \* the threads of pool->threads
    Clients,    \* the threads that call thread_pool_add and _destroy
    Tasks,      \* the (function, argument) pairs the clients submit
    QueueSize,  \* pool->queue_size
    NoTask,     \* the content of a ring slot nobody has written yet
    Nobody      \* the mutex has no owner

ASSUME WorkersAssumption == IsFiniteSet(Workers)
ASSUME ThreadsAssumption ==
    Workers \cap Clients = {} /\ Nobody \notin Workers \cup Clients
ASSUME TasksAssumption == NoTask \notin Tasks
ASSUME QueueSizeAssumption == QueueSize \in Nat \ {0}

VARIABLES
    \* struct thread_pool_t
    lock,            \* the thread that holds pool->lock, or Nobody
    notify,          \* the workers blocked in cond_wait on pool->notify
    queue,           \* pool->queue: slots keep what was last written to them
    head, tail, count, shutdown,
    task_completed,  \* the atomic counter
    freed,           \* the pool's memory went back to the allocator
    \* threads
    wpc, task,       \* where a worker is, and its local copy of the task
    cpc, arg,        \* where a client is, and the task it is adding
    \* history
    accepted,        \* the tasks thread_pool_add put in the ring, in order
    taken,           \* the tasks workers took out of it, in order
    done             \* the tasks whose function has returned

poolVars    == <<lock, notify, queue, head, tail, count, shutdown,
                 task_completed, freed>>
threadVars  == <<wpc, task, cpc, arg>>
historyVars == <<accepted, taken, done>>
vars        == <<poolVars, threadVars, historyVars>>

Threads == Workers \cup Clients

WorkerPC == {"lock",       \* 21: about to take the lock
             "check",      \* 27: owns the lock, evaluates the conditions
             "wait",       \* 30: inside pthread_cond_wait
             "exec",       \* 51: runs the task, lock released
             "completed",  \* 55: about to add one to task_completed
             "exited"}     \* 37: pthread_exit
ClientPC == {"idle",       \* not inside the pool's code
             "add",        \* 165: about to take the lock
             "put",        \* 171: owns the lock
             "destroy",    \* 202: about to take the lock
             "broadcast",  \* 208: owns the lock
             "join",       \* 222: joining the workers
             "returned"}   \* destroy has returned

-----------------------------------------------------------------------------
\* atomic_init(&(pool->task_completed), 0); without it the counter starts with
\* whatever malloc returned.
NoAtomicInit == {0, 1}
AtomicInit == {0}

Init ==
    /\ lock = Nobody
    /\ notify = {}
    /\ queue = [s \in 0 .. QueueSize - 1 |-> NoTask]
    /\ head = 0 /\ tail = 0 /\ count = 0
    /\ shutdown = FALSE
    /\ task_completed \in AtomicInit
    /\ freed = FALSE
    /\ wpc = [w \in Workers |-> "lock"]
    /\ task = [w \in Workers |-> NoTask]
    /\ cpc = [c \in Clients |-> "idle"]
    /\ arg = [c \in Clients |-> NoTask]
    /\ accepted = <<>> /\ taken = <<>> /\ done = {}

\* The ring index after i.
NextNoWrap(i) == i + 1
Advance(i) == (i + 1) % QueueSize

\* The two conditions evaluated under the lock before anything is changed.
MustWaitIgnoringShutdown == count = 0
MustWait == count = 0 /\ ~shutdown

QueueFullOffByOne == count = QueueSize + 1
QueueFull == count = QueueSize

\* pthread_cond_signal: one of the sleepers, if there is one.
NoSignal == UNCHANGED notify
SignalWhenEmpty ==
    IF count = 0 /\ notify # {} THEN \E w \in notify : notify' = notify \ {w}
                                ELSE UNCHANGED notify
Signal ==
    \/ notify = {} /\ UNCHANGED notify
    \/ \E w \in notify : notify' = notify \ {w}

\* pthread_cond_broadcast: every sleeper.
BroadcastOne == Signal
Broadcast == notify' = {}

-----------------------------------------------------------------------------
(* thread_pool_worker *)

WorkerLock(w) ==
    /\ wpc[w] = "lock"
    /\ lock = Nobody
    /\ lock' = w
    /\ wpc' = [wpc EXCEPT ![w] = "check"]
    /\ UNCHANGED <<notify, queue, head, tail, count, shutdown, task_completed,
                   freed, task, cpc, arg, historyVars>>

\* pthread_cond_wait releases the lock and starts sleeping in one step.
WorkerWait(w) ==
    /\ wpc[w] = "check"
    /\ MustWait
    /\ lock' = Nobody
    /\ notify' = notify \cup {w}
    /\ wpc' = [wpc EXCEPT ![w] = "wait"]
    /\ UNCHANGED <<queue, head, tail, count, shutdown, task_completed,
                   freed, task, cpc, arg, historyVars>>

\* pthread_cond_wait may return without a signal.
SpuriousWakeup(w) ==
    /\ w \in notify
    /\ notify' = notify \ {w}
    /\ UNCHANGED <<lock, queue, head, tail, count, shutdown, task_completed,
                   freed, threadVars, historyVars>>

\* A woken worker owns the lock again when cond_wait returns, and the while
\* loop evaluates its condition anew.
WorkerWake(w) ==
    /\ wpc[w] = "wait"
    /\ w \notin notify
    /\ lock = Nobody
    /\ lock' = w
    /\ wpc' = [wpc EXCEPT ![w] = "check"]
    /\ UNCHANGED <<notify, queue, head, tail, count, shutdown, task_completed,
                   freed, task, cpc, arg, historyVars>>

WorkerExit(w) ==
    /\ wpc[w] = "check"
    /\ ~MustWait
    /\ shutdown
    /\ lock' = Nobody
    /\ wpc' = [wpc EXCEPT ![w] = "exited"]
    /\ UNCHANGED <<notify, queue, head, tail, count, shutdown, task_completed,
                   freed, task, cpc, arg, historyVars>>

\* Copy the head slot, advance the head, release the lock.
WorkerTake(w) ==
    /\ wpc[w] = "check"
    /\ ~MustWait
    /\ ~shutdown
    /\ task' = [task EXCEPT ![w] = queue[head]]
    /\ taken' = Append(taken, queue[head])
    /\ head' = Advance(head)
    /\ count' = count - 1
    /\ lock' = Nobody
    /\ wpc' = [wpc EXCEPT ![w] = "exec"]
    /\ UNCHANGED <<notify, queue, tail, shutdown, task_completed, freed,
                   cpc, arg, accepted, done>>

\* The task's function returns.
WorkerExec(w) ==
    /\ wpc[w] = "exec"
    /\ done' = done \cup {task[w]}
    /\ wpc' = [wpc EXCEPT ![w] = "completed"]
    /\ UNCHANGED <<poolVars, task, cpc, arg, accepted, taken>>

\* atomic_fetch_add on the counter, outside the lock.
WorkerCompleted(w) ==
    /\ wpc[w] = "completed"
    /\ task_completed' = task_completed + 1
    /\ wpc' = [wpc EXCEPT ![w] = "lock"]
    /\ UNCHANGED <<lock, notify, queue, head, tail, count, shutdown, freed,
                   task, cpc, arg, historyVars>>

-----------------------------------------------------------------------------
(* thread_pool_add *)

\* A client calls thread_pool_add(pool, function, argument) with a task it has
\* not succeeded in adding yet.  A call that races with thread_pool_destroy
\* touches memory that is being freed; no main of the repository makes one,
\* so a client that is destroying the pool is the last to call into it.
Destroying == \E c \in Clients : cpc[c] \in {"destroy", "broadcast", "join", "returned"}

CallAdd(c, t) ==
    /\ ~Destroying
    /\ cpc[c] = "idle"
    /\ \A i \in 1 .. Len(accepted) : accepted[i] # t
    /\ \A d \in Clients : cpc[d] \in {"add", "put"} => arg[d] # t
    /\ cpc' = [cpc EXCEPT ![c] = "add"]
    /\ arg' = [arg EXCEPT ![c] = t]
    /\ UNCHANGED <<poolVars, wpc, task, historyVars>>

AddLock(c) ==
    /\ cpc[c] = "add"
    /\ lock = Nobody
    /\ lock' = c
    /\ cpc' = [cpc EXCEPT ![c] = "put"]
    /\ UNCHANGED <<notify, queue, head, tail, count, shutdown, task_completed,
                   freed, wpc, task, arg, historyVars>>

\* The ring is full: unlock, return -2.
AddFullKeepsLock(c) ==
    /\ cpc[c] = "put"
    /\ QueueFull
    /\ cpc' = [cpc EXCEPT ![c] = "idle"]
    /\ UNCHANGED <<poolVars, wpc, task, arg, historyVars>>
AddFull(c) ==
    /\ cpc[c] = "put"
    /\ QueueFull
    /\ lock' = Nobody
    /\ cpc' = [cpc EXCEPT ![c] = "idle"]
    /\ UNCHANGED <<notify, queue, head, tail, count, shutdown, task_completed,
                   freed, wpc, task, arg, historyVars>>

\* Write the tail slot, advance the tail, signal, unlock, return 0.
AddPut(c) ==
    /\ cpc[c] = "put"
    /\ ~QueueFull
    /\ queue' = [queue EXCEPT ![tail] = arg[c]]
    /\ accepted' = Append(accepted, arg[c])
    /\ tail' = Advance(tail)
    /\ count' = count + 1
    /\ Signal
    /\ lock' = Nobody
    /\ cpc' = [cpc EXCEPT ![c] = "idle"]
    /\ UNCHANGED <<head, shutdown, task_completed, freed, wpc, task, arg,
                   taken, done>>

-----------------------------------------------------------------------------
(* thread_pool_destroy *)

CallDestroy(c) ==
    /\ \A d \in Clients : cpc[d] = "idle"
    /\ cpc' = [cpc EXCEPT ![c] = "destroy"]
    /\ UNCHANGED <<poolVars, wpc, task, arg, historyVars>>

DestroyLock(c) ==
    /\ cpc[c] = "destroy"
    /\ lock = Nobody
    /\ lock' = c
    /\ cpc' = [cpc EXCEPT ![c] = "broadcast"]
    /\ UNCHANGED <<notify, queue, head, tail, count, shutdown, task_completed,
                   freed, wpc, task, arg, historyVars>>

\* Set the flag, wake every sleeper, release the lock so that they can see it.
JoinHoldingLock(c) ==
    /\ cpc[c] = "broadcast"
    /\ shutdown' = TRUE
    /\ Broadcast
    /\ cpc' = [cpc EXCEPT ![c] = "join"]
    /\ UNCHANGED <<lock, queue, head, tail, count, task_completed, freed,
                   wpc, task, arg, historyVars>>
DestroyBroadcast(c) ==
    /\ cpc[c] = "broadcast"
    /\ shutdown' = TRUE
    /\ Broadcast
    /\ lock' = Nobody
    /\ cpc' = [cpc EXCEPT ![c] = "join"]
    /\ UNCHANGED <<queue, head, tail, count, task_completed, freed,
                   wpc, task, arg, historyVars>>

\* The loop over pool->threads has joined every worker.
JoinedNobody == TRUE
JoinedAll == \A w \in Workers : wpc[w] = "exited"

\* Destroy the mutex and the condition variable, free the memory, return 0.
DestroyFree(c) ==
    /\ cpc[c] = "join"
    /\ JoinedAll
    /\ freed' = TRUE
    /\ cpc' = [cpc EXCEPT ![c] = "returned"]
    /\ UNCHANGED <<lock, notify, queue, head, tail, count, shutdown,
                   task_completed, wpc, task, arg, historyVars>>

-----------------------------------------------------------------------------
\* Everything a worker does except running the task it took, which the
\* modules that compose the pool with a program's tasks refine.
WorkerStatement(w) ==
    \/ WorkerLock(w) \/ WorkerWait(w) \/ WorkerWake(w)
    \/ WorkerExit(w) \/ WorkerTake(w) \/ WorkerCompleted(w)

WorkerPoolStep(w) == WorkerStatement(w) \/ SpuriousWakeup(w)

WorkerStep(w) == WorkerPoolStep(w) \/ WorkerExec(w)

ClientStep(c) ==
    \/ AddLock(c) \/ AddFull(c) \/ AddPut(c)
    \/ DestroyLock(c) \/ DestroyBroadcast(c) \/ DestroyFree(c)

\* The pool is gone: nothing is left to do.
Terminated == freed /\ UNCHANGED vars

Next ==
    \/ \E w \in Workers : WorkerStep(w)
    \/ \E c \in Clients : ClientStep(c)
    \/ \E c \in Clients, t \in Tasks : CallAdd(c, t)
    \/ \E c \in Clients : CallDestroy(c)
    \/ Terminated

Spec == Init /\ [][Next]_vars

(***************************************************************************)
(* Fairness.  The kernel runs every runnable thread.  A statement that      *)
(* acquires the lock is enabled only while the lock is free; SF says that   *)
(* a thread is not passed over for ever while the lock keeps becoming free, *)
(* and amounts to WF for a thread at any other statement, since nobody but  *)
(* the thread itself disables that.  No fairness is given to calls (a       *)
(* client need not call again) nor to spurious wakeups.                     *)
(***************************************************************************)
PoolFairness ==
    /\ \A w \in Workers : SF_vars(WorkerStatement(w))
    /\ \A c \in Clients : SF_vars(ClientStep(c))

\* Every task's function returns.
TaskFairness == \A w \in Workers : WF_vars(WorkerExec(w))

FairSpec == Spec /\ PoolFairness /\ TaskFairness

-----------------------------------------------------------------------------
(* Properties *)

TypeOK ==
    /\ lock \in Threads \cup {Nobody}
    /\ notify \in SUBSET Workers
    /\ queue \in [0 .. QueueSize - 1 -> Tasks \cup {NoTask}]
    /\ head \in 0 .. QueueSize - 1
    /\ tail \in 0 .. QueueSize - 1
    /\ count \in 0 .. QueueSize
    /\ shutdown \in BOOLEAN
    /\ task_completed \in Nat
    /\ freed \in BOOLEAN
    /\ wpc \in [Workers -> WorkerPC]
    /\ task \in [Workers -> Tasks \cup {NoTask}]
    /\ cpc \in [Clients -> ClientPC]
    /\ arg \in [Clients -> Tasks \cup {NoTask}]
    /\ accepted \in Seq(Tasks)
    /\ taken \in Seq(Tasks)
    /\ done \in SUBSET Tasks

Holds(p) ==
    \/ p \in Workers /\ wpc[p] = "check"
    \/ p \in Clients /\ cpc[p] \in {"put", "broadcast"}

\* The mutex is owned by exactly the thread that executes a critical section:
\* two threads are never inside one together, and no return path keeps the
\* lock (every early return of worker, add and destroy unlocks first).
LockDiscipline == \A p \in Threads : Holds(p) <=> lock = p

\* The tasks in the ring, oldest first.
Pending == [i \in 1 .. count |-> queue[(head + i - 1) % QueueSize]]

\* The ring buffer is a FIFO queue that loses, repeats and reorders nothing,
\* through every wrap of head and tail: what was taken followed by what is
\* still in the ring is what was accepted.
RingIsFifo == taken \o Pending = accepted

\* Workers that will evaluate the wait condition without a further signal.
HeadingForQueue ==
    {w \in Workers : wpc[w] \in {"lock", "check"} \/ (wpc[w] = "wait" /\ w \notin notify)}

\* No wakeup is lost: a worker sleeps only while there are at least as many
\* other workers on their way to the queue as there are tasks in it.  This is
\* why one signal per add is enough, and why the flag needs a broadcast.
NoStrandedTask == notify # {} => count <= Cardinality(HeadingForQueue)

\* Once the flag is set no worker sleeps: the broadcast reached everyone, and
\* nobody goes to sleep on a pool that is shutting down.
NoSleeperAfterShutdown == shutdown => notify = {}

\* The counter main polls never runs ahead of the finished tasks, and lags
\* behind them exactly by the workers between their task and the increment.
CompletedCounter ==
    task_completed + Cardinality({w \in Workers : wpc[w] = "completed"})
        = Cardinality(done)

\* thread_pool_destroy frees the pool only after the last access to it: no
\* worker runs, sleeps on the condition variable or owns the lock, and no
\* client is inside a call.
NoUseAfterFree ==
    freed => /\ \A w \in Workers : wpc[w] = "exited"
             /\ \A c \in Clients : cpc[c] \in {"idle", "returned"}
             /\ lock = Nobody /\ notify = {}

\* Every accepted task is executed, unless the pool is destroyed first.
AcceptedIsExecuted ==
    \A t \in Tasks :
        (\E i \in 1 .. Len(accepted) : accepted[i] = t) ~> (t \in done \/ shutdown)

\* thread_pool_destroy returns: it never joins a worker that waits for a
\* wakeup or for the lock.
DestroyReturns ==
    \A c \in Clients : (cpc[c] = "destroy") ~> (cpc[c] = "returned")

=============================================================================
