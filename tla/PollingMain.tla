---------------------------- MODULE PollingMain ----------------------------
(***************************************************************************)
(* The main programs that wait for their tasks by polling, composed with   *)
(* the pool: the deposit test of chapters 5 to 8 and the benchmark of      *)
(* chapter 10.  Each adds its tasks, retrying while the ring is full,      *)
(* polls the pool until it believes them done, and destroys the pool.      *)
(* Chapter 5's thread_pool_destroy, still that of chapter 4, frees the     *)
(* pool at once; the others stop and join the workers first.               *)
(*                                                                         *)
(* A deposit adds one to the global g_balance, without a lock or with one  *)
(* (the mains define both tasks and submit the safe one); main polls       *)
(* pool->count and finally compares the balance with the number of tasks.  *)
(* The task of the benchmark does nothing, and main polls the atomic       *)
(* counter, which only the pool of chapter 10 has.  Which task is          *)
(* submitted is chosen at the start.  After a refused add the deposit test *)
(* sleeps and the benchmark tries again at once; whether workers get the   *)
(* lock then depends on it (see PollingSpec).  The delays between two      *)
(* polls and before the destroy promise nothing: they are no action.  A    *)
(* worker that goes back to chapter 5's freed pool does something          *)
(* undefined: the model takes no pool step then.                           *)
(***************************************************************************)
EXTENDS ThreadPool

CONSTANT Main  \* the main thread, the only client

ASSUME MainAssumption == Clients = {Main}
\* Four workers; 10,000 deposits, or a million empty tasks.
ASSUME LoadAssumption == IsFiniteSet(Tasks) /\ Cardinality(Tasks) > Cardinality(Workers)

VARIABLES
    program,         \* one of Programs
    joins,           \* thread_pool_destroy is the one of chapters 6 to 10
    mpc,             \* "submit", "nap", "poll", "destroy", "end"
    g_balance,
    g_balance_lock,  \* the worker that owns it, or Nobody
    local_balance,   \* the value a worker's task read
    tpc              \* "start", "read", "write", "unlock": inside the task
taskVars == <<g_balance, g_balance_lock, local_balance, tpc>>
mainVars == <<program, joins, mpc>>
pvars == <<vars, mainVars, taskVars>>

Programs == {"deposit_task", "deposit_task_safe", "dummy_task"}

task_count == Cardinality(Tasks)

PollingInit ==
    /\ Init
    /\ program \in Programs
    /\ joins \in BOOLEAN /\ (program = "dummy_task" => joins)
    /\ mpc = "submit"
    /\ g_balance = 0 /\ g_balance_lock = Nobody
    /\ local_balance = [w \in Workers |-> 0]
    /\ tpc = [w \in Workers |-> "start"]

-----------------------------------------------------------------------------
(* The tasks *)

\* pthread_mutex_lock(&g_balance_lock), in the safe task only.
NoBalanceLock(w) == UNCHANGED g_balance_lock
AcquireBalance(w) ==
    IF program = "deposit_task_safe"
    THEN g_balance_lock = Nobody /\ g_balance_lock' = w
    ELSE UNCHANGED g_balance_lock

TaskBegin(w) ==
    /\ wpc[w] = "exec" /\ tpc[w] = "start"
    /\ program # "dummy_task"
    /\ AcquireBalance(w)
    /\ tpc' = [tpc EXCEPT ![w] = "read"]
    /\ UNCHANGED <<vars, mainVars, g_balance, local_balance>>

\* g_balance++ and "local += 1; g_balance = local" both load, then store.
TaskRead(w) ==
    /\ wpc[w] = "exec" /\ tpc[w] = "read"
    /\ local_balance' = [local_balance EXCEPT ![w] = g_balance]
    /\ tpc' = [tpc EXCEPT ![w] = "write"]
    /\ UNCHANGED <<vars, mainVars, g_balance, g_balance_lock>>

Deposited(w) == local_balance[w] + 1
TaskWrite(w) ==
    /\ wpc[w] = "exec" /\ tpc[w] = "write"
    /\ g_balance' = Deposited(w)
    /\ tpc' = [tpc EXCEPT ![w] = "unlock"]
    /\ UNCHANGED <<vars, mainVars, g_balance_lock, local_balance>>

\* The task unlocks, if it is the safe one, and returns to the worker.
ReleaseBalance ==
    IF program = "deposit_task_safe" THEN g_balance_lock' = Nobody
                                     ELSE UNCHANGED g_balance_lock

DepositReturn(w) ==
    /\ tpc[w] = "unlock"
    /\ WorkerExec(w)
    /\ ReleaseBalance
    /\ tpc' = [tpc EXCEPT ![w] = "start"]
    /\ UNCHANGED <<mainVars, g_balance, local_balance>>

DummyReturn(w) ==
    /\ program = "dummy_task"
    /\ WorkerExec(w)
    /\ UNCHANGED <<mainVars, taskVars>>

-----------------------------------------------------------------------------
(* main *)

\* thread_pool_add until it succeeds.
MainAdd ==
    /\ mpc = "submit"
    /\ Len(accepted) < task_count
    /\ \E t \in Tasks : CallAdd(Main, t)
    /\ UNCHANGED <<mainVars, taskVars>>

\* After a refusal the deposit test calls usleep(100), and the benchmark goes
\* straight into the next attempt.
SpinAfterRefusal == "submit"
AfterRefusal == IF program = "dummy_task" THEN "submit" ELSE "nap"
Refused == cpc[Main] = "put" /\ QueueFull

NapEnds ==
    /\ mpc = "nap"
    /\ mpc' = "submit"
    /\ UNCHANGED <<vars, program, joins, taskVars>>

MainSubmitted ==
    /\ mpc = "submit"
    /\ cpc[Main] = "idle"
    /\ Len(accepted) = task_count
    /\ mpc' = "poll"
    /\ UNCHANGED <<vars, program, joins, taskVars>>

\* Lock, pending = pool->count, unlock; or one atomic load.
QueueEmptied == lock = Nobody /\ count = 0
AllCompleted == task_completed >= task_count

MainPoll ==
    /\ mpc = "poll"
    /\ IF program = "dummy_task" THEN AllCompleted ELSE QueueEmptied
    /\ mpc' = "destroy"
    /\ UNCHANGED <<vars, program, joins, taskVars>>

MainDestroy ==
    /\ mpc = "destroy" /\ joins
    /\ CallDestroy(Main)
    /\ UNCHANGED <<mainVars, taskVars>>

\* Chapter 5: no lock, no flag, no join.
MainFree ==
    /\ mpc = "destroy" /\ ~joins
    /\ cpc[Main] = "idle"
    /\ freed' = TRUE
    /\ cpc' = [cpc EXCEPT ![Main] = "returned"]
    /\ UNCHANGED <<lock, notify, queue, head, tail, count, shutdown, task_completed,
                   wpc, task, arg, historyVars, mainVars, taskVars>>

\* thread_pool_destroy has returned; main prints g_balance, compares it and
\* prints the difference.  The properties are about the last of the three reads.
\* (After chapter 5's destroy deposits may still come in between, so that the
\* lines main prints need not agree with each other.)
MainReport ==
    /\ mpc = "destroy"
    /\ cpc[Main] = "returned"
    /\ mpc' = "end"
    /\ UNCHANGED <<vars, program, joins, taskVars>>

\* The pool between two steps of the tasks and of main.
PoolThere == ~joins => ~freed
WorkerPart(w) ==
    /\ PoolThere
    /\ WorkerPoolStep(w)
    /\ UNCHANGED <<mainVars, taskVars>>
ClientPart ==
    /\ ClientStep(Main)
    /\ mpc' = IF Refused THEN AfterRefusal ELSE mpc
    /\ UNCHANGED <<program, joins, taskVars>>

\* When main has returned, the process and its threads are gone.
TaskStep(w) ==
    /\ mpc # "end"
    /\ TaskBegin(w) \/ TaskRead(w) \/ TaskWrite(w) \/ DepositReturn(w) \/ DummyReturn(w)

MainStep ==
    MainAdd \/ NapEnds \/ MainSubmitted \/ MainPoll \/ MainDestroy \/ MainFree \/ MainReport

PollingNext ==
    \/ \E w \in Workers : TaskStep(w) \/ WorkerPart(w)
    \/ ClientPart \/ MainStep
    \/ Terminated /\ mpc = "end" /\ UNCHANGED <<mainVars, taskVars>>

\* main wants to add to a full ring and does not sleep: it takes the lock, finds
\* the ring full and unlocks, over and over.
Spinning == mpc = "submit" /\ QueueFull

WorkerRuns(w) ==
    PoolThere /\ WorkerStatement(w) /\ UNCHANGED <<mainVars, taskVars>>

\* Every runnable thread runs, and is not passed over for ever at a mutex that
\* keeps becoming free, with one exception: a main that spins may win pool->lock
\* against a worker every time, which a pthread mutex does not exclude and
\* chapter 6's README describes (lines 110-126).  While main sleeps it cannot.
PollingSpec ==
    /\ PollingInit /\ [][PollingNext]_pvars
    /\ \A w \in Workers :
        /\ WF_pvars(WorkerRuns(w))
        /\ SF_pvars(~Spinning /\ WorkerRuns(w))
        /\ SF_pvars(TaskStep(w))
    /\ SF_pvars(ClientPart) /\ SF_pvars(MainStep)

-----------------------------------------------------------------------------
Depositing ==
    {w \in Workers : wpc[w] = "exec" /\ tpc[w] \in {"start", "read", "write"}}

\* What the deposit test prints as lost is explained.  With the safe task it is
\* exactly what workers are still depositing: no deposit is lost to a race or
\* dropped by the shutdown.  An empty ring only means that every task was
\* taken; where thread_pool_destroy joins, nothing is under way any more and
\* main reports a perfect match.  With the unsafe task deposits are lost, but
\* never all and never more than were made (there are more than workers).
BalanceExplained ==
    /\ mpc = "end" /\ program = "deposit_task_safe" =>
        /\ g_balance + Cardinality(Depositing) = task_count
        /\ joins => g_balance = task_count
    /\ mpc = "end" /\ program = "deposit_task" => g_balance \in 1 .. task_count

\* When the benchmark enters thread_pool_destroy every task has been executed,
\* the ring is empty and no worker holds a task: the flag, which makes workers
\* drop what is queued, can drop nothing.
NothingDropped ==
    mpc = "destroy" /\ program = "dummy_task" =>
        /\ done = Tasks
        /\ count = 0
        /\ \A w \in Workers : wpc[w] \notin {"exec", "completed"}

\* Every program ends, except that the benchmark's busy retries may starve the
\* workers while the ring is full.  The usleep(100) of the deposit test prevents
\* that, as chapter 6's README says (lines 112-126), and no program is left
\* polling a counter or a ring that never reaches what it waits for.
MainTerminates ==
    <>(mpc = "end") \/ (program = "dummy_task" /\ <>[]Spinning)
=============================================================================
