# Verification of Multithreading-Learning-on-Linux

The repository builds one thread pool over ten chapters, and a small real-time
scheduler with a priority-inheritance mutex in chapters 11 and 12. This
directory holds TLA+ models of that code, the TLC runs that check them and the
proofs TLAPS checks about them. `PROJECT.json` maps every definition to the
lines it models and lists runs, hazards, findings and theorems.

    tlc -config ThreadPool.cfg MCThreadPool     # one run
    tlapm ThreadPool_proofs.tla                 # the proofs

## 1. The system

### Components, their state and their operations

| Component | State | Operations | Where |
|---|---|---|---|
| thread pool | mutex `lock`, condition variable `notify`, ring (`queue`, `head`, `tail`, `count`), `shutdown`, atomic `task_completed`, worker threads | `thread_pool_worker`, `thread_pool_add`, `thread_pool_destroy` | ch. 6-10 `src/thread_pool.c` |
| pool creation | the blocks and objects allocated so far, the workers started so far | `thread_pool_create`, its error paths | ch. 6-10 |
| pool without shutdown | the same pool; chapters 2 and 3 have no worker loop, chapters 4 and 5 have workers that never end | `thread_pool_run_pending_task`, `thread_pool_add`, a `thread_pool_destroy` that only frees | ch. 2-5 |
| deposit test, benchmark | `g_balance` and its lock; the tasks submitted | `main`: submit with retry, poll, destroy, compare | ch. 5-8, 10 `src/main.c` |
| file encryption | the mapped file, an argument block per chunk | `encrypt_task`, `main` | ch. 9 `src/main.c` |
| `rt_mutex` | `owner`, `waiters`, inner mutex and condition variable; `effective_priority` and `state` of tasks | `rt_mutex_lock`, `rt_mutex_unlock` | ch. 11-12 `src/rt_mutex.c` |
| scheduler | task table, `g_scheduler_running`, a thread per task, the tick thread, the trace buffer and its lock | `task_create`, `scheduler_start`, `scheduler_stop`, `task_wrapper` | ch. 11-12 `src/scheduler.c` |
| time arithmetic | release time, deadline, the trace's epoch | `timespec_add_ms`, `timespec_diff_us`, `sleep_until` | ch. 11-12 `src/scheduler.c` |
| priority inversion demo | three tasks and one `rt_mutex` | `demo_priority_inversion` | ch. 11-12 `demos/` |
| periodic and overload demos | three periodic tasks that burn processor time | `demo_periodic`, `demo_overload` | ch. 11-12 `demos/` |
| chart tools | totals over the rows of a trace | `make_cpuutil.py`, `make_gantt.py` | ch. 12 `tools/`; only the totals are modelled |
| Makefiles | none | | not modelled |

### How they interact

Clients and workers share the pool's memory under `pool->lock`. An add signals
one sleeping worker, destroy sets the flag, broadcasts, releases the lock and
joins. A worker runs its task and advances the atomic counter outside the lock.
The mains are the clients: they look at `pool->count` (under the lock) or at
`task_completed` (without it) to decide when to destroy the pool. In chapters
11 and 12 `main` shares the task table and the running flag with the task
threads, the task threads share the trace under its lock, and tasks meet in
`rt_mutex`, which writes the `effective_priority` of another task. The demos run
all of it under the kernel's scheduler: a task that has the processor keeps it
from `main`, from the tick thread and from every task below it.

### What is hard, and what makes each part correct

* **Pool.** A task must not stay in the ring while every worker sleeps, though
  each add sends only one signal, wakeups may be spurious and a worker that
  never slept may take the task first (`NoStrandedTask`, `AcceptedIsExecuted`).
  The ring must be a FIFO through every wrap (`RingIsFifo`). The shutdown must
  reach a worker that is about to sleep (`NoSleeperAfterShutdown`), destroy must
  not wait for ever (`DestroyReturns`), and the memory may go only after the
  last access (`NoUseAfterFree`). The counter must not run ahead
  (`CompletedCounter`). Every early return must unlock (`LockDiscipline`).
* **Creation.** Everything can fail half way, with workers already running
  (`NoFreeUnderWorkers`, `CreateAllOrNothing`).
* **Mains.** The flag makes workers drop what is queued, so main must know
  before the destroy that everything was taken or done (`BalanceExplained`,
  `NothingDropped`), and still terminate (`MainTerminates`). In chapter 9 main
  only sleeps 15 seconds: what it concludes from two bytes must be right even
  when that was too short (`SuccessIsSound`, `EncryptedOnce`, `CleanUnmap`).
* **Early pools.** Argument blocks pass from main to the ring to the task and
  must be freed exactly once (`ArgsOwned`, `NothingLeftBehind`).
* **rt_mutex.** A woken waiter competes with newcomers (`OwnedWhileHeld`,
  `SleepersHaveOwner`); inherited priorities must reach every later owner
  (`OwnerInherits`) and end (`BoostEnds`), and no return path or lost wakeup may
  leave a call stuck while nothing moves (`NoStandstill`).
* **Scheduler.** Tasks write one trace (`TraceAgreesWithStats`), priorities
  become kernel levels (`PriorityOrder`), stop must end
  (`StopReturns`) and be final (`QuietAfterStop`).
* **Time.** Carries, borrows and truncating divisions (`DriftFree`,
  `NeverEarly`, `MissExact`, `TraceConsistent`, `SleepAtMostPeriod`).
* **Demos.** Threads are preempted between any two statements, wait at a trace
  lock without priority inheritance, and sleep for a time computed before they
  were preempted: a schedulable set must still meet its deadlines (`NoMiss`,
  `TopNeverMisses`), `main`, no real-time thread, must get to clear the flag
  (`StopsInTime`), and the chart drawn from the trace must tell schedulable from
  overloaded (`HealthyChart`, `OverloadMisses`).

## 2. The modules

    TaskPool  <--refines--  ThreadPoolImpl --+
                                             v
                          ThreadPoolInv --> ThreadPool <-- PollingMain, Encrypt, EarlyPool
                             ^--- MCThreadPool
    RtScheduler <-- PeriodicDemos <-- MCPeriodicDemos, PeriodicDemosInv
         ^--- MCRtScheduler
    RtMutex <-- PriorityInversion      PoolCreate      PeriodicTask

(arrows read "extends", `TaskPool` is instantiated. Each `X_proofs` extends X and
holds its inductive invariant and theorems. ThreadPool_proofs extends ThreadPoolInv
and ThreadPoolImpl, and is extended by the proofs about PollingMain, Encrypt and
EarlyPool, which contain the pool. RtScheduler_proofs extends PeriodicDemosInv and
RtMutex_proofs PriorityInversion: each holds the proofs about a component first and
then those about the demos that run it.)

**ThreadPool** is `thread_pool.c` of chapter 10. `wpc` and `cpc` say which
statement a worker or a client is about to execute; an action is the code
between two points where another thread can intervene, that is, a lock
acquisition, `pthread_cond_wait`, a release, or an access made without the
lock. A critical section is therefore one acquisition action (`WorkerLock`,
`AddLock`, `DestroyLock`, and `WorkerWake`, in which `cond_wait` gets the lock
back) and one action for what is done under it (`WorkerWait`, `WorkerExit`,
`WorkerTake`, `AddFull`, `AddPut`, `DestroyBroadcast`). `notify` is the set of
workers asleep on the condition variable; `SpuriousWakeup` removes one at any
time. `accepted`, `taken` and `done` are history variables. `Init` is the pool a
successful `thread_pool_create` returns.

**TaskPool** is what the pool promises: a bounded FIFO of tasks served by a
fixed number of servers until it is closed; what runs finishes, what is pending
when it closes never starts. **ThreadPoolImpl** maps the ring to `pending`, the
tasks between `WorkerTake` and `WorkerExec` to `running`, the flag to `closed`
and the free to `released`.

**ThreadPoolInv** holds the inductive invariant, **ThreadPool_proofs** the
proofs of the properties and of the refinement, **MCThreadPool** brings the invariant and the mapping together for TLC.

**PollingMain** composes the pool with the mains of chapters 5 to 8 and 10.
`program`, chosen at the start, says which task main submits, and `joins`
whether the destroy is that of chapters 6 to 10 or chapter 5's, which frees the
pool at once (`MainFree`). `WorkerExec` of the pool is refined: a deposit loads,
adds and stores `g_balance` in separate steps, with `g_balance_lock` held in the
safe version. (The mains of chapters 5 and 6 define both tasks and submit the
safe one; the README of chapter 5 walks through swapping the two.) After a refused
add the deposit test sleeps (`AfterRefusal`, `NapEnds`) and the benchmark tries
again at once (`Spinning`), which the fairness below distinguishes. What a worker
does in a freed pool is undefined, so the model takes no pool step then; a task
that was already running still ends.

**Encrypt** composes it with chapter 9's main: the file is an array of bytes
that are plain or encrypted, a chunk's index is its task, and the destroy may
come at any time after the last add.

**EarlyPool** is chapters 2 to 4: `chapter = 3` has no workers and main runs
pending tasks itself, `chapter = 4` has workers and a destroy that frees the
pool under them. A pool access after the free is undefined, so no worker takes
a pool step after it.

**PoolCreate** is `thread_pool_create` with every failure, for `chapter` 1 (no
workers, as in chapters 1 to 3), 6 (a failed `pthread_create` calls
`thread_pool_destroy`) or 10 (it returns `NULL`, as from chapter 7 on). Binding
workers to cores does not touch the pool and is left out, with the debug line a
worker prints.

**RtMutex** is `rt_mutex.c`; comparing two priorities and assigning one are
separate steps, because critical sections of different mutexes share the field.
A task's id is its priority. Three history variables say what the properties
depend on: `held`, the mutexes a task locked; `nested`, the tasks that locked one
while they held another; `misled`, the owners whose priority was compared with
or set to that of a waiter holding two mutexes (see section 4).
**PriorityInversion** runs the demo's three tasks over it on one processor
scheduled `SCHED_FIFO` by the levels `task_wrapper` asked for.

**RtScheduler** is the life cycle of the scheduler with time abstracted to
"some time later"; the creation of a task's thread or of the tick thread may fail
(`SpawnMayFail`), and the join of a thread that never existed either returns or
crashes the program. **PeriodicTask** is one task's clock arithmetic with time in
nanoseconds and `struct timespec` as the pair it is.

**PeriodicDemos** puts the two demos' task sets on RtScheduler with a clock and a
kernel. Each step of a task is RtScheduler's action together with what it does
to release, deadline, start and finish (`Begin`, `StartJob`, `EndJob`,
`SleepUntil`, ...), and is taken only when no task of a higher level is ready;
`main` and the tick thread move only while no real-time task is. Time advances
only while a task burns it or while everyone waits. Reading the clock in
`sleep_until` and calling `nanosleep` are separate steps, since a preemption
between them makes the sleep end late. The chart's totals are kept instead of
the rows of the trace (`MaxTrace` is 0 there). `DemosAssumption` gives the three tasks
their priorities and is a hypothesis of the theorems; `Alive` says that a crash ends
every thread. **PeriodicDemosInv** holds the demos' inductive invariant.

## 3. The runs

| Run | Instance | States | What it shows |
|---|---|---|---|
| ThreadPool | 2 workers, 2 clients, 3 tasks, 2 slots | 170,225 | the pool's safety invariants and the inductive one; every step is one of TaskPool or a stutter; with fairness accepted tasks are executed, destroy returns, TaskPool's fairness is met |
| PollingMain | 2 workers, 3 tasks, 2 slots, three programs, two destroys | 198,633 | what the balance says about the deposits, what polling guarantees, which mains end |
| Encrypt | 3 workers, 3 chunks of 2 bytes | 35,286 | what main concludes from two bytes is right whenever it destroys the pool |
| EarlyPool | 2 workers, 6 tasks, 3 slots | 5,012 | each argument block has exactly one owner |
| PoolCreate | 4 workers, chapters 1 and 10 | 119 | nothing is freed under a running worker; what leaks |
| PoolCreate_ch6 | 4 workers, chapter 6 | violation | see findings |
| RtMutex | 3 tasks, 2 mutexes | 65,378 | exclusion, inheritance, no forgotten sleeper, no standstill |
| RtScheduler | 3 tasks, 2 table entries, 3 trace slots, 2 activations | 111,260 | trace, levels, stop |
| PeriodicTask | 2 ns per us, 2 us per ms, 2 ms per s, 3 activations | 117,000 | the time arithmetic |
| PeriodicDemos | demo_periodic 2 s, demo_overload 0.6 s | 2.5 million | deadlines, the chart, how soon main stops the scheduler |
| PeriodicDemos_overload | demo_overload 0.6 s | violation | see findings |
| PriorityInversion_preempt | 3 tasks, 3 slices | violation | see findings |

Each property of a passing run has a mutant in `PROJECT.json`: a definition
changed the way a plausible bug would change it, for which the run reports the
property violated.

### Bounds, and why they are enough

* *ThreadPool.* Three tasks on two slots let `head` and `tail` wrap and the ring
  fill up; two workers let one be about to sleep while the other serves the ring,
  which a lost wakeup needs, and two clients compete for the last slot. The
  number of tasks bounds the behaviour: a task is added once. For safety the size
  hardly matters, since the theorems below hold for all of them.
* *PollingMain.* Three tasks on two slots: main meets a full ring; two workers
  race on the balance. There are more tasks than workers, as in every main
  (`LoadAssumption`): that some deposit survives the race depends on it.
* *Encrypt.* A chunk needs a first and a last byte that differ, so two bytes;
  three chunks so that one is neither first nor last. The ring holds all chunks,
  as the code's 10 slots for 4 chunks do.
* *EarlyPool.* Chapter 3's main makes twice as many adds as there are slots;
  chapter 4's as many as there are slots (8 of 10 in the code), so that there
  are at least as many tasks as slots (`LoadAssumption`).
* *RtMutex.* Three tasks give an owner, a sleeper and a newcomer; two mutexes
  give nesting. Tasks may lock a mutex they own again, which the code allows, and
  nest different ones in increasing order only, since any other order shows
  the deadlock every pair of mutexes has. A waiter that misleads an owner holds two
  mutexes and waits for a third, so here `misled` stays empty and the properties
  are checked without that exception; the theorems cover more mutexes, and their
  invariant was also checked with three tasks and three mutexes (665,862 states).
* *RtScheduler.* `MaxActivations` = 2 lets a task record twice, and then one
  event more than `MaxTrace` = 3 has room for. One of the two tasks in the table may be
  aperiodic. The priorities are both ends of the documented range, 0 and 99, and
  98, next to the wrap of the `SCHED_FIFO` level. Restarting a stopped scheduler is not modelled, as no program does
  it.
* *PeriodicTask.* With two units per larger unit every carry, borrow and
  truncation happens within three activations, and Period = 3 ms and
  `MaxExec` = 14 ns make a task overrun by more than a period. The clock starts
  at every phase of a second.
* *PeriodicDemos.* The unit of time is 10 ms, of which every period and execution
  time is a multiple; what takes less (taking a lock, a statement) takes no time
  but may be interleaved with any tick, so a function that returns in the unit of
  its deadline is late or on time by choice. `RunFor` is main's sleep:
  demo_periodic's 2 s, and for demo_overload 0.6 s, after which its releases
  repeat. `Horizon` only stops a clock that main never gets to stop (under
  overload it may starve). One processor and root are what the READMEs ask for
  (`taskset -c 0`, `sudo`); the kernel's real-time throttling (95 % of each
  second by default) is left out. `MaxActivations` = 40 is never reached.
* *PriorityInversion.* `Slices` is the number of points at which the middle
  task's loop can be seen running.

### Fairness, and why the code justifies it

The kernel runs every runnable thread, and a thread is not passed over for ever
while a lock it wants keeps becoming free: SF on a thread's next statement
(`PoolFairness`, `MainStep`, `TaskStep`, `ThreadStep`). SF differs from WF only
at a lock acquisition. A pthread mutex does not promise it: that other threads do
not win a lock for ever is an assumption about the kernel, and all liveness
results depend on it.

`PollingSpec` does not make that assumption about a main that spins. The benchmark
retries `thread_pool_add` on a full ring without a pause (chapter 10 main.c:41-46),
and the README of chapter 6 (lines 110-126) describes what can come of it: main
unlocks and has the lock again before any worker gets it. So while main wants to add to a full ring and does not
sleep (`Spinning`) a worker is only owed WF, which a lock that main takes again and again does
not give it; SF is asked of `~Spinning /\ WorkerRuns(w)`. The deposit
test leaves that state whenever it sleeps after a refusal, and then a worker that
is ready gets its turn. `MainTerminates` is therefore stated with its exception: the
deposit test always ends, and the benchmark ends or spins for ever on a full ring.

Tasks' functions return (`TaskFairness`), and a task of RtMutex unlocks what it
locked. In RtMutex the kernel owes each caller its turn at `m->lock`, but nothing
says which waiter gets a mutex that becomes free, so a call may be overtaken for
ever: `NoStandstill` says that then some mutex keeps changing hands. PeriodicDemos
needs no fairness, `StopsInTime` being a bound on the clock. There is no fairness on calls by
clients, on spurious wakeups, or on the calls that create and start tasks other
than those main makes unconditionally.

### Environment assumptions

* No `thread_pool_add` runs concurrently with or after `thread_pool_destroy`:
  `CallAdd` and `CallDestroy` say so. No main does it, and the code would use
  freed memory.
* `pthread_mutex_lock`, `_signal`, `_broadcast` and `_unlock` on an initialised
  object do not fail; the error returns for that case are not modelled.

## 4. Findings

* **PoolCreate_ch6** (code bug). When `pthread_create` fails in chapter 6,
  `thread_pool_destroy` joins `thread_count` workers, which is still 0, and
  frees the pool under those already started. Chapters 7 to 10 return `NULL`
  instead, which leaks the pool and its workers (`CreateAllOrNothing`).
* **PeriodicDemos_overload** (code bug). `burn_cpu_ms` burns time on the clock
  and not on the processor, so while task A runs, B's and C's execution times
  elapse as well. The README of chapter 11 calls misses guaranteed under
  utilisation 1.2, and a run without one a sign of wrong timing logic; here all
  three tasks meet every deadline. (With `RunFor` = 2 s and a state constraint
  that cuts a path at its first miss TLC also finds a miss-free run of the whole
  program, with 20, 13 and 9 activations.) A task set that is schedulable on
  paper stays so (`NoMiss`), because the error is in its favour.
* **PriorityInversion_preempt** (code bug). The inherited priority stays in
  `effective_priority`; the kernel is never told, so the middle task preempts
  the boosted owner, the very inversion the comment in `rt_mutex.c` rules out.

Three more disagreements are part of properties that state exactly what the code
does, so that a passing run shows the fault and its extent:

* `CreateAllOrNothing`: "Handle allocate errors: free all resource" (chapter 10
  thread_pool.c:148) is not what err_cleanup does. When `pthread_cond_init` fails
  after `pthread_mutex_init` succeeded (line 94) it frees the pool with the mutex
  still initialised; nothing else is left behind, except after a failed
  `pthread_create`.
* `PriorityOrder`: scheduler.h:27 says "0 = lowest, 99 = highest". As root
  `priority % 99 + 1` (scheduler.c:87) gives 99 the level of 0, below every
  priority from 1 to 98; it is the only one ranked wrongly, and niceness, for a
  program that is not root, is right for all.
* `MainTerminates`: chapter 6's README (lines 112-126) has the reader ensure the
  `usleep(100)` between two attempts to add, or the workers may starve. Chapter 10's
  benchmark dropped it on purpose (main.c:43-45, "let it spin"), and the starvation is back: nothing in the code
  makes main lose the race for the lock. Under the fairness of section 3 that is the
  only way in which the deposit test or the benchmark can fail to end.

Seen while modelling, without a run of their own: chapter 4's destroy frees the
pool under its workers (chapter 6 adds the shutdown); chapter 9's comment "Wait
till done (join in destroy function)" is not what the join does, since queued
chunks are dropped, and their argument blocks leak (`CleanUnmap` states exactly
which); the broadcast in `rt_mutex_unlock` does not make the highest waiter win;
a task that nests two `rt_mutex`es loses its inherited priority at the first
unlock; with three of them a boost can even lower its target: a task that holds
two and waits for the third compares itself with the owner, is then lent less
under the lock of a mutex it holds (its own field is protected by no common
lock), and assigns that to the owner, which may end below its own priority
(four tasks, found when the proof of `BoostEnds` failed; no program of the
repository holds even two); a full trace buffer drops the newest events although the README says
every activation is recorded; a worker of chapters 7 to 10 may print its core
before it is bound to one.

## 5. The proofs

Every safety invariant and action property of the runs on the pool, its creation,
the early pools, the deposit test and benchmark, the encryption, `rt_mutex`, the
scheduler, the clock arithmetic and, but for one (`HealthyChart`), the periodic and
overload demos is a theorem, for every value of the constants that the modules'
ASSUMEs admit. The assumptions say no more than the code guarantees (at least one
worker and one ring slot, priorities from 0 to 99, positive units and periods,
more tasks than workers in PollingMain, a slot for each chunk in Encrypt, a task
for each slot in EarlyPool), and TLC
evaluates them in every run. The pattern is the same everywhere: an inductive
invariant (`IndInv`, `IInv`, `PInv`, `EInv`, `DemoInv`), checked by TLC first on the run's
instance or a larger one, a lemma per conjunct or per action, and the properties
as its consequences.

| Module | Invariant | Theorems about properties |
|---|---|---|
| ThreadPool_proofs | `IndInv` | `TypeOK`, `LockDiscipline`, `RingIsFifo`, `NoStrandedTask`, `NoSleeperAfterShutdown`, `CompletedCounter`, `NoUseAfterFree`, `ImplementsTaskPool` |
| PollingMain_proofs | `PInv` | `BalanceExplained`, `NothingDropped`, `ImplementsTaskPool` where the destroy joins |
| Encrypt_proofs | `EInv` | `EncryptedOnce`, `SuccessIsSound`, `CleanUnmap`, `ImplementsTaskPool` |
| EarlyPool_proofs | `EInv` | `ArgsOwned`, `NothingLeftBehind` |
| PoolCreate_proofs | `IInv` | `NoFreeUnderWorkers`, `CreateAllOrNothing`, both without chapter 6 |
| RtMutex_proofs | `IInv` | `OwnedWhileHeld`, `SleepersHaveOwner`, `OwnerInherits`, `BoostEnds`; with one mutex, and in the priority inversion demo, inheritance without exception |
| RtScheduler_proofs | `IInv` | `TraceAgreesWithStats`, `QuietAfterStop`, `PriorityOrder` |
| RtScheduler_proofs, the demos | `DemoInv` with `IInv` | `NoMiss`, `TopNeverMisses`, `StopsInTime` |
| PeriodicTask_proofs | `IInv` | `DriftFree`, `NeverEarly`, `MissExact`, `TraceConsistent`, `SleepAtMostPeriod` |

### The pool

None of the pool's properties is inductive alone; `IndInv` in ThreadPoolInv adds

* `SleepersWait`, `LocalsAreTasks`: where sleepers are, and that a thread's local
  copy is a task when it is used (needed by `TypeOK`);
* `RingInv`: the ring slot by slot. `RingIsFifo` speaks of whole sequences, which
  shift when the head moves; indices do not. `tail` is a function of `head` and
  `count`, which a full and an empty ring need in order to differ;
* `TasksInv`: a task is accepted once and run by one worker, so that the task a
  worker finishes is new to `done` (needed by `CompletedCounter`, where the
  cardinality of `done` must grow by one);
* `TakenInv`: a task that was taken is done or still run by a worker, which the
  programs built on the pool rely on when its ring is empty;
* `DestroyInv`: one client destroys, alone, workers exit only after the flag, and
  destroy returns only after all of them (needed by `NoSleeperAfterShutdown` and
  `NoUseAfterFree`; without it a worker could exit and leave tasks to sleepers).

`NoStrandedTask` and `CompletedCounter` compare cardinalities and use
FiniteSetTheorems, and the ring rests on two lemmas about `%` (`ModOnce`,
`AdvanceInRing`). `CompletedCounter` also needs `done` to be finite
(`FiniteDone`), which is carried along in the induction.

The conjuncts that say what is in the ring and who runs what (`CoreInv`: `TypeOK`,
`LocalsAreTasks`, `RingInv`, `TasksInv`) are preserved without the others, that is,
without the lock, the sleepers and the shutdown protocol. This matters below.

The theorem `Implements`, `Spec => ImplementsTaskPool`, follows from `IndInv`: most
steps leave the mapped variables alone (`StutterSteps`), and the others are one
lemma each. `WorkerTake` is `Start` because the ring, as `RingInv` describes it,
is the rest of `accepted`, and because the tasks that run are the image of the
busy workers, fewer than all of them (`RoomToRun`); `WorkerExec` is `Finish`
because no two workers run the same task (`TasksInv`); `AddPut` is `Submit` of a
task TaskPool does not know, since all it knows was accepted (`KnownAccepted`);
`DestroyBroadcast` and `DestroyFree` happen once by `DestroyInv`.

### The programs built on it

A step of *Encrypt* is a step of the pool or leaves the pool alone (`PoolStep`),
so `IndInv` holds throughout and the program implements TaskPool
(`EncryptUsesTaskPool`). `BytesInv` says which bytes are encrypted: those of
the finished chunks, and those a worker's index has passed. The two-byte check is
sound (`SuccessIsSound`) because chunks are accepted in the order of their
numbers (`OrderInv`), the ring is a FIFO and destroy joins: if the last chunk was
encrypted, all chunks were taken, and all workers have exited.

*PollingMain* contains chapter 5's destroy, which frees the pool without joining:
`PoolInv` keeps `IndInv` as long as the pool exists or the destroy joins, and the
part that running tasks preserve afterwards. So the programs that join, the deposit
test of chapters 6 to 8 and the benchmark, implement TaskPool as Encrypt does
(`JoiningProgramUsesTaskPool`); chapter 5's does not, as it releases a pool whose
tasks run. Two counts carry the argument: a
task that was taken is done or running (`CountInv`), and the balance is the number
of deposits written under the lock, or at most that many without it (`SafeInv`,
`UnsafeInv`). That an unsafe balance is not zero needs `LoadAssumption`: a program
that polls the ring reads it while at most one deposit per worker is unfinished.

In *EarlyPool* `IndInv` fails for good: chapter 3's main runs tasks itself
and counts none, chapter 4's frees the pool while workers sleep in it. `CoreInv` survives both, and is all that the argument blocks need:
`WaitingIsNobodys` and `AddedIsNew` say that the ring, the workers and the add hold
different tasks, so a block freed by one is not needed by another. Each way a task
moves on is a lemma (`NeedPut`, `NeedTake`, `NeedExec`, `NeedRunPending`,
`NeedFull`, `NeedAdd`). `NothingLeftBehind` then only needs that without workers
every task taken has run (`NoWorkersInv`) and that main frees an empty ring
(`MainInv`).

### Creation

`PoolCreate_proofs` covers all chapters in one invariant: `ResourceInv`, what
exists at each statement, holds until chapter 6 has met a failed `pthread_create`.
So that is the only way to free a pool under its workers (`OnlyChapter6Frees`),
and without chapter 6 the properties hold for any number of workers: what is left
behind with `NULL` is exactly what `CreateAllOrNothing` says.

### rt_mutex

`OwnerInherits` is not inductive: a boost compares two fields in one step and
assigns in another, while other critical sections write them. `LockInv`,
`WaitInv` and `CallInv` say that the waiter and the owner stay paired in between,
`HeldInv` and `NestedInv` tie the history to `owner`; `BoostInv` says that what was
compared still holds when it is assigned, `BlockInv` that a task about to sleep has
been inherited from. `BoostInv` is false for a waiter that holds two mutexes,
which is how the proof found the case described in section 4; `misled` marks the
owners concerned, transitively.

That takes a task with two mutexes. With one, as in every program of the repository,
`nested` and `misled` stay empty and the owner runs no lower than any sleeper without
exception (`OneMutexInherits`). The priority inversion demo is such a program:
every step of it under its kernel is a step of RtMutex (`DemoUsesRtMutex`), so
`effective_priority` is right in every state of it (`DemoInherits`). The run
PriorityInversion_preempt shows the inversion all the same: the fault is
not in rt_mutex.c's arithmetic but in a field the kernel does not see.

### The scheduler and the clock

`RtScheduler_proofs`: the owner of the trace lock knows `g_trace_count`
(`RecordInv`), so that a record adds one new slot and the cardinalities of
`TraceAgreesWithStats` grow by one; `TableInv`, `SpawnInv` and `JoinInv` say that
every thread belongs to one table entry, is started once and has exited when the
join loop has passed it, whence `QuietAfterStop`; `PolicyInv` is the rank
each thread asked for, from which `RanksFollowPriorities` computes the order, with
99 as the one exception.

`PeriodicTask_proofs` rests on lemmas about quotient and remainder: a timespec is
determined by its nanoseconds, adding milliseconds is exact, the borrow in
`sleep_until` is exact, `timespec_diff_us` is within a microsecond, and `EpochMs`
is monotone although it divides a negative difference. The invariant then only
keeps the order of the points in time.

### The periodic and overload demos

Every step of a demo is one of RtScheduler (`DemosImplementScheduler`), so `IInv` and
its consequences hold in the demos. The deadlines then need a response time analysis,
which is usually done on paper for tasks that never block; here it has to be a
predicate that every statement of every thread preserves. `DemosInductive` proves it for any
`RunFor` and `Horizon`, hence for demos that run for any time, any sizes of table and trace,
and creations that fail; only the task sets are the demos'.

* *The task of priority 80* (`TopInv`) is kept from the processor by nobody. It may
  find the trace lock held by a task that was preempted while it recorded, which is the
  inversion that lock allows: the holder has then to be scheduled, and only the task
  of priority 60 can burn time before it. `Done80`, release + own execution + that of
  60, bounds the wait in both programs and is within the period.
* *The tasks of priority 60 and 40* (`LowerInv`). `Near(x, m, l)` says that real-time
  threads have kept the processor since the time x, how often the task of priority
  80 has burnt since (`Bursts`), and whether 60 (`m`) and 40 (`l`) have. Each burst
  moves the time by which the processor becomes free (`Limit`) by its length; a
  second burst of a slower task cannot fall in the window (`Counted`). When the task of 60 or 40
  is delayed, such an x lies near its release: within 2 units, or 5, of it
  when it wakes or has to begin, and within 7, or 15, when its function has ended. One burst or two
  of 80, and one of 60, fit between. The bounds (`Slack`, `Latest`) are below the
  periods 20 and 50 even after another delay before the thread asks to sleep again;
  so each release is slept for, which closes the induction.
* *A thread preempted between sleep_until's reading of the clock and its nanosleep*
  oversleeps by as long as it was kept, which is the same `Slack` (`phase = "nanosleep"`).
* *main* (`MainInv`, `StopInv`) is kept by all three, at most 12 units from the end
  of its sleep; when it gets the processor every task is asleep with a known
  release, at most a period away, or about to leave.

`NoMiss`, `TopNeverMisses` and `StopsInTime` follow. The three lemmas `LowerOwn`,
`LowerOthers` and `LowerTick` treat 60 and 40 together: what the task does itself,
what others do at the same instant, and the advance of the clock.

### What is only model-checked

* Liveness, with `ImplementsFairTaskPool`, `AcceptedIsExecuted`, `DestroyReturns`,
  `MainTerminates`, `NoStandstill` and `StopReturns`: fairness and ENABLED are out
  of the prover's reach.
* `HealthyChart` of PeriodicDemos. It is a property of the run main makes and not of
  the task set: the response times proved only bound the rows of the three tasks by 2, 7 and 15
  units of 10, 20 and 50, which is 85 % and not 69.3 %, and a run of a single unit
  is above the line. It holds over the two seconds because the releases of the three
  tasks keep the phase in which they started.
* The three violations, which are counterexamples.

## 6. Not modelled

Printing, statistics output and `trace_dump_csv`; timing of the benchmark; the
drawing of the chart tools, and the Makefiles; CPU affinity; the kernel's
real-time throttling and more than one processor in the demos; failures of
`open`, `ftruncate` and `mmap` in chapter 9, which end the program before there
is a pool; `perror` paths that change no state.

## 7. Plan

Done, in this order: ThreadPool with its invariants and proofs, TaskPool and the
refinement, the compositions, creation, the early pools, `rt_mutex`, the
scheduler, the time arithmetic, the priority inversion demo; then the periodic
and overload demos on one processor, chapter 5's deposit test, chapter 1's pool,
liveness of `rt_mutex`, and the proof of the refinement; then the proofs about the
compositions with the pool, the early pools, creation, `rt_mutex`, the scheduler
and the clock; last, those about the demos on top of the scheduler and of `rt_mutex`,
and the refinement of TaskPool by the programs that join.

To extend: a corrected boost next to PriorityInversion; several processors in
PeriodicDemos.

To prove: the deadlines of any task set that passes a response time test, with a
sum over the tasks of higher priority in the place of `Limit`, of which the two demos would be
instances.
