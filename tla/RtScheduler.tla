---------------------------- MODULE RtScheduler ----------------------------
(***************************************************************************)
(* The life of the real-time scheduler of chapters 11 and 12               *)
(* (src/Chapter 12/src/scheduler.c): main creates tasks, starts them, each *)
(* in a thread of its own, and stops them; every activation of a task is   *)
(* counted and, in chapter 12, recorded in the global trace, which is all  *)
(* that chapter 11 lacks.                                                  *)
(*                                                                         *)
(* Time is abstract here: whether an activation missed its deadline is a   *)
(* choice, and a sleep ends at some time.  PeriodicTask models the clock.  *)
(***************************************************************************)
EXTENDS Integers, Sequences, FiniteSets

CONSTANTS
    Tasks,           \* the tasks main wants to create
    Periodic,        \* those of them whose period_ms is not 0
    Priority,        \* their priorities
    MaxTasks,        \* MAX_TASKS
    MaxTrace,        \* MAX_TRACE_EVENTS
    SpawnMayFail,    \* whether pthread_create may fail
    MaxActivations,  \* bound: how often a task's function is called
    NoTask, Nobody   \* an empty trace slot; the trace lock is free

ASSUME SchedulerAssumption ==
    /\ Periodic \subseteq Tasks
    /\ Priority \in [Tasks -> 0 .. 99]
    /\ MaxTasks \in Nat /\ MaxTrace \in Nat /\ MaxActivations \in Nat
    /\ SpawnMayFail \in BOOLEAN
    /\ Nobody \notin Tasks /\ NoTask \notin Tasks

VARIABLES
    root,            \* the program runs as root: pthread_setschedparam is permitted
    table,           \* g_tasks, g_task_count entries long
    running,         \* g_scheduler_running
    mpc, i,          \* where main is, and the index of its loop
    tick,            \* the tick thread: "none", "while", "exited"
    tpc,             \* where a task's thread is
    state,           \* t->state
    policy,          \* what the kernel was told: <<policy, level>>
    activations, deadline_misses,
    missed,          \* the local variable of task_wrapper
    slot,            \* g_trace_count as the thread read it under the lock
    g_trace_lock, g_trace, g_trace_count

mainVars  == <<root, table, running, mpc, i, tick>>
taskVars  == <<tpc, state, policy, activations, deadline_misses, missed, slot>>
traceVars == <<g_trace_lock, g_trace, g_trace_count>>
vars      == <<mainVars, taskVars, traceVars>>

\* Where a task's thread is (tpc), with the line it is at:
\*   "none"    no thread: not created yet, or its creation failed
\*   "setup"   87, about to ask for its scheduling parameters
\*   "while"   99, about to read g_scheduler_running
\*   "func"    110, running the user task
\*   "lock"    125, about to take the trace lock
\*   "record"  126, owns the trace lock
\*   "sleep"   147, until the next release
\*   "exited"

-----------------------------------------------------------------------------
\* scheduler_init has run.
Init ==
    /\ root \in BOOLEAN
    /\ table = <<>> /\ running = FALSE
    /\ mpc = "create" /\ i = 0 /\ tick = "none"
    /\ tpc = [t \in Tasks |-> "none"]
    /\ state = [t \in Tasks |-> "READY"]
    /\ policy = [t \in Tasks |-> <<"OTHER", 0>>]
    /\ activations = [t \in Tasks |-> 0]
    /\ deadline_misses = [t \in Tasks |-> 0]
    /\ missed = [t \in Tasks |-> FALSE]
    /\ slot = [t \in Tasks |-> 0]
    /\ g_trace_lock = Nobody
    /\ g_trace = [s \in 0 .. MaxTrace - 1 |-> [task |-> NoTask, missed |-> FALSE]]
    /\ g_trace_count = 0

(* main: task_create, scheduler_start, scheduler_stop *)

\* A full table or a failed calloc makes task_create return NULL and changes
\* nothing; main then goes on with the next task, or without it.
TaskCreate(t) ==
    /\ mpc = "create"
    /\ \A n \in DOMAIN table : table[n] # t
    /\ Len(table) < MaxTasks
    /\ table' = Append(table, t)
    /\ UNCHANGED <<root, running, mpc, i, tick, taskVars, traceVars>>

\* Nobody looks at what pthread_create says of the tick thread.
SchedulerStart ==
    /\ mpc = "create"
    /\ running' = TRUE
    /\ g_trace_count' = 0
    /\ tick' = "while" \/ (SpawnMayFail /\ tick' = "none")
    /\ mpc' = "spawn" /\ i' = 1
    /\ UNCHANGED <<root, table, taskVars, g_trace_lock, g_trace>>

\* One iteration of the loop that starts the threads; a failure is printed and
\* the loop goes on.
Spawn ==
    /\ mpc = "spawn" /\ i <= Len(table)
    /\ \/ tpc' = [tpc EXCEPT ![table[i]] = "setup"]
       \/ SpawnMayFail /\ UNCHANGED tpc
    /\ i' = i + 1
    /\ UNCHANGED <<root, table, running, mpc, tick, state, policy, activations,
                   deadline_misses, missed, slot, traceVars>>

Started ==
    /\ mpc = "spawn" /\ i > Len(table)
    /\ mpc' = "run"
    /\ UNCHANGED <<root, table, running, i, tick, taskVars, traceVars>>

SchedulerStop ==
    /\ mpc = "run"
    /\ running' = FALSE
    /\ mpc' = "join" /\ i' = 1
    /\ UNCHANGED <<root, table, tick, taskVars, traceVars>>

\* pthread_join waits for the thread.  Where pthread_create had failed,
\* t->thread is still the 0 of calloc: joining it is undefined, and either
\* returns an error nobody looks at or crashes the program.
JoinableAtOnce(t) == TRUE
Joinable(t) == tpc[t] = "exited"

JoinTask ==
    /\ mpc = "join" /\ i <= Len(table)
    /\ \/ Joinable(table[i]) /\ i' = i + 1 /\ UNCHANGED mpc
       \/ tpc[table[i]] = "none" /\ i' = i + 1 /\ UNCHANGED mpc
       \/ tpc[table[i]] = "none" /\ mpc' = "crashed" /\ UNCHANGED i
    /\ UNCHANGED <<root, table, running, tick, taskVars, traceVars>>

\* The same for the tick thread, which has a global for its pthread_t.
JoinTick ==
    /\ mpc = "join" /\ i > Len(table)
    /\ \/ tick \in {"exited", "none"} /\ mpc' = "stopped"
       \/ tick = "none" /\ mpc' = "crashed"
    /\ UNCHANGED <<root, table, running, i, tick, taskVars, traceVars>>

\* tick_thread reads the flag every TICK_MS and leaves when it is cleared.
TickExit ==
    /\ tick = "while" /\ ~running
    /\ tick' = "exited"
    /\ UNCHANGED <<root, table, running, mpc, i, taskVars, traceVars>>

-----------------------------------------------------------------------------
(* task_wrapper *)

\* The level given to SCHED_FIFO, and the niceness used when it is refused.
FifoLevelInverted(p) == 99 - p
FifoLevel(p) == (p % 99) + 1
Nice(p) == 19 - ((p * 19) \div 99)

Setup(t) ==
    /\ tpc[t] = "setup"
    /\ policy' = [policy EXCEPT ![t] =
                    IF root THEN <<"FIFO", FifoLevel(Priority[t])>>
                            ELSE <<"OTHER", Nice(Priority[t])>>]
    /\ tpc' = [tpc EXCEPT ![t] = "while"]
    /\ UNCHANGED <<mainVars, state, activations, deadline_misses, missed,
                   slot, traceVars>>

KeepsRunningAlways == TRUE
KeepsRunning == running

Activate(t) ==
    /\ tpc[t] = "while" /\ KeepsRunning
    /\ activations[t] < MaxActivations
    /\ state' = [state EXCEPT ![t] = "RUNNING"]
    /\ activations' = [activations EXCEPT ![t] = @ + 1]
    /\ tpc' = [tpc EXCEPT ![t] = "func"]
    /\ UNCHANGED <<mainVars, policy, deadline_misses, missed, slot, traceVars>>

\* t->func returns; the deadline is checked.
Finish(t) ==
    /\ tpc[t] = "func"
    /\ state' = [state EXCEPT ![t] = "SLEEPING"]
    /\ \E late \in BOOLEAN :
        /\ missed' = [missed EXCEPT ![t] = late]
        /\ deadline_misses' = [deadline_misses EXCEPT ![t] = IF late THEN @ + 1 ELSE @]
    /\ tpc' = [tpc EXCEPT ![t] = "lock"]
    /\ UNCHANGED <<mainVars, policy, activations, slot, traceVars>>

TraceLockIgnored == TRUE
TraceLockFree == g_trace_lock = Nobody

\* Take the trace lock and read g_trace_count.
TraceLock(t) ==
    /\ tpc[t] = "lock"
    /\ TraceLockFree
    /\ g_trace_lock' = t
    /\ slot' = [slot EXCEPT ![t] = g_trace_count]
    /\ tpc' = [tpc EXCEPT ![t] = "record"]
    /\ UNCHANGED <<mainVars, state, policy, activations, deadline_misses,
                   missed, g_trace, g_trace_count>>

AfterRecord(t) == IF t \in Periodic THEN "sleep" ELSE "exited"

RoomInTrace(t) == slot[t] < MaxTrace

\* Write the event if there is room, unlock; an aperiodic task is done.
TraceRecord(t) ==
    /\ tpc[t] = "record"
    /\ IF RoomInTrace(t)
       THEN /\ g_trace' = [g_trace EXCEPT ![slot[t]] = [task |-> t, missed |-> missed[t]]]
            /\ g_trace_count' = slot[t] + 1
       ELSE UNCHANGED <<g_trace, g_trace_count>>
    /\ g_trace_lock' = Nobody
    /\ tpc' = [tpc EXCEPT ![t] = AfterRecord(t)]
    /\ state' = [state EXCEPT ![t] = IF t \in Periodic THEN @ ELSE "DEAD"]
    /\ UNCHANGED <<mainVars, policy, activations, deadline_misses, missed, slot>>

Wake(t) ==
    /\ tpc[t] = "sleep"
    /\ tpc' = [tpc EXCEPT ![t] = "while"]
    /\ UNCHANGED <<mainVars, state, policy, activations, deadline_misses,
                   missed, slot, traceVars>>

Leave(t) ==
    /\ tpc[t] = "while" /\ ~KeepsRunning
    /\ state' = [state EXCEPT ![t] = "DEAD"]
    /\ tpc' = [tpc EXCEPT ![t] = "exited"]
    /\ UNCHANGED <<mainVars, policy, activations, deadline_misses, missed,
                   slot, traceVars>>

MainStep == SchedulerStart \/ Spawn \/ Started \/ SchedulerStop \/ JoinTask \/ JoinTick

TaskStep(t) ==
    \/ Setup(t) \/ Activate(t) \/ Finish(t) \/ TraceLock(t) \/ TraceRecord(t)
    \/ Wake(t) \/ Leave(t)

\* A crash ends all threads.
ThreadStep(t) == mpc # "crashed" /\ TaskStep(t)
TickStep == mpc # "crashed" /\ TickExit

Ended == mpc \in {"stopped", "crashed"} /\ UNCHANGED vars

Next ==
    \/ \E t \in Tasks : TaskCreate(t) \/ ThreadStep(t)
    \/ MainStep \/ TickStep
    \/ Ended

Spec == Init /\ [][Next]_vars

\* Every runnable thread runs, the user functions return, the sleeps end, and a
\* thread is not passed over for ever at the trace lock (only there does SF ask
\* for more than WF).
FairSpec ==
    /\ Spec
    /\ WF_vars(MainStep) /\ WF_vars(TickStep)
    /\ \A t \in Tasks : SF_vars(ThreadStep(t))

-----------------------------------------------------------------------------
(* Properties *)

Events(t) == {s \in 0 .. g_trace_count - 1 : g_trace[s].task = t}
Misses(t) == {s \in Events(t) : g_trace[s].missed}
Unrecorded(t) == tpc[t] \in {"lock", "record"}

\* The trace has no hole and never outgrows its buffer, and as long as it has
\* room it agrees with the statistics that scheduler_print_stats prints: an
\* event per completed activation, a miss per counted miss, whichever tasks
\* record at the same time.
TraceAgreesWithStats ==
    /\ g_trace_count <= MaxTrace
    /\ \A s \in 0 .. g_trace_count - 1 : g_trace[s].task # NoTask
    /\ g_trace_count < MaxTrace =>
        \A t \in Tasks :
            /\ activations[t] = Cardinality(Events(t))
                                + (IF tpc[t] = "func" \/ Unrecorded(t) THEN 1 ELSE 0)
            /\ deadline_misses[t] = Cardinality(Misses(t))
                                + (IF Unrecorded(t) /\ missed[t] THEN 1 ELSE 0)

\* What main prints and dumps after scheduler_stop has returned is final: no
\* thread of the scheduler writes statistics or trace events any more.
QuietAfterStop ==
    [][mpc = "stopped" => UNCHANGED <<state, activations, deadline_misses, traceVars>>]_vars

Outranks(t, u) ==
    \/ policy[t][1] = "FIFO" /\ policy[t][2] >= policy[u][2]
    \/ policy[t][1] = "OTHER" /\ policy[t][2] <= policy[u][2]

\* scheduler.h:27 says "0 = lowest, 99 = highest".  The kernel ranks no thread
\* below one of smaller priority, with exactly one exception: as root the level
\* of priority 99 wraps to that of 0, and such a task is ranked below every one
\* of priority 1 to 98.
Demoted(t, u) == root /\ Priority[t] = 99 /\ Priority[u] # 0
PriorityOrder ==
    \A t, u \in Tasks :
        /\ tpc[t] \notin {"none", "setup"} /\ tpc[u] \notin {"none", "setup"}
        /\ Priority[t] > Priority[u]
        => (Outranks(t, u) <=> ~Demoted(t, u))

\* scheduler_stop returns: every periodic task notices the flag, at the latest
\* at its next release (or the join of a thread that never existed crashes).
StopReturns == (mpc = "join") ~> (mpc \in {"stopped", "crashed"})

=============================================================================
