------------------------- MODULE PriorityInversion -------------------------
(***************************************************************************)
(* The scenario rt_mutex exists for                                        *)
(* (src/Chapter 12/demos/demo_priority_inversion.c), run as root on one    *)
(* processor: a low task locks shared_resource, a high task waits for it,  *)
(* and a middle task needs only the processor.                             *)
(*                                                                         *)
(* The mutex is RtMutex.  The kernel schedules SCHED_FIFO: it runs the     *)
(* runnable thread of the highest level, and the only level it knows is    *)
(* the one task_wrapper passed to pthread_setschedparam when the thread    *)
(* began (src/Chapter 12/src/scheduler.c, lines 87-88).                    *)
(***************************************************************************)
EXTENDS RtMutex, Sequences

CONSTANTS Low, Mid, High,   \* the three tasks
          Slices            \* bound: scheduling points in the middle task's loop

shared_resource == 1

VARIABLE step   \* the index of a task's next statement in its body
ivars == <<vars, step>>

\* task_low, task_medium and task_high.
Body(t) ==
    CASE t = Low  -> <<"begin", "lock", "sleep", "unlock", "done">>
      [] t = Mid  -> <<"begin">> \o [s \in 1 .. Slices |-> "burn"] \o <<"done">>
      [] t = High -> <<"begin", "sleep", "lock", "sleep", "unlock", "done">>
At(t, statement) == pc[t] = "run" /\ Body(t)[step[t]] = statement

ScenarioInit == Init /\ step = [t \in Tasks |-> 1]

Advance(t) == step' = [step EXCEPT ![t] = @ + 1]

\* The thread has its level and can use the processor: it neither sleeps, nor
\* waits on the condition variable or for m->lock, nor has it ended.
Runnable(t) ==
    CASE pc[t] = "run" -> ~At(t, "begin") /\ ~At(t, "sleep") /\ ~At(t, "done")
      [] pc[t] \in {"lock", "unlock"} -> lock[target[t]] = None
      [] pc[t] = "wait" -> t \notin cond[target[t]] /\ lock[target[t]] = None
      [] OTHER -> TRUE

Level(t) == (priority(t) % 99) + 1

Running(t) ==
    Runnable(t) /\ \A u \in Tasks : Runnable(u) => Level(u) <= Level(t)

\* A new thread asks for its level.  Until then it has that of main, which is
\* not a real-time one, so it gets the processor only when no other needs it.
Begin(t) ==
    /\ At(t, "begin")
    /\ \A u \in Tasks : ~Runnable(u)
    /\ Advance(t)
    /\ UNCHANGED vars

\* One statement of the thread that has the processor.
Execute(t) ==
    /\ Running(t)
    /\ \/ At(t, "lock") /\ CallLock(t, shared_resource) /\ Advance(t)
       \/ At(t, "unlock") /\ CallUnlock(t, shared_resource) /\ Advance(t)
       \/ At(t, "burn") /\ Advance(t) /\ UNCHANGED vars
       \/ /\ Enter(t) \/ Acquire(t) \/ Compare(t) \/ Boost(t) \/ Block(t) \/ Wake(t) \/ Release(t)
          /\ UNCHANGED step

\* task_sleep_ms returns: the thread is runnable again.
SleepEnds(t) == At(t, "sleep") /\ Advance(t) /\ UNCHANGED vars

Interrupted(t) == SpuriousWakeup(t) /\ UNCHANGED step

AllDone == (\A t \in Tasks : At(t, "done")) /\ UNCHANGED ivars

ScenarioNext == (\E t \in Tasks : Begin(t) \/ Execute(t) \/ SleepEnds(t) \/ Interrupted(t)) \/ AllDone

ScenarioSpec == ScenarioInit /\ [][ScenarioNext]_ivars

-----------------------------------------------------------------------------
\* rt_mutex.c:10-12: "PIP temporarily boosts L's priority to H's level so that
\* medium-priority tasks cannot preempt L": while the high task waits for the
\* low one, the middle task does not take the processor from it.
MediumCannotPreempt ==
    [][step'[Mid] # step[Mid] =>
         ~(pc[High] = "wait" /\ owner[shared_resource] = Low /\ Runnable(Low))]_ivars
=============================================================================
