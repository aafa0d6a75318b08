---------------------------- MODULE ThreadPoolInv ----------------------------
(***************************************************************************)
(* The inductive invariant of ThreadPool.  The invariants stated in        *)
(* ThreadPool are not inductive one by one: each relies on where the other *)
(* threads stand.  IndInv adds what is missing; TLC checks it on the       *)
(* instance of the safety run, ThreadPool_proofs proves it.                *)
(***************************************************************************)
EXTENDS ThreadPool

\* Only workers inside cond_wait sleep on the condition variable.
SleepersWait == \A w \in notify : wpc[w] = "wait"

\* The local task of a worker about to run it, and the argument of a client
\* inside thread_pool_add, are tasks and not garbage.
LocalsAreTasks ==
    /\ \A w \in Workers : wpc[w] = "exec" => task[w] \in Tasks
    /\ \A c \in Clients : cpc[c] \in {"add", "put"} => arg[c] \in Tasks

Slot(i) == (head + i - 1) % QueueSize

\* The ring, slot by slot: tail closes it and slot i holds the i-th accepted
\* task that was not taken.
RingInv ==
    /\ Len(accepted) = Len(taken) + count
    /\ \A i \in 1 .. Len(taken) : taken[i] = accepted[i]
    /\ \A i \in 1 .. count : queue[Slot(i)] = accepted[Len(taken) + i]
    /\ tail = (head + count) % QueueSize

\* t is one of the elements of the sequence s.
Occurs(t, s) == \E i \in 1 .. Len(s) : s[i] = t

\* No task is accepted twice, and a task is taken by one worker, which runs it
\* once: while it runs nobody else has it and it is not done.
TasksInv ==
    /\ \A i, j \in 1 .. Len(accepted) : accepted[i] = accepted[j] => i = j
    /\ \A c \in Clients : cpc[c] \in {"add", "put"} =>
        /\ \A i \in 1 .. Len(accepted) : accepted[i] # arg[c]
        /\ \A d \in Clients : d # c /\ cpc[d] \in {"add", "put"} => arg[d] # arg[c]
    /\ \A w \in Workers : wpc[w] = "exec" =>
        /\ Occurs(task[w], taken) /\ task[w] \notin done
        /\ \A v \in Workers : v # w /\ wpc[v] = "exec" => task[v] # task[w]
    /\ \A t \in done : Occurs(t, taken)

\* A task that was taken is done, or the worker that took it still runs it.
TakenInv ==
    \A k \in 1 .. Len(taken) :
        \/ taken[k] \in done
        \/ \E w \in Workers : wpc[w] = "exec" /\ task[w] = taken[k]

\* The shutdown protocol: one client at most is inside thread_pool_destroy,
\* alone; the flag is set from the broadcast on; the pool is freed when the
\* join is over; workers exit only because of the flag.
DestroyInv ==
    /\ \A c \in Clients :
        /\ cpc[c] \in {"destroy", "broadcast", "join", "returned"} =>
            \A d \in Clients : d # c => cpc[d] = "idle"
        /\ cpc[c] \in {"destroy", "broadcast"} => ~shutdown
        /\ cpc[c] \in {"join", "returned"} => shutdown
        /\ cpc[c] = "returned" => \A w \in Workers : wpc[w] = "exited"
    /\ shutdown => \E c \in Clients : cpc[c] \in {"join", "returned"}
    /\ freed => /\ \E c \in Clients : cpc[c] = "returned"
                /\ \A w \in Workers : wpc[w] = "exited"
    /\ \A w \in Workers : wpc[w] = "exited" => shutdown

\* Everything above together with the invariants it makes inductive.
IndInv ==
    /\ TypeOK
    /\ LockDiscipline
    /\ SleepersWait
    /\ LocalsAreTasks
    /\ RingInv
    /\ TasksInv
    /\ TakenInv
    /\ DestroyInv
    /\ NoSleeperAfterShutdown
    /\ NoStrandedTask
    /\ CompletedCounter
=============================================================================
