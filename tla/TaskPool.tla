------------------------------ MODULE TaskPool ------------------------------
(***************************************************************************)
(* What the thread pool promises its clients, without lock, ring buffer or *)
(* condition variable: a bounded FIFO of tasks, served by a fixed number   *)
(* of servers until the pool is closed.  A task that has started finishes; *)
(* one that is still pending when the pool closes never starts.            *)
(* ThreadPoolImpl states that the pool of Chapter 10 implements this.      *)
(***************************************************************************)
EXTENDS Integers, Sequences, FiniteSets

CONSTANTS Tasks,       \* what can be submitted
          Capacity,    \* how many tasks may be pending
          MaxRunning   \* how many may run at once

VARIABLES pending,     \* submitted, not started
          running,     \* started, not finished
          done,        \* finished
          closed,      \* nothing starts any more
          released     \* the pool's resources are gone
vars == <<pending, running, done, closed, released>>

Init ==
    /\ pending = <<>>
    /\ running = {} /\ done = {}
    /\ closed = FALSE /\ released = FALSE

Known == {pending[i] : i \in 1 .. Len(pending)} \cup running \cup done

Submit(t) ==
    /\ ~closed
    /\ t \notin Known
    /\ Len(pending) < Capacity
    /\ pending' = Append(pending, t)
    /\ UNCHANGED <<running, done, closed, released>>

Start ==
    /\ ~closed
    /\ pending # <<>>
    /\ Cardinality(running) < MaxRunning
    /\ running' = running \cup {Head(pending)}
    /\ pending' = Tail(pending)
    /\ UNCHANGED <<done, closed, released>>

Finish(t) ==
    /\ t \in running
    /\ running' = running \ {t}
    /\ done' = done \cup {t}
    /\ UNCHANGED <<pending, closed, released>>

Close ==
    /\ ~closed
    /\ closed' = TRUE
    /\ UNCHANGED <<pending, running, done, released>>

Release ==
    /\ closed /\ ~released
    /\ running = {}
    /\ released' = TRUE
    /\ UNCHANGED <<pending, running, done, closed>>

Next ==
    \/ \E t \in Tasks : Submit(t) \/ Finish(t)
    \/ Start \/ Close \/ Release

Spec == Init /\ [][Next]_vars

\* The servers are work-conserving: while a task is pending and a server is
\* free, one is eventually started; what runs finishes; a closed pool whose
\* tasks have finished is released.
FairSpec ==
    /\ Spec
    /\ WF_vars(Start)
    /\ \A t \in Tasks : WF_vars(Finish(t))
    /\ WF_vars(Release)
=============================================================================
