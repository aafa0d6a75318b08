------------------------------ MODULE RtMutex ------------------------------
(***************************************************************************)
(* rt_mutex of chapters 11 and 12 (src/Chapter 12/src/rt_mutex.c): a mutex *)
(* with priority inheritance, built from a pthread mutex and a condition   *)
(* variable.  Tasks lock and unlock as they like; a task may hold several  *)
(* mutexes, which it then locks in increasing order, and lock again one    *)
(* that it holds.                                                          *)
(*                                                                         *)
(* m->lock is held within one call of rt_mutex_lock or _unlock only, never *)
(* across a return.  Its critical sections are split between comparing two *)
(* effective priorities and assigning one: with several mutexes the field  *)
(* is shared by critical sections that do not exclude each other.          *)
(***************************************************************************)
EXTENDS Integers, FiniteSets

CONSTANTS Tasks,     \* task_t, a set of integers: the task's priority
          Mutexes,   \* rt_mutex_t, a set of integers
          None       \* NULL, and "m->lock is free"

ASSUME RtAssumption ==
    Tasks \subseteq 0 .. 99 /\ Mutexes \subseteq Nat /\ Mutexes # {} /\ None \notin Tasks

priority(t) == t

VARIABLES
    lock,      \* the task inside a critical section of m->lock, or None
    cond,      \* the tasks that sleep on m->cond
    owner,     \* m->owner
    waiters,   \* m->waiters
    effective_priority,
    state,     \* task->state, the two values rt_mutex.c assigns
    pc,        \* where the task is in rt_mutex.c; "run" is outside
    target,    \* the mutex of the call
    held,      \* history: the mutexes a task locked and has not unlocked
    nested,    \* history: the tasks that locked one while they held another,
               \* until they hold none
    misled     \* history: the owners that dealt with an unsteady waiter (see
               \* Unsteady), until they hold none
mutexVars == <<lock, cond, owner, waiters>>
taskVars == <<effective_priority, state>>
historyVars == <<held, nested, misled>>
vars == <<mutexVars, taskVars, pc, target, historyVars>>

Init ==
    /\ lock = [m \in Mutexes |-> None]
    /\ cond = [m \in Mutexes |-> {}]
    /\ owner = [m \in Mutexes |-> None]
    /\ waiters = [m \in Mutexes |-> 0]
    /\ effective_priority = [t \in Tasks |-> priority(t)]
    /\ state = [t \in Tasks |-> "running"]
    /\ pc = [t \in Tasks |-> "run"]
    /\ target = [t \in Tasks |-> CHOOSE m \in Mutexes : TRUE]
    /\ held = [t \in Tasks |-> {}]
    /\ nested = {} /\ misled = {}

Goto(t, l) == pc' = [pc EXCEPT ![t] = l]

-----------------------------------------------------------------------------
(* rt_mutex_lock *)

CallLock(t, m) ==
    /\ pc[t] = "run"
    /\ m \in held[t] \/ \A h \in held[t] : h < m
    /\ target' = [target EXCEPT ![t] = m]
    /\ Goto(t, "lock")
    /\ UNCHANGED <<mutexVars, taskVars, historyVars>>

\* pthread_mutex_lock(&m->lock) in lock and unlock.
Enter(t) ==
    /\ pc[t] \in {"lock", "unlock"}
    /\ lock[target[t]] = None
    /\ lock' = [lock EXCEPT ![target[t]] = t]
    /\ Goto(t, IF pc[t] = "lock" THEN "while" ELSE "release")
    /\ UNCHANGED <<cond, owner, waiters, taskVars, target, historyVars>>

\* The loop's condition is false: take the mutex, or have it already.  There is
\* no count: one unlock gives it up, however often its owner locked it.
Free(t) == owner[target[t]] \in {None, t}

Acquire(t) ==
    /\ pc[t] = "while"
    /\ Free(t)
    /\ owner' = [owner EXCEPT ![target[t]] = t]
    /\ lock' = [lock EXCEPT ![target[t]] = None]
    /\ held' = [held EXCEPT ![t] = @ \cup {target[t]}]
    /\ nested' = IF held[t] \ {target[t]} = {} THEN nested ELSE nested \cup {t}
    /\ Goto(t, "run")
    /\ UNCHANGED <<cond, waiters, taskVars, target, misled>>

\* The mutex has another owner: the caller blocks, after lending the owner its
\* priority if that is higher.
OutranksSwapped(t) == effective_priority[owner[target[t]]] > effective_priority[t]
Outranks(t) == effective_priority[t] > effective_priority[owner[target[t]]]

\* A task that waits with two mutexes is lent priorities under two locks, which
\* may come in any order: its own priority can fall after it compared it.  What
\* it leaves the owner with is then unreliable, and so is what that owner, while
\* it waits, leaves others with.
HoldsTwo(t) == \E m, n \in held[t] : m # n
Unsteady(t) == t \in misled \/ HoldsTwo(t)
NoteOwner(t) ==
    misled' = IF Unsteady(t) THEN misled \cup {owner[target[t]]} ELSE misled

Compare(t) ==
    /\ pc[t] = "while"
    /\ ~Free(t)
    /\ NoteOwner(t)
    /\ Goto(t, IF Outranks(t) THEN "boost" ELSE "block")
    /\ UNCHANGED <<mutexVars, taskVars, target, held, nested>>

Boost(t) ==
    /\ pc[t] = "boost"
    /\ effective_priority' =
         [effective_priority EXCEPT ![owner[target[t]]] = effective_priority[t]]
    /\ NoteOwner(t)
    /\ Goto(t, "block")
    /\ UNCHANGED <<mutexVars, state, target, held, nested>>

\* waiters++, TASK_BLOCKED, and pthread_cond_wait lets go of m->lock.
Block(t) ==
    /\ pc[t] = "block"
    /\ waiters' = [waiters EXCEPT ![target[t]] = @ + 1]
    /\ state' = [state EXCEPT ![t] = "blocked"]
    /\ cond' = [cond EXCEPT ![target[t]] = @ \cup {t}]
    /\ lock' = [lock EXCEPT ![target[t]] = None]
    /\ Goto(t, "wait")
    /\ UNCHANGED <<owner, effective_priority, target, historyVars>>

\* pthread_cond_wait may return without a broadcast.
SpuriousWakeup(t) ==
    /\ t \in cond[target[t]]
    /\ cond' = [cond EXCEPT ![target[t]] = @ \ {t}]
    /\ UNCHANGED <<lock, owner, waiters, taskVars, pc, target, historyVars>>

\* cond_wait owns m->lock again: TASK_RUNNING, waiters--, test the loop again.
Wake(t) ==
    /\ pc[t] = "wait"
    /\ t \notin cond[target[t]]
    /\ lock[target[t]] = None
    /\ lock' = [lock EXCEPT ![target[t]] = t]
    /\ state' = [state EXCEPT ![t] = "running"]
    /\ waiters' = [waiters EXCEPT ![target[t]] = @ - 1]
    /\ Goto(t, "while")
    /\ UNCHANGED <<cond, owner, effective_priority, target, historyVars>>

-----------------------------------------------------------------------------
(* rt_mutex_unlock *)

\* A task may also try to unlock a mutex it does not own.
CallUnlock(t, m) ==
    /\ pc[t] = "run"
    /\ target' = [target EXCEPT ![t] = m]
    /\ Goto(t, "unlock")
    /\ UNCHANGED <<mutexVars, taskVars, historyVars>>

NoOwnerCheck(t) == TRUE
MayUnlock(t) == owner[target[t]] = t

NotOwnerKeepsLock(t) ==
    /\ pc[t] = "release"
    /\ ~MayUnlock(t)
    /\ Goto(t, "run")
    /\ UNCHANGED <<mutexVars, taskVars, target, historyVars>>
NotOwner(t) ==
    /\ pc[t] = "release"
    /\ ~MayUnlock(t)
    /\ lock' = [lock EXCEPT ![target[t]] = None]
    /\ Goto(t, "run")
    /\ UNCHANGED <<cond, owner, waiters, taskVars, target, historyVars>>

\* Back to the original priority.
KeepBoost(t) == UNCHANGED effective_priority
Restore(t) ==
    effective_priority' = [effective_priority EXCEPT ![t] = priority(t)]

\* pthread_cond_broadcast
NoBroadcast(m) == UNCHANGED cond
Broadcast(m) == cond' = [cond EXCEPT ![m] = {}]

Release(t) ==
    /\ pc[t] = "release"
    /\ MayUnlock(t)
    /\ Restore(t)
    /\ owner' = [owner EXCEPT ![target[t]] = None]
    /\ Broadcast(target[t])
    /\ lock' = [lock EXCEPT ![target[t]] = None]
    /\ held' = [held EXCEPT ![t] = @ \ {target[t]}]
    /\ nested' = IF held'[t] = {} THEN nested \ {t} ELSE nested
    /\ misled' = IF held'[t] = {} THEN misled \ {t} ELSE misled
    /\ Goto(t, "run")
    /\ UNCHANGED <<waiters, state, target>>

\* What a task does inside a call.
CallStep(t) ==
    \/ Enter(t) \/ Acquire(t) \/ Compare(t) \/ Boost(t) \/ Block(t)
    \/ Wake(t) \/ NotOwner(t) \/ Release(t)

Next ==
    \E t \in Tasks :
        \/ \E m \in Mutexes : CallLock(t, m) \/ CallUnlock(t, m)
        \/ CallStep(t) \/ SpuriousWakeup(t)

Spec == Init /\ [][Next]_vars

\* The kernel runs every task inside a call and passes none over for ever at
\* m->lock; a task unlocks what it locked (SF, as it may make other calls in
\* between).  Nothing says which waiter gets a mutex that becomes free.
FairSpec ==
    /\ Spec
    /\ \A t \in Tasks : SF_vars(CallStep(t))
    /\ \A t \in Tasks : SF_vars(\E m \in held[t] : CallUnlock(t, m))

-----------------------------------------------------------------------------
\* A task that returned from rt_mutex_lock owns the mutex until its unlock, so
\* two tasks never hold the same one: a woken waiter that finds the mutex taken
\* by a newcomer waits again.
OwnedWhileHeld == \A t \in Tasks : \A m \in held[t] : owner[m] = t

\* Nobody sleeps on a mutex without an owner: the unlock that frees it wakes
\* everyone, so no waiter is forgotten.
SleepersHaveOwner == \A m \in Mutexes : cond[m] # {} => owner[m] # None

\* Priority inheritance: a task that owns one mutex at a time runs at a
\* priority no lower than that of any task asleep on its mutex, even when
\* newcomers and spurious wakeups come in between and whatever other mutexes
\* the sleepers hold.  Two things defeat it.  A task that nests mutexes loses an
\* inherited priority at its first unlock, and to a lower task that lends its
\* own at the same time under another mutex's lock.  And a waiter that already
\* holds two mutexes, which takes three of them, misleads the owner.
OwnerInherits ==
    \A m \in Mutexes : \A t \in cond[m] :
        owner[m] # None /\ owner[m] \notin nested \cup misled =>
            effective_priority[owner[m]] >= priority(t)

\* An inherited priority ends: only a task that owns a mutex runs at another
\* priority than its own, and unless it was misled it runs above it.
BoostEnds ==
    \A t \in Tasks :
        /\ effective_priority[t] # priority(t) => \E m \in Mutexes : owner[m] = t
        /\ t \notin misled => effective_priority[t] >= priority(t)

InCall(t) == pc[t] # "run"
ChangesHands(m) == []<><<owner[m] # None /\ owner'[m] = None>>_vars

\* A call that never returns is one that others overtake: as long as a task is
\* stuck in rt_mutex_lock or _unlock some mutex keeps being released and taken.
\* No wakeup is lost, no return path keeps m->lock, and tasks that nest mutexes
\* in one order do not wait for each other.
NoStandstill ==
    (\E t \in Tasks : <>[]InCall(t)) => \E m \in Mutexes : ChangesHands(m)

=============================================================================
