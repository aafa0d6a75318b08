--------------------------- MODULE RtMutex_proofs ---------------------------
(***************************************************************************)
(* Proofs about RtMutex, for any tasks and any mutexes, and about the      *)
(* priority inversion demo, which runs it with one mutex.                  *)
(***************************************************************************)
EXTENDS PriorityInversion, TLAPS

USE DEF vars, mutexVars, taskVars, historyVars, priority

-----------------------------------------------------------------------------
(* The inductive invariant. *)

CallPC == {"run", "lock", "while", "boost", "block", "wait", "unlock", "release"}

TypeOK ==
    /\ lock \in [Mutexes -> Tasks \cup {None}]
    /\ cond \in [Mutexes -> SUBSET Tasks]
    /\ owner \in [Mutexes -> Tasks \cup {None}]
    /\ waiters \in [Mutexes -> Int]
    /\ effective_priority \in [Tasks -> Int]
    /\ state \in [Tasks -> {"running", "blocked"}]
    /\ pc \in [Tasks -> CallPC]
    /\ target \in [Tasks -> Mutexes]
    /\ held \in [Tasks -> SUBSET Mutexes]
    /\ nested \in SUBSET Tasks
    /\ misled \in SUBSET Tasks

\* A task inside a critical section owns m->lock, so it is alone there.
LockInv ==
    \A t \in Tasks :
        pc[t] \in {"while", "boost", "block", "release"} => lock[target[t]] = t

WaitInv == \A m \in Mutexes : \A t \in cond[m] : pc[t] = "wait" /\ target[t] = m

HeldInv == \A t \in Tasks : \A m \in Mutexes : owner[m] = t <=> m \in held[t]

NestedInv == \A t \in Tasks : HoldsTwo(t) => t \in nested

\* The mutex a task is about to wait for keeps its owner until the task sleeps.
CallInv == \A t \in Tasks : pc[t] \in {"boost", "block"} => ~Free(t)

\* A boost raises: what rt_mutex_lock compared still holds when it assigns.
BoostInv ==
    \A t \in Tasks :
        LET o == owner[target[t]] IN
        pc[t] = "boost" /\ ~Unsteady(t) /\ o \notin misled =>
            /\ effective_priority[t] > priority(o)
            /\ ~HoldsTwo(o) => effective_priority[t] > effective_priority[o]

\* A task that goes to sleep has been inherited from.
BlockInv ==
    \A t \in Tasks :
        LET o == owner[target[t]] IN
        pc[t] = "block" /\ o \notin nested \cup misled =>
            effective_priority[o] >= priority(t)

IInv ==
    /\ TypeOK
    /\ LockInv
    /\ WaitInv
    /\ HeldInv
    /\ NestedInv
    /\ CallInv
    /\ BoostInv
    /\ BlockInv
    /\ SleepersHaveOwner
    /\ OwnerInherits
    /\ BoostEnds

\* The task that another one boosts or waits for, and the mutex between them.
LEMMA WaitedFor ==
    ASSUME IInv, NEW t \in Tasks, pc[t] \in {"boost", "block"}
    PROVE  /\ target[t] \in Mutexes
           /\ owner[target[t]] \in Tasks \ {t}
           /\ lock[target[t]] = t
           /\ target[t] \in held[owner[target[t]]]
<1>1. TypeOK /\ LockInv /\ HeldInv /\ CallInv
    BY DEF IInv
<1>2. target[t] \in Mutexes /\ lock[target[t]] = t
    BY <1>1 DEF TypeOK, LockInv
<1>3. owner[target[t]] \in Tasks \cup {None} /\ owner[target[t]] \notin {None, t}
    BY <1>1, <1>2 DEF TypeOK, CallInv, Free
<1> QED  BY <1>1, <1>2, <1>3 DEF HeldInv

LEMMA Priorities ==
    ASSUME TypeOK, NEW u \in Tasks
    PROVE  u \in Int /\ effective_priority[u] \in Int
BY RtAssumption DEF TypeOK

\* Two tasks are not in critical sections of the same mutex.
LEMMA Alone ==
    ASSUME IInv, NEW t \in Tasks, NEW u \in Tasks, target[t] = target[u],
           pc[t] \in {"while", "boost", "block", "release"},
           pc[u] \in {"while", "boost", "block", "release"}
    PROVE  t = u
BY DEF IInv, LockInv

LEMMA OnlyMutex ==
    ASSUME IInv, NEW o \in Tasks, ~HoldsTwo(o),
           NEW m \in Mutexes, NEW n \in Mutexes, owner[m] = o, owner[n] = o
    PROVE  m = n
BY DEF IInv, HeldInv, HoldsTwo

\* What a boost does, and that it raises the priority of an owner that is not
\* misled and holds one mutex.
LEMMA BoostEffect ==
    ASSUME IInv, NEW t \in Tasks, Boost(t), NEW o, o = owner[target[t]]
    PROVE  /\ o \in Tasks \ {t} /\ target[t] \in Mutexes
           /\ effective_priority'[o] = effective_priority[t]
           /\ \A u \in Tasks : u # o => effective_priority'[u] = effective_priority[u]
           /\ misled \subseteq misled'
           /\ o \notin misled' =>
                /\ ~Unsteady(t)
                /\ effective_priority[t] > o
                /\ ~HoldsTwo(o) => effective_priority[t] > effective_priority[o]
<1>1. o \in Tasks \ {t} /\ target[t] \in Mutexes
    BY WaitedFor DEF Boost
<1>2. /\ effective_priority'[o] = effective_priority[t]
      /\ \A u \in Tasks : u # o => effective_priority'[u] = effective_priority[u]
    BY <1>1 DEF Boost, IInv, TypeOK
<1>3. misled \subseteq misled' /\ (Unsteady(t) => o \in misled') /\ pc[t] = "boost"
    BY DEF Boost, NoteOwner
<1>4. BoostInv
    BY DEF IInv
<1>5. ASSUME o \notin misled'
      PROVE  /\ ~Unsteady(t)
             /\ effective_priority[t] > o
             /\ ~HoldsTwo(o) => effective_priority[t] > effective_priority[o]
    BY <1>3, <1>4, <1>5 DEF BoostInv
<1> QED  BY <1>1, <1>2, <1>3, <1>5

LEMMA TypeNext == IInv /\ [Next]_vars => TypeOK'
<1> SUFFICES ASSUME IInv, [Next]_vars PROVE TypeOK'
    OBVIOUS
<1> USE DEF TypeOK, CallPC, Goto
<1>0. TypeOK
    BY DEF IInv
<1>1. ASSUME NEW t \in Tasks, NEW m \in Mutexes, CallLock(t, m) PROVE TypeOK'
    BY RtAssumption, <1>0, <1>1 DEF CallLock
<1>2. ASSUME NEW t \in Tasks, NEW m \in Mutexes, CallUnlock(t, m) PROVE TypeOK'
    BY RtAssumption, <1>0, <1>2 DEF CallUnlock
<1>3. ASSUME NEW t \in Tasks, Enter(t) PROVE TypeOK'
    BY RtAssumption, <1>0, <1>3 DEF Enter
<1>4. ASSUME NEW t \in Tasks, Acquire(t) PROVE TypeOK'
    BY RtAssumption, <1>0, <1>4 DEF Acquire, Free
<1>5. ASSUME NEW t \in Tasks, Compare(t) PROVE TypeOK'
    BY RtAssumption, <1>0, <1>5 DEF Compare, Free, NoteOwner
<1>6. ASSUME NEW t \in Tasks, Boost(t) PROVE TypeOK'
    <2>1. owner[target[t]] \in Tasks
        BY <1>6, WaitedFor DEF Boost
    <2> QED  BY <1>0, <1>6, <2>1 DEF Boost, NoteOwner
<1>7. ASSUME NEW t \in Tasks, Block(t) PROVE TypeOK'
    <2>1. waiters' \in [Mutexes -> Int]
        <3>1. target[t] \in Mutexes /\ waiters \in [Mutexes -> Int]
            BY <1>0
        <3>2. waiters[target[t]] + 1 \in Int
            BY <3>1
        <3> QED  BY <1>7, <3>1, <3>2 DEF Block
    <2>2. cond' \in [Mutexes -> SUBSET Tasks]
        BY RtAssumption, <1>0, <1>7 DEF Block
    <2> QED  BY <1>0, <1>7, <2>1, <2>2 DEF Block
<1>8. ASSUME NEW t \in Tasks, Wake(t) PROVE TypeOK'
    <2>1. waiters' \in [Mutexes -> Int]
        <3>1. target[t] \in Mutexes /\ waiters \in [Mutexes -> Int]
            BY <1>0
        <3>2. waiters[target[t]] - 1 \in Int
            BY <3>1
        <3> QED  BY <1>8, <3>1, <3>2 DEF Wake
    <2> QED  BY <1>0, <1>8, <2>1 DEF Wake
<1>9. ASSUME NEW t \in Tasks, NotOwner(t) PROVE TypeOK'
    BY RtAssumption, <1>0, <1>9 DEF NotOwner, MayUnlock
<1>10. ASSUME NEW t \in Tasks, Release(t) PROVE TypeOK'
    BY RtAssumption, <1>0, <1>10 DEF Release, MayUnlock, Restore, Broadcast
<1>11. ASSUME NEW t \in Tasks, SpuriousWakeup(t) PROVE TypeOK'
    BY RtAssumption, <1>0, <1>11 DEF SpuriousWakeup
<1>12. CASE UNCHANGED vars
    BY RtAssumption, <1>0, <1>12
<1> QED
    BY <1>1, <1>2, <1>3, <1>4, <1>5, <1>6, <1>7, <1>8, <1>9, <1>10, <1>11, <1>12 DEF Next, CallStep

LEMMA LockNext == IInv /\ [Next]_vars => LockInv'
<1> SUFFICES ASSUME IInv, [Next]_vars PROVE LockInv'
    OBVIOUS
<1> USE DEF TypeOK, LockInv, Goto
<1>0. TypeOK /\ LockInv
    BY DEF IInv
<1>1. ASSUME NEW t \in Tasks, NEW m \in Mutexes, CallLock(t, m) PROVE LockInv'
    BY RtAssumption, <1>0, <1>1 DEF CallLock
<1>2. ASSUME NEW t \in Tasks, NEW m \in Mutexes, CallUnlock(t, m) PROVE LockInv'
    BY RtAssumption, <1>0, <1>2 DEF CallUnlock
<1>3. ASSUME NEW t \in Tasks, Enter(t) PROVE LockInv'
    BY RtAssumption, <1>0, <1>3 DEF Enter
<1>4. ASSUME NEW t \in Tasks, Acquire(t) PROVE LockInv'
    BY RtAssumption, <1>0, <1>4 DEF Acquire, Free
<1>5. ASSUME NEW t \in Tasks, Compare(t) PROVE LockInv'
    BY RtAssumption, <1>0, <1>5 DEF Compare, Free, NoteOwner
<1>6. ASSUME NEW t \in Tasks, Boost(t) PROVE LockInv'
    BY RtAssumption, <1>0, <1>6 DEF Boost, NoteOwner
<1>7. ASSUME NEW t \in Tasks, Block(t) PROVE LockInv'
    BY RtAssumption, <1>0, <1>7 DEF Block
<1>8. ASSUME NEW t \in Tasks, Wake(t) PROVE LockInv'
    BY RtAssumption, <1>0, <1>8 DEF Wake
<1>9. ASSUME NEW t \in Tasks, NotOwner(t) PROVE LockInv'
    BY RtAssumption, <1>0, <1>9 DEF NotOwner, MayUnlock
<1>10. ASSUME NEW t \in Tasks, Release(t) PROVE LockInv'
    BY RtAssumption, <1>0, <1>10 DEF Release, MayUnlock, Restore, Broadcast
<1>11. ASSUME NEW t \in Tasks, SpuriousWakeup(t) PROVE LockInv'
    BY RtAssumption, <1>0, <1>11 DEF SpuriousWakeup
<1>12. CASE UNCHANGED vars
    BY RtAssumption, <1>0, <1>12
<1> QED
    BY <1>1, <1>2, <1>3, <1>4, <1>5, <1>6, <1>7, <1>8, <1>9, <1>10, <1>11, <1>12 DEF Next, CallStep

LEMMA WaitNext == IInv /\ [Next]_vars => WaitInv'
<1> SUFFICES ASSUME IInv, [Next]_vars PROVE WaitInv'
    OBVIOUS
<1> USE DEF TypeOK, WaitInv, Goto
<1>0. TypeOK /\ WaitInv
    BY DEF IInv
<1>1. ASSUME NEW t \in Tasks, NEW m \in Mutexes, CallLock(t, m) PROVE WaitInv'
    BY RtAssumption, <1>0, <1>1 DEF CallLock
<1>2. ASSUME NEW t \in Tasks, NEW m \in Mutexes, CallUnlock(t, m) PROVE WaitInv'
    BY RtAssumption, <1>0, <1>2 DEF CallUnlock
<1>3. ASSUME NEW t \in Tasks, Enter(t) PROVE WaitInv'
    BY RtAssumption, <1>0, <1>3 DEF Enter
<1>4. ASSUME NEW t \in Tasks, Acquire(t) PROVE WaitInv'
    BY RtAssumption, <1>0, <1>4 DEF Acquire, Free
<1>5. ASSUME NEW t \in Tasks, Compare(t) PROVE WaitInv'
    BY RtAssumption, <1>0, <1>5 DEF Compare, Free, NoteOwner
<1>6. ASSUME NEW t \in Tasks, Boost(t) PROVE WaitInv'
    BY RtAssumption, <1>0, <1>6 DEF Boost, NoteOwner
<1>7. ASSUME NEW t \in Tasks, Block(t) PROVE WaitInv'
    BY RtAssumption, <1>0, <1>7 DEF Block
<1>8. ASSUME NEW t \in Tasks, Wake(t) PROVE WaitInv'
    BY RtAssumption, <1>0, <1>8 DEF Wake
<1>9. ASSUME NEW t \in Tasks, NotOwner(t) PROVE WaitInv'
    BY RtAssumption, <1>0, <1>9 DEF NotOwner, MayUnlock
<1>10. ASSUME NEW t \in Tasks, Release(t) PROVE WaitInv'
    BY RtAssumption, <1>0, <1>10 DEF Release, MayUnlock, Restore, Broadcast
<1>11. ASSUME NEW t \in Tasks, SpuriousWakeup(t) PROVE WaitInv'
    BY RtAssumption, <1>0, <1>11 DEF SpuriousWakeup
<1>12. CASE UNCHANGED vars
    BY RtAssumption, <1>0, <1>12
<1> QED
    BY <1>1, <1>2, <1>3, <1>4, <1>5, <1>6, <1>7, <1>8, <1>9, <1>10, <1>11, <1>12 DEF Next, CallStep

LEMMA HeldNext == IInv /\ [Next]_vars => HeldInv'
<1> SUFFICES ASSUME IInv, [Next]_vars PROVE HeldInv'
    OBVIOUS
<1> USE DEF TypeOK, HeldInv, Goto
<1>0. TypeOK /\ HeldInv
    BY DEF IInv
<1>1. ASSUME NEW t \in Tasks, NEW m \in Mutexes, CallLock(t, m) PROVE HeldInv'
    BY RtAssumption, <1>0, <1>1 DEF CallLock
<1>2. ASSUME NEW t \in Tasks, NEW m \in Mutexes, CallUnlock(t, m) PROVE HeldInv'
    BY RtAssumption, <1>0, <1>2 DEF CallUnlock
<1>3. ASSUME NEW t \in Tasks, Enter(t) PROVE HeldInv'
    BY RtAssumption, <1>0, <1>3 DEF Enter
<1>4. ASSUME NEW t \in Tasks, Acquire(t) PROVE HeldInv'
    BY RtAssumption, <1>0, <1>4 DEF Acquire, Free
<1>5. ASSUME NEW t \in Tasks, Compare(t) PROVE HeldInv'
    BY RtAssumption, <1>0, <1>5 DEF Compare, Free, NoteOwner
<1>6. ASSUME NEW t \in Tasks, Boost(t) PROVE HeldInv'
    BY RtAssumption, <1>0, <1>6 DEF Boost, NoteOwner
<1>7. ASSUME NEW t \in Tasks, Block(t) PROVE HeldInv'
    BY RtAssumption, <1>0, <1>7 DEF Block
<1>8. ASSUME NEW t \in Tasks, Wake(t) PROVE HeldInv'
    BY RtAssumption, <1>0, <1>8 DEF Wake
<1>9. ASSUME NEW t \in Tasks, NotOwner(t) PROVE HeldInv'
    BY RtAssumption, <1>0, <1>9 DEF NotOwner, MayUnlock
<1>10. ASSUME NEW t \in Tasks, Release(t) PROVE HeldInv'
    BY RtAssumption, <1>0, <1>10 DEF Release, MayUnlock, Restore, Broadcast
<1>11. ASSUME NEW t \in Tasks, SpuriousWakeup(t) PROVE HeldInv'
    BY RtAssumption, <1>0, <1>11 DEF SpuriousWakeup
<1>12. CASE UNCHANGED vars
    BY RtAssumption, <1>0, <1>12
<1> QED
    BY <1>1, <1>2, <1>3, <1>4, <1>5, <1>6, <1>7, <1>8, <1>9, <1>10, <1>11, <1>12 DEF Next, CallStep

LEMMA NestedNext == IInv /\ [Next]_vars => NestedInv'
<1> SUFFICES ASSUME IInv, [Next]_vars PROVE NestedInv'
    OBVIOUS
<1> USE DEF TypeOK, NestedInv, HoldsTwo, Goto
<1>0. TypeOK /\ NestedInv
    BY DEF IInv
<1>1. ASSUME NEW t \in Tasks, NEW m \in Mutexes, CallLock(t, m) PROVE NestedInv'
    BY RtAssumption, <1>0, <1>1 DEF CallLock
<1>2. ASSUME NEW t \in Tasks, NEW m \in Mutexes, CallUnlock(t, m) PROVE NestedInv'
    BY RtAssumption, <1>0, <1>2 DEF CallUnlock
<1>3. ASSUME NEW t \in Tasks, Enter(t) PROVE NestedInv'
    BY RtAssumption, <1>0, <1>3 DEF Enter
<1>4. ASSUME NEW t \in Tasks, Acquire(t) PROVE NestedInv'
    BY RtAssumption, <1>0, <1>4 DEF Acquire, Free
<1>5. ASSUME NEW t \in Tasks, Compare(t) PROVE NestedInv'
    BY RtAssumption, <1>0, <1>5 DEF Compare, Free, NoteOwner
<1>6. ASSUME NEW t \in Tasks, Boost(t) PROVE NestedInv'
    BY RtAssumption, <1>0, <1>6 DEF Boost, NoteOwner
<1>7. ASSUME NEW t \in Tasks, Block(t) PROVE NestedInv'
    BY RtAssumption, <1>0, <1>7 DEF Block
<1>8. ASSUME NEW t \in Tasks, Wake(t) PROVE NestedInv'
    BY RtAssumption, <1>0, <1>8 DEF Wake
<1>9. ASSUME NEW t \in Tasks, NotOwner(t) PROVE NestedInv'
    BY RtAssumption, <1>0, <1>9 DEF NotOwner, MayUnlock
<1>10. ASSUME NEW t \in Tasks, Release(t) PROVE NestedInv'
    BY RtAssumption, <1>0, <1>10 DEF Release, MayUnlock, Restore, Broadcast
<1>11. ASSUME NEW t \in Tasks, SpuriousWakeup(t) PROVE NestedInv'
    BY RtAssumption, <1>0, <1>11 DEF SpuriousWakeup
<1>12. CASE UNCHANGED vars
    BY RtAssumption, <1>0, <1>12
<1> QED
    BY <1>1, <1>2, <1>3, <1>4, <1>5, <1>6, <1>7, <1>8, <1>9, <1>10, <1>11, <1>12 DEF Next, CallStep

LEMMA CallNext == IInv /\ [Next]_vars => CallInv'
<1> SUFFICES ASSUME IInv, [Next]_vars PROVE CallInv'
    OBVIOUS
<1> USE DEF TypeOK, LockInv, CallInv, Free, Goto
<1>0. TypeOK /\ LockInv /\ CallInv
    BY DEF IInv
<1>1. ASSUME NEW t \in Tasks, NEW m \in Mutexes, CallLock(t, m) PROVE CallInv'
    BY RtAssumption, <1>0, <1>1 DEF CallLock
<1>2. ASSUME NEW t \in Tasks, NEW m \in Mutexes, CallUnlock(t, m) PROVE CallInv'
    BY RtAssumption, <1>0, <1>2 DEF CallUnlock
<1>3. ASSUME NEW t \in Tasks, Enter(t) PROVE CallInv'
    BY RtAssumption, <1>0, <1>3 DEF Enter
<1>4. ASSUME NEW t \in Tasks, Acquire(t) PROVE CallInv'
    BY RtAssumption, <1>0, <1>4 DEF Acquire, Free
<1>5. ASSUME NEW t \in Tasks, Compare(t) PROVE CallInv'
    BY RtAssumption, <1>0, <1>5 DEF Compare, Free, NoteOwner
<1>6. ASSUME NEW t \in Tasks, Boost(t) PROVE CallInv'
    BY RtAssumption, <1>0, <1>6 DEF Boost, NoteOwner
<1>7. ASSUME NEW t \in Tasks, Block(t) PROVE CallInv'
    BY RtAssumption, <1>0, <1>7 DEF Block
<1>8. ASSUME NEW t \in Tasks, Wake(t) PROVE CallInv'
    BY RtAssumption, <1>0, <1>8 DEF Wake
<1>9. ASSUME NEW t \in Tasks, NotOwner(t) PROVE CallInv'
    BY RtAssumption, <1>0, <1>9 DEF NotOwner, MayUnlock
<1>10. ASSUME NEW t \in Tasks, Release(t) PROVE CallInv'
    BY RtAssumption, <1>0, <1>10 DEF Release, MayUnlock, Restore, Broadcast
<1>11. ASSUME NEW t \in Tasks, SpuriousWakeup(t) PROVE CallInv'
    BY RtAssumption, <1>0, <1>11 DEF SpuriousWakeup
<1>12. CASE UNCHANGED vars
    BY RtAssumption, <1>0, <1>12
<1> QED
    BY <1>1, <1>2, <1>3, <1>4, <1>5, <1>6, <1>7, <1>8, <1>9, <1>10, <1>11, <1>12 DEF Next, CallStep

LEMMA SleepersNext == IInv /\ [Next]_vars => SleepersHaveOwner'
<1> SUFFICES ASSUME IInv, [Next]_vars PROVE SleepersHaveOwner'
    OBVIOUS
<1> USE DEF TypeOK, LockInv, CallInv, Free, Goto, SleepersHaveOwner
<1>0. TypeOK /\ LockInv /\ CallInv /\ SleepersHaveOwner
    BY DEF IInv
<1>1. ASSUME NEW t \in Tasks, NEW m \in Mutexes, CallLock(t, m) PROVE SleepersHaveOwner'
    BY RtAssumption, <1>0, <1>1 DEF CallLock
<1>2. ASSUME NEW t \in Tasks, NEW m \in Mutexes, CallUnlock(t, m) PROVE SleepersHaveOwner'
    BY RtAssumption, <1>0, <1>2 DEF CallUnlock
<1>3. ASSUME NEW t \in Tasks, Enter(t) PROVE SleepersHaveOwner'
    BY RtAssumption, <1>0, <1>3 DEF Enter
<1>4. ASSUME NEW t \in Tasks, Acquire(t) PROVE SleepersHaveOwner'
    BY RtAssumption, <1>0, <1>4 DEF Acquire, Free
<1>5. ASSUME NEW t \in Tasks, Compare(t) PROVE SleepersHaveOwner'
    BY RtAssumption, <1>0, <1>5 DEF Compare, Free, NoteOwner
<1>6. ASSUME NEW t \in Tasks, Boost(t) PROVE SleepersHaveOwner'
    BY RtAssumption, <1>0, <1>6 DEF Boost, NoteOwner
<1>7. ASSUME NEW t \in Tasks, Block(t) PROVE SleepersHaveOwner'
    BY RtAssumption, <1>0, <1>7 DEF Block
<1>8. ASSUME NEW t \in Tasks, Wake(t) PROVE SleepersHaveOwner'
    BY RtAssumption, <1>0, <1>8 DEF Wake
<1>9. ASSUME NEW t \in Tasks, NotOwner(t) PROVE SleepersHaveOwner'
    BY RtAssumption, <1>0, <1>9 DEF NotOwner, MayUnlock
<1>10. ASSUME NEW t \in Tasks, Release(t) PROVE SleepersHaveOwner'
    BY RtAssumption, <1>0, <1>10 DEF Release, MayUnlock, Restore, Broadcast
<1>11. ASSUME NEW t \in Tasks, SpuriousWakeup(t) PROVE SleepersHaveOwner'
    BY RtAssumption, <1>0, <1>11 DEF SpuriousWakeup
<1>12. CASE UNCHANGED vars
    BY RtAssumption, <1>0, <1>12
<1> QED
    BY <1>1, <1>2, <1>3, <1>4, <1>5, <1>6, <1>7, <1>8, <1>9, <1>10, <1>11, <1>12 DEF Next, CallStep

LEMMA EndsNext == IInv /\ [Next]_vars => BoostEnds'
<1> SUFFICES ASSUME IInv, [Next]_vars PROVE BoostEnds'
    OBVIOUS
<1> USE DEF TypeOK, CallInv, BoostInv, Free, Goto, BoostEnds
<1>0. TypeOK /\ HeldInv /\ CallInv /\ BoostInv /\ BoostEnds
    BY DEF IInv
<1>1. ASSUME NEW t \in Tasks, NEW m \in Mutexes, CallLock(t, m) PROVE BoostEnds'
    BY RtAssumption, <1>0, <1>1 DEF CallLock
<1>2. ASSUME NEW t \in Tasks, NEW m \in Mutexes, CallUnlock(t, m) PROVE BoostEnds'
    BY RtAssumption, <1>0, <1>2 DEF CallUnlock
<1>3. ASSUME NEW t \in Tasks, Enter(t) PROVE BoostEnds'
    BY RtAssumption, <1>0, <1>3 DEF Enter
<1>4. ASSUME NEW t \in Tasks, Acquire(t) PROVE BoostEnds'
    BY RtAssumption, <1>0, <1>4 DEF Acquire, Free
<1>5. ASSUME NEW t \in Tasks, Compare(t) PROVE BoostEnds'
    BY RtAssumption, <1>0, <1>5 DEF Compare, Free, NoteOwner
<1>6. ASSUME NEW t \in Tasks, Boost(t) PROVE BoostEnds'
    <2> DEFINE o == owner[target[t]]
    <2>1. /\ o \in Tasks /\ target[t] \in Mutexes
          /\ effective_priority'[o] = effective_priority[t]
          /\ \A u \in Tasks : u # o => effective_priority'[u] = effective_priority[u]
          /\ misled \subseteq misled'
          /\ o \notin misled' => effective_priority[t] > o
        BY <1>6, BoostEffect
    <2>2. owner' = owner
        BY <1>6 DEF Boost
    <2> HIDE DEF o
    <2>3. ASSUME NEW u \in Tasks, u \notin misled'
          PROVE  effective_priority'[u] >= u
        <3>1. u \notin misled => effective_priority[u] >= u
            BY <1>0
        <3>2. CASE u = o
            BY <2>1, <2>3, <3>2, <1>0, Priorities
        <3>3. CASE u # o
            BY <2>1, <2>3, <3>1, <3>3
        <3> QED  BY <3>2, <3>3
    <2>4. ASSUME NEW u \in Tasks, effective_priority'[u] # u
          PROVE  \E m \in Mutexes : owner'[m] = u
        <3>1. effective_priority[u] # u => \E m \in Mutexes : owner[m] = u
            BY <1>0
        <3> QED  BY <2>1, <2>2, <2>4, <3>1 DEF o
    <2> QED  BY <2>3, <2>4
<1>7. ASSUME NEW t \in Tasks, Block(t) PROVE BoostEnds'
    BY RtAssumption, <1>0, <1>7 DEF Block
<1>8. ASSUME NEW t \in Tasks, Wake(t) PROVE BoostEnds'
    BY RtAssumption, <1>0, <1>8 DEF Wake
<1>9. ASSUME NEW t \in Tasks, NotOwner(t) PROVE BoostEnds'
    BY RtAssumption, <1>0, <1>9 DEF NotOwner, MayUnlock
<1>10. ASSUME NEW t \in Tasks, Release(t) PROVE BoostEnds'
    BY RtAssumption, <1>0, <1>10 DEF Release, MayUnlock, Restore, Broadcast
<1>11. ASSUME NEW t \in Tasks, SpuriousWakeup(t) PROVE BoostEnds'
    BY RtAssumption, <1>0, <1>11 DEF SpuriousWakeup
<1>12. CASE UNCHANGED vars
    BY RtAssumption, <1>0, <1>12
<1> QED
    BY <1>1, <1>2, <1>3, <1>4, <1>5, <1>6, <1>7, <1>8, <1>9, <1>10, <1>11, <1>12 DEF Next, CallStep

LEMMA BoostNext == IInv /\ [Next]_vars => BoostInv'
<1> SUFFICES ASSUME IInv, [Next]_vars PROVE BoostInv'
    OBVIOUS
<1> USE DEF TypeOK, LockInv, CallInv, BoostInv, HeldInv, BoostEnds, Unsteady, HoldsTwo, Goto
<1>0. TypeOK /\ LockInv /\ HeldInv /\ CallInv /\ BoostInv /\ BoostEnds
    BY DEF IInv
<1>1. ASSUME NEW t \in Tasks, NEW m \in Mutexes, CallLock(t, m) PROVE BoostInv'
    BY RtAssumption, <1>0, <1>1 DEF CallLock
<1>2. ASSUME NEW t \in Tasks, NEW m \in Mutexes, CallUnlock(t, m) PROVE BoostInv'
    BY RtAssumption, <1>0, <1>2 DEF CallUnlock
<1>3. ASSUME NEW t \in Tasks, Enter(t) PROVE BoostInv'
    BY RtAssumption, <1>0, <1>3 DEF Enter
<1>4. ASSUME NEW t \in Tasks, Acquire(t) PROVE BoostInv'
    BY RtAssumption, <1>0, <1>4 DEF Acquire, Free
<1>5. ASSUME NEW t \in Tasks, Compare(t) PROVE BoostInv'
    <2> SUFFICES ASSUME NEW u \in Tasks, pc'[u] = "boost", ~Unsteady(u)',
                        NEW o, o = owner[target[u]], o \notin misled'
                 PROVE  /\ effective_priority[u] > o
                        /\ ~HoldsTwo(o) => effective_priority[u] > effective_priority[o]
        BY <1>5 DEF Compare
    <2>1. misled \subseteq misled' /\ (Unsteady(u) => Unsteady(u)')
        BY <1>5 DEF Compare, NoteOwner
    <2>2. CASE u = t
        <3>1. o \in Tasks
            <4>1. o \notin {None, t}
                BY <1>5, <2>2 DEF Compare, Free
            <4> QED  BY <1>0, <4>1
        <3>2. effective_priority[o] >= o
            BY <1>0, <2>1, <3>1
        <3>3. effective_priority[t] > effective_priority[o]
            BY <1>0, <1>5, <2>2 DEF Compare, Outranks
        <3> QED  BY <1>0, <2>2, <3>1, <3>2, <3>3, Priorities
    <2>3. CASE u # t
        <3>1. pc[u] = "boost"
            BY <1>0, <1>5, <2>3 DEF Compare
        <3> QED  BY <1>0, <2>1, <3>1
    <2> QED  BY <2>2, <2>3
<1>6. ASSUME NEW t \in Tasks, Boost(t) PROVE BoostInv'
    <2> SUFFICES ASSUME NEW u \in Tasks, pc'[u] = "boost", ~Unsteady(u)',
                        NEW q, q = owner[target[u]], q \notin misled'
                 PROVE  /\ effective_priority'[u] > q
                        /\ ~HoldsTwo(q) => effective_priority'[u] > effective_priority'[q]
        BY <1>6 DEF Boost
    <2>1. PICK o : o = owner[target[t]]
        OBVIOUS
    <2>2. /\ o \in Tasks /\ target[t] \in Mutexes
          /\ effective_priority'[o] = effective_priority[t]
          /\ \A v \in Tasks : v # o => effective_priority'[v] = effective_priority[v]
          /\ misled \subseteq misled'
          /\ o \notin misled' /\ ~HoldsTwo(o) => effective_priority[t] > effective_priority[o]
        BY <1>6, <2>1, BoostEffect
    <2>3. u # t /\ pc[u] = "boost" /\ ~Unsteady(u) /\ u \notin misled' /\ ~HoldsTwo(u)
        BY <1>0, <1>6, <2>2 DEF Boost
    <2>4. q \in Tasks \ {u} /\ target[u] \in Mutexes
        BY <2>3, WaitedFor
    <2>5. /\ effective_priority[u] > q
          /\ ~HoldsTwo(q) => effective_priority[u] > effective_priority[q]
        BY <1>0, <2>2, <2>3
    <2>6. ~HoldsTwo(q) => q # o
        BY <1>6, <2>1, <2>2, <2>3, <2>4, OnlyMutex, Alone DEF Boost
    <2>7. CASE u = o
        <3>1. effective_priority[t] > effective_priority[u] /\ q # o
            BY <2>2, <2>3, <2>4, <2>7
        <3> QED  BY <1>0, <2>2, <2>4, <2>5, <2>7, <3>1, Priorities
    <2>8. CASE u # o
        BY <2>2, <2>4, <2>5, <2>6, <2>8
    <2> QED  BY <2>7, <2>8
<1>7. ASSUME NEW t \in Tasks, Block(t) PROVE BoostInv'
    BY RtAssumption, <1>0, <1>7 DEF Block
<1>8. ASSUME NEW t \in Tasks, Wake(t) PROVE BoostInv'
    BY RtAssumption, <1>0, <1>8 DEF Wake
<1>9. ASSUME NEW t \in Tasks, NotOwner(t) PROVE BoostInv'
    BY RtAssumption, <1>0, <1>9 DEF NotOwner, MayUnlock
<1>10. ASSUME NEW t \in Tasks, Release(t) PROVE BoostInv'
    <2> SUFFICES ASSUME NEW u \in Tasks, pc'[u] = "boost", ~Unsteady(u)',
                        NEW q, q = owner'[target[u]], q \notin misled'
                 PROVE  /\ effective_priority'[u] > q
                        /\ ~HoldsTwo(q)' => effective_priority'[u] > effective_priority'[q]
        BY <1>10 DEF Release
    <2>1. u # t /\ pc[u] = "boost" /\ pc[t] = "release" /\ target[t] \in Mutexes
        BY <1>0, <1>10 DEF Release
    <2>2. target[u] # target[t]
        BY <2>1, Alone
    <2>3. q = owner[target[u]] /\ q \in Tasks \ {u} /\ target[u] \in Mutexes
          /\ target[u] \in held[q]
        BY <1>0, <1>10, <2>1, <2>2, WaitedFor DEF Release
    <2>4. q \notin misled
        <3>1. CASE q = t
            <4>1. held'[t] # {}
                BY <1>0, <1>10, <2>2, <2>3, <3>1 DEF Release
            <4> QED  BY <1>10, <4>1 DEF Release
        <3>2. CASE q # t
            BY <1>10, <3>2 DEF Release
        <3> QED  BY <3>1, <3>2
    <2>5. ~Unsteady(u)
        BY <1>0, <1>10, <2>1 DEF Release
    <2>6. /\ effective_priority[u] > q
          /\ ~HoldsTwo(q) => effective_priority[u] > effective_priority[q]
        BY <1>0, <2>1, <2>3, <2>4, <2>5
    <2>7. /\ effective_priority'[t] = t
          /\ \A v \in Tasks : v # t => effective_priority'[v] = effective_priority[v]
        BY <1>0, <1>10 DEF Release, Restore
    <2>8. CASE q = t
        BY <2>1, <2>6, <2>7, <2>8
    <2>9. CASE q # t
        <3>1. HoldsTwo(q)' <=> HoldsTwo(q)
            BY <1>0, <1>10, <2>3, <2>9 DEF Release
        <3> QED  BY <2>1, <2>3, <2>6, <2>7, <2>9, <3>1
    <2> QED  BY <2>8, <2>9
<1>11. ASSUME NEW t \in Tasks, SpuriousWakeup(t) PROVE BoostInv'
    BY RtAssumption, <1>0, <1>11 DEF SpuriousWakeup
<1>12. CASE UNCHANGED vars
    BY RtAssumption, <1>0, <1>12
<1> QED
    BY <1>1, <1>2, <1>3, <1>4, <1>5, <1>6, <1>7, <1>8, <1>9, <1>10, <1>11, <1>12 DEF Next, CallStep

LEMMA BlockNext == IInv /\ [Next]_vars => BlockInv'
<1> SUFFICES ASSUME IInv, [Next]_vars PROVE BlockInv'
    OBVIOUS
<1> USE DEF TypeOK, LockInv, CallInv, BlockInv, HeldInv, NestedInv, BoostEnds, Unsteady, HoldsTwo, Goto
<1>0. TypeOK /\ LockInv /\ HeldInv /\ NestedInv /\ CallInv /\ BlockInv /\ BoostEnds
    BY DEF IInv
<1>1. ASSUME NEW t \in Tasks, NEW m \in Mutexes, CallLock(t, m) PROVE BlockInv'
    BY RtAssumption, <1>0, <1>1 DEF CallLock
<1>2. ASSUME NEW t \in Tasks, NEW m \in Mutexes, CallUnlock(t, m) PROVE BlockInv'
    BY RtAssumption, <1>0, <1>2 DEF CallUnlock
<1>3. ASSUME NEW t \in Tasks, Enter(t) PROVE BlockInv'
    BY RtAssumption, <1>0, <1>3 DEF Enter
<1>4. ASSUME NEW t \in Tasks, Acquire(t) PROVE BlockInv'
    BY RtAssumption, <1>0, <1>4 DEF Acquire, Free
<1>5. ASSUME NEW t \in Tasks, Compare(t) PROVE BlockInv'
    <2> SUFFICES ASSUME NEW u \in Tasks, pc'[u] = "block",
                        NEW o, o = owner[target[u]], o \notin nested \cup misled'
                 PROVE  effective_priority[o] >= u
        BY <1>5 DEF Compare
    <2>1. misled \subseteq misled'
        BY <1>5 DEF Compare, NoteOwner
    <2>2. CASE u = t
        <3>1. o \in Tasks
            <4>1. o \notin {None, t}
                BY <1>5, <2>2 DEF Compare, Free
            <4> QED  BY <1>0, <4>1
        <3>2. ~Unsteady(t)
            BY <1>5, <2>2 DEF Compare, NoteOwner
        <3>3. effective_priority[t] >= t
            BY <1>0, <3>2
        <3>4. ~(effective_priority[t] > effective_priority[o])
            BY <1>0, <1>5, <2>2 DEF Compare, Outranks
        <3> QED  BY <1>0, <2>2, <3>1, <3>3, <3>4, Priorities
    <2>3. CASE u # t
        <3>1. pc[u] = "block"
            BY <1>0, <1>5, <2>3 DEF Compare
        <3> QED  BY <1>0, <2>1, <3>1
    <2> QED  BY <2>2, <2>3
<1>6. ASSUME NEW t \in Tasks, Boost(t) PROVE BlockInv'
    <2> SUFFICES ASSUME NEW u \in Tasks, pc'[u] = "block",
                        NEW q, q = owner[target[u]], q \notin nested \cup misled'
                 PROVE  effective_priority'[q] >= u
        BY <1>6 DEF Boost
    <2>1. PICK o : o = owner[target[t]]
        OBVIOUS
    <2>2. /\ o \in Tasks /\ target[t] \in Mutexes
          /\ effective_priority'[o] = effective_priority[t]
          /\ \A v \in Tasks : v # o => effective_priority'[v] = effective_priority[v]
          /\ misled \subseteq misled'
          /\ o \notin misled' => ~Unsteady(t)
        BY <1>6, <2>1, BoostEffect
    <2>3. CASE u = t
        <3>1. effective_priority[t] >= t
            BY <1>0, <2>1, <2>2, <2>3
        <3> QED  BY <2>1, <2>2, <2>3, <3>1
    <2>4. CASE u # t
        <3>1. pc[u] = "block" /\ pc[t] = "boost"
            BY <1>0, <1>6, <2>4 DEF Boost
        <3>2. q \in Tasks /\ target[u] \in Mutexes
            BY <3>1, WaitedFor
        <3>3. ~HoldsTwo(q)
            BY <1>0, <3>2
        <3>4. q # o
            BY <2>1, <2>2, <2>4, <3>1, <3>2, <3>3, OnlyMutex, Alone
        <3>5. effective_priority[q] >= u
            BY <1>0, <2>2, <3>1
        <3> QED  BY <2>2, <3>2, <3>4, <3>5
    <2> QED  BY <2>3, <2>4
<1>7. ASSUME NEW t \in Tasks, Block(t) PROVE BlockInv'
    BY RtAssumption, <1>0, <1>7 DEF Block
<1>8. ASSUME NEW t \in Tasks, Wake(t) PROVE BlockInv'
    BY RtAssumption, <1>0, <1>8 DEF Wake
<1>9. ASSUME NEW t \in Tasks, NotOwner(t) PROVE BlockInv'
    BY RtAssumption, <1>0, <1>9 DEF NotOwner, MayUnlock
<1>10. ASSUME NEW t \in Tasks, Release(t) PROVE BlockInv'
    <2> SUFFICES ASSUME NEW u \in Tasks, pc'[u] = "block",
                        NEW q, q = owner'[target[u]], q \notin nested' \cup misled'
                 PROVE  effective_priority'[q] >= u
        BY <1>10 DEF Release
    <2>1. u # t /\ pc[u] = "block" /\ pc[t] = "release" /\ target[t] \in Mutexes
        BY <1>0, <1>10 DEF Release
    <2>2. target[u] # target[t]
        BY <2>1, Alone
    <2>3. q = owner[target[u]] /\ q \in Tasks /\ target[u] \in held[q]
        BY <1>0, <1>10, <2>1, <2>2, WaitedFor DEF Release
    <2>4. q # t
        <3>1. SUFFICES ASSUME q = t PROVE FALSE
            OBVIOUS
        <3>2. target[t] \in held[t] /\ target[u] \in held[t]
            BY <1>0, <1>10, <2>1, <2>3, <3>1 DEF Release, MayUnlock
        <3>3. t \in nested
            BY <1>0, <2>2, <3>2
        <3>4. held'[t] # {}
            BY <1>0, <1>10, <2>2, <3>2 DEF Release
        <3> QED  BY <1>10, <3>1, <3>3, <3>4 DEF Release
    <2>5. q \notin nested \cup misled
        BY <1>10, <2>4 DEF Release
    <2>6. effective_priority[q] >= u
        BY <1>0, <2>1, <2>3, <2>5
    <2>7. effective_priority'[q] = effective_priority[q]
        BY <1>0, <1>10, <2>3, <2>4 DEF Release, Restore
    <2> QED  BY <2>6, <2>7
<1>11. ASSUME NEW t \in Tasks, SpuriousWakeup(t) PROVE BlockInv'
    BY RtAssumption, <1>0, <1>11 DEF SpuriousWakeup
<1>12. CASE UNCHANGED vars
    BY RtAssumption, <1>0, <1>12
<1> QED
    BY <1>1, <1>2, <1>3, <1>4, <1>5, <1>6, <1>7, <1>8, <1>9, <1>10, <1>11, <1>12 DEF Next, CallStep

LEMMA InheritsNext == IInv /\ [Next]_vars => OwnerInherits'
<1> SUFFICES ASSUME IInv, [Next]_vars PROVE OwnerInherits'
    OBVIOUS
<1> USE DEF TypeOK, LockInv, CallInv, BoostInv, BlockInv, HeldInv, NestedInv, BoostEnds, Unsteady, HoldsTwo, Goto, OwnerInherits, SleepersHaveOwner
<1>0. TypeOK /\ LockInv /\ HeldInv /\ NestedInv /\ CallInv /\ BoostInv /\ BlockInv /\ BoostEnds /\ OwnerInherits /\ SleepersHaveOwner
    BY DEF IInv
<1>1. ASSUME NEW t \in Tasks, NEW m \in Mutexes, CallLock(t, m) PROVE OwnerInherits'
    BY RtAssumption, <1>0, <1>1 DEF CallLock
<1>2. ASSUME NEW t \in Tasks, NEW m \in Mutexes, CallUnlock(t, m) PROVE OwnerInherits'
    BY RtAssumption, <1>0, <1>2 DEF CallUnlock
<1>3. ASSUME NEW t \in Tasks, Enter(t) PROVE OwnerInherits'
    BY RtAssumption, <1>0, <1>3 DEF Enter
<1>4. ASSUME NEW t \in Tasks, Acquire(t) PROVE OwnerInherits'
    BY RtAssumption, <1>0, <1>4 DEF Acquire, Free
<1>5. ASSUME NEW t \in Tasks, Compare(t) PROVE OwnerInherits'
    BY RtAssumption, <1>0, <1>5 DEF Compare, Free, NoteOwner
<1>6. ASSUME NEW t \in Tasks, Boost(t) PROVE OwnerInherits'
    <2> SUFFICES ASSUME NEW m \in Mutexes, NEW u \in cond[m],
                        NEW q, q = owner[m], q # None, q \notin nested \cup misled'
                 PROVE  effective_priority'[q] >= u
        BY <1>6 DEF Boost
    <2>1. PICK o : o = owner[target[t]]
        OBVIOUS
    <2>2. /\ o \in Tasks /\ target[t] \in Mutexes
          /\ effective_priority'[o] = effective_priority[t]
          /\ \A v \in Tasks : v # o => effective_priority'[v] = effective_priority[v]
          /\ misled \subseteq misled'
          /\ o \notin misled' /\ ~HoldsTwo(o) => effective_priority[t] > effective_priority[o]
        BY <1>6, <2>1, BoostEffect
    <2>3. u \in Tasks /\ q \in Tasks /\ effective_priority[q] >= u /\ ~HoldsTwo(q)
        BY <1>0, <2>2
    <2>4. CASE q = o
        <3>1. effective_priority[t] > effective_priority[q]
            BY <2>2, <2>3, <2>4
        <3> QED  BY <1>0, <2>2, <2>3, <2>4, <3>1, Priorities
    <2>5. CASE q # o
        BY <2>2, <2>3, <2>5
    <2> QED  BY <2>4, <2>5
<1>7. ASSUME NEW t \in Tasks, Block(t) PROVE OwnerInherits'
    BY RtAssumption, <1>0, <1>7 DEF Block
<1>8. ASSUME NEW t \in Tasks, Wake(t) PROVE OwnerInherits'
    BY RtAssumption, <1>0, <1>8 DEF Wake
<1>9. ASSUME NEW t \in Tasks, NotOwner(t) PROVE OwnerInherits'
    BY RtAssumption, <1>0, <1>9 DEF NotOwner, MayUnlock
<1>10. ASSUME NEW t \in Tasks, Release(t) PROVE OwnerInherits'
    <2> SUFFICES ASSUME NEW m \in Mutexes, NEW u \in cond'[m],
                        NEW q, q = owner'[m], q # None, q \notin nested' \cup misled'
                 PROVE  effective_priority'[q] >= u
        OBVIOUS
    <2>1. m # target[t] /\ u \in cond[m] /\ q = owner[m] /\ q \in Tasks /\ m \in held[q]
        BY <1>0, <1>10 DEF Release, Broadcast
    <2>2. q # t
        <3>1. SUFFICES ASSUME q = t PROVE FALSE
            OBVIOUS
        <3>2. target[t] \in held[t] /\ m \in held[t]
            BY <1>0, <1>10, <2>1, <3>1 DEF Release, MayUnlock
        <3>3. t \in nested
            BY <1>0, <2>1, <3>2
        <3>4. held'[t] # {}
            BY <1>0, <1>10, <2>1, <3>2 DEF Release
        <3> QED  BY <1>10, <3>1, <3>3, <3>4 DEF Release
    <2>3. q \notin nested \cup misled
        BY <1>10, <2>2 DEF Release
    <2>4. effective_priority[q] >= u
        BY <1>0, <2>1, <2>3
    <2>5. effective_priority'[q] = effective_priority[q]
        BY <1>0, <1>10, <2>1, <2>2 DEF Release, Restore
    <2> QED  BY <2>4, <2>5
<1>11. ASSUME NEW t \in Tasks, SpuriousWakeup(t) PROVE OwnerInherits'
    BY RtAssumption, <1>0, <1>11 DEF SpuriousWakeup
<1>12. CASE UNCHANGED vars
    BY RtAssumption, <1>0, <1>12
<1> QED
    BY <1>1, <1>2, <1>3, <1>4, <1>5, <1>6, <1>7, <1>8, <1>9, <1>10, <1>11, <1>12 DEF Next, CallStep

-----------------------------------------------------------------------------
(* The theorems. *)

LEMMA IInit == Init => IInv
BY RtAssumption
   DEF Init, IInv, TypeOK, CallPC, LockInv, WaitInv, HeldInv, NestedInv, CallInv,
       BoostInv, BlockInv, SleepersHaveOwner, OwnerInherits, BoostEnds, HoldsTwo

LEMMA INext == IInv /\ [Next]_vars => IInv'
BY TypeNext, LockNext, WaitNext, HeldNext, NestedNext, CallNext, SleepersNext, EndsNext,
   BoostNext, BlockNext, InheritsNext DEF IInv

\* IInv holds in every reachable state, for any tasks and any mutexes.
THEOREM Inductive == Spec => []IInv
BY IInit, INext, PTL DEF Spec

\* rt_mutex_lock excludes: whoever returned from it owns the mutex until its
\* unlock.
THEOREM Exclusion == Spec => []OwnedWhileHeld
<1>1. IInv => OwnedWhileHeld
    BY DEF IInv, TypeOK, HeldInv, OwnedWhileHeld
<1> QED  BY <1>1, Inductive, PTL

\* The broadcast of rt_mutex_unlock leaves no sleeper behind.
THEOREM NobodyForgotten == Spec => []SleepersHaveOwner
<1>1. IInv => SleepersHaveOwner
    BY DEF IInv
<1> QED  BY <1>1, Inductive, PTL

\* Priority inheritance, through the gap between comparing two effective
\* priorities and assigning one.
THEOREM Inheritance == Spec => []OwnerInherits
<1>1. IInv => OwnerInherits
    BY DEF IInv
<1> QED  BY <1>1, Inductive, PTL

\* Nobody keeps an inherited priority without a mutex.
THEOREM InheritanceEnds == Spec => []BoostEnds
<1>1. IInv => BoostEnds
    BY DEF IInv
<1> QED  BY <1>1, Inductive, PTL

-----------------------------------------------------------------------------
(* One mutex, and the priority inversion demo *)

\* With one mutex nobody nests, so nothing defeats the inheritance.
Plain == nested = {} /\ misled = {}

LEMMA OneMutexNext ==
    ASSUME NEW r, Mutexes = {r}, IInv, Plain, [Next]_vars
    PROVE  Plain'
<1>1. TypeOK
    BY DEF IInv
<1>2. \A t \in Tasks : held[t] \subseteq {r} /\ target[t] = r
    BY <1>1 DEF TypeOK
<1>3. \A t \in Tasks : ~Unsteady(t)
    BY <1>2 DEF Plain, Unsteady, HoldsTwo
<1>4. ASSUME NEW t \in Tasks, Acquire(t) PROVE Plain'
    <2>1. held[t] \ {target[t]} = {}
        BY <1>2
    <2> QED  BY <2>1, <1>4 DEF Acquire, Plain
<1>5. ASSUME NEW t \in Tasks, Compare(t) \/ Boost(t) PROVE Plain'
    BY <1>5, <1>3 DEF Compare, Boost, NoteOwner, Plain
<1>6. ASSUME NEW t \in Tasks, Release(t) PROVE Plain'
    BY <1>6 DEF Release, Plain
<1>7. ASSUME NEW t \in Tasks, NEW m \in Mutexes, CallLock(t, m) \/ CallUnlock(t, m)
      PROVE  Plain'
    BY <1>7 DEF CallLock, CallUnlock, Plain
<1>8. ASSUME NEW t \in Tasks,
             Enter(t) \/ Block(t) \/ Wake(t) \/ NotOwner(t) \/ SpuriousWakeup(t)
      PROVE  Plain'
    BY <1>8 DEF Enter, Block, Wake, NotOwner, SpuriousWakeup, Plain
<1>9. CASE UNCHANGED vars
    BY <1>9 DEF Plain
<1> QED  BY <1>4, <1>5, <1>6, <1>7, <1>8, <1>9 DEF Next, CallStep

\* Where there is one mutex, as in every program of the repository, its owner
\* runs no lower than any sleeper, without exception.
Lent == \A m \in Mutexes : \A t \in cond[m] :
            owner[m] # None /\ effective_priority[owner[m]] >= priority(t)

THEOREM OneMutexInherits == ASSUME NEW r, Mutexes = {r} PROVE Spec => []Lent
<1>1. Init => Plain
    BY DEF Init, Plain
<1>2. IInv /\ Plain /\ [Next]_vars => Plain'
    BY OneMutexNext
<1>3. IInv /\ Plain => Lent
    BY DEF IInv, Plain, Lent, OwnerInherits, SleepersHaveOwner
<1> QED  BY <1>1, <1>2, <1>3, Inductive, PTL DEF Spec

\* The demo uses the mutex as RtMutex does.
THEOREM DemoUsesRtMutex ==
    ASSUME Mutexes = {shared_resource} PROVE ScenarioSpec => Spec
<1>1. ScenarioInit => Init
    BY DEF ScenarioInit
<1>2. [ScenarioNext]_ivars => [Next]_vars
    <2>1. ASSUME NEW t \in Tasks, Begin(t) \/ SleepEnds(t) PROVE UNCHANGED vars
        BY <2>1 DEF Begin, SleepEnds
    <2>2. ASSUME NEW t \in Tasks, Execute(t) PROVE [Next]_vars
        BY <2>2 DEF Execute, Next, CallStep
    <2>3. ASSUME NEW t \in Tasks, Interrupted(t) PROVE Next
        BY <2>3 DEF Interrupted, Next
    <2>4. ASSUME AllDone \/ UNCHANGED ivars PROVE UNCHANGED vars
        BY <2>4 DEF AllDone, ivars
    <2> QED  BY <2>1, <2>2, <2>3, <2>4 DEF ScenarioNext
<1> QED  BY <1>1, <1>2, PTL DEF ScenarioSpec, Spec

\* While the high task sleeps on shared_resource the field effective_priority of
\* its owner is right in every reachable state: where the demo still shows the
\* inversion, that is because the kernel does not see the field.
THEOREM DemoInherits ==
    ASSUME Mutexes = {shared_resource}
    PROVE  ScenarioSpec => []Lent
<1>1. Spec => []Lent
    BY OneMutexInherits
<1>2. ScenarioSpec => Spec
    BY DemoUsesRtMutex
<1> QED  BY <1>1, <1>2
=============================================================================
