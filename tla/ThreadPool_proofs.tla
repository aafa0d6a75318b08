-------------------------- MODULE ThreadPool_proofs --------------------------
(***************************************************************************)
(* Proofs about the pool of Chapter 10, for any number of workers, clients *)
(* and tasks and any size of the ring: IndInv (ThreadPoolInv), the         *)
(* inductive invariant, the properties that follow from it, and that the   *)
(* pool implements TaskPool (ThreadPoolImpl).  The conjuncts of IndInv are *)
(* preserved one lemma at a time, each assuming all of IndInv before the   *)
(* step; those that do not depend on the lock, the sleepers or the         *)
(* shutdown (CoreInv) assume only each other, for the programs that share  *)
(* no more than that with chapter 10.                                      *)
(***************************************************************************)
EXTENDS ThreadPoolInv, ThreadPoolImpl, FiniteSetTheorems, FunctionTheorems,
        SequenceTheorems, TLAPS

USE DEF vars, poolVars, threadVars, historyVars

-----------------------------------------------------------------------------
(* The arithmetic of the ring. *)

\* A ring index is advanced past the end of the ring at most once.
LEMMA ModOnce ==
    ASSUME NEW n \in Nat \ {0}, NEW a \in Nat, a < 2 * n
    PROVE  a % n = IF a < n THEN a ELSE a - n
<1>1. CASE a < n
    BY <1>1
<1>2. CASE a >= n
    <2>1. (a - n) \in 0 .. n - 1 /\ a = n * 1 + (a - n)
        BY <1>2
    <2> QED  BY <1>2, <2>1
<1> QED  BY <1>1, <1>2

LEMMA AdvanceInRing ==
    ASSUME NEW k \in 0 .. QueueSize - 1
    PROVE  /\ Advance(k) \in 0 .. QueueSize - 1
           /\ Advance(k) = IF k + 1 < QueueSize THEN k + 1 ELSE 0
<1> DEFINE n == k + 1
<1>1. n \in Nat /\ n < 2 * QueueSize /\ n <= QueueSize
    BY QueueSizeAssumption
<1>2. Advance(k) = n % QueueSize
    BY DEF Advance
<1> HIDE DEF n
<1>3. n % QueueSize = IF n < QueueSize THEN n ELSE n - QueueSize
    BY <1>1, ModOnce, QueueSizeAssumption
<1>4. n % QueueSize = IF n < QueueSize THEN n ELSE 0
    BY <1>1, <1>3, QueueSizeAssumption
<1> QED  BY <1>1, <1>2, <1>4, QueueSizeAssumption DEF n

-----------------------------------------------------------------------------
(* Type correctness.  The only conjuncts that need more than the action     *)
(* itself are those that say a slot that is read holds a task (RingInv) and *)
(* that the local copies a thread uses are tasks (LocalsAreTasks).          *)

LEMMA TypeInit == Init => TypeOK
<1> SUFFICES ASSUME Init PROVE TypeOK
    OBVIOUS
<1>1. 0 \in 0 .. QueueSize - 1 /\ 0 \in 0 .. QueueSize
    BY QueueSizeAssumption
<1>2. accepted \in Seq(Tasks) /\ taken \in Seq(Tasks)
    BY DEF Init
<1>3. queue \in [0 .. QueueSize - 1 -> Tasks \cup {NoTask}]
    BY DEF Init
<1>4. task_completed \in Nat
    BY DEF Init, AtomicInit
<1> QED  BY <1>1, <1>2, <1>3, <1>4 DEF Init, TypeOK, Threads, WorkerPC, ClientPC

\* What the ring holds and who runs what.
CoreInv == TypeOK /\ LocalsAreTasks /\ RingInv /\ TasksInv

\* The pool of chapter 10 keeps it.
LEMMA CoreOfInd == IndInv => CoreInv
BY DEF IndInv, CoreInv

\* The slot a worker reads holds the oldest accepted task it has not taken.
LEMMA HeadSlot ==
    ASSUME CoreInv, count > 0
    PROVE  /\ queue[head] = accepted[Len(taken) + 1]
           /\ Len(taken) + 1 \in 1 .. Len(accepted)
           /\ queue[head] \in Tasks
<1>1. head \in 0 .. QueueSize - 1 /\ count \in 0 .. QueueSize
      /\ accepted \in Seq(Tasks) /\ taken \in Seq(Tasks)
    BY DEF CoreInv, TypeOK
<1>2. head % QueueSize = head
    <2>1. head \in Nat /\ head < QueueSize /\ head < 2 * QueueSize
        BY <1>1, QueueSizeAssumption
    <2> QED  BY <2>1, ModOnce, QueueSizeAssumption
<1>3. Slot(1) = head
    BY <1>1, <1>2 DEF Slot
<1>4. queue[Slot(1)] = accepted[Len(taken) + 1] /\ Len(accepted) = Len(taken) + count
    BY <1>1 DEF CoreInv, RingInv
<1>5. Len(taken) + 1 \in 1 .. Len(accepted)
    BY <1>1, <1>4
<1> QED  BY <1>1, <1>3, <1>4, <1>5

LEMMA TypeNext == CoreInv /\ [Next]_vars => TypeOK'
<1> SUFFICES ASSUME CoreInv, [Next]_vars PROVE TypeOK'
    OBVIOUS
<1> USE DEF TypeOK, Threads, WorkerPC, ClientPC
<1>0. TypeOK
    BY DEF CoreInv
<1>1. ASSUME NEW w \in Workers, WorkerLock(w) PROVE TypeOK'
    BY <1>0, <1>1 DEF WorkerLock
<1>2. ASSUME NEW w \in Workers, WorkerWait(w) PROVE TypeOK'
    BY <1>0, <1>2 DEF WorkerWait
<1>3. ASSUME NEW w \in Workers, SpuriousWakeup(w) PROVE TypeOK'
    BY <1>0, <1>3 DEF SpuriousWakeup
<1>4. ASSUME NEW w \in Workers, WorkerWake(w) PROVE TypeOK'
    BY <1>0, <1>4 DEF WorkerWake
<1>5. ASSUME NEW w \in Workers, WorkerExit(w) PROVE TypeOK'
    BY <1>0, <1>5 DEF WorkerExit
<1>6. ASSUME NEW w \in Workers, WorkerTake(w) PROVE TypeOK'
    <2>1. count > 0
        BY <1>0, <1>6 DEF WorkerTake, MustWait
    <2>2. queue[head] \in Tasks
        BY <2>1, HeadSlot
    <2>3. head' \in 0 .. QueueSize - 1
        BY <1>0, <1>6, AdvanceInRing DEF WorkerTake
    <2>4. count' \in 0 .. QueueSize
        BY <1>0, <1>6, <2>1, QueueSizeAssumption DEF WorkerTake
    <2> QED  BY <1>0, <1>6, <2>2, <2>3, <2>4 DEF WorkerTake
<1>7. ASSUME NEW w \in Workers, WorkerExec(w) PROVE TypeOK'
    <2>1. task[w] \in Tasks
        BY <1>7 DEF CoreInv, LocalsAreTasks, WorkerExec
    <2> QED  BY <1>0, <1>7, <2>1 DEF WorkerExec
<1>8. ASSUME NEW w \in Workers, WorkerCompleted(w) PROVE TypeOK'
    BY <1>0, <1>8 DEF WorkerCompleted
<1>9. ASSUME NEW c \in Clients, AddLock(c) PROVE TypeOK'
    BY <1>0, <1>9 DEF AddLock
<1>10. ASSUME NEW c \in Clients, AddFull(c) PROVE TypeOK'
    BY <1>0, <1>10 DEF AddFull
<1>11. ASSUME NEW c \in Clients, AddPut(c) PROVE TypeOK'
    <2>1. arg[c] \in Tasks
        BY <1>11 DEF CoreInv, LocalsAreTasks, AddPut
    <2>2. tail' \in 0 .. QueueSize - 1
        BY <1>0, <1>11, AdvanceInRing DEF AddPut
    <2>3. count' \in 0 .. QueueSize
        BY <1>0, <1>11, QueueSizeAssumption DEF AddPut, QueueFull
    <2>4. notify' \in SUBSET Workers
        BY <1>0, <1>11 DEF AddPut, Signal
    <2> QED  BY <1>0, <1>11, <2>1, <2>2, <2>3, <2>4 DEF AddPut
<1>12. ASSUME NEW c \in Clients, DestroyLock(c) PROVE TypeOK'
    BY <1>0, <1>12 DEF DestroyLock
<1>13. ASSUME NEW c \in Clients, DestroyBroadcast(c) PROVE TypeOK'
    BY <1>0, <1>13 DEF DestroyBroadcast, Broadcast
<1>14. ASSUME NEW c \in Clients, DestroyFree(c) PROVE TypeOK'
    BY <1>0, <1>14 DEF DestroyFree
<1>15. ASSUME NEW c \in Clients, NEW t \in Tasks, CallAdd(c, t) PROVE TypeOK'
    BY <1>0, <1>15 DEF CallAdd
<1>16. ASSUME NEW c \in Clients, CallDestroy(c) PROVE TypeOK'
    BY <1>0, <1>16 DEF CallDestroy
<1>17. CASE UNCHANGED vars
    BY <1>0, <1>17
<1> QED
    BY <1>1, <1>2, <1>3, <1>4, <1>5, <1>6, <1>7, <1>8, <1>9, <1>10, <1>11,
       <1>12, <1>13, <1>14, <1>15, <1>16, <1>17
       DEF Next, WorkerStep, WorkerPoolStep, WorkerStatement, ClientStep, Terminated

-----------------------------------------------------------------------------
(* Mutual exclusion.  Every action that leaves a critical section releases  *)
(* the lock, every action that enters one found it free.                    *)

LEMMA LockInit == Init => LockDiscipline
BY ThreadsAssumption DEF Init, LockDiscipline, Holds, Threads

LEMMA LockNext == IndInv /\ [Next]_vars => LockDiscipline'
<1> SUFFICES ASSUME IndInv, [Next]_vars PROVE LockDiscipline'
    OBVIOUS
<1> USE DEF LockDiscipline, Holds, Threads, TypeOK
<1>0. TypeOK /\ LockDiscipline
    BY DEF IndInv
<1>1. ASSUME NEW w \in Workers, WorkerLock(w) PROVE LockDiscipline'
    BY <1>0, ThreadsAssumption, <1>1 DEF WorkerLock
<1>2. ASSUME NEW w \in Workers, WorkerWait(w) PROVE LockDiscipline'
    BY <1>0, ThreadsAssumption, <1>2 DEF WorkerWait, MustWait
<1>3. ASSUME NEW w \in Workers, SpuriousWakeup(w) PROVE LockDiscipline'
    BY <1>0, ThreadsAssumption, <1>3 DEF SpuriousWakeup
<1>4. ASSUME NEW w \in Workers, WorkerWake(w) PROVE LockDiscipline'
    BY <1>0, ThreadsAssumption, <1>4 DEF WorkerWake
<1>5. ASSUME NEW w \in Workers, WorkerExit(w) PROVE LockDiscipline'
    BY <1>0, ThreadsAssumption, <1>5 DEF WorkerExit, MustWait
<1>6. ASSUME NEW w \in Workers, WorkerTake(w) PROVE LockDiscipline'
    BY <1>0, ThreadsAssumption, <1>6 DEF WorkerTake, MustWait
<1>7. ASSUME NEW w \in Workers, WorkerExec(w) PROVE LockDiscipline'
    BY <1>0, ThreadsAssumption, <1>7 DEF WorkerExec
<1>8. ASSUME NEW w \in Workers, WorkerCompleted(w) PROVE LockDiscipline'
    BY <1>0, ThreadsAssumption, <1>8 DEF WorkerCompleted
<1>9. ASSUME NEW c \in Clients, AddLock(c) PROVE LockDiscipline'
    BY <1>0, ThreadsAssumption, <1>9 DEF AddLock
<1>10. ASSUME NEW c \in Clients, AddFull(c) PROVE LockDiscipline'
    BY <1>0, ThreadsAssumption, <1>10 DEF AddFull, QueueFull
<1>11. ASSUME NEW c \in Clients, AddPut(c) PROVE LockDiscipline'
    BY <1>0, ThreadsAssumption, <1>11 DEF AddPut, QueueFull, Signal
<1>12. ASSUME NEW c \in Clients, DestroyLock(c) PROVE LockDiscipline'
    BY <1>0, ThreadsAssumption, <1>12 DEF DestroyLock
<1>13. ASSUME NEW c \in Clients, DestroyBroadcast(c) PROVE LockDiscipline'
    BY <1>0, ThreadsAssumption, <1>13 DEF DestroyBroadcast, Broadcast
<1>14. ASSUME NEW c \in Clients, DestroyFree(c) PROVE LockDiscipline'
    BY <1>0, ThreadsAssumption, <1>14 DEF DestroyFree, JoinedAll
<1>15. ASSUME NEW c \in Clients, NEW t \in Tasks, CallAdd(c, t) PROVE LockDiscipline'
    BY <1>0, ThreadsAssumption, <1>15 DEF CallAdd, Destroying
<1>16. ASSUME NEW c \in Clients, CallDestroy(c) PROVE LockDiscipline'
    BY <1>0, ThreadsAssumption, <1>16 DEF CallDestroy
<1>17. CASE UNCHANGED vars
    BY <1>0, ThreadsAssumption, <1>17
<1> QED
    BY <1>1, <1>2, <1>3, <1>4, <1>5, <1>6, <1>7, <1>8, <1>9, <1>10, <1>11,
       <1>12, <1>13, <1>14, <1>15, <1>16, <1>17
       DEF Next, WorkerStep, WorkerPoolStep, WorkerStatement, ClientStep, Terminated

-----------------------------------------------------------------------------
(* Who sleeps, and what the threads' local copies hold. *)

LEMMA LocalsInit == Init => SleepersWait /\ LocalsAreTasks
BY DEF Init, SleepersWait, LocalsAreTasks

LEMMA SleepersNext == IndInv /\ [Next]_vars => SleepersWait'
<1> SUFFICES ASSUME IndInv, [Next]_vars PROVE SleepersWait'
    OBVIOUS
<1> USE DEF SleepersWait, TypeOK
<1>0. TypeOK /\ SleepersWait
    BY DEF IndInv
<1>1. ASSUME NEW w \in Workers, WorkerLock(w) PROVE SleepersWait'
    BY <1>0, <1>1 DEF WorkerLock
<1>2. ASSUME NEW w \in Workers, WorkerWait(w) PROVE SleepersWait'
    BY <1>0, <1>2 DEF WorkerWait, MustWait
<1>3. ASSUME NEW w \in Workers, SpuriousWakeup(w) PROVE SleepersWait'
    BY <1>0, <1>3 DEF SpuriousWakeup
<1>4. ASSUME NEW w \in Workers, WorkerWake(w) PROVE SleepersWait'
    BY <1>0, <1>4 DEF WorkerWake
<1>5. ASSUME NEW w \in Workers, WorkerExit(w) PROVE SleepersWait'
    BY <1>0, <1>5 DEF WorkerExit, MustWait
<1>6. ASSUME NEW w \in Workers, WorkerTake(w) PROVE SleepersWait'
    BY <1>0, <1>6 DEF WorkerTake, MustWait
<1>7. ASSUME NEW w \in Workers, WorkerExec(w) PROVE SleepersWait'
    BY <1>0, <1>7 DEF WorkerExec
<1>8. ASSUME NEW w \in Workers, WorkerCompleted(w) PROVE SleepersWait'
    BY <1>0, <1>8 DEF WorkerCompleted
<1>9. ASSUME NEW c \in Clients, AddLock(c) PROVE SleepersWait'
    BY <1>0, <1>9 DEF AddLock
<1>10. ASSUME NEW c \in Clients, AddFull(c) PROVE SleepersWait'
    BY <1>0, <1>10 DEF AddFull, QueueFull
<1>11. ASSUME NEW c \in Clients, AddPut(c) PROVE SleepersWait'
    BY <1>0, <1>11 DEF AddPut, QueueFull, Signal
<1>12. ASSUME NEW c \in Clients, DestroyLock(c) PROVE SleepersWait'
    BY <1>0, <1>12 DEF DestroyLock
<1>13. ASSUME NEW c \in Clients, DestroyBroadcast(c) PROVE SleepersWait'
    BY <1>0, <1>13 DEF DestroyBroadcast, Broadcast
<1>14. ASSUME NEW c \in Clients, DestroyFree(c) PROVE SleepersWait'
    BY <1>0, <1>14 DEF DestroyFree, JoinedAll
<1>15. ASSUME NEW c \in Clients, NEW t \in Tasks, CallAdd(c, t) PROVE SleepersWait'
    BY <1>0, <1>15 DEF CallAdd, Destroying
<1>16. ASSUME NEW c \in Clients, CallDestroy(c) PROVE SleepersWait'
    BY <1>0, <1>16 DEF CallDestroy
<1>17. CASE UNCHANGED vars
    BY <1>0, <1>17
<1> QED
    BY <1>1, <1>2, <1>3, <1>4, <1>5, <1>6, <1>7, <1>8, <1>9, <1>10, <1>11,
       <1>12, <1>13, <1>14, <1>15, <1>16, <1>17
       DEF Next, WorkerStep, WorkerPoolStep, WorkerStatement, ClientStep, Terminated

LEMMA LocalsNext == CoreInv /\ [Next]_vars => LocalsAreTasks'
<1> SUFFICES ASSUME CoreInv, [Next]_vars PROVE LocalsAreTasks'
    OBVIOUS
<1> USE DEF LocalsAreTasks, TypeOK
<1>0. TypeOK /\ LocalsAreTasks
    BY DEF CoreInv
<1>1. ASSUME NEW w \in Workers, WorkerLock(w) PROVE LocalsAreTasks'
    BY <1>0, <1>1 DEF WorkerLock
<1>2. ASSUME NEW w \in Workers, WorkerWait(w) PROVE LocalsAreTasks'
    BY <1>0, <1>2 DEF WorkerWait, MustWait
<1>3. ASSUME NEW w \in Workers, SpuriousWakeup(w) PROVE LocalsAreTasks'
    BY <1>0, <1>3 DEF SpuriousWakeup
<1>4. ASSUME NEW w \in Workers, WorkerWake(w) PROVE LocalsAreTasks'
    BY <1>0, <1>4 DEF WorkerWake
<1>5. ASSUME NEW w \in Workers, WorkerExit(w) PROVE LocalsAreTasks'
    BY <1>0, <1>5 DEF WorkerExit, MustWait
<1>6. ASSUME NEW w \in Workers, WorkerTake(w) PROVE LocalsAreTasks'
    <2>1. count > 0
        BY <1>0, <1>6 DEF WorkerTake, MustWait
    <2>2. queue[head] \in Tasks
        BY <2>1, HeadSlot
    <2> QED  BY <1>0, <1>6, <2>2 DEF WorkerTake
<1>7. ASSUME NEW w \in Workers, WorkerExec(w) PROVE LocalsAreTasks'
    BY <1>0, <1>7 DEF WorkerExec
<1>8. ASSUME NEW w \in Workers, WorkerCompleted(w) PROVE LocalsAreTasks'
    BY <1>0, <1>8 DEF WorkerCompleted
<1>9. ASSUME NEW c \in Clients, AddLock(c) PROVE LocalsAreTasks'
    BY <1>0, <1>9 DEF AddLock
<1>10. ASSUME NEW c \in Clients, AddFull(c) PROVE LocalsAreTasks'
    BY <1>0, <1>10 DEF AddFull
<1>11. ASSUME NEW c \in Clients, AddPut(c) PROVE LocalsAreTasks'
    BY <1>0, <1>11 DEF AddPut
<1>12. ASSUME NEW c \in Clients, DestroyLock(c) PROVE LocalsAreTasks'
    BY <1>0, <1>12 DEF DestroyLock
<1>13. ASSUME NEW c \in Clients, DestroyBroadcast(c) PROVE LocalsAreTasks'
    BY <1>0, <1>13 DEF DestroyBroadcast
<1>14. ASSUME NEW c \in Clients, DestroyFree(c) PROVE LocalsAreTasks'
    BY <1>0, <1>14 DEF DestroyFree
<1>15. ASSUME NEW c \in Clients, NEW t \in Tasks, CallAdd(c, t) PROVE LocalsAreTasks'
    BY <1>0, <1>15 DEF CallAdd
<1>16. ASSUME NEW c \in Clients, CallDestroy(c) PROVE LocalsAreTasks'
    BY <1>0, <1>16 DEF CallDestroy
<1>17. CASE UNCHANGED vars
    BY <1>0, <1>17
<1> QED
    BY <1>1, <1>2, <1>3, <1>4, <1>5, <1>6, <1>7, <1>8, <1>9, <1>10, <1>11,
       <1>12, <1>13, <1>14, <1>15, <1>16, <1>17
       DEF Next, WorkerStep, WorkerPoolStep, WorkerStatement, ClientStep, Terminated

-----------------------------------------------------------------------------
(* The shutdown protocol.  The broadcast empties notify while the lock is   *)
(* held, and a worker that goes to sleep has just seen, under the same      *)
(* lock, that the flag is not set.                                          *)

LEMMA DestroyInit == Init => DestroyInv /\ NoSleeperAfterShutdown
BY DEF Init, DestroyInv, NoSleeperAfterShutdown

LEMMA DestroyNext == IndInv /\ [Next]_vars => DestroyInv'
<1> SUFFICES ASSUME IndInv, [Next]_vars PROVE DestroyInv'
    OBVIOUS
<1> USE DEF DestroyInv, TypeOK
<1>0. TypeOK /\ DestroyInv
    BY DEF IndInv
<1>1. ASSUME NEW w \in Workers, WorkerLock(w) PROVE DestroyInv'
    BY <1>0, <1>1 DEF WorkerLock
<1>2. ASSUME NEW w \in Workers, WorkerWait(w) PROVE DestroyInv'
    BY <1>0, <1>2 DEF WorkerWait, MustWait
<1>3. ASSUME NEW w \in Workers, SpuriousWakeup(w) PROVE DestroyInv'
    BY <1>0, <1>3 DEF SpuriousWakeup
<1>4. ASSUME NEW w \in Workers, WorkerWake(w) PROVE DestroyInv'
    BY <1>0, <1>4 DEF WorkerWake
<1>5. ASSUME NEW w \in Workers, WorkerExit(w) PROVE DestroyInv'
    BY <1>0, <1>5 DEF WorkerExit, MustWait
<1>6. ASSUME NEW w \in Workers, WorkerTake(w) PROVE DestroyInv'
    BY <1>0, <1>6 DEF WorkerTake, MustWait
<1>7. ASSUME NEW w \in Workers, WorkerExec(w) PROVE DestroyInv'
    BY <1>0, <1>7 DEF WorkerExec
<1>8. ASSUME NEW w \in Workers, WorkerCompleted(w) PROVE DestroyInv'
    BY <1>0, <1>8 DEF WorkerCompleted
<1>9. ASSUME NEW c \in Clients, AddLock(c) PROVE DestroyInv'
    BY <1>0, <1>9 DEF AddLock
<1>10. ASSUME NEW c \in Clients, AddFull(c) PROVE DestroyInv'
    BY <1>0, <1>10 DEF AddFull
<1>11. ASSUME NEW c \in Clients, AddPut(c) PROVE DestroyInv'
    BY <1>0, <1>11 DEF AddPut
<1>12. ASSUME NEW c \in Clients, DestroyLock(c) PROVE DestroyInv'
    BY <1>0, <1>12 DEF DestroyLock
<1>13. ASSUME NEW c \in Clients, DestroyBroadcast(c) PROVE DestroyInv'
    BY <1>0, <1>13 DEF DestroyBroadcast
<1>14. ASSUME NEW c \in Clients, DestroyFree(c) PROVE DestroyInv'
    BY <1>0, <1>14 DEF DestroyFree, JoinedAll
<1>15. ASSUME NEW c \in Clients, NEW t \in Tasks, CallAdd(c, t) PROVE DestroyInv'
    BY <1>0, <1>15 DEF CallAdd, Destroying
<1>16. ASSUME NEW c \in Clients, CallDestroy(c) PROVE DestroyInv'
    BY <1>0, <1>16 DEF CallDestroy
<1>17. CASE UNCHANGED vars
    BY <1>0, <1>17
<1> QED
    BY <1>1, <1>2, <1>3, <1>4, <1>5, <1>6, <1>7, <1>8, <1>9, <1>10, <1>11,
       <1>12, <1>13, <1>14, <1>15, <1>16, <1>17
       DEF Next, WorkerStep, WorkerPoolStep, WorkerStatement, ClientStep, Terminated

LEMMA NoSleeperNext == IndInv /\ [Next]_vars => NoSleeperAfterShutdown'
<1> SUFFICES ASSUME IndInv, [Next]_vars PROVE NoSleeperAfterShutdown'
    OBVIOUS
<1> USE DEF NoSleeperAfterShutdown, DestroyInv, TypeOK
<1>0. TypeOK /\ DestroyInv /\ NoSleeperAfterShutdown
    BY DEF IndInv
<1>1. ASSUME NEW w \in Workers, WorkerLock(w) PROVE NoSleeperAfterShutdown'
    BY <1>0, <1>1 DEF WorkerLock
<1>2. ASSUME NEW w \in Workers, WorkerWait(w) PROVE NoSleeperAfterShutdown'
    BY <1>0, <1>2 DEF WorkerWait, MustWait
<1>3. ASSUME NEW w \in Workers, SpuriousWakeup(w) PROVE NoSleeperAfterShutdown'
    BY <1>0, <1>3 DEF SpuriousWakeup
<1>4. ASSUME NEW w \in Workers, WorkerWake(w) PROVE NoSleeperAfterShutdown'
    BY <1>0, <1>4 DEF WorkerWake
<1>5. ASSUME NEW w \in Workers, WorkerExit(w) PROVE NoSleeperAfterShutdown'
    BY <1>0, <1>5 DEF WorkerExit, MustWait
<1>6. ASSUME NEW w \in Workers, WorkerTake(w) PROVE NoSleeperAfterShutdown'
    BY <1>0, <1>6 DEF WorkerTake, MustWait
<1>7. ASSUME NEW w \in Workers, WorkerExec(w) PROVE NoSleeperAfterShutdown'
    BY <1>0, <1>7 DEF WorkerExec
<1>8. ASSUME NEW w \in Workers, WorkerCompleted(w) PROVE NoSleeperAfterShutdown'
    BY <1>0, <1>8 DEF WorkerCompleted
<1>9. ASSUME NEW c \in Clients, AddLock(c) PROVE NoSleeperAfterShutdown'
    BY <1>0, <1>9 DEF AddLock
<1>10. ASSUME NEW c \in Clients, AddFull(c) PROVE NoSleeperAfterShutdown'
    BY <1>0, <1>10 DEF AddFull
<1>11. ASSUME NEW c \in Clients, AddPut(c) PROVE NoSleeperAfterShutdown'
    BY <1>0, <1>11 DEF AddPut, Signal
<1>12. ASSUME NEW c \in Clients, DestroyLock(c) PROVE NoSleeperAfterShutdown'
    BY <1>0, <1>12 DEF DestroyLock
<1>13. ASSUME NEW c \in Clients, DestroyBroadcast(c) PROVE NoSleeperAfterShutdown'
    BY <1>0, <1>13 DEF DestroyBroadcast, Broadcast
<1>14. ASSUME NEW c \in Clients, DestroyFree(c) PROVE NoSleeperAfterShutdown'
    BY <1>0, <1>14 DEF DestroyFree
<1>15. ASSUME NEW c \in Clients, NEW t \in Tasks, CallAdd(c, t) PROVE NoSleeperAfterShutdown'
    BY <1>0, <1>15 DEF CallAdd
<1>16. ASSUME NEW c \in Clients, CallDestroy(c) PROVE NoSleeperAfterShutdown'
    BY <1>0, <1>16 DEF CallDestroy
<1>17. CASE UNCHANGED vars
    BY <1>0, <1>17
<1> QED
    BY <1>1, <1>2, <1>3, <1>4, <1>5, <1>6, <1>7, <1>8, <1>9, <1>10, <1>11,
       <1>12, <1>13, <1>14, <1>15, <1>16, <1>17
       DEF Next, WorkerStep, WorkerPoolStep, WorkerStatement, ClientStep, Terminated

-----------------------------------------------------------------------------
(* The ring buffer. *)

\* Indices into the ring are at most one wrap away from head.
LEMMA RingIndex ==
    ASSUME NEW h \in 0 .. QueueSize - 1, NEW k \in 0 .. QueueSize
    PROVE  (h + k) % QueueSize =
               IF h + k < QueueSize THEN h + k ELSE h + k - QueueSize
<1> DEFINE n == h + k
<1>1. n \in Nat /\ n < 2 * QueueSize
    BY QueueSizeAssumption
<1>2. (h + k) % QueueSize = n % QueueSize /\ n = h + k
    OBVIOUS
<1> HIDE DEF n
<1>3. n % QueueSize = IF n < QueueSize THEN n ELSE n - QueueSize
    BY <1>1, ModOnce, QueueSizeAssumption
<1> QED  BY <1>1, <1>2, <1>3, QueueSizeAssumption

LEMMA SlotIndex ==
    ASSUME TypeOK, NEW i \in 1 .. QueueSize
    PROVE  Slot(i) = IF head + i - 1 < QueueSize THEN head + i - 1
                                                 ELSE head + i - 1 - QueueSize
<1>1. head \in 0 .. QueueSize - 1 /\ i - 1 \in 0 .. QueueSize
    BY QueueSizeAssumption DEF TypeOK
<1>2. Slot(i) = (head + (i - 1)) % QueueSize
    BY <1>1, QueueSizeAssumption DEF Slot
<1> QED  BY <1>1, <1>2, RingIndex, QueueSizeAssumption

LEMMA RingInit == Init => RingInv
<1> SUFFICES ASSUME Init PROVE RingInv
    OBVIOUS
<1>1. (head + count) % QueueSize = 0
    <2>1. 0 \in 0 .. QueueSize - 1 /\ 0 \in 0 .. QueueSize
        BY QueueSizeAssumption
    <2> QED  BY <2>1, RingIndex, QueueSizeAssumption DEF Init
<1> QED  BY <1>1 DEF Init, RingInv

\* The actions that neither add nor take leave the ring alone.
RingUnchanged == UNCHANGED <<queue, head, tail, count, accepted, taken>>

LEMMA RingActions ==
    [Next]_vars => \/ RingUnchanged
                   \/ \E w \in Workers : WorkerTake(w)
                   \/ \E c \in Clients : AddPut(c)
BY DEF Next, WorkerStep, WorkerPoolStep, WorkerStatement, ClientStep, Terminated, RingUnchanged,
       WorkerLock, WorkerWait, SpuriousWakeup, WorkerWake, WorkerExit, WorkerExec,
       WorkerCompleted, AddLock, AddFull, DestroyLock, DestroyBroadcast,
       DestroyFree, CallAdd, CallDestroy

\* Taking the head slot.
TakeHead ==
    /\ head' = Advance(head)
    /\ count' = count - 1
    /\ taken' = Append(taken, queue[head])
    /\ UNCHANGED <<queue, tail, accepted>>

LEMMA RingTakeHead ==
    ASSUME CoreInv, TypeOK', count > 0, TakeHead
    PROVE  RingInv'
<1>0. TypeOK /\ RingInv
    BY DEF CoreInv
<1>1. count > 0 /\ count \in 0 .. QueueSize /\ head \in 0 .. QueueSize - 1
      /\ count' = count - 1 /\ head' = Advance(head)
    BY <1>0 DEF TypeOK, TakeHead
<1>2. /\ queue[head] = accepted[Len(taken) + 1]
      /\ taken \in Seq(Tasks) /\ taken' = Append(taken, queue[head])
      /\ accepted' = accepted /\ queue' = queue /\ tail' = tail
    BY <1>0, <1>1, HeadSlot DEF TypeOK, TakeHead
<1>3. head' = IF head + 1 < QueueSize THEN head + 1 ELSE 0
    BY <1>1, AdvanceInRing
<1>4. Len(taken') = Len(taken) + 1
    BY <1>2
<1>5. Len(accepted') = Len(taken') + count'
    <2>1. Len(accepted) = Len(taken) + count /\ Len(taken) \in Nat
        BY <1>0, <1>2 DEF RingInv
    <2> QED  BY <2>1, <1>1, <1>2, <1>4
<1>6. \A i \in 1 .. Len(taken') : taken'[i] = accepted'[i]
    BY <1>0, <1>2, <1>4 DEF RingInv
<1>7. ASSUME NEW i \in 1 .. count' PROVE queue'[Slot(i)'] = accepted'[Len(taken') + i]
    <2>1. i \in 1 .. QueueSize /\ i + 1 \in 1 .. QueueSize /\ i + 1 \in 1 .. count
        BY <1>1, QueueSizeAssumption
    <2>2. Slot(i)' = IF head' + i - 1 < QueueSize THEN head' + i - 1
                                                  ELSE head' + i - 1 - QueueSize
        <3>1. head' \in 0 .. QueueSize - 1 /\ i - 1 \in 0 .. QueueSize
            BY <2>1, QueueSizeAssumption DEF TypeOK
        <3>2. Slot(i)' = (head' + (i - 1)) % QueueSize
            BY <3>1, QueueSizeAssumption DEF Slot
        <3> QED  BY <3>1, <3>2, RingIndex, QueueSizeAssumption
    <2>3. Slot(i + 1) = IF head + (i + 1) - 1 < QueueSize
                        THEN head + (i + 1) - 1 ELSE head + (i + 1) - 1 - QueueSize
        BY <2>1, <1>0, SlotIndex
    <2>4. Slot(i)' = Slot(i + 1)
        BY <1>1, <1>3, <2>1, <2>2, <2>3, QueueSizeAssumption
    <2>5. queue[Slot(i + 1)] = accepted[Len(taken) + (i + 1)]
        BY <1>0, <2>1 DEF RingInv
    <2>6. Len(taken) + (i + 1) = Len(taken') + i
        BY <1>2, <1>4, <2>1
    <2> QED  BY <1>2, <2>4, <2>5, <2>6
<1>8. tail' = (head' + count') % QueueSize
    <2>1. tail = IF head + count < QueueSize THEN head + count
                                             ELSE head + count - QueueSize
        BY <1>0, <1>1, RingIndex DEF RingInv
    <2>2. head' \in 0 .. QueueSize - 1 /\ count' \in 0 .. QueueSize
        BY DEF TypeOK
    <2>3. (head' + count') % QueueSize = IF head' + count' < QueueSize
                                         THEN head' + count' ELSE head' + count' - QueueSize
        BY <2>2, RingIndex
    <2> QED  BY <1>1, <1>2, <1>3, <2>1, <2>3, QueueSizeAssumption
<1> QED  BY <1>5, <1>6, <1>7, <1>8 DEF RingInv

LEMMA RingTake ==
    ASSUME CoreInv, TypeOK', NEW w \in Workers, WorkerTake(w)
    PROVE  RingInv'
<1>1. count > 0
    BY DEF CoreInv, TypeOK, WorkerTake, MustWait
<1>2. TakeHead
    BY DEF WorkerTake, TakeHead
<1> QED  BY <1>1, <1>2, RingTakeHead

\* Writing the tail slot: it is none of the slots in use.
LEMMA RingPut ==
    ASSUME CoreInv, TypeOK', NEW c \in Clients, AddPut(c)
    PROVE  RingInv'
<1>0. TypeOK /\ RingInv
    BY DEF CoreInv
<1>1. /\ count < QueueSize /\ count \in 0 .. QueueSize
      /\ head \in 0 .. QueueSize - 1 /\ tail \in 0 .. QueueSize - 1
      /\ count' = count + 1 /\ head' = head /\ tail' = Advance(tail)
    BY <1>0, QueueSizeAssumption DEF TypeOK, AddPut, QueueFull
<1>2. /\ accepted \in Seq(Tasks) /\ accepted' = Append(accepted, arg[c])
      /\ queue' = [queue EXCEPT ![tail] = arg[c]]
      /\ taken \in Seq(Tasks) /\ taken' = taken
    BY <1>0 DEF TypeOK, AddPut
<1>3. Len(accepted') = Len(accepted) + 1
    BY <1>2
<1>4. Len(accepted') = Len(taken') + count'
    BY <1>0, <1>1, <1>2, <1>3 DEF RingInv
<1>5. \A i \in 1 .. Len(taken') : taken'[i] = accepted'[i]
    BY <1>0, <1>1, <1>2 DEF RingInv
<1>6. tail = IF head + count < QueueSize THEN head + count ELSE head + count - QueueSize
    BY <1>0, <1>1, RingIndex DEF RingInv
<1>7. ASSUME NEW i \in 1 .. count' PROVE queue'[Slot(i)'] = accepted'[Len(taken') + i]
    <2>1. i \in 1 .. QueueSize
        BY <1>1, QueueSizeAssumption
    <2>2. Slot(i)' = Slot(i)
        BY <1>1 DEF Slot
    <2>3. Slot(i) = IF head + i - 1 < QueueSize THEN head + i - 1
                                                ELSE head + i - 1 - QueueSize
        BY <1>0, <2>1, SlotIndex
    <2>4. Slot(i) \in 0 .. QueueSize - 1
        BY <1>1, <2>1, <2>3, QueueSizeAssumption
    <2>5. CASE i <= count
        <3>1. i \in 1 .. count
            BY <2>1, <2>5, <1>1
        <3>2. Slot(i) # tail
            BY <1>1, <1>6, <2>3, <3>1, QueueSizeAssumption
        <3>3. queue'[Slot(i)] = queue[Slot(i)]
            BY <1>0, <1>2, <2>4, <3>2 DEF TypeOK
        <3>4. Len(taken) + i \in 1 .. Len(accepted)
            <4>1. Len(accepted) = Len(taken) + count /\ Len(taken) \in Nat
                BY <1>0, <1>2 DEF RingInv
            <4> QED  BY <4>1, <1>1, <3>1
        <3>5. accepted'[Len(taken) + i] = accepted[Len(taken) + i]
            BY <1>2, <3>4
        <3> QED  BY <1>0, <1>2, <2>2, <3>1, <3>3, <3>5 DEF RingInv
    <2>6. CASE i > count
        <3>1. i = count + 1
            BY <1>1, <2>1, <2>6
        <3>2. Slot(i) = tail
            BY <1>1, <1>6, <2>3, <3>1, QueueSizeAssumption
        <3>3. queue'[tail] = arg[c]
            BY <1>0, <1>1, <1>2 DEF TypeOK
        <3>4. Len(taken') + i = Len(accepted) + 1
            BY <1>0, <1>1, <1>2, <3>1 DEF RingInv
        <3>5. accepted'[Len(accepted) + 1] = arg[c]
            BY <1>2
        <3> QED  BY <2>2, <3>2, <3>3, <3>4, <3>5
    <2> QED  BY <2>1, <2>5, <2>6, <1>1
<1>8. tail' = (head' + count') % QueueSize
    <2>1. tail' = IF tail + 1 < QueueSize THEN tail + 1 ELSE 0
        BY <1>1, AdvanceInRing
    <2>2. head' \in 0 .. QueueSize - 1 /\ count' \in 0 .. QueueSize
        BY DEF TypeOK
    <2>3. (head' + count') % QueueSize = IF head' + count' < QueueSize
                                         THEN head' + count' ELSE head' + count' - QueueSize
        BY <2>2, RingIndex
    <2> QED  BY <1>1, <1>6, <2>1, <2>3, QueueSizeAssumption
<1> QED  BY <1>4, <1>5, <1>7, <1>8 DEF RingInv

LEMMA RingNext == CoreInv /\ [Next]_vars => RingInv'
<1> SUFFICES ASSUME CoreInv, [Next]_vars PROVE RingInv'
    OBVIOUS
<1>1. TypeOK'
    BY TypeNext
<1>2. CASE RingUnchanged
    BY <1>2 DEF RingUnchanged, CoreInv, RingInv, Slot
<1> QED  BY <1>1, <1>2, RingActions, RingTake, RingPut

\* The slot-by-slot invariant says that the ring is the FIFO queue RingIsFifo
\* claims it is.
LEMMA RingFifo == TypeOK /\ RingInv => RingIsFifo
<1> SUFFICES ASSUME TypeOK, RingInv PROVE taken \o Pending = accepted
    BY DEF RingIsFifo
<1>1. /\ taken \in Seq(Tasks) /\ accepted \in Seq(Tasks)
      /\ Len(taken) \in Nat /\ Len(accepted) \in Nat /\ count \in Nat
    BY QueueSizeAssumption DEF TypeOK
<1>2. Len(accepted) = Len(taken) + count
    BY DEF RingInv
<1>3. \A i \in 1 .. count : Pending[i] = accepted[Len(taken) + i]
    BY DEF Pending, RingInv, Slot
<1>4. \A i \in 1 .. count : accepted[Len(taken) + i] \in Tasks
    <2> TAKE i \in 1 .. count
    <2>1. Len(taken) + i \in 1 .. Len(accepted)
        BY <1>1, <1>2
    <2> QED  BY <1>1, <2>1
<1>5. Pending \in Seq(Tasks) /\ Len(Pending) = count
    <2>1. Pending \in [1 .. count -> Tasks]
        BY <1>3, <1>4 DEF Pending
    <2> QED  BY <1>1, <2>1
<1>6. /\ taken \o Pending \in Seq(Tasks)
      /\ Len(taken \o Pending) = Len(taken) + count
      /\ \A i \in 1 .. Len(taken) + count : (taken \o Pending)[i] =
            IF i <= Len(taken) THEN taken[i] ELSE Pending[i - Len(taken)]
    BY <1>1, <1>5, ConcatProperties
<1> DEFINE ring == taken \o Pending
<1> HIDE DEF ring
<1>7. ASSUME NEW i \in 1 .. Len(taken) + count
      PROVE  ring[i] = accepted[i]
    <2>0. ring[i] = IF i <= Len(taken) THEN taken[i] ELSE Pending[i - Len(taken)]
        BY <1>6 DEF ring
    <2>1. CASE i <= Len(taken)
        <3>1. i \in 1 .. Len(taken)
            BY <1>1, <2>1
        <3> QED  BY <2>0, <2>1, <3>1 DEF RingInv
    <2>2. CASE i > Len(taken)
        <3>1. i - Len(taken) \in 1 .. count /\ Len(taken) + (i - Len(taken)) = i
            BY <1>1, <2>2
        <3>2. ring[i] = Pending[i - Len(taken)]
            BY <1>1, <2>0, <2>2
        <3> QED  BY <1>3, <3>1, <3>2
    <2> QED  BY <1>1, <2>1, <2>2
<1> QED  BY <1>1, <1>2, <1>6, <1>7, SeqEqual DEF ring

-----------------------------------------------------------------------------
(* Where a task is: it is accepted once, taken by one worker, run once. *)

Adding(c) == cpc[c] \in {"add", "put"}

\* The actions that neither accept, take nor finish a task start no addition
\* and no execution either.
TasksUnchanged ==
    /\ UNCHANGED <<accepted, taken, done, task, arg>>
    /\ \A w \in Workers : wpc'[w] = "exec" <=> wpc[w] = "exec"
    /\ \A c \in Clients : Adding(c)' => Adding(c)

LEMMA TasksActions ==
    TypeOK /\ [Next]_vars =>
        \/ TasksUnchanged
        \/ \E w \in Workers : WorkerTake(w) \/ WorkerExec(w)
        \/ \E c \in Clients : AddPut(c) \/ \E t \in Tasks : CallAdd(c, t)
BY DEF Next, WorkerStep, WorkerPoolStep, WorkerStatement, ClientStep, Terminated, TasksUnchanged,
       WorkerLock, WorkerWait, SpuriousWakeup, WorkerWake, WorkerExit,
       WorkerCompleted, AddLock, AddFull, DestroyLock, DestroyBroadcast,
       DestroyFree, CallDestroy, TypeOK, Adding

LEMMA TasksInit == Init => TasksInv
BY DEF Init, TasksInv, Occurs

\* A worker takes the next accepted task: nobody has taken it before.
LEMMA TasksTake ==
    ASSUME CoreInv, NEW w \in Workers, WorkerTake(w)
    PROVE  TasksInv'
<1>0. TypeOK /\ RingInv /\ TasksInv
    BY DEF CoreInv
<1>1. count > 0
    BY <1>0 DEF TypeOK, WorkerTake, MustWait
<1> DEFINE q == queue[head]
           n == Len(taken) + 1
<1>2. q = accepted[n] /\ n \in 1 .. Len(accepted) /\ q \in Tasks
    BY <1>1, HeadSlot
<1>3. /\ taken \in Seq(Tasks) /\ taken' = Append(taken, q) /\ Len(taken) \in Nat
      /\ task' = [task EXCEPT ![w] = q] /\ task \in [Workers -> Tasks \cup {NoTask}]
      /\ wpc' = [wpc EXCEPT ![w] = "exec"] /\ wpc \in [Workers -> WorkerPC]
      /\ UNCHANGED <<accepted, done, cpc, arg>>
    BY <1>0 DEF TypeOK, WorkerTake
<1> HIDE DEF q
<1>4. ~Occurs(q, taken)
    <2> SUFFICES ASSUME NEW i \in 1 .. Len(taken), taken[i] = q PROVE FALSE
        BY DEF Occurs
    <2>1. accepted[i] = q
        BY <1>0 DEF RingInv
    <2>2. i \in 1 .. Len(accepted) /\ i # n
        BY <1>2, <1>3
    <2> QED  BY <1>0, <1>2, <2>1, <2>2 DEF TasksInv
<1>5. \A t : Occurs(t, taken) => Occurs(t, taken')
    <2> SUFFICES ASSUME NEW t, NEW i \in 1 .. Len(taken), taken[i] = t PROVE Occurs(t, taken')
        BY DEF Occurs
    <2>1. i \in 1 .. Len(taken') /\ taken'[i] = t
        BY <1>2, <1>3
    <2> QED  BY <2>1 DEF Occurs
<1>6. Occurs(q, taken')
    <2>1. n \in 1 .. Len(taken') /\ taken'[n] = q
        BY <1>2, <1>3
    <2> QED  BY <2>1 DEF Occurs
<1>7. \A v \in Workers : wpc'[v] = "exec" =>
        /\ Occurs(task'[v], taken') /\ task'[v] \notin done'
        /\ \A u \in Workers : u # v /\ wpc'[u] = "exec" => task'[u] # task'[v]
    <2>1. q \notin done
        BY <1>0, <1>4 DEF TasksInv
    <2>2. \A v \in Workers : wpc[v] = "exec" => task[v] # q
        BY <1>0, <1>4 DEF TasksInv
    <2>3. \A v \in Workers : v # w => wpc'[v] = wpc[v] /\ task'[v] = task[v]
        BY <1>3
    <2>4. task'[w] = q
        BY <1>3
    <2> QED  BY <1>0, <1>3, <1>5, <1>6, <2>1, <2>2, <2>3, <2>4 DEF TasksInv
<1>8. \A t \in done' : Occurs(t, taken')
    BY <1>0, <1>3, <1>5 DEF TasksInv
<1> QED  BY <1>0, <1>3, <1>7, <1>8 DEF TasksInv

LEMMA TasksExec ==
    ASSUME TypeOK, TasksInv, NEW w \in Workers, WorkerExec(w)
    PROVE  TasksInv'
<1>0. TypeOK /\ TasksInv
    OBVIOUS
<1>1. /\ wpc[w] = "exec" /\ done' = done \cup {task[w]}
      /\ \A v \in Workers : wpc'[v] = IF v = w THEN "completed" ELSE wpc[v]
      /\ UNCHANGED <<accepted, taken, cpc, arg, task>>
    BY <1>0 DEF TypeOK, WorkerExec
<1>2. \A t : Occurs(t, taken') = Occurs(t, taken)
    BY <1>1 DEF Occurs
<1>3. \A v \in Workers : wpc'[v] = "exec" =>
        /\ Occurs(task'[v], taken') /\ task'[v] \notin done'
        /\ \A u \in Workers : u # v /\ wpc'[u] = "exec" => task'[u] # task'[v]
    BY <1>0, <1>1, <1>2 DEF TasksInv
<1>4. \A t \in done' : Occurs(t, taken')
    BY <1>0, <1>1, <1>2 DEF TasksInv
<1> QED  BY <1>0, <1>1, <1>3, <1>4 DEF TasksInv

\* A client's task is accepted: no other client is adding the same one.
LEMMA TasksPut ==
    ASSUME CoreInv, NEW c \in Clients, AddPut(c)
    PROVE  TasksInv'
<1>0. TypeOK /\ TasksInv /\ LocalsAreTasks
    BY DEF CoreInv
<1>1. /\ cpc[c] = "put" /\ arg[c] \in Tasks
      /\ accepted \in Seq(Tasks) /\ accepted' = Append(accepted, arg[c])
      /\ \A d \in Clients : cpc'[d] = IF d = c THEN "idle" ELSE cpc[d]
      /\ UNCHANGED <<taken, done, wpc, task, arg>>
    BY <1>0 DEF TypeOK, AddPut, LocalsAreTasks
<1>2. /\ Len(accepted) \in Nat /\ Len(accepted') = Len(accepted) + 1
      /\ \A i \in 1 .. Len(accepted) : accepted'[i] = accepted[i]
      /\ accepted'[Len(accepted) + 1] = arg[c]
    BY <1>1
<1>3. \A i \in 1 .. Len(accepted) : accepted[i] # arg[c]
    BY <1>0, <1>1 DEF TasksInv
<1>4. \A i, j \in 1 .. Len(accepted') : accepted'[i] = accepted'[j] => i = j
    <2>1. \A i \in 1 .. Len(accepted') :
            i \in 1 .. Len(accepted) \/ i = Len(accepted) + 1
        BY <1>2
    <2> QED  BY <1>0, <1>2, <1>3, <2>1 DEF TasksInv
<1>5. \A d \in Clients : cpc'[d] \in {"add", "put"} =>
        /\ \A i \in 1 .. Len(accepted') : accepted'[i] # arg'[d]
        /\ \A e \in Clients : e # d /\ cpc'[e] \in {"add", "put"} => arg'[e] # arg'[d]
    <2> SUFFICES ASSUME NEW d \in Clients, cpc'[d] \in {"add", "put"}
                 PROVE  /\ \A i \in 1 .. Len(accepted') : accepted'[i] # arg'[d]
                        /\ \A e \in Clients : e # d /\ cpc'[e] \in {"add", "put"}
                                                => arg'[e] # arg'[d]
        OBVIOUS
    <2>1. d # c /\ cpc[d] \in {"add", "put"}
        BY <1>1
    <2>2. arg[d] # arg[c] /\ \A i \in 1 .. Len(accepted) : accepted[i] # arg[d]
        BY <1>0, <1>1, <2>1 DEF TasksInv
    <2>3. \A i \in 1 .. Len(accepted') :
            i \in 1 .. Len(accepted) \/ i = Len(accepted) + 1
        BY <1>2
    <2>4. \A i \in 1 .. Len(accepted') : accepted'[i] # arg'[d]
        BY <1>1, <1>2, <2>2, <2>3
    <2>5. \A e \in Clients : e # d /\ cpc'[e] \in {"add", "put"} => arg'[e] # arg'[d]
        BY <1>0, <1>1, <2>1 DEF TasksInv
    <2> QED  BY <2>4, <2>5
<1> QED  BY <1>0, <1>1, <1>4, <1>5 DEF TasksInv, Occurs

LEMMA TasksCallAdd ==
    ASSUME CoreInv, NEW c \in Clients, NEW t \in Tasks, CallAdd(c, t)
    PROVE  TasksInv'
<1>0. TypeOK /\ TasksInv
    BY DEF CoreInv
<1>1. /\ \A d \in Clients : /\ cpc'[d] = IF d = c THEN "add" ELSE cpc[d]
                            /\ arg'[d] = IF d = c THEN t ELSE arg[d]
      /\ UNCHANGED <<accepted, taken, done, wpc, task>>
    BY <1>0 DEF TypeOK, CallAdd
<1>2. /\ \A i \in 1 .. Len(accepted) : accepted[i] # t
      /\ \A d \in Clients : cpc[d] \in {"add", "put"} => arg[d] # t
    BY DEF CallAdd
<1> QED  BY <1>0, <1>1, <1>2 DEF TasksInv, Occurs

LEMMA TasksNext == CoreInv /\ [Next]_vars => TasksInv'
<1> SUFFICES ASSUME CoreInv, [Next]_vars PROVE TasksInv'
    OBVIOUS
<1>1. TypeOK /\ TasksInv
    BY DEF CoreInv
<1>2. CASE TasksUnchanged
    <2>1. \A t : Occurs(t, taken') = Occurs(t, taken)
        BY <1>2 DEF TasksUnchanged, Occurs
    <2> QED  BY <1>1, <1>2, <2>1 DEF TasksUnchanged, TasksInv, Adding
<1> QED  BY <1>1, <1>2, TasksActions, TasksTake, TasksExec, TasksPut, TasksCallAdd

LEMMA CoreNext == CoreInv /\ [Next]_vars => CoreInv'
BY TypeNext, LocalsNext, RingNext, TasksNext DEF CoreInv

\* No task is lost between the ring and its function's return.
LEMMA TakenInit == Init => TakenInv
BY DEF Init, TakenInv

LEMMA TakenNext == IndInv /\ [Next]_vars => TakenInv'
<1> SUFFICES ASSUME IndInv, [Next]_vars PROVE TakenInv'
    OBVIOUS
<1>0. TypeOK /\ TakenInv
    BY DEF IndInv
<1>1. CASE TasksUnchanged
    BY <1>0, <1>1 DEF TasksUnchanged, TakenInv
<1>2. ASSUME NEW w \in Workers, WorkerTake(w) PROVE TakenInv'
    <2>1. count > 0
        BY <1>0, <1>2 DEF TypeOK, WorkerTake, MustWait
    <2>2. PICK q \in Tasks : q = queue[head]
        BY <2>1, CoreOfInd, HeadSlot
    <2>3. /\ taken \in Seq(Tasks) /\ taken' = Append(taken, q) /\ done' = done
          /\ wpc[w] = "check" /\ wpc'[w] = "exec" /\ task'[w] = q
          /\ \A v \in Workers : v # w => wpc'[v] = wpc[v] /\ task'[v] = task[v]
        BY <1>0, <1>2, <2>2 DEF TypeOK, WorkerTake
    <2>4. /\ taken'[Len(taken) + 1] = q
          /\ \A k \in 1 .. Len(taken') :
                k = Len(taken) + 1 \/ (k \in 1 .. Len(taken) /\ taken'[k] = taken[k])
        BY <2>3
    <2>5. \A k \in 1 .. Len(taken) :
            taken[k] \in done \/ \E v \in Workers : wpc'[v] = "exec" /\ task'[v] = taken[k]
        BY <1>0, <2>3 DEF TakenInv
    <2> QED  BY <2>3, <2>4, <2>5 DEF TakenInv
<1>3. ASSUME NEW w \in Workers, WorkerExec(w) PROVE TakenInv'
    <2>1. /\ done' = done \cup {task[w]} /\ UNCHANGED <<taken, task>>
          /\ \A v \in Workers : v # w => wpc'[v] = wpc[v]
        BY <1>0, <1>3 DEF TypeOK, WorkerExec
    <2> QED  BY <1>0, <2>1 DEF TakenInv
<1>4. ASSUME NEW c \in Clients, AddPut(c) \/ \E t \in Tasks : CallAdd(c, t) PROVE TakenInv'
    BY <1>0, <1>4 DEF TakenInv, AddPut, CallAdd
<1> QED  BY <1>0, <1>1, <1>2, <1>3, <1>4, TasksActions

-----------------------------------------------------------------------------
(* No wakeup is lost. *)

LEMMA HeadingFinite ==
    /\ IsFiniteSet(HeadingForQueue) /\ IsFiniteSet(HeadingForQueue')
    /\ Cardinality(HeadingForQueue) \in Nat /\ Cardinality(HeadingForQueue') \in Nat
<1>1. HeadingForQueue \in SUBSET Workers /\ HeadingForQueue' \in SUBSET Workers
    BY DEF HeadingForQueue
<1> QED  BY <1>1, WorkersAssumption, FS_Subset, FS_CardinalityType

LEMMA StrandedInit == Init => NoStrandedTask
BY DEF Init, NoStrandedTask

\* A step that adds nothing to the ring, puts nobody to sleep and turns nobody
\* away from the queue.
HeadingKept ==
    /\ count' = count
    /\ notify' \subseteq notify
    /\ HeadingForQueue \subseteq HeadingForQueue'

LEMMA StrandedKept ==
    NoStrandedTask /\ TypeOK /\ HeadingKept => NoStrandedTask'
<1> SUFFICES ASSUME NoStrandedTask, TypeOK, HeadingKept, notify' # {}
             PROVE  count' <= Cardinality(HeadingForQueue')
    BY DEF NoStrandedTask
<1>1. count <= Cardinality(HeadingForQueue)
    BY DEF NoStrandedTask, HeadingKept
<1>2. Cardinality(HeadingForQueue) <= Cardinality(HeadingForQueue')
    BY HeadingFinite, FS_Subset DEF HeadingKept
<1>3. count \in Nat
    BY QueueSizeAssumption DEF TypeOK
<1> QED  BY <1>1, <1>2, <1>3, HeadingFinite DEF HeadingKept

\* The worker that takes a task leaves with it: one task less, one worker less.
LEMMA StrandedTake ==
    ASSUME IndInv, NEW w \in Workers, WorkerTake(w)
    PROVE  NoStrandedTask'
<1>0. TypeOK /\ NoStrandedTask
    BY DEF IndInv
<1>1. wpc[w] = "check" /\ count' = count - 1 /\ notify' = notify /\ count \in Nat
    BY <1>0, QueueSizeAssumption DEF TypeOK, WorkerTake
<1>2. \A v \in Workers : wpc'[v] = IF v = w THEN "exec" ELSE wpc[v]
    BY <1>0 DEF TypeOK, WorkerTake
<1>3. HeadingForQueue' = HeadingForQueue \ {w} /\ w \in HeadingForQueue
    BY <1>1, <1>2 DEF HeadingForQueue
<1>4. Cardinality(HeadingForQueue') = Cardinality(HeadingForQueue) - 1
    BY <1>3, HeadingFinite, FS_RemoveElement
<1> QED  BY <1>0, <1>1, <1>4, HeadingFinite DEF NoStrandedTask

\* One task more; if anyone sleeps the signal turns one sleeper towards it.
LEMMA StrandedPut ==
    ASSUME IndInv, NEW c \in Clients, AddPut(c)
    PROVE  NoStrandedTask'
<1>0. TypeOK /\ NoStrandedTask /\ SleepersWait
    BY DEF IndInv
<1>1. count' = count + 1 /\ wpc' = wpc /\ count \in Nat /\ Signal
    BY <1>0, QueueSizeAssumption DEF TypeOK, AddPut
<1>2. CASE notify = {} /\ UNCHANGED notify
    BY <1>2 DEF NoStrandedTask
<1>3. CASE \E w \in notify : notify' = notify \ {w}
    <2>1. PICK w \in notify : notify' = notify \ {w}
        BY <1>3
    <2>2. w \in Workers /\ wpc[w] = "wait"
        BY <1>0 DEF TypeOK, SleepersWait
    <2>3. HeadingForQueue' = HeadingForQueue \cup {w} /\ w \notin HeadingForQueue
        BY <1>1, <2>1, <2>2 DEF HeadingForQueue
    <2>4. Cardinality(HeadingForQueue') = Cardinality(HeadingForQueue) + 1
        BY <2>3, HeadingFinite, FS_AddElement
    <2>5. count <= Cardinality(HeadingForQueue)
        BY <1>0, <2>1 DEF NoStrandedTask
    <2> QED  BY <1>1, <2>4, <2>5, HeadingFinite DEF NoStrandedTask
<1> QED  BY <1>1, <1>2, <1>3 DEF Signal

LEMMA StrandedNext == IndInv /\ [Next]_vars => NoStrandedTask'
<1> SUFFICES ASSUME IndInv, [Next]_vars PROVE NoStrandedTask'
    OBVIOUS
<1>0. TypeOK /\ NoStrandedTask /\ SleepersWait /\ NoSleeperAfterShutdown /\ LockDiscipline
    BY DEF IndInv
<1> USE DEF TypeOK, HeadingKept, HeadingForQueue
<1>1. ASSUME NEW w \in Workers, WorkerLock(w) PROVE HeadingKept
    BY <1>0, <1>1 DEF WorkerLock
\* Going to sleep is safe because the ring was empty under the lock.
<1>2. ASSUME NEW w \in Workers, WorkerWait(w) PROVE NoStrandedTask'
    <2>1. count' = 0
        BY <1>2 DEF WorkerWait, MustWait
    <2> HIDE DEF HeadingForQueue
    <2> QED  BY <2>1, HeadingFinite DEF NoStrandedTask
<1>3. ASSUME NEW w \in Workers, SpuriousWakeup(w) PROVE HeadingKept
    BY <1>0, <1>3 DEF SpuriousWakeup, threadVars
<1>4. ASSUME NEW w \in Workers, WorkerWake(w) PROVE HeadingKept
    BY <1>0, <1>4 DEF WorkerWake
\* A worker exits only when nobody sleeps any more.
<1>5. ASSUME NEW w \in Workers, WorkerExit(w) PROVE NoStrandedTask'
    <2>1. notify' = {}
        BY <1>0, <1>5 DEF WorkerExit, NoSleeperAfterShutdown
    <2> QED  BY <2>1 DEF NoStrandedTask
<1>6. ASSUME NEW w \in Workers, WorkerExec(w) PROVE HeadingKept
    BY <1>0, <1>6 DEF WorkerExec
<1>7. ASSUME NEW w \in Workers, WorkerCompleted(w) PROVE HeadingKept
    BY <1>0, <1>7 DEF WorkerCompleted
<1>8. ASSUME NEW c \in Clients, ClientStep(c), ~AddPut(c) PROVE HeadingKept
    BY <1>0, <1>8 DEF ClientStep, AddLock, AddFull, DestroyLock, DestroyBroadcast,
                      Broadcast, DestroyFree
<1>9. ASSUME NEW c \in Clients, NEW t \in Tasks, CallAdd(c, t) PROVE HeadingKept
    BY <1>0, <1>9 DEF CallAdd
<1>10. ASSUME NEW c \in Clients, CallDestroy(c) PROVE HeadingKept
    BY <1>0, <1>10 DEF CallDestroy
<1>11. ASSUME UNCHANGED vars PROVE HeadingKept
    BY <1>0, <1>11
<1> HIDE DEF TypeOK, HeadingKept, HeadingForQueue
<1>12. HeadingKept => NoStrandedTask'
    BY <1>0, StrandedKept
<1> QED
    BY <1>1, <1>2, <1>3, <1>4, <1>5, <1>6, <1>7, <1>8, <1>9, <1>10, <1>11, <1>12,
       StrandedTake, StrandedPut
       DEF Next, WorkerStep, WorkerPoolStep, WorkerStatement, Terminated

-----------------------------------------------------------------------------
(* The atomic counter. *)

Counting == {w \in Workers : wpc[w] = "completed"}

LEMMA CountingFinite ==
    /\ IsFiniteSet(Counting) /\ Cardinality(Counting) \in Nat
<1>1. Counting \in SUBSET Workers
    BY DEF Counting
<1> QED  BY <1>1, WorkersAssumption, FS_Subset, FS_CardinalityType

LEMMA CounterInit == Init => IsFiniteSet(done) /\ CompletedCounter
<1> SUFFICES ASSUME Init PROVE IsFiniteSet(done) /\ CompletedCounter
    OBVIOUS
<1>1. {w \in Workers : wpc[w] = "completed"} = {}
    BY DEF Init
<1>2. IsFiniteSet(done) /\ Cardinality(done) = 0 /\ task_completed = 0
    BY FS_EmptySet DEF Init, AtomicInit
<1> QED  BY <1>1, <1>2, FS_EmptySet DEF CompletedCounter

CounterUnchanged ==
    UNCHANGED <<task_completed, done>> /\ Counting' = Counting

LEMMA CounterActions ==
    TypeOK /\ [Next]_vars =>
        \/ CounterUnchanged
        \/ \E w \in Workers : WorkerExec(w) \/ WorkerCompleted(w)
BY DEF Next, WorkerStep, WorkerPoolStep, WorkerStatement, ClientStep, Terminated, CounterUnchanged,
       WorkerLock, WorkerWait, SpuriousWakeup, WorkerWake, WorkerExit, WorkerTake,
       AddLock, AddFull, AddPut, DestroyLock, DestroyBroadcast,
       DestroyFree, CallAdd, CallDestroy, TypeOK, Counting

LEMMA CounterNext ==
    IndInv /\ IsFiniteSet(done) /\ [Next]_vars => IsFiniteSet(done') /\ CompletedCounter'
<1> SUFFICES ASSUME IndInv, IsFiniteSet(done), [Next]_vars
             PROVE  IsFiniteSet(done') /\ CompletedCounter'
    OBVIOUS
<1>0. /\ TypeOK /\ TasksInv /\ task_completed \in Nat /\ Cardinality(done) \in Nat
      /\ task_completed + Cardinality(Counting) = Cardinality(done)
    BY FS_CardinalityType DEF IndInv, TypeOK, CompletedCounter, Counting
<1>1. CASE CounterUnchanged
    BY <1>0, <1>1 DEF CounterUnchanged, CompletedCounter, Counting
<1>2. ASSUME NEW w \in Workers, WorkerExec(w)
      PROVE  IsFiniteSet(done') /\ CompletedCounter'
    <2>1. /\ wpc[w] = "exec" /\ done' = done \cup {task[w]} /\ task[w] \notin done
          /\ task_completed' = task_completed
          /\ \A v \in Workers : wpc'[v] = IF v = w THEN "completed" ELSE wpc[v]
        BY <1>0, <1>2 DEF WorkerExec, TypeOK, TasksInv
    <2>2. Counting' = Counting \cup {w} /\ w \notin Counting
        BY <2>1 DEF Counting
    <2>3. Cardinality(Counting') = Cardinality(Counting) + 1
        BY <2>2, CountingFinite, FS_AddElement
    <2>4. IsFiniteSet(done') /\ Cardinality(done') = Cardinality(done) + 1
        BY <2>1, FS_AddElement
    <2>5. task_completed' + Cardinality(Counting') = Cardinality(done')
        BY <1>0, <2>1, <2>3, <2>4, CountingFinite
    <2> QED  BY <2>4, <2>5 DEF CompletedCounter, Counting
<1>3. ASSUME NEW w \in Workers, WorkerCompleted(w)
      PROVE  IsFiniteSet(done') /\ CompletedCounter'
    <2>1. /\ wpc[w] = "completed" /\ done' = done
          /\ task_completed' = task_completed + 1
          /\ \A v \in Workers : wpc'[v] = IF v = w THEN "lock" ELSE wpc[v]
        BY <1>0, <1>3 DEF WorkerCompleted, TypeOK
    <2>2. Counting' = Counting \ {w} /\ w \in Counting
        BY <2>1 DEF Counting
    <2>3. Cardinality(Counting') = Cardinality(Counting) - 1
        BY <2>2, CountingFinite, FS_RemoveElement
    <2>4. task_completed' + Cardinality(Counting') = Cardinality(done')
        BY <1>0, <2>1, <2>3, CountingFinite
    <2> QED  BY <2>1, <2>4 DEF CompletedCounter, Counting
<1> QED  BY <1>0, <1>1, <1>2, <1>3, CounterActions

-----------------------------------------------------------------------------
(* The theorems. *)

FiniteDone == IsFiniteSet(done)

LEMMA IndInit == Init => IndInv /\ FiniteDone
BY TypeInit, LockInit, LocalsInit, DestroyInit, RingInit, TasksInit, TakenInit, StrandedInit,
   CounterInit DEF IndInv, FiniteDone

LEMMA IndNext == IndInv /\ FiniteDone /\ [Next]_vars => IndInv' /\ FiniteDone'
BY CoreNext, LockNext, SleepersNext, DestroyNext, NoSleeperNext, TakenNext, StrandedNext,
   CounterNext DEF IndInv, CoreInv, FiniteDone

\* IndInv holds in every reachable state of the pool.
THEOREM Inductive == Spec => []IndInv
<1>1. Spec => [](IndInv /\ FiniteDone)
    BY IndInit, IndNext, PTL DEF Spec
<1> QED  BY <1>1, PTL

\* Every variable keeps the type thread_pool.h gives it; in particular head and
\* tail stay inside the array and count between 0 and queue_size.
THEOREM TypeCorrect == Spec => []TypeOK
<1>1. IndInv => TypeOK
    BY DEF IndInv
<1> QED  BY <1>1, Inductive, PTL

\* The mutex protects the pool: a thread is in a critical section of worker, add
\* or destroy exactly when it owns the lock.
THEOREM MutualExclusion == Spec => []LockDiscipline
<1>1. IndInv => LockDiscipline
    BY DEF IndInv
<1> QED  BY <1>1, Inductive, PTL

\* The ring is a FIFO queue for every size, through every wrap of the indices.
THEOREM FifoRing == Spec => []RingIsFifo
<1>1. IndInv => RingIsFifo
    BY RingFifo DEF IndInv
<1> QED  BY <1>1, Inductive, PTL

\* No wakeup is lost, whatever the number of workers.
THEOREM NoLostWakeup == Spec => []NoStrandedTask
<1>1. IndInv => NoStrandedTask
    BY DEF IndInv
<1> QED  BY <1>1, Inductive, PTL

\* No worker sleeps through the shutdown, so the join can end.
THEOREM ShutdownWakesAll == Spec => []NoSleeperAfterShutdown
<1>1. IndInv => NoSleeperAfterShutdown
    BY DEF IndInv
<1> QED  BY <1>1, Inductive, PTL

\* The counter main polls counts finished tasks.
THEOREM CounterExact == Spec => []CompletedCounter
<1>1. IndInv => CompletedCounter
    BY DEF IndInv
<1> QED  BY <1>1, Inductive, PTL

\* thread_pool_destroy frees the pool after its last use.
THEOREM FreedAfterLastUse == Spec => []NoUseAfterFree
<1>1. IndInv => NoUseAfterFree
    <2> SUFFICES ASSUME IndInv, freed PROVE
                 /\ \A w \in Workers : wpc[w] = "exited"
                 /\ \A c \in Clients : cpc[c] \in {"idle", "returned"}
                 /\ lock = Nobody /\ notify = {}
        BY DEF NoUseAfterFree
    <2>0. TypeOK /\ LockDiscipline /\ SleepersWait /\ DestroyInv
        BY DEF IndInv
    <2>1. \A w \in Workers : wpc[w] = "exited"
        BY <2>0 DEF DestroyInv
    <2>2. \A c \in Clients : cpc[c] \in {"idle", "returned"}
        BY <2>0 DEF DestroyInv
    <2>3. lock = Nobody
        BY <2>0, <2>1, <2>2 DEF TypeOK, LockDiscipline, Holds, Threads
    <2>4. notify = {}
        BY <2>0, <2>1 DEF SleepersWait, TypeOK
    <2> QED  BY <2>1, <2>2, <2>3, <2>4
<1> QED  BY <1>1, Inductive, PTL

-----------------------------------------------------------------------------
(* The pool implements TaskPool: Init maps to an initial state, and in a    *)
(* state of IndInv every step maps to one of TaskPool or to none.           *)

AbstractUnchanged == UNCHANGED <<Pending, Running, done, shutdown, freed>>

\* The ring holds what was accepted and not taken.
PendingIsRest ==
    /\ Pending \in Seq(Tasks) /\ Len(Pending) = count
    /\ \A i \in 1 .. count : Pending[i] = accepted[Len(taken) + i]

LEMMA PendingAccepted == TypeOK /\ RingInv => PendingIsRest
<1> SUFFICES ASSUME TypeOK, RingInv PROVE PendingIsRest
    OBVIOUS
<1>1. /\ taken \in Seq(Tasks) /\ accepted \in Seq(Tasks)
      /\ Len(taken) \in Nat /\ Len(accepted) \in Nat /\ count \in Nat
    BY QueueSizeAssumption DEF TypeOK
<1>2. Len(accepted) = Len(taken) + count
    BY DEF RingInv
<1>3. \A i \in 1 .. count : Pending[i] = accepted[Len(taken) + i]
    BY DEF Pending, RingInv, Slot
<1>4. \A i \in 1 .. count : accepted[Len(taken) + i] \in Tasks
    <2> TAKE i \in 1 .. count
    <2>1. Len(taken) + i \in 1 .. Len(accepted)
        BY <1>1, <1>2
    <2> QED  BY <1>1, <2>1
<1>5. Pending \in [1 .. count -> Tasks]
    BY <1>3, <1>4 DEF Pending
<1> QED  BY <1>1, <1>3, <1>5 DEF PendingIsRest

\* Pending, running and finished tasks are tasks that were accepted.
LEMMA KnownAccepted ==
    ASSUME IndInv, NEW t \in Abstract!Known
    PROVE  Occurs(t, accepted)
<1>0. TypeOK /\ RingInv /\ TasksInv
    BY DEF IndInv
<1>1. Len(taken) \in Nat /\ count \in Nat /\ Len(accepted) = Len(taken) + count
    BY <1>0, QueueSizeAssumption DEF TypeOK, RingInv
<1>2. Occurs(t, taken) => Occurs(t, accepted)
    BY <1>0, <1>1 DEF Occurs, RingInv
<1>3. CASE t \in {Pending[i] : i \in 1 .. Len(Pending)}
    <2>1. PICK i \in 1 .. count : t = accepted[Len(taken) + i]
        BY <1>0, <1>3, PendingAccepted DEF PendingIsRest
    <2>2. Len(taken) + i \in 1 .. Len(accepted)
        BY <1>1
    <2> QED  BY <2>1, <2>2 DEF Occurs
<1>4. CASE t \in Running
    BY <1>0, <1>2, <1>4 DEF Running, TasksInv
<1>5. CASE t \in done
    BY <1>0, <1>2, <1>5 DEF TasksInv
<1> QED  BY <1>3, <1>4, <1>5 DEF Abstract!Known

\* While a worker is not running a task, fewer tasks run than there are workers.
LEMMA RoomToRun ==
    ASSUME TypeOK, NEW w \in Workers, wpc[w] # "exec"
    PROVE  Cardinality(Running) < Cardinality(Workers)
<1> DEFINE busy == {v \in Workers : wpc[v] = "exec"}
           f == [v \in busy |-> task[v]]
<1>1. IsFiniteSet(Workers \ {w}) /\ Cardinality(Workers \ {w}) = Cardinality(Workers) - 1
    BY WorkersAssumption, FS_RemoveElement
<1>2. IsFiniteSet(busy) /\ Cardinality(busy) <= Cardinality(Workers \ {w})
    <2>1. busy \in SUBSET (Workers \ {w})
        OBVIOUS
    <2> HIDE DEF busy
    <2> QED  BY <1>1, <2>1, FS_Subset
<1>3. f \in Surjection(busy, Running)
    BY Fun_IsSurj DEF Running
<1>4. IsFiniteSet(Running) /\ Cardinality(Running) <= Cardinality(busy)
    <2> HIDE DEF f, busy
    <2> QED  BY <1>2, <1>3, FS_Surjection
<1>5. /\ Cardinality(Workers) \in Nat /\ Cardinality(busy) \in Nat
      /\ Cardinality(Running) \in Nat
    BY <1>2, <1>4, WorkersAssumption, FS_CardinalityType
<1> HIDE DEF busy
<1> QED  BY <1>1, <1>2, <1>4, <1>5

-----------------------------------------------------------------------------
(* Every step. *)

\* The actions that only move a thread or the lock, or wake a sleeper.
LEMMA StutterSteps ==
    TypeOK /\ [Next]_vars =>
        \/ AbstractUnchanged
        \/ \E w \in Workers : WorkerTake(w) \/ WorkerExec(w)
        \/ \E c \in Clients : AddPut(c) \/ DestroyBroadcast(c) \/ DestroyFree(c)
<1> SUFFICES ASSUME TypeOK, [Next]_vars,
                    ~ \E w \in Workers : WorkerTake(w) \/ WorkerExec(w),
                    ~ \E c \in Clients : AddPut(c) \/ DestroyBroadcast(c) \/ DestroyFree(c)
             PROVE  AbstractUnchanged
    OBVIOUS
<1>1. UNCHANGED <<queue, head, count, task, done, shutdown, freed>>
    BY DEF Next, WorkerStep, WorkerPoolStep, WorkerStatement, ClientStep, Terminated,
           WorkerLock, WorkerWait, SpuriousWakeup, WorkerWake, WorkerExit,
           WorkerCompleted, AddLock, AddFull, DestroyLock, CallAdd, CallDestroy
<1>2. \A v \in Workers : wpc'[v] = "exec" <=> wpc[v] = "exec"
    BY DEF TypeOK, Next, WorkerStep, WorkerPoolStep, WorkerStatement, ClientStep, Terminated,
           WorkerLock, WorkerWait, SpuriousWakeup, WorkerWake, WorkerExit,
           WorkerCompleted, AddLock, AddFull, DestroyLock, CallAdd, CallDestroy
<1> QED  BY <1>1, <1>2 DEF AbstractUnchanged, Pending, Running

\* A worker that takes a task starts the oldest one.
LEMMA TakeStarts ==
    ASSUME IndInv, PendingIsRest, PendingIsRest', NEW w \in Workers, WorkerTake(w)
    PROVE  Abstract!Start
<1>0. TypeOK /\ RingInv
    BY DEF IndInv
<1>1. /\ ~shutdown /\ count # 0 /\ count \in Nat /\ count' = count - 1
      /\ accepted' = accepted /\ taken' = Append(taken, queue[head])
      /\ wpc[w] # "exec" /\ wpc' = [wpc EXCEPT ![w] = "exec"]
      /\ task' = [task EXCEPT ![w] = queue[head]]
    BY <1>0, QueueSizeAssumption DEF WorkerTake, MustWait, TypeOK
<1>2. queue[head] = Head(Pending)
    <2>1. queue[head] = accepted[Len(taken) + 1] /\ 1 \in 1 .. count
        BY <1>1, CoreOfInd, HeadSlot
    <2> QED  BY <1>1, <2>1 DEF PendingIsRest
<1>3. Pending' = Tail(Pending)
    <2>1. /\ Len(taken) \in Nat /\ Len(taken') = Len(taken) + 1
          /\ Tail(Pending) \in Seq(Tasks) /\ Len(Tail(Pending)) = count'
          /\ \A i \in 1 .. count' : Tail(Pending)[i] = Pending[i + 1]
        BY <1>0, <1>1 DEF TypeOK, PendingIsRest
    <2>2. ASSUME NEW i \in 1 .. count'
          PROVE  Pending'[i] = Pending[i + 1]
        <3>1. Pending'[i] = accepted[Len(taken') + i]
            BY <1>1 DEF PendingIsRest
        <3>2. i + 1 \in 1 .. count /\ Len(taken') + i = Len(taken) + (i + 1)
            BY <1>1, <2>1
        <3> QED  BY <3>1, <3>2 DEF PendingIsRest
    <2> QED  BY <2>1, <2>2, SeqEqual DEF PendingIsRest
<1>4. Running' = Running \cup {Head(Pending)}
    <2>1. \A v \in Workers : wpc'[v] = "exec" <=> wpc[v] = "exec" \/ v = w
        BY <1>0, <1>1 DEF TypeOK
    <2>2. \A v \in Workers : task'[v] = IF v = w THEN Head(Pending) ELSE task[v]
        BY <1>0, <1>1, <1>2 DEF TypeOK
    <2> QED  BY <1>1, <2>1, <2>2 DEF Running
<1>5. Cardinality(Running) < Cardinality(Workers)
    BY <1>0, <1>1, RoomToRun
<1>6. Pending # <<>> /\ UNCHANGED <<done, shutdown, freed>>
    BY <1>1 DEF PendingIsRest, WorkerTake
<1> QED  BY <1>1, <1>3, <1>4, <1>5, <1>6 DEF Abstract!Start, Abstract!Cardinality, Cardinality

\* A worker whose task returns finishes it: nobody else runs the same task.
LEMMA ExecFinishes ==
    ASSUME IndInv, NEW w \in Workers, WorkerExec(w)
    PROVE  /\ task[w] \in Tasks
           /\ Abstract!Finish(task[w])
<1>0. TypeOK /\ TasksInv /\ LocalsAreTasks
    BY DEF IndInv
<1>1. /\ wpc[w] = "exec" /\ wpc' = [wpc EXCEPT ![w] = "completed"] /\ task' = task
      /\ done' = done \cup {task[w]} /\ UNCHANGED <<queue, head, count, shutdown, freed>>
    BY DEF WorkerExec
<1>2. task[w] \in Running
    BY <1>1 DEF Running
<1>3. Running' = Running \ {task[w]}
    <2>1. \A v \in Workers : wpc'[v] = "exec" <=> wpc[v] = "exec" /\ v # w
        BY <1>0, <1>1 DEF TypeOK
    <2>2. \A v \in Workers : wpc[v] = "exec" /\ v # w => task[v] # task[w]
        BY <1>0, <1>1 DEF TasksInv
    <2> QED  BY <1>1, <2>1, <2>2 DEF Running
<1>4. Pending' = Pending
    BY <1>1 DEF Pending
<1> QED  BY <1>0, <1>1, <1>2, <1>3, <1>4 DEF Abstract!Finish, LocalsAreTasks

\* A client that finds room submits a new task.
LEMMA PutSubmits ==
    ASSUME IndInv, PendingIsRest, PendingIsRest', NEW c \in Clients, AddPut(c)
    PROVE  /\ arg[c] \in Tasks
           /\ Abstract!Submit(arg[c])
<1>0. TypeOK /\ RingInv /\ TasksInv /\ LocalsAreTasks /\ DestroyInv
    BY DEF IndInv
<1>1. /\ cpc[c] = "put" /\ count \in 0 .. QueueSize /\ count # QueueSize
      /\ count' = count + 1 /\ accepted' = Append(accepted, arg[c]) /\ taken' = taken
      /\ UNCHANGED <<wpc, task, done, shutdown, freed>>
    BY <1>0 DEF AddPut, QueueFull, TypeOK
<1>2. arg[c] \in Tasks
    BY <1>0, <1>1 DEF LocalsAreTasks
<1>3. ~shutdown
    BY <1>0, <1>1 DEF DestroyInv
<1>4. arg[c] \notin Abstract!Known
    <2>1. ~Occurs(arg[c], accepted)
        BY <1>0, <1>1 DEF TasksInv, Occurs
    <2> QED  BY <2>1, KnownAccepted
<1>5. Len(Pending) < QueueSize
    BY <1>1, QueueSizeAssumption DEF PendingIsRest
<1>6. Pending' = Append(Pending, arg[c])
    <2>1. /\ Len(taken) \in Nat /\ Len(accepted) = Len(taken) + count
          /\ accepted \in Seq(Tasks)
        BY <1>0 DEF TypeOK, RingInv
    <2>2. /\ Append(Pending, arg[c]) \in Seq(Tasks)
          /\ Len(Append(Pending, arg[c])) = count'
          /\ \A i \in 1 .. count' :
                Append(Pending, arg[c])[i] = IF i <= count THEN Pending[i] ELSE arg[c]
        BY <1>1, <1>2, AppendProperties DEF PendingIsRest
    <2>3. \A i \in 1 .. Len(accepted) + 1 :
            accepted'[i] = IF i <= Len(accepted) THEN accepted[i] ELSE arg[c]
        BY <1>1, <1>2, <2>1, AppendProperties
    <2>4. ASSUME NEW i \in 1 .. count'
          PROVE  Pending'[i] = Append(Pending, arg[c])[i]
        <3>1. Len(taken) + i \in 1 .. Len(accepted) + 1
            BY <1>1, <2>1
        <3>2. Pending'[i] = accepted'[Len(taken) + i]
            BY <1>1 DEF PendingIsRest
        <3>3. Len(taken) + i <= Len(accepted) <=> i <= count
            BY <1>1, <2>1
        <3>4. i <= count => i \in 1 .. count
            BY <1>1
        <3> QED  BY <2>2, <2>3, <3>1, <3>2, <3>3, <3>4 DEF PendingIsRest
    <2> QED  BY <2>2, <2>4, SeqEqual DEF PendingIsRest
<1>7. Running' = Running
    BY <1>1 DEF Running
<1> QED  BY <1>1, <1>2, <1>3, <1>4, <1>5, <1>6, <1>7 DEF Abstract!Submit

\* Setting the flag closes the pool; it is set once.
LEMMA BroadcastCloses ==
    ASSUME IndInv, NEW c \in Clients, DestroyBroadcast(c)
    PROVE  Abstract!Close
BY DEF IndInv, DestroyInv, DestroyBroadcast, Abstract!Close, Pending, Running

\* The free releases the pool, once, when every worker has exited.
LEMMA FreeReleases ==
    ASSUME IndInv, NEW c \in Clients, DestroyFree(c)
    PROVE  Abstract!Release
<1>1. shutdown /\ ~freed
    BY DEF IndInv, DestroyInv, DestroyFree
<1>2. Running = {}
    BY DEF DestroyFree, JoinedAll, Running
<1> QED  BY <1>1, <1>2 DEF DestroyFree, Abstract!Release, Pending, Running

LEMMA AbstractInit == Init => Abstract!Init
BY DEF Init, Abstract!Init, Pending, Running

LEMMA AbstractNext ==
    IndInv /\ PendingIsRest /\ PendingIsRest' /\ [Next]_vars
        => [Abstract!Next]_(Abstract!vars)
<1> SUFFICES ASSUME IndInv, PendingIsRest, PendingIsRest', [Next]_vars
             PROVE  [Abstract!Next]_(Abstract!vars)
    OBVIOUS
<1>1. CASE AbstractUnchanged
    BY <1>1 DEF AbstractUnchanged, Abstract!vars
<1>2. CASE \E w \in Workers : WorkerTake(w)
    BY <1>2, TakeStarts DEF Abstract!Next
<1>3. CASE \E w \in Workers : WorkerExec(w)
    BY <1>3, ExecFinishes DEF Abstract!Next
<1>4. CASE \E c \in Clients : AddPut(c)
    BY <1>4, PutSubmits DEF Abstract!Next
<1>5. CASE \E c \in Clients : DestroyBroadcast(c)
    BY <1>5, BroadcastCloses DEF Abstract!Next
<1>6. CASE \E c \in Clients : DestroyFree(c)
    BY <1>6, FreeReleases DEF Abstract!Next
<1> QED  BY <1>1, <1>2, <1>3, <1>4, <1>5, <1>6, StutterSteps DEF IndInv

\* Every behaviour of the pool of Chapter 10 is one TaskPool allows: tasks start
\* in the order of acceptance, once each, never beyond the ring's capacity or
\* after the flag is set, and the memory goes when nothing runs.
THEOREM Implements == Spec => ImplementsTaskPool
<1>1. IndInv => PendingIsRest
    BY PendingAccepted DEF IndInv
<1> QED  BY <1>1, AbstractInit, AbstractNext, Inductive, PTL
         DEF Spec, ImplementsTaskPool, Abstract!Spec
=============================================================================
