-------------------------- MODULE EarlyPool_proofs --------------------------
(***************************************************************************)
(* Proofs about EarlyPool, for any number of workers and tasks and any     *)
(* ring.  Chapter 4 frees the pool under its workers, and in chapter 3     *)
(* main runs the tasks itself and nobody counts them, so IndInv of the     *)
(* pool does not hold; CoreInv, which says what is in the ring and who     *)
(* runs what, does.  EInv relates the argument blocks to it.               *)
(***************************************************************************)
EXTENDS EarlyPool, ThreadPool_proofs

USE DEF vars, poolVars, threadVars, historyVars

-----------------------------------------------------------------------------
(* The inductive invariant *)

ETypeOK ==
    /\ chapter \in {3, 4}
    /\ mpc \in {"loop", "destroyed", "end"}
    /\ i \in Nat
    /\ live \in SUBSET Tasks

\* Main is outside the pool when it destroys it, and the ring is empty then
\* where nobody else could empty it.
MainInv ==
    /\ cpc[Main] \in {"idle", "add", "put"}
    /\ mpc # "loop" => cpc[Main] = "idle"
    /\ freed => mpc # "loop" /\ Drained

\* Without workers a task that was taken has run.
NoWorkersInv ==
    chapter = 3 =>
        /\ \A w \in Workers : wpc[w] = "lock"
        /\ \A k \in 1 .. Len(taken) : taken[k] \in done

EInv ==
    /\ CoreInv
    /\ ETypeOK
    /\ MainInv
    /\ NoWorkersInv
    /\ ArgsOwned

-----------------------------------------------------------------------------
(* Who needs the arguments of a task. *)

\* In terms of the accepted tasks, which are all different.
Waiting(t) == \E k \in 1 .. count : accepted[Len(taken) + k] = t
RunBy(t) == \E w \in Workers : wpc[w] = "exec" /\ task[w] = t
AddedBy(t) == cpc[Main] \in {"add", "put"} /\ arg[Main] = t
Needed(t) == Waiting(t) \/ RunBy(t) \/ AddedBy(t)

OwnedAsNeeded == \A t : t \in live <=> Needed(t)

LEMMA PendingWaits ==
    ASSUME TypeOK, RingInv
    PROVE  {Pending[k] : k \in 1 .. count} = {accepted[Len(taken) + k] : k \in 1 .. count}
BY PendingAccepted DEF PendingIsRest

LEMMA ArgsNeeded ==
    ASSUME TypeOK, RingInv
    PROVE  ArgsOwned <=> OwnedAsNeeded
<1> DEFINE W == {accepted[Len(taken) + k] : k \in 1 .. count}
           R == {task[w] : w \in {v \in Workers : wpc[v] = "exec"}}
           A == {arg[c] : c \in {d \in Clients : cpc[d] \in {"add", "put"}}}
<1>1. {Pending[k] : k \in 1 .. count} = W
    BY PendingWaits
<1>2. \A t : t \in W <=> Waiting(t)
    BY DEF Waiting
<1>3. \A t : t \in R <=> RunBy(t)
    BY DEF RunBy
<1>4. \A t : t \in A <=> AddedBy(t)
    BY MainAssumption DEF AddedBy
<1>5. ArgsOwned <=> live = W \cup R \cup A
    BY <1>1, Zenon DEF ArgsOwned
<1> HIDE DEF W, R, A
<1> QED  BY <1>2, <1>3, <1>4, <1>5 DEF Needed, OwnedAsNeeded

\* A task in the ring is nobody's yet.
LEMMA WaitingIsNobodys ==
    ASSUME CoreInv, NEW t, Waiting(t)
    PROVE  ~RunBy(t) /\ ~AddedBy(t) /\ t \notin done
<1>1. /\ Len(taken) \in Nat /\ count \in Nat /\ Len(accepted) = Len(taken) + count
      /\ \A k \in 1 .. Len(taken) : taken[k] = accepted[k]
    BY QueueSizeAssumption DEF CoreInv, TypeOK, RingInv
<1>2. PICK k \in 1 .. count : accepted[Len(taken) + k] = t
    BY DEF Waiting
<1>3. Len(taken) + k \in 1 .. Len(accepted)
    BY <1>1
<1>4. ~Occurs(t, taken)
    <2> SUFFICES ASSUME NEW j \in 1 .. Len(taken), taken[j] = t PROVE FALSE
        BY DEF Occurs
    <2>1. accepted[j] = accepted[Len(taken) + k] /\ j \in 1 .. Len(accepted)
          /\ j # Len(taken) + k
        BY <1>1, <1>2
    <2> QED  BY <1>3, <2>1 DEF CoreInv, TasksInv
<1>5. ~AddedBy(t)
    BY <1>2, <1>3, MainAssumption DEF CoreInv, TasksInv, AddedBy
<1> QED  BY <1>4, <1>5 DEF CoreInv, TasksInv, RunBy

\* A task that is being added has not been accepted.
LEMMA AddedIsNew ==
    ASSUME CoreInv, cpc[Main] \in {"add", "put"}
    PROVE  ~Waiting(arg[Main]) /\ ~RunBy(arg[Main])
<1>1. /\ Len(taken) \in Nat /\ count \in Nat /\ Len(accepted) = Len(taken) + count
      /\ \A k \in 1 .. Len(taken) : taken[k] = accepted[k]
    BY QueueSizeAssumption DEF CoreInv, TypeOK, RingInv
<1>2. \A k \in 1 .. Len(accepted) : accepted[k] # arg[Main]
    BY MainAssumption DEF CoreInv, TasksInv
<1>3. ~Waiting(arg[Main])
    BY <1>1, <1>2 DEF Waiting
<1>4. ~Occurs(arg[Main], taken)
    BY <1>1, <1>2 DEF Occurs
<1> QED  BY <1>3, <1>4 DEF CoreInv, TasksInv, RunBy

\* Taking the head of the ring.
LEMMA HeadWaits ==
    ASSUME CoreInv, CoreInv', count > 0, TakeHead
    PROVE  /\ queue[head] \in Tasks /\ Waiting(queue[head])
           /\ \A t : Waiting(t)' <=> Waiting(t) /\ t # queue[head]
<1>1. /\ Len(taken) \in Nat /\ count \in Nat /\ Len(accepted) = Len(taken) + count
      /\ taken \in Seq(Tasks)
    BY QueueSizeAssumption DEF CoreInv, TypeOK, RingInv
<1>2. queue[head] = accepted[Len(taken) + 1] /\ queue[head] \in Tasks
    BY HeadSlot
<1>3. Len(taken') = Len(taken) + 1 /\ count' = count - 1 /\ accepted' = accepted
    BY <1>1, <1>2 DEF TakeHead
<1>4. Waiting(queue[head])
    BY <1>1, <1>2 DEF Waiting
<1>5. ASSUME NEW t, Waiting(t)' PROVE Waiting(t) /\ t # queue[head]
    <2>1. PICK k \in 1 .. count - 1 : accepted[Len(taken) + 1 + k] = t
        BY <1>3, <1>5 DEF Waiting
    <2>2. k + 1 \in 1 .. count /\ Len(taken) + 1 + k = Len(taken) + (k + 1)
          /\ Len(taken) + 1 + k \in 1 .. Len(accepted) /\ Len(taken) + 1 \in 1 .. Len(accepted)
          /\ Len(taken) + 1 + k # Len(taken) + 1
        BY <1>1
    <2>3. accepted[Len(taken) + 1 + k] # accepted[Len(taken) + 1]
        BY <2>2 DEF CoreInv, TasksInv
    <2> QED  BY <1>2, <2>1, <2>2, <2>3 DEF Waiting
<1>6. ASSUME NEW t, Waiting(t), t # queue[head] PROVE Waiting(t)'
    <2>1. PICK k \in 1 .. count : accepted[Len(taken) + k] = t
        BY <1>6 DEF Waiting
    <2>2. k - 1 \in 1 .. count' /\ Len(taken') + (k - 1) = Len(taken) + k
        BY <1>1, <1>2, <1>3, <1>6, <2>1
    <2> QED  BY <1>3, <2>1, <2>2 DEF Waiting
<1> QED  BY <1>2, <1>4, <1>5, <1>6

-----------------------------------------------------------------------------
(* The steps. *)

LEMMA IterationIsTask ==
    ASSUME ETypeOK, i < Iterations
    PROVE  i \in Tasks
<1>1. PICK n \in Nat : n = Cardinality(Tasks) /\ Tasks = 0 .. n - 1 /\ QueueSize <= n
    BY LoadAssumption, FS_CardinalityType
<1>2. i \in Nat
    BY DEF ETypeOK
<1>3. CASE chapter = 4
    <2>1. i < QueueSize
        BY <1>3 DEF Iterations
    <2>2. i < n
        BY <1>1, <1>2, <2>1, QueueSizeAssumption
    <2>3. i \in 0 .. n - 1
        BY <1>1, <1>2, <2>2
    <2> QED  BY <1>1, <2>3, Zenon
<1>4. CASE chapter # 4
    <2>1. i < n
        BY <1>1, <1>4 DEF Iterations
    <2>2. i \in 0 .. n - 1
        BY <1>1, <1>2, <2>1
    <2> QED  BY <1>1, <2>2, Zenon
<1> QED  BY <1>3, <1>4

\* What main does outside the pool's code.
LEMMA CoreKept ==
    ASSUME CoreInv,
           UNCHANGED <<notify, lock, queue, head, tail, count, shutdown, task_completed,
                       threadVars, historyVars>>,
           freed' \in BOOLEAN
    PROVE  CoreInv'
BY DEF CoreInv, TypeOK, LocalsAreTasks, RingInv, Slot, TasksInv, Occurs

LEMMA PoolStep ==
    ASSUME EInv, [EarlyNext]_evars, ~RunPendingTask, ~EarlyDestroy
    PROVE  [Next]_vars
<1>1. ASSUME NEW w \in Workers, EarlyWorker(w) PROVE [Next]_vars
    BY <1>1 DEF EarlyWorker, Next, WorkerStep
<1>2. ASSUME NEW w \in Workers, HeavyCalculation(w) PROVE [Next]_vars
    BY <1>2 DEF HeavyCalculation, Next, WorkerStep
<1>3. CASE EarlyAdd
    BY <1>3, MainAssumption DEF EarlyAdd, AddFails, Next, ClientStep
<1>4. CASE MainAdd
    <2>1. i \in Tasks
        BY <1>4, IterationIsTask DEF EInv, MainAdd
    <2> QED  BY <1>4, <2>1, MainAssumption DEF MainAdd, Next
<1>5. CASE MainMallocFails \/ MainReturns
    BY <1>5 DEF MainMallocFails, MainReturns
<1>6. CASE UNCHANGED evars
    BY <1>6 DEF evars
<1> QED  BY <1>1, <1>2, <1>3, <1>4, <1>5, <1>6 DEF EarlyNext

\* thread_pool_run_pending_task, which main calls where there are no workers.
LEMMA RunPendingCore ==
    ASSUME EInv, RunPendingTask
    PROVE  CoreInv'
<1> DEFINE q == queue[head]
<1>0. CoreInv /\ TypeOK /\ RingInv /\ TasksInv /\ LocalsAreTasks
    BY DEF EInv, CoreInv
<1>1. /\ count > 0 /\ TakeHead /\ chapter = 3
      /\ done' = done \cup {q} /\ taken' = Append(taken, q)
      /\ UNCHANGED <<lock, notify, shutdown, task_completed, freed, threadVars, accepted>>
    BY DEF RunPendingTask, HeadAfterRun, TakeHead
<1>2. q \in Tasks
    BY <1>0, <1>1, HeadSlot
<1>3. \A w \in Workers : wpc[w] # "exec"
    BY <1>1 DEF EInv, NoWorkersInv
<1>4. TypeOK'
    <2>1. head' \in 0 .. QueueSize - 1
        BY <1>0, <1>1, AdvanceInRing DEF TakeHead, TypeOK
    <2>2. count' \in 0 .. QueueSize
        BY <1>0, <1>1, QueueSizeAssumption DEF TakeHead, TypeOK
    <2> QED  BY <1>0, <1>1, <1>2, <2>1, <2>2 DEF TypeOK, TakeHead
<1>5. RingInv'
    BY <1>0, <1>1, <1>4, RingTakeHead
<1>6. LocalsAreTasks'
    BY <1>0, <1>1 DEF LocalsAreTasks
<1>7. TasksInv'
    <2> HIDE DEF q
    <2>1. /\ taken \in Seq(Tasks) /\ Len(taken') = Len(taken) + 1 /\ Len(taken) \in Nat
          /\ taken'[Len(taken) + 1] = q
          /\ \A k \in 1 .. Len(taken) : taken'[k] = taken[k]
        BY <1>0, <1>1, <1>2 DEF TypeOK
    <2>2. Occurs(q, taken')
        BY <2>1 DEF Occurs
    <2>3. \A t : Occurs(t, taken) => Occurs(t, taken')
        BY <2>1 DEF Occurs
    <2>4. \A t \in done' : Occurs(t, taken')
        BY <1>0, <1>1, <2>2, <2>3 DEF TasksInv
    <2> QED  BY <1>0, <1>1, <1>3, <2>4 DEF TasksInv, Occurs
<1> QED  BY <1>4, <1>5, <1>6, <1>7 DEF CoreInv

LEMMA CoreInvNext == EInv /\ [EarlyNext]_evars => CoreInv'
<1> SUFFICES ASSUME EInv, [EarlyNext]_evars PROVE CoreInv'
    OBVIOUS
<1>1. CASE EarlyDestroy
    BY <1>1, CoreKept DEF EInv, EarlyDestroy
<1> QED  BY <1>1, RunPendingCore, PoolStep, CoreNext DEF EInv

-----------------------------------------------------------------------------
(* Initially, and what a step does to main. *)

LEMMA EarlyInvInit == EarlyInit => EInv
<1> SUFFICES ASSUME EarlyInit PROVE EInv
    OBVIOUS
<1>0. Init /\ freed = FALSE /\ count = 0 /\ taken = <<>>
    BY DEF EarlyInit, Init
<1>1. CoreInv
    BY <1>0, TypeInit, LocalsInit, RingInit, TasksInit DEF CoreInv
<1>2. ETypeOK
    BY DEF EarlyInit, ETypeOK
<1>3. MainInv
    BY MainAssumption DEF EarlyInit, Init, MainInv
<1>4. NoWorkersInv
    BY DEF EarlyInit, Init, NoWorkersInv
<1>5. ArgsOwned
    BY DEF EarlyInit, Init, ArgsOwned
<1> QED  BY <1>1, <1>2, <1>3, <1>4, <1>5 DEF EInv

LEMMA ETypeNext == EInv /\ [EarlyNext]_evars => ETypeOK'
<1> SUFFICES ASSUME EInv, [EarlyNext]_evars PROVE ETypeOK'
    OBVIOUS
<1>0. ETypeOK /\ TypeOK
    BY DEF EInv, CoreInv
<1>1. CASE MainAdd
    BY <1>0, <1>1, IterationIsTask DEF MainAdd, ETypeOK
<1>2. CASE ~MainAdd
    BY <1>0, <1>2 DEF EarlyNext, EarlyWorker, HeavyCalculation, FreeArgs, RunPendingTask,
       EarlyAdd, AddFails, MainMallocFails, EarlyDestroy, MainReturns, evars, ETypeOK
<1> QED  BY <1>1, <1>2

\* A worker's step leaves main where it is, and chapter 3's programs make none.
LEMMA WorkerFrame ==
    ASSUME NEW w \in Workers, WorkerPoolStep(w)
    PROVE  UNCHANGED <<freed, cpc, arg, accepted, done>>
BY DEF WorkerPoolStep, WorkerStatement, WorkerLock, WorkerWait, WorkerWake, WorkerExit,
       WorkerTake, WorkerCompleted, SpuriousWakeup

LEMMA MainNext == EInv /\ [EarlyNext]_evars => MainInv'
<1> SUFFICES ASSUME EInv, [EarlyNext]_evars PROVE MainInv'
    OBVIOUS
<1> USE DEF MainInv, Drained
<1>0. MainInv /\ ETypeOK /\ TypeOK
    BY DEF EInv, CoreInv
<1>1. ASSUME NEW w \in Workers, EarlyWorker(w) PROVE MainInv'
    BY <1>0, <1>1, WorkerFrame DEF EarlyWorker
<1>2. ASSUME NEW w \in Workers, HeavyCalculation(w) PROVE MainInv'
    BY <1>0, <1>2 DEF HeavyCalculation, WorkerExec
<1>3. CASE RunPendingTask
    BY <1>0, <1>3 DEF RunPendingTask
<1>4. CASE EarlyAdd
    BY <1>0, <1>4, MainAssumption DEF EarlyAdd, AddFails, AddLock, AddFull, AddPut, TypeOK
<1>5. CASE MainAdd
    BY <1>0, <1>5, MainAssumption DEF MainAdd, CallAdd, TypeOK
<1>6. CASE MainMallocFails \/ EarlyDestroy \/ MainReturns \/ UNCHANGED evars
    BY <1>0, <1>6 DEF MainMallocFails, EarlyDestroy, MainReturns, evars
<1> QED  BY <1>1, <1>2, <1>3, <1>4, <1>5, <1>6 DEF EarlyNext

LEMMA NoWorkersNext == EInv /\ [EarlyNext]_evars => NoWorkersInv'
<1> SUFFICES ASSUME EInv, [EarlyNext]_evars PROVE NoWorkersInv'
    OBVIOUS
<1> USE DEF NoWorkersInv
<1>0. NoWorkersInv /\ TypeOK /\ taken \in Seq(Tasks)
    BY DEF EInv, CoreInv, TypeOK
<1>1. ASSUME NEW w \in Workers, EarlyWorker(w) PROVE NoWorkersInv'
    BY <1>1 DEF EarlyWorker
<1>2. ASSUME NEW w \in Workers, HeavyCalculation(w) PROVE NoWorkersInv'
    BY <1>0, <1>2 DEF HeavyCalculation, WorkerExec
<1>3. CASE RunPendingTask
    <2>1. /\ taken' = Append(taken, queue[head]) /\ done' = done \cup {queue[head]}
          /\ UNCHANGED <<wpc, chapter>>
        BY <1>3 DEF RunPendingTask
    <2>2. Len(taken') = Len(taken) + 1 /\ taken'[Len(taken) + 1] = queue[head]
          /\ \A k \in 1 .. Len(taken) : taken'[k] = taken[k]
        BY <1>0, <2>1
    <2> QED  BY <1>0, <1>3, <2>1, <2>2 DEF RunPendingTask
<1>4. CASE EarlyAdd
    BY <1>0, <1>4 DEF EarlyAdd, AddFails, AddLock, AddFull, AddPut
<1>5. CASE MainAdd
    BY <1>0, <1>5 DEF MainAdd, CallAdd
<1>6. CASE MainMallocFails \/ EarlyDestroy \/ MainReturns \/ UNCHANGED evars
    BY <1>0, <1>6 DEF MainMallocFails, EarlyDestroy, MainReturns, evars
<1> QED  BY <1>1, <1>2, <1>3, <1>4, <1>5, <1>6 DEF EarlyNext

-----------------------------------------------------------------------------
(* The argument blocks, one lemma for each way a step moves a task on. *)

\* Nobody's need changes.
LEMMA NeedKept ==
    ASSUME UNCHANGED <<accepted, taken, count, arg, live>>,
           \A w \in Workers : wpc'[w] = "exec" <=> wpc[w] = "exec",
           UNCHANGED task,
           cpc'[Main] \in {"add", "put"} <=> cpc[Main] \in {"add", "put"},
           OwnedAsNeeded
    PROVE  OwnedAsNeeded'
<1>1. ASSUME NEW t PROVE Waiting(t)' <=> Waiting(t)
    BY DEF Waiting
<1>2. ASSUME NEW t PROVE RunBy(t)' <=> RunBy(t)
    BY DEF RunBy
<1>3. ASSUME NEW t PROVE AddedBy(t)' <=> AddedBy(t)
    BY DEF AddedBy
<1> QED  BY <1>1, <1>2, <1>3 DEF Needed, OwnedAsNeeded

\* The ring to a worker.
LEMMA NeedTake ==
    ASSUME EInv, CoreInv', NEW w \in Workers, WorkerTake(w), UNCHANGED live,
           OwnedAsNeeded
    PROVE  OwnedAsNeeded'
<1>1. CoreInv /\ TypeOK /\ count > 0 /\ TakeHead
    BY QueueSizeAssumption DEF EInv, CoreInv, TypeOK, WorkerTake, MustWait, TakeHead
<1>2. /\ Waiting(queue[head])
      /\ \A t : Waiting(t)' <=> Waiting(t) /\ t # queue[head]
    BY <1>1, HeadWaits
<1>3. /\ wpc[w] = "check" /\ UNCHANGED <<cpc, arg>>
      /\ task' = [task EXCEPT ![w] = queue[head]] /\ wpc' = [wpc EXCEPT ![w] = "exec"]
    BY DEF WorkerTake
<1>4. ASSUME NEW t PROVE RunBy(t)' <=> RunBy(t) \/ t = queue[head]
    <2>1. \A v \in Workers : v # w => wpc'[v] = wpc[v] /\ task'[v] = task[v]
        BY <1>1, <1>3 DEF TypeOK
    <2>2. wpc'[w] = "exec" /\ task'[w] = queue[head]
        BY <1>1, <1>3 DEF TypeOK
    <2> QED  BY <1>3, <2>1, <2>2 DEF RunBy
<1>5. ASSUME NEW t PROVE AddedBy(t)' <=> AddedBy(t)
    BY <1>3 DEF AddedBy
<1> QED  BY <1>2, <1>4, <1>5 DEF Needed, OwnedAsNeeded

\* A worker runs its task, which nobody else has.
LEMMA NeedExec ==
    ASSUME EInv, NEW w \in Workers, WorkerExec(w), FreeArgs(task[w]),
           OwnedAsNeeded
    PROVE  OwnedAsNeeded'
<1>0. CoreInv /\ TypeOK /\ TasksInv
    BY DEF EInv, CoreInv
<1>1. /\ wpc[w] = "exec" /\ wpc' = [wpc EXCEPT ![w] = "completed"]
      /\ UNCHANGED <<task, cpc, arg, count, accepted, taken>>
      /\ live' = live \ {task[w]}
    BY DEF WorkerExec, FreeArgs
<1>2. RunBy(task[w]) /\ ~Waiting(task[w]) /\ ~AddedBy(task[w])
    BY <1>0, <1>1, WaitingIsNobodys, AddedIsNew DEF RunBy, AddedBy
<1>3. ASSUME NEW t PROVE RunBy(t)' <=> RunBy(t) /\ t # task[w]
    <2>1. \A v \in Workers : wpc'[v] = "exec" <=> wpc[v] = "exec" /\ v # w
        BY <1>0, <1>1 DEF TypeOK
    <2>2. \A v \in Workers : v # w /\ wpc[v] = "exec" => task[v] # task[w]
        BY <1>0, <1>1 DEF TasksInv
    <2> QED  BY <1>1, <2>1, <2>2 DEF RunBy
<1>4. ASSUME NEW t PROVE Waiting(t)' <=> Waiting(t)
    BY <1>1 DEF Waiting
<1>5. ASSUME NEW t PROVE AddedBy(t)' <=> AddedBy(t)
    BY <1>1 DEF AddedBy
<1> QED  BY <1>1, <1>2, <1>3, <1>4, <1>5 DEF Needed, OwnedAsNeeded

\* Main runs the task at the head of the ring itself.
LEMMA NeedRunPending ==
    ASSUME EInv, CoreInv', RunPendingTask, OwnedAsNeeded
    PROVE  OwnedAsNeeded'
<1>1. /\ CoreInv /\ count > 0 /\ TakeHead /\ live' = live \ {queue[head]}
      /\ UNCHANGED <<wpc, task, cpc, arg>>
    BY DEF EInv, RunPendingTask, HeadAfterRun, TakeHead, FreeArgs
<1>2. /\ Waiting(queue[head])
      /\ \A t : Waiting(t)' <=> Waiting(t) /\ t # queue[head]
    BY <1>1, HeadWaits
<1>3. ~RunBy(queue[head]) /\ ~AddedBy(queue[head])
    BY <1>1, <1>2, WaitingIsNobodys
<1>4. ASSUME NEW t PROVE (RunBy(t)' <=> RunBy(t)) /\ (AddedBy(t)' <=> AddedBy(t))
    BY <1>1 DEF RunBy, AddedBy
<1> QED  BY <1>1, <1>2, <1>3, <1>4 DEF Needed, OwnedAsNeeded

\* Main to the ring.
LEMMA NeedPut ==
    ASSUME EInv, AddPut(Main), UNCHANGED live, OwnedAsNeeded
    PROVE  OwnedAsNeeded'
<1>0. TypeOK /\ RingInv /\ arg[Main] \in Tasks
    BY MainAssumption DEF EInv, CoreInv, LocalsAreTasks, AddPut
<1>1. /\ cpc[Main] = "put" /\ cpc'[Main] = "idle"
      /\ accepted' = Append(accepted, arg[Main]) /\ count' = count + 1
      /\ UNCHANGED <<wpc, task, arg, taken>>
    BY <1>0, MainAssumption DEF AddPut, TypeOK
<1>2. /\ Len(taken) \in Nat /\ count \in Nat /\ Len(accepted) = Len(taken) + count
      /\ accepted \in Seq(Tasks)
    BY <1>0, QueueSizeAssumption DEF TypeOK, RingInv
<1>3. /\ \A k \in 1 .. count : accepted'[Len(taken) + k] = accepted[Len(taken) + k]
      /\ accepted'[Len(taken) + (count + 1)] = arg[Main]
    BY <1>0, <1>1, <1>2
<1>4. ASSUME NEW t PROVE Waiting(t)' <=> Waiting(t) \/ t = arg[Main]
    <2>1. 1 .. count + 1 = (1 .. count) \cup {count + 1}
        BY <1>2
    <2>2. Waiting(t)' <=> \E k \in 1 .. count + 1 : accepted'[Len(taken) + k] = t
        BY <1>1 DEF Waiting
    <2> QED  BY <1>3, <2>1, <2>2 DEF Waiting
<1>5. ASSUME NEW t PROVE /\ RunBy(t)' <=> RunBy(t)
                         /\ ~AddedBy(t)' /\ (AddedBy(t) <=> t = arg[Main])
    BY <1>1 DEF RunBy, AddedBy
<1> QED  BY <1>4, <1>5 DEF Needed, OwnedAsNeeded

\* The add fails, and main frees what it allocated.
LEMMA NeedFull ==
    ASSUME EInv, AddFails, OwnedAsNeeded
    PROVE  OwnedAsNeeded'
<1>0. CoreInv /\ TypeOK
    BY DEF EInv, CoreInv
<1>1. /\ cpc[Main] = "put" /\ cpc'[Main] = "idle"
      /\ UNCHANGED <<wpc, task, arg, count, accepted, taken>>
      /\ live' = live \ {arg[Main]}
    BY <1>0, MainAssumption DEF AddFails, AddFull, TypeOK
<1>2. ~Waiting(arg[Main]) /\ ~RunBy(arg[Main])
    BY <1>0, <1>1, AddedIsNew
<1>3. ASSUME NEW t PROVE /\ RunBy(t)' <=> RunBy(t)
                         /\ Waiting(t)' <=> Waiting(t)
                         /\ ~AddedBy(t)' /\ (AddedBy(t) <=> t = arg[Main])
    BY <1>1 DEF RunBy, Waiting, AddedBy
<1> QED  BY <1>1, <1>2, <1>3 DEF Needed, OwnedAsNeeded

\* Main allocates the arguments of its next task.
LEMMA NeedAdd ==
    ASSUME EInv, MainAdd, OwnedAsNeeded
    PROVE  OwnedAsNeeded'
<1>1. /\ cpc[Main] = "idle" /\ cpc'[Main] = "add" /\ arg'[Main] = i
      /\ UNCHANGED <<wpc, task, count, accepted, taken>>
      /\ live' = live \cup {i}
    BY MainAssumption DEF EInv, CoreInv, TypeOK, MainAdd, CallAdd
<1>2. ASSUME NEW t PROVE /\ RunBy(t)' <=> RunBy(t)
                         /\ Waiting(t)' <=> Waiting(t)
                         /\ ~AddedBy(t) /\ (AddedBy(t)' <=> t = i)
    BY <1>1 DEF RunBy, Waiting, AddedBy
<1> QED  BY <1>1, <1>2 DEF Needed, OwnedAsNeeded

LEMMA ArgsNeededNext == (TypeOK /\ RingInv)' /\ OwnedAsNeeded' => ArgsOwned'
<1>1. TypeOK /\ RingInv /\ OwnedAsNeeded => ArgsOwned
    BY ArgsNeeded
<1> QED  BY <1>1, PTL

LEMMA ArgsNext == EInv /\ [EarlyNext]_evars => ArgsOwned'
<1> SUFFICES ASSUME EInv, [EarlyNext]_evars PROVE OwnedAsNeeded'
    BY CoreInvNext, ArgsNeededNext DEF CoreInv
<1>0. CoreInv' /\ CoreInv /\ TypeOK
    BY CoreInvNext DEF EInv, CoreInv
<1>1. OwnedAsNeeded
    BY ArgsNeeded DEF EInv, CoreInv
<1>2. ASSUME NEW w \in Workers, EarlyWorker(w) PROVE OwnedAsNeeded'
    <2>1. CASE WorkerTake(w)
        BY <1>0, <1>1, <1>2, <2>1, NeedTake DEF EarlyWorker
    <2>2. CASE ~WorkerTake(w)
        <3>1. UNCHANGED <<accepted, taken, count, arg, task, cpc, live>>
            BY <1>2, <2>2 DEF EarlyWorker, WorkerPoolStep, WorkerStatement, WorkerLock,
               WorkerWait, WorkerWake, WorkerExit, WorkerCompleted, SpuriousWakeup
        <3>2. \A v \in Workers : wpc'[v] = "exec" <=> wpc[v] = "exec"
            BY <1>0, <1>2, <2>2 DEF EarlyWorker, WorkerPoolStep, WorkerStatement, WorkerLock,
               WorkerWait, WorkerWake, WorkerExit, WorkerCompleted, SpuriousWakeup, TypeOK
        <3> QED  BY <1>1, <3>1, <3>2, NeedKept
    <2> QED  BY <2>1, <2>2
<1>3. ASSUME NEW w \in Workers, HeavyCalculation(w) PROVE OwnedAsNeeded'
    BY <1>1, <1>3, NeedExec DEF HeavyCalculation
<1>4. CASE RunPendingTask
    BY <1>0, <1>1, <1>4, NeedRunPending
<1>5. CASE EarlyAdd
    <2>1. CASE AddLock(Main) /\ UNCHANGED live
        <3>1. UNCHANGED <<accepted, taken, count, arg, task, wpc, live>>
            BY <2>1 DEF AddLock
        <3>2. cpc'[Main] \in {"add", "put"} <=> cpc[Main] \in {"add", "put"}
            BY <1>0, <2>1, MainAssumption DEF AddLock, TypeOK
        <3> QED  BY <1>1, <3>1, <3>2, NeedKept
    <2>2. CASE AddPut(Main) /\ UNCHANGED live
        BY <1>1, <2>2, NeedPut
    <2>3. CASE AddFails
        BY <1>1, <2>3, NeedFull
    <2> QED  BY <1>5, <2>1, <2>2, <2>3 DEF EarlyAdd
<1>6. CASE MainAdd
    BY <1>1, <1>6, NeedAdd
<1>7. CASE MainMallocFails \/ EarlyDestroy \/ MainReturns \/ UNCHANGED evars
    <2>1. UNCHANGED <<accepted, taken, count, arg, task, wpc, cpc, live>>
        BY <1>7 DEF MainMallocFails, EarlyDestroy, MainReturns, evars
    <2> QED  BY <1>1, <2>1, NeedKept
<1> QED  BY <1>2, <1>3, <1>4, <1>5, <1>6, <1>7 DEF EarlyNext

-----------------------------------------------------------------------------
(* The theorems. *)

\* EInv is an invariant of the programs of chapters 2 to 5.
THEOREM EarlyInductive == EarlySpec => []EInv
<1>1. EarlyInit => EInv
    BY EarlyInvInit
<1>2. EInv /\ [EarlyNext]_evars => EInv'
    BY CoreInvNext, ETypeNext, MainNext, NoWorkersNext, ArgsNext DEF EInv
<1> QED  BY <1>1, <1>2, PTL DEF EarlySpec

\* An argument block is allocated exactly as long as the add that carries it,
\* the ring slot that refers to it or the worker that runs its task needs it,
\* also after chapter 4's main freed the pool under its workers.
THEOREM ArgumentsOwned == EarlySpec => []ArgsOwned
<1>1. EInv => ArgsOwned
    BY DEF EInv
<1> QED  BY <1>1, EarlyInductive, PTL

\* A program without workers frees the pool only when every accepted task has
\* run, and then no argument block is left.
THEOREM EarlyLeavesNothing == EarlySpec => []NothingLeftBehind
<1>1. EInv => NothingLeftBehind
    <2> SUFFICES ASSUME EInv, freed, chapter = 3
                 PROVE  done = {accepted[k] : k \in 1 .. Len(accepted)} /\ live = {}
        BY DEF NothingLeftBehind
    <2>0. CoreInv /\ TypeOK /\ RingInv
        BY DEF EInv, CoreInv
    <2>1. /\ count = 0 /\ cpc[Main] = "idle"
          /\ \A w \in Workers : wpc[w] = "lock"
          /\ \A k \in 1 .. Len(taken) : taken[k] \in done
        BY DEF EInv, MainInv, NoWorkersInv, Drained
    <2>2. /\ Len(accepted) = Len(taken)
          /\ \A k \in 1 .. Len(taken) : taken[k] = accepted[k]
        BY <2>0, <2>1 DEF TypeOK, RingInv
    <2>3. \A t \in done : Occurs(t, taken)
        BY DEF EInv, CoreInv, TasksInv
    <2>4. done = {accepted[k] : k \in 1 .. Len(accepted)}
        BY <2>1, <2>2, <2>3 DEF Occurs
    <2>5. \A t : ~Needed(t)
        BY <2>1 DEF Needed, Waiting, RunBy, AddedBy
    <2> QED  BY <2>0, <2>4, <2>5, ArgsNeeded DEF EInv, OwnedAsNeeded
<1> QED  BY <1>1, EarlyInductive, PTL
=============================================================================
