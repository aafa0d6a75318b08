------------------------ MODULE PollingMain_proofs ------------------------
(***************************************************************************)
(* Proofs about PollingMain, for any number of workers, any larger number  *)
(* of tasks and any ring.  Where thread_pool_destroy joins, every step is  *)
(* a step of the pool and IndInv holds throughout; chapter 5's main frees  *)
(* the pool under its workers, and from then on only the tasks that are    *)
(* already running go on (PoolInv says what still holds).  PInv counts the *)
(* deposits.                                                               *)
(***************************************************************************)
EXTENDS PollingMain, ThreadPool_proofs

USE DEF vars, poolVars, threadVars, historyVars

-----------------------------------------------------------------------------
(* The inductive invariant *)

PoolInv ==
    /\ joins \/ ~freed => IndInv
    /\ TypeOK /\ LocalsAreTasks /\ RingInv /\ TasksInv
    /\ FiniteDone

PTypeOK ==
    /\ program \in Programs
    /\ joins \in BOOLEAN
    /\ mpc \in {"submit", "nap", "poll", "destroy", "end"}
    /\ g_balance \in Nat
    /\ g_balance_lock \in Workers \cup {Nobody}
    /\ local_balance \in [Workers -> Nat]
    /\ tpc \in [Workers -> {"start", "read", "write", "unlock"}]

\* Where main is in its own code and inside the pool's, and what it waited for.
MainInv ==
    /\ program = "dummy_task" => joins
    /\ cpc[Main] \in {"add", "put"} => mpc = "submit"
    /\ cpc[Main] \in {"destroy", "broadcast", "join"} => mpc = "destroy" /\ joins
    /\ mpc \notin {"submit", "nap"} => Len(accepted) = task_count
    /\ freed /\ ~joins => cpc[Main] = "returned" /\ mpc \in {"destroy", "end"}
    /\ mpc = "end" => cpc[Main] = "returned"
    /\ mpc \in {"destroy", "end"} =>
        IF program = "dummy_task" THEN AllCompleted ELSE count = 0

Executing == {w \in Workers : wpc[w] = "exec"}
Deposits == {w \in Workers : tpc[w] = "unlock"}

\* A task that was taken is done or running.
CountInv == Cardinality(done) + Cardinality(Executing) = Len(taken)

\* A worker inside a deposit runs a task; the safe one owns the lock.
TaskInv ==
    \A w \in Workers :
        tpc[w] # "start" =>
            /\ wpc[w] = "exec"
            /\ program # "dummy_task"
            /\ program = "deposit_task_safe" => g_balance_lock = w

\* How many deposits were written.
DepositCount == Cardinality(done) + Cardinality(Deposits)

\* The balance under the lock, and without it.
SafeInv ==
    program = "deposit_task_safe" =>
        /\ g_balance = DepositCount
        /\ \A w \in Workers : tpc[w] = "write" => local_balance[w] = g_balance
UnsafeInv ==
    program = "deposit_task" =>
        /\ g_balance <= DepositCount
        /\ \A w \in Workers : tpc[w] = "write" => local_balance[w] <= DepositCount
        /\ DepositCount > 0 => g_balance > 0

PInv ==
    /\ PoolInv
    /\ PTypeOK
    /\ MainInv
    /\ CountInv
    /\ TaskInv
    /\ SafeInv
    /\ UnsafeInv

Rest == PTypeOK /\ MainInv /\ CountInv /\ TaskInv /\ SafeInv /\ UnsafeInv

-----------------------------------------------------------------------------
(* Constants and counts. *)

LEMMA Load ==
    /\ Main \in Clients /\ \A c \in Clients : c = Main
    /\ task_count \in Nat /\ Cardinality(Workers) \in Nat
    /\ task_count > Cardinality(Workers)
    /\ Nobody \notin Workers
BY MainAssumption, LoadAssumption, WorkersAssumption, ThreadsAssumption, FS_CardinalityType
   DEF task_count

LEMMA CountsFinite ==
    /\ IsFiniteSet(Executing) /\ Cardinality(Executing) \in Nat
    /\ Cardinality(Executing) <= Cardinality(Workers)
    /\ IsFiniteSet(Deposits) /\ Cardinality(Deposits) \in Nat
    /\ FiniteDone => Cardinality(done) \in Nat
<1>1. Executing \in SUBSET Workers /\ Deposits \in SUBSET Workers
    BY DEF Executing, Deposits
<1>2. IsFiniteSet(Executing) /\ IsFiniteSet(Deposits) /\ Cardinality(Executing) <= Cardinality(Workers)
    BY <1>1, WorkersAssumption, FS_Subset
<1> QED  BY <1>2, FS_CardinalityType DEF FiniteDone

LEMMA PollingInitInv == PollingInit => PInv
<1> SUFFICES ASSUME PollingInit PROVE PInv
    OBVIOUS
<1>1. IndInv /\ FiniteDone
    BY IndInit DEF PollingInit
<1>2. PoolInv
    BY <1>1 DEF PoolInv, IndInv
<1>3. PTypeOK
    BY DEF PollingInit, PTypeOK
<1>4. MainInv
    BY Load DEF PollingInit, Init, MainInv
<1>5. Executing = {} /\ Deposits = {} /\ done = {}
    BY DEF PollingInit, Init, Executing, Deposits
<1>6. Cardinality(Executing) = 0 /\ Cardinality(Deposits) = 0 /\ Cardinality(done) = 0
    BY <1>5, FS_EmptySet
<1>7. CountInv
    BY <1>6 DEF CountInv, PollingInit, Init
<1>8. TaskInv
    BY DEF TaskInv, PollingInit
<1>9. SafeInv /\ UnsafeInv
    BY <1>6 DEF SafeInv, UnsafeInv, DepositCount, PollingInit
<1> QED  BY <1>2, <1>3, <1>4, <1>7, <1>8, <1>9 DEF PInv

-----------------------------------------------------------------------------
(* The pool under the program. *)

\* As long as the pool is not freed under its workers, only steps of the pool
\* are taken.
LEMMA PoolStep ==
    ASSUME [PollingNext]_pvars, ~MainFree
    PROVE  [Next]_vars
<1>1. ASSUME NEW w \in Workers, TaskStep(w) PROVE [Next]_vars
    BY <1>1 DEF TaskStep, TaskBegin, TaskRead, TaskWrite, DepositReturn, DummyReturn,
        Next, WorkerStep
<1>2. ASSUME NEW w \in Workers, WorkerPart(w) PROVE [Next]_vars
    BY <1>2 DEF WorkerPart, Next, WorkerStep
<1>3. CASE ClientPart
    BY <1>3, Load DEF ClientPart, Next
<1>4. CASE MainAdd
    BY <1>4, Load DEF MainAdd, Next
<1>5. CASE MainDestroy
    BY <1>5, Load DEF MainDestroy, Next
<1>6. CASE NapEnds \/ MainSubmitted \/ MainPoll \/ MainReport
    BY <1>6 DEF NapEnds, MainSubmitted, MainPoll, MainReport
<1>7. CASE Terminated
    BY <1>7 DEF Next
<1>8. CASE UNCHANGED pvars
    BY <1>8 DEF pvars
<1> QED  BY <1>1, <1>2, <1>3, <1>4, <1>5, <1>6, <1>7, <1>8 DEF PollingNext, MainStep

\* On a pool freed under its workers only their tasks go on and return.
LEMMA FreedStep ==
    ASSUME PInv, [PollingNext]_pvars, freed, ~joins
    PROVE  UNCHANGED vars \/ \E w \in Workers : WorkerExec(w)
<1>1. /\ cpc[Main] = "returned" /\ mpc \in {"destroy", "end"} /\ program # "dummy_task"
    BY DEF PInv, MainInv
<1>2. ASSUME NEW w \in Workers, TaskStep(w)
      PROVE  UNCHANGED vars \/ WorkerExec(w)
    BY <1>2 DEF TaskStep, TaskBegin, TaskRead, TaskWrite, DepositReturn, DummyReturn
<1>3. ASSUME NEW w \in Workers PROVE ~WorkerPart(w)
    BY DEF WorkerPart, PoolThere
<1>4. ~ClientPart
    BY <1>1 DEF ClientPart, ClientStep, AddLock, AddFull, AddPut, DestroyLock,
        DestroyBroadcast, DestroyFree
<1>5. ~MainAdd /\ ~NapEnds /\ ~MainSubmitted /\ ~MainDestroy /\ ~MainFree
    BY <1>1 DEF MainAdd, NapEnds, MainSubmitted, MainDestroy, MainFree
<1>6. CASE MainPoll \/ MainReport
    BY <1>6 DEF MainPoll, MainReport
<1>7. CASE Terminated \/ UNCHANGED pvars
    BY <1>7 DEF Terminated, pvars
<1> QED  BY <1>2, <1>3, <1>4, <1>5, <1>6, <1>7 DEF PollingNext, MainStep

LEMMA ProgramFixed == [PollingNext]_pvars => program' = program /\ joins' = joins
BY DEF PollingNext, TaskStep, TaskBegin, TaskRead, TaskWrite, DepositReturn, DummyReturn,
       WorkerPart, ClientPart, MainStep, MainAdd, NapEnds, MainSubmitted, MainPoll, MainDestroy,
       MainFree, MainReport, pvars, mainVars

LEMMA PoolInvNext ==
    ASSUME PInv, [PollingNext]_pvars
    PROVE  PoolInv'
<1>0. /\ joins \/ ~freed => IndInv
      /\ TypeOK /\ LocalsAreTasks /\ RingInv /\ TasksInv /\ FiniteDone
    BY DEF PInv, PoolInv
<1>1. CASE (joins \/ ~freed) /\ ~MainFree
    <2>1. IndInv' /\ FiniteDone'
        BY <1>0, <1>1, PoolStep, IndNext
    <2> QED  BY <2>1 DEF PoolInv, IndInv
<1>2. CASE MainFree
    <2>1. /\ freed' = TRUE /\ ~joins'
          /\ cpc' = [cpc EXCEPT ![Main] = "returned"]
          /\ UNCHANGED <<lock, notify, queue, head, tail, count, shutdown, task_completed,
                         wpc, task, arg, accepted, taken, done>>
        BY <1>2, ProgramFixed DEF MainFree
    <2>2. \A c \in Clients : cpc'[c] = "returned"
        BY <1>0, <2>1, Load DEF TypeOK
    <2>3. TypeOK'
        BY <1>0, <2>1 DEF TypeOK, ClientPC
    <2>4. LocalsAreTasks' /\ RingInv' /\ TasksInv'
        BY <1>0, <2>1, <2>2 DEF LocalsAreTasks, RingInv, Slot, TasksInv, Occurs
    <2>5. FiniteDone'
        BY <1>0, <2>1 DEF FiniteDone
    <2> QED  BY <2>1, <2>3, <2>4, <2>5 DEF PoolInv
<1>3. CASE freed /\ ~joins
    <2>1. freed' /\ ~joins'
        <3>1. freed' = freed
            BY <1>3, FreedStep DEF WorkerExec
        <3>2. joins' = joins
            BY ProgramFixed
        <3> QED  BY <1>3, <3>1, <3>2
    <2>2. CASE UNCHANGED vars
        <3>1. TypeOK' /\ LocalsAreTasks' /\ RingInv' /\ TasksInv' /\ FiniteDone'
            BY <1>0, <2>2 DEF TypeOK, LocalsAreTasks, RingInv, Slot, TasksInv, Occurs, FiniteDone
        <3> QED  BY <2>1, <3>1 DEF PoolInv
    <2>3. ASSUME NEW w \in Workers, WorkerExec(w) PROVE PoolInv'
        <3>1. /\ task[w] \in Tasks /\ done' = done \cup {task[w]}
              /\ wpc' = [wpc EXCEPT ![w] = "completed"]
              /\ UNCHANGED <<lock, notify, queue, head, tail, count, shutdown,
                             task_completed, freed, task, cpc, arg, accepted, taken>>
            BY <1>0, <2>3 DEF LocalsAreTasks, WorkerExec
        <3>2. TypeOK'
            BY <1>0, <3>1 DEF TypeOK, WorkerPC
        <3>3. LocalsAreTasks' /\ RingInv'
            BY <1>0, <3>1 DEF TypeOK, LocalsAreTasks, RingInv, Slot
        <3>4. TasksInv'
            BY <1>0, <2>3, TasksExec
        <3>5. FiniteDone'
            BY <1>0, <3>1, FS_AddElement DEF FiniteDone
        <3> QED  BY <2>1, <3>2, <3>3, <3>4, <3>5 DEF PoolInv
    <2> QED  BY <1>3, <2>2, <2>3, FreedStep
<1> QED  BY <1>1, <1>2, <1>3

-----------------------------------------------------------------------------
(* The tasks. *)

\* A step inside a task changes nothing that main or the pool counts.
LEMMA InsideTask ==
    ASSUME PInv, UNCHANGED <<vars, mainVars>>
    PROVE  MainInv' /\ CountInv'
BY DEF PInv, mainVars, MainInv, AllCompleted, CountInv, Executing

\* A deposit starts: the safe one owns the lock, so no other worker is between
\* its read and its unlock.
LEMMA TaskBeginInv ==
    ASSUME PInv, NEW w \in Workers, TaskBegin(w)
    PROVE  Rest'
<1>0. PTypeOK /\ TaskInv /\ SafeInv /\ UnsafeInv
    BY DEF PInv
<1>1. /\ UNCHANGED <<vars, mainVars, program, joins, mpc, g_balance, local_balance>>
      /\ wpc[w] = "exec" /\ program # "dummy_task" /\ tpc[w] = "start"
      /\ tpc' = [tpc EXCEPT ![w] = "read"]
      /\ IF program = "deposit_task_safe" THEN g_balance_lock = Nobody /\ g_balance_lock' = w
                                          ELSE g_balance_lock' = g_balance_lock
    BY DEF TaskBegin, AcquireBalance, mainVars
<1>2. tpc'[w] = "read" /\ \A v \in Workers : v # w => tpc'[v] = tpc[v]
    BY <1>0, <1>1 DEF PTypeOK
<1>3. PTypeOK'
    BY <1>0, <1>1 DEF PTypeOK
<1>4. MainInv' /\ CountInv'
    BY <1>1, InsideTask
<1>5. TaskInv'
    BY <1>0, <1>1, <1>2, Load DEF TaskInv
<1>6. Deposits' = Deposits
    BY <1>1, <1>2 DEF Deposits
<1>7. DepositCount' = DepositCount
    BY <1>1, <1>6 DEF DepositCount
<1>8. SafeInv' /\ UnsafeInv'
    BY <1>0, <1>1, <1>2, <1>7 DEF SafeInv, UnsafeInv
<1> QED  BY <1>3, <1>4, <1>5, <1>8 DEF Rest

LEMMA TaskReadInv ==
    ASSUME PInv, NEW w \in Workers, TaskRead(w)
    PROVE  Rest'
<1>0. PTypeOK /\ TaskInv /\ SafeInv /\ UnsafeInv
    BY DEF PInv
<1>1. /\ UNCHANGED <<vars, mainVars, program, joins, mpc, g_balance, g_balance_lock>>
      /\ wpc[w] = "exec" /\ tpc[w] = "read"
      /\ tpc' = [tpc EXCEPT ![w] = "write"]
      /\ local_balance' = [local_balance EXCEPT ![w] = g_balance]
    BY DEF TaskRead, mainVars
<1>2. /\ tpc'[w] = "write" /\ \A v \in Workers : v # w => tpc'[v] = tpc[v]
      /\ local_balance'[w] = g_balance
      /\ \A v \in Workers : v # w => local_balance'[v] = local_balance[v]
    BY <1>0, <1>1 DEF PTypeOK
<1>3. PTypeOK'
    BY <1>0, <1>1 DEF PTypeOK
<1>4. MainInv' /\ CountInv'
    BY <1>1, InsideTask
<1>5. TaskInv'
    BY <1>0, <1>1, <1>2 DEF TaskInv
<1>6. Deposits' = Deposits
    BY <1>1, <1>2 DEF Deposits
<1>7. DepositCount' = DepositCount
    BY <1>1, <1>6 DEF DepositCount
<1>8. SafeInv' /\ UnsafeInv'
    BY <1>0, <1>1, <1>2, <1>7 DEF SafeInv, UnsafeInv
<1> QED  BY <1>3, <1>4, <1>5, <1>8 DEF Rest

\* The store: one more deposit is written; a racing one may have been lost.
LEMMA TaskWriteInv ==
    ASSUME PInv, NEW w \in Workers, TaskWrite(w)
    PROVE  Rest'
<1>0. PTypeOK /\ TaskInv /\ SafeInv /\ UnsafeInv /\ FiniteDone
    BY DEF PInv, PoolInv
<1>1. /\ UNCHANGED <<vars, mainVars, program, joins, mpc, local_balance, g_balance_lock>>
      /\ wpc[w] = "exec" /\ tpc[w] = "write"
      /\ tpc' = [tpc EXCEPT ![w] = "unlock"]
      /\ g_balance' = local_balance[w] + 1
      /\ local_balance[w] \in Nat
    BY <1>0 DEF TaskWrite, Deposited, mainVars, PTypeOK
<1>2. tpc'[w] = "unlock" /\ \A v \in Workers : v # w => tpc'[v] = tpc[v]
    BY <1>0, <1>1 DEF PTypeOK
<1>3. PTypeOK'
    BY <1>0, <1>1 DEF PTypeOK
<1>4. MainInv' /\ CountInv'
    BY <1>1, InsideTask
<1>5. TaskInv'
    BY <1>0, <1>1, <1>2 DEF TaskInv
<1>6. Deposits' = Deposits \cup {w} /\ w \notin Deposits
    BY <1>1, <1>2 DEF Deposits
<1>7. DepositCount' = DepositCount + 1 /\ DepositCount \in Nat
    <2>1. Cardinality(Deposits') = Cardinality(Deposits) + 1
        BY <1>6, CountsFinite, FS_AddElement
    <2>2. Cardinality(Deposits) \in Nat /\ Cardinality(done) \in Nat
        BY <1>0, CountsFinite
    <2> QED  BY <1>1, <2>1, <2>2 DEF DepositCount
<1>8. SafeInv'
    <2> SUFFICES ASSUME program = "deposit_task_safe"
                 PROVE  /\ g_balance' = DepositCount'
                        /\ \A v \in Workers : tpc'[v] = "write" => local_balance'[v] = g_balance'
        BY <1>1 DEF SafeInv
    <2>1. g_balance' = DepositCount'
        BY <1>0, <1>1, <1>7 DEF SafeInv
    <2>2. \A v \in Workers : v # w => tpc[v] = "start"
        BY <1>0, <1>1 DEF TaskInv
    <2> QED  BY <1>2, <2>1, <2>2
<1>9. UnsafeInv'
    <2> SUFFICES ASSUME program = "deposit_task"
                 PROVE  /\ g_balance' <= DepositCount'
                        /\ \A v \in Workers : tpc'[v] = "write" => local_balance'[v] <= DepositCount'
                        /\ DepositCount' > 0 => g_balance' > 0
        BY <1>1 DEF UnsafeInv
    <2>1. g_balance' <= DepositCount' /\ g_balance' > 0
        BY <1>0, <1>1, <1>7 DEF UnsafeInv
    <2>2. \A v \in Workers : tpc'[v] = "write" => local_balance'[v] <= DepositCount'
        BY <1>0, <1>1, <1>2, <1>7 DEF UnsafeInv, PTypeOK
    <2> QED  BY <2>1, <2>2
<1> QED  BY <1>3, <1>4, <1>5, <1>8, <1>9 DEF Rest

\* A task returns: it is done and its worker runs no task any more.
LEMMA ReturnCounts ==
    ASSUME PInv, NEW w \in Workers, WorkerExec(w)
    PROVE  /\ CountInv'
           /\ Cardinality(done') = Cardinality(done) + 1 /\ Cardinality(done) \in Nat
<1>0. TypeOK /\ TasksInv /\ FiniteDone /\ CountInv
    BY DEF PInv, PoolInv
<1>1. /\ wpc[w] = "exec" /\ task[w] \notin done /\ done' = done \cup {task[w]}
      /\ wpc'[w] = "completed" /\ \A v \in Workers : v # w => wpc'[v] = wpc[v]
      /\ taken' = taken /\ Len(taken) \in Nat
    BY <1>0 DEF TypeOK, TasksInv, WorkerExec
<1>2. Executing' = Executing \ {w} /\ w \in Executing
    BY <1>1 DEF Executing
<1>3. Cardinality(Executing') = Cardinality(Executing) - 1
    BY <1>2, CountsFinite, FS_RemoveElement
<1>4. Cardinality(done') = Cardinality(done) + 1 /\ Cardinality(done) \in Nat
    BY <1>0, <1>1, CountsFinite, FS_AddElement DEF FiniteDone
<1>5. Cardinality(Executing) \in Nat
    BY CountsFinite
<1>6. CountInv'
    BY <1>0, <1>1, <1>3, <1>4, <1>5 DEF CountInv
<1> QED  BY <1>4, <1>6

LEMMA DepositReturnInv ==
    ASSUME PInv, NEW w \in Workers, DepositReturn(w)
    PROVE  Rest'
<1>0. TypeOK /\ PTypeOK /\ MainInv /\ TaskInv /\ SafeInv /\ UnsafeInv
    BY DEF PInv, PoolInv
<1>1. /\ WorkerExec(w) /\ tpc[w] = "unlock"
      /\ UNCHANGED <<program, joins, mpc, g_balance, local_balance>>
      /\ tpc' = [tpc EXCEPT ![w] = "start"]
      /\ IF program = "deposit_task_safe" THEN g_balance_lock' = Nobody
                                          ELSE g_balance_lock' = g_balance_lock
    BY DEF DepositReturn, ReleaseBalance, mainVars
<1>2. /\ tpc'[w] = "start" /\ \A v \in Workers : v # w => tpc'[v] = tpc[v]
      /\ \A v \in Workers : v # w => wpc'[v] = wpc[v]
      /\ UNCHANGED <<count, freed, task_completed, cpc, accepted>>
    BY <1>0, <1>1 DEF PTypeOK, TypeOK, WorkerExec
<1>3. PTypeOK'
    BY <1>0, <1>1 DEF PTypeOK
<1>4. MainInv'
    BY <1>0, <1>1, <1>2 DEF MainInv, AllCompleted
<1>5. CountInv'
    BY <1>1, ReturnCounts
<1>6. TaskInv'
    BY <1>0, <1>1, <1>2 DEF TaskInv
<1>7. Deposits' = Deposits \ {w} /\ w \in Deposits
    BY <1>1, <1>2 DEF Deposits
<1>8. DepositCount' = DepositCount
    <2>1. Cardinality(Deposits') = Cardinality(Deposits) - 1
        BY <1>7, CountsFinite, FS_RemoveElement
    <2>2. Cardinality(Deposits) \in Nat
        BY CountsFinite
    <2>3. Cardinality(done') = Cardinality(done) + 1 /\ Cardinality(done) \in Nat
        BY <1>1, ReturnCounts
    <2> QED  BY <2>1, <2>2, <2>3 DEF DepositCount
<1>9. SafeInv' /\ UnsafeInv'
    BY <1>0, <1>1, <1>2, <1>8 DEF SafeInv, UnsafeInv
<1> QED  BY <1>3, <1>4, <1>5, <1>6, <1>9 DEF Rest

LEMMA DummyReturnInv ==
    ASSUME PInv, NEW w \in Workers, DummyReturn(w)
    PROVE  Rest'
<1>0. TypeOK /\ PTypeOK /\ MainInv /\ TaskInv
    BY DEF PInv, PoolInv
<1>1. /\ WorkerExec(w) /\ program = "dummy_task"
      /\ UNCHANGED <<program, joins, mpc, g_balance, g_balance_lock, local_balance, tpc>>
      /\ UNCHANGED <<count, freed, task_completed, cpc, accepted>>
    BY DEF DummyReturn, WorkerExec, mainVars, taskVars
<1>2. PTypeOK'
    BY <1>0, <1>1 DEF PTypeOK
<1>3. MainInv'
    BY <1>0, <1>1 DEF MainInv, AllCompleted
<1>4. CountInv'
    BY <1>1, ReturnCounts
<1>5. TaskInv'
    BY <1>0, <1>1 DEF TaskInv
<1>6. SafeInv' /\ UnsafeInv'
    BY <1>1 DEF SafeInv, UnsafeInv
<1> QED  BY <1>2, <1>3, <1>4, <1>5, <1>6 DEF Rest

-----------------------------------------------------------------------------
(* The pool's statements. *)

\* Steps that leave the tasks alone keep what is said about the balance.
LEMMA BalanceKept ==
    ASSUME PInv, UNCHANGED <<program, joins, taskVars, done>>,
           \A v \in Workers : wpc[v] = "exec" => wpc'[v] = "exec"
    PROVE  TaskInv' /\ SafeInv' /\ UnsafeInv'
<1>1. TaskInv'
    BY DEF PInv, TaskInv, taskVars
<1>2. Deposits' = Deposits
    BY DEF Deposits, taskVars
<1>3. DepositCount' = DepositCount
    BY <1>2 DEF DepositCount
<1>4. SafeInv' /\ UnsafeInv'
    BY <1>3 DEF PInv, SafeInv, UnsafeInv, taskVars
<1> QED  BY <1>1, <1>4

LEMMA WorkerPartInv ==
    ASSUME PInv, NEW w \in Workers, WorkerPart(w)
    PROVE  Rest'
<1>0. TypeOK /\ PTypeOK /\ MainInv /\ CountInv
    BY DEF PInv, PoolInv
<1>1. /\ UNCHANGED <<program, joins, mpc, taskVars, cpc, accepted, done, freed>>
      /\ \A v \in Workers : wpc[v] = "exec" => wpc'[v] = "exec"
    BY <1>0 DEF TypeOK, mainVars, WorkerPart, WorkerPoolStep, WorkerStatement, WorkerLock,
        WorkerWait, SpuriousWakeup, WorkerWake, WorkerExit, WorkerTake, WorkerCompleted
<1>2. count = 0 => count' = 0
    BY DEF WorkerPart, WorkerPoolStep, WorkerStatement, WorkerLock, MustWait,
        WorkerWait, SpuriousWakeup, WorkerWake, WorkerExit, WorkerTake, WorkerCompleted
<1>3. task_completed' \in {task_completed, task_completed + 1} /\ task_completed \in Nat
    BY <1>0 DEF TypeOK, WorkerPart, WorkerPoolStep, WorkerStatement, WorkerLock,
        WorkerWait, SpuriousWakeup, WorkerWake, WorkerExit, WorkerTake, WorkerCompleted
<1>4. PTypeOK'
    BY <1>0, <1>1 DEF PTypeOK, taskVars
<1>5. AllCompleted => AllCompleted'
    BY <1>3, Load DEF AllCompleted
<1>6. MainInv'
    BY <1>0, <1>1, <1>2, <1>5 DEF MainInv
<1>7. TaskInv' /\ SafeInv' /\ UnsafeInv'
    BY <1>1, BalanceKept
<1>8. CountInv'
    <2>1. CASE WorkerTake(w)
        <3>1. /\ Len(taken') = Len(taken) + 1 /\ Len(taken) \in Nat
              /\ wpc[w] = "check" /\ wpc'[w] = "exec"
              /\ \A v \in Workers : v # w => wpc'[v] = wpc[v]
            <4>1. queue[head] \in Tasks \cup {NoTask}
                BY <1>0 DEF TypeOK
            <4>2. taken \in Seq(Tasks \cup {NoTask}) /\ taken' = Append(taken, queue[head])
                BY <1>0, <2>1 DEF TypeOK, WorkerTake
            <4> QED  BY <1>0, <2>1, <4>1, <4>2 DEF TypeOK, WorkerTake
        <3>2. Executing' = Executing \cup {w} /\ w \notin Executing
            BY <3>1 DEF Executing
        <3>3. Cardinality(Executing') = Cardinality(Executing) + 1 /\ Cardinality(Executing) \in Nat
            BY <3>2, CountsFinite, FS_AddElement
        <3>4. Cardinality(done) \in Nat
            BY CountsFinite DEF PInv, PoolInv
        <3> QED  BY <1>0, <1>1, <3>1, <3>3, <3>4 DEF CountInv
    <2>2. CASE ~WorkerTake(w)
        <3>1. /\ taken' = taken
              /\ \A v \in Workers : wpc'[v] = "exec" <=> wpc[v] = "exec"
            BY <1>0, <2>2 DEF TypeOK, WorkerPart, WorkerPoolStep, WorkerStatement, WorkerLock,
                WorkerWait, SpuriousWakeup, WorkerWake, WorkerExit, WorkerCompleted
        <3>2. Executing' = Executing
            BY <3>1 DEF Executing
        <3> QED  BY <1>0, <1>1, <3>1, <3>2 DEF CountInv
    <2> QED  BY <2>1, <2>2
<1> QED  BY <1>4, <1>6, <1>7, <1>8 DEF Rest

\* A step of main, in its own code or inside the pool's, moves no task.
LEMMA MainKeeps ==
    ASSUME PInv, UNCHANGED <<program, joins, taskVars, wpc, done, taken>>,
           mpc' \in {"submit", "nap", "poll", "destroy", "end"}, MainInv'
    PROVE  Rest'
<1>1. PTypeOK'
    BY DEF PInv, PTypeOK, taskVars
<1>2. TaskInv' /\ SafeInv' /\ UnsafeInv'
    BY BalanceKept
<1>3. CountInv'
    BY DEF PInv, CountInv, Executing
<1> QED  BY <1>1, <1>2, <1>3 DEF Rest

LEMMA ClientPartInv ==
    ASSUME PInv, ClientPart
    PROVE  Rest'
<1>0. TypeOK /\ PTypeOK /\ MainInv
    BY DEF PInv, PoolInv
<1>1. /\ UNCHANGED <<program, joins, taskVars, wpc, done, taken, task_completed>>
      /\ IF Refused THEN mpc' \in {"submit", "nap"} ELSE mpc' = mpc
    BY DEF ClientPart, AfterRefusal, ClientStep, AddLock, AddFull, AddPut, DestroyLock,
        DestroyBroadcast, DestroyFree
<1>2. MainInv'
    <2>1. CASE AddLock(Main) \/ AddFull(Main) \/ AddPut(Main)
        <3>1. /\ cpc[Main] \in {"add", "put"} /\ cpc'[Main] \in {"put", "idle"}
              /\ cpc[Main] = "put" => cpc'[Main] = "idle"
              /\ freed' = freed
            BY <1>0, <2>1, Load DEF TypeOK, AddLock, AddFull, AddPut
        <3>2. mpc = "submit" /\ mpc' \in {"submit", "nap"}
            BY <1>0, <1>1, <3>1 DEF MainInv
        <3>3. cpc'[Main] = "put" => mpc' = "submit"
            BY <1>1, <3>1, <3>2 DEF Refused
        <3> QED  BY <1>0, <1>1, <3>1, <3>2, <3>3 DEF MainInv
    <2>2. CASE DestroyLock(Main) \/ DestroyBroadcast(Main) \/ DestroyFree(Main)
        <3>1. /\ cpc[Main] \in {"destroy", "broadcast", "join"}
              /\ cpc'[Main] \in {"broadcast", "join", "returned"}
              /\ accepted' = accepted /\ count' = count
            BY <1>0, <2>2, Load DEF TypeOK, DestroyLock, DestroyBroadcast, DestroyFree
        <3>2. mpc' = mpc
            BY <1>1, <3>1 DEF Refused
        <3> QED  BY <1>0, <1>1, <3>1, <3>2 DEF MainInv, AllCompleted
    <2> QED  BY <2>1, <2>2 DEF ClientPart, ClientStep
<1>3. mpc' \in {"submit", "nap", "poll", "destroy", "end"}
    BY <1>0, <1>1 DEF PTypeOK
<1> QED  BY <1>1, <1>2, <1>3, MainKeeps

LEMMA MainStepInv ==
    ASSUME PInv, MainStep
    PROVE  Rest'
<1>0. TypeOK /\ PTypeOK /\ MainInv
    BY DEF PInv, PoolInv
<1>1. UNCHANGED <<program, joins, taskVars, wpc, done, taken, accepted, count, task_completed>>
    BY DEF MainStep, MainAdd, NapEnds, MainSubmitted, MainPoll, MainDestroy, MainFree, MainReport,
        mainVars, CallAdd, CallDestroy
<1>2. MainInv' /\ mpc' \in {"submit", "nap", "poll", "destroy", "end"}
    <2>1. CASE MainAdd
        <3>1. /\ mpc = "submit" /\ mpc' = mpc /\ cpc[Main] = "idle" /\ cpc'[Main] = "add"
              /\ freed' = freed
            BY <1>0, <2>1, Load DEF TypeOK, MainAdd, CallAdd, mainVars
        <3> QED  BY <1>0, <1>1, <3>1 DEF MainInv
    <2>7. CASE NapEnds
        BY <1>0, <1>1, <2>7 DEF NapEnds, MainInv
    <2>2. CASE MainSubmitted
        BY <1>0, <1>1, <2>2 DEF MainSubmitted, MainInv
    <2>3. CASE MainPoll
        <3>1. /\ mpc = "poll" /\ mpc' = "destroy" /\ cpc' = cpc /\ freed' = freed
              /\ IF program = "dummy_task" THEN AllCompleted ELSE count = 0
            BY <2>3 DEF MainPoll, QueueEmptied
        <3> QED  BY <1>0, <1>1, <3>1 DEF MainInv, AllCompleted
    <2>4. CASE MainDestroy
        <3>1. /\ mpc = "destroy" /\ mpc' = mpc /\ joins /\ cpc'[Main] = "destroy"
            BY <1>0, <2>4, Load DEF TypeOK, MainDestroy, CallDestroy, mainVars
        <3> QED  BY <1>0, <1>1, <3>1 DEF MainInv, AllCompleted
    <2>5. CASE MainFree
        <3>1. mpc = "destroy" /\ mpc' = mpc /\ ~joins /\ cpc'[Main] = "returned"
            BY <1>0, <2>5, Load DEF TypeOK, MainFree, mainVars
        <3> QED  BY <1>0, <1>1, <3>1 DEF MainInv, AllCompleted
    <2>6. CASE MainReport
        BY <1>0, <1>1, <2>6 DEF MainReport, MainInv, AllCompleted
    <2> QED  BY <2>1, <2>2, <2>3, <2>4, <2>5, <2>6, <2>7 DEF MainStep
<1> QED  BY <1>1, <1>2, MainKeeps

LEMMA PollingNextInv == PInv /\ [PollingNext]_pvars => PInv'
<1> SUFFICES ASSUME PInv, [PollingNext]_pvars PROVE PInv'
    OBVIOUS
<1>1. PoolInv'
    BY PoolInvNext
<1>2. Rest'
    <2>1. CASE UNCHANGED pvars
        <3>1. mpc' \in {"submit", "nap", "poll", "destroy", "end"} /\ MainInv'
            BY <2>1 DEF pvars, mainVars, PInv, PTypeOK, MainInv, AllCompleted
        <3> QED  BY <2>1, <3>1, MainKeeps DEF pvars, mainVars
    <2>2. CASE Terminated /\ mpc = "end" /\ UNCHANGED <<mainVars, taskVars>>
        BY <2>1, <2>2 DEF Terminated, pvars
    <2> QED  BY <2>1, <2>2, TaskBeginInv, TaskReadInv, TaskWriteInv, DepositReturnInv,
                DummyReturnInv, WorkerPartInv, ClientPartInv, MainStepInv
             DEF PollingNext, TaskStep
<1> QED  BY <1>1, <1>2 DEF PInv, Rest

-----------------------------------------------------------------------------
(* The theorems *)

\* The counts of accepted, taken, running and finished tasks and the balance
\* agree in every reachable state of every program.
THEOREM PollingInductive == PollingSpec => []PInv
BY PollingInitInv, PollingNextInv, PTL DEF PollingSpec

\* A program whose destroy joins the workers uses the pool as TaskPool allows,
\* whichever task it submits and however its retries and polls interleave with
\* the workers.  (Chapter 5's destroy does not: it releases a pool whose tasks run.)
THEOREM JoiningProgramUsesTaskPool == PollingSpec /\ joins => ImplementsTaskPool
<1>1. PollingInit => Init
    BY DEF PollingInit
<1>2. joins /\ [PollingNext]_pvars => joins' /\ [Next]_vars
    <2>1. joins => ~MainFree
        BY DEF MainFree
    <2> QED  BY <2>1, PoolStep, ProgramFixed
<1>3. PollingSpec /\ joins => Spec
    BY <1>1, <1>2, PTL DEF PollingSpec, Spec
<1> QED  BY <1>3, Implements

\* What the deposit test reports as lost is what is still being deposited; with
\* a destroy that joins, nothing; without the lock, deposits overwrite each
\* other, but never all of them.
THEOREM BalanceIsExplained == PollingSpec => []BalanceExplained
<1>1. PInv => BalanceExplained
    <2> SUFFICES ASSUME PInv, mpc = "end" PROVE BalanceExplained
        BY DEF BalanceExplained
    <2>0. /\ TypeOK /\ RingInv /\ FiniteDone /\ PTypeOK /\ MainInv /\ CountInv
          /\ TaskInv /\ SafeInv /\ UnsafeInv
        BY DEF PInv, PoolInv
    <2>1. /\ Cardinality(done) \in Nat
          /\ Cardinality(Executing) \in Nat /\ IsFiniteSet(Executing)
          /\ Cardinality(Executing) <= Cardinality(Workers)
          /\ Cardinality(Deposits) \in Nat /\ IsFiniteSet(Deposits)
          /\ g_balance \in Nat
        BY <2>0, CountsFinite DEF PTypeOK
    <2>2. ASSUME program # "dummy_task"
          PROVE  Cardinality(done) + Cardinality(Executing) = task_count
        <3>1. Len(accepted) = task_count /\ count = 0 /\ Len(taken) \in Nat
            BY <2>0, <2>2 DEF MainInv, TypeOK
        <3> QED  BY <2>0, <3>1 DEF RingInv, CountInv
    <2>3. Cardinality(Executing) = Cardinality(Deposits) + Cardinality(Depositing)
          /\ Cardinality(Depositing) \in Nat
        <3>1. Deposits \in SUBSET Executing
            BY <2>0 DEF Deposits, Executing, TaskInv
        <3>2. Depositing = Executing \ Deposits
            BY <2>0 DEF Depositing, Executing, Deposits, PTypeOK
        <3>3. Executing \cap Deposits = Deposits
            BY <3>1
        <3>4. Cardinality(Executing \ Deposits) = Cardinality(Executing) - Cardinality(Executing \cap Deposits)
            BY <2>1, FS_Difference
        <3>5. IsFiniteSet(Depositing)
            BY <2>1, <3>2, FS_Difference
        <3>6. Cardinality(Depositing) \in Nat
            BY <3>5, FS_CardinalityType
        <3> QED  BY <2>1, <3>2, <3>3, <3>4, <3>6
    <2>4. ASSUME program = "deposit_task_safe"
          PROVE  g_balance + Cardinality(Depositing) = task_count
        BY <2>0, <2>1, <2>2, <2>3, <2>4 DEF SafeInv, DepositCount
    <2>5. ASSUME program = "deposit_task_safe", joins
          PROVE  g_balance = task_count
        <3>1. IndInv
            BY <2>5 DEF PInv, PoolInv
        <3>2. \A w \in Workers : wpc[w] = "exited"
            BY <2>0, <3>1, Load DEF MainInv, IndInv, DestroyInv
        <3>3. Depositing = {}
            BY <3>2 DEF Depositing
        <3>4. Cardinality(Depositing) = 0
            BY <3>3, FS_EmptySet
        <3> QED  BY <2>1, <2>4, <2>5, <3>4
    <2>6. ASSUME program = "deposit_task"
          PROVE  g_balance \in 1 .. task_count
        <3>1. g_balance <= DepositCount /\ (DepositCount > 0 => g_balance > 0)
            BY <2>0, <2>6 DEF UnsafeInv
        <3>2. DepositCount = Cardinality(done) + Cardinality(Deposits)
            BY DEF DepositCount
        <3>3. Cardinality(done) + Cardinality(Executing) = task_count
            BY <2>2, <2>6
        <3> QED  BY <2>1, <2>3, <3>1, <3>2, <3>3, Load
    <2> QED  BY <2>4, <2>5, <2>6 DEF BalanceExplained
<1> QED  BY PollingInductive, <1>1, PTL

\* The benchmark destroys the pool when every task was executed and counted:
\* the shutdown can drop nothing.
THEOREM BenchmarkDropsNothing == PollingSpec => []NothingDropped
<1>1. PInv => NothingDropped
    <2> SUFFICES ASSUME PInv, mpc = "destroy", program = "dummy_task"
                 PROVE  /\ done = Tasks /\ count = 0
                        /\ \A w \in Workers : wpc[w] \notin {"exec", "completed"}
        BY DEF NothingDropped
    <2> DEFINE C == {w \in Workers : wpc[w] = "completed"}
    <2>1. IndInv /\ FiniteDone /\ CountInv /\ MainInv
        BY DEF PInv, PoolInv, MainInv
    <2>2. /\ TypeOK /\ Len(accepted) = Len(taken) + count /\ task_completed \in Nat
          /\ task_completed + Cardinality(C) = Cardinality(done)
          /\ count \in Nat /\ Len(taken) \in Nat
        BY <2>1, QueueSizeAssumption DEF IndInv, TypeOK, RingInv, CompletedCounter
    <2>3. task_completed >= task_count /\ Len(accepted) = task_count
        BY <2>1 DEF MainInv, AllCompleted
    <2>4. Cardinality(done) + Cardinality(Executing) = Len(taken)
        BY <2>1 DEF CountInv
    <2>5. C \in SUBSET Workers
        OBVIOUS
    <2>6. IsFiniteSet(C) /\ Cardinality(C) \in Nat
        BY <2>5, WorkersAssumption, FS_Subset, FS_CardinalityType
    <2>7. /\ Cardinality(Executing) \in Nat /\ IsFiniteSet(Executing)
          /\ Cardinality(done) \in Nat /\ task_count \in Nat
        BY <2>1, CountsFinite, Load
    <2> HIDE DEF C
    <2>8. /\ Cardinality(C) = 0 /\ Cardinality(Executing) = 0 /\ count = 0
          /\ Cardinality(done) = task_count
        BY <2>2, <2>3, <2>4, <2>6, <2>7
    <2>9. C = {} /\ Executing = {}
        BY <2>6, <2>7, <2>8, FS_EmptySet
    <2>10. done = Tasks
        <3>1. done \in SUBSET Tasks /\ IsFiniteSet(Tasks) /\ Cardinality(Tasks) = Cardinality(done)
            BY <2>2, <2>8, LoadAssumption DEF TypeOK, task_count
        <3> QED  BY <3>1, FS_Subset
    <2> QED  BY <2>8, <2>9, <2>10 DEF C, Executing
<1> QED  BY PollingInductive, <1>1, PTL

=============================================================================
