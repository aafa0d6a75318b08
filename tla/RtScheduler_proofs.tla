------------------------ MODULE RtScheduler_proofs ------------------------
(***************************************************************************)
(* Proofs about RtScheduler, for any set of tasks, any size of the task    *)
(* table and of the trace, any number of activations, and whether or not   *)
(* threads can be created.  The second part is about PeriodicDemos: the    *)
(* task sets are those of the two programs there, and what is arbitrary is *)
(* how long they run, the sizes, and whether threads can be created.       *)
(***************************************************************************)
EXTENDS PeriodicDemosInv, FiniteSetTheorems, TLAPS

USE DEF vars, mainVars, taskVars, traceVars

-----------------------------------------------------------------------------
(* The inductive invariant *)

ThreadPC == {"none", "setup", "while", "func", "lock", "record", "sleep", "exited"}
MainPC == {"create", "spawn", "run", "join", "stopped", "crashed"}

TypeOK ==
    /\ root \in BOOLEAN /\ running \in BOOLEAN
    /\ table \in Seq(Tasks)
    /\ mpc \in MainPC /\ i \in Nat
    /\ tpc \in [Tasks -> ThreadPC]
    /\ policy \in [Tasks -> {"FIFO", "OTHER"} \X Int]
    /\ activations \in [Tasks -> Nat]
    /\ deadline_misses \in [Tasks -> Nat]
    /\ missed \in [Tasks -> BOOLEAN]
    /\ slot \in [Tasks -> Nat]
    /\ g_trace \in [0 .. MaxTrace - 1 -> [task : Tasks \cup {NoTask}, missed : BOOLEAN]]
    /\ g_trace_count \in Nat

\* No thread and no event precedes scheduler_start.
CreateInv == mpc = "create" => g_trace_count = 0 /\ \A t \in Tasks : tpc[t] = "none"

\* The owner of the trace lock knows g_trace_count.
RecordInv ==
    \A t \in Tasks : tpc[t] = "record" => g_trace_lock = t /\ slot[t] = g_trace_count

\* A task is in the table once, and only tasks in the table have threads.
TableInv ==
    /\ \A m, n \in 1 .. Len(table) : table[m] = table[n] => m = n
    /\ \A t \in Tasks : tpc[t] # "none" => \E n \in 1 .. Len(table) : table[n] = t

\* The loops of scheduler_start and scheduler_stop: what is ahead of the first
\* has no thread, what is behind the second has none any more.
SpawnInv ==
    mpc = "spawn" => i >= 1 /\ \A n \in 1 .. Len(table) : n >= i => tpc[table[n]] = "none"
JoinInv ==
    /\ mpc = "join" => \A n \in 1 .. Len(table) : n < i => tpc[table[n]] \in {"none", "exited"}
    /\ mpc = "stopped" => \A n \in 1 .. Len(table) : tpc[table[n]] \in {"none", "exited"}

\* A thread past its setup has the rank of its priority.
PolicyInv ==
    \A t \in Tasks :
        tpc[t] \notin {"none", "setup"} =>
            policy[t] = IF root THEN <<"FIFO", FifoLevel(Priority[t])>>
                                ELSE <<"OTHER", Nice(Priority[t])>>

IInv ==
    /\ TypeOK
    /\ CreateInv
    /\ RecordInv
    /\ TableInv
    /\ SpawnInv
    /\ JoinInv
    /\ PolicyInv
    /\ TraceAgreesWithStats

-----------------------------------------------------------------------------
(* The steps, conjunct by conjunct. *)

LEMMA TypeInit == Init => TypeOK
<1> SUFFICES ASSUME Init PROVE TypeOK
    OBVIOUS
<1>1. policy \in [Tasks -> {"FIFO", "OTHER"} \X Int]
    BY DEF Init
<1>2. g_trace \in [0 .. MaxTrace - 1 -> [task : Tasks \cup {NoTask}, missed : BOOLEAN]]
    BY DEF Init
<1>3. root \in BOOLEAN /\ running \in BOOLEAN
    BY DEF Init
<1>4. table \in Seq(Tasks)
    BY DEF Init
<1>5. mpc \in MainPC /\ i \in Nat
    BY DEF Init, MainPC
<1>6. tpc \in [Tasks -> ThreadPC]
    BY DEF Init, ThreadPC
<1>7. activations \in [Tasks -> Nat] /\ deadline_misses \in [Tasks -> Nat]
    BY DEF Init
<1>8. missed \in [Tasks -> BOOLEAN]
    BY DEF Init
<1>9. slot \in [Tasks -> Nat]
    BY DEF Init
<1>10. g_trace_count \in Nat
    BY DEF Init
<1> QED  BY <1>1, <1>2, <1>3, <1>4, <1>5, <1>6, <1>7, <1>8, <1>9, <1>10, Zenon
         DEF TypeOK

LEMMA Levels ==
    ASSUME NEW t \in Tasks
    PROVE  /\ FifoLevel(Priority[t]) \in Int /\ Nice(Priority[t]) \in Int
           /\ Priority[t] \in 0 .. 99
<1>1. Priority[t] \in 0 .. 99
    BY SchedulerAssumption
<1> QED  BY <1>1 DEF FifoLevel, Nice

LEMMA TypeNext == IInv /\ [Next]_vars => TypeOK'
<1> SUFFICES ASSUME IInv, [Next]_vars PROVE TypeOK'
    OBVIOUS
<1> USE DEF TypeOK
<1>0. TypeOK
    BY DEF IInv
<1>1. ASSUME NEW t \in Tasks, TaskCreate(t) PROVE TypeOK'
    BY <1>0, <1>1 DEF TaskCreate
<1>2. CASE SchedulerStart
    BY <1>0, <1>2 DEF SchedulerStart, MainPC
<1>3. CASE Spawn
    <2>1. i + 1 \in Nat
        BY <1>0
    <2>2. tpc' \in [Tasks -> ThreadPC]
        BY <1>0, <1>3 DEF Spawn, ThreadPC
    <2> QED  BY <1>0, <1>3, <2>1, <2>2 DEF Spawn
<1>4. CASE Started \/ SchedulerStop
    <2>1. mpc' \in MainPC
        BY <1>4 DEF Started, SchedulerStop, MainPC
    <2>2. i' \in Nat
        BY <1>0, <1>4 DEF Started, SchedulerStop
    <2>3. running' \in {running, FALSE}
        BY <1>4 DEF Started, SchedulerStop
    <2>4. running' \in BOOLEAN
        BY <1>0, <2>3, Zenon
    <2> QED  BY <1>0, <1>4, <2>1, <2>2, <2>4 DEF Started, SchedulerStop
<1>5. CASE JoinTask \/ JoinTick
    <2>1. i' \in Nat /\ mpc' \in MainPC
        BY <1>0, <1>5 DEF JoinTask, JoinTick, MainPC
    <2> QED  BY <1>0, <1>5, <2>1 DEF JoinTask, JoinTick
<1>6. CASE TickExit
    BY <1>0, <1>6 DEF TickExit
<1>7. ASSUME NEW t \in Tasks, Setup(t) PROVE TypeOK'
    <2>1. policy' \in [Tasks -> {"FIFO", "OTHER"} \X Int]
        BY <1>0, <1>7, Levels DEF Setup
    <2> QED  BY <1>0, <1>7, <2>1 DEF Setup, ThreadPC
<1>8. ASSUME NEW t \in Tasks, Activate(t) PROVE TypeOK'
    <2>1. activations' \in [Tasks -> Nat]
        BY <1>0, <1>8 DEF Activate
    <2> QED  BY <1>0, <1>8, <2>1 DEF Activate, ThreadPC
<1>9. ASSUME NEW t \in Tasks, Finish(t) PROVE TypeOK'
    <2>1. PICK late \in BOOLEAN :
            /\ missed' = [missed EXCEPT ![t] = late]
            /\ deadline_misses' = [deadline_misses EXCEPT ![t] =
                    IF late THEN deadline_misses[t] + 1 ELSE deadline_misses[t]]
        BY <1>9 DEF Finish
    <2>2. deadline_misses' \in [Tasks -> Nat] /\ missed' \in [Tasks -> BOOLEAN]
        <3>1. deadline_misses[t] \in Nat /\ deadline_misses[t] + 1 \in Nat
            BY <1>0
        <3> QED  BY <1>0, <2>1, <3>1
    <2> QED  BY <1>0, <1>9, <2>2 DEF Finish, ThreadPC
<1>10. ASSUME NEW t \in Tasks, TraceLock(t) PROVE TypeOK'
    BY <1>0, <1>10 DEF TraceLock, ThreadPC
<1>11. ASSUME NEW t \in Tasks, TraceRecord(t) PROVE TypeOK'
    <2>1. tpc' \in [Tasks -> ThreadPC]
        BY <1>0, <1>11 DEF TraceRecord, AfterRecord, ThreadPC
    <2>2. /\ g_trace' \in [0 .. MaxTrace - 1 -> [task : Tasks \cup {NoTask}, missed : BOOLEAN]]
          /\ g_trace_count' \in Nat
        <3>1. slot[t] \in Nat /\ slot[t] + 1 \in Nat
            BY <1>0
        <3>2. [task |-> t, missed |-> missed[t]]
                    \in [task : Tasks \cup {NoTask}, missed : BOOLEAN]
            BY <1>0
        <3>3. CASE RoomInTrace(t)
            <4>1. /\ g_trace_count' = slot[t] + 1
                  /\ g_trace' = [g_trace EXCEPT ![slot[t]] = [task |-> t, missed |-> missed[t]]]
                BY <1>11, <3>3 DEF TraceRecord
            <4> QED  BY <1>0, <3>1, <3>2, <4>1
        <3>4. CASE ~RoomInTrace(t)
            <4>1. g_trace_count' = g_trace_count /\ g_trace' = g_trace
                BY <1>11, <3>4 DEF TraceRecord
            <4> QED  BY <1>0, <4>1
        <3> QED  BY <3>3, <3>4
    <2> QED  BY <1>0, <1>11, <2>1, <2>2 DEF TraceRecord
<1>12. ASSUME NEW t \in Tasks, Wake(t) \/ Leave(t) PROVE TypeOK'
    BY <1>0, <1>12 DEF Wake, Leave, ThreadPC
<1>13. CASE UNCHANGED vars
    BY <1>0, <1>13
<1> QED  BY <1>1, <1>2, <1>3, <1>4, <1>5, <1>6, <1>7, <1>8, <1>9, <1>10, <1>11, <1>12, <1>13
         DEF Next, ThreadStep, TaskStep, MainStep, TickStep, Ended

\* What a step of a task's thread changes outside its own variables.
LEMMA ThreadMoves ==
    ASSUME TypeOK, NEW t \in Tasks, TaskStep(t)
    PROVE  /\ UNCHANGED mainVars
           /\ tpc[t] \notin {"none", "exited"} /\ tpc'[t] # "none"
           /\ \A u \in Tasks : u # t => tpc'[u] = tpc[u]
BY DEF TypeOK, TaskStep, Setup, Activate, Finish, TraceLock, TraceRecord, AfterRecord, Wake, Leave

\* A thread exists only after scheduler_start and before the end of the join.
LEMMA MainNext ==
    IInv /\ [Next]_vars => CreateInv' /\ TableInv' /\ SpawnInv' /\ JoinInv'
<1> SUFFICES ASSUME IInv, [Next]_vars PROVE CreateInv' /\ TableInv' /\ SpawnInv' /\ JoinInv'
    OBVIOUS
<1> USE DEF CreateInv, TableInv, SpawnInv, JoinInv
<1>0. TypeOK /\ CreateInv /\ TableInv /\ SpawnInv /\ JoinInv
    BY DEF IInv
<1>00. Len(table) \in Nat /\ i \in Nat /\ \A n \in 1 .. Len(table) : table[n] \in Tasks
    BY <1>0 DEF TypeOK
<1>1. ASSUME NEW t \in Tasks, TaskStep(t)
      PROVE  CreateInv' /\ TableInv' /\ SpawnInv' /\ JoinInv'
    <2>1. /\ UNCHANGED mainVars
          /\ tpc[t] \notin {"none", "exited"} /\ tpc'[t] # "none"
          /\ \A u \in Tasks : u # t => tpc'[u] = tpc[u]
        BY <1>0, <1>1, ThreadMoves
    <2>2. CreateInv'
        BY <1>0, <2>1
    <2>3. TableInv'
        BY <1>0, <2>1
    <2>4. SpawnInv'
        BY <1>0, <1>00, <2>1
    <2>5. JoinInv'
        BY <1>0, <1>00, <2>1
    <2> QED  BY <2>2, <2>3, <2>4, <2>5
<1>2. ASSUME NEW t \in Tasks, TaskCreate(t)
      PROVE  CreateInv' /\ TableInv' /\ SpawnInv' /\ JoinInv'
    <2>1. /\ mpc = "create" /\ mpc' = mpc /\ tpc' = tpc /\ g_trace_count' = g_trace_count
          /\ \A n \in 1 .. Len(table) : table[n] # t
          /\ table \in Seq(Tasks) /\ table' = Append(table, t)
        BY <1>0, <1>2 DEF TaskCreate, TypeOK
    <2>2. /\ Len(table') = Len(table) + 1 /\ table'[Len(table) + 1] = t
          /\ \A n \in 1 .. Len(table) : table'[n] = table[n]
        BY <2>1
    <2>3. \A m, n \in 1 .. Len(table') : table'[m] = table'[n] => m = n
        <3>1. \A n \in 1 .. Len(table') : n \in 1 .. Len(table) \/ n = Len(table) + 1
            BY <1>00, <2>2
        <3> QED  BY <1>0, <2>1, <2>2, <3>1
    <2> QED  BY <1>0, <2>1, <2>3
<1>3. CASE SchedulerStart
    <2>1. /\ mpc = "create" /\ mpc' = "spawn" /\ i' = 1 /\ tpc' = tpc /\ table' = table
        BY <1>3 DEF SchedulerStart
    <2> QED  BY <1>0, <1>00, <2>1
<1>4. CASE Spawn
    <2>1. /\ mpc = "spawn" /\ mpc' = mpc /\ i' = i + 1 /\ i <= Len(table) /\ i >= 1
          /\ table' = table
          /\ \A u \in Tasks : u # table[i] => tpc'[u] = tpc[u]
        BY <1>0, <1>4 DEF Spawn, TypeOK
    <2>2. i \in 1 .. Len(table)
        BY <1>00, <2>1
    <2>3. \A n \in 1 .. Len(table) : n >= i + 1 => table[n] # table[i] /\ tpc[table[n]] = "none"
        BY <1>0, <1>00, <2>1, <2>2
    <2>4. SpawnInv'
        BY <1>00, <2>1, <2>3
    <2>5. TableInv'
        BY <1>0, <2>1, <2>2
    <2> QED  BY <2>1, <2>4, <2>5
<1>5. CASE Started \/ SchedulerStop
    <2>1. /\ mpc \in {"spawn", "run"} /\ mpc' \in {"run", "join"} /\ tpc' = tpc /\ table' = table
          /\ mpc' = "join" => i' = 1
        BY <1>5 DEF Started, SchedulerStop
    <2> QED  BY <1>0, <1>00, <2>1
<1>6. CASE JoinTask
    <2>1. /\ mpc = "join" /\ mpc' \in {"join", "crashed"} /\ tpc' = tpc /\ table' = table
          /\ i <= Len(table)
          /\ mpc' = "join" => i' = i + 1 /\ tpc[table[i]] \in {"none", "exited"}
        BY <1>6 DEF JoinTask, Joinable
    <2>2. \A n \in 1 .. Len(table) : n < i + 1 => n < i \/ n = i
        BY <1>00
    <2>3. JoinInv'
        BY <1>0, <2>1, <2>2
    <2> QED  BY <1>0, <2>1, <2>3
<1>7. CASE JoinTick
    <2>1. /\ mpc = "join" /\ mpc' \in {"stopped", "crashed"} /\ tpc' = tpc /\ table' = table
          /\ i > Len(table)
        BY <1>7 DEF JoinTick
    <2> QED  BY <1>0, <1>00, <2>1
<1>8. CASE TickExit \/ UNCHANGED vars
    BY <1>0, <1>8 DEF TickExit
<1> QED  BY <1>1, <1>2, <1>3, <1>4, <1>5, <1>6, <1>7, <1>8
         DEF Next, ThreadStep, MainStep, TickStep, Ended

\* Steps of main and of the tick thread touch no trace once threads exist, and
\* start only threads that did not exist.
LEMMA MainMoves ==
    ASSUME IInv, NEW T, T = Tasks,
           MainStep \/ TickStep \/ Ended \/ UNCHANGED vars \/ \E t \in Tasks : TaskCreate(t)
    PROVE  /\ UNCHANGED <<root, policy, activations, deadline_misses, missed, slot,
                          g_trace_lock, g_trace, g_trace_count>>
           /\ \A t \in T : tpc'[t] = tpc[t] \/ (tpc[t] = "none" /\ tpc'[t] = "setup")
<1>0. TypeOK /\ CreateInv /\ SpawnInv
    BY DEF IInv
<1>1. CASE Spawn
    <2>1. /\ i \in 1 .. Len(table) /\ table[i] \in Tasks
        BY <1>0, <1>1 DEF Spawn, SpawnInv, TypeOK
    <2>2. tpc[table[i]] = "none"
        <3>1. mpc = "spawn" /\ i >= i
            BY <1>1, <2>1 DEF Spawn
        <3> QED  BY <1>0, <2>1, <3>1 DEF SpawnInv
    <2> QED  BY <1>0, <1>1, <2>1, <2>2 DEF Spawn, TypeOK
<1>2. CASE SchedulerStart
    BY <1>0, <1>2 DEF SchedulerStart, CreateInv
<1>3. CASE Started \/ SchedulerStop \/ JoinTask \/ JoinTick \/ TickStep \/ Ended \/ UNCHANGED vars
           \/ \E t \in Tasks : TaskCreate(t)
    BY <1>3 DEF Started, SchedulerStop, JoinTask, JoinTick, TickStep, TickExit, Ended, TaskCreate
<1> QED  BY <1>1, <1>2, <1>3 DEF MainStep

LEMMA RecordNext == IInv /\ [Next]_vars => RecordInv'
<1> SUFFICES ASSUME IInv, [Next]_vars PROVE RecordInv'
    OBVIOUS
<1> USE DEF RecordInv
<1>0. TypeOK /\ RecordInv
    BY DEF IInv
<1>1. ASSUME NEW t \in Tasks, TaskStep(t) PROVE RecordInv'
    <2>0. \A u \in Tasks : u # t => tpc'[u] = tpc[u]
        BY <1>0, <1>1, ThreadMoves
    <2>1. CASE TraceLock(t)
        <3>1. /\ g_trace_lock = Nobody /\ g_trace_lock' = t /\ g_trace_count' = g_trace_count
              /\ slot'[t] = g_trace_count
            BY <1>0, <2>1 DEF TraceLock, TraceLockFree, TypeOK
        <3>2. \A u \in Tasks : tpc[u] # "record"
            BY <1>0, <3>1, SchedulerAssumption
        <3> QED  BY <2>0, <3>1, <3>2
    <2>2. CASE TraceRecord(t)
        <3>1. /\ tpc[t] = "record" /\ tpc'[t] \in {"sleep", "exited"}
            BY <1>0, <2>2 DEF TraceRecord, AfterRecord, TypeOK
        <3>2. \A u \in Tasks : u # t => tpc[u] # "record"
            BY <1>0, <3>1
        <3> QED  BY <2>0, <3>1, <3>2
    <2>3. CASE ~TraceLock(t) /\ ~TraceRecord(t)
        <3>1. /\ UNCHANGED <<slot, g_trace_lock, g_trace_count>> /\ tpc'[t] # "record"
            BY <1>0, <1>1, <2>3 DEF TaskStep, Setup, Activate, Finish, Wake, Leave, TypeOK
        <3> QED  BY <1>0, <2>0, <3>1
    <2> QED  BY <2>1, <2>2, <2>3
<1>2. CASE MainStep \/ TickStep \/ Ended \/ UNCHANGED vars \/ \E t \in Tasks : TaskCreate(t)
    <2>1. /\ UNCHANGED <<slot, g_trace_lock, g_trace_count>>
          /\ \A t \in Tasks : tpc'[t] = "record" => tpc[t] = "record"
        BY <1>2, MainMoves
    <2> QED  BY <1>0, <2>1
<1> QED  BY <1>1, <1>2 DEF Next, ThreadStep

LEMMA PolicyNext == IInv /\ [Next]_vars => PolicyInv'
<1> SUFFICES ASSUME IInv, [Next]_vars PROVE PolicyInv'
    OBVIOUS
<1>0. TypeOK /\ PolicyInv
    BY DEF IInv
<1>1. ASSUME NEW t \in Tasks, TaskStep(t) PROVE PolicyInv'
    <2>0. /\ \A u \in Tasks : u # t => tpc'[u] = tpc[u]
          /\ root' = root
        BY <1>0, <1>1, ThreadMoves
    <2>1. CASE Setup(t)
        <3>1. /\ policy'[t] = IF root THEN <<"FIFO", FifoLevel(Priority[t])>>
                                      ELSE <<"OTHER", Nice(Priority[t])>>
              /\ \A u \in Tasks : u # t => policy'[u] = policy[u]
            BY <1>0, <2>1 DEF Setup, TypeOK
        <3> QED  BY <1>0, <2>0, <3>1 DEF PolicyInv
    <2>2. CASE ~Setup(t)
        <3>1. policy' = policy /\ tpc[t] \notin {"none", "setup"}
            BY <1>1, <2>2 DEF TaskStep, Activate, Finish, TraceLock, TraceRecord, Wake, Leave
        <3> QED  BY <1>0, <2>0, <3>1 DEF PolicyInv
    <2> QED  BY <2>1, <2>2
<1>2. CASE MainStep \/ TickStep \/ Ended \/ UNCHANGED vars \/ \E t \in Tasks : TaskCreate(t)
    <2>1. /\ UNCHANGED <<root, policy>>
          /\ \A t \in Tasks : tpc'[t] \notin {"none", "setup"} => tpc[t] \notin {"none", "setup"}
        BY <1>2, MainMoves
    <2> QED  BY <1>0, <2>1 DEF PolicyInv
<1> QED  BY <1>1, <1>2 DEF Next, ThreadStep

-----------------------------------------------------------------------------
(* The trace and the statistics. *)

LEMMA EventsFinite ==
    ASSUME TypeOK, NEW t \in Tasks
    PROVE  /\ IsFiniteSet(Events(t)) /\ Cardinality(Events(t)) \in Nat
           /\ IsFiniteSet(Misses(t)) /\ Cardinality(Misses(t)) \in Nat
<1>1. IsFiniteSet(0 .. g_trace_count - 1)
    BY FS_Interval DEF TypeOK
<1>2. Events(t) \in SUBSET (0 .. g_trace_count - 1) /\ Misses(t) \in SUBSET (0 .. g_trace_count - 1)
    BY DEF Events, Misses
<1> QED  BY <1>1, <1>2, FS_Subset, FS_CardinalityType

\* A step that leaves the trace, the statistics and who owes it an event alone.
LEMMA StatsKept ==
    ASSUME TraceAgreesWithStats, UNCHANGED <<g_trace, g_trace_count, activations, deadline_misses>>,
           \A t \in Tasks :
               /\ (tpc'[t] = "func" \/ Unrecorded(t)') <=> (tpc[t] = "func" \/ Unrecorded(t))
               /\ (Unrecorded(t)' /\ missed'[t]) <=> (Unrecorded(t) /\ missed[t])
    PROVE  TraceAgreesWithStats'
<1>1. \A t \in Tasks : Events(t)' = Events(t)
    BY DEF Events
<1>2. \A t \in Tasks : Misses(t)' = Misses(t)
    BY <1>1 DEF Misses
<1> QED  BY <1>1, <1>2 DEF TraceAgreesWithStats

LEMMA StatsActivate ==
    ASSUME IInv, NEW t \in Tasks, Activate(t)
    PROVE  TraceAgreesWithStats'
<1>0. TypeOK /\ TraceAgreesWithStats
    BY DEF IInv
<1>1. /\ UNCHANGED <<g_trace, g_trace_count, deadline_misses, missed>>
      /\ tpc[t] = "while" /\ tpc'[t] = "func" /\ activations'[t] = activations[t] + 1
      /\ \A u \in Tasks : u # t => tpc'[u] = tpc[u] /\ activations'[u] = activations[u]
    BY <1>0 DEF Activate, TypeOK
<1>2. \A u \in Tasks : Events(u)' = Events(u)
    BY <1>1 DEF Events
<1>3. \A u \in Tasks : Misses(u)' = Misses(u)
    BY <1>1, <1>2 DEF Misses
<1>4. Cardinality(Events(t)) \in Nat
    BY <1>0, EventsFinite
<1> QED  BY <1>0, <1>1, <1>2, <1>3, <1>4 DEF TraceAgreesWithStats, Unrecorded

LEMMA StatsFinish ==
    ASSUME IInv, NEW t \in Tasks, Finish(t)
    PROVE  TraceAgreesWithStats'
<1>0. TypeOK /\ TraceAgreesWithStats
    BY DEF IInv
<1>1. PICK late \in BOOLEAN :
        /\ missed' = [missed EXCEPT ![t] = late]
        /\ deadline_misses' = [deadline_misses EXCEPT ![t] =
                IF late THEN deadline_misses[t] + 1 ELSE deadline_misses[t]]
    BY DEF Finish
<1>2. /\ UNCHANGED <<g_trace, g_trace_count, activations>>
      /\ tpc[t] = "func" /\ tpc'[t] = "lock"
      /\ missed'[t] = late
      /\ deadline_misses'[t] = deadline_misses[t] + (IF late THEN 1 ELSE 0)
      /\ \A u \in Tasks : u # t => /\ tpc'[u] = tpc[u] /\ missed'[u] = missed[u]
                                   /\ deadline_misses'[u] = deadline_misses[u]
    BY <1>0, <1>1 DEF Finish, TypeOK
<1>3. \A u \in Tasks : Events(u)' = Events(u)
    BY <1>2 DEF Events
<1>4. \A u \in Tasks : Misses(u)' = Misses(u)
    BY <1>2, <1>3 DEF Misses
<1>5. Cardinality(Misses(t)) \in Nat
    BY <1>0, EventsFinite
<1> QED  BY <1>0, <1>2, <1>3, <1>4, <1>5 DEF TraceAgreesWithStats, Unrecorded

\* The event goes to the slot after the last one, and to its own task's events.
LEMMA StatsRecord ==
    ASSUME IInv, NEW t \in Tasks, TraceRecord(t)
    PROVE  TraceAgreesWithStats'
<1>0. TypeOK /\ RecordInv /\ TraceAgreesWithStats
    BY DEF IInv
<1> DEFINE c == g_trace_count
<1>1. /\ tpc[t] = "record" /\ tpc'[t] \in {"sleep", "exited"} /\ slot[t] = c /\ c \in Nat
      /\ \A u \in Tasks : u # t => tpc'[u] = tpc[u]
      /\ UNCHANGED <<activations, deadline_misses, missed>>
    BY <1>0 DEF TraceRecord, AfterRecord, TypeOK, RecordInv
<1>2. CASE ~(c < MaxTrace)
    <2>1. UNCHANGED <<g_trace, g_trace_count>>
        BY <1>1, <1>2 DEF TraceRecord, RoomInTrace
    <2> QED  BY <1>0, <1>2, <2>1 DEF TraceAgreesWithStats
<1>3. CASE c < MaxTrace
    <2>1. /\ g_trace_count' = c + 1
          /\ g_trace' = [g_trace EXCEPT ![c] = [task |-> t, missed |-> missed[t]]]
        BY <1>1, <1>3 DEF TraceRecord, RoomInTrace
    <2>2. /\ g_trace'[c] = [task |-> t, missed |-> missed[t]]
          /\ \A n \in 0 .. c - 1 : g_trace'[n] = g_trace[n]
          /\ 0 .. g_trace_count' - 1 = (0 .. c - 1) \cup {c} /\ c \notin 0 .. c - 1
        <3>1. c \in 0 .. MaxTrace - 1 /\ \A n \in 0 .. c - 1 : n \in 0 .. MaxTrace - 1 /\ n # c
            BY <1>1, <1>3, SchedulerAssumption
        <3> QED  BY <1>0, <1>1, <2>1, <3>1 DEF TypeOK
    <2> HIDE DEF c
    <2>3. Events(t)' = Events(t) \cup {c} /\ c \notin Events(t)
        BY <2>2 DEF Events, c
    <2>4. \A u \in Tasks : u # t => Events(u)' = Events(u)
        BY <2>2 DEF Events, c
    <2>5. /\ Misses(t)' = IF missed[t] THEN Misses(t) \cup {c} ELSE Misses(t)
          /\ c \notin Misses(t)
        <3>1. \A n \in Events(t) : g_trace'[n] = g_trace[n]
            BY <2>2 DEF Events, c
        <3>2. g_trace'[c].missed = missed[t]
            BY <2>2
        <3> QED  BY <2>3, <3>1, <3>2 DEF Misses
    <2>6. \A u \in Tasks : u # t => Misses(u)' = Misses(u)
        <3>1. \A u \in Tasks : \A n \in Events(u) : g_trace'[n] = g_trace[n]
            BY <2>2 DEF Events, c
        <3> QED  BY <2>4, <3>1 DEF Misses
    <2>7. /\ IsFiniteSet(Events(t)) /\ Cardinality(Events(t)) \in Nat
          /\ IsFiniteSet(Misses(t)) /\ Cardinality(Misses(t)) \in Nat
        BY <1>0, EventsFinite
    <2>8. /\ Cardinality(Events(t)') = Cardinality(Events(t)) + 1
          /\ Cardinality(Misses(t)') = Cardinality(Misses(t)) + (IF missed[t] THEN 1 ELSE 0)
        <3>1. Cardinality(Events(t) \cup {c}) = Cardinality(Events(t)) + 1
            BY <2>3, <2>7, FS_AddElement
        <3>2. Cardinality(Misses(t) \cup {c}) = Cardinality(Misses(t)) + 1
            BY <2>5, <2>7, FS_AddElement
        <3>3. CASE missed[t]
            BY <2>3, <2>5, <3>1, <3>2, <3>3
        <3>4. CASE ~missed[t]
            <4>1. Misses(t)' = Misses(t)
                BY <2>5, <3>4
            <4> QED  BY <2>3, <2>7, <3>1, <3>4, <4>1
        <3> QED  BY <3>3, <3>4
    <2>9. /\ activations[t] = Cardinality(Events(t)) + 1
          /\ deadline_misses[t] = Cardinality(Misses(t)) + (IF missed[t] THEN 1 ELSE 0)
        BY <1>0, <1>1, <1>3 DEF TraceAgreesWithStats, Unrecorded, c
    <2>10. /\ activations'[t] = Cardinality(Events(t)')
           /\ deadline_misses'[t] = Cardinality(Misses(t)')
        BY <1>1, <2>8, <2>9
    <2>11. g_trace_count' <= MaxTrace
        BY <1>1, <1>3, <2>1, SchedulerAssumption DEF c
    <2>12. \A n \in 0 .. g_trace_count' - 1 : g_trace'[n].task # NoTask
        BY <1>0, <2>2, SchedulerAssumption DEF TraceAgreesWithStats, c
    <2>13. \A u \in Tasks :
            /\ activations'[u] = Cardinality(Events(u)')
                    + (IF tpc'[u] = "func" \/ Unrecorded(u)' THEN 1 ELSE 0)
            /\ deadline_misses'[u] = Cardinality(Misses(u)')
                    + (IF Unrecorded(u)' /\ missed'[u] THEN 1 ELSE 0)
        <3>1. CASE g_trace_count < MaxTrace
            <4>1. ASSUME NEW u \in Tasks, u # t
                  PROVE  /\ activations'[u] = Cardinality(Events(u)')
                                + (IF tpc'[u] = "func" \/ Unrecorded(u)' THEN 1 ELSE 0)
                         /\ deadline_misses'[u] = Cardinality(Misses(u)')
                                + (IF Unrecorded(u)' /\ missed'[u] THEN 1 ELSE 0)
                BY <1>0, <1>1, <2>4, <2>6, <3>1, <4>1 DEF TraceAgreesWithStats, Unrecorded
            <4>2. tpc'[t] # "func" /\ ~Unrecorded(t)'
                BY <1>1 DEF Unrecorded
            <4>3. Cardinality(Events(t)') \in Nat /\ Cardinality(Misses(t)') \in Nat
                BY <2>7, <2>8
            <4> QED  BY <2>10, <4>1, <4>2, <4>3
        <3> QED  BY <1>3, <3>1 DEF c
    <2> QED  BY <2>11, <2>12, <2>13 DEF TraceAgreesWithStats
<1> QED  BY <1>2, <1>3

LEMMA StatsNext == IInv /\ [Next]_vars => TraceAgreesWithStats'
<1> SUFFICES ASSUME IInv, [Next]_vars PROVE TraceAgreesWithStats'
    OBVIOUS
<1>0. TypeOK /\ TraceAgreesWithStats
    BY DEF IInv
<1>1. ASSUME NEW t \in Tasks, Setup(t) \/ TraceLock(t) \/ Wake(t) \/ Leave(t)
      PROVE  TraceAgreesWithStats'
    <2>1. /\ UNCHANGED <<g_trace, g_trace_count, activations, deadline_misses, missed>>
          /\ \A u \in Tasks : u # t => tpc'[u] = tpc[u]
          /\ \/ tpc[t] = "lock" /\ tpc'[t] = "record"
             \/ /\ tpc[t] \in {"setup", "sleep", "while"}
                /\ tpc'[t] \in {"while", "exited"}
        BY <1>0, <1>1 DEF TypeOK, Setup, TraceLock, Wake, Leave
    <2> QED  BY <1>0, <2>1, StatsKept DEF Unrecorded
<1>2. CASE MainStep \/ TickStep \/ Ended \/ UNCHANGED vars \/ \E t \in Tasks : TaskCreate(t)
    <2>1. /\ UNCHANGED <<g_trace, g_trace_count, activations, deadline_misses, missed>>
          /\ \A t \in Tasks : tpc'[t] = tpc[t] \/ (tpc[t] = "none" /\ tpc'[t] = "setup")
        BY <1>2, MainMoves
    <2> QED  BY <1>0, <2>1, StatsKept DEF Unrecorded
<1> QED  BY <1>1, <1>2, StatsActivate, StatsFinish, StatsRecord DEF Next, ThreadStep, TaskStep

LEMMA InitInv == Init => IInv
<1> SUFFICES ASSUME Init PROVE IInv
    OBVIOUS
<1>1. TypeOK
    BY TypeInit
<1>2. CreateInv /\ RecordInv /\ TableInv /\ SpawnInv /\ JoinInv /\ PolicyInv
    BY DEF Init, CreateInv, RecordInv, TableInv, SpawnInv, JoinInv, PolicyInv
<1>3. TraceAgreesWithStats
    <2>1. \A t \in Tasks : Events(t) = {} /\ Misses(t) = {}
        BY DEF Init, Events, Misses
    <2>2. \A t \in Tasks : Cardinality(Events(t)) = 0 /\ Cardinality(Misses(t)) = 0
        BY <2>1, FS_EmptySet
    <2> QED  BY <2>2, SchedulerAssumption DEF Init, TraceAgreesWithStats, Unrecorded
<1> QED  BY <1>1, <1>2, <1>3 DEF IInv

-----------------------------------------------------------------------------
(* The theorems *)

\* The invariant of the scheduler: threads belong to entries of the table, are
\* started once and joined before the end, and the trace lock guards the count.
THEOREM Inductive == Spec => []IInv
<1>1. IInv /\ [Next]_vars => IInv'
    BY TypeNext, MainNext, RecordNext, PolicyNext, StatsNext DEF IInv
<1> QED  BY InitInv, <1>1, PTL DEF Spec

\* The trace has no hole, never outgrows its buffer, and agrees with the printed
\* statistics as long as it has room, whatever the number of tasks that record.
THEOREM TraceIsComplete == Spec => []TraceAgreesWithStats
<1>1. IInv => TraceAgreesWithStats
    BY DEF IInv
<1> QED  BY Inductive, <1>1, PTL

\* After scheduler_stop returned nothing writes statistics or events any more.
THEOREM StopIsFinal == Spec => QuietAfterStop
<1>1. ASSUME IInv, [Next]_vars, mpc = "stopped"
      PROVE  UNCHANGED <<state, activations, deadline_misses, traceVars>>
    <2>0. TypeOK /\ TableInv /\ JoinInv
        BY <1>1 DEF IInv
    <2>1. \A t \in Tasks : tpc[t] \in {"none", "exited"}
        BY <1>1, <2>0 DEF TableInv, JoinInv
    <2>2. \A t \in Tasks : ~TaskStep(t)
        BY <2>0, <2>1, ThreadMoves
    <2> QED  BY <1>1, <2>2 DEF Next, ThreadStep, TaskCreate, MainStep, SchedulerStart, Spawn,
                Started, SchedulerStop, JoinTask, JoinTick, TickStep, TickExit, Ended
<1>2. IInv /\ [Next]_vars =>
        [mpc = "stopped" => UNCHANGED <<state, activations, deadline_misses, traceVars>>]_vars
    BY <1>1
<1> QED  BY Inductive, <1>2, PTL DEF Spec, QuietAfterStop

\* The kernel's ranking is that of scheduler.h, except that as root the modulus
\* of the FIFO level demotes priority 99; niceness is right for every priority.
THEOREM RanksFollowPriorities == Spec => []PriorityOrder
<1>1. IInv => PriorityOrder
    <2> SUFFICES ASSUME IInv, NEW t \in Tasks, NEW u \in Tasks,
                        tpc[t] \notin {"none", "setup"}, tpc[u] \notin {"none", "setup"},
                        Priority[t] > Priority[u]
                 PROVE  Outranks(t, u) <=> ~Demoted(t, u)
        BY DEF PriorityOrder
    <2>1. PICK p \in 0 .. 99 : p = Priority[t]
        BY Levels
    <2>2. PICK q \in 0 .. 99 : q = Priority[u]
        BY Levels
    <2>3. CASE root
        <3>1. policy[t] = <<"FIFO", FifoLevel(p)>> /\ policy[u] = <<"FIFO", FifoLevel(q)>>
            BY <2>1, <2>2, <2>3 DEF IInv, PolicyInv
        <3>2. q < p /\ FifoLevel(q) = q + 1
            BY <2>1, <2>2 DEF FifoLevel
        <3>3. CASE p = 99
            <4>1. FifoLevel(p) = 1
                BY <3>3 DEF FifoLevel
            <4>2. Outranks(t, u) <=> q = 0
                BY <3>1, <3>2, <4>1 DEF Outranks
            <4> QED  BY <2>1, <2>2, <2>3, <3>3, <4>2 DEF Demoted
        <3>4. CASE p # 99
            <4>1. FifoLevel(p) = p + 1
                BY <3>4 DEF FifoLevel
            <4>2. Outranks(t, u)
                BY <3>1, <3>2, <4>1 DEF Outranks
            <4> QED  BY <2>1, <3>4, <4>2 DEF Demoted
        <3> QED  BY <3>3, <3>4
    <2>4. CASE ~root
        <3>1. policy[t] = <<"OTHER", Nice(p)>> /\ policy[u] = <<"OTHER", Nice(q)>>
            BY <2>1, <2>2, <2>4 DEF IInv, PolicyInv
        <3>2. Nice(p) <= Nice(q)
            BY <2>1, <2>2 DEF Nice
        <3> QED  BY <2>4, <3>1, <3>2 DEF Outranks, Demoted
    <2> QED  BY <2>3, <2>4 DEF IInv, TypeOK
<1> QED  BY Inductive, <1>1, PTL

-----------------------------------------------------------------------------
(* The demos are behaviours of the scheduler *)

USE DEF dvars, demoVars, clockVars, chartVars

LEMMA DemoStepIsStep == [DemoNext]_dvars => [Next]_vars
<1> SUFFICES ASSUME [DemoNext]_dvars PROVE [Next]_vars
    OBVIOUS
<1>1. ASSUME NEW t \in Tasks, TaskRuns(t) PROVE [Next]_vars
    <2>1. mpc # "crashed"
        BY <1>1 DEF TaskRuns, Running, Alive
    <2>2. CASE Begin(t) \/ StartJob(t) \/ EndJob(t)
        BY <2>1, <2>2 DEF Begin, StartJob, EndJob, Next, ThreadStep, TaskStep
    <2>3. CASE TakeTraceLock(t) \/ Record(t) \/ LeaveLoop(t)
        BY <2>1, <2>3 DEF TakeTraceLock, Record, LeaveLoop, Next, ThreadStep, TaskStep
    <2>4. CASE StartBurn(t) \/ Nanosleep(t)
        BY <2>4 DEF StartBurn, Nanosleep
    <2>5. CASE SleepUntil(t)
        <3>1. Wake(t) \/ UNCHANGED vars
            BY <2>5 DEF SleepUntil
        <3> QED  BY <2>1, <3>1 DEF Next, ThreadStep, TaskStep
    <2> QED  BY <1>1, <2>2, <2>3, <2>4, <2>5 DEF TaskRuns
<1>2. ASSUME NEW t \in Tasks, TimerExpires(t) PROVE [Next]_vars
    BY <1>2 DEF TimerExpires, Alive, Next, ThreadStep, TaskStep
<1>3. CASE OthersRun
    <2>1. CASE CreateNext
        <3>1. PICK t \in Tasks : TaskCreate(t)
            BY <2>1 DEF CreateNext
        <3> QED  BY <3>1 DEF Next
    <2>2. CASE StartAll \/ SpawnNext \/ SleepAfterStart \/ StopAll \/ JoinNext
        <3>1. MainStep
            BY <2>2 DEF StartAll, SpawnNext, SleepAfterStart, StopAll, JoinNext, MainStep
        <3> QED  BY <3>1 DEF Next
    <2>3. CASE TickExit
        BY <1>3, <2>3 DEF OthersRun, OthersMayRun, Alive, Next, TickStep
    <2> QED  BY <1>3, <2>1, <2>2, <2>3 DEF OthersRun, OtherStep
<1>4. CASE TimePasses \/ DemoEnded \/ UNCHANGED dvars
    BY <1>4 DEF TimePasses, DemoEnded
<1> QED  BY <1>1, <1>2, <1>3, <1>4 DEF DemoNext

\* Each run of the two demos is a run of the scheduler: whatever holds of the
\* scheduler holds of them, with the clock and the kernel that they add.
THEOREM DemosImplementScheduler == DemoSpec => Spec
<1>1. DemoInit => Init
    BY DEF DemoInit
<1> QED  BY <1>1, DemoStepIsStep, PTL DEF DemoSpec, Spec

-----------------------------------------------------------------------------
(* What the steps of the demos do *)

Base == DemosAssumption /\ IInv /\ root /\ DemoTypeOK /\ Holder

LEMMA Values ==
    ASSUME DemosAssumption, DemoTypeOK
    PROVE  /\ program \in {"periodic", "overload"}
           /\ \A t \in Tasks : /\ period(t) \in Nat /\ period(t) <= 50
                               /\ wcet(t) \in Nat /\ 1 <= wcet(t) /\ wcet(t) < period(t)
           /\ wcet(80) + wcet(60) <= period(80)
           /\ program = "periodic" => /\ period(80) = 10 /\ period(60) = 20 /\ period(40) = 50
                                      /\ wcet(80) = 2 /\ wcet(60) = 3 /\ wcet(40) = 5
<1>0. Tasks = {40, 60, 80} /\ program \in {"periodic", "overload"}
    BY DEF DemosAssumption, DemoTypeOK
<1>1. CASE program = "periodic"
    <2>1. /\ period(80) = 10 /\ period(60) = 20 /\ period(40) = 50
          /\ wcet(80) = 2 /\ wcet(60) = 3 /\ wcet(40) = 5
        BY <1>0, <1>1 DEF period, wcet, TaskSet, PeriodicSet
    <2> QED  BY <1>0, <1>1, <2>1
<1>2. CASE program = "overload"
    <2>1. /\ period(80) = 10 /\ period(60) = 15 /\ period(40) = 20
          /\ wcet(80) = 4 /\ wcet(60) = 6 /\ wcet(40) = 8
        BY <1>0, <1>2 DEF period, wcet, TaskSet, OverloadSet
    <2> QED  BY <1>0, <1>2, <2>1
<1> QED  BY <1>0, <1>1, <1>2

LEMMA SameValues ==
    program' = program => \A t \in Tasks : period(t)' = period(t) /\ wcet(t)' = wcet(t)
BY DEF period, wcet, TaskSet, PeriodicSet, OverloadSet

\* The part of the state of thread u that the invariants speak about.
Same(u) ==
    /\ tpc'[u] = tpc[u] /\ phase'[u] = phase[u]
    /\ release_time'[u] = release_time[u] /\ absolute_deadline'[u] = absolute_deadline[u]
    /\ end'[u] = end[u] /\ rem'[u] = rem[u] /\ wakeup'[u] = wakeup[u]
    /\ deadline_misses'[u] = deadline_misses[u]

\* Thread t moves on to the given values, and nobody else does anything.
Move(t, pc, ph, release, deadline, e, r, w) ==
    /\ UNCHANGED <<program, now, until, mainVars>>
    /\ \A u \in Tasks : u # t => Same(u)
    /\ tpc'[t] = pc /\ phase'[t] = ph
    /\ release_time'[t] = release /\ absolute_deadline'[t] = deadline
    /\ end'[t] = e /\ rem'[t] = r /\ wakeup'[t] = w

LEMMA MoveBegin ==
    ASSUME Base, NEW t \in Tasks, Begin(t)
    PROVE  /\ tpc[t] = "setup"
           /\ Move(t, "while", phase[t], now, now + period(t), end[t], rem[t], wakeup[t])
           /\ deadline_misses'[t] = deadline_misses[t] /\ g_trace_lock' = g_trace_lock
BY DEF Begin, Setup, Base, IInv, TypeOK, DemoTypeOK, Move, Same

LEMMA MoveStartJob ==
    ASSUME Base, NEW t \in Tasks, StartJob(t)
    PROVE  /\ tpc[t] = "while" /\ running
           /\ Move(t, "func", phase[t], release_time[t], absolute_deadline[t], end[t], rem[t],
                   wakeup[t])
           /\ deadline_misses'[t] = deadline_misses[t] /\ g_trace_lock' = g_trace_lock
BY DEF StartJob, Activate, KeepsRunning, Base, IInv, TypeOK, DemoTypeOK, Move, Same

LEMMA MoveStartBurn ==
    ASSUME Base, NEW t \in Tasks, StartBurn(t)
    PROVE  /\ tpc[t] = "func" /\ end[t] = 0
           /\ Move(t, "func", phase[t], release_time[t], absolute_deadline[t], now + wcet(t),
                   rem[t], wakeup[t])
           /\ deadline_misses'[t] = deadline_misses[t] /\ g_trace_lock' = g_trace_lock
BY DEF StartBurn, Base, IInv, TypeOK, DemoTypeOK, Move, Same

LEMMA MoveEndJob ==
    ASSUME Base, NEW t \in Tasks, EndJob(t)
    PROVE  /\ tpc[t] = "func" /\ end[t] # 0 /\ now >= end[t]
           /\ Move(t, "lock", phase[t], release_time[t], absolute_deadline[t], 0, rem[t],
                   wakeup[t])
           /\ deadline_misses'[t] = deadline_misses[t] \/ now >= absolute_deadline[t]
           /\ g_trace_lock' = g_trace_lock
<1>1. PICK late \in BOOLEAN :
        /\ missed' = [missed EXCEPT ![t] = late]
        /\ deadline_misses' = [deadline_misses EXCEPT ![t] =
                IF late THEN deadline_misses[t] + 1 ELSE deadline_misses[t]]
    BY DEF EndJob, Finish
<1>2. /\ \A u \in Tasks : u # t => deadline_misses'[u] = deadline_misses[u]
      /\ deadline_misses'[t] = deadline_misses[t] \/ missed'[t]
    BY <1>1 DEF Base, IInv, TypeOK
<1>3. ~(now < absolute_deadline[t]) \/ ~missed'[t]
    BY DEF EndJob
<1>4. deadline_misses'[t] = deadline_misses[t] \/ now >= absolute_deadline[t]
    BY <1>2, <1>3 DEF Base, DemoTypeOK
<1>5. /\ tpc[t] = "func" /\ end[t] # 0 /\ now >= end[t]
      /\ g_trace_lock' = g_trace_lock
    BY DEF EndJob, Finish, Burning, Base, DemoTypeOK
<1>6. Move(t, "lock", phase[t], release_time[t], absolute_deadline[t], 0, rem[t], wakeup[t])
    BY <1>2 DEF EndJob, Finish, Base, IInv, TypeOK, DemoTypeOK, Move, Same
<1> QED  BY <1>4, <1>5, <1>6

LEMMA MoveTakeLock ==
    ASSUME Base, NEW t \in Tasks, TakeTraceLock(t)
    PROVE  /\ tpc[t] = "lock"
           /\ Move(t, "record", phase[t], release_time[t], absolute_deadline[t], end[t], rem[t],
                   wakeup[t])
           /\ deadline_misses'[t] = deadline_misses[t]
           /\ g_trace_lock = Nobody /\ g_trace_lock' = t
BY DEF TakeTraceLock, TraceLock, TraceLockFree, Base, IInv, TypeOK, DemoTypeOK, Move, Same

LEMMA MoveRecord ==
    ASSUME Base, NEW t \in Tasks, Record(t)
    PROVE  /\ tpc[t] = "record"
           /\ Move(t, "sleep", "until", release_time[t], absolute_deadline[t], end[t], rem[t],
                   wakeup[t])
           /\ deadline_misses'[t] = deadline_misses[t]
           /\ g_trace_lock' = Nobody
<1>1. t \in Periodic
    BY DEF Base, DemosAssumption
<1>2. AfterRecord(t) = "sleep"
    BY <1>1 DEF AfterRecord
<1> QED  BY <1>2 DEF Record, TraceRecord, Base, IInv, TypeOK, DemoTypeOK, Move, Same

LEMMA MoveSleepUntil ==
    ASSUME Base, NEW t \in Tasks, SleepUntil(t)
    PROVE  /\ tpc[t] = "sleep" /\ phase[t] = "until"
           /\ \/ /\ release_time[t] + period(t) < now
                 /\ Move(t, "while", "until", release_time[t] + period(t),
                         absolute_deadline[t] + period(t), end[t], rem[t], wakeup[t])
              \/ /\ release_time[t] + period(t) >= now
                 /\ Move(t, "sleep", "nanosleep", release_time[t] + period(t),
                         absolute_deadline[t] + period(t), end[t],
                         (release_time[t] + period(t)) - now, wakeup[t])
           /\ deadline_misses'[t] = deadline_misses[t] /\ g_trace_lock' = g_trace_lock
<1> DEFINE next == release_time[t] + period(t)
<1>0. /\ tpc[t] = "sleep" /\ phase[t] = "until"
      /\ release_time' = [release_time EXCEPT ![t] = next]
      /\ absolute_deadline' = [absolute_deadline EXCEPT ![t] = absolute_deadline[t] + period(t)]
      /\ UNCHANGED <<program, now, until, end, wakeup>>
      /\ \/ next < now /\ Wake(t) /\ UNCHANGED <<rem, phase>>
         \/ /\ next >= now
            /\ rem' = [rem EXCEPT ![t] = next - now]
            /\ phase' = [phase EXCEPT ![t] = "nanosleep"]
            /\ UNCHANGED vars
    BY DEF SleepUntil, NextRelease, NextDeadline
<1> HIDE DEF next
<1>1. CASE next < now /\ Wake(t) /\ UNCHANGED <<rem, phase>>
    <2>1. Move(t, "while", "until", next, absolute_deadline[t] + period(t), end[t], rem[t],
               wakeup[t])
        BY <1>0, <1>1 DEF Wake, Base, IInv, TypeOK, DemoTypeOK, Move, Same
    <2>2. deadline_misses' = deadline_misses /\ g_trace_lock' = g_trace_lock
        BY <1>1 DEF Wake
    <2> QED  BY <1>0, <1>1, <2>1, <2>2 DEF next
<1>2. CASE /\ next >= now
           /\ rem' = [rem EXCEPT ![t] = next - now]
           /\ phase' = [phase EXCEPT ![t] = "nanosleep"]
           /\ UNCHANGED vars
    <2>1. Move(t, "sleep", "nanosleep", next, absolute_deadline[t] + period(t), end[t],
               next - now, wakeup[t])
        BY <1>0, <1>2 DEF Base, IInv, TypeOK, DemoTypeOK, Move, Same
    <2>2. deadline_misses' = deadline_misses /\ g_trace_lock' = g_trace_lock
        BY <1>2
    <2> QED  BY <1>0, <1>2, <2>1, <2>2 DEF next
<1> QED  BY <1>0, <1>1, <1>2

LEMMA MoveNanosleep ==
    ASSUME Base, NEW t \in Tasks, Nanosleep(t)
    PROVE  /\ tpc[t] = "sleep" /\ phase[t] = "nanosleep"
           /\ Move(t, "sleep", "asleep", release_time[t], absolute_deadline[t], end[t], 0,
                   now + rem[t])
           /\ deadline_misses'[t] = deadline_misses[t] /\ g_trace_lock' = g_trace_lock
BY DEF Nanosleep, Base, IInv, TypeOK, DemoTypeOK, Move, Same

LEMMA MoveLeave ==
    ASSUME Base, NEW t \in Tasks, LeaveLoop(t)
    PROVE  /\ tpc[t] = "while"
           /\ Move(t, "exited", phase[t], release_time[t], absolute_deadline[t], end[t], rem[t],
                   wakeup[t])
           /\ deadline_misses'[t] = deadline_misses[t] /\ g_trace_lock' = g_trace_lock
BY DEF LeaveLoop, Leave, Base, IInv, TypeOK, DemoTypeOK, Move, Same

LEMMA MoveTimer ==
    ASSUME Base, NEW t \in Tasks, TimerExpires(t)
    PROVE  /\ tpc[t] = "sleep" /\ phase[t] = "asleep" /\ now >= wakeup[t]
           /\ Move(t, "while", "until", release_time[t], absolute_deadline[t], end[t], rem[t], 0)
           /\ deadline_misses'[t] = deadline_misses[t] /\ g_trace_lock' = g_trace_lock
BY DEF TimerExpires, Due, Asleep, Wake, Base, IInv, TypeOK, DemoTypeOK, Move, Same

\* Thread u has not moved, or main has just started it.
SameOrStarted(u) ==
    \/ Same(u)
    \/ /\ tpc[u] = "none" /\ tpc'[u] = "setup"
       /\ phase'[u] = phase[u] /\ end'[u] = end[u] /\ wakeup'[u] = wakeup[u]
       /\ deadline_misses'[u] = deadline_misses[u]

LEMMA MoveMain ==
    ASSUME Base, OthersRun \/ DemoEnded \/ UNCHANGED dvars
    PROVE  /\ program' = program /\ now' = now /\ g_trace_lock' = g_trace_lock
           /\ \A u \in Tasks : SameOrStarted(u)
           /\ \/ until' = until /\ mpc' = mpc
              \/ until' = until /\ mpc' \in {"spawn", "stopped", "crashed"}
              \/ mpc' = "run" /\ until' \in Nat /\ until' >= now
              \/ mpc' = "join" /\ until' = until /\ mpc = "run"
<1>1. CASE OthersRun
    <2>1. /\ deadline_misses' = deadline_misses /\ g_trace_lock' = g_trace_lock
          /\ \A u \in Tasks : tpc'[u] = tpc[u] \/ (tpc[u] = "none" /\ tpc'[u] = "setup")
        <3>1. MainStep \/ TickStep \/ \E t \in Tasks : TaskCreate(t)
            BY <1>1 DEF OthersRun, OthersMayRun, Alive, OtherStep, CreateNext, StartAll,
               SpawnNext, SleepAfterStart, StopAll, JoinNext, MainStep, TickStep
        <3> QED  BY <3>1, MainMoves DEF Base
    <2>2. UNCHANGED <<program, now, release_time, absolute_deadline, end, phase, rem, wakeup>>
        BY <1>1 DEF OthersRun, OtherStep, CreateNext, StartAll, SpawnNext, SleepAfterStart,
           StopAll, JoinNext
    <2>3. \A u \in Tasks : SameOrStarted(u)
        BY <2>1, <2>2 DEF SameOrStarted, Same
    <2>4. CASE SleepAfterStart
        <3>1. until' = now + RunFor[program] /\ mpc' = "run"
            BY <2>4 DEF SleepAfterStart, Started
        <3>2. RunFor[program] \in Nat /\ now \in Nat
            BY DEF Base, DemosAssumption, DemoTypeOK
        <3> QED  BY <2>1, <2>2, <2>3, <3>1, <3>2
    <2>5. CASE ~SleepAfterStart
        <3>1. until' = until
            BY <1>1, <2>5 DEF OthersRun, OtherStep, CreateNext, StartAll, SpawnNext, StopAll,
               JoinNext
        <3>2. \/ mpc' = mpc \/ mpc' \in {"spawn", "stopped", "crashed"}
              \/ mpc = "run" /\ mpc' = "join"
            BY <1>1, <2>5 DEF OthersRun, OtherStep, CreateNext, StartAll, SpawnNext, StopAll,
               JoinNext, TaskCreate, SchedulerStart, Spawn, SchedulerStop, JoinTask, JoinTick,
               TickExit
        <3> QED  BY <2>1, <2>2, <2>3, <3>1, <3>2
    <2> QED  BY <2>4, <2>5
<1>2. CASE DemoEnded \/ UNCHANGED dvars
    BY <1>2 DEF DemoEnded, SameOrStarted, Same
<1> QED  BY <1>1, <1>2

LEMMA FifoRanks ==
    ASSUME Base
    PROVE  \A u \in Tasks : Past(u) => policy[u] = <<"FIFO", u + 1>> /\ RealTime(u)
<1> SUFFICES ASSUME NEW u \in Tasks, Past(u)
             PROVE  policy[u] = <<"FIFO", u + 1>> /\ RealTime(u)
    OBVIOUS
<1>1. Priority[u] = u /\ u \in {40, 60, 80}
    BY DEF Base, DemosAssumption
<1>2. FifoLevel(u) = u + 1
    BY <1>1 DEF FifoLevel
<1>3. policy[u] = <<"FIFO", FifoLevel(u)>>
    BY <1>1 DEF Base, IInv, PolicyInv, Past
<1> QED  BY <1>2, <1>3 DEF RealTime

\* No thread of a task runs while one of higher priority can.
LEMMA HigherFirst ==
    ASSUME Base, NEW t \in Tasks, Running(t), Past(t)
    PROVE  \A u \in Tasks : Past(u) /\ Ready(u) => u <= t
<1> SUFFICES ASSUME NEW u \in Tasks, Past(u), Ready(u) PROVE u <= t
    OBVIOUS
<1>1. policy[u] = <<"FIFO", u + 1>> /\ policy[t] = <<"FIFO", t + 1>> /\ RealTime(u)
    BY FifoRanks
<1>2. policy[u][2] <= policy[t][2]
    BY <1>1 DEF Running
<1>3. t \in {40, 60, 80} /\ u \in {40, 60, 80}
    BY DEF Base, DemosAssumption
<1> QED  BY <1>1, <1>2, <1>3

\* Who can run, and that somebody can while the trace lock is taken.
LEMMA WhoIsReady ==
    ASSUME Base
    PROVE  /\ \A u \in Tasks :
                \/ tpc[u] \in {"while", "func", "record"}
                \/ tpc[u] = "sleep" /\ phase[u] # "asleep"
                \/ tpc[u] = "lock" /\ g_trace_lock = Nobody
                => Past(u) /\ Ready(u)
           /\ g_trace_lock # Nobody =>
                g_trace_lock \in Tasks /\ tpc[g_trace_lock] = "record" /\ Ready(g_trace_lock)
<1>1. \A u \in Tasks :
        tpc[u] \in {"while", "func", "record"} \/ (tpc[u] = "sleep" /\ phase[u] # "asleep")
        => Past(u) /\ Ready(u)
    BY DEF Past, Ready, Asleep
<1>2. \A u \in Tasks : tpc[u] = "lock" /\ g_trace_lock = Nobody => Past(u) /\ Ready(u)
    BY DEF Past, Ready, TraceLockFree
<1>3. g_trace_lock # Nobody => g_trace_lock \in Tasks /\ tpc[g_trace_lock] = "record"
    BY DEF Base, Holder
<1> QED  BY <1>1, <1>2, <1>3

\* The unit of time that passes is burnt by t.
Burns(t) ==
    /\ t \in {40, 60, 80}
    /\ tpc[t] = "func" /\ end[t] # 0 /\ now < end[t]
    /\ \A u \in Tasks : Past(u) /\ Ready(u) => u <= t

LEMMA MoveTime ==
    ASSUME Base, ClockInv, TimePasses
    PROVE  /\ now' = now + 1
           /\ UNCHANGED <<program, until, mainVars, g_trace_lock>>
           /\ \A u \in Tasks : Same(u)
           /\ \A u \in Tasks : phase[u] = "asleep" => now < wakeup[u]
           /\ AllWait \/ Burns(40) \/ Burns(60) \/ Burns(80)
<1>1. /\ now' = now + 1 /\ UNCHANGED <<program, until, mainVars, g_trace_lock>>
      /\ \A u \in Tasks : Same(u)
    BY DEF TimePasses, Same
<1>2. ASSUME NEW u \in Tasks, phase[u] = "asleep" PROVE now < wakeup[u]
    <2>1. ~Due(u) /\ tpc[u] = "sleep"
        BY <1>2 DEF TimePasses, ClockInv, Clock
    <2> QED  BY <1>2, <2>1 DEF Due, Asleep, Base, DemoTypeOK
<1>3. ASSUME NEW t \in Tasks, Running(t), Burning(t) PROVE Burns(t)
    <2>1. tpc[t] = "func" /\ end[t] # 0 /\ now < end[t]
        BY <1>3 DEF Burning, ClockInv, Clock
    <2>2. Past(t) /\ t \in {40, 60, 80}
        BY <2>1 DEF Past, Base, DemosAssumption
    <2> QED  BY <1>3, <2>1, <2>2, HigherFirst DEF Burns
<1>4. AllWait \/ Burns(40) \/ Burns(60) \/ Burns(80)
    <2>1. CASE \E t \in Tasks : Running(t) /\ Burning(t)
        <3>1. PICK t \in Tasks : Running(t) /\ Burning(t)
            BY <2>1
        <3>2. Burns(t) /\ t \in {40, 60, 80}
            BY <1>3, <3>1 DEF Burns
        <3> QED  BY <3>2
    <2> QED  BY <2>1 DEF TimePasses
<1> QED  BY <1>1, <1>2, <1>4

\* While nobody can run, every task is asleep, done, or not there.
LEMMA Idle ==
    ASSUME Base, \A u \in Tasks : Past(u) => ~Ready(u)
    PROVE  \A u \in Tasks :
            tpc[u] \in {"none", "setup", "exited"} \/ (tpc[u] = "sleep" /\ phase[u] = "asleep")
<1>1. g_trace_lock = Nobody
    BY WhoIsReady DEF Past
<1>2. \A u \in Tasks : tpc[u] \in ThreadPC
    BY DEF Base, IInv, TypeOK
<1> QED  BY <1>1, <1>2, WhoIsReady DEF ThreadPC

\* A unit of time that a task burns finds the tasks above it blocked: those that
\* wait for the trace lock wait for a task that is not below the burning one.
LEMMA Blocked ==
    ASSUME Base, NEW t, Burns(t), NEW u \in Tasks, u > t
    PROVE  \/ tpc[u] \in {"none", "setup", "exited"} \/ (tpc[u] = "sleep" /\ phase[u] = "asleep")
           \/ tpc[u] = "lock" /\ g_trace_lock \in Tasks /\ tpc[g_trace_lock] = "record"
              /\ g_trace_lock < t
<1>1. ~Past(u) \/ ~Ready(u)
    BY DEF Burns, Base, DemosAssumption
<1>2. tpc[u] \in ThreadPC
    BY DEF Base, IInv, TypeOK
<1>3. g_trace_lock # Nobody => g_trace_lock <= t /\ g_trace_lock # t
    <2>1. g_trace_lock # Nobody =>
            g_trace_lock \in Tasks /\ tpc[g_trace_lock] = "record" /\ Ready(g_trace_lock)
            /\ Past(g_trace_lock)
        BY WhoIsReady DEF Past
    <2> QED  BY <2>1 DEF Burns
<1>4. g_trace_lock # Nobody => g_trace_lock \in Tasks /\ tpc[g_trace_lock] = "record"
    BY WhoIsReady
<1>5. g_trace_lock # Nobody => g_trace_lock < t
    BY <1>3, <1>4 DEF Burns, Base, DemosAssumption
<1> QED  BY <1>1, <1>2, <1>4, <1>5, WhoIsReady DEF ThreadPC

-----------------------------------------------------------------------------
(* The types, the trace lock, and the stored times *)

LEMMA DemoTypeNext == Base /\ [DemoNext]_dvars => DemoTypeOK'
<1> SUFFICES ASSUME Base, [DemoNext]_dvars PROVE DemoTypeOK'
    OBVIOUS
<1>0. DemoTypeOK
    BY DEF Base
<1> USE DEF DemoTypeOK
<1>1. \A t \in Tasks : period(t) \in Nat /\ wcet(t) \in Nat
    BY Values DEF Base
<1>2. ASSUME NEW t \in Tasks, TaskRuns(t) PROVE DemoTypeOK'
    <2>1. CASE Begin(t)
        <3>1. now + period(t) \in Nat
            BY <1>0, <1>1
        <3> QED  BY <1>0, <2>1, <3>1 DEF Begin
    <2>2. CASE StartBurn(t)
        <3>1. now + wcet(t) \in Nat
            BY <1>0, <1>1
        <3> QED  BY <1>0, <2>2, <3>1 DEF StartBurn
    <2>3. CASE SleepUntil(t)
        <3>1. /\ release_time[t] + period(t) \in Nat /\ absolute_deadline[t] + period(t) \in Nat
              /\ release_time[t] + period(t) >= now =>
                    (release_time[t] + period(t)) - now \in Nat
            BY <1>0, <1>1
        <3>2. rem' \in [Tasks -> Nat] /\ phase' \in [Tasks -> {"until", "nanosleep", "asleep"}]
            BY <1>0, <2>3, <3>1 DEF SleepUntil, NextRelease
        <3> QED  BY <1>0, <2>3, <3>1, <3>2 DEF SleepUntil, NextRelease, NextDeadline
    <2>4. CASE Nanosleep(t)
        <3>1. now + rem[t] \in Nat
            BY <1>0
        <3> QED  BY <1>0, <2>4, <3>1 DEF Nanosleep
    <2>5. CASE StartJob(t) \/ TakeTraceLock(t) \/ LeaveLoop(t)
        BY <1>0, <2>5 DEF StartJob, TakeTraceLock, LeaveLoop
    <2>6. CASE EndJob(t) \/ Record(t)
        BY <1>0, <2>6 DEF EndJob, Record
    <2> QED  BY <1>2, <2>1, <2>2, <2>3, <2>4, <2>5, <2>6 DEF TaskRuns
<1>3. ASSUME NEW t \in Tasks, TimerExpires(t) PROVE DemoTypeOK'
    BY <1>0, <1>3 DEF TimerExpires
<1>4. CASE OthersRun \/ DemoEnded \/ UNCHANGED dvars
    <2>1. until' \in Nat /\ now' = now /\ program' = program
        <3>1. until \in Nat /\ (until' = until \/ until' \in Nat)
            BY <1>0, <1>4, MoveMain
        <3> QED  BY <1>4, <3>1, MoveMain
    <2>2. UNCHANGED <<release_time, absolute_deadline, end, phase, rem, wakeup>>
        BY <1>4 DEF OthersRun, OtherStep, CreateNext, StartAll, SpawnNext, SleepAfterStart,
           StopAll, JoinNext, DemoEnded
    <2> QED  BY <1>0, <2>1, <2>2
<1>5. CASE TimePasses
    <2>1. now + 1 \in Nat
        BY <1>0
    <2> QED  BY <1>0, <1>5, <2>1 DEF TimePasses
<1> QED  BY <1>2, <1>3, <1>4, <1>5 DEF DemoNext

LEMMA HolderNext == Base /\ ClockInv /\ [DemoNext]_dvars => Holder'
<1> SUFFICES ASSUME Base, ClockInv, [DemoNext]_dvars PROVE Holder'
    OBVIOUS
<1> USE DEF Holder
<1>0. Holder
    BY DEF Base
<1>1. ASSUME NEW t \in Tasks, g_trace_lock' = g_trace_lock, tpc[t] # "record",
             \A u \in Tasks : u # t => Same(u)
      PROVE  Holder'
    BY <1>0, <1>1 DEF Same
<1>2. ASSUME NEW t \in Tasks, TaskRuns(t) PROVE Holder'
    <2>1. CASE TakeTraceLock(t)
        BY <2>1, MoveTakeLock DEF Move
    <2>2. CASE Record(t)
        BY <2>2, MoveRecord
    <2>3. CASE Begin(t) \/ StartJob(t) \/ StartBurn(t) \/ EndJob(t)
        BY <1>1, <2>3, MoveBegin, MoveStartJob, MoveStartBurn, MoveEndJob DEF Move
    <2>4. CASE SleepUntil(t) \/ Nanosleep(t) \/ LeaveLoop(t)
        BY <1>1, <2>4, MoveSleepUntil, MoveNanosleep, MoveLeave DEF Move
    <2> QED  BY <1>2, <2>1, <2>2, <2>3, <2>4 DEF TaskRuns
<1>3. ASSUME NEW t \in Tasks, TimerExpires(t) PROVE Holder'
    BY <1>1, <1>3, MoveTimer DEF Move
<1>4. CASE OthersRun \/ DemoEnded \/ UNCHANGED dvars
    <2>1. g_trace_lock' = g_trace_lock /\ \A u \in Tasks : SameOrStarted(u)
        BY <1>4, MoveMain
    <2> QED  BY <1>0, <2>1 DEF SameOrStarted, Same
<1>5. CASE TimePasses
    <2>1. g_trace_lock' = g_trace_lock /\ \A u \in Tasks : Same(u)
        BY <1>5, MoveTime
    <2> QED  BY <1>0, <2>1 DEF Same
<1> QED  BY <1>2, <1>3, <1>4, <1>5 DEF DemoNext

\* What is to show of a thread's clocks if it has not moved.
LEMMA ClockKept ==
    ASSUME Base, NEW u \in Tasks, Clock(u), SameOrStarted(u), program' = program, now' = now
    PROVE  Clock(u)'
<1>1. period(u)' = period(u) /\ wcet(u)' = wcet(u)
    BY SameValues
<1>2. CASE Same(u)
    BY <1>1, <1>2 DEF Same, Clock, Past, Woken
<1>3. CASE ~Same(u)
    <2>1. /\ tpc[u] = "none" /\ tpc'[u] = "setup"
          /\ phase'[u] = phase[u] /\ end'[u] = end[u]
        BY <1>3 DEF SameOrStarted
    <2> QED  BY <2>1 DEF Clock, Past
<1> QED  BY <1>2, <1>3

LEMMA ClockNext == Base /\ ClockInv /\ [DemoNext]_dvars => ClockInv'
<1> SUFFICES ASSUME Base, ClockInv, [DemoNext]_dvars PROVE ClockInv'
    OBVIOUS
<1>1. ASSUME NEW t \in Tasks, TaskRuns(t) \/ TimerExpires(t) PROVE ClockInv'
    <2>0. /\ now \in Nat /\ release_time[t] \in Nat /\ end[t] \in Nat /\ rem[t] \in Nat
          /\ wakeup[t] \in Nat /\ period(t) \in Nat /\ wcet(t) \in Nat
          /\ absolute_deadline[t] \in Nat
          /\ period(t)' = period(t) /\ wcet(t)' = wcet(t)
          /\ program' = program /\ now' = now /\ \A u \in Tasks : u # t => Same(u)
          /\ Clock(t)
        <3>1. program' = program /\ now' = now /\ \A u \in Tasks : u # t => Same(u)
            BY <1>1, MoveBegin, MoveStartJob, MoveStartBurn, MoveEndJob, MoveTakeLock, MoveRecord,
               MoveSleepUntil, MoveNanosleep, MoveLeave, MoveTimer DEF TaskRuns, Move
        <3> QED  BY <3>1, Values, SameValues DEF Base, DemoTypeOK, ClockInv
    <2>1. Clock(t)'
        <3> USE DEF Clock, Past, Woken, Move
        <3>1. CASE Begin(t)
            <4>1. /\ tpc[t] = "setup" /\ tpc'[t] = "while" /\ phase'[t] = phase[t]
                  /\ release_time'[t] = now /\ absolute_deadline'[t] = now + period(t)
                  /\ end'[t] = end[t]
                BY <3>1, MoveBegin
            <4> QED  BY <2>0, <4>1
        <3>2. CASE StartJob(t)
            BY <2>0, <3>2, MoveStartJob
        <3>3. CASE StartBurn(t)
            BY <2>0, <3>3, MoveStartBurn
        <3>4. CASE EndJob(t)
            BY <2>0, <3>4, MoveEndJob
        <3>5. CASE TakeTraceLock(t)
            BY <2>0, <3>5, MoveTakeLock
        <3>6. CASE Record(t)
            BY <2>0, <3>6, MoveRecord
        <3>7. CASE SleepUntil(t)
            BY <2>0, <3>7, MoveSleepUntil
        <3>8. CASE Nanosleep(t)
            BY <2>0, <3>8, MoveNanosleep
        <3>9. CASE LeaveLoop(t)
            BY <2>0, <3>9, MoveLeave
        <3>10. CASE TimerExpires(t)
            BY <2>0, <3>10, MoveTimer
        <3> QED  BY <1>1, <3>1, <3>2, <3>3, <3>4, <3>5, <3>6, <3>7, <3>8, <3>9, <3>10 DEF TaskRuns
    <2>2. \A u \in Tasks : u # t => Clock(u)'
        BY <2>0, ClockKept DEF ClockInv, SameOrStarted
    <2> QED  BY <2>1, <2>2 DEF ClockInv
<1>2. CASE OthersRun \/ DemoEnded \/ UNCHANGED dvars
    <2>1. program' = program /\ now' = now /\ \A u \in Tasks : SameOrStarted(u)
        BY <1>2, MoveMain
    <2> QED  BY <2>1, ClockKept DEF ClockInv
<1>3. CASE TimePasses
    <2> SUFFICES ASSUME NEW u \in Tasks PROVE Clock(u)'
        BY DEF ClockInv
    <2>1. /\ now' = now + 1 /\ program' = program /\ Same(u) /\ Clock(u)
          /\ phase[u] = "asleep" => now < wakeup[u]
        BY <1>3, MoveTime DEF ClockInv
    <2>2. /\ now \in Nat /\ release_time[u] \in Nat /\ end[u] \in Nat /\ rem[u] \in Nat
          /\ wakeup[u] \in Nat /\ period(u) \in Nat /\ wcet(u) \in Nat
          /\ period(u)' = period(u) /\ wcet(u)' = wcet(u)
        BY <2>1, Values, SameValues DEF Base, DemoTypeOK
    <2> QED  BY <2>1, <2>2 DEF Clock, Past, Woken, Same
<1> QED  BY <1>1, <1>2, <1>3 DEF DemoNext

-----------------------------------------------------------------------------
(* The task of the highest priority *)

\* What every step needs of the integers involved.
LEMMA Numbers ==
    ASSUME Base
    PROVE  /\ 40 \in Tasks /\ 60 \in Tasks /\ 80 \in Tasks
           /\ now \in Nat /\ deadline_misses[80] \in Nat
           /\ \A t \in Tasks : /\ release_time[t] \in Nat /\ absolute_deadline[t] \in Nat
                               /\ end[t] \in Nat /\ rem[t] \in Nat /\ wakeup[t] \in Nat
                               /\ period(t) \in Nat /\ wcet(t) \in Nat /\ wcet(t) >= 1
                               /\ phase[t] \in {"until", "nanosleep", "asleep"}
                               /\ tpc[t] \in ThreadPC
           /\ wcet(80) < period(80) /\ wcet(80) + wcet(60) <= period(80)
<1>0. DemosAssumption /\ DemoTypeOK /\ TypeOK
    BY DEF Base, IInv
<1>1. 40 \in Tasks /\ 60 \in Tasks /\ 80 \in Tasks
    BY <1>0 DEF DemosAssumption
<1>2. now \in Nat /\ deadline_misses[80] \in Nat
    BY <1>0, <1>1 DEF TypeOK, DemoTypeOK
<1>3. /\ \A t \in Tasks : /\ period(t) \in Nat /\ wcet(t) \in Nat /\ wcet(t) >= 1
                            /\ wcet(t) < period(t)
      /\ wcet(80) + wcet(60) <= period(80)
    BY <1>0, Values
<1>4. \A t \in Tasks : /\ release_time[t] \in Nat /\ absolute_deadline[t] \in Nat
                       /\ end[t] \in Nat /\ rem[t] \in Nat /\ wakeup[t] \in Nat
                       /\ phase[t] \in {"until", "nanosleep", "asleep"}
    BY <1>0 DEF DemoTypeOK
<1>5. \A t \in Tasks : tpc[t] \in ThreadPC
    BY <1>0 DEF TypeOK
<1> QED  BY <1>1, <1>2, <1>3, <1>4, <1>5

\* A thread at the trace lock keeps the others from taking it.
LEMMA TopAtLock ==
    ASSUME Base, ClockInv, TopInv, NEW t \in Tasks, t # 80, TaskRuns(t) \/ TimerExpires(t),
           tpc[80] = "lock", Holder'
    PROVE  g_trace_lock' # Nobody =>
            /\ g_trace_lock # Nobody
            /\ end'[60] <= Done80
            /\ now > release_time[80] + wcet(80) => tpc'[60] = "lock" \/ end'[60] # 0
<1>1. CASE TakeTraceLock(t)
    <2>1. g_trace_lock = Nobody /\ Past(t) /\ Running(t)
        BY <1>1, MoveTakeLock DEF Past, TaskRuns, TimerExpires, Wake
    <2>2. Past(80) /\ Ready(80)
        BY <2>1, WhoIsReady, Numbers
    <2>3. 80 <= t
        BY <2>1, <2>2, HigherFirst, Numbers
    <2> QED  BY <2>3 DEF Base, DemosAssumption
<1>2. CASE Record(t)
    BY <1>2, MoveRecord
<1>3. CASE ~TakeTraceLock(t) /\ ~Record(t)
    <2>1. g_trace_lock' = g_trace_lock /\ (t # 60 => Same(60))
        BY <1>3, MoveBegin, MoveStartJob, MoveStartBurn, MoveEndJob, MoveSleepUntil,
           MoveNanosleep, MoveLeave, MoveTimer, Numbers DEF TaskRuns, Move
    <2>2. g_trace_lock # Nobody =>
            /\ end[60] <= Done80
            /\ now > release_time[80] + wcet(80) => tpc[60] = "lock" \/ end[60] # 0
        BY DEF TopInv
    <2>3. CASE t # 60
        BY <2>1, <2>2, <2>3 DEF Same
    <2>4. CASE t = 60 /\ StartBurn(60)
        <3>1. end[60] = 0 /\ tpc[60] = "func" /\ end'[60] = now + wcet(60)
            BY <2>4, MoveStartBurn, Numbers DEF Move
        <3> QED  BY <2>1, <2>2, <3>1, Numbers DEF Done80
    <2>5. CASE t = 60 /\ EndJob(60)
        <3>1. end'[60] = 0 /\ tpc'[60] = "lock"
            BY <2>5, MoveEndJob, Numbers DEF Move
        <3> QED  BY <2>1, <2>2, <3>1, Numbers DEF Done80
    <2>6. CASE t = 60 /\ ~StartBurn(60) /\ ~EndJob(60)
        <3>1. end'[60] = end[60] /\ tpc[60] # "lock"
            BY <1>3, <2>6, MoveBegin, MoveStartJob, MoveSleepUntil, MoveNanosleep, MoveLeave,
               MoveTimer, Numbers DEF TaskRuns, Move
        <3> QED  BY <2>1, <2>2, <3>1
    <2> QED  BY <2>3, <2>4, <2>5, <2>6
<1> QED  BY <1>1, <1>2, <1>3

LEMMA TopNext == Base /\ ClockInv /\ TopInv /\ [DemoNext]_dvars => TopInv'
<1> SUFFICES ASSUME Base, ClockInv, TopInv, [DemoNext]_dvars PROVE TopInv'
    OBVIOUS
<1>0. Holder' /\ Clock(80)
    BY HolderNext, Numbers DEF ClockInv
<1> DEFINE r == release_time[80]
<1>1. ASSUME TaskRuns(80) \/ TimerExpires(80) PROVE TopInv'
    <2>0. period(80)' = period(80) /\ wcet(80)' = wcet(80) /\ wcet(60)' = wcet(60)
          /\ now' = now /\ Same(60) /\ end[60] <= now + wcet(60)
        <3>1. program' = program /\ now' = now /\ Same(60)
            BY <1>1, MoveBegin, MoveStartJob, MoveStartBurn, MoveEndJob, MoveTakeLock, MoveRecord,
               MoveSleepUntil, MoveNanosleep, MoveLeave, MoveTimer, Numbers DEF TaskRuns, Move
        <3>2. end[60] <= now + wcet(60)
            BY Numbers DEF ClockInv, Clock
        <3> QED  BY <3>1, <3>2, SameValues, Numbers
    <2> USE DEF TopInv, Done80, Clock, Past, Woken, Move
    <2>1. CASE Begin(80)
        BY <1>0, <2>0, <2>1, MoveBegin, Numbers
    <2>2. CASE StartJob(80)
        BY <1>0, <2>0, <2>2, MoveStartJob, Numbers
    <2>3. CASE StartBurn(80)
        BY <1>0, <2>0, <2>3, MoveStartBurn, Numbers
    <2>4. CASE EndJob(80)
        <3>1. /\ tpc[80] = "func" /\ tpc'[80] = "lock"
              /\ phase[80] = "until" /\ phase'[80] = "until"
              /\ release_time'[80] = r /\ end'[80] = 0 /\ now = r + wcet(80)
              /\ absolute_deadline[80] = r + period(80)
              /\ deadline_misses'[80] = deadline_misses[80] \/ now >= absolute_deadline[80]
            BY <1>0, <2>4, MoveEndJob, Numbers
        <3>2. deadline_misses'[80] = 0
            BY <3>1, Numbers
        <3> QED  BY <2>0, <3>1, <3>2, Numbers DEF Same
    <2>5. CASE TakeTraceLock(80)
        BY <1>0, <2>0, <2>5, MoveTakeLock, Numbers
    <2>6. CASE Record(80)
        BY <1>0, <2>0, <2>6, MoveRecord, Numbers
    <2>7. CASE SleepUntil(80)
        <3>1. r + period(80) >= now
            BY <2>7, MoveSleepUntil, Numbers
        <3> QED  BY <1>0, <2>0, <2>7, <3>1, MoveSleepUntil, Numbers
    <2>8. CASE Nanosleep(80)
        BY <1>0, <2>0, <2>8, MoveNanosleep, Numbers
    <2>9. CASE LeaveLoop(80)
        BY <1>0, <2>0, <2>9, MoveLeave, Numbers
    <2>10. CASE TimerExpires(80)
        BY <1>0, <2>0, <2>10, MoveTimer, Numbers
    <2> QED  BY <1>1, <2>1, <2>2, <2>3, <2>4, <2>5, <2>6, <2>7, <2>8, <2>9, <2>10 DEF TaskRuns
<1>2. ASSUME NEW t \in Tasks, t # 80, TaskRuns(t) \/ TimerExpires(t) PROVE TopInv'
    <2>1. program' = program /\ now' = now /\ Same(80)
        BY <1>2, MoveBegin, MoveStartJob, MoveStartBurn, MoveEndJob, MoveTakeLock, MoveRecord,
           MoveSleepUntil, MoveNanosleep, MoveLeave, MoveTimer, Numbers DEF TaskRuns, Move
    <2>2. period(80)' = period(80) /\ wcet(80)' = wcet(80) /\ wcet(60)' = wcet(60)
        BY <2>1, SameValues, Numbers
    <2>3. Done80' = Done80
        BY <2>1, <2>2 DEF Done80, Same
    <2>4. tpc[80] = "lock" /\ g_trace_lock' # Nobody =>
            /\ end'[60] <= Done80
            /\ now > release_time[80] + wcet(80) => tpc'[60] = "lock" \/ end'[60] # 0
        BY <1>0, <1>2, TopAtLock
    <2> QED  BY <2>1, <2>2, <2>3, <2>4 DEF TopInv, Same
<1>3. CASE OthersRun \/ DemoEnded \/ UNCHANGED dvars
    <2>1. program' = program /\ now' = now /\ g_trace_lock' = g_trace_lock
          /\ SameOrStarted(80) /\ SameOrStarted(60)
        BY <1>3, MoveMain, Numbers
    <2>2. period(80)' = period(80) /\ wcet(80)' = wcet(80) /\ wcet(60)' = wcet(60)
        BY <2>1, SameValues, Numbers
    <2>3. end'[60] = end[60] /\ (tpc[60] = "lock" => tpc'[60] = "lock")
        BY <2>1 DEF SameOrStarted, Same
    <2>4. CASE Same(80)
        BY <2>1, <2>2, <2>3, <2>4 DEF TopInv, Same, Done80
    <2>5. CASE ~Same(80)
        <3>1. /\ tpc[80] = "none" /\ tpc'[80] = "setup" /\ phase'[80] = phase[80]
              /\ end'[80] = end[80] /\ deadline_misses'[80] = deadline_misses[80]
            BY <2>1, <2>5 DEF SameOrStarted
        <3> QED  BY <1>0, <3>1 DEF TopInv, Clock
    <2> QED  BY <2>4, <2>5
<1>4. CASE TimePasses
    <2>1. /\ now' = now + 1 /\ program' = program /\ g_trace_lock' = g_trace_lock
          /\ Same(80) /\ Same(60)
          /\ AllWait \/ Burns(40) \/ Burns(60) \/ Burns(80)
        BY <1>4, MoveTime, Numbers
    <2>2. period(80)' = period(80) /\ wcet(80)' = wcet(80) /\ wcet(60)' = wcet(60)
        BY <2>1, SameValues, Numbers
    <2>3. \/ tpc[80] \in {"none", "setup", "exited"} \/ (tpc[80] = "sleep" /\ phase[80] = "asleep")
          \/ tpc[80] = "lock" /\ g_trace_lock # Nobody /\ Burns(60)
          \/ Burns(80)
        <3>1. CASE AllWait
            BY <3>1, Idle, Numbers DEF AllWait
        <3>2. CASE Burns(40)
            <4>1. g_trace_lock \in Tasks => ~(g_trace_lock < 40)
                BY DEF Base, DemosAssumption
            <4> QED  BY <3>2, <4>1, Blocked, Numbers
        <3>3. CASE Burns(60)
            BY <3>3, Blocked, Numbers, SchedulerAssumption
        <3> QED  BY <2>1, <3>1, <3>2, <3>3
    <2>4. CASE \/ tpc[80] \in {"none", "setup", "exited"}
               \/ tpc[80] = "sleep" /\ phase[80] = "asleep"
        BY <1>0, <2>1, <2>2, <2>4 DEF TopInv, Same, Clock
    <2>5. CASE tpc[80] = "lock" /\ g_trace_lock # Nobody /\ Burns(60)
        <3>1. end[60] # 0 /\ now < end[60] /\ end[60] <= Done80
            BY <2>5 DEF Burns, TopInv
        <3>2. now + 1 <= Done80 /\ Done80' = Done80
            BY <2>1, <2>2, <3>1, Numbers DEF Done80, Same
        <3>3. end[80] = 0 /\ phase[80] = "until"
            BY <1>0, <2>5 DEF Clock
        <3> QED  BY <2>1, <2>5, <3>1, <3>2, <3>3 DEF TopInv, Same
    <2>6. CASE Burns(80)
        <3>1. /\ tpc[80] = "func" /\ end[80] # 0 /\ now < end[80] /\ phase[80] = "until"
            BY <1>0, <2>6 DEF Burns, Clock
        <3> QED  BY <2>1, <2>2, <3>1, Numbers DEF TopInv, Same
    <2> QED  BY <2>3, <2>4, <2>5, <2>6
<1>5. \A t \in Tasks : (TaskRuns(t) \/ TimerExpires(t)) => TopInv'
    BY <1>1, <1>2
<1> QED  BY <1>3, <1>4, <1>5 DEF DemoNext

-----------------------------------------------------------------------------
(* How long the processor can be kept *)

\* The function has returned, and the thread has not woken since.
Served(u) == end[u] = 0 /\ tpc[u] \in {"lock", "record", "sleep"}

\* What a step that takes no time does to thread u, as Near sees it.
Advance(u) ==
    IF Past(u)
    THEN /\ Past(u)'
         /\ \/ /\ Woken(u)' = Woken(u)
               /\ Served(u) => Served(u)'
               /\ end[u] # 0 => end'[u] = end[u] \/ Served(u)'
            \/ Woken(u)' = Woken(u) + period(u) /\ Woken(u)' <= now
    ELSE Past(u)' => Woken(u)' = now

LEMMA Advances ==
    ASSUME Base, ClockInv, [DemoNext]_dvars, ~TimePasses
    PROVE  now' = now /\ program' = program /\ \A u \in Tasks : Advance(u)
<1>1. ASSUME NEW u \in Tasks, SameOrStarted(u), program' = program PROVE Advance(u)
    <2>1. period(u)' = period(u)
        BY <1>1, SameValues
    <2>2. CASE Same(u)
        BY <2>1, <2>2 DEF Advance, Same, Past, Woken, Served
    <2>3. CASE ~Same(u)
        BY <1>1, <2>3 DEF Advance, SameOrStarted, Past
    <2> QED  BY <2>2, <2>3
<1>2. ASSUME NEW t \in Tasks, TaskRuns(t) \/ TimerExpires(t)
      PROVE  now' = now /\ program' = program /\ \A u \in Tasks : Advance(u)
    <2>0. program' = program /\ now' = now /\ \A u \in Tasks : u # t => Same(u)
        BY <1>2, MoveBegin, MoveStartJob, MoveStartBurn, MoveEndJob, MoveTakeLock, MoveRecord,
           MoveSleepUntil, MoveNanosleep, MoveLeave, MoveTimer DEF TaskRuns, Move
    <2>1. /\ now \in Nat /\ release_time[t] \in Nat /\ period(t) \in Nat /\ wakeup[t] \in Nat
          /\ wcet(t) \in Nat /\ period(t)' = period(t) /\ Clock(t)
        BY <2>0, Numbers, SameValues DEF ClockInv
    <2>2. Advance(t)
        <3> USE DEF Advance, Past, Woken, Served, Move, Clock
        <3>1. CASE Begin(t)
            BY <2>0, <2>1, <3>1, MoveBegin
        <3>2. CASE StartJob(t)
            BY <2>0, <2>1, <3>2, MoveStartJob
        <3>3. CASE StartBurn(t)
            BY <2>0, <2>1, <3>3, MoveStartBurn
        <3>4. CASE EndJob(t)
            BY <2>0, <2>1, <3>4, MoveEndJob
        <3>5. CASE TakeTraceLock(t)
            BY <2>0, <2>1, <3>5, MoveTakeLock
        <3>6. CASE Record(t)
            BY <2>0, <2>1, <3>6, MoveRecord
        <3>7. CASE SleepUntil(t)
            BY <2>0, <2>1, <3>7, MoveSleepUntil
        <3>8. CASE Nanosleep(t)
            BY <2>0, <2>1, <3>8, MoveNanosleep
        <3>9. CASE LeaveLoop(t)
            BY <2>0, <2>1, <3>9, MoveLeave
        <3>10. CASE TimerExpires(t)
            BY <2>0, <2>1, <3>10, MoveTimer
        <3> QED  BY <1>2, <3>1, <3>2, <3>3, <3>4, <3>5, <3>6, <3>7, <3>8, <3>9, <3>10 DEF TaskRuns
    <2>3. \A u \in Tasks : u # t => Advance(u)
        BY <1>1, <2>0 DEF SameOrStarted
    <2> QED  BY <2>0, <2>2, <2>3
<1>3. CASE OthersRun \/ DemoEnded \/ UNCHANGED dvars
    <2>1. program' = program /\ now' = now /\ \A u \in Tasks : SameOrStarted(u)
        BY <1>3, MoveMain
    <2> QED  BY <1>1, <2>1
<1> QED  BY <1>2, <1>3 DEF DemoNext

\* What Near is made of, for the periods and execution times of demo_periodic.
LEMMA NearNumbers ==
    ASSUME Base, ClockInv, program = "periodic"
    PROVE  /\ now \in Nat /\ Past(80) \in BOOLEAN /\ Past(60) \in BOOLEAN /\ Past(40) \in BOOLEAN
           /\ Woken(80) \in Int /\ Woken(60) \in Int /\ Woken(40) \in Int
           /\ Past(80) => Woken(80) <= now
           /\ end[60] \in Nat /\ end[40] \in Nat
           /\ end[60] # 0 => Past(60) /\ end[60] <= now + 3
           /\ end[40] # 0 => Past(40) /\ end[40] <= now + 5
           /\ period(80) = 10 /\ period(60) = 20 /\ period(40) = 50
           /\ wcet(80) = 2 /\ wcet(60) = 3 /\ wcet(40) = 5
<1>1. /\ period(80) = 10 /\ period(60) = 20 /\ period(40) = 50
      /\ wcet(80) = 2 /\ wcet(60) = 3 /\ wcet(40) = 5
    BY Values DEF Base
<1>2. Clock(80) /\ Clock(60) /\ Clock(40)
    BY Numbers DEF ClockInv
<1>3. Past(80) => Woken(80) <= now
    BY <1>2 DEF Clock
<1>4. /\ end[60] # 0 => Past(60) /\ end[60] <= now + 3
      /\ end[40] # 0 => Past(40) /\ end[40] <= now + 5
    BY <1>1, <1>2, Numbers DEF Clock, Past
<1>5. Woken(80) \in Int /\ Woken(60) \in Int /\ Woken(40) \in Int
    BY <1>1, Numbers DEF Woken
<1>6. Past(80) \in BOOLEAN /\ Past(60) \in BOOLEAN /\ Past(40) \in BOOLEAN
    BY DEF Past
<1> QED  BY <1>1, <1>3, <1>4, <1>5, <1>6, Numbers

LEMMA NearNow ==
    ASSUME Base, ClockInv, program = "periodic"
    PROVE  Near(now, 0, 0)
BY NearNumbers DEF Near, Limit, Bursts

\* The lengths of the intervals.
LEMMA NearLength ==
    ASSUME Base, ClockInv, program = "periodic", NEW x \in Int, NEW m \in {0, 1}, NEW l \in {0, 1},
           Near(x, m, l)
    PROVE  /\ x <= now /\ now <= x + 12
           /\ l = 0 => now <= x + 5
           /\ l = 0 /\ m = 0 => now <= x + 2
BY NearNumbers DEF Near, Limit, Bursts

\* More may have burnt than is known to have.
LEMMA CountedStill ==
    ASSUME Base, ClockInv, NEW u \in {40, 60}, Advance(u),
           NEW x \in Int, NEW a \in Int, NEW b \in Int, a <= b,
           NEW k \in {7, 15}, Counted(u, x, a, k),
           now <= x + 12, k + 13 <= period(u), now' = now
    PROVE  Counted(u, x, b, k)'
<1>1. /\ Past(u) /\ Woken(u) > x - k
      /\ IF end[u] # 0 THEN end[u] <= a ELSE tpc[u] \in {"lock", "record", "sleep"}
    BY DEF Counted
<1>2. now \in Nat /\ Woken(u) \in Int /\ end[u] \in Nat /\ period(u) \in Nat
    BY Numbers DEF Woken
<1>3. ~(Woken(u) + period(u) <= now)
    BY <1>1, <1>2
<1>4. /\ Past(u)' /\ Woken(u)' = Woken(u)
      /\ Served(u) => Served(u)'
      /\ end[u] # 0 => end'[u] = end[u] \/ Served(u)'
    BY <1>1, <1>3 DEF Advance
<1>5. IF end'[u] # 0 THEN end'[u] <= b ELSE tpc'[u] \in {"lock", "record", "sleep"}
    BY <1>1, <1>2, <1>4 DEF Served
<1>6. Woken(u)' > x - k
    BY <1>1, <1>4
<1> QED  BY <1>4, <1>5, <1>6 DEF Counted

\* A release of the task of priority 80 adds a burst, and only once it is due.
LEMMA BurstsGrow ==
    ASSUME Base, ClockInv, program = "periodic", Advance(80),
           NEW x \in Int, NEW m \in {0, 1}, NEW l \in {0, 1}, Near(x, m, l)
    PROVE  /\ Limit(x, m, l) \in Int /\ Limit(x, m, l)' \in Int
           /\ Limit(x, m, l) <= Limit(x, m, l)'
           /\ Past(80)' => Woken(80)' + 2 <= Limit(x, m, l)'
<1>1. now <= x + 12 /\ x <= now
    BY NearLength
<1>2. /\ now \in Nat /\ Woken(80) \in Int /\ period(80) = 10
      /\ Past(80) \in BOOLEAN /\ Past(80)' \in BOOLEAN
    BY NearNumbers DEF Past
<1>3. /\ Bursts(x) \in {0, 1, 2} /\ Bursts(x)' \in {0, 1, 2}
    BY DEF Bursts
<1>4. /\ Limit(x, m, l) = x + 2 * Bursts(x) + 3 * m + 5 * l
      /\ Limit(x, m, l)' = x + 2 * Bursts(x)' + 3 * m + 5 * l
    BY DEF Limit
<1>5. now <= Limit(x, m, l) /\ (Past(80) => Woken(80) + 2 <= Limit(x, m, l))
    BY DEF Near
<1>6. CASE ~Past(80)
    <2>1. Bursts(x) = 0
        BY <1>6 DEF Bursts
    <2>2. CASE ~Past(80)'
        BY <1>1, <1>2, <1>3, <1>4, <2>1, <2>2
    <2>3. CASE Past(80)'
        <3>1. Woken(80)' = now
            BY <1>6, <2>3 DEF Advance
        <3>2. Bursts(x)' >= 1
            BY <1>1, <1>2, <2>3, <3>1 DEF Bursts
        <3> QED  BY <1>1, <1>2, <1>3, <1>4, <1>5, <2>1, <3>1, <3>2
    <2> QED  BY <2>2, <2>3
<1>7. CASE Past(80)
    <2>0. /\ Past(80)'
          /\ \/ Woken(80)' = Woken(80)
             \/ Woken(80)' = Woken(80) + 10 /\ Woken(80)' <= now
        BY <1>2, <1>7 DEF Advance
    <2>1. CASE Woken(80)' = Woken(80)
        <3>1. Bursts(x)' = Bursts(x)
            BY <1>7, <2>0, <2>1 DEF Bursts
        <3> QED  BY <1>2, <1>3, <1>4, <1>5, <1>7, <2>1, <3>1
    <2>2. CASE Woken(80)' = Woken(80) + 10 /\ Woken(80)' <= now
        <3>1. \/ Bursts(x) = 0 /\ Bursts(x)' = 0 /\ Woken(80)' < x - 2
              \/ Bursts(x) = 0 /\ Bursts(x)' >= 1
              \/ Bursts(x) = 1 /\ Bursts(x)' = 2
            BY <1>1, <1>2, <1>7, <2>0, <2>2 DEF Bursts
        <3> QED  BY <1>2, <1>3, <1>4, <1>5, <1>7, <2>2, <3>1
    <2> QED  BY <2>0, <2>1, <2>2
<1> QED  BY <1>2, <1>6, <1>7

LEMMA NearKept ==
    ASSUME Base, ClockInv, program = "periodic", [DemoNext]_dvars, ~TimePasses,
           NEW x \in Int, NEW m \in {0, 1}, NEW l \in {0, 1}, Near(x, m, l)
    PROVE  Near(x, m, l)'
<1>1. now' = now /\ Advance(80) /\ Advance(60) /\ Advance(40)
    BY Advances, Numbers
<1>2. /\ Limit(x, m, l) \in Int /\ Limit(x, m, l)' \in Int
      /\ Limit(x, m, l) <= Limit(x, m, l)'
      /\ Past(80)' => Woken(80)' + 2 <= Limit(x, m, l)'
    BY <1>1, BurstsGrow
<1>3. x <= now /\ now <= x + 12 /\ now \in Nat
    BY NearLength, Numbers
<1>4. x <= now' /\ now' <= Limit(x, m, l)'
    BY <1>1, <1>2, <1>3 DEF Near
<1>5. period(60) = 20 /\ period(40) = 50
    BY NearNumbers
<1>0. PICK b \in Int : b = Limit(x, m, l)'
    BY <1>2
<1>6. m = 1 => Counted(60, x, b, 7)'
    <2>1. m = 1 => Counted(60, x, Limit(x, m, l), 7)
        BY DEF Near
    <2>2. 7 + 13 <= period(60)
        BY <1>5
    <2> QED  BY <1>0, <1>1, <1>2, <1>3, <2>1, <2>2, CountedStill
<1>7. l = 1 => Counted(40, x, b, 15)'
    <2>1. l = 1 => Counted(40, x, Limit(x, m, l), 15)
        BY DEF Near
    <2>2. 15 + 13 <= period(40)
        BY <1>5
    <2> QED  BY <1>0, <1>1, <1>2, <1>3, <2>1, <2>2, CountedStill
<1> QED  BY <1>0, <1>2, <1>4, <1>6, <1>7 DEF Near, Counted

\* The passing of time changes Near only in what it says of now.
LEMMA NearAfter ==
    ASSUME Base, ClockInv, program = "periodic", TimePasses,
           NEW x \in Int, NEW m \in {0, 1}, NEW l \in {0, 1}, NEW lim \in Int,
           lim = Limit(x, m, l), x <= now, now + 1 <= lim, Past(80) => Woken(80) + 2 <= lim,
           m = 1 => Counted(60, x, lim, 7), l = 1 => Counted(40, x, lim, 15)
    PROVE  Near(x, m, l)'
<1>0. /\ now' = now + 1 /\ program' = program /\ now \in Nat
      /\ Same(80) /\ Same(60) /\ Same(40)
    BY MoveTime, Numbers
<1>1. period(80)' = period(80) /\ period(60)' = period(60) /\ period(40)' = period(40)
    BY <1>0, SameValues, Numbers
<1>2. /\ Past(80)' = Past(80) /\ Past(60)' = Past(60) /\ Past(40)' = Past(40)
      /\ Woken(80)' = Woken(80) /\ Woken(60)' = Woken(60) /\ Woken(40)' = Woken(40)
    BY <1>0, <1>1 DEF Same, Past, Woken
<1>3. Limit(x, m, l)' = lim
    BY <1>2 DEF Limit, Bursts
<1>4. /\ m = 1 => Counted(60, x, lim, 7)'
      /\ l = 1 => Counted(40, x, lim, 15)'
    BY <1>0, <1>2 DEF Counted, Same
<1> QED  BY <1>0, <1>2, <1>3, <1>4 DEF Near, Counted

\* A unit of time that a task burns is accounted to that task.
LEMMA NearTick ==
    ASSUME Base, ClockInv, program = "periodic", TimePasses,
           NEW x \in Int, NEW m \in {0, 1}, NEW l \in {0, 1}, Near(x, m, l),
           end[80] # 0 => end[80] = release_time[80] + 2,
           end[60] # 0 => end[60] <= release_time[60] + 7,
           end[40] # 0 => end[40] <= release_time[40] + 15
    PROVE  /\ Burns(80) => Near(x, m, l)'
           /\ Burns(60) => Near(x, 1, l)'
           /\ Burns(40) => Near(x, m, 1)'
<1>1. /\ now \in Nat /\ Woken(80) \in Int /\ Woken(60) \in Int /\ Woken(40) \in Int
      /\ end[80] \in Nat /\ end[60] \in Nat /\ end[40] \in Nat
      /\ end[60] # 0 => end[60] <= now + 3
      /\ end[40] # 0 => end[40] <= now + 5
      /\ Past(80) => Woken(80) <= now
      /\ x <= now
    BY NearNumbers, NearLength, Numbers
<1>2. \A t \in Tasks : Burns(t) =>
        /\ tpc[t] = "func" /\ end[t] # 0 /\ now < end[t]
        /\ Past(t) /\ Woken(t) = release_time[t]
    BY DEF Burns, ClockInv, Clock, Past, Woken
<1>3. PICK a, b, c \in Int : /\ a = Limit(x, m, l) /\ b = Limit(x, 1, l) /\ c = Limit(x, m, 1)
                            /\ a <= b /\ (m = 1 => a = b) /\ (m = 0 => b = a + 3)
                            /\ a <= c /\ (l = 1 => a = c) /\ (l = 0 => c = a + 5)
    BY DEF Limit, Bursts
<1>4. /\ now <= a /\ (Past(80) => Woken(80) + 2 <= a)
      /\ m = 1 => Counted(60, x, a, 7)
      /\ l = 1 => Counted(40, x, a, 15)
    BY <1>3 DEF Near
<1>5. ASSUME Burns(80) PROVE Near(x, m, l)'
    <2>1. now + 1 <= a
        BY <1>1, <1>2, <1>3, <1>4, <1>5, Numbers
    <2> QED  BY <1>1, <1>3, <1>4, <2>1, NearAfter
<1>6. ASSUME Burns(60) PROVE Near(x, 1, l)'
    <2>1. end[60] <= b
        BY <1>1, <1>2, <1>3, <1>4, <1>6, Numbers DEF Counted
    <2>2. Counted(60, x, b, 7)
        BY <1>1, <1>2, <1>6, <2>1, Numbers DEF Counted
    <2>3. l = 1 => Counted(40, x, b, 15)
        BY <1>1, <1>3, <1>4 DEF Counted
    <2>4. now + 1 <= b /\ (Past(80) => Woken(80) + 2 <= b)
        BY <1>1, <1>2, <1>3, <1>4, <1>6, <2>1, Numbers
    <2> QED  BY <1>1, <1>3, <2>2, <2>3, <2>4, NearAfter
<1>7. ASSUME Burns(40) PROVE Near(x, m, 1)'
    <2>1. end[40] <= c
        BY <1>1, <1>2, <1>3, <1>4, <1>7, Numbers DEF Counted
    <2>2. Counted(40, x, c, 15)
        BY <1>1, <1>2, <1>7, <2>1, Numbers DEF Counted
    <2>3. m = 1 => Counted(60, x, c, 7)
        BY <1>1, <1>3, <1>4 DEF Counted
    <2>4. now + 1 <= c /\ (Past(80) => Woken(80) + 2 <= c)
        BY <1>1, <1>2, <1>3, <1>4, <1>7, <2>1, Numbers
    <2> QED  BY <1>1, <1>3, <2>2, <2>3, <2>4, NearAfter
<1> QED  BY <1>5, <1>6, <1>7

LEMMA BaseNext == Base /\ ClockInv /\ [DemoNext]_dvars => Base'
<1> SUFFICES ASSUME Base, ClockInv, [DemoNext]_dvars PROVE Base'
    OBVIOUS
<1>1. IInv'
    BY DemoStepIsStep, TypeNext, MainNext, RecordNext, PolicyNext, StatsNext DEF IInv, Base
<1>2. root'
    BY DemoStepIsStep, MainMoves, ThreadMoves DEF Base, IInv, Next, ThreadStep
<1> QED  BY <1>1, <1>2, DemoTypeNext, HolderNext DEF Base

Lengths ==
    \A x \in Int : \A m, l \in {0, 1} :
        Near(x, m, l) => /\ x <= now /\ now <= x + 12
                         /\ l = 0 => now <= x + 5
                         /\ l = 0 /\ m = 0 => now <= x + 2

LEMMA NearLengths == Base /\ ClockInv /\ program = "periodic" => Lengths
BY NearLength DEF Lengths

\* A step that takes no time, and a unit of time, seen by the invariants below.
LEMMA NearSteps ==
    ASSUME Base, ClockInv, program = "periodic", [DemoNext]_dvars, ~TimePasses
    PROVE  /\ now' = now /\ now \in Nat /\ program' = program
           /\ \A n \in Int : n = now => Near(n, 0, 0)'
           /\ \A x \in Int : \A m, l \in {0, 1} : Near(x, m, l) => Near(x, m, l)'
           /\ Lengths
<1>1. now' = now /\ now \in Nat /\ program' = program
    BY Advances, Numbers
<1>2. \A x \in Int : \A m, l \in {0, 1} : Near(x, m, l) => Near(x, m, l)'
    BY NearKept
<1>3. ASSUME NEW n \in Int, n = now PROVE Near(n, 0, 0)'
    <2>1. Near(n, 0, 0)
        BY <1>3, NearNow
    <2> QED  BY <1>2, <2>1
<1> QED  BY <1>1, <1>2, <1>3, NearLengths

-----------------------------------------------------------------------------
(* The tasks of priority 60 and 40 in demo_periodic *)

\* The steps of the thread itself.
LEMMA LowerOwn ==
    ASSUME Base, ClockInv, NEW t \in {40, 60}, LowerInv(t),
           program = "periodic", [DemoNext]_dvars, ~TimePasses,
           TaskRuns(t) \/ TimerExpires(t)
    PROVE  LowerInv(t)'
<1> DEFINE r == release_time[t]
<1> USE DEF Slack, Latest
<1>1. /\ now' = now /\ now \in Nat /\ t \in Tasks
      /\ \A n \in Int : n = now => Kept(t, n)'
      /\ \A x \in Int : Kept(t, x) => Kept(t, x)'
      /\ \A x \in Int : Kept(t, x) => now <= x + Slack(t)
      /\ Clock(t) /\ period(t) \in Nat /\ wcet(t) \in Nat
      /\ Latest(t) = 2 * Slack(t) + wcet(t) /\ Latest(t) + Slack(t) < period(t)
    BY NearSteps, NearNumbers, Numbers DEF Kept, Lengths, ClockInv
<1>2. /\ r \in Nat /\ end[t] \in Nat /\ rem[t] \in Nat /\ wakeup[t] \in Nat
      /\ absolute_deadline[t] \in Nat /\ phase[t] \in {"until", "nanosleep", "asleep"}
    BY Numbers
<1>3. ASSUME NEW d \in {Slack(t), Latest(t)}, KeptSince(t, d), release_time'[t] = r
      PROVE  KeptSince(t, d)'
    <2>1. PICK x \in now - Slack(t) .. now : x <= r + d /\ Kept(t, x)
        BY <1>3 DEF KeptSince
    <2> QED  BY <1>1, <1>3, <2>1 DEF KeptSince
<1>4. ASSUME NEW d \in {Slack(t), Latest(t)}, release_time'[t] \in Nat, now <= release_time'[t] + d
      PROVE  KeptSince(t, d)'
    <2>1. PICK x \in Int : x = now
        BY <1>1
    <2> QED  BY <1>1, <1>4, <2>1 DEF KeptSince
<1>5. deadline_misses[t] = 0
    BY DEF LowerInv
<1>6. CASE Begin(t)
    <2>1. /\ tpc'[t] = "while" /\ phase'[t] = "until" /\ release_time'[t] = now
          /\ end'[t] = 0 /\ deadline_misses'[t] = 0
        BY <1>1, <1>5, <1>6, MoveBegin DEF Move, Clock
    <2> QED  BY <1>1, <1>4, <2>1 DEF LowerInv
<1>7. CASE StartJob(t)
    <2>1. /\ tpc[t] = "while" /\ tpc'[t] = "func" /\ phase'[t] = "until" /\ release_time'[t] = r
          /\ end[t] = 0 /\ end'[t] = 0 /\ deadline_misses'[t] = 0
        BY <1>1, <1>5, <1>7, MoveStartJob DEF Move, Clock
    <2> QED  BY <1>3, <2>1 DEF LowerInv
<1>8. CASE StartBurn(t)
    <2>1. /\ tpc[t] = "func" /\ tpc'[t] = "func" /\ phase'[t] = "until" /\ release_time'[t] = r
          /\ end[t] = 0 /\ end'[t] = now + wcet(t) /\ deadline_misses'[t] = 0
        BY <1>1, <1>5, <1>8, MoveStartBurn DEF Move, Clock
    <2>2. PICK x \in now - Slack(t) .. now : x <= r + Slack(t) /\ Kept(t, x)
        BY <2>1 DEF LowerInv, KeptSince
    <2>3. now <= r + 2 * Slack(t)
        BY <1>1, <1>2, <2>2
    <2> QED  BY <1>1, <1>2, <2>1, <2>3 DEF LowerInv
<1>9. CASE EndJob(t)
    <2>1. /\ tpc[t] = "func" /\ tpc'[t] = "lock" /\ phase[t] = "until" /\ phase'[t] = "until"
          /\ release_time'[t] = r
          /\ end[t] # 0 /\ now >= end[t] /\ end'[t] = 0
          /\ absolute_deadline[t] = r + period(t)
          /\ deadline_misses'[t] = 0 \/ now >= absolute_deadline[t]
        BY <1>1, <1>5, <1>9, MoveEndJob DEF Move, Clock, Past
    <2>2. end[t] <= r + Latest(t) /\ (now <= end[t] \/ Kept(t, end[t]))
        BY <2>1 DEF LowerInv
    <2>3. now <= end[t] + Slack(t) /\ KeptSince(t, Latest(t))'
        <3>1. CASE now <= end[t]
            BY <1>1, <1>2, <1>4, <2>1, <2>2, <3>1
        <3>2. CASE Kept(t, end[t])
            <4>1. PICK x \in Int : x = end[t]
                BY <1>2
            <4>2. x \in now - Slack(t) .. now /\ x <= r + Latest(t) /\ Kept(t, x)'
                BY <1>1, <1>2, <2>1, <2>2, <3>2, <4>1
            <4>3. now <= end[t] + Slack(t)
                BY <1>1, <1>2, <3>2
            <4> QED  BY <1>1, <2>1, <4>2, <4>3 DEF KeptSince
        <3> QED  BY <2>2, <3>1, <3>2
    <2>4. deadline_misses'[t] = 0
        BY <1>1, <1>2, <2>1, <2>2, <2>3
    <2> QED  BY <2>1, <2>3, <2>4 DEF LowerInv
<1>10. CASE TakeTraceLock(t)
    <2>1. /\ tpc[t] = "lock" /\ tpc'[t] = "record" /\ phase'[t] = "until" /\ release_time'[t] = r
          /\ end'[t] = 0 /\ deadline_misses'[t] = 0
        BY <1>1, <1>5, <1>10, MoveTakeLock DEF Move, Clock
    <2> QED  BY <1>3, <2>1 DEF LowerInv
<1>11. CASE Record(t)
    <2>1. /\ tpc[t] = "record" /\ tpc'[t] = "sleep" /\ phase'[t] = "until"
          /\ release_time'[t] = r /\ end'[t] = 0 /\ deadline_misses'[t] = 0
        BY <1>1, <1>5, <1>11, MoveRecord DEF Move, Clock
    <2> QED  BY <1>3, <2>1 DEF LowerInv
<1>12. CASE SleepUntil(t)
    <2>1. PICK x \in now - Slack(t) .. now : x <= r + Latest(t) /\ Kept(t, x)
        BY <1>1, <1>12, MoveSleepUntil DEF LowerInv, KeptSince
    <2>2. r + period(t) >= now
        BY <1>1, <1>2, <2>1
    <2>3. /\ tpc'[t] = "sleep" /\ phase'[t] = "nanosleep" /\ release_time'[t] = r + period(t)
          /\ rem'[t] = (r + period(t)) - now /\ end'[t] = 0 /\ deadline_misses'[t] = 0
        BY <1>1, <1>2, <1>5, <1>12, <2>2, MoveSleepUntil DEF Move, Clock
    <2>4. PICK n \in Int : n = now
        BY <1>1
    <2>5. Kept(t, n)' /\ release_time'[t] - rem'[t] = n
        BY <1>1, <1>2, <2>3, <2>4
    <2>6. Kept(t, release_time[t] - rem[t])'
        BY <2>5 DEF Kept, Near, Limit, Bursts, Counted
    <2> QED  BY <2>3, <2>6 DEF LowerInv
<1>13. CASE Nanosleep(t)
    <2>1. /\ phase[t] = "nanosleep" /\ tpc'[t] = "sleep" /\ phase'[t] = "asleep"
          /\ release_time'[t] = r /\ wakeup'[t] = now + rem[t]
          /\ end'[t] = 0 /\ deadline_misses'[t] = 0
        BY <1>1, <1>5, <1>13, MoveNanosleep DEF Move, Clock
    <2>2. r - rem[t] \in Int /\ Kept(t, r - rem[t])
        BY <1>2, <2>1 DEF LowerInv
    <2>3. now <= (r - rem[t]) + Slack(t)
        BY <1>1, <2>2
    <2>4. wakeup'[t] <= r + Slack(t)
        BY <1>1, <1>2, <2>1, <2>3
    <2> QED  BY <2>1, <2>4 DEF LowerInv
<1>14. CASE LeaveLoop(t)
    <2>1. /\ tpc'[t] = "exited" /\ phase'[t] = "until" /\ end'[t] = 0 /\ deadline_misses'[t] = 0
        BY <1>1, <1>5, <1>14, MoveLeave DEF Move, Clock
    <2> QED  BY <2>1 DEF LowerInv
<1>15. CASE TimerExpires(t)
    <2>1. /\ phase[t] = "asleep" /\ now >= wakeup[t] /\ tpc'[t] = "while" /\ phase'[t] = "until"
          /\ release_time'[t] = r /\ end'[t] = 0 /\ deadline_misses'[t] = 0
        BY <1>1, <1>5, <1>15, MoveTimer DEF Move, Clock
    <2>2. now <= r + Slack(t)
        BY <1>1, <1>2, <2>1 DEF LowerInv, Clock
    <2> QED  BY <1>2, <1>4, <2>1, <2>2 DEF LowerInv
<1> QED  BY <1>6, <1>7, <1>8, <1>9, <1>10, <1>11, <1>12, <1>13, <1>14, <1>15 DEF TaskRuns

\* The steps of the other threads.
LEMMA LowerOthers ==
    ASSUME Base, ClockInv, NEW t \in {40, 60}, LowerInv(t),
           program = "periodic", [DemoNext]_dvars, ~TimePasses,
           SameOrStarted(t)
    PROVE  LowerInv(t)'
<1> USE DEF Slack, Latest
<1>1. /\ now' = now /\ now \in Nat /\ Clock(t)
      /\ release_time[t] \in Nat /\ end[t] \in Nat /\ rem[t] \in Nat
      /\ \A x \in Int : Kept(t, x) => Kept(t, x)'
    BY NearSteps, Numbers DEF Kept, ClockInv
<1>2. CASE Same(t)
    <2>1. ASSUME NEW d \in {Slack(t), Latest(t)}, KeptSince(t, d) PROVE KeptSince(t, d)'
        <3>1. PICK x \in now - Slack(t) .. now : x <= release_time[t] + d /\ Kept(t, x)
            BY <2>1 DEF KeptSince
        <3> QED  BY <1>1, <1>2, <3>1 DEF KeptSince, Same
    <2>2. Kept(t, end[t]) => Kept(t, end[t])'
        <3>1. PICK x \in Int : x = end[t] /\ x = end'[t]
            BY <1>1, <1>2 DEF Same
        <3>2. Kept(t, x) => Kept(t, x)'
            BY <1>1
        <3> QED  BY <3>1, <3>2 DEF Kept, Near, Limit, Bursts, Counted
    <2>3. Kept(t, release_time[t] - rem[t]) => Kept(t, release_time[t] - rem[t])'
        <3>1. PICK x \in Int :
                x = release_time[t] - rem[t] /\ x = release_time'[t] - rem'[t]
            BY <1>1, <1>2 DEF Same
        <3>2. Kept(t, x) => Kept(t, x)'
            BY <1>1
        <3> QED  BY <3>1, <3>2 DEF Kept, Near, Limit, Bursts, Counted
    <2> QED  BY <1>1, <1>2, <2>1, <2>2, <2>3 DEF LowerInv, Same
<1>3. CASE ~Same(t)
    <2>1. /\ tpc'[t] = "setup" /\ phase'[t] = "until" /\ end'[t] = 0
          /\ deadline_misses'[t] = 0
        BY <1>1, <1>3 DEF SameOrStarted, Clock, LowerInv
    <2> QED  BY <2>1 DEF LowerInv
<1> QED  BY <1>2, <1>3

\* The bounds that NearTick asks for.
LEMMA Ends ==
    ASSUME Base, ClockInv, TopInv, LowerInv(60), LowerInv(40), program = "periodic"
    PROVE  /\ end[80] # 0 => end[80] = release_time[80] + 2
           /\ end[60] # 0 => end[60] <= release_time[60] + 7
           /\ end[40] # 0 => end[40] <= release_time[40] + 15
BY NearNumbers DEF TopInv, LowerInv, Latest

LEMMA LowerTick ==
    ASSUME Base, ClockInv, TopInv, LowerInv(60), LowerInv(40), program = "periodic", TimePasses,
           Lengths', NEW t \in {40, 60}
    PROVE  LowerInv(t)'
<1>1. /\ now' = now + 1 /\ Same(t)
      /\ AllWait \/ Burns(40) \/ Burns(60) \/ Burns(80)
    BY MoveTime, Numbers
<1>2. /\ now \in Nat /\ Clock(t) /\ LowerInv(t) /\ deadline_misses[t] = 0
      /\ release_time[t] \in Nat /\ end[t] \in Nat /\ rem[t] \in Nat
    BY Numbers DEF ClockInv, LowerInv
<1>3. ASSUME tpc[t] \in {"none", "setup", "exited"} \/ (tpc[t] = "sleep" /\ phase[t] = "asleep")
      PROVE  LowerInv(t)'
    BY <1>1, <1>2, <1>3 DEF LowerInv, Same, Clock, Slack
<1>4. CASE AllWait
    BY <1>3, <1>4, Idle, Numbers DEF AllWait
<1>5. CASE t = 60 /\ Burns(40)
    <2>1. g_trace_lock \in Tasks => ~(g_trace_lock < 40)
        BY DEF Base, DemosAssumption
    <2> QED  BY <1>3, <1>5, <2>1, Blocked, Numbers
<1>6. CASE Burns(t)
    <2>1. tpc[t] = "func" /\ phase[t] = "until" /\ end[t] # 0 /\ now < end[t]
        BY <1>2, <1>6 DEF Burns, Clock
    <2> QED  BY <1>1, <1>2, <2>1 DEF LowerInv, Same, Latest
<1>7. CASE Burns(80) \/ (t = 40 /\ Burns(60))
    <2>1. ASSUME NEW x \in Int, Kept(t, x) PROVE Kept(t, x)'
        <3>1. PICK m \in {0, 1} : Near(x, m, 0) /\ (t = 60 => m = 0)
            BY <2>1 DEF Kept
        <3>2. Near(x, m, 0)' \/ (t = 40 /\ Near(x, 1, 0)')
            BY <1>7, <3>1, NearTick, Ends
        <3> QED  BY <3>1, <3>2 DEF Kept
    <2>2. \A x \in Int : Kept(t, x)' => x <= now + 1 /\ now + 1 <= x + Slack(t)
        BY <1>1 DEF Kept, Lengths, Slack
    <2>3. ASSUME NEW d \in {Slack(t), Latest(t)}, KeptSince(t, d) PROVE KeptSince(t, d)'
        <3>1. PICK x \in now - Slack(t) .. now : x <= release_time[t] + d /\ Kept(t, x)
            BY <2>3 DEF KeptSince
        <3>2. x \in Int /\ Kept(t, x)'
            BY <1>2, <2>1, <3>1 DEF Slack
        <3>3. x \in now' - Slack(t) .. now'
            BY <1>1, <1>2, <2>2, <3>2 DEF Slack
        <3> QED  BY <1>1, <3>1, <3>2, <3>3 DEF KeptSince, Same, Slack, Latest
    <2>4. end[t] # 0 => /\ end'[t] <= release_time'[t] + Latest(t)
                        /\ now' <= end'[t] \/ Kept(t, end[t])'
        <3>1. PICK x \in Int : x = end[t] /\ x = end'[t]
            BY <1>1, <1>2 DEF Same
        <3>2. end[t] # 0 => x <= release_time[t] + Latest(t) /\ (now <= x \/ Kept(t, x))
            BY <1>2, <3>1 DEF LowerInv
        <3>3. now = x => Kept(t, x)
            BY NearNow DEF Kept
        <3>4. end[t] # 0 => now' <= x \/ Kept(t, x)'
            BY <1>1, <1>2, <2>1, <3>1, <3>2, <3>3
        <3>5. Kept(t, x)' => Kept(t, end[t])'
            BY <3>1 DEF Kept, Near, Limit, Bursts, Counted
        <3> QED  BY <1>1, <3>1, <3>2, <3>4, <3>5 DEF Same
    <2>5. Kept(t, release_time[t] - rem[t]) => Kept(t, release_time[t] - rem[t])'
        <3>1. PICK x \in Int :
                x = release_time[t] - rem[t] /\ x = release_time'[t] - rem'[t]
            BY <1>1, <1>2 DEF Same
        <3>2. Kept(t, x) => Kept(t, x)'
            BY <2>1
        <3> QED  BY <3>1, <3>2 DEF Kept, Near, Limit, Bursts, Counted
    <2> QED  BY <1>1, <1>2, <2>3, <2>4, <2>5 DEF LowerInv, Same, Slack, Latest
<1> QED  BY <1>1, <1>4, <1>5, <1>6, <1>7

LEMMA LowerNext ==
    Base /\ ClockInv /\ TopInv /\ LowerInv(60) /\ LowerInv(40) /\ program = "periodic"
    /\ [DemoNext]_dvars => LowerInv(60)' /\ LowerInv(40)'
<1>1. (Base /\ ClockInv /\ program = "periodic" => Lengths)'
    BY NearLengths, PTL
<1> SUFFICES ASSUME Base, ClockInv, TopInv, LowerInv(60), LowerInv(40), program = "periodic",
                    [DemoNext]_dvars
             PROVE  LowerInv(60)' /\ LowerInv(40)'
    OBVIOUS
<1>2. CASE TimePasses
    <2>1. program' = program
        BY <1>2, MoveTime
    <2>2. Lengths'
        BY <1>1, <2>1, BaseNext, ClockNext
    <2> QED  BY <1>2, <2>2, LowerTick
<1>3. ASSUME ~TimePasses, NEW t \in {40, 60} PROVE LowerInv(t)'
    <2>0. t \in Tasks /\ LowerInv(t)
        BY Numbers
    <2>1. CASE TaskRuns(t) \/ TimerExpires(t)
        BY <1>3, <2>0, <2>1, LowerOwn
    <2>2. ASSUME NEW u \in Tasks, u # t, TaskRuns(u) \/ TimerExpires(u) PROVE SameOrStarted(t)
        BY <2>0, <2>2, MoveBegin, MoveStartJob, MoveStartBurn, MoveEndJob, MoveTakeLock,
           MoveRecord, MoveSleepUntil, MoveNanosleep, MoveLeave, MoveTimer
           DEF TaskRuns, Move, SameOrStarted
    <2>3. CASE OthersRun \/ DemoEnded \/ UNCHANGED dvars
        <3>1. SameOrStarted(t)
            BY <2>0, <2>3, MoveMain
        <3> QED  BY <1>3, <2>0, <3>1, LowerOthers
    <2> QED  BY <1>3, <2>0, <2>1, <2>2, <2>3, LowerOthers DEF DemoNext
<1> QED  BY <1>2, <1>3

-----------------------------------------------------------------------------
(* main *)

LEMMA DemoMainNext ==
    Base /\ ClockInv /\ TopInv /\ LowerInv(60) /\ LowerInv(40) /\ MainInv /\ program = "periodic"
    /\ [DemoNext]_dvars => MainInv'
<1> SUFFICES ASSUME Base, ClockInv, TopInv, LowerInv(60), LowerInv(40), MainInv,
                    program = "periodic",
                    [DemoNext]_dvars, mpc' = "run"
             PROVE  now' <= until' \/ KeptMain(until)'
    BY DEF MainInv
<1>0. now \in Nat /\ until \in Nat
    BY DEF Base, DemoTypeOK
<1>1. CASE TimePasses
    <2>1. /\ now' = now + 1 /\ until' = until /\ mpc = "run"
          /\ AllWait \/ Burns(40) \/ Burns(60) \/ Burns(80)
        BY <1>1, MoveTime
    <2>2. CASE AllWait
        <3>1. now < until
            BY <2>1, <2>2 DEF AllWait, MainWaits
        <3> QED  BY <1>0, <2>1, <3>1
    <2>3. CASE now < until
        BY <1>0, <2>1, <2>3
    <2>4. CASE ~AllWait /\ ~(now < until)
        <3>1. PICK u \in Int : u = until /\ u = until'
            BY <1>0, <2>1
        <3>2. KeptMain(u)
            <4>1. now = u => Near(u, 0, 0)
                BY NearNow
            <4>2. now = u \/ KeptMain(u)
                BY <1>0, <2>1, <2>4, <3>1 DEF MainInv
            <4> QED  BY <4>1, <4>2 DEF KeptMain
        <3>3. PICK m \in {0, 1}, l \in {0, 1} : Near(u, m, l)
            BY <3>2 DEF KeptMain
        <3>4. Near(u, m, l)' \/ Near(u, 1, l)' \/ Near(u, m, 1)'
            BY <1>1, <2>1, <2>4, <3>3, NearTick, Ends
        <3>5. KeptMain(u)'
            BY <3>4 DEF KeptMain
        <3> QED  BY <3>1, <3>5 DEF KeptMain, Near, Limit, Bursts, Counted
    <2> QED  BY <2>2, <2>3, <2>4
<1>2. ASSUME ~TimePasses, now' = now, until' = until, mpc = "run"
      PROVE  now' <= until' \/ KeptMain(until)'
    <2>1. PICK u \in Int : u = until /\ u = until'
        BY <1>0, <1>2
    <2>2. CASE now <= until
        BY <1>2, <2>2
    <2>3. CASE KeptMain(until)
        <3>1. PICK m \in {0, 1}, l \in {0, 1} : Near(u, m, l)
            BY <2>1, <2>3 DEF KeptMain
        <3>2. Near(u, m, l)'
            BY <1>2, <3>1, NearKept
        <3>3. KeptMain(u)'
            BY <3>2 DEF KeptMain
        <3> QED  BY <2>1, <3>3 DEF KeptMain, Near, Limit, Bursts, Counted
    <2> QED  BY <1>2, <2>2, <2>3 DEF MainInv
<1>3. ASSUME ~TimePasses, OthersRun \/ DemoEnded \/ UNCHANGED dvars
      PROVE  now' <= until' \/ KeptMain(until)'
    <2>1. now' = now /\ ((until' = until /\ mpc' = mpc) \/ (until' \in Nat /\ until' >= now))
        BY <1>3, MoveMain
    <2> QED  BY <1>0, <1>2, <1>3, <2>1
<1>4. ASSUME ~TimePasses, NEW t \in Tasks, TaskRuns(t) \/ TimerExpires(t)
      PROVE  now' <= until' \/ KeptMain(until)'
    <2>1. now' = now /\ until' = until /\ mpc = "run"
        BY <1>4, MoveBegin, MoveStartJob, MoveStartBurn, MoveEndJob, MoveTakeLock, MoveRecord,
           MoveSleepUntil, MoveNanosleep, MoveLeave, MoveTimer DEF TaskRuns, Move
    <2> QED  BY <1>2, <1>4, <2>1
<1> QED  BY <1>1, <1>3, <1>4 DEF DemoNext

\* The bounds of StopInv, whichever step main takes.
LEMMA MainBound ==
    ASSUME Base, ClockInv, MainInv, program = "periodic", mpc = "run"
    PROVE  now <= until + 12
<1>1. now \in Nat /\ until \in Nat
    BY DEF Base, DemoTypeOK
<1>2. CASE KeptMain(until)
    <2>1. PICK m \in {0, 1}, l \in {0, 1} : Near(until, m, l)
        BY <1>2 DEF KeptMain
    <2> QED  BY <1>1, <2>1, NearLength
<1> QED  BY <1>1, <1>2 DEF MainInv

\* scheduler_stop gets the processor only when no real-time thread is ready.
LEMMA StopJoin ==
    ASSUME Base, ClockInv, program = "periodic" => MainInv, OthersRun, mpc = "run", mpc' = "join",
           now' = now, until' = until, program' = program, \A u \in Tasks : SameOrStarted(u)
    PROVE  /\ \A t \in Tasks :
                tpc'[t] \in {"none", "setup", "while", "exited"} \/ phase'[t] = "asleep"
           /\ program = "periodic" =>
                /\ now' <= until' + 62
                /\ \A t \in Tasks : phase'[t] = "asleep" => wakeup'[t] <= until' + 62
<1>1. \A u \in Tasks : Past(u) => ~Ready(u)
    BY FifoRanks DEF OthersRun, OthersMayRun
<1>2. \A u \in Tasks : tpc[u] \in {"none", "setup", "exited"} \/ phase[u] = "asleep"
    BY <1>1, Idle
<1>3. \A t \in Tasks : tpc'[t] \in {"none", "setup", "while", "exited"} \/ phase'[t] = "asleep"
    BY <1>2 DEF SameOrStarted, Same
<1>4. ASSUME program = "periodic"
      PROVE  /\ now' <= until' + 62
             /\ \A t \in Tasks : phase'[t] = "asleep" => wakeup'[t] <= until' + 62
    <2>1. now \in Nat /\ until \in Nat /\ now <= until + 12
        BY <1>4, MainBound DEF Base, DemoTypeOK
    <2>2. ASSUME NEW t \in Tasks, phase'[t] = "asleep" PROVE wakeup'[t] <= until' + 62
        <3>1. wakeup'[t] = wakeup[t] /\ phase[t] = "asleep"
            BY <2>2 DEF SameOrStarted, Same
        <3>2. wakeup[t] <= now + period(t)
            BY <3>1 DEF ClockInv, Clock
        <3>3. wakeup[t] \in Nat /\ period(t) \in Nat /\ period(t) <= 50
            BY Values, Numbers DEF Base
        <3> QED  BY <2>1, <3>1, <3>2, <3>3
    <2> QED  BY <2>1, <2>2
<1> QED  BY <1>3, <1>4

LEMMA StopNext ==
    Base /\ ClockInv /\ StopInv /\ (program = "periodic" => MainInv) /\ [DemoNext]_dvars => StopInv'
<1> SUFFICES ASSUME Base, ClockInv, StopInv, program = "periodic" => MainInv, [DemoNext]_dvars
             PROVE  StopInv'
    OBVIOUS
<1>0. /\ now \in Nat /\ until \in Nat /\ i \in Nat
      /\ \A u \in Tasks : wakeup[u] \in Nat /\ Clock(u)
    BY Numbers DEF Base, DemoTypeOK, IInv, TypeOK, ClockInv
<1>1. CASE TimePasses
    <2>1. /\ now' = now + 1 /\ UNCHANGED <<program, until, mainVars>>
          /\ \A u \in Tasks : Same(u)
          /\ \A u \in Tasks : phase[u] = "asleep" => now < wakeup[u]
          /\ AllWait \/ Burns(40) \/ Burns(60) \/ Burns(80)
        BY <1>1, MoveTime
    <2>2. mpc = "join" => AllWait
        <3>1. \A u \in Tasks : mpc = "join" => ~Burns(u)
            BY <1>0 DEF StopInv, Burns, Clock
        <3> QED  BY <2>1, <3>1, Numbers
    <2>3. mpc = "join" /\ program = "periodic" => now < until + 62
        <3> SUFFICES ASSUME mpc = "join", program = "periodic" PROVE now < until + 62
            OBVIOUS
        <3>1. tick \in {"none", "while", "exited"} /\ ~running /\ i >= 1
            BY DEF StopInv
        <3>2. i <= Len(table) /\ tpc[table[i]] # "none" /\ ~Joinable(table[i])
            BY <2>2, <3>1 DEF AllWait, MainWaits
        <3>3. table[i] \in Tasks
            <4>1. table \in Seq(Tasks)
                BY DEF Base, IInv, TypeOK
            <4> QED  BY <1>0, <3>1, <3>2, <4>1
        <3>4. tpc[table[i]] \notin {"none", "setup", "while", "exited"}
            BY <2>2, <3>2, <3>3 DEF AllWait, Ready, Joinable, Asleep
        <3>5. phase[table[i]] = "asleep" /\ wakeup[table[i]] <= until + 62
            BY <3>3, <3>4 DEF StopInv
        <3> QED  BY <1>0, <2>1, <3>3, <3>5
    <2> QED  BY <1>0, <2>1, <2>3 DEF StopInv, Same
<1>2. ASSUME NEW t \in Tasks, TaskRuns(t) \/ TimerExpires(t) PROVE StopInv'
    <2>1. /\ UNCHANGED <<program, now, until, mainVars>> /\ \A u \in Tasks : u # t => Same(u)
        BY <1>2, MoveBegin, MoveStartJob, MoveStartBurn, MoveEndJob, MoveTakeLock, MoveRecord,
           MoveSleepUntil, MoveNanosleep, MoveLeave, MoveTimer DEF TaskRuns, Move
    <2>2. mpc = "join" => tpc'[t] \in {"while", "exited"} /\ phase'[t] = "until"
        <3> SUFFICES ASSUME mpc = "join"
                     PROVE  tpc'[t] \in {"while", "exited"} /\ phase'[t] = "until"
            OBVIOUS
        <3>1. /\ ~running /\ Clock(t)
              /\ tpc[t] \in {"none", "setup", "while", "exited"} \/ phase[t] = "asleep"
            BY <1>0 DEF StopInv
        <3>2. CASE Begin(t) \/ LeaveLoop(t) \/ TimerExpires(t)
            BY <3>1, <3>2, MoveBegin, MoveLeave, MoveTimer DEF Move, Clock
        <3>3. ~StartJob(t) /\ ~StartBurn(t) /\ ~EndJob(t) /\ ~TakeTraceLock(t) /\ ~Record(t)
            BY <3>1, MoveStartJob, MoveStartBurn, MoveEndJob, MoveTakeLock, MoveRecord DEF Clock
        <3>4. ~SleepUntil(t) /\ ~Nanosleep(t)
            BY <3>1, MoveSleepUntil, MoveNanosleep
        <3> QED  BY <1>2, <3>2, <3>3, <3>4 DEF TaskRuns
    <2>3. mpc = "join" => \A u \in Tasks : phase'[u] = "asleep" =>
                            phase[u] = "asleep" /\ wakeup'[u] = wakeup[u]
        BY <2>1, <2>2 DEF Same
    <2>4. mpc = "join" => \A u \in Tasks :
                tpc'[u] \in {"none", "setup", "while", "exited"} \/ phase'[u] = "asleep"
        BY <2>1, <2>2 DEF Same, StopInv
    <2> QED  BY <2>1, <2>3, <2>4 DEF StopInv
<1>3. CASE OthersRun \/ DemoEnded \/ UNCHANGED dvars
    <2>1. /\ program' = program /\ now' = now /\ \A u \in Tasks : SameOrStarted(u)
        BY <1>3, MoveMain
    <2>2. mpc' # "create" => tick' \in {"none", "while", "exited"}
        BY <1>3 DEF StopInv, OthersRun, OtherStep, CreateNext, StartAll, SpawnNext,
           SleepAfterStart, StopAll, JoinNext, DemoEnded, TaskCreate, SchedulerStart, Spawn, Started,
           SchedulerStop, JoinTask, JoinTick, TickExit
    <2>3. mpc' = "join" =>
            /\ until' = until /\ i' >= 1 /\ ~running'
            /\ mpc = "join" \/ (mpc = "run" /\ OthersRun)
        BY <1>0, <1>3 DEF StopInv, OthersRun, OtherStep, CreateNext, StartAll, SpawnNext,
           SleepAfterStart, StopAll, JoinNext, DemoEnded, TaskCreate, SchedulerStart, Spawn, Started,
           SchedulerStop, JoinTask, JoinTick, TickExit
    <2>4. CASE mpc = "join"
        BY <2>1, <2>2, <2>3, <2>4 DEF StopInv, SameOrStarted, Same
    <2>5. CASE mpc = "run" /\ OthersRun /\ mpc' = "join"
        <3>1. /\ \A t \in Tasks :
                    tpc'[t] \in {"none", "setup", "while", "exited"} \/ phase'[t] = "asleep"
              /\ program = "periodic" =>
                    /\ now' <= until' + 62
                    /\ \A t \in Tasks : phase'[t] = "asleep" => wakeup'[t] <= until' + 62
            BY <2>1, <2>3, <2>5, StopJoin
        <3> QED  BY <2>1, <2>2, <2>3, <3>1 DEF StopInv
    <2>6. CASE mpc' # "join"
        BY <2>2, <2>6 DEF StopInv
    <2> QED  BY <2>3, <2>4, <2>5, <2>6
<1> QED  BY <1>1, <1>2, <1>3 DEF DemoNext

-----------------------------------------------------------------------------
(* The theorems about the demos *)

LEMMA DemoInitInv == DemosAssumption /\ DemoInit => Base /\ DemoInv
<1> SUFFICES ASSUME DemosAssumption, DemoInit PROVE Base /\ DemoInv
    OBVIOUS
<1>1. IInv /\ root
    BY InitInv DEF DemoInit
<1>2. DemoTypeOK
    BY DEF DemoInit, DemoTypeOK
<1>3. /\ \A t \in Tasks : tpc[t] = "none" /\ end[t] = 0 /\ phase[t] = "until"
                          /\ deadline_misses[t] = 0
      /\ mpc = "create" /\ g_trace_lock = Nobody
    BY DEF DemoInit, Init
<1>4. Holder /\ ClockInv /\ StopInv
    BY <1>3 DEF Holder, ClockInv, Clock, Past, StopInv
<1>5. 40 \in Tasks /\ 60 \in Tasks /\ 80 \in Tasks
    BY DEF DemosAssumption
<1>6. TopInv /\ LowerInv(60) /\ LowerInv(40) /\ MainInv
    BY <1>3, <1>5 DEF TopInv, LowerInv, MainInv
<1> QED  BY <1>1, <1>2, <1>4, <1>6 DEF Base, DemoInv

\* The invariant of the demos, for any length of their runs, and of the task table
\* and the trace, and whether or not threads can be created.
THEOREM DemosInductive == DemosAssumption /\ DemoSpec => [](Base /\ DemoInv)
<1>1. Base /\ DemoInv /\ [DemoNext]_dvars => (Base /\ DemoInv)'
    <2> SUFFICES ASSUME Base, DemoInv, [DemoNext]_dvars PROVE (Base /\ DemoInv)'
        OBVIOUS
    <2>1. /\ ClockInv /\ TopInv /\ StopInv
          /\ program = "periodic" => LowerInv(60) /\ LowerInv(40) /\ MainInv
        BY DEF DemoInv
    <2>2. Base' /\ ClockInv' /\ TopInv' /\ StopInv'
        BY <2>1, BaseNext, ClockNext, TopNext, StopNext
    <2>3. program' = program
        BY <2>1, Advances, MoveTime
    <2>4. program = "periodic" => LowerInv(60)' /\ LowerInv(40)' /\ MainInv'
        BY <2>1, LowerNext, DemoMainNext
    <2> QED  BY <2>2, <2>3, <2>4 DEF Base, DemoInv
<1> QED  BY DemoInitInv, <1>1, PTL DEF DemoSpec

\* demo_periodic never misses a deadline, however long it runs: the response times
\* of the tasks stay within their periods, in spite of a trace lock without priority
\* inheritance and of the time lost between sleep_until's two calls.
THEOREM PeriodicMeetsDeadlines == DemosAssumption /\ DemoSpec => []NoMiss
<1>1. Base /\ DemoInv => NoMiss
    BY DEF Base, DemoInv, DemosAssumption, TopInv, LowerInv, NoMiss
<1> QED  BY DemosInductive, <1>1, PTL

\* In both programs the task of the highest priority meets its deadlines: the only
\* lower thread that burns time while it waits for the trace lock is that of
\* priority 60, and both together need no more than its period.
THEOREM TopMeetsDeadlines == DemosAssumption /\ DemoSpec => []TopNeverMisses
<1>1. Base /\ DemoInv => TopNeverMisses
    BY DEF DemoInv, TopInv, TopNeverMisses
<1> QED  BY DemosInductive, <1>1, PTL

\* main gets the processor back in time and scheduler_stop returns in time.
THEOREM StopIsInTime == DemosAssumption /\ DemoSpec => []StopsInTime
<1>1. Base /\ DemoInv => StopsInTime
    <2> SUFFICES ASSUME Base, DemoInv, program = "periodic"
                 PROVE  /\ mpc = "run" => now <= until + LongestBusy
                        /\ mpc = "join" => now <= until + LongestBusy + period(40)
        BY DEF StopsInTime
    <2>1. ClockInv /\ MainInv /\ StopInv
        BY DEF DemoInv
    <2>2. LongestBusy = 12 /\ period(40) = 50
        BY <2>1, NearNumbers DEF LongestBusy
    <2>3. now \in Nat /\ until \in Nat
        BY DEF Base, DemoTypeOK
    <2> QED  BY <2>1, <2>2, <2>3, MainBound DEF StopInv
<1> QED  BY DemosInductive, <1>1, PTL

=============================================================================
