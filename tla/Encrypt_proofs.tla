--------------------------- MODULE Encrypt_proofs ---------------------------
(***************************************************************************)
(* Proofs about Encrypt, for any number of workers (and chunks), any chunk *)
(* size and any ring with room for the chunks.  Every step of EncryptSpec  *)
(* is a step of the pool or leaves the pool alone, so IndInv of the pool   *)
(* holds throughout; EInv adds how the bytes, main's counter and the       *)
(* arguments follow the pool's tasks.                                      *)
(***************************************************************************)
EXTENDS Encrypt, ThreadPool_proofs

USE DEF vars, poolVars, threadVars, historyVars

-----------------------------------------------------------------------------
(* The inductive invariant *)

ETypeOK ==
    /\ mpc \in {"loop", "destroy", "success", "failed", "end"}
    /\ i \in 0 .. num_threads
    /\ map \in [0 .. FILE_SIZE - 1 -> {"A", "EB"}]
    /\ mapped \in BOOLEAN
    /\ args \in SUBSET Tasks
    /\ pos \in [Workers -> 0 .. chunk_size]

\* Where main is in its own code and inside the pool's.
MainInv ==
    /\ mpc = "loop" <=> cpc[Main] \in {"idle", "add", "put"}
    /\ mpc # "loop" => i = num_threads
    /\ mpc \in {"success", "failed", "end"} => cpc[Main] = "returned"
    /\ ~mapped => mpc = "end"

\* Every add succeeds, so chunks are accepted in the order of their numbers.
OrderInv ==
    /\ Len(accepted) = IF cpc[Main] \in {"add", "put"} THEN i - 1 ELSE i
    /\ cpc[Main] \in {"add", "put"} => arg[Main] = i - 1
    /\ \A k \in 1 .. Len(accepted) : accepted[k] = k - 1

PosInv == \A w \in Workers : pos[w] > 0 => wpc[w] = "exec"

\* The byte at offset o of chunk c is behind the worker that encrypts c.
Reached(c, o) ==
    c \in done \/ \E w \in Workers : wpc[w] = "exec" /\ task[w] = c /\ o < pos[w]

BytesInv ==
    \A c \in Tasks : \A o \in 0 .. chunk_size - 1 :
        map[Start(c) + o] = IF Reached(c, o) THEN "EB" ELSE "A"

ArgsInv == args = (0 .. i - 1) \ done

VerdictInv == mpc = "success" => map[FILE_SIZE - 1] = "EB"

FileInv ==
    /\ ETypeOK
    /\ MainInv
    /\ OrderInv
    /\ PosInv
    /\ BytesInv
    /\ ArgsInv
    /\ VerdictInv

EInv == IndInv /\ FiniteDone /\ FileInv

-----------------------------------------------------------------------------
(* Chunks and bytes. *)

LEMMA Constants ==
    /\ num_threads \in Nat /\ chunk_size \in Nat \ {0}
    /\ Tasks = 0 .. num_threads - 1
    /\ Main \in Clients /\ \A c \in Clients : c = Main
BY WorkersAssumption, FS_CardinalityType, ChunkAssumption, MainAssumption DEF num_threads

LEMMA ProductOrder ==
    ASSUME NEW a \in Nat, NEW b \in Nat, NEW n \in Nat, a < b
    PROVE  a * n + n <= b * n /\ a * n \in Nat /\ b * n \in Nat
<1>1. \A x, y \in Nat : x * y \in Nat
    OBVIOUS
<1>2. (b - a - 1) * n \in Nat
    BY <1>1
<1>3. (b - a - 1) * n = b * n - a * n - n
    OBVIOUS
<1>4. a * n \in Nat /\ b * n \in Nat
    BY <1>1
<1> QED  BY <1>2, <1>3, <1>4

\* Every chunk lies inside the mapping.
LEMMA ByteInFile ==
    ASSUME NEW c \in Tasks, NEW o \in 0 .. chunk_size - 1
    PROVE  Start(c) + o \in 0 .. FILE_SIZE - 1 /\ Start(c) \in Nat
<1>1. c \in Nat /\ num_threads \in Nat /\ chunk_size \in Nat /\ c < num_threads
    BY Constants
<1>2. /\ c * chunk_size + chunk_size <= num_threads * chunk_size
      /\ c * chunk_size \in Nat /\ num_threads * chunk_size \in Nat
    BY <1>1, ProductOrder
<1> QED  BY <1>1, <1>2 DEF Start, FILE_SIZE

\* A byte belongs to one chunk, at one offset.
LEMMA ByteUnique ==
    ASSUME NEW c \in Tasks, NEW o \in 0 .. chunk_size - 1,
           NEW d \in Tasks, NEW p \in 0 .. chunk_size - 1,
           Start(c) + o = Start(d) + p
    PROVE  c = d /\ o = p
<1>1. c \in Nat /\ d \in Nat /\ chunk_size \in Nat
    BY Constants
<1>2. Start(c) \in Nat /\ Start(d) \in Nat
    BY ByteInFile
<1>3. ~(c < d)
    <2>1. c < d => Start(c) + chunk_size <= Start(d)
        BY <1>1, ProductOrder DEF Start
    <2> QED  BY <1>1, <1>2, <2>1
<1>4. ~(d < c)
    <2>1. d < c => Start(d) + chunk_size <= Start(c)
        BY <1>1, ProductOrder DEF Start
    <2> QED  BY <1>1, <1>2, <2>1
<1>5. c = d
    BY <1>1, <1>3, <1>4
<1> QED  BY <1>1, <1>2, <1>5

\* Every byte of the file belongs to a chunk; the last byte to the last one.
LEMMA ByteOfChunk ==
    ASSUME NEW b \in 0 .. FILE_SIZE - 1
    PROVE  \E c \in Tasks, o \in 0 .. chunk_size - 1 : b = Start(c) + o
<1>1. num_threads \in Nat /\ chunk_size \in Nat \ {0} /\ b \in Nat
    BY Constants
<1>2. PICK q \in Int : q = b \div chunk_size
    BY <1>1
<1>3. PICK r \in 0 .. chunk_size - 1 : r = b % chunk_size
    BY <1>1
<1>4. b = q * chunk_size + r
    <2>1. b = chunk_size * (b \div chunk_size) + (b % chunk_size)
        BY <1>1
    <2> QED  BY <1>1, <1>2, <1>3, <2>1
<1>5. q \in Nat
    BY <1>1, <1>2
<1>6. q < num_threads
    <2>1. CASE num_threads < q \/ num_threads = q
        <3>1. num_threads * chunk_size <= q * chunk_size /\ num_threads * chunk_size \in Nat
              /\ q * chunk_size \in Nat
            BY <1>1, <1>5, <2>1, ProductOrder
        <3>2. b < num_threads * chunk_size
            BY <3>1 DEF FILE_SIZE
        <3> QED  BY <1>1, <1>3, <1>4, <3>1, <3>2
    <2> QED  BY <1>1, <1>5, <2>1
<1>7. q \in Tasks
    BY <1>1, <1>5, <1>6, Constants
<1> QED  BY <1>3, <1>4, <1>7 DEF Start

LEMMA LastByte ==
    ASSUME num_threads > 0
    PROVE  /\ num_threads - 1 \in Tasks /\ chunk_size - 1 \in 0 .. chunk_size - 1
           /\ FILE_SIZE - 1 = Start(num_threads - 1) + (chunk_size - 1)
<1>1. num_threads \in Nat /\ chunk_size \in Nat \ {0} /\ num_threads - 1 \in Nat
    BY Constants
<1>2. (num_threads - 1) * chunk_size = num_threads * chunk_size - chunk_size
    BY <1>1
<1>3. num_threads * chunk_size \in Int
    BY <1>1
<1> QED  BY <1>1, <1>2, <1>3, Constants DEF Start, FILE_SIZE

-----------------------------------------------------------------------------
(* The steps *)

\* The composition takes only steps of the pool.
LEMMA PoolStep == ETypeOK /\ [EncryptNext]_evars => [Next]_vars
<1> SUFFICES ASSUME ETypeOK, [EncryptNext]_evars PROVE [Next]_vars
    OBVIOUS
<1>1. ASSUME NEW w \in Workers, EncryptByte(w) PROVE [Next]_vars
    BY <1>1 DEF EncryptByte
<1>2. ASSUME NEW w \in Workers, EncryptReturn(w) PROVE [Next]_vars
    BY <1>2 DEF EncryptReturn, Next, WorkerStep
<1>3. ASSUME NEW w \in Workers, WorkerPart(w) PROVE [Next]_vars
    BY <1>3 DEF WorkerPart, Next, WorkerStep
<1>4. CASE ClientPart
    BY <1>4, Constants DEF ClientPart, Next
<1>5. CASE MainAdd
    <2>1. i \in Tasks
        BY <1>5, Constants DEF MainAdd, ETypeOK
    <2> QED  BY <1>5, <2>1, Constants DEF MainAdd, Next
<1>6. CASE MainDestroy
    BY <1>6, Constants DEF MainDestroy, Next
<1>7. CASE MainVerify \/ MainUnmap
    BY <1>7 DEF MainVerify, MainUnmap
<1>8. CASE Terminated
    BY <1>8 DEF Next
<1>9. CASE UNCHANGED evars
    BY <1>9 DEF evars
<1> QED  BY <1>1, <1>2, <1>3, <1>4, <1>5, <1>6, <1>7, <1>8, <1>9 DEF EncryptNext

LEMMA EncryptInitInv == EncryptInit => EInv
<1> SUFFICES ASSUME EncryptInit PROVE EInv
    OBVIOUS
<1>1. IndInv /\ FiniteDone
    BY IndInit DEF EncryptInit
<1>2. ETypeOK
    BY Constants DEF EncryptInit, ETypeOK
<1>3. MainInv /\ OrderInv /\ PosInv /\ VerdictInv
    BY Constants DEF EncryptInit, Init, MainInv, OrderInv, PosInv, VerdictInv
<1>4. BytesInv
    <2> SUFFICES ASSUME NEW c \in Tasks, NEW o \in 0 .. chunk_size - 1
                 PROVE  map[Start(c) + o] = IF Reached(c, o) THEN "EB" ELSE "A"
        BY DEF BytesInv
    <2>1. ~Reached(c, o)
        BY DEF EncryptInit, Init, Reached
    <2>2. map[Start(c) + o] = "A"
        BY ByteInFile DEF EncryptInit
    <2> QED  BY <2>1, <2>2
<1>5. ArgsInv
    BY DEF EncryptInit, Init, ArgsInv
<1> QED  BY <1>1, <1>2, <1>3, <1>4, <1>5 DEF EInv, FileInv

\* A worker encrypts the next byte of its chunk: it was not encrypted, and no
\* other byte changes.
LEMMA EncryptByteInv ==
    ASSUME EInv, NEW w \in Workers, EncryptByte(w)
    PROVE  FileInv'
<1>0. /\ TypeOK /\ LocalsAreTasks /\ TasksInv
      /\ ETypeOK /\ BytesInv
    BY DEF EInv, FileInv, IndInv
<1>1. PICK c \in Tasks : c = task[w]
    BY <1>0 DEF EncryptByte, LocalsAreTasks
<1>2. PICK o \in 0 .. chunk_size - 1 : o = pos[w]
    BY <1>0, Constants DEF EncryptByte, ETypeOK
<1>3. PICK x \in 0 .. FILE_SIZE - 1 : x = Start(c) + o
    BY ByteInFile
<1>4. /\ wpc[w] = "exec" /\ UNCHANGED <<vars, mpc, i, mapped, args>>
      /\ map' = [map EXCEPT ![x] = Xor(map[x])]
      /\ pos' = [pos EXCEPT ![w] = o + 1]
      /\ pos \in [Workers -> 0 .. chunk_size]
    BY <1>0, <1>1, <1>2, <1>3 DEF EncryptByte, ETypeOK
<1>5. ~Reached(c, o)
    BY <1>0, <1>1, <1>2, <1>4 DEF Reached, TasksInv
<1>6. map[x] = "A"
    BY <1>0, <1>3, <1>5 DEF BytesInv
<1>7. map' = [map EXCEPT ![x] = "EB"]
    BY <1>4, <1>6 DEF Xor
<1>8. ETypeOK'
    <2>1. o + 1 \in 0 .. chunk_size
        BY Constants
    <2> QED  BY <1>0, <1>4, <1>7, <2>1 DEF ETypeOK
<1>9. BytesInv'
    <2> SUFFICES ASSUME NEW d \in Tasks, NEW p \in 0 .. chunk_size - 1
                 PROVE  map'[Start(d) + p] = IF Reached(d, p)' THEN "EB" ELSE "A"
        BY DEF BytesInv
    <2>1. Start(d) + p \in 0 .. FILE_SIZE - 1
        BY ByteInFile
    <2>2. CASE Start(d) + p = x
        <3>1. d = c /\ p = o
            BY <1>3, <2>2, ByteUnique
        <3>2. Reached(d, p)'
            <4>1. pos'[w] = o + 1 /\ o < o + 1
                BY <1>4, Constants
            <4> QED  BY <1>1, <1>4, <3>1, <4>1 DEF Reached
        <3> QED  BY <1>0, <1>7, <2>1, <2>2, <3>2 DEF ETypeOK
    <2>3. CASE Start(d) + p # x
        <3>1. map'[Start(d) + p] = map[Start(d) + p]
            BY <1>0, <1>7, <2>1, <2>3 DEF ETypeOK
        <3>2. d # c \/ p # o
            BY <1>3, <2>3
        <3>3. Reached(d, p)' <=> Reached(d, p)
            <4>1. \A v \in Workers : v # w => pos'[v] = pos[v]
                BY <1>4
            <4>2. d = c => (p < pos'[w] <=> p < pos[w])
                BY <1>2, <1>4, <3>2, Constants
            <4> QED  BY <1>1, <1>4, <4>1, <4>2 DEF Reached
        <3> QED  BY <1>0, <3>1, <3>3 DEF BytesInv
    <2> QED  BY <2>2, <2>3
<1>10. MainInv' /\ OrderInv' /\ ArgsInv'
    BY <1>4 DEF EInv, FileInv, MainInv, OrderInv, ArgsInv
<1>11. PosInv'
    BY <1>4 DEF EInv, FileInv, PosInv
<1>12. VerdictInv'
    <2>1. VerdictInv /\ MainInv
        BY DEF EInv, FileInv
    <2>2. CASE FILE_SIZE - 1 = x
        BY <1>0, <1>7, <2>2 DEF VerdictInv, ETypeOK
    <2>3. CASE FILE_SIZE - 1 # x
        BY <1>0, <1>4, <1>7, <2>1, <2>3 DEF VerdictInv, ETypeOK
    <2> QED  BY <2>2, <2>3
<1> QED  BY <1>8, <1>9, <1>10, <1>11, <1>12 DEF FileInv

\* A step that runs no task and moves no byte reaches no other byte.
LEMMA BytesKept ==
    ASSUME ETypeOK, PosInv, BytesInv, UNCHANGED <<map, done, pos>>,
           \A v \in Workers :
               wpc[v] = "exec" => wpc'[v] = "exec" /\ task'[v] = task[v]
    PROVE  BytesInv'
<1> SUFFICES ASSUME NEW c \in Tasks, NEW o \in 0 .. chunk_size - 1
             PROVE  Reached(c, o)' <=> Reached(c, o)
    BY DEF BytesInv
<1>1. \A v \in Workers : o < pos[v] => wpc[v] = "exec"
    BY Constants DEF ETypeOK, PosInv
<1> QED  BY <1>1 DEF Reached

\* The task returns: its chunk is done as far as the worker had come, the end.
LEMMA EncryptReturnInv ==
    ASSUME EInv, NEW w \in Workers, EncryptReturn(w)
    PROVE  FileInv'
<1>0. /\ TypeOK /\ LocalsAreTasks /\ TasksInv
      /\ ETypeOK /\ BytesInv
    BY DEF EInv, FileInv, IndInv
<1>1. /\ wpc[w] = "exec" /\ pos[w] = chunk_size /\ task[w] \in Tasks
      /\ done' = done \cup {task[w]} /\ args' = args \ {task[w]}
      /\ \A v \in Workers : wpc'[v] = IF v = w THEN "completed" ELSE wpc[v]
      /\ \A v \in Workers : pos'[v] = IF v = w THEN 0 ELSE pos[v]
      /\ UNCHANGED <<map, mpc, i, mapped, task, cpc, arg, accepted, taken>>
    BY <1>0 DEF TypeOK, ETypeOK, LocalsAreTasks, EncryptReturn, WorkerExec
<1>2. ETypeOK'
    <2>1. pos' \in [Workers -> 0 .. chunk_size]
        BY <1>0, Constants DEF ETypeOK, EncryptReturn
    <2> QED  BY <1>0, <1>1, <2>1 DEF ETypeOK
<1>3. BytesInv'
    <2> SUFFICES ASSUME NEW c \in Tasks, NEW o \in 0 .. chunk_size - 1
                 PROVE  Reached(c, o)' <=> Reached(c, o)
        BY <1>0, <1>1 DEF BytesInv
    <2>1. c = task[w] => Reached(c, o)' /\ Reached(c, o)
        <3>1. o < pos[w]
            BY <1>1, Constants
        <3> QED  BY <1>1, <3>1 DEF Reached
    <2>2. c # task[w] => (Reached(c, o)' <=> Reached(c, o))
        BY <1>1 DEF Reached
    <2> QED  BY <2>1, <2>2
<1>4. MainInv' /\ OrderInv' /\ VerdictInv'
    BY <1>1 DEF EInv, FileInv, MainInv, OrderInv, VerdictInv
<1>5. PosInv'
    BY <1>1 DEF EInv, FileInv, PosInv
<1>6. ArgsInv'
    BY <1>1 DEF EInv, FileInv, ArgsInv
<1> QED  BY <1>2, <1>3, <1>4, <1>5, <1>6 DEF FileInv

\* The pool's own statements of a worker.
LEMMA WorkerPartInv ==
    ASSUME EInv, NEW w \in Workers, WorkerPart(w)
    PROVE  FileInv'
<1>0. TypeOK /\ ETypeOK /\ PosInv /\ BytesInv
    BY DEF EInv, FileInv, IndInv
<1>1. /\ UNCHANGED <<mpc, i, map, mapped, args, pos, cpc, arg, accepted, done>>
      /\ \A v \in Workers : wpc[v] = "exec" => wpc'[v] = "exec" /\ task'[v] = task[v]
    BY <1>0 DEF TypeOK, WorkerPart, WorkerPoolStep, WorkerStatement, WorkerLock,
        WorkerWait, SpuriousWakeup, WorkerWake, WorkerExit, WorkerTake, WorkerCompleted
<1>2. BytesInv'
    BY <1>0, <1>1, BytesKept
<1>3. ETypeOK' /\ MainInv' /\ OrderInv' /\ PosInv' /\ ArgsInv' /\ VerdictInv'
    BY <1>1 DEF EInv, FileInv, ETypeOK, MainInv, OrderInv, PosInv, ArgsInv, VerdictInv
<1> QED  BY <1>2, <1>3 DEF FileInv

\* Main inside the pool: the ring has room for every chunk, so no add is refused.
LEMMA ClientPartInv ==
    ASSUME EInv, ClientPart
    PROVE  FileInv'
<1>0. /\ TypeOK /\ RingInv
      /\ ETypeOK /\ MainInv /\ OrderInv /\ PosInv /\ BytesInv
    BY DEF EInv, FileInv, IndInv
<1>1. UNCHANGED <<mpc, i, map, mapped, args, pos, wpc, task, arg, done, taken>>
    BY DEF ClientPart, ClientStep, AddLock, AddFull, AddPut, DestroyLock,
        DestroyBroadcast, DestroyFree
<1>2. BytesInv'
    BY <1>0, <1>1, BytesKept
<1>3. ETypeOK' /\ PosInv' /\ ArgsInv' /\ VerdictInv'
    BY <1>1 DEF EInv, FileInv, ETypeOK, PosInv, ArgsInv, VerdictInv
<1>4. MainInv' /\ OrderInv'
    <2>1. CASE AddLock(Main)
        <3>1. cpc[Main] = "add" /\ cpc'[Main] = "put" /\ accepted' = accepted
            BY <1>0, <2>1, Constants DEF TypeOK, AddLock
        <3> QED  BY <1>0, <1>1, <3>1 DEF MainInv, OrderInv
    <2>2. CASE AddFull(Main)
        <3>1. /\ count = QueueSize /\ Len(accepted) = i - 1 /\ i \in 0 .. num_threads
              /\ Len(accepted) = Len(taken) + count /\ Len(taken) \in Nat
            BY <1>0, <2>2 DEF AddFull, QueueFull, OrderInv, RingInv, TypeOK, ETypeOK
        <3> QED  BY <3>1, RoomAssumption, QueueSizeAssumption, Constants
    <2>3. CASE AddPut(Main)
        <3>1. /\ cpc[Main] = "put" /\ cpc'[Main] = "idle"
              /\ accepted' = Append(accepted, arg[Main]) /\ accepted \in Seq(Tasks)
            BY <1>0, <2>3, Constants DEF TypeOK, AddPut
        <3>2. /\ Len(accepted) = i - 1 /\ arg[Main] = i - 1 /\ i \in Int
              /\ \A k \in 1 .. Len(accepted) : accepted[k] = k - 1
            BY <1>0, <3>1 DEF OrderInv, ETypeOK
        <3>3. Len(accepted') = i /\ \A k \in 1 .. Len(accepted') : accepted'[k] = k - 1
            BY <3>1, <3>2
        <3>4. MainInv'
            BY <1>0, <1>1, <3>1 DEF MainInv
        <3> QED  BY <1>1, <3>1, <3>3, <3>4 DEF OrderInv
    <2>4. CASE DestroyLock(Main) \/ DestroyBroadcast(Main) \/ DestroyFree(Main)
        <3>1. /\ cpc[Main] \in {"destroy", "broadcast", "join"} /\ accepted' = accepted
              /\ cpc'[Main] \in {"broadcast", "join", "returned"}
            BY <1>0, <2>4, Constants DEF TypeOK, DestroyLock, DestroyBroadcast, DestroyFree
        <3> QED  BY <1>0, <1>1, <3>1 DEF MainInv, OrderInv
    <2> QED  BY <2>1, <2>2, <2>3, <2>4 DEF ClientPart, ClientStep
<1> QED  BY <1>2, <1>3, <1>4 DEF FileInv

\* Chunks are taken in order, and only taken chunks are done.
LEMMA TakenOrder ==
    ASSUME EInv
    PROVE  /\ Len(taken) \in Nat /\ Len(accepted) \in Nat /\ Len(taken) <= Len(accepted)
           /\ \A k \in 1 .. Len(taken) : taken[k] = k - 1
           /\ \A c \in done : c \in 0 .. Len(taken) - 1
<1>1. TypeOK /\ RingInv /\ TasksInv /\ OrderInv
    BY DEF EInv, FileInv, IndInv
<1>2. /\ Len(taken) \in Nat /\ Len(accepted) \in Nat
      /\ count \in Nat /\ Len(accepted) = Len(taken) + count
    BY <1>1, QueueSizeAssumption DEF TypeOK, RingInv
<1>3. \A k \in 1 .. Len(taken) : taken[k] = k - 1
    BY <1>1, <1>2 DEF RingInv, OrderInv
<1>4. \A c \in done : c \in 0 .. Len(taken) - 1
    BY <1>1, <1>2, <1>3 DEF TasksInv, Occurs
<1> QED  BY <1>2, <1>3, <1>4

LEMMA MainInvNext ==
    ASSUME EInv, MainAdd \/ MainDestroy \/ MainVerify \/ MainUnmap
    PROVE  FileInv'
<1>0. /\ TypeOK
      /\ ETypeOK /\ MainInv /\ OrderInv /\ PosInv /\ BytesInv /\ ArgsInv /\ VerdictInv
    BY DEF EInv, FileInv, IndInv
<1>1. UNCHANGED <<map, pos, wpc, task, done, taken, accepted>>
    BY DEF MainAdd, MainDestroy, MainVerify, MainUnmap, CallAdd, CallDestroy
<1>2. BytesInv' /\ PosInv'
    BY <1>0, <1>1, BytesKept DEF PosInv
<1>3. CASE MainAdd
    <2>1. /\ cpc[Main] = "idle" /\ cpc'[Main] = "add" /\ arg'[Main] = i
          /\ i' = i + 1 /\ i < num_threads /\ args' = args \cup {i}
          /\ mpc' = mpc /\ mpc = "loop" /\ mapped' = mapped
        BY <1>0, <1>3, Constants DEF TypeOK, MainAdd, CallAdd
    <2>2. i \in Tasks /\ i \in Nat /\ num_threads \in Nat
        BY <1>0, <2>1, Constants DEF ETypeOK
    <2>3. Len(accepted) = i
        BY <1>0, <2>1 DEF OrderInv
    <2>4. i \notin done
        BY <2>2, <2>3, TakenOrder
    <2>5. ETypeOK'
        <3>1. args' \in SUBSET Tasks
            BY <1>0, <2>1, <2>2 DEF ETypeOK
        <3>2. i' \in 0 .. num_threads
            BY <2>1, <2>2
        <3>3. mpc' = "loop" /\ mapped' \in BOOLEAN
            BY <1>0, <2>1 DEF ETypeOK
        <3>4. map' \in [0 .. FILE_SIZE - 1 -> {"A", "EB"}] /\ pos' \in [Workers -> 0 .. chunk_size]
            BY <1>0, <1>1 DEF ETypeOK
        <3> QED  BY <3>1, <3>2, <3>3, <3>4 DEF ETypeOK
    <2>6. MainInv' /\ VerdictInv'
        BY <1>0, <2>1 DEF MainInv, VerdictInv
    <2>7. OrderInv'
        BY <1>0, <1>1, <2>1, <2>2, <2>3 DEF OrderInv
    <2>8. ArgsInv'
        <3>1. 0 .. i' - 1 = (0 .. i - 1) \cup {i}
            BY <2>1, <2>2
        <3> QED  BY <1>0, <1>1, <2>1, <2>4, <3>1 DEF ArgsInv
    <2> QED  BY <1>2, <2>5, <2>6, <2>7, <2>8 DEF FileInv
<1>4. CASE MainDestroy
    <2>1. /\ cpc[Main] = "idle" /\ cpc'[Main] = "destroy" /\ arg' = arg
          /\ mpc = "loop" /\ mpc' = "destroy" /\ i = num_threads
          /\ UNCHANGED <<i, mapped, args>>
        BY <1>0, <1>4, Constants DEF TypeOK, MainDestroy, CallDestroy
    <2>2. ETypeOK' /\ MainInv' /\ OrderInv' /\ ArgsInv' /\ VerdictInv'
        BY <1>0, <1>1, <2>1 DEF ETypeOK, MainInv, OrderInv, ArgsInv, VerdictInv
    <2> QED  BY <1>2, <2>2 DEF FileInv
<1>5. CASE MainVerify
    <2>1. /\ cpc[Main] = "returned" /\ mpc = "destroy" /\ mpc' \in {"success", "failed"}
          /\ mpc' = "success" => map[FILE_SIZE - 1] = "EB"
          /\ UNCHANGED <<cpc, arg, i, mapped, args>>
        BY <1>5 DEF MainVerify, FirstAndLast
    <2>2. ETypeOK' /\ MainInv' /\ OrderInv' /\ ArgsInv' /\ VerdictInv'
        BY <1>0, <1>1, <2>1 DEF ETypeOK, MainInv, OrderInv, ArgsInv, VerdictInv
    <2> QED  BY <1>2, <2>2 DEF FileInv
<1>6. CASE MainUnmap
    <2>1. /\ mpc \in {"success", "failed"} /\ mpc' = "end" /\ mapped' = FALSE
          /\ UNCHANGED <<cpc, arg, i, args>>
        BY <1>6 DEF MainUnmap
    <2>2. ETypeOK' /\ MainInv' /\ OrderInv' /\ ArgsInv' /\ VerdictInv'
        BY <1>0, <1>1, <2>1 DEF ETypeOK, MainInv, OrderInv, ArgsInv, VerdictInv
    <2> QED  BY <1>2, <2>2 DEF FileInv
<1> QED  BY <1>3, <1>4, <1>5, <1>6

LEMMA EncryptNextInv == EInv /\ [EncryptNext]_evars => EInv'
<1> SUFFICES ASSUME EInv, [EncryptNext]_evars PROVE EInv'
    OBVIOUS
<1>1. IndInv' /\ FiniteDone'
    BY PoolStep, IndNext DEF EInv, FileInv
<1>2. FileInv'
    <2>1. CASE UNCHANGED evars
        BY <2>1 DEF EInv, FileInv, evars, ETypeOK, MainInv, OrderInv, PosInv, BytesInv,
            Reached, ArgsInv, VerdictInv
    <2>2. CASE Terminated /\ mpc = "end" /\ UNCHANGED <<mpc, i, map, mapped, args, pos>>
        BY <2>1, <2>2 DEF Terminated, evars
    <2> QED  BY <2>1, <2>2, EncryptByteInv, EncryptReturnInv, WorkerPartInv,
                ClientPartInv, MainInvNext DEF EncryptNext
<1> QED  BY <1>1, <1>2 DEF EInv

-----------------------------------------------------------------------------
(* The theorems *)

\* The bytes, main's counter and the arguments follow the pool's tasks in every
\* reachable state, and the pool is that of ThreadPool throughout.
THEOREM EncryptInductive == EncryptSpec => []EInv
BY EncryptInitInv, EncryptNextInv, PTL DEF EncryptSpec

\* What chapter 9 does with its pool is what TaskPool allows: the program can
\* be understood without looking into the ring.
THEOREM EncryptUsesTaskPool == EncryptSpec => ImplementsTaskPool
<1>1. EncryptInit => Init
    BY DEF EncryptInit
<1>2. EInv /\ [EncryptNext]_evars => [Next]_vars
    BY PoolStep DEF EInv, FileInv
<1>3. EncryptSpec => Spec
    BY <1>1, <1>2, EncryptInductive, PTL DEF EncryptSpec, Spec
<1> QED  BY <1>3, Implements

\* A chunk whose task returned is encrypted and one that nobody took is plain,
\* whatever the interleaving of the workers: no byte is encrypted twice.
THEOREM ChunksEncryptedOnce == EncryptSpec => []EncryptedOnce
<1>1. EInv => EncryptedOnce
    <2> SUFFICES ASSUME EInv, NEW c \in Tasks, NEW b \in Chunk(c)
                 PROVE  /\ c \in done => map[b] = "EB"
                        /\ (\A k \in 1 .. Len(taken) : taken[k] # c) => map[b] = "A"
        BY DEF EncryptedOnce
    <2>1. PICK o \in 0 .. chunk_size - 1 : b = Start(c) + o
        <3>1. c \in Nat /\ chunk_size \in Nat
            BY Constants
        <3>2. (c + 1) * chunk_size = c * chunk_size + chunk_size /\ c * chunk_size \in Int
            BY <3>1
        <3>3. b \in Int /\ b - c * chunk_size \in 0 .. chunk_size - 1
            BY <3>1, <3>2 DEF Chunk
        <3>4. b = Start(c) + (b - c * chunk_size)
            BY <3>1, <3>2, <3>3 DEF Start
        <3> QED  BY <3>3, <3>4
    <2>2. map[b] = IF Reached(c, o) THEN "EB" ELSE "A"
        BY <2>1 DEF EInv, FileInv, BytesInv
    <2>3. c \in done => Reached(c, o)
        BY DEF Reached
    <2>4. Reached(c, o) => Occurs(c, taken)
        BY DEF Reached, EInv, IndInv, TasksInv
    <2> QED  BY <2>2, <2>3, <2>4 DEF Occurs
<1> QED  BY EncryptInductive, <1>1, PTL

\* If main prints SUCCESS, having looked at two bytes, every byte is encrypted,
\* although the destroy may have dropped chunks: the last chunk is taken last.
THEOREM SuccessMeansEncrypted == EncryptSpec => []SuccessIsSound
<1>1. EInv => SuccessIsSound
    <2> SUFFICES ASSUME EInv, mpc = "success", NEW b \in 0 .. FILE_SIZE - 1
                 PROVE  map[b] = "EB"
        BY DEF SuccessIsSound
    <2>0. /\ MainInv /\ OrderInv /\ BytesInv /\ VerdictInv /\ TasksInv /\ TakenInv /\ DestroyInv
        BY DEF EInv, FileInv, IndInv
    <2>1. PICK c \in Tasks, o \in 0 .. chunk_size - 1 : b = Start(c) + o
        BY ByteOfChunk
    <2>2. /\ c \in 0 .. num_threads - 1 /\ num_threads \in Nat /\ num_threads > 0
        BY Constants
    <2>3. cpc[Main] = "returned" /\ \A w \in Workers : wpc[w] = "exited"
        BY <2>0, Constants DEF MainInv, DestroyInv
    <2>4. map[Start(num_threads - 1) + (chunk_size - 1)] = "EB"
        BY <2>0, <2>2, LastByte DEF VerdictInv
    <2>5. Reached(num_threads - 1, chunk_size - 1)
        BY <2>0, <2>2, <2>4, LastByte DEF BytesInv
    <2>6. num_threads - 1 \in done
        BY <2>3, <2>5 DEF Reached
    <2>7. num_threads <= Len(taken) /\ Len(taken) \in Nat
        BY <2>2, <2>6, TakenOrder
    <2>8. c + 1 \in 1 .. Len(taken) /\ taken[c + 1] = c
        BY <2>2, <2>7, TakenOrder
    <2>9. c \in done
        BY <2>0, <2>3, <2>8 DEF TakenInv
    <2>10. Reached(c, o)
        BY <2>9 DEF Reached
    <2> QED  BY <2>0, <2>1, <2>10 DEF BytesInv
<1> QED  BY EncryptInductive, <1>1, PTL

\* The file is unmapped when no worker runs any more, and the argument blocks
\* that leak are exactly those of the chunks left in the ring.
THEOREM UnmapIsClean == EncryptSpec => []CleanUnmap
<1>1. EInv => CleanUnmap
    <2> SUFFICES ASSUME EInv, ~mapped
                 PROVE  /\ \A w \in Workers : wpc[w] = "exited"
                        /\ args = {Pending[k] : k \in 1 .. count}
        BY DEF CleanUnmap
    <2>0. /\ TypeOK /\ MainInv /\ OrderInv /\ ArgsInv /\ RingInv /\ TasksInv /\ TakenInv
          /\ DestroyInv
        BY DEF EInv, FileInv, IndInv
    <2>1. cpc[Main] = "returned" /\ i = num_threads
        BY <2>0 DEF MainInv
    <2>2. \A w \in Workers : wpc[w] = "exited"
        BY <2>0, <2>1, Constants DEF DestroyInv
    <2>3. /\ Len(accepted) = i /\ Len(taken) \in Nat /\ count \in Nat
          /\ i = Len(taken) + count
        <3>1. Len(taken) \in Nat /\ count \in Nat
            BY <2>0, TakenOrder, QueueSizeAssumption DEF TypeOK
        <3>2. Len(accepted) = i
            BY <2>0, <2>1 DEF OrderInv
        <3>3. Len(accepted) = Len(taken) + count
            BY <2>0 DEF RingInv
        <3> QED  BY <3>1, <3>2, <3>3
    <2>4. done = 0 .. Len(taken) - 1
        <3>1. ASSUME NEW c \in 0 .. Len(taken) - 1 PROVE c \in done
            <4>1. c + 1 \in 1 .. Len(taken) /\ taken[c + 1] = c
                BY <2>3, TakenOrder
            <4> QED  BY <2>0, <2>2, <4>1 DEF TakenInv
        <3> QED  BY <3>1, TakenOrder
    <2>5. args = Len(taken) .. i - 1
        BY <2>0, <2>3, <2>4 DEF ArgsInv
    <2>6. \A k \in 1 .. count : Pending[k] = Len(taken) + k - 1
        <3> SUFFICES ASSUME NEW k \in 1 .. count PROVE Pending[k] = Len(taken) + k - 1
            OBVIOUS
        <3>1. Pending[k] = accepted[Len(taken) + k]
            BY <2>0 DEF Pending, RingInv, Slot
        <3>2. Len(taken) + k \in 1 .. Len(accepted)
            BY <2>3
        <3> QED  BY <2>0, <3>1, <3>2 DEF OrderInv
    <2>7. args = {Pending[k] : k \in 1 .. count}
        <3>1. ASSUME NEW c \in args PROVE \E k \in 1 .. count : Pending[k] = c
            <4>1. c - Len(taken) + 1 \in 1 .. count /\ c \in Int
                BY <2>3, <2>5
            <4>2. Pending[c - Len(taken) + 1] = c
                BY <2>3, <2>6, <4>1
            <4> QED  BY <4>1, <4>2
        <3>2. ASSUME NEW k \in 1 .. count PROVE Pending[k] \in args
            BY <2>3, <2>5, <2>6
        <3> QED  BY <3>1, <3>2
    <2> QED  BY <2>2, <2>7
<1> QED  BY EncryptInductive, <1>1, PTL

=============================================================================
