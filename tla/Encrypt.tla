------------------------------- MODULE Encrypt -------------------------------
(***************************************************************************)
(* Chapter 9 (src/Chapter 9/src/main.c): main maps a file, gives each of   *)
(* num_threads chunks of it to the pool, destroys the pool, looks at the   *)
(* first and the last byte, and unmaps the file.                           *)
(*                                                                         *)
(* The sleep(15) between the last add and the destroy promises nothing     *)
(* about the workers, so the destroy may come at any time after the last   *)
(* add.  A chunk's id is its task, the byte it has reached is the worker's *)
(* loop index.  The pool is that of ThreadPool; chapter 9's has no atomic  *)
(* counter, which nothing here reads.                                      *)
(***************************************************************************)
EXTENDS ThreadPool

CONSTANTS Main,        \* the main thread, the only client
          chunk_size   \* bytes per chunk

num_threads == Cardinality(Workers)
FILE_SIZE == num_threads * chunk_size

ASSUME MainAssumption == Clients = {Main}
\* main.c:90-91: 10 slots for 4 chunks, so no add can find the ring full.
ASSUME RoomAssumption == QueueSize >= num_threads
ASSUME ChunkAssumption == Tasks = 0 .. num_threads - 1 /\ chunk_size \in Nat \ {0}

VARIABLES
    mpc,    \* "loop", "destroy", "verify", "success", "failed", "end"
    i,      \* main's loop counter: the chunk to add next
    map,    \* the mapped bytes, each 'A' (0x41) or its encryption (0xEB)
    mapped, \* the mapping exists
    args,   \* the chunks whose crypto_args_t is allocated
    pos     \* the loop index of each worker's encrypt_task
evars == <<vars, mpc, i, map, mapped, args, pos>>

EncryptInit ==
    /\ Init
    /\ mpc = "loop" /\ i = 0
    /\ map = [b \in 0 .. FILE_SIZE - 1 |-> "A"]
    /\ mapped = TRUE
    /\ args = {}
    /\ pos = [w \in Workers |-> 0]

\* b ^= 0xAA
Xor(b) == IF b = "A" THEN "EB" ELSE "A"

OverlappingStart(chunk) == IF chunk = 0 THEN 0 ELSE chunk * chunk_size - 1
Start(chunk) == chunk * chunk_size

\* One iteration of the for loop of encrypt_task.
EncryptByte(w) ==
    /\ wpc[w] = "exec"
    /\ pos[w] < chunk_size
    /\ map' = [map EXCEPT ![Start(task[w]) + pos[w]] = Xor(@)]
    /\ pos' = [pos EXCEPT ![w] = @ + 1]
    /\ UNCHANGED <<vars, mpc, i, mapped, args>>

\* The loop is over: free(args), return.
EncryptReturnLeaking(w) ==
    /\ pos[w] = chunk_size
    /\ WorkerExec(w)
    /\ pos' = [pos EXCEPT ![w] = 0]
    /\ UNCHANGED <<mpc, i, map, mapped, args>>
EncryptReturn(w) ==
    /\ pos[w] = chunk_size
    /\ WorkerExec(w)
    /\ args' = args \ {task[w]}
    /\ pos' = [pos EXCEPT ![w] = 0]
    /\ UNCHANGED <<mpc, i, map, mapped>>

\* malloc the arguments of chunk i and add it; the result is not looked at.
MainAdd ==
    /\ mpc = "loop"
    /\ i < num_threads
    /\ CallAdd(Main, i)
    /\ args' = args \cup {i}
    /\ i' = i + 1
    /\ UNCHANGED <<mpc, map, mapped, pos>>

MainDestroy ==
    /\ mpc = "loop"
    /\ i = num_threads
    /\ CallDestroy(Main)
    /\ mpc' = "destroy"
    /\ UNCHANGED <<i, map, mapped, args, pos>>

\* thread_pool_destroy returned: compare two bytes, print the verdict.
FirstOnly == map[0] = "EB"
FirstAndLast == map[0] = "EB" /\ map[FILE_SIZE - 1] = "EB"
MainVerify ==
    /\ mpc = "destroy"
    /\ cpc[Main] = "returned"
    /\ mpc' = IF FirstAndLast THEN "success" ELSE "failed"
    /\ UNCHANGED <<vars, i, map, mapped, args, pos>>

\* munmap, close, unlink.
MainUnmap ==
    /\ mpc \in {"success", "failed"}
    /\ mapped' = FALSE
    /\ mpc' = "end"
    /\ UNCHANGED <<vars, i, map, args, pos>>

\* The pool between two steps of the tasks and of main.
WorkerPart(w) == WorkerPoolStep(w) /\ UNCHANGED <<mpc, i, map, mapped, args, pos>>
ClientPart == ClientStep(Main) /\ UNCHANGED <<mpc, i, map, mapped, args, pos>>

EncryptNext ==
    \/ \E w \in Workers : EncryptByte(w) \/ EncryptReturn(w) \/ WorkerPart(w)
    \/ ClientPart \/ MainAdd \/ MainDestroy \/ MainVerify \/ MainUnmap
    \/ Terminated /\ mpc = "end" /\ UNCHANGED <<mpc, i, map, mapped, args, pos>>

EncryptSpec == EncryptInit /\ [][EncryptNext]_evars

-----------------------------------------------------------------------------
Chunk(c) == c * chunk_size .. (c + 1) * chunk_size - 1

\* A chunk whose task returned is encrypted, each byte exactly once (a second
\* XOR would restore it); an untouched chunk is still plain text.
EncryptedOnce ==
    \A c \in Tasks : \A b \in Chunk(c) :
        /\ c \in done => map[b] = "EB"
        /\ (\A k \in 1 .. Len(taken) : taken[k] # c) => map[b] = "A"

\* Looking at the first and the last byte is enough: if main prints SUCCESS the
\* whole file is encrypted.  Chunks start in order and the join waits for those
\* that started, so the last chunk vouches for the others.
SuccessIsSound ==
    mpc = "success" => \A b \in 0 .. FILE_SIZE - 1 : map[b] = "EB"

\* No worker can still touch the mapping or its arguments when main unmaps it,
\* and the argument blocks that leak are those of the chunks the destroy
\* dropped from the ring.
CleanUnmap ==
    ~mapped => /\ \A w \in Workers : wpc[w] = "exited"
               /\ args = {Pending[k] : k \in 1 .. count}
=============================================================================
