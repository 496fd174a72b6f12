----------------------------- MODULE TempMemory -----------------------------
(***************************************************************************)
(* Temporary memory.  An operation allocates what it needs through the     *)
(* functions of its environment, launches kernels that use it, and gives   *)
(* it back when it returns, which is before the kernels have run.  The     *)
(* default functions call CUDA, whose free waits for the device.  The      *)
(* cached ones keep freed blocks in queues by size class, one pool for     *)
(* each device, one for pinned and one for host memory, and hand them out  *)
(* again at once.                                                          *)
(*                                                                         *)
(* Each thread works on a device of its own, with one stream.              *)
(***************************************************************************)
EXTENDS Integers, Sequences, FiniteSets, FiniteSetsExt, SequencesExt, Functions

CONSTANTS
  Thread,
  Operations, \* records of temps, a sequence of kind and size, and output, the size
              \* of the result, allocated in a memory context of the caller
  MaxCalls,   \* bound on the operations of all threads
  MaxBucket   \* bound on the size classes (the code has 64)

InClass(size) == \E i \in 0 .. MaxBucket : size <= 2 ^ i

\* Every size falls into a class: with 64 of them, any size_t does.
ASSUME MaxBucketAssumption == MaxBucket \in Nat
ASSUME OperationsAssumption ==
  \A o \in Operations :
    /\ o.temps \in Seq([kind : {"device", "pinned", "host"}, size : Nat])
    /\ \A n \in DOMAIN o.temps : InClass(o.temps[n].size)
    /\ o.output \in Nat /\ InClass(o.output)

VARIABLES
  env,       \* default or cached
  calls,     \* how many calls a thread has begun
  operation, \* operation[t]: the call thread t is in
  doing,     \* doing[t]: ready, allocate, launched or freeing
  held,      \* held[t]: the memory contexts of the call, in the order of creation
  output,    \* output[t]: the contexts of the results the caller keeps
  pool,      \* pool[p][i]: the queue of size class i
  capacity,  \* capacity[p]: the bytes of each block CUDA has given for pool p, in order
  freed,     \* the blocks given back to CUDA, pairs of pool and number
  dropping,  \* the pools still to be emptied
  stream,    \* stream[t]: the kernels launched and not yet run
  memory     \* memory[p]: which call wrote each of these blocks last

tempVars ==
  <<env, calls, operation, doing, held, output, pool, capacity, freed, dropping, stream, memory>>

-----------------------------------------------------------------------------
Pools == {<<"device", t>> : t \in Thread} \cup {<<"pinned">>, <<"host">>}

\* Mutant of PoolOf: one pool for all devices.
PoolOfKind(t, kind) == IF kind = "device" THEN <<"device", CHOOSE s \in Thread : TRUE>> ELSE <<kind>>

PoolOf(t, kind) == IF kind = "device" THEN <<"device", t>> ELSE <<kind>>

\* GetSizeBucketIndex
BucketIndex(size) == Min({i \in 0 .. MaxBucket : size <= 2 ^ i})

NoCall == [temps |-> <<>>, output |-> 0]

TempInit ==
  /\ env \in {"default", "cached"}
  /\ calls = [t \in Thread |-> 0]
  /\ operation = [t \in Thread |-> NoCall]
  /\ doing = [t \in Thread |-> "ready"]
  /\ held = [t \in Thread |-> <<>>] /\ output = held /\ stream = held
  /\ pool = [p \in Pools |-> [i \in 0 .. MaxBucket |-> <<>>]]
  /\ capacity = [p \in Pools |-> <<>>] /\ memory = capacity
  /\ freed = {} /\ dropping = {}

\* The context of a block of thread t; tag names the call.
Context(t, kind, size, b) ==
  [kind |-> kind, size |-> size, block |-> <<PoolOf(t, kind), b>>, tag |-> <<t, calls[t]>>]

\* malloc_fn: the first block of the size class, or a new one of its full size.
Malloc(t, kind, size, b) ==
  LET p == PoolOf(t, kind)  i == BucketIndex(size)
  IN  IF env = "cached" /\ pool[p][i] # <<>>
      THEN /\ b = Head(pool[p][i])
           /\ pool' = [pool EXCEPT ![p][i] = Tail(@)]
           /\ UNCHANGED <<capacity, memory>>
      ELSE /\ b = Len(capacity[p]) + 1
           /\ capacity' = [capacity EXCEPT ![p] =
                             Append(@, IF env = "cached" THEN 2 ^ i ELSE size)]
           /\ memory' = [memory EXCEPT ![p] = Append(@, <<>>)]
           /\ UNCHANGED pool

\* free_fn: the context says which size class the block came from.  cudaFree and
\* cudaFreeHost wait for the device.
Free(t, c) ==
  IF env = "cached"
  THEN /\ pool' = [pool EXCEPT ![PoolOf(t, c.kind)][BucketIndex(c.size)] =
                      Append(@, c.block[2])]
       /\ UNCHANGED freed
  ELSE /\ c.kind = "host" \/ stream[t] = <<>>
       /\ freed' = freed \cup {c.block}
       /\ UNCHANGED pool

-----------------------------------------------------------------------------
BeginCall(t) ==
  /\ doing[t] = "ready" /\ SumFunctionOnSet(calls, Thread) < MaxCalls
  /\ \E c \in Operations : operation' = [operation EXCEPT ![t] = c]
  /\ calls' = [calls EXCEPT ![t] = @ + 1]
  /\ doing' = [doing EXCEPT ![t] = "allocate"]
  /\ UNCHANGED <<env, held, output, pool, capacity, freed, dropping, stream, memory>>

\* temp_memory_handle::device_malloc, host_malloc and pinned_malloc
AllocateTemp(t) ==
  /\ doing[t] = "allocate" /\ Len(held[t]) < Len(operation[t].temps)
  /\ LET temp == operation[t].temps[Len(held[t]) + 1]
     IN  \E b \in 1 .. Len(capacity[PoolOf(t, temp.kind)]) + 1 :
           /\ Malloc(t, temp.kind, temp.size, b)
           /\ held' = [held EXCEPT ![t] = Append(@, Context(t, temp.kind, temp.size, b))]
  /\ UNCHANGED <<env, calls, operation, doing, output, freed, dropping, stream>>

\* A kernel writes a block and another one reads it; the caller reads the result.
Kernels(c) == IF c.kind = "host" THEN <<>>
              ELSE <<[op |-> "write", on |-> c], [op |-> "read", on |-> c]>>

\* Those of an operation, which uses one block after the other.
KernelsOn(contexts) == FlattenSeq([n \in DOMAIN contexts |-> Kernels(contexts[n])])

\* output_memory_handle::device_malloc, and the kernels of the operation.
LaunchKernels(t) ==
  /\ doing[t] = "allocate" /\ Len(held[t]) = Len(operation[t].temps)
  /\ \E b \in 1 .. Len(capacity[PoolOf(t, "device")]) + 1 :
       LET result == Context(t, "device", operation[t].output, b)
       IN  /\ Malloc(t, "device", operation[t].output, b)
           /\ output' = [output EXCEPT ![t] = Append(@, result)]
           /\ stream' = [stream EXCEPT ![t] =
                           @ \o KernelsOn(held[t]) \o <<[op |-> "write", on |-> result]>>]
  /\ doing' = [doing EXCEPT ![t] = "launched"]
  /\ UNCHANGED <<env, calls, operation, held, freed, dropping>>

\* Operations that let kernels write pinned memory read it, and wait for that.
ReturnResult(t) ==
  /\ doing[t] = "launched"
  /\ (\E n \in DOMAIN held[t] : held[t][n].kind = "pinned") => stream[t] = <<>>
  /\ doing' = [doing EXCEPT ![t] = "freeing"]
  /\ UNCHANGED <<env, calls, operation, held, output, pool, capacity, freed, dropping, stream,
                 memory>>

\* ~temp_memory_handle: the last one created is freed first.
FreeTemp(t) ==
  /\ doing[t] = "freeing" /\ held[t] # <<>>
  /\ Free(t, Last(held[t]))
  /\ held' = [held EXCEPT ![t] = Front(@)]
  /\ UNCHANGED <<env, calls, operation, doing, output, capacity, dropping, stream, memory>>

Returned(t) ==
  /\ doing[t] = "freeing" /\ held[t] = <<>>
  /\ doing' = [doing EXCEPT ![t] = "ready"]
  /\ operation' = [operation EXCEPT ![t] = NoCall]
  /\ UNCHANGED <<env, calls, held, output, pool, capacity, freed, dropping, stream, memory>>

\* The caller has no more use for the oldest result, for which kernels may still run.
FreeOutput(t) ==
  /\ doing[t] = "ready" /\ output[t] # <<>>
  /\ Free(t, Head(output[t]))
  /\ output' = [output EXCEPT ![t] = Tail(@)]
  /\ UNCHANGED <<env, calls, operation, doing, held, capacity, dropping, stream, memory>>

Queued(p) == UNION {Range(pool[p][i]) : i \in 0 .. MaxBucket}

\* DropCaches empties one pool after the other, while other threads go on.
DropCaches(t) ==
  /\ doing[t] = "ready" /\ dropping = {}
  /\ dropping' = {p \in Pools : Queued(p) # {}} /\ dropping' # {}
  /\ UNCHANGED <<env, calls, operation, doing, held, output, pool, capacity, freed, stream, memory>>

EmptyCache(p) ==
  /\ p \in dropping
  /\ p # <<"host">> /\ Queued(p) # {} =>
       \A t \in Thread : p \in {<<"device", t>>, <<"pinned">>} => stream[t] = <<>>
  /\ freed' = freed \cup ({p} \X Queued(p))
  /\ pool' = [pool EXCEPT ![p] = [i \in 0 .. MaxBucket |-> <<>>]]
  /\ dropping' = dropping \ {p}
  /\ UNCHANGED <<env, calls, operation, doing, held, output, capacity, stream, memory>>

RunKernel(t) ==
  /\ stream[t] # <<>>
  /\ LET k == Head(stream[t])
         p == k.on.block[1]
     IN  memory' = IF k.op = "write" THEN [memory EXCEPT ![p][k.on.block[2]] = k.on.tag]
                   ELSE memory
  /\ stream' = [stream EXCEPT ![t] = Tail(@)]
  /\ UNCHANGED <<env, calls, operation, doing, held, output, pool, capacity, freed, dropping>>

TempDone ==
  /\ dropping = {} /\ UNCHANGED tempVars
  /\ SumFunctionOnSet(calls, Thread) = MaxCalls
  /\ \A t \in Thread : doing[t] = "ready" /\ stream[t] = <<>>

TempNext ==
  \/ TempDone
  \/ \E p \in Pools : EmptyCache(p)
  \/ \E t \in Thread :
       \/ BeginCall(t) \/ AllocateTemp(t) \/ LaunchKernels(t) \/ ReturnResult(t) \/ FreeTemp(t)
       \/ Returned(t) \/ FreeOutput(t) \/ DropCaches(t) \/ RunKernel(t)

Temporary == TempInit /\ [][TempNext]_tempVars

-----------------------------------------------------------------------------
Capacity(c) == capacity[c.block[1]][c.block[2]]
LastTag(c)  == memory[c.block[1]][c.block[2]]

\* Although an operation frees its memory before its kernels have run, and others get it
\* at once, a kernel finds in a block what the kernel before it in its operation wrote,
\* the block is as large as asked for and CUDA's, and a result stays as it was written
\* until its caller frees it.
MemoryOfItsOwn ==
  \A t \in Thread :
    /\ stream[t] # <<>> =>
         LET k == Head(stream[t])
         IN  /\ k.on.block \notin freed /\ Capacity(k.on) >= k.on.size
             /\ k.op = "read" => LastTag(k.on) = k.on.tag
    /\ \A n \in DOMAIN output[t] :
         LET c == output[t][n]
         IN  LastTag(c) = c.tag \/ \E j \in DOMAIN stream[t] : stream[t][j].on = c
=============================================================================
