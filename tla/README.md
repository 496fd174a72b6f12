# TLA+ models and proofs of WholeGraph

This directory holds a verification project for the C++ runtime of this
repository (`cpp/`, "WholeGraph"): TLA+ modules of its parts, TLC
configurations that check them on small instances, and proofs that TLAPS
checks for every value of the constants. `PROJECT.json` lists, for every
definition, the lines of code it stands for.

- [The system](#the-system)
- [Modules and the code](#modules-and-the-code)
- [Runs](#runs)
- [Fairness](#fairness)
- [Proofs](#proofs)
- [Findings](#findings)
- [What is not modelled](#what-is-not-modelled)
- [Plan](#plan)

## The system

WholeGraph lets the GPUs of one or more hosts store a table (node features,
embeddings, graph structure) together. One process per GPU runs the same
application program (SPMD). Almost every call of the API is *collective*: all
ranks of a communicator make it, in the same order, each at its own speed, and
synchronise in NCCL collectives, barriers and host all-gathers inside the call.

| Component | State it keeps | Operations | Meets |
|---|---|---|---|
| Communicators (`communicator.cpp`) | per process `communicator_map` under `comm_mu`; per communicator an id, rank info, a temporary directory on each host | create, split, destroy, destroy all | NCCL, the file system |
| Memory handles (`memory_handle.cpp`) | per communicator `wholegraph_map` under `mu`; shared segments, driver allocations, sockets, mappings | create, destroy, destroy all, query the partition | communicators (id, barrier), System V and POSIX memory, unix sockets, CUDA VMM |
| Collectives (`nccl_comms.cpp`) | staging buffers | barrier, all-gather, all-to-all on host and device data | NCCL |
| Id buckets and exchange (`bucket_ids_func.cu`, `exchange_*`) | counters per rank, temporary buffers | count indices per owner, sort and send them, send rows back | collectives, partition of the handle |
| Gather and scatter (`gather_op*`, `scatter_op*`) | none beyond the call | read and write rows of a partitioned table | all of the above |
| Embedding cache (`embedding_cache*`) | per set: tags with a modified bit, scaled counters; the cached rows; access counts | update, gather, write back, drop | optimizer kernels, the raw table |
| Embeddings (`embedding.cpp`, `embedding_optimizer.cpp`) | raw table, cache, optimizer state | gather, apply gradients, write back | cache, exchange |
| Tensors (`wholegraph_tensor.cpp`, `tensor_description.cpp`) | descriptions over handles, root/sub-tensor | create, sub-tensor, map | handles |
| Files (`file_io.cpp`) | none | load and store the local part of a table | handles |
| Sampling, graph operations (`wholegraph_ops/`, `graph_ops/`) | temporary tables of a kernel | sampling without replacement, append-unique, self loops | gather |
| Python (`python/`) | wrappers; PyG stores, loaders, samplers | argument conversion, program order of the calls | C API |

What is hard in this code is that processes are only loosely synchronised:

* ids are chosen by ranks whose maps differ, and name directories, shared memory
  keys and sockets that other ranks look up;
* objects of the operating system are created, opened and removed by different
  ranks, kept apart only by barriers, and their names are reused;
* locks are held over collectives, so an order that differs between two processes
  is a deadlock;
* counts, offsets, ids and rows of a gather cross in separate all-to-all calls
  that have to agree;
* a cache line's tag is read, modified and stored by several blocks of a kernel,
  and a lost modified bit loses a training step;
* integer edges: scaled counters, the guess of an index's owner, negative indices
  as padding.

`PROJECT.json` lists these hazards at their lines, with the properties that cover
each, or why none does yet.

What makes each component correct:

| Component | Correct when |
|---|---|
| Communicators | members know a communicator by one id, names on a host are distinct, no directory is missing or leaked, all calls return |
| Memory handles | a handle is usable from the return of its creation to its destruction, memory is released after all have unmapped it, nothing is leaked, all calls return |
| Buckets | each index is counted once, for its owner |
| Gather and scatter | a gather returns what earlier scatters stored, in the caller's order |
| Cache | the cache is invisible to readers; write-back makes the table complete; the rows used most are kept |
| Collectives | each piece of the data arrives once at its place |
| Files | each row of the files arrives once at its place |
| Sampling | distinct neighbours, as many as asked for or all there are |
| Append-unique | each key has one number, numbers are dense |

## Modules and the code

`X.tla` models a component, `MCX.tla` gives its constants small values,
`XProofs.tla` proves about it. Names of operators and variables are those of the
source where possible.

### IdNegotiation, LeastFreeIdChoice

`negotiate_communicator_id_locked` (`communicator.cpp:597-617`). Each rank has its
own set `used` of ids. In a round it proposes the least id that is free in its
map and not below its candidate (`Propose`), waits in the all-gather until all
have proposed, and (`Gather`) either takes the id, when all proposals are the
same, or goes on from the maximum. `proposed[r]` is the history of what rank r put
into the all-gathers; an all-gather of round k returns at a rank once all ranks
have entered it k times. The size of a map is bounded by `Capacity`. The loop over
handle ids in `memory_handle.cpp:1332-1352` is the same one.

`LeastFreeIdChoice` is the promise: in one step, the ranks choose the least id
free everywhere. `IdNegotiation` implements it under the mapping
`ChoosesLeastFreeId`; the modules below use the promise in place of the loop.

### Communicator

`create_communicator`, `split_communicator`, `destroy_communicator` and
`destroy_all_communicators` (`communicator.cpp:689-866`). `program` is the
sequence of calls the application makes, the same for all processes, each process
makes the calls that concern it (`Pending`, `NextCall`) in order; `Issue` lets the
process furthest ahead make any call that is legal then. A call is a sequence of
steps separated by collectives: `Join`/`Joined` (NCCL init or split), `Negotiated`
(id and map, then the directory of the first rank on each host), `Settled`
(all-gather of the granularity), `DestroyOne`/`DestroyNext`/`Destroyed` (barrier,
then rmdir and erase). `sent[c][p]` counts and labels the collectives; where the
code compares arguments between the ranks (`wg_comm_check_all_same`), `Disagreement`
leads to `Abort`. mkdir of a directory that exists and rmdir of one that does not
abort as in the code. `DirName` keeps what tells the names apart: the host, the pid
of the first member there and the id.

Kept out: `set_distributed_backend`, the queries of device support, and the values
of rank infos and granularities. The members of a split get the ranks of
increasing processes (equal keys). A process is single threaded.

### MemoryHandle

`create_wholegraph`, `destroy_wholegraph` and `destroy_all_wholegraph`
(`memory_handle.cpp:1332-1519`) for one communicator on one host, with the
implementations of

* `sysv` and `posix`: `global_mapped_host_wholegraph_impl` (`:455-600`) — rank 0
  creates the segment, barrier, the others open it, barrier, the name is removed
  (POSIX), all map it; destruction in the reverse order;
* `device`: `continuous_device_wholegraph_impl` (`:740-1017`) — each rank allocates
  its part, binds a socket for every peer, sends its handle to all, receives from
  all, closes, maps; unmaps, barrier, releases;
* `distributed`: private memory, nothing shared.

The system objects are explicit: `files` (the file ftok looks at), `shmKey`,
`shmName`, `sockets`, `inbox`, `local_alloc`, and at each rank `opened`, `mapped`,
`imported`. Every call of the operating system that would fail in the code
(a name taken, a name missing, a socket not bound) leads to "aborted". `Close`
is the destruction of the communicator, which destroys the handles still open
from the first of each rank's own map (`CloseNext`). Device memory is dealt out in
pages (`FirstPage`, `Contributor`): a rank that gets none allocates and sends
nothing, and nobody waits for it. Using a handle after destroying it is outside the
model.

### HostCollectives

The collectives of `nccl_comms.cpp` on host memory (`host_allreduce`, `host_bcast`,
`host_reduce`, `host_allgather`, `host_gather`, `host_alltoall`, `host_allgatherv`).
Data is copied into a pinned buffer (`CopyIn`), moved by one NCCL call per piece (`Collective`), and
copied out (`CopyOut`); `offset` is the element a piece starts with. A rank makes the calls of one
of `HostPrograms`, at its own speed between collectives. The buffers keep what the call
before left in them, and a receive buffer may only be read where this call has written.
Elements are triples of call, rank and position; `Promised` says which of them MPI's collectives
of these names leave, and where.

### TempMemory

`output_memory_handle`, `temp_memory_handle` and the functions of the environment
(`env_func_ptrs.cpp`). A thread works on its device: it allocates, launches kernels,
gives the memory back and returns, while the kernels wait in its `stream`. With the
default functions cudaFree waits for the device. The cached ones keep a block in the queue
of its size class and pool and hand it out at once, which is sound because the next user is
behind in the same stream. `DropCaches` empties the pools one by one.

### EntryPartition, BucketInputs, IdBuckets

`EntryPartition` holds pure definitions: the partitions a table can have, the
equal one, and `DestRanks`, the results `dest_rank` (`bucket_ids_func.cu:21-38`)
can have. The guess `max(W - 1, e / (total / W))` and the searches are those of
the code. A guess beyond the offsets reads memory behind the array: each
comparison there may go either way, which is a set of possible results.
`BucketInputs` is what the kernel is called with, `IdBuckets` the kernel: threads take
the indices in any order (`CountIndex`, `SkipIndex`).

### DistributedTable

`wholegraph_gather_nccl` and `wholegraph_scatter_nccl` with what they call. Every
rank runs the same sequence of gathers and scatters, with a batch of its own in
each. Between collectives a rank does: count and exchange counts (`Bucket`), sort
and exchange ids (`SendIds`), read or write its rows and exchange them
(`SendRows`), reorder or store (`FinishGather`, `FinishScatter`). A row is a
triple of the call, the rank and the position that stored it, so that any mix-up
shows. Ids are sorted as unsigned numbers (`IndexSort`: `SortKey` modulo `IndexRange`), so
negative indices come last. Several rows for one entry in a scatter are stored by
threads in any order (`Stored` allows each). Memory past a rank's own part reads as
`OutOfBounds`.

### CacheSet, EmbeddingTable

One cache set with the `Coverage` rows that share its `Lines` lines:
`UpdateCacheDirectKernel` and the device class `CacheSetUpdater`
(`embedding_cache_func.cuh`, `.cu`), `gather_cached_kernel`, the SGD optimizer's
access to the cache (`embedding_optimizer_func.cu:141-215`) and
`WriteBackCacheDirectKernel`. Blocks of an optimizer kernel interleave: each loads
the tags of the whole set (`LoadTags`) and later stores the row and its line's tag
(`StepEntry`). Kernels on one stream do not overlap (`Quiet`). `Estimate`,
`ScaleFor` and `Weight` are the arithmetic of the scaled use counters, with
`CounterBits` for the 14 bits of the code. Ties in the choice of rows to keep are
decided by the sorting network: here, any choice (`TopSets`).

`EmbeddingTable` is a table of rows that changes only where a running optimizer step
has still to write. `CacheSet` implements it with `table <- [i \in Id |-> Read(i)]`
and `due <- Due`, the entries whose block of the kernel has not ended. Updates,
write-backs and drops are stutters of it: an eviction that loses a row, which looks
like a write of the old value, is not allowed.

### CachedEmbedding

`embedding.cpp` with a cache on each rank: `gather`, `gather_gradient_apply`,
`writeback_all_caches`, `drop_all_caches`, for the three kinds of cache the library
has (`kind`): the lines of the ranks are readable by all, readable by their rank only,
or a read-only copy of an embedding kept elsewhere. The host of a rank (`Host`) and its
CUDA stream (`Device`) are separate processes: a call appends kernels to `stream[r]` and
mostly returns before they have run. What keeps ranks in order is modelled as it is in
the code: the wait for the own stream inside `bucket_and_exchange_ids_func`
(`Exchange`), the wait and the barrier of a gather that adjusts the cache
(`AdjustCache`, `Barrier`, `AfterBarrier`), and those of a write-back. The gather
kernel reads a tag (`LoadTag`) and, later, a line or the raw row (`ReadRow`). A read-only
cache is looked up by one kernel, which marks what it did not find (`TryRow`), and the rows
it missed are fetched by a second one from the embedding elsewhere (`RunFetch`). A set has
one line here; `CacheSet` is about the lines of a set.

One duty of the application is an assumption (`StepsSettled`): a gather that neither
adjusts the cache nor exchanges ids reads lines of other ranks directly, and an
optimizer step returns before its kernel has run, with no barrier. Between the two the
application waits for its stream and meets the others (`Fence`), as the gradient tests
do. `WholeGraphOptimizer.step` of the Python package calls the barrier only.

### FileParts, FileLoad, DirectRead

`load_file_to_handle` (`file_io.cpp:1833-2046`). `FileParts` is the arithmetic: the part
of a rank, contiguous or round robin, the window of it that each thread reads
(`WindowStart`, `WindowSize`, with the subtraction of `size_t` as `Minus`; `Rounds`,
`RoundsOf`, `CountOf`, `FirstRound`), where an entry belongs (`Place`) and where a gather
looks it up (`MappedIndex`, `map_indices_func.cu`). `FileLoad` walks through the list of
files as the threads of all ranks do: `PassFile` when what comes next is in a later file,
`ReadRun` up to the end of the run or of the file, `Join`, and the barrier (`Return`).
`copies` is the history of what was stored where; `Fits` is what a layout needs for that
to go well. `DirectRead` is how one run is read
with direct IO: whole blocks into a buffer, entries cut at both ends (`HeadSize`,
`FullEntries`, `TailSize`).

### AppendUnique

`graph_append_unique_func` (`append_unique_func.cuh`): three kernels one after the other
(`phase`) insert the target nodes, insert the neighbors, and look the neighbors up. In
each a group of `BucketSize` lanes works on one key, and the groups interleave
(`LoadKey`, `FindKey`, `ClaimSlot`, `NextBucket`, `StoreValue`, `RetrieveValue`). A lane
reads its slot with a plain load, which may miss what this kernel's atomic operations
have put there (`EmptyAtLaunch`); only compare-and-swap decides (`ClaimSlot`). Squares of
the number of tries are taken modulo the number of buckets, so `try` is kept modulo it.
The hash function is part of the input, so that any collision can be asked for.

### SampleUnweighted

`wholegraph_csr_unweighted_sample_without_replacement` and its kernels. The entry point
decides by the memory of row pointers and columns (`Path`). Counts and their prefix sum
give each node its place in the output. The kernel for up to 1024 samples
(`SampleSmall`) sorts the drawn numbers and follows chains of replaced positions
(`Positions`); it is a pure algorithm over the numbers drawn, which are any. The kernel for
larger samples (`StartLarge`, `Replace`, `FinishLarge`) lets threads replace positions with
atomics in any order. For distributed graphs row pointers are gathered first (`GatherRows`)
and columns last (`GatherColumns`). The references are `DrawnInTurn`, where positions are
drawn one after the other, and `Reservoir`.

### SampleWeighted

`wholegraph_csr_weighted_sample_without_replacement`: `StoreKey` is
`generate_weighted_keys_and_idxs_kernel`, whose blocks store in any order,
`SortSegments` and `SelectSorted` are the segmented sort and the selection, and
`SelectQueued` is the queue of a block for samples of up to 256. The reference is the set of the neighbors with the
greatest keys.

### GatherScatter, IndexSort

`gather_scatter_func.cuh` and the two files that call it, for memory that all threads can
address: how wide the vectors of a lane can be (`Alignment`), how many lanes make a
group (`Width`), whether rows pass through shared memory and how many at a time, and which
rows a group takes. Groups interleave; lanes that are not kept together do too. A cell
holds the address it was read from, so that `RowsMoved` sees a vector that starts or ends at
the wrong place, and `Garbage` that was never loaded. Gathers from host memory take the
indices in the order of `IndexSort`.

### OptimizerStates

`set_optimizer` and what it creates, and the steps, with `embedding.cpp`,
`embedding_optimizer.cpp`, the tensor functions they use and the optimizers' kernels. A
tensor is a description over memory with a partition; `Address` is what a description names,
and a step (`Kernel`, `StepOf`) computes its addresses from the embedding's stride as the
kernels do. States are rows of a second embedding, with a cache if the first has one
(`lines`, `modified`). An element holds the number of steps it has seen, `steps` how many
its entry was in. Optimizers of one state, of two, and with powers of betas are in it. The
grid of a kernel is one step here, since entries of a step are distinct; the interleavings
of the blocks are in `CacheSet`.

### Modules for TLC

Models that share no variable are checked in one run, one of them in each behaviour: a
variable (`part`, `kernel`) names it and the others rest in one initial state. Their modules
are extended where no name is in two of them, and instantiated elsewhere. They are
`MCCommunicator` (IdNegotiation, Communicator, HostCollectives), `MCMemoryHandle`
(MemoryHandle, TempMemory), `MCDistributedTable` (DistributedTable, OptimizerStates),
`MCKernels` (AppendUnique, IdBuckets, SampleUnweighted, SampleWeighted, GatherScatter) and
`MCFiles` (FileLoad, DirectRead). The state space is the sum of theirs, and a property of one
is a statement about the behaviours that run it.

`TypeOK` is there where it says something about arithmetic (identifiers within the
capacity, counters within their bits) or where a proof needs it; elsewhere the types are
the comments at the variables. Where it is proved it is not checked once more.

## Runs

Every property has a mutant: a plausible slip in one definition that makes TLC find
that property violated. A mutant is written beside the definition it alters.

| Run | Instance | What it shows |
|---|---|---|
| `communicator` | negotiation of 3 ranks, ids below 3 used in any pattern at each; or 3 processes, 2 hosts, 3 overlapping groups, programs of 3 calls; or 2 ranks, every pair of collectives with data up to one buffer, or longer where the code divides it rightly | the loop chooses the least id free everywhere (`ChoosesLeastFreeId`) and ends (`LoopEnds`); one id per communicator at all members (`MapsAgree`), no check fails (`NoAbort`), directories neither leaked nor missing (`DirsMatch`), all calls return (`CallsReturn`); data arrives whole (`Delivered`) |
| `memory_handle` | 3 ranks, 4 kinds of memory, 2 pages of device memory, programs of 4 calls; or 2 threads, 3 operations, both kinds of environment | no system call fails (`NoAbort`), a handle works from creation to destruction (`UsableWhileHeld`), release comes last (`ReleasedLast`), nothing is left (`NothingLeft`), all calls return (`HandleCallsReturn`); temporary memory keeps what was written for its user (`MemoryOfItsOwn`) |
| `cache` | 3 rows, 2 lines, 2 values, 1-bit counters, up to 4 uses of a row | `Coherent`, refinement of the plain table (`ImplementsTable`), write-back and drop settle the table (`WriteBackSettles`), counters stay within one unit of the scale (`EstimateTight`), the rows used most are kept (`KeepsHottest`) |
| `cached` | 2 ranks, 3 entries of which two compete for a line, each kind of cache, programs of 3 calls | a gather sees the steps before it and no others (`GatherSeesSteps`), the raw table is complete when a write-back returns (`RawSettled`), caches and table together are one table (`ImplementsTable`), all calls return (`CallsReturn`) |
| `kernels` | append-unique of 3 keys with 2 lanes a group; all partitions of up to 7 entries on up to 4 ranks for which the guess of the owner stays in range; nodes of degree 0 to 6 with samples of 0 to 5; 4 + 8 jobs of gather and scatter | keys get one slot (`KeysDistinct`), the output is the targets and then each other node once (`AppendsUnique`), searches end (`SearchesEnd`); counts are those of the owners (`CountsOwned`); samples are those of drawing one by one (`SampledAsInTurn`), of the greatest keys (`HeaviestSampled`); rows arrive whole and nothing else is written (`RowsMoved`) |
| `tables` | 2 ranks, 3 entries, 3 batches with repetitions and padding, programs of 3 calls; or 7 embeddings of 2 or 3 ranks with each optimizer, 3 calls | rows come back in order and current (`GatherSeesScatters`), counts match in every exchange (`CountsMatch`), all calls return (`TableCallsReturn`); no check of a step fails (`StepsAccepted`), a step finds the states of its entry (`StatesOfEntry`), a checkpoint misses none (`CheckpointComplete`) |
| `files` | 2 ranks, 1 to 3 threads, lists of 1 to 4 files of 7 or 8 entries, round robin sizes 1 to 3 and 5 contiguous partitions; and runs of 1 or 3 entries of 1 to 5 bytes in blocks of 2 and 4 | entries are stored where they belong, where their rank will look them up (`CopiedToPlace`) and inside the part of the rank (`RowsOfRank`), all of them before a rank returns (`LoadedOnReturn`); bytes end in place (`BytesInPlace`); all ranks return (`LoadsReturn`) |
| `id_buckets_assert` | all partitions of the run `kernels` without the restriction on the guess | violates `AssertHolds` ([finding 1](#findings)) |
| `file_windows` | contiguous layouts without the restriction to windows inside the part | violates `RowsOfRank` ([finding 2](#findings)) |
| `file_index` | the round robin layouts | violates `EntriesFound` ([finding 3](#findings)) |
| `weighted_sampling` | large samples of nodes of which some have few neighbors | violates `HeaviestSampled` ([finding 4](#findings)) |
| `optimizer_state` | embeddings of 5 entries and 2 or 7 columns | violates `StatesCoverEntries` ([finding 5](#findings)) |

Why the bounds are enough to be interesting:

* *Ranks.* Three ranks let one be behind two that have gone on to the next round
  or call; two processes on one host and one on another give a group inside a host
  and two across hosts, in every overlap that has a member in common.
* *Calls.* Three calls on communicators allow two communicators that overlap and
  the destruction of one while others are behind, the reuse of its id by the third,
  a split and a destroy-all. Four on handles allow create, destroy, create again
  with the same id and name, then close. Two pages for three ranks leave the first one
  without any.
* *Collectives.* Two elements of a buffer per rank: data of none, of less, of a full
  buffer, and where the code divides it, of one and a half and of a piece more. The second
  call meets what the first left in the buffers.
* *Temporary memory.* Two operations of one thread and one of another reuse a block,
  exchange blocks between sizes of one class, and drop the caches in between.
* *Cache.* Three rows for two lines force an eviction in two updates, and let an
  evicted row compete with one that never was cached. One bit makes the scale change at
  every second use, so that estimates are rounded repeatedly within four uses; in the
  code it happens after 2^14.
* *Table.* Three entries on two ranks make the parts uneven; batches name an entry
  twice, of the other rank first, and a padding index first.
* *Cached embedding.* Three calls are a step, what settles it, and a gather; or a gather
  that fills a line, a step that modifies it, a gather or write-back. One batch names
  entries of both ranks, the other makes each rank ask for the other entry of the shared
  line.
* *Files.* Runs end inside a file, at its end and in a later file; one file is empty; the
  table has a row more than there are entries; some threads get no round. Entries are
  smaller and larger than a block and fit the blocks in all ways.
* *Sampling.* Six neighbors and five samples make chains of two replacements, several equal
  draws and draws of the last position; more neighbors than twice the samples, and fewer; a
  node that is twice in the batch is the same as two nodes. Both sides of the threshold
  between the kernels (4 here, 1024 in the code; 2 and 256 for weights).
* *Gather and scatter.* Warps of four lanes and vectors of up to four bytes. Rows of a whole
  vector, an odd width, a slice at an offset, another type; rows that just fit a share of
  shared memory, and just do not; more rows than groups.
* *Optimizer states.* Three calls are a step, what moves its rows (a gather that evicts, a
  write-back, a drop), and a step on the same or another entry. Three steps of an entry also
  tell its powers from those of another one. Partitions of each kind and a rank without
  entries; widths that need padding, so that strides of embedding and states differ.
* *Append-unique.* Three keys of one hash value overflow a bucket of two slots, so that
  groups with the same key meet in the second bucket of the probe sequence too. Squares
  reach only some of the buckets (11 of 25). The instances have room in those; the code
  has two slots per key and trusts the hash function to spread the keys.

`MaxOps`, `MaxCalls`, `MaxBatch`, `Capacity`, `MaxInc`, `MaxCount`, `MaxIndices`,
`MaxBucket`, `IndexRange` exist for TLC only, except `Capacity`, a bound on map sizes the
code has as the range of int. `SizeModulus` and `SizeRange` are 2^64 in the code. The run
`cache` uses the symmetry of the two values, which occur in its temporal properties only
through equality of rows.

## Fairness

The models of several processes assume weak fairness of each process's next step
(`WF_vars(Step(p))`; in `IdNegotiation` of each rank's actions): a process that can
go on does so, which is the scheduling of the operating system. A process in a
collective can go on only when every member has entered it. Issuing a call has no
fairness: the application may stop calling. Nothing is assumed about the order in
which processes run, nor about NCCL beyond that a collective returns once all
members are in it. In `CachedEmbedding` the host and the stream of each rank are fair
separately: a kernel that was launched runs. In the run `files` and in `AppendUnique`
some thread that can go on does (`Progress`, `Kernels`): the weakest assumption under
which anything ends, and enough, because no thread can go on for ever by itself.
Where a run has several models, these conditions are those of each model for the behaviours
that run it. `CacheSet`, `IdBuckets`, `HostCollectives`, `TempMemory`, `OptimizerStates`,
`GatherScatter` and the two sampling modules have no liveness properties: threads of a
kernel just end, and TLC's check for deadlocks covers ranks that wait for each other.

## Proofs

`tlapm X.tla` checks each of these from nothing, for every value of the constants
that satisfies the named assumptions.

| Module | Theorem | About |
|---|---|---|
| `CommunicatorProofs` | `TypeCorrect`, `AgreementAndFreshness`, `LeastFree`, `RoundsMatch`, `BoundedRounds` | types, agreement on an id free everywhere and the least such, that ranks are never more than one gather apart, nobody leaves one another has not entered, and whoever is behind follows (`InStep`), how many rounds there can be, for any ranks and maps |
| | `Refinement` | every step of the loop is the choice of `LeastFreeIdChoice` or a stutter |
| | `CommInvariance` | the inductive invariant of `Communicator`, for any processes, hosts, groups and colors and any program |
| | `MapsAgreeAlways`, `NoAbortEver`, `DirsMatchAlways` | one id per communicator at all members; no check of the code fails; no directory is leaked or missing |
| | `HostInvariance` | the inductive invariant of `HostCollectives`, for any number of ranks, size of the buffers and calls |
| | `DeliveredAlways` | each call leaves what the collective of its name promises |
| `CacheSetProofs` | `CacheCoherent`, `Transparent`, `WriteBackComplete` | the contents of the cache, for any number of lines, rows and values |
| | `TypeCorrect`, `EstimatesTight`, `HottestKept` | its scaled counters: they fit, are right up to one unit, and an update keeps the rows used most |
| `DistributedTableProofs` | `LargeEnough`, `OwnerFound` | `dest_rank` returns the owner when its guess is among the offsets, as in all tables of at least W * W entries |
| | `KernelAssertion`, `CountsRight`, `KernelImplementsCounts` | the kernel `IdBuckets` for such a table: its assertion, its counts, and that they are what `Bucket` takes from it |
| | `CountsAlwaysMatch`, `GathersSeeScatters` | what ranks send and receive agrees, and gathers return what the last scatters stored, for any ranks, partition and program |
| | `RowsInvariance` | the inductive invariant of `GatherScatter`, for any layouts of the tensors, indices, sizes of vectors, warps and shared memory |
| | `RowsMovedAlways` | every row whose index names an entry gets to its place, nothing else is written, vectors are aligned |
| `AppendUniqueProofs` | `OneSlotPerKey` | no key is in two slots of the hash table, for any keys, hash function and interleaving of the groups |
| | `ListIsUnique` | the result is the targets and then every other neighbor once, and each neighbor is mapped to its place in it |
| `FileLoadProofs` | `WindowsInsideParts` | what a thread is given to read fits into the part of its rank |
| | `RowsStayInParts` | no thread stores a row outside of that part, whatever the files |
| | `StoredInPlace` | each row is stored at the place of its entry, where the rank that loaded it looks it up; other ranks look there if parts are contiguous, and never if they are round robin (`FoundByLoader`) |
| | `AllLoadedOnReturn` | no entry of the files is missing when a rank returns |
| | `DirectInvariance` | the inductive invariant of `DirectRead`, for any sizes of entries, rows, blocks and buffer |
| | `BytesInPlaceAlways` | the bytes of a run that have been read, and only they, are stored, each at its place |
| `MemoryHandleProofs` | `Invariance` | the inductive invariant, for any number of ranks and pages, any kinds of memory and any program |
| | `NoAbortEver`, `UsableAlways`, `ReleasedLastAlways`, `NothingLeftAlways` | no check of the code fails; a handle works while it is held; release comes last; nothing is left over |
| | `TempInvariance` | the inductive invariant of `TempMemory`, for any threads, operations and size classes, with the default functions and the cached ones |
| | `MemoryOfItsOwnAlways` | what an operation or its caller reads in a block is what was written there for it |
| `CachedEmbeddingProofs` | `Invariance` | the inductive invariant, for any number of ranks and calls, any owners and batches, and each kind of cache |
| | `GathersSeeSteps`, `WrittenBack` | gathers return what the last step left; a write-back leaves all rows in the raw embedding |
| | `CachesImplementTable` | the caches of all ranks implement the table of `EmbeddingTable` |
| `NaturalLemmas` | `LeastElement`, `LargestElement` and lemmas | minimum and maximum of sets of numbers, the searches in a sorted array, sums over finite sets, quotients, remainders and multiples |

**IdNegotiation.** Agreement is not inductive: a rank that leaves with id n says
nothing about a rank still between its rounds. `NegotiationInv` adds what the history in
`proposed` tells: a rank goes past round k only if all ranks were in it and did not
propose the same (`Undecided`); a rank that left saw its own proposal from everyone
(`DoneAgrees`); proposals are free at the proposer, grow by at least one a round and
never pass an id free everywhere (`Proposals`, `Candidates`). Then two ranks that
left did so in the same round: in the earlier of two different rounds all proposals
would be both equal and not. `InStep` says what this means for the gathers at every moment,
also before a rank has left: by `Undecided` no rank is past a round that another has not
entered, and the one behind sees the difference too and follows. That no proposal passes a free id gives the least id
and the bound on the rounds. Assumptions: the set of ranks is not empty; `Capacity`
is a natural number; `NoId` is not an id.

**Communicator.** The maps of the members differ, they change while ids are chosen, and
`FreeId` reads all of them, so two members that choose at different moments get the same id
only if no map that matters changes in between. `CommInv` says why. The program is a constant
as far as it is written, so what it says of a communicator can be said without the processes:
which call creates it, which split it, which destroys it, and how many collectives of it a
member enters in each (`Takes`), with which meaning (`What`). `Tally` adds the numbers up.

* A process is in its next call (`Turn`), or between two, and works on a communicator this
  call is about (`Places`); its map has the communicators of its own that exist at that point of
  the program, each under an id below the number of the call that created it (`Keeps`).
* The number of collectives a member has entered is the tally of the calls it has made and
  what it has done of the current one, and they are those the program says (`SentAlike`). As
  nobody leaves a collective that another member has not entered (`Met`), members that meet in
  one mean the same: no check of `WG_COMM_CHECK_ALL_SAME` fails.
* If one member has the id of a communicator and another is still choosing it, all members are
  in the call that creates it (`Together`), so their maps rest but for the new communicator
  itself, and the id found is the one the others have (`IdsAgree`).
* A directory exists exactly if the map of its keeper, the first member on the host, has the
  communicator (`DirsKeptOf`). Its name has the id and the keeper, so no two communicators
  share one.

An id below the number of the call is also the reason why `0 .. MaxOps` has a free one. When a
call is issued, the program grows by a call no process has begun, and the tallies are continued
(`LongerTally`). Assumptions: processes are numbers, groups are nonempty sets of them
(`ProcessAssumption`); colors are numbers, 0 among them (`ColorAssumption`); the bound on the
program is a number (`MaxOpsAssumption`).

**HostCollectives.** `Delivered` speaks of calls that have returned. `HostInv` says what is true
while they run, piece by piece. A piece is known by its call, its turn (for `host_allgatherv`) and
the element it starts with. All ranks have passed the same pieces (`PastAlike`), since NCCL moves
one only when all are there; so ranks that wait in a collective wait with the same piece
(`SamePiece`), although nothing that they pass to NCCL says which it is. Then the pinned buffer of
each has the elements of that piece from its start (`SentRight`), what NCCL leaves is what
belongs where it is copied to (`TakenRight`, by `MovedRight`), and the receive buffer has
what was promised up to where the rank is (`KeptRight`). What earlier calls left in the buffers is
behind what is moved and never taken. For data side by side an element is found by its quotient
and remainder (`InPieces`, `OfPiece`), which is right because it is moved in one piece; for
`host_allgatherv` by the sums of the counts before it (`Elements`). Assumptions: there is a rank,
and the buffers have room for an element of each (`SizesAssumption`); the ranks make the same
calls with counts that agree, and what lies side by side in the buffers fits
(`ProgramsAssumption`): the code has no caller with more, and [would not serve
it](#what-is-not-modelled).

**CacheSet.** `Coherent` alone is not kept by `StepEntry`, which writes the line in
which the entry was when the tags were loaded. `SnapshotsCurrent` adds that these
tags still name the same entries: only modified bits change while blocks run, because
updates and write-backs wait for the end of the kernel. The counters do not occur in
this part: the cache is transparent whatever it prefers to keep.

The counters have an invariant of their own, `CInv`. `EstimateTight` alone is not kept by
an update: a row that stays is counted from its estimate, not from its true count, and the
new estimate is rounded once more. The two errors do not add up if the scale does not go
down, because then every old estimate plus one is a multiple of the old unit and rounding it
to multiples of the new unit loses less than one of these. The scale is chosen anew in every
update, the least that fits the greatest count the set keeps. `HotLine` adds why it is never
less than before: as long as a row is cached, some counter has its highest bit set or the
scale is 0; the rows with the greatest counts stay (`ChoiceMade`), so the greatest count
needs that many bits again (`ScaleKept`). An update of an empty set may lower the scale, and
then there is no estimate it could spoil. `HottestKept` follows from the tight estimates,
before and after the update. Assumptions: at least one row and one line, at least one bit
in a counter.

**DistributedTable.** Arithmetic first. With at least W * W entries the guess is at
most W, so all reads are inside the offsets (`LargeEnough`); the two searches end at the owner
(`DownwardSearch`, `UpwardSearch`), an entry has one owner (`OneOwner`), and entries go up with
their owners. Hence a sorted batch has the indices of rank 0 first, then those of rank 1 and
so on, the negative ones last, and cut by the counts it falls into the pieces for each owner
(`InBuckets`). An owner has the pieces of all ranks one after the other; cut by the
counts it received, the rows it looked up are those for each rank (`Collected`,
`RowsReturned`), and the rows a rank gets back are in the order of its sorted batch. These
are lemmas about functions and sequences, of one call in which all take part.

The invariant `IndInv` says of which call the buffers are. A rank is past an exchange
only if all have entered it (`Lockstep`), so a rank that reads the counts, ids or rows of
another reads those of its own call (`Counted`, `Sent`, `Got`). The memory of a rank has the
rows of the scatters it has completed itself (`Contents`), whatever the others do. A gather
reads it while the owner is in the same call; what a gather returned stays with the owner
until it completes the next scatter to that entry (`Current`), hence two gathers between the
same scatters agree although other ranks may be a call ahead (`Agreed`).

The counting of a batch is one step there, `Bucket`. In the code it is a kernel, `IdBuckets`.
In whatever order its threads take the indices, the counts are at every moment those of the
indices taken (`KernelInv`), for all tables the kernel is given if the guess stays in range in
each (`Searchable`; the run `id_buckets_assert` shows why), and for the table of
`DistributedTable` they are at the end those `Bucket` has (`KernelImplementsCounts`). Assumptions:
`TablesAssumption` and `MaxIndicesAssumption`, the tables are partitions and the bound a number;
`PartitionAssumption`, the offsets are a partition in which the guess stays in range;
`BatchesAssumption`, indices are below the size of the table and negative ones fit into half of
the range of the sort's keys.

**GatherScatter.** The arithmetic first, from the layouts alone. The size of a vector divides the
columns, the strides and both first addresses (`Aligned`), so every vector of a row begins at a
multiple of its size and ends inside the row (`VectorFits`), and each column is in a vector of
one lane of one group (`VectorOfColumn`). Shares of warps that run side by side lie apart and
inside the shared memory of the block (`SharesApart`); one has room for a row of a gather
and, with what is before an aligned address and rounded up to one, for the rows of a batch of a
scatter (`ShareRoom`, `RoundedUp`), because these rows follow each other without a gap
(`BatchInterval`). Then the invariant, `RowsInv`. Lanes that go together have moved
all of the batches that are done and none of those to come (`TurnsKept`); what they have moved
of the current row of a gather is in the share of their group (`CollectedRows`), and so are the
rows a scatter has loaded (`CopiedRows`), since the writes of other groups stay in their own
shares. Hence what is written comes from where it should (`CellsRight`), and what has been moved
is written (`CellsWritten`); when nothing is left to move that is every row. Of two rows
scattered to one entry either may stay, so no statement about the order of groups is needed.
Assumptions: `BytesAssumption`, sizes in bytes are powers of two, and the shared memory of each
warp is a multiple of the widest vector; `JobsAssumption`, a row is not longer than the stride,
indices are below the number of rows, and the address a scatter copies from, less its offset,
is a multiple of 16 bytes. The code computes the copies as if the last were true and does not
check it.

**AppendUnique.** That two slots never hold the same key does not say why a group that
claims a slot may trust that the key is in none of the buckets it has left behind: other
groups fill slots meanwhile. The invariant adds that a slot never changes its key once it
has one, that the buckets a group has passed are full and do not hold its key
(`LeftBehind`), that what the group saw in its bucket is still there (`SeenStays`), and
that a key is placed at a bucket of its own probe sequence before which all are full of
others (`Placed`). The plain loads that may miss what this kernel has written are in the
model the proof is about. Assumptions: sizes are positive, keys are natural numbers.

What the kernels put out rests on a second invariant, `Values`. A slot is marked as a
neighbor to append exactly when the second kernel claimed it, a slot of a target holds the
place of the target, and once the kernels have ended each key of the input is in one slot.
Then slots and keys are one to one, by `KeysDistinct`, and the prefix sum over the slots
numbers those that are marked without a gap, so the list
has each of their keys once, at the number the slot was given.

**FileLoad.** The arithmetic comes first: a window starts behind the start of the part
and ends before its end (`WindowInside`), and the rounds that the files fill, with what is
left for the rank, need no more rows than `set_shard_method` gives each rank
(`PartHoldsRounds`, which compares quotients and remainders of two numbers of entries).
Three invariants follow, each on top of the one before.

* What a thread has read and its current run stay within its total (`RunsInWindow`),
  however the files cut the runs. This gives `RowsOfRank`.
* The counters of a thread name the entry and the place that come next (`InPosition`): for
  a contiguous part they are the same number; for round robin there is a round and an
  entry of it from which all four counters follow, whether the run before ended with its
  round, with its file or inside both. This gives `CopiedToPlace`, and with `RowsOfRank`
  who finds a row (`FoundByLoader`): the lookup of a round robin entry starts from the part of
  the rank that calls, and no two parts start at the same row if a row has been stored.
* What a thread has read is stored (`ReadIsStored`), and when all threads of a rank have
  met, the share of that rank is (`SharesStored`). The shares of all ranks are all
  entries of the files, by contiguous windows or by rounds, and the barrier says that no
  rank returns before all have met. This gives `LoadedOnReturn`.

Assumption (`Scope`, the layouts satisfy `Fits`): offsets start at 0, no window of a
contiguous part starts behind the part ([finding 2](#findings) shows why), and the files of
a round robin embedding have no more entries than it was created for. The code checks less
than the latter: it compares with the size of the table, which is rounded up to the same
number of rows at each rank (`file_io.cpp:1912`).

**DirectRead.** The loop keeps the row that comes next and how much of it is begun, and a read
changes them by what it completes (`HeadSize`), copies whole and begins. `BytesInPlace` says
nothing of these counters. `DirectInv` ties them to one number: of the bytes of the run,
`Taken` have been stored, the next row is the quotient of `Taken` by the size of an entry and
the bytes begun are the remainder; the bytes still to skip are inside the first block. A read
takes at least what the begun entry lacks, because an entry fits into the buffer (`Amounts`),
so `FullEntries` and `TailSize` are the quotient and the remainder of what is left, and the
counters after it are those of the new `Taken` (`Counters`). The pieces it copies then cover,
entry by entry, just the bytes between the old and the new `Taken` (`BytesStored`), and each
of them where it belongs (`RightByte`). All of it rests on comparing
two numbers by their quotients and remainders (`Compared`, `OneDivision`, `Within`).
Assumption: the sizes of a job are numbers (`JobsAssumption`); that entries are not empty and
fit into rows and buffer is the guard of the model (`Readable`).

**MemoryHandle.** None of the four properties says anything of a rank in the middle of a
call, and whether a system call of one rank succeeds depends on where the others are. The
invariant separates the two. `Places` is about where the ranks are, that is, how many calls
each has made, the collective it waits in, the handle it works on and its map:

* the ranks have put the same into the collectives they have in common (`SameSent`), hence
  one that has entered as many as another is in the same place or has just left it, and one
  that has entered more is in what follows (`InStep`). No rank can be two ahead of
  another, which is the reason why the barriers suffice;
* the call of the program goes with the collective (`Control`), and maps of ranks in the
  same place name the same handles by the same ids (`Ids`, `SameIds`).

All else is a function of the places. `HostMemory` says for each handle when its segment
exists, under which key or name and who has it open or mapped; `DeviceMemory` and `Sockets`
when a part is allocated, a socket bound, a message in an inbox, a part imported: from the
place of the rank that creates and removes it. An action is first shown to be a step of
one rank from place to place (`Moves`), which keeps `Places`; then each thing of the system
that the action changes is compared with what its new place asks for. Every check that could
lead to "aborted" is about a thing whose existence the place of another rank implies.
Assumptions: the kinds are those of the code (`KindAssumption`), the bound on the program is
a number (`MaxOpsAssumption`).

**Temporary memory.** `MemoryOfItsOwn` is about the kernel that runs next; why it finds its data
lies in when blocks change hands. `TempInv` has three parts.

* *Blocks.* A block is with one context of one operation or result (`HeldApart`, `OutputApart`,
  `KeptApart`), or once in one queue of the size class its capacity says (`QueuedFree`,
  `QueuedOnce`), or CUDA's again. Whoever has a block or a kernel for it has one of its own
  pool that is large enough (`Provided`).
* *Kernels.* A kernel that reads comes directly behind the one that writes for it, or that one
  has just run (`ReadsFollow`). Device blocks belong to one thread, hence to one stream, and
  pinned ones have no kernel left when their operation gives them back (`PinnedHeld`), so no
  kernel of another stream comes in between (`StreamsApart`); and no block goes back to CUDA
  while a kernel is there for it, since cudaFree and `DropCaches` wait for the device.
* *Results.* The last kernel on the block of a result is the one that writes it, waiting or
  run (`ResultsLast`): whoever gets a freed block behind it has no result's block.

Assumptions: the classes are numbered from 0 (`MaxBucketAssumption`); every size asked for falls
into one (`OperationsAssumption`), as any `size_t` does with the 64 of the code.

**CachedEmbedding.** What a gather returns depends on kernels of other ranks that nothing
orders but the exchanges and barriers in between. `IInv` has four parts.

* *Meetings.* The exchanges and barriers a rank has entered are those of the calls it has
  returned from and of the call it is in, so a rank that gets through one finds all others in
  it or past it, although the code only counts (`Lockstep`).
* *Streams.* A rank waits for its stream before each meeting, hence a kernel that has not
  ended is of the last meeting of its rank or of a call after it (`Placed`). From both it
  follows that while a kernel reads, no kernel that loads, evicts or trains is on the
  stream of a rank whose lines it reads (`Apart`), and that no rank has begun the next call
  that could launch one (`NoLater`). Here the assumption about the application comes in,
  for reads of a shared cache without an exchange.
* *Contents.* A line that is not modified is a copy of the raw embedding (`Lines`), so
  updates, evictions and write-backs change no row. For each entry there is a number such that
  its row is what the steps before that call made of it, and these steps are those that have
  written it (`Values`): steps write an entry in the order of the calls because one rank owns
  it. When a later gather reads the entry, all steps before it have written and none after it
  has (`Fresh`).
* *History.* A tag that has been loaded still names what is in the line, and the rows read are
  right (`Readers`), while the kernel runs and then in what it sends and returns (`Results`). A
  rank that has run the kernels of a write-back does not modify its line again before its next
  step, for which it has to meet the others (`Clean`).

The refinement adds what is due: the entries of the last step from which some rank has
returned that are not yet written. When a rank returns from a step, nothing of an earlier one is
due, at any rank (`NoneDue`), as all ranks have waited for their streams before the exchange; so
steps of the table never overlap although kernels of different ranks do. Assumptions: each
entry has an owner, and the mark of an empty line is not an entry (`OwnerAssumption`); the kinds
are those of the code (`KindsAssumption`); batches name entries (`BatchesAssumption`); the bound
on the program is a number (`MaxOpsAssumption`).

The properties of the runs that are proved too are `ChoosesLeastFreeId`, `MapsAgree`,
`DirsMatch`, `NoAbort` of `Communicator`, `Coherent`,
`ImplementsTable`, `WriteBackSettles`, `EstimateTight` and `KeepsHottest` of `CacheSet`,
`GatherSeesSteps`, `RawSettled` and `ImplementsTable` of `CachedEmbedding`,
`CountsMatch`, `GatherSeesScatters`, `KeysDistinct`, `AppendsUnique`,
`RowsOfRank`, `CopiedToPlace`, `LoadedOnReturn`, `BytesInPlace`, `UsableWhileHeld`, `ReleasedLast`,
`NothingLeft`, `NoAbort` of `MemoryHandle`, `MemoryOfItsOwn`, `CountsOwned`, `Delivered`, `RowsMoved`; for tables in whose
offsets the guess stays, `AssertHolds`.

**Only model-checked**: the properties that calls return, loops and searches end (liveness
is beyond the prover), and all properties of `OptimizerStates` and the two sampling modules.

The provers cannot use an induction theorem that takes a predicate. Where induction over a
set is needed after all, the proof looks at the least number at which the claim fails
(`LeastElement` of a set), which needs no such theorem: so for sums over sets
(`NaturalLemmas`), the powers of two of the counters, which are a recursive function
(`PowersExist`), and sequences put one after the other (`ChainExists`).

## Findings

1. `dest_rank` (`bucket_ids_func.cu:26-27`) caps its first guess with
   `max(world_size - 1, ...)`, where `min` was meant. For tables with at least W * W
   entries this costs only a longer search: `OwnerFound` proves that the answer is right.
   For smaller ones the guess can be past W, `offsets[guess]` is read past the array and
   the search can return a rank that does not exist; the assertion at line 64 of the
   kernel says it does not. Run `id_buckets_assert` shows it, for instance with offsets
   0, 1, 2, 3, 7 of four ranks and index 6, where `total / W` is 1 and the guess is 6; the
   equal partition 0, 2, 4, 6, 7 has the same total and fails in the same way.
2. The share of a thread of a contiguous part (`file_io.cpp:721-732`, and `1346-1348` for
   direct IO) is a difference of `size_t`. With `WG_LOAD_THREADS_PER_RANK` threads and
   fewer rows than about the square of them, the last threads can start behind the part
   (5 rows, 4 threads); the difference wraps around, the test `<= 0` does not see it, and
   the thread loads entries of the next rank behind the memory of its own. Run
   `file_windows`.
3. `storage_index2wg_embedding_index` (`map_indices_func.cu:28-30`) computes the rank that
   owns an entry of a round robin embedding and does not use it: an entry of another rank
   is looked up in the part of the rank that calls. Run `file_index`; that a rank finds its
   own entries is part of `CopiedToPlace`, and `StoredInPlace` proves that it finds no others.
4. Weighted samples of more than 256: a node with no more neighbors than asked for has no
   segment in the buffer of keys (`weighted_sample_without_replacement_func.cuh:179-182`),
   but `generate_weighted_keys_and_idxs_kernel` stores its weights all the same (line 93), at
   the start of the next node's segment or behind the buffer. Weights are greater than any
   key, so the next node can sample wrong neighbors, some of them twice. Run
   `weighted_sampling`; the run `kernels` has the batches in which that cannot happen.
5. `create_optimizer_states` (`embedding.cpp:329`) gives the tensor of each cachable state
   `sizes[1]` rows, the columns of the embedding, where `sizes[0]`, its entries, was meant.
   What `get_optimizer_state` returns does not cover the states. Steps are not affected
   (`StatesOfEntry`). Run `optimizer_state`.

## What is not modelled

* Crashes: no part of the code recovers from one. Directories and segments left by a
  dead process are listed as a hazard.
* Threads within a process (but those of a load and of temporary memory), and several
  streams of a rank.
* Failure of one rank inside a collective: the code aborts, the others stay in NCCL.
* Arithmetic on rows and the computation of weighted keys; conversions between types; random
  number generators.
* Multi-node NVLink handles, the map of address ranges, NVSHMEM, tables with fewer entries than
  ranks (the guess of the owner divides by zero).
* Host all-gathers, gathers and all-to-alls of data longer than the buffer: the code passes the
  whole count for each piece, and has no caller with so much.
* Scatters whose input starts at an address that is not a multiple of 16 bytes and has an
  offset as well: what the hardware does with such a vector is undefined.
* `csr_add_self_loop`, `store_handle_to_file`, weighted sampling of distributed graphs,
  reference counts of tensors, which are sequential code with one path each; samples of more than
  1024 from a distributed graph, for which
  `unweighted_sample_without_replacement_nccl_func.cuh:346` indexes an array of 32 functions
  past its end.
* The Python packages, the tests and the benchmarks.

## Plan

Done, in this order: IdNegotiation, CacheSet, Communicator, MemoryHandle, IdBuckets,
DistributedTable, CachedEmbedding, the three modules about files, AppendUnique and the
proofs above; then the sampling modules, HostCollectives, TempMemory, OptimizerStates,
GatherScatter, device memory with ranks that have no page, and the two kernels of a
read-only gather. Next, in order of weight:

1. Proofs: what was sampled is what one thread after the other would sample
   (`SampledAsInTurn`), and steps update the states of their entries (`StatesOfEntry`).
2. Extensions: `Communicator` with two threads per process; `MemoryHandle` with partition
   arguments that differ between the ranks and the initial clearing of memory; `FileLoad`
   with a file that is missing at one rank, and storing.
3. Reference counts of root tensors; weighted sampling of distributed graphs.
