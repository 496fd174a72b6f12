--------------------------- MODULE OptimizerStates ---------------------------
(***************************************************************************)
(* The tensors an embedding is trained with.  The embedding is a           *)
(* sub-tensor of a padded allocation, divided among the ranks.  Setting an *)
(* optimizer creates a second embedding whose rows hold what the optimizer *)
(* keeps for each element (m and v of Adam) side by side, a tensor of what *)
(* it keeps for each entry (the powers of the betas), and, when the        *)
(* embedding is cached, a second cache.  Tensors address all these by      *)
(* descriptions, the kernels of a step by arithmetic of their own.         *)
(*                                                                         *)
(* The arithmetic of the optimizers is data: an element holds how many     *)
(* steps it has seen.  An address counts elements from the start of the    *)
(* memory of all ranks.                                                    *)
(***************************************************************************)
EXTENDS Integers, Sequences, FiniteSets, FiniteSetsExt, Functions, TLC

CONSTANTS
  Tables,    \* embeddings: entries, dim, dtype, ranks, partition (empty: equal),
             \* robin (round_robin_size) and coverage (of a cache set; 0: no cache)
  MaxCalls,  \* bound on gathers, steps, write-backs and drops
  MaxBatch,  \* bound on the entries of a step
  SetSize,   \* lines of a cache set (the code has 32)
  SizeRange, \* the number of values of size_t
  Unset      \* what is in memory before it is initialised

VARIABLES
  table,     \* the embedding
  optimizer, \* the optimizer set, or none
  status,    \* of the states: none, refused, created, ready or aborted
  tensors,   \* the tensors created so far, by name
  cleared,   \* the ranks that have initialised their part of the states
  store,     \* store[h] of the embedding, its states and powers: raw, the table by
             \* address; lines, the rows in the cache; modified, which of them differ
  last,      \* the last call
  calls,     \* how many there were
  steps      \* steps[i]: how many steps entry i has seen

vars == <<table, optimizer, status, tensors, cleared, store, last, calls, steps>>

P == INSTANCE EntryPartition WITH AnyRank <- {}
RoundUp(n, unit) == unit * P!Ceiling(n, unit)

ElementSize(dtype) == IF dtype = "half" THEN 2 ELSE 4

\* align_embedding_dim, pad_last_dim: rows start at multiples of 16 bytes.
AlignedDim(dim, dtype) == RoundUp(dim, 16 \div ElementSize(dtype))

\* set_shard_method: a round robin table has room at each rank for as much as falls to
\* the first one.
ShardedEntries(t) ==
  LET round == t.ranks * t.robin
  IN  IF t.robin = 0 THEN t.entries
      ELSE t.ranks * ((t.entries \div round) * t.robin + P!Lesser(t.entries % round, t.robin))

\* get_embedding_requirement: a cached table has whole sets at each rank.
PaddedEntries(t, entries) ==
  IF t.coverage = 0 THEN entries ELSE RoundUp(entries, t.ranks * t.coverage)

-----------------------------------------------------------------------------
(* Tensors: part is the partition of the memory, the rest the description. *)
CreateTensor(t, entries, stride, partition) ==
  [entries |-> entries, dim |-> stride, stride |-> stride, offset |-> 0,
   part |-> IF partition = <<>> THEN P!EqualPartition(entries, t.ranks)
            ELSE [r \in 0 .. t.ranks |-> SumFunctionOnSet(partition, 1 .. r)]]

SubTensor(x, starts, ends) ==
  LET from == [i \in 1 .. 2 |-> IF starts[i] = -1 THEN 0 ELSE starts[i]]
      to   == [i \in 1 .. 2 |-> IF ends[i] # -1 THEN ends[i]
                                ELSE IF i = 1 THEN x.entries ELSE x.dim]
  IN  [x EXCEPT !.offset = @ + from[1] * x.stride + from[2],
                !.entries = to[1] - from[1], !.dim = to[2] - from[2]]

\* get_entry_partition_sizes, get_local_entry_start
PartitionSizes(t, x) == [r \in 1 .. t.ranks |-> x.part[r] - x.part[r - 1]]
LocalStart(x, r) == x.part[r]

\* map_local_tensor.  The difference wraps around when the tensor ends before the part
\* of the rank.
LocalTensor(x, r) ==
  [x EXCEPT !.entries = P!Lesser(x.part[r + 1] - x.part[r], (@ - x.part[r]) % SizeRange)]

\* get_data_pointer of the local tensor
LocalPointer(x, r) == LocalStart(x, r) * x.stride + x.offset

\* Where the description of a tensor says that an element is.
Address(x, i, d) == x.offset + i * x.stride + d

\* create_embedding: the allocation of an embedding; the partition asked for is not for
\* cached ones.
Allocated(t, entries, dim, dtype, partition) ==
  CreateTensor(t, PaddedEntries(t, entries), AlignedDim(dim, dtype),
               IF t.coverage = 0 THEN partition ELSE <<>>)

EmbeddingTensors(t) ==
  LET allocated == Allocated(t, ShardedEntries(t), t.dim, t.dtype, t.partition)
  IN  [allocated |-> allocated,
       embedding |-> SubTensor(allocated, <<0, 0>>, <<ShardedEntries(t), t.dim>>)]

-----------------------------------------------------------------------------
(* The optimizers.                                                         *)
Optimizers == {"SGD", "LazyAdam", "AdaGrad", "RMSProp"}

CachableStates(o) == CASE o = "LazyAdam" -> <<"m", "v">>
                       [] o = "AdaGrad"  -> <<"state_sum">>
                       [] o = "RMSProp"  -> <<"v">>
                       [] OTHER          -> <<>>

\* beta12t
PowerDim(o) == IF o = "LazyAdam" THEN 2 ELSE 0

\* The columns of a state; they are aligned for the type of the embedding.
StateDim == AlignedDim(table.dim, table.dtype)

\* Mutant of StatePartition: the equal one.
StatePartitionEqual == <<>>

StatePartition == PartitionSizes(table, tensors.embedding)

StateTensors(o) ==
  LET user == tensors.embedding
      columns == StateDim * Len(CachableStates(o))
      powers == CreateTensor(table, tensors.allocated.entries, PowerDim(o),
                             PartitionSizes(table, tensors.allocated))
  IN  [states |-> SubTensor(Allocated(table, user.entries, columns, "float", StatePartition),
                            <<0, 0>>, <<user.entries, columns>>),
       powers |-> SubTensor(powers, <<0, 0>>, <<user.entries, PowerDim(o)>>)]

\* get_optimizer_state.  The end of its entries is the number of columns of the embedding.
StateTensor(k) ==
  SubTensor(tensors.states, <<0, (k - 1) * StateDim>>,
            <<tensors.embedding.dim, (k - 1) * StateDim + table.dim>>)

\* create_wholegraph refuses a partition in which a rank has nothing, and the equal one
\* of few entries is such a one.
StatesAccepted(o) ==
  CachableStates(o) = <<>> \/ table.coverage > 0 \/ \A n \in Range(StatePartition) : n > 0

Rank == 0 .. table.ranks - 1

\* Memory of a tensor of which nothing is cached.
Filled(entries, x, value) ==
  [raw |-> [a \in 0 .. entries * x.stride - 1 |-> value], lines |-> <<>>, modified |-> {}]

Init ==
  /\ table \in Tables
  /\ optimizer = "none" /\ status = "none" /\ cleared = {}
  /\ tensors = EmbeddingTensors(table)
  /\ store = [embedding |-> Filled(tensors.allocated.entries, tensors.embedding, 0)]
  /\ last = "create" /\ calls = 0
  /\ steps = [i \in 0 .. tensors.embedding.entries - 1 |-> 0]

\* It can be set once, even if it is refused.
SetOptimizer ==
  /\ optimizer = "none"
  /\ optimizer' \in Optimizers
  /\ IF table.dtype \in {"float", "half"} /\ StatesAccepted(optimizer')
     THEN LET made == StateTensors(optimizer')
              used == {h \in DOMAIN made : made[h].dim > 0}
          IN  /\ status' = "created"
              /\ tensors' = tensors @@ Restrict(made, used)
              /\ store' = store @@ [h \in used |->
                                      Filled(tensors.allocated.entries, made[h], Unset)]
     ELSE status' = "refused" /\ UNCHANGED <<tensors, store>>
  /\ last' = "set_optimizer"
  /\ UNCHANGED <<table, cleared, calls, steps>>

\* All elements of what a rank has of a tensor, padding included.
LocalElements(x, r) ==
  LET local == LocalTensor(x, r)
  IN  LocalPointer(local, r) .. LocalPointer(local, r) + local.entries * local.stride - 1

\* init_optimizer_states at rank r
ClearStates(r) ==
  /\ status = "created" /\ r \notin cleared
  /\ cleared' = cleared \cup {r}
  /\ store' = [h \in DOMAIN store |-> IF h = "embedding" THEN store[h] ELSE
       [store[h] EXCEPT !.raw =
          [a \in DOMAIN @ |-> IF a \in LocalElements(tensors[h], r) THEN 0 ELSE @[a]]]]
  /\ UNCHANGED <<table, optimizer, status, tensors, last, calls, steps>>

\* The barrier behind it.
StatesReady ==
  /\ status = "created" /\ cleared = Rank
  /\ status' = "ready"
  /\ UNCHANGED <<table, optimizer, tensors, cleared, store, last, calls, steps>>

-----------------------------------------------------------------------------
(* The caches of the embedding and of its states.                          *)
Cached == IF table.coverage = 0 THEN {} ELSE DOMAIN store \ {"powers"}

Row(x, i) == Address(x, i, 0) .. Address(x, i, x.stride - 1)

\* The table once the given rows are copied back from their lines.
WithRows(x, s, rows) ==
  [a \in DOMAIN s.raw |->
     IF \E i \in rows : a \in Row(x, i)
     THEN LET i == CHOOSE i \in rows : a \in Row(x, i) IN s.lines[i][a - Address(x, i, 0)]
     ELSE s.raw[a]]

\* The parts of the ranks are whole sets.
SetOf(i) == i \div table.coverage

\* update_cache_direct_same_comm: the sets of the batch choose among their lines and the
\* batch; what they give up is copied back, what is new is copied in.
Updates(x, s, batch) ==
  LET old == DOMAIN s.lines
      touched == {SetOf(i) : i \in batch}
      choices == {kept \in SUBSET (old \cup batch) :
                    /\ \A n \in touched : Cardinality({i \in kept : SetOf(i) = n}) <= SetSize
                    /\ \A i \in old : SetOf(i) \in touched \/ i \in kept}
      line(i) == [c \in 0 .. x.stride - 1 |-> s.raw[Address(x, i, c)]]
  IN  {[raw |-> WithRows(x, s, s.modified \ kept),
        lines |-> [i \in kept |-> IF i \in old THEN s.lines[i] ELSE line(i)],
        modified |-> s.modified \cap kept] : kept \in choices}

\* writeback_cache_direct_same_comm
Settled(x, s, drop) ==
  [raw |-> WithRows(x, s, s.modified), lines |-> IF drop THEN <<>> ELSE s.lines, modified |-> {}]

-----------------------------------------------------------------------------
Call(name) == calls < MaxCalls /\ calls' = calls + 1 /\ last' = name

\* gather adjusts the cache of the embedding alone.
Gather ==
  /\ status \in {"none", "ready"} /\ Cached # {} /\ Call("gather")
  /\ \E i \in DOMAIN steps : \E s \in Updates(tensors.embedding, store.embedding, {i}) :
       store' = [store EXCEPT !.embedding = s]
  /\ UNCHANGED <<table, optimizer, status, tensors, cleared, steps>>

\* Mutant of LazyAdamStep: v directly behind m.
LazyAdamStepPacked(stride, dims) ==
  [count |-> 2, columns |-> dims \cup {table.dim + d : d \in dims}]

\* What the steps of the optimizers count on: how many states an element has in a row
\* of states, and the columns of such a row that the kernel changes.  Dims are the
\* columns of the embedding, stride is the distance of its rows.
SGDStep(stride, dims)      == [count |-> 0, columns |-> {}]
LazyAdamStep(stride, dims) == [count |-> 2, columns |-> dims \cup {stride + d : d \in dims}]
AdaGradStep(stride, dims)  == [count |-> 1, columns |-> dims]
RMSPropStep(stride, dims)  == [count |-> 1, columns |-> dims]

StepOf(stride, dims) ==
  CASE optimizer = "SGD"      -> SGDStep(stride, dims)
    [] optimizer = "LazyAdam" -> LazyAdamStep(stride, dims)
    [] optimizer = "AdaGrad"  -> AdaGradStep(stride, dims)
    [] optimizer = "RMSProp"  -> RMSPropStep(stride, dims)

\* The kernel of a step sees the rows of the embedding, of its states and of the powers.
Kernel ==
  LET stride == tensors.embedding.stride
      dims   == 0 .. table.dim - 1
      step   == StepOf(stride, dims)
  IN  [stride  |-> [embedding |-> stride, states |-> step.count * stride, powers |-> 2],
       columns |-> [embedding |-> dims, states |-> step.columns, powers |-> 0 .. 1]]

\* check_optimizer_inputs at rank r; the tags of the cache are those of its sets.
InputsFit(r) ==
  LET local == LocalTensor(tensors.embedding, r)
      sets  == tensors.allocated.entries \div (table.coverage * table.ranks)
  IN  /\ local.stride = AlignedDim(table.dim, table.dtype)
      /\ table.coverage > 0 => sets * table.coverage >= local.entries
      /\ "states" \in DOMAIN store =>
           LET states == LocalTensor(tensors.states, r)
           IN  states.entries = local.entries /\ states.dim = Kernel.stride.states

\* lazy_adam_optimizer_step checks the powers too.
PowersFit(r) ==
  "powers" \in DOMAIN store =>
    LET powers == LocalTensor(tensors.powers, r)
    IN  powers.dim = 2 /\ powers.entries = LocalTensor(tensors.embedding, r).entries

Owner(i) == CHOOSE r \in Rank : P!Owns(tensors.allocated.part, r, i)

\* The row of entry i in the memory of its rank, as the kernels compute it.
KernelRow(h, i) ==
  LET r == Owner(i)
  IN  {LocalPointer(tensors[h], r) + (i - LocalStart(tensors.allocated, r)) * Kernel.stride[h] + c :
         c \in Kernel.columns[h]}

\* The kernels of a step; optimizer_get_ptr_from_cache finds a cached row in its line.
Stepped(h, s, batch) ==
  LET raw == UNION {KernelRow(h, i) : i \in batch \ DOMAIN s.lines}
  IN  [raw |-> [a \in DOMAIN s.raw |-> s.raw[a] + (IF a \in raw THEN 1 ELSE 0)],
       lines |-> [i \in DOMAIN s.lines |-> [c \in DOMAIN s.lines[i] |->
                    s.lines[i][c] + (IF i \in batch /\ c \in Kernel.columns[h] THEN 1 ELSE 0)]],
       modified |-> s.modified \cup (batch \cap DOMAIN s.lines)]

\* Of the batch each rank steps the entries of its part.
Apply(batch, adjust) ==
  LET adjusted(h) == IF adjust /\ h \in Cached THEN Updates(tensors[h], store[h], batch)
                     ELSE IF h \in DOMAIN store THEN {store[h]} ELSE {<<>>}
  IN  /\ \E e \in adjusted("embedding"), s \in adjusted("states") :
           store' = [h \in DOMAIN store |->
                       Stepped(h, CASE h = "embedding" -> e [] h = "states" -> s
                                    [] OTHER -> store[h], batch)]
      /\ steps' = [i \in DOMAIN steps |-> steps[i] + (IF i \in batch THEN 1 ELSE 0)]

\* gather_gradient_apply.  A check that fails ends the process.
Step ==
  /\ status = "ready" /\ Call("step")
  /\ IF \A r \in Rank : InputsFit(r) /\ PowersFit(r)
     THEN /\ UNCHANGED status
          /\ \E batch \in UNION {kSubset(n, DOMAIN steps) : n \in 1 .. MaxBatch} :
               \E adjust \in BOOLEAN : Apply(batch, adjust)
     ELSE status' = "aborted" /\ UNCHANGED <<store, steps>>
  /\ UNCHANGED <<table, optimizer, tensors, cleared>>

\* Mutant of InCaches: the cache of the embedding alone.
InCachesOfEmbedding == {"embedding"} \cap Cached

\* The caches that writeback_all_caches and drop_all_caches go through.
InCaches == Cached

WriteBackAll(drop) ==
  /\ status \in {"none", "ready"} /\ Call(IF drop THEN "drop" ELSE "writeback")
  /\ store' = [h \in DOMAIN store |->
                 IF h \in InCaches THEN Settled(tensors[h], store[h], drop) ELSE store[h]]
  /\ UNCHANGED <<table, optimizer, status, tensors, cleared, steps>>

Done ==
  /\ calls = MaxCalls \/ status \in {"refused", "aborted"}
  /\ UNCHANGED vars

Next ==
  \/ SetOptimizer \/ StatesReady \/ Gather \/ Step \/ Done
  \/ \E r \in Rank : ClearStates(r)
  \/ \E drop \in BOOLEAN : WriteBackAll(drop)

Spec == Init /\ [][Next]_vars

-----------------------------------------------------------------------------
\* No training step is stopped by the checks on its tensors: whatever the widths and
\* types, the partition, the padding of the cache and the rounds of the shards, the parts
\* that each rank maps of the embedding and of the states have the same entries and the
\* widths that the kernels compute for them.
StepsAccepted == status # "aborted"

\* What a tensor shows of an element, by its description, and with the cache.
Shown(x, s, i, c) ==
  IF i \in DOMAIN s.lines THEN s.lines[i][x.offset + c] ELSE s.raw[Address(x, i, c)]

\* Each entry has states of its own: embedding, states and powers of the entry, found
\* through their tensors and caches, have all seen the steps of that entry and nothing
\* else, in every column of the embedding.
StatesOfEntry ==
  status = "ready" => \A i \in DOMAIN steps :
    /\ \A d \in 0 .. table.dim - 1 :
         /\ Shown(tensors.embedding, store.embedding, i, d) = steps[i]
         /\ \A k \in DOMAIN CachableStates(optimizer) :
              Shown(StateTensor(k), store.states, i, d) = steps[i]
    /\ "powers" \in DOMAIN store =>
         \A c \in 0 .. 1 : Shown(tensors.powers, store.powers, i, c) = steps[i]

\* After a write-back or a drop the tables alone, of the embedding and of its states,
\* are up to date, as a checkpoint of both needs.
CheckpointComplete ==
  last \in {"writeback", "drop"} /\ status = "ready" =>
    \A i \in DOMAIN steps : \A d \in 0 .. table.dim - 1 :
      /\ store.embedding.raw[Address(tensors.embedding, i, d)] = steps[i]
      /\ \A k \in DOMAIN CachableStates(optimizer) :
           store.states.raw[Address(StateTensor(k), i, d)] = steps[i]

\* "Per element optimizer states" (embedding_optimizer.hpp:38): the tensor of a state
\* has a row for each entry of the embedding.
StatesCoverEntries ==
  status = "ready" => \A k \in DOMAIN CachableStates(optimizer) :
    StateTensor(k).entries = tensors.embedding.entries
=============================================================================
