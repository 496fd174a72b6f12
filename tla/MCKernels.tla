------------------------------ MODULE MCKernels ------------------------------
(* Kernels that share nothing: AppendUnique, IdBuckets, SampleUnweighted,    *)
(* SampleWeighted and GatherScatter.  A behaviour runs one of them, on one   *)
(* of many inputs; the others rest on one small input.                       *)
EXTENDS AppendUnique, IdBuckets, GatherScatter

VARIABLES
  kernel,                                            \* the one that runs
  u_call, u_stage, u_rows, u_offsets, u_drawn, u_todo, u_slots, u_late, u_edges,
  u_dest,                                            \* SampleUnweighted
  w_call, w_stage, w_offsets, w_neighbor_offset, w_random_key, w_unstored, w_keys,
  w_idxs, w_todo, w_edges                            \* SampleWeighted

unweightedVars ==
  <<u_call, u_stage, u_rows, u_offsets, u_drawn, u_todo, u_slots, u_late, u_edges, u_dest>>
weightedVars ==
  <<w_call, w_stage, w_offsets, w_neighbor_offset, w_random_key, w_unstored, w_keys, w_idxs,
    w_todo, w_edges>>

-----------------------------------------------------------------------------
\* Three keys that all fall into one bucket of two slots, or two of them; keys that
\* are named twice, among the targets, the neighbors, or both.
MCKey == {10, 20, 30}

MCInputs ==
  [targets : {<<10>>, <<10, 20>>, <<20, 20>>},
   neighbors : {<<20, 20, 30>>, <<30, 10, 20>>, <<20, 30>>},
   hash : {[k \in MCKey |-> 1], [k \in MCKey |-> k \div 20]}]

SmallInput == [targets |-> <<10>>, neighbors |-> <<20, 30>>, hash |-> [k \in MCKey |-> 1]]

\* Partitions of up to 7 entries among up to 4 ranks for which the guess of the owner
\* stays in range: all that a caller may give, and the equal ones.
Given(total, W) == {offsets \in [0 .. W -> 0 .. total] :
                      /\ offsets[0] = 0 /\ offsets[W] = total
                      /\ \A r \in 0 .. W - 1 : offsets[r] < offsets[r + 1]}

MCTables ==
  {t \in UNION {{[world_size |-> W, offsets |-> offsets] :
                   offsets \in Given(total, W) \cup {EqualPartition(total, W)}}
                : <<total, W>> \in (1 .. 7) \X (1 .. 4)} :
     GuessInRange(t.offsets, t.world_size)}

MCAnyRank == {}

SmallTable == [world_size |-> 1, offsets |-> [r \in 0 .. 1 |-> r]]

-----------------------------------------------------------------------------
\* Nodes of degree 4, 0, 2, 6 and 0; samples up to 4 take the sorting kernel.
MCRowPtr == [n \in 0 .. 5 |-> <<0, 4, 4, 6, 12, 12>>[n + 1]]
MCColumn == [e \in 0 .. 11 |-> 100 + ((e * 5) % 4)]

In(row, column) == [row |-> row, column |-> column]
Mapped          == In("none", "continuous")
Distributed     == In("distributed", "distributed")

SmallCall == [nodes |-> <<1>>, max |-> 0, memory |-> Mapped]

MCCalls ==
  [nodes : {<<2, 0>>, <<1, 3, 2>>}, max : {0, 1, 3, 4, 5}, memory : {Mapped}]
  \cup [nodes : {<<2, 0>>, <<3, 1, 2>>}, max : {0, 2, 4}, memory : {Distributed}]
  \cup [nodes : {<<2, 0>>}, max : {2},
         memory : {In("distributed", "none"), In("continuous", "chunked")}]
  \cup {SmallCall}

Unweighted == INSTANCE SampleUnweighted WITH
  RowPtr <- MCRowPtr, Column <- MCColumn, Calls <- MCCalls, LargeOver <- 4,
  call <- u_call, stage <- u_stage, rows <- u_rows, offsets <- u_offsets, drawn <- u_drawn,
  todo <- u_todo, slots <- u_slots, late <- u_late, edges <- u_edges, dest <- u_dest

\* Nodes of degree 4, 0, 2 and 3; samples of more than 2 are sorted by segments, and
\* then every node has a segment, or no neighbor at all.
MCWeightedRowPtr == [n \in 0 .. 4 |-> <<0, 4, 4, 6, 9>>[n + 1]]

SmallWeighted == [nodes |-> <<1>>, max |-> 0, memory |-> {"none"}]

MCWeightedCalls ==
  {c \in [nodes : {<<0, 1>>, <<2, 1, 3>>, <<1, 3, 3>>, <<3, 2>>}, max : 0 .. 4,
          memory : {{"continuous"}}] :
     \/ c.max <= 2
     \/ \A i \in DOMAIN c.nodes :
          MCWeightedRowPtr[c.nodes[i] + 1] - MCWeightedRowPtr[c.nodes[i]] \notin 1 .. c.max}
  \cup [nodes : {<<0, 1>>}, max : {1}, memory : {{"none", "distributed"}}]
  \cup {SmallWeighted}

Weighted == INSTANCE SampleWeighted WITH
  RowPtr <- MCWeightedRowPtr, Calls <- MCWeightedCalls, Threshold <- 2,
  call <- w_call, stage <- w_stage, offsets <- w_offsets,
  neighbor_offset <- w_neighbor_offset, random_key <- w_random_key,
  unstored <- w_unstored, keys <- w_keys, idxs <- w_idxs,  todo <- w_todo, edges <- w_edges

-----------------------------------------------------------------------------
\* Vectors of 4 bytes, warps of 4 lanes, and shares of 4 bytes for a gather, of 16 for a scatter.
Tensor(elt, base, offset, stride, rows) ==
  [elt |-> elt, base |-> base, offset |-> offset, stride |-> stride, rows |-> rows]
Job(op, host, size, tensor, io, ids, blocks) ==
  [op |-> op, host |-> host, size |-> size, table |-> tensor, io |-> io,
   indices |-> ids, blocks |-> blocks]

SmallJob == Job("gather", FALSE, 1, Tensor(1, 0, 0, 1, 1), Tensor(1, 0, 0, 1, 0), <<>>, 1)

\* Rows that are moved by vectors, by parts of warps, one by one; that fit into a
\* share, or just do not; slices of columns, at any offset; batches with padding and
\* duplicates; more rows than groups.
MCJobs ==
  {Job("gather", host, 4, Tensor(1, 0, 0, 4, 3), Tensor(1, 0, 0, 4, 0), indices, 1) :
     host \in BOOLEAN, indices \in {<<2, -1, 0>>, <<1, 0, 1>>}}
  \cup {Job("gather", FALSE, 2, Tensor(2, 0, 0, 4, 2), Tensor(1, 0, 2, 4, 0), <<1, 0, 1>>, 1),
        Job("gather", TRUE, 3, Tensor(1, 0, 1, 4, 2), Tensor(1, 1, 0, 3, 0), <<1, -1, 0, 0, 1>>, 1),
        Job("gather", FALSE, 4, Tensor(1, 0, 1, 5, 2), Tensor(1, 0, 0, 4, 0), <<1, 0, -1, 1>>, 1),
        Job("gather", TRUE, 5, Tensor(1, 0, 0, 5, 2), Tensor(1, 0, 0, 5, 0), <<1, 0>>, 1),
        Job("scatter", FALSE, 5, Tensor(1, 0, 0, 5, 3), Tensor(1, 0, 3, 5, 0),
            <<0, -1, 2, 1, 0>>, 1),
        Job("scatter", FALSE, 4, Tensor(1, 0, 0, 4, 3), Tensor(2, 0, 2, 4, 0), <<0, 2, 1>>, 2),
        Job("scatter", FALSE, 2, Tensor(1, 0, 0, 2, 2), Tensor(4, 0, 0, 2, 0), <<1, 1, 0>>, 1),
        Job("scatter", FALSE, 4, Tensor(1, 0, 0, 4, 2), Tensor(1, 0, 4, 13, 0), <<1, 0, 1>>, 1)}
  \cup {SmallJob}

-----------------------------------------------------------------------------
MCInit ==
  /\ kernel \in {"append_unique", "buckets", "unweighted", "weighted", "rows"}
  /\ \/ kernel = "append_unique"
     \/ /\ targets = SmallInput.targets /\ neighbors = SmallInput.neighbors
        /\ hash = SmallInput.hash /\ mapping = <<>>
  /\ Init
  /\ kernel = "buckets" \/ (partition = SmallTable /\ bucket_indices = <<>>)
  /\ BucketInit
  /\ kernel = "unweighted" \/ u_call = SmallCall
  /\ Unweighted!Init
  /\ kernel = "weighted" \/ w_call = SmallWeighted
  /\ Weighted!Init
  /\ kernel = "rows" \/ job = SmallJob
  /\ RowsInit

MCNext ==
  \/ /\ kernel = "append_unique" /\ Next
     /\ UNCHANGED <<kernel, bucketVars, unweightedVars, weightedVars, rowVars>>
  \/ /\ kernel = "buckets" /\ BucketNext
     /\ UNCHANGED <<kernel, vars, unweightedVars, weightedVars, rowVars>>
  \/ /\ kernel = "unweighted" /\ Unweighted!Next
     /\ UNCHANGED <<kernel, vars, bucketVars, weightedVars, rowVars>>
  \/ /\ kernel = "weighted" /\ Weighted!Next
     /\ UNCHANGED <<kernel, vars, bucketVars, unweightedVars, rowVars>>
  \/ /\ kernel = "rows" /\ RowsNext
     /\ UNCHANGED <<kernel, vars, bucketVars, unweightedVars, weightedVars>>

allVars == <<kernel, vars, bucketVars, unweightedVars, weightedVars, rowVars>>

MCSpec ==
  /\ MCInit /\ [][MCNext]_allVars
  /\ WF_allVars(kernel = "append_unique" /\ Kernels
                /\ UNCHANGED <<kernel, bucketVars, unweightedVars, weightedVars, rowVars>>)

\* The threads sample what the chains of the algorithm name; see SampleUnweighted.
SampledAsInTurn == Unweighted!SampledAsInTurn
\* The neighbors of the greatest keys are sampled; see SampleWeighted.
HeaviestSampled == Weighted!HeaviestSampled
\* Every search of append_unique ends.
SearchesEnd == kernel = "append_unique" => CallEnds
=============================================================================
