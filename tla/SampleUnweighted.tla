-------------------------- MODULE SampleUnweighted --------------------------
(***************************************************************************)
(* Unweighted sampling of neighbors: for a batch of nodes of a CSR graph,  *)
(* up to max of the edges of each, without repetition.  The offsets of the *)
(* output are a prefix sum of the counts; then one block of threads works  *)
(* on each node.  Three kernels: one that sorts the random numbers and     *)
(* follows chains of replaced positions, one for large samples whose       *)
(* threads replace positions with atomics, and a copy of the first for     *)
(* graphs that are distributed, where row pointers and columns are         *)
(* gathered before and after.                                              *)
(*                                                                         *)
(* Edge e of the graph leads to the node Column[e].  Random numbers are    *)
(* choices: a run draws any of the numbers a thread reduces its to.        *)
(***************************************************************************)
EXTENDS Integers, Sequences, FiniteSets, FiniteSetsExt, Functions

CONSTANTS
  RowPtr,    \* RowPtr[n]: the first edge of node n; a function on 0 .. nodes
  Column,    \* the node each edge leads to
  Calls,     \* records of nodes (a sequence), max, and memory: where row pointers and
             \* columns are, none for arrays of the process, else the type of the handle
  LargeOver  \* samples larger than this take the kernel with atomics (1024)

VARIABLES
  call,      \* the call
  stage,     \* what runs on the stream
  rows,      \* nccl: the gathered row pointers, in the order of the doubled list
  offsets,   \* output_sample_offset
  drawn,     \* drawn[i]: the random numbers of the block of node i, if any
  todo,      \* the nodes whose block has not started
  slots,     \* slots[i]: the positions a block with atomics holds in its output
  late,      \* late[i]: the neighbors it has still to consider
  edges,     \* the sampled edges, output_edge_gid
  dest       \* the sampled neighbors, output_dest_node

vars == <<call, stage, rows, offsets, drawn, todo, slots, late, edges, dest>>

Nodes        == DOMAIN call.nodes
Degree(i)    == RowPtr[call.nodes[i] + 1] - RowPtr[call.nodes[i]]
FirstEdge(i) == RowPtr[call.nodes[i]]
SmallerOf(m, n) == IF m < n THEN m ELSE n

\* What a thread of the count kernel stores; max <= 0 means all neighbors.
SampleCount(degree, max) == IF max > 0 THEN SmallerOf(degree, max) ELSE degree

ExclusiveSum(counts) ==
  [i \in 1 .. Len(counts) + 1 |-> SumFunctionOnSet(counts, 1 .. i - 1)]

\* The entry point takes the kernels for distributed arrays if both are, and those for
\* mapped arrays if all ranks can address both; it refuses the rest.
Path ==
  IF call.memory = [row |-> "distributed", column |-> "distributed"] THEN "nccl"
  ELSE IF {call.memory.row, call.memory.column} \subseteq {"none", "continuous"} THEN "mapped"
  ELSE "refused"

Init ==
  /\ call \in Calls
  /\ stage = "start"
  /\ rows = <<>> /\ offsets = <<>> /\ edges = <<>> /\ dest = <<>>
  /\ drawn = [i \in Nodes |-> <<>>]
  /\ todo = Nodes
  /\ slots = [i \in Nodes |-> <<>>]
  /\ late = [i \in Nodes |-> {}]

Refuse ==
  /\ stage = "start" /\ Path = "refused"
  /\ stage' = "refused"
  /\ UNCHANGED <<call, rows, offsets, drawn, todo, slots, late, edges, dest>>

\* The count kernel, the prefix sum, and the output allocated for it.
CountSamples ==
  /\ stage = "start" /\ Path = "mapped"
  /\ LET counts == [i \in Nodes |-> SampleCount(Degree(i), call.max)]
         sums   == ExclusiveSum(counts)
     IN  /\ offsets' = sums
         /\ edges' = [k \in 0 .. sums[Len(sums)] - 1 |-> -1]
         /\ dest' = [k \in 0 .. sums[Len(sums)] - 1 |-> -1]
  /\ stage' = "sampling"
  /\ UNCHANGED <<call, rows, drawn, todo, slots, late>>

-----------------------------------------------------------------------------
\* nccl: ExpandWithOffsetFunc lists the nodes, and then each one's successor; one
\* gather reads the row pointers of both.
ExpandWithOffset(nodes) ==
  [k \in 1 .. 2 * Len(nodes) |->
     nodes[((k - 1) % Len(nodes)) + 1] + ((k - 1) \div Len(nodes))]

GatherRows ==
  /\ stage = "start" /\ Path = "nccl"
  /\ LET list == ExpandWithOffset(call.nodes)
     IN  rows' = [k \in DOMAIN list |-> RowPtr[list[k]]]
  /\ stage' = "gathered"
  /\ UNCHANGED <<call, offsets, drawn, todo, slots, late, edges, dest>>

\* in_degree, the difference of the two halves of the list.
GatheredDegree(i) == rows[i + Len(call.nodes)] - rows[i]

ScanDegrees ==
  /\ stage = "gathered"
  /\ LET counts == [i \in Nodes |-> SampleCount(GatheredDegree(i), call.max)]
         sums   == ExclusiveSum(counts)
     IN  /\ offsets' = sums
         /\ edges' = [k \in 0 .. sums[Len(sums)] - 1 |-> -1]
         /\ dest' = [k \in 0 .. sums[Len(sums)] - 1 |-> -1]
  /\ stage' = "sampling"
  /\ UNCHANGED <<call, rows, drawn, todo, slots, late>>

-----------------------------------------------------------------------------
\* The kernel for small samples: M of N neighbors.  The random numbers r, with
\* r[k] below N - k, are sorted, equal ones by k: q is the place of k, p its
\* inverse, s the sorted numbers.
PlaceOf(r, k) == Cardinality({j \in DOMAIN r : r[j] < r[k] \/ (r[j] = r[k] /\ j < k)})

\* log2_up_device
Jumps(M) == Min({n \in 0 .. M : 2 ^ n >= M})

\* Mutant of Chains: the first of the draws of one position.
ChainsToFirst(M, N, s, p) ==
  [k \in 0 .. M - 1 |->
     LET at == {j \in 0 .. M - 1 : /\ j = 0 \/ s[j] # s[j - 1]
                                   /\ s[j] >= N - M /\ N - s[j] - 1 = k}
     IN  IF at = {} THEN k ELSE p[CHOOSE j \in at : TRUE]]

\* Draw k removes position r[k] of those left and puts the last one, N - k - 1, in
\* its place.  A chain leads from a position that was last at a draw to the draw at
\* which what it received in its place was last, and so on.
Chains(M, N, s, p) ==
  [k \in 0 .. M - 1 |->
     LET at == {j \in 0 .. M - 1 : /\ j = M - 1 \/ s[j] # s[j + 1]
                                   /\ s[j] >= N - M /\ N - s[j] - 1 = k}
     IN  IF at = {} THEN k ELSE p[CHOOSE j \in at : TRUE]]

\* All threads jump at once: chains are read from a copy.
Jumped(chain, M) ==
  LET after[n \in 0 .. Jumps(M)] ==
        IF n = 0 THEN chain
        ELSE [k \in 0 .. M - 1 |-> after[n - 1][after[n - 1][k]]]
  IN  after[Jumps(M)]

\* The positions the block samples, in the order of its output.
Positions(M, N, r) ==
  LET q == [k \in 0 .. M - 1 |-> PlaceOf(r, k)]
      p == [j \in 0 .. M - 1 |-> CHOOSE k \in 0 .. M - 1 : q[k] = j]
      s == [j \in 0 .. M - 1 |-> r[p[j]]]
      chain == Jumped(Chains(M, N, s, p), M)
  IN  [k \in 0 .. M - 1 |->
         IF k = 0 \/ q[k] = 0 \/ s[q[k]] # s[q[k] - 1] THEN s[q[k]]
         ELSE N - chain[p[q[k] - 1]] - 1]

\* What the threads of a block may draw for a small sample.
Draws(M, N) == {r \in [0 .. M - 1 -> 0 .. N - 1] : \A k \in 0 .. M - 1 : r[k] < N - k}

\* And for a large one: neighbor idx draws one of the numbers up to its own.
LargeDraws(M, N) == {r \in [M .. N - 1 -> 0 .. N - 1] : \A k \in M .. N - 1 : r[k] <= k}

\* The block of node i stores edges[i's first output + k] for each k of positions.
Output(i, first, positions) ==
  [k \in DOMAIN edges |->
     IF k - offsets[i] \in DOMAIN positions THEN first + positions[k - offsets[i]]
     ELSE edges[k]]

Looked(gids) == [k \in DOMAIN gids |-> IF gids[k] \in DOMAIN Column THEN Column[gids[k]] ELSE -1]

All(n) == [k \in 0 .. n - 1 |-> k]

-----------------------------------------------------------------------------
\* Every neighbor: sample_all_kernel, and the first lines of the other kernels.
SampleAll(i) ==
  /\ stage = "sampling" /\ Path = "mapped" /\ i \in todo
  /\ call.max <= 0 \/ Degree(i) <= call.max
  /\ todo' = todo \ {i}
  /\ edges' = Output(i, FirstEdge(i), All(Degree(i)))
  /\ dest' = Looked(edges')
  /\ UNCHANGED <<call, stage, rows, offsets, drawn, slots, late>>

SampleSmall(i) ==
  /\ stage = "sampling" /\ Path = "mapped" /\ i \in todo
  /\ call.max \in 1 .. LargeOver /\ Degree(i) > call.max
  /\ \E r \in Draws(call.max, Degree(i)) :
       /\ drawn' = [drawn EXCEPT ![i] = r]
       /\ edges' = Output(i, FirstEdge(i), Positions(call.max, Degree(i), r))
  /\ dest' = Looked(edges')
  /\ todo' = todo \ {i}
  /\ UNCHANGED <<call, stage, rows, offsets, slots, late>>

\* nccl: the same kernel, with the row pointers and degrees that were gathered; it
\* puts out edges only.  Without a maximum, it is launched with the largest integer.
SampleDistributed(i) ==
  /\ stage = "sampling" /\ Path = "nccl" /\ i \in todo
  /\ todo' = todo \ {i}
  /\ IF call.max <= 0 \/ GatheredDegree(i) <= call.max
     THEN /\ edges' = Output(i, rows[i], All(GatheredDegree(i)))
          /\ UNCHANGED drawn
     ELSE \E r \in Draws(call.max, GatheredDegree(i)) :
            /\ drawn' = [drawn EXCEPT ![i] = r]
            /\ edges' = Output(i, rows[i], Positions(call.max, GatheredDegree(i), r))
  /\ UNCHANGED <<call, stage, rows, offsets, slots, late, dest>>

\* nccl: the neighbors are gathered at the sampled edges.
GatherColumns ==
  /\ stage = "sampling" /\ Path = "nccl" /\ todo = {}
  /\ dest' = Looked(edges)
  /\ stage' = "done"
  /\ UNCHANGED <<call, rows, offsets, drawn, todo, slots, late, edges>>

-----------------------------------------------------------------------------
\* The kernel for large samples starts with the first max neighbors in the slots.
StartLarge(i) ==
  /\ stage = "sampling" /\ Path = "mapped" /\ i \in todo
  /\ call.max > LargeOver /\ Degree(i) > call.max
  /\ todo' = todo \ {i}
  /\ \E r \in LargeDraws(call.max, Degree(i)) : drawn' = [drawn EXCEPT ![i] = r]
  /\ slots' = [slots EXCEPT ![i] = All(call.max)]
  /\ late' = [late EXCEPT ![i] = call.max .. Degree(i) - 1]
  /\ UNCHANGED <<call, stage, rows, offsets, edges, dest>>

\* After a barrier of the block, its threads consider the other neighbors, in any
\* order.  Neighbor idx takes the slot its random number names, if there is one and
\* no later neighbor has it: atomicMax.
Replace(i, idx) ==
  /\ idx \in late[i]
  /\ late' = [late EXCEPT ![i] = @ \ {idx}]
  /\ LET n == drawn[i][idx]
     IN  slots' = IF n < call.max /\ slots[i][n] < idx THEN [slots EXCEPT ![i][n] = idx]
                  ELSE slots
  /\ UNCHANGED <<call, stage, rows, offsets, drawn, todo, edges, dest>>

\* After another barrier the slots are turned into edges and neighbors.
FinishLarge(i) ==
  /\ slots[i] # <<>> /\ late[i] = {}
  /\ edges' = Output(i, FirstEdge(i), slots[i])
  /\ dest' = Looked(edges')
  /\ slots' = [slots EXCEPT ![i] = <<>>]
  /\ UNCHANGED <<call, stage, rows, offsets, drawn, todo, late>>

\* The host waits for the stream.
Finish ==
  /\ stage = "sampling" /\ Path = "mapped" /\ todo = {}
  /\ \A i \in Nodes : slots[i] = <<>>
  /\ stage' = "done"
  /\ UNCHANGED <<call, rows, offsets, drawn, todo, slots, late, edges, dest>>

Block(i) ==
  \/ SampleAll(i) \/ SampleSmall(i) \/ SampleDistributed(i)
  \/ StartLarge(i) \/ FinishLarge(i) \/ \E idx \in late[i] : Replace(i, idx)

Done == stage \in {"done", "refused"} /\ UNCHANGED vars

Next ==
  \/ Refuse \/ CountSamples \/ GatherRows \/ ScanDegrees \/ GatherColumns \/ Finish \/ Done
  \/ \E i \in Nodes : Block(i)

Spec == Init /\ [][Next]_vars

-----------------------------------------------------------------------------
\* Drawing one after the other: draw k takes position r[k] of those left, and the
\* last of them moves to the place it leaves.
DrawnInTurn(M, N, r) ==
  LET left[k \in 0 .. M] ==
        IF k = 0 THEN All(N)
        ELSE [left[k - 1] EXCEPT ![r[k - 1]] = left[k - 1][N - k]]
  IN  [k \in 0 .. M - 1 |-> left[k][r[k]]]

\* A reservoir: the neighbors beyond the first M come one after the other, and each
\* replaces what is in the slot its number names.
Reservoir(M, N, r) ==
  LET holds[n \in M .. N] ==
        IF n = M THEN All(M)
        ELSE IF r[n - 1] < M THEN [holds[n - 1] EXCEPT ![r[n - 1]] = n - 1] ELSE holds[n - 1]
  IN  holds[N]

Chosen(i) ==
  LET N == Degree(i)
  IN  IF call.max <= 0 \/ N <= call.max THEN All(N)
      ELSE IF Path = "mapped" /\ call.max > LargeOver
           THEN Reservoir(call.max, N, drawn[i])
           ELSE DrawnInTurn(call.max, N, drawn[i])

\* Sampling in parallel gives what drawing from an urn one by one gives with the same
\* random numbers (hence each set of neighbors is equally likely): for each node as
\* many neighbors as asked for, no two of them the same, at its place in the output,
\* with the nodes that belong to the edges.
SampledAsInTurn ==
  stage = "done" =>
    \A i \in Nodes :
      LET chosen == Chosen(i)
      IN  /\ IsInjective(chosen)
          /\ offsets[i + 1] - offsets[i] = Cardinality(DOMAIN chosen)
          /\ \A k \in DOMAIN chosen :
               /\ edges[offsets[i] + k] = FirstEdge(i) + chosen[k]
               /\ dest[offsets[i] + k] = Column[FirstEdge(i) + chosen[k]]
=============================================================================
