--------------------------- MODULE SampleWeighted ---------------------------
(***************************************************************************)
(* Weighted sampling of neighbors: each neighbor of a node gets a random   *)
(* key that grows with the weight of its edge, and the max neighbors of    *)
(* the largest keys are taken.  Up to Threshold neighbors are kept in a    *)
(* queue by the block of the node.  For larger samples the keys of all     *)
(* nodes are stored in one buffer, a segment for each node that has more   *)
(* neighbors than asked for, sorted by segments, and the first ones taken. *)
(*                                                                         *)
(* Random keys are negative, weights positive, as in the code, where a     *)
(* node with few neighbors stores its weights in place of keys.            *)
(***************************************************************************)
EXTENDS Integers, Sequences, FiniteSets, FiniteSetsExt, Functions

CONSTANTS
  RowPtr,    \* RowPtr[n]: the first edge of node n; a function on 0 .. nodes
  Calls,     \* records of nodes (a sequence), max, and memory: the types of the memory
             \* that holds row pointers, columns and weights, none without a handle
  Threshold  \* sample_count_threshold: larger samples are sorted (256)

VARIABLES
  call,            \* the call
  stage,           \* which kernel runs
  offsets,         \* output_sample_offset
  neighbor_offset, \* where each node's segment of the buffers starts
  random_key,      \* random_key[i][k]: what the thread of neighbor k draws
  unstored,        \* the pairs of node and neighbor whose key is not stored yet
  keys,            \* the buffers of keys and of neighbor numbers
  idxs,
  todo,            \* the nodes whose block has not selected yet
  edges            \* the sampled edges, output_edge_gid

vars == <<call, stage, offsets, neighbor_offset, random_key, unstored, keys, idxs, todo,
          edges>>

Nodes        == DOMAIN call.nodes
FirstEdge(i) == RowPtr[call.nodes[i]]
Degree(i)    == RowPtr[call.nodes[i] + 1] - RowPtr[call.nodes[i]]
NeighborsOf(i) == 0 .. Degree(i) - 1
Sorts        == call.max > Threshold

ExclusiveSum(counts) ==
  [i \in 1 .. Len(counts) + 1 |-> SumFunctionOnSet(counts, 1 .. i - 1)]

SampleCount(i) == IF call.max > 0 /\ Degree(i) > call.max THEN call.max ELSE Degree(i)

\* Mutant of NeighborCount: space for the samples, not for the keys.
NeighborCountSamples(i) == IF Degree(i) <= call.max THEN 0 ELSE call.max

\* What get_sample_count_and_neighbor_count stores for the buffers.
NeighborCount(i) == IF Degree(i) <= call.max THEN 0 ELSE Degree(i)

\* The keys a node's threads draw: in any order of size, no two the same.
KeyOrders(i) ==
  {key \in [NeighborsOf(i) -> -Degree(i) .. -1] : IsInjective(key)}

Init ==
  /\ call \in Calls
  /\ stage = "count"
  /\ offsets = <<>> /\ neighbor_offset = <<>> /\ edges = <<>>
  /\ random_key \in {key \in [Nodes -> UNION {KeyOrders(i) : i \in Nodes}] :
                       \A i \in Nodes : key[i] \in KeyOrders(i)}
  /\ unstored = {}
  /\ keys = <<>> /\ idxs = <<>>
  /\ todo = Nodes

\* Only arrays that all ranks can address are sampled by weight.
Accepted == call.memory \subseteq {"none", "continuous"}

Refuse ==
  /\ stage = "count" /\ ~Accepted
  /\ stage' = "refused"
  /\ UNCHANGED <<call, offsets, neighbor_offset, random_key, unstored, keys, idxs, todo, edges>>

\* The counts, the prefix sums and the memory for them.
CountSamples ==
  /\ stage = "count" /\ Accepted
  /\ offsets' = ExclusiveSum([i \in Nodes |-> SampleCount(i)])
  /\ edges' = [e \in 0 .. offsets'[Len(offsets')] - 1 |-> -1]
  /\ IF Sorts
     THEN /\ neighbor_offset' = ExclusiveSum([i \in Nodes |-> NeighborCount(i)])
          /\ LET size == neighbor_offset'[Len(neighbor_offset')]
             IN  keys' = [n \in 0 .. size - 1 |-> 0] /\ idxs' = [n \in 0 .. size - 1 |-> 0]
          /\ unstored' = UNION {{i} \X NeighborsOf(i) : i \in Nodes}
          /\ stage' = "keys"
     ELSE /\ stage' = "select"
          /\ UNCHANGED <<neighbor_offset, keys, idxs, unstored>>
  /\ UNCHANGED <<call, random_key, todo>>

-----------------------------------------------------------------------------
\* Without random keys a thread stores the weight, which is larger than any key.
KeyOf(i, k) == IF Degree(i) <= call.max THEN k + 1 ELSE random_key[i][k]

\* A thread of generate_weighted_keys_and_idxs_kernel stores the key of neighbor k of
\* node i.  Threads of all blocks do, those of nodes without a segment too; what they
\* store behind the buffers is in none of the memory modelled here.
StoreKey(i, k) ==
  /\ stage = "keys" /\ <<i, k>> \in unstored
  /\ unstored' = unstored \ {<<i, k>>}
  /\ LET n == neighbor_offset[i] + k
     IN  IF n \in DOMAIN keys
         THEN keys' = [keys EXCEPT ![n] = KeyOf(i, k)] /\ idxs' = [idxs EXCEPT ![n] = k]
         ELSE UNCHANGED <<keys, idxs>>
  /\ UNCHANGED <<call, stage, offsets, neighbor_offset, random_key, todo, edges>>

\* SortPairsDescending: each segment by its keys; equal ones stay in order.
Segment(i) == neighbor_offset[i] .. neighbor_offset[i + 1] - 1

SortedPlace(i, n) ==
  neighbor_offset[i] + Cardinality({m \in Segment(i) : keys[m] > keys[n] \/ (keys[m] = keys[n] /\ m < n)})

SortSegments ==
  /\ stage = "keys" /\ unstored = {}
  /\ LET from == [n \in DOMAIN keys |->
                    CHOOSE m \in DOMAIN keys :
                      \E i \in Nodes : m \in Segment(i) /\ SortedPlace(i, m) = n]
     IN  /\ keys' = [n \in DOMAIN keys |-> keys[from[n]]]
         /\ idxs' = [n \in DOMAIN idxs |-> idxs[from[n]]]
  /\ stage' = "select"
  /\ UNCHANGED <<call, offsets, neighbor_offset, random_key, unstored, todo, edges>>

-----------------------------------------------------------------------------
Output(i, chosen) ==
  [e \in DOMAIN edges |->
     IF e - offsets[i] \in DOMAIN chosen THEN FirstEdge(i) + chosen[e - offsets[i]] ELSE edges[e]]

\* Nodes with few neighbors, and every node when no maximum is given.
SelectAll(i) ==
  /\ stage = "select" /\ i \in todo
  /\ call.max <= 0 \/ Degree(i) <= call.max
  /\ edges' = Output(i, [k \in NeighborsOf(i) |-> k])
  /\ todo' = todo \ {i}
  /\ UNCHANGED <<call, stage, offsets, neighbor_offset, random_key, unstored, keys, idxs>>

\* weighted_sample_select_k_kernel: the first of the sorted segment.
SelectSorted(i) ==
  /\ stage = "select" /\ i \in todo /\ Sorts
  /\ Degree(i) > call.max
  /\ edges' = Output(i, [k \in 0 .. call.max - 1 |-> idxs[neighbor_offset[i] + k]])
  /\ todo' = todo \ {i}
  /\ UNCHANGED <<call, stage, offsets, neighbor_offset, random_key, unstored, keys, idxs>>

Heaviest(i) ==
  {k \in NeighborsOf(i) :
     Cardinality({j \in NeighborsOf(i) : random_key[i][j] > random_key[i][k]}) < call.max}

\* weighted_sample_without_replacement_raft_kernel: the queue of the block keeps the
\* largest keys, which it puts out in an order of its own.
SelectQueued(i) ==
  /\ stage = "select" /\ i \in todo /\ ~Sorts
  /\ call.max > 0 /\ Degree(i) > call.max
  /\ \E chosen \in Bijection(0 .. call.max - 1, Heaviest(i)) : edges' = Output(i, chosen)
  /\ todo' = todo \ {i}
  /\ UNCHANGED <<call, stage, offsets, neighbor_offset, random_key, unstored, keys, idxs>>

Finish ==
  /\ stage = "select" /\ todo = {}
  /\ stage' = "done"
  /\ UNCHANGED <<call, offsets, neighbor_offset, random_key, unstored, keys, idxs, todo, edges>>

Done == stage \in {"done", "refused"} /\ UNCHANGED vars

Next ==
  \/ Refuse \/ CountSamples \/ SortSegments \/ Finish \/ Done
  \/ \E i \in Nodes : \/ \E k \in NeighborsOf(i) : StoreKey(i, k)
                      \/ SelectAll(i) \/ SelectSorted(i) \/ SelectQueued(i)

Spec == Init /\ [][Next]_vars

-----------------------------------------------------------------------------
\* For each node the neighbors with the largest keys are sampled, each once, or all if
\* it has no more than asked for.
HeaviestSampled ==
  stage = "done" =>
    \A i \in Nodes :
      LET out == {edges[e] - FirstEdge(i) : e \in offsets[i] .. offsets[i + 1] - 1}
      IN  /\ out = IF call.max <= 0 \/ Degree(i) <= call.max THEN NeighborsOf(i) ELSE Heaviest(i)
          /\ offsets[i + 1] - offsets[i] = Cardinality(out)
=============================================================================
