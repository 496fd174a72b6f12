---------------------------- MODULE BucketInputs ----------------------------
(***************************************************************************)
(* What bucket_ids_for_ranks is called with: a partitioned table and a     *)
(* batch of indices into it.                                               *)
(***************************************************************************)
EXTENDS EntryPartition, Sequences

CONSTANTS
  Tables,    \* the partitioned tables: records of world_size and offsets
  MaxIndices \* bound on the length of a batch

ASSUME TablesAssumption ==
  \A t \in Tables : t.world_size \in Nat \ {0} /\ IsPartition(t.offsets, t.world_size)

ASSUME MaxIndicesAssumption == MaxIndices \in Nat

\* The batches for table t.
Batch(t) == UNION {[1 .. n -> -1 .. t.offsets[t.world_size] - 1] : n \in 0 .. MaxIndices}
=============================================================================
