------------------------------ MODULE IdBuckets ------------------------------
(***************************************************************************)
(* bucket_ids_for_ranks_kernel: the threads of a kernel count, for a batch *)
(* of indices into a partitioned table, how many entries each rank owns.   *)
(* The threads take the indices in any order; the batch and the partition  *)
(* are arbitrary.                                                          *)
(***************************************************************************)
EXTENDS BucketInputs

VARIABLES
  partition,      \* the partition of the table the indices are for
  bucket_indices, \* the batch; a negative index names no entry
  uncounted,      \* the positions of the batch no thread has counted yet
  rank_count,     \* rank_count[r]: the indices found to belong to rank r
  dest            \* the rank dest_rank returned last, -1 before

bucketVars == <<partition, bucket_indices, uncounted, rank_count, dest>>

BucketRank == 0 .. partition.world_size - 1

\* Threads start on a batch with all counts at zero.
BucketInit ==
  /\ partition \in Tables
  /\ bucket_indices \in Batch(partition)
  /\ uncounted = DOMAIN bucket_indices
  /\ rank_count = [r \in BucketRank |-> 0]
  /\ dest = -1

\* assert(rank >= 0 && rank < world_size)
RankInRange(rank) == rank \in BucketRank

\* Mutant of SkipIndex: a padding index is counted like index 0.
SkipIndexWithCount(i) ==
  /\ i \in uncounted /\ bucket_indices[i] < 0
  /\ uncounted' = uncounted \ {i}
  /\ rank_count' = [rank_count EXCEPT ![0] = @ + 1]
  /\ UNCHANGED <<partition, bucket_indices, dest>>

SkipIndex(i) ==
  /\ i \in uncounted /\ bucket_indices[i] < 0
  /\ uncounted' = uncounted \ {i}
  /\ UNCHANGED <<partition, bucket_indices, rank_count, dest>>

\* A thread counts index i; where the assertion fails the kernel traps.
CountIndex(i) ==
  /\ i \in uncounted /\ bucket_indices[i] >= 0
  /\ dest \in BucketRank \cup {-1}
  /\ dest' \in DestRanks(partition.offsets, partition.world_size, bucket_indices[i])
  /\ uncounted' = uncounted \ {i}
  /\ rank_count' = IF RankInRange(dest') THEN [rank_count EXCEPT ![dest'] = @ + 1]
                   ELSE rank_count
  /\ UNCHANGED <<partition, bucket_indices>>

AllCounted == uncounted = {} /\ UNCHANGED bucketVars

BucketNext == (\E i \in uncounted : SkipIndex(i) \/ CountIndex(i)) \/ AllCounted

BucketSpec == BucketInit /\ [][BucketNext]_bucketVars

-----------------------------------------------------------------------------
BucketTypeOK ==
  /\ partition \in Tables
  /\ uncounted \subseteq DOMAIN bucket_indices
  /\ rank_count \in [BucketRank -> 0 .. Len(bucket_indices)]

\* The assertion of the kernel: dest_rank returns a rank.
AssertHolds == dest \in BucketRank \cup {-1}

\* The counts are those of the entries each rank owns, whichever order the threads
\* take the indices in: the offsets the ids are sent from follow from them.
CountsOwned ==
  \A r \in BucketRank :
    rank_count[r] = Cardinality({i \in DOMAIN bucket_indices \ uncounted :
                                   Owns(partition.offsets, r, bucket_indices[i])})
=============================================================================
