------------------------ MODULE DistributedTableProofs ------------------------
(***************************************************************************)
(* Proofs about gather and scatter on a distributed table, for any number  *)
(* of ranks, any partition that dest_rank can search, and any program: the *)
(* ranks agree on how much each sends to each (CountsAlwaysMatch), and a   *)
(* gather returns what the last scatters stored (GathersSeeScatters).      *)
(*                                                                         *)
(* dest_rank finds the one owner of an entry, and owners go up with the    *)
(* entries.  So a sorted batch begins with the entries of rank 0, then of  *)
(* rank 1, and so on, the negative indices last: cut by the counts, its    *)
(* pieces are the indices for each owner.  The owner has them one rank     *)
(* after another; cut the same way, the rows it looks up are those for     *)
(* each rank, and what comes back is in the order of the sorted batch.     *)
(*                                                                         *)
(* A rank is past an exchange only if all have entered it (Lockstep), so   *)
(* the buffers of all are of one call where they are read (Counted, Sent,  *)
(* Got).  The memory of a rank is that of the calls it has completed       *)
(* itself (Contents); a gather reads it while its owner is in that gather, *)
(* between the same scatters.  What it returned is still there at the      *)
(* owner until the next scatter (Current), which is why two gathers        *)
(* between the same scatters agree, also if one rank is a call ahead.      *)
(*                                                                         *)
(* Then comes the kernel in which the counting is done (IdBuckets) instead *)
(* of the one step Bucket: whatever the order of its threads, dest_rank    *)
(* returns a rank and the counts come out the same.                        *)
(*                                                                         *)
(* The last part is about the kernels that move the rows (GatherScatter),  *)
(* for any layout of the tensors (RowsMovedAlways).  The size of a vector  *)
(* divides all that its address is made of, so vectors fit between the     *)
(* ends of a row, the lanes of a group cover its columns, and the groups   *)
(* the rows.  The shares of the groups lie apart, and a share has what is  *)
(* copied in; so at any time a share has the vectors its lanes have moved  *)
(* in (CollectedRows) or the rows its group has loaded (CopiedRows).       *)
(***************************************************************************)
EXTENDS DistributedTable, IdBuckets, GatherScatter, NaturalLemmas

-----------------------------------------------------------------------------
\* The downward search ends at the owner, if it starts beyond it.
LEMMA DownwardSearch ==
  ASSUME NEW W \in Nat \ {0}, NEW offsets, IsPartition(offsets, W),
         NEW n \in 1 .. W, NEW e \in Nat, offsets[n] > e
  PROVE  /\ LastStartingBefore(offsets, n, e) \in 0 .. W - 1
         /\ Owns(offsets, LastStartingBefore(offsets, n, e), e)
<1>1. /\ n \in Nat \ {0} /\ \A r \in 0 .. n : offsets[r] \in Nat
      /\ offsets[0] <= e /\ e < offsets[n]
  BY DEF IsPartition
<1>2. PICK d \in 0 .. n - 1 :
        /\ offsets[d] <= e /\ e < offsets[d + 1]
        /\ \A r \in 0 .. n - 1 : offsets[r] <= e => r <= d
  BY <1>1, LastNotBeyond
<1>3. LastStartingBefore(offsets, n, e) = d
  BY <1>2 DEF LastStartingBefore, Max
<1>4. QED
  BY <1>2, <1>3 DEF Owns

\* The upward search does so, if it starts at or before it.
LEMMA UpwardSearch ==
  ASSUME NEW W \in Nat \ {0}, NEW offsets, IsPartition(offsets, W),
         NEW n \in 0 .. W - 1, NEW e \in Nat, offsets[n] <= e, e < offsets[W]
  PROVE  /\ BeforeFirstBeyond(offsets, W, n + 1, e) \in 0 .. W - 1
         /\ Owns(offsets, BeforeFirstBeyond(offsets, W, n + 1, e), e)
<1>1. /\ n \in Nat /\ W \in Nat /\ n < W /\ \A r \in n .. W : offsets[r] \in Nat
  BY DEF IsPartition
<1>2. PICK d \in n .. W - 1 :
        /\ offsets[d] <= e /\ e < offsets[d + 1]
        /\ \A r \in n + 1 .. W : offsets[r] > e => d + 1 <= r
  BY <1>1, FirstBeyond
<1> DEFINE S == {r \in n + 1 .. W : offsets[r] > e}
<1>3. d + 1 \in S /\ S \in SUBSET Int /\ \A r \in S : d + 1 <= r
  BY <1>2
<1>4. Min(S) = d + 1
  BY <1>3 DEF Min
<1>5. BeforeFirstBeyond(offsets, W, n + 1, e) = d
  BY <1>2, <1>4 DEF BeforeFirstBeyond
<1>6. QED
  BY <1>2, <1>5 DEF Owns

\* A table is large enough when it has as many entries as there are pairs of
\* ranks, however they are divided.
THEOREM LargeEnough ==
  ASSUME NEW W \in Nat \ {0}, NEW offsets, IsPartition(offsets, W), offsets[W] >= W * W
  PROVE  GuessInRange(offsets, W)
<1> DEFINE total    == offsets[W]
           per_rank == total \div W
           last     == (total - 1) \div per_rank
<1>1. total \in Nat /\ W \in Nat /\ W > 0 /\ total >= W * W
  BY DEF IsPartition
<1> HIDE DEF total
<1>2. per_rank \in Nat /\ W * per_rank <= total /\ total < W * per_rank + W
  BY <1>1, Z3
<1> HIDE DEF per_rank
<1>3. per_rank >= W
  <2>1. SUFFICES ASSUME per_rank + 1 <= W PROVE FALSE
    BY <1>1, <1>2
  <2>2. W * (per_rank + 1) <= W * W
    BY <1>1, <1>2, <2>1, Z3
  <2>3. W * (per_rank + 1) = W * per_rank + W
    BY <1>1, <1>2, Z3
  <2>4. W * W \in Int /\ W * per_rank \in Int
    BY <1>1, <1>2
  <2>5. QED
    BY <1>1, <1>2, <2>2, <2>3, <2>4
<1>4. last \in Int /\ per_rank * last <= total - 1
  BY <1>1, <1>2, <1>3, Z3
<1> HIDE DEF last
<1>5. last <= W
  <2>1. SUFFICES ASSUME last >= W + 1 PROVE FALSE
    BY <1>1, <1>4
  <2>2. per_rank * last >= per_rank * (W + 1)
    BY <1>1, <1>2, <1>4, <2>1, Z3
  <2>3. per_rank * (W + 1) = W * per_rank + per_rank
    BY <1>1, <1>2, Z3
  <2>4. per_rank * last \in Int /\ W * per_rank \in Int
    BY <1>1, <1>2, <1>4
  <2>5. QED
    BY <1>1, <1>2, <1>3, <1>4, <2>2, <2>3, <2>4
<1>6. QED
  BY <1>1, <1>3, <1>5 DEF GuessInRange, total, per_rank, last

\* dest_rank has one answer, that of one of the two searches: it reads only offsets.
LEMMA OneAnswer ==
  ASSUME NEW W \in Nat \ {0}, NEW offsets, IsPartition(offsets, W),
         GuessInRange(offsets, W), NEW e \in 0 .. offsets[W] - 1
  PROVE  \E n \in {W - 1, W} :
           DestRanks(offsets, W, e) =
             {IF offsets[n] > e THEN LastStartingBefore(offsets, n, e)
              ELSE BeforeFirstBeyond(offsets, W, n + 1, e)}
<1> DEFINE per_rank == offsets[W] \div W
<1>1. offsets[W] \in Nat /\ e \in Nat /\ e < offsets[W]
  BY DEF IsPartition
<1>2. per_rank \in Nat /\ per_rank > 0 /\ (offsets[W] - 1) \div per_rank <= W
  BY <1>1 DEF GuessInRange
<1> HIDE DEF per_rank
<1>3. e \div per_rank \in Nat /\ e \div per_rank <= W
  <2>1. e \div per_rank <= (offsets[W] - 1) \div per_rank
    BY <1>1, <1>2, Z3
  <2>2. QED
    BY <1>1, <1>2, <2>1
<1>4. Guesses(offsets, W, e) = {Larger(W - 1, e \div per_rank)}
  BY <1>2 DEF Guesses, per_rank
<1> DEFINE n == Larger(W - 1, e \div per_rank)
<1>5. n \in {W - 1, W}
  BY <1>3 DEF Larger
<1>6. DestRanks(offsets, W, e) =
        {IF offsets[n] > e THEN LastStartingBefore(offsets, n, e)
         ELSE BeforeFirstBeyond(offsets, W, n + 1, e)}
  BY <1>4, <1>5 DEF DestRanks
<1>7. QED
  BY <1>5, <1>6

\* dest_rank returns the owner of the entry and nothing else: the search in either
\* direction ends at the owner.
THEOREM OwnerFound ==
  ASSUME NEW W \in Nat \ {0}, NEW offsets, IsPartition(offsets, W),
         GuessInRange(offsets, W),
         NEW e \in 0 .. offsets[W] - 1,
         NEW rank \in DestRanks(offsets, W, e)
  PROVE  rank \in 0 .. W - 1 /\ Owns(offsets, rank, e)
<1>1. offsets[W] \in Nat /\ e \in Nat /\ e < offsets[W]
  BY DEF IsPartition
<1>2. PICK n \in {W - 1, W} :
        DestRanks(offsets, W, e) =
          {IF offsets[n] > e THEN LastStartingBefore(offsets, n, e)
           ELSE BeforeFirstBeyond(offsets, W, n + 1, e)}
  BY OneAnswer
<1>3. CASE offsets[n] > e
  <2>1. n \in 1 .. W
    BY <1>1, <1>3 DEF IsPartition
  <2>2. QED
    BY <1>1, <1>2, <1>3, <2>1, DownwardSearch
<1>4. CASE ~ (offsets[n] > e)
  <2>1. n = W - 1 /\ offsets[n] <= e
    BY <1>1, <1>4 DEF IsPartition
  <2>2. QED
    BY <1>1, <1>2, <1>4, <2>1, UpwardSearch
<1>5. QED
  BY <1>3, <1>4

\* No entry has two owners.
LEMMA OneOwner ==
  ASSUME NEW W \in Nat \ {0}, NEW offsets, IsPartition(offsets, W), NEW e \in Nat,
         NEW q \in 0 .. W - 1, NEW r \in 0 .. W - 1,
         Owns(offsets, q, e), Owns(offsets, r, e)
  PROVE  q = r
<1>1. SUFFICES ASSUME NEW a \in 0 .. W - 1, NEW b \in 0 .. W - 1, a < b,
                      Owns(offsets, a, e), Owns(offsets, b, e)
               PROVE  FALSE
  OBVIOUS
<1>2. a + 1 \in 0 .. W /\ b \in 0 .. W /\ a + 1 <= b
  BY <1>1
<1>3. offsets[a + 1] <= offsets[b] /\ offsets[a + 1] \in Nat /\ offsets[b] \in Nat
  BY <1>2 DEF IsPartition
<1>4. QED
  BY <1>1, <1>3 DEF Owns

-----------------------------------------------------------------------------
\* Sorting.  R orders the elements of U: the pairs of an element and a later one.
Orders(R, U) ==
  /\ \A s \in U : <<s, s>> \notin R
  /\ \A s, t \in U : s # t => <<s, t>> \in R \/ <<t, s>> \in R
  /\ \A s, t, u \in U : <<s, t>> \in R /\ <<t, u>> \in R => <<s, u>> \in R

Lower(R, U, s) == {t \in U : <<t, s>> \in R}

\* The later an element, the more there are before it.
LEMMA LowerGrow ==
  ASSUME NEW U, IsFiniteSet(U), NEW R, Orders(R, U), NEW s \in U
  PROVE  /\ Cardinality(Lower(R, U, s)) \in 0 .. Cardinality(U) - 1
         /\ \A t \in U : <<s, t>> \in R =>
              Cardinality(Lower(R, U, s)) < Cardinality(Lower(R, U, t))
<1>1. ASSUME NEW V \in SUBSET U, NEW X \in SUBSET V, s \in V, s \notin X
      PROVE  /\ Cardinality(X) \in Nat /\ Cardinality(V) \in Nat
             /\ Cardinality(X) < Cardinality(V)
  <2>1. IsFiniteSet(V)
    BY FS_Subset
  <2>2. IsFiniteSet(X) /\ Cardinality(X) <= Cardinality(V) /\ Cardinality(V) # Cardinality(X)
    BY <1>1, <2>1, FS_Subset
  <2>3. Cardinality(X) \in Nat /\ Cardinality(V) \in Nat
    BY <2>1, <2>2, FS_CardinalityType
  <2>4. QED
    BY <2>2, <2>3
<1>2. Lower(R, U, s) \in SUBSET U /\ s \notin Lower(R, U, s)
  BY DEF Lower, Orders
<1>3. Cardinality(Lower(R, U, s)) \in 0 .. Cardinality(U) - 1
  BY <1>1, <1>2
<1>4. ASSUME NEW t \in U, <<s, t>> \in R
      PROVE  Cardinality(Lower(R, U, s)) < Cardinality(Lower(R, U, t))
  <2>1. Lower(R, U, s) \in SUBSET Lower(R, U, t) /\ s \in Lower(R, U, t)
    BY <1>4 DEF Lower, Orders
  <2>2. Lower(R, U, t) \in SUBSET U
    BY DEF Lower
  <2>3. QED
    BY <1>1, <1>2, <2>1, <2>2
<1>5. QED
  BY <1>3, <1>4

\* So each number of elements before is that of one element.
LEMMA RanksTaken ==
  ASSUME NEW U, IsFiniteSet(U), NEW R, Orders(R, U)
  PROVE  /\ \A s, t \in U : Cardinality(Lower(R, U, s)) = Cardinality(Lower(R, U, t)) => s = t
         /\ \A m \in 0 .. Cardinality(U) - 1 : \E s \in U : Cardinality(Lower(R, U, s)) = m
<1> DEFINE f == [s \in U |-> Cardinality(Lower(R, U, s))]
           N == 0 .. Cardinality(U) - 1
<1>1. ASSUME NEW s \in U, NEW t \in U, Cardinality(Lower(R, U, s)) = Cardinality(Lower(R, U, t))
      PROVE  s = t
  <2>1. SUFFICES ASSUME s # t PROVE FALSE
    OBVIOUS
  <2>2. <<s, t>> \in R \/ <<t, s>> \in R
    BY <2>1 DEF Orders
  <2>3. Cardinality(Lower(R, U, s)) \in Int /\ Cardinality(Lower(R, U, t)) \in Int
    BY LowerGrow
  <2>4. QED
    BY <1>1, <2>2, <2>3, LowerGrow
<1>2. \A s \in U : Cardinality(Lower(R, U, s)) \in N
  BY LowerGrow
<1>3. Cardinality(U) \in Nat
  BY FS_CardinalityType
<1>4. IsFiniteSet(N) /\ Cardinality(N) = Cardinality(U)
  BY <1>3, FS_Interval, SMTT(30)
<1>5. f \in Injection(U, N)
  BY <1>1, <1>2 DEF Injection, IsInjective
<1>6. f \in Surjection(U, N)
  <2> HIDE DEF f, N
  <2>1. QED
    BY <1>4, <1>5, FS_Injection
<1>7. \A m \in N : \E s \in U : f[s] = m
  BY <1>6 DEF Surjection
<1>8. QED
  BY <1>1, <1>7

-----------------------------------------------------------------------------
\* A batch a call may come with.
Valid(b) ==
  b \in Seq(Int) /\ \A i \in DOMAIN b : -IndexRange <= 2 * b[i] /\ b[i] < Total

\* There are ranks and entries, and indices for all entries.
LEMMA TableSize ==
  /\ WorldSize \in Nat \ {0} /\ IndexRange \in Nat \ {0}
  /\ Total \in Nat \ {0} /\ 2 * Total <= IndexRange
<1>1. WorldSize \in Nat \ {0} /\ WorldSize \in 0 .. WorldSize /\ Offsets \in [0 .. WorldSize -> Nat]
  BY PartitionAssumption DEF IsPartition
<1>2. Total \in Nat
  BY <1>1 DEF Total
<1>3. Total # 0
  <2>1. SUFFICES ASSUME Offsets[WorldSize] = 0 PROVE FALSE
    BY DEF Total
  <2>2. \A w \in Nat \ {0} : 0 \div w = 0
    BY Z3
  <2>3. Offsets[WorldSize] \div WorldSize = 0
    BY <1>1, <2>1, <2>2
  <2>4. QED
    BY <2>3, PartitionAssumption DEF GuessInRange
<1>4. QED
  BY <1>1, <1>2, <1>3, BatchesAssumption

\* Negative indices have greater keys than all entries.
LEMMA Keys ==
  ASSUME NEW e \in Int, -IndexRange <= 2 * e, e < Total
  PROVE  /\ SortKey(e) \in Int
         /\ e >= 0 => SortKey(e) = e
         /\ e < 0  => SortKey(e) >= Total
<1>1. ASSUME NEW n \in Nat \ {0}, NEW d \in Int, -n <= d, d < n
      PROVE  d % n = IF d >= 0 THEN d ELSE d + n
  BY <1>1, Z3
<1>2. -IndexRange <= e /\ e < IndexRange
  BY TableSize
<1>3. SortKey(e) = IF e >= 0 THEN e ELSE e + IndexRange
  BY <1>1, <1>2, TableSize DEF SortKey
<1>4. QED
  BY <1>3, TableSize

\* The numbers up to n are n.
LEMMA Interval ==
  ASSUME NEW n \in Nat
  PROVE  IsFiniteSet(1 .. n) /\ Cardinality(1 .. n) = n
<1>1. 1 \in Int /\ n \in Int
  OBVIOUS
<1>2. QED
  BY <1>1, FS_Interval

\* A batch of indices that have keys.
Sortable(b) == b \in Seq(Int) /\ \A i \in DOMAIN b : SortKey(b[i]) \in Int

\* Sorted puts each position of a batch into one place, by the keys of its indices.
LEMMA SortedPermutes ==
  ASSUME NEW b, Sortable(b), NEW n, n = Len(b)
  PROVE  /\ n \in Nat /\ DOMAIN b = 1 .. n /\ Sorted(b) \in [1 .. n -> 1 .. n]
         /\ \A i \in 1 .. n : \E j \in 1 .. n : Sorted(b)[j] = i
         /\ \A i, j \in 1 .. n : Sorted(b)[i] = Sorted(b)[j] => i = j
         /\ \A i, j \in 1 .. n : i < j => SortKey(b[Sorted(b)[i]]) <= SortKey(b[Sorted(b)[j]])
<1> DEFINE U == 1 .. n
           R == {p \in U \X U : SortsBefore(b, p[1], p[2])}
           key(i) == SortKey(b[i])
<1>1. n \in Nat /\ DOMAIN b = U /\ IsFiniteSet(U) /\ Cardinality(U) = n
  <2>1. n \in Nat /\ DOMAIN b = U
    BY DEF Sortable
  <2>2. QED
    BY <2>1, Interval
<1>2. \A i \in U : key(i) \in Int
  BY <1>1 DEF Sortable
<1>3. \A i, j \in U : <<i, j>> \in R <=> key(i) < key(j) \/ (key(i) = key(j) /\ i < j)
  BY DEF SortsBefore
<1> HIDE DEF R, key
<1>4. Orders(R, U)
  BY <1>1, <1>2, <1>3 DEF Orders
<1>5. \A s \in U : SortRank(b, s) = Cardinality(Lower(R, U, s))
  <2>1. \A s \in U : Lower(R, U, s) = {i \in DOMAIN b : SortsBefore(b, i, s)}
    BY <1>1 DEF Lower, R
  <2>2. QED
    BY <2>1 DEF SortRank
<1>6. /\ \A s, t \in U : SortRank(b, s) = SortRank(b, t) => s = t
      /\ \A m \in 0 .. n - 1 : \E s \in U : SortRank(b, s) = m
      /\ \A s \in U : SortRank(b, s) \in 0 .. n - 1
      /\ \A s, t \in U : <<s, t>> \in R => SortRank(b, s) < SortRank(b, t)
  <2>1. /\ \A s, t \in U : Cardinality(Lower(R, U, s)) = Cardinality(Lower(R, U, t)) => s = t
        /\ \A m \in 0 .. Cardinality(U) - 1 : \E s \in U : Cardinality(Lower(R, U, s)) = m
    BY <1>1, <1>4, RanksTaken
  <2>2. \A s \in U : /\ Cardinality(Lower(R, U, s)) \in 0 .. Cardinality(U) - 1
                      /\ \A t \in U : <<s, t>> \in R =>
                           Cardinality(Lower(R, U, s)) < Cardinality(Lower(R, U, t))
    BY <1>1, <1>4, LowerGrow
  <2> HIDE DEF U
  <2>3. QED
    BY <1>1, <1>5, <2>1, <2>2
<1>7. Sorted(b) = [m \in U |-> CHOOSE j \in U : SortRank(b, j) = m - 1]
  <2> HIDE DEF U
  <2>1. QED
    BY <1>1 DEF Sorted
<1>8. \A m \in U : Sorted(b)[m] \in U /\ SortRank(b, Sorted(b)[m]) = m - 1
  <2>1. \A m \in U : m - 1 \in 0 .. n - 1
    BY <1>1
  <2> HIDE DEF U
  <2>2. \A m \in U : \E s \in U : SortRank(b, s) = m - 1
    BY <1>6, <2>1
  <2>3. QED
    BY <1>7, <2>2
<1>9. Sorted(b) \in [U -> U]
  BY <1>7, <1>8
<1>10. ASSUME NEW i \in U PROVE \E j \in U : Sorted(b)[j] = i
  <2>1. PICK m : m = SortRank(b, i) + 1
    OBVIOUS
  <2>2. m \in U /\ m - 1 = SortRank(b, i)
    BY <1>1, <1>6, <2>1
  <2>3. SortRank(b, Sorted(b)[m]) = SortRank(b, i) /\ Sorted(b)[m] \in U
    BY <1>8, <2>2
  <2> HIDE DEF U
  <2>4. Sorted(b)[m] = i
    BY <1>6, <2>3
  <2>5. QED
    BY <2>2, <2>4
<1>11. ASSUME NEW i \in U, NEW j \in U, Sorted(b)[i] = Sorted(b)[j] PROVE i = j
  BY <1>1, <1>8, <1>11
<1>12. ASSUME NEW i \in U, NEW j \in U, i < j
       PROVE  key(Sorted(b)[i]) <= key(Sorted(b)[j])
  <2>1. SUFFICES ASSUME key(Sorted(b)[j]) < key(Sorted(b)[i]) PROVE FALSE
    BY <1>2, <1>8
  <2>2. <<Sorted(b)[j], Sorted(b)[i]>> \in R
    BY <1>3, <1>8, <2>1
  <2>3. SortRank(b, Sorted(b)[j]) < SortRank(b, Sorted(b)[i])
    BY <1>6, <1>8, <2>2
  <2>4. QED
    BY <1>1, <1>8, <1>12, <2>3
<1>13. QED
  BY <1>1, <1>9, <1>10, <1>11, <1>12 DEF key

\* Those of the calls do.
LEMMA ValidSortable == \A b : Valid(b) => Sortable(b)
BY Keys DEF Valid, Sortable

-----------------------------------------------------------------------------
\* Positions of a batch: a set of them that has all before each of its own is the
\* first few.
LEMMA FirstFew ==
  ASSUME NEW n \in Nat, NEW D \in SUBSET (1 .. n), \A i \in D : \A j \in 1 .. n : j < i => j \in D
  PROVE  Cardinality(D) \in 0 .. n /\ D = 1 .. Cardinality(D)
<1>1. CASE D = {}
  BY <1>1, FS_EmptySet
<1>2. CASE D # {}
  <2>5. D \in SUBSET Nat /\ \A i \in D : i \in 1 .. n /\ i <= n
    OBVIOUS
  <2>1. PICK m \in D : \A i \in D : i <= m
    BY <1>2, <2>5, LargestElement
  <2>2. m \in 1 .. n /\ m \in Nat
    OBVIOUS
  <2>3. D = 1 .. m
    <3>1. \A i \in D : i \in 1 .. m
      BY <2>5, <2>1, <2>2
    <3>2. \A i \in 1 .. m : i \in 1 .. n /\ (i = m \/ i < m)
      BY <2>2
    <3>3. \A i \in 1 .. m : i \in D
      BY <2>2, <3>2
    <3>4. QED
      BY <3>1, <3>3
  <2>4. Cardinality(D) = m
    BY <2>2, <2>3, Interval
  <2>6. QED
    BY <2>2, <2>3, <2>4
<1>3. QED
  BY <1>1, <1>2

\* What is counted before rank q: the sums of the counts.
LEMMA CountsAdd ==
  ASSUME NEW c \in [Rank -> Nat]
  PROVE  /\ \A q \in 0 .. WorldSize : CountBelow(c, q) \in Nat
         /\ CountBelow(c, 0) = 0
         /\ \A q \in Rank : CountBelow(c, q + 1) = CountBelow(c, q) + c[q]
<1>1. WorldSize \in Nat \ {0}
  BY TableSize
<1>2. \A q \in 0 .. WorldSize : IsFiniteSet(0 .. q - 1) /\ \A x \in 0 .. q - 1 : c[x] \in Nat
  <2>1. TAKE q \in 0 .. WorldSize
  <2>2. 0 \in Int /\ q - 1 \in Int /\ \A x \in 0 .. q - 1 : x \in Rank
    BY <1>1 DEF Rank
  <2>3. QED
    BY <2>2, FS_Interval
<1>3. ASSUME NEW q \in Rank PROVE CountBelow(c, q + 1) = CountBelow(c, q) + c[q]
  <2>1. q + 1 \in 0 .. WorldSize /\ q \in 0 .. WorldSize
    BY <1>1 DEF Rank
  <2>2. q \in 0 .. (q + 1) - 1 /\ (0 .. (q + 1) - 1) \ {q} = 0 .. q - 1
    BY <2>1
  <2>3. SumFunctionOnSet(c, 0 .. (q + 1) - 1) = c[q] + SumFunctionOnSet(c, 0 .. q - 1)
    BY <1>2, <2>1, <2>2, Sums
  <2>4. SumFunctionOnSet(c, 0 .. q - 1) \in Nat
    BY <1>2, <2>1, Sums
  <2>5. QED
    BY <2>3, <2>4 DEF CountBelow
<1>4. \A q \in 0 .. WorldSize : CountBelow(c, q) \in Nat
  BY <1>2, Sums DEF CountBelow
<1>5. CountBelow(c, 0) = 0
  <2>1. 0 \in 0 .. WorldSize /\ 0 .. 0 - 1 = {}
    BY <1>1
  <2>2. SumFunctionOnSet(c, 0 .. 0 - 1) = 0
    BY <1>2, <2>1, Sums
  <2>3. QED
    BY <2>2 DEF CountBelow
<1>6. QED
  BY <1>3, <1>4, <1>5

-----------------------------------------------------------------------------
\* Owner names the one rank that owns an entry, and entries go up with their owners.
LEMMA OwnerOf ==
  ASSUME NEW e \in Entry
  PROVE  /\ Owner(e) \in Rank /\ Owns(Offsets, Owner(e), e)
         /\ \A q \in Rank : Owns(Offsets, q, e) => q = Owner(e)
<1>1. /\ WorldSize \in Nat \ {0} /\ IsPartition(Offsets, WorldSize)
      /\ GuessInRange(Offsets, WorldSize) /\ e \in 0 .. Offsets[WorldSize] - 1
  BY PartitionAssumption DEF Entry, Total
<1>2. \E r : r \in DestRanks(Offsets, WorldSize, e)
  BY <1>1, OneAnswer
<1>3. Owner(e) \in DestRanks(Offsets, WorldSize, e)
  BY <1>2 DEF Owner
<1>4. Owner(e) \in Rank /\ Owns(Offsets, Owner(e), e)
  BY <1>1, <1>3, OwnerFound DEF Rank
<1>5. e \in Nat
  BY <1>1
<1>6. QED
  BY <1>1, <1>4, <1>5, OneOwner DEF Rank

\* Entries go up with their owners.
LEMMA OwnersAscend ==
  ASSUME NEW e \in Entry, NEW f \in Entry, e <= f
  PROVE  Owner(e) <= Owner(f)
<1>1. WorldSize \in Nat \ {0} /\ IsPartition(Offsets, WorldSize)
  BY PartitionAssumption
<1>2. PICK q \in Rank, r \in Rank :
        /\ q = Owner(e) /\ r = Owner(f) /\ Owns(Offsets, q, e) /\ Owns(Offsets, r, f)
  BY OwnerOf
<1>3. SUFFICES ASSUME r + 1 <= q PROVE FALSE
  BY <1>1, <1>2 DEF Rank
<1>4. q \in 0 .. WorldSize /\ r + 1 \in 0 .. WorldSize
  BY <1>1 DEF Rank
<1>5. Offsets[r + 1] <= Offsets[q] /\ Offsets[q] \in Nat /\ Offsets[r + 1] \in Nat
  BY <1>1, <1>3, <1>4 DEF IsPartition
<1>6. e \in Int /\ f \in Int
  BY TableSize DEF Entry
<1>7. QED
  BY <1>2, <1>5, <1>6 DEF Owns

\* The positions of a batch whose entries belong to the ranks before q.
OfRanksBelow(b, q) == {i \in DOMAIN b : b[i] >= 0 /\ Owner(b[i]) < q}

\* The counts of a batch are numbers, and its entries have owners.
LEMMA CountsTyped ==
  ASSUME NEW b, Valid(b)
  PROVE  /\ CountsOf(b) \in [Rank -> Nat]
         /\ \A i \in DOMAIN b : b[i] >= 0 => b[i] \in Entry /\ Owner(b[i]) \in Rank
         /\ Len(b) \in Nat /\ DOMAIN b = 1 .. Len(b) /\ IsFiniteSet(DOMAIN b)
<1>1. Len(b) \in Nat /\ DOMAIN b = 1 .. Len(b) /\ IsFiniteSet(DOMAIN b)
  <2>1. Len(b) \in Nat /\ DOMAIN b = 1 .. Len(b)
    BY DEF Valid
  <2>2. QED
    BY <2>1, Interval
<1>2. \A i \in DOMAIN b : b[i] >= 0 => b[i] \in Entry
  BY TableSize DEF Valid, Entry
<1>3. ASSUME NEW q \in Rank
      PROVE  Cardinality({i \in DOMAIN b : b[i] >= 0 /\ Owner(b[i]) = q}) \in Nat
  <2>1. IsFiniteSet({i \in DOMAIN b : b[i] >= 0 /\ Owner(b[i]) = q})
    BY <1>1, FS_Subset
  <2>2. QED
    BY <2>1, FS_CardinalityType
<1>4. CountsOf(b) \in [Rank -> Nat]
  BY <1>3 DEF CountsOf
<1>5. QED
  BY <1>1, <1>2, <1>4, OwnerOf

\* What is counted before rank q: the positions of entries of the ranks before q.
LEMMA BelowCounted ==
  ASSUME NEW b, Valid(b)
  PROVE  \A q \in 0 .. WorldSize : CountBelow(CountsOf(b), q) = Cardinality(OfRanksBelow(b, q))
<1> DEFINE c == CountsOf(b)
           Bad == {q \in 0 .. WorldSize : CountBelow(c, q) # Cardinality(OfRanksBelow(b, q))}
<1>1. SUFFICES ASSUME Bad # {} PROVE FALSE
  OBVIOUS
<1>2. WorldSize \in Nat /\ Bad \in SUBSET Nat
  BY TableSize
<1>3. PICK m \in Bad : \A k \in Bad : m <= k
  BY <1>1, <1>2, LeastElement
<1>4. m \in 0 .. WorldSize /\ CountBelow(c, m) # Cardinality(OfRanksBelow(b, m))
  OBVIOUS
<1>5. c \in [Rank -> Nat] /\ \A i \in DOMAIN b : b[i] >= 0 => Owner(b[i]) \in Rank
  BY CountsTyped
<1>6. m # 0
  <2>1. \A i \in DOMAIN b : b[i] >= 0 => ~ (Owner(b[i]) < 0)
    BY <1>2, <1>5 DEF Rank
  <2>2. OfRanksBelow(b, 0) = {}
    BY <2>1 DEF OfRanksBelow
  <2>3. Cardinality(OfRanksBelow(b, 0)) = 0
    BY <2>2, FS_EmptySet
  <2>4. CountBelow(c, 0) = 0
    BY <1>5, CountsAdd
  <2>5. QED
    BY <1>4, <2>3, <2>4
<1>7. PICK p \in Rank : p + 1 = m /\ p \in 0 .. WorldSize /\ p \notin Bad
  <2>1. m - 1 \in Rank /\ (m - 1) + 1 = m /\ m - 1 \in 0 .. WorldSize
    BY <1>2, <1>4, <1>6 DEF Rank
  <2>2. m - 1 \notin Bad
    BY <1>3, <1>4
  <2>3. QED
    BY <2>1, <2>2
<1>8. CountBelow(c, p) = Cardinality(OfRanksBelow(b, p))
  BY <1>7
<1> DEFINE V == OfRanksBelow(b, p)
           X == {i \in DOMAIN b : b[i] >= 0 /\ Owner(b[i]) = p}
<1>9. c[p] = Cardinality(X)
  BY DEF CountsOf
<1>10. OfRanksBelow(b, m) = V \cup X /\ V \cap X = {}
  <2>1. \A i \in DOMAIN b : b[i] >= 0 => (Owner(b[i]) < m <=> Owner(b[i]) < p \/ Owner(b[i]) = p)
    BY <1>2, <1>5, <1>7 DEF Rank
  <2>2. \A i \in DOMAIN b : b[i] >= 0 => ~ (Owner(b[i]) < p /\ Owner(b[i]) = p)
    BY <1>2, <1>5 DEF Rank
  <2>3. QED
    BY <2>1, <2>2 DEF OfRanksBelow
<1>11. IsFiniteSet(V) /\ IsFiniteSet(X)
  BY CountsTyped, FS_Subset DEF OfRanksBelow
<1> HIDE DEF V, X, c, Bad
<1>12. Cardinality(V \cup X) = Cardinality(V) + Cardinality(X)
  <2>1. Cardinality(V \cap X) = 0
    BY <1>10, FS_EmptySet
  <2>2. Cardinality(V) \in Nat /\ Cardinality(X) \in Nat
    BY <1>11, FS_CardinalityType
  <2>3. Cardinality(V \cup X) = Cardinality(V) + Cardinality(X) - Cardinality(V \cap X)
    BY <1>11, FS_Union
  <2>4. QED
    BY <2>1, <2>2, <2>3
<1>13. CountBelow(c, p + 1) = CountBelow(c, p) + c[p]
  BY <1>5, CountsAdd
<1>14. QED
  BY <1>4, <1>7, <1>8, <1>9, <1>10, <1>12, <1>13 DEF V

\* When a batch is sorted, the first of it are the entries of the first ranks.
LEMMA InBuckets ==
  ASSUME NEW b, Valid(b), NEW q \in 0 .. WorldSize
  PROVE  /\ CountBelow(CountsOf(b), q) \in 0 .. Len(b)
         /\ \A j \in 1 .. Len(b) :
              j <= CountBelow(CountsOf(b), q)
                <=> b[Sorted(b)[j]] >= 0 /\ Owner(b[Sorted(b)[j]]) < q
<1> DEFINE n == Len(b)
           order == Sorted(b)
           V == OfRanksBelow(b, q)
           P == {j \in 1 .. n : order[j] \in V}
           f == [j \in P |-> order[j]]
<1>1. /\ n \in Nat /\ DOMAIN b = 1 .. n /\ order \in [1 .. n -> 1 .. n]
      /\ \A i \in 1 .. n : \E j \in 1 .. n : order[j] = i
      /\ \A i, j \in 1 .. n : order[i] = order[j] => i = j
      /\ \A i, j \in 1 .. n : i < j => SortKey(b[order[i]]) <= SortKey(b[order[j]])
  BY SortedPermutes, ValidSortable
<1>2. \A i \in DOMAIN b : b[i] >= 0 => b[i] \in Entry /\ Owner(b[i]) \in Rank
  BY CountsTyped
<1>3. \A i \in DOMAIN b : /\ SortKey(b[i]) \in Int /\ b[i] \in Int
                          /\ b[i] >= 0 => SortKey(b[i]) = b[i] /\ b[i] < Total
                          /\ b[i] < 0 => SortKey(b[i]) >= Total
  BY Keys DEF Valid
<1> HIDE DEF order
<1>4. V \in SUBSET (1 .. n)
  BY <1>1 DEF OfRanksBelow
<1>5. ASSUME NEW j \in P, NEW i \in 1 .. n, i < j PROVE i \in P
  <2>1. j \in 1 .. n /\ b[order[j]] >= 0 /\ Owner(b[order[j]]) < q /\ order[j] \in DOMAIN b
        /\ order[i] \in DOMAIN b
    BY <1>1 DEF OfRanksBelow
  <2>2. SortKey(b[order[i]]) <= SortKey(b[order[j]])
    BY <1>1, <1>5, <2>1
  <2>3. b[order[i]] >= 0 /\ b[order[i]] <= b[order[j]]
    BY <1>3, <2>1, <2>2, TableSize
  <2>4. Owner(b[order[i]]) <= Owner(b[order[j]])
    BY <1>2, <2>1, <2>3, OwnersAscend
  <2>5. Owner(b[order[i]]) < q
    BY <1>2, <2>1, <2>3, <2>4 DEF Rank
  <2>6. QED
    BY <2>1, <2>3, <2>5 DEF OfRanksBelow
<1>6. Cardinality(P) \in 0 .. n /\ P = 1 .. Cardinality(P)
  <2>1. n \in Nat /\ P \in SUBSET (1 .. n) /\ \A j \in P : \A i \in 1 .. n : i < j => i \in P
    BY <1>1, <1>5
  <2> HIDE DEF P, n
  <2>2. QED
    BY <2>1, FirstFew
<1>7. Cardinality(P) = Cardinality(V)
  <2>1. \A j \in P : f[j] \in V
    OBVIOUS
  <2>2. \A i, j \in P : f[i] = f[j] => i = j
    BY <1>1
  <2>3. ASSUME NEW i \in V PROVE \E j \in P : f[j] = i
    <3>1. PICK j \in 1 .. n : order[j] = i
      BY <1>1, <1>4
    <3>2. QED
      BY <3>1
  <2>4. IsFiniteSet(P) /\ IsFiniteSet(V)
    <3>1. IsFiniteSet(1 .. n) /\ P \in SUBSET (1 .. n)
      BY <1>1, Interval
    <3>2. QED
      BY <1>4, <3>1, FS_Subset
  <2>5. f \in Bijection(P, V)
    <3>1. f \in [P -> V]
      BY <2>1
    <3> HIDE DEF f, P, V
    <3>2. QED
      BY <2>2, <2>3, <3>1 DEF Bijection, Injection, Surjection, IsInjective
  <2> HIDE DEF f, P, V
  <2>6. ExistsBijection(P, V)
    BY <2>5 DEF ExistsBijection
  <2>7. QED
    BY <2>4, <2>6, FS_Bijection
<1>8. CountBelow(CountsOf(b), q) = Cardinality(P)
  BY <1>7, BelowCounted DEF V
<1>9. \A j \in 1 .. n : j \in P <=> b[order[j]] >= 0 /\ Owner(b[order[j]]) < q
  BY <1>1 DEF OfRanksBelow
<1>10. \A j \in 1 .. n : j \in P <=> j <= Cardinality(P)
  <2> DEFINE m == Cardinality(P)
  <2>1. m \in 0 .. n /\ P = 1 .. m
    BY <1>6
  <2> HIDE DEF P, m
  <2>2. \A j \in 1 .. n : j \in 1 .. m <=> j <= m
    BY <1>1
  <2>3. \A j \in 1 .. n : j \in P <=> j <= m
    BY <2>1, <2>2
  <2>4. QED
    BY <2>3 DEF m
<1> HIDE DEF P, V, n
<1>11. QED
  BY <1>6, <1>8, <1>9, <1>10 DEF n, order

\* The sums go up with the ranks, and each number up to the last lies in one count.
LEMMA CountsAscend ==
  ASSUME NEW c \in [Rank -> Nat]
  PROVE  /\ \A q \in 0 .. WorldSize : CountBelow(c, q) <= CountBelow(c, WorldSize)
         /\ \A j \in 1 .. CountBelow(c, WorldSize) :
              \E q \in Rank : \E m \in 1 .. c[q] : j = CountBelow(c, q) + m
<1>1. /\ WorldSize \in Nat \ {0}
      /\ \A q \in 0 .. WorldSize : CountBelow(c, q) \in Nat
      /\ CountBelow(c, 0) = 0
      /\ \A q \in Rank : CountBelow(c, q + 1) = CountBelow(c, q) + c[q]
  BY TableSize, CountsAdd
<1>2. \A q \in 0 .. WorldSize : CountBelow(c, q) <= CountBelow(c, WorldSize)
  <2> DEFINE Bad == {q \in 0 .. WorldSize : ~ (CountBelow(c, q) <= CountBelow(c, WorldSize))}
  <2>1. SUFFICES ASSUME Bad # {} PROVE FALSE
    OBVIOUS
  <2>2. Bad \in SUBSET Nat /\ WorldSize \in Nat /\ \A q \in Bad : q <= WorldSize
    BY <1>1
  <2>3. PICK q \in Bad : \A p \in Bad : p <= q
    BY <2>1, <2>2, LargestElement
  <2>4. q \in 0 .. WorldSize /\ ~ (CountBelow(c, q) <= CountBelow(c, WorldSize))
    OBVIOUS
  <2>5. q # WorldSize
    BY <1>1, <2>4
  <2>6. q \in Rank /\ q + 1 \in 0 .. WorldSize /\ q + 1 \notin Bad
    BY <1>1, <2>3, <2>4, <2>5 DEF Rank
  <2>7. CountBelow(c, q + 1) <= CountBelow(c, WorldSize)
    BY <2>6
  <2>8. CountBelow(c, q) <= CountBelow(c, q + 1)
    BY <1>1, <2>4, <2>6
  <2>9. WorldSize \in 0 .. WorldSize
    BY <1>1
  <2>10. QED
    BY <1>1, <2>4, <2>6, <2>7, <2>8, <2>9
<1>3. ASSUME NEW j \in 1 .. CountBelow(c, WorldSize)
      PROVE  \E q \in Rank : \E m \in 1 .. c[q] : j = CountBelow(c, q) + m
  <2> DEFINE Good == {q \in 0 .. WorldSize : j <= CountBelow(c, q)}
  <2>1. WorldSize \in Good /\ Good \in SUBSET Nat
    BY <1>1
  <2>2. PICK q \in Good : \A p \in Good : q <= p
    BY <2>1, LeastElement
  <2>3. q \in 0 .. WorldSize /\ j <= CountBelow(c, q) /\ j \in Nat /\ j > 0
    BY <1>1
  <2>4. q # 0
    BY <1>1, <2>3
  <2>5. PICK p \in Rank : p + 1 = q /\ p \in 0 .. WorldSize /\ p \notin Good
    <3>1. q - 1 \in Rank /\ (q - 1) + 1 = q /\ q - 1 \in 0 .. WorldSize
      BY <1>1, <2>3, <2>4 DEF Rank
    <3>2. q - 1 \notin Good
      BY <2>2, <2>3
    <3>3. QED
      BY <3>1, <3>2
  <2>6. CountBelow(c, p) < j /\ CountBelow(c, q) = CountBelow(c, p) + c[p]
        /\ CountBelow(c, p) \in Nat /\ c[p] \in Nat
    BY <1>1, <2>3, <2>5
  <2>7. j - CountBelow(c, p) \in 1 .. c[p] /\ j = CountBelow(c, p) + (j - CountBelow(c, p))
    BY <2>3, <2>6
  <2>8. QED
    BY <2>7
<1>4. QED
  BY <1>2, <1>3

\* A function on the first d numbers is a sequence of length d.
LEMMA Sequenced ==
  ASSUME NEW T, NEW d \in Nat, NEW r \in [1 .. d -> T]
  PROVE  r \in Seq(T) /\ Len(r) = d
OBVIOUS

\* A sequence of as much as is counted is cut into pieces.
Suffices(s, n, T, c) ==
  /\ n \in Nat /\ s \in [1 .. n -> T]
  /\ c \in [Rank -> Nat] /\ CountBelow(c, WorldSize) <= n

\* Each piece has as much as was counted for its rank, from where the counts of the
\* ranks before it end.
LEMMA PiecesOf ==
  ASSUME NEW n, NEW T, NEW s, NEW c, Suffices(s, n, T, c), NEW q \in Rank
  PROVE  /\ Pieces(s, c)[q] \in Seq(T) /\ Len(Pieces(s, c)[q]) = c[q]
         /\ \A m \in 1 .. c[q] : /\ CountBelow(c, q) + m \in 1 .. n
                                 /\ Pieces(s, c)[q][m] = s[CountBelow(c, q) + m]
<1>1. /\ WorldSize \in Nat \ {0} /\ q \in 0 .. WorldSize /\ q + 1 \in 0 .. WorldSize
      /\ WorldSize \in 0 .. WorldSize
  BY TableSize DEF Rank
<1> USE DEF Suffices
<1>2. PICK a \in Nat, d \in Nat :
        /\ a = CountBelow(c, q) /\ d = c[q] /\ CountBelow(c, q + 1) = a + d /\ a + d <= n
  <2>1. /\ CountBelow(c, q) \in Nat /\ c[q] \in Nat /\ CountBelow(c, WorldSize) \in Nat
        /\ CountBelow(c, q + 1) = CountBelow(c, q) + c[q]
    BY <1>1, CountsAdd
  <2>2. CountBelow(c, q + 1) <= CountBelow(c, WorldSize)
    BY <1>1, CountsAscend
  <2>3. QED
    BY <2>1, <2>2
<1>3. Pieces(s, c)[q] = SubSeq(s, a + 1, a + d)
  BY <1>2 DEF Pieces
<1>4. s \in Seq(T) /\ Len(s) = n
  OBVIOUS
<1>5. /\ SubSeq(s, a + 1, a + d) \in Seq(T) /\ Len(SubSeq(s, a + 1, a + d)) = d
      /\ \A m \in 1 .. d : SubSeq(s, a + 1, a + d)[m] = s[a + m]
  <2>1. \A m \in 1 .. d : /\ a + 1 + m - 1 = a + m
                          /\ s[a + m] \in T
    BY <1>2
  <2>2. a + 1 \in 1 .. Len(s) + 1 /\ a + d \in a + 1 - 1 .. Len(s) /\ a + d - (a + 1) + 1 = d
    BY <1>2, <1>4, SMTT(30)
  <2>3. SubSeq(s, a + 1, a + d) = [m \in 1 .. d |-> s[a + m]]
    <3>1. SubSeq(s, a + 1, a + d) = [m \in 1 .. a + d - (a + 1) + 1 |-> s[m + (a + 1) - 1]]
      BY SMT
    <3>2. \A m \in 1 .. d : m + (a + 1) - 1 = a + m
      BY <1>2
    <3>3. [m \in 1 .. d |-> s[m + (a + 1) - 1]] = [m \in 1 .. d |-> s[a + m]]
      BY <3>2
    <3>4. QED
      BY <2>2, <3>1, <3>3
  <2> DEFINE r == [m \in 1 .. d |-> s[a + m]]
  <2>4. r \in [1 .. d -> T] /\ \A m \in 1 .. d : r[m] = s[a + m]
    BY <2>1
  <2> HIDE DEF r
  <2>5. r \in Seq(T) /\ Len(r) = d
    BY <2>4, Sequenced
  <2>6. SubSeq(s, a + 1, a + d) = r
    BY <2>3 DEF r
  <2>7. QED
    BY <2>4, <2>5, <2>6, Zenon
<1>6. \A m \in 1 .. d : a + m \in 1 .. n
  BY <1>2
<1>7. QED
  BY <1>2, <1>3, <1>5, <1>6

-----------------------------------------------------------------------------
\* The concatenations of the first few of n sequences, as the library computes them.
Chained(s, n, f) == f = [i \in 1 .. n |-> IF i = 1 THEN s[i] ELSE f[i - 1] \o s[i]]

\* There are such concatenations: each is found from the one before.
LEMMA ChainExists ==
  ASSUME NEW s, NEW n \in Nat \ {0}
  PROVE  \E f : Chained(s, n, f)
<1> DEFINE Bad == {m \in Nat \ {0} : ~ \E f : Chained(s, m, f)}
<1>1. SUFFICES ASSUME Bad # {} PROVE FALSE
  OBVIOUS
<1>2. PICK m \in Bad : \A k \in Bad : m <= k
  BY <1>1, LeastElement
<1>3. m # 1
  <2>1. Chained(s, 1, [i \in 1 .. 1 |-> s[i]])
    BY DEF Chained
  <2>2. QED
    BY <1>2, <2>1
<1>4. m - 1 \in Nat \ {0} /\ m - 1 \notin Bad
  BY <1>2, <1>3
<1>5. PICK f : Chained(s, m - 1, f)
  BY <1>4
<1> DEFINE last == f[m - 1] \o s[m]
<1> HIDE DEF last
<1> DEFINE g == [i \in 1 .. m |-> IF i = m THEN last ELSE f[i]]
<1>6. Chained(s, m, g)
  <2>1. \A i \in 1 .. m - 1 : g[i] = f[i]
    BY <1>4
  <2>2. g[m] = f[m - 1] \o s[m] /\ m - 1 \in 1 .. m - 1
    <3>1. g[m] = last /\ m - 1 \in 1 .. m - 1
      BY <1>4
    <3>2. QED
      BY <3>1 DEF last
  <2>3. \A i \in 1 .. m - 1 : f[i] = IF i = 1 THEN s[i] ELSE f[i - 1] \o s[i]
    BY <1>5 DEF Chained
  <2>4. \A i \in 1 .. m : g[i] = IF i = 1 THEN s[i] ELSE g[i - 1] \o s[i]
    <3>1. TAKE i \in 1 .. m
    <3>2. CASE i = m
      <4>1. i # 1 /\ g[i - 1] = f[m - 1] /\ g[i] = f[m - 1] \o s[m]
        BY <1>3, <2>1, <2>2, <3>2
      <4>2. QED
        BY <3>2, <4>1
    <3>3. CASE i # m
      <4>1. i \in 1 .. m - 1 /\ (i # 1 => i - 1 \in 1 .. m - 1)
        BY <1>4, <3>3
      <4>2. QED
        BY <2>1, <2>3, <4>1
    <3>4. QED
      BY <3>2, <3>3
  <2>5. g = [i \in 1 .. m |-> g[i]]
    OBVIOUS
  <2> HIDE DEF g
  <2>6. QED
    BY <2>4, <2>5 DEF Chained
<1>7. QED
  BY <1>2, <1>6

\* What the concatenation of two sequences has of each.
LEMMA Concatenated ==
  ASSUME NEW T, NEW g \in Seq(T), NEW t \in Seq(T)
  PROVE  /\ Len(g) \in Nat /\ Len(t) \in Nat
         /\ g \o t \in Seq(T) /\ Len(g \o t) = Len(g) + Len(t)
         /\ \A j \in 1 .. Len(g) : (g \o t)[j] = g[j]
         /\ \A j \in 1 .. Len(t) : (g \o t)[Len(g) + j] = t[j]
OBVIOUS

\* How long the sequences are up to each.
Lengths(s, n, below) ==
  /\ below \in [0 .. n -> Nat] /\ below[0] = 0
  /\ \A q \in 1 .. n : below[q] = below[q - 1] + Len(s[q])

\* x has the first i sequences, each after those before it.
HasFirst(s, below, i, x) ==
  /\ Len(x) = below[i]
  /\ \A q \in 1 .. i : /\ below[q - 1] + Len(s[q]) <= below[i]
                        /\ \A m \in 1 .. Len(s[q]) : x[below[q - 1] + m] = s[q][m]

\* One more sequence comes after those there are.
LEMMA HasNext ==
  ASSUME NEW n \in Nat \ {0}, NEW T, NEW s \in [1 .. n -> Seq(T)], NEW below, Lengths(s, n, below),
         NEW i \in 1 .. n, i # 1, NEW g \in Seq(T), HasFirst(s, below, i - 1, g)
  PROVE  g \o s[i] \in Seq(T) /\ HasFirst(s, below, i, g \o s[i])
<1>1. PICK t \in Seq(T) : t = s[i]
  OBVIOUS
<1>2. /\ Len(g) \in Nat /\ Len(t) \in Nat
      /\ g \o t \in Seq(T) /\ Len(g \o t) = Len(g) + Len(t)
      /\ \A j \in 1 .. Len(g) : (g \o t)[j] = g[j]
      /\ \A j \in 1 .. Len(t) : (g \o t)[Len(g) + j] = t[j]
  BY Concatenated
<1> DEFINE x == g \o t
<1> HIDE DEF x
<1>3. /\ x \in Seq(T) /\ Len(x) = Len(g) + Len(t)
      /\ \A j \in 1 .. Len(g) : x[j] = g[j]
      /\ \A j \in 1 .. Len(t) : x[Len(g) + j] = t[j]
  BY <1>2 DEF x
<1>4. Len(g) = below[i - 1] /\ below[i] = below[i - 1] + Len(t)
  BY <1>1 DEF HasFirst, Lengths
<1>5. ASSUME NEW q \in 1 .. i
      PROVE  /\ below[q - 1] + Len(s[q]) <= below[i]
             /\ \A m \in 1 .. Len(s[q]) : x[below[q - 1] + m] = s[q][m]
  <2>1. PICK a \in Nat, d \in Nat : a = below[q - 1] /\ d = Len(s[q])
    <3>1. q \in 1 .. n /\ q - 1 \in 0 .. n
      OBVIOUS
    <3>2. PICK u \in Seq(T) : u = s[q]
      BY <3>1
    <3>3. Len(u) \in Nat
      OBVIOUS
    <3>4. below[q - 1] \in Nat
      BY <3>1 DEF Lengths
    <3>5. QED
      BY <3>2, <3>3, <3>4, Zenon
  <2>2. CASE q = i
    <3>1. a = Len(g) /\ s[q] = t /\ a + d = below[i]
      BY <1>1, <1>4, <2>1, <2>2
    <3>2. \A m \in 1 .. d : x[a + m] = s[q][m]
      <4>1. d = Len(t) /\ s[q] = t
        BY <2>1, <3>1, Zenon
      <4>2. \A m \in 1 .. d : x[Len(g) + m] = t[m]
        BY <1>3, <4>1, Zenon
      <4>3. QED
        BY <3>1, <4>1, <4>2, Zenon
    <3>3. a + d <= below[i]
      BY <2>1, <3>1
    <3>4. QED
      BY <2>1, <3>2, <3>3, Zenon
  <2>3. CASE q # i
    <3>1. q \in 1 .. i - 1
      BY <2>3
    <3>2. a + d <= Len(g) /\ \A m \in 1 .. d : g[a + m] = s[q][m]
      <4>1. /\ below[q - 1] + Len(s[q]) <= below[i - 1]
            /\ \A m \in 1 .. Len(s[q]) : g[below[q - 1] + m] = s[q][m]
        BY <3>1 DEF HasFirst
      <4>2. /\ a + d <= below[i - 1]
            /\ \A m \in 1 .. d : g[a + m] = s[q][m]
        BY <2>1, <4>1, Zenon
      <4>3. QED
        BY <1>4, <4>2, Zenon
    <3>3. \A m \in 1 .. d : a + m \in 1 .. Len(g)
      <4>1. PICK k \in Nat : k = Len(g)
        BY <1>2
      <4>2. \A m \in 1 .. d : a + m \in 1 .. k
        BY <3>2, <4>1
      <4>3. QED
        BY <4>1, <4>2
    <3>4. \A m \in 1 .. d : x[a + m] = s[q][m]
      BY <1>3, <3>2, <3>3
    <3>5. a + d <= below[i]
      <4>1. PICK k \in Nat, l \in Nat : k = Len(g) /\ l = Len(t)
        BY <1>2
      <4>2. a + d <= k /\ below[i] = k + l
        BY <1>4, <3>2, <4>1
      <4>3. QED
        BY <4>2
    <3>6. QED
      BY <2>1, <3>4, <3>5
  <2>4. QED
    BY <2>2, <2>3
<1>6. HasFirst(s, below, i, x)
  BY <1>3, <1>4, <1>5 DEF HasFirst
<1>7. QED
  BY <1>1, <1>3, <1>6 DEF x

\* So the library's concatenation has all of them.
LEMMA Flattened ==
  ASSUME NEW n \in Nat \ {0}, NEW T, NEW s \in [1 .. n -> Seq(T)], NEW below, Lengths(s, n, below)
  PROVE  FlattenSeq(s) \in Seq(T) /\ HasFirst(s, below, n, FlattenSeq(s))
<1>1. Len(s) = n /\ n # 0
  OBVIOUS
<1>2. PICK f : Chained(s, n, f) /\ FlattenSeq(s) = f[n]
  <2>1. \E f : Chained(s, n, f)
    BY ChainExists
  <2>2. FlattenSeq(s) = (CHOOSE f : Chained(s, n, f))[n]
    BY <1>1 DEF FlattenSeq, Chained
  <2>3. QED
    BY <2>1, <2>2
<1>3. /\ f[1] = s[1] /\ 1 \in 1 .. n
      /\ \A i \in 1 .. n : i # 1 => f[i] = f[i - 1] \o s[i]
  <2>1. \A i \in 1 .. n : f[i] = IF i = 1 THEN s[i] ELSE f[i - 1] \o s[i]
    BY <1>2, Zenon DEF Chained
  <2>2. 1 \in 1 .. n
    OBVIOUS
  <2>3. QED
    BY <2>1, <2>2, Zenon
<1>4. f[1] \in Seq(T) /\ HasFirst(s, below, 1, f[1])
  <2>1. PICK t \in Seq(T) : t = s[1] /\ f[1] = t
    BY <1>3
  <2>2. below[1] = Len(t) /\ below[1 - 1] = 0 /\ Len(t) \in Nat
    BY <1>3, <2>1 DEF Lengths
  <2>3. \A q \in 1 .. 1 : q = 1
    OBVIOUS
  <2>4. \A m \in 1 .. Len(t) : 0 + m = m
    BY <2>2
  <2>5. QED
    BY <2>1, <2>2, <2>3, <2>4 DEF HasFirst
<1> DEFINE Bad == {i \in 1 .. n : ~ (f[i] \in Seq(T) /\ HasFirst(s, below, i, f[i]))}
<1>5. Bad = {}
  <2>1. SUFFICES ASSUME Bad # {} PROVE FALSE
    OBVIOUS
  <2>2. Bad \in SUBSET Nat
    OBVIOUS
  <2>3. PICK i \in Bad : \A k \in Bad : i <= k
    BY <2>1, <2>2, LeastElement
  <2>4. i \in 1 .. n /\ i # 1
    BY <1>4
  <2>5. i - 1 \in 1 .. n /\ i - 1 \notin Bad
    <3>1. i - 1 \in 1 .. n /\ ~ (i <= i - 1)
      BY <2>4
    <3> HIDE DEF Bad
    <3>2. QED
      BY <2>3, <3>1
  <2>6. f[i - 1] \in Seq(T) /\ HasFirst(s, below, i - 1, f[i - 1]) /\ f[i] = f[i - 1] \o s[i]
    BY <1>3, <2>4, <2>5
  <2>7. f[i] \in Seq(T) /\ HasFirst(s, below, i, f[i])
    <3>1. \A g \in Seq(T) : HasFirst(s, below, i - 1, g)
                            => g \o s[i] \in Seq(T) /\ HasFirst(s, below, i, g \o s[i])
      <4> HIDE DEF Bad
      <4>1. QED
        BY <2>4, HasNext
    <3>2. QED
      BY <2>6, <3>1, Zenon
  <2>8. QED
    BY <2>3, <2>7
<1>6. n \in 1 .. n
  OBVIOUS
<1>7. QED
  BY <1>2, <1>5, <1>6

\* What a rank has of all of them, given how much it has of each.
Sizes(out, r, T, c) ==
  /\ c \in [Rank -> Nat]
  /\ \A q \in Rank : out[q][r] \in Seq(T) /\ Len(out[q][r]) = c[q]

\* A rank has as much of all of them as its counts say, that of each in its place.
LEMMA Collected ==
  ASSUME NEW T, NEW out, NEW r, NEW c, Sizes(out, r, T, c)
  PROVE  /\ FromAll(out, r) \in Seq(T) /\ Len(FromAll(out, r)) = CountBelow(c, WorldSize)
         /\ \A q \in Rank : \A m \in 1 .. c[q] :
              /\ CountBelow(c, q) + m \in 1 .. CountBelow(c, WorldSize)
              /\ FromAll(out, r)[CountBelow(c, q) + m] = out[q][r][m]
<1> USE DEF Sizes
<1> DEFINE s == [i \in 1 .. WorldSize |-> out[i - 1][r]]
           below == [i \in 0 .. WorldSize |-> CountBelow(c, i)]
<1>1. /\ WorldSize \in Nat \ {0}
      /\ \A i \in 1 .. WorldSize : i - 1 \in Rank /\ (i - 1) + 1 = i /\ i - 1 \in 0 .. WorldSize
                                   /\ i \in 0 .. WorldSize
      /\ \A q \in Rank : q + 1 \in 1 .. WorldSize /\ (q + 1) - 1 = q
      /\ 0 \in 0 .. WorldSize /\ WorldSize \in 0 .. WorldSize
  BY TableSize DEF Rank
<1>2. /\ \A q \in 0 .. WorldSize : CountBelow(c, q) \in Nat
      /\ CountBelow(c, 0) = 0
      /\ \A q \in Rank : CountBelow(c, q + 1) = CountBelow(c, q) + c[q]
  BY CountsAdd
<1>3. /\ s \in [1 .. WorldSize -> Seq(T)]
      /\ \A i \in 1 .. WorldSize : s[i] = out[i - 1][r] /\ Len(s[i]) = c[i - 1]
  BY <1>1
<1>4. /\ below \in [0 .. WorldSize -> Nat] /\ below[0] = 0
      /\ \A i \in 0 .. WorldSize : below[i] = CountBelow(c, i)
  BY <1>1, <1>2
<1>5. FromAll(out, r) = FlattenSeq(s)
  BY DEF FromAll
<1> HIDE DEF s, below
<1>6. \A i \in 1 .. WorldSize : below[i] = below[i - 1] + Len(s[i])
  <2>1. TAKE i \in 1 .. WorldSize
  <2>2. CountBelow(c, (i - 1) + 1) = CountBelow(c, i - 1) + c[i - 1]
    BY <1>1, <1>2
  <2>3. CountBelow(c, i) = CountBelow(c, i - 1) + c[i - 1]
    BY <1>1, <2>2
  <2>4. QED
    BY <1>1, <1>3, <1>4, <2>3
<1>7. Lengths(s, WorldSize, below)
  BY <1>4, <1>6 DEF Lengths
<1>8. FlattenSeq(s) \in Seq(T) /\ HasFirst(s, below, WorldSize, FlattenSeq(s))
  BY <1>1, <1>3, <1>7, Flattened
<1> DEFINE x == FlattenSeq(s)
<1> HIDE DEF x
<1>9. Len(x) = CountBelow(c, WorldSize)
  BY <1>1, <1>4, <1>8 DEF HasFirst, x
<1>10. ASSUME NEW q \in Rank, NEW m \in 1 .. c[q]
       PROVE  /\ CountBelow(c, q) + m \in 1 .. CountBelow(c, WorldSize)
              /\ x[CountBelow(c, q) + m] = out[q][r][m]
  <2>1. q + 1 \in 1 .. WorldSize /\ (q + 1) - 1 = q /\ q \in 0 .. WorldSize
    BY <1>1
  <2>2. /\ below[(q + 1) - 1] + Len(s[q + 1]) <= below[WorldSize]
        /\ \A k \in 1 .. Len(s[q + 1]) : x[below[(q + 1) - 1] + k] = s[q + 1][k]
    BY <1>8, <2>1 DEF HasFirst, x
  <2>3. s[q + 1] = out[(q + 1) - 1][r] /\ Len(s[q + 1]) = c[(q + 1) - 1]
    BY <1>3, <2>1
  <2>4. /\ CountBelow(c, q) + c[q] <= CountBelow(c, WorldSize)
        /\ \A k \in 1 .. c[q] : x[CountBelow(c, q) + k] = out[q][r][k]
    BY <1>1, <1>4, <2>1, <2>2, <2>3
  <2>5. CountBelow(c, q) \in Nat /\ CountBelow(c, WorldSize) \in Nat /\ c[q] \in Nat
    BY <1>1, <1>2, <2>1
  <2>6. QED
    BY <2>4, <2>5
<1>11. QED
  BY <1>5, <1>8, <1>9, <1>10 DEF x

\* It does not depend on more than that.
LEMMA CollectedAlike ==
  ASSUME NEW out, NEW more, NEW r, \A q \in Rank : out[q][r] = more[q][r]
  PROVE  FromAll(out, r) = FromAll(more, r)
<1>1. \A i \in 1 .. WorldSize : i - 1 \in Rank
  BY TableSize DEF Rank
<1>2. [i \in 1 .. WorldSize |-> out[i - 1][r]] = [i \in 1 .. WorldSize |-> more[i - 1][r]]
  BY <1>1
<1>3. QED
  BY <1>2 DEF FromAll

-----------------------------------------------------------------------------
\* A call with the batches B: the indices q sends, what r receives, and the rows that
\* the owners send back or the callers send along.
Batched(B) == \A q \in Rank : Valid(B[q])

SentBy(B, q) == Pieces([i \in DOMAIN B[q] |-> B[q][Sorted(B[q])[i]]], CountsOf(B[q]))

ReceivedBy(B, r) == FromAll([q \in Rank |-> SentBy(B, q)], r)

CountedFor(B, r) == [q \in Rank |-> CountsOf(B[q])[r]]

RowIn(memory, r, e) == IF Owns(Offsets, r, e) THEN memory[e] ELSE OutOfBounds

RowsFrom(B, r, memory) ==
  Pieces([i \in DOMAIN ReceivedBy(B, r) |-> RowIn(memory, r, ReceivedBy(B, r)[i])],
         CountedFor(B, r))

RowsOf(B, k, r) ==
  Pieces([i \in DOMAIN Sorted(B[r]) |-> Row(k, r, Sorted(B[r])[i])], CountsOf(B[r]))

Answered(B, memory, out) == \A q \in Rank : out[q] = RowsFrom(B, q, memory[q])
Brought(B, k, out)       == \A q \in Rank : out[q] = RowsOf(B, k, q)

\* Position j of a sorted batch is the m-th that is sent to q, its owner.
LEMMA Position ==
  ASSUME NEW b, Valid(b), NEW q \in Rank, NEW m \in 1 .. CountsOf(b)[q]
  PROVE  LET j == CountBelow(CountsOf(b), q) + m
         IN  /\ j \in 1 .. Len(b) /\ Sorted(b)[j] \in DOMAIN b
             /\ b[Sorted(b)[j]] \in Entry /\ Owner(b[Sorted(b)[j]]) = q
<1> DEFINE j == CountBelow(CountsOf(b), q) + m
<1>1. /\ CountsOf(b) \in [Rank -> Nat]
      /\ \A i \in DOMAIN b : b[i] >= 0 => b[i] \in Entry /\ Owner(b[i]) \in Rank
  BY CountsTyped
<1>2. q \in 0 .. WorldSize /\ q + 1 \in 0 .. WorldSize /\ q \in Nat
  BY TableSize DEF Rank
<1>3. PICK a \in Nat, d \in Nat :
        /\ a = CountBelow(CountsOf(b), q) /\ d = CountsOf(b)[q]
        /\ CountBelow(CountsOf(b), q + 1) = a + d
  BY <1>1, <1>2, CountsAdd
<1>4. j = a + m /\ m \in 1 .. d
  BY <1>3
<1>5. a + d \in 0 .. Len(b) /\ Len(b) \in Nat
  BY <1>2, <1>3, InBuckets, SMTT(30) DEF Valid
<1>6. j \in 1 .. Len(b) /\ j <= a + d /\ ~ (j <= a)
  BY <1>4, <1>5
<1>7. /\ j <= a + d <=> b[Sorted(b)[j]] >= 0 /\ Owner(b[Sorted(b)[j]]) < q + 1
      /\ j <= a <=> b[Sorted(b)[j]] >= 0 /\ Owner(b[Sorted(b)[j]]) < q
  <2>1. \A i \in 1 .. Len(b) : i <= CountBelow(CountsOf(b), q + 1)
                               <=> b[Sorted(b)[i]] >= 0 /\ Owner(b[Sorted(b)[i]]) < q + 1
    BY <1>2, InBuckets
  <2>2. \A i \in 1 .. Len(b) : i <= CountBelow(CountsOf(b), q)
                               <=> b[Sorted(b)[i]] >= 0 /\ Owner(b[Sorted(b)[i]]) < q
    BY <1>2, InBuckets
  <2> HIDE DEF j
  <2>3. QED
    BY <1>3, <1>6, <2>1, <2>2
<1> HIDE DEF j
<1>8. Sorted(b)[j] \in DOMAIN b
  <2>1. Sortable(b)
    BY ValidSortable
  <2>2. DOMAIN b = 1 .. Len(b) /\ Sorted(b) \in [1 .. Len(b) -> 1 .. Len(b)]
    BY <2>1, SortedPermutes
  <2>3. QED
    BY <1>6, <2>2
<1>9. PICK p \in DOMAIN b : p = Sorted(b)[j]
  BY <1>8
<1>10. b[p] >= 0 /\ Owner(b[p]) < q + 1 /\ ~ (Owner(b[p]) < q)
  BY <1>6, <1>7, <1>9
<1>11. b[p] \in Entry /\ Owner(b[p]) \in Rank
  BY <1>1, <1>10
<1>12. Owner(b[p]) = q
  BY <1>2, <1>10, <1>11, TableSize DEF Rank
<1>13. QED
  BY <1>6, <1>9, <1>11, <1>12 DEF j

\* A rank sends to each owner as many indices as it counted for it, all of them of
\* entries of that owner.
LEMMA IdsSent ==
  ASSUME NEW B, Batched(B), NEW q \in Rank, NEW r \in Rank
  PROVE  /\ SentBy(B, q)[r] \in Seq(Entry) /\ Len(SentBy(B, q)[r]) = CountsOf(B[q])[r]
         /\ CountsOf(B[q]) \in [Rank -> Nat]
         /\ \A m \in 1 .. CountsOf(B[q])[r] :
              /\ SentBy(B, q)[r][m] = B[q][Sorted(B[q])[CountBelow(CountsOf(B[q]), r) + m]]
              /\ Owns(Offsets, r, SentBy(B, q)[r][m])
<1>1. PICK b : b = B[q] /\ Valid(b)
  BY DEF Batched
<1> DEFINE n == Len(b)
           c == CountsOf(b)
           s == [i \in 1 .. n |-> b[Sorted(b)[i]]]
<1>2. /\ n \in Nat /\ DOMAIN b = 1 .. n /\ c \in [Rank -> Nat]
      /\ WorldSize \in 0 .. WorldSize /\ WorldSize \in Nat
  BY <1>1, CountsTyped, TableSize
<1>3. CountBelow(c, WorldSize) \in 0 .. n
  BY <1>1, <1>2, InBuckets
<1>4. SentBy(B, q) = Pieces(s, c)
  BY <1>1, <1>2 DEF SentBy
<1> HIDE DEF n, c
<1>5. \A i \in 1 .. n : s[i] = b[Sorted(b)[i]]
  OBVIOUS
<1>6. PICK T : s \in [1 .. n -> T]
  <2>1. s \in [1 .. n -> {s[i] : i \in 1 .. n}]
    OBVIOUS
  <2> HIDE DEF s
  <2>2. QED
    BY <2>1
<1> HIDE DEF s
<1>7. CountBelow(c, WorldSize) <= n
  BY <1>2, <1>3
<1>8. /\ Len(Pieces(s, c)[r]) = c[r]
      /\ Pieces(s, c)[r] \in Seq(T)
      /\ \A m \in 1 .. c[r] : /\ CountBelow(c, r) + m \in 1 .. n
                              /\ Pieces(s, c)[r][m] = s[CountBelow(c, r) + m]
  <2>1. Suffices(s, n, T, c)
    BY <1>2, <1>6, <1>7 DEF Suffices
  <2>2. QED
    BY <2>1, PiecesOf
<1>9. ASSUME NEW m \in 1 .. c[r]
      PROVE  /\ Pieces(s, c)[r][m] = b[Sorted(b)[CountBelow(c, r) + m]]
             /\ Pieces(s, c)[r][m] \in Entry /\ Owns(Offsets, r, Pieces(s, c)[r][m])
  <2>1. Pieces(s, c)[r][m] = b[Sorted(b)[CountBelow(c, r) + m]]
    BY <1>5, <1>8
  <2>2. /\ b[Sorted(b)[CountBelow(c, r) + m]] \in Entry
        /\ Owner(b[Sorted(b)[CountBelow(c, r) + m]]) = r
    BY <1>1, <1>9, Position DEF c
  <2>3. QED
    BY <2>1, <2>2, OwnerOf
<1>10. Pieces(s, c)[r] \in Seq(Entry)
  <2>1. PICK t \in Seq(T) : t = Pieces(s, c)[r] /\ Len(t) = c[r]
    BY <1>8
  <2>2. \A m \in 1 .. Len(t) : t[m] \in Entry
    BY <1>9, <2>1
  <2>3. t \in Seq(Entry)
    BY <2>2
  <2>4. QED
    BY <2>1, <2>3
<1>11. QED
  BY <1>1, <1>2, <1>4, <1>8, <1>9, <1>10 DEF c

\* Every entry of a batch is among those for its owner.
LEMMA PositionFor ==
  ASSUME NEW b, Valid(b), NEW p \in DOMAIN b, b[p] >= 0
  PROVE  \E m \in 1 .. CountsOf(b)[Owner(b[p])] :
            Sorted(b)[CountBelow(CountsOf(b), Owner(b[p])) + m] = p
<1>1. /\ CountsOf(b) \in [Rank -> Nat] /\ b[p] \in Entry /\ Owner(b[p]) \in Rank
      /\ Len(b) \in Nat /\ DOMAIN b = 1 .. Len(b)
  BY CountsTyped
<1>2. PICK q \in Rank : q = Owner(b[p])
  BY <1>1
<1>3. q \in 0 .. WorldSize /\ q + 1 \in 0 .. WorldSize /\ q \in Nat
  BY TableSize DEF Rank
<1>4. PICK a \in Nat, d \in Nat :
        /\ a = CountBelow(CountsOf(b), q) /\ d = CountsOf(b)[q]
        /\ CountBelow(CountsOf(b), q + 1) = a + d
  BY <1>1, <1>3, CountsAdd
<1>5. PICK j \in 1 .. Len(b) : Sorted(b)[j] = p
  BY <1>1, SortedPermutes, ValidSortable
<1>6. /\ j <= a + d <=> b[Sorted(b)[j]] >= 0 /\ Owner(b[Sorted(b)[j]]) < q + 1
      /\ j <= a <=> b[Sorted(b)[j]] >= 0 /\ Owner(b[Sorted(b)[j]]) < q
  <2>1. \A i \in 1 .. Len(b) : i <= CountBelow(CountsOf(b), q + 1)
                               <=> b[Sorted(b)[i]] >= 0 /\ Owner(b[Sorted(b)[i]]) < q + 1
    BY <1>3, InBuckets
  <2>2. \A i \in 1 .. Len(b) : i <= CountBelow(CountsOf(b), q)
                               <=> b[Sorted(b)[i]] >= 0 /\ Owner(b[Sorted(b)[i]]) < q
    BY <1>3, InBuckets
  <2>3. QED
    BY <1>4, <2>1, <2>2
<1>7. j <= a + d /\ ~ (j <= a) /\ j \in Nat
  <2>1. q < q + 1 /\ ~ (q < q)
    BY <1>3
  <2>2. QED
    BY <1>1, <1>2, <1>5, <1>6, <2>1
<1>8. j - a \in 1 .. d /\ a + (j - a) = j
  BY <1>7
<1>9. QED
  BY <1>2, <1>4, <1>5, <1>8

\* What a rank receives: all entries of the batches that it owns, and no others.
AllReceived(B, r) ==
  /\ ReceivedBy(B, r) \in Seq(Entry) /\ CountedFor(B, r) \in [Rank -> Nat]
  /\ Len(ReceivedBy(B, r)) = CountBelow(CountedFor(B, r), WorldSize)
  /\ \A q \in Rank : \A m \in 1 .. CountsOf(B[q])[r] :
       /\ CountBelow(CountedFor(B, r), q) + m \in 1 .. Len(ReceivedBy(B, r))
       /\ ReceivedBy(B, r)[CountBelow(CountedFor(B, r), q) + m] = SentBy(B, q)[r][m]
  /\ \A j \in 1 .. Len(ReceivedBy(B, r)) :
       \E q \in Rank : \E m \in 1 .. CountsOf(B[q])[r] :
          j = CountBelow(CountedFor(B, r), q) + m
  /\ \A j \in 1 .. Len(ReceivedBy(B, r)) : Owns(Offsets, r, ReceivedBy(B, r)[j])
  /\ \A q \in Rank : \A p \in DOMAIN B[q] :
       B[q][p] >= 0 /\ Owner(B[q][p]) = r
         => \E j \in 1 .. Len(ReceivedBy(B, r)) : ReceivedBy(B, r)[j] = B[q][p]

\* So it is at every rank.
LEMMA IdsReceived ==
  ASSUME NEW B, Batched(B), NEW r \in Rank
  PROVE  AllReceived(B, r)
<1> DEFINE c == CountedFor(B, r)
           out == [q \in Rank |-> SentBy(B, q)]
           x == ReceivedBy(B, r)
<1>1. /\ c \in [Rank -> Nat] /\ \A q \in Rank : c[q] = CountsOf(B[q])[r]
      /\ \A q \in Rank : /\ SentBy(B, q)[r] \in Seq(Entry) /\ Len(SentBy(B, q)[r]) = c[q]
                         /\ \A m \in 1 .. c[q] : Owns(Offsets, r, SentBy(B, q)[r][m])
  <2>1. \A q \in Rank : CountsOf(B[q])[r] \in Nat
    BY IdsSent
  <2>2. c \in [Rank -> Nat] /\ \A q \in Rank : c[q] = CountsOf(B[q])[r]
    BY <2>1 DEF CountedFor
  <2>3. QED
    BY <2>2, IdsSent
<1>2. x = FromAll(out, r) /\ \A q \in Rank : out[q] = SentBy(B, q)
  BY DEF ReceivedBy
<1> HIDE DEF c, out, x
<1>3. /\ x \in Seq(Entry) /\ Len(x) = CountBelow(c, WorldSize)
      /\ \A q \in Rank : \A m \in 1 .. c[q] :
           /\ CountBelow(c, q) + m \in 1 .. CountBelow(c, WorldSize)
           /\ x[CountBelow(c, q) + m] = SentBy(B, q)[r][m]
  <2>1. Sizes(out, r, Entry, c)
    BY <1>1, <1>2 DEF Sizes
  <2>2. /\ FromAll(out, r) \in Seq(Entry) /\ Len(FromAll(out, r)) = CountBelow(c, WorldSize)
        /\ \A q \in Rank : \A m \in 1 .. c[q] :
             /\ CountBelow(c, q) + m \in 1 .. CountBelow(c, WorldSize)
             /\ FromAll(out, r)[CountBelow(c, q) + m] = out[q][r][m]
    BY <2>1, Collected
  <2>3. QED
    BY <1>2, <2>2, Zenon
<1>4. \A j \in 1 .. Len(x) : \E q \in Rank : \E m \in 1 .. c[q] : j = CountBelow(c, q) + m
  <2>1. c \in [Rank -> Nat]
    BY <1>1
  <2>2. \A j \in 1 .. CountBelow(c, WorldSize) :
          \E q \in Rank : \E m \in 1 .. c[q] : j = CountBelow(c, q) + m
    BY <2>1, CountsAscend
  <2>3. Len(x) = CountBelow(c, WorldSize)
    BY <1>3
  <2>4. QED
    BY <2>2, <2>3, Zenon
<1>5. \A j \in 1 .. Len(x) : Owns(Offsets, r, x[j])
  BY <1>1, <1>3, <1>4
<1>6. ASSUME NEW q \in Rank, NEW p \in DOMAIN B[q], B[q][p] >= 0, Owner(B[q][p]) = r
      PROVE  \E j \in 1 .. Len(x) : x[j] = B[q][p]
  <2>1. Valid(B[q])
    BY DEF Batched
  <2>2. PICK m \in 1 .. CountsOf(B[q])[r] :
          Sorted(B[q])[CountBelow(CountsOf(B[q]), r) + m] = p
    BY <1>6, <2>1, PositionFor
  <2>3. SentBy(B, q)[r][m] = B[q][p]
    BY <2>2, IdsSent
  <2>4. m \in 1 .. c[q]
    BY <1>1, <2>2
  <2>5. PICK j : j = CountBelow(c, q) + m
    OBVIOUS
  <2>6. j \in 1 .. Len(x) /\ x[j] = SentBy(B, q)[r][m]
    BY <1>3, <2>4, <2>5
  <2>7. QED
    BY <2>3, <2>6
<1>7. QED
  BY <1>1, <1>3, <1>4, <1>5, <1>6, ZenonT(30) DEF AllReceived, c, x

\* The rows for a gather come back where the sorted batch has their entries.
LEMMA RowsReturned ==
  ASSUME NEW B, Batched(B), NEW r \in Rank, NEW memory, NEW out, Answered(B, memory, out)
  PROVE  /\ \A q \in Rank : Len(out[q][r]) = CountsOf(B[r])[q]
         /\ \E T : FromAll(out, r) \in Seq(T)
         /\ Len(FromAll(out, r)) = CountBelow(CountsOf(B[r]), WorldSize)
         /\ \A j \in 1 .. Len(FromAll(out, r)) :
              /\ B[r][Sorted(B[r])[j]] \in Entry
              /\ FromAll(out, r)[j] = memory[Owner(B[r][Sorted(B[r])[j]])][B[r][Sorted(B[r])[j]]]
<1> DEFINE T == {OutOfBounds} \cup {memory[q][e] : q \in Rank, e \in Entry}
           c == CountsOf(B[r])
<1>1. Valid(B[r]) /\ c \in [Rank -> Nat]
  BY CountsTyped DEF Batched
<1> HIDE DEF T, c
<1>2. ASSUME NEW q \in Rank
      PROVE  /\ out[q][r] \in Seq(T) /\ Len(out[q][r]) = c[q]
             /\ \A m \in 1 .. c[q] : /\ SentBy(B, r)[q][m] \in Entry
                                     /\ out[q][r][m] = memory[q][SentBy(B, r)[q][m]]
  <2> DEFINE x == ReceivedBy(B, q)
             d == CountedFor(B, q)
             s == [i \in 1 .. Len(x) |-> RowIn(memory[q], q, x[i])]
  <2>1. /\ x \in Seq(Entry) /\ d \in [Rank -> Nat] /\ Len(x) = CountBelow(d, WorldSize)
        /\ \A m \in 1 .. CountsOf(B[r])[q] :
             /\ CountBelow(d, r) + m \in 1 .. Len(x)
             /\ x[CountBelow(d, r) + m] = SentBy(B, r)[q][m]
        /\ \A j \in 1 .. Len(x) : Owns(Offsets, q, x[j])
    <3>1. AllReceived(B, q)
      BY IdsReceived
    <3>2. QED
      BY <3>1, Zenon DEF AllReceived
  <2>2. d[r] = c[q]
    BY DEF CountedFor, c
  <2> HIDE DEF x, d
  <2>3. /\ Len(x) \in Nat /\ DOMAIN x = 1 .. Len(x)
        /\ \A j \in 1 .. Len(x) : x[j] \in Entry
    BY <2>1
  <2>4. \A j \in 1 .. Len(x) : s[j] = memory[q][x[j]] /\ s[j] \in T
    BY <2>1, <2>3 DEF RowIn, T
  <2>5. out[q] = Pieces(s, d)
    BY <2>3 DEF Answered, RowsFrom, x, d
  <2>6. s \in [1 .. Len(x) -> T]
    BY <2>4
  <2> HIDE DEF s
  <2>7. Suffices(s, Len(x), T, d)
    <3>1. CountBelow(d, WorldSize) <= Len(x)
      BY <2>1, <2>3
    <3>2. QED
      BY <2>1, <2>3, <2>6, <3>1 DEF Suffices
  <2>8. /\ Pieces(s, d)[r] \in Seq(T) /\ Len(Pieces(s, d)[r]) = d[r]
        /\ \A m \in 1 .. d[r] : /\ CountBelow(d, r) + m \in 1 .. Len(x)
                                /\ Pieces(s, d)[r][m] = s[CountBelow(d, r) + m]
    BY <2>7, PiecesOf
  <2>9. ASSUME NEW m \in 1 .. c[q]
        PROVE  SentBy(B, r)[q][m] \in Entry /\ out[q][r][m] = memory[q][SentBy(B, r)[q][m]]
    <3>1. PICK j \in 1 .. Len(x) : j = CountBelow(d, r) + m /\ x[j] = SentBy(B, r)[q][m]
      BY <2>1 DEF c
    <3>2. out[q][r][m] = s[j]
      BY <2>2, <2>5, <2>8, <3>1
    <3>3. QED
      BY <2>3, <2>4, <3>1, <3>2
  <2>10. QED
    BY <2>2, <2>5, <2>8, <2>9
<1>3. /\ FromAll(out, r) \in Seq(T) /\ Len(FromAll(out, r)) = CountBelow(c, WorldSize)
      /\ \A q \in Rank : \A m \in 1 .. c[q] :
           FromAll(out, r)[CountBelow(c, q) + m] = out[q][r][m]
  <2>1. Sizes(out, r, T, c)
    BY <1>1, <1>2 DEF Sizes
  <2>2. QED
    BY <2>1, Collected
<1> DEFINE y == FromAll(out, r)
<1> HIDE DEF y
<1>4. ASSUME NEW j \in 1 .. Len(y), NEW e, e = B[r][Sorted(B[r])[j]]
      PROVE  e \in Entry /\ y[j] = memory[Owner(e)][e]
  <2>1. PICK q \in Rank : \E m \in 1 .. c[q] : j = CountBelow(c, q) + m
    BY <1>1, <1>3, CountsAscend DEF y
  <2>6. PICK m \in 1 .. c[q] : j = CountBelow(c, q) + m
    BY <2>1
  <2>2. y[j] = memory[q][SentBy(B, r)[q][m]] /\ SentBy(B, r)[q][m] \in Entry
    BY <1>2, <1>3, <2>6 DEF y
  <2>3. SentBy(B, r)[q][m] = e
    BY <1>4, <2>6, IdsSent DEF c
  <2>4. Owner(e) = q
    BY <1>1, <1>4, <2>6, Position DEF c
  <2>5. QED
    BY <2>2, <2>3, <2>4
<1>5. \E U : y \in Seq(U)
  BY <1>3 DEF y
<1>6. QED
  BY <1>2, <1>3, <1>4, <1>5 DEF y, c

\* The rows that the memory has for a batch, in its order.
InOrder(rows, b, memory) ==
  /\ DOMAIN rows = DOMAIN b /\ Len(rows) = Len(b)
  /\ \A i \in DOMAIN b :
       IF b[i] < 0 THEN rows[i] = Untouched
       ELSE b[i] \in Entry /\ rows[i] = memory[Owner(b[i])][b[i]]

\* Reorder puts the row of an entry where the batch has it, and no other anywhere.
LEMMA Reordered ==
  ASSUME NEW B, Batched(B), NEW r \in Rank, NEW memory, NEW out, Answered(B, memory, out),
         NEW o, o = Reorder(FromAll(out, r), Sorted(B[r]))
  PROVE  InOrder(o, B[r], memory)
<1> DEFINE b == B[r]
           c == CountsOf(b)
           order == Sorted(b)
           rows == FromAll(out, r)
<1>1. Valid(b)
  BY DEF Batched
<1> HIDE DEF b
<1>2. PICK n \in Nat : n = Len(b) /\ DOMAIN b = 1 .. n
  <2>1. Len(b) \in Nat /\ DOMAIN b = 1 .. Len(b)
    BY <1>1 DEF Valid
  <2>2. QED
    BY <2>1, Zenon
<1>3. /\ order \in [1 .. n -> 1 .. n]
      /\ \A i \in 1 .. n : \E j \in 1 .. n : order[j] = i
      /\ \A i, j \in 1 .. n : order[i] = order[j] => i = j
  BY <1>1, <1>2, SortedPermutes, ValidSortable
<1>4. \A i \in 1 .. n : b[i] \in Int /\ (b[i] >= 0 => b[i] \in Entry /\ Owner(b[i]) \in Rank)
  BY <1>1, <1>2, CountsTyped DEF Valid
<1>5. /\ \E T : rows \in Seq(T)
      /\ Len(rows) = CountBelow(c, WorldSize)
      /\ \A j \in 1 .. Len(rows) : /\ b[order[j]] \in Entry
                                   /\ rows[j] = memory[Owner(b[order[j]])][b[order[j]]]
  <2>1. /\ \E T : FromAll(out, r) \in Seq(T)
        /\ Len(FromAll(out, r)) = CountBelow(CountsOf(B[r]), WorldSize)
        /\ \A j \in 1 .. Len(FromAll(out, r)) :
             /\ B[r][Sorted(B[r])[j]] \in Entry
             /\ FromAll(out, r)[j] = memory[Owner(B[r][Sorted(B[r])[j]])][B[r][Sorted(B[r])[j]]]
    BY RowsReturned
  <2>2. QED
    BY <2>1, Zenon DEF b
<1> HIDE DEF rows, order, c
<1>6. PICK l \in 0 .. n : l = Len(rows) /\ l = CountBelow(c, WorldSize) /\ DOMAIN rows = 1 .. l
  <2>1. CountBelow(c, WorldSize) \in 0 .. n
    BY <1>1, <1>2, InBuckets, TableSize DEF c
  <2>2. DOMAIN rows = 1 .. Len(rows)
    BY <1>5
  <2>3. QED
    BY <1>5, <2>1, <2>2
<1>7. \A j \in 1 .. n : j \in DOMAIN rows <=> b[order[j]] >= 0
  <2>1. \A j \in 1 .. n : j <= CountBelow(c, WorldSize)
                          <=> b[order[j]] >= 0 /\ Owner(b[order[j]]) < WorldSize
    BY <1>1, <1>2, InBuckets, TableSize DEF c, order
  <2>2. \A j \in 1 .. n : b[order[j]] >= 0 => Owner(b[order[j]]) < WorldSize
    <3>1. \A q \in Rank : q < WorldSize
      BY TableSize DEF Rank
    <3>2. \A j \in 1 .. n : order[j] \in 1 .. n
      BY <1>3
    <3>3. QED
      BY <1>4, <3>1, <3>2
  <2>3. \A j \in 1 .. n : j \in DOMAIN rows <=> j <= l
    BY <1>6
  <2>4. QED
    BY <1>6, <2>1, <2>2, <2>3
<1>8. o = [i \in 1 .. n |-> IF \E j \in DOMAIN rows : order[j] = i
                            THEN rows[CHOOSE j \in DOMAIN rows : order[j] = i] ELSE Untouched]
  <2>1. DOMAIN order = 1 .. n
    BY <1>3
  <2>2. QED
    BY <2>1 DEF Reorder, order, rows, b
<1>9. DOMAIN o = 1 .. n
  BY <1>8
<1>10. Len(o) = n
  BY <1>2, <1>9
<1>11. ASSUME NEW i \in 1 .. n, b[i] < 0 PROVE o[i] = Untouched
  <2>1. ~ \E j \in DOMAIN rows : order[j] = i
    <3>1. SUFFICES ASSUME NEW j \in DOMAIN rows, order[j] = i PROVE FALSE
      OBVIOUS
    <3>2. j \in 1 .. n
      BY <1>6
    <3>3. b[i] >= 0
      BY <1>7, <3>1, <3>2
    <3>4. QED
      BY <1>4, <1>11, <3>3
  <2>2. QED
    BY <1>8, <2>1
<1>12. ASSUME NEW i \in 1 .. n, ~ (b[i] < 0)
       PROVE  b[i] \in Entry /\ o[i] = memory[Owner(b[i])][b[i]]
  <2>1. b[i] \in Entry /\ b[i] >= 0
    BY <1>4, <1>12
  <2>2. PICK j \in 1 .. n : order[j] = i
    BY <1>3
  <2>3. j \in DOMAIN rows
    BY <1>7, <2>1, <2>2
  <2>4. PICK m : m = CHOOSE k \in DOMAIN rows : order[k] = i
    OBVIOUS
  <2>5. m \in DOMAIN rows /\ order[m] = i
    BY <2>2, <2>3, <2>4
  <2>6. o[i] = rows[m]
    BY <1>8, <2>2, <2>3, <2>4
  <2>7. rows[m] = memory[Owner(b[order[m]])][b[order[m]]]
    BY <1>5, <1>6, <2>5
  <2>8. QED
    BY <2>1, <2>5, <2>6, <2>7
<1>13. QED
  BY <1>2, <1>9, <1>10, <1>11, <1>12 DEF b, InOrder

\* Of a scatter, every rank gets a row for each entry it receives: one that the batch
\* it comes from has for that entry.
LEMMA RowsBrought ==
  ASSUME NEW B, Batched(B), NEW r \in Rank, NEW k, NEW out, Brought(B, k, out)
  PROVE  /\ \A q \in Rank : Len(out[q][r]) = CountsOf(B[q])[r]
         /\ \A j \in 1 .. Len(ReceivedBy(B, r)) :
              \E q \in Rank : \E p \in DOMAIN B[q] :
                 B[q][p] = ReceivedBy(B, r)[j] /\ FromAll(out, r)[j] = Row(k, q, p)
<1> DEFINE T == {Row(k, q, p) : q \in Rank, p \in Nat}
           d == CountedFor(B, r)
           x == ReceivedBy(B, r)
           y == FromAll(out, r)
<1>1. /\ d \in [Rank -> Nat] /\ \A q \in Rank : d[q] = CountsOf(B[q])[r]
      /\ Len(x) = CountBelow(d, WorldSize)
      /\ \A q \in Rank : \A m \in 1 .. d[q] : x[CountBelow(d, q) + m] = SentBy(B, q)[r][m]
      /\ \A j \in 1 .. Len(x) : \E q \in Rank : \E m \in 1 .. d[q] : j = CountBelow(d, q) + m
  <2>1. \A q \in Rank : d[q] = CountsOf(B[q])[r]
    BY DEF CountedFor
  <2> HIDE DEF d, x
  <2>2. d \in [Rank -> Nat] /\ Len(x) = CountBelow(d, WorldSize)
    BY IdsReceived DEF AllReceived, d, x
  <2>3. \A q \in Rank : \A m \in 1 .. CountsOf(B[q])[r] :
          x[CountBelow(d, q) + m] = SentBy(B, q)[r][m]
    BY IdsReceived DEF AllReceived, d, x
  <2>4. \A j \in 1 .. Len(x) : \E q \in Rank : \E m \in 1 .. CountsOf(B[q])[r] :
          j = CountBelow(d, q) + m
    BY IdsReceived DEF AllReceived, d, x
  <2>5. QED
    BY <2>1, <2>2, <2>3, <2>4, Zenon
<1> HIDE DEF T, d, x, y
<1>2. ASSUME NEW q \in Rank
      PROVE  /\ out[q][r] \in Seq(T) /\ Len(out[q][r]) = d[q]
             /\ \A m \in 1 .. d[q] :
                  \E p \in DOMAIN B[q] :
                     B[q][p] = SentBy(B, q)[r][m] /\ out[q][r][m] = Row(k, q, p)
  <2> DEFINE n == Len(B[q])
             c == CountsOf(B[q])
             s == [i \in 1 .. n |-> Row(k, q, Sorted(B[q])[i])]
  <2>1. Valid(B[q])
    BY DEF Batched
  <2>2. n \in Nat /\ DOMAIN B[q] = 1 .. n /\ Sorted(B[q]) \in [1 .. n -> 1 .. n]
    BY <2>1, SortedPermutes, ValidSortable
  <2>3. out[q] = Pieces(s, c)
    <3>1. DOMAIN Sorted(B[q]) = 1 .. n
      BY <2>2
    <3>2. QED
      BY <3>1 DEF Brought, RowsOf
  <2>4. \A i \in 1 .. n : s[i] = Row(k, q, Sorted(B[q])[i]) /\ s[i] \in T
    BY <2>2 DEF T
  <2>5. s \in [1 .. n -> T]
    BY <2>4
  <2> HIDE DEF s, n, c
  <2>6. Suffices(s, n, T, c)
    <3>1. c \in [Rank -> Nat] /\ CountBelow(c, WorldSize) \in 0 .. n
      BY <2>1, CountsTyped, InBuckets, TableSize DEF c, n
    <3>2. CountBelow(c, WorldSize) <= n
      BY <2>2, <3>1
    <3>3. QED
      BY <2>2, <2>5, <3>1, <3>2 DEF Suffices
  <2>7. /\ Pieces(s, c)[r] \in Seq(T) /\ Len(Pieces(s, c)[r]) = c[r]
        /\ \A m \in 1 .. c[r] : /\ CountBelow(c, r) + m \in 1 .. n
                                /\ Pieces(s, c)[r][m] = s[CountBelow(c, r) + m]
    BY <2>6, PiecesOf
  <2>8. d[q] = c[r]
    BY <1>1 DEF c
  <2>9. ASSUME NEW m \in 1 .. c[r]
        PROVE  \E p \in DOMAIN B[q] :
                  B[q][p] = SentBy(B, q)[r][m] /\ out[q][r][m] = Row(k, q, p)
    <3>1. PICK j \in 1 .. n : j = CountBelow(c, r) + m
      BY <2>7
    <3>2. out[q][r][m] = Row(k, q, Sorted(B[q])[j])
      BY <2>3, <2>4, <2>7, <3>1
    <3>3. Sorted(B[q])[j] \in DOMAIN B[q]
      BY <2>2
    <3>4. SentBy(B, q)[r][m] = B[q][Sorted(B[q])[j]]
      BY <3>1, IdsSent DEF c
    <3>5. QED
      BY <3>2, <3>3, <3>4
  <2>10. QED
    BY <2>3, <2>7, <2>8, <2>9
<1>3. \A q \in Rank : \A m \in 1 .. d[q] : y[CountBelow(d, q) + m] = out[q][r][m]
  <2>1. Sizes(out, r, T, d)
    BY <1>1, <1>2 DEF Sizes
  <2>2. QED
    BY <2>1, Collected DEF y
<1>4. ASSUME NEW j \in 1 .. Len(x)
      PROVE  \E q \in Rank : \E p \in DOMAIN B[q] : B[q][p] = x[j] /\ y[j] = Row(k, q, p)
  <2>1. PICK q \in Rank : \E m \in 1 .. d[q] : j = CountBelow(d, q) + m
    BY <1>1
  <2>2. PICK m \in 1 .. d[q] : j = CountBelow(d, q) + m
    BY <2>1
  <2>3. PICK p \in DOMAIN B[q] : B[q][p] = SentBy(B, q)[r][m] /\ out[q][r][m] = Row(k, q, p)
    BY <1>2, <2>2
  <2>4. QED
    BY <1>1, <1>3, <2>2, <2>3
<1>5. QED
  BY <1>1, <1>2, <1>4 DEF x, y

-----------------------------------------------------------------------------
\* The invariant.  What has a type, and the progress of the ranks.
Operation == [op : {"gather", "scatter"}, batch : [Rank -> Batches]]

Control ==
  /\ program \in Seq(Operation) /\ Len(program) <= MaxOps
  /\ done \in [Rank -> Nat] /\ entered \in [Rank -> Nat]
  /\ stage \in [Rank -> {"idle", "counts", "ids", "rows"}]
  /\ \A r \in Rank : done[r] <= Len(program) /\ (stage[r] # "idle" => Behind(r))

Domains ==
  /\ DOMAIN rank_id_count = Rank /\ DOMAIN recv_count = Rank /\ DOMAIN raw_indices = Rank
  /\ DOMAIN ids_out = Rank /\ DOMAIN recv_ids = Rank /\ DOMAIN rows_out = Rank
  /\ DOMAIN local = Rank /\ DOMAIN output = 1 .. MaxOps
  /\ \A k \in 1 .. MaxOps : DOMAIN output[k] = Rank

\* The exchanges of a call are counted from 1; a rank has passed all it has entered but
\* the one it waits in, and none that others have not entered.
Exchange(what) ==
  IF what = "idle" THEN 0 ELSE IF what = "counts" THEN 1 ELSE IF what = "ids" THEN 2 ELSE 3

Passed(r) == IF stage[r] = "idle" THEN entered[r] ELSE entered[r] - 1

Lockstep ==
  /\ \A r \in Rank : entered[r] = 3 * done[r] + Exchange(stage[r])
  /\ \A r, q \in Rank : Passed(r) <= entered[q]

\* The calls for which a rank has counted last, sent indices, and sent rows.
Counting(r)  == IF stage[r] = "idle" THEN done[r] ELSE done[r] + 1
Sending(r)   == IF stage[r] \in {"ids", "rows"} THEN done[r] + 1 ELSE done[r]
Answering(r) == IF stage[r] = "rows" THEN done[r] + 1 ELSE done[r]

\* What is in the buffers is of those calls.
Counted ==
  \A r \in Rank :
    Counting(r) > 0 => rank_id_count[r] = CountsOf(program[Counting(r)].batch[r])

Sent ==
  \A r \in Rank :
    Sending(r) > 0 =>
      LET batch == program[Sending(r)].batch
      IN  /\ recv_count[r]  = CountedFor(batch, r)
          /\ raw_indices[r] = Sorted(batch[r])
          /\ ids_out[r]     = SentBy(batch, r)

Got ==
  \A r \in Rank :
    IF Answering(r) = 0 THEN recv_ids[r] = << >>
    ELSE LET call == program[Answering(r)]
         IN  /\ recv_ids[r] = ReceivedBy(call.batch, r)
             /\ rows_out[r] = IF call.op = "gather" THEN RowsFrom(call.batch, r, local[r])
                              ELSE RowsOf(call.batch, Answering(r), r)

\* A rank has a row for each of its entries of the last scatter it took part in.
Contents ==
  \A r \in Rank :
    /\ DOMAIN local[r] = {e \in Entry : Owns(Offsets, r, e)}
    /\ \A e \in Entry : Owns(Offsets, r, e) => local[r][e] \in Visible(done[r] + 1, e)

\* What was gathered is what is there, unless the entry was scattered to since.
StillThere(k, r) ==
  /\ DOMAIN output[k][r] = DOMAIN program[k].batch[r]
  /\ \A i \in DOMAIN program[k].batch[r], q \in Rank :
       LET e == program[k].batch[r][i]
       IN  e >= 0 /\ Owns(Offsets, q, e) /\ Scatters(k, e) = Scatters(done[q] + 1, e)
             => output[k][r][i] = local[q][e]

Current == \A k \in DOMAIN program, r \in Rank : Gathered(k, r) => StillThere(k, r)

Seen == \A k \in DOMAIN program, r \in Rank : Gathered(k, r) => SeesLast(k, r)

Agreed ==
  \A k \in DOMAIN program, r \in Rank, l \in DOMAIN program, q \in Rank :
    Gathered(k, r) /\ Gathered(l, q) => Agree(k, r, l, q)

IndInv ==
  Control /\ Domains /\ Lockstep /\ Counted /\ Sent /\ Got /\ Contents /\ Current /\ Seen /\ Agreed

-----------------------------------------------------------------------------
\* Each part of the invariant is kept by every step.  The ranks make the calls of one
\* program, one after another.
LEMMA ControlKept ==
  ASSUME Control, Next
  PROVE  Control'
<1>1. ASSUME NEW op \in {"gather", "scatter"}, NEW batch \in [Rank -> Batches], Issue(op, batch)
      PROVE  Control'
  <2>1. [op |-> op, batch |-> batch] \in Operation
    BY DEF Operation
  <2>2. /\ program' \in Seq(Operation) /\ Len(program') = Len(program) + 1 /\ Len(program) \in Nat
        /\ Len(program) < MaxOps
    BY <1>1, <2>1 DEF Issue, Control
  <2>3. done' = done /\ entered' = entered /\ stage' = stage
    BY <1>1 DEF Issue
  <2>4. \A q \in Rank : done[q] <= Len(program') /\ (stage[q] # "idle" => done[q] < Len(program'))
    BY <2>2 DEF Control, Behind
  <2>5. Len(program') <= MaxOps
    BY <2>2, MaxOpsAssumption
  <2>6. QED
    BY <2>2, <2>3, <2>4, <2>5 DEF Control, Behind
<1>2. ASSUME NEW r \in Rank, Step(r)
      PROVE  Control'
  <2>1. program' = program /\ Behind(r) /\ Len(program) \in Nat
    BY <1>2 DEF Step, Bucket, SendIds, SendRows, FinishGather, FinishScatter, Through, Control
  <2>2. \/ \E what \in {"counts", "ids", "rows"} : Enter(r, what) /\ done' = done
        \/ Return(r) /\ entered' = entered
    BY <1>2 DEF Step, Bucket, SendIds, SendRows, FinishGather, FinishScatter
  <2>3. CASE \E what \in {"counts", "ids", "rows"} : Enter(r, what) /\ done' = done
    BY <2>1, <2>3 DEF Enter, Control, Behind
  <2>4. CASE Return(r) /\ entered' = entered
    BY <2>1, <2>4 DEF Return, Control, Behind
  <2>5. QED
    BY <2>2, <2>3, <2>4
<1>3. CASE Finished
  BY <1>3 DEF Finished, vars, Control, Behind
<1>4. QED
  BY <1>1, <1>2, <1>3 DEF Next

\* All ranks keep their buffers, and all calls the places of their output.
LEMMA DomainsKept ==
  ASSUME Control, Domains, Next
  PROVE  Domains'
<1>1. CASE \E op \in {"gather", "scatter"}, batch \in [Rank -> Batches] : Issue(op, batch)
  BY <1>1 DEF Issue, Domains
<1>2. ASSUME NEW r \in Rank, Step(r)
      PROVE  Domains'
  <2>1. CASE Bucket(r)
    BY <2>1 DEF Bucket, Domains
  <2>2. CASE SendIds(r)
    BY <2>2 DEF SendIds, Domains
  <2>3. CASE SendRows(r)
    BY <2>3 DEF SendRows, Domains
  <2>4. CASE FinishGather(r)
    BY <2>4 DEF FinishGather, Domains
  <2>5. CASE FinishScatter(r)
    BY <2>5 DEF FinishScatter, Domains
  <2>6. QED
    BY <1>2, <2>1, <2>2, <2>3, <2>4, <2>5 DEF Step
<1>3. CASE Finished
  BY <1>3 DEF Finished, vars, Domains
<1>4. QED
  BY <1>1, <1>2, <1>3 DEF Next

\* No rank passes an exchange that another has not entered.
LEMMA LockstepKept ==
  ASSUME Control, Lockstep, Next
  PROVE  Lockstep'
<1>1. CASE \E op \in {"gather", "scatter"}, batch \in [Rank -> Batches] : Issue(op, batch)
  BY <1>1 DEF Issue, Lockstep, Passed
<1>2. ASSUME NEW r \in Rank, Step(r)
      PROVE  Lockstep'
  <2>1. /\ done \in [Rank -> Nat] /\ entered \in [Rank -> Nat]
        /\ stage \in [Rank -> {"idle", "counts", "ids", "rows"}]
    BY DEF Control
  <2>2. \/ stage[r] = "idle" /\ Enter(r, "counts") /\ done' = done
        \/ Through(r, "counts") /\ Enter(r, "ids") /\ done' = done
        \/ Through(r, "ids") /\ Enter(r, "rows") /\ done' = done
        \/ Through(r, "rows") /\ Return(r) /\ entered' = entered
    BY <1>2 DEF Step, Bucket, SendIds, SendRows, FinishGather, FinishScatter
  <2>3. /\ \A q \in Rank \ {r} : entered'[q] = entered[q] /\ stage'[q] = stage[q] /\ done'[q] = done[q]
        /\ entered'[r] \in Nat /\ entered'[r] >= entered[r]
    BY <2>1, <2>2 DEF Enter, Return
  <2>4. entered'[r] = 3 * done'[r] + Exchange(stage'[r])
    BY <2>1, <2>2 DEF Enter, Return, Through, Exchange, Lockstep
  <2>5. \A q \in Rank : entered'[q] >= entered[q] /\ entered'[q] \in Nat
    BY <2>1, <2>3
  <2>6. \A q \in Rank : Passed(r)' <= entered[q] /\ Passed(r)' \in Int
    <3>1. \A q \in Rank : Passed(r) <= entered[q]
      BY DEF Lockstep
    <3>2. QED
      BY <2>1, <2>2, <3>1 DEF Enter, Return, Through, Passed
  <2>7. \A p \in Rank \ {r} : Passed(p)' = Passed(p) /\ Passed(p) \in Int
    BY <2>1, <2>3 DEF Passed
  <2>8. \A p, q \in Rank : Passed(p)' <= entered'[q]
    <3>1. \A p, q \in Rank : Passed(p)' <= entered[q] /\ Passed(p)' \in Int
      BY <2>6, <2>7 DEF Lockstep
    <3>2. QED
      BY <2>1, <2>5, <3>1
  <2>9. \A p \in Rank : entered'[p] = 3 * done'[p] + Exchange(stage'[p])
    BY <2>3, <2>4 DEF Lockstep
  <2>10. QED
    BY <2>8, <2>9 DEF Lockstep, Passed
<1>3. CASE Finished
  BY <1>3 DEF Finished, vars, Lockstep, Passed
<1>4. QED
  BY <1>1, <1>2, <1>3 DEF Next

\* When an exchange returns at a rank, the others are in the same call.
LEMMA Meeting ==
  ASSUME Control, Lockstep, NEW r \in Rank, NEW q \in Rank
  PROVE  /\ Through(r, "counts") => Counting(q) = done[r] + 1
         /\ Through(r, "ids") => Sending(q) = done[r] + 1
         /\ Through(r, "rows") => Answering(q) = done[r] + 1 /\ done[q] \in {done[r], done[r] + 1}
<1>1. /\ done[r] \in Nat /\ done[q] \in Nat /\ entered[q] \in Nat /\ entered[r] \in Nat
      /\ stage[r] \in {"idle", "counts", "ids", "rows"}
      /\ stage[q] \in {"idle", "counts", "ids", "rows"}
  BY DEF Control
<1>2. /\ entered[r] = 3 * done[r] + Exchange(stage[r])
      /\ entered[q] = 3 * done[q] + Exchange(stage[q])
      /\ Passed(q) <= entered[r]
  BY DEF Lockstep
<1>3. Through(r, "counts") => Counting(q) = done[r] + 1
  BY <1>1, <1>2 DEF Through, Exchange, Passed, Counting
<1>4. Through(r, "ids") => Sending(q) = done[r] + 1
  BY <1>1, <1>2 DEF Through, Exchange, Passed, Sending
<1>5. Through(r, "rows") => Answering(q) = done[r] + 1 /\ done[q] \in {done[r], done[r] + 1}
  BY <1>1, <1>2 DEF Through, Exchange, Passed, Answering
<1>6. QED
  BY <1>3, <1>4, <1>5

-----------------------------------------------------------------------------
\* What scatters brought before a call does not depend on the calls made later.
LEMMA Latest ==
  ASSUME NEW k \in Nat, NEW e, Scatters(k, e) # {}
  PROVE  /\ Max(Scatters(k, e)) \in Scatters(k, e) /\ Max(Scatters(k, e)) \in 1 .. k - 1
         /\ \A j \in Scatters(k, e) : j <= Max(Scatters(k, e))
<1> DEFINE S == Scatters(k, e)
<1>1. S \in SUBSET Nat /\ S # {} /\ \A j \in S : j \in 1 .. k - 1 /\ j <= k
  BY DEF Scatters
<1> HIDE DEF S
<1>2. PICK m \in S : \A j \in S : j <= m
  BY <1>1, LargestElement
<1>3. \E x \in S : \A y \in S : x >= y
  BY <1>1, <1>2
<1>4. Max(S) \in S /\ \A y \in S : Max(S) >= y
  BY <1>3 DEF Max
<1>5. QED
  BY <1>1, <1>4 DEF S

\* Calls that have been made do not change, nor what scatters brought before them.
LEMMA History ==
  ASSUME Control, Next
  PROVE  /\ Len(program) \in Nat /\ DOMAIN program = 1 .. Len(program)
         /\ Len(program') \in Nat /\ DOMAIN program' = 1 .. Len(program')
         /\ Len(program) <= Len(program')
         /\ \A k \in 1 .. Len(program) : program'[k] = program[k]
         /\ \A k \in 1 .. Len(program) + 1 : \A e :
              Scatters(k, e)' = Scatters(k, e) /\ Visible(k, e)' = Visible(k, e)
<1>1. /\ Len(program) \in Nat /\ DOMAIN program = 1 .. Len(program)
      /\ Len(program') \in Nat /\ DOMAIN program' = 1 .. Len(program')
  BY ControlKept DEF Control
<1>2. /\ Len(program) <= Len(program')
      /\ \A k \in 1 .. Len(program) : program'[k] = program[k]
  <2>1. ASSUME NEW op \in {"gather", "scatter"}, NEW batch \in [Rank -> Batches], Issue(op, batch)
        PROVE  /\ Len(program) <= Len(program')
               /\ \A k \in 1 .. Len(program) : program'[k] = program[k]
    <3>1. program \in Seq(Operation) /\ program' = Append(program, [op |-> op, batch |-> batch])
      BY <2>1 DEF Issue, Control
    <3>2. QED
      BY <3>1
  <2>2. CASE \E r \in Rank : Step(r)
    <3>1. program' = program
      BY <2>2 DEF Step, Bucket, SendIds, SendRows, FinishGather, FinishScatter
    <3>2. QED
      BY <1>1, <3>1
  <2>3. CASE Finished
    <3>1. program' = program
      BY <2>3 DEF Finished, vars
    <3>2. QED
      BY <1>1, <3>1
  <2>4. QED
    BY <2>1, <2>2, <2>3 DEF Next
<1>3. ASSUME NEW k \in 1 .. Len(program) + 1, NEW e
      PROVE  Scatters(k, e)' = Scatters(k, e) /\ Visible(k, e)' = Visible(k, e)
  <2>1. k \in Nat /\ \A j \in 1 .. k - 1 : j \in 1 .. Len(program)
    BY <1>1
  <2>2. \A j \in 1 .. k - 1 : program'[j] = program[j]
    BY <1>2, <2>1
  <2>3. \A j \in 1 .. k - 1 : RowsFor(j, e)' = RowsFor(j, e)
    BY <2>2 DEF RowsFor
  <2>4. Scatters(k, e)' = Scatters(k, e)
    BY <2>2, <2>3 DEF Scatters
  <2>5. CASE Scatters(k, e) = {}
    BY <2>4, <2>5 DEF Visible
  <2>6. CASE Scatters(k, e) # {}
    <3>1. PICK m \in 1 .. k - 1 : m = Max(Scatters(k, e))
      BY <2>1, <2>6, Latest
    <3>2. RowsFor(m, e)' = RowsFor(m, e)
      BY <2>3
    <3>3. Visible(k, e) = RowsFor(m, e)
      BY <2>6, <3>1 DEF Visible
    <3>4. Visible(k, e)' = RowsFor(m, e)'
      BY <2>4, <2>6, <3>1 DEF Visible
    <3>5. QED
      BY <2>4, <3>2, <3>3, <3>4
  <2>7. QED
    BY <2>5, <2>6
<1>4. QED
  BY <1>1, <1>2, <1>3

\* What a call adds to it.
LEMMA NextCall ==
  ASSUME NEW k \in Nat \ {0}, NEW e
  PROVE  /\ program[k].op # "scatter" \/ RowsFor(k, e) = {}
              => Scatters(k + 1, e) = Scatters(k, e) /\ Visible(k + 1, e) = Visible(k, e)
         /\ program[k].op = "scatter" /\ RowsFor(k, e) # {}
              => k \in Scatters(k + 1, e) /\ Visible(k + 1, e) = RowsFor(k, e)
<1>1. 1 .. (k + 1) - 1 = 1 .. k - 1 \cup {k} /\ k \notin 1 .. k - 1
  OBVIOUS
<1>2. ASSUME program[k].op # "scatter" \/ RowsFor(k, e) = {}
      PROVE  Scatters(k + 1, e) = Scatters(k, e) /\ Visible(k + 1, e) = Visible(k, e)
  <2>1. Scatters(k + 1, e) = Scatters(k, e)
    BY <1>1, <1>2 DEF Scatters
  <2>2. QED
    BY <2>1 DEF Visible
<1>3. ASSUME program[k].op = "scatter", RowsFor(k, e) # {}
      PROVE  k \in Scatters(k + 1, e) /\ Visible(k + 1, e) = RowsFor(k, e)
  <2>1. k \in Scatters(k + 1, e)
    BY <1>1, <1>3 DEF Scatters
  <2>2. PICK m \in 1 .. (k + 1) - 1 : m = Max(Scatters(k + 1, e)) /\ k <= m
    BY <2>1, Latest
  <2>3. m = k
    BY <2>2
  <2>4. QED
    BY <2>1, <2>2, <2>3 DEF Visible
<1>4. QED
  BY <1>2, <1>3

\* The ranks that do not move are where they were.
LEMMA OthersStay ==
  ASSUME Control, Domains, NEW r \in Rank, Step(r), NEW q \in Rank, q # r
  PROVE  /\ done'[q] = done[q] /\ stage'[q] = stage[q] /\ local'[q] = local[q]
         /\ rank_id_count'[q] = rank_id_count[q] /\ recv_count'[q] = recv_count[q]
         /\ raw_indices'[q] = raw_indices[q] /\ ids_out'[q] = ids_out[q]
         /\ recv_ids'[q] = recv_ids[q] /\ rows_out'[q] = rows_out[q]
<1>1. DOMAIN done = Rank /\ DOMAIN stage = Rank
  BY DEF Control
<1>2. CASE Bucket(r)
  BY <1>1, <1>2 DEF Bucket, Enter, Domains
<1>3. CASE SendIds(r)
  BY <1>1, <1>3 DEF SendIds, Enter, Domains
<1>4. CASE SendRows(r)
  BY <1>1, <1>4 DEF SendRows, Enter, Domains
<1>5. CASE FinishGather(r)
  BY <1>1, <1>5 DEF FinishGather, Return, Domains
<1>6. CASE FinishScatter(r)
  BY <1>1, <1>6 DEF FinishScatter, Return, Domains
<1>7. QED
  BY <1>2, <1>3, <1>4, <1>5, <1>6 DEF Step

\* What the rank that moves does to its progress.
LEMMA Progress ==
  ASSUME Control, NEW r \in Rank, Step(r)
  PROVE  /\ program' = program
         /\ \/ Bucket(r) /\ stage[r] = "idle" /\ stage'[r] = "counts" /\ done'[r] = done[r]
            \/ SendIds(r) /\ stage[r] = "counts" /\ stage'[r] = "ids" /\ done'[r] = done[r]
            \/ SendRows(r) /\ stage[r] = "ids" /\ stage'[r] = "rows" /\ done'[r] = done[r]
            \/ /\ FinishGather(r) \/ FinishScatter(r)
               /\ stage[r] = "rows" /\ stage'[r] = "idle" /\ done'[r] = done[r] + 1
         /\ done[r] + 1 \in 1 .. Len(program)
<1>1. r \in DOMAIN done /\ r \in DOMAIN stage
  BY DEF Control
<1>2. done[r] + 1 \in 1 .. Len(program)
  <2>1. done[r] \in Nat /\ Len(program) \in Nat
    BY DEF Control
  <2>2. Behind(r)
    BY DEF Step, Bucket, SendIds, SendRows, FinishGather, FinishScatter, Through, Control
  <2>3. QED
    BY <2>1, <2>2 DEF Behind
<1>3. QED
  BY <1>1, <1>2
     DEF Step, Bucket, SendIds, SendRows, FinishGather, FinishScatter, Enter, Return, Through

\* What is in the buffers is of calls that have been made.
LEMMA CallsOf ==
  ASSUME Control, NEW r \in Rank
  PROVE  /\ Counting(r) \in 0 .. Len(program) /\ Sending(r) \in 0 .. Len(program)
         /\ Answering(r) \in 0 .. Len(program)
<1>1. /\ done[r] \in Nat /\ Len(program) \in Nat /\ done[r] <= Len(program)
      /\ stage[r] # "idle" => done[r] < Len(program)
  BY DEF Control, Behind
<1>2. QED
  BY <1>1 DEF Counting, Sending, Answering

\* A call has a batch for each rank.
LEMMA CallBatched ==
  ASSUME Control, NEW k \in 1 .. Len(program)
  PROVE  program[k].op \in {"gather", "scatter"} /\ Batched(program[k].batch)
<1>1. program[k] \in Operation
  BY DEF Control
<1>2. program[k].op \in {"gather", "scatter"} /\ program[k].batch \in [Rank -> Batches]
  BY <1>1 DEF Operation
<1>3. \A q \in Rank : program[k].batch[q] \in Batches
  BY <1>2
<1>4. \A b \in Batches : Valid(b)
  BY BatchesAssumption DEF Valid
<1>5. QED
  BY <1>2, <1>3, <1>4 DEF Batched

\* The counts of a rank are of the call it has begun last.
LEMMA CountedKept ==
  ASSUME Control, Domains, Counted, Next
  PROVE  Counted'
<1>1. CASE \E op \in {"gather", "scatter"}, batch \in [Rank -> Batches] : Issue(op, batch)
  <2>1. rank_id_count' = rank_id_count /\ \A r \in Rank : Counting(r)' = Counting(r)
    BY <1>1 DEF Issue, Counting
  <2>2. \A r \in Rank : Counting(r) > 0 => program'[Counting(r)] = program[Counting(r)]
    <3>1. \A r \in Rank : Counting(r) \in 0 .. Len(program)
      BY CallsOf
    <3>2. \A k \in 0 .. Len(program) : k > 0 => program'[k] = program[k]
      BY History
    <3>3. QED
      BY <3>1, <3>2
  <2>3. QED
    BY <2>1, <2>2 DEF Counted
<1>2. ASSUME NEW r \in Rank, Step(r)
      PROVE  Counted'
  <2>1. program' = program
    BY <1>2, Progress
  <2>2. ASSUME NEW q \in Rank, q # r, Counting(q)' > 0
        PROVE  rank_id_count'[q] = CountsOf(program'[Counting(q)'].batch[q])
    <3>1. Counting(q)' = Counting(q) /\ rank_id_count'[q] = rank_id_count[q]
      BY <1>2, <2>2, OthersStay DEF Counting
    <3>2. QED
      BY <2>1, <2>2, <3>1 DEF Counted
  <2>3. ASSUME Counting(r)' > 0
        PROVE  rank_id_count'[r] = CountsOf(program'[Counting(r)'].batch[r])
    <3>1. CASE Bucket(r)
      <4>1. Counting(r)' = done[r] + 1
        BY <1>2, <3>1, Progress DEF Bucket, SendIds, SendRows, FinishGather, FinishScatter,
                                    Through, Counting
      <4>2. rank_id_count'[r] = CountsOf(Indices(r))
        BY <3>1 DEF Bucket, Domains
      <4>3. QED
        BY <2>1, <4>1, <4>2 DEF Indices, Call
    <3>2. CASE SendIds(r) \/ SendRows(r) \/ FinishGather(r) \/ FinishScatter(r)
      <4>1. rank_id_count' = rank_id_count
        BY <3>2 DEF SendIds, SendRows, FinishGather, FinishScatter
      <4>2. Counting(r)' = Counting(r)
        BY <1>2, <3>2, Progress DEF Bucket, SendIds, SendRows, FinishGather, FinishScatter,
                                    Through, Counting
      <4>3. QED
        BY <2>1, <2>3, <4>1, <4>2 DEF Counted
    <3>3. QED
      BY <1>2, <3>1, <3>2 DEF Step
  <2>4. QED
    BY <2>2, <2>3 DEF Counted
<1>3. CASE Finished
  BY <1>3 DEF Finished, vars, Counted, Counting
<1>4. QED
  BY <1>1, <1>2, <1>3 DEF Next

\* The sizes a rank received, the order of its batch and the indices it sends are of
\* one call: all ranks have counted for it when the exchange of the counts returns.
LEMMA SentKept ==
  ASSUME Control, Domains, Lockstep, Counted, Sent, Next
  PROVE  Sent'
<1>1. CASE \E op \in {"gather", "scatter"}, batch \in [Rank -> Batches] : Issue(op, batch)
  <2>1. /\ recv_count' = recv_count /\ raw_indices' = raw_indices /\ ids_out' = ids_out
        /\ \A r \in Rank : Sending(r)' = Sending(r)
    BY <1>1 DEF Issue, Sending
  <2>2. \A r \in Rank : Sending(r) > 0 => program'[Sending(r)] = program[Sending(r)]
    <3>1. \A r \in Rank : Sending(r) \in 0 .. Len(program)
      BY CallsOf
    <3>2. \A k \in 0 .. Len(program) : k > 0 => program'[k] = program[k]
      BY History
    <3>3. QED
      BY <3>1, <3>2
  <2>3. QED
    BY <2>1, <2>2 DEF Sent
<1>2. ASSUME NEW r \in Rank, Step(r)
      PROVE  Sent'
  <2> DEFINE Right(q, k) ==
               /\ recv_count'[q]  = CountedFor(program[k].batch, q)
               /\ raw_indices'[q] = Sorted(program[k].batch[q])
               /\ ids_out'[q]     = SentBy(program[k].batch, q)
  <2>1. program' = program
    BY <1>2, Progress
  <2>2. ASSUME NEW q \in Rank, q # r, Sending(q)' > 0
        PROVE  Right(q, Sending(q)')
    <3>1. /\ Sending(q)' = Sending(q) /\ recv_count'[q] = recv_count[q]
          /\ raw_indices'[q] = raw_indices[q] /\ ids_out'[q] = ids_out[q]
      BY <1>2, <2>2, OthersStay DEF Sending
    <3>2. QED
      BY <2>2, <3>1 DEF Sent
  <2>3. ASSUME Sending(r)' > 0
        PROVE  Right(r, Sending(r)')
    <3>1. CASE SendIds(r)
      <4> DEFINE B == program[done[r] + 1].batch
      <4>1. Sending(r)' = done[r] + 1
        BY <1>2, <3>1, Progress DEF Bucket, SendIds, SendRows, FinishGather, FinishScatter,
                                    Through, Sending
      <4>2. \A q \in Rank : rank_id_count[q] = CountsOf(B[q])
        <5>1. ASSUME NEW q \in Rank PROVE rank_id_count[q] = CountsOf(B[q])
          <6>1. Counting(q) = done[r] + 1
            BY <3>1, Meeting DEF SendIds
          <6>2. done[r] + 1 > 0
            BY DEF Control
          <6>3. QED
            BY <6>1, <6>2 DEF Counted
        <5>2. QED
          BY <5>1
      <4>3. Indices(r) = B[r]
        BY DEF Indices, Call
      <4> HIDE DEF B
      <4>4. recv_count'[r] = CountedFor(B, r)
        <5>1. recv_count'[r] = [q \in Rank |-> rank_id_count[q][r]]
          BY <3>1 DEF SendIds, Domains
        <5>2. QED
          BY <4>2, <5>1 DEF CountedFor
      <4>5. raw_indices'[r] = Sorted(B[r])
        BY <3>1, <4>3 DEF SendIds, Domains
      <4>6. ids_out'[r] = SentBy(B, r)
        <5>1. ids_out'[r] = Pieces([i \in DOMAIN B[r] |-> B[r][raw_indices'[r][i]]],
                                   rank_id_count[r])
          BY <3>1, <4>3 DEF SendIds, Domains
        <5>2. QED
          BY <4>2, <4>5, <5>1 DEF SentBy
      <4>7. QED
        BY <4>1, <4>4, <4>5, <4>6 DEF B
    <3>2. CASE Bucket(r) \/ SendRows(r) \/ FinishGather(r) \/ FinishScatter(r)
      <4>1. recv_count' = recv_count /\ raw_indices' = raw_indices /\ ids_out' = ids_out
        BY <3>2 DEF Bucket, SendRows, FinishGather, FinishScatter
      <4>2. Sending(r)' = Sending(r)
        BY <1>2, <3>2, Progress DEF Bucket, SendIds, SendRows, FinishGather, FinishScatter,
                                    Through, Sending
      <4>3. QED
        BY <2>3, <4>1, <4>2 DEF Sent
    <3>3. QED
      BY <1>2, <3>1, <3>2 DEF Step
  <2>4. \A q \in Rank : Sending(q)' > 0 => Right(q, Sending(q)')
    BY <2>2, <2>3
  <2>5. QED
    BY <2>1, <2>4 DEF Sent
<1>3. CASE Finished
  BY <1>3 DEF Finished, vars, Sent, Sending
<1>4. QED
  BY <1>1, <1>2, <1>3 DEF Next

\* The indices a rank received and the rows it sends are of one call, and the rows of
\* a gather those of its memory since.
LEMMA GotKept ==
  ASSUME Control, Domains, Lockstep, Counted, Sent, Got, Next
  PROVE  Got'
<1> DEFINE Right(k, q) ==
             /\ recv_ids'[q] = ReceivedBy(program[k].batch, q)
             /\ rows_out'[q] = IF program[k].op = "gather"
                               THEN RowsFrom(program[k].batch, q, local'[q])
                               ELSE RowsOf(program[k].batch, k, q)
<1>1. CASE \E op \in {"gather", "scatter"}, batch \in [Rank -> Batches] : Issue(op, batch)
  <2>1. /\ recv_ids' = recv_ids /\ rows_out' = rows_out /\ local' = local
        /\ \A r \in Rank : Answering(r)' = Answering(r)
    BY <1>1 DEF Issue, Answering
  <2>2. \A r \in Rank : Answering(r) # 0 => program'[Answering(r)] = program[Answering(r)]
    <3>1. \A r \in Rank : Answering(r) \in 0 .. Len(program)
      BY CallsOf
    <3>2. \A k \in 0 .. Len(program) : k # 0 => program'[k] = program[k]
      BY History
    <3>3. QED
      BY <3>1, <3>2
  <2>3. QED
    BY <2>1, <2>2 DEF Got
<1>2. ASSUME NEW r \in Rank, Step(r)
      PROVE  Got'
  <2>1. program' = program
    BY <1>2, Progress
  <2>2. ASSUME NEW q \in Rank, q # r
        PROVE  IF Answering(q)' = 0 THEN recv_ids'[q] = << >> ELSE Right(Answering(q)', q)
    <3>1. /\ Answering(q)' = Answering(q) /\ recv_ids'[q] = recv_ids[q]
          /\ rows_out'[q] = rows_out[q] /\ local'[q] = local[q]
      BY <1>2, <2>2, OthersStay DEF Answering
    <3>2. QED
      BY <3>1 DEF Got
  <2>3. CASE SendRows(r)
    <3> DEFINE k == done[r] + 1
               B == program[k].batch
    <3>1. Answering(r)' = k /\ k # 0
      <4>1. done[r] \in Nat
        BY DEF Control
      <4>2. stage'[r] = "rows" /\ done'[r] = done[r]
        BY <1>2, <2>3, Progress DEF Bucket, SendIds, SendRows, FinishGather, FinishScatter, Through
      <4>3. QED
        BY <4>1, <4>2 DEF Answering
    <3>2. \A q \in Rank : /\ ids_out[q] = SentBy(B, q) /\ recv_count[q] = CountedFor(B, q)
                          /\ raw_indices[q] = Sorted(B[q])
      <4>1. ASSUME NEW q \in Rank
            PROVE  /\ ids_out[q] = SentBy(B, q) /\ recv_count[q] = CountedFor(B, q)
                   /\ raw_indices[q] = Sorted(B[q])
        <5>1. Sending(q) = k
          BY <2>3, Meeting DEF SendRows
        <5>2. k > 0
          BY DEF Control
        <5>3. QED
          BY <5>1, <5>2 DEF Sent
      <4>2. QED
        BY <4>1
    <3>3. rank_id_count[r] = CountsOf(B[r])
      <4>1. Counting(r) = k /\ k > 0
        BY <2>3 DEF SendRows, Through, Counting, Control
      <4>2. QED
        BY <4>1 DEF Counted
    <3>4. /\ recv_ids'[r] = FromAll(ids_out, r) /\ local' = local
          /\ rows_out'[r] =
               IF program[k].op = "gather"
               THEN Pieces([i \in DOMAIN recv_ids'[r] |-> LocalRow(r, recv_ids'[r][i])], recv_count[r])
               ELSE Pieces([i \in DOMAIN raw_indices[r] |-> Row(k, r, raw_indices[r][i])],
                           rank_id_count[r])
      BY <2>3 DEF SendRows, Domains, Call
    <3> HIDE DEF k, B
    <3>5. recv_ids'[r] = ReceivedBy(B, r)
      <4> DEFINE out == [q \in Rank |-> SentBy(B, q)]
      <4>1. \A q \in Rank : ids_out[q][r] = out[q][r]
        BY <3>2
      <4> HIDE DEF out
      <4>2. FromAll(ids_out, r) = FromAll(out, r)
        BY <4>1, CollectedAlike
      <4>3. QED
        BY <3>4, <4>2 DEF ReceivedBy, out
    <3>6. ASSUME program[k].op = "gather" PROVE Right(k, r)
      <4>1. [i \in DOMAIN ReceivedBy(B, r) |-> LocalRow(r, ReceivedBy(B, r)[i])]
              = [i \in DOMAIN ReceivedBy(B, r) |-> RowIn(local[r], r, ReceivedBy(B, r)[i])]
        BY DEF LocalRow, RowIn
      <4>2. rows_out'[r] = Pieces([i \in DOMAIN ReceivedBy(B, r) |-> LocalRow(r, ReceivedBy(B, r)[i])],
                                  CountedFor(B, r))
        BY <3>2, <3>4, <3>5, <3>6
      <4>3. rows_out'[r] = RowsFrom(B, r, local'[r])
        BY <3>4, <4>1, <4>2 DEF RowsFrom
      <4>4. QED
        BY <3>5, <3>6, <4>3 DEF B
    <3>7. ASSUME program[k].op # "gather" PROVE Right(k, r)
      <4>1. rows_out'[r] = RowsOf(B, k, r)
        BY <3>2, <3>3, <3>4, <3>7 DEF RowsOf
      <4>2. QED
        BY <3>5, <3>7, <4>1 DEF B
    <3>8. Right(k, r)
      BY <3>6, <3>7
    <3>9. QED
      BY <2>1, <2>2, <3>1, <3>8 DEF Got
  <2>4. CASE Bucket(r) \/ SendIds(r) \/ FinishGather(r)
    <3>1. recv_ids' = recv_ids /\ rows_out' = rows_out /\ local' = local
      BY <2>4 DEF Bucket, SendIds, FinishGather
    <3>2. Answering(r)' = Answering(r)
      BY <1>2, <2>4, Progress DEF Bucket, SendIds, SendRows, FinishGather, FinishScatter,
                                  Through, Answering
    <3>3. IF Answering(r)' = 0 THEN recv_ids'[r] = << >> ELSE Right(Answering(r)', r)
      BY <3>1, <3>2 DEF Got
    <3>4. QED
      BY <2>1, <2>2, <3>3 DEF Got
  <2>5. CASE FinishScatter(r)
    <3>1. /\ recv_ids' = recv_ids /\ rows_out' = rows_out
          /\ Answering(r) = done[r] + 1 /\ Answering(r) # 0
          /\ program[done[r] + 1].op # "gather"
      BY <2>5 DEF FinishScatter, Through, Answering, Call, Control
    <3>2. Answering(r)' = Answering(r)
      BY <1>2, <2>5, Progress DEF Bucket, SendIds, SendRows, FinishGather, FinishScatter,
                                  Through, Answering
    <3>3. Right(Answering(r), r)
      BY <3>1 DEF Got
    <3>4. QED
      BY <2>1, <2>2, <3>1, <3>2, <3>3 DEF Got
  <2>6. QED
    BY <1>2, <2>3, <2>4, <2>5 DEF Step
<1>3. CASE Finished
  BY <1>3 DEF Finished, vars, Got, Answering
<1>4. QED
  BY <1>1, <1>2, <1>3 DEF Next

-----------------------------------------------------------------------------
\* What a gather returns: what is in the memory of the owners when it does.
LEMMA GatherReturns ==
  ASSUME Control, Domains, Lockstep, Sent, Got, NEW r \in Rank, FinishGather(r),
         NEW k, k = done[r] + 1
  PROVE  /\ k \in 1 .. Len(program) /\ k \in 1 .. MaxOps /\ program[k].op = "gather"
         /\ InOrder(output'[k][r], program[k].batch[r], local)
         /\ \A l \in 1 .. MaxOps, q \in Rank :
              l # k \/ q # r => output'[l][q] = output[l][q]
<1>1. /\ k \in 1 .. Len(program) /\ program[k].op = "gather"
      /\ Len(program) \in Nat /\ Len(program) <= MaxOps /\ stage[r] = "rows"
  <2>1. Step(r)
    BY DEF Step
  <2>2. k \in 1 .. Len(program)
    BY <2>1, Progress
  <2>3. program[k].op = "gather" /\ stage[r] = "rows"
    BY DEF FinishGather, Through, Call
  <2>4. QED
    BY <2>2, <2>3 DEF Control
<1>2. k \in 1 .. MaxOps /\ r \in DOMAIN output[k]
  BY <1>1, MaxOpsAssumption DEF Domains
<1>3. /\ output'[k][r] = Reorder(FromAll(rows_out, r), raw_indices[r])
      /\ \A l \in 1 .. MaxOps, q \in Rank : l # k \/ q # r => output'[l][q] = output[l][q]
  <2>1. output' = [output EXCEPT ![k][r] = Reorder(FromAll(rows_out, r), raw_indices[r])]
    BY DEF FinishGather
  <2>2. DOMAIN output = 1 .. MaxOps /\ \A l \in 1 .. MaxOps : DOMAIN output[l] = Rank
    BY DEF Domains
  <2>3. QED
    BY <1>2, <2>1, <2>2
<1> DEFINE B == program[k].batch
<1>4. Batched(B)
  BY <1>1, CallBatched
<1>5. raw_indices[r] = Sorted(B[r])
  <2>1. Sending(r) = k /\ k > 0
    BY <1>1 DEF Sending
  <2>2. QED
    BY <2>1 DEF Sent
<1>6. Answered(B, local, rows_out)
  <2>1. ASSUME NEW q \in Rank PROVE rows_out[q] = RowsFrom(B, q, local[q])
    <3>1. Answering(q) = k /\ k # 0
      BY <1>1, Meeting DEF FinishGather
    <3>2. QED
      BY <1>1, <3>1 DEF Got
  <2>2. QED
    BY <2>1 DEF Answered
<1> HIDE DEF B
<1> DEFINE o == output'[k][r]
<1>7. o = Reorder(FromAll(rows_out, r), Sorted(B[r]))
  BY <1>3, <1>5
<1> HIDE DEF o
<1>8. InOrder(o, B[r], local)
  BY <1>4, <1>6, <1>7, Reordered
<1>9. QED
  BY <1>1, <1>2, <1>3, <1>8 DEF o, B

\* Every index of an entry of the rank is among those it gets.
LEMMA IdsComplete ==
  ASSUME NEW B, Batched(B), NEW r \in Rank, NEW q \in Rank, NEW p \in DOMAIN B[q],
         B[q][p] >= 0, Owner(B[q][p]) = r
  PROVE  \E j \in 1 .. Len(ReceivedBy(B, r)) : ReceivedBy(B, r)[j] = B[q][p]
<1>1. AllReceived(B, r)
  BY IdsReceived
<1>2. QED
  BY <1>1 DEF AllReceived

\* What a scatter stores: for each entry of the rank that any batch has, one of the
\* rows for it.
LEMMA ScatterStores ==
  ASSUME Control, Domains, Lockstep, Sent, Got, Contents, NEW r \in Rank, FinishScatter(r),
         NEW k, k = done[r] + 1
  PROVE  /\ k \in 1 .. Len(program) /\ program[k].op = "scatter"
         /\ DOMAIN local'[r] = DOMAIN local[r]
         /\ \A e \in Entry : Owns(Offsets, r, e) =>
              IF RowsFor(k, e) = {} THEN local'[r][e] = local[r][e]
              ELSE local'[r][e] \in RowsFor(k, e)
<1>1. /\ k \in 1 .. Len(program) /\ program[k].op = "scatter" /\ stage[r] = "rows"
  <2>1. Step(r)
    BY DEF Step
  <2>2. QED
    BY <2>1, Progress DEF FinishScatter, Through, Call
<1> DEFINE B == program[k].batch
           ids == ReceivedBy(B, r)
           rows == FromAll(rows_out, r)
<1>2. Batched(B)
  BY <1>1, CallBatched
<1>3. recv_ids[r] = ids
  <2>1. Answering(r) = k /\ k # 0
    BY <1>1 DEF Answering
  <2>2. QED
    BY <2>1 DEF Got
<1>4. Brought(B, k, rows_out)
  <2>1. ASSUME NEW q \in Rank PROVE rows_out[q] = RowsOf(B, k, q)
    <3>1. Answering(q) = k /\ k # 0
      BY <1>1, Meeting DEF FinishScatter
    <3>2. QED
      BY <1>1, <3>1 DEF Got
  <2>2. QED
    BY <2>1 DEF Brought
<1>5. \A e : RowsFor(k, e) = UNION {{Row(k, q, i) : i \in Stored(e, B[q])} : q \in Rank}
  BY DEF RowsFor
<1> HIDE DEF B
<1>6. /\ ids \in Seq(Entry) /\ DOMAIN ids = 1 .. Len(ids)
      /\ \A q \in Rank : \A p \in DOMAIN B[q] :
           B[q][p] >= 0 /\ Owner(B[q][p]) = r => \E j \in 1 .. Len(ids) : ids[j] = B[q][p]
      /\ \A j \in 1 .. Len(ids) :
           \E q \in Rank : \E p \in DOMAIN B[q] : B[q][p] = ids[j] /\ rows[j] = Row(k, q, p)
  <2>1. ids \in Seq(Entry)
    BY <1>2, IdsReceived DEF AllReceived
  <2>2. DOMAIN ids = 1 .. Len(ids)
    BY <2>1
  <2>3. \A q \in Rank : \A p \in DOMAIN B[q] :
           B[q][p] >= 0 /\ Owner(B[q][p]) = r => \E j \in 1 .. Len(ids) : ids[j] = B[q][p]
    BY <1>2, IdsComplete
  <2>4. \A j \in 1 .. Len(ids) :
           \E q \in Rank : \E p \in DOMAIN B[q] : B[q][p] = ids[j] /\ rows[j] = Row(k, q, p)
    BY <1>2, <1>4, RowsBrought
  <2>5. QED
    BY <2>1, <2>2, <2>3, <2>4
<1>7. PICK last : /\ \A e \in Range(ids) : last[e] \in Stored(e, ids)
                  /\ local' = [local EXCEPT ![r] = [e \in DOMAIN local[r] |->
                                 IF e \in Range(ids) THEN rows[last[e]] ELSE local[r][e]]]
  <2>1. PICK last : /\ \A e \in Range(recv_ids[r]) : last[e] \in Stored(e, recv_ids[r])
                    /\ local' = [local EXCEPT ![r] = [e \in DOMAIN local[r] |->
                                   IF e \in Range(recv_ids[r]) THEN FromAll(rows_out, r)[last[e]]
                                   ELSE local[r][e]]]
    BY Zenon DEF FinishScatter
  <2>2. FromAll(rows_out, r) = rows
    OBVIOUS
  <2> HIDE DEF ids, rows
  <2>3. \A e \in Range(ids) : last[e] \in Stored(e, ids)
    BY <1>3, <2>1, Zenon
  <2>4. local' = [local EXCEPT ![r] = [e \in DOMAIN local[r] |->
                    IF e \in Range(ids) THEN rows[last[e]] ELSE local[r][e]]]
    BY <1>3, <2>1, <2>2, Zenon
  <2>5. QED
    BY <2>3, <2>4, Zenon
<1> HIDE DEF ids, rows
<1>8. local'[r] = [e \in DOMAIN local[r] |-> IF e \in Range(ids) THEN rows[last[e]] ELSE local[r][e]]
  BY <1>7 DEF Domains
<1>9. ASSUME NEW e \in Entry, Owns(Offsets, r, e)
      PROVE  IF RowsFor(k, e) = {} THEN local'[r][e] = local[r][e]
             ELSE local'[r][e] \in RowsFor(k, e)
  <2>1. e \in DOMAIN local[r]
    BY <1>9 DEF Contents
  <2>2. CASE e \in Range(ids)
    <3>1. PICK j : j = last[e] /\ j \in DOMAIN ids /\ ids[j] = e
      BY <1>7, <2>2 DEF Stored
    <3>2. PICK q \in Rank : \E p \in DOMAIN B[q] : B[q][p] = ids[j] /\ rows[j] = Row(k, q, p)
      BY <1>6, <3>1
    <3>3. PICK p \in DOMAIN B[q] : B[q][p] = ids[j] /\ rows[j] = Row(k, q, p)
      BY <3>2
    <3>4. p \in Stored(e, B[q])
      BY <3>1, <3>3 DEF Stored
    <3>5. Row(k, q, p) \in RowsFor(k, e)
      BY <1>5, <3>4
    <3>6. local'[r][e] = Row(k, q, p)
      BY <1>8, <2>1, <2>2, <3>1, <3>3
    <3>7. QED
      BY <3>5, <3>6
  <2>3. CASE e \notin Range(ids)
    <3>1. RowsFor(k, e) = {}
      <4>1. SUFFICES ASSUME RowsFor(k, e) # {} PROVE FALSE
        OBVIOUS
      <4>2. PICK q \in Rank : \E i : i \in Stored(e, B[q])
        BY <1>5, <4>1
      <4>3. PICK p : p \in DOMAIN B[q] /\ B[q][p] = e
        BY <4>2 DEF Stored
      <4>4. e >= 0 /\ Owner(e) = r
        BY <1>9, OwnerOf, TableSize DEF Entry
      <4>5. \E j \in 1 .. Len(ids) : ids[j] = e
        BY <1>6, <4>3, <4>4
      <4>6. QED
        BY <1>6, <2>3, <4>5 DEF Range
    <3>2. QED
      BY <1>8, <2>1, <2>3, <3>1
  <2>4. QED
    BY <2>2, <2>3
<1>10. QED
  BY <1>1, <1>8, <1>9

\* Only the end of a call changes what a rank has and has done.
LEMMA OnlyFinishing ==
  ASSUME Control, Domains, Next, NEW r \in Rank
  PROVE  \/ local'[r] = local[r] /\ done'[r] = done[r]
         \/ FinishGather(r) \/ FinishScatter(r)
<1>1. CASE \E op \in {"gather", "scatter"}, batch \in [Rank -> Batches] : Issue(op, batch)
  BY <1>1 DEF Issue
<1>2. ASSUME NEW q \in Rank, Step(q)
      PROVE  \/ local'[r] = local[r] /\ done'[r] = done[r]
             \/ FinishGather(r) \/ FinishScatter(r)
  <2>1. CASE q # r
    BY <1>2, <2>1, OthersStay
  <2>2. CASE q = r
    BY <1>2, <2>2 DEF Step, Bucket, SendIds, SendRows
  <2>3. QED
    BY <2>1, <2>2
<1>3. CASE Finished
  BY <1>3 DEF Finished, vars
<1>4. QED
  BY <1>1, <1>2, <1>3 DEF Next

\* A scatter leaves a row of its own for each entry it brought rows for, and the
\* others alone.
LEMMA ContentsKept ==
  ASSUME Control, Domains, Lockstep, Sent, Got, Contents, Next
  PROVE  Contents'
<1>1. /\ Len(program) \in Nat
      /\ \A r \in Rank : done[r] \in Nat /\ done[r] <= Len(program)
  BY DEF Control
<1>2. \A k \in 1 .. Len(program) + 1 : \A e : Visible(k, e)' = Visible(k, e)
  BY History
<1> DEFINE Good(r, k) == /\ DOMAIN local'[r] = {e \in Entry : Owns(Offsets, r, e)}
                         /\ \A e \in Entry : Owns(Offsets, r, e) => local'[r][e] \in Visible(k, e)
<1>3. SUFFICES ASSUME NEW r \in Rank
               PROVE  done'[r] + 1 \in 1 .. Len(program) + 1 /\ Good(r, done'[r] + 1)
  BY <1>2 DEF Contents
<1>4. DOMAIN local[r] = {e \in Entry : Owns(Offsets, r, e)}
      /\ \A e \in Entry : Owns(Offsets, r, e) => local[r][e] \in Visible(done[r] + 1, e)
  BY DEF Contents
<1>5. CASE local'[r] = local[r] /\ done'[r] = done[r]
  <2>1. done[r] + 1 \in 1 .. Len(program) + 1
    BY <1>1
  <2>2. QED
    BY <1>4, <1>5, <2>1
<1>6. CASE FinishGather(r)
  <2> DEFINE k == done[r] + 1
  <2>1. k \in 1 .. Len(program) /\ program[k].op = "gather"
    BY <1>6, GatherReturns
  <2>2. local'[r] = local[r] /\ done'[r] = k
    BY <1>6 DEF FinishGather, Return, Control
  <2>3. \A e : Visible(k + 1, e) = Visible(k, e)
    BY <2>1, NextCall
  <2>4. k + 1 \in 1 .. Len(program) + 1
    BY <1>1, <2>1
  <2> HIDE DEF k
  <2>5. QED
    BY <1>4, <2>2, <2>3, <2>4 DEF k
<1>7. CASE FinishScatter(r)
  <2> DEFINE k == done[r] + 1
  <2>1. /\ k \in 1 .. Len(program) /\ program[k].op = "scatter"
        /\ DOMAIN local'[r] = DOMAIN local[r]
        /\ \A e \in Entry : Owns(Offsets, r, e) =>
              IF RowsFor(k, e) = {} THEN local'[r][e] = local[r][e]
              ELSE local'[r][e] \in RowsFor(k, e)
    BY <1>7, ScatterStores
  <2>2. done'[r] = k
    BY <1>7 DEF FinishScatter, Return, Control
  <2>3. \A e : IF RowsFor(k, e) = {} THEN Visible(k + 1, e) = Visible(k, e)
               ELSE Visible(k + 1, e) = RowsFor(k, e)
    BY <2>1, NextCall
  <2>4. k + 1 \in 1 .. Len(program) + 1
    BY <1>1, <2>1
  <2>5. \A e \in Entry : Owns(Offsets, r, e) => local[r][e] \in Visible(k, e)
    BY <1>4
  <2> HIDE DEF k
  <2>6. \A e \in Entry : Owns(Offsets, r, e) => local'[r][e] \in Visible(k + 1, e)
    BY <2>1, <2>3, <2>5
  <2>7. QED
    BY <1>4, <2>1, <2>2, <2>4, <2>6
<1>8. \/ local'[r] = local[r] /\ done'[r] = done[r]
      \/ FinishGather(r) \/ FinishScatter(r)
  BY OnlyFinishing
<1>9. QED
  BY <1>5, <1>6, <1>7, <1>8

\* What has been gathered stays, and the call that returns adds to it.
LEMMA EarlierGathered ==
  ASSUME Control, Domains, Lockstep, Sent, Got, Next,
         NEW k \in DOMAIN program', NEW r \in Rank, Gathered(k, r)'
  PROVE  /\ k \in DOMAIN program /\ k \in 1 .. Len(program) /\ program'[k] = program[k]
         /\ \/ FinishGather(r) /\ k = done[r] + 1
            \/ Gathered(k, r) /\ output'[k][r] = output[k][r]
<1>1. /\ Len(program) \in Nat /\ DOMAIN program = 1 .. Len(program)
      /\ DOMAIN program' = 1 .. Len(program')
      /\ \A l \in 1 .. Len(program) : program'[l] = program[l]
  BY History
<1>2. done[r] \in Nat /\ done[r] <= Len(program)
  BY DEF Control
<1>3. k \in Nat /\ k > 0 /\ k <= done'[r] /\ program'[k].op = "gather"
  BY <1>1, ControlKept DEF Gathered, Control
<1>4. k \in 1 .. Len(program)
  <2>1. CASE done'[r] = done[r]
    BY <1>1, <1>2, <1>3, <2>1
  <2>2. CASE FinishGather(r) \/ FinishScatter(r)
    <3>1. Step(r)
      BY <2>2 DEF Step
    <3>2. done'[r] = done[r] + 1 /\ done[r] + 1 \in 1 .. Len(program)
      BY <2>2, <3>1, Progress DEF Bucket, SendIds, SendRows, FinishGather, FinishScatter, Through
    <3>3. QED
      BY <1>1, <1>3, <3>2
  <2>3. QED
    BY <2>1, <2>2, OnlyFinishing
<1>5. program[k].op = "gather" /\ program'[k] = program[k] /\ k \in 1 .. MaxOps
  <2>1. k <= MaxOps
    BY <1>1, <1>4, MaxOpsAssumption DEF Control
  <2>2. QED
    BY <1>1, <1>3, <1>4, <2>1, MaxOpsAssumption
<1>6. ASSUME ~ (FinishGather(r) /\ k = done[r] + 1)
      PROVE  Gathered(k, r)
  <2>1. CASE done'[r] = done[r]
    BY <1>3, <1>5, <2>1 DEF Gathered
  <2>2. CASE FinishGather(r) \/ FinishScatter(r)
    <3>1. Step(r)
      BY <2>2 DEF Step
    <3>2. done'[r] = done[r] + 1
      BY <2>2, <3>1, Progress DEF Bucket, SendIds, SendRows, FinishGather, FinishScatter, Through
    <3>3. k # done[r] + 1
      BY <1>5, <1>6, <2>2 DEF FinishScatter, Call
    <3>4. k <= done[r]
      BY <1>2, <1>3, <3>2, <3>3
    <3>5. QED
      BY <1>5, <3>4 DEF Gathered
  <2>3. QED
    BY <2>1, <2>2, OnlyFinishing
<1>7. ASSUME ~ (FinishGather(r) /\ k = done[r] + 1)
      PROVE  output'[k][r] = output[k][r]
  <2>1. ASSUME NEW p \in Rank, FinishGather(p)
        PROVE  output'[k][r] = output[k][r]
    <3>1. k # done[p] + 1 \/ r # p
      BY <1>7, <2>1
    <3>2. QED
      BY <1>5, <2>1, <3>1, GatherReturns
  <2>2. CASE ~ \E p \in Rank : FinishGather(p)
    BY <2>2 DEF Next, Issue, Step, Bucket, SendIds, SendRows, FinishScatter, Finished, vars
  <2>3. QED
    BY <2>1, <2>2
<1>8. QED
  BY <1>1, <1>4, <1>5, <1>6, <1>7

\* No rank has completed a later call when a scatter returns at one.
LEMMA NoneAhead ==
  ASSUME Control, Lockstep, NEW p \in Rank, stage[p] = "rows", NEW r \in Rank
  PROVE  done[r] <= done[p] + 1
<1>1. /\ done[p] \in Nat /\ done[r] \in Nat /\ entered[p] \in Nat /\ entered[r] \in Nat
      /\ stage[r] \in {"idle", "counts", "ids", "rows"}
  BY DEF Control
<1>2. /\ entered[p] = 3 * done[p] + 3 /\ entered[r] = 3 * done[r] + Exchange(stage[r])
      /\ Passed(r) <= entered[p]
  BY DEF Lockstep, Exchange
<1>3. QED
  BY <1>1, <1>2 DEF Passed, Exchange

\* The row a gather returned stays that of the owner until the next scatter to the
\* entry, wherever the owner is in the program.
LEMMA CurrentKept ==
  ASSUME Control, Domains, Lockstep, Sent, Got, Contents, Current, Next
  PROVE  Current'
<1>1. SUFFICES ASSUME NEW k \in DOMAIN program', NEW r \in Rank, Gathered(k, r)'
               PROVE  StillThere(k, r)'
  BY DEF Current
<1>2. /\ k \in 1 .. Len(program) /\ k \in DOMAIN program /\ program'[k] = program[k]
      /\ \/ FinishGather(r) /\ k = done[r] + 1
         \/ Gathered(k, r) /\ output'[k][r] = output[k][r]
  BY <1>1, EarlierGathered
<1> DEFINE b == program[k].batch[r]
<1>3. \A i \in DOMAIN b : b[i] >= 0 => b[i] \in Entry
  <2>1. Valid(b)
    BY <1>2, CallBatched DEF Batched
  <2>2. QED
    BY <2>1, CountsTyped
<1>4. /\ Len(program) \in Nat
      /\ \A l \in 1 .. Len(program) + 1 : \A e : Scatters(l, e)' = Scatters(l, e)
      /\ \A q \in Rank : done[q] \in Nat /\ done[q] <= Len(program)
  BY History DEF Control
<1> HIDE DEF b
<1>5. SUFFICES /\ DOMAIN output'[k][r] = DOMAIN b
               /\ \A i \in DOMAIN b, q \in Rank, e \in Entry :
                    b[i] = e /\ Owns(Offsets, q, e) /\ Scatters(k, e)' = Scatters(done[q] + 1, e)'
                      => output'[k][r][i] = local'[q][e]
  BY <1>2, <1>3 DEF StillThere, b
<1>6. CASE FinishGather(r) /\ k = done[r] + 1
  <2>1. /\ DOMAIN output'[k][r] = DOMAIN b /\ local' = local
        /\ \A i \in DOMAIN b : ~ (b[i] < 0) => output'[k][r][i] = local[Owner(b[i])][b[i]]
    <3>1. InOrder(output'[k][r], b, local)
      BY <1>6, GatherReturns DEF b
    <3>2. QED
      BY <1>6, <3>1 DEF InOrder, FinishGather
  <2>2. ASSUME NEW i \in DOMAIN b, NEW q \in Rank, NEW e \in Entry, b[i] = e, Owns(Offsets, q, e)
        PROVE  output'[k][r][i] = local'[q][e]
    <3>1. ~ (e < 0)
      BY TableSize DEF Entry
    <3>2. q = Owner(e)
      BY <2>2, OwnerOf
    <3>3. QED
      BY <2>1, <2>2, <3>1, <3>2
  <2>3. QED
    BY <2>1, <2>2
<1>7. CASE Gathered(k, r) /\ output'[k][r] = output[k][r]
  <2>1. StillThere(k, r)
    BY <1>2, <1>7 DEF Current
  <2>2. /\ DOMAIN output'[k][r] = DOMAIN b
        /\ \A i \in DOMAIN b, q \in Rank, e \in Entry :
             b[i] = e /\ Owns(Offsets, q, e) /\ Scatters(k, e) = Scatters(done[q] + 1, e)
               => output'[k][r][i] = local[q][e]
    <3>1. \A e \in Entry : e >= 0
      BY TableSize DEF Entry
    <3>2. QED
      BY <1>7, <2>1, <3>1 DEF StillThere, b
  <2>3. ASSUME NEW i \in DOMAIN b, NEW q \in Rank, NEW e \in Entry, b[i] = e, Owns(Offsets, q, e),
               Scatters(k, e)' = Scatters(done[q] + 1, e)'
        PROVE  output'[k][r][i] = local'[q][e]
    <3>1. Scatters(k, e)' = Scatters(k, e)
      BY <1>2, <1>4
    <3>2. SUFFICES Scatters(k, e) = Scatters(done[q] + 1, e) /\ local'[q][e] = local[q][e]
      BY <2>2, <2>3
    <3>3. CASE local'[q] = local[q] /\ done'[q] = done[q]
      <4>1. done'[q] + 1 \in 1 .. Len(program) + 1
        BY <1>4, <3>3
      <4>2. Scatters(done'[q] + 1, e) = Scatters(done[q] + 1, e)'
        BY <1>4, <4>1
      <4>3. QED
        BY <2>3, <3>1, <3>3, <4>2
    <3>4. CASE FinishGather(q)
      <4> DEFINE m == done[q] + 1
      <4>1. m \in 1 .. Len(program) /\ program[m].op = "gather" /\ local' = local
        BY <3>4, GatherReturns DEF FinishGather
      <4>2. done'[q] = m
        BY <3>4 DEF FinishGather, Return, Control
      <4>3. Scatters(m + 1, e) = Scatters(m, e)
        BY <4>1, NextCall
      <4> HIDE DEF m
      <4>4. done'[q] + 1 \in 1 .. Len(program) + 1
        BY <1>4, <4>1, <4>2
      <4>5. Scatters(done'[q] + 1, e) = Scatters(done[q] + 1, e)'
        BY <1>4, <4>4
      <4>6. Scatters(k, e) = Scatters(m + 1, e)
        BY <2>3, <3>1, <4>2, <4>5
      <4>7. QED
        BY <4>1, <4>3, <4>6 DEF m
    <3>5. CASE FinishScatter(q)
      <4> DEFINE m == done[q] + 1
      <4>1. /\ m \in 1 .. Len(program) /\ program[m].op = "scatter"
            /\ RowsFor(m, e) = {} => local'[q][e] = local[q][e]
        BY <2>3, <3>5, ScatterStores
      <4>2. done'[q] = m
        BY <3>5 DEF FinishScatter, Return, Control
      <4>3. done'[q] + 1 \in 1 .. Len(program) + 1
        BY <1>4, <4>1, <4>2
      <4>4. Scatters(done'[q] + 1, e) = Scatters(done[q] + 1, e)'
        BY <1>4, <4>3
      <4>5. Scatters(k, e) = Scatters(m + 1, e)
        BY <2>3, <3>1, <4>2, <4>4
      <4>6. CASE RowsFor(m, e) = {}
        <5>1. Scatters(m + 1, e) = Scatters(m, e)
          BY <4>1, <4>6, NextCall
        <5>2. QED
          BY <4>1, <4>5, <4>6, <5>1
      <4>7. CASE RowsFor(m, e) # {}
        <5>1. m \in Scatters(m + 1, e)
          BY <4>1, <4>7, NextCall
        <5>2. m \in 1 .. k - 1
          BY <4>5, <5>1 DEF Scatters
        <5>3. done[r] <= m /\ k <= done[r]
          BY <1>7, <3>5, NoneAhead DEF FinishScatter, Through, Gathered
        <5>4. FALSE
          BY <1>2, <1>4, <5>2, <5>3
        <5>5. QED
          BY <5>4
      <4>8. QED
        BY <4>6, <4>7
    <3>6. QED
      BY <3>3, <3>4, <3>5, OnlyFinishing
  <2>4. QED
    BY <2>2, <2>3
<1>8. QED
  BY <1>2, <1>6, <1>7

\* A gather returns rows of the last scatter before it: at the owner no later one has
\* returned, and none is missing.
LEMMA SeenKept ==
  ASSUME Control, Domains, Lockstep, Sent, Got, Contents, Seen, Next
  PROVE  Seen'
<1>1. SUFFICES ASSUME NEW k \in DOMAIN program', NEW r \in Rank, Gathered(k, r)'
               PROVE  SeesLast(k, r)'
  BY DEF Seen
<1>2. /\ k \in 1 .. Len(program) /\ k \in DOMAIN program /\ program'[k] = program[k]
      /\ \/ FinishGather(r) /\ k = done[r] + 1
         \/ Gathered(k, r) /\ output'[k][r] = output[k][r]
  BY <1>1, EarlierGathered
<1>3. \A e : Visible(k, e)' = Visible(k, e)
  <2>1. k \in 1 .. Len(program) + 1
    BY <1>2, History
  <2>2. QED
    BY <2>1, History
<1> DEFINE b == program[k].batch[r]
<1> HIDE DEF b
<1>4. SUFFICES /\ Len(output'[k][r]) = Len(b)
               /\ \A i \in DOMAIN output'[k][r] : \A e :
                    e = b[i] => IF e < 0 THEN output'[k][r][i] = Untouched
                                ELSE output'[k][r][i] \in Visible(k, e)
  BY <1>2, <1>3 DEF SeesLast, b
<1>5. CASE Gathered(k, r) /\ output'[k][r] = output[k][r]
  <2>1. SeesLast(k, r)
    BY <1>2, <1>5 DEF Seen
  <2>2. QED
    BY <1>5, <2>1 DEF SeesLast, b
<1>6. CASE FinishGather(r) /\ k = done[r] + 1
  <2>1. program[k].op = "gather" /\ InOrder(output'[k][r], b, local)
    BY <1>6, GatherReturns DEF b
  <2>2. ASSUME NEW e \in Entry PROVE local[Owner(e)][e] \in Visible(k, e)
    <3>1. PICK o \in Rank : o = Owner(e) /\ Owns(Offsets, o, e)
      BY OwnerOf
    <3>2. local[o][e] \in Visible(done[o] + 1, e)
      BY <3>1 DEF Contents
    <3>3. done[o] = done[r] \/ done[o] = done[r] + 1
      BY <1>6, Meeting DEF FinishGather
    <3>4. Visible(k + 1, e) = Visible(k, e)
      BY <1>2, <2>1, NextCall
    <3>5. QED
      BY <1>6, <3>1, <3>2, <3>3, <3>4
  <2>3. QED
    BY <2>1, <2>2 DEF InOrder
<1>7. QED
  BY <1>2, <1>5, <1>6

\* A gather that returns finds at the owner what all others found that saw the same
\* scatters.
LEMMA AgreedKept ==
  ASSUME Control, Domains, Lockstep, Sent, Got, Contents, Current, Agreed, Next
  PROVE  Agreed'
<1>1. SUFFICES ASSUME NEW k \in DOMAIN program', NEW r \in Rank,
                      NEW l \in DOMAIN program', NEW q \in Rank, Gathered(k, r)', Gathered(l, q)'
               PROVE  Agree(k, r, l, q)'
  BY DEF Agreed
<1>2. /\ k \in 1 .. Len(program) /\ k \in DOMAIN program /\ program'[k] = program[k]
      /\ \/ FinishGather(r) /\ k = done[r] + 1
         \/ Gathered(k, r) /\ output'[k][r] = output[k][r]
  BY <1>1, EarlierGathered
<1>3. /\ l \in 1 .. Len(program) /\ l \in DOMAIN program /\ program'[l] = program[l]
      /\ \/ FinishGather(q) /\ l = done[q] + 1
         \/ Gathered(l, q) /\ output'[l][q] = output[l][q]
  BY <1>1, EarlierGathered
<1>4. /\ Len(program) \in Nat
      /\ \A m \in 1 .. Len(program) + 1 : \A e : Scatters(m, e)' = Scatters(m, e)
  BY History
<1>5. \A e : Scatters(k, e)' = Scatters(k, e) /\ Scatters(l, e)' = Scatters(l, e)
  BY <1>2, <1>3, <1>4
<1>6. SUFFICES ASSUME NEW i \in DOMAIN output'[k][r], NEW j \in DOMAIN output'[l][q], NEW e,
                      e = program[k].batch[r][i], e = program[l].batch[q][j], e >= 0,
                      Scatters(k, e) = Scatters(l, e)
               PROVE  output'[k][r][i] = output'[l][q][j]
  BY <1>2, <1>3, <1>5 DEF Agree
<1>7. CASE /\ Gathered(k, r) /\ output'[k][r] = output[k][r]
           /\ Gathered(l, q) /\ output'[l][q] = output[l][q]
  <2>1. Agree(k, r, l, q)
    BY <1>2, <1>3, <1>7 DEF Agreed
  <2>2. QED
    BY <1>6, <1>7, <2>1 DEF Agree
<1>8. ASSUME NEW p \in Rank, NEW m, FinishGather(p), m = done[p] + 1, m = k \/ m = l
      PROVE  output'[k][r][i] = output'[l][q][j]
  <2>1. StillThere(k, r)' /\ StillThere(l, q)'
    BY <1>1, CurrentKept DEF Current
  <2>2. i \in DOMAIN program[k].batch[r] /\ j \in DOMAIN program[l].batch[q]
    BY <1>2, <1>3, <2>1 DEF StillThere
  <2>3. e \in Entry
    <3>1. PICK b : b = program[k].batch[r] /\ Valid(b)
      BY <1>2, CallBatched DEF Batched
    <3>2. \A n \in DOMAIN b : b[n] >= 0 => b[n] \in Entry
      BY <3>1, CountsTyped
    <3>3. QED
      BY <1>6, <2>2, <3>1, <3>2
  <2>4. PICK o \in Rank : Owns(Offsets, o, e)
    BY <2>3, OwnerOf
  <2>5. m \in 1 .. Len(program) /\ program[m].op = "gather"
    BY <1>8, GatherReturns
  <2>6. done'[o] + 1 = m \/ done'[o] + 1 = m + 1
    <3>1. done[o] = done[p] \/ done[o] = done[p] + 1
      BY <1>8, Meeting DEF FinishGather
    <3>2. done' = [done EXCEPT ![p] = done[p] + 1] /\ done \in [Rank -> Nat]
      BY <1>8 DEF FinishGather, Return, Control
    <3>3. CASE o = p
      BY <1>8, <3>2, <3>3
    <3>4. CASE o # p
      BY <1>8, <3>1, <3>2, <3>4
    <3>5. QED
      BY <3>3, <3>4
  <2>7. Scatters(m + 1, e) = Scatters(m, e)
    BY <2>5, NextCall
  <2>8. Scatters(m, e) = Scatters(k, e) /\ Scatters(m, e) = Scatters(l, e)
    BY <1>6, <1>8
  <2>9. Scatters(done'[o] + 1, e) = Scatters(k, e)
    BY <2>6, <2>7, <2>8
  <2>10. Scatters(done[o] + 1, e)' = Scatters(done'[o] + 1, e)
    <3>1. done'[o] + 1 \in 1 .. Len(program) + 1
      BY <1>4, <2>5, <2>6
    <3>2. QED
      BY <1>4, <3>1
  <2>11. Scatters(k, e)' = Scatters(done[o] + 1, e)' /\ Scatters(l, e)' = Scatters(done[o] + 1, e)'
    BY <1>5, <2>8, <2>9, <2>10
  <2>12. output'[k][r][i] = local'[o][e]
    <3>1. \A n \in DOMAIN program[k].batch[r] :
            e = program[k].batch[r][n] => output'[k][r][n] = local'[o][e]
      BY <1>2, <1>6, <2>1, <2>4, <2>11 DEF StillThere
    <3>2. QED
      BY <1>6, <2>2, <3>1
  <2>13. output'[l][q][j] = local'[o][e]
    <3>1. \A n \in DOMAIN program[l].batch[q] :
            e = program[l].batch[q][n] => output'[l][q][n] = local'[o][e]
      BY <1>3, <1>6, <2>1, <2>4, <2>11 DEF StillThere
    <3>2. QED
      BY <1>6, <2>2, <3>1
  <2>14. QED
    BY <2>12, <2>13
<1>9. QED
  BY <1>2, <1>3, <1>7, <1>8

-----------------------------------------------------------------------------
\* Nothing has been called and every entry has its first row.
LEMMA Initialized ==
  ASSUME Init
  PROVE  IndInv
<1>1. /\ program = << >> /\ done = [r \in Rank |-> 0] /\ entered = [r \in Rank |-> 0]
      /\ stage = [r \in Rank |-> "idle"]
  BY DEF Init
<1>2. /\ program \in Seq(Operation) /\ Len(program) = 0 /\ DOMAIN program = {}
  BY <1>1
<1>3. Control
  BY <1>1, <1>2, MaxOpsAssumption DEF Control, Behind
<1>4. Domains
  BY DEF Init, Domains
<1>5. Lockstep
  BY <1>1 DEF Lockstep, Passed, Exchange
<1>6. Counted /\ Sent
  BY <1>1 DEF Counted, Sent, Counting, Sending
<1>7. Got
  BY <1>1 DEF Init, Got, Answering
<1>8. Contents
  <2>1. \A e : Visible(0 + 1, e) = {Initially(e)}
    <3>1. 1 .. (0 + 1) - 1 = {}
      OBVIOUS
    <3>2. QED
      BY <3>1 DEF Visible, Scatters
  <2>2. \A r \in Rank : local[r] = [e \in {f \in Entry : Owns(Offsets, r, f)} |-> Initially(e)]
    BY DEF Init
  <2>3. QED
    BY <1>1, <2>1, <2>2 DEF Contents
<1>9. Current /\ Seen /\ Agreed
  BY <1>2 DEF Current, Seen, Agreed
<1>10. QED
  BY <1>3, <1>4, <1>5, <1>6, <1>7, <1>8, <1>9 DEF IndInv

\* The inductive invariant: where the ranks are, what is in their buffers and memory, and
\* what the gathers have returned.
THEOREM Invariance == Spec => []IndInv
<1>1. Init => IndInv
  BY Initialized
<1>2. ASSUME IndInv, Next
      PROVE  IndInv'
  <2> USE <1>2 DEF IndInv
  <2>1. Control' /\ Domains' /\ Lockstep'
    BY ControlKept, DomainsKept, LockstepKept
  <2>2. Counted' /\ Sent' /\ Got'
    BY CountedKept, SentKept, GotKept
  <2>3. Contents' /\ Current'
    BY ContentsKept, CurrentKept
  <2>4. Seen' /\ Agreed'
    BY SeenKept, AgreedKept
  <2>5. QED
    BY <2>1, <2>2, <2>3, <2>4
<1>3. ASSUME IndInv, UNCHANGED vars
      PROVE  IndInv'
  <2> USE <1>3 DEF IndInv, vars
  <2>1. Control' /\ Domains' /\ Lockstep'
    BY DEF Control, Behind, Domains, Lockstep, Passed
  <2>2. Counted' /\ Sent' /\ Got'
    BY DEF Counted, Counting, Sent, Sending, Got, Answering
  <2>3. \A j, e : RowsFor(j, e)' = RowsFor(j, e)
    BY DEF RowsFor
  <2>4. \A k, e : Scatters(k, e)' = Scatters(k, e)
    BY <2>3 DEF Scatters
  <2>5. \A k, e : Visible(k, e)' = Visible(k, e)
    BY <2>3, <2>4 DEF Visible
  <2>6. Contents'
    BY <2>5 DEF Contents
  <2>7. Current'
    BY <2>4 DEF Current, Gathered, StillThere
  <2>8. Seen'
    BY <2>5 DEF Seen, Gathered, SeesLast
  <2>9. Agreed'
    BY <2>4 DEF Agreed, Gathered, Agree
  <2>10. QED
    BY <2>1, <2>2, <2>6, <2>7, <2>8, <2>9
<1>4. IndInv /\ [Next]_vars => IndInv'
  BY <1>2, <1>3
<1>5. QED
  BY <1>1, <1>4, PTL DEF Spec

\* The ranks never disagree on how much one sends to another: what bucket_ids counted
\* for an owner is what that owner receives, indices of its own entries all of them, and
\* the rows come back in the same numbers.  For every table, number of ranks and batches.
THEOREM CountsAlwaysMatch == Spec => []CountsMatch
<1>1. ASSUME IndInv
      PROVE  CountsMatch
  <2> USE <1>1 DEF IndInv
  <2>1. ASSUME NEW r \in Rank
        PROVE  \A i \in DOMAIN recv_ids[r] : Owns(Offsets, r, recv_ids[r][i])
    <3>1. CASE Answering(r) = 0
      BY <3>1 DEF Got
    <3>2. CASE Answering(r) # 0
      <4> DEFINE B == program[Answering(r)].batch
      <4>1. Batched(B)
        BY <3>2, CallsOf, CallBatched
      <4>2. recv_ids[r] = ReceivedBy(B, r)
        BY <3>2 DEF Got
      <4> HIDE DEF B
      <4>3. /\ ReceivedBy(B, r) \in Seq(Entry)
            /\ \A j \in 1 .. Len(ReceivedBy(B, r)) : Owns(Offsets, r, ReceivedBy(B, r)[j])
        BY <4>1, IdsReceived DEF AllReceived
      <4>4. DOMAIN ReceivedBy(B, r) = 1 .. Len(ReceivedBy(B, r))
        BY <4>3
      <4>5. QED
        BY <4>2, <4>3, <4>4
    <3>3. QED
      BY <3>1, <3>2
  <2>2. ASSUME NEW r \in Rank, NEW q \in Rank, Through(r, "ids")
        PROVE  Len(ids_out[q][r]) = recv_count[r][q]
    <3> DEFINE k == done[r] + 1
               B == program[k].batch
    <3>1. Sending(q) = k /\ Sending(r) = k /\ k > 0
      BY <2>2, Meeting DEF Control
    <3>2. Batched(B)
      BY <3>1, CallsOf, CallBatched
    <3>3. ids_out[q] = SentBy(B, q) /\ recv_count[r] = CountedFor(B, r)
      BY <3>1 DEF Sent
    <3> HIDE DEF k, B
    <3>4. Len(SentBy(B, q)[r]) = CountsOf(B[q])[r]
      BY <3>2, IdsSent
    <3>5. QED
      BY <3>3, <3>4 DEF CountedFor
  <2>3. ASSUME NEW r \in Rank, NEW q \in Rank, Through(r, "rows")
        PROVE  Len(rows_out[q][r]) = IF Call(r).op = "gather" THEN rank_id_count[r][q]
                                     ELSE recv_count[r][q]
    <3> DEFINE k == done[r] + 1
               B == program[k].batch
    <3>1. /\ \A p \in Rank : Answering(p) = k
          /\ Counting(r) = k /\ Sending(r) = k /\ k > 0 /\ k # 0
      <4>1. \A p \in Rank : Answering(p) = k
        BY <2>3, Meeting
      <4>2. QED
        BY <2>3, <4>1 DEF Through, Counting, Sending, Control
    <3>2. k \in 1 .. Len(program) /\ Batched(B)
      BY <3>1, CallsOf, CallBatched
    <3>3. rank_id_count[r] = CountsOf(B[r]) /\ recv_count[r] = CountedFor(B, r)
      BY <3>1 DEF Counted, Sent
    <3>4. \A p \in Rank :
            rows_out[p] = IF program[k].op = "gather" THEN RowsFrom(B, p, local[p])
                          ELSE RowsOf(B, k, p)
      BY <3>1 DEF Got
    <3>5. Call(r) = program[k]
      BY DEF Call
    <3> HIDE DEF k, B
    <3>6. ASSUME program[k].op = "gather" PROVE Len(rows_out[q][r]) = CountsOf(B[r])[q]
      <4>1. Answered(B, local, rows_out)
        BY <3>4, <3>6 DEF Answered
      <4>2. QED
        BY <3>2, <4>1, RowsReturned
    <3>7. ASSUME program[k].op # "gather" PROVE Len(rows_out[q][r]) = CountsOf(B[q])[r]
      <4>1. Brought(B, k, rows_out)
        BY <3>4, <3>7 DEF Brought
      <4>2. QED
        BY <3>2, <4>1, RowsBrought
    <3>8. QED
      BY <3>3, <3>5, <3>6, <3>7 DEF CountedFor
  <2>4. QED
    BY <2>1, <2>2, <2>3 DEF CountsMatch
<1>2. QED
  BY <1>1, Invariance, PTL

\* A gather returns rows of the last scatter before it for every index of the batch, in
\* its order, and ranks that gather an entry between the same scatters get the same
\* row: for every table, number of ranks, program and schedule of the ranks.
THEOREM GathersSeeScatters == Spec => []GatherSeesScatters
<1>1. IndInv => GatherSeesScatters
  BY DEF IndInv, Seen, Agreed, GatherSeesScatters
<1>2. QED
  BY <1>1, Invariance, PTL

-----------------------------------------------------------------------------
\* The kernel by which Bucket counts: its threads take the indices of a batch in any
\* order.  Partitions in which dest_rank searches without leaving the offsets.
Searchable == \A t \in Tables : GuessInRange(t.offsets, t.world_size)

\* The counted indices of rank r.
OwnedBy(r) == {i \in DOMAIN bucket_indices \ uncounted :
                 Owns(partition.offsets, r, bucket_indices[i])}

KernelInv ==
  /\ partition \in Tables
  /\ bucket_indices \in Batch(partition)
  /\ uncounted \subseteq DOMAIN bucket_indices
  /\ dest \in BucketRank \cup {-1}
  /\ rank_count \in [BucketRank -> Nat]
  /\ \A r \in BucketRank : rank_count[r] = Cardinality(OwnedBy(r))

\* What is fixed while the kernel runs.
LEMMA KernelFacts ==
  ASSUME partition \in Tables, bucket_indices \in Batch(partition)
  PROVE  /\ partition.world_size \in Nat \ {0}
         /\ IsPartition(partition.offsets, partition.world_size)
         /\ \A r \in 0 .. partition.world_size : partition.offsets[r] \in Nat
         /\ \E n \in 0 .. MaxIndices :
              bucket_indices \in [1 .. n -> -1 .. partition.offsets[partition.world_size] - 1]
         /\ IsFiniteSet(DOMAIN bucket_indices)
<1>1. /\ partition.world_size \in Nat \ {0}
      /\ IsPartition(partition.offsets, partition.world_size)
  BY TablesAssumption
<1>2. \A r \in 0 .. partition.world_size : partition.offsets[r] \in Nat
  BY <1>1 DEF IsPartition
<1>3. PICK n \in 0 .. MaxIndices :
        bucket_indices \in [1 .. n -> -1 .. partition.offsets[partition.world_size] - 1]
  BY DEF Batch
<1>4. DOMAIN bucket_indices = 1 .. n /\ n \in Nat
  BY <1>3, MaxIndicesAssumption
<1>5. IsFiniteSet(1 .. n)
  BY <1>4, Interval
<1>6. QED
  BY <1>1, <1>2, <1>3, <1>4, <1>5

\* The entry of an index has exactly one owner, which is what dest_rank returns.
LEMMA KernelOwner ==
  ASSUME Searchable, partition \in Tables, bucket_indices \in Batch(partition),
         NEW i \in DOMAIN bucket_indices, bucket_indices[i] >= 0,
         NEW rank \in DestRanks(partition.offsets, partition.world_size, bucket_indices[i])
  PROVE  /\ rank \in BucketRank
         /\ \A r \in BucketRank : Owns(partition.offsets, r, bucket_indices[i]) <=> r = rank
<1>1. PICK W \in Nat \ {0} : W = partition.world_size
  BY KernelFacts
<1>2. PICK offsets : offsets = partition.offsets
  OBVIOUS
<1>3. PICK e \in Nat : e = bucket_indices[i] /\ e \in 0 .. offsets[W] - 1
  <2>1. PICK n \in 0 .. MaxIndices : bucket_indices \in [1 .. n -> -1 .. offsets[W] - 1]
    BY <1>1, <1>2, KernelFacts
  <2>2. bucket_indices[i] \in -1 .. offsets[W] - 1
    BY <2>1
  <2>3. offsets[W] \in Nat
    BY <1>1, <1>2, KernelFacts
  <2>4. bucket_indices[i] \in Nat /\ bucket_indices[i] \in 0 .. offsets[W] - 1
    BY <2>2, <2>3
  <2>5. QED
    BY <2>4
<1>4. IsPartition(offsets, W) /\ GuessInRange(offsets, W) /\ rank \in DestRanks(offsets, W, e)
  BY <1>1, <1>2, <1>3, KernelFacts DEF Searchable
<1>5. rank \in 0 .. W - 1 /\ Owns(offsets, rank, e)
  BY <1>3, <1>4, OwnerFound
<1>6. \A r \in 0 .. W - 1 : Owns(offsets, r, e) => r = rank
  BY <1>3, <1>4, <1>5, OneOwner
<1>7. QED
  BY <1>1, <1>2, <1>3, <1>5, <1>6 DEF BucketRank

\* A padding index belongs to nobody.
LEMMA KernelSkips ==
  ASSUME KernelInv, NEW i \in uncounted, SkipIndex(i)
  PROVE  KernelInv'
<1>1. i \in DOMAIN bucket_indices /\ bucket_indices[i] < 0
  BY DEF KernelInv, SkipIndex
<1>2. /\ partition' = partition /\ bucket_indices' = bucket_indices
      /\ rank_count' = rank_count /\ dest' = dest /\ uncounted' = uncounted \ {i}
  BY DEF SkipIndex
<1>3. ASSUME NEW r \in BucketRank PROVE OwnedBy(r)' = OwnedBy(r)
  <2>1. r \in 0 .. partition.world_size
    BY KernelFacts DEF KernelInv, BucketRank
  <2>2. partition.offsets[r] \in Nat
    BY <2>1, KernelFacts DEF KernelInv
  <2>3. bucket_indices[i] \in Int
    BY <1>1, KernelFacts DEF KernelInv
  <2>4. ~ Owns(partition.offsets, r, bucket_indices[i])
    BY <1>1, <2>2, <2>3 DEF Owns
  <2>5. QED
    BY <1>1, <1>2, <2>4 DEF OwnedBy
<1>4. BucketRank' = BucketRank
  BY <1>2 DEF BucketRank
<1>5. QED
  BY <1>2, <1>3, <1>4 DEF KernelInv

\* The count of the owner goes up with what it owns, and no other.
LEMMA KernelCounts ==
  ASSUME Searchable, KernelInv, NEW i \in uncounted, CountIndex(i)
  PROVE  KernelInv'
<1>1. i \in DOMAIN bucket_indices /\ bucket_indices[i] >= 0
  BY DEF KernelInv, CountIndex
<1>2. /\ partition' = partition /\ bucket_indices' = bucket_indices
      /\ uncounted' = uncounted \ {i}
  BY DEF CountIndex
<1>3. BucketRank' = BucketRank
  BY <1>2 DEF BucketRank
<1>4. dest' \in DestRanks(partition.offsets, partition.world_size, bucket_indices[i])
  BY DEF CountIndex
<1>5. /\ dest' \in BucketRank
      /\ \A r \in BucketRank : Owns(partition.offsets, r, bucket_indices[i]) <=> r = dest'
  BY <1>1, <1>4, KernelOwner DEF KernelInv
<1>6. rank_count' = [rank_count EXCEPT ![dest'] = @ + 1]
  BY <1>5 DEF CountIndex, RankInRange
<1>7. ASSUME NEW r \in BucketRank PROVE rank_count'[r] = Cardinality(OwnedBy(r)')
  <2>1. IsFiniteSet(OwnedBy(r)) /\ i \notin OwnedBy(r)
    <3>1. OwnedBy(r) \in SUBSET DOMAIN bucket_indices /\ i \notin OwnedBy(r)
      BY DEF OwnedBy
    <3>2. QED
      BY <3>1, KernelFacts, FS_Subset DEF KernelInv
  <2>2. CASE r = dest'
    <3>1. OwnedBy(r)' = OwnedBy(r) \cup {i}
      BY <1>1, <1>2, <1>5, <2>2 DEF OwnedBy
    <3>2. Cardinality(OwnedBy(r)') = Cardinality(OwnedBy(r)) + 1
      BY <2>1, <3>1, FS_AddElement
    <3>3. QED
      BY <1>6, <2>2, <3>2 DEF KernelInv
  <2>3. CASE r # dest'
    <3>1. OwnedBy(r)' = OwnedBy(r)
      BY <1>1, <1>2, <1>5, <2>3 DEF OwnedBy
    <3>2. QED
      BY <1>5, <1>6, <2>3, <3>1 DEF KernelInv
  <2>4. QED
    BY <2>2, <2>3
<1>8. rank_count' \in [BucketRank -> Nat]
  BY <1>5, <1>6 DEF KernelInv
<1>9. QED
  BY <1>2, <1>3, <1>5, <1>7, <1>8 DEF KernelInv

\* Invariance: in whatever order the threads take the indices, the counts are those of
\* the indices taken so far.
LEMMA KernelInvariance == ASSUME Searchable PROVE BucketSpec => []KernelInv
<1>1. BucketInit => KernelInv
  <2>1. SUFFICES ASSUME BucketInit PROVE KernelInv
    OBVIOUS
  <2>2. /\ partition \in Tables /\ bucket_indices \in Batch(partition)
        /\ uncounted = DOMAIN bucket_indices
        /\ rank_count = [r \in BucketRank |-> 0] /\ dest = -1
    BY <2>1 DEF BucketInit
  <2>3. \A r \in BucketRank : Cardinality(OwnedBy(r)) = 0
    <3>1. \A r \in BucketRank : OwnedBy(r) = {}
      BY <2>2 DEF OwnedBy
    <3>2. QED
      BY <3>1, FS_EmptySet
  <2>4. QED
    BY <2>2, <2>3 DEF KernelInv
<1>2. KernelInv /\ [BucketNext]_bucketVars => KernelInv'
  <2>1. SUFFICES ASSUME KernelInv, [BucketNext]_bucketVars PROVE KernelInv'
    OBVIOUS
  <2>2. CASE UNCHANGED bucketVars
    BY <2>1, <2>2 DEF KernelInv, OwnedBy, BucketRank, bucketVars
  <2>3. QED
    BY <2>1, <2>2, KernelSkips, KernelCounts DEF BucketNext, AllCounted
<1>3. QED
  BY <1>1, <1>2, PTL DEF BucketSpec

\* The assertion of bucket_ids_for_ranks_kernel holds: dest_rank returns a rank, for any
\* partition in whose offsets its guess stays, any batch and any order of the threads.
THEOREM KernelAssertion == ASSUME Searchable PROVE BucketSpec => []AssertHolds
<1>1. KernelInv => AssertHolds
  BY DEF KernelInv, AssertHolds
<1>2. QED
  BY <1>1, KernelInvariance, PTL

\* The counts are those of the entries each rank owns, in whatever order the threads take
\* the indices.
THEOREM CountsRight == ASSUME Searchable PROVE BucketSpec => []CountsOwned
<1>1. KernelInv => CountsOwned
  BY DEF KernelInv, CountsOwned, OwnedBy
<1>2. QED
  BY <1>1, KernelInvariance, PTL

\* No count is greater than the batch.
THEOREM KernelTyped == ASSUME Searchable PROVE BucketSpec => []BucketTypeOK
<1>1. KernelInv => BucketTypeOK
  <2>1. SUFFICES ASSUME KernelInv PROVE BucketTypeOK
    OBVIOUS
  <2>2. PICK n \in 0 .. MaxIndices :
          bucket_indices \in [1 .. n -> -1 .. partition.offsets[partition.world_size] - 1]
    BY <2>1, KernelFacts DEF KernelInv
  <2>3. n \in Nat /\ DOMAIN bucket_indices = 1 .. n /\ Len(bucket_indices) = n
    BY <2>2, MaxIndicesAssumption
  <2>4. ASSUME NEW r \in BucketRank PROVE rank_count[r] \in 0 .. n
    <3>1. OwnedBy(r) \in SUBSET (1 .. n)
      BY <2>3 DEF OwnedBy
    <3>2. Cardinality(OwnedBy(r)) <= n
      BY <2>3, <3>1, Interval, FS_Subset
    <3>3. rank_count[r] \in Nat /\ rank_count[r] = Cardinality(OwnedBy(r))
      BY <2>1 DEF KernelInv
    <3>4. QED
      BY <2>3, <3>2, <3>3
  <2>5. rank_count \in [BucketRank -> 0 .. Len(bucket_indices)]
    BY <2>1, <2>3, <2>4 DEF KernelInv
  <2>6. QED
    BY <2>1, <2>5 DEF KernelInv, BucketTypeOK
<1>2. QED
  BY <1>1, KernelInvariance, PTL

\* The table whose entries are gathered and scattered.
ThisTable == [world_size |-> WorldSize, offsets |-> Offsets]

\* When all threads have ended, the kernel has counted what Bucket takes from it.
THEOREM KernelImplementsCounts ==
  ASSUME Searchable
  PROVE  BucketSpec => [](partition = ThisTable /\ uncounted = {}
                            => rank_count = CountsOf(bucket_indices))
<1>1. ASSUME KernelInv, partition = ThisTable, uncounted = {}
      PROVE  rank_count = CountsOf(bucket_indices)
  <2> DEFINE indices == bucket_indices
  <2>1. BucketRank = Rank /\ partition.offsets = Offsets /\ partition.world_size = WorldSize
    BY <1>1 DEF ThisTable, BucketRank, Rank
  <2>2. ASSUME NEW i \in DOMAIN indices, NEW r \in Rank
        PROVE  Owns(Offsets, r, indices[i]) <=> indices[i] >= 0 /\ Owner(indices[i]) = r
    <3>1. indices[i] \in -1 .. Total - 1
      BY <1>1, <2>1, <2>2, KernelFacts DEF KernelInv, Total
    <3>2. Total \in Nat /\ indices[i] \in Int
      BY <3>1, TableSize
    <3>3. CASE indices[i] < 0
      <4>1. r \in 0 .. WorldSize /\ Offsets \in [0 .. WorldSize -> Nat]
        BY TableSize, PartitionAssumption DEF Rank, IsPartition
      <4>2. QED
        BY <3>2, <3>3, <4>1 DEF Owns
    <3>4. CASE indices[i] >= 0
      <4>1. indices[i] \in Entry
        BY <3>1, <3>2, <3>4 DEF Entry
      <4>2. Owner(indices[i]) \in Rank /\ Owns(Offsets, Owner(indices[i]), indices[i])
        BY <4>1, OwnerOf
      <4>3. QED
        BY <3>4, <4>1, <4>2, OwnerOf
    <3>5. QED
      BY <3>2, <3>3, <3>4
  <2>3. \A r \in Rank :
          OwnedBy(r) = {i \in DOMAIN indices : indices[i] >= 0 /\ Owner(indices[i]) = r}
    BY <1>1, <2>1, <2>2 DEF OwnedBy
  <2>4. \A r \in Rank : rank_count[r] = CountsOf(indices)[r]
    BY <1>1, <2>1, <2>3 DEF KernelInv, CountsOf
  <2>5. QED
    BY <1>1, <2>1, <2>4 DEF KernelInv, CountsOf
<1>2. QED
  BY <1>1, KernelInvariance, PTL

-----------------------------------------------------------------------------
\* What is assumed of a job, by name.
LEMMA JobFields ==
  ASSUME NEW j \in Jobs
  PROVE  /\ j.op \in {"gather", "scatter"} /\ j.size \in Nat \ {0} /\ j.blocks \in Nat \ {0}
         /\ j.table.elt \in Nat \ {0} /\ VectorBytes % j.table.elt = 0
         /\ j.table.offset \in Nat /\ j.table.stride \in Nat /\ j.size <= j.table.stride
         /\ j.io.elt \in Nat \ {0} /\ VectorBytes % j.io.elt = 0
         /\ j.io.base \in Nat /\ j.io.offset \in Nat /\ j.io.stride \in Nat
         /\ j.size <= j.io.stride
         /\ j.table.rows \in Nat /\ j.indices \in Seq(Int)
         /\ \A i \in DOMAIN j.indices : j.indices[i] < j.table.rows
         /\ j.op = "scatter" => j.io.base % Async(j) = 0
BY JobsAssumption

\* The widest vectors of one tensor fit its layout.
LEMMA AlignmentFits ==
  ASSUME NEW j \in Jobs, NEW elt \in Nat \ {0}, VectorBytes % elt = 0,
         NEW start \in Nat, NEW stride \in Nat,
         NEW a, a = AlignmentOf(j, elt, start, stride)
  PROVE  /\ a \in Nat \ {0} /\ (VectorBytes \div elt) % a = 0 /\ VectorBytes % a = 0
         /\ start % a = 0 /\ j.size % a = 0 /\ stride % a = 0
<1> DEFINE q == VectorBytes \div elt
           S == {d \in 1 .. q : /\ q % d = 0
                                /\ start % d = 0 /\ j.size % d = 0 /\ stride % d = 0}
<1>1. VectorBytes \in Nat \ {0} /\ j.size \in Nat
  BY JobFields, BytesAssumption
<1>2. q \in Nat \ {0} /\ VectorBytes % q = 0
  BY <1>1, DivisorQuotient
<1>3. a = Max(S)
  BY DEF AlignmentOf
<1> HIDE DEF q
<1>4. 1 \in S
  <2>1. \A n \in Nat : n % 1 = 0
    OBVIOUS
  <2>2. QED
    BY <1>1, <1>2, <2>1
<1>5. S \in SUBSET Nat /\ S # {} /\ \A d \in S : d <= q
  BY <1>2, <1>4
<1> HIDE DEF S
<1>6. \E m \in S : \A n \in S : n <= m
  BY <1>2, <1>5, LargestElement
<1>7. \E m \in S : \A n \in S : m >= n
  BY <1>5, <1>6
<1>8. a \in S
  BY <1>3, <1>7 DEF Max
<1>9. a \in Nat \ {0} /\ q % a = 0 /\ start % a = 0 /\ j.size % a = 0 /\ stride % a = 0
  BY <1>8, <1>2 DEF S
<1>10. VectorBytes % a = 0
  BY <1>1, <1>2, <1>9, MultiplesThrough
<1>11. QED
  BY <1>9, <1>10 DEF q

\* The vectors of a job fit both.
LEMMA Aligned ==
  ASSUME NEW j \in Jobs, NEW a, a = Alignment(j)
  PROVE  /\ a \in Nat \ {0} /\ (VectorBytes \div j.io.elt) % a = 0 /\ VectorBytes % a = 0
         /\ j.size % a = 0 /\ j.table.offset % a = 0 /\ j.table.stride % a = 0
         /\ (j.io.base + j.io.offset) % a = 0 /\ j.io.stride % a = 0
<1> DEFINE x == AlignmentOf(j, j.table.elt, j.table.offset, j.table.stride)
           y == AlignmentOf(j, j.io.elt, j.io.base + j.io.offset, j.io.stride)
<1>1. /\ x \in Nat \ {0} /\ VectorBytes % x = 0
      /\ j.table.offset % x = 0 /\ j.size % x = 0 /\ j.table.stride % x = 0
  <2>1. /\ j.table.elt \in Nat \ {0} /\ VectorBytes % j.table.elt = 0
        /\ j.table.offset \in Nat /\ j.table.stride \in Nat
    BY JobFields
  <2>2. PICK e \in Nat \ {0}, o \in Nat, t \in Nat :
          e = j.table.elt /\ o = j.table.offset /\ t = j.table.stride
    BY <2>1
  <2>3. PICK d : d = AlignmentOf(j, e, o, t)
    OBVIOUS
  <2>4. VectorBytes % e = 0
    BY <2>1, <2>2
  <2>5. VectorBytes % d = 0 /\ d \in Nat \ {0} /\ o % d = 0 /\ j.size % d = 0 /\ t % d = 0
    BY <2>3, <2>4, AlignmentFits
  <2>6. QED
    BY <2>2, <2>3, <2>5
<1>2. j.io.base + j.io.offset \in Nat
  BY JobFields
<1>3. /\ y \in Nat \ {0} /\ VectorBytes % y = 0 /\ (VectorBytes \div j.io.elt) % y = 0
      /\ (j.io.base + j.io.offset) % y = 0 /\ j.size % y = 0 /\ j.io.stride % y = 0
  <2>1. j.io.elt \in Nat \ {0} /\ VectorBytes % j.io.elt = 0 /\ j.io.stride \in Nat
    BY JobFields
  <2>2. PICK e \in Nat \ {0}, o \in Nat, t \in Nat :
          e = j.io.elt /\ o = j.io.base + j.io.offset /\ t = j.io.stride
    BY <1>2, <2>1
  <2>3. PICK d : d = AlignmentOf(j, e, o, t)
    OBVIOUS
  <2>4. VectorBytes % e = 0
    BY <2>1, <2>2
  <2>5. /\ d \in Nat \ {0} /\ VectorBytes % d = 0 /\ (VectorBytes \div e) % d = 0
        /\ o % d = 0 /\ j.size % d = 0 /\ t % d = 0
    BY <2>3, <2>4, AlignmentFits
  <2>6. QED
    BY <2>2, <2>3, <2>5
<1>4. a = Min({x, y})
  BY DEF Alignment
<1> HIDE DEF x, y
<1>5. a = IF x <= y THEN x ELSE y
  <2>1. \E m \in {x, y} : \A n \in {x, y} : m <= n
    BY <1>1, <1>3
  <2>2. a \in {x, y} /\ a <= x /\ a <= y
    BY <1>4, <2>1 DEF Min
  <2>3. QED
    BY <1>1, <1>3, <2>2
<1>6. a \in Nat \ {0} /\ VectorBytes % a = 0
  BY <1>1, <1>3, <1>5
<1>7. /\ VectorBytes \in Nat \ {0}
      /\ \A c, d \in 1 .. VectorBytes :
           VectorBytes % c = 0 /\ VectorBytes % d = 0 /\ c <= d => d % c = 0
  BY BytesAssumption
<1>8. x \in 1 .. VectorBytes /\ y \in 1 .. VectorBytes
  BY <1>1, <1>3, <1>7, DivisorSmall
<1>9. x % a = 0 /\ y % a = 0
  <2>1. x % x = 0 /\ y % y = 0
    BY <1>1, <1>3
  <2>2. CASE x <= y
    BY <1>1, <1>3, <1>5, <1>7, <1>8, <2>1, <2>2
  <2>3. CASE ~ (x <= y)
    BY <1>1, <1>3, <1>5, <1>7, <1>8, <2>1, <2>3
  <2>4. QED
    BY <2>2, <2>3
<1>10. j.table.offset % a = 0 /\ j.size % a = 0 /\ j.table.stride % a = 0
  BY <1>1, <1>6, <1>9, JobFields, MultiplesThrough
<1>11. (j.io.base + j.io.offset) % a = 0 /\ j.io.stride % a = 0
  BY <1>2, <1>3, <1>6, <1>9, JobFields, MultiplesThrough
<1>12. (VectorBytes \div j.io.elt) % a = 0
  <2>1. VectorBytes \div j.io.elt \in Nat
    BY <1>7, JobFields, DivisorQuotient
  <2>2. QED
    BY <1>3, <1>6, <1>9, <2>1, MultiplesThrough
<1>13. QED
  BY <1>6, <1>10, <1>11, <1>12

\* Of two numbers that divide the width of a vector, the smaller divides the greater.
LEMMA Powers ==
  ASSUME NEW c \in Nat \ {0}, NEW d \in Nat \ {0}, VectorBytes % c = 0, VectorBytes % d = 0, c <= d
  PROVE  d % c = 0
<1>1. VectorBytes \in Nat \ {0}
  BY BytesAssumption
<1>2. c <= VectorBytes /\ d <= VectorBytes
  BY <1>1, DivisorSmall
<1>3. c \in 1 .. VectorBytes /\ d \in 1 .. VectorBytes
  BY <1>1, <1>2
<1>4. QED
  BY <1>3, BytesAssumption

\* Copies into shared memory: their alignment divides the width of a vector.
LEMMA AsyncFits ==
  ASSUME NEW j \in Jobs, NEW c, c = Async(j)
  PROVE  c \in Nat \ {0} /\ (VectorBytes \div j.io.elt) % c = 0 /\ VectorBytes % c = 0
<1>1. /\ VectorBytes \in Nat \ {0} /\ AsyncBytes \in Nat \ {0} /\ VectorBytes % AsyncBytes = 0
      /\ j.io.elt \in Nat \ {0} /\ VectorBytes % j.io.elt = 0
  BY JobFields, BytesAssumption
<1>2. PICK e \in Nat \ {0} : e = j.io.elt
  BY <1>1
<1>3. PICK q \in Nat \ {0} : q = VectorBytes \div e /\ VectorBytes = e * q /\ VectorBytes % q = 0
  <2>1. VectorBytes % e = 0
    BY <1>1, <1>2
  <2>2. PICK v \in Nat \ {0} : v = VectorBytes
    BY <1>1
  <2>3. v \div e \in Nat \ {0} /\ v = e * (v \div e) /\ v % (v \div e) = 0
    BY <2>1, <2>2, DivisorQuotient
  <2>4. QED
    BY <2>2, <2>3, Zenon
<1>4. c = IF e > AsyncBytes THEN 1 ELSE AsyncBytes \div e
  BY <1>2 DEF Async
<1>5. CASE e > AsyncBytes
  <2>1. c = 1 /\ \A n \in Nat : n % 1 = 0
    BY <1>4, <1>5
  <2>2. QED
    BY <1>1, <1>2, <1>3, <2>1
<1>6. CASE ~ (e > AsyncBytes)
  <2>1. AsyncBytes % e = 0
    BY <1>1, <1>2, <1>6, Powers
  <2>2. c \in Nat \ {0} /\ AsyncBytes = e * c
    BY <1>1, <1>4, <1>6, <2>1, DivisorQuotient
  <2>3. PICK m \in Nat : VectorBytes = AsyncBytes * m
    BY <1>1, MultipleOf
  <2>4. VectorBytes = e * (c * m) /\ c * m \in Nat
    BY <2>2, <2>3, Z3
  <2>5. VectorBytes \div e = c * m
    BY <2>4, Cancelled
  <2>6. q = c * m
    BY <1>3, <2>5
  <2>7. q % c = 0
    BY <2>2, <2>6, MultipleOf
  <2>8. VectorBytes % c = 0
    BY <1>1, <1>3, <2>2, <2>7, MultiplesThrough
  <2>9. QED
    BY <1>2, <1>3, <2>2, <2>7, <2>8
<1>7. QED
  BY <1>5, <1>6

\* The share of a warp is a number of the widest vectors, and all shares fit into the
\* memory of the block.
LEMMA ShareFits ==
  ASSUME NEW j \in Jobs, NEW s, s = Share(j)
  PROVE  /\ s \in Nat \ {0} /\ s % Alignment(j) = 0 /\ s % Async(j) = 0
         /\ SharedSize(j) = WarpsPerBlock * s /\ SharedSize(j) \in Nat
<1> DEFINE bytes == IF j.op = "gather" THEN GatherBytes ELSE ScatterBytes
<1>1. /\ VectorBytes \in Nat \ {0} /\ WarpsPerBlock \in Nat \ {0}
      /\ bytes \in Nat \ {0} /\ bytes % (WarpsPerBlock * VectorBytes) = 0
  BY BytesAssumption
<1>2. PICK e \in Nat \ {0} : e = j.io.elt /\ VectorBytes % e = 0
  BY JobFields
<1>3. PICK q \in Nat \ {0} : q = VectorBytes \div e /\ VectorBytes = e * q
  <2>1. PICK v \in Nat \ {0} : v = VectorBytes
    BY <1>1
  <2>2. v \div e \in Nat \ {0} /\ v = e * (v \div e)
    BY <1>2, <2>1, DivisorQuotient
  <2>3. QED
    BY <2>1, <2>2, Zenon
<1>4. PICK w \in Nat \ {0} : w = WarpsPerBlock
  BY <1>1
<1>5. s = (bytes \div e) \div w /\ SharedSize(j) = bytes \div e
  BY <1>2, <1>4 DEF Share, SharedSize
<1> HIDE DEF bytes
<1>6. PICK k \in Nat : bytes = (w * VectorBytes) * k
  <2>1. w * VectorBytes \in Nat \ {0}
    BY <1>1, <1>4, Z3
  <2>2. PICK p \in Nat \ {0} : p = w * VectorBytes
    BY <2>1
  <2>3. bytes % p = 0
    BY <1>1, <1>4, <2>2
  <2>4. PICK k \in Nat : bytes = p * k
    BY <1>1, <2>3, MultipleOf
  <2>5. QED
    BY <2>2, <2>4
<1>7. k # 0
  BY <1>1, <1>4, <1>6, Z3
<1>8. PICK m \in Nat : m = q * k
  BY <1>3, <1>6, Z3
<1>9. m # 0 /\ bytes = e * (w * m) /\ w * m \in Nat
  <2>1. \A a, b, c, d \in Nat :
          (a * (b * c)) * d = b * (a * (c * d)) /\ a * (c * d) \in Nat
    BY Z3
  <2>2. (w * (e * q)) * k = e * (w * (q * k)) /\ w * (q * k) \in Nat
    BY <1>6, <2>1
  <2>3. m # 0
    BY <1>6, <1>7, <1>8, Z3
  <2>4. QED
    BY <1>3, <1>6, <1>8, <2>2, <2>3, Zenon
<1>10. bytes \div e = w * m
  BY <1>9, Cancelled
<1>11. s = m
  BY <1>5, <1>10, <1>4, Cancelled
<1>12. Alignment(j) \in Nat \ {0} /\ q % Alignment(j) = 0
  BY <1>2, <1>3, Aligned
<1>13. Async(j) \in Nat \ {0} /\ q % Async(j) = 0
  BY <1>2, <1>3, AsyncFits
<1>14. m % Alignment(j) = 0 /\ m % Async(j) = 0
  BY <1>3, <1>6, <1>8, <1>12, <1>13, MultiplesTimes
<1>15. QED
  BY <1>4, <1>5, <1>9, <1>10, <1>11, <1>14

\* There are groups, of some lanes, and as many in a block as it has shares if these are
\* used.
LEMMA GroupsFit ==
  ASSUME NEW j \in Jobs
  PROVE  /\ Width(j) \in Nat \ {0} /\ GroupsPerBlock(j) \in Nat \ {0}
         /\ j.blocks * GroupsPerBlock(j) \in Nat \ {0}
         /\ UsesShare(j) => GroupsPerBlock(j) = WarpsPerBlock
<1>1. WarpSize \in Nat \ {0} /\ WarpsPerBlock \in Nat \ {0}
  BY BytesAssumption
<1>2. Width(j) \in Nat \ {0} /\ WarpSize % Width(j) = 0 /\ (~ SubWarp(j) => Width(j) = WarpSize)
  <2>1. CASE ~ SubWarp(j)
    BY <1>1, <2>1 DEF Width
  <2>2. CASE SubWarp(j)
    <3> DEFINE S == {w \in 1 .. Threads(j) : WarpSize % w = 0}
    <3>1. PICK a \in Nat \ {0} : a = Alignment(j) /\ j.size % a = 0
      BY Aligned
    <3>2. j.size \in Nat \ {0}
      BY JobFields
    <3>3. j.size \div a \in Nat \ {0}
      BY <3>1, <3>2, DivisorQuotient
    <3>4. Threads(j) \in Nat \ {0}
      BY <3>1, <3>3 DEF Threads
    <3>5. 1 \in S
      <4>1. \A n \in Nat : n % 1 = 0
        OBVIOUS
      <4>2. QED
        BY <1>1, <3>4, <4>1
    <3>6. S \in SUBSET Nat /\ S # {} /\ \A w \in S : w <= Threads(j)
      BY <3>4, <3>5
    <3>7. Width(j) = Max(S)
      BY <2>2 DEF Width
    <3>8. \A w \in S : w \in Nat \ {0} /\ WarpSize % w = 0
      BY <3>4
    <3> HIDE DEF S
    <3>9. \E m \in S : \A n \in S : n <= m
      BY <3>4, <3>6, LargestElement
    <3>10. \E m \in S : \A n \in S : m >= n
      BY <3>6, <3>9
    <3>11. Width(j) \in S
      BY <3>7, <3>10 DEF Max
    <3>12. QED
      BY <2>2, <3>8, <3>11
  <2>3. QED
    BY <2>1, <2>2
<1>3. PICK w \in Nat \ {0} : w = Width(j)
  BY <1>2
<1>4. PICK m \in Nat : WarpSize = w * m
  BY <1>1, <1>2, <1>3, MultipleOf
<1>5. PICK p \in Nat \ {0} : p = WarpsPerBlock
  BY <1>1
<1>6. p * WarpSize = w * (p * m) /\ p * m \in Nat /\ (m # 0 => p * m # 0)
  BY <1>4, <1>5, Z3
<1>7. m # 0
  BY <1>1, <1>4
<1>8. (p * WarpSize) \div w = p * m
  BY <1>6, Cancelled
<1>9. GroupsPerBlock(j) = p * m
  BY <1>3, <1>5, <1>8 DEF GroupsPerBlock
<1>10. GroupsPerBlock(j) \in Nat \ {0}
  BY <1>6, <1>7, <1>9
<1>11. j.blocks * GroupsPerBlock(j) \in Nat \ {0}
  <2>1. PICK b \in Nat \ {0} : b = j.blocks
    BY JobFields
  <2>2. PICK g \in Nat \ {0} : g = GroupsPerBlock(j)
    BY <1>10
  <2>3. b * g \in Nat \ {0}
    BY Z3
  <2>4. QED
    BY <2>1, <2>2, <2>3
<1>12. ASSUME UsesShare(j) PROVE GroupsPerBlock(j) = WarpsPerBlock
  <2>1. ~ SubWarp(j)
    BY <1>12 DEF UsesShare, SubWarp
  <2>2. w = WarpSize
    BY <1>2, <1>3, <2>1
  <2>3. PICK z \in Nat \ {0} : z = WarpSize
    BY <1>1
  <2>4. p * z = z * p
    BY <1>5, <2>3, Z3
  <2>5. (z * p) \div z = p
    BY Cancelled
  <2>6. QED
    BY <1>3, <1>5, <2>2, <2>3, <2>4, <2>5 DEF GroupsPerBlock
<1>13. QED
  BY <1>3, <1>10, <1>11, <1>12

\* Rounding up to a multiple of c does not pass one.
LEMMA RoundedUp ==
  ASSUME NEW c \in Nat \ {0}, NEW n \in Nat
  PROVE  /\ RoundUpTo(n, c) \in Nat /\ n <= RoundUpTo(n, c)
         /\ \A s \in Nat : n <= s /\ s % c = 0 => RoundUpTo(n, c) <= s
<1>1. PICK t \in Nat : t = n + c - 1
  OBVIOUS
<1>2. PICK m \in Nat, r \in 0 .. c - 1 : m = t \div c /\ t = (c * m) + r
  <2>1. t \div c \in Nat /\ t % c \in 0 .. c - 1 /\ t = (c * (t \div c)) + (t % c)
    BY Division
  <2>2. QED
    BY <2>1, Zenon
<1>3. PICK p \in Nat : p = c * m
  OBVIOUS
<1>4. t = p + r
  BY <1>2, <1>3
<1>5. RoundUpTo(n, c) = p
  <2>1. RoundUpTo(n, c) = m * c
    BY <1>1, <1>2 DEF RoundUpTo
  <2>2. m * c = c * m
    BY Z3
  <2>3. QED
    BY <1>3, <2>1, <2>2
<1>6. n <= p
  BY <1>1, <1>2, <1>4
<1>7. ASSUME NEW s \in Nat, n <= s, s % c = 0 PROVE p <= s
  <2>1. PICK k \in Nat : s = c * k
    BY <1>7, MultipleOf
  <2>2. SUFFICES ASSUME s < p PROVE FALSE
    BY <1>3
  <2>3. k < m
    <3>1. SUFFICES ASSUME m <= k PROVE FALSE
      OBVIOUS
    <3>2. c * m <= c * k
      BY <3>1, Z3
    <3>3. QED
      BY <1>3, <2>1, <2>2, <3>2
  <2>4. (c * k) + c <= c * m
    <3>1. k + 1 <= m
      BY <2>3
    <3>2. c * (k + 1) <= c * m /\ c * (k + 1) = (c * k) + c
      BY <3>1, Z3
    <3>3. QED
      BY <3>2
  <2>5. s + c <= p
    BY <1>3, <2>1, <2>4
  <2>6. QED
    BY <1>1, <1>2, <1>4, <1>7, <2>5
<1>8. QED
  BY <1>5, <1>6, <1>7

\* What a share of a scatter has room for.
LEMMA ShareRoom ==
  ASSUME NEW j \in Jobs, j.op = "scatter", UsesShare(j)
  PROVE  /\ Lines(j) \in Nat \ {0}
         /\ \A n \in Nat : n <= Lines(j) =>
              n * j.io.stride \in Nat /\ (n * j.io.stride) + Async(j) <= Share(j)
<1>1. PICK s \in Nat \ {0}, c \in Nat \ {0} : s = Share(j) /\ c = Async(j) /\ s % c = 0
  BY ShareFits, AsyncFits
<1>2. PICK d \in Nat \ {0} : d = j.io.stride
  BY JobFields
<1>3. c <= s
  BY <1>1, DivisorSmall
<1>4. PICK t \in Nat : t = s - c
  BY <1>3
<1>5. Lines(j) = t \div d
  BY <1>1, <1>2, <1>4 DEF Lines, RowsInShare
<1>6. Lines(j) > 0
  BY DEF UsesShare, Lines
<1>7. PICK l \in Nat, r \in 0 .. d - 1 : l = t \div d /\ t = (d * l) + r
  <2>1. t \div d \in Nat /\ t % d \in 0 .. d - 1 /\ t = (d * (t \div d)) + (t % d)
    BY Division
  <2>2. QED
    BY <2>1, Zenon
<1>8. ASSUME NEW n \in Nat, n <= l PROVE n * d \in Nat /\ (n * d) + c <= s
  <2>1. n * d \in Nat /\ n * d <= d * l /\ d * l \in Nat
    BY <1>8, Z3
  <2>2. d * l <= t
    BY <1>7, <2>1
  <2>3. QED
    BY <1>4, <2>1, <2>2
<1>9. QED
  BY <1>1, <1>2, <1>5, <1>6, <1>7, <1>8

-----------------------------------------------------------------------------
\* The rows in the order of the kernel are the rows of the caller's tensor.
LEMMA RowsOrdered ==
  ASSUME NEW j \in Jobs
  PROVE  /\ Count(j) \in Nat
         /\ \A i \in 0 .. Count(j) - 1 :
              /\ RawRow(j, i) \in 0 .. Count(j) - 1
              /\ Index(j, i) = j.indices[RawRow(j, i) + 1]
              /\ Index(j, i) \in Int /\ Index(j, i) < j.table.rows
              /\ j.op = "scatter" => RawRow(j, i) = i
         /\ \A k \in 0 .. Count(j) - 1 : \E i \in 0 .. Count(j) - 1 : RawRow(j, i) = k
<1>1. PICK b : b = j.indices
  OBVIOUS
<1>2. /\ b \in Seq(Int) /\ \A i \in DOMAIN b : b[i] < j.table.rows
      /\ Count(j) = Len(b)
  BY <1>1, JobFields DEF Count
<1>3. PICK n \in Nat : n = Len(b) /\ DOMAIN b = 1 .. n /\ \A i \in 1 .. n : b[i] \in Int
  BY <1>2
<1>4. PICK order : order = TakenOrder(j)
  OBVIOUS
<1>5. /\ order \in [1 .. n -> 1 .. n]
      /\ \A i \in 1 .. n : \E k \in 1 .. n : order[k] = i
      /\ j.op = "scatter" => \A i \in 1 .. n : order[i] = i
  <2>1. CASE SortedIds(j)
    <3>1. IndexRange \in Nat \ {0}
      BY BytesAssumption
    <3>2. \A e \in Int, m \in Nat \ {0} : e % m \in Int
      OBVIOUS
    <3>3. Sortable(b)
      BY <1>2, <1>3, <3>1, <3>2 DEF Sortable, SortKey
    <3>4. order = Sorted(b) /\ j.op # "scatter"
      BY <1>1, <1>4, <2>1 DEF TakenOrder, SortedIds
    <3>5. Sorted(b) \in [1 .. n -> 1 .. n] /\ \A i \in 1 .. n : \E k \in 1 .. n : Sorted(b)[k] = i
      BY <1>3, <3>3, SortedPermutes
    <3>6. QED
      BY <3>4, <3>5
  <2>2. CASE ~ SortedIds(j)
    <3>1. order = [i \in 1 .. n |-> i]
      BY <1>1, <1>3, <1>4, <2>2 DEF TakenOrder
    <3>2. QED
      BY <3>1
  <2>3. QED
    BY <2>1, <2>2
<1>6. ASSUME NEW i \in 0 .. n - 1
      PROVE  /\ RawRow(j, i) = order[i + 1] - 1 /\ order[i + 1] \in 1 .. n
             /\ Index(j, i) = b[order[i + 1]]
  <2>1. i + 1 \in 1 .. n
    BY <1>3
  <2>2. order[i + 1] \in 1 .. n
    BY <1>5, <2>1
  <2>3. RawRow(j, i) = order[i + 1] - 1 /\ Index(j, i) = b[order[i + 1]]
    BY <1>1, <1>4, Zenon DEF RawRow, Index
  <2>4. QED
    BY <2>2, <2>3
<1>7. ASSUME NEW i \in 0 .. n - 1
      PROVE  /\ RawRow(j, i) \in 0 .. n - 1 /\ Index(j, i) = b[RawRow(j, i) + 1]
             /\ Index(j, i) \in Int /\ Index(j, i) < j.table.rows
             /\ j.op = "scatter" => RawRow(j, i) = i
  <2>1. PICK m \in 1 .. n : m = order[i + 1]
    BY <1>6
  <2>2. RawRow(j, i) = m - 1 /\ Index(j, i) = b[m] /\ (m - 1) + 1 = m /\ m - 1 \in 0 .. n - 1
    BY <1>3, <1>6, <2>1
  <2>3. Index(j, i) = b[RawRow(j, i) + 1]
    BY <2>2
  <2>4. Index(j, i) \in Int /\ Index(j, i) < j.table.rows
    BY <1>2, <1>3, <2>2
  <2>5. ASSUME j.op = "scatter" PROVE RawRow(j, i) = i
    <3>1. i + 1 \in 1 .. n
      BY <1>3
    <3>2. m = i + 1
      BY <1>5, <2>1, <2>5, <3>1
    <3>3. QED
      BY <2>2, <3>2
  <2>6. QED
    BY <2>2, <2>3, <2>4, <2>5
<1>8. ASSUME NEW k \in 0 .. n - 1 PROVE \E i \in 0 .. n - 1 : RawRow(j, i) = k
  <2>1. k + 1 \in 1 .. n
    BY <1>3
  <2>2. PICK m \in 1 .. n : order[m] = k + 1
    BY <1>5, <2>1
  <2>3. m - 1 \in 0 .. n - 1 /\ (m - 1) + 1 = m
    BY <1>3
  <2>4. RawRow(j, m - 1) = k
    BY <1>6, <2>2, <2>3
  <2>5. QED
    BY <2>3, <2>4
<1>9. QED
  BY <1>1, <1>2, <1>3, <1>7, <1>8

\* A batch has room for a row.
LEMMA LinesPositive ==
  ASSUME NEW j \in Jobs
  PROVE  Lines(j) \in Nat \ {0}
<1>1. CASE j.op = "scatter" /\ UsesShare(j)
  BY <1>1, ShareRoom
<1>2. CASE ~ (j.op = "scatter" /\ UsesShare(j))
  BY <1>2 DEF Lines
<1>3. QED
  BY <1>1, <1>2

\* Every row is for one group and in one of its batches.
LEMMA RowGroup ==
  ASSUME NEW j \in Jobs, NEW i \in Nat
  PROVE  /\ GroupOf(j, i) \in Groups(j) /\ BatchOf(j, i) \in Nat /\ i \div Lines(j) \in Nat
         /\ i \div Lines(j) = ((j.blocks * GroupsPerBlock(j)) * BatchOf(j, i)) + GroupOf(j, i)
<1>1. PICK l \in Nat \ {0} : l = Lines(j)
  BY LinesPositive
<1>2. PICK w \in Nat \ {0} : w = j.blocks * GroupsPerBlock(j)
  BY GroupsFit
<1>3. i \div l \in Nat
  BY Division
<1>4. PICK q \in Nat : q = i \div l
  BY <1>3
<1>5. q \div w \in Nat /\ q % w \in 0 .. w - 1 /\ q = (w * (q \div w)) + (q % w)
  BY Division
<1>6. BatchOf(j, i) = q \div w /\ GroupOf(j, i) = q % w /\ Groups(j) = 0 .. w - 1
  BY <1>1, <1>2, <1>4 DEF BatchOf, GroupOf, Groups
<1>7. QED
  BY <1>1, <1>2, <1>4, <1>5, <1>6, Zenon

\* Where the rows of a call are: within the tensors, and from there on their columns.
LEMMA RowPlaces ==
  ASSUME NEW j \in Jobs, NEW i \in 0 .. Count(j) - 1
  PROVE  /\ IoAt(j, i) \in Nat
         /\ Index(j, i) >= 0 => TableAt(j, i) \in Nat
         /\ j.op = "gather" => IoAt(j, i) + j.size <= DestSize(j)
         /\ j.op = "scatter" /\ Index(j, i) >= 0 => TableAt(j, i) + j.size <= DestSize(j)
<1>1. PICK k \in Nat, n \in Nat : k = RawRow(j, i) /\ n = Count(j) /\ k < n
  BY RowsOrdered
<1>2. PICK o \in Nat, d \in Nat, s \in Nat \ {0} :
        o = j.io.offset /\ d = j.io.stride /\ s = j.size /\ s <= d
  BY JobFields
<1>3. IoAt(j, i) = o + (d * k)
  BY <1>1, <1>2 DEF IoAt
<1>4. \A x, y \in Nat : x < y => d * x \in Nat /\ (d * x) + d <= d * y
  <2>1. ASSUME NEW x \in Nat, NEW y \in Nat, x < y PROVE d * x \in Nat /\ (d * x) + d <= d * y
    <3>1. x + 1 <= y
      BY <2>1
    <3>2. d * (x + 1) <= d * y /\ d * (x + 1) = (d * x) + d /\ d * x \in Nat
      BY <3>1, Z3
    <3>3. QED
      BY <3>2
  <2>2. QED
    BY <2>1
<1>5. d * k \in Nat /\ (d * k) + d <= d * n /\ d * n \in Nat
  BY <1>1, <1>4, Z3
<1>6. ASSUME j.op = "gather" PROVE IoAt(j, i) + s <= DestSize(j)
  <2>1. DestSize(j) = o + (d * n)
    BY <1>1, <1>2, <1>6 DEF DestSize
  <2>2. QED
    BY <1>2, <1>3, <1>5, <2>1
<1>7. ASSUME Index(j, i) >= 0
      PROVE  TableAt(j, i) \in Nat /\ (j.op = "scatter" => TableAt(j, i) + s <= DestSize(j))
  <2>1. PICK p \in Nat, t \in Nat, e \in Nat, m \in Nat :
          /\ p = j.table.offset /\ t = j.table.stride /\ s <= t
          /\ e = Index(j, i) /\ m = j.table.rows /\ e < m
    <3>1. Index(j, i) \in Nat /\ Index(j, i) < j.table.rows
      BY <1>7, RowsOrdered
    <3>2. /\ j.table.offset \in Nat /\ j.table.stride \in Nat /\ j.size <= j.table.stride
          /\ j.table.rows \in Nat
      BY JobFields
    <3>3. QED
      BY <1>2, <3>1, <3>2
  <2>2. TableAt(j, i) = p + (t * e)
    BY <2>1 DEF TableAt
  <2>3. t * e \in Nat /\ (t * e) + t <= t * m /\ t * m \in Nat
    <3>1. e + 1 <= m
      BY <2>1
    <3>2. t * (e + 1) <= t * m /\ t * (e + 1) = (t * e) + t /\ t * e \in Nat /\ t * m \in Nat
      BY <3>1, Z3
    <3>3. QED
      BY <3>2
  <2>4. ASSUME j.op = "scatter" PROVE TableAt(j, i) + s <= DestSize(j)
    <3>1. DestSize(j) = p + (t * m)
      BY <2>1, <2>4 DEF DestSize
    <3>2. QED
      BY <2>1, <2>2, <2>3, <3>1
  <2>5. QED
    BY <2>2, <2>3, <2>4
<1>8. QED
  BY <1>2, <1>3, <1>5, <1>6, <1>7

\* The rows of batch t of group g.
RowsOfBatch(j, g, t) == {i \in 0 .. Count(j) - 1 : GroupOf(j, i) = g /\ BatchOf(j, i) = t}

\* They are neighbors, as many as the group takes at a time.
LEMMA BatchInterval ==
  ASSUME NEW j \in Jobs, NEW g \in Groups(j), NEW t \in Nat, NEW B, B = RowsOfBatch(j, g, t), B # {}
  PROVE  \E f \in Nat, n \in 1 .. Lines(j) :
           /\ B = f .. f + n - 1 /\ Cardinality(B) = n
           /\ \A i \in B : i % Lines(j) = i - f
           /\ f = CHOOSE i \in B : \A k \in B : i <= k
<1>1. PICK l \in Nat \ {0} : l = Lines(j)
  BY LinesPositive
<1>2. PICK w \in Nat \ {0} : w = j.blocks * GroupsPerBlock(j)
  BY GroupsFit
<1>3. PICK c \in Nat : c = Count(j)
  BY RowsOrdered
<1>4. g \in 0 .. w - 1
  BY <1>2 DEF Groups
<1>5. PICK q \in Nat : q = (w * t) + g
  <2>1. w * t \in Nat
    BY Z3
  <2>2. QED
    BY <1>4, <2>1
<1>6. PICK f \in Nat : f = l * q
  BY Z3
<1>7. ASSUME NEW i \in 0 .. c - 1
      PROVE  i \in B <=> i \div l = q
  <2>1. i \in Nat
    OBVIOUS
  <2>2. PICK p \in Nat : p = i \div l
    BY <2>1, Division
  <2>3. i \in B <=> p % w = g /\ p \div w = t
    BY <1>1, <1>2, <1>3, <2>2 DEF RowsOfBatch, GroupOf, BatchOf
  <2>4. ASSUME p % w = g, p \div w = t PROVE p = q
    <3>1. p = (w * (p \div w)) + (p % w)
      BY Division
    <3>2. QED
      BY <1>5, <2>4, <3>1, Zenon
  <2>5. q % w = g /\ q \div w = t
    <3>1. g \in Nat /\ g < w
      BY <1>4
    <3>2. QED
      BY <1>5, <3>1, OneDivision
  <2>6. QED
    BY <2>2, <2>3, <2>4, <2>5
<1>8. ASSUME NEW i \in Nat
      PROVE  /\ i \div l = q <=> f <= i /\ i < f + l
             /\ i \div l = q => i % l = i - f
  <2>1. ASSUME i \div l = q PROVE f <= i /\ i < f + l /\ i % l = i - f
    <3>1. i % l \in 0 .. l - 1 /\ i = (l * (i \div l)) + (i % l)
      BY Division
    <3>2. PICK x \in 0 .. l - 1 : x = i % l
      BY <3>1
    <3>3. i = f + x
      BY <1>6, <2>1, <3>1, <3>2, Zenon
    <3>4. QED
      BY <3>2, <3>3
  <2>2. ASSUME f <= i, i < f + l PROVE i \div l = q
    <3>1. PICK x \in Nat : x = i - f /\ x < l
      BY <2>2
    <3>2. i = (l * q) + x
      BY <1>6, <3>1
    <3>3. QED
      BY <3>1, <3>2, OneDivision
  <2>3. QED
    BY <2>1, <2>2
<1>9. B \in SUBSET (0 .. c - 1)
  BY <1>3 DEF RowsOfBatch
<1>10. PICK b \in B : TRUE
  OBVIOUS
<1>11. b \in 0 .. c - 1 /\ f <= b /\ b < f + l
  BY <1>7, <1>8, <1>9, <1>10
<1>12. PICK n \in 1 .. l : n = IF c < f + l THEN c - f ELSE l
  BY <1>11
<1>13. \A i \in 0 .. c - 1 : i \in B <=> f <= i /\ i < f + l
  BY <1>7, <1>8
<1>14. B = f .. f + n - 1
  <2>1. ASSUME NEW i \in B PROVE i \in f .. f + n - 1
    BY <1>9, <1>12, <1>13
  <2>2. ASSUME NEW i \in f .. f + n - 1 PROVE i \in B
    <3>1. i \in 0 .. c - 1 /\ f <= i /\ i < f + l
      BY <1>11, <1>12
    <3>2. QED
      BY <1>13, <3>1
  <2>3. QED
    BY <2>1, <2>2
<1>15. \A i \in B : i % l = i - f
  BY <1>7, <1>8, <1>9
<1>16. Cardinality(B) = n
  <2>1. f \in Int /\ f + n - 1 \in Int /\ (f + n - 1) - f + 1 = n /\ f <= f + n - 1
    OBVIOUS
  <2>2. Cardinality(f .. f + n - 1) = n
    BY <2>1, FS_Interval
  <2>3. QED
    BY <1>14, <2>2
<1>17. f = CHOOSE i \in B : \A k \in B : i <= k
  <2>1. f \in B /\ \A k \in B : f <= k
    BY <1>14
  <2>2. \A i \in B : (\A k \in B : i <= k) => i = f
    BY <1>14
  <2>3. QED
    BY <2>1, <2>2
<1>18. QED
  BY <1>1, <1>12, <1>14, <1>15, <1>16, <1>17

-----------------------------------------------------------------------------
\* The shares of the groups of a block do not overlap.
LEMMA SharesApart ==
  ASSUME NEW j \in Jobs, UsesShare(j), NEW g \in Groups(j)
  PROVE  /\ g \div GroupsPerBlock(j) \in 0 .. j.blocks - 1
         /\ ShareStart(j, g) \in Nat /\ ShareStart(j, g) + Share(j) <= SharedSize(j)
         /\ ShareStart(j, g) % Alignment(j) = 0
         /\ \A h \in Groups(j) :
              h # g /\ h \div GroupsPerBlock(j) = g \div GroupsPerBlock(j) =>
                \/ ShareStart(j, h) + Share(j) <= ShareStart(j, g)
                \/ ShareStart(j, g) + Share(j) <= ShareStart(j, h)
<1>1. PICK p \in Nat \ {0} : p = WarpsPerBlock
  BY BytesAssumption
<1>2. PICK s \in Nat \ {0} : s = Share(j) /\ s % Alignment(j) = 0 /\ SharedSize(j) = p * s
  BY <1>1, ShareFits
<1>3. PICK b \in Nat \ {0} : b = j.blocks
  BY JobFields
<1>4. GroupsPerBlock(j) = p /\ Groups(j) = 0 .. (b * p) - 1 /\ b * p \in Nat
  <2>1. GroupsPerBlock(j) = p
    BY <1>1, GroupsFit
  <2>2. b * p \in Nat
    BY Z3
  <2>3. QED
    BY <1>3, <2>1, <2>2 DEF Groups
<1>5. ASSUME NEW h \in Groups(j)
      PROVE  /\ h \in Nat /\ h \div p \in Nat /\ h % p \in 0 .. p - 1
             /\ h = (p * (h \div p)) + (h % p) /\ ShareStart(j, h) = (h % p) * s
  <2>1. h \in Nat
    BY <1>4
  <2>2. ShareStart(j, h) = (h % p) * s
    BY <1>1, <1>2 DEF ShareStart
  <2>3. QED
    BY <2>1, <2>2, Division
<1>6. g \div p \in 0 .. b - 1
  <2>1. PICK m \in Nat, x \in Nat : m = g \div p /\ g = (p * m) + x
    <3>1. g \div p \in Nat /\ g % p \in Nat /\ g = (p * (g \div p)) + (g % p)
      BY <1>5
    <3>2. QED
      BY <3>1, Zenon
  <2>2. SUFFICES ASSUME b <= m PROVE FALSE
    BY <2>1
  <2>3. b * p <= p * m /\ p * m \in Nat
    BY <2>2, Z3
  <2>4. g < b * p
    BY <1>4
  <2>5. QED
    BY <1>4, <2>1, <2>3, <2>4
<1>7. \A x \in 0 .. p - 1 : x * s \in Nat /\ (x * s) + s <= p * s
  <2>1. ASSUME NEW x \in 0 .. p - 1 PROVE x * s \in Nat /\ (x * s) + s <= p * s
    <3>1. x \in Nat /\ x + 1 <= p
      BY <2>1
    <3>2. x * s \in Nat /\ (x + 1) * s <= p * s /\ (x + 1) * s = (x * s) + s
      BY <3>1, Z3
    <3>3. QED
      BY <3>2
  <2>2. QED
    BY <2>1
<1>8. \A x, y \in 0 .. p - 1 : x < y => (x * s) + s <= y * s
  <2>1. ASSUME NEW x \in 0 .. p - 1, NEW y \in 0 .. p - 1, x < y PROVE (x * s) + s <= y * s
    <3>1. x \in Nat /\ y \in Nat /\ x + 1 <= y
      BY <2>1
    <3>2. (x + 1) * s <= y * s /\ (x + 1) * s = (x * s) + s
      BY <3>1, Z3
    <3>3. QED
      BY <3>2
  <2>2. QED
    BY <2>1
<1>9. PICK x \in 0 .. p - 1 : x = g % p
  BY <1>5
<1>10. ShareStart(j, g) = x * s /\ x * s \in Nat
  BY <1>5, <1>7, <1>9
<1>11. ShareStart(j, g) % Alignment(j) = 0
  <2>1. PICK a \in Nat \ {0} : a = Alignment(j)
    BY Aligned
  <2>2. x \in Nat /\ x * s = s * x
    BY Z3
  <2>3. (s * x) % a = 0
    BY <1>2, <2>1, <2>2, MultiplesTimes
  <2>4. QED
    BY <1>10, <2>1, <2>2, <2>3
<1>12. ASSUME NEW h \in Groups(j), h # g, h \div p = g \div p
       PROVE  ShareStart(j, h) + s <= ShareStart(j, g) \/ ShareStart(j, g) + s <= ShareStart(j, h)
  <2>1. PICK y \in 0 .. p - 1 : y = h % p
    BY <1>5
  <2>2. ShareStart(j, h) = y * s
    BY <1>5, <2>1
  <2>3. x # y
    <3>1. SUFFICES ASSUME x = y PROVE FALSE
      OBVIOUS
    <3>2. h = g
      BY <1>5, <1>9, <1>12, <2>1, <3>1, Zenon
    <3>3. QED
      BY <1>12, <3>2
  <2>4. x < y \/ y < x
    BY <2>3
  <2>5. QED
    BY <1>8, <1>10, <2>2, <2>4
<1>13. QED
  BY <1>2, <1>3, <1>4, <1>6, <1>7, <1>9, <1>10, <1>11, <1>12

\* What a scatter copies in front of its first row is a number of vectors.
LEMMA TailAligned ==
  ASSUME NEW j \in Jobs, j.op = "scatter"
  PROVE  /\ OffTail(j) \in Nat /\ OffTail(j) < Async(j) /\ OffTail(j) <= j.io.offset
         /\ OffTail(j) % Alignment(j) = 0
<1>1. PICK a \in Nat \ {0}, b \in Nat, o \in Nat :
        /\ a = Alignment(j) /\ b = j.io.base /\ o = j.io.offset
        /\ VectorBytes % a = 0 /\ (b + o) % a = 0
  BY JobFields, Aligned
<1>2. PICK c \in Nat \ {0} : c = Async(j) /\ VectorBytes % c = 0
  BY AsyncFits
<1>3. b % c = 0
  BY <1>1, <1>2, JobFields
<1>4. PICK m \in Nat, x \in 0 .. c - 1 : x = o % c /\ o = (c * m) + x
  <2>1. o \div c \in Nat /\ o % c \in 0 .. c - 1 /\ o = (c * (o \div c)) + (o % c)
    BY Division
  <2>2. QED
    BY <2>1, Zenon
<1>5. OffTail(j) = x
  BY <1>1, <1>2, <1>4 DEF OffTail
<1>6. PICK n \in Nat : n = c * m
  BY Z3
<1>7. x \in Nat /\ x < c /\ x <= o
  BY <1>4, <1>6
<1>8. CASE a <= c
  <2>1. c % a = 0
    BY <1>1, <1>2, <1>8, Powers
  <2>2. b % a = 0
    BY <1>3, <2>1, MultiplesThrough
  <2>3. o % a = 0
    BY <1>1, <2>2, MultiplesAdd
  <2>4. n % a = 0
    BY <1>6, <2>1, MultiplesTimes
  <2>5. (n + x) % a = x % a
    BY <1>7, <2>4, MultiplesAdd
  <2>6. QED
    BY <1>1, <1>2, <1>4, <1>5, <1>6, <1>7, <2>3, <2>5
<1>9. CASE ~ (a <= c)
  <2>1. a % c = 0
    BY <1>1, <1>2, <1>9, Powers
  <2>2. b + o \in Nat /\ (b + o) % c = 0
    <3>1. PICK t \in Nat : t = b + o
      OBVIOUS
    <3>2. t % c = 0
      BY <1>1, <2>1, <3>1, MultiplesThrough
    <3>3. QED
      BY <3>1, <3>2
  <2>3. o % c = 0
    BY <1>3, <2>2, MultiplesAdd
  <2>4. x = 0 /\ 0 % a = 0
    BY <1>4, <2>3
  <2>5. QED
    BY <1>1, <1>2, <1>5, <1>7, <2>4
<1>10. QED
  BY <1>8, <1>9

\* A row, in a share, is in that of its group; vectors begin at multiples of their size.
LEMMA InShare ==
  ASSUME NEW j \in Jobs, UsesShare(j), NEW i \in 0 .. Count(j) - 1, NEW g, g = GroupOf(j, i)
  PROVE  \E d \in Nat :
           /\ d + j.size <= Share(j) /\ d % Alignment(j) = 0
           /\ j.op = "gather" => d = 0
           /\ j.op = "scatter" => d = OffTail(j) + ((i % Lines(j)) * j.io.stride)
           /\ \A c \in 0 .. j.size - 1 : ShareAt(j, <<i, c>>) = ShareStart(j, g) + d + c
<1>1. g \in Groups(j)
  <2>1. Count(j) \in Nat
    BY RowsOrdered
  <2>2. i \in Nat
    BY <2>1
  <2>3. QED
    BY <2>2, RowGroup
<1>2. PICK b \in Nat, s \in Nat \ {0}, z \in Nat \ {0} :
        b = ShareStart(j, g) /\ s = Share(j) /\ z = j.size
  BY <1>1, SharesApart, ShareFits, JobFields
<1>3. \A c \in 0 .. z - 1 : ShareAt(j, <<i, c>>) =
        b + c + (IF j.op = "gather" THEN 0 ELSE OffTail(j) + ((i % Lines(j)) * j.io.stride))
  BY <1>2 DEF ShareAt
<1>4. CASE j.op = "gather"
  <2>1. z <= s
    BY <1>2, <1>4 DEF UsesShare
  <2>2. 0 % Alignment(j) = 0
    BY Aligned
  <2>3. \A c \in 0 .. z - 1 : ShareAt(j, <<i, c>>) = b + 0 + c
    BY <1>3, <1>4
  <2>4. QED
    BY <1>2, <1>4, <2>1, <2>2, <2>3
<1>5. CASE j.op = "scatter"
  <2>1. PICK l \in Nat \ {0} : l = Lines(j)
    BY LinesPositive
  <2>2. PICK x \in 0 .. l - 1 : x = i % l
    <3>1. i \in Nat
      BY RowsOrdered
    <3>2. QED
      BY <3>1, Division
  <2>3. PICK t \in Nat : t = j.io.stride /\ z <= t
    BY <1>2, JobFields
  <2>4. PICK o \in Nat, c \in Nat : o = OffTail(j) /\ c = Async(j) /\ o < c /\ o % Alignment(j) = 0
    BY <1>5, TailAligned, AsyncFits
  <2>5. x + 1 \in Nat /\ x + 1 <= l /\ x \in Nat
    OBVIOUS
  <2>6. ((x + 1) * t) + c <= s
    BY <1>2, <1>5, <2>1, <2>3, <2>4, <2>5, ShareRoom
  <2>7. x * t \in Nat /\ (x + 1) * t = (x * t) + t
    BY <2>5, Z3
  <2>8. PICK d \in Nat : d = o + (x * t)
    BY <2>7
  <2>9. d + z <= s
    BY <2>3, <2>4, <2>6, <2>7, <2>8
  <2>10. d % Alignment(j) = 0
    <3>1. PICK a \in Nat \ {0} : a = Alignment(j) /\ t % a = 0
      BY <2>3, Aligned
    <3>2. x * t = t * x
      BY <2>5, Z3
    <3>3. PICK y \in Nat : y = x * t
      BY <2>7
    <3>4. y % a = 0
      BY <2>5, <3>1, <3>2, <3>3, MultiplesTimes
    <3>5. (o + y) % a = y % a
      BY <2>4, <3>1, MultiplesAdd
    <3>6. QED
      BY <2>8, <3>1, <3>3, <3>4, <3>5
  <2>11. d = OffTail(j) + ((i % Lines(j)) * j.io.stride)
    BY <2>1, <2>2, <2>3, <2>4, <2>8
  <2>12. \A c1 \in 0 .. z - 1 : ShareAt(j, <<i, c1>>) = b + d + c1
    BY <1>3, <1>5, <2>11
  <2>13. QED
    BY <1>2, <1>5, <2>9, <2>10, <2>11, <2>12
<1>6. QED
  BY <1>4, <1>5, JobFields

\* Where a row is read and where it is written.
RowFrom(j, i) == IF j.op = "gather" THEN TableAt(j, i) ELSE IoAt(j, i)
RowTo(j, i)   == IF j.op = "gather" THEN IoAt(j, i) ELSE TableAt(j, i)

\* A vector is within its row, and the columns of a row are in its vectors.
LEMMA VectorFits ==
  ASSUME NEW j \in Jobs, NEW g, NEW l, NEW v \in Vectors(j, g, l)
  PROVE  /\ v = <<v[1], v[2]>> /\ v[1] \in 0 .. Count(j) - 1 /\ v[2] \in Nat
         /\ v[2] + Alignment(j) <= j.size /\ v[2] % Alignment(j) = 0
         /\ GroupOf(j, v[1]) = g /\ Index(j, v[1]) >= 0
<1>1. /\ v \in (0 .. Count(j) - 1) \X (0 .. j.size - 1) /\ v[2] % Alignment(j) = 0
      /\ GroupOf(j, v[1]) = g /\ Index(j, v[1]) >= 0
  BY DEF Vectors
<1>2. PICK z \in Nat \ {0}, a \in Nat \ {0} : z = j.size /\ a = Alignment(j) /\ z % a = 0
  BY JobFields, Aligned
<1>3. PICK c \in 0 .. z - 1 : c = v[2] /\ c % a = 0
  BY <1>1, <1>2
<1>4. c \in Nat /\ c < z
  BY <1>3
<1>5. PICK m \in Nat, n \in Nat : c = a * m /\ z = a * n
  <2>1. PICK m \in Nat : c = a * m
    BY <1>3, <1>4, MultipleOf
  <2>2. PICK n \in Nat : z = a * n
    BY <1>2, MultipleOf
  <2>3. QED
    BY <2>1, <2>2
<1>6. c + a <= z
  <2>1. m < n
    BY <1>4, <1>5, Z3
  <2>2. m + 1 <= n
    BY <2>1
  <2>3. a * (m + 1) <= a * n /\ a * (m + 1) = (a * m) + a
    BY <2>2, Z3
  <2>4. QED
    BY <1>5, <2>3
<1>7. QED
  BY <1>1, <1>2, <1>3, <1>4, <1>6

\* Every column of a row that is moved is in the vector of a lane.
LEMMA VectorOfColumn ==
  ASSUME NEW j \in Jobs, NEW i \in 0 .. Count(j) - 1, Index(j, i) >= 0, NEW c \in 0 .. j.size - 1
  PROVE  \E l \in Lanes(j) : \E b \in Nat, x \in 0 .. Alignment(j) - 1 :
           <<i, b>> \in Vectors(j, GroupOf(j, i), l) /\ c = b + x
<1>1. PICK z \in Nat \ {0}, a \in Nat \ {0}, w \in Nat \ {0} :
        z = j.size /\ a = Alignment(j) /\ w = Width(j)
  BY JobFields, Aligned, GroupsFit
<1>2. c \in Nat
  BY <1>1
<1>3. PICK m \in Nat, x \in 0 .. a - 1 : c = (a * m) + x
  <2>1. c \div a \in Nat /\ c % a \in 0 .. a - 1 /\ c = (a * (c \div a)) + (c % a)
    BY <1>2, Division
  <2>2. QED
    BY <2>1, Zenon
<1>4. PICK b \in Nat : b = a * m
  BY Z3
<1>5. c = b + x
  BY <1>3, <1>4
<1>6. b % a = 0 /\ b \div a = m
  BY <1>4, MultipleOf, Cancelled
<1>7. m % w \in 0 .. w - 1
  BY Division
<1>8. b \in 0 .. z - 1
  BY <1>1, <1>5
<1>9. <<i, b>> \in Vectors(j, GroupOf(j, i), m % w)
  BY <1>1, <1>6, <1>8 DEF Vectors
<1>10. m % w \in Lanes(j)
  BY <1>1, <1>7 DEF Lanes
<1>11. QED
  BY <1>1, <1>5, <1>9, <1>10

-----------------------------------------------------------------------------
\* A gather that collects its rows in shared memory.
ThroughShare(j) == j.op = "gather" /\ UsesShare(j)

\* The variables during a call.
RowsTypes ==
  /\ job \in Jobs
  /\ DOMAIN todo = Groups(job)
  /\ \A g \in Groups(job) :
       /\ DOMAIN todo[g] = Lanes(job)
       /\ \A l \in Lanes(job) : todo[g][l] \subseteq Vectors(job, g, l)
  /\ turn \in [Groups(job) -> Nat]
  /\ loaded \in [Groups(job) -> BOOLEAN]
  /\ DOMAIN shared = 0 .. job.blocks - 1
  /\ \A b \in DOMAIN shared : DOMAIN shared[b] = 0 .. SharedSize(job) - 1
  /\ DOMAIN cells = 0 .. DestSize(job) - 1

\* A lane has moved its vectors of the batches its group is done with, and none of a
\* batch that is yet to come.
TurnsKept ==
  Together => \A g \in Groups(job), l \in Lanes(job) : \A v \in Vectors(job, g, l) :
    /\ v \in todo[g][l] => BatchOf(job, v[1]) >= turn[g]
    /\ BatchOf(job, v[1]) > turn[g] => v \in todo[g][l]

\* What the lanes of a gather have moved of the current row is in the share.
CollectedRows ==
  ThroughShare(job) => \A g \in Groups(job), l \in Lanes(job) :
    \A v \in Vectors(job, g, l) \ todo[g][l] : v[1] \in BatchRows(g) =>
      \A x \in 0 .. Alignment(job) - 1 :
        shared[Block(g)][ShareAt(job, v) + x] = RowFrom(job, v[1]) + v[2] + x

\* What a scatter's group has loaded is in its share until it is done with the batch.
CopiedRows ==
  job.op = "scatter" /\ UsesShare(job) => \A g \in Groups(job) : loaded[g] =>
    \A i \in BatchRows(g) : \A c \in 0 .. job.size - 1 :
      shared[Block(g)][ShareAt(job, <<i, c>>)] = RowFrom(job, i) + c

\* What is written came from where it should (as in RowsMoved).
CellsRight ==
  \A x \in DOMAIN cells : cells[x] # Unwritten =>
    \E v \in Named : To(v) = x /\ From(v) = cells[x]

\* What was moved, and not only collected, is written.
CellsWritten ==
  IF ThroughShare(job)
  THEN \A i \in 0 .. Count(job) - 1 :
         Index(job, i) >= 0 /\ BatchOf(job, i) < turn[GroupOf(job, i)] =>
           \A c \in 0 .. job.size - 1 : cells[RowTo(job, i) + c] # Unwritten
  ELSE \A g \in Groups(job), l \in Lanes(job) :
         \A v \in Vectors(job, g, l) \ todo[g][l] : \A x \in 0 .. Alignment(job) - 1 :
           cells[RowTo(job, v[1]) + v[2] + x] # Unwritten

\* The inductive invariant of a call.
RowsInv ==
  RowsTypes /\ TurnsKept /\ CollectedRows /\ CopiedRows /\ CellsRight /\ CellsWritten

\* Where an element of a row is, and what it is called in RowsMoved.
LEMMA ElementMoved ==
  ASSUME job \in Jobs, NEW i \in 0 .. Count(job) - 1, Index(job, i) >= 0,
         NEW c \in 0 .. job.size - 1
  PROVE  /\ RowTo(job, i) \in Nat /\ RowFrom(job, i) \in Nat
         /\ RowTo(job, i) + c \in 0 .. DestSize(job) - 1
         /\ \E u \in Named : To(u) = RowTo(job, i) + c /\ From(u) = RowFrom(job, i) + c
<1>1. PICK z \in Nat \ {0} : z = job.size
  BY JobFields
<1>2. c \in Nat /\ c < z
  BY <1>1
<1>3. /\ IoAt(job, i) \in Nat /\ TableAt(job, i) \in Nat
      /\ job.op = "gather" => IoAt(job, i) + z <= DestSize(job)
      /\ job.op = "scatter" => TableAt(job, i) + z <= DestSize(job)
  BY <1>1, RowPlaces
<1>4. DestSize(job) \in Int
  <2>1. Count(job) \in Nat
    BY RowsOrdered
  <2>2. PICK p \in Nat, t \in Nat, q \in Nat, d \in Nat, r \in Nat, n \in Nat :
          /\ p = job.table.offset /\ t = job.table.stride /\ r = job.table.rows
          /\ q = job.io.offset /\ d = job.io.stride /\ n = Count(job)
    BY <2>1, JobFields
  <2>3. DestSize(job) = IF job.op = "gather" THEN q + (d * n) ELSE p + (t * r)
    BY <2>2 DEF DestSize
  <2>4. q + (d * n) \in Int /\ p + (t * r) \in Int
    BY Z3
  <2>5. QED
    BY <2>3, <2>4
<1>5. job.op \in {"gather", "scatter"}
  BY JobFields
<1>6. RowTo(job, i) \in Nat /\ RowFrom(job, i) \in Nat /\ RowTo(job, i) + z <= DestSize(job)
  BY <1>3, <1>5 DEF RowTo, RowFrom
<1>7. RowTo(job, i) + c \in 0 .. DestSize(job) - 1
  <2>1. PICK o \in Nat, s \in Int : o = RowTo(job, i) /\ s = DestSize(job)
    BY <1>4, <1>6
  <2>2. QED
    BY <1>2, <1>6, <2>1
<1>8. PICK k \in 0 .. Count(job) - 1 : k = RawRow(job, i) /\ job.indices[k + 1] = Index(job, i)
  BY RowsOrdered
<1>9. PICK u : u = <<k, c>>
  OBVIOUS
<1>10. u \in Named
  BY <1>1, <1>8, <1>9 DEF Named
<1>11. IoAt(job, i) = CallersRow(k) /\ TableAt(job, i) = TablesRow(k)
  BY <1>8 DEF IoAt, TableAt, CallersRow, TablesRow
<1>12. u[1] = k /\ u[2] = c
  BY <1>9
<1>13. To(u) = RowTo(job, i) + c
  <2>1. To(u) = c + RowTo(job, i)
    BY <1>11, <1>12 DEF To, RowTo
  <2>2. QED
    BY <1>2, <1>6, <2>1
<1>14. From(u) = RowFrom(job, i) + c
  <2>1. From(u) = c + RowFrom(job, i)
    BY <1>11, <1>12 DEF From, RowFrom
  <2>2. QED
    BY <1>2, <1>6, <2>1
<1>15. QED
  BY <1>6, <1>7, <1>10, <1>13, <1>14

\* Part of a row is written to its place.
LEMMA RowStored ==
  ASSUME RowsTypes, CellsRight,
         NEW i \in 0 .. Count(job) - 1, Index(job, i) >= 0,
         NEW b \in Nat, NEW n \in Nat, b + n <= job.size,
         NEW V, DOMAIN V = 0 .. n - 1,
         \A x \in 0 .. n - 1 : V[x] = RowFrom(job, i) + b + x,
         NEW at, at = RowTo(job, i) + b, NEW N, N = StoredFrom(cells, at, V)
  PROVE  /\ DOMAIN N = DOMAIN cells
         /\ \A x \in DOMAIN N : N[x] # Unwritten =>
              \E u \in Named : To(u) = x /\ From(u) = N[x]
         /\ \A x \in DOMAIN cells : cells[x] # Unwritten => N[x] # Unwritten
         /\ \A x \in 0 .. n - 1 : N[RowTo(job, i) + b + x] # Unwritten
<1>1. job \in Jobs /\ DOMAIN cells = 0 .. DestSize(job) - 1
  BY DEF RowsTypes
<1>2. PICK z \in Nat \ {0} : z = job.size
  BY <1>1, JobFields
<1>3. RowTo(job, i) \in Nat /\ RowFrom(job, i) \in Nat
  <2>1. 0 \in 0 .. job.size - 1
    BY <1>2
  <2>2. QED
    BY <1>1, <2>1, ElementMoved
<1>4. PICK o \in Nat, f \in Nat : o = RowTo(job, i) /\ f = RowFrom(job, i)
  BY <1>3
<1>5. /\ DOMAIN N = DOMAIN cells
      /\ \A x \in DOMAIN cells :
           N[x] = IF at <= x /\ x < at + n THEN V[x - at] ELSE cells[x]
  <2>1. at \in Int
    BY <1>4
  <2>2. DOMAIN cells \subseteq Int
    BY <1>1
  <2>3. QED
    BY <2>1, <2>2 DEF StoredFrom
<1>6. ASSUME NEW x \in DOMAIN cells, at <= x, x < at + n
      PROVE  N[x] # Unwritten /\ \E u \in Named : To(u) = x /\ From(u) = N[x]
  <2>1. x \in Int
    BY <1>1
  <2>2. PICK y \in 0 .. n - 1 : y = x - at
    BY <1>4, <1>6, <2>1
  <2>3. PICK c \in 0 .. z - 1 : c = b + y
    BY <1>2, <2>2
  <2>4. N[x] = V[y]
    BY <1>5, <1>6, <2>2
  <2>5. V[y] = f + c
    BY <1>4, <2>3
  <2>6. x = o + c
    <3>1. PICK t \in Int : t = at /\ t = o + b
      BY <1>4
    <3>2. PICK w \in Int : w = x
      BY <2>1
    <3>3. y = w - t /\ y \in Int
      BY <2>2, <3>1, <3>2
    <3>4. w = t + y
      BY <3>3
    <3>5. o + c = t + y
      BY <2>3, <3>1, <3>3
    <3>6. QED
      BY <3>2, <3>4, <3>5
  <2>7. c \in 0 .. job.size - 1
    BY <1>2
  <2>8. \E u \in Named : To(u) = RowTo(job, i) + c /\ From(u) = RowFrom(job, i) + c
    BY <1>1, <2>7, ElementMoved
  <2>9. N[x] \in Nat
    BY <2>4, <2>5
  <2>10. QED
    BY <1>4, <2>4, <2>5, <2>6, <2>8, <2>9, BytesAssumption
<1>7. \A x \in DOMAIN N : N[x] # Unwritten => \E u \in Named : To(u) = x /\ From(u) = N[x]
  BY <1>5, <1>6 DEF CellsRight
<1>8. \A x \in DOMAIN cells : cells[x] # Unwritten => N[x] # Unwritten
  BY <1>5, <1>6
<1>9. ASSUME NEW x \in 0 .. n - 1 PROVE N[RowTo(job, i) + b + x] # Unwritten
  <2>1. PICK c \in 0 .. z - 1 : c = b + x
    BY <1>2
  <2>2. PICK y : y = o + c
    OBVIOUS
  <2>3. c \in 0 .. job.size - 1
    BY <1>2
  <2>4. y \in DOMAIN cells
    BY <1>1, <1>4, <2>2, <2>3, ElementMoved
  <2>5. at <= y /\ y < at + n
    BY <1>4, <2>1, <2>2
  <2>6. RowTo(job, i) + b + x = y
    BY <1>4, <2>1, <2>2
  <2>7. QED
    BY <1>6, <2>4, <2>5, <2>6
<1>10. QED
  BY <1>5, <1>7, <1>8, <1>9

\* A row in a share: its columns are neighbors there, in the share of its group.
LEMMA ShareCells ==
  ASSUME RowsTypes, UsesShare(job), NEW i \in 0 .. Count(job) - 1, NEW g, g = GroupOf(job, i)
  PROVE  \E o \in Nat :
           /\ Block(g) \in DOMAIN shared
           /\ ShareStart(job, g) <= o /\ o + job.size <= ShareStart(job, g) + Share(job)
           /\ o % Alignment(job) = 0
           /\ job.op = "gather" => o = ShareStart(job, g)
           /\ \A c \in 0 .. job.size - 1 :
                ShareAt(job, <<i, c>>) = o + c /\ o + c \in DOMAIN shared[Block(g)]
<1>1. job \in Jobs /\ DOMAIN shared = 0 .. job.blocks - 1
  BY DEF RowsTypes
<1>2. g \in Groups(job)
  <2>1. Count(job) \in Nat
    BY <1>1, RowsOrdered
  <2>2. i \in Nat
    BY <2>1
  <2>3. QED
    BY <1>1, <2>2, RowGroup
<1>3. Block(g) \in DOMAIN shared
  BY <1>1, <1>2, SharesApart DEF Block
<1>4. DOMAIN shared[Block(g)] = 0 .. SharedSize(job) - 1
  BY <1>3 DEF RowsTypes
<1>5. PICK b \in Nat, s \in Nat \ {0}, z \in Nat \ {0}, a \in Nat \ {0}, t \in Nat :
        /\ b = ShareStart(job, g) /\ s = Share(job) /\ z = job.size /\ a = Alignment(job)
        /\ t = SharedSize(job) /\ b + s <= t /\ b % a = 0
  <2>1. /\ ShareStart(job, g) \in Nat /\ ShareStart(job, g) + Share(job) <= SharedSize(job)
        /\ ShareStart(job, g) % Alignment(job) = 0
    BY <1>1, <1>2, SharesApart
  <2>2. Share(job) \in Nat \ {0} /\ SharedSize(job) \in Nat
    BY <1>1, ShareFits
  <2>3. job.size \in Nat \ {0} /\ Alignment(job) \in Nat \ {0}
    BY <1>1, JobFields, Aligned
  <2>4. QED
    BY <2>1, <2>2, <2>3
<1>6. PICK d \in Nat :
        /\ d + z <= s /\ d % a = 0 /\ (job.op = "gather" => d = 0)
        /\ \A c \in 0 .. z - 1 : ShareAt(job, <<i, c>>) = b + d + c
  <2>1. \E d \in Nat :
          /\ d + job.size <= Share(job) /\ d % Alignment(job) = 0
          /\ job.op = "gather" => d = 0
          /\ job.op = "scatter" => d = OffTail(job) + ((i % Lines(job)) * job.io.stride)
          /\ \A c \in 0 .. job.size - 1 : ShareAt(job, <<i, c>>) = ShareStart(job, g) + d + c
    BY <1>1, InShare
  <2>2. QED
    BY <1>5, <2>1
<1>7. PICK o \in Nat : o = b + d
  OBVIOUS
<1>8. o % a = 0
  BY <1>5, <1>6, <1>7, MultiplesAdd
<1>9. b <= o /\ o + z <= b + s /\ (job.op = "gather" => o = b)
  BY <1>6, <1>7
<1>10. \A c \in 0 .. z - 1 : ShareAt(job, <<i, c>>) = o + c /\ o + c \in 0 .. t - 1
  BY <1>5, <1>6, <1>7, <1>9
<1>11. QED
  BY <1>3, <1>4, <1>5, <1>8, <1>9, <1>10

\* When a call begins.
LEMMA RowsInitially == RowsInit => RowsInv
<1> SUFFICES ASSUME RowsInit PROVE RowsInv
  OBVIOUS
<1>1. /\ job \in Jobs
      /\ todo = [g \in Groups(job) |-> [l \in Lanes(job) |-> Vectors(job, g, l)]]
      /\ turn = [g \in Groups(job) |-> 0]
      /\ loaded = [g \in Groups(job) |-> FALSE]
      /\ shared = [b \in 0 .. job.blocks - 1 |-> [x \in 0 .. SharedSize(job) - 1 |-> Garbage]]
      /\ cells = [x \in 0 .. DestSize(job) - 1 |-> Unwritten]
  BY DEF RowsInit
<1>2. RowsTypes
  BY <1>1 DEF RowsTypes
<1>3. \A i \in 0 .. Count(job) - 1 : BatchOf(job, i) \in Nat /\ GroupOf(job, i) \in Groups(job)
  <2>1. Count(job) \in Nat
    BY <1>1, RowsOrdered
  <2>2. ASSUME NEW i \in 0 .. Count(job) - 1
        PROVE  BatchOf(job, i) \in Nat /\ GroupOf(job, i) \in Groups(job)
    <3>1. i \in Nat
      BY <2>1
    <3>2. QED
      BY <1>1, <3>1, RowGroup
  <2>3. QED
    BY <2>2
<1>4. TurnsKept
  <2>1. ASSUME NEW g \in Groups(job), NEW l \in Lanes(job), NEW v \in Vectors(job, g, l)
        PROVE  BatchOf(job, v[1]) >= turn[g] /\ v \in todo[g][l]
    <3>1. v[1] \in 0 .. Count(job) - 1
      BY <1>1, VectorFits
    <3>2. BatchOf(job, v[1]) \in Nat
      BY <1>3, <3>1
    <3>3. QED
      BY <1>1, <3>2
  <2>2. QED
    BY <2>1 DEF TurnsKept
<1>5. \A g \in Groups(job), l \in Lanes(job) : Vectors(job, g, l) \ todo[g][l] = {}
  BY <1>1
<1>6. CollectedRows
  BY <1>5 DEF CollectedRows
<1>7. CopiedRows
  BY <1>1 DEF CopiedRows
<1>8. CellsRight
  BY <1>1 DEF CellsRight
<1>9. CellsWritten
  <2>1. CASE ThroughShare(job)
    <3>1. \A i \in 0 .. Count(job) - 1 : ~ (BatchOf(job, i) < turn[GroupOf(job, i)])
      BY <1>1, <1>3
    <3>2. QED
      BY <2>1, <3>1 DEF CellsWritten
  <2>2. CASE ~ ThroughShare(job)
    BY <1>5, <2>2 DEF CellsWritten
  <2>3. QED
    BY <2>1, <2>2
<1>10. QED
  BY <1>2, <1>4, <1>6, <1>7, <1>8, <1>9 DEF RowsInv

\* What a call names does not change.
LEMMA PlacesKept ==
  ASSUME job' = job
  PROVE  Named' = Named /\ \A v : To(v)' = To(v) /\ From(v)' = From(v)
<1>1. Named' = Named
  BY DEF Named, Count
<1>2. \A i : CallersRow(i)' = CallersRow(i) /\ TablesRow(i)' = TablesRow(i)
  BY DEF CallersRow, TablesRow
<1>3. \A v : To(v)' = To(v) /\ From(v)' = From(v)
  BY <1>2 DEF To, From
<1>4. QED
  BY <1>1, <1>3

\* Nor do the places of its groups, and their batches only when it is their turn.
LEMMA GroupsKept ==
  ASSUME job' = job
  PROVE  /\ Together' = Together
         /\ \A g : Block(g)' = Block(g) /\ (turn'[g] = turn[g] => BatchRows(g)' = BatchRows(g))
<1>1. Together' = Together
  BY DEF Together
<1>2. \A g : Block(g)' = Block(g)
  BY DEF Block
<1>3. \A g : turn'[g] = turn[g] => BatchRows(g)' = BatchRows(g)
  BY DEF BatchRows
<1>4. QED
  BY <1>1, <1>2, <1>3

\* When nothing changes.
LEMMA RowsStutter == RowsInv /\ UNCHANGED rowVars => RowsInv'
<1> SUFFICES ASSUME RowsInv, UNCHANGED rowVars PROVE RowsInv'
  OBVIOUS
<1> USE DEF rowVars, RowsInv
<1>1. RowsTypes'
  BY DEF RowsTypes
<1>2. /\ job' = job /\ todo' = todo /\ turn' = turn /\ loaded' = loaded
      /\ shared' = shared /\ cells' = cells
  OBVIOUS
<1>3. Together' = Together /\ \A g : Block(g)' = Block(g) /\ BatchRows(g)' = BatchRows(g)
  BY <1>2, GroupsKept
<1>4. TurnsKept' /\ CollectedRows' /\ CopiedRows'
  <2>1. TurnsKept'
    BY <1>2, <1>3 DEF TurnsKept
  <2>2. CollectedRows'
    BY <1>2, <1>3 DEF CollectedRows
  <2>3. CopiedRows'
    BY <1>2, <1>3 DEF CopiedRows
  <2>4. QED
    BY <2>1, <2>2, <2>3
<1>5. CellsRight'
  <2>1. job' = job /\ cells' = cells /\ CellsRight
    OBVIOUS
  <2>2. Named' = Named /\ \A v : To(v)' = To(v) /\ From(v)' = From(v)
    BY <2>1, PlacesKept
  <2>3. QED
    BY <2>1, <2>2 DEF CellsRight
<1>6. CellsWritten'
  BY DEF CellsWritten
<1>7. QED
  BY <1>1, <1>4, <1>5, <1>6

\* The rows of the current batch of a group.
LEMMA CurrentRows ==
  ASSUME RowsTypes, NEW g \in Groups(job)
  PROVE  /\ turn[g] \in Nat /\ BatchRows(g) = RowsOfBatch(job, g, turn[g])
         /\ \A i \in BatchRows(g) : /\ i \in 0 .. Count(job) - 1 /\ GroupOf(job, i) = g
                                    /\ BatchOf(job, i) = turn[g]
         /\ job.op = "gather" => \A i, k \in BatchRows(g) : i = k
<1>1. job \in Jobs /\ turn[g] \in Nat
  BY DEF RowsTypes
<1>2. BatchRows(g) = RowsOfBatch(job, g, turn[g])
  BY DEF BatchRows, RowsOfBatch
<1>3. \A i \in BatchRows(g) :
        i \in 0 .. Count(job) - 1 /\ GroupOf(job, i) = g /\ BatchOf(job, i) = turn[g]
  BY DEF BatchRows
<1>4. ASSUME job.op = "gather", NEW i \in BatchRows(g), NEW k \in BatchRows(g) PROVE i = k
  <2>1. Lines(job) = 1
    BY <1>4 DEF Lines
  <2>2. PICK B : B = BatchRows(g)
    OBVIOUS
  <2>3. B = RowsOfBatch(job, g, turn[g]) /\ B # {}
    BY <1>2, <2>2
  <2>4. \E f \in Nat, n \in 1 .. Lines(job) : B = f .. f + n - 1
    BY <1>1, <2>3, BatchInterval
  <2>5. QED
    BY <2>1, <2>2, <2>4
<1>5. QED
  BY <1>1, <1>2, <1>3, <1>4

\* What a move does: lane l of group g moves the vector at column b of row i.
Moves(g, l, i, b, moved) ==
  /\ <<i, b>> \in todo[g][l] /\ <<i, b>> \in Vectors(job, g, l)
  /\ Index(job, i) >= 0 /\ GroupOf(job, i) = g
  /\ b % Alignment(job) = 0 /\ b + Alignment(job) <= job.size
  /\ DOMAIN moved = 0 .. Alignment(job) - 1
  /\ \A x \in 0 .. Alignment(job) - 1 : moved[x] = RowFrom(job, i) + b + x
  /\ Together => i \in BatchRows(g)
  /\ job' = job /\ turn' = turn /\ loaded' = loaded
  /\ todo' = [todo EXCEPT ![g][l] = @ \ {<<i, b>>}]
  /\ IF ThroughShare(job)
       THEN /\ shared' = [shared EXCEPT ![Block(g)] =
                            StoredFrom(@, ShareAt(job, <<i, b>>), moved)]
            /\ cells' = cells
       ELSE cells' = StoredFrom(cells, RowTo(job, i) + b, moved) /\ shared' = shared

\* That is what a move of the kernel does, in each of the three ways a vector is moved.
LEMMA MoveFields ==
  ASSUME RowsInv, NEW g \in Groups(job), NEW l \in Lanes(job), MoveVector(g, l)
  PROVE  \E i \in 0 .. Count(job) - 1, b \in Nat : \E moved : Moves(g, l, i, b, moved)
<1>1. RowsTypes /\ CopiedRows /\ job \in Jobs
  BY DEF RowsInv, RowsTypes
<1> DEFINE Moved(v) ==
      [x \in 0 .. Alignment(job) - 1 |->
         IF job.op = "gather" THEN TableAt(job, v[1]) + v[2] + x
         ELSE IF UsesShare(job) THEN shared[Block(g)][ShareAt(job, v) + x]
         ELSE IoAt(job, v[1]) + v[2] + x]
<1>2. PICK v \in todo[g][l] :
        /\ Together => v[1] \in BatchRows(g)
        /\ job.op = "scatter" /\ UsesShare(job) => loaded[g]
        /\ todo' = [todo EXCEPT ![g][l] = @ \ {v}]
        /\ IF job.op = "gather" /\ UsesShare(job)
             THEN /\ shared' = [shared EXCEPT ![Block(g)] = StoredFrom(@, ShareAt(job, v), Moved(v))]
                  /\ UNCHANGED cells
             ELSE /\ cells' = StoredFrom(cells,
                       v[2] + (IF job.op = "gather" THEN IoAt(job, v[1]) ELSE TableAt(job, v[1])),
                       Moved(v))
                  /\ UNCHANGED shared
        /\ UNCHANGED <<job, turn, loaded>>
  BY DEF MoveVector
<1>3. v \in Vectors(job, g, l)
  BY <1>1, <1>2 DEF RowsTypes
<1>4. /\ v = <<v[1], v[2]>> /\ v[1] \in 0 .. Count(job) - 1 /\ v[2] \in Nat
      /\ v[2] + Alignment(job) <= job.size /\ v[2] % Alignment(job) = 0
      /\ GroupOf(job, v[1]) = g /\ Index(job, v[1]) >= 0
  BY <1>1, <1>3, VectorFits
<1>5. PICK i \in 0 .. Count(job) - 1, b \in Nat : i = v[1] /\ b = v[2]
  BY <1>4
<1>6. PICK a \in Nat \ {0}, z \in Nat \ {0} : a = Alignment(job) /\ z = job.size /\ b + a <= z
  BY <1>1, <1>4, <1>5, Aligned, JobFields
<1>7. PICK moved : moved = Moved(v)
  OBVIOUS
<1>8. DOMAIN moved = 0 .. a - 1
  BY <1>6, <1>7
<1>9. job.op \in {"gather", "scatter"}
  BY <1>1, JobFields
<1>10. RowTo(job, i) \in Nat /\ RowFrom(job, i) \in Nat
  <2>1. 0 \in 0 .. job.size - 1
    BY <1>6
  <2>2. QED
    BY <1>1, <1>4, <1>5, <2>1, ElementMoved
<1>11. ASSUME NEW x \in 0 .. a - 1 PROVE moved[x] = RowFrom(job, i) + b + x
  <2>1. CASE job.op = "gather" \/ ~ UsesShare(job)
    <3>1. moved[x] = RowFrom(job, i) + b + x
      BY <1>5, <1>6, <1>7, <1>9, <2>1 DEF RowFrom
    <3>2. QED
      BY <3>1
  <2>2. CASE job.op = "scatter" /\ UsesShare(job)
    <3>1. PICK o \in Nat : \A c \in 0 .. z - 1 : ShareAt(job, <<i, c>>) = o + c
      BY <1>1, <1>6, <2>2, ShareCells
    <3>2. PICK c \in 0 .. z - 1 : c = b + x
      BY <1>6
    <3>3. b \in 0 .. z - 1
      BY <1>6
    <3>4. ShareAt(job, v) = o + b /\ ShareAt(job, <<i, c>>) = o + c
      BY <1>4, <1>5, <3>1, <3>3
    <3>5. ShareAt(job, v) + x = ShareAt(job, <<i, c>>)
      BY <3>2, <3>4
    <3>6. moved[x] = shared[Block(g)][ShareAt(job, v) + x]
      BY <1>6, <1>7, <2>2
    <3>7. loaded[g] /\ i \in BatchRows(g)
      BY <1>2, <1>5, <2>2 DEF Together
    <3>8. shared[Block(g)][ShareAt(job, <<i, c>>)] = RowFrom(job, i) + c
      BY <1>1, <1>6, <2>2, <3>7 DEF CopiedRows
    <3>9. RowFrom(job, i) + c = RowFrom(job, i) + b + x
      BY <1>10, <3>2
    <3>10. QED
      BY <3>5, <3>6, <3>8, <3>9
  <2>3. QED
    BY <1>9, <2>1, <2>2
<1>12. v[2] + (IF job.op = "gather" THEN IoAt(job, v[1]) ELSE TableAt(job, v[1]))
         = RowTo(job, i) + b
  <2>1. RowTo(job, i) = IF job.op = "gather" THEN IoAt(job, v[1]) ELSE TableAt(job, v[1])
    BY <1>5 DEF RowTo
  <2>2. PICK t \in Nat : t = RowTo(job, i)
    BY <1>10
  <2>3. b + t = t + b
    OBVIOUS
  <2>4. QED
    BY <1>5, <2>1, <2>2, <2>3
<1>13. v = <<i, b>>
  BY <1>4, <1>5
<1>14. IF ThroughShare(job)
         THEN /\ shared' = [shared EXCEPT ![Block(g)] =
                              StoredFrom(@, ShareAt(job, <<i, b>>), moved)]
              /\ cells' = cells
         ELSE cells' = StoredFrom(cells, RowTo(job, i) + b, moved) /\ shared' = shared
  BY <1>2, <1>7, <1>12, <1>13 DEF ThroughShare
<1>15. /\ Together => i \in BatchRows(g)
       /\ job' = job /\ turn' = turn /\ loaded' = loaded
       /\ todo' = [todo EXCEPT ![g][l] = @ \ {<<i, b>>}]
  BY <1>2, <1>5, <1>13
<1>16. /\ Index(job, i) >= 0 /\ GroupOf(job, i) = g
       /\ b % Alignment(job) = 0 /\ b + Alignment(job) <= job.size
  BY <1>4, <1>5
<1> HIDE DEF Moved
<1>17. /\ DOMAIN moved = 0 .. Alignment(job) - 1
       /\ \A x \in 0 .. Alignment(job) - 1 : moved[x] = RowFrom(job, i) + b + x
  BY <1>6, <1>8, <1>11
<1>18. <<i, b>> \in todo[g][l] /\ <<i, b>> \in Vectors(job, g, l)
  BY <1>2, <1>3, <1>13
<1>19. Moves(g, l, i, b, moved)
  BY <1>14, <1>15, <1>16, <1>17, <1>18 DEF Moves
<1>20. QED
  BY <1>19

\* A group's share has new values from a cell on, and no other cell of a share has.
ShareChanged(g, at, n, V) ==
  /\ DOMAIN shared' = DOMAIN shared
  /\ \A b \in DOMAIN shared : DOMAIN shared'[b] = DOMAIN shared[b]
  /\ \A y \in DOMAIN shared[Block(g)] :
       shared'[Block(g)][y] = IF at <= y /\ y < at + n THEN V[y - at] ELSE shared[Block(g)][y]
  /\ \A h \in Groups(job) \ {g} : \A y \in DOMAIN shared[Block(h)] :
       ShareStart(job, h) <= y /\ y < ShareStart(job, h) + Share(job) =>
         shared'[Block(h)][y] = shared[Block(h)][y]

\* What a group stores within its share is there, and what other groups have in theirs stays.
LEMMA StoredInShare ==
  ASSUME RowsTypes, UsesShare(job), NEW g \in Groups(job),
         NEW at \in Int, NEW n \in Nat, NEW V, DOMAIN V = 0 .. n - 1,
         ShareStart(job, g) <= at, at + n <= ShareStart(job, g) + Share(job),
         shared' = [shared EXCEPT ![Block(g)] = StoredFrom(@, at, V)]
  PROVE  ShareChanged(g, at, n, V)
<1>1. /\ job \in Jobs /\ DOMAIN shared = 0 .. job.blocks - 1
      /\ \A b \in DOMAIN shared : DOMAIN shared[b] = 0 .. SharedSize(job) - 1
  BY DEF RowsTypes
<1>2. \A h \in Groups(job) : Block(h) \in DOMAIN shared
  BY <1>1, SharesApart DEF Block
<1>3. PICK M : M = shared[Block(g)] /\ DOMAIN M = 0 .. SharedSize(job) - 1
  BY <1>1, <1>2
<1>4. PICK N : N = StoredFrom(M, at, V)
  OBVIOUS
<1>5. /\ DOMAIN N = DOMAIN M
      /\ \A y \in DOMAIN M : N[y] = IF at <= y /\ y < at + n THEN V[y - at] ELSE M[y]
  <2>1. DOMAIN M \subseteq Int
    BY <1>3
  <2>2. QED
    BY <1>4, <2>1 DEF StoredFrom
<1>6. shared' = [shared EXCEPT ![Block(g)] = N]
  BY <1>3, <1>4
<1>7. /\ DOMAIN shared' = DOMAIN shared /\ shared'[Block(g)] = N
      /\ \A b \in DOMAIN shared : b # Block(g) => shared'[b] = shared[b]
  BY <1>2, <1>6
<1>8. \A b \in DOMAIN shared : DOMAIN shared'[b] = DOMAIN shared[b]
  <2>1. ASSUME NEW b \in DOMAIN shared PROVE DOMAIN shared'[b] = DOMAIN shared[b]
    <3>1. CASE b = Block(g)
      BY <1>3, <1>5, <1>7, <3>1
    <3>2. CASE b # Block(g)
      BY <1>7, <3>2
    <3>3. QED
      BY <3>1, <3>2
  <2>2. QED
    BY <2>1
<1>9. ASSUME NEW h \in Groups(job) \ {g}, NEW y \in DOMAIN shared[Block(h)],
             ShareStart(job, h) <= y, y < ShareStart(job, h) + Share(job)
      PROVE  shared'[Block(h)][y] = shared[Block(h)][y]
  <2>1. CASE Block(h) # Block(g)
    BY <1>2, <1>7, <2>1
  <2>2. CASE Block(h) = Block(g)
    <3>1. PICK p \in Nat, q \in Nat, s \in Nat :
            p = ShareStart(job, g) /\ q = ShareStart(job, h) /\ s = Share(job)
      <4>1. ShareStart(job, g) \in Nat /\ ShareStart(job, h) \in Nat
        BY <1>1, SharesApart
      <4>2. Share(job) \in Nat
        BY <1>1, ShareFits
      <4>3. QED
        BY <4>1, <4>2
    <3>2. q + s <= p \/ p + s <= q
      <4>1. h # g /\ h \div GroupsPerBlock(job) = g \div GroupsPerBlock(job)
        BY <2>2 DEF Block
      <4>2. QED
        BY <1>1, <3>1, <4>1, SharesApart
    <3>3. y \in DOMAIN M /\ y \in Int
      <4>1. shared[Block(h)] = M
        BY <1>3, <2>2
      <4>2. y \in DOMAIN M
        BY <4>1, Zenon
      <4>3. QED
        BY <1>3, <4>2
    <3>4. ~ (at <= y /\ y < at + n)
      BY <1>9, <3>1, <3>2, <3>3
    <3>5. N[y] = M[y]
      BY <1>5, <3>3, <3>4
    <3>6. QED
      BY <1>3, <1>7, <2>2, <3>5
  <2>3. QED
    BY <2>1, <2>2
<1>10. \A y \in DOMAIN shared[Block(g)] :
         shared'[Block(g)][y] = IF at <= y /\ y < at + n THEN V[y - at]
                                ELSE shared[Block(g)][y]
  BY <1>3, <1>5, <1>7
<1>11. QED
  BY <1>7, <1>8, <1>9, <1>10 DEF ShareChanged

\* Of the lists of vectors that lanes have yet to move, one lane's gets shorter.
ListsMoved(g, l, i, b) ==
  \A h \in Groups(job), m \in Lanes(job) :
    todo'[h][m] = IF h = g /\ m = l THEN todo[h][m] \ {<<i, b>>} ELSE todo[h][m]

\* The lists of the lanes after a move, and the types of all there is.
LEMMA MovesTypes ==
  ASSUME RowsInv, NEW g \in Groups(job), NEW l \in Lanes(job),
         NEW i \in 0 .. Count(job) - 1, NEW b \in Nat, NEW moved, Moves(g, l, i, b, moved)
  PROVE  RowsTypes' /\ ListsMoved(g, l, i, b)
<1>1. /\ RowsTypes /\ CellsRight /\ job \in Jobs /\ DOMAIN todo = Groups(job)
      /\ \A h \in Groups(job) :
           /\ DOMAIN todo[h] = Lanes(job)
           /\ \A m \in Lanes(job) : todo[h][m] \subseteq Vectors(job, h, m)
  BY DEF RowsInv, RowsTypes
<1>2. todo' = [todo EXCEPT ![g][l] = @ \ {<<i, b>>}]
  BY DEF Moves
<1>3. /\ DOMAIN todo' = Groups(job)
      /\ \A h \in Groups(job) :
           /\ DOMAIN todo'[h] = Lanes(job)
           /\ \A m \in Lanes(job) :
                todo'[h][m] = IF h = g /\ m = l THEN todo[h][m] \ {<<i, b>>} ELSE todo[h][m]
  BY <1>1, <1>2
<1>4. \A h \in Groups(job) : \A m \in Lanes(job) : todo'[h][m] \subseteq Vectors(job, h, m)
  BY <1>1, <1>3
<1>5. job' = job /\ turn' = turn /\ loaded' = loaded
  BY DEF Moves
<1>6. /\ DOMAIN shared' = DOMAIN shared
      /\ \A c \in DOMAIN shared : DOMAIN shared'[c] = DOMAIN shared[c]
      /\ DOMAIN cells' = DOMAIN cells
  <2>1. PICK a \in Nat \ {0}, z \in Nat \ {0} :
          a = Alignment(job) /\ z = job.size /\ b + a <= z /\ DOMAIN moved = 0 .. a - 1
    <3>1. Alignment(job) \in Nat \ {0} /\ job.size \in Nat \ {0}
      BY <1>1, Aligned, JobFields
    <3>2. b + Alignment(job) <= job.size /\ DOMAIN moved = 0 .. Alignment(job) - 1
      BY DEF Moves
    <3>3. QED
      BY <3>1, <3>2
  <2>2. CASE ThroughShare(job)
    <3>1. /\ shared' = [shared EXCEPT ![Block(g)] = StoredFrom(@, ShareAt(job, <<i, b>>), moved)]
          /\ cells' = cells
      BY <2>2 DEF Moves
    <3>2. UsesShare(job) /\ GroupOf(job, i) = g
      BY <2>2 DEF ThroughShare, Moves
    <3>3. PICK o \in Nat :
            /\ ShareStart(job, g) <= o /\ o + z <= ShareStart(job, g) + Share(job)
            /\ \A c \in 0 .. z - 1 : ShareAt(job, <<i, c>>) = o + c
      BY <1>1, <2>1, <3>2, ShareCells
    <3>4. PICK p \in Nat, s \in Nat : p = ShareStart(job, g) /\ s = Share(job)
      BY <1>1, <3>2, SharesApart, ShareFits
    <3>5. PICK at \in Int : at = ShareAt(job, <<i, b>>) /\ at = o + b
      <4>1. b \in 0 .. z - 1
        BY <2>1
      <4>2. QED
        BY <3>3, <4>1
    <3>6. p <= at /\ at + a <= p + s
      <4>1. p <= o /\ o + z <= p + s
        BY <3>3, <3>4
      <4>2. at = o + b /\ b + a <= z
        BY <2>1, <3>5
      <4>3. QED
        BY <4>1, <4>2
    <3>7. shared' = [shared EXCEPT ![Block(g)] = StoredFrom(@, at, moved)]
      BY <3>1, <3>5
    <3>8. /\ DOMAIN shared' = DOMAIN shared
          /\ \A c \in DOMAIN shared : DOMAIN shared'[c] = DOMAIN shared[c]
      BY <1>1, <2>1, <3>2, <3>4, <3>6, <3>7, StoredInShare DEF ShareChanged
    <3>9. QED
      BY <3>1, <3>8
  <2>3. CASE ~ ThroughShare(job)
    BY <2>3 DEF Moves, StoredFrom
  <2>4. QED
    BY <2>2, <2>3
<1>7. RowsTypes'
  BY <1>1, <1>3, <1>4, <1>5, <1>6 DEF RowsTypes
<1>8. QED
  BY <1>3, <1>7 DEF ListsMoved

\* A gather's lane adds its vector to the row in the share; a vector of another lane,
\* and the row of another group, stay.
LEMMA MovesCollected ==
  ASSUME RowsInv, NEW g \in Groups(job), NEW l \in Lanes(job),
         NEW i \in 0 .. Count(job) - 1, NEW b \in Nat, NEW moved, Moves(g, l, i, b, moved)
  PROVE  CollectedRows'
<1>1. /\ RowsTypes'
      /\ \A h \in Groups(job), m \in Lanes(job) :
           todo'[h][m] = IF h = g /\ m = l THEN todo[h][m] \ {<<i, b>>} ELSE todo[h][m]
  <2>1. RowsTypes' /\ ListsMoved(g, l, i, b)
    BY MovesTypes, Zenon
  <2>2. QED
    BY <2>1, Zenon DEF ListsMoved
<1>2. RowsTypes /\ CollectedRows /\ job \in Jobs
  BY DEF RowsInv, RowsTypes
<1>3. job' = job /\ turn' = turn
  BY DEF Moves
<1>4. \A h : Block(h)' = Block(h) /\ BatchRows(h)' = BatchRows(h)
  BY <1>3, GroupsKept
<1>5. SUFFICES ASSUME ThroughShare(job), NEW h \in Groups(job), NEW m \in Lanes(job),
                      NEW w \in Vectors(job, h, m) \ todo'[h][m], w[1] \in BatchRows(h),
                      NEW x \in 0 .. Alignment(job) - 1
               PROVE  shared'[Block(h)][ShareAt(job, w) + x] = RowFrom(job, w[1]) + w[2] + x
  BY <1>3, <1>4 DEF CollectedRows
<1>6. PICK a \in Nat \ {0}, z \in Nat \ {0} : a = Alignment(job) /\ z = job.size
  BY <1>2, Aligned, JobFields
<1>7. /\ <<i, b>> \in todo[g][l] /\ <<i, b>> \in Vectors(job, g, l)
      /\ GroupOf(job, i) = g /\ b % a = 0 /\ b + a <= z
      /\ DOMAIN moved = 0 .. a - 1
      /\ \A y \in 0 .. a - 1 : moved[y] = RowFrom(job, i) + b + y
      /\ shared' = [shared EXCEPT ![Block(g)] = StoredFrom(@, ShareAt(job, <<i, b>>), moved)]
  BY <1>5, <1>6 DEF Moves
<1>8. UsesShare(job) /\ job.op = "gather"
  BY <1>5 DEF ThroughShare
<1>9. i \in BatchRows(g)
  BY <1>8 DEF Moves, Together
<1>10. PICK k \in 0 .. Count(job) - 1, c \in Nat :
        /\ k = w[1] /\ c = w[2] /\ w = <<k, c>> /\ c + a <= z /\ c % a = 0 /\ GroupOf(job, k) = h
  BY <1>2, <1>5, <1>6, VectorFits
<1>11. PICK o \in Nat :
         /\ ShareStart(job, g) <= o /\ o + z <= ShareStart(job, g) + Share(job)
         /\ \A y \in 0 .. z - 1 : ShareAt(job, <<i, y>>) = o + y
                                  /\ o + y \in DOMAIN shared[Block(g)]
  BY <1>2, <1>6, <1>7, <1>8, ShareCells
<1>12. PICK p \in Nat :
         /\ ShareStart(job, h) <= p /\ p + z <= ShareStart(job, h) + Share(job)
         /\ \A y \in 0 .. z - 1 : ShareAt(job, <<k, y>>) = p + y
                                  /\ p + y \in DOMAIN shared[Block(h)]
  <2>1. PICK f \in 0 .. Count(job) - 1 : f = k /\ GroupOf(job, f) = h
    BY <1>10
  <2>2. \E p \in Nat :
          /\ Block(h) \in DOMAIN shared
          /\ ShareStart(job, h) <= p /\ p + job.size <= ShareStart(job, h) + Share(job)
          /\ p % Alignment(job) = 0
          /\ job.op = "gather" => p = ShareStart(job, h)
          /\ \A y \in 0 .. job.size - 1 :
               ShareAt(job, <<f, y>>) = p + y /\ p + y \in DOMAIN shared[Block(h)]
    BY <1>2, <1>8, <2>1, ShareCells
  <2>3. QED
    BY <1>6, <2>1, <2>2
<1>13. PICK at \in Int : at = ShareAt(job, <<i, b>>) /\ at = o + b
  <2>1. b \in 0 .. z - 1
    BY <1>6, <1>7
  <2>2. QED
    BY <1>11, <2>1
<1>14. PICK y \in 0 .. z - 1 : y = c + x
  BY <1>6, <1>10
<1>15. ShareAt(job, w) + x = p + y /\ p + y \in DOMAIN shared[Block(h)]
  <2>1. c \in 0 .. z - 1
    BY <1>6, <1>10
  <2>2. ShareAt(job, w) = p + c
    BY <1>10, <1>12, <2>1
  <2>3. p + c + x = p + y
    BY <1>6, <1>14
  <2>4. QED
    BY <1>12, <2>2, <2>3
<1>16. /\ \A q \in DOMAIN shared[Block(g)] :
            shared'[Block(g)][q] = IF at <= q /\ q < at + a THEN moved[q - at]
                                   ELSE shared[Block(g)][q]
       /\ \A n \in Groups(job) \ {g} : \A q \in DOMAIN shared[Block(n)] :
            ShareStart(job, n) <= q /\ q < ShareStart(job, n) + Share(job) =>
              shared'[Block(n)][q] = shared[Block(n)][q]
  <2>1. shared' = [shared EXCEPT ![Block(g)] = StoredFrom(@, at, moved)]
    BY <1>7, <1>13
  <2>2. ShareStart(job, g) <= at /\ at + a <= ShareStart(job, g) + Share(job)
    <3>1. PICK r \in Nat, s \in Nat : r = ShareStart(job, g) /\ s = Share(job)
      BY <1>2, <1>8, SharesApart, ShareFits
    <3>2. r <= o /\ o + z <= r + s
      BY <1>11, <3>1
    <3>3. r <= at /\ at + a <= r + s
      BY <1>7, <1>13, <3>2
    <3>4. QED
      BY <3>1, <3>3
  <2>3. DOMAIN moved = 0 .. a - 1 /\ a \in Nat
    BY <1>7
  <2>4. ShareChanged(g, at, a, moved)
    BY <1>2, <1>8, <2>1, <2>2, <2>3, StoredInShare
  <2>5. QED
    BY <2>4 DEF ShareChanged
<1>17. CASE w = <<i, b>>
  <2>1. k = i /\ c = b /\ h = g
    BY <1>7, <1>10, <1>17
  <2>2. p + y = at + x
    <3>1. p + c = o + b
      <4>1. b \in 0 .. z - 1
        BY <1>6, <1>7
      <4>2. QED
        BY <1>11, <1>12, <2>1, <4>1
    <3>2. QED
      BY <1>13, <1>14, <3>1
  <2>3. at <= p + y /\ p + y < at + a /\ (p + y) - at = x
    BY <1>6, <2>2
  <2>4. shared'[Block(g)][p + y] = moved[x]
    BY <1>15, <1>16, <2>1, <2>3
  <2>5. QED
    BY <1>6, <1>7, <1>10, <1>15, <2>1, <2>4
<1>18. CASE w # <<i, b>>
  <2>1. w \notin todo[h][m]
    <3>1. todo'[h][m] = IF h = g /\ m = l THEN todo[h][m] \ {<<i, b>>} ELSE todo[h][m]
      BY <1>1
    <3>2. w \notin todo'[h][m]
      OBVIOUS
    <3>3. QED
      BY <1>18, <3>1, <3>2
  <2>2. shared[Block(h)][p + y] = RowFrom(job, w[1]) + w[2] + x
    <3>1. shared[Block(h)][ShareAt(job, w) + x] = RowFrom(job, w[1]) + w[2] + x
      BY <1>2, <1>5, <2>1 DEF CollectedRows
    <3>2. QED
      BY <1>15, <3>1
  <2>3. shared'[Block(h)][p + y] = shared[Block(h)][p + y]
    <3>1. CASE h # g
      <4>1. PICK r \in Nat, s \in Nat : r = ShareStart(job, h) /\ s = Share(job)
        BY <1>2, <1>8, SharesApart, ShareFits
      <4>2. r <= p /\ p + z <= r + s
        BY <1>12, <4>1
      <4>3. r <= p + y /\ p + y < r + s
        BY <4>2
      <4>4. QED
        BY <1>15, <1>16, <3>1, <4>1, <4>3
    <3>2. CASE h = g
      <4>1. k = i
        BY <1>2, <1>5, <1>8, <1>9, <1>10, <3>2, CurrentRows
      <4>2. c # b
        BY <1>10, <1>18, <4>1
      <4>3. b + a <= c \/ c + a <= b
        BY <1>7, <1>10, <4>2, MultiplesApart
      <4>4. o = p
        <5>1. 0 \in 0 .. z - 1
          BY <1>6
        <5>2. ShareAt(job, <<i, 0>>) = o + 0 /\ ShareAt(job, <<i, 0>>) = p + 0
          BY <1>11, <1>12, <4>1, <5>1
        <5>3. QED
          BY <5>2
      <4>5. ~ (at <= p + y /\ p + y < at + a)
        BY <1>6, <1>13, <1>14, <4>3, <4>4
      <4>6. QED
        BY <1>15, <1>16, <3>2, <4>5
    <3>3. QED
      BY <3>1, <3>2
  <2>4. QED
    BY <1>15, <2>2, <2>3
<1>19. QED
  BY <1>17, <1>18

\* After a move.
LEMMA VectorMoved ==
  ASSUME RowsInv, NEW g \in Groups(job), NEW l \in Lanes(job), MoveVector(g, l)
  PROVE  RowsInv'
<1>1. PICK i \in 0 .. Count(job) - 1, b \in Nat : \E moved : Moves(g, l, i, b, moved)
  BY MoveFields
<1>2. PICK moved : Moves(g, l, i, b, moved)
  BY <1>1
<1>3. /\ RowsTypes /\ TurnsKept /\ CopiedRows /\ CellsRight /\ CellsWritten
      /\ job \in Jobs /\ turn \in [Groups(job) -> Nat]
  BY DEF RowsInv, RowsTypes
<1>4. /\ <<i, b>> \in todo[g][l] /\ <<i, b>> \in Vectors(job, g, l)
      /\ Index(job, i) >= 0 /\ GroupOf(job, i) = g
      /\ b + Alignment(job) <= job.size
      /\ DOMAIN moved = 0 .. Alignment(job) - 1
      /\ \A x \in 0 .. Alignment(job) - 1 : moved[x] = RowFrom(job, i) + b + x
      /\ Together => i \in BatchRows(g)
      /\ job' = job /\ turn' = turn /\ loaded' = loaded
      /\ IF ThroughShare(job) THEN cells' = cells
         ELSE cells' = StoredFrom(cells, RowTo(job, i) + b, moved) /\ shared' = shared
  BY <1>2 DEF Moves
<1>5. /\ RowsTypes'
      /\ \A h \in Groups(job), m \in Lanes(job) :
           todo'[h][m] = IF h = g /\ m = l THEN todo[h][m] \ {<<i, b>>} ELSE todo[h][m]
  <2>1. RowsTypes' /\ ListsMoved(g, l, i, b)
    BY <1>2, MovesTypes, Zenon
  <2>2. QED
    BY <2>1, Zenon DEF ListsMoved
<1>6. Together' = Together /\ \A h : Block(h)' = Block(h) /\ BatchRows(h)' = BatchRows(h)
  BY <1>4, GroupsKept
<1>7. TurnsKept'
  <2>1. SUFFICES ASSUME Together, NEW h \in Groups(job), NEW m \in Lanes(job),
                        NEW w \in Vectors(job, h, m)
                 PROVE  /\ w \in todo'[h][m] => BatchOf(job, w[1]) >= turn[h]
                        /\ BatchOf(job, w[1]) > turn[h] => w \in todo'[h][m]
    BY <1>4, <1>6 DEF TurnsKept
  <2>2. /\ w \in todo[h][m] => BatchOf(job, w[1]) >= turn[h]
        /\ BatchOf(job, w[1]) > turn[h] => w \in todo[h][m]
    BY <1>3, <2>1 DEF TurnsKept
  <2>3. CASE h = g /\ m = l /\ w = <<i, b>>
    <3>1. BatchOf(job, w[1]) = turn[h] /\ turn[h] \in Nat
      BY <1>3, <1>4, <2>1, <2>3, CurrentRows
    <3>2. w \notin todo'[h][m]
      BY <1>5, <2>3
    <3>3. QED
      BY <3>1, <3>2
  <2>4. CASE ~ (h = g /\ m = l /\ w = <<i, b>>)
    <3>1. w \in todo'[h][m] <=> w \in todo[h][m]
      BY <1>5, <2>4
    <3>2. QED
      BY <2>2, <3>1
  <2>5. QED
    BY <2>3, <2>4
<1>8. CollectedRows'
  BY <1>2, MovesCollected
<1>9. CopiedRows'
  <2>1. CASE job.op = "scatter" /\ UsesShare(job)
    <3>1. shared' = shared
      BY <1>4, <2>1 DEF ThroughShare
    <3>2. QED
      BY <1>3, <1>4, <1>6, <3>1 DEF CopiedRows
  <2>2. CASE ~ (job.op = "scatter" /\ UsesShare(job))
    BY <1>4, <2>2 DEF CopiedRows
  <2>3. QED
    BY <2>1, <2>2
<1>10. Named' = Named /\ \A v : To(v)' = To(v) /\ From(v)' = From(v)
  BY <1>4, PlacesKept
<1>11. CASE ThroughShare(job)
  <2>1. cells' = cells
    BY <1>4, <1>11
  <2>2. CellsRight'
    BY <1>3, <1>10, <2>1 DEF CellsRight
  <2>3. CellsWritten'
    BY <1>3, <1>4, <1>11, <2>1 DEF CellsWritten
  <2>4. QED
    BY <1>5, <1>7, <1>8, <1>9, <2>2, <2>3 DEF RowsInv
<1>12. CASE ~ ThroughShare(job)
  <2>1. PICK a \in Nat \ {0} : a = Alignment(job)
    BY <1>3, Aligned
  <2>2. PICK N, at : N = StoredFrom(cells, at, moved) /\ at = RowTo(job, i) + b
    OBVIOUS
  <2>3. cells' = N
    BY <1>4, <1>12, <2>2
  <2>4. /\ DOMAIN N = DOMAIN cells
        /\ \A x \in DOMAIN N : N[x] # Unwritten =>
             \E u \in Named : To(u) = x /\ From(u) = N[x]
        /\ \A x \in DOMAIN cells : cells[x] # Unwritten => N[x] # Unwritten
        /\ \A x \in 0 .. a - 1 : N[RowTo(job, i) + b + x] # Unwritten
    <3>1. a \in Nat /\ b + a <= job.size /\ DOMAIN moved = 0 .. a - 1
          /\ \A x \in 0 .. a - 1 : moved[x] = RowFrom(job, i) + b + x
      BY <1>4, <2>1
    <3>2. Index(job, i) >= 0
      BY <1>4
    <3>3. QED
      BY <1>3, <2>2, <3>1, <3>2, RowStored
  <2>5. CellsRight'
    BY <1>10, <2>3, <2>4 DEF CellsRight
  <2>6. CellsWritten'
    <3>1. SUFFICES ASSUME NEW h \in Groups(job), NEW m \in Lanes(job),
                          NEW w \in Vectors(job, h, m) \ todo'[h][m], NEW x \in 0 .. a - 1
                   PROVE  N[RowTo(job, w[1]) + w[2] + x] # Unwritten
      BY <1>4, <1>12, <2>1, <2>3 DEF CellsWritten
    <3>2. CASE w = <<i, b>>
      BY <2>4, <3>2
    <3>3. CASE w # <<i, b>>
      <4>1. w \notin todo[h][m]
        BY <1>5, <3>1, <3>3
      <4>2. cells[RowTo(job, w[1]) + w[2] + x] # Unwritten
        BY <1>3, <1>12, <2>1, <3>1, <4>1 DEF CellsWritten
      <4>3. RowTo(job, w[1]) + w[2] + x \in DOMAIN cells
        <5>1. PICK k \in 0 .. Count(job) - 1, c \in Nat :
                k = w[1] /\ c = w[2] /\ c + a <= job.size /\ Index(job, k) >= 0
          BY <1>3, <2>1, <3>1, VectorFits
        <5>2. PICK z \in Nat \ {0} : z = job.size
          BY <1>3, JobFields
        <5>3. c + x \in 0 .. job.size - 1
          BY <2>1, <5>1, <5>2
        <5>4. RowTo(job, k) \in Nat /\ RowTo(job, k) + (c + x) \in 0 .. DestSize(job) - 1
          BY <1>3, <5>1, <5>3, ElementMoved
        <5>5. RowTo(job, k) + c + x = RowTo(job, k) + (c + x)
          BY <5>4
        <5>6. RowTo(job, k) + c + x \in DOMAIN cells
          BY <1>3, <5>4, <5>5 DEF RowsTypes
        <5>7. QED
          BY <5>1, <5>6
      <4>4. QED
        BY <2>4, <4>2, <4>3
    <3>4. QED
      BY <3>2, <3>3
  <2>7. QED
    BY <1>5, <1>7, <1>8, <1>9, <2>5, <2>6 DEF RowsInv
<1>13. QED
  BY <1>11, <1>12

\* The rows of the current batch of a group are in what it stores from its share's start.
Loads(g, n, V) ==
  /\ DOMAIN V = 0 .. n - 1 /\ n <= Share(job)
  /\ shared' = [shared EXCEPT ![Block(g)] = StoredFrom(@, ShareStart(job, g), V)]
  /\ \A i \in BatchRows(g) : \A c \in 0 .. job.size - 1 :
       \E y \in 0 .. n - 1 : /\ ShareAt(job, <<i, c>>) = ShareStart(job, g) + y
                             /\ V[y] = RowFrom(job, i) + c

\* What a group of a scatter loads fits into its share and has every row of the batch.
LEMMA LoadedRows ==
  ASSUME RowsInv, NEW g \in Groups(job), LoadRows(g)
  PROVE  \E n \in Nat : \E V : Loads(g, n, V)
<1> DEFINE first  == CHOOSE i \in BatchRows(g) : \A k \in BatchRows(g) : i <= k
           size   == OffTail(job) + Cardinality(BatchRows(g)) * job.io.stride
           copied == IF Count(job) - 1 \in BatchRows(g) THEN size
                     ELSE RoundUpTo(size, Async(job))
           input  == [x \in 0 .. copied - 1 |-> IoAt(job, first) - OffTail(job) + x]
<1>1. /\ job.op = "scatter" /\ UsesShare(job) /\ BatchRows(g) # {}
      /\ shared' = [shared EXCEPT ![Block(g)] = StoredFrom(@, ShareStart(job, g), input)]
  BY DEF LoadRows
<1>2. RowsTypes /\ job \in Jobs
  BY DEF RowsInv, RowsTypes
<1>3. PICK B : B = BatchRows(g) /\ B # {}
  BY <1>1
<1>4. \E f \in Nat, n \in 1 .. Lines(job) :
        /\ B = f .. f + n - 1 /\ Cardinality(B) = n
        /\ \A i \in B : i % Lines(job) = i - f
        /\ f = CHOOSE i \in B : \A k \in B : i <= k
  <2>1. turn[g] \in Nat /\ B = RowsOfBatch(job, g, turn[g])
    BY <1>2, <1>3, CurrentRows
  <2>2. QED
    BY <1>2, <1>3, <2>1, BatchInterval
<1>5. PICK r \in Nat \ {0} : r = Lines(job)
  BY <1>2, LinesPositive
<1>6. PICK f \in Nat, k \in 1 .. r :
        /\ B = f .. f + k - 1 /\ Cardinality(B) = k
        /\ \A i \in B : i % r = i - f
        /\ f = first
  BY <1>3, <1>4, <1>5
<1>7. PICK d \in Nat, z \in Nat \ {0}, o \in Nat :
        /\ d = job.io.stride /\ z = job.size /\ z <= d /\ o = job.io.offset
  BY <1>2, JobFields
<1>8. PICK t \in Nat, a \in Nat \ {0} : t = OffTail(job) /\ a = Async(job) /\ t < a /\ t <= o
  BY <1>1, <1>2, <1>7, TailAligned, AsyncFits
<1>9. PICK s \in Nat \ {0}, e \in Nat :
        s = Share(job) /\ s % a = 0 /\ e = k * d /\ e + a <= s
  <2>1. k \in Nat /\ k <= Lines(job)
    BY <1>5
  <2>2. k * job.io.stride \in Nat /\ (k * job.io.stride) + Async(job) <= Share(job)
    BY <1>1, <1>2, <2>1, ShareRoom
  <2>3. Share(job) \in Nat \ {0} /\ Share(job) % Async(job) = 0
    BY <1>2, ShareFits
  <2>4. QED
    BY <1>7, <1>8, <2>2, <2>3
<1>10. size = t + e
  BY <1>3, <1>6, <1>7, <1>8, <1>9
<1>11. PICK n \in Nat : n = copied /\ t + e <= n /\ n <= s
  <2>1. PICK u \in Nat : u = t + e /\ u <= s
    BY <1>8, <1>9
  <2>2. RoundUpTo(u, a) \in Nat /\ u <= RoundUpTo(u, a) /\ RoundUpTo(u, a) <= s
    BY <1>9, <2>1, RoundedUp
  <2>3. copied = u \/ copied = RoundUpTo(u, a)
    BY <1>8, <1>10, <2>1
  <2>4. QED
    BY <2>1, <2>2, <2>3
<1>12. PICK V : V = input
  OBVIOUS
<1>13. \A i \in B : i \in 0 .. Count(job) - 1 /\ GroupOf(job, i) = g /\ i \in Nat
  <2>1. \A i \in B : i \in 0 .. Count(job) - 1 /\ GroupOf(job, i) = g
    BY <1>2, <1>3, CurrentRows
  <2>2. \A i \in B : i \in Nat
    BY <1>6
  <2>3. QED
    BY <2>1, <2>2
<1>14. \A i \in B : IoAt(job, i) = o + d * i /\ RowFrom(job, i) = o + d * i
  <2>1. \A i \in B : RawRow(job, i) = i
    BY <1>1, <1>2, <1>13, RowsOrdered
  <2>2. QED
    BY <1>1, <1>7, <2>1 DEF IoAt, RowFrom
<1>15. DOMAIN V = 0 .. n - 1 /\ \A y \in 0 .. n - 1 : V[y] = IoAt(job, f) - t + y
  BY <1>6, <1>8, <1>11, <1>12
<1> HIDE DEF first, size, copied, input
<1>16. f \in B
  BY <1>6
<1>17. PICK m \in Nat : m = d * f
  BY Z3
<1>18. ASSUME NEW i \in B, NEW c \in 0 .. z - 1
       PROVE  \E y \in 0 .. n - 1 : /\ ShareAt(job, <<i, c>>) = ShareStart(job, g) + y
                                    /\ V[y] = RowFrom(job, i) + c
  <2>1. PICK x \in Nat : x = i - f /\ x + 1 <= k /\ i % r = x /\ i = f + x
    <3>1. i \in f .. f + k - 1
      BY <1>6, Zenon
    <3>2. PICK x \in Nat : x = i - f /\ x + 1 <= k /\ i = f + x
      BY <3>1
    <3>3. i % r = i - f
      BY <1>6
    <3>4. QED
      BY <3>2, <3>3
  <2>2. PICK q \in Nat : q = x * d /\ q + d <= e
    <3>1. x * d \in Nat /\ (x + 1) * d <= k * d /\ (x + 1) * d = (x * d) + d
      BY <2>1, Z3
    <3>2. QED
      BY <1>9, <3>1
  <2>3. d * i = m + q
    <3>1. d * (f + x) = (d * f) + (x * d)
      BY Z3
    <3>2. QED
      BY <1>17, <2>1, <2>2, <3>1, Zenon
  <2>4. PICK b \in Nat : b = ShareStart(job, g)
    BY <1>1, <1>2, SharesApart
  <2>5. PICK w \in Nat : w = t + q /\ ShareAt(job, <<i, c>>) = b + w + c
    <3>1. \E w \in Nat :
            /\ w + job.size <= Share(job) /\ w % Alignment(job) = 0
            /\ job.op = "gather" => w = 0
            /\ job.op = "scatter" => w = OffTail(job) + ((i % Lines(job)) * job.io.stride)
            /\ \A y \in 0 .. job.size - 1 :
                 ShareAt(job, <<i, y>>) = ShareStart(job, g) + w + y
      BY <1>1, <1>2, <1>13, InShare
    <3>2. PICK w \in Nat :
            /\ w = OffTail(job) + ((i % Lines(job)) * job.io.stride)
            /\ ShareAt(job, <<i, c>>) = b + w + c
      BY <1>1, <1>7, <2>4, <3>1
    <3>3. w = t + q
      BY <1>5, <1>7, <1>8, <2>1, <2>2, <3>2
    <3>4. QED
      BY <3>2, <3>3
  <2>6. PICK y \in 0 .. n - 1 : y = w + c
    BY <1>7, <1>11, <2>2, <2>5
  <2>7. ShareAt(job, <<i, c>>) = b + y
    BY <1>7, <2>5, <2>6
  <2>8. V[y] = (o + m) - t + y
    BY <1>14, <1>15, <1>16, <1>17
  <2>9. V[y] = (o + (m + q)) + c
    BY <1>7, <2>5, <2>6, <2>8
  <2>10. RowFrom(job, i) = o + (m + q)
    BY <1>14, <2>3
  <2>11. QED
    BY <2>4, <2>7, <2>9, <2>10
<1>19. shared' = [shared EXCEPT ![Block(g)] = StoredFrom(@, ShareStart(job, g), V)]
  BY <1>1, <1>12
<1>20. Loads(g, n, V)
  <2>1. \A i \in BatchRows(g) : \A x \in 0 .. job.size - 1 :
          \E y \in 0 .. n - 1 : /\ ShareAt(job, <<i, x>>) = ShareStart(job, g) + y
                                /\ V[y] = RowFrom(job, i) + x
    BY <1>3, <1>7, <1>18, Zenon
  <2>2. DOMAIN V = 0 .. n - 1 /\ n <= Share(job)
    BY <1>9, <1>11, <1>15
  <2>3. QED
    BY <1>19, <2>1, <2>2, Zenon DEF Loads
<1>21. QED
  BY <1>20

\* After a group has loaded the rows of its batch.
LEMMA RowsLoaded ==
  ASSUME RowsInv, NEW g \in Groups(job), LoadRows(g)
  PROVE  RowsInv'
<1>1. /\ RowsTypes /\ TurnsKept /\ CopiedRows /\ CellsRight /\ CellsWritten
      /\ job \in Jobs /\ loaded \in [Groups(job) -> BOOLEAN]
  BY DEF RowsInv, RowsTypes
<1>2. /\ job.op = "scatter" /\ UsesShare(job)
      /\ loaded' = [loaded EXCEPT ![g] = TRUE]
      /\ job' = job /\ todo' = todo /\ turn' = turn /\ cells' = cells
  BY DEF LoadRows
<1>3. PICK n \in Nat : \E V : Loads(g, n, V)
  BY LoadedRows
<1>4. PICK V : Loads(g, n, V)
  BY <1>3
<1>5. /\ DOMAIN V = 0 .. n - 1 /\ n <= Share(job)
      /\ shared' = [shared EXCEPT ![Block(g)] = StoredFrom(@, ShareStart(job, g), V)]
      /\ \A i \in BatchRows(g) : \A c \in 0 .. job.size - 1 :
           \E y \in 0 .. n - 1 : /\ ShareAt(job, <<i, c>>) = ShareStart(job, g) + y
                                 /\ V[y] = RowFrom(job, i) + c
  BY <1>4 DEF Loads
<1>6. PICK b \in Nat, s \in Nat : b = ShareStart(job, g) /\ s = Share(job)
  <2>1. ShareStart(job, g) \in Nat
    BY <1>1, <1>2, SharesApart
  <2>2. Share(job) \in Nat
    BY <1>1, ShareFits
  <2>3. QED
    BY <2>1, <2>2
<1>7. ShareChanged(g, b, n, V)
  <2>1. b \in Int /\ ShareStart(job, g) <= b /\ b + n <= ShareStart(job, g) + Share(job)
    BY <1>5, <1>6
  <2>2. shared' = [shared EXCEPT ![Block(g)] = StoredFrom(@, b, V)]
    BY <1>5, <1>6
  <2>3. DOMAIN V = 0 .. n - 1
    BY <1>5
  <2>4. QED
    BY <1>1, <1>2, <2>1, <2>2, <2>3, StoredInShare
<1>8. Together' = Together /\ \A h : Block(h)' = Block(h) /\ BatchRows(h)' = BatchRows(h)
  BY <1>2, GroupsKept
<1>9. RowsTypes'
  <2>1. /\ DOMAIN shared' = DOMAIN shared
        /\ \A c \in DOMAIN shared : DOMAIN shared'[c] = DOMAIN shared[c]
    BY <1>7 DEF ShareChanged
  <2>2. QED
    BY <1>1, <1>2, <2>1 DEF RowsTypes
<1>10. TurnsKept'
  BY <1>1, <1>2, <1>8 DEF TurnsKept
<1>11. CollectedRows'
  BY <1>2 DEF CollectedRows, ThroughShare
<1>12. CopiedRows'
  <2>1. SUFFICES ASSUME NEW h \in Groups(job), loaded'[h],
                        NEW i \in BatchRows(h), NEW c \in 0 .. job.size - 1
                 PROVE  shared'[Block(h)][ShareAt(job, <<i, c>>)] = RowFrom(job, i) + c
    BY <1>2, <1>8 DEF CopiedRows
  <2>2. i \in 0 .. Count(job) - 1 /\ GroupOf(job, i) = h
    BY <1>1, <2>1, CurrentRows
  <2>3. PICK z \in Nat \ {0} : z = job.size
    BY <1>1, JobFields
  <2>4. PICK o \in Nat :
          /\ ShareStart(job, h) <= o /\ o + z <= ShareStart(job, h) + Share(job)
          /\ \A x \in 0 .. z - 1 : ShareAt(job, <<i, x>>) = o + x
                                   /\ o + x \in DOMAIN shared[Block(h)]
    BY <1>1, <1>2, <2>2, <2>3, ShareCells
  <2>5. ShareAt(job, <<i, c>>) = o + c /\ o + c \in DOMAIN shared[Block(h)]
    BY <2>3, <2>4
  <2>6. CASE h = g
    <3>1. PICK y \in 0 .. n - 1 : o + c = b + y /\ V[y] = RowFrom(job, i) + c
      BY <1>5, <1>6, <2>1, <2>5, <2>6
    <3>2. b <= o + c /\ o + c < b + n /\ (o + c) - b = y
      BY <3>1
    <3>3. shared'[Block(g)][o + c] = V[y]
      BY <1>7, <2>5, <2>6, <3>2 DEF ShareChanged
    <3>4. QED
      BY <2>5, <2>6, <3>1, <3>3
  <2>7. CASE h # g
    <3>1. loaded[h]
      BY <1>1, <1>2, <2>1, <2>7
    <3>2. shared[Block(h)][o + c] = RowFrom(job, i) + c
      BY <1>1, <1>2, <2>1, <2>5, <3>1 DEF CopiedRows
    <3>3. PICK r \in Nat : r = ShareStart(job, h)
      BY <1>1, <1>2, SharesApart
    <3>4. r <= o + c /\ o + c < r + s
      <4>1. r <= o /\ o + z <= r + s
        BY <1>6, <2>4, <3>3
      <4>2. QED
        BY <2>3, <4>1
    <3>5. shared'[Block(h)][o + c] = shared[Block(h)][o + c]
      BY <1>6, <1>7, <2>5, <2>7, <3>3, <3>4 DEF ShareChanged
    <3>6. QED
      BY <2>5, <3>2, <3>5
  <2>8. QED
    BY <2>6, <2>7
<1>13. CellsRight'
  <2>1. Named' = Named /\ \A v : To(v)' = To(v) /\ From(v)' = From(v)
    BY <1>2, PlacesKept
  <2>2. QED
    BY <1>1, <1>2, <2>1 DEF CellsRight
<1>14. CellsWritten'
  BY <1>1, <1>2 DEF CellsWritten
<1>15. QED
  BY <1>9, <1>10, <1>11, <1>12, <1>13, <1>14 DEF RowsInv

\* The row a gather's group has collected is complete once its lanes have moved theirs.
LEMMA RowCollected ==
  ASSUME RowsInv, ThroughShare(job), NEW g \in Groups(job), NEW i \in BatchRows(g),
         Index(job, i) >= 0,
         \A l \in Lanes(job) : \A v \in todo[g][l] : v[1] \notin BatchRows(g),
         NEW c \in 0 .. job.size - 1
  PROVE  shared[Block(g)][ShareStart(job, g) + c] = RowFrom(job, i) + c
<1>1. RowsTypes /\ CollectedRows /\ job \in Jobs
  BY DEF RowsInv, RowsTypes
<1>2. i \in 0 .. Count(job) - 1 /\ GroupOf(job, i) = g
  BY <1>1, CurrentRows
<1>3. PICK a \in Nat \ {0}, z \in Nat \ {0} : a = Alignment(job) /\ z = job.size
  BY <1>1, Aligned, JobFields
<1>4. PICK l \in Lanes(job) : \E b \in Nat, x \in 0 .. Alignment(job) - 1 :
         <<i, b>> \in Vectors(job, GroupOf(job, i), l) /\ c = b + x
  BY <1>1, <1>2, VectorOfColumn
<1>5. PICK b \in Nat, x \in 0 .. a - 1 : <<i, b>> \in Vectors(job, g, l) /\ c = b + x
  BY <1>2, <1>3, <1>4
<1>6. PICK v : v = <<i, b>> /\ v[1] = i /\ v[2] = b
  <2>1. <<i, b>>[1] = i /\ <<i, b>>[2] = b
    OBVIOUS
  <2>2. QED
    BY <2>1, Zenon
<1>7. v \in Vectors(job, g, l) \ todo[g][l]
  BY <1>5, <1>6
<1>8. shared[Block(g)][ShareAt(job, v) + x] = RowFrom(job, i) + b + x
  BY <1>1, <1>3, <1>6, <1>7 DEF CollectedRows
<1>9. PICK o \in Nat : /\ o = ShareStart(job, g)
                       /\ \A y \in 0 .. z - 1 : ShareAt(job, <<i, y>>) = o + y
  BY <1>1, <1>2, <1>3, ShareCells DEF ThroughShare
<1>10. b \in 0 .. z - 1
  BY <1>3, <1>5
<1>11. ShareAt(job, v) + x = o + c
  <2>1. ShareAt(job, v) = o + b
    BY <1>6, <1>9, <1>10
  <2>2. x \in Int
    BY <1>3
  <2>3. QED
    BY <1>5, <2>1, <2>2
<1>12. RowFrom(job, i) + b + x = RowFrom(job, i) + c
  <2>1. PICK f \in Nat : f = RowFrom(job, i)
    BY <1>1, <1>2, ElementMoved
  <2>2. f + b + x = f + c
    BY <1>3, <1>5
  <2>3. QED
    BY <2>1, <2>2
<1>13. QED
  BY <1>8, <1>9, <1>11, <1>12

\* After a group is done with a batch.
LEMMA BatchDone ==
  ASSUME RowsInv, NEW g \in Groups(job), NextBatch(g)
  PROVE  RowsInv'
<1> DEFINE collected ==
             [x \in 0 .. job.size - 1 |-> shared[Block(g)][ShareStart(job, g) + x]]
<1>1. /\ RowsTypes /\ TurnsKept /\ CollectedRows /\ CopiedRows /\ CellsRight /\ CellsWritten
      /\ job \in Jobs /\ loaded \in [Groups(job) -> BOOLEAN]
      /\ turn \in [Groups(job) -> Nat]
      /\ \A h \in Groups(job) : \A l \in Lanes(job) : todo[h][l] \subseteq Vectors(job, h, l)
  BY DEF RowsInv, RowsTypes
<1>2. /\ Together /\ BatchRows(g) # {}
      /\ \A l \in Lanes(job) : \A v \in todo[g][l] : v[1] \notin BatchRows(g)
      /\ turn' = [turn EXCEPT ![g] = @ + 1]
      /\ loaded' = [loaded EXCEPT ![g] = FALSE]
      /\ job' = job /\ todo' = todo /\ shared' = shared
  BY DEF NextBatch
<1>3. PICK i : i = (CHOOSE k \in BatchRows(g) : TRUE) /\ i \in BatchRows(g)
  BY <1>2
<1>4. cells' = IF job.op = "gather" /\ Index(job, i) >= 0
                 THEN StoredFrom(cells, IoAt(job, i), collected) ELSE cells
  BY <1>3 DEF NextBatch
<1>5. turn' \in [Groups(job) -> Nat]
      /\ \A h \in Groups(job) : turn'[h] = IF h = g THEN turn[g] + 1 ELSE turn[h]
  BY <1>1, <1>2
<1>6. Together' = Together
      /\ \A h : Block(h)' = Block(h) /\ (turn'[h] = turn[h] => BatchRows(h)' = BatchRows(h))
  BY <1>2, GroupsKept
<1>7. \A h \in Groups(job) \ {g} : BatchRows(h)' = BatchRows(h) /\ loaded'[h] = loaded[h]
  BY <1>1, <1>2, <1>5, <1>6
<1>8. \A k \in 0 .. Count(job) - 1 : BatchOf(job, k) \in Nat /\ GroupOf(job, k) \in Groups(job)
  <2>1. Count(job) \in Nat
    BY <1>1, RowsOrdered
  <2>2. ASSUME NEW k \in 0 .. Count(job) - 1
        PROVE  BatchOf(job, k) \in Nat /\ GroupOf(job, k) \in Groups(job)
    <3>1. k \in Nat
      BY <2>1
    <3>2. QED
      BY <1>1, <3>1, RowGroup
  <2>3. QED
    BY <2>2
<1>9. TurnsKept'
  <2>1. SUFFICES ASSUME NEW h \in Groups(job), NEW l \in Lanes(job), NEW v \in Vectors(job, h, l)
                 PROVE  /\ v \in todo[h][l] => BatchOf(job, v[1]) >= turn'[h]
                        /\ BatchOf(job, v[1]) > turn'[h] => v \in todo[h][l]
    BY <1>2 DEF TurnsKept
  <2>2. /\ v \in todo[h][l] => BatchOf(job, v[1]) >= turn[h]
        /\ BatchOf(job, v[1]) > turn[h] => v \in todo[h][l]
    BY <1>1, <1>2 DEF TurnsKept
  <2>3. PICK k \in 0 .. Count(job) - 1 : k = v[1] /\ GroupOf(job, k) = h
    BY <1>1, VectorFits
  <2>4. PICK t \in Nat, u \in Nat : t = turn[h] /\ u = BatchOf(job, k)
    BY <1>1, <1>8, <2>3
  <2>5. CASE h = g
    <3>1. turn'[h] = t + 1
      BY <1>5, <2>4, <2>5
    <3>2. v \in todo[h][l] => u # t
      <4>1. SUFFICES ASSUME v \in todo[h][l], u = t PROVE FALSE
        OBVIOUS
      <4>2. k \in BatchRows(g)
        BY <2>3, <2>4, <2>5, <4>1 DEF BatchRows
      <4>3. QED
        BY <1>2, <2>3, <2>5, <4>1, <4>2
    <3>3. QED
      BY <2>2, <2>3, <2>4, <3>1, <3>2
  <2>6. CASE h # g
    BY <1>5, <2>2, <2>6
  <2>7. QED
    BY <2>5, <2>6
<1>10. CollectedRows'
  <2>1. SUFFICES ASSUME ThroughShare(job), NEW h \in Groups(job), NEW l \in Lanes(job),
                        NEW v \in Vectors(job, h, l) \ todo[h][l], v[1] \in BatchRows(h)',
                        NEW x \in 0 .. Alignment(job) - 1
                 PROVE  shared[Block(h)][ShareAt(job, v) + x] = RowFrom(job, v[1]) + v[2] + x
    BY <1>2, <1>6 DEF CollectedRows
  <2>2. CASE h = g
    <3>1. BatchOf(job, v[1]) = turn[g] + 1
      BY <1>2, <1>5, <2>1, <2>2 DEF BatchRows
    <3>2. turn[g] \in Nat
      BY <1>1
    <3>3. v \in todo[h][l]
      BY <1>1, <1>2, <2>1, <2>2, <3>1, <3>2 DEF TurnsKept
    <3>4. QED
      BY <2>1, <3>3
  <2>3. CASE h # g
    <3>1. v[1] \in BatchRows(h)
      BY <1>7, <2>1, <2>3
    <3>2. QED
      BY <1>1, <2>1, <3>1 DEF CollectedRows
  <2>4. QED
    BY <2>2, <2>3
<1>11. CopiedRows'
  <2>1. SUFFICES ASSUME job.op = "scatter", UsesShare(job), NEW h \in Groups(job), loaded'[h],
                        NEW k \in BatchRows(h)', NEW c \in 0 .. job.size - 1
                 PROVE  shared[Block(h)][ShareAt(job, <<k, c>>)] = RowFrom(job, k) + c
    BY <1>2, <1>6 DEF CopiedRows
  <2>2. h # g
    BY <1>1, <1>2, <2>1
  <2>3. loaded[h] /\ k \in BatchRows(h)
    BY <1>7, <2>1, <2>2
  <2>4. QED
    BY <1>1, <2>1, <2>3 DEF CopiedRows
<1>12. Named' = Named /\ \A v : To(v)' = To(v) /\ From(v)' = From(v)
  BY <1>2, PlacesKept
<1>13. i \in 0 .. Count(job) - 1 /\ GroupOf(job, i) = g /\ BatchOf(job, i) = turn[g]
  BY <1>1, <1>3, CurrentRows
<1>14. /\ DOMAIN cells' = DOMAIN cells
       /\ CellsRight'
       /\ \A x \in DOMAIN cells : cells[x] # Unwritten => cells'[x] # Unwritten
       /\ ThroughShare(job) /\ Index(job, i) >= 0 =>
            \A c \in 0 .. job.size - 1 : cells'[RowTo(job, i) + c] # Unwritten
       /\ ~ ThroughShare(job) => cells' = cells
  <2>1. CASE job.op = "gather" /\ Index(job, i) >= 0
    <3>1. ThroughShare(job)
      BY <1>2, <2>1 DEF Together, ThroughShare
    <3>2. PICK z \in Nat \ {0} : z = job.size
      BY <1>1, JobFields
    <3>3. PICK b \in Nat : b = 0
      OBVIOUS
    <3>4. PICK V : V = collected
      OBVIOUS
    <3>5. DOMAIN V = 0 .. z - 1
      BY <3>2, <3>4
    <3>6. ASSUME NEW x \in 0 .. z - 1 PROVE V[x] = RowFrom(job, i) + b + x
      <4>1. V[x] = shared[Block(g)][ShareStart(job, g) + x]
        BY <3>2, <3>4
      <4>2. shared[Block(g)][ShareStart(job, g) + x] = RowFrom(job, i) + x
        BY <1>2, <1>3, <2>1, <3>1, <3>2, RowCollected
      <4>3. RowFrom(job, i) \in Nat
        BY <1>1, <1>13, <2>1, <3>2, ElementMoved
      <4>4. RowFrom(job, i) + b + x = RowFrom(job, i) + x
        BY <3>3, <4>3
      <4>5. QED
        BY <4>1, <4>2, <4>4
    <3>7. PICK at, N : at = RowTo(job, i) + b /\ N = StoredFrom(cells, at, V)
      OBVIOUS
    <3>8. RowTo(job, i) \in Nat /\ RowTo(job, i) = IoAt(job, i)
      <4>1. 0 \in 0 .. job.size - 1
        BY <3>2
      <4>2. QED
        BY <1>1, <1>13, <2>1, <4>1, ElementMoved DEF RowTo
    <3>9. cells' = N
      BY <1>4, <2>1, <3>3, <3>4, <3>7, <3>8
    <3>10. /\ DOMAIN N = DOMAIN cells
           /\ \A x \in DOMAIN N : N[x] # Unwritten =>
                \E u \in Named : To(u) = x /\ From(u) = N[x]
           /\ \A x \in DOMAIN cells : cells[x] # Unwritten => N[x] # Unwritten
           /\ \A x \in 0 .. z - 1 : N[RowTo(job, i) + b + x] # Unwritten
      <4>1. z \in Nat /\ b + z <= job.size
        BY <3>2, <3>3
      <4>2. i \in 0 .. Count(job) - 1 /\ Index(job, i) >= 0
        BY <1>13, <2>1
      <4>3. \A x \in 0 .. z - 1 : V[x] = RowFrom(job, i) + b + x
        BY <3>6
      <4>4. RowsTypes /\ CellsRight
        BY <1>1
      <4>5. QED
        BY <3>5, <3>7, <4>1, <4>2, <4>3, <4>4, RowStored
    <3>11. \A c \in 0 .. z - 1 : N[RowTo(job, i) + c] # Unwritten
      <4>1. \A c \in 0 .. z - 1 : RowTo(job, i) + b + c = RowTo(job, i) + c
        BY <3>3, <3>8
      <4>2. QED
        BY <3>10, <4>1
    <3>12. CellsRight'
      BY <1>12, <3>9, <3>10 DEF CellsRight
    <3>13. QED
      BY <3>1, <3>2, <3>9, <3>10, <3>11, <3>12
  <2>2. CASE ~ (job.op = "gather" /\ Index(job, i) >= 0)
    <3>1. cells' = cells
      BY <1>4, <2>2
    <3>2. CellsRight'
      BY <1>1, <1>12, <3>1 DEF CellsRight
    <3>3. QED
      BY <2>2, <3>1, <3>2 DEF ThroughShare
  <2>3. QED
    BY <2>1, <2>2
<1>15. RowsTypes'
  BY <1>1, <1>2, <1>5, <1>14 DEF RowsTypes
<1>16. CellsWritten'
  <2>1. CASE ThroughShare(job)
    <3>1. SUFFICES ASSUME NEW k \in 0 .. Count(job) - 1, Index(job, k) >= 0,
                          BatchOf(job, k) < turn'[GroupOf(job, k)], NEW c \in 0 .. job.size - 1
                   PROVE  cells'[RowTo(job, k) + c] # Unwritten
      BY <1>2, <2>1 DEF CellsWritten
    <3>2. PICK h \in Groups(job) : h = GroupOf(job, k)
      BY <1>8
    <3>3. PICK t \in Nat, u \in Nat : t = turn[h] /\ u = BatchOf(job, k)
      BY <1>1, <1>8
    <3>4. CASE u < t
      <4>1. cells[RowTo(job, k) + c] # Unwritten
        BY <1>1, <2>1, <3>1, <3>2, <3>3, <3>4 DEF CellsWritten
      <4>2. RowTo(job, k) + c \in DOMAIN cells
        BY <1>1, <3>1, ElementMoved DEF RowsTypes
      <4>3. QED
        BY <1>14, <4>1, <4>2
    <3>5. CASE ~ (u < t)
      <4>1. h = g /\ u = t
        <5>1. CASE h = g
          <6>1. u < t + 1
            BY <1>5, <3>1, <3>2, <3>3, <5>1
          <6>2. QED
            BY <3>5, <5>1, <6>1
        <5>2. CASE h # g
          BY <1>5, <3>1, <3>2, <3>3, <3>5, <5>2
        <5>3. QED
          BY <5>1, <5>2
      <4>2. k \in BatchRows(g)
        BY <3>2, <3>3, <4>1 DEF BatchRows
      <4>3. k = i
        BY <1>1, <1>3, <2>1, <4>2, CurrentRows DEF ThroughShare
      <4>4. QED
        BY <1>14, <2>1, <3>1, <4>3
    <3>6. QED
      BY <3>4, <3>5
  <2>2. CASE ~ ThroughShare(job)
    <3>1. cells' = cells
      BY <1>14, <2>2
    <3>2. QED
      BY <1>1, <1>2, <2>2, <3>1 DEF CellsWritten
  <2>3. QED
    BY <2>1, <2>2
<1>17. QED
  BY <1>9, <1>10, <1>11, <1>14, <1>15, <1>16 DEF RowsInv

\* The places of a vector are multiples of its size.
LEMMA PlacesAligned ==
  ASSUME NEW j \in Jobs, NEW i \in 0 .. Count(j) - 1, Index(j, i) >= 0,
         NEW c \in Nat, c % Alignment(j) = 0
  PROVE  /\ (TableAt(j, i) + c) % Alignment(j) = 0
         /\ (j.io.base + IoAt(j, i) + c) % Alignment(j) = 0
<1>1. PICK a \in Nat \ {0} :
        /\ a = Alignment(j) /\ j.table.offset % a = 0 /\ j.table.stride % a = 0
        /\ (j.io.base + j.io.offset) % a = 0 /\ j.io.stride % a = 0
  BY Aligned
<1>2. PICK o \in Nat, d \in Nat, b \in Nat, p \in Nat, s \in Nat :
        /\ o = j.table.offset /\ d = j.table.stride
        /\ b = j.io.base /\ p = j.io.offset /\ s = j.io.stride
  BY JobFields
<1>3. PICK x \in Nat, k \in Nat : x = Index(j, i) /\ k = RawRow(j, i)
  BY RowsOrdered
<1>4. ASSUME NEW m \in Nat, NEW n \in Nat, NEW y \in Nat, m % a = 0, n % a = 0
      PROVE  (m + (n * y) + c) % a = 0 /\ n * y \in Nat
  <2>1. PICK q \in Nat : q = n * y /\ q % a = 0
    BY <1>4, MultiplesTimes
  <2>2. (q + c) % a = 0
    BY <1>1, <2>1, MultiplesAdd
  <2>3. PICK r \in Nat : r = q + c
    OBVIOUS
  <2>4. (m + r) % a = 0
    BY <1>4, <2>2, <2>3, MultiplesAdd
  <2>5. m + q + c = m + r
    BY <2>3
  <2>6. QED
    BY <2>1, <2>4, <2>5
<1>5. (TableAt(j, i) + c) % a = 0
  <2>1. (o + (d * x) + c) % a = 0
    BY <1>1, <1>2, <1>4
  <2>2. TableAt(j, i) = o + (d * x)
    BY <1>2, <1>3 DEF TableAt
  <2>3. QED
    BY <2>1, <2>2
<1>6. (b + IoAt(j, i) + c) % a = 0
  <2>1. PICK t \in Nat : t = b + p /\ t % a = 0
    BY <1>1, <1>2
  <2>2. PICK q \in Nat : q = s * k /\ (t + q + c) % a = 0
    BY <1>1, <1>2, <1>4, <2>1
  <2>3. IoAt(j, i) = p + q
    BY <1>2, <1>3, <2>2 DEF IoAt
  <2>4. b + (p + q) + c = t + q + c
    BY <2>1
  <2>5. QED
    BY <2>2, <2>3, <2>4
<1>7. QED
  BY <1>1, <1>2, <1>5, <1>6

\* After any step.
LEMMA RowsStep ==
  ASSUME RowsInv, [RowsNext]_rowVars
  PROVE  RowsInv'
<1>1. ASSUME NEW g \in Groups(job), LoadRows(g) PROVE RowsInv'
  BY <1>1, RowsLoaded
<1>2. ASSUME NEW g \in Groups(job), NextBatch(g) PROVE RowsInv'
  BY <1>2, BatchDone
<1>3. ASSUME NEW g \in Groups(job), NEW l \in Lanes(job), MoveVector(g, l) PROVE RowsInv'
  BY <1>3, VectorMoved
<1>4. CASE UNCHANGED rowVars
  BY <1>4, RowsStutter
<1>5. QED
  BY <1>1, <1>2, <1>3, <1>4 DEF RowsNext, RowsFinished

\* When all is done, every element that is named was moved.
LEMMA AllMoved ==
  ASSUME RowsInv, RowsDone, NEW v \in Named
  PROVE  cells[To(v)] # Unwritten
<1>1. /\ RowsTypes /\ TurnsKept /\ CellsWritten
      /\ job \in Jobs /\ turn \in [Groups(job) -> Nat]
  BY DEF RowsInv, RowsTypes
<1>2. PICK z \in Nat \ {0}, a \in Nat \ {0} : z = job.size /\ a = Alignment(job)
  BY <1>1, JobFields, Aligned
<1>3. PICK k \in 0 .. Count(job) - 1, c \in 0 .. z - 1 :
        v = <<k, c>> /\ v[1] = k /\ v[2] = c /\ job.indices[k + 1] >= 0
  BY <1>2 DEF Named
<1>4. PICK i \in 0 .. Count(job) - 1 : RawRow(job, i) = k
  BY <1>1, RowsOrdered
<1>5. Index(job, i) = job.indices[k + 1] /\ Index(job, i) >= 0
  BY <1>1, <1>3, <1>4, RowsOrdered
<1>6. IoAt(job, i) = CallersRow(k) /\ TableAt(job, i) = TablesRow(k)
  BY <1>4, <1>5 DEF IoAt, TableAt, CallersRow, TablesRow
<1>7. PICK o \in Nat : o = RowTo(job, i)
  BY <1>1, <1>2, <1>3, <1>5, ElementMoved
<1>8. To(v) = o + c
  <2>1. To(v) = c + o
    BY <1>3, <1>6, <1>7 DEF To, RowTo
  <2>2. QED
    BY <1>2, <1>7, <2>1
<1>9. PICK g \in Groups(job) : g = GroupOf(job, i)
  <2>1. i \in Nat
    BY <1>1, RowsOrdered
  <2>2. QED
    BY <1>1, <2>1, RowGroup
<1>10. PICK l \in Lanes(job) : \E b \in Nat, x \in 0 .. Alignment(job) - 1 :
         <<i, b>> \in Vectors(job, GroupOf(job, i), l) /\ c = b + x
  BY <1>1, <1>2, <1>5, VectorOfColumn
<1>11. PICK b \in Nat, x \in 0 .. a - 1 : <<i, b>> \in Vectors(job, g, l) /\ c = b + x
  BY <1>2, <1>9, <1>10
<1>12. <<i, b>>[1] = i /\ <<i, b>>[2] = b
  OBVIOUS
<1>13. PICK w : w = <<i, b>> /\ w[1] = i /\ w[2] = b
  BY <1>12, Zenon
<1>14. w \in Vectors(job, g, l) \ todo[g][l]
  BY <1>9, <1>11, <1>13 DEF RowsDone
<1>15. CASE ~ ThroughShare(job)
  <2>1. cells[RowTo(job, i) + b + x] # Unwritten
    BY <1>1, <1>2, <1>13, <1>14, <1>15 DEF CellsWritten
  <2>2. RowTo(job, i) + b + x = o + c
    BY <1>2, <1>7, <1>11
  <2>3. QED
    BY <1>8, <2>1, <2>2
<1>16. CASE ThroughShare(job)
  <2>1. Together
    BY <1>16 DEF ThroughShare, Together
  <2>2. PICK t \in Nat, u \in Nat : t = turn[g] /\ u = BatchOf(job, i)
    <3>1. i \in Nat
      BY <1>1, RowsOrdered
    <3>2. QED
      BY <1>1, <3>1, RowGroup
  <2>3. ~ (u > t)
    BY <1>1, <1>13, <1>14, <2>1, <2>2 DEF TurnsKept
  <2>4. u # t
    <3>1. i \notin BatchRows(g)
      BY <2>1 DEF RowsDone
    <3>2. QED
      BY <1>9, <2>2, <3>1 DEF BatchRows
  <2>5. u < t
    BY <2>3, <2>4
  <2>6. cells[RowTo(job, i) + c] # Unwritten
    BY <1>1, <1>2, <1>5, <1>9, <1>16, <2>2, <2>5 DEF CellsWritten
  <2>7. QED
    BY <1>7, <1>8, <2>6
<1>17. QED
  BY <1>15, <1>16

\* Whatever has yet to be moved begins at multiples of its size.
LEMMA AllAligned ==
  ASSUME RowsInv, NEW g \in Groups(job), NEW l \in Lanes(job), NEW v \in todo[g][l]
  PROVE  /\ (TableAt(job, v[1]) + v[2]) % Alignment(job) = 0
         /\ (job.io.base + IoAt(job, v[1]) + v[2]) % Alignment(job) = 0
         /\ UsesShare(job) => ShareAt(job, v) % Alignment(job) = 0
<1>1. RowsTypes /\ job \in Jobs /\ v \in Vectors(job, g, l)
  BY DEF RowsInv, RowsTypes
<1>2. PICK z \in Nat \ {0}, a \in Nat \ {0} : z = job.size /\ a = Alignment(job)
  BY <1>1, JobFields, Aligned
<1>3. PICK i \in 0 .. Count(job) - 1, c \in Nat :
        /\ i = v[1] /\ c = v[2] /\ v = <<i, c>> /\ c + a <= z /\ c % a = 0
        /\ GroupOf(job, i) = g /\ Index(job, i) >= 0
  BY <1>1, <1>2, VectorFits
<1>4. /\ (TableAt(job, i) + c) % Alignment(job) = 0
      /\ (job.io.base + IoAt(job, i) + c) % Alignment(job) = 0
  BY <1>1, <1>2, <1>3, PlacesAligned
<1>5. ASSUME UsesShare(job) PROVE ShareAt(job, v) % a = 0
  <2>1. PICK o \in Nat :
          o % a = 0 /\ \A x \in 0 .. z - 1 : ShareAt(job, <<i, x>>) = o + x
    BY <1>1, <1>2, <1>3, <1>5, ShareCells
  <2>2. c \in 0 .. z - 1
    BY <1>2, <1>3
  <2>3. ShareAt(job, v) = o + c
    BY <1>3, <2>1, <2>2
  <2>4. (o + c) % a = 0
    BY <1>3, <2>1, MultiplesAdd
  <2>5. QED
    BY <2>3, <2>4
<1>6. QED
  BY <1>2, <1>3, <1>4, <1>5

\* The invariant holds throughout every call.
THEOREM RowsInvariance == RowsSpec => []RowsInv
<1>1. RowsInit => RowsInv
  BY RowsInitially
<1>2. RowsInv /\ [RowsNext]_rowVars => RowsInv'
  BY RowsStep
<1>3. QED
  BY <1>1, <1>2, PTL DEF RowsSpec

\* Every row is moved to its place.
THEOREM RowsMovedAlways == RowsSpec => []RowsMoved
<1>1. RowsInv => RowsMoved
  <2>1. SUFFICES ASSUME RowsInv PROVE RowsMoved
    OBVIOUS
  <2>2. CellsRight
    BY <2>1 DEF RowsInv
  <2>3. RowsDone => \A v \in Named : cells[To(v)] # Unwritten
    BY <2>1, AllMoved
  <2>4. \A g \in Groups(job), l \in Lanes(job) : \A v \in todo[g][l] :
          /\ (TableAt(job, v[1]) + v[2]) % Alignment(job) = 0
          /\ (job.io.base + IoAt(job, v[1]) + v[2]) % Alignment(job) = 0
          /\ UsesShare(job) => ShareAt(job, v) % Alignment(job) = 0
    BY <2>1, AllAligned
  <2>5. QED
    BY <2>2, <2>3, <2>4 DEF RowsMoved, CellsRight
<1>2. QED
  BY <1>1, RowsInvariance, PTL

=============================================================================
