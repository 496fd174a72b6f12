-------------------------- MODULE AppendUniqueProofs --------------------------
(***************************************************************************)
(* Proofs about AppendUnique, for any number of keys, any hash function    *)
(* and any interleaving.                                                   *)
(*                                                                         *)
(* A key is in one slot of the hash table only.  Slots are never emptied   *)
(* and never change their key.  So a bucket that a search has left without *)
(* finding its key stays full of other keys, and whoever claims a slot for *)
(* a key has excluded all that come before it in the probe sequence of the *)
(* key.  Two slots with one key would each have to come before the other.  *)
(*                                                                         *)
(* The list that is put out is that of the targets and of all other        *)
(* neighbors, each once.  When the neighbors are inserted, the slots that  *)
(* are marked are those of the neighbors to append, one slot for each; the *)
(* order of the slots then numbers them without a gap.                     *)
(***************************************************************************)
EXTENDS AppendUnique, FiniteSetTheorems, TLAPS

TypeInv ==
  /\ targets \in Seq(Key) /\ neighbors \in Seq(Key) /\ hash \in [Key -> Nat]
  /\ keys \in [Slot -> Key \cup {Empty}]
  /\ pending \subseteq DOMAIN Nodes /\ pending \subseteq DOMAIN try
  /\ pending \subseteq DOMAIN seen /\ DOMAIN mapping \subseteq DOMAIN neighbors
  /\ \A i \in pending : try[i] \in Nat

\* The bucket for try t of key k is full, and k is not in it.
Excluded(k, t) == \A l \in Lane : keys[<<BucketId(k, t), l>>] \notin {Empty, k}

\* A group has excluded the buckets that it has left.
LeftBehind == \A i \in pending : \A t \in 0 .. try[i] - 1 : Excluded(Nodes[i], t)

\* A slot that a lane has not found empty is as the lane has found it.
SeenStays ==
  \A i \in pending : \A l \in Lane :
    l \in DOMAIN seen[i] /\ seen[i][l] # Empty => seen[i][l] = keys[<<CurrentBucket(i), l>>]

\* Slot l of bucket b comes at try t of key k, and all slots before it are excluded.
PlacedAt(k, b, l, t) ==
  /\ b = BucketId(k, t)
  /\ \A u \in 0 .. t - 1 : Excluded(k, u)
  /\ \A m \in Lane : m < l => keys[<<b, m>>] \notin {Empty, k}

Placed ==
  \A b \in Bucket, l \in Lane :
    keys[<<b, l>>] # Empty => \E t \in Nat : PlacedAt(keys[<<b, l>>], b, l, t)

IInv == TypeInv /\ LeftBehind /\ SeenStays /\ Placed

-----------------------------------------------------------------------------
LEMMA Division ==
  ASSUME NEW n \in Nat, NEW d \in Nat \ {0}
  PROVE  n \div d \in Nat /\ n % d \in 0 .. d - 1 /\ n % d <= n
BY Z3

\* There are buckets, ...
LEMMA BucketsExist ==
  ASSUME targets \in Seq(Key), neighbors \in Seq(Key)
  PROVE  BucketCount \in Nat \ {0}
<1> DEFINE n == 2 * (Len(targets) + Len(neighbors))
           m == (n + AssignBucketSize - 1) \div AssignBucketSize
<1>1. n \in Nat /\ n + AssignBucketSize - 1 \in Nat
  BY SizesAssumption
<1> HIDE DEF n
<1>2. m \in Nat
  BY <1>1, Division, SizesAssumption DEF m
<1> HIDE DEF m
<1>3. m * AssignBucketSize \in Nat
  BY <1>2, SizesAssumption
<1>4. m * AssignBucketSize + BucketSize - 1 \in Nat
  BY <1>3, SizesAssumption
<1>5. (m * AssignBucketSize + BucketSize - 1) \div BucketSize \in Nat
  BY <1>4, Division, SizesAssumption
<1>6. QED
  BY <1>5 DEF BucketCount, RoundUp, m, n

\* ... and every probe leads to one.
LEMMA ProbesHit ==
  ASSUME targets \in Seq(Key), neighbors \in Seq(Key), hash \in [Key -> Nat],
         NEW k \in Key, NEW t \in Nat
  PROVE  BucketId(k, t) \in Bucket
<1>1. hash[k] + t * t \in Nat
  BY SMTT(30)
<1>2. QED
  BY <1>1, BucketsExist, Division DEF BucketId, Bucket

-----------------------------------------------------------------------------
\* A step in which no slot loses its key.
Grows ==
  /\ UNCHANGED input
  /\ \A b \in Bucket, l \in Lane : keys[<<b, l>>] # Empty => keys'[<<b, l>>] = keys[<<b, l>>]

LEMMA SameProbes ==
  ASSUME UNCHANGED input
  PROVE  /\ Slot' = Slot /\ Bucket' = Bucket /\ BucketCount' = BucketCount
         /\ \A k, t : BucketId(k, t)' = BucketId(k, t)
BY DEF input, Slot, Bucket, BucketCount, BucketId, RoundUp

\* What is excluded stays so.
LEMMA ExcludedStays ==
  ASSUME TypeInv, Grows, NEW k \in Key, NEW t \in Nat, Excluded(k, t)
  PROVE  Excluded(k, t)'
<1>1. BucketId(k, t) \in Bucket /\ BucketId(k, t)' = BucketId(k, t)
  BY ProbesHit, SameProbes DEF TypeInv, Grows
<1>2. SUFFICES ASSUME NEW l \in Lane PROVE keys'[<<BucketId(k, t), l>>] \notin {Empty, k}
  BY <1>1 DEF Excluded
<1>3. keys[<<BucketId(k, t), l>>] \notin {Empty, k}
  BY DEF Excluded
<1>4. QED
  BY <1>1, <1>3 DEF Grows

\* A key that is in its place stays there.
LEMMA PlaceStays ==
  ASSUME IInv, Grows, NEW b \in Bucket, NEW l \in Lane, keys[<<b, l>>] # Empty
  PROVE  (\E t \in Nat : PlacedAt(keys[<<b, l>>], b, l, t))'
<1>1. PICK k \in Key : k # Empty /\ keys[<<b, l>>] = k /\ keys'[<<b, l>>] = k
  BY DEF IInv, TypeInv, Slot, Grows
<1>2. PICK t \in Nat : PlacedAt(k, b, l, t)
  BY <1>1 DEF IInv, Placed
<1>3. b = BucketId(k, t)'
  BY <1>2, SameProbes DEF PlacedAt, Grows
<1>4. ASSUME NEW u \in 0 .. t - 1 PROVE Excluded(k, u)'
  BY <1>2, ExcludedStays DEF PlacedAt, IInv
<1>5. ASSUME NEW m \in Lane, m < l PROVE keys'[<<b, m>>] \notin {Empty, k}
  BY <1>2, <1>5 DEF PlacedAt, Grows
<1>6. PlacedAt(k, b, l, t)'
  BY <1>3, <1>4, <1>5 DEF PlacedAt, Lane
<1>7. QED
  BY <1>1, <1>6

\* A group that does not go to another bucket knows what it knew.
LEMMA GroupStays ==
  ASSUME IInv, Grows, Nodes' = Nodes, NEW i \in pending, try'[i] = try[i]
  PROVE  /\ \A t \in 0 .. try[i] - 1 : Excluded(Nodes[i], t)'
         /\ CurrentBucket(i)' = CurrentBucket(i) /\ CurrentBucket(i) \in Bucket
         /\ \A l \in Lane :
              l \in DOMAIN seen[i] /\ seen[i][l] # Empty
                => seen[i][l] = keys'[<<CurrentBucket(i), l>>]
<1>1. Nodes[i] \in Key /\ try[i] \in Nat
  BY DEF IInv, TypeInv, Nodes
<1>2. ASSUME NEW t \in 0 .. try[i] - 1 PROVE Excluded(Nodes[i], t)'
  BY <1>1, ExcludedStays DEF IInv, LeftBehind
<1>3. CurrentBucket(i)' = CurrentBucket(i)
  BY SameProbes DEF CurrentBucket, Grows
<1>4. CurrentBucket(i) \in Bucket
  BY <1>1, ProbesHit DEF CurrentBucket, IInv, TypeInv
<1>5. ASSUME NEW l \in Lane, l \in DOMAIN seen[i], seen[i][l] # Empty
      PROVE  seen[i][l] = keys'[<<CurrentBucket(i), l>>]
  BY <1>4, <1>5 DEF IInv, SeenStays, Grows
<1>6. QED
  BY <1>2, <1>3, <1>4, <1>5

-----------------------------------------------------------------------------
\* What the steps have in common that store no key and start no group.
Reads ==
  /\ UNCHANGED <<input, keys>> /\ Nodes' = Nodes
  /\ pending' \subseteq pending /\ DOMAIN mapping' = DOMAIN mapping

LEMMA ReadsGrow == ASSUME Reads PROVE Grows
BY DEF Reads, Grows, input

LEMMA LoadKeyKeeps ==
  ASSUME IInv, NEW i, NEW l \in Lane, LoadKey(i, l)
  PROVE  IInv'
<1>1. Reads /\ try' = try /\ i \in DOMAIN seen /\ i \in pending
  BY DEF LoadKey, Reads, Searches, table, Nodes, input, IInv, TypeInv
<1>2. Grows /\ Nodes' = Nodes
  BY <1>1, ReadsGrow DEF Reads
<1>3. PICK k \in {keys[<<CurrentBucket(i), l>>], Empty} :
        seen' = [seen EXCEPT ![i] = [m \in DOMAIN seen[i] \cup {l} |->
                                       IF m = l THEN k ELSE seen[i][m]]]
  BY DEF LoadKey
<1>4. TypeInv'
  BY <1>1, <1>2, <1>3, SameProbes DEF IInv, TypeInv, Reads, LoadKey, Grows, input
<1>5. LeftBehind'
  BY <1>1, <1>2, GroupStays DEF LeftBehind, LoadKey
<1>6. SeenStays'
  <2>1. SUFFICES ASSUME NEW j \in pending, NEW m \in Lane, m \in DOMAIN seen'[j], seen'[j][m] # Empty
                 PROVE  seen'[j][m] = keys'[<<CurrentBucket(j)', m>>]
    BY DEF SeenStays, LoadKey, Lane
  <2>2. CASE j = i /\ m = l
    BY <1>1, <1>2, <1>3, <2>1, <2>2, GroupStays DEF Reads
  <2>3. CASE j # i
    BY <1>1, <1>2, <1>3, <2>1, <2>3, GroupStays DEF IInv, TypeInv
  <2>4. CASE j = i /\ m # l
    BY <1>1, <1>2, <1>3, <2>1, <2>4, GroupStays DEF IInv, TypeInv
  <2>5. QED
    BY <2>2, <2>3, <2>4
<1>7. Placed'
  BY <1>1, <1>2, PlaceStays, SameProbes DEF Placed, Reads, Lane, Grows
<1>8. QED
  BY <1>4, <1>5, <1>6, <1>7 DEF IInv

\* Steps after which the groups are where they were.
LEMMA NothingReadKeeps ==
  ASSUME IInv, Reads, UNCHANGED <<try, seen>>
  PROVE  IInv'
<1>1. Grows /\ Nodes' = Nodes
  BY ReadsGrow DEF Reads
<1>2. TypeInv'
  BY <1>1, SameProbes DEF IInv, TypeInv, Reads, Grows, input
<1>3. LeftBehind'
  BY <1>1, GroupStays DEF LeftBehind, Reads
<1>4. SeenStays'
  BY <1>1, GroupStays DEF SeenStays, Reads, Lane
<1>5. Placed'
  BY <1>1, PlaceStays, SameProbes DEF Placed, Reads, Lane, Grows
<1>6. QED
  BY <1>2, <1>3, <1>4, <1>5 DEF IInv

\* A bucket in which all lanes have found other keys is excluded.
LEMMA FullBucketExcluded ==
  ASSUME IInv, NEW i, Missed(i), \A l \in Lane : seen[i][l] # Empty
  PROVE  Excluded(Nodes[i], try[i])
BY DEF Missed, Searches, IInv, SeenStays, Excluded, CurrentBucket

LEMMA NextBucketKeeps ==
  ASSUME IInv, NEW i, NextBucket(i)
  PROVE  IInv'
<1>1. Reads /\ i \in pending /\ i \in DOMAIN try /\ i \in DOMAIN seen
  BY DEF NextBucket, Missed, Searches, Reads, table, Nodes, input, IInv, TypeInv
<1>2. Grows /\ Nodes' = Nodes
  BY <1>1, ReadsGrow DEF Reads
<1>3. try[i] \in Nat /\ Nodes[i] \in Key
  BY <1>1 DEF IInv, TypeInv, Nodes
<1>4. try'[i] \in Nat /\ try'[i] <= try[i] + 1
  <2>1. BucketCount \in Nat \ {0} /\ try[i] + 1 \in Nat
    BY <1>3, BucketsExist DEF IInv, TypeInv
  <2>2. try'[i] = (try[i] + 1) % BucketCount
    BY <1>1 DEF NextBucket
  <2>3. PICK d \in Nat \ {0} : d = BucketCount
    BY <2>1
  <2>4. (try[i] + 1) % d \in 0 .. d - 1 /\ (try[i] + 1) % d <= try[i] + 1
    BY <2>1, Division
  <2>5. try'[i] = (try[i] + 1) % d
    BY <2>2, <2>3
  <2>6. QED
    BY <2>4, <2>5
<1>5. TypeInv'
  BY <1>1, <1>2, <1>4, SameProbes DEF IInv, TypeInv, Reads, NextBucket, Grows, input
<1>6. LeftBehind'
  <2>1. SUFFICES ASSUME NEW j \in pending, NEW t \in 0 .. try'[j] - 1
                 PROVE  Excluded(Nodes[j], t)'
    BY DEF LeftBehind, NextBucket
  <2>2. CASE j # i
    BY <1>1, <1>2, <2>2, GroupStays DEF NextBucket
  <2>3. CASE j = i /\ t < try[i]
    BY <1>2, <1>3, <2>3, ExcludedStays DEF IInv, LeftBehind
  <2>4. CASE j = i /\ t = try[i]
    <3>1. Excluded(Nodes[i], try[i])
      BY FullBucketExcluded DEF NextBucket
    <3>2. QED
      BY <1>2, <1>3, <2>4, <3>1, ExcludedStays DEF IInv
  <2>5. QED
    BY <1>3, <1>4, <2>2, <2>3, <2>4
<1>7. SeenStays'
  <2>1. SUFFICES ASSUME NEW j \in pending, NEW m \in Lane, m \in DOMAIN seen'[j], seen'[j][m] # Empty
                 PROVE  seen'[j][m] = keys'[<<CurrentBucket(j)', m>>]
    BY DEF SeenStays, NextBucket, Lane
  <2>2. j # i
    BY <1>1, <2>1 DEF NextBucket
  <2>3. QED
    BY <1>1, <1>2, <2>1, <2>2, GroupStays DEF NextBucket
<1>8. Placed'
  BY <1>1, <1>2, PlaceStays, SameProbes DEF Placed, Reads, Lane, Grows
<1>9. QED
  BY <1>5, <1>6, <1>7, <1>8 DEF IInv

-----------------------------------------------------------------------------
LEMMA ClaimSlotKeeps ==
  ASSUME IInv, NEW i, NEW l \in Lane, ClaimSlot(i, l)
  PROVE  IInv'
<1> DEFINE s == <<CurrentBucket(i), l>>
<1>1. i \in pending /\ Nodes[i] \in Key /\ try[i] \in Nat /\ CurrentBucket(i) \in Bucket
  BY ProbesHit DEF ClaimSlot, Missed, Searches, IInv, TypeInv, Nodes, CurrentBucket
<1>2. CASE UNCHANGED <<keys, seen>>
  <2>1. Reads
    BY <1>2 DEF ClaimSlot, Reads, Nodes, input
  <2>2. QED
    BY <1>2, <2>1, NothingReadKeeps DEF ClaimSlot
<1>3. CASE /\ keys[s] \notin {Empty, Nodes[i]} /\ UNCHANGED keys
           /\ seen' = [seen EXCEPT ![i] = [m \in Lane |-> IF m = l THEN keys[s] ELSE seen[i][m]]]
  <2>1. Reads /\ UNCHANGED try
    BY <1>3 DEF ClaimSlot, Reads, Nodes, input
  <2>2. Grows /\ Nodes' = Nodes
    BY <2>1, ReadsGrow DEF Reads
  <2>3. TypeInv'
    BY <1>3, <2>1, <2>2, SameProbes DEF IInv, TypeInv, Reads, Grows, input
  <2>4. LeftBehind'
    BY <2>1, <2>2, GroupStays DEF LeftBehind, Reads
  <2>5. SeenStays'
    <3>1. SUFFICES ASSUME NEW j \in pending, NEW m \in Lane, m \in DOMAIN seen'[j], seen'[j][m] # Empty
                   PROVE  seen'[j][m] = keys'[<<CurrentBucket(j)', m>>]
      BY <2>1 DEF SeenStays, Reads, Lane
    <3>2. CASE j = i /\ m = l
      BY <1>1, <1>3, <2>1, <2>2, <3>2, GroupStays DEF IInv, TypeInv
    <3>3. CASE j # i
      BY <1>1, <1>3, <2>1, <2>2, <3>1, <3>3, GroupStays DEF IInv, TypeInv
    <3>4. CASE j = i /\ m # l
      BY <1>1, <1>3, <2>1, <2>2, <3>1, <3>4, GroupStays DEF IInv, TypeInv, ClaimSlot, Missed
    <3>5. QED
      BY <3>2, <3>3, <3>4
  <2>6. Placed'
    BY <2>1, <2>2, PlaceStays, SameProbes DEF Placed, Reads, Lane, Grows
  <2>7. QED
    BY <2>3, <2>4, <2>5, <2>6 DEF IInv
<1>4. CASE keys[s] = Empty /\ keys' = [keys EXCEPT ![s] = Nodes[i]] /\ UNCHANGED seen
  <2>1. UNCHANGED <<input, try, pending, mapping>> /\ Nodes' = Nodes
    BY DEF ClaimSlot, Nodes, input
  <2>2. Grows
    BY <1>1, <1>4, <2>1 DEF Grows, IInv, TypeInv, Slot
  <2>3. TypeInv'
    BY <1>1, <1>4, <2>1, SameProbes DEF IInv, TypeInv, input, Slot
  <2>4. LeftBehind'
    BY <2>1, <2>2, GroupStays DEF LeftBehind
  <2>5. SeenStays'
    BY <1>4, <2>1, <2>2, GroupStays DEF SeenStays, Lane
  <2>6. PlacedAt(Nodes[i], CurrentBucket(i), l, try[i])'
    <3>1. ASSUME NEW t \in 0 .. try[i] - 1 PROVE Excluded(Nodes[i], t)'
      BY <1>1, <2>1, <2>2, GroupStays
    <3>2. ASSUME NEW m \in Lane, m < l
          PROVE  keys'[<<CurrentBucket(i), m>>] \notin {Empty, Nodes[i]}
      <4>1. seen[i][m] # Empty /\ seen[i][m] # Nodes[i] /\ m \in DOMAIN seen[i]
        BY <3>2 DEF ClaimSlot, Missed
      <4>2. QED
        BY <1>1, <2>1, <2>2, <4>1, GroupStays
    <3>3. CurrentBucket(i)' = CurrentBucket(i) /\ CurrentBucket(i) = BucketId(Nodes[i], try[i])'
      BY <1>1, <2>1, <2>2, GroupStays, SameProbes DEF CurrentBucket, Grows
    <3>4. QED
      BY <2>1, <3>1, <3>2, <3>3 DEF PlacedAt, Lane
  <2>7. Placed'
    <3>1. SUFFICES ASSUME NEW b \in Bucket, NEW m \in Lane, keys'[<<b, m>>] # Empty
                   PROVE  (\E t \in Nat : PlacedAt(keys[<<b, m>>], b, m, t))'
      BY <2>2, SameProbes DEF Placed, Grows, Lane
    <3>2. CASE keys[<<b, m>>] # Empty
      BY <2>2, <3>2, PlaceStays
    <3>3. CASE keys[<<b, m>>] = Empty
      <4>1. b = CurrentBucket(i) /\ m = l /\ keys'[<<b, m>>] = Nodes[i]
        BY <1>1, <1>4, <3>1, <3>3 DEF IInv, TypeInv, Slot
      <4>2. CurrentBucket(i)' = CurrentBucket(i)
        BY <1>1, <2>1, <2>2, GroupStays
      <4>3. QED
        BY <1>1, <2>1, <2>6, <4>1, <4>2
    <3>4. QED
      BY <3>2, <3>3
  <2>8. QED
    BY <2>3, <2>4, <2>5, <2>7 DEF IInv
<1>5. QED
  BY <1>2, <1>3, <1>4 DEF ClaimSlot

\* A kernel starts with groups that know nothing.
LEMMA LaunchKeeps ==
  ASSUME IInv, UNCHANGED <<input, keys, mapping>>, phase' \in {"neighbors", "retrieve"},
         NEW group, Launch(group), group \subseteq DOMAIN neighbors
  PROVE  IInv'
<1>1. Grows
  BY DEF Grows, input
<1>2. Nodes' = neighbors
  BY DEF Nodes, input
<1>3. \A i \in pending' : try'[i] = 0 /\ seen'[i] = << >>
  BY DEF Launch
<1>4. TypeInv'
  BY <1>1, <1>2, <1>3, SameProbes DEF IInv, TypeInv, Launch, Grows, input
<1>5. LeftBehind'
  BY <1>3 DEF LeftBehind
<1>6. SeenStays'
  BY <1>3 DEF SeenStays
<1>7. Placed'
  BY <1>1, PlaceStays, SameProbes DEF Placed, Grows, Lane
<1>8. QED
  BY <1>4, <1>5, <1>6, <1>7 DEF IInv

LEMMA Initially == Init => IInv
<1> SUFFICES ASSUME Init PROVE IInv
  OBVIOUS
<1>1. targets \in Seq(Key) /\ neighbors \in Seq(Key) /\ hash \in [Key -> Nat]
  BY InputAssumption DEF Init
<1>2. Nodes = targets /\ pending = DOMAIN targets
  BY DEF Init, Nodes
<1>3. DOMAIN mapping \subseteq DOMAIN neighbors
  BY DEF Init
<1>4. \A i \in pending : try[i] = 0 /\ seen[i] = << >>
  BY DEF Init
<1>5. TypeInv
  BY <1>1, <1>2, <1>3, <1>4 DEF TypeInv, Init
<1>6. \A b \in Bucket, l \in Lane : keys[<<b, l>>] = Empty
  BY DEF Init, Slot
<1>7. LeftBehind /\ SeenStays /\ Placed
  BY <1>4, <1>6 DEF LeftBehind, SeenStays, Placed
<1>8. QED
  BY <1>5, <1>7 DEF IInv

LEMMA StepsKeep == IInv /\ [Next]_vars => IInv'
<1> SUFFICES ASSUME IInv, [Next]_vars PROVE IInv'
  OBVIOUS
<1>1. ASSUME NEW i \in pending, Run(i) PROVE IInv'
  <2>1. ASSUME NEW l \in Lane, LoadKey(i, l) PROVE IInv'
    BY <2>1, LoadKeyKeeps
  <2>2. ASSUME NEW l \in Lane, ClaimSlot(i, l) PROVE IInv'
    BY <2>2, ClaimSlotKeeps
  <2>3. CASE NextBucket(i)
    BY <2>3, NextBucketKeeps
  <2>4. CASE FindKey(i) \/ StoreValue(i) \/ RetrieveValue(i)
    <3>1. Reads /\ UNCHANGED <<try, seen>>
      BY <2>4 DEF FindKey, StoreValue, RetrieveValue, Reads, Nodes, input, table
    <3>2. QED
      BY <3>1, NothingReadKeeps
  <2>5. QED
    BY <1>1, <2>1, <2>2, <2>3, <2>4 DEF Run
<1>2. CASE InsertNeighbors
  BY <1>2, LaunchKeeps DEF InsertNeighbors, input, table
<1>3. CASE AssignValues
  <2>1. DOMAIN mapping \subseteq DOMAIN neighbors
    BY DEF IInv, TypeInv
  <2>2. QED
    BY <1>3, <2>1, LaunchKeeps DEF AssignValues, input
<1>4. CASE Finish \/ Finished \/ UNCHANGED vars
  <2>1. Reads /\ UNCHANGED <<try, seen>>
    BY <1>4 DEF Finish, Finished, vars, Reads, Nodes, input, table, groups
  <2>2. QED
    BY <2>1, NothingReadKeeps
<1>5. QED
  BY <1>1, <1>2, <1>3, <1>4 DEF Next, Kernels

\* Two slots with the same key: the one that comes later in the probe sequence of
\* the key, or the later lane of one bucket, excludes the other.
LEMMA PlacedOnce == IInv => KeysDistinct
<1> SUFFICES ASSUME IInv, NEW b \in Bucket, NEW l \in Lane, NEW c \in Bucket, NEW m \in Lane,
                    keys[<<b, l>>] = keys[<<c, m>>], keys[<<b, l>>] # Empty
             PROVE  <<b, l>> = <<c, m>>
  BY DEF KeysDistinct, Slot
<1>1. PICK k \in Key : k = keys[<<b, l>>]
  BY DEF IInv, TypeInv, Slot
<1>2. PICK t \in Nat : PlacedAt(k, b, l, t)
  BY <1>1 DEF IInv, Placed
<1>3. PICK u \in Nat : PlacedAt(k, c, m, u)
  BY <1>1 DEF IInv, Placed
<1>4. ~ (u < t)
  BY <1>1, <1>2, <1>3 DEF PlacedAt, Excluded
<1>5. ~ (t < u)
  BY <1>1, <1>2, <1>3 DEF PlacedAt, Excluded
<1>6. t = u /\ b = c
  BY <1>2, <1>3, <1>4, <1>5 DEF PlacedAt
<1>7. ~ (m < l) /\ ~ (l < m)
  BY <1>1, <1>2, <1>3, <1>6 DEF PlacedAt
<1>8. QED
  BY <1>6, <1>7, SizesAssumption DEF Lane

\* AppendUnique: for every list of targets and neighbors, every hash function and
\* every order of the groups, no key is ever in two slots of the hash table.
THEOREM OneSlotPerKey == Spec => []KeysDistinct
<1>1. IInv /\ [Next]_vars => IInv'
  BY StepsKeep
<1>2. QED
  BY <1>1, Initially, PlacedOnce, PTL DEF Spec

-----------------------------------------------------------------------------
\* The order in which slots get their numbers.
Earlier(U, s) == {t \in U : Before(t, s)}

LEMMA SlotsOrdered ==
  ASSUME NEW s \in Slot, NEW t \in Slot, s # t
  PROVE  /\ Before(s, t) \/ Before(t, s)
         /\ ~ Before(s, s)
         /\ \A u \in Slot : Before(u, s) /\ Before(s, t) => Before(u, t)
<1>1. \A u \in Slot : u[1] \in Int /\ u[2] \in Int /\ u = <<u[1], u[2]>>
  BY SizesAssumption DEF Slot, Bucket, Lane
<1>2. QED
  BY <1>1 DEF Before

LEMMA SlotsFinite ==
  ASSUME targets \in Seq(Key), neighbors \in Seq(Key)
  PROVE  IsFiniteSet(Slot)
<1>1. BucketCount - 1 \in Int /\ BucketSize - 1 \in Int
  BY BucketsExist, SizesAssumption
<1>2. IsFiniteSet(Bucket) /\ IsFiniteSet(Lane)
  BY <1>1, FS_Interval DEF Bucket, Lane
<1>3. QED
  BY <1>2, FS_Product DEF Slot

\* The slots of a set that come before a slot of it: there are fewer of them than in
\* the set, and more of them the later the slot.
LEMMA EarlierGrow ==
  ASSUME NEW U \in SUBSET Slot, IsFiniteSet(U), NEW s \in U
  PROVE  /\ Cardinality(Earlier(U, s)) \in 0 .. Cardinality(U) - 1
         /\ \A t \in U : Before(s, t) =>
              Cardinality(Earlier(U, s)) < Cardinality(Earlier(U, t))
<1>1. ASSUME NEW V \in SUBSET U, NEW W \in SUBSET V, s \in V, s \notin W
      PROVE  /\ Cardinality(W) \in Nat /\ Cardinality(V) \in Nat
             /\ Cardinality(W) < Cardinality(V)
  <2>1. IsFiniteSet(V)
    BY FS_Subset
  <2>2. IsFiniteSet(W) /\ Cardinality(W) <= Cardinality(V) /\ Cardinality(V) # Cardinality(W)
    BY <1>1, <2>1, FS_Subset
  <2>3. Cardinality(W) \in Nat /\ Cardinality(V) \in Nat
    BY <2>1, <2>2, FS_CardinalityType
  <2>4. QED
    BY <2>2, <2>3
<1>2. Earlier(U, s) \in SUBSET U /\ s \notin Earlier(U, s)
  BY DEF Earlier, Before, Slot, Bucket, Lane
<1>3. Cardinality(Earlier(U, s)) \in 0 .. Cardinality(U) - 1
  BY <1>1, <1>2
<1>4. ASSUME NEW t \in U, Before(s, t)
      PROVE  Cardinality(Earlier(U, s)) < Cardinality(Earlier(U, t))
  <2>1. s # t
    BY <1>2, <1>4 DEF Earlier
  <2>2. s \in Slot /\ t \in Slot
    OBVIOUS
  <2>3. \A u \in Slot : Before(u, s) => Before(u, t)
    BY <1>4, <2>1, <2>2, SlotsOrdered
  <2>4. Earlier(U, s) \in SUBSET Earlier(U, t) /\ s \in Earlier(U, t)
    BY <1>4, <2>3 DEF Earlier
  <2>5. Earlier(U, t) \in SUBSET U
    BY DEF Earlier
  <2>6. QED
    BY <1>1, <1>2, <2>4, <2>5
<1>5. QED
  BY <1>3, <1>4

\* So every number is the number of one slot.
LEMMA NumbersTaken ==
  ASSUME NEW U \in SUBSET Slot, IsFiniteSet(U)
  PROVE  /\ \A s, t \in U : Cardinality(Earlier(U, s)) = Cardinality(Earlier(U, t)) => s = t
         /\ \A m \in 0 .. Cardinality(U) - 1 : \E s \in U : Cardinality(Earlier(U, s)) = m
<1> DEFINE f == [s \in U |-> Cardinality(Earlier(U, s))]
           N == 0 .. Cardinality(U) - 1
<1>1. ASSUME NEW s \in U, NEW t \in U, Cardinality(Earlier(U, s)) = Cardinality(Earlier(U, t))
      PROVE  s = t
  <2>1. SUFFICES ASSUME s # t PROVE FALSE
    OBVIOUS
  <2>2. Before(s, t) \/ Before(t, s)
    BY <2>1, SlotsOrdered
  <2>3. Cardinality(Earlier(U, s)) \in Int /\ Cardinality(Earlier(U, t)) \in Int
    BY EarlierGrow
  <2>4. QED
    BY <1>1, <2>2, <2>3, EarlierGrow
<1>2. \A s \in U : Cardinality(Earlier(U, s)) \in N
  BY EarlierGrow
<1>3. Cardinality(U) \in Nat
  BY FS_CardinalityType
<1>4. IsFiniteSet(N) /\ Cardinality(N) = Cardinality(U)
  BY <1>3, FS_Interval, SMTT(30)
<1>5. f \in Injection(U, N)
  BY <1>1, <1>2 DEF Injection, IsInjective
<1>6. f \in Surjection(U, N)
  <2> HIDE DEF f, N
  <2>1. QED
    BY <1>4, <1>5, FS_Injection
<1>7. \A m \in N : \E s \in U : f[s] = m
  BY <1>6 DEF Surjection
<1>8. QED
  BY <1>1, <1>7

-----------------------------------------------------------------------------
\* The neighbors to append.
Added == {neighbors[i] : i \in DOMAIN neighbors} \ {targets[i] : i \in DOMAIN targets}

ValueTypes ==
  value_id \in [Slot -> Int] /\ pending \subseteq DOMAIN slot

\* A group is at a slot only if its key is there.
GroupSlots == \A i \in pending : slot[i] # NoSlot => slot[i] \in Slot /\ keys[slot[i]] = Nodes[i]

\* While keys are inserted, a slot has no number, that of a target with its key, or,
\* if its key is to be appended, the mark that it needs one.
SlotValues ==
  phase \in {"targets", "neighbors"} =>
    \A s \in Slot :
      \/ value_id[s] = Unassigned
      \/ \E i \in DOMAIN targets : value_id[s] = i - 1 /\ keys[s] = targets[i]
      \/ phase = "neighbors" /\ value_id[s] = NeedsValue /\ keys[s] \in Added

\* The groups that have ended have left a number, or a mark.
TargetsNumbered ==
  phase \in {"targets", "neighbors"} =>
    \A i \in DOMAIN targets :
      \/ phase = "targets" /\ i \in pending
      \/ \E s \in Slot : keys[s] = targets[i] /\ value_id[s] \in Nat

NeighborsMarked ==
  phase = "neighbors" =>
    \A i \in DOMAIN neighbors \ pending :
      \E s \in Slot : keys[s] = neighbors[i] /\ value_id[s] # Unassigned

\* The list is right, and the number of a neighbor is in the slot with its key.
ListRight ==
  /\ DOMAIN output = 0 .. (Len(targets) + Cardinality(Added)) - 1
  /\ \A i \in DOMAIN targets : output[i - 1] = targets[i]
  /\ {output[n] : n \in Len(targets) .. (Len(targets) + Cardinality(Added)) - 1} = Added

NeighborsListed ==
  \A i \in DOMAIN neighbors :
    \E s \in Slot : keys[s] = neighbors[i] /\ output[value_id[s]] = neighbors[i]

NeighborsMapped ==
  /\ \A i \in DOMAIN mapping \ pending : output[mapping[i]] = neighbors[i]
  /\ phase = "done" => pending = {}

Listed == phase \in {"retrieve", "done"} => ListRight /\ NeighborsListed /\ NeighborsMapped

PhaseTypes == phase \in {"targets", "neighbors", "retrieve", "done"}

Values ==
  ValueTypes /\ PhaseTypes /\ GroupSlots /\ SlotValues /\ TargetsNumbered /\ NeighborsMarked /\ Listed

-----------------------------------------------------------------------------
Marked == {s \in Slot : value_id[s] = NeedsValue}

\* The slots that are marked when the neighbors have been inserted are the slots of
\* the neighbors to append.
LEMMA MarkedSlots ==
  ASSUME IInv, Values, phase = "neighbors", pending = {}, NEW U, U = Marked
  PROVE  /\ \A s \in U : keys[s] \in Added
         /\ \A a \in Added : \E s \in U : keys[s] = a
         /\ \A s \in Slot \ U :
              \/ value_id[s] = Unassigned
              \/ \E i \in DOMAIN targets : value_id[s] = i - 1 /\ keys[s] = targets[i]
         /\ IsFiniteSet(U) /\ IsFiniteSet(Slot)
         /\ Cardinality(U) \in Nat /\ Cardinality(Added) = Cardinality(U)
<1> USE DEF Marked
<1>1. targets \in Seq(Key) /\ neighbors \in Seq(Key)
  BY DEF IInv, TypeInv
<1>2. \A i \in DOMAIN targets : i - 1 >= 0
  BY <1>1
<1>3. ASSUME NEW s \in U PROVE keys[s] \in Added
  <2>1. s \in Slot /\ value_id[s] = NeedsValue
    OBVIOUS
  <2>2. value_id[s] # Unassigned /\ \A i \in DOMAIN targets : value_id[s] # i - 1
    BY <1>2, <2>1 DEF NeedsValue, Unassigned
  <2>3. QED
    BY <2>1, <2>2 DEF Values, SlotValues
<1>4. ASSUME NEW a \in Added PROVE \E s \in U : keys[s] = a
  <2>1. PICK i \in DOMAIN neighbors : a = neighbors[i]
    BY DEF Added
  <2>2. PICK s \in Slot : keys[s] = a /\ value_id[s] # Unassigned
    BY <2>1 DEF Values, NeighborsMarked
  <2>3. \A j \in DOMAIN targets : keys[s] # targets[j]
    BY <2>2 DEF Added
  <2>4. value_id[s] = NeedsValue
    BY <2>2, <2>3 DEF Values, SlotValues
  <2>5. QED
    BY <2>2, <2>4
<1>5. ASSUME NEW s \in Slot \ U
      PROVE  \/ value_id[s] = Unassigned
             \/ \E i \in DOMAIN targets : value_id[s] = i - 1 /\ keys[s] = targets[i]
  BY DEF Values, SlotValues
<1>6. IsFiniteSet(Slot)
  BY <1>1, SlotsFinite
<1>7. IsFiniteSet(U)
  <2>1. U \in SUBSET Slot
    OBVIOUS
  <2>2. QED
    BY <1>6, <2>1, FS_Subset
<1>8. Cardinality(U) \in Nat
  BY <1>7, FS_CardinalityType
<1>9. Cardinality(Added) = Cardinality(U)
  <2> DEFINE g == [s \in U |-> keys[s]]
  <2>1. \A s \in U : keys[s] # Empty
    BY <1>3, <1>1, KeyAssumption DEF Added, Empty
  <2>2. \A s, t \in U : keys[s] = keys[t] => s = t
    BY <2>1, PlacedOnce DEF KeysDistinct
  <2>3. g \in Injection(U, Added)
    BY <1>3, <2>2 DEF Injection, IsInjective
  <2>4. g \in Surjection(U, Added)
    BY <1>3, <1>4 DEF Surjection
  <2> HIDE DEF g
  <2>5. QED
    BY <1>7, <2>3, <2>4, FS_Surjection
<1>10. QED
  BY <1>3, <1>4, <1>5, <1>6, <1>7, <1>8, <1>9

\* A step that lists n targets, then the keys of m slots, which get the next numbers.
Numbered(U, n, m) ==
  /\ DOMAIN output' = 0 .. n + m - 1
  /\ \A s \in U : value_id'[s] \in n .. n + m - 1 /\ output'[value_id'[s]] = keys[s]
  /\ \A j \in n .. n + m - 1 : \E s \in U : output'[j] = keys[s]
  /\ \A s \in Slot \ U : value_id'[s] = value_id[s]
  /\ \A i \in DOMAIN targets : i - 1 \in 0 .. n - 1 /\ output'[i - 1] = targets[i]

\* They get the numbers that follow those of the targets, each one of its own.
LEMMA MarkedNumbered ==
  ASSUME IInv, Values, AssignValues
  PROVE  \E n \in Nat, m \in Nat, U \in SUBSET Slot :
           n = Len(targets) /\ U = Marked /\ m = Cardinality(Added) /\ Numbered(U, n, m)
<1>0. PICK U, n, m : U = Marked /\ n = Len(targets) /\ m = Cardinality(U)
  OBVIOUS
<1>1. phase = "neighbors" /\ pending = {} /\ targets \in Seq(Key) /\ n \in Nat
  BY <1>0 DEF AssignValues, IInv, TypeInv
<1>2. /\ IsFiniteSet(U) /\ m \in Nat /\ U \in SUBSET Slot
      /\ \A s \in Slot \ U : value_id[s] < n
  <2>1. IsFiniteSet(U) /\ m \in Nat /\ U \in SUBSET Slot
    BY <1>0, <1>1, MarkedSlots DEF Marked
  <2>2. ASSUME NEW s \in Slot \ U PROVE value_id[s] < n
    <3>1. \/ value_id[s] = Unassigned
          \/ \E i \in DOMAIN targets : value_id[s] = i - 1
      BY <1>0, <1>1, MarkedSlots
    <3>2. QED
      BY <1>0, <1>1, <3>1 DEF Unassigned
  <2>3. QED
    BY <2>1, <2>2
<1>3. value_id' = Assigned
  BY DEF AssignValues
<1>4. UniqueCount = m
  BY <1>0 DEF UniqueCount, Marked
<1>5. ASSUME NEW s \in U PROVE Assigned[s] = n + Cardinality(Earlier(U, s))
  <2>1. {t \in Slot : value_id[t] = NeedsValue /\ Before(t, s)} = Earlier(U, s)
    BY <1>0 DEF Earlier, Marked
  <2>2. s \in Slot /\ value_id[s] = NeedsValue
    BY <1>0 DEF Marked
  <2>3. QED
    BY <1>0, <2>1, <2>2, Zenon DEF Assigned
<1>6. ASSUME NEW s \in Slot \ U PROVE Assigned[s] = value_id[s]
  BY <1>0 DEF Assigned, Marked
<1>7. output' = [j \in 0 .. n + m - 1 |->
                   IF j < n THEN targets[j + 1] ELSE keys[CHOOSE s \in Slot : Assigned[s] = j]]
  BY <1>0, <1>4 DEF AssignValues
<1>8. \A s \in U : Cardinality(Earlier(U, s)) \in 0 .. m - 1
  BY <1>0, <1>2, EarlierGrow
<1>9. ASSUME NEW s \in U PROVE Assigned[s] \in n .. n + m - 1 /\ output'[Assigned[s]] = keys[s]
  <2>1. PICK c \in 0 .. m - 1 : c = Cardinality(Earlier(U, s))
    BY <1>8
  <2>2. PICK j \in n .. n + m - 1 : j = Assigned[s]
    <3>1. Assigned[s] = n + c
      BY <1>5, <2>1
    <3>2. n + c \in n .. n + m - 1
      BY <1>1, <1>2
    <3>3. QED
      BY <3>1, <3>2
  <2>3. ASSUME NEW t \in Slot, Assigned[t] = j PROVE t = s
    <3>1. t \in U
      BY <1>1, <1>2, <1>6, <2>2, <2>3
    <3>2. PICK d \in 0 .. m - 1 : d = Cardinality(Earlier(U, t))
      BY <1>8, <3>1
    <3>3. d = c
      <4>1. j = n + c /\ j = n + d
        BY <1>5, <2>1, <2>2, <2>3, <3>1, <3>2
      <4>2. QED
        BY <1>1, <1>2, <4>1
    <3>4. \A x, y \in U : Cardinality(Earlier(U, x)) = Cardinality(Earlier(U, y)) => x = y
      BY <1>0, <1>2, NumbersTaken
    <3>5. QED
      BY <2>1, <3>1, <3>2, <3>3, <3>4
  <2>4. (CHOOSE t \in Slot : Assigned[t] = j) = s
    BY <2>2, <2>3
  <2>5. output'[j] = keys[CHOOSE t \in Slot : Assigned[t] = j]
    BY <1>1, <1>2, <1>7
  <2>6. QED
    BY <2>2, <2>4, <2>5
<1>10. ASSUME NEW j \in n .. n + m - 1 PROVE \E s \in U : output'[j] = keys[s]
  <2>1. PICK c \in 0 .. m - 1 : j = n + c
    <3>1. j - n \in 0 .. m - 1 /\ j = n + (j - n)
      BY <1>1, <1>2
    <3>2. QED
      BY <3>1
  <2>2. PICK s \in U : Cardinality(Earlier(U, s)) = c
    BY <1>0, <1>2, NumbersTaken
  <2>3. Assigned[s] = j
    BY <1>5, <2>1, <2>2
  <2>4. QED
    BY <1>9, <2>3
<1>11. ASSUME NEW i \in DOMAIN targets
       PROVE  i - 1 \in 0 .. n - 1 /\ output'[i - 1] = targets[i]
  BY <1>0, <1>1, <1>2, <1>7
<1>12. DOMAIN output' = 0 .. n + m - 1
  BY <1>7
<1>13. m = Cardinality(Added)
  BY <1>0, <1>1, MarkedSlots
<1>14. \A s \in U : value_id'[s] \in n .. n + m - 1 /\ output'[value_id'[s]] = keys[s]
  BY <1>3, <1>9
<1>15. \A s \in Slot \ U : value_id'[s] = value_id[s]
  BY <1>3, <1>6
<1>16. QED
  <2>1. n \in Nat /\ m \in Nat /\ U \in SUBSET Slot
    BY <1>1, <1>2
  <2>2. Numbered(U, n, m)
    BY <1>10, <1>11, <1>12, <1>14, <1>15 DEF Numbered
  <2>3. QED
    BY <1>0, <1>13, <2>1, <2>2

LEMMA AssignListed ==
  ASSUME IInv, Values, AssignValues
  PROVE  Values'
<1>1. phase = "neighbors" /\ pending = {} /\ targets \in Seq(Key) /\ neighbors \in Seq(Key)
  BY DEF AssignValues, IInv, TypeInv
<1>2. /\ phase' = "retrieve" /\ targets' = targets /\ neighbors' = neighbors /\ keys' = keys
      /\ mapping' = mapping /\ pending' = DOMAIN mapping /\ Slot' = Slot /\ Added' = Added
  BY SameProbes DEF AssignValues, Launch, input, Added
<1>3. PICK n \in Nat, m \in Nat, U \in SUBSET Slot :
        n = Len(targets) /\ U = Marked /\ m = Cardinality(Added) /\ Numbered(U, n, m)
  BY MarkedNumbered
<1>4. /\ \A s \in U : keys[s] \in Added
      /\ \A a \in Added : \E s \in U : keys[s] = a
      /\ \A s \in Slot \ U :
           \/ value_id[s] = Unassigned
           \/ \E i \in DOMAIN targets : value_id[s] = i - 1 /\ keys[s] = targets[i]
  BY <1>1, <1>3, MarkedSlots
<1>5. ListRight'
  <2>1. {output'[j] : j \in n .. n + m - 1} = Added
    BY <1>3, <1>4 DEF Numbered
  <2>2. DOMAIN output' = 0 .. n + m - 1 /\ \A i \in DOMAIN targets : output'[i - 1] = targets[i]
    BY <1>3 DEF Numbered
  <2>3. Len(targets)' = n /\ Cardinality(Added)' = m
    BY <1>2, <1>3
  <2>4. QED
    BY <1>2, <2>1, <2>2, <2>3 DEF ListRight
<1>6. NeighborsListed'
  <2>1. SUFFICES ASSUME NEW i \in DOMAIN neighbors
                 PROVE  \E s \in Slot : keys[s] = neighbors[i] /\ output'[value_id'[s]] = neighbors[i]
    BY <1>2 DEF NeighborsListed
  <2>2. PICK s \in Slot : keys[s] = neighbors[i] /\ value_id[s] # Unassigned
    BY <1>1 DEF Values, NeighborsMarked
  <2>3. CASE s \in U
    BY <1>3, <2>2, <2>3 DEF Numbered
  <2>4. CASE s \notin U
    BY <1>3, <1>4, <2>2, <2>4 DEF Numbered
  <2>5. QED
    BY <2>3, <2>4
<1>7. NeighborsMapped'
  BY <1>2 DEF NeighborsMapped
<1>8. ValueTypes'
  <2>1. value_id' = Assigned
    BY DEF AssignValues
  <2>2. \A s \in Slot : Assigned[s] \in Int
    <3>1. \A s \in U : Assigned[s] \in Int
      BY <1>3, <2>1 DEF Numbered
    <3>2. \A s \in Slot \ U : Assigned[s] \in Int
      BY <1>3, <2>1 DEF Values, ValueTypes, Numbered
    <3>3. QED
      BY <3>1, <3>2
  <2>3. Assigned = [s \in Slot |-> Assigned[s]]
    BY DEF Assigned
  <2>4. Assigned \in [Slot -> Int]
    BY <2>2, <2>3
  <2>5. pending' \subseteq DOMAIN slot'
    BY DEF AssignValues, Launch
  <2>6. QED
    BY <1>2, <2>1, <2>4, <2>5 DEF ValueTypes
<1>9. GroupSlots'
  BY DEF GroupSlots, AssignValues, Launch
<1>10. (PhaseTypes /\ SlotValues /\ TargetsNumbered /\ NeighborsMarked)'
  BY <1>2 DEF PhaseTypes, SlotValues, TargetsNumbered, NeighborsMarked
<1>11. QED
  BY <1>5, <1>6, <1>7, <1>8, <1>9, <1>10 DEF Values, Listed

-----------------------------------------------------------------------------
\* Steps of groups that do not end: at most a key is put into an empty slot.
Searching ==
  /\ Grows /\ Nodes' = Nodes
  /\ UNCHANGED <<phase, pending, value_id, output, mapping>>
  /\ DOMAIN slot' = DOMAIN slot
  /\ \A i \in pending : \/ slot'[i] = slot[i]
                        \/ slot'[i] \in Slot /\ keys'[slot'[i]] = Nodes[i]

LEMMA SearchingKeeps ==
  ASSUME IInv, Values, Searching
  PROVE  Values'
<1>1. /\ targets' = targets /\ neighbors' = neighbors /\ Slot' = Slot /\ Added' = Added
      /\ UNCHANGED <<phase, pending, value_id, output, mapping>>
  BY SameProbes DEF Searching, Grows, input, Added
<1>2. \A s \in Slot : keys[s] # Empty => keys'[s] = keys[s]
  BY DEF Searching, Grows, Slot
<1>3. /\ \A i \in DOMAIN targets : targets[i] # Empty
      /\ \A i \in DOMAIN neighbors : neighbors[i] # Empty
      /\ \A i \in pending : Nodes[i] # Empty
      /\ \A a \in Added : a # Empty
  BY KeyAssumption DEF IInv, TypeInv, Added, Nodes, Empty
<1>4. (ValueTypes /\ PhaseTypes)'
  BY <1>1 DEF Values, ValueTypes, PhaseTypes, Searching
<1>5. GroupSlots'
  BY <1>1, <1>2, <1>3 DEF Values, GroupSlots, Searching
<1>6. SlotValues'
  BY <1>1, <1>2, <1>3 DEF Values, SlotValues
<1>7. TargetsNumbered'
  BY <1>1, <1>2, <1>3 DEF Values, TargetsNumbered
<1>8. NeighborsMarked'
  BY <1>1, <1>2, <1>3 DEF Values, NeighborsMarked
<1>9. Listed'
  BY <1>1, <1>2, <1>3 DEF Values, Listed, ListRight, NeighborsListed, NeighborsMapped
<1>10. QED
  BY <1>4, <1>5, <1>6, <1>7, <1>8, <1>9 DEF Values

LEMMA SearchSteps ==
  ASSUME IInv, Values, NEW i \in pending, NEW l \in Lane,
         LoadKey(i, l) \/ ClaimSlot(i, l) \/ FindKey(i) \/ NextBucket(i)
  PROVE  Searching
<1>1. /\ UNCHANGED <<input, phase, pending, value_id, output, mapping>> /\ Nodes' = Nodes
  BY DEF LoadKey, ClaimSlot, FindKey, NextBucket, Nodes, input, table
<1>2. CurrentBucket(i) \in Bucket /\ Nodes[i] \in Key /\ i \in DOMAIN slot
  BY ProbesHit DEF IInv, TypeInv, Nodes, CurrentBucket, Values, ValueTypes
<1>3. CASE LoadKey(i, l) \/ NextBucket(i)
  <2>1. UNCHANGED <<keys, slot>>
    BY <1>3 DEF LoadKey, NextBucket, table
  <2>2. QED
    BY <1>1, <2>1 DEF Searching, Grows
<1>4. CASE FindKey(i)
  <2>1. PICK m \in Lane : seen[i][m] = Nodes[i] /\ slot' = [slot EXCEPT ![i] = <<CurrentBucket(i), m>>]
    BY <1>4 DEF FindKey
  <2>2. m \in DOMAIN seen[i] /\ UNCHANGED keys
    BY <1>4 DEF FindKey, table
  <2>3. Nodes[i] # Empty
    BY <1>2, KeyAssumption DEF Empty
  <2>4. keys[<<CurrentBucket(i), m>>] = Nodes[i]
    BY <2>1, <2>2, <2>3 DEF IInv, SeenStays
  <2>5. <<CurrentBucket(i), m>> \in Slot
    BY <1>2 DEF Slot
  <2>6. QED
    BY <1>1, <1>2, <2>1, <2>2, <2>4, <2>5 DEF Searching, Grows
<1>5. CASE ClaimSlot(i, l)
  <2>1. PICK s \in Slot : s = <<CurrentBucket(i), l>>
    BY <1>2 DEF Slot
  <2>2. \/ keys[s] = Empty /\ keys' = [keys EXCEPT ![s] = Nodes[i]] /\ slot' = [slot EXCEPT ![i] = s]
        \/ keys[s] = Nodes[i] /\ slot' = [slot EXCEPT ![i] = s] /\ UNCHANGED keys
        \/ UNCHANGED <<keys, slot>>
    BY <1>5, <2>1 DEF ClaimSlot
  <2>3. Grows
    BY <1>1, <2>1, <2>2 DEF Grows, IInv, TypeInv, Slot
  <2>4. keys'[s] = Nodes[i] \/ UNCHANGED slot
    BY <2>2 DEF IInv, TypeInv
  <2>5. DOMAIN slot' = DOMAIN slot
    BY <2>2
  <2>6. ASSUME NEW j \in pending
        PROVE  slot'[j] = slot[j] \/ (slot'[j] \in Slot /\ keys'[slot'[j]] = Nodes[j])
    <3>1. slot'[j] = slot[j] \/ (j = i /\ slot'[j] = s)
      BY <1>2, <2>2 DEF Values, ValueTypes
    <3>2. QED
      BY <2>4, <3>1
  <2>7. QED
    BY <1>1, <2>3, <2>5, <2>6 DEF Searching
<1>6. QED
  BY <1>3, <1>4, <1>5

-----------------------------------------------------------------------------
\* The slot where a group that ends is.
LEMMA GroupAtSlot ==
  ASSUME IInv, Values, NEW i \in pending, slot[i] # NoSlot
  PROVE  /\ slot[i] \in Slot /\ keys[slot[i]] = Nodes[i] /\ Nodes[i] \in Key
         /\ keys[slot[i]] # Empty /\ i \in DOMAIN Nodes
BY KeyAssumption DEF IInv, TypeInv, Values, GroupSlots, Nodes, Empty

LEMMA StoreTargetKeeps ==
  ASSUME IInv, Values, NEW i \in pending, StoreValue(i), phase = "targets"
  PROVE  Values'
<1>1. PICK s \in Slot : s = slot[i] /\ keys[s] = targets[i] /\ i \in DOMAIN targets
  BY GroupAtSlot DEF StoreValue, Nodes
<1>2. /\ value_id' = [value_id EXCEPT ![s] = i - 1]
      /\ pending' = pending \ {i} /\ Nodes' = Nodes /\ Slot' = Slot
      /\ UNCHANGED <<targets, neighbors, phase, keys, slot, output, mapping>>
  BY <1>1, SameProbes DEF StoreValue, Nodes, input
<1>3. i - 1 \in Nat
  BY <1>1 DEF IInv, TypeInv
<1>4. \A t \in Slot : value_id'[t] = IF t = s THEN i - 1 ELSE value_id[t]
  BY <1>2 DEF Values, ValueTypes
<1>5. (ValueTypes /\ PhaseTypes)'
  BY <1>2, <1>3 DEF Values, ValueTypes, PhaseTypes
<1>6. GroupSlots'
  BY <1>2 DEF Values, GroupSlots
<1>7. SlotValues'
  <2>1. SUFFICES ASSUME NEW t \in Slot
                 PROVE  \/ value_id'[t] = Unassigned
                        \/ \E j \in DOMAIN targets : value_id'[t] = j - 1 /\ keys[t] = targets[j]
    BY <1>2 DEF SlotValues
  <2>2. CASE t = s
    BY <1>1, <1>4, <2>2
  <2>3. CASE t # s
    BY <1>4, <2>3 DEF Values, SlotValues
  <2>4. QED
    BY <2>2, <2>3
<1>8. TargetsNumbered'
  <2>1. SUFFICES ASSUME NEW j \in DOMAIN targets, j \notin pending'
                 PROVE  \E t \in Slot : keys[t] = targets[j] /\ value_id'[t] \in Nat
    BY <1>2 DEF TargetsNumbered
  <2>2. CASE j = i
    BY <1>1, <1>3, <1>4, <2>2
  <2>3. CASE j # i
    <3>1. PICK t \in Slot : keys[t] = targets[j] /\ value_id[t] \in Nat
      BY <1>2, <2>1, <2>3 DEF Values, TargetsNumbered
    <3>2. QED
      BY <1>3, <1>4, <3>1
  <2>4. QED
    BY <2>2, <2>3
<1>9. (NeighborsMarked /\ Listed)'
  BY <1>2 DEF NeighborsMarked, Listed
<1>10. QED
  BY <1>5, <1>6, <1>7, <1>8, <1>9 DEF Values

LEMMA StoreNeighborKeeps ==
  ASSUME IInv, Values, NEW i \in pending, StoreValue(i), phase = "neighbors"
  PROVE  Values'
<1>1. PICK s \in Slot : /\ s = slot[i] /\ keys[s] = neighbors[i] /\ i \in DOMAIN neighbors
                        /\ keys[s] # Empty
  BY GroupAtSlot DEF StoreValue, Nodes
<1>2. /\ value_id' = [value_id EXCEPT ![s] = IF @ = Unassigned THEN NeedsValue ELSE @]
      /\ pending' = pending \ {i} /\ Nodes' = Nodes /\ Slot' = Slot /\ Added' = Added
      /\ UNCHANGED <<targets, neighbors, phase, keys, slot, output, mapping>>
  BY <1>1, SameProbes DEF StoreValue, Nodes, input, Added
<1>3. \A t \in Slot :
        value_id'[t] = IF t = s /\ value_id[t] = Unassigned THEN NeedsValue ELSE value_id[t]
  BY <1>2 DEF Values, ValueTypes
<1>4. (ValueTypes /\ PhaseTypes)'
  BY <1>2 DEF Values, ValueTypes, PhaseTypes, NeedsValue
<1>5. GroupSlots'
  BY <1>2 DEF Values, GroupSlots
<1>6. SlotValues'
  <2>1. SUFFICES ASSUME NEW t \in Slot
                 PROVE  \/ value_id'[t] = Unassigned
                        \/ \E j \in DOMAIN targets : value_id'[t] = j - 1 /\ keys[t] = targets[j]
                        \/ value_id'[t] = NeedsValue /\ keys[t] \in Added
    BY <1>2 DEF SlotValues
  <2>2. CASE t = s /\ value_id[t] = Unassigned
    <3>1. ASSUME NEW j \in DOMAIN targets PROVE keys[s] # targets[j]
      <4>1. PICK u \in Slot : keys[u] = targets[j] /\ value_id[u] \in Nat
        BY DEF Values, TargetsNumbered
      <4>2. u # s
        BY <2>2, <4>1 DEF Unassigned
      <4>3. QED
        BY <1>1, <4>1, <4>2, PlacedOnce DEF KeysDistinct
    <3>2. keys[s] \in Added
      BY <1>1, <3>1 DEF Added
    <3>3. QED
      BY <1>3, <2>2, <3>2
  <2>3. CASE ~ (t = s /\ value_id[t] = Unassigned)
    BY <1>3, <2>3 DEF Values, SlotValues
  <2>4. QED
    BY <2>2, <2>3
<1>7. TargetsNumbered'
  <2>1. SUFFICES ASSUME NEW j \in DOMAIN targets
                 PROVE  \E t \in Slot : keys[t] = targets[j] /\ value_id'[t] \in Nat
    BY <1>2 DEF TargetsNumbered
  <2>2. PICK t \in Slot : keys[t] = targets[j] /\ value_id[t] \in Nat
    BY DEF Values, TargetsNumbered
  <2>3. value_id'[t] = value_id[t]
    BY <1>3, <2>2 DEF Unassigned
  <2>4. QED
    BY <2>2, <2>3
<1>8. NeighborsMarked'
  <2>1. SUFFICES ASSUME NEW j \in DOMAIN neighbors \ pending'
                 PROVE  \E t \in Slot : keys[t] = neighbors[j] /\ value_id'[t] # Unassigned
    BY <1>2 DEF NeighborsMarked
  <2>2. \A t \in Slot : (value_id[t] # Unassigned \/ t = s) => value_id'[t] # Unassigned
    BY <1>3 DEF Unassigned, NeedsValue
  <2>3. CASE j = i
    BY <1>1, <2>2, <2>3
  <2>4. CASE j # i
    BY <1>2, <2>2, <2>4 DEF Values, NeighborsMarked
  <2>5. QED
    BY <2>3, <2>4
<1>9. Listed'
  BY <1>2 DEF Listed
<1>10. QED
  BY <1>4, <1>5, <1>6, <1>7, <1>8, <1>9 DEF Values

LEMMA RetrieveKeeps ==
  ASSUME IInv, Values, NEW i \in pending, RetrieveValue(i)
  PROVE  Values'
<1>1. phase = "retrieve" /\ slot[i] # NoSlot
  BY DEF RetrieveValue
<1>2. PICK s \in Slot : /\ s = slot[i] /\ keys[s] = neighbors[i] /\ i \in DOMAIN neighbors
                        /\ keys[s] # Empty
  BY <1>1, GroupAtSlot DEF Nodes
<1>3. /\ mapping' = [mapping EXCEPT ![i] = value_id[s]]
      /\ pending' = pending \ {i} /\ Nodes' = Nodes /\ Slot' = Slot /\ Added' = Added
      /\ UNCHANGED <<targets, neighbors, phase, keys, value_id, slot, output>>
  BY <1>2, SameProbes DEF RetrieveValue, Nodes, input, table, Added
<1>4. output[value_id[s]] = neighbors[i]
  <2>1. PICK t \in Slot : keys[t] = neighbors[i] /\ output[value_id[t]] = neighbors[i]
    BY <1>1, <1>2 DEF Values, Listed, NeighborsListed
  <2>2. t = s
    BY <1>2, <2>1, PlacedOnce DEF KeysDistinct
  <2>3. QED
    BY <2>1, <2>2
<1>5. (ValueTypes /\ PhaseTypes /\ GroupSlots)'
  BY <1>3 DEF Values, ValueTypes, PhaseTypes, GroupSlots
<1>6. (SlotValues /\ TargetsNumbered /\ NeighborsMarked)'
  BY <1>1, <1>3 DEF SlotValues, TargetsNumbered, NeighborsMarked
<1>7. ListRight' /\ NeighborsListed'
  BY <1>1, <1>3 DEF Values, Listed, ListRight, NeighborsListed
<1>8. NeighborsMapped'
  <2>1. \A j \in DOMAIN mapping' \ pending' :
          mapping'[j] = IF j = i THEN value_id[s] ELSE mapping[j]
    BY <1>3
  <2>2. \A j \in DOMAIN mapping \ pending : output[mapping[j]] = neighbors[j]
    BY <1>1 DEF Values, Listed, NeighborsMapped
  <2>3. DOMAIN mapping' = DOMAIN mapping
    BY <1>3
  <2>4. \A j \in DOMAIN mapping' \ pending' : output[mapping'[j]] = neighbors[j]
    BY <1>3, <1>4, <2>1, <2>2, <2>3
  <2>5. QED
    BY <1>1, <1>3, <2>4 DEF NeighborsMapped
<1>9. QED
  BY <1>5, <1>6, <1>7, <1>8 DEF Values, Listed

LEMMA InsertKeeps ==
  ASSUME IInv, Values, InsertNeighbors
  PROVE  Values'
<1>1. /\ phase = "targets" /\ pending = {} /\ phase' = "neighbors" /\ Slot' = Slot
      /\ UNCHANGED <<targets, neighbors, keys, value_id, output, mapping>>
      /\ pending' = DOMAIN neighbors /\ DOMAIN slot' = DOMAIN neighbors
      /\ \A i \in pending' : slot'[i] = NoSlot
  BY SameProbes DEF InsertNeighbors, Launch, input, table
<1>2. (ValueTypes /\ PhaseTypes /\ GroupSlots)'
  BY <1>1 DEF Values, ValueTypes, PhaseTypes, GroupSlots
<1>3. SlotValues'
  BY <1>1 DEF Values, SlotValues
<1>4. TargetsNumbered'
  BY <1>1 DEF Values, TargetsNumbered
<1>5. (NeighborsMarked /\ Listed)'
  BY <1>1 DEF NeighborsMarked, Listed
<1>6. QED
  BY <1>2, <1>3, <1>4, <1>5 DEF Values

LEMMA EndKeeps ==
  ASSUME IInv, Values, Finish \/ UNCHANGED vars
  PROVE  Values'
<1>1. CASE Finish
  <2>1. /\ phase = "retrieve" /\ phase' = "done" /\ pending = {}
        /\ Slot' = Slot /\ Added' = Added
        /\ UNCHANGED <<targets, neighbors, keys, value_id, slot, pending, output, mapping>>
    BY <1>1, SameProbes DEF Finish, input, table, groups, Added
  <2>2. (ValueTypes /\ PhaseTypes /\ GroupSlots)'
    BY <2>1 DEF Values, ValueTypes, PhaseTypes, GroupSlots
  <2>3. (SlotValues /\ TargetsNumbered /\ NeighborsMarked)'
    BY <2>1 DEF SlotValues, TargetsNumbered, NeighborsMarked
  <2>4. Listed'
    BY <2>1 DEF Values, Listed, ListRight, NeighborsListed, NeighborsMapped
  <2>5. QED
    BY <2>2, <2>3, <2>4 DEF Values
<1>2. CASE UNCHANGED vars
  <2>1. /\ UNCHANGED <<input, keys, slot, phase, pending, value_id, output, mapping>>
        /\ Nodes' = Nodes
    BY <1>2 DEF vars, input, Nodes
  <2>2. Searching
    BY <2>1 DEF Searching, Grows
  <2>3. QED
    BY <2>2, SearchingKeeps
<1>3. QED
  BY <1>1, <1>2

LEMMA InitValues == ASSUME Init PROVE Values
<1>1. \A s \in Slot : value_id[s] = Unassigned
  BY DEF Init
<1>2. ValueTypes
  BY DEF Init, ValueTypes, Unassigned
<1>3. QED
  BY <1>1, <1>2 DEF Init, Values, PhaseTypes, GroupSlots, SlotValues, TargetsNumbered,
     NeighborsMarked, Listed

LEMMA ValuesKeep == ASSUME IInv, Values, [Next]_vars PROVE Values'
<1>1. ASSUME NEW i \in pending, Run(i) PROVE Values'
  <2>1. ASSUME NEW l \in Lane, LoadKey(i, l) \/ ClaimSlot(i, l) PROVE Values'
    BY <2>1, SearchSteps, SearchingKeeps
  <2>2. CASE FindKey(i) \/ NextBucket(i)
    <3>1. 0 \in Lane
      BY SizesAssumption DEF Lane
    <3>2. QED
      BY <2>2, <3>1, SearchSteps, SearchingKeeps
  <2>3. CASE StoreValue(i)
    <3>1. phase = "targets" \/ phase = "neighbors"
      BY <2>3 DEF StoreValue
    <3>2. QED
      BY <2>3, <3>1, StoreTargetKeeps, StoreNeighborKeeps
  <2>4. CASE RetrieveValue(i)
    BY <2>4, RetrieveKeeps
  <2>5. QED
    BY <1>1, <2>1, <2>2, <2>3, <2>4 DEF Run
<1>2. CASE InsertNeighbors
  BY <1>2, InsertKeeps
<1>3. CASE AssignValues
  BY <1>3, AssignListed
<1>4. CASE Finish \/ Finished \/ UNCHANGED vars
  BY <1>4, EndKeeps DEF Finished
<1>5. QED
  BY <1>1, <1>2, <1>3, <1>4 DEF Next, Kernels

\* graph_append_unique_func returns the targets and then every other neighbor once,
\* and maps each neighbor to its place, for all lists of nodes, with duplicates in
\* both, all hash functions, and all orders of the groups and their plain loads.
THEOREM ListIsUnique == Spec => []AppendsUnique
<1>1. Init => IInv /\ Values
  BY Initially, InitValues
<1>2. IInv /\ Values /\ [Next]_vars => IInv' /\ Values'
  BY StepsKeep, ValuesKeep
<1>3. IInv /\ Values => AppendsUnique
  <2>1. SUFFICES ASSUME Values, phase \in {"retrieve", "done"} PROVE AppendsUnique
    BY DEF AppendsUnique
  <2>2. ListRight /\ NeighborsMapped
    BY <2>1 DEF Values, Listed
  <2>3. phase = "done" => \A i \in DOMAIN mapping : output[mapping[i]] = neighbors[i]
    BY <2>2 DEF NeighborsMapped
  <2>4. QED
    BY ONLY <2>2, <2>3, Zenon DEF AppendsUnique, ListRight, Added
<1>4. QED
  BY <1>1, <1>2, <1>3, PTL DEF Spec
=============================================================================
