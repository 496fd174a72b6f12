----------------------------- MODULE AppendUnique -----------------------------
(***************************************************************************)
(* graph_append_unique_func: the list of the target nodes, followed by the *)
(* neighbor nodes that are not targets, each once, and for every neighbor  *)
(* its place in the list.                                                  *)
(*                                                                         *)
(* The keys are inserted into a hash table of buckets by groups of         *)
(* threads, one group for each key and in it one lane for each slot of a   *)
(* bucket.  The groups of a kernel run concurrently; the only atomic       *)
(* operation on a slot is compare-and-swap.                                *)
(***************************************************************************)
EXTENDS Integers, FiniteSets, Sequences

CONSTANTS
  BucketSize,        \* slots of a bucket, lanes of a group
  AssignBucketSize,  \* kAssignBucketSize: the number of slots is rounded up to it
  Key,               \* the node ids
  Inputs             \* records of targets, neighbors and hash, which maps keys to
                     \* their 32 bit hash value

Empty       == -1  \* kInvalidKey
Unassigned  == -1  \* kInvalidValueID
NeedsValue  == -2  \* kNeedAssignValueID
NoSlot      == <<-1, -1>>

ASSUME SizesAssumption == BucketSize \in Nat \ {0} /\ AssignBucketSize \in Nat \ {0}
ASSUME KeyAssumption   == Key \subseteq Nat
ASSUME InputAssumption ==
  \A given \in Inputs : /\ given.targets \in Seq(Key) /\ given.neighbors \in Seq(Key)
                        /\ given.hash \in [Key -> Nat]

VARIABLES
  targets, neighbors, hash,
  phase,     \* the kernel that runs: "targets", "neighbors", "retrieve"; or "done"
  keys,      \* keys[s]: the key in slot s, a bucket and a lane
  value_id,  \* value_id[s]: the number of that key
  try,       \* try[i]: the buckets that group i has left, modulo their number
  seen,      \* seen[i]: what lanes of group i have found in its bucket
  slot,      \* slot[i]: where group i has found its key
  pending,   \* the groups of the kernel that have not ended
  output,    \* output[n]: the node of number n
  mapping    \* mapping[i]: the number of the i-th neighbor; empty if the caller has
             \* given no buffer for it

input == <<targets, neighbors, hash>>
table == <<keys, value_id>>
groups == <<try, seen, slot, pending>>
vars == <<targets, neighbors, hash, phase, keys, value_id, try, seen, slot, pending,
          output, mapping>>

-----------------------------------------------------------------------------
RoundUp(n, d) == ((n + d - 1) \div d) * d

BucketCount ==
  (RoundUp(2 * (Len(targets) + Len(neighbors)), AssignBucketSize) + BucketSize - 1)
     \div BucketSize + 1

Bucket == 0 .. BucketCount - 1
Lane   == 0 .. BucketSize - 1
Slot   == Bucket \X Lane

\* The keys that the kernel inserts or retrieves, one for each group.
Nodes == IF phase = "targets" THEN targets ELSE neighbors

\* Mutant of BucketId: a conflict leads to the same bucket again.
BucketIdSame(k, t) == hash[k] % BucketCount

\* bucket_id_on_conflict: quadratic probing.
BucketId(k, t) == (hash[k] + t * t) % BucketCount

CurrentBucket(i) == BucketId(Nodes[i], try[i])

Searches(i) == i \in pending /\ slot[i] = NoSlot

-----------------------------------------------------------------------------
\* Slot s was empty when the kernel started.
EmptyAtLaunch(s) == phase = "targets" \/ (phase = "neighbors" /\ value_id[s] < 0)

\* A lane reads its slot of the bucket with a plain load, which may miss what an
\* atomic operation of the same kernel has put there.
LoadKey(i, l) ==
  /\ Searches(i) /\ l \notin DOMAIN seen[i]
  /\ LET s == <<CurrentBucket(i), l>>
     IN  \E k \in {keys[s]} \cup {e \in {Empty} : EmptyAtLaunch(s)} :
           seen' = [seen EXCEPT ![i] = [m \in DOMAIN seen[i] \cup {l} |->
                      IF m = l THEN k ELSE seen[i][m]]]
  /\ UNCHANGED <<input, phase, table, try, slot, pending, output, mapping>>

\* All lanes have read, and none has found the key.
Missed(i) == Searches(i) /\ DOMAIN seen[i] = Lane /\ \A l \in Lane : seen[i][l] # Nodes[i]

\* A lane has found the key.
FindKey(i) ==
  /\ Searches(i) /\ DOMAIN seen[i] = Lane
  /\ \E l \in Lane : /\ seen[i][l] = Nodes[i]
                     /\ \A m \in Lane : m < l => seen[i][m] # Nodes[i]
                     /\ slot' = [slot EXCEPT ![i] = <<CurrentBucket(i), l>>]
  /\ UNCHANGED <<input, phase, table, try, seen, pending, output, mapping>>

\* Mutant of ClaimSlot: the slot is written if it was empty when it was read.
ClaimSlotUnchecked(i, l) ==
  /\ Missed(i) /\ seen[i][l] = Empty /\ \A m \in Lane : m < l => seen[i][m] # Empty
  /\ keys' = [keys EXCEPT ![<<CurrentBucket(i), l>>] = Nodes[i]]
  /\ slot' = [slot EXCEPT ![i] = <<CurrentBucket(i), l>>]
  /\ UNCHANGED <<input, phase, value_id, try, seen, pending, output, mapping>>

\* The first lane whose slot was empty tries to put the key there.  It has the slot
\* if it is still empty or another group has put the same key there meanwhile.
ClaimSlot(i, l) ==
  /\ Missed(i) /\ seen[i][l] = Empty /\ \A m \in Lane : m < l => seen[i][m] # Empty
  /\ LET s == <<CurrentBucket(i), l>>
     IN  \/ /\ keys[s] = Empty
            /\ keys' = [keys EXCEPT ![s] = Nodes[i]]
            /\ slot' = [slot EXCEPT ![i] = s]
            /\ UNCHANGED seen
         \/ /\ keys[s] = Nodes[i]
            /\ slot' = [slot EXCEPT ![i] = s]
            /\ UNCHANGED <<keys, seen>>
         \/ /\ keys[s] \notin {Empty, Nodes[i]}
            /\ seen' = [seen EXCEPT ![i] = [m \in Lane |-> IF m = l THEN keys[s] ELSE seen[i][m]]]
            /\ UNCHANGED <<keys, slot>>
  /\ UNCHANGED <<input, phase, value_id, try, pending, output, mapping>>

\* The bucket is full of other keys.
NextBucket(i) ==
  /\ Missed(i) /\ \A l \in Lane : seen[i][l] # Empty
  /\ try'  = [try EXCEPT ![i] = (try[i] + 1) % BucketCount]
  /\ seen' = [seen EXCEPT ![i] = << >>]
  /\ UNCHANGED <<input, phase, table, slot, pending, output, mapping>>

\* Mutant of StoreValue: a neighbor marks the slot of a target too.
StoreValueAlways(i) ==
  /\ i \in pending /\ slot[i] # NoSlot /\ phase \in {"targets", "neighbors"}
  /\ value_id' = [value_id EXCEPT ![slot[i]] = IF phase = "targets" THEN i - 1 ELSE NeedsValue]
  /\ pending' = pending \ {i}
  /\ UNCHANGED <<input, phase, keys, try, seen, slot, output, mapping>>

\* insert_key: a target has its number; a neighbor needs one, unless the slot has
\* been marked or belongs to a target.
StoreValue(i) ==
  /\ i \in pending /\ slot[i] # NoSlot /\ phase \in {"targets", "neighbors"}
  /\ value_id' = [value_id EXCEPT ![slot[i]] =
                    IF phase = "targets" THEN i - 1
                    ELSE IF @ = Unassigned THEN NeedsValue ELSE @]
  /\ pending' = pending \ {i}
  /\ UNCHANGED <<input, phase, keys, try, seen, slot, output, mapping>>

\* RetrieveKeysKernel
RetrieveValue(i) ==
  /\ i \in pending /\ slot[i] # NoSlot /\ phase = "retrieve"
  /\ mapping' = [mapping EXCEPT ![i] = value_id[slot[i]]]
  /\ pending' = pending \ {i}
  /\ UNCHANGED <<input, phase, table, try, seen, slot, output>>

-----------------------------------------------------------------------------
\* A kernel starts with these groups, one for each key.
Launch(group) ==
  /\ try'     = [i \in group |-> 0]
  /\ seen'    = [i \in group |-> << >>]
  /\ slot'    = [i \in group |-> NoSlot]
  /\ pending' = group

InsertNeighbors ==
  /\ phase = "targets" /\ pending = {}
  /\ phase' = "neighbors"
  /\ Launch(DOMAIN neighbors)
  /\ UNCHANGED <<input, table, output, mapping>>

Before(s, t) == s[1] < t[1] \/ (s[1] = t[1] /\ s[2] < t[2])

\* The slots that need a number get one in their order, after the targets.
Assigned ==
  [s \in Slot |->
     IF value_id[s] # NeedsValue THEN value_id[s]
     ELSE Len(targets) + Cardinality({t \in Slot : value_id[t] = NeedsValue /\ Before(t, s)})]

UniqueCount == Cardinality({s \in Slot : value_id[s] = NeedsValue})

\* CountBucketKernel, the exclusive scan, AssignValueKernel and
\* ComputeOutputUniqueNeighborAndCountKernel
AssignValues ==
  /\ phase = "neighbors" /\ pending = {}
  /\ phase' = "retrieve"
  /\ value_id' = Assigned
  /\ output' = [n \in 0 .. Len(targets) + UniqueCount - 1 |->
                  IF n < Len(targets) THEN targets[n + 1]
                  ELSE keys[CHOOSE s \in Slot : Assigned[s] = n]]
  /\ Launch(DOMAIN mapping)
  /\ UNCHANGED <<input, keys, mapping>>

Finish ==
  /\ phase = "retrieve" /\ pending = {}
  /\ phase' = "done"
  /\ UNCHANGED <<input, table, groups, output, mapping>>

Finished == phase = "done" /\ UNCHANGED vars

Init ==
  /\ \E given \in Inputs :
       targets = given.targets /\ neighbors = given.neighbors /\ hash = given.hash
  /\ phase    = "targets"
  /\ keys     = [s \in Slot |-> Empty]
  /\ value_id = [s \in Slot |-> Unassigned]
  /\ try      = [i \in DOMAIN targets |-> 0]
  /\ seen     = [i \in DOMAIN targets |-> << >>]
  /\ slot     = [i \in DOMAIN targets |-> NoSlot]
  /\ pending  = DOMAIN targets
  /\ output   = << >>
  /\ mapping \in {<< >>, [i \in DOMAIN neighbors |-> Unassigned]}

Run(i) ==
  \/ \E l \in Lane : LoadKey(i, l) \/ ClaimSlot(i, l)
  \/ FindKey(i) \/ NextBucket(i) \/ StoreValue(i) \/ RetrieveValue(i)

Kernels == (\E i \in pending : Run(i)) \/ InsertNeighbors \/ AssignValues \/ Finish

Next == Kernels \/ Finished

Spec == Init /\ [][Next]_vars

\* The device runs some group as long as one can run.
FairSpec == Spec /\ WF_vars(Kernels)

-----------------------------------------------------------------------------
\* However the groups interleave, a key is in one slot only: groups that insert
\* the same key meet in the first slot of its probe sequence that is free.
KeysDistinct ==
  \A s, t \in Slot : keys[s] = keys[t] /\ keys[s] # Empty => s = t

\* The output is the targets, then the neighbors that are not among them in some
\* order, each once; and each neighbor is mapped to a place where it is.
AppendsUnique ==
  phase \in {"retrieve", "done"} =>
    LET nodes == {targets[i] : i \in DOMAIN targets}
        added == {neighbors[i] : i \in DOMAIN neighbors} \ nodes
        total == Len(targets) + Cardinality(added)
    IN  /\ DOMAIN output = 0 .. total - 1
        /\ \A i \in DOMAIN targets : output[i - 1] = targets[i]
        /\ {output[n] : n \in Len(targets) .. total - 1} = added
        /\ phase = "done" => \A i \in DOMAIN mapping : output[mapping[i]] = neighbors[i]

\* Every search ends, and with it the call.
CallEnds == <>(phase = "done")
=============================================================================
