------------------------------ MODULE CacheSet ------------------------------
(***************************************************************************)
(* One cache set of an embedding cache: kCacheSetSize lines that hold      *)
(* copies of some of the entries of a range of the raw embedding, with a   *)
(* write-back policy and least-frequently-used replacement.                *)
(*                                                                         *)
(* The kernels that work on a set run one after the other on the stream of *)
(* the rank that owns it.  UpdateCacheDirectKernel and                     *)
(* WriteBackCacheDirectKernel use one warp per set and are one step here;  *)
(* the optimizer kernels use one block per entry, and the blocks of a set  *)
(* interleave.                                                             *)
(***************************************************************************)
EXTENDS Integers, FiniteSetsExt

CONSTANTS
  Coverage,     \* cache_set_coverage: entries a set is responsible for
  Lines,        \* kCacheSetSize: lines of a set
  Value,        \* what an embedding vector can hold
  CounterBits,  \* kScaledCounterBits: bits of a line's scaled counter
  MaxInc,       \* a batch names one entry at most this often
  MaxCount      \* bound on the access counters (in the guard of UpdateCache)

ASSUME SizeAssumption    == Coverage \in Nat \ {0} /\ Lines \in Nat \ {0}
ASSUME CounterAssumption == CounterBits \in Nat \ {0} /\ MaxInc \in Nat /\ MaxCount \in Nat

Id   == 0 .. Coverage - 1   \* local ids of the entries
Line == 0 .. Lines - 1
NoId   == -1                \* LocalID() of an invalid line
NoLine == -1                \* KeyIndexSync() of an entry that is not cached

VARIABLES
  mem,     \* mem[i]: the entry in the raw embedding
  data,    \* data[l]: cache_line_data of line l
  tag,     \* tag[l]: the entry line l holds and its modified bit
  count,   \* count[i]: access_count of entry i, kept in memory
  lfu,     \* lfu[l]: the scaled counter of line l
  scale,   \* the scale of the set, one bit in each line's lfu word
  block    \* block[i]: the optimizer block of entry i: idle, launched, or with
           \*   the tags it loaded

storage  == <<mem, data, tag, block>>
counters == <<count, lfu, scale>>
vars     == <<mem, data, tag, block, count, lfu, scale>>

-----------------------------------------------------------------------------
\* The tag word of a line: local id (NoId when the valid bit is off), modified.
Tag   == [id : Id \cup {NoId}, modified : BOOLEAN]
Empty == [id |-> NoId, modified |-> FALSE]

Idle     == [phase |-> "idle"]
Launched == [phase |-> "launched"]
Loaded   == [phase : {"loaded"}, tags : [Line -> Tag]]

\* The line that holds entry i according to the tags t.
KeyIndex(t, i) ==
  LET hits == {l \in Line : t[l].id = i}
  IN  IF hits = {} THEN NoLine ELSE CHOOSE l \in hits : \A m \in hits : l <= m

\* Mutant of SetLocalID: a line that keeps its entry is marked clean.
SetLocalIDClean(t, i) ==
  IF i = NoId THEN Empty ELSE [id |-> i, modified |-> FALSE]

\* A line is given a new entry or keeps the one it has; a new one is clean.
SetLocalID(t, i) ==
  IF i = NoId THEN Empty
  ELSE [id |-> i, modified |-> t.modified /\ t.id = i]

SetModified(t)   == [id |-> t.id, modified |-> TRUE]
ClearModified(t) == [id |-> t.id, modified |-> FALSE]

\* What a gather reads for entry i: the cached copy if there is one.
Read(i) ==
  LET l == KeyIndex(tag, i) IN IF l = NoLine THEN mem[i] ELSE data[l]

Cached == {tag[l].id : l \in Line} \ {NoId}

\* No block of an optimizer kernel is running.
Quiet == \A i \in Id : block[i] = Idle

-----------------------------------------------------------------------------
\* 1 << n.
Pow2[n \in Nat] == IF n = 0 THEN 1 ELSE 2 * Pow2[n - 1]

\* Mutant of Estimate: rounded down.
EstimateDown(l) == lfu[l] * Pow2[scale]

\* The access counts of the cached entries are not read from memory but
\* estimated from the line's scaled counter, rounded up.
Estimate(l) == lfu[l] * Pow2[scale] + Pow2[scale] - 1

\* The smallest right shift that fits n into CounterBits bits.
ScaleFor(n) ==
  CHOOSE s \in 0 .. n : /\ n \div Pow2[s] < Pow2[CounterBits]
                        /\ \A t \in 0 .. s - 1 : n \div Pow2[t] >= Pow2[CounterBits]

\* Mutant of Weight: an entry that is cached competes with its old estimate.
WeightStale(i, inc) ==
  LET l == KeyIndex(tag, i)
  IN  IF l # NoLine THEN Estimate(l) ELSE count[i] + inc[i]

\* The count by which entry i competes when the entries DOMAIN inc are updated.
Weight(i, inc) ==
  IF i \in DOMAIN inc THEN count[i] + inc[i] ELSE Estimate(KeyIndex(tag, i))

\* The entries to be cached from now on: those with the largest weights among
\* the updated and the cached ones; ties are broken by the sorting network.
TopSets(inc) ==
  LET candidates == DOMAIN inc \cup Cached
      size == Min({Lines, Cardinality(candidates)})
  IN  {top \in kSubset(size, candidates) :
         \A i \in top, j \in candidates \ top : Weight(i, inc) >= Weight(j, inc)}

\* Where they go: a line whose entry stays keeps it, the first of the other
\* lines take the new entries, and the lines that are left over are emptied.
Placements(top) ==
  {at \in [Line -> top \cup {NoId}] :
     /\ \A l \in Line : tag[l].id \in top => at[l] = tag[l].id
     /\ \A i \in top : \E l \in Line : at[l] = i
     /\ \A l, m \in Line : at[l] = at[m] /\ at[l] # NoId => l = m
     /\ \A l, m \in Line :
          tag[l].id \notin top /\ tag[m].id \notin top /\ l < m /\ at[l] = NoId
            => at[m] = NoId}

\* The lines whose entry leaves the cache and was modified.
Evicted(top) ==
  {l \in Line : tag[l].id # NoId /\ tag[l].id \notin top /\ tag[l].modified}

\* The raw embedding after the lines of a set of lines have been copied to it.
WrittenBack(lines) ==
  [i \in Id |-> IF \E l \in lines : tag[l].id = i
                THEN data[CHOOSE l \in lines : tag[l].id = i]
                ELSE mem[i]]

\* UpdateCacheDirectKernel on this set, for a batch that names the entries
\* DOMAIN inc, entry i inc[i] times: count, choose, write back what leaves, load
\* what enters, store tags and counters.
UpdateCache(inc) ==
  /\ Quiet
  /\ \A i \in DOMAIN inc : count[i] + inc[i] <= MaxCount
  /\ \E top \in TopSets(inc) : \E at \in Placements(top) :
       LET raw == WrittenBack(Evicted(top))
           weight(l) == IF at[l] = NoId THEN 0 ELSE Weight(at[l], inc)
           shift == Max({ScaleFor(weight(l)) : l \in Line})
       IN  /\ mem'   = raw
           /\ data'  = [l \in Line |-> IF at[l] \in {NoId, tag[l].id}
                                       THEN data[l] ELSE raw[at[l]]]
           /\ tag'   = [l \in Line |-> SetLocalID(tag[l], at[l])]
           /\ lfu'   = [l \in Line |-> weight(l) \div Pow2[shift]]
           /\ scale' = shift
  /\ count' = [i \in Id |-> IF i \in DOMAIN inc THEN count[i] + inc[i] ELSE count[i]]
  /\ UNCHANGED block

\* An optimizer kernel is launched with one block for each of the entries; the
\* gradients of an entry have been summed, so no entry is named twice.
LaunchStep(entries) ==
  /\ Quiet
  /\ block' = [i \in Id |-> IF i \in entries THEN Launched ELSE Idle]
  /\ UNCHANGED <<mem, data, tag, count, lfu, scale>>

\* The block of entry i reads the tags of the set.
LoadTags(i) ==
  /\ block[i] = Launched
  /\ block' = [block EXCEPT ![i] = [phase |-> "loaded", tags |-> tag]]
  /\ UNCHANGED <<mem, data, tag, count, lfu, scale>>

\* Mutant of StepEntry: every lane stores the tag it loaded.
StepEntryAllTags(i, v) ==
  /\ block[i] \in Loaded
  /\ LET l == KeyIndex(block[i].tags, i)
     IN  IF l = NoLine
         THEN /\ mem' = [mem EXCEPT ![i] = v]
              /\ UNCHANGED <<data, tag>>
         ELSE /\ tag'  = [block[i].tags EXCEPT ![l] = SetModified(@)]
              /\ data' = [data EXCEPT ![l] = v]
              /\ UNCHANGED mem
  /\ block' = [block EXCEPT ![i] = Idle]
  /\ UNCHANGED <<count, lfu, scale>>

\* It writes the new embedding where it found the entry.  Only the lane of the
\* entry's line stores its tag: the other lines may have changed meanwhile.
StepEntry(i, v) ==
  /\ block[i] \in Loaded
  /\ LET l == KeyIndex(block[i].tags, i)
     IN  IF l = NoLine
         THEN /\ mem' = [mem EXCEPT ![i] = v]
              /\ UNCHANGED <<data, tag>>
         ELSE /\ tag'  = [tag EXCEPT ![l] = SetModified(block[i].tags[l])]
              /\ data' = [data EXCEPT ![l] = v]
              /\ UNCHANGED mem
  /\ block' = [block EXCEPT ![i] = Idle]
  /\ UNCHANGED <<count, lfu, scale>>

\* Mutant of WriteBack: lines are copied only when the cache is dropped.
WriteBackOnDropOnly(dropAll) ==
  /\ Quiet
  /\ mem' = IF dropAll THEN WrittenBack({l \in Line : tag[l].id # NoId /\ tag[l].modified})
            ELSE mem
  /\ tag' = [l \in Line |-> IF dropAll THEN Empty ELSE ClearModified(tag[l])]
  /\ UNCHANGED <<data, block, count, lfu, scale>>

\* WriteBackCacheDirectKernel: modified lines are copied to the raw embedding;
\* all lines are emptied when the cache is dropped, else marked clean.
WriteBack(dropAll) ==
  /\ Quiet
  /\ mem' = WrittenBack({l \in Line : tag[l].id # NoId /\ tag[l].modified})
  /\ tag' = [l \in Line |-> IF dropAll THEN Empty ELSE ClearModified(tag[l])]
  /\ UNCHANGED <<data, block, count, lfu, scale>>

\* The batches of a run: any entries, each named up to MaxInc times.
Batch == UNION {[entries -> 1 .. MaxInc] : entries \in (SUBSET Id) \ {{}}}

Init ==
  /\ mem   \in [Id -> Value]
  /\ data  \in [Line -> Value]
  /\ tag   = [l \in Line |-> Empty]
  /\ count = [i \in Id |-> 0]
  /\ lfu   = [l \in Line |-> 0]
  /\ scale = 0
  /\ block = [i \in Id |-> Idle]

Next ==
  \/ \E inc \in Batch : UpdateCache(inc)
  \/ \E entries \in (SUBSET Id) \ {{}} : LaunchStep(entries)
  \/ \E i \in Id : LoadTags(i)
  \/ \E i \in Id, v \in Value : StepEntry(i, v)
  \/ \E dropAll \in BOOLEAN : WriteBack(dropAll)

Spec == Init /\ [][Next]_vars

-----------------------------------------------------------------------------
StorageTypeOK ==
  /\ mem   \in [Id -> Value]
  /\ data  \in [Line -> Value]
  /\ tag   \in [Line -> Tag]
  /\ block \in [Id -> {Idle, Launched} \cup Loaded]

TypeOK ==
  /\ StorageTypeOK
  /\ count \in [Id -> 0 .. MaxCount]
  /\ lfu   \in [Line -> 0 .. Pow2[CounterBits] - 1]
  /\ scale \in 0 .. MaxCount

\* An entry is in one line at most, and a line that is not marked modified has
\* what the raw embedding has: dropping it (UpdateCacheDirectKernel evicts clean
\* lines without writing them) loses nothing, whatever blocks of an optimizer
\* kernel are between loading and storing their tags.
Coherent ==
  \A l \in Line : tag[l].id # NoId =>
    /\ \A m \in Line : tag[m].id = tag[l].id => m = l
    /\ ~ tag[l].modified => data[l] = mem[tag[l].id]

\* The entries whose blocks of the optimizer kernel have still to write.
Due == {i \in Id : block[i] # Idle}

\* The embedding seen through the cache is a plain table that only the blocks of
\* the running optimizer kernel change, each its own entry and once: neither an
\* update of the cache, with its evictions, nor a write-back nor a drop changes
\* what a gather returns for any entry.
Table == INSTANCE EmbeddingTable
           WITH Key <- Id, table <- [i \in Id |-> Read(i)], due <- Due

ImplementsTable == Table!TableSpec

\* After writeback_embedding_cache or drop_embedding_cache the raw embedding by
\* itself holds every entry: what is then stored to a file is the trained table.
WriteBackSettles ==
  [][\A dropAll \in BOOLEAN :
       WriteBack(dropAll) => mem' = [i \in Id |-> Read(i)]]_vars

\* The scaled counter of a line is never below the number of accesses of its
\* entry and exceeds it by less than one unit of the scale, however often the
\* set has been rescaled since the entry was last counted.
EstimateTight ==
  \A l \in Line : tag[l].id # NoId =>
    /\ count[tag[l].id] <= Estimate(l)
    /\ Estimate(l) < count[tag[l].id] + Pow2[scale]

\* LFU: no update of the set prefers an entry to one that was accessed more
\* often, up to one unit of the scale.
KeepsHottest ==
  [][LET updated == {i \in Id : count'[i] # count[i]}
     IN  updated # {} =>
           \A i \in Cached', j \in (updated \cup Cached) \ Cached' :
             count'[j] < count'[i] + Pow2[scale']]_vars
=============================================================================
