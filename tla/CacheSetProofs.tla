--------------------------- MODULE CacheSetProofs ---------------------------
(***************************************************************************)
(* Proofs about a CacheSet, for any number of entries, lines and values.   *)
(*                                                                         *)
(* Contents: whatever the replacement prefers, the cache is transparent.   *)
(* The inductive invariant IInv adds to Coherent that the tags a block of  *)
(* an optimizer kernel has loaded name the entries the lines still hold:   *)
(* only modified bits change while such a kernel runs.                     *)
(*                                                                         *)
(* Counters: a line's estimate is less than one unit of the scale above    *)
(* the true count, and an update keeps the entries used most, up to that   *)
(* error.  A new estimate is rounded to units of the new scale, which are  *)
(* multiples of the old ones if the scale does not go down.  It does not,  *)
(* as long as the set holds anything: the scale is the least for which the *)
(* greatest count fits, so some counter has its highest bit set (HotLine), *)
(* and the lines of the greatest counts stay.  CInv adds this to IInv.     *)
(***************************************************************************)
EXTENDS CacheSet, NaturalLemmas

-----------------------------------------------------------------------------
SnapshotsCurrent ==
  \A i \in Id : block[i] \in Loaded =>
    \A l \in Line : block[i].tags[l].id = tag[l].id

IInv ==
  /\ StorageTypeOK
  /\ Coherent
  /\ SnapshotsCurrent

-----------------------------------------------------------------------------
\* The line that holds an entry is found, whatever the other lines hold.
LEMMA KeyIndexFound ==
  ASSUME NEW t \in [Line -> Tag], NEW i \in Id, NEW l \in Line, t[l].id = i,
         \A m \in Line : t[m].id = i => m = l
  PROVE  KeyIndex(t, i) = l
<1> DEFINE hits == {m \in Line : t[m].id = i}
<1>1. hits = {l}  OBVIOUS
<1>2. l <= l  BY DEF Line
<1>3. \A n : n \in hits /\ (\A m \in hits : n <= m) <=> n = l  BY <1>1, <1>2
<1>4. (CHOOSE n \in hits : \A m \in hits : n <= m) = l  BY <1>3
<1> QED  BY <1>1, <1>4 DEF KeyIndex

\* An entry no line holds is not found.
LEMMA KeyIndexAbsent ==
  ASSUME NEW t, NEW i, \A m \in Line : t[m].id # i
  PROVE  KeyIndex(t, i) = NoLine
BY DEF KeyIndex

LEMMA LineFacts == NoLine \notin Line /\ NoId \notin Id
BY DEF Line, Id, NoLine, NoId

\* A gather of a cached entry reads its line, of another one the raw embedding.
LEMMA ReadValue ==
  ASSUME StorageTypeOK, Coherent, NEW i \in Id
  PROVE  /\ \A l \in Line : tag[l].id = i => Read(i) = data[l]
         /\ (\A l \in Line : tag[l].id # i) => Read(i) = mem[i]
<1>1. ASSUME NEW l \in Line, tag[l].id = i
      PROVE  Read(i) = data[l]
  <2>1. \A m \in Line : tag[m].id = i => m = l
    BY <1>1, LineFacts DEF Coherent
  <2>2. KeyIndex(tag, i) = l  BY <1>1, <2>1, KeyIndexFound DEF StorageTypeOK
  <2> QED  BY <2>2, LineFacts DEF Read
<1>2. ASSUME \A l \in Line : tag[l].id # i
      PROVE  Read(i) = mem[i]
  BY <1>2, KeyIndexAbsent DEF Read
<1> QED  BY <1>1, <1>2

\* The same of the state after a step.
ReadsLines ==
  \A i \in Id : /\ \A l \in Line : tag[l].id = i => Read(i) = data[l]
                /\ (\A l \in Line : tag[l].id # i) => Read(i) = mem[i]

LEMMA ReadValueNext == (StorageTypeOK /\ Coherent)' => ReadsLines'
<1>1. StorageTypeOK /\ Coherent => ReadsLines  BY ReadValue DEF ReadsLines
<1> QED  BY <1>1, PTL

\* Copying lines to the raw embedding changes exactly the entries they hold.
LEMMA WrittenBackValue ==
  ASSUME StorageTypeOK, Coherent, NEW lines \in SUBSET Line
  PROVE  /\ WrittenBack(lines) \in [Id -> Value]
         /\ \A i \in Id :
              /\ \A l \in lines : tag[l].id = i => WrittenBack(lines)[i] = data[l]
              /\ (\A l \in lines : tag[l].id # i) => WrittenBack(lines)[i] = mem[i]
<1>1. ASSUME NEW i \in Id, NEW l \in lines, tag[l].id = i
      PROVE  /\ WrittenBack(lines)[i] = data[l]
             /\ data[l] \in Value
  <2>1. \A m \in lines : tag[m].id = i <=> m = l
    BY <1>1, LineFacts DEF Coherent
  <2>2. (CHOOSE m \in lines : tag[m].id = i) = l  BY <2>1
  <2> QED  BY <1>1, <2>2 DEF WrittenBack, StorageTypeOK
<1>2. ASSUME NEW i \in Id, \A l \in lines : tag[l].id # i
      PROVE  /\ WrittenBack(lines)[i] = mem[i]
             /\ mem[i] \in Value
  BY <1>2 DEF WrittenBack, StorageTypeOK
<1>3. WrittenBack(lines) = [i \in Id |-> WrittenBack(lines)[i]]
  BY DEF WrittenBack
<1>4. \A i \in Id : WrittenBack(lines)[i] \in Value  BY <1>1, <1>2
<1> QED  BY <1>1, <1>2, <1>3, <1>4

-----------------------------------------------------------------------------
LEMMA InitInv == Init => IInv
<1> SUFFICES ASSUME Init PROVE IInv  OBVIOUS
<1>1. \A l \in Line : tag[l] = Empty /\ Empty \in Tag
  BY DEF Init, Empty, Tag
<1>2. \A i \in Id : block[i] = Idle /\ Idle \notin Loaded
  BY DEF Init, Idle, Loaded
<1>3. StorageTypeOK  BY <1>1, <1>2 DEF Init, StorageTypeOK
<1>4. Coherent  BY <1>1 DEF Coherent, Empty
<1>5. SnapshotsCurrent  BY <1>2 DEF SnapshotsCurrent
<1> QED  BY <1>3, <1>4, <1>5 DEF IInv

\* When no block runs, no tags are loaded.
LEMMA QuietFacts ==
  ASSUME Quiet PROVE \A i \in Id : block[i] \notin Loaded
BY DEF Quiet, Idle, Loaded

\* What an update of the set does to the contents, and why nothing is lost.
LEMMA UpdateCacheInv ==
  ASSUME IInv, NEW inc \in Batch, UpdateCache(inc)
  PROVE  IInv' /\ \A i \in Id : Read(i)' = Read(i)
<1>0. PICK top \in TopSets(inc) : \E at \in Placements(top) :
        /\ mem'  = WrittenBack(Evicted(top))
        /\ data' = [l \in Line |-> IF at[l] \in {NoId, tag[l].id}
                                   THEN data[l] ELSE WrittenBack(Evicted(top))[at[l]]]
        /\ tag'  = [l \in Line |-> SetLocalID(tag[l], at[l])]
  BY DEF UpdateCache
<1>1. PICK at \in Placements(top) :
        /\ mem'  = WrittenBack(Evicted(top))
        /\ data' = [l \in Line |-> IF at[l] \in {NoId, tag[l].id}
                                   THEN data[l] ELSE WrittenBack(Evicted(top))[at[l]]]
        /\ tag'  = [l \in Line |-> SetLocalID(tag[l], at[l])]
  BY <1>0
<1>2. Quiet /\ block' = block  BY DEF UpdateCache
<1>3. top \in SUBSET Id
  <2>1. DOMAIN inc \subseteq Id  BY DEF Batch
  <2>2. \A l \in Line : tag[l] \in Tag  BY DEF IInv, StorageTypeOK
  <2>3. Cached \subseteq Id  BY <2>2 DEF Cached, Tag
  <2>4. top \in SUBSET (DOMAIN inc \cup Cached)  BY DEF TopSets, kSubset
  <2> QED  BY <2>1, <2>3, <2>4
<1>4. /\ at \in [Line -> top \cup {NoId}]
      /\ \A l \in Line : tag[l].id \in top => at[l] = tag[l].id
      /\ \A i \in top : \E l \in Line : at[l] = i
      /\ \A l, m \in Line : at[l] = at[m] /\ at[l] # NoId => l = m
  BY DEF Placements
<1> DEFINE E == Evicted(top)
           raw == WrittenBack(E)
<1>5. E \in SUBSET Line  BY DEF Evicted
<1>6. /\ raw \in [Id -> Value]
      /\ \A i \in Id :
           /\ \A l \in E : tag[l].id = i => raw[i] = data[l]
           /\ (\A l \in E : tag[l].id # i) => raw[i] = mem[i]
  BY <1>5, WrittenBackValue DEF IInv
<1>7. \A l \in Line : l \in E <=> tag[l].id # NoId /\ tag[l].id \notin top /\ tag[l].modified
  BY DEF Evicted
<1> HIDE DEF E
<1>8. \A l \in Line : /\ tag'[l] \in Tag
                      /\ tag'[l].id = at[l]
                      /\ at[l] # NoId => tag'[l].modified = (tag[l].modified /\ tag[l].id = at[l])
  <2> SUFFICES ASSUME NEW l \in Line
               PROVE  /\ tag'[l] \in Tag
                      /\ tag'[l].id = at[l]
                      /\ at[l] # NoId => tag'[l].modified = (tag[l].modified /\ tag[l].id = at[l])
    OBVIOUS
  <2>1. tag'[l] = SetLocalID(tag[l], at[l])  BY <1>1
  <2>2. tag[l] \in Tag  BY DEF IInv, StorageTypeOK
  <2>3. at[l] \in Id \cup {NoId}  BY <1>3, <1>4
  <2>4. CASE at[l] = NoId  BY <2>1, <2>4 DEF SetLocalID, Empty, Tag
  <2>5. CASE at[l] # NoId
    <3>1. (tag[l].modified /\ tag[l].id = at[l]) \in BOOLEAN  OBVIOUS
    <3>2. tag'[l] = [id |-> at[l], modified |-> tag[l].modified /\ tag[l].id = at[l]]
      BY <2>1, <2>5 DEF SetLocalID
    <3> QED  BY <3>1, <3>2, <2>3, <2>5 DEF Tag
  <2> QED  BY <2>4, <2>5
\* An entry that is placed on another line was on none before.
<1>9. \A l, m \in Line : at[l] # NoId /\ tag[m].id = at[l] => m = l
  BY <1>3, <1>4, LineFacts
<1>10. \A l \in Line : data'[l] = IF at[l] \in {NoId, tag[l].id} THEN data[l] ELSE raw[at[l]]
  BY <1>1 DEF E
<1>11. StorageTypeOK'
  <2>1. mem' \in [Id -> Value]  BY <1>1, <1>6 DEF E
  <2>2. \A l \in Line : data'[l] \in Value
    BY <1>3, <1>4, <1>6, <1>10 DEF IInv, StorageTypeOK
  <2>3. data' \in [Line -> Value]  BY <1>1, <2>2
  <2>4. tag' \in [Line -> Tag]  BY <1>1, <1>8
  <2> QED  BY <1>2, <2>1, <2>3, <2>4 DEF IInv, StorageTypeOK
<1>12. mem' = raw  BY <1>1 DEF E
<1>13. Coherent'
  <2> SUFFICES ASSUME NEW l \in Line, tag'[l].id # NoId
               PROVE  /\ \A m \in Line : tag'[m].id = tag'[l].id => m = l
                      /\ ~ tag'[l].modified => data'[l] = mem'[tag'[l].id]
    BY DEF Coherent
  <2>1. \A m \in Line : tag'[m].id = tag'[l].id => m = l  BY <1>4, <1>8
  <2>2. CASE at[l] = tag[l].id
    <3>1. data'[l] = data[l] /\ tag'[l].modified = tag[l].modified
      <4>1. tag[l].modified \in BOOLEAN  BY DEF IInv, StorageTypeOK, Tag
      <4> QED  BY <1>8, <1>10, <2>2, <4>1
    <3>2. at[l] \in top  BY <1>4, <1>8
    <3>3. \A m \in E : tag[m].id # at[l]  BY <1>5, <1>7, <3>2
    <3>4. raw[at[l]] = mem[at[l]]  BY <1>3, <1>6, <3>2, <3>3
    <3>5. ~ tag[l].modified => data[l] = mem[tag[l].id]
      BY <2>2, <1>8 DEF IInv, Coherent
    <3> QED  BY <1>8, <1>12, <2>1, <2>2, <3>1, <3>4, <3>5
  <2>3. CASE at[l] # tag[l].id
    <3>1. data'[l] = raw[at[l]]  BY <1>8, <1>10, <2>3
    <3> QED  BY <1>8, <1>12, <2>1, <3>1
  <2> QED  BY <2>2, <2>3
<1>14. SnapshotsCurrent'  BY <1>2, QuietFacts DEF SnapshotsCurrent
<1>15. ASSUME NEW i \in Id PROVE Read(i)' = Read(i)
  <2>1. /\ \A l \in Line : tag[l].id = i => Read(i) = data[l]
        /\ (\A l \in Line : tag[l].id # i) => Read(i) = mem[i]
    BY ReadValue DEF IInv
  <2>2. /\ \A l \in Line : tag'[l].id = i => Read(i)' = data'[l]
        /\ (\A l \in Line : tag'[l].id # i) => Read(i)' = mem'[i]
    BY <1>11, <1>13, ReadValueNext DEF ReadsLines
  <2>3. i # NoId  BY LineFacts
  <2>4. ASSUME NEW l \in Line, at[l] = i PROVE Read(i)' = Read(i)
    <3>1. Read(i)' = data'[l]  BY <2>2, <2>4, <1>8
    <3>2. CASE tag[l].id = i  BY <3>1, <3>2, <2>1, <2>4, <1>10
    <3>3. CASE tag[l].id # i
      <4>1. \A m \in Line : tag[m].id # i  BY <3>3, <2>3, <2>4, <1>9
      <4>2. data'[l] = raw[i]  BY <3>3, <2>3, <2>4, <1>10
      <4>3. raw[i] = mem[i]  BY <4>1, <1>5, <1>6
      <4> QED  BY <3>1, <4>1, <4>2, <4>3, <2>1
    <3> QED  BY <3>2, <3>3
  <2>5. ASSUME \A l \in Line : at[l] # i PROVE Read(i)' = Read(i)
    <3>1. Read(i)' = raw[i]  BY <2>2, <2>5, <1>8, <1>12
    <3>2. i \notin top  BY <2>5, <1>4
    <3>3. ASSUME NEW l \in Line, tag[l].id = i PROVE Read(i)' = Read(i)
      <4>1. Read(i) = data[l]  BY <2>1, <3>3
      <4>2. CASE tag[l].modified
        <5>1. l \in E  BY <4>2, <3>3, <3>2, <2>3, <1>7
        <5> QED  BY <5>1, <3>1, <3>3, <4>1, <1>6
      <4>3. CASE ~ tag[l].modified
        <5>1. \A m \in E : tag[m].id # i
          <6>1. \A m \in Line : tag[m].id = i => m = l
            BY <3>3, <2>3 DEF IInv, Coherent
          <6> QED  BY <6>1, <4>3, <1>5, <1>7
        <5>2. raw[i] = mem[i]  BY <5>1, <1>6
        <5>3. data[l] = mem[i]  BY <4>3, <3>3, <2>3 DEF IInv, Coherent
        <5> QED  BY <5>2, <5>3, <3>1, <4>1
      <4> QED  BY <4>2, <4>3
    <3>4. ASSUME \A l \in Line : tag[l].id # i PROVE Read(i)' = Read(i)
      BY <3>4, <3>1, <2>1, <1>5, <1>6
    <3> QED  BY <3>3, <3>4
  <2> QED  BY <2>4, <2>5
<1> QED  BY <1>11, <1>13, <1>14, <1>15 DEF IInv

\* An optimizer kernel that is launched or loads tags changes no contents.
LEMMA LaunchStepInv ==
  ASSUME IInv, NEW entries \in SUBSET Id, LaunchStep(entries)
  PROVE  IInv' /\ \A i \in Id : Read(i)' = Read(i)
<1>1. \A i \in Id : block'[i] \in {Idle, Launched} /\ block'[i] \notin Loaded
  BY DEF LaunchStep, Idle, Launched, Loaded
<1>2. StorageTypeOK'  BY <1>1 DEF IInv, StorageTypeOK, LaunchStep
<1>3. Coherent'  BY DEF IInv, Coherent, LaunchStep
<1>4. SnapshotsCurrent'  BY <1>1 DEF SnapshotsCurrent
<1>5. \A i \in Id : Read(i)' = Read(i)  BY DEF Read, LaunchStep
<1> QED  BY <1>2, <1>3, <1>4, <1>5 DEF IInv

LEMMA LoadTagsInv ==
  ASSUME IInv, NEW i \in Id, LoadTags(i)
  PROVE  IInv' /\ \A j \in Id : Read(j)' = Read(j)
<1>1. \A j \in Id : block'[j] = IF j = i THEN [phase |-> "loaded", tags |-> tag] ELSE block[j]
  BY DEF LoadTags, IInv, StorageTypeOK
<1>2. [phase |-> "loaded", tags |-> tag] \in Loaded
  BY DEF Loaded, IInv, StorageTypeOK
<1>3. StorageTypeOK'  BY <1>1, <1>2 DEF IInv, StorageTypeOK, LoadTags
<1>4. Coherent'  BY DEF IInv, Coherent, LoadTags
<1>5. SnapshotsCurrent'  BY <1>1 DEF IInv, SnapshotsCurrent, LoadTags
<1>6. \A j \in Id : Read(j)' = Read(j)  BY DEF Read, LoadTags
<1> QED  BY <1>3, <1>4, <1>5, <1>6 DEF IInv

\* A block writes its own entry, in the line it found or in the raw embedding,
\* and the tag it stores still names that entry.
LEMMA StepEntryInv ==
  ASSUME IInv, NEW i \in Id, NEW v \in Value, StepEntry(i, v)
  PROVE  /\ IInv'
         /\ Read(i)' = v
         /\ \A j \in Id \ {i} : Read(j)' = Read(j)
<1> DEFINE t == block[i].tags
<1>1. /\ t \in [Line -> Tag]
      /\ \A l \in Line : t[l].id = tag[l].id
      /\ tag \in [Line -> Tag] /\ data \in [Line -> Value] /\ mem \in [Id -> Value]
  BY DEF StepEntry, IInv, SnapshotsCurrent, StorageTypeOK, Loaded
<1>2. block' = [block EXCEPT ![i] = Idle]  BY DEF StepEntry
<1>3. \A j \in Id : block'[j] \in Loaded => block'[j] = block[j]
  BY <1>2 DEF IInv, StorageTypeOK, Idle, Loaded
<1>4. block' \in [Id -> {Idle, Launched} \cup Loaded]
  BY <1>2 DEF IInv, StorageTypeOK
<1>5. /\ \A j \in Id : \A l \in Line : tag[l].id = j => Read(j) = data[l]
      /\ \A j \in Id : (\A l \in Line : tag[l].id # j) => Read(j) = mem[j]
  BY ReadValue DEF IInv
<1>6. CASE \E l \in Line : tag[l].id = i
  <2>1. PICK l \in Line : tag[l].id = i  BY <1>6
  <2>2. \A m \in Line : tag[m].id = i => m = l
    BY <2>1, LineFacts DEF IInv, Coherent
  <2>3. KeyIndex(t, i) = l
    <3>1. t[l].id = i /\ \A m \in Line : t[m].id = i => m = l
      BY <1>1, <2>1, <2>2
    <3> HIDE DEF t
    <3> QED  BY <1>1, <3>1, KeyIndexFound
  <2>4. /\ tag'  = [tag EXCEPT ![l] = SetModified(t[l])]
        /\ data' = [data EXCEPT ![l] = v]
        /\ mem' = mem
    BY <2>3, LineFacts DEF StepEntry
  <2>5. SetModified(t[l]) = [id |-> i, modified |-> TRUE]
    <3>1. t[l] \in Tag /\ t[l].id = i  BY <1>1, <2>1
    <3> QED  BY <3>1 DEF SetModified, Tag
  <2>6. /\ \A m \in Line : tag'[m] = IF m = l THEN [id |-> i, modified |-> TRUE] ELSE tag[m]
        /\ \A m \in Line : data'[m] = IF m = l THEN v ELSE data[m]
    BY <1>1, <2>4, <2>5
  <2>7. \A m \in Line : tag'[m].id = tag[m].id  BY <2>1, <2>6
  <2>8. StorageTypeOK'
    <3>1. [id |-> i, modified |-> TRUE] \in Tag  BY DEF Tag
    <3>2. tag' \in [Line -> Tag]  BY <1>1, <2>4, <2>5, <3>1
    <3>3. data' \in [Line -> Value]  BY <1>1, <2>4
    <3> QED  BY <1>1, <1>4, <2>4, <3>2, <3>3 DEF StorageTypeOK
  <2>9. Coherent'
    <3> SUFFICES ASSUME NEW m \in Line, tag'[m].id # NoId
                 PROVE  /\ \A n \in Line : tag'[n].id = tag'[m].id => n = m
                        /\ ~ tag'[m].modified => data'[m] = mem'[tag'[m].id]
      BY DEF Coherent
    <3>1. \A n \in Line : tag'[n].id = tag'[m].id => n = m
      BY <2>7 DEF IInv, Coherent
    <3>2. CASE m = l  BY <2>6, <3>1, <3>2
    <3>3. CASE m # l
      <4>1. tag'[m] = tag[m] /\ data'[m] = data[m]  BY <2>6, <3>3
      <4> QED  BY <2>4, <3>1, <4>1 DEF IInv, Coherent
    <3> QED  BY <3>2, <3>3
  <2>10. SnapshotsCurrent'  BY <1>3, <2>7 DEF IInv, SnapshotsCurrent
  <2>11. ReadsLines'  BY <2>8, <2>9, ReadValueNext
  <2>12. Read(i)' = v  BY <2>1, <2>6, <2>7, <2>11 DEF ReadsLines
  <2>13. ASSUME NEW j \in Id \ {i} PROVE Read(j)' = Read(j)
    <3>1. CASE \E m \in Line : tag[m].id = j
      <4>1. PICK m \in Line : tag[m].id = j  BY <3>1
      <4>2. Read(j) = data[m]  BY <4>1, <1>5
      <4>3. Read(j)' = data'[m]  BY <4>1, <2>7, <2>11 DEF ReadsLines
      <4> QED  BY <4>1, <4>2, <4>3, <2>1, <2>6
    <3>2. CASE \A m \in Line : tag[m].id # j
      <4>1. Read(j) = mem[j]  BY <3>2, <1>5
      <4>2. Read(j)' = mem'[j]  BY <3>2, <2>7, <2>11 DEF ReadsLines
      <4> QED  BY <4>1, <4>2, <2>4
    <3> QED  BY <3>1, <3>2
  <2> QED  BY <2>8, <2>9, <2>10, <2>12, <2>13 DEF IInv
<1>7. CASE \A l \in Line : tag[l].id # i
  <2>1. KeyIndex(t, i) = NoLine  BY <1>1, <1>7, KeyIndexAbsent
  <2>2. mem' = [mem EXCEPT ![i] = v] /\ data' = data /\ tag' = tag
    BY <2>1 DEF StepEntry
  <2>3. StorageTypeOK'  BY <1>1, <1>4, <2>2 DEF StorageTypeOK
  <2>4. \A l \in Line : tag[l].id # NoId => mem'[tag[l].id] = mem[tag[l].id]
    BY <1>1, <1>7, <2>2
  <2>5. Coherent'  BY <2>2, <2>4 DEF IInv, Coherent
  <2>6. SnapshotsCurrent'  BY <1>3, <2>2 DEF IInv, SnapshotsCurrent
  <2>7. ReadsLines'  BY <2>3, <2>5, ReadValueNext
  <2>8. Read(i)' = v  BY <1>1, <1>7, <2>2, <2>7 DEF ReadsLines
  <2>9. ASSUME NEW j \in Id \ {i} PROVE Read(j)' = Read(j)
    <3>1. CASE \E m \in Line : tag[m].id = j
      BY <3>1, <1>5, <2>2, <2>7 DEF ReadsLines
    <3>2. CASE \A m \in Line : tag[m].id # j
      BY <3>2, <1>1, <1>5, <2>2, <2>7 DEF ReadsLines
    <3> QED  BY <3>1, <3>2
  <2> QED  BY <2>3, <2>5, <2>6, <2>8, <2>9 DEF IInv
<1> QED  BY <1>6, <1>7

\* A write-back copies what gathers read to the raw embedding.
LEMMA WriteBackInv ==
  ASSUME IInv, NEW dropAll \in BOOLEAN, WriteBack(dropAll)
  PROVE  /\ IInv'
         /\ \A i \in Id : mem'[i] = Read(i) /\ Read(i)' = Read(i)
         /\ mem' \in [Id -> Value]
<1> DEFINE M == {l \in Line : tag[l].id # NoId /\ tag[l].modified}
<1>1. Quiet /\ block' = block /\ data' = data /\ mem' = WrittenBack(M)
  BY DEF WriteBack
<1>2. /\ mem' \in [Id -> Value]
      /\ \A i \in Id :
           /\ \A l \in M : tag[l].id = i => mem'[i] = data[l]
           /\ (\A l \in M : tag[l].id # i) => mem'[i] = mem[i]
  BY <1>1, WrittenBackValue DEF IInv
<1>3. \A l \in Line : tag'[l] = Empty \/ tag'[l] = [id |-> tag[l].id, modified |-> FALSE]
  <2>1. tag' = [l \in Line |-> IF dropAll THEN Empty ELSE ClearModified(tag[l])]
    BY DEF WriteBack
  <2>2. ASSUME NEW l \in Line
        PROVE  tag'[l] = Empty \/ tag'[l] = ClearModified(tag[l])
    BY <2>1, Zenon
  <2> QED  BY <2>2 DEF ClearModified
<1>4. \A l \in Line : tag[l].id # NoId => tag[l].id \in Id /\ mem'[tag[l].id] = data[l]
  <2> SUFFICES ASSUME NEW l \in Line, tag[l].id # NoId
               PROVE  tag[l].id \in Id /\ mem'[tag[l].id] = data[l]
    OBVIOUS
  <2>1. tag[l].id \in Id /\ tag[l].modified \in BOOLEAN  BY DEF IInv, StorageTypeOK, Tag
  <2>2. CASE tag[l].modified  BY <1>2, <2>1, <2>2
  <2>3. CASE ~ tag[l].modified
    <3>1. \A m \in M : tag[m].id # tag[l].id  BY <2>3 DEF IInv, Coherent
    <3>2. mem'[tag[l].id] = mem[tag[l].id]  BY <1>2, <2>1, <3>1
    <3> QED  BY <2>1, <2>3, <3>2 DEF IInv, Coherent
  <2> QED  BY <2>2, <2>3
<1>5. StorageTypeOK'
  <2>1. \A l \in Line : tag[l] \in Tag  BY DEF IInv, StorageTypeOK
  <2>3. ASSUME NEW l \in Line PROVE tag'[l] \in Tag
    <3>1. tag'[l] = Empty \/ tag'[l] = [id |-> tag[l].id, modified |-> FALSE]  BY <1>3
    <3>2. tag[l].id \in Id \cup {NoId}  BY <2>1 DEF Tag
    <3>3. CASE tag'[l] = Empty  BY <3>3 DEF Tag, Empty
    <3>4. CASE tag'[l] = [id |-> tag[l].id, modified |-> FALSE]  BY <3>2, <3>4 DEF Tag
    <3> QED  BY <3>1, <3>3, <3>4
  <2>2. tag' \in [Line -> Tag]  BY <2>3 DEF WriteBack
  <2> QED  BY <1>1, <1>2, <2>2 DEF IInv, StorageTypeOK
<1>6. ASSUME NEW l \in Line, tag'[l].id # NoId
      PROVE  tag'[l].id = tag[l].id
  <2>1. CASE tag'[l] = Empty  BY <1>6, <2>1 DEF Empty
  <2>2. CASE tag'[l] = [id |-> tag[l].id, modified |-> FALSE]  BY <2>2
  <2> QED  BY <1>3, <2>1, <2>2
<1>7. Coherent'
  <2> SUFFICES ASSUME NEW l \in Line, tag'[l].id # NoId
               PROVE  /\ \A m \in Line : tag'[m].id = tag'[l].id => m = l
                      /\ data'[l] = mem'[tag'[l].id]
    BY DEF Coherent
  <2>1. \A m \in Line : tag'[m].id = tag'[l].id => m = l
    BY <1>6 DEF IInv, Coherent
  <2>2. data'[l] = mem'[tag'[l].id]  BY <1>1, <1>4, <1>6
  <2> QED  BY <2>1, <2>2
<1>8. SnapshotsCurrent'  BY <1>1, QuietFacts DEF SnapshotsCurrent
<1>9. ReadsLines /\ ReadsLines'
  BY <1>5, <1>7, ReadValue, ReadValueNext DEF IInv, ReadsLines
<1>10. ASSUME NEW i \in Id PROVE mem'[i] = Read(i) /\ Read(i)' = Read(i)
  <2>1. mem'[i] = Read(i)
    <3>1. CASE \E l \in Line : tag[l].id = i
      BY <3>1, <1>4, <1>9, LineFacts DEF ReadsLines
    <3>2. CASE \A l \in Line : tag[l].id # i
      BY <3>2, <1>2, <1>9 DEF ReadsLines
    <3> QED  BY <3>1, <3>2
  <2>2. Read(i)' = mem'[i]
    <3>1. CASE \E l \in Line : tag'[l].id = i
      <4>1. PICK l \in Line : tag'[l].id = i  BY <3>1
      <4>2. Read(i)' = data'[l]  BY <4>1, <1>9 DEF ReadsLines
      <4>3. tag[l].id = i  BY <4>1, <1>6, LineFacts
      <4> QED  BY <4>2, <4>3, <1>1, <1>4, LineFacts
    <3>2. CASE \A l \in Line : tag'[l].id # i  BY <3>2, <1>9 DEF ReadsLines
    <3> QED  BY <3>1, <3>2
  <2> QED  BY <2>1, <2>2
<1> QED  BY <1>2, <1>5, <1>7, <1>8, <1>10 DEF IInv

\* The launch of a kernel makes its entries due, one of its blocks writes an
\* entry that is due, and every other step leaves the table as it is.
LEMMA NextInv ==
  ASSUME IInv, Next
  PROVE  /\ IInv'
         /\ \/ Due' = Due /\ \A i \in Id : Read(i)' = Read(i)
            \/ Due = {} /\ Due' \in SUBSET Id /\ \A i \in Id : Read(i)' = Read(i)
            \/ \E i \in Due, v \in Value :
                 /\ Due' = Due \ {i}
                 /\ Read(i)' = v /\ \A j \in Id \ {i} : Read(j)' = Read(j)
<1>1. ASSUME NEW inc \in Batch, UpdateCache(inc)
      PROVE  IInv' /\ Due' = Due /\ \A i \in Id : Read(i)' = Read(i)
  <2>1. Due' = Due  BY <1>1 DEF Due, UpdateCache
  <2> QED  BY <1>1, <2>1, UpdateCacheInv
<1>2. ASSUME NEW entries \in (SUBSET Id) \ {{}}, LaunchStep(entries)
      PROVE  /\ IInv' /\ Due = {} /\ Due' \in SUBSET Id
             /\ \A i \in Id : Read(i)' = Read(i)
  <2>1. Due = {} /\ Due' \in SUBSET Id  BY <1>2 DEF Due, LaunchStep, Quiet
  <2> QED  BY <1>2, <2>1, LaunchStepInv
<1>3. ASSUME NEW i \in Id, LoadTags(i)
      PROVE  IInv' /\ Due' = Due /\ \A j \in Id : Read(j)' = Read(j)
  <2>1. \A j \in Id : block'[j] = IF j = i THEN [phase |-> "loaded", tags |-> tag] ELSE block[j]
    BY <1>3 DEF LoadTags, IInv, StorageTypeOK
  <2>2. block[i] # Idle /\ [phase |-> "loaded", tags |-> tag] # Idle
    BY <1>3 DEF LoadTags, Launched, Idle
  <2>3. Due' = Due  BY <2>1, <2>2 DEF Due
  <2> QED  BY <1>3, <2>3, LoadTagsInv
<1>4. ASSUME NEW i \in Id, NEW v \in Value, StepEntry(i, v)
      PROVE  /\ IInv' /\ i \in Due /\ Due' = Due \ {i}
             /\ Read(i)' = v /\ \A j \in Id \ {i} : Read(j)' = Read(j)
  <2>1. \A j \in Id : block'[j] = IF j = i THEN Idle ELSE block[j]
    BY <1>4 DEF StepEntry, IInv, StorageTypeOK
  <2>2. block[i] # Idle  BY <1>4 DEF StepEntry, Idle, Loaded
  <2>3. i \in Due /\ Due' = Due \ {i}  BY <2>1, <2>2 DEF Due
  <2> QED  BY <1>4, <2>3, StepEntryInv
<1>5. ASSUME NEW dropAll \in BOOLEAN, WriteBack(dropAll)
      PROVE  IInv' /\ Due' = Due /\ \A i \in Id : Read(i)' = Read(i)
  <2>1. Due' = Due  BY <1>5 DEF Due, WriteBack
  <2> QED  BY <1>5, <2>1, WriteBackInv
<1> QED  BY <1>1, <1>2, <1>3, <1>4, <1>5 DEF Next

LEMMA StutterInv ==
  ASSUME IInv, UNCHANGED vars
  PROVE  IInv' /\ Due' = Due /\ \A i \in Id : Read(i)' = Read(i)
BY DEF IInv, StorageTypeOK, Coherent, SnapshotsCurrent, Due, Read, vars

LEMMA Invariance == Spec => []IInv
<1>1. IInv /\ [Next]_vars => IInv'  BY NextInv, StutterInv
<1> QED  BY <1>1, InitInv, PTL DEF Spec

-----------------------------------------------------------------------------
\* The contents keep their shape: a tag never names what is not an entry of the
\* set, and a line or an entry never holds what is not an embedding.
THEOREM StorageTypeCorrect == Spec => []StorageTypeOK
<1>1. IInv => StorageTypeOK  BY DEF IInv
<1> QED  BY <1>1, Invariance, PTL

\* No entry is in two lines, and a line that is not marked modified can be
\* dropped without loss, while blocks of an optimizer kernel interleave.
THEOREM CacheCoherent == Spec => []Coherent
<1>1. IInv => Coherent  BY DEF IInv
<1> QED  BY <1>1, Invariance, PTL

\* After a write-back the raw embedding holds what gathers return.
THEOREM WriteBackComplete == Spec => WriteBackSettles
<1>1. ASSUME IInv, NEW dropAll \in BOOLEAN, WriteBack(dropAll)
      PROVE  mem' = [i \in Id |-> Read(i)]
  BY <1>1, WriteBackInv
<1>2. IInv /\ [Next]_vars =>
        [\A dropAll \in BOOLEAN :
           WriteBack(dropAll) => mem' = [i \in Id |-> Read(i)]]_vars
  BY <1>1
<1> QED  BY <1>2, Invariance, PTL DEF Spec, WriteBackSettles

\* The set is transparent: seen through gathers it is a table that changes only
\* where the running optimizer kernel writes.
THEOREM Transparent == Spec => ImplementsTable
<1> DEFINE seen == [i \in Id |-> Read(i)]
<1>1. IInv => seen \in [Id -> Value]
  <2> SUFFICES ASSUME IInv, NEW i \in Id PROVE Read(i) \in Value
    OBVIOUS
  <2>1. CASE \E l \in Line : tag[l].id = i
    BY <2>1, ReadValue DEF IInv, StorageTypeOK
  <2>2. CASE \A l \in Line : tag[l].id # i
    BY <2>2, ReadValue DEF IInv, StorageTypeOK
  <2> QED  BY <2>1, <2>2
<1>2. Init => Table!TableInit
  <2>1. Init => Due = {}  BY DEF Init, Due
  <2> QED  BY <1>1, <2>1, InitInv DEF Table!TableInit
<1>3. ASSUME IInv, [Next]_vars
      PROVE  [Table!TableNext]_<<seen, Due>>
  <2>1. CASE \A i \in Id : Read(i)' = Read(i)
    <3>1. seen' = seen  BY <2>1
    <3>2. CASE Due' = Due  BY <3>1, <3>2
    <3>3. CASE Due = {} /\ Due' \in SUBSET Id
      <4>1. Table!Launch(Due')  BY <3>1, <3>3 DEF Table!Launch
      <4> QED  BY <3>3, <4>1 DEF Table!TableNext
    <3>4. ASSUME NEW i \in Due, NEW v \in Value, Due' = Due \ {i}, Read(i)' = v
          PROVE  Table!TableNext
      <4>1. i \in Id  BY DEF Due
      <4>2. seen' = [seen EXCEPT ![i] = v]  BY <2>1, <3>4, <4>1
      <4>3. Table!Write(i, v)  BY <3>4, <4>2 DEF Table!Write
      <4> QED  BY <4>1, <4>3 DEF Table!TableNext
    <3> QED  BY <1>3, <2>1, <3>2, <3>3, <3>4, NextInv, StutterInv
  <2>2. ASSUME NEW i \in Due, NEW v \in Value, Due' = Due \ {i},
               Read(i)' = v, \A j \in Id \ {i} : Read(j)' = Read(j)
        PROVE  Table!TableNext
    <3>1. i \in Id  BY DEF Due
    <3>2. seen' = [seen EXCEPT ![i] = v]  BY <2>2, <3>1
    <3>3. Table!Write(i, v)  BY <2>2, <3>2 DEF Table!Write
    <3> QED  BY <3>1, <3>3 DEF Table!TableNext
  <2> QED  BY <1>3, <2>1, <2>2, NextInv, StutterInv
<1> QED  BY <1>2, <1>3, Invariance, PTL DEF Spec, ImplementsTable, Table!TableSpec
-----------------------------------------------------------------------------
\* Powers of two.  The first few of them.
Powers(n, p) == p = [m \in 0 .. n |-> IF m = 0 THEN 1 ELSE 2 * p[m - 1]]

\* They can be listed up to any number: each list goes one further than another.
LEMMA PowersExist ==
  ASSUME NEW n \in Nat
  PROVE  \E p : Powers(n, p)
<1> DEFINE Bad == {m \in Nat : ~ \E p : Powers(m, p)}
<1>1. SUFFICES ASSUME Bad # {} PROVE FALSE
  OBVIOUS
<1>2. PICK m \in Bad : \A k \in Bad : m <= k
  BY <1>1, LeastElement
<1>3. CASE m = 0
  <2>1. Powers(0, [k \in 0 .. 0 |-> 1])
    BY DEF Powers
  <2>2. QED
    BY <1>2, <1>3, <2>1
<1>4. CASE m # 0
  <2>1. m - 1 \in Nat /\ m - 1 \notin Bad
    BY <1>2, <1>4
  <2>2. PICK p : Powers(m - 1, p)
    BY <2>1
  <2> DEFINE q == [k \in 0 .. m |-> IF k = 0 THEN 1 ELSE 2 * p[k - 1]]
  <2>3. \A k \in 0 .. m - 1 : p[k] = IF k = 0 THEN 1 ELSE 2 * p[k - 1]
    BY <2>2 DEF Powers
  <2>4. \A k \in 0 .. m - 1 : k \in 0 .. m
    BY <1>2
  <2>5. \A k \in 0 .. m - 1 : q[k] = p[k]
    BY <2>3, <2>4
  <2>6. \A k \in 0 .. m : k = 0 \/ k - 1 \in 0 .. m - 1
    BY <1>2
  <2>7. Powers(m, q)
    BY <2>5, <2>6 DEF Powers
  <2>8. QED
    BY <1>2, <2>7
<1>5. QED
  BY <1>3, <1>4

\* Two lists have the same powers.
LEMMA PowersAlike ==
  ASSUME NEW m \in Nat, NEW n \in Nat, NEW p, NEW q, Powers(m, p), Powers(n, q),
         NEW k \in Nat, k <= m, k <= n
  PROVE  p[k] = q[k]
<1> DEFINE Bad == {i \in Nat : i <= m /\ i <= n /\ p[i] # q[i]}
<1>1. SUFFICES ASSUME Bad # {} PROVE FALSE
  OBVIOUS
<1>2. PICK i \in Bad : \A j \in Bad : i <= j
  BY <1>1, LeastElement
<1>3. i \in 0 .. m /\ i \in 0 .. n
  BY <1>2
<1>4. p[i] = (IF i = 0 THEN 1 ELSE 2 * p[i - 1]) /\ q[i] = (IF i = 0 THEN 1 ELSE 2 * q[i - 1])
  BY <1>3 DEF Powers
<1>5. i # 0 /\ i - 1 \in Nat
  BY <1>2, <1>4
<1>6. p[i - 1] = q[i - 1]
  BY <1>2, <1>5
<1>7. QED
  BY <1>2, <1>4, <1>5, <1>6

\* The recursive definition defines a function.
LEMMA Pow2Defined ==
  Pow2 = [n \in Nat |-> IF n = 0 THEN 1 ELSE 2 * Pow2[n - 1]]
<1> DEFINE list(n) == CHOOSE p : Powers(n, p)
           f == [n \in Nat |-> list(n)[n]]
<1>1. \A n \in Nat : Powers(n, list(n))
  BY PowersExist
<1> HIDE DEF list
<1>2. ASSUME NEW n \in Nat
      PROVE  f[n] = IF n = 0 THEN 1 ELSE 2 * f[n - 1]
  <2>1. list(n)[n] = IF n = 0 THEN 1 ELSE 2 * list(n)[n - 1]
    <3>1. n \in 0 .. n /\ Powers(n, list(n))
      BY <1>1
    <3>2. QED
      BY <3>1 DEF Powers
  <2>2. CASE n = 0
    BY <2>1, <2>2
  <2>3. CASE n # 0
    <3>1. n - 1 \in Nat
      BY <2>3
    <3>2. list(n)[n - 1] = list(n - 1)[n - 1]
      <4>1. Powers(n, list(n)) /\ Powers(n - 1, list(n - 1))
        BY <1>1, <3>1
      <4>2. n - 1 <= n /\ n - 1 <= n - 1
        BY <3>1
      <4>3. QED
        BY <3>1, <4>1, <4>2, PowersAlike
    <3>3. QED
      BY <2>1, <2>3, <3>1, <3>2
  <2>4. QED
    BY <2>2, <2>3
<1>3. f = [n \in Nat |-> IF n = 0 THEN 1 ELSE 2 * f[n - 1]]
  BY <1>2
<1> HIDE DEF f
<1>4. QED
  BY <1>3 DEF Pow2

\* Powers are positive, and greater than their exponents.
LEMMA Pow2Facts ==
  /\ Pow2[0] = 1
  /\ \A n \in Nat : Pow2[n + 1] = 2 * Pow2[n]
  /\ \A n \in Nat : Pow2[n] \in Nat \ {0} /\ n < Pow2[n]
<1>1. \A n \in Nat : Pow2[n] = IF n = 0 THEN 1 ELSE 2 * Pow2[n - 1]
  BY Pow2Defined
<1>2. Pow2[0] = 1
  BY <1>1
<1>3. ASSUME NEW n \in Nat PROVE Pow2[n + 1] = 2 * Pow2[n]
  <2>1. n + 1 \in Nat /\ n + 1 # 0 /\ (n + 1) - 1 = n
    OBVIOUS
  <2>2. QED
    BY <1>1, <2>1
<1> DEFINE Bad == {n \in Nat : ~ (Pow2[n] \in Nat \ {0} /\ n < Pow2[n])}
<1>4. Bad = {}
  <2>1. SUFFICES ASSUME Bad # {} PROVE FALSE
    OBVIOUS
  <2>2. PICK n \in Bad : \A m \in Bad : n <= m
    BY <2>1, LeastElement
  <2>3. n # 0 /\ n - 1 \in Nat /\ n - 1 \notin Bad
    BY <1>2, <2>2
  <2>4. Pow2[n] = 2 * Pow2[n - 1]
    BY <1>1, <2>2, <2>3
  <2>5. QED
    BY <2>2, <2>3, <2>4
<1>5. QED
  BY <1>2, <1>3, <1>4

\* Exponents add up.
LEMMA Pow2Product ==
  ASSUME NEW m \in Nat, NEW n \in Nat
  PROVE  Pow2[m + n] = Pow2[m] * Pow2[n]
<1> DEFINE Bad == {k \in Nat : Pow2[m + k] # Pow2[m] * Pow2[k]}
<1>1. SUFFICES ASSUME Bad # {} PROVE FALSE
  OBVIOUS
<1>2. PICK k \in Bad : \A j \in Bad : k <= j
  BY <1>1, LeastElement
<1>3. k # 0 /\ k - 1 \in Nat /\ k - 1 \notin Bad
  <2>1. m + 0 = m /\ Pow2[m] \in Nat /\ Pow2[0] = 1
    BY Pow2Facts
  <2>2. Pow2[m + 0] = Pow2[m] * Pow2[0]
    BY <2>1
  <2>3. k # 0
    BY <1>2, <2>2
  <2>4. QED
    BY <1>2, <2>3
<1>4. m + (k - 1) \in Nat /\ (m + (k - 1)) + 1 = m + k /\ (k - 1) + 1 = k
  BY <1>2, <1>3
<1>5. Pow2[m + k] = 2 * Pow2[m + (k - 1)] /\ Pow2[k] = 2 * Pow2[k - 1]
  BY <1>3, <1>4, Pow2Facts
<1>6. Pow2[m + (k - 1)] = Pow2[m] * Pow2[k - 1]
  BY <1>3
<1> DEFINE a == Pow2[m]
           b == Pow2[k - 1]
<1>7. a \in Nat /\ b \in Nat
  BY <1>3, Pow2Facts
<1> HIDE DEF a, b
<1>8. 2 * (a * b) = a * (2 * b)
  BY <1>7, Z3
<1>9. QED
  BY <1>2, <1>5, <1>6, <1>8 DEF a, b

\* A power is a multiple of all that come before it.
LEMMA Pow2Multiple ==
  ASSUME NEW m \in Nat, NEW n \in Nat, m <= n
  PROVE  \E k \in Nat \ {0} : Pow2[n] = k * Pow2[m]
<1>1. n - m \in Nat /\ m + (n - m) = n
  OBVIOUS
<1>2. Pow2[n] = Pow2[m] * Pow2[n - m]
  BY <1>1, Pow2Product
<1>3. Pow2[m] \in Nat /\ Pow2[n - m] \in Nat \ {0}
  BY <1>1, Pow2Facts
<1>4. Pow2[m] * Pow2[n - m] = Pow2[n - m] * Pow2[m]
  BY <1>3, Z3
<1>5. QED
  BY <1>2, <1>3, <1>4

\* And not less than they.
LEMMA Pow2Grows ==
  ASSUME NEW m \in Nat, NEW n \in Nat, m <= n
  PROVE  Pow2[m] <= Pow2[n]
<1>1. PICK k \in Nat \ {0} : Pow2[n] = k * Pow2[m]
  BY Pow2Multiple
<1>2. Pow2[m] \in Nat
  BY Pow2Facts
<1>3. Pow2[m] <= k * Pow2[m]
  BY <1>2, Z3
<1>4. QED
  BY <1>1, <1>3

-----------------------------------------------------------------------------
\* Shifts.  What is left of a number, and how much is lost.
LEMMA Shifted ==
  ASSUME NEW n \in Nat, NEW p \in Nat \ {0}
  PROVE  /\ n \div p \in Nat /\ (n \div p) * p <= n /\ n < (n \div p) * p + p
         /\ (n \div p) * p \in Nat
BY Z3

\* A number that has so many multiples of p below it has as many when it is divided.
LEMMA ShiftedAtLeast ==
  ASSUME NEW n \in Nat, NEW p \in Nat \ {0}, NEW a \in Nat, a * p <= n
  PROVE  a <= n \div p
<1>1. PICK b \in Nat : b = n \div p /\ n < b * p + p
  BY Shifted
<1>2. SUFFICES ASSUME b + 1 <= a PROVE FALSE
  BY <1>1
<1>3. (b + 1) * p <= a * p /\ (b + 1) * p = b * p + p /\ b * p \in Nat /\ a * p \in Nat
  BY <1>2, Z3
<1>4. QED
  BY <1>1, <1>3

\* ScaleFor finds the smallest shift that fits.
LEMMA ScaleForFits ==
  ASSUME NEW n \in Nat
  PROVE  /\ ScaleFor(n) \in 0 .. n
         /\ n \div Pow2[ScaleFor(n)] < Pow2[CounterBits]
         /\ \A t \in 0 .. ScaleFor(n) - 1 : n \div Pow2[t] >= Pow2[CounterBits]
<1> DEFINE Fit == {s \in Nat : n \div Pow2[s] < Pow2[CounterBits]}
<1>1. Pow2[CounterBits] \in Nat \ {0} /\ \A s \in Nat : n \div Pow2[s] \in Nat
  BY CounterAssumption, Pow2Facts, Shifted
<1>2. n \in Fit
  <2>1. PICK p \in Nat \ {0} : p = Pow2[n] /\ n < p
    BY Pow2Facts
  <2>2. n \div p = 0
    BY <2>1, Z3
  <2>3. QED
    BY <1>1, <2>1, <2>2
<1>3. PICK s \in Fit : \A t \in Fit : s <= t
  BY <1>2, LeastElement
<1>4. s \in 0 .. n /\ \A t \in 0 .. s - 1 : n \div Pow2[t] >= Pow2[CounterBits]
  <2>1. s \in 0 .. n
    BY <1>2, <1>3
  <2>2. ASSUME NEW t \in 0 .. s - 1 PROVE n \div Pow2[t] >= Pow2[CounterBits]
    <3>1. t \in Nat /\ t \notin Fit
      BY <1>3, <2>1
    <3>2. QED
      BY <1>1, <3>1
  <2>3. QED
    BY <2>1, <2>2
<1>5. \E x \in 0 .. n : /\ n \div Pow2[x] < Pow2[CounterBits]
                        /\ \A t \in 0 .. x - 1 : n \div Pow2[t] >= Pow2[CounterBits]
  BY <1>3, <1>4
<1>6. QED
  BY <1>5 DEF ScaleFor

\* A number that needs no shift is not shifted.
LEMMA NoShift == ScaleFor(0) = 0
<1>1. ScaleFor(0) \in 0 .. 0
  BY ScaleForFits
<1>2. QED
  BY <1>1

\* Greater shifts fit too.
LEMMA LargerShiftFits ==
  ASSUME NEW n \in Nat, NEW s \in Nat, ScaleFor(n) <= s
  PROVE  n \div Pow2[s] < Pow2[CounterBits]
<1>1. ScaleFor(n) \in Nat /\ n \div Pow2[ScaleFor(n)] < Pow2[CounterBits]
  BY ScaleForFits
<1>2. PICK k \in Nat \ {0} : Pow2[s] = k * Pow2[ScaleFor(n)]
  BY <1>1, Pow2Multiple
<1>3. PICK p \in Nat \ {0}, P \in Nat \ {0}, C \in Nat :
        /\ p = Pow2[ScaleFor(n)] /\ P = Pow2[s] /\ C = Pow2[CounterBits]
  BY <1>1, Pow2Facts, CounterAssumption
<1>4. PICK a \in Nat : a = n \div P /\ a * P <= n
  BY Shifted
<1>5. a * p <= n
  <2>1. P = k * p
    BY <1>2, <1>3
  <2>2. a * p <= a * (k * p)
    <3>1. p <= k * p /\ k * p \in Nat
      BY Z3
    <3>2. QED
      BY <3>1, Z3
  <2>3. a * p \in Nat /\ a * (k * p) \in Nat
    BY Z3
  <2>4. QED
    BY <1>4, <2>1, <2>2, <2>3
<1>6. a <= n \div p /\ n \div p \in Nat
  BY <1>5, ShiftedAtLeast, Shifted
<1>7. QED
  BY <1>1, <1>3, <1>4, <1>6

\* The smallest shift that fits leaves the highest bit of the counter set.
LEMMA HighestBit ==
  ASSUME NEW n \in Nat, ScaleFor(n) > 0
  PROVE  n \div Pow2[ScaleFor(n)] >= Pow2[CounterBits - 1]
<1>1. PICK s \in Nat : s = ScaleFor(n) /\ s > 0 /\ n \div Pow2[s - 1] >= Pow2[CounterBits]
  <2>1. ScaleFor(n) \in Nat /\ ScaleFor(n) - 1 \in 0 .. ScaleFor(n) - 1
    BY ScaleForFits
  <2>2. QED
    BY <2>1, ScaleForFits
<1>2. s - 1 \in Nat /\ (s - 1) + 1 = s /\ CounterBits - 1 \in Nat
      /\ (CounterBits - 1) + 1 = CounterBits
  BY <1>1, CounterAssumption
<1>3. PICK p \in Nat \ {0}, h \in Nat \ {0} :
        /\ p = Pow2[s - 1] /\ h = Pow2[CounterBits - 1]
        /\ Pow2[s] = 2 * p /\ Pow2[CounterBits] = 2 * h
  BY <1>2, Pow2Facts
<1>4. PICK b \in Nat : b = n \div p /\ b * p <= n /\ b * p \in Nat
  BY Shifted
<1>5. 2 * h <= b
  BY <1>1, <1>3, <1>4
<1>6. h * (2 * p) <= n
  <2>1. (2 * h) * p <= b * p /\ (2 * h) * p \in Nat /\ h * (2 * p) = (2 * h) * p
    BY <1>5, Z3
  <2>2. QED
    BY <1>4, <2>1
<1>7. 2 * p \in Nat \ {0}
  BY <1>3
<1>8. h <= n \div (2 * p) /\ n \div (2 * p) \in Nat
  BY <1>6, <1>7, ShiftedAtLeast, Shifted
<1>9. QED
  BY <1>1, <1>3, <1>8

\* A number that fills the counter at one shift is not shifted less.
LEMMA NotLess ==
  ASSUME NEW n \in Nat, NEW s \in Nat, Pow2[CounterBits - 1] * Pow2[s] <= n
  PROVE  s <= ScaleFor(n)
<1>1. PICK t \in Nat : t = ScaleFor(n) /\ n \div Pow2[t] < Pow2[CounterBits]
  BY ScaleForFits
<1>2. SUFFICES ASSUME t + 1 <= s PROVE FALSE
  BY <1>1
<1>3. CounterBits - 1 \in Nat /\ (CounterBits - 1) + 1 = CounterBits
  BY CounterAssumption
<1>4. PICK k \in Nat \ {0} : Pow2[s] = k * Pow2[t + 1]
  BY <1>2, Pow2Multiple
<1>5. PICK p \in Nat \ {0}, h \in Nat \ {0} :
        /\ p = Pow2[t] /\ h = Pow2[CounterBits - 1]
        /\ Pow2[t + 1] = 2 * p /\ Pow2[CounterBits] = 2 * h
  BY <1>3, Pow2Facts
<1>6. (2 * h) * p <= n
  <2>1. h * (k * (2 * p)) <= n
    BY <1>4, <1>5
  <2>2. h * (2 * p) <= h * (k * (2 * p)) /\ h * (2 * p) \in Nat /\ h * (k * (2 * p)) \in Nat
    <3>1. 2 * p <= k * (2 * p) /\ 2 * p \in Nat /\ k * (2 * p) \in Nat
      BY Z3
    <3>2. QED
      BY <3>1, Z3
  <2>3. h * (2 * p) = (2 * h) * p
    BY Z3
  <2>4. QED
    BY <2>1, <2>2, <2>3
<1>7. 2 * h <= n \div p /\ n \div p \in Nat
  <2>1. 2 * h \in Nat
    BY <1>5
  <2>2. QED
    BY <1>6, <2>1, ShiftedAtLeast, Shifted
<1>8. QED
  BY <1>1, <1>5, <1>7

\* An exact count is estimated up to one unit of the scale.
LEMMA ExactRescaled ==
  ASSUME NEW w \in Nat, NEW p \in Nat \ {0}
  PROVE  /\ w <= (w \div p) * p + p - 1
         /\ (w \div p) * p + p - 1 < w + p
<1>1. /\ (w \div p) * p <= w /\ w < (w \div p) * p + p /\ (w \div p) * p \in Nat
  BY Shifted
<1>2. QED
  BY <1>1

\* So is an estimate: from the count it is an estimate of, not only from itself, because
\* the units of the new scale are multiples of those of the old one.
LEMMA EstimateRescaled ==
  ASSUME NEW f \in Nat, NEW u \in Nat \ {0}, NEW k \in Nat \ {0}, NEW c \in Nat,
         NEW w \in Nat, w = f * u + u - 1, c <= w, w < c + u,
         NEW p \in Nat \ {0}, p = k * u
  PROVE  /\ c <= (w \div p) * p + p - 1
         /\ (w \div p) * p + p - 1 < c + p
<1>1. PICK a \in Nat : a = w \div p /\ a * p <= w /\ w < a * p + p /\ a * p \in Nat
  BY Shifted
<1>2. PICK q \in Nat : q = a * k
  BY Z3
<1>3. a * p = q * u
  BY <1>2, Z3
<1>4. f * u \in Nat /\ q * u \in Nat
  BY Z3
<1>5. q <= f
  <2>1. SUFFICES ASSUME f + 1 <= q PROVE FALSE
    OBVIOUS
  <2>2. (f + 1) * u <= q * u /\ (f + 1) * u = f * u + u
    BY <2>1, Z3
  <2>3. QED
    BY <1>1, <1>3, <1>4, <2>2
<1>6. q * u <= f * u
  BY <1>5, Z3
<1>7. a * p <= c
  BY <1>3, <1>4, <1>6
<1>8. QED
  BY <1>1, <1>7

-----------------------------------------------------------------------------
\* While an entry is cached, the scale of the set is one that some counter needs: its
\* highest bit is set.  So the scale never goes down while there are estimates.
HotLine ==
  scale > 0 /\ Cached # {} =>
    \E l \in Line : tag[l].id # NoId /\ lfu[l] >= Pow2[CounterBits - 1]

CInv == IInv /\ TypeOK /\ EstimateTight /\ HotLine

\* The cached entries, and the lines they are in.
LEMMA CachedLines ==
  ASSUME IInv
  PROVE  /\ Cached \in SUBSET Id
         /\ \A l \in Line : tag[l].id # NoId => tag[l].id \in Cached
         /\ \A i \in Cached :
              \E l \in Line : tag[l].id = i /\ i # NoId /\ KeyIndex(tag, i) = l
<1>1. tag \in [Line -> Tag] /\ \A l \in Line : tag[l].id \in Id \cup {NoId}
  BY DEF IInv, StorageTypeOK, Tag
<1>2. Cached \in SUBSET Id /\ \A l \in Line : tag[l].id # NoId => tag[l].id \in Cached
  BY <1>1 DEF Cached
<1>3. ASSUME NEW i \in Cached
      PROVE  \E l \in Line : tag[l].id = i /\ i # NoId /\ KeyIndex(tag, i) = l
  <2>1. PICK l \in Line : tag[l].id = i /\ i # NoId
    BY DEF Cached
  <2>2. \A m \in Line : tag[m].id = i => m = l
    BY <2>1 DEF IInv, Coherent
  <2>3. i \in Id
    BY <1>2
  <2>4. QED
    BY <1>1, <2>1, <2>2, <2>3, KeyIndexFound
<1>4. QED
  BY <1>2, <1>3

\* The counts after a batch.
Counted(inc) == [i \in Id |-> IF i \in DOMAIN inc THEN count[i] + inc[i] ELSE count[i]]

\* The weight of a candidate is its new count, or an estimate of it if it is cached and
\* not in the batch.
LEMMA Weighed ==
  ASSUME CInv, NEW inc \in Batch, NEW i \in DOMAIN inc \cup Cached
  PROVE  /\ Weight(i, inc) \in Nat /\ Counted(inc)[i] \in Nat
         /\ Counted(inc)[i] <= Weight(i, inc)
         /\ Weight(i, inc) < Counted(inc)[i] + Pow2[scale]
         /\ i \in DOMAIN inc => Weight(i, inc) = Counted(inc)[i]
         /\ i \notin DOMAIN inc =>
              \E l \in Line : Weight(i, inc) = lfu[l] * Pow2[scale] + Pow2[scale] - 1
<1>1. i \in Id /\ count[i] \in Nat /\ Pow2[scale] \in Nat \ {0} /\ IInv
      /\ \A l \in Line : lfu[l] \in Nat
  <2>1. DOMAIN inc \in SUBSET Id
    BY DEF Batch
  <2>2. scale \in Nat /\ MaxCount \in Nat /\ Pow2[CounterBits] \in Nat
    BY CounterAssumption, Pow2Facts DEF CInv, TypeOK
  <2>3. QED
    BY <2>1, <2>2, CachedLines, Pow2Facts DEF CInv, TypeOK
<1>2. CASE i \in DOMAIN inc
  <2>1. inc[i] \in Nat
    BY <1>2, CounterAssumption DEF Batch
  <2>2. Weight(i, inc) = count[i] + inc[i] /\ Counted(inc)[i] = count[i] + inc[i]
    BY <1>1, <1>2 DEF Weight, Counted
  <2>3. QED
    BY <1>1, <1>2, <2>1, <2>2
<1>3. CASE i \notin DOMAIN inc
  <2>1. PICK l \in Line : tag[l].id = i /\ i # NoId /\ KeyIndex(tag, i) = l
    BY <1>1, <1>3, CachedLines
  <2>2. Weight(i, inc) = Estimate(l) /\ Counted(inc)[i] = count[i]
    BY <1>1, <1>3, <2>1 DEF Weight, Counted
  <2>3. count[i] <= Estimate(l) /\ Estimate(l) < count[i] + Pow2[scale]
    BY <2>1 DEF CInv, EstimateTight
  <2>4. Estimate(l) = lfu[l] * Pow2[scale] + Pow2[scale] - 1
    BY DEF Estimate
  <2>5. lfu[l] * Pow2[scale] + Pow2[scale] - 1 \in Nat
    <3>1. PICK f \in Nat, u \in Nat \ {0} : f = lfu[l] /\ u = Pow2[scale]
      BY <1>1
    <3>2. f * u \in Nat
      BY Z3
    <3>3. QED
      BY <3>1, <3>2
  <2>6. QED
    BY <1>1, <1>3, <2>2, <2>3, <2>4, <2>5
<1>4. QED
  BY <1>2, <1>3

\* What an update of the set does to tags and counters.
WeightAt(at, inc, l) == IF at[l] = NoId THEN 0 ELSE Weight(at[l], inc)
ShiftFor(at, inc)    == Max({ScaleFor(WeightAt(at, inc, l)) : l \in Line})

Chosen(inc, top, at) ==
  /\ top \in SUBSET (DOMAIN inc \cup Cached) /\ top # {}
  /\ \A i \in top, j \in (DOMAIN inc \cup Cached) \ top : Weight(i, inc) >= Weight(j, inc)
  /\ at \in [Line -> top \cup {NoId}]
  /\ \A i \in top : \E l \in Line : at[l] = i
  /\ \A l \in Line : tag'[l].id = at[l]
  /\ lfu'   = [l \in Line |-> WeightAt(at, inc, l) \div Pow2[ShiftFor(at, inc)]]
  /\ scale' = ShiftFor(at, inc)
  /\ count' = Counted(inc)
  /\ \A i \in DOMAIN inc : count[i] + inc[i] <= MaxCount

LEMMA ChoiceMade ==
  ASSUME IInv, NEW inc \in Batch, UpdateCache(inc)
  PROVE  \E top, at : Chosen(inc, top, at)
<1>1. PICK top \in TopSets(inc) : \E at \in Placements(top) :
        /\ tag'  = [l \in Line |-> SetLocalID(tag[l], at[l])]
        /\ lfu'   = [l \in Line |-> WeightAt(at, inc, l) \div Pow2[ShiftFor(at, inc)]]
        /\ scale' = ShiftFor(at, inc)
  BY DEF UpdateCache, WeightAt, ShiftFor
<1>2. PICK at \in Placements(top) :
        /\ tag'  = [l \in Line |-> SetLocalID(tag[l], at[l])]
        /\ lfu'   = [l \in Line |-> WeightAt(at, inc, l) \div Pow2[ShiftFor(at, inc)]]
        /\ scale' = ShiftFor(at, inc)
  BY <1>1
<1> DEFINE candidates == DOMAIN inc \cup Cached
<1>3. /\ top \in SUBSET candidates
      /\ Cardinality(top) = Min({Lines, Cardinality(candidates)})
      /\ \A i \in top, j \in candidates \ top : Weight(i, inc) >= Weight(j, inc)
  BY DEF TopSets, kSubset
<1>4. candidates \in SUBSET Id /\ candidates # {}
  BY CachedLines DEF Batch
<1>5. IsFiniteSet(Id)
  <2>1. 0 \in Int /\ Coverage - 1 \in Int
    BY SizeAssumption
  <2>2. QED
    BY <2>1, FS_Interval DEF Id
<1>6. top # {}
  <2>1. IsFiniteSet(candidates)
    BY <1>4, <1>5, FS_Subset
  <2>2. Cardinality(candidates) \in Nat /\ Cardinality(candidates) # 0
    BY <1>4, <2>1, FS_EmptySet, FS_CardinalityType
  <2>3. Min({Lines, Cardinality(candidates)}) \in {Lines, Cardinality(candidates)}
    <3>1. ASSUME NEW m \in Nat, NEW n \in Nat PROVE Min({m, n}) \in {m, n}
      <4>1. \E x \in {m, n} : \A y \in {m, n} : x <= y
        <5>1. CASE m <= n
          BY <5>1
        <5>2. CASE ~ (m <= n)
          BY <5>2
        <5>3. QED
          BY <5>1, <5>2
      <4>2. QED
        BY <4>1 DEF Min
    <3>2. QED
      BY <2>2, <3>1, SizeAssumption
  <2>4. Cardinality(top) # 0
    BY <1>3, <2>2, <2>3, SizeAssumption
  <2>5. QED
    BY <2>4, FS_EmptySet
<1>7. /\ at \in [Line -> top \cup {NoId}]
      /\ \A i \in top : \E l \in Line : at[l] = i
  BY DEF Placements
<1>8. \A l \in Line : tag'[l].id = at[l]
  BY <1>2 DEF SetLocalID, Empty
<1>9. count' = Counted(inc) /\ \A i \in DOMAIN inc : count[i] + inc[i] <= MaxCount
  BY DEF UpdateCache, Counted
<1>10. QED
  BY <1>2, <1>3, <1>6, <1>7, <1>8, <1>9 DEF Chosen

\* The shift fits all lines, and the line that needs it has an entry.
LEMMA ShiftFound ==
  ASSUME CInv, NEW inc \in Batch, NEW top, NEW at, Chosen(inc, top, at)
  PROVE  /\ \A l \in Line : WeightAt(at, inc, l) \in Nat
         /\ ShiftFor(at, inc) \in Nat
         /\ \A l \in Line : ScaleFor(WeightAt(at, inc, l)) <= ShiftFor(at, inc)
         /\ \E l \in Line : ShiftFor(at, inc) = ScaleFor(WeightAt(at, inc, l))
<1> DEFINE weight(l) == WeightAt(at, inc, l)
           T == {ScaleFor(weight(l)) : l \in Line}
           bound == MaxCount + Pow2[scale]
<1>1. bound \in Nat /\ MaxCount \in Nat /\ Pow2[scale] \in Nat
  <2>1. scale \in Nat
    BY CounterAssumption DEF CInv, TypeOK
  <2>2. QED
    BY <2>1, Pow2Facts, CounterAssumption
<1> HIDE DEF bound
<1>2. ASSUME NEW l \in Line PROVE weight(l) \in Nat /\ weight(l) <= bound
  <2>1. CASE at[l] = NoId
    BY <1>1, <2>1 DEF WeightAt
  <2>2. CASE at[l] # NoId
    <3>1. at[l] \in DOMAIN inc \cup Cached
      BY <2>2 DEF Chosen
    <3>2. weight(l) = Weight(at[l], inc)
      BY <2>2 DEF WeightAt
    <3>3. /\ Weight(at[l], inc) \in Nat /\ Counted(inc)[at[l]] \in Nat
          /\ Weight(at[l], inc) < Counted(inc)[at[l]] + Pow2[scale]
      BY <3>1, Weighed
    <3>4. Counted(inc)[at[l]] <= MaxCount
      <4>1. at[l] \in Id
        BY <3>1, CachedLines DEF CInv, Batch
      <4>2. CASE at[l] \in DOMAIN inc
        BY <4>1, <4>2 DEF Counted, Chosen
      <4>3. CASE at[l] \notin DOMAIN inc
        BY <4>1, <4>3 DEF Counted, CInv, TypeOK
      <4>4. QED
        BY <4>2, <4>3
    <3>5. QED
      BY <1>1, <3>2, <3>3, <3>4 DEF bound
  <2>3. QED
    BY <2>1, <2>2
<1>3. ASSUME NEW l \in Line PROVE ScaleFor(weight(l)) \in Nat /\ ScaleFor(weight(l)) <= bound
  <2>1. ScaleFor(weight(l)) \in 0 .. weight(l)
    BY <1>2, ScaleForFits
  <2>2. QED
    BY <1>1, <1>2, <2>1
<1>4. T \in SUBSET Nat /\ T # {} /\ \A s \in T : s <= bound
  <2>1. 0 \in Line
    BY SizeAssumption DEF Line
  <2>2. QED
    BY <1>3, <2>1
<1> HIDE DEF T
<1>5. PICK s \in T : \A t \in T : t <= s
  BY <1>1, <1>4, LargestElement
<1>6. Max(T) \in T /\ \A t \in T : t <= Max(T)
  <2>1. \E x \in T : \A t \in T : x >= t
    BY <1>4, <1>5
  <2>2. QED
    BY <1>4, <2>1 DEF Max
<1>7. ShiftFor(at, inc) = Max(T)
  BY DEF ShiftFor, T
<1>8. QED
  BY <1>2, <1>4, <1>6, <1>7 DEF T

\* The scale does not go down while an entry is cached.  The entry that needs the old
\* scale is chosen again, or what is chosen weighs as much.
LEMMA ScaleKept ==
  ASSUME CInv, NEW inc \in Batch, NEW top, NEW at, Chosen(inc, top, at), Cached # {}
  PROVE  scale <= ShiftFor(at, inc)
<1>1. scale \in Nat /\ ShiftFor(at, inc) \in Nat
  BY ShiftFound, CounterAssumption DEF CInv, TypeOK
<1>2. SUFFICES ASSUME scale > 0 PROVE scale <= ShiftFor(at, inc)
  BY <1>1
<1>3. PICK l \in Line : tag[l].id # NoId /\ lfu[l] >= Pow2[CounterBits - 1]
  BY <1>2 DEF CInv, HotLine
<1> DEFINE i == tag[l].id
<1>4. i \in Cached /\ i \in Id
  BY <1>3, CachedLines DEF CInv
<1>5. PICK f \in Nat, u \in Nat \ {0}, h \in Nat \ {0} :
        /\ f = lfu[l] /\ u = Pow2[scale] /\ h = Pow2[CounterBits - 1] /\ h <= f
  <2>1. CounterBits - 1 \in Nat /\ Pow2[CounterBits] \in Nat
    BY CounterAssumption, Pow2Facts
  <2>2. lfu[l] \in Nat
    BY <2>1 DEF CInv, TypeOK
  <2>3. QED
    BY <1>1, <1>3, <2>1, <2>2, Pow2Facts
<1>6. h * u <= f * u /\ h * u \in Nat /\ f * u \in Nat
  BY <1>5, Z3
<1>7. Weight(i, inc) \in Nat /\ h * u <= Weight(i, inc)
  <2>1. /\ Weight(i, inc) \in Nat /\ Counted(inc)[i] \in Nat /\ Counted(inc)[i] <= Weight(i, inc)
    BY <1>4, Weighed
  <2>2. Estimate(l) < count[i] + u /\ Estimate(l) = f * u + u - 1 /\ count[i] \in Nat
    <3>1. Estimate(l) < count[i] + Pow2[scale]
      BY <1>3 DEF CInv, EstimateTight
    <3>2. count[i] \in Nat
      BY <1>4, CounterAssumption DEF CInv, TypeOK
    <3>3. QED
      BY <1>5, <3>1, <3>2 DEF Estimate
  <2>3. count[i] <= Counted(inc)[i]
    <3>1. CASE i \in DOMAIN inc
      <4>1. inc[i] \in Nat
        BY <3>1, CounterAssumption DEF Batch
      <4>2. QED
        BY <1>4, <2>2, <3>1, <4>1 DEF Counted
    <3>2. CASE i \notin DOMAIN inc
      BY <1>4, <2>2, <3>2 DEF Counted
    <3>3. QED
      BY <3>1, <3>2
  <2>4. QED
    BY <1>5, <1>6, <2>1, <2>2, <2>3
<1>8. PICK j \in top : Weight(j, inc) \in Nat /\ h * u <= Weight(j, inc)
  <2>1. CASE i \in top
    BY <1>7, <2>1
  <2>2. CASE i \notin top
    <3>1. PICK j \in top : TRUE
      BY DEF Chosen
    <3>2. Weight(j, inc) >= Weight(i, inc)
      BY <1>4, <2>2 DEF Chosen
    <3>3. Weight(j, inc) \in Nat
      BY Weighed DEF Chosen
    <3>4. QED
      BY <1>6, <1>7, <3>2, <3>3
  <2>3. QED
    BY <2>1, <2>2
<1>9. PICK m \in Line : at[m] = j
  BY DEF Chosen
<1>10. WeightAt(at, inc, m) = Weight(j, inc)
  <2>1. j \in Id
    BY CachedLines DEF Chosen, Batch, CInv
  <2>2. QED
    BY <1>9, <2>1, LineFacts DEF WeightAt
<1>11. scale <= ScaleFor(Weight(j, inc))
  BY <1>1, <1>5, <1>8, NotLess
<1>12. ScaleFor(Weight(j, inc)) <= ShiftFor(at, inc) /\ ScaleFor(Weight(j, inc)) \in Nat
  BY <1>8, <1>10, ShiftFound, ScaleForFits
<1>13. QED
  BY <1>1, <1>11, <1>12

\* An update of the set keeps all estimates tight.
LEMMA UpdateCacheCounters ==
  ASSUME CInv, NEW inc \in Batch, UpdateCache(inc)
  PROVE  TypeOK' /\ EstimateTight' /\ HotLine'
<1>1. PICK top, at : Chosen(inc, top, at)
  BY ChoiceMade DEF CInv
<1> DEFINE weight(l) == WeightAt(at, inc, l)
           shift == ShiftFor(at, inc)
<1>2. /\ \A l \in Line : weight(l) \in Nat /\ ScaleFor(weight(l)) <= shift
      /\ shift \in Nat /\ \E l \in Line : shift = ScaleFor(weight(l))
  BY <1>1, ShiftFound
<1>3. /\ \A l \in Line : tag'[l].id = at[l] /\ lfu'[l] = weight(l) \div Pow2[shift]
      /\ scale' = shift /\ DOMAIN lfu' = Line /\ count' = Counted(inc)
  BY <1>1 DEF Chosen
<1>4. ASSUME NEW l \in Line, at[l] # NoId
      PROVE  at[l] \in DOMAIN inc \cup Cached /\ at[l] \in Id /\ weight(l) = Weight(at[l], inc)
  BY <1>1, <1>4, CachedLines DEF Chosen, WeightAt, CInv, Batch
<1>5. scale \in Nat /\ scale <= MaxCount /\ MaxCount \in Nat /\ CounterBits - 1 \in Nat
  BY CounterAssumption DEF CInv, TypeOK
<1> HIDE DEF weight, shift
<1>6. ASSUME shift > 0
      PROVE  \E l \in Line : at[l] # NoId /\ shift = ScaleFor(weight(l))
                             /\ weight(l) \div Pow2[shift] >= Pow2[CounterBits - 1]
  <2>1. PICK l \in Line : shift = ScaleFor(weight(l))
    BY <1>2
  <2>2. at[l] # NoId
    BY <1>6, <2>1, NoShift DEF weight, WeightAt
  <2>3. QED
    BY <1>2, <1>6, <2>1, <2>2, HighestBit
<1>7. TypeOK'
  <2>1. StorageTypeOK'
    BY UpdateCacheInv DEF CInv, IInv
  <2>2. count' \in [Id -> 0 .. MaxCount]
    <3>1. ASSUME NEW i \in Id PROVE Counted(inc)[i] \in 0 .. MaxCount
      <4>1. CASE i \in DOMAIN inc
        <5>1. inc[i] \in Nat /\ count[i] \in Nat
          BY <4>1, CounterAssumption DEF Batch, CInv, TypeOK
        <5>2. count[i] + inc[i] <= MaxCount
          BY <1>1, <4>1 DEF Chosen
        <5>3. QED
          BY <1>5, <4>1, <5>1, <5>2 DEF Counted
      <4>2. CASE i \notin DOMAIN inc
        BY <4>2 DEF Counted, CInv, TypeOK
      <4>3. QED
        BY <4>1, <4>2
    <3>2. QED
      BY <1>3, <3>1 DEF Counted
  <2>3. lfu' \in [Line -> 0 .. Pow2[CounterBits] - 1]
    <3>1. ASSUME NEW l \in Line PROVE lfu'[l] \in 0 .. Pow2[CounterBits] - 1
      <4>1. weight(l) \div Pow2[shift] < Pow2[CounterBits]
        BY <1>2, LargerShiftFits
      <4>2. weight(l) \div Pow2[shift] \in Nat /\ Pow2[CounterBits] \in Nat
        BY <1>2, CounterAssumption, Pow2Facts, Shifted
      <4>3. QED
        BY <1>3, <4>1, <4>2
    <3>2. lfu' = [l \in Line |-> lfu'[l]]
      BY <1>1 DEF Chosen
    <3>3. QED
      BY <3>1, <3>2
  <2>4. scale' \in 0 .. MaxCount
    <3>1. SUFFICES ASSUME scale + 1 <= shift PROVE shift <= MaxCount
      BY <1>2, <1>3, <1>5
    <3>2. PICK l \in Line : /\ at[l] # NoId
                            /\ weight(l) \div Pow2[shift] >= Pow2[CounterBits - 1]
      BY <1>2, <1>5, <1>6, <3>1
    <3>3. shift - 1 \in Nat /\ (shift - 1) + 1 = shift /\ scale <= shift - 1
      BY <1>2, <1>5, <3>1
    <3>4. PICK q \in Nat \ {0} : /\ q = Pow2[shift - 1] /\ Pow2[shift] = 2 * q
                                 /\ shift - 1 < q /\ Pow2[scale] <= q
      BY <1>5, <3>3, Pow2Facts, Pow2Grows, SMTT(30)
    <3>5. 2 * q <= weight(l)
      <4>1. 2 * q \in Nat \ {0}
        BY <3>4
      <4>2. PICK a \in Nat : a = weight(l) \div (2 * q) /\ a * (2 * q) <= weight(l)
        BY <1>2, <4>1, Shifted
      <4>3. a >= 1
        BY <1>5, <3>2, <3>4, <4>2, Pow2Facts
      <4>4. 2 * q <= a * (2 * q) /\ a * (2 * q) \in Nat
        BY <4>1, <4>3, Z3
      <4>5. QED
        BY <1>2, <4>1, <4>2, <4>4
    <3>6. weight(l) < MaxCount + q
      <4>1. /\ Weight(at[l], inc) < Counted(inc)[at[l]] + Pow2[scale]
            /\ Counted(inc)[at[l]] \in Nat
        BY <1>4, <3>2, Weighed
      <4>2. Counted(inc)[at[l]] <= MaxCount
        BY <1>3, <1>4, <2>2, <3>2
      <4>3. Pow2[scale] \in Nat
        BY <1>5, Pow2Facts
      <4>4. QED
        BY <1>2, <1>4, <1>5, <3>2, <3>4, <4>1, <4>2, <4>3
    <3>7. QED
      BY <1>2, <1>5, <3>3, <3>4, <3>5, <3>6
  <2>5. QED
    BY <2>1, <2>2, <2>3, <2>4 DEF TypeOK
<1>8. EstimateTight'
  <2> SUFFICES ASSUME NEW l \in Line, at[l] # NoId
               PROVE  /\ count'[at[l]] <= Estimate(l)'
                      /\ Estimate(l)' < count'[at[l]] + Pow2[shift]
    BY <1>3 DEF EstimateTight
  <2>1. PICK w \in Nat, p \in Nat \ {0}, c \in Nat :
          /\ w = Weight(at[l], inc) /\ p = Pow2[shift] /\ c = Counted(inc)[at[l]]
          /\ Estimate(l)' = (w \div p) * p + p - 1
    <3>1. Weight(at[l], inc) \in Nat /\ Counted(inc)[at[l]] \in Nat
      BY <1>4, Weighed
    <3>2. Pow2[shift] \in Nat \ {0}
      BY <1>2, Pow2Facts
    <3>3. Estimate(l)' = (weight(l) \div Pow2[shift]) * Pow2[shift] + Pow2[shift] - 1
      BY <1>3 DEF Estimate
    <3>4. QED
      BY <1>4, <3>1, <3>2, <3>3
  <2>2. CASE at[l] \in DOMAIN inc
    <3>1. w = c
      BY <1>4, <2>1, <2>2, Weighed
    <3>2. QED
      BY <1>3, <2>1, <3>1, ExactRescaled
  <2>3. CASE at[l] \notin DOMAIN inc
    <3>1. at[l] \in Cached
      BY <1>4, <2>3
    <3>2. scale <= shift
      BY <1>1, <3>1, ScaleKept DEF shift
    <3>3. PICK k \in Nat \ {0} : Pow2[shift] = k * Pow2[scale]
      BY <1>2, <1>5, <3>2, Pow2Multiple
    <3>4. PICK m \in Line : Weight(at[l], inc) = lfu[m] * Pow2[scale] + Pow2[scale] - 1
      BY <1>4, <2>3, Weighed
    <3>5. c <= w /\ w < c + Pow2[scale]
      BY <1>4, <2>1, Weighed
    <3>6. PICK f \in Nat, u \in Nat \ {0} : f = lfu[m] /\ u = Pow2[scale]
      <4>1. Pow2[CounterBits] \in Nat
        BY CounterAssumption, Pow2Facts
      <4>2. QED
        BY <1>5, <4>1, Pow2Facts DEF CInv, TypeOK
    <3>7. w = f * u + u - 1 /\ p = k * u /\ w < c + u
      BY <2>1, <3>3, <3>4, <3>5, <3>6
    <3>8. c <= (w \div p) * p + p - 1 /\ (w \div p) * p + p - 1 < c + p
      BY <3>5, <3>7, EstimateRescaled
    <3>9. QED
      BY <1>3, <2>1, <3>8
  <2>4. QED
    BY <2>2, <2>3
<1>9. HotLine'
  <2> SUFFICES ASSUME shift > 0
               PROVE  \E l \in Line : at[l] # NoId /\ lfu'[l] >= Pow2[CounterBits - 1]
    BY <1>3 DEF HotLine
  <2>1. QED
    BY <1>3, <1>6
<1>10. QED
  BY <1>7, <1>8, <1>9

\* Tags name the same entries after a block of an optimizer kernel has stored one, and
\* after a write-back, or none after a drop; nothing else touches tags or counters.
LEMMA CountersAlone ==
  ASSUME CInv, StorageTypeOK', UNCHANGED counters,
         \/ \A l \in Line : tag'[l].id = tag[l].id
         \/ \A l \in Line : tag'[l].id = NoId
  PROVE  TypeOK' /\ EstimateTight' /\ HotLine'
<1>1. count' = count /\ lfu' = lfu /\ scale' = scale
  BY DEF counters
<1>2. TypeOK'
  BY <1>1 DEF CInv, TypeOK
<1>3. CASE \A l \in Line : tag'[l].id = tag[l].id
  <2>1. EstimateTight'
    BY <1>1, <1>3 DEF CInv, EstimateTight, Estimate
  <2>2. Cached' = Cached
    BY <1>3 DEF Cached
  <2>3. HotLine'
    BY <1>1, <1>3, <2>2 DEF CInv, HotLine
  <2>4. QED
    BY <1>2, <2>1, <2>3
<1>4. CASE \A l \in Line : tag'[l].id = NoId
  <2>1. EstimateTight'
    BY <1>4 DEF EstimateTight
  <2>2. Cached' = {}
    BY <1>4 DEF Cached
  <2>3. HotLine'
    BY <2>2 DEF HotLine
  <2>4. QED
    BY <1>2, <2>1, <2>3
<1>5. QED
  BY <1>3, <1>4

\* Every step keeps the invariant of the counters.
LEMMA CountersInv == CInv /\ [Next]_vars => CInv'
<1>1. SUFFICES ASSUME CInv, [Next]_vars PROVE TypeOK' /\ EstimateTight' /\ HotLine'
  BY NextInv, StutterInv DEF CInv
<1>2. StorageTypeOK'
  BY <1>1, NextInv, StutterInv DEF CInv, IInv
<1>3. ASSUME NEW inc \in Batch, UpdateCache(inc)
      PROVE  TypeOK' /\ EstimateTight' /\ HotLine'
  BY <1>1, <1>3, UpdateCacheCounters
<1>4. ASSUME NEW entries, LaunchStep(entries)
      PROVE  TypeOK' /\ EstimateTight' /\ HotLine'
  <2>1. tag' = tag /\ UNCHANGED counters
    BY <1>4 DEF LaunchStep, counters
  <2>2. QED
    BY <1>1, <1>2, <2>1, CountersAlone
<1>5. ASSUME NEW i \in Id, LoadTags(i)
      PROVE  TypeOK' /\ EstimateTight' /\ HotLine'
  <2>1. tag' = tag /\ UNCHANGED counters
    BY <1>5 DEF LoadTags, counters
  <2>2. QED
    BY <1>1, <1>2, <2>1, CountersAlone
<1>6. ASSUME NEW i \in Id, NEW v \in Value, StepEntry(i, v)
      PROVE  TypeOK' /\ EstimateTight' /\ HotLine'
  <2>1. UNCHANGED counters
    BY <1>6 DEF StepEntry, counters
  <2>2. tag \in [Line -> Tag] /\ \A l \in Line : block[i].tags[l].id = tag[l].id
    BY <1>1, <1>6 DEF CInv, IInv, SnapshotsCurrent, StorageTypeOK, StepEntry
  <2>3. \/ tag' = tag
        \/ \E l : tag' = [tag EXCEPT ![l] = SetModified(block[i].tags[l])]
    BY <1>6 DEF StepEntry
  <2>4. \A l \in Line : tag'[l].id = tag[l].id
    BY <2>2, <2>3 DEF SetModified
  <2>5. QED
    BY <1>1, <1>2, <2>1, <2>4, CountersAlone
<1>7. ASSUME NEW dropAll \in BOOLEAN, WriteBack(dropAll)
      PROVE  TypeOK' /\ EstimateTight' /\ HotLine'
  <2>1. UNCHANGED counters /\ \A l \in Line : tag'[l] = IF dropAll THEN Empty ELSE ClearModified(tag[l])
    BY <1>7 DEF WriteBack, counters
  <2>2. \/ \A l \in Line : tag'[l].id = tag[l].id
        \/ \A l \in Line : tag'[l].id = NoId
    <3>1. CASE dropAll
      <4>1. Empty.id = NoId
        BY DEF Empty
      <4>2. \A l \in Line : tag'[l] = Empty
        BY <2>1, <3>1
      <4>3. QED
        BY <4>1, <4>2
    <3>2. CASE ~ dropAll
      <4>1. \A l \in Line : ClearModified(tag[l]).id = tag[l].id
        BY DEF ClearModified
      <4>2. \A l \in Line : tag'[l] = ClearModified(tag[l])
        BY <2>1, <3>2
      <4>3. QED
        BY <4>1, <4>2
    <3>3. QED
      BY <3>1, <3>2
  <2>3. QED
    BY <1>1, <1>2, <2>1, <2>2, CountersAlone
<1>8. CASE UNCHANGED vars
  <2>1. tag' = tag /\ UNCHANGED counters
    BY <1>8 DEF vars, counters
  <2>2. QED
    BY <1>1, <1>2, <2>1, CountersAlone
<1>9. QED
  BY <1>1, <1>3, <1>4, <1>5, <1>6, <1>7, <1>8 DEF Next

LEMMA CountersInvariance == Spec => []CInv
<1>1. Init => CInv
  <2>1. SUFFICES ASSUME Init PROVE CInv
    OBVIOUS
  <2>2. IInv /\ StorageTypeOK
    BY <2>1, InitInv DEF IInv
  <2>3. Pow2[CounterBits] \in Nat \ {0}
    BY CounterAssumption, Pow2Facts
  <2>4. TypeOK
    BY <2>1, <2>2, <2>3, CounterAssumption DEF TypeOK, Init
  <2>5. EstimateTight /\ HotLine
    BY <2>1 DEF EstimateTight, HotLine, Init, Empty
  <2>6. QED
    BY <2>2, <2>4, <2>5 DEF CInv
<1>2. QED
  BY <1>1, CountersInv, PTL DEF Spec

-----------------------------------------------------------------------------
\* Counters stay within their bits, for any number of them, and the scale within the
\* number of accesses.
THEOREM TypeCorrect == Spec => []TypeOK
<1>1. CInv => TypeOK  BY DEF CInv
<1>2. QED  BY <1>1, CountersInvariance, PTL

\* The scaled counter of a cached entry never falls below its accesses and is never a
\* unit of the scale above them, however often the set is rescaled.
THEOREM EstimatesTight == Spec => []EstimateTight
<1>1. CInv => EstimateTight  BY DEF CInv
<1>2. QED  BY <1>1, CountersInvariance, PTL

\* No update of the set prefers an entry to one that was accessed more often, up to one
\* unit of the scale.
THEOREM HottestKept == Spec => KeepsHottest
<1> DEFINE updated == {i \in Id : count'[i] # count[i]}
           Hottest == \A i \in Cached', j \in (updated \cup Cached) \ Cached' :
                        count'[j] < count'[i] + Pow2[scale']
<1>1. ASSUME CInv, NEW inc \in Batch, UpdateCache(inc) PROVE Hottest
  <2>1. PICK top, at : Chosen(inc, top, at)
    BY <1>1, ChoiceMade DEF CInv
  <2>2. /\ top \in SUBSET (DOMAIN inc \cup Cached) /\ top \in SUBSET Id
        /\ count' = Counted(inc) /\ scale' = ShiftFor(at, inc)
        /\ \A l \in Line : tag'[l].id = at[l]
        /\ at \in [Line -> top \cup {NoId}]
        /\ \A i \in top : \E l \in Line : at[l] = i
    BY <1>1, <2>1, CachedLines DEF Chosen, CInv, Batch
  <2>3. Cached' = top
    <3>1. Cached' = {at[l] : l \in Line} \ {NoId}
      BY <2>2 DEF Cached
    <3>2. NoId \notin top
      BY <2>2, LineFacts
    <3>3. QED
      BY <2>2, <3>1, <3>2
  <2>4. updated \subseteq DOMAIN inc
    BY <2>2 DEF Counted
  <2>5. SUFFICES ASSUME NEW i \in top, NEW j \in (DOMAIN inc \cup Cached) \ top
                 PROVE  count'[j] < count'[i] + Pow2[scale']
    BY <2>3, <2>4
  <2>6. Weight(i, inc) >= Weight(j, inc)
    BY <2>1 DEF Chosen
  <2>7. /\ Weight(j, inc) \in Nat /\ Counted(inc)[j] \in Nat
        /\ Counted(inc)[j] <= Weight(j, inc)
    BY <1>1, Weighed
  <2>8. /\ Weight(i, inc) \in Nat /\ Counted(inc)[i] \in Nat
        /\ Weight(i, inc) < Counted(inc)[i] + Pow2[scale]
        /\ i \in DOMAIN inc => Weight(i, inc) = Counted(inc)[i]
    BY <1>1, <2>2, Weighed
  <2>9. scale' \in Nat /\ scale \in Nat /\ Pow2[scale'] \in Nat \ {0} /\ Pow2[scale] \in Nat
    BY <1>1, <2>1, <2>2, ShiftFound, Pow2Facts, CounterAssumption DEF CInv, TypeOK
  <2>10. CASE i \in DOMAIN inc
    BY <2>2, <2>6, <2>7, <2>8, <2>9, <2>10
  <2>11. CASE i \notin DOMAIN inc
    <3>1. Cached # {}
      BY <2>2, <2>11
    <3>2. scale <= scale'
      BY <1>1, <2>1, <2>2, <3>1, ScaleKept
    <3>3. Pow2[scale] <= Pow2[scale']
      BY <2>9, <3>2, Pow2Grows
    <3>4. QED
      BY <2>2, <2>6, <2>7, <2>8, <2>9, <3>3
  <2>12. QED
    BY <2>10, <2>11
<1>2. ASSUME CInv, [Next]_vars, updated # {} PROVE Hottest
  <2>1. count' # count
    BY <1>2
  <2>2. \E inc \in Batch : UpdateCache(inc)
    BY <1>2, <2>1 DEF Next, vars, LaunchStep, LoadTags, StepEntry, WriteBack
  <2>3. QED
    BY <1>1, <1>2, <2>2
<1>3. CInv /\ [Next]_vars => [updated # {} => Hottest]_vars
  BY <1>2
<1>4. QED
  BY <1>3, CountersInvariance, PTL DEF Spec, KeepsHottest
=============================================================================
