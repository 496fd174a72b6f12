-------------------------- MODULE DistributedTable --------------------------
(***************************************************************************)
(* Gather and scatter on a table in DISTRIBUTED memory: each rank holds    *)
(* the entries it owns, and nobody can read or write those of another.     *)
(*                                                                         *)
(* All ranks call the same operation, each with a batch of indices of its  *)
(* own.  A rank counts its indices by owner, sorts them and sends each to  *)
(* its owner.  For a gather the owners send the rows back, and the rank    *)
(* puts them into the order of its batch; for a scatter it sends the rows  *)
(* along, and the owners store them.  The ranks meet in three exchanges    *)
(* per call; between them each goes at its own speed.                      *)
(*                                                                         *)
(* A row that is scattered is told from all others by its call, rank and   *)
(* position.  A row stands for one vector of it (see GatherScatter): of    *)
(* rows for one entry in one call, parts of each may stay.                 *)
(***************************************************************************)
EXTENDS EntryPartition, IndexSort

CONSTANTS
  WorldSize,  \* number of ranks
  Offsets,    \* the partition of the table
  Batches,    \* the batches of indices; a negative index names no entry
  Untouched,  \* what is in an output row before it is written
  OutOfBounds,\* what is behind the end of the memory of a rank
  MaxOps      \* bound on the length of the program

ASSUME PartitionAssumption ==
  WorldSize \in Nat \ {0} /\ IsPartition(Offsets, WorldSize) /\ GuessInRange(Offsets, WorldSize)

Total == Offsets[WorldSize]
Rank  == 0 .. WorldSize - 1
Entry == 0 .. Total - 1

\* Indices are signed: half of their range is below 0.
ASSUME BatchesAssumption ==
  /\ IndexRange \in Nat /\ 2 * Total <= IndexRange
  /\ Batches \subseteq Seq(Int)
  /\ \A b \in Batches : \A i \in DOMAIN b : -IndexRange <= 2 * b[i] /\ b[i] < Total

ASSUME MaxOpsAssumption == MaxOps \in Nat

VARIABLES
  program,  \* the calls made so far by the rank furthest ahead
  done,     \* done[r]: the call r has completed last
  stage,    \* what r does: "idle", or the exchange it waits in: of "counts",
            \*   of "ids" or of "rows"
  entered,  \* entered[r]: the exchanges r has entered
  rank_id_count, \* rank_id_count[r][q]: the indices of r that q owns
  recv_count,    \* recv_count[r][q]: those of q that r owns
  raw_indices,   \* raw_indices[r]: the positions of its batch, by index
  ids_out,  \* ids_out[r][q]: the indices r sends to q
  recv_ids, \* recv_ids[r]: the indices r received
  rows_out, \* rows_out[r][q]: the rows r sends to q
  local,    \* local[r]: the memory of r, by entry
  output    \* output[k][r]: the rows call k gathered for r

vars == <<program, done, stage, entered, rank_id_count, recv_count, raw_indices,
          ids_out, recv_ids, rows_out, local, output>>

-----------------------------------------------------------------------------
Behind(r) == done[r] < Len(program)
Call(r)   == program[done[r] + 1]
Indices(r) == Call(r).batch[r]

Initially(e) == <<0, 0, e>>
Row(k, r, i) == <<k, r, i>>

Enter(r, what) ==
  /\ stage'   = [stage EXCEPT ![r] = what]
  /\ entered' = [entered EXCEPT ![r] = @ + 1]

\* Mutant of Through: a rank looks where the others are, not how far they came.
ThroughTogether(r, what) == stage[r] = what /\ \A q \in Rank : stage[q] = what

\* An exchange returns at a rank once all of them have entered it.
Through(r, what) == stage[r] = what /\ \A q \in Rank : entered[q] >= entered[r]

Return(r) ==
  /\ stage' = [stage EXCEPT ![r] = "idle"]
  /\ done'  = [done EXCEPT ![r] = @ + 1]

\* What is cut into pieces of the given sizes, and what r got from all ranks.
CountBelow(counts, q) == SumFunctionOnSet(counts, 0 .. q - 1)

Pieces(seq, counts) ==
  [q \in Rank |-> SubSeq(seq, CountBelow(counts, q) + 1, CountBelow(counts, q) + counts[q])]

FromAll(out, r) == FlattenSeq([i \in 1 .. WorldSize |-> out[i - 1][r]])

-----------------------------------------------------------------------------
\* All ranks make the same call, each with its own batch.
Issue(op, batch) ==
  /\ Len(program) < MaxOps
  /\ \E r \in Rank : stage[r] = "idle" /\ ~ Behind(r)
  /\ program' = Append(program, [op |-> op, batch |-> batch])
  /\ UNCHANGED <<done, stage, entered, rank_id_count, recv_count, raw_indices, ids_out,
                 recv_ids, rows_out, local, output>>

\* bucket_ids_for_ranks: see IdBuckets.
Owner(e) == CHOOSE r \in DestRanks(Offsets, WorldSize, e) : TRUE

CountsOf(batch) ==
  [q \in Rank |-> Cardinality({i \in DOMAIN batch : batch[i] >= 0 /\ Owner(batch[i]) = q})]

Bucket(r) ==
  /\ stage[r] = "idle" /\ Behind(r)
  /\ rank_id_count' = [rank_id_count EXCEPT ![r] = CountsOf(Indices(r))]
  /\ Enter(r, "counts")
  /\ UNCHANGED <<program, done, recv_count, raw_indices, ids_out, recv_ids, rows_out,
                 local, output>>

\* The counts are exchanged; the indices are sorted and exchanged.
SendIds(r) ==
  /\ Through(r, "counts")
  /\ recv_count'  = [recv_count EXCEPT ![r] = [q \in Rank |-> rank_id_count[q][r]]]
  /\ raw_indices' = [raw_indices EXCEPT ![r] = Sorted(Indices(r))]
  /\ ids_out' =
       [ids_out EXCEPT ![r] =
          Pieces([i \in DOMAIN Indices(r) |-> Indices(r)[raw_indices'[r][i]]], rank_id_count[r])]
  /\ Enter(r, "ids")
  /\ UNCHANGED <<program, done, rank_id_count, recv_ids, rows_out, local, output>>

\* gather_func on the memory of r, with its start moved back by its offset.
LocalRow(r, e) == IF Owns(Offsets, r, e) THEN local[r][e] ELSE OutOfBounds

\* Gather: the owner looks up the rows.  Scatter: the caller sorts them.
SendRows(r) ==
  /\ Through(r, "ids")
  /\ recv_ids' = [recv_ids EXCEPT ![r] = FromAll(ids_out, r)]
  /\ rows_out' =
       [rows_out EXCEPT ![r] =
          IF Call(r).op = "gather"
          THEN Pieces([i \in DOMAIN recv_ids'[r] |-> LocalRow(r, recv_ids'[r][i])], recv_count[r])
          ELSE Pieces([i \in DOMAIN raw_indices[r] |-> Row(done[r] + 1, r, raw_indices[r][i])],
                      rank_id_count[r])]
  /\ Enter(r, "rows")
  /\ UNCHANGED <<program, done, rank_id_count, recv_count, raw_indices, ids_out, local, output>>

\* Mutant of Reorder: the rows stay in the order of the sorted indices.
ReorderNot(rows, order) ==
  [i \in DOMAIN order |-> IF i \in DOMAIN rows THEN rows[i] ELSE Untouched]

\* scatter_func of the rows that came to where their indices were in the batch.
Reorder(rows, order) ==
  [i \in DOMAIN order |->
     IF \E j \in DOMAIN rows : order[j] = i
     THEN rows[CHOOSE j \in DOMAIN rows : order[j] = i] ELSE Untouched]

FinishGather(r) ==
  /\ Through(r, "rows") /\ Call(r).op = "gather"
  /\ output' = [output EXCEPT ![done[r] + 1][r] = Reorder(FromAll(rows_out, r), raw_indices[r])]
  /\ Return(r)
  /\ UNCHANGED <<program, entered, rank_id_count, recv_count, raw_indices, ids_out, recv_ids,
                 rows_out, local>>

\* The warps of scatter_func store in any order: of several rows for one entry any
\* may stay.
Stored(e, ids) == {i \in DOMAIN ids : ids[i] = e}

FinishScatter(r) ==
  /\ Through(r, "rows") /\ Call(r).op = "scatter"
  /\ LET ids  == recv_ids[r]
         rows == FromAll(rows_out, r)
     IN  \E last \in [Range(ids) -> DOMAIN ids] :
           /\ \A e \in Range(ids) : last[e] \in Stored(e, ids)
           /\ local' = [local EXCEPT ![r] = [e \in DOMAIN @ |->
                          IF e \in Range(ids) THEN rows[last[e]] ELSE @[e]]]
  /\ Return(r)
  /\ UNCHANGED <<program, entered, rank_id_count, recv_count, raw_indices, ids_out, recv_ids,
                 rows_out, output>>

Init ==
  /\ program = << >> /\ done = [r \in Rank |-> 0]
  /\ stage = [r \in Rank |-> "idle"] /\ entered = [r \in Rank |-> 0]
  /\ rank_id_count = [r \in Rank |-> [q \in Rank |-> 0]]
  /\ recv_count    = [r \in Rank |-> [q \in Rank |-> 0]]
  /\ raw_indices = [r \in Rank |-> << >>]
  /\ ids_out  = [r \in Rank |-> [q \in Rank |-> << >>]]
  /\ recv_ids = [r \in Rank |-> << >>]
  /\ rows_out = [r \in Rank |-> [q \in Rank |-> << >>]]
  /\ local  = [r \in Rank |-> [e \in {f \in Entry : Owns(Offsets, r, f)} |-> Initially(e)]]
  /\ output = [k \in 1 .. MaxOps |-> [r \in Rank |-> << >>]]

Step(r) == Bucket(r) \/ SendIds(r) \/ SendRows(r) \/ FinishGather(r) \/ FinishScatter(r)

AllDone == \A r \in Rank : stage[r] = "idle" /\ ~ Behind(r)

Finished == Len(program) = MaxOps /\ AllDone /\ UNCHANGED vars

Next ==
  \/ \E op \in {"gather", "scatter"}, batch \in [Rank -> Batches] : Issue(op, batch)
  \/ \E r \in Rank : Step(r)
  \/ Finished

Spec == Init /\ [][Next]_vars

\* Ranks keep running: one that can go on does so.
FairSpec == Spec /\ \A r \in Rank : WF_vars(Step(r))

-----------------------------------------------------------------------------
\* The rows that call j, a scatter, brings for entry e, the calls before k that
\* bring any, and the rows a gather in call k may see.
RowsFor(j, e) ==
  UNION {{Row(j, r, i) : i \in Stored(e, program[j].batch[r])} : r \in Rank}

Scatters(k, e) == {j \in 1 .. k - 1 : program[j].op = "scatter" /\ RowsFor(j, e) # {}}

Visible(k, e) ==
  IF Scatters(k, e) = {} THEN {Initially(e)} ELSE RowsFor(Max(Scatters(k, e)), e)

Gathered(k, r) == k <= done[r] /\ program[k].op = "gather"

SeesLast(k, r) ==
  /\ Len(output[k][r]) = Len(program[k].batch[r])
  /\ \A i \in DOMAIN output[k][r] :
       LET e == program[k].batch[r][i]
       IN  IF e < 0 THEN output[k][r][i] = Untouched ELSE output[k][r][i] \in Visible(k, e)

Agree(k, r, l, q) ==
  \A i \in DOMAIN output[k][r], j \in DOMAIN output[l][q] :
    LET e == program[k].batch[r][i]
    IN  e >= 0 /\ e = program[l].batch[q][j] /\ Scatters(k, e) = Scatters(l, e)
          => output[k][r][i] = output[l][q][j]

\* A gather returns, for every index of the batch and in its order, a row that the
\* last scatter before it stored at that entry, by whichever rank it came from and
\* however far the ranks are apart; it leaves the rows of negative indices alone.
\* Ranks that gather an entry between the same scatters get the same row, also when
\* several rows were scattered to it at once.
GatherSeesScatters ==
  \A k \in DOMAIN program, r \in Rank :
    Gathered(k, r) =>
      /\ SeesLast(k, r)
      /\ \A l \in DOMAIN program, q \in Rank : Gathered(l, q) => Agree(k, r, l, q)

\* Where ranks meet, each receives from each as much as that one sends to it, and the
\* indices it gets are of entries it owns.
CountsMatch ==
  \A r \in Rank :
    /\ \A i \in DOMAIN recv_ids[r] : Owns(Offsets, r, recv_ids[r][i])
    /\ \A q \in Rank :
         /\ Through(r, "ids")  => Len(ids_out[q][r]) = recv_count[r][q]
         /\ Through(r, "rows") =>
              Len(rows_out[q][r]) = IF Call(r).op = "gather" THEN rank_id_count[r][q]
                                    ELSE recv_count[r][q]

\* Every call returns at every rank.
CallsReturn == []<>AllDone
=============================================================================
