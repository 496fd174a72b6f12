--------------------------- MODULE CachedEmbedding ---------------------------
(***************************************************************************)
(* An embedding whose rows are cached, used by several ranks that make the *)
(* same calls.  A rank caches entries that it owns; its cache set has one  *)
(* line here (CacheSet is about the lines of a set).  What a rank can read *)
(* depends on the kind of the cache:                                       *)
(*   "shared"       every rank reads the lines of all ranks;               *)
(*   "distributed"  a rank reads its own lines and sends rows to others;   *)
(*   "readonly"     as shared, of a raw embedding elsewhere, without steps.*)
(* A call puts kernels on the stream of the rank and often returns before  *)
(* they have run.  The ranks are kept in order only by the exchanges of    *)
(* ids, before which each waits for its stream, and by barriers.           *)
(***************************************************************************)
EXTENDS Integers, FiniteSetsExt, SequencesExt

CONSTANTS
  Rank,
  Owner,   \* Owner[e]: the rank that owns, and caches, entry e
  Kinds,   \* the kinds of cache
  Batches, \* the batches of a call: for each rank the entries it names
  MaxOps   \* bound on the length of the program

Entry == DOMAIN Owner

ASSUME OwnerAssumption   == Owner \in [Entry -> Rank] /\ "none" \notin Entry
ASSUME KindsAssumption   == Kinds \subseteq {"shared", "distributed", "readonly"}
ASSUME BatchesAssumption == Batches \subseteq [Rank -> SUBSET Entry]
ASSUME MaxOpsAssumption  == MaxOps \in Nat

VARIABLES
  kind,    \* the kind of the cache
  program, \* the calls made so far by the rank furthest ahead
  done,    \* done[r]: the call r has returned from last
  stage,   \* stage[r]: "idle", or what r waits for: "exchange", "stream", "barrier"
  entered, \* entered[r]: the exchanges and barriers r has entered
  stream,  \* stream[r]: the kernels r has launched that have not ended
  seen,    \* seen[r][e]: the tag the reading kernel of r has loaded for entry e
  rows,    \* rows[r][e]: the row it has read for entry e
  sent,    \* sent[k][r]: the rows r sends to others in call k
  output,  \* output[k][r]: what call k gathered for r
  mem,     \* mem[e]: entry e in the raw embedding
  tag,     \* tag[r]: the entry in the line of r and whether it is modified
  data     \* data[r]: the row in the line of r

host    == <<kind, program, done, stage, entered>>
reading == <<seen, rows, sent, output>>
storage == <<mem, tag, data>>
vars ==
  <<kind, program, done, stage, entered, stream, seen, rows, sent, output, mem, tag, data>>

-----------------------------------------------------------------------------
\* A row: the entry it belongs to and the call that wrote it, 0 before all steps.
Row      == (Entry \cup {"none"}) \X (0 .. MaxOps)
Unfilled == <<"none", 0>>

Empty == [id |-> "none", modified |-> FALSE]

NoRows == [e \in {} |-> Unfilled]

Behind(r) == done[r] < Len(program)
Call(r)   == program[done[r] + 1]

Named(k) == UNION {program[k].batch[r] : r \in Rank}

\* The indices of call k that the exchange brings to their owner.
Received(k, r) == {e \in Named(k) : Owner[e] = r}

\* A call starts with an exchange of ids, unless it is a gather that leaves the
\* cache as it is and can read the lines of all ranks.
Exchanges(call) ==
  \/ call.op = "step"
  \/ call.op = "gather" /\ (call.adjust \/ kind = "distributed")

Kernel(name, k, ids) == [name |-> name, call |-> k, ids |-> ids]

\* Nothing is launched for no ids.
KernelFor(name, k, ids) == IF ids = {} THEN << >> ELSE <<Kernel(name, k, ids)>>

\* UpdateCacheDirectKernel; for a read-only cache the new tags are stored before
\* the rows are fetched, with a gather from the raw embedding.
UpdateKernels(r, k) ==
  IF kind = "readonly"
  THEN KernelFor("choose", k, Received(k, r)) \o KernelFor("fill", k, Received(k, r))
  ELSE KernelFor("update", k, Received(k, r))

\* gather_cached_func; behind a distributed cache the rows are then exchanged.  A
\* read-only cache is only tried, and what it misses gathered from the raw embedding.
ReadKernels(r, k) ==
  LET batch == program[k].batch[r]
  IN  CASE kind = "shared"      -> KernelFor("read", k, batch)
        [] kind = "distributed" -> KernelFor("read", k, Received(k, r))
                                     \o <<Kernel("collect", k, batch)>>
        [] kind = "readonly"    -> KernelFor("try", k, batch) \o KernelFor("fetch", k, batch)

\* WriteBackCacheDirectKernel; a read-only cache is emptied without writing back.
WriteBackKernels(k) ==
  (IF kind = "readonly" THEN << >> ELSE <<Kernel("copy", k, {})>>)
  \o <<Kernel(IF program[k].op = "drop" THEN "clear" ELSE "clean", k, {})>>

Launch(r, kernels) == stream' = [stream EXCEPT ![r] = @ \o kernels]
Ended(r)           == stream' = [stream EXCEPT ![r] = Tail(@)]

Enter(r, what) ==
  /\ stage'   = [stage EXCEPT ![r] = what]
  /\ entered' = [entered EXCEPT ![r] = @ + 1]

Through(r, what) == stage[r] = what /\ \A q \in Rank : entered[q] >= entered[r]

Return(r) ==
  /\ stage' = [stage EXCEPT ![r] = "idle"]
  /\ done'  = [done EXCEPT ![r] = @ + 1]
  /\ UNCHANGED <<program, entered>>

WaitForStream(r) ==
  /\ stage' = [stage EXCEPT ![r] = "stream"]
  /\ UNCHANGED <<program, done, entered>>

-----------------------------------------------------------------------------
\* Steps by other ranks may run until the application has waited for its stream
\* and met the others: in a call that ends with a barrier, or by itself.
Settles(call) == call.op \in {"writeback", "drop", "fence"} \/ (call.op = "gather" /\ call.adjust)

StepsSettled ==
  \A k \in DOMAIN program :
    program[k].op = "step" => \E j \in DOMAIN program : j > k /\ Settles(program[j])

\* All ranks make the same call, each with its own batch.  The raw embedding of a
\* read-only cache is not trained.  A cache that is read without an exchange is
\* not read before the steps are settled; the application waits for nothing else.
Issue(op, adjust, batch) ==
  /\ Len(program) < MaxOps
  /\ \E r \in Rank : stage[r] = "idle" /\ ~ Behind(r)
  /\ op = "step" => kind # "readonly"
  /\ op = "fence" => ~ StepsSettled
  /\ op = "gather" /\ ~ adjust /\ kind = "shared" => StepsSettled
  /\ program' = Append(program, [op |-> op, adjust |-> adjust, batch |-> batch])
  /\ UNCHANGED <<done, stage, entered, stream, reading, storage, kind>>

\* Mutant of Exchange: a rank does not wait for its stream.
ExchangeAtOnce(r) ==
  /\ stage[r] = "idle" /\ Behind(r) /\ Exchanges(Call(r))
  /\ Enter(r, "exchange")
  /\ UNCHANGED <<program, done, stream, reading, storage, kind>>

\* bucket_and_exchange_ids_func: the counts are copied to the host, so that all
\* earlier kernels of the rank have ended, and exchanged, and the ids with them.
Exchange(r) ==
  /\ stage[r] = "idle" /\ Behind(r) /\ Exchanges(Call(r))
  /\ stream[r] = << >>
  /\ Enter(r, "exchange")
  /\ UNCHANGED <<program, done, stream, reading, storage, kind>>

\* gather_gradient_apply returns once the optimizer kernel has been launched.
Train(r) ==
  /\ Through(r, "exchange") /\ Call(r).op = "step"
  /\ LET k == done[r] + 1
     IN  Launch(r, (IF Call(r).adjust THEN UpdateKernels(r, k) ELSE << >>)
                     \o KernelFor("step", k, Received(k, r)))
  /\ Return(r)
  /\ UNCHANGED <<reading, storage, kind>>

\* A gather that adjusts the cache waits until the update has run ...
AdjustCache(r) ==
  /\ Through(r, "exchange") /\ Call(r).op = "gather" /\ Call(r).adjust
  /\ Launch(r, UpdateKernels(r, done[r] + 1))
  /\ WaitForStream(r)
  /\ UNCHANGED <<reading, storage, kind>>

\* ... and any other launches its kernels and returns.
Gather(r) ==
  /\ \/ Through(r, "exchange")
     \/ stage[r] = "idle" /\ Behind(r) /\ ~ Exchanges(Call(r))
  /\ Call(r).op = "gather" /\ ~ Call(r).adjust
  /\ Launch(r, ReadKernels(r, done[r] + 1))
  /\ Return(r)
  /\ UNCHANGED <<reading, storage, kind>>

\* writeback_all_caches, drop_all_caches.  The first does nothing if the cache is
\* read-only.
WriteBack(r) ==
  /\ stage[r] = "idle" /\ Behind(r) /\ Call(r).op \in {"writeback", "drop"}
  /\ IF kind = "readonly" /\ Call(r).op = "writeback"
     THEN Return(r) /\ UNCHANGED stream
     ELSE Launch(r, WriteBackKernels(done[r] + 1)) /\ WaitForStream(r)
  /\ UNCHANGED <<reading, storage, kind>>

\* The application waits for its stream and calls barrier.
Fence(r) ==
  /\ stage[r] = "idle" /\ Behind(r) /\ Call(r).op = "fence"
  /\ WaitForStream(r)
  /\ UNCHANGED <<stream, reading, storage, kind>>

\* Mutant of Barrier: a rank to which no ids came skips the barrier.
BarrierIfUsed(r) ==
  /\ stage[r] = "stream" /\ stream[r] = << >>
  /\ IF Received(done[r] + 1, r) = {} THEN Return(r)
     ELSE Enter(r, "barrier") /\ UNCHANGED <<program, done>>
  /\ UNCHANGED <<stream, reading, storage, kind>>

Barrier(r) ==
  /\ stage[r] = "stream" /\ stream[r] = << >>
  /\ Enter(r, "barrier")
  /\ UNCHANGED <<program, done, stream, reading, storage, kind>>

\* Mutant of AfterBarrier: a rank goes on without the others.
AfterBarrierAlone(r) ==
  /\ stage[r] = "barrier"
  /\ Launch(r, IF Call(r).op = "gather" THEN ReadKernels(r, done[r] + 1) ELSE << >>)
  /\ Return(r)
  /\ UNCHANGED <<reading, storage, kind>>

AfterBarrier(r) ==
  /\ Through(r, "barrier")
  /\ Launch(r, IF Call(r).op = "gather" THEN ReadKernels(r, done[r] + 1) ELSE << >>)
  /\ Return(r)
  /\ UNCHANGED <<reading, storage, kind>>

-----------------------------------------------------------------------------
\* The kernel of r that runs now.
Runs(r, name) == stream[r] # << >> /\ Head(stream[r]).name = name
Now(r)        == Head(stream[r])

\* Mutant of CopiedBack: nothing is copied.
NotCopiedBack(r) == mem

\* The raw embedding with the line of r copied to it if it is modified.
CopiedBack(r) == IF tag[r].modified THEN [mem EXCEPT ![tag[r].id] = data[r]] ELSE mem

\* The entries one of which is in the line of r after an update; which one is
\* decided by the access counts.
Candidates(r) == Now(r).ids \cup ({tag[r].id} \ {"none"})

\* What is evicted is written back, what is new is loaded.
RunUpdate(r) ==
  /\ Runs(r, "update")
  /\ \E e \in Candidates(r) :
       IF e = tag[r].id THEN UNCHANGED storage
       ELSE /\ mem'  = CopiedBack(r)
            /\ tag'  = [tag EXCEPT ![r] = [id |-> e, modified |-> FALSE]]
            /\ data' = [data EXCEPT ![r] = mem[e]]
  /\ Ended(r)
  /\ UNCHANGED <<host, reading>>

\* DetermineLoadCacheKernel stores the tags, ...
RunChoose(r) ==
  /\ Runs(r, "choose")
  /\ \E e \in Candidates(r) : tag' = [tag EXCEPT ![r] = [id |-> e, modified |-> FALSE]]
  /\ Ended(r)
  /\ UNCHANGED <<host, reading, mem, data>>

\* ... a gather and a scatter bring the rows.
RunFill(r) ==
  /\ Runs(r, "fill")
  /\ data' = [data EXCEPT ![r] = mem[tag[r].id]]
  /\ Ended(r)
  /\ UNCHANGED <<host, reading, mem, tag>>

\* A block of the optimizer kernel: see StepEntry of CacheSet.
RunStep(r) ==
  /\ Runs(r, "step")
  /\ \E e \in Now(r).ids :
       LET new == <<e, Now(r).call>>
       IN  /\ IF tag[r].id = e
              THEN /\ data' = [data EXCEPT ![r] = new]
                   /\ tag'  = [tag EXCEPT ![r].modified = TRUE]
                   /\ UNCHANGED mem
              ELSE mem' = [mem EXCEPT ![e] = new] /\ UNCHANGED <<tag, data>>
           /\ IF Now(r).ids = {e} THEN Ended(r)
              ELSE stream' = [stream EXCEPT ![r][1].ids = @ \ {e}]
  /\ UNCHANGED <<host, reading>>

\* The two phases of WriteBackCacheDirectKernel.
RunCopy(r) ==
  /\ Runs(r, "copy")
  /\ mem' = CopiedBack(r)
  /\ Ended(r)
  /\ UNCHANGED <<host, reading, tag, data>>

RunStoreTags(r) ==
  /\ Runs(r, "clean") \/ Runs(r, "clear")
  /\ tag' = IF Now(r).name = "clear" THEN [tag EXCEPT ![r] = Empty]
            ELSE [tag EXCEPT ![r].modified = FALSE]
  /\ Ended(r)
  /\ UNCHANGED <<host, reading, mem, data>>

\* A block of gather_cached_kernel or of try_gather_cached_kernel loads the tags of
\* the set of its entry, ...
LoadTag(r, e) ==
  /\ Runs(r, "read") \/ Runs(r, "try")
  /\ e \in Now(r).ids \ DOMAIN seen[r]
  /\ seen' = [seen EXCEPT ![r] = [f \in DOMAIN @ \cup {e} |->
                                    IF f = e THEN tag[Owner[e]] ELSE @[f]]]
  /\ UNCHANGED <<host, stream, rows, sent, output, storage>>

\* The rows r has read, with that of e.
WithRow(r, e, row) == [f \in DOMAIN rows[r] \cup {e} |-> IF f = e THEN row ELSE rows[r][f]]

\* ... then reads the line they name or the raw embedding.  The kernel ends with
\* its last block.
ReadRow(r, e) ==
  /\ Runs(r, "read") /\ e \in DOMAIN seen[r] \ DOMAIN rows[r]
  /\ LET row == IF seen[r][e].id = e THEN data[Owner[e]] ELSE mem[e]
         all == WithRow(r, e, row)
     IN  IF DOMAIN all # Now(r).ids
         THEN /\ rows' = [rows EXCEPT ![r] = all]
              /\ UNCHANGED <<stream, seen, sent, output>>
         ELSE /\ IF kind = "distributed"
                 THEN sent' = [sent EXCEPT ![Now(r).call][r] = all] /\ UNCHANGED output
                 ELSE output' = [output EXCEPT ![Now(r).call][r] = all] /\ UNCHANGED sent
              /\ seen' = [seen EXCEPT ![r] = NoRows]
              /\ rows' = [rows EXCEPT ![r] = NoRows]
              /\ Ended(r)
  /\ UNCHANGED <<host, storage>>

\* If the line does not hold the entry, try_gather_cached_kernel lists it as missed ...
TryRow(r, e) ==
  /\ Runs(r, "try") /\ e \in DOMAIN seen[r] \ DOMAIN rows[r]
  /\ LET all == WithRow(r, e, IF seen[r][e].id = e THEN data[Owner[e]] ELSE Unfilled)
     IN  /\ rows' = [rows EXCEPT ![r] = all]
         /\ IF DOMAIN all # Now(r).ids THEN UNCHANGED <<stream, seen>>
            ELSE seen' = [seen EXCEPT ![r] = NoRows] /\ Ended(r)
  /\ UNCHANGED <<host, sent, output, storage>>

\* ... for wholegraph_gather, which leaves the rows of all others as they are.
RunFetch(r) ==
  /\ Runs(r, "fetch")
  /\ output' = [output EXCEPT ![Now(r).call][r] =
                  [e \in Now(r).ids |-> IF rows[r][e] = Unfilled THEN mem[e] ELSE rows[r][e]]]
  /\ rows' = [rows EXCEPT ![r] = NoRows]
  /\ Ended(r)
  /\ UNCHANGED <<host, seen, sent, storage>>

\* The rows of call k have been sent by all ranks.
AllRead(k) == \A q \in Rank : done[q] >= k /\ \A i \in DOMAIN stream[q] :
                                stream[q][i].call = k => stream[q][i].name = "collect"

\* exchange_embeddings_nccl_func and the reordering.
Collect(r) ==
  /\ Runs(r, "collect") /\ AllRead(Now(r).call)
  /\ LET k == Now(r).call
     IN  output' = [output EXCEPT ![k][r] = [e \in Now(r).ids |-> sent[k][Owner[e]][e]]]
  /\ Ended(r)
  /\ UNCHANGED <<host, seen, rows, sent, storage>>

-----------------------------------------------------------------------------
Init ==
  /\ kind \in Kinds
  /\ program = << >> /\ done = [r \in Rank |-> 0]
  /\ stage  = [r \in Rank |-> "idle"] /\ entered = [r \in Rank |-> 0]
  /\ stream = [r \in Rank |-> << >>]
  /\ seen = [r \in Rank |-> NoRows] /\ rows = [r \in Rank |-> NoRows]
  /\ sent   = [k \in 1 .. MaxOps |-> [r \in Rank |-> NoRows]]
  /\ output = [k \in 1 .. MaxOps |-> [r \in Rank |-> NoRows]]
  /\ mem  = [e \in Entry |-> <<e, 0>>]
  /\ tag  = [r \in Rank |-> Empty]
  /\ data = [r \in Rank |-> Unfilled]

Host(r) ==
  Exchange(r) \/ Train(r) \/ AdjustCache(r) \/ Gather(r) \/ WriteBack(r) \/ Fence(r)
  \/ Barrier(r) \/ AfterBarrier(r)

Device(r) ==
  \/ RunUpdate(r) \/ RunChoose(r) \/ RunFill(r) \/ RunStep(r) \/ RunCopy(r) \/ RunStoreTags(r)
  \/ \E e \in Entry : LoadTag(r, e) \/ ReadRow(r, e) \/ TryRow(r, e)
  \/ RunFetch(r) \/ Collect(r)

AllDone == \A r \in Rank : stage[r] = "idle" /\ ~ Behind(r) /\ stream[r] = << >>

Finished == Len(program) = MaxOps /\ AllDone /\ UNCHANGED vars

NoBatch == [r \in Rank |-> {}]

Next ==
  \/ \E op \in {"gather", "step"}, adjust \in BOOLEAN, batch \in Batches :
       Issue(op, adjust, batch)
  \/ \E op \in {"writeback", "drop", "fence"} : Issue(op, FALSE, NoBatch)
  \/ \E r \in Rank : Host(r) \/ Device(r)
  \/ Finished

Spec == Init /\ [][Next]_vars

\* Ranks keep running, and so do their streams.
FairSpec == Spec /\ \A r \in Rank : WF_vars(Host(r)) /\ WF_vars(Device(r))

-----------------------------------------------------------------------------
\* What the steps before call k have made of entry e.
Trained(k, e) ==
  <<e, Max({0} \cup {j \in 1 .. k - 1 : program[j].op = "step" /\ e \in Named(j)})>>

\* A gather returns for every entry of its batch the row of that entry as the last
\* step before it left it, on whichever rank that step ran and whatever the caches
\* of other ranks did meanwhile: no row of another entry that was or will be in the
\* line, no row from before the step, none of a later one.
GatherSeesSteps ==
  \A k \in DOMAIN program, r \in Rank :
    \A e \in DOMAIN output[k][r] : output[k][r][e] = Trained(k, e)

\* A rank that returned from a write-back or a drop of the caches finds all rows,
\* those of other ranks too, in the raw embedding: it can be stored.
RawSettled ==
  \A r \in Rank :
    stage[r] = "idle" /\ done[r] > 0 /\ program[done[r]].op \in {"writeback", "drop"}
      => \A e \in Entry : mem[e] = Trained(done[r], e)

\* The entries that the optimizer kernels of the last step still have to write.
Steps == {k \in DOMAIN program : program[k].op = "step" /\ \E r \in Rank : done[r] >= k}

Pending(k, r) ==
  IF done[r] < k THEN Received(k, r)
  ELSE UNION {stream[r][i].ids : i \in {j \in DOMAIN stream[r] :
                                          stream[r][j].name = "step" /\ stream[r][j].call = k}}

Due == IF Steps = {} THEN {} ELSE UNION {Pending(Max(Steps), r) : r \in Rank}

\* The line of r has been given to an entry whose row has yet to come.
Filling(r) == \E i \in DOMAIN stream[r] : stream[r][i].name = "fill"

Cached(e) ==
  IF tag[Owner[e]].id = e /\ ~ Filling(Owner[e]) THEN data[Owner[e]] ELSE mem[e]

\* The caches of all ranks together are one table that changes only in steps, one
\* step after the other, and no call but a step changes what is in it.
Table == INSTANCE EmbeddingTable
           WITH Key <- Entry, Value <- Row, table <- [e \in Entry |-> Cached(e)], due <- Due

ImplementsTable == Table!TableSpec

\* Every call returns at every rank and every kernel ends.
CallsReturn == []<>AllDone
=============================================================================
