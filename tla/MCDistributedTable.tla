------------------------- MODULE MCDistributedTable -------------------------
(* Tables of several ranks: gather and scatter on one in distributed memory,   *)
(* and the state tensors of embeddings of any memory.  A behaviour is about    *)
(* one of the two.                                                             *)
EXTENDS DistributedTable

VARIABLES
  part,                                              \* which of them
  o_table, o_optimizer, o_status, o_tensors, o_cleared, o_store, o_last, o_calls,
  o_steps                                            \* OptimizerStates

stateVars == <<o_table, o_optimizer, o_status, o_tensors, o_cleared, o_store, o_last,
               o_calls, o_steps>>

\* Three entries, the first two at rank 0 and the last at rank 1.
MCOffsets == EqualPartition(3, 2)
MCBatches == {<<2, 0>>, <<-1, 2>>, <<1, 0, 0>>}
MCAnyRank == {}

T(e, d, ty, w, p, rb, c) ==
  [entries |-> e, dim |-> d, dtype |-> ty, ranks |-> w, partition |-> p, robin |-> rb,
   coverage |-> c]

\* Embeddings with a partition of the entries that is equal, given, or leaves a rank
\* without any; in round robin; of a type no optimizer takes; and cached ones.
MCTables ==
  {T(5, 3, "half",  2, <<>>,     0, 0), T(4, 5, "float", 2, <<1, 3>>, 0, 0),
   T(5, 2, "float", 2, <<>>,     2, 0), T(4, 2, "float", 3, <<>>,     0, 0),
   T(3, 2, "int",   2, <<>>,     0, 0), T(4, 3, "half",  2, <<>>,     0, 3),
   T(3, 2, "float", 3, <<>>,     0, 2)}

SmallTable == CHOOSE t \in MCTables : TRUE

States == INSTANCE OptimizerStates WITH
  Tables <- MCTables, MaxCalls <- 3, MaxBatch <- 1, SetSize <- 1, SizeRange <- 65536,
  Unset <- 1000,
  table <- o_table, optimizer <- o_optimizer, status <- o_status, tensors <- o_tensors,
  cleared <- o_cleared, store <- o_store, last <- o_last, calls <- o_calls, steps <- o_steps

-----------------------------------------------------------------------------
MCInit == /\ part \in {"table", "states"}
          /\ Init
          /\ part = "states" \/ o_table = SmallTable
          /\ States!Init

MCNext ==
  \/ part = "table" /\ Next /\ UNCHANGED <<part, stateVars>>
  \/ part = "states" /\ States!Next /\ UNCHANGED <<part, vars>>

allVars == <<part, vars, stateVars>>

MCSpec ==
  /\ MCInit /\ [][MCNext]_allVars
  /\ \A r \in Rank : WF_allVars(part = "table" /\ Step(r) /\ UNCHANGED <<part, stateVars>>)

-----------------------------------------------------------------------------
\* Every gather and every scatter returns at every rank.
TableCallsReturn == part = "table" => CallsReturn

\* No check of a step of an optimizer fails.
StepsAccepted == States!StepsAccepted

\* A step finds at each entry the states of this entry.
StatesOfEntry == States!StatesOfEntry

\* What a checkpoint saves of the states is all there is of them.
CheckpointComplete == States!CheckpointComplete
=============================================================================
