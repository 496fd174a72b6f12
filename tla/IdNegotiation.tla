--------------------------- MODULE IdNegotiation ---------------------------
(***************************************************************************)
(* How the ranks of a new communicator agree on its id.                    *)
(*                                                                         *)
(* Every process keeps a map of the communicators it belongs to.  The id   *)
(* of a new one must be the same at all its ranks and unused in every map, *)
(* although the maps differ: a process may belong to communicators the     *)
(* others know nothing about.  Each rank proposes the first id from its    *)
(* candidate on that is free in its own map, gathers the proposals of all  *)
(* ranks, and either sees only its own proposal and stops, or starts over  *)
(* from the largest one.                                                   *)
(*                                                                         *)
(* negotiate_handle_id_with_comm_locked (memory_handle.cpp) is the same    *)
(* loop over the handle map of one communicator.                           *)
(***************************************************************************)
EXTENDS Integers, Sequences

CONSTANTS
  Rank,      \* the ranks of the new communicator
  Capacity,  \* every id already in a map is below this number
  NoId       \* not an id: a rank that has not decided

ASSUME RankAssumption == Rank # {}
ASSUME CapacityAssumption == Capacity \in Nat

\* The ids a rank can come to propose: those in a map and the first one after.
Id == 0 .. Capacity

ASSUME NoIdAssumption == NoId \notin Id

VARIABLES
  used,      \* used[r]: the ids in the communicator_map of r; r holds comm_mu
             \*   from before the first gather on, so the set does not change
  phase,     \* "probe": looking for a free id, "gather": inside host_allgather,
             \*   "done": the communicator is in the map of r
  id,        \* the local variable id
  proposed,  \* proposed[r]: what r has put into each host_allgather so far
  commId     \* commId[r]: the id under which r inserted the communicator

negotiationVars == <<used, phase, id, proposed, commId>>

-----------------------------------------------------------------------------
\* The first id from i on that the map of r does not hold.
FirstFree(r, i) ==
  CHOOSE n \in Id : /\ n >= i
                    /\ n \notin used[r]
                    /\ \A m \in Id : m >= i /\ m < n => m \in used[r]

\* What the k-th gather delivers to every rank.
Gathered(k) == {proposed[q][k] : q \in Rank}

MaxOf(S) == CHOOSE m \in S : \A n \in S : n <= m

\* Mutant of NegotiationInit: the search starts at the second id.
NegotiationFromOne ==
  /\ used     \in [Rank -> SUBSET (0 .. Capacity - 1)]
  /\ phase    = [r \in Rank |-> "probe"]
  /\ id       = [r \in Rank |-> 1]
  /\ proposed = [r \in Rank |-> << >>]
  /\ commId   = [r \in Rank |-> NoId]

NegotiationInit ==
  /\ used     \in [Rank -> SUBSET (0 .. Capacity - 1)]
  /\ phase    = [r \in Rank |-> "probe"]
  /\ id       = [r \in Rank |-> 0]
  /\ proposed = [r \in Rank |-> << >>]
  /\ commId   = [r \in Rank |-> NoId]

\* Advance the candidate past the ids in the map and enter the gather with it.
Propose(r) ==
  /\ phase[r] = "probe"
  /\ LET n == FirstFree(r, id[r])
     IN  /\ id'       = [id EXCEPT ![r] = n]
         /\ proposed' = [proposed EXCEPT ![r] = Append(@, n)]
  /\ phase' = [phase EXCEPT ![r] = "gather"]
  /\ UNCHANGED <<used, commId>>

\* Mutant of Gather: a rank stops as soon as its own proposal is the largest.
GatherStopsAtMaximum(r) ==
  /\ phase[r] = "gather"
  /\ LET k == Len(proposed[r])
     IN  /\ \A q \in Rank : Len(proposed[q]) >= k
         /\ IF MaxOf(Gathered(k)) = id[r]
            THEN /\ commId' = [commId EXCEPT ![r] = id[r]]
                 /\ phase'  = [phase EXCEPT ![r] = "done"]
                 /\ UNCHANGED id
            ELSE /\ id'    = [id EXCEPT ![r] = MaxOf(Gathered(k))]
                 /\ phase' = [phase EXCEPT ![r] = "probe"]
                 /\ UNCHANGED commId
  /\ UNCHANGED <<used, proposed>>

\* The gather returns once every rank has entered it.  A rank that has already
\* left it may meanwhile be in the next one.
Gather(r) ==
  /\ phase[r] = "gather"
  /\ LET k == Len(proposed[r])
     IN  /\ \A q \in Rank : Len(proposed[q]) >= k
         /\ IF Gathered(k) = {id[r]}
            THEN /\ commId' = [commId EXCEPT ![r] = id[r]]
                 /\ phase'  = [phase EXCEPT ![r] = "done"]
                 /\ UNCHANGED id
            ELSE /\ id'    = [id EXCEPT ![r] = MaxOf(Gathered(k))]
                 /\ phase' = [phase EXCEPT ![r] = "probe"]
                 /\ UNCHANGED commId
  /\ UNCHANGED <<used, proposed>>

\* Every rank has decided: the negotiation is over.
Decided ==
  /\ \A r \in Rank : phase[r] = "done"
  /\ UNCHANGED negotiationVars

NegotiationNext ==
  \/ \E r \in Rank : Propose(r) \/ Gather(r)
  \/ Decided

Negotiation == NegotiationInit /\ [][NegotiationNext]_negotiationVars

\* A rank is a running thread, and a gather all ranks have entered completes.
FairNegotiation == Negotiation /\ \A r \in Rank : WF_negotiationVars(Propose(r)) /\ WF_negotiationVars(Gather(r))

-----------------------------------------------------------------------------
TypeOK ==
  /\ used     \in [Rank -> SUBSET Id]
  /\ phase    \in [Rank -> {"probe", "gather", "done"}]
  /\ id       \in [Rank -> Id]
  /\ proposed \in [Rank -> Seq(Id)]
  /\ commId   \in [Rank -> Id \cup {NoId}]

\* An id no rank holds yet.
FreeEverywhere(n) == \A r \in Rank : n \notin used[r]

\* The smallest id no rank holds: what the negotiation is meant to find.
IsLeastFree(n) ==
  /\ n \in Id
  /\ FreeEverywhere(n)
  /\ \A m \in Id : FreeEverywhere(m) => n <= m

\* Ranks that have left the negotiation loop of negotiate_communicator_id_locked
\* hold the communicator under the same id, and no map of any member held that
\* id before: insert() into communicator_map never meets an occupied key, and
\* the temporary directory named after the id is named alike on all ranks.
AgreedAndFresh ==
  \A r, q \in Rank :
    phase[r] = "done" =>
      /\ commId[r] \notin used[q]
      /\ phase[q] = "done" => commId[r] = commId[q]

\* The id agreed on is the smallest one that is free in the maps of all ranks,
\* although no rank knows the others' maps: candidates never jump over an id
\* that is free everywhere, so ids of destroyed communicators are reused.
LeastFreeId ==
  \A r \in Rank : commId[r] # NoId => IsLeastFree(commId[r])

\* The ranks go through the gathers in step, also before any of them is done: none
\* is ahead of another by more than one gather, and none leaves a gather before all
\* have entered it.  A rank that is behind another finds different proposals in the
\* gather it waits in, so it follows into the one the other has entered; and once a
\* rank is done, all have entered its last gather and none goes on to another.  Else
\* a rank waits forever in an allgather that another never enters, or its allgather
\* takes what the other sends in a later call.
InStep ==
  \A r, q \in Rank :
    LET k == Len(proposed[r])
        n == Len(proposed[q])
    IN  /\ n <= k + 1
        /\ phase[q] # "gather" => n <= k
        /\ n > k /\ phase[r] = "gather" => Gathered(k) # {id[r]}
        /\ phase[r] = "done" => n = k /\ phase[q] # "probe"

\* Every rank gets out of the loop.
Termination == <>(\A r \in Rank : phase[r] = "done")

\* Some rank's map is the reason for every further round: at most one round
\* per id in some map, and one in which all ranks propose the same id.
RoundBound ==
  \A r \in Rank : Len(proposed[r]) <= Capacity + 1

-----------------------------------------------------------------------------
Choice == INSTANCE LeastFreeIdChoice

\* The loop of negotiate_communicator_id_locked implements the choice of the
\* smallest id that is free in all the maps, made in one step at each rank.
ChoosesLeastFreeId == Choice!ChoiceSpec
=============================================================================
