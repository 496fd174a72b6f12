------------------------- MODULE LeastFreeIdChoice -------------------------
(***************************************************************************)
(* What the negotiation of an id promises: each rank gets, in one step and *)
(* whenever it likes, the smallest id that is free in the maps of all      *)
(* ranks, as if it could read them all.  Communicator creates its          *)
(* communicators and handles with this step in place of the loop.          *)
(***************************************************************************)
EXTENDS Integers

CONSTANTS
  Rank,   \* the ranks of the new communicator
  Id,     \* the ids, an interval of the naturals from 0 on
  NoId    \* a rank that has no id yet

VARIABLES
  used,   \* used[r]: the ids the map of r holds
  commId  \* commId[r]: the id r was given

choiceVars == <<used, commId>>

ChoiceInit ==
  /\ used   \in [Rank -> SUBSET Id]
  /\ commId = [r \in Rank |-> NoId]

Choose(r) ==
  /\ commId[r] = NoId
  /\ \E n \in Id :
       /\ \A q \in Rank : n \notin used[q]
       /\ \A m \in Id : m < n => \E q \in Rank : m \in used[q]
       /\ commId' = [commId EXCEPT ![r] = n]
  /\ UNCHANGED used

ChoiceNext == \E r \in Rank : Choose(r)

ChoiceSpec == ChoiceInit /\ [][ChoiceNext]_choiceVars
=============================================================================
