--------------------------- MODULE MCCommunicator ---------------------------
(* What is part of a communicator: IdNegotiation, Communicator and           *)
(* HostCollectives.  A behaviour runs one of them; the others rest.          *)
EXTENDS Communicator, IdNegotiation, HostCollectives

CONSTANTS r1, r2, r3, h1, h2

VARIABLE part  \* the one that runs

-----------------------------------------------------------------------------
\* Three ranks whose maps hold any ids below Capacity: they agree at once, one lags
\* behind, or each one's first free id is taken at another.
MCRank == {r1, r2, r3}

NothingUsed == [r \in MCRank |-> {}]

\* Two processes on one host and one on another; communicators of all of them, of the
\* two, and of one of the two with the third.
MCProcess == 1 .. 3
MCHostOf  == [p \in MCProcess |-> IF p = 3 THEN h2 ELSE h1]
MCGroups  == {{1, 2, 3}, {1, 2}, {2, 3}}
MCColor   == {0, 1}

\* Two calls of two ranks, each of no data, of less than a buffer, of one that is full,
\* or of more than fits.
Same(n)                 == [r \in 0 .. 1 |-> n]
Calls(ops, root, sizes) == [op : ops, root : {root}, counts : sizes]
MCCalls ==
  Calls({"allreduce", "bcast", "reduce"}, 1, {Same(5)})
  \cup Calls({"allgather", "gather", "alltoall"}, 1, {Same(0), Same(1), Same(2)})
  \cup Calls({"allgatherv"}, 0, {[r \in 0 .. 1 |-> c[r + 1]] : c \in {<<3, 0>>, <<1, 6>>, <<5, 2>>}})
MCPrograms == {<<>>} \cup {<<c, d>> : c \in MCCalls, d \in MCCalls}

-----------------------------------------------------------------------------
MCInit ==
  /\ part \in {"negotiation", "communicators", "collectives"}
  /\ part = "negotiation" \/ used = NothingUsed
  /\ NegotiationInit
  /\ Init
  /\ part = "collectives" \/ calls = <<>>
  /\ HostInit

NegotiationRests == UNCHANGED <<part, negotiationVars, hostVars>>
CommunicatorsRest == UNCHANGED <<part, vars, hostVars>>

MCNext ==
  \/ part = "negotiation" /\ NegotiationNext /\ CommunicatorsRest
  \/ part = "communicators" /\ Next /\ NegotiationRests
  \/ part = "collectives" /\ HostNext /\ UNCHANGED <<part, negotiationVars, vars>>

allVars == <<part, negotiationVars, vars, hostVars>>

Negotiating(A) == part = "negotiation" /\ A /\ CommunicatorsRest

MCSpec ==
  /\ MCInit /\ [][MCNext]_allVars
  /\ \A r \in Rank : WF_allVars(Negotiating(Propose(r))) /\ WF_allVars(Negotiating(Gather(r)))
  /\ \A p \in Process : WF_allVars(part = "communicators" /\ Step(p) /\ NegotiationRests)

-----------------------------------------------------------------------------
\* Every rank gets out of the negotiation of an id.
LoopEnds == part = "negotiation" => Termination
=============================================================================
