------------------------- MODULE CommunicatorProofs -------------------------
(***************************************************************************)
(* Proofs about communicators: the negotiation of an id, for any ranks,    *)
(* any maps and any capacity; the creation, splitting and destruction of   *)
(* communicators, for any processes, hosts, groups, colors and any length  *)
(* of the program; and the collectives on host memory, for any number of   *)
(* ranks, any size of the buffers and any calls.                           *)
(*                                                                         *)
(* The negotiation follows from NegotiationInv.  Its core is Undecided: a  *)
(* rank goes on after a round only if the proposals of that round differ,  *)
(* and all ranks see the same proposals, so either all of them go on or    *)
(* all of them stop, with the same id.                                     *)
(*                                                                         *)
(* The communicators follow from CommInv.  The calls of the program say    *)
(* how many collectives of a communicator its members enter, and which, so *)
(* the number a process has entered follows from where it is in the        *)
(* program, the collectives of the members are the same sequence, and      *)
(* nobody leaves one before all have entered it.  Hence while a member     *)
(* chooses the id of a communicator, every member is in the same call and  *)
(* its map rests: all of them choose the same id.                          *)
(*                                                                         *)
(* The collectives follow from HostInv.  A piece is known by its call, its *)
(* turn and its first element, and the ranks have passed the same pieces,  *)
(* so ranks that wait in a collective wait with the same one.  From there  *)
(* it is arithmetic: where an element is put into one buffer, where NCCL   *)
(* leaves it in another, and where it is copied to.                        *)
(***************************************************************************)
EXTENDS Communicator, IdNegotiation, HostCollectives, NaturalLemmas

-----------------------------------------------------------------------------
(***************************************************************************)
(* The negotiation of an id.                                               *)
(***************************************************************************)
\* A rank in a gather, or past the last one, has put its candidate into it.
LastIsOwn ==
  \A r \in Rank :
    phase[r] # "probe" => Len(proposed[r]) > 0 /\ id[r] = proposed[r][Len(proposed[r])]

\* Proposals are free at the proposer, grow by one each round at least, and
\* never exceed an id that is free everywhere.
Proposals ==
  \A r \in Rank : \A k \in 1 .. Len(proposed[r]) :
    /\ proposed[r][k] \notin used[r]
    /\ proposed[r][k] >= k - 1
    /\ \A m \in Id : FreeEverywhere(m) => proposed[r][k] <= m

\* So do the candidates of the ranks between two rounds.
Candidates ==
  \A r \in Rank :
    /\ phase[r] = "probe" => id[r] >= Len(proposed[r])
    /\ \A m \in Id : FreeEverywhere(m) => id[r] <= m

\* Every rank took part in round k, and they did not propose the same id.
Disagreed(k) ==
  /\ \A q \in Rank : Len(proposed[q]) >= k
  /\ \E q, p \in Rank : proposed[q][k] # proposed[p][k]

\* The rounds a rank went past were ones without agreement.
Undecided ==
  \A r \in Rank : \A k \in 1 .. Len(proposed[r]) :
    (k < Len(proposed[r]) \/ phase[r] = "probe") => Disagreed(k)

\* The last round of a rank that is done was one with agreement.
DoneAgrees ==
  \A r \in Rank :
    IF phase[r] = "done"
    THEN /\ commId[r] = id[r]
         /\ \A q \in Rank : /\ Len(proposed[q]) >= Len(proposed[r])
                            /\ proposed[q][Len(proposed[r])] = id[r]
    ELSE commId[r] = NoId

UsedBelowCapacity == used \in [Rank -> SUBSET (0 .. Capacity - 1)]

NegotiationInv ==
  /\ TypeOK
  /\ UsedBelowCapacity
  /\ LastIsOwn
  /\ Proposals
  /\ Candidates
  /\ Undecided
  /\ DoneAgrees

-----------------------------------------------------------------------------
\* A nonempty set of ids has a largest element, and MaxOf returns it.
LEMMA MaxOfIds ==
  ASSUME NEW S \in SUBSET Id, S # {}
  PROVE  /\ MaxOf(S) \in S
         /\ \A n \in S : n <= MaxOf(S)
<1>1. S \in SUBSET Nat /\ \A n \in S : n <= Capacity
  BY CapacityAssumption DEF Id
<1>2. Capacity \in Nat
  BY CapacityAssumption
<1>3. \E m \in S : \A n \in S : n <= m
  BY <1>1, <1>2, LargestElement
<1>4. QED
  BY <1>3 DEF MaxOf

\* The probing loop ends: it stops at Capacity at the latest.
LEMMA FirstFreeExists ==
  ASSUME UsedBelowCapacity, NEW r \in Rank, NEW i \in Id
  PROVE  LET f == FirstFree(r, i)
         IN  /\ f \in Id
             /\ f >= i
             /\ f \notin used[r]
             /\ \A m \in Id : m >= i /\ m < f => m \in used[r]
<1> DEFINE Free == {n \in Id : n >= i /\ n \notin used[r]}
<1>1. Capacity \in Free
  BY CapacityAssumption DEF UsedBelowCapacity, Id
<1>2. Free \in SUBSET Nat
  BY CapacityAssumption DEF Id
<1>3. PICK f \in Free : \A n \in Free : f <= n
  BY <1>1, <1>2, LeastElement
<1>4. /\ f \in Id
      /\ f >= i
      /\ f \notin used[r]
      /\ \A m \in Id : m >= i /\ m < f => m \in used[r]
  BY <1>3, CapacityAssumption DEF Id
<1>5. QED
  BY <1>4 DEF FirstFree

-----------------------------------------------------------------------------
LEMMA NegotiationStarts == NegotiationInit => NegotiationInv
<1> SUFFICES ASSUME NegotiationInit PROVE NegotiationInv
  OBVIOUS
<1>1. TypeOK /\ UsedBelowCapacity
  BY CapacityAssumption DEF NegotiationInit, TypeOK, UsedBelowCapacity, Id
<1>2. LastIsOwn /\ Proposals /\ Undecided /\ DoneAgrees
  BY DEF NegotiationInit, LastIsOwn, Proposals, Undecided, DoneAgrees
<1>3. Candidates
  <2>1. \A r \in Rank : id[r] = 0 /\ proposed[r] = << >> /\ Len(proposed[r]) = 0
    BY DEF NegotiationInit
  <2>2. \A m \in Id : 0 <= m
    BY CapacityAssumption DEF Id
  <2>3. ASSUME NEW r \in Rank PROVE id[r] >= Len(proposed[r])
    BY <2>1
  <2>4. \A r \in Rank : \A m \in Id : id[r] <= m
    BY <2>1, <2>2
  <2>5. QED
    BY <2>3, <2>4 DEF Candidates
<1>4. QED
  BY <1>1, <1>2, <1>3 DEF NegotiationInv

\* A proposal is appended to the rounds of r; all other rounds stay as they are.
LEMMA ProposeInv ==
  ASSUME NegotiationInv, NEW r \in Rank, Propose(r)
  PROVE  NegotiationInv'
<1> DEFINE n == FirstFree(r, id[r])
           k == Len(proposed[r]) + 1
<1> USE DEF NegotiationInv
<1>0. id[r] \in Id /\ Id \subseteq Nat /\ proposed[r] \in Seq(Id)
  BY CapacityAssumption DEF TypeOK, Id
<1>1. /\ n \in Id
      /\ n >= id[r]
      /\ n \notin used[r]
      /\ \A m \in Id : m >= id[r] /\ m < n => m \in used[r]
  BY <1>0, FirstFreeExists
<1> HIDE DEF n
<1>2. /\ phase[r] = "probe"
      /\ id' = [id EXCEPT ![r] = n]
      /\ proposed' = [proposed EXCEPT ![r] = Append(proposed[r], n)]
      /\ phase' = [phase EXCEPT ![r] = "gather"]
      /\ UNCHANGED <<used, commId>>
  BY DEF Propose, n
<1>3. TypeOK' /\ UsedBelowCapacity'
  BY <1>1, <1>2 DEF TypeOK, UsedBelowCapacity
<1>4. /\ Len(proposed'[r]) = k
      /\ k \in Nat
      /\ proposed'[r][k] = n
      /\ \A j \in 1 .. k - 1 : proposed'[r][j] = proposed[r][j]
  BY <1>0, <1>1, <1>2 DEF TypeOK
<1>5. \A q \in Rank : q # r => proposed'[q] = proposed[q] /\ id'[q] = id[q] /\ phase'[q] = phase[q]
  BY <1>2 DEF TypeOK
<1>6. \A q \in Rank : Len(proposed[q]) \in Nat
  BY DEF TypeOK
<1>7. \A q \in Rank : /\ Len(proposed'[q]) >= Len(proposed[q])
                      /\ \A j \in 1 .. Len(proposed[q]) : proposed'[q][j] = proposed[q][j]
  BY <1>4, <1>5, <1>6
<1>8. phase'[r] = "gather" /\ id'[r] = n
  BY <1>2 DEF TypeOK
<1>9. LastIsOwn'
  BY <1>4, <1>5, <1>8, <1>6 DEF LastIsOwn
<1>10. \A m \in Id : FreeEverywhere(m)' <=> FreeEverywhere(m)
  BY <1>2 DEF FreeEverywhere
<1>11. \A m \in Id : FreeEverywhere(m) => n <= m
  <2>1. SUFFICES ASSUME NEW m \in Id, FreeEverywhere(m) PROVE n <= m
    OBVIOUS
  <2>2. id[r] <= m
    BY <2>1 DEF Candidates
  <2>3. m \notin used[r]
    BY <2>1 DEF FreeEverywhere
  <2>4. m \in Nat /\ n \in Nat /\ id[r] \in Nat
    BY <1>0, <1>1
  <2>5. QED
    BY <1>1, <2>2, <2>3, <2>4
<1>12. n >= k - 1
  <2>1. id[r] >= Len(proposed[r])
    BY <1>2 DEF Candidates
  <2>2. n \in Nat /\ id[r] \in Nat /\ Len(proposed[r]) \in Nat
    BY <1>0, <1>1, <1>6
  <2>3. QED
    BY <1>1, <2>1, <2>2
<1>13. Proposals'
  <2> SUFFICES ASSUME NEW q \in Rank, NEW j \in 1 .. Len(proposed'[q])
               PROVE  /\ proposed'[q][j] \notin used'[q]
                      /\ proposed'[q][j] >= j - 1
                      /\ \A m \in Id : FreeEverywhere(m)' => proposed'[q][j] <= m
    BY DEF Proposals
  <2>1. CASE q = r /\ j = k
    BY <2>1, <1>1, <1>2, <1>4, <1>10, <1>11, <1>12
  <2>2. CASE ~ (q = r /\ j = k)
    <3>1. j \in 1 .. Len(proposed[q]) /\ proposed'[q][j] = proposed[q][j]
      BY <2>2, <1>4, <1>5, <1>6
    <3>2. QED
      BY <3>1, <1>2, <1>10 DEF Proposals
  <2>3. QED
    BY <2>1, <2>2
<1>14. Candidates'
  BY <1>2, <1>5, <1>8, <1>10, <1>11 DEF Candidates
<1>15. ASSUME NEW j \in Nat, j > 0, Disagreed(j) PROVE Disagreed(j)'
  <2>0. \A q \in Rank : Len(proposed[q]) >= j
    BY <1>15 DEF Disagreed
  <2>1. ASSUME NEW q \in Rank PROVE j \in 1 .. Len(proposed[q])
    BY <2>0, <1>6, <1>15
  <2>2. \A q \in Rank : proposed'[q][j] = proposed[q][j] /\ Len(proposed'[q]) >= j
    BY <2>1, <1>7, <1>6, <1>3 DEF TypeOK
  <2>3. QED
    BY <2>2, <1>15 DEF Disagreed
<1>16. Undecided'
  <2> SUFFICES ASSUME NEW q \in Rank, NEW j \in 1 .. Len(proposed'[q]),
                      j < Len(proposed'[q]) \/ phase'[q] = "probe"
               PROVE  Disagreed(j)'
    BY DEF Undecided
  <2>1. j \in 1 .. Len(proposed[q]) /\ (j < Len(proposed[q]) \/ phase[q] = "probe")
    BY <1>2, <1>4, <1>5, <1>6, <1>8
  <2>2. Disagreed(j) /\ j \in Nat /\ j > 0
    BY <2>1 DEF Undecided
  <2>3. QED
    BY <2>2, <1>15
<1>17. DoneAgrees'
  <2> SUFFICES ASSUME NEW q \in Rank
               PROVE  IF phase'[q] = "done"
                      THEN /\ commId'[q] = id'[q]
                           /\ \A p \in Rank : /\ Len(proposed'[p]) >= Len(proposed'[q])
                                              /\ proposed'[p][Len(proposed'[q])] = id'[q]
                      ELSE commId'[q] = NoId
    BY DEF DoneAgrees
  <2>1. CASE q = r
    BY <2>1, <1>2, <1>8 DEF DoneAgrees
  <2>2. CASE q # r /\ phase[q] = "done"
    <3>1. Len(proposed'[q]) = Len(proposed[q]) /\ Len(proposed[q]) > 0
      BY <2>2, <1>5 DEF LastIsOwn
    <3>2. \A p \in Rank : /\ Len(proposed'[p]) >= Len(proposed'[q])
                          /\ proposed'[p][Len(proposed'[q])] = id[q]
      <4>1. \A p \in Rank : /\ Len(proposed[p]) >= Len(proposed[q])
                            /\ proposed[p][Len(proposed[q])] = id[q]
        BY <2>2 DEF DoneAgrees
      <4>2. \A p \in Rank : Len(proposed[q]) \in 1 .. Len(proposed[p])
        BY <4>1, <3>1, <1>6
      <4>3. \A p \in Rank : Len(proposed'[p]) \in Nat
        BY <1>3 DEF TypeOK
      <4>4. QED
        BY <4>1, <4>2, <4>3, <3>1, <1>6, <1>7
    <3>3. QED
      BY <2>2, <3>2, <1>2, <1>5 DEF DoneAgrees
  <2>3. CASE q # r /\ phase[q] # "done"
    BY <2>3, <1>2, <1>5 DEF DoneAgrees
  <2>4. QED
    BY <2>1, <2>2, <2>3
<1>18. QED
  BY <1>3, <1>9, <1>13, <1>14, <1>16, <1>17

\* A rank leaves a gather.  No proposal changes, so only what is said about r
\* itself is at stake: it stops if and only if all proposals of the round agree.
LEMMA GatherInv ==
  ASSUME NegotiationInv, NEW r \in Rank, Gather(r)
  PROVE  NegotiationInv'
<1> DEFINE k == Len(proposed[r])
           S == Gathered(k)
<1> USE DEF NegotiationInv
<1>1. /\ phase[r] = "gather"
      /\ \A q \in Rank : Len(proposed[q]) >= k
      /\ UNCHANGED <<used, proposed>>
  BY DEF Gather
<1>2. /\ k \in Nat /\ k > 0
      /\ id[r] = proposed[r][k]
      /\ id[r] \in Id
      /\ Id \subseteq Nat
  BY <1>1, CapacityAssumption DEF TypeOK, LastIsOwn, Id
<1>3. ASSUME NEW q \in Rank
      PROVE  /\ k \in 1 .. Len(proposed[q])
             /\ proposed[q][k] \in Id
  <2>1. Len(proposed[q]) \in Nat /\ Len(proposed[q]) >= k /\ proposed[q] \in Seq(Id)
    BY <1>1 DEF TypeOK
  <2>2. k \in 1 .. Len(proposed[q])
    BY <2>1, <1>2
  <2>3. QED
    BY <2>1, <2>2
<1>4. S \in SUBSET Id /\ S # {} /\ id[r] \in S
  BY <1>2, <1>3, RankAssumption DEF Gathered
<1>5. \A q \in Rank : \A j \in 1 .. Len(proposed[q]) :
        /\ proposed[q][j] \notin used'[q]
        /\ proposed[q][j] >= j - 1
        /\ \A m \in Id : FreeEverywhere(m)' => proposed[q][j] <= m
  BY <1>1 DEF Proposals, FreeEverywhere
<1>6. Proposals'
  BY <1>1, <1>5 DEF Proposals
<1>7. UsedBelowCapacity'
  BY <1>1 DEF UsedBelowCapacity
<1>8. \A m \in Id : FreeEverywhere(m)' <=> FreeEverywhere(m)
  BY <1>1 DEF FreeEverywhere
<1>9. \A j : Disagreed(j)' <=> Disagreed(j)
  BY <1>1 DEF Disagreed
<1> HIDE DEF k, S
<1>10. CASE S = {id[r]}
  <2>1. /\ commId' = [commId EXCEPT ![r] = id[r]]
        /\ phase' = [phase EXCEPT ![r] = "done"]
        /\ id' = id
    BY <1>10 DEF Gather, k, S
  <2>2. TypeOK'
    BY <1>1, <1>2, <2>1 DEF TypeOK
  <2>3. \A q \in Rank : Len(proposed[q]) >= k /\ proposed[q][k] = id[r]
    BY <1>1, <1>10 DEF S, k, Gathered
  <2>4. phase'[r] = "done" /\ commId'[r] = id[r]
    BY <2>1 DEF TypeOK
  <2>5. \A q \in Rank : q # r => phase'[q] = phase[q] /\ commId'[q] = commId[q]
    BY <2>1 DEF TypeOK
  <2>6. LastIsOwn'
    BY <1>1, <2>1, <2>5 DEF LastIsOwn
  <2>7. Candidates'
    BY <1>1, <1>8, <2>1, <2>4, <2>5 DEF Candidates
  <2>8. Undecided'
    BY <1>1, <1>9, <2>4, <2>5 DEF Undecided
  <2>9. DoneAgrees'
    <3> SUFFICES ASSUME NEW q \in Rank
                 PROVE  IF phase'[q] = "done"
                        THEN /\ commId'[q] = id[q]
                             /\ \A p \in Rank : /\ Len(proposed[p]) >= Len(proposed[q])
                                                /\ proposed[p][Len(proposed[q])] = id[q]
                        ELSE commId'[q] = NoId
      BY <1>1, <2>1 DEF DoneAgrees
    <3>1. CASE q = r
      BY <3>1, <2>3, <2>4 DEF k
    <3>2. CASE q # r
      BY <3>2, <2>5 DEF DoneAgrees
    <3>3. QED
      BY <3>1, <3>2
  <2>10. QED
    BY <1>6, <1>7, <2>2, <2>6, <2>7, <2>8, <2>9
<1>11. CASE S # {id[r]}
  <2> DEFINE m == MaxOf(S)
  <2>1. /\ id' = [id EXCEPT ![r] = m]
        /\ phase' = [phase EXCEPT ![r] = "probe"]
        /\ commId' = commId
    BY <1>11 DEF Gather, k, S
  <2>2. m \in S /\ \A n \in S : n <= m
    BY <1>4, MaxOfIds
  <2> HIDE DEF m
  <2>3. m \in Id
    BY <1>4, <2>2
  <2>4. TypeOK'
    BY <1>1, <2>1, <2>3 DEF TypeOK
  <2>5. phase'[r] = "probe" /\ id'[r] = m
    BY <2>1 DEF TypeOK
  <2>6. \A q \in Rank : q # r => phase'[q] = phase[q] /\ id'[q] = id[q]
    BY <2>1 DEF TypeOK
  <2>7. LastIsOwn'
    BY <1>1, <2>5, <2>6 DEF LastIsOwn
  <2>8. PICK q \in Rank : proposed[q][k] # id[r]
    BY <1>4, <1>11 DEF S, Gathered
  <2>9. Disagreed(k)
    BY <1>1, <1>2, <2>8 DEF Disagreed, k
  <2>10. m >= k
    \* Two different proposals, both at least k - 1: the larger one is at least k.
    <3>1. proposed[q][k] \in S /\ id[r] \in S
      BY <1>4 DEF S, Gathered
    <3>2. proposed[q][k] >= k - 1 /\ id[r] >= k - 1
      BY <1>2, <1>3 DEF Proposals, k
    <3>3. proposed[q][k] <= m /\ id[r] <= m
      BY <2>2, <3>1
    <3>4. proposed[q][k] \in Nat /\ id[r] \in Nat /\ m \in Nat /\ k \in Nat
      BY <1>2, <1>4, <2>3, <3>1
    <3>5. QED
      BY <2>8, <3>2, <3>3, <3>4
  <2>11. \A n \in Id : FreeEverywhere(n) => m <= n
    <3>1. PICK p \in Rank : m = proposed[p][k]
      BY <2>2 DEF S, Gathered
    <3>2. k \in 1 .. Len(proposed[p])
      BY <1>3
    <3>3. QED
      BY <3>1, <3>2 DEF Proposals
  <2>12. Candidates'
    <3> SUFFICES ASSUME NEW p \in Rank
                 PROVE  /\ phase'[p] = "probe" => id'[p] >= Len(proposed[p])
                        /\ \A n \in Id : FreeEverywhere(n) => id'[p] <= n
      BY <1>1, <1>8 DEF Candidates
    <3>1. CASE p = r
      BY <3>1, <2>5, <2>10, <2>11 DEF k
    <3>2. CASE p # r
      BY <3>2, <2>6 DEF Candidates
    <3>3. QED
      BY <3>1, <3>2
  <2>13. Undecided'
    <3> SUFFICES ASSUME NEW p \in Rank, NEW j \in 1 .. Len(proposed[p]),
                        j < Len(proposed[p]) \/ phase'[p] = "probe"
                 PROVE  Disagreed(j)
      BY <1>1, <1>9 DEF Undecided
    <3>1. CASE p = r /\ j = k
      BY <3>1, <2>9
    <3>2. CASE p = r /\ j # k
      <4>1. j < Len(proposed[r])
        BY <3>2, <1>2 DEF k
      <4>2. QED
        BY <3>2, <4>1 DEF Undecided
    <3>3. CASE p # r
      BY <3>3, <2>6 DEF Undecided
    <3>4. QED
      BY <3>1, <3>2, <3>3
  <2>14. DoneAgrees'
    <3> SUFFICES ASSUME NEW p \in Rank
                 PROVE  IF phase'[p] = "done"
                        THEN /\ commId[p] = id'[p]
                             /\ \A v \in Rank : /\ Len(proposed[v]) >= Len(proposed[p])
                                                /\ proposed[v][Len(proposed[p])] = id'[p]
                        ELSE commId[p] = NoId
      BY <1>1, <2>1 DEF DoneAgrees
    <3>1. CASE p = r
      BY <3>1, <2>5, <1>1 DEF DoneAgrees
    <3>2. CASE p # r
      BY <3>2, <2>6 DEF DoneAgrees
    <3>3. QED
      BY <3>1, <3>2
  <2>15. QED
    BY <1>6, <1>7, <2>4, <2>7, <2>12, <2>13, <2>14
<1>12. QED
  BY <1>10, <1>11

\* NegotiationInv is an inductive invariant of the negotiation.
LEMMA NegotiationInvariance == Negotiation => []NegotiationInv
<1>1. NegotiationInv /\ [NegotiationNext]_negotiationVars => NegotiationInv'
  <2> SUFFICES ASSUME NegotiationInv, [NegotiationNext]_negotiationVars PROVE NegotiationInv'
    OBVIOUS
  <2>1. ASSUME NEW r \in Rank, Propose(r) PROVE NegotiationInv'
    BY <2>1, ProposeInv
  <2>2. ASSUME NEW r \in Rank, Gather(r) PROVE NegotiationInv'
    BY <2>2, GatherInv
  <2>3. CASE UNCHANGED negotiationVars
    BY <2>3 DEF negotiationVars, NegotiationInv, TypeOK, UsedBelowCapacity, LastIsOwn, Proposals,
                Candidates, Undecided, DoneAgrees, Disagreed, FreeEverywhere
  <2>4. QED
    BY <2>1, <2>2, <2>3 DEF NegotiationNext, Decided
<1>2. QED
  BY <1>1, NegotiationStarts, PTL DEF Negotiation

-----------------------------------------------------------------------------
\* The variables have the types TypeOK gives them, whatever the maps hold when
\* the negotiation of negotiate_communicator_id_locked starts.
THEOREM TypeCorrect == Negotiation => []TypeOK
<1>1. NegotiationInv => TypeOK
  BY DEF NegotiationInv
<1>2. QED
  BY <1>1, NegotiationInvariance, PTL

\* By Undecided a rank is past a round only if all entered it and differed there; by
\* DoneAgrees a rank is done only if all entered its last round and agreed there.
LEMMA InStepLemma == NegotiationInv => InStep
<1> SUFFICES ASSUME NegotiationInv, NEW r \in Rank, NEW q \in Rank
             PROVE  LET k == Len(proposed[r])
                        n == Len(proposed[q])
                    IN  /\ n <= k + 1
                        /\ phase[q] # "gather" => n <= k
                        /\ n > k /\ phase[r] = "gather" => Gathered(k) # {id[r]}
                        /\ phase[r] = "done" => n = k /\ phase[q] # "probe"
  BY DEF InStep
<1> DEFINE k == Len(proposed[r])
           n == Len(proposed[q])
<1>1. k \in Nat /\ n \in Nat /\ phase[q] \in {"probe", "gather", "done"}
  BY DEF NegotiationInv, TypeOK
<1>2. ASSUME NEW j \in 1 .. n, j < n \/ phase[q] = "probe" PROVE Disagreed(j)
  BY <1>2 DEF NegotiationInv, Undecided
<1>3. n <= k + 1
  <2>1. SUFFICES ASSUME n > 1 PROVE n - 1 <= k
    BY <1>1
  <2>2. Disagreed(n - 1)
    BY <1>1, <1>2, <2>1
  <2>3. QED
    BY <2>2 DEF Disagreed
<1>4. ASSUME phase[q] # "gather" PROVE n <= k
  <2>1. CASE phase[q] = "done"
    BY <1>1, <2>1 DEF NegotiationInv, DoneAgrees
  <2>2. CASE phase[q] = "probe" /\ n > 0
    <3>1. Disagreed(n)
      BY <1>1, <1>2, <2>2
    <3>2. QED
      BY <1>1, <3>1 DEF Disagreed
  <2>3. QED
    BY <1>1, <1>4, <2>1, <2>2
<1>5. ASSUME n > k, phase[r] = "gather" PROVE Gathered(k) # {id[r]}
  <2>1. k > 0
    BY <1>5 DEF NegotiationInv, LastIsOwn
  <2>2. Disagreed(k)
    BY <1>1, <1>2, <1>5, <2>1
  <2>3. PICK p \in Rank, o \in Rank : proposed[p][k] # proposed[o][k]
    BY <2>2 DEF Disagreed
  <2>4. proposed[p][k] \in Gathered(k) /\ proposed[o][k] \in Gathered(k)
    BY DEF Gathered
  <2>5. QED
    BY <2>3, <2>4
<1>6. ASSUME phase[r] = "done" PROVE n = k /\ phase[q] # "probe"
  <2>1. /\ k > 0 /\ k <= n
        /\ \A p \in Rank : proposed[p][k] = id[r]
    BY <1>1, <1>6 DEF NegotiationInv, LastIsOwn, DoneAgrees
  <2>2. ~ Disagreed(k)
    BY <2>1 DEF Disagreed
  <2>3. k \in 1 .. n
    BY <1>1, <2>1
  <2>4. ~ (k < n) /\ phase[q] # "probe"
    BY <1>2, <2>2, <2>3
  <2>5. QED
    BY <1>1, <2>1, <2>4
<1>7. QED
  BY <1>3, <1>4, <1>5, <1>6

\* The collective calls of the ranks in negotiate_communicator_id_locked match up,
\* round by round: the ranks are never more than one allgather apart, the one behind
\* goes on to where the other waits, and nobody leaves the loop while another one
\* needs a further allgather.
THEOREM RoundsMatch == Negotiation => []InStep
BY InStepLemma, NegotiationInvariance, PTL

\* Ranks that have left the loop agree on an id that was free in every map.
THEOREM AgreementAndFreshness == Negotiation => []AgreedAndFresh
<1>1. NegotiationInv => AgreedAndFresh
  <2> SUFFICES ASSUME NegotiationInv, NEW r \in Rank, NEW q \in Rank, phase[r] = "done"
               PROVE  /\ commId[r] \notin used[q]
                      /\ phase[q] = "done" => commId[r] = commId[q]
    BY DEF AgreedAndFresh
  <2> DEFINE k == Len(proposed[r])
  <2>1. /\ commId[r] = id[r]
        /\ proposed[q][k] = id[r]
        /\ Len(proposed[q]) >= k
        /\ k > 0
    BY DEF NegotiationInv, DoneAgrees, LastIsOwn
  <2>2. commId[r] \notin used[q]
    <3>1. Len(proposed[q]) \in Nat /\ k \in Nat
      BY DEF NegotiationInv, TypeOK
    <3>2. k \in 1 .. Len(proposed[q])
      BY <2>1, <3>1
    <3>3. QED
      BY <2>1, <3>2 DEF NegotiationInv, Proposals
  <2>3. ASSUME phase[q] = "done" PROVE commId[r] = commId[q]
    <3>1. Len(proposed[q]) = k
      BY InStepLemma DEF InStep
    <3>2. commId[q] = id[q] /\ proposed[q][k] = id[q]
      BY <2>3, <3>1 DEF NegotiationInv, DoneAgrees, LastIsOwn
    <3>3. QED
      BY <2>1, <3>2
  <2>4. QED
    BY <2>2, <2>3
<1>2. QED
  BY <1>1, NegotiationInvariance, PTL

\* The id agreed on is the least one free in every map.
LEMMA LeastFreeLemma == NegotiationInv => LeastFreeId
<1> SUFFICES ASSUME NegotiationInv, NEW r \in Rank, commId[r] # NoId
             PROVE  IsLeastFree(commId[r])
  BY DEF LeastFreeId
<1>1. phase[r] = "done" /\ commId[r] = id[r]
  BY DEF NegotiationInv, DoneAgrees
<1>2. commId[r] \in Id
  BY <1>1 DEF NegotiationInv, TypeOK
<1>3. FreeEverywhere(commId[r])
  <2> SUFFICES ASSUME NEW q \in Rank PROVE commId[r] \notin used[q]
    BY DEF FreeEverywhere
  <2> DEFINE k == Len(proposed[r])
  <2>1. Len(proposed[q]) >= k /\ proposed[q][k] = commId[r] /\ k > 0
    BY <1>1 DEF NegotiationInv, DoneAgrees, LastIsOwn
  <2>2. Len(proposed[q]) \in Nat /\ k \in Nat
    BY DEF NegotiationInv, TypeOK
  <2>3. k \in 1 .. Len(proposed[q])
    BY <2>1, <2>2
  <2>4. QED
    BY <2>1, <2>3 DEF NegotiationInv, Proposals
<1>4. \A m \in Id : FreeEverywhere(m) => commId[r] <= m
  BY <1>1 DEF NegotiationInv, Candidates
<1>5. QED
  BY <1>2, <1>3, <1>4 DEF IsLeastFree

\* Whatever ids the maps hold, the loop of negotiate_communicator_id_locked
\* ends with the smallest id that is free in all of them.
THEOREM LeastFree == Negotiation => []LeastFreeId
BY LeastFreeLemma, NegotiationInvariance, PTL

\* The loop gathers at most once per id below the capacity, and once more.
THEOREM BoundedRounds == Negotiation => []RoundBound
<1>1. NegotiationInv => RoundBound
  <2> SUFFICES ASSUME NegotiationInv, NEW r \in Rank
               PROVE  Len(proposed[r]) <= Capacity + 1
    BY DEF RoundBound
  <2> DEFINE k == Len(proposed[r])
  <2>1. k \in Nat /\ proposed[r] \in Seq(Id)
    BY DEF NegotiationInv, TypeOK
  <2>2. CASE k = 0
    BY <2>2, CapacityAssumption
  <2>3. CASE k # 0
    <3>1. k \in 1 .. k
      BY <2>1, <2>3
    <3>2. proposed[r][k] \in Id
      BY <2>1, <3>1
    <3>3. proposed[r][k] >= k - 1
      BY <3>1 DEF NegotiationInv, Proposals
    <3>4. QED
      BY <2>1, <3>2, <3>3, CapacityAssumption DEF Id
  <2>4. QED
    BY <2>2, <2>3
<1>2. QED
  BY <1>1, NegotiationInvariance, PTL

\* The loop implements the choice of the least free id in one step: the step in
\* which a rank leaves the loop is the choice, all others are invisible.
THEOREM Refinement == Negotiation => ChoosesLeastFreeId
<1>1. NegotiationInit => Choice!ChoiceInit
  <2>1. 0 .. Capacity - 1 \subseteq Id
    BY CapacityAssumption DEF Id
  <2>2. QED
    BY <2>1 DEF NegotiationInit, Choice!ChoiceInit
<1>0. NegotiationInv' => LeastFreeId'
  BY LeastFreeLemma, PTL
<1>2. NegotiationInv /\ NegotiationInv' /\ [NegotiationNext]_negotiationVars => [Choice!ChoiceNext]_(Choice!choiceVars)
  <2> SUFFICES ASSUME NegotiationInv, NegotiationInv', [NegotiationNext]_negotiationVars
               PROVE  [Choice!ChoiceNext]_(Choice!choiceVars)
    OBVIOUS
  <2>1. ASSUME NEW r \in Rank, Propose(r)
        PROVE  UNCHANGED <<used, commId>>
    BY <2>1 DEF Propose
  <2>2. ASSUME NEW r \in Rank, Gather(r), commId' # commId
        PROVE  Choice!Choose(r)
    <3>1. /\ phase[r] = "gather"
          /\ UNCHANGED used
          /\ commId' = [commId EXCEPT ![r] = id[r]]
      BY <2>2 DEF Gather
    <3>2. commId[r] = NoId /\ id[r] \in Id /\ commId'[r] = id[r]
      BY <3>1 DEF NegotiationInv, DoneAgrees, TypeOK
    <3>3. /\ \A q \in Rank : id[r] \notin used[q]
          /\ \A m \in Id : (\A q \in Rank : m \notin used[q]) => id[r] <= m
      BY <1>0, <3>1, <3>2, NoIdAssumption DEF LeastFreeId, IsLeastFree, FreeEverywhere
    <3>4. \A m \in Id : m < id[r] => \E q \in Rank : m \in used[q]
      BY <3>2, <3>3, CapacityAssumption DEF Id
    <3>5. QED
      BY <3>1, <3>2, <3>3, <3>4 DEF Choice!Choose
  <2>3. QED
    BY <2>1, <2>2 DEF NegotiationNext, Decided, negotiationVars, Gather, Choice!ChoiceNext, Choice!choiceVars
<1>3. QED
  BY <1>1, <1>2, NegotiationInvariance, PTL DEF Negotiation, ChoosesLeastFreeId, Choice!ChoiceSpec

-----------------------------------------------------------------------------
(***************************************************************************)
(* What a program P says of communicators.                                 *)
(***************************************************************************)
Plans == UNION {[P -> Color \cup {NoColor}] : P \in SUBSET Process}

CallSet ==
  [op : {"create"}, group : Groups] \cup [op : {"split"}, parent : Comm, plan : Plans]
  \cup [op : {"destroy"}, comm : Comm] \cup [op : {"destroy_all"}]

\* Members and Party, of a communicator and of call k of P.
MembersIn(P, c) ==
  IF P[c[1]].op = "create" THEN P[c[1]].group
  ELSE {p \in DOMAIN P[c[1]].plan : P[c[1]].plan[p] = c[2]}

PartyIn(P, k) ==
  IF P[k].op = "create" THEN P[k].group
  ELSE IF P[k].op = "split" THEN DOMAIN P[k].plan
  ELSE IF P[k].op = "destroy" THEN MembersIn(P, P[k].comm) ELSE Process

\* Some call creates c, and call k does.
Known(P, c)   == c \in Comm /\ c[1] \in 1 .. Len(P) /\ c \in Created(c[1], P[c[1]])
Born(P, k, c) == Known(P, c) /\ c[1] = k

\* Call k splits c; it destroys c, if there is one.
Splits(P, k, c) == P[k].op = "split" /\ P[k].parent = c
Kills(P, k, c)  == P[k].op = "destroy_all" \/ (P[k].op = "destroy" /\ P[k].comm = c)

\* c exists after the first k calls.
LiveAt(P, k, c) == Known(P, c) /\ c[1] <= k /\ \A j \in c[1] + 1 .. k : ~ Kills(P, j, c)

Legal(P, k) ==
  /\ P[k].op = "split" => /\ LiveAt(P, k - 1, P[k].parent)
                          /\ P[k].plan \in [MembersIn(P, P[k].parent) -> Color \cup {NoColor}]
  /\ P[k].op = "destroy" => LiveAt(P, k - 1, P[k].comm)

IsProgram(P) ==
  P \in Seq(CallSet) /\ Len(P) <= MaxOps /\ \A k \in 1 .. Len(P) : Legal(P, k)

\* p has made its calls up to call d, and k is its next one.
Turn(P, p, d, k) ==
  /\ k \in d + 1 .. Len(P) /\ p \in PartyIn(P, k)
  /\ \A j \in d + 1 .. k - 1 : p \notin PartyIn(P, j)

\* The collectives of c that a member enters in call k: their number and the i-th.
Takes(P, k, c) ==
  IF Born(P, k, c) THEN IF P[k].op = "create" THEN 3 ELSE 2
  ELSE IF Splits(P, k, c) \/ (Kills(P, k, c) /\ LiveAt(P, k - 1, c)) THEN 1 ELSE 0

What(P, k, c, i) ==
  IF Born(P, k, c)
  THEN IF P[k].op = "create" /\ i = 1 THEN "create"
       ELSE IF i = Takes(P, k, c) THEN "granularity" ELSE "exchange_id"
  ELSE IF Splits(P, k, c) THEN "split" ELSE "destroy_comm"

\* A program is a sequence of calls, each with its arguments.
LEMMA CallsAre ==
  ASSUME NEW P, IsProgram(P)
  PROVE  /\ Len(P) \in Nat /\ Len(P) <= MaxOps /\ DOMAIN P = 1 .. Len(P)
         /\ \A k \in 1 .. Len(P) :
              /\ P[k].op \in {"create", "split", "destroy", "destroy_all"}
              /\ P[k].op = "create" => P[k].group \in Groups
              /\ P[k].op = "split" => P[k].parent \in Comm /\ P[k].plan \in Plans
              /\ P[k].op = "destroy" => P[k].comm \in Comm
<1>1. P \in Seq(CallSet) /\ Len(P) <= MaxOps
  BY DEF IsProgram
<1>2. \A k \in 1 .. Len(P) : P[k] \in CallSet
  BY <1>1
<1>3. Len(P) \in Nat /\ DOMAIN P = 1 .. Len(P)
  BY <1>1
<1>4. QED
  BY <1>1, <1>2, <1>3 DEF CallSet

\* A communicator is a call and a color.
LEMMA CommIs ==
  ASSUME NEW c \in Comm
  PROVE  /\ c[1] \in Nat /\ c[1] \in 1 .. MaxOps /\ c[2] \in Color /\ c = <<c[1], c[2]>>
         /\ c # NoComm
BY MaxOpsAssumption DEF Comm, NoComm

\* One with the members of a call has some, and they make the call.
LEMMA MembersAre ==
  ASSUME NEW P, IsProgram(P), NEW c, Known(P, c)
  PROVE  /\ c \in Comm /\ c[1] \in 1 .. Len(P) /\ c[1] \in Nat
         /\ MembersIn(P, c) \subseteq Process /\ MembersIn(P, c) # {}
         /\ P[c[1]].op \in {"create", "split"}
         /\ MembersIn(P, c) \subseteq PartyIn(P, c[1])
<1>1. PICK k : k = c[1]
  OBVIOUS
<1>2. k \in 1 .. Len(P) /\ c \in Created(k, P[k]) /\ c \in Comm
  BY <1>1 DEF Known
<1>3. Len(P) \in Nat /\ k \in Nat
  BY <1>2, CallsAre
<1>4. P[k].op \in {"create", "split"}
  BY <1>2, CallsAre DEF Created
<1>5. CASE P[k].op = "create"
  <2>1. MembersIn(P, c) = P[k].group /\ PartyIn(P, k) = P[k].group
    BY <1>1, <1>5 DEF MembersIn, PartyIn
  <2>2. P[k].group \in (SUBSET Process) \ {{}}
    BY <1>2, <1>5, CallsAre, ProcessAssumption
  <2>3. QED
    BY <1>1, <1>2, <1>3, <1>4, <2>1, <2>2
<1>6. CASE P[k].op = "split"
  <2>1. PICK p \in DOMAIN P[k].plan : P[k].plan[p] # NoColor /\ c = <<k, P[k].plan[p]>>
    BY <1>2, <1>6 DEF Created
  <2>2. P[k].plan \in Plans
    BY <1>2, <1>6, CallsAre
  <2>3. PICK G \in SUBSET Process : P[k].plan \in [G -> Color \cup {NoColor}]
    BY <2>2 DEF Plans
  <2>4. c[2] = P[k].plan[p]
    BY <2>1
  <2>5. MembersIn(P, c) = {q \in DOMAIN P[k].plan : P[k].plan[q] = c[2]}
    BY <1>1, <1>6 DEF MembersIn
  <2>6. PartyIn(P, k) = DOMAIN P[k].plan
    BY <1>6 DEF PartyIn
  <2>7. QED
    BY <1>1, <1>2, <1>3, <1>4, <2>1, <2>3, <2>4, <2>5, <2>6
<1>7. QED
  BY <1>4, <1>5, <1>6

\* The communicators of one call have no member in common, and each of its processes
\* with a color is a member of one.
LEMMA OneOfACall ==
  ASSUME NEW P, IsProgram(P), NEW k, NEW c, NEW e, Born(P, k, c), Born(P, k, e),
         NEW p, p \in MembersIn(P, c), p \in MembersIn(P, e)
  PROVE  c = e
<1>1. c \in Comm /\ e \in Comm /\ c[1] = k /\ e[1] = k /\ k \in 1 .. Len(P)
      /\ P[k].op \in {"create", "split"}
      /\ c \in Created(k, P[k]) /\ e \in Created(k, P[k])
  BY MembersAre DEF Born, Known
<1>2. CASE P[k].op = "create"
  BY <1>1, <1>2 DEF Created
<1>3. CASE P[k].op = "split"
  <2>1. P[k].plan[p] = c[2] /\ P[k].plan[p] = e[2]
    BY <1>1, <1>3 DEF MembersIn
  <2>2. c = <<k, c[2]>> /\ e = <<k, e[2]>>
    BY <1>1, CommIs
  <2>3. QED
    BY <2>1, <2>2
<1>4. QED
  BY <1>1, <1>2, <1>3

\* What call k creates of a process that makes it: a communicator it is a member of, or
\* none of its own if it has no color.
LEMMA BornOf ==
  ASSUME NEW P, IsProgram(P), NEW k \in 1 .. Len(P), NEW p \in PartyIn(P, k)
  PROVE  /\ P[k].op = "create" => Born(P, k, <<k, 0>>) /\ p \in MembersIn(P, <<k, 0>>)
         /\ P[k].op = "split" /\ P[k].plan[p] # NoColor =>
              Born(P, k, <<k, P[k].plan[p]>>) /\ p \in MembersIn(P, <<k, P[k].plan[p]>>)
         /\ P[k].op = "split" /\ P[k].plan[p] = NoColor =>
              \A c : Born(P, k, c) => p \notin MembersIn(P, c)
<1>1. k \in 1 .. MaxOps
  BY CallsAre, MaxOpsAssumption
<1>2. CASE P[k].op = "create"
  <2>1. PICK c : c = <<k, 0>>
    OBVIOUS
  <2>2. c[1] = k /\ c \in Comm /\ c \in Created(k, P[k]) /\ MembersIn(P, c) = P[k].group
    BY <1>1, <1>2, <2>1, ColorAssumption DEF Comm, Created, MembersIn
  <2>3. QED
    BY <1>2, <2>1, <2>2 DEF Born, Known, PartyIn
<1>3. CASE P[k].op = "split"
  <2>1. P[k].plan \in Plans /\ p \in DOMAIN P[k].plan
    BY <1>3, CallsAre DEF PartyIn
  <2>2. P[k].plan[p] \in Color \cup {NoColor}
    BY <2>1 DEF Plans
  <2>3. PICK v : v = P[k].plan[p]
    OBVIOUS
  <2>4. CASE v # NoColor
    <3>1. PICK c : c = <<k, v>>
      OBVIOUS
    <3>2. c[1] = k /\ c[2] = v /\ c \in Comm /\ c \in Created(k, P[k])
      BY <1>1, <1>3, <2>1, <2>2, <2>3, <2>4, <3>1 DEF Comm, Created
    <3>3. p \in MembersIn(P, c)
      BY <1>3, <2>1, <2>3, <3>2 DEF MembersIn
    <3>4. QED
      BY <1>3, <2>3, <2>4, <3>1, <3>2, <3>3 DEF Born, Known
  <2>5. CASE v = NoColor
    <3>1. ASSUME NEW c, Born(P, k, c), p \in MembersIn(P, c) PROVE FALSE
      <4>1. c \in Comm /\ c[1] = k /\ c[2] = v
        BY <1>3, <2>3, <3>1 DEF Born, Known, MembersIn
      <4>2. QED
        BY <2>5, <4>1, CommIs, ColorAssumption
    <3>2. QED
      BY <1>3, <2>3, <2>5, <3>1
  <2>6. QED
    BY <1>3, <2>3, <2>4, <2>5
<1>4. CASE P[k].op \notin {"create", "split"}
  BY <1>4
<1>5. QED
  BY <1>2, <1>3, <1>4

\* The calls that concern a communicator are made by all its members.
LEMMA ConcernsMembers ==
  ASSUME NEW P, IsProgram(P), NEW c, Known(P, c), NEW p \in MembersIn(P, c),
         NEW k \in 1 .. Len(P), k = c[1] \/ Splits(P, k, c) \/ Kills(P, k, c)
  PROVE  p \in PartyIn(P, k)
<1>1. CASE k = c[1]
  BY <1>1, MembersAre
<1>2. CASE Splits(P, k, c)
  BY <1>2, CallsAre DEF Splits, IsProgram, Legal, PartyIn
<1>3. CASE Kills(P, k, c)
  <2>1. CASE P[k].op = "destroy_all"
    BY <2>1, MembersAre DEF PartyIn
  <2>2. CASE P[k].op = "destroy" /\ P[k].comm = c
    BY <2>2 DEF PartyIn
  <2>3. QED
    BY <1>3, <2>1, <2>2 DEF Kills
<1>4. QED
  BY <1>1, <1>2, <1>3

\* A call has at most three collectives of a communicator.
LEMMA TakesAre ==
  ASSUME NEW P, NEW k, NEW c
  PROVE  Takes(P, k, c) \in 0 .. 3
BY DEF Takes

\* A member that makes no call meets nothing that concerns the communicator.
LEMMA Quiet ==
  ASSUME NEW P, IsProgram(P), NEW c, Known(P, c), NEW p \in MembersIn(P, c),
         NEW a \in 0 .. Len(P), NEW b \in 0 .. Len(P), a <= b,
         \A j \in a + 1 .. b : p \notin PartyIn(P, j)
  PROVE  /\ c[1] <= b => c[1] <= a
         /\ LiveAt(P, a, c) <=> LiveAt(P, b, c)
         /\ \A j \in a + 1 .. b : Takes(P, j, c) = 0
<1>1. Len(P) \in Nat /\ c[1] \in 1 .. Len(P) /\ c[1] \in Nat
  BY CallsAre, MembersAre
<1>2. \A j \in a + 1 .. b : j # c[1] /\ ~ Splits(P, j, c) /\ ~ Kills(P, j, c)
  <2>1. \A j \in a + 1 .. b : j \in 1 .. Len(P)
    BY <1>1
  <2>2. QED
    BY <2>1, ConcernsMembers
<1>3. c[1] <= b => c[1] <= a
  BY <1>1, <1>2
<1>4. \A j \in a + 1 .. b : Takes(P, j, c) = 0
  BY <1>2 DEF Takes, Born
<1>5. c[1] <= a => \A j \in c[1] + 1 .. b : j \in c[1] + 1 .. a \/ j \in a + 1 .. b
  BY <1>1
<1>6. c[1] <= a => \A j \in c[1] + 1 .. a : j \in c[1] + 1 .. b
  BY <1>1
<1>7. LiveAt(P, a, c) => LiveAt(P, b, c)
  BY <1>1, <1>2, <1>5 DEF LiveAt
<1>8. LiveAt(P, b, c) => LiveAt(P, a, c)
  BY <1>3, <1>6 DEF LiveAt
<1>9. QED
  BY <1>3, <1>4, <1>7, <1>8

\* One call later.
LEMMA LiveNext ==
  ASSUME NEW P, IsProgram(P), NEW c \in Comm, NEW k \in 1 .. Len(P)
  PROVE  /\ LiveAt(P, k, c) <=> (Born(P, k, c) \/ (LiveAt(P, k - 1, c) /\ ~ Kills(P, k, c)))
         /\ LiveAt(P, k - 1, c) => ~ Born(P, k, c)
<1>1. Len(P) \in Nat /\ c[1] \in Nat /\ k \in Nat
  BY CallsAre, CommIs
<1>2. c[1] <= k => \A j \in c[1] + 1 .. k : j = k \/ j \in c[1] + 1 .. k - 1
  BY <1>1
<1>3. c[1] <= k - 1 => /\ k \in c[1] + 1 .. k
                       /\ \A j \in c[1] + 1 .. k - 1 : j \in c[1] + 1 .. k
  BY <1>1
<1>4. c[1] <= k <=> c[1] = k \/ c[1] <= k - 1
  BY <1>1
<1>5. c[1] = k => c[1] + 1 .. k = {} /\ ~ (c[1] <= k - 1)
  BY <1>1
<1>6. QED
  BY <1>2, <1>3, <1>4, <1>5 DEF LiveAt, Born

-----------------------------------------------------------------------------
(***************************************************************************)
(* What a process knows: it has made its calls up to d, s is what it does, *)
(* in the communicator e, M is its map, and S what it has entered of c.    *)
(***************************************************************************)
Held(M, c) == \E n \in DOMAIN M : M[n] = c

\* p works on e in call k.
Busy(P, p, k, s, e) ==
  /\ Known(P, e) /\ p \in MembersIn(P, e)
  /\ s = "joining" => (Born(P, k, e) /\ P[k].op = "create") \/ Splits(P, k, e)
  /\ s \in {"negotiating", "settling"} => Born(P, k, e)
  /\ s = "destroying" => Kills(P, k, e) /\ LiveAt(P, k - 1, e)

Place(P, p, d, s, e) ==
  /\ d \in 0 .. Len(P)
  /\ s \in {"idle", "joining", "negotiating", "settling", "destroying"}
  /\ s = "idle" => e = NoComm
  /\ s # "idle" => \E k \in 1 .. Len(P) : Turn(P, p, d, k) /\ Busy(P, p, k, s, e)

\* The map holds the communicators of p that exist, all of them but while p destroys
\* all, and the one it settles.
Keeps(P, p, d, s, e, M) ==
  /\ \A n \in DOMAIN M :
       /\ n \in Nat /\ Known(P, M[n]) /\ p \in MembersIn(P, M[n]) /\ n < M[n][1]
       /\ LiveAt(P, d, M[n]) \/ (s = "settling" /\ e = M[n])
  /\ \A c : LiveAt(P, d, c) /\ p \in MembersIn(P, c) =>
              \/ Held(M, c)
              \/ \E k \in 1 .. Len(P) : Turn(P, p, d, k) /\ P[k].op = "destroy_all"
  /\ s \in {"settling", "destroying"} => Held(M, e)

\* The collectives of c that p has entered in call k.
Within(P, k, c, s, e, M) ==
  IF Born(P, k, c)
  THEN IF e # c THEN 0
       ELSE IF s = "joining" THEN 1
       ELSE IF s = "negotiating" THEN Takes(P, k, c) - 1 ELSE Takes(P, k, c)
  ELSE IF Splits(P, k, c) THEN IF s = "idle" THEN 0 ELSE 1
  ELSE IF Kills(P, k, c) /\ LiveAt(P, k - 1, c) THEN IF Held(M, c) /\ e # c THEN 0 ELSE 1
  ELSE 0

\* S is as long as the calls say: f[j] collectives in the first j calls.
Counted(P, p, d, s, e, M, c, f, S) ==
  /\ \A k \in 1 .. Len(P) : Turn(P, p, d, k) => Len(S) = f[d] + Within(P, k, c, s, e, M)
  /\ (\A k \in 1 .. Len(P) : ~ Turn(P, p, d, k)) => Len(S) = f[d]

\* f and g are what the members of c enter: their number after each call, and all.
Tally(P, c, f, g) ==
  /\ f \in [0 .. MaxOps -> Nat]
  /\ \A j \in 0 .. Len(P) : j < c[1] => f[j] = 0
  /\ \A k \in 1 .. Len(P) : /\ f[k] = f[k - 1] + Takes(P, k, c)
                            /\ \A i \in 1 .. Takes(P, k, c) : g[f[k - 1] + i] = What(P, k, c, i)
  /\ \A a, b \in 0 .. Len(P) :
       a <= b => f[a] <= f[b] /\ ((\A j \in a + 1 .. b : Takes(P, j, c) = 0) => f[a] = f[b])

\* A process has one next call, and makes none before it.
LEMMA TurnIs ==
  ASSUME NEW P, IsProgram(P), NEW p, NEW d \in 0 .. Len(P), NEW k, Turn(P, p, d, k)
  PROVE  /\ Len(P) \in Nat /\ k \in 1 .. Len(P) /\ k \in Nat /\ d < k /\ k - 1 \in 0 .. Len(P)
         /\ d <= k - 1 /\ p \in PartyIn(P, k) /\ \A j \in d + 1 .. k - 1 : p \notin PartyIn(P, j)
         /\ \A j : Turn(P, p, d, j) => j = k
<1>1. Len(P) \in Nat
  BY CallsAre
<1>2. k \in d + 1 .. Len(P) /\ p \in PartyIn(P, k) /\ \A j \in d + 1 .. k - 1 : p \notin PartyIn(P, j)
  BY DEF Turn
<1>3. ASSUME NEW j, Turn(P, p, d, j) PROVE j = k
  <2>1. j \in d + 1 .. Len(P) /\ p \in PartyIn(P, j) /\ \A i \in d + 1 .. j - 1 : p \notin PartyIn(P, i)
    BY <1>3 DEF Turn
  <2>2. j \notin d + 1 .. k - 1 /\ k \notin d + 1 .. j - 1
    BY <1>2, <2>1
  <2>3. QED
    BY <1>1, <1>2, <2>1, <2>2
<1>4. QED
  BY <1>1, <1>2, <1>3

\* Up to its next call nothing happens to the communicators of p.
LEMMA UpToTurn ==
  ASSUME NEW P, IsProgram(P), NEW c, Known(P, c), NEW p \in MembersIn(P, c),
         NEW d \in 0 .. Len(P), NEW k, Turn(P, p, d, k)
  PROVE  /\ c[1] <= k - 1 => c[1] <= d
         /\ LiveAt(P, d, c) <=> LiveAt(P, k - 1, c)
         /\ \A f, g : Tally(P, c, f, g) => f[d] = f[k - 1]
<1>1. k - 1 \in 0 .. Len(P) /\ d <= k - 1 /\ \A j \in d + 1 .. k - 1 : p \notin PartyIn(P, j)
  BY TurnIs
<1>2. \A j \in d + 1 .. k - 1 : Takes(P, j, c) = 0
  BY <1>1, Quiet
<1>3. \A f, g : Tally(P, c, f, g) => f[d] = f[k - 1]
  BY <1>1, <1>2 DEF Tally
<1>4. QED
  BY <1>1, <1>3, Quiet

\* A process is no further in a call than the call goes; between calls it is at its start.
LEMMA WithinIs ==
  ASSUME NEW P, IsProgram(P), NEW p, NEW d, NEW s, NEW e, NEW M, Place(P, p, d, s, e),
         NEW k, Turn(P, p, d, k), NEW c, Known(P, c), p \in MembersIn(P, c)
  PROVE  /\ Within(P, k, c, s, e, M) \in 0 .. Takes(P, k, c)
         /\ e = c => Within(P, k, c, s, e, M) >= 1
         /\ s = "idle" /\ (LiveAt(P, k - 1, c) => Held(M, c)) => Within(P, k, c, s, e, M) = 0
<1>1. c \in Comm /\ c # NoComm /\ d \in 0 .. Len(P)
  BY CommIs DEF Known, Place
<1>2. e = c => s # "idle" /\ Busy(P, p, k, s, e)
  BY <1>1, TurnIs DEF Place
<1>3. CASE Born(P, k, c)
  <2>1. Takes(P, k, c) = IF P[k].op = "create" THEN 3 ELSE 2
    BY <1>3 DEF Takes
  <2>2. Within(P, k, c, s, e, M) = IF e # c THEN 0
       ELSE IF s = "joining" THEN 1
       ELSE IF s = "negotiating" THEN Takes(P, k, c) - 1 ELSE Takes(P, k, c)
    BY <1>3 DEF Within
  <2>3. s = "idle" => e # c
    BY <1>2
  <2>4. QED
    BY <2>1, <2>2, <2>3
<1>4. CASE ~ Born(P, k, c) /\ Splits(P, k, c)
  BY <1>2, <1>4 DEF Takes, Within
<1>5. CASE ~ Born(P, k, c) /\ ~ Splits(P, k, c) /\ Kills(P, k, c) /\ LiveAt(P, k - 1, c)
  BY <1>1, <1>2, <1>5 DEF Takes, Within, Place
<1>6. CASE ~ Born(P, k, c) /\ ~ Splits(P, k, c) /\ ~ (Kills(P, k, c) /\ LiveAt(P, k - 1, c))
  <2>1. Takes(P, k, c) = 0 /\ Within(P, k, c, s, e, M) = 0
    BY <1>6 DEF Takes, Within
  <2>2. e # c
    BY <1>2, <1>6 DEF Busy, Place
  <2>3. QED
    BY <2>1, <2>2
<1>7. QED
  BY <1>3, <1>4, <1>5, <1>6

\* What p has entered when it is back from call k.
LEMMA BackIdle ==
  ASSUME NEW P, IsProgram(P), NEW p, NEW k \in 0 .. Len(P), NEW M,
         \A n \in DOMAIN M : /\ n \in Nat /\ Known(P, M[n]) /\ p \in MembersIn(P, M[n])
                             /\ n < M[n][1] /\ LiveAt(P, k, M[n]),
         \A c : LiveAt(P, k, c) /\ p \in MembersIn(P, c) => Held(M, c)
  PROVE  /\ Place(P, p, k, "idle", NoComm) /\ Keeps(P, p, k, "idle", NoComm, M)
         /\ \A c, f, g, S : Known(P, c) /\ p \in MembersIn(P, c) /\ Tally(P, c, f, g) /\ Len(S) = f[k]
              => Counted(P, p, k, "idle", NoComm, M, c, f, S)
<1>1. Place(P, p, k, "idle", NoComm)
  BY DEF Place
<1>2. Keeps(P, p, k, "idle", NoComm, M)
  BY DEF Keeps
<1>3. ASSUME NEW c, NEW f, NEW g, NEW S, Known(P, c), p \in MembersIn(P, c), Tally(P, c, f, g),
             Len(S) = f[k]
      PROVE  Counted(P, p, k, "idle", NoComm, M, c, f, S)
  <2>1. k <= MaxOps /\ f[k] \in Nat
    BY <1>3, CallsAre, MaxOpsAssumption DEF Tally
  <2>2. ASSUME NEW j \in 1 .. Len(P), Turn(P, p, k, j)
        PROVE  Within(P, j, c, "idle", NoComm, M) = 0
    BY <1>1, <1>3, <2>2, WithinIs, UpToTurn
  <2>3. QED
    BY <1>3, <2>1, <2>2 DEF Counted
<1>4. QED
  BY <1>1, <1>2, <1>3

-----------------------------------------------------------------------------
(***************************************************************************)
(* A program with one more call says the same of the calls before it.      *)
(***************************************************************************)
Longer(P, Q) == /\ Len(Q) = Len(P) + 1 /\ \A k \in 1 .. Len(P) : Q[k] = P[k]

\* The communicators and their members stay, and only the new call adds some.
LEMMA LongerComms ==
  ASSUME NEW P, IsProgram(P), NEW Q, Longer(P, Q)
  PROVE  /\ \A c : Known(P, c) => Known(Q, c) /\ MembersIn(Q, c) = MembersIn(P, c)
         /\ \A c : Known(Q, c) => Known(P, c) \/ Born(Q, Len(P) + 1, c)
         /\ \A c : ~ (Known(P, c) /\ Born(Q, Len(P) + 1, c))
         /\ \A k \in 1 .. Len(P) : PartyIn(Q, k) = PartyIn(P, k)
<1>1. Len(P) \in Nat /\ Len(Q) = Len(P) + 1
  BY CallsAre DEF Longer
<1>2. ASSUME NEW c, Known(P, c) PROVE Known(Q, c) /\ MembersIn(Q, c) = MembersIn(P, c)
  <2>1. c \in Comm /\ c[1] \in 1 .. Len(P) /\ Q[c[1]] = P[c[1]] /\ c[1] \in 1 .. Len(Q)
    BY <1>1, <1>2 DEF Known, Longer
  <2>2. QED
    BY <1>2, <2>1 DEF Known, MembersIn
<1>3. ASSUME NEW c, Known(Q, c) PROVE Known(P, c) \/ Born(Q, Len(P) + 1, c)
  <2>1. c \in Comm /\ c[1] \in 1 .. Len(P) + 1
    BY <1>1, <1>3 DEF Known
  <2>2. CASE c[1] \in 1 .. Len(P)
    BY <1>3, <2>1, <2>2 DEF Known, Longer
  <2>3. CASE c[1] = Len(P) + 1
    BY <1>3, <2>3 DEF Born
  <2>4. QED
    BY <1>1, <2>1, <2>2, <2>3
<1>4. ASSUME NEW c, Known(P, c), Born(Q, Len(P) + 1, c) PROVE FALSE
  BY <1>1, <1>4 DEF Known, Born
<1>5. ASSUME NEW k \in 1 .. Len(P) PROVE PartyIn(Q, k) = PartyIn(P, k)
  <2>1. Q[k] = P[k] /\ P[k].op \in {"create", "split", "destroy", "destroy_all"}
    BY CallsAre DEF Longer
  <2>2. CASE P[k].op = "destroy"
    <3>1. Known(P, P[k].comm)
      BY <2>2 DEF IsProgram, Legal, LiveAt
    <3>2. QED
      BY <1>2, <2>1, <2>2, <3>1 DEF PartyIn
  <2>3. CASE P[k].op # "destroy"
    BY <2>1, <2>3 DEF PartyIn
  <2>4. QED
    BY <2>2, <2>3
<1>6. QED
  BY <1>2, <1>3, <1>4, <1>5

\* The old calls create, split and destroy what they did.
LEMMA LongerCalls ==
  ASSUME NEW P, IsProgram(P), NEW Q, Longer(P, Q), NEW c
  PROVE  /\ \A k \in 1 .. Len(P) :
              /\ Born(Q, k, c) <=> Born(P, k, c)
              /\ Splits(Q, k, c) <=> Splits(P, k, c)
              /\ Kills(Q, k, c) <=> Kills(P, k, c)
              /\ Takes(Q, k, c) = Takes(P, k, c)
              /\ \A i : What(Q, k, c, i) = What(P, k, c, i)
              /\ \A s, e, M : Within(Q, k, c, s, e, M) = Within(P, k, c, s, e, M)
         /\ \A j \in 0 .. Len(P) : LiveAt(Q, j, c) <=> LiveAt(P, j, c)
<1>1. Len(P) \in Nat /\ Len(Q) = Len(P) + 1
  BY CallsAre DEF Longer
<1>2. \A k \in 1 .. Len(P) : Q[k] = P[k]
  BY DEF Longer
<1>3. \A k \in 1 .. Len(P) : Born(Q, k, c) <=> Born(P, k, c)
  <2>1. ASSUME NEW k \in 1 .. Len(P), Born(Q, k, c) PROVE Born(P, k, c)
    <3>1. ~ Born(Q, Len(P) + 1, c)
      BY <1>1, <2>1 DEF Born
    <3>2. QED
      BY <2>1, <3>1, LongerComms DEF Born
  <2>2. QED
    BY <2>1, LongerComms DEF Born
<1>4. \A k \in 1 .. Len(P) : /\ Splits(Q, k, c) <=> Splits(P, k, c)
                             /\ Kills(Q, k, c) <=> Kills(P, k, c)
  BY <1>2 DEF Splits, Kills
<1>5. ASSUME NEW j \in 0 .. Len(P) PROVE LiveAt(Q, j, c) <=> LiveAt(P, j, c)
  <2>1. CASE Known(P, c)
    <3>1. c[1] \in 1 .. Len(P)
      BY <2>1 DEF Known
    <3>2. \A i \in c[1] + 1 .. j : i \in 1 .. Len(P)
      BY <1>1, <3>1
    <3>3. QED
      BY <1>4, <2>1, <3>2, LongerComms DEF LiveAt
  <2>2. CASE ~ Known(P, c)
    <3>1. Born(Q, Len(P) + 1, c) => ~ (c[1] <= j)
      BY <1>1 DEF Born
    <3>2. QED
      BY <2>2, <3>1, LongerComms DEF LiveAt
  <2>3. QED
    BY <2>1, <2>2
<1>6. \A k \in 1 .. Len(P) : k - 1 \in 0 .. Len(P)
  BY <1>1
<1>7. \A k \in 1 .. Len(P) : Takes(Q, k, c) = Takes(P, k, c)
  BY <1>2, <1>3, <1>4, <1>5, <1>6 DEF Takes
<1>8. \A k \in 1 .. Len(P) : \A i : What(Q, k, c, i) = What(P, k, c, i)
  BY <1>2, <1>3, <1>4, <1>7 DEF What
<1>9. ASSUME NEW k \in 1 .. Len(P), NEW s, NEW e, NEW M
      PROVE  Within(Q, k, c, s, e, M) = Within(P, k, c, s, e, M)
  <2>1. LiveAt(Q, k - 1, c) <=> LiveAt(P, k - 1, c)
    BY <1>5, <1>6
  <2>2. QED
    BY <1>3, <1>4, <1>7, <2>1 DEF Within
<1>10. QED
  BY <1>3, <1>4, <1>5, <1>7, <1>8, <1>9

\* The next call of a process stays; the new one is the next of those that had none.
LEMMA LongerTurn ==
  ASSUME NEW P, IsProgram(P), NEW Q, Longer(P, Q), NEW p, NEW d \in 0 .. Len(P)
  PROVE  /\ \A k \in 1 .. Len(P) : Turn(Q, p, d, k) <=> Turn(P, p, d, k)
         /\ \A k : Turn(Q, p, d, k) => \/ k \in 1 .. Len(P) /\ Turn(P, p, d, k)
                                       \/ /\ k = Len(P) + 1
                                          /\ \A j \in 1 .. Len(P) : ~ Turn(P, p, d, j)
<1>1. Len(P) \in Nat /\ Len(Q) = Len(P) + 1
  BY CallsAre DEF Longer
<1>2. \A k \in 1 .. Len(P) : PartyIn(Q, k) = PartyIn(P, k)
  BY LongerComms
<1>3. ASSUME NEW k \in 1 .. Len(P) PROVE Turn(Q, p, d, k) <=> Turn(P, p, d, k)
  <2>1. \A j \in d + 1 .. k - 1 : j \in 1 .. Len(P)
    BY <1>1
  <2>2. QED
    BY <1>1, <1>2, <2>1 DEF Turn
<1>4. ASSUME NEW k, Turn(Q, p, d, k), k \notin 1 .. Len(P)
      PROVE  k = Len(P) + 1 /\ \A j \in 1 .. Len(P) : ~ Turn(P, p, d, j)
  <2>1. k \in d + 1 .. Len(P) + 1
    BY <1>1, <1>4 DEF Turn
  <2>2. k = Len(P) + 1
    BY <1>1, <1>4, <2>1
  <2>3. \A j \in d + 1 .. Len(P) : p \notin PartyIn(P, j)
    BY <1>1, <1>2, <1>4, <2>2 DEF Turn
  <2>4. QED
    BY <2>2, <2>3 DEF Turn
<1>5. QED
  BY <1>3, <1>4

\* A legal call makes a longer program.
LEMMA LongerProgram ==
  ASSUME NEW P, IsProgram(P), Len(P) < MaxOps, NEW call \in CallSet,
         call.op = "split" => /\ LiveAt(P, Len(P), call.parent)
                              /\ call.plan \in [MembersIn(P, call.parent) -> Color \cup {NoColor}],
         call.op = "destroy" => LiveAt(P, Len(P), call.comm)
  PROVE  /\ Longer(P, Append(P, call)) /\ Append(P, call)[Len(P) + 1] = call
         /\ IsProgram(Append(P, call))
<1>1. Len(P) \in Nat /\ P \in Seq(CallSet) /\ MaxOps \in Nat
  BY CallsAre, MaxOpsAssumption DEF IsProgram
<1>2. PICK Q : Q = Append(P, call)
  OBVIOUS
<1>3. Longer(P, Q) /\ Q[Len(P) + 1] = call /\ Q \in Seq(CallSet) /\ Len(Q) <= MaxOps
  BY <1>1, <1>2 DEF Longer
<1>4. ASSUME NEW c, Known(P, c) PROVE MembersIn(Q, c) = MembersIn(P, c)
  BY <1>3, <1>4, LongerComms
<1>5. ASSUME NEW k \in 1 .. Len(P) PROVE Legal(Q, k)
  <2>1. Q[k] = P[k] /\ Legal(P, k) /\ k - 1 \in 0 .. Len(P)
    BY <1>1, <1>3 DEF Longer, IsProgram
  <2>2. \A c : LiveAt(P, k - 1, c) => LiveAt(Q, k - 1, c) /\ Known(P, c)
    BY <1>3, <2>1, LongerCalls DEF LiveAt
  <2>3. QED
    BY <1>4, <2>1, <2>2 DEF Legal
<1>6. Legal(Q, Len(P) + 1)
  <2>1. (Len(P) + 1) - 1 = Len(P) /\ Len(P) \in 0 .. Len(P)
    BY <1>1
  <2>2. \A c : LiveAt(P, Len(P), c) => LiveAt(Q, Len(P), c) /\ Known(P, c)
    BY <1>3, <2>1, LongerCalls DEF LiveAt
  <2>3. QED
    BY <1>3, <1>4, <2>1, <2>2 DEF Legal
<1>7. IsProgram(Q)
  <2>1. \A k \in 1 .. Len(Q) : k \in 1 .. Len(P) \/ k = Len(P) + 1
    BY <1>1, <1>3 DEF Longer
  <2>2. QED
    BY <1>3, <1>5, <1>6, <2>1 DEF IsProgram
<1>8. QED
  BY <1>2, <1>3, <1>7

\* The tally of a communicator is continued over the new call.
LEMMA LongerTally ==
  ASSUME NEW P, IsProgram(P), NEW Q, Longer(P, Q), IsProgram(Q), NEW c \in Comm, NEW f, NEW g,
         Tally(P, c, f, g)
  PROVE  \E f2, g2 : /\ Tally(Q, c, f2, g2)
                     /\ \A j \in 0 .. Len(P) : f2[j] = f[j]
                     /\ \A i \in 1 .. f[Len(P)] : g2[i] = g[i]
<1>1. PICK n \in Nat : n = Len(P)
  BY CallsAre
<1>2. Len(Q) = n + 1 /\ n + 1 <= MaxOps /\ MaxOps \in Nat /\ n + 1 \in 0 .. MaxOps
  BY <1>1, CallsAre, MaxOpsAssumption DEF Longer
<1>3. f \in [0 .. MaxOps -> Nat] /\ f[n] \in Nat
  BY <1>2 DEF Tally
<1>4. PICK last \in Nat : last = f[n]
  BY <1>3
<1>5. PICK more \in 0 .. 3 : more = Takes(Q, n + 1, c)
  BY TakesAre
<1> DEFINE f2 == [j \in 0 .. MaxOps |-> IF j <= n THEN f[j] ELSE last + more]
           g2 == [i \in 1 .. last + more |-> IF i <= last THEN g[i] ELSE What(Q, n + 1, c, i - last)]
<1>6. f2 \in [0 .. MaxOps -> Nat]
  BY <1>3
<1>7. /\ \A j \in 0 .. n : f2[j] = f[j]
      /\ f2[n + 1] = last + more
  BY <1>2
<1>8. /\ \A i \in 1 .. last : g2[i] = g[i]
      /\ \A i \in 1 .. more : g2[last + i] = What(Q, n + 1, c, i)
  <2>1. ASSUME NEW i \in 1 .. more PROVE g2[last + i] = What(Q, n + 1, c, i)
    <3>1. last + i \in 1 .. last + more /\ ~ (last + i <= last) /\ (last + i) - last = i
      OBVIOUS
    <3>2. g2[last + i] = What(Q, n + 1, c, (last + i) - last)
      BY <3>1
    <3>3. QED
      BY <3>1, <3>2
  <2>2. QED
    BY <2>1
<1> HIDE DEF f2, g2
<1>9. \A k \in 1 .. n : /\ Takes(Q, k, c) = Takes(P, k, c)
                        /\ \A i : What(Q, k, c, i) = What(P, k, c, i)
  BY <1>1, LongerCalls
<1>10. c[1] \in Nat
  BY CommIs
<1>11. ASSUME NEW j \in 0 .. n + 1, j < c[1] PROVE f2[j] = 0
  <2>1. CASE j <= n
    BY <1>1, <1>7, <1>11, <2>1 DEF Tally
  <2>2. CASE j = n + 1
    <3>1. last = 0
      BY <1>1, <1>4, <1>10, <1>11, <2>2 DEF Tally
    <3>2. ~ Born(Q, n + 1, c) /\ \A i \in 0 .. n : ~ LiveAt(Q, i, c)
      BY <1>10, <1>11, <2>2 DEF Born, LiveAt
    <3>3. ~ LiveAt(Q, (n + 1) - 1, c)
      BY <3>2
    <3>4. ~ Splits(Q, n + 1, c)
      BY <1>2, <3>3 DEF IsProgram, Legal, Splits
    <3>5. more = 0
      BY <1>5, <3>2, <3>3, <3>4 DEF Takes
    <3>6. QED
      BY <1>7, <2>2, <3>1, <3>5
  <2>3. QED
    BY <2>1, <2>2
<1>12. ASSUME NEW k \in 1 .. n + 1
       PROVE  /\ f2[k] = f2[k - 1] + Takes(Q, k, c)
              /\ \A i \in 1 .. Takes(Q, k, c) : g2[f2[k - 1] + i] = What(Q, k, c, i)
  <2>1. CASE k <= n
    <3>1. k \in 1 .. n /\ k - 1 \in 0 .. n /\ f2[k] = f[k] /\ f2[k - 1] = f[k - 1]
      BY <1>7, <2>1
    <3>2. f[k] = f[k - 1] + Takes(P, k, c) /\ f[k - 1] \in Nat /\ f[k] <= f[n]
      BY <1>1, <1>2, <1>3, <3>1 DEF Tally
    <3>3. \A i \in 1 .. Takes(P, k, c) : g[f[k - 1] + i] = What(P, k, c, i) /\ f[k - 1] + i \in 1 .. last
      <4>1. \A i \in 1 .. Takes(P, k, c) : g[f[k - 1] + i] = What(P, k, c, i)
        BY <1>1, <3>1 DEF Tally
      <4>2. PICK h \in Nat : h = f[k - 1]
        BY <3>2
      <4>3. PICK u \in 0 .. 3 : u = Takes(P, k, c)
        BY TakesAre
      <4>4. \A i \in 1 .. u : h + i \in 1 .. last
        BY <1>4, <3>2, <4>2, <4>3
      <4>5. QED
        BY <4>1, <4>2, <4>3, <4>4
    <3>4. QED
      BY <1>8, <1>9, <3>1, <3>2, <3>3
  <2>2. CASE k = n + 1
    <3>1. k - 1 = n /\ f2[k - 1] = last
      BY <1>4, <1>7, <2>2
    <3>2. QED
      BY <1>5, <1>7, <1>8, <2>2, <3>1
  <2>3. QED
    BY <2>1, <2>2
<1>13. ASSUME NEW a \in 0 .. n + 1, NEW b \in 0 .. n + 1, a <= b
       PROVE  f2[a] <= f2[b] /\ ((\A j \in a + 1 .. b : Takes(Q, j, c) = 0) => f2[a] = f2[b])
  <2>1. CASE b <= n
    <3>1. \A j \in a + 1 .. b : j \in 1 .. n
      BY <2>1
    <3>2. QED
      BY <1>1, <1>7, <1>9, <1>13, <2>1, <3>1 DEF Tally
  <2>2. CASE b = n + 1 /\ a <= n
    <3>1. f[a] <= f[n] /\ ((\A j \in a + 1 .. n : Takes(P, j, c) = 0) => f[a] = f[n]) /\ f[a] \in Nat
      <4>1. a \in 0 .. n /\ n \in 0 .. n /\ a \in 0 .. MaxOps
        BY <1>2, <2>2
      <4>2. f[a] <= f[n] /\ ((\A j \in a + 1 .. n : Takes(P, j, c) = 0) => f[a] = f[n])
        BY <1>1, <4>1 DEF Tally
      <4>3. QED
        BY <1>3, <4>1, <4>2
    <3>2. f2[a] = f[a] /\ f2[b] = last + more
      BY <1>7, <2>2
    <3>3. (\A j \in a + 1 .. b : Takes(Q, j, c) = 0) =>
            more = 0 /\ \A j \in a + 1 .. n : Takes(P, j, c) = 0
      BY <1>5, <1>9, <2>2
    <3>4. QED
      BY <1>4, <3>1, <3>2, <3>3
  <2>3. CASE b = n + 1 /\ a = n + 1
    BY <1>7, <2>3
  <2>4. QED
    BY <2>1, <2>2, <2>3
<1>14. Tally(Q, c, f2, g2)
  BY <1>2, <1>6, <1>11, <1>12, <1>13 DEF Tally
<1>15. QED
  BY <1>1, <1>4, <1>7, <1>8, <1>14

-----------------------------------------------------------------------------
(***************************************************************************)
(* The inductive invariant.                                                *)
(***************************************************************************)
Said(S, g) == \A i \in 1 .. Len(S) : S[i] = g[i]

\* A process has the id of c: it has returned from its creation, or is about to.
HasId(c, d, s, e) == c[1] <= d \/ (s = "settling" /\ e = c)

\* The collectives of c that a process has left.
Left(c, e, S) == Len(S) - (IF e = c THEN 1 ELSE 0)

\* FreeId, of the members G.
FirstFreeId(G, maps, c) ==
  Min({n \in 0 .. MaxOps : \A q \in G : n \in DOMAIN maps[q] => maps[q][n] = c})

States == {"idle", "joining", "negotiating", "settling", "destroying"}
Collectives == {"create", "split", "exchange_id", "granularity", "destroy_comm"}

Types ==
  /\ done \in [Process -> Nat] /\ pc \in [Process -> States] /\ comm \in [Process -> Comm \cup {NoComm}]
  /\ comm_id \in [Comm -> [Process -> Nat]] /\ sent \in [Comm -> [Process -> Seq(Collectives)]]
  /\ DOMAIN communicator_map = Process

Programs ==
  IsProgram(program) /\ live = {c \in Comm : LiveAt(program, Len(program), c)}

Places ==
  \A p \in Process :
    /\ Place(program, p, done[p], pc[p], comm[p])
    /\ Keeps(program, p, done[p], pc[p], comm[p], communicator_map[p])

Named ==
  \A p \in Process, c \in Comm : \A n \in DOMAIN communicator_map[p] :
    communicator_map[p][n] = c => comm_id[c][p] = n

\* The members of a communicator enter the same collectives in the same order.
SentAlike ==
  \A c \in Comm :
    /\ ~ Known(program, c) => \A p \in Process : sent[c][p] = << >>
    /\ \E f, g :
         /\ Tally(program, c, f, g)
         /\ Known(program, c) => \A p \in MembersIn(program, c) :
              /\ Counted(program, p, done[p], pc[p], comm[p], communicator_map[p], c, f, sent[c][p])
              /\ Said(sent[c][p], g)

\* None has left one that another has not entered.
Met ==
  \A c \in Comm : Known(program, c) => \A p, q \in MembersIn(program, c) :
    Left(c, comm[q], sent[c][q]) <= Len(sent[c][p])

\* Those that have the id have the same, the one the others will find.
IdsAgree ==
  \A c \in Comm : Known(program, c) => \A q \in MembersIn(program, c) :
    HasId(c, done[q], pc[q], comm[q]) => \A p \in MembersIn(program, c) :
      /\ HasId(c, done[p], pc[p], comm[p]) => comm_id[c][p] = comm_id[c][q]
      /\ pc[p] = "negotiating" /\ comm[p] = c =>
           comm_id[c][q] = FirstFreeId(MembersIn(program, c), communicator_map, c)

\* p keeps the directory of its communicator with id n.
Keeper(P, p, c) ==
  /\ \A q, r \in MembersIn(P, c) : HostOf[q] = HostOf[r]
  /\ Min({q \in MembersIn(P, c) : HostOf[q] = HostOf[p]}) = p

DirsKeptOf ==
  \A dir : dir \in dirs <=>
    \E p \in Process : \E n \in DOMAIN communicator_map[p] :
      Keeper(program, p, communicator_map[p][n]) /\ dir = <<HostOf[p], n, p>>

CommInv ==
  Types /\ Programs /\ Places /\ Named /\ SentAlike /\ Met /\ IdsAgree /\ DirsKeptOf

-----------------------------------------------------------------------------
LEMMA LeftIs ==
  ASSUME NEW c, NEW e, NEW S, Len(S) \in Nat
  PROVE  /\ Left(c, e, S) \in Int /\ Left(c, e, S) <= Len(S) /\ Left(c, e, S) >= Len(S) - 1
         /\ e = c => Left(c, e, S) = Len(S) - 1
         /\ e # c => Left(c, e, S) = Len(S)
BY DEF Left

\* How far a member is when it has the id of c, and when it has not.
LEMMA Reached ==
  ASSUME NEW P, IsProgram(P), NEW c, Known(P, c), NEW p \in MembersIn(P, c), NEW d, NEW s, NEW e, NEW M,
         Place(P, p, d, s, e), NEW f, NEW g, Tally(P, c, f, g), NEW S, Len(S) \in Nat,
         Counted(P, p, d, s, e, M, c, f, S)
  PROVE  /\ Takes(P, c[1], c) \in {2, 3}
         /\ c[1] <= d => Left(c, e, S) >= Takes(P, c[1], c)
         /\ s = "settling" /\ e = c => Len(S) = Takes(P, c[1], c) /\ d < c[1] /\ Turn(P, p, d, c[1])
         /\ s = "negotiating" /\ e = c =>
              Len(S) = Takes(P, c[1], c) - 1 /\ d < c[1] /\ Turn(P, p, d, c[1])
         /\ ~ HasId(c, d, s, e) /\ Len(S) >= Takes(P, c[1], c) - 1 => s = "negotiating" /\ e = c
<1>1. PICK b \in Nat : b = c[1]
  BY MembersAre
<1>2. b \in 1 .. Len(P) /\ Born(P, b, c) /\ c \in Comm /\ c # NoComm /\ p \in PartyIn(P, b)
  BY <1>1, MembersAre, CommIs DEF Born
<1>3. Len(P) \in Nat /\ Len(P) <= MaxOps /\ MaxOps \in Nat /\ d \in 0 .. Len(P)
  BY CallsAre, MaxOpsAssumption DEF Place
<1>4. PICK T \in {2, 3} : T = Takes(P, b, c) /\ (T = 3 <=> P[b].op = "create")
  BY <1>2 DEF Takes
<1>5. f[b - 1] = 0 /\ f[b] = T /\ f[d] \in Nat /\ (d < b => f[d] = 0) /\ (b <= d => T <= f[d])
  <2>0. b - 1 \in 0 .. Len(P) /\ b - 1 < c[1] /\ d \in 0 .. MaxOps
    BY <1>1, <1>2, <1>3
  <2>1. f \in [0 .. MaxOps -> Nat] /\ \A j \in 0 .. Len(P) : j < c[1] => f[j] = 0
    BY DEF Tally
  <2>2. f[b - 1] = 0 /\ f[d] \in Nat /\ (d < b => f[d] = 0)
    BY <1>1, <1>3, <2>0, <2>1
  <2>3. f[b] = f[b - 1] + T
    BY <1>2, <1>4 DEF Tally
  <2>4. b <= d => f[b] <= f[d]
    BY <1>2, <1>3 DEF Tally
  <2>5. QED
    BY <2>2, <2>3, <2>4
<1>6. ~ LiveAt(P, b - 1, c)
  BY <1>2, LiveNext
<1>7. e = c => \E k \in 1 .. Len(P) : Turn(P, p, d, k) /\ Busy(P, p, k, s, e)
  BY <1>2 DEF Place
<1>8. ASSUME b <= d PROVE Left(c, e, S) >= T
  <2>1. CASE e = c
    <3>1. PICK k \in 1 .. Len(P) : Turn(P, p, d, k)
      BY <1>7, <2>1
    <3>2. Within(P, k, c, s, e, M) >= 1 /\ Within(P, k, c, s, e, M) \in Nat
      BY <2>1, <3>1, WithinIs, TakesAre
    <3>3. Len(S) = f[d] + Within(P, k, c, s, e, M)
      BY <3>1 DEF Counted
    <3>4. QED
      BY <1>5, <1>8, <2>1, <3>2, <3>3 DEF Left
  <2>2. CASE e # c
    <3>1. Len(S) >= f[d]
      <4>1. CASE \E k \in 1 .. Len(P) : Turn(P, p, d, k)
        <5>1. PICK k \in 1 .. Len(P) : Turn(P, p, d, k)
          BY <4>1
        <5>2. Within(P, k, c, s, e, M) \in Nat
          BY <5>1, WithinIs, TakesAre
        <5>3. QED
          BY <1>5, <5>1, <5>2 DEF Counted
      <4>2. CASE \A k \in 1 .. Len(P) : ~ Turn(P, p, d, k)
        BY <1>5, <4>2 DEF Counted
      <4>3. QED
        BY <4>1, <4>2
    <3>2. QED
      BY <1>5, <1>8, <2>2, <3>1 DEF Left
  <2>3. QED
    BY <2>1, <2>2
<1>9. ASSUME e = c, s \in {"negotiating", "settling"}
      PROVE  /\ d < b /\ Turn(P, p, d, b)
             /\ s = "settling" => Len(S) = T
             /\ s = "negotiating" => Len(S) = T - 1
  <2>1. PICK k \in 1 .. Len(P) : Turn(P, p, d, k) /\ Busy(P, p, k, s, e)
    BY <1>7, <1>9
  <2>2. k = b
    BY <1>1, <1>9, <2>1 DEF Busy, Born
  <2>3. d < b /\ f[d] = 0
    BY <1>3, <1>5, <2>1, <2>2, TurnIs
  <2>4. Len(S) = f[d] + Within(P, b, c, s, e, M)
    BY <2>1, <2>2 DEF Counted
  <2>5. QED
    BY <1>2, <1>4, <1>9, <2>1, <2>2, <2>3, <2>4 DEF Within
<1>10. ASSUME ~ HasId(c, d, s, e), Len(S) >= T - 1 PROVE s = "negotiating" /\ e = c
  <2>1. d < b /\ ~ (s = "settling" /\ e = c) /\ f[d] = 0
    BY <1>1, <1>3, <1>5, <1>10 DEF HasId
  <2>2. PICK k \in 1 .. Len(P) : Turn(P, p, d, k)
    <3>1. SUFFICES ASSUME \A k \in 1 .. Len(P) : ~ Turn(P, p, d, k) PROVE FALSE
      OBVIOUS
    <3>2. Len(S) = 0
      BY <2>1, <3>1 DEF Counted
    <3>3. QED
      BY <1>4, <1>10, <3>2
  <2>3. k <= b
    <3>1. b \notin d + 1 .. k - 1
      BY <1>2, <2>2 DEF Turn
    <3>2. QED
      BY <1>2, <1>3, <2>1, <3>1
  <2>4. Len(S) = Within(P, k, c, s, e, M) /\ Within(P, k, c, s, e, M) \in 0 .. Takes(P, k, c)
    <3>1. Within(P, k, c, s, e, M) \in 0 .. Takes(P, k, c) /\ Within(P, k, c, s, e, M) \in Nat
      BY <2>2, WithinIs, TakesAre
    <3>2. QED
      BY <2>1, <2>2, <3>1 DEF Counted
  <2>5. k = b
    <3>1. SUFFICES ASSUME k < b PROVE FALSE
      BY <2>3
    <3>2. f[k] = f[k - 1] + Takes(P, k, c) /\ k - 1 < b /\ k - 1 \in 0 .. Len(P) /\ k \in 0 .. Len(P)
      BY <1>3, <3>1 DEF Tally
    <3>3. f[k] = 0 /\ f[k - 1] = 0
      BY <1>1, <3>1, <3>2 DEF Tally
    <3>4. Takes(P, k, c) = 0
      BY <3>2, <3>3, TakesAre
    <3>5. QED
      BY <1>4, <1>10, <2>4, <3>4
  <2>6. Within(P, b, c, s, e, M) = IF e # c THEN 0 ELSE IF s = "joining" THEN 1
                                   ELSE IF s = "negotiating" THEN T - 1 ELSE T
    BY <1>2, <1>4 DEF Within
  <2>7. e = c
    BY <1>4, <1>10, <2>4, <2>5, <2>6
  <2>8. Busy(P, p, b, s, e)
    BY <1>7, <2>2, <2>5, <2>7, <1>3, TurnIs
  <2>9. ~ Splits(P, b, c)
    BY <1>2, <1>6 DEF IsProgram, Legal, Splits
  <2>10. s # "destroying"
    BY <1>6, <2>7, <2>8 DEF Busy
  <2>11. s # "joining"
    <3>1. SUFFICES ASSUME s = "joining" PROVE FALSE
      OBVIOUS
    <3>2. P[b].op = "create"
      BY <2>7, <2>8, <2>9, <3>1 DEF Busy
    <3>3. QED
      BY <1>4, <1>10, <2>4, <2>5, <2>6, <2>7, <3>1, <3>2
  <2>12. s # "idle"
    BY <1>2, <2>7 DEF Place
  <2>13. QED
    BY <2>1, <2>7, <2>10, <2>11, <2>12 DEF Place
<1>11. QED
  BY <1>1, <1>4, <1>8, <1>9, <1>10

\* Min of a nonempty set of naturals.
LEMMA LeastIs ==
  ASSUME NEW S \in SUBSET Nat, S # {}
  PROVE  Min(S) \in S /\ \A n \in S : Min(S) <= n
BY LeastElement DEF Min

\* The facts about a member of c, and what the members enter.
LEMMA SentOf ==
  ASSUME CommInv, NEW c, Known(program, c)
  PROVE  /\ c \in Comm /\ MembersIn(program, c) \subseteq Process
         /\ \E f, g :
              /\ Tally(program, c, f, g)
              /\ \A p \in MembersIn(program, c) :
                   /\ Place(program, p, done[p], pc[p], comm[p])
                   /\ Keeps(program, p, done[p], pc[p], comm[p], communicator_map[p])
                   /\ Len(sent[c][p]) \in Nat /\ sent[c][p] \in Seq(Collectives)
                   /\ Counted(program, p, done[p], pc[p], comm[p], communicator_map[p], c, f, sent[c][p])
                   /\ Said(sent[c][p], g)
<1>1. IsProgram(program) /\ c \in Comm /\ MembersIn(program, c) \subseteq Process
  BY MembersAre DEF CommInv, Programs
<1>2. PICK f, g : /\ Tally(program, c, f, g)
                  /\ \A p \in MembersIn(program, c) :
                       /\ Counted(program, p, done[p], pc[p], comm[p], communicator_map[p], c, f, sent[c][p])
                       /\ Said(sent[c][p], g)
  BY <1>1 DEF CommInv, SentAlike
<1>3. \A p \in Process : sent[c][p] \in Seq(Collectives)
  BY <1>1 DEF CommInv, Types
<1>4. \A p \in Process : Len(sent[c][p]) \in Nat
  BY <1>3
<1>5. QED
  BY <1>1, <1>2, <1>3, <1>4 DEF CommInv, Places

\* Once all members have entered the collective of the negotiation, or one has the id,
\* all negotiate or have settled: nobody's map changes but by this communicator.
LEMMA Together ==
  ASSUME CommInv, NEW c, Known(program, c),
         NEW p \in MembersIn(program, c), pc[p] = "negotiating", comm[p] = c,
         NEW r \in MembersIn(program, c),
         \/ \A q \in MembersIn(program, c) : Len(sent[c][q]) >= Len(sent[c][p])
         \/ HasId(c, done[r], pc[r], comm[r])
  PROVE  \A q \in MembersIn(program, c) :
           /\ comm[q] = c /\ pc[q] \in {"negotiating", "settling"}
           /\ done[q] < c[1] /\ Turn(program, q, done[q], c[1])
<1>1. IsProgram(program)
  BY DEF CommInv, Programs
<1>2. c \in Comm /\ c[1] \in Nat
  BY SentOf, CommIs
<1>3. PICK f, g :
         /\ Tally(program, c, f, g)
         /\ \A q \in MembersIn(program, c) :
              /\ Place(program, q, done[q], pc[q], comm[q])
              /\ Len(sent[c][q]) \in Nat
              /\ Counted(program, q, done[q], pc[q], comm[q], communicator_map[q], c, f, sent[c][q])
  BY SentOf
<1>4. PICK T \in {2, 3} : T = Takes(program, c[1], c)
  BY <1>1, <1>3, Reached
<1>5. ASSUME NEW q \in MembersIn(program, c)
      PROVE  /\ c[1] <= done[q] => Left(c, comm[q], sent[c][q]) >= T
             /\ pc[q] \in {"negotiating", "settling"} /\ comm[q] = c =>
                  done[q] < c[1] /\ Turn(program, q, done[q], c[1])
             /\ pc[q] = "settling" /\ comm[q] = c => Len(sent[c][q]) = T
             /\ ~ HasId(c, done[q], pc[q], comm[q]) /\ Len(sent[c][q]) >= T - 1
                  => pc[q] = "negotiating" /\ comm[q] = c
             /\ Len(sent[c][q]) \in Nat /\ done[q] \in Nat
  <2>1. Len(sent[c][q]) \in Nat /\ done[q] \in Nat
    BY <1>1, <1>3, CallsAre DEF Place
  <2>2. QED
    BY <1>1, <1>3, <1>4, <2>1, Reached
<1>6. Len(sent[c][p]) = T - 1
  BY <1>1, <1>3, <1>4, Reached
<1>7. \A q, o \in MembersIn(program, c) : Left(c, comm[q], sent[c][q]) <= Len(sent[c][o])
  BY <1>2 DEF CommInv, Met
<1>8. \A q \in MembersIn(program, c) : Len(sent[c][q]) >= T - 1
  <2>1. CASE HasId(c, done[r], pc[r], comm[r])
    <3>1. Left(c, comm[r], sent[c][r]) >= T - 1 /\ Left(c, comm[r], sent[c][r]) \in Int
      <4>1. CASE c[1] <= done[r]
        BY <1>5, <4>1, LeftIs
      <4>2. CASE pc[r] = "settling" /\ comm[r] = c
        BY <1>5, <4>2, LeftIs
      <4>3. QED
        BY <2>1, <4>1, <4>2 DEF HasId
    <3>2. QED
      BY <1>5, <1>7, <3>1
  <2>2. CASE \A q \in MembersIn(program, c) : Len(sent[c][q]) >= Len(sent[c][p])
    BY <1>6, <2>2
  <2>3. QED
    BY <2>1, <2>2
<1>9. ASSUME NEW q \in MembersIn(program, c)
      PROVE  comm[q] = c /\ pc[q] \in {"negotiating", "settling"}
  <2>1. ~ (c[1] <= done[q])
    <3>1. Left(c, comm[q], sent[c][q]) <= T - 1 /\ Left(c, comm[q], sent[c][q]) \in Int
      BY <1>5, <1>6, <1>7, LeftIs
    <3>2. QED
      BY <1>5, <3>1
  <2>2. QED
    BY <1>5, <1>8, <2>1 DEF HasId
<1>10. QED
  BY <1>5, <1>9

\* Then the least id that is free at all of them is one of those below the number of
\* the call.
LEMMA FirstFreeIsLow ==
  ASSUME CommInv, NEW c, Known(program, c),
         \A q \in MembersIn(program, c) : comm[q] = c /\ done[q] < c[1],
         NEW n, n = FirstFreeId(MembersIn(program, c), communicator_map, c)
  PROVE  /\ n \in Nat /\ n < c[1]
         /\ \A q \in MembersIn(program, c) :
              n \in DOMAIN communicator_map[q] => communicator_map[q][n] = c
<1> DEFINE G == MembersIn(program, c)
           Free == {i \in 0 .. MaxOps : \A q \in G : i \in DOMAIN communicator_map[q]
                                                     => communicator_map[q][i] = c}
<1>1. IsProgram(program) /\ Len(program) \in Nat /\ Len(program) <= MaxOps /\ MaxOps \in Nat
  BY CallsAre, MaxOpsAssumption DEF CommInv, Programs
<1>2. c \in Comm /\ c[1] \in 1 .. Len(program) /\ c[1] \in Nat /\ G \subseteq Process
  BY <1>1, MembersAre
<1>3. c[1] - 1 \in Free
  <2>1. c[1] - 1 \in 0 .. MaxOps
    BY <1>1, <1>2
  <2>2. ASSUME NEW q \in G, c[1] - 1 \in DOMAIN communicator_map[q], communicator_map[q][c[1] - 1] # c
        PROVE  FALSE
    <3>1. PICK i, e : i = c[1] - 1 /\ e = communicator_map[q][i]
      OBVIOUS
    <3>2. Known(program, e) /\ i < e[1] /\ LiveAt(program, done[q], e) /\ done[q] \in Nat
      BY <1>2, <2>2, <3>1 DEF CommInv, Places, Keeps, Types
    <3>3. e[1] \in Nat /\ e[1] <= done[q]
      BY <1>1, <3>2, MembersAre DEF LiveAt
    <3>4. QED
      BY <1>2, <3>1, <3>2, <3>3
  <2>3. QED
    BY <2>1, <2>2
<1>4. Free \in SUBSET Nat
  OBVIOUS
<1>5. n = Min(Free)
  BY DEF FirstFreeId
<1> HIDE DEF Free
<1>6. n \in Free /\ n <= c[1] - 1
  <2>1. PICK F \in SUBSET Nat : F = Free
    BY <1>4
  <2>2. PICK b \in F : b = c[1] - 1
    BY <1>3, <2>1
  <2>3. Min(F) \in F /\ Min(F) <= b
    BY LeastIs
  <2>4. QED
    BY <1>5, <2>1, <2>2, <2>3
<1>7. QED
  BY <1>2, <1>6 DEF Free

-----------------------------------------------------------------------------
(***************************************************************************)
(* A step of one process p: what it has to establish.                      *)
(***************************************************************************)
\* Nothing of another process changes.
OthersRest(p) ==
  /\ program' = program /\ live' = live
  /\ \A q \in Process : q # p =>
       /\ done'[q] = done[q] /\ pc'[q] = pc[q] /\ comm'[q] = comm[q]
       /\ communicator_map'[q] = communicator_map[q]
       /\ \A c \in Comm : sent'[c][q] = sent[c][q] /\ comm_id'[c][q] = comm_id[c][q]

\* What p says it has entered of c remains what the calls say.
StaysCounted(p, c) ==
  \A f, g :
    /\ Tally(program, c, f, g)
    /\ Counted(program, p, done[p], pc[p], comm[p], communicator_map[p], c, f, sent[c][p])
    /\ Said(sent[c][p], g)
    => /\ Counted(program, p, done'[p], pc'[p], comm'[p], communicator_map'[p], c, f, sent'[c][p])
       /\ Said(sent'[c][p], g)

\* p leaves a collective of c only if all have entered it.
LeavesLast(p, c) ==
  /\ Len(sent'[c][p]) >= Len(sent[c][p])
  /\ \/ Left(c, comm'[p], sent'[c][p]) <= Left(c, comm[p], sent[c][p])
     \/ \A q \in MembersIn(program, c) : Left(c, comm'[p], sent'[c][p]) <= Len(sent[c][q])

\* A step of p keeps the invariant if it keeps what the invariant says of p: the other
\* processes rest, and p leaves a collective only when all members have entered it.
LEMMA StepOfOne ==
  ASSUME CommInv, NEW p \in Process, OthersRest(p), Types',
         Place(program, p, done'[p], pc'[p], comm'[p]),
         Keeps(program, p, done'[p], pc'[p], comm'[p], communicator_map'[p]),
         \A c \in Comm : \A n \in DOMAIN communicator_map'[p] :
           communicator_map'[p][n] = c => comm_id'[c][p] = n,
         \A c \in Comm : Known(program, c) /\ p \in MembersIn(program, c) =>
           StaysCounted(p, c) /\ LeavesLast(p, c),
         \A c \in Comm : ~ Known(program, c) => sent'[c][p] = sent[c][p]
  PROVE  Programs' /\ Places' /\ Named' /\ SentAlike' /\ Met'
<1>1. program' = program /\ IsProgram(program)
  BY DEF OthersRest, CommInv, Programs
<1>2. Programs'
  BY <1>1 DEF OthersRest, CommInv, Programs
<1>3. Places'
  BY <1>1 DEF OthersRest, CommInv, Places
<1>4. Named'
  BY <1>1 DEF OthersRest, CommInv, Named
<1>5. SentAlike'
  <2>1. ASSUME NEW c \in Comm, ~ Known(program, c)
        PROVE  /\ \A q \in Process : sent'[c][q] = << >>
               /\ \E f, g : Tally(program, c, f, g)
    BY <2>1 DEF OthersRest, CommInv, SentAlike
  <2>2. ASSUME NEW c \in Comm, Known(program, c)
        PROVE  \E f, g :
                 /\ Tally(program, c, f, g)
                 /\ \A q \in MembersIn(program, c) :
                      /\ Counted(program, q, done'[q], pc'[q], comm'[q], communicator_map'[q], c, f, sent'[c][q])
                      /\ Said(sent'[c][q], g)
    <3>1. PICK f, g :
            /\ Tally(program, c, f, g)
            /\ \A q \in MembersIn(program, c) :
                 /\ Counted(program, q, done[q], pc[q], comm[q], communicator_map[q], c, f, sent[c][q])
                 /\ Said(sent[c][q], g)
      BY <2>2, SentOf
    <3>2. ASSUME NEW q \in MembersIn(program, c)
          PROVE  /\ Counted(program, q, done'[q], pc'[q], comm'[q], communicator_map'[q], c, f, sent'[c][q])
                 /\ Said(sent'[c][q], g)
      <4>1. CASE q = p
        BY <2>2, <3>1, <3>2, <4>1 DEF StaysCounted
      <4>2. CASE q # p
        <5>1. q \in Process
          BY <2>2, SentOf
        <5>2. QED
          BY <3>1, <4>2, <5>1 DEF OthersRest
      <4>3. QED
        BY <4>1, <4>2
    <3>3. QED
      BY <3>1, <3>2
  <2>3. QED
    BY <1>1, <2>1, <2>2 DEF SentAlike
<1>6. Met'
  <2>1. ASSUME NEW c \in Comm, Known(program, c),
               NEW o \in MembersIn(program, c), NEW q \in MembersIn(program, c)
        PROVE  Left(c, comm'[q], sent'[c][q]) <= Len(sent'[c][o])
    <3>1. o \in Process /\ q \in Process /\ MembersIn(program, c) \subseteq Process
      BY <2>1, SentOf
    <3>2. \A r \in Process : Len(sent[c][r]) \in Nat /\ Len(sent'[c][r]) \in Nat
      <4>1. \A r \in Process : sent[c][r] \in Seq(Collectives) /\ sent'[c][r] \in Seq(Collectives)
        BY DEF CommInv, Types
      <4>2. QED
        BY <4>1
    <3>3. Len(sent'[c][o]) >= Len(sent[c][o])
      BY <2>1, <3>1, <3>2 DEF OthersRest, LeavesLast
    <3>4. Left(c, comm'[q], sent'[c][q]) <= Len(sent[c][o])
      <4>1. Left(c, comm[q], sent[c][q]) <= Len(sent[c][o])
        BY <2>1 DEF CommInv, Met
      <4>2. CASE q = p
        <5>1. CASE Left(c, comm'[p], sent'[c][p]) <= Left(c, comm[p], sent[c][p])
          <6>1. /\ Left(c, comm'[p], sent'[c][p]) \in Int /\ Left(c, comm[p], sent[c][p]) \in Int
                /\ Len(sent[c][o]) \in Nat
            BY <3>1, <3>2, LeftIs
          <6>2. QED
            BY <4>1, <4>2, <5>1, <6>1
        <5>2. CASE \A r \in MembersIn(program, c) : Left(c, comm'[p], sent'[c][p]) <= Len(sent[c][r])
          BY <4>2, <5>2
        <5>3. QED
          BY <2>1, <4>2, <5>1, <5>2 DEF LeavesLast
      <4>3. CASE q # p
        BY <3>1, <4>1, <4>3 DEF OthersRest
      <4>4. QED
        BY <4>2, <4>3
    <3>5. QED
      <4>1. /\ Left(c, comm'[q], sent'[c][q]) \in Int
            /\ Len(sent[c][o]) \in Nat /\ Len(sent'[c][o]) \in Nat
        BY <3>1, <3>2, LeftIs
      <4>2. QED
        BY <3>3, <3>4, <4>1
  <2>2. QED
    BY <1>1, <2>1 DEF Met
<1>7. QED
  BY <1>2, <1>3, <1>4, <1>5, <1>6

\* A collective that all members have entered may be left.
LEMMA LeavesLastIs ==
  ASSUME CommInv, NEW c \in Comm, Known(program, c), NEW p \in MembersIn(program, c), Types',
         \/ sent'[c][p] = sent[c][p]
         \/ comm'[p] = c /\ \E w : sent'[c][p] = Append(sent[c][p], w),
         comm[p] = c => \A q \in MembersIn(program, c) : Len(sent[c][q]) >= Len(sent[c][p])
  PROVE  LeavesLast(p, c)
<1>1. p \in Process /\ MembersIn(program, c) \subseteq Process
  BY SentOf
<1>2. sent[c][p] \in Seq(Collectives) /\ sent'[c][p] \in Seq(Collectives)
  BY <1>1 DEF CommInv, Types
<1>3. PICK n \in Nat : n = Len(sent[c][p])
  BY <1>2
<1>4. Len(sent'[c][p]) \in Nat
  BY <1>2
<1>5. Left(c, comm[p], sent[c][p]) \in Int /\ (comm[p] # c => Left(c, comm[p], sent[c][p]) = n)
  BY <1>3, LeftIs
<1>6. Len(sent'[c][p]) >= n /\ Left(c, comm'[p], sent'[c][p]) \in Int /\ Left(c, comm'[p], sent'[c][p]) <= n
  <2>1. CASE sent'[c][p] = sent[c][p]
    BY <1>3, <2>1, LeftIs
  <2>2. CASE comm'[p] = c /\ \E w : sent'[c][p] = Append(sent[c][p], w)
    <3>1. PICK w : sent'[c][p] = Append(sent[c][p], w)
      BY <2>2
    <3>2. Len(sent'[c][p]) = n + 1
      BY <1>2, <1>3, <3>1
    <3>3. /\ Left(c, comm'[p], sent'[c][p]) \in Int
          /\ comm'[p] = c => Left(c, comm'[p], sent'[c][p]) = Len(sent'[c][p]) - 1
      BY <1>4, LeftIs
    <3>4. QED
      BY <2>2, <3>2, <3>3
  <2>3. QED
    BY <2>1, <2>2
<1>7. CASE comm[p] # c
  BY <1>3, <1>5, <1>6, <1>7 DEF LeavesLast
<1>8. CASE comm[p] = c
  <2>1. ASSUME NEW q \in MembersIn(program, c) PROVE Left(c, comm'[p], sent'[c][p]) <= Len(sent[c][q])
    <3>1. sent[c][q] \in Seq(Collectives)
      BY <1>1 DEF CommInv, Types
    <3>2. Len(sent[c][q]) \in Nat /\ Len(sent[c][q]) >= n
      BY <1>3, <1>8, <3>1
    <3>3. QED
      BY <1>6, <3>2
  <2>2. QED
    BY <1>3, <1>6, <2>1 DEF LeavesLast
<1>9. QED
  BY <1>7, <1>8

\* The ids of others: they hang together by the maps of those that negotiate.
LEMMA IdsKept ==
  ASSUME CommInv, NEW p \in Process, OthersRest(p),
         \A c \in Comm : Known(program, c) /\ p \in MembersIn(program, c) =>
           /\ HasId(c, done'[p], pc'[p], comm'[p]) =>
                HasId(c, done[p], pc[p], comm[p]) /\ comm_id'[c][p] = comm_id[c][p]
           /\ pc'[p] = "negotiating" /\ comm'[p] = c =>
                \/ pc[p] = "negotiating" /\ comm[p] = c
                \/ \A q \in MembersIn(program, c) : ~ HasId(c, done[q], pc[q], comm[q]),
         communicator_map'[p] = communicator_map[p] \/ pc[p] \notin {"negotiating", "settling"}
  PROVE  IdsAgree'
<1>1. program' = program
  BY DEF OthersRest
<1>2. ASSUME NEW c \in Comm, Known(program, c), NEW q \in MembersIn(program, c),
             HasId(c, done'[q], pc'[q], comm'[q]), NEW o \in MembersIn(program, c)
      PROVE  /\ HasId(c, done'[o], pc'[o], comm'[o]) => comm_id'[c][o] = comm_id'[c][q]
             /\ pc'[o] = "negotiating" /\ comm'[o] = c =>
                  comm_id'[c][q] = FirstFreeId(MembersIn(program, c), communicator_map', c)
  <2>1. MembersIn(program, c) \subseteq Process
    BY <1>2, SentOf
  <2>2. \A r \in MembersIn(program, c) : HasId(c, done'[r], pc'[r], comm'[r]) =>
          HasId(c, done[r], pc[r], comm[r]) /\ comm_id'[c][r] = comm_id[c][r]
    BY <1>2, <2>1 DEF OthersRest
  <2>3. HasId(c, done'[o], pc'[o], comm'[o]) => comm_id'[c][o] = comm_id'[c][q]
    BY <1>2, <2>2 DEF CommInv, IdsAgree
  <2>4. ASSUME pc'[o] = "negotiating", comm'[o] = c
        PROVE  comm_id'[c][q] = FirstFreeId(MembersIn(program, c), communicator_map', c)
    <3>1. pc[o] = "negotiating" /\ comm[o] = c
      <4>1. CASE o = p
        BY <1>2, <2>2, <2>4, <4>1
      <4>2. CASE o # p
        BY <1>2, <2>1, <2>4, <4>2 DEF OthersRest
      <4>3. QED
        BY <4>1, <4>2
    <3>2. comm_id[c][q] = FirstFreeId(MembersIn(program, c), communicator_map, c)
      BY <1>2, <2>2, <3>1 DEF CommInv, IdsAgree
    <3>3. \A r \in MembersIn(program, c) : pc[r] \in {"negotiating", "settling"}
      BY <1>2, <2>2, <3>1, Together
    <3>4. \A r \in MembersIn(program, c) : communicator_map'[r] = communicator_map[r]
      BY <2>1, <3>3 DEF OthersRest
    <3>5. FirstFreeId(MembersIn(program, c), communicator_map', c)
          = FirstFreeId(MembersIn(program, c), communicator_map, c)
      BY <3>4 DEF FirstFreeId
    <3>6. QED
      BY <1>2, <2>2, <3>2, <3>5
  <2>5. QED
    BY <2>3, <2>4
<1>3. QED
  BY <1>1, <1>2 DEF IdsAgree

\* A step that leaves the maps and the directories alone.
LEMMA StepOnly ==
  ASSUME CommInv, NEW p \in Process, OthersRest(p), Types', UNCHANGED <<comm_id, communicator_map, dirs>>,
         Place(program, p, done'[p], pc'[p], comm'[p]),
         Keeps(program, p, done'[p], pc'[p], comm'[p], communicator_map[p]),
         \A c \in Comm :
           /\ Known(program, c) /\ p \in MembersIn(program, c) =>
                /\ StaysCounted(p, c)
                /\ \/ sent'[c][p] = sent[c][p]
                   \/ comm'[p] = c /\ \E w : sent'[c][p] = Append(sent[c][p], w)
                /\ comm[p] = c => \A q \in MembersIn(program, c) : Len(sent[c][q]) >= Len(sent[c][p])
                /\ HasId(c, done'[p], pc'[p], comm'[p]) => HasId(c, done[p], pc[p], comm[p])
                /\ pc'[p] = "negotiating" /\ comm'[p] = c =>
                     \A q \in MembersIn(program, c) : ~ HasId(c, done[q], pc[q], comm[q])
           /\ ~ Known(program, c) => sent'[c][p] = sent[c][p]
  PROVE  CommInv'
<1>1. communicator_map' = communicator_map /\ comm_id' = comm_id /\ dirs' = dirs /\ program' = program
  BY DEF OthersRest
<1>2. \A c \in Comm : Known(program, c) /\ p \in MembersIn(program, c) =>
        StaysCounted(p, c) /\ LeavesLast(p, c)
  BY LeavesLastIs
<1>3. \A c \in Comm : \A n \in DOMAIN communicator_map'[p] :
        communicator_map'[p][n] = c => comm_id'[c][p] = n
  BY <1>1 DEF CommInv, Named
<1>4. Programs' /\ Places' /\ Named' /\ SentAlike' /\ Met'
  BY <1>1, <1>2, <1>3, StepOfOne
<1>5. IdsAgree'
  BY <1>1, IdsKept
<1>6. DirsKeptOf'
  BY <1>1 DEF CommInv, DirsKeptOf
<1>7. QED
  BY <1>4, <1>5, <1>6 DEF CommInv

-----------------------------------------------------------------------------
\* The specification's words for what a process has to do.
LEMMA Words ==
  ASSUME CommInv, NEW p \in Process
  PROVE  /\ \A c : Known(program, c) => Members(c) = MembersIn(program, c)
         /\ \A k : Turn(program, p, done[p], k) =>
              /\ Pending(p) # {} /\ k = Min(Pending(p)) /\ NextCall(p) = program[k]
              /\ k \in 1 .. Len(program)
         /\ Pending(p) # {} => Turn(program, p, done[p], Min(Pending(p)))
<1>1. IsProgram(program) /\ done[p] \in 0 .. Len(program)
  BY DEF CommInv, Programs, Places, Place
<1>2. Len(program) \in Nat
  BY <1>1, CallsAre
<1>3. \A c : Members(c) = MembersIn(program, c)
  BY DEF Members, MembersIn
<1>4. \A k \in 1 .. Len(program) : Party(program[k]) = PartyIn(program, k)
  <2>1. \A k \in 1 .. Len(program) : program[k].op \in {"create", "split", "destroy", "destroy_all"}
    BY <1>1, CallsAre
  <2>2. QED
    BY <1>3, <2>1 DEF Party, PartyIn
<1>5. Pending(p) = {k \in done[p] + 1 .. Len(program) : p \in PartyIn(program, k)}
  BY <1>1, <1>2, <1>4 DEF Pending
<1>6. Pending(p) \in SUBSET Nat
  BY <1>1, <1>5
<1>7. ASSUME NEW k, Turn(program, p, done[p], k)
      PROVE  Pending(p) # {} /\ k = Min(Pending(p)) /\ NextCall(p) = program[k]
             /\ k \in 1 .. Len(program)
  <2>1. k \in Pending(p) /\ \A j \in done[p] + 1 .. k - 1 : j \notin Pending(p)
    BY <1>5, <1>7 DEF Turn
  <2>2. Min(Pending(p)) \in Pending(p) /\ Min(Pending(p)) <= k
    BY <1>6, <2>1, LeastIs
  <2>3. Min(Pending(p)) = k
    BY <1>1, <1>2, <1>5, <2>1, <2>2
  <2>4. QED
    BY <1>1, <1>2, <1>5, <2>1, <2>3 DEF NextCall
<1>8. ASSUME Pending(p) # {} PROVE Turn(program, p, done[p], Min(Pending(p)))
  <2>1. PICK k : k = Min(Pending(p))
    OBVIOUS
  <2>2. k \in Pending(p) /\ \A j \in Pending(p) : k <= j
    BY <1>6, <1>8, <2>1, LeastIs
  <2>3. \A j \in done[p] + 1 .. k - 1 : j \notin Pending(p)
    BY <1>1, <1>2, <1>5, <2>2
  <2>4. \A j \in done[p] + 1 .. k - 1 : j \in done[p] + 1 .. Len(program)
    BY <1>1, <1>2, <1>5, <2>2
  <2>5. QED
    BY <1>5, <2>1, <2>2, <2>3, <2>4 DEF Turn
<1>9. QED
  BY <1>3, <1>7, <1>8

\* Where a process that is not idle is.
LEMMA Acting ==
  ASSUME CommInv, NEW p \in Process
  PROVE  /\ IsProgram(program) /\ done[p] \in 0 .. Len(program)
         /\ Place(program, p, done[p], pc[p], comm[p])
         /\ Keeps(program, p, done[p], pc[p], comm[p], communicator_map[p])
         /\ pc[p] \in {"idle", "joining", "negotiating", "settling", "destroying"}
         /\ pc[p] = "idle" => comm[p] = NoComm
         /\ pc[p] # "idle" =>
              /\ comm[p] \in Comm /\ Known(program, comm[p]) /\ p \in MembersIn(program, comm[p])
              /\ Members(comm[p]) = MembersIn(program, comm[p])
              /\ \E k \in 1 .. Len(program) :
                   /\ Turn(program, p, done[p], k) /\ Busy(program, p, k, pc[p], comm[p])
                   /\ k = Min(Pending(p)) /\ NextCall(p) = program[k]
<1>1. IsProgram(program) /\ Place(program, p, done[p], pc[p], comm[p])
      /\ Keeps(program, p, done[p], pc[p], comm[p], communicator_map[p])
  BY DEF CommInv, Programs, Places
<1>2. ASSUME pc[p] # "idle"
      PROVE  /\ comm[p] \in Comm /\ Known(program, comm[p]) /\ p \in MembersIn(program, comm[p])
             /\ Members(comm[p]) = MembersIn(program, comm[p])
             /\ \E k \in 1 .. Len(program) :
                  /\ Turn(program, p, done[p], k) /\ Busy(program, p, k, pc[p], comm[p])
                  /\ k = Min(Pending(p)) /\ NextCall(p) = program[k]
  <2>1. PICK k \in 1 .. Len(program) :
          Turn(program, p, done[p], k) /\ Busy(program, p, k, pc[p], comm[p])
    BY <1>1, <1>2 DEF Place
  <2>2. Known(program, comm[p]) /\ p \in MembersIn(program, comm[p])
    BY <2>1 DEF Busy
  <2>3. k = Min(Pending(p)) /\ NextCall(p) = program[k] /\ Members(comm[p]) = MembersIn(program, comm[p])
    BY <2>1, <2>2, Words
  <2>4. QED
    BY <2>1, <2>2, <2>3 DEF Known
<1>3. QED
  BY <1>1, <1>2 DEF Place

\* No check of a collective fails.
LEMMA NoDisagreement ==
  ASSUME CommInv, NEW p \in Process
  PROVE  ~ Disagreement(p)
<1>1. SUFFICES ASSUME Disagreement(p) PROVE FALSE
  OBVIOUS
<1>2. pc[p] # "idle" /\ AllEntered(p) /\ ~ AllSame(p)
  BY <1>1 DEF Disagreement
<1>3. PICK c : c = comm[p] /\ Known(program, c) /\ p \in MembersIn(program, c)
               /\ Members(c) = MembersIn(program, c)
  BY <1>2, Acting
<1>4. PICK k \in 1 .. Len(program) : Turn(program, p, done[p], k)
  BY <1>2, Acting
<1>5. PICK f, g :
        /\ Tally(program, c, f, g)
        /\ \A q \in MembersIn(program, c) :
             /\ Len(sent[c][q]) \in Nat /\ Said(sent[c][q], g)
             /\ Counted(program, q, done[q], pc[q], comm[q], communicator_map[q], c, f, sent[c][q])
  BY <1>3, SentOf
<1>6. Len(sent[c][p]) >= 1
  <2>1. PICK w \in Nat : /\ w = Within(program, k, c, pc[p], comm[p], communicator_map[p])
                         /\ w >= 1
    BY <1>3, <1>4, Acting, WithinIs, TakesAre
  <2>2. Len(sent[c][p]) = f[done[p]] + w
    BY <1>3, <1>4, <1>5, <2>1 DEF Counted
  <2>3. f[done[p]] \in Nat
    BY <1>5, Acting, CallsAre, MaxOpsAssumption DEF Tally
  <2>4. QED
    BY <2>1, <2>2, <2>3
<1>7. PICK n \in Nat : n = Len(sent[c][p]) /\ n >= 1
  BY <1>3, <1>5, <1>6
<1>8. \A q \in MembersIn(program, c) : n \in 1 .. Len(sent[c][q])
  BY <1>2, <1>3, <1>5, <1>7 DEF AllEntered
<1>9. \A q \in MembersIn(program, c) : sent[c][q][n] = g[n]
  BY <1>5, <1>8 DEF Said
<1>10. AllSame(p)
  BY <1>3, <1>7, <1>9 DEF AllSame
<1>11. QED
  BY <1>2, <1>10

-----------------------------------------------------------------------------
(***************************************************************************)
(* Entering a collective and returning from a call.                        *)
(***************************************************************************)
LEMMA EnterIs ==
  ASSUME Types, NEW c \in Comm, NEW p \in Process, NEW w \in Collectives, Enter(c, p, w)
  PROVE  /\ sent' \in [Comm -> [Process -> Seq(Collectives)]]
         /\ sent'[c][p] = Append(sent[c][p], w)
         /\ \A e \in Comm, q \in Process : e # c \/ q # p => sent'[e][q] = sent[e][q]
<1>1. sent \in [Comm -> [Process -> Seq(Collectives)]] /\ sent' = [sent EXCEPT ![c][p] = Append(@, w)]
  BY DEF Types, Enter
<1>2. sent[c][p] \in Seq(Collectives)
  BY <1>1
<1>3. Append(sent[c][p], w) \in Seq(Collectives)
  <2>1. PICK S \in Seq(Collectives) : S = sent[c][p]
    BY <1>2
  <2>2. Append(S, w) \in Seq(Collectives)
    OBVIOUS
  <2>3. QED
    BY <2>1, <2>2
<1>4. QED
  BY <1>1, <1>3

\* A range with one more number.
LEMMA OneMore ==
  ASSUME NEW a \in Nat, NEW i \in Nat, NEW j \in 1 .. a + i + 1
  PROVE  j \in 1 .. a + i \/ j = a + i + 1
OBVIOUS

\* p enters the next collective that its call has of c.
LEMMA StaysEntered ==
  ASSUME CommInv, NEW p \in Process, NEW k, Turn(program, p, done[p], k), done'[p] = done[p],
         NEW c, Known(program, c), p \in MembersIn(program, c),
         NEW i \in Nat, i = Within(program, k, c, pc[p], comm[p], communicator_map[p]),
         Within(program, k, c, pc'[p], comm'[p], communicator_map'[p]) = i + 1,
         i < Takes(program, k, c),
         NEW w \in Collectives, w = What(program, k, c, i + 1), sent'[c][p] = Append(sent[c][p], w)
  PROVE  StaysCounted(p, c)
<1>1. SUFFICES
        ASSUME NEW f, NEW g, Tally(program, c, f, g),
               Counted(program, p, done[p], pc[p], comm[p], communicator_map[p], c, f, sent[c][p]),
               Said(sent[c][p], g)
        PROVE  /\ Counted(program, p, done'[p], pc'[p], comm'[p], communicator_map'[p], c, f, sent'[c][p])
               /\ Said(sent'[c][p], g)
  BY DEF StaysCounted
<1>2. IsProgram(program) /\ done[p] \in 0 .. Len(program) /\ k \in 1 .. Len(program)
  BY Acting, TurnIs
<1>3. PICK S \in Seq(Collectives) : S = sent[c][p]
  BY <1>2, MembersAre DEF CommInv, Types
<1>4. f[done[p]] = f[k - 1] /\ f[done[p]] \in Nat
  <2>1. f[done[p]] = f[k - 1]
    BY <1>1, <1>2, UpToTurn
  <2>2. QED
    BY <1>1, <1>2, <2>1, CallsAre, MaxOpsAssumption DEF Tally
<1>5. PICK a \in Nat : a = f[k - 1]
  BY <1>4
<1>6. Len(S) = a + i /\ Len(Append(S, w)) = a + i + 1
  <2>1. Len(S) = a + i
    BY <1>1, <1>2, <1>3, <1>4, <1>5 DEF Counted
  <2>2. QED
    BY <1>3, <2>1
<1>7. g[a + i + 1] = w
  <2>1. i + 1 \in 1 .. Takes(program, k, c)
    <3>1. PICK u \in 0 .. 3 : u = Takes(program, k, c)
      BY TakesAre
    <3>2. QED
      BY <3>1
  <2>2. g[a + (i + 1)] = w
    BY <1>1, <1>2, <1>5, <2>1 DEF Tally
  <2>3. QED
    BY <2>2
<1>8. Said(Append(S, w), g)
  <2>1. ASSUME NEW j \in 1 .. a + i + 1 PROVE Append(S, w)[j] = g[j]
    <3>1. CASE j \in 1 .. a + i
      BY <1>1, <1>3, <1>6, <3>1 DEF Said
    <3>2. CASE j = a + i + 1
      BY <1>3, <1>6, <1>7, <3>2
    <3>3. j \in 1 .. a + i \/ j = a + i + 1
      BY OneMore
    <3>4. QED
      BY <3>1, <3>2, <3>3
  <2>2. QED
    BY <1>6, <2>1 DEF Said
<1>9. Counted(program, p, done'[p], pc'[p], comm'[p], communicator_map'[p], c, f, Append(S, w))
  <2>1. \A j : Turn(program, p, done[p], j) => j = k
    BY <1>2, TurnIs
  <2>2. Len(Append(S, w)) = f[done[p]] + (i + 1)
    BY <1>4, <1>5, <1>6
  <2>3. QED
    BY <1>2, <2>1, <2>2 DEF Counted
<1>10. QED
  BY <1>3, <1>8, <1>9

\* p enters no collective of c.
LEMMA StaysSame ==
  ASSUME CommInv, NEW p \in Process, NEW k, Turn(program, p, done[p], k), done'[p] = done[p], NEW c,
         Within(program, k, c, pc'[p], comm'[p], communicator_map'[p])
           = Within(program, k, c, pc[p], comm[p], communicator_map[p]),
         sent'[c][p] = sent[c][p]
  PROVE  StaysCounted(p, c)
<1>1. \A j : Turn(program, p, done[p], j) => j = k
  BY Acting, TurnIs
<1>2. k \in 1 .. Len(program)
  BY Acting, TurnIs
<1>3. QED
  BY <1>1, <1>2 DEF StaysCounted, Counted

\* p returns from call k, all of which it has done: it holds what exists now.
LEMMA Returned ==
  ASSUME CommInv, NEW p \in Process, NEW k, Turn(program, p, done[p], k),
         done'[p] = k, pc'[p] = "idle", comm'[p] = NoComm,
         \A c : Known(program, c) /\ p \in MembersIn(program, c) =>
           /\ sent'[c][p] = sent[c][p]
           /\ Within(program, k, c, pc[p], comm[p], communicator_map[p]) = Takes(program, k, c)
           /\ Born(program, k, c) => pc[p] = "settling" /\ comm[p] = c,
         NEW M, M = communicator_map'[p],
         \A n \in DOMAIN M : /\ n \in Nat /\ Known(program, M[n]) /\ p \in MembersIn(program, M[n])
                             /\ n < M[n][1] /\ LiveAt(program, k, M[n]),
         \A c : LiveAt(program, k, c) /\ p \in MembersIn(program, c) => Held(M, c)
  PROVE  /\ Place(program, p, done'[p], pc'[p], comm'[p])
         /\ Keeps(program, p, done'[p], pc'[p], comm'[p], M)
         /\ \A c : Known(program, c) /\ p \in MembersIn(program, c) =>
              /\ StaysCounted(p, c)
              /\ HasId(c, done'[p], pc'[p], comm'[p]) => HasId(c, done[p], pc[p], comm[p])
<1>1. IsProgram(program) /\ done[p] \in 0 .. Len(program) /\ k \in 1 .. Len(program)
      /\ k \in 0 .. Len(program) /\ k \in Nat
  <2>1. IsProgram(program) /\ done[p] \in 0 .. Len(program)
    BY Acting
  <2>2. k \in 1 .. Len(program) /\ k \in Nat /\ Len(program) \in Nat
    BY <2>1, TurnIs
  <2>3. QED
    BY <2>1, <2>2
<1>2. /\ Place(program, p, k, "idle", NoComm) /\ Keeps(program, p, k, "idle", NoComm, M)
      /\ \A c, f, g, S :
           Known(program, c) /\ p \in MembersIn(program, c) /\ Tally(program, c, f, g) /\ Len(S) = f[k]
             => Counted(program, p, k, "idle", NoComm, M, c, f, S)
  BY <1>1, BackIdle
<1>3. ASSUME NEW c, Known(program, c), p \in MembersIn(program, c) PROVE StaysCounted(p, c)
  <2>1. ASSUME NEW f, NEW g, Tally(program, c, f, g),
               Counted(program, p, done[p], pc[p], comm[p], communicator_map[p], c, f, sent[c][p]),
               Said(sent[c][p], g)
        PROVE  /\ Counted(program, p, k, "idle", NoComm, M, c, f, sent[c][p])
               /\ Said(sent'[c][p], g)
    <3>1. Len(sent[c][p]) = f[done[p]] + Takes(program, k, c)
      BY <1>1, <1>3, <2>1 DEF Counted
    <3>2. f[done[p]] = f[k - 1]
      BY <1>1, <1>3, <2>1, UpToTurn
    <3>3. Len(sent[c][p]) = f[k]
      BY <1>1, <2>1, <3>1, <3>2 DEF Tally
    <3>4. QED
      BY <1>2, <1>3, <2>1, <3>3
  <2>2. QED
    BY <1>3, <2>1 DEF StaysCounted
<1>4. ASSUME NEW c, Known(program, c), p \in MembersIn(program, c), HasId(c, k, "idle", NoComm)
      PROVE  HasId(c, done[p], pc[p], comm[p])
  <2>1. c[1] <= k /\ c[1] \in Nat
    BY <1>1, <1>4, MembersAre DEF HasId
  <2>2. CASE c[1] = k
    BY <1>4, <2>2 DEF Born, HasId
  <2>3. CASE c[1] <= k - 1
    BY <1>1, <1>4, <2>3, UpToTurn DEF HasId
  <2>4. QED
    BY <1>1, <2>1, <2>2, <2>3
<1>5. QED
  BY <1>2, <1>3, <1>4

\* Return, variable by variable.
LEMMA ReturnIs ==
  ASSUME Types, NEW p \in Process, NEW k \in Nat, k = Min(Pending(p)), Return(p)
  PROVE  /\ done' \in [Process -> Nat] /\ pc' \in [Process -> States] /\ comm' \in [Process -> Comm \cup {NoComm}]
         /\ done'[p] = k /\ pc'[p] = "idle" /\ comm'[p] = NoComm
         /\ \A q \in Process : q # p => done'[q] = done[q] /\ pc'[q] = pc[q] /\ comm'[q] = comm[q]
<1>1. "idle" \in States /\ NoComm \in Comm \cup {NoComm}
  BY DEF States
<1>2. /\ done' = [done EXCEPT ![p] = k] /\ pc' = [pc EXCEPT ![p] = "idle"]
      /\ comm' = [comm EXCEPT ![p] = NoComm]
  BY DEF Return
<1>3. QED
  BY <1>1, <1>2 DEF Types

\* A return that leaves the maps alone.
LEMMA ReturnOnly ==
  ASSUME CommInv, NEW p \in Process, NEW k, Turn(program, p, done[p], k), Return(p),
         UNCHANGED <<program, live, sent, comm_id, communicator_map, dirs>>,
         \A c : Known(program, c) /\ p \in MembersIn(program, c) =>
           /\ Within(program, k, c, pc[p], comm[p], communicator_map[p]) = Takes(program, k, c)
           /\ Born(program, k, c) => pc[p] = "settling" /\ comm[p] = c
           /\ comm[p] = c => \A q \in MembersIn(program, c) : Len(sent[c][q]) >= Len(sent[c][p]),
         NEW M, M = communicator_map[p],
         \A n \in DOMAIN M : LiveAt(program, k, M[n]),
         \A c : LiveAt(program, k, c) /\ p \in MembersIn(program, c) => Held(M, c)
  PROVE  CommInv'
<1>1. k = Min(Pending(p)) /\ k \in Nat
  BY Acting, Words, TurnIs
<1>2. /\ done' \in [Process -> Nat] /\ pc' \in [Process -> States] /\ comm' \in [Process -> Comm \cup {NoComm}]
      /\ done'[p] = k /\ pc'[p] = "idle" /\ comm'[p] = NoComm
      /\ \A q \in Process : q # p => done'[q] = done[q] /\ pc'[q] = pc[q] /\ comm'[q] = comm[q]
  BY <1>1, ReturnIs DEF CommInv
<1>3. Types' /\ OthersRest(p)
  BY <1>2 DEF Types, CommInv, OthersRest
<1>4. \A n \in DOMAIN M : /\ n \in Nat /\ Known(program, M[n]) /\ p \in MembersIn(program, M[n])
                          /\ n < M[n][1]
  BY Acting DEF Keeps
<1>5. /\ Place(program, p, done'[p], pc'[p], comm'[p])
      /\ Keeps(program, p, done'[p], pc'[p], comm'[p], M)
      /\ \A c : Known(program, c) /\ p \in MembersIn(program, c) =>
           /\ StaysCounted(p, c)
           /\ HasId(c, done'[p], pc'[p], comm'[p]) => HasId(c, done[p], pc[p], comm[p])
  BY <1>2, <1>4, Returned
<1>6. pc'[p] # "negotiating"
  BY <1>2
<1>7. QED
  BY <1>3, <1>5, <1>6, StepOnly

-----------------------------------------------------------------------------
(***************************************************************************)
(* Every action keeps the invariant.                                       *)
(***************************************************************************)
\* p enters the first collective of a call.
LEMMA Starts ==
  ASSUME CommInv, NEW p \in Process, pc[p] = "idle", NEW k, Turn(program, p, done[p], k),
         NEW c, Known(program, c), p \in MembersIn(program, c),
         NEW s \in {"joining", "destroying"}, NEW w \in Collectives, Enter(c, p, w),
         comm' = [comm EXCEPT ![p] = c], pc' = [pc EXCEPT ![p] = s],
         UNCHANGED <<program, live, done, comm_id, communicator_map, dirs>>,
         Busy(program, p, k, s, c), NEW M, M = communicator_map[p], s = "destroying" => Held(M, c),
         Within(program, k, c, "idle", NoComm, M) = 0, Within(program, k, c, s, c, M) = 1,
         Takes(program, k, c) >= 1, w = What(program, k, c, 1),
         \A e : e # c => Within(program, k, e, s, c, M) = Within(program, k, e, "idle", NoComm, M)
  PROVE  CommInv'
<1>1. IsProgram(program) /\ done[p] \in 0 .. Len(program) /\ k \in 1 .. Len(program) /\ c \in Comm
      /\ comm[p] = NoComm /\ NoComm \notin Comm
      /\ Keeps(program, p, done[p], "idle", NoComm, M)
  <2>1. NoComm \notin Comm
    BY CommIs
  <2>2. k \in 1 .. Len(program) /\ c \in Comm
    BY Acting, TurnIs, MembersAre
  <2>3. QED
    BY <2>1, <2>2, Acting
<1>2. /\ sent' \in [Comm -> [Process -> Seq(Collectives)]] /\ sent'[c][p] = Append(sent[c][p], w)
      /\ \A e \in Comm, q \in Process : e # c \/ q # p => sent'[e][q] = sent[e][q]
  BY <1>1, EnterIs DEF CommInv
<1>3. s \in States
  BY DEF States
<1>4. /\ done'[p] = done[p] /\ pc'[p] = s /\ comm'[p] = c /\ communicator_map'[p] = M
      /\ pc[p] = "idle" /\ comm[p] = NoComm
  BY <1>1 DEF CommInv, Types
<1>5. Types' /\ OthersRest(p)
  BY <1>1, <1>2, <1>3 DEF Types, CommInv, OthersRest
<1>6. Place(program, p, done'[p], pc'[p], comm'[p])
  BY <1>1, <1>4 DEF Place
<1>7. Keeps(program, p, done'[p], pc'[p], comm'[p], M)
  BY <1>1, <1>4 DEF Keeps
<1>8. ASSUME NEW e \in Comm, Known(program, e), p \in MembersIn(program, e)
      PROVE  /\ StaysCounted(p, e)
             /\ sent'[e][p] = sent[e][p] \/ (comm'[p] = e /\ \E v : sent'[e][p] = Append(sent[e][p], v))
             /\ HasId(e, done'[p], pc'[p], comm'[p]) => HasId(e, done[p], pc[p], comm[p])
  <2>1. CASE e = c
    <3> DEFINE i == 0
    <3>1. /\ i \in Nat /\ i = Within(program, k, c, pc[p], comm[p], communicator_map[p])
          /\ Within(program, k, c, pc'[p], comm'[p], communicator_map'[p]) = i + 1
          /\ i < Takes(program, k, c) /\ w = What(program, k, c, i + 1)
      BY <1>4, TakesAre
    <3> HIDE DEF i
    <3>2. StaysCounted(p, c)
      BY <1>2, <1>4, <3>1, StaysEntered, SMTT(40)
    <3>3. QED
      BY <1>2, <1>4, <2>1, <3>2 DEF HasId
  <2>2. CASE e # c
    <3>1. Within(program, k, e, pc'[p], comm'[p], communicator_map'[p])
            = Within(program, k, e, pc[p], comm[p], communicator_map[p])
      BY <1>4, <2>2
    <3>2. sent'[e][p] = sent[e][p]
      BY <1>2, <2>2
    <3>3. StaysCounted(p, e)
      BY <1>4, <3>1, <3>2, StaysSame
    <3>4. QED
      BY <1>4, <3>2, <3>3 DEF HasId
  <2>3. QED
    BY <2>1, <2>2
<1>9. \A e \in Comm : ~ Known(program, e) => sent'[e][p] = sent[e][p]
  BY <1>2
<1>10. \A e \in Comm : comm[p] # e /\ pc'[p] # "negotiating"
  BY <1>1, <1>4
<1>11. communicator_map[p] = M
  OBVIOUS
<1>12. QED
  BY <1>5, <1>6, <1>7, <1>8, <1>9, <1>10, <1>11, StepOnly

\* A process enters the first collective of a creation or a split.
LEMMA JoinKeeps ==
  ASSUME CommInv, NEW p \in Process, Join(p)
  PROVE  CommInv'
<1>1. PICK k : k = Min(Pending(p))
  OBVIOUS
<1>2. /\ pc[p] = "idle" /\ comm[p] = NoComm /\ Turn(program, p, done[p], k) /\ NextCall(p) = program[k]
      /\ IsProgram(program) /\ done[p] \in 0 .. Len(program)
  BY <1>1, Acting, Words DEF Join
<1>3. k \in 1 .. Len(program) /\ p \in PartyIn(program, k)
  BY <1>2, TurnIs
<1>4. program[k].op \in {"create", "split"}
  BY <1>2 DEF Join
<1>5. \A e \in Comm : e # NoComm
  BY CommIs
<1>6. PICK M : M = communicator_map[p]
  OBVIOUS
<1>7. CASE program[k].op = "create"
  <2>1. PICK c : c = <<k, 0>>
    OBVIOUS
  <2>2. Born(program, k, c) /\ p \in MembersIn(program, c) /\ Known(program, c) /\ c \in Comm
    BY <1>2, <1>3, <1>7, <2>1, BornOf DEF Born, Known
  <2>3. Busy(program, p, k, "joining", c)
    BY <1>7, <2>2 DEF Busy
  <2>4. /\ Within(program, k, c, "idle", NoComm, M) = 0 /\ Within(program, k, c, "joining", c, M) = 1
        /\ Takes(program, k, c) = 3 /\ What(program, k, c, 1) = "create"
    BY <1>5, <1>7, <2>2 DEF Within, Takes, What
  <2>5. \A e : e # c => Within(program, k, e, "joining", c, M) = Within(program, k, e, "idle", NoComm, M)
    BY <1>5, <1>7 DEF Within, Splits, Kills, Born, Known
  <2>6. Enter(c, p, "create") /\ comm' = [comm EXCEPT ![p] = c] /\ pc' = [pc EXCEPT ![p] = "joining"]
        /\ UNCHANGED <<program, live, done, comm_id, communicator_map, dirs>>
    BY <1>1, <1>2, <1>7, <2>1 DEF Join
  <2>7. "create" \in Collectives
    BY DEF Collectives
  <2>8. Takes(program, k, c) >= 1
    BY <2>4
  <2>9. QED
    BY <1>2, <1>6, <2>2, <2>3, <2>4, <2>5, <2>6, <2>7, <2>8, Starts
<1>8. CASE program[k].op = "split"
  <2>1. PICK c : c = program[k].parent
    OBVIOUS
  <2>2. LiveAt(program, k - 1, c) /\ Known(program, c) /\ p \in MembersIn(program, c) /\ c \in Comm
    BY <1>2, <1>3, <1>8, <2>1 DEF IsProgram, Legal, PartyIn, LiveAt, Known
  <2>3. Splits(program, k, c) /\ ~ Born(program, k, c)
    BY <1>2, <1>3, <1>8, <2>1, <2>2, LiveNext DEF Splits
  <2>4. Busy(program, p, k, "joining", c)
    BY <2>2, <2>3 DEF Busy
  <2>5. /\ Within(program, k, c, "idle", NoComm, M) = 0 /\ Within(program, k, c, "joining", c, M) = 1
        /\ Takes(program, k, c) = 1 /\ What(program, k, c, 1) = "split"
    BY <2>3 DEF Within, Takes, What
  <2>6. \A e : e # c => Within(program, k, e, "joining", c, M) = Within(program, k, e, "idle", NoComm, M)
    BY <1>5, <1>8, <2>1 DEF Within, Splits, Kills, Born, Known
  <2>7. Enter(c, p, "split") /\ comm' = [comm EXCEPT ![p] = c] /\ pc' = [pc EXCEPT ![p] = "joining"]
        /\ UNCHANGED <<program, live, done, comm_id, communicator_map, dirs>>
    BY <1>1, <1>2, <1>8, <2>1 DEF Join
  <2>8. "split" \in Collectives
    BY DEF Collectives
  <2>9. Takes(program, k, c) >= 1
    BY <2>5
  <2>10. QED
    BY <1>2, <1>6, <2>2, <2>4, <2>5, <2>6, <2>7, <2>8, <2>9, Starts
<1>9. QED
  BY <1>4, <1>7, <1>8

\* A process enters the collective before the destruction of c, which it holds.
LEMMA StartDestroyKeeps ==
  ASSUME CommInv, NEW p \in Process, pc[p] = "idle", NEW k, Turn(program, p, done[p], k),
         NEW c, LiveAt(program, k - 1, c), Kills(program, k, c), p \in MembersIn(program, c),
         Held(communicator_map[p], c), StartDestroy(p, c)
  PROVE  CommInv'
<1>1. /\ IsProgram(program) /\ comm[p] = NoComm /\ k \in 1 .. Len(program)
      /\ Known(program, c) /\ c \in Comm /\ NoComm \notin Comm
  <2>1. k \in 1 .. Len(program)
    BY Acting, TurnIs
  <2>2. NoComm \notin Comm
    BY CommIs
  <2>3. QED
    BY <2>1, <2>2, Acting DEF LiveAt, Known
<1>2. comm_id[c][p] \in DOMAIN communicator_map[p]
  BY <1>1 DEF Held, CommInv, Named
<1>3. PICK M : M = communicator_map[p]
  OBVIOUS
<1>4. ~ Born(program, k, c) /\ ~ Splits(program, k, c) /\ program[k].op \in {"destroy", "destroy_all"}
  BY <1>1, LiveNext DEF Splits, Kills
<1>5. Busy(program, p, k, "destroying", c)
  BY <1>1 DEF Busy
<1>6. /\ Within(program, k, c, "idle", NoComm, M) = 0 /\ Within(program, k, c, "destroying", c, M) = 1
      /\ Takes(program, k, c) = 1 /\ What(program, k, c, 1) = "destroy_comm"
  BY <1>1, <1>3, <1>4 DEF Within, Takes, What
<1>7. \A e : e # c => Within(program, k, e, "destroying", c, M) = Within(program, k, e, "idle", NoComm, M)
  <2>1. \A e : Known(program, e) => e # NoComm
    BY <1>1 DEF Known
  <2>2. \A e : ~ Splits(program, k, e) /\ ~ Born(program, k, e)
    BY <1>1, <1>4, MembersAre DEF Splits, Born
  <2>3. QED
    BY <2>1, <2>2 DEF Within, LiveAt
<1>8. /\ Enter(c, p, "destroy_comm") /\ comm' = [comm EXCEPT ![p] = c]
      /\ pc' = [pc EXCEPT ![p] = "destroying"]
      /\ UNCHANGED <<program, live, done, comm_id, communicator_map, dirs>>
  BY <1>2 DEF StartDestroy
<1>9. "destroy_comm" \in Collectives /\ Takes(program, k, c) >= 1
  BY <1>6 DEF Collectives
<1>10. QED
  BY <1>1, <1>3, <1>5, <1>6, <1>7, <1>8, <1>9, Starts

\* The same, for the communicator of a destroy call.
LEMMA DestroyOneKeeps ==
  ASSUME CommInv, NEW p \in Process, DestroyOne(p)
  PROVE  CommInv'
<1>1. PICK k : k = Min(Pending(p))
  OBVIOUS
<1>2. /\ pc[p] = "idle" /\ Turn(program, p, done[p], k) /\ NextCall(p) = program[k]
      /\ IsProgram(program) /\ done[p] \in 0 .. Len(program)
      /\ Keeps(program, p, done[p], pc[p], comm[p], communicator_map[p])
  BY <1>1, Acting, Words DEF DestroyOne
<1>3. /\ k \in 1 .. Len(program) /\ p \in PartyIn(program, k)
      /\ \A j : Turn(program, p, done[p], j) => j = k
  BY <1>2, TurnIs
<1>4. program[k].op = "destroy"
  BY <1>2 DEF DestroyOne
<1>5. PICK c : c = program[k].comm
  OBVIOUS
<1>6. LiveAt(program, k - 1, c) /\ Kills(program, k, c) /\ p \in MembersIn(program, c) /\ Known(program, c)
  BY <1>2, <1>3, <1>4, <1>5 DEF IsProgram, Legal, Kills, PartyIn, LiveAt
<1>7. LiveAt(program, done[p], c)
  BY <1>2, <1>6, UpToTurn
<1>8. Held(communicator_map[p], c)
  BY <1>2, <1>3, <1>4, <1>6, <1>7 DEF Keeps
<1>9. StartDestroy(p, c)
  BY <1>2, <1>5 DEF DestroyOne
<1>10. QED
  BY <1>2, <1>6, <1>8, <1>9, StartDestroyKeeps

\* The same, for the next one of a call that destroys all, or the return from it.
LEMMA DestroyNextKeeps ==
  ASSUME CommInv, NEW p \in Process, DestroyNext(p)
  PROVE  CommInv'
<1>1. PICK k : k = Min(Pending(p))
  OBVIOUS
<1>2. /\ pc[p] = "idle" /\ Turn(program, p, done[p], k) /\ NextCall(p) = program[k]
      /\ IsProgram(program) /\ done[p] \in 0 .. Len(program) /\ comm[p] = NoComm
      /\ Keeps(program, p, done[p], pc[p], comm[p], communicator_map[p])
  BY <1>1, Acting, Words DEF DestroyNext
<1>3. k \in 1 .. Len(program)
  BY <1>2, TurnIs
<1>4. program[k].op = "destroy_all" /\ \A c : Kills(program, k, c)
  BY <1>2 DEF DestroyNext, Kills
<1>5. PICK M : M = communicator_map[p]
  OBVIOUS
<1>6. CASE DOMAIN M = {}
  <2>1. Return(p) /\ UNCHANGED <<program, live, sent, comm_id, communicator_map, dirs>>
    BY <1>5, <1>6 DEF DestroyNext
  <2>2. \A c : ~ Born(program, k, c) /\ ~ Splits(program, k, c) /\ ~ Held(M, c)
    BY <1>2, <1>3, <1>4, <1>6, MembersAre DEF Born, Splits, Held
  <2>3. \A c : ~ LiveAt(program, k, c)
    BY <1>2, <1>3, <1>4, <2>2, LiveNext DEF LiveAt, Known
  <2>4. \A c : Within(program, k, c, pc[p], comm[p], M) = Takes(program, k, c)
    BY <1>4, <2>2 DEF Within, Takes
  <2>5. \A c : Known(program, c) => comm[p] # c
    BY <1>2, CommIs DEF Known
  <2>6. QED
    BY <1>2, <1>5, <1>6, <2>1, <2>2, <2>3, <2>4, <2>5, ReturnOnly
<1>7. CASE DOMAIN M # {}
  <2>1. PICK n : n = NextToDestroy(p)
    OBVIOUS
  <2>2. DOMAIN M \in SUBSET Nat
    BY <1>2, <1>5 DEF Keeps
  <2>3. n \in DOMAIN M
    BY <1>5, <1>7, <2>1, <2>2, LeastIs DEF NextToDestroy
  <2>4. PICK c : c = M[n]
    OBVIOUS
  <2>5. StartDestroy(p, c)
    BY <1>5, <1>7, <2>1, <2>4 DEF DestroyNext
  <2>6. Known(program, c) /\ p \in MembersIn(program, c) /\ LiveAt(program, done[p], c) /\ Held(M, c)
    BY <1>2, <1>5, <2>3, <2>4 DEF Keeps, Held
  <2>7. LiveAt(program, k - 1, c)
    BY <1>2, <2>6, UpToTurn
  <2>8. QED
    BY <1>2, <1>4, <1>5, <2>5, <2>6, <2>7, StartDestroyKeeps
<1>8. QED
  BY <1>6, <1>7

\* A creation or a split leaves what p holds alone.
LEMMA Creates ==
  ASSUME CommInv, NEW p \in Process, NEW k, Turn(program, p, done[p], k),
         program[k].op \in {"create", "split"},
         NEW c, Known(program, c), p \in MembersIn(program, c)
  PROVE  /\ ~ Kills(program, k, c)
         /\ LiveAt(program, k, c) <=> Born(program, k, c) \/ LiveAt(program, done[p], c)
         /\ LiveAt(program, done[p], c) => Held(communicator_map[p], c)
         /\ Born(program, k, c) => ~ LiveAt(program, done[p], c)
<1>1. /\ IsProgram(program) /\ done[p] \in 0 .. Len(program)
      /\ Keeps(program, p, done[p], pc[p], comm[p], communicator_map[p])
  BY Acting
<1>2. k \in 1 .. Len(program) /\ \A j : Turn(program, p, done[p], j) => j = k
  BY <1>1, TurnIs
<1>3. ~ Kills(program, k, c)
  BY DEF Kills
<1>4. LiveAt(program, done[p], c) <=> LiveAt(program, k - 1, c)
  BY <1>1, UpToTurn
<1>5. c \in Comm
  BY DEF Known
<1>6. LiveAt(program, done[p], c) => Held(communicator_map[p], c)
  BY <1>1, <1>2 DEF Keeps
<1>7. QED
  BY <1>1, <1>2, <1>3, <1>4, <1>5, <1>6, LiveNext

\* A process returns from the creation of a communicator.
LEMMA SettledKeeps ==
  ASSUME CommInv, NEW p \in Process, Settled(p)
  PROVE  CommInv'
<1>1. pc[p] = "settling" /\ AllEntered(p) /\ Return(p)
      /\ UNCHANGED <<program, live, sent, comm_id, communicator_map, dirs>>
  BY DEF Settled
<1>2. PICK c : c = comm[p]
  OBVIOUS
<1>3. /\ IsProgram(program) /\ done[p] \in 0 .. Len(program)
      /\ Keeps(program, p, done[p], pc[p], comm[p], communicator_map[p])
      /\ Known(program, c) /\ p \in MembersIn(program, c) /\ Members(c) = MembersIn(program, c)
  BY <1>1, <1>2, Acting
<1>4. PICK k \in 1 .. Len(program) : Turn(program, p, done[p], k) /\ Busy(program, p, k, pc[p], c)
  BY <1>1, <1>2, Acting
<1>5. Born(program, k, c) /\ program[k].op \in {"create", "split"}
  BY <1>1, <1>3, <1>4, MembersAre DEF Busy, Born
<1>6. PICK M : M = communicator_map[p]
  OBVIOUS
<1>7. ASSUME NEW e, Known(program, e), p \in MembersIn(program, e)
      PROVE  /\ Within(program, k, e, pc[p], comm[p], M) = Takes(program, k, e)
             /\ Born(program, k, e) => pc[p] = "settling" /\ comm[p] = e
             /\ comm[p] = e => \A q \in MembersIn(program, e) : Len(sent[e][q]) >= Len(sent[e][p])
  <2>1. Born(program, k, e) => e = c
    BY <1>3, <1>5, <1>7, OneOfACall
  <2>2. ~ Kills(program, k, e)
    BY <1>4, <1>5, <1>7, Creates
  <2>3. QED
    BY <1>1, <1>2, <1>3, <2>1, <2>2 DEF Within, Takes, AllEntered
<1>8. ASSUME NEW n \in DOMAIN M PROVE LiveAt(program, k, M[n])
  <2>1. PICK e : e = M[n]
    OBVIOUS
  <2>2. Known(program, e) /\ p \in MembersIn(program, e) /\ (LiveAt(program, done[p], e) \/ e = c)
    BY <1>2, <1>3, <1>6, <2>1 DEF Keeps
  <2>3. QED
    BY <1>4, <1>5, <2>1, <2>2, Creates
<1>9. ASSUME NEW e, LiveAt(program, k, e), p \in MembersIn(program, e) PROVE Held(M, e)
  <2>1. Known(program, e)
    BY <1>9 DEF LiveAt
  <2>2. Born(program, k, e) => e = c
    BY <1>3, <1>5, <1>9, OneOfACall
  <2>3. Held(M, c)
    BY <1>1, <1>2, <1>3, <1>6 DEF Keeps
  <2>4. QED
    BY <1>4, <1>5, <1>6, <1>9, <2>1, <2>2, <2>3, Creates
<1>10. QED
  BY <1>1, <1>4, <1>6, <1>7, <1>8, <1>9, ReturnOnly

\* Nobody has the id of a communicator that p is just joining.
LEMMA NoIdYet ==
  ASSUME CommInv, NEW p \in Process, pc[p] = "joining", NEW c, Known(program, c),
         p \in MembersIn(program, c), done[p] < c[1]
  PROVE  \A q \in MembersIn(program, c) : ~ HasId(c, done[q], pc[q], comm[q])
<1>1. IsProgram(program) /\ c \in Comm /\ c[1] \in Nat
  BY Acting, SentOf, CommIs
<1>2. PICK f, g :
        /\ Tally(program, c, f, g)
        /\ \A q \in MembersIn(program, c) :
             /\ Place(program, q, done[q], pc[q], comm[q]) /\ Len(sent[c][q]) \in Nat
             /\ Counted(program, q, done[q], pc[q], comm[q], communicator_map[q], c, f, sent[c][q])
  BY SentOf
<1>3. PICK T \in {2, 3} : T = Takes(program, c[1], c)
  BY <1>1, <1>2, Reached
<1>4. ~ HasId(c, done[p], pc[p], comm[p])
  BY <1>1, Acting, CallsAre DEF HasId
<1>5. ~ (Len(sent[c][p]) >= T - 1)
  BY <1>1, <1>2, <1>3, <1>4, Reached
<1>6. ASSUME NEW q \in MembersIn(program, c), HasId(c, done[q], pc[q], comm[q]) PROVE FALSE
  <2>1. Left(c, comm[q], sent[c][q]) <= Len(sent[c][p])
    BY <1>1 DEF CommInv, Met
  <2>2. Left(c, comm[q], sent[c][q]) \in Int
    BY <1>2, LeftIs
  <2>3. CASE c[1] <= done[q]
    <3>1. Left(c, comm[q], sent[c][q]) >= T
      BY <1>1, <1>2, <1>3, <2>3, Reached
    <3>2. QED
      BY <1>2, <1>5, <2>1, <2>2, <3>1
  <2>4. CASE pc[q] = "settling" /\ comm[q] = c
    <3>1. Len(sent[c][q]) = T
      BY <1>1, <1>2, <1>3, <2>4, Reached
    <3>2. Left(c, comm[q], sent[c][q]) = T - 1
      BY <1>2, <2>4, <3>1, LeftIs
    <3>3. QED
      BY <1>2, <1>5, <2>1, <3>2
  <2>5. QED
    BY <1>6, <2>3, <2>4 DEF HasId
<1>7. QED
  BY <1>6

\* NCCL has made the communicator: its members enter the negotiation, others return.
LEMMA JoinedKeeps ==
  ASSUME CommInv, NEW p \in Process, Joined(p)
  PROVE  CommInv'
<1>1. pc[p] = "joining" /\ AllEntered(p) /\ UNCHANGED <<program, live, comm_id, communicator_map, dirs>>
  BY DEF Joined
<1>2. PICK o : o = comm[p]
  OBVIOUS
<1>3. /\ IsProgram(program) /\ done[p] \in 0 .. Len(program)
      /\ Keeps(program, p, done[p], pc[p], o, communicator_map[p])
      /\ o \in Comm /\ Known(program, o) /\ p \in MembersIn(program, o) /\ Members(o) = MembersIn(program, o)
  BY <1>1, <1>2, Acting
<1>4. PICK k \in 1 .. Len(program) :
        /\ Turn(program, p, done[p], k) /\ Busy(program, p, k, pc[p], o)
        /\ k = Min(Pending(p)) /\ NextCall(p) = program[k]
  BY <1>1, <1>2, Acting
<1>5. /\ program[k].op \in {"create", "split"} /\ p \in PartyIn(program, k) /\ done[p] < k /\ k \in Nat
      /\ program[k].op = "split" => Splits(program, k, o) /\ ~ Born(program, k, o)
      /\ program[k].op = "create" => Born(program, k, o)
  <2>1. p \in PartyIn(program, k) /\ done[p] < k /\ k \in Nat
    BY <1>3, <1>4, TurnIs
  <2>2. Splits(program, k, o) => program[k].op = "split" /\ LiveAt(program, k - 1, o)
    BY <1>3, <1>4 DEF IsProgram, Legal, Splits
  <2>3. Splits(program, k, o) => ~ Born(program, k, o)
    BY <1>3, <1>4, <2>2, LiveNext
  <2>4. QED
    BY <1>1, <1>4, <2>1, <2>2, <2>3 DEF Busy
<1>6. \A q \in MembersIn(program, o) : Len(sent[o][q]) >= Len(sent[o][p])
  BY <1>1, <1>2, <1>3 DEF AllEntered
<1>7. PICK M : M = communicator_map[p]
  OBVIOUS
<1>8. \A c : Known(program, c) /\ p \in MembersIn(program, c) => ~ Kills(program, k, c)
  BY <1>4, <1>5, Creates
<1>9. PICK color : color = IF program[k].op = "create" THEN 0 ELSE program[k].plan[p]
  OBVIOUS
<1>10. CASE color = NoColor
  <2>1. Return(p) /\ UNCHANGED sent
    BY <1>4, <1>9, <1>10 DEF Joined
  <2>2. program[k].op = "split" /\ \A c : Born(program, k, c) => p \notin MembersIn(program, c)
    BY <1>3, <1>4, <1>5, <1>9, <1>10, BornOf, ColorAssumption
  <2>3. \A c : Known(program, c) /\ p \in MembersIn(program, c) =>
          /\ Within(program, k, c, pc[p], comm[p], M) = Takes(program, k, c)
          /\ Born(program, k, c) => pc[p] = "settling" /\ comm[p] = c
          /\ comm[p] = c => \A q \in MembersIn(program, c) : Len(sent[c][q]) >= Len(sent[c][p])
    BY <1>1, <1>2, <1>6, <1>8, <2>2 DEF Within, Takes
  <2>4. \A n \in DOMAIN M : LiveAt(program, k, M[n])
    <3>1. ASSUME NEW n \in DOMAIN M PROVE LiveAt(program, k, M[n])
      <4>1. PICK e : e = M[n]
        OBVIOUS
      <4>2. Known(program, e) /\ p \in MembersIn(program, e) /\ LiveAt(program, done[p], e)
        BY <1>1, <1>3, <1>7, <4>1 DEF Keeps
      <4>3. QED
        BY <1>4, <1>5, <4>1, <4>2, Creates
    <3>2. QED
      BY <3>1
  <2>5. ASSUME NEW c, LiveAt(program, k, c), p \in MembersIn(program, c) PROVE Held(M, c)
    <3>1. Known(program, c)
      BY <2>5 DEF LiveAt
    <3>2. QED
      BY <1>4, <1>5, <1>7, <2>2, <2>5, <3>1, Creates
  <2>6. QED
    BY <1>1, <1>4, <1>7, <2>1, <2>3, <2>4, <2>5, ReturnOnly
<1>11. CASE color # NoColor
  <2>1. PICK c : c = <<k, color>>
    OBVIOUS
  <2>2. /\ comm' = [comm EXCEPT ![p] = c] /\ Enter(c, p, "exchange_id")
        /\ pc' = [pc EXCEPT ![p] = "negotiating"] /\ UNCHANGED done
    BY <1>4, <1>9, <1>11, <2>1 DEF Joined
  <2>3. Born(program, k, c) /\ p \in MembersIn(program, c) /\ Known(program, c) /\ c \in Comm
    BY <1>3, <1>4, <1>5, <1>9, <1>11, <2>1, BornOf DEF Born, Known
  <2>4. "exchange_id" \in Collectives /\ "negotiating" \in States
    BY DEF Collectives, States
  <2>5. /\ sent' \in [Comm -> [Process -> Seq(Collectives)]] /\ sent'[c][p] = Append(sent[c][p], "exchange_id")
        /\ \A e \in Comm, q \in Process : e # c \/ q # p => sent'[e][q] = sent[e][q]
    BY <2>2, <2>3, <2>4, EnterIs DEF CommInv
  <2>6. done'[p] = done[p] /\ pc'[p] = "negotiating" /\ comm'[p] = c /\ communicator_map'[p] = M
    BY <1>1, <1>7, <2>2 DEF CommInv, Types
  <2>7. Types' /\ OthersRest(p)
    BY <1>1, <2>2, <2>3, <2>4, <2>5 DEF Types, CommInv, OthersRest
  <2>8. Busy(program, p, k, "negotiating", c)
    BY <2>3 DEF Busy
  <2>9. Place(program, p, done'[p], pc'[p], comm'[p])
    BY <1>3, <1>4, <2>6, <2>8 DEF Place
  <2>10. Keeps(program, p, done'[p], pc'[p], comm'[p], communicator_map[p])
    BY <1>1, <1>3, <2>6 DEF Keeps
  <2>11. StaysCounted(p, c)
    <3>1. PICK i \in {0, 1} : i = IF program[k].op = "create" THEN 1 ELSE 0
      OBVIOUS
    <3>2. program[k].op = "create" => o = c
      BY <1>3, <1>5, <2>3, OneOfACall
    <3>3. program[k].op = "split" => o # c
      BY <1>5, <2>3
    <3>4. i = Within(program, k, c, pc[p], comm[p], M)
      BY <1>1, <1>2, <1>5, <2>3, <3>1, <3>2, <3>3 DEF Within
    <3>5. Takes(program, k, c) = IF program[k].op = "create" THEN 3 ELSE 2
      BY <2>3 DEF Takes
    <3>6. Within(program, k, c, pc'[p], comm'[p], communicator_map'[p]) = i + 1 /\ i < Takes(program, k, c)
      BY <1>5, <2>3, <2>6, <3>1, <3>5 DEF Within
    <3>7. What(program, k, c, i + 1) = "exchange_id" /\ i \in Nat
      BY <1>5, <2>3, <3>1, <3>5 DEF What
    <3>8. QED
      BY <1>4, <1>7, <2>3, <2>4, <2>5, <2>6, <3>4, <3>6, <3>7, StaysEntered
  <2>12. ASSUME NEW e \in Comm, Known(program, e), p \in MembersIn(program, e), e # c
         PROVE  StaysCounted(p, e)
    <3>1. ~ Born(program, k, e)
      BY <1>3, <2>3, <2>12, OneOfACall
    <3>2. Within(program, k, e, pc'[p], comm'[p], communicator_map'[p])
            = Within(program, k, e, pc[p], comm[p], communicator_map[p])
      BY <1>1, <1>8, <2>6, <2>12, <3>1 DEF Within
    <3>3. sent'[e][p] = sent[e][p]
      BY <2>5, <2>12
    <3>4. QED
      BY <1>4, <2>6, <3>2, <3>3, StaysSame
  <2>13. \A q \in MembersIn(program, c) : ~ HasId(c, done[q], pc[q], comm[q])
    BY <1>1, <1>5, <2>3, NoIdYet DEF Born
  <2>14. ASSUME NEW e \in Comm, Known(program, e), p \in MembersIn(program, e)
         PROVE  /\ StaysCounted(p, e)
                /\ sent'[e][p] = sent[e][p] \/ (comm'[p] = e /\ \E w : sent'[e][p] = Append(sent[e][p], w))
                /\ comm[p] = e => \A q \in MembersIn(program, e) : Len(sent[e][q]) >= Len(sent[e][p])
                /\ HasId(e, done'[p], pc'[p], comm'[p]) => HasId(e, done[p], pc[p], comm[p])
                /\ pc'[p] = "negotiating" /\ comm'[p] = e =>
                     \A q \in MembersIn(program, e) : ~ HasId(e, done[q], pc[q], comm[q])
    <3>1. sent'[e][p] = sent[e][p] \/ (comm'[p] = e /\ \E w : sent'[e][p] = Append(sent[e][p], w))
      BY <2>5, <2>6
    <3>2. HasId(e, done'[p], pc'[p], comm'[p]) => HasId(e, done[p], pc[p], comm[p])
      BY <2>6 DEF HasId
    <3>3. StaysCounted(p, e)
      BY <2>11, <2>12, <2>14
    <3>4. QED
      BY <1>2, <1>6, <2>6, <2>13, <3>1, <3>2, <3>3
  <2>15. \A e \in Comm : ~ Known(program, e) => sent'[e][p] = sent[e][p]
    BY <2>3, <2>5
  <2>16. QED
    BY <1>1, <2>7, <2>9, <2>10, <2>14, <2>15, StepOnly
<1>12. QED
  BY <1>10, <1>11

-----------------------------------------------------------------------------
\* The directories, in the words of the specification.
LEMMA DirIs ==
  ASSUME CommInv, NEW p \in Process, NEW c, Known(program, c), p \in MembersIn(program, c), NEW n
  PROVE  /\ KeepsDir(c, p) <=> Keeper(program, p, c)
         /\ Keeper(program, p, c) => DirName(c, p, n) = <<HostOf[p], n, p>>
<1>1. Members(c) = MembersIn(program, c)
  BY Words
<1>2. QED
  BY <1>1 DEF KeepsDir, Keeper, IsIntraNode, FirstOnHost, DirName

\* A process forgets a communicator, and its keeper removes the directory.
LEMMA DestroyedKeeps ==
  ASSUME CommInv, NEW p \in Process, Destroyed(p)
  PROVE  CommInv'
<1>1. pc[p] = "destroying" /\ AllEntered(p) /\ UNCHANGED <<program, live, sent, comm_id>>
  BY DEF Destroyed
<1>2. PICK c : c = comm[p]
  OBVIOUS
<1>3. /\ IsProgram(program) /\ done[p] \in 0 .. Len(program)
      /\ Keeps(program, p, done[p], pc[p], c, communicator_map[p])
      /\ c \in Comm /\ Known(program, c) /\ p \in MembersIn(program, c) /\ Members(c) = MembersIn(program, c)
  BY <1>1, <1>2, Acting
<1>4. PICK k \in 1 .. Len(program) :
        /\ Turn(program, p, done[p], k) /\ Busy(program, p, k, pc[p], c)
        /\ k = Min(Pending(p)) /\ NextCall(p) = program[k]
  BY <1>1, <1>2, Acting
<1>5. /\ Kills(program, k, c) /\ LiveAt(program, k - 1, c) /\ program[k].op \in {"destroy", "destroy_all"}
      /\ \A e : ~ Born(program, k, e) /\ ~ Splits(program, k, e)
  <2>1. Kills(program, k, c) /\ LiveAt(program, k - 1, c) /\ program[k].op \in {"destroy", "destroy_all"}
    BY <1>1, <1>4 DEF Busy, Kills
  <2>2. QED
    BY <1>3, <2>1, MembersAre DEF Born, Splits
<1>6. PICK M : M = communicator_map[p]
  OBVIOUS
<1>7. PICK n : n = comm_id[c][p]
  OBVIOUS
<1>8. n \in DOMAIN M /\ M[n] = c /\ \A i \in DOMAIN M : M[i] = c => i = n
  BY <1>1, <1>3, <1>6, <1>7 DEF Keeps, Held, CommInv, Named
<1>9. PICK M2 : M2 = [i \in DOMAIN M \ {n} |-> M[i]]
  OBVIOUS
<1>10. communicator_map' = [communicator_map EXCEPT ![p] = M2]
  BY <1>2, <1>6, <1>7, <1>9 DEF Destroyed
<1>11. communicator_map'[p] = M2 /\ \A q \in Process : q # p => communicator_map'[q] = communicator_map[q]
  BY <1>10 DEF CommInv, Types
<1>12. /\ DOMAIN M2 = DOMAIN M \ {n} /\ \A i \in DOMAIN M2 : M2[i] = M[i] /\ M2[i] # c
       /\ ~ Held(M2, c) /\ \A e : e # c => (Held(M2, e) <=> Held(M, e))
  BY <1>8, <1>9 DEF Held
<1>13. PICK dir : dir = DirName(c, p, n)
  OBVIOUS
<1>14. Keeper(program, p, c) => dir \in dirs /\ dir = <<HostOf[p], n, p>>
  BY <1>3, <1>6, <1>8, <1>13, DirIs DEF CommInv, DirsKeptOf
<1>15. /\ dirs' = IF Keeper(program, p, c) THEN dirs \ {dir} ELSE dirs
       /\ IF program[k].op = "destroy" THEN Return(p)
          ELSE /\ pc'   = [pc EXCEPT ![p] = "idle"]
               /\ comm' = [comm EXCEPT ![p] = NoComm]
               /\ UNCHANGED done
  <2>1. KeepsDir(c, p) <=> Keeper(program, p, c)
    BY <1>3, DirIs
  <2>2. ~ (KeepsDir(c, p) /\ dir \notin dirs)
    BY <1>14, <2>1
  <2>3. QED
    BY <1>2, <1>4, <1>7, <1>13, <2>1, <2>2 DEF Destroyed, DirsWithout
<1>16. DirsKeptOf'
  <2>1. ASSUME NEW x
        PROVE  x \in dirs' <=> \E q \in Process : \E i \in DOMAIN communicator_map'[q] :
                 Keeper(program, q, communicator_map'[q][i]) /\ x = <<HostOf[q], i, q>>
    <3>1. x \in dirs <=> \E q \in Process : \E i \in DOMAIN communicator_map[q] :
            Keeper(program, q, communicator_map[q][i]) /\ x = <<HostOf[q], i, q>>
      BY DEF CommInv, DirsKeptOf
    <3>2. ASSUME x \in dirs'
          PROVE  \E q \in Process : \E i \in DOMAIN communicator_map'[q] :
                   Keeper(program, q, communicator_map'[q][i]) /\ x = <<HostOf[q], i, q>>
      <4>1. x \in dirs
        BY <1>15, <3>2
      <4>2. PICK q \in Process : \E i \in DOMAIN communicator_map[q] :
              Keeper(program, q, communicator_map[q][i]) /\ x = <<HostOf[q], i, q>>
        BY <3>1, <4>1
      <4>3. PICK i \in DOMAIN communicator_map[q] :
              Keeper(program, q, communicator_map[q][i]) /\ x = <<HostOf[q], i, q>>
        BY <4>2
      <4>4. ~ (q = p /\ i = n)
        BY <1>6, <1>8, <1>14, <1>15, <3>2, <4>3
      <4>5. i \in DOMAIN communicator_map'[q] /\ communicator_map'[q][i] = communicator_map[q][i]
        BY <1>6, <1>11, <1>12, <4>3, <4>4
      <4>6. QED
        BY <4>3, <4>5
    <3>3. ASSUME NEW q \in Process, NEW i \in DOMAIN communicator_map'[q],
                 Keeper(program, q, communicator_map'[q][i]), x = <<HostOf[q], i, q>>
          PROVE  x \in dirs'
      <4>1. i \in DOMAIN communicator_map[q] /\ communicator_map'[q][i] = communicator_map[q][i]
            /\ ~ (q = p /\ i = n)
        BY <1>6, <1>11, <1>12, <3>3
      <4>2. x \in dirs
        BY <3>1, <3>3, <4>1
      <4>3. Keeper(program, p, c) => x # dir
        BY <1>14, <3>3, <4>1
      <4>4. QED
        BY <1>15, <4>2, <4>3
    <3>4. QED
      BY <3>2, <3>3
  <2>2. QED
    BY <1>1, <2>1 DEF DirsKeptOf
<1>17. \A e \in Comm, q \in Process : sent'[e][q] = sent[e][q] /\ comm_id'[e][q] = comm_id[e][q]
  BY <1>1
<1>18. \A e \in Comm : \A i \in DOMAIN communicator_map'[p] :
         communicator_map'[p][i] = e => comm_id'[e][p] = i
  BY <1>6, <1>11, <1>12, <1>17 DEF CommInv, Named
<1>19. \A i \in DOMAIN M2 : /\ i \in Nat /\ Known(program, M2[i]) /\ p \in MembersIn(program, M2[i])
                            /\ i < M2[i][1] /\ LiveAt(program, done[p], M2[i])
  BY <1>1, <1>3, <1>6, <1>12 DEF Keeps
<1>20. /\ Types' /\ OthersRest(p) /\ pc'[p] = "idle" /\ comm'[p] = NoComm
       /\ done'[p] = IF program[k].op = "destroy" THEN k ELSE done[p]
  <2>1. "idle" \in States /\ NoComm \in Comm \cup {NoComm} /\ k \in Nat
    BY <1>3, CallsAre DEF States
  <2>2. CASE program[k].op = "destroy"
    BY <1>1, <1>4, <1>10, <1>11, <1>15, <1>17, <2>1, <2>2, ReturnIs DEF Types, CommInv, OthersRest
  <2>3. CASE program[k].op # "destroy"
    <3>1. /\ done' = done /\ pc' = [pc EXCEPT ![p] = "idle"] /\ comm' = [comm EXCEPT ![p] = NoComm]
          /\ done \in [Process -> Nat] /\ pc \in [Process -> States]
          /\ comm \in [Process -> Comm \cup {NoComm}] /\ DOMAIN communicator_map = Process
      BY <1>15, <2>3 DEF Types, CommInv
    <3>2. /\ pc' \in [Process -> States] /\ comm' \in [Process -> Comm \cup {NoComm}]
          /\ pc'[p] = "idle" /\ comm'[p] = NoComm
          /\ \A q \in Process : q # p => pc'[q] = pc[q] /\ comm'[q] = comm[q]
      BY <2>1, <3>1
    <3>3. Types'
      BY <1>1, <1>10, <3>1, <3>2 DEF Types, CommInv
    <3>4. OthersRest(p)
      BY <1>1, <1>11, <1>17, <3>1, <3>2 DEF OthersRest
    <3>5. QED
      BY <2>3, <3>1, <3>2, <3>3, <3>4
  <2>4. QED
    BY <2>2, <2>3
<1>21. /\ Place(program, p, done'[p], pc'[p], comm'[p])
       /\ Keeps(program, p, done'[p], pc'[p], comm'[p], communicator_map'[p])
       /\ \A e : Known(program, e) /\ p \in MembersIn(program, e) =>
            /\ StaysCounted(p, e)
            /\ HasId(e, done'[p], pc'[p], comm'[p]) => HasId(e, done[p], pc[p], comm[p])
  <2>1. CASE program[k].op = "destroy"
    <3>1. \A e : Kills(program, k, e) <=> e = c
      BY <1>5, <2>1 DEF Kills
    <3>2. \A e : Known(program, e) /\ p \in MembersIn(program, e) =>
            /\ sent'[e][p] = sent[e][p]
            /\ Within(program, k, e, pc[p], comm[p], communicator_map[p]) = Takes(program, k, e)
            /\ Born(program, k, e) => pc[p] = "settling" /\ comm[p] = e
      BY <1>1, <1>2, <1>5, <3>1 DEF Within, Takes
    <3>3. ASSUME NEW i \in DOMAIN M2 PROVE LiveAt(program, k, M2[i])
      <4>1. PICK e : e = M2[i]
        OBVIOUS
      <4>2. Known(program, e) /\ p \in MembersIn(program, e) /\ LiveAt(program, done[p], e) /\ e # c /\ e \in Comm
        BY <1>12, <1>19, <4>1 DEF Known
      <4>3. LiveAt(program, k - 1, e)
        BY <1>3, <1>4, <4>2, UpToTurn
      <4>4. QED
        BY <1>3, <3>1, <4>1, <4>2, <4>3, LiveNext
    <3>4. ASSUME NEW e, LiveAt(program, k, e), p \in MembersIn(program, e) PROVE Held(M2, e)
      <4>1. Known(program, e) /\ e \in Comm
        BY <3>4 DEF LiveAt, Known
      <4>2. LiveAt(program, k - 1, e) /\ e # c
        BY <1>3, <1>5, <3>1, <3>4, <4>1, LiveNext
      <4>3. LiveAt(program, done[p], e)
        BY <1>3, <1>4, <3>4, <4>1, <4>2, UpToTurn
      <4>4. ~ \E j \in 1 .. Len(program) : Turn(program, p, done[p], j) /\ program[j].op = "destroy_all"
        BY <1>3, <1>4, <2>1, TurnIs
      <4>5. Held(M, e)
        BY <1>3, <1>6, <3>4, <4>3, <4>4 DEF Keeps
      <4>6. QED
        BY <1>12, <4>2, <4>5
    <3>5. done'[p] = k
      BY <1>20, <2>1
    <3>6. QED
      BY <1>4, <1>11, <1>19, <1>20, <3>2, <3>3, <3>4, <3>5, Returned
  <2>2. CASE program[k].op = "destroy_all"
    <3>1. done'[p] = done[p]
      BY <1>20, <2>2
    <3>2. Place(program, p, done'[p], pc'[p], comm'[p])
      BY <1>3, <1>20, <3>1 DEF Place
    <3>3. Keeps(program, p, done[p], "idle", NoComm, M2)
      BY <1>4, <1>19, <2>2 DEF Keeps
    <3>4. ASSUME NEW e, Known(program, e), p \in MembersIn(program, e)
          PROVE  /\ StaysCounted(p, e)
                 /\ HasId(e, done'[p], pc'[p], comm'[p]) => HasId(e, done[p], pc[p], comm[p])
      <4>1. e \in Comm /\ e # NoComm
        BY <3>4, CommIs DEF Known
      <4>2. Within(program, k, e, "idle", NoComm, M2) = Within(program, k, e, pc[p], comm[p], M)
        BY <1>2, <1>5, <1>12, <4>1 DEF Within
      <4>3. sent'[e][p] = sent[e][p]
        BY <1>1
      <4>4. StaysCounted(p, e)
        BY <1>4, <1>6, <1>11, <1>20, <3>1, <4>2, <4>3, StaysSame
      <4>5. QED
        BY <1>20, <3>1, <4>4 DEF HasId
    <3>5. QED
      BY <1>11, <1>20, <3>1, <3>2, <3>3, <3>4
  <2>3. QED
    BY <1>5, <2>1, <2>2
<1>22. ASSUME NEW e \in Comm, Known(program, e), p \in MembersIn(program, e) PROVE LeavesLast(p, e)
  BY <1>1, <1>2, <1>3, <1>17, <1>20, <1>22, LeavesLastIs, SentOf DEF AllEntered
<1>23. Programs' /\ Places' /\ Named' /\ SentAlike' /\ Met'
  BY <1>17, <1>18, <1>20, <1>21, <1>22, StepOfOne
<1>24. IdsAgree'
  <2>1. pc[p] \notin {"negotiating", "settling"} /\ pc'[p] # "negotiating"
    BY <1>1, <1>20
  <2>2. QED
    BY <1>17, <1>20, <1>21, <2>1, IdsKept
<1>25. QED
  BY <1>16, <1>20, <1>23, <1>24 DEF CommInv

\* A process finds the id, the one the other members find, and holds the communicator.
LEMMA NegotiatedKeeps ==
  ASSUME CommInv, NEW p \in Process, Negotiated(p)
  PROVE  CommInv'
<1>1. pc[p] = "negotiating" /\ AllEntered(p) /\ UNCHANGED <<program, live, done, comm>>
  BY DEF Negotiated
<1>2. PICK c : c = comm[p]
  OBVIOUS
<1>3. /\ IsProgram(program) /\ done[p] \in 0 .. Len(program)
      /\ Keeps(program, p, done[p], pc[p], c, communicator_map[p])
      /\ c \in Comm /\ Known(program, c) /\ p \in MembersIn(program, c) /\ Members(c) = MembersIn(program, c)
  BY <1>1, <1>2, Acting
<1>4. PICK k \in 1 .. Len(program) : Turn(program, p, done[p], k) /\ Busy(program, p, k, pc[p], c)
  BY <1>1, <1>2, Acting
<1>5. Born(program, k, c) /\ program[k].op \in {"create", "split"} /\ c[1] \in Nat
  BY <1>1, <1>3, <1>4, MembersAre DEF Busy, Born
<1>6. \A q \in MembersIn(program, c) : Len(sent[c][q]) >= Len(sent[c][p])
  BY <1>1, <1>2, <1>3 DEF AllEntered
<1>7. \A q \in MembersIn(program, c) :
        comm[q] = c /\ pc[q] \in {"negotiating", "settling"} /\ done[q] < c[1]
  BY <1>1, <1>2, <1>3, <1>6, Together
<1>8. PICK n : n = FirstFreeId(MembersIn(program, c), communicator_map, c)
  OBVIOUS
<1>9. /\ n \in Nat /\ n < c[1]
      /\ \A q \in MembersIn(program, c) : n \in DOMAIN communicator_map[q] => communicator_map[q][n] = c
  BY <1>3, <1>7, <1>8, FirstFreeIsLow
<1>10. PICK M : M = communicator_map[p]
  OBVIOUS
<1>11. \A i \in DOMAIN M : M[i] # c
  <2>1. ~ LiveAt(program, done[p], c)
    <3>1. done[p] \in Nat /\ done[p] < c[1]
      BY <1>3, <1>7, CallsAre
    <3>2. QED
      BY <1>5, <3>1 DEF LiveAt
  <2>2. QED
    BY <1>1, <1>3, <1>10, <2>1 DEF Keeps
<1>12. n \notin DOMAIN M
  BY <1>3, <1>9, <1>10, <1>11
<1>13. PICK M2 : M2 = Insert(M, n, c)
  OBVIOUS
<1>14. /\ DOMAIN M2 = DOMAIN M \cup {n} /\ M2[n] = c /\ \A i \in DOMAIN M : M2[i] = M[i]
       /\ \A e : Held(M, e) => Held(M2, e)
  BY <1>12, <1>13 DEF Insert, Held
<1>15. FreeId(c, p) = n
  BY <1>3, <1>8 DEF FreeId, FirstFreeId
<1>16. PICK dir : dir = DirName(c, p, n)
  OBVIOUS
<1>17. Keeper(program, p, c) => dir \notin dirs /\ dir = <<HostOf[p], n, p>>
  <2>1. SUFFICES ASSUME Keeper(program, p, c) PROVE dir \notin dirs /\ dir = <<HostOf[p], n, p>>
    OBVIOUS
  <2>2. dir = <<HostOf[p], n, p>>
    BY <1>3, <1>16, <2>1, DirIs
  <2>3. ASSUME dir \in dirs PROVE FALSE
    <3>1. PICK q \in Process : \E i \in DOMAIN communicator_map[q] : dir = <<HostOf[q], i, q>>
      BY <2>3 DEF CommInv, DirsKeptOf
    <3>2. QED
      BY <1>10, <1>12, <2>2, <3>1
  <2>4. QED
    BY <2>2, <2>3
<1>18. KeepsDir(c, p) <=> Keeper(program, p, c)
  BY <1>3, DirIs
<1>19. /\ comm_id' = [comm_id EXCEPT ![c][p] = n]
       /\ communicator_map' = [communicator_map EXCEPT ![p] = M2]
       /\ pc' = [pc EXCEPT ![p] = "settling"]
       /\ dirs' = IF Keeper(program, p, c) THEN dirs \cup {dir} ELSE dirs
       /\ Enter(c, p, "granularity")
  <2>1. /\ comm_id' = [comm_id EXCEPT ![c][p] = n]
        /\ communicator_map' = [communicator_map EXCEPT ![p] = M2]
        /\ Enter(c, p, "granularity")
    BY <1>2, <1>10, <1>13, <1>15 DEF Negotiated
  <2>2. /\ pc' = [pc EXCEPT ![p] = "settling"]
        /\ dirs' = IF Keeper(program, p, c) THEN dirs \cup {dir} ELSE dirs
    BY <1>2, <1>15, <1>16, <1>17, <1>18 DEF Negotiated
  <2>3. QED
    BY <2>1, <2>2
<1>20. "granularity" \in Collectives /\ "settling" \in States
  BY DEF Collectives, States
<1>21. /\ sent' \in [Comm -> [Process -> Seq(Collectives)]] /\ sent'[c][p] = Append(sent[c][p], "granularity")
       /\ \A e \in Comm, q \in Process : e # c \/ q # p => sent'[e][q] = sent[e][q]
  BY <1>3, <1>19, <1>20, EnterIs DEF CommInv
<1>22. /\ comm_id' \in [Comm -> [Process -> Nat]] /\ comm_id'[c][p] = n
       /\ \A e \in Comm, q \in Process : e # c \/ q # p => comm_id'[e][q] = comm_id[e][q]
  BY <1>3, <1>9, <1>19 DEF CommInv, Types
<1>23. /\ done'[p] = done[p] /\ pc'[p] = "settling" /\ comm'[p] = c /\ communicator_map'[p] = M2
       /\ \A q \in Process : q # p => pc'[q] = pc[q] /\ communicator_map'[q] = communicator_map[q]
  BY <1>1, <1>2, <1>19 DEF CommInv, Types
<1>24. Types' /\ OthersRest(p)
  BY <1>1, <1>19, <1>20, <1>21, <1>22, <1>23 DEF Types, CommInv, OthersRest
<1>25. Busy(program, p, k, "settling", c)
  BY <1>3, <1>5 DEF Busy
<1>26. Place(program, p, done'[p], pc'[p], comm'[p])
  BY <1>3, <1>4, <1>23, <1>25 DEF Place
<1>27. Keeps(program, p, done'[p], pc'[p], comm'[p], communicator_map'[p])
  <2>1. Held(M2, c)
    BY <1>14 DEF Held
  <2>2. \A i \in DOMAIN M2 : /\ i \in Nat /\ Known(program, M2[i]) /\ p \in MembersIn(program, M2[i])
                             /\ i < M2[i][1]
    BY <1>1, <1>3, <1>9, <1>10, <1>14 DEF Keeps
  <2>3. \A e : LiveAt(program, done[p], e) /\ p \in MembersIn(program, e) =>
              \/ Held(M2, e)
              \/ \E j \in 1 .. Len(program) : Turn(program, p, done[p], j) /\ program[j].op = "destroy_all"
    BY <1>3, <1>10, <1>14 DEF Keeps
  <2>4. \A i \in DOMAIN M2 : LiveAt(program, done[p], M2[i]) \/ M2[i] = c
    BY <1>1, <1>3, <1>10, <1>14 DEF Keeps
  <2>5. QED
    BY <1>23, <2>1, <2>2, <2>3, <2>4 DEF Keeps
<1>28. \A e \in Comm : \A i \in DOMAIN communicator_map'[p] :
         communicator_map'[p][i] = e => comm_id'[e][p] = i
  <2>1. ASSUME NEW e \in Comm, NEW i \in DOMAIN M2, M2[i] = e PROVE comm_id'[e][p] = i
    <3>1. CASE i = n
      BY <1>14, <1>22, <2>1, <3>1
    <3>2. CASE i # n
      <4>1. i \in DOMAIN M /\ M[i] = e /\ e # c
        BY <1>11, <1>14, <2>1, <3>2
      <4>2. QED
        BY <1>10, <1>22, <4>1 DEF CommInv, Named
    <3>3. QED
      BY <3>1, <3>2
  <2>2. QED
    BY <1>23, <2>1
<1>29. StaysCounted(p, c)
  <2>1. PICK i \in {1, 2} : i = IF program[k].op = "create" THEN 2 ELSE 1
    OBVIOUS
  <2>2. Takes(program, k, c) = i + 1
    BY <1>5, <2>1 DEF Takes
  <2>3. i = Within(program, k, c, pc[p], comm[p], M)
    BY <1>1, <1>2, <1>5, <2>1, <2>2 DEF Within
  <2>4. Within(program, k, c, pc'[p], comm'[p], communicator_map'[p]) = i + 1
    BY <1>5, <1>23, <2>2 DEF Within
  <2>5. What(program, k, c, i + 1) = "granularity" /\ i < Takes(program, k, c) /\ i \in Nat
    BY <1>5, <2>1, <2>2 DEF What
  <2>6. QED
    BY <1>3, <1>4, <1>10, <1>20, <1>21, <1>23, <2>3, <2>4, <2>5, StaysEntered
<1>30. ASSUME NEW e \in Comm, Known(program, e), p \in MembersIn(program, e), e # c
       PROVE  StaysCounted(p, e)
  <2>1. ~ Born(program, k, e)
    BY <1>3, <1>5, <1>30, OneOfACall
  <2>2. ~ Kills(program, k, e)
    BY <1>5 DEF Kills
  <2>3. Within(program, k, e, pc'[p], comm'[p], communicator_map'[p])
          = Within(program, k, e, pc[p], comm[p], communicator_map[p])
    BY <1>1, <1>23, <2>1, <2>2 DEF Within
  <2>4. sent'[e][p] = sent[e][p]
    BY <1>21, <1>30
  <2>5. QED
    BY <1>4, <1>23, <2>3, <2>4, StaysSame
<1>31. ASSUME NEW e \in Comm, Known(program, e), p \in MembersIn(program, e)
       PROVE  StaysCounted(p, e) /\ LeavesLast(p, e)
  <2>1. sent'[e][p] = sent[e][p] \/ (comm'[p] = e /\ \E w : sent'[e][p] = Append(sent[e][p], w))
    BY <1>21, <1>23
  <2>2. comm[p] = e => \A q \in MembersIn(program, e) : Len(sent[e][q]) >= Len(sent[e][p])
    BY <1>2, <1>6
  <2>3. LeavesLast(p, e)
    BY <1>24, <1>31, <2>1, <2>2, LeavesLastIs
  <2>4. QED
    BY <1>29, <1>30, <1>31, <2>3
<1>32. \A e \in Comm : ~ Known(program, e) => sent'[e][p] = sent[e][p]
  BY <1>3, <1>21
<1>33. Programs' /\ Places' /\ Named' /\ SentAlike' /\ Met'
  BY <1>24, <1>26, <1>27, <1>28, <1>31, <1>32, StepOfOne
<1>34. IdsAgree'
  <2>1. ASSUME NEW q \in MembersIn(program, c), HasId(c, done'[q], pc'[q], comm'[q])
        PROVE  comm_id'[c][q] = n
    <3>1. CASE q = p
      BY <1>22, <3>1
    <3>2. CASE q # p
      <4>1. q \in Process /\ HasId(c, done[q], pc[q], comm[q])
        BY <1>1, <1>3, <1>23, <2>1, <3>2, SentOf
      <4>2. comm_id[c][q] = n
        BY <1>1, <1>2, <1>3, <1>8, <4>1 DEF CommInv, IdsAgree
      <4>3. QED
        BY <1>3, <1>22, <3>2, <4>1, <4>2
    <3>3. QED
      BY <3>1, <3>2
  <2>2. FirstFreeId(MembersIn(program, c), communicator_map', c) = n
    <3>1. ASSUME NEW i, NEW q \in MembersIn(program, c)
          PROVE  (i \in DOMAIN communicator_map'[q] => communicator_map'[q][i] = c)
                   <=> (i \in DOMAIN communicator_map[q] => communicator_map[q][i] = c)
      <4>1. CASE q = p
        BY <1>10, <1>12, <1>14, <1>23, <4>1
      <4>2. CASE q # p
        BY <1>3, <1>23, <4>2, SentOf
      <4>3. QED
        BY <4>1, <4>2
    <3>2. {i \in 0 .. MaxOps : \A q \in MembersIn(program, c) :
             i \in DOMAIN communicator_map'[q] => communicator_map'[q][i] = c}
          = {i \in 0 .. MaxOps : \A q \in MembersIn(program, c) :
             i \in DOMAIN communicator_map[q] => communicator_map[q][i] = c}
      BY <3>1
    <3>3. QED
      BY <1>8, <3>2 DEF FirstFreeId
  <2>3. ASSUME NEW e \in Comm, e # c, Known(program, e), NEW q \in MembersIn(program, e),
               HasId(e, done'[q], pc'[q], comm'[q]), NEW o \in MembersIn(program, e)
        PROVE  /\ HasId(e, done'[o], pc'[o], comm'[o]) => comm_id'[e][o] = comm_id'[e][q]
               /\ pc'[o] = "negotiating" /\ comm'[o] = e =>
                    comm_id'[e][q] = FirstFreeId(MembersIn(program, e), communicator_map', e)
    <3>1. MembersIn(program, e) \subseteq Process
      BY <2>3, SentOf
    <3>2. \A r \in MembersIn(program, e) : HasId(e, done'[r], pc'[r], comm'[r]) =>
            HasId(e, done[r], pc[r], comm[r])
      BY <1>1, <1>2, <1>23, <2>3, <3>1 DEF HasId
    <3>3. \A r \in MembersIn(program, e) : comm_id'[e][r] = comm_id[e][r]
      BY <1>22, <2>3, <3>1
    <3>4. HasId(e, done'[o], pc'[o], comm'[o]) => comm_id'[e][o] = comm_id'[e][q]
      BY <2>3, <3>2, <3>3 DEF CommInv, IdsAgree
    <3>5. ASSUME pc'[o] = "negotiating", comm'[o] = e
          PROVE  comm_id'[e][q] = FirstFreeId(MembersIn(program, e), communicator_map', e)
      <4>1. o # p /\ pc[o] = "negotiating" /\ comm[o] = e
        BY <1>1, <1>23, <3>1, <3>5
      <4>2. \A r \in MembersIn(program, e) : comm[r] = e
        BY <2>3, <3>2, <4>1, Together
      <4>3. p \notin MembersIn(program, e)
        BY <1>2, <2>3, <4>2
      <4>4. \A r \in MembersIn(program, e) : communicator_map'[r] = communicator_map[r]
        BY <1>23, <3>1, <4>3
      <4>5. FirstFreeId(MembersIn(program, e), communicator_map', e)
            = FirstFreeId(MembersIn(program, e), communicator_map, e)
        BY <4>4 DEF FirstFreeId
      <4>6. comm_id[e][q] = FirstFreeId(MembersIn(program, e), communicator_map, e)
        BY <2>3, <3>2, <4>1 DEF CommInv, IdsAgree
      <4>7. QED
        BY <2>3, <3>3, <4>5, <4>6
    <3>6. QED
      BY <3>4, <3>5
  <2>4. QED
    BY <1>1, <2>1, <2>2, <2>3 DEF IdsAgree
<1>35. DirsKeptOf'
  <2>1. ASSUME NEW x
        PROVE  x \in dirs' <=> \E q \in Process : \E i \in DOMAIN communicator_map'[q] :
                 Keeper(program, q, communicator_map'[q][i]) /\ x = <<HostOf[q], i, q>>
    <3>1. x \in dirs <=> \E q \in Process : \E i \in DOMAIN communicator_map[q] :
            Keeper(program, q, communicator_map[q][i]) /\ x = <<HostOf[q], i, q>>
      BY DEF CommInv, DirsKeptOf
    <3>2. ASSUME x \in dirs
          PROVE  \E q \in Process : \E i \in DOMAIN communicator_map'[q] :
                   Keeper(program, q, communicator_map'[q][i]) /\ x = <<HostOf[q], i, q>>
      <4>1. PICK q \in Process : \E i \in DOMAIN communicator_map[q] :
              Keeper(program, q, communicator_map[q][i]) /\ x = <<HostOf[q], i, q>>
        BY <3>1, <3>2
      <4>2. PICK i \in DOMAIN communicator_map[q] :
              Keeper(program, q, communicator_map[q][i]) /\ x = <<HostOf[q], i, q>>
        BY <4>1
      <4>3. i \in DOMAIN communicator_map'[q] /\ communicator_map'[q][i] = communicator_map[q][i]
        BY <1>10, <1>14, <1>23, <4>2
      <4>4. QED
        BY <4>2, <4>3
    <3>3. ASSUME Keeper(program, p, c), x = dir
          PROVE  \E q \in Process : \E i \in DOMAIN communicator_map'[q] :
                   Keeper(program, q, communicator_map'[q][i]) /\ x = <<HostOf[q], i, q>>
      BY <1>14, <1>17, <1>23, <3>3
    <3>4. ASSUME NEW q \in Process, NEW i \in DOMAIN communicator_map'[q],
                 Keeper(program, q, communicator_map'[q][i]), x = <<HostOf[q], i, q>>
          PROVE  x \in dirs'
      <4>1. CASE q = p /\ i = n
        BY <1>14, <1>17, <1>19, <1>23, <3>4, <4>1
      <4>2. CASE ~ (q = p /\ i = n)
        <5>1. i \in DOMAIN communicator_map[q] /\ communicator_map'[q][i] = communicator_map[q][i]
          BY <1>10, <1>14, <1>23, <3>4, <4>2
        <5>2. x \in dirs
          BY <3>1, <3>4, <5>1
        <5>3. QED
          BY <1>19, <5>2
      <4>3. QED
        BY <4>1, <4>2
    <3>5. x \in dirs' => x \in dirs \/ (Keeper(program, p, c) /\ x = dir)
      BY <1>19
    <3>6. QED
      BY <3>2, <3>3, <3>4, <3>5
  <2>2. QED
    BY <1>1, <2>1 DEF DirsKeptOf
<1>36. QED
  BY <1>24, <1>33, <1>34, <1>35 DEF CommInv

-----------------------------------------------------------------------------
\* A member has entered no more of c than the program says.
LEMMA NoMoreThanCalls ==
  ASSUME NEW P, IsProgram(P), NEW c, Known(P, c), NEW p \in MembersIn(P, c), NEW d, NEW s, NEW e, NEW M,
         Place(P, p, d, s, e), NEW f, NEW g, Tally(P, c, f, g), NEW S, Counted(P, p, d, s, e, M, c, f, S)
  PROVE  Len(S) <= f[Len(P)] /\ f[Len(P)] \in Nat /\ f[d] \in Nat
<1>1. PICK n \in Nat : n = Len(P) /\ n <= MaxOps /\ d \in 0 .. n
  BY CallsAre DEF Place
<1>2. n \in 0 .. MaxOps /\ d \in 0 .. MaxOps
  BY <1>1, MaxOpsAssumption
<1>3. f[d] \in Nat /\ f[n] \in Nat /\ f[d] <= f[n]
  BY <1>1, <1>2 DEF Tally
<1>4. CASE \E k \in 1 .. n : Turn(P, p, d, k)
  <2>1. PICK k \in 1 .. n : Turn(P, p, d, k)
    BY <1>4
  <2>2. PICK u \in 0 .. 3 : u = Takes(P, k, c)
    BY TakesAre
  <2>3. PICK w \in 0 .. u : w = Within(P, k, c, s, e, M)
    BY <2>1, <2>2, WithinIs
  <2>4. f[d] = f[k - 1]
    BY <1>1, <2>1, UpToTurn
  <2>5. f[k] = f[k - 1] + u /\ f[k] <= f[n]
    <3>1. k \in 0 .. n /\ n \in 0 .. n /\ k <= n
      BY <2>1
    <3>2. QED
      BY <1>1, <2>1, <2>2, <3>1 DEF Tally
  <2>6. Len(S) = f[d] + w
    BY <1>1, <2>1, <2>3 DEF Counted
  <2>7. QED
    <3>1. PICK a \in Nat, b \in Nat : a = f[d] /\ b = f[n]
      BY <1>3
    <3>2. a + u <= b
      BY <2>4, <2>5, <3>1
    <3>3. a + w <= b
      BY <3>2
    <3>4. QED
      BY <1>1, <2>6, <3>1, <3>3
<1>5. CASE ~ \E k \in 1 .. n : Turn(P, p, d, k)
  BY <1>1, <1>3, <1>5 DEF Counted
<1>6. QED
  BY <1>1, <1>3, <1>4, <1>5

\* The program gets a legal call: nobody has begun it, and what it creates has no id.
LEMMA IssueKeeps ==
  ASSUME CommInv, NEW call \in CallSet, Issue(call),
         call.op = "split" => /\ LiveAt(program, Len(program), call.parent)
                              /\ call.plan \in [MembersIn(program, call.parent) -> Color \cup {NoColor}],
         call.op = "destroy" => LiveAt(program, Len(program), call.comm)
  PROVE  CommInv'
<1>1. PICK P : P = program
  OBVIOUS
<1>2. PICK Q : Q = Append(P, call)
  OBVIOUS
<1>3. /\ program' = Q /\ UNCHANGED <<done, pc, comm, sent, comm_id, communicator_map, dirs>>
      /\ Len(P) < MaxOps
  BY <1>1, <1>2 DEF Issue
<1>4. IsProgram(P) /\ Len(P) \in Nat
  BY <1>1, CallsAre DEF CommInv, Programs
<1>5. Longer(P, Q) /\ Q[Len(P) + 1] = call /\ IsProgram(Q)
  BY <1>1, <1>2, <1>3, <1>4, LongerProgram
<1>6. PICK n \in Nat : n = Len(P) /\ n + 1 <= MaxOps /\ Len(Q) = n + 1
  BY <1>3, <1>4, <1>5, MaxOpsAssumption DEF Longer
<1>7. \A p \in Process : /\ Place(P, p, done[p], pc[p], comm[p]) /\ done[p] \in 0 .. n
                         /\ Keeps(P, p, done[p], pc[p], comm[p], communicator_map[p])
  BY <1>1, <1>6 DEF CommInv, Places, Place
<1>8. Types' /\ Named'
  BY <1>3 DEF CommInv, Types, Named
<1>9. Programs'
  <2>1. ASSUME NEW c \in Comm PROVE c \in live' <=> LiveAt(Q, n + 1, c)
    <3>1. LiveAt(Q, n + 1, c) <=> Born(Q, n + 1, c) \/ (c \in live /\ ~ Kills(Q, n + 1, c))
      <4>1. n + 1 \in 1 .. Len(Q) /\ (n + 1) - 1 = n /\ n \in 0 .. Len(P)
        BY <1>6
      <4>2. c \in live <=> LiveAt(P, n, c)
        BY <1>1, <1>6 DEF CommInv, Programs
      <4>3. LiveAt(Q, n, c) <=> LiveAt(P, n, c)
        BY <1>4, <1>5, <4>1, LongerCalls
      <4>4. QED
        BY <1>5, <4>1, <4>2, <4>3, LiveNext
    <3>2. CASE call.op = "destroy"
      <4>1. live' = live \ {call.comm}
        BY <3>2 DEF Issue
      <4>2. ~ Born(Q, n + 1, c)
        BY <1>5, <1>6, <3>2, MembersAre DEF Born
      <4>3. Kills(Q, n + 1, c) <=> c = call.comm
        BY <1>5, <1>6, <3>2 DEF Kills
      <4>4. QED
        BY <3>1, <4>1, <4>2, <4>3
    <3>3. CASE call.op = "destroy_all"
      <4>1. live' = {}
        BY <3>3 DEF Issue
      <4>2. ~ Born(Q, n + 1, c)
        BY <1>5, <1>6, <3>3, MembersAre DEF Born
      <4>3. Kills(Q, n + 1, c)
        BY <1>5, <1>6, <3>3 DEF Kills
      <4>4. QED
        BY <3>1, <4>1, <4>2, <4>3
    <3>4. CASE call.op \in {"create", "split"}
      <4>1. live' = live \cup Created(n + 1, call)
        BY <1>1, <1>6, <3>4 DEF Issue
      <4>2. ~ Kills(Q, n + 1, c)
        BY <1>5, <1>6, <3>4 DEF Kills
      <4>3. Born(Q, n + 1, c) => c \in Created(n + 1, call)
        BY <1>5, <1>6 DEF Born, Known
      <4>4. c \in Created(n + 1, call) => c[1] = n + 1
        BY <3>4 DEF Created
      <4>5. c \in Created(n + 1, call) => Born(Q, n + 1, c)
        BY <1>5, <1>6, <4>4 DEF Born, Known
      <4>6. QED
        BY <3>1, <4>1, <4>2, <4>3, <4>5
    <3>5. QED
      BY <3>2, <3>3, <3>4 DEF CallSet
  <2>2. live' \subseteq Comm
    <3>1. live \subseteq Comm
      BY DEF CommInv, Programs
    <3>2. CASE call.op \in {"destroy", "destroy_all"}
      BY <3>1, <3>2 DEF Issue
    <3>3. CASE call.op = "create"
      <4>1. live' = live \cup {<<n + 1, 0>>}
        BY <1>1, <1>6, <3>3 DEF Issue, Created
      <4>2. <<n + 1, 0>> \in Comm
        BY <1>6, MaxOpsAssumption, ColorAssumption DEF Comm
      <4>3. QED
        BY <3>1, <4>1, <4>2
    <3>4. CASE call.op = "split"
      <4>1. live' = live \cup {<<n + 1, call.plan[p]>> : p \in {q \in DOMAIN call.plan : call.plan[q] # NoColor}}
        BY <1>1, <1>6, <3>4 DEF Issue, Created
      <4>2. \A p \in DOMAIN call.plan : call.plan[p] \in Color \cup {NoColor}
        BY <3>4
      <4>3. \A p \in DOMAIN call.plan : call.plan[p] # NoColor => <<n + 1, call.plan[p]>> \in Comm
        BY <1>6, <4>2, MaxOpsAssumption DEF Comm
      <4>4. QED
        BY <3>1, <4>1, <4>3
    <3>5. QED
      BY <3>2, <3>3, <3>4 DEF CallSet
  <2>3. QED
    BY <1>3, <1>5, <1>6, <2>1, <2>2 DEF Programs
<1>10. \A c : /\ Known(P, c) => Known(Q, c) /\ MembersIn(Q, c) = MembersIn(P, c)
              /\ Known(Q, c) => Known(P, c) \/ Born(Q, n + 1, c)
              /\ ~ (Known(P, c) /\ Born(Q, n + 1, c))
  BY <1>4, <1>5, <1>6, LongerComms
<1>11. \A c : /\ \A k \in 1 .. n : /\ Born(Q, k, c) <=> Born(P, k, c)
                                   /\ Splits(Q, k, c) <=> Splits(P, k, c)
                                   /\ Kills(Q, k, c) <=> Kills(P, k, c)
                                   /\ \A s, e, M : Within(Q, k, c, s, e, M) = Within(P, k, c, s, e, M)
              /\ \A j \in 0 .. n : LiveAt(Q, j, c) <=> LiveAt(P, j, c)
  BY <1>4, <1>5, <1>6, LongerCalls
<1>12. \A p \in Process : /\ \A k \in 1 .. n : Turn(Q, p, done[p], k) <=> Turn(P, p, done[p], k)
                          /\ \A k : Turn(Q, p, done[p], k) =>
                               \/ k \in 1 .. n /\ Turn(P, p, done[p], k)
                               \/ k = n + 1 /\ \A j \in 1 .. n : ~ Turn(P, p, done[p], j)
  BY <1>4, <1>5, <1>6, <1>7, LongerTurn
<1>13. ASSUME NEW p \in Process
       PROVE  /\ Place(Q, p, done[p], pc[p], comm[p])
              /\ Keeps(Q, p, done[p], pc[p], comm[p], communicator_map[p])
  <2>1. \A k \in 1 .. n : k \in 1 .. n + 1 /\ k - 1 \in 0 .. n
    BY <1>6
  <2>2. \A k \in 1 .. n : Busy(P, p, k, pc[p], comm[p]) => Busy(Q, p, k, pc[p], comm[p])
    BY <1>10, <1>11, <2>1, <1>4, <1>5, <1>6 DEF Busy, Longer
  <2>3. Place(Q, p, done[p], pc[p], comm[p])
    BY <1>6, <1>7, <1>12, <2>1, <2>2 DEF Place
  <2>4. \A c : LiveAt(Q, done[p], c) <=> LiveAt(P, done[p], c)
    BY <1>7, <1>11
  <2>5. \A c : LiveAt(P, done[p], c) => Known(P, c)
    BY DEF LiveAt
  <2>6. \A k \in 1 .. n : Q[k] = P[k]
    BY <1>5, <1>6 DEF Longer
  <2>7. Keeps(Q, p, done[p], pc[p], comm[p], communicator_map[p])
    BY <1>6, <1>7, <1>10, <1>12, <2>1, <2>4, <2>5, <2>6 DEF Keeps
  <2>8. QED
    BY <2>3, <2>7
<1>14. Places'
  BY <1>3, <1>13 DEF Places
<1>15. ASSUME NEW c \in Comm, Born(Q, n + 1, c)
       PROVE  /\ ~ Known(P, c) /\ \A p \in Process : sent[c][p] = << >> /\ comm[p] # c
              /\ \A p \in Process : ~ HasId(c, done[p], pc[p], comm[p])
  <2>1. ~ Known(P, c) /\ c[1] = n + 1
    BY <1>10, <1>15 DEF Born
  <2>2. \A p \in Process : sent[c][p] = << >>
    BY <1>1, <2>1 DEF CommInv, SentAlike
  <2>3. ASSUME NEW p \in Process, comm[p] = c PROVE FALSE
    BY <1>1, <2>1, <2>3, Acting, CommIs
  <2>4. \A p \in Process : ~ HasId(c, done[p], pc[p], comm[p])
    BY <1>7, <2>1, <2>3 DEF HasId
  <2>5. QED
    BY <2>1, <2>2, <2>3, <2>4
<1>16. ASSUME NEW c \in Comm
       PROVE  \E f, g :
                /\ Tally(Q, c, f, g)
                /\ Known(Q, c) => \A p \in MembersIn(Q, c) :
                     /\ Counted(Q, p, done[p], pc[p], comm[p], communicator_map[p], c, f, sent[c][p])
                     /\ Said(sent[c][p], g)
  <2>1. PICK f, g : /\ Tally(P, c, f, g)
                    /\ Known(P, c) => \A p \in MembersIn(P, c) :
                         /\ Counted(P, p, done[p], pc[p], comm[p], communicator_map[p], c, f, sent[c][p])
                         /\ Said(sent[c][p], g)
    BY <1>1 DEF CommInv, SentAlike
  <2>2. PICK f2, g2 : /\ Tally(Q, c, f2, g2)
                      /\ \A j \in 0 .. n : f2[j] = f[j]
                      /\ \A i \in 1 .. f[n] : g2[i] = g[i]
    BY <1>4, <1>5, <1>6, <2>1, LongerTally
  <2>3. ASSUME NEW p \in Process, Known(Q, c), p \in MembersIn(Q, c), Turn(Q, p, done[p], n + 1)
        PROVE  Within(Q, n + 1, c, pc[p], comm[p], communicator_map[p]) = 0
    <3>1. \A j \in 1 .. n : ~ Turn(P, p, done[p], j)
      <4>1. n + 1 \notin 1 .. n
        OBVIOUS
      <4>2. QED
        BY <1>12, <2>3, <4>1
    <3>2. pc[p] = "idle"
      BY <1>6, <1>7, <3>1 DEF Place
    <3>3. LiveAt(Q, n, c) => Held(communicator_map[p], c)
      <4>1. SUFFICES ASSUME LiveAt(Q, n, c) PROVE Held(communicator_map[p], c)
        OBVIOUS
      <4>2. LiveAt(Q, done[p], c)
        <5>1. done[p] \in 0 .. Len(Q) /\ (n + 1) - 1 = n
          BY <1>6, <1>7
        <5>2. QED
          BY <1>5, <2>3, <4>1, <5>1, UpToTurn
      <4>3. LiveAt(P, done[p], c)
        BY <1>7, <1>11, <4>2
      <4>4. p \in MembersIn(P, c)
        BY <1>10, <2>3, <4>3 DEF LiveAt
      <4>5. QED
        BY <1>6, <1>7, <3>1, <4>3, <4>4 DEF Keeps
    <3>4. (n + 1) - 1 = n
      OBVIOUS
    <3>5. QED
      BY <1>5, <1>13, <2>3, <3>2, <3>3, <3>4, WithinIs
  <2>4. ASSUME NEW p \in MembersIn(Q, c), Known(P, c)
        PROVE  /\ Counted(Q, p, done[p], pc[p], comm[p], communicator_map[p], c, f2, sent[c][p])
               /\ Said(sent[c][p], g2)
    <3>1. p \in MembersIn(P, c) /\ p \in Process /\ Known(Q, c)
      BY <1>1, <1>10, <2>4, SentOf
    <3>2. Counted(P, p, done[p], pc[p], comm[p], communicator_map[p], c, f, sent[c][p]) /\ Said(sent[c][p], g)
      BY <2>1, <2>4, <3>1
    <3>3. Len(sent[c][p]) <= f[n] /\ f[n] \in Nat /\ f[done[p]] \in Nat
      BY <1>4, <1>6, <1>7, <2>1, <2>4, <3>1, <3>2, NoMoreThanCalls
    <3>4. Len(sent[c][p]) \in Nat
      BY <1>1, <2>4, <3>1, SentOf
    <3>5. Said(sent[c][p], g2)
      BY <2>2, <3>2, <3>3, <3>4 DEF Said
    <3>6. f2[done[p]] = f[done[p]]
      BY <1>7, <2>2, <3>1
    <3>7. ASSUME NEW k \in 1 .. n + 1, Turn(Q, p, done[p], k)
          PROVE  Len(sent[c][p]) = f2[done[p]] + Within(Q, k, c, pc[p], comm[p], communicator_map[p])
      <4>1. CASE k \in 1 .. n /\ Turn(P, p, done[p], k)
        BY <1>6, <1>11, <3>2, <3>6, <4>1 DEF Counted
      <4>2. CASE k = n + 1 /\ \A j \in 1 .. n : ~ Turn(P, p, done[p], j)
        <5>1. Within(Q, k, c, pc[p], comm[p], communicator_map[p]) = 0
          BY <2>3, <2>4, <3>1, <3>7, <4>2
        <5>2. Len(sent[c][p]) = f[done[p]]
          BY <1>6, <3>2, <4>2 DEF Counted
        <5>3. QED
          BY <3>3, <3>6, <5>1, <5>2
      <4>3. QED
        BY <1>12, <3>1, <3>7, <4>1, <4>2
    <3>8. (\A k \in 1 .. n + 1 : ~ Turn(Q, p, done[p], k)) => Len(sent[c][p]) = f2[done[p]]
      <4>1. SUFFICES ASSUME \A k \in 1 .. n + 1 : ~ Turn(Q, p, done[p], k)
                     PROVE  Len(sent[c][p]) = f2[done[p]]
        OBVIOUS
      <4>2. \A k \in 1 .. n : k \in 1 .. n + 1
        OBVIOUS
      <4>3. \A k \in 1 .. n : ~ Turn(P, p, done[p], k)
        BY <1>12, <3>1, <4>1, <4>2
      <4>4. QED
        BY <1>6, <3>2, <3>6, <4>3 DEF Counted
    <3>9. QED
      BY <1>6, <3>5, <3>7, <3>8 DEF Counted
  <2>5. ASSUME NEW p \in MembersIn(Q, c), Known(Q, c), Born(Q, n + 1, c)
        PROVE  /\ Counted(Q, p, done[p], pc[p], comm[p], communicator_map[p], c, f2, sent[c][p])
               /\ Said(sent[c][p], g2)
    <3>1. p \in Process
      BY <1>5, <2>5, MembersAre
    <3>2. sent[c][p] = << >> /\ c[1] = n + 1
      BY <1>15, <2>5, <3>1 DEF Born
    <3>3. Len(sent[c][p]) = 0 /\ Said(sent[c][p], g2)
      BY <3>2 DEF Said
    <3>4. f2[done[p]] = 0
      BY <1>6, <1>7, <2>2, <3>1, <3>2 DEF Tally
    <3>5. ASSUME NEW k \in 1 .. n + 1, Turn(Q, p, done[p], k)
          PROVE  Within(Q, k, c, pc[p], comm[p], communicator_map[p]) = 0
      <4>1. CASE k = n + 1
        BY <2>3, <2>5, <3>1, <3>5, <4>1
      <4>2. CASE k # n + 1
        <5>1. k \in 0 .. n + 1 /\ k - 1 \in 0 .. n + 1 /\ k < c[1] /\ k - 1 < c[1]
          BY <3>2, <4>2
        <5>2. f2[k] = 0 /\ f2[k - 1] = 0 /\ f2[k] = f2[k - 1] + Takes(Q, k, c)
          BY <1>6, <2>2, <5>1 DEF Tally
        <5>3. Takes(Q, k, c) = 0
          BY <5>2, TakesAre
        <5>4. Within(Q, k, c, pc[p], comm[p], communicator_map[p]) \in 0 .. 0
          BY <1>5, <1>13, <2>5, <3>1, <3>5, <5>3, WithinIs
        <5>5. QED
          BY <5>4
      <4>3. QED
        BY <4>1, <4>2
    <3>6. QED
      BY <1>6, <3>3, <3>4, <3>5 DEF Counted
  <2>6. QED
    BY <1>10, <2>2, <2>4, <2>5
<1>17. SentAlike'
  BY <1>1, <1>3, <1>10, <1>16 DEF SentAlike, CommInv
<1>18. Met'
  <2>1. ASSUME NEW c \in Comm, Known(Q, c), NEW p \in MembersIn(Q, c), NEW q \in MembersIn(Q, c)
        PROVE  Left(c, comm[q], sent[c][q]) <= Len(sent[c][p])
    <3>1. CASE Known(P, c)
      BY <1>1, <1>10, <2>1, <3>1 DEF CommInv, Met
    <3>2. CASE Born(Q, n + 1, c)
      <4>1. p \in Process /\ q \in Process
        BY <1>5, <2>1, MembersAre
      <4>2. sent[c][p] = << >> /\ sent[c][q] = << >>
        BY <1>15, <3>2, <4>1
      <4>3. Len(sent[c][q]) = 0 /\ Len(sent[c][p]) = 0
        BY <4>2
      <4>4. QED
        BY <4>3, LeftIs
    <3>3. QED
      BY <1>10, <2>1, <3>1, <3>2
  <2>2. QED
    BY <1>3, <2>1 DEF Met
<1>19. IdsAgree'
  <2>1. ASSUME NEW c \in Comm, Known(Q, c), NEW q \in MembersIn(Q, c), HasId(c, done[q], pc[q], comm[q])
        PROVE  Known(P, c) /\ MembersIn(Q, c) = MembersIn(P, c)
    <3>1. q \in Process
      BY <1>5, <2>1, MembersAre
    <3>2. QED
      BY <1>10, <1>15, <2>1, <3>1
  <2>2. QED
    BY <1>1, <1>3, <2>1 DEF IdsAgree, CommInv
<1>20. DirsKeptOf'
  <2>1. \A p \in Process : \A i \in DOMAIN communicator_map[p] :
          Keeper(Q, p, communicator_map[p][i]) <=> Keeper(P, p, communicator_map[p][i])
    BY <1>7, <1>10 DEF Keeps, Keeper
  <2>2. QED
    BY <1>1, <1>3, <2>1 DEF DirsKeptOf, CommInv
<1>21. QED
  BY <1>8, <1>9, <1>14, <1>17, <1>18, <1>19, <1>20 DEF CommInv

-----------------------------------------------------------------------------
(***************************************************************************)
(* The invariant holds, and what it says of the properties.                *)
(***************************************************************************)
\* The application has made no call.
LEMMA CommInit == Init => CommInv
<1>1. SUFFICES ASSUME Init PROVE CommInv
  OBVIOUS
<1>2. program = << >> /\ Len(program) = 0 /\ live = {} /\ dirs = {}
  BY <1>1 DEF Init
<1>3. /\ done = [p \in Process |-> 0] /\ pc = [p \in Process |-> "idle"]
      /\ comm = [p \in Process |-> NoComm] /\ communicator_map = [p \in Process |-> << >>]
      /\ sent = [c \in Comm |-> [p \in Process |-> << >>]]
      /\ comm_id = [c \in Comm |-> [p \in Process |-> 0]]
  BY <1>1 DEF Init
<1>4. \A c, k : ~ Known(program, c) /\ ~ LiveAt(program, k, c)
  BY <1>2 DEF Known, LiveAt
<1>5. \A p \in Process : DOMAIN communicator_map[p] = {}
  BY <1>3
<1>6. Types
  <2>1. << >> \in Seq(Collectives)
    OBVIOUS
  <2>2. sent \in [Comm -> [Process -> Seq(Collectives)]]
    BY <1>3, <2>1
  <2>3. done \in [Process -> Nat] /\ pc \in [Process -> States] /\ comm \in [Process -> Comm \cup {NoComm}]
    BY <1>3 DEF States
  <2>4. comm_id \in [Comm -> [Process -> Nat]]
    BY <1>3
  <2>5. DOMAIN communicator_map = Process
    BY <1>3
  <2>6. QED
    BY <2>2, <2>3, <2>4, <2>5 DEF Types
<1>7. Programs
  <2>1. program \in Seq(CallSet) /\ Len(program) <= MaxOps /\ \A k \in 1 .. Len(program) : FALSE
    BY <1>2, MaxOpsAssumption
  <2>2. QED
    BY <1>2, <1>4, <2>1 DEF Programs, IsProgram
<1>8. Places
  <2>1. ASSUME NEW p \in Process
        PROVE  /\ Place(program, p, done[p], pc[p], comm[p])
               /\ Keeps(program, p, done[p], pc[p], comm[p], communicator_map[p])
    <3>1. done[p] = 0 /\ pc[p] = "idle" /\ comm[p] = NoComm
      BY <1>3
    <3>2. Place(program, p, done[p], pc[p], comm[p])
      BY <1>2, <3>1 DEF Place
    <3>3. QED
      BY <1>4, <1>5, <3>1, <3>2 DEF Keeps
  <2>2. QED
    BY <2>1 DEF Places
<1>9. Named
  BY <1>5 DEF Named
<1>10. SentAlike
  <2>1. ASSUME NEW c \in Comm
        PROVE  \E f, g : Tally(program, c, f, g)
    <3> DEFINE f == [j \in 0 .. MaxOps |-> 0]
    <3>1. f \in [0 .. MaxOps -> Nat] /\ f[0] = 0
      BY MaxOpsAssumption
    <3>2. \A j \in 0 .. Len(program) : j = 0
      BY <1>2
    <3>3. \A k \in 1 .. Len(program) : FALSE
      BY <1>2
    <3> HIDE DEF f
    <3>4. Tally(program, c, f, f)
      BY <3>1, <3>2, <3>3 DEF Tally
    <3>5. QED
      BY <3>4
  <2>2. \A c \in Comm : \A p \in Process : sent[c][p] = << >>
    BY <1>3
  <2>3. QED
    BY <1>4, <2>1, <2>2 DEF SentAlike
<1>11. Met /\ IdsAgree
  BY <1>4 DEF Met, IdsAgree
<1>12. DirsKeptOf
  BY <1>2, <1>5 DEF DirsKeptOf
<1>13. QED
  BY <1>6, <1>7, <1>8, <1>9, <1>10, <1>11, <1>12 DEF CommInv

\* Each step of a process keeps the invariant.
LEMMA StepKeeps ==
  ASSUME CommInv, NEW p \in Process, Step(p)
  PROVE  CommInv'
<1>1. ~ Disagreement(p)
  BY NoDisagreement
<1>2. \/ Join(p) \/ Joined(p) \/ Negotiated(p) \/ Settled(p)
      \/ DestroyOne(p) \/ DestroyNext(p) \/ Destroyed(p)
  BY <1>1 DEF Step
<1>3. CASE Join(p)
  BY <1>3, JoinKeeps
<1>4. CASE Joined(p)
  BY <1>4, JoinedKeeps
<1>5. CASE Negotiated(p)
  BY <1>5, NegotiatedKeeps
<1>6. CASE Settled(p)
  BY <1>6, SettledKeeps
<1>7. CASE DestroyOne(p)
  BY <1>7, DestroyOneKeeps
<1>8. CASE DestroyNext(p)
  BY <1>8, DestroyNextKeeps
<1>9. CASE Destroyed(p)
  BY <1>9, DestroyedKeeps
<1>10. QED
  BY <1>2, <1>3, <1>4, <1>5, <1>6, <1>7, <1>8, <1>9

\* So does each call of the application; it names communicators that exist.
LEMMA CommNext == CommInv /\ [Next]_vars => CommInv'
<1>1. SUFFICES ASSUME CommInv, [Next]_vars PROVE CommInv'
  OBVIOUS
<1>2. ASSUME NEW c \in live
      PROVE  /\ c \in Comm /\ LiveAt(program, Len(program), c)
             /\ Members(c) = MembersIn(program, c) /\ MembersIn(program, c) \subseteq Process
  <2>1. c \in Comm /\ LiveAt(program, Len(program), c) /\ IsProgram(program)
    BY <1>1 DEF CommInv, Programs
  <2>2. Known(program, c)
    BY <2>1 DEF LiveAt
  <2>3. MembersIn(program, c) \subseteq Process /\ MembersIn(program, c) # {}
    BY <2>1, <2>2, MembersAre
  <2>4. PICK p \in Process : p \in MembersIn(program, c)
    BY <2>3
  <2>5. QED
    BY <1>1, <2>1, <2>2, <2>3, <2>4, Words
<1>3. ASSUME NEW group \in Groups, Issue(Create(group)) PROVE CommInv'
  <2>1. PICK call : call = Create(group)
    OBVIOUS
  <2>2. call \in CallSet /\ call.op = "create"
    BY <2>1 DEF Create, CallSet
  <2>3. QED
    BY <1>1, <1>3, <2>1, <2>2, IssueKeeps
<1>4. ASSUME NEW c \in live, NEW plan \in [Members(c) -> Color \cup {NoColor}], Issue(Split(c, plan))
      PROVE  CommInv'
  <2>1. PICK call : call = Split(c, plan)
    OBVIOUS
  <2>2. plan \in Plans /\ plan \in [MembersIn(program, c) -> Color \cup {NoColor}]
    BY <1>2 DEF Plans
  <2>3. call.op = "split" /\ call.parent = c /\ call.plan = plan
    BY <2>1 DEF Split
  <2>4. call \in CallSet
    BY <1>2, <2>1, <2>2 DEF Split, CallSet
  <2>5. QED
    BY <1>1, <1>2, <1>4, <2>1, <2>2, <2>3, <2>4, IssueKeeps
<1>5. ASSUME NEW c \in live, Issue(Destroy(c)) PROVE CommInv'
  <2>1. PICK call : call = Destroy(c)
    OBVIOUS
  <2>2. call.op = "destroy" /\ call.comm = c
    BY <2>1 DEF Destroy
  <2>3. call \in CallSet
    BY <1>2, <2>1 DEF Destroy, CallSet
  <2>4. QED
    BY <1>1, <1>2, <1>5, <2>1, <2>2, <2>3, IssueKeeps
<1>6. ASSUME Issue(DestroyAll) PROVE CommInv'
  <2>1. PICK call : call = DestroyAll
    OBVIOUS
  <2>2. call \in CallSet /\ call.op = "destroy_all"
    BY <2>1 DEF DestroyAll, CallSet
  <2>3. QED
    BY <1>1, <1>6, <2>1, <2>2, IssueKeeps
<1>7. ASSUME NEW p \in Process, Step(p) PROVE CommInv'
  BY <1>1, <1>7, StepKeeps
<1>8. CASE UNCHANGED vars
  BY <1>1, <1>8 DEF CommInv, Types, Programs, Places, Named, SentAlike, Met, IdsAgree, DirsKeptOf, vars
<1>9. CASE Finished
  BY <1>8, <1>9 DEF Finished
<1>10. QED
  BY <1>1, <1>3, <1>4, <1>5, <1>6, <1>7, <1>8, <1>9 DEF Next

\* A communicator in a map has its id, and members that have the id have the same.
LEMMA MapsAgreeByInv == CommInv => MapsAgree
<1>1. SUFFICES ASSUME CommInv, NEW p \in Process, NEW c \in Comm
               PROVE  /\ \A n \in DOMAIN communicator_map[p] :
                           communicator_map[p][n] = c =>
                             /\ p \in Members(c)
                             /\ \A q \in Members(c) : Holds(q, c) => comm_id[c][q] = n
                      /\ comm[p] = c /\ pc[p] \in {"settling", "destroying"} => Holds(p, c)
  BY DEF MapsAgree
<1>2. ASSUME NEW q \in Process, NEW n \in DOMAIN communicator_map[q], communicator_map[q][n] = c
      PROVE  /\ Known(program, c) /\ q \in MembersIn(program, c) /\ comm_id[c][q] = n
             /\ HasId(c, done[q], pc[q], comm[q])
  <2>1. Keeps(program, q, done[q], pc[q], comm[q], communicator_map[q])
    BY <1>1, Acting
  <2>2. Known(program, c) /\ q \in MembersIn(program, c)
        /\ (LiveAt(program, done[q], c) \/ (pc[q] = "settling" /\ comm[q] = c))
    BY <1>2, <2>1 DEF Keeps
  <2>3. HasId(c, done[q], pc[q], comm[q])
    BY <2>2 DEF HasId, LiveAt
  <2>4. comm_id[c][q] = n
    BY <1>1, <1>2 DEF CommInv, Named
  <2>5. QED
    BY <2>2, <2>3, <2>4
<1>3. ASSUME NEW n \in DOMAIN communicator_map[p], communicator_map[p][n] = c
      PROVE  p \in Members(c) /\ \A q \in Members(c) : Holds(q, c) => comm_id[c][q] = n
  <2>1. /\ Known(program, c) /\ p \in MembersIn(program, c) /\ comm_id[c][p] = n
        /\ HasId(c, done[p], pc[p], comm[p])
    BY <1>2, <1>3
  <2>2. Members(c) = MembersIn(program, c)
    BY <1>1, <2>1, Words
  <2>3. ASSUME NEW q \in MembersIn(program, c), Holds(q, c) PROVE comm_id[c][q] = n
    <3>1. q \in Process
      BY <1>1, <2>1, SentOf
    <3>2. HasId(c, done[q], pc[q], comm[q])
      BY <1>2, <2>3, <3>1 DEF Holds
    <3>3. QED
      BY <1>1, <2>1, <3>2 DEF CommInv, IdsAgree
  <2>4. QED
    BY <2>1, <2>2, <2>3
<1>4. comm[p] = c /\ pc[p] \in {"settling", "destroying"} => Holds(p, c)
  BY <1>1, Acting DEF Keeps, Held, Holds
<1>5. QED
  BY <1>3, <1>4

\* A process that is aborted is nowhere in its program.
LEMMA NoAbortByInv == CommInv => NoAbort
BY Acting DEF NoAbort

\* The directories, when no call is under way.
LEMMA DirsMatchByInv == CommInv => DirsMatch
<1>1. SUFFICES ASSUME CommInv, \A p \in Process : pc[p] = "idle" /\ Pending(p) = {}
               PROVE  dirs = {DirName(d[1], d[2], comm_id[d[1]][d[2]]) :
                                d \in {e \in live \X Process : e[2] \in Members(e[1]) /\ IsIntraNode(e[1])}}
  BY DEF DirsMatch
<1>2. IsProgram(program) /\ Len(program) \in Nat
  BY <1>1, CallsAre DEF CommInv, Programs
<1>3. ASSUME NEW p \in Process
      PROVE  \A k : ~ Turn(program, p, done[p], k)
  BY <1>1, <1>3, Words
<1>4. ASSUME NEW c, Known(program, c), NEW p \in MembersIn(program, c)
      PROVE  p \in Process /\ (LiveAt(program, done[p], c) <=> c \in live)
  <2>1. p \in Process /\ c \in Comm
    BY <1>1, <1>4, SentOf
  <2>2. done[p] \in 0 .. Len(program)
    BY <1>1, <2>1, Acting
  <2>3. \A j \in done[p] + 1 .. Len(program) : p \notin PartyIn(program, j)
    <3>1. Pending(p) = {} 
      BY <1>1, <2>1
    <3>2. \A j \in 1 .. Len(program) : Party(program[j]) = PartyIn(program, j)
      <4>1. \A j \in 1 .. Len(program) : program[j].op \in {"create", "split", "destroy", "destroy_all"}
        BY <1>2, CallsAre
      <4>2. \A e : Members(e) = MembersIn(program, e)
        BY DEF Members, MembersIn
      <4>3. QED
        BY <4>1, <4>2 DEF Party, PartyIn
    <3>3. QED
      BY <1>2, <2>2, <3>1, <3>2 DEF Pending
  <2>4. LiveAt(program, done[p], c) <=> LiveAt(program, Len(program), c)
    <3>1. Len(program) \in 0 .. Len(program) /\ done[p] <= Len(program)
      BY <1>2, <2>2
    <3>2. QED
      BY <1>2, <1>4, <2>2, <2>3, <3>1, Quiet
  <2>5. QED
    BY <1>1, <2>1, <2>4 DEF CommInv, Programs
<1>5. ASSUME NEW c \in live
      PROVE  /\ Known(program, c) /\ Members(c) = MembersIn(program, c)
             /\ \A p \in MembersIn(program, c) :
                  /\ p \in Process /\ c[1] <= done[p]
                  /\ comm_id[c][p] \in DOMAIN communicator_map[p]
                  /\ communicator_map[p][comm_id[c][p]] = c
  <2>1. c \in Comm /\ Known(program, c)
    BY <1>1 DEF CommInv, Programs, LiveAt
  <2>2. ASSUME NEW p \in MembersIn(program, c)
        PROVE  /\ p \in Process /\ c[1] <= done[p] /\ Members(c) = MembersIn(program, c)
               /\ comm_id[c][p] \in DOMAIN communicator_map[p]
               /\ communicator_map[p][comm_id[c][p]] = c
    <3>1. p \in Process /\ LiveAt(program, done[p], c)
      BY <1>4, <2>1
    <3>2. Held(communicator_map[p], c)
      BY <1>1, <1>3, <3>1, Acting DEF Keeps
    <3>3. PICK n \in DOMAIN communicator_map[p] : communicator_map[p][n] = c
      BY <3>2 DEF Held
    <3>4. comm_id[c][p] = n
      BY <1>1, <2>1, <3>1, <3>3 DEF CommInv, Named
    <3>5. QED
      BY <1>1, <2>1, <3>1, <3>3, <3>4, Words DEF LiveAt
  <2>3. MembersIn(program, c) # {}
    BY <1>2, <2>1, MembersAre
  <2>4. QED
    BY <2>1, <2>2, <2>3
<1>6. ASSUME NEW c \in live, NEW p \in Members(c), IsIntraNode(c)
      PROVE  DirName(c, p, comm_id[c][p]) \in dirs
  <2>1. /\ Known(program, c) /\ Members(c) = MembersIn(program, c) /\ Members(c) \subseteq Process
        /\ c \in Comm
    BY <1>1, <1>5, SentOf
  <2>2. {q \in Members(c) : HostOf[q] = HostOf[p]} = Members(c)
    BY <1>6 DEF IsIntraNode
  <2>3. Members(c) \in SUBSET Nat /\ Members(c) # {}
    BY <1>6, <2>1, ProcessAssumption
  <2>4. PICK k : k = Min(Members(c)) /\ k \in Members(c)
    BY <2>3, LeastIs
  <2>5. {q \in Members(c) : HostOf[q] = HostOf[k]} = Members(c) /\ HostOf[k] = HostOf[p]
    BY <1>6, <2>4 DEF IsIntraNode
  <2>6. Keeper(program, k, c)
    BY <1>6, <2>1, <2>4, <2>5 DEF Keeper, IsIntraNode
  <2>7. DirName(c, p, comm_id[c][p]) = <<HostOf[p], comm_id[c][p], k>>
    BY <2>2, <2>4 DEF DirName, FirstOnHost
  <2>8. comm_id[c][p] = comm_id[c][k]
    <3>1. HasId(c, done[p], pc[p], comm[p]) /\ HasId(c, done[k], pc[k], comm[k])
      BY <1>5, <1>6, <2>1, <2>4 DEF HasId
    <3>2. QED
      BY <1>1, <1>6, <2>1, <2>4, <3>1 DEF CommInv, IdsAgree
  <2>9. comm_id[c][k] \in DOMAIN communicator_map[k] /\ communicator_map[k][comm_id[c][k]] = c
        /\ k \in Process
    BY <1>5, <2>1, <2>4
  <2>10. <<HostOf[k], comm_id[c][k], k>> \in dirs
    BY <1>1, <2>6, <2>9 DEF CommInv, DirsKeptOf
  <2>11. QED
    BY <2>5, <2>7, <2>8, <2>10
<1>7. ASSUME NEW dir \in dirs
      PROVE  \E c \in live : \E p \in Process :
               p \in Members(c) /\ IsIntraNode(c) /\ dir = DirName(c, p, comm_id[c][p])
  <2>1. PICK p \in Process : \E n \in DOMAIN communicator_map[p] :
          Keeper(program, p, communicator_map[p][n]) /\ dir = <<HostOf[p], n, p>>
    BY <1>1, <1>7 DEF CommInv, DirsKeptOf
  <2>2. PICK n \in DOMAIN communicator_map[p] :
          Keeper(program, p, communicator_map[p][n]) /\ dir = <<HostOf[p], n, p>>
    BY <2>1
  <2>3. PICK c : c = communicator_map[p][n]
    OBVIOUS
  <2>4. Known(program, c) /\ p \in MembersIn(program, c) /\ LiveAt(program, done[p], c)
    BY <1>1, <2>2, <2>3, Acting DEF Keeps
  <2>5. c \in live /\ Members(c) = MembersIn(program, c) /\ c \in Comm
    BY <1>1, <1>4, <2>4, Words, SentOf
  <2>6. comm_id[c][p] = n
    BY <1>1, <2>2, <2>3, <2>5 DEF CommInv, Named
  <2>7. IsIntraNode(c)
    BY <2>2, <2>3, <2>5 DEF Keeper, IsIntraNode
  <2>8. DirName(c, p, n) = <<HostOf[p], n, p>>
    BY <1>1, <2>2, <2>3, <2>4, DirIs
  <2>9. QED
    BY <2>2, <2>4, <2>5, <2>6, <2>7, <2>8
<1>8. ASSUME NEW d \in {e \in live \X Process : e[2] \in Members(e[1]) /\ IsIntraNode(e[1])}
      PROVE  DirName(d[1], d[2], comm_id[d[1]][d[2]]) \in dirs
  BY <1>6, <1>8
<1>9. ASSUME NEW dir \in dirs
      PROVE  \E d \in {e \in live \X Process : e[2] \in Members(e[1]) /\ IsIntraNode(e[1])} :
               dir = DirName(d[1], d[2], comm_id[d[1]][d[2]])
  <2>1. PICK c \in live, p \in Process :
               p \in Members(c) /\ IsIntraNode(c) /\ dir = DirName(c, p, comm_id[c][p])
    BY <1>7, <1>9
  <2>2. PICK d : d = <<c, p>>
    OBVIOUS
  <2>3. d \in live \X Process /\ d[1] = c /\ d[2] = p
    BY <2>2
  <2>4. QED
    BY <2>1, <2>3
<1>10. QED
  BY <1>8, <1>9

\* CommInv holds always, for any processes, hosts, groups and colors and every program:
\* where a process is, what its map holds, what it has entered of each communicator and
\* which directories exist follow from the calls it has made, and members of a
\* communicator are at most one collective apart.
THEOREM CommInvariance == Spec => []CommInv
BY CommInit, CommNext, PTL DEF Spec

\* All members of a communicator know it by the same id, under which their maps hold it
\* until they destroy it: insert() never meets an occupied key, although the maps of
\* the members differ and each makes its calls at its own speed.
THEOREM MapsAgreeAlways == Spec => []MapsAgree
BY CommInvariance, MapsAgreeByInv, PTL

\* No WHOLEGRAPH_CHECK of create_communicator, split_communicator and the destruction
\* fails: processes that meet in a collective of a communicator mean the same one, a
\* new directory does not exist yet and one to be removed still does.
THEOREM NoAbortEver == Spec => []NoAbort
BY CommInvariance, NoAbortByInv, PTL

\* When no call is under way, the temporary directories are exactly those of the
\* communicators that exist: maybe_create_temp_dir and maybe_remove_temp_dir are called
\* at the same process, with the same name.
THEOREM DirsMatchAlways == Spec => []DirsMatch
BY CommInvariance, DirsMatchByInv, PTL

-----------------------------------------------------------------------------
(***************************************************************************)
(* Collectives on host memory.                                             *)
(***************************************************************************)
\* The elements that are moved in turn t of call n, and how many of them at once.
CountAt(n, t) == calls[n].counts[IF calls[n].op = "allgatherv" THEN t ELSE calls[n].root]
MaxAt(n)      == IF calls[n].op \in SideBySide THEN PerRank ELSE PerRank * NumRanks

\* A piece begins with element o of turn t of call n.
IsPiece(n, t, o) ==
  /\ calls[n].op # "allgatherv" => t = 0
  /\ \E m \in 0 .. o : o = m * MaxAt(n)

\* Rank r is past the collective that moves this piece.
IsPast(r, n, t, o) ==
  \/ n < call_no[r]
  \/ n = call_no[r] /\ t < turn[r]
  \/ n = call_no[r] /\ t = turn[r] /\ o < offset[r]
  \/ n = call_no[r] /\ t = turn[r] /\ o = offset[r] /\ host_pc[r] = "out"

HostTypes ==
  /\ calls \in HostPrograms
  /\ call_no \in [Peer -> Nat \ {0}] /\ \A r \in Peer : call_no[r] <= Len(calls) + 1
  /\ host_pc \in [Peer -> {"copy", "in", "out"}]
  /\ turn \in [Peer -> Peer] /\ offset \in [Peer -> Nat]
  /\ DOMAIN send_buffer = Peer /\ send_buffer = [r \in Peer |-> send_buffer[r]]
  /\ DOMAIN recv_buffer = Peer /\ recv_buffer = [r \in Peer |-> recv_buffer[r]]

\* A rank in a call is at one of its pieces, or behind them.
AtPiece(r) ==
  /\ ~ InCall(r) => host_pc[r] = "copy" /\ turn[r] = 0 /\ offset[r] = 0
  /\ InCall(r) => /\ IsPiece(call_no[r], turn[r], offset[r])
                  /\ host_pc[r] # "copy" => offset[r] < CountOf(r)

\* The ranks have passed the same collectives.
PastAlike ==
  \A n \in DOMAIN calls : \A t \in Peer : \A o \in 0 .. CountAt(n, t) - 1 :
    IsPiece(n, t, o) => \A r, q \in Peer : IsPast(r, n, t, o) => IsPast(q, n, t, o)

\* A rank that does not keep what a collective leaves with it.
Leaves(r) == ~ (Op(r) \in {"reduce", "gather"} /\ r # Root(r))

\* The piece of a rank is in its buffer, from where NCCL takes it, ...
SendSize(r) == IF Op(r) = "alltoall" THEN NumRanks * EltCount(r) ELSE EltCount(r)

SentRight(r) ==
  host_pc[r] = "in" =>
    \A j \in 0 .. SendSize(r) - 1 : send_buffer[r][j] = Sent(call_no[r], r, offset[r] + j)

\* ... what NCCL left in the other is what belongs where it is copied to, ...
TakenSize(r) == IF Op(r) \in SideBySide THEN NumRanks * EltCount(r) ELSE EltCount(r)

TakenRight(r) ==
  host_pc[r] = "out" /\ Leaves(r) =>
    \A k \in 0 .. TakenSize(r) - 1 :
      recv_buffer[r][k] = Promised(call_no[r], r)[Displacement(r) + offset[r] + k]

\* ... and the pieces moved so far are there.
Kept(r) ==
  IF ~ InCall(r) THEN {}
  ELSE IF ~ Leaves(r) THEN {}
  ELSE IF Op(r) \in SideBySide
       THEN IF offset[r] = 0 THEN {} ELSE 0 .. (NumRanks * CountOf(r)) - 1
       ELSE 0 .. Displacement(r) + (IF offset[r] < CountOf(r) THEN offset[r] ELSE CountOf(r)) - 1

KeptRight == recvbuff = [r \in Peer |-> [j \in Kept(r) |-> Promised(call_no[r], r)[j]]]

\* What the calls before have left stays.
Outcomes == {Promised(n, r) : n \in DOMAIN calls, r \in Peer}

ResultsRight ==
  /\ results \in [Peer -> Seq(Outcomes)]
  /\ \A r \in Peer : /\ Len(results[r]) = call_no[r] - 1
                     /\ \A n \in 1 .. call_no[r] - 1 : results[r][n] = Promised(n, r)

HostInv ==
  /\ HostTypes /\ PastAlike /\ KeptRight /\ ResultsRight
  /\ \A r \in Peer : AtPiece(r) /\ SentRight(r) /\ TakenRight(r)

-----------------------------------------------------------------------------
\* What a call is.
LEMMA CallTypes ==
  ASSUME calls \in HostPrograms, NEW n \in DOMAIN calls
  PROVE  /\ Len(calls) \in Nat /\ DOMAIN calls = 1 .. Len(calls)
         /\ calls[n].op \in HostOps /\ calls[n].root \in Peer
         /\ calls[n].counts \in [Peer -> Nat]
         /\ calls[n].op # "allgatherv" =>
              \A r, s \in Peer : calls[n].counts[r] = calls[n].counts[s]
         /\ calls[n].op \in SideBySide => \A r \in Peer : calls[n].counts[r] <= PerRank
         /\ NumRanks \in Nat \ {0} /\ 0 \in Peer /\ NumRanks - 1 \in Peer
         /\ MaxAt(n) \in Nat \ {0}
         /\ \A t \in Peer : CountAt(n, t) \in Nat
<1>1. /\ calls \in Seq([op : HostOps, root : Peer, counts : [Peer -> Nat]])
      /\ calls[n].op # "allgatherv" =>
           \A r, s \in Peer : calls[n].counts[r] = calls[n].counts[s]
      /\ calls[n].op \in SideBySide => \A r \in Peer : calls[n].counts[r] <= PerRank
  BY ProgramsAssumption
<1>2. /\ Len(calls) \in Nat /\ DOMAIN calls = 1 .. Len(calls)
      /\ calls[n] \in [op : HostOps, root : Peer, counts : [Peer -> Nat]]
  <2>1. PICK S : S = [op : HostOps, root : Peer, counts : [Peer -> Nat]]
    OBVIOUS
  <2>2. calls \in Seq(S)
    BY <1>1, <2>1
  <2>3. Len(calls) \in Nat /\ DOMAIN calls = 1 .. Len(calls) /\ calls[n] \in S
    BY <2>2
  <2>4. QED
    BY <2>1, <2>3
<1>3. calls[n].op \in HostOps /\ calls[n].root \in Peer /\ calls[n].counts \in [Peer -> Nat]
  BY <1>2
<1>4. NumRanks \in Nat \ {0} /\ PerRank \in Nat \ {0}
  BY SizesAssumption
<1>5. 0 \in Peer /\ NumRanks - 1 \in Peer
  BY <1>4 DEF Peer
<1>6. PerRank * NumRanks \in Nat \ {0}
  BY <1>4, Z3
<1>7. MaxAt(n) \in Nat \ {0}
  BY <1>4, <1>6 DEF MaxAt
<1>8. \A t \in Peer : CountAt(n, t) \in Nat
  BY <1>3 DEF CountAt
<1>9. QED
  BY <1>1, <1>2, <1>3, <1>4, <1>5, <1>7, <1>8

\* Where a rank in a call is.
LEMMA InItsCall ==
  ASSUME HostTypes, NEW r \in Peer, InCall(r), AtPiece(r)
  PROVE  /\ call_no[r] \in DOMAIN calls /\ turn[r] \in Peer /\ offset[r] \in Nat
         /\ Op(r) = calls[call_no[r]].op /\ Op(r) \in HostOps
         /\ CountOf(r) \in Nat /\ CountOf(r) = CountAt(call_no[r], turn[r])
         /\ MaxCount(r) \in Nat \ {0} /\ MaxCount(r) = MaxAt(call_no[r])
         /\ Root(r) \in Peer
         /\ Op(r) # "allgatherv" => turn[r] = 0
         /\ IsPiece(call_no[r], turn[r], offset[r])
         /\ EltCount(r) \in Int
         /\ offset[r] < CountOf(r) => EltCount(r) \in Nat \ {0}
         /\ Op(r) \in SideBySide /\ offset[r] < CountOf(r) =>
              offset[r] = 0 /\ EltCount(r) = CountOf(r)
<1>1. call_no[r] \in DOMAIN calls
  <2>1. calls \in Seq([op : HostOps, root : Peer, counts : [Peer -> Nat]])
    BY ProgramsAssumption DEF HostTypes
  <2>2. Len(calls) \in Nat /\ DOMAIN calls = 1 .. Len(calls)
    BY <2>1
  <2>3. call_no[r] \in Nat \ {0} /\ call_no[r] <= Len(calls)
    BY DEF HostTypes, InCall
  <2>4. QED
    BY <2>2, <2>3
<1>2. PICK n \in DOMAIN calls : n = call_no[r]
  BY <1>1
<1>3. turn[r] \in Peer /\ offset[r] \in Nat /\ IsPiece(n, turn[r], offset[r])
  BY <1>2 DEF HostTypes, AtPiece
<1>4. Op(r) = calls[n].op /\ Op(r) \in HostOps
  BY <1>2, CallTypes DEF Op, CallOf, HostTypes
<1>5. CountOf(r) = CountAt(n, turn[r]) /\ CountOf(r) \in Nat /\ Root(r) \in Peer
  <2>1. CountOf(r) = CountAt(n, turn[r])
    BY <1>2, <1>4 DEF CountOf, CountAt, CallOf, Root
  <2>2. Root(r) \in Peer
    BY <1>2, <1>3, CallTypes DEF Root, CallOf, HostTypes
  <2>3. QED
    BY <1>3, <2>1, <2>2, CallTypes DEF HostTypes
<1>6. MaxCount(r) = MaxAt(n) /\ MaxCount(r) \in Nat \ {0}
  <2>1. MaxCount(r) = MaxAt(n)
    BY <1>4 DEF MaxCount, MaxAt
  <2>2. QED
    BY <2>1, CallTypes DEF HostTypes
<1>7. Op(r) # "allgatherv" => turn[r] = 0
  BY <1>3, <1>4 DEF IsPiece
<1>8. EltCount(r) \in Int /\ (offset[r] < CountOf(r) => EltCount(r) \in Nat \ {0})
  BY <1>3, <1>5, <1>6 DEF EltCount
<1>9. ASSUME Op(r) \in SideBySide, offset[r] < CountOf(r)
      PROVE  offset[r] = 0 /\ EltCount(r) = CountOf(r)
  <2>1. MaxCount(r) = PerRank /\ MaxAt(n) = PerRank /\ PerRank \in Nat
    BY <1>4, <1>9, SizesAssumption DEF MaxCount, MaxAt
  <2>2. CountOf(r) <= PerRank
    BY <1>2, <1>4, <1>5, <1>9, CallTypes DEF CountOf, CallOf, HostTypes
  <2>3. PICK m \in 0 .. offset[r] : offset[r] = m * PerRank
    BY <1>3, <2>1 DEF IsPiece
  <2>4. m = 0
    <3>1. SUFFICES ASSUME 1 <= m PROVE FALSE
      BY <1>3, <2>3
    <3>2. m \in Nat /\ 1 * PerRank <= m * PerRank
      BY <1>3, <2>1, <2>3, <3>1, Products
    <3>3. QED
      BY <1>3, <1>5, <1>9, <2>1, <2>2, <2>3, <3>2
  <2>5. offset[r] = 0
    BY <2>1, <2>3, <2>4
  <2>6. QED
    BY <1>5, <2>1, <2>2, <2>5 DEF EltCount
<1>10. QED
  BY <1>1, <1>2, <1>3, <1>4, <1>5, <1>6, <1>7, <1>8, <1>9

-----------------------------------------------------------------------------
\* THE RANKS ARE IN STEP.  A multiple is below the next one after another if it is not
\* above that one.
LEMMA NextMultiple ==
  ASSUME NEW m \in Nat, NEW k \in Nat, NEW d \in Nat \ {0},
         NEW x, x = m * d, NEW y, y = k * d
  PROVE  x < y + d <=> (x < y \/ x = y)
<1>1. x \in Nat /\ y \in Nat
  BY Z3
<1>2. CASE m <= k
  BY <1>1, <1>2, Products
<1>3. CASE k < m
  <2>1. PICK n \in Nat : n = k + 1 /\ n <= m
    BY <1>3
  <2>2. n * d <= m * d
    BY <2>1, Products
  <2>3. n * d = y + d
    BY <2>1, Z3
  <2>4. QED
    BY <1>1, <2>2, <2>3
<1>4. QED
  BY <1>2, <1>3

\* A rank that waits in a collective has not passed it, and has passed those before.
LEMMA SamePiece ==
  ASSUME HostTypes, PastAlike, NEW r \in Peer, NEW q \in Peer, InCall(r), InCall(q),
         AtPiece(r), AtPiece(q), host_pc[r] = "in", host_pc[q] = "in"
  PROVE  call_no[r] = call_no[q] /\ turn[r] = turn[q] /\ offset[r] = offset[q]
<1>1. ASSUME NEW s \in Peer, NEW u \in Peer, InCall(s), AtPiece(s), host_pc[s] = "in",
             ~ IsPast(s, call_no[s], turn[s], offset[s])
      PROVE  ~ IsPast(u, call_no[s], turn[s], offset[s])
  <2>1. PICK n \in DOMAIN calls : n = call_no[s]
    BY <1>1, InItsCall
  <2>2. PICK t \in Peer : t = turn[s]
    BY <1>1, InItsCall
  <2>3. CountAt(n, t) \in Nat /\ offset[s] \in Nat /\ offset[s] < CountAt(n, t)
        /\ IsPiece(n, t, offset[s])
    BY <1>1, <2>1, <2>2, InItsCall DEF AtPiece
  <2>4. PICK o \in 0 .. CountAt(n, t) - 1 : o = offset[s]
    BY <2>3
  <2>5. IsPast(u, n, t, o) => IsPast(s, n, t, o)
    BY <2>3, <2>4 DEF PastAlike
  <2>6. QED
    BY <1>1, <2>1, <2>2, <2>4, <2>5
<1>2. ASSUME NEW s \in Peer, host_pc[s] = "in"
      PROVE  ~ IsPast(s, call_no[s], turn[s], offset[s])
  BY <1>2 DEF IsPast, HostTypes, Peer
<1>3. /\ ~ IsPast(q, call_no[r], turn[r], offset[r])
      /\ ~ IsPast(r, call_no[q], turn[q], offset[q])
  BY <1>1, <1>2
<1>4. /\ call_no[r] \in Nat /\ call_no[q] \in Nat /\ turn[r] \in Int /\ turn[q] \in Int
      /\ offset[r] \in Nat /\ offset[q] \in Nat
  BY SizesAssumption DEF HostTypes, Peer
<1>5. QED
  BY <1>3, <1>4 DEF IsPast

\* Where the others are does not change while one rank goes on.
LEMMA StepPast ==
  ASSUME HostTypes, PastAlike, calls' = calls, NEW r \in Peer,
         \A q \in Peer \ {r} : /\ call_no'[q] = call_no[q] /\ turn'[q] = turn[q]
                               /\ offset'[q] = offset[q] /\ host_pc'[q] = host_pc[q],
         \A n \in DOMAIN calls : \A t \in Peer : \A o \in 0 .. CountAt(n, t) - 1 :
           IsPiece(n, t, o) => (IsPast(r, n, t, o)' <=> IsPast(r, n, t, o))
  PROVE  PastAlike'
<1>1. ASSUME NEW n, NEW t, NEW o
      PROVE  /\ IsPiece(n, t, o)' <=> IsPiece(n, t, o)
             /\ CountAt(n, t)' = CountAt(n, t)
             /\ \A q \in Peer \ {r} : IsPast(q, n, t, o)' <=> IsPast(q, n, t, o)
  <2>1. (IsPiece(n, t, o)' <=> IsPiece(n, t, o)) /\ CountAt(n, t)' = CountAt(n, t)
    BY DEF IsPiece, CountAt, MaxAt
  <2>2. \A q \in Peer \ {r} : IsPast(q, n, t, o)' <=> IsPast(q, n, t, o)
    BY DEF IsPast
  <2>3. QED
    BY <2>1, <2>2
<1>2. SUFFICES ASSUME NEW n \in DOMAIN calls, NEW t \in Peer, NEW o \in 0 .. CountAt(n, t) - 1,
                      IsPiece(n, t, o), NEW s \in Peer, NEW q \in Peer, IsPast(s, n, t, o)'
               PROVE  IsPast(q, n, t, o)'
  BY <1>1 DEF PastAlike
<1>3. \A u \in Peer : IsPast(u, n, t, o)' <=> IsPast(u, n, t, o)
  BY <1>1, <1>2
<1>4. IsPast(s, n, t, o) => IsPast(q, n, t, o)
  BY <1>2 DEF PastAlike
<1>5. QED
  BY <1>2, <1>3, <1>4

\* A rank passes no collective when it copies a piece in or out, when it comes to the next
\* turn, and when it returns.
LEMMA CopyInPast ==
  ASSUME HostTypes, PastAlike, NEW r \in Peer, CopyIn(r)
  PROVE  PastAlike'
<1>1. /\ calls' = calls /\ call_no' = call_no /\ turn' = turn /\ offset' = offset
      /\ host_pc[r] = "copy" /\ host_pc' = [host_pc EXCEPT ![r] = "in"]
      /\ host_pc \in [Peer -> {"copy", "in", "out"}]
  BY DEF CopyIn, HostTypes
<1>2. host_pc'[r] = "in" /\ \A q \in Peer \ {r} : host_pc'[q] = host_pc[q]
  BY <1>1
<1>3. \A n, t, o : IsPast(r, n, t, o)' <=> IsPast(r, n, t, o)
  BY <1>1, <1>2 DEF IsPast
<1>4. QED
  BY <1>1, <1>2, <1>3, StepPast

LEMMA CopyOutPast ==
  ASSUME HostTypes, PastAlike, NEW r \in Peer, InCall(r), AtPiece(r), CopyOut(r)
  PROVE  PastAlike'
<1>1. /\ calls' = calls /\ call_no' = call_no /\ turn' = turn
      /\ host_pc[r] = "out" /\ host_pc' = [host_pc EXCEPT ![r] = "copy"]
      /\ offset' = [offset EXCEPT ![r] = @ + MaxCount(r)]
      /\ host_pc \in [Peer -> {"copy", "in", "out"}] /\ offset \in [Peer -> Nat]
  BY DEF CopyOut, HostTypes
<1>2. /\ host_pc'[r] = "copy" /\ offset'[r] = offset[r] + MaxCount(r)
      /\ \A q \in Peer \ {r} : host_pc'[q] = host_pc[q] /\ offset'[q] = offset[q]
  BY <1>1
<1>3. PICK d \in Nat \ {0} : d = MaxCount(r) /\ d = MaxAt(call_no[r])
  BY InItsCall
<1>4. PICK k \in Nat : offset[r] = k * d
  <2>1. offset[r] \in Nat /\ \E m \in 0 .. offset[r] : offset[r] = m * d
    BY <1>3, InItsCall DEF IsPiece
  <2>2. QED
    BY <2>1
<1>5. ASSUME NEW n \in DOMAIN calls, NEW t \in Peer, NEW o \in 0 .. CountAt(n, t) - 1,
             IsPiece(n, t, o)
      PROVE  IsPast(r, n, t, o)' <=> IsPast(r, n, t, o)
  <2>1. CASE n = call_no[r]
    <3>1. PICK m \in Nat : o = m * d
      <4>1. \E m \in 0 .. o : o = m * d
        BY <1>3, <1>5, <2>1 DEF IsPiece
      <4>2. QED
        BY <4>1
    <3>2. PICK y : y = offset[r]
      OBVIOUS
    <3>3. o < y + d <=> (o < y \/ o = y)
      BY <1>4, <3>1, <3>2, NextMultiple
    <3>4. QED
      BY <1>1, <1>2, <1>3, <3>2, <3>3 DEF IsPast
  <2>2. CASE n # call_no[r]
    BY <1>1, <2>2 DEF IsPast
  <2>3. QED
    BY <2>1, <2>2
<1>6. QED
  BY <1>1, <1>2, <1>5, StepPast

LEMMA NextTurnPast ==
  ASSUME HostTypes, PastAlike, NEW r \in Peer, AtPiece(r), NextTurn(r)
  PROVE  PastAlike'
<1>1. /\ calls' = calls /\ call_no' = call_no /\ host_pc' = host_pc
      /\ turn' = [turn EXCEPT ![r] = @ + 1] /\ offset' = [offset EXCEPT ![r] = 0]
      /\ host_pc[r] = "copy" /\ InCall(r) /\ offset[r] >= CountOf(r)
      /\ turn \in [Peer -> Peer] /\ offset \in [Peer -> Nat]
  BY DEF NextTurn, AllMoved, HostTypes
<1>2. /\ turn'[r] = turn[r] + 1 /\ offset'[r] = 0
      /\ \A q \in Peer \ {r} : turn'[q] = turn[q] /\ offset'[q] = offset[q]
  BY <1>1
<1>3. /\ turn[r] \in Peer /\ offset[r] \in Nat /\ CountOf(r) \in Nat
      /\ CountOf(r) = CountAt(call_no[r], turn[r])
  BY <1>1, InItsCall
<1>4. ASSUME NEW n \in DOMAIN calls, NEW t \in Peer, NEW o \in 0 .. CountAt(n, t) - 1,
             IsPiece(n, t, o)
      PROVE  IsPast(r, n, t, o)' <=> IsPast(r, n, t, o)
  <2>1. t \in Int /\ turn[r] \in Int /\ o \in Int
    BY <1>3, SizesAssumption DEF Peer
  <2>2. n = call_no[r] /\ t = turn[r] => o < offset[r]
    BY <1>1, <1>3
  <2>3. 0 <= o
    OBVIOUS
  <2>4. QED
    BY <1>1, <1>2, <2>1, <2>2, <2>3 DEF IsPast
<1>5. QED
  BY <1>1, <1>2, <1>4, StepPast

LEMMA ReturnPast ==
  ASSUME HostTypes, PastAlike, NEW r \in Peer, AtPiece(r), HostReturn(r)
  PROVE  PastAlike'
<1>1. /\ calls' = calls /\ host_pc' = host_pc
      /\ call_no' = [call_no EXCEPT ![r] = @ + 1]
      /\ turn' = [turn EXCEPT ![r] = 0] /\ offset' = [offset EXCEPT ![r] = 0]
      /\ host_pc[r] = "copy" /\ InCall(r) /\ offset[r] >= CountOf(r) /\ LastTurn(r)
      /\ call_no \in [Peer -> Nat \ {0}] /\ turn \in [Peer -> Peer]
      /\ offset \in [Peer -> Nat]
  BY DEF HostReturn, AllMoved, HostTypes
<1>2. /\ call_no'[r] = call_no[r] + 1 /\ turn'[r] = 0 /\ offset'[r] = 0
      /\ \A q \in Peer \ {r} :
           call_no'[q] = call_no[q] /\ turn'[q] = turn[q] /\ offset'[q] = offset[q]
  BY <1>1
<1>3. /\ call_no[r] \in DOMAIN calls /\ call_no[r] \in Nat
      /\ turn[r] \in Peer /\ offset[r] \in Nat /\ CountOf(r) \in Nat
      /\ CountOf(r) = CountAt(call_no[r], turn[r]) /\ Op(r) = calls[call_no[r]].op
      /\ Op(r) # "allgatherv" => turn[r] = 0
  BY <1>1, InItsCall
<1>4. ASSUME NEW n \in DOMAIN calls, NEW t \in Peer, NEW o \in 0 .. CountAt(n, t) - 1,
             IsPiece(n, t, o)
      PROVE  IsPast(r, n, t, o)' <=> IsPast(r, n, t, o)
  <2>1. n \in Nat /\ t \in 0 .. NumRanks - 1 /\ turn[r] \in Int /\ o \in Int /\ 0 <= o
        /\ NumRanks \in Nat
    <3>1. n \in Nat /\ CountAt(n, t) \in Nat
      <4>1. calls \in HostPrograms
        BY DEF HostTypes
      <4>2. QED
        BY <4>1, CallTypes
    <3>2. NumRanks \in Nat
      BY SizesAssumption
    <3>3. QED
      BY <1>3, <3>1, <3>2 DEF Peer
  <2>2. n = call_no[r] => t <= turn[r]
    BY <1>1, <1>3, <1>4, <2>1 DEF LastTurn, IsPiece
  <2>3. n = call_no[r] /\ t = turn[r] => o < offset[r]
    BY <1>1, <1>3
  <2>4. IsPast(r, n, t, o)' <=> n < call_no[r] + 1
    BY <1>1, <1>2, <2>1 DEF IsPast
  <2>5. IsPast(r, n, t, o) <=> (n < call_no[r] \/ n = call_no[r])
    BY <1>1, <1>3, <2>1, <2>2, <2>3 DEF IsPast
  <2>6. QED
    BY <1>3, <2>1, <2>4, <2>5
<1>5. QED
  BY <1>1, <1>2, <1>4, StepPast

\* All ranks come out of the same collective.
LEMMA CollectivePast ==
  ASSUME HostTypes, PastAlike, \A r \in Peer : AtPiece(r), Collective
  PROVE  PastAlike'
<1>1. /\ calls' = calls /\ call_no' = call_no /\ turn' = turn /\ offset' = offset
      /\ host_pc' = [r \in Peer |-> "out"]
      /\ \A r \in Peer : InCall(r) /\ host_pc[r] = "in"
  BY DEF Collective
<1>2. \A r, q \in Peer :
        call_no[r] = call_no[q] /\ turn[r] = turn[q] /\ offset[r] = offset[q]
  BY <1>1, SamePiece
<1>3. \A r, q \in Peer : \A n, t, o : IsPast(r, n, t, o)' => IsPast(q, n, t, o)'
  BY <1>1, <1>2 DEF IsPast
<1>4. QED
  BY <1>3 DEF PastAlike

-----------------------------------------------------------------------------
\* WHAT IS DELIVERED.
LEMMA Elements ==
  ASSUME NEW counts, counts \in [Peer -> Nat]
  PROVE  /\ ElementsBefore(counts, 0) = 0
         /\ \A s \in 0 .. NumRanks : ElementsBefore(counts, s) \in Nat
         /\ \A s \in Peer : ElementsBefore(counts, s + 1) = ElementsBefore(counts, s) + counts[s]
         /\ \A s, q \in 0 .. NumRanks :
              s <= q => ElementsBefore(counts, s) <= ElementsBefore(counts, q)
         /\ \A s \in Peer : \A k \in Nat :
              ElementsBefore(counts, s) <= k /\ k < ElementsBefore(counts, s + 1)
                => FromRank(counts, k) = s
<1>0. NumRanks \in Nat \ {0}
  BY SizesAssumption
<1>1. ASSUME NEW s \in 0 .. NumRanks
      PROVE  /\ ElementsBefore(counts, s) \in Nat
             /\ s = 0 => ElementsBefore(counts, s) = 0
             /\ s # 0 => ElementsBefore(counts, s) = counts[s - 1] + ElementsBefore(counts, s - 1)
  <2>1. PICK S : S = 0 .. s - 1
    OBVIOUS
  <2>2. IsFiniteSet(S) /\ \A x \in S : counts[x] \in Nat
    <3>1. S \subseteq Peer
      BY <1>0, <2>1 DEF Peer
    <3>2. IsFiniteSet(S)
      BY <1>0, <2>1, FS_Interval
    <3>3. QED
      BY <3>1, <3>2
  <2>3. /\ SumFunctionOnSet(counts, S) \in Nat
        /\ S = {} => SumFunctionOnSet(counts, S) = 0
        /\ \A x \in S :
             SumFunctionOnSet(counts, S) = counts[x] + SumFunctionOnSet(counts, S \ {x})
    BY <2>2, Sums
  <2>4. s = 0 => S = {}
    BY <2>1
  <2>5. s # 0 => s - 1 \in S /\ S \ {s - 1} = 0 .. (s - 1) - 1
    BY <1>0, <2>1
  <2>6. QED
    BY <2>1, <2>3, <2>4, <2>5 DEF ElementsBefore
<1>2. ASSUME NEW s \in Peer
      PROVE  /\ s \in 0 .. NumRanks /\ s + 1 \in 0 .. NumRanks /\ s \in Nat /\ counts[s] \in Nat
             /\ ElementsBefore(counts, s + 1) = ElementsBefore(counts, s) + counts[s]
  <2>1. s \in 0 .. NumRanks /\ s + 1 \in 0 .. NumRanks /\ s \in Nat /\ counts[s] \in Nat
    BY <1>0 DEF Peer
  <2>2. s + 1 # 0 /\ (s + 1) - 1 = s
    BY <2>1
  <2>3. PICK z \in 0 .. NumRanks : z = s + 1
    BY <2>1
  <2>4. ElementsBefore(counts, z) = counts[s] + ElementsBefore(counts, s)
    BY <1>1, <2>2, <2>3
  <2>5. ElementsBefore(counts, s) \in Nat
    BY <1>1, <2>1
  <2>6. QED
    BY <2>1, <2>3, <2>4, <2>5
<1>3. ASSUME NEW s \in 0 .. NumRanks, NEW q \in 0 .. NumRanks, s <= q
      PROVE  ElementsBefore(counts, s) <= ElementsBefore(counts, q)
  <2> DEFINE Less(u) == ~ (ElementsBefore(counts, s) <= ElementsBefore(counts, u))
             Bad == {u \in s .. NumRanks : Less(u)}
  <2>1. SUFFICES ASSUME q \in Bad PROVE FALSE
    BY <1>0, <1>3
  <2>2. Bad \in SUBSET Nat /\ Bad # {}
    BY <1>0, <2>1
  <2>3. PICK u \in Bad : \A v \in Bad : u <= v
    BY <2>2, LeastElement
  <2>4. u # s /\ u \in 0 .. NumRanks
    BY <1>0, <1>1, <2>3
  <2>5. u - 1 \in s .. NumRanks /\ u - 1 \in Peer /\ u - 1 \notin Bad
    BY <1>0, <2>3, <2>4 DEF Peer
  <2>6. PICK v \in Peer : v = u - 1 /\ v + 1 = u
    BY <1>0, <2>4, <2>5
  <2>7. ElementsBefore(counts, s) <= ElementsBefore(counts, v)
    BY <2>5, <2>6
  <2>8. ElementsBefore(counts, u) = ElementsBefore(counts, v) + counts[v] /\ counts[v] \in Nat
    BY <1>2, <2>6
  <2>9. ElementsBefore(counts, s) \in Nat /\ ElementsBefore(counts, v) \in Nat
    BY <1>1, <1>2
  <2>10. QED
    BY <2>3, <2>7, <2>8, <2>9
<1>4. ASSUME NEW s \in Peer, NEW k \in Nat,
             ElementsBefore(counts, s) <= k, k < ElementsBefore(counts, s + 1)
      PROVE  FromRank(counts, k) = s
  <2>1. ASSUME NEW q \in Peer,
               ElementsBefore(counts, q) <= k, k < ElementsBefore(counts, q + 1)
        PROVE  q = s
    <3>1. ASSUME NEW u \in Peer, NEW v \in Peer, u < v,
                 k < ElementsBefore(counts, u + 1), ElementsBefore(counts, v) <= k
          PROVE  FALSE
      <4>1. u + 1 <= v
        BY <1>2, <3>1
      <4>2. PICK z \in 0 .. NumRanks : z = u + 1 /\ z <= v
        BY <1>2, <4>1
      <4>3. ElementsBefore(counts, z) <= ElementsBefore(counts, v)
        BY <1>2, <1>3, <4>2
      <4>4. ElementsBefore(counts, z) \in Nat /\ ElementsBefore(counts, v) \in Nat
        BY <1>1, <1>2
      <4>5. QED
        BY <3>1, <4>2, <4>3, <4>4
    <3>2. ~ (q < s) /\ ~ (s < q)
      BY <1>4, <2>1, <3>1
    <3>3. QED
      BY <1>2, <3>2
  <2>2. QED
    BY <1>4, <2>1 DEF FromRank
<1>5. 0 \in 0 .. NumRanks
  BY <1>0
<1>6. QED
  BY <1>1, <1>2, <1>3, <1>4, <1>5

\* What is promised, by the kind of the collective.
LEMMA PromisedOfAll ==
  ASSUME NEW n, NEW r, NEW c, c = calls[n], NEW m, m = c.counts[c.root],
         c.op = "allreduce" \/ (c.op = "reduce" /\ r = c.root), NEW k \in 0 .. m - 1
  PROVE  Promised(n, r)[k] = [s \in Peer |-> <<n, s, k>>]
BY DEF Promised

LEMMA PromisedOfRoot ==
  ASSUME NEW n, NEW r, NEW c, c = calls[n], NEW m, m = c.counts[c.root],
         c.op = "bcast", NEW k \in 0 .. m - 1
  PROVE  Promised(n, r)[k] = <<n, c.root, k>>
BY DEF Promised

LEMMA PromisedOfEach ==
  ASSUME NEW n, NEW r, NEW c, c = calls[n], NEW m, m = c.counts[c.root],
         c.op = "allgather" \/ (c.op = "gather" /\ r = c.root), NEW k \in 0 .. NumRanks * m - 1,
         NEW s, s = k \div m, NEW x, x = k % m
  PROVE  Promised(n, r)[k] = <<n, s, x>>
BY DEF Promised

LEMMA PromisedToAll ==
  ASSUME NEW n, NEW r, NEW c, c = calls[n], c.op = "alltoall",
         NEW m, m = c.counts[c.root], NEW k \in 0 .. NumRanks * m - 1,
         NEW s, s = k \div m, NEW x, x = r * m + (k % m)
  PROVE  Promised(n, r)[k] = <<n, s, x>>
BY DEF Promised

LEMMA PromisedInTurn ==
  ASSUME NEW n, NEW r, NEW counts, counts = calls[n].counts, calls[n].op = "allgatherv",
         NEW e, e = ElementsBefore(counts, NumRanks), NEW k \in 0 .. e - 1,
         NEW s, s = FromRank(counts, k), NEW d, d = ElementsBefore(counts, s)
  PROVE  Promised(n, r)[k] = <<n, s, k - d>>
BY DEF Promised

\* What is said of a rank stays true while it rests.
LEMMA StaysAt ==
  ASSUME calls' = calls, NEW r \in Peer, call_no'[r] = call_no[r], turn'[r] = turn[r],
         offset'[r] = offset[r]
  PROVE  /\ (InCall(r)' <=> InCall(r)) /\ Op(r)' = Op(r) /\ Root(r)' = Root(r)
         /\ CountOf(r)' = CountOf(r) /\ MaxCount(r)' = MaxCount(r)
         /\ EltCount(r)' = EltCount(r) /\ (Leaves(r)' <=> Leaves(r))
         /\ SendSize(r)' = SendSize(r) /\ TakenSize(r)' = TakenSize(r) /\ Kept(r)' = Kept(r)
         /\ Displacement(r)' = Displacement(r)
         /\ \A n : Promised(n, r)' = Promised(n, r)
         /\ \A n, k : Sent(n, r, k)' = Sent(n, r, k)
         /\ IsPiece(call_no[r], turn[r], offset[r])' <=> IsPiece(call_no[r], turn[r], offset[r])
<1>1. (InCall(r)' <=> InCall(r)) /\ CallOf(r)' = CallOf(r)
  BY DEF InCall, CallOf
<1>2. Op(r)' = Op(r) /\ Root(r)' = Root(r)
  BY <1>1 DEF Op, Root
<1>3. CountOf(r)' = CountOf(r) /\ MaxCount(r)' = MaxCount(r)
  BY <1>1, <1>2 DEF CountOf, MaxCount
<1>4. EltCount(r)' = EltCount(r) /\ (Leaves(r)' <=> Leaves(r))
  BY <1>2, <1>3 DEF EltCount, Leaves
<1>5. /\ SendSize(r)' = SendSize(r) /\ TakenSize(r)' = TakenSize(r)
      /\ Displacement(r)' = Displacement(r)
  BY <1>1, <1>2, <1>4 DEF SendSize, TakenSize, Displacement
<1>6. Kept(r)' = Kept(r)
  BY <1>1, <1>2, <1>3, <1>4, <1>5 DEF Kept
<1>7. \A n : Promised(n, r)' = Promised(n, r)
  BY DEF Promised
<1>8. \A n, k : Sent(n, r, k)' = Sent(n, r, k)
  BY DEF Sent
<1>9. IsPiece(call_no[r], turn[r], offset[r])' <=> IsPiece(call_no[r], turn[r], offset[r])
  BY DEF IsPiece, MaxAt
<1>10. QED
  BY <1>1, <1>2, <1>3, <1>4, <1>5, <1>6, <1>7, <1>8, <1>9

LEMMA Rests ==
  ASSUME calls' = calls, NEW r \in Peer, call_no'[r] = call_no[r], turn'[r] = turn[r],
         offset'[r] = offset[r], host_pc'[r] = host_pc[r],
         send_buffer'[r] = send_buffer[r], recv_buffer'[r] = recv_buffer[r],
         AtPiece(r), SentRight(r), TakenRight(r)
  PROVE  AtPiece(r)' /\ SentRight(r)' /\ TakenRight(r)'
<1>1. AtPiece(r)'
  BY StaysAt DEF AtPiece
<1>2. SentRight(r)'
  BY StaysAt DEF SentRight
<1>3. TakenRight(r)'
  BY StaysAt DEF TakenRight
<1>4. QED
  BY <1>1, <1>2, <1>3

LEMMA KeptRests ==
  ASSUME calls' = calls, call_no' = call_no, turn' = turn, offset' = offset,
         recvbuff' = recvbuff, KeptRight
  PROVE  KeptRight'
<1>1. \A r \in Peer : /\ Kept(r)' = Kept(r) /\ call_no'[r] = call_no[r]
                      /\ \A n : Promised(n, r)' = Promised(n, r)
  BY StaysAt
<1>2. QED
  BY <1>1 DEF KeptRight

LEMMA ResultsRest ==
  ASSUME calls' = calls, call_no' = call_no, results' = results, ResultsRight
  PROVE  ResultsRight'
<1>1. \A n, r : Promised(n, r)' = Promised(n, r)
  BY DEF Promised
<1>2. Outcomes' = Outcomes
  BY <1>1 DEF Outcomes
<1>3. QED
  BY <1>1, <1>2 DEF ResultsRight

\* Pieces of one rank after another lie as in one row.
LEMMA Row ==
  ASSUME NEW d \in Nat \ {0}, NEW j \in Nat
  PROVE  (j \div d) * d \in Nat /\ j % d \in Nat /\ (j \div d) * d + (j % d) = j
BY Z3

LEMMA CopyInInv ==
  ASSUME HostInv, NEW r \in Peer, CopyIn(r)
  PROVE  HostInv'
<1>1. /\ calls' = calls /\ call_no' = call_no /\ turn' = turn /\ offset' = offset
      /\ recv_buffer' = recv_buffer /\ recvbuff' = recvbuff /\ results' = results
      /\ InCall(r) /\ host_pc[r] = "copy" /\ offset[r] < CountOf(r)
      /\ host_pc' = [host_pc EXCEPT ![r] = "in"]
      /\ send_buffer' = [send_buffer EXCEPT ![r] = With(@, Piece(r))]
  BY DEF CopyIn
<1>2. /\ HostTypes /\ PastAlike /\ KeptRight /\ ResultsRight
      /\ \A q \in Peer : AtPiece(q) /\ SentRight(q) /\ TakenRight(q)
  BY DEF HostInv
<1>3. /\ host_pc'[r] = "in" /\ send_buffer'[r] = With(send_buffer[r], Piece(r))
      /\ \A q \in Peer \ {r} : host_pc'[q] = host_pc[q] /\ send_buffer'[q] = send_buffer[q]
  BY <1>1, <1>2 DEF HostTypes
<1>4. HostTypes'
  BY <1>1, <1>2 DEF HostTypes
<1>5. PastAlike'
  BY <1>2, CopyInPast
<1>6. KeptRight' /\ ResultsRight'
  BY <1>1, <1>2, KeptRests, ResultsRest
<1>7. AtPiece(r)'
  BY <1>1, <1>2, StaysAt DEF AtPiece
<1>8. SentRight(r)'
  <2>1. SUFFICES ASSUME NEW j \in 0 .. SendSize(r) - 1
                 PROVE  With(send_buffer[r], Piece(r))[j] = Sent(call_no[r], r, offset[r] + j)
    BY <1>1, <1>3, StaysAt DEF SentRight
  <2>2. /\ EltCount(r) \in Nat \ {0} /\ offset[r] \in Nat
        /\ Op(r) = "alltoall" => offset[r] = 0 /\ EltCount(r) = CountOf(r)
    BY <1>1, <1>2, InItsCall DEF SideBySide
  <2>3. j \in DOMAIN Piece(r) /\ Piece(r)[j] = Sent(call_no[r], r, offset[r] + j)
    <3>1. CASE Op(r) = "alltoall"
      <4>1. PICK d \in Nat \ {0} : d = EltCount(r) /\ d = CountOf(r)
        BY <2>2, <3>1
      <4>2. j \in 0 .. NumRanks * d - 1 /\ j \in Nat
        BY <3>1, <4>1 DEF SendSize
      <4>3. (j \div d) * d \in Nat /\ j % d \in Nat /\ (j \div d) * d + (j % d) = j
        BY <4>2, Row
      <4>4. PICK x \in Nat : x = (j \div d) * d /\ x + (j % d) = j
        BY <4>3
      <4>5. 0 + x + (j % d) = 0 + j
        BY <4>2, <4>3, <4>4
      <4>6. DOMAIN Piece(r) = 0 .. NumRanks * d - 1
        BY <3>1, <4>1 DEF Piece
      <4>7. Piece(r)[j] = Sent(call_no[r], r, 0 + x + (j % d))
        BY <2>2, <3>1, <4>1, <4>2, <4>4 DEF Piece
      <4>8. QED
        BY <2>2, <3>1, <4>2, <4>5, <4>6, <4>7
    <3>2. CASE Op(r) # "alltoall"
      BY <3>2 DEF Piece, SendSize
    <3>3. QED
      BY <3>1, <3>2
  <2>4. QED
    BY <2>3 DEF With
<1>9. TakenRight(r)'
  BY <1>3 DEF TakenRight
<1>10. \A q \in Peer \ {r} : AtPiece(q)' /\ SentRight(q)' /\ TakenRight(q)'
  BY <1>1, <1>2, <1>3, Rests
<1>11. QED
  BY <1>4, <1>5, <1>6, <1>7, <1>8, <1>9, <1>10 DEF HostInv

-----------------------------------------------------------------------------
\* Element x of piece r of n pieces of d elements, and where element k of them all is.
LEMMA OfPiece ==
  ASSUME NEW n \in Nat \ {0}, NEW d \in Nat \ {0}, NEW r \in 0 .. n - 1, NEW x \in 0 .. d - 1
  PROVE  r * d + x \in 0 .. n * d - 1
<1>1. r \in Nat /\ r < n /\ x \in Nat /\ x < d
  OBVIOUS
<1>2. (d * r) + x < (d * n) + 0
  BY <1>1, Compared
<1>3. r * d = d * r /\ r * d \in Nat /\ n * d = d * n /\ n * d \in Nat
  BY <1>1, Z3
<1>4. QED
  BY <1>1, <1>2, <1>3

LEMMA InPieces ==
  ASSUME NEW n \in Nat \ {0}, NEW d \in Nat \ {0}, NEW k \in 0 .. n * d - 1
  PROVE  k \in Nat /\ k \div d \in 0 .. n - 1 /\ k % d \in 0 .. d - 1
<1>1. k \in Nat /\ n * d \in Nat /\ k < n * d
  BY Z3
<1>2. k \div d \in Nat /\ k % d \in 0 .. d - 1 /\ k = (d * (k \div d)) + (k % d)
  BY <1>1, Division
<1> DEFINE x == k % d
           q == k \div d
<1>3. x \in Nat /\ x < d /\ q \in Nat /\ k = (d * q) + x
  BY <1>2
<1> HIDE DEF x, q
<1>4. n * d = d * n + 0
  BY Z3
<1>5. q < n
  <2>1. (d * q) + x < (d * n) + 0
    BY <1>1, <1>3, <1>4
  <2>2. q < n \/ (q = n /\ x < 0)
    BY <1>3, <2>1, Compared
  <2>3. QED
    BY <1>3, <2>2
<1>6. QED
  BY <1>1, <1>2, <1>3, <1>5 DEF x, q

\* What the ranks have in their buffers when they are all in a collective: the pieces
\* of one call, cut at one place.
LEMMA AllInIt ==
  ASSUME HostInv, NEW r \in Peer, \A q \in Peer : InCall(q) /\ host_pc[q] = "in",
         NEW n, n = call_no[r], NEW c, c = calls[n], NEW o, o = offset[r],
         NEW size, size = EltCount(r)
  PROVE  /\ n \in DOMAIN calls /\ o \in Nat /\ size \in Nat \ {0} /\ Op(r) = c.op
         /\ o + size <= CountOf(r) /\ CountOf(r) \in Nat /\ CountOf(r) = c.counts[Root(r)]
         /\ Root(r) \in Peer /\ turn[r] \in Peer
         /\ Root(r) = IF c.op = "allgatherv" THEN turn[r] ELSE c.root
         /\ c.op # "allgatherv" => \A q \in Peer : c.counts[q] = CountOf(r)
         /\ c.op \in SideBySide => o = 0 /\ size = CountOf(r)
         /\ c.op # "alltoall" =>
              \A q \in Peer : \A j \in 0 .. size - 1 :
                o + j < c.counts[q] => send_buffer[q][j] = <<n, q, o + j>>
         /\ c.op = "alltoall" =>
              \A q \in Peer : \A j \in 0 .. NumRanks * size - 1 : send_buffer[q][j] = <<n, q, j>>
<1>1. /\ HostTypes /\ PastAlike
      /\ \A q \in Peer : AtPiece(q) /\ SentRight(q) /\ InCall(q) /\ host_pc[q] = "in"
  BY DEF HostInv
<1>2. \A q \in Peer : call_no[q] = n /\ turn[q] = turn[r] /\ offset[q] = o
  BY <1>1, SamePiece
<1>3. \A q \in Peer : CallOf(q) = c /\ Op(q) = c.op
  BY <1>2 DEF CallOf, Op
<1>4. \A q \in Peer : Root(q) = Root(r) /\ CountOf(q) = CountOf(r)
  BY <1>2, <1>3 DEF Root, CountOf
<1>5. \A q \in Peer : EltCount(q) = size
  <2>1. \A q \in Peer : MaxCount(q) = MaxCount(r)
    BY <1>3 DEF MaxCount
  <2>2. QED
    BY <1>2, <1>4, <2>1 DEF EltCount
<1>6. /\ n \in DOMAIN calls /\ o \in Nat /\ CountOf(r) \in Nat /\ Root(r) \in Peer
      /\ turn[r] \in Peer /\ MaxCount(r) \in Nat \ {0} /\ o < CountOf(r)
      /\ size \in Nat \ {0} /\ (c.op \in SideBySide => o = 0 /\ size = CountOf(r))
  BY <1>1, <1>3, InItsCall DEF AtPiece
<1>7. o + size <= CountOf(r)
  BY <1>6 DEF EltCount
<1>8. /\ CountOf(r) = c.counts[Root(r)]
      /\ Root(r) = IF c.op = "allgatherv" THEN turn[r] ELSE c.root
  BY <1>3 DEF CountOf, Root
<1>9. /\ c.op # "allgatherv" => \A q \in Peer : c.counts[q] = CountOf(r)
      /\ c.counts \in [Peer -> Nat]
  <2>1. /\ c.counts \in [Peer -> Nat] /\ c.root \in Peer
        /\ c.op # "allgatherv" => \A q, s \in Peer : c.counts[q] = c.counts[s]
    <3>1. calls \in HostPrograms
      BY <1>1 DEF HostTypes
    <3>2. PICK i \in DOMAIN calls : i = n
      BY <1>6
    <3>3. /\ calls[i].counts \in [Peer -> Nat] /\ calls[i].root \in Peer
          /\ calls[i].op # "allgatherv" =>
               \A q, s \in Peer : calls[i].counts[q] = calls[i].counts[s]
      BY <3>1, CallTypes
    <3>4. QED
      BY <3>2, <3>3
  <2>2. QED
    BY <1>6, <1>8, <2>1
<1>10. ASSUME c.op # "alltoall", NEW q \in Peer, NEW j \in 0 .. size - 1, o + j < c.counts[q]
       PROVE  send_buffer[q][j] = <<n, q, o + j>>
  <2>1. SendSize(q) = size
    BY <1>3, <1>5, <1>10 DEF SendSize
  <2>2. send_buffer[q][j] = Sent(n, q, o + j)
    BY <1>1, <1>2, <2>1 DEF SentRight
  <2>3. c.counts[q] * 1 = c.counts[q]
    BY <1>9
  <2>4. Sent(n, q, o + j) = <<n, q, o + j>>
    BY <1>10, <2>3 DEF Sent
  <2>5. QED
    BY <2>2, <2>4
<1>11. ASSUME c.op = "alltoall", NEW q \in Peer, NEW j \in 0 .. NumRanks * size - 1
       PROVE  send_buffer[q][j] = <<n, q, j>>
  <2>1. SendSize(q) = NumRanks * size
    BY <1>3, <1>5, <1>11 DEF SendSize
  <2>2. send_buffer[q][j] = Sent(n, q, 0 + j) /\ c.op \in SideBySide
    BY <1>1, <1>2, <1>6, <1>11, <2>1 DEF SentRight, SideBySide
  <2>3. c.counts[q] = size /\ 0 + j = j
    BY <1>6, <1>9, <1>11, <2>2
  <2>4. size * NumRanks = NumRanks * size /\ NumRanks * size \in Nat
    BY <1>6, SizesAssumption, Z3
  <2>5. j < c.counts[q] * NumRanks
    BY <2>3, <2>4
  <2>6. Sent(n, q, 0 + j) = <<n, q, j>>
    BY <1>11, <2>3, <2>5 DEF Sent
  <2>7. QED
    BY <2>2, <2>6
<1>12. QED
  BY <1>3, <1>6, <1>7, <1>8, <1>9, <1>10, <1>11

\* NCCL moves each element to its place.
LEMMA MovedRight ==
  ASSUME HostInv, NEW r \in Peer, \A q \in Peer : InCall(q) /\ host_pc[q] = "in", Leaves(r),
         NEW k \in 0 .. TakenSize(r) - 1
  PROVE  /\ k \in DOMAIN Received(r)
         /\ Received(r)[k] = Promised(call_no[r], r)[Displacement(r) + offset[r] + k]
<1>1. PICK n, c, o, size : n = call_no[r] /\ c = calls[n] /\ o = offset[r] /\ size = EltCount(r)
  OBVIOUS
<1>2. PICK m \in Nat : m = CountOf(r)
  BY <1>1, AllInIt
<1>3. /\ n \in DOMAIN calls /\ o \in Nat /\ size \in Nat \ {0} /\ Op(r) = c.op
      /\ o + size <= m /\ m = c.counts[Root(r)]
      /\ Root(r) \in Peer /\ turn[r] \in Peer
      /\ Root(r) = IF c.op = "allgatherv" THEN turn[r] ELSE c.root
      /\ c.op # "allgatherv" => \A q \in Peer : c.counts[q] = m
      /\ c.op \in SideBySide => o = 0 /\ size = m
      /\ c.op # "alltoall" =>
           \A q \in Peer : \A j \in 0 .. size - 1 :
             o + j < c.counts[q] => send_buffer[q][j] = <<n, q, o + j>>
      /\ c.op = "alltoall" =>
           \A q \in Peer : \A j \in 0 .. NumRanks * size - 1 : send_buffer[q][j] = <<n, q, j>>
  BY <1>1, <1>2, AllInIt
<1>4. calls \in HostPrograms /\ c.op \in HostOps
  BY <1>1, <1>3, CallTypes DEF HostInv, HostTypes
<1>5. /\ c.op \in SideBySide => TakenSize(r) = NumRanks * m /\ Moved(r) = m
      /\ c.op \notin SideBySide => TakenSize(r) = size /\ Moved(r) = size
      /\ c.op # "allgatherv" => Displacement(r) = 0
  BY <1>1, <1>2, <1>3 DEF TakenSize, Moved, Displacement
<1>6. c.op \notin SideBySide => k \in 0 .. size - 1 /\ o + k \in 0 .. m - 1
  BY <1>3, <1>5
<1>7. /\ c.op \in SideBySide =>
           /\ k \in 0 .. NumRanks * m - 1 /\ k \in 0 .. NumRanks * size - 1 /\ 0 + 0 + k = k
           /\ k \div m \in Peer /\ k % m \in 0 .. size - 1 /\ 0 + (k % m) = k % m
           /\ 0 + (k % m) < m /\ r * m + (k % m) \in 0 .. NumRanks * size - 1
  <2>1. ASSUME c.op \in SideBySide
        PROVE  /\ k \in 0 .. NumRanks * m - 1 /\ m \in Nat \ {0} /\ size = m
               /\ NumRanks \in Nat \ {0}
    BY <1>3, <1>5, <2>1, SizesAssumption
  <2>2. ASSUME c.op \in SideBySide
        PROVE  /\ k \div m \in Peer /\ k % m \in 0 .. m - 1
               /\ r * m + (k % m) \in 0 .. NumRanks * m - 1
    <3>1. k \div m \in Peer /\ k % m \in 0 .. m - 1
      BY <2>1, <2>2, InPieces DEF Peer
    <3>2. r \in 0 .. NumRanks - 1
      BY DEF Peer
    <3>3. QED
      BY <2>1, <2>2, <3>1, <3>2, OfPiece
  <2>3. QED
    BY <2>1, <2>2
<1>8. CASE c.op = "allreduce" \/ (c.op = "reduce" /\ r = Root(r))
  <2>1. c.op \notin SideBySide /\ c.op # "allgatherv" /\ c.op # "alltoall"
    BY <1>8 DEF SideBySide
  <2>2. k \in 0 .. size - 1 /\ o + k \in 0 .. m - 1 /\ 0 + o + k = o + k
    BY <1>3, <1>6, <2>1
  <2>3. Received(r) = [j \in 0 .. size - 1 |-> [s \in Peer |-> send_buffer[s][j]]]
    BY <1>3, <1>5, <1>8, <2>1 DEF Received
  <2>4. \A s \in Peer : send_buffer[s][k] = <<n, s, o + k>>
    BY <1>3, <2>1, <2>2
  <2>5. m = c.counts[c.root] /\ Root(r) = c.root
    BY <1>3, <2>1
  <2>6. Promised(n, r)[o + k] = [s \in Peer |-> <<n, s, o + k>>]
    BY <1>1, <1>8, <2>2, <2>5, PromisedOfAll
  <2>7. Received(r)[k] = [s \in Peer |-> <<n, s, o + k>>] /\ k \in DOMAIN Received(r)
    BY <2>2, <2>3, <2>4
  <2>8. QED
    BY <1>1, <1>5, <2>1, <2>2, <2>6, <2>7
<1>9. CASE c.op = "bcast"
  <2>1. c.op \notin SideBySide /\ c.op # "allgatherv" /\ c.op # "alltoall"
    BY <1>9 DEF SideBySide
  <2>2. k \in 0 .. size - 1 /\ o + k \in 0 .. m - 1 /\ 0 + o + k = o + k
    BY <1>3, <1>6, <2>1
  <2>3. Received(r) = [j \in 0 .. size - 1 |-> send_buffer[Root(r)][j]]
    BY <1>3, <1>5, <1>9, <2>1 DEF Received
  <2>4. send_buffer[Root(r)][k] = <<n, Root(r), o + k>>
    BY <1>3, <2>1, <2>2
  <2>5. m = c.counts[c.root] /\ Root(r) = c.root
    BY <1>3, <2>1
  <2>6. Promised(n, r)[o + k] = <<n, Root(r), o + k>>
    BY <1>1, <1>9, <2>2, <2>5, PromisedOfRoot
  <2>7. QED
    BY <1>1, <1>3, <1>5, <2>1, <2>2, <2>3, <2>4, <2>6
<1>10. CASE c.op = "allgatherv"
  <2>1. c.op \notin SideBySide /\ c.op # "alltoall" /\ Root(r) = turn[r]
    BY <1>3, <1>10 DEF SideBySide
  <2>2. k \in 0 .. size - 1 /\ o + k \in 0 .. m - 1
    BY <1>6, <2>1
  <2>3. Received(r) = [j \in 0 .. size - 1 |-> send_buffer[Root(r)][j]]
    BY <1>3, <1>5, <1>10, <2>1 DEF Received
  <2>4. send_buffer[Root(r)][k] = <<n, Root(r), o + k>>
    BY <1>3, <2>1, <2>2
  <2>5. c.counts \in [Peer -> Nat]
    BY <1>1, <1>3, <1>4, CallTypes
  <2>6. PICK t \in Peer : t = turn[r]
    BY <1>3
  <2>7. Displacement(r) = ElementsBefore(c.counts, t)
    BY <1>1, <1>3, <1>10, <2>6 DEF Displacement, ElementsBefore, CallOf
  <2>8. t \in 0 .. NumRanks /\ t + 1 \in 0 .. NumRanks /\ NumRanks \in 0 .. NumRanks
        /\ t + 1 <= NumRanks
    BY SizesAssumption DEF Peer
  <2>9. /\ ElementsBefore(c.counts, t + 1) = ElementsBefore(c.counts, t) + c.counts[t]
        /\ \A s \in 0 .. NumRanks : ElementsBefore(c.counts, s) \in Nat
        /\ \A s, q \in 0 .. NumRanks :
             s <= q => ElementsBefore(c.counts, s) <= ElementsBefore(c.counts, q)
        /\ \A j \in Nat :
             ElementsBefore(c.counts, t) <= j /\ j < ElementsBefore(c.counts, t + 1)
               => FromRank(c.counts, j) = t
    BY <2>5, Elements
  <2>10. PICK d \in Nat : d = ElementsBefore(c.counts, t)
    BY <2>8, <2>9
  <2>11. PICK e \in Nat : e = ElementsBefore(c.counts, NumRanks) /\ d + m <= e
    <3>1. PICK z \in 0 .. NumRanks : z = t + 1 /\ z <= NumRanks
      BY <2>8
    <3>2. ElementsBefore(c.counts, z) = d + m
      BY <1>3, <2>1, <2>6, <2>9, <2>10, <3>1
    <3>3. ElementsBefore(c.counts, z) <= ElementsBefore(c.counts, NumRanks)
      BY <2>8, <2>9, <3>1
    <3>4. QED
      BY <2>8, <2>9, <3>2, <3>3
  <2>12. PICK j \in Nat : j = d + o + k /\ d <= j /\ j < d + m /\ j \in 0 .. e - 1 /\ j - d = o + k
    BY <1>3, <2>2, <2>11
  <2>13. FromRank(c.counts, j) = t
    BY <1>3, <2>1, <2>6, <2>9, <2>10, <2>12
  <2>14. Promised(n, r)[j] = <<n, t, j - d>>
    BY <1>1, <1>10, <2>10, <2>11, <2>12, <2>13, PromisedInTurn
  <2>15. Received(r)[k] = <<n, t, o + k>> /\ k \in DOMAIN Received(r)
    BY <2>1, <2>2, <2>3, <2>4, <2>6
  <2>16. QED
    BY <1>1, <2>7, <2>10, <2>12, <2>14, <2>15
<1>11. CASE c.op = "allgather" \/ (c.op = "gather" /\ r = Root(r))
  <2>1. c.op \in SideBySide /\ c.op # "allgatherv" /\ c.op # "alltoall"
    BY <1>11 DEF SideBySide
  <2>2. Received(r) = [j \in 0 .. NumRanks * m - 1 |-> send_buffer[j \div m][j % m]]
    BY <1>3, <1>5, <1>11, <2>1 DEF Received
  <2>3. send_buffer[k \div m][k % m] = <<n, k \div m, k % m>>
    <3>1. PICK q \in Peer, j \in 0 .. size - 1 :
            q = k \div m /\ j = k % m /\ 0 + j = j /\ 0 + j < m
      BY <1>7, <2>1
    <3>2. send_buffer[q][j] = <<n, q, j>>
      BY <1>3, <2>1, <3>1
    <3>3. QED
      BY <3>1, <3>2
  <2>4. m = c.counts[c.root] /\ Root(r) = c.root
    BY <1>3, <2>1
  <2>5. PICK s, x : s = k \div m /\ x = k % m
    OBVIOUS
  <2>6. Promised(n, r)[k] = <<n, s, x>>
    <3>1. k \in 0 .. NumRanks * m - 1 /\ c = calls[n] /\ m = c.counts[c.root]
      BY <1>1, <1>7, <2>1, <2>4
    <3>2. QED
      BY <1>11, <2>4, <2>5, <3>1, PromisedOfEach
  <2>7. Displacement(r) + offset[r] + k = k
    BY <1>1, <1>3, <1>5, <1>7, <2>1
  <2>8. QED
    BY <1>1, <1>7, <2>1, <2>2, <2>3, <2>5, <2>6, <2>7
<1>12. CASE c.op = "alltoall"
  <2>1. c.op \in SideBySide /\ c.op # "allgatherv"
    BY <1>12 DEF SideBySide
  <2>2. Received(r) = [j \in 0 .. NumRanks * m - 1 |-> send_buffer[j \div m][r * m + (j % m)]]
    BY <1>3, <1>5, <1>12, <2>1 DEF Received
  <2>3. send_buffer[k \div m][r * m + (k % m)] = <<n, k \div m, r * m + (k % m)>>
    BY <1>3, <1>7, <1>12, <2>1
  <2>4. m = c.counts[c.root] /\ Root(r) = c.root
    BY <1>3, <2>1
  <2>5. PICK s, x : s = k \div m /\ x = r * m + (k % m)
    OBVIOUS
  <2>6. Promised(n, r)[k] = <<n, s, x>>
    <3>1. k \in 0 .. NumRanks * m - 1 /\ c = calls[n] /\ m = c.counts[c.root]
      BY <1>1, <1>7, <2>1, <2>4
    <3>2. QED
      BY <1>12, <2>5, <3>1, PromisedToAll
  <2>7. Displacement(r) + offset[r] + k = k
    BY <1>1, <1>3, <1>5, <1>7, <2>1
  <2>8. QED
    BY <1>1, <1>7, <2>1, <2>2, <2>3, <2>5, <2>6, <2>7
<1>13. QED
  BY <1>3, <1>4, <1>8, <1>9, <1>10, <1>11, <1>12 DEF HostOps, SideBySide, Leaves

LEMMA CollectiveInv ==
  ASSUME HostInv, Collective
  PROVE  HostInv'
<1>1. /\ calls' = calls /\ call_no' = call_no /\ turn' = turn /\ offset' = offset
      /\ send_buffer' = send_buffer /\ recvbuff' = recvbuff /\ results' = results
      /\ \A r \in Peer : InCall(r) /\ host_pc[r] = "in"
      /\ host_pc' = [r \in Peer |-> "out"]
      /\ recv_buffer' = [r \in Peer |-> With(recv_buffer[r], Received(r))]
  BY DEF Collective
<1>2. /\ HostTypes /\ PastAlike /\ KeptRight /\ ResultsRight
      /\ \A q \in Peer : AtPiece(q) /\ SentRight(q) /\ TakenRight(q)
  BY DEF HostInv
<1>3. HostTypes'
  BY <1>1, <1>2 DEF HostTypes
<1>4. PastAlike'
  BY <1>2, CollectivePast
<1>5. KeptRight' /\ ResultsRight'
  BY <1>1, <1>2, KeptRests, ResultsRest
<1>6. ASSUME NEW r \in Peer PROVE AtPiece(r)' /\ SentRight(r)' /\ TakenRight(r)'
  <2>1. AtPiece(r)'
    BY <1>1, <1>2, StaysAt DEF AtPiece
  <2>2. SentRight(r)'
    BY <1>1 DEF SentRight
  <2>3. TakenRight(r)'
    <3>1. SUFFICES ASSUME Leaves(r), NEW k \in 0 .. TakenSize(r) - 1
                   PROVE  With(recv_buffer[r], Received(r))[k]
                            = Promised(call_no[r], r)[Displacement(r) + offset[r] + k]
      BY <1>1, StaysAt DEF TakenRight
    <3>2. /\ k \in DOMAIN Received(r)
          /\ Received(r)[k] = Promised(call_no[r], r)[Displacement(r) + offset[r] + k]
      BY <1>1, <3>1, MovedRight
    <3>3. QED
      BY <3>2 DEF With
  <2>4. QED
    BY <2>1, <2>2, <2>3
<1>7. QED
  BY <1>3, <1>4, <1>5, <1>6 DEF HostInv

-----------------------------------------------------------------------------
\* Where the data of the rank whose turn it is goes to.
LEMMA DisplacedBy ==
  ASSUME HostTypes, NEW r \in Peer, InCall(r), AtPiece(r)
  PROVE  /\ Displacement(r) \in Nat
         /\ turn[r] = 0 => Displacement(r) = 0
         /\ Op(r) = "allgatherv" =>
              /\ Displacement(r) = ElementsBefore(CallOf(r).counts, turn[r])
              /\ CallOf(r).counts \in [Peer -> Nat] /\ CountOf(r) = CallOf(r).counts[turn[r]]
<1>1. calls \in HostPrograms
  BY DEF HostTypes
<1>2. PICK n \in DOMAIN calls : n = call_no[r]
  BY InItsCall
<1>3. CallOf(r).counts \in [Peer -> Nat]
  BY <1>1, <1>2, CallTypes DEF CallOf
<1>4. turn[r] \in Peer /\ turn[r] \in 0 .. NumRanks
  BY InItsCall, SizesAssumption DEF Peer
<1>5. Op(r) # "allgatherv" => Displacement(r) = 0
  BY DEF Displacement
<1>6. ASSUME Op(r) = "allgatherv"
      PROVE  Displacement(r) = ElementsBefore(CallOf(r).counts, turn[r])
  BY <1>6 DEF Displacement, ElementsBefore
<1>7. /\ ElementsBefore(CallOf(r).counts, turn[r]) \in Nat
      /\ ElementsBefore(CallOf(r).counts, 0) = 0
  BY <1>3, <1>4, Elements
<1>8. Op(r) = "allgatherv" => CountOf(r) = CallOf(r).counts[turn[r]]
  BY DEF CountOf, Root
<1>9. QED
  BY <1>3, <1>5, <1>6, <1>7, <1>8

\* What is copied out are the elements that belong there.
LEMMA TakenAre ==
  ASSUME HostInv, NEW r \in Peer, InCall(r), host_pc[r] = "out", Leaves(r)
  PROVE  /\ \A j \in DOMAIN Taken(r) : Taken(r)[j] = Promised(call_no[r], r)[j]
         /\ Op(r) \in SideBySide => DOMAIN Taken(r) = 0 .. NumRanks * CountOf(r) - 1
         /\ Op(r) \notin SideBySide =>
              DOMAIN Taken(r) =
                Displacement(r) + offset[r] .. Displacement(r) + offset[r] + EltCount(r) - 1
<1>1. HostTypes /\ AtPiece(r) /\ TakenRight(r)
  BY DEF HostInv
<1>2. PICK o, m, size, d : /\ o = offset[r] /\ m = CountOf(r) /\ size = EltCount(r)
                           /\ d = Displacement(r)
  OBVIOUS
<1>3. /\ o \in Nat /\ m \in Nat /\ size \in Nat \ {0} /\ d \in Nat
      /\ Op(r) \in SideBySide => o = 0 /\ size = m /\ d = 0 /\ m \in Nat \ {0}
  <2>1. /\ o \in Nat /\ m \in Nat /\ size \in Nat \ {0}
        /\ Op(r) \in SideBySide => o = 0 /\ size = m
    BY <1>1, <1>2, InItsCall DEF AtPiece
  <2>2. d \in Nat /\ (Op(r) # "allgatherv" => d = 0)
    BY <1>1, <1>2, DisplacedBy DEF Displacement
  <2>3. QED
    BY <2>1, <2>2 DEF SideBySide
<1>4. \A k \in 0 .. TakenSize(r) - 1 : recv_buffer[r][k] = Promised(call_no[r], r)[d + o + k]
  BY <1>1, <1>2 DEF TakenRight
<1>5. CASE Op(r) \in SideBySide
  <2> DEFINE places == {i * m + o + k : i \in Peer, k \in 0 .. size - 1}
  <2>1. m \in Nat \ {0} /\ o = 0 /\ size = m /\ NumRanks \in Nat \ {0} /\ d = 0
    BY <1>3, <1>5, SizesAssumption
  <2>2. ASSUME NEW i \in Peer, NEW k \in 0 .. size - 1
        PROVE  i * m + o + k \in 0 .. NumRanks * m - 1
    <3>1. i * m + k \in 0 .. NumRanks * m - 1
      BY <2>1, OfPiece DEF Peer
    <3>2. i \in Nat /\ i * m \in Nat
      BY <2>1, Z3 DEF Peer
    <3>3. i * m + o + k = i * m + k
      BY <2>1, <3>2
    <3>4. QED
      BY <3>1, <3>3
  <2>3. ASSUME NEW j \in 0 .. NumRanks * m - 1
        PROVE  /\ j \in places
               /\ (j \div m) * size + ((j % m) - o) = j
    <3>1. j \in Nat /\ j \div m \in Peer /\ j % m \in 0 .. size - 1
      BY <2>1, InPieces DEF Peer
    <3>2. (j \div m) * m \in Nat /\ j % m \in Nat /\ (j \div m) * m + (j % m) = j
      BY <2>1, <3>1, Row
    <3>3. PICK i \in Peer, k \in 0 .. size - 1, x \in Nat :
            i = j \div m /\ k = j % m /\ x = i * m /\ x + k = j
      BY <3>1, <3>2
    <3>4. i * m + o + k = j /\ x + (k - o) = j
      BY <2>1, <3>3
    <3>5. QED
      BY <2>1, <3>3, <3>4
  <2>4. places = 0 .. NumRanks * m - 1
    BY <2>2, <2>3
  <2>5. Taken(r) = [j \in places |-> recv_buffer[r][(j \div m) * size + ((j % m) - o)]]
    BY <1>2, <1>5 DEF Taken, Stride
  <2> HIDE DEF places
  <2>6. TakenSize(r) = NumRanks * m
    BY <1>2, <1>5, <2>1 DEF TakenSize
  <2>7. ASSUME NEW j \in 0 .. NumRanks * m - 1
        PROVE  Taken(r)[j] = Promised(call_no[r], r)[j]
    <3>1. PICK x : x = (j \div m) * size + ((j % m) - o)
      OBVIOUS
    <3>2. x = j
      BY <2>3, <3>1
    <3>3. Taken(r)[j] = recv_buffer[r][x]
      BY <2>4, <2>5, <3>1
    <3>4. d + o + j = j /\ j \in 0 .. TakenSize(r) - 1
      BY <2>1, <2>6
    <3>5. QED
      BY <1>4, <3>2, <3>3, <3>4
  <2>8. QED
    BY <1>2, <1>5, <2>4, <2>5, <2>7
<1>6. CASE Op(r) \notin SideBySide
  <2>1. Taken(r) = [j \in d + o .. d + o + size - 1 |-> recv_buffer[r][j - (d + o)]]
    BY <1>2, <1>6 DEF Taken
  <2>2. TakenSize(r) = size
    BY <1>2, <1>6 DEF TakenSize
  <2>3. ASSUME NEW j \in d + o .. d + o + size - 1
        PROVE  Taken(r)[j] = Promised(call_no[r], r)[j]
    <3>1. j - (d + o) \in 0 .. size - 1 /\ d + o + (j - (d + o)) = j
      BY <1>3
    <3>2. QED
      BY <1>4, <2>1, <2>2, <3>1
  <2>4. QED
    BY <1>2, <1>6, <2>1, <2>3
<1>7. QED
  BY <1>5, <1>6

LEMMA CopyOutInv ==
  ASSUME HostInv, NEW r \in Peer, CopyOut(r)
  PROVE  HostInv'
<1>1. /\ calls' = calls /\ call_no' = call_no /\ turn' = turn /\ results' = results
      /\ send_buffer' = send_buffer /\ recv_buffer' = recv_buffer /\ host_pc[r] = "out"
      /\ host_pc' = [host_pc EXCEPT ![r] = "copy"]
      /\ offset' = [offset EXCEPT ![r] = @ + MaxCount(r)]
      /\ recvbuff' = IF ~ Leaves(r) THEN recvbuff
                     ELSE [recvbuff EXCEPT ![r] = With(@, Taken(r))]
  BY DEF CopyOut, Leaves
<1>2. /\ HostTypes /\ PastAlike /\ KeptRight /\ ResultsRight
      /\ \A q \in Peer : AtPiece(q) /\ SentRight(q) /\ TakenRight(q)
  BY DEF HostInv
<1>3. InCall(r) /\ offset[r] < CountOf(r)
  BY <1>1, <1>2 DEF AtPiece
<1>4. PICK o, m, max, size : /\ o = offset[r] /\ m = CountOf(r)
                             /\ max = MaxCount(r) /\ size = EltCount(r)
  OBVIOUS
<1>5. /\ o \in Nat /\ m \in Nat /\ max \in Nat \ {0} /\ o < m
      /\ max = MaxAt(call_no[r]) /\ IsPiece(call_no[r], turn[r], o)
      /\ Op(r) \in SideBySide => o = 0
  BY <1>2, <1>3, <1>4, InItsCall
<1>6. /\ host_pc'[r] = "copy" /\ offset'[r] = o + max /\ o + max \in Nat
      /\ \A q \in Peer \ {r} : host_pc'[q] = host_pc[q] /\ offset'[q] = offset[q]
  BY <1>1, <1>2, <1>4, <1>5 DEF HostTypes
<1>7. HostTypes'
  BY <1>1, <1>2, <1>4, <1>6 DEF HostTypes
<1>8. PastAlike'
  BY <1>1, <1>2, <1>3, CopyOutPast
<1>9. ResultsRight'
  BY <1>1, <1>2, ResultsRest
<1>10. /\ (InCall(r)' <=> InCall(r)) /\ Op(r)' = Op(r) /\ Root(r)' = Root(r)
       /\ CountOf(r)' = m /\ (Leaves(r)' <=> Leaves(r)) /\ Displacement(r)' = Displacement(r)
       /\ \A n, q : Promised(n, q)' = Promised(n, q)
  <2>1. (InCall(r)' <=> InCall(r)) /\ CallOf(r)' = CallOf(r) /\ Op(r)' = Op(r)
    BY <1>1 DEF InCall, CallOf, Op
  <2>2. Root(r)' = Root(r)
    BY <1>1, <2>1 DEF Root
  <2>3. CountOf(r)' = m /\ (Leaves(r)' <=> Leaves(r))
    BY <1>4, <2>1, <2>2 DEF CountOf, Leaves
  <2>4. Displacement(r)' = Displacement(r)
    BY <1>1, <2>1 DEF Displacement
  <2>5. \A n, q : Promised(n, q)' = Promised(n, q)
    BY <1>1 DEF Promised
  <2>6. QED
    BY <1>3, <2>1, <2>2, <2>3, <2>4, <2>5
<1>11. AtPiece(r)'
  <2>1. PICK k \in 0 .. o : o = k * max
    BY <1>5 DEF IsPiece
  <2>2. k + 1 \in 0 .. o + max /\ k \in Nat
    BY <1>5
  <2>3. (k + 1) * max = k * max + max
    BY <1>5, <2>2, Z3
  <2>4. o + max = (k + 1) * max
    BY <1>5, <2>1, <2>2, <2>3
  <2>5. MaxAt(call_no[r])' = max
    BY <1>1, <1>5 DEF MaxAt
  <2>6. IsPiece(call_no[r], turn[r], offset[r])'
    BY <1>1, <1>5, <1>6, <2>2, <2>4, <2>5 DEF IsPiece
  <2>7. QED
    BY <1>3, <1>6, <1>10, <2>6 DEF AtPiece
<1>12. SentRight(r)' /\ TakenRight(r)'
  BY <1>6 DEF SentRight, TakenRight
<1>13. \A q \in Peer \ {r} : AtPiece(q)' /\ SentRight(q)' /\ TakenRight(q)'
  BY <1>1, <1>2, <1>6, Rests
<1>14. KeptRight'
  <2>1. \A q \in Peer \ {r} : Kept(q)' = Kept(q)
    BY <1>1, <1>6, StaysAt
  <2>2. recvbuff = [q \in Peer |-> [j \in Kept(q) |-> Promised(call_no[q], q)[j]]]
    BY <1>2 DEF KeptRight
  <2>3. SUFFICES recvbuff' = [q \in Peer |-> [j \in Kept(q)' |-> Promised(call_no[q], q)[j]]]
    BY <1>1, <1>10 DEF KeptRight
  <2>4. CASE ~ Leaves(r)
    <3>1. Kept(r)' = {} /\ Kept(r) = {}
      BY <1>3, <1>10, <2>4 DEF Kept
    <3>2. QED
      BY <1>1, <2>1, <2>2, <2>4, <3>1
  <2>5. CASE Leaves(r)
    <3>1. Kept(r)' = DOMAIN Taken(r) \cup Kept(r)
      <4>1. CASE Op(r) \in SideBySide
        <5>1. Kept(r) = {} /\ Kept(r)' = 0 .. NumRanks * m - 1
          BY <1>3, <1>4, <1>5, <1>6, <1>10, <2>5, <4>1 DEF Kept
        <5>2. DOMAIN Taken(r) = 0 .. NumRanks * m - 1
          BY <1>1, <1>3, <1>4, <2>5, <4>1, TakenAre
        <5>3. QED
          BY <5>1, <5>2
      <4>2. CASE Op(r) \notin SideBySide
        <5>1. PICK d \in Nat : d = Displacement(r)
          BY <1>2, <1>3, DisplacedBy
        <5>2. /\ Kept(r) = 0 .. d + o - 1
              /\ Kept(r)' = 0 .. d + (IF o + max < m THEN o + max ELSE m) - 1
          BY <1>3, <1>4, <1>5, <1>6, <1>10, <2>5, <4>2, <5>1 DEF Kept
        <5>3. DOMAIN Taken(r) = d + o .. d + o + size - 1
          BY <1>1, <1>3, <1>4, <2>5, <4>2, <5>1, TakenAre
        <5>4. size \in Nat \ {0} /\ o + size = IF o + max < m THEN o + max ELSE m
          BY <1>4, <1>5 DEF EltCount
        <5>5. PICK x \in Nat, y \in Nat :
                x = d + o /\ y = d + o + size /\ x <= y
                /\ y = d + (IF o + max < m THEN o + max ELSE m)
          BY <1>5, <5>1, <5>4
        <5>6. Kept(r) = 0 .. x - 1 /\ Kept(r)' = 0 .. y - 1 /\ DOMAIN Taken(r) = x .. y - 1
          <6>1. /\ d + o - 1 = x - 1 /\ d + o + size - 1 = y - 1
                /\ d + (IF o + max < m THEN o + max ELSE m) - 1 = y - 1
            BY <1>5, <5>1, <5>4, <5>5
          <6>2. QED
            BY <5>2, <5>3, <5>5, <6>1
        <5>7. 0 .. y - 1 = (x .. y - 1) \cup (0 .. x - 1)
          BY <5>5
        <5>8. QED
          BY <5>6, <5>7
      <4>3. QED
        BY <4>1, <4>2
    <3>2. \A j \in DOMAIN Taken(r) : Taken(r)[j] = Promised(call_no[r], r)[j]
      BY <1>1, <1>3, <2>5, TakenAre
    <3>3. PICK taken : taken = Taken(r)
      OBVIOUS
    <3>4. recvbuff[r] = [j \in Kept(r) |-> Promised(call_no[r], r)[j]]
      BY <2>2
    <3>5. With(recvbuff[r], taken) = [j \in Kept(r)' |-> Promised(call_no[r], r)[j]]
      BY <3>1, <3>2, <3>3, <3>4 DEF With
    <3>6. recvbuff' = [recvbuff EXCEPT ![r] = With(recvbuff[r], taken)]
      BY <1>1, <2>5, <3>3
    <3>7. QED
      BY <2>1, <2>2, <3>5, <3>6
  <2>6. QED
    BY <2>4, <2>5
<1>15. QED
  BY <1>7, <1>8, <1>9, <1>11, <1>12, <1>13, <1>14 DEF HostInv

LEMMA NextTurnInv ==
  ASSUME HostInv, NEW r \in Peer, NextTurn(r)
  PROVE  HostInv'
<1>1. /\ calls' = calls /\ call_no' = call_no /\ host_pc' = host_pc /\ results' = results
      /\ send_buffer' = send_buffer /\ recv_buffer' = recv_buffer /\ recvbuff' = recvbuff
      /\ turn' = [turn EXCEPT ![r] = @ + 1] /\ offset' = [offset EXCEPT ![r] = 0]
      /\ InCall(r) /\ host_pc[r] = "copy" /\ offset[r] >= CountOf(r)
      /\ Op(r) = "allgatherv" /\ turn[r] # NumRanks - 1
  BY DEF NextTurn, AllMoved, LastTurn
<1>2. /\ HostTypes /\ PastAlike /\ KeptRight /\ ResultsRight
      /\ \A q \in Peer : AtPiece(q) /\ SentRight(q) /\ TakenRight(q)
  BY DEF HostInv
<1>3. PICK t \in Peer : t = turn[r]
  BY <1>2 DEF HostTypes
<1>4. t + 1 \in Peer /\ t + 1 \in 0 .. NumRanks
  BY <1>1, <1>3, SizesAssumption DEF Peer
<1>5. /\ turn'[r] = t + 1 /\ offset'[r] = 0
      /\ \A q \in Peer \ {r} : turn'[q] = turn[q] /\ offset'[q] = offset[q]
  BY <1>1, <1>2, <1>3 DEF HostTypes
<1>6. HostTypes'
  BY <1>1, <1>2, <1>3, <1>4, <1>5 DEF HostTypes
<1>7. PastAlike'
  BY <1>2, NextTurnPast
<1>8. ResultsRight'
  BY <1>1, <1>2, ResultsRest
<1>9. InCall(r)' /\ CallOf(r)' = CallOf(r) /\ Op(r)' = Op(r)
  BY <1>1 DEF InCall, CallOf, Op
<1>10. AtPiece(r)'
  <2>1. MaxAt(call_no[r])' \in Nat /\ calls'[call_no'[r]].op = "allgatherv"
    <3>1. call_no[r] \in DOMAIN calls /\ MaxAt(call_no[r]) \in Nat
      BY <1>1, <1>2, InItsCall
    <3>2. MaxAt(call_no[r])' = MaxAt(call_no[r])
      BY <1>1 DEF MaxAt
    <3>3. QED
      BY <1>1, <3>1, <3>2 DEF Op, CallOf
  <2>2. 0 \in 0 .. 0 /\ 0 = 0 * MaxAt(call_no[r])'
    BY <2>1
  <2>3. IsPiece(call_no[r], turn[r], offset[r])'
    BY <1>5, <2>1, <2>2 DEF IsPiece
  <2>4. QED
    BY <1>1, <1>9, <2>3 DEF AtPiece
<1>11. SentRight(r)' /\ TakenRight(r)'
  BY <1>1 DEF SentRight, TakenRight
<1>12. \A q \in Peer \ {r} : AtPiece(q)' /\ SentRight(q)' /\ TakenRight(q)'
  BY <1>1, <1>2, <1>5, Rests
<1>13. KeptRight'
  <2>1. \A q \in Peer \ {r} : Kept(q)' = Kept(q)
    BY <1>1, <1>5, StaysAt
  <2>2. PICK counts : counts = CallOf(r).counts
    OBVIOUS
  <2>3. /\ Displacement(r) = ElementsBefore(counts, t) /\ counts \in [Peer -> Nat]
        /\ CountOf(r) = counts[t] /\ Displacement(r) \in Nat /\ offset[r] \in Nat
    BY <1>1, <1>2, <1>3, <2>2, DisplacedBy, InItsCall
  <2>4. Displacement(r)' = ElementsBefore(counts, t + 1) /\ CountOf(r)' = counts[t + 1]
    BY <1>1, <1>5, <1>9, <2>2 DEF Displacement, ElementsBefore, CountOf, Root
  <2>5. ElementsBefore(counts, t + 1) = ElementsBefore(counts, t) + counts[t]
    BY <2>3, Elements
  <2>6. Leaves(r) /\ Leaves(r)' /\ Op(r) \notin SideBySide
    BY <1>1, <1>9 DEF Leaves, SideBySide
  <2>7. Kept(r) = 0 .. Displacement(r) + counts[t] - 1
    BY <1>1, <2>3, <2>6 DEF Kept
  <2>8. Kept(r)' = 0 .. ElementsBefore(counts, t + 1) - 1
    <3>1. counts[t + 1] \in Nat
      BY <1>4, <2>3
    <3>2. PICK m \in Nat, d \in Nat : m = CountOf(r)' /\ d = Displacement(r)'
      BY <2>3, <2>4, <2>5, <3>1
    <3>3. Kept(r)' = 0 .. d + (IF 0 < m THEN 0 ELSE m) - 1
      BY <1>5, <1>9, <2>6, <3>2 DEF Kept
    <3>4. d + (IF 0 < m THEN 0 ELSE m) - 1 = d - 1
      BY <3>2
    <3>5. QED
      BY <2>4, <3>2, <3>3, <3>4
  <2>9. Kept(r)' = Kept(r)
    BY <2>3, <2>5, <2>7, <2>8
  <2>10. \A n, q : Promised(n, q)' = Promised(n, q)
    BY <1>1 DEF Promised
  <2>11. \A q \in Peer : Kept(q)' = Kept(q)
    BY <2>1, <2>9
  <2>12. QED
    BY <1>1, <1>2, <2>10, <2>11 DEF KeptRight
<1>14. QED
  BY <1>6, <1>7, <1>8, <1>10, <1>11, <1>12, <1>13 DEF HostInv

-----------------------------------------------------------------------------
\* A rank that begins a call, or has made all of them, keeps nothing yet.
Begins(r) == turn[r] = 0 /\ offset[r] = 0 /\ host_pc[r] = "copy"

LEMMA AtStart ==
  \A r \in Peer : HostTypes /\ Begins(r) => AtPiece(r) /\ Kept(r) = {}
<1>1. SUFFICES ASSUME NEW r \in Peer, HostTypes, Begins(r)
               PROVE  AtPiece(r) /\ Kept(r) = {}
  OBVIOUS
<1>2. CASE ~ InCall(r)
  BY <1>1, <1>2 DEF AtPiece, Kept, Begins
<1>3. CASE InCall(r)
  <2>1. call_no[r] \in DOMAIN calls /\ calls \in HostPrograms
    <3>1. calls \in Seq([op : HostOps, root : Peer, counts : [Peer -> Nat]])
      BY <1>1, ProgramsAssumption DEF HostTypes
    <3>2. Len(calls) \in Nat /\ DOMAIN calls = 1 .. Len(calls)
      BY <3>1
    <3>3. call_no[r] \in Nat \ {0} /\ call_no[r] <= Len(calls) /\ calls \in HostPrograms
      BY <1>1, <1>3 DEF HostTypes, InCall
    <3>4. QED
      BY <3>2, <3>3
  <2>2. MaxAt(call_no[r]) \in Nat
    BY <2>1, CallTypes
  <2>3. 0 \in 0 .. 0 /\ 0 = 0 * MaxAt(call_no[r])
    BY <2>2
  <2>4. IsPiece(call_no[r], turn[r], offset[r])
    BY <1>1, <2>3 DEF IsPiece, Begins
  <2>5. AtPiece(r)
    BY <1>1, <1>3, <2>4 DEF AtPiece, Begins
  <2>6. CountOf(r) \in Nat /\ offset[r] = 0 /\ Displacement(r) = 0
    BY <1>1, <1>3, <2>5, InItsCall, DisplacedBy DEF Begins
  <2>7. Kept(r) = {}
    BY <1>3, <2>6 DEF Kept
  <2>8. QED
    BY <2>5, <2>7
<1>4. QED
  BY <1>2, <1>3

LEMMA AtStartNext ==
  (\A r \in Peer : HostTypes /\ Begins(r) => AtPiece(r) /\ Kept(r) = {})'
BY AtStart, PTL

\* What is promised is as long as what is kept when all has been moved.
LEMMA PromisedLength ==
  ASSUME NEW n, NEW r, NEW c, c = calls[n], c.op \in HostOps
  PROVE  /\ Promised(n, r) = [k \in DOMAIN Promised(n, r) |-> Promised(n, r)[k]]
         /\ c.op \in {"reduce", "gather"} /\ r # c.root => DOMAIN Promised(n, r) = {}
         /\ c.op \in {"allreduce", "bcast"} \/ (c.op = "reduce" /\ r = c.root) =>
              DOMAIN Promised(n, r) = 0 .. c.counts[c.root] - 1
         /\ c.op = "allgatherv" =>
              \A e : e = ElementsBefore(c.counts, NumRanks) => DOMAIN Promised(n, r) = 0 .. e - 1
         /\ c.op \in {"allgather", "alltoall"} \/ (c.op = "gather" /\ r = c.root) =>
              DOMAIN Promised(n, r) = 0 .. NumRanks * c.counts[c.root] - 1
<1>1. CASE c.op = "allreduce" \/ (c.op = "reduce" /\ r = c.root)
  BY <1>1 DEF Promised
<1>2. CASE c.op = "bcast"
  BY <1>2 DEF Promised
<1>3. CASE c.op = "allgatherv"
  BY <1>3 DEF Promised
<1>4. CASE c.op = "allgather" \/ (c.op = "gather" /\ r = c.root)
  BY <1>4 DEF Promised
<1>5. CASE c.op = "alltoall"
  BY <1>5 DEF Promised
<1>6. CASE c.op \in {"reduce", "gather"} /\ r # c.root
  <2>1. Promised(n, r) = <<>>
    BY <1>6 DEF Promised
  <2>2. QED
    BY <1>6, <2>1
<1>7. QED
  BY <1>1, <1>2, <1>3, <1>4, <1>5, <1>6 DEF HostOps, SideBySide

LEMMA ReturnInv ==
  ASSUME HostInv, NEW r \in Peer, HostReturn(r)
  PROVE  HostInv'
<1>1. /\ calls' = calls /\ host_pc' = host_pc
      /\ send_buffer' = send_buffer /\ recv_buffer' = recv_buffer
      /\ results' = [results EXCEPT ![r] = Append(@, recvbuff[r])]
      /\ recvbuff' = [recvbuff EXCEPT ![r] = <<>>]
      /\ call_no' = [call_no EXCEPT ![r] = @ + 1]
      /\ turn' = [turn EXCEPT ![r] = 0] /\ offset' = [offset EXCEPT ![r] = 0]
      /\ InCall(r) /\ host_pc[r] = "copy" /\ offset[r] >= CountOf(r)
      /\ Op(r) = "allgatherv" => turn[r] = NumRanks - 1
  BY DEF HostReturn, AllMoved, LastTurn
<1>2. /\ HostTypes /\ PastAlike /\ KeptRight /\ ResultsRight
      /\ \A q \in Peer : AtPiece(q) /\ SentRight(q) /\ TakenRight(q)
  BY DEF HostInv
<1>3. /\ call_no'[r] = call_no[r] + 1 /\ turn'[r] = 0 /\ offset'[r] = 0
      /\ \A q \in Peer \ {r} :
           call_no'[q] = call_no[q] /\ turn'[q] = turn[q] /\ offset'[q] = offset[q]
  BY <1>1, <1>2 DEF HostTypes
<1>4. PICK n \in DOMAIN calls : n = call_no[r]
  BY <1>1, <1>2, InItsCall
<1>5. calls \in HostPrograms /\ n \in Nat \ {0} /\ 0 \in Peer
  BY <1>2, <1>4, SizesAssumption DEF HostTypes, Peer
<1>6. HostTypes'
  <2>1. call_no' \in [Peer -> Nat \ {0}]
    BY <1>1, <1>2 DEF HostTypes
  <2>2. Len(calls) \in Nat
    BY <1>4, <1>5, CallTypes
  <2>3. \A q \in Peer : call_no'[q] <= Len(calls) + 1
    BY <1>1, <1>2, <1>3, <1>4, <1>5, <2>2 DEF HostTypes, InCall
  <2>4. turn' \in [Peer -> Peer] /\ offset' \in [Peer -> Nat]
    BY <1>1, <1>2, <1>5 DEF HostTypes
  <2>5. QED
    BY <1>1, <1>2, <2>1, <2>3, <2>4 DEF HostTypes
<1>7. PastAlike'
  BY <1>2, ReturnPast
<1>8. AtPiece(r)' /\ Kept(r)' = {}
  BY <1>1, <1>3, <1>6, AtStartNext DEF Begins
<1>9. SentRight(r)' /\ TakenRight(r)'
  BY <1>1 DEF SentRight, TakenRight
<1>10. \A q \in Peer \ {r} : AtPiece(q)' /\ SentRight(q)' /\ TakenRight(q)'
  BY <1>1, <1>2, <1>3, Rests
<1>11. \A m, q : Promised(m, q)' = Promised(m, q)
  BY <1>1 DEF Promised
<1>12. KeptRight'
  <2>1. \A q \in Peer \ {r} : Kept(q)' = Kept(q)
    BY <1>1, <1>3, StaysAt
  <2>2. recvbuff = [q \in Peer |-> [j \in Kept(q) |-> Promised(call_no[q], q)[j]]]
    BY <1>2 DEF KeptRight
  <2>3. SUFFICES recvbuff' = [q \in Peer |-> [j \in Kept(q)' |-> Promised(call_no'[q], q)[j]]]
    BY <1>11 DEF KeptRight
  <2>4. [j \in Kept(r)' |-> Promised(call_no'[r], r)[j]] = <<>>
    BY <1>8
  <2>5. recvbuff' = [q \in Peer |-> IF q = r THEN <<>> ELSE recvbuff[q]]
    BY <1>1, <2>2
  <2>6. \A q \in Peer \ {r} :
          recvbuff[q] = [j \in Kept(q)' |-> Promised(call_no'[q], q)[j]]
    BY <1>3, <2>1, <2>2
  <2>7. QED
    BY <2>4, <2>5, <2>6
<1>13. recvbuff[r] = Promised(n, r)
  <2>1. recvbuff[r] = [j \in Kept(r) |-> Promised(n, r)[j]]
    BY <1>2, <1>4 DEF KeptRight
  <2>2. PICK c : c = calls[n] /\ c = CallOf(r)
    BY <1>4 DEF CallOf
  <2>3. PICK m : m = c.counts[c.root]
    OBVIOUS
  <2>4. c.op \in HostOps /\ Op(r) = c.op
    BY <1>4, <1>5, <2>2, CallTypes DEF Op, CallOf
  <2>5. Op(r) # "allgatherv" => Root(r) = c.root /\ CountOf(r) = m /\ Displacement(r) = 0
    BY <2>2, <2>3, <2>4 DEF Root, CountOf, Displacement
  <2>6. /\ Promised(n, r) = [k \in DOMAIN Promised(n, r) |-> Promised(n, r)[k]]
        /\ c.op \in {"reduce", "gather"} /\ r # c.root => DOMAIN Promised(n, r) = {}
        /\ c.op \in {"allreduce", "bcast"} \/ (c.op = "reduce" /\ r = c.root) =>
             DOMAIN Promised(n, r) = 0 .. m - 1
        /\ c.op = "allgatherv" =>
             \A e : e = ElementsBefore(c.counts, NumRanks) => DOMAIN Promised(n, r) = 0 .. e - 1
        /\ c.op \in {"allgather", "alltoall"} \/ (c.op = "gather" /\ r = c.root) =>
             DOMAIN Promised(n, r) = 0 .. NumRanks * m - 1
    <3>1. /\ Promised(n, r) = [k \in DOMAIN Promised(n, r) |-> Promised(n, r)[k]]
          /\ c.op \in {"reduce", "gather"} /\ r # c.root => DOMAIN Promised(n, r) = {}
      BY <2>2, <2>4, PromisedLength
    <3>2. c.op \in {"allreduce", "bcast"} \/ (c.op = "reduce" /\ r = c.root) =>
            DOMAIN Promised(n, r) = 0 .. m - 1
      BY <2>2, <2>3, <2>4, PromisedLength
    <3>3. c.op \in {"allgather", "alltoall"} \/ (c.op = "gather" /\ r = c.root) =>
            DOMAIN Promised(n, r) = 0 .. NumRanks * m - 1
      <4>1. c.op \in {"allgather", "alltoall"} \/ (c.op = "gather" /\ r = c.root) =>
              DOMAIN Promised(n, r) = 0 .. NumRanks * c.counts[c.root] - 1
        BY <2>2, <2>4, PromisedLength
      <4>2. QED
        BY <2>3, <4>1
    <3>4. c.op = "allgatherv" =>
            \A e : e = ElementsBefore(c.counts, NumRanks) => DOMAIN Promised(n, r) = 0 .. e - 1
      BY <2>2, <2>4, PromisedLength
    <3>5. QED
      BY <3>1, <3>2, <3>3, <3>4
  <2>7. /\ CountOf(r) \in Nat /\ offset[r] \in Nat /\ ~ (offset[r] < CountOf(r))
        /\ NumRanks \in Nat \ {0}
    BY <1>1, <1>2, InItsCall, SizesAssumption
  <2>8. Kept(r) = DOMAIN Promised(n, r)
    <3>1. CASE c.op \in {"reduce", "gather"} /\ r # c.root
      <4>1. Kept(r) = {}
        BY <1>1, <2>4, <2>5, <3>1 DEF Kept, Leaves
      <4>2. QED
        BY <2>6, <3>1, <4>1
    <3>2. CASE c.op \in {"allreduce", "bcast"} \/ (c.op = "reduce" /\ r = c.root)
      <4>1. Kept(r) = 0 .. 0 + m - 1
        BY <1>1, <2>4, <2>5, <2>7, <3>2 DEF Kept, Leaves, SideBySide
      <4>2. 0 + m - 1 = m - 1
        BY <2>4, <2>5, <2>7, <3>2
      <4>3. QED
        BY <2>6, <3>2, <4>1, <4>2
    <3>3. CASE c.op = "allgatherv"
      <4>1. Leaves(r) /\ Op(r) \notin SideBySide /\ turn[r] = NumRanks - 1
        BY <1>1, <2>4, <3>3 DEF Leaves, SideBySide
      <4>2. Kept(r) = 0 .. Displacement(r) + CountOf(r) - 1
        BY <1>1, <2>7, <4>1 DEF Kept
      <4>3. /\ Displacement(r) = ElementsBefore(c.counts, NumRanks - 1)
            /\ c.counts \in [Peer -> Nat] /\ CountOf(r) = c.counts[NumRanks - 1]
        BY <1>1, <1>2, <2>2, <2>4, <3>3, <4>1, DisplacedBy
      <4>4. PICK t \in Peer : t = NumRanks - 1 /\ t + 1 = NumRanks
        BY <2>7 DEF Peer
      <4>5. ElementsBefore(c.counts, t + 1) = ElementsBefore(c.counts, t) + c.counts[t]
        BY <4>3, Elements
      <4>6. Displacement(r) + CountOf(r) = ElementsBefore(c.counts, NumRanks)
        BY <4>3, <4>4, <4>5
      <4>7. PICK e : e = ElementsBefore(c.counts, NumRanks)
        OBVIOUS
      <4>8. Displacement(r) \in Nat /\ Kept(r) = 0 .. e - 1
        BY <1>1, <1>2, <2>7, <4>2, <4>6, <4>7, DisplacedBy
      <4>9. DOMAIN Promised(n, r) = 0 .. e - 1
        BY <2>6, <3>3, <4>7
      <4>10. QED
        BY <4>8, <4>9
    <3>4. CASE c.op \in {"allgather", "alltoall"} \/ (c.op = "gather" /\ r = c.root)
      <4>1. Leaves(r) /\ Op(r) \in SideBySide /\ CountOf(r) = m
        BY <2>4, <2>5, <3>4 DEF Leaves, SideBySide
      <4>2. Kept(r) = IF offset[r] = 0 THEN {} ELSE 0 .. NumRanks * m - 1
        BY <1>1, <4>1 DEF Kept
      <4>3. offset[r] = 0 => m = 0 /\ NumRanks * m = 0
        BY <2>7, <4>1
      <4>4. QED
        BY <2>6, <3>4, <4>2, <4>3
    <3>5. QED
      BY <2>4, <3>1, <3>2, <3>3, <3>4 DEF HostOps, SideBySide
  <2>9. QED
    BY <2>1, <2>6, <2>8
<1>14. ResultsRight'
  <2>1. PICK S : S = Outcomes
    OBVIOUS
  <2>2. Outcomes' = S
    BY <1>1, <1>11, <2>1 DEF Outcomes
  <2>3. Promised(n, r) \in S
    BY <1>4, <2>1 DEF Outcomes
  <2>4. /\ results \in [Peer -> Seq(S)]
        /\ \A q \in Peer : /\ Len(results[q]) = call_no[q] - 1
                           /\ \A m \in 1 .. call_no[q] - 1 : results[q][m] = Promised(m, q)
    BY <1>2, <2>1 DEF ResultsRight
  <2>5. results' = [results EXCEPT ![r] = Append(results[r], Promised(n, r))]
    BY <1>1, <1>13
  <2>6. results' \in [Peer -> Seq(S)]
    BY <2>3, <2>4, <2>5
  <2>7. /\ results'[r] = Append(results[r], Promised(n, r)) /\ results[r] \in Seq(S)
        /\ \A q \in Peer \ {r} : results'[q] = results[q]
    BY <2>4, <2>5
  <2>8. /\ Len(results'[r]) = call_no'[r] - 1
        /\ \A m \in 1 .. call_no'[r] - 1 : results'[r][m] = Promised(m, r)
    <3>1. Len(results[r]) = n - 1 /\ call_no'[r] - 1 = n
      BY <1>3, <1>4, <1>5, <2>4
    <3>2. /\ Len(results'[r]) = n /\ results'[r][n] = Promised(n, r)
          /\ \A m \in 1 .. n - 1 : results'[r][m] = results[r][m]
      BY <1>5, <2>3, <2>7, <3>1
    <3>3. \A m \in 1 .. n - 1 : results[r][m] = Promised(m, r)
      BY <1>4, <2>4
    <3>4. ASSUME NEW m \in 1 .. n PROVE results'[r][m] = Promised(m, r)
      <4>1. m = n \/ m \in 1 .. n - 1
        BY <1>5
      <4>2. QED
        BY <3>2, <3>3, <4>1
    <3>5. QED
      BY <3>1, <3>2, <3>4
  <2>9. \A q \in Peer : /\ Len(results'[q]) = call_no'[q] - 1
                        /\ \A m \in 1 .. call_no'[q] - 1 : results'[q][m] = Promised(m, q)
    BY <1>3, <2>4, <2>7, <2>8
  <2>10. QED
    BY <1>11, <2>2, <2>6, <2>9 DEF ResultsRight
<1>15. QED
  BY <1>6, <1>7, <1>8, <1>9, <1>10, <1>12, <1>14 DEF HostInv

LEMMA HostStarts ==
  ASSUME HostInit
  PROVE  HostInv
<1>1. /\ calls \in HostPrograms /\ call_no = [r \in Peer |-> 1]
      /\ host_pc = [r \in Peer |-> "copy"] /\ turn = [r \in Peer |-> 0]
      /\ offset = [r \in Peer |-> 0] /\ recvbuff = [r \in Peer |-> <<>>]
      /\ results = [r \in Peer |-> <<>>]
  BY DEF HostInit
<1>2. 0 \in Peer
  BY SizesAssumption DEF Peer
<1>3. Len(calls) \in Nat /\ DOMAIN calls = 1 .. Len(calls)
  <2>1. calls \in Seq([op : HostOps, root : Peer, counts : [Peer -> Nat]])
    BY <1>1, ProgramsAssumption
  <2>2. QED
    BY <2>1
<1>4. HostTypes
  <2>1. /\ DOMAIN send_buffer = Peer /\ send_buffer = [r \in Peer |-> send_buffer[r]]
        /\ DOMAIN recv_buffer = Peer /\ recv_buffer = [r \in Peer |-> recv_buffer[r]]
    BY DEF HostInit
  <2>2. QED
    BY <1>1, <1>2, <1>3, <2>1 DEF HostTypes
<1>5. \A r \in Peer : Begins(r)
  BY <1>1 DEF Begins
<1>6. \A r \in Peer : AtPiece(r) /\ Kept(r) = {}
  BY <1>4, <1>5, AtStart
<1>7. \A r \in Peer : SentRight(r) /\ TakenRight(r)
  BY <1>1 DEF SentRight, TakenRight
<1>8. PastAlike
  <2>1. ASSUME NEW n \in DOMAIN calls, NEW t \in Peer, NEW o \in 0 .. CountAt(n, t) - 1,
               NEW r \in Peer
        PROVE  ~ IsPast(r, n, t, o)
    <3>1. n \in Nat /\ 1 <= n /\ t \in Nat /\ o \in Nat
      BY <1>1, <1>3, SizesAssumption, CallTypes DEF Peer
    <3>2. QED
      BY <1>1, <3>1 DEF IsPast
  <2>2. QED
    BY <2>1 DEF PastAlike
<1>9. KeptRight
  <2>1. \A r \in Peer : [j \in Kept(r) |-> Promised(call_no[r], r)[j]] = <<>>
    BY <1>6
  <2>2. QED
    BY <1>1, <2>1 DEF KeptRight
<1>10. ResultsRight
  BY <1>1 DEF ResultsRight
<1>11. QED
  BY <1>4, <1>6, <1>7, <1>8, <1>9, <1>10 DEF HostInv

LEMMA HostStays ==
  ASSUME HostInv, [HostNext]_hostVars
  PROVE  HostInv'
<1>1. CASE Collective
  BY <1>1, CollectiveInv
<1>2. ASSUME NEW r \in Peer, CopyIn(r) \/ CopyOut(r) \/ NextTurn(r) \/ HostReturn(r)
      PROVE  HostInv'
  BY <1>2, CopyInInv, CopyOutInv, NextTurnInv, ReturnInv
<1>3. CASE UNCHANGED hostVars
  <2>1. /\ calls' = calls /\ call_no' = call_no /\ host_pc' = host_pc /\ turn' = turn
        /\ offset' = offset /\ send_buffer' = send_buffer /\ recv_buffer' = recv_buffer
        /\ recvbuff' = recvbuff /\ results' = results
    BY <1>3 DEF hostVars
  <2>2. HostTypes'
    BY <2>1 DEF HostTypes, HostInv
  <2>3. PastAlike'
    BY <2>1 DEF PastAlike, IsPast, CountAt, IsPiece, MaxAt, HostInv
  <2>4. KeptRight' /\ ResultsRight'
    BY <2>1, KeptRests, ResultsRest DEF HostInv
  <2>5. \A r \in Peer : AtPiece(r)' /\ SentRight(r)' /\ TakenRight(r)'
    BY <2>1, Rests DEF HostInv
  <2>6. QED
    BY <2>2, <2>3, <2>4, <2>5 DEF HostInv
<1>4. QED
  BY <1>1, <1>2, <1>3 DEF HostNext, HostDone

\* For any number of ranks, any size of the buffers and any calls: the ranks pass the
\* same collectives, and what is in the buffers and in the receive buffers is right.
THEOREM HostInvariance == HostCalls => []HostInv
<1>1. HostInit => HostInv
  BY HostStarts
<1>2. HostInv /\ [HostNext]_hostVars => HostInv'
  BY HostStays
<1>3. QED
  BY <1>1, <1>2, PTL DEF HostCalls

\* And so each call leaves what the collective of its name promises.
THEOREM DeliveredAlways == HostCalls => []Delivered
<1>1. HostInv => Delivered
  <2>1. SUFFICES ASSUME HostInv, NEW r \in Peer, NEW n \in DOMAIN results[r]
                 PROVE  results[r][n] = Promised(n, r)
    BY DEF Delivered
  <2>2. PICK S : S = Outcomes
    OBVIOUS
  <2>3. /\ results[r] \in Seq(S) /\ Len(results[r]) = call_no[r] - 1
        /\ \A m \in 1 .. call_no[r] - 1 : results[r][m] = Promised(m, r)
    BY <2>1, <2>2 DEF HostInv, ResultsRight
  <2>4. n \in 1 .. call_no[r] - 1
    BY <2>3
  <2>5. QED
    BY <2>3, <2>4
<1>2. QED
  BY <1>1, HostInvariance, PTL
=============================================================================
