--------------------------- MODULE MCMemoryHandle ---------------------------
(* Memory: the handles of three ranks, of every kind, and the temporary      *)
(* memory of two threads.  A behaviour is about one of the two.              *)
EXTENDS MemoryHandle, TempMemory

VARIABLE part  \* which of them

MCThread == {1, 2}
MCKind   == {"sysv", "posix", "device", "distributed"}

\* One block of the size class of the result; two of different kinds.
MCOperations ==
  {[temps |-> <<[kind |-> "device", size |-> 3]>>, output |-> 2],
   [temps |-> <<[kind |-> "pinned", size |-> 3], [kind |-> "device", size |-> 4]>>,
    output |-> 3]}

-----------------------------------------------------------------------------
MCInit == /\ part \in {"handles", "temporary"}
          /\ Init
          /\ part = "temporary" \/ env = "default"
          /\ TempInit

MCNext ==
  \/ part = "handles" /\ Next /\ UNCHANGED <<part, tempVars>>
  \/ part = "temporary" /\ TempNext /\ UNCHANGED <<part, vars>>

allVars == <<part, vars, tempVars>>

MCSpec ==
  /\ MCInit /\ [][MCNext]_allVars
  /\ \A r \in Rank : WF_allVars(part = "handles" /\ Step(r) /\ UNCHANGED <<part, tempVars>>)

-----------------------------------------------------------------------------
\* Every call on handles returns at every rank.
HandleCallsReturn == part = "handles" => CallsReturn
=============================================================================
