--------------------------- MODULE HostCollectives ---------------------------
(***************************************************************************)
(* Collectives on host memory, over NCCL: data is copied into a pinned     *)
(* buffer, which is all that NCCL sees, moved in pieces that fit, and      *)
(* copied out of another one.  The buffers belong to the communicator and  *)
(* keep what the call before left in them.                                 *)
(***************************************************************************)
EXTENDS Integers, Sequences, Functions

CONSTANTS
  NumRanks, \* the size of the communicator
  PerRank,  \* HOST_BUFFER_SIZE_PER_RANK, in elements
  HostPrograms  \* sequences of calls: records of op, root and counts, where
            \* counts[r] is what rank r has; all the same but for allgatherv

Peer == 0 .. NumRanks - 1

ASSUME SizesAssumption == NumRanks \in Nat \ {0} /\ PerRank \in Nat \ {0}

\* The ranks' data lie side by side in the buffers of these.
SideBySide == {"allgather", "gather", "alltoall"}

HostOps == {"allreduce", "bcast", "reduce", "allgatherv"} \cup SideBySide

\* What the callers of those send fits into the share of a rank.
ASSUME ProgramsAssumption ==
  \A p \in HostPrograms :
    /\ p \in Seq([op : HostOps, root : Peer, counts : [Peer -> Nat]])
    /\ \A n \in DOMAIN p :
         /\ p[n].op # "allgatherv" => \A r, s \in Peer : p[n].counts[r] = p[n].counts[s]
         /\ p[n].op \in SideBySide => \A r \in Peer : p[n].counts[r] <= PerRank

VARIABLES
  calls,       \* the calls the ranks make, one after the other
  call_no,     \* call_no[r]: the one rank r is in
  host_pc,     \* copy, in (the collective), or out
  turn,        \* allgatherv: the rank whose data is broadcast
  offset,      \* the element a piece starts with
  send_buffer, \* send_buffer[r]: host_send_buffer_
  recv_buffer, \* recv_buffer[r]: host_recv_buffer_
  recvbuff,    \* recvbuff[r]: where the call of r leaves what it got
  results      \* results[r][n]: what call n has left there

hostVars ==
  <<calls, call_no, host_pc, turn, offset, send_buffer, recv_buffer, recvbuff, results>>

HostInit ==
  /\ calls \in HostPrograms
  /\ call_no = [r \in Peer |-> 1]
  /\ host_pc = [r \in Peer |-> "copy"]
  /\ turn = [r \in Peer |-> 0] /\ offset = [r \in Peer |-> 0]
  /\ send_buffer = [r \in Peer |-> [k \in 0 .. PerRank * NumRanks - 1 |-> <<>>]]
  /\ recv_buffer = send_buffer
  /\ recvbuff = [r \in Peer |-> <<>>] /\ results = recvbuff

InCall(r) == call_no[r] <= Len(calls)
CallOf(r) == calls[call_no[r]]
Op(r)     == CallOf(r).op

\* What sendbuff holds; it ends after the elements of its rank, and for alltoall there
\* are so many for each rank.
Sent(n, r, k) ==
  LET size == calls[n].counts[r] * (IF calls[n].op = "alltoall" THEN NumRanks ELSE 1)
  IN  IF k < size THEN <<n, r, k>> ELSE <<"stray">>

Root(r)     == IF Op(r) = "allgatherv" THEN turn[r] ELSE CallOf(r).root
CountOf(r)  == CallOf(r).counts[Root(r)]
MaxCount(r) == IF Op(r) \in SideBySide THEN PerRank ELSE PerRank * NumRanks

EltCount(r) ==
  IF CountOf(r) - offset[r] > MaxCount(r) THEN MaxCount(r) ELSE CountOf(r) - offset[r]

\* As many elements as NCCL is asked for: the pieces of the first three, the whole
\* call's of the others.
Moved(r) == IF Op(r) \in SideBySide THEN CountOf(r) ELSE EltCount(r)

\* A buffer once a piece has been copied into it.
With(buffer, piece) ==
  [x \in DOMAIN piece \cup DOMAIN buffer |-> IF x \in DOMAIN piece THEN piece[x] ELSE buffer[x]]

\* What a rank copies: of what it has for each rank, if it has that.
Piece(r) ==
  IF Op(r) = "alltoall"
  THEN [j \in 0 .. NumRanks * EltCount(r) - 1 |->
          Sent(call_no[r], r, offset[r] + (j \div EltCount(r)) * CountOf(r) + (j % EltCount(r)))]
  ELSE [j \in 0 .. EltCount(r) - 1 |-> Sent(call_no[r], r, offset[r] + j)]

CopyIn(r) ==
  /\ InCall(r) /\ host_pc[r] = "copy" /\ offset[r] < CountOf(r)
  /\ send_buffer' = [send_buffer EXCEPT ![r] = With(@, Piece(r))]
  /\ host_pc' = [host_pc EXCEPT ![r] = "in"]
  /\ UNCHANGED <<calls, call_no, turn, offset, recv_buffer, recvbuff, results>>

\* What NCCL leaves in the receive buffer of rank r.
Received(r) ==
  LET n == Moved(r)
  IN  CASE Op(r) = "allreduce" \/ (Op(r) = "reduce" /\ r = Root(r)) ->
             [k \in 0 .. n - 1 |-> [s \in Peer |-> send_buffer[s][k]]]
        [] Op(r) \in {"bcast", "allgatherv"} -> [k \in 0 .. n - 1 |-> send_buffer[Root(r)][k]]
        [] Op(r) = "allgather" \/ (Op(r) = "gather" /\ r = Root(r)) ->
             [k \in 0 .. NumRanks * n - 1 |-> send_buffer[k \div n][k % n]]
        [] Op(r) = "alltoall" ->
             [k \in 0 .. NumRanks * n - 1 |-> send_buffer[k \div n][r * n + (k % n)]]
        [] OTHER -> <<>>

\* NCCL runs the collective when the kernels of all ranks have come to it.
Collective ==
  /\ \A r \in Peer : InCall(r) /\ host_pc[r] = "in"
  /\ recv_buffer' = [r \in Peer |-> With(recv_buffer[r], Received(r))]
  /\ host_pc' = [r \in Peer |-> "out"]
  /\ UNCHANGED <<calls, call_no, turn, offset, send_buffer, recvbuff, results>>

\* Where the data of the rank whose turn it is starts: displs.
Displacement(r) ==
  IF Op(r) = "allgatherv" THEN SumFunctionOnSet(CallOf(r).counts, 0 .. turn[r] - 1) ELSE 0

\* Mutant of Stride: each rank has its share of the buffer.
StrideOfShares(r) == PerRank

\* How far apart the pieces of the ranks lie in the receive buffer.
Stride(r) == EltCount(r)

Taken(r) ==
  IF Op(r) \in SideBySide
  THEN [j \in {i * CountOf(r) + offset[r] + k : i \in Peer, k \in 0 .. EltCount(r) - 1} |->
          recv_buffer[r][(j \div CountOf(r)) * Stride(r) + ((j % CountOf(r)) - offset[r])]]
  ELSE [j \in Displacement(r) + offset[r] .. Displacement(r) + offset[r] + EltCount(r) - 1 |->
          recv_buffer[r][j - (Displacement(r) + offset[r])]]

CopyOut(r) ==
  /\ host_pc[r] = "out"
  /\ recvbuff' = IF Op(r) \in {"reduce", "gather"} /\ r # Root(r) THEN recvbuff
                 ELSE [recvbuff EXCEPT ![r] = With(@, Taken(r))]
  /\ offset' = [offset EXCEPT ![r] = @ + MaxCount(r)]
  /\ host_pc' = [host_pc EXCEPT ![r] = "copy"]
  /\ UNCHANGED <<calls, call_no, turn, send_buffer, recv_buffer, results>>

AllMoved(r) == InCall(r) /\ host_pc[r] = "copy" /\ offset[r] >= CountOf(r)
LastTurn(r) == Op(r) # "allgatherv" \/ turn[r] = NumRanks - 1

NextTurn(r) ==
  /\ AllMoved(r) /\ ~LastTurn(r)
  /\ turn' = [turn EXCEPT ![r] = @ + 1]
  /\ offset' = [offset EXCEPT ![r] = 0]
  /\ UNCHANGED <<calls, call_no, host_pc, send_buffer, recv_buffer, recvbuff, results>>

HostReturn(r) ==
  /\ AllMoved(r) /\ LastTurn(r)
  /\ results' = [results EXCEPT ![r] = Append(@, recvbuff[r])]
  /\ recvbuff' = [recvbuff EXCEPT ![r] = <<>>]
  /\ call_no' = [call_no EXCEPT ![r] = @ + 1]
  /\ turn' = [turn EXCEPT ![r] = 0]
  /\ offset' = [offset EXCEPT ![r] = 0]
  /\ UNCHANGED <<calls, host_pc, send_buffer, recv_buffer>>

HostDone == (\A r \in Peer : ~InCall(r)) /\ UNCHANGED hostVars

HostNext ==
  \/ Collective \/ HostDone
  \/ \E r \in Peer : CopyIn(r) \/ CopyOut(r) \/ NextTurn(r) \/ HostReturn(r)

HostCalls == HostInit /\ [][HostNext]_hostVars

-----------------------------------------------------------------------------
\* The elements of the ranks before s, in a call of allgatherv.
ElementsBefore(counts, s) == SumFunctionOnSet(counts, 0 .. s - 1)

\* The rank that element k comes from.
FromRank(counts, k) ==
  CHOOSE s \in Peer : ElementsBefore(counts, s) <= k /\ k < ElementsBefore(counts, s + 1)

\* What MPI's collectives of these names leave in the receive buffer of rank r.
Promised(n, r) ==
  LET c == calls[n]
      m == c.counts[c.root]
      from(k) == FromRank(c.counts, k)
  IN  CASE c.op = "allreduce" \/ (c.op = "reduce" /\ r = c.root) ->
             [k \in 0 .. m - 1 |-> [s \in Peer |-> <<n, s, k>>]]
        [] c.op = "bcast" -> [k \in 0 .. m - 1 |-> <<n, c.root, k>>]
        [] c.op = "allgatherv" ->
             [k \in 0 .. ElementsBefore(c.counts, NumRanks) - 1 |->
                <<n, from(k), k - ElementsBefore(c.counts, from(k))>>]
        [] c.op = "allgather" \/ (c.op = "gather" /\ r = c.root) ->
             [k \in 0 .. NumRanks * m - 1 |-> <<n, k \div m, k % m>>]
        [] c.op = "alltoall" ->
             [k \in 0 .. NumRanks * m - 1 |-> <<n, k \div m, r * m + (k % m)>>]
        [] OTHER -> <<>>

\* However long the data is and whatever the buffers hold from earlier calls, each call
\* leaves in its receive buffer what the collective of its name promises: pieces are cut
\* and put together at the same places on all ranks, and nothing stray is delivered.
Delivered ==
  \A r \in Peer : \A n \in DOMAIN results[r] : results[r][n] = Promised(n, r)
=============================================================================
