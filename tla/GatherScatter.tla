---------------------------- MODULE GatherScatter ----------------------------
(***************************************************************************)
(* The kernels that gather rows from a table every thread can address, and *)
(* scatter rows into it.                                                   *)
(*                                                                         *)
(* A group of lanes, a warp or a part of one, takes every so many rows of  *)
(* the batch; its lanes move vectors of neighboring columns, as wide as    *)
(* the layouts of both tensors allow.  Short rows of a gather go to parts  *)
(* of warps.  Otherwise a group has a share of its block's shared memory,  *)
(* and if rows fit into it a gather collects a row there before it is      *)
(* copied out, and a scatter copies several rows in before they are moved. *)
(*                                                                         *)
(* Rows move between "table" and "io", the tensor of the caller: the       *)
(* output of a gather or the input of a scatter.  Addresses count elements *)
(* from where the memory of a tensor begins, and what is stored is the     *)
(* address it was read from.                                               *)
(***************************************************************************)
EXTENDS IndexSort

CONSTANTS
  Jobs,         \* the calls
  SortBytes,    \* of the longest row that is gathered in the order of the indices
  VectorBytes,  \* of the widest vector a lane moves
  AsyncBytes,   \* the alignment of copies into shared memory
  WarpSize, WarpsPerBlock,
  GatherBytes, ScatterBytes,  \* shared memory of a block
  Unwritten, Garbage          \* in a cell nobody wrote, and in shared memory at first

\* The sizes in bytes are powers of two, and each warp of a block has room for vectors.
ASSUME BytesAssumption ==
  /\ VectorBytes \in Nat \ {0} /\ AsyncBytes \in Nat \ {0} /\ VectorBytes % AsyncBytes = 0
  /\ \A a, b \in 1 .. VectorBytes :
       VectorBytes % a = 0 /\ VectorBytes % b = 0 /\ a <= b => b % a = 0
  /\ WarpSize \in Nat \ {0} /\ WarpsPerBlock \in Nat \ {0}
  /\ \A bytes \in {GatherBytes, ScatterBytes} :
       bytes \in Nat \ {0} /\ bytes % (WarpsPerBlock * VectorBytes) = 0
  /\ SortBytes \in Nat /\ IndexRange \in Nat \ {0} /\ Unwritten \notin Nat

VARIABLES
  job,     \* what is called
  todo,    \* todo[g][l]: the vectors lane l of group g has yet to move
  turn,    \* turn[g]: how many batches of rows g is done with, if its lanes go together
  loaded,  \* loaded[g]: the rows of the current batch of g are in its share
  shared,  \* shared[b]: the shared memory of block b
  cells    \* the tensor that is written

rowVars == <<job, todo, turn, loaded, shared, cells>>

-----------------------------------------------------------------------------
\* How many elements a lane moves at once: as many as divide the first address,
\* the columns and the stride.
AlignmentOf(j, elt, start, stride) ==
  Max({a \in 1 .. VectorBytes \div elt :
         /\ (VectorBytes \div elt) % a = 0
         /\ start % a = 0 /\ j.size % a = 0 /\ stride % a = 0})

\* That of the table begins at an aligned address, the caller's memory anywhere.
Alignment(j) ==
  Min({AlignmentOf(j, j.table.elt, j.table.offset, j.table.stride),
       AlignmentOf(j, j.io.elt, j.io.base + j.io.offset, j.io.stride)})

Threads(j) == j.size \div Alignment(j)

SubWarp(j) == j.op = "gather" /\ Threads(j) < WarpSize

\* The lanes of a group: a power of two.
Width(j) ==
  IF SubWarp(j) THEN Max({w \in 1 .. Threads(j) : WarpSize % w = 0}) ELSE WarpSize

GroupsPerBlock(j) == (WarpsPerBlock * WarpSize) \div Width(j)
Groups(j) == 0 .. (j.blocks * GroupsPerBlock(j)) - 1
Lanes(j)  == 0 .. Width(j) - 1

\* The elements in the shared memory of a block, and in the share of a warp.
SharedSize(j) == (IF j.op = "gather" THEN GatherBytes ELSE ScatterBytes) \div j.io.elt
Share(j)      == SharedSize(j) \div WarpsPerBlock
ShareStart(j, g) == (g % WarpsPerBlock) * Share(j)

\* A scatter's copies into shared memory begin and end at aligned addresses.
Async(j)   == IF j.io.elt > AsyncBytes THEN 1 ELSE AsyncBytes \div j.io.elt
OffTail(j) == j.io.offset % Async(j)

\* Rows are slices of the rows of a matrix and indices name rows of the table.  What a
\* scatter copies from begins at an aligned address.
ASSUME JobsAssumption ==
  \A j \in Jobs :
    /\ j.op \in {"gather", "scatter"} /\ j.host \in BOOLEAN
    /\ j.size \in Nat \ {0} /\ j.blocks \in Nat \ {0}
    /\ \A tensor \in {j.table, j.io} :
         /\ tensor.elt \in Nat \ {0} /\ VectorBytes % tensor.elt = 0
         /\ tensor.base \in Nat /\ tensor.offset \in Nat
         /\ tensor.stride \in Nat /\ j.size <= tensor.stride
    /\ j.table.rows \in Nat /\ j.indices \in Seq(Int)
    /\ \A i \in DOMAIN j.indices : j.indices[i] < j.table.rows
    /\ j.op = "scatter" => j.io.base % Async(j) = 0

RoundUpTo(x, a) == ((x + a - 1) \div a) * a

\* Mutant of RowsInShare: the share need not hold what is before the first row.
RowsInShareOnly(j) == Share(j) \div j.io.stride

RowsInShare(j) == (Share(j) - Async(j)) \div j.io.stride

UsesShare(j) ==
  IF j.op = "gather" THEN ~SubWarp(j) /\ Share(j) >= j.size ELSE RowsInShare(j) > 0

\* The rows of a batch.
Lines(j) == IF j.op = "scatter" /\ UsesShare(j) THEN RowsInShare(j) ELSE 1

-----------------------------------------------------------------------------
\* The rows, counted from 0 in the order in which the kernel takes them: short rows
\* in host memory are gathered by increasing index.
Count(j) == Len(j.indices)
SortedIds(j) == j.op = "gather" /\ j.host /\ j.size * j.table.elt <= SortBytes
TakenOrder(j) == IF SortedIds(j) THEN Sorted(j.indices) ELSE [i \in DOMAIN j.indices |-> i]
RawRow(j, i) == TakenOrder(j)[i + 1] - 1
Index(j, i)  == j.indices[TakenOrder(j)[i + 1]]

BatchOf(j, i) == (i \div Lines(j)) \div (j.blocks * GroupsPerBlock(j))
GroupOf(j, i) == (i \div Lines(j)) % (j.blocks * GroupsPerBlock(j))

TableAt(j, i) == j.table.offset + j.table.stride * Index(j, i)
IoAt(j, i)    == j.io.offset + j.io.stride * RawRow(j, i)

\* The vectors a lane moves; vector <<i, c>> begins at column c of row i.
Vectors(j, g, l) ==
  {v \in (0 .. Count(j) - 1) \X (0 .. j.size - 1) :
     /\ GroupOf(j, v[1]) = g /\ Index(j, v[1]) >= 0
     /\ v[2] % Alignment(j) = 0 /\ (v[2] \div Alignment(j)) % Width(j) = l}

\* Where it is in the share of the group.
ShareAt(j, v) ==
  ShareStart(j, GroupOf(j, v[1])) + v[2]
  + (IF j.op = "gather" THEN 0 ELSE OffTail(j) + (v[1] % Lines(j)) * j.io.stride)

\* The rows of the current batch of a group.
BatchRows(g) ==
  {i \in 0 .. Count(job) - 1 : GroupOf(job, i) = g /\ BatchOf(job, i) = turn[g]}
Block(g) == g \div GroupsPerBlock(job)

\* The lanes of a group go through the rows together if they use a share, and
\* always in a scatter.
Together == job.op = "scatter" \/ UsesShare(job)

\* The cells from the given one on take the values of a sequence that counts from 0.
StoredFrom(memory, at, values) ==
  [x \in DOMAIN memory |-> IF x - at \in DOMAIN values THEN values[x - at] ELSE memory[x]]

DestSize(j) ==
  IF j.op = "gather" THEN j.io.offset + j.io.stride * Count(j)
                     ELSE j.table.offset + j.table.stride * j.table.rows

RowsInit ==
  /\ job \in Jobs
  /\ todo = [g \in Groups(job) |-> [l \in Lanes(job) |-> Vectors(job, g, l)]]
  /\ turn = [g \in Groups(job) |-> 0]
  /\ loaded = [g \in Groups(job) |-> FALSE]
  /\ shared = [b \in 0 .. job.blocks - 1 |-> [x \in 0 .. SharedSize(job) - 1 |-> Garbage]]
  /\ cells = [x \in 0 .. DestSize(job) - 1 |-> Unwritten]

\* A scatter's group copies the rows of its batch, with what is before the first one.
LoadRows(g) ==
  LET first  == CHOOSE i \in BatchRows(g) : \A k \in BatchRows(g) : i <= k
      size   == OffTail(job) + Cardinality(BatchRows(g)) * job.io.stride
      copied == IF Count(job) - 1 \in BatchRows(g) THEN size ELSE RoundUpTo(size, Async(job))
      input  == [x \in 0 .. copied - 1 |-> IoAt(job, first) - OffTail(job) + x]
  IN /\ job.op = "scatter" /\ UsesShare(job) /\ BatchRows(g) # {} /\ ~loaded[g]
     /\ shared' = [shared EXCEPT ![Block(g)] = StoredFrom(@, ShareStart(job, g), input)]
     /\ loaded' = [loaded EXCEPT ![g] = TRUE]
     /\ UNCHANGED <<job, todo, turn, cells>>

\* A lane moves its next vector: between the tensors, or from or to the share.
MoveVector(g, l) ==
  \E v \in todo[g][l] :
    LET moved == [x \in 0 .. Alignment(job) - 1 |->
                    IF job.op = "gather" THEN TableAt(job, v[1]) + v[2] + x
                    ELSE IF UsesShare(job) THEN shared[Block(g)][ShareAt(job, v) + x]
                    ELSE IoAt(job, v[1]) + v[2] + x]
        at == v[2] + (IF job.op = "gather" THEN IoAt(job, v[1]) ELSE TableAt(job, v[1]))
    IN /\ \A u \in todo[g][l] : v[1] < u[1] \/ (v[1] = u[1] /\ v[2] <= u[2])
       /\ Together => v[1] \in BatchRows(g)
       /\ job.op = "scatter" /\ UsesShare(job) => loaded[g]
       /\ todo' = [todo EXCEPT ![g][l] = @ \ {v}]
       /\ IF job.op = "gather" /\ UsesShare(job)
            THEN /\ shared' =
                      [shared EXCEPT ![Block(g)] = StoredFrom(@, ShareAt(job, v), moved)]
                 /\ UNCHANGED cells
            ELSE /\ cells' = StoredFrom(cells, at, moved)
                 /\ UNCHANGED shared
       /\ UNCHANGED <<job, turn, loaded>>

\* The lanes of a group are done with a batch; a gather copies its row out.
NextBatch(g) ==
  /\ Together /\ BatchRows(g) # {}
  /\ \A l \in Lanes(job) : \A v \in todo[g][l] : v[1] \notin BatchRows(g)
  /\ job.op = "scatter" /\ UsesShare(job) => loaded[g]
  /\ turn'  = [turn EXCEPT ![g] = @ + 1]
  /\ loaded' = [loaded EXCEPT ![g] = FALSE]
  /\ LET i == CHOOSE i \in BatchRows(g) : TRUE
         collected ==
           [x \in 0 .. job.size - 1 |-> shared[Block(g)][ShareStart(job, g) + x]]
     IN cells' = IF job.op = "gather" /\ Index(job, i) >= 0
                  THEN StoredFrom(cells, IoAt(job, i), collected) ELSE cells
  /\ UNCHANGED <<job, todo, shared>>

RowsDone ==
  \A g \in Groups(job) : /\ \A l \in Lanes(job) : todo[g][l] = {}
                         /\ Together => BatchRows(g) = {}

RowsFinished == RowsDone /\ UNCHANGED rowVars

RowsNext ==
  \/ \E g \in Groups(job) :
       LoadRows(g) \/ NextBatch(g) \/ \E l \in Lanes(job) : MoveVector(g, l)
  \/ RowsFinished

RowsSpec == RowsInit /\ [][RowsNext]_rowVars

-----------------------------------------------------------------------------
\* Row i of the caller's tensor, and the row of the table its index names.
CallersRow(i) == job.io.offset + job.io.stride * i
TablesRow(i)  == job.table.offset + job.table.stride * job.indices[i + 1]

Named ==
  {v \in (0 .. Count(job) - 1) \X (0 .. job.size - 1) : job.indices[v[1] + 1] >= 0}
From(v) == v[2] + IF job.op = "gather" THEN TablesRow(v[1]) ELSE CallersRow(v[1])
To(v)   == v[2] + IF job.op = "gather" THEN CallersRow(v[1]) ELSE TablesRow(v[1])

\* Whatever the layouts of the tensors and the order of the lanes, every row whose
\* index names an entry is moved to its place, and nothing else is written: the
\* lanes of a row cover its columns, the groups the rows, and what one group has in
\* shared memory is not overwritten by its neighbors.  Vectors begin at addresses
\* that are multiples of their size.  Of rows with the same index any one may stay.
RowsMoved ==
  /\ \A x \in DOMAIN cells : cells[x] # Unwritten =>
       \E v \in Named : To(v) = x /\ From(v) = cells[x]
  /\ RowsDone => \A v \in Named : cells[To(v)] # Unwritten
  /\ \A g \in Groups(job), l \in Lanes(job) : \A v \in todo[g][l] :
       /\ (TableAt(job, v[1]) + v[2]) % Alignment(job) = 0
       /\ (job.io.base + IoAt(job, v[1]) + v[2]) % Alignment(job) = 0
       /\ UsesShare(job) => ShareAt(job, v) % Alignment(job) = 0
=============================================================================
