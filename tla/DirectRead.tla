------------------------------ MODULE DirectRead ------------------------------
(***************************************************************************)
(* How a run of entries of a file is read without the system cache: whole  *)
(* blocks into a buffer, from the block in which the run starts to the one *)
(* in which it ends, as many at a time as the buffer holds.  Entries are   *)
(* cut by the ends of the buffer, and in memory each starts a stride after *)
(* the one before.  Bytes are numbered in the file and in memory.          *)
(***************************************************************************)
EXTENDS FileParts

CONSTANTS
  Jobs  \* what to read: records of
        \*   entry    the bytes of an entry
        \*   stride   the bytes from one entry to the next in memory
        \*   block    the bytes of a block of the file system
        \*   blocks   the blocks in the buffer
        \*   entries  the entries of the file
        \*   first    the first entry to read
        \*   count    the number of entries to read

ASSUME JobsAssumption ==
  \A j \in Jobs :
    {j.entry, j.stride, j.block, j.blocks, j.entries, j.first, j.count} \subseteq Nat

VARIABLES
  job,
  pos,    \* where in the file the next read starts
  skip,   \* the bytes to skip in what is read next
  row,    \* where in memory the next entry goes
  begun,  \* how many bytes of that entry have been stored
  mem     \* mem[a]: the byte of the file stored at address a, -1 if none

directVars == <<job, pos, skip, row, begun, mem>>

RunStart(j) == j.first * j.entry
RunEnd(j)   == (j.first + j.count) * j.entry

Address(j) == 0 .. (j.count + 1) * j.stride - 1

-----------------------------------------------------------------------------
\* load_file_to_handle checks the stride; an entry fits into the buffer, which
\* has at least 16 MiB.
Readable(j) ==
  /\ 0 < j.entry /\ j.entry <= j.stride
  /\ 0 < j.block /\ j.entry <= j.block * j.blocks
  /\ j.first + j.count <= j.entries

DirectInit ==
  /\ job \in {j \in Jobs : Readable(j)}
  /\ pos   = (RunStart(job) \div job.block) * job.block
  /\ skip  = RunStart(job) - pos
  /\ row   = 0
  /\ begun = 0
  /\ mem   = [a \in Address(job) |-> -1]

\* pread64 of whole blocks; at the end of the file it returns less.
Transferred ==
  Lesser(Lesser(Ceiling(RunEnd(job) - pos, job.block), job.blocks) * job.block,
         job.entries * job.entry - pos)

\* Mutant of Useful: the rest of the last block is not dropped.
UsefulWithTail == Transferred - skip

\* The bytes of the run among those transferred.
Useful == Transferred - skip - Larger(0, pos + Transferred - RunEnd(job))

\* The bytes that complete the entry begun before.
HeadSize == IF begun = 0 THEN 0 ELSE job.entry - begun

FullEntries == (Useful - HeadSize) \div job.entry

\* The bytes of the last entry, of which the rest comes with the next read.
TailSize == (Useful - HeadSize) % job.entry

RowAfterHead == IF begun = 0 THEN row ELSE row + job.stride

LastRow == RowAfterHead + FullEntries * job.stride

\* The bytes at addresses first, first + 1, ... that are copied from byte from on.
Piece(a, first, size, from) ==
  IF first <= a /\ a < first + size THEN {from + (a - first)} ELSE {}

\* The bytes of the file that this read stores at address a: the rest of the entry
\* begun before, full entries, and the start of the next.
StoredAt(a) ==
  LET source == pos + skip
  IN  Piece(a, row + begun, HeadSize, source)
      \cup (UNION {Piece(a, RowAfterHead + n * job.stride, job.entry,
                         source + HeadSize + n * job.entry) : n \in 0 .. FullEntries - 1})
      \cup Piece(a, LastRow, TailSize, source + HeadSize + FullEntries * job.entry)

\* One turn of the loop over the blocks of the run.
ReadBlocks ==
  /\ pos < RunEnd(job)
  /\ mem'   = [a \in Address(job) |->
                 IF StoredAt(a) = {} THEN mem[a] ELSE CHOOSE b \in StoredAt(a) : TRUE]
  /\ row'   = LastRow
  /\ begun' = TailSize
  /\ pos'   = pos + Transferred
  /\ skip'  = 0
  /\ UNCHANGED job

DirectDone == pos >= RunEnd(job) /\ UNCHANGED directVars

DirectNext == ReadBlocks \/ DirectDone

DirectReads == DirectInit /\ [][DirectNext]_directVars

-----------------------------------------------------------------------------
\* The byte that belongs at address a, if one does.
Right(a) ==
  IF a \div job.stride < job.count /\ a % job.stride < job.entry
  THEN RunStart(job) + (a \div job.stride) * job.entry + (a % job.stride)
  ELSE -1

\* However blocks, buffer and entries overlap, the bytes of the run up to where the
\* next read starts, and only they, have been stored, each at its place: an entry
\* cut by the end of a buffer is completed by the next, and neither the space
\* between the entries nor what is behind the run is touched.
BytesInPlace ==
  \A a \in Address(job) : mem[a] = IF Right(a) < pos THEN Right(a) ELSE -1
=============================================================================
