------------------------------- MODULE FileLoad -------------------------------
(***************************************************************************)
(* load_file_to_handle: all ranks load a list of files into a table, each  *)
(* rank its own part with several threads, and leave together.  FileParts  *)
(* has the arithmetic; this module walks through the files as the threads  *)
(* do, each at its own speed.                                              *)
(*                                                                         *)
(* A thread copies a run of consecutive entries of a file to consecutive   *)
(* rows.  DirectRead is about how a run is read without the system cache.  *)
(***************************************************************************)
EXTENDS FileParts, FiniteSets, Sequences

CONSTANT Layouts  \* the layouts to load

VARIABLES
  layout,
  stage,   \* stage[r]: "check", "read", "barrier" or "returned"
  reader,  \* reader[r][t]: how far thread t of rank r is
  copies   \* all that was copied: which thread stored which entry in which row

vars == <<layout, stage, reader, copies>>

Rank   == 0 .. layout.ranks - 1
Thread == 0 .. layout.threads - 1

\* A thread that reads:
\*   file   the file it is in
\*   off    the entries of the file that it has passed
\*   gap    the entries to pass before it reads on
\*   run    the consecutive entries to read then
\*   total  the entries it has to read
\*   read   the entries it has read
Idle == [file |-> 1, off |-> 0, gap |-> 0, run |-> 0, total |-> 0, read |-> 0]

FirstRow(r, t) ==
  IF layout.robin = 0 THEN WindowStart(layout, r, t)
  ELSE Start(layout, r) + FirstRound(layout, t) * layout.robin

Reader(r, t) ==
  IF layout.robin = 0
  THEN [Idle EXCEPT !.gap = WindowStart(layout, r, t), !.total = WindowSize(layout, r, t),
                    !.run = WindowSize(layout, r, t)]
  ELSE [Idle EXCEPT !.gap = (r + FirstRound(layout, t) * layout.ranks) * layout.robin,
                    !.total = CountOf(layout, r, t),
                    !.run = Lesser(layout.robin, CountOf(layout, r, t))]

Size(d) == layout.files[d.file]

AtEnd(d) == d.read = d.total \/ d.file > Len(layout.files)

Copied(r, t, n) ==
  LET d == reader[r][t]
  IN  {[rank |-> r, thread |-> t, row |-> FirstRow(r, t) + d.read + k,
        entry |-> EntriesBefore(layout, d.file) + d.off + d.gap + k] : k \in 0 .. n - 1}

-----------------------------------------------------------------------------
Init ==
  /\ layout \in Layouts
  /\ stage  = [r \in Rank |-> "check"]
  /\ reader = [r \in Rank |-> [t \in Thread |-> Idle]]
  /\ copies = {}

\* The files must fit into the table; then the ranks compare their sizes.
StartReading(r) ==
  /\ stage[r] = "check"
  /\ IF FileEntries(layout) > Start(layout, layout.ranks)
     THEN stage' = [stage EXCEPT ![r] = "refused"] /\ UNCHANGED reader
     ELSE /\ stage'  = [stage EXCEPT ![r] = "read"]
          /\ reader' = [reader EXCEPT ![r] = [t \in Thread |-> Reader(r, t)]]
  /\ UNCHANGED <<layout, copies>>

Reads(r, t) == stage[r] = "read" /\ ~ AtEnd(reader[r][t])

\* Mutant of PassFile: a gap that ends with the file does not lead to the next.
PassFileLate(r, t) ==
  /\ Reads(r, t)
  /\ LET d == reader[r][t]
     IN  /\ d.off + d.gap > Size(d)
         /\ reader' = [reader EXCEPT ![r][t] =
                         [d EXCEPT !.file = @ + 1, !.off = 0, !.gap = d.off + d.gap - Size(d)]]
  /\ UNCHANGED <<layout, stage, copies>>

\* What thread t has to read next is not in this file, or not any more.
PassFile(r, t) ==
  /\ Reads(r, t)
  /\ LET d == reader[r][t]
     IN  /\ d.off + d.gap >= Size(d)
         /\ reader' = [reader EXCEPT ![r][t] =
                         [d EXCEPT !.file = @ + 1, !.off = 0, !.gap = d.off + d.gap - Size(d)]]
  /\ UNCHANGED <<layout, stage, copies>>

\* Mutant of ReadRun: a run that goes on in the next file counts as read.
ReadRunCut(r, t) ==
  /\ Reads(r, t)
  /\ LET d == reader[r][t]
         n == Lesser(d.run, Size(d) - d.off - d.gap)
     IN  /\ d.off + d.gap < Size(d)
         /\ reader' = [reader EXCEPT ![r][t] =
              [d EXCEPT !.off = @ + d.gap + n, !.read = @ + n,
                        !.gap = (layout.ranks - 1) * layout.robin,
                        !.run = Lesser(layout.robin, d.total - d.read - n)]]
         /\ copies' = copies \cup Copied(r, t, n)
  /\ UNCHANGED <<layout, stage>>

\* A thread reads to the end of its run or of the file.  After a run of a round
\* robin it passes the runs of the other ranks.
ReadRun(r, t) ==
  /\ Reads(r, t)
  /\ LET d    == reader[r][t]
         n    == Lesser(d.run, Size(d) - d.off - d.gap)
         left == d.run - n
     IN  /\ d.off + d.gap < Size(d)
         /\ reader' = [reader EXCEPT ![r][t] =
              [d EXCEPT !.off = @ + d.gap + n, !.read = @ + n,
                        !.gap = IF left > 0 THEN 0 ELSE (layout.ranks - 1) * layout.robin,
                        !.run = IF left > 0 THEN left
                                ELSE Lesser(layout.robin, d.total - d.read - n)]]
         /\ copies' = copies \cup Copied(r, t, n)
  /\ UNCHANGED <<layout, stage>>

\* The threads are joined, and the rank waits for the others.
Join(r) ==
  /\ stage[r] = "read" /\ \A t \in Thread : AtEnd(reader[r][t])
  /\ stage' = [stage EXCEPT ![r] = "barrier"]
  /\ UNCHANGED <<layout, reader, copies>>

\* Mutant of Return: there is no barrier.
ReturnAtOnce(r) ==
  /\ stage[r] = "barrier"
  /\ stage' = [stage EXCEPT ![r] = "returned"]
  /\ UNCHANGED <<layout, reader, copies>>

Return(r) ==
  /\ stage[r] = "barrier" /\ \A q \in Rank : stage[q] \in {"barrier", "returned"}
  /\ stage' = [stage EXCEPT ![r] = "returned"]
  /\ UNCHANGED <<layout, reader, copies>>

Finished ==
  /\ \A r \in Rank : stage[r] \in {"returned", "refused"}
  /\ UNCHANGED vars

Step(r) == StartReading(r) \/ Join(r) \/ Return(r)

Read(r, t) == PassFile(r, t) \/ ReadRun(r, t)

Next ==
  \/ \E r \in Rank : Step(r) \/ \E t \in Thread : Read(r, t)
  \/ Finished

\* What has to go on: ranks and their threads keep running.
Progress == \E r \in Rank : Step(r) \/ \E t \in Thread : Read(r, t)

Spec == Init /\ [][Next]_vars

-----------------------------------------------------------------------------
\* A layout that a load handles well: no window of a contiguous part starts behind
\* the part, and there are no more entries than the embedding was created for.
Fits(l) ==
  /\ l.ranks \in Nat \ {0} /\ l.threads \in Nat \ {0} /\ l.files \in Seq(Nat)
  /\ l.robin \in Nat /\ l.rows \in Nat
  /\ l.robin = 0 =>
       /\ l.offsets \in [0 .. l.ranks -> Nat] /\ l.offsets[0] = 0
       /\ \A r \in 0 .. l.ranks - 1 : /\ l.offsets[r] <= l.offsets[r + 1]
                                      /\ l.offsets[r + 1] - l.offsets[r] < SizeModulus
       /\ WindowsInside(l)
  /\ l.robin # 0 => FileEntries(l) \in 0 .. l.rows

\* Whatever the sizes of the files, the parts and the windows, an entry is only
\* ever stored in the row where it belongs, and the rank that has read it finds it
\* there: loading and looking up compute the place in different ways.
CopiedToPlace ==
  \A c \in copies : /\ c.row = Place(layout, c.entry)
                    /\ MappedIndex(layout, c.rank, c.entry) = c.row

\* No thread stores a row outside the part of its rank, which in memory that is not
\* contiguous is outside of what the rank has allocated.
RowsOfRank ==
  \A c \in copies : Start(layout, c.rank) <= c.row /\ c.row < Start(layout, c.rank + 1)

\* A rank that returns finds all entries of the files in the table, those that
\* other ranks have read too.
LoadedOnReturn ==
  (\E r \in Rank : stage[r] = "returned") =>
    {c.entry : c \in copies} = 0 .. FileEntries(layout) - 1

\* Every rank finds every entry where it was stored.
EntriesFound ==
  \A c \in copies, r \in Rank : MappedIndex(layout, r, c.entry) = c.row

\* Who finds an entry where it was stored: in contiguous parts every rank does, in
\* round robin parts the rank that has loaded it and no other, since a rank that
\* looks an entry up starts from its own part.
FoundByLoader ==
  \A c \in copies :
    {r \in Rank : MappedIndex(layout, r, c.entry) = c.row}
      = IF layout.robin = 0 THEN Rank ELSE {c.rank}

\* All ranks return.
LoadsReturn == <>[](\A r \in Rank : stage[r] \in {"returned", "refused"})
=============================================================================
