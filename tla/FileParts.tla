------------------------------ MODULE FileParts ------------------------------
(***************************************************************************)
(* Which entries of a list of files belong to which rank, and in a rank to *)
(* which of the threads that read them.  The files are taken as one list   *)
(* of entries, numbered from 0.  A layout is a record of                   *)
(*   ranks    the number of ranks,                                         *)
(*   threads  the number of threads of a rank that read,                   *)
(*   robin    the round robin size, 0 if ranks own contiguous entries,     *)
(*   rows     the number of rows the table is created for,                 *)
(*   offsets  where the parts of the ranks start, if they are contiguous,  *)
(*   files    the number of entries in each file.                          *)
(***************************************************************************)
EXTENDS Integers, Functions

CONSTANT SizeModulus  \* the size of size_t, in which subtraction wraps around

ASSUME SizeAssumption == SizeModulus \in Nat \ {0}

Ceiling(n, d) == (n + d - 1) \div d
Lesser(m, n)  == IF m < n THEN m ELSE n
Larger(m, n)  == IF m < n THEN n ELSE m
Minus(m, n)   == (m - n) % SizeModulus

-----------------------------------------------------------------------------
FileEntries(l)      == SumFunction(l.files)
EntriesBefore(l, i) == SumFunctionOnSet(l.files, 1 .. i - 1)

\* set_shard_method gives every rank as many rows as the first needs.
RowsOfFirst(l) ==
  (l.rows \div (l.ranks * l.robin)) * l.robin
    + Lesser(l.rows % (l.ranks * l.robin), l.robin)

\* Where the part of rank r starts in the table.
Start(l, r) == IF l.robin = 0 THEN l.offsets[r] ELSE r * RowsOfFirst(l)

-----------------------------------------------------------------------------
\* Contiguous parts.  Every thread reads a window of the part of its rank.
PerThread(l, r) == Ceiling(Start(l, r + 1) - Start(l, r), l.threads)

WindowStart(l, r, t) == Start(l, r) + t * PerThread(l, r)

\* Mutant of WindowSize: the last window is as large as the others.
WindowSizeFull(l, r, t) == PerThread(l, r)

\* The subtraction is of unsigned numbers.
WindowSize(l, r, t) ==
  Lesser(PerThread(l, r), Minus(Start(l, r + 1) - Start(l, r), t * PerThread(l, r)))

\* No window starts behind the part of its rank.
WindowsInside(l) ==
  \A r \in 0 .. l.ranks - 1 :
    (l.threads - 1) * PerThread(l, r) <= Start(l, r + 1) - Start(l, r)

-----------------------------------------------------------------------------
\* Round robin: robin entries for rank 0, as many for rank 1, and so on; what is
\* left after the last full round goes to the ranks in order.
Rounds(l) == FileEntries(l) \div (l.ranks * l.robin)

Extra(l, r) ==
  LET left == FileEntries(l) % (l.ranks * l.robin)
  IN  IF left > (r + 1) * l.robin THEN l.robin ELSE Larger(0, left - r * l.robin)

RoundsPerThread(l) == Ceiling(Rounds(l), l.threads)

RoundsOf(l, t) ==
  Larger(0, Lesser(RoundsPerThread(l), Rounds(l) - t * RoundsPerThread(l)))

\* The last thread also takes what is left after the full rounds.
CountOf(l, r, t) ==
  RoundsOf(l, t) * l.robin + (IF t = l.threads - 1 THEN Extra(l, r) ELSE 0)

FirstRound(l, t) == IF RoundsOf(l, t) = 0 THEN Rounds(l) ELSE t * RoundsPerThread(l)

-----------------------------------------------------------------------------
\* Mutant of MappedIndex: the rounds before the entry are not divided by the ranks.
MappedIndexByRuns(l, r, e) ==
  IF l.robin = 0 THEN e
  ELSE Start(l, r) + l.robin * (e \div l.robin) + (e % l.robin)

\* storage_index2wg_embedding_index at rank r: the row in which entry e is looked
\* up.  Its kernel computes the rank of the entry and does not use it.
MappedIndex(l, r, e) ==
  IF l.robin = 0 THEN e
  ELSE Start(l, r) + l.robin * ((e \div l.robin) \div l.ranks) + (e % l.robin)

\* Where an entry belongs, as the test of loading computes it.
Place(l, e) ==
  IF l.robin = 0 THEN e
  ELSE Start(l, (e \div l.robin) % l.ranks)
         + l.robin * ((e \div l.robin) \div l.ranks) + (e % l.robin)
=============================================================================
