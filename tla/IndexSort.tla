------------------------------ MODULE IndexSort ------------------------------
(* The order in which indices are sorted before they are sent or gathered.    *)
EXTENDS Integers, SequencesExt

CONSTANT IndexRange   \* the number of values of the type of an index

\* Mutant of SortKey: indices are sorted as signed numbers.
SortKeySigned(e) == e

\* The radix sort takes indices as unsigned numbers: negative ones come last.
SortKey(e) == e % IndexRange

\* Position i of a batch is sorted before position j.  The sort is stable.
SortsBefore(batch, i, j) ==
  \/ SortKey(batch[i]) < SortKey(batch[j])
  \/ SortKey(batch[i]) = SortKey(batch[j]) /\ i < j

SortRank(batch, j) == Cardinality({i \in DOMAIN batch : SortsBefore(batch, i, j)})

\* The positions of a batch in the order of its indices: the n-th has n - 1 before it.
Sorted(batch) ==
  [n \in DOMAIN batch |-> CHOOSE j \in DOMAIN batch : SortRank(batch, j) = n - 1]
=============================================================================
