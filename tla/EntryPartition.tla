--------------------------- MODULE EntryPartition ---------------------------
(***************************************************************************)
(* How the entries of a table are divided among the ranks, and how the     *)
(* ranks find the owner of an entry.                                       *)
(*                                                                         *)
(* A partition of a table among W ranks is the function offsets on 0 .. W: *)
(* rank r owns the entries from offsets[r] to before offsets[r + 1].       *)
(***************************************************************************)
EXTENDS Integers, FiniteSetsExt

CONSTANT AnyRank  \* what a division by zero may yield, in place of a rank

ASSUME AnyRankAssumption == AnyRank \subseteq Int

Ceiling(n, d) == (n + d - 1) \div d
Lesser(m, n)  == IF m < n THEN m ELSE n
Larger(m, n)  == IF m < n THEN n ELSE m

\* equal_partition_plan and the strategy of a handle without a partition of its
\* own: the last ranks may have less than the others, or nothing.
EqualPartition(total, W) ==
  [r \in 0 .. W |-> IF r = W THEN total ELSE Lesser(r * Ceiling(total, W), total)]

IsPartition(offsets, W) ==
  /\ offsets \in [0 .. W -> Nat]
  /\ offsets[0] = 0
  /\ \A q \in 0 .. W, r \in 0 .. W : q <= r => offsets[q] <= offsets[r]

Owns(offsets, r, e) == offsets[r] <= e /\ e < offsets[r + 1]

-----------------------------------------------------------------------------
\* dest_rank guesses the rank that owns entry e and searches from there.  The
\* guess is never below W - 1 (max, not min); a division by zero yields anything.
Guesses(offsets, W, e) ==
  LET per_rank == offsets[W] \div W
  IN  {Larger(W - 1, n) : n \in IF per_rank = 0 THEN AnyRank ELSE {e \div per_rank}}

\* The search downwards from the ranks below n: the largest with an offset that
\* is not beyond e.
LastStartingBefore(offsets, n, e) == Max({r \in 0 .. n - 1 : offsets[r] <= e})

\* The search upwards from n: the rank before the first offset beyond e.
BeforeFirstBeyond(offsets, W, n, e) == Min({r \in n .. W : offsets[r] > e}) - 1

\* The ranks dest_rank may return.  A guess beyond W reads memory behind the
\* offsets.  If what is there is beyond e, the search goes downwards, through more
\* such memory, where it may end; if not, the search upwards is empty, and the
\* answer 0.
DestRanks(offsets, W, e) ==
  UNION {IF n > W THEN {0} \cup W + 1 .. n - 1 \cup {LastStartingBefore(offsets, W, e)}
         ELSE IF offsets[n] > e THEN {LastStartingBefore(offsets, n, e)}
         ELSE {BeforeFirstBeyond(offsets, W, n + 1, e)}
         : n \in Guesses(offsets, W, e)}

\* The guess stays among the offsets for every entry.
GuessInRange(offsets, W) ==
  LET per_rank == offsets[W] \div W
  IN  per_rank > 0 /\ (offsets[W] - 1) \div per_rank <= W
=============================================================================
