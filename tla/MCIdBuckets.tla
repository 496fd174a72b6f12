----------------------------- MODULE MCIdBuckets -----------------------------
(* Partitions of up to 7 entries among up to 4 ranks: all that a caller    *)
(* may give, with at least one entry at each rank, and the equal ones.     *)
EXTENDS IdBuckets

Given(total, W)  == {offsets \in [0 .. W -> 0 .. total] :
                       /\ offsets[0] = 0 /\ offsets[W] = total
                       /\ \A r \in 0 .. W - 1 : offsets[r] < offsets[r + 1]}
MCAllTables == UNION {{[world_size |-> W, offsets |-> offsets] :
                         offsets \in Given(total, W) \cup {EqualPartition(total, W)}}
                      : <<total, W>> \in (1 .. 7) \X (1 .. 4)}

\* Tables with an entry per rank at least, so that nothing is divided by zero.
MCFullTables == {t \in MCAllTables : t.offsets[t.world_size] >= t.world_size}

\* What integer division by zero may yield on the device; larger results behave
\* like the largest here.
MCAnyRank == 0 .. 6
=============================================================================
