------------------------- MODULE MCCachedEmbedding --------------------------
(* Rank 0 owns two entries, which compete for its line, and rank 1 a third. *)
EXTENDS CachedEmbedding

MCRank    == {0, 1}
MCOwner   == [e \in {"a", "b", "c"} |-> IF e = "c" THEN 1 ELSE 0]
MCBatches == {[r \in MCRank |-> IF r = 0 THEN {"a", "c"} ELSE {"b"}],
              [r \in MCRank |-> IF r = 0 THEN {"b"} ELSE {"a"}]}
=============================================================================
