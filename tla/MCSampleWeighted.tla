-------------------------- MODULE MCSampleWeighted --------------------------
(* Nodes of degree 4, 0, 2 and 3; samples of more than 2 are sorted by     *)
(* segments.                                                               *)
EXTENDS SampleWeighted

MCRowPtr == [n \in 0 .. 4 |-> <<0, 4, 4, 6, 9>>[n + 1]]
MCCalls  == [nodes : {<<2, 0>>, <<0, 2>>, <<3>>}, max : 1 .. 4, memory : {{"continuous"}}]
=============================================================================
