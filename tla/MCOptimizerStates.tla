-------------------------- MODULE MCOptimizerStates --------------------------
(* An embedding with more entries than columns and one with fewer, of two ranks *)
(* and without a cache.                                                         *)
EXTENDS OptimizerStates

MCTables ==
  [entries : {5}, dim : {2, 7}, dtype : {"float"}, ranks : {2}, partition : {<<>>},
   robin : {0}, coverage : {0}]
=============================================================================
