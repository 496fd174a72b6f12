---------------------------- MODULE MCCacheSet ----------------------------
(* More entries than lines, so that entries compete for them; two values,  *)
(* so that a copy can be out of date; counters of one bit, so that a set   *)
(* is rescaled as soon as an entry has been named twice.                   *)
EXTENDS CacheSet, TLC

CONSTANTS a, b

TwoValues == {a, b}

\* No action tells the values apart.
ValueSymmetry == Permutations(TwoValues)
=============================================================================
