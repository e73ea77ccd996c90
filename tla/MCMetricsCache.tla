--------------------------- MODULE MCMetricsCache ---------------------------
(* Two queues: an invalidation of one must leave the other's entry alone,   *)
(* and getAll() mixes hits and misses.                                      *)
EXTENDS MetricsCache

Symmetry == Permutations(Queues)
=============================================================================
