--------------------------- MODULE MCElasticPool ---------------------------
(* TLC instances of ElasticPool.                                            *)
EXTENDS ElasticPool, TLC

Symmetry == Permutations(Clients) \cup Permutations(Requests)
============================================================================
