-------------------------- MODULE MCElasticLaunch --------------------------
(* TLC instances of ElasticLaunch.                                          *)
EXTENDS ElasticLaunch, TLC

Symmetry == Permutations(Nodes) \cup Permutations(Calls)
============================================================================
