-------------------------- MODULE MCOwnerElection --------------------------
(* TLC instances of OwnerElection.                                          *)
EXTENDS OwnerElection, TLC

CONSTANTS a, b

MCInstances == {a, b}
OnlyA == {a}
Symmetry == Permutations({a, b})
============================================================================
