-------------------------- MODULE MCRedeployLedger --------------------------
(* TLC instances of RedeployLedger.                                         *)
EXTENDS RedeployLedger, TLC

CONSTANTS a, b

MCInstances == {a, b}
OnlyA == {a}
Symmetry == Permutations({a, b})

\* Each kind of change alone, and the combinations the handler tells apart.
AllEdits == {{"replicas"}, {"memory"}, {"isolation"}, {"dials"},
             {"placement", "memory"}}
ShapeEdits == {{"isolation"}, {"replicas"}}
OneEdit == {{"isolation"}}
FewEdits == {{"replicas"}, {"memory"}, {"isolation"}}
============================================================================
