--------------------------- MODULE MCScheduleRuns ---------------------------
(* Instances of ScheduleRuns for TLC.                                      *)
EXTENDS ScheduleRuns, TLC

\* Neither a control plane nor a bundle is told from another.
Alike == Permutations(Managers) \cup Permutations(Versions)
=============================================================================
