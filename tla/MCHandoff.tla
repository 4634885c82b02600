---------------------------- MODULE MCHandoff ----------------------------
(* Instances of Handoff for TLC.  No symmetry: the run checks liveness.  *)
EXTENDS Handoff
==========================================================================
