---------------------------- MODULE WorkerSlots ----------------------------
(***************************************************************************)
(* What the elastic reservations of an app promise its admission: at most  *)
(* MaxWorkers of them are outstanding, a worker runs only for one that is, *)
(* and one that was released never runs again.  ElasticLaunch implements   *)
(* it.                                                                     *)
(***************************************************************************)
EXTENDS FiniteSets, Naturals

CONSTANTS
    Slots,      \* reservations of the app, by slot number
    MaxWorkers  \* apps.worker_max_workers

VARIABLE slot   \* slot[r]: "free", "held", "running" or "released"

Outstanding == {r \in Slots : slot[r] \in {"held", "running"}}

SlotsInit == slot = [r \in Slots |-> "free"]

Hold(r) ==
    /\ slot[r] = "free"
    /\ Cardinality(Outstanding) < MaxWorkers
    /\ slot' = [slot EXCEPT ![r] = "held"]

Run(r) ==
    /\ slot[r] = "held"
    /\ slot' = [slot EXCEPT ![r] = "running"]

\* One worker exits, or a machine takes several down.
Halt(S) ==
    /\ \A r \in S : slot[r] = "running"
    /\ slot' = [r \in Slots |-> IF r \in S THEN "held" ELSE slot[r]]

Release(r) ==
    /\ slot[r] = "held"
    /\ slot' = [slot EXCEPT ![r] = "released"]

SlotsNext ==
    \/ \E r \in Slots : Hold(r) \/ Run(r) \/ Release(r)
    \/ \E S \in SUBSET Slots : Halt(S)

SlotsSpec == SlotsInit /\ [][SlotsNext]_slot
============================================================================
