---------------------------- MODULE ScheduleRuns ----------------------------
(***************************************************************************)
(* The scheduled runs of one app, and the consumers and deployments they   *)
(* share data with.  A schedule that publishes rewrites the data the app   *)
(* reads; a consumer reads it when it boots.  Nothing but locks keeps the  *)
(* two apart: in-process ones (schedule slots, producer gates, the         *)
(* publication gate) and flocks that a process tree inherits, so that they *)
(* outlive a killed control plane (jobs.lock, publication.lock,            *)
(* consumers.lock).  A lock has no variable here: who holds it follows     *)
(* from where each run, operation and recovery stands.                     *)
(*                                                                         *)
(* Two control planes on one host share the database and the flocks.  One  *)
(* owns the lease; the other recovers what it leaves when it dies, drains  *)
(* or is merely believed to be dead.                                       *)
(***************************************************************************)
EXTENDS Naturals, FiniteSets, FiniteSetsExt

CONSTANTS
    Managers,       \* control-plane processes, each with its jobs manager
    Schedules,      \* the app's schedules; their order is the gate order
    Publishing,     \* those whose run rewrites the app's data
    Queueing,       \* those with overlap_policy "queue"
    Concurrent,     \* those with "concurrent"; the rest are "skip"
    Versions,       \* the app's bundles; producers differ between any two
    Runs,           \* rows of schedule_runs that may be open at a time
    None,           \* no lease holder, no version
    MaxCalls, MaxDeploys, MaxWakes,     \* bounds on requests of each kind,
    MaxRequests,                        \* on requests together,
    MaxFaults                           \* and on faults

ASSUME ScheduleAssumption ==
    /\ Schedules \subseteq Nat /\ IsFiniteSet(Schedules) /\ Schedules # {}
    /\ Publishing \subseteq Schedules
    /\ Queueing \subseteq Schedules /\ Concurrent \subseteq Schedules
    /\ None \notin Managers \cup Versions
    /\ {MaxCalls, MaxDeploys, MaxWakes, MaxRequests, MaxFaults} \subseteq Nat

VARIABLES
    lease,      \* the owner the database names
    phase,      \* where each control plane stands in its span of ownership
    draining,   \* jobs.Manager.draining
    run,        \* the runs, each with its row
    op,         \* the app operation in progress, under the app's lock
    serving,    \* version of the deployment that last succeeded
    repair,     \* an earlier attempt's producer barrier is newer than that
    pend,       \* the newest pending deployment row, and whether older ones are
    consumer,   \* version of the app's consumers, or None
    stray,      \* a consumer survives that no row records
    data,       \* version whose producer last wrote a schedule's data
    torn,       \* a write of that data began and did not complete
    unc,        \* schedule_data_uncertainty
    prov,       \* schedule_producer_state
    left        \* what is left of the environment's bounds

vars == <<lease, phase, draining, run, op, serving, repair, pend, consumer,
          stray, data, torn, unc, prov, left>>
app == <<serving, repair, pend, consumer, stray>>
store == <<data, torn, unc, prov>>
owner == <<lease, phase, draining>>

NoRun == [pc |-> "idle", m |-> None, s |-> 0, kind |-> "cron", ver |-> None,
          place |-> "none", stop |-> FALSE, row |-> FALSE]
NoOp == [kind |-> "none", m |-> None, pc |-> "none", ver |-> None,
         held |-> {}, gates |-> {}, todo |-> {}, done |-> FALSE,
         boot |-> "none"]
NoDeployment == [ver |-> None, barrier |-> FALSE, older |-> FALSE]

-----------------------------------------------------------------------------
(* Who holds which lock.                                                   *)

At(m, s) == {r \in Runs : run[r].m = m /\ run[r].s = s}
In(pcs) == {r \in Runs : run[r].pc \in pcs}
Publishes(r) == run[r].s \in Publishing

\* Between commitAdmission and unregisterActive.
Admitted == {"queued", "ready", "gate", "fence", "file", "clients",
             "running", "succeeded", "broken"}
Waiting == {"queued", "ready", "gate", "fence", "file", "clients"}
Tree == {"running", "orphan"}
Writing == {r \in In(Tree) : Publishes(r)}

AdmissionFree(m, s) ==
    /\ \A r \in At(m, s) : run[r].pc \notin {"door", "inserted", "gate"}
                           \/ run[r].kind = "candidate"
    /\ ~(op.m = m /\ s \in op.held)

\* An operation and a required run hold the producer gate's write side, an
\* ordinary run its read side.
GateReaders(m, s) == {r \in At(m, s) : /\ run[r].kind = "cron"
                                       /\ run[r].pc \in Admitted \cup {"inserted"}}
GateWritten(m, s) ==
    \/ op.m = m /\ s \in op.gates
    \/ \E r \in At(m, s) : run[r].kind = "required"
                           /\ run[r].pc \in Admitted \ {"gate"}

SlotFree(m, s) == \A r \in At(m, s) : run[r].place # "slot"
QueueFree(m, s) == \A r \in At(m, s) : run[r].place # "queue"

Fleet == {"fence", "mark", "reconcile", "starting", "unwinding"}
Fencing == Fleet \ {"fence"}        \* holds jobs.lock and publication.lock
FleetHeld == \E m \in Managers : phase[m] \in Fleet
JobsHeldEx == \E m \in Managers : phase[m] \in Fencing
\* Mutant: a process tree does not inherit jobs.lock.
JobsHeldShByProcess ==
    In({"fence", "file", "clients", "running", "succeeded", "broken"}) # {}
JobsHeldSh == In({"fence", "file", "clients", "succeeded", "broken"} \cup Tree) # {}

\* The publication gate of one process, and publication.lock.
Publisher(pcs) == {r \in In(pcs) : Publishes(r)}
WritesIn(m) == \E r \in Publisher({"file", "clients", "running", "succeeded", "broken"}) :
                   run[r].m = m
GateHeldEx(m) == WritesIn(m) \/ phase[m] \in Fencing
GateHeldSh(m) == op.m = m /\ op.boot # "none"
\* Mutant: publication.lock is let go of once the tree has started.
FileHeldExUntilStart == Publisher({"clients", "succeeded", "broken"}) # {} \/ JobsHeldEx
FileHeldEx == Publisher({"clients", "succeeded", "broken"} \cup Tree) # {} \/ JobsHeldEx
FileHeldSh == op.boot = "file"
ConsumersFree == consumer = None /\ ~stray
                 /\ \A r \in Runs : ~(run[r].kind = "candidate" /\ run[r].pc \in Tree)

-----------------------------------------------------------------------------
(* What the database says.                                                 *)

Pending == pend # NoDeployment
DataQuarantined == \/ \E r \in Runs : run[r].row /\ Publishes(r)
                   \/ \E s \in Publishing : unc[s]
\* Mutant: a failed barrier is forgotten with its deployment.
QuarantinedByData == pend.barrier \/ DataQuarantined
Quarantined == repair \/ pend.barrier \/ DataQuarantined

\* A run that is not a candidate is still the serving deployment's.
StillCurrent(r) == /\ run[r].row
                   /\ run[r].kind = "candidate" \/ (~Pending /\ run[r].ver = serving)

\* Mutant: schedules that publish nothing are run as producers too.
UnsatisfiedWithReaders(v, done) ==
    {s \in Schedules : s \in Publishing => prov[s] # v \/ unc[s] \/ (repair /\ ~done)}

\* The producers that a deployment of v must still run before it boots.
Unsatisfied(v, done) ==
    {s \in Publishing : prov[s] # v \/ unc[s] \/ (repair /\ ~done)}

Init ==
    /\ lease = None
    /\ phase = [m \in Managers |-> "standby"]
    /\ draining = [m \in Managers |-> FALSE]
    /\ run = [r \in Runs |-> NoRun]
    /\ op = NoOp
    /\ serving \in Versions
    /\ repair = FALSE /\ pend = NoDeployment
    /\ consumer \in {None, serving} /\ stray = FALSE
    /\ data \in [Publishing -> {None, serving}]
    /\ torn = [s \in Publishing |-> FALSE]
    /\ unc = [s \in Publishing |-> FALSE]
    /\ prov = data
    /\ left = [calls |-> MaxCalls, deploys |-> MaxDeploys, wakes |-> MaxWakes,
               requests |-> MaxRequests, faults |-> MaxFaults]

Fault == left.faults > 0 /\ left' = [left EXCEPT !.faults = @ - 1]
Request(kind) ==
    /\ left[kind] > 0 /\ left.requests > 0
    /\ left' = [left EXCEPT ![kind] = @ - 1, !.requests = @ - 1]

-----------------------------------------------------------------------------
(* Admission of a run.                                                     *)

\* Mutant: the freed slot is not handed to the run that waits for it.
GoneAlone(r) == [run EXCEPT ![r] = NoRun]

\* r leaves: its locks go with it, its slot to the run that waits for it.
Gone(r) ==
    LET heirs == IF run[r].place = "slot"
                 THEN {q \in At(run[r].m, run[r].s) : run[q].pc = "queued"} ELSE {}
    IN  [q \in Runs |-> IF q = r THEN NoRun
                        ELSE IF q \in heirs
                             THEN [run[q] EXCEPT !.pc = "ready", !.place = "slot"]
                             ELSE run[q]]

\* A cron fire, a missed run or a deploy obligation reaches the manager.  One
\* slot of Runs stays free for a candidate producer.
Call(m, s, kind) ==
    /\ phase[m] \in {"starting", "open"}
    /\ kind = "required" => s \in Publishing /\ prov[s] # serving
    /\ Cardinality(In({"idle"})) > 1
    /\ Request("calls")
    /\ LET r == CHOOSE i \in Runs : run[i].pc = "idle"
       IN  run' = [run EXCEPT ![r] = [NoRun EXCEPT !.pc = "called", !.m = m,
                      !.s = s, !.kind = kind,
                      !.ver = IF kind = "required" THEN serving ELSE None]]
    /\ UNCHANGED <<owner, op, app, store>>

Begin(r) ==
    /\ run[r].pc = "called"
    /\ run' = [run EXCEPT ![r] = IF draining[run[r].m] THEN NoRun
                                 ELSE [@ EXCEPT !.pc = "admission"]]
    /\ UNCHANGED <<owner, op, app, store, left>>

\* The execution slot an ordinary run gets, "refused" when it gets none.
Place(m, s) ==
    CASE s \in Concurrent -> "none"
      [] s \notin Concurrent /\ SlotFree(m, s) -> "slot"
      [] s \in Queueing /\ ~SlotFree(m, s) /\ QueueFree(m, s) -> "queue"
      [] OTHER -> "refused"

\* From here on, what an action waits for has a name of its own.
MayTakeAdmission(r) ==
    /\ run[r].pc = "admission" /\ run[r].kind = "cron"
    /\ AdmissionFree(run[r].m, run[r].s)

TakeAdmission(r) ==
    /\ MayTakeAdmission(r)
    /\ run' = [run EXCEPT ![r].pc = "door"]
    /\ UNCHANGED <<owner, op, app, store, left>>

MayAdmit(r) == run[r].pc = "door" /\ ~GateWritten(run[r].m, run[r].s)

\* runAdmitted, from the producer gate to the inserted row.
Admit(r) ==
    LET m == run[r].m  s == run[r].s  place == Place(m, s)
        refused == \/ Quarantined /\ s \notin Publishing
                   \/ Pending
                   \/ place = "refused"
    IN  /\ MayAdmit(r)
        /\ run' = [run EXCEPT ![r] =
                      IF refused THEN NoRun
                      ELSE [@ EXCEPT !.pc = "inserted", !.ver = serving,
                                     !.place = place, !.row = TRUE]]
        /\ UNCHANGED <<owner, op, app, store, left>>

\* runRequired: it never waits for the admission lock.
AdmitRequired(r) ==
    LET m == run[r].m  s == run[r].s IN
    /\ run[r].pc = "admission" /\ run[r].kind = "required"
    /\ run' = [run EXCEPT ![r] =
                  IF ~AdmissionFree(m, s) \/ Pending \/ run[r].ver # serving THEN NoRun
                  ELSE [@ EXCEPT !.pc = "inserted", !.row = TRUE]]
    /\ UNCHANGED <<owner, op, app, store, left>>

\* commitAdmission: from here a drain or an operator can cancel the run.
Commit(r) ==
    LET m == run[r].m  s == run[r].s
        slotNow == run[r].place = "queue" /\ SlotFree(m, s)
    IN  /\ run[r].pc = "inserted"
        /\ IF draining[m]
           THEN run' = Gone(r) /\ op' = IF run[r].kind = "candidate"
                                        THEN [op EXCEPT !.pc = "fail"] ELSE op
           ELSE /\ run' = [run EXCEPT
                     ![r].pc = CASE run[r].kind = "required" -> "gate"
                                 [] run[r].place = "queue" /\ ~slotNow -> "queued"
                                 [] OTHER -> "ready",
                     ![r].place = IF slotNow THEN "slot" ELSE @]
                /\ UNCHANGED op
        /\ UNCHANGED <<owner, app, store, left>>

GateFree(m, s) == GateReaders(m, s) = {} /\ ~GateWritten(m, s)
MayEnterGate(r) == run[r].pc = "gate" /\ GateFree(run[r].m, run[r].s)

\* The goroutine of a required run gets the producer gate, and looks again.
EnterGate(r) ==
    /\ MayEnterGate(r)
    /\ run' = IF Pending \/ run[r].ver # serving \/ run[r].stop THEN Gone(r)
              ELSE [run EXCEPT ![r].pc = "ready"]
    /\ UNCHANGED <<owner, op, app, store, left>>

-----------------------------------------------------------------------------
(* Execution of a run: execute, from jobs.lock to the ended process tree.  *)

\* The next fence of r is free, and r goes on to `to` or, when what admitted
\* it no longer holds, ends superseded.
Pass(r, to) ==
    /\ IF run[r].stop \/ ~StillCurrent(r)
       THEN run' = Gone(r) /\ op' = IF run[r].kind = "candidate"
                                    THEN [op EXCEPT !.pc = "fail"] ELSE op
       ELSE run' = [run EXCEPT ![r].pc = to] /\ UNCHANGED op
    /\ UNCHANGED <<owner, app, left>>

\* The tree starts.  From here the data is torn until a write completes.
Starts(r) ==
    IF Publishes(r) /\ ~run[r].stop /\ StillCurrent(r)
    THEN torn' = [torn EXCEPT ![run[r].s] = TRUE] /\ UNCHANGED <<data, unc, prov>>
    ELSE UNCHANGED store

MayExecute(r) == run[r].pc = "ready" /\ ~JobsHeldEx
MayTakePublicationGate(r) ==
    run[r].pc = "fence" /\ ~GateHeldEx(run[r].m) /\ ~GateHeldSh(run[r].m)
MayTakePublicationFile(r) == run[r].pc = "file" /\ ~FileHeldEx /\ ~FileHeldSh
MayTakeConsumers(r) == run[r].pc = "clients" /\ ConsumersFree
MayAbandon(r) == run[r].stop /\ run[r].pc \in Waiting \ {"gate"}

Execute(r) ==
    /\ MayExecute(r)
    /\ Pass(r, IF Publishes(r) THEN "fence" ELSE "running")
    /\ UNCHANGED store

TakePublicationGate(r) ==
    /\ MayTakePublicationGate(r)
    /\ run' = [run EXCEPT ![r].pc = "file"]
    /\ UNCHANGED <<owner, op, app, store, left>>

TakePublicationFile(r) ==
    /\ MayTakePublicationFile(r)
    /\ IF run[r].kind = "candidate"
       THEN run' = [run EXCEPT ![r].pc = "clients"] /\ UNCHANGED <<owner, op, app, store, left>>
       ELSE Pass(r, "running") /\ Starts(r)

\* A candidate producer rewrites data under no consumer at all.
TakeConsumers(r) ==
    /\ MayTakeConsumers(r)
    /\ Pass(r, "running") /\ Starts(r)

\* Cancelled at a wait: nothing was written.
Abandon(r) ==
    /\ MayAbandon(r)
    /\ run' = Gone(r)
    /\ op' = IF run[r].kind = "candidate" THEN [op EXCEPT !.pc = "fail"] ELSE op
    /\ UNCHANGED <<owner, app, store, left>>

\* RunOnce returns once the whole process group is gone.
TreeEnds(r, ok) ==
    LET s == run[r].s IN
    /\ run[r].pc = "running"
    /\ run' = [run EXCEPT ![r].pc = IF ok THEN "succeeded" ELSE "broken"]
    /\ IF ok /\ Publishes(r)
       THEN /\ data' = [data EXCEPT ![s] = run[r].ver]
            /\ torn' = [torn EXCEPT ![s] = FALSE]
            /\ UNCHANGED <<unc, prov>>
       ELSE UNCHANGED store
    /\ UNCHANGED <<owner, op, app, left>>

\* CompleteScheduleRun, the stop of consumers of an unfinished write, and
\* the release of all the run holds.
Complete(r) ==
    LET s == run[r].s  ok == run[r].pc = "succeeded" IN
    /\ run[r].pc \in {"succeeded", "broken"}
    /\ IF Publishes(r) /\ run[r].row
       THEN /\ unc' = [unc EXCEPT ![s] = ~ok]
            /\ prov' = [prov EXCEPT ![s] = IF ok THEN run[r].ver ELSE @]
       ELSE UNCHANGED <<unc, prov>>
    /\ consumer' = IF Publishes(r) /\ ~ok THEN None ELSE consumer
    /\ op' = IF run[r].kind # "candidate" THEN op
             ELSE IF ok /\ run[r].row
                  THEN [op EXCEPT !.pc = "produce", !.todo = @ \ {s},
                                  !.done = op.todo = {s}]
                  ELSE [op EXCEPT !.pc = "fail"]
    /\ run' = Gone(r)
    /\ UNCHANGED <<owner, serving, repair, pend, stray, data, torn, left>>

\* jobs.Manager.Cancel, by an operator.
Cancel(r) ==
    /\ run[r].pc \in Admitted \ {"succeeded", "broken"} /\ ~run[r].stop
    /\ run' = [run EXCEPT ![r].stop = TRUE]
    /\ Fault
    /\ UNCHANGED <<owner, op, app, store>>

-----------------------------------------------------------------------------
(* The operations of the app: deployments and wakes.                       *)

Operates(m) == phase[m] \in {"open", "draining"} /\ op = NoOp /\ ~FleetHeld

\* BeginDeployment, which inherits the barrier of a predecessor that failed, or
\* that a killed owner left pending.
StartDeploy(m, v) ==
    /\ Operates(m)
    /\ Request("deploys")
    /\ op' = [NoOp EXCEPT !.kind = "deploy", !.m = m, !.pc = "admissions", !.ver = v]
    /\ repair' = (repair \/ pend.barrier)
    /\ pend' = [ver |-> v, barrier |-> repair', older |-> Pending]
    /\ UNCHANGED <<owner, run, serving, consumer, stray, store>>

MayTakeAdmissions ==
    /\ op.pc = "admissions" /\ op.held # Schedules
    /\ AdmissionFree(op.m, Min(Schedules \ op.held))
MayTakeGates ==
    /\ op.pc = "admissions" /\ op.held = Schedules
    /\ GateFree(op.m, Min(Schedules \ op.gates))

\* AcquireProducerGates: every admission lock in order, then every gate.
TakeAdmissions ==
    LET s == Min(Schedules \ op.held) IN
    /\ MayTakeAdmissions
    /\ op' = [op EXCEPT !.held = @ \cup {s}]
    /\ UNCHANGED <<owner, run, app, store, left>>

TakeGates ==
    LET s == Min(Schedules \ op.gates) IN
    /\ MayTakeGates
    /\ op' = [op EXCEPT !.gates = @ \cup {s},
                        !.held = IF op.gates \cup {s} = Schedules THEN {} ELSE @,
                        !.pc = IF op.gates \cup {s} = Schedules THEN "plan" ELSE @]
    /\ UNCHANGED <<owner, run, app, store, left>>

\* revalidatePrestartPlan, then the old consumers are confirmed stopped.
Plan ==
    /\ op.pc = "plan"
    /\ op' = [op EXCEPT !.pc = "prepare", !.todo = Unsatisfied(op.ver, FALSE)]
    /\ consumer' = None
    /\ UNCHANGED <<owner, run, serving, repair, pend, stray, store, left>>

\* The row of the operation fails; what a killed owner left stays pending.
RowFails == pend' = [NoDeployment EXCEPT !.older = pend.older]

\* They could not be: the deployment fails and what ran goes on.
StopFails ==
    /\ op.pc = "plan" /\ consumer # None
    /\ Fault
    /\ op' = NoOp /\ RowFails
    /\ UNCHANGED <<owner, run, serving, repair, consumer, stray, store>>

\* The bundle is built; MarkDeploymentProducerBarrierEntered comes before
\* the first producer.
Prepare ==
    /\ op.pc = "prepare"
    /\ op' = [op EXCEPT !.pc = IF op.todo = {} THEN "converge" ELSE "produce"]
    /\ pend' = [pend EXCEPT !.barrier = @ \/ op.todo # {}]
    /\ UNCHANGED <<owner, run, serving, repair, consumer, stray, store, left>>

PrepareFails ==
    /\ op.pc = "prepare"
    /\ Fault
    /\ op' = [op EXCEPT !.pc = "fail"]
    /\ UNCHANGED <<owner, run, app, store>>

\* Bound: the next producer finds no row of Runs free.
OutOfRuns == op.todo # {} /\ ~draining[op.m] /\ In({"idle"}) = {}
MayProduce == op.pc = "produce" /\ ~OutOfRuns

\* RunCandidateProducerLocked, one producer after another.
Produce ==
    LET s == Min(op.todo)  r == CHOOSE i \in Runs : run[i].pc = "idle" IN
    /\ MayProduce /\ op.todo # {}
    /\ IF draining[op.m]
       THEN op' = [op EXCEPT !.pc = "fail"] /\ UNCHANGED run
       ELSE /\ op' = [op EXCEPT !.pc = "producing"]
            /\ run' = [run EXCEPT ![r] = [NoRun EXCEPT !.pc = "inserted", !.m = op.m,
                          !.s = s, !.kind = "candidate", !.ver = op.ver, !.row = TRUE]]
    /\ UNCHANGED <<owner, app, store, left>>

Produced ==
    /\ op.pc = "produce" /\ op.todo = {}
    /\ op' = [op EXCEPT !.pc = "converge"]
    /\ UNCHANGED <<owner, run, app, store, left>>

MayTakeBootGate == op.pc = "converge" /\ op.boot = "none" /\ ~GateHeldEx(op.m)
MayTakeBootFile == op.pc = "converge" /\ op.boot = "gate" /\ ~FileHeldEx

\* AcquireConsumerBootGate: the gate of the process, then publication.lock.
\* What a failed deployment still holds of them its restore has already.
TakeBootGate ==
    /\ MayTakeBootGate
    /\ op' = [op EXCEPT !.boot = "gate"]
    /\ UNCHANGED <<owner, run, app, store, left>>

TakeBootFile ==
    /\ MayTakeBootFile
    /\ op' = [op EXCEPT !.boot = "file"]
    /\ UNCHANGED <<owner, run, app, store, left>>

\* Mutant: what was planned before the fence is not looked at again under it.
ConvergeAsPlanned ==
    /\ op.kind = "deploy" /\ op.pc = "converge" /\ op.boot = "file"
    /\ op' = [op EXCEPT !.pc = "boot"]
    /\ UNCHANGED <<owner, run, app, store, left>>

\* convergePrestartAndFenceConsumer: a writer of another process may have
\* finished meanwhile, and then the candidate's producers run again.
Converge ==
    LET todo == Unsatisfied(op.ver, op.done) IN
    /\ op.kind = "deploy" /\ op.pc = "converge" /\ op.boot = "file"
    /\ IF todo # {}
       THEN /\ op' = [op EXCEPT !.boot = "none", !.todo = todo, !.pc = "produce"]
            /\ pend' = [pend EXCEPT !.barrier = TRUE]
       ELSE /\ op' = IF (repair /\ ~op.done) \/ DataQuarantined
                     THEN [op EXCEPT !.pc = "fail", !.boot = "none"]
                     ELSE [op EXCEPT !.pc = "boot"]
            /\ UNCHANGED pend
    /\ UNCHANGED <<owner, run, serving, repair, consumer, stray, store, left>>

\* A wake, a scale or the restore after a failed deployment: any start of
\* the serving version.
StartWake(m) ==
    /\ Operates(m) /\ consumer = None
    /\ Request("wakes")
    /\ op' = [NoOp EXCEPT !.kind = "wake", !.m = m, !.pc = "converge", !.ver = serving]
    /\ UNCHANGED <<owner, run, app, store>>

\* AcquireCompatibleConsumerBootGate.
CheckCompatible ==
    /\ op.kind = "wake" /\ op.pc = "converge" /\ op.boot = "file"
    /\ op' = IF Quarantined THEN NoOp ELSE [op EXCEPT !.pc = "boot"]
    /\ UNCHANGED <<owner, run, app, store, left>>

\* The pool of a deployment boots and PromoteDeployment commits.
Boot ==
    /\ op.pc = "boot"
    /\ consumer' = op.ver
    /\ op' = IF op.kind = "wake" THEN NoOp ELSE [op EXCEPT !.pc = "promote"]
    /\ UNCHANGED <<owner, run, serving, repair, pend, stray, store, left>>

BootFails ==
    /\ op.pc \in {"boot", "promote"}
    /\ Fault
    /\ consumer' = None
    /\ op' = IF op.kind = "wake" THEN NoOp ELSE [op EXCEPT !.pc = "fail"]
    /\ UNCHANGED <<owner, run, serving, repair, pend, stray, store>>

Promote ==
    /\ op.pc = "promote"
    /\ serving' = op.ver /\ repair' = FALSE /\ pend' = NoDeployment
    /\ op' = NoOp
    /\ UNCHANGED <<owner, run, consumer, stray, store, left>>

\* QuarantineAndFailDeployment when the barrier was entered; otherwise the
\* previous pool is restored, under the gates the deployment still holds.
Fail ==
    /\ op.pc = "fail"
    /\ RowFails
    /\ IF pend.barrier
       THEN repair' = TRUE /\ consumer' = None /\ op' = NoOp
       ELSE /\ op' = [op EXCEPT !.kind = "wake", !.pc = "converge", !.ver = serving]
            /\ UNCHANGED <<repair, consumer>>
    /\ UNCHANGED <<owner, run, serving, stray, store, left>>

-----------------------------------------------------------------------------
(* Ownership.                                                              *)

AcquireLease(m) ==
    /\ phase[m] = "standby" /\ lease = None
    /\ lease' = m /\ phase' = [phase EXCEPT ![m] = "acquired"]
    /\ UNCHANGED <<draining, run, op, app, store, left>>

MayTakeFleet(m) == phase[m] = "acquired" /\ op = NoOp /\ ~FleetHeld
MayTakeFences(m) ==
    /\ phase[m] = "fence"
    /\ ~JobsHeldSh /\ ~JobsHeldEx /\ ~WritesIn(m) /\ ~GateHeldSh(m)
    /\ ~FileHeldEx /\ ~FileHeldSh

\* AcquireFleetAppOperations.
TakeFleet(m) ==
    /\ MayTakeFleet(m)
    /\ phase' = [phase EXCEPT ![m] = "fence"]
    /\ UNCHANGED <<lease, draining, run, op, app, store, left>>

\* AcquirePublicationRecoveryFences: every physical writer is gone.
TakeFences(m) ==
    /\ MayTakeFences(m)
    /\ phase' = [phase EXCEPT ![m] = "mark"]
    /\ UNCHANGED <<lease, draining, run, op, app, store, left>>

\* Mutant: inherited rows are closed without a word about their data.
MarkCloses(m) ==
    /\ phase[m] = "mark"
    /\ phase' = [phase EXCEPT ![m] = "reconcile"]
    /\ run' = [r \in Runs |-> IF run[r].pc = "dead" THEN NoRun
                              ELSE [run[r] EXCEPT !.row = FALSE]]
    /\ UNCHANGED <<lease, draining, op, app, store, left>>

\* MarkRunningSchedulesInterrupted: every running row, whoever inserted it.
Mark(m) ==
    /\ phase[m] = "mark"
    /\ phase' = [phase EXCEPT ![m] = "reconcile"]
    /\ unc' = [s \in Publishing |->
                  unc[s] \/ \E r \in Runs : run[r].row /\ run[r].s = s]
    /\ run' = [r \in Runs |-> IF run[r].pc = "dead" THEN NoRun
                              ELSE [run[r] EXCEPT !.row = FALSE]]
    /\ UNCHANGED <<lease, draining, op, app, data, torn, prov, left>>

\* ReconcileInflightDeployments and RecoverProcesses.
Reconcile(m) ==
    LET blocked == repair \/ pend.barrier \/ DataQuarantined IN
    /\ phase[m] = "reconcile"
    /\ phase' = [phase EXCEPT ![m] = "starting"]
    /\ draining' = [draining EXCEPT ![m] = FALSE]
    /\ repair' = (repair \/ pend.barrier) /\ pend' = NoDeployment
    /\ consumer' = IF consumer = serving /\ ~blocked THEN consumer ELSE None
    /\ UNCHANGED <<lease, run, op, serving, stray, store, left>>

\* The scheduler runs, under the fences; then they are released.
Open(m) ==
    /\ phase[m] = "starting"
    /\ phase' = [phase EXCEPT ![m] = "open"]
    /\ UNCHANGED <<lease, draining, run, op, app, store, left>>

\* The lease expires: of an owner that is gone, or of one that is late.
LeaseLapses ==
    /\ lease # None
    /\ lease' = None
    /\ IF phase[lease] \in {"down", "standby"} THEN UNCHANGED left ELSE Fault
    /\ UNCHANGED <<phase, draining, run, op, app, store>>

\* Every run of m is cancelled: InterruptAndDrain.
Drained(m) == [r \in Runs |-> IF run[r].m = m /\ run[r].pc \in Admitted
                              THEN [run[r] EXCEPT !.stop = TRUE] ELSE run[r]]

Retire(m) ==
    /\ phase' = [phase EXCEPT ![m] = CASE phase[m] = "open" -> "draining"
                                        [] phase[m] = "starting" -> "unwinding"
                                        [] OTHER -> "standby"]
    /\ IF phase[m] \in {"open", "starting"}
       THEN draining' = [draining EXCEPT ![m] = TRUE] /\ run' = Drained(m)
       ELSE UNCHANGED <<draining, run>>

NoticeLoss(m) ==
    /\ phase[m] \in {"acquired", "fence", "mark", "reconcile", "starting", "open"}
    /\ lease # m
    /\ Retire(m)
    /\ UNCHANGED <<lease, op, app, store, left>>

\* A planned shutdown or reload of the owner.
HandOver(m) ==
    /\ phase[m] = "open" /\ lease = m
    /\ Fault
    /\ Retire(m)
    /\ UNCHANGED <<lease, op, app, store>>

\* The manager's WaitGroup is zero and the fleet fence was free: the lease
\* may go.
MayFinishDrain(m) ==
    /\ \A r \in Runs : run[r].m = m => run[r].pc \in {"idle", "called", "dead", "orphan"}
    /\ \/ phase[m] = "draining" /\ op = NoOp /\ ~FleetHeld
       \/ phase[m] = "unwinding"

DrainDone(m) ==
    /\ MayFinishDrain(m)
    /\ phase' = [phase EXCEPT ![m] = "standby"]
    /\ lease' = IF lease = m THEN None ELSE lease
    /\ UNCHANGED <<draining, run, op, app, store, left>>

\* The drain budget runs out; the lease is left to expire.
DrainGivesUp(m) ==
    /\ phase[m] = "draining"
    /\ phase' = [phase EXCEPT ![m] = "standby"]
    /\ UNCHANGED <<lease, draining, run, op, app, store, left>>

\* A killed control plane.  Its process trees live on with the flocks they
\* inherited, its rows stay running, and a consumer it was starting may
\* survive with no row.
Crash(m) ==
    /\ phase[m] # "down"
    /\ Fault
    /\ phase' = [phase EXCEPT ![m] = "down"]
    /\ run' = [r \in Runs |->
                  IF run[r].m # m \/ run[r].pc \in {"dead", "orphan"} THEN run[r]
                  ELSE IF run[r].pc = "running"
                       THEN [run[r] EXCEPT !.pc = "orphan", !.place = "none"]
                       ELSE IF run[r].row
                            THEN [run[r] EXCEPT !.pc = "dead", !.place = "none"]
                            ELSE NoRun]
    /\ stray' \in IF op.m = m /\ op.pc = "boot" THEN {stray, TRUE} ELSE {stray}
    /\ op' = IF op.m = m THEN NoOp ELSE op
    /\ UNCHANGED <<lease, draining, serving, repair, pend, consumer, store>>

Restart(m) ==
    /\ phase[m] = "down"
    /\ phase' = [phase EXCEPT ![m] = "standby"]
    /\ draining' = [draining EXCEPT ![m] = FALSE]
    /\ UNCHANGED <<lease, run, op, app, store, left>>

\* An orphaned tree finishes its write, or is killed in it.
OrphanEnds(r, ok) ==
    LET s == run[r].s IN
    /\ run[r].pc = "orphan"
    /\ run' = IF run[r].row THEN [run EXCEPT ![r].pc = "dead"] ELSE [run EXCEPT ![r] = NoRun]
    /\ IF ok /\ Publishes(r)
       THEN /\ data' = [data EXCEPT ![s] = run[r].ver]
            /\ torn' = [torn EXCEPT ![s] = FALSE]
            /\ UNCHANGED <<unc, prov>>
       ELSE UNCHANGED store
    /\ UNCHANGED <<owner, op, app, left>>

StrayEnds ==
    /\ stray /\ stray' = FALSE
    /\ UNCHANGED <<owner, run, op, serving, repair, pend, consumer, store, left>>

-----------------------------------------------------------------------------
RunSteps ==
    \E r \in Runs :
        \/ Begin(r) \/ TakeAdmission(r) \/ Admit(r) \/ AdmitRequired(r) \/ Commit(r)
        \/ EnterGate(r) \/ Execute(r) \/ TakePublicationGate(r)
        \/ TakePublicationFile(r) \/ TakeConsumers(r) \/ Abandon(r) \/ Complete(r)
        \/ \E ok \in BOOLEAN : TreeEnds(r, ok) \/ OrphanEnds(r, ok)

OpSteps ==
    \/ TakeAdmissions \/ TakeGates \/ Plan \/ Prepare \/ Produce \/ Produced
    \/ TakeBootGate \/ TakeBootFile \/ Converge \/ CheckCompatible \/ Boot
    \/ Promote \/ Fail

OwnerSteps ==
    \E m \in Managers :
        \/ AcquireLease(m) \/ TakeFleet(m) \/ TakeFences(m) \/ Mark(m)
        \/ Reconcile(m) \/ Open(m) \/ NoticeLoss(m) \/ DrainDone(m) \/ Restart(m)

Requests ==
    \E m \in Managers :
        \/ \E s \in Schedules, kind \in {"cron", "required"} : Call(m, s, kind)
        \/ \E v \in Versions : StartDeploy(m, v)
        \/ StartWake(m)

Faults ==
    \/ \E r \in Runs : Cancel(r)
    \/ StopFails \/ PrepareFails \/ BootFails
    \/ \E m \in Managers : HandOver(m) \/ DrainGivesUp(m) \/ Crash(m)

Next == RunSteps \/ OpSteps \/ OwnerSteps \/ Requests \/ Faults \/ LeaseLapses \/ StrayEnds

Spec == Init /\ [][Next]_vars

-----------------------------------------------------------------------------
(* Properties.                                                             *)

Pcs == {"idle", "called", "admission", "door", "inserted", "dead", "orphan"} \cup Admitted

\* Every variable keeps to its values.
TypeOK ==
    /\ lease \in Managers \cup {None}
    /\ phase \in [Managers -> {"down", "standby", "acquired", "open", "draining"} \cup Fleet]
    /\ draining \in [Managers -> BOOLEAN]
    /\ run \in [Runs -> [pc : Pcs, m : Managers \cup {None}, s : Schedules \cup {0},
                        kind : {"cron", "required", "candidate"},
                        ver : Versions \cup {None}, place : {"none", "slot", "queue"},
                        stop : BOOLEAN, row : BOOLEAN]]
    /\ op \in [kind : {"none", "deploy", "wake"}, m : Managers \cup {None},
              pc : {"none", "admissions", "plan", "prepare", "produce", "producing",
                    "converge", "boot", "promote", "fail"},
              ver : Versions \cup {None}, held : SUBSET Schedules,
              gates : SUBSET Schedules, todo : SUBSET Publishing, done : BOOLEAN,
              boot : {"none", "gate", "file"}]
    /\ serving \in Versions /\ repair \in BOOLEAN /\ stray \in BOOLEAN
    /\ pend \in [ver : Versions \cup {None}, barrier : BOOLEAN, older : BOOLEAN]
    /\ consumer \in Versions \cup {None}
    /\ data \in [Publishing -> Versions \cup {None}]
    /\ prov \in [Publishing -> Versions \cup {None}]
    /\ torn \in [Publishing -> BOOLEAN] /\ unc \in [Publishing -> BOOLEAN]
    /\ left \in [{"calls", "deploys", "wakes", "requests", "faults"} -> Nat]

\* At most one process tree of the host writes the app's data, the orphans of
\* a killed control plane and a late owner's runs included.
OneWriter == Cardinality(Writing) <= 1

\* Whoever boots reads whole data, which nobody is writing: a candidate the
\* data its own producers published, a restarted consumer that of its
\* version (or none, before the first run).
BootsOnItsData ==
    op.pc = "boot" =>
        \A s \in Publishing :
            /\ ~torn[s]
            /\ data[s] = op.ver \/ (op.kind = "wake" /\ data[s] = None)

\* Whoever must be alone is: while a successor closes inherited rows and adopts
\* consumers no job of the app is left alive, whichever process started it; a
\* candidate producer rewrites data under no consumer, recorded or not; an
\* execution that deploys or converges a schedule shares it with no other of
\* its process, whatever the overlap policy; and a schedule that is not
\* "concurrent" has one execution and one that waits.
FencedIsAlone ==
    /\ JobsHeldEx => In(Tree) = {}
    /\ \A r \in In(Tree) : run[r].kind = "candidate" => consumer = None /\ ~stray
    /\ \A q, r \in In(Admitted) :
         q # r /\ run[q].m = run[r].m /\ run[q].s = run[r].s =>
           /\ run[q].pc \in Tree => run[q].kind = "cron" \/ run[r].pc = "gate"
           /\ run[q].place # "none" => run[q].place # run[r].place
           /\ run[q].kind = "cron" /\ run[r].kind = "cron" /\ run[q].s \notin Concurrent
                => ~(run[q].pc \in Tree /\ run[r].pc \in Tree)

\* What the database does not hold against the app is so: data that no
\* running row and no uncertainty row is about is whole, and of the version
\* its provenance names.
DamageIsRecorded ==
    \A s \in Publishing :
        torn[s] \/ data[s] # prov[s] =>
            unc[s] \/ \E r \in Runs : run[r].row /\ run[r].s = s

\* An app whose last deployment failed behind its producer barrier serves
\* nothing until a deployment succeeds.
QuarantinedIsDown == repair /\ ~Pending => consumer = None

\* Who can take its next step: it waits for nothing, or what it waits for is free.
RunGoesOn(r) ==
    \/ run[r].pc \in {"called", "inserted", "running", "orphan", "succeeded", "broken"}
    \/ run[r].pc = "admission" /\ run[r].kind = "required"
    \/ MayTakeAdmission(r) \/ MayAdmit(r) \/ MayEnterGate(r) \/ MayExecute(r)
    \/ MayTakePublicationGate(r) \/ MayTakePublicationFile(r) \/ MayTakeConsumers(r)
    \/ MayAbandon(r)
    \/ run[r].pc = "clients" /\ stray

OpGoesOn ==
    \/ op.pc \in {"plan", "prepare", "boot", "promote", "fail"}
    \/ op.pc = "converge" /\ op.boot = "file"
    \/ MayTakeAdmissions \/ MayTakeGates \/ MayProduce
    \/ MayTakeBootGate \/ MayTakeBootFile

OwnerGoesOn(m) ==
    \/ phase[m] \in {"mark", "reconcile", "starting"}
    \/ MayTakeFleet(m) \/ MayTakeFences(m) \/ MayFinishDrain(m)

\* Nothing waits for ever: while a run, an operation, a recovery or a drain
\* is under way, one of them can go on, without a request, a fault, a lapsed
\* lease, a loss of the lease that is noticed, or the restart of a process.
NoStandstill ==
    \/ /\ \A r \in Runs : run[r].pc \in {"idle", "dead"}
       /\ op = NoOp
       /\ \A m \in Managers : phase[m] \in {"open", "standby", "down"}
    \/ op.pc = "produce" /\ OutOfRuns
    \/ OpGoesOn
    \/ \E r \in Runs : RunGoesOn(r)
    \/ \E m \in Managers : OwnerGoesOn(m)
=============================================================================
