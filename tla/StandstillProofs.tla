-------------------------- MODULE StandstillProofs --------------------------
(***************************************************************************)
(* Why nothing in ScheduleRuns waits for ever: the locks have an order.    *)
(*                                                                         *)
(* A run waits for the admission lock of its schedule, then for the        *)
(* producer gate, then for a place in the queue, jobs.lock, the            *)
(* publication gate, publication.lock and consumers.lock, in this order.   *)
(* An operation waits for all admission locks, then for all gates, then    *)
(* for the publication gate and publication.lock; a recovery for the       *)
(* fleet fence and the locks of the runs.  So, from the last lock to the   *)
(* first: who holds it can go on, and hence whoever waits for it could go  *)
(* on, were it not held.                                                   *)
(*                                                                         *)
(* What this takes beyond the invariant of ScheduleRunsProofs is that a    *)
(* holder is there at all (the producer a deployment waits for, the run    *)
(* whose slot the queue waits for), that a drain has told all its runs to  *)
(* stop, and that an operation has every admission lock before it asks for *)
(* a gate.                                                                 *)
(***************************************************************************)
EXTENDS ScheduleRunsProofs

-----------------------------------------------------------------------------
(* The invariant, in parts.                                                *)

\* A deployment has stopped the old consumers before it prepares the new.
Vacated == {"prepare", "produce", "producing", "converge"}
VacantInv == op.kind = "deploy" /\ op.pc \in Vacated => consumer = None

\* The producer a deployment waits for exists.
ProducerInv == op.pc = "producing" => \E r \in Runs : Candidate(r)

\* One recovery at a time.
RecoveryInv == \A m, n \in Managers : phase[m] \in Fleet /\ phase[n] \in Fleet => m = n

\* A manager that drains has told every run it admitted to stop.
DrainInv ==
    /\ \A r \in Runs : run[r].pc \in Admitted /\ draining[run[r].m] => run[r].stop
    /\ \A m \in Managers : phase[m] \in {"draining", "unwinding"} => draining[m]

\* Who waits in the queue waits for a run that has the slot.
QueueInv ==
    \A q \in Runs : run[q].pc = "queued" =>
                      \E r \in Runs : Together(q, r) /\ run[r].place = "slot"

\* Every admission lock before the first gate.
HeldInv == op.pc = "admissions" /\ op.gates # {} => op.held = Schedules

GoInv == VacantInv /\ ProducerInv /\ RecoveryInv /\ DrainInv /\ QueueInv /\ HeldInv

-----------------------------------------------------------------------------
(* The consumers and the producer of a deployment.                         *)

\* A deployment whose consumers are to be gone comes from there, or has just stopped them.
LEMMA VacatedFootprint ==
    ASSUME TypeOK, RunInv, OpOK(op), CandInv, Next,
           op'.kind = "deploy", op'.pc \in Vacated
    PROVE  Plan \/ (op.kind = "deploy" /\ op.pc \in Vacated)
<1>1. op \in OpRecords
  BY TypesByName
<1>2. CASE op' = op
  BY <1>2
<1>3. ASSUME NEW r \in Runs, Settles(r)
      PROVE  op.kind = "deploy" /\ op.pc \in Vacated
  BY <1>3 DEF Settles, CandInv, Vacated
<1>4. ASSUME NEW r \in Runs, Execution(r)
      PROVE  op.kind = "deploy" /\ op.pc \in Vacated
  <2>1. op' = op \/ Settles(r)
    BY <1>4, ExecutionOp
  <2> QED
    BY <1>2, <1>3, <2>1
<1>5. ASSUME Produce
      PROVE  op.kind = "deploy" /\ op.pc \in Vacated
  <2>1. \E pc \in {"producing", "fail"} : op' = [op EXCEPT !.pc = pc]
    BY <1>5, ProduceEffect
  <2>2. op'.kind = op.kind
    BY <1>1, <2>1, OpPc DEF OpGoes, Alike
  <2> QED
    BY <1>5, <2>2 DEF Produce, MayProduce, Vacated
<1>6. ASSUME Deployment
      PROVE  Plan \/ (op.kind = "deploy" /\ op.pc \in Vacated)
  <2>1. CASE \E m \in Managers, v \in Versions : StartDeploy(m, v)
    BY <2>1, GatesEffects DEF Vacated
  <2>2. CASE TakeAdmissions
    BY <2>2, GatesEffects DEF OpGoes, Alike
  <2>3. CASE TakeGates
    BY <2>3, GatesEffects DEF Vacated
  <2>4. CASE Prepare \/ PrepareFails \/ Produced \/ Converge
    BY <2>4, OpEffects DEF Prepare, PrepareFails, Produced, Converge, Vacated
  <2>5. CASE StopFails \/ Promote
    BY <2>5, OpEffects, Nobody
  <2>6. CASE Fail
    BY <1>1, <2>6, OpEffects, Nobody
  <2> QED
    BY <1>6, <2>1, <2>2, <2>3, <2>4, <2>5, <2>6 DEF Deployment
<1>7. ASSUME Start
      PROVE  op.kind = "deploy" /\ op.pc \in Vacated
  <2>1. CASE \E m \in Managers : StartWake(m)
    BY <2>1, OpEffects
  <2>2. CASE TakeBootGate \/ TakeBootFile
    BY <2>2, OpEffects DEF Alike
  <2>3. CASE CheckCompatible
    BY <2>3, OpEffects, Nobody DEF OpGoes, Alike, Vacated
  <2>4. CASE Boot \/ BootFails
    BY <2>4, OpEffects, Nobody DEF OpGoes, Alike, Vacated
  <2> QED
    BY <1>7, <2>1, <2>2, <2>3, <2>4 DEF Start
<1>8. CASE \/ \E r \in Runs : Admission(r)
           \/ \E m \in Managers, s \in Schedules, kind \in {"cron", "required"} :
                Call(m, s, kind)
           \/ \E m \in Managers : Ownership(m) \/ Retires(m) \/ Mark(m)
           \/ LeaseLapses \/ StrayEnds
  BY <1>2, <1>8, Frames, SMTT(30)
<1>9. CASE \E m \in Managers : Crash(m)
  BY <1>2, <1>9, Nobody DEF Crash
<1> QED
  BY <1>4, <1>5, <1>6, <1>7, <1>8, <1>9, Kinds

\* Nothing boots between the stop of the old consumers and the boot of the new.
LEMMA VacantStep ==
    ASSUME TypeOK, RunInv, OpOK(op), CandInv, VacantInv, Next
    PROVE  VacantInv'
<1> SUFFICES ASSUME op'.kind = "deploy", op'.pc \in Vacated
             PROVE  consumer' = None
  BY DEF VacantInv
<1>1. CASE Plan
  BY <1>1 DEF Plan
<1>2. CASE op.kind = "deploy" /\ op.pc \in Vacated
  BY <1>2, ConsumerSteps DEF VacantInv, Vacated
<1> QED
  BY <1>1, <1>2, VacatedFootprint

\* The producer of a deployment stays until it settles the deployment.
LEMMA ProducerStays ==
    ASSUME TypeOK, RunInv, OpOK(op), CandInv, Next, op'.pc = "producing",
           NEW r \in Runs, Candidate(r)
    PROVE  Candidate(r)'
<1>1. /\ run[r] \in RunRecords /\ RunOK(run[r]) /\ op \in OpRecords
      /\ op.kind = "deploy" /\ op.pc = "producing" /\ run[r].m = op.m
      /\ run[r].kind = "candidate"
      /\ run[r].pc \in {"inserted", "ready"} \cup Sharing
  BY TypesByName DEF RunInv, RunOK, CandInv, Candidate
<1>2. op' = op
  <2>1. \A q \in Runs : ~Settles(q)
    BY DEF Settles
  <2>2. \A m \in Managers : ~(Crash(m) /\ op.m = m)
    BY Nobody DEF Crash
  <2> QED
    BY <1>1, <2>1, <2>2, Producing
<1>3. ASSUME Same(run[r], run'[r]) \/ Keeps(run[r], run'[r]),
             run'[r].pc \notin {"dead", "orphan"}
      PROVE  Candidate(r)'
  BY <1>1, <1>3 DEF Candidate, Same, Keeps
<1>4. CASE run'[r] = run[r]
  BY <1>4 DEF Candidate
<1>5. ~OpFails(r)
  <2>1. ASSUME OpFails(r)
        PROVE  FALSE
    <3>1. op'.pc = "fail"
      BY <1>1, <2>1, OpPc DEF OpFails, OpGoes
    <3> QED
      BY <1>1, <1>2, <3>1
  <2> QED
    BY <2>1
<1>6. ASSUME NEW q \in Runs \ {r}, Left(q) \/ Others(q)
      PROVE  Candidate(r)'
  <2>1. run'[r] = run[r] \/ Succeeds(run[r], run'[r])
    BY <1>6 DEF Left, Others
  <2> QED
    BY <1>3, <1>4, <2>1 DEF Succeeds
<1>7. ASSUME NEW q \in Runs, Admission(q)
      PROVE  Candidate(r)'
  <2>1. CASE q # r
    <3>1. Left(q) \/ Others(q)
      BY <1>7, AdmissionEffects DEF Admission, Goes
    <3> QED
      BY <1>6, <2>1, <3>1
  <2>2. CASE q = r
    <3>1. TakePublicationGate(r) \/ Cancel(r)
      BY <1>1, <1>7, <2>2 DEF Admission, Begin, TakeAdmission, MayTakeAdmission, Admit, MayAdmit,
              AdmitRequired, EnterGate, MayEnterGate, Sharing, Holding, Tree
    <3>2. Goes(r, "file") \/ Goes(r, run[r].pc)
      BY <3>1, AdmissionEffects
    <3> QED
      BY <1>1, <1>3, <3>2 DEF Goes, Candidate
  <2> QED
    BY <2>1, <2>2
<1>8. ASSUME NEW q \in Runs, Execution(q)
      PROVE  Candidate(r)'
  <2>1. ASSUME NEW pc \in {"fence", "running"}, Passes(q, pc)
        PROVE  Candidate(r)'
    <3>1. CASE q # r
      BY <1>6, <2>1, <3>1 DEF Passes, Goes
    <3>2. CASE q = r
      BY <1>3, <1>5, <2>1, <3>2 DEF Passes, Goes
    <3> QED
      BY <3>1, <3>2
  <2>2. CASE Commit(q)
    <3>1. Commits(q)
      BY <2>2, CommitEffect
    <3>2. CASE q # r
      BY <1>6, <3>1, <3>2 DEF Commits
    <3>3. CASE q = r
      BY <1>3, <1>5, <3>1, <3>3 DEF Commits
    <3> QED
      BY <3>2, <3>3
  <2>3. CASE Execute(q) \/ TakeConsumers(q)
    BY <2>1, <2>3, ExecutionEffects
  <2>4. CASE TakePublicationFile(q)
    <3>1. Goes(q, "clients") \/ Passes(q, "running")
      BY <2>4, ExecutionEffects
    <3>2. CASE Goes(q, "clients")
      BY <1>3, <1>6, <3>2 DEF Goes
    <3> QED
      BY <2>1, <3>1, <3>2
  <2>5. CASE Abandon(q)
    <3>1. Left(q) /\ OpFails(q)
      BY <2>5, ExecutionEffects
    <3> QED
      BY <1>5, <1>6, <3>1
  <2>6. CASE Complete(q)
    <3>1. Left(q)
      BY <2>6, ExecutionEffects
    <3>2. CASE q = r
      <4>1. ~Settles(r)
        BY DEF Settles
      <4>2. \/ op' = [op EXCEPT !.pc = "produce", !.todo = op.todo \ {run[r].s},
                                !.done = op.todo = {run[r].s}]
            \/ op' = [op EXCEPT !.pc = "fail"]
        BY <1>1, <2>6, <3>2 DEF Complete
      <4> QED
        BY <1>1, <1>2, <4>2 DEF OpRecords
    <3> QED
      BY <1>6, <3>1, <3>2
  <2>7. CASE \E ok \in BOOLEAN : TreeEnds(q, ok) \/ OrphanEnds(q, ok)
    <3>1. CASE q # r
      <4>1. Left(q) \/ Others(q)
        BY <2>7, ExecutionEffects DEF Goes
      <4> QED
        BY <1>6, <3>1, <4>1
    <3>2. CASE q = r
      <4>1. \E pc \in {"succeeded", "broken"} : Goes(r, pc)
        BY <2>7, <3>2, ExecutionEffects DEF OrphanEnds, Candidate
      <4> QED
        BY <1>3, <4>1 DEF Goes
    <3> QED
      BY <3>1, <3>2
  <2> QED
    BY <1>8, <2>2, <2>3, <2>4, <2>5, <2>6, <2>7 DEF Execution
<1>9. ASSUME NEW q \in Runs, Arrives(q)
      PROVE  Candidate(r)'
  <2>1. q # r
    BY <1>1, <1>9 DEF Arrives, Sharing, Holding, Tree
  <2> QED
    BY <1>6, <1>9, <2>1 DEF Arrives
<1>10. ASSUME NEW m \in Managers, Retires(m)
       PROVE  Candidate(r)'
  <2>1. Retire(m)
    BY <1>10 DEF Retires, NoticeLoss, HandOver
  <2>2. \/ run'[r] = run[r]
        \/ Same(run[r], run'[r]) /\ run'[r].pc = run[r].pc
    BY <2>1, DrainedEffect
  <2> QED
    BY <1>3, <1>4, <2>2 DEF Candidate
<1>11. ASSUME NEW m \in Managers, Mark(m)
       PROVE  Candidate(r)'
  <2>1. Keeps(run[r], run'[r]) /\ run'[r].pc = run[r].pc
    BY <1>11, MarkEffect DEF Candidate
  <2> QED
    BY <1>3, <2>1 DEF Candidate
<1>12. ASSUME NEW m \in Managers, Crash(m)
       PROVE  Candidate(r)'
  <2>1. m # op.m
    BY <1>1, <1>2, <1>12, Nobody DEF Crash
  <2>2. run'[r] = run[r]
    BY <1>1, <1>12, <2>1, CrashEffect
  <2> QED
    BY <1>4, <2>2
<1>13. CASE \E m \in Managers, s \in Schedules, kind \in {"cron", "required"} :
              Call(m, s, kind)
  <2>1. \E q \in Runs : Arrives(q)
    BY <1>13, CallEffect
  <2> QED
    BY <1>9, <2>1
<1>14. ~Produce
  BY <1>1 DEF Produce, MayProduce
<1>15. CASE Deployment \/ Start \/ LeaseLapses \/ StrayEnds
            \/ \E m \in Managers : Ownership(m)
  BY <1>4, <1>15, Frames
<1> QED
  BY <1>7, <1>8, <1>10, <1>11, <1>12, <1>13, <1>14, <1>15, Kinds

\* A deployment that waits for a producer has just started it, or waited for it before.
LEMMA ProducerStep ==
    ASSUME TypeOK, RunInv, OpOK(op), CandInv, ProducerInv, Next
    PROVE  ProducerInv'
<1> SUFFICES ASSUME op'.pc = "producing"
             PROVE  \E r \in Runs : Candidate(r)'
  BY DEF ProducerInv
<1>1. op \in OpRecords
  BY TypesByName
<1>2. CASE op.pc = "producing"
  BY <1>2, ProducerStays DEF ProducerInv
<1>3. CASE Produce
  <2>1. op' # [op EXCEPT !.pc = "fail"]
    BY <1>1, OpPc DEF OpGoes
  <2>2. \E r \in Runs : run'[r].pc = "inserted" /\ run'[r].kind = "candidate"
    BY <1>3, <2>1, ProduceEffect
  <2> QED
    BY <2>2 DEF Candidate
<1>4. op.pc = "producing" \/ Produce
  <2>1. CASE op' = op
    BY <2>1
  <2>2. ASSUME NEW r \in Runs, Execution(r)
        PROVE  op.pc = "producing"
    BY <2>1, <2>2, ExecutionOp DEF Settles
  <2>3. ~Deployment
    <3>1. \A m \in Managers, v \in Versions : ~StartDeploy(m, v)
      BY GatesEffects
    <3>2. ~TakeAdmissions
      BY GatesEffects DEF TakeAdmissions, MayTakeAdmissions, OpGoes
    <3>3. ~TakeGates
      BY GatesEffects
    <3>4. ~(Plan \/ StopFails \/ Prepare \/ PrepareFails \/ Produced \/ Converge \/ Promote
            \/ Fail)
      BY OpEffects, Nobody DEF OpGoes
    <3> QED
      BY <3>1, <3>2, <3>3, <3>4 DEF Deployment
  <2>4. ~Start
    BY OpEffects, Nobody DEF Start, OpGoes, TakeBootGate, MayTakeBootGate, TakeBootFile,
            MayTakeBootFile
  <2>5. CASE \/ \E r \in Runs : Admission(r)
             \/ \E m \in Managers, s \in Schedules, kind \in {"cron", "required"} :
                  Call(m, s, kind)
             \/ \E m \in Managers : Ownership(m) \/ Retires(m) \/ Mark(m)
             \/ LeaseLapses \/ StrayEnds
    BY <2>1, <2>5, Frames, SMTT(30)
  <2>6. CASE \E m \in Managers : Crash(m)
    BY <2>1, <2>6, Nobody DEF Crash
  <2> QED
    BY <2>2, <2>3, <2>4, <2>5, <2>6, Kinds
<1> QED
  BY <1>2, <1>3, <1>4

-----------------------------------------------------------------------------
(* Recoveries and drains.                                                  *)

\* Who has the fleet fence had it, or has just taken it; and a manager drains because
\* it drained before or because this step retires it.
LEMMA PhaseFootprint ==
    ASSUME TypeOK, Next, NEW n \in Managers
    PROVE  /\ phase'[n] \in Fleet => phase[n] \in Fleet \/ TakeFleet(n)
           /\ draining'[n] => draining[n] \/ (Retire(n) /\ phase[n] \in {"open", "starting"})
           /\ phase'[n] \in {"draining", "unwinding"} =>
                \/ phase'[n] = phase[n] /\ draining'[n] = draining[n]
                \/ draining'[n]
<1> DEFINE Goal ==
             /\ phase'[n] \in Fleet => phase[n] \in Fleet \/ TakeFleet(n)
             /\ draining'[n] => draining[n] \/ (Retire(n) /\ phase[n] \in {"open", "starting"})
             /\ phase'[n] \in {"draining", "unwinding"} =>
                  \/ phase'[n] = phase[n] /\ draining'[n] = draining[n]
                  \/ draining'[n]
<1>1. phase \in [Managers -> Phases] /\ draining \in [Managers -> BOOLEAN]
  BY TypesByName
<1>2. ASSUME phase'[n] = phase[n], draining'[n] = draining[n]
      PROVE  Goal
  BY <1>2
<1>3. ASSUME NEW m \in Managers, NEW p \in Phases \ {"draining", "unwinding"},
             phase' = [phase EXCEPT ![m] = p], draining' = draining,
             p \in Fleet => phase[m] \in Fleet \/ TakeFleet(m)
      PROVE  Goal
  BY <1>1, <1>3, Phased
<1>4. ASSUME NEW m \in Managers, Ownership(m) \/ Mark(m) \/ Crash(m)
      PROVE  Goal
  <2>1. {"acquired", "fence", "mark", "reconcile", "starting", "open", "standby", "down"}
          \subseteq Phases \ {"draining", "unwinding"}
    BY DEF Phases, Fleet
  <2>2. CASE AcquireLease(m) \/ TakeFleet(m) \/ TakeFences(m)
    BY <1>3, <2>1, <2>2 DEF AcquireLease, TakeFleet, TakeFences, MayTakeFences, Fleet
  <2>3. CASE Mark(m) \/ Open(m)
    BY <1>3, <2>1, <2>3 DEF Mark, Open, Fleet
  <2>4. CASE DrainDone(m) \/ DrainGivesUp(m) \/ Crash(m)
    BY <1>3, <2>1, <2>4, Zenon DEF DrainDone, DrainGivesUp, Crash, Fleet
  <2>5. CASE Reconcile(m)
    <3>1. /\ phase' = [phase EXCEPT ![m] = "starting"] /\ phase[m] = "reconcile"
          /\ draining' = [draining EXCEPT ![m] = FALSE]
      BY <2>5 DEF Reconcile
    <3> QED
      BY <1>1, <3>1 DEF Fleet
  <2>6. CASE Restart(m)
    <3>1. /\ phase' = [phase EXCEPT ![m] = "standby"]
          /\ draining' = [draining EXCEPT ![m] = FALSE]
      BY <2>6 DEF Restart
    <3> QED
      BY <1>1, <3>1 DEF Fleet
  <2> QED
    BY <1>4, <2>2, <2>3, <2>4, <2>5, <2>6 DEF Ownership
<1>5. ASSUME NEW m \in Managers, Retires(m)
      PROVE  Goal
  <2>1. Retire(m)
    BY <1>5 DEF Retires, NoticeLoss, HandOver
  <2>2. CASE n # m
    <3>1. phase'[n] = phase[n]
      BY <2>1, <2>2, Retiring
    <3>2. draining'[n] = draining[n]
      BY <1>1, <2>1, <2>2 DEF Retire
    <3> QED
      BY <1>2, <3>1, <3>2
  <2>3. CASE n = m /\ phase[m] \in {"open", "starting"}
    <3>1. draining'[n]
      BY <1>1, <2>1, <2>3 DEF Retire
    <3>2. phase'[n] \in Fleet => phase[n] \in Fleet
      BY <2>1, <2>3, Retiring DEF Fleet
    <3> QED
      BY <2>1, <2>3, <3>1, <3>2
  <2>4. CASE n = m /\ phase[m] \notin {"open", "starting"}
    <3>1. phase'[n] = "standby"
      BY <2>1, <2>4, Retiring
    <3>2. draining'[n] = draining[n]
      BY <2>1, <2>4 DEF Retire
    <3> QED
      BY <3>1, <3>2 DEF Fleet
  <2> QED
    BY <2>2, <2>3, <2>4
<1>6. CASE \/ \E r \in Runs : Admission(r) \/ Execution(r)
           \/ \E m \in Managers, s \in Schedules, kind \in {"cron", "required"} :
                Call(m, s, kind)
           \/ Produce \/ Deployment \/ Start \/ LeaseLapses \/ StrayEnds
  <2>1. phase' = phase /\ draining' = draining
    BY <1>6, Frames, ExecutionStore DEF owner
  <2> QED
    BY <1>2, <2>1
<1> QED
  BY <1>4, <1>5, <1>6, Kinds

\* The fleet fence goes to one recovery at a time.
LEMMA RecoveryStep ==
    ASSUME TypeOK, RecoveryInv, Next
    PROVE  RecoveryInv'
<1> SUFFICES ASSUME NEW m \in Managers, NEW n \in Managers, m # n,
                    phase'[m] \in Fleet, phase'[n] \in Fleet
             PROVE  FALSE
  BY DEF RecoveryInv
<1>1. ~(phase[m] \in Fleet /\ phase[n] \in Fleet)
  BY DEF RecoveryInv
<1>2. TakeFleet(m) => phase[n] \notin Fleet /\ phase'[n] = phase[n]
  BY DEF TakeFleet, MayTakeFleet, FleetHeld
<1>3. TakeFleet(n) => phase[m] \notin Fleet /\ phase'[m] = phase[m]
  BY DEF TakeFleet, MayTakeFleet, FleetHeld
<1> QED
  BY <1>1, <1>2, <1>3, PhaseFootprint

\* A run that is admitted was admitted before, or is admitted by this step, which no
\* draining manager takes; and what it was told it is still told.
LEMMA AdmittedFootprint ==
    ASSUME TypeOK, RunInv, Next, OpOK(op), NEW q \in Runs, run'[q].pc \in Admitted
    PROVE  /\ Keeps(run[q], run'[q])
           /\ run[q].pc \in Admitted \/ (Commit(q) /\ ~draining[run[q].m])
<1> DEFINE Goal == /\ Keeps(run[q], run'[q])
                   /\ run[q].pc \in Admitted \/ (Commit(q) /\ ~draining[run[q].m])
<1>1. CASE run'[q] = run[q]
  BY <1>1 DEF Keeps
<1>2. ASSUME NEW r \in Runs, Left(r)
      PROVE  Goal
  <2>1. q # r
    BY <1>2, Nobody DEF Left, Admitted
  <2>2. run'[q] = run[q] \/ Succeeds(run[q], run'[q])
    BY <1>2, <2>1 DEF Left
  <2> QED
    BY <1>1, <2>2 DEF Succeeds, Admitted
<1>3. ASSUME NEW r \in Runs, Others(r), q # r
      PROVE  Goal
  BY <1>1, <1>3 DEF Others
<1>4. ASSUME NEW r \in Runs, NEW pc, Goes(r, pc),
             run[r].pc \in Admitted \/ pc \notin Admitted
      PROVE  Goal
  BY <1>3, <1>4 DEF Goes, Same
<1>5. ASSUME NEW r \in Runs, NEW pc, Passes(r, pc), run[r].pc \in Admitted
      PROVE  Goal
  BY <1>2, <1>4, <1>5 DEF Passes
<1>6. ASSUME NEW r \in Runs, Admission(r)
      PROVE  Goal
  <2>1. CASE Begin(r) \/ TakeAdmission(r)
    BY <1>2, <1>4, <2>1, AdmissionEffects DEF Admitted
  <2>2. CASE EnterGate(r) \/ TakePublicationGate(r) \/ Cancel(r)
    <3>1. run[r].pc \in Admitted
      BY <2>2 DEF EnterGate, MayEnterGate, TakePublicationGate, MayTakePublicationGate,
                  Cancel, Admitted
    <3> QED
      BY <1>2, <1>4, <2>2, <3>1, AdmissionEffects
  <2>3. CASE Admit(r) \/ AdmitRequired(r)
    <3>1. Left(r) \/ (Others(r) /\ run'[r].pc = "inserted")
      BY <2>3, AdmissionEffects
    <3> QED
      BY <1>2, <1>3, <3>1 DEF Admitted
  <2> QED
    BY <1>6, <2>1, <2>2, <2>3 DEF Admission
<1>7. ASSUME NEW r \in Runs, Execution(r)
      PROVE  Goal
  <2>1. CASE Commit(r)
    <3>1. Commits(r)
      BY <2>1, CommitEffect
    <3>2. CASE draining[run[r].m]
      <4>1. run' = Gone(r)
        BY <2>1, <3>2 DEF Commit
      <4>2. Left(r)
        BY <4>1, GoneEffect, TypesByName
      <4> QED
        BY <1>2, <4>2
    <3>3. CASE ~draining[run[r].m]
      BY <1>2, <1>3, <2>1, <3>1, <3>3 DEF Commits
    <3> QED
      BY <3>2, <3>3
  <2>2. CASE Execute(r) \/ TakeConsumers(r)
    <3>1. \E pc \in {"fence", "running"} : Passes(r, pc)
      BY <2>2, ExecutionEffects
    <3>2. run[r].pc \in Admitted
      BY <2>2 DEF Execute, MayExecute, TakeConsumers, MayTakeConsumers, Admitted
    <3> QED
      BY <1>5, <3>1, <3>2
  <2>3. CASE TakePublicationFile(r)
    <3>1. Passes(r, "running") \/ Goes(r, "clients")
      BY <2>3, ExecutionEffects
    <3>2. run[r].pc \in Admitted
      BY <2>3 DEF TakePublicationFile, MayTakePublicationFile, Admitted
    <3> QED
      BY <1>4, <1>5, <3>1, <3>2
  <2>4. CASE Abandon(r) \/ Complete(r)
    BY <1>2, <2>4, ExecutionEffects
  <2>5. CASE \E ok \in BOOLEAN : TreeEnds(r, ok) \/ OrphanEnds(r, ok)
    <3>1. \/ Left(r)
          \/ run[r].pc = "running" /\ \E pc \in {"succeeded", "broken"} : Goes(r, pc)
          \/ Goes(r, "dead")
      BY <2>5, ExecutionEffects DEF TreeEnds
    <3>2. "running" \in Admitted /\ "dead" \notin Admitted
      BY DEF Admitted
    <3> QED
      BY <1>2, <1>4, <3>1, <3>2
  <2> QED
    BY <1>7, <2>1, <2>2, <2>3, <2>4, <2>5 DEF Execution
<1>8. ASSUME NEW r \in Runs, Arrives(r), run'[r].pc \in {"called", "inserted"}
      PROVE  Goal
  BY <1>3, <1>8 DEF Arrives, Admitted
<1>9. CASE \E m \in Managers, s \in Schedules, kind \in {"cron", "required"} :
             Call(m, s, kind)
  <2>1. \E r \in Runs : Arrives(r) /\ run'[r].pc = "called"
    BY <1>9, CallEffect
  <2> QED
    BY <1>8, <2>1
<1>10. CASE Produce
  <2>1. run' = run \/ \E r \in Runs : Arrives(r) /\ run'[r].pc = "inserted"
    BY <1>10, ProduceEffect
  <2> QED
    BY <1>1, <1>8, <2>1
<1>11. ASSUME NEW m \in Managers, Retires(m)
       PROVE  Goal
  <2>1. Retire(m)
    BY <1>11 DEF Retires, NoticeLoss, HandOver
  <2>2. \/ run'[q] = run[q]
        \/ Same(run[q], run'[q]) /\ run'[q].pc = run[q].pc
    BY <2>1, DrainedEffect
  <2> QED
    BY <1>1, <2>2 DEF Same
<1>12. ASSUME NEW m \in Managers, Mark(m)
       PROVE  Goal
  BY <1>12, MarkEffect, Nobody DEF Admitted
<1>13. ASSUME NEW m \in Managers, Crash(m)
       PROVE  Goal
  <2>1. run'[q] = run[q] \/ run'[q] = NoRun \/ run'[q].pc \in {"dead", "orphan"}
    BY <1>13, CrashEffect
  <2> QED
    BY <1>1, <2>1, Nobody DEF Admitted
<1>14. CASE Deployment \/ Start \/ LeaseLapses \/ StrayEnds
            \/ \E m \in Managers : Ownership(m)
  BY <1>1, <1>14, Frames
<1> QED
  BY <1>6, <1>7, <1>9, <1>10, <1>11, <1>12, <1>13, <1>14, Kinds

\* A drain reaches every run that is admitted, and admits no other.
LEMMA DrainStep ==
    ASSUME TypeOK, RunInv, OpOK(op), DrainInv, Next
    PROVE  DrainInv'
<1>1. ASSUME NEW r \in Runs, run'[r].pc \in Admitted, draining'[run'[r].m]
      PROVE  run'[r].stop
  <2>1. /\ Keeps(run[r], run'[r])
        /\ run[r].pc \in Admitted \/ (Commit(r) /\ ~draining[run[r].m])
    BY <1>1, AdmittedFootprint
  <2>2. run'[r].m = run[r].m /\ (run[r].stop => run'[r].stop)
    BY <2>1 DEF Keeps
  <2>3. run[r].m \in Managers
    <3>1. run[r].pc # "idle"
      BY <2>1 DEF Commit, Admitted
    <3> QED
      BY <3>1 DEF RunInv, RunOK
  <2>4. CASE Commit(r) /\ ~draining[run[r].m]
    BY <1>1, <2>2, <2>4 DEF Commit, owner
  <2>5. CASE run[r].pc \in Admitted /\ draining[run[r].m]
    BY <2>2, <2>5 DEF DrainInv
  <2>6. CASE run[r].pc \in Admitted /\ ~draining[run[r].m]
    <3>1. Retire(run[r].m) /\ phase[run[r].m] \in {"open", "starting"}
      BY <1>1, <2>2, <2>3, <2>6, PhaseFootprint
    <3>2. run' = Drained(run[r].m)
      BY <3>1 DEF Retire
    <3>3. run'[r] = [run[r] EXCEPT !.stop = TRUE]
      BY <2>6, <3>2 DEF Drained
    <3>4. run[r] \in RunRecords
      BY TypesByName
    <3> QED
      BY <3>3, <3>4 DEF RunRecords
  <2> QED
    BY <2>1, <2>4, <2>5, <2>6
<1>2. ASSUME NEW m \in Managers, phase'[m] \in {"draining", "unwinding"}
      PROVE  draining'[m]
  BY <1>2, PhaseFootprint DEF DrainInv
<1> QED
  BY <1>1, <1>2 DEF DrainInv

-----------------------------------------------------------------------------
(* The queue of a schedule.                                                *)

\* unregisterActive hands the slot on to the run that waits for it.
LEMMA HandedOn ==
    ASSUME run \in [Runs -> RunRecords], NEW r \in Runs, NEW q \in Runs, run' = Gone(r),
           run[r].place = "slot", Together(q, r), run[q].pc = "queued"
    PROVE  run'[q].pc = "ready"
<1>1. q # r /\ q \in {p \in At(run[r].m, run[r].s) : run[p].pc = "queued"}
  BY DEF Together, At
<1>2. run'[q] = [run[q] EXCEPT !.pc = "ready", !.place = "slot"]
  BY <1>1 DEF Gone
<1>3. run[q] \in RunRecords
  OBVIOUS
<1> QED
  BY <1>2, <1>3 DEF RunRecords

\* Who has the slot keeps it, hands it on, or is lost with its control plane.
LEMMA SlotKept ==
    ASSUME TypeOK, RunInv, Next, OpOK(op), NEW h \in Runs, run[h].place = "slot"
    PROVE  \/ Keeps(run[h], run'[h]) /\ run'[h].place = "slot"
           \/ run' = Gone(h)
           \/ \E m \in Managers : Crash(m) /\ run[h].m = m
<1> DEFINE Goal == \/ Keeps(run[h], run'[h]) /\ run'[h].place = "slot"
                   \/ run' = Gone(h)
                   \/ \E m \in Managers : Crash(m) /\ run[h].m = m
<1>1. /\ run[h] \in RunRecords /\ RunOK(run[h])
      /\ run[h].pc \in Admitted \cup {"inserted"} /\ run[h].kind = "cron"
  BY TypesByName DEF RunInv, RunOK, RunRecords
<1>2. CASE run'[h] = run[h]
  BY <1>2 DEF Keeps
<1>3. ASSUME Same(run[h], run'[h])
      PROVE  Goal
  BY <1>3 DEF Same
<1>4. ASSUME NEW r \in Runs \ {h}, Left(r) \/ Others(r)
      PROVE  Goal
  <2>1. run'[h] = run[h] \/ Succeeds(run[h], run'[h])
    BY <1>4 DEF Left, Others
  <2> QED
    BY <1>2, <2>1 DEF Succeeds
<1>5. ASSUME NEW r \in Runs, NEW pc, Goes(r, pc)
      PROVE  Goal
  BY <1>3, <1>4, <1>5 DEF Goes
<1>6. ASSUME NEW r \in Runs, Admission(r)
      PROVE  Goal
  <2>1. CASE r # h
    <3>1. Left(r) \/ Others(r)
      BY <1>6, AdmissionEffects DEF Admission, Goes
    <3> QED
      BY <1>4, <2>1, <3>1
  <2>2. CASE r = h
    <3>1. EnterGate(h) \/ TakePublicationGate(h) \/ Cancel(h)
      BY <1>1, <1>6, <2>2 DEF Admission, Begin, TakeAdmission, MayTakeAdmission, Admit, MayAdmit,
              AdmitRequired, Admitted
    <3>2. ~EnterGate(h)
      BY <1>1 DEF EnterGate, MayEnterGate, RunOK
    <3>3. Goes(h, "file") \/ Goes(h, run[h].pc)
      BY <3>1, <3>2, AdmissionEffects
    <3> QED
      BY <1>5, <3>3
  <2> QED
    BY <2>1, <2>2
<1>7. ASSUME NEW r \in Runs, NEW pc \in Pcs, Pass(r, pc), Passes(r, pc)
      PROVE  Goal
  <2>1. CASE r # h
    BY <1>4, <1>5, <1>7, <2>1 DEF Passes
  <2>2. CASE r = h
    <3>1. run' = Gone(h) \/ run' = [run EXCEPT ![h].pc = pc]
      BY <1>7, <2>2 DEF Pass
    <3>2. ASSUME run' = [run EXCEPT ![h].pc = pc]
          PROVE  Same(run[h], run'[h])
      BY <1>1, <1>7, <3>2, TypesByName, Steps
    <3> QED
      BY <1>3, <3>1, <3>2
  <2> QED
    BY <2>1, <2>2
<1>8. ASSUME NEW r \in Runs, Execution(r)
      PROVE  Goal
  <2>1. CASE Commit(r)
    <3>1. Commits(r)
      BY <2>1, CommitEffect
    <3>2. CASE r # h
      BY <1>4, <3>1, <3>2 DEF Commits
    <3>3. CASE r = h
      <4>1. CASE draining[run[h].m]
        BY <2>1, <3>3, <4>1 DEF Commit
      <4>2. CASE ~draining[run[h].m]
        <5> DEFINE pc == IF run[h].kind = "required" THEN "gate" ELSE "ready"
        <5>1. run' = [run EXCEPT ![h].pc = pc, ![h].place = run[h].place]
          BY <1>1, <2>1, <3>3, <4>2 DEF Commit
        <5> HIDE DEF pc
        <5>2. run'[h] = [run[h] EXCEPT !.pc = pc, !.place = "slot"]
          BY <5>1, TypesByName
        <5>3. Keeps(run[h], run'[h]) /\ run'[h].place = "slot"
          BY <1>1, <5>2 DEF Keeps, RunRecords
        <5> QED
          BY <5>3
      <4> QED
        BY <4>1, <4>2
    <3> QED
      BY <3>2, <3>3
  <2>2. CASE Execute(r) \/ TakeConsumers(r)
    <3>1. \E pc \in {"fence", "running"} : Pass(r, pc)
      BY <2>2 DEF Execute, TakeConsumers
    <3>2. {"fence", "running"} \subseteq Pcs
      BY DEF Pcs, Admitted
    <3> QED
      BY <1>7, <3>1, <3>2, PassEffect
  <2>3. CASE TakePublicationFile(r)
    <3>1. Goes(r, "clients") \/ Pass(r, "running")
      BY <2>3, ExecutionEffects DEF TakePublicationFile
    <3>2. "running" \in Pcs
      BY DEF Pcs, Admitted
    <3> QED
      BY <1>5, <1>7, <3>1, <3>2, PassEffect
  <2>4. CASE Abandon(r) \/ Complete(r)
    <3>1. Left(r) /\ run' = Gone(r)
      BY <2>4, ExecutionEffects, ZenonT(30) DEF Abandon, Complete
    <3> QED
      BY <1>4, <3>1, ZenonT(30)
  <2>5. CASE \E ok \in BOOLEAN : TreeEnds(r, ok) \/ OrphanEnds(r, ok)
    <3>1. Left(r) \/ \E pc \in {"succeeded", "broken", "dead"} : Goes(r, pc)
      BY <2>5, ExecutionEffects
    <3>2. CASE r # h
      BY <1>4, <1>5, <3>1, <3>2
    <3>3. CASE r = h
      <4>1. run[h].pc # "orphan"
        BY <1>1 DEF Admitted
      <4>2. \E ok \in BOOLEAN : TreeEnds(h, ok)
        BY <2>5, <3>3, <4>1 DEF OrphanEnds
      <4>3. \E pc \in {"succeeded", "broken"} : Goes(h, pc)
        BY <4>2, ExecutionEffects
      <4> QED
        BY <1>5, <4>3
    <3> QED
      BY <3>2, <3>3
  <2> QED
    BY <1>8, <2>1, <2>2, <2>3, <2>4, <2>5 DEF Execution
<1>9. ASSUME NEW r \in Runs, Arrives(r)
      PROVE  Goal
  <2>1. r # h
    BY <1>1, <1>9 DEF Arrives, Admitted
  <2> QED
    BY <1>4, <1>9, <2>1 DEF Arrives
<1>10. CASE \E m \in Managers, s \in Schedules, kind \in {"cron", "required"} :
              Call(m, s, kind)
  <2>1. \E r \in Runs : Arrives(r)
    BY <1>10, CallEffect
  <2> QED
    BY <1>9, <2>1
<1>11. CASE Produce
  <2>1. run' = run \/ \E r \in Runs : Arrives(r)
    BY <1>11, ProduceEffect
  <2> QED
    BY <1>2, <1>9, <2>1
<1>12. ASSUME NEW m \in Managers, Retires(m)
       PROVE  Goal
  <2>1. Retire(m)
    BY <1>12 DEF Retires, NoticeLoss, HandOver
  <2>2. run'[h] = run[h] \/ Same(run[h], run'[h])
    BY <2>1, DrainedEffect
  <2> QED
    BY <1>2, <1>3, <2>2
<1>13. ASSUME NEW m \in Managers, Mark(m)
       PROVE  Goal
  <2>1. run[h].pc # "dead"
    BY <1>1 DEF Admitted
  <2> QED
    BY <1>13, <2>1, MarkEffect
<1>14. ASSUME NEW m \in Managers, Crash(m)
       PROVE  Goal
  <2>1. CASE run[h].m # m
    BY <1>2, <1>14, <2>1, CrashEffect
  <2> QED
    BY <1>14, <2>1
<1>15. CASE Deployment \/ Start \/ LeaseLapses \/ StrayEnds
            \/ \E m \in Managers : Ownership(m)
  BY <1>2, <1>15, Frames
<1> QED
  BY <1>6, <1>8, <1>10, <1>11, <1>12, <1>13, <1>14, <1>15, Kinds

\* Who waits in the queue waited there before, or has found the slot taken.
LEMMA QueuedFootprint ==
    ASSUME TypeOK, RunInv, Next, OpOK(op), NEW q \in Runs, run'[q].pc = "queued"
    PROVE  /\ Keeps(run[q], run'[q])
           /\ \/ run[q].pc = "queued"
              \/ /\ Others(q) /\ run[q].place = "queue"
                 /\ ~SlotFree(run[q].m, run[q].s)
<1> DEFINE Goal == \/ run[q].pc = "queued"
                   \/ /\ Others(q) /\ run[q].place = "queue"
                      /\ ~SlotFree(run[q].m, run[q].s)
<1>1. /\ Keeps(run[q], run'[q])
      /\ run[q].pc \in Admitted \/ Commit(q)
  BY AdmittedFootprint DEF Admitted
<1>2. CASE run'[q] = run[q]
  BY <1>1, <1>2
<1>3. ASSUME NEW r \in Runs, Left(r)
      PROVE  Goal
  BY <1>2, <1>3, Nobody DEF Left, Succeeds
<1>4. ASSUME NEW r \in Runs, NEW pc \in Pcs \ {"queued"}, Goes(r, pc) \/ Passes(r, pc)
      PROVE  Goal
  BY <1>2, <1>3, <1>4 DEF Goes, Others, Passes
<1>5. {"admission", "door", "ready", "file", "fence", "running", "clients", "succeeded",
       "broken", "dead"} \subseteq Pcs \ {"queued"}
  BY DEF Pcs, Admitted
<1>6. ASSUME NEW r \in Runs, Admission(r)
      PROVE  Goal
  <2>1. CASE Admit(r) \/ AdmitRequired(r)
    <3>1. Left(r) \/ (Others(r) /\ run'[r].pc = "inserted")
      BY <2>1, AdmissionEffects
    <3> QED
      BY <1>2, <1>3, <3>1 DEF Others
  <2>2. CASE Cancel(r)
    <3>1. Others(r) /\ run'[r].pc = run[r].pc
      BY <2>2, AdmissionEffects DEF Goes
    <3> QED
      BY <1>2, <3>1 DEF Others
  <2>3. CASE \/ Begin(r) \/ TakeAdmission(r) \/ EnterGate(r) \/ TakePublicationGate(r)
    <3>1. Left(r) \/ \E pc \in {"admission", "door", "ready", "file"} : Goes(r, pc)
      BY <2>3, AdmissionEffects
    <3> QED
      BY <1>3, <1>4, <1>5, <3>1
  <2> QED
    BY <1>6, <2>1, <2>2, <2>3 DEF Admission
<1>7. ASSUME NEW r \in Runs, Execution(r)
      PROVE  Goal
  <2>1. CASE Commit(r)
    <3>1. Commits(r)
      BY <2>1, CommitEffect
    <3>2. CASE r # q
      BY <1>2, <1>3, <3>1, <3>2 DEF Commits, Others
    <3>3. CASE r = q /\ ~Left(q)
      <4>1. ~draining[run[q].m]
        BY <2>1, <3>3, GoneEffect, TypesByName DEF Commit
      <4>2. run[q].place = "queue" /\ ~SlotFree(run[q].m, run[q].s)
        <5>1. run'[q].place = "queue"
          BY <3>1, <3>3 DEF Commits
        <5>2. run[q].place = "queue" /\ run[q].kind # "required"
          BY <3>1, <3>3, <5>1 DEF Commits, RunInv, RunOK
        <5>3. ASSUME SlotFree(run[q].m, run[q].s)
              PROVE  FALSE
          <6>1. run' = [run EXCEPT ![q].pc = "ready", ![q].place = "slot"]
            BY <2>1, <3>3, <4>1, <5>1, <5>2, <5>3 DEF Commit
          <6>2. run \in [Runs -> RunRecords] /\ run[q] \in RunRecords
            BY TypesByName
          <6>3. run'[q] = [run[q] EXCEPT !.pc = "ready", !.place = "slot"]
            BY <6>1, <6>2
          <6> QED
            BY <6>2, <6>3 DEF RunRecords
        <5> QED
          BY <5>2, <5>3
      <4> QED
        BY <3>1, <3>3, <4>2 DEF Commits
    <3> QED
      BY <1>3, <3>2, <3>3
  <2>2. CASE Execute(r) \/ TakeConsumers(r)
    <3>1. \E pc \in {"fence", "running"} : Passes(r, pc)
      BY <2>2, ExecutionEffects
    <3> QED
      BY <1>4, <1>5, <3>1
  <2>3. CASE TakePublicationFile(r)
    <3>1. Goes(r, "clients") \/ Passes(r, "running")
      BY <2>3, ExecutionEffects
    <3> QED
      BY <1>4, <1>5, <3>1
  <2>4. CASE Abandon(r) \/ Complete(r)
    BY <1>3, <2>4, ExecutionEffects
  <2>5. CASE \E ok \in BOOLEAN : TreeEnds(r, ok) \/ OrphanEnds(r, ok)
    <3>1. Left(r) \/ \E pc \in {"succeeded", "broken", "dead"} : Goes(r, pc)
      BY <2>5, ExecutionEffects
    <3> QED
      BY <1>3, <1>4, <1>5, <3>1
  <2> QED
    BY <1>7, <2>1, <2>2, <2>3, <2>4, <2>5 DEF Execution
<1>8. ASSUME NEW r \in Runs, Others(r), run'[r].pc # "queued"
      PROVE  Goal
  BY <1>2, <1>8 DEF Others
<1>9. CASE \E m \in Managers, s \in Schedules, kind \in {"cron", "required"} :
             Call(m, s, kind)
  <2>1. PICK r \in Runs : Others(r) /\ run'[r].pc = "called"
    BY <1>9, CallEffect DEF Arrives
  <2> QED
    BY <1>1, <1>8, <2>1
<1>10. CASE Produce
  <2>1. CASE run' = run
    BY <1>2, <2>1
  <2>2. CASE run' # run
    <3>1. PICK r \in Runs : Others(r) /\ run'[r].pc = "inserted"
      BY <1>10, <2>2, ProduceEffect DEF Arrives
    <3> QED
      BY <1>1, <1>8, <3>1
  <2> QED
    BY <2>1, <2>2
<1>11. ASSUME NEW m \in Managers, Retires(m)
       PROVE  Goal
  <2>1. Retire(m)
    BY <1>11 DEF Retires, NoticeLoss, HandOver
  <2>2. run'[q].pc = run[q].pc
    BY <2>1, DrainedEffect
  <2> QED
    BY <2>2
<1>12. ASSUME NEW m \in Managers, Mark(m)
       PROVE  Goal
  BY <1>12, MarkEffect, Nobody
<1>13. ASSUME NEW m \in Managers, Crash(m)
       PROVE  Goal
  <2>1. run'[q] = run[q] \/ run'[q] = NoRun \/ run'[q].pc \in {"dead", "orphan"}
    BY <1>13, CrashEffect
  <2> QED
    BY <1>2, <2>1, Nobody
<1>14. CASE Deployment \/ Start \/ LeaseLapses \/ StrayEnds
            \/ \E m \in Managers : Ownership(m)
  BY <1>2, <1>14, Frames
<1> QED
  BY <1>1, <1>6, <1>7, <1>9, <1>10, <1>11, <1>12, <1>13, <1>14, Kinds

\* No run is left in the queue of a slot that nobody has.
LEMMA QueueStep ==
    ASSUME TypeOK, RunInv, OpOK(op), QueueInv, Next
    PROVE  QueueInv'
<1> SUFFICES ASSUME NEW q \in Runs, run'[q].pc = "queued"
             PROVE  \E r \in Runs : Together(q, r)' /\ run'[r].place = "slot"
  BY DEF QueueInv
<1>1. /\ run'[q].m = run[q].m /\ run'[q].s = run[q].s
      /\ \/ run[q].pc = "queued"
         \/ /\ Others(q) /\ run[q].place = "queue"
            /\ ~SlotFree(run[q].m, run[q].s)
  BY QueuedFootprint DEF Keeps
<1>2. CASE run[q].pc = "queued"
  <2>1. PICK r \in Runs : Together(q, r) /\ run[r].place = "slot"
    BY <1>2 DEF QueueInv
  <2>2. CASE Keeps(run[r], run'[r]) /\ run'[r].place = "slot"
    BY <1>1, <2>1, <2>2 DEF Together, Keeps
  <2>3. run' # Gone(r)
    BY <1>2, <2>1, HandedOn, TypesByName DEF Together
  <2>4. ASSUME NEW m \in Managers, Crash(m), run[r].m = m
        PROVE  FALSE
    <3>1. run[q].m = m
      BY <2>1, <2>4 DEF Together
    <3> QED
      BY <1>2, <2>4, <3>1, CrashEffect, Nobody
  <2> QED
    BY <2>1, <2>2, <2>3, <2>4, SlotKept
<1>3. CASE Others(q) /\ run[q].place = "queue" /\ ~SlotFree(run[q].m, run[q].s)
  <2>1. PICK r \in At(run[q].m, run[q].s) : run[r].place = "slot"
    BY <1>3 DEF SlotFree
  <2>2. r \in Runs /\ r # q /\ run[r].m = run[q].m /\ run[r].s = run[q].s
    BY <1>3, <2>1 DEF At
  <2>3. run'[r] = run[r]
    BY <1>3, <2>2 DEF Others
  <2> QED
    BY <1>1, <2>1, <2>2, <2>3 DEF Together
<1> QED
  BY <1>1, <1>2, <1>3

-----------------------------------------------------------------------------
(* The admission locks of an operation.                                    *)

\* AcquireProducerGates asks for no gate before it has every admission lock.
LEMMA HeldStep ==
    ASSUME TypeOK, RunInv, OpOK(op), CandInv, HeldInv, Next
    PROVE  HeldInv'
<1>1. op \in OpRecords
  BY TypesByName
<1>2. ASSUME op' = op \/ op'.pc # "admissions" \/ op'.gates = {}
      PROVE  HeldInv'
  BY <1>2 DEF HeldInv
<1>3. ASSUME NEW r \in Runs, Execution(r)
      PROVE  HeldInv'
  BY <1>2, <1>3, ExecutionOp DEF Settles
<1>4. CASE Produce
  <2>1. \E pc \in {"producing", "fail"} : op' = [op EXCEPT !.pc = pc]
    BY <1>4, ProduceEffect
  <2>2. op'.pc \in {"producing", "fail"}
    BY <1>1, <2>1, OpPc DEF OpGoes
  <2> QED
    BY <1>2, <2>2
<1>5. CASE Deployment
  <2>1. CASE \E m \in Managers, v \in Versions : StartDeploy(m, v)
    BY <1>2, <2>1, GatesEffects
  <2>2. CASE TakeAdmissions
    <3>1. op.gates = {}
      BY <2>2 DEF TakeAdmissions, MayTakeAdmissions, HeldInv
    <3>2. op'.gates = {}
      BY <2>2, <3>1, GatesEffects DEF OpGoes, Alike
    <3> QED
      BY <1>2, <3>2
  <2>3. CASE TakeGates
    <3> DEFINE all == op.gates \cup {Min(Schedules \ op.gates)} = Schedules
    <3>1. CASE all
      <4>1. op' = [op EXCEPT !.gates = op.gates \cup {Min(Schedules \ op.gates)},
                             !.held = {}, !.pc = "plan"]
        BY <1>1, <2>3, <3>1 DEF TakeGates
      <4>2. op'.pc = "plan"
        BY <1>1, <4>1 DEF OpRecords
      <4> QED
        BY <1>2, <4>2
    <3>2. CASE ~all
      <4>1. op.held = Schedules
        BY <2>3 DEF TakeGates, MayTakeGates
      <4>2. op' = [op EXCEPT !.gates = op.gates \cup {Min(Schedules \ op.gates)},
                             !.held = op.held, !.pc = op.pc]
        BY <1>1, <2>3, <3>2 DEF TakeGates
      <4>3. op'.held = Schedules
        BY <1>1, <4>1, <4>2 DEF OpRecords
      <4> QED
        BY <4>3 DEF HeldInv
    <3> QED
      BY <3>1, <3>2
  <2>4. CASE Plan \/ Prepare \/ PrepareFails \/ Produced \/ Converge
    BY <1>2, <2>4, OpEffects DEF OpGoes
  <2>5. CASE StopFails \/ Promote \/ Fail
    BY <1>2, <2>5, OpEffects, Nobody
  <2> QED
    BY <1>5, <2>1, <2>2, <2>3, <2>4, <2>5 DEF Deployment
<1>6. CASE Start
  <2>1. CASE \E m \in Managers : StartWake(m)
    BY <1>2, <2>1, OpEffects
  <2>2. CASE TakeBootGate \/ TakeBootFile
    BY <1>2, <2>2, OpEffects DEF TakeBootGate, MayTakeBootGate, TakeBootFile, MayTakeBootFile
  <2>3. CASE CheckCompatible \/ Boot \/ BootFails
    BY <1>2, <2>3, OpEffects, Nobody DEF OpGoes
  <2> QED
    BY <1>6, <2>1, <2>2, <2>3 DEF Start
<1>7. CASE \/ \E r \in Runs : Admission(r)
           \/ \E m \in Managers, s \in Schedules, kind \in {"cron", "required"} :
                Call(m, s, kind)
           \/ \E m \in Managers : Ownership(m) \/ Retires(m) \/ Mark(m)
           \/ LeaseLapses \/ StrayEnds
  BY <1>2, <1>7, Frames, SMTT(30)
<1>8. CASE \E m \in Managers : Crash(m)
  BY <1>2, <1>8, Nobody DEF Crash
<1> QED
  BY <1>3, <1>4, <1>5, <1>6, <1>7, <1>8, Kinds

-----------------------------------------------------------------------------
(* The invariant.                                                          *)

\* Nobody waits for anything at first.
LEMMA InitGo ==
    ASSUME Init
    PROVE  GoInv
<1>1. op = NoOp /\ op.pc = "none"
  BY Nobody DEF Init
<1>2. /\ \A m \in Managers : phase[m] = "standby"
      /\ \A m \in Managers : ~draining[m]
  BY DEF Init
<1>3. \A r \in Runs : run[r] = NoRun /\ run[r].pc = "idle"
  BY Nobody DEF Init
<1>4. VacantInv /\ ProducerInv /\ HeldInv
  BY <1>1 DEF VacantInv, Vacated, ProducerInv, HeldInv
<1>5. RecoveryInv /\ DrainInv /\ QueueInv
  BY <1>2, <1>3 DEF RecoveryInv, DrainInv, QueueInv, Fleet, Admitted
<1> QED
  BY <1>4, <1>5 DEF GoInv

\* Every step keeps the invariant.
LEMMA GoStep ==
    ASSUME IInv, GoInv, [Next]_vars
    PROVE  GoInv'
<1>1. CASE Next
  <2>1. VacantInv' /\ ProducerInv'
    BY <1>1, VacantStep, ProducerStep DEF IInv, GoInv
  <2>2. RecoveryInv' /\ DrainInv'
    BY <1>1, RecoveryStep, DrainStep DEF IInv, GoInv
  <2>3. QueueInv' /\ HeldInv'
    BY <1>1, QueueStep, HeldStep DEF IInv, GoInv
  <2> QED
    BY <2>1, <2>2, <2>3 DEF GoInv
<1>2. CASE UNCHANGED vars
  <2>1. UNCHANGED <<phase, draining, run, op, consumer>>
    BY <1>2 DEF vars
  <2>2. VacantInv' /\ ProducerInv' /\ HeldInv'
    BY <2>1 DEF GoInv, VacantInv, ProducerInv, HeldInv, Candidate
  <2>3. RecoveryInv' /\ DrainInv' /\ QueueInv'
    BY <2>1 DEF GoInv, RecoveryInv, DrainInv, QueueInv, Together
  <2> QED
    BY <2>2, <2>3 DEF GoInv
<1> QED
  BY <1>1, <1>2

\* The invariant holds throughout.
LEMMA GoInvariance == Spec => [](IInv /\ GoInv)
<1>1. Init => IInv /\ GoInv
  BY InitInv, InitGo
<1>2. IInv /\ GoInv /\ [Next]_vars => (IInv /\ GoInv)'
  BY Preserved, GoStep
<1> QED
  BY <1>1, <1>2, PTL DEF Spec

-----------------------------------------------------------------------------
(* From the last lock to the first.                                        *)

\* Nobody goes on.
Stuck ==
    /\ ~OpGoesOn
    /\ \A r \in Runs : ~RunGoesOn(r)
    /\ \A m \in Managers : ~OwnerGoesOn(m)

\* Nobody is on the way out, and nobody recovers beyond his wait for the fences.
LEMMA NobodyLeaves ==
    ASSUME Stuck
    PROVE  /\ \A r \in Runs : run[r].pc \notin {"called", "inserted", "running", "orphan",
                                                "succeeded", "broken"}
           /\ \A m \in Managers : phase[m] \notin {"mark", "reconcile", "starting"}
           /\ op.pc \notin {"plan", "prepare", "boot", "promote", "fail"}
           /\ ~(op.pc = "converge" /\ op.boot = "file")
BY DEF Stuck, RunGoesOn, OwnerGoesOn, OpGoesOn

\* Who waits for the consumers to be gone is alone, for its deployment stopped them.
LEMMA NobodyAtClients ==
    ASSUME IInv, GoInv, Stuck, NEW r \in Runs
    PROVE  run[r].pc # "clients"
<1> SUFFICES ASSUME run[r].pc = "clients"
             PROVE  FALSE
  OBVIOUS
<1>1. run[r].kind = "candidate" /\ Candidate(r)
  BY DEF IInv, RunInv, RunOK, Candidate
<1>2. consumer = None
  BY <1>1 DEF IInv, CandInv, GoInv, VacantInv, Vacated
<1>3. ~stray
  BY DEF Stuck, RunGoesOn
<1>4. ConsumersFree
  BY <1>2, <1>3, NobodyLeaves DEF ConsumersFree, Tree
<1> QED
  BY <1>4 DEF Stuck, RunGoesOn, MayTakeConsumers

\* Who waits for publication.lock finds it free: nobody writes, and who boots goes on.
LEMMA NobodyAtFile ==
    ASSUME IInv, GoInv, Stuck, NEW r \in Runs
    PROVE  run[r].pc # "file"
<1> SUFFICES ASSUME run[r].pc = "file"
             PROVE  FALSE
  OBVIOUS
<1>1. ~JobsHeldEx
  BY DEF IInv, JobsInv, In, Sharing
<1>2. ~FileHeldEx
  BY <1>1, NobodyLeaves, NobodyAtClients DEF FileHeldEx, Publisher, In, Tree
<1>3. ~FileHeldSh
  BY NobodyLeaves DEF IInv, OpOK, FileHeldSh
<1> QED
  BY <1>2, <1>3 DEF Stuck, RunGoesOn, MayTakePublicationFile

\* Nobody writes behind the publication gate of a process.
LEMMA NobodyWrites ==
    ASSUME IInv, GoInv, Stuck, NEW m
    PROVE  ~WritesIn(m)
BY NobodyLeaves, NobodyAtClients, NobodyAtFile DEF WritesIn, Publisher, In

\* Who operates has publication.lock or goes on to take it.
LEMMA NobodyConverges ==
    ASSUME IInv, GoInv, Stuck
    PROVE  op.pc # "converge" /\ op.boot = "none"
<1>1. op \in OpRecords
  BY TypesByName DEF IInv
<1>2. op # NoOp => ~FleetHeld /\ ~JobsHeldEx
  BY DEF IInv, FleetInv, FleetHeld, JobsHeldEx, Fencing
<1>3. op # NoOp => op.m \in Managers
  BY <1>1 DEF IInv, OpOK, OpRecords
<1>4. op # NoOp => ~GateHeldEx(op.m) /\ ~FileHeldEx
  <2>1. op # NoOp => phase[op.m] \notin Fencing
    BY <1>2, <1>3 DEF JobsHeldEx
  <2>2. ~(Publisher({"clients", "succeeded", "broken"} \cup Tree) # {})
    BY NobodyLeaves, NobodyAtClients DEF Publisher, In, Tree
  <2> QED
    BY <1>2, <2>1, <2>2, NobodyWrites DEF GateHeldEx, FileHeldEx
<1>5. op.pc # "converge"
  <2>1. ASSUME op.pc = "converge"
        PROVE  FALSE
    <3>1. op # NoOp /\ op.boot \in {"none", "gate"}
      BY <1>1, <2>1, Nobody, NobodyLeaves DEF OpRecords
    <3> QED
      BY <1>4, <2>1, <3>1 DEF Stuck, OpGoesOn, MayTakeBootGate, MayTakeBootFile
  <2> QED
    BY <2>1
<1>6. op.boot = "none"
  BY <1>5, NobodyLeaves DEF IInv, OpOK
<1> QED
  BY <1>5, <1>6

\* Who waits for the publication gate finds it free.
LEMMA NobodyAtFence ==
    ASSUME IInv, GoInv, Stuck, NEW r \in Runs
    PROVE  run[r].pc # "fence"
<1> SUFFICES ASSUME run[r].pc = "fence"
             PROVE  FALSE
  OBVIOUS
<1>1. run[r].m \in Managers /\ ~JobsHeldEx
  BY DEF IInv, RunInv, RunOK, JobsInv, In, Sharing
<1>2. ~GateHeldEx(run[r].m)
  BY <1>1, NobodyWrites DEF GateHeldEx, JobsHeldEx
<1>3. ~GateHeldSh(run[r].m)
  BY NobodyConverges DEF GateHeldSh
<1> QED
  BY <1>2, <1>3 DEF Stuck, RunGoesOn, MayTakePublicationGate

\* Nobody holds jobs.lock.
LEMMA NobodyShares ==
    ASSUME IInv, GoInv, Stuck, NEW r \in Runs
    PROVE  run[r].pc \notin Sharing
BY NobodyLeaves, NobodyAtClients, NobodyAtFile, NobodyAtFence DEF Sharing, Holding, Tree

\* A deployment waits for its producer only, which goes on, or for its gates.
LEMMA NobodyProduces ==
    ASSUME IInv, GoInv, Stuck, ~(op.pc = "produce" /\ OutOfRuns)
    PROVE  op = NoOp \/ (op.pc = "admissions" /\ op.kind = "deploy")
<1>1. op \in OpRecords
  BY TypesByName DEF IInv
<1>2. op.pc # "produce"
  BY DEF Stuck, OpGoesOn, MayProduce
<1>3. op.pc # "producing"
  <2>1. ASSUME op.pc = "producing"
        PROVE  FALSE
    <3>1. PICK r \in Runs : Candidate(r)
      BY <2>1 DEF GoInv, ProducerInv
    <3>2. run[r].pc = "ready"
      BY <3>1, NobodyLeaves, NobodyShares DEF IInv, RunInv, RunOK, Candidate
    <3>3. ~JobsHeldEx
      BY <2>1, Nobody DEF IInv, FleetInv, FleetHeld, JobsHeldEx, Fencing
    <3> QED
      BY <3>2, <3>3 DEF Stuck, RunGoesOn, MayExecute
  <2> QED
    BY <2>1
<1>4. op.pc \in {"none", "admissions"}
  BY <1>1, <1>2, <1>3, NobodyLeaves, NobodyConverges DEF OpRecords
<1>5. op = NoOp \/ op.kind \in {"deploy", "wake"}
  BY <1>1 DEF IInv, OpOK, OpRecords
<1> QED
  BY <1>4, <1>5 DEF IInv, OpOK

\* Who waits for the fences of a recovery finds them free.
LEMMA NobodyFences ==
    ASSUME IInv, GoInv, Stuck, NEW m \in Managers
    PROVE  phase[m] # "fence"
<1> SUFFICES ASSUME phase[m] = "fence"
             PROVE  FALSE
  OBVIOUS
<1>1. ~JobsHeldEx
  BY DEF GoInv, RecoveryInv, JobsHeldEx, Fencing, Fleet
<1>2. ~JobsHeldSh
  BY NobodyShares DEF JobsHeldSh, In, Sharing, Holding
<1>3. ~FileHeldEx
  BY <1>1, NobodyShares DEF FileHeldEx, Publisher, In, Sharing, Holding
<1>4. ~FileHeldSh /\ ~GateHeldSh(m)
  BY NobodyConverges DEF FileHeldSh, GateHeldSh
<1> QED
  BY <1>1, <1>2, <1>3, <1>4, NobodyWrites DEF Stuck, OwnerGoesOn, MayTakeFences

\* Where no operation has the gates of a control plane, its runs enter: if none of them
\* has come as far as the queue or jobs.lock, there is none.
LEMMA NobodyEnters ==
    ASSUME IInv, GoInv, Stuck, NEW m \in Managers, op.m # m,
           \A r \in Runs : run[r].m = m => run[r].pc \notin {"queued", "ready"}
    PROVE  \A r \in Runs : run[r].m = m => run[r].pc \in {"idle", "dead"}
<1>1. \A r \in Runs : run[r] \in RunRecords /\ RunOK(run[r])
  BY TypesByName DEF IInv, RunInv
<1>2. \A r \in Runs : run[r].m = m => run[r].pc \in {"idle", "dead", "admission", "door", "gate"}
  BY <1>1, NobodyLeaves, NobodyShares
     DEF RunRecords, Pcs, Admitted, Sharing, Holding, Tree
<1>3. \A s : GateReaders(m, s) = {} /\ ~GateWritten(m, s)
  BY <1>1, <1>2 DEF GateReaders, GateWritten, At, Admitted, RunOK
<1>4. \A r \in Runs : run[r].m = m => run[r].pc \notin {"gate", "door"}
  BY <1>3 DEF Stuck, RunGoesOn, MayEnterGate, MayAdmit, GateFree
<1>5. \A s : AdmissionFree(m, s)
  BY <1>2, <1>4 DEF AdmissionFree, At
<1>6. \A r \in Runs : run[r].m = m => run[r].pc # "admission"
  <2>1. ASSUME NEW r \in Runs, run[r].m = m, run[r].pc = "admission"
        PROVE  FALSE
    <3>1. run[r].kind \in {"cron", "required"}
      BY <1>1, <2>1 DEF RunRecords, RunOK, Sharing, Holding, Tree
    <3> QED
      BY <1>5, <2>1, <3>1 DEF Stuck, RunGoesOn, MayTakeAdmission
  <2> QED
    BY <2>1
<1> QED
  BY <1>2, <1>4, <1>6

\* A recovery that unwinds has told all its runs to stop, and they do.
LEMMA NobodyUnwinds ==
    ASSUME IInv, GoInv, Stuck, NEW m \in Managers
    PROVE  phase[m] # "unwinding"
<1> SUFFICES ASSUME phase[m] = "unwinding"
             PROVE  FALSE
  OBVIOUS
<1>1. op = NoOp /\ op.m # m
  BY Nobody, ScheduleAssumption DEF IInv, FleetInv, FleetHeld, Fleet
<1>2. draining[m]
  BY DEF GoInv, DrainInv
<1>3. \A r \in Runs : run[r].m = m => run[r].pc \notin {"queued", "ready"}
  BY <1>2 DEF GoInv, DrainInv, Admitted, Stuck, RunGoesOn, MayAbandon, Waiting
<1>4. \A r \in Runs : run[r].m = m => run[r].pc \in {"idle", "dead"}
  BY <1>1, <1>3, NobodyEnters
<1> QED
  BY <1>4 DEF Stuck, OwnerGoesOn, MayFinishDrain

\* So the fleet fence and jobs.lock are free.
LEMMA NobodyRecovers ==
    ASSUME IInv, GoInv, Stuck
    PROVE  ~FleetHeld /\ ~JobsHeldEx
BY NobodyLeaves, NobodyFences, NobodyUnwinds DEF FleetHeld, JobsHeldEx, Fencing, Fleet

\* Nobody is ready, for jobs.lock is free; nobody queues, for whoever has the slot is
\* on the way out.
LEMMA NobodyQueues ==
    ASSUME IInv, GoInv, Stuck, NEW q \in Runs
    PROVE  run[q].pc \notin {"queued", "ready"}
<1>1. \A r \in Runs : run[r].pc # "ready"
  BY NobodyRecovers DEF Stuck, RunGoesOn, MayExecute
<1>2. ASSUME run[q].pc = "queued"
      PROVE  FALSE
  <2>1. PICK r \in Runs : Together(q, r) /\ run[r].place = "slot"
    BY <1>2 DEF GoInv, QueueInv
  <2>2. run[r] \in RunRecords /\ RunOK(run[r])
    BY TypesByName DEF IInv, RunInv
  <2>3. run[r].pc \in Admitted \cup {"inserted"}
    BY <2>1, <2>2 DEF RunOK
  <2>4. run[r].pc \notin {"queued", "gate"}
    BY <2>1, <2>2 DEF RunOK
  <2> QED
    BY <1>1, <2>3, <2>4, NobodyLeaves, NobodyShares
       DEF Admitted, Sharing, Holding, Tree
<1> QED
  BY <1>1, <1>2

\* An operation finds the admission locks and the gates of its schedules free, one
\* after another: Min(Schedules \ held) is the next.
LEMMA NobodyOperates ==
    ASSUME IInv, GoInv, Stuck, ~(op.pc = "produce" /\ OutOfRuns)
    PROVE  op = NoOp
<1> SUFFICES ASSUME op.pc = "admissions", op.kind = "deploy"
             PROVE  FALSE
  BY NobodyProduces
<1>1. /\ op \in OpRecords /\ op.held \subseteq Schedules /\ op.gates \subseteq Schedules
      /\ op.gates # Schedules
  BY TypesByName DEF IInv, OpOK, OpRecords
<1>2. \A r \in Runs : run[r] \in RunRecords /\ RunOK(run[r])
  BY TypesByName DEF IInv, RunInv
<1>3. \A r \in Runs : run[r].pc \in {"idle", "dead", "admission", "door", "gate"}
  BY <1>2, NobodyLeaves, NobodyShares, NobodyQueues
     DEF RunRecords, Pcs, Admitted, Sharing, Holding, Tree
<1>4. \A s : GateReaders(op.m, s) = {} /\ (GateWritten(op.m, s) => s \in op.gates)
  BY <1>2, <1>3 DEF GateReaders, GateWritten, At, Admitted, RunOK
<1>5. CASE op.held # Schedules
  <2> DEFINE s == Min(Schedules \ op.held)
  <2>1. op.gates = {}
    BY <1>5 DEF GoInv, HeldInv
  <2>2. s \notin op.held
    <3>1. Schedules \ op.held # {} /\ Schedules \ op.held \subseteq Nat
      BY <1>1, <1>5, ScheduleAssumption
    <3>2. s \in Schedules \ op.held
      BY <3>1, MinIn
    <3> QED
      BY <3>2
  <2>3. \A r \in At(op.m, s) : run[r].pc \notin {"door", "inserted", "gate"}
    BY <1>3, <1>4, <2>1 DEF At, Stuck, RunGoesOn, MayAdmit, MayEnterGate, GateFree
  <2> QED
    BY <1>5, <2>2, <2>3 DEF AdmissionFree, Stuck, OpGoesOn, MayTakeAdmissions
<1>6. CASE op.held = Schedules
  <2>1. Min(Schedules \ op.gates) \notin op.gates
    <3>1. Schedules \ op.gates # {} /\ Schedules \ op.gates \subseteq Nat
      BY <1>1, ScheduleAssumption
    <3>2. Min(Schedules \ op.gates) \in Schedules \ op.gates
      BY <3>1, MinIn
    <3> QED
      BY <3>2
  <2> QED
    BY <1>4, <1>6, <2>1 DEF GateFree, Stuck, OpGoesOn, MayTakeGates
<1> QED
  BY <1>5, <1>6

\* Where nobody goes on, nobody is under way.
LEMMA StuckIsAtRest ==
    ASSUME IInv, GoInv
    PROVE  NoStandstill
<1> SUFFICES ASSUME Stuck, ~(op.pc = "produce" /\ OutOfRuns)
             PROVE  /\ \A r \in Runs : run[r].pc \in {"idle", "dead"}
                    /\ op = NoOp
                    /\ \A m \in Managers : phase[m] \in {"open", "standby", "down"}
  BY DEF NoStandstill, Stuck
<1>1. op = NoOp
  BY NobodyOperates
<1>2. \A r \in Runs : run[r].pc \in {"idle", "dead"}
  <2>1. ASSUME NEW r \in Runs, run[r].pc # "idle"
        PROVE  run[r].pc = "dead"
    <3>1. run[r].m \in Managers /\ op.m # run[r].m
      BY <1>1, <2>1, Nobody, ScheduleAssumption DEF IInv, RunInv, RunOK
    <3> QED
      BY <2>1, <3>1, NobodyQueues, NobodyEnters
  <2> QED
    BY <2>1
<1>3. ASSUME NEW m \in Managers
      PROVE  phase[m] \in {"open", "standby", "down"}
  <2>1. phase[m] \in Phases
    BY TypesByName DEF IInv
  <2>2. phase[m] \notin Fleet
    BY NobodyRecovers DEF FleetHeld
  <2>3. phase[m] # "acquired"
    BY <1>1, NobodyRecovers DEF Stuck, OwnerGoesOn, MayTakeFleet
  <2>4. phase[m] # "draining"
    BY <1>1, <1>2, NobodyRecovers DEF Stuck, OwnerGoesOn, MayFinishDrain
  <2> QED
    BY <2>1, <2>2, <2>3, <2>4 DEF Phases
<1> QED
  BY <1>1, <1>2, <1>3

\* Nothing waits for ever: while a run, an operation, a recovery or a drain is under way,
\* one of them can go on, for any number of control planes, schedules and runs, and
\* after any faults.
THEOREM SomebodyGoesOn == Spec => []NoStandstill
BY GoInvariance, StuckIsAtRest, PTL
=============================================================================
