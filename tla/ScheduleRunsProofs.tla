------------------------- MODULE ScheduleRunsProofs -------------------------
(***************************************************************************)
(* Why the locks of ScheduleRuns keep writers and readers of one app's     *)
(* data apart, for any number of control planes, schedules, bundles and    *)
(* runs, and however many faults.                                          *)
(*                                                                         *)
(* publication.lock goes with the process tree of a writer, so that at     *)
(* most one run stands between taking it and the end of what it started    *)
(* (FileInv); who boots holds its read side, and sees no writer before it  *)
(* has promoted (DataInv).  The rows of the database are always at least   *)
(* as bad as the data: a write that broke off leaves a row that only an    *)
(* uncertainty replaces (DataInv), and data of another bundle leaves the   *)
(* barrier of the deployment that ran its producers (PendInv).             *)
(***************************************************************************)
EXTENDS ScheduleRuns, FiniteSetTheorems, WellFoundedInduction, TLAPS

\* What an action waits for is a part of it.
USE DEF MayTakeAdmission, MayAdmit, GateFree, MayEnterGate, MayExecute,
        MayTakePublicationGate, MayTakePublicationFile, MayTakeConsumers, MayAbandon,
        MayTakeAdmissions, MayTakeGates, OutOfRuns, MayProduce, MayTakeBootGate,
        MayTakeBootFile, MayTakeFleet, MayTakeFences, MayFinishDrain

RunRecords ==
    [pc : Pcs, m : Managers \cup {None}, s : Schedules \cup {0},
     kind : {"cron", "required", "candidate"}, ver : Versions \cup {None},
     place : {"none", "slot", "queue"}, stop : BOOLEAN, row : BOOLEAN]
OpRecords ==
    [kind : {"none", "deploy", "wake"}, m : Managers \cup {None},
     pc : {"none", "admissions", "plan", "prepare", "produce", "producing",
           "converge", "boot", "promote", "fail"},
     ver : Versions \cup {None}, held : SUBSET Schedules,
     gates : SUBSET Schedules, todo : SUBSET Publishing, done : BOOLEAN,
     boot : {"none", "gate", "file"}]
Phases == {"down", "standby", "acquired", "open", "draining"} \cup Fleet

-----------------------------------------------------------------------------
(* The inductive invariant, in parts.                                      *)

\* Where a run holds publication.lock, where jobs.lock, where a write of its
\* data may have been, and where a required run holds its producer gate.
Holding == {"clients", "succeeded", "broken"} \cup Tree
Sharing == {"fence", "file"} \cup Holding
Lasting == Tree \cup {"succeeded", "broken", "dead"}
Past == Admitted \ {"gate"}

\* A run by itself: its row from the insert to the end, its place in the queue.
RunOK(a) ==
    /\ a.pc = "idle" => a.kind = "cron" /\ ~a.row
    /\ a.pc # "idle" => a.m \in Managers /\ a.s \in Schedules
    /\ a.kind # "cron" => a.s \in Publishing /\ a.place = "none"
    /\ a.pc \in Sharing \cup {"dead"} => a.row
    /\ a.pc \notin Admitted \cup {"inserted"} => a.place = "none"
    /\ a.pc = "queued" => a.place = "queue"
    /\ a.pc = "gate" => a.kind = "required"
    /\ a.pc = "clients" => a.kind = "candidate"
    /\ a.pc = "door" => a.kind = "cron"
    /\ a.kind = "cron" /\ a.s \notin Concurrent =>
         /\ a.pc \in Past \ {"queued"} => a.place = "slot"
         /\ a.pc = "inserted" => a.place # "none"
    /\ a.kind = "candidate" => a.pc \in {"inserted", "ready", "dead"} \cup Sharing
RunInv == \A r \in Runs : RunOK(run[r])

\* One execution slot and one place in the queue.
Together(q, r) == q # r /\ run[q].m = run[r].m /\ run[q].s = run[r].s
PlaceInv ==
    \A q, r \in Runs :
        Together(q, r) => run[q].place = "none" \/ run[q].place # run[r].place

\* jobs.lock, publication.lock, and the fleet fence.
JobsInv == JobsHeldEx => In(Sharing) = {}
FileInv ==
    /\ \A q, r \in Publisher(Holding) : q = r
    /\ op.boot = "file" => (Publisher(Holding) = {} /\ ~JobsHeldEx)
FleetInv == op # NoOp => ~FleetHeld

\* An operation by itself.
OpOK(o) ==
    /\ o.kind = "none" => o = NoOp
    /\ o.kind # "none" => o.m \in Managers /\ o.ver \in Versions /\ o.pc # "none"
    /\ o.kind = "wake" => o.pc \in {"converge", "boot"}
    /\ o.pc \in {"boot", "promote"} => o.boot = "file"
    /\ o.boot # "none" => o.pc \in {"converge", "boot", "promote", "fail"}
    /\ o.kind = "deploy" => (o.pc # "admissions" <=> o.gates = Schedules)

\* The pending row of a deployment, and the barrier it inherits or enters.
PendInv ==
    /\ op.kind = "deploy" =>
         /\ pend.ver = op.ver
         /\ repair => pend.barrier
         /\ op.pc \in {"produce", "producing"} => pend.barrier
         /\ op.pc \in {"admissions", "plan"} =>
              /\ pend.barrier => repair
              /\ repair /\ ~pend.older => consumer = None
    /\ op.kind = "wake" =>
         /\ op.ver = serving
         /\ op.pc = "boot" => ~repair /\ ~pend.barrier

\* The producer a deployment waits for, and the trees killed ones left.
Candidate(r) == run[r].kind = "candidate" /\ run[r].pc \notin {"dead", "orphan"}
CandInv ==
    /\ \A r \in Runs :
         Candidate(r) => /\ op.kind = "deploy" /\ op.pc = "producing"
                         /\ run[r].m = op.m /\ run[r].ver = op.ver
    /\ \A q, r \in Runs : Candidate(q) /\ Candidate(r) => q = r
    /\ \A r \in Runs :
         run[r].kind = "candidate" /\ run[r].pc \in Tree => consumer = None /\ ~stray

\* The producer gates.
Reads(r) == run[r].kind = "cron" /\ run[r].pc \in Admitted \cup {"inserted"}
Writes(r) == run[r].kind = "required" /\ run[r].pc \in Past
GateInv ==
    /\ \A q, r \in Runs : Together(q, r) /\ Writes(q) => ~Reads(r) /\ ~Writes(r)
    /\ \A r \in Runs :
         op.m = run[r].m /\ run[r].s \in op.gates => ~Reads(r) /\ ~Writes(r)

\* The data, and what the database holds against it.
Witness(s) == \E r \in Runs : run[r].row /\ run[r].s = s /\ run[r].pc \in Lasting
Recorded(s) == torn[s] \/ data[s] # prov[s] => unc[s] \/ Witness(s)
Dated(s) == prov[s] = None \/ prov[s] = serving \/ repair \/ pend.barrier
Whole(s) ==
    op.pc \in {"boot", "promote"} =>
        /\ ~torn[s] /\ data[s] = prov[s]
        /\ prov[s] = op.ver \/ (op.kind = "wake" /\ prov[s] = None)
Wrote(r) ==
    Publishes(r) =>
        /\ run[r].pc \in {"running", "succeeded"} /\ run[r].kind # "candidate"
             => run[r].ver = serving
        /\ run[r].pc = "succeeded" => data[run[r].s] = run[r].ver /\ ~torn[run[r].s]
DataInv ==
    /\ \A s \in Publishing : Recorded(s) /\ Dated(s) /\ Whole(s)
    /\ \A r \in Runs : Wrote(r)

IInv ==
    /\ TypeOK /\ RunInv /\ PlaceInv /\ JobsInv /\ FileInv /\ FleetInv /\ OpOK(op)
    /\ PendInv /\ CandInv /\ GateInv /\ DataInv /\ QuarantinedIsDown

-----------------------------------------------------------------------------
(* Operators on data.                                                      *)

\* A set of numbers that is not empty has a least one.
LEMMA MinIn ==
    ASSUME NEW S, S \subseteq Nat, S # {}
    PROVE  Min(S) \in S
<1> DEFINE R == {ss \in Nat \X Nat : ss[1] < ss[2]}
<1>1. IsWellFoundedOn(R, Nat)
  BY NatLessThanWellFounded DEF OpToRel
<1>2. PICK x \in S : \A y \in S : <<y, x>> \notin R
  <2> HIDE DEF R
  <2> QED
    BY <1>1, WFMin
<1>3. \A y \in S : ~(y < x)
  BY <1>2
<1>4. \A y \in S : x <= y
  BY <1>3
<1> QED
  BY <1>4 DEF Min

\* A set of more than one has a member.
LEMMA Member ==
    ASSUME NEW S, Cardinality(S) > 0
    PROVE  S # {}
BY FS_EmptySet

\* At most one is at most one.
LEMMA AtMostOne ==
    ASSUME NEW S, \A x, y \in S : x = y
    PROVE  Cardinality(S) <= 1
<1>1. CASE S = {}
  BY <1>1, FS_EmptySet
<1>2. CASE S # {}
  <2>1. PICK x : x \in S
    BY <1>2
  <2>2. S = {x}
    BY <2>1
  <2> QED
    BY <2>2, FS_Singleton
<1> QED
  BY <1>1, <1>2

\* What the two records of nobody are.
LEMMA Nobody ==
    /\ NoRun \in RunRecords /\ RunOK(NoRun) /\ NoRun.pc = "idle" /\ NoRun.row = FALSE
    /\ NoRun.place = "none" /\ NoRun.kind = "cron"
    /\ NoOp \in OpRecords /\ OpOK(NoOp) /\ NoOp.kind = "none" /\ NoOp.pc = "none"
    /\ NoOp.boot = "none" /\ NoOp.gates = {} /\ NoOp.m = None
BY DEF NoRun, NoOp, RunRecords, OpRecords, RunOK, OpOK, Pcs, Admitted, Sharing, Holding,
       Tree, Past

\* The records by name.
LEMMA TypesByName ==
    TypeOK <=>
      /\ lease \in Managers \cup {None} /\ phase \in [Managers -> Phases]
      /\ draining \in [Managers -> BOOLEAN]
      /\ run \in [Runs -> RunRecords] /\ op \in OpRecords
      /\ serving \in Versions /\ repair \in BOOLEAN /\ stray \in BOOLEAN
      /\ pend \in [ver : Versions \cup {None}, barrier : BOOLEAN, older : BOOLEAN]
      /\ consumer \in Versions \cup {None}
      /\ data \in [Publishing -> Versions \cup {None}]
      /\ prov \in [Publishing -> Versions \cup {None}]
      /\ torn \in [Publishing -> BOOLEAN] /\ unc \in [Publishing -> BOOLEAN]
      /\ left \in [{"calls", "deploys", "wakes", "requests", "faults"} -> Nat]
BY DEF TypeOK, RunRecords, OpRecords, Phases

-----------------------------------------------------------------------------
(* What an action does to the runs, field by field.                        *)

Keeps(a, b) == b.m = a.m /\ b.s = a.s /\ b.kind = a.kind /\ (a.stop => b.stop)
Same(a, b) == Keeps(a, b) /\ b.ver = a.ver /\ b.row = a.row /\ b.place = a.place
Others(r) == \A q \in Runs \ {r} : run'[q] = run[q]
Goes(r, pc) == Others(r) /\ Same(run[r], run'[r]) /\ run'[r].pc = pc

\* The run that waited in the queue gets the slot.
Succeeds(a, b) ==
    /\ a.pc = "queued" /\ b.pc = "ready" /\ b.place = "slot"
    /\ Keeps(a, b) /\ b.ver = a.ver /\ b.row = a.row
Left(r) ==
    /\ run'[r] = NoRun
    /\ \A q \in Runs \ {r} :
         \/ run'[q] = run[q]
         \/ run[r].place = "slot" /\ Together(q, r) /\ Succeeds(run[q], run'[q])

\* The fields of a run, and the type of the result.
LEMMA Steps ==
    ASSUME NEW a \in RunRecords, NEW pc \in Pcs
    PROVE  /\ [a EXCEPT !.pc = pc] \in RunRecords
           /\ Same(a, [a EXCEPT !.pc = pc]) /\ [a EXCEPT !.pc = pc].pc = pc
BY DEF RunRecords, Same, Keeps

\* A run moves on and takes or gives up its place.
LEMMA Places ==
    ASSUME NEW a \in RunRecords, NEW pc \in Pcs, NEW place \in {"none", "slot", "queue"},
           NEW b, b = [a EXCEPT !.pc = pc, !.place = place]
    PROVE  /\ b \in RunRecords /\ Keeps(a, b) /\ b.pc = pc /\ b.place = place
           /\ b.ver = a.ver /\ b.row = a.row
BY DEF RunRecords, Keeps

\* One run changes.
LEMMA Change ==
    ASSUME run \in [Runs -> RunRecords], NEW r \in Runs, NEW b \in RunRecords,
           run' = [run EXCEPT ![r] = b]
    PROVE  run' \in [Runs -> RunRecords] /\ Others(r) /\ run'[r] = b
BY DEF Others

\* A run ends: jobs.Manager.unregisterActive and the hand-over of its slot.
LEMMA GoneEffect ==
    ASSUME run \in [Runs -> RunRecords], NEW r \in Runs, run' = Gone(r)
    PROVE  run' \in [Runs -> RunRecords] /\ Left(r)
<1> DEFINE b(q) == [run[q] EXCEPT !.pc = "ready", !.place = "slot"]
           heirs == IF run[r].place = "slot"
                    THEN {q \in At(run[r].m, run[r].s) : run[q].pc = "queued"} ELSE {}
           F(q) == IF q = r THEN NoRun ELSE IF q \in heirs THEN b(q) ELSE run[q]
<1>1. run' = [q \in Runs |-> F(q)]
  BY DEF Gone
<1>2. \A q \in Runs : /\ b(q) \in RunRecords /\ b(q).pc = "ready" /\ b(q).place = "slot"
                      /\ Keeps(run[q], b(q)) /\ b(q).ver = run[q].ver /\ b(q).row = run[q].row
  <2> SUFFICES ASSUME NEW q \in Runs
               PROVE  /\ b(q) \in RunRecords /\ b(q).pc = "ready" /\ b(q).place = "slot"
                      /\ Keeps(run[q], b(q)) /\ b(q).ver = run[q].ver
                      /\ b(q).row = run[q].row
    OBVIOUS
  <2>1. run[q] \in RunRecords /\ "ready" \in Pcs
    BY DEF Pcs, Admitted
  <2> DEFINE c == b(q)
  <2>2. c = [run[q] EXCEPT !.pc = "ready", !.place = "slot"]
    OBVIOUS
  <2> HIDE DEF b
  <2>3. /\ c \in RunRecords /\ Keeps(run[q], c) /\ c.pc = "ready" /\ c.place = "slot"
        /\ c.ver = run[q].ver /\ c.row = run[q].row
    BY <2>1, <2>2 DEF RunRecords, Keeps
  <2> QED
    BY <2>3 DEF c
<1>3. \A q \in Runs : q \in heirs => /\ run[r].place = "slot" /\ run[q].pc = "queued"
                                     /\ run[q].m = run[r].m /\ run[q].s = run[r].s
  BY DEF At
<1> HIDE DEF b, heirs
<1>4. \A q \in Runs : F(q) \in RunRecords
  BY <1>2, Nobody
<1>5. \A q \in Runs : run'[q] = F(q)
  BY <1>1
<1>6. run' \in [Runs -> RunRecords]
  BY <1>1, <1>4
<1>7. run'[r] = NoRun
  BY <1>5
<1>8. ASSUME NEW q \in Runs \ {r}
      PROVE  \/ run'[q] = run[q]
             \/ run[r].place = "slot" /\ Together(q, r) /\ Succeeds(run[q], run'[q])
  <2>1. CASE q \in heirs
    <3>1. run'[q] = b(q)
      BY <1>5, <2>1
    <3> QED
      BY <1>2, <1>3, <2>1, <3>1 DEF Together, Succeeds
  <2> QED
    BY <1>5, <2>1
<1> QED
  BY <1>6, <1>7, <1>8 DEF Left

\* A run that has no place ends.
LEMMA NoneEffect ==
    ASSUME run \in [Runs -> RunRecords], NEW r \in Runs, run' = [run EXCEPT ![r] = NoRun]
    PROVE  run' \in [Runs -> RunRecords] /\ Left(r)
BY Nobody DEF Left

\* Admission: Manager.Run and Manager.runRequired.
LEMMA AdmissionEffects ==
    ASSUME TypeOK, NEW r \in Runs
    PROVE  /\ Begin(r) => Left(r) \/ Goes(r, "admission")
           /\ TakeAdmission(r) => Goes(r, "door")
           /\ Admit(r) =>
                \/ Left(r)
                \/ /\ Others(r) /\ Keeps(run[r], run'[r]) /\ run'[r].pc = "inserted"
                   /\ run'[r].row /\ run'[r].ver = serving
                   /\ run'[r].place = Place(run[r].m, run[r].s)
                   /\ run'[r].place # "refused"
           /\ AdmitRequired(r) =>
                \/ Left(r)
                \/ /\ Others(r) /\ Keeps(run[r], run'[r]) /\ run'[r].pc = "inserted"
                   /\ run'[r].row /\ run'[r].ver = run[r].ver
                   /\ run'[r].place = run[r].place
           /\ EnterGate(r) => Left(r) \/ Goes(r, "ready")
           /\ TakePublicationGate(r) => Goes(r, "file")
           /\ Cancel(r) => Goes(r, run[r].pc)
           /\ (\/ Begin(r) \/ TakeAdmission(r) \/ Admit(r) \/ AdmitRequired(r)
               \/ EnterGate(r) \/ TakePublicationGate(r) \/ Cancel(r))
                => run' \in [Runs -> RunRecords]
<1>1. run \in [Runs -> RunRecords] /\ run[r] \in RunRecords /\ serving \in Versions
  BY TypesByName
<1>2. {"admission", "door", "inserted", "ready", "file"} \subseteq Pcs
  BY DEF Pcs, Admitted
<1>3. ASSUME NEW pc \in {"admission", "door", "ready", "file"},
             run' = [run EXCEPT ![r].pc = pc]
      PROVE  run' \in [Runs -> RunRecords] /\ Goes(r, pc)
  <2>1. run' = [run EXCEPT ![r] = [run[r] EXCEPT !.pc = pc]]
    BY <1>1, <1>3
  <2>2. pc \in Pcs
    BY <1>2
  <2> QED
    BY <1>1, <2>1, <2>2, Steps, Change DEF Goes
<1>4. ASSUME Begin(r)
      PROVE  run' \in [Runs -> RunRecords] /\ (Left(r) \/ Goes(r, "admission"))
  <2>1. CASE draining[run[r].m]
    BY <1>1, <1>4, <2>1, NoneEffect DEF Begin
  <2>2. CASE ~draining[run[r].m]
    <3>1. run' = [run EXCEPT ![r].pc = "admission"]
      BY <1>4, <2>2 DEF Begin
    <3> QED
      BY <1>3, <3>1
  <2> QED
    BY <2>1, <2>2
<1>5. ASSUME TakeAdmission(r)
      PROVE  run' \in [Runs -> RunRecords] /\ Goes(r, "door")
  BY <1>3, <1>5 DEF TakeAdmission
<1>6. ASSUME Admit(r)
      PROVE  /\ run' \in [Runs -> RunRecords]
             /\ \/ Left(r)
                \/ /\ Others(r) /\ Keeps(run[r], run'[r]) /\ run'[r].pc = "inserted"
                   /\ run'[r].row /\ run'[r].ver = serving
                   /\ run'[r].place = Place(run[r].m, run[r].s)
                   /\ run'[r].place # "refused"
  <2> DEFINE place == Place(run[r].m, run[r].s)
  <2>1. place \in {"none", "slot", "queue", "refused"}
    BY DEF Place
  <2>2. \/ run' = [run EXCEPT ![r] = NoRun]
        \/ /\ place # "refused"
           /\ run' = [run EXCEPT ![r] = [run[r] EXCEPT !.pc = "inserted", !.ver = serving,
                                                       !.place = place, !.row = TRUE]]
    BY <1>1, <1>6 DEF Admit
  <2>3. CASE run' = [run EXCEPT ![r] = NoRun]
    BY <1>1, <2>3, NoneEffect
  <2> HIDE DEF place
  <2>4. CASE /\ place # "refused"
             /\ run' = [run EXCEPT ![r] = [run[r] EXCEPT !.pc = "inserted", !.ver = serving,
                                                         !.place = place, !.row = TRUE]]
    <3>1. place \in {"none", "slot", "queue"} /\ "inserted" \in Pcs
      BY <1>2, <2>1, <2>4
    <3> DEFINE b == [run[r] EXCEPT !.pc = "inserted", !.ver = serving,
                                   !.place = place, !.row = TRUE]
    <3>2. /\ b \in RunRecords /\ Keeps(run[r], b) /\ b.pc = "inserted" /\ b.row
          /\ b.ver = serving /\ b.place = place
      BY <1>1, <3>1 DEF RunRecords, Keeps
    <3> HIDE DEF b
    <3>3. run' = [run EXCEPT ![r] = b]
      BY <2>4 DEF b
    <3> QED
      BY <1>1, <2>4, <3>2, <3>3, Change DEF place
  <2> QED
    BY <2>2, <2>3, <2>4
<1>7. ASSUME AdmitRequired(r)
      PROVE  /\ run' \in [Runs -> RunRecords]
             /\ \/ Left(r)
                \/ /\ Others(r) /\ Keeps(run[r], run'[r]) /\ run'[r].pc = "inserted"
                   /\ run'[r].row /\ run'[r].ver = run[r].ver
                   /\ run'[r].place = run[r].place
  <2>1. \/ run' = [run EXCEPT ![r] = NoRun]
        \/ run' = [run EXCEPT ![r] = [run[r] EXCEPT !.pc = "inserted", !.row = TRUE]]
    BY <1>1, <1>7 DEF AdmitRequired
  <2>2. CASE run' = [run EXCEPT ![r] = NoRun]
    BY <1>1, <2>2, NoneEffect
  <2>3. CASE run' = [run EXCEPT ![r] = [run[r] EXCEPT !.pc = "inserted", !.row = TRUE]]
    <3> DEFINE b == [run[r] EXCEPT !.pc = "inserted", !.row = TRUE]
    <3>1. /\ b \in RunRecords /\ Keeps(run[r], b) /\ b.pc = "inserted" /\ b.row
          /\ b.ver = run[r].ver /\ b.place = run[r].place
      BY <1>1, <1>2 DEF RunRecords, Keeps
    <3> HIDE DEF b
    <3>2. run' = [run EXCEPT ![r] = b]
      BY <2>3 DEF b
    <3> QED
      BY <1>1, <3>1, <3>2, Change
  <2> QED
    BY <2>1, <2>2, <2>3
<1>8. ASSUME EnterGate(r)
      PROVE  run' \in [Runs -> RunRecords] /\ (Left(r) \/ Goes(r, "ready"))
  <2>1. run' = Gone(r) \/ run' = [run EXCEPT ![r].pc = "ready"]
    BY <1>8 DEF EnterGate
  <2> QED
    BY <1>1, <1>3, <2>1, GoneEffect
<1>9. ASSUME TakePublicationGate(r)
      PROVE  run' \in [Runs -> RunRecords] /\ Goes(r, "file")
  BY <1>3, <1>9 DEF TakePublicationGate
<1>10. ASSUME Cancel(r)
       PROVE  run' \in [Runs -> RunRecords] /\ Goes(r, run[r].pc)
  <2>1. run' = [run EXCEPT ![r] = [run[r] EXCEPT !.stop = TRUE]]
    BY <1>1, <1>10 DEF Cancel
  <2>2. LET b == [run[r] EXCEPT !.stop = TRUE]
        IN  b \in RunRecords /\ Same(run[r], b) /\ b.pc = run[r].pc
    BY <1>1 DEF RunRecords, Same, Keeps
  <2> QED
    BY <1>1, <2>1, <2>2, Change DEF Goes
<1> QED
  BY <1>4, <1>5, <1>6, <1>7, <1>8, <1>9, <1>10

\* Where a run that is no longer admitted, or was cancelled, gives up, and what
\* that means for the deployment that waits for it.
OpFails(r) == op' = IF run[r].kind = "candidate" THEN [op EXCEPT !.pc = "fail"] ELSE op
Passes(r, pc) ==
    \/ Left(r) /\ OpFails(r)
    \/ Goes(r, pc) /\ op' = op /\ ~run[r].stop /\ StillCurrent(r)

\* Pass: the run fails and leaves, or goes on for the version that still serves.
LEMMA PassEffect ==
    ASSUME TypeOK, NEW r \in Runs, NEW pc \in Pcs, Pass(r, pc)
    PROVE  run' \in [Runs -> RunRecords] /\ Passes(r, pc)
<1>1. run \in [Runs -> RunRecords] /\ run[r] \in RunRecords
  BY TypesByName
<1>2. CASE run[r].stop \/ ~StillCurrent(r)
  BY <1>1, <1>2, GoneEffect DEF Pass, Passes, OpFails
<1>3. CASE ~(run[r].stop \/ ~StillCurrent(r))
  <2>1. run' = [run EXCEPT ![r] = [run[r] EXCEPT !.pc = pc]] /\ op' = op
    BY <1>1, <1>3 DEF Pass
  <2> QED
    BY <1>1, <1>3, <2>1, Steps, Change DEF Passes, Goes
<1> QED
  BY <1>2, <1>3

\* Commit: Manager.commitAdmission.
Commits(r) ==
    \/ Left(r) /\ OpFails(r)
    \/ /\ op' = op /\ Others(r) /\ Keeps(run[r], run'[r])
       /\ run'[r].ver = run[r].ver /\ run'[r].row = run[r].row
       /\ \/ run'[r].place = run[r].place
          \/ /\ run[r].place = "queue" /\ SlotFree(run[r].m, run[r].s)
             /\ run'[r].place = "slot"
       /\ \/ run[r].kind = "required" /\ run'[r].pc = "gate"
          \/ run'[r].pc = "queued" /\ run'[r].place = "queue"
          \/ /\ run[r].kind # "required" /\ run'[r].pc = "ready"
             /\ run'[r].place # "queue"

\* commitAdmission: a drain turns the run away, or it waits at its gate, waits in the
\* queue, or is ready to execute.
LEMMA CommitEffect ==
    ASSUME TypeOK, NEW r \in Runs, Commit(r)
    PROVE  run' \in [Runs -> RunRecords] /\ Commits(r)
<1>1. run \in [Runs -> RunRecords] /\ run[r] \in RunRecords
  BY TypesByName
<1>2. CASE draining[run[r].m]
  BY <1>1, <1>2, GoneEffect DEF Commit, Commits, OpFails
<1>3. CASE ~draining[run[r].m]
  <2> DEFINE slotNow == run[r].place = "queue" /\ SlotFree(run[r].m, run[r].s)
             pc == CASE run[r].kind = "required" -> "gate"
                     [] run[r].place = "queue" /\ ~slotNow -> "queued"
                     [] OTHER -> "ready"
             place == IF slotNow THEN "slot" ELSE run[r].place
             b == [run[r] EXCEPT !.pc = pc, !.place = place]
  <2>1. run' = [run EXCEPT ![r] = b] /\ op' = op
    BY <1>1, <1>3 DEF Commit
  <2>2. /\ \/ run[r].kind = "required" /\ pc = "gate"
           \/ pc = "queued" /\ place = "queue"
           \/ run[r].kind # "required" /\ pc = "ready" /\ place # "queue"
        /\ \/ place = run[r].place
           \/ /\ run[r].place = "queue" /\ SlotFree(run[r].m, run[r].s)
              /\ place = "slot"
    <3> HIDE DEF b
    <3>1. CASE run[r].kind = "required"
      BY <3>1
    <3>2. CASE run[r].kind # "required" /\ slotNow
      BY <3>2
    <3>3. CASE run[r].kind # "required" /\ ~slotNow
      BY <3>3
    <3> QED
      BY <3>1, <3>2, <3>3
  <2>3. pc \in {"gate", "queued", "ready"} /\ place \in {"none", "slot", "queue"}
    BY <1>1, <2>2 DEF RunRecords
  <2> HIDE DEF pc, place
  <2>4. /\ b \in RunRecords /\ Keeps(run[r], b) /\ b.pc = pc /\ b.place = place
        /\ b.ver = run[r].ver /\ b.row = run[r].row
    <3>1. pc \in Pcs
      BY <2>3 DEF Pcs, Admitted
    <3> QED
      BY <1>1, <2>3, <3>1 DEF RunRecords, Keeps
  <2> HIDE DEF b
  <2>5. run' \in [Runs -> RunRecords] /\ Others(r) /\ run'[r] = b
    BY <1>1, <2>1, <2>4, Change
  <2> QED
    BY <2>1, <2>2, <2>4, <2>5 DEF Commits
<1> QED
  BY <1>2, <1>3

\* The way from the wait for jobs.lock to the end of a process tree.
LEMMA ExecutionEffects ==
    ASSUME TypeOK, NEW r \in Runs
    PROVE  /\ Execute(r) => Passes(r, IF Publishes(r) THEN "fence" ELSE "running")
           /\ TakePublicationFile(r) =>
                IF run[r].kind = "candidate" THEN Goes(r, "clients") /\ op' = op
                ELSE Passes(r, "running")
           /\ TakeConsumers(r) => Passes(r, "running")
           /\ Abandon(r) => Left(r) /\ OpFails(r)
           /\ Complete(r) => Left(r)
           /\ \A ok \in BOOLEAN :
                /\ TreeEnds(r, ok) => Goes(r, IF ok THEN "succeeded" ELSE "broken")
                /\ OrphanEnds(r, ok) => Left(r) \/ (run[r].row /\ Goes(r, "dead"))
           /\ (\/ Execute(r) \/ TakePublicationFile(r) \/ TakeConsumers(r) \/ Abandon(r)
               \/ Complete(r)
               \/ (\E ok \in BOOLEAN : TreeEnds(r, ok) \/ OrphanEnds(r, ok)))
                => run' \in [Runs -> RunRecords]
<1>1. run \in [Runs -> RunRecords] /\ run[r] \in RunRecords
  BY TypesByName
<1>2. {"fence", "running", "clients", "succeeded", "broken", "dead"} \subseteq Pcs
  BY DEF Pcs, Admitted
<1>3. ASSUME NEW pc \in {"clients", "succeeded", "broken", "dead"},
             run' = [run EXCEPT ![r].pc = pc]
      PROVE  run' \in [Runs -> RunRecords] /\ Goes(r, pc)
  <2>1. run' = [run EXCEPT ![r] = [run[r] EXCEPT !.pc = pc]]
    BY <1>1, <1>3
  <2>2. pc \in Pcs
    BY <1>2
  <2> QED
    BY <1>1, <2>1, <2>2, Steps, Change DEF Goes
<1>4. ASSUME Execute(r)
      PROVE  /\ run' \in [Runs -> RunRecords]
             /\ Passes(r, IF Publishes(r) THEN "fence" ELSE "running")
  BY <1>2, <1>4, PassEffect DEF Execute
<1>5. ASSUME TakePublicationFile(r)
      PROVE  /\ run' \in [Runs -> RunRecords]
             /\ IF run[r].kind = "candidate" THEN Goes(r, "clients") /\ op' = op
                ELSE Passes(r, "running")
  BY <1>2, <1>3, <1>5, PassEffect DEF TakePublicationFile
<1>6. ASSUME TakeConsumers(r)
      PROVE  run' \in [Runs -> RunRecords] /\ Passes(r, "running")
  BY <1>2, <1>6, PassEffect DEF TakeConsumers
<1>7. ASSUME Abandon(r)
      PROVE  run' \in [Runs -> RunRecords] /\ Left(r) /\ OpFails(r)
  BY <1>1, <1>7, GoneEffect DEF Abandon, OpFails
<1>8. ASSUME Complete(r)
      PROVE  run' \in [Runs -> RunRecords] /\ Left(r)
  BY <1>1, <1>8, GoneEffect DEF Complete
<1>9. ASSUME NEW ok \in BOOLEAN, TreeEnds(r, ok)
      PROVE  /\ run' \in [Runs -> RunRecords]
             /\ Goes(r, IF ok THEN "succeeded" ELSE "broken")
  BY <1>3, <1>9 DEF TreeEnds
<1>10. ASSUME NEW ok \in BOOLEAN, OrphanEnds(r, ok)
       PROVE  /\ run' \in [Runs -> RunRecords]
              /\ Left(r) \/ (run[r].row /\ Goes(r, "dead"))
  BY <1>1, <1>3, <1>10, NoneEffect DEF OrphanEnds
<1> QED
  BY <1>4, <1>5, <1>6, <1>7, <1>8, <1>9, <1>10

\* A run begins: a call, or a producer of the deployment.
Arrives(r) == run[r].pc = "idle" /\ Others(r)

\* A call begins one run, and a required one of a publishing schedule only.
LEMMA CallEffect ==
    ASSUME TypeOK, NEW m \in Managers, NEW s \in Schedules,
           NEW kind \in {"cron", "required"}, Call(m, s, kind)
    PROVE  /\ run' \in [Runs -> RunRecords]
           /\ \E r \in Runs :
                /\ Arrives(r) /\ run'[r].pc = "called" /\ run'[r].m = m /\ run'[r].s = s
                /\ run'[r].kind = kind /\ (kind = "required" => s \in Publishing)
                /\ run'[r].place = "none"
<1> DEFINE r == CHOOSE i \in Runs : run[i].pc = "idle"
           b == [NoRun EXCEPT !.pc = "called", !.m = m, !.s = s, !.kind = kind,
                              !.ver = IF kind = "required" THEN serving ELSE None]
<1>1. run \in [Runs -> RunRecords] /\ serving \in Versions
  BY TypesByName
<1>2. Cardinality(In({"idle"})) > 1 /\ Cardinality(In({"idle"})) # 0
  BY DEF Call
<1>3. In({"idle"}) # {}
  BY <1>2, FS_EmptySet
<1>4. r \in Runs /\ run[r].pc = "idle"
  BY <1>3 DEF In
<1>5. run' = [run EXCEPT ![r] = b] /\ (kind = "required" => s \in Publishing)
  BY DEF Call
<1> HIDE DEF r
<1>6. /\ b \in RunRecords /\ b.pc = "called" /\ b.m = m /\ b.s = s /\ b.kind = kind
      /\ b.place = "none"
  BY <1>1 DEF NoRun, RunRecords, Pcs
<1> HIDE DEF b
<1>7. run' \in [Runs -> RunRecords] /\ Others(r) /\ run'[r] = b
  BY <1>1, <1>4, <1>5, <1>6, Change
<1> QED
  BY <1>4, <1>5, <1>6, <1>7 DEF Arrives

\* The deployment fails, or inserts the run of the next producer it owes.
LEMMA ProduceEffect ==
    ASSUME TypeOK, OpOK(op), Produce
    PROVE  /\ run' \in [Runs -> RunRecords]
           /\ \/ run' = run /\ op' = [op EXCEPT !.pc = "fail"]
              \/ /\ op' = [op EXCEPT !.pc = "producing"]
                 /\ \E r \in Runs :
                      /\ Arrives(r) /\ run'[r].pc = "inserted" /\ run'[r].kind = "candidate"
                      /\ run'[r].m = op.m /\ run'[r].s \in Publishing
                      /\ run'[r].ver = op.ver /\ run'[r].place = "none" /\ run'[r].row
<1> DEFINE s == Min(op.todo)
           r == CHOOSE i \in Runs : run[i].pc = "idle"
           b == [NoRun EXCEPT !.pc = "inserted", !.m = op.m, !.s = s,
                              !.kind = "candidate", !.ver = op.ver, !.row = TRUE]
<1>1. run \in [Runs -> RunRecords] /\ op \in OpRecords
  BY TypesByName
<1>2. CASE draining[op.m]
  BY <1>1, <1>2 DEF Produce
<1>3. CASE ~draining[op.m]
  <2>1. /\ In({"idle"}) # {} /\ op.todo # {} /\ run' = [run EXCEPT ![r] = b]
        /\ op' = [op EXCEPT !.pc = "producing"]
    BY <1>3 DEF Produce
  <2>2. op.todo \subseteq Publishing /\ Publishing \subseteq Schedules /\ Schedules \subseteq Nat
    BY <1>1, ScheduleAssumption DEF OpRecords
  <2>3. s \in op.todo
    BY <2>1, <2>2, MinIn
  <2>4. r \in Runs /\ run[r].pc = "idle"
    BY <2>1 DEF In
  <2>5. s \in Publishing /\ s \in Schedules
    BY <2>2, <2>3
  <2>6. op.m \in Managers \cup {None} /\ op.ver \in Versions \cup {None}
    BY <1>1 DEF OpRecords
  <2> HIDE DEF s, r
  <2>7. /\ b \in RunRecords /\ b.pc = "inserted" /\ b.m = op.m /\ b.s = s
        /\ b.kind = "candidate" /\ b.ver = op.ver /\ b.place = "none" /\ b.row
    BY <2>5, <2>6 DEF NoRun, RunRecords, Pcs
  <2> HIDE DEF b
  <2>8. run' \in [Runs -> RunRecords] /\ Others(r) /\ run'[r] = b
    BY <1>1, <2>1, <2>4, <2>7, Change
  <2> QED
    BY <2>1, <2>4, <2>5, <2>7, <2>8 DEF Arrives
<1> QED
  BY <1>2, <1>3

\* All runs of a manager are told to stop.
LEMMA DrainedEffect ==
    ASSUME TypeOK, NEW m \in Managers, Retire(m)
    PROVE  /\ run' \in [Runs -> RunRecords]
           /\ \A q \in Runs :
                \/ run'[q] = run[q]
                \/ /\ run[q].pc \in Admitted
                   /\ Same(run[q], run'[q]) /\ run'[q].pc = run[q].pc
<1>1. run \in [Runs -> RunRecords]
  BY TypesByName
<1>2. CASE phase[m] \in {"open", "starting"}
  <2> DEFINE b(q) == [run[q] EXCEPT !.stop = TRUE]
             F(q) == IF run[q].m = m /\ run[q].pc \in Admitted THEN b(q) ELSE run[q]
  <2>1. run' = [q \in Runs |-> F(q)]
    BY <1>2 DEF Retire, Drained
  <2>2. ASSUME NEW q \in Runs
        PROVE  b(q) \in RunRecords /\ Same(run[q], b(q)) /\ b(q).pc = run[q].pc
    <3>1. run[q] \in RunRecords
      BY <1>1
    <3> QED
      BY <3>1 DEF RunRecords, Same, Keeps
  <2> HIDE DEF b
  <2>3. \A q \in Runs : F(q) \in RunRecords
    BY <1>1, <2>2
  <2>4. run' \in [Runs -> RunRecords]
    BY <2>1, <2>3
  <2>5. \A q \in Runs : run'[q] = F(q)
    BY <2>1
  <2> QED
    BY <2>2, <2>4, <2>5
<1>3. CASE phase[m] \notin {"open", "starting"}
  BY <1>1, <1>3 DEF Retire
<1> QED
  BY <1>2, <1>3

\* MarkRunningSchedulesInterrupted closes every row.
LEMMA MarkEffect ==
    ASSUME TypeOK, NEW m \in Managers, Mark(m)
    PROVE  /\ run' \in [Runs -> RunRecords]
           /\ \A q \in Runs :
                \/ run[q].pc = "dead" /\ run'[q] = NoRun
                \/ /\ run[q].pc # "dead" /\ Keeps(run[q], run'[q])
                   /\ run'[q].pc = run[q].pc /\ run'[q].ver = run[q].ver
                   /\ run'[q].place = run[q].place /\ ~run'[q].row
<1>1. run \in [Runs -> RunRecords]
  BY TypesByName
<1> DEFINE b(q) == [run[q] EXCEPT !.row = FALSE]
           F(q) == IF run[q].pc = "dead" THEN NoRun ELSE b(q)
<1>2. run' = [q \in Runs |-> F(q)]
  BY DEF Mark
<1>3. ASSUME NEW q \in Runs
      PROVE  /\ b(q) \in RunRecords /\ Keeps(run[q], b(q)) /\ b(q).pc = run[q].pc
             /\ b(q).ver = run[q].ver /\ b(q).place = run[q].place /\ ~b(q).row
  <2>1. run[q] \in RunRecords
    BY <1>1
  <2> QED
    BY <2>1 DEF RunRecords, Keeps
<1> HIDE DEF b
<1>4. \A q \in Runs : F(q) \in RunRecords
  BY <1>1, <1>3, Nobody
<1>5. run' \in [Runs -> RunRecords]
  BY <1>2, <1>4
<1>6. \A q \in Runs : run'[q] = F(q)
  BY <1>2
<1> QED
  BY <1>3, <1>5, <1>6

\* A killed control plane: its trees are orphans, its rows are nobody's.
LEMMA CrashEffect ==
    ASSUME TypeOK, NEW m \in Managers, Crash(m)
    PROVE  /\ run' \in [Runs -> RunRecords]
           /\ \A q \in Runs :
                \/ (run[q].m # m \/ run[q].pc \in {"dead", "orphan"}) /\ run'[q] = run[q]
                \/ run[q].m = m /\ run'[q] = NoRun /\ ~run[q].row /\ run[q].pc # "running"
                \/ /\ run[q].m = m
                   /\ Keeps(run[q], run'[q]) /\ run'[q].ver = run[q].ver
                   /\ run'[q].row = run[q].row /\ run'[q].place = "none"
                   /\ \/ run[q].pc = "running" /\ run'[q].pc = "orphan"
                      \/ /\ run[q].pc \notin Tree /\ run[q].row
                         /\ run'[q].pc = "dead"
<1>1. run \in [Runs -> RunRecords]
  BY TypesByName
<1> DEFINE b(q) == [run[q] EXCEPT !.pc = "orphan", !.place = "none"]
           c(q) == [run[q] EXCEPT !.pc = "dead", !.place = "none"]
           F(q) == IF run[q].m # m \/ run[q].pc \in {"dead", "orphan"} THEN run[q]
                   ELSE IF run[q].pc = "running" THEN b(q)
                   ELSE IF run[q].row THEN c(q) ELSE NoRun
<1>2. run' = [q \in Runs |-> F(q)]
  BY DEF Crash
<1>3. ASSUME NEW q \in Runs
      PROVE  /\ b(q) \in RunRecords /\ Keeps(run[q], b(q)) /\ b(q).pc = "orphan"
             /\ b(q).ver = run[q].ver /\ b(q).place = "none" /\ b(q).row = run[q].row
  <2>1. run[q] \in RunRecords /\ "orphan" \in Pcs
    BY <1>1 DEF Pcs
  <2> QED
    BY <2>1 DEF RunRecords, Keeps
<1>4. ASSUME NEW q \in Runs
      PROVE  /\ c(q) \in RunRecords /\ Keeps(run[q], c(q)) /\ c(q).pc = "dead"
             /\ c(q).ver = run[q].ver /\ c(q).place = "none" /\ c(q).row = run[q].row
  <2>1. run[q] \in RunRecords /\ "dead" \in Pcs
    BY <1>1 DEF Pcs
  <2> QED
    BY <2>1 DEF RunRecords, Keeps
<1> HIDE DEF b, c
<1>5. \A q \in Runs : F(q) \in RunRecords
  BY <1>1, <1>3, <1>4, Nobody
<1>6. run' \in [Runs -> RunRecords]
  BY <1>2, <1>5
<1>7. ASSUME NEW q \in Runs
      PROVE  \/ (run[q].m # m \/ run[q].pc \in {"dead", "orphan"}) /\ run'[q] = run[q]
             \/ run[q].m = m /\ run'[q] = NoRun /\ ~run[q].row /\ run[q].pc # "running"
             \/ /\ run[q].m = m
                /\ Keeps(run[q], run'[q]) /\ run'[q].ver = run[q].ver
                /\ run'[q].row = run[q].row /\ run'[q].place = "none"
                /\ \/ run[q].pc = "running" /\ run'[q].pc = "orphan"
                   \/ /\ run[q].pc \notin Tree /\ run[q].row
                      /\ run'[q].pc = "dead"
  <2>1. run'[q] = F(q)
    BY <1>2
  <2>2. CASE run[q].m # m \/ run[q].pc \in {"dead", "orphan"}
    BY <2>1, <2>2
  <2>3. CASE run[q].m = m /\ run[q].pc = "running"
    BY <1>3, <2>1, <2>3
  <2>4. CASE run[q].m = m /\ run[q].pc \notin {"dead", "orphan", "running"} /\ run[q].row
    BY <1>4, <2>1, <2>4 DEF Tree
  <2>5. CASE run[q].m = m /\ run[q].pc \notin {"dead", "orphan", "running"} /\ ~run[q].row
    BY <2>1, <2>5
  <2> QED
    BY <2>2, <2>3, <2>4, <2>5
<1> QED
  BY <1>6, <1>7, SMTT(30)

-----------------------------------------------------------------------------
(* What an action does to the operation.                                   *)

Alike(a, b) == b.kind = a.kind /\ b.m = a.m /\ b.ver = a.ver /\ b.gates = a.gates
OpGoes(pc) == Alike(op, op') /\ op'.pc = pc /\ op'.boot = op.boot

\* Only the stage of the operation changes.
LEMMA OpPc ==
    ASSUME op \in OpRecords,
           NEW pc \in {"plan", "prepare", "produce", "producing", "converge", "boot",
                       "promote", "fail"},
           op' = [op EXCEPT !.pc = pc]
    PROVE  op' \in OpRecords /\ OpGoes(pc)
BY DEF OpRecords, OpGoes, Alike

\* A deployment up to its plan.
LEMMA GatesEffects ==
    ASSUME TypeOK, OpOK(op)
    PROVE  /\ \A m \in Managers, v \in Versions :
                StartDeploy(m, v) =>
                  /\ op' \in OpRecords /\ OpOK(op') /\ op'.kind = "deploy" /\ op'.m = m
                  /\ op'.pc = "admissions" /\ op'.ver = v /\ op'.boot = "none"
                  /\ op'.gates = {}
           /\ TakeAdmissions => op' \in OpRecords /\ OpOK(op') /\ OpGoes(op.pc)
           /\ TakeGates =>
                /\ op' \in OpRecords /\ OpOK(op') /\ op.kind = "deploy"
                /\ op'.kind = op.kind /\ op'.m = op.m /\ op'.ver = op.ver
                /\ op'.boot = op.boot /\ op'.pc \in {"admissions", "plan"}
                /\ LET s == Min(Schedules \ op.gates)
                   IN  s \in Schedules /\ op'.gates = op.gates \cup {s}
<1>1. op \in OpRecords /\ Schedules # {} /\ Schedules \subseteq Nat
  BY TypesByName, ScheduleAssumption
<1>2. op.pc = "admissions" => op.kind = "deploy"
  BY <1>1 DEF OpOK, OpRecords, NoOp
<1>3. ASSUME NEW m \in Managers, NEW v \in Versions, StartDeploy(m, v)
      PROVE  /\ op' \in OpRecords /\ OpOK(op') /\ op'.kind = "deploy" /\ op'.m = m
             /\ op'.pc = "admissions" /\ op'.ver = v /\ op'.boot = "none"
             /\ op'.gates = {}
  <2>1. op' = [NoOp EXCEPT !.kind = "deploy", !.m = m, !.pc = "admissions", !.ver = v]
    BY <1>3 DEF StartDeploy
  <2>2. /\ op' \in OpRecords /\ op'.kind = "deploy" /\ op'.m = m
        /\ op'.pc = "admissions" /\ op'.ver = v /\ op'.boot = "none" /\ op'.gates = {}
    BY <2>1 DEF NoOp, OpRecords
  <2> QED
    BY <1>1, <2>2 DEF OpOK
<1>4. ASSUME TakeAdmissions
      PROVE  op' \in OpRecords /\ OpOK(op') /\ OpGoes(op.pc)
  <2> DEFINE s == Min(Schedules \ op.held)
  <2>1. op' = [op EXCEPT !.held = op.held \cup {s}] /\ op.held # Schedules
    BY <1>1, <1>4 DEF TakeAdmissions
  <2>2. op.held \subseteq Schedules
    BY <1>1 DEF OpRecords
  <2>3. s \in Schedules
    BY <1>1, <2>1, <2>2, MinIn
  <2> HIDE DEF s
  <2>4. op' \in OpRecords /\ OpGoes(op.pc)
    BY <1>1, <2>1, <2>2, <2>3 DEF OpRecords, OpGoes, Alike
  <2> QED
    BY <1>2, <1>4, <2>4 DEF OpOK, OpGoes, Alike, TakeAdmissions
<1>5. ASSUME TakeGates
      PROVE  /\ op' \in OpRecords /\ OpOK(op') /\ op.kind = "deploy"
             /\ op'.kind = op.kind /\ op'.m = op.m /\ op'.ver = op.ver
             /\ op'.boot = op.boot /\ op'.pc \in {"admissions", "plan"}
             /\ LET s == Min(Schedules \ op.gates)
                IN  s \in Schedules /\ op'.gates = op.gates \cup {s}
  <2> DEFINE s == Min(Schedules \ op.gates)
             all == op.gates \cup {s} = Schedules
             held == IF all THEN {} ELSE op.held
             pc == IF all THEN "plan" ELSE op.pc
  <2>1. /\ op' = [op EXCEPT !.gates = op.gates \cup {s}, !.held = held, !.pc = pc]
        /\ op.pc = "admissions"
    BY <1>1, <1>5 DEF TakeGates
  <2>2. /\ op.held \subseteq Schedules /\ op.gates \subseteq Schedules
        /\ op.gates # Schedules /\ op.kind = "deploy"
    BY <1>1, <1>2, <2>1 DEF OpRecords, OpOK
  <2>3. s \in Schedules
    BY <1>1, <2>2, MinIn
  <2>4. held \subseteq Schedules /\ pc \in {"admissions", "plan"} /\ (pc = "plan" <=> all)
    BY <2>1, <2>2
  <2> HIDE DEF s, held, pc
  <2>5. /\ op' \in OpRecords
        /\ op'.kind = op.kind /\ op'.m = op.m /\ op'.ver = op.ver
        /\ op'.boot = op.boot /\ op'.pc = pc /\ op'.gates = op.gates \cup {s}
    BY <1>1, <2>1, <2>2, <2>3, <2>4 DEF OpRecords
  <2>6. OpOK(op')
    BY <2>1, <2>2, <2>4, <2>5 DEF OpOK
  <2> QED
    BY <2>2, <2>3, <2>4, <2>5, <2>6 DEF s
<1> QED
  BY <1>3, <1>4, <1>5

\* The steps of a deployment and of a wake.
LEMMA OpEffects ==
    ASSUME TypeOK, OpOK(op)
    PROVE  /\ Plan => op.kind = "deploy" /\ OpGoes("prepare")
           /\ StopFails => op.kind = "deploy" /\ op' = NoOp
           /\ Prepare => /\ op.kind = "deploy"
                         /\ \/ op.todo = {} /\ OpGoes("converge")
                            \/ op.todo # {} /\ OpGoes("produce")
           /\ PrepareFails => op.kind = "deploy" /\ OpGoes("fail")
           /\ Produced => op.kind = "deploy" /\ OpGoes("converge")
           /\ TakeBootGate => Alike(op, op') /\ op'.pc = op.pc /\ op'.boot = "gate"
           /\ TakeBootFile => Alike(op, op') /\ op'.pc = op.pc /\ op'.boot = "file"
           /\ Converge =>
                \/ Alike(op, op') /\ op'.pc \in {"produce", "fail"} /\ op'.boot = "none"
                \/ OpGoes("boot")
           /\ \A m \in Managers :
                StartWake(m) =>
                  /\ op'.kind = "wake" /\ op'.m = m /\ op'.pc = "converge"
                  /\ op'.ver = serving /\ op'.gates = {} /\ op'.boot = "none"
           /\ CheckCompatible => op' = NoOp \/ OpGoes("boot")
           /\ Boot => \/ op.kind = "wake" /\ op' = NoOp
                      \/ op.kind = "deploy" /\ OpGoes("promote")
           /\ BootFails => \/ op.kind = "wake" /\ op' = NoOp
                           \/ op.kind = "deploy" /\ OpGoes("fail")
           /\ Promote => op.kind = "deploy" /\ op' = NoOp
           /\ Fail => /\ op.kind = "deploy"
                      /\ \/ op' = NoOp
                         \/ /\ op'.kind = "wake" /\ op'.m = op.m /\ op'.pc = "converge"
                            /\ op'.ver = serving /\ op'.gates = op.gates
                            /\ op'.boot = op.boot
           /\ (\/ Plan \/ StopFails \/ Prepare \/ PrepareFails \/ Produced \/ TakeBootGate
               \/ TakeBootFile \/ Converge \/ CheckCompatible \/ Boot \/ BootFails
               \/ Promote \/ Fail \/ (\E m \in Managers : StartWake(m)))
                => op' \in OpRecords /\ OpOK(op')
<1>1. op \in OpRecords /\ serving \in Versions
  BY TypesByName
<1>2. /\ op.kind \in {"none", "deploy", "wake"}
      /\ op.kind = "none" => op.pc = "none" /\ op.boot = "none"
      /\ op.pc \in {"plan", "prepare", "produce", "producing", "promote", "fail"}
           => op.kind = "deploy"
  BY <1>1 DEF OpOK, OpRecords, NoOp
<1>4. ASSUME Plan
      PROVE  op' \in OpRecords /\ OpOK(op') /\ op.kind = "deploy" /\ OpGoes("prepare")
  <2> DEFINE u == Unsatisfied(op.ver, FALSE)
  <2>1. op' = [op EXCEPT !.pc = "prepare", !.todo = u] /\ op.pc = "plan"
    BY <1>4 DEF Plan
  <2>2. u \subseteq Publishing
    BY DEF Unsatisfied
  <2> HIDE DEF u
  <2>3. op' \in OpRecords /\ OpGoes("prepare")
    BY <1>1, <2>1, <2>2 DEF OpRecords, OpGoes, Alike
  <2> QED
    BY <1>2, <2>1, <2>3 DEF OpOK, OpGoes, Alike
<1>5. ASSUME StopFails
      PROVE  op' \in OpRecords /\ OpOK(op') /\ op.kind = "deploy" /\ op' = NoOp
  BY <1>2, <1>5, Nobody DEF StopFails
<1>6. ASSUME Prepare
      PROVE  /\ op' \in OpRecords /\ OpOK(op') /\ op.kind = "deploy"
             /\ \/ op.todo = {} /\ OpGoes("converge")
                \/ op.todo # {} /\ OpGoes("produce")
  <2>1. /\ op.pc = "prepare" /\ op.kind = "deploy"
        /\ op' = [op EXCEPT !.pc = IF op.todo = {} THEN "converge" ELSE "produce"]
    BY <1>2, <1>6 DEF Prepare
  <2>2. CASE op.todo = {}
    <3>1. op' \in OpRecords /\ OpGoes("converge")
      BY <1>1, <2>1, <2>2, OpPc
    <3> QED
      BY <2>1, <2>2, <3>1 DEF OpOK, OpGoes, Alike
  <2>3. CASE op.todo # {}
    <3>1. op' \in OpRecords /\ OpGoes("produce")
      BY <1>1, <2>1, <2>3, OpPc
    <3> QED
      BY <2>1, <2>3, <3>1 DEF OpOK, OpGoes, Alike
  <2> QED
    BY <2>2, <2>3
<1>7. ASSUME PrepareFails
      PROVE  op' \in OpRecords /\ OpOK(op') /\ op.kind = "deploy" /\ OpGoes("fail")
  <2>1. op.pc = "prepare" /\ op.kind = "deploy" /\ op' = [op EXCEPT !.pc = "fail"]
    BY <1>2, <1>7 DEF PrepareFails
  <2>2. op' \in OpRecords /\ OpGoes("fail")
    BY <1>1, <2>1, OpPc
  <2> QED
    BY <2>1, <2>2 DEF OpOK, OpGoes, Alike
<1>8. ASSUME Produced
      PROVE  op' \in OpRecords /\ OpOK(op') /\ op.kind = "deploy" /\ OpGoes("converge")
  <2>1. op.pc = "produce" /\ op.kind = "deploy" /\ op' = [op EXCEPT !.pc = "converge"]
    BY <1>2, <1>8 DEF Produced
  <2>2. op' \in OpRecords /\ OpGoes("converge")
    BY <1>1, <2>1, OpPc
  <2> QED
    BY <2>1, <2>2 DEF OpOK, OpGoes, Alike
<1>9. ASSUME NEW b \in {"gate", "file"}, op.pc = "converge", op' = [op EXCEPT !.boot = b]
      PROVE  /\ op' \in OpRecords /\ OpOK(op')
             /\ Alike(op, op') /\ op'.pc = op.pc /\ op'.boot = b
  <2>1. op' \in OpRecords /\ Alike(op, op') /\ op'.pc = op.pc /\ op'.boot = b
    BY <1>1, <1>9 DEF OpRecords, Alike
  <2> QED
    BY <1>2, <1>9, <2>1 DEF OpOK, Alike
<1>10. ASSUME TakeBootGate
       PROVE  /\ op' \in OpRecords /\ OpOK(op')
              /\ Alike(op, op') /\ op'.pc = op.pc /\ op'.boot = "gate"
  BY <1>9, <1>10 DEF TakeBootGate
<1>11. ASSUME TakeBootFile
       PROVE  /\ op' \in OpRecords /\ OpOK(op')
              /\ Alike(op, op') /\ op'.pc = op.pc /\ op'.boot = "file"
  BY <1>9, <1>11 DEF TakeBootFile
<1>12. ASSUME op.pc = "converge", op.boot = "file", op' = [op EXCEPT !.pc = "boot"]
       PROVE  op' \in OpRecords /\ OpOK(op') /\ OpGoes("boot")
  <2>1. op' \in OpRecords /\ OpGoes("boot")
    BY <1>1, <1>12, OpPc
  <2> QED
    BY <1>2, <1>12, <2>1 DEF OpOK, OpGoes, Alike
<1>13. ASSUME Converge
       PROVE  /\ op' \in OpRecords /\ OpOK(op')
              /\ \/ Alike(op, op') /\ op'.pc \in {"produce", "fail"} /\ op'.boot = "none"
                 \/ OpGoes("boot")
  <2> DEFINE u == Unsatisfied(op.ver, op.done)
  <2>1. u \subseteq Publishing
    BY DEF Unsatisfied
  <2>2. /\ op.kind = "deploy" /\ op.pc = "converge" /\ op.boot = "file"
        /\ \/ op' = [op EXCEPT !.boot = "none", !.todo = u, !.pc = "produce"]
           \/ op' = [op EXCEPT !.pc = "fail", !.boot = "none"]
           \/ op' = [op EXCEPT !.pc = "boot"]
    BY <1>13 DEF Converge
  <2> HIDE DEF u
  <2>3. CASE op' = [op EXCEPT !.boot = "none", !.todo = u, !.pc = "produce"]
    <3>1. op' \in OpRecords /\ Alike(op, op') /\ op'.pc = "produce" /\ op'.boot = "none"
      BY <1>1, <2>1, <2>3 DEF OpRecords, Alike
    <3> QED
      BY <2>2, <3>1 DEF OpOK, Alike
  <2>4. CASE op' = [op EXCEPT !.pc = "fail", !.boot = "none"]
    <3>1. op' \in OpRecords /\ Alike(op, op') /\ op'.pc = "fail" /\ op'.boot = "none"
      BY <1>1, <2>4 DEF OpRecords, Alike
    <3> QED
      BY <2>2, <3>1 DEF OpOK, Alike
  <2>5. CASE op' = [op EXCEPT !.pc = "boot"]
    BY <1>12, <2>2, <2>5
  <2> QED
    BY <2>2, <2>3, <2>4, <2>5
<1>14. ASSUME NEW m \in Managers, StartWake(m)
       PROVE  /\ op' \in OpRecords /\ OpOK(op')
              /\ op'.kind = "wake" /\ op'.m = m /\ op'.pc = "converge"
              /\ op'.ver = serving /\ op'.gates = {} /\ op'.boot = "none"
  <2>1. op' = [NoOp EXCEPT !.kind = "wake", !.m = m, !.pc = "converge", !.ver = serving]
    BY <1>14 DEF StartWake
  <2>2. /\ op' \in OpRecords /\ op'.kind = "wake" /\ op'.m = m /\ op'.pc = "converge"
        /\ op'.ver = serving /\ op'.gates = {} /\ op'.boot = "none"
    BY <1>1, <2>1 DEF NoOp, OpRecords
  <2> QED
    BY <1>1, <2>2 DEF OpOK
<1>15. ASSUME CheckCompatible
       PROVE  op' \in OpRecords /\ OpOK(op') /\ (op' = NoOp \/ OpGoes("boot"))
  <2>1. \/ op' = NoOp
        \/ op.pc = "converge" /\ op.boot = "file" /\ op' = [op EXCEPT !.pc = "boot"]
    BY <1>15 DEF CheckCompatible
  <2> QED
    BY <1>12, <2>1, Nobody
<1>16. ASSUME Boot
       PROVE  /\ op' \in OpRecords /\ OpOK(op')
              /\ \/ op.kind = "wake" /\ op' = NoOp
                 \/ op.kind = "deploy" /\ OpGoes("promote")
  <2>1. CASE op.kind = "wake"
    BY <1>16, <2>1, Nobody DEF Boot
  <2>2. CASE op.kind # "wake"
    <3>1. op.pc = "boot" /\ op.kind = "deploy" /\ op' = [op EXCEPT !.pc = "promote"]
      BY <1>2, <1>16, <2>2 DEF Boot
    <3>2. op' \in OpRecords /\ OpGoes("promote")
      BY <1>1, <3>1, OpPc
    <3> QED
      BY <3>1, <3>2 DEF OpOK, OpGoes, Alike
  <2> QED
    BY <2>1, <2>2
<1>17. ASSUME BootFails
       PROVE  /\ op' \in OpRecords /\ OpOK(op')
              /\ \/ op.kind = "wake" /\ op' = NoOp
                 \/ op.kind = "deploy" /\ OpGoes("fail")
  <2>1. CASE op.kind = "wake"
    BY <1>17, <2>1, Nobody DEF BootFails
  <2>2. CASE op.kind # "wake"
    <3>1. /\ op.pc \in {"boot", "promote"} /\ op.kind = "deploy"
          /\ op' = [op EXCEPT !.pc = "fail"]
      BY <1>2, <1>17, <2>2 DEF BootFails
    <3>2. op' \in OpRecords /\ OpGoes("fail")
      BY <1>1, <3>1, OpPc
    <3> QED
      BY <3>1, <3>2 DEF OpOK, OpGoes, Alike
  <2> QED
    BY <2>1, <2>2
<1>18. ASSUME Promote
       PROVE  op' \in OpRecords /\ OpOK(op') /\ op.kind = "deploy" /\ op' = NoOp
  BY <1>2, <1>18, Nobody DEF Promote
<1>19. ASSUME Fail
       PROVE  /\ op' \in OpRecords /\ OpOK(op') /\ op.kind = "deploy"
              /\ \/ op' = NoOp
                 \/ /\ op'.kind = "wake" /\ op'.m = op.m /\ op'.pc = "converge"
                    /\ op'.ver = serving /\ op'.gates = op.gates /\ op'.boot = op.boot
  <2>1. /\ op.pc = "fail" /\ op.kind = "deploy"
        /\ \/ op' = NoOp
           \/ op' = [op EXCEPT !.kind = "wake", !.pc = "converge", !.ver = serving]
    BY <1>2, <1>19 DEF Fail
  <2>2. CASE op' = NoOp
    BY <2>1, <2>2, Nobody
  <2>3. CASE op' = [op EXCEPT !.kind = "wake", !.pc = "converge", !.ver = serving]
    <3>1. /\ op' \in OpRecords /\ op'.kind = "wake" /\ op'.m = op.m /\ op'.pc = "converge"
          /\ op'.ver = serving /\ op'.gates = op.gates /\ op'.boot = op.boot
      BY <1>1, <2>3 DEF OpRecords
    <3> QED
      BY <1>1, <2>1, <3>1 DEF OpOK
  <2> QED
    BY <2>1, <2>2, <2>3
<1>20. (\/ Plan \/ StopFails \/ Prepare \/ PrepareFails \/ Produced \/ TakeBootGate
        \/ TakeBootFile \/ Converge \/ CheckCompatible \/ Boot \/ BootFails
        \/ Promote \/ Fail \/ (\E m \in Managers : StartWake(m)))
         => op' \in OpRecords /\ OpOK(op')
  BY <1>4, <1>5, <1>6, <1>7, <1>8, <1>10, <1>11, <1>13, <1>14, <1>15, <1>16, <1>17,
     <1>18, <1>19
<1>21. \A m \in Managers :
         StartWake(m) =>
           /\ op'.kind = "wake" /\ op'.m = m /\ op'.pc = "converge"
           /\ op'.ver = serving /\ op'.gates = {} /\ op'.boot = "none"
  BY <1>14
<1> QED
  BY <1>4, <1>5, <1>6, <1>7, <1>8, <1>10, <1>11, <1>13, <1>15, <1>16, <1>17,
     <1>18, <1>19,
     <1>20, <1>21

-----------------------------------------------------------------------------
(* The steps by what they are about, and the types.                        *)

Admission(r) ==
    \/ Begin(r) \/ TakeAdmission(r) \/ Admit(r) \/ AdmitRequired(r) \/ EnterGate(r)
    \/ TakePublicationGate(r) \/ Cancel(r)
Execution(r) ==
    \/ Commit(r) \/ Execute(r) \/ TakePublicationFile(r) \/ TakeConsumers(r)
    \/ Abandon(r) \/ Complete(r)
    \/ \E ok \in BOOLEAN : TreeEnds(r, ok) \/ OrphanEnds(r, ok)
Deployment ==
    \/ (\E m \in Managers, v \in Versions : StartDeploy(m, v))
    \/ TakeAdmissions \/ TakeGates \/ Plan \/ StopFails \/ Prepare \/ PrepareFails
    \/ Produced \/ Converge \/ Promote \/ Fail
Start ==
    \/ (\E m \in Managers : StartWake(m))
    \/ TakeBootGate \/ TakeBootFile \/ CheckCompatible \/ Boot \/ BootFails
Ownership(m) ==
    \/ AcquireLease(m) \/ TakeFleet(m) \/ TakeFences(m) \/ Reconcile(m) \/ Open(m)
    \/ DrainDone(m) \/ DrainGivesUp(m) \/ Restart(m)
Retires(m) == NoticeLoss(m) \/ HandOver(m)

\* Every step is one of a run, of the deployment, of a start, of the ownership of one
\* control plane, a crash, or the end of a stray process.
LEMMA Kinds ==
    ASSUME Next
    PROVE  \/ \E r \in Runs : Admission(r) \/ Execution(r)
           \/ \E m \in Managers, s \in Schedules, kind \in {"cron", "required"} :
                Call(m, s, kind)
           \/ Produce \/ Deployment \/ Start
           \/ \E m \in Managers : Ownership(m) \/ Retires(m) \/ Mark(m) \/ Crash(m)
           \/ LeaseLapses \/ StrayEnds
<1>1. CASE RunSteps
  BY <1>1 DEF RunSteps, Admission, Execution
<1>2. CASE OpSteps
  BY <1>2 DEF OpSteps, Deployment, Start
<1>3. CASE OwnerSteps
  BY <1>3 DEF OwnerSteps, Ownership, Retires
<1>4. CASE Requests
  BY <1>4 DEF Requests, Deployment, Start
<1>5. CASE Faults
  BY <1>5 DEF Faults, Admission, Deployment, Start, Ownership, Retires
<1> QED
  BY <1>1, <1>2, <1>3, <1>4, <1>5 DEF Next

\* The run of the deployment ends, and the deployment goes on or fails.
Settles(r) ==
    /\ Candidate(r) /\ Left(r)
    /\ Alike(op, op') /\ op'.boot = op.boot /\ op'.pc \in {"produce", "fail"}

\* What a run in execution may do to the operation: settle the producer it waits for.
LEMMA ExecutionOp ==
    ASSUME TypeOK, RunInv, OpOK(op), CandInv, NEW r \in Runs, Execution(r)
    PROVE  /\ op' \in OpRecords /\ OpOK(op')
           /\ op' = op \/ Settles(r)
<1>1. op \in OpRecords /\ run[r] \in RunRecords
  BY TypesByName
<1>2. Candidate(r) => op.kind = "deploy" /\ op.pc = "producing"
  BY DEF CandInv
<1>3. ASSUME Candidate(r), Alike(op, op'), op'.boot = op.boot, op'.pc \in {"produce", "fail"}
      PROVE  OpOK(op')
  BY <1>2, <1>3 DEF OpOK, Alike
<1>4. ASSUME run[r].kind = "candidate" => Candidate(r), Left(r), OpFails(r)
      PROVE  op' \in OpRecords /\ OpOK(op') /\ (op' = op \/ Settles(r))
  <2>1. CASE run[r].kind = "candidate"
    <3>1. op' \in OpRecords /\ OpGoes("fail")
      BY <1>1, <1>4, <2>1, OpPc DEF OpFails
    <3> QED
      BY <1>3, <1>4, <2>1, <3>1 DEF OpGoes, Settles
  <2>2. CASE run[r].kind # "candidate"
    BY <1>1, <1>4, <2>2 DEF OpFails
  <2> QED
    BY <2>1, <2>2
<1>5. ASSUME run[r].kind = "candidate" => Candidate(r), NEW pc \in Pcs, Passes(r, pc)
      PROVE  op' \in OpRecords /\ OpOK(op') /\ (op' = op \/ Settles(r))
  BY <1>1, <1>4, <1>5 DEF Passes
<1>6. CASE Commit(r)
  <2>1. run[r].kind = "candidate" => Candidate(r)
    BY <1>6 DEF Commit, Candidate
  <2> QED
    BY <1>1, <1>4, <1>6, <2>1, CommitEffect DEF Commits
<1>7. CASE Execute(r)
  <2>1. run[r].kind = "candidate" => Candidate(r)
    BY <1>7 DEF Execute, Candidate
  <2>2. {"fence", "running"} \subseteq Pcs
    BY DEF Pcs, Admitted
  <2> QED
    BY <1>5, <1>7, <2>1, <2>2, ExecutionEffects
<1>8. CASE TakePublicationFile(r)
  <2>1. run[r].kind = "candidate" => Candidate(r)
    BY <1>8 DEF TakePublicationFile, Candidate
  <2>2. "running" \in Pcs
    BY DEF Pcs, Admitted
  <2> QED
    BY <1>1, <1>5, <1>8, <2>1, <2>2, ExecutionEffects
<1>9. CASE TakeConsumers(r)
  <2>1. run[r].kind = "candidate" => Candidate(r)
    BY <1>9 DEF TakeConsumers, Candidate
  <2>2. "running" \in Pcs
    BY DEF Pcs, Admitted
  <2> QED
    BY <1>5, <1>9, <2>1, <2>2, ExecutionEffects
<1>10. CASE Abandon(r)
  <2>1. run[r].kind = "candidate" => Candidate(r)
    BY <1>10 DEF Abandon, Candidate, Waiting
  <2> QED
    BY <1>4, <1>10, <2>1, ExecutionEffects
<1>11. CASE Complete(r)
  <2>1. Left(r) /\ (run[r].kind = "candidate" => Candidate(r))
    BY <1>11, ExecutionEffects DEF Complete, Candidate
  <2>2. CASE run[r].kind # "candidate"
    BY <1>1, <1>11, <2>2 DEF Complete
  <2>3. CASE /\ run[r].kind = "candidate"
             /\ op' = [op EXCEPT !.pc = "produce", !.todo = op.todo \ {run[r].s},
                                 !.done = op.todo = {run[r].s}]
    <3> DEFINE d == op.todo = {run[r].s}
    <3>1. op' = [op EXCEPT !.pc = "produce", !.todo = op.todo \ {run[r].s}, !.done = d]
      BY <2>3
    <3>2. d \in BOOLEAN
      OBVIOUS
    <3> HIDE DEF d
    <3>3. op' \in OpRecords /\ Alike(op, op') /\ op'.boot = op.boot /\ op'.pc = "produce"
      BY <1>1, <3>1, <3>2 DEF OpRecords, Alike
    <3> QED
      BY <1>3, <2>1, <2>3, <3>3 DEF Settles
  <2>4. CASE run[r].kind = "candidate" /\ op' = [op EXCEPT !.pc = "fail"]
    BY <1>4, <2>1, <2>4 DEF OpFails
  <2> QED
    BY <1>1, <1>11, <2>2, <2>3, <2>4 DEF Complete
<1>12. CASE \E ok \in BOOLEAN : TreeEnds(r, ok) \/ OrphanEnds(r, ok)
  BY <1>1, <1>12 DEF TreeEnds, OrphanEnds
<1> QED
  BY <1>6, <1>7, <1>8, <1>9, <1>10, <1>11, <1>12 DEF Execution

\* The data of the schedules after a step of a run.
LEMMA ExecutionStore ==
    ASSUME TypeOK, NEW r \in Runs, Execution(r)
    PROVE  /\ data' \in [Publishing -> Versions \cup {None}]
           /\ prov' \in [Publishing -> Versions \cup {None}]
           /\ torn' \in [Publishing -> BOOLEAN] /\ unc' \in [Publishing -> BOOLEAN]
           /\ UNCHANGED <<owner, serving, repair, pend, stray, left>>
           /\ consumer' = None \/ consumer' = consumer
<1>1. /\ run[r] \in RunRecords
      /\ data \in [Publishing -> Versions \cup {None}]
      /\ prov \in [Publishing -> Versions \cup {None}]
      /\ torn \in [Publishing -> BOOLEAN] /\ unc \in [Publishing -> BOOLEAN]
      /\ run[r].ver \in Versions \cup {None}
  BY TypesByName DEF RunRecords
<1>2. ASSUME Starts(r)
      PROVE  torn' \in [Publishing -> BOOLEAN] /\ UNCHANGED <<data, unc, prov>>
  BY <1>1, <1>2 DEF Starts, store
<1>3. CASE Commit(r)
  BY <1>1, <1>3 DEF Commit, store, app
<1>4. CASE Execute(r)
  BY <1>1, <1>4 DEF Execute, Pass, store, app
<1>5. CASE TakePublicationFile(r)
  <2>1. CASE run[r].kind = "candidate"
    BY <1>1, <1>5, <2>1 DEF TakePublicationFile, store, app
  <2>2. CASE run[r].kind # "candidate"
    BY <1>1, <1>2, <1>5, <2>2 DEF TakePublicationFile, Pass, app
  <2> QED
    BY <2>1, <2>2
<1>6. CASE TakeConsumers(r)
  BY <1>1, <1>2, <1>6 DEF TakeConsumers, Pass, app
<1>7. CASE Abandon(r)
  BY <1>1, <1>7 DEF Abandon, store, app
<1>8. CASE Complete(r)
  <2> DEFINE ok == run[r].pc = "succeeded"
  <2>1. \/ UNCHANGED <<unc, prov>>
        \/ /\ unc' = [unc EXCEPT ![run[r].s] = ~ok]
           /\ prov' = [prov EXCEPT ![run[r].s] =
                         IF ok THEN run[r].ver ELSE prov[run[r].s]]
    BY <1>8 DEF Complete
  <2>2. ok \in BOOLEAN
    OBVIOUS
  <2>3. /\ UNCHANGED <<owner, serving, repair, pend, stray, data, torn, left>>
        /\ consumer' = None \/ consumer' = consumer
    BY <1>8 DEF Complete
  <2> HIDE DEF ok
  <2>4. unc' \in [Publishing -> BOOLEAN]
    BY <1>1, <2>1, <2>2
  <2>5. prov' \in [Publishing -> Versions \cup {None}]
    <3>1. CASE UNCHANGED prov
      BY <1>1, <3>1
    <3>2. CASE prov' = [prov EXCEPT ![run[r].s] =
                          IF ok THEN run[r].ver ELSE prov[run[r].s]]
      BY <1>1, <3>2
    <3> QED
      BY <2>1, <3>1, <3>2
  <2> QED
    BY <1>1, <2>3, <2>4, <2>5
<1>9. CASE \E ok \in BOOLEAN : TreeEnds(r, ok) \/ OrphanEnds(r, ok)
  BY <1>1, <1>9 DEF TreeEnds, OrphanEnds, store, app
<1> QED
  BY <1>3, <1>4, <1>5, <1>6, <1>7, <1>8, <1>9 DEF Execution


\* What the steps leave alone.
LEMMA Frames ==
    /\ \A r \in Runs : Admission(r) => UNCHANGED <<owner, op, app, store>>
    /\ \A m \in Managers, s \in Schedules, kind \in {"cron", "required"} :
         Call(m, s, kind) => UNCHANGED <<owner, op, app, store>>
    /\ Produce => UNCHANGED <<owner, app, store, left>>
    /\ Deployment => UNCHANGED <<owner, run, stray, store>>
    /\ Start => UNCHANGED <<owner, run, serving, repair, pend, stray, store>>
    /\ \A m \in Managers :
         /\ Ownership(m) => UNCHANGED <<run, op, serving, stray, store>>
         /\ Retires(m) => UNCHANGED <<lease, op, app, store>>
         /\ Mark(m) => UNCHANGED <<lease, draining, op, app, data, torn, prov, left>>
         /\ Crash(m) => UNCHANGED <<lease, draining, serving, repair, pend, consumer, store>>
    /\ LeaseLapses => UNCHANGED <<phase, draining, run, op, app, store>>
    /\ StrayEnds =>
         UNCHANGED <<owner, run, op, serving, repair, pend, consumer, store, left>>
<1>1. ASSUME NEW r \in Runs, Admission(r)
      PROVE  UNCHANGED <<owner, op, app, store>>
  BY <1>1 DEF Admission, Begin, TakeAdmission, Admit, AdmitRequired, EnterGate,
              TakePublicationGate, Cancel
<1>2. ASSUME NEW m \in Managers, NEW s \in Schedules, NEW kind \in {"cron", "required"},
             Call(m, s, kind)
      PROVE  UNCHANGED <<owner, op, app, store>>
  BY <1>2 DEF Call
<1>3. Produce => UNCHANGED <<owner, app, store, left>>
  BY DEF Produce
<1>4. ASSUME Deployment
      PROVE  UNCHANGED <<owner, run, stray, store>>
  BY <1>4 DEF Deployment, StartDeploy, TakeAdmissions, TakeGates, Plan, StopFails, Prepare,
              PrepareFails, Produced, Converge, Promote, Fail, app
<1>5. ASSUME Start
      PROVE  UNCHANGED <<owner, run, serving, repair, pend, stray, store>>
  BY <1>5 DEF Start, StartWake, TakeBootGate, TakeBootFile, CheckCompatible, Boot, BootFails,
              app
<1>6. ASSUME NEW m \in Managers, Ownership(m)
      PROVE  UNCHANGED <<run, op, serving, stray, store>>
  BY <1>6 DEF Ownership, AcquireLease, TakeFleet, TakeFences, Reconcile, Open, DrainDone,
              DrainGivesUp, Restart, app
<1>7. ASSUME NEW m \in Managers, Retires(m)
      PROVE  UNCHANGED <<lease, op, app, store>>
  BY <1>7, SMTT(30) DEF Retires, NoticeLoss, HandOver
<1>8. ASSUME NEW m \in Managers
      PROVE  /\ Mark(m) => UNCHANGED <<lease, draining, op, app, data, torn, prov, left>>
             /\ Crash(m) =>
                  UNCHANGED <<lease, draining, serving, repair, pend, consumer, store>>
  BY DEF Mark, Crash
<1>9. LeaseLapses => UNCHANGED <<phase, draining, run, op, app, store>>
  BY DEF LeaseLapses
<1>10. StrayEnds =>
         UNCHANGED <<owner, run, op, serving, repair, pend, consumer, store, left>>
  BY DEF StrayEnds
<1> QED
  BY <1>1, <1>2, <1>3, <1>4, <1>5, <1>6, <1>7, <1>8, <1>9, <1>10

\* What bounds requests and faults counts down.
LEMMA Spent ==
    ASSUME left \in [{"calls", "deploys", "wakes", "requests", "faults"} -> Nat]
    PROVE  /\ Fault => left' \in [{"calls", "deploys", "wakes", "requests", "faults"} -> Nat]
           /\ \A kind \in {"calls", "deploys", "wakes"} : Request(kind) =>
                left' \in [{"calls", "deploys", "wakes", "requests", "faults"} -> Nat]
<1> DEFINE bounds == {"calls", "deploys", "wakes", "requests", "faults"}
<1>1. ASSUME NEW f \in [bounds -> Nat], NEW k \in bounds, f[k] > 0
      PROVE  [f EXCEPT ![k] = f[k] - 1] \in [bounds -> Nat]
  BY <1>1
<1>2. Fault => left' \in [bounds -> Nat]
  BY <1>1 DEF Fault
<1>3. ASSUME NEW kind \in {"calls", "deploys", "wakes"}, Request(kind)
      PROVE  left' \in [bounds -> Nat]
  <2> DEFINE f == [left EXCEPT ![kind] = left[kind] - 1]
  <2>1. f \in [bounds -> Nat] /\ f["requests"] > 0
    BY <1>1, <1>3 DEF Request
  <2>2. left' = [f EXCEPT !["requests"] = f["requests"] - 1]
    BY <1>3 DEF Request
  <2> HIDE DEF f
  <2> QED
    BY <1>1, <2>1, <2>2
<1> QED
  BY <1>2, <1>3

\* A control plane enters a phase.
LEMMA Phased ==
    ASSUME phase \in [Managers -> Phases], NEW m \in Managers, NEW p \in Phases,
           phase' = [phase EXCEPT ![m] = p]
    PROVE  /\ phase' \in [Managers -> Phases] /\ phase'[m] = p
           /\ \A n \in Managers \ {m} : phase'[n] = phase[n]
OBVIOUS

\* An owner that loses its lease drains what it opened and unwinds what it started.
LEMMA Retiring ==
    ASSUME TypeOK, NEW m \in Managers, Retire(m)
    PROVE  /\ phase' \in [Managers -> Phases] /\ draining' \in [Managers -> BOOLEAN]
           /\ \/ phase[m] = "open" /\ phase'[m] = "draining"
              \/ phase[m] = "starting" /\ phase'[m] = "unwinding"
              \/ phase[m] \notin {"open", "starting"} /\ phase'[m] = "standby"
           /\ \A n \in Managers \ {m} : phase'[n] = phase[n]
<1> DEFINE p == CASE phase[m] = "open" -> "draining"
                  [] phase[m] = "starting" -> "unwinding"
                  [] OTHER -> "standby"
<1>1. phase \in [Managers -> Phases] /\ draining \in [Managers -> BOOLEAN]
  BY TypesByName
<1>2. phase' = [phase EXCEPT ![m] = p]
  BY DEF Retire
<1>3. \/ phase[m] = "open" /\ p = "draining"
      \/ phase[m] = "starting" /\ p = "unwinding"
      \/ phase[m] \notin {"open", "starting"} /\ p = "standby"
  OBVIOUS
<1>4. p \in Phases
  BY <1>3 DEF Phases, Fleet
<1> HIDE DEF p
<1>5. draining' \in [Managers -> BOOLEAN]
  BY <1>1 DEF Retire
<1>6. /\ phase' \in [Managers -> Phases] /\ phase'[m] = p
      /\ \A n \in Managers \ {m} : phase'[n] = phase[n]
  BY <1>1, <1>2, <1>4, Phased
<1> QED
  BY <1>3, <1>5, <1>6

-----------------------------------------------------------------------------
(* The types.                                                              *)

Bounds == {"calls", "deploys", "wakes", "requests", "faults"}
Deployments == [ver : Versions \cup {None}, barrier : BOOLEAN, older : BOOLEAN]
OwnerType ==
    /\ lease \in Managers \cup {None} /\ phase \in [Managers -> Phases]
    /\ draining \in [Managers -> BOOLEAN]
AppType ==
    /\ serving \in Versions /\ repair \in BOOLEAN /\ stray \in BOOLEAN
    /\ pend \in Deployments /\ consumer \in Versions \cup {None}
StoreType ==
    /\ data \in [Publishing -> Versions \cup {None}]
    /\ prov \in [Publishing -> Versions \cup {None}]
    /\ torn \in [Publishing -> BOOLEAN] /\ unc \in [Publishing -> BOOLEAN]

\* TypeOK by the component that keeps the variables.
LEMMA TypesInParts ==
    TypeOK <=> /\ OwnerType /\ run \in [Runs -> RunRecords] /\ op \in OpRecords
               /\ AppType /\ StoreType /\ left \in [Bounds -> Nat]
BY TypesByName DEF OwnerType, AppType, StoreType, Bounds, Deployments

\* The parts of TypeOK after a step.
LEMMA TypesNext ==
    ASSUME OwnerType', run' \in [Runs -> RunRecords], op' \in OpRecords, AppType',
           StoreType', left' \in [Bounds -> Nat]
    PROVE  TypeOK'
BY DEF OwnerType, AppType, StoreType, Bounds, Deployments, TypeOK, RunRecords, OpRecords,
       Phases

\* Variables that stay keep their types.
LEMMA Unchanged ==
    /\ UNCHANGED owner /\ OwnerType => OwnerType'
    /\ UNCHANGED app /\ AppType => AppType'
    /\ UNCHANGED store /\ StoreType => StoreType'
BY DEF owner, app, store, OwnerType, AppType, StoreType

\* The steps of a deployment keep the types of what it writes.
LEMMA DeploymentTypes ==
    ASSUME TypeOK, OpOK(op), Deployment
    PROVE  op' \in OpRecords /\ OpOK(op') /\ AppType' /\ left' \in [Bounds -> Nat]
<1>1. /\ op \in OpRecords /\ AppType /\ left \in [Bounds -> Nat]
  BY TypesInParts
<1>2. /\ Fault => left' \in [Bounds -> Nat]
      /\ Request("deploys") => left' \in [Bounds -> Nat]
  BY <1>1, Spent DEF Bounds
<1>3. op' \in OpRecords /\ OpOK(op')
  <2>1. CASE \E m \in Managers, v \in Versions : StartDeploy(m, v)
    BY <2>1, GatesEffects
  <2>2. CASE TakeAdmissions
    BY <2>2, GatesEffects
  <2>3. CASE TakeGates
    BY <2>3, GatesEffects
  <2>4. CASE \/ Plan \/ StopFails \/ Prepare \/ PrepareFails \/ Produced \/ Converge
             \/ Promote \/ Fail
    BY <2>4, OpEffects
  <2> QED
    BY <2>1, <2>2, <2>3, <2>4 DEF Deployment
<1>4. CASE \E m \in Managers, v \in Versions : StartDeploy(m, v)
  <2>1. PICK m \in Managers, v \in Versions : StartDeploy(m, v)
    BY <1>4
  <2> DEFINE b == repair \/ pend.barrier
             o == Pending
  <2>2. b \in BOOLEAN /\ o \in BOOLEAN
    BY <1>1 DEF AppType, Deployments, Pending
  <2>3. repair' = b /\ pend' = [ver |-> v, barrier |-> b, older |-> o]
    BY <2>1 DEF StartDeploy
  <2>4. UNCHANGED <<serving, consumer, stray>> /\ Request("deploys")
    BY <2>1 DEF StartDeploy
  <2> HIDE DEF b, o
  <2>5. pend' \in Deployments
    BY <2>2, <2>3 DEF Deployments
  <2> QED
    BY <1>1, <1>2, <1>3, <2>2, <2>3, <2>4, <2>5 DEF AppType
<1>5. NoDeployment \in Deployments
  BY DEF NoDeployment, Deployments
<1>6. RowFails => pend' \in Deployments
  BY <1>1 DEF RowFails, NoDeployment, Deployments, AppType
<1>7. CASE TakeAdmissions \/ TakeGates \/ PrepareFails \/ Produced
  BY <1>1, <1>2, <1>3, <1>7, Unchanged DEF TakeAdmissions, TakeGates, PrepareFails, Produced
<1>8. CASE Plan
  BY <1>1, <1>3, <1>8 DEF Plan, AppType
<1>9. CASE StopFails
  BY <1>1, <1>2, <1>3, <1>6, <1>9 DEF StopFails, AppType
<1>10. CASE Prepare \/ Converge
  <2>1. pend' = pend \/ \E b \in BOOLEAN : pend' = [pend EXCEPT !.barrier = b]
    <3> DEFINE b == pend.barrier \/ op.todo # {}
    <3>1. pend' = pend \/ pend' = [pend EXCEPT !.barrier = TRUE]
          \/ pend' = [pend EXCEPT !.barrier = b]
      BY <1>10 DEF Prepare, Converge
    <3>2. b \in BOOLEAN
      BY <1>1 DEF AppType
    <3> HIDE DEF b
    <3> QED
      BY <3>1, <3>2
  <2>2. pend' \in Deployments
    BY <1>1, <2>1 DEF AppType, Deployments
  <2> QED
    BY <1>1, <1>3, <1>10, <2>2 DEF Prepare, Converge, AppType
<1>11. CASE Promote
  <2>1. op.ver \in Versions
    BY <1>1, <1>11, OpEffects DEF OpOK
  <2> QED
    BY <1>1, <1>3, <1>5, <1>11, <2>1 DEF Promote, AppType
<1>12. CASE Fail
  BY <1>1, <1>3, <1>6, <1>12 DEF Fail, AppType
<1> QED
  BY <1>4, <1>7, <1>8, <1>9, <1>10, <1>11, <1>12 DEF Deployment

\* The steps of a start keep the types of what it writes.
LEMMA StartTypes ==
    ASSUME TypeOK, OpOK(op), Start
    PROVE  op' \in OpRecords /\ OpOK(op') /\ AppType' /\ left' \in [Bounds -> Nat]
<1>1. /\ op \in OpRecords /\ AppType /\ left \in [Bounds -> Nat]
  BY TypesInParts
<1>2. /\ Fault => left' \in [Bounds -> Nat]
      /\ Request("wakes") => left' \in [Bounds -> Nat]
  BY <1>1, Spent DEF Bounds
<1>3. op' \in OpRecords /\ OpOK(op')
  <2>1. CASE \E m \in Managers : StartWake(m)
    BY <2>1, OpEffects
  <2>2. CASE TakeBootGate \/ TakeBootFile \/ CheckCompatible \/ Boot \/ BootFails
    BY <2>2, OpEffects
  <2> QED
    BY <2>1, <2>2 DEF Start
<1>4. left' \in [Bounds -> Nat]
  BY <1>1, <1>2 DEF Start, StartWake, TakeBootGate, TakeBootFile, CheckCompatible, Boot,
                    BootFails
<1>5. consumer' \in Versions \cup {None}
  <2>1. op.ver \in Versions \cup {None}
    BY <1>1 DEF OpRecords
  <2> QED
    BY <1>1, <2>1 DEF Start, StartWake, TakeBootGate, TakeBootFile, CheckCompatible, Boot,
                      BootFails, app, AppType
<1> QED
  BY <1>1, <1>3, <1>4, <1>5, Frames DEF AppType

\* The steps of ownership keep the types of what they write.
LEMMA OwnershipTypes ==
    ASSUME TypeOK, NEW m \in Managers, Ownership(m) \/ Retires(m) \/ Mark(m)
    PROVE  OwnerType' /\ AppType' /\ left' \in [Bounds -> Nat]
<1>1. OwnerType /\ AppType /\ left \in [Bounds -> Nat]
  BY TypesInParts
<1>2. Fault => left' \in [Bounds -> Nat]
  BY <1>1, Spent DEF Bounds
<1>3. ASSUME NEW p \in Phases, phase' = [phase EXCEPT ![m] = p]
      PROVE  phase' \in [Managers -> Phases]
  BY <1>1, <1>3, Phased DEF OwnerType
<1>4. {"acquired", "fence", "mark", "reconcile", "starting", "open", "standby"}
        \subseteq Phases
  BY DEF Phases, Fleet
<1>5. NoDeployment \in Deployments
  BY DEF NoDeployment, Deployments
<1>6. ASSUME AcquireLease(m) \/ TakeFleet(m) \/ TakeFences(m) \/ Open(m) \/ DrainDone(m)
             \/ DrainGivesUp(m)
      PROVE  OwnerType' /\ AppType' /\ left' \in [Bounds -> Nat]
  <2>1. phase' \in [Managers -> Phases]
    BY <1>3, <1>4, <1>6 DEF AcquireLease, TakeFleet, TakeFences, Open, DrainDone,
                            DrainGivesUp
  <2>2. /\ lease' \in {lease, m, None} /\ UNCHANGED <<draining, app, left>>
    BY <1>6 DEF AcquireLease, TakeFleet, TakeFences, Open, DrainDone, DrainGivesUp
  <2> QED
    BY <1>1, <2>1, <2>2, Unchanged DEF OwnerType
<1>7. ASSUME Reconcile(m)
      PROVE  OwnerType' /\ AppType' /\ left' \in [Bounds -> Nat]
  <2>1. phase' \in [Managers -> Phases]
    BY <1>3, <1>4, <1>7 DEF Reconcile
  <2> DEFINE b == repair \/ pend.barrier
  <2>2. b \in BOOLEAN /\ repair' = b
    BY <1>1, <1>7 DEF Reconcile, AppType
  <2> HIDE DEF b
  <2>3. consumer' \in {consumer, None}
    BY <1>7 DEF Reconcile
  <2> QED
    BY <1>1, <1>5, <1>7, <2>1, <2>2, <2>3 DEF Reconcile, OwnerType, AppType
<1>8. ASSUME Restart(m)
      PROVE  OwnerType' /\ AppType' /\ left' \in [Bounds -> Nat]
  <2>1. phase' \in [Managers -> Phases]
    BY <1>3, <1>4, <1>8 DEF Restart
  <2> QED
    BY <1>1, <1>8, <2>1, Unchanged DEF Restart, OwnerType
<1>9. ASSUME Mark(m)
      PROVE  OwnerType' /\ AppType' /\ left' \in [Bounds -> Nat]
  <2>1. phase' \in [Managers -> Phases]
    BY <1>3, <1>4, <1>9 DEF Mark
  <2> QED
    BY <1>1, <1>9, <2>1, Unchanged DEF Mark, OwnerType
<1>10. ASSUME Retires(m)
       PROVE  OwnerType' /\ AppType' /\ left' \in [Bounds -> Nat]
  <2>1. Retire(m) /\ UNCHANGED <<lease, app>> /\ (Fault \/ UNCHANGED left)
    BY <1>10 DEF Retires, NoticeLoss, HandOver
  <2> QED
    BY <1>1, <1>2, <2>1, Retiring, Unchanged DEF OwnerType
<1> QED
  BY <1>6, <1>7, <1>8, <1>9, <1>10 DEF Ownership

\* Every step keeps the types, and the operation what it is by itself.
LEMMA TypeStep ==
    ASSUME TypeOK, RunInv, OpOK(op), CandInv, Next
    PROVE  TypeOK' /\ OpOK(op')
<1>1. /\ OwnerType /\ run \in [Runs -> RunRecords] /\ op \in OpRecords
      /\ AppType /\ StoreType /\ left \in [Bounds -> Nat]
  BY TypesInParts
<1>2. /\ Fault => left' \in [Bounds -> Nat]
      /\ Request("calls") => left' \in [Bounds -> Nat]
  BY <1>1, Spent DEF Bounds
<1>3. ASSUME NEW r \in Runs, Admission(r)
      PROVE  TypeOK' /\ OpOK(op')
  <2>1. UNCHANGED <<owner, op, app, store>> /\ run' \in [Runs -> RunRecords]
    BY <1>3, Frames, AdmissionEffects DEF Admission
  <2>2. left' \in [Bounds -> Nat]
    BY <1>1, <1>2, <1>3 DEF Admission, Begin, TakeAdmission, Admit, AdmitRequired, EnterGate,
                            TakePublicationGate, Cancel
  <2>3. op' \in OpRecords /\ OpOK(op')
    BY <1>1, <2>1
  <2> QED
    BY <1>1, <2>1, <2>2, <2>3, Unchanged, TypesNext
<1>4. ASSUME NEW r \in Runs, Execution(r)
      PROVE  TypeOK' /\ OpOK(op')
  <2>1. run' \in [Runs -> RunRecords]
    BY <1>4, ExecutionEffects, CommitEffect DEF Execution
  <2>2. op' \in OpRecords /\ OpOK(op')
    BY <1>4, ExecutionOp
  <2>3. StoreType' /\ UNCHANGED <<owner, serving, repair, pend, stray, left>>
        /\ (consumer' = None \/ consumer' = consumer)
    BY <1>4, ExecutionStore DEF StoreType
  <2>4. AppType'
    BY <1>1, <2>3 DEF AppType
  <2> QED
    BY <1>1, <2>1, <2>2, <2>3, <2>4, Unchanged, TypesNext
<1>5. ASSUME NEW m \in Managers, NEW s \in Schedules, NEW kind \in {"cron", "required"},
             Call(m, s, kind)
      PROVE  TypeOK' /\ OpOK(op')
  <2>1. UNCHANGED <<owner, op, app, store>> /\ run' \in [Runs -> RunRecords]
    BY <1>5, Frames, CallEffect
  <2>2. left' \in [Bounds -> Nat]
    BY <1>2, <1>5 DEF Call
  <2>3. op' \in OpRecords /\ OpOK(op')
    BY <1>1, <2>1
  <2> QED
    BY <1>1, <2>1, <2>2, <2>3, Unchanged, TypesNext
<1>6. ASSUME Produce
      PROVE  TypeOK' /\ OpOK(op')
  <2>1. UNCHANGED <<owner, app, store, left>> /\ run' \in [Runs -> RunRecords]
    BY <1>6, Frames, ProduceEffect
  <2>2. \E pc \in {"producing", "fail"} : op' = [op EXCEPT !.pc = pc]
    BY <1>6, ProduceEffect
  <2>3. op' \in OpRecords /\ Alike(op, op') /\ op'.boot = op.boot
        /\ op'.pc \in {"producing", "fail"}
    BY <1>1, <2>2, OpPc DEF OpGoes
  <2>4. op.kind = "deploy" /\ op.pc = "produce"
    BY <1>1, <1>6 DEF Produce, OpOK, OpRecords, NoOp
  <2>5. OpOK(op')
    BY <2>3, <2>4 DEF OpOK, Alike
  <2> QED
    BY <1>1, <2>1, <2>3, <2>5, Unchanged, TypesNext
<1>7. ASSUME Deployment
      PROVE  TypeOK' /\ OpOK(op')
  BY <1>1, <1>7, DeploymentTypes, Frames, Unchanged, TypesNext
<1>8. ASSUME Start
      PROVE  TypeOK' /\ OpOK(op')
  BY <1>1, <1>8, StartTypes, Frames, Unchanged, TypesNext
<1>9. ASSUME NEW m \in Managers, Ownership(m)
      PROVE  TypeOK' /\ OpOK(op')
  <2>1. UNCHANGED <<run, op, store>>
    BY <1>9, Frames
  <2>2. op' \in OpRecords /\ OpOK(op')
    BY <1>1, <2>1
  <2> QED
    BY <1>1, <1>9, <2>1, <2>2, OwnershipTypes, Unchanged, TypesNext
<1>10. ASSUME NEW m \in Managers, Retires(m)
       PROVE  TypeOK' /\ OpOK(op')
  <2>1. UNCHANGED <<op, store>> /\ Retire(m)
    BY <1>10, Frames DEF Retires, NoticeLoss, HandOver
  <2>2. op' \in OpRecords /\ OpOK(op') /\ run' \in [Runs -> RunRecords]
    BY <1>1, <2>1, DrainedEffect
  <2> QED
    BY <1>1, <1>10, <2>1, <2>2, OwnershipTypes, Unchanged, TypesNext
<1>11. ASSUME NEW m \in Managers, Mark(m)
       PROVE  TypeOK' /\ OpOK(op')
  <2>1. UNCHANGED <<op, data, torn, prov>> /\ run' \in [Runs -> RunRecords]
    BY <1>11, Frames, MarkEffect
  <2>2. op' \in OpRecords /\ OpOK(op')
    BY <1>1, <2>1
  <2>3. unc' \in [Publishing -> BOOLEAN]
    <3> DEFINE u(s) == unc[s] \/ \E r \in Runs : run[r].row /\ run[r].s = s
    <3>1. unc' = [s \in Publishing |-> u(s)]
      BY <1>11 DEF Mark
    <3>2. \A s \in Publishing : u(s) \in BOOLEAN
      BY <1>1 DEF StoreType
    <3> HIDE DEF u
    <3> QED
      BY <3>1, <3>2
  <2>4. StoreType'
    BY <1>1, <2>1, <2>3 DEF StoreType
  <2> QED
    BY <1>1, <1>11, <2>1, <2>2, <2>4, OwnershipTypes, TypesNext
<1>12. ASSUME NEW m \in Managers, Crash(m)
       PROVE  TypeOK' /\ OpOK(op')
  <2>1. UNCHANGED <<lease, draining, serving, repair, pend, consumer, store>>
        /\ run' \in [Runs -> RunRecords]
    BY <1>12, Frames, CrashEffect, SMTT(30)
  <2>2. op' = op \/ op' = NoOp
    BY <1>12 DEF Crash
  <2>3. op' \in OpRecords /\ OpOK(op')
    BY <1>1, <2>2, Nobody, SMTT(30)
  <2>4. stray' \in BOOLEAN /\ left' \in [Bounds -> Nat]
    BY <1>1, <1>2, <1>12, ZenonT(30) DEF Crash, AppType
  <2>5. phase' \in [Managers -> Phases]
    BY <1>1, <1>12, Phased DEF Crash, OwnerType, Phases
  <2>6. OwnerType' /\ AppType'
    BY <1>1, <2>1, <2>4, <2>5 DEF OwnerType, AppType
  <2> QED
    BY <1>1, <2>1, <2>3, <2>4, <2>6, Unchanged, TypesNext
<1>13. ASSUME LeaseLapses
       PROVE  TypeOK' /\ OpOK(op')
  <2>1. UNCHANGED <<phase, draining, run, op, app, store>> /\ lease' = None
    BY <1>13 DEF LeaseLapses
  <2>2. left' \in [Bounds -> Nat]
    BY <1>1, <1>2, <1>13 DEF LeaseLapses
  <2>3. op' \in OpRecords /\ OpOK(op') /\ OwnerType'
    BY <1>1, <2>1 DEF OwnerType
  <2> QED
    BY <1>1, <2>1, <2>2, <2>3, Unchanged, TypesNext
<1>14. ASSUME StrayEnds
       PROVE  TypeOK' /\ OpOK(op')
  <2>1. /\ UNCHANGED <<owner, run, op, serving, repair, pend, consumer, store, left>>
        /\ stray' = FALSE
    BY <1>14 DEF StrayEnds
  <2>2. op' \in OpRecords /\ OpOK(op') /\ AppType'
    BY <1>1, <2>1 DEF AppType
  <2> QED
    BY <1>1, <2>1, <2>2, Unchanged, TypesNext
<1> QED
  BY <1>3, <1>4, <1>5, <1>6, <1>7, <1>8, <1>9, <1>10, <1>11, <1>12, <1>13, <1>14, Kinds

-----------------------------------------------------------------------------
(* A run by itself.                                                        *)

\* A run that leaves, and the one that gets its slot, are in order by themselves.
LEMMA LeftOK ==
    ASSUME RunInv, NEW r \in Runs, Left(r)
    PROVE  RunInv'
<1>1. ASSUME NEW q \in Runs
      PROVE  RunOK(run'[q])
  <2>1. CASE q = r
    BY <2>1, Nobody DEF Left
  <2>2. CASE q # r /\ run'[q] = run[q]
    BY <2>2 DEF RunInv
  <2>3. CASE q # r /\ Together(q, r) /\ Succeeds(run[q], run'[q])
    <3>1. RunOK(run[q])
      BY DEF RunInv
    <3> QED
      BY <2>3, <3>1 DEF RunOK, Succeeds, Keeps, Sharing, Holding, Tree, Admitted, Past
  <2> QED
    BY <2>1, <2>2, <2>3 DEF Left
<1> QED
  BY <1>1 DEF RunInv

\* r goes from one place of its way to another.
LEMMA GoesOK ==
    ASSUME RunInv, NEW r \in Runs, NEW pc, Goes(r, pc),
           \/ run[r].pc = "called" /\ pc = "admission"
           \/ run[r].pc = "admission" /\ run[r].kind = "cron" /\ pc = "door"
           \/ pc = run[r].pc
           \/ run[r].pc = "gate" /\ pc = "ready"
           \/ /\ run[r].pc \in {"ready", "fence", "file", "clients"} /\ run[r].row
              /\ pc \in {"fence", "running"}
           \/ run[r].pc = "fence" /\ pc = "file"
           \/ run[r].pc = "file" /\ run[r].kind = "candidate" /\ pc = "clients"
           \/ run[r].pc = "running" /\ pc \in {"succeeded", "broken"}
           \/ run[r].pc = "orphan" /\ run[r].row /\ pc = "dead"
    PROVE  RunInv'
<1>1. RunOK(run[r])
  BY DEF RunInv
<1>2. RunOK(run'[r])
  BY <1>1 DEF RunOK, Goes, Same, Keeps, Sharing, Holding, Tree, Admitted, Past
<1>3. ASSUME NEW q \in Runs
      PROVE  RunOK(run'[q])
  BY <1>2 DEF RunInv, Goes, Others
<1> QED
  BY <1>3 DEF RunInv

\* Every step keeps every run in order by itself.
LEMMA RunStep ==
    ASSUME TypeOK, RunInv, JobsInv, OpOK(op), Next
    PROVE  RunInv'
<1>1. run \in [Runs -> RunRecords]
  BY TypesByName
<1>2. ASSUME UNCHANGED run
      PROVE  RunInv'
  BY <1>2 DEF RunInv
<1>3. ASSUME NEW r \in Runs, Others(r), RunOK(run'[r])
      PROVE  RunInv'
  <2>1. ASSUME NEW q \in Runs
        PROVE  RunOK(run'[q])
    BY <1>3 DEF RunInv, Others
  <2> QED
    BY <2>1 DEF RunInv
<1>4. ASSUME NEW r \in Runs, Admission(r)
      PROVE  RunInv'
  <2>1. CASE Begin(r) \/ TakeAdmission(r) \/ EnterGate(r) \/ Cancel(r)
    BY <1>4, <2>1, AdmissionEffects, LeftOK, GoesOK DEF Begin, TakeAdmission, EnterGate, Cancel
  <2>2. CASE TakePublicationGate(r)
    BY <2>2, AdmissionEffects, GoesOK DEF TakePublicationGate
  <2>3. CASE Admit(r)
    <3>1. \/ Left(r)
          \/ /\ Others(r) /\ Keeps(run[r], run'[r]) /\ run'[r].pc = "inserted"
             /\ run'[r].row /\ run'[r].place = Place(run[r].m, run[r].s)
             /\ run'[r].place # "refused"
      BY <2>3, AdmissionEffects
    <3>2. RunOK(run[r]) /\ run[r].pc = "door"
      BY <2>3 DEF RunInv, Admit
    <3>3. run[r].s \notin Concurrent /\ Place(run[r].m, run[r].s) # "refused"
            => Place(run[r].m, run[r].s) # "none"
      BY DEF Place
    <3>4. run[r].kind = "cron"
      BY <3>2 DEF RunOK, Sharing, Holding, Tree
    <3> QED
      BY <1>3, <3>1, <3>2, <3>3, <3>4, LeftOK
         DEF RunOK, Keeps, Sharing, Holding, Tree, Admitted, Past
  <2>4. CASE AdmitRequired(r)
    <3>1. \/ Left(r)
          \/ /\ Others(r) /\ Keeps(run[r], run'[r]) /\ run'[r].pc = "inserted"
             /\ run'[r].row /\ run'[r].place = run[r].place
      BY <2>4, AdmissionEffects
    <3>2. RunOK(run[r]) /\ run[r].pc = "admission" /\ run[r].kind = "required"
      BY <2>4 DEF RunInv, AdmitRequired
    <3> QED
      BY <1>3, <3>1, <3>2, LeftOK
         DEF RunOK, Keeps, Sharing, Holding, Tree, Admitted, Past
  <2> QED
    BY <1>4, <2>1, <2>2, <2>3, <2>4 DEF Admission
<1>5. ASSUME NEW r \in Runs, NEW pc \in {"fence", "running"}, Passes(r, pc),
             run[r].pc \in {"ready", "fence", "file", "clients"}
      PROVE  RunInv'
  <2>1. Left(r) \/ (Goes(r, pc) /\ run[r].row)
    BY <1>5 DEF Passes, StillCurrent
  <2> QED
    BY <1>5, <2>1, LeftOK, GoesOK
<1>6. ASSUME NEW r \in Runs, Execution(r)
      PROVE  RunInv'
  <2>1. CASE Commit(r)
    <3>1. Commits(r) /\ run[r].pc = "inserted" /\ RunOK(run[r])
      BY <2>1, CommitEffect DEF Commit, RunInv
    <3>2. CASE Left(r)
      BY <3>2, LeftOK
    <3>3. CASE ~Left(r)
      <4>1. RunOK(run'[r])
        BY <1>1, <3>1, <3>3 DEF Commits, RunRecords, RunOK, Keeps,
                Sharing, Holding, Tree, Admitted, Past
      <4> QED
        BY <1>3, <3>1, <3>3, <4>1 DEF Commits
    <3> QED
      BY <3>2, <3>3
  <2>2. CASE Execute(r) \/ TakeConsumers(r)
    <3>1. \E pc \in {"fence", "running"} : Passes(r, pc)
      BY <2>2, ExecutionEffects
    <3>2. run[r].pc \in {"ready", "clients"}
      BY <2>2 DEF Execute, TakeConsumers
    <3> QED
      BY <1>5, <3>1, <3>2
  <2>3. CASE TakePublicationFile(r)
    <3>1. \/ Passes(r, "running")
          \/ run[r].kind = "candidate" /\ Goes(r, "clients")
      BY <2>3, ExecutionEffects
    <3>2. run[r].pc = "file"
      BY <2>3 DEF TakePublicationFile
    <3> QED
      BY <1>5, <3>1, <3>2, GoesOK
  <2>4. CASE Abandon(r) \/ Complete(r)
    BY <2>4, ExecutionEffects, LeftOK
  <2>5. CASE \E ok \in BOOLEAN : TreeEnds(r, ok) \/ OrphanEnds(r, ok)
    <3>1. \/ Left(r)
          \/ run[r].pc = "running" /\ \E pc \in {"succeeded", "broken"} : Goes(r, pc)
          \/ run[r].pc = "orphan" /\ run[r].row /\ Goes(r, "dead")
      BY <2>5, ExecutionEffects DEF TreeEnds, OrphanEnds
    <3> QED
      BY <3>1, LeftOK, GoesOK
  <2> QED
    BY <1>6, <2>1, <2>2, <2>3, <2>4, <2>5 DEF Execution
<1>7. ASSUME NEW m \in Managers, NEW s \in Schedules, NEW kind \in {"cron", "required"},
             Call(m, s, kind)
      PROVE  RunInv'
  <2>1. PICK r \in Runs :
          /\ Arrives(r) /\ run'[r].pc = "called" /\ run'[r].m = m /\ run'[r].s = s
          /\ run'[r].kind = kind /\ (kind = "required" => s \in Publishing)
          /\ run'[r].place = "none"
    BY <1>7, CallEffect
  <2>2. RunOK(run'[r])
    BY <2>1 DEF RunOK, Sharing, Holding, Tree, Admitted, Past
  <2> QED
    BY <1>3, <2>1, <2>2 DEF Arrives
<1>8. ASSUME Produce
      PROVE  RunInv'
  <2>1. CASE run' = run
    BY <1>2, <2>1
  <2>2. CASE run' # run
    <3>1. PICK r \in Runs :
            /\ Arrives(r) /\ run'[r].pc = "inserted" /\ run'[r].kind = "candidate"
            /\ run'[r].m = op.m /\ run'[r].s \in Publishing
            /\ run'[r].place = "none" /\ run'[r].row
      BY <1>8, <2>2, ProduceEffect
    <3>2. op.m \in Managers /\ Publishing \subseteq Schedules
      BY <1>8, ScheduleAssumption DEF Produce, OpOK, NoOp
    <3>3. RunOK(run'[r])
      BY <3>1, <3>2 DEF RunOK, Sharing, Holding, Tree, Admitted, Past
    <3> QED
      BY <1>3, <3>1, <3>3 DEF Arrives
  <2> QED
    BY <2>1, <2>2
<1>9. ASSUME NEW m \in Managers, Retires(m)
      PROVE  RunInv'
  <2>1. Retire(m)
    BY <1>9 DEF Retires, NoticeLoss, HandOver
  <2>2. ASSUME NEW q \in Runs
        PROVE  RunOK(run'[q])
    <3>1. RunOK(run[q])
      BY DEF RunInv
    <3>2. \/ run'[q] = run[q]
          \/ Same(run[q], run'[q]) /\ run'[q].pc = run[q].pc
      BY <2>1, DrainedEffect
    <3> QED
      BY <3>1, <3>2 DEF RunOK, Same, Keeps
  <2> QED
    BY <2>2 DEF RunInv
<1>10. ASSUME NEW m \in Managers, Mark(m), JobsInv
       PROVE  RunInv'
  <2>1. ASSUME NEW q \in Runs
        PROVE  RunOK(run'[q])
    <3>1. RunOK(run[q])
      BY DEF RunInv
    <3>2. run[q].pc \notin Sharing
      BY <1>10 DEF JobsInv, JobsHeldEx, Mark, Fencing, Fleet, In
    <3>3. \/ run'[q] = NoRun
          \/ /\ run[q].pc # "dead" /\ Keeps(run[q], run'[q])
             /\ run'[q].pc = run[q].pc /\ run'[q].place = run[q].place /\ ~run'[q].row
      BY <1>10, MarkEffect
    <3> QED
      BY <3>1, <3>2, <3>3, Nobody DEF RunOK, Keeps, Sharing
  <2> QED
    BY <2>1 DEF RunInv
<1>11. ASSUME NEW m \in Managers, Crash(m)
       PROVE  RunInv'
  <2>1. ASSUME NEW q \in Runs
        PROVE  RunOK(run'[q])
    <3>1. RunOK(run[q])
      BY DEF RunInv
    <3>2. \/ run'[q] = run[q]
          \/ run'[q] = NoRun
          \/ /\ Keeps(run[q], run'[q]) /\ run'[q].row = run[q].row
             /\ run'[q].place = "none"
             /\ \/ run[q].pc = "running" /\ run'[q].pc = "orphan"
                \/ run[q].pc \notin Tree /\ run[q].row /\ run'[q].pc = "dead"
      BY <1>11, CrashEffect
    <3> QED
      BY <3>1, <3>2, Nobody DEF RunOK, Keeps, Sharing, Holding, Tree, Admitted, Past
  <2> QED
    BY <2>1 DEF RunInv
<1>12. CASE Deployment \/ Start \/ LeaseLapses \/ StrayEnds
            \/ \E m \in Managers : Ownership(m)
  BY <1>2, <1>12, Frames
<1> QED
  BY <1>4, <1>6, <1>7, <1>8, <1>9, <1>10, <1>11, <1>12, Kinds

-----------------------------------------------------------------------------
(* The execution slot and the queue place of a schedule.                   *)

\* Who keeps a place keeps his manager and schedule.
LEMMA PlaceKept ==
    ASSUME PlaceInv,
           \A q \in Runs :
             \/ run'[q].place = "none"
             \/ /\ run'[q].place = run[q].place
                /\ run'[q].m = run[q].m /\ run'[q].s = run[q].s
    PROVE  PlaceInv'
BY DEF PlaceInv, Together

\* One run gets a place that nobody had.
LEMMA PlaceTaken ==
    ASSUME PlaceInv, NEW r \in Runs, Others(r), Keeps(run[r], run'[r]),
           \A q \in At(run[r].m, run[r].s) : run[q].place # run'[r].place
    PROVE  PlaceInv'
<1>1. ASSUME NEW p \in Runs, NEW q \in Runs, Together(p, q)'
      PROVE  run'[p].place = "none" \/ run'[p].place # run'[q].place
  BY <1>1 DEF PlaceInv, Together, Others, Keeps, At
<1> QED
  BY <1>1 DEF PlaceInv

\* A run that leaves frees the slot for one run at most.
LEMMA PlaceLeft ==
    ASSUME RunInv, PlaceInv, NEW r \in Runs, Left(r)
    PROVE  PlaceInv'
<1>1. ASSUME NEW p \in Runs, NEW q \in Runs, Together(p, q)'
      PROVE  run'[p].place = "none" \/ run'[p].place # run'[q].place
  <2>1. CASE p = r \/ q = r
    BY <1>1, <2>1, Nobody DEF Left, Together
  <2>2. CASE p # r /\ q # r /\ run'[p] = run[p] /\ run'[q] = run[q]
    BY <1>1, <2>2 DEF PlaceInv, Together
  <2>3. ASSUME NEW x \in Runs \ {r}, NEW y \in Runs \ {r}, x # y,
               Together(x, r), Succeeds(run[x], run'[x]), run[r].place = "slot",
               run'[y].m = run'[x].m, run'[y].s = run'[x].s
        PROVE  run'[y].place # "slot"
    <3>1. Keeps(run[x], run'[x]) /\ RunOK(run[x]) /\ run[x].place = "queue"
      BY <2>3 DEF Succeeds, RunInv, RunOK
    <3>2. CASE run'[y] = run[y]
      <4>1. Together(y, r)
        BY <2>3, <3>1, <3>2 DEF Keeps, Together
      <4> QED
        BY <2>3, <3>2, <4>1 DEF PlaceInv
    <3>3. CASE Succeeds(run[y], run'[y]) /\ Together(y, r)
      <4>1. run[y].place = "queue"
        BY <3>3 DEF Succeeds, RunInv, RunOK
      <4>2. Together(x, y)
        BY <2>3, <3>3 DEF Together
      <4> QED
        BY <3>1, <4>1, <4>2 DEF PlaceInv
    <3> QED
      BY <3>2, <3>3 DEF Left
  <2>4. CASE /\ p # r /\ q # r
             /\ run[r].place = "slot" /\ Together(p, r) /\ Succeeds(run[p], run'[p])
    <3>1. run'[q].place # "slot"
      BY <1>1, <2>3, <2>4 DEF Together
    <3> QED
      BY <2>4, <3>1 DEF Succeeds
  <2>5. CASE /\ p # r /\ q # r
             /\ run[r].place = "slot" /\ Together(q, r) /\ Succeeds(run[q], run'[q])
    <3>1. run'[p].place # "slot"
      BY <1>1, <2>3, <2>5 DEF Together
    <3> QED
      BY <2>5, <3>1 DEF Succeeds
  <2> QED
    BY <2>1, <2>2, <2>4, <2>5 DEF Left
<1> QED
  BY <1>1 DEF PlaceInv

\* Every step keeps one run per slot and one per queue (lockFor, queueChan).
LEMMA PlaceStep ==
    ASSUME TypeOK, RunInv, PlaceInv, OpOK(op), Next
    PROVE  PlaceInv'
<1>1. ASSUME NEW r \in Runs, NEW pc, Goes(r, pc)
      PROVE  PlaceInv'
  <2>1. \A q \in Runs : /\ run'[q].place = run[q].place
                        /\ run'[q].m = run[q].m /\ run'[q].s = run[q].s
    BY <1>1 DEF Goes, Others, Same, Keeps
  <2> QED
    BY <2>1, PlaceKept
<1>2. ASSUME NEW r \in Runs, NEW pc, Passes(r, pc)
      PROVE  PlaceInv'
  BY <1>1, <1>2, PlaceLeft DEF Passes
<1>3. ASSUME NEW r \in Runs, Others(r), run'[r].place = "none"
      PROVE  PlaceInv'
  <2>1. \A q \in Runs : \/ run'[q].place = "none"
                        \/ /\ run'[q].place = run[q].place
                           /\ run'[q].m = run[q].m /\ run'[q].s = run[q].s
    BY <1>3 DEF Others
  <2> QED
    BY <2>1, PlaceKept
<1>4. ASSUME NEW r \in Runs, Others(r), Keeps(run[r], run'[r]),
             run'[r].place = run[r].place
      PROVE  PlaceInv'
  <2>1. \A q \in Runs : /\ run'[q].place = run[q].place
                        /\ run'[q].m = run[q].m /\ run'[q].s = run[q].s
    BY <1>4 DEF Others, Keeps
  <2> QED
    BY <2>1, PlaceKept
<1>5. ASSUME NEW r \in Runs, Admission(r)
      PROVE  PlaceInv'
  <2>1. CASE Admit(r)
    <3>1. CASE Left(r)
      BY <3>1, PlaceLeft
    <3>2. CASE ~Left(r)
      <4>1. /\ Others(r) /\ Keeps(run[r], run'[r])
            /\ run'[r].place = Place(run[r].m, run[r].s) /\ run'[r].place # "refused"
        BY <2>1, <3>2, AdmissionEffects
      <4>2. \/ run'[r].place = "none"
            \/ run'[r].place = "slot" /\ SlotFree(run[r].m, run[r].s)
            \/ run'[r].place = "queue" /\ QueueFree(run[r].m, run[r].s)
        BY <4>1 DEF Place
      <4> QED
        BY <1>3, <4>1, <4>2, PlaceTaken DEF SlotFree, QueueFree
    <3> QED
      BY <3>1, <3>2
  <2>2. CASE AdmitRequired(r)
    BY <1>4, <2>2, AdmissionEffects, PlaceLeft
  <2>3. CASE Begin(r) \/ TakeAdmission(r) \/ EnterGate(r) \/ TakePublicationGate(r)
             \/ Cancel(r)
    BY <1>1, <2>3, AdmissionEffects, PlaceLeft
  <2> QED
    BY <1>5, <2>1, <2>2, <2>3 DEF Admission
<1>6. ASSUME NEW r \in Runs, Execution(r)
      PROVE  PlaceInv'
  <2>1. CASE Commit(r)
    <3>1. CASE Left(r)
      BY <3>1, PlaceLeft
    <3>2. CASE ~Left(r)
      <4>1. /\ Others(r) /\ Keeps(run[r], run'[r])
            /\ \/ run'[r].place = run[r].place
               \/ SlotFree(run[r].m, run[r].s) /\ run'[r].place = "slot"
        BY <2>1, <3>2, CommitEffect DEF Commits
      <4> QED
        BY <1>4, <4>1, PlaceTaken DEF SlotFree
    <3> QED
      BY <3>1, <3>2
  <2>2. CASE Execute(r) \/ TakePublicationFile(r) \/ TakeConsumers(r)
    BY <1>1, <1>2, <2>2, ExecutionEffects
  <2>3. CASE Abandon(r) \/ Complete(r)
    BY <2>3, ExecutionEffects, PlaceLeft
  <2>4. CASE \E ok \in BOOLEAN : TreeEnds(r, ok) \/ OrphanEnds(r, ok)
    BY <1>1, <2>4, ExecutionEffects, PlaceLeft
  <2> QED
    BY <1>6, <2>1, <2>2, <2>3, <2>4 DEF Execution
<1>7. ASSUME NEW m \in Managers, NEW s \in Schedules, NEW kind \in {"cron", "required"},
             Call(m, s, kind)
      PROVE  PlaceInv'
  BY <1>3, <1>7, CallEffect DEF Arrives
<1>8. ASSUME UNCHANGED run
      PROVE  PlaceInv'
  BY <1>8 DEF PlaceInv, Together
<1>9. ASSUME Produce
      PROVE  PlaceInv'
  BY <1>3, <1>8, <1>9, ProduceEffect DEF Arrives
<1>10. ASSUME NEW m \in Managers, Retires(m)
       PROVE  PlaceInv'
  <2>1. Retire(m)
    BY <1>10 DEF Retires, NoticeLoss, HandOver
  <2>2. \A q \in Runs : /\ run'[q].place = run[q].place
                        /\ run'[q].m = run[q].m /\ run'[q].s = run[q].s
    BY <2>1, DrainedEffect DEF Same, Keeps
  <2> QED
    BY <2>2, PlaceKept
<1>11. ASSUME NEW m \in Managers, Mark(m) \/ Crash(m)
       PROVE  PlaceInv'
  <2>1. ASSUME NEW q \in Runs
        PROVE  \/ run'[q].place = "none"
               \/ /\ run'[q].place = run[q].place
                  /\ run'[q].m = run[q].m /\ run'[q].s = run[q].s
    <3>1. CASE Mark(m)
      BY <3>1, MarkEffect, Nobody DEF Keeps
    <3>2. CASE Crash(m)
      BY <3>2, CrashEffect, Nobody DEF Keeps
    <3> QED
      BY <1>11, <3>1, <3>2
  <2> QED
    BY <2>1, PlaceKept
<1>12. CASE \/ Deployment \/ Start \/ LeaseLapses \/ StrayEnds
            \/ \E m \in Managers : Ownership(m)
  BY <1>8, <1>12, Frames
<1> QED
  BY <1>5, <1>6, <1>7, <1>9, <1>10, <1>11, <1>12, Kinds

-----------------------------------------------------------------------------
(* The flocks and the fleet fence.                                         *)

\* Who holds jobs.lock after a step held it before, or takes it.
LEMMA Footprint ==
    ASSUME TypeOK, OpOK(op), Next, NEW q \in Runs, run'[q].pc \in Sharing
    PROVE  /\ Keeps(run[q], run'[q]) /\ run'[q].ver = run[q].ver
           /\ \/ /\ Execute(q) /\ run[q].pc = "ready"
                 /\ run'[q].pc = IF Publishes(q) THEN "fence" ELSE "running"
              \/ /\ TakePublicationFile(q) /\ run[q].pc = "file"
                 /\ run'[q].pc = IF run[q].kind = "candidate" THEN "clients" ELSE "running"
              \/ run[q].pc \in {"fence", "file"} /\ run'[q].pc \in {"fence", "file"}
              \/ /\ run[q].pc \in Holding /\ run'[q].pc \in Holding
                 /\ run'[q].pc \in Tree => run[q].pc \in Tree \/ TakeConsumers(q)
                 /\ run'[q].pc = "running" => run[q].pc = "running" \/ TakeConsumers(q)
                 /\ run'[q].pc = "succeeded" => run[q].pc = "succeeded" \/ TreeEnds(q, TRUE)
<1> DEFINE Kept == \/ run[q].pc \in {"fence", "file"} /\ run'[q].pc \in {"fence", "file"}
                   \/ /\ run[q].pc \in Holding /\ run'[q].pc \in Holding
                      /\ run'[q].pc \in Tree => run[q].pc \in Tree \/ TakeConsumers(q)
                      /\ run'[q].pc = "running" =>
                           run[q].pc = "running" \/ TakeConsumers(q)
                      /\ run'[q].pc = "succeeded" =>
                           run[q].pc = "succeeded" \/ TreeEnds(q, TRUE)
           Goal == /\ Keeps(run[q], run'[q]) /\ run'[q].ver = run[q].ver
                   /\ \/ /\ Execute(q) /\ run[q].pc = "ready"
                         /\ run'[q].pc = IF Publishes(q) THEN "fence" ELSE "running"
                      \/ /\ TakePublicationFile(q) /\ run[q].pc = "file"
                         /\ run'[q].pc = IF run[q].kind = "candidate" THEN "clients"
                                                                      ELSE "running"
                      \/ Kept
<1>1. ASSUME Keeps(run[q], run'[q]), run'[q].ver = run[q].ver, run'[q].pc = run[q].pc
      PROVE  Goal
  BY <1>1 DEF Sharing
<1>2. ASSUME run'[q] = run[q]
      PROVE  Goal
  BY <1>1, <1>2 DEF Keeps
<1>3. run'[q] # NoRun /\ run'[q].pc \notin {"called", "admission", "door", "inserted",
                                            "queued", "ready", "gate", "dead"}
  BY Nobody DEF Sharing, Holding, Tree
<1>4. ASSUME NEW r \in Runs, Left(r)
      PROVE  Goal
  BY <1>2, <1>3, <1>4 DEF Left, Succeeds
<1>5. ASSUME NEW r \in Runs, Others(r), r # q
      PROVE  Goal
  BY <1>2, <1>5 DEF Others
<1>6. ASSUME NEW r \in Runs, Admission(r)
      PROVE  Goal
  <2>1. CASE r # q
    BY <1>4, <1>5, <1>6, <2>1, AdmissionEffects DEF Admission, Goes
  <2>2. CASE r = q
    <3>1. CASE TakePublicationGate(r)
      BY <2>2, <3>1, AdmissionEffects DEF Goes, Same, TakePublicationGate
    <3>2. CASE Cancel(r)
      BY <1>1, <2>2, <3>2, AdmissionEffects DEF Goes, Same
    <3>3. CASE Begin(r) \/ TakeAdmission(r) \/ Admit(r) \/ AdmitRequired(r) \/ EnterGate(r)
      BY <1>3, <1>4, <2>2, <3>3, AdmissionEffects DEF Goes
    <3> QED
      BY <1>6, <3>1, <3>2, <3>3 DEF Admission
  <2> QED
    BY <2>1, <2>2
<1>7. ASSUME NEW r \in Runs, Execution(r)
      PROVE  Goal
  <2>1. CASE r # q
    <3>1. Commit(r) => Left(r) \/ Others(r)
      BY CommitEffect DEF Commits
    <3>2. ~Commit(r) => Left(r) \/ Others(r)
      BY <1>7, ExecutionEffects DEF Execution, Passes, Goes
    <3> QED
      BY <1>4, <1>5, <2>1, <3>1, <3>2
  <2>2. CASE r = q
    <3>1. CASE Left(r)
      BY <1>4, <3>1
    <3>2. CASE ~Left(r)
      <4>1. CASE Commit(r)
        BY <1>3, <2>2, <3>2, <4>1, CommitEffect DEF Commits
      <4>2. CASE Execute(r)
        BY <2>2, <3>2, <4>2, ExecutionEffects DEF Execute, Passes, Goes, Same
      <4>3. CASE TakePublicationFile(r)
        BY <2>2, <3>2, <4>3, ExecutionEffects DEF TakePublicationFile, Passes, Goes, Same
      <4>4. CASE TakeConsumers(r)
        BY <2>2, <3>2, <4>4, ExecutionEffects
           DEF TakeConsumers, Passes, Goes, Same, Holding, Tree
      <4>5. CASE \E ok \in BOOLEAN : TreeEnds(r, ok)
        BY <2>2, <3>2, <4>5, ExecutionEffects DEF TreeEnds, Goes, Same, Holding, Tree
      <4>6. CASE \E ok \in BOOLEAN : OrphanEnds(r, ok)
        BY <1>3, <2>2, <3>2, <4>6, ExecutionEffects DEF Goes
      <4> QED
        BY <1>7, <3>2, <4>1, <4>2, <4>3, <4>4, <4>5, <4>6, ExecutionEffects DEF Execution
    <3> QED
      BY <3>1, <3>2
  <2> QED
    BY <2>1, <2>2
<1>8. ASSUME NEW m \in Managers, NEW s \in Schedules, NEW kind \in {"cron", "required"},
             Call(m, s, kind)
      PROVE  Goal
  <2>1. PICK r \in Runs :
           /\ Arrives(r) /\ run'[r].pc = "called" /\ run'[r].m = m /\ run'[r].s = s
           /\ run'[r].kind = kind /\ (kind = "required" => s \in Publishing)
           /\ run'[r].place = "none"
    BY <1>8, CallEffect
  <2>2. r # q
    BY <1>3, <2>1
  <2>3. Others(r)
    BY <2>1 DEF Arrives
  <2> QED
    BY <1>5, <2>2, <2>3
<1>9. ASSUME Produce
      PROVE  Goal
  BY <1>2, <1>3, <1>5, <1>9, ProduceEffect DEF Arrives
<1>10. ASSUME NEW m \in Managers, Retires(m)
       PROVE  Goal
  BY <1>1, <1>2, <1>10, DrainedEffect DEF Retires, NoticeLoss, HandOver, Same
<1>11. ASSUME NEW m \in Managers, Mark(m)
       PROVE  Goal
  BY <1>1, <1>3, <1>11, MarkEffect
<1>12. ASSUME NEW m \in Managers, Crash(m)
       PROVE  Goal
  <2>1. CASE run'[q] = run[q]
    BY <1>2, <2>1
  <2>2. CASE run'[q] # run[q]
    BY <1>3, <1>12, <2>2, CrashEffect DEF Holding, Tree
  <2> QED
    BY <2>1, <2>2
<1>13. CASE \/ Deployment \/ Start \/ LeaseLapses \/ StrayEnds
            \/ \E m \in Managers : Ownership(m)
  BY <1>2, <1>13, Frames
<1> QED
  BY <1>6, <1>7, <1>8, <1>9, <1>10, <1>11, <1>12, <1>13, Kinds

\* Who holds the fleet fence, or the fences of a recovery, held them before or
\* takes them.
LEMMA PhaseSteps ==
    ASSUME TypeOK, Next
    PROVE  /\ JobsHeldEx' => JobsHeldEx \/ \E m \in Managers : TakeFences(m)
           /\ FleetHeld' => FleetHeld \/ \E m \in Managers : TakeFleet(m)
<1> DEFINE Goal == /\ JobsHeldEx' => JobsHeldEx \/ \E m \in Managers : TakeFences(m)
                   /\ FleetHeld' => FleetHeld \/ \E m \in Managers : TakeFleet(m)
<1>1. phase \in [Managers -> Phases]
  BY TypesByName
<1>2. ASSUME UNCHANGED phase
      PROVE  Goal
  BY <1>2 DEF JobsHeldEx, FleetHeld
<1>3. ASSUME NEW m \in Managers, \A n \in Managers \ {m} : phase'[n] = phase[n],
             phase'[m] \in Fencing => phase[m] \in Fencing,
             phase'[m] \in Fleet => phase[m] \in Fleet
      PROVE  Goal
  BY <1>3 DEF JobsHeldEx, FleetHeld
<1>4. ASSUME NEW m \in Managers, NEW p \in Phases, phase' = [phase EXCEPT ![m] = p],
             p \in Fencing => phase[m] \in Fencing, p \in Fleet => phase[m] \in Fleet
      PROVE  Goal
  BY <1>1, <1>3, <1>4, Phased
<1>5. {"acquired", "fence", "mark", "reconcile", "starting", "open", "standby", "down"}
        \subseteq Phases
  BY DEF Phases, Fleet
<1>6. ASSUME NEW m \in Managers, Ownership(m) \/ Retires(m) \/ Mark(m) \/ Crash(m)
      PROVE  Goal
  <2>1. CASE TakeFleet(m)
    <3>1. phase' = [phase EXCEPT ![m] = "fence"]
      BY <2>1 DEF TakeFleet
    <3>2. JobsHeldEx' => JobsHeldEx
      BY <1>1, <1>5, <3>1, Phased DEF JobsHeldEx, Fencing
    <3> QED
      BY <2>1, <3>2
  <2>2. CASE TakeFences(m)
    <3>1. FleetHeld' => FleetHeld
      BY <1>1, <1>5, <2>2, Phased DEF TakeFences, FleetHeld, Fleet
    <3> QED
      BY <2>2, <3>1
  <2>3. CASE AcquireLease(m)
    BY <1>4, <1>5, <2>3 DEF AcquireLease, Fencing, Fleet
  <2>4. CASE Mark(m) \/ Reconcile(m) \/ Open(m)
    BY <1>4, <1>5, <2>4 DEF Mark, Reconcile, Open, Fencing, Fleet
  <2>5. CASE DrainDone(m) \/ DrainGivesUp(m) \/ Restart(m) \/ Crash(m)
    BY <1>4, <1>5, <2>5, Zenon DEF DrainDone, DrainGivesUp, Restart, Crash, Fencing, Fleet
  <2>6. CASE Retires(m)
    <3>1. Retire(m)
      BY <2>6 DEF Retires, NoticeLoss, HandOver
    <3> QED
      BY <1>3, <3>1, Retiring DEF Fencing, Fleet
  <2> QED
    BY <1>6, <2>1, <2>2, <2>3, <2>4, <2>5, <2>6 DEF Ownership
<1>7. CASE \/ \E r \in Runs : Admission(r) \/ Execution(r)
           \/ \E m \in Managers, s \in Schedules, kind \in {"cron", "required"} :
                Call(m, s, kind)
           \/ Produce \/ Deployment \/ Start \/ LeaseLapses \/ StrayEnds
  BY <1>2, <1>7, Frames, ExecutionStore DEF owner
<1> QED
  BY <1>6, <1>7, Kinds

\* An operation that goes on was there before, or starts outside a recovery.
LEMMA OpFootprint ==
    ASSUME TypeOK, RunInv, OpOK(op), CandInv, Next
    PROVE  /\ op' # NoOp =>
                \/ op # NoOp
                \/ ~FleetHeld /\ UNCHANGED phase
           /\ op'.boot = "file" => op.boot = "file" \/ TakeBootFile
<1> DEFINE Goal == /\ op' # NoOp => \/ op # NoOp
                                    \/ ~FleetHeld /\ UNCHANGED phase
                   /\ op'.boot = "file" => op.boot = "file" \/ TakeBootFile
<1>1. op \in OpRecords
  BY TypesByName
<1>2. ASSUME NEW r \in Runs, Execution(r)
      PROVE  Goal
  <2>1. op' = op \/ Settles(r)
    BY <1>2, ExecutionOp
  <2>2. Candidate(r) => op # NoOp
    BY Nobody DEF CandInv
  <2> QED
    BY <2>1, <2>2 DEF Settles
<1>3. ASSUME Produce
      PROVE  Goal
  <2>1. op # NoOp
    BY <1>3, Nobody DEF Produce
  <2>2. \E pc \in {"producing", "fail"} : op' = [op EXCEPT !.pc = pc]
    BY <1>3, ProduceEffect
  <2>3. op'.boot = op.boot
    BY <1>1, <2>2, OpPc DEF OpGoes
  <2> QED
    BY <2>1, <2>3
<1>4. ASSUME Deployment
      PROVE  Goal
  <2>1. UNCHANGED phase
    BY <1>4, Frames DEF owner
  <2>2. CASE \E m \in Managers, v \in Versions : StartDeploy(m, v)
    BY <2>1, <2>2, GatesEffects DEF StartDeploy, Operates
  <2>3. CASE TakeAdmissions
    BY <2>3, GatesEffects, Nobody DEF TakeAdmissions, OpGoes
  <2>4. CASE TakeGates
    BY <2>4, GatesEffects, Nobody DEF TakeGates
  <2>5. CASE Converge
    BY <2>5, OpEffects, Nobody DEF Converge, OpGoes
  <2>6. CASE Plan \/ Prepare \/ PrepareFails \/ Produced \/ Fail
    BY <2>6, OpEffects, Nobody DEF OpGoes
  <2>7. CASE StopFails \/ Promote
    BY <2>7, OpEffects, Nobody
  <2> QED
    BY <1>4, <2>2, <2>3, <2>4, <2>5, <2>6, <2>7 DEF Deployment
<1>5. ASSUME Start
      PROVE  Goal
  <2>1. UNCHANGED phase
    BY <1>5, Frames DEF owner
  <2>2. CASE \E m \in Managers : StartWake(m)
    BY <2>1, <2>2, OpEffects DEF StartWake, Operates
  <2>3. CASE TakeBootGate
    BY <2>3, OpEffects, Nobody DEF TakeBootGate
  <2>4. CASE TakeBootFile
    BY <2>4, OpEffects, Nobody DEF TakeBootFile
  <2>5. CASE CheckCompatible
    BY <2>5, OpEffects, Nobody DEF CheckCompatible, OpGoes
  <2>6. CASE Boot
    BY <2>6, OpEffects, Nobody DEF Boot, OpGoes
  <2>7. CASE BootFails
    BY <2>7, OpEffects, Nobody DEF BootFails, OpGoes
  <2> QED
    BY <1>5, <2>2, <2>3, <2>4, <2>5, <2>6, <2>7 DEF Start
<1>6. ASSUME op' = op \/ op' = NoOp
      PROVE  Goal
  BY <1>6, Nobody
<1>7. CASE \/ \E r \in Runs : Admission(r)
           \/ \E m \in Managers, s \in Schedules, kind \in {"cron", "required"} :
                Call(m, s, kind)
           \/ \E m \in Managers : Ownership(m) \/ Retires(m) \/ Mark(m)
           \/ LeaseLapses \/ StrayEnds
  BY <1>6, <1>7, Frames, SMTT(30)
<1>8. CASE \E m \in Managers : Crash(m)
  BY <1>6, <1>8 DEF Crash
<1> QED
  BY <1>2, <1>3, <1>4, <1>5, <1>7, <1>8, Kinds

\* No step gives jobs.lock to a run while recovery holds it, nor to recovery while a
\* run does.
LEMMA JobsStep ==
    ASSUME TypeOK, RunInv, OpOK(op), JobsInv, Next
    PROVE  JobsInv'
<1> SUFFICES ASSUME JobsHeldEx', NEW q \in Runs, run'[q].pc \in Sharing
             PROVE  FALSE
  BY DEF JobsInv, In
<1>1. CASE \E m \in Managers : TakeFences(m)
  <2>1. In(Sharing) = {} /\ run' = run
    BY <1>1 DEF TakeFences, JobsHeldSh, Sharing, Holding, Tree
  <2> QED
    BY <2>1 DEF In
<1>2. CASE JobsHeldEx
  <2>1. run[q].pc \notin Sharing
    BY <1>2 DEF JobsInv, In
  <2>2. ~Execute(q)
    BY <1>2 DEF Execute
  <2> QED
    BY <2>1, <2>2, Footprint DEF Sharing
<1> QED
  BY <1>1, <1>2, PhaseSteps

\* No step begins an operation while recovery holds the fleet fence.
LEMMA FleetStep ==
    ASSUME TypeOK, RunInv, OpOK(op), CandInv, FleetInv, Next
    PROVE  FleetInv'
<1>1. CASE \E m \in Managers : TakeFleet(m)
  BY <1>1 DEF TakeFleet, FleetInv
<1>2. CASE FleetHeld /\ op' # NoOp
  <2>1. op = NoOp
    BY <1>2 DEF FleetInv
  <2> QED
    BY <1>2, <2>1, OpFootprint
<1> QED
  BY <1>1, <1>2, PhaseSteps DEF FleetInv

\* publication.lock has one writer, or a reader.
LEMMA FileStep ==
    ASSUME TypeOK, RunInv, OpOK(op), CandInv, JobsInv, FileInv, Next
    PROVE  FileInv'
<1>1. ASSUME NEW q \in Runs, q \in Publisher(Holding)'
      PROVE  \/ q \in Publisher(Holding)
             \/ TakePublicationFile(q)
  <2>1. run'[q].pc \in Holding /\ run'[q].s \in Publishing
    BY <1>1 DEF Publisher, In, Publishes
  <2>2. run'[q].pc \in Sharing
    BY <2>1 DEF Sharing
  <2>3. run'[q].s = run[q].s
    BY <2>2, Footprint DEF Keeps
  <2>4. run[q].pc \in Holding \/ TakePublicationFile(q)
    BY <2>1, <2>2, <2>3, Footprint DEF Publishes, Holding, Tree
  <2> QED
    BY <2>1, <2>3, <2>4 DEF Publisher, In, Publishes
<1>2. \A q \in Publisher(Holding)' : q \in Runs
  BY DEF Publisher, In
<1>3. ASSUME NEW r \in Runs, TakePublicationFile(r)
      PROVE  FileInv'
  <2>1. Publisher(Holding) = {} /\ ~JobsHeldEx /\ op.boot # "file"
    BY <1>3 DEF TakePublicationFile, FileHeldEx, FileHeldSh, Holding
  <2>2. \A q \in Runs \ {r} : ~TakePublicationFile(q)
    <3>1. ASSUME NEW q \in Runs \ {r}, TakePublicationFile(q)
          PROVE  FALSE
      <4>1. run'[q].pc # "file" /\ run[q].pc = "file"
        BY <3>1, ExecutionEffects, Nobody DEF TakePublicationFile, Passes, Left, Goes
      <4>2. run'[r].pc # "file" /\ run[r].pc = "file"
        BY <1>3, ExecutionEffects, Nobody DEF TakePublicationFile, Passes, Left, Goes
      <4>3. run'[q] = run[q] \/ run[q].pc = "queued"
        BY <1>3, <3>1, ExecutionEffects DEF Passes, Left, Goes, Others, Succeeds
      <4> QED
        BY <4>1, <4>3
    <3> QED
      BY <3>1
  <2>3. \A q \in Publisher(Holding)' : q = r
    BY <1>1, <1>2, <2>1, <2>2
  <2>4. op'.boot # "file"
    <3>1. op' = op \/ Settles(r)
      BY <1>3, ExecutionOp DEF Execution
    <3> QED
      BY <2>1, <3>1 DEF Settles
  <2> QED
    BY <2>3, <2>4 DEF FileInv
<1>4. ASSUME \A r \in Runs : ~TakePublicationFile(r)
      PROVE  FileInv'
  <2>1. \A q \in Publisher(Holding)' : q \in Publisher(Holding)
    BY <1>1, <1>2, <1>4
  <2>2. CASE op.boot = "file"
    <3>1. Publisher(Holding)' = {} /\ ~JobsHeldEx
      BY <2>1, <2>2 DEF FileInv
    <3>2. \A m \in Managers : ~TakeFences(m)
      BY <2>2 DEF TakeFences, FileHeldSh
    <3> QED
      BY <3>1, <3>2, PhaseSteps DEF FileInv
  <2>3. CASE TakeBootFile
    <3>1. Publisher(Holding) = {} /\ ~JobsHeldEx /\ UNCHANGED phase
      <4>1. Publisher({"clients", "succeeded", "broken"} \cup Tree) = {} /\ ~JobsHeldEx
        BY <2>3 DEF TakeBootFile, FileHeldEx
      <4> QED
        BY <2>3, <4>1 DEF TakeBootFile, owner, Holding
    <3>2. ~JobsHeldEx'
      BY <3>1 DEF JobsHeldEx
    <3> QED
      BY <2>1, <3>1, <3>2 DEF FileInv
  <2>4. CASE op'.boot # "file"
    BY <2>1, <2>4 DEF FileInv
  <2> QED
    BY <2>2, <2>3, <2>4, OpFootprint
<1> QED
  BY <1>3, <1>4

-----------------------------------------------------------------------------
(* Deployments, their rows, and their producers.                           *)

\* The row of a deployment, and that nothing serves after a failed barrier.
LEMMA PendStep ==
    ASSUME TypeOK, RunInv, OpOK(op), CandInv, FleetInv, PendInv, QuarantinedIsDown, Next
    PROVE  PendInv' /\ QuarantinedIsDown'
<1>1. op \in OpRecords /\ AppType /\ None \notin Versions
  BY TypesInParts, ScheduleAssumption
<1>2. /\ op.kind = "deploy" => Pending
      /\ op.kind = "none" => op = NoOp
  BY <1>1 DEF PendInv, OpOK, Pending, NoDeployment
<1>3. ASSUME UNCHANGED app, op' = op \/ op' = NoOp
      PROVE  PendInv' /\ QuarantinedIsDown'
  <2>1. QuarantinedIsDown'
    BY <1>3 DEF QuarantinedIsDown, app, Pending
  <2>2. PendInv'
    BY <1>3, Nobody DEF PendInv, app
  <2> QED
    BY <2>1, <2>2
<1>4. ASSUME UNCHANGED <<serving, repair, pend>>, consumer' = consumer \/ consumer' = None,
             Alike(op, op'),
             op'.pc \in {"produce", "producing"} => op.pc \in {"produce", "producing"},
             op'.pc \in {"admissions", "plan"} => op.pc \in {"admissions", "plan"},
             op.kind = "wake" /\ op'.pc = "boot" => op.pc = "boot"
      PROVE  PendInv' /\ QuarantinedIsDown'
  <2>1. QuarantinedIsDown'
    BY <1>4 DEF QuarantinedIsDown, Pending
  <2>2. PendInv'
    BY <1>4 DEF PendInv, Alike
  <2> QED
    BY <2>1, <2>2
<1>5. ASSUME NEW r \in Runs, Execution(r)
      PROVE  PendInv' /\ QuarantinedIsDown'
  <2>1. /\ UNCHANGED <<serving, repair, pend>>
        /\ consumer' = None \/ consumer' = consumer
        /\ op' = op \/ Settles(r)
    BY <1>5, ExecutionOp, ExecutionStore
  <2>2. CASE op' = op
    BY <1>4, <2>1, <2>2 DEF Alike
  <2>3. CASE Settles(r)
    BY <1>4, <2>1, <2>3 DEF Settles, CandInv
  <2> QED
    BY <2>1, <2>2, <2>3
<1>6. ASSUME Produce
      PROVE  PendInv' /\ QuarantinedIsDown'
  <2>1. \E pc \in {"producing", "fail"} : op' = [op EXCEPT !.pc = pc]
    BY <1>6, ProduceEffect
  <2>2. Alike(op, op') /\ op'.pc \in {"producing", "fail"}
    BY <1>1, <2>1, OpPc DEF OpGoes
  <2> QED
    BY <1>4, <1>6, <2>2, Frames DEF Produce, app
<1>7. ASSUME NEW m \in Managers, NEW v \in Versions, StartDeploy(m, v)
      PROVE  PendInv' /\ QuarantinedIsDown'
  <2> DEFINE b == repair \/ pend.barrier
             o == Pending
  <2>1. /\ op'.kind = "deploy" /\ op'.pc = "admissions" /\ op'.ver = v
    BY <1>7, GatesEffects
  <2>2. repair' = b /\ pend' = [ver |-> v, barrier |-> b, older |-> o] /\ consumer' = consumer
    BY <1>7 DEF StartDeploy
  <2>3. b /\ ~o => consumer = None
    BY DEF QuarantinedIsDown, Pending, NoDeployment
  <2> HIDE DEF b, o
  <2>4. pend'.ver = v /\ pend'.barrier = b /\ pend'.older = o
    BY <2>2
  <2>5. PendInv'
    BY <2>1, <2>2, <2>3, <2>4 DEF PendInv
  <2>6. Pending'
    BY <1>1, <2>4 DEF Pending, NoDeployment
  <2> QED
    BY <2>5, <2>6 DEF QuarantinedIsDown
<1>8. CASE TakeAdmissions \/ TakeGates
  <2>1. /\ Alike([op EXCEPT !.gates = op'.gates], op')
        /\ op.pc = "admissions" /\ op'.pc \in {"admissions", "plan"} /\ op.kind = "deploy"
        /\ op'.kind = "deploy" /\ op'.ver = op.ver
    BY <1>1, <1>2, <1>8, GatesEffects, Nobody
       DEF TakeAdmissions, TakeGates, OpGoes, Alike, OpRecords, OpOK
  <2>2. UNCHANGED app
    BY <1>8 DEF TakeAdmissions, TakeGates
  <2> QED
    BY <2>1, <2>2 DEF PendInv, QuarantinedIsDown, Pending, app
<1>9. CASE Plan \/ PrepareFails \/ Produced
  BY <1>4, <1>9, OpEffects DEF Plan, PrepareFails, Produced, OpGoes, app
<1>10. RowFails => /\ Pending' <=> pend.older
                   /\ pend'.barrier = FALSE
  <2>1. pend.older \in BOOLEAN
    BY <1>1 DEF AppType, Deployments
  <2>2. CASE pend.older = TRUE
    <3>1. RowFails => pend' = [ver |-> None, barrier |-> FALSE, older |-> TRUE]
      BY <2>2 DEF RowFails, NoDeployment
    <3>2. RowFails => pend'.older /\ pend'.barrier = FALSE
      BY <3>1
    <3>3. ~NoDeployment.older
      BY DEF NoDeployment
    <3>4. RowFails => pend' # NoDeployment
      BY <3>2, <3>3
    <3> QED
      BY <2>2, <3>2, <3>4 DEF Pending
  <2>3. CASE pend.older = FALSE
    <3>1. RowFails => pend' = NoDeployment
      BY <2>3 DEF RowFails, NoDeployment
    <3> QED
      BY <2>3, <3>1 DEF Pending, NoDeployment
  <2> QED
    BY <2>1, <2>2, <2>3
<1>11. CASE StopFails
  <2>1. /\ op.pc = "plan" /\ op.kind = "deploy" /\ op' = NoOp /\ RowFails
        /\ UNCHANGED <<repair, consumer>>
    BY <1>11, OpEffects DEF StopFails
  <2>2. repair /\ ~pend.older => consumer = None
    BY <2>1 DEF PendInv
  <2> QED
    BY <1>10, <2>1, <2>2, Nobody DEF PendInv, QuarantinedIsDown
<1>12. CASE Prepare
  <2> DEFINE b == pend.barrier \/ op.todo # {}
  <2>1. pend' = [pend EXCEPT !.barrier = b] /\ UNCHANGED <<serving, repair, consumer>>
    BY <1>12 DEF Prepare
  <2>2. /\ repair => b
        /\ op'.pc = "produce" => b
        /\ Alike(op, op') /\ op'.pc \in {"converge", "produce"} /\ op.kind = "deploy"
    BY <1>12, OpEffects DEF OpGoes, PendInv
  <2> HIDE DEF b
  <2>3. pend'.barrier = b /\ pend'.ver = pend.ver
    BY <1>1, <2>1 DEF AppType, Deployments
  <2>4. PendInv'
    BY <2>1, <2>2, <2>3 DEF PendInv, Alike
  <2>5. Pending'
    BY <1>1, <2>2, <2>4 DEF Pending, NoDeployment, PendInv, Alike, OpOK
  <2> QED
    BY <2>4, <2>5 DEF QuarantinedIsDown
<1>13. CASE Converge
  <2>1. op.kind = "deploy" /\ Alike(op, op') /\ UNCHANGED <<serving, repair, consumer>>
    BY <1>13, OpEffects DEF Converge, OpGoes
  <2>2. CASE pend' = pend /\ op'.pc \in {"fail", "boot"}
    BY <1>4, <2>1, <2>2
  <2>3. CASE pend' = [pend EXCEPT !.barrier = TRUE] /\ op'.pc = "produce"
    <3>1. pend'.barrier = TRUE /\ pend'.ver = pend.ver
      BY <1>1, <2>3 DEF AppType, Deployments
    <3>2. PendInv'
      BY <2>1, <2>3, <3>1 DEF PendInv, Alike
    <3>3. Pending'
      BY <3>1 DEF Pending, NoDeployment
    <3> QED
      BY <3>2, <3>3 DEF QuarantinedIsDown
  <2> QED
    BY <1>1, <1>13, <2>2, <2>3 DEF Converge, OpRecords
<1>14. CASE Promote
  BY <1>1, <1>14, Nobody DEF Promote, PendInv, QuarantinedIsDown
<1>15. CASE Fail
  <2>1. op.kind = "deploy" /\ RowFails
    BY <1>15, OpEffects DEF Fail
  <2>2. CASE pend.barrier
    BY <1>15, <2>2, Nobody DEF Fail, PendInv, QuarantinedIsDown
  <2>3. CASE ~pend.barrier
    <3>1. ~repair /\ UNCHANGED <<repair, serving>>
      BY <1>15, <2>1, <2>3 DEF PendInv, Fail
    <3>2. op'.kind = "wake" /\ op'.pc = "converge" /\ op'.ver = serving
      BY <1>1, <1>15, <2>3 DEF Fail, OpRecords
    <3> QED
      BY <3>1, <3>2 DEF PendInv, QuarantinedIsDown
  <2> QED
    BY <2>2, <2>3
<1>16. CASE \E m \in Managers : StartWake(m)
  <2>1. op'.kind = "wake" /\ op'.pc = "converge" /\ op'.ver = serving /\ UNCHANGED app
    BY <1>16, OpEffects DEF StartWake
  <2> QED
    BY <2>1 DEF PendInv, QuarantinedIsDown, app, Pending
<1>17. CASE TakeBootGate \/ TakeBootFile
  BY <1>4, <1>17, OpEffects DEF TakeBootGate, TakeBootFile, app
<1>18. CASE CheckCompatible
  <2>1. UNCHANGED app
    BY <1>18 DEF CheckCompatible
  <2>2. CASE op' = NoOp
    BY <1>3, <2>1, <2>2
  <2>3. CASE op' # NoOp
    <3>1. OpGoes("boot") /\ op.kind = "wake"
      BY <1>18, <2>3, OpEffects DEF CheckCompatible
    <3>2. ~repair /\ ~pend.barrier
      BY <1>18, <2>3 DEF CheckCompatible, Quarantined
    <3> QED
      BY <2>1, <3>1, <3>2 DEF PendInv, QuarantinedIsDown, app, Pending, OpGoes, Alike
  <2> QED
    BY <2>2, <2>3
<1>19. CASE Boot
  <2>1. CASE op.kind = "wake"
    <3>1. ~repair /\ UNCHANGED <<repair, pend>> /\ op' = NoOp
      BY <1>19, <2>1 DEF Boot, PendInv
    <3> QED
      BY <3>1, Nobody DEF PendInv, QuarantinedIsDown
  <2>2. CASE op.kind = "deploy" /\ OpGoes("promote")
    <3>1. Pending /\ UNCHANGED <<serving, repair, pend>>
      BY <1>2, <1>19, <2>2 DEF Boot
    <3> QED
      BY <2>2, <3>1 DEF PendInv, QuarantinedIsDown, Pending, OpGoes, Alike
  <2> QED
    BY <1>19, <2>1, <2>2, OpEffects
<1>20. CASE BootFails
  <2>1. UNCHANGED <<serving, repair, pend>> /\ consumer' = None
    BY <1>20 DEF BootFails
  <2>2. op' = NoOp \/ (op.kind = "deploy" /\ OpGoes("fail"))
    BY <1>20, OpEffects
  <2> QED
    BY <2>1, <2>2, Nobody DEF PendInv, QuarantinedIsDown, OpGoes, Alike
<1>21. ASSUME NEW m \in Managers, Reconcile(m)
       PROVE  PendInv' /\ QuarantinedIsDown'
  <2>1. op = NoOp /\ op' = op
    BY <1>21 DEF Reconcile, FleetInv, FleetHeld, Fleet
  <2>2. repair' => consumer' = None
    BY <1>21 DEF Reconcile
  <2> QED
    BY <2>1, <2>2, Nobody DEF PendInv, QuarantinedIsDown
<1>22. CASE \E m \in Managers : \/ AcquireLease(m) \/ TakeFleet(m) \/ TakeFences(m)
                                \/ Open(m) \/ DrainDone(m) \/ DrainGivesUp(m) \/ Restart(m)
  BY <1>3, <1>22 DEF AcquireLease, TakeFleet, TakeFences, Open, DrainDone, DrainGivesUp,
                     Restart
<1>23. CASE \/ \E r \in Runs : Admission(r)
            \/ \E m \in Managers, s \in Schedules, kind \in {"cron", "required"} :
                 Call(m, s, kind)
            \/ \E m \in Managers : Retires(m) \/ Mark(m)
            \/ LeaseLapses
  BY <1>3, <1>23, Frames
<1>24. CASE StrayEnds \/ \E m \in Managers : Crash(m)
  <2>1. UNCHANGED <<serving, repair, pend, consumer>> /\ (op' = op \/ op' = NoOp)
    BY <1>24, Zenon DEF StrayEnds, Crash
  <2> QED
    BY <2>1, Nobody DEF PendInv, QuarantinedIsDown, Pending
<1>25. CASE Deployment \/ Start
  BY <1>7, <1>8, <1>9, <1>11, <1>12, <1>13, <1>14, <1>15, <1>16, <1>17, <1>18, <1>19, <1>20,
     <1>25 DEF Deployment, Start
<1>26. CASE \E m \in Managers : Ownership(m)
  BY <1>21, <1>22, <1>26 DEF Ownership
<1> QED
  BY <1>5, <1>6, <1>23, <1>24, <1>25, <1>26, Kinds

\* A producer of a deployment was there before, or the deployment starts it.
LEMMA CandFootprint ==
    ASSUME TypeOK, RunInv, OpOK(op), Next, NEW q \in Runs, Candidate(q)'
    PROVE  \/ /\ Candidate(q) /\ Keeps(run[q], run'[q]) /\ run'[q].ver = run[q].ver
           \/ /\ Produce /\ run[q].pc = "idle" /\ Others(q)
              /\ op' = [op EXCEPT !.pc = "producing"]
              /\ run'[q].pc = "inserted" /\ run'[q].m = op.m /\ run'[q].ver = op.ver
<1> DEFINE Kept == /\ Candidate(q) /\ Keeps(run[q], run'[q]) /\ run'[q].ver = run[q].ver
           Goal == \/ Kept
                   \/ /\ Produce /\ run[q].pc = "idle" /\ Others(q)
                      /\ op' = [op EXCEPT !.pc = "producing"]
                      /\ run'[q].pc = "inserted" /\ run'[q].m = op.m /\ run'[q].ver = op.ver
<1>1. /\ run'[q].kind = "candidate" /\ run'[q].pc \notin {"dead", "orphan"}
      /\ run'[q] # NoRun
  BY Nobody DEF Candidate
<1>2. RunOK(run[q])
  BY DEF RunInv
<1>3. ASSUME run'[q] = run[q]
      PROVE  Goal
  BY <1>3 DEF Keeps, Candidate
<1>4. ASSUME NEW r \in Runs, Left(r)
      PROVE  Goal
  <2>1. ~Succeeds(run[q], run'[q])
    BY <1>1, <1>2 DEF Succeeds, Keeps, RunOK, Sharing, Holding, Tree
  <2> QED
    BY <1>1, <1>3, <1>4, <2>1 DEF Left
<1>5. ASSUME NEW r \in Runs, Others(r), r # q
      PROVE  Goal
  BY <1>3, <1>5 DEF Others
<1>6. ASSUME Keeps(run[q], run'[q]), run'[q].ver = run[q].ver,
             run[q].pc \notin {"dead", "orphan"}
      PROVE  Goal
  BY <1>1, <1>6 DEF Keeps, Candidate
<1>7. ASSUME NEW r \in Runs, Admission(r)
      PROVE  Goal
  <2>1. CASE r # q
    BY <1>4, <1>5, <1>7, <2>1, AdmissionEffects DEF Admission, Goes
  <2>2. CASE r = q
    <3>1. run[q].kind = "candidate" => run[q].pc \in {"inserted", "ready", "dead"} \cup Sharing
      BY <1>2 DEF RunOK
    <3>2. CASE TakePublicationGate(r) \/ Cancel(r)
      BY <1>6, <2>2, <3>2, AdmissionEffects
         DEF Goes, Same, TakePublicationGate, Cancel, Admitted
    <3>3. CASE Begin(r) \/ TakeAdmission(r) \/ Admit(r) \/ AdmitRequired(r) \/ EnterGate(r)
      <4>1. run[q].pc \in {"called", "admission", "door", "gate"}
        BY <2>2, <3>3 DEF Begin, TakeAdmission, Admit, AdmitRequired, EnterGate
      <4>2. run[q].kind # "candidate"
        BY <3>1, <4>1 DEF Sharing, Holding, Tree
      <4>3. Left(r) \/ Keeps(run[q], run'[q])
        BY <2>2, <3>3, AdmissionEffects DEF Goes, Same
      <4> QED
        BY <1>1, <1>4, <4>2, <4>3 DEF Keeps
    <3> QED
      BY <1>7, <3>2, <3>3 DEF Admission
  <2> QED
    BY <2>1, <2>2
<1>8. ASSUME NEW r \in Runs, Execution(r)
      PROVE  Goal
  <2>1. CASE Left(r)
    BY <1>4, <2>1
  <2>2. CASE ~Left(r)
    <3>1. /\ Others(r) /\ Keeps(run[r], run'[r]) /\ run'[r].ver = run[r].ver
      <4>1. CASE Commit(r)
        BY <2>2, <4>1, CommitEffect DEF Commits
      <4>2. CASE ~Commit(r)
        BY <1>8, <2>2, <4>2, ExecutionEffects DEF Execution, Passes, Goes, Same
      <4> QED
        BY <4>1, <4>2
    <3>2. CASE r # q
      BY <1>5, <3>1, <3>2
    <3>3. CASE r = q
      <4>1. run[r].pc \notin {"dead", "orphan"}
        <5>1. CASE \E ok \in BOOLEAN : OrphanEnds(r, ok)
          BY <1>1, <2>2, <3>3, <5>1, ExecutionEffects DEF Goes
        <5>2. CASE ~\E ok \in BOOLEAN : OrphanEnds(r, ok)
          BY <1>8, <5>2 DEF Execution, Commit, Execute, TakePublicationFile, TakeConsumers,
                            Abandon, Complete, TreeEnds, Waiting
        <5> QED
          BY <5>1, <5>2
      <4> QED
        BY <1>6, <3>1, <3>3, <4>1
    <3> QED
      BY <3>2, <3>3
  <2> QED
    BY <2>1, <2>2
<1>9. ASSUME NEW m \in Managers, NEW s \in Schedules, NEW kind \in {"cron", "required"},
             Call(m, s, kind)
      PROVE  Goal
  BY <1>1, <1>5, <1>9, CallEffect DEF Arrives
<1>10. ASSUME Produce
       PROVE  Goal
  <2>1. CASE run' = run
    BY <1>3, <2>1
  <2>2. CASE run' # run
    BY <1>5, <1>10, <2>2, ProduceEffect DEF Arrives
  <2> QED
    BY <2>1, <2>2
<1>11. ASSUME NEW m \in Managers, Retires(m)
       PROVE  Goal
  BY <1>3, <1>6, <1>11, DrainedEffect
     DEF Retires, NoticeLoss, HandOver, Same, Admitted
<1>12. ASSUME NEW m \in Managers, Mark(m)
       PROVE  Goal
  <2>1. CASE run'[q] = NoRun
    BY <1>1, <2>1
  <2>2. CASE run'[q] # NoRun
    <3>1. Keeps(run[q], run'[q]) /\ run'[q].ver = run[q].ver /\ run'[q].pc = run[q].pc
      BY <1>12, <2>2, MarkEffect
    <3> QED
      BY <1>1, <1>6, <3>1
  <2> QED
    BY <2>1, <2>2
<1>13. ASSUME NEW m \in Managers, Crash(m)
       PROVE  Goal
  BY <1>1, <1>3, <1>13, CrashEffect
<1>14. CASE \/ Deployment \/ Start \/ LeaseLapses \/ StrayEnds
            \/ \E m \in Managers : Ownership(m)
  BY <1>3, <1>14, Frames
<1> QED
  BY <1>7, <1>8, <1>9, <1>10, <1>11, <1>12, <1>13, <1>14, Kinds

\* A deployment that waits for a producer goes on when that ends.
LEMMA Producing ==
    ASSUME TypeOK, RunInv, OpOK(op), CandInv, Next, op.pc = "producing", op.kind = "deploy"
    PROVE  \/ op' = op
           \/ \E r \in Runs : Settles(r)
           \/ \E m \in Managers : Crash(m) /\ op.m = m
<1>1. op # NoOp
  BY Nobody
<1>2. ~Produce
  BY DEF Produce
<1>3. ~Deployment
  BY <1>1 DEF Deployment, StartDeploy, Operates, TakeAdmissions, TakeGates, Plan, StopFails,
              Prepare, PrepareFails, Produced, Converge, Promote, Fail
<1>4. ~Start
  BY <1>1 DEF Start, StartWake, Operates, TakeBootGate, TakeBootFile, CheckCompatible, Boot,
              BootFails
<1>5. ASSUME NEW r \in Runs, Execution(r)
      PROVE  op' = op \/ Settles(r)
  BY <1>5, ExecutionOp, SMTT(30)
<1>6. ASSUME NEW m \in Managers, Crash(m)
      PROVE  op' = op \/ op.m = m
  BY <1>6 DEF Crash
<1>7. CASE \/ \E r \in Runs : Admission(r)
           \/ \E m \in Managers, s \in Schedules, kind \in {"cron", "required"} :
                Call(m, s, kind)
           \/ \E m \in Managers : Ownership(m) \/ Retires(m) \/ Mark(m)
           \/ LeaseLapses \/ StrayEnds
  BY <1>7, Frames
<1> QED
  BY <1>2, <1>3, <1>4, <1>5, <1>6, <1>7, Kinds

\* Who comes up, recorded or not, boots behind publication.lock.
LEMMA ConsumerSteps ==
    ASSUME TypeOK, RunInv, OpOK(op), CandInv, Next
    PROVE  /\ consumer' # None => consumer # None \/ (op.pc = "boot" /\ op.boot = "file")
           /\ stray' => stray \/ op.boot = "file"
<1>1. /\ \A r \in Runs : Execution(r) => UNCHANGED stray /\ consumer' \in {consumer, None}
  BY ExecutionStore
<1>2. op.pc = "boot" => op.boot = "file"
  BY DEF OpOK
<1>3. Deployment => UNCHANGED stray /\ consumer' \in {consumer, None}
  BY DEF Deployment, StartDeploy, TakeAdmissions, TakeGates, Plan, StopFails, Prepare,
         PrepareFails, Produced, Converge, Promote, Fail, app
<1>4. Start => UNCHANGED stray /\ (consumer' \in {consumer, None} \/ op.pc = "boot")
  BY DEF Start, StartWake, TakeBootGate, TakeBootFile, CheckCompatible, Boot, BootFails, app
<1>5. ASSUME NEW m \in Managers, Ownership(m)
      PROVE  UNCHANGED stray /\ consumer' \in {consumer, None}
  BY <1>5 DEF Ownership, AcquireLease, TakeFleet, TakeFences, Reconcile, Open, DrainDone,
              DrainGivesUp, Restart, app
<1>6. ASSUME NEW m \in Managers, Crash(m)
      PROVE  UNCHANGED consumer /\ (stray' => stray \/ op.pc = "boot")
  <2>1. UNCHANGED consumer
    BY <1>6, Frames, SMTT(30)
  <2>2. stray' => stray \/ op.pc = "boot"
    BY <1>6 DEF Crash
  <2> QED
    BY <2>1, <2>2
<1>7. CASE \/ \E r \in Runs : Admission(r)
           \/ \E m \in Managers, s \in Schedules, kind \in {"cron", "required"} :
                Call(m, s, kind)
           \/ \E m \in Managers : Retires(m) \/ Mark(m)
           \/ LeaseLapses \/ Produce
  BY <1>7, Frames DEF app
<1>8. CASE StrayEnds
  BY <1>8 DEF StrayEnds
<1> QED
  BY <1>1, <1>2, <1>3, <1>4, <1>5, <1>6, <1>7, <1>8, Kinds

\* Every step keeps the candidate producer the one its deployment waits for, with no
\* consumer beside its tree.
LEMMA CandStep ==
    ASSUME TypeOK, RunInv, OpOK(op), CandInv, FileInv, Next
    PROVE  CandInv'
<1>1. ASSUME NEW r \in Runs, Candidate(r)'
      PROVE  /\ op'.kind = "deploy" /\ op'.pc = "producing"
             /\ run'[r].m = op'.m /\ run'[r].ver = op'.ver
  <2>1. CASE Candidate(r) /\ Keeps(run[r], run'[r]) /\ run'[r].ver = run[r].ver
    <3>1. /\ op.kind = "deploy" /\ op.pc = "producing"
          /\ run[r].m = op.m /\ run[r].ver = op.ver
      BY <2>1 DEF CandInv
    <3>2. \A q \in Runs : ~Settles(q)
      <4>1. ASSUME NEW q \in Runs, Settles(q)
            PROVE  FALSE
        <5>1. q = r
          BY <2>1, <4>1 DEF CandInv, Settles
        <5> QED
          BY <1>1, <4>1, <5>1, Nobody DEF Settles, Left, Candidate
      <4> QED
        BY <4>1
    <3>3. \A m \in Managers : ~(Crash(m) /\ op.m = m)
      <4>1. ASSUME NEW m \in Managers, Crash(m), op.m = m
            PROVE  FALSE
        BY <1>1, <2>1, <3>1, <4>1, CrashEffect, Nobody DEF Candidate
      <4> QED
        BY <4>1
    <3>4. op' = op
      BY <3>1, <3>2, <3>3, Producing
    <3> QED
      BY <2>1, <3>1, <3>4 DEF Keeps
  <2>2. CASE /\ Produce /\ op' = [op EXCEPT !.pc = "producing"]
             /\ run'[r].m = op.m /\ run'[r].ver = op.ver
    <3>1. OpGoes("producing")
      BY <2>2, OpPc, TypesInParts
    <3>2. op.kind = "deploy"
      BY <2>2, TypesInParts DEF Produce, OpOK, OpRecords, NoOp
    <3> QED
      BY <2>2, <3>1, <3>2 DEF OpGoes, Alike
  <2> QED
    BY <1>1, <2>1, <2>2, CandFootprint
<1>2. ASSUME NEW q \in Runs, NEW r \in Runs, Candidate(q)', Candidate(r)', q # r
      PROVE  FALSE
  <2>1. ~(Candidate(q) /\ Candidate(r))
    BY <1>2 DEF CandInv
  <2>2. Produce => ~Candidate(q) /\ ~Candidate(r)
    BY DEF Produce, CandInv
  <2>3. /\ Produce /\ run[q].pc = "idle" /\ Others(q)
        /\ run[r].pc = "idle" /\ run'[r].pc = "inserted"
    BY <1>2, <2>1, <2>2, CandFootprint
  <2> QED
    BY <1>2, <2>3 DEF Others
<1>3. ASSUME NEW r \in Runs, run'[r].kind = "candidate", run'[r].pc \in Tree
      PROVE  consumer' = None /\ ~stray'
  <2>1. run'[r].pc \in Sharing
    BY <1>3 DEF Sharing, Holding
  <2>2. run[r].kind = "candidate" /\ run[r].s \in Publishing
    BY <1>3, <2>1, Footprint DEF Keeps, RunInv, RunOK
  <2>3. run[r].pc \in Tree \/ TakeConsumers(r)
    BY <1>3, <2>1, <2>2, Footprint DEF Publishes, Tree
  <2>4. CASE TakeConsumers(r)
    <3>1. UNCHANGED app /\ consumer = None /\ ~stray
      BY <2>4 DEF TakeConsumers, Pass, ConsumersFree
    <3> QED
      BY <3>1 DEF app
  <2>5. CASE run[r].pc \in Tree
    <3>1. r \in Publisher(Holding)
      BY <2>2, <2>5 DEF Publisher, In, Publishes, Holding
    <3>2. op.boot # "file"
      BY <3>1 DEF FileInv
    <3>3. consumer = None /\ ~stray
      BY <2>2, <2>5 DEF CandInv
    <3> QED
      BY <3>2, <3>3, ConsumerSteps
  <2> QED
    BY <2>3, <2>4, <2>5
<1> QED
  BY <1>1, <1>2, <1>3 DEF CandInv

-----------------------------------------------------------------------------
(* The producer gates.                                                     *)

\* Who has a gate after a step had it before, or found it free.
LEMMA GateFootprint ==
    ASSUME TypeOK, RunInv, OpOK(op), Next, NEW q \in Runs, Reads(q)' \/ Writes(q)'
    PROVE  /\ Keeps(run[q], run'[q])
           /\ Reads(q)' =>
                \/ Reads(q)
                \/ UNCHANGED op /\ Others(q) /\ ~GateWritten(run[q].m, run[q].s)
           /\ Writes(q)' =>
                \/ Writes(q)
                \/ /\ UNCHANGED op /\ Others(q) /\ ~GateWritten(run[q].m, run[q].s)
                   /\ GateReaders(run[q].m, run[q].s) = {}
<1> DEFINE Goal ==
      /\ Keeps(run[q], run'[q])
      /\ Reads(q)' =>
           \/ Reads(q)
           \/ UNCHANGED op /\ Others(q) /\ ~GateWritten(run[q].m, run[q].s)
      /\ Writes(q)' =>
           \/ Writes(q)
           \/ /\ UNCHANGED op /\ Others(q) /\ ~GateWritten(run[q].m, run[q].s)
              /\ GateReaders(run[q].m, run[q].s) = {}
<1>1. /\ run'[q] # NoRun
      /\ run'[q].pc \in Admitted \cup {"inserted"}
      /\ run'[q].pc \notin {"called", "admission", "door", "dead", "orphan"}
      /\ run'[q].kind # "candidate"
  BY Nobody DEF Reads, Writes, Past, Admitted
<1>2. RunOK(run[q])
  BY DEF RunInv
\* It was admitted before, and past its gate if it is.
<1>3. ASSUME Keeps(run[q], run'[q]), run[q].pc \in Admitted \cup {"inserted"},
             run[q].kind = "required" /\ run'[q].pc \in Past => run[q].pc \in Past
      PROVE  Goal
  BY <1>1, <1>3 DEF Keeps, Reads, Writes
<1>4. ASSUME run'[q] = run[q]
      PROVE  Goal
  BY <1>4 DEF Keeps, Reads, Writes
<1>5. ASSUME NEW r \in Runs, Left(r)
      PROVE  Goal
  <2>1. ASSUME Succeeds(run[q], run'[q])
        PROVE  Goal
    BY <1>3, <2>1 DEF Succeeds, Admitted, Past
  <2> QED
    BY <1>1, <1>4, <1>5, <2>1 DEF Left
<1>6. ASSUME NEW r \in Runs, Others(r), r # q
      PROVE  Goal
  BY <1>4, <1>6 DEF Others
<1>7. ASSUME Keeps(run[q], run'[q]), run'[q].pc = run[q].pc
      PROVE  Goal
  BY <1>1, <1>3, <1>7
<1>8. ASSUME NEW r \in Runs, Admission(r)
      PROVE  Goal
  <2>1. CASE r # q
    BY <1>5, <1>6, <1>8, <2>1, AdmissionEffects DEF Admission, Goes
  <2>2. CASE r = q /\ Left(r)
    BY <1>5, <2>2
  <2>3. CASE r = q /\ ~Left(r)
    <3>1. CASE Begin(r) \/ TakeAdmission(r)
      BY <1>1, <2>3, <3>1, AdmissionEffects DEF Goes
    <3>2. CASE Admit(r)
      <4>1. /\ Others(q) /\ Keeps(run[q], run'[q]) /\ run'[q].pc = "inserted"
            /\ ~GateWritten(run[q].m, run[q].s)
        BY <2>3, <3>2, AdmissionEffects DEF Admit
      <4>2. UNCHANGED op
        BY <1>8, Frames
      <4>3. ~Writes(q)'
        BY <4>1 DEF Writes, Past, Admitted
      <4> QED
        BY <4>1, <4>2, <4>3
    <3>3. CASE AdmitRequired(r)
      <4>1. Keeps(run[q], run'[q]) /\ run[q].kind = "required" /\ run'[q].pc = "inserted"
        BY <2>3, <3>3, AdmissionEffects DEF AdmitRequired
      <4> QED
        BY <1>1, <4>1 DEF Keeps, Reads, Writes, Past, Admitted
    <3>4. CASE EnterGate(r)
      <4>1. /\ Others(q) /\ Keeps(run[q], run'[q]) /\ ~GateWritten(run[q].m, run[q].s)
            /\ GateReaders(run[q].m, run[q].s) = {}
        BY <2>3, <3>4, AdmissionEffects DEF EnterGate, Goes, Same
      <4>2. UNCHANGED op
        BY <1>8, Frames
      <4> QED
        BY <4>1, <4>2
    <3>5. CASE TakePublicationGate(r)
      BY <1>3, <2>3, <3>5, AdmissionEffects
         DEF Goes, Same, TakePublicationGate, Admitted, Past
    <3>6. CASE Cancel(r)
      BY <1>7, <2>3, <3>6, AdmissionEffects DEF Goes, Same
    <3> QED
      BY <1>8, <3>1, <3>2, <3>3, <3>4, <3>5, <3>6 DEF Admission
  <2> QED
    BY <2>1, <2>2, <2>3
<1>9. ASSUME NEW r \in Runs, Execution(r)
      PROVE  Goal
  <2>1. CASE Left(r)
    BY <1>5, <2>1
  <2>2. CASE ~Left(r)
    <3>1. Others(r) /\ Keeps(run[r], run'[r])
      <4>1. CASE Commit(r)
        BY <2>2, <4>1, CommitEffect DEF Commits
      <4>2. CASE ~Commit(r)
        BY <1>9, <2>2, <4>2, ExecutionEffects DEF Execution, Passes, Goes, Same
      <4> QED
        BY <4>1, <4>2
    <3>2. CASE r # q
      BY <1>6, <3>1, <3>2
    <3>3. CASE r = q /\ Commit(r)
      <4>1. run[q].pc = "inserted"
        BY <3>3 DEF Commit
      <4>2. run[q].kind = "required" => run'[q].pc = "gate"
        <5>1. run[q].kind = "required" => run[q].place = "none"
          BY <1>2 DEF RunOK
        <5> QED
          BY <2>2, <3>3, <5>1, CommitEffect DEF Commits
      <4> QED
        BY <1>3, <3>1, <3>3, <4>1, <4>2 DEF Past
    <3>4. CASE r = q /\ ~Commit(r)
      <4>1. run[q].pc \in Past
        <5>1. CASE \E ok \in BOOLEAN : OrphanEnds(r, ok)
          BY <1>1, <2>2, <3>4, <5>1, ExecutionEffects DEF Goes
        <5>2. CASE ~\E ok \in BOOLEAN : OrphanEnds(r, ok)
          BY <1>9, <3>4, <5>2 DEF Execution, Execute, TakePublicationFile, TakeConsumers,
                                  Abandon, Complete, TreeEnds, Waiting, Past, Admitted
        <5> QED
          BY <5>1, <5>2
      <4> QED
        BY <1>3, <3>1, <3>4, <4>1 DEF Past
    <3> QED
      BY <3>2, <3>3, <3>4
  <2> QED
    BY <2>1, <2>2
<1>10. ASSUME NEW m \in Managers, NEW s \in Schedules, NEW kind \in {"cron", "required"},
              Call(m, s, kind)
       PROVE  Goal
  BY <1>1, <1>6, <1>10, CallEffect DEF Arrives
<1>11. ASSUME Produce
       PROVE  Goal
  BY <1>1, <1>4, <1>6, <1>11, ProduceEffect DEF Arrives
<1>12. ASSUME NEW m \in Managers, Retires(m)
       PROVE  Goal
  BY <1>4, <1>7, <1>12, DrainedEffect DEF Retires, NoticeLoss, HandOver, Same
<1>13. ASSUME NEW m \in Managers, Mark(m)
       PROVE  Goal
  BY <1>1, <1>7, <1>13, MarkEffect
<1>14. ASSUME NEW m \in Managers, Crash(m)
       PROVE  Goal
  BY <1>1, <1>4, <1>14, CrashEffect
<1>15. CASE \/ Deployment \/ Start \/ LeaseLapses \/ StrayEnds
            \/ \E m \in Managers : Ownership(m)
  BY <1>4, <1>15, Frames
<1> QED
  BY <1>8, <1>9, <1>10, <1>11, <1>12, <1>13, <1>14, <1>15, Kinds

\* An operation has a gate that it had, or that it found free.
LEMMA GatesFootprint ==
    ASSUME TypeOK, RunInv, OpOK(op), CandInv, Next, NEW s \in op'.gates
    PROVE  /\ op'.m = op.m
           /\ \/ s \in op.gates
              \/ /\ UNCHANGED run
                 /\ GateReaders(op.m, s) = {} /\ ~GateWritten(op.m, s)
<1> DEFINE Goal == /\ op'.m = op.m
                   /\ \/ s \in op.gates
                      \/ /\ UNCHANGED run
                         /\ GateReaders(op.m, s) = {} /\ ~GateWritten(op.m, s)
<1>1. op' # NoOp
  BY Nobody
<1>2. ASSUME op' = op \/ Alike(op, op')
      PROVE  Goal
  BY <1>2 DEF Alike
<1>3. ASSUME Deployment
      PROVE  Goal
  <2>1. CASE \E m \in Managers, v \in Versions : StartDeploy(m, v)
    BY <2>1, GatesEffects
  <2>2. CASE TakeAdmissions
    BY <1>2, <2>2, GatesEffects DEF OpGoes
  <2>3. CASE TakeGates
    <3> DEFINE t == Min(Schedules \ op.gates)
    <3>1. op'.m = op.m /\ op'.gates = op.gates \cup {t}
      BY <2>3, GatesEffects
    <3>2. UNCHANGED run /\ GateReaders(op.m, t) = {} /\ ~GateWritten(op.m, t)
      BY <2>3 DEF TakeGates
    <3> HIDE DEF t
    <3> QED
      BY <3>1, <3>2
  <2>4. CASE Plan \/ Prepare \/ PrepareFails \/ Produced \/ Converge
    BY <1>2, <2>4, OpEffects DEF OpGoes
  <2>5. CASE StopFails \/ Promote \/ Fail
    BY <1>1, <2>5, OpEffects
  <2> QED
    BY <1>3, <2>1, <2>2, <2>3, <2>4, <2>5 DEF Deployment
<1>4. ASSUME Start
      PROVE  Goal
  <2>1. CASE \E m \in Managers : StartWake(m)
    BY <2>1, OpEffects
  <2>2. CASE TakeBootGate \/ TakeBootFile \/ CheckCompatible \/ Boot \/ BootFails
    BY <1>1, <1>2, <2>2, OpEffects DEF OpGoes
  <2> QED
    BY <1>4, <2>1, <2>2 DEF Start
<1>5. ASSUME NEW r \in Runs, Execution(r)
      PROVE  Goal
  BY <1>2, <1>5, ExecutionOp DEF Settles
<1>6. ASSUME Produce
      PROVE  Goal
  <2>1. \E pc \in {"producing", "fail"} : op' = [op EXCEPT !.pc = pc]
    BY <1>6, ProduceEffect
  <2>2. Alike(op, op')
    BY <2>1, OpPc, TypesInParts DEF OpGoes
  <2> QED
    BY <1>2, <2>2
<1>7. CASE \/ \E r \in Runs : Admission(r)
           \/ \E m \in Managers, t \in Schedules, kind \in {"cron", "required"} :
                Call(m, t, kind)
           \/ \E m \in Managers : Ownership(m) \/ Retires(m) \/ Mark(m)
           \/ LeaseLapses \/ StrayEnds
  BY <1>2, <1>7, Frames, SMTT(30)
<1>8. CASE \E m \in Managers : Crash(m)
  BY <1>1, <1>2, <1>8, Zenon DEF Crash
<1> QED
  BY <1>3, <1>4, <1>5, <1>6, <1>7, <1>8, Kinds

\* Every step keeps a required run or a deployment alone behind its producer gate.
LEMMA GateStep ==
    ASSUME TypeOK, RunInv, OpOK(op), CandInv, GateInv, Next
    PROVE  GateInv'
<1>1. ASSUME NEW q \in Runs, NEW r \in Runs, Together(q, r)', Writes(q)',
             Reads(r)' \/ Writes(r)'
      PROVE  FALSE
  <2>1. Together(q, r)
    BY <1>1, GateFootprint DEF Together, Keeps
  <2>2. CASE Writes(q)
    <3>1. ~Reads(r) /\ ~Writes(r)
      BY <2>1, <2>2 DEF GateInv
    <3>2. ~GateWritten(run[r].m, run[r].s)
      BY <1>1, <3>1, GateFootprint
    <3> QED
      BY <2>1, <2>2, <3>2 DEF GateWritten, Writes, At, Together, Past
  <2>3. CASE ~Writes(q)
    <3>1. /\ Others(q) /\ ~GateWritten(run[q].m, run[q].s)
          /\ GateReaders(run[q].m, run[q].s) = {}
      BY <1>1, <2>3, GateFootprint
    <3>2. run'[r] = run[r]
      BY <2>1, <3>1 DEF Others, Together
    <3>3. Reads(r) \/ Writes(r)
      BY <1>1, <3>2 DEF Reads, Writes
    <3> QED
      BY <2>1, <3>1, <3>3 DEF GateWritten, GateReaders, Reads, Writes, At, Together, Past
  <2> QED
    BY <2>2, <2>3
<1>2. ASSUME NEW r \in Runs, op'.m = run'[r].m, run'[r].s \in op'.gates,
             Reads(r)' \/ Writes(r)'
      PROVE  FALSE
  <2>1. run'[r].m = run[r].m /\ run'[r].s = run[r].s
    BY <1>2, GateFootprint DEF Keeps
  <2>2. op.m = run[r].m
    BY <1>2, <2>1, GatesFootprint
  <2>3. CASE run[r].s \in op.gates
    <3>1. ~Reads(r) /\ ~Writes(r)
      BY <2>2, <2>3 DEF GateInv
    <3>2. ~GateWritten(run[r].m, run[r].s)
      BY <1>2, <3>1, GateFootprint
    <3> QED
      BY <2>2, <2>3, <3>2 DEF GateWritten
  <2>4. CASE run[r].s \notin op.gates
    <3>1. UNCHANGED run /\ GateReaders(op.m, run[r].s) = {} /\ ~GateWritten(op.m, run[r].s)
      BY <1>2, <2>1, <2>4, GatesFootprint
    <3>2. Reads(r) \/ Writes(r)
      BY <1>2, <3>1 DEF Reads, Writes
    <3> QED
      BY <2>2, <3>1, <3>2 DEF GateWritten, GateReaders, Reads, Writes, At, Past
  <2> QED
    BY <2>3, <2>4
<1> QED
  BY <1>1, <1>2 DEF GateInv

-----------------------------------------------------------------------------
(* The data, and what the database holds against it.                       *)

\* Data and provenance change at the hand of one who has publication.lock, or
\* takes it.
LEMMA Writers ==
    ASSUME TypeOK, Next
    PROVE  \/ UNCHANGED <<data, torn, prov>>
           \/ \E r \in Runs :
                /\ Publishes(r)
                /\ \/ TakePublicationFile(r)
                   \/ run[r].pc = "clients" /\ TakeConsumers(r)
                   \/ run[r].pc \in Tree
                   \/ run[r].pc = "succeeded" /\ Complete(r) /\ UNCHANGED <<data, torn>>
<1> DEFINE Goal ==
      \/ UNCHANGED <<data, torn, prov>>
      \/ \E r \in Runs :
           /\ Publishes(r)
           /\ \/ TakePublicationFile(r)
              \/ run[r].pc = "clients" /\ TakeConsumers(r)
              \/ run[r].pc \in Tree
              \/ run[r].pc = "succeeded" /\ Complete(r) /\ UNCHANGED <<data, torn>>
<1>1. ASSUME NEW r \in Runs, Execution(r)
      PROVE  Goal
  <2>1. CASE Commit(r) \/ Execute(r) \/ Abandon(r)
    BY <2>1 DEF Commit, Execute, Abandon, store
  <2>2. CASE TakePublicationFile(r)
    BY <2>2 DEF TakePublicationFile, Starts, store
  <2>3. CASE TakeConsumers(r)
    BY <2>3 DEF TakeConsumers, Starts, store
  <2>4. CASE \E ok \in BOOLEAN : TreeEnds(r, ok) \/ OrphanEnds(r, ok)
    BY <2>4 DEF TreeEnds, OrphanEnds, store, Tree
  <2>5. CASE Complete(r)
    <3>1. CASE Publishes(r) /\ run[r].pc = "succeeded"
      BY <2>5, <3>1 DEF Complete
    <3>2. CASE ~Publishes(r)
      BY <2>5, <3>2 DEF Complete
    <3>3. CASE run[r].pc # "succeeded"
      <4>1. prov' = prov \/ prov' = [prov EXCEPT ![run[r].s] = prov[run[r].s]]
        BY <2>5, <3>3 DEF Complete
      <4>2. [prov EXCEPT ![run[r].s] = prov[run[r].s]] = prov
        BY TypesByName
      <4> QED
        BY <2>5, <4>1, <4>2 DEF Complete
    <3> QED
      BY <3>1, <3>2, <3>3
  <2> QED
    BY <1>1, <2>1, <2>2, <2>3, <2>4, <2>5 DEF Execution
<1>2. CASE \/ \E r \in Runs : Admission(r)
           \/ \E m \in Managers, s \in Schedules, kind \in {"cron", "required"} :
                Call(m, s, kind)
           \/ Produce \/ Deployment \/ Start
           \/ \E m \in Managers : Ownership(m) \/ Retires(m) \/ Mark(m) \/ Crash(m)
           \/ LeaseLapses \/ StrayEnds
  BY <1>2, Frames DEF store
<1> QED
  BY <1>1, <1>2, Kinds

\* A row that speaks of a write does so until the run completes, or a successor
\* turns it into an uncertainty.
LEMMA LastingKept ==
    ASSUME TypeOK, RunInv, Next, OpOK(op), NEW q \in Runs, run[q].row, run[q].pc \in Lasting
    PROVE  \/ Complete(q)
           \/ \E m \in Managers : Mark(m)
           \/ run'[q].row /\ run'[q].s = run[q].s /\ run'[q].pc \in Lasting
<1> DEFINE Goal == \/ Complete(q)
                   \/ \E m \in Managers : Mark(m)
                   \/ run'[q].row /\ run'[q].s = run[q].s /\ run'[q].pc \in Lasting
<1>1. run[q].pc \in {"running", "orphan", "succeeded", "broken", "dead"}
  BY DEF Lasting, Tree
<1>2. ASSUME run'[q] = run[q]
      PROVE  Goal
  BY <1>2
<1>3. ASSUME NEW r \in Runs, Left(r), r # q
      PROVE  Goal
  BY <1>1, <1>2, <1>3 DEF Left, Succeeds
<1>4. ASSUME NEW r \in Runs, Others(r), r # q
      PROVE  Goal
  BY <1>2, <1>4 DEF Others
<1>5. ASSUME NEW r \in Runs, Admission(r)
      PROVE  Goal
  <2>1. CASE r # q
    BY <1>3, <1>4, <1>5, <2>1, AdmissionEffects DEF Admission, Goes
  <2>2. CASE r = q
    <3>1. Cancel(r)
      BY <1>1, <1>5, <2>2 DEF Admission, Begin, TakeAdmission, Admit, AdmitRequired,
                              EnterGate, TakePublicationGate
    <3> QED
      BY <2>2, <3>1, AdmissionEffects DEF Goes, Same, Keeps
  <2> QED
    BY <2>1, <2>2
<1>6. ASSUME NEW r \in Runs, Execution(r)
      PROVE  Goal
  <2>1. CASE r # q
    <3>1. Left(r) \/ Others(r)
      <4>1. CASE Commit(r)
        BY <4>1, CommitEffect DEF Commits
      <4>2. CASE ~Commit(r)
        BY <1>6, <4>2, ExecutionEffects DEF Execution, Passes, Goes
      <4> QED
        BY <4>1, <4>2
    <3> QED
      BY <1>3, <1>4, <2>1, <3>1
  <2>2. CASE r = q
    <3>1. Complete(r) \/ \E ok \in BOOLEAN : TreeEnds(r, ok) \/ OrphanEnds(r, ok)
      BY <1>1, <1>6, <2>2 DEF Execution, Commit, Execute, TakePublicationFile,
                              TakeConsumers, Abandon, Waiting
    <3>2. CASE \E ok \in BOOLEAN : TreeEnds(r, ok)
      BY <2>2, <3>2, ExecutionEffects DEF Goes, Same, Keeps, Lasting
    <3>3. CASE \E ok \in BOOLEAN : OrphanEnds(r, ok)
      <4>1. run' = [run EXCEPT ![r].pc = "dead"]
        BY <2>2, <3>3 DEF OrphanEnds
      <4>2. run \in [Runs -> RunRecords] /\ run[r] \in RunRecords
        BY TypesByName
      <4>3. run'[q] = [run[q] EXCEPT !.pc = "dead"]
        BY <2>2, <4>1, <4>2
      <4> QED
        BY <2>2, <4>2, <4>3 DEF RunRecords, Lasting
    <3> QED
      BY <2>2, <3>1, <3>2, <3>3
  <2> QED
    BY <2>1, <2>2
<1>7. ASSUME NEW m \in Managers, NEW s \in Schedules, NEW kind \in {"cron", "required"},
             Call(m, s, kind)
      PROVE  Goal
  BY <1>1, <1>4, <1>7, CallEffect DEF Arrives
<1>8. ASSUME Produce
      PROVE  Goal
  BY <1>1, <1>2, <1>4, <1>8, ProduceEffect DEF Arrives
<1>9. ASSUME NEW m \in Managers, Retires(m)
      PROVE  Goal
  BY <1>2, <1>9, DrainedEffect DEF Retires, NoticeLoss, HandOver, Same, Keeps
<1>10. ASSUME NEW m \in Managers, Crash(m)
       PROVE  Goal
  BY <1>2, <1>10, CrashEffect DEF Keeps, Lasting, Tree
<1>11. CASE \/ Deployment \/ Start \/ LeaseLapses \/ StrayEnds
            \/ \E m \in Managers : Ownership(m)
  BY <1>2, <1>11, Frames
<1> QED
  BY <1>5, <1>6, <1>7, <1>8, <1>9, <1>10, <1>11, Kinds

\* A run starts its tree, with its row, when it starts to write.
LEMMA Started ==
    ASSUME TypeOK, NEW r \in Runs, TakePublicationFile(r) \/ TakeConsumers(r)
    PROVE  \/ UNCHANGED store
           \/ /\ Publishes(r) /\ torn' = [torn EXCEPT ![run[r].s] = TRUE]
              /\ UNCHANGED <<data, unc, prov>>
              /\ run'[r].row /\ run'[r].s = run[r].s /\ run'[r].pc = "running"
<1>1. run \in [Runs -> RunRecords] /\ run[r] \in RunRecords
  BY TypesByName
<1>2. UNCHANGED store \/ (Starts(r) /\ Pass(r, "running"))
  BY DEF TakePublicationFile, TakeConsumers
<1>3. CASE Starts(r) /\ Pass(r, "running")
  <2>1. CASE Publishes(r) /\ ~run[r].stop /\ StillCurrent(r)
    <3>1. /\ torn' = [torn EXCEPT ![run[r].s] = TRUE] /\ UNCHANGED <<data, unc, prov>>
          /\ run' = [run EXCEPT ![r] = [run[r] EXCEPT !.pc = "running"]]
          /\ run[r].row
      BY <1>1, <1>3, <2>1 DEF Starts, Pass, StillCurrent
    <3>2. run'[r] = [run[r] EXCEPT !.pc = "running"]
      BY <1>1, <3>1
    <3>3. run'[r].row /\ run'[r].s = run[r].s /\ run'[r].pc = "running"
      BY <1>1, <3>1, <3>2 DEF RunRecords
    <3> QED
      BY <2>1, <3>1, <3>3
  <2>2. CASE ~(Publishes(r) /\ ~run[r].stop /\ StillCurrent(r))
    BY <1>3, <2>2 DEF Starts
  <2> QED
    BY <2>1, <2>2
<1> QED
  BY <1>2, <1>3

\* What CompleteScheduleRun leaves of the schedule's data.
LEMMA Completed ==
    ASSUME TypeOK, RunInv, NEW r \in Runs, Complete(r), Publishes(r)
    PROVE  /\ UNCHANGED <<data, torn>>
           /\ unc'[run[r].s] = (run[r].pc # "succeeded")
           /\ prov'[run[r].s] = IF run[r].pc = "succeeded" THEN run[r].ver
                                                           ELSE prov[run[r].s]
           /\ \A s \in Publishing \ {run[r].s} : unc'[s] = unc[s] /\ prov'[s] = prov[s]
<1>1. run[r].row
  BY DEF RunInv, RunOK, Complete, Sharing, Holding
<1>2. /\ unc \in [Publishing -> BOOLEAN] /\ run[r].s \in Publishing
      /\ prov \in [Publishing -> Versions \cup {None}]
  BY TypesByName DEF Publishes
<1>3. /\ unc' = [unc EXCEPT ![run[r].s] = ~(run[r].pc = "succeeded")]
      /\ prov' = [prov EXCEPT ![run[r].s] = IF run[r].pc = "succeeded" THEN run[r].ver
                                            ELSE prov[run[r].s]]
      /\ UNCHANGED <<data, torn>>
  BY <1>1 DEF Complete
<1> QED
  BY <1>2, <1>3

\* Damage to the data of a schedule is recorded, or a run's row still witnesses it.
LEMMA RecordedStep ==
    ASSUME TypeOK, RunInv, OpOK(op), DataInv, Next, NEW s \in Publishing
    PROVE  Recorded(s)'
<1>1. /\ data \in [Publishing -> Versions \cup {None}]
      /\ prov \in [Publishing -> Versions \cup {None}]
      /\ torn \in [Publishing -> BOOLEAN] /\ unc \in [Publishing -> BOOLEAN]
      /\ run \in [Runs -> RunRecords]
  BY TypesByName
<1>2. Recorded(s)
  BY DEF DataInv
<1>3. CASE \E r \in Runs : Complete(r) /\ run[r].s = s
  <2>1. PICK r \in Runs : Complete(r) /\ run[r].s = s
    BY <1>3
  <2>2. Publishes(r)
    BY <2>1 DEF Publishes
  <2>3. CASE run[r].pc = "succeeded"
    <3>1. data[s] = run[r].ver /\ ~torn[s]
      BY <2>1, <2>2, <2>3 DEF DataInv, Wrote
    <3> QED
      BY <2>1, <2>2, <2>3, <3>1, Completed DEF Recorded
  <2>4. CASE run[r].pc # "succeeded"
    BY <2>1, <2>2, <2>4, Completed DEF Recorded
  <2> QED
    BY <2>3, <2>4
<1>4. ASSUME NEW m \in Managers, Mark(m)
      PROVE  Recorded(s)'
  <2>1. UNCHANGED <<data, torn, prov>>
    BY <1>4, Frames
  <2>2. unc'[s] = (unc[s] \/ \E r \in Runs : run[r].row /\ run[r].s = s)
    BY <1>4 DEF Mark
  <2> QED
    BY <1>2, <2>1, <2>2 DEF Recorded, Witness
<1>5. ASSUME \A r \in Runs : ~(Complete(r) /\ run[r].s = s), \A m \in Managers : ~Mark(m)
      PROVE  Recorded(s)'
  <2>1. Witness(s) => Witness(s)'
    <3>1. ASSUME NEW q \in Runs, run[q].row, run[q].s = s, run[q].pc \in Lasting
          PROVE  run'[q].row /\ run'[q].s = s /\ run'[q].pc \in Lasting
      BY <1>5, <3>1, LastingKept
    <3> QED
      BY <3>1 DEF Witness
  <2>2. ASSUME data'[s] = data[s], torn'[s] = torn[s], prov'[s] = prov[s], unc'[s] = unc[s]
        PROVE  Recorded(s)'
    BY <1>2, <2>1, <2>2 DEF Recorded
  <2>3. ASSUME NEW r \in Runs, Execution(r)
        PROVE  Recorded(s)'
    <3>1. CASE Commit(r) \/ Execute(r) \/ Abandon(r)
      BY <2>2, <3>1 DEF Commit, Execute, Abandon, store
    <3>2. CASE TakePublicationFile(r) \/ TakeConsumers(r)
      <4>1. CASE UNCHANGED store
        BY <2>2, <4>1 DEF store
      <4>2. CASE run[r].s # s /\ torn' = [torn EXCEPT ![run[r].s] = TRUE]
                 /\ UNCHANGED <<data, unc, prov>>
        BY <1>1, <2>2, <4>2
      <4>3. CASE run'[r].row /\ run'[r].s = s /\ run'[r].pc = "running"
        BY <4>3 DEF Recorded, Witness, Lasting, Tree
      <4> QED
        BY <3>2, <4>1, <4>2, <4>3, Started
    <3>3. ASSUME NEW ok \in BOOLEAN, TreeEnds(r, ok) \/ OrphanEnds(r, ok)
          PROVE  Recorded(s)'
      <4>1. CASE UNCHANGED store
        BY <2>2, <4>1 DEF store
      <4>2. CASE ~UNCHANGED store
        <5>1. /\ data' = [data EXCEPT ![run[r].s] = run[r].ver]
              /\ torn' = [torn EXCEPT ![run[r].s] = FALSE]
              /\ UNCHANGED <<unc, prov>>
          BY <3>3, <4>2 DEF TreeEnds, OrphanEnds
        <5>2. CASE run[r].s # s
          BY <1>1, <2>2, <5>1, <5>2
        <5>3. CASE run[r].s = s
          <6>1. run[r].row
            BY <3>3 DEF RunInv, RunOK, TreeEnds, OrphanEnds, Sharing, Holding, Tree
          <6>2. run[r].pc \in Lasting /\ ~Complete(r)
            BY <3>3 DEF TreeEnds, OrphanEnds, Lasting, Tree, Complete
          <6>3. run'[r].row /\ run'[r].s = s /\ run'[r].pc \in Lasting
            BY <1>5, <5>3, <6>1, <6>2, LastingKept
          <6> QED
            BY <6>3 DEF Recorded, Witness
        <5> QED
          BY <5>2, <5>3
      <4> QED
        BY <4>1, <4>2
    <3>4. CASE Complete(r)
      <4>1. CASE Publishes(r)
        BY <1>5, <2>2, <3>4, <4>1, Completed
      <4>2. CASE ~Publishes(r)
        BY <2>2, <3>4, <4>2 DEF Complete
      <4> QED
        BY <4>1, <4>2
    <3> QED
      BY <2>3, <3>1, <3>2, <3>3, <3>4 DEF Execution
  <2>4. CASE \/ \E r \in Runs : Admission(r)
             \/ \E m \in Managers, t \in Schedules, kind \in {"cron", "required"} :
                  Call(m, t, kind)
             \/ Produce \/ Deployment \/ Start
             \/ \E m \in Managers : Ownership(m) \/ Retires(m) \/ Crash(m)
             \/ LeaseLapses \/ StrayEnds
    BY <2>2, <2>4, Frames DEF store
  <2> QED
    BY <1>5, <2>3, <2>4, Kinds
<1> QED
  BY <1>3, <1>4, <1>5

\* Data of another bundle leaves a barrier behind.
LEMMA DatedStep ==
    ASSUME TypeOK, RunInv, OpOK(op), CandInv, PendInv, DataInv, Next, NEW s \in Publishing
    PROVE  Dated(s)'
<1>1. Dated(s) /\ Whole(s) /\ op \in OpRecords /\ AppType
  BY TypesInParts DEF DataInv
<1>2. ASSUME prov'[s] = prov[s], serving' = serving,
             repair \/ pend.barrier => repair' \/ pend'.barrier
      PROVE  Dated(s)'
  BY <1>1, <1>2 DEF Dated
<1>3. ASSUME NEW r \in Runs, Execution(r)
      PROVE  Dated(s)'
  <2>1. UNCHANGED <<serving, repair, pend>>
    BY <1>3, ExecutionStore
  <2>2. CASE Complete(r) /\ run[r].s = s /\ run[r].pc = "succeeded"
    <3>1. Publishes(r) /\ prov'[s] = run[r].ver
      BY <2>2, Completed DEF Publishes
    <3>2. CASE run[r].kind = "candidate"
      <4>1. Candidate(r)
        BY <2>2, <3>2 DEF Candidate
      <4>2. pend.barrier
        BY <4>1 DEF CandInv, PendInv
      <4> QED
        BY <2>1, <4>2 DEF Dated
    <3>3. CASE run[r].kind # "candidate"
      <4>1. run[r].ver = serving
        BY <2>2, <3>1, <3>3 DEF DataInv, Wrote
      <4> QED
        BY <2>1, <3>1, <4>1 DEF Dated
    <3> QED
      BY <3>2, <3>3
  <2>3. CASE ~(Complete(r) /\ run[r].s = s /\ run[r].pc = "succeeded")
    <3>1. prov'[s] = prov[s]
      <4>1. CASE Complete(r) /\ Publishes(r)
        <5>1. CASE run[r].s = s
          BY <2>3, <4>1, <5>1, Completed
        <5>2. CASE run[r].s # s
          BY <4>1, <5>2, Completed
        <5> QED
          BY <5>1, <5>2
      <4>2. CASE Complete(r) /\ ~Publishes(r)
        BY <4>2 DEF Complete
      <4>3. CASE Commit(r) \/ Execute(r) \/ Abandon(r)
        BY <4>3 DEF Commit, Execute, Abandon, store
      <4>4. CASE TakePublicationFile(r) \/ TakeConsumers(r)
        BY <4>4, Started DEF store
      <4>5. CASE \E ok \in BOOLEAN : TreeEnds(r, ok) \/ OrphanEnds(r, ok)
        BY <4>5 DEF TreeEnds, OrphanEnds, store
      <4> QED
        BY <1>3, <4>1, <4>2, <4>3, <4>4, <4>5 DEF Execution
    <3> QED
      BY <1>2, <2>1, <3>1
  <2> QED
    BY <2>2, <2>3
<1>4. ASSUME NEW m \in Managers, NEW v \in Versions, StartDeploy(m, v)
      PROVE  Dated(s)'
  BY <1>2, <1>4 DEF StartDeploy, store
<1>5. CASE StopFails
  <2>1. pend.barrier => repair
    BY <1>5, OpEffects DEF PendInv, StopFails
  <2> QED
    BY <1>2, <1>5, <2>1 DEF StopFails, store
<1>6. CASE Prepare \/ Converge
  <2>1. UNCHANGED <<serving, repair, store>> /\ (pend.barrier => pend'.barrier)
    <3> DEFINE b == pend.barrier \/ op.todo # {}
    <3>1. pend' = pend \/ pend' = [pend EXCEPT !.barrier = TRUE]
          \/ pend' = [pend EXCEPT !.barrier = b]
      BY <1>6 DEF Prepare, Converge
    <3>2. pend.barrier => b
      OBVIOUS
    <3> HIDE DEF b
    <3>3. pend.barrier => pend'.barrier
      BY <1>1, <3>1, <3>2 DEF AppType, Deployments
    <3> QED
      BY <1>6, <3>3 DEF Prepare, Converge
  <2> QED
    BY <1>2, <2>1 DEF store
<1>7. CASE Promote
  <2>1. prov[s] = op.ver
    BY <1>1, <1>7, OpEffects DEF Promote, Whole
  <2> QED
    BY <1>7, <2>1 DEF Promote, Dated, store
<1>8. CASE Fail
  <2>1. CASE pend.barrier
    BY <1>2, <1>8, <2>1 DEF Fail, store
  <2>2. CASE ~pend.barrier
    <3>1. ~repair
      BY <1>8, <2>2, OpEffects DEF PendInv
    <3> QED
      BY <1>2, <1>8, <2>2, <3>1 DEF Fail, store
  <2> QED
    BY <2>1, <2>2
<1>9. CASE TakeAdmissions \/ TakeGates \/ Plan \/ PrepareFails \/ Produced
  BY <1>2, <1>9 DEF TakeAdmissions, TakeGates, Plan, PrepareFails, Produced, app, store
<1>10. ASSUME NEW m \in Managers, Ownership(m)
       PROVE  Dated(s)'
  <2>1. CASE Reconcile(m)
    BY <1>2, <2>1 DEF Reconcile, store
  <2>2. CASE ~Reconcile(m)
    BY <1>2, <1>10, <2>2 DEF Ownership, AcquireLease, TakeFleet, TakeFences, Open, DrainDone,
                             DrainGivesUp, Restart, app, store
  <2> QED
    BY <2>1, <2>2
<1>11. CASE \/ \E r \in Runs : Admission(r)
            \/ \E m \in Managers, t \in Schedules, kind \in {"cron", "required"} :
                 Call(m, t, kind)
            \/ Produce \/ Start
            \/ \E m \in Managers : Retires(m) \/ Mark(m) \/ Crash(m)
            \/ LeaseLapses \/ StrayEnds
  BY <1>2, <1>11, Frames DEF app, store
<1> QED
  BY <1>3, <1>4, <1>5, <1>6, <1>7, <1>8, <1>9, <1>10, <1>11, Kinds DEF Deployment

\* What nothing is recorded against is whole.
LEMMA Unrecorded ==
    ASSUME TypeOK, DataInv, ~DataQuarantined, NEW s \in Publishing
    PROVE  ~torn[s] /\ data[s] = prov[s]
<1>1. ~unc[s] /\ ~Witness(s)
  BY DEF DataQuarantined, Witness, Publishes
<1> QED
  BY <1>1 DEF DataInv, Recorded

\* Who boots has whole data, and nobody writes it.
LEMMA WholeStep ==
    ASSUME TypeOK, RunInv, OpOK(op), CandInv, FleetInv, FileInv, PendInv, DataInv, Next,
           NEW s \in Publishing
    PROVE  Whole(s)'
<1>1. Whole(s) /\ Dated(s) /\ op \in OpRecords
  BY TypesInParts DEF DataInv
<1>2. ASSUME op'.pc \notin {"boot", "promote"}
      PROVE  Whole(s)'
  BY <1>2 DEF Whole
<1>3. ASSUME op.pc \in {"boot", "promote"}, op'.ver = op.ver, op'.kind = op.kind,
             UNCHANGED <<data, torn, prov>>
      PROVE  Whole(s)'
  BY <1>1, <1>3 DEF Whole
<1>4. ASSUME op.pc \in {"boot", "promote"}
      PROVE  UNCHANGED <<data, torn, prov>>
  <2>1. op.boot = "file"
    BY <1>4 DEF OpOK
  <2>2. \A r \in Runs : Publishes(r) => ~TakePublicationFile(r) /\ run[r].pc \notin Holding
    BY <2>1 DEF FileInv, Publisher, In, TakePublicationFile, FileHeldSh
  <2> QED
    BY <2>2, Writers DEF Holding, Tree
<1>5. ASSUME op' = op
      PROVE  Whole(s)'
  BY <1>2, <1>3, <1>4, <1>5
<1>6. CASE Converge
  <2>1. CASE OpGoes("boot")
    <3>1. /\ Unsatisfied(op.ver, op.done) = {} /\ ~DataQuarantined /\ UNCHANGED store
      <4>1. op' = [op EXCEPT !.boot = "none", !.todo = Unsatisfied(op.ver, op.done),
                             !.pc = "produce"] => op'.pc = "produce"
        BY <1>1 DEF OpRecords
      <4>2. op' = [op EXCEPT !.pc = "fail", !.boot = "none"] => op'.pc = "fail"
        BY <1>1 DEF OpRecords
      <4> QED
        BY <1>6, <2>1, <4>1, <4>2 DEF Converge, OpGoes
    <3>2. prov[s] = op.ver
      BY <3>1 DEF Unsatisfied
    <3>3. ~torn[s] /\ data[s] = prov[s]
      BY <3>1, Unrecorded
    <3> QED
      BY <2>1, <3>1, <3>2, <3>3 DEF Whole, OpGoes, Alike, store
  <2>2. CASE ~OpGoes("boot")
    BY <1>2, <1>6, <2>2, OpEffects
  <2> QED
    BY <2>1, <2>2
<1>7. CASE CheckCompatible
  <2>1. CASE op' = NoOp
    BY <1>2, <2>1, Nobody
  <2>2. CASE op' # NoOp
    <3>1. OpGoes("boot") /\ op.kind = "wake" /\ ~Quarantined /\ UNCHANGED store
      BY <1>7, <2>2, OpEffects DEF CheckCompatible
    <3>2. ~torn[s] /\ data[s] = prov[s]
      BY <3>1, Unrecorded DEF Quarantined
    <3>3. prov[s] = None \/ prov[s] = op.ver
      BY <1>1, <3>1 DEF Dated, Quarantined, PendInv
    <3> QED
      BY <3>1, <3>2, <3>3 DEF Whole, OpGoes, Alike, store
  <2> QED
    BY <2>1, <2>2
<1>8. CASE Boot
  <2>1. op' = NoOp \/ OpGoes("promote")
    BY <1>8, OpEffects
  <2> QED
    BY <1>2, <1>3, <1>4, <1>8, <2>1, Nobody DEF Boot, OpGoes, Alike
<1>9. CASE BootFails
  BY <1>2, <1>9, OpEffects, Nobody DEF OpGoes
<1>10. CASE (\E m \in Managers : StartWake(m)) \/ TakeBootGate \/ TakeBootFile
  BY <1>2, <1>10, OpEffects DEF TakeBootGate, TakeBootFile
<1>11. CASE \E m \in Managers, v \in Versions : StartDeploy(m, v)
  BY <1>2, <1>11, GatesEffects
<1>12. CASE TakeAdmissions \/ TakeGates
  BY <1>2, <1>12, GatesEffects DEF TakeAdmissions, OpGoes
<1>13. CASE Plan \/ StopFails \/ Prepare \/ PrepareFails \/ Produced \/ Promote \/ Fail
  BY <1>2, <1>13, OpEffects, Nobody DEF OpGoes
<1>14. ASSUME NEW r \in Runs, Execution(r)
       PROVE  Whole(s)'
  BY <1>2, <1>5, <1>14, ExecutionOp DEF Settles
<1>15. CASE Produce
  <2>1. \E pc \in {"producing", "fail"} : op' = [op EXCEPT !.pc = pc]
    BY <1>15, ProduceEffect
  <2>2. op'.pc \in {"producing", "fail"}
    BY <1>1, <2>1, OpPc DEF OpGoes
  <2> QED
    BY <1>2, <2>2
<1>16. CASE \/ \E r \in Runs : Admission(r)
            \/ \E m \in Managers, t \in Schedules, kind \in {"cron", "required"} :
                 Call(m, t, kind)
            \/ \E m \in Managers : Ownership(m) \/ Retires(m) \/ Mark(m)
            \/ LeaseLapses \/ StrayEnds
  BY <1>5, <1>16, Frames, SMTT(30)
<1>17. CASE \E m \in Managers : Crash(m)
  BY <1>2, <1>5, <1>17, Nobody DEF Crash
<1> QED
  BY <1>6, <1>7, <1>8, <1>9, <1>10, <1>11, <1>12, <1>13, <1>14, <1>15, <1>16, <1>17, Kinds
     DEF Deployment, Start

\* What a run wrote stays as it wrote it, and of the serving version, until its
\* row says so.
LEMMA WroteStep ==
    ASSUME TypeOK, RunInv, OpOK(op), CandInv, FileInv, DataInv, Next, NEW q \in Runs
    PROVE  Wrote(q)'
<1> SUFFICES ASSUME run'[q].s \in Publishing, run'[q].pc \in {"running", "succeeded"}
             PROVE  /\ run'[q].kind # "candidate" => run'[q].ver = serving'
                    /\ run'[q].pc = "succeeded" => /\ data'[run'[q].s] = run'[q].ver
                                                   /\ ~torn'[run'[q].s]
  BY DEF Wrote, Publishes
<1>1. run'[q].pc \in Sharing
  BY DEF Sharing, Holding, Tree
<1>2. /\ run'[q].s = run[q].s /\ run'[q].kind = run[q].kind /\ run'[q].ver = run[q].ver
      /\ Publishes(q) /\ Wrote(q)
  BY <1>1, Footprint DEF Keeps, Publishes, DataInv
<1>3. \/ TakePublicationFile(q) /\ run'[q].pc = "running" /\ run[q].kind # "candidate"
      \/ TakeConsumers(q) /\ run'[q].pc = "running"
      \/ run[q].pc = "running" /\ run'[q].pc = "running"
      \/ TreeEnds(q, TRUE) /\ run'[q].pc = "succeeded"
      \/ run[q].pc = "succeeded" /\ run'[q].pc = "succeeded"
  BY <1>1, <1>2, Footprint
<1>4. CASE TakePublicationFile(q) \/ TakeConsumers(q)
  <2>1. run'[q].pc = "running" /\ UNCHANGED serving
    BY <1>3, <1>4 DEF TakePublicationFile, TakeConsumers, Pass, TreeEnds, app
  <2>2. run[q].kind # "candidate" => Passes(q, "running")
    BY <1>4, ExecutionEffects
  <2>3. run[q].kind # "candidate" => run[q].ver = serving
    BY <2>1, <2>2, Nobody DEF Passes, Left, StillCurrent
  <2> QED
    BY <1>2, <2>1, <2>3
<1>5. CASE TreeEnds(q, TRUE)
  <2>1. /\ data' = [data EXCEPT ![run[q].s] = run[q].ver]
        /\ torn' = [torn EXCEPT ![run[q].s] = FALSE] /\ UNCHANGED serving
        /\ run[q].pc = "running"
    BY <1>2, <1>5 DEF TreeEnds, app
  <2>2. /\ data \in [Publishing -> Versions \cup {None}] /\ torn \in [Publishing -> BOOLEAN]
        /\ run[q].s \in Publishing
    BY <1>2, TypesByName DEF Publishes
  <2> QED
    BY <1>2, <2>1, <2>2 DEF Wrote
<1>6. CASE run[q].pc \in {"running", "succeeded"} /\ run'[q].pc = run[q].pc
  <2>1. q \in Publisher(Holding)
    BY <1>2, <1>6 DEF Publisher, In, Holding, Tree
  <2>2. op.boot # "file"
    BY <2>1 DEF FileInv
  <2>3. UNCHANGED serving
    <3>1. ~Promote
      BY <2>2 DEF Promote, OpOK
    <3>2. Deployment => UNCHANGED serving
      BY <3>1 DEF Deployment, StartDeploy, TakeAdmissions, TakeGates, Plan, StopFails,
                  Prepare, PrepareFails, Produced, Converge, Fail, app
    <3>3. \A r \in Runs : Execution(r) => UNCHANGED serving
      BY ExecutionStore
    <3> QED
      BY <3>2, <3>3, Kinds, Frames DEF app
  <2>4. run[q].pc = "succeeded" => UNCHANGED <<data, torn>>
    <3>1. ASSUME NEW r \in Runs, Publishes(r), run[q].pc = "succeeded"
          PROVE  ~TakePublicationFile(r) /\ run[r].pc \notin {"clients"} \cup Tree
      <4>1. ~TakePublicationFile(r)
        <5>1. FileHeldEx
          BY <1>2, <3>1 DEF FileHeldEx, Publisher, In
        <5> QED
          BY <5>1 DEF TakePublicationFile
      <4>2. run[r].pc \in {"clients"} \cup Tree => r \in Publisher(Holding)
        BY <3>1 DEF Publisher, In, Holding
      <4>3. run[q].pc \notin {"clients"} \cup Tree
        BY <3>1 DEF Tree
      <4> QED
        BY <2>1, <4>1, <4>2, <4>3 DEF FileInv
    <3> QED
      BY <3>1, Writers
  <2> QED
    BY <1>2, <1>6, <2>3, <2>4 DEF Wrote
<1> QED
  BY <1>3, <1>4, <1>5, <1>6

-----------------------------------------------------------------------------
(* The theorems.                                                           *)

\* Nothing runs, nothing is recorded, and the data is the serving version's.
LEMMA InitInv ==
    ASSUME Init
    PROVE  IInv
<1>1. run = [r \in Runs |-> NoRun] /\ op = NoOp /\ phase = [m \in Managers |-> "standby"]
  BY DEF Init
<1>2. \A r \in Runs : run[r] = NoRun
  BY <1>1
<1>3. TypeOK
  <2>1. run \in [Runs -> RunRecords] /\ op \in OpRecords
    BY <1>1, Nobody
  <2>2. OwnerType
    BY DEF Init, OwnerType, Phases
  <2>3. AppType /\ StoreType
    BY DEF Init, AppType, StoreType, NoDeployment, Deployments
  <2>4. left \in [Bounds -> Nat]
    BY ScheduleAssumption DEF Init, Bounds
  <2> QED
    BY <2>1, <2>2, <2>3, <2>4, TypesInParts
<1>4. RunInv /\ PlaceInv /\ CandInv
  BY <1>2, Nobody DEF RunInv, PlaceInv, CandInv, Candidate, Tree
<1>5. /\ \A m \in Managers : phase[m] = "standby"
      /\ ~JobsHeldEx /\ ~FleetHeld
  BY <1>1 DEF JobsHeldEx, FleetHeld, Fencing, Fleet
<1>6. Publisher(Holding) = {}
  BY <1>2, Nobody DEF Publisher, In, Holding, Tree
<1>7. JobsInv /\ FileInv /\ FleetInv /\ OpOK(op)
  BY <1>1, <1>5, <1>6, Nobody DEF JobsInv, FileInv, FleetInv
<1>8. GateInv
  BY <1>2, Nobody DEF GateInv, Reads, Writes, Admitted, Past
<1>9. PendInv /\ QuarantinedIsDown
  BY <1>1, Nobody DEF PendInv, QuarantinedIsDown, Init
<1>10. \A s \in Publishing : Recorded(s) /\ Dated(s) /\ Whole(s)
  <2>1. \A s \in Publishing : /\ torn[s] = FALSE /\ prov[s] = data[s]
                              /\ data[s] \in {None, serving}
    BY DEF Init
  <2> QED
    BY <1>1, <2>1, Nobody DEF Recorded, Dated, Whole
<1>11. \A r \in Runs : Wrote(r)
  BY <1>2, Nobody DEF Wrote
<1> QED
  BY <1>3, <1>4, <1>7, <1>8, <1>9, <1>10, <1>11 DEF IInv, DataInv

\* Every step keeps the invariant.
LEMMA Preserved ==
    ASSUME IInv, [Next]_vars
    PROVE  IInv'
<1>1. CASE Next
  <2>1. TypeOK' /\ OpOK(op')
    BY <1>1, TypeStep DEF IInv
  <2>2. RunInv' /\ PlaceInv'
    BY <1>1, RunStep, PlaceStep DEF IInv
  <2>3. JobsInv' /\ FileInv' /\ FleetInv'
    BY <1>1, JobsStep, FileStep, FleetStep DEF IInv
  <2>4. PendInv' /\ QuarantinedIsDown'
    BY <1>1, PendStep DEF IInv
  <2>5. CandInv' /\ GateInv'
    BY <1>1, CandStep, GateStep DEF IInv
  <2>6. DataInv'
    <3>1. \A s \in Publishing : Recorded(s)' /\ Dated(s)' /\ Whole(s)'
      BY <1>1, RecordedStep, DatedStep, WholeStep DEF IInv
    <3>2. \A r \in Runs : Wrote(r)'
      BY <1>1, WroteStep DEF IInv
    <3> QED
      BY <3>1, <3>2 DEF DataInv
  <2> QED
    BY <2>1, <2>2, <2>3, <2>4, <2>5, <2>6 DEF IInv
<1>2. CASE UNCHANGED vars
  <2>1. UNCHANGED <<lease, phase, draining, run, op, serving, repair, pend, consumer, stray,
                    data, torn, unc, prov, left>>
    BY <1>2 DEF vars
  <2>2. TypeOK'
    BY <2>1 DEF IInv, TypeOK
  <2>3. RunInv' /\ PlaceInv' /\ OpOK(op')
    BY <2>1 DEF IInv, RunInv, PlaceInv, Together
  <2>4. JobsInv' /\ FileInv' /\ FleetInv'
    BY <2>1 DEF IInv, JobsInv, FileInv, FleetInv, JobsHeldEx, FleetHeld, Publisher, In,
                Publishes
  <2>5. PendInv' /\ QuarantinedIsDown'
    BY <2>1 DEF IInv, PendInv, QuarantinedIsDown, Pending
  <2>6. CandInv' /\ GateInv'
    BY <2>1 DEF IInv, CandInv, Candidate, GateInv, Together, Reads, Writes
  <2>7. DataInv'
    BY <2>1 DEF IInv, DataInv, Recorded, Witness, Dated, Whole, Wrote, Publishes
  <2> QED
    BY <2>2, <2>3, <2>4, <2>5, <2>6, <2>7 DEF IInv
<1> QED
  BY <1>1, <1>2

\* The invariant holds throughout.
LEMMA Invariance == Spec => []IInv
<1>1. Init => IInv
  BY InitInv
<1>2. IInv /\ [Next]_vars => IInv'
  BY Preserved
<1> QED
  BY <1>1, <1>2, PTL DEF Spec

\* Every variable keeps to its values.
THEOREM TypesCorrect == Spec => []TypeOK
<1>1. IInv => TypeOK
  BY DEF IInv
<1> QED
  BY <1>1, Invariance, PTL

\* publication.lock goes with the process tree: whatever crashes, is drained or
\* is believed dead, one tree at most writes the app's data.
THEOREM OneWriterOnly == Spec => []OneWriter
<1>1. IInv => OneWriter
  <2>1. SUFFICES ASSUME IInv
                 PROVE  Cardinality(Writing) <= 1
    BY DEF OneWriter
  <2>2. \A q, r \in Writing : q = r
    BY <2>1 DEF IInv, FileInv, Writing, Publisher, In, Holding
  <2> QED
    BY <2>2, AtMostOne
<1> QED
  BY <1>1, Invariance, PTL

\* AcquireConsumerBootGate and convergePrestartAndFenceConsumer: who boots reads
\* whole data of the version it was built for.
THEOREM ReadersSeeTheirData == Spec => []BootsOnItsData
<1>1. IInv => BootsOnItsData
  BY DEF IInv, DataInv, Whole, BootsOnItsData
<1> QED
  BY <1>1, Invariance, PTL

\* MarkRunningSchedulesInterrupted alone on the host, a candidate producer without
\* consumers, an execution alone in its slot.
THEOREM FencesKeepApart == Spec => []FencedIsAlone
<1>1. IInv => FencedIsAlone
  <2> SUFFICES ASSUME IInv
               PROVE  FencedIsAlone
    OBVIOUS
  <2>1. JobsHeldEx => In(Tree) = {}
    BY DEF IInv, JobsInv, In, Sharing, Holding
  <2>2. \A r \in In(Tree) : run[r].kind = "candidate" => consumer = None /\ ~stray
    BY DEF IInv, CandInv, In
  <2>3. ASSUME NEW q \in In(Admitted), NEW r \in In(Admitted),
               q # r, run[q].m = run[r].m, run[q].s = run[r].s
        PROVE  /\ run[q].pc \in Tree => run[q].kind = "cron" \/ run[r].pc = "gate"
               /\ run[q].place # "none" => run[q].place # run[r].place
               /\ run[q].kind = "cron" /\ run[r].kind = "cron" /\ run[q].s \notin Concurrent
                    => ~(run[q].pc \in Tree /\ run[r].pc \in Tree)
    <3>1. q \in Runs /\ r \in Runs /\ run[q].pc \in Admitted /\ run[r].pc \in Admitted
      BY <2>3 DEF In
    <3>2. Together(q, r) /\ Together(r, q)
      BY <2>3, <3>1 DEF Together
    <3>3. RunOK(run[q]) /\ RunOK(run[r])
      BY <3>1 DEF IInv, RunInv
    <3>4. run[q].place # "none" => run[q].place # run[r].place
      BY <3>1, <3>2 DEF IInv, PlaceInv
    <3>5. ASSUME run[q].pc \in Tree, run[q].kind # "cron"
          PROVE  run[r].pc = "gate"
      <4>1. /\ run[q].kind \in {"required", "candidate"}
            /\ run[r].kind \in {"cron", "required", "candidate"}
        BY <3>1, <3>5, TypesByName DEF IInv, RunRecords
      <4>2. run[q].s \in Schedules /\ run[r].s \in Schedules
        BY <3>1, <3>3 DEF RunOK, Admitted
      <4>3. ASSUME NEW c \in {q, r}, run[c].kind = "candidate"
            PROVE  /\ Candidate(c) /\ ~Reads(q) /\ ~Writes(q) /\ ~Reads(r) /\ ~Writes(r)
        <5>1. Candidate(c)
          BY <3>1, <4>3 DEF Candidate, Admitted
        <5>2. op.m = run[c].m /\ op.gates = Schedules
          BY <3>1, <5>1 DEF IInv, CandInv, OpOK
        <5> QED
          BY <2>3, <3>1, <4>2, <5>1, <5>2 DEF IInv, GateInv
      <4>4. run[q].kind = "required" => Writes(q) /\ ~Reads(r) /\ ~Writes(r)
        BY <3>1, <3>2, <3>5 DEF IInv, GateInv, Writes, Past, Tree
      <4>5. run[r].kind # "candidate"
        BY <2>3, <3>1, <4>1, <4>3, <4>4 DEF IInv, CandInv
      <4>6. ~Reads(r) /\ ~Writes(r)
        BY <4>1, <4>3, <4>4
      <4> QED
        BY <3>1, <4>1, <4>5, <4>6 DEF Reads, Writes, Past
    <3>6. ASSUME run[q].kind = "cron", run[r].kind = "cron", run[q].s \notin Concurrent,
                 run[q].pc \in Tree, run[r].pc \in Tree
          PROVE  FALSE
      <4>1. run[q].place = "slot" /\ run[r].place = "slot"
        BY <2>3, <3>1, <3>3, <3>6 DEF RunOK, Past, Tree
      <4> QED
        BY <3>4, <4>1
    <3> QED
      BY <3>4, <3>5, <3>6
  <2> QED
    BY <2>1, <2>2, <2>3 DEF FencedIsAlone
<1> QED
  BY <1>1, Invariance, PTL

\* CompleteScheduleRun and MarkRunningSchedulesInterrupted: what the database does
\* not hold against the app is so.
THEOREM DamageIsAlwaysRecorded == Spec => []DamageIsRecorded
<1>1. IInv => DamageIsRecorded
  BY DEF IInv, DataInv, Recorded, Witness, DamageIsRecorded
<1> QED
  BY <1>1, Invariance, PTL

\* QuarantineAndFailDeployment, and every start that looks at what it left.
THEOREM QuarantineHolds == Spec => []QuarantinedIsDown
<1>1. IInv => QuarantinedIsDown
  BY DEF IInv
<1> QED
  BY <1>1, Invariance, PTL
============================================================================
