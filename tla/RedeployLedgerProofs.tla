------------------------ MODULE RedeployLedgerProofs ------------------------
(* Proofs about RedeployLedger, for any number of instances, any edits, with *)
(* or without a shared apps directory, and any bounds.                       *)
EXTENDS RedeployLedger, TLAPS

OutcomeOrNone == Outcomes \cup {"none"}

\* What the statements write to the redeploy columns are redeploy columns.
LEMMA AppWrites ==
    ASSUME TypeOK
    PROVE  /\ \A s \in Nat, o \in OutcomeOrNone : Reported(s, o) \in Apps
           /\ \A s, e \in Nat : Claimed(s, e) \in Apps
           /\ \A p \in Ops, o \in OutcomeOrNone : Resolved(p, o) \in Apps
<1> USE DEF TypeOK, Apps, OutcomeOrNone
<1>1. \A s \in Nat, o \in OutcomeOrNone : OwedFull(o, s) \in Nat
  BY DEF OwedFull
<1>2. \A s \in Nat, o \in OutcomeOrNone : Reported(s, o) \in Apps
  BY <1>1 DEF Reported
<1>3. \A s, e \in Nat : Claimed(s, e) \in Apps
  BY DEF Claimed
<1>4. \A p \in Ops, o \in OutcomeOrNone : Resolved(p, o) \in Apps
  <2> SUFFICES ASSUME NEW p \in Ops, NEW o \in OutcomeOrNone
               PROVE  Resolved(p, o) \in Apps
    OBVIOUS
  <2>1. p.priorFull \in Nat /\ p.seq \in Nat
    BY DEF Ops
  <2> QED
    BY <2>1 DEF Resolved
<1> QED
  BY <1>2, <1>3, <1>4

\* The fields an operation is read for have their types.
LEMMA OpFields ==
    ASSUME TypeOK, NEW i \in Instances
    PROVE  /\ op[i] \in Ops
           /\ op[i].seq \in Nat /\ op[i].lease \in Nat
           /\ op[i].outcome \in OutcomeOrNone
           /\ op[i].changes \subseteq Kinds /\ op[i].missed \subseteq Kinds
BY DEF TypeOK, Ops, OutcomeOrNone

\* The forms in which the steps move an operation on yield operations.
LEMMA OpForms ==
    ASSUME NEW p \in Ops
    PROVE  /\ \A a \in Stages : [p EXCEPT !.at = a] \in Ops
           /\ \A a \in Stages, o \in Outcomes : [p EXCEPT !.at = a, !.outcome = o] \in Ops
           /\ \A a \in Stages, b \in BOOLEAN : [p EXCEPT !.at = a, !.full = b] \in Ops
           /\ \A a \in Stages, o \in Outcomes :
                [p EXCEPT !.at = a, !.outcome = o, !.full = FALSE, !.missed = {}] \in Ops
           /\ \A a \in Stages, o \in Outcomes :
                [p EXCEPT !.at = a, !.outcome = o, !.missed = {}] \in Ops
           /\ \A changes \in SUBSET Kinds : Missing(p, changes) \in Ops
           /\ \A a \in Stages, s, e \in Nat :
                [p EXCEPT !.at = a, !.seq = s, !.lease = e] \in Ops
           /\ \A a \in Stages, s \in Nat : [p EXCEPT !.at = a, !.seq = s] \in Ops
           /\ NoOp \in Ops
<1>1. \A a \in Stages : [p EXCEPT !.at = a] \in Ops
  BY DEF Ops
<1>2. \A a \in Stages, o \in Outcomes : [p EXCEPT !.at = a, !.outcome = o] \in Ops
  BY DEF Ops
<1>3. \A a \in Stages, b \in BOOLEAN : [p EXCEPT !.at = a, !.full = b] \in Ops
  BY DEF Ops
<1>4. \A a \in Stages, o \in Outcomes :
        [p EXCEPT !.at = a, !.outcome = o, !.full = FALSE, !.missed = {}] \in Ops
  BY DEF Ops
<1>5. \A a \in Stages, o \in Outcomes :
        [p EXCEPT !.at = a, !.outcome = o, !.missed = {}] \in Ops
  BY DEF Ops
<1>6. \A changes \in SUBSET Kinds : Missing(p, changes) \in Ops
  BY DEF Ops, Missing
<1>7. \A a \in Stages, s, e \in Nat : [p EXCEPT !.at = a, !.seq = s, !.lease = e] \in Ops
  BY DEF Ops
<1>8. \A a \in Stages, s \in Nat : [p EXCEPT !.at = a, !.seq = s] \in Ops
  BY DEF Ops
<1>9. NoOp \in Ops
  BY DEF Ops, Stages, NoOp
<1> QED
  BY <1>1, <1>2, <1>3, <1>4, <1>5, <1>6, <1>7, <1>8, <1>9, Zenon

\* What a committed PATCH leaves behind for the rest of its handler.
LEMMA PatchForm ==
    ASSUME NEW p \in Ops, NEW a \in Apps, NEW sets \in SUBSET Kinds,
           NEW changes \in SUBSET Kinds, NEW d \in BOOLEAN, NEW r \in BOOLEAN
    PROVE  [p EXCEPT !.at = "apply", !.seq = a.launched + 1, !.sets = sets,
              !.changes = changes, !.wasDegraded = d, !.retry = r,
              !.priorFull = a.full, !.priorLast = a.last] \in Ops
<1>1. a.launched + 1 \in Nat /\ a.full \in Nat /\ a.last \in Nat
  BY DEF Apps
<1> DEFINE s == a.launched + 1
<1>2. \A f, l, n \in Nat :
        [p EXCEPT !.at = "apply", !.seq = n, !.sets = sets, !.changes = changes,
           !.wasDegraded = d, !.retry = r, !.priorFull = f, !.priorLast = l] \in Ops
  BY DEF Ops, Stages
<1> QED
  BY <1>1, <1>2, Zenon

\* Releasing the lock, or going on under it, keeps the operations' types, and
\* what a handler launches is a redeploy of its own seq.
LEMMA LockType ==
    ASSUME TypeOK, NEW i \in Instances
    PROVE  /\ \A l \in {{}, Launch(i)} : FinishOp(i, l) =>
                 /\ op' \in [Instances -> Ops]
                 /\ queue' \subseteq (Instances \X Nat \X {"patch", "owed"})
           /\ \A p \in Ops : NextStage(i, p) =>
                 /\ op' \in [Instances -> Ops]
                 /\ queue' \subseteq (Instances \X Nat \X {"patch", "owed"})
<1>1. NoOp \in Ops /\ op[i].seq \in Nat
  BY OpFields, OpForms, Zenon
<1>2. Launch(i) \subseteq (Instances \X Nat \X {"patch", "owed"})
  BY <1>1 DEF Launch
<1> QED
  BY <1>1, <1>2 DEF TypeOK, FinishOp, NextStage

\* Types are preserved by the steps of a PATCH.
LEMMA PatchType ==
    ASSUME TypeOK, NEW i \in Instances, Patching(i)
    PROVE  TypeOK'
<1> USE LockType, OpFields DEF unlocked, leaseVars, ledgerVars
<1>1. CASE PatchRejected(i)
  BY <1>1 DEF PatchRejected, TypeOK
<1>2. ASSUME NEW sets \in Edits, NEW changes \in SUBSET sets, PatchCommit(i, sets, changes)
      PROVE  TypeOK'
  <2>1. sets \in SUBSET Kinds /\ changes \in SUBSET Kinds
    BY LedgerAssumption
  <2>2. app' \in Apps
    <3>1. \A n, f \in Nat : [app EXCEPT !.launched = n, !.full = f] \in Apps
      BY DEF TypeOK, Apps
    <3>2. app.launched + 1 \in Nat /\ app.full \in Nat
      BY DEF TypeOK, Apps
    <3>3. \/ app' = app
          \/ app' = [app EXCEPT !.launched = app.launched + 1, !.full = app.full]
          \/ app' = [app EXCEPT !.launched = app.launched + 1, !.full = app.launched + 1]
      BY <1>2, Zenon DEF PatchCommit
    <3>4. app \in Apps
      BY DEF TypeOK
    <3>5. /\ [app EXCEPT !.launched = app.launched + 1, !.full = app.full] \in Apps
          /\ [app EXCEPT !.launched = app.launched + 1, !.full = app.launched + 1] \in Apps
      BY <3>1, <3>2
    <3> QED
      BY <3>3, <3>4, <3>5, Zenon
  <2>3. op' \in [Instances -> Ops]
    <3> DEFINE d == status = "degraded"
               r == d /\ resourceError /\ sets \cap Resources # {}
               p == [op[i] EXCEPT !.at = "apply", !.seq = app.launched + 1, !.sets = sets,
                       !.changes = changes, !.wasDegraded = d, !.retry = r,
                       !.priorFull = app.full, !.priorLast = app.last]
    <3>1. d \in BOOLEAN /\ r \in BOOLEAN
      OBVIOUS
    <3>2. p \in Ops
      <4> HIDE DEF d, r
      <4> QED
        BY <2>1, <3>1, PatchForm, ZenonT(30) DEF TypeOK
    <3>3. \A j \in Instances : Missing(op[j], changes) \in Ops
      BY <2>1, OpForms, Zenon
    <3>4. NoOp \in Ops
      BY OpForms, Zenon
    <3>5. \E b \in BOOLEAN :
            op' = [j \in Instances |-> IF j # i THEN Missing(op[j], changes)
                                       ELSE IF b THEN p ELSE NoOp]
      BY <1>2, Zenon DEF PatchCommit
    <3> HIDE DEF p
    <3> QED
      BY <3>2, <3>3, <3>4, <3>5
  <2>4. stale' \subseteq Kinds
    BY <1>2, <2>1, Zenon DEF PatchCommit, TypeOK
  <2> QED
    BY <1>2, <2>2, <2>3, <2>4, Zenon DEF PatchCommit, TypeOK
<1>3. CASE PatchAppliedLive(i)
  <2>1. [op[i] EXCEPT !.at = "resolve"] \in Ops
    BY OpForms, Zenon DEF Stages
  <2>2. op' \in [Instances -> Ops] /\ queue' \subseteq (Instances \X Nat \X {"patch", "owed"})
    BY <1>3, <2>1 DEF PatchAppliedLive
  <2> QED
    BY <1>3, <2>2 DEF PatchAppliedLive, TypeOK, SetStatus
<1>4. CASE PatchUnsupportedLive(i)
  BY <1>4 DEF PatchUnsupportedLive, TypeOK
<1>5. CASE PatchFailedLive(i)
  <2>1. [op[i] EXCEPT !.at = "resolve", !.outcome = "failed"] \in Ops
    BY OpForms, Zenon DEF Stages, Outcomes
  <2>2. op' \in [Instances -> Ops] /\ queue' \subseteq (Instances \X Nat \X {"patch", "owed"})
    BY <1>5, <2>1 DEF PatchFailedLive
  <2> QED
    BY <1>5, <2>2 DEF PatchFailedLive, TypeOK, SetStatus
<1>6. CASE PatchResolve(i)
  <2>1. Resolved(op[i], ResolveOutcome(i)) \in Apps
    BY AppWrites DEF ResolveOutcome, OutcomeOrNone, Outcomes
  <2>2. app' \in Apps
    BY <1>6, <2>1 DEF PatchResolve, TypeOK
  <2>3. op' \in [Instances -> Ops] /\ queue' \subseteq (Instances \X Nat \X {"patch", "owed"})
    BY <1>6 DEF PatchResolve
  <2> QED
    BY <1>6, <2>2, <2>3 DEF PatchResolve, TypeOK
<1> QED
  BY <1>1, <1>2, <1>3, <1>4, <1>5, <1>6 DEF Patching

\* Types are preserved by the steps of a redeploy.
LEMMA RedeployType ==
    ASSUME TypeOK, NEW i \in Instances, Redeploying(i)
    PROVE  TypeOK'
<1> USE LockType, OpFields DEF unlocked, leaseVars, ledgerVars
<1>0. \A o \in Outcomes : Ended(i, o) =>
        op' \in [Instances -> Ops] /\ queue' \subseteq (Instances \X Nat \X {"patch", "owed"})
  <2>1. \A o \in Outcomes :
          [op[i] EXCEPT !.at = "record", !.outcome = o, !.full = FALSE, !.missed = {}] \in Ops
    BY OpForms, Zenon DEF Stages
  <2> QED
    BY <2>1, Zenon DEF Ended
<1>1. CASE RedeployClaim(i)
  <2>1. Claimed(op[i].seq, op[i].lease) \in Apps /\ [op[i] EXCEPT !.at = "claimed"] \in Ops
    BY AppWrites, OpForms, Zenon DEF Stages
  <2>2. op' \in [Instances -> Ops] /\ queue' \subseteq (Instances \X Nat \X {"patch", "owed"})
    BY <1>1, <2>1 DEF RedeployClaim
  <2> QED
    BY <1>1, <2>1, <2>2 DEF RedeployClaim, TypeOK
<1>2. CASE CycleBegin(i)
  <2>1. [op[i] EXCEPT !.at = "cycle", !.full = NeedsFullCycle] \in Ops
    <3>1. NeedsFullCycle \in BOOLEAN
      BY DEF NeedsFullCycle
    <3> QED
      BY <3>1, OpForms, Zenon DEF Stages
  <2> QED
    BY <1>2, <2>1 DEF CycleBegin, TypeOK
<1>3. CASE CycleSkipped(i)
  BY <1>0, <1>3 DEF CycleSkipped, TypeOK, Outcomes
<1>4. CASE CycleFails(i)
  BY <1>0, <1>4 DEF CycleFails, TypeOK, Outcomes, SetStatus
<1>5. CASE CycleBoots(i)
  BY <1>0, <1>5 DEF CycleBoots, TypeOK, Outcomes, SetStatus
<1>6. CASE CycleResizes(i)
  BY <1>0, <1>6 DEF CycleResizes, TypeOK, Outcomes, SetStatus
<1>7. CASE RedeployRecord(i)
  <2>1. Reported(op[i].seq, op[i].outcome) \in Apps
    BY AppWrites
  <2> QED
    BY <1>7, <2>1 DEF RedeployRecord, TypeOK
<1> QED
  BY <1>1, <1>2, <1>3, <1>4, <1>5, <1>6, <1>7 DEF Redeploying

\* Types are preserved by the steps of a boot.
LEMMA BootType ==
    ASSUME TypeOK, NEW i \in Instances, Booting(i)
    PROVE  TypeOK'
<1> USE LockType, OpFields DEF unlocked, leaseVars, ledgerVars
<1>0. \A o \in Outcomes : [op[i] EXCEPT !.at = "bootRecord", !.outcome = o, !.missed = {}] \in Ops
  BY OpForms, Zenon DEF Stages
<1>1. CASE BootRefused(i)
  BY <1>1 DEF BootRefused, TypeOK
<1>2. CASE BootsPool(i)
  <2>1. [op[i] EXCEPT !.at = "bootRecord", !.outcome = "completed", !.missed = {}] \in Ops
    BY <1>0 DEF Outcomes
  <2> QED
    BY <1>2, <2>1 DEF BootsPool, TypeOK
<1>3. ASSUME NEW o \in {"skipped", "failed"}, BootsNothing(i, o)
      PROVE  TypeOK'
  <2>1. [op[i] EXCEPT !.at = "bootRecord", !.outcome = o, !.missed = {}] \in Ops
    BY <1>0 DEF Outcomes
  <2> QED
    BY <1>3, <2>1 DEF BootsNothing, TypeOK, SetStatus
<1>4. CASE BootRecord(i)
  <2>1. Reported(op[i].seq, op[i].outcome) \in Apps
    BY AppWrites
  <2> QED
    BY <1>4, <2>1 DEF BootRecord, AfterBoot, TypeOK, SetStatus
<1> QED
  BY <1>1, <1>2, <1>3, <1>4 DEF Booting

\* Types are preserved when a store call is given up.
LEMMA GivingUpType ==
    ASSUME TypeOK, NEW i \in Instances, GivingUp(i)
    PROVE  TypeOK'
<1> USE LockType, OpFields DEF unlocked, leaseVars, ledgerVars, StoreGivesUp
<1>1. CASE PatchAborted(i)
  BY <1>1 DEF PatchAborted, TypeOK
<1>2. CASE PatchResolveGivesUp(i)
  <2>1. Resolved(op[i], ResolveOutcome(i)) \in Apps
    BY AppWrites DEF ResolveOutcome, OutcomeOrNone, Outcomes
  <2> QED
    BY <1>2, <2>1 DEF PatchResolveGivesUp, TypeOK
<1>3. CASE RedeployClaimGivesUp(i)
  <2>1. Claimed(op[i].seq, op[i].lease) \in Apps
    BY AppWrites
  <2> QED
    BY <1>3, <2>1 DEF RedeployClaimGivesUp, TypeOK
<1>4. CASE RedeployRecordGivesUp(i)
  <2>1. Reported(op[i].seq, op[i].outcome) \in Apps
    BY AppWrites
  <2> QED
    BY <1>4, <2>1 DEF RedeployRecordGivesUp, TypeOK
<1>5. CASE BootRecordGivesUp(i)
  <2>1. status' \in {status, "running"} /\ resourceError' \in {resourceError, FALSE}
    BY <1>5 DEF BootRecordGivesUp, AfterBoot, SetStatus
  <2>2. faults' \in Nat
    BY <1>5 DEF BootRecordGivesUp, TypeOK
  <2> QED
    BY <1>5, <2>1, <2>2 DEF BootRecordGivesUp, TypeOK
<1> QED
  BY <1>1, <1>2, <1>3, <1>4, <1>5 DEF GivingUp

\* Types are preserved by changes of ownership.
LEMMA OwnershipType ==
    ASSUME TypeOK, NEW i \in Instances, Ownership(i)
    PROVE  TypeOK'
<1> USE DEF unowned, leaseVars, ledgerVars
<1>1. CASE LeaseTaken(i)
  <2>1. leaseEpoch' \in Nat /\ holder' = i /\ live' = TRUE /\ answered' = FALSE
    BY <1>1 DEF LeaseTaken, Take, TypeOK
  <2> QED
    BY <1>1, <2>1 DEF LeaseTaken, Take, TypeOK
<1>2. CASE LeaseLearned(i)
  BY <1>2 DEF LeaseLearned, Learn, TypeOK
<1>3. CASE LeaseRenewed(i)
  BY <1>3 DEF LeaseRenewed, Renew, TypeOK
<1>4. CASE LeaseForgotten(i)
  BY <1>4 DEF LeaseForgotten, Forget, TypeOK
<1>5. CASE LeaseGivenUp(i)
  BY <1>5 DEF LeaseGivenUp, GiveUp, TypeOK
<1>6. CASE SpanReady(i)
  <2>1. app.launched \in Nat
    BY DEF TypeOK, Apps
  <2> QED
    BY <1>6, <2>1 DEF SpanReady, TypeOK
<1>7. CASE SpanReadyScanFails(i)
  BY <1>7 DEF SpanReadyScanFails, StoreGivesUp, TypeOK
<1>8. CASE Crash(i)
  <2>1. NoOp \in Ops
    BY OpForms, OpFields, Zenon
  <2> QED
    BY <1>8, <2>1 DEF Crash, Forget, TypeOK
<1> QED
  BY <1>1, <1>2, <1>3, <1>4, <1>5, <1>6, <1>7, <1>8 DEF Ownership

\* Types are preserved by a request, and by a redeploy getting the lock.
LEMMA RequestType ==
    ASSUME TypeOK, NEW i \in Instances,
           Requests(i) \/ \E q \in queue : q[1] = i /\ RedeployBegin(q)
    PROVE  TypeOK'
<1> USE DEF unlocked, leaseVars, ledgerVars, StartOp
<1>0. NoOp \in Ops /\ app.launched \in Nat
  BY OpForms, OpFields, Zenon DEF TypeOK, Apps
<1>1. CASE PatchBegin(i)
  <2>1. [NoOp EXCEPT !.at = "patch"] \in Ops
    BY <1>0, OpForms, ZenonT(30) DEF Stages
  <2> QED
    BY <1>1, <2>1, SMTT(30) DEF PatchBegin, TypeOK
<1>2. CASE BootBegin(i)
  <2>1. [NoOp EXCEPT !.at = "boot", !.seq = app.launched] \in Ops
    BY <1>0, OpForms, Zenon DEF Stages
  <2> QED
    BY <1>2, <2>1 DEF BootBegin, TypeOK
<1>3. CASE PoolStops(i)
  BY <1>3 DEF PoolStops, SetStatus, TypeOK
<1>4. CASE PoolHibernates(i)
  BY <1>4 DEF PoolHibernates, SetStatus, TypeOK
<1>5. CASE PoolWakes(i)
  BY <1>5 DEF PoolWakes, TypeOK
<1>6. ASSUME NEW q \in queue, q[1] = i, RedeployBegin(q)
      PROVE  TypeOK'
  <2>1. q[2] \in Nat /\ known[i] \in Nat
    BY DEF TypeOK
  <2>2. [NoOp EXCEPT !.at = "claim", !.seq = q[2], !.lease = known[i]] \in Ops
    BY <1>0, <2>1, OpForms, Zenon DEF Stages
  <2> QED
    BY <1>6, <2>2, ZenonT(30) DEF RedeployBegin, TypeOK
<1> QED
  BY <1>1, <1>2, <1>3, <1>4, <1>5, <1>6 DEF Requests

\* Every step preserves the types.
LEMMA TypeStep ==
    ASSUME TypeOK, [Next]_vars
    PROVE  TypeOK'
<1>1. CASE LeaseExpires
  BY <1>1 DEF LeaseExpires, Expire, TypeOK, unowned, leaseVars, ledgerVars
<1>2. CASE \E i \in Instances :
             \/ Ownership(i) \/ Requests(i)
             \/ Patching(i) \/ Redeploying(i) \/ Booting(i) \/ GivingUp(i)
  BY <1>2, OwnershipType, RequestType, PatchType, RedeployType, BootType, GivingUpType
<1>3. CASE \E q \in queue : RedeployBegin(q)
  <2>1. \A q \in queue : q[1] \in Instances
    BY DEF TypeOK
  <2> QED
    BY <1>3, <2>1, RequestType
<1>4. CASE UNCHANGED vars
  BY <1>4 DEF vars, leaseVars, ledgerVars, TypeOK
<1> QED
  BY <1>1, <1>2, <1>3, <1>4 DEF Next

----------------------------------------------------------------------------
(* The inductive invariant.                                                 *)

Busy == {"claimed", "cycle", "record"}

\* Seqs are handed out in order, and an operation works on one handed out.
Sequenced ==
    /\ app.last <= app.launched
    /\ \A q \in queue : q[2] <= app.launched
    /\ \A i \in Instances :
         /\ op[i].seq <= app.launched
         /\ op[i].at \in {"apply", "resolve"} => op[i].priorLast < op[i].seq

\* Nobody acts under an epoch that has not begun.
EpochsBegun ==
    \A i \in Instances : known[i] <= leaseEpoch /\ op[i].lease <= leaseEpoch

\* While the row still names the claimant and its epoch, live or not, the claim
\* is its own and has no outcome: a renewal may revive an expired row, so the
\* invariant cannot ask for a live one.
ClaimsKept ==
    \A i \in Instances :
        op[i].at \in Busy /\ op[i].lease # 0 /\ holder = i /\ leaseEpoch = op[i].lease
          => Recordable(op[i].seq, op[i].lease)

IInv == TypeOK /\ Sequenced /\ EpochsBegun /\ ClaimsKept

\* What a step does to the operation in progress of an instance.
SameOp(p, r) ==
    r.at = p.at /\ r.seq = p.seq /\ r.lease = p.lease /\ r.priorLast = p.priorLast

Onward(p, r) == r.seq = p.seq /\ r.lease = p.lease /\ r.priorLast = p.priorLast

Moved(p, a, r) == r \in Ops /\ r.at = a /\ Onward(p, r)

\* What a step of an operation of i does to the row.
RowKept(i) ==
    /\ app' = app
    /\ \/ op'[i] = NoOp
       \/ /\ Onward(op[i], op'[i])
          /\ op'[i].at \in Busy => op[i].at \in Busy
          /\ op'[i].at \in {"apply", "resolve"} => op[i].at = "apply"

RowArmed(i) ==
    /\ app'.launched = app.launched + 1
    /\ app'.last = app.last /\ app'.outcome = app.outcome
    /\ app'.claimSeq = app.claimSeq /\ app'.claimEpoch = app.claimEpoch
    /\ op'[i].at = "apply" /\ op'[i].lease = op[i].lease
    /\ op'[i].seq = app.launched + 1 /\ op'[i].priorLast = app.last

RowClaimed(i) ==
    /\ op[i].at = "claim" /\ ~Fenced(i, op[i].lease) /\ Claimable(op[i].seq)
    /\ app' = Claimed(op[i].seq, op[i].lease)
    /\ op'[i] = NoOp \/ (Onward(op[i], op'[i]) /\ op'[i].at = "claimed")

RowReported(i) ==
    /\ holder = i /\ op'[i] = NoOp
    /\ app'.launched = app.launched
    /\ \/ app'.last = app.last /\ app'.outcome = app.outcome
       \/ /\ app'.last = op[i].seq
          /\ app.last < op[i].seq \/ (app.last <= op[i].seq /\ op[i].at = "bootRecord")

OpStep(i) ==
    /\ UNCHANGED leaseVars
    /\ queue' \subseteq queue \cup Launch(i)
    /\ \A j \in Instances \ {i} : SameOp(op[j], op'[j])
    /\ RowKept(i) \/ RowArmed(i) \/ RowClaimed(i) \/ RowReported(i)

\* The forms of OpForms leave alone the fields they do not name.
LEMMA FormFields ==
    ASSUME NEW p \in Ops
    PROVE  /\ \A a \in Stages : Moved(p, a, [p EXCEPT !.at = a])
           /\ \A a \in Stages, o \in Outcomes : Moved(p, a, [p EXCEPT !.at = a, !.outcome = o])
           /\ \A a \in Stages, b \in BOOLEAN : Moved(p, a, [p EXCEPT !.at = a, !.full = b])
           /\ \A a \in Stages, o \in Outcomes :
                Moved(p, a, [p EXCEPT !.at = a, !.outcome = o, !.full = FALSE, !.missed = {}])
           /\ \A a \in Stages, o \in Outcomes :
                Moved(p, a, [p EXCEPT !.at = a, !.outcome = o, !.missed = {}])
           /\ \A changes \in SUBSET Kinds : SameOp(p, Missing(p, changes))
<1>1. \A a \in Stages : Moved(p, a, [p EXCEPT !.at = a])
  BY DEF Ops, Moved, Onward
<1>2. \A a \in Stages, o \in Outcomes : Moved(p, a, [p EXCEPT !.at = a, !.outcome = o])
  BY DEF Ops, Moved, Onward
<1>3. \A a \in Stages, b \in BOOLEAN : Moved(p, a, [p EXCEPT !.at = a, !.full = b])
  BY DEF Ops, Moved, Onward
<1>4. \A a \in Stages, o \in Outcomes :
        Moved(p, a, [p EXCEPT !.at = a, !.outcome = o, !.full = FALSE, !.missed = {}])
  BY DEF Ops, Moved, Onward
<1>5. \A a \in Stages, o \in Outcomes :
        Moved(p, a, [p EXCEPT !.at = a, !.outcome = o, !.missed = {}])
  BY DEF Ops, Moved, Onward
<1>6. \A changes \in SUBSET Kinds : SameOp(p, Missing(p, changes))
  BY DEF Ops, Missing, SameOp
<1> QED
  BY <1>1, <1>2, <1>3, <1>4, <1>5, <1>6, Zenon

\* Ending an operation, or going on with it, touches no other operation.
LEMMA LockStep ==
    ASSUME TypeOK, NEW i \in Instances
    PROVE  /\ \A l \in {{}, Launch(i)} : FinishOp(i, l) =>
                 /\ op'[i] = NoOp
                 /\ queue' \subseteq queue \cup Launch(i)
                 /\ \A j \in Instances \ {i} : SameOp(op[j], op'[j])
           /\ \A p \in Ops : NextStage(i, p) =>
                 /\ op'[i] = p
                 /\ queue' \subseteq queue \cup Launch(i)
                 /\ \A j \in Instances \ {i} : SameOp(op[j], op'[j])
BY DEF TypeOK, FinishOp, NextStage, SameOp

\* What a report writes is the outcome of its seq.
LEMMA ReportFields ==
    ASSUME TypeOK, NEW s \in Nat, NEW o \in OutcomeOrNone
    PROVE  Reported(s, o).last = s /\ Reported(s, o).launched = app.launched
BY DEF TypeOK, Apps, Reported

\* What a live resolution writes: the outcome of its own seq, or none.
LEMMA ResolveFields ==
    ASSUME TypeOK, NEW p \in Ops, NEW o \in OutcomeOrNone
    PROVE  /\ Resolved(p, o).launched = app.launched
           /\ \/ Resolved(p, o).last = app.last /\ Resolved(p, o).outcome = app.outcome
              \/ Resolved(p, o).last = p.seq
BY DEF TypeOK, Apps, Resolved


\* The commit of a PATCH ends it, or arms a new seq and goes on under it.
LEMMA CommitFields ==
    ASSUME TypeOK, NEW i \in Instances, NEW sets \in Edits, NEW changes \in SUBSET sets,
           PatchCommit(i, sets, changes)
    PROVE  (app' = app /\ op'[i] = NoOp) \/ RowArmed(i)
<1>0. op[i] \in Ops
  BY OpFields
<1>1. \/ app' = app /\ op'[i] = NoOp
      \/ /\ \E f \in Nat : app' = [app EXCEPT !.launched = app.launched + 1, !.full = f]
         /\ \E d, r \in BOOLEAN :
              op'[i] = [op[i] EXCEPT !.at = "apply", !.seq = app.launched + 1, !.sets = sets,
                          !.changes = changes, !.wasDegraded = d, !.retry = r,
                          !.priorFull = app.full, !.priorLast = app.last]
  <2>1. app.full \in Nat /\ app.launched + 1 \in Nat
    BY DEF TypeOK, Apps
  <2> DEFINE d == status = "degraded"
             r == d /\ resourceError /\ sets \cap Resources # {}
             p == [op[i] EXCEPT !.at = "apply", !.seq = app.launched + 1, !.sets = sets,
                     !.changes = changes, !.wasDegraded = d, !.retry = r,
                     !.priorFull = app.full, !.priorLast = app.last]
  <2>2. \/ app' = app /\ op'[i] = NoOp
        \/ /\ \/ app' = [app EXCEPT !.launched = app.launched + 1, !.full = app.full]
              \/ app' = [app EXCEPT !.launched = app.launched + 1, !.full = app.launched + 1]
           /\ op'[i] = p
    BY ZenonT(30) DEF PatchCommit
  <2>3. d \in BOOLEAN /\ r \in BOOLEAN
    OBVIOUS
  <2> QED
    BY <2>1, <2>2, <2>3, ZenonT(30)
<1> QED
  <2>1. CASE app' = app /\ op'[i] = NoOp
    BY <2>1
  <2>2. ASSUME NEW d \in BOOLEAN, NEW r \in BOOLEAN,
               op'[i] = [op[i] EXCEPT !.at = "apply", !.seq = app.launched + 1, !.sets = sets,
                          !.changes = changes, !.wasDegraded = d, !.retry = r,
                          !.priorFull = app.full, !.priorLast = app.last]
        PROVE  /\ op'[i].at = "apply" /\ op'[i].lease = op[i].lease
               /\ op'[i].seq = app.launched + 1 /\ op'[i].priorLast = app.last
    BY <2>2 DEF Ops
  <2>3. ASSUME NEW f \in Nat, app' = [app EXCEPT !.launched = app.launched + 1, !.full = f]
        PROVE  /\ app'.launched = app.launched + 1
               /\ app'.last = app.last /\ app'.outcome = app.outcome
               /\ app'.claimSeq = app.claimSeq /\ app'.claimEpoch = app.claimEpoch
    BY <2>3 DEF TypeOK, Apps
  <2> QED
    BY <1>1, <2>1, <2>2, <2>3, Zenon DEF RowArmed

\* The steps of a PATCH are steps of an operation.
LEMMA PatchIsOpStep ==
    ASSUME TypeOK, Sequenced, NEW i \in Instances, Patching(i)
    PROVE  OpStep(i)
<1> USE LockStep, OpFields DEF unlocked, leaseVars, ledgerVars, OpStep
<1>1. CASE PatchRejected(i)
  BY <1>1 DEF PatchRejected, RowKept
<1>2. ASSUME NEW sets \in Edits, NEW changes \in SUBSET sets, PatchCommit(i, sets, changes)
      PROVE  OpStep(i)
  <2>1. changes \in SUBSET Kinds
    BY LedgerAssumption, SMTT(30)
  <2>2. \A j \in Instances \ {i} : op'[j] = Missing(op[j], changes)
    BY <1>2, Zenon DEF PatchCommit
  <2>3. \A j \in Instances \ {i} : SameOp(op[j], op'[j])
    <3> SUFFICES ASSUME NEW j \in Instances \ {i}
                 PROVE  SameOp(op[j], op'[j])
      OBVIOUS
    <3>1. op[j] \in Ops
      BY DEF TypeOK
    <3>2. SameOp(op[j], Missing(op[j], changes))
      BY <2>1, <3>1, FormFields, ZenonT(30)
    <3> QED
      BY <2>2, <3>2 DEF SameOp
  <2>4. UNCHANGED <<leaseVars, queue>>
    BY <1>2, Zenon DEF PatchCommit
  <2>6. RowKept(i) \/ RowArmed(i)
    BY <1>2, CommitFields DEF RowKept
  <2> QED
    BY <2>3, <2>4, <2>6
<1>3. CASE PatchAppliedLive(i)
  <2> DEFINE p == [op[i] EXCEPT !.at = "resolve"]
  <2>1. Moved(op[i], "resolve", p)
    BY FormFields, Zenon DEF Stages
  <2>2. /\ FinishOp(i, Launch(i)) \/ NextStage(i, p)
        /\ op[i].at = "apply" /\ UNCHANGED <<app, leaseVars>>
    BY <1>3 DEF PatchAppliedLive
  <2> HIDE DEF p
  <2> QED
    BY <2>1, <2>2 DEF RowKept, Busy, Moved
<1>4. CASE PatchUnsupportedLive(i)
  BY <1>4 DEF PatchUnsupportedLive, RowKept
<1>5. CASE PatchFailedLive(i)
  <2> DEFINE p == [op[i] EXCEPT !.at = "resolve", !.outcome = "failed"]
  <2>1. Moved(op[i], "resolve", p)
    BY FormFields, Zenon DEF Stages, Outcomes
  <2>2. NextStage(i, p) /\ op[i].at = "apply" /\ UNCHANGED <<app, leaseVars>>
    BY <1>5 DEF PatchFailedLive
  <2> HIDE DEF p
  <2> QED
    BY <2>1, <2>2 DEF RowKept, Busy, Moved
<1>6. CASE PatchResolve(i)
  <2>1. ResolveOutcome(i) \in OutcomeOrNone
    BY DEF ResolveOutcome, OutcomeOrNone, Outcomes
  <2>2. FinishOp(i, {}) \/ FinishOp(i, Launch(i))
    BY <1>6 DEF PatchResolve
  <2>3. \/ app' = app
        \/ /\ holder = i /\ app.last = op[i].priorLast
           /\ app' = Resolved(op[i], ResolveOutcome(i))
    BY <1>6 DEF PatchResolve, Fenced, Resolvable
  <2>4. op[i].priorLast < op[i].seq
    BY <1>6 DEF PatchResolve, Sequenced
  <2> QED
    BY <1>6, <2>1, <2>2, <2>3, <2>4, ResolveFields DEF PatchResolve, RowKept, RowReported
<1> QED
  BY <1>1, <1>2, <1>3, <1>4, <1>5, <1>6 DEF Patching

\* The steps of a redeploy are steps of an operation.
LEMMA RedeployIsOpStep ==
    ASSUME TypeOK, NEW i \in Instances, Redeploying(i)
    PROVE  OpStep(i)
<1> USE LockStep, OpFields DEF unlocked, leaseVars, ledgerVars, OpStep
<1>0. \A o \in Outcomes : op[i].at \in Busy /\ Ended(i, o) /\ app' = app =>
        /\ RowKept(i)
        /\ queue' \subseteq queue \cup Launch(i)
        /\ \A j \in Instances \ {i} : SameOp(op[j], op'[j])
  <2> SUFFICES ASSUME NEW o \in Outcomes, op[i].at \in Busy, Ended(i, o), app' = app
               PROVE  /\ RowKept(i)
                      /\ queue' \subseteq queue \cup Launch(i)
                      /\ \A j \in Instances \ {i} : SameOp(op[j], op'[j])
    OBVIOUS
  <2> DEFINE p == [op[i] EXCEPT !.at = "record", !.outcome = o, !.full = FALSE, !.missed = {}]
  <2>1. Moved(op[i], "record", p)
    BY FormFields, Zenon DEF Stages
  <2>2. NextStage(i, p)
    BY DEF Ended
  <2> HIDE DEF p
  <2> QED
    BY <2>1, <2>2 DEF RowKept, Moved
<1>1. CASE RedeployClaim(i)
  <2> DEFINE p == [op[i] EXCEPT !.at = "claimed"]
  <2>1. Moved(op[i], "claimed", p)
    BY FormFields, Zenon DEF Stages
  <2>2. \/ app' = app /\ FinishOp(i, {})
        \/ /\ ~Fenced(i, op[i].lease) /\ Claimable(op[i].seq)
           /\ app' = Claimed(op[i].seq, op[i].lease)
           /\ NextStage(i, p)
    BY <1>1 DEF RedeployClaim
  <2> HIDE DEF p
  <2> QED
    BY <1>1, <2>1, <2>2 DEF RedeployClaim, RowKept, RowClaimed, Moved
<1>2. CASE CycleBegin(i)
  <2> DEFINE p == [op[i] EXCEPT !.at = "cycle", !.full = NeedsFullCycle]
  <2>1. NeedsFullCycle \in BOOLEAN
    BY DEF NeedsFullCycle
  <2>2. Moved(op[i], "cycle", p)
    BY <2>1, FormFields, Zenon DEF Stages
  <2>3. NextStage(i, p) /\ op[i].at = "claimed" /\ UNCHANGED <<app, leaseVars>>
    BY <1>2 DEF CycleBegin
  <2> HIDE DEF p
  <2> QED
    BY <2>2, <2>3 DEF RowKept, Busy, Moved
<1>3. CASE CycleSkipped(i)
  BY <1>0, <1>3 DEF CycleSkipped, Outcomes, Busy
<1>4. CASE CycleFails(i)
  BY <1>0, <1>4 DEF CycleFails, Outcomes, Busy
<1>5. CASE CycleBoots(i)
  BY <1>0, <1>5 DEF CycleBoots, Outcomes, Busy
<1>6. CASE CycleResizes(i)
  BY <1>0, <1>6 DEF CycleResizes, Outcomes, Busy
<1>7. CASE RedeployRecord(i)
  <2>1. FinishOp(i, {}) /\ UNCHANGED leaseVars
    BY <1>7 DEF RedeployRecord
  <2>2. \/ app' = app
        \/ /\ holder = i /\ app.last < op[i].seq
           /\ app' = Reported(op[i].seq, op[i].outcome)
    BY <1>7 DEF RedeployRecord, Fenced, Recordable
  <2> QED
    BY <2>1, <2>2, ReportFields DEF RowKept, RowReported
<1> QED
  BY <1>1, <1>2, <1>3, <1>4, <1>5, <1>6, <1>7 DEF Redeploying

\* The steps of a boot are steps of an operation.
LEMMA BootIsOpStep ==
    ASSUME TypeOK, NEW i \in Instances, Booting(i)
    PROVE  OpStep(i)
<1> USE LockStep, OpFields DEF unlocked, leaseVars, ledgerVars, OpStep
<1>0. ASSUME NEW o \in Outcomes, UNCHANGED <<leaseVars, app>>,
             NextStage(i, [op[i] EXCEPT !.at = "bootRecord", !.outcome = o, !.missed = {}])
      PROVE  OpStep(i)
  <2> DEFINE p == [op[i] EXCEPT !.at = "bootRecord", !.outcome = o, !.missed = {}]
  <2>1. Moved(op[i], "bootRecord", p)
    BY FormFields, Zenon DEF Stages
  <2>2. NextStage(i, p)
    BY <1>0
  <2> HIDE DEF p
  <2> QED
    BY <1>0, <2>1, <2>2 DEF RowKept, Busy, Moved
<1>1. CASE BootRefused(i)
  BY <1>1 DEF BootRefused, RowKept
<1>2. CASE BootsPool(i)
  BY <1>0, <1>2 DEF BootsPool, Outcomes
<1>3. ASSUME NEW o \in {"skipped", "failed"}, BootsNothing(i, o)
      PROVE  OpStep(i)
  BY <1>0, <1>3 DEF BootsNothing, Outcomes
<1>4. CASE BootRecord(i)
  <2>1. FinishOp(i, {}) /\ UNCHANGED leaseVars /\ op[i].at = "bootRecord"
    BY <1>4 DEF BootRecord
  <2>2. \/ app' = app
        \/ /\ holder = i /\ app.last <= op[i].seq
           /\ app' = Reported(op[i].seq, op[i].outcome)
    BY <1>4 DEF BootRecord, Fenced, BootRecordable
  <2> QED
    BY <2>1, <2>2, ReportFields DEF RowKept, RowReported
<1> QED
  BY <1>1, <1>2, <1>3, <1>4 DEF Booting

\* So is giving up a store call, whether or not it took effect.
LEMMA GivingUpIsOpStep ==
    ASSUME TypeOK, Sequenced, NEW i \in Instances, GivingUp(i)
    PROVE  OpStep(i)
<1> USE LockStep, OpFields DEF unlocked, leaseVars, ledgerVars, OpStep
<1>1. CASE PatchAborted(i)
  BY <1>1 DEF PatchAborted, RowKept
<1>2. CASE PatchResolveGivesUp(i)
  <2>1. ResolveOutcome(i) \in OutcomeOrNone
    BY DEF ResolveOutcome, OutcomeOrNone, Outcomes
  <2>2. FinishOp(i, Launch(i)) /\ UNCHANGED leaseVars
    BY <1>2 DEF PatchResolveGivesUp
  <2>3. \/ app' = app
        \/ /\ holder = i /\ app.last = op[i].priorLast
           /\ app' = Resolved(op[i], ResolveOutcome(i))
    BY <1>2 DEF PatchResolveGivesUp, Fenced, Resolvable
  <2>4. op[i].priorLast < op[i].seq
    BY <1>2 DEF PatchResolveGivesUp, Sequenced
  <2> QED
    BY <2>1, <2>2, <2>3, <2>4, ResolveFields DEF RowKept, RowReported
<1>3. CASE RedeployClaimGivesUp(i)
  BY <1>3 DEF RedeployClaimGivesUp, RowKept, RowClaimed
<1>4. CASE RedeployRecordGivesUp(i)
  <2>1. FinishOp(i, {}) /\ UNCHANGED leaseVars
    BY <1>4 DEF RedeployRecordGivesUp
  <2>2. \/ app' = app
        \/ /\ holder = i /\ app.last < op[i].seq
           /\ app' = Reported(op[i].seq, op[i].outcome)
    BY <1>4 DEF RedeployRecordGivesUp, Fenced, Recordable
  <2> QED
    BY <2>1, <2>2, ReportFields DEF RowKept, RowReported
<1>5. CASE BootRecordGivesUp(i)
  BY <1>5 DEF BootRecordGivesUp, RowKept
<1> QED
  BY <1>1, <1>2, <1>3, <1>4, <1>5 DEF GivingUp


----------------------------------------------------------------------------
\* A step of an operation preserves the order of the seqs.
LEMMA OpStepSequenced ==
    ASSUME TypeOK, Sequenced, NEW i \in Instances, OpStep(i)
    PROVE  Sequenced'
<1> USE DEF SameOp, Onward
<1>0. /\ app.launched \in Nat /\ app.last \in Nat
      /\ \A j \in Instances : op[j].seq \in Nat /\ op[j].priorLast \in Nat
      /\ \A q \in queue : q[2] \in Nat
  BY DEF TypeOK, Apps, Ops
<1>1. app'.launched >= app.launched /\ app'.launched \in Nat
  <2>1. CASE RowKept(i) \/ RowArmed(i) \/ RowReported(i)
    BY <1>0, <2>1 DEF RowKept, RowArmed, RowReported
  <2>2. CASE RowClaimed(i)
    BY <1>0, <2>2 DEF RowClaimed, Claimed, TypeOK, Apps
  <2> QED
    BY <2>1, <2>2 DEF OpStep
<1>2. app'.last <= app'.launched
  <2>1. CASE RowKept(i)
    BY <2>1 DEF RowKept, Sequenced
  <2>2. CASE RowArmed(i)
    BY <1>0, <2>2 DEF RowArmed, Sequenced
  <2>3. CASE RowClaimed(i)
    BY <2>3 DEF RowClaimed, Claimed, Sequenced, TypeOK, Apps
  <2>4. CASE RowReported(i)
    BY <2>4 DEF RowReported, Sequenced
  <2> QED
    BY <2>1, <2>2, <2>3, <2>4 DEF OpStep
<1>3. \A q \in queue' : q[2] <= app'.launched
  BY <1>0, <1>1 DEF OpStep, Sequenced, Launch
<1>4. ASSUME NEW j \in Instances \ {i}
      PROVE  /\ op'[j].seq <= app'.launched
             /\ op'[j].at \in {"apply", "resolve"} => op'[j].priorLast < op'[j].seq
  BY <1>0, <1>1 DEF OpStep, Sequenced
<1>5. /\ op'[i].seq <= app'.launched
      /\ op'[i].at \in {"apply", "resolve"} => op'[i].priorLast < op'[i].seq
  <2>0. NoOp.at = "idle" /\ NoOp.seq = 0
    BY DEF NoOp
  <2>1. CASE op'[i] = NoOp
    BY <1>1, <2>0, <2>1
  <2>2. CASE RowKept(i)
    BY <1>0, <1>1, <2>1, <2>2 DEF RowKept, Sequenced
  <2>3. CASE RowArmed(i)
    BY <1>0, <2>3 DEF RowArmed, Sequenced
  <2>4. CASE RowClaimed(i)
    BY <1>0, <1>1, <2>1, <2>4 DEF RowClaimed, Sequenced
  <2>5. CASE RowReported(i)
    BY <2>1, <2>5 DEF RowReported
  <2> QED
    BY <2>2, <2>3, <2>4, <2>5 DEF OpStep
<1> QED
  BY <1>2, <1>3, <1>4, <1>5 DEF Sequenced

\* A step of an operation acts under an epoch that has begun.
LEMMA OpStepEpochs ==
    ASSUME TypeOK, EpochsBegun, NEW i \in Instances, OpStep(i)
    PROVE  EpochsBegun'
<1>1. NoOp.lease = 0 /\ leaseEpoch \in Nat
  BY DEF NoOp, TypeOK
<1>2. \A j \in Instances : op'[j].lease \in {op[j].lease, 0}
  BY <1>1 DEF OpStep, RowKept, RowArmed, RowClaimed, RowReported, SameOp, Onward
<1> QED
  BY <1>1, <1>2 DEF OpStep, EpochsBegun, leaseVars

\* A step of an operation leaves every claim with its claimant: only the
\* instance the lease row names writes the columns of a claim.
LEMMA OpStepClaims ==
    ASSUME TypeOK, ClaimsKept, NEW i \in Instances, OpStep(i)
    PROVE  ClaimsKept'
<1> SUFFICES ASSUME NEW j \in Instances, op'[j].at \in Busy, op'[j].lease # 0,
                    holder' = j, leaseEpoch' = op'[j].lease
             PROVE  /\ app'.claimSeq = op'[j].seq /\ app'.claimEpoch = op'[j].lease
                    /\ app'.last < op'[j].seq
  BY DEF ClaimsKept, Recordable
<1> USE DEF SameOp, Onward
<1>0. UNCHANGED <<holder, leaseEpoch>>
  BY DEF OpStep, leaseVars
<1>1. NoOp.at = "idle"
  BY DEF NoOp
<1>2. CASE RowKept(i)
  <2>1. op[j].at \in Busy /\ op'[j].seq = op[j].seq /\ op'[j].lease = op[j].lease
    BY <1>1, <1>2 DEF OpStep, RowKept, Busy
  <2> QED
    BY <1>0, <1>2, <2>1 DEF RowKept, ClaimsKept, Recordable
<1>3. CASE RowArmed(i)
  <2>1. j # i
    BY <1>3 DEF RowArmed, Busy
  <2>2. op'[j].at = op[j].at /\ op'[j].seq = op[j].seq /\ op'[j].lease = op[j].lease
    BY <2>1 DEF OpStep
  <2>3. /\ app'.claimSeq = app.claimSeq /\ app'.claimEpoch = app.claimEpoch
        /\ app'.last = app.last
    BY <1>3 DEF RowArmed
  <2> QED
    BY <1>0, <2>2, <2>3 DEF ClaimsKept, Recordable
<1>4. CASE RowClaimed(i)
  <2>1. j = i
    BY <1>0, <1>4 DEF RowClaimed, Fenced
  <2>2. op'[i].seq = op[i].seq /\ op'[i].lease = op[i].lease
    BY <1>1, <1>4, <2>1 DEF RowClaimed, Busy
  <2>3. /\ app'.claimSeq = op[i].seq /\ app'.claimEpoch = op[i].lease
        /\ app'.last = app.last
    BY <1>4 DEF RowClaimed, Claimed, TypeOK, Apps
  <2> QED
    BY <1>4, <2>1, <2>2, <2>3 DEF RowClaimed, Claimable, Recordable
<1>5. CASE RowReported(i)
  BY <1>0, <1>1, <1>5 DEF RowReported, Busy
<1> QED
  BY <1>2, <1>3, <1>4, <1>5 DEF OpStep

\* A change of ownership preserves the invariant: a new epoch is one that no
\* operation can have begun under.
LEMMA OwnershipStep ==
    ASSUME IInv, NEW i \in Instances, Ownership(i)
    PROVE  Sequenced' /\ EpochsBegun' /\ ClaimsKept' /\ UNCHANGED app
<1> USE DEF IInv, unowned, leaseVars, ledgerVars
<1>0. /\ leaseEpoch \in Nat /\ app.launched \in Nat
      /\ \A j \in Instances : known[j] \in Nat /\ op[j].lease \in Nat
  BY DEF TypeOK, Apps, Ops
<1>1. CASE LeaseTaken(i)
  <2>1. UNCHANGED <<app, op, queue, known>> /\ leaseEpoch' = leaseEpoch + 1
    BY <1>1 DEF LeaseTaken, Take
  <2>2. \A j \in Instances : op[j].lease <= leaseEpoch
    BY DEF EpochsBegun
  <2> QED
    BY <1>0, <2>1, <2>2 DEF Sequenced, EpochsBegun, ClaimsKept
<1>2. CASE LeaseLearned(i)
  <2>1. UNCHANGED <<app, op, queue, holder, leaseEpoch>>
    BY <1>2 DEF LeaseLearned, Learn
  <2>2. \A j \in Instances : known'[j] \in {known[j], leaseEpoch}
    BY <1>2 DEF LeaseLearned, Learn, TypeOK
  <2> QED
    BY <1>0, <2>1, <2>2 DEF Sequenced, EpochsBegun, ClaimsKept, Recordable
<1>3. CASE LeaseRenewed(i)
  <2>1. UNCHANGED <<app, op, queue, holder, leaseEpoch, known>>
    BY <1>3 DEF LeaseRenewed, Renew
  <2> QED
    BY <2>1 DEF Sequenced, EpochsBegun, ClaimsKept, Recordable
<1>4. CASE LeaseForgotten(i)
  <2>1. UNCHANGED <<app, op, queue, holder, leaseEpoch>>
    BY <1>4 DEF LeaseForgotten, Forget
  <2>2. \A j \in Instances : known'[j] \in {known[j], 0}
    BY <1>4 DEF LeaseForgotten, Forget, TypeOK
  <2> QED
    BY <1>0, <2>1, <2>2 DEF Sequenced, EpochsBegun, ClaimsKept, Recordable
<1>5. CASE LeaseGivenUp(i)
  <2>1. UNCHANGED <<app, op, queue, leaseEpoch, known>> /\ holder' = NoInstance
    BY <1>5 DEF LeaseGivenUp, GiveUp
  <2> QED
    BY <2>1, LeaseAssumption DEF Sequenced, EpochsBegun, ClaimsKept
<1>6. CASE SpanReady(i) \/ SpanReadyScanFails(i)
  <2>1. UNCHANGED <<app, op, holder, leaseEpoch, known>>
    BY <1>6 DEF SpanReady, SpanReadyScanFails
  <2>2. queue' \subseteq queue \cup {<<i, app.launched, "owed">>}
    BY <1>6 DEF SpanReady, SpanReadyScanFails
  <2> QED
    BY <1>0, <2>1, <2>2 DEF Sequenced, EpochsBegun, ClaimsKept, Recordable
<1>7. CASE Crash(i)
  <2>1. UNCHANGED <<app, holder, leaseEpoch>> /\ queue' \subseteq queue
    BY <1>7 DEF Crash, Forget
  <2>2. \A j \in Instances : known'[j] \in {known[j], 0} /\ op'[j] \in {op[j], NoOp}
    BY <1>7 DEF Crash, Forget, TypeOK
  <2>3. NoOp.at = "idle" /\ NoOp.seq = 0 /\ NoOp.lease = 0
    BY DEF NoOp
  <2>4. Sequenced'
    BY <1>0, <2>1, <2>2, <2>3 DEF Sequenced
  <2>5. EpochsBegun'
    BY <1>0, <2>1, <2>2, <2>3 DEF EpochsBegun
  <2>6. ClaimsKept'
    BY <2>1, <2>2, <2>3 DEF ClaimsKept, Recordable, Busy
  <2> QED
    BY <2>1, <2>4, <2>5, <2>6
<1> QED
  BY <1>1, <1>2, <1>3, <1>4, <1>5, <1>6, <1>7 DEF Ownership

\* Taking the deploy lock preserves the invariant, and so do the operations
\* that hold it for one step only.
LEMMA RequestStep ==
    ASSUME IInv, NEW i \in Instances,
           Requests(i) \/ \E q \in queue : q[1] = i /\ RedeployBegin(q)
    PROVE  Sequenced' /\ EpochsBegun' /\ ClaimsKept' /\ UNCHANGED app
<1> USE DEF IInv, unlocked, leaseVars, ledgerVars
<1>1. UNCHANGED <<app, leaseVars>> /\ queue' \subseteq queue
  BY Zenon
  DEF Requests, PatchBegin, BootBegin, PoolStops, PoolHibernates, PoolWakes, RedeployBegin
<1>2. ASSUME NEW j \in Instances
      PROVE  \/ op'[j] = op[j]
             \/ /\ op'[j].at \in {"patch", "boot", "claim"}
                /\ op'[j].seq <= app.launched /\ op'[j].lease <= leaseEpoch
  <2>0. /\ app.launched \in Nat /\ leaseEpoch \in Nat
        /\ 0 <= app.launched /\ 0 <= leaseEpoch
    BY DEF TypeOK, Apps
  <2>1. CASE PatchBegin(i)
    <3>1. op' = [op EXCEPT ![i] = [NoOp EXCEPT !.at = "patch"]]
      BY <2>1 DEF PatchBegin, StartOp
    <3> QED
      BY <2>0, <3>1 DEF TypeOK, NoOp
  <2>2. CASE BootBegin(i)
    <3>1. op' = [op EXCEPT ![i] = [NoOp EXCEPT !.at = "boot", !.seq = app.launched]]
      BY <2>2 DEF BootBegin, StartOp
    <3> QED
      BY <2>0, <3>1 DEF TypeOK, NoOp
  <2>3. CASE PoolStops(i) \/ PoolHibernates(i) \/ PoolWakes(i)
    BY <2>3 DEF PoolStops, PoolHibernates, PoolWakes
  <2>4. ASSUME NEW q \in queue, q[1] = i, RedeployBegin(q)
        PROVE  \/ op'[j] = op[j]
               \/ /\ op'[j].at = "claim"
                  /\ op'[j].seq <= app.launched /\ op'[j].lease <= leaseEpoch
    <3>1. op' = [op EXCEPT ![i] = [NoOp EXCEPT !.at = "claim", !.seq = q[2], !.lease = known[i]]]
      BY <2>4, Zenon DEF RedeployBegin, StartOp
    <3>2. q[2] <= app.launched /\ known[i] <= leaseEpoch
      BY DEF Sequenced, EpochsBegun
    <3> QED
      BY <3>1, <3>2 DEF TypeOK, NoOp
  <2> QED
    BY <2>1, <2>2, <2>3, <2>4 DEF Requests
<1>3. Sequenced'
  BY <1>1, <1>2 DEF Sequenced
<1>4. EpochsBegun'
  BY <1>1, <1>2 DEF EpochsBegun
<1>5. ClaimsKept'
  BY <1>1, <1>2 DEF ClaimsKept, Recordable, Busy
<1> QED
  BY <1>1, <1>3, <1>4, <1>5


\* Every step is one of an operation, or leaves the row alone.
LEMMA StepKinds ==
    ASSUME IInv, [Next]_vars
    PROVE  \/ \E i \in Instances : OpStep(i)
           \/ Sequenced' /\ EpochsBegun' /\ ClaimsKept' /\ UNCHANGED app
<1>1. CASE LeaseExpires
  <2>1. UNCHANGED <<app, op, queue, holder, leaseEpoch, known>>
    BY <1>1 DEF LeaseExpires, Expire, unowned, ledgerVars
  <2> QED
    BY <2>1 DEF IInv, Sequenced, EpochsBegun, ClaimsKept, Recordable
<1>2. CASE \E i \in Instances : Ownership(i) \/ Requests(i)
  BY <1>2, OwnershipStep, RequestStep
<1>3. CASE \E i \in Instances : Patching(i) \/ Redeploying(i) \/ Booting(i) \/ GivingUp(i)
  BY <1>3, PatchIsOpStep, RedeployIsOpStep, BootIsOpStep, GivingUpIsOpStep DEF IInv
<1>4. CASE \E q \in queue : RedeployBegin(q)
  <2>1. \A q \in queue : q[1] \in Instances
    BY DEF IInv, TypeOK
  <2> QED
    BY <1>4, <2>1, RequestStep
<1>5. CASE UNCHANGED vars
  <2>1. UNCHANGED <<app, op, queue, holder, leaseEpoch, known>>
    BY <1>5 DEF vars, leaseVars, ledgerVars
  <2> QED
    BY <2>1 DEF IInv, Sequenced, EpochsBegun, ClaimsKept, Recordable
<1> QED
  BY <1>1, <1>2, <1>3, <1>4, <1>5 DEF Next

\* The invariant holds at the start.
LEMMA InitIInv == Init => IInv
<1> SUFFICES ASSUME Init PROVE IInv
  OBVIOUS
<1>1. NoOp \in Ops /\ NoOp.at = "idle" /\ NoOp.seq = 0 /\ NoOp.lease = 0
  BY DEF Ops, Stages, NoOp
<1>2. app \in Apps /\ app.last = 0 /\ app.launched = 0
  BY DEF Init, Apps
<1>3. TypeOK
  BY <1>1, <1>2 DEF Init, LeaseInit, TypeOK
<1>4. Sequenced /\ EpochsBegun /\ ClaimsKept
  BY <1>1, <1>2 DEF Init, LeaseInit, Sequenced, EpochsBegun, ClaimsKept, Busy
<1> QED
  BY <1>3, <1>4 DEF IInv

\* The invariant is inductive.
LEMMA NextIInv == IInv /\ [Next]_vars => IInv'
<1> SUFFICES ASSUME IInv, [Next]_vars PROVE IInv'
  OBVIOUS
<1>1. TypeOK'
  BY TypeStep DEF IInv
<1>2. CASE \E i \in Instances : OpStep(i)
  BY <1>1, <1>2, OpStepSequenced, OpStepEpochs, OpStepClaims DEF IInv
<1>3. CASE Sequenced' /\ EpochsBegun' /\ ClaimsKept' /\ UNCHANGED app
  BY <1>1, <1>3 DEF IInv
<1> QED
  BY <1>2, <1>3, StepKinds

\* The row, the lease and the operations keep their types, in every behaviour
\* of the ledger.
THEOREM LedgerTypes == Spec => []TypeOK
<1>1. IInv => TypeOK
  BY DEF IInv
<1> QED
  BY <1>1, InitIInv, NextIInv, PTL DEF Spec

\* ClaimRedeploy and RecordRedeployOutcome: a redeploy whose instance still holds
\* the lease it captured can record what it did, whatever the other instances,
\* whether or not they share its deploy lock, wrote meanwhile.
THEOREM ClaimIsKept == Spec => []LeaseholderKeepsItsClaim
<1>1. IInv => LeaseholderKeepsItsClaim
  BY DEF IInv, ClaimsKept, LeaseholderKeepsItsClaim, Busy, Fenced
<1> QED
  BY <1>1, InitIInv, NextIInv, PTL DEF Spec

\* RecordRedeployOutcome, RecordBootOutcome and ResolveLiveSettingsRedeploy:
\* last_redeploy_seq never moves back, and a redeploy never overwrites the
\* outcome of a seq.
THEOREM OutcomesMoveForward == Spec => OneOutcomePerSeq
<1>1. ASSUME IInv, [Next]_vars
      PROVE  [/\ app'.last >= app.last
              /\ app'.last = app.last /\ app'.outcome # app.outcome
                   => \E i \in Instances : op[i].at = "bootRecord" /\ op'[i].at = "idle"]_vars
  <2>1. app.last \in Nat /\ NoOp.at = "idle"
    BY <1>1 DEF IInv, TypeOK, Apps, NoOp
  <2>2. CASE UNCHANGED app
    BY <2>1, <2>2
  <2>3. ASSUME NEW i \in Instances, OpStep(i)
        PROVE  /\ app'.last >= app.last
               /\ app'.last = app.last /\ app'.outcome # app.outcome
                    => op[i].at = "bootRecord" /\ op'[i].at = "idle"
    <3>1. op[i].seq \in Nat
      BY <1>1, OpFields DEF IInv
    <3>2. CASE RowKept(i) \/ RowArmed(i)
      BY <2>1, <3>2 DEF RowKept, RowArmed
    <3>3. CASE RowClaimed(i)
      BY <1>1, <2>1, <3>3 DEF RowClaimed, Claimed, IInv, TypeOK, Apps
    <3>4. CASE RowReported(i)
      BY <2>1, <3>1, <3>4 DEF RowReported
    <3> QED
      BY <2>3, <3>2, <3>3, <3>4 DEF OpStep
  <2> QED
    BY <1>1, <2>2, <2>3, StepKinds
<1> QED
  BY <1>1, InitIInv, NextIInv, PTL DEF Spec, OneOutcomePerSeq

-----------------------------------------------------------------------------
(* What is owed, where operations exclude each other.                        *)

\* The deploy lock excludes: the instances share it, or there is but one.
OneLock == SharedDir \/ \A i, j \in Instances : i = j

\* The pool lags in what only a cycle of all of it brings about.
Structure == Hot \cup {"isolation"}
Lags == stale \cap Structure # {}

\* What an operation in progress knows of the lag: a PATCH that found nothing
\* owed answers for what it changed; a resize, a completed cycle and a boot leave
\* nothing behind.
Answers(p) ==
    /\ p.at = "apply" /\ p.priorFull <= p.priorLast => stale \cap Structure \subseteq p.changes
    /\ p.at = "resolve" /\ p.priorFull <= p.priorLast => ~Lags
    /\ p.at = "cycle" /\ ~p.full => ~Lags
    /\ p.at = "record" /\ p.outcome = "completed" => ~Lags
    /\ p.at = "bootRecord" => ~Lags

OwedInv ==
    /\ \A i, j \in Instances : op[i].at # "idle" /\ op[j].at # "idle" => i = j
    /\ Lags => Up /\ NeedsFullCycle
    /\ \A i \in Instances : op[i].missed = {} /\ Answers(op[i])

\* While an operation is in progress, the others are idle.
LEMMA OthersIdle ==
    ASSUME TypeOK, OwedInv, NEW i \in Instances, op[i].at # "idle"
    PROVE  /\ \A j \in Instances \ {i} : op[j].at = "idle"
           /\ \A l : FinishOp(i, l) =>
                op'[i] = NoOp /\ \A j \in Instances \ {i} : op'[j] = op[j]
           /\ \A p : NextStage(i, p) =>
                op'[i] = p /\ \A j \in Instances \ {i} : op'[j] = op[j]
BY DEF TypeOK, OwedInv, FinishOp, NextStage

\* Nothing is in progress where the lock is free.
LEMMA FreeIsQuiet ==
    ASSUME OneLock, NEW i \in Instances, LockFree(i)
    PROVE  \A j \in Instances : op[j].at = "idle"
BY Zenon DEF OneLock, LockFree

\* What the step of an operation has to show.
LEMMA OwedKept ==
    ASSUME OwedInv, NEW i \in Instances,
           \A j \in Instances \ {i} : op[j].at = "idle" /\ op'[j] = op[j],
           Lags' => Up' /\ NeedsFullCycle',
           op'[i].missed = {}, Answers(op[i])'
    PROVE  OwedInv'
<1>1. \A j \in Instances \ {i} : op'[j].at = "idle" /\ op'[j].missed = {}
  BY DEF OwedInv
<1>2. \A j \in Instances \ {i} : Answers(op[j])'
  BY <1>1 DEF Answers
<1> QED
  BY <1>1, <1>2 DEF OwedInv

\* An operation that ends answers for nothing.
LEMMA Silent ==
    /\ NoOp.missed = {} /\ NoOp.at = "idle"
    /\ \A p : p.at \in {"idle", "patch", "claim", "claimed", "boot"} => Answers(p)
BY DEF NoOp, Answers

\* A resize and what the proxy takes over at once are not Structure; frozen is
\* neither.
LEMMA Disjoint ==
    Frozen \cap Structure = {} /\ Resizable \cap Structure = {} /\ Resources \cap Structure = {}
BY DEF Frozen, Resizable, Resources, Structure, Hot

\* PatchAppSettings arms what it makes the pool lag in.
LEMMA CommitOwed ==
    ASSUME TypeOK, Sequenced, OwedInv, NEW i \in Instances,
           NEW sets \in Edits, NEW changes \in SUBSET sets, PatchCommit(i, sets, changes)
    PROVE  OwedInv'
<1> USE DEF unlocked, leaseVars
<1>1. op[i].at = "patch" /\ op[i] \in Ops
  <2>1. op[i].at = "patch"
    BY Zenon DEF PatchCommit
  <2> QED
    BY <2>1 DEF TypeOK
<1>2. \A j \in Instances \ {i} : op[j].at = "idle" /\ op'[j] = op[j]
  <2>1. \A j \in Instances \ {i} : op[j].at = "idle"
    BY <1>1, OthersIdle
  <2>2. \A j \in Instances \ {i} : op'[j] = Missing(op[j], changes)
    BY Zenon DEF PatchCommit
  <2> QED
    BY <2>1, <2>2 DEF Missing
<1>3. app.launched \in Nat /\ app.full \in Nat /\ app.last \in Nat /\ app.last <= app.launched
  BY DEF TypeOK, Apps, Sequenced
<1>4. op[i].missed = {} /\ status' = status
  BY Zenon DEF OwedInv, PatchCommit
<1> DEFINE degraded == status = "degraded"
           repair == degraded /\ (sets \cap Resizable # {}
                                  \/ (degraded /\ resourceError /\ sets \cap Resources # {}))
           armed == Up /\ (changes # {} \/ repair)
<1>5. CASE ~armed
  <2>1. app' = app /\ op'[i] = NoOp
    BY <1>5, Zenon DEF PatchCommit
  <2>2. stale' \cap Structure = stale \cap Structure
    <3>1. CASE Up
      BY <1>5, <3>1 DEF PatchCommit
    <3>2. CASE ~Up
      <4>1. stale' = stale \cup (changes \cap Frozen) \/ stale' = stale
        BY <3>2 DEF PatchCommit
      <4> QED
        BY <4>1, Disjoint
    <3> QED
      BY <3>1, <3>2
  <2>3. Answers(op[i])'
    BY <2>1 DEF NoOp, Answers
  <2>4. Lags' => Up' /\ NeedsFullCycle'
    BY <1>4, <2>1, <2>2 DEF OwedInv, Lags, Up, NeedsFullCycle
  <2> QED
    BY <1>2, <2>1, <2>3, <2>4, OwedKept, Silent
<1>6. CASE armed
  <2>1. stale' = stale \cup changes /\ Up
    BY <1>6, Zenon DEF PatchCommit
  <2>2. app' = [app EXCEPT !.launched = app.launched + 1,
                  !.full = IF changes \subseteq {"replicas"} THEN app.full ELSE app.launched + 1]
    BY <1>6, Zenon DEF PatchCommit
  <2>3. /\ app'.last = app.last
        /\ app'.full = IF changes \subseteq {"replicas"} THEN app.full ELSE app.launched + 1
    BY <2>2 DEF TypeOK, Apps
  <2>4. PICK d, r \in BOOLEAN :
          op'[i] = [op[i] EXCEPT !.at = "apply", !.seq = app.launched + 1, !.sets = sets,
                      !.changes = changes, !.wasDegraded = d, !.retry = r,
                      !.priorFull = app.full, !.priorLast = app.last]
    <3> DEFINE r0 == degraded /\ resourceError /\ sets \cap Resources # {}
    <3>1. op'[i] = [op[i] EXCEPT !.at = "apply", !.seq = app.launched + 1, !.sets = sets,
                      !.changes = changes, !.wasDegraded = degraded, !.retry = r0,
                      !.priorFull = app.full, !.priorLast = app.last]
      BY <1>6, Zenon DEF PatchCommit
    <3>2. degraded \in BOOLEAN /\ r0 \in BOOLEAN
      OBVIOUS
    <3> HIDE DEF degraded, r0
    <3> QED
      BY <3>1, <3>2, Zenon
  <2>5. /\ op'[i].at = "apply" /\ op'[i].changes = changes /\ op'[i].missed = {}
        /\ op'[i].priorFull = app.full /\ op'[i].priorLast = app.last
    BY <1>1, <1>4, <2>4 DEF Ops
  <2>6. Lags' => Up' /\ NeedsFullCycle'
    <3>1. CASE changes \subseteq {"replicas"}
      <4>1. changes \cap Structure = {}
        BY <3>1 DEF Structure, Hot
      <4>2. stale' \cap Structure = stale \cap Structure /\ app'.full = app.full
        BY <2>1, <2>3, <3>1, <4>1
      <4> QED
        BY <1>4, <2>3, <4>2 DEF OwedInv, Lags, Up, NeedsFullCycle
    <3>2. CASE ~(changes \subseteq {"replicas"})
      BY <1>3, <1>4, <2>1, <2>3, <3>2 DEF Up, NeedsFullCycle
    <3> QED
      BY <3>1, <3>2
  <2>7. app.full <= app.last => stale' \cap Structure \subseteq changes
    BY <1>3, <2>1 DEF OwedInv, Lags, NeedsFullCycle
  <2>8. Answers(op[i])'
    BY <2>5, <2>7 DEF Answers
  <2> QED
    BY <1>2, <2>5, <2>6, <2>8, OwedKept
<1> QED
  BY <1>5, <1>6

\* An operation that ends, or goes on to a stage that answers for nothing new,
\* with the row as it was and the pool lagging in nothing more.
LEMMA OwedEnds ==
    ASSUME TypeOK, OwedInv, NEW i \in Instances, op[i].at # "idle",
           NEW l, FinishOp(i, l),
           Lags' => Up' /\ NeedsFullCycle'
    PROVE  OwedInv'
<1>1. op'[i] = NoOp /\ \A j \in Instances \ {i} : op[j].at = "idle" /\ op'[j] = op[j]
  BY OthersIdle
<1>2. Answers(op[i])'
  BY <1>1 DEF NoOp, Answers
<1> QED
  BY <1>1, <1>2, OwedKept, Silent

\* What shrinks the lag keeps what is owed.
LEMMA OwedStays ==
    ASSUME OwedInv, stale' \cap Structure \subseteq stale, app' = app,
           Up => Up'
    PROVE  Lags' => Up' /\ NeedsFullCycle'
BY DEF OwedInv, Lags, NeedsFullCycle

\* The live part of a PATCH.
LEMMA PatchOwed ==
    ASSUME TypeOK, Sequenced, OwedInv, NEW i \in Instances, Patching(i)
    PROVE  OwedInv'
<1>0. op[i] \in Ops /\ op[i].missed = {} /\ Answers(op[i])
  BY DEF TypeOK, OwedInv
<1>1. CASE PatchRejected(i)
  <2>1. Lags' => Up' /\ NeedsFullCycle'
    BY <1>1, OwedStays DEF PatchRejected, ledgerVars, Up
  <2> QED
    BY <1>1, <2>1, OwedEnds DEF PatchRejected
<1>2. CASE \E sets \in Edits : \E changes \in SUBSET sets : PatchCommit(i, sets, changes)
  BY <1>2, CommitOwed
<1>3. CASE PatchAppliedLive(i)
  <2>1. op[i].at = "apply" /\ app' = app
    BY <1>3 DEF PatchAppliedLive
  <2>2. stale' \subseteq stale \ HotApplied(i) /\ (Up => Up')
    BY <1>3 DEF PatchAppliedLive, SetStatus, Up
  <2>3. Lags' => Up' /\ NeedsFullCycle'
    BY <2>1, <2>2, OwedStays
  <2>4. CASE FinishOp(i, Launch(i))
    BY <2>1, <2>3, <2>4, OwedEnds
  <2>5. CASE /\ NextStage(i, [op[i] EXCEPT !.at = "resolve"])
             /\ "isolation" \notin op[i].changes
    <3>1. /\ op'[i] = [op[i] EXCEPT !.at = "resolve"]
          /\ \A j \in Instances \ {i} : op[j].at = "idle" /\ op'[j] = op[j]
      BY <2>1, <2>5, OthersIdle
    <3>2. /\ op'[i].at = "resolve" /\ op'[i].missed = {}
          /\ op'[i].priorFull = op[i].priorFull /\ op'[i].priorLast = op[i].priorLast
      BY <1>0, <3>1 DEF Ops
    <3>3. op[i].priorFull <= op[i].priorLast => ~Lags'
      BY <1>0, <2>1, <2>2, <2>5 DEF Answers, Lags, Structure, HotApplied
    <3>4. Answers(op[i])'
      BY <3>2, <3>3 DEF Answers
    <3> QED
      BY <2>3, <3>1, <3>2, <3>4, OwedKept
  <2> QED
    BY <1>3, <2>4, <2>5 DEF PatchAppliedLive
<1>4. CASE PatchUnsupportedLive(i)
  <2>1. Lags' => Up' /\ NeedsFullCycle'
    BY <1>4, OwedStays DEF PatchUnsupportedLive, Up
  <2> QED
    BY <1>4, <2>1, OwedEnds DEF PatchUnsupportedLive
<1>5. CASE PatchFailedLive(i)
  <2>1. op[i].at = "apply" /\ app' = app /\ "isolation" \notin op[i].changes
    BY <1>5 DEF PatchFailedLive, TriesLiveResources
  <2>2. stale' \subseteq stale \ HotApplied(i) /\ Up'
    BY <1>5 DEF PatchFailedLive, SetStatus, Up
  <2>3. Lags' => Up' /\ NeedsFullCycle'
    BY <2>1, <2>2, OwedStays
  <2>4. /\ op'[i] = [op[i] EXCEPT !.at = "resolve", !.outcome = "failed"]
        /\ \A j \in Instances \ {i} : op[j].at = "idle" /\ op'[j] = op[j]
    BY <1>5, <2>1, OthersIdle DEF PatchFailedLive
  <2>5. /\ op'[i].at = "resolve" /\ op'[i].missed = {}
        /\ op'[i].priorFull = op[i].priorFull /\ op'[i].priorLast = op[i].priorLast
    BY <1>0, <2>4 DEF Ops
  <2>6. op[i].priorFull <= op[i].priorLast => ~Lags'
    BY <1>0, <2>1, <2>2 DEF Answers, Lags, Structure, HotApplied
  <2>7. Answers(op[i])'
    BY <2>5, <2>6 DEF Answers
  <2> QED
    BY <2>3, <2>4, <2>5, <2>7, OwedKept
<1>6. CASE PatchResolve(i)
  <2>1. Lags' => Up' /\ NeedsFullCycle'
    <3>1. CASE Resolvable(op[i])
      <4>1. ~Lags
        BY <1>0, <1>6, <3>1, Zenon DEF PatchResolve, Resolvable, Answers
      <4> QED
        BY <1>6, <4>1 DEF PatchResolve, Lags
    <3>2. CASE ~Resolvable(op[i])
      BY <1>6, <3>2, OwedStays DEF PatchResolve, Up
    <3> QED
      BY <3>1, <3>2
  <2>2. op[i].at # "idle" /\ \E l \in {{}, Launch(i)} : FinishOp(i, l)
    BY <1>6 DEF PatchResolve
  <2> QED
    BY <2>1, <2>2, OwedEnds
<1> QED
  BY <1>1, <1>2, <1>3, <1>4, <1>5, <1>6 DEF Patching

\* RecordRedeployOutcome carries forward what the outcome did not bring about.
LEMMA ReportOwed ==
    ASSUME TypeOK, NEW s \in Nat, NEW o, o # "completed",
           app.full > app.last, app.last < s, app' = Reported(s, o)
    PROVE  NeedsFullCycle'
<1>1. app.full \in Nat /\ app.last \in Nat
  BY DEF TypeOK, Apps
<1>2. app'.last = s /\ app'.full = OwedFull(o, s)
  BY DEF Reported, TypeOK, Apps
<1>3. OwedFull(o, s) > s
  BY <1>1 DEF OwedFull
<1> QED
  BY <1>2, <1>3 DEF NeedsFullCycle

\* The outcome of a redeploy, recorded or not.
LEMMA RecordOwed ==
    ASSUME TypeOK, OwedInv, NEW i \in Instances, op[i].at = "record",
           \/ app' = app
           \/ /\ Recordable(op[i].seq, op[i].lease)
              /\ app' = Reported(op[i].seq, op[i].outcome),
           UNCHANGED <<status, stale>>
    PROVE  Lags' => Up' /\ NeedsFullCycle'
<1>1. CASE app' = app
  BY <1>1, OwedStays DEF Up
<1>2. CASE op[i].outcome = "completed"
  <2>1. ~Lags
    BY <1>2, Zenon DEF OwedInv, Answers
  <2> QED
    BY <2>1 DEF Lags
<1>3. CASE /\ op[i].outcome # "completed"
           /\ Recordable(op[i].seq, op[i].lease)
           /\ app' = Reported(op[i].seq, op[i].outcome)
  <2>1. Lags' => Lags /\ Up'
    BY DEF OwedInv, Lags, Up
  <2>2. Lags => NeedsFullCycle'
    BY <1>3, OpFields, ReportOwed DEF OwedInv, NeedsFullCycle, Recordable
  <2> QED
    BY <2>1, <2>2
<1> QED
  BY <1>1, <1>2, <1>3

\* A redeploy: what it is to bring about, what it did, what it reports.
LEMMA RedeployOwed ==
    ASSUME TypeOK, OwedInv, NEW i \in Instances, Redeploying(i)
    PROVE  OwedInv'
<1>0. op[i] \in Ops /\ op[i].missed = {} /\ Answers(op[i])
  BY DEF TypeOK, OwedInv
<1>1. CASE RedeployClaim(i)
  <2>1. Lags' => Up' /\ NeedsFullCycle'
    <3>1. app'.full = app.full /\ app'.last = app.last
      BY <1>1 DEF RedeployClaim, Claimed, TypeOK, Apps
    <3> QED
      BY <1>1, <3>1 DEF RedeployClaim, OwedInv, Lags, Up, NeedsFullCycle
  <2>2. CASE FinishOp(i, {})
    BY <1>1, <2>1, <2>2, OwedEnds DEF RedeployClaim
  <2>3. CASE NextStage(i, [op[i] EXCEPT !.at = "claimed"])
    <3>1. /\ op'[i] = [op[i] EXCEPT !.at = "claimed"]
          /\ \A j \in Instances \ {i} : op[j].at = "idle" /\ op'[j] = op[j]
      BY <1>1, <2>3, OthersIdle DEF RedeployClaim
    <3>2. op'[i].at = "claimed" /\ op'[i].missed = {}
      BY <1>0, <3>1 DEF Ops
    <3>3. Answers(op[i])'
      BY <3>2 DEF Answers
    <3> QED
      BY <2>1, <3>1, <3>2, <3>3, OwedKept
  <2> QED
    BY <1>1, <2>2, <2>3 DEF RedeployClaim
<1>2. CASE CycleBegin(i)
  <2>1. Lags' => Up' /\ NeedsFullCycle'
    BY <1>2, OwedStays DEF CycleBegin, ledgerVars, Up
  <2>2. /\ op'[i] = [op[i] EXCEPT !.at = "cycle", !.full = NeedsFullCycle]
        /\ \A j \in Instances \ {i} : op[j].at = "idle" /\ op'[j] = op[j]
    BY <1>2, OthersIdle DEF CycleBegin
  <2>3. op'[i].at = "cycle" /\ op'[i].missed = {} /\ op'[i].full = NeedsFullCycle
    BY <1>0, <2>2 DEF Ops
  <2>4. ~NeedsFullCycle => ~Lags'
    BY <1>2 DEF CycleBegin, ledgerVars, OwedInv, Lags
  <2>5. Answers(op[i])'
    BY <2>3, <2>4 DEF Answers
  <2> QED
    BY <2>1, <2>2, <2>3, <2>5, OwedKept
<1>3. ASSUME NEW o \in Outcomes, op[i].at = "cycle", Ended(i, o), app' = app,
             stale' \cap Structure \subseteq stale, Up => Up',
             o = "completed" => ~Lags'
      PROVE  OwedInv'
  <2>1. Lags' => Up' /\ NeedsFullCycle'
    BY <1>3, OwedStays
  <2>2. /\ op'[i] = [op[i] EXCEPT !.at = "record", !.outcome = o, !.full = FALSE, !.missed = {}]
        /\ \A j \in Instances \ {i} : op[j].at = "idle" /\ op'[j] = op[j]
    BY <1>3, OthersIdle DEF Ended
  <2>3. op'[i].at = "record" /\ op'[i].missed = {} /\ op'[i].outcome = o
    BY <1>0, <2>2 DEF Ops
  <2>4. Answers(op[i])'
    BY <1>3, <2>3 DEF Answers
  <2> QED
    BY <2>1, <2>2, <2>3, <2>4, OwedKept
<1>4. CASE CycleSkipped(i)
  BY <1>3, <1>4 DEF CycleSkipped, ledgerVars, Outcomes, Up
<1>5. CASE CycleFails(i)
  BY <1>3, <1>5 DEF CycleFails, SetStatus, Outcomes, Up
<1>6. CASE CycleBoots(i)
  <2>1. stale' = {}
    BY <1>0, <1>6 DEF CycleBoots
  <2> QED
    BY <1>3, <1>6, <2>1 DEF CycleBoots, SetStatus, Outcomes, Up, Lags
<1>7. CASE CycleResizes(i)
  <2>1. stale' = stale \ Resizable
    BY <1>0, <1>7 DEF CycleResizes
  <2>2. ~Lags
    BY <1>0, <1>7, Zenon DEF CycleResizes, Answers
  <2>3. ~Lags'
    BY <2>1, <2>2 DEF Lags
  <2> QED
    BY <1>3, <1>7, <2>1, <2>3 DEF CycleResizes, SetStatus, Outcomes, Up
<1>8. CASE RedeployRecord(i)
  <2>1. Lags' => Up' /\ NeedsFullCycle'
    BY <1>8, RecordOwed DEF RedeployRecord
  <2> QED
    BY <1>8, <2>1, OwedEnds DEF RedeployRecord
<1> QED
  BY <1>1, <1>2, <1>4, <1>5, <1>6, <1>7, <1>8 DEF Redeploying

\* A boot leaves nothing behind.
LEMMA BootOwed ==
    ASSUME TypeOK, OwedInv, NEW i \in Instances, Booting(i)
    PROVE  OwedInv'
<1>0. op[i] \in Ops /\ op[i].missed = {} /\ Answers(op[i])
  BY DEF TypeOK, OwedInv
<1>1. CASE BootRefused(i)
  <2>1. Lags' => Up' /\ NeedsFullCycle'
    BY <1>1, OwedStays DEF BootRefused, ledgerVars, Up
  <2> QED
    BY <1>1, <2>1, OwedEnds DEF BootRefused
<1>2. ASSUME NEW o \in Outcomes, op[i].at = "boot", stale' = {},
             NextStage(i, [op[i] EXCEPT !.at = "bootRecord", !.outcome = o, !.missed = {}])
      PROVE  OwedInv'
  <2>1. ~Lags'
    BY <1>2 DEF Lags
  <2>2. /\ op'[i] = [op[i] EXCEPT !.at = "bootRecord", !.outcome = o, !.missed = {}]
        /\ \A j \in Instances \ {i} : op[j].at = "idle" /\ op'[j] = op[j]
    BY <1>2, OthersIdle
  <2>3. op'[i].at = "bootRecord" /\ op'[i].missed = {}
    BY <1>0, <2>2 DEF Ops
  <2>4. Answers(op[i])'
    BY <2>1, <2>3 DEF Answers
  <2> QED
    BY <2>1, <2>2, <2>3, <2>4, OwedKept
<1>3. CASE BootsPool(i)
  BY <1>0, <1>2, <1>3 DEF BootsPool, Outcomes
<1>4. CASE \E o \in {"skipped", "failed"} : BootsNothing(i, o)
  BY <1>2, <1>4 DEF BootsNothing, Outcomes
<1>5. CASE BootRecord(i)
  <2>1. ~Lags'
    BY <1>0, <1>5 DEF BootRecord, Answers, Lags
  <2> QED
    BY <1>5, <2>1, OwedEnds DEF BootRecord
<1> QED
  BY <1>1, <1>3, <1>4, <1>5 DEF Booting

\* Giving up a store call leaves the debt, whether or not the write took effect.
LEMMA GivingUpOwed ==
    ASSUME TypeOK, OwedInv, NEW i \in Instances, GivingUp(i)
    PROVE  OwedInv'
<1>0. op[i] \in Ops /\ Answers(op[i])
  BY DEF TypeOK, OwedInv
<1>1. CASE PatchAborted(i)
  <2>1. Lags' => Up' /\ NeedsFullCycle'
    BY <1>1, OwedStays DEF PatchAborted, ledgerVars, Up
  <2> QED
    BY <1>1, <2>1, OwedEnds DEF PatchAborted
<1>2. CASE PatchResolveGivesUp(i)
  <2>1. Lags' => Up' /\ NeedsFullCycle'
    <3>1. CASE app' = app
      BY <1>2, <3>1, OwedStays DEF PatchResolveGivesUp, Up
    <3>2. CASE Resolvable(op[i])
      <4>1. ~Lags
        BY <1>0, <1>2, <3>2, Zenon DEF PatchResolveGivesUp, Resolvable, Answers
      <4> QED
        BY <1>2, <4>1 DEF PatchResolveGivesUp, Lags
    <3> QED
      BY <1>2, <3>1, <3>2 DEF PatchResolveGivesUp
  <2> QED
    BY <1>2, <2>1, OwedEnds DEF PatchResolveGivesUp
<1>3. CASE RedeployClaimGivesUp(i)
  <2>1. app'.full = app.full /\ app'.last = app.last
    BY <1>3 DEF RedeployClaimGivesUp, Claimed, TypeOK, Apps
  <2>2. Lags' => Up' /\ NeedsFullCycle'
    BY <1>3, <2>1 DEF RedeployClaimGivesUp, OwedInv, Lags, Up, NeedsFullCycle
  <2> QED
    BY <1>3, <2>2, OwedEnds DEF RedeployClaimGivesUp
<1>4. CASE RedeployRecordGivesUp(i)
  <2>1. Lags' => Up' /\ NeedsFullCycle'
    BY <1>4, RecordOwed DEF RedeployRecordGivesUp
  <2> QED
    BY <1>4, <2>1, OwedEnds DEF RedeployRecordGivesUp
<1>5. CASE BootRecordGivesUp(i)
  <2>1. ~Lags'
    BY <1>0, <1>5 DEF BootRecordGivesUp, Answers, Lags
  <2> QED
    BY <1>5, <2>1, OwedEnds DEF BootRecordGivesUp
<1> QED
  BY <1>1, <1>2, <1>3, <1>4, <1>5 DEF GivingUp

\* While nothing is in progress, the pool may change as long as it lags in
\* nothing more, and an operation may begin.
LEMMA QuietOwed ==
    ASSUME OwedInv, \A j \in Instances : op[j].at = "idle",
           Lags' => Up' /\ NeedsFullCycle', NEW i \in Instances,
           \A j \in Instances \ {i} : op'[j] = op[j],
           op'[i].missed = {}, op'[i].at \in {"idle", "patch", "claim", "boot"}
    PROVE  OwedInv'
<1>1. Answers(op[i])'
  BY DEF Answers
<1> QED
  BY <1>1, OwedKept

\* The deploy lock is taken, or held for one step.
LEMMA RequestOwed ==
    ASSUME TypeOK, OneLock, OwedInv, NEW i \in Instances,
           Requests(i) \/ \E q \in queue : q[1] = i /\ RedeployBegin(q)
    PROVE  OwedInv'
<1>1. \A j \in Instances : op[j].at = "idle"
  <2>1. LockFree(i)
    BY Zenon DEF Requests, PatchBegin, BootBegin, PoolStops, PoolHibernates, PoolWakes,
       RedeployBegin, StartOp
  <2> QED
    BY <2>1, FreeIsQuiet
<1>2. ASSUME NEW p, p.missed = {}, p.at \in {"patch", "boot", "claim"}, StartOp(i, p),
             UNCHANGED ledgerVars
      PROVE  OwedInv'
  <2>1. op'[i] = p /\ \A j \in Instances \ {i} : op'[j] = op[j]
    BY <1>2 DEF StartOp, TypeOK
  <2>2. Lags' => Up' /\ NeedsFullCycle'
    BY <1>2, OwedStays DEF ledgerVars, Up
  <2> QED
    BY <1>1, <1>2, <2>1, <2>2, QuietOwed
<1>3. CASE PatchBegin(i)
  <2> DEFINE p == [NoOp EXCEPT !.at = "patch"]
  <2>1. p.missed = {} /\ p.at = "patch"
    BY DEF NoOp
  <2>2. StartOp(i, p) /\ UNCHANGED ledgerVars
    BY <1>3 DEF PatchBegin
  <2> HIDE DEF p
  <2> QED
    BY <1>2, <2>1, <2>2
<1>4. CASE BootBegin(i)
  <2> DEFINE p == [NoOp EXCEPT !.at = "boot", !.seq = app.launched]
  <2>1. p.missed = {} /\ p.at = "boot"
    BY DEF NoOp
  <2>2. StartOp(i, p) /\ UNCHANGED ledgerVars
    BY <1>4 DEF BootBegin
  <2> HIDE DEF p
  <2> QED
    BY <1>2, <2>1, <2>2
<1>5. ASSUME NEW q \in queue, q[1] = i, RedeployBegin(q)
      PROVE  OwedInv'
  <2> DEFINE p == [NoOp EXCEPT !.at = "claim", !.seq = q[2], !.lease = known[i]]
  <2>1. p.missed = {} /\ p.at = "claim"
    BY DEF NoOp
  <2>2. StartOp(i, p) /\ UNCHANGED ledgerVars
    BY <1>5, Zenon DEF RedeployBegin
  <2> HIDE DEF p
  <2> QED
    BY <1>2, <2>1, <2>2
<1>6. CASE PoolStops(i) \/ PoolHibernates(i) \/ PoolWakes(i)
  <2>1. op' = op /\ app' = app
    BY <1>6 DEF PoolStops, PoolHibernates, PoolWakes
  <2>2. ~Lags'
    <3>1. CASE PoolStops(i)
      BY <3>1 DEF PoolStops, Lags
    <3>2. CASE PoolHibernates(i)
      <4>1. stale' \subseteq Frozen
        BY <3>2 DEF PoolHibernates
      <4> QED
        BY <4>1, Disjoint DEF Lags
    <3>3. CASE PoolWakes(i)
      <4>1. ~Up /\ stale' = stale
        BY <3>3 DEF PoolWakes, Up
      <4> QED
        BY <4>1 DEF OwedInv, Lags
    <3> QED
      BY <1>6, <3>1, <3>2, <3>3
  <2>3. op'[i].missed = {} /\ op'[i].at = "idle"
    BY <1>1, <2>1 DEF OwedInv
  <2> QED
    BY <1>1, <2>1, <2>2, <2>3, QuietOwed
<1> QED
  BY <1>3, <1>4, <1>5, <1>6 DEF Requests

\* Ownership may change at any point; a crash ends the operation it hits.
LEMMA OwnershipOwed ==
    ASSUME TypeOK, OwedInv, NEW i \in Instances, Ownership(i)
    PROVE  OwedInv'
<1>1. UNCHANGED ledgerVars
  BY DEF Ownership, LeaseTaken, LeaseLearned, LeaseRenewed, LeaseForgotten, LeaseGivenUp,
     SpanReady, SpanReadyScanFails, Crash, unowned
<1>2. \A j \in Instances : op'[j] \in {op[j], NoOp}
  BY DEF Ownership, LeaseTaken, LeaseLearned, LeaseRenewed, LeaseForgotten, LeaseGivenUp,
     SpanReady, SpanReadyScanFails, Crash, unowned, TypeOK
<1>3. Lags' => Up' /\ NeedsFullCycle'
  BY <1>1, OwedStays DEF ledgerVars, Up
<1>4. ASSUME NEW j \in Instances
      PROVE  op'[j].missed = {} /\ Answers(op[j])'
  <2>1. CASE op'[j] = op[j]
    BY <1>1, <2>1 DEF OwedInv, Answers, Lags, ledgerVars
  <2>2. CASE op'[j] = NoOp
    BY <2>2 DEF NoOp, Answers
  <2> QED
    BY <1>2, <2>1, <2>2
<1>5. \A j \in Instances : op'[j].at # "idle" => op[j].at # "idle"
  BY <1>2, Silent
<1> QED
  BY <1>3, <1>4, <1>5 DEF OwedInv

\* What is owed stays owed, step by step.
LEMMA NextOwed == ASSUME OneLock PROVE IInv /\ OwedInv /\ [Next]_vars => OwedInv'
<1> SUFFICES ASSUME IInv, OwedInv, [Next]_vars PROVE OwedInv'
  OBVIOUS
<1>0. TypeOK /\ Sequenced
  BY DEF IInv
<1>1. CASE LeaseExpires \/ UNCHANGED vars
  <2>1. UNCHANGED <<app, status, stale, op>>
    BY <1>1 DEF LeaseExpires, unowned, vars, ledgerVars
  <2> QED
    BY <2>1 DEF OwedInv, Answers, Lags, Up, NeedsFullCycle
<1>2. CASE \E i \in Instances : Ownership(i)
  BY <1>0, <1>2, OwnershipOwed
<1>3. CASE \E i \in Instances : Requests(i)
  BY <1>0, <1>3, RequestOwed
<1>4. CASE \E i \in Instances : Patching(i) \/ Redeploying(i) \/ Booting(i) \/ GivingUp(i)
  BY <1>0, <1>4, PatchOwed, RedeployOwed, BootOwed, GivingUpOwed
<1>5. CASE \E q \in queue : RedeployBegin(q)
  <2>1. \A q \in queue : q[1] \in Instances
    BY <1>0 DEF TypeOK
  <2> QED
    BY <1>0, <1>5, <2>1, RequestOwed
<1> QED
  BY <1>1, <1>2, <1>3, <1>4, <1>5 DEF Next

\* redeploy_full_seq, where the deploy lock excludes: what only a cycle of the
\* whole pool brings about stays owed through failures, skipped cycles,
\* supersession, store calls given up and the loss of the owner.
THEOREM StructureIsNeverForgotten == ASSUME OneLock PROVE Spec => []StructureStaysOwed
<1>1. Init => OwedInv
  BY DEF Init, NoOp, OwedInv, Answers, Lags
<1>2. OwedInv => StructureStaysOwed
  BY DEF OwedInv, StructureStaysOwed, Lags, Structure
<1>3. IInv /\ OwedInv /\ [Next]_vars => OwedInv'
  BY NextOwed
<1> QED
  BY <1>1, <1>2, <1>3, InitIInv, NextIInv, PTL DEF Spec

-----------------------------------------------------------------------------
(* Who serves the newest seq, where operations exclude each other and an     *)
(* owner's ticks come in time: the safety that EverySeqIsServed rests on.    *)

\* Who takes itself for the owner is.
OwnerKnows ==
    \A i \in Instances : known[i] # 0 => holder = i /\ live /\ known[i] = leaseEpoch

Working == {"claim", "claimed", "cycle", "record"}

\* In a span, the owner's redeploys carry its epoch; what other instances still
\* run is a redeploy that will find itself fenced.
SpanInv ==
    \A i \in Instances : ready[i] =>
        /\ known[i] # 0
        /\ op[i].at \in Working => op[i].lease = known[i]
        /\ \A j \in Instances \ {i} :
             op[j].at = "idle" \/ (op[j].at = "claim" /\ op[j].lease = 0)

\* i has seq s in hand: a goroutine that waits for the lock, or the operation.
InHand == {"apply", "resolve"} \cup Working
Carries(i, s) ==
    \/ \E q \in queue : q[1] = i /\ q[2] = s
    \/ op[i].seq = s /\ op[i].at \in InHand

\* An owner that has recovered has the newest seq in hand until its outcome is
\* reported, as long as no store call was given up.
NewestIsCarried ==
    faults = 0 /\ app.launched > app.last =>
        \A i \in Instances : ready[i] => Carries(i, app.launched)

ServeInv == OwnerKnows /\ SpanInv /\ NewestIsCarried

\* Only one instance is in a span, and no other takes itself for the owner.
LEMMA OneSpan ==
    ASSUME OwnerKnows, SpanInv, NEW i \in Instances, ready[i]
    PROVE  /\ holder = i /\ live /\ known[i] = leaseEpoch /\ known[i] # 0
           /\ \A j \in Instances \ {i} : known[j] = 0 /\ ~ready[j]
BY DEF OwnerKnows, SpanInv

\* Reports move forward.
LEMMA LastGrows ==
    ASSUME IInv, [Next]_vars
    PROVE  app.last \in Nat /\ app'.last \in Nat /\ app'.last >= app.last
<1>1. app.last \in Nat
  BY DEF IInv, TypeOK, Apps
<1>2. ASSUME NEW i \in Instances, OpStep(i)
      PROVE  app'.last \in Nat /\ app'.last >= app.last
  <2>1. op[i].seq \in Nat
    BY OpFields DEF IInv
  <2>2. CASE RowKept(i) \/ RowArmed(i)
    BY <1>1, <2>2 DEF RowKept, RowArmed
  <2>3. CASE RowClaimed(i)
    BY <1>1, <2>3 DEF RowClaimed, Claimed, IInv, TypeOK, Apps
  <2>4. CASE RowReported(i)
    BY <1>1, <2>1, <2>4 DEF RowReported
  <2> QED
    BY <1>2, <2>2, <2>3, <2>4 DEF OpStep
<1> QED
  BY <1>1, <1>2, StepKinds

\* What the steps of an operation do to what its instance has in hand: they
\* pass it on, report it, or find the instance fenced or the seq superseded.
Handled(k) ==
    \/ app'.launched = app.launched /\ op[k].at \notin InHand
    \/ app'.launched = app.launched /\ op'[k].seq = op[k].seq /\ op'[k].at \in InHand
    \/ app'.launched = app.launched /\ <<k, op[k].seq, "patch">> \in queue'
    \/ app'.launched = op'[k].seq /\ op'[k].at = "apply"
    \/ app'.launched = app.launched /\ app'.last = op[k].seq
    \/ /\ app' = app /\ op[k].at \in Working
       /\ \/ Fenced(k, op[k].lease)
          \/ op[k].at = "claim" /\ ~Claimable(op[k].seq)
          \/ op[k].at \in Busy /\ ~Recordable(op[k].seq, op[k].lease)

\* Only a goroutine that gets the lock begins a redeploy, and nothing that waits
\* for the lock is dropped.
Handles(k) == Handled(k) /\ op'[k].at # "claim" /\ queue \subseteq queue'

\* Ending an operation keeps what waits, and launches what it is told to.
LEMMA Ends ==
    ASSUME TypeOK, NEW k \in Instances, NEW l, FinishOp(k, l)
    PROVE  op'[k].at = "idle" /\ queue \subseteq queue' /\ l \subseteq queue'
BY DEF TypeOK, FinishOp, NoOp

\* Going on with it keeps what waits.
LEMMA GoesOn ==
    ASSUME TypeOK, NEW k \in Instances, NEW p, NextStage(k, p)
    PROVE  op'[k] = p /\ queue' = queue
BY DEF TypeOK, NextStage

\* The steps of a PATCH.
LEMMA PatchHandles ==
    ASSUME TypeOK, NEW k \in Instances, Patching(k)
    PROVE  Handles(k)
<1> USE DEF Handles, Handled, InHand, ledgerVars
<1>1. CASE PatchRejected(k)
  BY <1>1, Ends DEF PatchRejected, Working
<1>2. ASSUME NEW sets \in Edits, NEW changes \in SUBSET sets, PatchCommit(k, sets, changes)
      PROVE  Handles(k)
  <2>1. op[k].at = "patch" /\ queue' = queue
    BY <1>2, Zenon DEF PatchCommit
  <2>2. CASE app' = app /\ op'[k] = NoOp
    BY <2>1, <2>2 DEF NoOp, Working
  <2>3. CASE RowArmed(k)
    BY <2>1, <2>3 DEF RowArmed
  <2> QED
    BY <1>2, <2>2, <2>3, CommitFields
<1>3. CASE PatchAppliedLive(k)
  <2> DEFINE p == [op[k] EXCEPT !.at = "resolve"]
  <2>1. Moved(op[k], "resolve", p)
    BY OpFields, FormFields, Zenon DEF Stages
  <2>2. (FinishOp(k, Launch(k)) \/ NextStage(k, p)) /\ app' = app
    BY <1>3 DEF PatchAppliedLive
  <2> HIDE DEF p
  <2>3. CASE FinishOp(k, Launch(k))
    BY <2>2, <2>3, Ends DEF Launch
  <2>4. CASE NextStage(k, p)
    BY <2>1, <2>2, <2>4, GoesOn DEF Moved, Onward
  <2> QED
    BY <2>2, <2>3, <2>4
<1>4. CASE PatchUnsupportedLive(k)
  BY <1>4, Ends DEF PatchUnsupportedLive, Launch
<1>5. CASE PatchFailedLive(k)
  <2> DEFINE p == [op[k] EXCEPT !.at = "resolve", !.outcome = "failed"]
  <2>1. Moved(op[k], "resolve", p)
    BY OpFields, FormFields, Zenon DEF Stages, Outcomes
  <2>2. NextStage(k, p) /\ app' = app
    BY <1>5 DEF PatchFailedLive
  <2> HIDE DEF p
  <2> QED
    BY <2>1, <2>2, GoesOn DEF Moved, Onward
<1>6. CASE PatchResolve(k)
  <2>1. ResolveOutcome(k) \in OutcomeOrNone /\ op[k] \in Ops
    BY OpFields DEF ResolveOutcome, OutcomeOrNone, Outcomes
  <2>2. Resolved(op[k], ResolveOutcome(k)).launched = app.launched
    BY <2>1, ResolveFields
  <2>3. ResolveOutcome(k) # "none" => Resolved(op[k], ResolveOutcome(k)).last = op[k].seq
    BY <2>1 DEF Resolved, TypeOK, Apps
  <2>4. CASE FinishOp(k, Launch(k))
    <3>1. app'.launched = app.launched
      BY <1>6, <2>2 DEF PatchResolve
    <3> QED
      BY <2>4, <3>1, Ends DEF Launch
  <2>5. CASE /\ FinishOp(k, {}) /\ ResolveOutcome(k) # "none"
             /\ app' = Resolved(op[k], ResolveOutcome(k))
    BY <2>2, <2>3, <2>5, Ends
  <2> QED
    BY <1>6, <2>4, <2>5 DEF PatchResolve
<1> QED
  BY <1>1, <1>2, <1>3, <1>4, <1>5, <1>6 DEF Patching

\* The steps of a redeploy.
LEMMA RedeployHandles ==
    ASSUME TypeOK, NEW k \in Instances, Redeploying(k)
    PROVE  Handles(k)
<1> USE DEF Handles, Handled, InHand, Working, ledgerVars
<1>0. ASSUME NEW o \in Outcomes, Ended(k, o), app' = app
      PROVE  Handles(k)
  <2> DEFINE p == [op[k] EXCEPT !.at = "record", !.outcome = o, !.full = FALSE, !.missed = {}]
  <2>1. Moved(op[k], "record", p)
    BY OpFields, FormFields, Zenon DEF Stages
  <2>2. NextStage(k, p)
    BY <1>0 DEF Ended
  <2> HIDE DEF p
  <2> QED
    BY <1>0, <2>1, <2>2, GoesOn DEF Moved, Onward
<1>1. CASE RedeployClaim(k)
  <2> DEFINE p == [op[k] EXCEPT !.at = "claimed"]
  <2>1. Moved(op[k], "claimed", p)
    BY OpFields, FormFields, Zenon DEF Stages
  <2>2. \/ /\ app' = app /\ FinishOp(k, {}) /\ op[k].at = "claim"
           /\ Fenced(k, op[k].lease) \/ ~Claimable(op[k].seq)
        \/ app' = Claimed(op[k].seq, op[k].lease) /\ NextStage(k, p)
    BY <1>1 DEF RedeployClaim
  <2>3. Claimed(op[k].seq, op[k].lease).launched = app.launched
    BY DEF Claimed, TypeOK, Apps
  <2> HIDE DEF p
  <2> QED
    BY <2>1, <2>2, <2>3, Ends, GoesOn DEF Moved, Onward
<1>2. CASE CycleBegin(k)
  <2> DEFINE p == [op[k] EXCEPT !.at = "cycle", !.full = NeedsFullCycle]
  <2>1. NeedsFullCycle \in BOOLEAN
    BY DEF NeedsFullCycle
  <2>2. Moved(op[k], "cycle", p)
    BY <2>1, OpFields, FormFields, Zenon DEF Stages
  <2>3. NextStage(k, p) /\ app' = app
    BY <1>2 DEF CycleBegin
  <2> HIDE DEF p
  <2> QED
    BY <2>2, <2>3, GoesOn DEF Moved, Onward
<1>3. CASE CycleSkipped(k) \/ CycleFails(k) \/ CycleBoots(k) \/ CycleResizes(k)
  BY <1>0, <1>3 DEF CycleSkipped, CycleFails, CycleBoots, CycleResizes, Outcomes
<1>4. CASE RedeployRecord(k)
  <2>1. FinishOp(k, {}) /\ op[k].at = "record"
    BY <1>4 DEF RedeployRecord
  <2>2. \/ app' = Reported(op[k].seq, op[k].outcome)
        \/ app' = app /\ (Fenced(k, op[k].lease) \/ ~Recordable(op[k].seq, op[k].lease))
    BY <1>4 DEF RedeployRecord
  <2>3. op[k].seq \in Nat /\ op[k].outcome \in OutcomeOrNone
    BY OpFields
  <2> QED
    BY <2>1, <2>2, <2>3, Ends, ReportFields DEF Busy
<1> QED
  BY <1>1, <1>2, <1>3, <1>4 DEF Redeploying

\* The steps of a boot.
LEMMA BootHandles ==
    ASSUME TypeOK, NEW k \in Instances, Booting(k)
    PROVE  Handles(k)
<1> USE DEF Handles, Handled, InHand, Working, ledgerVars
<1>0. ASSUME NEW o \in Outcomes, app' = app, op[k].at = "boot",
             NextStage(k, [op[k] EXCEPT !.at = "bootRecord", !.outcome = o, !.missed = {}])
      PROVE  Handles(k)
  <2> DEFINE p == [op[k] EXCEPT !.at = "bootRecord", !.outcome = o, !.missed = {}]
  <2>1. Moved(op[k], "bootRecord", p)
    BY OpFields, FormFields, Zenon DEF Stages
  <2>2. NextStage(k, p)
    BY <1>0
  <2> HIDE DEF p
  <2> QED
    BY <1>0, <2>1, <2>2, GoesOn DEF Moved
<1>1. CASE BootRefused(k)
  BY <1>1, Ends DEF BootRefused
<1>2. CASE BootsPool(k)
  BY <1>0, <1>2 DEF BootsPool, Outcomes
<1>3. ASSUME NEW o \in {"skipped", "failed"}, BootsNothing(k, o)
      PROVE  Handles(k)
  BY <1>0, <1>3 DEF BootsNothing, Outcomes
<1>4. CASE BootRecord(k)
  <2>1. FinishOp(k, {}) /\ op[k].at = "bootRecord"
    BY <1>4 DEF BootRecord
  <2>2. app' = app \/ app' = Reported(op[k].seq, op[k].outcome)
    BY <1>4 DEF BootRecord
  <2>3. op[k].seq \in Nat /\ op[k].outcome \in OutcomeOrNone
    BY OpFields
  <2>4. app'.launched = app.launched
    BY <2>2, <2>3, ReportFields
  <2> QED
    BY <2>1, <2>4, Ends
<1> QED
  BY <1>1, <1>2, <1>3, <1>4 DEF Booting

\* A store call given up is a fault, and ends the operation.
LEMMA GivingUpEnds ==
    ASSUME TypeOK, NEW k \in Instances, GivingUp(k)
    PROVE  faults' # 0 /\ op'[k].at = "idle"
<1>1. faults' = faults + 1 /\ faults \in Nat
  BY DEF GivingUp, PatchAborted, PatchResolveGivesUp, RedeployClaimGivesUp,
         RedeployRecordGivesUp, BootRecordGivesUp, StoreGivesUp, TypeOK
<1>2. \E l : FinishOp(k, l)
  BY DEF GivingUp, PatchAborted, PatchResolveGivesUp, RedeployClaimGivesUp,
         RedeployRecordGivesUp, BootRecordGivesUp
<1> QED
  BY <1>1, <1>2, Ends

\* The step of an operation leaves the lease, the spans and the other operations
\* alone, and keeps its lease while it works on a redeploy.
LEMMA OpStepFrame ==
    ASSUME IInv, NEW k \in Instances,
           Patching(k) \/ Redeploying(k) \/ Booting(k) \/ GivingUp(k)
    PROVE  /\ UNCHANGED <<holder, leaseEpoch, live, known, ready>>
           /\ op[k].at # "idle"
           /\ \A j \in Instances \ {k} : SameOp(op[j], op'[j])
           /\ op'[k].at \in Working => op'[k].lease = op[k].lease /\ op[k].at \in Working
<1>1. OpStep(k)
  BY PatchIsOpStep, RedeployIsOpStep, BootIsOpStep, GivingUpIsOpStep DEF IInv
<1>2. ready' = ready
  BY Zenon
  DEF Patching, PatchRejected, PatchCommit, PatchAppliedLive, PatchUnsupportedLive,
      PatchFailedLive, PatchResolve, Redeploying, RedeployClaim, CycleBegin, CycleSkipped,
      CycleFails, CycleBoots, CycleResizes, RedeployRecord, Booting, BootRefused, BootsPool,
      BootsNothing, BootRecord, GivingUp, PatchAborted, PatchResolveGivesUp,
      RedeployClaimGivesUp, RedeployRecordGivesUp, BootRecordGivesUp, unlocked
<1>3. op[k].at # "idle"
  BY Zenon
  DEF Patching, PatchRejected, PatchCommit, PatchAppliedLive, PatchUnsupportedLive,
      PatchFailedLive, PatchResolve, Redeploying, RedeployClaim, CycleBegin, CycleSkipped,
      CycleFails, CycleBoots, CycleResizes, RedeployRecord, Booting, BootRefused, BootsPool,
      BootsNothing, BootRecord, GivingUp, PatchAborted, PatchResolveGivesUp,
      RedeployClaimGivesUp, RedeployRecordGivesUp, BootRecordGivesUp
<1>4. op'[k].at # "claim"
  <2>1. CASE Patching(k) \/ Redeploying(k) \/ Booting(k)
    BY <2>1, PatchHandles, RedeployHandles, BootHandles DEF Handles, IInv
  <2>2. CASE GivingUp(k)
    BY <2>2, GivingUpEnds DEF IInv
  <2> QED
    BY <2>1, <2>2
<1>5. op'[k].at \in Busy => op'[k].lease = op[k].lease /\ op[k].at \in Working
  <2>1. NoOp.at = "idle"
    BY DEF NoOp
  <2>2. CASE RowKept(k)
    BY <2>1, <2>2 DEF RowKept, Onward, Busy, Working
  <2>3. CASE RowArmed(k)
    BY <2>3 DEF RowArmed, Busy
  <2>4. CASE RowClaimed(k)
    BY <2>1, <2>4 DEF RowClaimed, Onward, Busy, Working
  <2>5. CASE RowReported(k)
    BY <2>1, <2>5 DEF RowReported, Busy
  <2> QED
    BY <1>1, <2>2, <2>3, <2>4, <2>5 DEF OpStep
<1> QED
  BY <1>1, <1>2, <1>3, <1>4, <1>5 DEF OpStep, leaseVars, Working, Busy

\* Getting the deploy lock: the operations of the others, the lease and the spans
\* stay, and an operation begins where none was.
LEMMA RequestFrame ==
    ASSUME TypeOK, NEW k \in Instances, Requests(k)
    PROVE  /\ UNCHANGED <<holder, leaseEpoch, live, known, ready, app, queue, faults>>
           /\ known[k] # 0 /\ ready[k]
           /\ \A j \in Instances \ {k} : op'[j] = op[j]
           /\ op'[k] = op[k] \/ (op[k].at = "idle" /\ op'[k].at \notin InHand)
<1> USE DEF unlocked, leaseVars, ledgerVars, Admitted
<1>1. CASE PatchBegin(k)
  <2>1. op' = [op EXCEPT ![k] = [NoOp EXCEPT !.at = "patch"]] /\ op[k].at = "idle"
    BY <1>1 DEF PatchBegin, StartOp, LockFree
  <2>2. op'[k].at = "patch" /\ \A j \in Instances \ {k} : op'[j] = op[j]
    BY <2>1 DEF TypeOK, NoOp
  <2> QED
    BY <1>1, <2>1, <2>2 DEF PatchBegin, InHand, Working
<1>2. CASE BootBegin(k)
  <2>1. /\ op' = [op EXCEPT ![k] = [NoOp EXCEPT !.at = "boot", !.seq = app.launched]]
        /\ op[k].at = "idle"
    BY <1>2 DEF BootBegin, StartOp, LockFree
  <2>2. op'[k].at = "boot" /\ \A j \in Instances \ {k} : op'[j] = op[j]
    BY <2>1 DEF TypeOK, NoOp
  <2> QED
    BY <1>2, <2>1, <2>2 DEF BootBegin, InHand, Working
<1>3. CASE PoolStops(k) \/ PoolHibernates(k) \/ PoolWakes(k)
  BY <1>3 DEF PoolStops, PoolHibernates, PoolWakes
<1> QED
  BY <1>1, <1>2, <1>3 DEF Requests

\* So does a redeploy that waited for it.
LEMMA BeginFrame ==
    ASSUME TypeOK, NEW q \in queue, RedeployBegin(q)
    PROVE  /\ UNCHANGED <<holder, leaseEpoch, live, known, ready, app, faults>>
           /\ q[1] \in Instances /\ op[q[1]].at = "idle" /\ queue' = queue \ {q}
           /\ op'[q[1]].at = "claim" /\ op'[q[1]].seq = q[2] /\ op'[q[1]].lease = known[q[1]]
           /\ \A j \in Instances \ {q[1]} : op'[j] = op[j]
<1>1. q[1] \in Instances
  BY DEF TypeOK
<1>2. /\ op' = [op EXCEPT ![q[1]] = [NoOp EXCEPT !.at = "claim", !.seq = q[2],
                                               !.lease = known[q[1]]]]
      /\ op[q[1]].at = "idle"
  BY <1>1 DEF RedeployBegin, StartOp, LockFree
<1>3. /\ op'[q[1]].at = "claim" /\ op'[q[1]].seq = q[2] /\ op'[q[1]].lease = known[q[1]]
      /\ \A j \in Instances \ {q[1]} : op'[j] = op[j]
  BY <1>1, <1>2 DEF TypeOK, NoOp
<1> QED
  BY <1>1, <1>2, <1>3 DEF RedeployBegin, unlocked, leaseVars, ledgerVars

\* Who knows itself the owner is the owner while ticks come in time: a lease is
\* given up, expires and is taken where nobody does.
LEMMA LeaseKnows ==
    ASSUME TypeOK, ~LateTicks, OwnerKnows, [Next]_vars
    PROVE  OwnerKnows'
<1>1. CASE UNCHANGED <<holder, leaseEpoch, live, known>>
  BY <1>1 DEF OwnerKnows
<1>2. CASE LeaseExpires
  <2>1. /\ \A i \in Instances : holder = i => known[i] = 0
        /\ UNCHANGED <<holder, leaseEpoch, known>>
    BY <1>2 DEF LeaseExpires, Expire
  <2> QED
    BY <2>1 DEF OwnerKnows
<1>3. ASSUME NEW k \in Instances, Ownership(k)
      PROVE  OwnerKnows'
  <2>1. CASE LeaseTaken(k)
    <3>1. \A i \in Instances : known[i] = 0
      BY <2>1, LeaseAssumption DEF LeaseTaken, Take, OwnerKnows
    <3> QED
      BY <2>1, <3>1 DEF LeaseTaken, Take, OwnerKnows
  <2>2. CASE LeaseLearned(k)
    BY <2>2 DEF LeaseLearned, Learn, OwnerKnows, TypeOK
  <2>3. CASE LeaseRenewed(k)
    BY <2>3 DEF LeaseRenewed, Renew, OwnerKnows
  <2>4. CASE LeaseForgotten(k)
    BY <2>4 DEF LeaseForgotten, Forget, OwnerKnows, TypeOK
  <2>5. CASE LeaseGivenUp(k)
    <3>1. \A i \in Instances : known[i] = 0
      BY <2>5 DEF LeaseGivenUp, GiveUp, OwnerKnows
    <3> QED
      BY <2>5, <3>1 DEF LeaseGivenUp, GiveUp, OwnerKnows
  <2>6. CASE SpanReady(k) \/ SpanReadyScanFails(k)
    BY <2>6 DEF SpanReady, SpanReadyScanFails, OwnerKnows, leaseVars
  <2>7. CASE Crash(k)
    BY <2>7 DEF Crash, Forget, OwnerKnows, TypeOK
  <2> QED
    BY <1>3, <2>1, <2>2, <2>3, <2>4, <2>5, <2>6, <2>7 DEF Ownership
<1>4. ASSUME NEW k \in Instances,
             Requests(k) \/ Patching(k) \/ Redeploying(k) \/ Booting(k) \/ GivingUp(k)
      PROVE  UNCHANGED <<holder, leaseEpoch, live, known>>
  BY <1>4, Zenon
  DEF Requests, PatchBegin, BootBegin, PoolStops, PoolHibernates, PoolWakes,
      Patching, PatchRejected, PatchCommit, PatchAppliedLive, PatchUnsupportedLive,
      PatchFailedLive, PatchResolve, Redeploying, RedeployClaim, CycleBegin, CycleSkipped,
      CycleFails, CycleBoots, CycleResizes, RedeployRecord, Booting, BootRefused, BootsPool,
      BootsNothing, BootRecord, GivingUp, PatchAborted, PatchResolveGivesUp,
      RedeployClaimGivesUp, RedeployRecordGivesUp, BootRecordGivesUp, unlocked, leaseVars
<1>5. ASSUME NEW q \in queue, RedeployBegin(q)
      PROVE  UNCHANGED <<holder, leaseEpoch, live, known>>
  BY <1>5, BeginFrame
<1>6. CASE UNCHANGED vars
  BY <1>1, <1>6 DEF vars, leaseVars
<1> QED
  BY <1>1, <1>2, <1>3, <1>4, <1>5, <1>6 DEF Next

\* A redeploy of an instance that is not the owner finds itself fenced.
LEMMA FencedEnds ==
    ASSUME TypeOK, NEW k \in Instances, op[k].at = "claim", op[k].lease = 0,
           Patching(k) \/ Redeploying(k) \/ Booting(k) \/ GivingUp(k)
    PROVE  op'[k].at = "idle" /\ app' = app /\ queue \subseteq queue'
<1>1. RedeployClaim(k) \/ RedeployClaimGivesUp(k)
  BY Zenon
  DEF Patching, PatchRejected, PatchCommit, PatchAppliedLive, PatchUnsupportedLive,
      PatchFailedLive, PatchResolve, Redeploying, CycleBegin, CycleSkipped,
      CycleFails, CycleBoots, CycleResizes, RedeployRecord, Booting, BootRefused, BootsPool,
      BootsNothing, BootRecord, GivingUp, PatchAborted, PatchResolveGivesUp,
      RedeployRecordGivesUp, BootRecordGivesUp
<1>2. FinishOp(k, {}) /\ app' = app
  BY <1>1 DEF RedeployClaim, RedeployClaimGivesUp, Fenced
<1> QED
  BY <1>2, Ends

\* What the changes of ownership do to the spans and the operations.
LEMMA OwnershipFrame ==
    ASSUME TypeOK, OneLock, ~LateTicks, OwnerKnows, SpanInv,
           NEW k \in Instances, Ownership(k), NEW i \in Instances, ready'[i]
    PROVE  /\ app' = app /\ (faults' = 0 => faults = 0)
           /\ known'[i] = known[i] /\ op'[i] = op[i]
           /\ \A j \in Instances : op'[j] = op[j] \/ op'[j].at = "idle"
           /\ \A q \in queue : q[1] = i => q \in queue'
           /\ \/ ready[i]
              \/ /\ known[i] # 0 /\ \A j \in Instances : op[j].at = "idle"
                 /\ \/ faults' # 0
                    \/ app.launched > app.last => <<i, app.launched, "owed">> \in queue'
<1> USE DEF unowned, ledgerVars
<1>0. faults \in Nat
  BY DEF TypeOK
<1>1. CASE LeaseTaken(k) \/ LeaseRenewed(k) \/ LeaseGivenUp(k)
  BY <1>1 DEF LeaseTaken, Take, LeaseRenewed, LeaseGivenUp, GiveUp
<1>2. CASE LeaseLearned(k)
  <2>1. ready' = ready /\ UNCHANGED <<unowned>>
    BY <1>2 DEF LeaseLearned
  <2>2. known'[i] = known[i]
    BY <1>2, <2>1 DEF LeaseLearned, Learn, OwnerKnows, SpanInv, TypeOK
  <2> QED
    BY <2>1, <2>2
<1>3. CASE LeaseForgotten(k)
  <2>1. i # k
    BY <1>3 DEF LeaseForgotten, TypeOK
  <2> QED
    BY <1>3, <2>1 DEF LeaseForgotten, Forget, TypeOK
<1>4. CASE SpanReady(k)
  <2>1. UNCHANGED <<app, op, faults, known>> /\ queue \subseteq queue'
    BY <1>4 DEF SpanReady, leaseVars
  <2>2. CASE i = k
    <3>1. known[k] # 0 /\ \A j \in Instances : op[j].at = "idle"
      BY <1>4, FreeIsQuiet DEF SpanReady
    <3>2. app.launched > app.last => <<i, app.launched, "owed">> \in queue'
      BY <1>4, <2>2 DEF SpanReady
    <3> QED
      BY <2>1, <2>2, <3>1, <3>2
  <2>3. CASE i # k
    BY <1>4, <2>1, <2>3 DEF SpanReady, TypeOK
  <2> QED
    BY <2>2, <2>3
<1>5. CASE SpanReadyScanFails(k)
  <2>1. UNCHANGED <<app, op, queue, known>> /\ faults' = faults + 1
    BY <1>5 DEF SpanReadyScanFails, StoreGivesUp, leaseVars
  <2>2. CASE i = k
    <3>1. known[k] # 0 /\ \A j \in Instances : op[j].at = "idle"
      BY <1>5, FreeIsQuiet DEF SpanReadyScanFails
    <3> QED
      BY <1>0, <2>1, <2>2, <3>1
  <2>3. CASE i # k
    BY <1>0, <1>5, <2>1, <2>3 DEF SpanReadyScanFails, TypeOK
  <2> QED
    BY <2>2, <2>3
<1>6. CASE Crash(k)
  <2>1. i # k
    BY <1>6 DEF Crash, TypeOK
  <2>2. NoOp.at = "idle"
    BY DEF NoOp
  <2> QED
    BY <1>6, <2>1, <2>2 DEF Crash, Forget, TypeOK
<1> QED
  BY <1>1, <1>2, <1>3, <1>4, <1>5, <1>6 DEF Ownership

\* A span goes on as it is while the owner and its operations do.
LEMMA SpanStep ==
    ASSUME IInv, OneLock, ~LateTicks, OwnerKnows, SpanInv, [Next]_vars
    PROVE  SpanInv'
<1> SUFFICES ASSUME NEW i \in Instances, ready'[i]
             PROVE  /\ known'[i] # 0
                    /\ op'[i].at \in Working => op'[i].lease = known'[i]
                    /\ \A j \in Instances \ {i} :
                         op'[j].at = "idle" \/ (op'[j].at = "claim" /\ op'[j].lease = 0)
  BY DEF SpanInv
<1>0. TypeOK
  BY DEF IInv
<1>1. CASE LeaseExpires \/ UNCHANGED vars
  <2>1. UNCHANGED <<known, op, ready>>
    BY <1>1 DEF LeaseExpires, Expire, unowned, vars, leaseVars
  <2> QED
    BY <2>1 DEF SpanInv
<1>2. ASSUME NEW k \in Instances, Ownership(k)
      PROVE  /\ known'[i] # 0
             /\ op'[i].at \in Working => op'[i].lease = known'[i]
             /\ \A j \in Instances \ {i} :
                  op'[j].at = "idle" \/ (op'[j].at = "claim" /\ op'[j].lease = 0)
  <2>1. /\ known'[i] = known[i] /\ op'[i] = op[i]
        /\ \A j \in Instances : op'[j] = op[j] \/ op'[j].at = "idle"
        /\ ready[i] \/ (known[i] # 0 /\ \A j \in Instances : op[j].at = "idle")
    BY <1>0, <1>2, OwnershipFrame
  <2> QED
    BY <2>1 DEF SpanInv, Working
<1>3. ASSUME NEW k \in Instances, Requests(k)
      PROVE  /\ known'[i] # 0
             /\ op'[i].at \in Working => op'[i].lease = known'[i]
             /\ \A j \in Instances \ {i} :
                  op'[j].at = "idle" \/ (op'[j].at = "claim" /\ op'[j].lease = 0)
  <2>1. /\ UNCHANGED <<known, ready>> /\ known[k] # 0
        /\ \A j \in Instances \ {k} : op'[j] = op[j]
        /\ op'[k] = op[k] \/ (op[k].at = "idle" /\ op'[k].at \notin InHand)
    BY <1>0, <1>3, RequestFrame
  <2>2. i = k
    BY <2>1, OneSpan
  <2> QED
    BY <2>1, <2>2 DEF SpanInv, InHand
<1>4. ASSUME NEW k \in Instances,
             Patching(k) \/ Redeploying(k) \/ Booting(k) \/ GivingUp(k)
      PROVE  /\ known'[i] # 0
             /\ op'[i].at \in Working => op'[i].lease = known'[i]
             /\ \A j \in Instances \ {i} :
                  op'[j].at = "idle" \/ (op'[j].at = "claim" /\ op'[j].lease = 0)
  <2>1. /\ UNCHANGED <<known, ready>> /\ op[k].at # "idle"
        /\ \A j \in Instances \ {k} : SameOp(op[j], op'[j])
        /\ op'[k].at \in Working => op'[k].lease = op[k].lease /\ op[k].at \in Working
    BY <1>4, OpStepFrame
  <2>2. CASE k = i
    BY <2>1, <2>2 DEF SpanInv, SameOp
  <2>3. CASE k # i
    <3>1. op[k].at = "claim" /\ op[k].lease = 0
      BY <2>1, <2>3 DEF SpanInv
    <3>2. op'[k].at = "idle"
      BY <1>0, <1>4, <3>1, FencedEnds
    <3> QED
      BY <2>1, <2>3, <3>2 DEF SpanInv, SameOp
  <2> QED
    BY <2>2, <2>3
<1>5. ASSUME NEW q \in queue, RedeployBegin(q)
      PROVE  /\ known'[i] # 0
             /\ op'[i].at \in Working => op'[i].lease = known'[i]
             /\ \A j \in Instances \ {i} :
                  op'[j].at = "idle" \/ (op'[j].at = "claim" /\ op'[j].lease = 0)
  <2>1. /\ UNCHANGED <<known, ready>> /\ q[1] \in Instances
        /\ op'[q[1]].at = "claim" /\ op'[q[1]].lease = known[q[1]]
        /\ \A j \in Instances \ {q[1]} : op'[j] = op[j]
    BY <1>0, <1>5, BeginFrame
  <2>2. \A j \in Instances \ {i} : known[j] = 0
    BY <2>1, OneSpan
  <2> QED
    BY <2>1, <2>2 DEF SpanInv
<1> QED
  BY <1>1, <1>2, <1>3, <1>4, <1>5 DEF Next

\* What an instance in a span has in hand it hands on or reports: its own lease
\* and claim do not fail it.
LEMMA SpanCarries ==
    ASSUME IInv, OwnerKnows, SpanInv, NEW i \in Instances, ready[i], Handles(i),
           app.launched > app.last => Carries(i, app.launched),
           app'.launched > app'.last, app'.last \in Nat, app'.last >= app.last
    PROVE  Carries(i, app.launched)' \/ app'.launched # app.launched
<1> SUFFICES ASSUME app'.launched = app.launched
             PROVE  Carries(i, app.launched)'
  OBVIOUS
<1>0. app.launched \in Nat /\ app.last \in Nat
  BY DEF IInv, TypeOK, Apps
<1>1. app.launched > app.last /\ Carries(i, app.launched) /\ queue \subseteq queue'
  BY <1>0 DEF Handles
<1>2. CASE \E q \in queue : q[1] = i /\ q[2] = app.launched
  BY <1>1, <1>2 DEF Carries
<1>3. CASE op[i].seq = app.launched /\ op[i].at \in InHand
  <2>1. op[i].at \in Working => ~Fenced(i, op[i].lease)
    BY OneSpan DEF SpanInv, Fenced
  <2>2. op[i].at = "claim" => Claimable(op[i].seq)
    BY <1>0, <1>1, <1>3 DEF Claimable
  <2>3. op[i].at \in Busy => Recordable(op[i].seq, op[i].lease)
    BY <2>1 DEF IInv, ClaimsKept, Fenced, Working, Busy
  <2>4. CASE op'[i].seq = op[i].seq /\ op'[i].at \in InHand
    BY <1>3, <2>4 DEF Carries
  <2>5. CASE <<i, op[i].seq, "patch">> \in queue'
    BY <1>3, <2>5 DEF Carries
  <2>6. CASE app'.launched = op'[i].seq /\ op'[i].at = "apply"
    BY <2>6 DEF Carries, InHand
  <2>7. app'.last # op[i].seq
    BY <1>0, <1>3
  <2> QED
    BY <1>3, <2>1, <2>2, <2>3, <2>4, <2>5, <2>6, <2>7 DEF Handles, Handled
<1> QED
  BY <1>1, <1>2, <1>3 DEF Carries

\* The owner goes on having the newest seq in hand.
LEMMA CarriedStep ==
    ASSUME IInv, OneLock, ~LateTicks, ServeInv, [Next]_vars
    PROVE  NewestIsCarried'
<1> SUFFICES ASSUME faults' = 0, app'.launched > app'.last,
                    NEW i \in Instances, ready'[i]
             PROVE  Carries(i, app.launched)'
  BY DEF NewestIsCarried
<1> USE DEF ServeInv
<1>0. /\ TypeOK /\ app.launched \in Nat /\ app.last \in Nat
      /\ app'.last \in Nat /\ app'.last >= app.last /\ faults \in Nat
  BY LastGrows DEF IInv, TypeOK, Apps
<1>1. CASE LeaseExpires \/ UNCHANGED vars
  <2>1. UNCHANGED <<app, op, queue, ready, faults>>
    BY <1>1 DEF LeaseExpires, unowned, vars, ledgerVars
  <2> QED
    BY <2>1 DEF NewestIsCarried, Carries
<1>2. ASSUME NEW k \in Instances, Ownership(k)
      PROVE  Carries(i, app.launched)'
  <2>1. /\ app' = app /\ faults = 0
        /\ op'[i] = op[i]
        /\ \A q \in queue : q[1] = i => q \in queue'
        /\ ready[i] \/ (app.launched > app.last => <<i, app.launched, "owed">> \in queue')
    BY <1>0, <1>2, OwnershipFrame
  <2>2. CASE ready[i]
    <3>1. Carries(i, app.launched)
      BY <2>1, <2>2 DEF NewestIsCarried
    <3> QED
      BY <2>1, <3>1 DEF Carries
  <2>3. CASE <<i, app.launched, "owed">> \in queue'
    BY <2>1, <2>3 DEF Carries
  <2> QED
    BY <2>1, <2>2, <2>3
<1>3. ASSUME NEW k \in Instances, Requests(k)
      PROVE  Carries(i, app.launched)'
  <2>1. /\ UNCHANGED <<ready, app, queue, faults>>
        /\ \A j \in Instances \ {k} : op'[j] = op[j]
        /\ op'[k] = op[k] \/ op[k].at = "idle"
    BY <1>0, <1>3, RequestFrame
  <2>2. Carries(i, app.launched)
    BY <2>1 DEF NewestIsCarried
  <2> QED
    BY <2>1, <2>2 DEF Carries, InHand, Working
<1>4. ASSUME NEW k \in Instances,
             Patching(k) \/ Redeploying(k) \/ Booting(k) \/ GivingUp(k)
      PROVE  Carries(i, app.launched)'
  <2>1. /\ UNCHANGED <<known, ready>> /\ op[k].at # "idle"
        /\ \A j \in Instances \ {k} : SameOp(op[j], op'[j])
    BY <1>4, OpStepFrame
  <2>2. ~GivingUp(k)
    BY <1>0, GivingUpEnds
  <2>3. faults' = faults
    BY <1>4, <2>2, Zenon
    DEF Patching, PatchRejected, PatchCommit, PatchAppliedLive, PatchUnsupportedLive,
        PatchFailedLive, PatchResolve, Redeploying, RedeployClaim, CycleBegin, CycleSkipped,
        CycleFails, CycleBoots, CycleResizes, RedeployRecord, Booting, BootRefused, BootsPool,
        BootsNothing, BootRecord
  <2>4. app.launched > app.last => Carries(i, app.launched)
    BY <2>1, <2>3 DEF NewestIsCarried
  <2>5. CASE k = i
    <3>1. Handles(i)
      BY <1>0, <1>4, <2>2, <2>5, PatchHandles, RedeployHandles, BootHandles
    <3>2. CASE app'.launched = app.launched
      BY <1>0, <2>1, <2>4, <3>1, <3>2, SpanCarries
    <3>3. CASE app'.launched # app.launched
      BY <3>1, <3>3 DEF Handles, Handled, Carries, InHand
    <3> QED
      BY <3>2, <3>3
  <2>6. CASE k # i
    <3>1. op[k].at = "claim" /\ op[k].lease = 0
      BY <2>1, <2>6 DEF SpanInv
    <3>2. app' = app /\ queue \subseteq queue'
      BY <1>0, <1>4, <3>1, FencedEnds
    <3> QED
      BY <2>1, <2>4, <2>6, <3>2 DEF Carries, SameOp
  <2> QED
    BY <2>5, <2>6
<1>5. ASSUME NEW q \in queue, RedeployBegin(q)
      PROVE  Carries(i, app.launched)'
  <2>1. /\ UNCHANGED <<ready, app, faults>>
        /\ q[1] \in Instances /\ op[q[1]].at = "idle" /\ queue' = queue \ {q}
        /\ op'[q[1]].at = "claim" /\ op'[q[1]].seq = q[2]
        /\ \A j \in Instances \ {q[1]} : op'[j] = op[j]
    BY <1>0, <1>5, BeginFrame
  <2>2. Carries(i, app.launched)
    BY <2>1 DEF NewestIsCarried
  <2>3. CASE q[1] = i
    <3>1. op[i].at \notin InHand
      BY <2>1, <2>3 DEF InHand, Working
    <3>2. PICK p \in queue : p[1] = i /\ p[2] = app.launched
      BY <2>2, <3>1 DEF Carries
    <3>3. CASE p = q
      BY <2>1, <2>3, <3>2, <3>3 DEF Carries, InHand, Working
    <3>4. CASE p # q
      BY <2>1, <3>2, <3>4 DEF Carries
    <3> QED
      BY <3>3, <3>4
  <2>4. CASE q[1] # i
    BY <2>1, <2>2, <2>4 DEF Carries
  <2> QED
    BY <2>3, <2>4
<1> QED
  BY <1>1, <1>2, <1>3, <1>4, <1>5 DEF Next

\* RelaunchOwedRedeploys and redeployApp, where the deploy lock excludes, the
\* owner's ticks come in time and no store call is given up: from the moment an
\* owner has recovered, the newest seq that has no outcome waits for the lock, or
\* is worked on under it, at that owner, through crashes, supersession and
\* changes of owner.
THEOREM NewestSeqIsCarried == ASSUME OneLock, ~LateTicks PROVE Spec => []NewestIsCarried
<1>1. Init => ServeInv
  BY DEF Init, LeaseInit, ServeInv, OwnerKnows, SpanInv, NewestIsCarried
<1>2. ServeInv => NewestIsCarried
  BY DEF ServeInv
<1>3. IInv /\ ServeInv /\ [Next]_vars => ServeInv'
  <2> SUFFICES ASSUME IInv, ServeInv, [Next]_vars PROVE ServeInv'
    OBVIOUS
  <2>1. OwnerKnows'
    BY LeaseKnows DEF IInv, ServeInv
  <2>2. SpanInv'
    BY SpanStep DEF ServeInv
  <2>3. NewestIsCarried'
    BY CarriedStep
  <2> QED
    BY <2>1, <2>2, <2>3 DEF ServeInv
<1> QED
  BY <1>1, <1>2, <1>3, InitIInv, NextIInv, PTL DEF Spec
=============================================================================
