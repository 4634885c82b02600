--------------------------- MODULE RedeployLedger ---------------------------
(***************************************************************************)
(* The settings-redeploy ledger of one app: what a settings PATCH commits, *)
(* who owes the running pool a cycle for it, and what is reported about it *)
(* (internal/db/redeploy_outcome.go, PatchAppSettings in                   *)
(* internal/db/queries.go, redeployApp and its helpers in                  *)
(* internal/api/redeploy.go, cycleResize in internal/api/scale.go, the     *)
(* PATCH and restart handlers in internal/api/apps.go).                    *)
(*                                                                         *)
(* The operations run on any instance that takes itself to be the owner;   *)
(* each holds the app's deploy lock from its first step to its last.  The  *)
(* lock is a mutex of the process and an flock under the apps directory:   *)
(* it excludes the other instances only where they share that directory.   *)
(* Ownership is the FencedLease that OwnerElection implements.  Settings   *)
(* are abstracted to the kinds of change the code treats differently, and  *)
(* the pool to the kinds in which it lags behind the stored settings.      *)
(***************************************************************************)
EXTENDS FencedLease, FiniteSets

CONSTANTS
    Edits,      \* the sets of fields one PATCH may carry
    SharedDir,  \* TRUE: the instances share the apps directory (an upgrade)
    Snapshots,  \* TRUE: the runtime can freeze an idle pool and thaw it
    LateTicks,  \* TRUE: a lease may expire before its owner's next tick
    MaxSeq,     \* bound: settings redeploys launched
    MaxEpoch,   \* bound: lease epochs
    MaxFaults,  \* bound: store calls given up after their retries
    MaxCrashes  \* bound: process crashes

Resizable == {"replicas", "placement"}  \* what cycleResize brings about
Resources == {"memory", "cpu"}          \* what applyLiveResources may apply
Hot == {"dials"}                        \* what the proxy takes over at once
Frozen == Resources \cup {"placement"}  \* what a thawed replica brings back
Kinds == Resizable \cup Resources \cup Hot \cup {"isolation"}

ASSUME LedgerAssumption ==
    /\ Edits \subseteq SUBSET Kinds
    /\ SharedDir \in BOOLEAN /\ Snapshots \in BOOLEAN /\ LateTicks \in BOOLEAN
    /\ MaxSeq \in Nat /\ MaxEpoch \in Nat
    /\ MaxFaults \in Nat /\ MaxCrashes \in Nat

VARIABLES
    answered,       \* the taker of the current epoch has been told of it
    ready,          \* ready[i]: startup recovery of i's span is complete
    app,            \* the redeploy columns of the app's row
    status,         \* apps.status
    resourceError,  \* last_error begins "apply resource limits:"
    stale,          \* the kinds of setting the running pool lags in (ghost)
    queue,          \* redeployApp goroutines waiting for the deploy lock
    op,             \* op[i]: i's operation that holds the deploy lock
    faults, crashes

ledgerVars == <<app, status, resourceError, stale>>
vars == <<leaseVars, answered, ready, ledgerVars, queue, op, faults, crashes>>

\* "completed" stands for partial too: the ledger never tells them apart.
Outcomes == {"completed", "skipped", "failed"}

\* missed is a ghost: what was changed since the operation read the settings.
NoOp == [at |-> "idle", seq |-> 0, sets |-> {}, changes |-> {}, wasDegraded |-> FALSE,
         retry |-> FALSE, priorFull |-> 0, priorLast |-> 0, lease |-> 0, full |-> FALSE,
         missed |-> {}, outcome |-> "none"]

\* The deploy lock, and the fleet fence its holders share, are free for i.
LockFree(i) ==
    \A j \in Instances : j = i \/ SharedDir => op[j].at = "idle"

Quiet == \A i \in Instances : op[i].at = "idle"

Up == status \in {"running", "degraded"}

Init ==
    /\ LeaseInit
    /\ answered = TRUE
    /\ ready = [i \in Instances |-> FALSE]
    /\ app = [launched |-> 0, full |-> 0, last |-> 0, outcome |-> "none",
              claimSeq |-> 0, claimEpoch |-> 0]
    /\ status = "running"
    /\ resourceError = FALSE
    /\ stale = {}
    /\ queue = {}
    /\ op = [i \in Instances |-> NoOp]
    /\ faults = 0
    /\ crashes = 0

----------------------------------------------------------------------------
(* Statements on the app's row.                                             *)

\* MUTANT: an outcome that applied nothing leaves what is owed behind the seq.
OwedFullSettledByFailure(o, s) == app.full

\* MUTANT: a completed cycle marks nothing owed by stepping below the report.
OwedFullBelowLast(o, s) ==
    IF o = "completed" THEN app.last - 1 ELSE app.full

\* owedFullSeq, recording outcome o at seq s.
OwedFull(o, s) ==
    IF o = "completed"
    THEN IF app.full > app.launched THEN app.launched ELSE app.full
    ELSE IF app.full > app.last /\ app.full <= s THEN s + 1 ELSE app.full

\* MUTANT: the outcome is written without the seq it belongs to.
ReportedWithoutSeq(s, o) == [app EXCEPT !.outcome = o]

\* The columns RecordRedeployOutcome and RecordBootOutcome set.
Reported(s, o) ==
    [app EXCEPT !.last = s, !.outcome = o, !.full = OwedFull(o, s)]

\* MUTANT: a seq that has its outcome is claimed again.
ClaimableTwice(s) == app.launched = s

\* ClaimRedeploy matches the newest seq, while it has no outcome.
Claimable(s) == app.launched = s /\ app.last < s

Claimed(s, e) == [app EXCEPT !.claimSeq = s, !.claimEpoch = e]

\* RecordRedeployOutcome matches the claim of this seq and epoch, once.
Recordable(s, e) == app.claimSeq = s /\ app.claimEpoch = e /\ app.last < s

\* RecordBootOutcome matches while no newer seq has been launched.
BootRecordable(s) == s > 0 /\ app.launched = s /\ app.last <= s

\* RedeployNeedsFullCycle.
NeedsFullCycle == app.full > app.last

\* ResolveLiveSettingsRedeploy.
Resolvable(p) ==
    /\ p.priorFull <= p.priorLast
    /\ app.launched = p.seq
    /\ app.last = p.priorLast

Resolved(p, o) ==
    IF o = "none" THEN [app EXCEPT !.full = p.priorFull]
    ELSE [app EXCEPT !.full = p.priorFull, !.last = p.seq, !.outcome = o]

\* UpdateAppStatus writes last_error too: it keeps no error but the one given.
SetStatus(s, e) == status' = s /\ resourceError' = e

\* retryRedeployStore ran out of retries: the write took effect or not, and
\* the caller sees an error either way.
StoreGivesUp == faults < MaxFaults /\ faults' = faults + 1

----------------------------------------------------------------------------
(* Ownership, as the ledger's operations see it.                            *)

unowned == <<ledgerVars, queue, op, faults, crashes>>

LeaseTaken(i) ==
    /\ leaseEpoch < MaxEpoch
    /\ known[i] = 0
    /\ Take(i)
    /\ answered' = FALSE
    /\ UNCHANGED <<ready, unowned>>

LeaseLearned(i) ==
    /\ ~answered
    /\ live \/ LateTicks
    /\ Learn(i)
    /\ answered' = TRUE
    /\ UNCHANGED <<ready, unowned>>

LeaseRenewed(i) ==
    /\ ~live
    /\ Renew(i)
    /\ known' = known
    /\ UNCHANGED <<answered, ready, unowned>>

\* An owner whose ticks come in time renews, or relinquishes, before that.
LeaseExpires ==
    /\ LateTicks \/ \A i \in Instances : holder = i => known[i] = 0
    /\ Expire
    /\ UNCHANGED <<answered, ready, unowned>>

\* Elector.relinquish, and with it the span.
LeaseForgotten(i) ==
    /\ known[i] # 0
    /\ Forget(i)
    /\ ready' = [ready EXCEPT ![i] = FALSE]
    /\ UNCHANGED <<answered, unowned>>

\* A handoff waits, behind the exclusive fleet fence, for admitted requests.
LeaseGivenUp(i) ==
    /\ LockFree(i)
    /\ GiveUp(i)
    /\ UNCHANGED <<answered, ready, unowned>>

\* MUTANT: the span opens the gate and relaunches nothing.
SpanReadyNoRelaunch(i) ==
    /\ known[i] # 0
    /\ ~ready[i]
    /\ LockFree(i)
    /\ ready' = [ready EXCEPT ![i] = TRUE]
    /\ UNCHANGED <<leaseVars, answered, ledgerVars, queue, op, faults, crashes>>

\* Startup recovery runs behind the exclusive fleet fence, opens the gate, and
\* RelaunchOwedRedeploys launches the seq that is owed.
SpanReady(i) ==
    /\ known[i] # 0
    /\ ~ready[i]
    /\ LockFree(i)
    /\ ready' = [ready EXCEPT ![i] = TRUE]
    /\ queue' = IF app.launched > app.last
                THEN queue \cup {<<i, app.launched, "owed">>}
                ELSE queue
    /\ UNCHANGED <<leaseVars, answered, ledgerVars, op, faults, crashes>>

\* The list could not be read: this span launches nothing.
SpanReadyScanFails(i) ==
    /\ known[i] # 0
    /\ ~ready[i]
    /\ LockFree(i)
    /\ StoreGivesUp
    /\ ready' = [ready EXCEPT ![i] = TRUE]
    /\ UNCHANGED <<leaseVars, answered, ledgerVars, queue, op, crashes>>

\* The process dies: its goroutines and locks go, rows and pool stay.
Crash(i) ==
    /\ crashes < MaxCrashes
    /\ crashes' = crashes + 1
    /\ Forget(i)
    /\ ready' = [ready EXCEPT ![i] = FALSE]
    /\ queue' = {q \in queue : q[1] # i}
    /\ op' = [op EXCEPT ![i] = NoOp]
    /\ UNCHANGED <<answered, ledgerVars, faults>>

\* The ownership middleware lets a mutation through.  It asks once: what it
\* admits goes on when the instance relinquishes or is superseded.
Admitted(i) == known[i] # 0 /\ ready[i]

----------------------------------------------------------------------------
(* Holding the deploy lock.                                                 *)

unlocked == <<leaseVars, answered, ready, crashes>>

StartOp(i, p) ==
    /\ LockFree(i)
    /\ op' = [op EXCEPT ![i] = p]

\* The handler or goroutine returns, releasing the lock; l is what it launches.
FinishOp(i, l) ==
    /\ op' = [op EXCEPT ![i] = NoOp]
    /\ queue' = queue \cup l

NextStage(i, p) ==
    /\ op' = [op EXCEPT ![i] = p]
    /\ UNCHANGED queue

\* An operation that has already read the settings misses what changes now.
Missing(p, changes) ==
    IF p.at \in {"cycle", "boot"} THEN [p EXCEPT !.missed = @ \cup changes] ELSE p

Launch(i) == {<<i, op[i].seq, "patch">>}

----------------------------------------------------------------------------
(* The settings PATCH.                                                      *)

PatchBegin(i) ==
    /\ Admitted(i)
    /\ StartOp(i, [NoOp EXCEPT !.at = "patch"])
    /\ UNCHANGED <<unlocked, ledgerVars, queue, faults>>

\* A precondition or guard rejects the request, or its transaction fails.
PatchRejected(i) ==
    /\ op[i].at = "patch"
    /\ FinishOp(i, {})
    /\ UNCHANGED <<unlocked, ledgerVars, faults>>

\* PatchAppSettings: the settings and the owed redeploy commit together.  Not
\* fenced by the lease.
PatchCommit(i, sets, changes) ==
    LET degraded == status = "degraded"
        retry == degraded /\ resourceError /\ sets \cap Resources # {}
        repair == degraded /\ (sets \cap Resizable # {} \/ retry)
        armed == Up /\ (changes # {} \/ repair)
        seq == app.launched + 1
    IN  /\ op[i].at = "patch"
        /\ changes \subseteq sets
        /\ stale' = stale \cup (IF Up THEN changes
                              ELSE IF status = "suspended" THEN changes \cap Frozen ELSE {})
        /\ armed => app.launched < MaxSeq
        /\ app' = IF armed
                  THEN [app EXCEPT !.launched = seq,
                          !.full = IF changes \subseteq {"replicas"} THEN @ ELSE seq]
                  ELSE app
        /\ op' = [j \in Instances |->
                    IF j # i THEN Missing(op[j], changes)
                    ELSE IF armed
                    THEN [op[i] EXCEPT !.at = "apply", !.seq = seq, !.sets = sets,
                            !.changes = changes, !.wasDegraded = degraded, !.retry = retry,
                            !.priorFull = app.full, !.priorLast = app.last]
                    ELSE NoOp]
        /\ UNCHANGED queue
        /\ UNCHANGED <<unlocked, status, resourceError, faults>>

\* One of the writes that follow the commit fails: the deferred launch runs.
PatchAborted(i) ==
    /\ op[i].at = "apply"
    /\ StoreGivesUp
    /\ FinishOp(i, Launch(i))
    /\ UNCHANGED <<unlocked, ledgerVars>>

\* Whether live application is tried at all, and what it would apply.
TriesLiveResources(i) ==
    /\ op[i].retry \/ op[i].changes \cap Resources # {}
    /\ op[i].changes \cap {"isolation", "placement"} = {}

LiveLimits(i) == IF op[i].retry THEN Resources ELSE op[i].changes \cap Resources

\* What the proxy takes over at once; a change of mode waits for the cycle.
HotApplied(i) == IF "isolation" \in op[i].changes THEN {} ELSE op[i].changes \cap Hot

\* The live part of the handler ends with the update applied or not needed.
PatchAppliedLive(i) ==
    /\ op[i].at = "apply"
    /\ stale' = stale \ (HotApplied(i) \cup IF TriesLiveResources(i) THEN LiveLimits(i) ELSE {})
    /\ IF op[i].retry /\ TriesLiveResources(i)
       THEN SetStatus("running", FALSE)
       ELSE UNCHANGED <<status, resourceError>>
    /\ IF "isolation" \in op[i].changes \/ (op[i].changes \cap Resources # {} /\ ~TriesLiveResources(i))
       THEN FinishOp(i, Launch(i))
       ELSE NextStage(i, [op[i] EXCEPT !.at = "resolve"])
    /\ UNCHANGED <<unlocked, app, faults>>

\* The runtime cannot apply the limits live: the pool is to be cycled.
PatchUnsupportedLive(i) ==
    /\ op[i].at = "apply"
    /\ TriesLiveResources(i)
    /\ stale' = stale \ HotApplied(i)
    /\ FinishOp(i, Launch(i))
    /\ UNCHANGED <<unlocked, app, status, resourceError, faults>>

\* Live application failed: sessions are kept, the error is shown instead.
PatchFailedLive(i) ==
    /\ op[i].at = "apply"
    /\ TriesLiveResources(i)
    /\ stale' = stale \ HotApplied(i)
    /\ SetStatus("degraded", TRUE)
    /\ NextStage(i, [op[i] EXCEPT !.at = "resolve", !.outcome = "failed"])
    /\ UNCHANGED <<unlocked, app, faults>>

NeedsResize(i) ==
    \/ op[i].changes \cap Resizable # {}
    \/ op[i].wasDegraded /\ op[i].sets \cap Resizable # {}
    \/ op[i].retry /\ op[i].outcome # "failed" /\ stale \cap Resizable # {}

ResolveOutcome(i) ==
    IF op[i].outcome = "failed" THEN "failed"
    ELSE IF NeedsResize(i) THEN "none" ELSE "completed"

\* ResolveLiveSettingsRedeploy, and the launch the handler defers to its return.
PatchResolve(i) ==
    LET ok == ~Fenced(i, known[i]) /\ Resolvable(op[i])
    IN  /\ op[i].at = "resolve"
        /\ app' = IF ok THEN Resolved(op[i], ResolveOutcome(i)) ELSE app
        /\ FinishOp(i, IF ok /\ ResolveOutcome(i) # "none" THEN {} ELSE Launch(i))
        /\ UNCHANGED <<unlocked, status, resourceError, stale, faults>>

PatchResolveGivesUp(i) ==
    /\ op[i].at = "resolve"
    /\ StoreGivesUp
    /\ \/ UNCHANGED app
       \/ /\ ~Fenced(i, known[i]) /\ Resolvable(op[i])
          /\ app' = Resolved(op[i], ResolveOutcome(i))
    /\ FinishOp(i, Launch(i))
    /\ UNCHANGED <<unlocked, status, resourceError, stale>>

----------------------------------------------------------------------------
(* redeployApp.                                                             *)

\* The goroutine gets the lock and captures the lease.
RedeployBegin(q) ==
    /\ q \in queue
    /\ StartOp(q[1], [NoOp EXCEPT !.at = "claim", !.seq = q[2], !.lease = known[q[1]]])
    /\ queue' = queue \ {q}
    /\ UNCHANGED <<unlocked, ledgerVars, faults>>

RedeployClaim(i) ==
    /\ op[i].at = "claim"
    /\ IF ~Fenced(i, op[i].lease) /\ Claimable(op[i].seq)
       THEN /\ app' = Claimed(op[i].seq, op[i].lease)
            /\ NextStage(i, [op[i] EXCEPT !.at = "claimed"])
       ELSE /\ UNCHANGED app
            /\ FinishOp(i, {})
    /\ UNCHANGED <<unlocked, status, resourceError, stale, faults>>

RedeployClaimGivesUp(i) ==
    /\ op[i].at = "claim"
    /\ StoreGivesUp
    /\ \/ UNCHANGED app
       \/ /\ ~Fenced(i, op[i].lease) /\ Claimable(op[i].seq)
          /\ app' = Claimed(op[i].seq, op[i].lease)
    /\ FinishOp(i, {})
    /\ UNCHANGED <<unlocked, status, resourceError, stale>>

\* What kind of cycle is owed, and the settings it is to bring about.
CycleBegin(i) ==
    /\ op[i].at = "claimed"
    /\ NextStage(i, [op[i] EXCEPT !.at = "cycle", !.full = NeedsFullCycle])
    /\ UNCHANGED <<unlocked, ledgerVars, faults>>

Ended(i, o) ==
    NextStage(i, [op[i] EXCEPT !.at = "record", !.outcome = o, !.full = FALSE, !.missed = {}])

\* A guard, or a pool that is no longer up: nothing is done.
CycleSkipped(i) ==
    /\ op[i].at = "cycle"
    /\ Ended(i, "skipped")
    /\ UNCHANGED <<unlocked, ledgerVars, faults>>

\* cycleRedeploy stops the pool and boots it on the stored settings.
CycleBoots(i) ==
    /\ op[i].at = "cycle"
    /\ Up /\ op[i].full
    /\ stale' = op[i].missed
    /\ SetStatus("running", FALSE)
    /\ Ended(i, "completed")
    /\ UNCHANGED <<unlocked, app, faults>>

\* cycleResize adjusts the slots and leaves the surviving ones as they are; a
\* pool with every slot healthy is no longer degraded.
CycleResizes(i) ==
    /\ op[i].at = "cycle"
    /\ Up /\ ~op[i].full
    /\ stale' = (stale \ Resizable) \cup (op[i].missed \cap Resizable)
    /\ \/ UNCHANGED <<status, resourceError>>
       \/ status = "degraded" /\ SetStatus("running", FALSE)
    /\ Ended(i, "completed")
    /\ UNCHANGED <<unlocked, app, faults>>

\* Either fails: in a guard or a panic, or with an error of its own in place
\* of the one shown (a resize also when it cannot read that the app is down).
CycleFails(i) ==
    /\ op[i].at = "cycle"
    /\ \/ UNCHANGED <<status, resourceError>>
       \/ (Up \/ ~op[i].full) /\ SetStatus("degraded", FALSE)
    /\ Ended(i, "failed")
    /\ UNCHANGED <<unlocked, app, stale, faults>>

RedeployRecord(i) ==
    /\ op[i].at = "record"
    /\ app' = IF ~Fenced(i, op[i].lease) /\ Recordable(op[i].seq, op[i].lease)
              THEN Reported(op[i].seq, op[i].outcome)
              ELSE app
    /\ FinishOp(i, {})
    /\ UNCHANGED <<unlocked, status, resourceError, stale, faults>>

RedeployRecordGivesUp(i) ==
    /\ op[i].at = "record"
    /\ StoreGivesUp
    /\ \/ UNCHANGED app
       \/ /\ ~Fenced(i, op[i].lease) /\ Recordable(op[i].seq, op[i].lease)
          /\ app' = Reported(op[i].seq, op[i].outcome)
    /\ FinishOp(i, {})
    /\ UNCHANGED <<unlocked, status, resourceError, stale>>

----------------------------------------------------------------------------
(* Boots: restart, deploy and rollback; stop, hibernation and wake.         *)

\* The seq is read after the lock was taken: it names the settings booted.
BootBegin(i) ==
    /\ Admitted(i)
    /\ StartOp(i, [NoOp EXCEPT !.at = "boot", !.seq = app.launched])
    /\ UNCHANGED <<unlocked, ledgerVars, queue, faults>>

BootRefused(i) ==
    /\ op[i].at = "boot"
    /\ FinishOp(i, {})
    /\ UNCHANGED <<unlocked, ledgerVars, faults>>

BootsPool(i) ==
    /\ op[i].at = "boot"
    /\ stale' = op[i].missed
    /\ NextStage(i, [op[i] EXCEPT !.at = "bootRecord", !.outcome = "completed", !.missed = {}])
    /\ UNCHANGED <<unlocked, app, status, resourceError, faults>>

\* A failed restart leaves no pool; a deploy may keep a stopped app down.
BootsNothing(i, o) ==
    /\ op[i].at = "boot"
    /\ o = "failed" \/ (o = "skipped" /\ status = "stopped")
    /\ stale' = {}
    /\ SetStatus("stopped", FALSE)
    /\ NextStage(i, [op[i] EXCEPT !.at = "bootRecord", !.outcome = o, !.missed = {}])
    /\ UNCHANGED <<unlocked, app, faults>>

AfterBoot(i) ==
    IF op[i].outcome = "completed"
    THEN SetStatus("running", FALSE)
    ELSE UNCHANGED <<status, resourceError>>

BootRecord(i) ==
    /\ op[i].at = "bootRecord"
    /\ app' = IF ~Fenced(i, known[i]) /\ BootRecordable(op[i].seq)
              THEN Reported(op[i].seq, op[i].outcome)
              ELSE app
    /\ AfterBoot(i)
    /\ FinishOp(i, {})
    /\ UNCHANGED <<unlocked, stale, faults>>

BootRecordGivesUp(i) ==
    /\ op[i].at = "bootRecord"
    /\ StoreGivesUp
    /\ UNCHANGED app
    /\ AfterBoot(i)
    /\ FinishOp(i, {})
    /\ UNCHANGED <<unlocked, stale>>

\* A stop, under the lock: no pool, nothing that lags.
PoolStops(i) ==
    /\ Admitted(i)
    /\ LockFree(i)
    /\ status # "stopped"
    /\ stale' = {}
    /\ SetStatus("stopped", FALSE)
    /\ UNCHANGED <<unlocked, app, queue, op, faults>>

\* The watcher hibernates an idle pool: freezes it, or stops it.
PoolHibernates(i) ==
    /\ Admitted(i)
    /\ LockFree(i)
    /\ Up
    /\ \/ Snapshots /\ stale' = stale \cap Frozen /\ SetStatus("suspended", FALSE)
       \/ stale' = {} /\ SetStatus("hibernated", FALSE)
    /\ UNCHANGED <<unlocked, app, queue, op, faults>>

\* A wake thaws the pool, or boots it on the stored settings; it reports nothing.
PoolWakes(i) ==
    /\ Admitted(i)
    /\ LockFree(i)
    /\ status \in {"hibernated", "suspended"}
    /\ status' = "running"
    /\ UNCHANGED <<unlocked, app, resourceError, stale, queue, op, faults>>

----------------------------------------------------------------------------
Ownership(i) ==
    \/ LeaseTaken(i) \/ LeaseLearned(i) \/ LeaseRenewed(i)
    \/ LeaseForgotten(i) \/ LeaseGivenUp(i)
    \/ SpanReady(i) \/ SpanReadyScanFails(i) \/ Crash(i)

Requests(i) ==
    \/ PatchBegin(i) \/ BootBegin(i)
    \/ PoolStops(i) \/ PoolHibernates(i) \/ PoolWakes(i)

Patching(i) ==
    \/ PatchRejected(i)
    \/ \E sets \in Edits : \E changes \in SUBSET sets : PatchCommit(i, sets, changes)
    \/ PatchAppliedLive(i) \/ PatchUnsupportedLive(i) \/ PatchFailedLive(i)
    \/ PatchResolve(i)

Redeploying(i) ==
    \/ RedeployClaim(i) \/ CycleBegin(i) \/ CycleSkipped(i) \/ CycleFails(i)
    \/ CycleBoots(i) \/ CycleResizes(i) \/ RedeployRecord(i)

Booting(i) ==
    \/ BootRefused(i) \/ BootsPool(i)
    \/ \E o \in {"skipped", "failed"} : BootsNothing(i, o)
    \/ BootRecord(i)

GivingUp(i) ==
    \/ PatchAborted(i) \/ PatchResolveGivesUp(i) \/ RedeployClaimGivesUp(i)
    \/ RedeployRecordGivesUp(i) \/ BootRecordGivesUp(i)

Next ==
    \/ LeaseExpires
    \/ \E i \in Instances :
         \/ Ownership(i) \/ Requests(i)
         \/ Patching(i) \/ Redeploying(i) \/ Booting(i) \/ GivingUp(i)
    \/ \E q \in queue : RedeployBegin(q)

Spec == Init /\ [][Next]_vars

\* An operation that holds the lock goes on, and the lock, however contended,
\* goes to a waiting redeploy again and again (sync.Mutex hands over to a waiter
\* that has starved).
Fairness ==
    \A i \in Instances :
        /\ WF_vars(Patching(i) \/ Redeploying(i) \/ Booting(i))
        /\ SF_vars(\E q \in queue : q[1] = i /\ RedeployBegin(q))

FairSpec == Spec /\ Fairness

----------------------------------------------------------------------------
(* Properties.                                                              *)

Apps == [launched : Nat, full : Nat, last : Nat, outcome : Outcomes \cup {"none"},
         claimSeq : Nat, claimEpoch : Nat]

Stages == {"idle", "patch", "apply", "resolve", "claim", "claimed", "cycle", "record",
           "boot", "bootRecord"}

Ops == [at : Stages, seq : Nat, sets : SUBSET Kinds, changes : SUBSET Kinds,
        wasDegraded : BOOLEAN, retry : BOOLEAN, priorFull : Nat, priorLast : Nat,
        lease : Nat, full : BOOLEAN, missed : SUBSET Kinds,
        outcome : Outcomes \cup {"none"}]

\* Types of the lease, the ledger and the operation in progress.
TypeOK ==
    /\ holder \in Instances \cup {NoInstance}
    /\ leaseEpoch \in Nat
    /\ live \in BOOLEAN /\ answered \in BOOLEAN
    /\ known \in [Instances -> Nat]
    /\ ready \in [Instances -> BOOLEAN]
    /\ app \in Apps
    /\ status \in {"running", "degraded", "stopped", "hibernated", "suspended"}
    /\ resourceError \in BOOLEAN
    /\ stale \subseteq Kinds
    /\ queue \subseteq (Instances \X Nat \X {"patch", "owed"})
    /\ op \in [Instances -> Ops]
    /\ faults \in Nat /\ crashes \in Nat

\* redeploy_full_seq: a change only a cycle of the whole pool brings about is
\* still owed that cycle for as long as the pool lags in it, through outcomes
\* that failed or were skipped, supersession and the loss of the owner.
StructureStaysOwed ==
    Quiet /\ Up /\ stale \cap (Hot \cup {"isolation"}) # {} => NeedsFullCycle

\* An outcome that reports the newest seq as applied (RedeployCompleted,
\* RedeployPartial), with no redeploy left to run, is true of the pool,
\* resource limits aside.
ReportIsTrue ==
    Quiet /\ queue = {} /\ Up /\ app.last = app.launched /\ app.outcome = "completed"
      => stale \subseteq Resources

\* ClaimRedeploy: a redeploy whose instance keeps the lease keeps its claim, so
\* that what it did to the pool is reported, never discarded.
LeaseholderKeepsItsClaim ==
    \A i \in Instances :
        op[i].at \in {"claimed", "cycle", "record"} /\ ~Fenced(i, op[i].lease)
          => Recordable(op[i].seq, op[i].lease)

\* "Each seq gets at most one outcome": reports move forward, and what is
\* reported of a seq is replaced only by a boot that came later.
OneOutcomePerSeq ==
    [][/\ app'.last >= app.last
       /\ app'.last = app.last /\ app'.outcome # app.outcome
            => \E i \in Instances : op[i].at = "bootRecord" /\ op'[i].at = "idle"]_vars

\* A lease holder that knows it and has recovered.
Serving ==
    \E i \in Instances :
        holder = i /\ live /\ known[i] = leaseEpoch /\ ready[i]

\* Once ownership is stable every committed change gets its outcome: the
\* goroutine the PATCH launched serves it, or the relaunch of a later span.
EverySeqIsServed == <>[]Serving => []<>(app.last = app.launched)
============================================================================
