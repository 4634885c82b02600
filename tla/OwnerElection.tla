--------------------------- MODULE OwnerElection ---------------------------
(***************************************************************************)
(* Control-plane ownership: the single cp_owner lease row                  *)
(* (internal/db/owner.go), the Elector loop every instance runs against it *)
(* (internal/leader/elector.go), the OwnerScope that runs the owner-only   *)
(* work (internal/leader/scope.go and its wiring in cmd/shinyhub/main.go)  *)
(* and the lease-fenced write transaction (leasedWrite in                  *)
(* internal/db/redeploy_outcome.go).                                       *)
(*                                                                         *)
(* Every store call is a step of its own, so instances interleave between  *)
(* a call's start, its statement and its answer.  A store call may fail    *)
(* before or after its statement took effect, an instance may stall, crash *)
(* or restart at any point, and a drain of the owner's work may give up.   *)
(***************************************************************************)
EXTENDS Integers

CONSTANTS
    Instances,      \* control-plane processes, by server.instance_id
    Writers,        \* the instances that issue lease-fenced writes
    NoInstance,     \* cp_owner.instance_id IS NULL
    Second,         \* clock ticks in one second
    TTL,            \* Config.TTL after clampTTL, in ticks
    TruncatesClock, \* TRUE: SQLite's datetime('now') drops sub-seconds
    MaxTime,        \* bound: the clock stops here
    MaxFaults       \* bound: store errors, crashes and restarts in all

ASSUME ConstantsAssumption ==
    /\ NoInstance \notin Instances
    /\ Writers \subseteq Instances
    /\ Second \in Nat \ {0}
    /\ TTL \in Nat \ {0}
    /\ TruncatesClock \in BOOLEAN
    /\ MaxTime \in Nat
    /\ MaxFaults \in Nat

VARIABLES
    now,               \* the clock, in ticks
    row,               \* the cp_owner row; epoch 0 stands for "no row yet"
    rowLock,           \* the instance whose transaction has the row locked
    pc,                \* where each instance's Elector.Run stands
    owner, epoch,      \* Elector.owner, Elector.epoch
    leaseExpiry,       \* Elector.leaseExpiry; 0 is the zero time
    start,             \* the timestamp taken before the store call
    exiting,           \* the epoch Run captured when its context was cancelled
    span,              \* epoch of the OwnerScope span that is running, or 0
    cancelled,         \* that span's context has been cancelled
    ready,             \* ownerReady
    handoffIncomplete, \* a drain of owner work gave up in this process
    leftover,          \* work that such a drain left running (ghost)
    token,             \* the lease epoch a fenced write was started with, or 0
    lastWrite,         \* epoch of the last fenced write committed (ghost)
    faults             \* store errors, crashes and restarts so far

elector == <<owner, epoch, leaseExpiry>>
scope == <<span, cancelled, ready, handoffIncomplete, leftover>>
writes == <<rowLock, token, lastWrite>>
vars == <<now, row, pc, elector, start, exiting, scope, writes, faults>>

Rows == [instance : Instances \cup {NoInstance}, epoch : Nat, expires : Nat]

PCs == {"down", "idle", "renew", "acquire", "readEpoch", "onAcquire",
        "onLose", "drain", "release", "returned"}

----------------------------------------------------------------------------
(* The store's clock and the lease row.                                     *)

\* The time the database reports: datetime('now') has one-second resolution.
DbNow == IF TruncatesClock THEN (now \div Second) * Second ELSE now

\* secs := int(ttl / time.Second), at least one second.
TTLSeconds == IF TTL \div Second < 1 THEN 1 ELSE TTL \div Second

DbPlusTTL == DbNow + TTLSeconds * Second

\* MUTANT: an expired lease is not up for grabs, only a released one.
FreeOnlyReleased == row.instance = NoInstance

Free == row.instance = NoInstance \/ row.expires <= DbNow

Matches(i, e) == row.instance = i /\ row.epoch = e

\* MUTANT: the fence checks that some lease is unexpired, not that it is ours.
LeaseUnexpired(i, e) == row.expires > DbNow

\* checkOwnerLease: the row is this instance's at this epoch and unexpired.
LeaseValid(i, e) == Matches(i, e) /\ row.expires > DbNow

Unlocked == rowLock = NoInstance

\* MUTANT: the conflict branch of the upsert forgets epoch + 1.
UpsertSameEpoch(i) ==
    [instance |-> i, epoch |-> IF row.epoch = 0 THEN 1 ELSE row.epoch,
     expires |-> DbPlusTTL]

\* AcquireOwner's upsert: taken only from a free row, and the epoch advances.
Upsert(i) == [instance |-> i, epoch |-> row.epoch + 1, expires |-> DbPlusTTL]

\* RenewOwner's UPDATE matches on instance and epoch, not on expiry.
Renewed == [row EXCEPT !.expires = DbPlusTTL]

\* MUTANT: the release back-dates the expiry, before the clock's origin too.
ReleasedInThePast ==
    [instance |-> NoInstance, epoch |-> row.epoch, expires |-> DbNow - TTL]

\* MUTANT: the release deletes the row, and the epoch with it.
ReleasedForgetsEpoch ==
    [instance |-> NoInstance, epoch |-> 0, expires |-> DbNow]

\* ReleaseOwner keeps the row and its epoch.
Released == [instance |-> NoInstance, epoch |-> row.epoch, expires |-> DbNow]

----------------------------------------------------------------------------
Init ==
    /\ now = 0
    /\ row = [instance |-> NoInstance, epoch |-> 0, expires |-> 0]
    /\ rowLock = NoInstance
    /\ pc = [i \in Instances |-> "idle"]
    /\ owner = [i \in Instances |-> FALSE]
    /\ epoch = [i \in Instances |-> 0]
    /\ leaseExpiry = [i \in Instances |-> 0]
    /\ start = [i \in Instances |-> 0]
    /\ exiting = [i \in Instances |-> 0]
    /\ span = [i \in Instances |-> 0]
    /\ cancelled = [i \in Instances |-> FALSE]
    /\ ready = [i \in Instances |-> FALSE]
    /\ handoffIncomplete = [i \in Instances |-> FALSE]
    /\ leftover = [i \in Instances |-> FALSE]
    /\ token = [i \in Instances |-> 0]
    /\ lastWrite = 0
    /\ faults = 0

GoTo(i, l) == pc' = [pc EXCEPT ![i] = l]

\* step returns: its local variable start goes out of scope.
StepDone(i) == GoTo(i, "idle") /\ start' = [start EXCEPT ![i] = 0]

Fault == faults < MaxFaults /\ faults' = faults + 1

\* Elector.set, and the cancel at the head of OwnerScope.Lose.
SetOwner(i, b, e) ==
    /\ owner' = [owner EXCEPT ![i] = b]
    /\ epoch' = [epoch EXCEPT ![i] = e]

\* MUTANT: the span's context is never cancelled.
CancelNothing(i) == UNCHANGED cancelled

CancelSpan(i) == cancelled' = [cancelled EXCEPT ![i] = span[i] # 0]

\* relinquish: drop ownership, then block in OnLose until the span is gone.
Relinquish(i) ==
    /\ SetOwner(i, FALSE, 0)
    /\ CancelSpan(i)
    /\ GoTo(i, "onLose")
    /\ start' = [start EXCEPT ![i] = 0]

\* leaseExpired: consulted only when a renewal returned an error.
LeaseExpired(i) == leaseExpiry[i] # 0 /\ now >= leaseExpiry[i]

----------------------------------------------------------------------------
(* Elector.step: one acquire-or-renew cycle.                                *)

\* A tick: note the time, then call RenewOwner or AcquireOwner.
BeginStep(i) ==
    /\ pc[i] = "idle"
    /\ start' = [start EXCEPT ![i] = now]
    /\ GoTo(i, IF owner[i] THEN "renew" ELSE "acquire")
    /\ UNCHANGED <<now, row, elector, exiting, scope, writes, faults>>

RenewOk(i) ==
    /\ pc[i] = "renew"
    /\ Unlocked
    /\ Matches(i, epoch[i])
    /\ row' = Renewed
    /\ leaseExpiry' = [leaseExpiry EXCEPT ![i] = start[i] + TTL]
    /\ StepDone(i)
    /\ UNCHANGED <<now, owner, epoch, exiting, scope, writes, faults>>

RenewLost(i) ==
    /\ pc[i] = "renew"
    /\ Unlocked
    /\ ~Matches(i, epoch[i])
    /\ Relinquish(i)
    /\ UNCHANGED <<now, row, leaseExpiry, exiting, span, ready,
                   handoffIncomplete, leftover, writes, faults>>

\* The renewal returned an error; its UPDATE may have been applied all the same.
RenewError(i) ==
    /\ pc[i] = "renew"
    /\ Fault
    /\ \/ UNCHANGED row
       \/ Unlocked /\ Matches(i, epoch[i]) /\ row' = Renewed
    /\ IF LeaseExpired(i)
       THEN Relinquish(i)
       ELSE StepDone(i) /\ UNCHANGED <<owner, epoch, cancelled>>
    /\ UNCHANGED <<now, leaseExpiry, exiting, span, ready,
                   handoffIncomplete, leftover, writes>>

AcquireUpsert(i) ==
    /\ pc[i] = "acquire"
    /\ Unlocked
    /\ IF Free
       THEN row' = Upsert(i) /\ GoTo(i, "readEpoch") /\ UNCHANGED start
       ELSE UNCHANGED row /\ StepDone(i)
    /\ UNCHANGED <<now, elector, exiting, scope, writes, faults>>

\* The upsert returned an error, applied or not: the instance is not owner.
AcquireError(i) ==
    /\ pc[i] = "acquire"
    /\ Fault
    /\ \/ UNCHANGED row
       \/ Unlocked /\ Free /\ row' = Upsert(i)
    /\ StepDone(i)
    /\ UNCHANGED <<now, elector, exiting, scope, writes>>

\* MUTANT: the deadline counts from the answer, not from before the call.
AcquireReadBumpsFromAnswer(i) ==
    /\ pc[i] = "readEpoch"
    /\ IF row.instance = i
       THEN /\ SetOwner(i, TRUE, row.epoch)
            /\ leaseExpiry' = [leaseExpiry EXCEPT ![i] = now + TTL]
            /\ GoTo(i, "onAcquire")
            /\ start' = [start EXCEPT ![i] = 0]
       ELSE /\ UNCHANGED elector
            /\ StepDone(i)
    /\ UNCHANGED <<now, row, exiting, scope, writes, faults>>

\* AcquireOwner's separate SELECT of the epoch by instance_id.
AcquireRead(i) ==
    /\ pc[i] = "readEpoch"
    /\ IF row.instance = i
       THEN /\ SetOwner(i, TRUE, row.epoch)
            /\ leaseExpiry' = [leaseExpiry EXCEPT ![i] = start[i] + TTL]
            /\ GoTo(i, "onAcquire")
            /\ start' = [start EXCEPT ![i] = 0]
       ELSE /\ UNCHANGED elector
            /\ StepDone(i)
    /\ UNCHANGED <<now, row, exiting, scope, writes, faults>>

AcquireReadError(i) ==
    /\ pc[i] = "readEpoch"
    /\ Fault
    /\ StepDone(i)
    /\ UNCHANGED <<now, row, elector, exiting, scope, writes>>

----------------------------------------------------------------------------
(* OwnerScope and the owner work it runs.                                   *)

\* OwnerScope.Acquire joins any earlier span, then starts ownerWork, which
\* closes the readiness gate first thing.
ScopeAcquire(i) ==
    /\ pc[i] = "onAcquire"
    /\ span[i] = 0
    /\ span' = [span EXCEPT ![i] = epoch[i]]
    /\ cancelled' = [cancelled EXCEPT ![i] = FALSE]
    /\ ready' = [ready EXCEPT ![i] = FALSE]
    /\ GoTo(i, "idle")
    /\ UNCHANGED <<now, row, elector, start, exiting, handoffIncomplete,
                   leftover, writes, faults>>

\* Startup recovery finished and the context was still live: open the gate.
OwnerReady(i) ==
    /\ span[i] # 0
    /\ ~cancelled[i]
    /\ ready' = [ready EXCEPT ![i] = TRUE]
    /\ UNCHANGED <<now, row, pc, elector, start, exiting, span, cancelled,
                   handoffIncomplete, leftover, writes, faults>>

\* MUTANT: the readiness gate is not closed when the span ends.
EndSpanLeavesGateOpen(i) ==
    /\ span' = [span EXCEPT ![i] = 0]
    /\ cancelled' = [cancelled EXCEPT ![i] = FALSE]
    /\ UNCHANGED ready

\* ownerWork returns: the deferred store closes the gate, Lose forgets the span.
EndSpan(i) ==
    /\ span' = [span EXCEPT ![i] = 0]
    /\ cancelled' = [cancelled EXCEPT ![i] = FALSE]
    /\ ready' = [ready EXCEPT ![i] = FALSE]

\* ownerWork panicked and was recovered: the span is over, the lease is not.
SpanPanics(i) ==
    /\ span[i] # 0
    /\ Fault
    /\ EndSpan(i)
    /\ UNCHANGED <<now, row, pc, elector, start, exiting, handoffIncomplete,
                   leftover, writes>>

\* The cancelled span closes the gate, stops its loops, drains jobs and
\* in-flight requests within the drain budget, and returns.  Ownership was
\* dropped before the cancel, so when in the drain the gate closes does not show.
SpanDrained(i) ==
    /\ span[i] # 0
    /\ cancelled[i]
    /\ EndSpan(i)
    /\ UNCHANGED <<now, row, pc, elector, start, exiting, handoffIncomplete,
                   leftover, writes, faults>>

\* The same, but the drain hit its deadline with work still running.
SpanDrainGaveUp(i) ==
    /\ span[i] # 0
    /\ cancelled[i]
    /\ Fault
    /\ EndSpan(i)
    /\ handoffIncomplete' = [handoffIncomplete EXCEPT ![i] = TRUE]
    /\ leftover' = [leftover EXCEPT ![i] = TRUE]
    /\ UNCHANGED <<now, row, pc, elector, start, exiting, writes>>

\* Work a drain gave up on comes to its own end.
LeftoverEnds(i) ==
    /\ leftover[i]
    /\ leftover' = [leftover EXCEPT ![i] = FALSE]
    /\ UNCHANGED <<now, row, pc, elector, start, exiting, span, cancelled,
                   ready, handoffIncomplete, writes, faults>>

\* OnLose returned from the relinquish in step.
LoseReturns(i) ==
    /\ pc[i] = "onLose"
    /\ span[i] = 0
    /\ GoTo(i, "idle")
    /\ UNCHANGED <<now, row, elector, start, exiting, scope, writes, faults>>

----------------------------------------------------------------------------
(* Shutdown, crash and restart.                                             *)

\* Run observes its cancelled context between two steps.
Shutdown(i) ==
    /\ pc[i] = "idle"
    /\ IF owner[i]
       THEN /\ exiting' = [exiting EXCEPT ![i] = epoch[i]]
            /\ SetOwner(i, FALSE, 0)
            /\ CancelSpan(i)
            /\ GoTo(i, "drain")
       ELSE /\ GoTo(i, "returned")
            /\ UNCHANGED <<exiting, owner, epoch, cancelled>>
    /\ UNCHANGED <<now, row, leaseExpiry, start, span, ready,
                   handoffIncomplete, leftover, writes, faults>>

RunReturns(i) ==
    /\ GoTo(i, "returned")
    /\ exiting' = [exiting EXCEPT ![i] = 0]

\* MUTANT: the lease goes before the owner work has been joined.
ReleaseBeforeJoin(i) ==
    /\ pc[i] = "drain"
    /\ IF handoffIncomplete[i]
       THEN RunReturns(i)
       ELSE GoTo(i, "release") /\ UNCHANGED exiting
    /\ UNCHANGED <<now, row, elector, start, scope, writes, faults>>

\* MUTANT: RetainLeaseOnExit is not consulted.
ReleaseAlways(i) ==
    /\ pc[i] = "drain"
    /\ span[i] = 0
    /\ GoTo(i, "release")
    /\ UNCHANGED <<now, row, elector, start, exiting, scope, writes, faults>>

\* OnLose returned during shutdown: release, unless a drain gave up.
RetainOrRelease(i) ==
    /\ pc[i] = "drain"
    /\ span[i] = 0
    /\ IF handoffIncomplete[i]
       THEN RunReturns(i)
       ELSE GoTo(i, "release") /\ UNCHANGED exiting
    /\ UNCHANGED <<now, row, elector, start, scope, writes, faults>>

Release(i) ==
    /\ pc[i] = "release"
    /\ Unlocked
    /\ row' = IF Matches(i, exiting[i]) THEN Released ELSE row
    /\ RunReturns(i)
    /\ UNCHANGED <<now, elector, start, scope, writes, faults>>

ReleaseError(i) ==
    /\ pc[i] = "release"
    /\ Fault
    /\ \/ UNCHANGED row
       \/ Unlocked /\ Matches(i, exiting[i]) /\ row' = Released
    /\ RunReturns(i)
    /\ UNCHANGED <<now, elector, start, scope, writes>>

\* The process is gone and everything it held in memory with it; the database
\* rolls back its open transaction.
ProcessGone(i) ==
    /\ GoTo(i, "down")
    /\ SetOwner(i, FALSE, 0)
    /\ leaseExpiry' = [leaseExpiry EXCEPT ![i] = 0]
    /\ start' = [start EXCEPT ![i] = 0]
    /\ exiting' = [exiting EXCEPT ![i] = 0]
    /\ span' = [span EXCEPT ![i] = 0]
    /\ cancelled' = [cancelled EXCEPT ![i] = FALSE]
    /\ ready' = [ready EXCEPT ![i] = FALSE]
    /\ handoffIncomplete' = [handoffIncomplete EXCEPT ![i] = FALSE]
    /\ leftover' = [leftover EXCEPT ![i] = FALSE]
    /\ token' = [token EXCEPT ![i] = 0]
    /\ rowLock' = IF rowLock = i THEN NoInstance ELSE rowLock
    /\ UNCHANGED <<now, row, lastWrite>>

Exit(i) == pc[i] = "returned" /\ ProcessGone(i) /\ UNCHANGED faults

Crash(i) == pc[i] # "down" /\ Fault /\ ProcessGone(i)

\* A process starts again under the same instance_id.
Restart(i) ==
    /\ pc[i] = "down"
    /\ Fault
    /\ GoTo(i, "idle")
    /\ UNCHANGED <<now, row, elector, start, exiting, scope, writes>>

----------------------------------------------------------------------------
(* leasedWrite: a transaction fenced by the lease its caller captured.      *)

\* The caller reads the current lease, possibly long before it writes.
CaptureLease(i) ==
    /\ i \in Writers
    /\ owner[i] /\ ready[i]
    /\ token[i] = 0
    /\ token' = [token EXCEPT ![i] = epoch[i]]
    /\ UNCHANGED <<now, row, pc, elector, start, exiting, scope, rowLock,
                   lastWrite, faults>>

\* The first check locks the row for the rest of the transaction.
BeginLeasedWrite(i) ==
    /\ token[i] # 0
    /\ Unlocked
    /\ IF LeaseValid(i, token[i])
       THEN rowLock' = i /\ UNCHANGED token
       ELSE token' = [token EXCEPT ![i] = 0] /\ UNCHANGED rowLock
    /\ UNCHANGED <<now, row, pc, elector, start, exiting, scope, lastWrite,
                   faults>>

\* The second check just before commit: the write lands or is discarded.
CommitLeasedWrite(i) ==
    /\ rowLock = i
    /\ rowLock' = NoInstance
    /\ lastWrite' = IF LeaseValid(i, token[i]) THEN token[i] ELSE lastWrite
    /\ token' = [token EXCEPT ![i] = 0]
    /\ UNCHANGED <<now, row, pc, elector, start, exiting, scope, faults>>

Tick ==
    /\ now < MaxTime
    /\ now' = now + 1
    /\ UNCHANGED <<row, pc, elector, start, exiting, scope, writes, faults>>

----------------------------------------------------------------------------
ElectorStep(i) ==
    \/ BeginStep(i) \/ RenewOk(i) \/ RenewLost(i)
    \/ AcquireUpsert(i) \/ AcquireRead(i)
    \/ ScopeAcquire(i) \/ LoseReturns(i)
    \/ RetainOrRelease(i) \/ Release(i) \/ Exit(i)

StoreError(i) ==
    \/ RenewError(i) \/ AcquireError(i) \/ AcquireReadError(i)
    \/ ReleaseError(i)

OwnerWork(i) ==
    \/ OwnerReady(i) \/ SpanPanics(i) \/ SpanDrained(i)
    \/ SpanDrainGaveUp(i) \/ LeftoverEnds(i)

LeasedWrite(i) ==
    \/ CaptureLease(i) \/ BeginLeasedWrite(i) \/ CommitLeasedWrite(i)

Next ==
    \/ Tick
    \/ \E i \in Instances :
         \/ ElectorStep(i) \/ StoreError(i) \/ OwnerWork(i) \/ LeasedWrite(i)
         \/ Shutdown(i) \/ Crash(i) \/ Restart(i)

Spec == Init /\ [][Next]_vars

\* The ticker keeps firing and store calls return, strongly so because waiters
\* for the row lock are served in turn; a cancelled span returns
\* within the drain budget (or the watchdog ends the process) and a
\* transaction ends.
Fairness ==
    /\ WF_vars(Tick)
    /\ \A i \in Instances :
         /\ SF_vars(ElectorStep(i))
         /\ WF_vars(SpanDrained(i))
         /\ WF_vars(CommitLeasedWrite(i))

FairSpec == Spec /\ Fairness

----------------------------------------------------------------------------
(* Properties.                                                              *)

\* Types of the row, the electors and the scopes.
TypeOK ==
    /\ now \in Nat
    /\ row \in Rows
    /\ rowLock \in Instances \cup {NoInstance}
    /\ pc \in [Instances -> PCs]
    /\ owner \in [Instances -> BOOLEAN]
    /\ epoch \in [Instances -> Nat]
    /\ leaseExpiry \in [Instances -> Nat]
    /\ start \in [Instances -> Nat]
    /\ exiting \in [Instances -> Nat]
    /\ span \in [Instances -> Nat]
    /\ cancelled \in [Instances -> BOOLEAN]
    /\ ready \in [Instances -> BOOLEAN]
    /\ handoffIncomplete \in [Instances -> BOOLEAN]
    /\ leftover \in [Instances -> BOOLEAN]
    /\ token \in [Instances -> Nat]
    /\ lastWrite \in Nat
    /\ faults \in Nat

\* The epochs an instance can act under: as owner, in running owner work, in
\* a write it has begun, or for the release it is about to send.
Presents(i) == {epoch[i], span[i], token[i], exiting[i]} \ {0}

\* A fencing epoch names one instance only (OwnerLease: "every acquisition
\* increments the epoch"), whatever acquire answers were lost and however
\* stale an instance's view is.
EpochsAreUnique ==
    \A i, j \in Instances : i # j => Presents(i) \cap Presents(j) = {}

\* An epoch somebody still runs owner work under is never up for grabs as
\* released: the row is still that instance's, or has moved to a later epoch.
SpanKeepsItsEpoch ==
    \A i \in Instances :
        span[i] # 0 => row.epoch > span[i] \/ Matches(i, span[i])

\* Mutations are admitted (ownerAndReady) only while the owner work of the
\* epoch held now is running, so never against the worker index or recovery
\* state of an earlier span.
AdmissionNeedsCurrentSpan ==
    \A i \in Instances : owner[i] /\ ready[i] => span[i] = epoch[i]

\* Fenced writes commit in epoch order: once a later owner has written, no
\* write begun under an earlier epoch lands.
WritesInEpochOrder == [][lastWrite' >= lastWrite]_vars

\* The row is released only by an instance all of whose owner work has
\* stopped, the work an earlier drain in the same process gave up on included.
ReleaseIsQuiet ==
    [][\A i \in Instances :
         row.instance = i /\ row'.instance = NoInstance
           => span[i] = 0 /\ ~leftover[i]]_vars

\* bumpLeaseFrom: the local deadline of an owner that holds the row is never
\* later than the deadline in the row.
LocalDeadlineConservative ==
    \A i \in Instances :
        owner[i] /\ Matches(i, epoch[i]) => leaseExpiry[i] <= row.expires

Running(i) == pc[i] \notin {"down", "returned", "drain", "release"}

\* Some instance is the owner, at the row's own epoch.
Held == \E i \in Instances : owner[i] /\ Matches(i, epoch[i])

\* A lease without an owner (never taken, released, expired, or granted in an
\* answer that was lost) is taken up again while an instance still runs; the
\* last disjunct is the horizon, where an unexpired row can no longer expire.
LeaseIsTakenUp ==
    ~Held ~> \/ Held
             \/ \A i \in Instances : ~Running(i)
             \/ now = MaxTime /\ row.expires > DbNow

\* A process told to shut down gets out: draining never waits for ever.
ShutdownCompletes ==
    \A i \in Instances : pc[i] = "drain" ~> pc[i] = "down"

\* Seen through the row and what each elector knows of it, all this is a
\* fenced lease: taken only when free, its epoch never reused, given up only by
\* an instance that no longer acts as owner.
Lease == INSTANCE FencedLease WITH
    holder <- row.instance, leaseEpoch <- row.epoch,
    live <- row.expires > DbNow, known <- epoch

ImplementsLease == Lease!LeaseSpec

----------------------------------------------------------------------------
(* The inductive invariant behind the safety properties.                    *)

\* An epoch e of instance i is still i's in the row, or has been superseded.
Backed(i, e) == row.epoch > e \/ Matches(i, e)

\* The epochs an instance acts under come from the row: the ones that may yet
\* start or end work are backed by it, a write's token at least not overtaken.
EpochsFromRow ==
    /\ row.instance # NoInstance => row.epoch > 0
    /\ \A i \in Instances :
         /\ owner[i] <=> epoch[i] # 0
         /\ \A e \in {epoch[i], span[i], exiting[i]} : e # 0 => Backed(i, e)
         /\ token[i] # 0 =>
              \/ row.epoch > token[i]
              \/ row.epoch = token[i] /\ row.instance \in {i, NoInstance}

\* Where Run stands determines whether it is the owner and whether its scope
\* can still be running a span.
ControlState ==
    \A i \in Instances :
        /\ pc[i] \in {"renew", "onAcquire"} => owner[i]
        /\ pc[i] \in {"down", "acquire", "readEpoch", "onLose", "drain",
                      "release", "returned"} => ~owner[i]
        /\ pc[i] \in {"down", "acquire", "readEpoch", "onAcquire", "release",
                      "returned"} => span[i] = 0
        /\ pc[i] = "idle" /\ ~owner[i] => span[i] = 0
        /\ owner[i] /\ span[i] # 0 => span[i] = epoch[i]
        /\ ready[i] => span[i] # 0
        /\ leftover[i] => handoffIncomplete[i]
        /\ pc[i] = "release" => ~handoffIncomplete[i]

\* The row lock freezes the row at the epoch of the write that holds it.
LockFreezesRow ==
    /\ lastWrite <= row.epoch
    /\ rowLock \in Instances => token[rowLock] # 0 /\ Matches(rowLock, token[rowLock])

OwnerInv ==
    TypeOK /\ EpochsFromRow /\ EpochsAreUnique /\ ControlState /\ LockFreezesRow

\* The store keeps time as finely as the instances and stamps the whole TTL.
ExactClock == ~TruncatesClock /\ TTLSeconds * Second = TTL

\* With an exact clock, deadlines follow the stamps of the calls they are for.
DeadlinesFollowStamps ==
    \A i \in Instances :
        /\ start[i] <= now
        /\ leaseExpiry[i] <= now + TTL
        /\ owner[i] /\ Matches(i, epoch[i]) => leaseExpiry[i] <= row.expires
        /\ pc[i] = "readEpoch" /\ row.instance = i => start[i] + TTL <= row.expires
============================================================================
