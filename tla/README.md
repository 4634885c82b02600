# A TLA+ model of ShinyHub's control plane

ShinyHub hosts Shiny, Streamlit and similar apps. One Go binary serves the API,
supervises app processes (local or on remote workers), and proxies sessions to
them. Several control-plane instances may share one database; at most one of
them is meant to be the *owner* that runs the background loops and accepts
mutations. This directory models the parts of that control plane whose
correctness depends on interleavings, lost answers, crashes and expiring leases,
checks them with TLC on small instances, and proves the main results with TLAPS
for every value of the constants.

All source paths are relative to the repository root; `PROJECT.json` maps every
definition to the lines it models.

## 1. Inventory

| Component | State | Operations | What is hard about it |
|---|---|---|---|
| Owner election (`internal/leader`, `internal/db/owner.go`, wiring in `cmd/shinyhub/main.go`, `shutdown.go`) | row `cp_owner` (instance, epoch, expiry); per instance the Elector's flag, epoch and local deadline; the OwnerScope's span; the `ownerReady` gate | acquire, renew, relinquish, release, start and join of owner work, drain at shutdown | two clocks, answers lost after the statement took effect, an owner that is slow between two ticks, work that outlives the lease |
| Settings-redeploy ledger (`internal/db/redeploy_outcome.go`, `PatchAppSettings`, `internal/api/redeploy.go`, PATCH/restart/stop in `internal/api/apps.go`, `internal/api/scale.go`) | seven redeploy columns of `apps`, `status`, `last_error`, the deploy lock, goroutines that wait for it | PATCH, live application, claim, full cycle or resize, report, boot report, relaunch of what is owed | changes that overtake each other in the wait for the lock, outcomes that fail, an owner lost between commit and cycle |
| Guarded remote launches (`internal/db/elastic_*.go`, `internal/worker/elastic_*.go`, `internal/api/workers_elastic.go`) | rows of reservations and bindings under the owner's epoch; on each machine a journal per reservation, startup guards, routes, a fence | reserve, bind, prepare, acknowledge, start, stop, confirm, fence | an answer lost after the container was created or started, a daemon that acts after its client timed out, a worker that restarts or loses its disk, a successor that stops what its predecessor is launching |
| Elastic pools of one host (`internal/proxy/elastic.go`, `allocator.go`, `settings_drain.go`, the elastic part of `proxy.go`, `internal/lifecycle/elastic.go`) | `pool.workers`, the clients bound to them with their connections and grace timers, warm spares, lifetime timers, the slot sequence kept across pools | route or place a client, boot, freeze, thaw, stop, expire, drain for settings, hibernate | a routing decision finished under another lock, timers that can no longer be stopped, a boot that ends after its slot was given up, a refused stop, a pool removed under its goroutines |
| Worker registry, agents, down monitor (`internal/worker`, `internal/lifecycle/remote_recovery.go`) | worker rows, last heartbeat, replicas placed on them | join, heartbeat, leave, declare down, rehome, return | a worker declared down while it is only slow, and its return while its replicas are being rehomed |
| Watcher and recovery (`internal/lifecycle/watcher.go`, `recovery.go`, `orphan.go`) | crash counters and backoffs, app status, orphans | restart, hibernate, wake, sweep | decisions on state read before a lock was obtained |
| Process manager and runtimes (`internal/process`) | table of replicas, handles of processes, containers or units | start, stop, suspend, resume, reap | exit of a process during its own start or stop |
| Proxy (`internal/proxy`) | pools, generations, sticky sessions, drain state, admission queue | pool swap, drain, session move, render admission | swaps under live requests; bounded queues and deadlines |
| Deploy pipeline (`internal/deploy`, `internal/db/deployment_*.go`) | deployments, bundle directories, replica rows | upload, build, hooks, boot, promote, rollback, repair | one step of several failing; a crash between two |
| Blue/green activation (`internal/activation`, `internal/api/grouped_*.go`) | candidate and serving generation, hand-over settings | prepare, activate, confirm, abort | abort racing confirmation |
| Schedules and jobs (`internal/jobs`, `internal/db/schedule*.go`, `internal/api/prestart_convergence.go`, `schedule_*.go`) | rows of runs, slots and queues per schedule, admission and producer gates, three flocks per app, provenance and uncertainty of the data, activations with leases | trigger, run, cancel, converge before a boot, recover after a crash, roll forward | a run that waits behind a deployment, a process tree that outlives its control plane, a failed producer behind a deployment, many locks taken one under another |
| Autoscaler (`internal/autoscale`) | cooldowns, last decisions | sample, decide, apply | stale samples; the app changed between decision and application |
| Host admission (`internal/admission`) | watermark state, pacer queue | admit, wait, release | hysteresis at the boundary, waiters that leave |
| Upgrade (`internal/upgrade`, `cmd/shinyhub/main.go`, `relay_rpc.go`, `shutdown.go`, `retiring_parent.go`, `internal/proxy/drain.go`) | processes forked one from another with their stage, the pause of app operations, relay leases on disk and each process's view of them, `owner.current`, the fence over a retiring parent, draining generations | fork, acknowledge, fail, hand ownership over, seal, retire, relay, drain, clean up after the parent | several processes of the hub alive at once, sessions in one whose backends another one manages, views that lag, a child that dies half way, a pause that outlives its reason |
| Store (`internal/db`) | everything persistent | about 500 statements | SQLite's one-second clock, retries of a statement that took effect |
| HTTP API (`internal/api`) | owner gate, deploy locks | about 200 handlers | admission decided once, before the work |

The remaining packages (command line, configuration, specs and parsers, user
interface, tracing, metrics, cloud runtimes, authentication and access control)
have no protocol of their own, belong to an external service, or are security
policy, which this project does not judge. They are listed, with the reason, in
`PROJECT.json`.

How the parts interact: the Elector's callbacks start and stop the OwnerScope,
whose goroutine runs recovery and then all background loops; the API asks the
Elector and the `ownerReady` flag before it lets a mutation in, and the writes
that must not be applied by a superseded owner carry the epoch of the lease to
the store, which checks it in the same transaction (`leasedWrite`). Every
operation on an app takes the app's deploy lock (a mutex and an flock in the apps
directory) and, shared, the fleet fence that recovery and hand-over take
exclusively.

What makes each modelled part correct is stated in section 3; the hazards, each at
its line and with the properties that would catch it, are in `PROJECT.json`.

## 2. Plan

Modules, in order; each later one composes an earlier one.

1. `OwnerElection`, abstract specification `FencedLease`, proofs. *Done.*
2. `RedeployLedger` on top of `FencedLease`, proofs. *Done; `StructureStaysOwed` is
   proved where the operations on an app exclude each other, and fails where they do
   not (section 5).*
3. `ElasticLaunch` on top of `FencedLease`, abstract specification
   `WorkerSlots`, proofs. *Done.*
4. `ElasticPool`, the pools of one host, proofs. *Done; `CountsAreTrue` and
   `NothingStrays` are proved for clients whose requests are placed one after the
   other.* To follow: the hand-over between generations of a grouped pool.
5. `ScheduleRuns`: runs, convergence, recovery and the locks between them, proofs.
   *Done.* To follow: the activations that roll an app after a successful run, and
   timeouts.
6. `Handoff`: upgrades without downtime, relays and the lifecycle decisions they must
   survive, proofs. *Done; of `OperationsResume`, the safety it rests on is proved.*
7. `WorkerRegistry`: agents, heartbeats, the down monitor and rehoming; a worker
   that is only slow, duplicated joins, the return of a worker. Liveness: replicas
   of a worker that is gone are rehomed.
8. `Activation`: the blue/green activation coordinator.
9. `ProxyDrain` and `Admission`: the counters of a session, the bounded render queue,
   the pacer; deadlock and liveness under fairness.
10. Pure algorithms against reference definitions: the autoscale decision, the
   fleet diff.

What the runs check and no theorem states is listed at the end of section 6. Worth
proving next: the invariants of the modules to come.

## 3. What is modelled

### OwnerElection

One clock `now`; the row `cp_owner`; for every instance the Elector (`owner`,
`epoch`, `leaseExpiry`, and `pc` for where `Run` stands), the OwnerScope (`span`,
`cancelled`), the `ready` gate, `handoffIncomplete`, and one lease-fenced write
(`token`). A store call is two or three steps: it takes its time stamp
(`BeginStep`), its statement takes effect (`RenewOk`, `AcquireUpsert`), and,
for `AcquireOwner`, a second statement reads the epoch (`AcquireRead`). Errors come
before or after the statement. `Relinquish` drops the flag and cancels the span,
`LoseReturns` is `OnLose` after it joined the span, `Shutdown`, `RunReturns`,
`RetainOrRelease` and `Release` are the orderly exit, `SpanDrainGaveUp` the drain
that reached its deadline, `LeftoverEnds` the work it left. `Crash` and `Restart`
happen anywhere. `CaptureLease`, `BeginLeasedWrite`, `CommitLeasedWrite` are
`leasedWrite`: the second holds the row's lock until the third. Between
`CaptureLease` and `BeginLeasedWrite` anything may happen; that is where the
fence is needed.

`TruncatesClock` chooses SQLite's `datetime('now')`, which drops sub-seconds,
against PostgreSQL's clock; `Second` is the number of clock ticks per second.

Properties: `EpochsAreUnique` (two instances never act under the same epoch,
although an answer was lost or an id restarted), `SpanKeepsItsEpoch` (work that is
running never has the lease released under it), `AdmissionNeedsCurrentSpan`,
`WritesInEpochOrder`, `ReleaseIsQuiet`, `LocalDeadlineConservative`, and for
liveness `LeaseIsTakenUp` and `ShutdownCompletes`. That at most
one instance answers `IsOwner` is not among them (section 5).

### FencedLease

What the rest of the system relies on, in four variables: who holds the row, its
epoch, whether it is live, and which epoch each instance takes itself to own.
`ImplementsLease` says that OwnerElection, with `holder <- row.instance`,
`leaseEpoch <- row.epoch`, `live <- row.expires > DbNow`, `known <- epoch`,
implements it. It is weak where the code is weak: an expired lease may be renewed
by its holder, several instances may at once take themselves to be the owner, and a
renewal may take effect while its sender gives up.

### RedeployLedger

One app. `app` holds the redeploy columns: `launched` (`redeploy_seq`), `full`
(`redeploy_full_seq`), `last` and `outcome` (`last_redeploy_*`), `claimSeq` and
`claimEpoch`. A PATCH that changes what the pool runs on arms a new seq in the
transaction that stores the settings; the seq is then served by a live update
that resolves it at once, by the goroutine the handler launches, by a boot for
another reason, or by the relaunch of a later owner.

Settings are abstracted to six kinds, because the code treats exactly these
differently: `replicas`, `placement` (a resize brings them about), `memory`,
`cpu` (may be applied live), `dials` (the proxy takes them over) and `isolation`.
The ghost `stale` is the set of kinds in which the running pool lags behind the
stored settings; it is what the reports of the code are compared with. `op[i]` is
the operation of instance `i` that holds the deploy lock, with the fields its Go
function keeps in locals; `queue` has the goroutines that wait for the lock.

Every store call that uses `retryRedeployStore` may be given up, in which case
its write has or has not taken effect (`...GivesUp`). The lease is that of
`FencedLease`, with the steps of its holder restricted to what the Elector does.
`SharedDir` says whether instances exclude each other by the flock (an upgrade on one
host) or not (several hosts on one PostgreSQL). `LateTicks` says whether a lease may
expire although its holder is alive.

Properties: `StructureStaysOwed` (a change that needs the whole pool cycled stays
owed while the pool lags in it, through failures, skipped cycles, supersession and
loss of the owner), `LeaseholderKeepsItsClaim`, `OneOutcomePerSeq`, and
`EverySeqIsServed`: once ownership is stable, every seq gets an outcome.
`ReportIsTrue` does not hold (section 5).

What is left out of it: draining and replica rows of a cycle (a cycle is one
step that succeeds, fails or is skipped), several apps (their rows and locks are
disjoint; the fleet fence is in `LockFree`), and the wording of errors, of which only
the prefix `apply resource limits:` matters and is kept.

### ElasticLaunch

One app whose sessions each get a worker of their own on a remote machine. `row` and
`binding` are the tables `elastic_reservations` and `elastic_launch_bindings`;
`serving` is the deployment the app serves per session, 0 when it is stopped or in
another isolation mode. `call[c]` is a `Launch` or `Stop` of `ElasticLauncher`
together with the handler that serves its current exchange: `at` is where the caller
stands, `job` where the handler does. On machine `n`, `journal[n][r]` is the file of
the reservation, `guard[n][r]` the entry of `elasticGuards`, `routed[n]` the tokens in
`byToken`, `fenced[n]` is `elasticFenced`. `cont[k]` is the container of the `k`th
launch, named by its token: the intent to create it (`token`), the request under way at
the daemon (`requested`), then its life. `lost[n]` is a ghost: the data directory was
lost.

| Action | Code |
|---|---|
| `ReserveElasticSession`, `AdvanceLaunching`, `Bindable`, `Authorized`, `StopConfirms` | the statements of the store, each fenced by the lease and in one transaction |
| `Launch`, `LaunchAcks`, `LaunchAdvances` | `ElasticLauncher.Launch`: bind and prepare, acknowledge, record |
| `Stop`, `StopConfirms` | `ElasticLauncher.Stop`: claim, stop, confirm |
| `PrepareReplays`, `PrepareRecords`, `PrepareCreates`, `PrepareCreated`, `PrepareFails` | `handleElasticPrepare`: the journal, the inventory, the second check of the authority, the creation |
| `AckReplays`, `AckStarts`, `AckStarted`, `AckFails` | `handleElasticAck` and the guard's `Release` and `Close` |
| `StopRuns`, `Fence` | `handleElasticStop`, `StopAll` with `fenceElastic`; both through `StopElastic` |
| `RouteWithdrawn` | the goroutine that waits for the container's exit |
| `WorkerRestarts`, `Daemon`, `LeaseMoves`, `AppChanges` | the surroundings |

Where several lines of code are one step: the check of an authority is one with
what the handler does next to its journal, because the request that matters, the one
to the daemon, takes effect in a later step anyway, and may do so long after the
authority is gone. A caller that leaves while a handler runs is one that later gives up
on its answer, since the handler does not notice. `Stop`'s claim and its own check of the
authority are one step; the worker checks again. A write of the journal that fails after
the rename is the step with an answer of "error". `StopElastic` leaves open which of its
steps failed: which journals could be written, which containers were removed, which
tombstones were written; a tombstone needs a second inventory without survivors. A
reservation's id and its slot are one, since an app reuses neither, and
`worker_max_workers` is a constant.

Properties: `StoppedIsGone` (no container of a released reservation runs or will be
started), `RunsAlone` (never two at once, also when a machine has lost its journal, and
none routed to once it was released), `ExecutesOnce` (while the journals last, the command
is executed once, through retries and restarts), and `StaleOwnerIsFenced`.

### WorkerSlots

What the app's admission relies on: a slot is free, held, running or released; at most
`MaxWorkers` are held or running; a worker runs only in a slot that is held; a released
slot never runs again. `ImplementsSlots` maps a slot to what the daemons really run and
to the row: admission counts rows, and the refinement says that this counts workers.

### ElasticPool

The pool of one app in `per_session` (`Cap = 1`) or grouped mode. `worker[s]` is
the slot's worker (`n` is `assignedClients`, `used` is `everUsed`, `spare` is `warmSpare`),
`bind[c]` the `clientSlot` of a client (`live` its connections, `timer` its grace timer),
`req[r]` a request or WebSocket under way, `proc` the processes that run. `open`,
`nextSlot` and `base` are the pool, its slot sequence and its `poolEpoch`: a pool that is
removed takes its workers along, and the goroutines that still work on them must
notice. `late[c]` are the grace callbacks that wait for the lock; one is `stale` when it
belongs to a binding that is no longer there.

| Action | Code |
|---|---|
| `Arrive` | the lookup and `decide` under the read lock, and the routing of a bound client |
| `BindRoute`, `PlaceClient` | the second half under the write lock: BIND of a routed new client, `placeClient` with a new decision |
| `ConnClosed`, `GraceTimerFires`, `GraceExpiry`, `StaleExpiry` | `connClosed`, the timer, `releaseClient` |
| `Reconcile`, `WarmRetryFires`, `WarmSpareConsumed`, `SetPoolWarmSpares` | the warm floor and its retries |
| `SpawnRefused`, `SpawnStart`, `SpawnFails`, `SpareSuspend`, `SpawnRegister`, `SpawnFinish` | `ElasticSpawner.Spawn` by its calls into the proxy and the runtime |
| `ResumeStart`, `ResumeDone`, `ResumeFails`; `TerminateStop`, `TerminateDeregister`; `ExpireLifetime` | `Resume`, `Terminate` and the lifetime backstop |
| `ProcessExits`, `StopApp`, `Hibernate`, `OpenPool`, `BeginSettingsDrain`, `SettingsDrainAborted` | a worker that exits by itself, and the operations on the whole app |

A step is one critical section of the proxy's lock or one call made outside it. Time
is abstract: an armed timer may fire. `op` is the app's operation lock, held by a boot
while it starts its process and by a settings drain until it ends. `Burst` lets a
client send a second request while its first is still being placed; the runs leave it
off (section 5), and three of the five proofs do not need that (section 6). Left out: retained and candidate generations of a grouped hand-over, a
WebSocket upgrade that is parked until its worker is up (it looks again), the live change
of the lifetime, the sweep of orphans at start-up. The lock of a lifetime that expires
is let go of before its stop begins, which allows more than the code does.

Properties: `CountsAreTrue` (what admission and retirement go by is the number of
bindings and of connections, and a worker that was emptied is terminated),
`BindingsAreRoutable`, `DrainAdmitsNoOne`, `NothingStrays` (reservations, boots and
processes belong to each other, no more of them than `worker_max_workers`, and nothing is
left of a slot that will be given out again), and the liveness properties `GhostsLeave` (a
client without a connection does not keep its worker) and `WorkersSettle`.
`HibernatedIsStopped` does not hold (section 5).

### ScheduleRuns

One app on one host with two control planes that share the database and the flocks.
A schedule in `Publishing` rewrites the data the app reads; a version of the app is
satisfied when each of them has been produced by its own producer. `run[r]` is a row of
`schedule_runs` together with the goroutine that carries it: `pc` says where it stands
(`called`, `admission`, `door`, `inserted`, then `queued` or `gate`, `ready`, `fence`,
`file`, `clients`, `running`, `succeeded` or `broken`; `dead` and `orphan` after a crash of
its manager), `place` whether it occupies the schedule's slot or its queue, `kind`
whether a tick of cron, a deployment's obligation (`required`) or the convergence of a
candidate asked for it. `op` is the deployment or wake in progress, `phase[m]` the span
of ownership of a control plane.

A lock has no variable: who holds it follows from where the runs, the operation and the
recovery stand, so that no step can forget to release one. `AdmissionFree`,
`GateReaders` and `GateWritten` are the in-process admission locks and producer gates;
`GateHeldEx`, `FileHeldEx`, `FileHeldSh` the publication gate and `publication.lock`;
`JobsHeldSh`, `JobsHeldEx` are `jobs.lock`, `ConsumersFree` is `consumers.lock`,
`FleetHeld` the fleet fence. A process tree inherits its flocks, hence `Tree` in
those definitions: a crash frees what the manager held and not what the tree holds.

| Action | Code |
|---|---|
| `Call`, `Begin`, `TakeAdmission`, `Admit`, `AdmitRequired`, `Commit`, `EnterGate` | admission, overlap policy, the row, the slot or queue, the producer gate |
| `Execute`, `TakePublicationGate`, `TakePublicationFile`, `TakeConsumers`, `Abandon`, `TreeEnds`, `Complete`, `Cancel` | the run: its last check, the locks, the tree, what its end records |
| `StartDeploy`, `TakeAdmissions`, `TakeGates`, `Plan`, `StopFails`, `Prepare`, `PrepareFails`, `Produce`, `Produced`, `TakeBootGate`, `TakeBootFile`, `Converge`, `Boot`, `BootFails`, `Promote`, `Fail` | a deployment whose producers changed: barrier, stop of the old pool, candidates, boot, promotion or failure |
| `StartWake`, `CheckCompatible` | the wake of a stopped app |
| `AcquireLease`, `TakeFleet`, `TakeFences`, `Mark`, `Reconcile`, `Open` | the start of a span: the locks that wait for every surviving tree, the closing of inherited rows, the adoption of consumers |
| `LeaseLapses`, `NoticeLoss`, `HandOver`, `DrainDone`, `DrainGivesUp`, `Crash`, `Restart`, `OrphanEnds`, `StrayEnds` | the end of a span in every form |

Any two versions differ in their producers' inputs, so every deployment is one that stops
first. Left out: manual runs and refreshes, timeouts (a tree that fails), the semaphore
over all apps (it only delays), Docker and Fargate producers, schedule edits, mount
pauses, the deletion of the app, `Manager.Stop`, and the rolls that follow a successful
run. The preference of the publication gate for its writer is left out, which allows
more. The recovery takes `jobs.lock` and `publication.lock` in one step: whoever
holds the second also holds the first or the app's operation, and never waits for it.

Properties: `OneWriter` (at most one process tree writes, the orphans of a killed
control plane included), `BootsOnItsData` (who boots reads whole data of its own
version), `FencedIsAlone` (recovery, a candidate and an exclusive run exclude what they
must, and overlap policies are kept), `DamageIsRecorded` (data that is torn or foreign has
a row that says so), `QuarantinedIsDown`, and `NoStandstill`.

What an action waits for has a name of its own (`MayTakeAdmission`, `MayEnterGate`,
`MayTakePublicationFile`, `MayTakeFences` and so on), and the action's guard is that name.
`NoStandstill` uses the same names: while a run, an operation, a recovery or a drain is
under way, one of them waits for nothing or has what it waits for. It is stronger than the
absence of deadlock, since requests, faults, a lapsed lease and a restart do not count as
going on, and it needs no ENABLED, so it can be proved; TLC has confirmed on the instance of
the run that each of these guards is equivalent to the ENABLED of its action. One case is excepted by
name: `OutOfRuns`, where the producer of a deployment finds no free element of `Runs`, a
bound of the model that the code does not have.

### Handoff

Processes of one hub on one host, each forked by the one before. `proc[p]` is a process:
`at` is where `runServe` and the upgrader stand (`booting`, `listening`, `pointed` after its
endpoint is in `owner.current`, `serving` after its acknowledgement; `closed` after it handed
over, `stopping`, `stopped`, then `sealing`, `sealed`, `freed`, `relaying`, or `draining`;
`dead`), `up` its own call of `Upgrade`, `span` its ownership, `paused` the pause of app
operations that it holds from before the fork, `fence` the channel behind
`RetiringParentAlive`, `lock` and `held` its relay lease and the snapshot in it, `view` what
it last read of the others' leases, `route` and `drn` the active and the draining generation of
its pool. `sess[c]` says which process carries the session of a client, and to which backend;
`running` are the backends, of which the database names one as active. The fleet lock
again has no variable (`FleetFree`).

| Action | Code |
|---|---|
| `BeginUpgrade`, `TakeAck`, `UpgradeFails`, `Restore` | `RepeatableUpgrader.Upgrade` with its guard, which refuses or pauses, up to the fork; the three ways it ends; the hook that takes the pointer back, before the pause is released |
| `ChildListens`, `ChildActivates`, `ChildReady`, `ChildDies` | the child: adoption of the pool and first accept, `relayOwner.Activate`, `Ready`; its death, with or without `relayOwner.Close` |
| `Acquire`, `TakeFence`, `OpenSpan`, `SpanCloses`, `DrainDone`, `DrainGivesUp`, `SpanAborts`, `Watchdog`, `OwnershipStopped`, `LeaseExpires` | `ownerWork` and the end of ownership |
| `HTTPShut`, `Seal`, `PublishSeal`, `Release`, `Retire`, `Fallback` | the exit of the parent in the order of `runServe`: listener and HTTP, relay lease, snapshot, release of the pause, end of the retirement pipe; or the bounded drain |
| `RelayShrinks`, `RelayExpires`, `RelayExits`, `DrainEnds`, `RetiredDies` | `PreserveUpgraded`, `drainUpgraded` and their ends |
| `Notice`, `WatchTick`, `Cleanup` | the successor's goroutines: the end of its parent with the refresh that precedes it, the watch, `runRetiringParentCleanup` |
| `StartDeploy`, `EndDeploy`, `TryRetire`, `ForceRetire`, `Hibernate`, `StopApp`, `Wake` | what may be done to the app, with the guards that look at relays |
| `OpenSession`, `EndSession` | an upgraded connection, through any process that still serves HTTP |

A scan of the relay directory is one step: refreshes exclude each other, and between the
read of one lease and the next only snapshots shrink or locks become free, which a later
view sees as well; a lease that appears during the scan is that of a parent whose fence is
still closed. The mode is drawn when a process first needs it, since it is read from the
configuration at its start. Crashes of the current process alone are left out, since the
service restarts as a whole; the retiring ones, and children before their
acknowledgement, may die at any point.

Properties: `RetainedSessionsLast` (no retirement, hibernation, stop, recovery or cleanup
of a process stops a backend that carries a session of an older process; forced ends
are announced ones: deadlines, and the operator's own deploy timeout),
`RelaysWithinLimit`, `SomeoneAnswers` (a new visitor finds a listener that routes to a
running backend, and a relay an owner that answers it, at every step), and the liveness
property `OperationsResume`.

## 4. Runs

| Run | Instance | Result |
|---|---|---|
| `owner_safety` | two instances, TTL of two ticks, clock up to 3, two faults | all safety properties, and `ImplementsLease` |
| `owner_liveness` | TTL 1, clock up to 2, one fault, fairness | the lease is taken up, shutdown completes |
| `redeploy_handoff` | two instances sharing the apps directory, two seqs, two epochs, one store call given up, edits of structure and replicas | the four safety properties |
| `redeploy_serves` | one instance, every combination of kinds, a crash, a runtime that freezes pools, fairness | `EverySeqIsServed` |
| `elastic_machines` | one reservation, two machines, two calls at a time, two launches, two epochs, restarts and losses of the data directory without a bound | the four invariants |
| `elastic_slots` | two reservations of an app that may have one worker, one machine, two calls, one launch, two epochs | `ImplementsSlots`, `StaleOwnerIsFenced` |
| `pool_clients` | two clients with two requests, two slots, one warm spare that may be frozen, a cap of one, one exit, refused stop, drain, stop or hibernation | counts, bindings and the drain |
| `pool_faults` | one client with one request, a pool of one worker with two slots, lifetimes, a changing warm floor, two such events, fairness | the rest of the safety properties, `GhostsLeave`, `WorkersSettle` |
| `schedule_runs` | two control planes, a schedule that publishes and queues and one that is concurrent, two versions, three requests out of two calls, a deployment and a wake, one fault | the seven invariants, `NoStandstill` among them |
| `handoff` | three processes, both modes, a relay limit of one, two sessions, two backends (a deploy or a wake), fairness | the three invariants, `RetainedSessionsLast`, `OperationsResume` |
| `redeploy_report` | one instance, few edits | `ReportIsTrue` is violated, section 5 |
| `pool_hibernate` | the pool of `pool_clients` with one fault | violated, section 5 |

Why these bounds reach the cases that matter. Three ticks and a TTL of two let a
lease be taken, expire, be taken over and be renewed late by either side; two faults
allow a lost answer followed by a crash or by a failed release. Two seqs are what
supersession takes (one waits, one overtakes) and two epochs what a hand-over takes;
a third of either repeats a pattern already there, since the statements compare a
seq only with the newest, the last reported and the owed one. The proofs cover
all values. Two machines, two calls and two launches are what it takes to launch
somewhere else, to launch again, and to stop during a launch; that the capacity of a
released reservation is used again takes two reservations and one place. One instance
with two epochs stands for an owner and its successor there: only the epoch is fenced, and a
successor with the same name is the harder case. Two clients and two
requests are the race for one seat and one count; `pool_clients` has a slot to spare
for the boot that races the exit, and `pool_faults` gives the second slot number to the
worker that replaces the first. Two calls fill a slot and a queue, or two schedules at
once; a deployment and a wake take turns around one fault, which is a crash, a lost
lease with its drain, a drain that gives up, a cancel or a step that fails. Three
processes are a relay, the current server and its next successor, the first pair for which
a limit of one matters; two backends are the generation that is relayed to and the one that
replaces it. The same properties but the last were checked with four processes (limits of
one and two) and with three backends, which takes too long for a run kept here. Symmetry is
used over the two instances, over machines and calls, over clients and requests, or over
control planes and versions, in runs without liveness only.

Deadlock is checked in the elastic launch runs. In the others the models may stop: the
bounds on clock, seqs, events and calls run out, and instances exit. For
`ScheduleRuns`, where waiting for each other is a hazard, `NoStandstill` takes its place:
while anything is under way, somebody has a step that is not a request, a fault or a
lapse (with three elements of `Runs` and at most two calls, `OutOfRuns` never holds in this
run). Every such step leaves less to do, so this also says that what was begun comes to
an end.

Each property of a passing run has a mutant: a plausible slip in the code (an
expired lease is not free, the upsert forgets to advance the epoch, a failed
outcome does not carry the owed cycle forward, a new span relaunches nothing ...),
under which TLC finds the property violated.

`ScheduleRuns` was also explored with all four requests together, and with two publishing
schedules (two calls and a deployment), which take too long for a run kept here, and, under weak fairness of its steps and with a
smaller instance, for the end of every run, operation and change of owner.

### Fairness

`owner_liveness`: the clock advances; an instance's Elector goes on, strongly,
because the row's lock is released again and again by transactions that end and
the store serves waiters in turn; a cancelled span returns, because its drain has a
deadline and a watchdog ends the process; a transaction that has begun ends.
Crashes, restarts and errors are not fair.

`redeploy_serves`: an operation that holds the deploy lock goes on (weak), and a
waiting redeploy gets the lock if it is free again and again (strong): Go's
`sync.Mutex` hands over to a waiter that starves, and the flock is polled without a
deadline. No request has to come, no crash has to happen, no store call has to be
given up. `EverySeqIsServed` asks for stable ownership, and the run for ticks that
come in time: with `LateTicks` it fails (section 5).

`handoff`: each process goes on with the handshake, with its ownership and with its
shutdown (`Proceeds`), all of which have timers, deadlines or a watchdog in the code, its
watch of the relay directory ticks, and the lease of a dead owner expires. Sessions may
last for ever, relays too, nobody has to deploy or to upgrade.

`pool_faults`: goroutines and callbacks run, timers fire, a boot or thaw ends one way or
the other, a request that waits for the lock gets it, a settings drain ends. A connection
may stay open for ever, nobody has to come, and the runtime may refuse any stop.

## 5. Findings and observations

Violated, each a run of its own with the lines quoted in `PROJECT.json`:

- `redeploy_report`. A replica change that waits for the deploy lock is lost when
  a later PATCH is applied live first: that one reports the newer seq completed, the
  waiting redeploy finds itself superseded, and nothing is owed.
- `pool_hibernate`. Hibernation removes the pool before its workers are stopped
  (`internal/lifecycle/elastic.go:943`); the confirmed stop looks them up in the pool
  (`internal/proxy/proxy.go:3029`), finds none and reports them stopped.

Met while modelling, without a run:

- `StructureStaysOwed` holds only as far as the deploy lock reaches. With `SharedDir = FALSE`
  (hosts that share PostgreSQL and nothing else) and `Edits` of dials alone TLC refutes it: on
  the new owner a boot of a stopped app has read its settings; a PATCH still in progress on
  the old owner commits new dials, sees no pool and arms nothing; the boot completes, and its
  pool keeps the old dials with nothing owed.
- `IsOwner` never looks at the local deadline between ticks
  (`internal/leader/elector.go:83`, against the comments at 1-4 and 45-49), so two instances
  can both answer true. The fence on the writes that use it limits the consequences.
- Limits whose live application failed are remembered only in `last_error`; the next
  resize that succeeds clears it, against `internal/api/apps.go:1696-1697`.
- A lease that lapses and is renewed by its holder makes a claim or report fail as
  fenced, which is not retried (`internal/api/redeploy.go:885`); the relaunch happens only
  at the start of a span. `EverySeqIsServed` fails with `LateTicks` for that reason.

- With `TruncatesClock` the deadline in the row is up to one second earlier than the
  local one (`internal/leader/elector.go:119` against `internal/db/dialect.go:83-86`), so
  `LocalDeadlineConservative` fails on SQLite. Two instances on one SQLite file are an
  upgrade's hand-over, where the predecessor releases first.
- Admission is decided once, before the handler runs (`internal/api/router.go:716-727`),
  and `PatchAppSettings` does not carry the epoch: a superseded instance can commit a
  PATCH after its successor looked for owed work. Its own goroutine then finds itself
  fenced, and the seq waits for the next span.
- Where instances do not share the apps directory, two of them can cycle a pool for
  the same seq, one under the old lease; `internal/api/redeploy.go:604-605` says that only
  one call ever serves a seq. Only one of them records an outcome
  (`OneOutcomePerSeq`).
- A reservation that was claimed for stopping before it was ever bound cannot be given
  back by `ElasticLauncher.Stop`: the stop is authorized only with a binding
  (`internal/worker/elastic_client.go:111`, `internal/db/elastic_launch.go:70-113`). The
  comment at `internal/db/elastic_reservations.go:153` leaves that proof to a coordinator
  that is not in the repository yet; nothing wires the protocol into public routing.
- A fenced worker refuses stops too, until its process restarts; capacity it holds stays
  taken, which is the safe side.
- A container whose creation takes effect after the stop has looked for it stays behind
  without ever being started; the label finds it, but nobody looks again.
- After a machine has lost its data directory and its container was removed by hand, a
  retry executes the command a second time, hence the condition of `ExecutesOnce`; and
  the route of a container that outlived the journal stays until its exit is observed,
  hence that of the last conjunct of `RunsAlone`.

- A worker that has been emptied can be given to a new client before its termination
  looks at it (`internal/proxy/elastic.go:612`), and is then stopped under that client.
- A new client that was routed under the read lock is bound under the write lock without
  another look at the worker's load (`internal/proxy/proxy.go:3659`, against
  `docs/isolation.md:223` and the comment at 3666-3668): two clients whose first requests
  meet share a per-session worker.
- When one client's first requests come in a burst, one of them may be routed to a running
  worker and wait for the write lock while another one is placed on a worker that is still
  booting. The routed one then finds the client bound, is served by the worker it was routed
  to, and opens the `clientSlot` of the other one (`internal/proxy/proxy.go:3653-3693`). When its
  connection closes, the grace timer of that `clientSlot` starts and can end the boot. The
  client is never moved off a worker it was bound to (`BindingsStayRoutable` is proved for
  such bursts too), but its connections no longer lead to its own worker: `CountsAreTrue` and
  `NothingStrays` fail with `Burst`, and the runs leave it off.
- `MarkElasticWorkerResumed` arms no grace timer, so a client that does not come back
  for its thawed worker keeps it until the lifetime ends; the comment at
  `internal/proxy/proxy.go:2690-2697` says why registration does arm one. Hence the exception
  in `GhostsLeave`.
- A warm spare that is running when its first client takes it through a placement gets
  no lifetime backstop. The warm floor is not tried again after the memory floor vetoed
  it, after a failed boot of a worker that was no spare, or after an aborted drain.
- The row of a run that a superseded control plane inserts after its successor closed the
  inherited ones, and before it crashes, stays open: the app is quarantined until
  ownership is taken up the next time.
- The exclusive flocks are polled every 50 ms, and overlapping runs hold `jobs.lock`
  shared, so that recovery can wait as long as runs keep overlapping.
- A consumer that survived its control plane without a row keeps a candidate producer,
  and with it the app's lock, waiting until it ends or an operator cancels.

- The guard of an upgrade pauses app operations without asking whether the process's own
  owner span has passed its startup fence (`cmd/shinyhub/main.go:3401` against 2644-2651):
  a span that begins while the pause is held waits for its own process. After the hand-over
  it cannot be joined, the watchdog exits after its budget (`cmd/shinyhub/shutdown.go:56-65`),
  and the sessions that were to be preserved are cut. `internal/api/redeploy.go:242-244` names
  this deadlock for the barrier at the end of a span only.
- A child that was killed as late may have replaced the PID file after its parent put it
  back (`internal/upgrade/repeatable.go:168`, 371-376), and the supervisor follows the file.
- The relay limit counts processes that only pump output any more
  (`cmd/shinyhub/main.go:3329`, 3341, 3672-3675), where
  `docs/zero-downtime-upgrades.md:234-235` says that it does not.
- A reload that drains pauses nothing unless there are relays
  (`cmd/shinyhub/main.go:3395-3399`): the parent may finish a deploy or retire a generation
  after the child has adopted its pool, and the child routes to a stopped backend until its
  recovery; a child that is still booting may take an expired lease. Hence `DrainReload` in
  `SomeoneAnswers`.
- A generation that the cleanup after the parent spared for a relay
  (`internal/lifecycle/recovery.go:836`) is not looked at again before the next start.
- A handler that outlives the 30 s of the HTTP shutdown can begin an app operation on the
  retiring process after its pause was released.

## 6. Proofs

`OwnerElectionProofs` proves, for any number of instances, any TTL, clock and
bounds, from `ConstantsAssumption` alone: `TypeCorrect`, `UniqueEpochs`,
`SpanBacked`, `AdmissionGated`, `FencedWritesOrdered`, `QuietRelease`, and
`ImplementsFencedLease`. The inductive invariant `OwnerInv` adds to the types:
`EpochsFromRow` (every epoch an instance may still act on is in the row under its
name, or the row has moved past it; a write's token may also find the row released),
without which uniqueness is not inductive; `ControlState` (where `Run` stands
determines whether it owns and whether a span can be running); and `LockFreezesRow`
(a write that passed its check has the row locked at its epoch, and nothing later has
been written), which is what orders the writes. `DeadlineConservative` needs the
extra hypothesis `ExactClock` (a store clock as fine as the instances' and a TTL of
whole seconds), and `DeadlinesFollowStamps`: the local deadline counts from a stamp
taken before the statement. The refinement is proved from `OwnerInv` step by step:
each action of the election is a step of the lease or leaves its variables alone; the
advance of the clock may expire the lease. `JoinsEnd` is the safety that `ShutdownCompletes`
rests on. `SpansFollow` makes it inductive: the owner work of an owner is not cancelled and
that of anybody else is, through lost renewals, panics, shutdowns and crashes. So `OnLose`
always joins a span that has been told to end, and `Acquire` never finds one to join.

`RedeployLedgerProofs` proves `LedgerTypes`, `ClaimIsKept`, `OutcomesMoveForward` and, under
further hypotheses, `StructureIsNeverForgotten` and `NewestSeqIsCarried`, from
`LedgerAssumption` and `LeaseAssumption`. The invariant `IInv` adds to the types:
`Sequenced` (nothing refers to a seq that was not handed out, and a PATCH's own seq is
newer than the report it saw, so a live resolution moves the report forward);
`EpochsBegun` (nobody acts under an epoch that has not begun, so a new epoch is one no
claim can carry); and `ClaimsKept`, which is `LeaseholderKeepsItsClaim` without asking
that the row be live: a renewal may revive an expired row, so the weaker property is
not inductive. The proof goes through `OpStep`: every step of an operation keeps, arms,
claims or reports on the row, and only the instance the row names claims or reports.

`StructureIsNeverForgotten` is `StructureStaysOwed` for every set of edits, any bounds and
any faults under `OneLock`: the instances share the apps directory, and so the deploy lock
(an upgrade on one host), or there is only one. Its invariant `OwedInv` says that at most one
operation is in progress, that a pool that lags in its structure is up and a full cycle is owed,
and what the operation in progress knows (`Answers`): a PATCH that found nothing owed answers for
what it changed, and by the time it resolves its own seq the pool does not lag; a resize is begun,
and a completed cycle or a boot is reported, only on a pool that does not lag. That is why
`ResolveLiveSettingsRedeploy` and the report of a resize may close a seq without having cycled
the pool. TLC has checked `OwedInv` on the instance of `redeploy_handoff`, and on one with the edits of
`redeploy_serves`, three seqs, a fault and a crash.

`NewestSeqIsCarried` is the safety that `EverySeqIsServed` rests on: an owner that has
recovered has the newest seq without an outcome in its queue or in its operation, so that
fairness only has to bring the operation to its end. No PATCH, supersession, boot, crash or
change of owner drops it. The theorem has three hypotheses, each for something the code really
does not cover:

- `OneLock`, as above: with two operations at once one may find itself superseded by the other.
- `~LateTicks`: a lease that lapses under its owner fences the redeploy it runs, and nothing
  starts it again within that span (section 5). So `OwnerKnows` holds: an instance that takes
  itself for the owner holds the live row with its epoch.
- `faults = 0`, in the property: a store call that is given up ends the operation, and the seq
  waits for the next span.

Its invariant `ServeInv` adds `SpanInv` to these: in a span the owner's redeploys carry its
epoch, and other instances run at most a redeploy of an earlier span, which is going to find
itself fenced. An operation lets go of the newest seq only by reporting it (`PatchHandles`,
`RedeployHandles`, `BootHandles`) or with a store call given up (`GivingUpEnds`), because the
fence, the only other way out, does not apply to the owner. TLC has checked the three parts on an instance of two hosts that
share the directory, and on one instance with all edits that shares none, each with a crash
and a fault.

`ElasticLaunchProofs` proves `ElasticTypes`, `StoppedStaysGone` and
`StaleOwnersStayFenced` from `ElasticAssumption` and `LeaseAssumption`, for any number
of reservations, machines, calls, containers and epochs. The invariant `StopInv` adds to
the types and to `StoppedIsGone`:

- `CallsBound`: a call under way is for a reservation that is bound as the call says, so
  that a container can only be where the stop will look for it;
- `OneHandler` (the mutex `elasticMu`: one handler of a machine is past its admission) and
  `GuardInHand` (a handler that waits for a start still has the guard), without which a
  stop could prove the absence of a container that a handler is about to start;
- `ContsBound`, `StartsCreated`, `Preparing`, `GuardsHeld`: a container belongs to the
  machine of the binding; only a created one can have a start under way; journal and guards
  refer to containers of their own reservation;
- `ConfirmsProved` and `Tombstones`: once the worker has answered a stop, and as long as
  the tombstone is there, the reservation is quiet, although the answer may be confirmed
  much later or never.

The proof has one lemma per group of actions on what it may do to a container
(`ContMove`) and one that a quiet reservation stays quiet when nothing authorizes a start
(`QuietStays`). TLC has checked `StopInv` as an invariant on the instance of
`elastic_machines`.

`ElasticAloneProofs` goes on from there and proves, from the same assumptions,
`WorkersRunAlone`, `LaunchesExecuteOnce` and the refinement `LaunchImplementsSlots`. Its
invariant `AloneInv` adds to `StopInv`:

- `Solitary`: of a reservation one container at most runs or was asked to start; if a guard
  holds one back, it is that one, and while a handler waits for a container to be created
  there is none. A handler creates only when the label finds nothing, and by
  `OneHandler` nobody else can have a start under way on that machine; so two workers need
  two machines, which `ContsBound` excludes. The label is looked for in the daemon, so
  a lost journal makes no difference. That is the first half of `RunsAlone`;
- `Named`: as long as a machine has not lost its journals, the journal of a reservation names
  its only container: a new token is given out for an empty journal alone. That is
  `ExecutesOnce`;
- `JobsNoted`: the journal says how far a handler has come, so that its last step cannot
  write over a tombstone; `RoutesLead`: a route leads to a container without one; and
  `Confirmed`: behind a confirmed stop, and a stopped row, there is a tombstone, or a
  journal that was lost. They give the second half of `RunsAlone`;
- `Pristine`: nothing is bound that was not reserved, so that nothing runs for a free slot.

For the refinement, a row that counts in the store is a slot that is outstanding
(`SlotsCounted`). A step of the store changes one row and no container (`RowSteps`) and
takes a slot, gives one back that is quiet (`ConfirmsProved`), or is a stutter
(`StoreStep`). Any other step either is the daemon's start, of the only container of a
reservation that is held (`DaemonRuns`), or starts nothing (`StartSteps`), and then those
workers that have ended are a `Halt` (`WorkStep`). TLC has checked `AloneInv` on the
instances of `elastic_machines` and `elastic_slots`.

`HandoffProofs` proves `TypesCorrect`, `RelaysStayWithinLimit`, `SomeoneAlwaysAnswers`,
`RetainedSessionsAlwaysLast` and `ServersAlwaysGoOn` from `HandoffAssumption`, for any number
of processes, clients and backends and any relay limit. The processes are a chain, each forked by the
one before, and its inductive invariant follows the chain:

- `HeadInv`: one process serves and has not handed over. All older ones are relays, dead, or
  its own parent on the way out; all younger ones are dead or the child whose
  acknowledgement it waits for. It listens, `owner.current` leads to it or to that child, and
  except after a reload that drains it routes to the active backend; that gives
  `SomeoneAnswers`.
- `OwnerInv`, `FleetInv`, `PauseInv`: a span is that of the process the lease names; who
  paused or recovers holds the fleet lock alone; and an upgrade that may end in a relay
  keeps the fleet paused until it has. So at most one process is on its way to becoming a
  relay, and `LimitInv` leaves room for it: `RelaysWithinLimit`.
- `ViewInv`: whoever has noticed the retirement of its parent knows every backend that an
  older process carries, since a lease is sealed with them before the notice and only
  shrinks later. Whoever may stop a backend has noticed, and `RetainedSessionsLast`, an action
  property, follows action by action.

`ServersAlwaysGoOn` is the safety that `OperationsResume` rests on: whatever a process that
serves still waits for before its operations are admitted (the lease, the fleet lock, the pause,
its parent's fence) is a step that it, its parent or its child may take (`May`, the guards of
`Proceeds`), or the expiry of the lease. The four are held by different processes and waited for
in different orders, so this is about cycles. The invariant `MoveInv` says how each is let
go of: the fleet is paused only by an upgrade that waits or has failed, or by a process on its
way out (`Unpauses`); the process the lease names has a span, is stopping, or has left the lease
to expire because its drain gave up or it died (`Leased`), so that no relay keeps one; and a span
is closed only on the way out (`Closes`). With `HeadInv`, when neither the process nor its parent
nor its child may do anything, the process is alone but for relays and the dead (`HeadAlone`),
nobody holds the fleet lock (`FleetLeft`), and nothing is left to wait for. TLC has checked
`MoveInv` and the theorem on the instance of `handoff`, and that there `May` implies that the
step is `ENABLED`, which cannot be stated to the provers.

`ScheduleRunsProofs` proves `TypesCorrect`, `OneWriterOnly`, `ReadersSeeTheirData`,
`FencesKeepApart`, `DamageIsAlwaysRecorded` and `QuarantineHolds` from
`ScheduleAssumption`, for any number of schedules, runs, control planes and versions. Since a
lock is where its holders stand, the invariant first says what the locks exclude:
`JobsInv` (`jobs.lock`), `FileInv` (one publisher holds `publication.lock`, and no boot
beside it), `FleetInv`, `PlaceInv` (one run in a slot, one in a queue), `GateInv` (a
required run and the readers of its schedule), `CandInv` (one candidate, that of the
deployment that waits for it). On these rest the two parts about data: `PendInv`, that a
deployment inherits the barrier of a row that a killed owner left pending, and `DataInv`: data
that is torn or foreign has a row or an uncertainty against it (`Recorded`); data whose
provenance is not that of the serving version lies behind a barrier (`Dated`); who boots has
whole data of its version (`Whole`); a run that has succeeded has written it (`Wrote`).
Looking for `PendInv` showed that an earlier form of the model was wrong: its `StartDeploy`
overwrote the pending row of a killed owner and forgot the barrier, where the code marks
that row failed and keeps the barrier until a deployment succeeds. `pend.older` and `RowFails`
model it.

`StandstillProofs` extends it and proves `SomebodyGoesOn`, `NoStandstill` for any number of
schedules, runs and control planes. The invariant `GoInv` says that what is waited for has a
holder who can let go: the producer a deployment waits for is there (`ProducerInv`), and no
consumer of its own stands in its way (`VacantInv`); there is one recovery at a time
(`RecoveryInv`); a drain has told every run to stop (`DrainInv`); who is in the queue waits
for a run that has the slot (`QueueInv`); an operation has every admission lock before its
first gate (`HeldInv`). The argument is then the order of the locks, a lemma for each,
from the last one to the first: if nobody goes on, nobody is in `clients`, since what holds
`consumers.lock` there is a tree, a stray or a consumer that was stopped; hence nobody holds
`publication.lock` and nobody waits for it; hence nobody holds the publication gate, then
`jobs.lock`, the slot and the queue, the producer gates, the admission locks, and at last
the fleet fence. What is left is at rest. `StuckIsAtRest` puts them together. The parts
of `GoInv` were checked by TLC on the instance of `schedule_runs`.

`ElasticPoolProofs` proves from `PoolAssumption`, for any number of clients, requests,
slots and workers, any capacity and any number of faults, `TypesCorrect`,
`BindingsStayRoutable`, `LoadsStayTrue` and `DrainsAdmitNoOne`, however the requests of a
client overlap, and `CountsStayTrue` and `NothingGoesAstray` for `~Burst`.

- `RoutingInv` holds for any `Burst`: a slot number that was not given out is untouched
  (`Fresh`); `assignedClients` is the number of bindings, nobody is bound to a worker that is
  gone, draining or being frozen, and a worker that has lost its last client is being stopped
  (`BindInv`); a request that is counted for a binding is open (`ReqInv`). Every lemma about a
  binding and its load is one on the cardinality of `BoundTo(s)`, of which a step changes at
  most one member or, when workers are removed, all of them.
- `PoolInv` adds what one worker is by itself (`SlotOK`, `ProcOK`: a reservation, its boot, its
  process, and what cannot have begun yet), `LockInv` (a boot holds the app's operation
  lock, so none is under way when the whole pool goes), `CapInv`, and `LoneInv`: the
  connections counted for a client lead to its own worker, and no client of a worker that
  still boots has a grace timer, so that no release ends a boot. `LoneInv` is what fails
  with `Burst`.
- `GhostsAreWatched` is the safety that `GhostsLeave` rests on, for any `Burst`: the invariant
  `WatchInv` on top of `RoutingInv`. A client that is connected has no grace timer; one that is
  bound without a connection has an armed timer or a callback on its way, or waits without a
  timer for a worker that boots or thaws, or belongs to a worker that `Resume` has thawed.
  Between them lie the places that arm or stop a timer (`clientConnClosed`,
  `clientSlot.open`, `registerElasticWorker`, `bindClientLocked`, `graceExpiry`), and
  that a worker somebody is bound to is never frozen or retired keeps the last clause true.
- `WorkersAreAttended` is the safety that `WorkersSettle` rests on, for `~Burst`: `TendInv` on
  top of `PoolInv`. A worker that is to be thawed or stopped has its goroutine, and only such a
  worker has a resume (`Tended`); the app operation lock is held only by a boot or thaw that is
  under way, and a drain has its pool (`HeldInv`). So a worker on its way has a boot, thaw or
  termination of its own, or one that waits for a lock whose holder can always let go.
  Each of these steps has weak fairness in `FairSpec`.

TLC has checked the three invariants on instances of the runs before they were proved:
`HandoffProofs!IInv` on that of `handoff`, `ScheduleRunsProofs!IInv` on that of
`schedule_runs`, `PoolInv` on those of `pool_clients`, also with lifetimes, and of
`pool_faults`; `WatchInv`, `TendInv` and `WorkersAreAttended` on an instance with two clients,
two requests, two slots and lifetimes, where it also found that a worker on its way has a step
that is `ENABLED`, or the holder of the lock has one.

Out of the prover's reach, and only model-checked: the liveness properties
(`LeaseIsTakenUp`, `ShutdownCompletes`, `EverySeqIsServed`, `GhostsLeave`, `WorkersSettle`,
`OperationsResume`) and everything that depends on fairness.
Of all but `LeaseIsTakenUp` the safety they rest on is proved (`JoinsEnd`,
`NewestSeqIsCarried`, `GhostsAreWatched`, `WorkersAreAttended`, `ServersAlwaysGoOn`).
All safety properties of the passing runs are proved, `StructureStaysOwed` for
`OneLock`, `CountsAreTrue` and `NothingStrays` for `~Burst`.

## 7. Not modelled

See the plan for what comes next, and `PROJECT.json` for every component with the
reason. Of the upgrade, the supervisor and the PID file, systemd's
notifications, the reload socket, successors without relay support, several apps, rolling
restarts, and the 90 s after which a relay that finds no owner closes its sessions are left
out. In short: the cloud runtimes and the container and systemd clients are
interfaces to other systems; the command line, templates, parsers and configuration are
sequential and pure; authentication and access control are security policy.

Of worker agents outside the elastic protocol, the healing of replicas is not modelled.
What was seen of it while reading: an agent that restarts takes its containers over again
with an empty run handle (`internal/worker/replica_server.go:503`), so that a wait for one is
answered at once with a final failure and `StopAll` cannot signal it; and a restarted
agent reports incarnation 0 and is never fenced, which `internal/worker/agent/agent.go:280-287`
documents.
