------------------------------ MODULE Handoff ------------------------------
(***************************************************************************)
(* The zero-downtime upgrade of a single-host control plane that serves    *)
(* one app.  A process forks its successor, hands it the listener, waits   *)
(* for its acknowledgement, gives up ownership and then either drains the  *)
(* sessions it carries up to a deadline ("drain") or stays behind as their *)
(* relay for as long as they last ("preserve").  Between them are only     *)
(* pipes, the lease in the database, the fleet flock that a process holds  *)
(* exclusively while it hands over or recovers, and a lock file with a     *)
(* snapshot per relay, of which each process keeps a view that lags.       *)
(*                                                                         *)
(* Nothing else keeps the lifecycle decisions of the new process (deploys, *)
(* retirement of drained generations, hibernation, cleanup after its       *)
(* parent) from the backends whose sessions an older process carries.      *)
(*                                                                         *)
(* Processes are numbered in the order they are forked, backends in the    *)
(* order they are booted; a backend is the one replica of a deployment.    *)
(***************************************************************************)
EXTENDS Naturals, FiniteSets

CONSTANTS
    Clients,        \* each with at most one WebSocket session
    Modes,          \* values of server.reload_sessions a process may start with
    RelayLimit,     \* server.reload_relay_limit
    MaxProcs,       \* bounds on processes
    MaxBackends     \* and on backends

ASSUME HandoffAssumption ==
    /\ Modes \subseteq {"preserve", "drain"}
    /\ RelayLimit \in Nat /\ MaxProcs \in Nat \ {0} /\ MaxBackends \in Nat \ {0}

VARIABLES
    proc,       \* the processes
    sess,       \* which process carries each client's session, to which backend
    op,         \* app operation in progress: by whom, and its candidate
    running,    \* backends whose process runs
    active,     \* backend of the active deployment in the database, or 0
    booted,     \* number of backends booted so far
    owner,      \* process the lease names, or 0
    ptr         \* process that owner.current names

vars == <<proc, sess, op, running, active, booted, owner, ptr>>
app == <<op, running, active, booted>>

Procs == 1..MaxProcs
Backends == 1..MaxBackends
Stages == {"none", "booting", "listening", "pointed", "serving", "closed",
           "stopping", "stopped", "sealing", "sealed", "freed", "relaying",
           "draining", "dead"}
Spans == {"none", "waiting", "fenced", "open", "closing"}

NoSession == [by |-> 0, to |-> 0]
NoOp == [by |-> 0, new |-> 0]
NoProc == [at |-> "none", parent |-> 0, heir |-> 0,
           mode |-> "unread",       \* reload_sessions, fixed when first used
           up |-> "idle",           \* its upgrade: idle, waiting, failing or done
           paused |-> FALSE,        \* operationsPaused: it holds the fleet lock
           span |-> "none",         \* its span of ownership
           drained |-> TRUE,        \* ~handoffIncomplete
           quiet |-> FALSE,         \* HTTP was shut down in time
           fence |-> FALSE,         \* retiringParent is not closed yet
           notice |-> FALSE,        \* it knows that its parent has retired
           lock |-> "free",         \* its relay lease: free, locked, or sealed
           held |-> {},             \* with the backends of this snapshot
           view |-> [held |-> {}, unknown |-> FALSE],
           route |-> 0,             \* backend of new sessions, or 0
           drn |-> {}]              \* its draining generations

-----------------------------------------------------------------------------
(* What the processes can see of each other.                               *)

At(stages) == {p \in Procs : proc[p].at \in stages}
Session(p) == {c \in Clients : sess[c].by = p}
Carries(p) == {sess[c].to : c \in Session(p)}

\* A scan of the relay leases: who holds one, and whether all can be read.
Live == {p \in Procs : proc[p].lock # "free"}
DiskView == [held |-> UNION {proc[p].held : p \in Live},
             unknown |-> \E p \in Live : proc[p].lock = "locked"]

\* The parent has closed the retirement pipe, or has exited.
ParentDone(p) == proc[p].parent \in {0} \cup At({"relaying", "dead"})
RetiringParentAlive(p) == proc[p].view.unknown \/ proc[p].fence

\* The fleet lock: exclusive by an upgrade or a recovery, shared by operations.
FleetHeldEx == \E p \in Procs : proc[p].paused \/ proc[p].span = "fenced"
FleetFree == ~FleetHeldEx /\ op = NoOp
CanOperate(p) == proc[p].span = "open" /\ FleetFree

\* The first process starts before any handoff, with the app running.
Init ==
    /\ proc = [p \in Procs |->
                 IF p # 1 THEN NoProc
                 ELSE [NoProc EXCEPT !.at = "serving", !.route = 1]]
    /\ sess = [c \in Clients |-> NoSession]
    /\ op = NoOp
    /\ running = {1} /\ active = 1 /\ booted = 1
    /\ owner = 0 /\ ptr = 1

\* Process p is gone: its connections, locks and operation with it.  Only the
\* lease stays, until it expires.
Dies(p) ==
    /\ proc' = [proc EXCEPT ![p] = [NoProc EXCEPT !.at = "dead", !.mode = proc[p].mode]]
    /\ sess' = [c \in Clients |-> IF sess[c].by = p THEN NoSession ELSE sess[c]]
    /\ op' = IF op.by = p THEN NoOp ELSE op
    /\ UNCHANGED <<running, active, booted, owner>>

-----------------------------------------------------------------------------
(* The upgrade: the parent's side and the child's.                         *)

\* Mutant: the limit is checked as if the new relay did not count.
PreservableBeyondLimit(p) ==
    /\ Cardinality(Live) <= RelayLimit
    /\ proc[p].drn = {}
    /\ Carries(p) \subseteq {proc[p].route}
Preservable(p) ==
    /\ Cardinality(Live) < RelayLimit
    /\ proc[p].drn = {}
    /\ Carries(p) \subseteq {proc[p].route}

\* Upgrade, up to the start of the child, which boots with its parent's fence.
BeginUpgrade(p) ==
    /\ proc[p].at = "serving" /\ proc[p].up = "idle" /\ ParentDone(p)
    /\ ~DiskView.unknown
    /\ \E mode \in Modes :
         LET pauses == mode = "preserve" \/ Live # {}
             kid == 1 + Cardinality(Procs \ At({"none"}))
         IN  /\ proc[p].mode \in {"unread", mode}
             /\ mode = "preserve" => Preservable(p)
             /\ pauses => FleetFree
             /\ kid \in Procs
             /\ proc' = [proc EXCEPT
                    ![p] = [@ EXCEPT !.mode = mode, !.up = "waiting",
                                     !.heir = kid, !.paused = pauses],
                    ![kid] = [NoProc EXCEPT !.at = "booting", !.parent = p,
                                            !.fence = TRUE, !.view = DiskView]]
    /\ UNCHANGED <<sess, app, owner, ptr>>

\* The startup adoption of the pool, then the first accept.
ChildListens(p) ==
    /\ proc[p].at = "booting"
    /\ proc' = [proc EXCEPT ![p] = [@ EXCEPT !.at = "listening", !.route = active]]
    /\ UNCHANGED <<sess, app, owner, ptr>>

\* relayOwner.Activate, as the last step before the child is ready.
ChildActivates(p) ==
    /\ proc[p].at = "listening"
    /\ proc' = [proc EXCEPT ![p].at = "pointed"]
    /\ ptr' = p
    /\ UNCHANGED <<sess, app, owner>>

ChildReady(p) ==
    /\ proc[p].at = "pointed"
    /\ proc' = [proc EXCEPT ![p].at = "serving"]
    /\ UNCHANGED <<sess, app, owner, ptr>>

\* A child that fails puts the pointer back if it still can.
ChildDies(p) ==
    /\ proc[p].at \in {"booting", "listening", "pointed"}
    /\ Dies(p)
    /\ ptr' \in {ptr} \cup (IF ptr = p THEN {proc[p].parent} ELSE {})

\* The parent reads the acknowledgement and leaves its accept loop.
TakeAck(p) ==
    /\ proc[p].up = "waiting" /\ proc[p].heir \in At({"serving"})
    /\ proc' = [proc EXCEPT ![p] = [@ EXCEPT !.up = "done", !.at = "closed"]]
    /\ UNCHANGED <<sess, app, owner, ptr>>

\* The child is dead or too late, even by an acknowledgement: it is killed.
UpgradeFails(p) ==
    /\ proc[p].up = "waiting"
    /\ LET kid == proc[p].heir
       IN  /\ proc' = [proc EXCEPT ![p].up = "failing",
                                   ![kid] = [NoProc EXCEPT !.at = "dead"]]
           /\ sess' = [c \in Clients |->
                         IF sess[c].by = kid THEN NoSession ELSE sess[c]]
           /\ op' = IF op.by = kid THEN NoOp ELSE op
    /\ UNCHANGED <<running, active, booted, owner, ptr>>

\* Mutant: the pointer that the child may have taken is not taken back.
RestoreOnlyPause(p) ==
    /\ proc[p].up = "failing"
    /\ proc' = [proc EXCEPT ![p] = [@ EXCEPT !.up = "idle", !.heir = 0,
                                              !.paused = FALSE]]
    /\ UNCHANGED <<sess, app, owner, ptr>>
\* The failure hook takes the pointer back; the guard is released after it.
Restore(p) ==
    /\ proc[p].up = "failing"
    /\ proc' = [proc EXCEPT ![p] = [@ EXCEPT !.up = "idle", !.heir = 0,
                                              !.paused = FALSE]]
    /\ ptr' = p
    /\ UNCHANGED <<sess, app, owner>>

-----------------------------------------------------------------------------
(* Ownership, from the elector to the end of the span.                     *)

\* The elector runs from before the process listens until it shuts down.
Acquire(p) ==
    /\ proc[p].at \in {"booting", "listening", "pointed", "serving", "closed"}
    /\ proc[p].span = "none" /\ owner = 0
    /\ owner' = p
    /\ proc' = [proc EXCEPT ![p].span = "waiting"]
    /\ UNCHANGED <<sess, app, ptr>>

\* The startup fence waits for its own process's pause as for any other.
TakeFence(p) ==
    /\ proc[p].span = "waiting" /\ FleetFree
    /\ proc' = [proc EXCEPT ![p].span = "fenced"]
    /\ UNCHANGED <<sess, app, owner, ptr>>

\* Generations in the deployment ledger that are neither active nor relayed to.
Obsolete(p) ==
    IF proc[p].view.unknown THEN {}
    ELSE running \ ({active} \cup proc[p].view.held)

\* Recovery adopts the active generation; what else runs it stops, unless the
\* parent may still proxy to it.
OpenSpan(p) ==
    /\ proc[p].span = "fenced"
    /\ running' = IF RetiringParentAlive(p) THEN running ELSE running \ Obsolete(p)
    /\ sess' = [c \in Clients |-> IF sess[c].to \in running' THEN sess[c] ELSE NoSession]
    /\ proc' = [proc EXCEPT ![p] = [@ EXCEPT !.span = "open", !.route = active]]
    /\ UNCHANGED <<op, active, booted, owner, ptr>>

SpanCloses(p) ==
    /\ proc[p].at = "stopping" /\ proc[p].span = "open"
    /\ proc' = [proc EXCEPT ![p].span = "closing"]
    /\ UNCHANGED <<sess, app, owner, ptr>>

\* The handoff barrier: the pause of the process itself will do.
DrainDone(p) ==
    /\ proc[p].span = "closing" /\ (proc[p].paused \/ FleetFree)
    /\ proc' = [proc EXCEPT ![p].span = "none"]
    /\ UNCHANGED <<sess, app, owner, ptr>>
DrainGivesUp(p) ==
    /\ proc[p].span = "closing"
    /\ proc' = [proc EXCEPT ![p] = [@ EXCEPT !.span = "none", !.drained = FALSE]]
    /\ UNCHANGED <<sess, app, owner, ptr>>

\* The owner work returns early when it is shut down before it has recovered.
SpanAborts(p) ==
    /\ proc[p].at = "stopping" /\ proc[p].span \in {"waiting", "fenced"}
    /\ proc' = [proc EXCEPT ![p].span = "none"]
    /\ UNCHANGED <<sess, app, owner, ptr>>

\* awaitOwnershipStop exits when the span does not end in time.
Watchdog(p) ==
    /\ proc[p].at = "stopping" /\ proc[p].span # "none"
    /\ Dies(p) /\ UNCHANGED ptr

\* The elector releases a lease unless a drain gave up.
OwnershipStopped(p) ==
    /\ proc[p].at = "stopping" /\ proc[p].span = "none"
    /\ proc' = [proc EXCEPT ![p].at = "stopped"]
    /\ owner' = IF owner = p /\ proc[p].drained THEN 0 ELSE owner
    /\ UNCHANGED <<sess, app, ptr>>

LeaseExpires ==
    /\ owner # 0 /\ proc[owner].at \in {"stopped", "draining", "dead"}
    /\ owner' = 0
    /\ UNCHANGED <<proc, sess, app, ptr>>

-----------------------------------------------------------------------------
(* The retirement of the parent: as a relay, or by the bounded drain.      *)

\* The listener quiesces and HTTP shuts down, in time or not.
HTTPShut(p) ==
    /\ proc[p].at = "closed"
    /\ \E quiet \in BOOLEAN :
         proc' = [proc EXCEPT ![p] = [@ EXCEPT !.at = "stopping", !.quiet = quiet]]
    /\ UNCHANGED <<sess, app, owner, ptr>>

Sealable(p) ==
    /\ proc[p].mode = "preserve" /\ proc[p].quiet /\ proc[p].drained
    /\ proc[p].drn = {} /\ Carries(p) \subseteq {proc[p].route}

\* NewRelayLease: the lock is there before the snapshot.
Seal(p) ==
    /\ proc[p].at = "stopped" /\ Sealable(p)
    /\ proc' = [proc EXCEPT ![p] = [@ EXCEPT !.at = "sealing", !.lock = "locked"]]
    /\ UNCHANGED <<sess, app, owner, ptr>>

PublishSeal(p) ==
    /\ proc[p].at = "sealing"
    /\ proc' = [proc EXCEPT ![p] = [@ EXCEPT !.at = "sealed", !.lock = "sealed",
                                              !.held = Carries(p)]]
    /\ UNCHANGED <<sess, app, owner, ptr>>

\* Mutant: the fence is left to the exit of the process.
ReleaseAtExit(p) ==
    /\ proc[p].at = "sealed"
    /\ proc' = [proc EXCEPT ![p].at = "freed"]
    /\ UNCHANGED <<sess, app, owner, ptr>>
\* Server and store are closed, then the fence is released.
Release(p) ==
    /\ proc[p].at = "sealed"
    /\ proc' = [proc EXCEPT ![p] = [@ EXCEPT !.at = "freed", !.paused = FALSE]]
    /\ UNCHANGED <<sess, app, owner, ptr>>

\* The retirement pipe is closed.
Retire(p) ==
    /\ proc[p].at = "freed"
    /\ proc' = [proc EXCEPT ![p].at = "relaying"]
    /\ UNCHANGED <<sess, app, owner, ptr>>

\* Mutant: a lease that could not be sealed is not given back.
FallbackKeepsLease(p) ==
    /\ \/ proc[p].at = "stopped" /\ ~Sealable(p)
       \/ proc[p].at = "sealing"
    /\ proc' = [proc EXCEPT ![p] =
            [@ EXCEPT !.at = "draining", !.paused = proc[p].paused /\ ~proc[p].drained]]
    /\ UNCHANGED <<sess, app, owner, ptr>>
\* Otherwise, or when the lease cannot be published, the sessions are drained.
Fallback(p) ==
    /\ \/ proc[p].at = "stopped" /\ ~Sealable(p)
       \/ proc[p].at = "sealing"
    /\ proc' = [proc EXCEPT ![p] =
            [@ EXCEPT !.at = "draining", !.lock = "free",
                      !.paused = proc[p].paused /\ ~proc[p].drained]]
    /\ UNCHANGED <<sess, app, owner, ptr>>

\* A relay publishes the sessions it has left, and exits after the last one;
\* at the end of its lifetime it closes them.
RelayShrinks(p) ==
    /\ proc[p].at = "relaying" /\ proc[p].held # Carries(p)
    /\ proc' = [proc EXCEPT ![p].held = Carries(p)]
    /\ UNCHANGED <<sess, app, owner, ptr>>
RelayExpires(p) ==
    /\ proc[p].at = "relaying" /\ Session(p) # {}
    /\ sess' = [c \in Clients |-> IF sess[c].by = p THEN NoSession ELSE sess[c]]
    /\ proc' = [proc EXCEPT ![p].held = {}]
    /\ UNCHANGED <<app, owner, ptr>>
RelayExits(p) ==
    /\ proc[p].at = "relaying" /\ Session(p) = {}
    /\ Dies(p) /\ UNCHANGED ptr

\* The drain ends with the last session, or cuts what is left at its deadline.
DrainEnds(p) ==
    /\ proc[p].at = "draining"
    /\ Dies(p) /\ UNCHANGED ptr

\* A crash on the way out.
RetiredDies(p) ==
    /\ proc[p].at \in {"sealing", "sealed", "freed", "relaying"}
    /\ Dies(p) /\ UNCHANGED ptr

-----------------------------------------------------------------------------
(* What the successor makes of it.                                         *)

\* Those whose watch of the relay directory has not been stopped.
Watching == At({"booting", "listening", "pointed", "serving", "closed",
                "stopping", "stopped", "draining"})

\* Mutant: the parent's retirement is taken up with the old view.
NoticeUnrefreshed(p) ==
    /\ p \in Watching /\ proc[p].fence /\ ~proc[p].notice /\ ParentDone(p)
    /\ proc' = [proc EXCEPT ![p].notice = TRUE]
    /\ UNCHANGED <<sess, app, owner, ptr>>
Notice(p) ==
    /\ p \in Watching /\ proc[p].fence /\ ~proc[p].notice /\ ParentDone(p)
    /\ proc' = [proc EXCEPT ![p] = [@ EXCEPT !.notice = TRUE, !.view = DiskView]]
    /\ UNCHANGED <<sess, app, owner, ptr>>

\* The watch of the relay directory.
WatchTick(p) ==
    /\ p \in Watching /\ proc[p].view # DiskView
    /\ proc' = [proc EXCEPT ![p].view = DiskView]
    /\ UNCHANGED <<sess, app, owner, ptr>>

\* Stops backends and cuts the sessions to them.
Stop(gone) ==
    /\ running' = running \ gone
    /\ sess' = [c \in Clients |-> IF sess[c].to \in gone THEN NoSession ELSE sess[c]]

\* Cleanup after the parent, under the app's operation; then the fence opens.
Cleanup(p) ==
    /\ CanOperate(p) /\ proc[p].fence /\ proc[p].notice
    /\ Stop(Obsolete(p))
    /\ proc' = [proc EXCEPT ![p].fence = FALSE]
    /\ UNCHANGED <<op, active, booted, owner, ptr>>

-----------------------------------------------------------------------------
(* App operations and the generations they leave behind.                   *)

\* A deploy may begin beside draining generations, not beside a retiring parent.
StartDeploy(p) ==
    /\ CanOperate(p) /\ ~RetiringParentAlive(p) /\ active # 0
    /\ booted < MaxBackends
    /\ booted' = booted + 1
    /\ op' = [by |-> p, new |-> booted']
    /\ running' = running \cup {booted'}
    /\ UNCHANGED <<proc, sess, active, owner, ptr>>
EndDeploy(p) ==
    /\ op.by = p /\ op' = NoOp
    /\ \/ /\ active' = op.new
          /\ proc' = [proc EXCEPT ![p] = [@ EXCEPT !.route = op.new,
                             !.drn = proc[p].drn \cup {active}]]
          /\ UNCHANGED running
       \/ /\ running' = running \ {op.new}
          /\ UNCHANGED <<active, proc>>
    /\ UNCHANGED <<sess, booted, owner, ptr>>

\* The drainer of a generation: no lock, until the server is closed.
Drains(p, b) ==
    /\ b \in proc[p].drn
    /\ proc[p].at \in {"serving", "closed", "stopping", "stopped", "sealing", "draining"}
Drop(p, b) ==
    /\ Stop({b})
    /\ proc' = [proc EXCEPT ![p].drn = @ \ {b}]
    /\ UNCHANGED <<op, active, booted, owner, ptr>>

TryRetire(p) ==
    \E b \in Backends :
        /\ Drains(p, b) /\ ~RetiringParentAlive(p)
        /\ b \notin Carries(p) \cup proc[p].view.held
        /\ Drop(p, b)
\* At the deadline the generation goes with all its sessions.
ForceRetire(p) == \E b \in Backends : Drains(p, b) /\ Drop(p, b)

Hibernate(p) ==
    /\ CanOperate(p) /\ active # 0
    /\ ~RetiringParentAlive(p) /\ proc[p].view.held = {}
    /\ proc[p].drn = {} /\ proc[p].route \notin Carries(p)
    /\ Stop({active})
    /\ active' = 0
    /\ proc' = [proc EXCEPT ![p].route = 0]
    /\ UNCHANGED <<op, booted, owner, ptr>>

StopApp(p) ==
    /\ CanOperate(p) /\ active # 0
    /\ ~RetiringParentAlive(p) /\ proc[p].drn = {} /\ proc[p].view.held = {}
    /\ Stop(running)
    /\ active' = 0
    /\ proc' = [proc EXCEPT ![p].route = 0]
    /\ UNCHANGED <<op, booted, owner, ptr>>

Wake(p) ==
    /\ CanOperate(p) /\ active = 0 /\ booted < MaxBackends
    /\ booted' = booted + 1
    /\ running' = running \cup {booted'} /\ active' = booted'
    /\ proc' = [proc EXCEPT ![p].route = booted']
    /\ UNCHANGED <<sess, op, owner, ptr>>

-----------------------------------------------------------------------------
(* Sessions.                                                               *)

Accepting(p) == proc[p].at \in {"listening", "pointed", "serving"}

\* A request may be upgraded for as long as HTTP has not been shut down; one
\* with a sticky cookie goes to a draining generation.
OpenSession(c) ==
    /\ sess[c] = NoSession
    /\ \E p \in Procs :
         /\ \/ Accepting(p) \/ proc[p].at = "closed"
            \/ ~proc[p].quiet /\ proc[p].at \in {"stopping", "stopped", "draining"}
         /\ \E b \in running \cap ({proc[p].route} \cup proc[p].drn) :
              sess' = [sess EXCEPT ![c] = [by |-> p, to |-> b]]
    /\ UNCHANGED <<proc, app, owner, ptr>>
EndSession(c) ==
    /\ sess[c] # NoSession
    /\ sess' = [sess EXCEPT ![c] = NoSession]
    /\ UNCHANGED <<proc, app, owner, ptr>>

-----------------------------------------------------------------------------
(* Steps that a process takes by itself and does not put off for ever:     *)
(* those of the handshake and of ownership, with their timers and          *)
(* deadlines.                                                              *)

Starts(p) == ChildListens(p) \/ ChildActivates(p) \/ ChildReady(p)
Decides(p) == TakeAck(p) \/ UpgradeFails(p) \/ Restore(p)
Leaves(p) ==
    \/ HTTPShut(p) \/ OwnershipStopped(p)
    \/ Seal(p) \/ PublishSeal(p) \/ Release(p) \/ Retire(p)
    \/ Fallback(p) \/ DrainEnds(p)
Owns(p) ==
    \/ Acquire(p) \/ TakeFence(p) \/ OpenSpan(p)
    \/ SpanCloses(p) \/ DrainDone(p) \/ DrainGivesUp(p)
    \/ SpanAborts(p) \/ Watchdog(p) \/ EndDeploy(p)
Follows(p) == Notice(p) \/ WatchTick(p) \/ Cleanup(p)
Proceeds(p) == Starts(p) \/ Decides(p) \/ Leaves(p) \/ Owns(p) \/ Follows(p)

Next ==
    \/ \E p \in Procs :
         \/ Proceeds(p)
         \/ BeginUpgrade(p) \/ ChildDies(p) \/ RetiredDies(p)
         \/ RelayShrinks(p) \/ RelayExpires(p) \/ RelayExits(p)
         \/ StartDeploy(p) \/ TryRetire(p) \/ ForceRetire(p)
         \/ Hibernate(p) \/ StopApp(p) \/ Wake(p)
    \/ \E c \in Clients : OpenSession(c) \/ EndSession(c)
    \/ LeaseExpires

Spec == Init /\ [][Next]_vars
FairSpec == /\ Spec
            /\ \A p \in Procs : WF_vars(Proceeds(p))
            /\ WF_vars(LeaseExpires)

-----------------------------------------------------------------------------
(* Properties.                                                             *)

\* The types of the variables; and a process has a relay lease exactly while
\* it is becoming a relay or is one (NewRelayLease to RelayLease.Close).
TypeOK ==
    /\ DOMAIN proc = Procs
    /\ \A p \in Procs :
         /\ proc[p].at \in Stages /\ proc[p].span \in Spans
         /\ proc[p].mode \in {"unread"} \cup Modes
         /\ proc[p].up \in {"idle", "waiting", "failing", "done"}
         /\ {proc[p].paused, proc[p].drained, proc[p].quiet, proc[p].fence,
             proc[p].notice, proc[p].view.unknown} \subseteq BOOLEAN
         /\ {proc[p].parent, proc[p].heir} \subseteq {0} \cup Procs
         /\ proc[p].held \cup proc[p].view.held \cup proc[p].drn \subseteq Backends
         /\ proc[p].route \in {0} \cup Backends
         /\ proc[p].lock = "locked" <=> proc[p].at = "sealing"
         /\ proc[p].lock = "sealed" <=> proc[p].at \in {"sealed", "freed", "relaying"}
    /\ sess \in [Clients -> {NoSession} \cup [by : Procs, to : running]]
    /\ op \in {NoOp} \cup [by : Procs, new : running]
    /\ running \subseteq 1..booted /\ active \in {0} \cup Backends
    /\ owner \in {0} \cup Procs /\ ptr \in Procs

\* No decision of a process's own accord stops a backend that carries a
\* session of an older process; and neither the drainer of its generations
\* nor hibernation stops one that carries a session of its own.
RetainedSessionsLast ==
    [][\A c \in Clients :
         sess[c].to \in running \ running' =>
           \A p \in Procs :
             /\ p >= sess[c].by => ~(TryRetire(p) \/ Hibernate(p))
             /\ p > sess[c].by => ~(Cleanup(p) \/ OpenSpan(p) \/ StopApp(p))]_vars

\* No more processes relay sessions than server.reload_relay_limit allows.
RelaysWithinLimit == Cardinality(Live) <= RelayLimit

\* A reload that drains does not hold up the lifecycle: until the span of its
\* parent or its successor opens, either may miss what the other has done.
DrainReload(p) == "drain" \in {proc[q].mode : q \in {p} \cup (Procs \cap {proc[p].parent})}

\* Whoever calls is answered at every step of an upgrade, one that fails
\* included.  While the app is up a new visitor finds a listener whose process
\* routes to a backend that runs; and while there is a relay, owner.current
\* leads it to a process that answers for its sessions' authorization, unless
\* an upgrade that has failed is about to put the pointer right.
SomeoneAnswers ==
    /\ active # 0 =>
         \E p \in Procs :
            /\ Accepting(p)
            /\ proc[p].route \in running \/ (proc[p].span # "open" /\ DrainReload(p))
    /\ At({"relaying"}) # {} =>
         \/ proc[ptr].at \in {"pointed", "serving", "closed", "stopping", "stopped"}
         \/ \E p \in Procs : /\ proc[p].up \in {"waiting", "failing"}
                             /\ proc[proc[p].heir].at = "dead"

\* A process that serves, and goes on serving, comes to own the fleet with
\* app operations admitted and its parent's fence open, whatever becomes of
\* its parent, its own failed upgrades and the sessions that are relayed.
OperationsResume ==
    \A p \in Procs :
        proc[p].at = "serving" ~>
            \/ proc[p].at # "serving"
            \/ /\ proc[p].span = "open" /\ ~proc[p].paused
               /\ ~RetiringParentAlive(p)
=============================================================================
