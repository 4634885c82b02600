--------------------------- MODULE ElasticLaunch ---------------------------
(***************************************************************************)
(* Launching and stopping the per-session workers of one app on remote     *)
(* machines: the reservations and bindings in the store                    *)
(* (internal/db/elastic_reservations.go, elastic_launch.go), the           *)
(* coordinator (internal/worker/elastic_client.go), the worker's handlers  *)
(* with their journal (elastic_server.go) and the startup guard of the     *)
(* container (internal/process/docker.go).                                 *)
(*                                                                         *)
(* A reservation is named by its slot number, which an app never reuses.   *)
(* A call of the coordinator and the worker's handler that serves its      *)
(* current exchange are one record: the handler goes on when the caller    *)
(* has given up.  A store call that fails, or whose answer is lost, is a   *)
(* caller that gives up before or after it.  The container daemon carries  *)
(* out what it was asked when it gets to it, even when its client has      *)
(* timed out or died.  Ownership is the FencedLease.                       *)
(***************************************************************************)
EXTENDS FencedLease, FiniteSets

CONSTANTS
    Slots,      \* bound: reservations 0 .. n-1
    Clients,    \* browser clients (ClientKey)
    NoClient,
    Nodes,      \* worker machines
    NoNode,
    Requests,   \* launch requests, by digest
    NoRequest,
    Calls,      \* bound: calls of the coordinator under way at a time
    Containers, \* bound: launches attempted by the workers, 1 .. n
    MaxWorkers, \* apps.worker_max_workers
    MaxDeploy,  \* bound: deployments 1 .. n
    MaxEpoch    \* bound: lease epochs

ASSUME ElasticAssumption ==
    /\ Slots \subseteq Nat
    /\ NoClient \notin Clients /\ NoNode \notin Nodes /\ NoRequest \notin Requests
    /\ Containers \subseteq Nat \ {0}
    /\ MaxWorkers \in Nat /\ MaxDeploy \in Nat /\ MaxEpoch \in Nat

VARIABLES
    serving,    \* the deployment the app serves per session, or 0
    row,        \* elastic_reservations
    binding,    \* elastic_launch_bindings
    call,       \* call[c]: a Launch or Stop and the handler that serves it
    journal,    \* journal[n][r]: the worker's file for the reservation
    guard,      \* guard[n][r]: the container elasticGuards holds back, or 0
    routed,     \* routed[n]: the containers byToken leads to
    fenced,     \* fenced[n]: elasticFenced
    cont,       \* cont[k]: a container, by the token of its launch
    lost        \* lost[n]: n's data directory has been lost (ghost)

storeVars == <<serving, row, binding>>
workerVars == <<journal, guard, routed, fenced, lost>>
vars == <<leaseVars, storeVars, call, workerVars, cont>>

NoRow == [state |-> "none", client |-> NoClient, dep |-> 0,
          owner |-> NoInstance, epoch |-> 0]
NoBinding == [node |-> NoNode, request |-> NoRequest]
NoJournal == [state |-> "none", token |-> 0, request |-> NoRequest]
NoCont == [state |-> "unused", slot |-> 0, node |-> NoNode,
           startAsked |-> FALSE, closed |-> FALSE, ran |-> FALSE]
NoCall == [at |-> "idle", job |-> "none", action |-> "none", slot |-> 0,
           inst |-> NoInstance, epoch |-> 0, node |-> NoNode,
           request |-> NoRequest, token |-> 0]

Init ==
    /\ LeaseInit
    /\ serving = 0
    /\ row = [r \in Slots |-> NoRow]
    /\ binding = [r \in Slots |-> NoBinding]
    /\ call = [c \in Calls |-> NoCall]
    /\ journal = [n \in Nodes |-> [r \in Slots |-> NoJournal]]
    /\ guard = [n \in Nodes |-> [r \in Slots |-> 0]]
    /\ routed = [n \in Nodes |-> {}]
    /\ fenced = [n \in Nodes |-> FALSE]
    /\ cont = [k \in Containers |-> NoCont]
    /\ lost = [n \in Nodes |-> FALSE]

----------------------------------------------------------------------------
(* The store: every write is fenced by the lease and takes one step.        *)

\* MUTANT: a row that is being stopped no longer counts.
UnreleasedButStopping ==
    {r \in Slots : row[r].state \notin {"none", "stopping", "stopped"}}

\* The rows that hold capacity.
Unreleased == {r \in Slots : row[r].state \notin {"none", "stopped"}}

\* validateElasticDesiredLaunch.
Desired(r) == serving = row[r].dep

\* MUTANT: the instance is compared, its epoch is not.
OwnedByInstance(r, i, e) == row[r].owner = i

OwnedBy(r, i, e) == row[r].owner = i /\ row[r].epoch = e

\* ReserveElasticSession, where it inserts; a client's live reservation is
\* answered as it is, or is a conflict.
ReserveElasticSession(i, client, r) ==
    /\ ~Fenced(i, leaseEpoch)
    /\ serving # 0
    /\ \A s \in Unreleased : row[s].client # client
    /\ Cardinality(Unreleased) < MaxWorkers
    /\ row[r].state = "none" /\ \A s \in Slots : s < r => row[s].state # "none"
    /\ row' = [row EXCEPT ![r] = [state |-> "reserved", client |-> client,
                                  dep |-> serving, owner |-> i, epoch |-> leaseEpoch]]
    /\ UNCHANGED <<leaseVars, serving, binding, call, workerVars, cont>>

\* AdvanceElasticReservation to launching, without a binding.
AdvanceLaunching(i, r) ==
    /\ ~Fenced(i, leaseEpoch)
    /\ OwnedBy(r, i, leaseEpoch)
    /\ row[r].state = "reserved"
    /\ row' = [row EXCEPT ![r].state = "launching"]
    /\ UNCHANGED <<leaseVars, serving, binding, call, workerVars, cont>>

\* MUTANT: a retry may move the launch.
BindableAnywhere(i, e, r, n, q) ==
    /\ ~Fenced(i, e)
    /\ OwnedBy(r, i, e)
    /\ Desired(r)
    /\ row[r].state \in {"reserved", "launching", "ready"}

\* BindElasticLaunch: the first binding of a pristine row, or the same again.
Bindable(i, e, r, n, q) ==
    /\ ~Fenced(i, e)
    /\ OwnedBy(r, i, e)
    /\ Desired(r)
    /\ \/ row[r].state = "reserved" /\ binding[r] = NoBinding
       \/ /\ row[r].state \in {"reserved", "launching", "ready"}
          /\ binding[r] = [node |-> n, request |-> q]

\* AuthorizeElasticCommand, asked by the coordinator and by the worker.
Authorized(a) ==
    /\ ~Fenced(a.inst, a.epoch)
    /\ OwnedBy(a.slot, a.inst, a.epoch)
    /\ IF a.action = "stop"
       THEN row[a.slot].state \in {"stopping", "stopped"}
       ELSE row[a.slot].state \in {"launching", "ready"} /\ Desired(a.slot)
    /\ binding[a.slot] = [node |-> a.node, request |-> a.request]

----------------------------------------------------------------------------
(* The coordinator.                                                         *)

\* Launch reads the row and binds it, then sends the prepare.
Launch(c, i, r, n, q) ==
    /\ call[c].at = "idle"
    /\ row[r].state # "none"
    /\ Bindable(i, leaseEpoch, r, n, q)
    /\ binding' = [binding EXCEPT ![r] = [node |-> n, request |-> q]]
    /\ row' = [row EXCEPT ![r].state = IF @ = "reserved" THEN "launching" ELSE @]
    /\ call' = [call EXCEPT ![c] =
                  [at |-> "prepare", job |-> "sent", action |-> "prepare", slot |-> r,
                   inst |-> i, epoch |-> leaseEpoch, node |-> n, request |-> q, token |-> 0]]
    /\ UNCHANGED <<leaseVars, serving, workerVars, cont>>

\* The container was prepared: the acknowledgement is authorized and sent.
LaunchAcks(c) ==
    /\ call[c].at = "prepared"
    /\ Authorized([call[c] EXCEPT !.action = "ack"])
    /\ call' = [call EXCEPT ![c].at = "ack", ![c].action = "ack", ![c].job = "sent"]
    /\ UNCHANGED <<leaseVars, storeVars, workerVars, cont>>

\* MUTANT: the row gets the caller's word for its state.
LaunchAdvancesWrongly(c) ==
    /\ call[c].at = "acked"
    /\ row' = [row EXCEPT ![call[c].slot].state = "acked"]
    /\ call' = [call EXCEPT ![c] = NoCall]
    /\ UNCHANGED <<leaseVars, serving, binding, workerVars, cont>>

\* AdvanceElasticReservation to ready, and the call returns.
LaunchAdvances(c) ==
    /\ call[c].at = "acked"
    /\ ~Fenced(call[c].inst, call[c].epoch)
    /\ OwnedBy(call[c].slot, call[c].inst, call[c].epoch)
    /\ row[call[c].slot].state \in {"launching", "ready"}
    /\ row' = [row EXCEPT ![call[c].slot].state = "ready"]
    /\ call' = [call EXCEPT ![c] = NoCall]
    /\ UNCHANGED <<leaseVars, serving, binding, workerVars, cont>>

\* Stop claims the row for the present owner; a row its owner has stopped
\* before is left as it is.  The stop is sent where it is bound to go: the
\* worker makes the same check of its authority again.
Stop(c, i, r, n, q) ==
    LET a == [at |-> "stop", job |-> "sent", action |-> "stop", slot |-> r,
              inst |-> i, epoch |-> leaseEpoch, node |-> n, request |-> q, token |-> 0] IN
    /\ call[c].at = "idle"
    /\ ~Fenced(i, leaseEpoch)
    /\ row[r].state # "none"
    /\ row[r].state = "stopped" => OwnedBy(r, i, leaseEpoch)
    /\ row' = IF row[r].state = "stopped" THEN row
              ELSE [row EXCEPT ![r].state = "stopping", ![r].owner = i,
                               ![r].epoch = leaseEpoch]
    /\ call' = IF binding[r] = [node |-> n, request |-> q]
               THEN [call EXCEPT ![c] = a] ELSE call
    /\ UNCHANGED <<leaseVars, serving, binding, workerVars, cont>>

\* ConfirmElasticReservationStopped, and the call returns.
StopConfirms(c) ==
    /\ call[c].at = "confirm"
    /\ ~Fenced(call[c].inst, call[c].epoch)
    /\ OwnedBy(call[c].slot, call[c].inst, call[c].epoch)
    /\ row[call[c].slot].state \in {"stopping", "stopped"}
    /\ row' = [row EXCEPT ![call[c].slot].state = "stopped"]
    /\ call' = [call EXCEPT ![c] = NoCall]
    /\ UNCHANGED <<leaseVars, serving, binding, workerVars, cont>>

\* An error, a timeout or the end of the process.  A handler does not notice:
\* a caller that left while it ran is one that gives up on its answer.
CallerGivesUp(c) ==
    /\ call[c].at # "idle"
    /\ call[c].job \in {"none", "sent"}
    /\ call' = [call EXCEPT ![c] = NoCall]
    /\ UNCHANGED <<leaseVars, storeVars, workerVars, cont>>

----------------------------------------------------------------------------
(* The worker.  Its handlers exclude each other by elasticMu, which one     *)
(* holds from the check of its authority to its answer.                     *)

Busy(n) == \E c \in Calls : call[c].node = n /\ call[c].job \notin {"none", "sent"}

\* The handler answers: with the state the caller waits for, or an error.
Answer(c, at, k) ==
    call' = [call EXCEPT ![c] =
               IF at = "error" THEN NoCall
               ELSE [@ EXCEPT !.at = at, !.job = "none", !.token = k]]

\* ListByLabel: the containers the daemon has, in whatever state.
Listed(n, r) ==
    {k \in Containers : /\ cont[k].node = n /\ cont[k].slot = r
                        /\ cont[k].state \in {"created", "running", "exited"}}

Removed(k) == [cont[k] EXCEPT !.state = "gone", !.startAsked = FALSE]

\* A handler's authority is refused, or cannot be checked.
HandlerRefuses(c) ==
    /\ call[c].job \in {"sent", "recorded"}
    /\ call[c].job = "sent" => ~Busy(call[c].node)
    /\ Answer(c, "error", 0)
    /\ UNCHANGED <<leaseVars, storeVars, workerVars, cont>>

Admitted(c, action) ==
    /\ call[c].job = "sent" /\ call[c].action = action
    /\ ~Busy(call[c].node)
    /\ ~fenced[call[c].node]
    /\ Authorized(call[c])

\* handleElasticPrepare of a launch the journal knows: answered, never redone.
PrepareReplays(c) ==
    LET j == journal[call[c].node][call[c].slot] IN
    /\ Admitted(c, "prepare")
    /\ j.state \in {"prepared", "ready"} /\ j.request = call[c].request
    /\ Answer(c, "prepared", j.token)
    /\ UNCHANGED <<leaseVars, storeVars, workerVars, cont>>

\* MUTANT: a launch that stands between the answers is prepared anew.
PrepareRecordsAgain(c, k) ==
    LET n == call[c].node  r == call[c].slot IN
    /\ Admitted(c, "prepare")
    /\ journal[n][r].state \notin {"prepared", "ready"}
    /\ cont[k].state = "unused" /\ \A h \in Containers : h < k => cont[h].state # "unused"
    /\ cont' = [cont EXCEPT ![k].state = "token", ![k].slot = r, ![k].node = n]
    /\ journal' = [journal EXCEPT ![n][r] = [state |-> "preparing", token |-> k,
                                             request |-> call[c].request]]
    /\ call' = [call EXCEPT ![c].job = "recorded"]
    /\ UNCHANGED <<leaseVars, storeVars, guard, routed, fenced, lost>>

\* ... of one it does not know: the intent is recorded, under a new token.
PrepareRecords(c, k) ==
    LET n == call[c].node  r == call[c].slot IN
    /\ Admitted(c, "prepare")
    /\ journal[n][r].state = "none"
    /\ cont[k].state = "unused" /\ \A h \in Containers : h < k => cont[h].state # "unused"
    /\ cont' = [cont EXCEPT ![k].state = "token", ![k].slot = r, ![k].node = n]
    /\ journal' = [journal EXCEPT ![n][r] = [state |-> "preparing", token |-> k,
                                             request |-> call[c].request]]
    /\ call' = [call EXCEPT ![c].job = "recorded"]
    /\ UNCHANGED <<leaseVars, storeVars, guard, routed, fenced, lost>>

\* MUTANT: a journal that knows nothing is believed.
PrepareCreatesUnchecked(c) ==
    LET n == call[c].node  r == call[c].slot  k == journal[n][r].token IN
    /\ call[c].job = "recorded"
    /\ Authorized(call[c])
    /\ cont' = [cont EXCEPT ![k].state = "requested"]
    /\ call' = [call EXCEPT ![c].job = "creating"]
    /\ UNCHANGED <<leaseVars, storeVars, workerVars>>

\* No container bears the launch's label and it is still authorized: the
\* daemon is asked for one.
PrepareCreates(c) ==
    LET n == call[c].node  r == call[c].slot  k == journal[n][r].token IN
    /\ call[c].job = "recorded"
    /\ Listed(n, r) = {}
    /\ Authorized(call[c])
    /\ cont' = [cont EXCEPT ![k].state = "requested"]
    /\ call' = [call EXCEPT ![c].job = "creating"]
    /\ UNCHANGED <<leaseVars, storeVars, workerVars>>

\* The daemon answered: the guard holds the container back and the journal
\* has its identity.
PrepareCreated(c) ==
    LET n == call[c].node  r == call[c].slot  k == journal[n][r].token IN
    /\ call[c].job = "creating"
    /\ cont[k].state \notin {"token", "requested"}
    /\ guard' = [guard EXCEPT ![n][r] = k]
    /\ \/ /\ journal' = [journal EXCEPT ![n][r].state = "prepared"]
          /\ Answer(c, "prepared", k)
       \/ UNCHANGED journal /\ Answer(c, "error", 0)
    /\ UNCHANGED <<leaseVars, storeVars, routed, fenced, lost, cont>>

\* The daemon did not answer in time, or with an error.
PrepareFails(c) ==
    /\ call[c].job = "creating"
    /\ Answer(c, "error", 0)
    /\ UNCHANGED <<leaseVars, storeVars, workerVars, cont>>

\* handleElasticAck of a worker that runs and is routed.
AckReplays(c) ==
    LET n == call[c].node  j == journal[n][call[c].slot] IN
    /\ Admitted(c, "ack")
    /\ j.state = "ready" /\ j.request = call[c].request
    /\ j.token \in routed[n]
    /\ Answer(c, IF j.token = call[c].token THEN "acked" ELSE "error", j.token)
    /\ UNCHANGED <<leaseVars, storeVars, workerVars, cont>>

\* The acknowledgement is recorded, then the guard lets go: the daemon is asked
\* to start the container.  The journal's directory may fail to sync, and a guard
\* that was closed before does nothing more.
AckStarts(c) ==
    LET n == call[c].node  r == call[c].slot  j == journal[n][r]  k == guard[n][r] IN
    /\ Admitted(c, "ack")
    /\ j.state \in {"prepared", "acknowledging"} /\ j.request = call[c].request
    /\ k # 0
    /\ journal' = [journal EXCEPT ![n][r].state = "acknowledging"]
    /\ \/ /\ ~cont[k].closed
          /\ cont' = [cont EXCEPT ![k].closed = TRUE,
                               ![k].startAsked = cont[k].state = "created"]
          /\ call' = [call EXCEPT ![c].job = "starting"]
       \/ UNCHANGED cont /\ Answer(c, "error", 0)
    /\ UNCHANGED <<leaseVars, storeVars, guard, routed, fenced, lost>>

\* The container runs: its token is routed, unless that cannot be recorded.
AckStarted(c) ==
    LET n == call[c].node  r == call[c].slot  k == guard[n][r] IN
    /\ call[c].job = "starting"
    /\ cont[k].ran
    /\ guard' = [guard EXCEPT ![n][r] = 0]
    /\ \/ /\ journal' = [journal EXCEPT ![n][r].state = "ready"]
          /\ routed' = [routed EXCEPT ![n] = @ \cup {k}]
          /\ Answer(c, IF k = call[c].token THEN "acked" ELSE "error", k)
       \/ /\ journal' \in {journal, [journal EXCEPT ![n][r].state = "ready"]}
          /\ UNCHANGED routed
          /\ Answer(c, "error", 0)
    /\ UNCHANGED <<leaseVars, storeVars, fenced, lost, cont>>

\* The start failed, or so it seems: the guard removes the container, or not.
AckFails(c) ==
    LET k == guard[call[c].node][call[c].slot] IN
    /\ call[c].job = "starting"
    /\ \/ cont' = [cont EXCEPT ![k] = Removed(k)]
       \/ UNCHANGED cont
    /\ Answer(c, "error", 0)
    /\ UNCHANGED <<leaseVars, storeVars, workerVars>>

Journaled(j, state, q) ==
    [j EXCEPT !.state = state, !.request = IF j.state = "none" THEN q ELSE @]

\* The routes that are left when those of Tried are withdrawn.
RoutesLeft(n, routes, Tried) == routes \ {journal[n][r].token : r \in Tried}

\* The second inventory: those of Tried of which no container is left.
ProvedGone(n, Tried, Gone) == {r \in Tried : Listed(n, r) \subseteq Gone}

\* What stopElastic leaves at n.  Tried are the reservations whose journal could
\* be written: their routes go and their guards close; that of Noted was written
\* with an error.  Of the containers found, Gone could be removed; Proved are those
\* of which none was left and whose tombstone was written.
StopOutcome(n, routes, Noted, Tried, Gone, Proved) ==
    /\ journal' = [journal EXCEPT ![n] =
         [r \in Slots |->
            IF r \in Proved THEN Journaled(journal[n][r], "stopped", binding[r].request)
            ELSE IF r \in Noted THEN Journaled(journal[n][r], "stopping", binding[r].request)
            ELSE journal[n][r]]]
    /\ routed' = [routed EXCEPT ![n] = RoutesLeft(n, routes, Tried)]
    /\ guard' = [guard EXCEPT ![n] =
         [r \in Slots |-> IF r \in Tried THEN 0 ELSE guard[n][r]]]
    /\ cont' = [k \in Containers |-> IF k \in Gone THEN Removed(k) ELSE cont[k]]

\* stopElastic, for the reservations S.
StopElastic(n, S, routes) ==
    \E Noted \in SUBSET S :
    \E Tried \in SUBSET Noted :
    \E Gone \in SUBSET UNION {Listed(n, r) : r \in Tried} :
    \E Proved \in SUBSET ProvedGone(n, Tried, Gone) :
        StopOutcome(n, routes, Noted, Tried, Gone, Proved)

\* handleElasticStop.
StopRuns(c) ==
    LET n == call[c].node  r == call[c].slot  j == journal[n][r] IN
    /\ Admitted(c, "stop")
    /\ j.request \in {call[c].request, NoRequest}
    /\ StopElastic(n, IF j.state = "stopped" THEN {} ELSE {r}, routed[n])
    /\ Answer(c, IF journal'[n][r].state = "stopped" THEN "confirm" ELSE "error", 0)
    /\ UNCHANGED <<leaseVars, storeVars, fenced, lost>>

\* fenceElastic goes through the journals; one that is stopped is left alone.
Unfinished(n) == {r \in Slots : journal[n][r].state \notin {"none", "stopped"}}

\* StopAll: the control plane has fenced the worker.
Fence(n) ==
    /\ ~fenced[n]
    /\ ~Busy(n)
    /\ fenced' = [fenced EXCEPT ![n] = TRUE]
    /\ StopElastic(n, Unfinished(n), {})
    /\ UNCHANGED <<leaseVars, storeVars, call, lost>>

\* The goroutine that waits for the container's exit: whatever it is told, it
\* withdraws the route.
RouteWithdrawn(n, k) ==
    /\ k \in routed[n]
    /\ routed' = [routed EXCEPT ![n] = @ \ {k}]
    /\ UNCHANGED <<leaseVars, storeVars, call, journal, guard, fenced, lost, cont>>

\* The worker process ends and comes back, with its data directory or without.
WorkerRestarts(n, loses) ==
    /\ loses => \E r \in Slots : journal[n][r].state # "none"
    /\ call' = [c \in Calls |-> IF call[c].node = n /\ call[c].job # "none"
                                THEN NoCall ELSE call[c]]
    /\ guard' = [guard EXCEPT ![n] = [r \in Slots |-> 0]]
    /\ routed' = [routed EXCEPT ![n] = {}]
    /\ fenced' = [fenced EXCEPT ![n] = FALSE]
    /\ journal' = IF loses THEN [journal EXCEPT ![n] = [r \in Slots |-> NoJournal]]
                  ELSE journal
    /\ lost' = [lost EXCEPT ![n] = @ \/ loses]
    /\ UNCHANGED <<leaseVars, storeVars, cont>>

----------------------------------------------------------------------------
(* The container daemon, the app and the lease.                             *)

DaemonCreates(k) ==
    /\ cont[k].state = "requested"
    /\ cont' = [cont EXCEPT ![k].state = "created"]
    /\ UNCHANGED <<leaseVars, storeVars, call, workerVars>>

DaemonStarts(k) ==
    /\ cont[k].startAsked /\ cont[k].state = "created"
    /\ cont' = [cont EXCEPT ![k].state = "running", ![k].startAsked = FALSE, ![k].ran = TRUE]
    /\ UNCHANGED <<leaseVars, storeVars, call, workerVars>>

ContainerExits(k) ==
    /\ cont[k].state = "running"
    /\ cont' = [cont EXCEPT ![k].state = "exited"]
    /\ UNCHANGED <<leaseVars, storeVars, call, workerVars>>

\* A late removal, or an operator's.
ContainerRemoved(k) ==
    /\ cont[k].state \in {"created", "running", "exited"}
    /\ cont' = [cont EXCEPT ![k] = Removed(k)]
    /\ UNCHANGED <<leaseVars, storeVars, call, workerVars>>

\* Deploys, rollbacks, stops and changes of the isolation mode.
AppChanges(d) ==
    /\ serving # d
    /\ serving' = d
    /\ UNCHANGED <<leaseVars, row, binding, call, workerVars, cont>>

\* Only the lease's row counts here: what an instance was told decides whether
\* it calls at all, and a renewal that comes late is a refusal that comes early.
LeaseMoves ==
    /\ Expire \/ \E i \in Instances : Take(i)
    /\ leaseEpoch' <= MaxEpoch
    /\ UNCHANGED <<storeVars, call, workerVars, cont>>

----------------------------------------------------------------------------
Coordinates(c) ==
    \/ \E i \in Instances, r \in Slots, n \in Nodes, q \in Requests :
         Launch(c, i, r, n, q) \/ Stop(c, i, r, n, q)
    \/ LaunchAcks(c) \/ LaunchAdvances(c) \/ StopConfirms(c)
    \/ CallerGivesUp(c)

Handles(c) ==
    \/ HandlerRefuses(c)
    \/ PrepareReplays(c) \/ PrepareCreates(c) \/ PrepareCreated(c) \/ PrepareFails(c)
    \/ \E k \in Containers : PrepareRecords(c, k)
    \/ AckReplays(c) \/ AckStarts(c) \/ AckStarted(c) \/ AckFails(c)
    \/ StopRuns(c)

Machine(n) ==
    \/ Fence(n)
    \/ \E k \in Containers : RouteWithdrawn(n, k)
    \/ \E loses \in BOOLEAN : WorkerRestarts(n, loses)

Daemon(k) ==
    DaemonCreates(k) \/ DaemonStarts(k) \/ ContainerExits(k) \/ ContainerRemoved(k)

Next ==
    \/ LeaseMoves
    \/ \E d \in 0 .. MaxDeploy : AppChanges(d)
    \/ \E i \in Instances, r \in Slots :
         \/ \E client \in Clients : ReserveElasticSession(i, client, r)
         \/ AdvanceLaunching(i, r)
    \/ \E c \in Calls : Coordinates(c) \/ Handles(c)
    \/ \E n \in Nodes : Machine(n)
    \/ \E k \in Containers : Daemon(k)

Spec == Init /\ [][Next]_vars

----------------------------------------------------------------------------
(* Properties.                                                              *)

Rows == [state : {"none", "reserved", "launching", "ready", "stopping", "stopped"},
         client : Clients \cup {NoClient}, dep : Nat,
         owner : Instances \cup {NoInstance}, epoch : Nat]

Tokens == Containers \cup {0}

CallRecords ==
    [at : {"idle", "prepare", "prepared", "ack", "acked", "stop", "confirm"},
     job : {"none", "sent", "recorded", "creating", "starting"},
     action : {"none", "prepare", "ack", "stop"}, slot : Nat,
     inst : Instances \cup {NoInstance}, epoch : Nat, node : Nodes \cup {NoNode},
     request : Requests \cup {NoRequest}, token : Tokens]

Journals == [state : {"none", "preparing", "prepared", "acknowledging", "ready",
                      "stopping", "stopped"},
             token : Tokens, request : Requests \cup {NoRequest}]

ContainerRecords ==
    [state : {"unused", "token", "requested", "created", "running", "exited", "gone"},
     slot : Nat, node : Nodes \cup {NoNode}, startAsked : BOOLEAN, closed : BOOLEAN,
     ran : BOOLEAN]

\* Types of the lease, the store, the calls, the workers and the containers.
TypeOK ==
    /\ holder \in Instances \cup {NoInstance} /\ leaseEpoch \in Nat
    /\ live \in BOOLEAN /\ known \in [Instances -> Nat]
    /\ serving \in Nat
    /\ row \in [Slots -> Rows]
    /\ binding \in [Slots -> [node : Nodes \cup {NoNode}, request : Requests \cup {NoRequest}]]
    /\ call \in [Calls -> CallRecords]
    /\ journal \in [Nodes -> [Slots -> Journals]]
    /\ guard \in [Nodes -> [Slots -> Tokens]]
    /\ routed \in [Nodes -> SUBSET Containers]
    /\ fenced \in [Nodes -> BOOLEAN] /\ lost \in [Nodes -> BOOLEAN]
    /\ cont \in [Containers -> ContainerRecords]

Of(r) == {k \in Containers : cont[k].state # "unused" /\ cont[k].slot = r}

Running(r) == {k \in Of(r) : cont[k].state = "running"}

Quiet(r) == \A k \in Of(r) : cont[k].state # "running" /\ ~cont[k].startAsked

\* ConfirmElasticReservationStopped: a row that was stopped has no container
\* that runs, and none the daemon was asked to start.
StoppedIsGone ==
    \A r \in Slots : row[r].state = "stopped" => Quiet(r)

\* Admission by max_workers is admission of workers that run: the launches
\* implement WorkerSlots.
Slot(r) ==
    IF Running(r) # {} THEN "running"
    ELSE IF row[r].state = "none" THEN "free"
    ELSE IF row[r].state = "stopped" THEN "released"
    ELSE "held"

Abstract == INSTANCE WorkerSlots WITH slot <- [r \in Slots |-> Slot(r)]

ImplementsSlots == Abstract!SlotsSpec

\* A reservation never has two workers at once, on one machine or on two, even
\* if a machine has lost its journal; and once it is stopped no data route of a
\* machine that has its journal leads to one.
RunsAlone ==
    \A r \in Slots :
        /\ \A k, h \in Running(r) : k = h
        /\ row[r].state = "stopped" =>
             \A n \in Nodes : lost[n] \/ routed[n] \cap Of(r) = {}

\* "Retries cannot move a launch": while the journals last, the app's command is
\* executed once for a reservation, through retries, restarts and lost answers.
ExecutesOnce ==
    (\A n \in Nodes : ~lost[n]) =>
        \A r \in Slots : \A k, h \in Of(r) : cont[k].ran /\ cont[h].ran => k = h

\* What a superseded owner began goes no further: a row changes, and a start is
\* asked for, only under the epoch of the live lease.
StaleOwnerIsFenced ==
    [][\A r \in Slots :
         row'[r] # row[r] \/ (\E k \in Of(r) : cont'[k].startAsked /\ ~cont[k].startAsked)
           => ~Fenced(row'[r].owner, row'[r].epoch)]_vars
============================================================================
