---------------------------- MODULE ElasticPool ----------------------------
(***************************************************************************)
(* The demand-driven worker pool of one app on one host: the routing table *)
(* of the proxy (internal/proxy/elastic.go, allocator.go and the elastic   *)
(* part of proxy.go) and the spawner that boots, freezes, thaws and stops  *)
(* the workers (internal/lifecycle/elastic.go).                            *)
(*                                                                         *)
(* Every step is one critical section of the proxy's lock, or one call     *)
(* made outside it.  A request is looked up under the read lock and, when  *)
(* its client is not bound yet, finished under the write lock in a later   *)
(* step.  Goroutines the proxy dispatches are flags that a step of their   *)
(* own consumes.  Time is abstract: a timer that is armed may fire.        *)
(***************************************************************************)
EXTENDS Integers, FiniteSets

CONSTANTS
    Clients,     \* client identities (the cid cookie)
    NoClient,
    Requests,    \* bound: requests and WebSockets under way at a time
    Burst,       \* whether a client may send a request while another one of
                 \* its requests is still being placed
    MaxEvents,   \* bound: exits, refused stops, drains, stops, hibernations
    MaxSlots,    \* bound: slot numbers 0 .. MaxSlots - 1 are issued
    Cap,         \* perWorkerCap: 1 in per_session mode, else grouped_size
    MaxWorkers,  \* max_workers
    WarmTargets, \* the settings of warm_spares, clamped to max_workers
    Snapshots,   \* whether the runtime can freeze a worker
    StopsFail,   \* whether a runtime may refuse to stop a worker
    Lifetime     \* whether max_session_lifetime_secs is set

ASSUME PoolAssumption ==
    /\ MaxEvents \in Nat /\ MaxSlots \in Nat /\ Cap \in Nat \ {0} /\ MaxWorkers \in Nat
    /\ WarmTargets \subseteq 0 .. MaxWorkers /\ WarmTargets # {}
    /\ Burst \in BOOLEAN /\ Snapshots \in BOOLEAN /\ StopsFail \in BOOLEAN /\ Lifetime \in BOOLEAN
    /\ NoClient \notin Clients
    /\ IsFiniteSet(Clients) /\ IsFiniteSet(Requests)

Slots == 0 .. MaxSlots - 1
NoSlot == -1

VARIABLES
    open,      \* the slug has a pool
    nextSlot,  \* pool.nextSlotID, kept in slotSeq when the pool goes
    base,      \* slots from here on belong to the current poolEpoch
    target,    \* pool.warmSpareTarget
    op,        \* the app operation lock: "free", "held" by a boot, or "drain"
    worker,    \* pool.workers
    bind,      \* p.clients: the clientSlot of each client
    late,      \* grace callbacks that wait for the lock, per client
    req,       \* requests
    proc,      \* the worker processes that run
    spawn,     \* progress of ElasticSpawner.Spawn, per slot
    resume,    \* progress of ElasticSpawner.Resume, per slot
    term,      \* progress of ElasticSpawner.Terminate, per slot
    life,      \* slots whose lifetime backstop is armed
    consumed,  \* slots with a WarmSpareConsumed callback under way
    recon,     \* a ReconcileElasticWarmSpares is due
    retry,     \* the warm retry timer: "off", "armed" or "stale"
    events,    \* how many of the bounded events have happened
    left       \* processes a hibernation or a failed stop left behind (ghost)

routing == <<open, nextSlot, base, worker, bind>>
vars == <<routing, target, op, late, req, proc, spawn, resume, term, life,
          consumed, recon, retry, left, events>>

NoWorker == [st |-> "none", n |-> 0, spare |-> FALSE, used |-> FALSE,
             thawed |-> FALSE]
NoBinding == [slot |-> NoSlot, live |-> 0, timer |-> "none"]
NoRequest == [at |-> "idle", c |-> NoClient, s |-> NoSlot, own |-> FALSE]
Draining == op = "drain"

WorkerType ==
    [st : {"none", "booting", "suspending", "suspended", "resuming", "running",
           "draining"},
     n : Nat, spare : BOOLEAN, used : BOOLEAN, thawed : BOOLEAN]
BindingType ==
    [slot : Slots \cup {NoSlot}, live : Nat, timer : {"none", "armed", "spent"}]

(* The state of the pool, its clients and its goroutines is well formed.   *)
TypeOK ==
    /\ open \in BOOLEAN /\ nextSlot \in 0 .. MaxSlots /\ base \in 0 .. nextSlot
    /\ target \in WarmTargets /\ op \in {"free", "held", "drain"}
    /\ worker \in [Slots -> WorkerType]
    /\ bind \in [Clients -> BindingType]
    /\ late \in [Clients -> [fresh : BOOLEAN, stale : BOOLEAN]]
    /\ req \in [Requests -> [at : {"idle", "bind", "place", "open"}, c : Clients \cup {NoClient},
                             s : Slots \cup {NoSlot}, own : BOOLEAN]]
    /\ proc \subseteq Slots /\ left \subseteq Slots /\ consumed \subseteq Slots
    /\ life \subseteq Slots
    /\ spawn \in [Slots -> {"none", "queued", "booting", "freezing", "registered"}]
    /\ resume \in [Slots -> {"none", "queued", "thawing"}]
    /\ term \in [Slots -> {"none", "queued", "blind", "stopped"}]
    /\ events \in 0 .. MaxEvents
    /\ recon \in BOOLEAN /\ retry \in {"off", "armed", "stale"}

Init ==
    /\ target \in WarmTargets
    /\ open = TRUE /\ nextSlot = 0 /\ base = 0 /\ op = "free"
    /\ worker = [s \in Slots |-> NoWorker]
    /\ bind = [c \in Clients |-> NoBinding]
    /\ late = [c \in Clients |-> [fresh |-> FALSE, stale |-> FALSE]]
    /\ req = [r \in Requests |-> NoRequest]
    /\ proc = {} /\ left = {} /\ consumed = {} /\ life = {}
    /\ spawn = [s \in Slots |-> "none"]
    /\ resume = [s \in Slots |-> "none"]
    /\ term = [s \in Slots |-> "none"]
    /\ recon = TRUE /\ retry = "off" /\ events = 0

\* A bounded event.
Event == events < MaxEvents /\ events' = events + 1

----------------------------------------------------------------------------
(* Placing a client.                                                       *)

Active == {s \in Slots : worker[s].st \notin {"none", "draining"}}
Bound(c) == bind[c].slot # NoSlot
Serves(s) == worker[s].st = "running"

\* What max_workers leaves besides the workers in stop.  A reserved slot takes
\* up capacity from the start.
Room(stop) == MaxWorkers - Cardinality(Active \ stop)

\* decide without a pin.  The workers are scanned in map order, so that any
\* of the fullest may be taken.
FreshDecisions ==
    LET under == {s \in Active : worker[s].n < Cap}
        In(S) == {s \in under : worker[s].st \in S}
        Fullest(S) == {s \in S : \A t \in S : worker[t].n <= worker[s].n}
        waiting == In({"booting", "resuming"})
        busy == {s \in waiting : worker[s].n > 0}
        To(kind, S) == {[kind |-> kind, s |-> s] : s \in S}
    IN  IF In({"running"}) # {} THEN To("route", Fullest(In({"running"})))
        ELSE IF busy # {} THEN To("bind", Fullest(busy))
        ELSE IF In({"suspended"}) # {} THEN To("bind", In({"suspended"}))
        ELSE IF waiting # {} THEN To("bind", waiting)
        ELSE {[kind |-> IF Room({}) > 0 THEN "allocate" ELSE "reject", s |-> NoSlot]}

\* decide for the client's binding, if it has one to a worker that stays.
Pinned(c) == Bound(c) /\ worker[bind[c].slot].st \notin {"none", "draining"}
Decisions(c) ==
    IF Pinned(c) /\ worker[bind[c].slot].st # "suspending"
    THEN {[kind |-> IF worker[bind[c].slot].st = "suspended" THEN "bind" ELSE "route",
           s |-> bind[c].slot]}
    ELSE FreshDecisions

Opened(cs) == [cs EXCEPT !.live = @ + 1, !.timer = "none"]      \* clientSlot.open
AssignedUncounted(w) == [w EXCEPT !.used = TRUE, !.spare = FALSE]
Assigned(w) == [w EXCEPT !.n = @ + 1, !.used = TRUE, !.spare = FALSE]
IdleRequest(r) == [req EXCEPT ![r] = NoRequest]

\* ServeHTTP under the read lock: a bound client whose worker runs is served
\* (nothing but its own counters changes); for any other the request goes on
\* to the write lock, or is answered with a wait page or a rejection.
Arrive(r, c) ==
    /\ req[r].at = "idle" /\ open
    /\ Burst \/ \A q \in Requests : req[q].at \in {"bind", "place"} => req[q].c # c
    /\ ~Draining \/ Pinned(c)
    /\ \E d \in Decisions(c) :
        \/ /\ d.kind = "route" /\ Serves(d.s) /\ Bound(c)
           /\ bind' = [bind EXCEPT ![c] = Opened(@)]
           /\ req' = [req EXCEPT ![r] = [at |-> "open", c |-> c, s |-> d.s, own |-> TRUE]]
        \/ /\ \/ d.kind = "route" /\ Serves(d.s) /\ ~Bound(c)
              \/ d.kind \in {"bind", "allocate"}
           /\ req' = [req EXCEPT ![r] =
                         [at |-> IF d.kind = "route" THEN "bind" ELSE "place",
                          c |-> c, s |-> d.s, own |-> FALSE]]
           /\ bind' = bind
    /\ UNCHANGED <<open, nextSlot, base, worker, op, late, proc, spawn, resume,
                   term, life, consumed, recon, retry, left, target, events>>

\* The write-locked half of a route: the worker is looked up again, its load
\* is not.
StillServes(s) == open /\ Serves(s)
StillAdmits(s) == open /\ Serves(s) /\ ~Draining

BindRoute(r) ==
    LET c == req[r].c
        s == req[r].s
        wasSpare == worker[s].spare /\ ~worker[s].used
    IN  /\ req[r].at = "bind"
        /\ IF StillAdmits(s)
           THEN /\ req' = [req EXCEPT ![r].at = "open", ![r].own = TRUE]
                /\ IF Bound(c)
                   THEN /\ bind' = [bind EXCEPT ![c] = Opened(@)]
                        /\ UNCHANGED <<worker, consumed, recon>>
                   ELSE /\ bind' = [bind EXCEPT ![c] =
                                       Opened([NoBinding EXCEPT !.slot = s])]
                        /\ worker' = [worker EXCEPT ![s] = Assigned(@)]
                        /\ consumed' = consumed \cup {t \in {s} : wasSpare}
                        /\ recon' = (recon \/ wasSpare)
           ELSE /\ req' = IdleRequest(r)
                /\ UNCHANGED <<worker, bind, consumed, recon>>
        /\ UNCHANGED <<open, nextSlot, base, op, late, proc, spawn, resume,
                       term, life, retry, left, target, events>>

\* Removing the workers S and the clients bound to them.  Their timers are
\* stopped; a callback that is past its Stop finds another clientSlot later.
Without(S) == [s \in Slots |-> IF s \in S THEN NoWorker ELSE worker[s]]
Unbind(S) ==
    /\ bind' = [c \in Clients |-> IF bind[c].slot \in S THEN NoBinding ELSE bind[c]]
    /\ late' = [c \in Clients |->
          IF bind[c].slot \in S THEN [fresh |-> FALSE, stale |-> late[c].fresh \/ late[c].stale]
          ELSE late[c]]
    /\ req' = [r \in Requests |->
          IF req[r].own /\ bind[req[r].c].slot \in S THEN [req[r] EXCEPT !.own = FALSE] ELSE req[r]]

\* terminateWorkerLocked hands the slot to a goroutine, with the deployment
\* of the worker, which a booting worker does not have yet; the worker stays
\* as it is until the goroutine has run.
Dispatch(S) ==
    [s \in Slots |->
        IF s \in S /\ worker[s].st # "none" /\ term[s] = "none"
        THEN IF worker[s].st = "booting" THEN "blind" ELSE "queued"
        ELSE term[s]]

\* Whether the client that goes is the worker's last.
Emptied(s) == {t \in Slots \cap {s} : worker[t].n = 1}

\* bindClientLocked, with w for the worker's new entry: a client that still
\* has a binding is moved.
BindClient(c, s, w, timer) ==
    LET old == bind[c].slot
    IN  /\ worker' = [t \in Slots |->
                IF t = s THEN Assigned(w)
                ELSE IF t = old /\ worker[t].st # "none" THEN [worker[t] EXCEPT !.n = @ - 1]
                ELSE worker[t]]
        /\ term' = Dispatch(Emptied(old))
        /\ bind' = [bind EXCEPT ![c] = [slot |-> s, live |-> 0, timer |-> timer]]
        /\ late' = [late EXCEPT ![c] = [fresh |-> FALSE, stale |-> @.fresh \/ @.stale]]
        /\ recon' = TRUE

\* placeClient: decides again under the write lock; memOK is the memory floor.
PlaceClient(r) ==
    LET c == req[r].c IN
    /\ req[r].at = "place"
    /\ req' = IdleRequest(r)
    /\ \/ /\ ~open \/ (Draining /\ ~Pinned(c))
          /\ UNCHANGED <<nextSlot, worker, bind, late, spawn, resume, term, recon>>
       \/ /\ open /\ Pinned(c)
          /\ recon' = TRUE
          /\ UNCHANGED <<nextSlot, worker, bind, late, spawn, resume, term>>
       \/ /\ open /\ ~Pinned(c) /\ ~Draining
          /\ \E d \in FreshDecisions, memOK \in BOOLEAN :
              \/ /\ d.kind \in {"route", "bind"} /\ worker[d.s].st # "suspended"
                 /\ BindClient(c, d.s, worker[d.s], IF Serves(d.s) THEN "armed" ELSE "none")
                 /\ UNCHANGED <<nextSlot, spawn, resume>>
              \/ /\ d.kind = "bind" /\ worker[d.s].st = "suspended"
                 /\ BindClient(c, d.s, [worker[d.s] EXCEPT !.st = "resuming"], "none")
                 /\ resume' = [resume EXCEPT ![d.s] = "queued"]
                 /\ UNCHANGED <<nextSlot, spawn>>
              \/ /\ d.kind = "allocate" /\ memOK /\ nextSlot < MaxSlots
                 /\ nextSlot' = nextSlot + 1
                 /\ BindClient(c, nextSlot, [NoWorker EXCEPT !.st = "booting"], "none")
                 /\ spawn' = [spawn EXCEPT ![nextSlot] = "queued"]
                 /\ UNCHANGED resume
              \/ /\ d.kind = "reject" \/ (d.kind = "allocate" /\ ~memOK)
                 /\ UNCHANGED <<nextSlot, worker, bind, late, spawn, resume, term, recon>>
    /\ UNCHANGED <<open, base, op, proc, life, consumed, retry, left, target, events>>

\* clientConnClosed, for the clientSlot the request was routed with.
ConnClosedUnchecked(r) ==
    /\ req[r].at = "open"
    /\ req' = IdleRequest(r)
    /\ bind' = [bind EXCEPT ![req[r].c].live = @ - 1]
    /\ UNCHANGED <<open, nextSlot, base, worker, op, late, proc, spawn, resume,
                   term, life, consumed, recon, retry, left, target, events>>

ConnClosed(r) ==
    LET c == req[r].c
        live == bind[c].live - 1
    IN  /\ req[r].at = "open"
        /\ req' = IdleRequest(r)
        /\ bind' = IF req[r].own /\ Bound(c) /\ bind[c].live > 0
                   THEN [bind EXCEPT ![c].live = live,
                            ![c].timer = IF live = 0 /\ @ = "none" THEN "armed" ELSE @]
                   ELSE bind
        /\ UNCHANGED <<open, nextSlot, base, worker, op, late, proc, spawn, resume,
                       term, life, consumed, recon, retry, left, target, events>>

----------------------------------------------------------------------------
(* The grace timer of a client without a connection.                       *)

GraceTimerFires(c) ==
    /\ bind[c].timer = "armed"
    /\ bind' = [bind EXCEPT ![c].timer = "spent"]
    /\ late' = [late EXCEPT ![c].fresh = TRUE]
    /\ UNCHANGED <<open, nextSlot, base, worker, op, req, proc, spawn, resume,
                   term, life, consumed, recon, retry, left, target, events>>

\* graceExpiry, armed for the client's present clientSlot: unless the client
\* has come back it is released, and a worker left without clients goes.
GraceExpiry(c) ==
    LET s == bind[c].slot IN
    /\ late[c].fresh
    /\ IF bind[c].live # 0
       THEN /\ bind' = [bind EXCEPT ![c].timer = "none"]
            /\ late' = [late EXCEPT ![c].fresh = FALSE]
            /\ UNCHANGED <<worker, req, term>>
       ELSE /\ bind' = [bind EXCEPT ![c] = NoBinding]
            /\ late' = [late EXCEPT ![c] =
                  [fresh |-> FALSE, stale |-> @.stale \/ bind[c].timer = "armed"]]
            /\ req' = [r \in Requests |->
                  IF req[r].c = c THEN [req[r] EXCEPT !.own = FALSE] ELSE req[r]]
            /\ worker' = IF worker[s].st # "none" THEN [worker EXCEPT ![s].n = @ - 1] ELSE worker
            /\ term' = Dispatch(Emptied(s))
    /\ UNCHANGED <<open, nextSlot, base, op, proc, spawn, resume, life, consumed,
                   recon, retry, left, target, events>>

\* graceExpiry, armed for a clientSlot that is no longer the client's.
StaleExpiry(c) ==
    /\ late[c].stale
    /\ late' = [late EXCEPT ![c].stale = FALSE]
    /\ UNCHANGED <<routing, op, req, proc, spawn, resume, term, life, consumed,
                   recon, retry, left, target, events>>

----------------------------------------------------------------------------
(* Warm spares.                                                            *)

Spares == {s \in Active : worker[s].spare /\ ~worker[s].used /\ worker[s].n = 0}
Pristine(s) == s \in Slots /\ worker[s].spare /\ ~worker[s].used /\ worker[s].n = 0

\* A spare is retired once it has settled.
Retireable == {s \in Spares : worker[s].st \in {"running", "suspended"}}

\* ReconcileElasticWarmSpares: retires surplus spares, the newest first, or
\* reserves the missing ones while max_workers and the memory floor allow.
Reconcile ==
    /\ recon
    /\ recon' = FALSE
    /\ IF open /\ ~Draining
       THEN \E memOK \in BOOLEAN :
            LET surplus == Cardinality(Spares) - target
                stop == {s \in Retireable : Cardinality({t \in Retireable : t > s}) < surplus}
                room == Room(stop)
                missing == target - Cardinality(Spares \ stop)
                k == IF ~memOK \/ missing <= 0 \/ room <= 0 THEN 0
                     ELSE IF missing < room THEN missing ELSE room
                new == nextSlot .. nextSlot + k - 1
            IN  /\ nextSlot + k <= MaxSlots
                /\ nextSlot' = nextSlot + k
                /\ worker' = [s \in Slots |->
                      IF s \in new THEN [NoWorker EXCEPT !.st = "booting", !.spare = TRUE]
                      ELSE IF s \in stop THEN [worker[s] EXCEPT !.st = "draining"]
                      ELSE worker[s]]
                /\ spawn' = [s \in Slots |-> IF s \in new THEN "queued" ELSE spawn[s]]
                /\ term' = Dispatch(stop)
       ELSE UNCHANGED <<nextSlot, worker, spawn, term>>
    /\ UNCHANGED <<open, base, bind, op, late, req, proc, resume, life, consumed,
                   retry, left, target, events>>

\* The retry of a warm spare that could not be provisioned, for its epoch.
WarmRetryFires ==
    /\ retry # "off"
    /\ recon' = (recon \/ retry = "armed")
    /\ retry' = "off"
    /\ UNCHANGED <<routing, op, late, req, proc, spawn, resume, term, life,
                   consumed, left, target, events>>

----------------------------------------------------------------------------
(* Booting a worker (Spawn) and thawing one (Resume), under the app        *)
(* operation lock.                                                         *)

ElasticSlotCanStart(s) ==
    open /\ ~Draining /\ worker[s].st \notin {"none", "draining"}

\* releaseReservation: the slot and the clients that wait for it go; a warm
\* spare is tried again later.
ReleaseReservationOnly(s) ==
    /\ worker' = Without({s})
    /\ UNCHANGED <<bind, late, req>>
    /\ retry' = IF Pristine(s) THEN "armed" ELSE retry

ReleaseReservation(s) ==
    /\ worker' = Without({s})
    /\ Unbind({s})
    /\ retry' = IF Pristine(s) THEN "armed" ELSE retry

\* A slot that may no longer start, or a check of the store that fails.
SpawnRefused(s) ==
    /\ spawn[s] = "queued" /\ op = "free"
    /\ spawn' = [spawn EXCEPT ![s] = "none"]
    /\ ReleaseReservation(s)
    /\ UNCHANGED <<open, nextSlot, base, op, proc, resume, term, life, consumed,
                   recon, left, target, events>>

SpawnStart(s) ==
    /\ spawn[s] = "queued" /\ op = "free" /\ ElasticSlotCanStart(s)
    /\ op' = "held"
    /\ spawn' = [spawn EXCEPT ![s] = "booting"]
    /\ proc' = proc \cup {s}
    /\ UNCHANGED <<routing, late, req, resume, term, life, consumed, recon, retry, left, target, events>>

\* stopWorker: gone says whether the runtime stops the process.
StopWorker(s, gone) ==
    /\ IF gone THEN events' = events ELSE StopsFail /\ s \in proc /\ Event
    /\ proc' = IF gone THEN proc \ {s} ELSE proc
    /\ left' = IF gone THEN left \ {s} ELSE left \cup {s}

\* The process does not start, fails its health check or cannot be registered,
\* and is stopped.
SpawnFailsUnstopped(s) ==
    /\ spawn[s] = "booting"
    /\ spawn' = [spawn EXCEPT ![s] = "none"]
    /\ op' = "free"
    /\ ReleaseReservation(s)
    /\ UNCHANGED <<open, nextSlot, base, proc, left, resume, term, life, consumed,
                   recon, target, events>>

SpawnFails(s) ==
    /\ spawn[s] \in {"booting", "freezing"}
    /\ spawn' = [spawn EXCEPT ![s] = "none"]
    /\ op' = "free"
    /\ \E gone \in BOOLEAN : StopWorker(s, gone)
    /\ ReleaseReservation(s)
    /\ UNCHANGED <<open, nextSlot, base, resume, term, life, consumed, recon,
                   target>>

\* BeginElasticSpareSuspend claims a healthy, still unassigned spare.
SpareSuspend(s) ==
    /\ spawn[s] = "booting" /\ s \in proc
    /\ Pristine(s) /\ worker[s].st = "booting"
    /\ worker' = [worker EXCEPT ![s].st = "suspending"]
    /\ spawn' = [spawn EXCEPT ![s] = "freezing"]
    /\ UNCHANGED <<open, nextSlot, base, bind, op, late, req, proc, resume, term,
                   life, consumed, recon, retry, left, target, events>>

\* registerElasticWorker: the placeholder becomes ready in place, or a new
\* entry is made, and the clients that wait for it have the grace period to
\* connect.
RegisterUntimed(s, st) == worker' = [worker EXCEPT ![s].st = st] /\ bind' = bind

Register(s, st) ==
    /\ worker' = [worker EXCEPT ![s].st = st]
    /\ bind' = [c \in Clients |->
          IF bind[c].slot = s /\ bind[c].live = 0 /\ bind[c].timer = "none"
          THEN [bind[c] EXCEPT !.timer = "armed"] ELSE bind[c]]

SpawnRegister(s) ==
    /\ \/ spawn[s] = "booting" /\ s \in proc /\ ~Pristine(s) /\ Register(s, "running")
       \/ spawn[s] = "freezing" /\ Register(s, "running")
       \/ spawn[s] = "freezing" /\ Snapshots /\ Register(s, "suspended")
    /\ spawn' = [spawn EXCEPT ![s] = "registered"]
    /\ UNCHANGED <<open, nextSlot, base, op, late, req, proc, resume, term, life,
                   consumed, recon, retry, left, target, events>>

ArmLifetime(s) == life' = IF Lifetime THEN life \cup {s} ELSE life

SpawnFinish(s) ==
    /\ spawn[s] = "registered"
    /\ spawn' = [spawn EXCEPT ![s] = "none"]
    /\ op' = "free"
    /\ recon' = TRUE
    /\ IF Pristine(s) THEN life' = life ELSE ArmLifetime(s)
    /\ UNCHANGED <<routing, late, req, proc, resume, term, consumed, retry, left, target, events>>

\* WarmSpareConsumed: a running spare that was taken gets its backstop.
WarmSpareConsumed(s) ==
    /\ s \in consumed /\ op = "free"
    /\ consumed' = consumed \ {s}
    /\ IF s >= base /\ ElasticSlotCanStart(s) THEN ArmLifetime(s) ELSE life' = life
    /\ UNCHANGED <<routing, op, late, req, proc, spawn, resume, term, recon, retry, left, target, events>>

ResumeStart(s) ==
    /\ resume[s] = "queued" /\ op = "free"
    /\ IF ElasticSlotCanStart(s)
       THEN /\ op' = "held"
            /\ resume' = [resume EXCEPT ![s] = "thawing"]
       ELSE /\ resume' = [resume EXCEPT ![s] = "none"]
            /\ op' = op
    /\ UNCHANGED <<routing, late, req, proc, spawn, term, life, consumed, recon, retry, left, target, events>>

\* MarkElasticWorkerResumed: routable again.
ResumeDone(s) ==
    /\ resume[s] = "thawing" /\ s \in proc /\ worker[s].st = "resuming"
    /\ worker' = [worker EXCEPT ![s].st = "running", ![s].thawed = TRUE]
    /\ resume' = [resume EXCEPT ![s] = "none"]
    /\ op' = "free"
    /\ ArmLifetime(s)
    /\ UNCHANGED <<open, nextSlot, base, bind, late, req, proc, spawn, term,
                   consumed, recon, retry, left, target, events>>

\* A resume that fails terminates the worker.
ResumeFailsQuietly(s) ==
    /\ resume[s] = "thawing"
    /\ resume' = [resume EXCEPT ![s] = "none"]
    /\ op' = "free"
    /\ UNCHANGED <<routing, late, req, proc, spawn, term, life, consumed, recon, retry, left, target, events>>

ResumeFails(s) ==
    /\ resume[s] = "thawing"
    /\ resume' = [resume EXCEPT ![s] = "none"]
    /\ op' = "free"
    /\ term' = Dispatch({s})
    /\ UNCHANGED <<routing, late, req, proc, spawn, life, consumed, recon, retry, left, target, events>>

----------------------------------------------------------------------------
(* Stopping workers.                                                       *)

\* terminateGeneration up to the stop, whose error is only logged.
TerminateStop(s) ==
    /\ term[s] \in {"queued", "blind"}
    /\ term' = [term EXCEPT ![s] = "stopped"]
    /\ life' = life \ {s}
    /\ IF term[s] = "queued" THEN \E gone \in BOOLEAN : StopWorker(s, gone)
       ELSE UNCHANGED <<proc, left, events>>
    /\ UNCHANGED <<routing, op, late, req, spawn, resume, consumed, recon, retry, target>>

\* DeregisterElasticWorker, and the reconcile that follows it.
TerminateDeregister(s) ==
    /\ term[s] = "stopped"
    /\ term' = [term EXCEPT ![s] = "none"]
    /\ life' = life \ {s}
    /\ worker' = Without({s})
    /\ Unbind({s})
    /\ recon' = TRUE
    /\ UNCHANGED <<open, nextSlot, base, op, proc, spawn, resume, consumed, retry, left, target, events>>

\* expireLifetime: a callback that waited for the app operation lock has been
\* cancelled with its timer, or acts for the pool it was armed in and the
\* process it was armed for.  It stops the worker under the lock; the model
\* lets the lock go at once, which only adds interleavings.
ExpireLifetime(s) ==
    /\ s \in life /\ op = "free"
    /\ life' = life \ {s}
    /\ term' = IF s >= base /\ s \in proc THEN Dispatch({s}) ELSE term
    /\ UNCHANGED <<routing, op, late, req, proc, spawn, resume, consumed, recon,
                   retry, left, target, events>>

\* A worker's process exits by itself; the watcher restarts fixed replicas
\* only, so that the pool is not told.
ProcessExits(s) ==
    /\ s \in proc /\ Event
    /\ proc' = proc \ {s} /\ left' = left \ {s}
    /\ UNCHANGED <<routing, op, late, req, spawn, resume, term, life, consumed,
                   recon, retry, target>>

\* The pool goes: dropElasticStateLocked, and a new epoch.
DropPool ==
    /\ open' = FALSE
    /\ base' = nextSlot
    /\ worker' = Without(Slots)
    /\ Unbind(Slots)
    /\ retry' = IF retry = "armed" THEN "stale" ELSE retry
    /\ UNCHANGED <<nextSlot, spawn, resume, life, consumed, recon, target>>

\* A stop, deploy or delete, or the end of a settings drain: the manager has
\* stopped the app's processes, then Deregister.
StopApp ==
    /\ open /\ op \in {"free", "drain"}
    /\ IF Draining THEN events' = events ELSE Event
    /\ op' = "free"
    /\ proc' = {} /\ left' = {}
    /\ term' = Dispatch(Slots)
    /\ DropPool

\* The idle watchdog: BeginHibernate, unless a connection is open, and then
\* hibernateElasticPool.  TerminateConfirmed asks the proxy for the worker's
\* generation; the pool is gone, so it reports every worker as stopped.
Hibernate ==
    /\ open /\ op = "free" /\ proc # {}
    /\ \A r \in Requests : req[r].at = "open" => worker[req[r].s].st = "none"
    /\ left' = left \cup {s \in proc : term[s] = "none"}
    /\ UNCHANGED <<op, proc, term>>
    /\ Event
    /\ DropPool

\* A deploy, start or wake sets the pool up and reconciles it.
OpenPool ==
    /\ ~open /\ op = "free"
    /\ open' = TRUE
    /\ recon' = TRUE
    /\ UNCHANGED <<nextSlot, base, worker, bind, op, late, req, proc, spawn, resume,
                   term, life, consumed, retry, left, target, events>>

\* BeginSettingsDrain: only bound clients are admitted from here on.
BeginSettingsDrain ==
    /\ open /\ op = "free"
    /\ op' = "drain"
    /\ Event
    /\ UNCHANGED <<routing, late, req, proc, spawn, resume, term, life, consumed,
                   recon, retry, left, target>>

\* A worker refuses to stop: the ones that have stopped are taken out, the
\* others are admitted to again.
SettingsDrainAborted ==
    \E keep \in SUBSET proc :
        /\ Draining /\ keep # {} /\ StopsFail
        /\ op' = "free"
        /\ proc' = keep /\ left' = left \cap keep
        /\ LET out == {s \in proc \ keep : worker[s].st # "none"} IN
           /\ worker' = Without(out)
           /\ Unbind(out)
           /\ life' = life \ out
        /\ UNCHANGED <<open, nextSlot, base, spawn, resume, term, consumed, recon,
                       retry, target, events>>

\* SetPoolWarmSpares, and the reconcile of the handler that calls it.
SetPoolWarmSpares ==
    \E n \in WarmTargets \ {target} :
        /\ open /\ Event
        /\ target' = n
        /\ recon' = TRUE
        /\ UNCHANGED <<routing, op, late, req, proc, spawn, resume, term, life, consumed,
                       retry, left>>

----------------------------------------------------------------------------
Serve(r) == (\E c \in Clients : Arrive(r, c)) \/ BindRoute(r) \/ PlaceClient(r) \/ ConnClosed(r)
Grace(c) == GraceTimerFires(c) \/ GraceExpiry(c) \/ StaleExpiry(c)
Spawn(s) == \/ SpawnRefused(s) \/ SpawnStart(s) \/ SpawnFails(s) \/ SpareSuspend(s)
            \/ SpawnRegister(s) \/ SpawnFinish(s)
Resume(s) == ResumeStart(s) \/ ResumeDone(s) \/ ResumeFails(s)
Terminate(s) == TerminateStop(s) \/ TerminateDeregister(s)
Backstop(s) == ExpireLifetime(s) \/ WarmSpareConsumed(s)

Next ==
    \/ \E r \in Requests : Serve(r)
    \/ \E c \in Clients : Grace(c)
    \/ \E s \in Slots : \/ Spawn(s) \/ Resume(s) \/ Terminate(s) \/ Backstop(s)
                        \/ ProcessExits(s)
    \/ Reconcile \/ WarmRetryFires
    \/ StopApp \/ Hibernate \/ OpenPool
    \/ BeginSettingsDrain \/ SettingsDrainAborted \/ SetPoolWarmSpares

Spec == Init /\ [][Next]_vars

\* What the code goes on with by itself: goroutines run, timers fire, boots and
\* thaws end one way or the other, requests that wait for the lock get it, and
\* a drain comes to its end.  A connection may stay open for ever.
Fairness ==
    /\ \A r \in Requests : WF_vars(BindRoute(r) \/ PlaceClient(r))
    /\ \A c \in Clients : WF_vars(GraceTimerFires(c)) /\ WF_vars(GraceExpiry(c))
    /\ \A s \in Slots :
          /\ WF_vars(Spawn(s)) /\ WF_vars(Resume(s)) /\ WF_vars(Terminate(s))
          /\ WF_vars(WarmSpareConsumed(s))
    /\ WF_vars(Reconcile) /\ WF_vars(WarmRetryFires)
    /\ WF_vars(Draining /\ (StopApp \/ SettingsDrainAborted))
FairSpec == Spec /\ Fairness

----------------------------------------------------------------------------
(* Properties.                                                             *)

BoundTo(s) == {c \in Clients : bind[c].slot = s}

\* A client is never bound to a worker that is gone or being retired, so that
\* it is never routed into the void: spares are retired only while no client
\* has ever been placed on them.
BindingsAreRoutable ==
    \A c \in Clients : Bound(c) => worker[bind[c].slot].st \notin {"none", "draining"}

\* Admission and retirement count what they should, whichever of placement,
\* release, failed boot, removal or a late close changed it last:
\* assignedClients is the number of clients whose clientSlot names the worker,
\* and a worker that has had clients and has none any more is being stopped;
\* the connections of a clientSlot are the open ones routed with it, which
\* lead to the worker the client is bound to.
CountsAreTrue ==
    /\ \A s \in Slots : worker[s].n = Cardinality(BoundTo(s))
    /\ \A s \in Slots : worker[s].used /\ worker[s].n = 0 => term[s] # "none"
    /\ \A c \in Clients :
          LET mine == {r \in Requests : req[r].at = "open" /\ req[r].c = c /\ req[r].own}
          IN  Bound(c) => /\ bind[c].live = Cardinality(mine)
                          /\ \A r \in mine : req[r].s = bind[c].slot

\* Slots and processes stay accounted for, through concurrent placements and
\* reconciles, failures and pools dropped and set up again.  Reservations and
\* workers are within max_workers.  A boot keeps its reservation to the end,
\* and a reservation its boot.  Nothing is left of a slot number that can still
\* be given out.  And every process of the app is in the pool, is being booted
\* or stopped, or was left by a hibernation or by a runtime that refused to
\* stop it.
NothingStrays ==
    /\ Cardinality(Active) <= MaxWorkers
    /\ \A s \in Slots : s >= nextSlot =>
         /\ s \notin proc \cup consumed \cup life
         /\ spawn[s] = "none" /\ resume[s] = "none" /\ term[s] = "none"
    /\ \A s \in Slots :
         /\ spawn[s] = "booting" => worker[s].st = "booting"
         /\ spawn[s] = "freezing" => worker[s].st = "suspending" /\ worker[s].n = 0
         /\ worker[s].st \in {"booting", "suspending"}
                => spawn[s] \in {"queued", "booting", "freezing"}
    /\ \A s \in proc : \/ worker[s].st # "none" \/ spawn[s] # "none"
                       \/ term[s] # "none" \/ s \in left

\* A settings drain admits no new client, not even one whose request had been
\* routed before the drain began.
DrainAdmitsNoOne ==
    [][Draining /\ Draining' => \A c \in Clients : ~Bound(c) => bind'[c].slot = NoSlot]_vars

\* A client that is bound and has no connection opens one or is released, so
\* that it does not keep a worker for ever; workers thawed by Resume, whose
\* clients have no timer, are left out.
GhostsLeave ==
    \A c \in Clients :
        Bound(c) /\ bind[c].live = 0
            ~> ~Bound(c) \/ bind[c].live > 0 \/ worker[bind[c].slot].thawed

\* Every boot, freeze, thaw and retirement comes to an end, whatever fails on
\* the way: no slot counts against max_workers without a worker that serves or
\* can be thawed.
WorkersSettle ==
    \A s \in Slots :
        worker[s].st \in {"booting", "suspending", "resuming", "draining"}
            ~> worker[s].st \in {"none", "running", "suspended"}

\* hibernateElasticPool "stops every live worker slot [...] with a confirmed
\* exit": when the pool is gone its processes are gone or are being stopped.
HibernatedIsStopped == ~open => \A s \in proc : term[s] # "none"
============================================================================
