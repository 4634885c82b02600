-------------------------- MODULE ElasticPoolProofs --------------------------
(***************************************************************************)
(* Why the pool of one app keeps its books, for any number of clients,     *)
(* requests, slots and workers, and however many faults.                   *)
(*                                                                         *)
(* However the requests of a client overlap, only a client that is not     *)
(* bound is bound, always to a worker that runs, boots or thaws, and a     *)
(* worker is retired only while nobody is bound to it (BindInv): the step  *)
(* that would move a bound client cannot happen.  A slot number that has   *)
(* not been given out is untouched (Fresh), so that a reservation starts   *)
(* from nothing.                                                           *)
(*                                                                         *)
(* When a client's requests are placed one after the other (~Burst), every *)
(* connection counted for a client leads to its own worker (LoneInv).      *)
(* Then no client of a worker that is still booting has a grace timer, so  *)
(* that no boot is ended by a release; reservations and boots go together  *)
(* (SlotInv), and since a boot holds the app operation lock (LockInv) none *)
(* is under way when the whole pool goes.                                  *)
(*                                                                         *)
(* The last two sections prove the safety that liveness rests on: a client *)
(* without a connection has a timer or a worker to wait for (WatchInv),    *)
(* and a worker on its way a goroutine that can go on (TendInv).           *)
(***************************************************************************)
EXTENDS ElasticPool, FiniteSetTheorems, TLAPS

-----------------------------------------------------------------------------
(* The inductive invariant, in parts.                                      *)

\* Nothing has happened to a slot number that has not been given out.
Untouched(s) ==
    /\ worker[s] = NoWorker /\ s \notin proc \cup consumed \cup life
    /\ spawn[s] = "none" /\ resume[s] = "none" /\ term[s] = "none"
Fresh == \A s \in Slots : s >= nextSlot => Untouched(s)

\* Clients and workers: assignedClients counts the bindings, nobody is bound to a
\* worker that is gone, retired or being frozen, and an emptied worker is stopped.
BindInv ==
    /\ \A c \in Clients : ~Bound(c) => bind[c] = NoBinding /\ ~late[c].fresh
    /\ \A s \in Slots :
         /\ worker[s].n = Cardinality(BoundTo(s))
         /\ worker[s].st \in {"none", "suspending", "draining"} => worker[s].n = 0
         /\ worker[s].used /\ worker[s].n = 0 => term[s] # "none"

\* A request that is counted for its client's present binding is open.
ReqInv ==
    \A r \in Requests :
        /\ req[r].at # "idle" => req[r].c \in Clients
        /\ req[r].at \in {"bind", "open"} => req[r].s \in Slots
        /\ req[r].own => req[r].at = "open" /\ Bound(req[r].c)

\* What holds however requests of one client overlap.
RoutingInv == TypeOK /\ Fresh /\ BindInv /\ ReqInv

\* A slot by itself: a reservation and its boot, and what cannot have begun yet.
Settling == {"booting", "suspending"}
Booting == {"booting", "freezing", "registered"}
SlotOK(s) ==
    /\ spawn[s] = "booting" => worker[s].st = "booting"
    /\ spawn[s] = "freezing" => worker[s].st = "suspending"
    /\ spawn[s] = "queued" => worker[s].st \in {"none", "booting"} /\ s \notin proc
    /\ spawn[s] \in {"none", "registered"} => worker[s].st \notin Settling
    /\ worker[s].st \in Settling =>
         term[s] = "none" /\ resume[s] = "none" /\ s \notin life \cup consumed

\* A process is left behind, about to be stopped, or a worker of the pool.
ProcOK(s) ==
    s \in proc => \/ s \in left \/ term[s] = "queued"
                  \/ worker[s].st # "none" /\ term[s] \notin {"blind", "stopped"}

\* The app operation lock.
Holds(s) == spawn[s] \in Booting \/ resume[s] = "thawing"
LockInv ==
    /\ \A s \in Slots :
         /\ Holds(s) => op = "held"
         /\ spawn[s] \in Booting => resume[s] # "thawing"
    /\ \A s, t \in Slots : Holds(s) /\ Holds(t) => s = t

\* Requests of one client that are being placed, and the connections of its binding.
Placing(r) == req[r].at \in {"bind", "place"}
Mine(c) == {r \in Requests : req[r].own /\ req[r].c = c}
Apart ==
    \A q, r \in Requests :
        Placing(q) /\ Placing(r) /\ req[q].c = req[r].c => q = r
Leads(r) ==
    /\ req[r].at = "bind" => ~Bound(req[r].c)
    /\ req[r].own => req[r].s = bind[req[r].c].slot
Counted(c) ==
    /\ bind[c].live = Cardinality(Mine(c))
    /\ Bound(c) /\ worker[bind[c].slot].st = "booting" =>
         bind[c].live = 0 /\ bind[c].timer = "none" /\ ~late[c].fresh
LoneInv ==
    /\ Apart
    /\ \A r \in Requests : Leads(r)
    /\ \A c \in Clients : Counted(c)

SlotInv == \A s \in Slots : SlotOK(s) /\ ProcOK(s)
CapInv == Cardinality(Active) <= MaxWorkers

\* What holds when a client's requests are placed one after the other.
PoolInv == RoutingInv /\ SlotInv /\ LockInv /\ LoneInv /\ CapInv

-----------------------------------------------------------------------------
(* Types.                                                                  *)

PoolType ==
    /\ open \in BOOLEAN /\ nextSlot \in 0 .. MaxSlots /\ base \in 0 .. nextSlot
    /\ target \in WarmTargets /\ op \in {"free", "held", "drain"}
    /\ events \in 0 .. MaxEvents
    /\ recon \in BOOLEAN /\ retry \in {"off", "armed", "stale"}
RequestType ==
    [at : {"idle", "bind", "place", "open"}, c : Clients \cup {NoClient},
     s : Slots \cup {NoSlot}, own : BOOLEAN]
ClientType ==
    /\ bind \in [Clients -> BindingType]
    /\ late \in [Clients -> [fresh : BOOLEAN, stale : BOOLEAN]]
    /\ req \in [Requests -> RequestType]
TaskType ==
    /\ proc \subseteq Slots /\ left \subseteq Slots /\ consumed \subseteq Slots
    /\ life \subseteq Slots
    /\ spawn \in [Slots -> {"none", "queued", "booting", "freezing", "registered"}]
    /\ resume \in [Slots -> {"none", "queued", "thawing"}]
    /\ term \in [Slots -> {"none", "queued", "blind", "stopped"}]

\* TypeOK by what keeps the variables.
LEMMA TypesInParts ==
    TypeOK <=> /\ PoolType /\ ClientType /\ TaskType /\ worker \in [Slots -> WorkerType]
BY DEF TypeOK, PoolType, ClientType, TaskType, RequestType

\* The parts, after a step.
LEMMA TypesNext ==
    ASSUME PoolType', ClientType', TaskType', worker' \in [Slots -> WorkerType]
    PROVE  TypeOK'
BY DEF TypeOK, PoolType, ClientType, TaskType, RequestType

\* Sets of clients, requests and slots are finite.
LEMMA Finite ==
    /\ \A s : IsFiniteSet(BoundTo(s)) /\ Cardinality(BoundTo(s)) \in Nat
    /\ \A c : IsFiniteSet(Mine(c)) /\ Cardinality(Mine(c)) \in Nat
    /\ \A S \in SUBSET Slots : IsFiniteSet(S) /\ Cardinality(S) \in Nat
<1>1. IsFiniteSet(Slots)
  BY PoolAssumption, FS_Interval DEF Slots
<1>2. IsFiniteSet(Clients) /\ IsFiniteSet(Requests)
  BY PoolAssumption
<1>3. \A s : BoundTo(s) \subseteq Clients
  BY DEF BoundTo
<1>4. \A c : Mine(c) \subseteq Requests
  BY DEF Mine
<1> QED
  BY <1>1, <1>2, <1>3, <1>4, FS_Subset, FS_CardinalityType

\* A client that is bound is counted, so that its worker is one that stays.
LEMMA Routable ==
    ASSUME TypeOK, BindInv, NEW c \in Clients, Bound(c)
    PROVE  /\ bind[c].slot \in Slots
           /\ worker[bind[c].slot].n \in Nat /\ worker[bind[c].slot].n >= 1
           /\ worker[bind[c].slot].st \notin {"none", "suspending", "draining"}
<1>1. bind[c].slot \in Slots
  BY DEF TypeOK, BindingType, Bound
<1>2. c \in BoundTo(bind[c].slot)
  BY DEF BoundTo
<1>3. Cardinality(BoundTo(bind[c].slot)) # 0
  BY <1>2, Finite, FS_EmptySet
<1> QED
  BY <1>1, <1>3, Finite DEF BindInv

-----------------------------------------------------------------------------
(* What the steps of a request do.                                         *)

\* decide: to a worker that runs, or one to wait for, or to a new one if there is room.
LEMMA Choices ==
    ASSUME NEW d \in FreshDecisions
    PROVE  \/ d.kind = "route" /\ d.s \in Slots /\ worker[d.s].st = "running"
           \/ /\ d.kind = "bind" /\ d.s \in Slots
              /\ worker[d.s].st \in {"booting", "resuming", "suspended"}
           \/ d.kind = "allocate" /\ d.s = NoSlot /\ Room({}) > 0
           \/ d.kind = "reject" /\ d.s = NoSlot
BY DEF FreshDecisions, Active

\* What becomes of request r; client c opens a connection.
Sets(r, at, c, s, own) ==
    /\ req' \in [Requests -> RequestType]
    /\ \A q \in Requests \ {r} : req'[q] = req[q]
    /\ req'[r].at = at /\ req'[r].c = c /\ req'[r].s = s /\ req'[r].own = own
Clears(r) == Sets(r, "idle", NoClient, NoSlot, FALSE)
Opens(c) ==
    /\ bind' \in [Clients -> BindingType]
    /\ \A b \in Clients \ {c} : bind'[b] = bind[b]
    /\ bind'[c].slot = bind[c].slot /\ bind'[c].live = bind[c].live + 1
    /\ bind'[c].timer = "none"

\* An assignment to one request, field by field.
LEMMA SetEffect ==
    ASSUME TypeOK, NEW r \in Requests, NEW q \in RequestType,
           req' = [req EXCEPT ![r] = q]
    PROVE  Sets(r, q.at, q.c, q.s, q.own)
BY DEF Sets, TypeOK, RequestType

\* A request that ends.
LEMMA ClearEffect ==
    ASSUME TypeOK, NEW r \in Requests, req' = IdleRequest(r)
    PROVE  Clears(r)
<1>1. /\ NoRequest \in RequestType /\ NoRequest.at = "idle" /\ NoRequest.c = NoClient
      /\ NoRequest.s = NoSlot /\ NoRequest.own = FALSE
  BY DEF NoRequest, RequestType
<1> QED
  BY <1>1, SetEffect DEF IdleRequest, Clears

\* clientSlot.open, field by field.
LEMMA OpenedFields ==
    ASSUME NEW cs \in BindingType
    PROVE  /\ Opened(cs) \in BindingType /\ Opened(cs).slot = cs.slot
           /\ Opened(cs).live = cs.live + 1 /\ Opened(cs).timer = "none"
<1> DEFINE u == [cs EXCEPT !.live = cs.live + 1]
<1>1. u \in BindingType /\ u.slot = cs.slot /\ u.live = cs.live + 1
  BY DEF BindingType
<1>2. Opened(cs) = [u EXCEPT !.timer = "none"]
  BY DEF Opened
<1> HIDE DEF u
<1> QED
  BY <1>1, <1>2 DEF BindingType

\* clientSlot.open on the client's binding: its slot stays.
LEMMA OpenEffect ==
    ASSUME TypeOK, NEW c \in Clients, bind' = [bind EXCEPT ![c] = Opened(@)]
    PROVE  Opens(c)
<1>1. bind \in [Clients -> BindingType] /\ bind[c] \in BindingType
  BY DEF TypeOK
<1>2. bind' = [bind EXCEPT ![c] = Opened(bind[c])]
  OBVIOUS
<1> QED
  BY <1>1, <1>2, OpenedFields DEF Opens

\* ServeHTTP under the read lock.
Arrives(r, c, s) ==
    \/ /\ Bound(c) /\ s = bind[c].slot /\ s \in Slots /\ Serves(s) /\ Opens(c)
       /\ Sets(r, "open", c, s, TRUE)
    \/ /\ ~Bound(c) /\ s \in Slots /\ bind' = bind
       /\ Sets(r, "bind", c, s, FALSE)
    \/ /\ bind' = bind /\ s \in Slots \cup {NoSlot}
       /\ Sets(r, "place", c, s, FALSE)

\* Arrive does that: a bound client is served by its own worker, or asks for it again.
LEMMA ArriveEffect ==
    ASSUME RoutingInv, NEW r \in Requests, NEW c \in Clients, Arrive(r, c)
    PROVE  \E s : Arrives(r, c, s)
<1>1. PICK d \in Decisions(c) :
        \/ /\ d.kind = "route" /\ Serves(d.s) /\ Bound(c)
           /\ bind' = [bind EXCEPT ![c] = Opened(@)]
           /\ req' = [req EXCEPT ![r] = [at |-> "open", c |-> c, s |-> d.s, own |-> TRUE]]
        \/ /\ \/ d.kind = "route" /\ Serves(d.s) /\ ~Bound(c)
              \/ d.kind \in {"bind", "allocate"}
           /\ req' = [req EXCEPT ![r] =
                         [at |-> IF d.kind = "route" THEN "bind" ELSE "place",
                          c |-> c, s |-> d.s, own |-> FALSE]]
           /\ bind' = bind
  BY DEF Arrive
<1>2. ASSUME NEW at \in {"bind", "place", "open"}, NEW own \in BOOLEAN,
            d.s \in Slots \cup {NoSlot},
             req' = [req EXCEPT ![r] = [at |-> at, c |-> c, s |-> d.s, own |-> own]]
      PROVE  Sets(r, at, c, d.s, own)
  <2> DEFINE q == [at |-> at, c |-> c, s |-> d.s, own |-> own]
  <2>1. q \in RequestType /\ q.at = at /\ q.c = c /\ q.s = d.s /\ q.own = own
    BY <1>2 DEF RequestType
  <2>2. req' = [req EXCEPT ![r] = q]
    BY <1>2
  <2> HIDE DEF q
  <2>3. Sets(r, q.at, q.c, q.s, q.own)
    BY <2>1, <2>2, SetEffect DEF RoutingInv
  <2> QED
    BY <2>1, <2>3
<1>3. CASE Bound(c)
  <2>1. bind[c].slot \in Slots /\ Pinned(c) /\ worker[bind[c].slot].st # "suspending"
    BY <1>3, Routable DEF RoutingInv, Pinned
  <2>2. d.s = bind[c].slot /\ d.kind \in {"bind", "route"}
    BY <2>1, <1>1 DEF Decisions
  <2>3. CASE d.kind = "route"
    <3>1. /\ bind' = [bind EXCEPT ![c] = Opened(@)] /\ Serves(d.s)
          /\ req' = [req EXCEPT ![r] = [at |-> "open", c |-> c, s |-> d.s, own |-> TRUE]]
      BY <1>1, <1>3, <2>3
    <3>2. Opens(c) /\ Sets(r, "open", c, d.s, TRUE)
      BY <1>2, <2>1, <2>2, <3>1, OpenEffect DEF RoutingInv
    <3> QED
      BY <1>3, <2>1, <2>2, <3>1, <3>2 DEF Arrives
  <2>4. CASE d.kind = "bind"
    <3>1. /\ bind' = bind
          /\ req' = [req EXCEPT ![r] = [at |-> "place", c |-> c, s |-> d.s, own |-> FALSE]]
      BY <1>1, <2>4
    <3>2. Sets(r, "place", c, d.s, FALSE)
      BY <1>2, <2>1, <2>2, <3>1
    <3> QED
      BY <2>1, <2>2, <3>1, <3>2 DEF Arrives
  <2> QED
    BY <2>2, <2>3, <2>4
<1>4. CASE ~Bound(c)
  <2>1. d \in FreshDecisions /\ bind' = bind
    BY <1>1, <1>4 DEF Decisions, Pinned
  <2>2. CASE d.kind = "route"
    <3>1. req' = [req EXCEPT ![r] = [at |-> "bind", c |-> c, s |-> d.s, own |-> FALSE]]
      BY <1>1, <1>4, <2>2
    <3>2. d.s \in Slots
      BY <2>1, <2>2, Choices
    <3>3. Sets(r, "bind", c, d.s, FALSE)
      BY <1>2, <3>1, <3>2
    <3> QED
      BY <1>4, <2>1, <3>2, <3>3 DEF Arrives
  <2>3. CASE d.kind # "route"
    <3>1. req' = [req EXCEPT ![r] = [at |-> "place", c |-> c, s |-> d.s, own |-> FALSE]]
      BY <1>1, <1>4, <2>3
    <3>2. d.s \in Slots \cup {NoSlot}
      BY <2>1, Choices
    <3>3. Sets(r, "place", c, d.s, FALSE)
      BY <1>2, <3>1, <3>2
    <3> QED
      BY <2>1, <3>2, <3>3 DEF Arrives
  <2> QED
    BY <2>2, <2>3
<1> QED
  BY <1>3, <1>4

\* The client c, who is not bound, is bound to slot s, whose worker is then st.
OneBinds(c, s, live, timer) ==
    /\ bind' \in [Clients -> BindingType]
    /\ \A b \in Clients \ {c} : bind'[b] = bind[b]
    /\ bind'[c].slot = s /\ bind'[c].live = live /\ bind'[c].timer = timer
Binds(c, s, st) ==
    /\ ~Bound(c) /\ s \in Slots /\ worker' \in [Slots -> WorkerType]
    /\ \A t \in Slots \ {s} : worker'[t] = worker[t]
    /\ worker'[s].st = st /\ worker'[s].n = worker[s].n + 1 /\ worker'[s].used

\* A worker that gets its client.
LEMMA AssignEffect ==
    ASSUME TypeOK, NEW s \in Slots, NEW w \in WorkerType, w.n = worker[s].n,
           worker' = [worker EXCEPT ![s] = Assigned(w)]
    PROVE  /\ worker' \in [Slots -> WorkerType]
           /\ \A t \in Slots \ {s} : worker'[t] = worker[t]
           /\ worker'[s].st = w.st /\ worker'[s].n = worker[s].n + 1 /\ worker'[s].used
<1> DEFINE u == [w EXCEPT !.n = w.n + 1]
           v == Assigned(w)
<1>1. v \in WorkerType /\ v.st = w.st /\ v.n = w.n + 1 /\ v.used
  <2>1. u \in WorkerType /\ u.st = w.st /\ u.n = w.n + 1
    BY DEF WorkerType
  <2>2. v = [[u EXCEPT !.used = TRUE] EXCEPT !.spare = FALSE]
    BY DEF Assigned
  <2> HIDE DEF u, v
  <2> QED
    BY <2>1, <2>2 DEF WorkerType
<1>2. worker' = [worker EXCEPT ![s] = v]
  OBVIOUS
<1> HIDE DEF v
<1> QED
  BY <1>1, <1>2 DEF TypeOK

\* bindClientLocked moves nobody: who can be bound anew is not bound.
LEMMA BindEffect ==
    ASSUME RoutingInv, NEW c \in Clients, ~Bound(c), NEW s \in Slots, NEW w \in WorkerType,
           w.n = worker[s].n, NEW timer \in {"none", "armed", "spent"},
           BindClient(c, s, w, timer)
    PROVE  /\ Binds(c, s, w.st) /\ OneBinds(c, s, 0, timer)
           /\ term' = term /\ recon' = TRUE
           /\ late' = [late EXCEPT ![c] = [fresh |-> FALSE, stale |-> @.fresh \/ @.stale]]
<1>1. bind[c].slot = NoSlot /\ NoSlot \notin Slots
  BY DEF Bound, Slots, NoSlot
<1>2. Emptied(bind[c].slot) = {}
  BY <1>1 DEF Emptied
<1>3. Dispatch({}) = term
  BY DEF Dispatch, RoutingInv, TypeOK
<1>4. worker' = [worker EXCEPT ![s] = Assigned(w)]
  BY <1>1 DEF BindClient, RoutingInv, TypeOK
<1>5. Binds(c, s, w.st)
  BY <1>4, AssignEffect DEF Binds, RoutingInv
<1>6. bind' = [bind EXCEPT ![c] = [slot |-> s, live |-> 0, timer |-> timer]]
  BY DEF BindClient
<1>7. OneBinds(c, s, 0, timer)
  BY <1>6 DEF OneBinds, RoutingInv, TypeOK, BindingType
<1> QED
  BY <1>2, <1>3, <1>5, <1>7 DEF BindClient

\* A request that is routed under the write lock.
Connected(r) == Sets(r, "open", req[r].c, req[r].s, TRUE)

\* BindRoute does that, and only for a worker that runs while nothing is drained.
LEMMA BindRouteEffect ==
    ASSUME RoutingInv, NEW r \in Requests, BindRoute(r)
    PROVE  /\ req[r].at = "bind" /\ req[r].c \in Clients /\ req[r].s \in Slots
           /\ \/ Clears(r) /\ UNCHANGED <<worker, bind, consumed, recon>>
              \/ /\ Connected(r) /\ Serves(req[r].s) /\ ~Draining
                 /\ Bound(req[r].c) /\ Opens(req[r].c) /\ UNCHANGED <<worker, consumed, recon>>
              \/ /\ Connected(r) /\ Serves(req[r].s) /\ ~Draining
                 /\ Binds(req[r].c, req[r].s, "running")
                 /\ OneBinds(req[r].c, req[r].s, 1, "none")
                 /\ consumed' \in {consumed, consumed \cup {req[r].s}} /\ recon' \in BOOLEAN
<1> DEFINE c == req[r].c
           s == req[r].s
<1>1. req[r].at = "bind" /\ c \in Clients /\ s \in Slots
  BY DEF BindRoute, RoutingInv, ReqInv
<1>2. CASE ~StillAdmits(s)
  BY <1>1, <1>2, ClearEffect DEF BindRoute, RoutingInv
<1>3. CASE StillAdmits(s)
  <2>1. Serves(s) /\ ~Draining
    BY <1>3 DEF StillAdmits
  <2>2. Connected(r)
    <3> DEFINE p == [req[r] EXCEPT !.at = "open"]
               q == [p EXCEPT !.own = TRUE]
    <3>1. req' = [req EXCEPT ![r] = q]
      BY <1>3 DEF BindRoute, RoutingInv, TypeOK
    <3>2. p \in RequestType /\ p.at = "open" /\ p.c = c /\ p.s = s
      BY DEF RoutingInv, TypeOK, RequestType
    <3>3. q \in RequestType /\ q.at = "open" /\ q.c = c /\ q.s = s /\ q.own = TRUE
      <4> HIDE DEF p
      <4> QED
        BY <3>2 DEF RequestType
    <3> HIDE DEF q
    <3> QED
      BY <3>1, <3>3, SetEffect DEF Connected, RoutingInv
  <2>3. CASE Bound(c)
    BY <1>1, <1>3, <2>1, <2>2, <2>3, OpenEffect DEF BindRoute, RoutingInv
  <2>4. CASE ~Bound(c)
    <3>1. worker' = [worker EXCEPT ![s] = Assigned(worker[s])]
      BY <1>3, <2>4 DEF BindRoute
    <3>2. worker[s] \in WorkerType
      BY <1>1 DEF RoutingInv, TypeOK
    <3>3. Binds(c, s, "running")
      BY <1>1, <2>1, <2>4, <3>1, <3>2, AssignEffect DEF Binds, Serves, RoutingInv
    <3> DEFINE b == [NoBinding EXCEPT !.slot = s]
    <3>4. b \in BindingType /\ b.slot = s /\ b.live = 0 /\ b.timer = "none"
      BY <1>1 DEF NoBinding, BindingType
    <3>5. bind' = [bind EXCEPT ![c] = Opened(b)]
      BY <1>3, <2>4 DEF BindRoute
    <3> HIDE DEF b
    <3>6. OneBinds(c, s, 1, "none")
      <4>1. /\ Opened(b) \in BindingType /\ Opened(b).slot = s /\ Opened(b).live = 1
            /\ Opened(b).timer = "none"
        BY <3>4, OpenedFields
      <4> QED
        BY <1>1, <3>5, <4>1 DEF OneBinds, RoutingInv, TypeOK
    <3>7. consumed' \in {consumed, consumed \cup {s}} /\ recon' \in BOOLEAN
      <4>1. /\ consumed' = consumed \cup {t \in {s} : worker[s].spare /\ ~worker[s].used}
            /\ recon' = (recon \/ (worker[s].spare /\ ~worker[s].used))
        BY <1>3, <2>4 DEF BindRoute
      <4>2. recon \in BOOLEAN
        BY DEF RoutingInv, TypeOK
      <4> QED
        BY <4>1, <4>2
    <3> QED
      BY <1>1, <2>1, <2>2, <3>3, <3>6, <3>7
  <2> QED
    BY <2>3, <2>4
<1> QED
  BY <1>2, <1>3

\* placeClient: nothing, or the client waits for slot s with its timer.
Waits(c, s, st, timer) ==
    /\ Binds(c, s, st) /\ OneBinds(c, s, 0, timer) /\ term' = term /\ ~Draining
    /\ late' = [late EXCEPT ![c] = [fresh |-> FALSE, stale |-> @.fresh \/ @.stale]]
Places(c) ==
    \/ UNCHANGED <<nextSlot, worker, bind, late, spawn, resume, term>>
    \/ \E s \in Slots, st \in {"running", "booting", "resuming"} :
         /\ Waits(c, s, st, IF st = "running" THEN "armed" ELSE "none")
         /\ worker[s].st = st /\ UNCHANGED <<nextSlot, spawn, resume>>
    \/ \E s \in Slots :
         /\ Waits(c, s, "resuming", "none") /\ worker[s].st = "suspended"
         /\ resume' = [resume EXCEPT ![s] = "queued"] /\ UNCHANGED <<nextSlot, spawn>>
    \/ /\ Waits(c, nextSlot, "booting", "none") /\ nextSlot \in Slots /\ Room({}) > 0
       /\ nextSlot' = nextSlot + 1
       /\ spawn' = [spawn EXCEPT ![nextSlot] = "queued"] /\ resume' = resume

\* PlaceClient does that: only a client without a worker gets one.
LEMMA PlaceEffect ==
    ASSUME RoutingInv, NEW r \in Requests, PlaceClient(r)
    PROVE  /\ req[r].at = "place" /\ req[r].c \in Clients /\ Clears(r)
           /\ Places(req[r].c) /\ recon' \in BOOLEAN
<1> DEFINE c == req[r].c
<1>1. req[r].at = "place" /\ c \in Clients /\ Clears(r)
  BY ClearEffect DEF PlaceClient, RoutingInv, ReqInv
<1>2. recon \in BOOLEAN
  BY DEF RoutingInv, TypeOK
<1>3. CASE UNCHANGED <<nextSlot, worker, bind, late, spawn, resume, term>>
            /\ recon' \in {recon, TRUE}
  BY <1>1, <1>2, <1>3 DEF Places
<1>4. CASE open /\ ~Pinned(c) /\ ~Draining
  <2>1. ~Bound(c)
    BY <1>1, <1>4, Routable DEF Pinned, RoutingInv
  <2>2. PICK d \in FreshDecisions, memOK \in BOOLEAN :
              \/ /\ d.kind \in {"route", "bind"} /\ worker[d.s].st # "suspended"
                 /\ BindClient(c, d.s, worker[d.s], IF Serves(d.s) THEN "armed" ELSE "none")
                 /\ UNCHANGED <<nextSlot, spawn, resume>>
              \/ /\ d.kind = "bind" /\ worker[d.s].st = "suspended"
                 /\ BindClient(c, d.s, [worker[d.s] EXCEPT !.st = "resuming"], "none")
                 /\ resume' = [resume EXCEPT ![d.s] = "queued"]
                 /\ UNCHANGED <<nextSlot, spawn>>
              \/ /\ d.kind = "allocate" /\ memOK /\ nextSlot < MaxSlots
                 /\ nextSlot' = nextSlot + 1
                 /\ BindClient(c, nextSlot, [NoWorker EXCEPT !.st = "booting"], "none")
                 /\ spawn' = [spawn EXCEPT ![nextSlot] = "queued"]
                 /\ UNCHANGED resume
              \/ /\ d.kind = "reject" \/ (d.kind = "allocate" /\ ~memOK)
                 /\ UNCHANGED <<nextSlot, worker, bind, late, spawn, resume, term, recon>>
    BY <1>4, Zenon DEF PlaceClient
  <2>3. CASE d.kind \in {"route", "bind"} /\ worker[d.s].st # "suspended"
    <3>1. /\ d.s \in Slots /\ worker[d.s].st \in {"running", "booting", "resuming"}
          /\ worker[d.s] \in WorkerType
      BY <2>3, Choices DEF RoutingInv, TypeOK
    <3>2. /\ BindClient(c, d.s, worker[d.s], IF Serves(d.s) THEN "armed" ELSE "none")
          /\ UNCHANGED <<nextSlot, spawn, resume>>
      BY <2>2, <2>3
    <3>3. /\ Waits(c, d.s, worker[d.s].st, IF Serves(d.s) THEN "armed" ELSE "none")
          /\ recon' = TRUE
      BY <1>1, <1>4, <2>1, <3>1, <3>2, BindEffect DEF Waits
    <3> QED
      BY <1>1, <3>1, <3>2, <3>3 DEF Places, Serves
  <2>4. CASE d.kind = "bind" /\ worker[d.s].st = "suspended"
    <3> DEFINE w == [worker[d.s] EXCEPT !.st = "resuming"]
    <3>1. /\ d.s \in Slots /\ worker[d.s] \in WorkerType
      BY <2>4, Choices DEF RoutingInv, TypeOK
    <3>2. w \in WorkerType /\ w.st = "resuming" /\ w.n = worker[d.s].n
      BY <3>1 DEF WorkerType
    <3>3. /\ BindClient(c, d.s, w, "none")
          /\ resume' = [resume EXCEPT ![d.s] = "queued"] /\ UNCHANGED <<nextSlot, spawn>>
      BY <2>2, <2>4
    <3> HIDE DEF w
    <3>4. Waits(c, d.s, "resuming", "none") /\ recon' = TRUE
      <4>1. /\ Binds(c, d.s, w.st) /\ OneBinds(c, d.s, 0, "none")
            /\ term' = term /\ recon' = TRUE
            /\ late' = [late EXCEPT ![c] = [fresh |-> FALSE, stale |-> @.fresh \/ @.stale]]
        BY <1>1, <2>1, <3>1, <3>2, <3>3, BindEffect
      <4>2. Binds(c, d.s, "resuming")
        BY <3>2, <4>1 DEF Binds
      <4> QED
        BY <1>4, <4>1, <4>2 DEF Waits
    <3> QED
      BY <1>1, <2>4, <3>1, <3>3, <3>4 DEF Places
  <2>5. CASE d.kind = "allocate" /\ memOK
    <3> DEFINE w == [NoWorker EXCEPT !.st = "booting"]
    <3>1. /\ nextSlot < MaxSlots /\ nextSlot' = nextSlot + 1
          /\ BindClient(c, nextSlot, w, "none")
          /\ spawn' = [spawn EXCEPT ![nextSlot] = "queued"] /\ UNCHANGED resume
      BY <2>2, <2>5
    <3>2. nextSlot \in Slots /\ Room({}) > 0
      BY <2>5, <3>1, Choices, PoolAssumption DEF RoutingInv, TypeOK, Slots
    <3>3. worker[nextSlot] = NoWorker
      BY <3>2 DEF RoutingInv, Fresh, Untouched, Slots
    <3>4. w \in WorkerType /\ w.st = "booting" /\ w.n = worker[nextSlot].n
      BY <3>3 DEF WorkerType, NoWorker
    <3> HIDE DEF w
    <3>5. Waits(c, nextSlot, "booting", "none") /\ recon' = TRUE
      <4>1. /\ Binds(c, nextSlot, w.st) /\ OneBinds(c, nextSlot, 0, "none")
            /\ term' = term /\ recon' = TRUE
            /\ late' = [late EXCEPT ![c] = [fresh |-> FALSE, stale |-> @.fresh \/ @.stale]]
        BY <1>1, <2>1, <3>1, <3>2, <3>4, BindEffect
      <4>2. Binds(c, nextSlot, "booting")
        BY <3>4, <4>1 DEF Binds
      <4> QED
        BY <1>4, <4>1, <4>2 DEF Waits
    <3> QED
      BY <1>1, <3>1, <3>2, <3>5 DEF Places
  <2>6. CASE UNCHANGED <<nextSlot, worker, bind, late, spawn, resume, term, recon>>
    BY <1>3, <2>6
  <2> QED
    BY <2>2, <2>3, <2>4, <2>5, <2>6
<1> QED
  BY <1>3, <1>4 DEF PlaceClient

\* Workers S are removed with the bindings to them.
Removes(S) ==
    /\ worker' \in [Slots -> WorkerType] /\ bind' \in [Clients -> BindingType]
    /\ late' \in [Clients -> [fresh : BOOLEAN, stale : BOOLEAN]]
    /\ req' \in [Requests -> RequestType]
    /\ \A s \in Slots : worker'[s] = IF s \in S THEN NoWorker ELSE worker[s]
    /\ \A c \in Clients :
         IF bind[c].slot \in S THEN bind'[c] = NoBinding /\ ~late'[c].fresh
         ELSE bind'[c] = bind[c] /\ late'[c] = late[c]
    /\ \A r \in Requests :
         /\ req'[r].at = req[r].at /\ req'[r].c = req[r].c /\ req'[r].s = req[r].s
         /\ req'[r].own <=> req[r].own /\ bind[req[r].c].slot \notin S

\* Without and Unbind do that.
LEMMA RemoveEffect ==
    ASSUME TypeOK, ReqInv, NEW S \in SUBSET Slots, worker' = Without(S), Unbind(S)
    PROVE  Removes(S)
<1>1. /\ worker \in [Slots -> WorkerType] /\ bind \in [Clients -> BindingType]
      /\ late \in [Clients -> [fresh : BOOLEAN, stale : BOOLEAN]]
      /\ req \in [Requests -> RequestType]
  BY DEF TypeOK, RequestType
<1>2. NoWorker \in WorkerType /\ NoBinding \in BindingType
  BY DEF NoWorker, WorkerType, NoBinding, BindingType
<1>3. /\ worker' \in [Slots -> WorkerType] /\ bind' \in [Clients -> BindingType]
      /\ \A s \in Slots : worker'[s] = IF s \in S THEN NoWorker ELSE worker[s]
      /\ \A c \in Clients : bind'[c] = IF bind[c].slot \in S THEN NoBinding ELSE bind[c]
  BY <1>1, <1>2 DEF Without, Unbind
<1>4. ASSUME NEW c \in Clients
      PROVE  /\ late'[c] \in [fresh : BOOLEAN, stale : BOOLEAN]
             /\ IF bind[c].slot \in S THEN ~late'[c].fresh ELSE late'[c] = late[c]
  <2>1. late'[c] = IF bind[c].slot \in S
                   THEN [fresh |-> FALSE, stale |-> late[c].fresh \/ late[c].stale]
                   ELSE late[c]
    BY DEF Unbind
  <2>2. late[c] \in [fresh : BOOLEAN, stale : BOOLEAN]
    BY <1>1
  <2>3. CASE bind[c].slot \in S
    <3> DEFINE x == late[c].fresh \/ late[c].stale
    <3>1. x \in BOOLEAN /\ late'[c] = [fresh |-> FALSE, stale |-> x]
      BY <2>1, <2>3
    <3> HIDE DEF x
    <3> QED
      BY <2>3, <3>1
  <2> QED
    BY <2>1, <2>2, <2>3
<1>5. late' = [c \in Clients |-> late'[c]]
  BY DEF Unbind
<1>6. ASSUME NEW r \in Requests
      PROVE  /\ req'[r] \in RequestType
             /\ req'[r].at = req[r].at /\ req'[r].c = req[r].c /\ req'[r].s = req[r].s
             /\ req'[r].own <=> req[r].own /\ bind[req[r].c].slot \notin S
  <2>1. req'[r] = IF req[r].own /\ bind[req[r].c].slot \in S
                  THEN [req[r] EXCEPT !.own = FALSE] ELSE req[r]
    BY DEF Unbind
  <2>2. req[r] \in RequestType
    BY <1>1
  <2> QED
    BY <2>1, <2>2 DEF RequestType
<1>7. req' = [r \in Requests |-> req'[r]]
  BY DEF Unbind
<1>8. late' \in [Clients -> [fresh : BOOLEAN, stale : BOOLEAN]]
            /\ req' \in [Requests -> RequestType]
  <2>1. \A c \in Clients : late'[c] \in [fresh : BOOLEAN, stale : BOOLEAN]
    BY <1>4
  <2>2. \A r \in Requests : req'[r] \in RequestType
    BY <1>6
  <2> QED
    BY <1>5, <1>7, <2>1, <2>2
<1> QED
  BY <1>3, <1>4, <1>6, <1>8 DEF Removes

\* terminateWorkerLocked: who is stopped, by its own generation or none yet.
LEMMA DispatchEffect ==
    ASSUME TypeOK, NEW S \in SUBSET Slots, term' = Dispatch(S)
    PROVE  /\ term' \in [Slots -> {"none", "queued", "blind", "stopped"}]
           /\ \A s \in Slots :
                term'[s] = IF s \in S /\ worker[s].st # "none" /\ term[s] = "none"
                           THEN IF worker[s].st = "booting" THEN "blind" ELSE "queued"
                           ELSE term[s]
BY DEF Dispatch, TypeOK

\* releaseClient: the client is gone, and its worker if it was the last one.
Frees(c, s) ==
    /\ bind' \in [Clients -> BindingType] /\ worker' \in [Slots -> WorkerType]
    /\ late' \in [Clients -> [fresh : BOOLEAN, stale : BOOLEAN]]
    /\ req' \in [Requests -> RequestType]
    /\ s = bind[c].slot /\ s \in Slots /\ bind[c].live = 0 /\ bind'[c] = NoBinding
          /\ ~late'[c].fresh
    /\ \A b \in Clients \ {c} : bind'[b] = bind[b] /\ late'[b] = late[b]
    /\ \A r \in Requests :
         /\ req'[r].at = req[r].at /\ req'[r].c = req[r].c /\ req'[r].s = req[r].s
         /\ req'[r].own <=> req[r].own /\ req[r].c # c
    /\ \A t \in Slots \ {s} : worker'[t] = worker[t]
    /\ worker'[s].st = worker[s].st /\ worker'[s].n = worker[s].n - 1
    /\ worker'[s].used = worker[s].used
    /\ term' = Dispatch(Emptied(s))
\* The timer of a client changes.
Retimes(c, timer) ==
    /\ bind' \in [Clients -> BindingType]
    /\ \A b \in Clients \ {c} : bind'[b] = bind[b]
    /\ bind'[c].slot = bind[c].slot /\ bind'[c].live = bind[c].live
    /\ bind'[c].timer = timer
LateOf(c) ==
    /\ late' \in [Clients -> [fresh : BOOLEAN, stale : BOOLEAN]]
    /\ \A b \in Clients \ {c} : late'[b] = late[b]

\* GraceExpiry does that: the client has come back, or it is released.
LEMMA GraceEffect ==
    ASSUME RoutingInv, NEW c \in Clients, GraceExpiry(c)
    PROVE  /\ late[c].fresh /\ Bound(c)
           /\ \/ /\ Retimes(c, "none") /\ LateOf(c) /\ ~late'[c].fresh
                 /\ UNCHANGED <<worker, req, term>>
              \/ Frees(c, bind[c].slot)
<1> DEFINE s == bind[c].slot
<1>1. late[c].fresh /\ Bound(c)
  BY DEF GraceExpiry, RoutingInv, BindInv
<1>2. /\ s \in Slots /\ worker[s].n \in Nat /\ worker[s].n >= 1 /\ worker[s].st # "none"
  BY <1>1, Routable DEF RoutingInv
<1>3. /\ worker \in [Slots -> WorkerType] /\ bind \in [Clients -> BindingType]
      /\ late \in [Clients -> [fresh : BOOLEAN, stale : BOOLEAN]]
      /\ req \in [Requests -> RequestType]
      /\ bind[c] \in BindingType /\ worker[s] \in WorkerType
  BY <1>2 DEF RoutingInv, TypeOK, RequestType
<1>4. CASE bind[c].live # 0
  <2>1. /\ bind' = [bind EXCEPT ![c] = [bind[c] EXCEPT !.timer = "none"]]
        /\ late' = [late EXCEPT ![c] = [late[c] EXCEPT !.fresh = FALSE]]
        /\ UNCHANGED <<worker, req, term>>
    BY <1>3, <1>4 DEF GraceExpiry
  <2>2. Retimes(c, "none")
    BY <1>3, <2>1 DEF Retimes, BindingType
  <2>3. LateOf(c) /\ ~late'[c].fresh
    BY <1>3, <2>1 DEF LateOf
  <2> QED
    BY <1>1, <2>1, <2>2, <2>3
<1>5. CASE bind[c].live = 0
  <2>1. /\ bind' = [bind EXCEPT ![c] = NoBinding]
        /\ req' = [r \in Requests |->
              IF req[r].c = c THEN [req[r] EXCEPT !.own = FALSE] ELSE req[r]]
        /\ worker' = [worker EXCEPT ![s] = [worker[s] EXCEPT !.n = worker[s].n - 1]]
        /\ term' = Dispatch(Emptied(s))
    BY <1>2, <1>3, <1>5 DEF GraceExpiry
  <2>2. LateOf(c) /\ ~late'[c].fresh
    <3> DEFINE x == late[c].stale \/ bind[c].timer = "armed"
    <3>1. late' = [late EXCEPT ![c] = [fresh |-> FALSE, stale |-> x]] /\ x \in BOOLEAN
      BY <1>5, <1>3 DEF GraceExpiry
    <3> HIDE DEF x
    <3> QED
      BY <1>3, <3>1 DEF LateOf
  <2>3. /\ bind' \in [Clients -> BindingType] /\ bind'[c] = NoBinding
        /\ \A b \in Clients \ {c} : bind'[b] = bind[b]
    BY <1>3, <2>1 DEF NoBinding, BindingType
  <2>4. /\ worker' \in [Slots -> WorkerType]
        /\ \A t \in Slots \ {s} : worker'[t] = worker[t]
        /\ worker'[s].st = worker[s].st /\ worker'[s].n = worker[s].n - 1
        /\ worker'[s].used = worker[s].used
    <3> DEFINE w == [worker[s] EXCEPT !.n = worker[s].n - 1]
    <3>1. worker[s].n - 1 \in Nat
      BY <1>2
    <3>2. w \in WorkerType /\ w.st = worker[s].st /\ w.n = worker[s].n - 1
      BY <1>3, <3>1 DEF WorkerType
    <3>3. w.used = worker[s].used
      BY <1>3 DEF WorkerType
    <3>4. worker' = [worker EXCEPT ![s] = w]
      BY <2>1
    <3> HIDE DEF w
    <3> QED
      BY <1>2, <1>3, <3>2, <3>3, <3>4
  <2>5. ASSUME NEW r \in Requests
        PROVE  /\ req'[r] \in RequestType
               /\ req'[r].at = req[r].at /\ req'[r].c = req[r].c /\ req'[r].s = req[r].s
               /\ req'[r].own <=> req[r].own /\ req[r].c # c
    <3>1. req'[r] = IF req[r].c = c THEN [req[r] EXCEPT !.own = FALSE] ELSE req[r]
      BY <2>1
    <3>2. req[r] \in RequestType
      BY <1>3
    <3> QED
      BY <3>1, <3>2 DEF RequestType
  <2>6. req' \in [Requests -> RequestType]
    <3>1. req' = [r \in Requests |-> req'[r]]
      BY <2>1
    <3>2. \A r \in Requests : req'[r] \in RequestType
      BY <2>5
    <3> QED
      BY <3>1, <3>2
  <2> QED
    BY <1>1, <1>2, <1>5, <2>1, <2>2, <2>3, <2>4, <2>5, <2>6 DEF Frees, LateOf
<1> QED
  BY <1>4, <1>5

\* The worker of slot s changes its state.
Moves(s, st) ==
    /\ worker' \in [Slots -> WorkerType]
    /\ \A t \in Slots \ {s} : worker'[t] = worker[t]
    /\ worker'[s].st = st /\ worker'[s].n = worker[s].n /\ worker'[s].used = worker[s].used
States == {"none", "booting", "suspending", "suspended", "resuming", "running", "draining"}

\* An assignment to the state of one worker, field by field.
LEMMA MoveEffect ==
    ASSUME TypeOK, NEW s \in Slots, NEW st \in States, worker' = [worker EXCEPT ![s].st = st]
    PROVE  Moves(s, st)
<1> DEFINE w == [worker[s] EXCEPT !.st = st]
<1>1. worker \in [Slots -> WorkerType] /\ worker[s] \in WorkerType
  BY DEF TypeOK
<1>2. w \in WorkerType /\ w.st = st /\ w.n = worker[s].n
  BY <1>1 DEF WorkerType, States
<1>3. w.used = worker[s].used
  BY <1>1 DEF WorkerType
<1>4. worker' = [worker EXCEPT ![s] = w]
  OBVIOUS
<1> HIDE DEF w
<1> QED
  BY <1>1, <1>2, <1>3, <1>4 DEF Moves

\* registerElasticWorker, or MarkElasticWorkerResumed for a thawed one: the clients
\* that wait without a timer get one.
Registers(s, st) ==
    /\ Moves(s, st) /\ bind' \in [Clients -> BindingType]
    /\ \A c \in Clients :
         /\ bind'[c].slot = bind[c].slot /\ bind'[c].live = bind[c].live
         /\ bind'[c] = bind[c] \/ bind[c].slot = s

\* Register does that.
LEMMA RegisterEffect ==
    ASSUME TypeOK, NEW s \in Slots, NEW st \in {"running", "suspended"}, Register(s, st)
    PROVE  Registers(s, st)
<1>1. Moves(s, st)
  BY MoveEffect DEF Register, States
<1>2. bind \in [Clients -> BindingType]
  BY DEF TypeOK
<1>3. ASSUME NEW c \in Clients
      PROVE  /\ bind'[c] \in BindingType
             /\ bind'[c].slot = bind[c].slot /\ bind'[c].live = bind[c].live
             /\ bind'[c] = bind[c] \/ bind[c].slot = s
  <2>1. bind'[c] = IF bind[c].slot = s /\ bind[c].live = 0 /\ bind[c].timer = "none"
                   THEN [bind[c] EXCEPT !.timer = "armed"] ELSE bind[c]
    BY DEF Register
  <2> QED
    BY <1>2, <2>1 DEF BindingType
<1>4. bind' \in [Clients -> BindingType]
  <2>1. bind' = [c \in Clients |-> bind'[c]]
    BY DEF Register
  <2>2. \A c \in Clients : bind'[c] \in BindingType
    BY <1>3
  <2> QED
    BY <2>1, <2>2
<1> QED
  BY <1>1, <1>3, <1>4 DEF Registers

\* ResumeDone.
LEMMA ResumeEffect ==
    ASSUME TypeOK, NEW s \in Slots, ResumeDone(s)
    PROVE  Moves(s, "running")
<1> DEFINE v == [worker[s] EXCEPT !.st = "running"]
           w == [v EXCEPT !.thawed = TRUE]
<1>1. worker \in [Slots -> WorkerType] /\ worker[s] \in WorkerType
  BY DEF TypeOK
<1>2. v \in WorkerType /\ v.st = "running" /\ v.n = worker[s].n
  BY <1>1 DEF WorkerType
<1>3. v.used = worker[s].used
  BY <1>1 DEF WorkerType
<1>4. worker' = [worker EXCEPT ![s] = w]
  BY <1>1 DEF ResumeDone
<1>5. w \in WorkerType /\ w.st = "running" /\ w.n = worker[s].n /\ w.used = worker[s].used
  <2> HIDE DEF v
  <2> QED
    BY <1>2, <1>3 DEF WorkerType
<1> HIDE DEF w
<1> QED
  BY <1>1, <1>4, <1>5 DEF Moves

\* The reconcile of the warm floor: the spares in stop are retired, k are reserved.
Reserves(stop, k) ==
    LET new == nextSlot .. nextSlot + k - 1
    IN  /\ stop \subseteq Retireable /\ k \in Nat /\ (k > 0 => k <= Room(stop))
        /\ nextSlot + k <= MaxSlots /\ nextSlot' = nextSlot + k
        /\ worker' = [s \in Slots |->
              IF s \in new THEN [NoWorker EXCEPT !.st = "booting", !.spare = TRUE]
              ELSE IF s \in stop THEN [worker[s] EXCEPT !.st = "draining"]
              ELSE worker[s]]
        /\ spawn' = [s \in Slots |-> IF s \in new THEN "queued" ELSE spawn[s]]
        /\ term' = Dispatch(stop)

\* Reconcile does that, or nothing.
LEMMA ReserveEffect ==
    ASSUME RoutingInv, Reconcile
    PROVE  \/ UNCHANGED <<nextSlot, worker, spawn, term>>
           \/ /\ open /\ ~Draining
              /\ \E stop \in SUBSET Slots, k \in Nat : Reserves(stop, k)
<1>1. CASE open /\ ~Draining
  <2> DEFINE surplus == Cardinality(Spares) - target
             stop == {s \in Retireable : Cardinality({t \in Retireable : t > s}) < surplus}
             room == Room(stop)
             missing == target - Cardinality(Spares \ stop)
             K(memOK) == IF ~memOK \/ missing <= 0 \/ room <= 0 THEN 0
                         ELSE IF missing < room THEN missing ELSE room
  <2>1. PICK memOK \in BOOLEAN :
          LET k == K(memOK)
              new == nextSlot .. nextSlot + k - 1
          IN  /\ nextSlot + k <= MaxSlots
              /\ nextSlot' = nextSlot + k
              /\ worker' = [s \in Slots |->
                    IF s \in new THEN [NoWorker EXCEPT !.st = "booting", !.spare = TRUE]
                    ELSE IF s \in stop THEN [worker[s] EXCEPT !.st = "draining"]
                    ELSE worker[s]]
              /\ spawn' = [s \in Slots |-> IF s \in new THEN "queued" ELSE spawn[s]]
              /\ term' = Dispatch(stop)
    BY <1>1, Zenon DEF Reconcile
  <2>2. stop \in SUBSET Slots /\ stop \subseteq Retireable
    BY DEF Retireable, Spares, Active
  <2>3. missing \in Int /\ room \in Int
    <3>1. target \in Nat /\ MaxWorkers \in Nat
      BY PoolAssumption DEF RoutingInv, TypeOK
    <3>2. Cardinality(Spares \ stop) \in Nat /\ Cardinality(Active \ stop) \in Nat
      BY Finite DEF Spares, Active
    <3> HIDE DEF stop
    <3> QED
      BY <3>1, <3>2 DEF Room
  <2> HIDE DEF missing, room, stop
  <2>4. K(memOK) \in Nat /\ (K(memOK) > 0 => K(memOK) <= room)
    BY <2>3
  <2>5. Reserves(stop, K(memOK))
    <3> HIDE DEF K
    <3> QED
      BY <2>1, <2>2, <2>4 DEF Reserves, room
  <2> QED
    BY <1>1, <2>2, <2>4, <2>5
<1>2. CASE ~(open /\ ~Draining)
  BY <1>2 DEF Reconcile
<1> QED
  BY <1>1, <1>2

\* The slots of a reconcile, one by one.
LEMMA ReservedSlots ==
    ASSUME RoutingInv, NEW stop \in SUBSET Slots, NEW k \in Nat, Reserves(stop, k)
    PROVE  /\ worker' \in [Slots -> WorkerType]
           /\ \A s \in Slots :
                \/ /\ s >= nextSlot /\ s < nextSlot + k /\ worker'[s].st = "booting"
                   /\ worker'[s].n = 0 /\ ~worker'[s].used
                   /\ spawn'[s] = "queued" /\ term'[s] = "none" /\ Untouched(s)
                \/ /\ s \in stop /\ s < nextSlot /\ worker'[s].st = "draining"
                   /\ worker[s].st \in {"running", "suspended"}
                   /\ worker'[s].n = 0 /\ worker[s].n = 0 /\ ~worker'[s].used
                   /\ spawn'[s] = spawn[s]
                   /\ term'[s] = IF term[s] = "none" THEN "queued" ELSE term[s]
                \/ /\ s \notin stop /\ (s < nextSlot \/ s >= nextSlot + k)
                   /\ worker'[s] = worker[s] /\ spawn'[s] = spawn[s] /\ term'[s] = term[s]
<1> DEFINE new == nextSlot .. nextSlot + k - 1
           w == [NoWorker EXCEPT !.st = "booting", !.spare = TRUE]
<1>1. /\ worker \in [Slots -> WorkerType] /\ nextSlot \in Nat /\ Slots \subseteq Nat
      /\ term \in [Slots -> {"none", "queued", "blind", "stopped"}]
  BY PoolAssumption DEF RoutingInv, TypeOK, Slots
<1>2. w \in WorkerType /\ w.st = "booting" /\ w.n = 0 /\ w.used = FALSE
  BY DEF NoWorker, WorkerType
<1>3. worker' = [s \in Slots |-> IF s \in new THEN w
                                 ELSE IF s \in stop THEN [worker[s] EXCEPT !.st = "draining"]
                                 ELSE worker[s]]
  BY DEF Reserves
<1>4. \A s \in Slots : /\ spawn'[s] = IF s \in new THEN "queued" ELSE spawn[s]
                       /\ term'[s] = Dispatch(stop)[s]
  BY DEF Reserves
<1>5. stop \subseteq Retireable
  BY DEF Reserves
<1> HIDE DEF w
<1>6. ASSUME NEW s \in Slots, s \in new
      PROVE  /\ s >= nextSlot /\ s < nextSlot + k /\ Untouched(s) /\ s \notin stop
             /\ worker'[s] = w /\ spawn'[s] = "queued" /\ term'[s] = "none"
  <2>1. s >= nextSlot /\ s < nextSlot + k
    BY <1>1, <1>6
  <2>2. Untouched(s)
    BY <2>1 DEF RoutingInv, Fresh
  <2>3. s \notin stop
    BY <1>5, <2>2 DEF Retireable, Untouched, NoWorker
  <2> QED
    BY <1>3, <1>4, <1>6, <2>1, <2>2, <2>3 DEF Dispatch, Untouched
<1>7. ASSUME NEW s \in Slots, s \notin new, s \in stop
      PROVE  /\ s < nextSlot /\ worker'[s] \in WorkerType /\ worker'[s].st = "draining"
             /\ worker[s].st \in {"running", "suspended"}
             /\ worker'[s].n = 0 /\ worker[s].n = 0 /\ ~worker'[s].used
             /\ spawn'[s] = spawn[s]
             /\ term'[s] = IF term[s] = "none" THEN "queued" ELSE term[s]
  <2>1. worker[s].st \in {"running", "suspended"} /\ worker[s].n = 0 /\ worker[s].used = FALSE
    <3>1. worker[s].used \in BOOLEAN
      BY <1>1 DEF WorkerType
    <3> QED
      BY <1>5, <1>7, <3>1 DEF Retireable, Spares
  <2>2. worker'[s] = [worker[s] EXCEPT !.st = "draining"] /\ worker[s] \in WorkerType
    BY <1>1, <1>3, <1>7
  <2>3. s < nextSlot
    BY <1>1, <2>1 DEF RoutingInv, Fresh, Untouched, NoWorker
  <2>4. worker'[s] \in WorkerType /\ worker'[s].st = "draining" /\ worker'[s].n = 0
    BY <2>1, <2>2 DEF WorkerType
  <2>5. worker'[s].used = FALSE
    BY <2>1, <2>2 DEF WorkerType
  <2> QED
    BY <1>4, <1>7, <2>1, <2>3, <2>4, <2>5 DEF Dispatch
<1>8. ASSUME NEW s \in Slots, s \notin new, s \notin stop
      PROVE  /\ s < nextSlot \/ s >= nextSlot + k
             /\ worker'[s] = worker[s] /\ spawn'[s] = spawn[s] /\ term'[s] = term[s]
  BY <1>1, <1>3, <1>4, <1>8 DEF Dispatch
<1>9. worker' \in [Slots -> WorkerType]
  <2>1. worker' = [s \in Slots |-> worker'[s]]
    BY <1>3
  <2>2. \A s \in Slots : worker'[s] \in WorkerType
    BY <1>1, <1>2, <1>6, <1>7, <1>8
  <2> QED
    BY <2>1, <2>2
<1> QED
  BY <1>2, <1>6, <1>7, <1>8, <1>9

-----------------------------------------------------------------------------
(* The types hold throughout.                                              *)

\* What a step leaves alone keeps its type.
LEMMA Kept ==
    /\ UNCHANGED <<open, nextSlot, base, target, op, events, recon, retry>> /\ PoolType
         => PoolType'
    /\ UNCHANGED <<bind, late, req>> /\ ClientType => ClientType'
    /\ UNCHANGED <<proc, left, consumed, life, spawn, resume, term>> /\ TaskType => TaskType'
BY DEF PoolType, ClientType, TaskType

\* A stop that the runtime obeys or refuses.
LEMMA StopEffect ==
    ASSUME TypeOK, NEW s \in Slots, NEW gone \in BOOLEAN, StopWorker(s, gone)
    PROVE  /\ proc' \subseteq Slots /\ left' \subseteq Slots /\ events' \in 0 .. MaxEvents
           /\ proc' \subseteq proc /\ proc \ {s} \subseteq proc'
           /\ left \ {s} \subseteq left' /\ left' \subseteq left \cup {s}
           /\ s \notin proc' \/ s \in left'
BY PoolAssumption DEF StopWorker, Event, TypeOK

\* The steps of requests and timers keep the types.
LEMMA ClientTypes ==
    ASSUME RoutingInv,
           (\E r \in Requests : Serve(r)) \/ (\E c \in Clients : Grace(c))
    PROVE  TypeOK'
<1>1. PoolType /\ ClientType /\ TaskType /\ worker \in [Slots -> WorkerType]
  BY TypesInParts DEF RoutingInv
<1>2. ASSUME NEW r \in Requests, NEW c \in Clients, Arrive(r, c)
      PROVE  TypeOK'
  <2>1. ClientType'
    BY <1>1, <1>2, ArriveEffect DEF Arrives, Opens, Sets, ClientType, Arrive
  <2> QED
    BY <1>1, <1>2, <2>1, Kept, TypesNext DEF Arrive
<1>3. ASSUME NEW r \in Requests, BindRoute(r)
      PROVE  TypeOK'
  <2>1. ClientType'
    BY <1>1, <1>3, BindRouteEffect DEF Clears, Connected, Opens, Sets, OneBinds, ClientType,
           BindRoute
  <2>2. worker' \in [Slots -> WorkerType]
    BY <1>1, <1>3, BindRouteEffect DEF Binds
  <2>3. recon' \in BOOLEAN /\ consumed' \subseteq Slots
    BY <1>1, <1>3, BindRouteEffect DEF PoolType, TaskType
  <2>4. PoolType' /\ TaskType'
    BY <1>1, <1>3, <2>3 DEF PoolType, TaskType, BindRoute
  <2> QED
    BY <2>1, <2>2, <2>4, TypesNext
<1>4. ASSUME NEW r \in Requests, PlaceClient(r)
      PROVE  TypeOK'
  <2> DEFINE c == req[r].c
  <2>1. c \in Clients /\ Clears(r) /\ Places(c) /\ recon' \in BOOLEAN
    BY <1>4, PlaceEffect, SMTT(30)
  <2>2. /\ worker' \in [Slots -> WorkerType]
        /\ bind' \in [Clients -> BindingType]
    BY <1>1, <2>1 DEF Places, Waits, Binds, OneBinds, ClientType
  <2>3. late' \in [Clients -> [fresh : BOOLEAN, stale : BOOLEAN]]
    <3>1. CASE late' = late
      BY <1>1, <3>1 DEF ClientType
    <3>2. CASE late' = [late EXCEPT ![c] = [fresh |-> FALSE,
                           stale |-> late[c].fresh \/ late[c].stale]]
      <4> DEFINE x == late[c].fresh \/ late[c].stale
      <4>1. x \in BOOLEAN /\ late' = [late EXCEPT ![c] = [fresh |-> FALSE, stale |-> x]]
        BY <3>2
      <4> HIDE DEF x
      <4> QED
        BY <1>1, <4>1 DEF ClientType
    <3> QED
      BY <2>1, <3>1, <3>2 DEF Places, Waits
  <2>4. ClientType'
    BY <1>1, <2>1, <2>2, <2>3 DEF Clears, Sets, ClientType
  <2>5. nextSlot' \in 0 .. MaxSlots /\ nextSlot' >= nextSlot
    BY <1>1, <2>1, PoolAssumption DEF Places, PoolType, Slots
  <2>6. /\ spawn' \in [Slots -> {"none", "queued", "booting", "freezing", "registered"}]
        /\ resume' \in [Slots -> {"none", "queued", "thawing"}]
        /\ term' = term
    BY <1>1, <2>1 DEF Places, Waits, TaskType
  <2>7. PoolType'
    BY <1>1, <1>4, <2>1, <2>5, PoolAssumption DEF PoolType, PlaceClient
  <2>8. TaskType'
    BY <1>1, <1>4, <2>6 DEF TaskType, PlaceClient
  <2> QED
    BY <2>2, <2>4, <2>7, <2>8, TypesNext
<1>5. ASSUME NEW r \in Requests, ConnClosed(r)
      PROVE  TypeOK'
  <2>1. Clears(r)
    BY <1>5, ClearEffect DEF ConnClosed, RoutingInv
  <2>2. bind' \in [Clients -> BindingType]
    <3> DEFINE c == req[r].c
    <3>1. CASE req[r].own /\ Bound(c) /\ bind[c].live > 0
      <4>1. c \in Clients /\ bind[c] \in BindingType
        BY <1>1, <3>1 DEF RoutingInv, ReqInv, ClientType
      <4> DEFINE live == bind[c].live - 1
                 u == [bind[c] EXCEPT !.live = live]
                 timer == IF live = 0 /\ bind[c].timer = "none" THEN "armed" ELSE bind[c].timer
                 v == [u EXCEPT !.timer = timer]
      <4>2. u \in BindingType /\ u.timer = bind[c].timer /\ timer \in {"none", "armed", "spent"}
        BY <3>1, <4>1 DEF BindingType
      <4>3. bind' = [bind EXCEPT ![c] = v]
        BY <1>5, <3>1, <4>1, <1>1 DEF ConnClosed, ClientType, BindingType
      <4>4. v \in BindingType
        <5> HIDE DEF u, timer
        <5> QED
          BY <4>2 DEF BindingType
      <4> HIDE DEF v
      <4> QED
        BY <1>1, <4>3, <4>4 DEF ClientType
    <3>2. CASE ~(req[r].own /\ Bound(c) /\ bind[c].live > 0)
      BY <1>1, <1>5, <3>2 DEF ConnClosed, ClientType
    <3> QED
      BY <3>1, <3>2
  <2>3. ClientType'
    BY <1>1, <1>5, <2>1, <2>2 DEF Clears, Sets, ClientType, ConnClosed
  <2> QED
    BY <1>1, <1>5, <2>3, Kept, TypesNext DEF ConnClosed
<1>6. ASSUME NEW c \in Clients, GraceTimerFires(c)
      PROVE  TypeOK'
  <2>1. ClientType'
    BY <1>1, <1>6 DEF GraceTimerFires, ClientType, BindingType
  <2> QED
    BY <1>1, <1>6, <2>1, Kept, TypesNext DEF GraceTimerFires
<1>7. ASSUME NEW c \in Clients, GraceExpiry(c)
      PROVE  TypeOK'
  <2>1. ClientType' /\ worker' \in [Slots -> WorkerType]
    BY <1>1, <1>7, GraceEffect DEF Retimes, LateOf, Frees, ClientType
  <2>2. term' \in [Slots -> {"none", "queued", "blind", "stopped"}]
    <3>1. Emptied(bind[c].slot) \in SUBSET Slots
      BY DEF Emptied
    <3> QED
      BY <1>1, <1>7, <3>1, GraceEffect, DispatchEffect DEF Frees, TaskType, RoutingInv
  <2>3. PoolType' /\ TaskType'
    BY <1>1, <1>7, <2>2 DEF PoolType, TaskType, GraceExpiry
  <2> QED
    BY <2>1, <2>3, TypesNext
<1>8. ASSUME NEW c \in Clients, StaleExpiry(c)
      PROVE  TypeOK'
  <2>1. ClientType'
    BY <1>1, <1>8 DEF StaleExpiry, ClientType, routing
  <2> QED
    BY <1>1, <1>8, <2>1, Kept, TypesNext DEF StaleExpiry, routing
<1> QED
  BY <1>2, <1>3, <1>4, <1>5, <1>6, <1>7, <1>8 DEF Serve, Grace

\* The steps of the spawner keep the types.
LEMMA WorkerTypes ==
    ASSUME RoutingInv, NEW s \in Slots, Spawn(s) \/ Resume(s) \/ Terminate(s) \/ Backstop(s)
          \/ ProcessExits(s)
    PROVE  TypeOK'
<1>1. PoolType /\ ClientType /\ TaskType /\ worker \in [Slots -> WorkerType]
  BY TypesInParts DEF RoutingInv
<1>2. ASSUME NEW S \in SUBSET Slots, Removes(S)
      PROVE  ClientType' /\ worker' \in [Slots -> WorkerType]
  BY <1>2 DEF Removes, ClientType
<1>3. ASSUME NEW st \in States, Moves(s, st)
      PROVE  worker' \in [Slots -> WorkerType]
  BY <1>3 DEF Moves
<1>4. ASSUME ReleaseReservation(s)
      PROVE  /\ ClientType' /\ worker' \in [Slots -> WorkerType]
             /\ retry' \in {"off", "armed", "stale"}
  <2>1. Removes({s})
    BY <1>4, RemoveEffect DEF ReleaseReservation, RoutingInv
  <2> QED
    BY <1>1, <1>2, <1>4, <2>1 DEF ReleaseReservation, PoolType
<1>5. CASE SpawnRefused(s)
  BY <1>1, <1>4, <1>5, TypesNext DEF SpawnRefused, PoolType, TaskType
<1>6. CASE SpawnStart(s)
  <2>1. PoolType' /\ ClientType' /\ TaskType' /\ worker' = worker
    BY <1>1, <1>6 DEF SpawnStart, PoolType, TaskType, ClientType, routing
  <2> QED
    BY <1>1, <2>1, TypesNext
<1>7. CASE SpawnFails(s)
  <2>1. proc' \subseteq Slots /\ left' \subseteq Slots /\ events' \in 0 .. MaxEvents
    BY <1>7, StopEffect DEF SpawnFails, RoutingInv
  <2>2. PoolType' /\ TaskType'
    BY <1>1, <1>4, <1>7, <2>1 DEF SpawnFails, PoolType, TaskType
  <2> QED
    BY <1>4, <1>7, <2>2, TypesNext DEF SpawnFails
<1>8. CASE SpareSuspend(s)
  <2>1. Moves(s, "suspending")
    BY <1>8, MoveEffect DEF SpareSuspend, States, RoutingInv
  <2>2. PoolType' /\ TaskType' /\ ClientType'
    BY <1>1, <1>8 DEF SpareSuspend, PoolType, TaskType, ClientType
  <2> QED
    BY <2>1, <2>2, TypesNext DEF Moves
<1>9. CASE SpawnRegister(s)
  <2>1. Registers(s, "running") \/ Registers(s, "suspended")
    BY <1>9, RegisterEffect DEF SpawnRegister, RoutingInv
  <2>2. PoolType' /\ TaskType'
    BY <1>1, <1>9 DEF SpawnRegister, PoolType, TaskType
  <2>3. ClientType' /\ worker' \in [Slots -> WorkerType]
    BY <1>1, <1>9, <2>1 DEF SpawnRegister, Registers, Moves, ClientType
  <2> QED
    BY <2>2, <2>3, TypesNext
<1>10. CASE SpawnFinish(s)
  <2>1. PoolType' /\ ClientType' /\ TaskType' /\ worker' = worker
    BY <1>1, <1>10 DEF SpawnFinish, PoolType, TaskType, ClientType, routing, ArmLifetime
  <2> QED
    BY <1>1, <2>1, TypesNext
<1>11. CASE ResumeStart(s)
  <2>1. PoolType' /\ ClientType' /\ TaskType' /\ worker' = worker
    BY <1>1, <1>11 DEF ResumeStart, PoolType, TaskType, ClientType, routing
  <2> QED
    BY <1>1, <2>1, TypesNext
<1>12. CASE ResumeDone(s)
  <2>1. PoolType' /\ ClientType' /\ TaskType'
    BY <1>1, <1>12 DEF ResumeDone, PoolType, TaskType, ClientType, ArmLifetime
  <2> QED
    BY <1>12, <2>1, ResumeEffect, TypesNext DEF Moves, RoutingInv
<1>13. CASE ResumeFails(s)
  <2>1. term' \in [Slots -> {"none", "queued", "blind", "stopped"}]
    BY <1>13, DispatchEffect DEF ResumeFails, RoutingInv
  <2>2. PoolType' /\ ClientType' /\ TaskType' /\ worker' = worker
    BY <1>1, <1>13, <2>1 DEF ResumeFails, PoolType, TaskType, ClientType, routing
  <2> QED
    BY <1>1, <2>2, TypesNext
<1>14. CASE TerminateStop(s)
  <2>1. proc' \subseteq Slots /\ left' \subseteq Slots /\ events' \in 0 .. MaxEvents
    BY <1>1, <1>14, StopEffect DEF TerminateStop, RoutingInv, TaskType, PoolType
  <2>2. PoolType' /\ ClientType' /\ TaskType' /\ worker' = worker
    BY <1>1, <1>14, <2>1 DEF TerminateStop, PoolType, TaskType, ClientType, routing
  <2> QED
    BY <1>1, <2>2, TypesNext
<1>15. CASE TerminateDeregister(s)
  <2>1. Removes({s})
    BY <1>15, RemoveEffect DEF TerminateDeregister, RoutingInv
  <2>2. PoolType' /\ TaskType'
    BY <1>1, <1>15 DEF TerminateDeregister, PoolType, TaskType
  <2> QED
    BY <1>2, <2>1, <2>2, TypesNext
<1>16. CASE ExpireLifetime(s)
  <2>1. term' \in [Slots -> {"none", "queued", "blind", "stopped"}]
    BY <1>1, <1>16, DispatchEffect DEF ExpireLifetime, RoutingInv, TaskType
  <2>2. PoolType' /\ ClientType' /\ TaskType' /\ worker' = worker
    BY <1>1, <1>16, <2>1 DEF ExpireLifetime, PoolType, TaskType, ClientType, routing
  <2> QED
    BY <1>1, <2>2, TypesNext
<1>17. CASE WarmSpareConsumed(s)
  <2>1. PoolType' /\ ClientType' /\ TaskType' /\ worker' = worker
    BY <1>1, <1>17 DEF WarmSpareConsumed, PoolType, TaskType, ClientType, routing, ArmLifetime
  <2> QED
    BY <1>1, <2>1, TypesNext
<1>18. CASE ProcessExits(s)
  <2>1. PoolType' /\ ClientType' /\ TaskType' /\ worker' = worker
    BY <1>1, <1>18, PoolAssumption DEF ProcessExits, Event, PoolType, TaskType, ClientType,
       routing
  <2> QED
    BY <1>1, <2>1, TypesNext
<1> QED
  BY <1>5, <1>6, <1>7, <1>8, <1>9, <1>10, <1>11, <1>12, <1>13, <1>14, <1>15, <1>16, <1>17,
     <1>18 DEF Spawn, Resume, Terminate, Backstop

\* The operations on the whole app keep the types.
Whole ==
    \/ Reconcile \/ WarmRetryFires \/ StopApp \/ Hibernate \/ OpenPool
    \/ BeginSettingsDrain \/ SettingsDrainAborted \/ SetPoolWarmSpares

\* They keep the types.
LEMMA WholeTypes ==
    ASSUME RoutingInv, Whole
    PROVE  TypeOK'
<1>1. PoolType /\ ClientType /\ TaskType /\ worker \in [Slots -> WorkerType]
  BY TypesInParts DEF RoutingInv
<1>2. ASSUME NEW S \in SUBSET Slots, Removes(S)
      PROVE  ClientType' /\ worker' \in [Slots -> WorkerType]
  BY <1>2 DEF Removes, ClientType
<1>3. CASE Reconcile
  <2>1. CASE UNCHANGED <<nextSlot, worker, spawn, term>>
    <3>1. PoolType' /\ TaskType' /\ ClientType'
      BY <1>1, <1>3, <2>1 DEF Reconcile, PoolType, TaskType, ClientType
    <3> QED
      BY <1>1, <2>1, <3>1, TypesNext
  <2>2. ASSUME NEW stop \in SUBSET Slots, NEW k \in Nat, Reserves(stop, k)
        PROVE  TypeOK'
    <3>1. /\ worker' \in [Slots -> WorkerType] /\ nextSlot' \in 0 .. MaxSlots
          /\ nextSlot' >= nextSlot
      BY <1>1, <2>2, ReservedSlots, PoolAssumption DEF Reserves, PoolType
    <3>2. /\ term' \in [Slots -> {"none", "queued", "blind", "stopped"}]
          /\ spawn' \in [Slots -> {"none", "queued", "booting", "freezing", "registered"}]
      BY <1>1, <2>2, DispatchEffect DEF Reserves, TaskType, RoutingInv
    <3>3. TaskType' /\ ClientType'
      BY <1>1, <1>3, <3>2 DEF Reconcile, TaskType, ClientType
    <3>4. UNCHANGED <<open, base, target, op, events, retry>> /\ recon' = FALSE
      BY <1>3 DEF Reconcile
    <3>5. PoolType'
      <4>1. base' \in 0 .. nextSlot'
        BY <1>1, <3>1, <3>4, PoolAssumption DEF PoolType
      <4> QED
        BY <1>1, <3>1, <3>4, <4>1 DEF PoolType
    <3> QED
      BY <3>1, <3>3, <3>5, TypesNext
  <2> QED
    BY <1>3, <2>1, <2>2, ReserveEffect
<1>4. CASE WarmRetryFires
  <2>1. PoolType' /\ ClientType' /\ TaskType' /\ worker' = worker
    BY <1>1, <1>4 DEF WarmRetryFires, PoolType, TaskType, ClientType, routing
  <2> QED
    BY <1>1, <2>1, TypesNext
<1>5. ASSUME DropPool
      PROVE  /\ ClientType' /\ worker' \in [Slots -> WorkerType]
             /\ open' \in BOOLEAN /\ base' \in 0 .. nextSlot /\ nextSlot' = nextSlot
             /\ retry' \in {"off", "armed", "stale"}
  <2>1. Removes(Slots)
    BY <1>5, RemoveEffect DEF DropPool, RoutingInv
  <2>2. /\ open' \in BOOLEAN /\ base' = nextSlot /\ nextSlot' = nextSlot
        /\ retry' \in {"off", "armed", "stale"}
    BY <1>1, <1>5 DEF DropPool, PoolType
  <2>3. nextSlot \in 0 .. nextSlot
    BY <1>1, PoolAssumption DEF PoolType
  <2> QED
    BY <1>2, <2>1, <2>2, <2>3
<1>6. CASE StopApp
  <2>1. /\ term' \in [Slots -> {"none", "queued", "blind", "stopped"}]
        /\ events' \in 0 .. MaxEvents
    BY <1>1, <1>6, DispatchEffect, PoolAssumption DEF StopApp, RoutingInv, Event, PoolType
  <2>2. PoolType' /\ TaskType'
    BY <1>1, <1>5, <1>6, <2>1 DEF StopApp, DropPool, PoolType, TaskType
  <2> QED
    BY <1>5, <1>6, <2>2, TypesNext DEF StopApp
<1>7. CASE Hibernate
  <2>1. events' \in 0 .. MaxEvents
    BY <1>1, <1>7, PoolAssumption DEF Hibernate, Event, PoolType
  <2>2. PoolType' /\ TaskType'
    BY <1>1, <1>5, <1>7, <2>1 DEF Hibernate, DropPool, PoolType, TaskType
  <2> QED
    BY <1>5, <1>7, <2>2, TypesNext DEF Hibernate
<1>8. CASE OpenPool
  <2>1. PoolType' /\ ClientType' /\ TaskType' /\ worker' = worker
    BY <1>1, <1>8 DEF OpenPool, PoolType, TaskType, ClientType
  <2> QED
    BY <1>1, <2>1, TypesNext
<1>9. CASE BeginSettingsDrain
  <2>1. PoolType' /\ ClientType' /\ TaskType' /\ worker' = worker
    BY <1>1, <1>9, PoolAssumption DEF BeginSettingsDrain, Event, PoolType, TaskType, ClientType,
           routing
  <2> QED
    BY <1>1, <2>1, TypesNext
<1>10. CASE SettingsDrainAborted
  <2>1. PICK keep \in SUBSET proc :
          /\ proc' = keep /\ left' = left \cap keep
          /\ worker' = Without({s \in proc \ keep : worker[s].st # "none"})
          /\ Unbind({s \in proc \ keep : worker[s].st # "none"})
          /\ life' = life \ {s \in proc \ keep : worker[s].st # "none"}
    BY <1>10 DEF SettingsDrainAborted
  <2>2. {s \in proc \ keep : worker[s].st # "none"} \in SUBSET Slots
    BY <1>1 DEF TaskType
  <2>3. Removes({s \in proc \ keep : worker[s].st # "none"})
    BY <2>1, <2>2, RemoveEffect DEF RoutingInv
  <2>4. PoolType' /\ TaskType'
    BY <1>1, <1>10, <2>1 DEF SettingsDrainAborted, PoolType, TaskType
  <2> QED
    BY <1>2, <2>2, <2>3, <2>4, TypesNext
<1>11. CASE SetPoolWarmSpares
  <2>1. PoolType' /\ ClientType' /\ TaskType' /\ worker' = worker
    BY <1>1, <1>11, PoolAssumption DEF SetPoolWarmSpares, Event, PoolType, TaskType, ClientType,
           routing
  <2> QED
    BY <1>1, <2>1, TypesNext
<1> QED
  BY <1>3, <1>4, <1>6, <1>7, <1>8, <1>9, <1>10, <1>11 DEF Whole

\* Every step keeps the types.
LEMMA TypeStep ==
    ASSUME RoutingInv, Next
    PROVE  TypeOK'
BY ClientTypes, WorkerTypes, WholeTypes DEF Next, Whole

-----------------------------------------------------------------------------
(* Nothing touches a slot number that has not been given out.              *)

\* What touches a slot is about one that was given out.
LEMMA Issued ==
    ASSUME TypeOK, Fresh, NEW s \in Slots, ~Untouched(s)
    PROVE  s < nextSlot
BY PoolAssumption DEF Fresh, TypeOK, Slots

\* Every other slot number keeps what it was.
FreshOther(S) == \A t \in Slots \ S : Untouched(t) => Untouched(t)'

\* A step about slots that are given out keeps the others as they were.
LEMMA FreshKept ==
    ASSUME TypeOK, Fresh, NEW S, \A s \in S \cap Slots : s < nextSlot',
           FreshOther(S), nextSlot' \in Nat, nextSlot' >= nextSlot
    PROVE  Fresh'
<1>1. Slots \subseteq Nat /\ nextSlot \in Nat
  BY PoolAssumption DEF TypeOK, Slots
<1>2. ASSUME NEW t \in Slots, t >= nextSlot'
      PROVE  Untouched(t)'
  <2>1. t >= nextSlot /\ t \notin S
    BY <1>1, <1>2
  <2> QED
    BY <2>1 DEF Fresh, FreshOther
<1> QED
  BY <1>2 DEF Fresh

\* Requests and timers touch the slots of workers, or the one they give out.
LEMMA ClientFresh ==
    ASSUME RoutingInv, TypeOK',
           (\E r \in Requests : Serve(r)) \/ (\E c \in Clients : Grace(c))
    PROVE  Fresh'
<1>1. nextSlot \in Nat /\ nextSlot' \in Nat /\ Slots \subseteq Nat /\ TypeOK /\ Fresh
  BY PoolAssumption DEF RoutingInv, TypeOK, Slots
<1>2. CASE UNCHANGED <<nextSlot, worker, proc, consumed, life, spawn, resume, term>>
  BY <1>2 DEF RoutingInv, Fresh, Untouched
<1>3. ASSUME NEW r \in Requests, BindRoute(r)
      PROVE  Fresh'
  <2> DEFINE s == req[r].s
  <2>1. UNCHANGED <<nextSlot, proc, life, spawn, resume, term>> /\ s \in Slots
    BY <1>3, BindRouteEffect DEF BindRoute
  <2>2. CASE worker' = worker /\ consumed' = consumed
    BY <1>2, <2>1, <2>2
  <2>3. CASE Serves(s) /\ Binds(req[r].c, s, "running")
               /\ consumed' \in {consumed, consumed \cup {s}}
    <3>1. ~Untouched(s)
      BY <2>3 DEF Serves, Untouched, NoWorker
    <3>2. s < nextSlot
      BY <1>1, <2>1, <3>1, Issued
    <3>3. FreshOther({s})
      BY <2>1, <2>3 DEF FreshOther, Untouched, Binds
    <3> QED
      BY <1>1, <2>1, <3>2, <3>3, FreshKept
  <2> QED
    BY <1>3, <2>2, <2>3, BindRouteEffect
<1>4. ASSUME NEW r \in Requests, PlaceClient(r)
      PROVE  Fresh'
  <2> DEFINE c == req[r].c
  <2>1. UNCHANGED <<proc, consumed, life>> /\ Places(c)
    BY <1>4, PlaceEffect DEF PlaceClient
  <2>2. CASE UNCHANGED <<nextSlot, worker, bind, late, spawn, resume, term>>
    BY <1>2, <2>1, <2>2
  <2>3. ASSUME NEW s \in Slots, worker[s].st # "none", worker'[s].n >= 0, nextSlot' = nextSlot,
               \A t \in Slots \ {s} : worker'[t] = worker[t],
               spawn' = spawn, term' = term, \A t \in Slots \ {s} : resume'[t] = resume[t]
        PROVE  Fresh'
    <3>1. ~Untouched(s)
      BY <2>3 DEF Untouched, NoWorker
    <3>2. s < nextSlot
      BY <1>1, <3>1, Issued
    <3>3. FreshOther({s})
      BY <2>1, <2>3 DEF FreshOther, Untouched
    <3> QED
      BY <1>1, <2>3, <3>2, <3>3, FreshKept
  <2>4. ASSUME NEW s \in Slots, NEW st \in {"running", "booting", "resuming"},
               Waits(c, s, st, IF st = "running" THEN "armed" ELSE "none"),
               worker[s].st = st, UNCHANGED <<nextSlot, spawn, resume>>
        PROVE  Fresh'
    BY <1>1, <2>3, <2>4 DEF Waits, Binds, WorkerType
  <2>5. ASSUME NEW s \in Slots, Waits(c, s, "resuming", "none"), worker[s].st = "suspended",
               resume' = [resume EXCEPT ![s] = "queued"], UNCHANGED <<nextSlot, spawn>>
        PROVE  Fresh'
    BY <1>1, <2>3, <2>5 DEF Waits, Binds, WorkerType, TypeOK
  <2>6. CASE /\ Waits(c, nextSlot, "booting", "none") /\ nextSlot \in Slots
             /\ nextSlot' = nextSlot + 1
             /\ spawn' = [spawn EXCEPT ![nextSlot] = "queued"] /\ resume' = resume
    <3>1. FreshOther({nextSlot})
      BY <1>1, <2>1, <2>6 DEF FreshOther, Untouched, Waits, Binds, TypeOK
    <3>2. nextSlot < nextSlot' /\ nextSlot' >= nextSlot
      BY <1>1, <2>6
    <3> QED
      BY <1>1, <3>1, <3>2, FreshKept
  <2> QED
    BY <2>1, <2>2, <2>4, <2>5, <2>6 DEF Places
<1>5. ASSUME NEW c \in Clients, GraceExpiry(c)
      PROVE  Fresh'
  <2> DEFINE s == bind[c].slot
  <2>1. /\ UNCHANGED <<nextSlot, proc, consumed, life, spawn, resume>> /\ Bound(c)
        /\ (worker' = worker /\ term' = term) \/ Frees(c, s)
    BY <1>5, GraceEffect DEF GraceExpiry
  <2>2. CASE worker' = worker /\ term' = term
    BY <1>2, <2>1, <2>2
  <2>3. CASE Frees(c, s)
    <3>1. ~Untouched(s) /\ s \in Slots
      BY <1>1, <2>1, Routable DEF Untouched, NoWorker, RoutingInv
    <3>2. s < nextSlot
      BY <1>1, <3>1, Issued
    <3>3. FreshOther({s})
      BY <2>1, <2>3 DEF FreshOther, Untouched, Frees, Emptied, Dispatch
    <3> QED
      BY <1>1, <2>1, <3>2, <3>3, FreshKept
  <2> QED
    BY <2>1, <2>2, <2>3
<1>6. ASSUME NEW r \in Requests, NEW c \in Clients, Arrive(r, c)
      PROVE  Fresh'
  BY <1>2, <1>6 DEF Arrive
<1>7. ASSUME NEW r \in Requests, ConnClosed(r)
      PROVE  Fresh'
  BY <1>2, <1>7 DEF ConnClosed
<1>8. ASSUME NEW c \in Clients, GraceTimerFires(c) \/ StaleExpiry(c)
      PROVE  Fresh'
  BY <1>2, <1>8 DEF GraceTimerFires, StaleExpiry, routing
<1> QED
  BY <1>3, <1>4, <1>5, <1>6, <1>7, <1>8 DEF Serve, Grace

\* The spawner touches a slot that something was under way for.
LEMMA WorkerFresh ==
    ASSUME RoutingInv, TypeOK', NEW s \in Slots,
           Spawn(s) \/ Resume(s) \/ Terminate(s) \/ Backstop(s) \/ ProcessExits(s)
    PROVE  Fresh'
<1>1. nextSlot \in Nat /\ nextSlot' \in Nat /\ Slots \subseteq Nat /\ TypeOK /\ Fresh /\ ReqInv
  BY PoolAssumption DEF RoutingInv, TypeOK, Slots
<1>2. ~Untouched(s) /\ nextSlot' = nextSlot
  BY DEF Untouched, Spawn, Resume, Terminate, Backstop, SpawnRefused, SpawnStart, SpawnFails,
         SpareSuspend, SpawnRegister, SpawnFinish, ResumeStart, ResumeDone, ResumeFails,
         TerminateStop, TerminateDeregister, ExpireLifetime, WarmSpareConsumed, ProcessExits,
         routing
<1>3. s < nextSlot
  BY <1>1, <1>2, Issued
<1>4. FreshOther({s})
  <2>1. CASE SpawnRefused(s) \/ SpawnFails(s) \/ TerminateDeregister(s)
    <3>1. \A t \in Slots \ {s} : worker'[t] = worker[t]
      BY <2>1 DEF SpawnRefused, SpawnFails, TerminateDeregister, ReleaseReservation, Without
    <3>2. \A t \in Slots \ {s} : t \notin proc => t \notin proc'
      BY <2>1 DEF SpawnRefused, SpawnFails, TerminateDeregister, StopWorker
    <3> QED
      BY <1>1, <2>1, <3>1, <3>2 DEF FreshOther, Untouched, SpawnRefused, SpawnFails,
         TerminateDeregister, TypeOK
  <2>2. CASE SpawnStart(s) \/ SpawnFinish(s) \/ ResumeStart(s) \/ WarmSpareConsumed(s)
              \/ ProcessExits(s)
    BY <1>1, <2>2 DEF FreshOther, Untouched, SpawnStart, SpawnFinish, ResumeStart,
           WarmSpareConsumed, ProcessExits, ArmLifetime, routing, TypeOK
  <2>3. CASE SpareSuspend(s) \/ SpawnRegister(s) \/ ResumeDone(s)
    BY <1>1, <2>3 DEF FreshOther, Untouched, SpareSuspend, SpawnRegister, ResumeDone, Register,
           ArmLifetime, TypeOK
  <2>4. CASE ResumeFails(s) \/ ExpireLifetime(s)
    BY <1>1, <2>4 DEF FreshOther, Untouched, ResumeFails, ExpireLifetime, Dispatch, routing,
       TypeOK
  <2>5. CASE TerminateStop(s)
    BY <1>1, <2>5 DEF FreshOther, Untouched, TerminateStop, StopWorker, routing, TypeOK
  <2> QED
    BY <2>1, <2>2, <2>3, <2>4, <2>5 DEF Spawn, Resume, Terminate, Backstop
<1> QED
  BY <1>1, <1>2, <1>3, <1>4, FreshKept

\* The whole app: the reconcile reserves the next numbers, the rest removes.
LEMMA WholeFresh ==
    ASSUME RoutingInv, TypeOK', Whole
    PROVE  Fresh'
<1>1. nextSlot \in Nat /\ nextSlot' \in Nat /\ Slots \subseteq Nat /\ TypeOK /\ Fresh /\ ReqInv
  BY PoolAssumption DEF RoutingInv, TypeOK, Slots
<1>2. CASE UNCHANGED <<nextSlot, worker, proc, consumed, life, spawn, resume, term>>
  BY <1>2 DEF RoutingInv, Fresh, Untouched
<1>3. CASE Reconcile
  <2>1. UNCHANGED <<proc, consumed, life, resume>>
    BY <1>3 DEF Reconcile
  <2>2. CASE UNCHANGED <<nextSlot, worker, spawn, term>>
    BY <1>2, <2>1, <2>2
  <2>3. ASSUME NEW stop \in SUBSET Slots, NEW k \in Nat, Reserves(stop, k)
        PROVE  Fresh'
    <3>1. nextSlot' = nextSlot + k
      BY <2>3 DEF Reserves
    <3>2. ASSUME NEW t \in Slots, t >= nextSlot'
          PROVE  Untouched(t)'
      <4>1. worker'[t] = worker[t] /\ spawn'[t] = spawn[t] /\ term'[t] = term[t]
        <5>1. ~(t < nextSlot) /\ ~(t < nextSlot + k)
          BY <1>1, <3>1, <3>2
        <5> QED
          BY <2>3, <5>1, ReservedSlots
      <4>2. Untouched(t)
        BY <1>1, <3>1, <3>2 DEF Fresh
      <4> QED
        BY <2>1, <4>1, <4>2 DEF Untouched
    <3> QED
      BY <3>2 DEF Fresh
  <2> QED
    BY <1>3, <2>2, <2>3, ReserveEffect
<1>4. CASE StopApp \/ Hibernate
  <2>1. ASSUME NEW t \in Slots, Untouched(t)
        PROVE  Untouched(t)'
    <3>1. worker'[t] = NoWorker /\ UNCHANGED <<consumed, life, spawn, resume>> /\ t \notin proc'
      BY <1>4, <2>1 DEF StopApp, Hibernate, DropPool, Without, Untouched
    <3>2. term'[t] = "none"
      BY <1>4, <2>1 DEF StopApp, Hibernate, Dispatch, Untouched, NoWorker
    <3> QED
      BY <2>1, <3>1, <3>2 DEF Untouched
  <2>2. nextSlot' = nextSlot
    BY <1>4 DEF StopApp, Hibernate, DropPool
  <2> QED
    BY <2>1, <2>2 DEF Fresh, RoutingInv
<1>5. CASE SettingsDrainAborted
  <2>1. ASSUME NEW t \in Slots, Untouched(t)
        PROVE  Untouched(t)'
    BY <1>1, <1>5, <2>1 DEF SettingsDrainAborted, Without, Untouched
  <2>2. nextSlot' = nextSlot
    BY <1>5 DEF SettingsDrainAborted
  <2> QED
    BY <2>1, <2>2 DEF Fresh, RoutingInv
<1>6. CASE WarmRetryFires \/ OpenPool \/ BeginSettingsDrain \/ SetPoolWarmSpares
  BY <1>2, <1>6 DEF WarmRetryFires, OpenPool, BeginSettingsDrain, SetPoolWarmSpares, routing
<1> QED
  BY <1>3, <1>4, <1>5, <1>6 DEF Whole

\* Every step keeps unissued numbers untouched.
LEMMA FreshStep ==
    ASSUME RoutingInv, TypeOK', Next
    PROVE  Fresh'
BY ClientFresh, WorkerFresh, WholeFresh DEF Next, Whole

-----------------------------------------------------------------------------
(* Bindings and their counts.                                              *)

Idle == {"none", "suspending", "draining"}

\* One binding more, one less.
LEMMA CountMore ==
    ASSUME NEW c \in Clients, NEW s \in Slots, ~Bound(c), bind'[c].slot = s,
           \A b \in Clients \ {c} : bind'[b].slot = bind[b].slot
    PROVE  /\ Cardinality(BoundTo(s))' = Cardinality(BoundTo(s)) + 1
           /\ \A t \in Slots \ {s} : Cardinality(BoundTo(t))' = Cardinality(BoundTo(t))
<1>1. bind[c].slot \notin Slots
  BY DEF Bound, Slots, NoSlot
<1>2. BoundTo(s)' = BoundTo(s) \cup {c} /\ c \notin BoundTo(s)
  BY <1>1 DEF BoundTo
<1>3. \A t \in Slots \ {s} : BoundTo(t)' = BoundTo(t)
  BY <1>1 DEF BoundTo
<1> QED
  BY <1>2, <1>3, Finite, FS_AddElement

\* The same for a binding that goes.
LEMMA CountLess ==
    ASSUME NEW c \in Clients, NEW s \in Slots, bind[c].slot = s, bind'[c].slot = NoSlot,
           \A b \in Clients \ {c} : bind'[b].slot = bind[b].slot
    PROVE  /\ Cardinality(BoundTo(s))' = Cardinality(BoundTo(s)) - 1
           /\ \A t \in Slots \ {s} : Cardinality(BoundTo(t))' = Cardinality(BoundTo(t))
<1>1. NoSlot \notin Slots
  BY DEF Slots, NoSlot
<1>2. BoundTo(s)' = BoundTo(s) \ {c} /\ c \in BoundTo(s)
  BY <1>1 DEF BoundTo
<1>3. \A t \in Slots \ {s} : BoundTo(t)' = BoundTo(t)
  BY <1>1 DEF BoundTo
<1> QED
  BY <1>2, <1>3, Finite, FS_RemoveElement

\* Nobody is bound or released.
StaysBound(c) ==
    /\ bind'[c].slot = bind[c].slot
    /\ ~Bound(c) => bind'[c] = bind[c] /\ (late'[c].fresh => late[c].fresh)
StaysCounted(s) ==
    /\ worker'[s].n = worker[s].n
    /\ worker'[s].st \in Idle => worker[s].n = 0
    /\ worker'[s].used /\ worker[s].n = 0 /\ term'[s] = "none" =>
         worker[s].used /\ term[s] = "none"

\* Then the counts stay true.
LEMMA BindKept ==
    ASSUME BindInv, \A c \in Clients : StaysBound(c), \A s \in Slots : StaysCounted(s)
    PROVE  BindInv'
<1>1. \A s : BoundTo(s)' = BoundTo(s)
  BY DEF BoundTo, StaysBound
<1>2. \A s \in Slots : Cardinality(BoundTo(s))' = Cardinality(BoundTo(s))
  BY <1>1
<1>3. \A c \in Clients : ~Bound(c)' => bind'[c] = NoBinding /\ ~late'[c].fresh
  BY DEF BindInv, StaysBound, Bound
<1>4. \A s \in Slots :
        /\ worker'[s].n = Cardinality(BoundTo(s))'
        /\ worker'[s].st \in Idle => worker'[s].n = 0
        /\ worker'[s].used /\ worker'[s].n = 0 => term'[s] # "none"
  BY <1>2 DEF BindInv, StaysCounted
<1> QED
  BY <1>3, <1>4 DEF BindInv, Idle

\* One client is bound.
LEMMA BindAdds ==
    ASSUME TypeOK, BindInv, NEW c \in Clients, NEW s \in Slots, NEW st, Binds(c, s, st),
           st \notin Idle, bind'[c].slot = s,
           \A b \in Clients \ {c} : bind'[b] = bind[b] /\ late'[b] = late[b], term' = term
    PROVE  BindInv'
<1>1. /\ Cardinality(BoundTo(s))' = Cardinality(BoundTo(s)) + 1
      /\ \A t \in Slots \ {s} : Cardinality(BoundTo(t))' = Cardinality(BoundTo(t))
  BY CountMore DEF Binds
<1>2. \A b \in Clients : ~Bound(b)' => bind'[b] = NoBinding /\ ~late'[b].fresh
  <2>1. Bound(c)'
    BY DEF Bound, Slots, NoSlot
  <2> QED
    BY <2>1 DEF BindInv, Bound
<1>3. ASSUME NEW t \in Slots
      PROVE  /\ worker'[t].n = Cardinality(BoundTo(t))'
             /\ worker'[t].st \in Idle => worker'[t].n = 0
             /\ worker'[t].used /\ worker'[t].n = 0 => term'[t] # "none"
  <2>1. CASE t = s
    <3>1. worker[s].n = Cardinality(BoundTo(s)) /\ worker[s].n \in Nat
      BY DEF BindInv, TypeOK, WorkerType
    <3>2. worker'[s].n = worker[s].n + 1 /\ worker'[s].st = st
      BY DEF Binds
    <3> QED
      BY <1>1, <2>1, <3>1, <3>2
  <2>2. CASE t # s
    BY <1>1, <2>2 DEF BindInv, Binds, Idle
  <2> QED
    BY <2>1, <2>2
<1> QED
  BY <1>2, <1>3 DEF BindInv, Idle

\* One client is released.
LEMMA BindFrees ==
    ASSUME RoutingInv, NEW c \in Clients, NEW s \in Slots, Frees(c, s)
    PROVE  BindInv'
<1>1. s = bind[c].slot /\ bind'[c] = NoBinding /\ ~late'[c].fresh
  BY DEF Frees
<1>2. bind'[c].slot = NoSlot
  BY <1>1 DEF NoBinding
<1>3. /\ Cardinality(BoundTo(s))' = Cardinality(BoundTo(s)) - 1
      /\ \A t \in Slots \ {s} : Cardinality(BoundTo(t))' = Cardinality(BoundTo(t))
  <2>1. \A b \in Clients \ {c} : bind'[b].slot = bind[b].slot
    BY DEF Frees
  <2> QED
    BY <1>1, <1>2, <2>1, CountLess
<1>4. \A b \in Clients : ~Bound(b)' => bind'[b] = NoBinding /\ ~late'[b].fresh
  BY <1>1 DEF BindInv, Bound, Frees, RoutingInv
<1>5. Bound(c)
  BY <1>1 DEF Bound, Slots, NoSlot
<1>6. /\ worker[s].n \in Nat /\ worker[s].n >= 1 /\ worker[s].st \notin Idle
      /\ worker[s].n = Cardinality(BoundTo(s))
  BY <1>1, <1>5, Routable DEF RoutingInv, BindInv, Idle
<1>7. /\ worker'[s].st = worker[s].st /\ worker'[s].n = worker[s].n - 1
      /\ worker'[s].used = worker[s].used
      /\ \A t \in Slots \ {s} : worker'[t] = worker[t]
  BY DEF Frees
<1>8. \A t \in Slots : term[t] # "none" => term'[t] # "none"
  BY DEF Frees, Dispatch
<1>9. worker[s].n = 1 => term'[s] # "none"
  BY <1>1, <1>6 DEF Frees, Dispatch, Emptied, Idle
<1>10. ASSUME NEW t \in Slots
       PROVE  /\ worker'[t].n = Cardinality(BoundTo(t))'
              /\ worker'[t].st \in Idle => worker'[t].n = 0
              /\ worker'[t].used /\ worker'[t].n = 0 => term'[t] # "none"
  <2>1. CASE t = s
    <3>1. worker'[s].n = Cardinality(BoundTo(s))' /\ worker'[s].st \notin Idle
      BY <1>3, <1>6, <1>7
    <3>2. worker'[s].n = 0 => worker[s].n = 1
      BY <1>6, <1>7
    <3> QED
      BY <1>9, <2>1, <3>1, <3>2
  <2>2. CASE t # s
    BY <1>3, <1>7, <1>8, <2>2 DEF BindInv, RoutingInv, Idle
  <2> QED
    BY <2>1, <2>2
<1> QED
  BY <1>4, <1>10 DEF BindInv, Idle

\* Workers are removed with their clients.
LEMMA BindRemoves ==
    ASSUME RoutingInv, NEW S \in SUBSET Slots, Removes(S),
           \A t \in Slots \ S : term[t] # "none" => term'[t] # "none"
    PROVE  BindInv'
<1>1. ASSUME NEW c \in Clients
      PROVE  IF bind[c].slot \in S THEN bind'[c] = NoBinding /\ ~late'[c].fresh
             ELSE bind'[c] = bind[c] /\ late'[c] = late[c]
  BY DEF Removes
<1>2. \A c \in Clients : ~Bound(c)' => bind'[c] = NoBinding /\ ~late'[c].fresh
  BY <1>1 DEF BindInv, Bound, RoutingInv
<1>3. ASSUME NEW t \in Slots
      PROVE  /\ worker'[t].n = Cardinality(BoundTo(t))'
             /\ worker'[t].st \in Idle => worker'[t].n = 0
             /\ worker'[t].used /\ worker'[t].n = 0 => term'[t] # "none"
  <2>1. CASE t \in S
    <3>1. BoundTo(t)' = {}
      <4>1. NoBinding.slot = NoSlot /\ NoSlot \notin Slots
        BY DEF NoBinding, NoSlot, Slots
      <4> QED
        BY <1>1, <2>1, <4>1 DEF BoundTo
    <3>2. Cardinality(BoundTo(t))' = 0
      BY <3>1, FS_EmptySet
    <3>3. worker'[t] = NoWorker
      BY <2>1 DEF Removes
    <3> QED
      BY <3>2, <3>3 DEF NoWorker
  <2>2. CASE t \notin S
    <3>1. BoundTo(t)' = BoundTo(t)
      <4>1. NoBinding.slot = NoSlot /\ NoSlot \notin Slots
        BY DEF NoBinding, NoSlot, Slots
      <4> QED
        BY <1>1, <2>2, <4>1 DEF BoundTo
    <3>2. worker'[t] = worker[t] /\ (term[t] # "none" => term'[t] # "none")
      BY <2>2 DEF Removes
    <3>3. Cardinality(BoundTo(t))' = Cardinality(BoundTo(t))
      BY <3>1
    <3> QED
      BY <3>2, <3>3 DEF BindInv, RoutingInv, Idle
  <2> QED
    BY <2>1, <2>2
<1> QED
  BY <1>2, <1>3 DEF BindInv, Idle

\* The steps of requests and timers.
LEMMA ClientBinds ==
    ASSUME RoutingInv,
           (\E r \in Requests : Serve(r)) \/ (\E c \in Clients : Grace(c))
    PROVE  BindInv'
<1>1. TypeOK /\ BindInv
  BY DEF RoutingInv
<1>2. ASSUME worker' = worker, term' = term, \A c \in Clients : StaysBound(c)
      PROVE  BindInv'
  <2>1. \A s \in Slots : StaysCounted(s)
    BY <1>1, <1>2 DEF StaysCounted, BindInv, Idle
  <2> QED
    BY <1>1, <1>2, <2>1, BindKept
<1>3. ASSUME NEW r \in Requests, NEW c \in Clients, Arrive(r, c)
      PROVE  BindInv'
  <2>1. UNCHANGED <<worker, term, late>>
    BY <1>3 DEF Arrive
  <2>2. bind' = bind \/ (Bound(c) /\ Opens(c))
    BY <1>3, ArriveEffect DEF Arrives
  <2>3. \A b \in Clients : StaysBound(b)
    BY <2>1, <2>2 DEF StaysBound, Opens
  <2> QED
    BY <1>2, <2>1, <2>3
<1>4. ASSUME NEW r \in Requests, BindRoute(r)
      PROVE  BindInv'
  <2> DEFINE c == req[r].c
             s == req[r].s
  <2>1. UNCHANGED <<term, late>> /\ c \in Clients /\ s \in Slots
    BY <1>4, BindRouteEffect DEF BindRoute
  <2>2. CASE worker' = worker /\ (bind' = bind \/ (Bound(c) /\ Opens(c)))
    <3>1. \A b \in Clients : StaysBound(b)
      BY <2>1, <2>2 DEF StaysBound, Opens
    <3> QED
      BY <1>2, <2>1, <2>2, <3>1
  <2>3. CASE Binds(c, s, "running") /\ OneBinds(c, s, 1, "none")
    <3>1. /\ "running" \notin Idle /\ bind'[c].slot = s
          /\ \A b \in Clients \ {c} : bind'[b] = bind[b] /\ late'[b] = late[b]
      BY <2>1, <2>3 DEF OneBinds, Idle
    <3> QED
      BY <1>1, <2>1, <2>3, <3>1, BindAdds
  <2> QED
    BY <1>4, <2>2, <2>3, BindRouteEffect
<1>5. ASSUME NEW r \in Requests, PlaceClient(r)
      PROVE  BindInv'
  <2> DEFINE c == req[r].c
  <2>1. c \in Clients /\ Places(c)
    BY <1>5, PlaceEffect
  <2>2. CASE UNCHANGED <<worker, bind, late, term>>
    BY <1>2, <2>2 DEF StaysBound
  <2>3. ASSUME NEW s \in Slots, NEW st \in {"running", "booting", "resuming"},
               NEW timer, Waits(c, s, st, timer)
        PROVE  BindInv'
    <3>1. /\ Binds(c, s, st) /\ bind'[c].slot = s /\ term' = term /\ st \notin Idle
          /\ \A b \in Clients \ {c} : bind'[b] = bind[b] /\ late'[b] = late[b]
      BY <1>1, <2>1, <2>3 DEF Waits, OneBinds, Idle, TypeOK
    <3> QED
      BY <1>1, <2>1, <3>1, BindAdds
  <2> QED
    BY <2>1, <2>2, <2>3 DEF Places
<1>6. ASSUME NEW r \in Requests, ConnClosed(r)
      PROVE  BindInv'
  <2>1. UNCHANGED <<worker, term, late>>
    BY <1>6 DEF ConnClosed
  <2>2. \A b \in Clients : StaysBound(b)
    <3>1. bind' = bind \/ \A b \in Clients : bind'[b].slot = bind[b].slot /\ (~Bound(b)
                => bind'[b] = bind[b])
      BY <1>1, <1>6 DEF ConnClosed, TypeOK, BindingType
    <3> QED
      BY <2>1, <3>1 DEF StaysBound
  <2> QED
    BY <1>2, <2>1, <2>2
<1>7. ASSUME NEW c \in Clients, GraceTimerFires(c)
      PROVE  BindInv'
  <2>1. UNCHANGED <<worker, term>> /\ Bound(c)
    BY <1>1, <1>7 DEF GraceTimerFires, BindInv, NoBinding
  <2>2. \A b \in Clients : StaysBound(b)
    BY <1>1, <1>7, <2>1 DEF GraceTimerFires, StaysBound, TypeOK, BindingType
  <2> QED
    BY <1>2, <2>1, <2>2
<1>8. ASSUME NEW c \in Clients, GraceExpiry(c)
      PROVE  BindInv'
  <2>1. Bound(c) /\ bind[c].slot \in Slots
    BY <1>1, <1>8, GraceEffect, Routable
  <2>2. CASE Retimes(c, "none") /\ LateOf(c) /\ UNCHANGED <<worker, term>>
    <3>1. \A b \in Clients : StaysBound(b)
      BY <2>1, <2>2 DEF StaysBound, Retimes, LateOf
    <3> QED
      BY <1>2, <2>2, <3>1
  <2>3. CASE Frees(c, bind[c].slot)
    BY <2>1, <2>3, BindFrees
  <2> QED
    BY <1>8, <2>2, <2>3, GraceEffect
<1>9. ASSUME NEW c \in Clients, StaleExpiry(c)
      PROVE  BindInv'
  <2>1. UNCHANGED <<worker, term, bind>>
    BY <1>9 DEF StaleExpiry, routing
  <2>2. \A b \in Clients : late'[b].fresh = late[b].fresh
    BY <1>1, <1>9 DEF StaleExpiry, TypeOK
  <2> QED
    BY <1>2, <2>1, <2>2 DEF StaysBound
<1> QED
  BY <1>3, <1>4, <1>5, <1>6, <1>7, <1>8, <1>9 DEF Serve, Grace

\* The steps of the spawner.
LEMMA WorkerBinds ==
    ASSUME RoutingInv, NEW s \in Slots,
           Spawn(s) \/ Resume(s) \/ Terminate(s) \/ Backstop(s) \/ ProcessExits(s)
    PROVE  BindInv'
<1>1. TypeOK /\ BindInv /\ ReqInv
  BY DEF RoutingInv
<1>2. ASSUME UNCHANGED <<worker, bind, late>>, \A t \in Slots : term[t] # "none"
            => term'[t] # "none"
      PROVE  BindInv'
  <2>1. \A t \in Slots : StaysCounted(t)
    BY <1>1, <1>2 DEF StaysCounted, BindInv, Idle
  <2>2. \A c \in Clients : StaysBound(c)
    BY <1>2 DEF StaysBound
  <2> QED
    BY <1>1, <2>1, <2>2, BindKept
<1>3. ASSUME SpawnRefused(s) \/ SpawnFails(s) \/ TerminateDeregister(s)
      PROVE  BindInv'
  <2>1. worker' = Without({s}) /\ Unbind({s})
    BY <1>3 DEF SpawnRefused, SpawnFails, TerminateDeregister, ReleaseReservation
  <2>2. Removes({s})
    BY <1>1, <2>1, RemoveEffect
  <2>3. \A t \in Slots \ {s} : term[t] # "none" => term'[t] # "none"
    BY <1>1, <1>3 DEF SpawnRefused, SpawnFails, TerminateDeregister, TypeOK
  <2> QED
    BY <2>2, <2>3, BindRemoves
<1>4. CASE SpawnStart(s) \/ SpawnFinish(s) \/ ResumeStart(s) \/ WarmSpareConsumed(s)
            \/ ProcessExits(s)
  BY <1>2, <1>4 DEF SpawnStart, SpawnFinish, ResumeStart, WarmSpareConsumed, ProcessExits,
     routing
<1>5. CASE ResumeFails(s) \/ ExpireLifetime(s)
  <2>1. UNCHANGED <<worker, bind, late>>
    BY <1>5 DEF ResumeFails, ExpireLifetime, routing
  <2>2. \A t \in Slots : term[t] # "none" => term'[t] # "none"
    BY <1>1, <1>5 DEF ResumeFails, ExpireLifetime, Dispatch
  <2> QED
    BY <1>2, <2>1, <2>2
<1>6. CASE TerminateStop(s)
  <2>1. UNCHANGED <<worker, bind, late>>
    BY <1>6 DEF TerminateStop, routing
  <2>2. \A t \in Slots : term[t] # "none" => term'[t] # "none"
    BY <1>1, <1>6 DEF TerminateStop, TypeOK
  <2> QED
    BY <1>2, <2>1, <2>2
<1>7. ASSUME NEW st \in States, Moves(s, st), st \in Idle => worker[s].n = 0,
             UNCHANGED <<late, term>>,
             \A c \in Clients : bind'[c].slot = bind[c].slot /\ (bind'[c] = bind[c]
                   \/ bind[c].slot = s)
      PROVE  BindInv'
  <2>1. \A c \in Clients : StaysBound(c)
    BY <1>7 DEF StaysBound, Bound, Slots, NoSlot
  <2>2. \A t \in Slots : StaysCounted(t)
    BY <1>1, <1>7 DEF StaysCounted, Moves, BindInv, Idle
  <2> QED
    BY <1>1, <2>1, <2>2, BindKept
<1>8. CASE SpareSuspend(s)
  <2>1. /\ worker' = [worker EXCEPT ![s].st = "suspending"] /\ UNCHANGED <<bind, late, term>>
        /\ worker[s].n = 0
    BY <1>8 DEF SpareSuspend, Pristine
  <2>2. "suspending" \in States /\ Moves(s, "suspending")
    BY <1>1, <2>1, MoveEffect DEF States
  <2> QED
    BY <1>7, <2>1, <2>2
<1>9. CASE SpawnRegister(s)
  <2>1. UNCHANGED <<late, term>>
    BY <1>9 DEF SpawnRegister
  <2>2. PICK st \in {"running", "suspended"} : Register(s, st)
    BY <1>9 DEF SpawnRegister
  <2>3. Registers(s, st)
    BY <1>1, <2>2, RegisterEffect
  <2> QED
    BY <1>7, <2>1, <2>3 DEF Registers, States, Idle
<1>10. CASE ResumeDone(s)
  <2>1. Moves(s, "running") /\ UNCHANGED <<bind, late, term>>
    BY <1>1, <1>10, ResumeEffect DEF ResumeDone
  <2> QED
    BY <1>7, <2>1 DEF States, Idle
<1> QED
  BY <1>3, <1>4, <1>5, <1>6, <1>8, <1>9, <1>10 DEF Spawn, Resume, Terminate, Backstop

\* The operations on the whole app.
LEMMA WholeBinds ==
    ASSUME RoutingInv, Whole
    PROVE  BindInv'
<1>1. TypeOK /\ BindInv /\ ReqInv
  BY DEF RoutingInv
<1>2. CASE UNCHANGED <<worker, bind, late, term>>
  <2>1. \A t \in Slots : StaysCounted(t)
    BY <1>1, <1>2 DEF StaysCounted, BindInv, Idle
  <2>2. \A c \in Clients : StaysBound(c)
    BY <1>2 DEF StaysBound
  <2> QED
    BY <1>1, <2>1, <2>2, BindKept
<1>3. CASE Reconcile
  <2>1. UNCHANGED <<bind, late>>
    BY <1>3 DEF Reconcile
  <2>2. CASE UNCHANGED <<worker, term>>
    BY <1>2, <2>1, <2>2
  <2>3. ASSUME NEW stop \in SUBSET Slots, NEW k \in Nat, Reserves(stop, k)
        PROVE  BindInv'
    <3>1. ASSUME NEW t \in Slots
          PROVE  StaysCounted(t)
      <4>1. \/ /\ worker'[t].n = 0 /\ worker[t].n = 0 /\ ~worker'[t].used
            \/ worker'[t] = worker[t] /\ term'[t] = term[t]
        <5>1. Untouched(t) => worker[t].n = 0
          BY DEF Untouched, NoWorker
        <5>2. \/ worker'[t].n = 0 /\ ~worker'[t].used /\ Untouched(t)
              \/ worker'[t].n = 0 /\ worker[t].n = 0 /\ ~worker'[t].used
              \/ worker'[t] = worker[t] /\ term'[t] = term[t]
          BY <2>3, ReservedSlots
        <5> QED
          BY <5>1, <5>2
      <4> QED
        BY <1>1, <4>1 DEF StaysCounted, BindInv, Idle
    <3>2. \A c \in Clients : StaysBound(c)
      BY <2>1 DEF StaysBound
    <3> QED
      BY <1>1, <3>1, <3>2, BindKept
  <2> QED
    BY <1>3, <2>2, <2>3, ReserveEffect
<1>4. CASE StopApp \/ Hibernate
  <2>1. worker' = Without(Slots) /\ Unbind(Slots)
    BY <1>4 DEF StopApp, Hibernate, DropPool
  <2>2. Removes(Slots)
    BY <1>1, <2>1, RemoveEffect
  <2> QED
    BY <2>2, BindRemoves
<1>5. CASE SettingsDrainAborted
  <2>1. PICK keep \in SUBSET proc :
          LET out == {s \in proc \ keep : worker[s].st # "none"}
          IN  worker' = Without(out) /\ Unbind(out)
    BY <1>5 DEF SettingsDrainAborted
  <2> DEFINE out == {s \in proc \ keep : worker[s].st # "none"}
  <2>2. out \in SUBSET Slots /\ worker' = Without(out) /\ Unbind(out)
    BY <1>1, <2>1 DEF TypeOK
  <2> HIDE DEF out
  <2>3. Removes(out)
    BY <1>1, <2>2, RemoveEffect
  <2>4. term' = term
    BY <1>5 DEF SettingsDrainAborted
  <2> QED
    BY <2>2, <2>3, <2>4, BindRemoves
<1>6. CASE WarmRetryFires \/ OpenPool \/ BeginSettingsDrain \/ SetPoolWarmSpares
  BY <1>2, <1>6 DEF WarmRetryFires, OpenPool, BeginSettingsDrain, SetPoolWarmSpares, routing
<1> QED
  BY <1>3, <1>4, <1>5, <1>6 DEF Whole

\* Every step keeps bindings and counts.
LEMMA BindStep ==
    ASSUME RoutingInv, Next
    PROVE  BindInv'
BY ClientBinds, WorkerBinds, WholeBinds DEF Next, Whole

\* Requests that keep what they are, but perhaps are no longer counted, and one
\* that becomes something else.
Counts(r) == req'[r].own => Bound(req[r].c)'
Same(r) ==
    /\ req'[r].at = req[r].at /\ req'[r].c = req[r].c /\ req'[r].s = req[r].s
    /\ req'[r].own => req[r].own
Becomes(r) ==
    /\ req'[r].at # "idle" => req'[r].c \in Clients
    /\ req'[r].at \in {"bind", "open"} => req'[r].s \in Slots
    /\ req'[r].own => req'[r].at = "open"

\* The invariant of requests, one by one.
LEMMA ReqKept ==
    ASSUME ReqInv, \A r \in Requests : Counts(r) /\ (Same(r) \/ Becomes(r))
    PROVE  ReqInv'
<1>1. \A r \in Requests : Becomes(r)
  BY DEF ReqInv, Same, Becomes
<1> QED
  BY <1>1 DEF ReqInv, Counts, Becomes

\* Every step keeps the invariant of requests.
LEMMA ReqStep ==
    ASSUME RoutingInv, Next
    PROVE  ReqInv'
<1>1. TypeOK /\ BindInv /\ ReqInv
  BY DEF RoutingInv
<1>2. ASSUME UNCHANGED req, \A c \in Clients : Bound(c) => Bound(c)'
      PROVE  ReqInv'
  BY <1>1, <1>2 DEF ReqInv
<1>3. ASSUME UNCHANGED <<req, bind>>
      PROVE  ReqInv'
  BY <1>2, <1>3 DEF Bound
<1>4. ASSUME NEW r \in Requests, Clears(r), \A c \in Clients : Bound(c) => Bound(c)'
      PROVE  ReqInv'
  <2>1. ASSUME NEW q \in Requests
        PROVE  Counts(q) /\ (Same(q) \/ Becomes(q))
    BY <1>1, <1>4 DEF Clears, Sets, Counts, Same, Becomes, ReqInv
  <2> QED
    BY <1>1, <2>1, ReqKept
<1>5. ASSUME NEW r \in Requests, NEW at, NEW c \in Clients, NEW s, NEW own,
             Sets(r, at, c, s, own),
             \A b \in Clients : Bound(b) => Bound(b)',
             at \in {"bind", "open"} => s \in Slots, own => at = "open" /\ Bound(c)'
      PROVE  ReqInv'
  <2>1. ASSUME NEW q \in Requests
        PROVE  Counts(q) /\ (Same(q) \/ Becomes(q))
    <3>1. CASE q = r
      BY <1>5, <3>1 DEF Sets, Counts, Becomes
    <3>2. CASE q # r
      BY <1>1, <1>5, <3>2 DEF Sets, Counts, Same, ReqInv
    <3> QED
      BY <3>1, <3>2
  <2> QED
    BY <1>1, <2>1, ReqKept
<1>6. ASSUME NEW S \in SUBSET Slots, Removes(S)
      PROVE  ReqInv'
  <2>1. \A r \in Requests : Counts(r)
    <3>1. ASSUME NEW r \in Requests, req'[r].own
          PROVE  Bound(req[r].c)'
      <4>1. req[r].own /\ bind[req[r].c].slot \notin S /\ req'[r].c = req[r].c
        BY <1>6, <3>1 DEF Removes
      <4>2. req[r].c \in Clients /\ Bound(req[r].c)
        BY <1>1, <4>1 DEF ReqInv
      <4>3. bind'[req[r].c] = bind[req[r].c]
        BY <1>6, <4>1, <4>2 DEF Removes
      <4> QED
        BY <4>1, <4>2, <4>3 DEF Bound
    <3> QED
      BY <3>1 DEF Counts
  <2>2. \A r \in Requests : Same(r)
    BY <1>6 DEF Removes, Same
  <2> QED
    BY <1>1, <2>1, <2>2, ReqKept
<1>7. ASSUME NEW r \in Requests, Serve(r)
      PROVE  ReqInv'
  <2>1. ASSUME NEW c \in Clients, Arrive(r, c)
        PROVE  ReqInv'
    <3>1. PICK s : Arrives(r, c, s)
      BY <2>1, ArriveEffect
    <3>2. \A b \in Clients : Bound(b) => Bound(b)'
      BY <3>1 DEF Arrives, Opens, Bound
    <3>3. CASE Bound(c) /\ s \in Slots /\ Sets(r, "open", c, s, TRUE)
      BY <1>5, <3>2, <3>3
    <3>4. CASE s \in Slots /\ Sets(r, "bind", c, s, FALSE)
      BY <1>5, <3>2, <3>4
    <3>5. CASE Sets(r, "place", c, s, FALSE)
      BY <1>5, <3>2, <3>5
    <3> QED
      BY <3>1, <3>3, <3>4, <3>5 DEF Arrives
  <2>2. CASE BindRoute(r)
    <3> DEFINE c == req[r].c
               s == req[r].s
    <3>1. c \in Clients /\ s \in Slots
      BY <2>2, BindRouteEffect
    <3>2. CASE Clears(r) /\ UNCHANGED bind
      BY <1>4, <3>2 DEF Bound
    <3>3. CASE Connected(r) /\ Bound(c) /\ Opens(c)
      <4>1. \A b \in Clients : Bound(b) => Bound(b)'
        BY <3>3 DEF Opens, Bound
      <4>2. Sets(r, "open", c, s, TRUE) /\ bind'[c].slot # NoSlot
        BY <3>1, <3>3 DEF Connected, Opens, Bound
      <4> QED
        BY <1>5, <3>1, <4>1, <4>2 DEF Bound
    <3>4. CASE Connected(r) /\ OneBinds(c, s, 1, "none")
      <4>1. bind'[c].slot # NoSlot
        BY <3>1, <3>4 DEF OneBinds, Slots, NoSlot
      <4>2. \A b \in Clients : Bound(b) => Bound(b)'
        BY <3>4, <4>1 DEF OneBinds, Bound
      <4>3. Sets(r, "open", c, s, TRUE)
        BY <3>4 DEF Connected
      <4> QED
        BY <1>5, <3>1, <4>1, <4>2, <4>3 DEF Bound
    <3> QED
      BY <2>2, <3>2, <3>3, <3>4, BindRouteEffect
  <2>3. CASE PlaceClient(r)
    <3> DEFINE c == req[r].c
    <3>1. c \in Clients /\ Clears(r) /\ Places(c)
      BY <2>3, PlaceEffect
    <3>2. \A b \in Clients : Bound(b) => Bound(b)'
      <4>1. ASSUME NEW s \in Slots, NEW st, NEW timer, Waits(c, s, st, timer)
            PROVE  \A b \in Clients : Bound(b) => Bound(b)'
        <5>1. ~Bound(c) /\ \A b \in Clients \ {c} : bind'[b] = bind[b]
          BY <4>1 DEF Waits, Binds, OneBinds
        <5> QED
          BY <5>1 DEF Bound
      <4>2. CASE bind' = bind
        BY <4>2 DEF Bound
      <4> QED
        BY <3>1, <4>1, <4>2 DEF Places
    <3> QED
      BY <1>4, <3>1, <3>2
  <2>4. CASE ConnClosed(r)
    <3>1. Clears(r)
      BY <1>1, <2>4, ClearEffect DEF ConnClosed
    <3>2. \A b \in Clients : Bound(b) => Bound(b)'
      <4>1. \A b \in Clients : bind'[b].slot = bind[b].slot
        BY <1>1, <2>4 DEF ConnClosed, TypeOK, BindingType
      <4> QED
        BY <4>1 DEF Bound
    <3> QED
      BY <1>4, <3>1, <3>2
  <2> QED
    BY <1>7, <2>1, <2>2, <2>3, <2>4 DEF Serve
<1>8. ASSUME NEW c \in Clients, Grace(c)
      PROVE  ReqInv'
  <2>1. CASE GraceTimerFires(c)
    <3>1. req' = req /\ \A b \in Clients : bind'[b].slot = bind[b].slot
      BY <1>1, <2>1 DEF GraceTimerFires, TypeOK, BindingType
    <3> QED
      BY <1>2, <3>1 DEF Bound
  <2>2. CASE GraceExpiry(c)
    <3>1. CASE Retimes(c, "none") /\ UNCHANGED req
      BY <1>2, <3>1 DEF Retimes, Bound
    <3>2. CASE Frees(c, bind[c].slot)
      <4>1. ASSUME NEW r \in Requests, req'[r].own
            PROVE  Bound(req[r].c)'
        <5>1. req[r].own /\ req[r].c # c /\ req'[r].c = req[r].c
          BY <3>2, <4>1 DEF Frees
        <5>2. req[r].c \in Clients /\ Bound(req[r].c)
          BY <1>1, <5>1 DEF ReqInv
        <5>3. bind'[req[r].c] = bind[req[r].c]
          BY <3>2, <5>1, <5>2 DEF Frees
        <5> QED
          BY <5>1, <5>2, <5>3 DEF Bound
      <4>2. \A r \in Requests : Same(r)
        BY <3>2 DEF Frees, Same
      <4>3. \A r \in Requests : Counts(r)
        BY <4>1 DEF Counts
      <4> QED
        BY <1>1, <4>2, <4>3, ReqKept
    <3> QED
      BY <2>2, <3>1, <3>2, GraceEffect
  <2>3. CASE StaleExpiry(c)
    BY <1>3, <2>3 DEF StaleExpiry, routing
  <2> QED
    BY <1>8, <2>1, <2>2, <2>3 DEF Grace
<1>9. ASSUME NEW s \in Slots,
             Spawn(s) \/ Resume(s) \/ Terminate(s) \/ Backstop(s) \/ ProcessExits(s)
      PROVE  ReqInv'
  <2>1. CASE SpawnRefused(s) \/ SpawnFails(s) \/ TerminateDeregister(s)
    <3>1. worker' = Without({s}) /\ Unbind({s})
      BY <2>1 DEF SpawnRefused, SpawnFails, TerminateDeregister, ReleaseReservation
    <3> QED
      BY <1>1, <1>6, <3>1, RemoveEffect
  <2>2. CASE SpawnRegister(s)
    <3>1. req' = req /\ \E st \in {"running", "suspended"} : Register(s, st)
      BY <2>2 DEF SpawnRegister
    <3>2. \A c \in Clients : bind'[c].slot = bind[c].slot
      BY <1>1, <3>1, RegisterEffect DEF Registers
    <3> QED
      BY <1>2, <3>1, <3>2 DEF Bound
  <2>3. CASE SpawnStart(s) \/ SpareSuspend(s) \/ SpawnFinish(s)
    BY <1>3, <2>3 DEF SpawnStart, SpareSuspend, SpawnFinish, routing
  <2>4. CASE Resume(s)
    BY <1>3, <2>4 DEF Resume, ResumeStart, ResumeDone, ResumeFails, routing
  <2>5. CASE TerminateStop(s) \/ Backstop(s) \/ ProcessExits(s)
    BY <1>3, <2>5 DEF TerminateStop, Backstop, ExpireLifetime, WarmSpareConsumed,
       ProcessExits, routing
  <2> QED
    BY <1>9, <2>1, <2>2, <2>3, <2>4, <2>5 DEF Spawn, Terminate
<1>10. CASE Whole
  <2>1. CASE StopApp \/ Hibernate
    <3>1. worker' = Without(Slots) /\ Unbind(Slots)
      BY <2>1 DEF StopApp, Hibernate, DropPool
    <3> QED
      BY <1>1, <1>6, <3>1, RemoveEffect
  <2>2. CASE SettingsDrainAborted
    <3>1. PICK keep \in SUBSET proc :
            LET out == {s \in proc \ keep : worker[s].st # "none"}
            IN  worker' = Without(out) /\ Unbind(out)
      BY <2>2 DEF SettingsDrainAborted
    <3> DEFINE out == {s \in proc \ keep : worker[s].st # "none"}
    <3>2. out \in SUBSET Slots /\ worker' = Without(out) /\ Unbind(out)
      BY <1>1, <3>1 DEF TypeOK
    <3> HIDE DEF out
    <3> QED
      BY <1>1, <1>6, <3>2, RemoveEffect
  <2>3. CASE Reconcile \/ WarmRetryFires \/ OpenPool \/ BeginSettingsDrain \/ SetPoolWarmSpares
    BY <1>3, <2>3 DEF Reconcile, WarmRetryFires, OpenPool, BeginSettingsDrain,
       SetPoolWarmSpares, routing
  <2> QED
    BY <1>10, <2>1, <2>2, <2>3 DEF Whole
<1> QED
  BY <1>7, <1>8, <1>9, <1>10 DEF Next, Whole

\* The routing keeps its invariant, however requests overlap.
LEMMA RoutingStep ==
    ASSUME RoutingInv, [Next]_vars
    PROVE  RoutingInv'
<1>1. CASE Next
  BY <1>1, TypeStep, FreshStep, BindStep, ReqStep DEF RoutingInv
<1>2. CASE UNCHANGED vars
  <2>1. UNCHANGED <<open, nextSlot, base, worker, bind, target, op, late, req, proc, spawn,
              resume,
                    term, life, consumed, recon, retry, left, events>>
    BY <1>2 DEF vars, routing
  <2>2. TypeOK'
    BY <2>1 DEF RoutingInv, TypeOK
  <2>3. Fresh'
    BY <2>1 DEF RoutingInv, Fresh, Untouched
  <2>4. BindInv'
    <3>1. \A s : BoundTo(s)' = BoundTo(s)
      BY <2>1 DEF BoundTo
    <3> QED
      BY <2>1, <3>1 DEF RoutingInv, BindInv, Bound
  <2>5. ReqInv'
    BY <2>1 DEF RoutingInv, ReqInv, Bound
  <2> QED
    BY <2>2, <2>3, <2>4, <2>5 DEF RoutingInv
<1> QED
  BY <1>1, <1>2

-----------------------------------------------------------------------------
(* Slots, processes and the lock, when the requests of one client are      *)
(* placed one after the other.                                             *)

\* A slot that a step leaves alone; one that is removed with its clients.
Alone(s) ==
    /\ worker'[s].st = worker[s].st /\ spawn'[s] = spawn[s] /\ resume'[s] = resume[s]
    /\ term'[s] = term[s] /\ (s \in proc' <=> s \in proc) /\ (s \in left' <=> s \in left)
    /\ (s \in life' => s \in life) /\ (s \in consumed' => s \in consumed)
Fine(s) == SlotOK(s) /\ ProcOK(s)

\* A slot that is left alone stays as it should be.
LEMMA AloneStays ==
    ASSUME NEW s \in Slots, Fine(s), Alone(s)
    PROVE  Fine(s)'
BY DEF Fine, Alone, SlotOK, ProcOK, Settling

\* The worker of a client whose grace period is over has booted.
LEMMA ReleasedHasBooted ==
    ASSUME LoneInv, NEW c \in Clients, Bound(c), late[c].fresh
    PROVE  worker[bind[c].slot].st # "booting"
BY DEF LoneInv, Counted

\* Requests and timers: a placement reserves, thaws or joins; a release stops a booted worker.
LEMMA ClientSlots ==
    ASSUME PoolInv, TypeOK', (\E r \in Requests : Serve(r)) \/ (\E c \in Clients : Grace(c))
    PROVE  SlotInv'
<1>1. /\ TypeOK /\ Fresh /\ BindInv /\ ReqInv /\ RoutingInv /\ LoneInv
      /\ \A s \in Slots : Fine(s)
  BY DEF PoolInv, RoutingInv, SlotInv, Fine
<1>2. SUFFICES ASSUME NEW t \in Slots
               PROVE  Fine(t)'
  BY DEF SlotInv, Fine
<1>3. CASE UNCHANGED <<worker, spawn, resume, term, proc, left, life, consumed>>
  BY <1>1, <1>3, AloneStays DEF Alone
<1>4. ASSUME NEW r \in Requests, BindRoute(r)
      PROVE  Fine(t)'
  <2> DEFINE s == req[r].s
  <2>1. UNCHANGED <<spawn, resume, term, proc, left, life>> /\ s \in Slots
    BY <1>1, <1>4, BindRouteEffect DEF BindRoute
  <2>2. CASE worker' = worker /\ consumed' = consumed
    BY <1>3, <2>1, <2>2
  <2>3. CASE Serves(s) /\ Binds(req[r].c, s, "running")
               /\ consumed' \in {consumed, consumed \cup {s}}
    <3>1. CASE t # s
      <4>1. worker'[t] = worker[t] /\ (t \in consumed' => t \in consumed)
        BY <2>3, <3>1 DEF Binds
      <4>2. Alone(t)
        BY <2>1, <4>1 DEF Alone
      <4> QED
        BY <1>1, <4>2, AloneStays
    <3>2. CASE t = s
      <4>1. worker[t].st = "running" /\ worker'[t].st = "running"
        BY <2>3, <3>2 DEF Binds, Serves
      <4> QED
        BY <1>1, <2>1, <4>1 DEF Fine, SlotOK, ProcOK, Settling
    <3> QED
      BY <3>1, <3>2
  <2> QED
    BY <1>1, <1>4, <2>2, <2>3, BindRouteEffect
<1>5. ASSUME NEW r \in Requests, PlaceClient(r)
      PROVE  Fine(t)'
  <2> DEFINE c == req[r].c
  <2>1. UNCHANGED <<proc, left, life, consumed>> /\ Places(c)
    BY <1>1, <1>5, PlaceEffect DEF PlaceClient
  <2>2. CASE UNCHANGED <<worker, spawn, resume, term>>
    BY <1>3, <2>1, <2>2
  <2>3. ASSUME NEW s \in Slots, NEW st \in {"running", "booting", "resuming"}, NEW timer,
               Waits(c, s, st, timer), worker[s].st = st, UNCHANGED <<spawn, resume>>
        PROVE  Fine(t)'
    <3>1. worker'[t].st = worker[t].st
      BY <2>3 DEF Waits, Binds
    <3>2. Alone(t)
      BY <2>1, <2>3, <3>1 DEF Alone, Waits
    <3> QED
      BY <1>1, <3>2, AloneStays
  <2>4. ASSUME NEW s \in Slots, Waits(c, s, "resuming", "none"), worker[s].st = "suspended",
               resume' = [resume EXCEPT ![s] = "queued"], UNCHANGED spawn
        PROVE  Fine(t)'
    <3>1. term' = term
      BY <2>4 DEF Waits
    <3>2. CASE t # s
      <4>1. worker'[t] = worker[t] /\ resume'[t] = resume[t]
        BY <1>1, <2>4, <3>2 DEF Waits, Binds, TypeOK
      <4> QED
        BY <1>1, <2>1, <2>4, <3>1, <4>1, AloneStays DEF Alone
    <3>3. CASE t = s
      <4>1. worker'[t].st = "resuming"
        BY <2>4, <3>3 DEF Waits, Binds
      <4> QED
        BY <1>1, <2>1, <2>4, <3>1, <3>3, <4>1 DEF Fine, SlotOK, ProcOK, Settling
    <3> QED
      BY <3>2, <3>3
  <2>5. CASE /\ Waits(c, nextSlot, "booting", "none") /\ nextSlot \in Slots
             /\ spawn' = [spawn EXCEPT ![nextSlot] = "queued"] /\ resume' = resume
    <3>1. term' = term
      BY <2>5 DEF Waits
    <3>2. CASE t # nextSlot
      <4>1. worker'[t] = worker[t] /\ spawn'[t] = spawn[t]
        BY <1>1, <2>5, <3>2 DEF Waits, Binds, TypeOK
      <4> QED
        BY <1>1, <2>1, <2>5, <3>1, <4>1, AloneStays DEF Alone
    <3>3. CASE t = nextSlot
      <4>1. worker'[t].st = "booting" /\ spawn'[t] = "queued"
        BY <1>1, <2>5, <3>3 DEF Waits, Binds, TypeOK
      <4>2. nextSlot >= nextSlot
        BY <1>1 DEF TypeOK
      <4>3. Untouched(t)
        BY <1>1, <2>5, <3>3, <4>2 DEF Fresh
      <4> QED
        BY <2>1, <2>5, <3>1, <4>1, <4>3 DEF Fine, SlotOK, ProcOK, Settling, Untouched
    <3> QED
      BY <3>2, <3>3
  <2> QED
    BY <2>1, <2>2, <2>3, <2>4, <2>5 DEF Places
<1>6. ASSUME NEW c \in Clients, GraceExpiry(c)
      PROVE  Fine(t)'
  <2>1. /\ UNCHANGED <<spawn, resume, proc, left, life, consumed>> /\ Bound(c) /\ late[c].fresh
    BY <1>1, <1>6, GraceEffect DEF GraceExpiry
  <2>2. CASE UNCHANGED <<worker, term>>
    BY <1>3, <2>1, <2>2
  <2>3. ASSUME NEW s \in Slots, s = bind[c].slot, Frees(c, s)
        PROVE  Fine(t)'
    <3>1. worker[s].st \notin {"none", "suspending", "draining", "booting"}
      BY <1>1, <2>1, <2>3, Routable, ReleasedHasBooted
    <3>2. worker'[t].st = worker[t].st
      BY <2>3 DEF Frees
    <3>3. term'[t] = term[t] \/ (t = s /\ term[t] = "none" /\ term'[t] = "queued")
      BY <2>3, <3>1 DEF Frees, Emptied, Dispatch
    <3>4. CASE term'[t] = term[t]
      BY <1>1, <2>1, <3>2, <3>4, AloneStays DEF Alone
    <3>5. CASE t = s /\ term'[t] = "queued"
      BY <1>1, <2>1, <3>1, <3>2, <3>5 DEF Fine, SlotOK, ProcOK, Settling
    <3> QED
      BY <3>3, <3>4, <3>5
  <2> QED
    BY <1>1, <1>6, <2>1, <2>2, <2>3, GraceEffect, Routable
<1>7. ASSUME NEW r \in Requests, NEW c \in Clients, Arrive(r, c)
      PROVE  Fine(t)'
  BY <1>3, <1>7 DEF Arrive
<1>8. ASSUME NEW r \in Requests, ConnClosed(r)
      PROVE  Fine(t)'
  BY <1>3, <1>8 DEF ConnClosed
<1>9. ASSUME NEW c \in Clients, GraceTimerFires(c) \/ StaleExpiry(c)
      PROVE  Fine(t)'
  BY <1>3, <1>9 DEF GraceTimerFires, StaleExpiry, routing
<1> QED
  BY <1>4, <1>5, <1>6, <1>7, <1>8, <1>9 DEF Serve, Grace

\* The spawner: a boot ends with its reservation, a stop with its worker.
LEMMA WorkerSlotsStay ==
    ASSUME PoolInv, NEW s \in Slots,
           Spawn(s) \/ Resume(s) \/ Terminate(s) \/ Backstop(s) \/ ProcessExits(s)
    PROVE  SlotInv'
<1>1. TypeOK /\ ReqInv /\ \A t \in Slots : Fine(t)
  BY DEF PoolInv, RoutingInv, SlotInv, Fine
<1>2. SUFFICES ASSUME NEW t \in Slots
               PROVE  Fine(t)'
  BY DEF SlotInv, Fine
<1>3. CASE SpawnRefused(s) \/ SpawnFails(s) \/ TerminateDeregister(s)
  <2>1. \A q \in Slots : worker'[q] = IF q = s THEN NoWorker ELSE worker[q]
    BY <1>3 DEF SpawnRefused, SpawnFails, TerminateDeregister, ReleaseReservation, Without
  <2>2. NoWorker.st = "none"
    BY DEF NoWorker
  <2>3. CASE t # s
    <3>1. worker'[t].st = worker[t].st
      BY <2>1, <2>3
    <3>2. /\ spawn'[t] = spawn[t] /\ resume'[t] = resume[t] /\ term'[t] = term[t]
          /\ (t \in life' => t \in life) /\ consumed' = consumed
      BY <1>1, <1>3, <2>3 DEF SpawnRefused, SpawnFails, TerminateDeregister, TypeOK
    <3>3. (t \in proc' <=> t \in proc) /\ (t \in left' <=> t \in left)
      BY <1>3, <2>3 DEF SpawnRefused, SpawnFails, TerminateDeregister, StopWorker
    <3> QED
      BY <1>1, <3>1, <3>2, <3>3, AloneStays DEF Alone
  <2>4. CASE t = s /\ SpawnRefused(s)
    BY <1>1, <2>1, <2>2, <2>4 DEF SpawnRefused, TypeOK, Fine, SlotOK, ProcOK, Settling
  <2>5. CASE t = s /\ SpawnFails(s)
    <3>1. t \in proc' => t \in left'
      BY <2>5 DEF SpawnFails, StopWorker
    <3> QED
      BY <1>1, <2>1, <2>2, <2>5, <3>1 DEF SpawnFails, TypeOK, Fine, SlotOK, ProcOK, Settling
  <2>6. CASE t = s /\ TerminateDeregister(s)
    BY <1>1, <2>1, <2>2, <2>6 DEF TerminateDeregister, TypeOK, Fine, SlotOK, ProcOK, Settling
  <2> QED
    BY <1>3, <2>3, <2>4, <2>5, <2>6
<1>4. CASE SpawnStart(s) \/ SpawnFinish(s) \/ ResumeStart(s) \/ WarmSpareConsumed(s)
            \/ ProcessExits(s)
  <2>1. worker' = worker /\ term' = term
    BY <1>4 DEF SpawnStart, SpawnFinish, ResumeStart, WarmSpareConsumed, ProcessExits, routing
  <2>2. CASE t # s
    <3>1. Alone(t)
      BY <1>1, <1>4, <2>1, <2>2 DEF Alone, SpawnStart, SpawnFinish, ResumeStart,
         WarmSpareConsumed,
           ProcessExits, ArmLifetime, TypeOK, routing
    <3> QED
      BY <1>1, <3>1, AloneStays
  <2>3. CASE t = s /\ SpawnStart(s)
    BY <1>1, <2>3 DEF SpawnStart, ElasticSlotCanStart, routing, TypeOK, Fine, SlotOK, ProcOK,
       Settling
  <2>4. CASE t = s /\ SpawnFinish(s)
    BY <1>1, <2>4 DEF SpawnFinish, ArmLifetime, routing, TypeOK, Fine, SlotOK, ProcOK, Settling
  <2>5. CASE t = s /\ (ResumeStart(s) \/ WarmSpareConsumed(s) \/ ProcessExits(s))
    BY <1>1, <2>5 DEF ResumeStart, WarmSpareConsumed, ProcessExits, ArmLifetime, routing,
       TypeOK,
           Fine, SlotOK, ProcOK, Settling
  <2> QED
    BY <1>4, <2>2, <2>3, <2>4, <2>5
<1>5. CASE ResumeFails(s) \/ ExpireLifetime(s)
  <2>1. UNCHANGED <<worker, spawn, proc, left, consumed>> /\ life' \subseteq life
    BY <1>5 DEF ResumeFails, ExpireLifetime, routing
  <2>2. worker[s].st \notin Settling
    BY <1>1, <1>5 DEF ResumeFails, ExpireLifetime, Fine, SlotOK
  <2>3. /\ term'[t] = term[t] \/ (t = s /\ term[t] = "none" /\ term'[t] = "queued")
        /\ resume'[t] = resume[t] \/ (t = s /\ resume'[t] = "none")
    BY <1>1, <1>5, <2>2 DEF ResumeFails, ExpireLifetime, Dispatch, Settling, TypeOK
  <2>4. CASE t # s
    BY <1>1, <2>1, <2>3, <2>4, AloneStays DEF Alone
  <2>5. CASE t = s
    BY <1>1, <2>1, <2>2, <2>3, <2>5 DEF Fine, SlotOK, ProcOK, Settling
  <2> QED
    BY <2>4, <2>5
<1>6. CASE TerminateStop(s)
  <2>1. UNCHANGED <<worker, spawn, resume, consumed>> /\ life' \subseteq life
    BY <1>6 DEF TerminateStop, routing
  <2>2. CASE t # s
    BY <1>1, <1>6, <2>1, <2>2, AloneStays DEF TerminateStop, StopWorker, Alone, TypeOK
  <2>3. CASE t = s
    <3>1. term'[t] = "stopped" /\ term[t] \in {"queued", "blind"}
      BY <1>1, <1>6, <2>3 DEF TerminateStop, TypeOK
    <3>2. (t \in proc' => t \in left') /\ proc' \subseteq proc
      BY <1>1, <1>6, <2>3, <3>1 DEF TerminateStop, StopWorker, Fine, ProcOK
    <3> QED
      BY <1>1, <2>1, <3>1, <3>2 DEF Fine, SlotOK, ProcOK, Settling
  <2> QED
    BY <2>2, <2>3
<1>7. ASSUME NEW st \in States, Moves(s, st), t # s,
             UNCHANGED <<resume, term, proc, left, consumed>>, spawn'[t] = spawn[t],
             t \in life' => t \in life
      PROVE  Fine(t)'
  BY <1>1, <1>7, AloneStays DEF Alone, Moves
<1>8. CASE SpareSuspend(s)
  <2>1. UNCHANGED <<resume, term, proc, left, consumed, life>>
              /\ spawn' = [spawn EXCEPT ![s] = "freezing"]
    BY <1>8 DEF SpareSuspend
  <2>2. "suspending" \in States /\ Moves(s, "suspending")
    BY <1>1, <1>8, MoveEffect DEF States, SpareSuspend
  <2>3. CASE t # s
    BY <1>1, <1>7, <2>1, <2>2, <2>3 DEF TypeOK
  <2>4. CASE t = s
    <3>1. worker'[t].st = "suspending" /\ spawn'[t] = "freezing" /\ worker[t].st = "booting"
      BY <1>1, <1>8, <2>1, <2>2, <2>4 DEF Moves, TypeOK, SpareSuspend
    <3> QED
      BY <1>1, <2>1, <3>1 DEF Fine, SlotOK, ProcOK, Settling
  <2> QED
    BY <2>3, <2>4
<1>9. CASE SpawnRegister(s)
  <2>1. UNCHANGED <<resume, term, proc, left, consumed, life>>
              /\ spawn' = [spawn EXCEPT ![s] = "registered"]
        /\ spawn[s] \in {"booting", "freezing"}
    BY <1>9 DEF SpawnRegister
  <2>2. PICK st \in {"running", "suspended"} : Register(s, st)
    BY <1>9 DEF SpawnRegister
  <2>3. Moves(s, st) /\ st \in States
    BY <1>1, <2>2, RegisterEffect DEF Registers, States
  <2>4. CASE t # s
    BY <1>1, <1>7, <2>1, <2>3, <2>4 DEF TypeOK
  <2>5. CASE t = s
    <3>1. worker'[t].st = st /\ spawn'[t] = "registered" /\ worker[t].st \in Settling
      BY <1>1, <2>1, <2>3, <2>5 DEF Moves, TypeOK, Fine, SlotOK, Settling
    <3> QED
      BY <1>1, <2>1, <2>2, <3>1 DEF Fine, SlotOK, ProcOK, Settling
  <2> QED
    BY <2>4, <2>5
<1>10. CASE ResumeDone(s)
  <2>1. /\ UNCHANGED <<spawn, term, proc, left, consumed>> /\ worker[s].st = "resuming"
        /\ \A q \in Slots : resume'[q] = IF q = s THEN "none" ELSE resume[q]
        /\ \A q \in Slots \ {s} : q \in life' => q \in life
    BY <1>1, <1>10 DEF ResumeDone, ArmLifetime, TypeOK
  <2>2. Moves(s, "running")
    BY <1>1, <1>10, ResumeEffect
  <2>3. CASE t # s
    <3>1. worker'[t].st = worker[t].st /\ resume'[t] = resume[t]
      BY <2>1, <2>2, <2>3 DEF Moves
    <3> QED
      BY <1>1, <2>1, <2>3, <3>1, AloneStays DEF Alone
  <2>4. CASE t = s
    <3>1. worker'[t].st = "running" /\ worker[t].st = "resuming"
      BY <2>1, <2>2, <2>4 DEF Moves
    <3> QED
      BY <1>1, <2>1, <3>1 DEF Fine, SlotOK, ProcOK, Settling
  <2> QED
    BY <2>3, <2>4
<1> QED
  BY <1>3, <1>4, <1>5, <1>6, <1>8, <1>9, <1>10 DEF Spawn, Resume, Terminate, Backstop

\* The whole app: the lock is free, so that nothing is being booted when the pool goes.
LEMMA WholeSlots ==
    ASSUME PoolInv, Whole
    PROVE  SlotInv'
<1>1. TypeOK /\ RoutingInv /\ LockInv /\ \A t \in Slots : Fine(t)
  BY DEF PoolInv, RoutingInv, SlotInv, Fine
<1>2. SUFFICES ASSUME NEW t \in Slots
               PROVE  Fine(t)'
  BY DEF SlotInv, Fine
<1>3. CASE UNCHANGED <<worker, spawn, resume, term, proc, left, life, consumed>>
  BY <1>1, <1>3, AloneStays DEF Alone
<1>4. CASE Reconcile
  <2>1. UNCHANGED <<proc, left, life, consumed, resume>>
    BY <1>4 DEF Reconcile
  <2>2. CASE UNCHANGED <<worker, spawn, term>>
    BY <1>3, <2>1, <2>2
  <2>3. ASSUME NEW stop \in SUBSET Slots, NEW k \in Nat, Reserves(stop, k)
        PROVE  Fine(t)'
    <3>1. CASE worker'[t].st = "booting" /\ spawn'[t] = "queued" /\ term'[t] = "none"
                /\ Untouched(t)
      BY <2>1, <3>1 DEF Untouched, Fine, SlotOK, ProcOK, Settling
    <3>2. CASE /\ worker'[t].st = "draining" /\ worker[t].st \in {"running", "suspended"}
               /\ spawn'[t] = spawn[t] /\ term'[t] = IF term[t] = "none" THEN "queued" ELSE term[t]
      BY <1>1, <2>1, <3>2 DEF Fine, SlotOK, ProcOK, Settling
    <3>3. CASE worker'[t] = worker[t] /\ spawn'[t] = spawn[t] /\ term'[t] = term[t]
      BY <1>1, <2>1, <3>3, AloneStays DEF Alone
    <3>4. \/ worker'[t].st = "booting" /\ spawn'[t] = "queued" /\ term'[t] = "none"
                /\ Untouched(t)
          \/ /\ worker'[t].st = "draining" /\ worker[t].st \in {"running", "suspended"}
             /\ spawn'[t] = spawn[t] /\ term'[t] = IF term[t] = "none" THEN "queued" ELSE term[t]
          \/ worker'[t] = worker[t] /\ spawn'[t] = spawn[t] /\ term'[t] = term[t]
      BY <1>1, <2>3, ReservedSlots
    <3> QED
      BY <3>1, <3>2, <3>3, <3>4
  <2> QED
    BY <1>1, <1>4, <2>2, <2>3, ReserveEffect
<1>5. ASSUME op # "held"
      PROVE  spawn[t] \notin Booting
  BY <1>1, <1>5 DEF LockInv, Holds
<1>6. NoWorker.st = "none"
  BY DEF NoWorker
<1>7. CASE StopApp
  <2>1. /\ UNCHANGED <<spawn, resume, life, consumed>> /\ worker'[t] = NoWorker /\ t \notin proc'
        /\ op # "held"
    BY <1>7 DEF StopApp, DropPool, Without
  <2> QED
    BY <1>1, <1>5, <1>6, <2>1 DEF Fine, SlotOK, ProcOK, Settling, Booting
<1>8. CASE Hibernate
  <2>1. /\ UNCHANGED <<spawn, resume, life, consumed, proc, term>> /\ worker'[t] = NoWorker
        /\ op # "held" /\ left' = left \cup {s \in proc : term[s] = "none"}
    BY <1>8 DEF Hibernate, DropPool, Without
  <2>2. term[t] \in {"none", "queued", "blind", "stopped"}
    BY <1>1 DEF TypeOK
  <2> QED
    BY <1>1, <1>5, <1>6, <2>1, <2>2 DEF Fine, SlotOK, ProcOK, Settling, Booting
<1>9. CASE SettingsDrainAborted
  <2>1. PICK keep \in SUBSET proc :
          /\ Draining /\ proc' = keep /\ left' = left \cap keep
          /\ LET out == {s \in proc \ keep : worker[s].st # "none"}
             IN  worker' = Without(out) /\ life' = life \ out
          /\ UNCHANGED <<spawn, resume, term, consumed>>
    BY <1>9 DEF SettingsDrainAborted
  <2>2. spawn[t] \notin Booting
    BY <1>5, <2>1 DEF Draining
  <2>3. CASE t \in keep
    <3>1. worker'[t] = worker[t] /\ t \in proc /\ t \in proc' /\ (t \in left' <=> t \in left)
                /\ (t \in life' => t \in life)
      BY <2>1, <2>3 DEF Without
    <3> QED
      BY <1>1, <2>1, <3>1, AloneStays DEF Alone
  <2>4. CASE t \notin keep
    <3>1. t \notin proc' /\ worker'[t] \in {worker[t], NoWorker} /\ (t \in life' => t \in life)
      BY <2>1, <2>4 DEF Without
    <3> QED
      BY <1>1, <1>6, <2>1, <2>2, <3>1 DEF Fine, SlotOK, ProcOK, Settling, Booting
  <2> QED
    BY <2>3, <2>4
<1>10. CASE WarmRetryFires \/ OpenPool \/ BeginSettingsDrain \/ SetPoolWarmSpares
  BY <1>3, <1>10 DEF WarmRetryFires, OpenPool, BeginSettingsDrain, SetPoolWarmSpares, routing
<1> QED
  BY <1>4, <1>7, <1>8, <1>9, <1>10 DEF Whole

\* Every step keeps slots and processes accounted for.
LEMMA SlotStep ==
    ASSUME PoolInv, TypeOK', Next
    PROVE  SlotInv'
BY ClientSlots, WorkerSlotsStay, WholeSlots DEF Next, Whole

\* Who holds the lock of app operations: at most one boot or thaw.
LEMMA LockStep ==
    ASSUME PoolInv, Next
    PROVE  LockInv'
<1>1. TypeOK /\ LockInv /\ ReqInv /\ RoutingInv
  BY DEF PoolInv, RoutingInv
\* Nobody takes the lock.
<1>2. ASSUME op' = op, \A s \in Slots : /\ spawn'[s] \in Booting => spawn[s] \in Booting
                                        /\ resume'[s] = "thawing" => resume[s] = "thawing"
      PROVE  LockInv'
  BY <1>1, <1>2 DEF LockInv, Holds
<1>3. ASSUME NEW s \in Slots, op = "free" \/ Holds(s),
             op' = "held" \/ (spawn'[s] \notin Booting /\ resume'[s] # "thawing"),
             spawn'[s] \in Booting => resume'[s] # "thawing",
             \A t \in Slots \ {s} : spawn'[t] = spawn[t] /\ resume'[t] = resume[t]
      PROVE  LockInv'
  <2>1. \A t \in Slots \ {s} : ~Holds(t)
    BY <1>1, <1>3 DEF LockInv
  <2>2. \A t \in Slots \ {s} : ~Holds(t)'
    BY <1>3, <2>1 DEF Holds
  <2>3. Holds(s)' => op' = "held"
    BY <1>3 DEF Holds
  <2>4. ASSUME NEW t \in Slots
        PROVE  /\ Holds(t)' => op' = "held"
               /\ spawn'[t] \in Booting => resume'[t] # "thawing"
    BY <1>3, <2>2, <2>3, <2>4 DEF Holds
  <2> QED
    BY <2>2, <2>4 DEF LockInv
<1>4. ASSUME op # "held", UNCHANGED <<spawn, resume>>
      PROVE  LockInv'
  BY <1>1, <1>4 DEF LockInv, Holds
<1>5. ASSUME NEW r \in Requests, Serve(r)
      PROVE  LockInv'
  <2>1. op' = op
    BY <1>5 DEF Serve, Arrive, BindRoute, PlaceClient, ConnClosed
  <2>2. CASE ~PlaceClient(r)
    BY <1>2, <1>5, <2>1, <2>2 DEF Serve, Arrive, BindRoute, ConnClosed
  <2>3. CASE PlaceClient(r)
    <3>1. Places(req[r].c)
      BY <1>1, <2>3, PlaceEffect
    <3>2. \A s \in Slots : /\ spawn'[s] \in Booting => spawn[s] \in Booting
                           /\ resume'[s] = "thawing" => resume[s] = "thawing"
      BY <1>1, <3>1 DEF Places, Booting, TypeOK
    <3> QED
      BY <1>2, <2>1, <3>2
  <2> QED
    BY <2>2, <2>3
<1>6. ASSUME NEW c \in Clients, Grace(c)
      PROVE  LockInv'
  BY <1>2, <1>6 DEF Grace, GraceTimerFires, GraceExpiry, StaleExpiry, routing
<1>7. ASSUME NEW s \in Slots,
             Spawn(s) \/ Resume(s) \/ Terminate(s) \/ Backstop(s) \/ ProcessExits(s)
      PROVE  LockInv'
  <2>1. CASE SpawnRefused(s)
    BY <1>1, <1>2, <2>1 DEF SpawnRefused, Booting, TypeOK
  <2>2. CASE SpawnStart(s)
    <3>1. resume[s] # "thawing"
      BY <1>1, <2>2 DEF SpawnStart, LockInv, Holds
    <3> QED
      BY <1>1, <1>3, <2>2, <3>1 DEF SpawnStart, TypeOK
  <2>3. CASE SpawnFails(s) \/ SpawnFinish(s)
    <3>1. Holds(s) /\ resume[s] # "thawing"
      BY <1>1, <2>3 DEF SpawnFails, SpawnFinish, LockInv, Holds, Booting
    <3>2. spawn'[s] = "none" /\ resume' = resume /\ \A t \in Slots \ {s} : spawn'[t] = spawn[t]
      BY <1>1, <2>3 DEF SpawnFails, SpawnFinish, TypeOK
    <3> QED
      BY <1>3, <3>1, <3>2 DEF Booting
  <2>4. CASE SpareSuspend(s) \/ SpawnRegister(s)
    BY <1>1, <1>2, <2>4 DEF SpareSuspend, SpawnRegister, Booting, TypeOK
  <2>5. CASE ResumeStart(s)
    <3>1. spawn[s] \notin Booting /\ op = "free" /\ spawn' = spawn
      BY <1>1, <2>5 DEF ResumeStart, LockInv, Holds
    <3>2. \A t \in Slots \ {s} : resume'[t] = resume[t]
      BY <1>1, <2>5 DEF ResumeStart, TypeOK
    <3>3. op' = "held" \/ resume'[s] = "none"
      BY <1>1, <2>5 DEF ResumeStart, TypeOK
    <3> QED
      BY <1>3, <3>1, <3>2, <3>3
  <2>6. CASE ResumeDone(s) \/ ResumeFails(s)
    <3>1. Holds(s) /\ spawn[s] \notin Booting
      BY <1>1, <2>6 DEF ResumeDone, ResumeFails, LockInv, Holds
    <3>2. resume'[s] = "none" /\ spawn' = spawn /\ \A t \in Slots \ {s} : resume'[t] = resume[t]
      BY <1>1, <2>6 DEF ResumeDone, ResumeFails, TypeOK
    <3> QED
      BY <1>3, <3>1, <3>2
  <2>7. CASE Terminate(s) \/ Backstop(s) \/ ProcessExits(s)
    BY <1>2, <2>7 DEF Terminate, TerminateStop, TerminateDeregister, Backstop, ExpireLifetime,
         WarmSpareConsumed, ProcessExits, routing
  <2> QED
    BY <1>7, <2>1, <2>2, <2>3, <2>4, <2>5, <2>6, <2>7 DEF Spawn, Resume
<1>8. CASE Whole
  <2>1. CASE Reconcile
    <3>1. op' = op /\ resume' = resume
      BY <2>1 DEF Reconcile
    <3>2. \A s \in Slots : spawn'[s] \in {spawn[s], "queued"}
      <4>1. CASE spawn' = spawn
        BY <4>1
      <4>2. ASSUME NEW stop \in SUBSET Slots, NEW k \in Nat, Reserves(stop, k)
            PROVE  \A s \in Slots : spawn'[s] \in {spawn[s], "queued"}
        BY <4>2 DEF Reserves
      <4> QED
        BY <1>1, <2>1, <4>1, <4>2, ReserveEffect
    <3> QED
      BY <1>2, <3>1, <3>2 DEF Booting
  <2>2. CASE WarmRetryFires \/ OpenPool \/ SetPoolWarmSpares
    BY <1>2, <2>2 DEF WarmRetryFires, OpenPool, SetPoolWarmSpares, routing
  <2>3. CASE StopApp \/ Hibernate \/ BeginSettingsDrain \/ SettingsDrainAborted
    BY <1>4, <2>3 DEF StopApp, Hibernate, DropPool, BeginSettingsDrain, SettingsDrainAborted,
       Draining, routing
  <2> QED
    BY <1>8, <2>1, <2>2, <2>3 DEF Whole
<1> QED
  BY <1>5, <1>6, <1>7, <1>8 DEF Next, Whole

-----------------------------------------------------------------------------
(* Connections and requests under way.                                     *)

\* A request that a step leaves as it was; a client whose connections it does.
AsBefore(r) ==
    /\ req'[r].at = req[r].at /\ req'[r].c = req[r].c /\ req'[r].s = req[r].s
    /\ req'[r].own <=> req[r].own
StaysLone(c) ==
    /\ bind'[c].slot = bind[c].slot /\ bind'[c].live = bind[c].live
    /\ Bound(c) /\ worker'[bind[c].slot].st = "booting" =>
         /\ worker[bind[c].slot].st = "booting"
         /\ bind'[c].timer = bind[c].timer /\ (late'[c].fresh => late[c].fresh)

\* Then connections and placements stay what they were.
LEMMA LoneKept ==
    ASSUME LoneInv, ReqInv, \A r \in Requests : AsBefore(r) \/ (~req[r].own /\ Clears(r)),
           \A c \in Clients : StaysLone(c)
    PROVE  LoneInv'
<1>1. Apart'
  BY DEF LoneInv, Apart, Placing, AsBefore, Clears, Sets
<1>2. ASSUME NEW r \in Requests
      PROVE  Leads(r)'
  <2>1. CASE AsBefore(r) /\ req[r].at # "idle"
    BY <1>2, <2>1 DEF LoneInv, Leads, AsBefore, StaysLone, Bound, ReqInv
  <2>2. CASE AsBefore(r) /\ req[r].at = "idle"
    BY <1>2, <2>2 DEF LoneInv, Leads, AsBefore, ReqInv
  <2>3. CASE Clears(r)
    BY <1>2, <2>3 DEF Leads, Clears, Sets
  <2> QED
    BY <1>2, <2>1, <2>2, <2>3
<1>3. ASSUME NEW c \in Clients
      PROVE  Counted(c)'
  <2>1. Mine(c)' = Mine(c)
    BY DEF Mine, AsBefore, Clears, Sets
  <2>2. bind'[c].live = Cardinality(Mine(c))'
    BY <1>3, <2>1 DEF LoneInv, Counted, StaysLone
  <2> QED
    BY <1>3, <2>2 DEF LoneInv, Counted, StaysLone, Bound
<1> QED
  BY <1>1, <1>2, <1>3 DEF LoneInv

\* Workers are removed with their clients.
LEMMA LoneRemoves ==
    ASSUME LoneInv, ReqInv, NEW S \in SUBSET Slots, Removes(S)
    PROVE  LoneInv'
<1>1. Apart'
  BY DEF LoneInv, Apart, Placing, Removes
<1>2. NoBinding.slot = NoSlot /\ NoBinding.live = 0 /\ NoSlot \notin Slots
  BY DEF NoBinding, NoSlot, Slots
<1>3. ASSUME NEW c \in Clients
      PROVE  \/ bind[c].slot \in S /\ bind'[c] = NoBinding
             \/ bind[c].slot \notin S /\ bind'[c] = bind[c] /\ late'[c] = late[c]
  BY <1>3 DEF Removes
<1>4. ASSUME NEW r \in Requests
      PROVE  Leads(r)'
  <2>1. /\ req'[r].at = req[r].at /\ req'[r].c = req[r].c /\ req'[r].s = req[r].s
        /\ req'[r].own <=> req[r].own /\ bind[req[r].c].slot \notin S
    BY <1>4 DEF Removes
  <2>2. CASE req[r].at = "idle"
    BY <1>4, <2>1, <2>2 DEF Leads, ReqInv
  <2>3. CASE req[r].at # "idle"
    <3>1. req[r].c \in Clients
      BY <1>4, <2>3 DEF ReqInv
    <3> QED
      BY <1>2, <1>3, <1>4, <2>1, <3>1 DEF LoneInv, Leads, Bound
  <2> QED
    BY <2>2, <2>3
<1>5. ASSUME NEW c \in Clients
      PROVE  Counted(c)'
  <2>1. CASE bind[c].slot \in S
    <3>1. Mine(c)' = {}
      BY <2>1 DEF Mine, Removes
    <3>2. Cardinality(Mine(c))' = 0
      BY <3>1, FS_EmptySet
    <3>3. bind'[c] = NoBinding
      BY <1>3, <1>5, <2>1
    <3> QED
      BY <1>2, <3>2, <3>3 DEF Counted, Bound
  <2>2. CASE bind[c].slot \notin S
    <3>1. Mine(c)' = Mine(c)
      BY <2>2 DEF Mine, Removes
    <3>2. Cardinality(Mine(c))' = Cardinality(Mine(c))
      BY <3>1
    <3>3. bind'[c] = bind[c] /\ late'[c] = late[c]
      BY <1>3, <1>5, <2>2
    <3>4. Bound(c) /\ worker'[bind[c].slot].st = "booting" => worker[bind[c].slot].st = "booting"
      <4>1. CASE bind[c].slot \in Slots
        BY <2>2, <4>1 DEF Removes
      <4>2. CASE bind[c].slot \notin Slots
        BY <4>2 DEF Removes, BindingType, Bound
      <4> QED
        BY <4>1, <4>2
    <3> QED
      BY <1>5, <3>2, <3>3, <3>4 DEF LoneInv, Counted, Bound
  <2> QED
    BY <2>1, <2>2
<1> QED
  BY <1>1, <1>4, <1>5 DEF LoneInv

\* A client is released: nobody had a connection.
LEMMA LoneFrees ==
    ASSUME LoneInv, ReqInv, NEW c \in Clients, NEW s \in Slots, Frees(c, s)
    PROVE  LoneInv'
<1>1. Apart'
  BY DEF LoneInv, Apart, Placing, Frees
<1>2. NoBinding.slot = NoSlot /\ NoBinding.live = 0 /\ NoSlot \notin Slots
  BY DEF NoBinding, NoSlot, Slots
<1>3. ASSUME NEW r \in Requests
      PROVE  Leads(r)'
  <2>1. /\ req'[r].at = req[r].at /\ req'[r].c = req[r].c /\ req'[r].s = req[r].s
        /\ req'[r].own <=> req[r].own /\ req[r].c # c
    BY <1>3 DEF Frees
  <2>2. CASE req[r].at = "idle"
    BY <1>3, <2>1, <2>2 DEF Leads, ReqInv
  <2>3. CASE req[r].at # "idle"
    <3>1. req[r].c \in Clients
      BY <1>3, <2>3 DEF ReqInv
    <3>2. bind'[req[r].c] = IF req[r].c = c THEN NoBinding ELSE bind[req[r].c]
      BY <3>1 DEF Frees
    <3> QED
      BY <1>2, <1>3, <2>1, <3>1, <3>2 DEF LoneInv, Leads, Bound
  <2> QED
    BY <2>2, <2>3
<1>4. ASSUME NEW b \in Clients
      PROVE  Counted(b)'
  <2>1. CASE b = c
    <3>1. Mine(b)' = {}
      BY <2>1 DEF Mine, Frees
    <3>2. Cardinality(Mine(b))' = 0
      BY <3>1, FS_EmptySet
    <3>3. bind'[b] = NoBinding
      BY <2>1 DEF Frees
    <3> QED
      BY <1>2, <3>2, <3>3 DEF Counted, Bound
  <2>2. CASE b # c
    <3>1. Mine(b)' = Mine(b)
      BY <2>2 DEF Mine, Frees
    <3>2. Cardinality(Mine(b))' = Cardinality(Mine(b))
      BY <3>1
    <3>3. bind'[b] = bind[b] /\ late'[b] = late[b]
      BY <1>4, <2>2 DEF Frees
    <3>4. Bound(b) /\ worker'[bind[b].slot].st = "booting" => worker[bind[b].slot].st = "booting"
      BY <1>4, <3>3 DEF Frees, BindingType, Bound
    <3> QED
      BY <1>4, <3>2, <3>3, <3>4 DEF LoneInv, Counted, Bound
  <2> QED
    BY <2>1, <2>2
<1> QED
  BY <1>1, <1>3, <1>4 DEF LoneInv

\* A connection more, a connection less.
LEMMA MineMore ==
    ASSUME NEW r \in Requests, NEW c, ~(req[r].own /\ req[r].c = c), req'[r].own, req'[r].c = c,
           \A q \in Requests \ {r} : req'[q] = req[q]
    PROVE  /\ Cardinality(Mine(c))' = Cardinality(Mine(c)) + 1
           /\ \A b : b # c /\ ~(req[r].own /\ req[r].c = b) => Mine(b)' = Mine(b)
<1>1. Mine(c)' = Mine(c) \cup {r} /\ r \notin Mine(c)
  BY DEF Mine
<1>2. Cardinality(Mine(c) \cup {r}) = Cardinality(Mine(c)) + 1
  BY <1>1, Finite, FS_AddElement
<1>3. ASSUME NEW b, b # c, ~(req[r].own /\ req[r].c = b)
      PROVE  Mine(b)' = Mine(b)
  BY <1>3 DEF Mine
<1> QED
  BY <1>1, <1>2, <1>3

\* The same for a connection that closes.
LEMMA MineLess ==
    ASSUME NEW r \in Requests, NEW c, req[r].own /\ req[r].c = c, ~req'[r].own,
           \A q \in Requests \ {r} : req'[q] = req[q]
    PROVE  /\ Cardinality(Mine(c))' = Cardinality(Mine(c)) - 1
           /\ Cardinality(Mine(c)) >= 1
           /\ \A b : b # c => Mine(b)' = Mine(b)
<1>1. Mine(c)' = Mine(c) \ {r} /\ r \in Mine(c)
  BY DEF Mine
<1>2. Cardinality(Mine(c) \ {r}) = Cardinality(Mine(c)) - 1
  BY <1>1, Finite, FS_RemoveElement
<1>3. Cardinality(Mine(c)) \in Nat /\ Cardinality(Mine(c) \ {r}) \in Nat
  <2>1. IsFiniteSet(Mine(c))
    BY Finite
  <2>2. IsFiniteSet(Mine(c) \ {r})
    BY <2>1, FS_RemoveElement
  <2> QED
    BY <2>1, <2>2, FS_CardinalityType
<1>4. \A b : b # c => Mine(b)' = Mine(b)
  BY DEF Mine
<1> QED
  BY <1>1, <1>2, <1>3, <1>4

\* The requests of other clients, when one changes.
LEMMA LoneOthers ==
    ASSUME LoneInv, ReqInv, NEW r \in Requests, NEW c \in Clients, req'[r].c \in {c, NoClient},
           req[r].at # "idle" => req[r].c = c, NoClient \notin Clients,
           \A q \in Requests \ {r} : req'[q] = req[q],
           \A b \in Clients \ {c} : StaysLone(b), req'[r].own => req'[r].c = c
    PROVE  /\ \A q \in Requests \ {r} : req[q].c # c => Leads(q)'
           /\ \A b \in Clients \ {c} : Counted(b)'
<1>1. ASSUME NEW q \in Requests \ {r}, req[q].c # c
      PROVE  Leads(q)'
  <2>1. CASE req[q].at = "idle"
    BY <1>1, <2>1 DEF Leads, ReqInv
  <2>2. CASE req[q].at # "idle"
    <3>1. req[q].c \in Clients \ {c} /\ req'[q] = req[q]
      BY <1>1, <2>2 DEF ReqInv
    <3>2. bind'[req[q].c].slot = bind[req[q].c].slot
      BY <3>1 DEF StaysLone
    <3> QED
      BY <1>1, <3>1, <3>2 DEF LoneInv, Leads, Bound
  <2> QED
    BY <2>1, <2>2
<1>2. ASSUME NEW b \in Clients \ {c}
      PROVE  Counted(b)'
  <2>1. Mine(b)' = Mine(b)
    BY <1>2 DEF Mine, ReqInv
  <2>2. bind'[b].live = Cardinality(Mine(b))'
    BY <1>2, <2>1 DEF LoneInv, Counted, StaysLone
  <2> QED
    BY <1>2, <2>2 DEF LoneInv, Counted, StaysLone, Bound
<1> QED
  BY <1>1, <1>2

\* The steps of a request.
LEMMA ArriveLone ==
    ASSUME PoolInv, ~Burst, NEW r \in Requests, NEW c \in Clients, Arrive(r, c)
    PROVE  LoneInv'
<1>1. TypeOK /\ ReqInv /\ RoutingInv /\ LoneInv /\ NoClient \notin Clients
  BY PoolAssumption DEF PoolInv, RoutingInv
<1>2. /\ req[r].at = "idle" /\ ~req[r].own /\ worker' = worker /\ late' = late
      /\ \A q \in Requests : Placing(q) => req[q].c # c
  BY <1>1 DEF Arrive, Placing, ReqInv
<1>3. PICK s : Arrives(r, c, s)
  BY <1>1, ArriveEffect
<1>4. /\ \A q \in Requests \ {r} : req'[q] = req[q]
      /\ req'[r].c = c /\ req'[r].s = s /\ \A b \in Clients \ {c} : bind'[b] = bind[b]
  BY <1>3 DEF Arrives, Sets, Opens
<1>5. /\ \A q \in Requests \ {r} : req[q].c # c => Leads(q)'
      /\ \A b \in Clients \ {c} : Counted(b)'
  <2>1. \A b \in Clients \ {c} : StaysLone(b)
    BY <1>2, <1>4 DEF StaysLone
  <2> QED
    BY <1>1, <1>2, <1>4, <2>1, LoneOthers
<1>6. Apart'
  BY <1>1, <1>2, <1>4 DEF LoneInv, Apart, Placing
<1>7. bind'[c].slot = bind[c].slot
  BY <1>3 DEF Arrives, Opens
<1>8. ASSUME NEW q \in Requests, q # r, req[q].c = c
      PROVE  Leads(q)'
  BY <1>1, <1>4, <1>7, <1>8 DEF LoneInv, Leads, Bound
<1>9. Leads(r)'
  BY <1>3, <1>4, <1>7 DEF Arrives, Sets, Leads, Bound
<1>10. Counted(c)'
  <2>1. CASE ~req'[r].own
    <3>1. Mine(c)' = Mine(c)
      BY <1>2, <1>4, <2>1 DEF Mine
    <3>2. bind' = bind
      BY <1>3, <2>1 DEF Arrives, Sets
    <3>3. Cardinality(Mine(c))' = Cardinality(Mine(c))
      BY <3>1
    <3> QED
      BY <1>1, <1>2, <3>2, <3>3 DEF LoneInv, Counted, Bound
  <2>2. CASE req'[r].own
    <3>1. Bound(c) /\ s = bind[c].slot /\ Serves(s) /\ Opens(c)
      BY <1>3, <2>2 DEF Arrives, Sets
    <3>2. Cardinality(Mine(c))' = Cardinality(Mine(c)) + 1
      BY <1>2, <1>4, <2>2, MineMore
    <3>3. bind'[c].live = Cardinality(Mine(c))'
      BY <1>1, <3>1, <3>2 DEF LoneInv, Counted, Opens
    <3>4. worker'[bind'[c].slot].st # "booting"
      BY <1>2, <1>7, <3>1 DEF Serves
    <3> QED
      BY <3>3, <3>4 DEF Counted, Bound
  <2> QED
    BY <2>1, <2>2
<1>11. \A q \in Requests : Leads(q)'
  BY <1>5, <1>8, <1>9
<1>12. \A b \in Clients : Counted(b)'
  BY <1>5, <1>10
<1> QED
  BY <1>6, <1>11, <1>12 DEF LoneInv

\* A client that is not bound has no connection and no other request to be placed.
LEMMA Unconnected ==
    ASSUME LoneInv, ReqInv, NEW c \in Clients, ~Bound(c)
    PROVE  Mine(c) = {} /\ Cardinality(Mine(c)) = 0
<1>1. Mine(c) = {}
  BY DEF Mine, ReqInv
<1> QED
  BY <1>1, FS_EmptySet

\* BindRoute: the first connection of a client that had none.
LEMMA BindRouteLone ==
    ASSUME PoolInv, NEW r \in Requests, BindRoute(r)
    PROVE  LoneInv'
<1> DEFINE c == req[r].c
           s == req[r].s
<1>1. TypeOK /\ ReqInv /\ RoutingInv /\ LoneInv /\ NoClient \notin Clients
  BY PoolAssumption DEF PoolInv, RoutingInv
<1>2. /\ req[r].at = "bind" /\ c \in Clients /\ s \in Slots /\ late' = late
      /\ ~req[r].own /\ ~Bound(c)
  BY <1>1, BindRouteEffect DEF BindRoute, ReqInv, LoneInv, Leads
<1>3. CASE Clears(r) /\ UNCHANGED <<worker, bind>>
  <2>1. \A b \in Clients : StaysLone(b)
    BY <1>2, <1>3 DEF StaysLone
  <2>2. \A q \in Requests : AsBefore(q) \/ (~req[q].own /\ Clears(q))
    BY <1>2, <1>3 DEF AsBefore, Clears, Sets
  <2> QED
    BY <1>1, <2>1, <2>2, LoneKept
<1>4. ASSUME NEW d \in Clients, d = c, NEW u \in Slots, u = s,
             Sets(r, "open", d, u, TRUE), Serves(u), Binds(d, u, "running"),
             OneBinds(d, u, 1, "none")
      PROVE  LoneInv'
  <2>1. /\ \A q \in Requests \ {r} : req'[q] = req[q]
        /\ req'[r].at = "open" /\ req'[r].c = d /\ req'[r].s = u /\ req'[r].own
        /\ \A b \in Clients \ {d} : bind'[b] = bind[b]
        /\ bind'[d].slot = u /\ bind'[d].live = 1
        /\ \A t \in Slots : worker'[t].st = worker[t].st
    BY <1>4 DEF Sets, OneBinds, Binds, Serves
  <2>2. /\ \A q \in Requests \ {r} : req[q].c # d => Leads(q)'
        /\ \A b \in Clients \ {d} : Counted(b)'
    <3>1. \A b \in Clients \ {d} : StaysLone(b)
      BY <1>1, <1>2, <2>1 DEF StaysLone, Bound, TypeOK, BindingType
    <3> QED
      BY <1>1, <1>2, <1>4, <2>1, <3>1, LoneOthers
  <2>3. Apart'
    BY <1>1, <2>1 DEF LoneInv, Apart, Placing
  <2>4. ASSUME NEW q \in Requests, q # r, req[q].c = d
        PROVE  Leads(q)'
    <3>1. ~req[q].own
      BY <1>1, <1>2, <1>4, <2>4 DEF ReqInv
    <3>2. req[q].at # "bind"
      BY <1>1, <1>2, <1>4, <2>4 DEF LoneInv, Apart, Placing
    <3> QED
      BY <2>1, <2>4, <3>1, <3>2 DEF Leads
  <2>5. Leads(r)'
    BY <2>1 DEF Leads
  <2>6. Counted(d)'
    <3>1. Cardinality(Mine(d)) = 0 /\ Cardinality(Mine(d))' = Cardinality(Mine(d)) + 1
      BY <1>1, <1>2, <1>4, <2>1, Unconnected, MineMore
    <3>2. worker'[bind'[d].slot].st # "booting"
      BY <1>4, <2>1 DEF Serves
    <3> QED
      BY <2>1, <3>1, <3>2 DEF Counted, Bound
  <2>7. \A q \in Requests : Leads(q)'
    BY <2>2, <2>4, <2>5
  <2>8. \A b \in Clients : Counted(b)'
    BY <2>2, <2>6
  <2> QED
    BY <2>3, <2>7, <2>8 DEF LoneInv
<1> QED
  BY <1>1, <1>2, <1>3, <1>4, BindRouteEffect DEF Connected

\* PlaceClient: a client that waits has no connection.
LEMMA PlaceLone ==
    ASSUME PoolInv, NEW r \in Requests, PlaceClient(r)
    PROVE  LoneInv'
<1> DEFINE c == req[r].c
<1>1. TypeOK /\ Fresh /\ BindInv /\ ReqInv /\ RoutingInv /\ LoneInv /\ NoClient \notin Clients
  BY PoolAssumption DEF PoolInv, RoutingInv
<1>2. /\ req[r].at = "place" /\ c \in Clients /\ ~req[r].own /\ Clears(r) /\ Places(c)
  BY <1>1, PlaceEffect DEF ReqInv
<1>3. CASE UNCHANGED <<worker, bind, late>>
  <2>1. \A b \in Clients : StaysLone(b)
    BY <1>3 DEF StaysLone
  <2>2. \A q \in Requests : AsBefore(q) \/ (~req[q].own /\ Clears(q))
    BY <1>2 DEF AsBefore, Clears, Sets
  <2> QED
    BY <1>1, <2>1, <2>2, LoneKept
<1>4. ASSUME NEW s \in Slots, NEW st \in States, NEW timer, Waits(c, s, st, timer),
             st = "booting" => timer = "none" /\ (worker[s].st = "none"
                   \/ worker[s].st = "booting")
      PROVE  LoneInv'
  <2>1. PICK d \in Clients : d = c
    BY <1>2
  <2>2. /\ \A q \in Requests \ {r} : req'[q] = req[q]
        /\ req'[r].at = "idle" /\ req'[r].c = NoClient /\ ~req'[r].own
        /\ \A b \in Clients \ {d} : bind'[b] = bind[b]
        /\ bind'[d].slot = s /\ bind'[d].live = 0 /\ bind'[d].timer = timer
        /\ \A t \in Slots \ {s} : worker'[t] = worker[t]
        /\ worker'[s].st = st /\ ~Bound(d)
        /\ ~late'[d].fresh /\ \A b \in Clients \ {d} : late'[b] = late[b]
    BY <1>1, <1>2, <1>4, <2>1 DEF Clears, Sets, Waits, OneBinds, Binds, TypeOK
  <2>3. /\ \A q \in Requests \ {r} : req[q].c # d => Leads(q)'
        /\ \A b \in Clients \ {d} : Counted(b)'
    <3>1. ASSUME NEW b \in Clients \ {d}
          PROVE  StaysLone(b)
      <4>1. Bound(b) => /\ bind[b].slot \in Slots /\ worker[bind[b].slot].st # "none"
        BY <1>1, <3>1, Routable
      <4>2. Bound(b) /\ worker'[bind[b].slot].st = "booting"
                  => worker[bind[b].slot].st = "booting"
        BY <1>4, <2>2, <4>1
      <4> QED
        BY <2>2, <3>1, <4>2 DEF StaysLone
    <3> QED
      BY <1>1, <1>2, <2>1, <2>2, <3>1, LoneOthers
  <2>4. Apart'
    BY <1>1, <2>2 DEF LoneInv, Apart, Placing
  <2>5. ASSUME NEW q \in Requests, q # r, req[q].c = d
        PROVE  Leads(q)'
    <3>1. ~req[q].own
      BY <1>1, <2>2, <2>5 DEF ReqInv
    <3>2. req[q].at # "bind"
      BY <1>1, <1>2, <2>1, <2>5 DEF LoneInv, Apart, Placing
    <3> QED
      BY <2>2, <2>5, <3>1, <3>2 DEF Leads
  <2>6. Leads(r)'
    BY <2>2 DEF Leads
  <2>7. Counted(d)'
    <3>1. Mine(d)' = Mine(d)
      BY <1>2, <2>1, <2>2 DEF Mine
    <3>2. Cardinality(Mine(d))' = 0
      BY <1>1, <2>2, <3>1, Unconnected
    <3> QED
      BY <1>4, <2>2, <3>2 DEF Counted, Bound
  <2>8. \A q \in Requests : Leads(q)'
    BY <2>3, <2>5, <2>6
  <2>9. \A b \in Clients : Counted(b)'
    BY <2>3, <2>7
  <2> QED
    BY <2>4, <2>8, <2>9 DEF LoneInv
<1>5. ASSUME NEW s \in Slots, NEW st \in {"running", "booting", "resuming"},
             Waits(c, s, st, IF st = "running" THEN "armed" ELSE "none"), worker[s].st = st
      PROVE  LoneInv'
  BY <1>4, <1>5 DEF States
<1>6. ASSUME NEW s \in Slots, Waits(c, s, "resuming", "none")
      PROVE  LoneInv'
  BY <1>4, <1>6 DEF States
<1>7. CASE Waits(c, nextSlot, "booting", "none") /\ nextSlot \in Slots
  <2>1. worker[nextSlot].st = "none"
    BY <1>1, <1>7 DEF Fresh, Untouched, NoWorker, TypeOK
  <2> QED
    BY <1>4, <1>7, <2>1 DEF States
<1> QED
  BY <1>2, <1>3, <1>5, <1>6, <1>7 DEF Places

\* ConnClosed: the connection was counted, unless its binding is gone.
LEMMA CloseLone ==
    ASSUME PoolInv, NEW r \in Requests, ConnClosed(r)
    PROVE  LoneInv'
<1>1. TypeOK /\ ReqInv /\ RoutingInv /\ LoneInv /\ NoClient \notin Clients
  BY PoolAssumption DEF PoolInv, RoutingInv
<1>2. req[r].at = "open" /\ Clears(r) /\ req[r].c \in Clients /\ worker' = worker /\ late' = late
  BY <1>1, ClearEffect DEF ConnClosed, ReqInv
<1>3. CASE ~req[r].own
  <2>1. bind' = bind
    BY <1>3 DEF ConnClosed
  <2>2. \A b \in Clients : StaysLone(b)
    BY <1>2, <2>1 DEF StaysLone
  <2>3. \A q \in Requests : AsBefore(q) \/ (~req[q].own /\ Clears(q))
    BY <1>2, <1>3 DEF AsBefore, Clears, Sets
  <2> QED
    BY <1>1, <2>2, <2>3, LoneKept
<1>4. ASSUME req[r].own, NEW c \in Clients, c = req[r].c
      PROVE  LoneInv'
  <2>1. /\ \A q \in Requests \ {r} : req'[q] = req[q]
        /\ req'[r].at = "idle" /\ req'[r].c = NoClient /\ ~req'[r].own
    BY <1>2 DEF Clears, Sets
  <2>2. /\ Cardinality(Mine(c))' = Cardinality(Mine(c)) - 1 /\ Cardinality(Mine(c)) >= 1
    BY <1>4, <2>1, MineLess
  <2>3. Bound(c) /\ bind[c].live = Cardinality(Mine(c)) /\ bind[c].live > 0
    BY <1>1, <1>4, <2>2, Finite DEF LoneInv, Counted, ReqInv
  <2>4. bind' = [bind EXCEPT ![c].live = bind[c].live - 1,
                   ![c].timer = IF bind[c].live - 1 = 0 /\ @ = "none" THEN "armed" ELSE @]
    BY <1>4, <2>3 DEF ConnClosed
  <2>5. /\ \A b \in Clients \ {c} : bind'[b] = bind[b]
        /\ bind'[c].slot = bind[c].slot /\ bind'[c].live = bind[c].live - 1
    BY <1>1, <2>4 DEF TypeOK, BindingType
  <2>6. worker[bind[c].slot].st # "booting"
    BY <1>1, <2>3 DEF LoneInv, Counted
  <2>7. /\ \A q \in Requests \ {r} : req[q].c # c => Leads(q)'
        /\ \A b \in Clients \ {c} : Counted(b)'
    <3>1. \A b \in Clients \ {c} : StaysLone(b)
      BY <1>2, <2>5 DEF StaysLone
    <3> QED
      BY <1>1, <1>4, <2>1, <3>1, LoneOthers
  <2>8. Apart'
    BY <1>1, <2>1 DEF LoneInv, Apart, Placing
  <2>9. ASSUME NEW q \in Requests, q # r, req[q].c = c
        PROVE  Leads(q)'
    BY <1>1, <2>1, <2>5, <2>9 DEF LoneInv, Leads, Bound
  <2>10. Leads(r)'
    BY <2>1 DEF Leads
  <2>11. Counted(c)'
    BY <1>2, <2>2, <2>3, <2>5, <2>6 DEF Counted
  <2>12. \A q \in Requests : Leads(q)'
    BY <2>7, <2>9, <2>10
  <2>13. \A b \in Clients : Counted(b)'
    BY <2>7, <2>11
  <2> QED
    BY <2>8, <2>12, <2>13 DEF LoneInv
<1> QED
  BY <1>2, <1>3, <1>4

\* The other steps: connections stay, or go with the worker.
LEMMA LoneStep ==
    ASSUME PoolInv, ~Burst, Next
    PROVE  LoneInv'
<1>1. TypeOK /\ BindInv /\ ReqInv /\ RoutingInv /\ LoneInv
  BY DEF PoolInv, RoutingInv
<1>2. ASSUME req' = req, \A c \in Clients : StaysLone(c)
      PROVE  LoneInv'
  <2>1. \A r \in Requests : AsBefore(r)
    BY <1>2 DEF AsBefore
  <2> QED
    BY <1>1, <1>2, <2>1, LoneKept
<1>3. CASE UNCHANGED <<req, bind, worker, late>>
  BY <1>2, <1>3 DEF StaysLone
<1>4. ASSUME NEW r \in Requests, Serve(r)
      PROVE  LoneInv'
  BY <1>4, ArriveLone, BindRouteLone, PlaceLone, CloseLone DEF Serve
<1>5. ASSUME NEW c \in Clients, Grace(c)
      PROVE  LoneInv'
  <2>1. CASE GraceTimerFires(c)
    <3>1. req' = req /\ worker' = worker
      BY <2>1 DEF GraceTimerFires
    <3>2. /\ bind[c].timer = "armed" /\ \A b \in Clients \ {c} : bind'[b] = bind[b]
                /\ late'[b] = late[b]
          /\ bind'[c].slot = bind[c].slot /\ bind'[c].live = bind[c].live
      BY <1>1, <2>1 DEF GraceTimerFires, TypeOK, BindingType
    <3>3. ~(Bound(c) /\ worker[bind[c].slot].st = "booting")
      BY <1>1, <3>2 DEF LoneInv, Counted
    <3>4. \A b \in Clients : StaysLone(b)
      BY <3>1, <3>2, <3>3 DEF StaysLone
    <3> QED
      BY <1>2, <3>1, <3>4
  <2>2. CASE GraceExpiry(c)
    <3>1. Bound(c) /\ late[c].fresh /\ bind[c].slot \in Slots
      BY <1>1, <2>2, GraceEffect, Routable
    <3>2. CASE Retimes(c, "none") /\ LateOf(c) /\ UNCHANGED <<worker, req>>
      <4>1. worker[bind[c].slot].st # "booting"
        BY <1>1, <3>1, ReleasedHasBooted
      <4>2. \A b \in Clients : StaysLone(b)
        BY <3>2, <4>1 DEF StaysLone, Retimes, LateOf
      <4> QED
        BY <1>2, <3>2, <4>2
    <3>3. CASE Frees(c, bind[c].slot)
      BY <1>1, <3>1, <3>3, LoneFrees
    <3> QED
      BY <1>1, <2>2, <3>2, <3>3, GraceEffect
  <2>3. CASE StaleExpiry(c)
    <3>1. UNCHANGED <<req, bind, worker>> /\ \A b \in Clients : late'[b].fresh = late[b].fresh
      BY <1>1, <2>3 DEF StaleExpiry, routing, TypeOK
    <3> QED
      BY <1>2, <3>1 DEF StaysLone
  <2> QED
    BY <1>5, <2>1, <2>2, <2>3 DEF Grace
<1>6. ASSUME NEW s \in Slots,
             Spawn(s) \/ Resume(s) \/ Terminate(s) \/ Backstop(s) \/ ProcessExits(s)
      PROVE  LoneInv'
  <2>1. CASE SpawnRefused(s) \/ SpawnFails(s) \/ TerminateDeregister(s)
    <3>1. worker' = Without({s}) /\ Unbind({s})
      BY <2>1 DEF SpawnRefused, SpawnFails, TerminateDeregister, ReleaseReservation
    <3> QED
      BY <1>1, <3>1, RemoveEffect, LoneRemoves
  <2>2. CASE SpawnStart(s) \/ SpawnFinish(s) \/ ResumeStart(s) \/ ResumeFails(s)
    BY <1>3, <2>2 DEF SpawnStart, SpawnFinish, ResumeStart, ResumeFails, routing
  <2>3. CASE TerminateStop(s) \/ Backstop(s) \/ ProcessExits(s)
    BY <1>3, <2>3 DEF TerminateStop, Backstop, ExpireLifetime, WarmSpareConsumed,
       ProcessExits, routing
  <2>4. ASSUME NEW st \in States \ {"booting"}, Moves(s, st), UNCHANGED <<req, late>>,
               \A c \in Clients : /\ bind'[c].slot = bind[c].slot /\ bind'[c].live = bind[c].live
                                  /\ bind'[c] = bind[c] \/ bind[c].slot = s
        PROVE  LoneInv'
    <3>1. ASSUME NEW c \in Clients
          PROVE  StaysLone(c)
      <4>1. Bound(c) => bind[c].slot \in Slots
        BY <1>1, Routable
      <4> QED
        BY <2>4, <4>1 DEF StaysLone, Moves
    <3> QED
      BY <1>2, <2>4, <3>1
  <2>5. CASE SpareSuspend(s)
    <3>1. UNCHANGED <<req, late, bind>> /\ Moves(s, "suspending")
      BY <1>1, <2>5, MoveEffect DEF SpareSuspend, States
    <3> QED
      BY <2>4, <3>1 DEF States
  <2>6. CASE SpawnRegister(s)
    <3>1. UNCHANGED <<req, late>> /\ \E st \in {"running", "suspended"} : Register(s, st)
      BY <2>6 DEF SpawnRegister
    <3>2. PICK st \in {"running", "suspended"} : Registers(s, st)
      BY <1>1, <3>1, RegisterEffect
    <3> QED
      BY <2>4, <3>1, <3>2 DEF Registers, States
  <2>7. CASE ResumeDone(s)
    <3>1. UNCHANGED <<req, late, bind>> /\ Moves(s, "running")
      BY <1>1, <2>7, ResumeEffect DEF ResumeDone
    <3> QED
      BY <2>4, <3>1 DEF States
  <2> QED
    BY <1>6, <2>1, <2>2, <2>3, <2>5, <2>6, <2>7 DEF Spawn, Resume, Terminate
<1>7. CASE Whole
  <2>1. CASE Reconcile
    <3>1. UNCHANGED <<req, bind, late>>
      BY <2>1 DEF Reconcile
    <3>2. CASE worker' = worker
      BY <1>3, <3>1, <3>2
    <3>3. ASSUME NEW stop \in SUBSET Slots, NEW k \in Nat, Reserves(stop, k)
          PROVE  LoneInv'
      <4>1. ASSUME NEW c \in Clients
            PROVE  StaysLone(c)
        <5>1. Bound(c) => bind[c].slot \in Slots /\ ~Untouched(bind[c].slot)
          BY <1>1, Routable DEF Untouched, NoWorker
        <5>2. Bound(c) /\ worker'[bind[c].slot].st = "booting"
                    => worker[bind[c].slot].st = "booting"
          BY <1>1, <3>3, <5>1, ReservedSlots
        <5> QED
          BY <3>1, <5>2 DEF StaysLone
      <4> QED
        BY <1>2, <3>1, <4>1
    <3> QED
      BY <1>1, <2>1, <3>2, <3>3, ReserveEffect
  <2>2. CASE StopApp \/ Hibernate
    <3>1. worker' = Without(Slots) /\ Unbind(Slots)
      BY <2>2 DEF StopApp, Hibernate, DropPool
    <3> QED
      BY <1>1, <3>1, RemoveEffect, LoneRemoves
  <2>3. CASE SettingsDrainAborted
    <3>1. PICK keep \in SUBSET proc :
            LET out == {s \in proc \ keep : worker[s].st # "none"}
            IN  worker' = Without(out) /\ Unbind(out)
      BY <2>3 DEF SettingsDrainAborted
    <3> DEFINE out == {s \in proc \ keep : worker[s].st # "none"}
    <3>2. out \in SUBSET Slots /\ worker' = Without(out) /\ Unbind(out)
      BY <1>1, <3>1 DEF TypeOK
    <3> HIDE DEF out
    <3> QED
      BY <1>1, <3>2, RemoveEffect, LoneRemoves
  <2>4. CASE WarmRetryFires \/ OpenPool \/ BeginSettingsDrain \/ SetPoolWarmSpares
    BY <1>3, <2>4 DEF WarmRetryFires, OpenPool, BeginSettingsDrain, SetPoolWarmSpares, routing
  <2> QED
    BY <1>7, <2>1, <2>2, <2>3, <2>4 DEF Whole
<1> QED
  BY <1>4, <1>5, <1>6, <1>7 DEF Next, Whole

-----------------------------------------------------------------------------
(* max_workers.                                                            *)

\* Who counts against max_workers afterwards did before, unless it is reserved.
LEMMA CapStep ==
    ASSUME PoolInv, Next
    PROVE  CapInv'
<1>1. /\ TypeOK /\ BindInv /\ ReqInv /\ RoutingInv /\ CapInv /\ MaxWorkers \in Nat
      /\ \A t \in Slots : SlotOK(t)
  BY PoolAssumption DEF PoolInv, RoutingInv, SlotInv
<1>2. ASSUME Active' \subseteq Active
      PROVE  CapInv'
  <2>1. IsFiniteSet(Active) /\ Cardinality(Active) \in Nat
    BY Finite DEF Active
  <2>2. Cardinality(Active') <= Cardinality(Active) /\ Cardinality(Active') \in Nat
    BY <1>2, <2>1, FS_Subset, FS_CardinalityType
  <2> QED
    BY <1>1, <2>1, <2>2 DEF CapInv
<1>3. ASSUME \A t \in Slots : worker[t].st = "none" => worker'[t].st = "none",
             \A t \in Slots : worker[t].st = "draining" => worker'[t].st \in {"none", "draining"}
      PROVE  CapInv'
  <2>1. Active' \subseteq Active
    BY <1>3 DEF Active
  <2> QED
    BY <1>2, <2>1
<1>4. CASE worker' = worker
  BY <1>3, <1>4
<1>5. ASSUME NEW S \in SUBSET Slots, worker' = Without(S)
      PROVE  CapInv'
  BY <1>3, <1>5 DEF Without, NoWorker
<1>6. ASSUME NEW s \in Slots, worker[s].st \notin {"none", "draining"},
             \A t \in Slots \ {s} : worker'[t] = worker[t]
      PROVE  CapInv'
  BY <1>3, <1>6
<1>7. ASSUME NEW r \in Requests, Serve(r)
      PROVE  CapInv'
  <2>1. CASE ~PlaceClient(r) /\ ~BindRoute(r)
    BY <1>4, <1>7, <2>1 DEF Serve, Arrive, ConnClosed
  <2>2. CASE BindRoute(r)
    <3> DEFINE s == req[r].s
    <3>1. worker' = worker \/ (s \in Slots /\ Serves(s)
                /\ \A t \in Slots \ {s} : worker'[t] = worker[t])
      BY <1>1, <2>2, BindRouteEffect DEF Binds
    <3> QED
      BY <1>4, <1>6, <3>1 DEF Serves
  <2>3. CASE PlaceClient(r)
    <3> DEFINE c == req[r].c
    <3>1. Places(c)
      BY <1>1, <2>3, PlaceEffect
    <3>2. ASSUME NEW s \in Slots,
                 worker[s].st \in {"running", "booting", "resuming", "suspended"},
                 NEW st, NEW timer, Waits(c, s, st, timer)
          PROVE  CapInv'
      BY <1>6, <3>2 DEF Waits, Binds
    <3>3. CASE Waits(c, nextSlot, "booting", "none") /\ nextSlot \in Slots /\ Room({}) > 0
      <4>1. \A t \in Slots \ {nextSlot} : worker'[t] = worker[t]
        BY <3>3 DEF Waits, Binds
      <4>2. Active' \subseteq Active \cup {nextSlot}
        BY <4>1 DEF Active
      <4>3. Active \ {} = Active
        OBVIOUS
      <4>4. IsFiniteSet(Active) /\ Cardinality(Active) \in Nat /\ Cardinality(Active) < MaxWorkers
        BY <1>1, <3>3, <4>3, Finite DEF Room, Active
      <4>5. /\ IsFiniteSet(Active \cup {nextSlot})
            /\ Cardinality(Active \cup {nextSlot}) \in {Cardinality(Active),
                  Cardinality(Active) + 1}
        BY <4>4, FS_AddElement
      <4>6. /\ Cardinality(Active') <= Cardinality(Active \cup {nextSlot})
            /\ Cardinality(Active') \in Nat
        BY <4>2, <4>5, FS_Subset, FS_CardinalityType
      <4> QED
        BY <1>1, <4>4, <4>5, <4>6 DEF CapInv
    <3> QED
      BY <1>4, <3>1, <3>2, <3>3 DEF Places
  <2> QED
    BY <2>1, <2>2, <2>3
<1>8. ASSUME NEW c \in Clients, Grace(c)
      PROVE  CapInv'
  <2>1. CASE GraceExpiry(c)
    <3>1. worker' = worker \/ Frees(c, bind[c].slot)
      BY <1>1, <2>1, GraceEffect
    <3>2. CASE Frees(c, bind[c].slot)
      BY <1>3, <3>2 DEF Frees
    <3> QED
      BY <1>4, <3>1, <3>2
  <2> QED
    BY <1>4, <1>8, <2>1 DEF Grace, GraceTimerFires, StaleExpiry, routing
<1>9. ASSUME NEW s \in Slots,
             Spawn(s) \/ Resume(s) \/ Terminate(s) \/ Backstop(s) \/ ProcessExits(s)
      PROVE  CapInv'
  <2>1. CASE SpawnRefused(s) \/ SpawnFails(s) \/ TerminateDeregister(s)
    BY <1>5, <2>1 DEF SpawnRefused, SpawnFails, TerminateDeregister, ReleaseReservation
  <2>2. CASE SpawnStart(s) \/ SpawnFinish(s) \/ ResumeStart(s) \/ ResumeFails(s)
    BY <1>4, <2>2 DEF SpawnStart, SpawnFinish, ResumeStart, ResumeFails, routing
  <2>3. CASE TerminateStop(s) \/ Backstop(s) \/ ProcessExits(s)
    BY <1>4, <2>3 DEF TerminateStop, Backstop, ExpireLifetime, WarmSpareConsumed,
       ProcessExits, routing
  <2>4. CASE SpareSuspend(s) \/ SpawnRegister(s) \/ ResumeDone(s)
    <3>1. worker[s].st \in {"booting", "suspending", "resuming"}
      BY <1>1, <2>4 DEF SpareSuspend, SpawnRegister, ResumeDone, SlotOK
    <3>2. \A t \in Slots \ {s} : worker'[t] = worker[t]
      BY <1>1, <2>4 DEF SpareSuspend, SpawnRegister, Register, ResumeDone, TypeOK
    <3> QED
      BY <1>6, <3>1, <3>2
  <2> QED
    BY <1>9, <2>1, <2>2, <2>3, <2>4 DEF Spawn, Resume, Terminate
<1>10. CASE Whole
  <2>1. CASE Reconcile
    <3>1. ASSUME NEW stop \in SUBSET Slots, NEW k \in Nat, Reserves(stop, k)
          PROVE  CapInv'
      <4> DEFINE new == nextSlot .. nextSlot + k - 1
                 rest == Active \ stop
      <4>1. nextSlot \in Nat /\ Slots \subseteq Nat
        BY <1>1, PoolAssumption DEF TypeOK, Slots
      <4>2. ASSUME NEW t \in Active'
            PROVE  t \in rest \cup new
        <5>1. t \in Slots /\ worker'[t].st \notin {"none", "draining"}
          BY <4>2 DEF Active
        <5>2. \/ t >= nextSlot /\ t < nextSlot + k
              \/ worker'[t].st = "draining"
              \/ t \notin stop /\ worker'[t] = worker[t]
          BY <1>1, <3>1, <5>1, ReservedSlots
        <5>3. CASE t >= nextSlot /\ t < nextSlot + k
          <6>1. t \in Nat /\ k \in Nat
            BY <4>1, <5>1
          <6>2. t \in new
            BY <4>1, <5>3, <6>1
          <6> QED
            BY <6>2
        <5>4. CASE t \notin stop /\ worker'[t] = worker[t]
          BY <5>1, <5>4 DEF Active
        <5> HIDE DEF rest, new
        <5>5. worker'[t].st # "draining"
          BY <5>1
        <5> QED
          BY <5>2, <5>3, <5>4, <5>5
      <4>3. IsFiniteSet(rest) /\ Cardinality(rest) \in Nat
        BY Finite DEF Active
      <4>4. IsFiniteSet(Active) /\ rest \subseteq Active /\ Cardinality(Active) \in Nat
        BY Finite DEF Active
      <4>5. Cardinality(rest) <= Cardinality(Active)
        BY <4>4, FS_Subset
      <4>6. IsFiniteSet(new) /\ Cardinality(new) = k
        <5>1. nextSlot \in Int /\ nextSlot + k - 1 \in Int
          BY <4>1
        <5>2. /\ IsFiniteSet(new)
              /\ Cardinality(new) = IF nextSlot > nextSlot + k - 1 THEN 0
                                    ELSE (nextSlot + k - 1) - nextSlot + 1
          BY <5>1, FS_Interval
        <5> QED
          BY <4>1, <5>2
      <4>7. k > 0 => k <= MaxWorkers - Cardinality(rest)
        BY <3>1 DEF Reserves, Room
      <4> HIDE DEF rest, new
      <4>8. Cardinality(rest \cup new) <= Cardinality(rest) + k /\ IsFiniteSet(rest \cup new)
        <5>1. /\ IsFiniteSet(rest \cup new) /\ IsFiniteSet(rest \cap new)
              /\ Cardinality(rest \cup new) =
                   Cardinality(rest) + Cardinality(new) - Cardinality(rest \cap new)
          <6>1. IsFiniteSet(rest \cap new)
            BY <4>3, FS_Intersection
          <6> QED
            BY <4>3, <4>6, <6>1, FS_Union
        <5>2. Cardinality(rest \cap new) \in Nat
          BY <5>1, FS_CardinalityType
        <5> QED
          BY <4>3, <4>6, <5>1, <5>2
      <4>9. Cardinality(Active') <= Cardinality(rest \cup new) /\ Cardinality(Active') \in Nat
            /\ Cardinality(rest \cup new) \in Nat
        <5>1. Active' \subseteq rest \cup new
          BY <4>2
        <5> QED
          BY <4>8, <5>1, FS_Subset, FS_CardinalityType
      <4> QED
        BY <1>1, <4>3, <4>4, <4>5, <4>7, <4>8, <4>9 DEF CapInv
    <3> QED
      BY <1>1, <1>4, <2>1, <3>1, ReserveEffect
  <2>2. CASE StopApp \/ Hibernate
    BY <1>5, <2>2 DEF StopApp, Hibernate, DropPool
  <2>3. CASE SettingsDrainAborted
    <3>1. PICK keep \in SUBSET proc :
            LET out == {s \in proc \ keep : worker[s].st # "none"} IN worker' = Without(out)
      BY <2>3 DEF SettingsDrainAborted
    <3> DEFINE out == {s \in proc \ keep : worker[s].st # "none"}
    <3>2. out \in SUBSET Slots /\ worker' = Without(out)
      BY <1>1, <3>1 DEF TypeOK
    <3> HIDE DEF out
    <3> QED
      BY <1>5, <3>2
  <2>4. CASE WarmRetryFires \/ OpenPool \/ BeginSettingsDrain \/ SetPoolWarmSpares
    BY <1>4, <2>4 DEF WarmRetryFires, OpenPool, BeginSettingsDrain, SetPoolWarmSpares, routing
  <2> QED
    BY <1>10, <2>1, <2>2, <2>3, <2>4 DEF Whole
<1> QED
  BY <1>7, <1>8, <1>9, <1>10 DEF Next, Whole

-----------------------------------------------------------------------------
(* The theorems.                                                           *)

\* A pool that has just been set up.
LEMMA Begins ==
    ASSUME Init
    PROVE  PoolInv
<1>1. MaxSlots \in Nat /\ MaxWorkers \in Nat /\ Slots \subseteq Nat /\ WarmTargets \subseteq Nat
  BY PoolAssumption DEF Slots
<1>2. /\ NoWorker \in WorkerType /\ NoWorker.st = "none" /\ NoWorker.n = 0
            /\ NoWorker.used = FALSE
      /\ NoBinding \in BindingType /\ NoBinding.slot = NoSlot /\ NoBinding.live = 0
      /\ NoRequest \in RequestType /\ NoRequest.at = "idle" /\ NoRequest.own = FALSE
      /\ NoSlot \notin Slots
  BY DEF NoWorker, WorkerType, NoBinding, BindingType, NoRequest, RequestType, Slots, NoSlot
<1>3. TypeOK
  <2>1. PoolType
    BY <1>1, PoolAssumption DEF Init, PoolType
  <2>2. ClientType
    BY <1>2 DEF Init, ClientType
  <2>3. TaskType
    BY DEF Init, TaskType
  <2> QED
    BY <1>2, <2>1, <2>2, <2>3, TypesInParts DEF Init
<1>4. Fresh
  BY DEF Init, Fresh, Untouched
<1>5. /\ \A s \in Slots : Cardinality(BoundTo(s)) = 0 /\ worker[s] = NoWorker
      /\ \A c \in Clients : bind[c] = NoBinding /\ ~Bound(c) /\ ~late[c].fresh
  <2>1. \A s \in Slots : BoundTo(s) = {}
    BY <1>2 DEF Init, BoundTo
  <2>2. \A s \in Slots : Cardinality(BoundTo(s)) = 0
    BY <2>1, FS_EmptySet
  <2> QED
    BY <1>2, <2>2 DEF Init, Bound
<1>6. BindInv
  BY <1>2, <1>5 DEF BindInv
<1>7. \A r \in Requests : req[r].at = "idle" /\ ~req[r].own
  BY <1>2 DEF Init
<1>8. ReqInv
  BY <1>7 DEF ReqInv
<1>9. SlotInv
  BY <1>2 DEF Init, SlotInv, SlotOK, ProcOK, Settling
<1>10. LockInv
  BY DEF Init, LockInv, Holds, Booting
<1>11. LoneInv
  <2>1. \A c : Mine(c) = {}
    BY <1>7 DEF Mine
  <2>2. \A c : Cardinality(Mine(c)) = 0
    BY <2>1, FS_EmptySet
  <2> QED
    BY <1>2, <1>5, <1>7, <2>2 DEF LoneInv, Apart, Leads, Counted, Placing
<1>12. CapInv
  <2>1. Active = {}
    BY <1>2, <1>5 DEF Active
  <2> QED
    BY <1>1, <2>1, FS_EmptySet DEF CapInv
<1> QED
  BY <1>3, <1>4, <1>6, <1>8, <1>9, <1>10, <1>11, <1>12 DEF PoolInv, RoutingInv

\* What holds however the requests of one client overlap.
THEOREM RoutingInvariance == Spec => []RoutingInv
<1>1. Init => RoutingInv
  BY Begins DEF PoolInv
<1>2. RoutingInv /\ [Next]_vars => RoutingInv'
  BY RoutingStep
<1> QED
  BY <1>1, <1>2, PTL DEF Spec

\* Pool, clients and goroutines stay well formed.
THEOREM TypesCorrect == Spec => []TypeOK
<1>1. RoutingInv => TypeOK
  BY DEF RoutingInv
<1> QED
  BY <1>1, RoutingInvariance, PTL

\* retireSpares, releaseClient and removeWorker: no client is left with a worker
\* that is gone or goes, whatever placed and released it at the same time.
THEOREM BindingsStayRoutable == Spec => []BindingsAreRoutable
<1>1. RoutingInv => BindingsAreRoutable
  BY Routable DEF RoutingInv, BindingsAreRoutable
<1> QED
  BY <1>1, RoutingInvariance, PTL

\* bindClientLocked, releaseClient and removeWorker: assignedClients is the number
\* of bindings, and a worker that has lost its last client is being stopped,
\* also while several requests of one client are being placed.
THEOREM LoadsStayTrue ==
    Spec => [](\A s \in Slots :
                  /\ worker[s].n = Cardinality(BoundTo(s))
                  /\ worker[s].used /\ worker[s].n = 0 => term[s] # "none")
<1> DEFINE Loads == \A s \in Slots :
                      /\ worker[s].n = Cardinality(BoundTo(s))
                      /\ worker[s].used /\ worker[s].n = 0 => term[s] # "none"
<1>1. RoutingInv => Loads
  BY DEF RoutingInv, BindInv
<1> QED
  BY <1>1, RoutingInvariance, PTL

\* A step of a drain binds nobody.
LEMMA DrainStep ==
    ASSUME RoutingInv, [Next]_vars, Draining, Draining', NEW c \in Clients, ~Bound(c)
    PROVE  bind'[c].slot = NoSlot
<1>1. TypeOK /\ BindInv /\ ReqInv /\ bind[c].slot = NoSlot
  BY DEF RoutingInv, Bound
<1>2. ASSUME bind'[c].slot = bind[c].slot
      PROVE  bind'[c].slot = NoSlot
  BY <1>1, <1>2
<1>3. CASE UNCHANGED vars
  BY <1>2, <1>3 DEF vars, routing
<1>4. ASSUME NEW S \in SUBSET Slots, Removes(S)
      PROVE  bind'[c].slot = NoSlot
  BY <1>1, <1>4 DEF Removes, Slots, NoSlot
<1>5. ASSUME NEW r \in Requests, Serve(r)
      PROVE  bind'[c].slot = NoSlot
  <2>1. ASSUME NEW b \in Clients, Arrive(r, b)
        PROVE  bind'[c].slot = NoSlot
    BY <1>1, <2>1, ArriveEffect DEF Arrives, Opens
  <2>2. CASE BindRoute(r)
    BY <1>1, <2>2, BindRouteEffect DEF Opens
  <2>3. CASE PlaceClient(r)
    BY <1>1, <2>3, PlaceEffect DEF Places, Waits
  <2>4. CASE ConnClosed(r)
    BY <1>1, <2>4 DEF ConnClosed, TypeOK, BindingType
  <2> QED
    BY <1>5, <2>1, <2>2, <2>3, <2>4 DEF Serve
<1>6. ASSUME NEW b \in Clients, Grace(b)
      PROVE  bind'[c].slot = NoSlot
  <2>1. CASE GraceTimerFires(b)
    BY <1>1, <2>1 DEF GraceTimerFires, TypeOK, BindingType
  <2>2. CASE GraceExpiry(b)
    <3>1. Bound(b) /\ c # b
      BY <2>2, GraceEffect
    <3> QED
      BY <1>1, <2>2, <3>1, GraceEffect DEF Retimes, Frees
  <2>3. CASE StaleExpiry(b)
    BY <1>1, <2>3 DEF StaleExpiry, routing
  <2> QED
    BY <1>6, <2>1, <2>2, <2>3 DEF Grace
<1>7. ASSUME NEW s \in Slots,
             Spawn(s) \/ Resume(s) \/ Terminate(s) \/ Backstop(s) \/ ProcessExits(s)
      PROVE  bind'[c].slot = NoSlot
  <2>1. CASE SpawnRefused(s) \/ SpawnFails(s) \/ TerminateDeregister(s)
    <3>1. worker' = Without({s}) /\ Unbind({s})
      BY <2>1 DEF SpawnRefused, SpawnFails, TerminateDeregister, ReleaseReservation
    <3> QED
      BY <1>1, <1>4, <3>1, RemoveEffect
  <2>2. CASE SpawnRegister(s)
    <3>1. \E st \in {"running", "suspended"} : Register(s, st)
      BY <2>2 DEF SpawnRegister
    <3>2. bind'[c].slot = bind[c].slot
      BY <1>1, <3>1, RegisterEffect DEF Registers
    <3> QED
      BY <1>2, <3>2
  <2>3. CASE SpawnStart(s) \/ SpareSuspend(s) \/ SpawnFinish(s)
    BY <1>1, <2>3 DEF SpawnStart, SpareSuspend, SpawnFinish, routing
  <2>4. CASE Resume(s)
    BY <1>1, <2>4 DEF Resume, ResumeStart, ResumeDone, ResumeFails, routing
  <2>5. CASE TerminateStop(s) \/ Backstop(s) \/ ProcessExits(s)
    BY <1>1, <2>5 DEF TerminateStop, Backstop, ExpireLifetime, WarmSpareConsumed,
       ProcessExits, routing
  <2> QED
    BY <1>7, <2>1, <2>2, <2>3, <2>4, <2>5 DEF Spawn, Terminate
<1>8. CASE Whole
  <2>1. CASE StopApp \/ Hibernate
    <3>1. worker' = Without(Slots) /\ Unbind(Slots)
      BY <2>1 DEF StopApp, Hibernate, DropPool
    <3> QED
      BY <1>1, <1>4, <3>1, RemoveEffect
  <2>2. CASE SettingsDrainAborted
    BY <2>2 DEF SettingsDrainAborted, Draining
  <2>3. CASE Reconcile \/ WarmRetryFires \/ OpenPool \/ BeginSettingsDrain \/ SetPoolWarmSpares
    BY <1>1, <2>3 DEF Reconcile, WarmRetryFires, OpenPool, BeginSettingsDrain,
       SetPoolWarmSpares, routing
  <2> QED
    BY <1>8, <2>1, <2>2, <2>3 DEF Whole
<1> QED
  BY <1>3, <1>5, <1>6, <1>7, <1>8 DEF Next, Whole

\* BeginSettingsDrain: both halves of a request, and placeClient, look again.
THEOREM DrainsAdmitNoOne == Spec => DrainAdmitsNoOne
<1>1. RoutingInv /\ [Next]_vars =>
        [Draining /\ Draining' => \A c \in Clients : ~Bound(c) => bind'[c].slot = NoSlot]_vars
  BY DrainStep
<1> QED
  BY <1>1, RoutingInvariance, PTL DEF Spec, DrainAdmitsNoOne

\* What holds when the requests of one client are placed one after the other.
THEOREM PoolInvariance == ASSUME ~Burst PROVE Spec => []PoolInv
<1>1. Init => PoolInv
  BY Begins
<1>2. PoolInv /\ [Next]_vars => PoolInv'
  <2>1. ASSUME PoolInv, Next
        PROVE  PoolInv'
    <3>1. RoutingInv'
      BY <2>1, RoutingStep DEF PoolInv
    <3>2. TypeOK'
      BY <3>1 DEF RoutingInv
    <3> QED
      BY <2>1, <3>1, <3>2, SlotStep, LockStep, LoneStep, CapStep DEF PoolInv
  <2>2. ASSUME PoolInv, UNCHANGED vars
        PROVE  PoolInv'
    <3>1. UNCHANGED <<open, nextSlot, base, worker, bind, target, op, late, req, proc, spawn,
                resume,
                      term, life, consumed, recon, retry, left, events>>
      BY <2>2 DEF vars, routing
    <3>2. RoutingInv'
      BY <2>2, RoutingStep DEF PoolInv
    <3>3. SlotInv'
      BY <2>2, <3>1 DEF PoolInv, SlotInv, SlotOK, ProcOK
    <3>4. LockInv'
      BY <2>2, <3>1 DEF PoolInv, LockInv, Holds
    <3>5. LoneInv'
      <4>1. /\ \A r \in Requests : AsBefore(r)
            /\ \A c \in Clients : StaysLone(c)
        BY <3>1 DEF AsBefore, StaysLone
      <4> QED
        BY <2>2, <4>1, LoneKept DEF PoolInv, RoutingInv
    <3>6. CapInv'
      <4>1. Active' = Active
        BY <3>1 DEF Active
      <4> QED
        BY <2>2, <4>1 DEF PoolInv, CapInv
    <3> QED
      BY <3>2, <3>3, <3>4, <3>5, <3>6 DEF PoolInv
  <2> QED
    BY <2>1, <2>2
<1> QED
  BY <1>1, <1>2, PTL DEF Spec

\* assignedClients and the connections of a clientSlot are what admission and
\* retirement take them for.
THEOREM CountsStayTrue == ASSUME ~Burst PROVE Spec => []CountsAreTrue
<1>1. PoolInv => CountsAreTrue
  <2> SUFFICES ASSUME PoolInv
               PROVE  CountsAreTrue
    OBVIOUS
  <2>1. /\ BindInv /\ ReqInv /\ LoneInv
    BY DEF PoolInv, RoutingInv
  <2>2. ASSUME NEW c \in Clients
        PROVE  {r \in Requests : req[r].at = "open" /\ req[r].c = c /\ req[r].own} = Mine(c)
    BY <2>1 DEF Mine, ReqInv
  <2>3. ASSUME NEW c \in Clients
        PROVE  /\ bind[c].live = Cardinality(Mine(c))
               /\ \A r \in Mine(c) : req[r].s = bind[c].slot
    BY <2>1, <2>3 DEF LoneInv, Counted, Leads, Mine
  <2>4. /\ \A s \in Slots : worker[s].n = Cardinality(BoundTo(s))
        /\ \A s \in Slots : worker[s].used /\ worker[s].n = 0 => term[s] # "none"
    BY <2>1 DEF BindInv
  <2> QED
    BY <2>2, <2>3, <2>4 DEF CountsAreTrue
<1> QED
  BY <1>1, PoolInvariance, PTL

\* Reservations, boots, slot numbers and processes stay accounted for.
THEOREM NothingGoesAstray == ASSUME ~Burst PROVE Spec => []NothingStrays
<1>1. PoolInv => NothingStrays
  <2> SUFFICES ASSUME PoolInv
               PROVE  NothingStrays
    OBVIOUS
  <2>1. /\ TypeOK /\ Fresh /\ BindInv /\ CapInv
        /\ \A s \in Slots : SlotOK(s) /\ ProcOK(s)
    BY DEF PoolInv, RoutingInv, SlotInv
  <2>2. Cardinality(Active) <= MaxWorkers
    BY <2>1 DEF CapInv
  <2>3. \A s \in Slots : s >= nextSlot =>
          /\ s \notin proc \cup consumed \cup life
          /\ spawn[s] = "none" /\ resume[s] = "none" /\ term[s] = "none"
    BY <2>1 DEF Fresh, Untouched
  <2>4. ASSUME NEW s \in Slots
        PROVE  /\ spawn[s] = "booting" => worker[s].st = "booting"
               /\ spawn[s] = "freezing" => worker[s].st = "suspending" /\ worker[s].n = 0
               /\ worker[s].st \in {"booting", "suspending"}
                    => spawn[s] \in {"queued", "booting", "freezing"}
    BY <2>1 DEF SlotOK, Settling, BindInv, TypeOK
  <2>5. \A s \in proc : \/ worker[s].st # "none" \/ spawn[s] # "none"
                        \/ term[s] # "none" \/ s \in left
    BY <2>1 DEF ProcOK, TypeOK
  <2> QED
    BY <2>2, <2>3, <2>4, <2>5 DEF NothingStrays
<1> QED
  BY <1>1, PoolInvariance, PTL

-----------------------------------------------------------------------------
(* No client is forgotten: the safety half of GhostsLeave, however the     *)
(* requests of a client overlap.                                           *)

\* A client that is connected has no grace timer; one that is not has a timer or a
\* callback of its own, or waits without a timer for a worker that boots or thaws, or
\* is the client of a worker that Resume has thawed.
Watched(c) ==
    /\ Bound(c) /\ bind[c].live > 0 => bind[c].timer = "none"
    /\ Bound(c) /\ bind[c].live = 0 =>
         \/ bind[c].timer = "armed" \/ late[c].fresh
         \/ worker[bind[c].slot].thawed
         \/ worker[bind[c].slot].st \in {"booting", "resuming"} /\ bind[c].timer = "none"
WatchInv == \A c \in Clients : Watched(c)

\* A worker that a client may go on waiting for.
Waitable(s) ==
    /\ worker[s].thawed => worker'[s].thawed
    /\ worker[s].st \in {"booting", "resuming"} => worker'[s].st = worker[s].st

\* A client that a step leaves alone stays watched.
LEMMA UnwatchedStays ==
    ASSUME NEW c \in Clients, Watched(c), bind'[c] = bind[c],
           late[c].fresh => late'[c].fresh, Bound(c) => Waitable(bind[c].slot)
    PROVE  Watched(c)'
BY DEF Watched, Bound, Waitable

\* A client whose worker is removed is released, and any other stays watched.
LEMMA RemovedStays ==
    ASSUME TypeOK, NEW c \in Clients, Watched(c), NEW S \in SUBSET Slots, Removes(S)
    PROVE  Watched(c)'
<1>1. CASE bind[c].slot \in S
  BY <1>1 DEF Removes, Watched, Bound, NoBinding
<1>2. CASE bind[c].slot \notin S
  <2>1. bind'[c] = bind[c] /\ late'[c] = late[c]
    BY <1>2 DEF Removes
  <2>2. ASSUME Bound(c)
        PROVE  Waitable(bind[c].slot)
    <3>1. bind[c].slot \in Slots
      BY <2>2 DEF Bound, TypeOK, BindingType
    <3> QED
      BY <1>2, <3>1 DEF Removes, Waitable
  <2> QED
    BY <2>1, <2>2, UnwatchedStays
<1> QED
  BY <1>1, <1>2

\* A worker gets its client, loses one, or moves: whether it was thawed stays.
LEMMA AssignKeeps ==
    ASSUME NEW w \in WorkerType
    PROVE  Assigned(w).thawed = w.thawed /\ Assigned(w).st = w.st
<1> DEFINE u == [w EXCEPT !.n = w.n + 1]
           v == [u EXCEPT !.used = TRUE]
<1>1. u \in WorkerType /\ u.thawed = w.thawed /\ u.st = w.st
  BY DEF WorkerType
<1>2. v \in WorkerType /\ v.thawed = w.thawed /\ v.st = w.st
  <2> HIDE DEF u
  <2> QED
    BY <1>1 DEF WorkerType
<1>3. Assigned(w) = [v EXCEPT !.spare = FALSE]
  BY DEF Assigned
<1> HIDE DEF v
<1> QED
  BY <1>2, <1>3 DEF WorkerType

\* A client is bound to a worker that had the state st and has it now, or now thaws.
LEMMA BindKeeps ==
    ASSUME RoutingInv, NEW c \in Clients, ~Bound(c), NEW s \in Slots, NEW w \in WorkerType,
           w.thawed = worker[s].thawed, NEW timer, BindClient(c, s, w, timer), NEW t \in Slots
    PROVE  /\ worker'[t].thawed = worker[t].thawed
           /\ worker'[t].st = IF t = s THEN w.st ELSE worker[t].st
<1>1. worker'[t] = IF t = s THEN Assigned(w) ELSE worker[t]
  BY DEF BindClient, Bound, Slots, NoSlot
<1> QED
  BY <1>1, AssignKeeps

\* placeClient: it thaws nobody by itself.
LEMMA PlaceKeeps ==
    ASSUME RoutingInv, NEW r \in Requests, PlaceClient(r), NEW t \in Slots
    PROVE  worker'[t].thawed = worker[t].thawed
<1> DEFINE c == req[r].c
<1>1. c \in Clients /\ TypeOK /\ BindInv /\ Fresh
  BY DEF PlaceClient, RoutingInv, ReqInv
<1>2. CASE worker' = worker
  BY <1>2
<1>3. CASE open /\ ~Pinned(c) /\ ~Draining
  <2>1. ~Bound(c)
    BY <1>1, <1>3, Routable DEF Pinned
  <2>2. PICK d \in FreshDecisions :
              \/ /\ d.kind \in {"route", "bind"} /\ worker[d.s].st # "suspended"
                 /\ BindClient(c, d.s, worker[d.s], IF Serves(d.s) THEN "armed" ELSE "none")
              \/ /\ d.kind = "bind" /\ worker[d.s].st = "suspended"
                 /\ BindClient(c, d.s, [worker[d.s] EXCEPT !.st = "resuming"], "none")
              \/ /\ d.kind = "allocate" /\ nextSlot < MaxSlots
                 /\ BindClient(c, nextSlot, [NoWorker EXCEPT !.st = "booting"], "none")
              \/ worker' = worker
    BY <1>3, Zenon DEF PlaceClient
  <2>3. CASE d.kind \in {"route", "bind"}
    <3>1. d.s \in Slots /\ worker[d.s] \in WorkerType
      BY <1>1, <2>3, Choices DEF TypeOK
    <3> DEFINE w == [worker[d.s] EXCEPT !.st = "resuming"]
    <3>2. w \in WorkerType /\ w.thawed = worker[d.s].thawed
      BY <3>1 DEF WorkerType
    <3> HIDE DEF w
    <3>3. \/ \E timer : BindClient(c, d.s, worker[d.s], timer)
          \/ \E timer : BindClient(c, d.s, w, timer)
          \/ worker' = worker
      BY <2>2, <2>3 DEF w
    <3> QED
      BY <1>1, <1>2, <2>1, <3>1, <3>2, <3>3, BindKeeps
  <2>4. CASE d.kind = "allocate" /\ nextSlot < MaxSlots
    <3>1. nextSlot \in Slots /\ nextSlot >= nextSlot
      BY <1>1, <2>4, PoolAssumption DEF TypeOK, Slots
    <3>2. worker[nextSlot] = NoWorker
      BY <1>1, <3>1 DEF Fresh, Untouched
    <3> DEFINE w == [NoWorker EXCEPT !.st = "booting"]
    <3>3. w \in WorkerType /\ w.thawed = worker[nextSlot].thawed
      BY <3>2 DEF NoWorker, WorkerType
    <3> HIDE DEF w
    <3>4. BindClient(c, nextSlot, w, "none") \/ worker' = worker
      BY <2>2, <2>4 DEF w
    <3> QED
      BY <1>1, <1>2, <2>1, <3>1, <3>3, <3>4, BindKeeps
  <2> QED
    BY <1>2, <2>2, <2>3, <2>4
<1> QED
  BY <1>2, <1>3 DEF PlaceClient

\* The steps of requests.
LEMMA ServeWatches ==
    ASSUME RoutingInv, WatchInv, NEW b \in Clients, NEW r \in Requests, Serve(r)
    PROVE  Watched(b)'
<1>1. /\ TypeOK /\ BindInv /\ ReqInv /\ Watched(b)
      /\ worker \in [Slots -> WorkerType] /\ bind \in [Clients -> BindingType]
      /\ bind[b] \in BindingType /\ bind[b].live \in Nat
  BY DEF RoutingInv, TypeOK, WatchInv, BindingType
<1>2. ASSUME UNCHANGED <<worker, late>>, bind'[b] = bind[b]
      PROVE  Watched(b)'
  BY <1>1, <1>2, UnwatchedStays DEF Waitable
<1>3. ASSUME UNCHANGED <<worker, late>>, NEW c \in Clients, Opens(c)
      PROVE  Watched(b)'
  <2>1. CASE b # c
    BY <1>2, <1>3, <2>1 DEF Opens
  <2>2. CASE b = c
    BY <1>1, <1>3, <2>2 DEF Opens, Watched, Bound
  <2> QED
    BY <2>1, <2>2
<1>4. ASSUME NEW c \in Clients, Arrive(r, c)
      PROVE  Watched(b)'
  <2>1. UNCHANGED <<worker, late>> /\ (bind' = bind \/ Opens(c))
    BY <1>4, ArriveEffect DEF Arrive, Arrives
  <2> QED
    BY <1>2, <1>3, <2>1
<1>5. CASE BindRoute(r)
  <2> DEFINE c == req[r].c
             s == req[r].s
  <2>1. late' = late /\ c \in Clients /\ s \in Slots
    BY <1>5, BindRouteEffect DEF BindRoute
  <2>2. CASE worker' = worker /\ (bind' = bind \/ Opens(c))
    BY <1>2, <1>3, <2>1, <2>2
  <2>3. CASE Binds(c, s, "running") /\ OneBinds(c, s, 1, "none") /\ Serves(s)
    <3>1. CASE b = c
      BY <2>3, <3>1 DEF OneBinds, Watched, Bound
    <3>2. CASE b # c
      <4>1. bind'[b] = bind[b] /\ c \in Clients /\ ~Bound(c)
        BY <2>1, <2>3, <3>2 DEF OneBinds, Binds
      <4>2. worker' = [worker EXCEPT ![s] = Assigned(worker[s])]
        <5>1. bind' # bind
          BY <2>1, <2>3 DEF Binds, OneBinds, Bound, Slots, NoSlot
        <5>2. StillAdmits(s) /\ ~Bound(c)
          BY <1>5, <2>3, <5>1 DEF BindRoute, Binds
        <5> QED
          BY <1>5, <5>2 DEF BindRoute
      <4>3. \A t \in Slots : worker'[t].thawed = worker[t].thawed /\ worker'[t].st = worker[t].st
        BY <1>1, <2>1, <4>2, AssignKeeps
      <4>4. Bound(b) => bind[b].slot \in Slots
        BY <1>1 DEF Bound, BindingType
      <4> QED
        BY <1>1, <2>1, <4>1, <4>3, <4>4, UnwatchedStays DEF Waitable
    <3> QED
      BY <3>1, <3>2
  <2> QED
    BY <1>5, <2>2, <2>3, BindRouteEffect
<1>6. CASE ConnClosed(r)
  <2> DEFINE c == req[r].c
  <2>1. UNCHANGED <<worker, late>>
    BY <1>6 DEF ConnClosed
  <2>2. CASE bind' = bind \/ b # c
    <3>1. bind'[b] = bind[b]
      BY <1>1, <1>6, <2>2 DEF ConnClosed
    <3> QED
      BY <1>2, <2>1, <3>1
  <2>3. CASE bind' # bind /\ b = c
    <3> DEFINE live == bind[b].live - 1
               u == [bind[b] EXCEPT !.live = live]
               timer == IF live = 0 /\ bind[b].timer = "none" THEN "armed" ELSE bind[b].timer
    <3>1. Bound(b) /\ bind[b].live > 0
      BY <1>6, <2>3 DEF ConnClosed
    <3>2. bind[b].timer = "none"
      BY <1>1, <3>1 DEF Watched
    <3>3. bind'[b] = [u EXCEPT !.timer = timer]
      BY <1>1, <1>6, <2>3 DEF ConnClosed
    <3>4. u \in BindingType /\ u.live = live /\ u.slot = bind[b].slot
      BY <1>1, <3>1 DEF BindingType
    <3>5. bind'[b].live = live /\ bind'[b].timer = timer
      <4> HIDE DEF u, timer
      <4> QED
        BY <3>3, <3>4 DEF BindingType
    <3> QED
      BY <1>1, <3>1, <3>2, <3>5 DEF Watched
  <2> QED
    BY <2>2, <2>3
<1>7. CASE PlaceClient(r)
  <2> DEFINE c == req[r].c
  <2>1. c \in Clients /\ Places(c)
    BY <1>7, PlaceEffect
  <2>2. CASE UNCHANGED <<worker, bind, late>>
    BY <1>2, <2>2
  <2>3. ASSUME NEW s \in Slots, NEW st \in {"running", "booting", "resuming"},
               Waits(c, s, st, IF st = "running" THEN "armed" ELSE "none"),
               \A t \in Slots : worker'[t].thawed = worker[t].thawed,
               worker[s].st \in {"booting", "resuming"} => worker[s].st = st
        PROVE  Watched(b)'
    <3>1. CASE b = c
      BY <2>3, <3>1 DEF Waits, Binds, OneBinds, Watched, Bound
    <3>2. CASE b # c
      <4>1. bind'[b] = bind[b] /\ late'[b] = late[b]
        BY <1>1, <2>1, <2>3, <3>2 DEF Waits, OneBinds, TypeOK
      <4>2. ASSUME Bound(b)
            PROVE  Waitable(bind[b].slot)
        <5>1. bind[b].slot \in Slots
          BY <1>1, <4>2 DEF Bound, BindingType
        <5> QED
          BY <2>3, <5>1 DEF Waits, Binds, Waitable
      <4> QED
        BY <1>1, <4>1, <4>2, UnwatchedStays
    <3> QED
      BY <3>1, <3>2
  <2>4. \A t \in Slots : worker'[t].thawed = worker[t].thawed
    BY <1>7, PlaceKeeps
  <2>5. CASE Waits(c, nextSlot, "booting", "none") /\ nextSlot \in Slots
    <3>1. worker[nextSlot].st = "none"
      BY <1>1, <2>5 DEF RoutingInv, Fresh, Untouched, NoWorker, TypeOK
    <3> QED
      BY <2>3, <2>4, <2>5, <3>1
  <2> QED
    BY <2>1, <2>2, <2>3, <2>4, <2>5 DEF Places
<1> QED
  BY <1>4, <1>5, <1>6, <1>7 DEF Serve

\* The grace timers.
LEMMA GraceWatches ==
    ASSUME RoutingInv, WatchInv, NEW b \in Clients, NEW c \in Clients, Grace(c)
    PROVE  Watched(b)'
<1>1. /\ TypeOK /\ BindInv /\ Watched(b) /\ Watched(c)
      /\ worker \in [Slots -> WorkerType] /\ bind \in [Clients -> BindingType]
      /\ late \in [Clients -> [fresh : BOOLEAN, stale : BOOLEAN]]
      /\ bind[c] \in BindingType
  BY DEF RoutingInv, TypeOK, WatchInv
<1>2. CASE GraceTimerFires(c)
  <2>1. /\ worker' = worker /\ bind[c].timer = "armed"
        /\ bind' = [bind EXCEPT ![c] = [bind[c] EXCEPT !.timer = "spent"]]
        /\ late' = [late EXCEPT ![c] = [late[c] EXCEPT !.fresh = TRUE]]
    BY <1>1, <1>2 DEF GraceTimerFires
  <2>2. CASE b # c
    <3>1. bind'[b] = bind[b] /\ late'[b] = late[b]
      BY <1>1, <2>1, <2>2
    <3> QED
      BY <1>1, <2>1, <3>1, UnwatchedStays DEF Waitable
  <2>3. CASE b = c
    <3>1. bind'[b].slot = bind[b].slot /\ bind'[b].live = bind[b].live /\ late'[b].fresh
      BY <1>1, <2>1, <2>3 DEF BindingType
    <3>2. ~(Bound(b) /\ bind[b].live > 0)
      BY <1>1, <2>1, <2>3 DEF Watched
    <3> QED
      BY <3>1, <3>2 DEF Watched, Bound
  <2> QED
    BY <2>2, <2>3
<1>3. CASE GraceExpiry(c)
  <2>1. CASE Retimes(c, "none") /\ LateOf(c) /\ worker' = worker /\ bind[c].live # 0
    <3>1. CASE b # c
      <4>1. bind'[b] = bind[b] /\ late'[b] = late[b]
        BY <2>1, <3>1 DEF Retimes, LateOf
      <4> QED
        BY <1>1, <2>1, <4>1, UnwatchedStays DEF Waitable
    <3>2. CASE b = c
      BY <2>1, <3>2 DEF Retimes, Watched
    <3> QED
      BY <3>1, <3>2
  <2>2. CASE bind[c].live = 0
    <3> DEFINE s == bind[c].slot
    <3>1. /\ bind' = [bind EXCEPT ![c] = NoBinding]
          /\ late' = [late EXCEPT ![c] =
                [fresh |-> FALSE, stale |-> @.stale \/ bind[c].timer = "armed"]]
          /\ worker' = IF worker[s].st # "none" THEN [worker EXCEPT ![s].n = @ - 1] ELSE worker
      BY <1>3, <2>2, Zenon DEF GraceExpiry
    <3>2. CASE b = c
      BY <1>1, <3>1, <3>2 DEF Watched, Bound, NoBinding
    <3>3. CASE b # c
      <4>1. bind'[b] = bind[b] /\ late'[b] = late[b]
        BY <1>1, <3>1, <3>3
      <4>2. ASSUME NEW t \in Slots
            PROVE  Waitable(t)
        <5>1. worker[t] \in WorkerType
          BY <1>1
        <5>2. worker'[t] = worker[t] \/ worker'[t] = [worker[t] EXCEPT !.n = @ - 1]
          BY <1>1, <3>1
        <5> QED
          BY <5>1, <5>2 DEF Waitable, WorkerType
      <4>3. Bound(b) => bind[b].slot \in Slots
        BY <1>1 DEF Bound, BindingType
      <4> QED
        BY <1>1, <4>1, <4>2, <4>3, UnwatchedStays
    <3> QED
      BY <3>2, <3>3
  <2> QED
    BY <1>3, <2>1, <2>2, GraceEffect DEF GraceExpiry, Frees
<1>4. CASE StaleExpiry(c)
  <2>1. worker' = worker /\ bind' = bind /\ (late[b].fresh => late'[b].fresh)
    BY <1>1, <1>4 DEF StaleExpiry, routing
  <2> QED
    BY <1>1, <2>1, UnwatchedStays DEF Waitable
<1> QED
  BY <1>2, <1>3, <1>4 DEF Grace

\* The spawner: a worker that is registered or thawed takes its clients with it.
LEMMA WorkerWatches ==
    ASSUME RoutingInv, WatchInv, NEW b \in Clients, NEW s \in Slots,
           Spawn(s) \/ Resume(s) \/ Terminate(s) \/ Backstop(s) \/ ProcessExits(s)
    PROVE  Watched(b)'
<1>1. /\ TypeOK /\ BindInv /\ ReqInv /\ Watched(b)
      /\ worker \in [Slots -> WorkerType] /\ bind \in [Clients -> BindingType]
      /\ bind[b] \in BindingType /\ worker[s] \in WorkerType
  BY DEF RoutingInv, TypeOK, WatchInv
<1>2. CASE UNCHANGED <<worker, bind, late>>
  BY <1>1, <1>2, UnwatchedStays DEF Waitable
<1>3. CASE SpawnRefused(s) \/ SpawnFails(s) \/ TerminateDeregister(s)
  <2>1. Removes({s})
    BY <1>1, <1>3, RemoveEffect
    DEF SpawnRefused, SpawnFails, TerminateDeregister, ReleaseReservation
  <2> QED
    BY <1>1, <2>1, RemovedStays
<1>4. CASE SpareSuspend(s)
  <2>1. Moves(s, "suspending") /\ bind' = bind /\ late' = late /\ worker[s].n = 0
    BY <1>1, <1>4, MoveEffect DEF SpareSuspend, Pristine, States
  <2>2. ASSUME Bound(b)
        PROVE  Waitable(bind[b].slot)
    <3>1. bind[b].slot \in Slots \ {s}
      BY <1>1, <2>1, <2>2, Routable
    <3> QED
      BY <2>1, <3>1 DEF Moves, Waitable
  <2> QED
    BY <1>1, <2>1, <2>2, UnwatchedStays
<1>5. CASE SpawnRegister(s)
  <2>1. PICK st \in {"running", "suspended"} : Register(s, st)
    BY <1>5 DEF SpawnRegister
  <2>2. /\ late' = late /\ worker' = [worker EXCEPT ![s].st = st]
        /\ bind'[b] = IF bind[b].slot = s /\ bind[b].live = 0 /\ bind[b].timer = "none"
                      THEN [bind[b] EXCEPT !.timer = "armed"] ELSE bind[b]
    BY <1>5, <2>1 DEF SpawnRegister, Register
  <2>3. /\ bind'[b].slot = bind[b].slot /\ bind'[b].live = bind[b].live
        /\ bind'[b].timer = IF bind[b].slot = s /\ bind[b].live = 0 /\ bind[b].timer = "none"
                            THEN "armed" ELSE bind[b].timer
    BY <1>1, <2>2 DEF BindingType
  <2>4. \A t \in Slots : /\ worker'[t].thawed = worker[t].thawed
                         /\ t # s => worker'[t].st = worker[t].st
    <3>1. [worker[s] EXCEPT !.st = st].thawed = worker[s].thawed
      BY <1>1 DEF WorkerType
    <3> QED
      BY <1>1, <2>2, <3>1
  <2>5. Bound(b) => bind[b].slot \in Slots
    BY <1>1 DEF Bound, BindingType
  <2> QED
    BY <1>1, <2>2, <2>3, <2>4, <2>5 DEF Watched, Bound
<1>6. CASE ResumeDone(s)
  <2> DEFINE v == [worker[s] EXCEPT !.st = "running"]
             w == [v EXCEPT !.thawed = TRUE]
  <2>1. worker' = [worker EXCEPT ![s] = w] /\ bind' = bind /\ late' = late
    BY <1>1, <1>6 DEF ResumeDone
  <2>2. v \in WorkerType
    BY <1>1 DEF WorkerType
  <2>3. w.thawed
    <3> HIDE DEF v
    <3> QED
      BY <2>2 DEF WorkerType
  <2> HIDE DEF w
  <2>4. worker'[s].thawed /\ \A t \in Slots \ {s} : worker'[t] = worker[t]
    BY <1>1, <2>1, <2>3
  <2>5. Bound(b) => bind[b].slot \in Slots
    BY <1>1 DEF Bound, BindingType
  <2> QED
    BY <1>1, <2>1, <2>4, <2>5 DEF Watched, Bound
<1>7. CASE \/ SpawnStart(s) \/ SpawnFinish(s) \/ ResumeStart(s) \/ ResumeFails(s)
           \/ TerminateStop(s) \/ Backstop(s) \/ ProcessExits(s)
  BY <1>2, <1>7 DEF SpawnStart, SpawnFinish, ResumeStart, ResumeFails, TerminateStop, Backstop,
     ExpireLifetime, WarmSpareConsumed, ProcessExits, routing
<1> QED
  BY <1>3, <1>4, <1>5, <1>6, <1>7 DEF Spawn, Resume, Terminate

\* What happens to the pool as a whole.
LEMMA WholeWatches ==
    ASSUME RoutingInv, WatchInv, NEW b \in Clients, Whole
    PROVE  Watched(b)'
<1>1. TypeOK /\ BindInv /\ ReqInv /\ Watched(b)
  BY DEF RoutingInv, WatchInv
<1>2. CASE UNCHANGED <<worker, bind, late>>
  BY <1>1, <1>2, UnwatchedStays DEF Waitable
<1>3. CASE Reconcile
  <2>1. bind' = bind /\ late' = late
    BY <1>3 DEF Reconcile
  <2>2. ASSUME NEW stop \in SUBSET Slots, NEW k \in Nat, Reserves(stop, k), Bound(b)
        PROVE  Waitable(bind[b].slot)
    <3>1. /\ bind[b].slot \in Slots /\ worker[bind[b].slot].n >= 1
          /\ worker[bind[b].slot].st # "none"
      BY <1>1, <2>2, Routable
    <3>2. worker'[bind[b].slot] = worker[bind[b].slot]
      BY <2>2, <3>1, ReservedSlots DEF Untouched, NoWorker
    <3> QED
      BY <3>2 DEF Waitable
  <2>3. worker' = worker \/ (Bound(b) => Waitable(bind[b].slot))
    BY <1>3, <2>2, ReserveEffect
  <2> QED
    BY <1>1, <1>2, <2>1, <2>3, UnwatchedStays
<1>4. CASE StopApp \/ Hibernate
  <2>1. Removes(Slots)
    BY <1>1, <1>4, RemoveEffect DEF StopApp, Hibernate, DropPool
  <2> QED
    BY <1>1, <2>1, RemovedStays
<1>5. CASE SettingsDrainAborted
  <2>1. \E out \in SUBSET Slots : Removes(out)
    <3>1. PICK keep \in SUBSET proc :
            LET out == {s \in proc \ keep : worker[s].st # "none"}
            IN  worker' = Without(out) /\ Unbind(out)
      BY <1>5 DEF SettingsDrainAborted
    <3>2. {s \in proc \ keep : worker[s].st # "none"} \in SUBSET Slots
      BY <1>1 DEF TypeOK
    <3> QED
      BY <1>1, <3>1, <3>2, RemoveEffect
  <2> QED
    BY <1>1, <2>1, RemovedStays
<1>6. CASE WarmRetryFires \/ OpenPool \/ BeginSettingsDrain \/ SetPoolWarmSpares
  BY <1>2, <1>6 DEF WarmRetryFires, OpenPool, BeginSettingsDrain, SetPoolWarmSpares, routing
<1> QED
  BY <1>3, <1>4, <1>5, <1>6 DEF Whole

\* clientConnClosed, registerElasticWorker, graceExpiry and bindClientLocked, as far as
\* safety goes: a client that is bound without a connection is about to be released
\* by a timer or its callback, or waits for a worker that boots or thaws, or for one
\* that Resume has thawed, whichever requests, releases and removals crossed.
THEOREM GhostsAreWatched == Spec => []WatchInv
<1>1. Init => WatchInv
  BY DEF Init, WatchInv, Watched, Bound, NoBinding
<1>2. RoutingInv /\ WatchInv /\ [Next]_vars => WatchInv'
  <2>1. ASSUME RoutingInv, WatchInv, Next
        PROVE  WatchInv'
    BY <2>1, ServeWatches, GraceWatches, WorkerWatches, WholeWatches DEF Next, Whole, WatchInv
  <2>2. ASSUME WatchInv, UNCHANGED vars
        PROVE  WatchInv'
    BY <2>2 DEF vars, routing, WatchInv, Watched, Bound
  <2> QED
    BY <2>1, <2>2
<1> QED
  BY <1>1, <1>2, RoutingInvariance, PTL DEF Spec

-----------------------------------------------------------------------------
(* No worker is forgotten on its way: the safety half of WorkersSettle.    *)

\* Nobody keeps the app operation lock for nothing, and a drain has its pool.
HeldInv ==
    /\ op = "held" => \E s \in Slots : Holds(s)
    /\ Draining => open

\* A worker that is to be thawed or stopped has a goroutine that does it; without
\* a pool there is no worker.
Tended(s) ==
    /\ worker[s].st = "resuming" => resume[s] # "none" \/ term[s] # "none"
    /\ resume[s] # "none" => worker[s].st \in {"none", "resuming"}
    /\ worker[s].st = "draining" => term[s] # "none"
    /\ ~open => worker[s].st = "none"
TendInv == HeldInv /\ \A s \in Slots : Tended(s)

\* Something is under way for the slot, or waits for a lock that will be free.
LockComes == op = "free" \/ (\E t \in Slots : Holds(t)) \/ (Draining /\ open)
Attended(s) ==
    \/ spawn[s] \in Booting \/ resume[s] = "thawing" \/ term[s] # "none"
    \/ (spawn[s] = "queued" \/ resume[s] = "queued") /\ LockComes

\* What the steps of a slot do to the worker of another one, or to a worker they
\* do not move.
Steady(s) ==
    /\ worker'[s].st = worker[s].st
    /\ resume[s] # "none" <=> resume'[s] # "none"
    /\ term[s] # "none" => term'[s] # "none"

\* A worker that a step leaves where it is stays attended.
LEMMA SteadyStays ==
    ASSUME NEW s \in Slots, Tended(s), Steady(s), open => open'
    PROVE  Tended(s)'
BY DEF Tended, Steady

\* terminateWorkerLocked adds stops and takes none back.
LEMMA DispatchAdds ==
    ASSUME TypeOK, NEW S \in SUBSET Slots, term' = Dispatch(S), NEW s \in Slots
    PROVE  /\ term[s] # "none" => term'[s] # "none"
           /\ s \in S /\ worker[s].st # "none" => term'[s] # "none"
BY DispatchEffect

\* Requests and timers.
LEMMA ClientTends ==
    ASSUME PoolInv, \A s \in Slots : Tended(s), NEW t \in Slots,
           (\E r \in Requests : Serve(r)) \/ (\E c \in Clients : Grace(c))
    PROVE  Tended(t)'
<1>1. /\ TypeOK /\ RoutingInv /\ Tended(t)
  BY DEF PoolInv, RoutingInv
<1>2. ASSUME UNCHANGED <<open, resume, term>>, worker'[t].st = worker[t].st
      PROVE  Tended(t)'
  BY <1>1, <1>2, SteadyStays DEF Steady
<1>3. ASSUME NEW r \in Requests, NEW c \in Clients, Arrive(r, c)
      PROVE  Tended(t)'
  BY <1>2, <1>3 DEF Arrive
<1>4. ASSUME NEW r \in Requests, BindRoute(r)
      PROVE  Tended(t)'
  <2>1. UNCHANGED <<open, resume, term>>
    BY <1>4 DEF BindRoute
  <2>2. worker'[t].st = worker[t].st
    BY <1>1, <1>4, BindRouteEffect DEF Binds, Serves
  <2> QED
    BY <1>2, <2>1, <2>2
<1>5. ASSUME NEW r \in Requests, PlaceClient(r)
      PROVE  Tended(t)'
  <2> DEFINE c == req[r].c
  <2>1. open' = open /\ Places(c)
    BY <1>1, <1>5, PlaceEffect DEF PlaceClient
  <2>2. CASE UNCHANGED <<worker, resume, term>>
    BY <1>2, <2>1, <2>2
  <2>3. ASSUME NEW s \in Slots, NEW st \in {"running", "booting", "resuming"}, NEW timer,
               Waits(c, s, st, timer), worker[s].st = st, resume' = resume
        PROVE  Tended(t)'
    <3>1. worker'[t].st = worker[t].st /\ term' = term
      BY <2>3 DEF Waits, Binds
    <3> QED
      BY <1>2, <2>1, <2>3, <3>1
  <2>4. ASSUME NEW s \in Slots, Waits(c, s, "resuming", "none"), worker[s].st = "suspended",
               resume' = [resume EXCEPT ![s] = "queued"]
        PROVE  Tended(t)'
    <3>1. CASE t # s
      <4>1. worker'[t].st = worker[t].st /\ term' = term
        BY <2>4, <3>1 DEF Waits, Binds
      <4>2. resume'[t] = resume[t]
        BY <1>1, <2>4, <3>1 DEF TypeOK
      <4> QED
        BY <1>1, <2>1, <4>1, <4>2, SteadyStays DEF Steady
    <3>2. CASE t = s
      <4>1. worker'[t].st = "resuming" /\ worker[t].st = "suspended"
        BY <2>4, <3>2 DEF Waits, Binds
      <4>2. resume'[t] = "queued"
        BY <1>1, <2>4, <3>2 DEF TypeOK
      <4> QED
        BY <1>1, <2>1, <4>1, <4>2 DEF Tended
    <3> QED
      BY <3>1, <3>2
  <2>5. CASE /\ Waits(c, nextSlot, "booting", "none") /\ nextSlot \in Slots
             /\ nextSlot' = nextSlot + 1 /\ resume' = resume
    <3>1. CASE t # nextSlot
      <4>1. worker'[t].st = worker[t].st /\ term' = term
        BY <2>5, <3>1 DEF Waits, Binds
      <4> QED
        BY <1>2, <2>1, <2>5, <4>1
    <3>2. CASE t = nextSlot
      <4>1. worker'[t].st = "booting"
        BY <2>5, <3>2 DEF Waits, Binds
      <4>2. nextSlot \in Nat /\ nextSlot' # nextSlot
        BY <1>1, <2>5 DEF TypeOK
      <4>3. open
        BY <1>5, <4>2 DEF PlaceClient
      <4>4. resume[t] = "none"
        BY <1>1, <3>2, <4>2 DEF RoutingInv, Fresh, Untouched
      <4> QED
        BY <2>1, <2>5, <4>1, <4>3, <4>4 DEF Tended
    <3> QED
      BY <3>1, <3>2
  <2> QED
    BY <2>1, <2>2, <2>3, <2>4, <2>5 DEF Places
<1>6. ASSUME NEW c \in Clients, GraceExpiry(c)
      PROVE  Tended(t)'
  <2>1. UNCHANGED <<open, resume>>
    BY <1>6 DEF GraceExpiry
  <2>2. CASE UNCHANGED <<worker, term>>
    BY <1>2, <2>1, <2>2
  <2>3. CASE Frees(c, bind[c].slot)
    <3>1. worker'[t].st = worker[t].st
      BY <2>3 DEF Frees
    <3>2. term[t] # "none" => term'[t] # "none"
      BY <1>1, <2>3, DispatchAdds DEF Frees, Emptied
    <3> QED
      BY <1>1, <2>1, <3>1, <3>2, SteadyStays DEF Steady
  <2> QED
    BY <1>1, <1>6, <2>2, <2>3, GraceEffect
<1>7. ASSUME NEW r \in Requests, ConnClosed(r)
      PROVE  Tended(t)'
  BY <1>2, <1>7 DEF ConnClosed
<1>8. ASSUME NEW c \in Clients, GraceTimerFires(c) \/ StaleExpiry(c)
      PROVE  Tended(t)'
  BY <1>2, <1>8 DEF GraceTimerFires, StaleExpiry, routing
<1> QED
  BY <1>3, <1>4, <1>5, <1>6, <1>7, <1>8 DEF Serve, Grace

\* The spawner.
LEMMA WorkerTends ==
    ASSUME PoolInv, \A q \in Slots : Tended(q), NEW s \in Slots, NEW t \in Slots,
           Spawn(s) \/ Resume(s) \/ Terminate(s) \/ Backstop(s) \/ ProcessExits(s)
    PROVE  Tended(t)'
<1>1. TypeOK /\ Tended(t) /\ Tended(s) /\ SlotOK(s)
  BY DEF PoolInv, RoutingInv, SlotInv
<1>2. ASSUME UNCHANGED <<open, resume, term>>, worker'[t].st = worker[t].st
      PROVE  Tended(t)'
  BY <1>1, <1>2, SteadyStays DEF Steady
<1>3. CASE SpawnRefused(s) \/ SpawnFails(s) \/ TerminateDeregister(s)
  <2>1. worker'[t] = IF t = s THEN NoWorker ELSE worker[t]
    BY <1>3 DEF SpawnRefused, SpawnFails, TerminateDeregister, ReleaseReservation, Without
  <2>2. open' = open /\ resume' = resume
    BY <1>3 DEF SpawnRefused, SpawnFails, TerminateDeregister
  <2>3. CASE t # s
    <3>1. term'[t] = term[t]
      BY <1>1, <1>3, <2>3 DEF SpawnRefused, SpawnFails, TerminateDeregister, TypeOK
    <3> QED
      BY <1>1, <2>1, <2>2, <2>3, <3>1, SteadyStays DEF Steady
  <2>4. CASE t = s
    BY <2>1, <2>4 DEF Tended, NoWorker
  <2> QED
    BY <2>3, <2>4
<1>4. CASE SpawnStart(s) \/ SpawnFinish(s) \/ WarmSpareConsumed(s) \/ ProcessExits(s)
  BY <1>2, <1>4 DEF SpawnStart, SpawnFinish, WarmSpareConsumed, ProcessExits, routing
<1>5. CASE ResumeStart(s)
  <2>1. UNCHANGED <<open, worker, term>>
    BY <1>5 DEF ResumeStart, routing
  <2>2. CASE (resume'[t] # "none" /\ resume[t] # "none") \/ resume'[t] = resume[t]
    BY <1>1, <2>1, <2>2, SteadyStays DEF Steady
  <2>3. CASE resume'[t] # resume[t] /\ resume'[t] = "none"
    <3>1. t = s /\ ~ElasticSlotCanStart(s) /\ ~Draining
      BY <1>1, <1>5, <2>3 DEF ResumeStart, TypeOK, Draining
    <3>2. worker[t].st # "resuming"
      BY <1>1, <3>1 DEF ElasticSlotCanStart, Tended
    <3> QED
      BY <1>1, <2>1, <2>3, <3>2 DEF Tended
  <2>4. resume'[t] = resume[t] \/ resume'[t] = "none" \/ (resume'[t] # "none" /\ resume[t] # "none")
    BY <1>1, <1>5 DEF ResumeStart, TypeOK
  <2> QED
    BY <2>2, <2>3, <2>4
<1>6. CASE ResumeFails(s)
  <2>1. UNCHANGED <<open, worker>> /\ term' = Dispatch({s})
    BY <1>6 DEF ResumeFails, routing
  <2>2. /\ term[t] # "none" => term'[t] # "none"
        /\ t = s /\ worker[t].st # "none" => term'[t] # "none"
    BY <1>1, <2>1, DispatchAdds
  <2>3. resume'[t] = IF t = s THEN "none" ELSE resume[t]
    BY <1>1, <1>6 DEF ResumeFails, TypeOK
  <2> QED
    BY <1>1, <2>1, <2>2, <2>3 DEF Tended
<1>7. CASE ExpireLifetime(s)
  <2>1. UNCHANGED <<open, worker, resume>> /\ (term' = term \/ term' = Dispatch({s}))
    BY <1>7 DEF ExpireLifetime, routing
  <2>2. term[t] # "none" => term'[t] # "none"
    BY <1>1, <2>1, DispatchAdds
  <2> QED
    BY <1>1, <2>1, <2>2, SteadyStays DEF Steady
<1>8. CASE TerminateStop(s)
  <2>1. UNCHANGED <<open, worker, resume>> /\ (term'[t] = term[t] \/ term'[t] = "stopped")
    BY <1>1, <1>8 DEF TerminateStop, routing, TypeOK
  <2> QED
    BY <1>1, <2>1, SteadyStays DEF Steady
<1>9. ASSUME NEW st \in {"running", "suspended", "suspending"}, Moves(s, st), worker[s].st # "none",
             UNCHANGED <<open, term>>, t # s => resume'[t] = resume[t], resume'[s] = "none"
      PROVE  Tended(t)'
  <2>1. CASE t # s
    <3>1. worker'[t].st = worker[t].st
      BY <1>9, <2>1 DEF Moves
    <3> QED
      BY <1>1, <1>9, <2>1, <3>1, SteadyStays DEF Steady
  <2>2. CASE t = s
    <3>1. worker'[t].st = st /\ open
      BY <1>1, <1>9, <2>2 DEF Moves, Tended
    <3> QED
      BY <1>9, <2>2, <3>1 DEF Tended
  <2> QED
    BY <2>1, <2>2
<1>10. CASE SpareSuspend(s)
  <2>1. Moves(s, "suspending") /\ worker[s].st = "booting" /\ resume[s] = "none"
    BY <1>1, <1>10, MoveEffect DEF States, SpareSuspend, Tended
  <2> QED
    BY <1>9, <1>10, <2>1 DEF SpareSuspend
<1>11. CASE SpawnRegister(s)
  <2>1. spawn[s] \in {"booting", "freezing"} /\ UNCHANGED <<open, resume, term>>
    BY <1>11 DEF SpawnRegister
  <2>2. PICK st \in {"running", "suspended"} : Register(s, st)
    BY <1>11 DEF SpawnRegister
  <2>3. Moves(s, st) /\ worker[s].st \in Settling /\ resume[s] = "none"
    BY <1>1, <2>1, <2>2, RegisterEffect DEF Registers, SlotOK, Settling, Tended
  <2> QED
    BY <1>9, <2>1, <2>3 DEF Settling
<1>12. CASE ResumeDone(s)
  <2>1. UNCHANGED <<open, term>> /\ worker[s].st = "resuming"
        /\ \A q \in Slots : resume'[q] = IF q = s THEN "none" ELSE resume[q]
    BY <1>1, <1>12 DEF ResumeDone, TypeOK
  <2>2. Moves(s, "running")
    BY <1>1, <1>12, ResumeEffect
  <2> QED
    BY <1>9, <2>1, <2>2
<1> QED
  BY <1>3, <1>4, <1>5, <1>6, <1>7, <1>8, <1>10, <1>11, <1>12
  DEF Spawn, Resume, Terminate, Backstop

\* What happens to the pool as a whole.
LEMMA WholeTends ==
    ASSUME PoolInv, \A q \in Slots : Tended(q), NEW t \in Slots, Whole
    PROVE  Tended(t)'
<1>1. TypeOK /\ RoutingInv /\ Tended(t)
  BY DEF PoolInv, RoutingInv
<1>2. CASE Reconcile
  <2>1. open' = open /\ resume' = resume
    BY <1>2 DEF Reconcile
  <2>2. CASE UNCHANGED <<worker, term>>
    BY <1>1, <2>1, <2>2, SteadyStays DEF Steady
  <2>3. ASSUME open, NEW stop \in SUBSET Slots, NEW k \in Nat, Reserves(stop, k)
        PROVE  Tended(t)'
    <3>1. \/ worker'[t].st = "booting" /\ Untouched(t)
          \/ worker'[t].st = "draining" /\ term'[t] # "none" /\ worker[t].st # "resuming"
               /\ worker[t].st # "none"
          \/ worker'[t] = worker[t] /\ term'[t] = term[t]
      BY <1>1, <2>3, ReservedSlots
    <3> QED
      BY <1>1, <2>1, <2>3, <3>1 DEF Tended, Untouched
  <2> QED
    BY <1>1, <1>2, <2>2, <2>3, ReserveEffect
<1>3. CASE StopApp \/ Hibernate
  <2>1. worker'[t] = NoWorker
    BY <1>3 DEF StopApp, Hibernate, DropPool, Without
  <2> QED
    BY <2>1 DEF Tended, NoWorker
<1>4. CASE SettingsDrainAborted
  <2>1. UNCHANGED <<open, resume, term>> /\ worker'[t] \in {worker[t], NoWorker}
    BY <1>4 DEF SettingsDrainAborted, Without
  <2> QED
    BY <1>1, <2>1 DEF Tended, NoWorker
<1>5. CASE OpenPool
  BY <1>1, <1>5, SteadyStays DEF OpenPool, Steady
<1>6. CASE WarmRetryFires \/ BeginSettingsDrain \/ SetPoolWarmSpares
  BY <1>1, <1>6, SteadyStays DEF WarmRetryFires, BeginSettingsDrain, SetPoolWarmSpares, Steady,
     routing
<1> QED
  BY <1>2, <1>3, <1>4, <1>5, <1>6 DEF Whole

\* The lock is given up with what it was taken for.
LEMMA HeldStep ==
    ASSUME PoolInv, HeldInv, \A q \in Slots : Tended(q), Next
    PROVE  HeldInv'
<1>1. TypeOK /\ LockInv /\ RoutingInv
  BY DEF PoolInv, RoutingInv
<1>2. ASSUME op' = op, open => open', \A q \in Slots : Holds(q) => Holds(q)'
      PROVE  HeldInv'
  BY <1>2 DEF HeldInv, Draining
<1>3. ASSUME op' = "free"
      PROVE  HeldInv'
  BY <1>3 DEF HeldInv, Draining
<1>4. ASSUME NEW s \in Slots, op' = "held", Holds(s)'
      PROVE  HeldInv'
  BY <1>4 DEF HeldInv, Draining
<1>5. ASSUME NEW r \in Requests, Serve(r)
      PROVE  HeldInv'
  <2>1. op' = op /\ open' = open
    BY <1>5 DEF Serve, Arrive, BindRoute, PlaceClient, ConnClosed
  <2>2. CASE UNCHANGED <<spawn, resume>>
    BY <1>2, <2>1, <2>2 DEF Holds
  <2>3. CASE PlaceClient(r)
    <3>1. Places(req[r].c)
      BY <1>1, <2>3, PlaceEffect
    <3>2. ASSUME NEW s \in Slots, worker[s].st = "suspended", spawn' = spawn,
                 resume' = [resume EXCEPT ![s] = "queued"]
          PROVE  HeldInv'
      <4>1. resume[s] = "none"
        BY <3>2 DEF Tended
      <4>2. \A q \in Slots : Holds(q) => Holds(q)'
        BY <1>1, <3>2, <4>1 DEF Holds, TypeOK
      <4> QED
        BY <1>2, <2>1, <4>2
    <3>3. CASE /\ nextSlot \in Slots /\ spawn' = [spawn EXCEPT ![nextSlot] = "queued"]
               /\ resume' = resume
      <4>1. nextSlot >= nextSlot
        BY <1>1 DEF TypeOK
      <4>2. spawn[nextSlot] = "none"
        BY <1>1, <3>3, <4>1 DEF RoutingInv, Fresh, Untouched
      <4>3. \A q \in Slots : Holds(q) => Holds(q)'
        BY <1>1, <3>3, <4>2 DEF Holds, Booting, TypeOK
      <4> QED
        BY <1>2, <2>1, <4>3
    <3> QED
      BY <2>2, <3>1, <3>2, <3>3 DEF Places
  <2> QED
    BY <1>5, <2>2, <2>3 DEF Serve, Arrive, BindRoute, ConnClosed
<1>6. ASSUME NEW c \in Clients, Grace(c)
      PROVE  HeldInv'
  BY <1>2, <1>6 DEF Grace, GraceTimerFires, GraceExpiry, StaleExpiry, routing, Holds
<1>7. ASSUME NEW s \in Slots,
             Spawn(s) \/ Resume(s) \/ Terminate(s) \/ Backstop(s) \/ ProcessExits(s)
      PROVE  HeldInv'
  <2>1. CASE SpawnRefused(s)
    BY <1>3, <2>1 DEF SpawnRefused
  <2>2. CASE SpawnFails(s) \/ SpawnFinish(s) \/ ResumeDone(s) \/ ResumeFails(s)
    BY <1>3, <2>2 DEF SpawnFails, SpawnFinish, ResumeDone, ResumeFails
  <2>3. CASE SpawnStart(s)
    <3>1. op' = "held" /\ spawn'[s] = "booting"
      BY <1>1, <2>3 DEF SpawnStart, TypeOK
    <3> QED
      BY <1>4, <3>1 DEF Holds, Booting
  <2>4. CASE ResumeStart(s)
    <3>1. op' = "free" \/ (op' = "held" /\ resume'[s] = "thawing")
      BY <1>1, <2>4 DEF ResumeStart, TypeOK
    <3> QED
      BY <1>3, <1>4, <3>1 DEF Holds
  <2>5. CASE SpareSuspend(s) \/ SpawnRegister(s)
    <3>1. op' = op /\ open' = open /\ resume' = resume
      BY <2>5 DEF SpareSuspend, SpawnRegister
    <3>2. \A q \in Slots : spawn'[q] = spawn[q] \/ spawn'[q] \in Booting
      BY <1>1, <2>5 DEF SpareSuspend, SpawnRegister, Booting, TypeOK
    <3> QED
      BY <1>2, <3>1, <3>2 DEF Holds
  <2>6. CASE Terminate(s) \/ Backstop(s) \/ ProcessExits(s)
    BY <1>2, <2>6 DEF Terminate, TerminateStop, TerminateDeregister, Backstop, ExpireLifetime,
       WarmSpareConsumed, ProcessExits, routing, Holds
  <2> QED
    BY <1>7, <2>1, <2>2, <2>3, <2>4, <2>5, <2>6 DEF Spawn, Resume
<1>8. CASE Whole
  <2>1. CASE Reconcile
    <3>1. op' = op /\ open' = open /\ resume' = resume
      BY <2>1 DEF Reconcile
    <3>2. \A q \in Slots : spawn'[q] = spawn[q] \/ spawn[q] = "none"
      <4>1. ASSUME NEW stop \in SUBSET Slots, NEW k \in Nat, Reserves(stop, k), NEW q \in Slots
            PROVE  spawn'[q] = spawn[q] \/ spawn[q] = "none"
        BY <1>1, <4>1, ReservedSlots DEF Untouched
      <4> QED
        BY <1>1, <2>1, <4>1, ReserveEffect
    <3> QED
      BY <1>2, <3>1, <3>2 DEF Holds, Booting
  <2>2. CASE WarmRetryFires \/ OpenPool \/ SetPoolWarmSpares
    BY <1>2, <2>2 DEF WarmRetryFires, OpenPool, SetPoolWarmSpares, routing, Holds
  <2>3. CASE StopApp \/ Hibernate \/ SettingsDrainAborted
    BY <1>3, <2>3 DEF StopApp, Hibernate, DropPool, SettingsDrainAborted
  <2>4. CASE BeginSettingsDrain
    BY <2>4 DEF BeginSettingsDrain, HeldInv, Draining, routing
  <2> QED
    BY <1>8, <2>1, <2>2, <2>3, <2>4 DEF Whole
<1> QED
  BY <1>5, <1>6, <1>7, <1>8 DEF Next, Whole

\* The spawner, the grace period, the backstop and the drain, as far as safety goes: a
\* worker that boots, freezes, thaws or retires has a step of its own under way, or
\* waits for the app operation lock, which a boot or thaw that may always fail holds,
\* or a drain of an open pool that may always be stopped.
THEOREM WorkersAreAttended ==
    ASSUME ~Burst
    PROVE  Spec => [](\A s \in Slots :
              worker[s].st \in {"booting", "suspending", "resuming", "draining"} => Attended(s))
<1> DEFINE Goes == \A s \in Slots :
              worker[s].st \in {"booting", "suspending", "resuming", "draining"} => Attended(s)
<1>1. Init => TendInv
  <2>1. ASSUME Init
        PROVE  TendInv
    <3>1. HeldInv
      BY <2>1 DEF Init, HeldInv, Draining
    <3>2. \A s \in Slots : Tended(s)
      BY <2>1 DEF Init, Tended, NoWorker
    <3> QED
      BY <3>1, <3>2 DEF TendInv
  <2> QED
    BY <2>1
<1>2. PoolInv /\ TendInv /\ [Next]_vars => TendInv'
  <2>1. ASSUME PoolInv, TendInv, Next
        PROVE  TendInv'
    <3>1. HeldInv'
      BY <2>1, HeldStep DEF TendInv
    <3>2. \A t \in Slots : Tended(t)'
      BY <2>1, ClientTends, WorkerTends, WholeTends DEF TendInv, Next, Whole
    <3> QED
      BY <3>1, <3>2 DEF TendInv
  <2>2. ASSUME TendInv, UNCHANGED vars
        PROVE  TendInv'
    BY <2>2 DEF vars, routing, TendInv, HeldInv, Tended, Holds, Draining
  <2> QED
    BY <2>1, <2>2
<1>3. PoolInv /\ TendInv => Goes
  <2>1. ASSUME PoolInv, TendInv, NEW s \in Slots,
               worker[s].st \in {"booting", "suspending", "resuming", "draining"}
        PROVE  Attended(s)
    <3>1. LockComes
      BY <2>1 DEF PoolInv, RoutingInv, TypeOK, TendInv, HeldInv, LockComes, Draining
    <3>2. SlotOK(s) /\ Tended(s) /\ TypeOK
      BY <2>1 DEF PoolInv, RoutingInv, SlotInv, TendInv
    <3>3. \/ spawn[s] \in Booting \/ resume[s] = "thawing" \/ term[s] # "none"
          \/ spawn[s] = "queued" \/ resume[s] = "queued"
      BY <2>1, <3>2 DEF SlotOK, Tended, Settling, Booting, TypeOK
    <3> QED
      BY <3>1, <3>3 DEF Attended
  <2> QED
    BY <2>1
<1>4. Spec => []PoolInv
  BY PoolInvariance
<1> QED
  BY <1>1, <1>2, <1>3, <1>4, PTL DEF Spec
============================================================================
