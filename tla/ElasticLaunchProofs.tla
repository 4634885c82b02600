------------------------ MODULE ElasticLaunchProofs ------------------------
(***************************************************************************)
(* Proofs about ElasticLaunch, for any instances, machines, clients and    *)
(* requests, and any bounds.                                               *)
(*                                                                         *)
(* StoppedIsGone is not inductive.  What keeps a reservation quiet between *)
(* the worker's proof and the release of the row, and after it, is that    *)
(* nothing is authorized any more and that no handler was left behind with *)
(* its guard in hand.  StopInv says so: from the binding of a call         *)
(* (CallsBound) through the mutex of the handlers (OneHandler, GuardInHand)*)
(* and the containers they hold back (GuardsHeld, StartsCreated) to what a *)
(* confirmation rests on (ConfirmsProved, Tombstones).                     *)
(***************************************************************************)
EXTENDS ElasticLaunch, TLAPS

\* A call under way is for a reservation that is bound as the call says.
CallsBound ==
    \A c \in Calls :
        /\ call[c].at = "idle" => call[c] = NoCall
        /\ call[c].at # "idle" =>
             /\ call[c].slot \in Slots /\ call[c].node \in Nodes
             /\ call[c].request \in Requests /\ call[c].inst \in Instances
             /\ binding[call[c].slot] = [node |-> call[c].node, request |-> call[c].request]

TypeInv == TypeOK /\ CallsBound

LEMMA InitTypes == ASSUME Init PROVE TypeInv
BY LeaseAssumption, ElasticAssumption
   DEF Init, LeaseInit, TypeInv, TypeOK, CallsBound, Rows, Tokens, CallRecords, Journals,
       ContainerRecords, NoRow, NoBinding, NoCall, NoJournal, NoCont

\* What a call that is under way names.
LEMMA CallFields ==
    ASSUME TypeInv, NEW c \in Calls, call[c].at # "idle" \/ call[c].job # "none"
    PROVE  /\ call[c] \in CallRecords
           /\ call[c].slot \in Slots /\ call[c].node \in Nodes
           /\ call[c].request \in Requests /\ call[c].inst \in Instances
           /\ call[c].at # "idle"
           /\ binding[call[c].slot] = [node |-> call[c].node, request |-> call[c].request]
BY DEF TypeInv, TypeOK, CallsBound, NoCall

\* The answer of a handler keeps the calls' types.
LEMMA AnswerTypes ==
    ASSUME TypeInv, NEW c \in Calls, call[c].at # "idle", NEW k \in Tokens,
           NEW at \in {"error", "prepared", "acked", "confirm"},
           Answer(c, at, k), binding' = binding
    PROVE  call' \in [Calls -> CallRecords] /\ CallsBound'
<1>1. call[c] \in CallRecords
  BY CallFields
<1>2. NoCall \in CallRecords
  BY LeaseAssumption DEF NoCall, CallRecords, Tokens
<1>3. [call[c] EXCEPT !.at = at, !.job = "none", !.token = k] \in CallRecords
      \/ at = "error"
  BY <1>1 DEF CallRecords
<1>4. call' \in [Calls -> CallRecords]
  BY <1>2, <1>3 DEF Answer, TypeInv, TypeOK
<1>5. CallsBound'
  BY <1>1, CallFields DEF Answer, CallsBound, TypeInv, TypeOK, NoCall, CallRecords
<1> QED
  BY <1>4, <1>5

RowStates == {"none", "reserved", "launching", "ready", "stopping", "stopped"}

\* The forms in which the steps change a row, a call and a container.
LEMMA RowForms ==
    ASSUME NEW p \in Rows
    PROVE  /\ \A s \in RowStates : [p EXCEPT !.state = s] \in Rows
           /\ \A s \in RowStates, i \in Instances, e \in Nat :
                [p EXCEPT !.state = s, !.owner = i, !.epoch = e] \in Rows
           /\ p.state \in RowStates
BY Zenon DEF Rows, RowStates

LEMMA CallForms ==
    ASSUME NEW p \in CallRecords
    PROVE  /\ [p EXCEPT !.at = "ack", !.action = "ack", !.job = "sent"] \in CallRecords
           /\ \A b \in {"recorded", "creating", "starting"} :
                [p EXCEPT !.job = b] \in CallRecords
           /\ NoCall \in CallRecords
BY DEF CallRecords, NoCall, Tokens

LEMMA RowTyped ==
    ASSUME TypeInv, NEW r \in Slots
    PROVE  row[r] \in Rows
BY DEF TypeInv, TypeOK

\* Steps that change the rows alone, and those of the app and the lease.
LEMMA StoreTypes ==
    ASSUME TypeInv,
           \/ LeaseMoves
           \/ \E d \in 0 .. MaxDeploy : AppChanges(d)
           \/ \E i \in Instances, r \in Slots :
                \/ \E client \in Clients : ReserveElasticSession(i, client, r)
                \/ AdvanceLaunching(i, r)
    PROVE  TypeInv'
<1> USE ElasticAssumption, LeaseAssumption DEF TypeInv, TypeOK, CallsBound, workerVars, storeVars, leaseVars
<1>1. ASSUME LeaseMoves PROVE TypeInv'
  <2>1. /\ holder' \in Instances \cup {NoInstance}
        /\ leaseEpoch' \in Nat
        /\ known' \in [Instances -> Nat]
    BY <1>1 DEF LeaseMoves, Expire, Take
  <2>2. live' \in BOOLEAN
    BY <1>1 DEF LeaseMoves, Expire, Take
  <2>3. UNCHANGED <<storeVars, call, workerVars, cont>>
    BY <1>1 DEF LeaseMoves
  <2> QED
    BY <2>1, <2>2, <2>3
<1>2. ASSUME NEW d \in 0 .. MaxDeploy, AppChanges(d) PROVE TypeInv'
  BY <1>2 DEF AppChanges
<1>3. ASSUME NEW i \in Instances, NEW r \in Slots, NEW client \in Clients,
             ReserveElasticSession(i, client, r)
      PROVE  TypeInv'
  <2>1. [state |-> "reserved", client |-> client, dep |-> serving, owner |-> i,
         epoch |-> leaseEpoch] \in Rows
    BY DEF Rows
  <2> QED
    BY <1>3, <2>1 DEF ReserveElasticSession
<1>4. ASSUME NEW i \in Instances, NEW r \in Slots, AdvanceLaunching(i, r)
      PROVE  TypeInv'
  <2>1. [row[r] EXCEPT !.state = "launching"] \in Rows
    BY RowForms, RowTyped, Zenon DEF RowStates
  <2> QED
    BY <1>4, <2>1 DEF AdvanceLaunching
<1> QED
  BY <1>1, <1>2, <1>3, <1>4

\* The coordinator's steps.
LEMMA CoordinatorTypes ==
    ASSUME TypeInv, NEW c \in Calls, Coordinates(c)
    PROVE  TypeInv'
<1> USE ElasticAssumption, LeaseAssumption DEF workerVars, storeVars, leaseVars
<1>0. NoCall \in CallRecords /\ NoCall.at = "idle"
  BY DEF NoCall, CallRecords, Tokens
<1>1. ASSUME NEW i \in Instances, NEW r \in Slots, NEW n \in Nodes, NEW q \in Requests,
             Launch(c, i, r, n, q)
      PROVE  TypeInv'
  <2> DEFINE a == [at |-> "prepare", job |-> "sent", action |-> "prepare", slot |-> r,
                   inst |-> i, epoch |-> leaseEpoch, node |-> n, request |-> q, token |-> 0]
  <2>1. a \in CallRecords
    BY DEF TypeInv, TypeOK, CallRecords, Tokens
  <2>2. [row[r] EXCEPT !.state = IF @ = "reserved" THEN "launching" ELSE @] \in Rows
    BY RowForms, RowTyped, Zenon DEF RowStates
  <2>3. \/ binding[r] = NoBinding
        \/ binding[r] = [node |-> n, request |-> q]
    BY <1>1 DEF Launch, Bindable
  <2>4. TypeOK'
    BY <1>1, <2>1, <2>2 DEF Launch, TypeInv, TypeOK
  <2>5. CallsBound'
    BY <1>1, <2>3 DEF Launch, TypeInv, TypeOK, CallsBound, NoBinding, NoCall
  <2> QED
    BY <2>4, <2>5 DEF TypeInv
<1>2. ASSUME NEW i \in Instances, NEW r \in Slots, NEW n \in Nodes, NEW q \in Requests,
             Stop(c, i, r, n, q)
      PROVE  TypeInv'
  <2> DEFINE a == [at |-> "stop", job |-> "sent", action |-> "stop", slot |-> r,
                   inst |-> i, epoch |-> leaseEpoch, node |-> n, request |-> q, token |-> 0]
  <2>1. a \in CallRecords
    BY DEF TypeInv, TypeOK, CallRecords, Tokens
  <2>2. [row[r] EXCEPT !.state = "stopping", !.owner = i, !.epoch = leaseEpoch] \in Rows
    <3>1. leaseEpoch \in Nat
      BY DEF TypeInv, TypeOK
    <3> QED
      BY <3>1, RowForms, RowTyped, Zenon DEF RowStates
  <2>3. row' \in [Slots -> Rows]
    BY <1>2, <2>2 DEF Stop, TypeInv, TypeOK
  <2>4. TypeOK'
    BY <1>2, <2>1, <2>3 DEF Stop, TypeInv, TypeOK
  <2>5. CallsBound'
    BY <1>2 DEF Stop, TypeInv, TypeOK, CallsBound, NoCall
  <2> QED
    BY <2>4, <2>5 DEF TypeInv
<1>3. ASSUME LaunchAcks(c) PROVE TypeInv'
  <2>0. call[c] \in CallRecords
    BY DEF TypeInv, TypeOK
  <2>1. [call[c] EXCEPT !.at = "ack", !.action = "ack", !.job = "sent"] \in CallRecords
    BY <2>0, CallForms, Zenon
  <2>2. call' = [call EXCEPT ![c] = [call[c] EXCEPT !.at = "ack", !.action = "ack", !.job = "sent"]]
    BY <1>3 DEF LaunchAcks, TypeInv, TypeOK, CallRecords
  <2>3. TypeOK'
    BY <1>3, <2>1, <2>2 DEF LaunchAcks, TypeInv, TypeOK
  <2>4. CallsBound'
    BY <1>3, <2>2 DEF LaunchAcks, TypeInv, TypeOK, CallsBound, NoCall, CallRecords
  <2> QED
    BY <2>3, <2>4 DEF TypeInv
<1>4. ASSUME LaunchAdvances(c) PROVE TypeInv'
  <2>1. call[c].slot \in Slots
    BY <1>4, CallFields DEF LaunchAdvances
  <2>2. [row[call[c].slot] EXCEPT !.state = "ready"] \in Rows
    BY <2>1, RowForms, RowTyped, Zenon DEF RowStates
  <2> QED
    BY <1>0, <1>4, <2>1, <2>2 DEF LaunchAdvances, TypeInv, TypeOK, CallsBound
<1>5. ASSUME StopConfirms(c) PROVE TypeInv'
  <2>1. call[c].slot \in Slots
    BY <1>5, CallFields DEF StopConfirms
  <2>2. [row[call[c].slot] EXCEPT !.state = "stopped"] \in Rows
    BY <2>1, RowForms, RowTyped, Zenon DEF RowStates
  <2> QED
    BY <1>0, <1>5, <2>1, <2>2 DEF StopConfirms, TypeInv, TypeOK, CallsBound
<1>6. ASSUME CallerGivesUp(c) PROVE TypeInv'
  BY <1>0, <1>6 DEF CallerGivesUp, TypeInv, TypeOK, CallsBound
<1> QED
  BY <1>1, <1>2, <1>3, <1>4, <1>5, <1>6 DEF Coordinates

\* The daemon's steps.
LEMMA DaemonTypes ==
    ASSUME TypeInv, NEW k \in Containers, Daemon(k)
    PROVE  TypeInv'
<1> USE DEF workerVars, storeVars, leaseVars, TypeInv
<1>1. /\ [cont[k] EXCEPT !.state = "created"] \in ContainerRecords
      /\ [cont[k] EXCEPT !.state = "exited"] \in ContainerRecords
      /\ [cont[k] EXCEPT !.state = "running", !.startAsked = FALSE, !.ran = TRUE] \in ContainerRecords
      /\ Removed(k) \in ContainerRecords
  BY DEF TypeOK, ContainerRecords, Removed
<1>2. cont' \in [Containers -> ContainerRecords]
  BY <1>1 DEF Daemon, DaemonCreates, DaemonStarts, ContainerExits, ContainerRemoved, TypeOK
<1>3. UNCHANGED <<leaseVars, storeVars, call, workerVars>>
  BY DEF Daemon, DaemonCreates, DaemonStarts, ContainerExits, ContainerRemoved
<1> QED
  BY <1>2, <1>3 DEF TypeOK, CallsBound

JournalStates == {"none", "preparing", "prepared", "acknowledging", "ready", "stopping", "stopped"}

LEMMA JournalForms ==
    ASSUME NEW j \in Journals, NEW q \in Requests \cup {NoRequest}, NEW s \in JournalStates
    PROVE  /\ [j EXCEPT !.state = s] \in Journals
           /\ Journaled(j, s, q) \in Journals
           /\ \A k \in Tokens : [state |-> s, token |-> k, request |-> q] \in Journals
BY DEF Journals, JournalStates, Journaled

LEMMA ContForms ==
    ASSUME NEW p \in ContainerRecords
    PROVE  /\ \A n \in Nodes, r \in Nat :
                [p EXCEPT !.state = "token", !.slot = r, !.node = n] \in ContainerRecords
           /\ [p EXCEPT !.state = "requested"] \in ContainerRecords
           /\ \A b \in BOOLEAN : [p EXCEPT !.closed = TRUE, !.startAsked = b] \in ContainerRecords
           /\ [p EXCEPT !.state = "gone", !.startAsked = FALSE] \in ContainerRecords
BY Zenon DEF ContainerRecords

\* A handler's job, and what it reads, have their types.
LEMMA JobFields ==
    ASSUME TypeInv, NEW c \in Calls, call[c].job # "none"
    PROVE  /\ journal[call[c].node][call[c].slot] \in Journals
           /\ journal[call[c].node][call[c].slot].token \in Tokens
           /\ guard[call[c].node][call[c].slot] \in Tokens
           /\ routed[call[c].node] \subseteq Containers
           /\ call[c].slot \in Nat
<1>1. call[c].node \in Nodes /\ call[c].slot \in Slots
  BY CallFields
<1>2. journal[call[c].node][call[c].slot] \in Journals
  BY <1>1 DEF TypeInv, TypeOK
<1>3. journal[call[c].node][call[c].slot].token \in Tokens
  BY <1>2 DEF Journals
<1>4. guard[call[c].node][call[c].slot] \in Tokens /\ routed[call[c].node] \subseteq Containers
  BY <1>1 DEF TypeInv, TypeOK
<1> QED
  BY <1>1, <1>2, <1>3, <1>4, ElasticAssumption

\* Writing one entry of a worker's journal or guards keeps their types.
LEMMA EntryTypes ==
    ASSUME TypeInv, NEW n \in Nodes, NEW r \in Slots
    PROVE  /\ \A j \in Journals :
                [journal EXCEPT ![n][r] = j] \in [Nodes -> [Slots -> Journals]]
           /\ \A k \in Tokens :
                [guard EXCEPT ![n][r] = k] \in [Nodes -> [Slots -> Tokens]]
           /\ \A s \in JournalStates :
                [journal EXCEPT ![n][r].state = s] \in [Nodes -> [Slots -> Journals]]
<1>1. ASSUME NEW j \in Journals
      PROVE  [journal EXCEPT ![n][r] = j] \in [Nodes -> [Slots -> Journals]]
  BY DEF TypeInv, TypeOK
<1>2. ASSUME NEW k \in Tokens
      PROVE  [guard EXCEPT ![n][r] = k] \in [Nodes -> [Slots -> Tokens]]
  BY DEF TypeInv, TypeOK
<1>3. ASSUME NEW s \in JournalStates
      PROVE  [journal EXCEPT ![n][r].state = s] \in [Nodes -> [Slots -> Journals]]
  <2>1. journal[n][r] \in Journals
    BY DEF TypeInv, TypeOK
  <2>2. [journal[n][r] EXCEPT !.state = s] \in Journals
    BY <2>1 DEF Journals, JournalStates
  <2> QED
    BY <1>1, <2>2
<1> QED
  BY <1>1, <1>2, <1>3

\* A handler that goes on keeps the calls' types.
LEMMA JobMoves ==
    ASSUME TypeInv, NEW c \in Calls, call[c].job # "none",
           NEW b \in {"recorded", "creating", "starting"},
           call' = [call EXCEPT ![c].job = b], binding' = binding
    PROVE  call' \in [Calls -> CallRecords] /\ CallsBound'
<1>1. call[c] \in CallRecords /\ call[c].at # "idle"
  BY CallFields
<1>2. [call[c] EXCEPT !.job = b] \in CallRecords
  BY <1>1, CallForms, Zenon
<1>3. call' \in [Calls -> CallRecords]
  BY <1>2 DEF TypeInv, TypeOK
<1>4. CallsBound'
  BY <1>1, CallFields DEF CallsBound, TypeInv, TypeOK, NoCall, CallRecords
<1> QED
  BY <1>3, <1>4

Working(c) == call[c].job \notin {"none", "sent"}

\* elasticMu: a worker has one handler at work.
OneHandler ==
    \A c, d \in Calls :
        Working(c) /\ Working(d) /\ call[c].node = call[d].node => c = d

\* A handler that starts a container holds its guard.
GuardInHand ==
    \A c \in Calls :
        call[c].job = "starting" => guard[call[c].node][call[c].slot] # 0

\* The worker's handlers of launches.
LEMMA HandlerTypes ==
    ASSUME TypeInv, GuardInHand, NEW c \in Calls,
           \/ HandlerRefuses(c)
           \/ PrepareReplays(c) \/ PrepareCreates(c) \/ PrepareCreated(c) \/ PrepareFails(c)
           \/ \E k \in Containers : PrepareRecords(c, k)
           \/ AckReplays(c) \/ AckStarts(c) \/ AckStarted(c) \/ AckFails(c)
    PROVE  TypeInv'
<1> DEFINE n == call[c].node
           r == call[c].slot
<1> USE DEF workerVars, storeVars, leaseVars
<1>0. 0 \in Tokens
  BY DEF Tokens
<1>1. call[c].job # "none"
  BY Zenon DEF HandlerRefuses, PrepareReplays, PrepareRecords, PrepareCreates, PrepareCreated,
         PrepareFails, AckReplays, AckStarts, AckStarted, AckFails, Admitted
<1>2. /\ n \in Nodes /\ r \in Slots /\ r \in Nat /\ call[c].at # "idle"
      /\ call[c].request \in Requests
      /\ journal[n][r].token \in Tokens /\ guard[n][r] \in Tokens
  BY <1>1, CallFields, JobFields
<1>3. ASSUME HandlerRefuses(c) \/ PrepareFails(c) PROVE TypeInv'
  <2>1. call' \in [Calls -> CallRecords] /\ CallsBound'
    BY <1>0, <1>2, <1>3, AnswerTypes DEF HandlerRefuses, PrepareFails
  <2> QED
    BY <1>3, <2>1 DEF HandlerRefuses, PrepareFails, TypeInv, TypeOK
<1>4. ASSUME PrepareReplays(c) PROVE TypeInv'
  <2>1. call' \in [Calls -> CallRecords] /\ CallsBound'
    BY <1>2, <1>4, AnswerTypes DEF PrepareReplays
  <2> QED
    BY <1>4, <2>1 DEF PrepareReplays, TypeInv, TypeOK
<1>5. ASSUME NEW k \in Containers, PrepareRecords(c, k) PROVE TypeInv'
  <2>1. call' \in [Calls -> CallRecords] /\ CallsBound'
    BY <1>1, <1>5, JobMoves, Zenon DEF PrepareRecords
  <2>2. k \in Tokens
    BY DEF Tokens
  <2>3. journal' \in [Nodes -> [Slots -> Journals]]
    <3>1. [state |-> "preparing", token |-> k, request |-> call[c].request] \in Journals
      BY <1>2, <2>2 DEF Journals
    <3> QED
      BY <1>2, <1>5, <3>1, EntryTypes, Zenon DEF PrepareRecords
  <2>4. cont' \in [Containers -> ContainerRecords]
    <3>1. cont[k] \in ContainerRecords
      BY DEF TypeInv, TypeOK
    <3>2. [cont[k] EXCEPT !.state = "token", !.slot = r, !.node = n] \in ContainerRecords
      BY <1>2, <3>1, ContForms, ZenonT(30)
    <3> QED
      BY <1>5, <3>2, ZenonT(30) DEF PrepareRecords, TypeInv, TypeOK
  <2> QED
    BY <1>5, <2>1, <2>3, <2>4, Zenon DEF PrepareRecords, TypeInv, TypeOK
<1>6. ASSUME PrepareCreates(c) PROVE TypeInv'
  <2>1. call' \in [Calls -> CallRecords] /\ CallsBound'
    BY <1>1, <1>6, JobMoves, ZenonT(30) DEF PrepareCreates
  <2> DEFINE k == journal[n][r].token
  <2>2. cont' \in [Containers -> ContainerRecords]
    <3>1. ASSUME k \in Containers
          PROVE  [cont[k] EXCEPT !.state = "requested"] \in ContainerRecords
      BY <3>1, ContForms, Zenon DEF TypeInv, TypeOK
    <3>2. cont' = [cont EXCEPT ![k] = [cont[k] EXCEPT !.state = "requested"]]
      BY <1>6, SMTT(30) DEF PrepareCreates, TypeInv, TypeOK
    <3> QED
      BY <3>1, <3>2, ZenonT(30) DEF TypeInv, TypeOK
  <2> QED
    BY <1>6, <2>1, <2>2, ZenonT(30) DEF PrepareCreates, TypeInv, TypeOK
<1>7. ASSUME PrepareCreated(c) PROVE TypeInv'
  <2>1. call' \in [Calls -> CallRecords] /\ CallsBound'
    BY <1>0, <1>2, <1>7, AnswerTypes, ZenonT(30) DEF PrepareCreated
  <2>2. journal' \in [Nodes -> [Slots -> Journals]]
    <3>1. CASE journal' = journal
      BY <3>1 DEF TypeInv, TypeOK
    <3>2. CASE journal' = [journal EXCEPT ![n][r].state = "prepared"]
      BY <1>2, <3>2, EntryTypes, Zenon DEF JournalStates
    <3> QED
      BY <1>7, <3>1, <3>2, Zenon DEF PrepareCreated
  <2>3. guard' \in [Nodes -> [Slots -> Tokens]]
    BY <1>2, <1>7, EntryTypes, Zenon DEF PrepareCreated
  <2> QED
    BY <1>7, <2>1, <2>2, <2>3, Zenon DEF PrepareCreated, TypeInv, TypeOK
<1>8. ASSUME AckReplays(c) PROVE TypeInv'
  <2>1. call' \in [Calls -> CallRecords] /\ CallsBound'
    BY <1>2, <1>8, AnswerTypes DEF AckReplays
  <2> QED
    BY <1>8, <2>1, SMTT(30) DEF AckReplays, TypeInv, TypeOK
<1>9. ASSUME AckStarts(c) PROVE TypeInv'
  <2> DEFINE k == guard[n][r]
  <2>0. k \in Containers
    BY <1>2, <1>9, ZenonT(30) DEF AckStarts, Tokens
  <2>1. call' \in [Calls -> CallRecords] /\ CallsBound'
    BY <1>0, <1>1, <1>2, <1>9, AnswerTypes, JobMoves, ZenonT(30) DEF AckStarts
  <2>2. journal' \in [Nodes -> [Slots -> Journals]]
    BY <1>2, <1>9, EntryTypes, Zenon DEF AckStarts, JournalStates
  <2>3. cont' \in [Containers -> ContainerRecords]
    <3>1. [cont[k] EXCEPT !.closed = TRUE, !.startAsked = (cont[k].state = "created")]
             \in ContainerRecords
      BY <2>0, ContForms, ZenonT(30) DEF TypeInv, TypeOK
    <3>2. \/ cont' = cont
          \/ cont' = [cont EXCEPT ![k] = [cont[k] EXCEPT !.closed = TRUE,
                                            !.startAsked = (cont[k].state = "created")]]
      BY <1>9, <2>0, ZenonT(30) DEF AckStarts, TypeInv, TypeOK
    <3> QED
      BY <2>0, <3>1, <3>2 DEF TypeInv, TypeOK
  <2> QED
    BY <1>9, <2>1, <2>2, <2>3, ZenonT(30) DEF AckStarts, TypeInv, TypeOK
<1>10. ASSUME AckStarted(c) PROVE TypeInv'
  <2> DEFINE k == guard[n][r]
  <2>1. call' \in [Calls -> CallRecords] /\ CallsBound'
    <3>1. \E at \in {"error", "acked"}, m \in Tokens : Answer(c, at, m) /\ binding' = binding
      BY <1>0, <1>2, <1>10, ZenonT(30) DEF AckStarted
    <3> QED
      BY <1>2, <3>1, AnswerTypes
  <2>2. journal' \in [Nodes -> [Slots -> Journals]]
    <3>1. CASE journal' = journal
      BY <3>1 DEF TypeInv, TypeOK
    <3>2. CASE journal' = [journal EXCEPT ![n][r].state = "ready"]
      BY <1>2, <3>2, EntryTypes, Zenon DEF JournalStates
    <3> QED
      BY <1>10, <3>1, <3>2 DEF AckStarted
  <2>3. guard' \in [Nodes -> [Slots -> Tokens]]
    BY <1>0, <1>2, <1>10, EntryTypes, Zenon DEF AckStarted
  <2>4. routed' \in [Nodes -> SUBSET Containers]
    <3>1. k \in Containers
      BY <1>2, <1>10, ZenonT(30) DEF AckStarted, GuardInHand, Tokens
    <3>2. routed' = routed \/ routed' = [routed EXCEPT ![n] = @ \cup {k}]
      BY <1>10, Zenon DEF AckStarted
    <3>3. routed \in [Nodes -> SUBSET Containers]
      BY DEF TypeInv, TypeOK
    <3> HIDE DEF k, n
    <3> QED
      BY <1>2, <3>1, <3>2, <3>3
  <2> QED
    BY <1>10, <2>1, <2>2, <2>3, <2>4, SMTT(30) DEF AckStarted, TypeInv, TypeOK
<1>11. ASSUME AckFails(c) PROVE TypeInv'
  <2> DEFINE k == guard[n][r]
  <2>1. call' \in [Calls -> CallRecords] /\ CallsBound'
    BY <1>0, <1>2, <1>11, AnswerTypes DEF AckFails
  <2>2. cont' \in [Containers -> ContainerRecords]
    <3>1. ASSUME k \in Containers PROVE Removed(k) \in ContainerRecords
      BY <3>1, ContForms, Zenon DEF TypeInv, TypeOK, Removed
    <3> QED
      BY <1>11, <3>1 DEF AckFails, TypeInv, TypeOK
  <2> QED
    BY <1>11, <2>1, <2>2 DEF AckFails, TypeInv, TypeOK
<1> QED
  BY <1>3, <1>4, <1>5, <1>6, <1>7, <1>8, <1>9, <1>10, <1>11

\* stopElastic, of any reservations: what it wrote, tried, removed and proved.
LEMMA StopParts ==
    ASSUME NEW n, NEW S, NEW routes, StopElastic(n, S, routes)
    PROVE  \E Noted \in SUBSET S, Tried \in SUBSET S, Gone \in SUBSET Containers,
              Proved \in SUBSET S :
             /\ Tried \subseteq Noted /\ Proved \subseteq Tried
             /\ \A k \in Gone : cont[k].state \in {"created", "running", "exited"}
             /\ \A r \in Proved : Listed(n, r) \subseteq Gone
             /\ StopOutcome(n, routes, Noted, Tried, Gone, Proved)
<1>1. PICK Noted \in SUBSET S : \E Tried \in SUBSET Noted :
        \E Gone \in SUBSET UNION {Listed(n, r) : r \in Tried} :
        \E Proved \in SUBSET ProvedGone(n, Tried, Gone) :
          StopOutcome(n, routes, Noted, Tried, Gone, Proved)
  BY DEF StopElastic
<1>2. PICK Tried \in SUBSET Noted :
        \E Gone \in SUBSET UNION {Listed(n, r) : r \in Tried} :
        \E Proved \in SUBSET ProvedGone(n, Tried, Gone) :
          StopOutcome(n, routes, Noted, Tried, Gone, Proved)
  BY <1>1
<1>3. PICK Gone \in SUBSET UNION {Listed(n, r) : r \in Tried} :
        \E Proved \in SUBSET ProvedGone(n, Tried, Gone) :
          StopOutcome(n, routes, Noted, Tried, Gone, Proved)
  BY <1>2
<1>4. PICK Proved \in SUBSET ProvedGone(n, Tried, Gone) :
        StopOutcome(n, routes, Noted, Tried, Gone, Proved)
  BY <1>3
<1>5. /\ Gone \in SUBSET Containers
      /\ \A k \in Gone : cont[k].state \in {"created", "running", "exited"}
  BY DEF Listed
<1>6. Proved \subseteq Tried /\ \A r \in Proved : Listed(n, r) \subseteq Gone
  BY DEF ProvedGone
<1>7. Noted \in SUBSET S /\ Tried \in SUBSET S /\ Proved \in SUBSET S
  BY <1>6
<1> QED
  BY <1>4, <1>5, <1>6, <1>7

\* stopElastic keeps the types of the worker's state and of the containers.
LEMMA StopElasticTypes ==
    ASSUME TypeInv, NEW n \in Nodes, NEW S \in SUBSET Slots, NEW routes \in SUBSET Containers,
           StopElastic(n, S, routes)
    PROVE  /\ journal' \in [Nodes -> [Slots -> Journals]]
           /\ guard' \in [Nodes -> [Slots -> Tokens]]
           /\ routed' \in [Nodes -> SUBSET Containers]
           /\ cont' \in [Containers -> ContainerRecords]
<1>1. PICK Noted \in SUBSET S, Tried \in SUBSET S, Gone \in SUBSET Containers,
           Proved \in SUBSET S :
        StopOutcome(n, routes, Noted, Tried, Gone, Proved)
  BY StopParts
<1>2. \A r \in Slots : /\ journal[n][r] \in Journals
                       /\ binding[r].request \in Requests \cup {NoRequest}
  BY DEF TypeInv, TypeOK
<1>3. \A r \in Slots : \A s \in {"stopped", "stopping"} :
        Journaled(journal[n][r], s, binding[r].request) \in Journals
  BY <1>2, JournalForms DEF JournalStates
<1>4. journal' \in [Nodes -> [Slots -> Journals]]
  <2>1. [r \in Slots |->
           IF r \in Proved THEN Journaled(journal[n][r], "stopped", binding[r].request)
           ELSE IF r \in Noted THEN Journaled(journal[n][r], "stopping", binding[r].request)
           ELSE journal[n][r]] \in [Slots -> Journals]
    BY <1>2, <1>3
  <2> QED
    BY <1>1, <2>1 DEF StopOutcome, TypeInv, TypeOK
<1>5. guard' \in [Nodes -> [Slots -> Tokens]]
  BY <1>1 DEF StopOutcome, TypeInv, TypeOK, Tokens
<1>6. routed' \in [Nodes -> SUBSET Containers]
  BY <1>1 DEF StopOutcome, RoutesLeft, TypeInv, TypeOK
<1>7. cont' \in [Containers -> ContainerRecords]
  <2>1. \A k \in Containers : Removed(k) \in ContainerRecords /\ cont[k] \in ContainerRecords
    BY ContForms, Zenon DEF TypeInv, TypeOK, Removed
  <2> QED
    BY <1>1, <2>1 DEF StopOutcome
<1> QED
  BY <1>4, <1>5, <1>6, <1>7

\* The stop handler, fencing, routes and restarts.
LEMMA MachineTypes ==
    ASSUME TypeInv,
           \/ \E c \in Calls : StopRuns(c)
           \/ \E n \in Nodes : Machine(n)
    PROVE  TypeInv'
<1> USE DEF workerVars, storeVars, leaseVars
<1>1. ASSUME NEW c \in Calls, StopRuns(c) PROVE TypeInv'
  <2> DEFINE n == call[c].node
             r == call[c].slot
  <2>1. call[c].job # "none"
    BY <1>1, Zenon DEF StopRuns, Admitted
  <2>2. n \in Nodes /\ r \in Slots /\ call[c].at # "idle" /\ routed[n] \subseteq Containers
    BY <2>1, CallFields, JobFields, Zenon
  <2>3. \E S \in SUBSET Slots : StopElastic(n, S, routed[n])
    BY <1>1, <2>2, Zenon DEF StopRuns
  <2>4. /\ journal' \in [Nodes -> [Slots -> Journals]]
        /\ guard' \in [Nodes -> [Slots -> Tokens]]
        /\ routed' \in [Nodes -> SUBSET Containers]
        /\ cont' \in [Containers -> ContainerRecords]
    BY <2>2, <2>3, StopElasticTypes, Zenon
  <2>5. call' \in [Calls -> CallRecords] /\ CallsBound'
    BY <1>1, <2>2, AnswerTypes, Zenon DEF StopRuns, Tokens
  <2> QED
    BY <1>1, <2>4, <2>5, ZenonT(30) DEF StopRuns, TypeInv, TypeOK
<1>2. ASSUME NEW n \in Nodes, Fence(n) PROVE TypeInv'
  <2>1. \E S \in SUBSET Slots : StopElastic(n, S, {})
    BY <1>2 DEF Fence, Unfinished
  <2>2. /\ journal' \in [Nodes -> [Slots -> Journals]]
        /\ guard' \in [Nodes -> [Slots -> Tokens]]
        /\ routed' \in [Nodes -> SUBSET Containers]
        /\ cont' \in [Containers -> ContainerRecords]
    BY <2>1, StopElasticTypes
  <2>3. fenced' \in [Nodes -> BOOLEAN]
    BY <1>2 DEF Fence, TypeInv, TypeOK
  <2> QED
    BY <1>2, <2>2, <2>3 DEF Fence, TypeInv, TypeOK, CallsBound
<1>3. ASSUME NEW n \in Nodes, NEW k \in Containers, RouteWithdrawn(n, k) PROVE TypeInv'
  <2>1. routed' \in [Nodes -> SUBSET Containers]
    BY <1>3 DEF RouteWithdrawn, TypeInv, TypeOK
  <2> QED
    BY <1>3, <2>1 DEF RouteWithdrawn, TypeInv, TypeOK, CallsBound
<1>4. ASSUME NEW n \in Nodes, NEW loses \in BOOLEAN, WorkerRestarts(n, loses) PROVE TypeInv'
  <2>1. NoCall \in CallRecords /\ NoCall.at = "idle"
    BY LeaseAssumption DEF NoCall, CallRecords, Tokens
  <2>2. call' \in [Calls -> CallRecords] /\ CallsBound'
    BY <1>4, <2>1 DEF WorkerRestarts, TypeInv, TypeOK, CallsBound
  <2>3. journal' \in [Nodes -> [Slots -> Journals]]
    <3>1. NoJournal \in Journals
      BY DEF NoJournal, Journals, Tokens
    <3> QED
      BY <1>4, <3>1 DEF WorkerRestarts, TypeInv, TypeOK
  <2>4. guard' \in [Nodes -> [Slots -> Tokens]] /\ routed' \in [Nodes -> SUBSET Containers]
    BY <1>4 DEF WorkerRestarts, TypeInv, TypeOK, Tokens
  <2>5. fenced' \in [Nodes -> BOOLEAN] /\ lost' \in [Nodes -> BOOLEAN]
    BY <1>4 DEF WorkerRestarts, TypeInv, TypeOK
  <2> QED
    BY <1>4, <2>2, <2>3, <2>4, <2>5 DEF WorkerRestarts, TypeInv, TypeOK
<1> QED
  BY <1>1, <1>2, <1>3, <1>4 DEF Machine

\* Every step keeps the types.
LEMMA StepTypes ==
    ASSUME TypeInv, GuardInHand, [Next]_vars
    PROVE  TypeInv'
<1>1. CASE Next
  <2>1. ASSUME NEW c \in Calls, Handles(c) PROVE TypeInv'
    BY <2>1, HandlerTypes, MachineTypes DEF Handles
  <2> QED
    BY <1>1, <2>1, StoreTypes, CoordinatorTypes, MachineTypes, DaemonTypes DEF Next
<1>2. CASE UNCHANGED vars
  BY <1>2 DEF vars, leaseVars, storeVars, workerVars, TypeInv, TypeOK, CallsBound
<1> QED
  BY <1>1, <1>2

----------------------------------------------------------------------------
(* The inductive invariant of StoppedIsGone.                                 *)

\* A container is for a reservation, on the machine that is bound to it.
ContsBound ==
    \A k \in Containers :
        /\ cont[k].state = "unused" => cont[k] = NoCont
        /\ cont[k].state # "unused" =>
             /\ cont[k].slot \in Slots /\ cont[k].node \in Nodes
             /\ binding[cont[k].slot].node = cont[k].node

\* The daemon is asked to start what it has created.
StartsCreated ==
    \A k \in Containers : cont[k].startAsked => cont[k].state = "created"

\* k is a container of r on n.
For(k, n, r) ==
    /\ k \in Containers
    /\ cont[k].state # "unused" /\ cont[k].slot = r /\ cont[k].node = n

\* A handler that prepares a launch has recorded its token.
PreparesItsOwn(c) ==
    LET k == journal[call[c].node][call[c].slot].token IN
    /\ call[c].job \in {"recorded", "creating"} => For(k, call[c].node, call[c].slot)
    /\ call[c].job = "recorded" => cont[k].state = "token"

Preparing == \A c \in Calls : PreparesItsOwn(c)

\* A guard holds back a container of its reservation.
GuardsHeld ==
    \A n \in Nodes, r \in Slots : guard[n][r] # 0 => For(guard[n][r], n, r)

\* A stop that the worker has confirmed is of a reservation that is quiet.
ConfirmsProved ==
    \A c \in Calls :
        call[c].at = "confirm" =>
            /\ row[call[c].slot].state \in {"stopping", "stopped"}
            /\ Quiet(call[c].slot)

\* So is a reservation whose machine has its tombstone.
Tombstones ==
    \A n \in Nodes, r \in Slots :
        journal[n][r].state = "stopped" /\ binding[r].node = n => Quiet(r)

StopInv ==
    /\ TypeInv /\ OneHandler /\ GuardInHand
    /\ ContsBound /\ StartsCreated /\ Preparing /\ GuardsHeld
    /\ ConfirmsProved /\ Tombstones /\ StoppedIsGone

\* A step that is taken for the call c leaves the others alone.
Others(c) == \A d \in Calls \ {c} : call'[d] = call[d]

\* What an answer, and a handler that goes on, leave of the call.
LEMMA AnswerEffect ==
    ASSUME TypeInv, NEW c \in Calls, NEW at, NEW k, Answer(c, at, k)
    PROVE  /\ Others(c)
           /\ at = "error" => call'[c] = NoCall
           /\ at # "error" => /\ call'[c].job = "none" /\ call'[c].at = at
                              /\ call'[c].node = call[c].node /\ call'[c].slot = call[c].slot
<1>1. call[c] \in CallRecords /\ call \in [Calls -> CallRecords]
  BY DEF TypeInv, TypeOK
<1> QED
  BY <1>1 DEF Answer, Others, CallRecords

LEMMA JobEffect ==
    ASSUME TypeInv, NEW c \in Calls, NEW b, call' = [call EXCEPT ![c].job = b]
    PROVE  /\ Others(c)
           /\ call'[c].job = b /\ call'[c].at = call[c].at
           /\ call'[c].node = call[c].node /\ call'[c].slot = call[c].slot
<1>1. call[c] \in CallRecords /\ call \in [Calls -> CallRecords]
  BY DEF TypeInv, TypeOK
<1> QED
  BY <1>1 DEF Others, CallRecords

LEMMA NoCallFields == NoCall.job = "none" /\ NoCall.at = "idle"
BY DEF NoCall

\* A step for c that ends its handler's work, or leaves it idle.
LEMMA HandlerRests ==
    ASSUME TypeInv, OneHandler, GuardInHand, NEW c \in Calls, Others(c),
           call'[c].job \in {"none", "sent"}, guard' = guard
    PROVE  OneHandler' /\ GuardInHand'
BY DEF OneHandler, GuardInHand, Others, Working

\* A handler that is admitted finds no other at work.
LEMMA HandlerEnters ==
    ASSUME TypeInv, OneHandler, GuardInHand, NEW c \in Calls, Others(c),
           ~Busy(call[c].node), call'[c].node = call[c].node, call'[c].slot = call[c].slot,
           call'[c].job = "starting" => guard[call[c].node][call[c].slot] # 0,
           guard' = guard
    PROVE  OneHandler' /\ GuardInHand'
BY DEF OneHandler, GuardInHand, Others, Working, Busy

\* A handler that ends its work has changed a guard of its own machine.
LEMMA HandlerLeaves ==
    ASSUME TypeInv, OneHandler, GuardInHand, NEW c \in Calls, Others(c), Working(c),
           call'[c].job = "none", NEW k,
           guard' = [guard EXCEPT ![call[c].node][call[c].slot] = k]
    PROVE  OneHandler' /\ GuardInHand'
<1>1. OneHandler'
  BY DEF OneHandler, Others, Working
<1>2. \A d \in Calls : call'[d].job = "starting" => d # c /\ call[d].node # call[c].node
  BY DEF OneHandler, Others, Working
<1>3. \A d \in Calls : call[d].node # call[c].node => guard'[call[d].node] = guard[call[d].node]
  BY DEF TypeInv, TypeOK
<1>4. GuardInHand'
  BY <1>2, <1>3 DEF GuardInHand, Others
<1> QED
  BY <1>1, <1>4

\* What the coordinator's steps leave of the calls and of the workers.
LEMMA CoordinatorFrame ==
    ASSUME TypeInv, NEW c \in Calls, Coordinates(c)
    PROVE  /\ UNCHANGED <<journal, guard, cont>>
           /\ Others(c)
           /\ \/ call' = call
              \/ call'[c].job \in {"none", "sent"} /\ call'[c].at # "confirm"
<1> USE DEF workerVars
<1>0. call \in [Calls -> CallRecords] /\ call[c] \in CallRecords
  BY DEF TypeInv, TypeOK
<1>1. ASSUME NEW i \in Instances, NEW r \in Slots, NEW n \in Nodes, NEW q \in Requests,
             Launch(c, i, r, n, q) \/ Stop(c, i, r, n, q)
      PROVE  /\ UNCHANGED <<journal, guard, cont>>
             /\ \/ call' = call
                \/ \E p : p.job = "sent" /\ p.at # "confirm" /\ call' = [call EXCEPT ![c] = p]
  BY <1>1 DEF Launch, Stop
<1>2. UNCHANGED <<journal, guard, cont>>
  BY <1>1 DEF Coordinates, LaunchAcks, LaunchAdvances, StopConfirms, CallerGivesUp
<1>3. \/ call' = call
      \/ \E p : p.job = "sent" /\ p.at # "confirm" /\ call' = [call EXCEPT ![c] = p]
      \/ call' = [call EXCEPT ![c] = NoCall]
      \/ LaunchAcks(c)
  BY <1>1 DEF Coordinates, LaunchAdvances, StopConfirms, CallerGivesUp
<1>4. Others(c)
  BY <1>0, <1>3 DEF LaunchAcks, Others
<1>5. CASE LaunchAcks(c)
  BY <1>0, <1>2, <1>4, <1>5 DEF LaunchAcks, CallRecords
<1> QED
  BY <1>0, <1>2, <1>3, <1>4, <1>5, NoCallFields

\* elasticMu and the guard in a handler's hand.
LEMMA HandlersStep ==
    ASSUME TypeInv, OneHandler, GuardInHand, NEW c \in Calls, Coordinates(c) \/ Handles(c)
    PROVE  OneHandler' /\ GuardInHand'
<1> USE NoCallFields DEF workerVars
<1>0. call \in [Calls -> CallRecords] /\ call[c] \in CallRecords
  BY DEF TypeInv, TypeOK
<1>1. ASSUME Coordinates(c) PROVE OneHandler' /\ GuardInHand'
  <2>1. CASE call' = call
    BY <1>1, <2>1, CoordinatorFrame DEF OneHandler, GuardInHand, Working
  <2> QED
    BY <1>1, <2>1, CoordinatorFrame, HandlerRests
<1>2. ASSUME HandlerRefuses(c) \/ PrepareReplays(c) \/ PrepareFails(c) \/ AckReplays(c)
             \/ AckFails(c)
      PROVE  OneHandler' /\ GuardInHand'
  <2>1. guard' = guard /\ \E at, k : Answer(c, at, k)
    BY <1>2 DEF HandlerRefuses, PrepareReplays, PrepareFails, AckReplays, AckFails
  <2> QED
    BY <2>1, AnswerEffect, HandlerRests
<1>3. ASSUME NEW k \in Containers, PrepareRecords(c, k) PROVE OneHandler' /\ GuardInHand'
  <2>1. Others(c) /\ call'[c].job = "recorded" /\ call'[c].node = call[c].node
        /\ call'[c].slot = call[c].slot
    BY <1>3, JobEffect, ZenonT(30) DEF PrepareRecords
  <2>2. guard' = guard /\ ~Busy(call[c].node)
    BY <1>3 DEF PrepareRecords, Admitted
  <2> QED
    BY <2>1, <2>2, HandlerEnters
<1>4. ASSUME PrepareCreates(c) PROVE OneHandler' /\ GuardInHand'
  <2>1. Others(c) /\ call'[c].job = "creating" /\ call'[c].node = call[c].node
    BY <1>4, JobEffect, Zenon DEF PrepareCreates
  <2>2. guard' = guard /\ Working(c)
    BY <1>4, Zenon DEF PrepareCreates, Working
  <2> QED
    BY <2>1, <2>2 DEF OneHandler, GuardInHand, Others, Working
<1>5. ASSUME PrepareCreated(c) PROVE OneHandler' /\ GuardInHand'
  <2>1. Others(c) /\ call'[c].job = "none"
    BY <1>5, AnswerEffect DEF PrepareCreated
  <2>2. /\ Working(c)
        /\ \E k : guard' = [guard EXCEPT ![call[c].node][call[c].slot] = k]
    BY <1>5, ZenonT(30) DEF PrepareCreated, Working
  <2> QED
    BY <2>1, <2>2, HandlerLeaves
<1>6. ASSUME AckStarts(c) PROVE OneHandler' /\ GuardInHand'
  <2>1. /\ guard' = guard /\ ~Busy(call[c].node)
        /\ guard[call[c].node][call[c].slot] # 0
    BY <1>6, Zenon DEF AckStarts, Admitted
  <2>2. CASE call' = [call EXCEPT ![c].job = "starting"]
    BY <2>1, <2>2, JobEffect, HandlerEnters
  <2>3. CASE Answer(c, "error", 0)
    BY <2>1, <2>3, AnswerEffect, HandlerRests
  <2> QED
    BY <1>6, <2>2, <2>3, ZenonT(30) DEF AckStarts
<1>7. ASSUME AckStarted(c) PROVE OneHandler' /\ GuardInHand'
  <2>1. Others(c) /\ call'[c].job = "none"
    BY <1>7, AnswerEffect DEF AckStarted
  <2>2. /\ Working(c)
        /\ guard' = [guard EXCEPT ![call[c].node][call[c].slot] = 0]
    BY <1>7 DEF AckStarted, Working
  <2> QED
    BY <2>1, <2>2, HandlerLeaves
<1>8. ASSUME StopRuns(c) PROVE OneHandler' /\ GuardInHand'
  <2> DEFINE n == call[c].node
  <2>1. Others(c) /\ call'[c].job = "none"
    BY <1>8, AnswerEffect DEF StopRuns
  <2>2. ~Busy(n)
    BY <1>8, SMTT(30) DEF StopRuns, Admitted
  <2>3. \A m \in Nodes : m # n => guard'[m] = guard[m]
    BY <1>8, Zenon DEF StopRuns, StopElastic, StopOutcome, TypeInv, TypeOK
  <2>4. \A d \in Calls : call[d].job = "starting" => call[d].node \in Nodes /\ call[d].node # n
    BY <2>2, CallFields DEF Busy
  <2> QED
    BY <2>1, <2>3, <2>4 DEF OneHandler, GuardInHand, Others, Working
<1> QED
  BY <1>1, <1>2, <1>3, <1>4, <1>5, <1>6, <1>7, <1>8 DEF Handles

LEMMA HandlersKept ==
    ASSUME TypeInv, OneHandler, GuardInHand, [Next]_vars
    PROVE  OneHandler' /\ GuardInHand'
<1> USE DEF workerVars, storeVars
<1>1. ASSUME UNCHANGED <<call, guard>> PROVE OneHandler' /\ GuardInHand'
  BY <1>1 DEF OneHandler, GuardInHand, Working
<1>2. ASSUME NEW n \in Nodes, Machine(n) PROVE OneHandler' /\ GuardInHand'
  <2>1. CASE Fence(n)
    <3>1. \A m \in Nodes : m # n => guard'[m] = guard[m]
      BY <2>1 DEF Fence, StopElastic, StopOutcome, TypeInv, TypeOK
    <3>2. \A d \in Calls : call[d].job = "starting" => call[d].node \in Nodes /\ call[d].node # n
      BY <2>1, CallFields DEF Fence, Busy
    <3>3. call' = call
      BY <2>1 DEF Fence
    <3> QED
      BY <3>1, <3>2, <3>3 DEF OneHandler, GuardInHand, Working
  <2>2. ASSUME NEW k \in Containers, RouteWithdrawn(n, k) PROVE OneHandler' /\ GuardInHand'
    BY <1>1, <2>2 DEF RouteWithdrawn
  <2>3. ASSUME NEW loses \in BOOLEAN, WorkerRestarts(n, loses)
        PROVE  OneHandler' /\ GuardInHand'
    <3>1. \A m \in Nodes : m # n => guard'[m] = guard[m]
      BY <2>3 DEF WorkerRestarts, TypeInv, TypeOK
    <3>2. \A d \in Calls : /\ call'[d].job # "none" => call'[d] = call[d]
                           /\ call[d].node = n => call'[d].job = "none"
      BY <2>3, NoCallFields DEF WorkerRestarts
    <3>3. \A d \in Calls : call[d].job = "starting" => call[d].node \in Nodes
      BY CallFields
    <3> QED
      BY <3>1, <3>2, <3>3 DEF OneHandler, GuardInHand, Working
  <2> QED
    BY <1>2, <2>1, <2>2, <2>3 DEF Machine
<1>3. ASSUME NEW k \in Containers, Daemon(k) PROVE UNCHANGED <<call, guard>>
  BY <1>3 DEF Daemon, DaemonCreates, DaemonStarts, ContainerExits, ContainerRemoved
<1>4. ASSUME \/ LeaseMoves
             \/ \E d \in 0 .. MaxDeploy : AppChanges(d)
             \/ \E i \in Instances, r \in Slots :
                  \/ \E client \in Clients : ReserveElasticSession(i, client, r)
                  \/ AdvanceLaunching(i, r)
             \/ UNCHANGED vars
      PROVE  UNCHANGED <<call, guard>>
  BY <1>4 DEF LeaseMoves, AppChanges, ReserveElasticSession, AdvanceLaunching, vars
<1> QED
  BY <1>1, <1>2, <1>3, <1>4, HandlersStep DEF Next

\* An acknowledgement lets the daemon start k.
Acknowledged(k) ==
    \E c \in Calls :
        /\ AckStarts(c) /\ k = guard[call[c].node][call[c].slot]
        /\ cont'[k] = [cont[k] EXCEPT !.closed = TRUE,
                                      !.startAsked = (cont[k].state = "created")]

\* What a step may do to a container.
ContMove(k) ==
    \/ cont'[k] = cont[k]
    \/ /\ cont[k].state = "unused"
       /\ \E n \in Nodes, r \in Slots :
            /\ binding[r].node = n /\ journal'[n][r].token = k
            /\ cont'[k] = [NoCont EXCEPT !.state = "token", !.slot = r, !.node = n]
    \/ cont[k].state = "token" /\ cont'[k] = [cont[k] EXCEPT !.state = "requested"]
    \/ cont[k].state = "requested" /\ cont'[k] = [cont[k] EXCEPT !.state = "created"]
    \/ /\ cont[k].startAsked /\ cont[k].state = "created"
       /\ cont'[k] = [cont[k] EXCEPT !.state = "running", !.startAsked = FALSE, !.ran = TRUE]
    \/ cont[k].state = "running" /\ cont'[k] = [cont[k] EXCEPT !.state = "exited"]
    \/ cont[k].state # "unused" /\ cont'[k] = Removed(k)
    \/ cont[k].state # "unused" /\ Acknowledged(k)

\* Writing one container moves no other.
LEMMA OneMoves ==
    ASSUME TypeInv, NEW k \in Containers, NEW p, cont' = [cont EXCEPT ![k] = p], ContMove(k)
    PROVE  \A h \in Containers : ContMove(h)
<1>1. \A h \in Containers : h # k => cont'[h] = cont[h]
  BY DEF TypeInv, TypeOK
<1>2. \A h \in Containers : h # k => ContMove(h)
  BY <1>1, Zenon DEF ContMove
<1> QED
  BY <1>2

\* A launch's handler moves the containers as ContMove allows.
LEMMA HandlerMoves ==
    ASSUME StopInv, NEW c \in Calls, Handles(c), ~StopRuns(c)
    PROVE  \A k \in Containers : ContMove(k)
<1> DEFINE n == call[c].node
           r == call[c].slot
<1> USE DEF StopInv
<1>0. cont \in [Containers -> ContainerRecords]
  BY DEF TypeInv, TypeOK
<1>1. ASSUME NEW k \in Containers, PrepareRecords(c, k) PROVE \A h \in Containers : ContMove(h)
  <2>1. cont' = [cont EXCEPT ![k] = [cont[k] EXCEPT !.state = "token", !.slot = r, !.node = n]]
    BY <1>1 DEF PrepareRecords
  <2>2. cont[k] = NoCont /\ cont[k].state = "unused"
    BY <1>1 DEF PrepareRecords, ContsBound
  <2>3. n \in Nodes /\ r \in Slots /\ binding[r].node = n
    <3>1. call[c].job = "sent"
      BY <1>1 DEF PrepareRecords, Admitted
    <3>2. n \in Nodes /\ r \in Slots
          /\ binding[r] = [node |-> n, request |-> call[c].request]
      BY <3>1, CallFields
    <3> QED
      BY <3>2
  <2>4. cont'[k] = [NoCont EXCEPT !.state = "token", !.slot = r, !.node = n]
    BY <1>0, <2>1, <2>2
  <2>5. journal'[n][r].token = k
    BY <1>1, <2>3 DEF PrepareRecords, TypeInv, TypeOK
  <2>6. ContMove(k)
    BY <2>2, <2>3, <2>4, <2>5, ZenonT(30) DEF ContMove
  <2> QED
    BY <2>1, <2>6, OneMoves
<1>2. ASSUME PrepareCreates(c) PROVE \A h \in Containers : ContMove(h)
  <2> DEFINE k == journal[n][r].token
  <2>1. k \in Containers /\ cont[k].state = "token"
    BY <1>2, ZenonT(30) DEF PrepareCreates, Preparing, PreparesItsOwn, For
  <2>2. cont' = [cont EXCEPT ![k] = [cont[k] EXCEPT !.state = "requested"]]
    BY <1>2, ZenonT(30) DEF PrepareCreates
  <2>3. ContMove(k)
    BY <1>0, <2>1, <2>2, ZenonT(30) DEF ContMove
  <2> QED
    BY <2>1, <2>2, <2>3, OneMoves, ZenonT(30)
<1>3. ASSUME AckStarts(c) PROVE \A h \in Containers : ContMove(h)
  <2> DEFINE k == guard[n][r]
             p == [cont[k] EXCEPT !.closed = TRUE, !.startAsked = (cont[k].state = "created")]
  <2>1. n \in Nodes /\ r \in Slots
    BY <1>3, CallFields, ZenonT(30) DEF AckStarts, Admitted
  <2>2. k \in Containers /\ cont[k].state # "unused"
    BY <1>3, <2>1, ZenonT(30) DEF AckStarts, GuardsHeld, For
  <2>3. cont' = cont \/ cont' = [cont EXCEPT ![k] = p]
    BY <1>3, ZenonT(30) DEF AckStarts
  <2>4. CASE cont' = cont
    BY <2>4 DEF ContMove
  <2>5. CASE cont' = [cont EXCEPT ![k] = p]
    <3>1. cont'[k] = p
      BY <1>0, <2>2, <2>5
    <3>2. ContMove(k)
      BY <1>3, <2>2, <3>1, Zenon DEF ContMove, Acknowledged
    <3> QED
      BY <2>2, <2>5, <3>2, OneMoves, ZenonT(30)
  <2> QED
    BY <2>3, <2>4, <2>5
<1>4. ASSUME AckFails(c) PROVE \A h \in Containers : ContMove(h)
  <2> DEFINE k == guard[n][r]
  <2>1. n \in Nodes /\ r \in Slots
    BY <1>4, CallFields DEF AckFails
  <2>2. k \in Containers /\ cont[k].state # "unused"
    BY <1>4, <2>1 DEF AckFails, GuardInHand, GuardsHeld, For
  <2>3. CASE cont' = cont
    BY <2>3 DEF ContMove
  <2>4. CASE cont' = [cont EXCEPT ![k] = Removed(k)]
    <3>1. ContMove(k)
      BY <1>0, <2>2, <2>4, Zenon DEF ContMove
    <3> QED
      BY <2>2, <2>4, <3>1, OneMoves, Zenon
  <2> QED
    BY <1>4, <2>3, <2>4 DEF AckFails
<1>5. ASSUME \/ HandlerRefuses(c) \/ PrepareReplays(c) \/ PrepareCreated(c) \/ PrepareFails(c)
             \/ AckReplays(c) \/ AckStarted(c)
      PROVE  cont' = cont
  BY <1>5, Zenon DEF HandlerRefuses, PrepareReplays, PrepareCreated, PrepareFails, AckReplays, AckStarted
<1>6. ASSUME cont' = cont PROVE \A h \in Containers : ContMove(h)
  BY <1>6 DEF ContMove
<1> QED
  BY <1>1, <1>2, <1>3, <1>4, <1>5, <1>6 DEF Handles

\* So does every step.
LEMMA StepMoves ==
    ASSUME StopInv, [Next]_vars
    PROVE  \A k \in Containers : ContMove(k)
<1> USE DEF StopInv, workerVars, storeVars
<1>0. cont \in [Containers -> ContainerRecords]
  BY DEF TypeInv, TypeOK
<1>1. ASSUME cont' = cont PROVE \A h \in Containers : ContMove(h)
  BY <1>1 DEF ContMove
<1>2. ASSUME NEW n, NEW S, NEW routes, StopElastic(n, S, routes)
      PROVE  \A h \in Containers : ContMove(h)
  <2>1. PICK Noted \in SUBSET S, Tried \in SUBSET S, Gone \in SUBSET Containers,
             Proved \in SUBSET S :
          /\ \A k \in Gone : cont[k].state \in {"created", "running", "exited"}
          /\ StopOutcome(n, routes, Noted, Tried, Gone, Proved)
    BY <1>2, StopParts
  <2> QED
    BY <2>1, Zenon DEF StopOutcome, ContMove
<1>3. ASSUME NEW c \in Calls, StopRuns(c) PROVE \A h \in Containers : ContMove(h)
  BY <1>2, <1>3 DEF StopRuns
<1>4. ASSUME NEW n \in Nodes, Machine(n) PROVE \A h \in Containers : ContMove(h)
  <2>1. CASE Fence(n)
    BY <1>2, <2>1 DEF Fence
  <2>2. CASE \/ \E k \in Containers : RouteWithdrawn(n, k)
             \/ \E loses \in BOOLEAN : WorkerRestarts(n, loses)
    BY <1>1, <2>2 DEF RouteWithdrawn, WorkerRestarts
  <2> QED
    BY <1>4, <2>1, <2>2 DEF Machine
<1>5. ASSUME NEW k \in Containers, Daemon(k) PROVE \A h \in Containers : ContMove(h)
  <2>1. ContMove(k)
    BY <1>0, <1>5, Zenon DEF Daemon, DaemonCreates, DaemonStarts, ContainerExits, ContainerRemoved, ContMove
  <2>2. \E p : cont' = [cont EXCEPT ![k] = p]
    BY <1>5 DEF Daemon, DaemonCreates, DaemonStarts, ContainerExits, ContainerRemoved
  <2> QED
    BY <2>1, <2>2, OneMoves
<1>6. ASSUME NEW c \in Calls, Coordinates(c) PROVE cont' = cont
  <2>1. ASSUME NEW i \in Instances, NEW r \in Slots, NEW n \in Nodes, NEW q \in Requests,
               Launch(c, i, r, n, q) \/ Stop(c, i, r, n, q)
        PROVE  cont' = cont
    BY <2>1 DEF Launch, Stop
  <2> QED
    BY <1>6, <2>1 DEF Coordinates, LaunchAcks, LaunchAdvances, StopConfirms, CallerGivesUp
<1>7. ASSUME \/ LeaseMoves
             \/ \E d \in 0 .. MaxDeploy : AppChanges(d)
             \/ \E i \in Instances, r \in Slots :
                  \/ \E client \in Clients : ReserveElasticSession(i, client, r)
                  \/ AdvanceLaunching(i, r)
             \/ UNCHANGED vars
      PROVE  cont' = cont
  BY <1>7 DEF LeaseMoves, AppChanges, ReserveElasticSession, AdvanceLaunching, vars
<1> QED
  BY <1>1, <1>3, <1>4, <1>5, <1>6, <1>7, HandlerMoves DEF Next

\* A binding is made once.
LEMMA BindingStays ==
    ASSUME StopInv, [Next]_vars, NEW r \in Slots
    PROVE  /\ binding[r] # NoBinding => binding'[r] = binding[r]
           /\ binding'[r] # binding[r] => row[r].state = "reserved"
<1> USE DEF StopInv, workerVars, storeVars
<1>0. binding \in [Slots -> [node : Nodes \cup {NoNode}, request : Requests \cup {NoRequest}]]
  BY DEF TypeInv, TypeOK
<1>1. ASSUME NEW c \in Calls, Coordinates(c), binding' # binding
      PROVE  \E i \in Instances, s \in Slots, n \in Nodes, q \in Requests : Launch(c, i, s, n, q)
  <2>1. ASSUME NEW i \in Instances, NEW s \in Slots, NEW n \in Nodes, NEW q \in Requests,
               Stop(c, i, s, n, q)
        PROVE  FALSE
    BY <1>1, <2>1 DEF Stop
  <2> QED
    BY <1>1, <2>1 DEF Coordinates, LaunchAcks, LaunchAdvances, StopConfirms, CallerGivesUp
<1>2. ASSUME NEW c \in Calls, NEW i \in Instances, NEW s \in Slots, NEW n \in Nodes,
             NEW q \in Requests, Launch(c, i, s, n, q)
      PROVE  /\ binding[r] # NoBinding => binding'[r] = binding[r]
             /\ binding'[r] # binding[r] => row[r].state = "reserved"
  BY <1>0, <1>2 DEF Launch, Bindable
<1>3. ASSUME NEW c \in Calls, Handles(c) PROVE binding' = binding
  BY <1>3, Zenon DEF Handles, HandlerRefuses, PrepareReplays, PrepareCreates, PrepareCreated, PrepareFails,
              PrepareRecords, AckReplays, AckStarts, AckStarted, AckFails, StopRuns
<1>4. ASSUME NEW n \in Nodes, Machine(n) PROVE binding' = binding
  BY <1>4 DEF Machine, Fence, RouteWithdrawn, WorkerRestarts
<1>5. ASSUME NEW k \in Containers, Daemon(k) PROVE binding' = binding
  BY <1>5 DEF Daemon, DaemonCreates, DaemonStarts, ContainerExits, ContainerRemoved
<1>6. ASSUME \/ LeaseMoves
             \/ \E d \in 0 .. MaxDeploy : AppChanges(d)
             \/ \E i \in Instances, s \in Slots :
                  \/ \E client \in Clients : ReserveElasticSession(i, client, s)
                  \/ AdvanceLaunching(i, s)
             \/ UNCHANGED vars
      PROVE  binding' = binding
  BY <1>6 DEF LeaseMoves, AppChanges, ReserveElasticSession, AdvanceLaunching, vars
<1> QED
  BY <1>1, <1>2, <1>3, <1>4, <1>5, <1>6 DEF Next

\* The containers stay where they are bound.
LEMMA ContsKept ==
    ASSUME StopInv, [Next]_vars
    PROVE  /\ ContsBound' /\ StartsCreated'
           /\ \A k, n, r : For(k, n, r) => For(k, n, r)'
<1> USE DEF StopInv
<1>1. TypeInv'
  BY StepTypes
<1>2. ASSUME NEW k \in Containers
      PROVE  /\ cont'[k].state = "unused" => cont'[k] = NoCont
             /\ cont[k].state # "unused" => /\ cont'[k].state # "unused"
                                            /\ cont'[k].slot = cont[k].slot
                                            /\ cont'[k].node = cont[k].node
             /\ cont[k].state = "unused" /\ cont'[k].state # "unused" =>
                  /\ cont'[k].slot \in Slots /\ cont'[k].node \in Nodes
                  /\ binding[cont'[k].slot].node = cont'[k].node
             /\ cont'[k].startAsked => cont'[k].state = "created"
  <2>1. ContMove(k)
    BY StepMoves
  <2>2. /\ cont[k] \in ContainerRecords
        /\ cont[k].state = "unused" => cont[k] = NoCont
        /\ cont[k].startAsked => cont[k].state = "created"
    BY DEF TypeInv, TypeOK, ContsBound, StartsCreated
  <2>3. CASE cont'[k] = cont[k]
    BY <2>2, <2>3
  <2>4. CASE \E n \in Nodes, r \in Slots :
               /\ cont[k].state = "unused"
               /\ binding[r].node = n
               /\ cont'[k] = [NoCont EXCEPT !.state = "token", !.slot = r, !.node = n]
    BY <2>4 DEF NoCont
  <2>5. CASE \/ cont[k].state = "token" /\ cont'[k] = [cont[k] EXCEPT !.state = "requested"]
             \/ cont[k].state = "requested" /\ cont'[k] = [cont[k] EXCEPT !.state = "created"]
             \/ cont[k].state = "running" /\ cont'[k] = [cont[k] EXCEPT !.state = "exited"]
    BY <2>2, <2>5 DEF ContainerRecords
  <2>6. CASE /\ cont[k].startAsked /\ cont[k].state = "created"
             /\ cont'[k] = [cont[k] EXCEPT !.state = "running", !.startAsked = FALSE, !.ran = TRUE]
    BY <2>2, <2>6 DEF ContainerRecords
  <2>7. CASE cont[k].state # "unused" /\ cont'[k] = Removed(k)
    BY <2>2, <2>7 DEF ContainerRecords, Removed
  <2>8. CASE /\ cont[k].state # "unused"
             /\ cont'[k] = [cont[k] EXCEPT !.closed = TRUE,
                                           !.startAsked = (cont[k].state = "created")]
    BY <2>2, <2>8 DEF ContainerRecords
  <2> QED
    BY <2>1, <2>3, <2>4, <2>5, <2>6, <2>7, <2>8, Zenon DEF ContMove, Acknowledged
<1>3. \A r \in Slots, n \in Nodes : binding[r].node = n => binding'[r].node = n
  BY BindingStays, ElasticAssumption DEF NoBinding
<1>4. ContsBound'
  <2> SUFFICES ASSUME NEW k \in Containers
               PROVE  /\ cont'[k].state = "unused" => cont'[k] = NoCont
                      /\ cont'[k].state # "unused" =>
                           /\ cont'[k].slot \in Slots /\ cont'[k].node \in Nodes
                           /\ binding'[cont'[k].slot].node = cont'[k].node
    BY DEF ContsBound
  <2>1. CASE cont[k].state = "unused"
    BY <1>2, <1>3, <2>1
  <2>2. CASE cont[k].state # "unused"
    BY <1>2, <1>3, <2>2 DEF ContsBound
  <2> QED
    BY <2>1, <2>2
<1>5. StartsCreated'
  BY <1>2 DEF StartsCreated
<1>6. \A k, n, r : For(k, n, r) => For(k, n, r)'
  BY <1>2 DEF For
<1> QED
  BY <1>4, <1>5, <1>6

\* A reservation is quiet until a launch of it is acknowledged.
LEMMA QuietStays ==
    ASSUME StopInv, [Next]_vars, NEW r \in Slots, Quiet(r),
           \A c \in Calls : AckStarts(c) => call[c].slot # r
    PROVE  Quiet(r)'
<1> USE DEF StopInv
<1> SUFFICES ASSUME NEW k \in Containers, cont'[k].state # "unused", cont'[k].slot = r
             PROVE  cont'[k].state # "running" /\ ~cont'[k].startAsked
  BY DEF Quiet, Of
<1>1. ContMove(k)
  BY StepMoves
<1>2. cont[k] \in ContainerRecords
  BY DEF TypeInv, TypeOK
<1>3. CASE cont[k].state = "unused"
  <2>1. cont[k] = NoCont
    BY <1>3 DEF ContsBound
  <2> QED
    BY <1>1, <1>3, <2>1, Zenon DEF ContMove, NoCont
<1>4. CASE cont[k].state # "unused"
  <2>1. cont[k].slot = r
    BY <1>4, ContsKept DEF For
  <2>2. cont[k].state # "running" /\ ~cont[k].startAsked
    BY <1>4, <2>1 DEF Quiet, Of
  <2>3. ~Acknowledged(k)
    <3> SUFFICES ASSUME NEW c \in Calls, AckStarts(c), k = guard[call[c].node][call[c].slot]
                 PROVE  FALSE
      BY DEF Acknowledged
    <3>1. call[c].node \in Nodes /\ call[c].slot \in Slots
      <4>1. call[c].job = "sent"
        BY Zenon DEF AckStarts, Admitted
      <4> QED
        BY <4>1, CallFields, ZenonT(30)
    <3>2. cont[k].slot = call[c].slot
      BY <3>1, ZenonT(30) DEF AckStarts, GuardsHeld, For
    <3> QED
      BY <2>1, <3>2
  <2> QED
    BY <1>1, <1>2, <1>4, <2>2, <2>3, Zenon DEF ContMove, ContainerRecords, Removed
<1> QED
  BY <1>3, <1>4

\* What the handler's steps leave of the other machines.
LEMMA HandlerFrame ==
    ASSUME StopInv, NEW c \in Calls, Handles(c)
    PROVE  /\ Others(c)
           /\ call[c].node \in Nodes /\ call[c].slot \in Slots
           /\ \A d \in Calls \ {c} : Working(d) => call[d].node # call[c].node
           /\ \A m \in Nodes : m # call[c].node => journal'[m] = journal[m]
           /\ \A k \in Containers : cont[k].state = "token" /\ cont[k].node # call[c].node =>
                                       cont'[k].state = "token"
<1> DEFINE n == call[c].node
           r == call[c].slot
<1> USE DEF StopInv, workerVars
<1>0. /\ cont \in [Containers -> ContainerRecords]
      /\ journal \in [Nodes -> [Slots -> Journals]]
  BY DEF TypeInv, TypeOK
<1>1. call[c].job # "none"
  BY Zenon DEF Handles, HandlerRefuses, PrepareReplays, PrepareRecords, PrepareCreates, PrepareCreated,
         PrepareFails, AckReplays, AckStarts, AckStarted, AckFails, Admitted, StopRuns
<1>2. n \in Nodes /\ r \in Slots
  BY <1>1, CallFields, Zenon
<1>3. Working(c) \/ ~Busy(n)
  BY Zenon DEF Handles, HandlerRefuses, PrepareReplays, PrepareRecords, PrepareCreates, PrepareCreated,
         PrepareFails, AckReplays, AckStarts, AckStarted, AckFails, Admitted, StopRuns, Working
<1>4. \A d \in Calls \ {c} : Working(d) => call[d].node # n
  BY <1>3 DEF OneHandler, Busy, Working
<1>5. Others(c)
  <2>1. \/ \E at, k : Answer(c, at, k)
        \/ \E b : call' = [call EXCEPT ![c].job = b]
    BY Zenon DEF Handles, HandlerRefuses, PrepareReplays, PrepareRecords, PrepareCreates, PrepareCreated,
           PrepareFails, AckReplays, AckStarts, AckStarted, AckFails, StopRuns
  <2> QED
    BY <2>1, AnswerEffect, JobEffect
<1>6. ASSUME StopRuns(c)
      PROVE  /\ \A m \in Nodes : m # n => journal'[m] = journal[m]
             /\ \A k \in Containers : cont[k].state = "token" => cont'[k].state = "token"
  <2>1. \E S : StopElastic(n, S, routed[n])
    BY <1>6 DEF StopRuns
  <2>2. PICK Noted, Tried, Gone, Proved :
          /\ \A k \in Gone : cont[k].state \in {"created", "running", "exited"}
          /\ StopOutcome(n, routed[n], Noted, Tried, Gone, Proved)
    BY <2>1, StopParts
  <2> QED
    BY <1>0, <2>2 DEF StopOutcome
<1>7. \A m \in Nodes : m # n => journal'[m] = journal[m]
  BY <1>0, <1>6, ZenonT(30) DEF Handles, HandlerRefuses, PrepareReplays, PrepareRecords, PrepareCreates,
         PrepareCreated, PrepareFails, AckReplays, AckStarts, AckStarted, AckFails
<1>8. \A k \in Containers : cont[k].state = "token" /\ cont[k].node # n => cont'[k].state = "token"
  <2>1. ASSUME NEW h \in Containers, PrepareRecords(c, h), NEW k \in Containers,
               cont[k].state = "token"
        PROVE  cont'[k].state = "token"
    BY <1>0, <2>1 DEF PrepareRecords
  <2>2. ASSUME PrepareCreates(c), NEW k \in Containers, cont[k].state = "token", cont[k].node # n
        PROVE  cont'[k].state = "token"
    <3>1. cont[journal[n][r].token].node = n
      BY <2>2, ZenonT(30) DEF PrepareCreates, Preparing, PreparesItsOwn, For
    <3> QED
      BY <1>0, <2>2, <3>1, ZenonT(30) DEF PrepareCreates
  <2>3. ASSUME AckStarts(c), NEW k \in Containers, cont[k].state = "token", cont[k].node # n
        PROVE  cont'[k].state = "token"
    <3>1. cont[guard[n][r]].node = n
      BY <1>2, <2>3, Zenon DEF AckStarts, GuardsHeld, For
    <3> QED
      BY <1>0, <2>3, <3>1, ZenonT(30) DEF AckStarts
  <2>4. ASSUME AckFails(c), NEW k \in Containers, cont[k].state = "token", cont[k].node # n
        PROVE  cont'[k].state = "token"
    <3>1. cont[guard[n][r]].node = n
      BY <1>2, <2>4 DEF AckFails, GuardInHand, GuardsHeld, For
    <3> QED
      BY <1>0, <2>4, <3>1 DEF AckFails
  <2> QED
    BY <1>6, <2>1, <2>2, <2>3, <2>4, Zenon
       DEF Handles, HandlerRefuses, PrepareReplays, PrepareCreated, PrepareFails, AckReplays, AckStarted
<1> QED
  BY <1>2, <1>4, <1>5, <1>7, <1>8

\* A handler is not disturbed by what happens on another machine.
LEMMA Undisturbed ==
    ASSUME StopInv, [Next]_vars, NEW n, NEW d \in Calls, call'[d] = call[d],
           Working(d) => call[d].node # n,
           \A m \in Nodes : m # n => journal'[m] = journal[m],
           \A k \in Containers : cont[k].state = "token" /\ cont[k].node # n =>
                                    cont'[k].state = "token"
    PROVE  PreparesItsOwn(d)'
<1> USE DEF StopInv
<1>1. CASE ~Working(d)
  BY <1>1, SMTT(30) DEF PreparesItsOwn, Working
<1>2. CASE Working(d)
  <2> DEFINE k == journal[call[d].node][call[d].slot].token
  <2>1. call[d].node \in Nodes /\ call[d].node # n
    BY <1>2, CallFields, Zenon DEF Working
  <2>2. journal'[call'[d].node][call'[d].slot].token = k
    BY <2>1
  <2>3. PreparesItsOwn(d)
    BY DEF Preparing
  <2>4. call'[d].job \in {"recorded", "creating"} => For(k, call[d].node, call[d].slot)'
    BY <2>3, <2>2, ContsKept, SMTT(30) DEF PreparesItsOwn, For
  <2>5. call'[d].job = "recorded" => cont'[k].state = "token"
    BY <2>1, <2>3 DEF PreparesItsOwn, For
  <2> QED
    BY <2>2, <2>4, <2>5, Zenon DEF PreparesItsOwn, For
<1> QED
  BY <1>1, <1>2

\* The steps that are neither the coordinator's nor a worker's.
Outside ==
    \/ LeaseMoves
    \/ \E d \in 0 .. MaxDeploy : AppChanges(d)
    \/ \E i \in Instances, r \in Slots :
         \/ \E client \in Clients : ReserveElasticSession(i, client, r)
         \/ AdvanceLaunching(i, r)
    \/ UNCHANGED vars

LEMMA OutsideFrame ==
    ASSUME Outside
    PROVE  UNCHANGED <<binding, call, journal, guard, cont>>
BY DEF Outside, LeaseMoves, AppChanges, ReserveElasticSession, AdvanceLaunching, vars, workerVars,
       storeVars

LEMMA DaemonFrame ==
    ASSUME TypeInv, NEW k \in Containers, Daemon(k)
    PROVE  /\ UNCHANGED <<row, binding, call, journal, guard>>
           /\ \A h \in Containers : cont[h].state = "token" => cont'[h].state = "token"
<1>1. cont \in [Containers -> ContainerRecords]
  BY DEF TypeInv, TypeOK
<1> QED
  BY <1>1 DEF Daemon, DaemonCreates, DaemonStarts, ContainerExits, ContainerRemoved, workerVars,
              storeVars

\* Fencing and restarts: no handler is left on the machine.
LEMMA MachineFrame ==
    ASSUME TypeInv, NEW n \in Nodes, Machine(n)
    PROVE  /\ UNCHANGED <<row, binding>>
           /\ \A d \in Calls : call'[d] = NoCall \/ call'[d] = call[d]
           /\ \A m \in Nodes : m # n => journal'[m] = journal[m]
           /\ \/ journal' = journal
              \/ \A d \in Calls : call'[d] = NoCall \/ ~Working(d) \/ call[d].node # n
           /\ \A h \in Containers : cont[h].state = "token" => cont'[h].state = "token"
<1> USE DEF workerVars, storeVars
<1>0. /\ cont \in [Containers -> ContainerRecords]
      /\ journal \in [Nodes -> [Slots -> Journals]]
  BY DEF TypeInv, TypeOK
<1>1. CASE Fence(n)
  <2>1. \E S : StopElastic(n, S, {})
    BY <1>1 DEF Fence
  <2>2. PICK Noted, Tried, Gone, Proved :
          /\ \A k \in Gone : cont[k].state \in {"created", "running", "exited"}
          /\ StopOutcome(n, {}, Noted, Tried, Gone, Proved)
    BY <2>1, StopParts
  <2> QED
    BY <1>0, <1>1, <2>2 DEF StopOutcome, Fence, Busy, Working
<1>2. ASSUME NEW k \in Containers, RouteWithdrawn(n, k)
      PROVE  UNCHANGED <<row, binding, call, journal, cont>>
  BY <1>2 DEF RouteWithdrawn
<1>3. ASSUME NEW loses \in BOOLEAN, WorkerRestarts(n, loses)
      PROVE  /\ UNCHANGED <<row, binding, cont>>
             /\ \A d \in Calls : call'[d] = NoCall \/ call'[d] = call[d]
             /\ \A m \in Nodes : m # n => journal'[m] = journal[m]
             /\ \A d \in Calls : call'[d] = NoCall \/ ~Working(d) \/ call[d].node # n
  BY <1>0, <1>3 DEF WorkerRestarts, Working
<1> QED
  BY <1>1, <1>2, <1>3 DEF Machine

\* A launch that is being prepared keeps its token.
LEMMA PreparingKept ==
    ASSUME StopInv, [Next]_vars
    PROVE  Preparing'
<1> SUFFICES ASSUME NEW d \in Calls PROVE PreparesItsOwn(d)'
  BY DEF Preparing
<1> USE DEF StopInv
<1>0. ASSUME call'[d].job \notin {"recorded", "creating"} PROVE PreparesItsOwn(d)'
  BY <1>0 DEF PreparesItsOwn
<1>1. ASSUME UNCHANGED <<journal, cont>>, call'[d] = call[d] PROVE PreparesItsOwn(d)'
  BY <1>1, Zenon DEF Preparing, PreparesItsOwn, For
<1>2. ASSUME Outside PROVE PreparesItsOwn(d)'
  BY <1>1, <1>2, OutsideFrame
<1>3. ASSUME NEW k \in Containers, Daemon(k) PROVE PreparesItsOwn(d)'
  <2>1. NoNode \notin Nodes /\ (Working(d) => call[d].node \in Nodes)
    BY ElasticAssumption, CallFields DEF Working
  <2> QED
    BY <1>3, <2>1, DaemonFrame, Undisturbed
<1>4. ASSUME NEW c \in Calls, Coordinates(c) PROVE PreparesItsOwn(d)'
  BY <1>0, <1>1, <1>4, CoordinatorFrame DEF Others
<1>5. ASSUME NEW n \in Nodes, Machine(n) PROVE PreparesItsOwn(d)'
  <2>1. CASE call'[d] = NoCall
    BY <1>0, <2>1, NoCallFields
  <2>2. CASE call'[d] = call[d] /\ (~Working(d) \/ call[d].node # n)
    BY <1>5, <2>2, MachineFrame, Undisturbed
  <2>3. CASE call'[d] = call[d] /\ journal' = journal
    <3>1. NoNode \notin Nodes /\ (Working(d) => call[d].node \in Nodes)
      BY ElasticAssumption, CallFields DEF Working
    <3>2. \A k \in Containers : cont[k].state = "token" => cont'[k].state = "token"
      BY <1>5, MachineFrame
    <3> QED
      BY <2>3, <3>1, <3>2, Undisturbed, ZenonT(30)
  <2> QED
    BY <1>5, <2>1, <2>2, <2>3, MachineFrame
<1>6. ASSUME NEW c \in Calls, Handles(c), d # c PROVE PreparesItsOwn(d)'
  <2>1. /\ call'[d] = call[d]
        /\ Working(d) => call[d].node # call[c].node
        /\ \A m \in Nodes : m # call[c].node => journal'[m] = journal[m]
        /\ \A k \in Containers : cont[k].state = "token" /\ cont[k].node # call[c].node =>
                                    cont'[k].state = "token"
    BY <1>6, HandlerFrame DEF Others
  <2> QED
    BY <2>1, Undisturbed
<1>7. ASSUME Handles(d) PROVE PreparesItsOwn(d)'
  <2> DEFINE n == call[d].node
             r == call[d].slot
  <2>0. /\ cont \in [Containers -> ContainerRecords]
        /\ journal \in [Nodes -> [Slots -> Journals]]
        /\ n \in Nodes /\ r \in Slots
    BY <1>7, HandlerFrame DEF TypeInv, TypeOK
  <2>1. ASSUME NEW k \in Containers, PrepareRecords(d, k) PROVE PreparesItsOwn(d)'
    <3>1. call'[d].node = n /\ call'[d].slot = r
      BY <2>1, JobEffect DEF PrepareRecords
    <3>2. journal'[n][r].token = k
      BY <2>0, <2>1 DEF PrepareRecords
    <3>3. cont'[k].state = "token" /\ cont'[k].slot = r /\ cont'[k].node = n
      <4>1. cont[k] \in ContainerRecords
        BY <2>0, SMTT(30)
      <4> QED
        BY <2>0, <2>1, <4>1 DEF PrepareRecords, ContainerRecords
    <3> QED
      BY <3>1, <3>2, <3>3 DEF PreparesItsOwn, For
  <2>2. ASSUME PrepareCreates(d) PROVE PreparesItsOwn(d)'
    <3>1. call'[d].job = "creating" /\ call'[d].node = n /\ call'[d].slot = r
      BY <2>2, JobEffect, ZenonT(30) DEF PrepareCreates
    <3>2. journal' = journal
      BY <2>2, ZenonT(30) DEF PrepareCreates, workerVars
    <3>3. For(journal[n][r].token, n, r)
      BY <2>2, ZenonT(30) DEF PrepareCreates, Preparing, PreparesItsOwn
    <3>4. For(journal[n][r].token, n, r) => For(journal[n][r].token, n, r)'
      BY <3>1, <3>2, ContsKept DEF For
    <3> QED
      BY <3>1, <3>2, <3>3, <3>4, Zenon DEF PreparesItsOwn, For
  <2>3. ASSUME NEW at, NEW k, Answer(d, at, k) PROVE PreparesItsOwn(d)'
    BY <1>0, <2>3, AnswerEffect, NoCallFields
  <2>4. ASSUME call' = [call EXCEPT ![d].job = "starting"] PROVE PreparesItsOwn(d)'
    <3>1. call'[d].job = "starting"
      BY <2>4, JobEffect
    <3> QED
      BY <1>0, <3>1
  <2>5. \/ \E k \in Containers : PrepareRecords(d, k)
        \/ PrepareCreates(d)
        \/ \E at, k : Answer(d, at, k)
        \/ call' = [call EXCEPT ![d].job = "starting"]
    <3>1. ASSUME PrepareCreated(d) \/ AckStarted(d) \/ StopRuns(d) \/ AckReplays(d)
          PROVE  \E at, k : Answer(d, at, k)
      BY <3>1, ZenonT(30) DEF PrepareCreated, AckStarted, StopRuns, AckReplays
    <3>2. ASSUME AckStarts(d)
          PROVE  Answer(d, "error", 0) \/ call' = [call EXCEPT ![d].job = "starting"]
      BY <3>2, Zenon DEF AckStarts
    <3>3. ASSUME HandlerRefuses(d) \/ PrepareReplays(d) \/ PrepareFails(d) \/ AckFails(d)
          PROVE  \E at, k : Answer(d, at, k)
      BY <3>3 DEF HandlerRefuses, PrepareReplays, PrepareFails, AckFails
    <3> QED
      BY <1>7, <3>1, <3>2, <3>3 DEF Handles
  <2> QED
    BY <2>1, <2>2, <2>3, <2>4, <2>5
<1> QED
  BY <1>2, <1>3, <1>4, <1>5, <1>6, <1>7 DEF Next, Outside

\* A guard is set by the handler that created the container.
LEMMA GuardMoves ==
    ASSUME StopInv, [Next]_vars, NEW n \in Nodes, NEW r \in Slots
    PROVE  \/ guard'[n][r] \in {guard[n][r], 0}
           \/ /\ For(guard'[n][r], n, r)
              /\ cont' = cont
<1> USE DEF StopInv
<1>0. guard \in [Nodes -> [Slots -> Tokens]]
  BY DEF TypeInv, TypeOK
<1>1. ASSUME guard' = guard PROVE guard'[n][r] = guard[n][r]
  BY <1>1
<1>2. ASSUME NEW c \in Calls, PrepareCreated(c)
      PROVE  \/ guard'[n][r] = guard[n][r]
             \/ For(guard'[n][r], n, r) /\ cont' = cont
  <2>1. call[c].node \in Nodes /\ call[c].slot \in Slots
    BY <1>2, CallFields DEF PrepareCreated
  <2>2. LET k == journal[call[c].node][call[c].slot].token
        IN  /\ For(k, call[c].node, call[c].slot)
            /\ guard' = [guard EXCEPT ![call[c].node][call[c].slot] = k]
            /\ cont' = cont
    BY <1>2, Zenon DEF PrepareCreated, Preparing, PreparesItsOwn
  <2> QED
    BY <1>0, <2>1, <2>2, SMTT(30)
<1>3. ASSUME NEW c \in Calls, AckStarted(c) PROVE guard'[n][r] \in {guard[n][r], 0}
  <2>1. call[c].node \in Nodes /\ call[c].slot \in Slots
    BY <1>3, CallFields, Zenon DEF AckStarted
  <2> QED
    BY <1>0, <1>3, <2>1 DEF AckStarted
<1>4. ASSUME NEW m, NEW S, NEW routes, StopElastic(m, S, routes)
      PROVE  guard'[n][r] \in {guard[n][r], 0}
  <2>1. PICK Noted, Tried, Gone, Proved : StopOutcome(m, routes, Noted, Tried, Gone, Proved)
    BY <1>4, StopParts
  <2> QED
    BY <1>0, <2>1 DEF StopOutcome
<1>5. ASSUME NEW c \in Calls, Handles(c)
      PROVE  \/ guard'[n][r] \in {guard[n][r], 0}
             \/ For(guard'[n][r], n, r) /\ cont' = cont
  BY <1>1, <1>2, <1>3, <1>4, <1>5, Zenon
     DEF Handles, HandlerRefuses, PrepareReplays, PrepareCreates, PrepareRecords, PrepareFails,
         AckReplays, AckStarts, AckFails, StopRuns, workerVars
<1>6. ASSUME NEW m \in Nodes, Machine(m) PROVE guard'[n][r] \in {guard[n][r], 0}
  BY <1>0, <1>4, <1>6 DEF Machine, Fence, RouteWithdrawn, WorkerRestarts
<1> QED
  BY <1>1, <1>5, <1>6, OutsideFrame, DaemonFrame, CoordinatorFrame DEF Next, Outside

LEMMA GuardsKept ==
    ASSUME StopInv, [Next]_vars
    PROVE  GuardsHeld'
<1> SUFFICES ASSUME NEW n \in Nodes, NEW r \in Slots, guard'[n][r] # 0
             PROVE  For(guard[n][r], n, r)'
  BY DEF GuardsHeld
<1>1. CASE guard'[n][r] = guard[n][r]
  <2>1. For(guard[n][r], n, r)
    BY <1>1 DEF StopInv, GuardsHeld
  <2> QED
    BY <1>1, <2>1, ContsKept DEF For
<1>2. CASE For(guard'[n][r], n, r) /\ cont' = cont
  BY <1>2 DEF For
<1> QED
  BY <1>1, <1>2, GuardMoves

\* Only a confirmation stops a row, and nothing revives one that is stopping.
LEMMA RowMoves ==
    ASSUME StopInv, [Next]_vars, NEW r \in Slots
    PROVE  /\ row'[r].state = "stopped" =>
                \/ row[r].state = "stopped"
                \/ \E c \in Calls : call[c].at = "confirm" /\ call[c].slot = r /\ cont' = cont
           /\ row[r].state \in {"stopping", "stopped"} =>
                row'[r].state \in {"stopping", "stopped"}
<1> DEFINE Goal == /\ row'[r].state = "stopped" =>
                        \/ row[r].state = "stopped"
                        \/ \E c \in Calls : call[c].at = "confirm" /\ call[c].slot = r /\ cont' = cont
                   /\ row[r].state \in {"stopping", "stopped"} =>
                        row'[r].state \in {"stopping", "stopped"}
<1> USE DEF StopInv
<1>0. row \in [Slots -> Rows] /\ \A s \in Slots : row[s] \in Rows
  BY DEF TypeInv, TypeOK
<1>1. ASSUME row' = row PROVE Goal
  BY <1>1
<1>2. ASSUME NEW s \in Slots, NEW st, row' = [row EXCEPT ![s].state = st],
             st # "stopped", row[s].state \notin {"stopping", "stopped"}
      PROVE  Goal
  BY <1>0, <1>2 DEF Rows
<1>3. ASSUME Outside PROVE Goal
  <2>1. ASSUME NEW i \in Instances, NEW s \in Slots, NEW client \in Clients,
               ReserveElasticSession(i, client, s)
        PROVE  Goal
    BY <1>0, <2>1 DEF ReserveElasticSession
  <2>2. ASSUME NEW i \in Instances, NEW s \in Slots, AdvanceLaunching(i, s) PROVE Goal
    BY <1>2, <2>2 DEF AdvanceLaunching
  <2>3. CASE LeaseMoves \/ (\E d \in 0 .. MaxDeploy : AppChanges(d)) \/ UNCHANGED vars
    BY <1>1, <2>3 DEF LeaseMoves, AppChanges, vars, storeVars
  <2> QED
    BY <1>3, <2>1, <2>2, <2>3 DEF Outside
<1>4. ASSUME NEW c \in Calls, Coordinates(c) PROVE Goal
  <2>1. ASSUME NEW i \in Instances, NEW s \in Slots, NEW n \in Nodes, NEW q \in Requests,
               Launch(c, i, s, n, q)
        PROVE  Goal
    <3>1. row[s].state \in {"reserved", "launching", "ready"}
      BY <2>1 DEF Launch, Bindable
    <3>2. row' = [row EXCEPT ![s].state = IF row[s].state = "reserved" THEN "launching"
                                          ELSE row[s].state]
      BY <1>0, <2>1 DEF Launch
    <3> QED
      BY <1>2, <3>1, <3>2
  <2>2. ASSUME NEW i \in Instances, NEW s \in Slots, NEW n \in Nodes, NEW q \in Requests,
               Stop(c, i, s, n, q)
        PROVE  Goal
    <3>1. row' = row \/ /\ row[s].state # "stopped"
                        /\ row' = [row EXCEPT ![s] = [row[s] EXCEPT !.state = "stopping",
                                                       !.owner = i, !.epoch = leaseEpoch]]
      BY <1>0, <2>2 DEF Stop
    <3>2. [row[s] EXCEPT !.state = "stopping", !.owner = i, !.epoch = leaseEpoch].state = "stopping"
      BY <1>0 DEF Rows
    <3> QED
      BY <1>0, <1>1, <3>1, <3>2
  <2>3. ASSUME LaunchAdvances(c) PROVE Goal
    <3>1. call[c].slot \in Slots
      BY <2>3, CallFields DEF LaunchAdvances
    <3> QED
      BY <1>2, <2>3, <3>1 DEF LaunchAdvances
  <2>4. ASSUME StopConfirms(c) PROVE Goal
    <3>1. call[c].slot \in Slots
      BY <2>4, CallFields, Zenon DEF StopConfirms
    <3>2. cont' = cont
      BY <2>4 DEF StopConfirms
    <3> QED
      BY <1>0, <2>4, <3>1, <3>2 DEF StopConfirms, Rows
  <2>5. CASE LaunchAcks(c) \/ CallerGivesUp(c)
    BY <1>1, <2>5 DEF LaunchAcks, CallerGivesUp, storeVars
  <2> QED
    BY <1>4, <2>1, <2>2, <2>3, <2>4, <2>5 DEF Coordinates
<1>5. ASSUME NEW c \in Calls, Handles(c) PROVE row' = row
  BY <1>5, Zenon DEF Handles, HandlerRefuses, PrepareReplays, PrepareCreates, PrepareCreated, PrepareFails,
              PrepareRecords, AckReplays, AckStarts, AckStarted, AckFails, StopRuns, storeVars
<1> QED
  BY <1>1, <1>3, <1>4, <1>5, MachineFrame, DaemonFrame DEF Next, Outside

\* A reservation that stopElastic has proved gone is quiet.
LEMMA ProvedQuiet ==
    ASSUME StopInv, [Next]_vars, NEW n \in Nodes, NEW S \in SUBSET Slots, NEW routes,
           StopElastic(n, S, routes), NEW r \in Slots, binding[r].node = n,
           journal[n][r].state # "stopped", journal'[n][r].state = "stopped"
    PROVE  Quiet(r)'
<1> USE DEF StopInv
<1>0. /\ journal \in [Nodes -> [Slots -> Journals]] /\ journal[n][r] \in Journals
      /\ cont \in [Containers -> ContainerRecords]
  BY DEF TypeInv, TypeOK
<1>1. PICK Noted \in SUBSET S, Tried \in SUBSET S, Gone \in SUBSET Containers,
           Proved \in SUBSET S :
        /\ \A s \in Proved : Listed(n, s) \subseteq Gone
        /\ StopOutcome(n, routes, Noted, Tried, Gone, Proved)
  BY StopParts
<1>2. r \in Proved
  <2> SUFFICES ASSUME r \notin Proved PROVE FALSE
    OBVIOUS
  <2>1. journal'[n][r] \in {journal[n][r], Journaled(journal[n][r], "stopping", binding[r].request)}
    BY <1>0, <1>1 DEF StopOutcome
  <2>2. Journaled(journal[n][r], "stopping", binding[r].request).state = "stopping"
    BY <1>0 DEF Journaled, Journals
  <2> QED
    BY <2>1, <2>2
<1>3. \A k \in Containers : cont'[k] = IF k \in Gone THEN Removed(k) ELSE cont[k]
  BY <1>1 DEF StopOutcome
<1> SUFFICES ASSUME NEW k \in Containers, cont'[k].state # "unused", cont'[k].slot = r
             PROVE  cont'[k].state # "running" /\ ~cont'[k].startAsked
  BY DEF Quiet, Of
<1>4. cont[k] \in ContainerRecords
  BY <1>0
<1>5. CASE k \in Gone
  BY <1>3, <1>4, <1>5, Zenon DEF Removed, ContainerRecords
<1>6. CASE k \notin Gone
  <2>1. cont'[k] = cont[k]
    BY <1>3, <1>6
  <2>2. cont[k].node = n /\ cont[k].slot = r
    BY <2>1 DEF ContsBound
  <2>3. cont[k].state \notin {"created", "running", "exited"}
    BY <1>1, <1>2, <1>6, <2>2 DEF Listed
  <2> QED
    BY <2>1, <2>3 DEF StartsCreated
<1> QED
  BY <1>5, <1>6

\* Only stopElastic writes a tombstone.
LEMMA TombstoneMoves ==
    ASSUME StopInv, [Next]_vars, NEW n \in Nodes, NEW r \in Slots,
           journal'[n][r].state = "stopped", journal[n][r].state # "stopped"
    PROVE  /\ binding' = binding
           /\ \E S \in SUBSET Slots : \E routes : StopElastic(n, S, routes)
<1> USE DEF StopInv, workerVars, storeVars
<1>0. /\ journal \in [Nodes -> [Slots -> Journals]] /\ journal[n][r] \in Journals
      /\ journal' # journal
  BY DEF TypeInv, TypeOK
<1>1. ASSUME NEW m \in Nodes, NEW s \in Slots, NEW st, st # "stopped",
             journal' = [journal EXCEPT ![m][s].state = st]
      PROVE  FALSE
  BY <1>0, <1>1 DEF Journals
<1>2. ASSUME NEW c \in Calls, Handles(c)
      PROVE  StopRuns(c) /\ n = call[c].node
  <2>1. n = call[c].node /\ call[c].slot \in Slots
    BY <1>2, HandlerFrame
  <2>2. ASSUME NEW k \in Containers, PrepareRecords(c, k) PROVE FALSE
    BY <1>0, <2>1, <2>2 DEF PrepareRecords
  <2>3. ~PrepareCreated(c)
    <3>1. PrepareCreated(c) =>
            journal' = journal \/ journal' = [journal EXCEPT ![n][call[c].slot].state = "prepared"]
      BY <2>1 DEF PrepareCreated
    <3>2. ASSUME journal' = [journal EXCEPT ![n][call[c].slot].state = "prepared"] PROVE FALSE
      <4>1. "prepared" # "stopped" /\ call[c].slot \in Slots
        BY <2>1
      <4> QED
        BY <1>1, <3>2, <4>1
    <3> QED
      BY <1>0, <3>1, <3>2, SMTT(30)
  <2>4. ~AckStarts(c)
    <3>1. AckStarts(c) => journal' = [journal EXCEPT ![n][call[c].slot].state = "acknowledging"]
      BY <2>1, Zenon DEF AckStarts
    <3>2. ASSUME journal' = [journal EXCEPT ![n][call[c].slot].state = "acknowledging"] PROVE FALSE
      <4>1. "acknowledging" # "stopped" /\ call[c].slot \in Slots
        BY <2>1
      <4> QED
        BY <1>1, <3>2, <4>1
    <3> QED
      BY <3>1, <3>2
  <2>5. ~AckStarted(c)
    <3>1. AckStarted(c) =>
            journal' = journal \/ journal' = [journal EXCEPT ![n][call[c].slot].state = "ready"]
      BY <2>1 DEF AckStarted
    <3>2. ASSUME journal' = [journal EXCEPT ![n][call[c].slot].state = "ready"] PROVE FALSE
      <4>1. "ready" # "stopped" /\ call[c].slot \in Slots
        BY <2>1
      <4> QED
        BY <1>1, <3>2, <4>1
    <3> QED
      BY <1>0, <3>1, <3>2, SMTT(30)
  <2> QED
    BY <1>0, <1>2, <2>1, <2>2, <2>3, <2>4, <2>5, Zenon
       DEF Handles, HandlerRefuses, PrepareReplays, PrepareCreates, PrepareFails, AckReplays, AckFails
<1>3. ASSUME NEW c \in Calls, StopRuns(c), n = call[c].node
      PROVE  /\ binding' = binding
             /\ \E S \in SUBSET Slots : \E routes : StopElastic(n, S, routes)
  <2>1. call[c].slot \in Slots
    BY <1>3, CallFields DEF StopRuns, Admitted
  <2> QED
    BY <1>3, <2>1, SMTT(30) DEF StopRuns
<1>4. ASSUME NEW m \in Nodes, Machine(m)
      PROVE  /\ binding' = binding
             /\ \E S \in SUBSET Slots : \E routes : StopElastic(n, S, routes)
  <2>1. m = n
    BY <1>4, MachineFrame
  <2>2. Fence(m)
    <3>1. ASSUME NEW loses \in BOOLEAN, WorkerRestarts(m, loses) PROVE FALSE
      BY <1>0, <2>1, <3>1 DEF WorkerRestarts, NoJournal
    <3> QED
      BY <1>0, <1>4, <3>1 DEF Machine, RouteWithdrawn
  <2> QED
    BY <2>1, <2>2 DEF Fence, Unfinished
<1> QED
  BY <1>0, <1>2, <1>3, <1>4, OutsideFrame, DaemonFrame, CoordinatorFrame DEF Next, Outside

\* Only the stop handler lets its caller confirm.
LEMMA ConfirmMoves ==
    ASSUME StopInv, [Next]_vars, NEW c \in Calls, call'[c].at = "confirm"
    PROVE  /\ call[c].at # "idle" /\ call'[c].slot = call[c].slot
           /\ \/ call[c].at = "confirm"
              \/ /\ StopRuns(c)
                 /\ journal'[call[c].node][call[c].slot].state = "stopped"
<1> DEFINE Goal == /\ call[c].at # "idle" /\ call'[c].slot = call[c].slot
                   /\ \/ call[c].at = "confirm"
                      \/ /\ StopRuns(c)
                         /\ journal'[call[c].node][call[c].slot].state = "stopped"
<1> USE DEF StopInv
<1>1. ASSUME call'[c] = call[c] PROVE Goal
  BY <1>1
<1>2. ASSUME Handles(c) PROVE Goal
  <2>0. call[c].at # "idle"
    <3>1. call[c].job # "none"
      BY <1>2, Zenon DEF Handles, HandlerRefuses, PrepareReplays, PrepareRecords, PrepareCreates,
           PrepareCreated, PrepareFails, AckReplays, AckStarts, AckStarted, AckFails, Admitted, StopRuns
    <3> QED
      BY <3>1, CallFields
  <2>1. ASSUME NEW at, NEW k, Answer(c, at, k), at # "confirm" PROVE FALSE
    BY <2>1, AnswerEffect, NoCallFields
  <2>2. ASSUME NEW b, call' = [call EXCEPT ![c].job = b] PROVE Goal
    <3>1. call'[c].at = call[c].at /\ call'[c].slot = call[c].slot
      BY <2>2, JobEffect
    <3> QED
      BY <2>0, <3>1
  <2>3. ASSUME StopRuns(c) PROVE Goal
    <3>1. CASE journal'[call[c].node][call[c].slot].state = "stopped"
      <4>1. Answer(c, "confirm", 0)
        BY <2>3, <3>1 DEF StopRuns
      <4> QED
        BY <2>0, <2>3, <3>1, <4>1, AnswerEffect
    <3>2. CASE journal'[call[c].node][call[c].slot].state # "stopped"
      <4>1. Answer(c, "error", 0)
        BY <2>3, <3>2 DEF StopRuns
      <4> QED
        BY <2>1, <4>1
    <3> QED
      BY <3>1, <3>2
  <2>4. ASSUME PrepareCreated(c) \/ AckStarted(c) \/ AckReplays(c)
        PROVE  \E at, k : Answer(c, at, k) /\ at # "confirm"
    <3>1. ASSUME NEW b \in BOOLEAN, NEW k, Answer(c, IF b THEN "acked" ELSE "error", k)
          PROVE  \E at : Answer(c, at, k) /\ at # "confirm"
      BY <3>1, SMTT(30)
    <3>2. CASE PrepareCreated(c)
      BY <3>2 DEF PrepareCreated
    <3>3. CASE AckReplays(c)
      BY <3>1, <3>3 DEF AckReplays
    <3>4. CASE AckStarted(c)
      BY <3>1, <3>4 DEF AckStarted
    <3> QED
      BY <2>4, <3>2, <3>3, <3>4
  <2>5. ASSUME HandlerRefuses(c) \/ PrepareReplays(c) \/ PrepareFails(c) \/ AckFails(c)
        PROVE  \E at, k : Answer(c, at, k) /\ at # "confirm"
    BY <2>5 DEF HandlerRefuses, PrepareReplays, PrepareFails, AckFails
  <2>6. ASSUME AckStarts(c)
        PROVE  Answer(c, "error", 0) \/ call' = [call EXCEPT ![c].job = "starting"]
    BY <2>6, ZenonT(30) DEF AckStarts
  <2>7. ASSUME PrepareCreates(c) \/ \E k \in Containers : PrepareRecords(c, k)
        PROVE  \E b : call' = [call EXCEPT ![c].job = b]
    BY <2>7, Zenon DEF PrepareCreates, PrepareRecords
  <2>8. CASE AckStarts(c)
    BY <2>1, <2>2, <2>6, <2>8
  <2> QED
    BY <1>2, <2>1, <2>2, <2>3, <2>4, <2>5, <2>7, <2>8 DEF Handles
<1>3. ASSUME NEW d \in Calls, Coordinates(d) \/ Handles(d), d # c PROVE call'[c] = call[c]
  BY <1>3, CoordinatorFrame, HandlerFrame DEF Others
<1>4. ASSUME Coordinates(c) PROVE call'[c] = call[c]
  BY <1>4, CoordinatorFrame
<1>5. ASSUME NEW n \in Nodes, Machine(n) PROVE call'[c] = call[c]
  BY <1>5, MachineFrame, NoCallFields
<1>6. ASSUME Outside \/ \E k \in Containers : Daemon(k) PROVE call'[c] = call[c]
  BY <1>6, OutsideFrame, DaemonFrame
<1>7. CASE \E d \in Calls : Coordinates(d) \/ Handles(d)
  BY <1>1, <1>2, <1>3, <1>4, <1>7
<1> QED
  BY <1>1, <1>5, <1>6, <1>7 DEF Next, Outside

\* A launch is acknowledged only while its row and its journal say so.
LEMMA AckIsTimely ==
    ASSUME StopInv, NEW c \in Calls, AckStarts(c)
    PROVE  /\ row[call[c].slot].state \in {"launching", "ready"}
           /\ journal[call[c].node][call[c].slot].state # "stopped"
           /\ binding[call[c].slot].node = call[c].node /\ call[c].node \in Nodes
<1>1. call[c].job = "sent" /\ call[c].action = "ack" /\ Authorized(call[c])
  BY Zenon DEF AckStarts, Admitted
<1>2. row[call[c].slot].state \in {"launching", "ready"}
  BY <1>1 DEF Authorized
<1>3. call[c].node \in Nodes
      /\ binding[call[c].slot] = [node |-> call[c].node, request |-> call[c].request]
  BY <1>1, CallFields DEF StopInv
<1>4. journal[call[c].node][call[c].slot].state \in {"prepared", "acknowledging"}
  BY Zenon DEF AckStarts
<1> QED
  BY <1>2, <1>3, <1>4

\* A tombstone stays true.
LEMMA TombstonesKept ==
    ASSUME StopInv, [Next]_vars
    PROVE  Tombstones'
<1> SUFFICES ASSUME NEW n \in Nodes, NEW r \in Slots, journal'[n][r].state = "stopped",
                    binding'[r].node = n
             PROVE  Quiet(r)'
  BY DEF Tombstones
<1> USE DEF StopInv
<1>1. CASE journal[n][r].state # "stopped"
  <2>1. binding[r].node = n
    BY <1>1, TombstoneMoves
  <2> QED
    BY <1>1, <2>1, TombstoneMoves, ProvedQuiet
<1>2. CASE journal[n][r].state = "stopped" /\ binding[r].node = n
  <2>1. Quiet(r)
    BY <1>2 DEF Tombstones
  <2>2. \A c \in Calls : AckStarts(c) => call[c].slot # r
    BY <1>2, AckIsTimely
  <2> QED
    BY <2>1, <2>2, QuietStays
<1>3. CASE binding[r].node # n
  <2>1. binding[r] = NoBinding
    BY <1>3, BindingStays
  <2>2. binding[r].node \notin Nodes
    BY <2>1, ElasticAssumption DEF NoBinding
  <2>3. Quiet(r)
    BY <2>2 DEF ContsBound, Quiet, Of
  <2>4. \A c \in Calls : AckStarts(c) => call[c].slot # r
    BY <2>2, AckIsTimely
  <2> QED
    BY <2>3, <2>4, QuietStays
<1> QED
  BY <1>1, <1>2, <1>3

\* A confirmation stays true until it is applied.
LEMMA ConfirmsKept ==
    ASSUME StopInv, [Next]_vars
    PROVE  ConfirmsProved'
<1> SUFFICES ASSUME NEW c \in Calls, call'[c].at = "confirm"
             PROVE  /\ row'[call'[c].slot].state \in {"stopping", "stopped"}
                    /\ Quiet(call[c].slot)'
  BY DEF ConfirmsProved
<1> DEFINE n == call[c].node
           r == call[c].slot
<1> USE DEF StopInv
<1>1. r \in Slots /\ n \in Nodes /\ call'[c].slot = r /\ binding[r].node = n
  <2>1. call[c].at # "idle" /\ call'[c].slot = r
    BY ConfirmMoves
  <2>2. /\ r \in Slots /\ n \in Nodes
        /\ binding[r] = [node |-> n, request |-> call[c].request]
    BY <2>1, CallFields
  <2> QED
    BY <2>1, <2>2
<1>2. row[r].state \in {"stopping", "stopped"}
  <2>1. CASE call[c].at = "confirm"
    BY <2>1 DEF ConfirmsProved
  <2>2. CASE StopRuns(c)
    BY <2>2 DEF StopRuns, Admitted, Authorized
  <2> QED
    BY <2>1, <2>2, ConfirmMoves
<1>3. row'[r].state \in {"stopping", "stopped"}
  BY <1>1, <1>2, RowMoves
<1>4. Quiet(r)'
  <2>1. CASE call[c].at = "confirm"
    <3>1. Quiet(r)
      BY <2>1 DEF ConfirmsProved
    <3>2. \A d \in Calls : AckStarts(d) => call[d].slot # r
      BY <1>2, AckIsTimely
    <3> QED
      BY <1>1, <3>1, <3>2, QuietStays
  <2>2. CASE journal'[n][r].state = "stopped" /\ binding' = binding
    BY <1>1, <2>2, TombstonesKept DEF Tombstones
  <2>3. StopRuns(c) => binding' = binding
    BY DEF StopRuns, storeVars
  <2> QED
    BY <2>1, <2>2, <2>3, ConfirmMoves
<1> QED
  BY <1>1, <1>3, <1>4 DEF Quiet, Of

\* A row that was stopped stays quiet.
LEMMA StoppedKept ==
    ASSUME StopInv, [Next]_vars
    PROVE  StoppedIsGone'
<1> SUFFICES ASSUME NEW r \in Slots, row'[r].state = "stopped" PROVE Quiet(r)'
  BY DEF StoppedIsGone
<1> USE DEF StopInv
<1>1. CASE row[r].state = "stopped"
  <2>1. Quiet(r)
    BY <1>1 DEF StoppedIsGone
  <2>2. \A d \in Calls : AckStarts(d) => call[d].slot # r
    BY <1>1, AckIsTimely
  <2> QED
    BY <2>1, <2>2, QuietStays
<1>2. ASSUME NEW c \in Calls, call[c].at = "confirm", call[c].slot = r, cont' = cont
      PROVE  Quiet(r)'
  BY <1>2 DEF ConfirmsProved, Quiet, Of
<1> QED
  BY <1>1, <1>2, RowMoves

LEMMA StopInvInit == ASSUME Init PROVE StopInv
<1>1. TypeInv
  BY InitTypes
<1>2. \A c \in Calls : call[c] = NoCall
  BY DEF Init
<1>3. \A k \in Containers : cont[k] = NoCont
  BY DEF Init
<1>4. \A n \in Nodes, r \in Slots : guard[n][r] = 0 /\ journal[n][r] = NoJournal
  BY DEF Init
<1>5. OneHandler /\ GuardInHand /\ Preparing /\ ConfirmsProved
  BY <1>2, NoCallFields DEF OneHandler, Working, GuardInHand, Preparing, PreparesItsOwn, ConfirmsProved
<1>6. ContsBound /\ StartsCreated
  <2>1. NoCont.state = "unused" /\ ~NoCont.startAsked
    BY DEF NoCont
  <2> QED
    BY <1>3, <2>1 DEF ContsBound, StartsCreated
<1>7. GuardsHeld /\ Tombstones
  BY <1>4 DEF GuardsHeld, Tombstones, NoJournal
<1>8. StoppedIsGone
  BY DEF Init, StoppedIsGone, NoRow
<1> QED
  BY <1>1, <1>5, <1>6, <1>7, <1>8 DEF StopInv

LEMMA StopInvStep == ASSUME StopInv, [Next]_vars PROVE StopInv'
<1>1. TypeInv' /\ OneHandler' /\ GuardInHand'
  BY StepTypes, HandlersKept DEF StopInv
<1> QED
  BY <1>1, ContsKept, PreparingKept, GuardsKept, ConfirmsKept, TombstonesKept, StoppedKept
     DEF StopInv

\* The types of the lease, the store, the calls, the workers and the containers
\* hold, whatever is lost, restarted or retried.
THEOREM ElasticTypes == Spec => []TypeOK
<1>1. Init => StopInv
  BY StopInvInit
<1>2. StopInv /\ [Next]_vars => StopInv'
  BY StopInvStep
<1>3. StopInv => TypeOK
  BY DEF StopInv, TypeInv
<1> QED
  BY <1>1, <1>2, <1>3, PTL DEF Spec

\* Capacity is given back only for a worker that is gone: of a row that
\* ConfirmElasticReservationStopped has stopped no container runs or will be
\* started, for any number of reservations, machines, owners and calls, through
\* give-ups, restarts, lost journals and late answers of the daemon.
THEOREM StoppedStaysGone == Spec => []StoppedIsGone
<1>1. Init => StopInv
  BY StopInvInit
<1>2. StopInv /\ [Next]_vars => StopInv'
  BY StopInvStep
<1>3. StopInv => StoppedIsGone
  BY DEF StopInv
<1> QED
  BY <1>1, <1>2, <1>3, PTL DEF Spec

----------------------------------------------------------------------------
(* The fence.                                                                *)

\* A row is written only for the owner of the live lease.
LEMMA RowsFenced ==
    ASSUME TypeInv, [Next]_vars, NEW r \in Slots, row'[r] # row[r]
    PROVE  ~Fenced(row'[r].owner, row'[r].epoch)
<1> DEFINE Goal == ~Fenced(row'[r].owner, row'[r].epoch)
<1> USE DEF storeVars
<1>0. row \in [Slots -> Rows] /\ \A s \in Slots : row[s] \in Rows
  BY DEF TypeInv, TypeOK
<1>1. ASSUME NEW s \in Slots, NEW st, row' = [row EXCEPT ![s].state = st], NEW i, NEW e,
             OwnedBy(s, i, e), ~Fenced(i, e)
      PROVE  Goal
  <2>1. s = r
    BY <1>0, <1>1
  <2>2. row'[r] = [row[r] EXCEPT !.state = st]
    BY <1>0, <1>1, <2>1
  <2>3. row'[r].owner = i /\ row'[r].epoch = e
    BY <1>0, <1>1, <2>1, <2>2 DEF OwnedBy, Rows
  <2> QED
    BY <1>1, <2>3
<1>2. ASSUME NEW i \in Instances, NEW s \in Slots, NEW client \in Clients,
             ReserveElasticSession(i, client, s)
      PROVE  Goal
  <2>1. s = r
    BY <1>0, <1>2 DEF ReserveElasticSession
  <2> QED
    BY <1>0, <1>2, <2>1 DEF ReserveElasticSession
<1>3. ASSUME NEW i \in Instances, NEW s \in Slots, AdvanceLaunching(i, s) PROVE Goal
  BY <1>1, <1>3 DEF AdvanceLaunching
<1>4. ASSUME NEW c \in Calls, Coordinates(c) PROVE Goal
  <2>1. ASSUME NEW i \in Instances, NEW s \in Slots, NEW n \in Nodes, NEW q \in Requests,
               Launch(c, i, s, n, q)
        PROVE  Goal
    <3>1. OwnedBy(s, i, leaseEpoch) /\ ~Fenced(i, leaseEpoch)
      BY <2>1 DEF Launch, Bindable
    <3>2. row' = [row EXCEPT ![s].state = IF row[s].state = "reserved" THEN "launching"
                                          ELSE row[s].state]
      BY <1>0, <2>1 DEF Launch
    <3> QED
      BY <1>1, <3>1, <3>2
  <2>2. ASSUME NEW i \in Instances, NEW s \in Slots, NEW n \in Nodes, NEW q \in Requests,
               Stop(c, i, s, n, q)
        PROVE  Goal
    <3>1. row' = [row EXCEPT ![s] = [row[s] EXCEPT !.state = "stopping", !.owner = i,
                                                   !.epoch = leaseEpoch]]
      BY <1>0, <2>2 DEF Stop
    <3>2. row'[r].owner = i /\ row'[r].epoch = leaseEpoch
      BY <1>0, <3>1 DEF Rows
    <3> QED
      BY <2>2, <3>2 DEF Stop
  <2>3. ASSUME LaunchAdvances(c) PROVE Goal
    <3>1. call[c].slot \in Slots
      BY <2>3, CallFields DEF LaunchAdvances
    <3> QED
      BY <1>1, <2>3, <3>1 DEF LaunchAdvances
  <2>4. ASSUME StopConfirms(c) PROVE Goal
    <3>1. call[c].slot \in Slots
      BY <2>4, CallFields DEF StopConfirms
    <3> QED
      BY <1>1, <2>4, <3>1, Zenon DEF StopConfirms
  <2> QED
    BY <1>4, <2>1, <2>2, <2>3, <2>4 DEF Coordinates, LaunchAcks, CallerGivesUp
<1>5. ASSUME NEW c \in Calls, Handles(c) PROVE row' = row
  BY <1>5, Zenon DEF Handles, HandlerRefuses, PrepareReplays, PrepareCreates, PrepareCreated, PrepareFails,
              PrepareRecords, AckReplays, AckStarts, AckStarted, AckFails, StopRuns
<1>6. ASSUME LeaseMoves \/ (\E d \in 0 .. MaxDeploy : AppChanges(d)) \/ UNCHANGED vars
      PROVE  row' = row
  BY <1>6 DEF LeaseMoves, AppChanges, vars
<1> QED
  BY <1>2, <1>3, <1>4, <1>5, <1>6, MachineFrame, DaemonFrame DEF Next

\* A container is started only for the owner of the live lease.
LEMMA StartsFenced ==
    ASSUME StopInv, [Next]_vars, NEW r \in Slots, NEW k \in Of(r),
           cont'[k].startAsked, ~cont[k].startAsked, row'[r] = row[r]
    PROVE  ~Fenced(row'[r].owner, row'[r].epoch)
<1> USE DEF StopInv
<1>1. /\ k \in Containers /\ cont[k].state # "unused" /\ cont[k].slot = r
      /\ cont[k] \in ContainerRecords
  BY DEF Of, TypeInv, TypeOK
<1>2. Acknowledged(k)
  <2>1. ContMove(k)
    BY <1>1, StepMoves
  <2> QED
    BY <1>1, <2>1, ZenonT(30) DEF ContMove, ContainerRecords, Removed
<1>3. PICK c \in Calls : AckStarts(c) /\ k = guard[call[c].node][call[c].slot]
  BY <1>2, ZenonT(30) DEF Acknowledged
<1>4. Authorized(call[c]) /\ call[c].job = "sent"
  BY <1>3, ZenonT(30) DEF AckStarts, Admitted
<1>5. call[c].slot = r
  <2>1. call[c].node \in Nodes /\ call[c].slot \in Slots
    BY <1>4, CallFields
  <2> QED
    BY <1>1, <1>3, <2>1, Zenon DEF AckStarts, GuardsHeld, For
<1>6. ~Fenced(call[c].inst, call[c].epoch) /\ OwnedBy(r, call[c].inst, call[c].epoch)
  BY <1>4, <1>5 DEF Authorized
<1> QED
  BY <1>6 DEF OwnedBy

\* The fence holds for every step: what an owner began before it lost the lease
\* neither changes a row nor starts a container.
THEOREM StaleOwnersStayFenced == Spec => StaleOwnerIsFenced
<1>1. Init => StopInv
  BY StopInvInit
<1>2. StopInv /\ [Next]_vars => StopInv'
  BY StopInvStep
<1>3. StopInv /\ [Next]_vars =>
        \A r \in Slots :
          row'[r] # row[r] \/ (\E k \in Of(r) : cont'[k].startAsked /\ ~cont[k].startAsked)
            => ~Fenced(row'[r].owner, row'[r].epoch)
  BY RowsFenced, StartsFenced DEF StopInv
<1> QED
  BY <1>1, <1>2, <1>3, PTL DEF Spec, StaleOwnerIsFenced
============================================================================
