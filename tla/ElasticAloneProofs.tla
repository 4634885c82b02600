------------------------- MODULE ElasticAloneProofs -------------------------
(***************************************************************************)
(* More proofs about ElasticLaunch, from the invariant of                  *)
(* ElasticLaunchProofs: a reservation has one worker (RunsAlone), its      *)
(* command is executed once while the journals last (ExecutesOnce), and    *)
(* admission by max_workers bounds the workers that run (ImplementsSlots). *)
(*                                                                         *)
(* The first rests on the guard: a container is started by the handler     *)
(* that holds it back, and a handler that has found none with the label is *)
(* the only one that can start another (Solitary).  The routes and the     *)
(* second rest on the journal, which names the only container of its       *)
(* reservation as long as it is not lost (Named).                          *)
(***************************************************************************)
EXTENDS ElasticLaunchProofs

\* A container that runs, or that the daemon was asked to start.
Alive(k) == cont[k].state = "running" \/ cont[k].startAsked

\* One container of a reservation is alive: the one that is held back, if any,
\* and none while another is being created.
Solitary ==
    /\ \A k, h \in Containers :
         Alive(k) /\ Alive(h) /\ cont[k].slot = cont[h].slot => k = h
    /\ \A n \in Nodes, r \in Slots, k \in Containers :
         guard[n][r] # 0 /\ Alive(k) /\ cont[k].slot = r => k = guard[n][r]
    /\ \A c \in Calls, k \in Containers :
         call[c].job = "creating" /\ cont[k].slot = call[c].slot => ~Alive(k)

\* A journal that was not lost names the container of its reservation.
Named ==
    /\ \A n \in Nodes, r \in Slots : journal[n][r].state = "none" => journal[n][r].token = 0
    /\ \A k \in Containers :
         cont[k].state # "unused" /\ ~lost[cont[k].node] =>
             journal[cont[k].node][cont[k].slot].token = k

\* The journal says how far a handler has come.
JobNoted(c) ==
    /\ call[c].job \in {"recorded", "creating"} =>
         journal[call[c].node][call[c].slot].state = "preparing"
    /\ call[c].job = "starting" =>
         journal[call[c].node][call[c].slot].state = "acknowledging"

JobsNoted == \A c \in Calls : JobNoted(c)

\* The machine n has the tombstone of r, or has lost its journals.
Buried(n, r) == lost[n] \/ journal[n][r].state = "stopped"

\* A route leads to a container of its machine, and none to one that is buried.
RoutesLead ==
    \A n \in Nodes : \A k \in routed[n] :
        /\ cont[k].state # "unused" /\ cont[k].node = n
        /\ lost[n] \/ journal[n][cont[k].slot].state # "stopped"

\* Who confirms a stop, and a row that was stopped, has a tombstone behind it.
Confirmed ==
    /\ \A c \in Calls : call[c].at = "confirm" => Buried(call[c].node, call[c].slot)
    /\ \A r \in Slots :
         row[r].state = "stopped" => binding[r].node \in Nodes /\ Buried(binding[r].node, r)

\* Nothing was bound, let alone launched, before it was reserved.
Pristine == \A r \in Slots : row[r].state = "none" => binding[r] = NoBinding

AloneInv ==
    StopInv /\ Solitary /\ Named /\ JobsNoted /\ RoutesLead /\ Confirmed /\ Pristine

-----------------------------------------------------------------------------
(* What a step may do.                                                       *)

\* The handler of c serves the reservation r on n.
At(c, n, r) == call[c].node = n /\ call[c].slot = r

\* A container comes to life when its launch is acknowledged.
LEMMA AliveMoves ==
    ASSUME StopInv, [Next]_vars, NEW k \in Containers, Alive(k)'
    PROVE  /\ cont[k].state # "unused" /\ cont'[k].slot = cont[k].slot
           /\ Alive(k) \/ Acknowledged(k)
<1> USE DEF StopInv
<1>1. ContMove(k)
  BY StepMoves
<1>2. cont[k] \in ContainerRecords
  BY DEF TypeInv, TypeOK
<1>3. CASE cont[k].state = "unused"
  <2>1. cont[k] = NoCont
    BY <1>3 DEF ContsBound
  <2>2. NoCont.state = "unused" /\ ~NoCont.startAsked
    BY DEF NoCont
  <2>3. cont'[k].state # "running" /\ ~cont'[k].startAsked
    BY <1>1, <1>3, <2>1, <2>2, Zenon DEF ContMove, NoCont
  <2> QED
    BY <2>3 DEF Alive
<1>4. CASE cont[k].state # "unused"
  <2>1. cont'[k].slot = cont[k].slot
    BY <1>4, ContsKept DEF For
  <2>2. Alive(k) \/ Acknowledged(k)
    BY <1>1, <1>2, <1>4, Zenon DEF ContMove, ContainerRecords, Removed, Alive
  <2> QED
    BY <1>4, <2>1, <2>2
<1> QED
  BY <1>3, <1>4

\* The containers of a reservation are where it is bound.
LEMMA SamePlace ==
    ASSUME StopInv, NEW k \in Containers, cont[k].state # "unused"
    PROVE  /\ cont[k].slot \in Slots /\ cont[k].node \in Nodes
           /\ binding[cont[k].slot].node = cont[k].node
BY DEF StopInv, ContsBound

\* An acknowledgement starts the container that is held back.
LEMMA AckOwn ==
    ASSUME StopInv, NEW c \in Calls, AckStarts(c)
    PROVE  LET n == call[c].node  r == call[c].slot  k == guard[n][r]
           IN  /\ n \in Nodes /\ r \in Slots /\ binding[r].node = n /\ ~Busy(n)
               /\ k # 0 /\ k \in Containers /\ For(k, n, r)
<1> DEFINE n == call[c].node
           r == call[c].slot
<1>1. call[c].job = "sent" /\ ~Busy(n) /\ guard[n][r] # 0
  BY Zenon DEF AckStarts, Admitted
<1>2. /\ n \in Nodes /\ r \in Slots
      /\ binding[r] = [node |-> n, request |-> call[c].request]
  BY <1>1, CallFields DEF StopInv
<1>3. For(guard[n][r], n, r)
  BY <1>1, <1>2 DEF StopInv, GuardsHeld
<1> QED
  BY <1>1, <1>2, <1>3 DEF For

\* A handler goes on from where it stood.
LEMMA JobSteps ==
    ASSUME StopInv, [Next]_vars, NEW c \in Calls, Working(c)'
    PROVE  \/ call'[c] = call[c]
           \/ /\ call'[c].node = call[c].node /\ call'[c].slot = call[c].slot
              /\ call[c].node \in Nodes /\ call[c].slot \in Slots
              /\ \/ call'[c].job = "recorded" /\ \E k \in Containers : PrepareRecords(c, k)
                 \/ call'[c].job = "creating" /\ PrepareCreates(c)
                 \/ call'[c].job = "starting" /\ AckStarts(c)
<1> DEFINE Goal ==
           \/ call'[c] = call[c]
           \/ /\ call'[c].node = call[c].node /\ call'[c].slot = call[c].slot
              /\ call[c].node \in Nodes /\ call[c].slot \in Slots
              /\ \/ call'[c].job = "recorded" /\ \E k \in Containers : PrepareRecords(c, k)
                 \/ call'[c].job = "creating" /\ PrepareCreates(c)
                 \/ call'[c].job = "starting" /\ AckStarts(c)
<1> USE DEF StopInv
<1>0. call'[c].job \notin {"none", "sent"}
  BY DEF Working
<1>1. ASSUME Handles(c) PROVE Goal
  <2>0. call[c].node \in Nodes /\ call[c].slot \in Slots
    BY <1>1, HandlerFrame
  <2>1. ASSUME NEW at, NEW k, Answer(c, at, k) PROVE FALSE
    BY <1>0, <2>1, AnswerEffect, NoCallFields
  <2>2. ASSUME NEW b, call' = [call EXCEPT ![c].job = b]
        PROVE  call'[c].job = b /\ call'[c].node = call[c].node /\ call'[c].slot = call[c].slot
    BY <2>2, JobEffect
  <2>3. ASSUME PrepareCreated(c) \/ AckStarted(c) \/ StopRuns(c) \/ AckReplays(c)
        PROVE  \E at, k : Answer(c, at, k)
    BY <2>3, ZenonT(30) DEF PrepareCreated, AckStarted, StopRuns, AckReplays
  <2>4. ASSUME HandlerRefuses(c) \/ PrepareReplays(c) \/ PrepareFails(c) \/ AckFails(c)
        PROVE  \E at, k : Answer(c, at, k)
    BY <2>4 DEF HandlerRefuses, PrepareReplays, PrepareFails, AckFails
  <2>5. ASSUME NEW k \in Containers, PrepareRecords(c, k) PROVE Goal
    <3>1. call' = [call EXCEPT ![c].job = "recorded"]
      BY <2>5, Zenon DEF PrepareRecords
    <3> QED
      BY <2>0, <2>2, <2>5, <3>1
  <2>6. ASSUME PrepareCreates(c) PROVE Goal
    <3>1. call' = [call EXCEPT ![c].job = "creating"]
      BY <2>6, Zenon DEF PrepareCreates
    <3> QED
      BY <2>0, <2>2, <2>6, <3>1
  <2>7. ASSUME AckStarts(c) PROVE Goal
    <3>1. Answer(c, "error", 0) \/ call' = [call EXCEPT ![c].job = "starting"]
      BY <2>7, Zenon DEF AckStarts
    <3>2. call' = [call EXCEPT ![c].job = "starting"]
      BY <2>1, <3>1
    <3> QED
      BY <2>0, <2>2, <2>7, <3>2
  <2> QED
    BY <1>1, <2>1, <2>3, <2>4, <2>5, <2>6, <2>7 DEF Handles
<1>2. ASSUME NEW d \in Calls, Coordinates(d) \/ Handles(d), d # c PROVE call'[c] = call[c]
  BY <1>2, CoordinatorFrame, HandlerFrame DEF Others
<1>3. ASSUME Coordinates(c) PROVE call'[c] = call[c]
  BY <1>0, <1>3, CoordinatorFrame
<1>4. ASSUME NEW n \in Nodes, Machine(n) PROVE call'[c] = call[c]
  BY <1>0, <1>4, MachineFrame, NoCallFields
<1>5. ASSUME Outside \/ \E k \in Containers : Daemon(k) PROVE call'[c] = call[c]
  BY <1>5, OutsideFrame, DaemonFrame
<1>6. CASE \E d \in Calls : Coordinates(d) \/ Handles(d)
  BY <1>1, <1>2, <1>3, <1>6
<1> QED
  BY <1>4, <1>5, <1>6 DEF Next, Outside

\* A guard is set for the container that a handler has had created.
LEMMA GuardSet ==
    ASSUME StopInv, [Next]_vars, NEW n \in Nodes, NEW r \in Slots, guard'[n][r] # 0
    PROVE  \/ guard'[n][r] = guard[n][r]
           \/ \E c \in Calls : call[c].job = "creating" /\ call[c].slot = r /\ cont' = cont
<1> USE DEF StopInv
<1>0. guard \in [Nodes -> [Slots -> Tokens]]
  BY DEF TypeInv, TypeOK
<1>1. ASSUME NEW c \in Calls, PrepareCreated(c), guard'[n][r] # guard[n][r]
      PROVE  call[c].job = "creating" /\ call[c].slot = r /\ cont' = cont
  <2>1. call[c].node \in Nodes /\ call[c].slot \in Slots
    BY <1>1, CallFields DEF PrepareCreated
  <2>2. /\ \E k : guard' = [guard EXCEPT ![call[c].node][call[c].slot] = k]
        /\ call[c].job = "creating" /\ cont' = cont
    BY <1>1, Zenon DEF PrepareCreated
  <2> QED
    BY <1>0, <1>1, <2>1, <2>2, SMTT(30)
<1>2. ASSUME NEW c \in Calls, AckStarted(c) PROVE guard'[n][r] \in {guard[n][r], 0}
  <2>1. call[c].node \in Nodes /\ call[c].slot \in Slots
    BY <1>2, CallFields, Zenon DEF AckStarted
  <2> QED
    BY <1>0, <1>2, <2>1 DEF AckStarted
<1>3. ASSUME NEW m, NEW S, NEW routes, StopElastic(m, S, routes)
      PROVE  guard'[n][r] \in {guard[n][r], 0}
  <2>1. PICK Noted, Tried, Gone, Proved : StopOutcome(m, routes, Noted, Tried, Gone, Proved)
    BY <1>3, StopParts
  <2> QED
    BY <1>0, <2>1 DEF StopOutcome
<1>4. ASSUME NEW c \in Calls, Handles(c), ~PrepareCreated(c)
      PROVE  guard'[n][r] \in {guard[n][r], 0}
  BY <1>2, <1>3, <1>4, Zenon
     DEF Handles, HandlerRefuses, PrepareReplays, PrepareCreates, PrepareRecords, PrepareFails,
         AckReplays, AckStarts, AckFails, StopRuns, workerVars
<1>5. ASSUME NEW m \in Nodes, Machine(m) PROVE guard'[n][r] \in {guard[n][r], 0}
  BY <1>0, <1>3, <1>5 DEF Machine, Fence, RouteWithdrawn, WorkerRestarts
<1> QED
  BY <1>1, <1>4, <1>5, OutsideFrame, DaemonFrame, CoordinatorFrame DEF Next, Outside

-----------------------------------------------------------------------------
(* One container is alive.                                                   *)

\* What an acknowledgement starts was held back on a machine without a handler.
LEMMA AckHeld ==
    ASSUME StopInv, NEW k \in Containers, Acknowledged(k)
    PROVE  /\ cont[k].state # "unused"
           /\ k # 0 /\ guard[cont[k].node][cont[k].slot] = k /\ ~Busy(cont[k].node)
<1>1. PICK c \in Calls : AckStarts(c) /\ k = guard[call[c].node][call[c].slot]
  BY DEF Acknowledged
<1>2. /\ ~Busy(call[c].node) /\ k # 0 /\ For(k, call[c].node, call[c].slot)
  BY <1>1, AckOwn
<1> QED
  BY <1>1, <1>2 DEF For

\* A start is asked for when nothing else of the reservation is alive.
LEMMA SolitaryKept ==
    ASSUME StopInv, Solitary, [Next]_vars
    PROVE  Solitary'
<1> USE DEF StopInv
<1>1. ASSUME NEW k \in Containers, NEW h \in Containers,
             Alive(k)', Alive(h)', cont'[k].slot = cont'[h].slot
      PROVE  k = h
  <2>1. /\ cont[k].state # "unused" /\ cont[h].state # "unused"
        /\ cont[k].slot = cont[h].slot
        /\ Alive(k) \/ Acknowledged(k)
        /\ Alive(h) \/ Acknowledged(h)
    BY <1>1, AliveMoves
  <2>2. /\ cont[k].node \in Nodes /\ cont[k].slot \in Slots
        /\ cont[h].node = cont[k].node
    BY <2>1, SamePlace
  <2>3. CASE Alive(k) /\ Alive(h)
    BY <2>1, <2>3 DEF Solitary
  <2>4. CASE Alive(k) /\ Acknowledged(h)
    BY <2>1, <2>2, <2>4, AckHeld DEF Solitary
  <2>5. CASE Acknowledged(k) /\ Alive(h)
    BY <2>1, <2>2, <2>5, AckHeld DEF Solitary
  <2>6. CASE Acknowledged(k) /\ Acknowledged(h)
    BY <2>1, <2>2, <2>6, AckHeld
  <2> QED
    BY <2>1, <2>3, <2>4, <2>5, <2>6
<1>2. ASSUME NEW n \in Nodes, NEW r \in Slots, NEW k \in Containers,
             guard'[n][r] # 0, Alive(k)', cont'[k].slot = r
      PROVE  k = guard'[n][r]
  <2>1. /\ cont[k].state # "unused" /\ cont[k].slot = r
        /\ Alive(k) \/ Acknowledged(k)
    BY <1>2, AliveMoves
  <2>2. CASE guard'[n][r] = guard[n][r]
    <3>1. CASE Alive(k)
      BY <1>2, <2>1, <2>2, <3>1 DEF Solitary
    <3>2. CASE Acknowledged(k)
      <4>1. binding[r].node = cont[k].node
        BY <2>1, SamePlace
      <4>2. For(guard[n][r], n, r)
        BY <1>2, <2>2 DEF GuardsHeld
      <4>3. binding[r].node = n
        BY <4>2, SamePlace DEF For
      <4> QED
        BY <2>1, <2>2, <3>2, <4>1, <4>3, AckHeld
    <3> QED
      BY <2>1, <3>1, <3>2
  <2>3. ASSUME NEW c \in Calls, call[c].job = "creating", call[c].slot = r, cont' = cont
        PROVE  FALSE
    <3>1. Alive(k)
      BY <1>2, <2>3 DEF Alive
    <3> QED
      BY <2>1, <2>3, <3>1 DEF Solitary
  <2> QED
    BY <1>2, <2>2, <2>3, GuardSet
<1>3. ASSUME NEW c \in Calls, NEW k \in Containers,
             call'[c].job = "creating", cont'[k].slot = call'[c].slot, Alive(k)'
      PROVE  FALSE
  <2>1. /\ cont[k].state # "unused" /\ cont'[k].slot = cont[k].slot
        /\ Alive(k) \/ Acknowledged(k)
    BY <1>3, AliveMoves
  <2>2. \/ call'[c] = call[c] /\ call[c].job = "creating"
        \/ call'[c].slot = call[c].slot /\ PrepareCreates(c)
    BY <1>3, JobSteps DEF Working
  <2>3. cont[k].slot = call[c].slot /\ Working(c)
    <3>1. PrepareCreates(c) => call[c].job = "recorded"
      BY Zenon DEF PrepareCreates
    <3> QED
      BY <1>3, <2>1, <2>2, <3>1 DEF Working
  <2>4. cont[k].node = call[c].node
    <3>1. binding[call[c].slot] =
            [node |-> call[c].node, request |-> call[c].request]
      BY <2>3, CallFields DEF Working
    <3> QED
      BY <2>1, <2>3, <3>1, SamePlace
  <2>5. ~Acknowledged(k)
    BY <2>3, <2>4, AckHeld DEF Busy, Working
  <2>6. ~(call[c].job = "creating")
    BY <2>1, <2>3, <2>5 DEF Solitary
  <2>7. CASE PrepareCreates(c)
    <3>1. Listed(call[c].node, call[c].slot) = {}
      BY <2>7, Zenon DEF PrepareCreates
    <3>2. cont[k].state \in {"running", "created"}
      BY <2>1, <2>5 DEF Alive, StartsCreated
    <3> QED
      BY <2>3, <2>4, <3>1, <3>2 DEF Listed
  <2> QED
    BY <2>2, <2>6, <2>7
<1> QED
  BY <1>1, <1>2, <1>3 DEF Solitary

-----------------------------------------------------------------------------
(* The journal and the routes.                                               *)

\* What a step may do to the journal of r on n: a handler records its token, goes
\* on, is admitted with an acknowledgement, or stops; or the directory is lost.
JournalMove(n, r) ==
    \/ journal'[n][r] = journal[n][r]
    \/ ~Busy(n) /\ journal[n][r].state = "none" /\ journal'[n][r].state = "preparing"
    \/ /\ journal'[n][r].token = journal[n][r].token
       /\ \/ /\ journal'[n][r].state \in {"prepared", "ready"}
             /\ \E c \in Calls :
                  /\ At(c, n, r) /\ call[c].job \in {"creating", "starting"}
                  /\ call'[c].job = "none"
          \/ /\ ~Busy(n) /\ journal[n][r].state \in {"prepared", "acknowledging"}
             /\ journal'[n][r].state = "acknowledging"
          \/ /\ ~Busy(n) /\ journal[n][r].state # "stopped"
             /\ \/ journal'[n][r].state = "stopping"
                \/ /\ journal'[n][r].state = "stopped"
                   /\ routed'[n] \subseteq routed[n] \ {journal[n][r].token}
    \/ /\ lost'[n] /\ journal'[n][r] = NoJournal
       /\ \A c \in Calls : call[c].node = n => ~Working(c)'

\* stopElastic marks the journals of those it goes through, keeps their tokens, and
\* withdraws the route of each whose tombstone it writes.
LEMMA StopJournal ==
    ASSUME TypeInv, NEW n \in Nodes, NEW S \in SUBSET Slots, NEW routes,
           routes \subseteq routed[n], StopElastic(n, S, routes)
    PROVE  /\ \A m \in Nodes : m # n => journal'[m] = journal[m] /\ routed'[m] = routed[m]
           /\ routed'[n] \subseteq routed[n]
           /\ \A r \in Slots :
                \/ journal'[n][r] = journal[n][r]
                \/ /\ r \in S /\ journal'[n][r].token = journal[n][r].token
                   /\ \/ journal'[n][r].state = "stopping"
                      \/ /\ journal'[n][r].state = "stopped"
                         /\ routed'[n] \subseteq routed[n] \ {journal[n][r].token}
<1>0. journal \in [Nodes -> [Slots -> Journals]] /\ routed \in [Nodes -> SUBSET Containers]
  BY DEF TypeInv, TypeOK
<1>1. PICK Noted \in SUBSET S, Tried \in SUBSET S, Gone \in SUBSET Containers,
           Proved \in SUBSET S :
        /\ Proved \subseteq Tried
        /\ StopOutcome(n, routes, Noted, Tried, Gone, Proved)
  BY StopParts
<1>2. /\ \A m \in Nodes : m # n => journal'[m] = journal[m] /\ routed'[m] = routed[m]
      /\ routed'[n] = routes \ {journal[n][s].token : s \in Tried}
  BY <1>0, <1>1 DEF StopOutcome, RoutesLeft
<1>3. ASSUME NEW r \in Slots
      PROVE  \/ journal'[n][r] = journal[n][r]
             \/ /\ r \in S /\ journal'[n][r].token = journal[n][r].token
                /\ \/ journal'[n][r].state = "stopping"
                   \/ journal'[n][r].state = "stopped" /\ r \in Tried
  <2>1. journal[n][r] \in Journals
    BY <1>0
  <2>2. \A st, q : /\ Journaled(journal[n][r], st, q).token = journal[n][r].token
                   /\ Journaled(journal[n][r], st, q).state = st
    BY <2>1 DEF Journaled, Journals
  <2>3. journal'[n][r] =
          IF r \in Proved THEN Journaled(journal[n][r], "stopped", binding[r].request)
          ELSE IF r \in Noted THEN Journaled(journal[n][r], "stopping", binding[r].request)
          ELSE journal[n][r]
    BY <1>0, <1>1 DEF StopOutcome
  <2> QED
    BY <1>1, <2>2, <2>3
<1>4. ASSUME NEW r \in Tried PROVE routed'[n] \subseteq routed[n] \ {journal[n][r].token}
  BY <1>2
<1> QED
  BY <1>2, <1>3, <1>4

\* The entry of r on n when the state st was written to that of s on m.
Written(n, r, m, s, st) ==
    /\ n = m /\ r = s => /\ journal'[n][r].state = st
                        /\ journal'[n][r].token = journal[n][r].token
    /\ ~(n = m /\ r = s) => journal'[n][r] = journal[n][r]

\* Writing one field of a journal's entry.
LEMMA EntryWritten ==
    ASSUME TypeInv, NEW n \in Nodes, NEW r \in Slots, NEW m \in Nodes, NEW s \in Slots, NEW st,
           journal' = [journal EXCEPT ![m][s].state = st]
    PROVE  Written(n, r, m, s, st)
<1>1. journal \in [Nodes -> [Slots -> Journals]] /\ journal[n][r] \in Journals
  BY DEF TypeInv, TypeOK
<1>2. CASE n = m /\ r = s
  <2>1. journal'[n][r] = [journal[n][r] EXCEPT !.state = st]
    BY <1>1, <1>2
  <2> QED
    BY <1>1, <1>2, <2>1 DEF Journals, Written
<1>3. CASE ~(n = m /\ r = s)
  BY <1>1, <1>3 DEF Written
<1> QED
  BY <1>2, <1>3

\* Every step moves the journal of a reservation so.
LEMMA JournalMoves ==
    ASSUME StopInv, [Next]_vars, NEW n \in Nodes, NEW r \in Slots
    PROVE  JournalMove(n, r)
<1> USE DEF StopInv
<1>0. /\ journal \in [Nodes -> [Slots -> Journals]] /\ lost \in [Nodes -> BOOLEAN]
      /\ routed \in [Nodes -> SUBSET Containers]
  BY DEF TypeInv, TypeOK
<1>1. ASSUME journal' = journal PROVE JournalMove(n, r)
  BY <1>1 DEF JournalMove
<1>2. ASSUME NEW m \in Nodes, NEW S \in SUBSET Slots, NEW routes, routes \subseteq routed[m],
             StopElastic(m, S, routes), ~Busy(m),
             \A s \in S : journal[m][s].state # "stopped"
      PROVE  JournalMove(n, r)
  <2>1. CASE n = m
    BY <1>2, <2>1, StopJournal, Zenon DEF JournalMove
  <2>2. CASE n # m
    BY <1>2, <2>2, StopJournal DEF JournalMove
  <2> QED
    BY <2>1, <2>2
<1>3. ASSUME NEW c \in Calls, Handles(c) PROVE JournalMove(n, r)
  <2> DEFINE m == call[c].node
             s == call[c].slot
  <2>0. m \in Nodes /\ s \in Slots
    BY <1>3, HandlerFrame
  <2>1. ASSUME NEW k \in Containers, PrepareRecords(c, k) PROVE JournalMove(n, r)
    <3>1. /\ ~Busy(m) /\ journal[m][s].state = "none"
          /\ journal' = [journal EXCEPT ![m][s] = [state |-> "preparing", token |-> k,
                                                   request |-> call[c].request]]
      BY <2>1 DEF PrepareRecords, Admitted
    <3>2. CASE n = m /\ r = s
      BY <1>0, <2>0, <3>1, <3>2 DEF JournalMove
    <3>3. CASE ~(n = m /\ r = s)
      <4>1. journal'[n][r] = journal[n][r]
        BY <1>0, <2>0, <3>1, <3>3
      <4> QED
        BY <4>1 DEF JournalMove
    <3> QED
      BY <3>2, <3>3
  <2>2. ASSUME NEW st \in {"prepared", "ready"}, call[c].job \in {"creating", "starting"},
               \E at, k : Answer(c, at, k),
               journal' = [journal EXCEPT ![m][s].state = st]
        PROVE  JournalMove(n, r)
    <3>1. call'[c].job = "none"
      BY <2>2, AnswerEffect, NoCallFields
    <3>2. Written(n, r, m, s, st)
      BY <2>0, <2>2, EntryWritten
    <3>3. CASE n = m /\ r = s
      <4>1. /\ At(c, n, r) /\ journal'[n][r].token = journal[n][r].token
            /\ journal'[n][r].state \in {"prepared", "ready"}
        BY <2>2, <3>2, <3>3 DEF At, Written
      <4> QED
        BY <2>2, <3>1, <4>1, Zenon DEF JournalMove
    <3>4. CASE ~(n = m /\ r = s)
      BY <3>2, <3>4 DEF JournalMove, Written
    <3> QED
      BY <3>3, <3>4
  <2>3. ASSUME PrepareCreated(c) PROVE JournalMove(n, r)
    <3>1. /\ call[c].job = "creating" /\ \E at, k : Answer(c, at, k)
          /\ journal' = journal \/ journal' = [journal EXCEPT ![m][s].state = "prepared"]
      BY <2>3, Zenon DEF PrepareCreated
    <3> QED
      BY <1>1, <2>2, <3>1
  <2>4. ASSUME AckStarted(c) PROVE JournalMove(n, r)
    <3>1. /\ call[c].job = "starting" /\ \E at, k : Answer(c, at, k)
          /\ journal' = journal \/ journal' = [journal EXCEPT ![m][s].state = "ready"]
      BY <2>4, Zenon DEF AckStarted
    <3> QED
      BY <1>1, <2>2, <3>1
  <2>5. ASSUME AckStarts(c) PROVE JournalMove(n, r)
    <3>1. /\ ~Busy(m) /\ journal[m][s].state \in {"prepared", "acknowledging"}
          /\ journal' = [journal EXCEPT ![m][s].state = "acknowledging"]
      BY <2>5, Zenon DEF AckStarts, Admitted
    <3>2. Written(n, r, m, s, "acknowledging")
      BY <2>0, <3>1, EntryWritten, Zenon
    <3>3. CASE n = m /\ r = s
      BY <3>1, <3>2, <3>3, Zenon DEF JournalMove, Written
    <3>4. CASE ~(n = m /\ r = s)
      BY <3>2, <3>4 DEF JournalMove, Written
    <3> QED
      BY <3>3, <3>4
  <2>6. ASSUME StopRuns(c) PROVE JournalMove(n, r)
    <3>1. /\ ~Busy(m)
          /\ StopElastic(m, IF journal[m][s].state = "stopped" THEN {} ELSE {s}, routed[m])
      BY <2>6 DEF StopRuns, Admitted
    <3> QED
      BY <1>2, <2>0, <3>1
  <2>7. ASSUME \/ HandlerRefuses(c) \/ PrepareReplays(c) \/ PrepareCreates(c)
               \/ PrepareFails(c) \/ AckReplays(c) \/ AckFails(c)
        PROVE  journal' = journal
    BY <2>7, ZenonT(30)
       DEF HandlerRefuses, PrepareReplays, PrepareCreates, PrepareFails, AckReplays, AckFails,
           workerVars
  <2> QED
    BY <1>1, <1>3, <2>1, <2>3, <2>4, <2>5, <2>6, <2>7 DEF Handles
<1>4. ASSUME NEW m \in Nodes, Fence(m) PROVE JournalMove(n, r)
  <2>1. /\ ~Busy(m) /\ StopElastic(m, Unfinished(m), {})
        /\ Unfinished(m) \in SUBSET Slots
        /\ \A s \in Unfinished(m) : journal[m][s].state # "stopped"
    BY <1>4 DEF Fence, Unfinished
  <2> QED
    BY <1>2, <2>1
<1>5. ASSUME NEW m \in Nodes, NEW loses \in BOOLEAN, WorkerRestarts(m, loses)
      PROVE  JournalMove(n, r)
  <2>1. CASE n = m /\ loses
    <3>1. lost'[n] /\ journal'[n][r] = NoJournal
      BY <1>0, <1>5, <2>1 DEF WorkerRestarts
    <3>2. ASSUME NEW c \in Calls, call[c].node = n PROVE ~Working(c)'
      <4>1. call'[c] = IF call[c].node = m /\ call[c].job # "none" THEN NoCall ELSE call[c]
        BY <1>5, <2>1, <3>2, Zenon DEF WorkerRestarts
      <4> QED
        BY <2>1, <3>2, <4>1, NoCallFields DEF Working
    <3> QED
      BY <3>1, <3>2 DEF JournalMove
  <2>2. CASE ~(n = m /\ loses)
    <3>1. journal'[n] = journal[n]
      BY <1>0, <1>5, <2>2 DEF WorkerRestarts
    <3> QED
      BY <3>1 DEF JournalMove
  <2> QED
    BY <2>1, <2>2
<1>6. ASSUME NEW m \in Nodes, NEW k \in Containers, RouteWithdrawn(m, k)
      PROVE  journal' = journal
  BY <1>6 DEF RouteWithdrawn
<1>7. CASE \E m \in Nodes : Machine(m)
  BY <1>1, <1>4, <1>5, <1>6, <1>7 DEF Machine
<1>8. CASE \E c \in Calls : Coordinates(c) \/ Handles(c)
  BY <1>1, <1>3, <1>8, CoordinatorFrame
<1>9. CASE Outside \/ \E k \in Containers : Daemon(k)
  BY <1>1, <1>9, OutsideFrame, DaemonFrame
<1> QED
  BY <1>7, <1>8, <1>9 DEF Next, Outside

\* A directory that was lost stays lost; a route is added for the container whose
\* start a handler has waited for.
LEMMA RouteMoves ==
    ASSUME StopInv, [Next]_vars, NEW n \in Nodes
    PROVE  /\ lost[n] => lost'[n]
           /\ \/ routed'[n] \subseteq routed[n]
              \/ \E c \in Calls :
                   /\ call[c].job = "starting" /\ call[c].node = n /\ call[c].slot \in Slots
                   /\ guard[n][call[c].slot] # 0
                   /\ routed'[n] \subseteq routed[n] \cup {guard[n][call[c].slot]}
<1> USE DEF StopInv
<1>0. lost \in [Nodes -> BOOLEAN] /\ routed \in [Nodes -> SUBSET Containers]
  BY DEF TypeInv, TypeOK
<1> DEFINE Goal == /\ lost[n] => lost'[n]
                   /\ routed'[n] \subseteq routed[n]
<1>1. ASSUME UNCHANGED <<routed, lost>> PROVE Goal
  BY <1>1
<1>2. ASSUME NEW m \in Nodes, NEW S \in SUBSET Slots, NEW routes, routes \subseteq routed[m],
             StopElastic(m, S, routes), lost' = lost
      PROVE  Goal
  <2>1. CASE n = m
    BY <1>2, <2>1, StopJournal
  <2>2. CASE n # m
    BY <1>2, <2>2, StopJournal
  <2> QED
    BY <2>1, <2>2
<1>3. ASSUME NEW c \in Calls, Handles(c), ~AckStarted(c) PROVE Goal
  <2>1. ASSUME StopRuns(c) PROVE Goal
    <3>1. call[c].node \in Nodes /\ call[c].slot \in Slots
      BY <1>3, HandlerFrame
    <3>2. /\ lost' = lost
          /\ StopElastic(call[c].node,
               IF journal[call[c].node][call[c].slot].state = "stopped" THEN {}
               ELSE {call[c].slot}, routed[call[c].node])
      BY <2>1 DEF StopRuns
    <3> QED
      BY <1>2, <3>1, <3>2
  <2>2. ASSUME ~StopRuns(c) PROVE UNCHANGED <<routed, lost>>
    BY <1>3, <2>2, Zenon
       DEF Handles, HandlerRefuses, PrepareReplays, PrepareRecords, PrepareCreates, PrepareCreated,
           PrepareFails, AckReplays, AckStarts, AckFails, workerVars
  <2> QED
    BY <1>1, <2>1, <2>2
<1>4. ASSUME NEW c \in Calls, AckStarted(c)
      PROVE  /\ lost' = lost
             /\ call[c].job = "starting" /\ call[c].node \in Nodes /\ call[c].slot \in Slots
             /\ guard[call[c].node][call[c].slot] # 0
             /\ \/ routed' = routed
                \/ routed' = [routed EXCEPT ![call[c].node] =
                                @ \cup {guard[call[c].node][call[c].slot]}]
  <2>1. call[c].job = "starting" /\ lost' = lost
    BY <1>4 DEF AckStarted
  <2>2. call[c].node \in Nodes /\ call[c].slot \in Slots
    BY <2>1, CallFields
  <2>3. guard[call[c].node][call[c].slot] # 0
    BY <2>1 DEF GuardInHand
  <2>4. \/ routed' = routed
        \/ routed' = [routed EXCEPT ![call[c].node] =
                        @ \cup {guard[call[c].node][call[c].slot]}]
    BY <1>4, Zenon DEF AckStarted
  <2> QED
    BY <2>1, <2>2, <2>3, <2>4
<1>5. ASSUME NEW m \in Nodes, Machine(m) PROVE Goal
  <2>1. ASSUME Fence(m) PROVE Goal
    <3>1. StopElastic(m, Unfinished(m), {}) /\ Unfinished(m) \in SUBSET Slots /\ lost' = lost
      BY <2>1 DEF Fence, Unfinished
    <3> QED
      BY <1>2, <3>1
  <2>2. ASSUME NEW k \in Containers, RouteWithdrawn(m, k) PROVE Goal
    BY <1>0, <2>2 DEF RouteWithdrawn
  <2>3. ASSUME NEW loses \in BOOLEAN, WorkerRestarts(m, loses) PROVE Goal
    <3>1. lost[n] => lost'[n]
      BY <1>0, <2>3, Zenon DEF WorkerRestarts
    <3>2. routed'[n] \subseteq routed[n]
      BY <1>0, <2>3 DEF WorkerRestarts
    <3> QED
      BY <3>1, <3>2
  <2> QED
    BY <1>5, <2>1, <2>2, <2>3 DEF Machine
<1>6. ASSUME Outside \/ (\E k \in Containers : Daemon(k)) \/ (\E c \in Calls : Coordinates(c))
      PROVE  UNCHANGED <<routed, lost>>
  <2>1. ASSUME NEW c \in Calls, Coordinates(c) PROVE UNCHANGED <<routed, lost>>
    <3>1. ASSUME NEW i, NEW r, NEW m, NEW q, Launch(c, i, r, m, q) \/ Stop(c, i, r, m, q)
          PROVE  UNCHANGED <<routed, lost>>
      BY <3>1 DEF Launch, Stop, workerVars
    <3>2. ASSUME LaunchAcks(c) \/ LaunchAdvances(c) \/ StopConfirms(c) \/ CallerGivesUp(c)
          PROVE  UNCHANGED <<routed, lost>>
      BY <3>2 DEF LaunchAcks, LaunchAdvances, StopConfirms, CallerGivesUp, workerVars
    <3> QED
      BY <2>1, <3>1, <3>2 DEF Coordinates
  <2> QED
    BY <1>6, <2>1, Zenon
       DEF Outside, LeaseMoves, AppChanges, ReserveElasticSession, AdvanceLaunching, vars,
           workerVars, Daemon, DaemonCreates, DaemonStarts, ContainerExits, ContainerRemoved
<1>7. ASSUME NEW c \in Calls, AckStarted(c)
      PROVE  /\ lost' = lost
             /\ \/ routed'[n] \subseteq routed[n]
                \/ /\ call[c].job = "starting" /\ call[c].node = n /\ call[c].slot \in Slots
                   /\ guard[n][call[c].slot] # 0
                   /\ routed'[n] \subseteq routed[n] \cup {guard[n][call[c].slot]}
  <2>1. CASE call[c].node = n
    BY <1>0, <1>4, <1>7, <2>1
  <2>2. CASE call[c].node # n
    BY <1>0, <1>4, <1>7, <2>2
  <2> QED
    BY <2>1, <2>2
<1>8. CASE \E c \in Calls : Handles(c)
  BY <1>3, <1>7, <1>8
<1> QED
  BY <1>1, <1>5, <1>6, <1>8 DEF Next, Outside

\* The journal of a machine that keeps it names the container of a reservation.
LEMMA NamedKept ==
    ASSUME StopInv, Named, [Next]_vars
    PROVE  Named'
<1>1. ASSUME NEW n \in Nodes, NEW r \in Slots, journal'[n][r].state = "none"
      PROVE  journal'[n][r].token = 0
  <2>1. journal'[n][r] = journal[n][r] \/ journal'[n][r] = NoJournal
    BY <1>1, JournalMoves DEF JournalMove
  <2> QED
    BY <1>1, <2>1 DEF Named, NoJournal
<1>2. ASSUME NEW k \in Containers, cont'[k].state # "unused", ~lost'[cont'[k].node]
      PROVE  journal'[cont'[k].node][cont'[k].slot].token = k
  <2>1. CASE cont[k].state # "unused"
    <3> DEFINE n == cont[k].node
               r == cont[k].slot
    <3>1. cont'[k].node = n /\ cont'[k].slot = r
      BY <2>1, ContsKept DEF For
    <3>2. n \in Nodes /\ r \in Slots
      BY <2>1, SamePlace
    <3>3. ~lost'[n] /\ ~lost[n]
      BY <1>2, <3>1, <3>2, RouteMoves
    <3>4. journal[n][r].token = k /\ k # 0
      BY <2>1, <3>3, ElasticAssumption DEF Named
    <3>5. journal[n][r].state # "none"
      BY <3>2, <3>4 DEF Named
    <3>6. journal'[n][r].token = journal[n][r].token
      BY <3>2, <3>3, <3>5, JournalMoves DEF JournalMove
    <3> QED
      BY <3>1, <3>4, <3>6
  <2>2. CASE cont[k].state = "unused"
    <3>1. ContMove(k)
      BY StepMoves
    <3>2. PICK n \in Nodes, r \in Slots :
            /\ journal'[n][r].token = k
            /\ cont'[k] = [NoCont EXCEPT !.state = "token", !.slot = r, !.node = n]
      <4>1. cont[k] = NoCont
        BY <2>2 DEF StopInv, ContsBound
      <4> QED
        BY <1>2, <2>2, <3>1, <4>1, Zenon DEF ContMove
    <3>3. cont'[k].slot = r /\ cont'[k].node = n
      BY <3>2 DEF NoCont
    <3> QED
      BY <3>2, <3>3
  <2> QED
    BY <2>1, <2>2
<1> QED
  BY <1>1, <1>2 DEF Named

\* A handler at work is the only one of its machine.
LEMMA WorkersBusy ==
    ASSUME StopInv, NEW c \in Calls, Working(c)
    PROVE  /\ call[c].node \in Nodes /\ call[c].slot \in Slots /\ Busy(call[c].node)
           /\ \A d \in Calls : call[d].node = call[c].node /\ Working(d) => d = c
<1>1. call[c].node \in Nodes /\ call[c].slot \in Slots
  BY CallFields DEF StopInv, Working
<1>2. Busy(call[c].node)
  BY DEF Busy, Working
<1> QED
  BY <1>1, <1>2 DEF StopInv, OneHandler, At

\* The journal follows the handler.
LEMMA JobsNotedKept ==
    ASSUME StopInv, JobsNoted, [Next]_vars
    PROVE  JobsNoted'
<1> SUFFICES ASSUME NEW c \in Calls, Working(c)' PROVE JobNoted(c)'
  BY DEF JobsNoted, JobNoted, Working
<1> DEFINE n == call[c].node
           r == call[c].slot
<1>1. CASE call'[c] = call[c]
  <2>1. Working(c)
    BY <1>1 DEF Working
  <2>2. n \in Nodes /\ r \in Slots /\ Busy(n)
    BY <2>1, WorkersBusy
  <2>3. \A d \in Calls : At(d, n, r) /\ Working(d) => call'[d].job # "none"
    <3>1. \A d \in Calls : call[d].node = n /\ Working(d) => d = c
      BY <2>1, WorkersBusy
    <3> QED
      BY <1>1, <2>1, <3>1, Zenon DEF At, Working
  <2>4. \A d \in Calls : call[d].job \in {"creating", "starting"} => Working(d)
    BY DEF Working
  <2>5. JournalMove(n, r)
    BY <2>2, JournalMoves
  <2>6. journal'[n][r] = journal[n][r]
    BY <2>1, <2>2, <2>3, <2>4, <2>5, Zenon DEF JournalMove
  <2> QED
    BY <1>1, <2>6 DEF JobsNoted, JobNoted
<1>2. ASSUME call'[c].node = n, call'[c].slot = r, n \in Nodes, r \in Slots,
             call'[c].job = "recorded", NEW k \in Containers, PrepareRecords(c, k)
      PROVE  JobNoted(c)'
  <2>1. journal'[n][r].state = "preparing"
    BY <1>2 DEF PrepareRecords, StopInv, TypeInv, TypeOK
  <2> QED
    BY <1>2, <2>1 DEF JobNoted
<1>3. ASSUME call'[c].node = n, call'[c].slot = r, n \in Nodes, r \in Slots,
             call'[c].job = "creating", PrepareCreates(c)
      PROVE  JobNoted(c)'
  <2>1. journal' = journal /\ call[c].job = "recorded"
    BY <1>3, Zenon DEF PrepareCreates, workerVars
  <2> QED
    BY <1>3, <2>1 DEF JobsNoted, JobNoted
<1>4. ASSUME call'[c].node = n, call'[c].slot = r, n \in Nodes, r \in Slots,
             call'[c].job = "starting", AckStarts(c)
      PROVE  JobNoted(c)'
  <2>1. journal' = [journal EXCEPT ![n][r].state = "acknowledging"]
    BY <1>4, Zenon DEF AckStarts
  <2>2. journal'[n][r].state = "acknowledging"
    BY <1>4, <2>1 DEF StopInv, TypeInv, TypeOK
  <2> QED
    BY <1>4, <2>2 DEF JobNoted
<1> QED
  BY <1>1, <1>2, <1>3, <1>4, JobSteps

\* What is buried stays buried.
LEMMA BuriedStays ==
    ASSUME StopInv, JobsNoted, [Next]_vars, NEW n \in Nodes, NEW r \in Slots, Buried(n, r)
    PROVE  Buried(n, r)'
<1>1. CASE lost[n]
  BY <1>1, RouteMoves DEF Buried
<1>2. CASE journal[n][r].state = "stopped"
  <2>1. \A c \in Calls : At(c, n, r) => call[c].job \notin {"creating", "starting"}
    BY <1>2 DEF JobsNoted, JobNoted, At
  <2>2. journal'[n][r] = journal[n][r] \/ lost'[n]
    BY <1>2, <2>1, JournalMoves DEF JournalMove
  <2> QED
    BY <1>2, <2>2 DEF Buried
<1> QED
  BY <1>1, <1>2 DEF Buried

\* A route goes with the tombstone of its reservation.
LEMMA RoutesLeadKept ==
    ASSUME StopInv, Named, JobsNoted, RoutesLead, [Next]_vars
    PROVE  RoutesLead'
<1> SUFFICES ASSUME NEW n \in Nodes, NEW k \in routed'[n]
             PROVE  /\ cont'[k].state # "unused" /\ cont'[k].node = n
                    /\ lost'[n] \/ journal'[n][cont'[k].slot].state # "stopped"
  BY DEF RoutesLead
<1> DEFINE r == cont[k].slot
<1>1. \/ k \in routed[n]
      \/ \E c \in Calls :
           /\ call[c].job = "starting" /\ call[c].node = n /\ call[c].slot \in Slots
           /\ guard[n][call[c].slot] # 0 /\ k = guard[n][call[c].slot]
  BY RouteMoves
<1>2. CASE k \in routed[n]
  <2>1. k \in Containers
    BY <1>2 DEF StopInv, TypeInv, TypeOK
  <2>2. /\ cont[k].state # "unused" /\ cont[k].node = n
        /\ lost[n] \/ journal[n][r].state # "stopped"
    BY <1>2 DEF RoutesLead
  <2>3. cont'[k].state # "unused" /\ cont'[k].node = n /\ cont'[k].slot = r /\ r \in Slots
    BY <2>1, <2>2, ContsKept, SamePlace DEF For
  <2>4. ASSUME ~lost'[n] PROVE journal'[n][r].state # "stopped"
    <3>1. ~lost[n]
      BY <2>4, RouteMoves
    <3>2. journal[n][r].token = k
      BY <2>1, <2>2, <3>1 DEF Named
    <3>3. ~(routed'[n] \subseteq routed[n] \ {journal[n][r].token})
      BY <3>2
    <3> QED
      BY <2>2, <2>3, <2>4, <3>1, <3>3, JournalMoves DEF JournalMove
  <2> QED
    BY <2>3, <2>4
<1>3. ASSUME NEW c \in Calls, call[c].job = "starting", call[c].node = n,
             call[c].slot \in Slots, guard[n][call[c].slot] # 0,
             k = guard[n][call[c].slot]
      PROVE  /\ cont'[k].state # "unused" /\ cont'[k].node = n
             /\ lost'[n] \/ journal'[n][cont'[k].slot].state # "stopped"
  <2>1. For(k, n, call[c].slot)
    BY <1>3 DEF StopInv, GuardsHeld
  <2>2. cont'[k].state # "unused" /\ cont'[k].node = n /\ cont'[k].slot = call[c].slot
    BY <2>1, ContsKept DEF For
  <2>3. journal[n][call[c].slot].state = "acknowledging"
    BY <1>3 DEF JobsNoted, JobNoted
  <2>4. Busy(n)
    BY <1>3 DEF Busy
  <2>5. lost'[n] \/ journal'[n][call[c].slot].state # "stopped"
    BY <1>3, <2>3, <2>4, JournalMoves DEF JournalMove
  <2> QED
    BY <2>2, <2>5
<1> QED
  BY <1>1, <1>2, <1>3

\* A confirmation, and the row it stops, have a tombstone behind them.
LEMMA ConfirmedKept ==
    ASSUME StopInv, JobsNoted, Confirmed, [Next]_vars
    PROVE  Confirmed'
<1>1. StopInv'
  BY StopInvStep
<1>2. ASSUME NEW c \in Calls, call'[c].at = "confirm"
      PROVE  Buried(call[c].node, call[c].slot)'
  <2> DEFINE n == call[c].node
             r == call[c].slot
  <2>1. call[c].at # "idle" /\ call'[c].slot = r
    BY <1>2, ConfirmMoves
  <2>2. n \in Nodes /\ r \in Slots /\ binding[r] = [node |-> n, request |-> call[c].request]
    BY <2>1, CallFields DEF StopInv
  <2>3. call'[c].node = n
    <3>1. binding[r] # NoBinding
      BY <2>2, ElasticAssumption DEF NoBinding
    <3>2. binding'[r] = binding[r]
      BY <2>2, <3>1, BindingStays
    <3>3. CallsBound'
      BY <1>1 DEF StopInv, TypeInv
    <3>4. binding'[r].node = call'[c].node
      <4>1. call'[c].at # "idle"
        BY <1>2
      <4>2. binding'[call'[c].slot] =
              [node |-> call'[c].node, request |-> call'[c].request]
        BY <3>3, <4>1, Zenon DEF CallsBound
      <4> QED
        BY <2>1, <4>2
    <3> QED
      BY <2>2, <3>2, <3>4
  <2>4. ASSUME call[c].at = "confirm" PROVE lost'[n] \/ journal'[n][r].state = "stopped"
    <3>1. Buried(n, r)
      BY <2>4 DEF Confirmed
    <3> QED
      BY <2>2, <3>1, BuriedStays DEF Buried
  <2>5. lost'[n] \/ journal'[n][r].state = "stopped"
    BY <1>2, <2>4, ConfirmMoves
  <2> QED
    BY <2>1, <2>3, <2>5 DEF Buried
<1>3. ASSUME NEW r \in Slots, row'[r].state = "stopped"
      PROVE  binding'[r].node \in Nodes /\ Buried(binding[r].node, r)'
  <2>1. row[r].state \in {"stopping", "stopped"} /\ binding[r].node \in Nodes
        /\ Buried(binding[r].node, r)
    <3>1. CASE row[r].state = "stopped"
      BY <3>1 DEF Confirmed
    <3>2. ASSUME NEW c \in Calls, call[c].at = "confirm", call[c].slot = r
          PROVE  row[r].state \in {"stopping", "stopped"} /\ binding[r].node \in Nodes
                 /\ Buried(binding[r].node, r)
      <4>1. call[c].node \in Nodes
            /\ binding[r] = [node |-> call[c].node, request |-> call[c].request]
        BY <3>2, CallFields DEF StopInv
      <4>2. row[r].state \in {"stopping", "stopped"}
        BY <3>2 DEF StopInv, ConfirmsProved
      <4> QED
        BY <3>2, <4>1, <4>2 DEF Confirmed
    <3> QED
      BY <1>3, <3>1, <3>2, RowMoves
  <2>2. binding'[r] = binding[r]
    BY <2>1, BindingStays
  <2>3. lost'[binding[r].node] \/ journal'[binding[r].node][r].state = "stopped"
    BY <2>1, BuriedStays DEF Buried
  <2> QED
    BY <2>1, <2>2, <2>3 DEF Buried
<1> QED
  BY <1>2, <1>3 DEF Confirmed

-----------------------------------------------------------------------------
(* Rows, and the theorems.                                                   *)

\* The state of a row: it is taken for capacity, goes on, or is given back by a
\* confirmation; no container moves with it.
RowStep(r) ==
    \/ row[r].state = "none" /\ row'[r].state = "reserved"
       /\ Cardinality(Unreleased) < MaxWorkers
    \/ row[r].state \notin {"none", "stopped"} /\ row'[r].state \notin {"none", "stopped"}
    \/ row[r].state \in {"stopping", "stopped"} /\ row'[r].state = "stopped"
       /\ \E c \in Calls : call[c].at = "confirm" /\ call[c].slot = r

\* Writing one field of a row's record.
LEMMA RowWritten ==
    ASSUME TypeInv, NEW r \in Slots, NEW st, row' = [row EXCEPT ![r].state = st]
    PROVE  row'[r].state = st /\ \A s \in Slots \ {r} : row'[s] = row[s]
<1>1. row \in [Slots -> Rows] /\ row[r] \in Rows
  BY DEF TypeInv, TypeOK
<1>2. row'[r] = [row[r] EXCEPT !.state = st] /\ \A s \in Slots \ {r} : row'[s] = row[s]
  BY <1>1
<1> QED
  BY <1>1, <1>2 DEF Rows

\* Every step moves one row so, or none.
LEMMA RowSteps ==
    ASSUME StopInv, [Next]_vars
    PROVE  \/ row' = row
           \/ /\ cont' = cont
              /\ \E r \in Slots : RowStep(r) /\ \A s \in Slots \ {r} : row'[s] = row[s]
<1> DEFINE Goal == \/ row' = row
                   \/ /\ cont' = cont
                      /\ \E r \in Slots : RowStep(r) /\ \A s \in Slots \ {r} : row'[s] = row[s]
<1> USE DEF StopInv
<1>0. row \in [Slots -> Rows]
  BY DEF TypeInv, TypeOK
<1>1. ASSUME NEW i \in Instances, NEW client \in Clients, NEW r \in Slots,
             ReserveElasticSession(i, client, r)
      PROVE  Goal
  <2>1. /\ cont' = cont /\ row[r].state = "none" /\ Cardinality(Unreleased) < MaxWorkers
        /\ \E p : p.state = "reserved" /\ row' = [row EXCEPT ![r] = p]
    BY <1>1 DEF ReserveElasticSession
  <2>2. row'[r].state = "reserved" /\ \A s \in Slots \ {r} : row'[s] = row[s]
    BY <1>0, <2>1
  <2> QED
    BY <2>1, <2>2 DEF RowStep
<1>2. ASSUME NEW i \in Instances, NEW r \in Slots, AdvanceLaunching(i, r) PROVE Goal
  <2>1. /\ cont' = cont /\ row[r].state = "reserved"
        /\ row' = [row EXCEPT ![r].state = "launching"]
    BY <1>2 DEF AdvanceLaunching
  <2>2. row'[r].state = "launching" /\ \A s \in Slots \ {r} : row'[s] = row[s]
    BY <2>1, RowWritten
  <2> QED
    BY <2>1, <2>2 DEF RowStep
<1>3. ASSUME NEW c \in Calls, NEW i \in Instances, NEW r \in Slots, NEW n \in Nodes,
             NEW q \in Requests, Launch(c, i, r, n, q)
      PROVE  Goal
  <2>1. /\ cont' = cont /\ row[r].state \in {"reserved", "launching", "ready"}
        /\ \E st \in {"launching", "ready"} : row' = [row EXCEPT ![r].state = st]
    BY <1>3 DEF Launch, Bindable, workerVars
  <2>2. row'[r].state \in {"launching", "ready"} /\ \A s \in Slots \ {r} : row'[s] = row[s]
    BY <2>1, RowWritten
  <2> QED
    BY <2>1, <2>2 DEF RowStep
<1>4. ASSUME NEW c \in Calls, NEW i \in Instances, NEW r \in Slots, NEW n \in Nodes,
             NEW q \in Requests, Stop(c, i, r, n, q)
      PROVE  Goal
  <2>1. /\ cont' = cont /\ row[r].state # "none"
        /\ \/ row' = row
           \/ row[r].state # "stopped"
              /\ row' = [row EXCEPT ![r].state = "stopping", ![r].owner = i,
                                    ![r].epoch = leaseEpoch]
    BY <1>4 DEF Stop, workerVars
  <2>2. CASE row' = row
    BY <2>2
  <2>3. ASSUME row[r].state # "stopped",
               row' = [row EXCEPT ![r].state = "stopping", ![r].owner = i,
                                  ![r].epoch = leaseEpoch]
        PROVE  Goal
    <3>1. row[r] \in Rows
      BY <1>0
    <3>2. row'[r].state = "stopping" /\ \A s \in Slots \ {r} : row'[s] = row[s]
      BY <1>0, <2>3, <3>1 DEF Rows
    <3> QED
      BY <2>1, <2>3, <3>2 DEF RowStep
  <2> QED
    BY <2>1, <2>2, <2>3
<1>5. ASSUME NEW c \in Calls, LaunchAdvances(c) PROVE Goal
  <2> DEFINE r == call[c].slot
  <2>1. /\ cont' = cont /\ call[c].at = "acked" /\ row[r].state \in {"launching", "ready"}
        /\ row' = [row EXCEPT ![r].state = "ready"]
    BY <1>5 DEF LaunchAdvances, workerVars
  <2>2. r \in Slots
    BY <2>1, CallFields
  <2>3. row'[r].state = "ready" /\ \A s \in Slots \ {r} : row'[s] = row[s]
    BY <2>1, <2>2, RowWritten
  <2> QED
    BY <2>1, <2>2, <2>3 DEF RowStep
<1>6. ASSUME NEW c \in Calls, StopConfirms(c) PROVE Goal
  <2> DEFINE r == call[c].slot
  <2>1. /\ cont' = cont /\ call[c].at = "confirm" /\ row[r].state \in {"stopping", "stopped"}
        /\ row' = [row EXCEPT ![r].state = "stopped"]
    BY <1>6 DEF StopConfirms, workerVars
  <2>2. r \in Slots
    BY <2>1, CallFields
  <2>3. row'[r].state = "stopped" /\ \A s \in Slots \ {r} : row'[s] = row[s]
    BY <2>1, <2>2, RowWritten
  <2> QED
    BY <2>1, <2>2, <2>3 DEF RowStep
<1>7. ASSUME NEW c \in Calls, LaunchAcks(c) \/ CallerGivesUp(c) PROVE row' = row
  BY <1>7 DEF LaunchAcks, CallerGivesUp, storeVars
<1>8. ASSUME NEW c \in Calls, Coordinates(c) PROVE Goal
  BY <1>3, <1>4, <1>5, <1>6, <1>7, <1>8 DEF Coordinates
<1>9. ASSUME NEW c \in Calls, Handles(c) PROVE row' = row
  BY <1>9, Zenon
     DEF Handles, HandlerRefuses, PrepareReplays, PrepareRecords, PrepareCreates, PrepareCreated,
         PrepareFails, AckReplays, AckStarts, AckStarted, AckFails, StopRuns, storeVars
<1>10. ASSUME LeaseMoves \/ (\E d \in 0 .. MaxDeploy : AppChanges(d)) \/ UNCHANGED vars
       PROVE  row' = row
  BY <1>10 DEF LeaseMoves, AppChanges, vars, storeVars
<1> QED
  BY <1>1, <1>2, <1>8, <1>9, <1>10, MachineFrame, DaemonFrame DEF Next

\* What is bound was reserved.
LEMMA PristineKept ==
    ASSUME StopInv, Pristine, [Next]_vars
    PROVE  Pristine'
<1> SUFFICES ASSUME NEW r \in Slots, row'[r].state = "none" PROVE binding'[r] = NoBinding
  BY DEF Pristine
<1>1. row[r].state = "none"
  BY RowSteps DEF RowStep
<1>2. binding'[r] = binding[r]
  BY <1>1, BindingStays
<1> QED
  BY <1>1, <1>2 DEF Pristine

\* The invariant holds at the start, and every step keeps it.
LEMMA AloneInvInit == ASSUME Init PROVE AloneInv
<1>1. StopInv
  BY StopInvInit
<1>2. \A c \in Calls : call[c] = NoCall
  BY DEF Init
<1>3. \A k \in Containers : cont[k] = NoCont
  BY DEF Init
<1>4. /\ \A n \in Nodes, r \in Slots : guard[n][r] = 0 /\ journal[n][r] = NoJournal
      /\ \A n \in Nodes : routed[n] = {}
      /\ \A r \in Slots : row[r] = NoRow /\ binding[r] = NoBinding
  BY DEF Init
<1>5. NoCont.state = "unused" /\ ~NoCont.startAsked
  BY DEF NoCont
<1>6. \A k \in Containers : ~Alive(k)
  BY <1>3, <1>5 DEF Alive
<1>7. Solitary
  BY <1>4, <1>6 DEF Solitary
<1>8. Named /\ RoutesLead
  BY <1>3, <1>4, <1>5 DEF Named, RoutesLead, NoJournal
<1>9. JobsNoted
  BY <1>2, NoCallFields DEF JobsNoted, JobNoted
<1>10. Confirmed /\ Pristine
  BY <1>2, <1>4, NoCallFields DEF Confirmed, Pristine, NoRow
<1> QED
  BY <1>1, <1>7, <1>8, <1>9, <1>10 DEF AloneInv

\* ... a step of the store, a coordinator, a worker or the daemon.
LEMMA AloneInvStep == ASSUME AloneInv, [Next]_vars PROVE AloneInv'
BY StopInvStep, SolitaryKept, NamedKept, JobsNotedKept, RoutesLeadKept, ConfirmedKept,
   PristineKept
   DEF AloneInv

\* A reservation has one worker, on one machine or on two, even if a machine has
\* lost its journal and the daemon is late; and once it is stopped, no data route of a
\* machine that has its journal leads to a container of it.
THEOREM WorkersRunAlone == Spec => []RunsAlone
<1>1. ASSUME AloneInv PROVE RunsAlone
  <2>1. ASSUME NEW r \in Slots, NEW k \in Running(r), NEW h \in Running(r) PROVE k = h
    BY <1>1 DEF AloneInv, Solitary, Running, Of, Alive
  <2>2. ASSUME NEW r \in Slots, row[r].state = "stopped", NEW n \in Nodes, ~lost[n],
               NEW k \in routed[n], k \in Of(r)
        PROVE  FALSE
    <3>1. k \in Containers /\ cont[k].slot = r /\ cont[k].state # "unused"
      BY <2>2 DEF Of
    <3>2. cont[k].node = n /\ journal[n][r].state # "stopped"
      BY <1>1, <2>2, <3>1 DEF AloneInv, RoutesLead
    <3>3. binding[r].node = n
      BY <1>1, <3>1, <3>2, SamePlace DEF AloneInv
    <3> QED
      BY <1>1, <2>2, <3>2, <3>3 DEF AloneInv, Confirmed, Buried
  <2> QED
    BY <2>1, <2>2 DEF RunsAlone
<1> QED
  BY <1>1, AloneInvInit, AloneInvStep, PTL DEF Spec

\* "Retries cannot move a launch": as long as no machine has lost its journal, the
\* app's command is executed in one container of a reservation at most, through
\* retries, restarts of the worker and answers that were lost.
THEOREM LaunchesExecuteOnce == Spec => []ExecutesOnce
<1>1. ASSUME AloneInv PROVE ExecutesOnce
  <2> SUFFICES ASSUME \A n \in Nodes : ~lost[n], NEW r \in Slots,
                      NEW k \in Of(r), NEW h \in Of(r)
               PROVE  k = h
    BY DEF ExecutesOnce
  <2>1. /\ k \in Containers /\ cont[k].state # "unused" /\ cont[k].slot = r
        /\ h \in Containers /\ cont[h].state # "unused" /\ cont[h].slot = r
    BY DEF Of
  <2>2. cont[k].node = cont[h].node /\ cont[k].node \in Nodes
    BY <1>1, <2>1, SamePlace DEF AloneInv
  <2> QED
    BY <1>1, <2>1, <2>2 DEF AloneInv, Named
<1> QED
  BY <1>1, AloneInvInit, AloneInvStep, PTL DEF Spec

-----------------------------------------------------------------------------
(* The launches implement WorkerSlots.                                       *)

\* No container comes to run by the step.
NoneStarts == \A h \in Containers : cont'[h].state = "running" => cont[h].state = "running"

\* Writing one container, which does not run for it.
LEMMA OneStays ==
    ASSUME TypeInv, NEW k, NEW p, cont' = [cont EXCEPT ![k] = p],
           p.state = "running" => cont[k].state = "running"
    PROVE  NoneStarts
BY DEF NoneStarts, TypeInv, TypeOK

\* stopElastic removes containers and starts none.
LEMMA StopStartsNone ==
    ASSUME TypeInv, NEW n, NEW S, NEW routes, StopElastic(n, S, routes)
    PROVE  NoneStarts
<1>1. PICK Noted, Tried, Gone, Proved : StopOutcome(n, routes, Noted, Tried, Gone, Proved)
  BY StopParts
<1>2. \A k \in Containers : cont'[k] = cont[k] \/ cont'[k] = Removed(k)
  BY <1>1, Zenon DEF StopOutcome
<1>3. \A k \in Containers : Removed(k).state = "gone"
  BY DEF Removed, TypeInv, TypeOK, ContainerRecords
<1> QED
  BY <1>2, <1>3 DEF NoneStarts

\* A handler asks for a start; the container runs when the daemon gets to it.
LEMMA HandlersStartNone ==
    ASSUME TypeInv, NEW c \in Calls, Handles(c)
    PROVE  NoneStarts
<1> DEFINE n == call[c].node
           r == call[c].slot
<1>0. cont \in [Containers -> ContainerRecords]
  BY DEF TypeInv, TypeOK
<1>1. ASSUME NEW k \in Containers, PrepareRecords(c, k) PROVE NoneStarts
  <2>1. cont' = [cont EXCEPT ![k] = [cont[k] EXCEPT !.state = "token", !.slot = r, !.node = n]]
    BY <1>1 DEF PrepareRecords
  <2>2. [cont[k] EXCEPT !.state = "token", !.slot = r, !.node = n].state = "token"
    BY <1>0 DEF ContainerRecords
  <2> QED
    BY <2>1, <2>2, OneStays
<1>2. ASSUME PrepareCreates(c) PROVE NoneStarts
  <2> DEFINE k == journal[n][r].token
  <2>1. cont' = [cont EXCEPT ![k] = [cont[k] EXCEPT !.state = "requested"]]
    BY <1>2, ZenonT(30) DEF PrepareCreates
  <2> HIDE DEF k
  <2>2. ASSUME NEW h \in Containers, cont'[h].state = "running" PROVE cont[h].state = "running"
    <3>1. h # k => cont'[h] = cont[h]
      BY <1>0, <2>1
    <3>2. ASSUME h = k PROVE cont'[h].state = "requested"
      <4>1. cont'[h] = [cont[h] EXCEPT !.state = "requested"] /\ cont[h] \in ContainerRecords
        BY <1>0, <2>1, <3>2, SMTT(30)
      <4> QED
        BY <4>1, SMTT(30) DEF ContainerRecords
    <3> QED
      BY <2>2, <3>1, <3>2
  <2> QED
    BY <2>2 DEF NoneStarts
<1>3. ASSUME AckStarts(c) PROVE NoneStarts
  <2> DEFINE k == guard[n][r]
             p == [cont[k] EXCEPT !.closed = TRUE, !.startAsked = (cont[k].state = "created")]
  <2>1. cont' = cont \/ cont' = [cont EXCEPT ![k] = p]
    BY <1>3, ZenonT(30) DEF AckStarts
  <2>2. ASSUME NEW h \in Containers, cont'[h].state = "running", cont' # cont
        PROVE  cont[h].state = "running"
    <3>1. h # k => cont'[h] = cont[h]
      BY <1>0, <2>1, <2>2
    <3>2. ASSUME h = k PROVE cont'[h].state = cont[h].state
      <4>1. cont'[k] = p /\ cont[k] \in ContainerRecords
        BY <1>0, <2>1, <2>2, <3>2
      <4>2. p.state = cont[k].state
        BY <4>1, Zenon DEF ContainerRecords
      <4> QED
        BY <3>2, <4>1, <4>2, SMTT(30)
    <3> QED
      BY <2>2, <3>1, <3>2
  <2> QED
    BY <2>2 DEF NoneStarts
<1>4. ASSUME AckFails(c) PROVE NoneStarts
  <2> DEFINE k == guard[n][r]
  <2>1. cont' = cont \/ cont' = [cont EXCEPT ![k] = Removed(k)]
    BY <1>4, ZenonT(30) DEF AckFails
  <2>2. ASSUME NEW h \in Containers, cont'[h].state = "running", cont' # cont
        PROVE  cont[h].state = "running"
    <3>1. h # k => cont'[h] = cont[h]
      BY <1>0, <2>1, <2>2
    <3>2. ASSUME h = k PROVE cont'[h].state = "gone"
      <4>1. cont'[h] = Removed(h) /\ cont[h] \in ContainerRecords
        BY <1>0, <2>1, <2>2, <3>2
      <4> QED
        BY <4>1 DEF ContainerRecords, Removed
    <3> QED
      BY <2>2, <3>1, <3>2
  <2> QED
    BY <2>2 DEF NoneStarts
<1>5. ASSUME \/ HandlerRefuses(c) \/ PrepareReplays(c) \/ PrepareCreated(c) \/ PrepareFails(c)
             \/ AckReplays(c) \/ AckStarted(c)
      PROVE  cont' = cont
  BY <1>5, Zenon DEF HandlerRefuses, PrepareReplays, PrepareCreated, PrepareFails, AckReplays,
                     AckStarted
<1>6. ASSUME StopRuns(c) PROVE NoneStarts
  <2>1. \E S : StopElastic(n, S, routed[n])
    BY <1>6 DEF StopRuns
  <2> QED
    BY <2>1, StopStartsNone
<1> QED
  BY <1>1, <1>2, <1>3, <1>4, <1>5, <1>6 DEF Handles, NoneStarts

\* What runs after a step ran before it, but for the one that the daemon starts.
LEMMA StartSteps ==
    ASSUME TypeInv, [Next]_vars
    PROVE  NoneStarts \/ \E k \in Containers : DaemonStarts(k)
<1> USE DEF workerVars, storeVars
<1>0. cont \in [Containers -> ContainerRecords]
  BY DEF TypeInv, TypeOK
<1>1. ASSUME NEW n \in Nodes, Machine(n) PROVE NoneStarts
  <2>1. CASE Fence(n)
    <3>1. \E S : StopElastic(n, S, {})
      BY <2>1 DEF Fence
    <3> QED
      BY <3>1, StopStartsNone
  <2>2. CASE \/ \E k \in Containers : RouteWithdrawn(n, k)
             \/ \E loses \in BOOLEAN : WorkerRestarts(n, loses)
    BY <2>2 DEF RouteWithdrawn, WorkerRestarts, NoneStarts
  <2> QED
    BY <1>1, <2>1, <2>2 DEF Machine
<1>2. ASSUME NEW k \in Containers, Daemon(k), ~DaemonStarts(k) PROVE NoneStarts
  <2>1. DaemonCreates(k) \/ ContainerExits(k) \/ ContainerRemoved(k)
    BY <1>2 DEF Daemon
  <2> QED
    BY <1>0, <2>1
       DEF DaemonCreates, ContainerExits, ContainerRemoved, Removed, NoneStarts, ContainerRecords
<1>3. ASSUME NEW c \in Calls, Coordinates(c) PROVE NoneStarts
  <2>1. ASSUME NEW i \in Instances, NEW r \in Slots, NEW n \in Nodes, NEW q \in Requests,
               Launch(c, i, r, n, q) \/ Stop(c, i, r, n, q)
        PROVE  cont' = cont
    BY <2>1 DEF Launch, Stop
  <2> QED
    BY <1>3, <2>1
       DEF Coordinates, LaunchAcks, LaunchAdvances, StopConfirms, CallerGivesUp, NoneStarts
<1>4. ASSUME \/ LeaseMoves
             \/ \E d \in 0 .. MaxDeploy : AppChanges(d)
             \/ \E i \in Instances, r \in Slots :
                  \/ \E client \in Clients : ReserveElasticSession(i, client, r)
                  \/ AdvanceLaunching(i, r)
             \/ UNCHANGED vars
      PROVE  NoneStarts
  BY <1>4 DEF LeaseMoves, AppChanges, ReserveElasticSession, AdvanceLaunching, vars, NoneStarts
<1> QED
  BY <1>1, <1>2, <1>3, <1>4, HandlersStartNone DEF Next

\* Nothing runs for a reservation that was not made, or was given back.
SlotsClear == \A r \in Slots : row[r].state \in {"none", "stopped"} => Running(r) = {}

\* What is bound was reserved, and what was stopped is gone.
LEMMA ClearSlots == ASSUME AloneInv PROVE SlotsClear
<1> SUFFICES ASSUME NEW r \in Slots, row[r].state \in {"none", "stopped"}, NEW k \in Running(r)
             PROVE  FALSE
  BY DEF SlotsClear
<1>1. k \in Of(r) /\ cont[k].state = "running"
  BY DEF Running
<1>2. CASE row[r].state = "stopped"
  BY <1>1, <1>2 DEF AloneInv, StopInv, StoppedIsGone, Quiet
<1>3. CASE row[r].state = "none"
  <2>1. binding[r].node \in Nodes
    BY <1>1, SamePlace DEF Of, AloneInv
  <2>2. binding[r].node = NoNode
    BY <1>3 DEF AloneInv, Pristine, NoBinding
  <2> QED
    BY <2>1, <2>2, ElasticAssumption
<1> QED
  BY <1>2, <1>3

\* What the daemon starts is the worker of a reservation that is held.
LEMMA DaemonRuns ==
    ASSUME AloneInv, NEW k \in Containers, DaemonStarts(k)
    PROVE  \E r \in Slots :
             /\ row[r].state \notin {"none", "stopped"}
             /\ Running(r) = {} /\ Running(r)' # {}
             /\ \A s \in Slots \ {r} : Running(s)' = Running(s)
<1>0. cont \in [Containers -> ContainerRecords]
  BY DEF AloneInv, StopInv, TypeInv, TypeOK
<1>1. cont[k].startAsked /\ cont[k].state = "created" /\ Alive(k)
  BY Zenon DEF DaemonStarts, Alive
<1>2. /\ cont[k].slot \in Slots /\ cont[k].node \in Nodes
      /\ binding[cont[k].slot].node = cont[k].node
  BY <1>1, SamePlace DEF AloneInv
<1>3. PICK r \in Slots : r = cont[k].slot
  BY <1>2
<1>4. k \in Of(r) /\ binding[r].node \in Nodes
  BY <1>1, <1>2, <1>3 DEF Of
<1>5. row[r].state # "stopped"
  BY <1>1, <1>4 DEF AloneInv, StopInv, StoppedIsGone, Quiet
<1>6. ASSUME row[r].state = "none" PROVE FALSE
  <2>1. binding[r].node = NoNode
    BY <1>6 DEF AloneInv, Pristine, NoBinding
  <2> QED
    BY <1>4, <2>1, ElasticAssumption
<1>7. ASSUME NEW h \in Running(r) PROVE FALSE
  <2>1. h \in Containers /\ cont[h].state = "running" /\ cont[h].slot = r
    BY DEF Running, Of
  <2>2. Alive(h)
    BY <2>1 DEF Alive
  <2>3. h = k
    BY <1>1, <1>3, <2>1, <2>2 DEF AloneInv, Solitary
  <2> QED
    BY <1>1, <2>1, <2>3
<1>8. \A h \in Containers : h # k => cont'[h] = cont[h]
  BY <1>0 DEF DaemonStarts
<1>9. cont'[k].state = "running" /\ cont'[k].slot = r
  <2>1. cont'[k] = [cont[k] EXCEPT !.state = "running", !.startAsked = FALSE, !.ran = TRUE]
    BY <1>0 DEF DaemonStarts
  <2> QED
    BY <1>0, <1>3, <2>1 DEF ContainerRecords
<1>10. k \in Running(r)'
  BY <1>9 DEF Running, Of
<1>11. ASSUME NEW s \in Slots \ {r} PROVE Running(s)' = Running(s)
  <2>1. \A h \in Containers : h \in Running(s)' <=> h \in Running(s)
    BY <1>3, <1>8, <1>9 DEF Running, Of
  <2>2. Running(s)' \subseteq Containers /\ Running(s) \subseteq Containers
    BY DEF Running, Of
  <2> QED
    BY <2>1, <2>2
<1> QED
  BY <1>5, <1>6, <1>7, <1>10, <1>11

\* Otherwise what runs after a step ran for its reservation before.
LEMMA NoneRuns ==
    ASSUME StopInv, [Next]_vars, NoneStarts, NEW r \in Slots
    PROVE  Running(r)' \subseteq Running(r)
<1> SUFFICES ASSUME NEW k \in Running(r)' PROVE k \in Running(r)
  OBVIOUS
<1>1. k \in Containers /\ cont'[k].state = "running" /\ cont'[k].slot = r
  BY DEF Running, Of
<1>2. cont[k].state = "running"
  BY <1>1 DEF NoneStarts
<1>3. cont[k].slot = r
  BY <1>1, <1>2, AliveMoves DEF Alive
<1> QED
  BY <1>1, <1>2, <1>3 DEF Running, Of

\* The reservations as WorkerSlots has them.
SlotView == [r \in Slots |-> Slot(r)]

\* What the abstract states say of the row and of what runs.
LEMMA SlotMeans ==
    ASSUME SlotsClear, NEW r \in Slots
    PROVE  /\ Slot(r) = "free" <=> row[r].state = "none"
           /\ Slot(r) = "released" <=> row[r].state = "stopped"
           /\ Slot(r) = "running" <=> Running(r) # {}
           /\ Slot(r) = "held" <=> Running(r) = {} /\ row[r].state \notin {"none", "stopped"}
BY DEF SlotsClear, Slot

\* A reservation that counts against the limit in the store is outstanding.
LEMMA SlotsCounted ==
    ASSUME SlotsClear
    PROVE  {r \in Slots : SlotView[r] \in {"held", "running"}} = Unreleased
<1>1. ASSUME NEW r \in Slots
      PROVE  SlotView[r] \in {"held", "running"} <=> row[r].state \notin {"none", "stopped"}
  BY SlotMeans DEF SlotView, SlotsClear
<1> QED
  BY <1>1 DEF Unreleased

\* One reservation moves, and the others stay as they are.
LEMMA OneSlotMoves ==
    ASSUME NEW r \in Slots, \A s \in Slots \ {r} : Slot(s)' = Slot(s)
    PROVE  SlotView' = [SlotView EXCEPT ![r] = Slot(r)']
BY DEF SlotView

\* What a step of the store is to the slots: one is taken, given back, or none moves.
LEMMA StoreStep ==
    ASSUME SlotsClear, SlotsClear', AloneInv, cont' = cont, NEW r \in Slots, RowStep(r),
           \A s \in Slots \ {r} : row'[s] = row[s]
    PROVE  Abstract!Hold(r) \/ Abstract!Release(r) \/ SlotView' = SlotView
<1>1. \A s \in Slots : Running(s)' = Running(s)
  BY DEF Running, Of
<1>2. \A s \in Slots \ {r} : Slot(s)' = Slot(s)
  BY <1>1 DEF Slot
<1>3. SlotView' = [SlotView EXCEPT ![r] = Slot(r)']
  BY <1>2, OneSlotMoves
<1>4. SlotView[r] = Slot(r) /\ SlotView = [s \in Slots |-> Slot(s)]
  BY DEF SlotView
<1>5. Slot(r)' = Slot(r) => SlotView' = SlotView
  BY <1>3, <1>4
<1>6. CASE /\ row[r].state = "none" /\ row'[r].state = "reserved"
           /\ Cardinality(Unreleased) < MaxWorkers
  <2>1. Running(r) = {} /\ Slot(r) = "free"
    BY <1>6 DEF SlotsClear, Slot
  <2>2. Slot(r)' = "held"
    BY <1>1, <1>6, <2>1 DEF Slot
  <2>3. Abstract!Cardinality(Abstract!Outstanding) < MaxWorkers
    <3>1. Abstract!Outstanding = Unreleased
      BY SlotsCounted DEF Abstract!Outstanding, SlotView
    <3>2. Abstract!Cardinality(Unreleased) = Cardinality(Unreleased)
      BY DEF Abstract!Cardinality, Cardinality
    <3> QED
      BY <1>6, <3>1, <3>2
  <2>4. SlotView[r] = "free" /\ SlotView' = [SlotView EXCEPT ![r] = "held"]
    BY <1>3, <1>4, <2>1, <2>2
  <2> QED
    BY <2>3, <2>4, Zenon DEF Abstract!Hold, SlotView
<1>7. CASE row[r].state \notin {"none", "stopped"} /\ row'[r].state \notin {"none", "stopped"}
  <2>1. Slot(r)' = Slot(r)
    BY <1>1, <1>7 DEF Slot
  <2> QED
    BY <1>5, <2>1
<1>8. CASE row[r].state = "stopped" /\ row'[r].state = "stopped"
  <2>1. Slot(r)' = Slot(r)
    BY <1>1, <1>8 DEF Slot
  <2> QED
    BY <1>5, <2>1
<1>9. CASE /\ row[r].state = "stopping" /\ row'[r].state = "stopped"
           /\ \E c \in Calls : call[c].at = "confirm" /\ call[c].slot = r
  <2>1. Quiet(r)
    BY <1>9 DEF AloneInv, StopInv, ConfirmsProved
  <2>2. Running(r) = {}
    BY <2>1 DEF Running, Quiet
  <2>3. Slot(r) = "held" /\ Slot(r)' = "released"
    BY <1>1, <1>9, <2>2 DEF Slot
  <2> QED
    BY <1>3, <1>4, <2>3 DEF Abstract!Release, SlotView
<1> QED
  BY <1>6, <1>7, <1>8, <1>9 DEF RowStep

\* What a step of the workers or the daemon is to them: one worker runs, or those
\* that do not run any more have ended.
LEMMA WorkStep ==
    ASSUME SlotsClear, SlotsClear', AloneInv, [Next]_vars, row' = row
    PROVE  \/ \E r \in Slots : Abstract!Run(r)
           \/ \E S \in SUBSET Slots : Abstract!Halt(S)
<1>1. CASE \E k \in Containers : DaemonStarts(k)
  <2>1. PICK k \in Containers : DaemonStarts(k)
    BY <1>1
  <2>2. PICK r \in Slots : /\ row[r].state \notin {"none", "stopped"}
                           /\ Running(r) = {} /\ Running(r)' # {}
                           /\ \A s \in Slots \ {r} : Running(s)' = Running(s)
    BY <2>1, DaemonRuns
  <2>3. Slot(r) = "held" /\ Slot(r)' = "running"
    BY <2>2 DEF Slot
  <2>4. \A s \in Slots \ {r} : Slot(s)' = Slot(s)
    BY <2>2 DEF Slot
  <2>5. SlotView' = [SlotView EXCEPT ![r] = "running"]
    <3>1. SlotView' = [SlotView EXCEPT ![r] = Slot(r)']
      BY <2>2, <2>4, OneSlotMoves
    <3> QED
      BY <2>3, <3>1
  <2>6. SlotView[r] = "held"
    BY <2>2, <2>3 DEF SlotView
  <2>7. Abstract!Run(r)
    BY <2>2, <2>5, <2>6 DEF Abstract!Run, SlotView
  <2> QED
    BY <2>2, <2>7
<1>2. CASE NoneStarts
  <2> DEFINE S == {r \in Slots : Running(r) # {} /\ Running(r)' = {}}
  <2>1. \A r \in Slots : Running(r)' \subseteq Running(r)
    BY <1>2, NoneRuns DEF AloneInv
  <2>2. ASSUME NEW r \in S PROVE r \in Slots /\ Slot(r) = "running" /\ Slot(r)' = "held"
    <3>1. Running(r) # {} /\ Running(r)' = {} /\ row[r].state \notin {"none", "stopped"}
      BY DEF SlotsClear
    <3> QED
      BY <3>1 DEF Slot
  <2>3. ASSUME NEW r \in Slots \ S PROVE Slot(r)' = Slot(r)
    <3>1. Running(r) = {} <=> Running(r)' = {}
      BY <2>1
    <3> QED
      BY <3>1 DEF Slot
  <2>4. SlotView' = [r \in Slots |-> IF r \in S THEN "held" ELSE SlotView[r]]
    BY <2>2, <2>3 DEF SlotView
  <2>5. \A r \in S : SlotView[r] = "running"
    BY <2>2 DEF SlotView
  <2>6. Abstract!Halt(S)
    BY <2>4, <2>5 DEF Abstract!Halt, SlotView
  <2> QED
    BY <2>6
<1> QED
  BY <1>1, <1>2, StartSteps DEF AloneInv, StopInv

\* Admission by max_workers is admission of workers that run: at most so many
\* reservations are outstanding, a worker runs for one of these alone, and one that
\* was released never runs again (ReserveElasticSession,
\* ConfirmElasticReservationStopped, the startup guard).
THEOREM LaunchImplementsSlots == Spec => ImplementsSlots
<1>1. AloneInv => SlotsClear
  BY ClearSlots
<1>2. Init => Abstract!SlotsInit
  <2> SUFFICES ASSUME Init PROVE Abstract!SlotsInit
    OBVIOUS
  <2>1. ASSUME NEW r \in Slots PROVE Slot(r) = "free"
    <3>1. row[r].state = "none"
      BY DEF Init, NoRow
    <3> QED
      BY <3>1, AloneInvInit, ClearSlots, SlotMeans
  <2> QED
    BY <2>1 DEF Abstract!SlotsInit
<1>3. AloneInv /\ SlotsClear /\ SlotsClear' /\ [Next]_vars
        => [Abstract!SlotsNext]_([r \in Slots |-> Slot(r)])
  <2> SUFFICES ASSUME AloneInv, SlotsClear, SlotsClear', [Next]_vars
               PROVE  Abstract!SlotsNext \/ SlotView' = SlotView
    BY DEF SlotView
  <2>1. CASE row' = row
    BY <2>1, WorkStep DEF Abstract!SlotsNext
  <2>2. CASE /\ cont' = cont
             /\ \E r \in Slots : RowStep(r) /\ \A s \in Slots \ {r} : row'[s] = row[s]
    BY <2>2, StoreStep DEF Abstract!SlotsNext
  <2> QED
    BY <2>1, <2>2, RowSteps DEF AloneInv
<1>4. Init => AloneInv
  BY AloneInvInit
<1>5. AloneInv /\ [Next]_vars => AloneInv'
  BY AloneInvStep
<1> QED
  BY <1>1, <1>2, <1>3, <1>4, <1>5, PTL DEF Spec, ImplementsSlots, Abstract!SlotsSpec
=============================================================================
