---------------------------- MODULE HandoffProofs ----------------------------
(***************************************************************************)
(* Proofs about Handoff, for any number of processes, backends and         *)
(* clients, any relay limit and any of the two reload modes.               *)
(*                                                                         *)
(* None of the properties is inductive.  What carries them is the shape of *)
(* the chain of processes (HeadInv): one of them serves and has not handed *)
(* over; all older ones have retired, at most its parent is still on the   *)
(* way out; and the only younger one alive is the child of its upgrade.    *)
(* From it follow who can notice the retirement of a parent (ViewInv) and, *)
(* with the single lease (OwnerInv) and the fleet lock (FleetInv,          *)
(* PauseInv), who can change the active deployment behind the back of the  *)
(* process that serves.                                                    *)
(***************************************************************************)
EXTENDS Handoff, FiniteSetTheorems, TLAPS

-----------------------------------------------------------------------------
(* Types.                                                                  *)

Ups == {"idle", "waiting", "failing", "done"}
Views == [held : SUBSET Backends, unknown : BOOLEAN]
ProcRecords == [at : Stages, parent : {0} \cup Procs, heir : {0} \cup Procs,
                mode : {"unread"} \cup Modes, up : Ups, paused : BOOLEAN, span : Spans,
                drained : BOOLEAN, quiet : BOOLEAN, fence : BOOLEAN, notice : BOOLEAN,
                lock : {"free", "locked", "sealed"}, held : SUBSET Backends,
                view : Views, route : {0} \cup Backends, drn : SUBSET Backends]
Sessions == {NoSession} \cup [by : Procs, to : Backends]
Operations == {NoOp} \cup [by : Procs, new : Backends]

Types ==
    /\ proc \in [Procs -> ProcRecords]
    /\ sess \in [Clients -> Sessions]
    /\ op \in Operations
    /\ running \subseteq Backends /\ active \in {0} \cup Backends /\ booted \in Backends
    /\ owner \in {0} \cup Procs /\ ptr \in Procs

-----------------------------------------------------------------------------
(* The inductive invariant.                                                *)

Young == {"booting", "listening", "pointed"}
Retiring == {"closed", "stopping", "stopped", "sealing", "sealed", "freed", "draining"}
Gone == {"relaying", "dead"}

\* How far an upgrade and a relay lease are, by the stage of the process.
Staged(r) ==
    /\ r.at \in Young \cup {"none", "dead"} => r.up = "idle"
    /\ r.at = "serving" => r.up \in {"idle", "waiting", "failing"}
    /\ r.at \in Retiring \cup {"relaying"} => r.up = "done"
    /\ r.up # "idle" => r.mode \in Modes
    /\ r.at \in {"sealing", "sealed", "freed", "relaying", "none", "dead"} => r.drained
    /\ r.lock = "locked" <=> r.at = "sealing"
    /\ r.lock = "sealed" <=> r.at \in {"sealed", "freed", "relaying"}
StageInv == \A p \in Procs : Staged(proc[p])

\* A span of ownership is that of the process the lease names.
Owned(p) == proc[p].span # "none" =>
    /\ owner = p
    /\ proc[p].at \in Young \cup {"serving", "closed", "stopping"}
OwnerInv == \A p \in Procs : Owned(p)

\* The fleet lock excludes: other upgrades and recoveries, and operations.
Holds(p) == proc[p].paused \/ proc[p].span = "fenced"
FleetInv ==
    /\ \A p, q \in Procs : Holds(p) /\ Holds(q) => p = q
    /\ op # NoOp => \A p \in Procs : ~Holds(p)

\* An upgrade that may end in a relay keeps the fleet paused until it has.
Preserves(r) ==
    /\ r.mode = "preserve"
    /\ r.up = "waiting" \/ r.at \in {"closed", "stopping", "stopped"}
Pauses(r) ==
    /\ Preserves(r) => r.paused
    /\ r.at = "draining" /\ r.mode = "preserve" /\ ~r.drained => r.paused
PauseInv == \A p \in Procs : Pauses(proc[p])

\* Backends are booted once, and drain only after they were active.
BackendInv ==
    /\ running \subseteq 1..booted
    /\ active # 0 => active \in running
    /\ \A p \in Procs :
        /\ proc[p].route <= booted /\ proc[p].drn \subseteq 1..booted
        /\ active \notin proc[p].drn
    /\ \A c \in Clients : sess[c] # NoSession => sess[c].to \in running

\* The candidate of a deploy is not known to anyone else yet, and whoever
\* deploys owns the fleet, or could not end its span in time.
OpInv == op # NoOp =>
    /\ op.new = booted /\ op.new \in running /\ active \notin {0, op.new}
    /\ \A p \in Procs : op.new # proc[p].route /\ op.new \notin proc[p].drn
    /\ \A c \in Clients : sess[c].to # op.new
    /\ proc[op.by].span \in {"open", "closing"} \/ ~proc[op.by].drained
    /\ \A p \in Procs : proc[p].span = "open" => op.by = p

\* The owner routes to the active deployment.
RouteInv == \A p \in Procs : proc[p].span = "open" => proc[p].route = active

\* The limit leaves room for the relay that an upgrade may still become.
LimitInv ==
    /\ Cardinality(Live) <= RelayLimit
    /\ \A p \in Procs : Preserves(proc[p]) => Cardinality(Live) < RelayLimit

Numbered == \E n \in Procs : \A p \in Procs : proc[p].at = "none" <=> p > n

\* The child of an upgrade that waits for it.
Kid(s, q) ==
    /\ proc[s].heir = q /\ proc[s].up = "waiting"
    /\ proc[q].at \in Young \cup {"serving"}
    /\ proc[q].parent = s /\ proc[q].up = "idle"
    /\ proc[s].mode # "drain" /\ proc[q].at # "booting" => proc[q].route = active
    /\ ptr = IF proc[q].at \in {"pointed", "serving"} THEN q ELSE s

\* The process that serves and has not handed over.
Older(s) == \A q \in Procs : q < s =>
    \/ proc[q].at \in Gone
    \/ proc[s].parent = q /\ proc[s].up = "idle" /\ proc[q].at \in Retiring
Younger(s) == \A q \in Procs : q > s => proc[q].at \in {"none", "dead"} \/ Kid(s, q)
Forked(s) ==
    /\ proc[s].up # "idle" =>
         /\ proc[s].heir \in Procs /\ proc[s].heir > s
         /\ proc[proc[s].heir].at # "none"
    /\ proc[s].up = "failing" => proc[proc[s].heir].at = "dead"
Head(s) ==
    /\ proc[s].at = "serving" /\ proc[s].parent < s
    /\ Older(s) /\ Younger(s) /\ Forked(s)
    /\ proc[s].up = "idle" => ptr = s
    /\ ~DrainReload(s) => proc[s].route = active
HeadInv == \E s \in Procs : Head(s)

\* A lease names the backends of its relay.  A process that has noticed the
\* retirement of its parent knows them all, and none but relays are older.
Told(p) == proc[p].at \notin {"none", "dead"} /\ (proc[p].notice \/ ~proc[p].fence)
ViewInv ==
    /\ \A q \in Procs :
        /\ proc[q].at \in {"none", "dead"} => Session(q) = {}
        /\ proc[q].at \in {"sealed", "freed", "relaying"} => Carries(q) \subseteq proc[q].held
    /\ \A p, q \in Procs : Told(p) /\ q < p =>
         proc[q].at \in Gone /\ Carries(q) \subseteq proc[p].view.held

IInv ==
    /\ Types /\ StageInv /\ OwnerInv /\ FleetInv /\ PauseInv
    /\ BackendInv /\ OpInv /\ RouteInv /\ LimitInv /\ Numbered /\ HeadInv /\ ViewInv

-----------------------------------------------------------------------------
(* Facts about the constants and the operators.                            *)

\* The processes and the backends are numbered from one.
LEMMA Bounds ==
    /\ MaxProcs \in Nat /\ 1 \in Procs /\ Procs \subseteq Nat /\ 0 \notin Procs
    /\ MaxBackends \in Nat /\ 1 \in Backends /\ Backends \subseteq Nat /\ 0 \notin Backends
    /\ Modes \subseteq {"preserve", "drain"} /\ RelayLimit \in Nat
    /\ \A b \in Backends : 1..b \subseteq Backends
BY HandoffAssumption DEF Procs, Backends

\* What a process reads off the leases, or carries, are backends.
LEMMA ViewTypes ==
    ASSUME Types
    PROVE  /\ DiskView \in Views
           /\ \A p \in Procs : Carries(p) \subseteq Backends
<1>1. DiskView \in Views
  BY DEF Types, ProcRecords, DiskView, Views, Live
<1>2. ASSUME NEW p \in Procs PROVE Carries(p) \subseteq Backends
  BY Bounds DEF Types, Carries, Session, Sessions, NoSession
<1> QED
  BY <1>1, <1>2

\* What is left of a process that is gone.
LEMMA GoneTypes ==
    ASSUME Types, NEW p \in Procs
    PROVE  /\ NoProc \in ProcRecords
           /\ [NoProc EXCEPT !.at = "dead"] \in ProcRecords
           /\ [NoProc EXCEPT !.at = "dead", !.mode = proc[p].mode] \in ProcRecords
           /\ [c \in Clients |-> IF sess[c].by = p THEN NoSession ELSE sess[c]]
                 \in [Clients -> Sessions]
           /\ (IF op.by = p THEN NoOp ELSE op) \in Operations
<1>1. NoProc \in ProcRecords
  BY Bounds DEF NoProc, ProcRecords, Views, Stages, Ups, Spans
<1>2. \A m \in {"unread"} \cup Modes :
        [NoProc EXCEPT !.at = "dead", !.mode = m] \in ProcRecords
  BY Bounds DEF NoProc, ProcRecords, Views, Stages, Ups, Spans
<1>3. [NoProc EXCEPT !.at = "dead"] \in ProcRecords
  BY Bounds DEF NoProc, ProcRecords, Views, Stages, Ups, Spans
<1> QED
  BY <1>1, <1>2, <1>3, ZenonT(30) DEF Types, ProcRecords, Sessions, Operations

\* The fields of a process, and of its record once it is gone.
LEMMA Fields ==
    ASSUME Types
    PROVE  \A p \in Procs :
             /\ proc[p] \in ProcRecords
             /\ proc[p].at \in Stages /\ proc[p].span \in Spans /\ proc[p].up \in Ups
             /\ proc[p].mode \in {"unread"} \cup Modes
             /\ proc[p].parent \in {0} \cup Procs /\ proc[p].heir \in {0} \cup Procs
             /\ proc[p].route \in {0} \cup Backends /\ proc[p].drn \subseteq Backends
             /\ proc[p].held \subseteq Backends /\ proc[p].view \in Views
             /\ proc[p].lock \in {"free", "locked", "sealed"}
             /\ {proc[p].paused, proc[p].drained, proc[p].quiet, proc[p].fence,
                 proc[p].notice, proc[p].view.unknown} \subseteq BOOLEAN
BY SMTT(30) DEF Types, ProcRecords, Views

\* The forms in which the steps change the record of a process.
LEMMA Forms ==
    ASSUME NEW r \in ProcRecords
    PROVE  /\ \A a \in Stages : [r EXCEPT !.at = a] \in ProcRecords
           /\ \A a \in Stages, b \in {0} \cup Backends :
                [r EXCEPT !.at = a, !.route = b] \in ProcRecords
           /\ \A a \in Stages, u \in Ups : [r EXCEPT !.up = u, !.at = a] \in ProcRecords
           /\ \A u \in Ups : [r EXCEPT !.up = u] \in ProcRecords
           /\ [r EXCEPT !.up = "idle", !.heir = 0, !.paused = FALSE] \in ProcRecords
           /\ \A m \in Modes, k \in Procs, b \in BOOLEAN :
                [r EXCEPT !.mode = m, !.up = "waiting", !.heir = k, !.paused = b] \in ProcRecords
           /\ \A x \in Spans : [r EXCEPT !.span = x] \in ProcRecords
           /\ \A x \in Spans, b \in {0} \cup Backends :
                [r EXCEPT !.span = x, !.route = b] \in ProcRecords
           /\ \A x \in Spans : [r EXCEPT !.span = x, !.drained = FALSE] \in ProcRecords
           /\ \A a \in Stages, b \in BOOLEAN : [r EXCEPT !.at = a, !.quiet = b] \in ProcRecords
           /\ \A a \in Stages : [r EXCEPT !.at = a, !.lock = "locked"] \in ProcRecords
           /\ \A a \in Stages, h \in SUBSET Backends :
                [r EXCEPT !.at = a, !.lock = "sealed", !.held = h] \in ProcRecords
           /\ \A a \in Stages : [r EXCEPT !.at = a, !.paused = FALSE] \in ProcRecords
           /\ \A a \in Stages, b \in BOOLEAN :
                [r EXCEPT !.at = a, !.lock = "free", !.paused = b] \in ProcRecords
           /\ \A h \in SUBSET Backends : [r EXCEPT !.held = h] \in ProcRecords
           /\ \A v \in Views : [r EXCEPT !.notice = TRUE, !.view = v] \in ProcRecords
           /\ \A v \in Views : [r EXCEPT !.view = v] \in ProcRecords
           /\ [r EXCEPT !.fence = FALSE] \in ProcRecords
           /\ \A b \in {0} \cup Backends : [r EXCEPT !.route = b] \in ProcRecords
           /\ \A d \in SUBSET Backends : [r EXCEPT !.drn = d] \in ProcRecords
           /\ \A b \in {0} \cup Backends, d \in SUBSET Backends :
                [r EXCEPT !.route = b, !.drn = d] \in ProcRecords
<1>1. \A a \in Stages : [r EXCEPT !.at = a] \in ProcRecords
  BY Bounds DEF ProcRecords, Ups
<1>2. \A a \in Stages, b \in {0} \cup Backends :
        [r EXCEPT !.at = a, !.route = b] \in ProcRecords
  BY Bounds DEF ProcRecords, Ups
<1>3. \A a \in Stages, u \in Ups : [r EXCEPT !.up = u, !.at = a] \in ProcRecords
  BY Bounds DEF ProcRecords, Ups
<1>4. \A u \in Ups : [r EXCEPT !.up = u] \in ProcRecords
  BY Bounds DEF ProcRecords, Ups
<1>5. [r EXCEPT !.up = "idle", !.heir = 0, !.paused = FALSE] \in ProcRecords
  BY Bounds DEF ProcRecords, Ups
<1>6. \A m \in Modes, k \in Procs, b \in BOOLEAN :
        [r EXCEPT !.mode = m, !.up = "waiting", !.heir = k, !.paused = b] \in ProcRecords
  BY Bounds DEF ProcRecords, Ups
<1>7. \A x \in Spans : [r EXCEPT !.span = x] \in ProcRecords
  BY Bounds DEF ProcRecords, Ups
<1>8. \A x \in Spans, b \in {0} \cup Backends :
        [r EXCEPT !.span = x, !.route = b] \in ProcRecords
  BY Bounds DEF ProcRecords, Ups
<1>9. \A x \in Spans : [r EXCEPT !.span = x, !.drained = FALSE] \in ProcRecords
  BY Bounds DEF ProcRecords, Ups
<1>10. \A a \in Stages, b \in BOOLEAN : [r EXCEPT !.at = a, !.quiet = b] \in ProcRecords
  BY Bounds DEF ProcRecords, Ups
<1>11. \A a \in Stages : [r EXCEPT !.at = a, !.lock = "locked"] \in ProcRecords
  BY Bounds DEF ProcRecords, Ups
<1>12. \A a \in Stages, h \in SUBSET Backends :
        [r EXCEPT !.at = a, !.lock = "sealed", !.held = h] \in ProcRecords
  BY Bounds DEF ProcRecords, Ups
<1>13. \A a \in Stages : [r EXCEPT !.at = a, !.paused = FALSE] \in ProcRecords
  BY Bounds DEF ProcRecords, Ups
<1>14. \A a \in Stages, b \in BOOLEAN :
        [r EXCEPT !.at = a, !.lock = "free", !.paused = b] \in ProcRecords
  BY Bounds DEF ProcRecords, Ups
<1>15. \A h \in SUBSET Backends : [r EXCEPT !.held = h] \in ProcRecords
  BY Bounds DEF ProcRecords, Ups
<1>16. \A v \in Views : [r EXCEPT !.notice = TRUE, !.view = v] \in ProcRecords
  BY Bounds DEF ProcRecords, Ups
<1>17. \A v \in Views : [r EXCEPT !.view = v] \in ProcRecords
  BY Bounds DEF ProcRecords, Ups
<1>18. [r EXCEPT !.fence = FALSE] \in ProcRecords
  BY Bounds DEF ProcRecords, Ups
<1>19. \A b \in {0} \cup Backends : [r EXCEPT !.route = b] \in ProcRecords
  BY Bounds DEF ProcRecords, Ups
<1>20. \A d \in SUBSET Backends : [r EXCEPT !.drn = d] \in ProcRecords
  BY Bounds DEF ProcRecords, Ups
<1>21. \A b \in {0} \cup Backends, d \in SUBSET Backends :
        [r EXCEPT !.route = b, !.drn = d] \in ProcRecords
  BY Bounds DEF ProcRecords, Ups
<1> QED
  BY <1>1, <1>2, <1>3, <1>4, <1>5, <1>6, <1>7, <1>8, <1>9, <1>10, <1>11, <1>12,
     <1>13, <1>14, <1>15, <1>16, <1>17, <1>18, <1>19, <1>20, <1>21, Zenon

\* The record of one process changes, and of no other.
LEMMA Update ==
    ASSUME Types, NEW p \in Procs, NEW r \in ProcRecords, proc' = [proc EXCEPT ![p] = r]
    PROVE  /\ proc' \in [Procs -> ProcRecords]
           /\ proc'[p] = r
           /\ \A q \in Procs \ {p} : proc'[q] = proc[q]
BY DEF Types

\* The processes forked so far are a prefix, and the next one is not among them.
LEMMA NextNumber ==
    ASSUME Types, Numbered
    PROVE  LET kid == 1 + Cardinality(Procs \ At({"none"}))
           IN  /\ kid \in Nat
               /\ \A q \in Procs : proc[q].at = "none" <=> q >= kid
<1>1. PICK n \in Procs : \A p \in Procs : proc[p].at = "none" <=> p > n
  BY DEF Numbered
<1>2. n \in Nat /\ 1..n \subseteq Procs
  BY <1>1, Bounds DEF Procs
<1>3. Procs \ At({"none"}) = 1..n
  BY <1>1, <1>2, Bounds DEF At, Procs
<1>4. Cardinality(1..n) = n
  BY <1>2, FS_Interval
<1> DEFINE forked == Procs \ At({"none"})
<1>5. 1 + Cardinality(forked) = n + 1 /\ n + 1 \in Nat
  <2>1. forked = 1..n
    BY <1>3
  <2> HIDE DEF forked
  <2> QED
    BY <1>2, <1>4, <2>1
<1>6. \A q \in Procs : proc[q].at = "none" <=> q >= n + 1
  BY <1>1, <1>2, Bounds
<1> QED
  BY <1>5, <1>6

\* The leases that count towards the limit can be counted.
LEMMA LiveFinite ==
    ASSUME Types
    PROVE  IsFiniteSet(Live) /\ Cardinality(Live) \in Nat
<1>1. IsFiniteSet(Procs)
  BY FS_Interval, Bounds DEF Procs
<1>2. Live \in SUBSET Procs
  BY DEF Live
<1> QED
  BY <1>1, <1>2, FS_Subset, FS_CardinalityType

-----------------------------------------------------------------------------
(* The effect of the steps that change more than one process.              *)

\* Parts of a process that a step may leave alone.
SameStage(r, t) ==
    /\ t.at = r.at /\ t.parent = r.parent /\ t.heir = r.heir /\ t.mode = r.mode
    /\ t.up = r.up /\ t.paused = r.paused /\ t.quiet = r.quiet /\ t.lock = r.lock
SameSpan(r, t) == t.span = r.span /\ t.drained = r.drained
SameView(r, t) == t.fence = r.fence /\ t.notice = r.notice /\ t.view = r.view
SameRoutes(r, t) == t.route = r.route /\ t.drn = r.drn

\* What a process that is gone, or has just been forked, does not have.
Fresh(r) ==
    /\ r.heir = 0 /\ r.up = "idle" /\ r.paused = FALSE /\ r.span = "none" /\ r.drained = TRUE
    /\ r.notice = FALSE /\ r.lock = "free" /\ r.held = {} /\ r.route = 0 /\ r.drn = {}

\* What the beginning of an upgrade leaves alone.
Same(r, t) ==
    /\ t.at = r.at /\ t.parent = r.parent /\ t.span = r.span /\ t.drained = r.drained
    /\ t.quiet = r.quiet /\ t.fence = r.fence /\ t.notice = r.notice /\ t.lock = r.lock
    /\ t.held = r.held /\ t.view = r.view /\ t.route = r.route /\ t.drn = r.drn

ForkOf(p, mode, kid, pauses) ==
    /\ kid > p /\ \A q \in Procs : proc[q].at = "none" <=> q >= kid
    /\ mode = "preserve" => Preservable(p) /\ pauses
    /\ pauses => FleetFree
    /\ proc[p].mode \in {"unread", mode}
    /\ proc'[p].mode = mode /\ proc'[p].up = "waiting" /\ proc'[p].heir = kid
    /\ proc'[p].paused = pauses
    /\ Same(proc[p], proc'[p])
    /\ Fresh(proc'[kid]) /\ proc'[kid].at = "booting" /\ proc'[kid].mode = "unread"
    /\ proc'[kid].parent = p /\ proc'[kid].fence
    /\ \A q \in Procs \ {p, kid} : proc'[q] = proc[q]

\* RepeatableUpgrader.Upgrade forks the next process in number.
LEMMA Forks ==
    ASSUME Types, Numbered, NEW p \in Procs, BeginUpgrade(p)
    PROVE  /\ Types'
           /\ \E mode \in Modes, kid \in Procs, pauses \in BOOLEAN : ForkOf(p, mode, kid, pauses)
<1> DEFINE kid == 1 + Cardinality(Procs \ At({"none"}))
<1>1. /\ kid \in Nat
      /\ \A q \in Procs : proc[q].at = "none" <=> q >= kid
  BY NextNumber
<1> HIDE DEF kid
<1>2. PICK mode \in Modes :
        /\ kid \in Procs
        /\ proc[p].mode \in {"unread", mode}
        /\ mode = "preserve" => Preservable(p)
        /\ (mode = "preserve" \/ Live # {}) => FleetFree
        /\ proc' = [proc EXCEPT
               ![p] = [@ EXCEPT !.mode = mode, !.up = "waiting", !.heir = kid,
                                !.paused = (mode = "preserve" \/ Live # {})],
               ![kid] = [NoProc EXCEPT !.at = "booting", !.parent = p,
                                       !.fence = TRUE, !.view = DiskView]]
  BY Zenon DEF BeginUpgrade, kid
<1>3. kid > p /\ p # kid
  BY <1>1, <1>2, Bounds DEF BeginUpgrade
<1> DEFINE pauses == (mode = "preserve" \/ Live # {})
           r == [proc[p] EXCEPT !.mode = mode, !.up = "waiting", !.heir = kid,
                                !.paused = pauses]
           k == [NoProc EXCEPT !.at = "booting", !.parent = p,
                               !.fence = TRUE, !.view = DiskView]
<1>4. pauses \in BOOLEAN
  OBVIOUS
<1> HIDE DEF pauses
<1>5. r \in ProcRecords
  BY <1>2, <1>4, Forms, Fields, Zenon
<1>6. k \in ProcRecords
  BY ViewTypes, Bounds DEF ProcRecords, NoProc, Stages, Ups, Spans
<1>7. proc' = [proc EXCEPT ![p] = r, ![kid] = k]
  BY <1>2 DEF pauses
<1> HIDE DEF r, k
<1>8. /\ proc' \in [Procs -> ProcRecords]
      /\ \A q \in Procs \ {p, kid} : proc'[q] = proc[q]
      /\ proc'[p] = r /\ proc'[kid] = k
  BY <1>2, <1>3, <1>5, <1>6, <1>7, ZenonT(30) DEF Types
<1>9. Types'
  BY <1>8, Zenon DEF Types, BeginUpgrade, app
<1>10. mode = "preserve" => pauses
  BY DEF pauses
<1>11. pauses => FleetFree
  BY <1>2 DEF pauses
<1>12. /\ r.mode = mode /\ r.up = "waiting" /\ r.heir = kid /\ r.paused = pauses
       /\ Same(proc[p], r)
  BY Fields DEF r, Same, ProcRecords
<1>13. Fresh(k) /\ k.at = "booting" /\ k.mode = "unread" /\ k.parent = p /\ k.fence
  BY DEF k, Fresh, NoProc
<1>14. ForkOf(p, mode, kid, pauses)
  BY <1>1, <1>2, <1>3, <1>8, <1>10, <1>11, <1>12, <1>13, Zenon DEF ForkOf
<1> QED
  BY <1>2, <1>4, <1>9, <1>14

\* The dead, whether they exit or are killed.
Ends(p) ==
    /\ Fresh(proc'[p]) /\ proc'[p].at = "dead" /\ proc'[p].mode = proc[p].mode
    /\ \A q \in Procs \ {p} : proc'[q] = proc[q]

\* A process that dies keeps no more than the mode it was forked in.
LEMMA DeadFields ==
    ASSUME Types, NEW p \in Procs, Dies(p), ptr' \in Procs
    PROVE  Types' /\ Ends(p)
<1> DEFINE r == [NoProc EXCEPT !.at = "dead", !.mode = proc[p].mode]
<1>1. Fresh(r) /\ r.at = "dead" /\ r.mode = proc[p].mode
  BY DEF Fresh, NoProc
<1>2. r \in ProcRecords
  BY GoneTypes, Zenon
<1>3. proc' = [proc EXCEPT ![p] = r]
  BY DEF Dies
<1> HIDE DEF r
<1>4. /\ proc' \in [Procs -> ProcRecords]
      /\ proc'[p] = r
      /\ \A q \in Procs \ {p} : proc'[q] = proc[q]
  BY <1>2, <1>3, Update
<1> QED
  BY <1>1, <1>4, GoneTypes, Zenon DEF Types, Dies, Ends

\* The kill of a late child: it is dead, and its parent's upgrade has failed.
LEMMA KilledFields ==
    ASSUME Types, NEW p \in Procs, UpgradeFails(p), proc[p].heir \in Procs, proc[p].heir > p
    PROVE  /\ Types'
           /\ proc'[p] = [proc[p] EXCEPT !.up = "failing"]
           /\ Fresh(proc'[proc[p].heir]) /\ proc'[proc[p].heir].at = "dead"
           /\ \A q \in Procs \ {p, proc[p].heir} : proc'[q] = proc[q]
<1> DEFINE kid == proc[p].heir
           r == [proc[p] EXCEPT !.up = "failing"]
           k == [NoProc EXCEPT !.at = "dead"]
<1>1. r \in ProcRecords
  BY Forms, Fields, Zenon DEF Ups
<1>2. k \in ProcRecords
  BY GoneTypes, Zenon
<1>3. proc' = [proc EXCEPT ![p] = r, ![kid] = k]
  BY DEF UpgradeFails
<1>4. p # kid
  BY Bounds
<1>5. /\ sess' = [c \in Clients |-> IF sess[c].by = kid THEN NoSession ELSE sess[c]]
      /\ op' = IF op.by = kid THEN NoOp ELSE op
      /\ UNCHANGED <<running, active, booted, owner, ptr>>
  BY DEF UpgradeFails
<1>6. sess' \in [Clients -> Sessions] /\ op' \in Operations
  BY <1>5, GoneTypes, Zenon
<1>8. Fresh(k) /\ k.at = "dead"
  BY DEF Fresh, NoProc
<1> HIDE DEF r, k
<1>7. /\ proc' \in [Procs -> ProcRecords]
      /\ \A q \in Procs \ {p, kid} : proc'[q] = proc[q]
      /\ proc'[p] = r /\ proc'[kid] = k
  BY <1>1, <1>2, <1>3, <1>4 DEF Types
<1> QED
  BY <1>5, <1>6, <1>7, <1>8 DEF r, Types

-----------------------------------------------------------------------------
(* Types are preserved.                                                    *)

\* What a process may do, as Next has it.
ProcStep(p) ==
    \/ Proceeds(p)
    \/ BeginUpgrade(p) \/ ChildDies(p) \/ RetiredDies(p)
    \/ RelayShrinks(p) \/ RelayExpires(p) \/ RelayExits(p)
    \/ StartDeploy(p) \/ TryRetire(p) \/ ForceRetire(p)
    \/ Hibernate(p) \/ StopApp(p) \/ Wake(p)

\* The upgrade that waits or fails is that of the head, which has a child.
LEMMA Upgrading ==
    ASSUME Types, StageInv, NEW s \in Procs, Head(s), NEW p \in Procs,
           proc[p].up \in {"waiting", "failing"}
    PROVE  p = s /\ proc[p].at = "serving" /\ proc[p].heir \in Procs /\ proc[p].heir > p
<1>1. proc[p].at = "serving"
  BY Fields DEF StageInv, Staged, Stages, Young, Retiring
<1>2. p = s
  BY <1>1, Bounds DEF Head, Older, Younger, Gone, Retiring, Kid
<1> QED
  BY <1>1, <1>2 DEF Head, Forked

\* A process that is not ready yet is the child of the head.
LEMMA Kids ==
    ASSUME Types, HeadInv, NEW p \in Procs, proc[p].at \in Young
    PROVE  /\ proc[p].parent \in Procs /\ proc[proc[p].parent].at = "serving"
           /\ Head(proc[p].parent) /\ Kid(proc[p].parent, p)
<1>1. PICK s \in Procs : Head(s)
  BY DEF HeadInv
<1>2. Kid(s, p)
  BY <1>1, Bounds DEF Head, Older, Younger, Gone, Retiring, Young
<1> QED
  BY <1>1, <1>2 DEF Kid, Head

\* retireGenerationWhenIdle leaves the variables in their types.
LEMMA DropTypes ==
    ASSUME Types, NEW p \in Procs, NEW b \in Backends, Drop(p, b)
    PROVE  Types'
<1>1. [proc[p] EXCEPT !.drn = @ \ {b}] \in ProcRecords
  BY Forms, Fields, Zenon
<1>2. proc' = [proc EXCEPT ![p] = [proc[p] EXCEPT !.drn = @ \ {b}]]
  BY DEF Drop
<1>3. proc' \in [Procs -> ProcRecords]
  BY <1>1, <1>2, Update
<1> QED
  BY <1>3, SMTT(30) DEF Types, Drop, Stop, Sessions

\* The bound on deployments is the bound on backends.
LEMMA NextBackend ==
    ASSUME Types, booted < MaxBackends
    PROVE  booted + 1 \in Backends
BY Bounds DEF Types, Backends

\* The operation of a process is one, and is about a backend.
LEMMA Deploying ==
    ASSUME Types, NEW p \in Procs, op.by = p
    PROVE  op # NoOp /\ op.new \in Backends
BY Bounds DEF Types, Operations, NoOp

\* ActivateGeneration: the deployment failed, and its backend is gone, or it is
\* the active one and what was active before drains.
LEMMA EndFields ==
    ASSUME Types, OpInv, NEW p \in Procs, EndDeploy(p)
    PROVE  /\ Types'
           /\ \A q \in Procs \ {p} : proc'[q] = proc[q]
           /\ \/ proc' = proc /\ active' = active /\ running' = running \ {op.new}
              \/ /\ active' = op.new /\ running' = running
                 /\ proc'[p].route = op.new /\ proc'[p].drn = proc[p].drn \cup {active}
           /\ SameStage(proc[p], proc'[p]) /\ SameSpan(proc[p], proc'[p])
           /\ SameView(proc[p], proc'[p]) /\ proc'[p].held = proc[p].held
<1>1. op # NoOp /\ op.new \in Backends /\ active \in Backends
  BY Deploying DEF EndDeploy, OpInv, Types
<1>2. proc[p].drn \cup {active} \in SUBSET Backends
  BY <1>1, Fields, SMTT(30)
<1>3. [proc[p] EXCEPT !.route = op.new, !.drn = proc[p].drn \cup {active}] \in ProcRecords
  BY <1>1, <1>2, Forms, Fields, Zenon
<1>4. \/ proc' = [proc EXCEPT ![p] = [proc[p] EXCEPT !.route = op.new,
                                                    !.drn = proc[p].drn \cup {active}]]
      \/ proc' = proc
  BY DEF EndDeploy
<1>5. /\ proc' \in [Procs -> ProcRecords]
      /\ \A q \in Procs \ {p} : proc'[q] = proc[q]
  BY <1>3, <1>4, Update DEF Types
<1>6. Types'
  BY <1>1, <1>5 DEF Types, EndDeploy, Operations
<1> DEFINE r == [proc[p] EXCEPT !.route = op.new, !.drn = proc[p].drn \cup {active}]
<1>7. \/ proc' = proc /\ active' = active /\ running' = running \ {op.new}
      \/ active' = op.new /\ running' = running /\ proc'[p] = r
  BY <1>3, Update DEF EndDeploy
<1>8. /\ r.route = op.new /\ r.drn = proc[p].drn \cup {active} /\ r.held = proc[p].held
      /\ SameStage(proc[p], r) /\ SameSpan(proc[p], r) /\ SameView(proc[p], r)
  BY Fields DEF ProcRecords, SameStage, SameSpan, SameView
<1> HIDE DEF r
<1>9. \/ proc' = proc
      \/ /\ proc'[p].held = proc[p].held
         /\ SameStage(proc[p], proc'[p]) /\ SameSpan(proc[p], proc'[p])
         /\ SameView(proc[p], proc'[p])
  BY <1>7, <1>8, SMTT(30)
<1> QED
  BY <1>5, <1>6, <1>7, <1>8, <1>9 DEF SameStage, SameSpan, SameView

\* Types are preserved by each step of a process.
LEMMA TypesStep ==
    ASSUME Types, StageInv, HeadInv, OpInv, Numbered, NEW p \in Procs, ProcStep(p)
    PROVE  Types'
<1> USE Forms, Fields, Bounds DEF Types, Stages, Ups, Spans, app
<1>1. CASE ChildListens(p)
  BY <1>1, ZenonT(30) DEF ChildListens
<1>2. CASE ChildActivates(p)
  BY <1>2, ZenonT(30) DEF ChildActivates
<1>3. CASE ChildReady(p)
  BY <1>3, ZenonT(30) DEF ChildReady
<1>4. CASE TakeAck(p)
  BY <1>4, ZenonT(30) DEF TakeAck
<1>5. CASE UpgradeFails(p)
  <2>1. PICK s \in Procs : Head(s)
    BY ZenonT(30) DEF HeadInv
  <2>2. proc[p].heir \in Procs /\ proc[p].heir > p
    BY <1>5, <2>1, Upgrading, ZenonT(30) DEF UpgradeFails
  <2> QED
    BY <1>5, <2>2, KilledFields, ZenonT(30)
<1>6. CASE Restore(p)
  BY <1>6, ZenonT(30) DEF Restore
<1>7. CASE HTTPShut(p)
  <2>1. PICK quiet \in BOOLEAN :
          proc' = [proc EXCEPT ![p] = [@ EXCEPT !.at = "stopping", !.quiet = quiet]]
    BY <1>7, ZenonT(30) DEF HTTPShut
  <2> QED
    BY <1>7, <2>1, ZenonT(30) DEF HTTPShut
<1>8. CASE OwnershipStopped(p)
  BY <1>8, ZenonT(30) DEF OwnershipStopped
<1>9. CASE Seal(p)
  BY <1>9, ZenonT(30) DEF Seal
<1>10. CASE PublishSeal(p)
  BY <1>10, ViewTypes, ZenonT(30) DEF PublishSeal
<1>11. CASE Release(p)
  BY <1>11, ZenonT(30) DEF Release
<1>12. CASE Retire(p)
  BY <1>12, ZenonT(30) DEF Retire
<1>13. CASE Fallback(p)
  BY <1>13, ZenonT(30) DEF Fallback
<1>14. CASE DrainEnds(p)
  BY <1>14, DeadFields, ZenonT(30) DEF DrainEnds, Dies
<1>15. CASE Acquire(p)
  BY <1>15, ZenonT(30) DEF Acquire
<1>16. CASE TakeFence(p)
  BY <1>16, ZenonT(30) DEF TakeFence
<1>17. CASE OpenSpan(p)
  BY <1>17, ZenonT(30) DEF OpenSpan, Sessions
<1>18. CASE SpanCloses(p)
  BY <1>18, ZenonT(30) DEF SpanCloses
<1>19. CASE DrainDone(p)
  BY <1>19, ZenonT(30) DEF DrainDone
<1>20. CASE DrainGivesUp(p)
  BY <1>20, ZenonT(30) DEF DrainGivesUp
<1>21. CASE SpanAborts(p)
  BY <1>21, ZenonT(30) DEF SpanAborts
<1>22. CASE Watchdog(p)
  BY <1>22, DeadFields, ZenonT(30) DEF Watchdog, Dies
<1>23. CASE EndDeploy(p)
  BY <1>23, EndFields, ZenonT(30)
<1>24. CASE Notice(p)
  BY <1>24, ViewTypes, ZenonT(30) DEF Notice
<1>25. CASE WatchTick(p)
  BY <1>25, ViewTypes, ZenonT(30) DEF WatchTick
<1>26. CASE Cleanup(p)
  BY <1>26, ZenonT(30) DEF Cleanup, Stop, Sessions, Obsolete
<1>27. CASE BeginUpgrade(p)
  BY <1>27, Forks, ZenonT(30)
<1>28. CASE ChildDies(p)
  <2>1. proc[p].parent \in Procs
    BY <1>28, Kids, ZenonT(30) DEF ChildDies, Young
  <2>2. ptr' \in Procs
    BY <1>28, <2>1, ZenonT(30) DEF ChildDies
  <2> QED
    BY <1>28, <2>2, DeadFields, ZenonT(30) DEF ChildDies
<1>29. CASE RetiredDies(p)
  BY <1>29, DeadFields, ZenonT(30) DEF RetiredDies, Dies
<1>30. CASE RelayShrinks(p)
  BY <1>30, ViewTypes, ZenonT(30) DEF RelayShrinks
<1>31. CASE RelayExpires(p)
  BY <1>31, ZenonT(30) DEF RelayExpires, Sessions
<1>32. CASE RelayExits(p)
  BY <1>32, DeadFields, ZenonT(30) DEF RelayExits, Dies
<1>33. CASE StartDeploy(p)
  BY <1>33, NextBackend, ZenonT(30) DEF StartDeploy, Operations
<1>34. CASE TryRetire(p)
  BY <1>34, DropTypes, ZenonT(30) DEF TryRetire
<1>35. CASE ForceRetire(p)
  BY <1>35, DropTypes, ZenonT(30) DEF ForceRetire
<1>36. CASE Hibernate(p)
  BY <1>36, ZenonT(30) DEF Hibernate, Stop, Sessions
<1>37. CASE StopApp(p)
  BY <1>37, ZenonT(30) DEF StopApp, Stop, Sessions
<1>38. CASE Wake(p)
  BY <1>38, NextBackend, Zenon DEF Wake
<1> QED
  BY <1>1, <1>2, <1>3, <1>4, <1>5, <1>6, <1>7, <1>8, <1>9, <1>10, <1>11, <1>12, <1>13, <1>14,
     <1>15, <1>16, <1>17, <1>18, <1>19, <1>20, <1>21, <1>22, <1>23, <1>24, <1>25, <1>26,
     <1>27, <1>28, <1>29, <1>30, <1>31, <1>32, <1>33, <1>34, <1>35, <1>36, <1>37, <1>38, ZenonT(30)
  DEF ProcStep, Proceeds, Starts, Decides, Leaves, Owns, Follows

\* A process that dies, whether as a child, in the drain of a span or on its
\* way out.
Perishes(p) == ChildDies(p) \/ RetiredDies(p) \/ RelayExits(p) \/ Watchdog(p) \/ DrainEnds(p)

\* Every way out leaves a process without fields.
LEMMA Perished ==
    ASSUME Types, HeadInv, NEW p \in Procs, Perishes(p)
    PROVE  Types' /\ Ends(p) /\ Dies(p)
<1>1. CASE ChildDies(p)
  <2>1. proc[p].parent \in Procs
    BY <1>1, Kids DEF ChildDies, Young
  <2>2. ptr' \in Procs
    BY <1>1, <2>1 DEF ChildDies, Types
  <2> QED
    BY <1>1, <2>2, DeadFields DEF ChildDies
<1>2. CASE RetiredDies(p) \/ RelayExits(p) \/ Watchdog(p) \/ DrainEnds(p)
  <2>1. Dies(p) /\ ptr' \in Procs
    BY <1>2 DEF RetiredDies, RelayExits, Watchdog, DrainEnds, Types
  <2> QED
    BY <2>1, DeadFields
<1> QED
  BY <1>1, <1>2 DEF Perishes

\* An upgrade that fails is that of the head; its child is dead.
LEMMA Fails ==
    ASSUME Types, StageInv, HeadInv, NEW p \in Procs, UpgradeFails(p)
    PROVE  /\ proc[p].at = "serving" /\ proc[p].up = "waiting" /\ Head(p)
           /\ proc[p].heir \in Procs /\ proc[p].heir > p
           /\ proc'[p].up = "failing" /\ proc'[p].mode = proc[p].mode
           /\ proc'[p].heir = proc[p].heir /\ proc'[p].paused = proc[p].paused
           /\ Same(proc[p], proc'[p])
           /\ Fresh(proc'[proc[p].heir]) /\ proc'[proc[p].heir].at = "dead"
           /\ \A q \in Procs \ {p, proc[p].heir} : proc'[q] = proc[q]
<1>1. PICK s \in Procs : Head(s)
  BY DEF HeadInv
<1>2. proc[p].up = "waiting"
  BY DEF UpgradeFails
<1>3. p = s /\ proc[p].at = "serving" /\ proc[p].heir \in Procs /\ proc[p].heir > p
  BY <1>1, <1>2, Upgrading
<1>4. /\ proc'[p] = [proc[p] EXCEPT !.up = "failing"]
      /\ Fresh(proc'[proc[p].heir]) /\ proc'[proc[p].heir].at = "dead"
      /\ \A q \in Procs \ {p, proc[p].heir} : proc'[q] = proc[q]
  BY <1>3, KilledFields
<1>5. /\ proc'[p].up = "failing" /\ proc'[p].mode = proc[p].mode
      /\ proc'[p].heir = proc[p].heir /\ proc'[p].paused = proc[p].paused
      /\ Same(proc[p], proc'[p])
  BY <1>4, Fields DEF Same, ProcRecords
<1> QED
  BY <1>1, <1>2, <1>3, <1>4, <1>5

-----------------------------------------------------------------------------
(* Steps by what they change of a process.                                 *)

AppStep(p) ==
    \/ StartDeploy(p) \/ EndDeploy(p) \/ TryRetire(p) \/ ForceRetire(p)
    \/ Hibernate(p) \/ StopApp(p) \/ Wake(p)
RelayStep(p) == RelayShrinks(p) \/ RelayExpires(p)
SpanStep(p) ==
    \/ Acquire(p) \/ TakeFence(p) \/ OpenSpan(p)
    \/ SpanCloses(p) \/ DrainDone(p) \/ DrainGivesUp(p) \/ SpanAborts(p)
StageStep(p) ==
    \/ ChildListens(p) \/ ChildActivates(p) \/ ChildReady(p) \/ TakeAck(p) \/ Restore(p)
    \/ HTTPShut(p) \/ OwnershipStopped(p) \/ Seal(p) \/ PublishSeal(p) \/ Release(p)
    \/ Retire(p) \/ Fallback(p)

\* The steps of a process by what they are about.
LEMMA StepKinds ==
    ASSUME NEW p \in Procs, ProcStep(p)
    PROVE  \/ StageStep(p) \/ SpanStep(p) \/ AppStep(p) \/ Follows(p) \/ RelayStep(p)
           \/ Perishes(p) \/ BeginUpgrade(p) \/ UpgradeFails(p)
BY DEF ProcStep, Proceeds, Starts, Decides, Leaves, Owns, StageStep, SpanStep, AppStep,
       RelayStep, Perishes

\* An operation of the app changes what its process routes to and drains, and
\* nothing of its stage, its span or its view of the leases.
LEMMA AppFields ==
    ASSUME Types, OpInv, NEW p \in Procs, AppStep(p)
    PROVE  /\ SameStage(proc[p], proc'[p]) /\ SameSpan(proc[p], proc'[p])
           /\ SameView(proc[p], proc'[p]) /\ proc'[p].held = proc[p].held
           /\ \A q \in Procs \ {p} : proc'[q] = proc[q]
           /\ owner' = owner /\ ptr' = ptr
<1> USE Fields DEF SameStage, SameSpan, SameView
<1>1. CASE StartDeploy(p)
  BY <1>1, SMTT(30) DEF StartDeploy
<1>2. CASE EndDeploy(p)
  BY <1>2, EndFields, Zenon DEF EndDeploy
<1>3. CASE TryRetire(p)
  BY <1>3 DEF TryRetire, Drop, Types
<1>4. CASE ForceRetire(p)
  BY <1>4 DEF ForceRetire, Drop, Types
<1>5. CASE Hibernate(p)
  BY <1>5 DEF Hibernate, Types
<1>6. CASE StopApp(p)
  BY <1>6 DEF StopApp, Types
<1>7. CASE Wake(p)
  BY <1>7 DEF Wake, Types
<1> QED
  BY <1>1, <1>2, <1>3, <1>4, <1>5, <1>6, <1>7 DEF AppStep

\* The watcher and the retiring-parent notice change the view of their process.
LEMMA FollowFields ==
    ASSUME Types, NEW p \in Procs, Follows(p)
    PROVE  /\ SameStage(proc[p], proc'[p]) /\ SameSpan(proc[p], proc'[p])
           /\ SameRoutes(proc[p], proc'[p]) /\ proc'[p].held = proc[p].held
           /\ \A q \in Procs \ {p} : proc'[q] = proc[q]
           /\ UNCHANGED <<op, active, booted, owner, ptr>>
<1> USE Fields DEF SameStage, SameSpan, SameRoutes, Types, app
<1>1. CASE Notice(p)
  BY <1>1 DEF Notice
<1>2. CASE WatchTick(p)
  BY <1>2 DEF WatchTick
<1>3. CASE Cleanup(p)
  BY <1>3 DEF Cleanup
<1> QED
  BY <1>1, <1>2, <1>3 DEF Follows

\* A relay that loses sessions changes nothing but its lease.
LEMMA RelayFields ==
    ASSUME Types, NEW p \in Procs, RelayStep(p)
    PROVE  /\ SameStage(proc[p], proc'[p]) /\ SameSpan(proc[p], proc'[p])
           /\ SameView(proc[p], proc'[p]) /\ SameRoutes(proc[p], proc'[p])
           /\ \A q \in Procs \ {p} : proc'[q] = proc[q]
           /\ UNCHANGED <<app, owner, ptr>>
<1> USE Fields DEF SameStage, SameSpan, SameView, SameRoutes, Types
<1>1. CASE RelayShrinks(p)
  BY <1>1 DEF RelayShrinks
<1>2. CASE RelayExpires(p)
  BY <1>2 DEF RelayExpires
<1> QED
  BY <1>1, <1>2 DEF RelayStep

\* A step of a span of ownership changes nothing of the stage and the view.
LEMMA SpanFields ==
    ASSUME Types, NEW p \in Procs, SpanStep(p)
    PROVE  /\ SameStage(proc[p], proc'[p]) /\ SameView(proc[p], proc'[p])
           /\ proc'[p].drn = proc[p].drn /\ proc'[p].held = proc[p].held
           /\ OpenSpan(p) \/ proc'[p].route = proc[p].route
           /\ DrainGivesUp(p) \/ proc'[p].drained = proc[p].drained
           /\ \A q \in Procs \ {p} : proc'[q] = proc[q]
           /\ UNCHANGED <<op, active, booted, ptr>>
<1> USE Fields DEF SameStage, SameView, Types, app
<1>1. CASE Acquire(p)
  BY <1>1 DEF Acquire
<1>2. CASE TakeFence(p)
  BY <1>2 DEF TakeFence
<1>3. CASE OpenSpan(p)
  BY <1>3 DEF OpenSpan
<1>4. CASE SpanCloses(p)
  BY <1>4 DEF SpanCloses
<1>5. CASE DrainDone(p)
  BY <1>5 DEF DrainDone
<1>6. CASE DrainGivesUp(p)
  BY <1>6 DEF DrainGivesUp
<1>7. CASE SpanAborts(p)
  BY <1>7 DEF SpanAborts
<1> QED
  BY <1>1, <1>2, <1>3, <1>4, <1>5, <1>6, <1>7 DEF SpanStep

\* A step of an upgrade or of the exit changes nothing of the span and the view.
LEMMA StageFields ==
    ASSUME Types, NEW p \in Procs, StageStep(p)
    PROVE  /\ SameSpan(proc[p], proc'[p]) /\ SameView(proc[p], proc'[p])
           /\ proc'[p].drn = proc[p].drn
           /\ proc'[p].parent = proc[p].parent /\ proc'[p].mode = proc[p].mode
           /\ TakeAck(p) \/ Restore(p) \/ proc'[p].up = proc[p].up
           /\ Restore(p) \/ proc'[p].heir = proc[p].heir
           /\ ChildListens(p) \/ proc'[p].route = proc[p].route
           /\ Restore(p) \/ Release(p) \/ Fallback(p) \/ proc'[p].paused = proc[p].paused
           /\ \A q \in Procs \ {p} : proc'[q] = proc[q]
           /\ UNCHANGED <<sess, app>>
<1> USE Fields DEF SameSpan, SameView, Types
<1>1. CASE ChildListens(p)
  BY <1>1 DEF ChildListens
<1>2. CASE ChildActivates(p)
  BY <1>2 DEF ChildActivates
<1>3. CASE ChildReady(p)
  BY <1>3 DEF ChildReady
<1>4. CASE TakeAck(p)
  BY <1>4 DEF TakeAck
<1>5. CASE Restore(p)
  BY <1>5 DEF Restore
<1>6. CASE HTTPShut(p)
  BY <1>6 DEF HTTPShut
<1>7. CASE OwnershipStopped(p)
  BY <1>7 DEF OwnershipStopped
<1>8. CASE Seal(p)
  BY <1>8 DEF Seal
<1>9. CASE PublishSeal(p)
  BY <1>9 DEF PublishSeal
<1>10. CASE Release(p)
  BY <1>10 DEF Release
<1>11. CASE Retire(p)
  BY <1>11 DEF Retire
<1>12. CASE Fallback(p)
  BY <1>12 DEF Fallback
<1> QED
  BY <1>1, <1>2, <1>3, <1>4, <1>5, <1>6, <1>7, <1>8, <1>9, <1>10, <1>11, <1>12 DEF StageStep

\* The steps of an operation, of the watch, of a relay and of ownership leave
\* the stage of their process alone.
LEMMA StageKept ==
    ASSUME Types, OpInv, NEW p \in Procs,
           AppStep(p) \/ Follows(p) \/ RelayStep(p) \/ SpanStep(p)
    PROVE  /\ SameStage(proc[p], proc'[p])
           /\ DrainGivesUp(p) \/ proc'[p].drained = proc[p].drained
           /\ \A q \in Procs \ {p} : proc'[q] = proc[q]
           /\ ptr' = ptr
<1>1. CASE AppStep(p)
  BY <1>1, AppFields DEF SameSpan
<1>2. CASE Follows(p)
  BY <1>2, FollowFields DEF SameSpan
<1>3. CASE RelayStep(p)
  BY <1>3, RelayFields DEF SameSpan
<1>4. CASE SpanStep(p)
  BY <1>4, SpanFields
<1> QED
  BY <1>1, <1>2, <1>3, <1>4


\* How the steps of an upgrade and of a retirement move their process.
LEMMA StageMoves ==
    ASSUME Types, NEW p \in Procs
    PROVE  LET r == proc[p]
               t == proc'[p]
           IN
           /\ ChildListens(p) =>
                /\ r.at = "booting" /\ t.at = "listening" /\ t.route = active
                /\ t.lock = r.lock /\ t.held = r.held /\ owner' = owner /\ ptr' = ptr
           /\ ChildActivates(p) =>
                /\ r.at = "listening" /\ t.at = "pointed"
                /\ t.lock = r.lock /\ t.held = r.held /\ owner' = owner /\ ptr' = p
           /\ ChildReady(p) =>
                /\ r.at = "pointed" /\ t.at = "serving"
                /\ t.lock = r.lock /\ t.held = r.held /\ owner' = owner /\ ptr' = ptr
           /\ TakeAck(p) =>
                /\ r.up = "waiting" /\ proc[r.heir].at = "serving" /\ r.heir \in Procs
                /\ t.at = "closed" /\ t.up = "done"
                /\ t.lock = r.lock /\ t.held = r.held /\ owner' = owner /\ ptr' = ptr
           /\ Restore(p) =>
                /\ r.up = "failing" /\ t.up = "idle" /\ t.heir = 0 /\ ~t.paused
                /\ t.at = r.at
                /\ t.lock = r.lock /\ t.held = r.held /\ owner' = owner /\ ptr' = p
           /\ HTTPShut(p) =>
                /\ r.at = "closed" /\ t.at = "stopping"
                /\ t.lock = r.lock /\ t.held = r.held /\ owner' = owner /\ ptr' = ptr
           /\ OwnershipStopped(p) =>
                /\ r.at = "stopping" /\ r.span = "none" /\ t.at = "stopped"
                /\ owner' = (IF owner = p /\ r.drained THEN 0 ELSE owner)
                /\ t.quiet = r.quiet
                /\ t.lock = r.lock /\ t.held = r.held /\ ptr' = ptr
           /\ Seal(p) =>
                /\ r.at = "stopped" /\ Sealable(p) /\ t.at = "sealing" /\ t.quiet = r.quiet
                /\ t.lock = "locked" /\ t.held = r.held /\ owner' = owner /\ ptr' = ptr
           /\ PublishSeal(p) =>
                /\ r.at = "sealing" /\ t.at = "sealed"
                /\ t.lock = "sealed" /\ t.held = Carries(p) /\ owner' = owner /\ ptr' = ptr
           /\ Release(p) =>
                /\ r.at = "sealed" /\ t.at = "freed" /\ ~t.paused
                /\ t.lock = r.lock /\ t.held = r.held /\ owner' = owner /\ ptr' = ptr
           /\ Retire(p) =>
                /\ r.at = "freed" /\ t.at = "relaying"
                /\ t.lock = r.lock /\ t.held = r.held /\ owner' = owner /\ ptr' = ptr
           /\ Fallback(p) =>
                /\ r.at = "sealing" \/ (r.at = "stopped" /\ ~Sealable(p))
                /\ t.at = "draining" /\ (t.paused => r.paused)
                /\ (r.paused /\ ~r.drained => t.paused)
                /\ t.quiet = r.quiet
                /\ t.lock = "free" /\ t.held = r.held /\ owner' = owner /\ ptr' = ptr
<1> USE Fields DEF Types
<1>1. ASSUME ChildListens(p)
      PROVE  /\ proc[p].at = "booting" /\ proc'[p].at = "listening" /\ proc'[p].route = active
             /\ proc'[p].lock = proc[p].lock /\ proc'[p].held = proc[p].held
             /\ owner' = owner /\ ptr' = ptr
  BY <1>1 DEF ChildListens
<1>2. ASSUME ChildActivates(p)
      PROVE  /\ proc[p].at = "listening" /\ proc'[p].at = "pointed"
             /\ proc'[p].lock = proc[p].lock /\ proc'[p].held = proc[p].held
             /\ owner' = owner /\ ptr' = p
  BY <1>2 DEF ChildActivates
<1>3. ASSUME ChildReady(p)
      PROVE  /\ proc[p].at = "pointed" /\ proc'[p].at = "serving"
             /\ proc'[p].lock = proc[p].lock /\ proc'[p].held = proc[p].held
             /\ owner' = owner /\ ptr' = ptr
  BY <1>3 DEF ChildReady
<1>4. ASSUME TakeAck(p)
      PROVE  /\ proc[p].up = "waiting" /\ proc[proc[p].heir].at = "serving"
             /\ proc[p].heir \in Procs
             /\ proc'[p].at = "closed" /\ proc'[p].up = "done"
             /\ proc'[p].lock = proc[p].lock /\ proc'[p].held = proc[p].held
             /\ owner' = owner /\ ptr' = ptr
  BY <1>4 DEF TakeAck, At
<1>5. ASSUME Restore(p)
      PROVE  /\ proc[p].up = "failing" /\ proc'[p].up = "idle" /\ proc'[p].heir = 0
             /\ ~proc'[p].paused
             /\ proc'[p].at = proc[p].at
             /\ proc'[p].lock = proc[p].lock /\ proc'[p].held = proc[p].held
             /\ owner' = owner /\ ptr' = p
  BY <1>5 DEF Restore
<1>6. ASSUME HTTPShut(p)
      PROVE  /\ proc[p].at = "closed" /\ proc'[p].at = "stopping"
             /\ proc'[p].lock = proc[p].lock /\ proc'[p].held = proc[p].held
             /\ owner' = owner /\ ptr' = ptr
  BY <1>6 DEF HTTPShut
<1>7. ASSUME OwnershipStopped(p)
      PROVE  /\ proc[p].at = "stopping" /\ proc[p].span = "none" /\ proc'[p].at = "stopped"
             /\ owner' = (IF owner = p /\ proc[p].drained THEN 0 ELSE owner)
             /\ proc'[p].quiet = proc[p].quiet
             /\ proc'[p].lock = proc[p].lock /\ proc'[p].held = proc[p].held /\ ptr' = ptr
  BY <1>7 DEF OwnershipStopped
<1>8. ASSUME Seal(p)
      PROVE  /\ proc[p].at = "stopped" /\ Sealable(p) /\ proc'[p].at = "sealing"
             /\ proc'[p].quiet = proc[p].quiet
             /\ proc'[p].lock = "locked" /\ proc'[p].held = proc[p].held
             /\ owner' = owner /\ ptr' = ptr
  BY <1>8 DEF Seal
<1>9. ASSUME PublishSeal(p)
      PROVE  /\ proc[p].at = "sealing" /\ proc'[p].at = "sealed"
             /\ proc'[p].lock = "sealed" /\ proc'[p].held = Carries(p) /\ owner' = owner
             /\ ptr' = ptr
  BY <1>9 DEF PublishSeal
<1>10. ASSUME Release(p)
      PROVE  /\ proc[p].at = "sealed" /\ proc'[p].at = "freed" /\ ~proc'[p].paused
             /\ proc'[p].lock = proc[p].lock /\ proc'[p].held = proc[p].held
             /\ owner' = owner /\ ptr' = ptr
  BY <1>10 DEF Release
<1>11. ASSUME Retire(p)
      PROVE  /\ proc[p].at = "freed" /\ proc'[p].at = "relaying"
             /\ proc'[p].lock = proc[p].lock /\ proc'[p].held = proc[p].held
             /\ owner' = owner /\ ptr' = ptr
  BY <1>11 DEF Retire
<1>12. ASSUME Fallback(p)
      PROVE  /\ proc[p].at = "sealing" \/ (proc[p].at = "stopped" /\ ~Sealable(p))
             /\ proc'[p].at = "draining" /\ (proc'[p].paused => proc[p].paused)
             /\ (proc[p].paused /\ ~proc[p].drained => proc'[p].paused)
             /\ proc'[p].quiet = proc[p].quiet
             /\ proc'[p].lock = "free" /\ proc'[p].held = proc[p].held /\ owner' = owner
             /\ ptr' = ptr
  <2> DEFINE b == proc[p].paused /\ ~proc[p].drained
  <2>1. b \in BOOLEAN
    OBVIOUS
  <2>2. proc' = [proc EXCEPT ![p] = [@ EXCEPT !.at = "draining", !.lock = "free",
                                             !.paused = b]]
    BY <1>12 DEF Fallback
  <2> HIDE DEF b
  <2>3. /\ proc'[p].at = "draining" /\ proc'[p].lock = "free" /\ proc'[p].paused = b
        /\ proc'[p].quiet = proc[p].quiet /\ proc'[p].held = proc[p].held
    BY <2>1, <2>2
  <2>4. /\ proc[p].at = "sealing" \/ (proc[p].at = "stopped" /\ ~Sealable(p))
        /\ owner' = owner /\ ptr' = ptr
    BY <1>12 DEF Fallback
  <2>5. /\ proc'[p].paused => proc[p].paused
        /\ proc[p].paused /\ ~proc[p].drained => proc'[p].paused
    BY <2>3, Zenon DEF b
  <2> QED
    BY <2>3, <2>4, <2>5
<1> QED
  BY <1>1, <1>2, <1>3, <1>4, <1>5, <1>6, <1>7, <1>8, <1>9, <1>10, <1>11, <1>12

\* How the steps of ownership move their process.
LEMMA SpanMoves ==
    ASSUME Types, NEW p \in Procs
    PROVE  LET r == proc[p]
               t == proc'[p]
           IN
           /\ Acquire(p) =>
                /\ r.at \in Young \cup {"serving", "closed"}
                /\ r.span = "none" /\ owner = 0 /\ owner' = p /\ t.span = "waiting"
           /\ TakeFence(p) =>
                /\ r.span = "waiting" /\ FleetFree /\ t.span = "fenced" /\ owner' = owner
           /\ OpenSpan(p) =>
                /\ r.span = "fenced" /\ t.span = "open" /\ t.route = active /\ owner' = owner
           /\ SpanCloses(p) =>
                /\ r.at = "stopping" /\ r.span = "open" /\ t.span = "closing"
                /\ owner' = owner
           /\ DrainDone(p) =>
                /\ r.span = "closing" /\ (r.paused \/ FleetFree) /\ t.span = "none"
                /\ owner' = owner
           /\ DrainGivesUp(p) =>
                r.span = "closing" /\ t.span = "none" /\ ~t.drained /\ owner' = owner
           /\ SpanAborts(p) =>
                /\ r.at = "stopping" /\ r.span \in {"waiting", "fenced"} /\ t.span = "none"
                /\ owner' = owner
<1> USE Fields DEF Types, Young
<1>1. ASSUME Acquire(p)
      PROVE  /\ proc[p].at \in Young \cup {"serving", "closed"}
             /\ proc[p].span = "none" /\ owner = 0 /\ owner' = p /\ proc'[p].span = "waiting"
  BY <1>1 DEF Acquire
<1>2. ASSUME TakeFence(p)
      PROVE  /\ proc[p].span = "waiting" /\ FleetFree /\ proc'[p].span = "fenced" /\ owner' = owner
  BY <1>2 DEF TakeFence
<1>3. ASSUME OpenSpan(p)
      PROVE  /\ proc[p].span = "fenced" /\ proc'[p].span = "open"
             /\ proc'[p].route = active /\ owner' = owner
  BY <1>3 DEF OpenSpan
<1>4. ASSUME SpanCloses(p)
      PROVE  /\ proc[p].at = "stopping" /\ proc[p].span = "open" /\ proc'[p].span = "closing"
             /\ owner' = owner
  BY <1>4 DEF SpanCloses
<1>5. ASSUME DrainDone(p)
      PROVE  /\ proc[p].span = "closing" /\ (proc[p].paused \/ FleetFree)
             /\ proc'[p].span = "none" /\ owner' = owner
  BY <1>5 DEF DrainDone
<1>6. ASSUME DrainGivesUp(p)
      PROVE  /\ proc[p].span = "closing" /\ proc'[p].span = "none"
             /\ ~proc'[p].drained /\ owner' = owner
  BY <1>6 DEF DrainGivesUp
<1>7. ASSUME SpanAborts(p)
      PROVE  /\ proc[p].at = "stopping" /\ proc[p].span \in {"waiting", "fenced"}
             /\ proc'[p].span = "none"
             /\ owner' = owner
  BY <1>7 DEF SpanAborts
<1> QED
  BY <1>1, <1>2, <1>3, <1>4, <1>5, <1>6, <1>7

-----------------------------------------------------------------------------
(* Each part of the invariant is preserved by the steps of a process.      *)

\* Stages, upgrades and leases keep in step.
LEMMA StagePreserved ==
    ASSUME Types, StageInv, OwnerInv, OpInv, HeadInv, Numbered, NEW p \in Procs, ProcStep(p)
    PROVE  StageInv'
<1> USE Fields DEF Staged, StageInv, Young, Retiring
<1>1. CASE AppStep(p) \/ Follows(p) \/ RelayStep(p) \/ SpanStep(p)
  <2>1. DrainGivesUp(p) => proc[p].at \in Young \cup {"serving", "closed", "stopping"}
    BY DEF DrainGivesUp, OwnerInv, Owned
  <2>2. Staged(proc'[p])
    BY <1>1, <2>1, StageKept DEF SameStage
  <2> QED
    BY <1>1, <2>2, StageKept
<1>2. CASE StageStep(p)
  <2> SUFFICES Staged(proc'[p])
    BY <1>2, StageFields
  <2>1. CASE ChildListens(p)
    BY <2>1 DEF ChildListens, Types
  <2>2. CASE ChildActivates(p)
    BY <2>2 DEF ChildActivates, Types
  <2>3. CASE ChildReady(p)
    BY <2>3 DEF ChildReady, Types
  <2>4. CASE TakeAck(p)
    BY <2>4 DEF TakeAck, Types
  <2>5. CASE Restore(p)
    BY <2>5 DEF Restore, Types
  <2>6. CASE HTTPShut(p)
    BY <2>6 DEF HTTPShut, Types
  <2>7. CASE OwnershipStopped(p)
    BY <2>7 DEF OwnershipStopped, Types
  <2>8. CASE PublishSeal(p)
    BY <2>8 DEF PublishSeal, Types
  <2>9. CASE Release(p)
    BY <2>9 DEF Release, Types
  <2>10. CASE Retire(p)
    BY <2>10 DEF Retire, Types
  <2>11. CASE Fallback(p)
    BY <2>11 DEF Fallback, Types
  <2>12. CASE Seal(p)
    BY <2>12 DEF Seal, Types, Sealable
  <2> QED
    BY <2>1, <2>2, <2>3, <2>4, <2>5, <2>6, <2>7, <2>8, <2>9, <2>10, <2>11, <2>12, <1>2
       DEF StageStep
<1>3. CASE Perishes(p)
  <2>1. Staged(proc'[p])
    BY <1>3, Perished DEF Ends, Fresh
  <2> QED
    BY <1>3, <2>1, Perished DEF Ends
<1>4. CASE BeginUpgrade(p)
  <2>1. PICK mode \in Modes, kid \in Procs, pauses \in BOOLEAN : ForkOf(p, mode, kid, pauses)
    BY <1>4, Forks
  <2>2. Staged(proc'[p])
    BY <1>4, <2>1, Zenon DEF ForkOf, Same, BeginUpgrade
  <2>3. Staged(proc'[kid])
    BY <2>1 DEF ForkOf, Fresh
  <2> QED
    BY <2>1, <2>2, <2>3 DEF ForkOf
<1>5. CASE UpgradeFails(p)
  <2>1. Staged(proc'[p])
    BY <1>5, Fails DEF Same
  <2>2. Staged(proc'[proc[p].heir])
    BY <1>5, Fails DEF Fresh
  <2> QED
    BY <1>5, <2>1, <2>2, Fails
<1> QED
  BY <1>1, <1>2, <1>3, <1>4, <1>5, StepKinds

\* An upgrade that may end in a relay keeps its pause until it has.
LEMMA PausePreserved ==
    ASSUME Types, StageInv, OwnerInv, OpInv, PauseInv, HeadInv, Numbered,
           NEW p \in Procs, ProcStep(p)
    PROVE  PauseInv'
<1> USE Fields DEF PauseInv, Pauses, Preserves
<1>1. CASE AppStep(p) \/ Follows(p) \/ RelayStep(p) \/ SpanStep(p)
  <2>1. DrainGivesUp(p) => proc[p].at # "draining"
    BY DEF DrainGivesUp, OwnerInv, Owned, Young
  <2>2. Pauses(proc'[p])
    BY <1>1, <2>1, StageKept DEF SameStage
  <2> QED
    BY <1>1, <2>2, StageKept
<1>2. CASE StageStep(p)
  <2> SUFFICES Pauses(proc'[p])
    BY <1>2, StageFields
  <2>1. CASE ChildListens(p)
    BY <2>1 DEF ChildListens, Types, StageInv, Staged, Young, Retiring
  <2>2. CASE ChildActivates(p)
    BY <2>2 DEF ChildActivates, Types, StageInv, Staged, Young, Retiring
  <2>3. CASE ChildReady(p)
    BY <2>3 DEF ChildReady, Types, StageInv, Staged, Young, Retiring
  <2>4. CASE TakeAck(p)
    BY <2>4 DEF TakeAck, Types, StageInv, Staged, Young, Retiring
  <2>5. CASE Restore(p)
    BY <2>5 DEF Restore, Types, StageInv, Staged, Young, Retiring
  <2>6. CASE HTTPShut(p)
    BY <2>6 DEF HTTPShut, Types, StageInv, Staged, Young, Retiring
  <2>7. CASE OwnershipStopped(p)
    BY <2>7 DEF OwnershipStopped, Types, StageInv, Staged, Young, Retiring
  <2>8. CASE Seal(p)
    BY <2>8 DEF Seal, Types, StageInv, Staged, Young, Retiring
  <2>9. CASE PublishSeal(p)
    BY <2>9 DEF PublishSeal, Types, StageInv, Staged, Young, Retiring
  <2>10. CASE Release(p)
    BY <2>10 DEF Release, Types, StageInv, Staged, Young, Retiring
  <2>11. CASE Retire(p)
    BY <2>11 DEF Retire, Types, StageInv, Staged, Young, Retiring
  <2>12. CASE Fallback(p)
    BY <2>12 DEF Fallback, Types, StageInv, Staged, Young, Retiring
  <2> QED
    BY <2>1, <2>2, <2>3, <2>4, <2>5, <2>6, <2>7, <2>8, <2>9, <2>10, <2>11, <2>12, <1>2
       DEF StageStep
<1>3. CASE Perishes(p)
  <2>1. Pauses(proc'[p])
    BY <1>3, Perished DEF Ends, Fresh
  <2> QED
    BY <1>3, <2>1, Perished DEF Ends
<1>4. CASE BeginUpgrade(p)
  <2>1. PICK mode \in Modes, kid \in Procs, pauses \in BOOLEAN : ForkOf(p, mode, kid, pauses)
    BY <1>4, Forks
  <2>2. Pauses(proc'[p])
    BY <1>4, <2>1, Bounds, Zenon DEF ForkOf, Same, BeginUpgrade
  <2>3. Pauses(proc'[kid])
    BY <2>1 DEF ForkOf, Fresh
  <2> QED
    BY <2>1, <2>2, <2>3 DEF ForkOf
<1>5. CASE UpgradeFails(p)
  <2>1. Pauses(proc'[p])
    BY <1>5, Fails DEF Same
  <2>2. Pauses(proc'[proc[p].heir])
    BY <1>5, Fails DEF Fresh
  <2> QED
    BY <1>5, <2>1, <2>2, Fails
<1> QED
  BY <1>1, <1>2, <1>3, <1>4, <1>5, StepKinds

\* A span of ownership ends before its process, and before its lease.
LEMMA OwnerPreserved ==
    ASSUME Types, StageInv, OwnerInv, OpInv, HeadInv, Numbered, NEW p \in Procs, ProcStep(p)
    PROVE  OwnerInv'
<1> USE Fields, Bounds DEF OwnerInv, Owned, Young
<1>1. CASE AppStep(p)
  <2>1. Owned(p)'
    BY <1>1, AppFields DEF SameStage, SameSpan
  <2>2. \A q \in Procs \ {p} : Owned(q)'
    BY <1>1, AppFields
  <2> QED
    BY <2>1, <2>2
<1>2. CASE Follows(p)
  <2>1. Owned(p)'
    BY <1>2, FollowFields DEF SameStage, SameSpan
  <2> QED
    BY <1>2, <2>1, FollowFields
<1>3. CASE RelayStep(p)
  <2>1. Owned(p)'
    BY <1>3, RelayFields DEF SameStage, SameSpan
  <2> QED
    BY <1>3, <2>1, RelayFields
<1>4. CASE SpanStep(p)
  <2>1. Owned(p)' /\ (owner' = owner \/ owner = 0)
    <3>1. CASE Acquire(p)
      BY <3>1, <1>4, SpanFields, SpanMoves DEF SameStage
    <3>2. CASE TakeFence(p)
      BY <3>2, <1>4, SpanFields, SpanMoves DEF SameStage
    <3>3. CASE OpenSpan(p)
      BY <3>3, <1>4, SpanFields, SpanMoves DEF SameStage
    <3>4. CASE SpanCloses(p)
      BY <3>4, <1>4, SpanFields, SpanMoves DEF SameStage
    <3>5. CASE DrainDone(p)
      BY <3>5, <1>4, SpanFields, SpanMoves DEF SameStage
    <3>6. CASE DrainGivesUp(p)
      BY <3>6, <1>4, SpanFields, SpanMoves DEF SameStage
    <3>7. CASE SpanAborts(p)
      BY <3>7, <1>4, SpanFields, SpanMoves DEF SameStage
    <3> QED
      BY <3>1, <3>2, <3>3, <3>4, <3>5, <3>6, <3>7, <1>4 DEF SpanStep
  <2> QED
    BY <1>4, <2>1, SpanFields
<1>5. CASE StageStep(p)
  <2>1. Owned(p)' /\ (owner' = owner \/ owner = p)
    <3>1. CASE ChildListens(p)
      BY <3>1, <1>5, StageFields, StageMoves DEF SameSpan
    <3>2. CASE ChildActivates(p)
      BY <3>2, <1>5, StageFields, StageMoves DEF SameSpan
    <3>3. CASE ChildReady(p)
      BY <3>3, <1>5, StageFields, StageMoves DEF SameSpan
    <3>4. CASE TakeAck(p)
      BY <3>4, <1>5, StageFields, StageMoves DEF SameSpan
    <3>5. CASE Restore(p)
      BY <3>5, <1>5, StageFields, StageMoves DEF SameSpan
    <3>6. CASE HTTPShut(p)
      BY <3>6, <1>5, StageFields, StageMoves DEF SameSpan
    <3>7. CASE OwnershipStopped(p)
      BY <3>7, <1>5, StageFields, StageMoves DEF SameSpan
    <3>8. CASE Seal(p)
      BY <3>8, <1>5, StageFields, StageMoves DEF SameSpan
    <3>9. CASE PublishSeal(p)
      BY <3>9, <1>5, StageFields, StageMoves DEF SameSpan
    <3>10. CASE Release(p)
      BY <3>10, <1>5, StageFields, StageMoves DEF SameSpan
    <3>11. CASE Retire(p)
      BY <3>11, <1>5, StageFields, StageMoves DEF SameSpan
    <3>12. CASE Fallback(p)
      BY <3>12, <1>5, StageFields, StageMoves DEF SameSpan
    <3> QED
      BY <3>1, <3>2, <3>3, <3>4, <3>5, <3>6, <3>7, <3>8, <3>9, <3>10, <3>11, <3>12, <1>5
         DEF StageStep
  <2> QED
    BY <1>5, <2>1, StageFields
<1>6. CASE Perishes(p)
  <2>1. owner' = owner
    BY <1>6, Perished, Zenon DEF Dies
  <2>2. Owned(p)'
    BY <1>6, Perished DEF Ends, Fresh
  <2> QED
    BY <1>6, <2>1, <2>2, Perished DEF Ends
<1>7. CASE BeginUpgrade(p)
  <2>1. PICK mode \in Modes, kid \in Procs, pauses \in BOOLEAN : ForkOf(p, mode, kid, pauses)
    BY <1>7, Forks
  <2>2. owner' = owner
    BY <1>7 DEF BeginUpgrade
  <2>3. Owned(p)'
    BY <2>1, <2>2 DEF ForkOf, Same
  <2>4. Owned(kid)'
    BY <2>1 DEF ForkOf, Fresh
  <2> QED
    BY <2>1, <2>2, <2>3, <2>4 DEF ForkOf
<1>8. CASE UpgradeFails(p)
  <2>1. owner' = owner
    BY <1>8 DEF UpgradeFails
  <2>2. Owned(p)'
    BY <1>8, <2>1, Fails DEF Same
  <2>3. proc'[proc[p].heir].span = "none"
    BY <1>8, Fails DEF Fresh
  <2>4. \A q \in Procs \ {p, proc[p].heir} : Owned(q)'
    BY <1>8, <2>1, Fails
  <2> QED
    BY <2>2, <2>3, <2>4
<1> QED
  BY <1>1, <1>2, <1>3, <1>4, <1>5, <1>6, <1>7, <1>8, StepKinds

\* Nobody takes the fleet lock that another holds, or beside an operation.
LEMMA FleetPreserved ==
    ASSUME Types, StageInv, OpInv, FleetInv, HeadInv, Numbered, NEW p \in Procs, ProcStep(p)
    PROVE  FleetInv'
<1>1. FleetFree => op = NoOp /\ \A q \in Procs : ~Holds(q)
  BY DEF FleetFree, FleetHeldEx, Holds
<1>2. ASSUME \A q \in Procs : Holds(q)' => Holds(q),
             op' # NoOp => op' = op \/ FleetFree
      PROVE  FleetInv'
  BY <1>1, <1>2 DEF FleetInv
<1>3. ASSUME \A q \in Procs : Holds(q)' => Holds(q) \/ (q = p /\ FleetFree), op' = op
      PROVE  FleetInv'
  BY <1>1, <1>3 DEF FleetInv
<1> USE Fields DEF Holds
<1>4. CASE AppStep(p)
  <2>1. op' # NoOp => op' = op \/ FleetFree
    <3>1. CASE StartDeploy(p)
      BY <3>1 DEF StartDeploy, CanOperate, Drop
    <3>2. CASE EndDeploy(p)
      BY <3>2 DEF EndDeploy, CanOperate, Drop
    <3>3. CASE TryRetire(p)
      BY <3>3 DEF TryRetire, CanOperate, Drop
    <3>4. CASE ForceRetire(p)
      BY <3>4 DEF ForceRetire, CanOperate, Drop
    <3>5. CASE Hibernate(p)
      BY <3>5 DEF Hibernate, CanOperate, Drop
    <3>6. CASE StopApp(p)
      BY <3>6 DEF StopApp, CanOperate, Drop
    <3>7. CASE Wake(p)
      BY <3>7 DEF Wake, CanOperate, Drop
    <3> QED
      BY <3>1, <3>2, <3>3, <3>4, <3>5, <3>6, <3>7, <1>4 DEF AppStep
  <2>2. Holds(p)' => Holds(p)
    BY <1>4, AppFields DEF SameStage, SameSpan
  <2> QED
    BY <1>2, <1>4, <2>1, <2>2, AppFields
<1>5. CASE Follows(p)
  <2>1. Holds(p)' => Holds(p)
    BY <1>5, FollowFields DEF SameStage, SameSpan
  <2> QED
    BY <1>2, <1>5, <2>1, FollowFields
<1>6. CASE RelayStep(p)
  <2>1. Holds(p)' => Holds(p)
    BY <1>6, RelayFields DEF SameStage, SameSpan
  <2> QED
    BY <1>2, <1>6, <2>1, RelayFields DEF app
<1>7. CASE SpanStep(p)
  <2>1. Holds(p)' => Holds(p) \/ FleetFree
    <3>1. CASE Acquire(p)
      BY <3>1, <1>7, SpanFields, SpanMoves DEF SameStage
    <3>2. CASE TakeFence(p)
      BY <3>2, <1>7, SpanFields, SpanMoves DEF SameStage
    <3>3. CASE OpenSpan(p)
      BY <3>3, <1>7, SpanFields, SpanMoves DEF SameStage
    <3>4. CASE SpanCloses(p)
      BY <3>4, <1>7, SpanFields, SpanMoves DEF SameStage
    <3>5. CASE DrainDone(p)
      BY <3>5, <1>7, SpanFields, SpanMoves DEF SameStage
    <3>6. CASE DrainGivesUp(p)
      BY <3>6, <1>7, SpanFields, SpanMoves DEF SameStage
    <3>7. CASE SpanAborts(p)
      BY <3>7, <1>7, SpanFields, SpanMoves DEF SameStage
    <3> QED
      BY <3>1, <3>2, <3>3, <3>4, <3>5, <3>6, <3>7, <1>7 DEF SpanStep
  <2> QED
    BY <1>3, <1>7, <2>1, SpanFields
<1>8. CASE StageStep(p)
  <2>1. Holds(p)' => Holds(p)
    <3>1. proc'[p].paused => proc[p].paused
      <4>1. CASE Restore(p)
        BY <4>1, StageMoves
      <4>2. CASE Release(p)
        BY <4>2, StageMoves
      <4>3. CASE Fallback(p)
        BY <4>3, StageMoves
      <4>4. CASE ~Restore(p) /\ ~Release(p) /\ ~Fallback(p)
        BY <1>8, <4>4, StageFields
      <4> QED
        BY <4>1, <4>2, <4>3, <4>4
    <3>2. proc'[p].span = proc[p].span
      BY <1>8, StageFields DEF SameSpan
    <3> QED
      BY <3>1, <3>2
  <2> QED
    BY <1>2, <1>8, <2>1, StageFields DEF app
<1>9. CASE Perishes(p)
  <2>1. op' = op \/ op' = NoOp
    BY <1>9, Perished, Zenon DEF Dies
  <2>2. ~Holds(p)'
    BY <1>9, Perished DEF Ends, Fresh
  <2> QED
    BY <1>2, <1>9, <2>1, <2>2, Perished DEF Ends
<1>10. CASE BeginUpgrade(p)
  <2>1. PICK mode \in Modes, kid \in Procs, pauses \in BOOLEAN : ForkOf(p, mode, kid, pauses)
    BY <1>10, Forks
  <2>2. op' = op
    BY <1>10 DEF BeginUpgrade, app
  <2>3. Holds(p)' => Holds(p) \/ FleetFree
    BY <2>1 DEF ForkOf, Same
  <2>4. ~Holds(kid)'
    BY <2>1 DEF ForkOf, Fresh
  <2> QED
    BY <1>3, <2>1, <2>2, <2>3, <2>4 DEF ForkOf
<1>11. CASE UpgradeFails(p)
  <2>1. op' = op \/ op' = NoOp
    BY <1>11 DEF UpgradeFails
  <2>2. Holds(p)' => Holds(p)
    BY <1>11, Fails DEF Same
  <2>3. \A q \in Procs : q = proc[p].heir => ~Holds(q)'
    BY <1>11, Fails, ZenonT(30) DEF Fresh
  <2> QED
    BY <1>2, <1>11, <2>1, <2>2, <2>3, Fails
<1> QED
  BY <1>4, <1>5, <1>6, <1>7, <1>8, <1>9, <1>10, <1>11, StepKinds


-----------------------------------------------------------------------------
(* Backends, operations and routes.                                        *)

\* No step of a process opens or moves a session.
LEMMA SessionsEnd ==
    ASSUME Types, OpInv, StageInv, HeadInv, NEW p \in Procs, ProcStep(p), NEW c \in Clients
    PROVE  sess'[c] \in {sess[c], NoSession}
<1>1. CASE StageStep(p)
  BY <1>1, StageFields
<1>2. CASE AppStep(p)
  <2>1. CASE StartDeploy(p)
    BY <2>1 DEF StartDeploy, Drop, Stop
  <2>2. CASE EndDeploy(p)
    BY <2>2 DEF EndDeploy, Drop, Stop
  <2>3. CASE TryRetire(p)
    BY <2>3 DEF TryRetire, Drop, Stop
  <2>4. CASE ForceRetire(p)
    BY <2>4 DEF ForceRetire, Drop, Stop
  <2>5. CASE Hibernate(p)
    BY <2>5 DEF Hibernate, Drop, Stop
  <2>6. CASE StopApp(p)
    BY <2>6 DEF StopApp, Drop, Stop
  <2>7. CASE Wake(p)
    BY <2>7 DEF Wake, Drop, Stop
  <2> QED
    BY <2>1, <2>2, <2>3, <2>4, <2>5, <2>6, <2>7, <1>2 DEF AppStep
<1>3. CASE SpanStep(p)
  <2>1. CASE Acquire(p)
    BY <2>1 DEF Acquire, app
  <2>2. CASE TakeFence(p)
    BY <2>2 DEF TakeFence, app
  <2>3. CASE OpenSpan(p)
    BY <2>3 DEF OpenSpan, app
  <2>4. CASE SpanCloses(p)
    BY <2>4 DEF SpanCloses, app
  <2>5. CASE DrainDone(p)
    BY <2>5 DEF DrainDone, app
  <2>6. CASE DrainGivesUp(p)
    BY <2>6 DEF DrainGivesUp, app
  <2>7. CASE SpanAborts(p)
    BY <2>7 DEF SpanAborts, app
  <2> QED
    BY <2>1, <2>2, <2>3, <2>4, <2>5, <2>6, <2>7, <1>3 DEF SpanStep
<1>4. CASE Follows(p)
  <2>1. CASE Notice(p)
    BY <2>1 DEF Notice, Stop
  <2>2. CASE WatchTick(p)
    BY <2>2 DEF WatchTick, Stop
  <2>3. CASE Cleanup(p)
    BY <2>3 DEF Cleanup, Stop
  <2> QED
    BY <2>1, <2>2, <2>3, <1>4 DEF Follows
<1>5. CASE RelayStep(p)
  BY <1>5 DEF RelayStep, RelayShrinks, RelayExpires
<1>6. CASE Perishes(p)
  BY <1>6, Perished, Zenon DEF Dies
<1>7. CASE BeginUpgrade(p) \/ UpgradeFails(p)
  BY <1>7, Zenon DEF BeginUpgrade, UpgradeFails
<1> QED
  BY <1>1, <1>2, <1>3, <1>4, <1>5, <1>6, <1>7, StepKinds

\* What an operation, the drainer and the lifecycle change.
LEMMA AppMoves ==
    ASSUME Types, OpInv, NEW p \in Procs
    PROVE  /\ StartDeploy(p) =>
                /\ CanOperate(p) /\ active # 0
                /\ booted + 1 \in Backends /\ booted' = booted + 1
                /\ op'.by = p /\ op'.new = booted + 1
                /\ running' = running \cup {booted + 1}
                /\ proc' = proc /\ sess' = sess /\ active' = active
           /\ EndDeploy(p) =>
                /\ op # NoOp /\ op.by = p /\ op' = NoOp /\ sess' = sess /\ booted' = booted
                /\ \/ proc' = proc /\ active' = active /\ running' = running \ {op.new}
                   \/ /\ active' = op.new /\ running' = running
                      /\ proc'[p].route = op.new
                      /\ proc'[p].drn = proc[p].drn \cup {active}
           /\ TryRetire(p) \/ ForceRetire(p) =>
                /\ op' = op /\ active' = active /\ booted' = booted
                /\ proc'[p].route = proc[p].route
                /\ \E b \in proc[p].drn :
                     /\ running' = running \ {b} /\ proc'[p].drn = proc[p].drn \ {b}
                     /\ \A c \in Clients : sess[c].to = b => sess'[c] = NoSession
           /\ Hibernate(p) \/ StopApp(p) =>
                /\ CanOperate(p) /\ op' = op /\ booted' = booted
                /\ active' = 0 /\ proc'[p].route = 0 /\ proc'[p].drn = proc[p].drn
                /\ running' \subseteq running
                /\ \A c \in Clients :
                     sess[c].to \in running \ running' => sess'[c] = NoSession
           /\ Wake(p) =>
                /\ CanOperate(p) /\ active = 0 /\ op' = op /\ sess' = sess
                /\ booted + 1 \in Backends /\ booted' = booted + 1 /\ active' = booted + 1
                /\ running' = running \cup {booted + 1}
                /\ proc'[p].route = booted + 1 /\ proc'[p].drn = proc[p].drn
<1> USE Fields DEF Types
<1>1. ASSUME StartDeploy(p)
      PROVE  /\ CanOperate(p) /\ active # 0
             /\ booted + 1 \in Backends /\ booted' = booted + 1
             /\ op'.by = p /\ op'.new = booted + 1
             /\ running' = running \cup {booted + 1}
             /\ proc' = proc /\ sess' = sess /\ active' = active
  BY <1>1, NextBackend DEF StartDeploy
<1>2. ASSUME EndDeploy(p)
      PROVE  /\ op # NoOp /\ op.by = p /\ op' = NoOp /\ sess' = sess /\ booted' = booted
             /\ \/ proc' = proc /\ active' = active /\ running' = running \ {op.new}
                \/ /\ active' = op.new /\ running' = running
                   /\ proc'[p].route = op.new
                   /\ proc'[p].drn = proc[p].drn \cup {active}
  BY <1>2, EndFields, Deploying, Zenon DEF EndDeploy
<1>3. ASSUME NEW b \in Backends, Drains(p, b), Drop(p, b)
      PROVE  /\ op' = op /\ active' = active /\ booted' = booted
             /\ proc'[p].route = proc[p].route
             /\ \E d \in proc[p].drn :
                  /\ running' = running \ {d} /\ proc'[p].drn = proc[p].drn \ {d}
                  /\ \A c \in Clients : sess[c].to = d => sess'[c] = NoSession
  <2>1. /\ b \in proc[p].drn /\ running' = running \ {b}
        /\ proc'[p].drn = proc[p].drn \ {b} /\ proc'[p].route = proc[p].route
    BY <1>3 DEF Drains, Drop, Stop
  <2>2. \A c \in Clients : sess[c].to = b => sess'[c] = NoSession
    BY <1>3 DEF Drop, Stop
  <2> QED
    BY <1>3, <2>1, <2>2 DEF Drop
<1>4. ASSUME TryRetire(p) \/ ForceRetire(p)
      PROVE  \E b \in Backends : Drains(p, b) /\ Drop(p, b)
  BY <1>4 DEF TryRetire, ForceRetire
<1>5. ASSUME Hibernate(p) \/ StopApp(p)
      PROVE  /\ CanOperate(p) /\ op' = op /\ booted' = booted
             /\ active' = 0 /\ proc'[p].route = 0 /\ proc'[p].drn = proc[p].drn
             /\ running' \subseteq running
             /\ \A c \in Clients :
                  sess[c].to \in running \ running' => sess'[c] = NoSession
  <2>1. CASE Hibernate(p)
    BY <2>1 DEF Hibernate, Stop
  <2>2. CASE StopApp(p)
    BY <2>2 DEF StopApp, Stop
  <2> QED
    BY <1>5, <2>1, <2>2
<1>6. ASSUME Wake(p)
      PROVE  /\ CanOperate(p) /\ active = 0 /\ op' = op /\ sess' = sess
             /\ booted + 1 \in Backends /\ booted' = booted + 1 /\ active' = booted + 1
             /\ running' = running \cup {booted + 1}
             /\ proc'[p].route = booted + 1 /\ proc'[p].drn = proc[p].drn
  BY <1>6, NextBackend DEF Wake
<1> QED
  BY <1>1, <1>2, <1>3, <1>4, <1>5, <1>6

\* What the end of a recovery and the cleanup after a parent stop.
LEMMA Recovers ==
    ASSUME Types, NEW p \in Procs, OpenSpan(p) \/ Cleanup(p)
    PROVE  /\ running' \subseteq running /\ (active \in running => active \in running')
           /\ \A c \in Clients :
                sess[c].to \in running \ running' => sess'[c] = NoSession
           /\ UNCHANGED <<op, active, booted>>
<1>1. CASE OpenSpan(p)
  BY <1>1 DEF OpenSpan, Obsolete
<1>2. CASE Cleanup(p)
  BY <1>2 DEF Cleanup, Stop, Obsolete
<1> QED
  BY <1>1, <1>2

\* The other steps leave the app alone.
LEMMA AppKept ==
    ASSUME Types, StageInv, HeadInv, Numbered, NEW p \in Procs, ProcStep(p), ~AppStep(p)
    PROVE  /\ active' = active /\ booted' = booted /\ op' \in {op, NoOp}
           /\ OpenSpan(p) \/ Cleanup(p) \/ running' = running
           /\ \A q \in Procs :
                /\ proc'[q].route \in {proc[q].route, active, 0}
                /\ proc'[q].drn \subseteq proc[q].drn
<1> USE DEF app
<1>1. CASE StageStep(p)
  <2>1. proc'[p].route \in {proc[p].route, active, 0} /\ proc'[p].drn \subseteq proc[p].drn
    BY <1>1, StageFields, StageMoves
  <2> QED
    BY <1>1, <2>1, StageFields
<1>2. CASE SpanStep(p)
  <2>1. proc'[p].route \in {proc[p].route, active, 0} /\ proc'[p].drn \subseteq proc[p].drn
    BY <1>2, SpanFields, SpanMoves
  <2>2. OpenSpan(p) \/ running' = running
    BY <1>2 DEF SpanStep, Acquire, TakeFence, SpanCloses, DrainDone, DrainGivesUp, SpanAborts
  <2> QED
    BY <1>2, <2>1, <2>2, SpanFields
<1>3. CASE Follows(p)
  <2>1. Cleanup(p) \/ running' = running
    BY <1>3 DEF Follows, Notice, WatchTick
  <2> QED
    BY <1>3, <2>1, FollowFields DEF SameRoutes
<1>4. CASE RelayStep(p)
  BY <1>4, RelayFields DEF SameRoutes
<1>5. CASE Perishes(p)
  BY <1>5, Perished, Zenon DEF Ends, Fresh, Dies
<1>6. CASE BeginUpgrade(p)
  <2>1. PICK mode \in Modes, kid \in Procs, pauses \in BOOLEAN : ForkOf(p, mode, kid, pauses)
    BY <1>6, Forks
  <2>2. \A q \in Procs :
          /\ proc'[q].route \in {proc[q].route, active, 0}
          /\ proc'[q].drn \subseteq proc[q].drn
    BY <2>1 DEF ForkOf, Same, Fresh
  <2> QED
    BY <1>6, <2>2, Zenon DEF BeginUpgrade
<1>7. CASE UpgradeFails(p)
  <2>1. \A q \in Procs :
          /\ proc'[q].route \in {proc[q].route, active, 0}
          /\ proc'[q].drn \subseteq proc[q].drn
    <3>1. proc'[p].route = proc[p].route /\ proc'[p].drn = proc[p].drn
      BY <1>7, Fails DEF Same
    <3>2. proc'[proc[p].heir].route = 0 /\ proc'[proc[p].heir].drn = {}
      BY <1>7, Fails DEF Fresh
    <3> QED
      BY <1>7, <3>1, <3>2, Fails
  <2> QED
    BY <1>7, <2>1 DEF UpgradeFails
<1> QED
  BY <1>1, <1>2, <1>3, <1>4, <1>5, <1>6, <1>7, StepKinds

\* Sessions end with their backend, except that of a candidate, which has none.
LEMMA SessionsRun ==
    ASSUME Types, StageInv, OpInv, BackendInv, HeadInv, Numbered, NEW p \in Procs, ProcStep(p)
    PROVE  \A c \in Clients : sess'[c] # NoSession =>
             sess'[c] = sess[c] /\ sess'[c].to \in running'
<1> SUFFICES ASSUME NEW c \in Clients, sess'[c] # NoSession
             PROVE  sess'[c] = sess[c] /\ sess'[c].to \in running'
  OBVIOUS
<1>1. sess'[c] = sess[c] /\ sess[c].to \in running
  BY SessionsEnd DEF BackendInv
<1>2. CASE AppStep(p)
  <2>1. CASE StartDeploy(p)
    BY <1>1, <2>1, AppMoves
  <2>2. CASE EndDeploy(p)
    BY <1>1, <2>2, AppMoves DEF OpInv
  <2>3. CASE TryRetire(p) \/ ForceRetire(p)
    BY <1>1, <2>3, AppMoves
  <2>4. CASE Hibernate(p) \/ StopApp(p)
    BY <1>1, <2>4, AppMoves
  <2>5. CASE Wake(p)
    BY <1>1, <2>5, AppMoves
  <2> QED
    BY <1>2, <2>1, <2>2, <2>3, <2>4, <2>5 DEF AppStep
<1>3. CASE OpenSpan(p) \/ Cleanup(p)
  BY <1>1, <1>3, Recovers
<1>4. CASE ~AppStep(p) /\ ~(OpenSpan(p) \/ Cleanup(p))
  BY <1>1, <1>4, AppKept
<1> QED
  BY <1>2, <1>3, <1>4

\* The backends that the processes know of exist, and the active one runs.
LEMMA BackendPreserved ==
    ASSUME Types, StageInv, OpInv, FleetInv, BackendInv, HeadInv, Numbered,
           NEW p \in Procs, ProcStep(p)
    PROVE  BackendInv'
<1>1. Types'
  BY TypesStep
<1>2. \A c \in Clients : sess'[c] # NoSession => sess'[c].to \in running'
  BY SessionsRun
<1> DEFINE Known(q) == /\ proc[q].route <= booted /\ proc[q].drn \subseteq 1..booted
                       /\ active \notin proc[q].drn
<1>3. SUFFICES /\ running' \subseteq 1..booted'
               /\ active' # 0 => active' \in running'
               /\ \A q \in Procs : Known(q)'
  BY <1>2 DEF BackendInv
<1>4. CASE AppStep(p)
  <2>1. \A q \in Procs : proc[q].route \in Nat /\ 1..booted \subseteq Nat /\ booted \in Nat
    BY Bounds, Fields DEF Types
  <2>2. ASSUME booted' \in {booted, booted + 1}, running' \subseteq 1..booted',
               active' # 0 => active' \in running', Known(p)',
               active' \in {0, active} \/ \A q \in Procs : active' \notin proc[q].drn
        PROVE  /\ running' \subseteq 1..booted'
               /\ active' # 0 => active' \in running'
               /\ \A q \in Procs : Known(q)'
    <3>1. \A q \in Procs : proc[q].drn \subseteq 1..booted /\ 0 \notin proc[q].drn
      BY Bounds, Fields DEF BackendInv
    <3>2. \A q \in Procs \ {p} : proc'[q] = proc[q]
      BY <1>4, AppFields
    <3>3. \A q \in Procs \ {p} : active' \notin proc[q].drn
      BY <2>2, <3>1 DEF BackendInv
    <3>4. \A q \in Procs \ {p} : proc[q].route <= booted' /\ proc[q].drn \subseteq 1..booted'
      BY <2>1, <2>2, <3>1 DEF BackendInv
    <3> QED
      BY <2>2, <3>2, <3>3, <3>4
  <2>3. /\ running \subseteq 1..booted
        /\ active # 0 => active \in running
        /\ proc[p].route <= booted /\ proc[p].drn \subseteq 1..booted
        /\ active \notin proc[p].drn /\ 0 \notin proc[p].drn
    BY Bounds, Fields DEF BackendInv
  <2>4. /\ 1..booted \subseteq 1..(booted + 1) /\ booted + 1 \in 1..(booted + 1)
        /\ booted + 1 \notin 1..booted /\ proc[p].route <= booted + 1 /\ 0 <= booted
    BY <2>1, <2>3
  <2>5. CASE StartDeploy(p)
    <3>1. Known(p)'
      BY <2>3, <2>4, <2>5, AppMoves
    <3>2. running' \subseteq 1..booted' /\ (active' # 0 => active' \in running')
      BY <2>3, <2>4, <2>5, AppMoves
    <3> QED
      BY <2>2, <2>5, <3>1, <3>2, AppMoves
  <2>6. CASE EndDeploy(p)
    <3>1. op.new = booted /\ op.new \in running /\ active \notin {0, op.new}
          /\ \A q \in Procs : op.new \notin proc[q].drn
      BY <2>6, AppMoves DEF OpInv
    <3>2. booted' = booted
      BY <2>6, AppMoves
    <3>3. CASE proc' = proc /\ active' = active /\ running' = running \ {op.new}
      BY <2>1, <2>2, <2>3, <3>1, <3>2, <3>3
    <3>4. CASE /\ active' = op.new /\ running' = running /\ proc'[p].route = op.new
               /\ proc'[p].drn = proc[p].drn \cup {active}
      <4>1. booted <= booted /\ active \in 1..booted
        <5>1. booted \in Nat
          BY Bounds DEF Types
        <5>2. booted <= booted
          BY <5>1
        <5>3. active \in running /\ running \subseteq 1..booted
          BY <2>3, <3>1
        <5> QED
          BY <5>2, <5>3
      <4>2. proc'[p].route <= booted' /\ proc'[p].drn \subseteq 1..booted'
        BY <2>3, <3>1, <3>2, <3>4, <4>1
      <4>3. active' \notin proc'[p].drn
        BY <3>1, <3>4
      <4> QED
        BY <2>2, <2>3, <3>1, <3>2, <3>4, <4>2, <4>3
    <3> QED
      BY <2>6, <3>3, <3>4, AppMoves
  <2>7. CASE TryRetire(p) \/ ForceRetire(p)
    <3>1. /\ active' = active /\ booted' = booted /\ proc'[p].route = proc[p].route
          /\ \E b \in proc[p].drn :
               running' = running \ {b} /\ proc'[p].drn = proc[p].drn \ {b}
      BY <2>7, AppMoves, Zenon
    <3>2. PICK b \in proc[p].drn :
            running' = running \ {b} /\ proc'[p].drn = proc[p].drn \ {b}
      BY <3>1
    <3>3. running' \subseteq 1..booted' /\ (active' # 0 => active' \in running')
      BY <2>3, <3>1, <3>2
    <3>4. Known(p)'
      BY <2>3, <3>1, <3>2
    <3> QED
      BY <2>2, <3>1, <3>3, <3>4
  <2>8. CASE Hibernate(p) \/ StopApp(p)
    <3>1. Known(p)'
      BY <2>3, <2>4, <2>8, AppMoves
    <3> QED
      BY <2>2, <2>3, <2>8, <3>1, AppMoves
  <2>9. CASE Wake(p)
    <3>1. \A q \in Procs : booted + 1 \notin proc[q].drn
      BY <2>4 DEF BackendInv
    <3>2. Known(p)'
      BY <2>3, <2>4, <2>9, <3>1, AppMoves
    <3>3. running' \subseteq 1..booted' /\ active' \in running'
      BY <2>3, <2>4, <2>9, AppMoves
    <3> QED
      BY <2>2, <2>9, <3>1, <3>2, <3>3, AppMoves
  <2> QED
    BY <1>4, <2>5, <2>6, <2>7, <2>8, <2>9 DEF AppStep
<1>5. CASE ~AppStep(p)
  <2>1. running' \subseteq running /\ (active \in running => active \in running')
    BY <1>5, AppKept, Recovers
  <2>2. active' = active /\ booted' = booted
    BY <1>5, AppKept
  <2>3. \A q \in Procs : Known(q)'
    BY <1>5, AppKept, <2>2, Bounds, Fields DEF BackendInv, Types
  <2> QED
    BY <2>1, <2>2, <2>3 DEF BackendInv
<1> QED
  BY <1>4, <1>5

\* The process that an operation counts on keeps its span, or its excuse.
Deploys(q) == proc[q].span \in {"open", "closing"} \/ ~proc[q].drained

\* The process that deploys keeps its span, or has not been waited for, for as
\* long as its operation lasts.
LEMMA DeploysOn ==
    ASSUME Types, StageInv, OwnerInv, FleetInv, OpInv, HeadInv, Numbered,
           NEW p \in Procs, ProcStep(p), op # NoOp, op' # NoOp
    PROVE  /\ op' = op /\ Deploys(op.by)'
           /\ \A q \in Procs : proc'[q].span = "open" => proc[q].span = "open"
<1>1. /\ \A q \in Procs : ~Holds(q)
      /\ ~FleetFree /\ \A q \in Procs : ~CanOperate(q)
  BY DEF FleetInv, FleetFree, CanOperate
<1>2. op.by \in Procs /\ Deploys(op.by)
  BY Bounds DEF Types, Operations, OpInv, Deploys
<1> DEFINE Goal == /\ op' = op /\ Deploys(op.by)'
                   /\ \A q \in Procs : proc'[q].span = "open" => proc[q].span = "open"
<1>3. CASE AppStep(p)
  <2>1. op' = op
    BY <1>1, <1>3, AppMoves DEF AppStep
  <2> QED
    BY <1>2, <1>3, <2>1, AppFields DEF Deploys, SameSpan
<1>4. CASE Follows(p)
  BY <1>2, <1>4, FollowFields DEF Deploys, SameSpan
<1>5. CASE RelayStep(p)
  BY <1>2, <1>5, RelayFields DEF Deploys, SameSpan, app
<1>6. CASE SpanStep(p)
  <2>1. op' = op
    BY <1>6, SpanFields
  <2>2. proc'[p].span = "open" => proc[p].span = "open"
    BY <1>1, <1>6, SpanMoves DEF SpanStep, Holds
  <2>3. Deploys(p) => Deploys(p)'
    <3>1. CASE Acquire(p)
      BY <3>1, <1>1, <1>6, SpanFields, SpanMoves DEF Deploys, Holds
    <3>2. CASE TakeFence(p)
      BY <3>2, <1>1, <1>6, SpanFields, SpanMoves DEF Deploys, Holds
    <3>3. CASE OpenSpan(p)
      BY <3>3, <1>1, <1>6, SpanFields, SpanMoves DEF Deploys, Holds
    <3>4. CASE SpanCloses(p)
      BY <3>4, <1>1, <1>6, SpanFields, SpanMoves DEF Deploys, Holds
    <3>5. CASE DrainDone(p)
      BY <3>5, <1>1, <1>6, SpanFields, SpanMoves DEF Deploys, Holds
    <3>6. CASE DrainGivesUp(p)
      BY <3>6, <1>1, <1>6, SpanFields, SpanMoves DEF Deploys, Holds
    <3>7. CASE SpanAborts(p)
      BY <3>7, <1>1, <1>6, SpanFields, SpanMoves DEF Deploys, Holds
    <3> QED
      BY <3>1, <3>2, <3>3, <3>4, <3>5, <3>6, <3>7, <1>6 DEF SpanStep
  <2> QED
    BY <1>2, <1>6, <2>1, <2>2, <2>3, SpanFields DEF Deploys
<1>7. CASE StageStep(p)
  BY <1>2, <1>7, StageFields DEF Deploys, SameSpan, app
<1>8. CASE Perishes(p)
  <2>1. op' = op /\ op.by # p
    BY <1>8, Perished, Zenon DEF Dies
  <2>2. proc'[p].span = "none"
    BY <1>8, Perished DEF Ends, Fresh
  <2> QED
    BY <1>2, <1>8, <2>1, <2>2, Perished DEF Ends, Deploys
<1>9. CASE BeginUpgrade(p)
  <2>1. PICK mode \in Modes, kid \in Procs, pauses \in BOOLEAN : ForkOf(p, mode, kid, pauses)
    BY <1>9, Forks
  <2>2. op' = op
    BY <1>9 DEF BeginUpgrade, app
  <2>3. op.by # kid
    BY <1>2, <2>1, Bounds DEF ForkOf, Deploys, StageInv, Staged, OwnerInv, Owned, Young
  <2>4. proc'[kid].span = "none"
    BY <2>1 DEF ForkOf, Fresh
  <2>5. proc'[p].span = proc[p].span /\ proc'[p].drained = proc[p].drained
    BY <2>1 DEF ForkOf, Same
  <2> QED
    BY <1>2, <2>1, <2>2, <2>3, <2>4, <2>5 DEF ForkOf, Deploys
<1>10. CASE UpgradeFails(p)
  <2>1. op' = op /\ op.by # proc[p].heir
    BY <1>10 DEF UpgradeFails
  <2>2. proc'[p].span = proc[p].span /\ proc'[p].drained = proc[p].drained
    BY <1>10, Fails DEF Same
  <2>3. proc'[proc[p].heir].span = "none"
    BY <1>10, Fails DEF Fresh
  <2> QED
    BY <1>2, <1>10, <2>1, <2>2, <2>3, Fails DEF Deploys
<1> QED
  BY <1>3, <1>4, <1>5, <1>6, <1>7, <1>8, <1>9, <1>10, StepKinds

\* Nobody gets to know the candidate of a deploy before the deploy ends.
LEMMA OpPreserved ==
    ASSUME Types, StageInv, OwnerInv, FleetInv, OpInv, BackendInv, HeadInv, Numbered,
           NEW p \in Procs, ProcStep(p)
    PROVE  OpInv'
<1> SUFFICES ASSUME op' # NoOp PROVE OpInv'
  BY DEF OpInv
<1>1. Types'
  BY TypesStep
<1>2. CASE op = NoOp
  <2>1. StartDeploy(p)
    BY <1>2, AppMoves, AppKept DEF AppStep
  <2>2. /\ CanOperate(p) /\ active # 0
        /\ booted + 1 \in Backends /\ booted' = booted + 1
        /\ op'.by = p /\ op'.new = booted + 1
        /\ running' = running \cup {booted + 1}
        /\ proc' = proc /\ sess' = sess /\ active' = active
    BY <2>1, AppMoves
  <2>3. active <= booted /\ active # booted + 1
    BY <2>2, Bounds DEF BackendInv, Types
  <2>4. \A q \in Procs : booted + 1 # proc[q].route /\ booted + 1 \notin proc[q].drn
    BY <2>2, Bounds, Fields DEF BackendInv, Types
  <2>5. \A c \in Clients : sess[c].to # booted + 1
    <3>1. \A c \in Clients : sess[c] = NoSession \/ sess[c].to \in 1..booted
      BY DEF BackendInv
    <3> QED
      BY <2>2, <3>1, Bounds DEF Types, NoSession
  <2>6. \A q \in Procs : proc[q].span = "open" => q = p
    BY <2>2, Bounds DEF CanOperate, OwnerInv, Owned
  <2>7. proc[p].span = "open"
    BY <2>2 DEF CanOperate
  <2> QED
    BY <2>2, <2>3, <2>4, <2>5, <2>6, <2>7 DEF OpInv
<1>3. CASE op # NoOp
  <2>1. /\ op' = op /\ Deploys(op.by)'
        /\ \A q \in Procs : proc'[q].span = "open" => proc[q].span = "open"
    BY <1>3, DeploysOn
  <2>2. /\ ~FleetFree /\ \A q \in Procs : ~CanOperate(q)
    BY <1>3 DEF FleetFree, CanOperate
  <2>3. /\ op.new = booted /\ op.new \in running /\ active \notin {0, op.new}
        /\ \A q \in Procs : op.new # proc[q].route /\ op.new \notin proc[q].drn
        /\ \A c \in Clients : sess[c].to # op.new
        /\ \A q \in Procs : proc[q].span = "open" => op.by = q
    BY <1>3 DEF OpInv
  <2>4. op.new # 0 /\ NoSession.to = 0
    BY <1>3, Bounds DEF Types, Operations, NoSession
  <2>5. \A c \in Clients : sess'[c].to # op.new
    BY <2>3, <2>4, SessionsEnd
  <2>6. CASE AppStep(p)
    <3>1. TryRetire(p) \/ ForceRetire(p)
      BY <1>3, <2>1, <2>2, <2>6, AppMoves DEF AppStep
    <3>2. /\ active' = active /\ booted' = booted
          /\ proc'[p].route = proc[p].route
          /\ \E b \in proc[p].drn : running' = running \ {b} /\ proc'[p].drn = proc[p].drn \ {b}
      BY <3>1, AppMoves
    <3>3. \A q \in Procs \ {p} : proc'[q] = proc[q]
      BY <2>6, AppFields
    <3> QED
      BY <2>1, <2>3, <2>5, <3>2, <3>3 DEF OpInv, Deploys
  <2>7. CASE ~AppStep(p)
    <3>1. running' = running \/ OpenSpan(p)
      BY <2>2, <2>7, AppKept DEF Cleanup
    <3>2. ~OpenSpan(p)
      BY <1>3 DEF OpenSpan, FleetInv, Holds
    <3> QED
      BY <2>1, <2>3, <2>4, <2>5, <2>7, <3>1, <3>2, AppKept DEF OpInv, Deploys
  <2> QED
    BY <2>6, <2>7
<1> QED
  BY <1>2, <1>3

\* No process decides about the app while the fleet is paused; so a process that
\* does is the head, or the upgrade of the head does not wait for it.
LEMMA Decider ==
    ASSUME Types, StageInv, OwnerInv, FleetInv, PauseInv, OpInv,
           NEW s \in Procs, Head(s), NEW p \in Procs, op.by = p \/ CanOperate(p)
    PROVE  /\ p = s \/ DrainReload(s)
           /\ \A q \in Procs : Kid(s, q) => proc[s].mode = "drain"
<1>1. /\ \A q \in Procs : ~Holds(q)
      /\ proc[p].span \in {"open", "closing"} \/ ~proc[p].drained
  <2>1. CASE op.by = p
    BY <2>1, Deploying DEF OpInv, FleetInv
  <2>2. CASE CanOperate(p)
    BY <2>2 DEF CanOperate, FleetFree, FleetHeldEx, Holds
  <2> QED
    BY <2>1, <2>2
<1>2. \A q \in Procs : proc[q].mode \in {"unread", "preserve", "drain"}
  BY Bounds, Fields
<1>3. \A q \in Procs : Kid(s, q) => proc[s].mode = "drain"
  <2> SUFFICES ASSUME proc[s].up = "waiting" PROVE proc[s].mode = "drain"
    BY DEF Kid
  <2>1. proc[s].mode \in Modes
    BY DEF StageInv, Staged
  <2>2. proc[s].mode # "preserve"
    BY <1>1 DEF PauseInv, Pauses, Preserves, Holds
  <2> QED
    BY <2>1, <2>2, Bounds
<1>4. CASE p > s
  <2>1. proc[p].at \notin {"none", "dead"}
    BY <1>1 DEF StageInv, Staged, OwnerInv, Owned, Young
  <2>2. Kid(s, p)
    BY <1>4, <2>1 DEF Head, Younger
  <2> QED
    BY <1>3, <2>2 DEF DrainReload
<1>5. CASE p < s
  <2>1. proc[p].at \notin Gone
    BY <1>1 DEF StageInv, Staged, OwnerInv, Owned, Young, Gone
  <2>2. proc[s].parent = p /\ proc[s].up = "idle" /\ proc[p].at \in Retiring
    BY <1>5, <2>1 DEF Head, Older
  <2>3. proc[p].up = "done" /\ proc[p].mode \in Modes
    BY <2>2 DEF StageInv, Staged, Retiring
  <2>4. proc[p].mode # "preserve"
    <3>1. proc[p].at \in {"closed", "stopping", "stopped", "draining"}
      BY <1>1, <2>2 DEF StageInv, Staged, OwnerInv, Owned, Retiring, Young
    <3>2. proc[p].at = "draining" => ~proc[p].drained
      BY <1>1 DEF OwnerInv, Owned, Young
    <3> QED
      BY <1>1, <3>1, <3>2 DEF PauseInv, Pauses, Preserves, Holds
  <2>5. proc[p].mode = "drain"
    BY <2>3, <2>4, Bounds
  <2> QED
    BY <1>3, <2>2, <2>5 DEF DrainReload
<1>6. p = s \/ p > s \/ p < s
  BY Bounds
<1> QED
  BY <1>3, <1>4, <1>5, <1>6

\* The steps of operations that change the active deployment.
LEMMA Activates ==
    ASSUME Types, OpInv, StageInv, HeadInv, Numbered, NEW p \in Procs, ProcStep(p),
           active' # active
    PROVE  /\ AppStep(p) /\ (op.by = p \/ CanOperate(p))
           /\ proc'[p].route = active'
           /\ \A q \in Procs : proc[q].span = "open" => op = NoOp \/ q = p
<1>1. AppStep(p)
  BY AppKept
<1>2. EndDeploy(p) \/ Hibernate(p) \/ StopApp(p) \/ Wake(p)
  BY <1>1, AppMoves DEF AppStep
<1>3. CASE EndDeploy(p)
  BY <1>1, <1>3, AppMoves DEF OpInv
<1>4. CASE Hibernate(p) \/ StopApp(p) \/ Wake(p)
  BY <1>1, <1>4, AppMoves DEF CanOperate, FleetFree
<1> QED
  BY <1>2, <1>3, <1>4

\* The owner routes to the active deployment.
LEMMA RoutePreserved ==
    ASSUME Types, StageInv, OwnerInv, OpInv, RouteInv, HeadInv, Numbered,
           NEW p \in Procs, ProcStep(p)
    PROVE  RouteInv'
<1>1. CASE AppStep(p)
  <2>1. \A q \in Procs : proc'[q].span = proc[q].span
    BY <1>1, AppFields DEF SameSpan
  <2>2. \A q \in Procs \ {p} : proc'[q].route = proc[q].route
    BY <1>1, AppFields
  <2>3. CASE active' = active
    <3>1. proc'[p].route = proc[p].route \/ proc'[p].route = active'
      BY <1>1, AppMoves DEF AppStep
    <3> QED
      BY <2>1, <2>2, <2>3, <3>1 DEF RouteInv
  <2>4. CASE active' # active
    <3>1. proc'[p].route = active' /\ (op.by = p \/ CanOperate(p))
      BY <2>4, Activates
    <3>2. \A q \in Procs : proc[q].span = "open" => q = p
      <4>1. CASE op = NoOp
        <5>1. CanOperate(p)
          BY <3>1, <4>1, Deploying
        <5> QED
          BY <5>1, Bounds DEF CanOperate, OwnerInv, Owned
      <4>2. CASE op # NoOp
        BY <2>4, <4>2, Activates
      <4> QED
        BY <4>1, <4>2
    <3> QED
      BY <2>1, <3>1, <3>2 DEF RouteInv
  <2> QED
    BY <2>3, <2>4
<1>2. CASE ~AppStep(p)
  <2>1. active' = active
    BY <1>2, AppKept
  <2>2. CASE OpenSpan(p)
    BY <2>1, <2>2, SpanFields, SpanMoves DEF RouteInv, SpanStep
  <2>3. CASE ChildListens(p)
    BY <2>1, <2>3, StageFields, StageMoves DEF RouteInv, StageStep, SameSpan
  <2>4. CASE Perishes(p)
    BY <2>1, <2>4, Perished, ZenonT(30) DEF Ends, Fresh, RouteInv
  <2>5. CASE BeginUpgrade(p)
    <3>1. PICK mode \in Modes, kid \in Procs, pauses \in BOOLEAN : ForkOf(p, mode, kid, pauses)
      BY <2>5, Forks
    <3>2. proc'[p].span = proc[p].span /\ proc'[p].route = proc[p].route
      BY <3>1 DEF ForkOf, Same
    <3>3. proc'[kid].span = "none"
      BY <3>1 DEF ForkOf, Fresh
    <3> QED
      BY <2>1, <3>1, <3>2, <3>3 DEF ForkOf, RouteInv
  <2>6. CASE UpgradeFails(p)
    <3>1. proc'[p].span = proc[p].span /\ proc'[p].route = proc[p].route
      BY <2>6, Fails DEF Same
    <3>2. proc'[proc[p].heir].span = "none"
      BY <2>6, Fails DEF Fresh
    <3> QED
      BY <2>1, <2>6, <3>1, <3>2, Fails DEF RouteInv
  <2>7. ASSUME proc'[p].route = proc[p].route, proc'[p].span = "open" => proc[p].span = "open",
               \A q \in Procs \ {p} : proc'[q] = proc[q]
        PROVE  RouteInv'
    BY <2>1, <2>7 DEF RouteInv
  <2>8. CASE Follows(p)
    BY <2>7, <2>8, FollowFields DEF SameSpan, SameRoutes
  <2>9. CASE RelayStep(p)
    BY <2>7, <2>9, RelayFields DEF SameSpan, SameRoutes
  <2>10. CASE SpanStep(p) /\ ~OpenSpan(p)
    BY <2>7, <2>10, SpanFields, SpanMoves DEF SpanStep
  <2>11. CASE StageStep(p) /\ ~ChildListens(p)
    BY <2>7, <2>11, StageFields DEF SameSpan
  <2> QED
    BY <1>2, <2>2, <2>3, <2>4, <2>5, <2>6, <2>8, <2>9, <2>10, <2>11, StepKinds
<1> QED
  BY <1>1, <1>2

\* A process that is forked stays numbered; only an upgrade forks.
LEMMA ForkedOnce ==
    ASSUME Types, StageInv, OpInv, HeadInv, NEW p \in Procs, ProcStep(p), ~BeginUpgrade(p)
    PROVE  \A q \in Procs : proc'[q].at = "none" <=> proc[q].at = "none"
<1>1. CASE AppStep(p) \/ Follows(p) \/ RelayStep(p) \/ SpanStep(p)
  BY <1>1, StageKept DEF SameStage
<1>2. CASE StageStep(p)
  <2>1. proc'[p].at = "none" <=> proc[p].at = "none"
    <3> USE StageMoves
    <3>1. CASE Restore(p)
      BY <3>1
    <3>2. CASE Fallback(p)
      BY <3>2
    <3>3. CASE TakeAck(p)
      BY <3>3 DEF StageInv, Staged
    <3>4. CASE ~Restore(p) /\ ~Fallback(p) /\ ~TakeAck(p)
      BY <1>2, <3>4 DEF StageStep
    <3> QED
      BY <3>1, <3>2, <3>3, <3>4
  <2> QED
    BY <1>2, <2>1, StageFields
<1>3. CASE Perishes(p)
  <2>1. proc[p].at # "none"
    BY <1>3 DEF Perishes, ChildDies, RetiredDies, RelayExits, Watchdog, DrainEnds
  <2> QED
    BY <1>3, <2>1, Perished DEF Ends
<1>4. CASE UpgradeFails(p)
  <2>1. proc[proc[p].heir].at # "none" /\ proc'[p].at = proc[p].at
    BY <1>4, Fails DEF Head, Forked, Same
  <2> QED
    BY <1>4, <2>1, Fails
<1> QED
  BY <1>1, <1>2, <1>3, <1>4, StepKinds

\* Processes are numbered in the order of their forks.
LEMMA NumberedPreserved ==
    ASSUME Types, StageInv, OpInv, HeadInv, Numbered, NEW p \in Procs, ProcStep(p)
    PROVE  Numbered'
<1>1. CASE BeginUpgrade(p)
  <2>1. PICK mode \in Modes, kid \in Procs, pauses \in BOOLEAN : ForkOf(p, mode, kid, pauses)
    BY <1>1, Forks
  <2>2. proc'[p].at = proc[p].at /\ proc[p].at = "serving"
    BY <1>1, <2>1, Zenon DEF ForkOf, Same, BeginUpgrade
  <2>3. \A q \in Procs : proc'[q].at = "none" <=> q > kid
    BY <2>1, <2>2, Bounds DEF ForkOf
  <2> QED
    BY <2>3 DEF Numbered
<1>2. CASE ~BeginUpgrade(p)
  BY <1>2, ForkedOnce DEF Numbered
<1> QED
  BY <1>1, <1>2

\* Who holds a lease, and may still come to hold one, if no lease is taken.
LEMMA LimitKept ==
    ASSUME Types, LimitInv, Types',
           \A q \in Procs : proc'[q].lock # "free" => proc[q].lock # "free",
           \A q \in Procs : Preserves(proc'[q]) =>
               Preserves(proc[q]) \/ Cardinality(Live) < RelayLimit
    PROVE  LimitInv'
<1>1. Live' \subseteq Live
  BY DEF Live
<1>2. /\ IsFiniteSet(Live) /\ Cardinality(Live) \in Nat
  BY LiveFinite
<1>3. Cardinality(Live') <= Cardinality(Live) /\ Cardinality(Live') \in Nat
  BY <1>1, <1>2, FS_Subset, FS_CardinalityType
<1>4. /\ Cardinality(Live) <= RelayLimit
      /\ \A q \in Procs : Preserves(proc'[q]) => Cardinality(Live) < RelayLimit
  BY DEF LimitInv
<1> DEFINE old == Cardinality(Live)
           new == Cardinality(Live')
<1>5. old \in Nat /\ new \in Nat /\ RelayLimit \in Nat /\ new <= old
  BY <1>2, <1>3, Bounds
<1>6. old <= RelayLimit /\ \A q \in Procs : Preserves(proc'[q]) => old < RelayLimit
  BY <1>4
<1>7. LimitInv' <=> /\ new <= RelayLimit
                    /\ \A q \in Procs : Preserves(proc'[q]) => new < RelayLimit
  BY DEF LimitInv
<1> HIDE DEF old, new
<1> QED
  BY <1>5, <1>6, <1>7

\* A relay is only taken into account that the limit had room for.
LEMMA LimitPreserved ==
    ASSUME Types, StageInv, PauseInv, FleetInv, OpInv, LimitInv, HeadInv, Numbered,
           NEW p \in Procs, ProcStep(p)
    PROVE  LimitInv'
<1>1. Types'
  BY TypesStep
<1>2. ASSUME proc'[p].lock # "free" => proc[p].lock # "free",
             Preserves(proc'[p]) => Preserves(proc[p]) \/ Cardinality(Live) < RelayLimit,
             \A q \in Procs \ {p} : proc'[q] = proc[q]
      PROVE  LimitInv'
  BY <1>1, <1>2, LimitKept
<1>3. CASE AppStep(p) \/ Follows(p) \/ RelayStep(p) \/ SpanStep(p)
  BY <1>2, <1>3, StageKept DEF SameStage, Preserves
<1>4. CASE StageStep(p) /\ ~Seal(p)
  <2>1. proc'[p].mode = proc[p].mode /\ \A q \in Procs \ {p} : proc'[q] = proc[q]
    BY <1>4, StageFields
  <2>2. Staged(proc[p])
    BY DEF StageInv
  <2>3. /\ proc'[p].lock # "free" => proc[p].lock # "free"
        /\ Preserves(proc'[p]) => Preserves(proc[p])
    <3>1. CASE ChildListens(p)
      BY <3>1, <2>1, <2>2, StageMoves, StageFields, <1>4 DEF Preserves, Staged, Young, Retiring
    <3>2. CASE ChildActivates(p)
      BY <3>2, <2>1, <2>2, StageMoves, StageFields, <1>4 DEF Preserves, Staged, Young, Retiring
    <3>3. CASE ChildReady(p)
      BY <3>3, <2>1, <2>2, StageMoves, StageFields, <1>4 DEF Preserves, Staged, Young, Retiring
    <3>4. CASE TakeAck(p)
      BY <3>4, <2>1, <2>2, StageMoves, StageFields, <1>4 DEF Preserves, Staged, Young, Retiring
    <3>5. CASE Restore(p)
      BY <3>5, <2>1, <2>2, StageMoves, StageFields, <1>4 DEF Preserves, Staged, Young, Retiring
    <3>6. CASE HTTPShut(p)
      BY <3>6, <2>1, <2>2, StageMoves, StageFields, <1>4 DEF Preserves, Staged, Young, Retiring
    <3>7. CASE OwnershipStopped(p)
      BY <3>7, <2>1, <2>2, StageMoves, StageFields, <1>4 DEF Preserves, Staged, Young, Retiring
    <3>8. CASE PublishSeal(p)
      BY <3>8, <2>1, <2>2, StageMoves, StageFields, <1>4 DEF Preserves, Staged, Young, Retiring
    <3>9. CASE Release(p)
      BY <3>9, <2>1, <2>2, StageMoves, StageFields, <1>4 DEF Preserves, Staged, Young, Retiring
    <3>10. CASE Retire(p)
      BY <3>10, <2>1, <2>2, StageMoves, StageFields, <1>4 DEF Preserves, Staged, Young, Retiring
    <3>11. CASE Fallback(p)
      BY <3>11, <2>1, <2>2, StageMoves, StageFields, <1>4 DEF Preserves, Staged, Young, Retiring
    <3> QED
      BY <3>1, <3>2, <3>3, <3>4, <3>5, <3>6, <3>7, <3>8, <3>9, <3>10, <3>11, <1>4 DEF StageStep
  <2> QED
    BY <1>2, <2>1, <2>3
<1>5. CASE Seal(p)
  <2>1. /\ proc[p].at = "stopped" /\ Sealable(p) /\ proc'[p].at = "sealing"
        /\ proc'[p].lock = "locked"
    BY <1>5, StageMoves
  <2>2. /\ proc[p].lock = "free" /\ proc[p].up = "done"
    BY <2>1, Fields DEF StageInv, Staged, Retiring
  <2>3. /\ proc'[p].up = "done" /\ \A q \in Procs \ {p} : proc'[q] = proc[q]
    BY <1>5, <2>2, StageFields, StageMoves DEF StageStep
  <2>4. Preserves(proc[p])
    BY <2>1 DEF Preserves, Sealable
  <2>5. \A q \in Procs : ~Preserves(proc'[q])
    <3>1. ~Preserves(proc'[p])
      BY <2>1, <2>3 DEF Preserves
    <3>2. \A q \in Procs : Preserves(proc[q]) => q = p
      BY <2>4 DEF PauseInv, Pauses, FleetInv, Holds
    <3> QED
      BY <2>3, <3>1, <3>2
  <2>6. Live' = Live \cup {p} /\ p \notin Live
    BY <2>1, <2>2, <2>3 DEF Live
  <2>7. Cardinality(Live') = Cardinality(Live) + 1
    BY <2>6, LiveFinite, FS_AddElement
  <2>8. Cardinality(Live) < RelayLimit
    BY <2>4 DEF LimitInv
  <2> QED
    BY <2>5, <2>7, <2>8, LiveFinite, Bounds DEF LimitInv
<1>6. CASE Perishes(p)
  <2>1. /\ proc'[p].lock = "free" /\ ~Preserves(proc'[p])
        /\ \A q \in Procs \ {p} : proc'[q] = proc[q]
    BY <1>6, Perished DEF Ends, Fresh, Preserves
  <2> QED
    BY <1>2, <2>1
<1>7. CASE BeginUpgrade(p)
  <2>1. PICK mode \in Modes, kid \in Procs, pauses \in BOOLEAN : ForkOf(p, mode, kid, pauses)
    BY <1>7, Forks
  <2>2. /\ proc'[p].lock = proc[p].lock
        /\ Preserves(proc'[p]) => Cardinality(Live) < RelayLimit
    BY <2>1 DEF ForkOf, Same, Preserves, Preservable
  <2>3. proc'[kid].lock = "free" /\ ~Preserves(proc'[kid])
    BY <2>1 DEF ForkOf, Fresh, Preserves
  <2> QED
    BY <1>1, <2>1, <2>2, <2>3, LimitKept DEF ForkOf
<1>8. CASE UpgradeFails(p)
  <2>1. proc'[p].lock = proc[p].lock /\ ~Preserves(proc'[p])
    BY <1>8, Fails DEF Same, Preserves
  <2>2. /\ proc'[proc[p].heir].lock = "free"
        /\ ~Preserves(proc'[proc[p].heir])
    BY <1>8, Fails DEF Fresh, Preserves
  <2>3. \A q \in Procs \ {p, proc[p].heir} : proc'[q] = proc[q]
    BY <1>8, Fails
  <2> QED
    BY <1>1, <2>1, <2>2, <2>3, LimitKept
<1> QED
  BY <1>3, <1>4, <1>5, <1>6, <1>7, <1>8, StepKinds

-----------------------------------------------------------------------------
(* The chain of processes.                                                 *)

\* The mode by which the lifecycle may fall behind, of the head or its parent.
LEMMA DrainForm ==
    ASSUME NEW s \in Procs
    PROVE  /\ DrainReload(s) <=> \E q \in Procs : q \in {s, proc[s].parent}
                                                   /\ proc[q].mode = "drain"
           /\ DrainReload(s)' <=> \E q \in Procs : q \in {s, proc'[s].parent}
                                                   /\ proc'[q].mode = "drain"
BY DEF DrainReload

\* What does not matter to the head.
LEMMA HeadKept ==
    ASSUME Types, NEW s \in Procs, Head(s),
           proc'[s].at = proc[s].at /\ proc'[s].parent = proc[s].parent,
           proc'[s].heir = proc[s].heir /\ proc'[s].up = proc[s].up,
           \A q \in Procs : proc'[q].mode = proc[q].mode,
           \A q \in Procs : q < s =>
               \/ proc'[q].at = proc[q].at \/ proc'[q].at \in Gone
               \/ proc[q].at \in Retiring /\ proc'[q].at \in Retiring,
           \A q \in Procs : q > s =>
               /\ proc'[q].at = proc[q].at /\ proc'[q].parent = proc[q].parent
               /\ proc'[q].up = proc[q].up
               /\ Kid(s, q) /\ proc[s].mode # "drain" /\ proc[q].at # "booting"
                    => proc'[q].route = active',
           ptr' = ptr,
           ~DrainReload(s) => proc'[s].route = active'
    PROVE  Head(s)'
<1>1. Older(s)'
  <2> SUFFICES ASSUME NEW q \in Procs, q < s
               PROVE  \/ proc'[q].at \in Gone
                      \/ /\ proc'[s].parent = q /\ proc'[s].up = "idle"
                         /\ proc'[q].at \in Retiring
    BY DEF Older
  <2> QED
    BY DEF Head, Older, Gone, Retiring
<1>2. Younger(s)'
  <2> SUFFICES ASSUME NEW q \in Procs, q > s, proc[q].at \notin {"none", "dead"}
               PROVE  Kid(s, q)'
    BY DEF Younger
  <2>1. Kid(s, q)
    BY DEF Head, Younger
  <2> QED
    BY <2>1 DEF Kid
<1>3. Forked(s)'
  BY Bounds, ZenonT(30) DEF Head, Forked
<1>4. DrainReload(s)' => DrainReload(s)
  BY DrainForm
<1>5. DrainReload(s) => DrainReload(s)'
  BY DrainForm
<1> QED
  BY <1>1, <1>2, <1>3, <1>4, <1>5 DEF Head

\* What an older process does is on its way out.
LEMMA HeadBesideOlder ==
    ASSUME Types, StageInv, OpInv, NEW s \in Procs, Head(s), NEW p \in Procs, p < s,
           StageStep(p)
    PROVE  Head(s)'
<1>1. proc[p].at \in Gone \cup Retiring
  BY DEF Head, Older
<1>2. Staged(proc[p])
  BY DEF StageInv
<1>3. /\ proc'[p].at \in Gone \/ (proc[p].at \in Retiring /\ proc'[p].at \in Retiring)
      /\ ptr' = ptr
  <2>1. CASE ChildListens(p)
    BY <2>1, <1>1, <1>2, StageMoves DEF Staged, Gone, Retiring, Young
  <2>2. CASE ChildActivates(p)
    BY <2>2, <1>1, <1>2, StageMoves DEF Staged, Gone, Retiring, Young
  <2>3. CASE ChildReady(p)
    BY <2>3, <1>1, <1>2, StageMoves DEF Staged, Gone, Retiring, Young
  <2>4. CASE TakeAck(p)
    BY <2>4, <1>1, <1>2, StageMoves DEF Staged, Gone, Retiring, Young
  <2>5. CASE Restore(p)
    BY <2>5, <1>1, <1>2, StageMoves DEF Staged, Gone, Retiring, Young
  <2>6. CASE HTTPShut(p)
    BY <2>6, <1>1, <1>2, StageMoves DEF Staged, Gone, Retiring, Young
  <2>7. CASE OwnershipStopped(p)
    BY <2>7, <1>1, <1>2, StageMoves DEF Staged, Gone, Retiring, Young
  <2>8. CASE Seal(p)
    BY <2>8, <1>1, <1>2, StageMoves DEF Staged, Gone, Retiring, Young
  <2>9. CASE PublishSeal(p)
    BY <2>9, <1>1, <1>2, StageMoves DEF Staged, Gone, Retiring, Young
  <2>10. CASE Release(p)
    BY <2>10, <1>1, <1>2, StageMoves DEF Staged, Gone, Retiring, Young
  <2>11. CASE Retire(p)
    BY <2>11, <1>1, <1>2, StageMoves DEF Staged, Gone, Retiring, Young
  <2>12. CASE Fallback(p)
    BY <2>12, <1>1, <1>2, StageMoves DEF Staged, Gone, Retiring, Young
  <2> QED
    BY <2>1, <2>2, <2>3, <2>4, <2>5, <2>6, <2>7, <2>8, <2>9, <2>10, <2>11, <2>12 DEF StageStep
<1>4. /\ proc'[p].mode = proc[p].mode /\ active' = active
      /\ \A q \in Procs \ {p} : proc'[q] = proc[q]
  BY StageFields DEF app
<1> QED
  BY <1>3, <1>4, HeadKept, Bounds DEF Head, Kid, Younger

\* The child of the head on its way to serve, or gone.
LEMMA HeadBesideKid ==
    ASSUME Types, NEW s \in Procs, Head(s), NEW p \in Procs, p > s,
           \A q \in Procs \ {p} : proc'[q] = proc[q],
           active' = active,
           \/ Kid(s, p)'
           \/ proc'[p].at = "dead" /\ Kid(s, p)
    PROVE  Head(s)'
<1>1. proc'[s] = proc[s] /\ p # s /\ proc[s].parent # p
  BY Bounds, Fields DEF Head
<1>2. proc[s].up = "waiting" /\ proc[s].heir = p
  BY <1>1 DEF Kid
<1>3. Older(s)'
  BY <1>1, Bounds DEF Head, Older
<1>4. Younger(s)'
  BY <1>1, <1>2, Bounds DEF Head, Younger, Kid, Young
<1>5. Forked(s)'
  BY <1>1, <1>2 DEF Head, Forked, Kid, Young
<1>6. DrainReload(s) => DrainReload(s)'
  BY <1>1, DrainForm
<1> QED
  BY <1>1, <1>2, <1>3, <1>4, <1>5, <1>6 DEF Head

\* A step of the child of the head of the chain leaves the head where it is.
LEMMA HeadWithKid ==
    ASSUME Types, StageInv, OpInv, NEW s \in Procs, Head(s), NEW p \in Procs, p > s,
           StageStep(p)
    PROVE  Head(s)'
<1>1. proc[p].at \notin {"none", "dead"}
  BY StageMoves DEF StageStep, StageInv, Staged, Young, Retiring
<1>2. Kid(s, p)
  BY <1>1 DEF Head, Younger
<1>3. /\ proc'[p].parent = proc[p].parent /\ active' = active
      /\ \A q \in Procs \ {p} : proc'[q] = proc[q]
      /\ ChildListens(p) \/ proc'[p].route = proc[p].route
      /\ TakeAck(p) \/ Restore(p) \/ proc'[p].up = proc[p].up
  BY StageFields DEF app
<1>4. proc'[s] = proc[s]
  BY <1>3, Bounds
<1>5. CASE ChildListens(p)
  <2>1. proc[p].at = "booting" /\ proc'[p].at = "listening" /\ proc'[p].route = active /\ ptr' = ptr
    BY <1>5, StageMoves
  <2>2. proc'[p].up = proc[p].up
    BY <1>2, <1>3, <1>5, StageMoves DEF Kid
  <2>3. Kid(s, p)'
    BY <1>2, <1>3, <1>4, <2>1, <2>2 DEF Kid, Young
  <2> QED
    BY <1>3, <2>3, HeadBesideKid
<1>6. CASE ChildActivates(p)
  <2>1. proc[p].at = "listening" /\ proc'[p].at = "pointed" /\ ptr' = p
    BY <1>6, StageMoves
  <2>2. proc'[p].up = proc[p].up /\ proc'[p].route = proc[p].route
    BY <1>2, <1>3, <2>1, StageMoves DEF Kid
  <2>3. Kid(s, p)'
    BY <1>2, <1>3, <1>4, <2>1, <2>2 DEF Kid, Young
  <2> QED
    BY <1>3, <2>3, HeadBesideKid
<1>7. CASE ChildReady(p)
  <2>1. proc[p].at = "pointed" /\ proc'[p].at = "serving" /\ ptr' = ptr
    BY <1>7, StageMoves
  <2>2. proc'[p].up = proc[p].up /\ proc'[p].route = proc[p].route
    BY <1>2, <1>3, <2>1, StageMoves DEF Kid
  <2>3. Kid(s, p)'
    BY <1>2, <1>3, <1>4, <2>1, <2>2 DEF Kid, Young
  <2> QED
    BY <1>3, <2>3, HeadBesideKid
<1>8. ASSUME ~ChildListens(p), ~ChildActivates(p), ~ChildReady(p) PROVE FALSE
  BY <1>2, <1>8, StageMoves DEF StageStep, Kid, Young
<1> QED
  BY <1>5, <1>6, <1>7, <1>8

\* The head hands over to its child.
LEMMA HeadHandsOver ==
    ASSUME Types, StageInv, Numbered, NEW s \in Procs, Head(s), TakeAck(s),
           NEW k \in Procs, k = proc[s].heir
    PROVE  Head(k)'
<1>1. /\ proc[s].up = "waiting" /\ proc[k].at = "serving"
      /\ proc'[s].at = "closed" /\ ptr' = ptr
  BY StageMoves
<1>2. /\ active' = active /\ proc'[s].parent = proc[s].parent /\ proc'[s].mode = proc[s].mode
      /\ \A q \in Procs \ {s} : proc'[q] = proc[q]
  BY StageFields DEF StageStep, app
<1>3. k > s /\ k # s
  BY <1>1, Bounds DEF Head, Forked
<1>4. Kid(s, k)
  BY <1>1, <1>3 DEF Head, Younger
<1>5. proc'[k] = proc[k] /\ proc[k].parent = s /\ proc[k].up = "idle" /\ ptr = k
  BY <1>1, <1>2, <1>3, <1>4 DEF Kid
<1>6. Older(k)'
  <2> SUFFICES ASSUME NEW q \in Procs, q < k
               PROVE  \/ proc'[q].at \in Gone
                      \/ q = s /\ proc'[q].at \in Retiring
    BY <1>5 DEF Older
  <2>1. CASE q = s
    BY <1>1, <2>1 DEF Retiring
  <2>2. CASE q < s
    BY <1>1, <1>2, <2>2, Bounds DEF Head, Older
  <2>3. CASE q > s
    <3>1. proc[q].at \in {"none", "dead"}
      BY <1>1, <1>4, <2>3, Bounds DEF Head, Younger, Kid
    <3>2. proc[q].at # "none"
      BY <1>1, Bounds DEF Numbered
    <3> QED
      BY <1>2, <2>3, <3>1, <3>2, Bounds DEF Gone
  <2> QED
    BY <2>1, <2>2, <2>3, Bounds
<1>7. Younger(k)'
  <2> SUFFICES ASSUME NEW q \in Procs, q > k PROVE proc'[q].at \in {"none", "dead"}
    BY DEF Younger
  <2>1. q > s /\ q # s /\ q # k
    BY <1>1, <1>3, Bounds
  <2>2. proc[q].at \in {"none", "dead"}
    BY <2>1 DEF Head, Younger, Kid
  <2> QED
    BY <1>2, <2>1, <2>2
<1>8. Forked(k)'
  BY <1>5 DEF Forked
<1>9. ~DrainReload(k)' => proc'[k].route = active'
  <2> SUFFICES ASSUME ~DrainReload(k)' PROVE proc[k].route = active
    BY <1>2, <1>5
  <2>1. proc'[s].mode # "drain"
    BY <1>1, <1>5, DrainForm
  <2> QED
    BY <1>1, <1>2, <1>4, <2>1 DEF Kid
<1> QED
  BY <1>1, <1>3, <1>5, <1>6, <1>7, <1>8, <1>9 DEF Head

\* The head begins an upgrade: it has a child, and nobody else is left.
LEMMA HeadForks ==
    ASSUME Types, StageInv, Numbered, NEW s \in Procs, Head(s), NEW p \in Procs, BeginUpgrade(p)
    PROVE  Head(s)'
<1>1. proc[p].at = "serving" /\ proc[p].up = "idle" /\ ParentDone(p)
  BY DEF BeginUpgrade
<1>2. p = s
  <2>1. p >= s
    BY <1>1, Bounds DEF Head, Older, Gone, Retiring
  <2>2. ~Kid(s, p)
    BY <1>1, Bounds DEF Kid, ParentDone, At, Head
  <2> QED
    BY <1>1, <2>1, <2>2, Bounds DEF Head, Younger
<1>3. PICK mode \in Modes, kid \in Procs, pauses \in BOOLEAN : ForkOf(s, mode, kid, pauses)
  BY <1>2, Forks
<1>4. UNCHANGED <<active, ptr>>
  BY DEF BeginUpgrade, app
<1>5. /\ proc'[s].at = "serving" /\ proc'[s].up = "waiting" /\ proc'[s].heir = kid
      /\ proc'[s].parent = proc[s].parent /\ proc'[s].mode = mode
      /\ proc'[s].route = proc[s].route /\ proc[s].mode \in {"unread", mode}
  BY <1>3 DEF ForkOf, Same, Head
<1>6. /\ proc'[kid].at = "booting" /\ proc'[kid].parent = s /\ proc'[kid].up = "idle"
      /\ kid > s
  BY <1>3 DEF ForkOf, Fresh
<1>7. /\ \A q \in Procs \ {s, kid} : proc'[q] = proc[q]
      /\ \A q \in Procs : proc[q].at = "none" <=> q >= kid
  BY <1>3 DEF ForkOf
<1>8. Older(s)'
  <2> SUFFICES ASSUME NEW q \in Procs, q < s PROVE proc'[q].at \in Gone
    BY DEF Older
  <2>1. proc[q].at \in Gone
    BY <1>1, <1>2, Bounds DEF Head, Older, ParentDone, At, Gone, Retiring
  <2> QED
    BY <1>6, <1>7, <2>1, Bounds
<1>9. Younger(s)'
  <2> SUFFICES ASSUME NEW q \in Procs, q > s
               PROVE  proc'[q].at \in {"none", "dead"} \/ Kid(s, q)'
    BY DEF Younger
  <2>1. CASE q = kid
    BY <1>1, <1>2, <1>4, <1>5, <1>6, <2>1 DEF Kid, Young, Head
  <2>2. CASE q # kid
    <3>1. proc[q].at \in {"none", "dead"}
      BY <1>1, <1>2 DEF Head, Younger, Kid
    <3> QED
      BY <1>7, <2>2, <3>1, Bounds
  <2> QED
    BY <2>1, <2>2
<1>10. Forked(s)'
  BY <1>5, <1>6 DEF Forked
<1>11. ~DrainReload(s)' => proc'[s].route = active'
  <2> SUFFICES ASSUME ~DrainReload(s)' PROVE proc[s].route = active
    BY <1>4, <1>5
  <2>1. mode # "drain"
    BY <1>5, DrainForm
  <2>2. \A q \in Procs : q = proc[s].parent => proc[q].mode # "drain"
    BY <1>5, <1>6, <1>7, DrainForm, Bounds DEF Head
  <2>3. ~DrainReload(s)
    BY <1>5, <2>1, <2>2, DrainForm
  <2> QED
    BY <2>3 DEF Head
<1> QED
  BY <1>5, <1>8, <1>9, <1>10, <1>11 DEF Head

\* Its upgrade fails: its child is dead.
LEMMA HeadFails ==
    ASSUME Types, StageInv, HeadInv, NEW p \in Procs, UpgradeFails(p)
    PROVE  Head(p)'
<1>1. PICK k \in Procs : k = proc[p].heir
  BY Fails
<1>2. /\ proc[p].at = "serving" /\ proc[p].up = "waiting" /\ Head(p) /\ k > p
      /\ proc'[p].up = "failing" /\ proc'[p].mode = proc[p].mode /\ proc'[p].heir = k
      /\ proc'[p].at = "serving" /\ proc'[p].parent = proc[p].parent
      /\ proc'[p].route = proc[p].route /\ proc'[k].at = "dead"
      /\ \A q \in Procs \ {p, k} : proc'[q] = proc[q]
  BY <1>1, Fails DEF Same
<1>3. active' = active
  BY DEF UpgradeFails
<1>4. Older(p)'
  <2> SUFFICES ASSUME NEW q \in Procs, q < p PROVE proc'[q].at \in Gone
    BY DEF Older
  <2>1. proc[q].at \in Gone
    BY <1>2 DEF Head, Older
  <2> QED
    BY <1>2, <2>1, Bounds
<1>5. Younger(p)'
  <2> SUFFICES ASSUME NEW q \in Procs, q > p PROVE proc'[q].at \in {"none", "dead"}
    BY DEF Younger
  <2>1. q # k => proc[q].at \in {"none", "dead"}
    BY <1>1, <1>2 DEF Head, Younger, Kid
  <2> QED
    BY <1>2, <2>1, Bounds
<1>6. Forked(p)'
  BY <1>2 DEF Forked
<1>7. DrainReload(p) => DrainReload(p)'
  BY <1>2, DrainForm, Bounds DEF Head
<1> QED
  BY <1>2, <1>3, <1>4, <1>5, <1>6, <1>7 DEF Head

\* The steps that leave the stages alone: of an operation, it may only leave
\* behind a head that drains.
LEMMA HeadRoutes ==
    ASSUME Types, StageInv, OwnerInv, FleetInv, PauseInv, OpInv, HeadInv, Numbered,
           NEW s \in Procs, Head(s), NEW p \in Procs, ProcStep(p),
           AppStep(p) \/ Follows(p) \/ RelayStep(p) \/ SpanStep(p)
    PROVE  Head(s)'
<1>1. /\ SameStage(proc[p], proc'[p]) /\ ptr' = ptr
      /\ \A q \in Procs \ {p} : proc'[q] = proc[q]
  BY StageKept
<1>2. \A q \in Procs :
        /\ proc'[q].at = proc[q].at /\ proc'[q].parent = proc[q].parent
        /\ proc'[q].heir = proc[q].heir /\ proc'[q].up = proc[q].up
        /\ proc'[q].mode = proc[q].mode
  BY <1>1 DEF SameStage
<1>3. CASE active' = active
  <2>1. \A q \in Procs : proc'[q].route = proc[q].route \/ proc'[q].route = active'
    <3>1. proc'[p].route = proc[p].route \/ proc'[p].route = active'
      <4>1. CASE AppStep(p)
        BY <1>3, <4>1, AppMoves DEF AppStep
      <4>2. CASE Follows(p)
        BY <4>2, FollowFields DEF SameRoutes
      <4>3. CASE RelayStep(p)
        BY <4>3, RelayFields DEF SameRoutes
      <4>4. CASE SpanStep(p)
        BY <1>3, <4>4, SpanFields, SpanMoves
      <4> QED
        BY <4>1, <4>2, <4>3, <4>4
    <3> QED
      BY <1>1, <3>1
  <2>2. ~DrainReload(s) => proc'[s].route = active'
    BY <1>3, <2>1 DEF Head
  <2>3. \A q \in Procs :
          Kid(s, q) /\ proc[s].mode # "drain" /\ proc[q].at # "booting"
            => proc'[q].route = active'
    BY <1>3, <2>1 DEF Kid
  <2> QED
    BY <1>1, <1>2, <2>2, <2>3, HeadKept
<1>4. CASE active' # active
  <2>1. (op.by = p \/ CanOperate(p)) /\ proc'[p].route = active'
    BY <1>4, Activates
  <2>2. /\ p = s \/ DrainReload(s)
        /\ \A q \in Procs : Kid(s, q) => proc[s].mode = "drain"
    BY <2>1, Decider
  <2> QED
    BY <1>1, <1>2, <2>1, <2>2, HeadKept
<1> QED
  BY <1>3, <1>4

\* There is always a head.
LEMMA HeadPreserved ==
    ASSUME Types, StageInv, OwnerInv, FleetInv, PauseInv, OpInv, HeadInv, Numbered,
           NEW p \in Procs, ProcStep(p)
    PROVE  HeadInv'
<1>1. PICK s \in Procs : Head(s)
  BY DEF HeadInv
<1>2. CASE AppStep(p) \/ Follows(p) \/ RelayStep(p) \/ SpanStep(p)
  BY <1>1, <1>2, HeadRoutes DEF HeadInv
<1>3. CASE StageStep(p)
  <2>1. CASE p < s
    BY <1>1, <1>3, <2>1, HeadBesideOlder DEF HeadInv
  <2>2. CASE p > s
    BY <1>1, <1>3, <2>2, HeadWithKid DEF HeadInv
  <2>3. CASE p = s
    <3>1. proc[s].at = "serving"
      BY <1>1 DEF Head
    <3>2. TakeAck(p) \/ Restore(p)
      BY <1>3, <2>3, <3>1, StageMoves DEF StageStep
    <3>3. CASE TakeAck(p)
      <4>1. PICK k \in Procs : k = proc[s].heir
        BY <2>3, <3>3, StageMoves
      <4> QED
        BY <1>1, <2>3, <3>3, <4>1, HeadHandsOver DEF HeadInv
    <3>4. CASE Restore(p)
      <4>1. /\ proc[s].up = "failing" /\ proc'[s].up = "idle"
            /\ proc'[s].at = "serving" /\ ptr' = s
        BY <2>3, <3>1, <3>4, StageMoves
      <4>2. /\ proc'[s].parent = proc[s].parent /\ proc'[s].mode = proc[s].mode
            /\ proc'[s].route = proc[s].route /\ active' = active
            /\ \A q \in Procs \ {s} : proc'[q] = proc[q]
        BY <1>3, <2>3, <3>4, StageFields, StageMoves DEF app
      <4>3. Older(s)'
        <5> SUFFICES ASSUME NEW q \in Procs, q < s PROVE proc'[q].at \in Gone
          BY DEF Older
        <5>1. proc[q].at \in Gone
          BY <1>1, <4>1 DEF Head, Older
        <5>2. q # s
          BY Bounds
        <5> QED
          BY <4>2, <5>1, <5>2
      <4>4. Younger(s)'
        <5> SUFFICES ASSUME NEW q \in Procs, q > s PROVE proc'[q].at \in {"none", "dead"}
          BY DEF Younger
        <5>1. proc[q].at \in {"none", "dead"}
          BY <1>1, <4>1 DEF Head, Younger, Kid
        <5> QED
          BY <4>2, <5>1, Bounds
      <4>5. Forked(s)'
        BY <4>1 DEF Forked
      <4>6. DrainReload(s) => DrainReload(s)'
        <5>1. \A q \in Procs : proc'[q].mode = proc[q].mode
          BY <4>2
        <5> QED
          BY <4>2, <5>1, DrainForm
      <4> QED
        BY <1>1, <4>1, <4>2, <4>3, <4>4, <4>5, <4>6 DEF Head, HeadInv
    <3> QED
      BY <3>2, <3>3, <3>4
  <2> QED
    BY <2>1, <2>2, <2>3, Bounds
<1>4. CASE Perishes(p)
  <2>1. /\ proc'[p].at = "dead" /\ proc'[p].mode = proc[p].mode
        /\ \A q \in Procs \ {p} : proc'[q] = proc[q]
        /\ active' = active
    BY <1>4, Perished, Zenon DEF Ends, Dies
  <2>2. p # s
    BY <1>1, <1>4 DEF Head, Perishes, ChildDies, RetiredDies, RelayExits, Watchdog, DrainEnds
  <2>3. CASE p < s
    <3>1. ptr' = ptr
      <4>1. ~ChildDies(p)
        BY <1>1, <2>3 DEF Head, Older, ChildDies, Gone, Retiring
      <4> QED
        BY <1>4, <4>1 DEF Perishes, RetiredDies, RelayExits, Watchdog, DrainEnds
    <3>2. proc'[s] = proc[s] /\ \A q \in Procs : proc'[q].mode = proc[q].mode
      BY <2>1, <2>2
    <3>3. \A q \in Procs : q < s => proc'[q].at = proc[q].at \/ proc'[q].at \in Gone
      BY <2>1 DEF Gone
    <3>4. \A q \in Procs : q > s =>
            /\ proc'[q] = proc[q]
            /\ Kid(s, q) /\ proc[s].mode # "drain" /\ proc[q].at # "booting"
                 => proc'[q].route = active'
      BY <2>1, <2>3, Bounds DEF Kid
    <3>5. ~DrainReload(s) => proc'[s].route = active'
      BY <1>1, <2>1, <3>2 DEF Head
    <3>6. Head(s)'
      BY <1>1, <3>1, <3>2, <3>3, <3>4, <3>5, HeadKept
    <3> QED
      BY <3>6 DEF HeadInv
  <2>4. CASE p > s
    <3>1. proc[p].at \notin {"none", "dead"}
      BY <1>4 DEF Perishes, ChildDies, RetiredDies, RelayExits, Watchdog, DrainEnds
    <3>2. Kid(s, p)
      BY <1>1, <2>4, <3>1 DEF Head, Younger
    <3> QED
      BY <1>1, <2>1, <2>4, <3>2, HeadBesideKid DEF HeadInv
  <2> QED
    BY <2>2, <2>3, <2>4, Bounds
<1>5. CASE BeginUpgrade(p)
  BY <1>1, <1>5, HeadForks DEF HeadInv
<1>6. CASE UpgradeFails(p)
  BY <1>6, HeadFails DEF HeadInv
<1> QED
  BY <1>2, <1>3, <1>4, <1>5, <1>6, StepKinds

-----------------------------------------------------------------------------
(* What a process knows of the relays.                                     *)

\* Sessions, and the backends that a process carries, only become fewer.
LEMMA CarriesLess ==
    ASSUME Types, OpInv, StageInv, HeadInv, NEW p \in Procs, ProcStep(p)
    PROVE  \A q \in Procs : Session(q)' \subseteq Session(q) /\ Carries(q)' \subseteq Carries(q)
<1> SUFFICES ASSUME NEW q \in Procs
             PROVE  Session(q)' \subseteq Session(q) /\ Carries(q)' \subseteq Carries(q)
  OBVIOUS
<1>1. q # 0
  BY Bounds
<1>2. \A c \in Clients : sess'[c].by = q => sess'[c] = sess[c]
  BY <1>1, SessionsEnd DEF NoSession
<1> QED
  BY <1>2 DEF Session, Carries

\* The leases name whatever older processes carry, once they are all relays.
LEMMA LeasesTell ==
    ASSUME Types, StageInv, ViewInv, NEW q \in Procs, proc[q].at \in Gone
    PROVE  Carries(q) \subseteq DiskView.held
<1>1. CASE proc[q].at = "dead"
  BY <1>1 DEF ViewInv, Carries
<1>2. CASE proc[q].at = "relaying"
  <2>1. q \in Live /\ Carries(q) \subseteq proc[q].held
    BY <1>2 DEF Live, StageInv, Staged, ViewInv
  <2> QED
    BY <2>1 DEF DiskView
<1> QED
  BY <1>1, <1>2 DEF Gone

\* Whoever notices that its parent has retired has only relays before it.
LEMMA NoticeLate ==
    ASSUME Types, StageInv, HeadInv, NEW p \in Procs, p \in Watching, ParentDone(p),
           NEW q \in Procs, q < p
    PROVE  proc[q].at \in Gone
<1>1. PICK s \in Procs : Head(s)
  BY DEF HeadInv
<1>2. CASE p = s
  BY <1>1, <1>2, Bounds DEF Head, Older, ParentDone, At, Gone, Retiring
<1>3. CASE p < s
  <2>1. proc[s].parent = p /\ q < s /\ q # p
    BY <1>1, <1>3, Bounds DEF Head, Older, Watching, At, Gone
  <2> QED
    BY <1>1, <2>1 DEF Head, Older
<1>4. CASE p > s
  <2>1. Kid(s, p)
    BY <1>1, <1>4 DEF Head, Younger, Watching, At
  <2> QED
    BY <1>1, <2>1, Bounds DEF Kid, ParentDone, At, Head
<1> QED
  BY <1>2, <1>3, <1>4, Bounds

\* A process stays gone.
LEMMA GoneForGood ==
    ASSUME Types, StageInv, OpInv, HeadInv, Numbered, NEW p \in Procs, ProcStep(p),
           NEW q \in Procs, proc[q].at \in Gone
    PROVE  proc'[q].at \in Gone
<1>1. CASE AppStep(p) \/ Follows(p) \/ RelayStep(p) \/ SpanStep(p)
  BY <1>1, StageKept DEF SameStage
<1>2. CASE StageStep(p)
  <2>1. q # p \/ proc'[q].at \in Gone
    <3> SUFFICES ASSUME q = p, proc'[q].at \notin Gone PROVE FALSE
      OBVIOUS
    <3>1. proc[p].up \in {"idle", "done"} /\ proc[p].at \in Gone
      BY DEF StageInv, Staged, Gone
    <3> QED
      BY <1>2, <3>1, StageMoves DEF StageStep, Gone
  <2> QED
    BY <1>2, <2>1, StageFields
<1>3. CASE Perishes(p)
  BY <1>3, Perished DEF Ends, Gone
<1>4. CASE BeginUpgrade(p)
  <2>1. PICK mode \in Modes, kid \in Procs, pauses \in BOOLEAN : ForkOf(p, mode, kid, pauses)
    BY <1>4, Forks
  <2>2. q # kid
    BY <2>1, Bounds DEF ForkOf, Gone
  <2> QED
    BY <2>1, <2>2 DEF ForkOf, Same
<1>5. CASE UpgradeFails(p)
  <2>1. proc'[p].at = proc[p].at
    BY <1>5, Fails DEF Same
  <2>2. proc'[proc[p].heir].at = "dead"
    BY <1>5, Fails
  <2> QED
    BY <1>5, <2>1, <2>2, Fails DEF Gone
<1> QED
  BY <1>1, <1>2, <1>3, <1>4, <1>5, StepKinds

\* What a process is told stays told, and is taken from the leases.
LEMMA ToldOnce ==
    ASSUME Types, StageInv, OpInv, HeadInv, Numbered, NEW p \in Procs, ProcStep(p),
           NEW q \in Procs, Told(q)'
    PROVE  /\ Told(q) \/ (q \in Watching /\ ParentDone(q) /\ proc'[q].view = DiskView)
           /\ proc'[q].view \in {proc[q].view, DiskView}
<1>1. CASE proc'[q] = proc[q]
  BY <1>1 DEF Told
<1>2. CASE q = p /\ ~Follows(p) /\ SameView(proc[p], proc'[p]) /\ proc[p].at \notin {"none", "dead"}
  BY <1>2 DEF Told, SameView
<1>3. CASE AppStep(p) \/ RelayStep(p) \/ SpanStep(p)
  <2>1. SameView(proc[p], proc'[p]) /\ proc'[p].at = proc[p].at
        /\ \A r \in Procs \ {p} : proc'[r] = proc[r]
    BY <1>3, AppFields, RelayFields, SpanFields DEF SameStage
  <2> QED
    BY <2>1 DEF Told, SameView
<1>4. CASE StageStep(p)
  <2>1. proc[p].at \notin {"none", "dead"}
    BY <1>4, StageMoves DEF StageStep, StageInv, Staged, Young, Retiring
  <2>2. SameView(proc[p], proc'[p]) /\ \A r \in Procs \ {p} : proc'[r] = proc[r]
    BY <1>4, StageFields
  <2> QED
    BY <2>1, <2>2 DEF Told, SameView
<1>5. CASE Follows(p)
  <2>1. /\ proc'[p].at = proc[p].at /\ \A r \in Procs \ {p} : proc'[r] = proc[r]
    BY <1>5, FollowFields DEF SameStage
  <2>2. CASE Notice(p)
    <3>1. p \in Watching /\ ParentDone(p) /\ proc'[p].view = DiskView
      BY <2>2, Fields DEF Notice, Types
    <3> QED
      BY <2>1, <3>1, <1>1
  <2>3. CASE WatchTick(p)
    <3>1. /\ proc'[p].view = DiskView
          /\ proc'[p].fence = proc[p].fence /\ proc'[p].notice = proc[p].notice
      BY <2>3, Fields DEF WatchTick, Types
    <3> QED
      BY <2>1, <3>1 DEF Told
  <2>4. CASE Cleanup(p)
    <3>1. proc[p].notice /\ proc'[p].view = proc[p].view
      BY <2>4, Fields DEF Cleanup, Types
    <3> QED
      BY <2>1, <3>1 DEF Told
  <2> QED
    BY <1>5, <2>2, <2>3, <2>4 DEF Follows
<1>6. CASE Perishes(p)
  BY <1>6, <1>1, Perished DEF Ends, Told
<1>7. CASE BeginUpgrade(p)
  <2>1. PICK mode \in Modes, kid \in Procs, pauses \in BOOLEAN : ForkOf(p, mode, kid, pauses)
    BY <1>7, Forks
  <2>2. q # kid
    BY <2>1 DEF ForkOf, Fresh, Told
  <2>3. proc'[q].view = proc[q].view /\ proc'[q].at = proc[q].at
        /\ proc'[q].fence = proc[q].fence /\ proc'[q].notice = proc[q].notice
    BY <2>1, <2>2 DEF ForkOf, Same
  <2> QED
    BY <2>3 DEF Told
<1>8. CASE UpgradeFails(p)
  <2>1. q # proc[p].heir
    BY <1>8, Fails DEF Told
  <2>2. proc'[q].view = proc[q].view /\ proc'[q].at = proc[q].at
        /\ proc'[q].fence = proc[q].fence /\ proc'[q].notice = proc[q].notice
    BY <1>8, <2>1, Fails DEF Same
  <2> QED
    BY <2>2 DEF Told
<1> QED
  BY <1>3, <1>4, <1>5, <1>6, <1>7, <1>8, StepKinds

\* The lease of a relay has a snapshot of no fewer backends than it carries.
Covers(q) ==
    /\ proc[q].at \in {"none", "dead"} => Session(q) = {}
    /\ proc[q].at \in {"sealed", "freed", "relaying"} => Carries(q) \subseteq proc[q].held

\* A lease that is kept on disk covers what its process carries, after every step.
LEMMA Covered ==
    ASSUME Types, StageInv, OpInv, ViewInv, HeadInv, Numbered, NEW p \in Procs, ProcStep(p)
    PROVE  \A q \in Procs : Covers(q)'
<1>1. \A q \in Procs : Covers(q)
  BY DEF ViewInv, Covers
<1>2. \A q \in Procs : Session(q)' \subseteq Session(q) /\ Carries(q)' \subseteq Carries(q)
  BY CarriesLess
<1>3. ASSUME NEW q \in Procs, proc'[q].at = proc[q].at, proc'[q].held = proc[q].held
      PROVE  Covers(q)'
  BY <1>1, <1>2, <1>3 DEF Covers
<1>4. CASE AppStep(p) \/ Follows(p) \/ SpanStep(p)
  <2>1. proc'[p].at = proc[p].at /\ proc'[p].held = proc[p].held
        /\ \A q \in Procs \ {p} : proc'[q] = proc[q]
    BY <1>4, AppFields, FollowFields, SpanFields DEF SameStage
  <2> QED
    BY <1>3, <2>1
<1>5. CASE RelayStep(p)
  <2>1. proc'[p].at = "relaying" /\ \A q \in Procs \ {p} : proc'[q] = proc[q]
    BY <1>5, RelayFields DEF SameStage, RelayStep, RelayShrinks, RelayExpires
  <2>2. CASE RelayShrinks(p)
    <3>1. proc'[p].held = Carries(p)
      BY <2>2, Fields DEF RelayShrinks, Types
    <3> QED
      BY <1>2, <1>3, <2>1, <3>1 DEF Covers
  <2>3. CASE RelayExpires(p)
    <3>1. Session(p)' = {}
      BY <2>3, Bounds DEF RelayExpires, Session, NoSession
    <3>2. Carries(p)' = {}
      BY <3>1 DEF Carries
    <3> QED
      BY <1>3, <2>1, <3>1, <3>2 DEF Covers
  <2> QED
    BY <1>5, <2>2, <2>3 DEF RelayStep
<1>6. CASE StageStep(p)
  <2>1. \A q \in Procs \ {p} : Covers(q)'
    BY <1>3, <1>6, StageFields
  <2>2. CASE PublishSeal(p)
    <3>1. proc'[p].at = "sealed" /\ proc'[p].held = Carries(p)
      BY <2>2, StageMoves
    <3> QED
      BY <1>2, <2>1, <3>1 DEF Covers
  <2>3. CASE ~PublishSeal(p)
    <3>1. /\ proc'[p].held = proc[p].held
          /\ \/ proc'[p].at \notin {"none", "dead", "sealed", "freed", "relaying"}
             \/ proc'[p].at = proc[p].at
             \/ proc'[p].at \in {"freed", "relaying"} /\ proc[p].at \in {"sealed", "freed"}
      BY <1>6, <2>3, StageMoves DEF StageStep
    <3>2. Covers(p)'
      BY <1>1, <1>2, <3>1 DEF Covers
    <3> QED
      BY <2>1, <3>2
  <2> QED
    BY <2>2, <2>3
<1>7. CASE Perishes(p)
  <2>1. Session(p)' = {} /\ proc'[p].at = "dead"
    <3>1. \A c \in Clients : sess'[c].by # p
      <4>1. sess' = [c \in Clients |-> IF sess[c].by = p THEN NoSession ELSE sess[c]]
        BY <1>7, Perished, Zenon DEF Dies
      <4> QED
        BY <4>1, Bounds DEF NoSession
    <3>2. proc'[p].at = "dead"
      BY <1>7, Perished DEF Ends
    <3> QED
      BY <3>1, <3>2 DEF Session
  <2> QED
    BY <1>3, <1>7, <2>1, Perished DEF Ends, Covers
<1>8. CASE BeginUpgrade(p)
  <2>1. PICK mode \in Modes, kid \in Procs, pauses \in BOOLEAN : ForkOf(p, mode, kid, pauses)
    BY <1>8, Forks
  <2>2. proc[kid].at = "none" /\ proc'[kid].at = "booting"
    BY <2>1, Bounds DEF ForkOf
  <2>3. proc'[p].at = proc[p].at /\ proc'[p].held = proc[p].held
    BY <2>1 DEF ForkOf, Same
  <2> QED
    BY <1>3, <2>1, <2>2, <2>3 DEF ForkOf, Covers
<1>9. CASE UpgradeFails(p)
  <2>1. PICK k \in Procs : k = proc[p].heir
    BY <1>9, Fails
  <2>2. Session(k)' = {} /\ proc'[k].at = "dead"
    <3>1. \A c \in Clients : sess'[c].by # k
      BY <1>9, <2>1, Bounds DEF UpgradeFails, NoSession
    <3>2. proc'[k].at = "dead"
      BY <1>9, <2>1, Fails
    <3> QED
      BY <3>1, <3>2 DEF Session
  <2>3. proc'[p].at = proc[p].at /\ proc'[p].held = proc[p].held
    BY <1>9, Fails DEF Same
  <2> QED
    BY <1>3, <1>9, <2>1, <2>2, <2>3, Fails DEF Covers
<1> QED
  BY <1>4, <1>5, <1>6, <1>7, <1>8, <1>9, StepKinds

\* What a process knows of the relays before it remains complete.
LEMMA ViewPreserved ==
    ASSUME Types, StageInv, OpInv, ViewInv, HeadInv, Numbered, NEW p \in Procs, ProcStep(p)
    PROVE  ViewInv'
<1>1. ASSUME NEW r \in Procs, NEW q \in Procs, Told(r)', q < r
      PROVE  proc'[q].at \in Gone /\ Carries(q)' \subseteq proc'[r].view.held
  <2>1. /\ Told(r) \/ (r \in Watching /\ ParentDone(r) /\ proc'[r].view = DiskView)
        /\ proc'[r].view \in {proc[r].view, DiskView}
    BY <1>1, ToldOnce
  <2>2. proc[q].at \in Gone
    BY <1>1, <2>1, NoticeLate DEF ViewInv
  <2>3. Carries(q) \subseteq DiskView.held
    BY <2>2, LeasesTell
  <2>4. Told(r) => Carries(q) \subseteq proc[r].view.held
    BY <1>1 DEF ViewInv
  <2>5. Carries(q)' \subseteq Carries(q)
    BY CarriesLess
  <2>6. proc'[q].at \in Gone
    BY <2>2, GoneForGood
  <2> QED
    BY <2>1, <2>3, <2>4, <2>5, <2>6
<1>2. \A q \in Procs : Covers(q)'
  BY Covered
<1> QED
  BY <1>1, <1>2 DEF ViewInv, Covers

-----------------------------------------------------------------------------
(* The invariant.                                                          *)

\* All of it is preserved by the steps of a process.
LEMMA ProcessKeeps ==
    ASSUME IInv, NEW p \in Procs, ProcStep(p)
    PROVE  IInv'
BY TypesStep, StagePreserved, OwnerPreserved, FleetPreserved, PausePreserved, BackendPreserved,
   OpPreserved, RoutePreserved, LimitPreserved, NumberedPreserved, HeadPreserved, ViewPreserved
   DEF IInv

\* What does not depend on sessions and the lease.
LEMMA FrameKept ==
    ASSUME IInv, UNCHANGED <<proc, op, running, active, booted, ptr>>
    PROVE  /\ StageInv' /\ FleetInv' /\ PauseInv' /\ RouteInv' /\ LimitInv' /\ Numbered'
           /\ HeadInv'
<1>1. StageInv' /\ PauseInv' /\ RouteInv' /\ Numbered'
  BY DEF IInv, StageInv, Staged, PauseInv, RouteInv, Numbered
<1>2. FleetInv' /\ LimitInv'
  BY DEF IInv, FleetInv, Holds, LimitInv, Live
<1>3. HeadInv'
  <2>1. PICK s \in Procs : Head(s)
    BY DEF IInv, HeadInv
  <2>2. Head(s)'
    BY <2>1 DEF Head, Older, Younger, Kid, Forked, DrainReload
  <2> QED
    BY <2>2 DEF HeadInv
<1> QED
  BY <1>1, <1>2, <1>3

\* A session opens at a process that is not a relay, to a backend that it knows.
LEMMA OpenKeeps ==
    ASSUME IInv, NEW c \in Clients, OpenSession(c)
    PROVE  IInv'
<1>1. PICK p \in Procs, b \in running :
        /\ b = proc[p].route \/ b \in proc[p].drn
        /\ proc[p].at \notin Gone \cup {"none", "sealed", "freed", "sealing"}
        /\ sess' = [sess EXCEPT ![c] = [by |-> p, to |-> b]]
  BY DEF OpenSession, Accepting, Gone
<1>2. UNCHANGED <<proc, op, running, active, booted, owner, ptr>>
  BY DEF OpenSession, app
<1>3. Types'
  BY <1>1, <1>2 DEF IInv, Types, Sessions
<1>4. OwnerInv'
  BY <1>2 DEF IInv, OwnerInv, Owned
<1>5. /\ sess'[c] = [by |-> p, to |-> b]
      /\ \A d \in Clients \ {c} : sess'[d] = sess[d]
  BY <1>1 DEF IInv, Types
<1>6. BackendInv'
  BY <1>1, <1>2, <1>5 DEF IInv, BackendInv
<1>7. OpInv'
  <2> SUFFICES ASSUME op # NoOp PROVE OpInv'
    BY <1>2 DEF OpInv
  <2>1. \A d \in Clients : sess'[d].to # op.new
    BY <1>1, <1>5 DEF IInv, OpInv
  <2> QED
    BY <1>2, <2>1 DEF IInv, OpInv
<1>8. ViewInv'
  <2>1. \A q \in Procs \ {p} : Session(q)' = Session(q) /\ Carries(q)' = Carries(q)
    <3> SUFFICES ASSUME NEW q \in Procs \ {p}
                 PROVE  Session(q)' = Session(q) /\ Carries(q)' = Carries(q)
      OBVIOUS
    <3>1. sess[c].by # q
      BY Bounds DEF OpenSession, NoSession
    <3>2. Session(q)' = Session(q)
      BY <1>5, <3>1 DEF Session
    <3> QED
      BY <1>5, <3>1, <3>2 DEF Carries, Session
  <2>2. \A q \in Procs : Told(q)' = Told(q)
    BY <1>2 DEF Told
  <2>3. \A q \in Procs : Told(q) /\ p < q => FALSE
    BY <1>1 DEF IInv, ViewInv
  <2>4. \A q \in Procs : /\ proc[q].at \in {"none", "dead"} => Session(q)' = {}
                         /\ proc[q].at \in {"sealed", "freed", "relaying"} =>
                              Carries(q)' \subseteq proc[q].held
    BY <1>1, <2>1 DEF IInv, ViewInv, Gone
  <2>5. \A r, q \in Procs : Told(r) /\ q < r =>
          proc[q].at \in Gone /\ Carries(q)' \subseteq proc[r].view.held
    BY <2>1, <2>3 DEF IInv, ViewInv
  <2> QED
    BY <1>2, <2>2, <2>4, <2>5 DEF ViewInv
<1> QED
  BY <1>2, <1>3, <1>4, <1>6, <1>7, <1>8, FrameKept DEF IInv

\* A session ends, or the lease of a process that has ended its span.
LEMMA EndKeeps ==
    ASSUME IInv,
           UNCHANGED <<proc, op, running, active, booted, ptr>>,
           Types', OwnerInv',
           \A c \in Clients : sess'[c] \in {sess[c], NoSession}
    PROVE  IInv'
<1>1. BackendInv'
  BY DEF IInv, BackendInv
<1>2. OpInv'
  <2> SUFFICES ASSUME op # NoOp PROVE OpInv'
    BY DEF OpInv
  <2>1. op.new # 0 /\ NoSession.to = 0
    BY Bounds DEF IInv, Types, Operations, NoSession
  <2>2. \A c \in Clients : sess'[c].to # op.new
    BY <2>1 DEF IInv, OpInv
  <2> QED
    BY <2>2 DEF IInv, OpInv
<1>3. ViewInv'
  <2>1. \A q \in Procs : Session(q)' \subseteq Session(q) /\ Carries(q)' \subseteq Carries(q)
    <3> SUFFICES ASSUME NEW q \in Procs
                 PROVE  Session(q)' \subseteq Session(q) /\ Carries(q)' \subseteq Carries(q)
      OBVIOUS
    <3>1. \A c \in Clients : sess'[c].by = q => sess'[c] = sess[c]
      BY Bounds DEF NoSession
    <3> QED
      BY <3>1 DEF Session, Carries
  <2>2. \A q \in Procs : Told(q)' = Told(q)
    BY DEF Told
  <2>3. \A q \in Procs : /\ proc[q].at \in {"none", "dead"} => Session(q)' = {}
                         /\ proc[q].at \in {"sealed", "freed", "relaying"} =>
                              Carries(q)' \subseteq proc[q].held
    BY <2>1 DEF IInv, ViewInv
  <2>4. \A r, q \in Procs : Told(r) /\ q < r =>
          proc[q].at \in Gone /\ Carries(q)' \subseteq proc[r].view.held
    BY <2>1 DEF IInv, ViewInv
  <2> QED
    BY <2>2, <2>3, <2>4 DEF ViewInv
<1> QED
  BY <1>1, <1>2, <1>3, FrameKept DEF IInv

\* The first process serves alone.
LEMMA InitInv == Init => IInv
<1> SUFFICES ASSUME Init PROVE IInv
  OBVIOUS
<1> DEFINE first == [NoProc EXCEPT !.at = "serving", !.route = 1]
<1>1. /\ first \in ProcRecords /\ NoProc \in ProcRecords
  BY Bounds DEF NoProc, ProcRecords, Views, Stages, Ups, Spans
<1>2. /\ first.at = "serving" /\ first.route = 1 /\ first.parent = 0 /\ first.up = "idle"
      /\ first.paused = FALSE /\ first.span = "none" /\ first.drained = TRUE
      /\ first.lock = "free" /\ first.mode = "unread" /\ first.drn = {} /\ first.held = {}
      /\ NoProc.at = "none" /\ NoProc.route = 0 /\ NoProc.parent = 0 /\ NoProc.up = "idle"
      /\ NoProc.paused = FALSE /\ NoProc.span = "none" /\ NoProc.drained = TRUE
      /\ NoProc.lock = "free" /\ NoProc.mode = "unread" /\ NoProc.drn = {}
      /\ NoProc.held = {}
  BY DEF NoProc
<1>3. /\ proc = [p \in Procs |-> IF p # 1 THEN NoProc ELSE first]
      /\ sess = [c \in Clients |-> NoSession]
      /\ op = NoOp /\ running = {1} /\ active = 1 /\ booted = 1 /\ owner = 0 /\ ptr = 1
  BY DEF Init
<1> HIDE DEF first
<1>4. proc[1] = first /\ \A p \in Procs \ {1} : proc[p] = NoProc
  BY <1>3, Bounds
<1>5. Types
  BY <1>1, <1>3, Bounds DEF Types, Sessions, Operations
<1>6. StageInv /\ PauseInv
  BY <1>2, <1>4 DEF StageInv, Staged, PauseInv, Pauses, Preserves, Young, Retiring
<1>7. OwnerInv /\ FleetInv /\ RouteInv /\ OpInv
  BY <1>2, <1>3, <1>4 DEF OwnerInv, Owned, FleetInv, Holds, RouteInv, OpInv
<1>8. BackendInv
  BY <1>2, <1>3, <1>4 DEF BackendInv
<1>9. LimitInv
  <2>1. Live = {} /\ \A p \in Procs : ~Preserves(proc[p])
    BY <1>2, <1>4 DEF Live, Preserves
  <2> QED
    BY <2>1, FS_EmptySet, Bounds DEF LimitInv
<1>10. Numbered
  BY <1>2, <1>4, Bounds DEF Numbered, Procs
<1>11. HeadInv
  <2>1. Head(1)
    BY <1>2, <1>3, <1>4, Bounds DEF Head, Older, Younger, Forked, Procs
  <2> QED
    BY <2>1, Bounds DEF HeadInv
<1>12. ViewInv
  <2>1. \A p \in Procs : Session(p) = {} /\ Carries(p) = {}
    BY <1>3, Bounds DEF Session, Carries, NoSession
  <2>2. \A p, q \in Procs : Told(p) /\ q < p => FALSE
    BY <1>2, <1>4, Bounds DEF Told, Procs
  <2> QED
    BY <2>1, <2>2 DEF ViewInv
<1> QED
  BY <1>5, <1>6, <1>7, <1>8, <1>9, <1>10, <1>11, <1>12 DEF IInv

\* Every step preserves the invariant.
LEMMA NextInv == IInv /\ [Next]_vars => IInv'
<1> SUFFICES ASSUME IInv, [Next]_vars PROVE IInv'
  OBVIOUS
<1>1. ASSUME NEW p \in Procs, ProcStep(p) PROVE IInv'
  BY <1>1, ProcessKeeps
<1>2. ASSUME NEW c \in Clients, OpenSession(c) PROVE IInv'
  BY <1>2, OpenKeeps
<1>3. ASSUME NEW c \in Clients, EndSession(c) PROVE IInv'
  <2>1. Types' /\ OwnerInv'
    BY <1>3 DEF EndSession, IInv, Types, Sessions, OwnerInv, Owned, app
  <2>2. \A d \in Clients : sess'[d] \in {sess[d], NoSession}
    BY <1>3 DEF EndSession, IInv, Types
  <2>3. UNCHANGED <<proc, op, running, active, booted, ptr>>
    BY <1>3 DEF EndSession, app
  <2> QED
    BY <2>1, <2>2, <2>3, EndKeeps
<1>4. CASE LeaseExpires
  <2>1. Types' /\ OwnerInv'
    BY <1>4 DEF LeaseExpires, IInv, Types, OwnerInv, Owned, Young, app
  <2>2. \A d \in Clients : sess'[d] \in {sess[d], NoSession}
    BY <1>4 DEF LeaseExpires
  <2>3. UNCHANGED <<proc, op, running, active, booted, ptr>>
    BY <1>4 DEF LeaseExpires, app
  <2> QED
    BY <2>1, <2>2, <2>3, EndKeeps
<1>5. CASE UNCHANGED vars
  <2>1. Types' /\ OwnerInv'
    BY <1>5 DEF vars, IInv, Types, OwnerInv, Owned
  <2>2. \A d \in Clients : sess'[d] \in {sess[d], NoSession}
    BY <1>5 DEF vars
  <2>3. UNCHANGED <<proc, op, running, active, booted, ptr>>
    BY <1>5 DEF vars
  <2> QED
    BY <2>1, <2>2, <2>3, EndKeeps
<1> QED
  BY <1>1, <1>2, <1>3, <1>4, <1>5 DEF Next, ProcStep

\* The inductive invariant is one.
LEMMA Invariance == Spec => []IInv
BY InitInv, NextInv, PTL DEF Spec

-----------------------------------------------------------------------------
(* What it is for.                                                         *)

\* TypeOK: the leases go with the stages of their processes, and operations and
\* sessions are about backends that run.
THEOREM TypesCorrect == Spec => []TypeOK
<1>1. IInv => TypeOK
  <2> SUFFICES ASSUME IInv PROVE TypeOK
    OBVIOUS
  <2>1. Types
    BY DEF IInv
  <2>2. DOMAIN proc = Procs
    BY <2>1 DEF Types
  <2>3. ASSUME NEW p \in Procs
        PROVE  /\ proc[p].at \in Stages /\ proc[p].span \in Spans
               /\ proc[p].mode \in {"unread"} \cup Modes
               /\ proc[p].up \in {"idle", "waiting", "failing", "done"}
               /\ {proc[p].paused, proc[p].drained, proc[p].quiet, proc[p].fence,
                   proc[p].notice, proc[p].view.unknown} \subseteq BOOLEAN
               /\ {proc[p].parent, proc[p].heir} \subseteq {0} \cup Procs
               /\ proc[p].held \cup proc[p].view.held \cup proc[p].drn \subseteq Backends
               /\ proc[p].route \in {0} \cup Backends
    BY <2>1, Fields DEF Ups, Views
  <2>4. \A p \in Procs :
          /\ proc[p].lock = "locked" <=> proc[p].at = "sealing"
          /\ proc[p].lock = "sealed" <=> proc[p].at \in {"sealed", "freed", "relaying"}
    BY DEF IInv, StageInv, Staged
  <2>5. sess \in [Clients -> {NoSession} \cup [by : Procs, to : running]]
    <3>1. \A c \in Clients : sess[c] \in {NoSession} \cup [by : Procs, to : running]
      BY DEF IInv, Types, Sessions, BackendInv
    <3> QED
      BY <2>1, <3>1 DEF Types
  <2>6. op \in {NoOp} \cup [by : Procs, new : running]
    BY DEF IInv, Types, Operations, OpInv
  <2> QED
    BY <2>1, <2>2, <2>3, <2>4, <2>5, <2>6 DEF TypeOK, Types, IInv, BackendInv
<1> QED
  BY <1>1, Invariance, PTL

\* RelaysWithinLimit: an upgrade that may end in a relay is only begun while the
\* limit leaves room for it, and while it goes on no other takes that room.
THEOREM RelaysStayWithinLimit == Spec => []RelaysWithinLimit
<1>1. IInv => RelaysWithinLimit
  BY DEF IInv, LimitInv, RelaysWithinLimit
<1> QED
  BY <1>1, Invariance, PTL

\* SomeoneAnswers: the head of the chain of processes listens, routes to a
\* backend that runs, and is, or is about to be, where owner.current leads to.
THEOREM SomeoneAlwaysAnswers == Spec => []SomeoneAnswers
<1>1. IInv => SomeoneAnswers
  <2> SUFFICES ASSUME IInv PROVE SomeoneAnswers
    OBVIOUS
  <2>1. PICK s \in Procs : Head(s)
    BY DEF IInv, HeadInv
  <2>2. active # 0 => proc[s].route \in running \/ (proc[s].span # "open" /\ DrainReload(s))
    BY <2>1 DEF IInv, BackendInv, RouteInv, Head
  <2>3. Accepting(s)
    BY <2>1 DEF Head, Accepting
  <2>4. \/ proc[ptr].at \in {"pointed", "serving"}
        \/ proc[s].up \in {"waiting", "failing"} /\ proc[proc[s].heir].at = "dead"
    <3>1. CASE proc[s].up = "idle"
      BY <2>1, <3>1 DEF Head
    <3>2. CASE proc[s].up = "failing"
      BY <2>1, <3>2 DEF Head, Forked
    <3>3. CASE proc[s].up = "waiting"
      <4>1. PICK k \in Procs : k = proc[s].heir /\ k > s /\ proc[k].at # "none"
        BY <2>1, <3>3 DEF Head, Forked
      <4>2. proc[k].at = "dead" \/ Kid(s, k)
        BY <2>1, <4>1 DEF Head, Younger
      <4> QED
        BY <2>1, <3>3, <4>1, <4>2 DEF Kid, Head
    <3> QED
      BY <2>1, <3>1, <3>2, <3>3 DEF IInv, StageInv, Staged, Head
  <2> QED
    BY <2>2, <2>3, <2>4 DEF SomeoneAnswers
<1> QED
  BY <1>1, Invariance, PTL

\* RetainedSessionsLast: whoever drains its generations, hibernates, recovers,
\* cleans up after its parent or stops the app has noticed the retirement of its
\* parent, and so knows every backend that an older process carries.
THEOREM RetainedSessionsAlwaysLast == Spec => RetainedSessionsLast
<1> DEFINE Step ==
      \A c \in Clients :
        sess[c].to \in running \ running' =>
          \A p \in Procs :
            /\ p >= sess[c].by => ~(TryRetire(p) \/ Hibernate(p))
            /\ p > sess[c].by => ~(Cleanup(p) \/ OpenSpan(p) \/ StopApp(p))
<1>1. ASSUME IInv PROVE Step
  <2> SUFFICES ASSUME NEW c \in Clients, sess[c].to \in running \ running', NEW p \in Procs
               PROVE  /\ p >= sess[c].by => ~(TryRetire(p) \/ Hibernate(p))
                      /\ p > sess[c].by => ~(Cleanup(p) \/ OpenSpan(p) \/ StopApp(p))
    OBVIOUS
  <2> DEFINE q == sess[c].by
             b == sess[c].to
  <2>1. q \in Procs /\ b \in Carries(q) /\ b \in running /\ b \notin running'
    BY <1>1, Bounds DEF IInv, Types, Sessions, NoSession, Carries, Session
  <2>2. Told(p) /\ q < p => b \in proc[p].view.held
    BY <1>1, <2>1 DEF IInv, ViewInv
  <2>3. q \in Nat /\ p \in Nat
    BY <2>1, Bounds
  <2> HIDE DEF q, b
  <2>4. /\ p >= q => q = p \/ q < p
        /\ p > q => q < p
    BY <2>3
  <2>5. proc[p].span # "none" => proc[p].at \notin {"none", "dead"}
    BY <1>1 DEF IInv, OwnerInv, Owned, Young
  <2>6. ASSUME TryRetire(p), p >= q PROVE FALSE
    <3>1. PICK d \in Backends : /\ Drains(p, d) /\ ~RetiringParentAlive(p)
                                /\ d \notin Carries(p) \cup proc[p].view.held
                                /\ Drop(p, d)
      BY <2>6 DEF TryRetire
    <3>2. d = b
      BY <2>1, <3>1 DEF Drop, Stop
    <3>3. Told(p)
      BY <3>1 DEF Told, Drains, RetiringParentAlive
    <3> QED
      BY <2>1, <2>2, <2>4, <2>6, <3>1, <3>2, <3>3
  <2>7. ASSUME Hibernate(p), p >= q PROVE FALSE
    <3>1. /\ proc[p].span = "open" /\ ~proc[p].fence /\ proc[p].view.held = {}
          /\ proc[p].route \notin Carries(p) /\ running' = running \ {active}
      BY <2>7 DEF Hibernate, CanOperate, RetiringParentAlive, Stop
    <3>2. b = active /\ proc[p].route = active
      BY <1>1, <2>1, <3>1 DEF IInv, RouteInv
    <3>3. Told(p)
      BY <2>5, <3>1 DEF Told
    <3> QED
      BY <2>1, <2>2, <2>4, <2>7, <3>1, <3>2, <3>3
  <2>8. ASSUME Cleanup(p), p > q PROVE FALSE
    <3>1. /\ proc[p].span = "open" /\ proc[p].notice /\ running' = running \ Obsolete(p)
      BY <2>8 DEF Cleanup, CanOperate, Stop
    <3>2. b \notin proc[p].view.held
      BY <2>1, <3>1 DEF Obsolete
    <3>3. Told(p)
      BY <2>5, <3>1 DEF Told
    <3> QED
      BY <2>2, <2>4, <2>8, <3>2, <3>3
  <2>9. ASSUME OpenSpan(p), p > q PROVE FALSE
    <3>1. /\ proc[p].span = "fenced" /\ ~proc[p].fence /\ running' = running \ Obsolete(p)
      BY <2>1, <2>9 DEF OpenSpan, RetiringParentAlive
    <3>2. b \notin proc[p].view.held
      BY <2>1, <3>1 DEF Obsolete
    <3>3. Told(p)
      BY <2>5, <3>1 DEF Told
    <3> QED
      BY <2>2, <2>4, <2>9, <3>2, <3>3
  <2>10. ASSUME StopApp(p), p > q PROVE FALSE
    <3>1. proc[p].span = "open" /\ ~proc[p].fence /\ proc[p].view.held = {}
      BY <2>10 DEF StopApp, CanOperate, RetiringParentAlive
    <3>2. Told(p)
      BY <2>5, <3>1 DEF Told
    <3> QED
      BY <2>2, <2>4, <2>10, <3>1, <3>2
  <2> QED
    BY <2>6, <2>7, <2>8, <2>9, <2>10 DEF q
<1> QED
  BY <1>1, Invariance, PTL DEF RetainedSessionsLast

-----------------------------------------------------------------------------
(* Nobody waits for nothing: the safety that OperationsResume rests on.      *)

\* The fleet is paused by an upgrade that waits or has failed, and by a process
\* that has handed over and is not out yet.
Unpauses(r) == r.paused => r.up \in {"waiting", "failing"} \/ r.at \in Retiring \ {"freed"}

\* The process the lease names has a span of ownership, is about to give the
\* lease back, or could not and has left it to expire.
Leased(p) == owner = p =>
    \/ proc[p].span # "none"
    \/ proc[p].at \in {"stopping", "dead"}
    \/ proc[p].at \in {"stopped", "draining"} /\ ~proc[p].drained

\* A span is closed only on the way out.
Closes(r) == r.span = "closing" => r.at = "stopping"

MoveInv ==
    /\ \A p \in Procs : Unpauses(proc[p]) /\ Closes(proc[p])
    /\ \A p \in Procs : Leased(p)

\* A step of Proceeds(p) is possible: one of an upgrade or of the exit, of an
\* operation or a span of ownership, of the watch or the cleanup.
May(p) ==
    \/ proc[p].at \in Young \cup Retiring
    \/ proc[p].up \in {"waiting", "failing"}
    \/ op.by = p
    \/ proc[p].at = "serving" /\ proc[p].span = "none" /\ owner = 0
    \/ proc[p].span = "waiting" /\ FleetFree
    \/ proc[p].span = "fenced"
    \/ /\ proc[p].at = "serving"
       /\ \/ proc[p].view # DiskView
          \/ proc[p].fence /\ ~proc[p].notice /\ ParentDone(p)
    \/ CanOperate(p) /\ proc[p].fence /\ proc[p].notice
LeaseLapses == owner # 0 /\ proc[owner].at \in {"stopped", "draining", "dead"}

Resumed(p) == proc[p].span = "open" /\ ~proc[p].paused /\ ~RetiringParentAlive(p)

\* A process that serves has its operations admitted, or what they wait for is a
\* step of its own, of its parent or of its child, or the expiry of the lease.
ServersGoOn ==
    \A p \in Procs : proc[p].at = "serving" =>
        \/ Resumed(p) \/ LeaseLapses
        \/ \E q \in Procs \cap {p, proc[p].parent, proc[p].heir} : May(q)

\* The pause of an upgrade ends with it.
LEMMA UnpausesPreserved ==
    ASSUME Types, StageInv, OpInv, HeadInv, Numbered, NEW p \in Procs, ProcStep(p),
           \A q \in Procs : Unpauses(proc[q])
    PROVE  \A q \in Procs : Unpauses(proc'[q])
<1> USE Fields DEF Unpauses
<1>1. CASE AppStep(p) \/ Follows(p) \/ RelayStep(p) \/ SpanStep(p)
  <2>1. Unpauses(proc'[p])
    BY <1>1, StageKept DEF SameStage
  <2> QED
    BY <1>1, <2>1, StageKept
<1>2. CASE StageStep(p)
  <2> SUFFICES Unpauses(proc'[p])
    BY <1>2, StageFields
  <2> USE StageFields, StageMoves DEF StageInv, Staged, Young, Retiring
  <2>1. CASE ChildListens(p)
    BY <1>2, <2>1
  <2>2. CASE ChildActivates(p)
    BY <1>2, <2>2
  <2>3. CASE ChildReady(p)
    BY <1>2, <2>3
  <2>4. CASE TakeAck(p)
    BY <1>2, <2>4
  <2>5. CASE Restore(p)
    BY <1>2, <2>5
  <2>6. CASE HTTPShut(p)
    BY <1>2, <2>6
  <2>7. CASE OwnershipStopped(p)
    BY <1>2, <2>7
  <2>8. CASE Seal(p)
    BY <1>2, <2>8
  <2>9. CASE PublishSeal(p)
    BY <1>2, <2>9
  <2>10. CASE Release(p)
    BY <1>2, <2>10
  <2>11. CASE Retire(p)
    BY <1>2, <2>11
  <2>12. CASE Fallback(p)
    BY <1>2, <2>12
  <2> QED
    BY <2>1, <2>2, <2>3, <2>4, <2>5, <2>6, <2>7, <2>8, <2>9, <2>10, <2>11, <2>12, <1>2
       DEF StageStep
<1>3. CASE Perishes(p)
  <2>1. Unpauses(proc'[p])
    BY <1>3, Perished DEF Ends, Fresh
  <2> QED
    BY <1>3, <2>1, Perished DEF Ends
<1>4. CASE BeginUpgrade(p)
  <2>1. PICK mode \in Modes, kid \in Procs, pauses \in BOOLEAN : ForkOf(p, mode, kid, pauses)
    BY <1>4, Forks
  <2>2. Unpauses(proc'[p]) /\ Unpauses(proc'[kid])
    BY <2>1 DEF ForkOf, Fresh
  <2> QED
    BY <2>1, <2>2 DEF ForkOf
<1>5. CASE UpgradeFails(p)
  <2>1. Unpauses(proc'[p]) /\ Unpauses(proc'[proc[p].heir])
    BY <1>5, Fails DEF Fresh
  <2> QED
    BY <1>5, <2>1, Fails
<1> QED
  BY <1>1, <1>2, <1>3, <1>4, <1>5, StepKinds

\* A span that closes ends before its process has stopped.
LEMMA ClosesPreserved ==
    ASSUME Types, StageInv, OpInv, HeadInv, Numbered, NEW p \in Procs, ProcStep(p),
           \A q \in Procs : Closes(proc[q])
    PROVE  \A q \in Procs : Closes(proc'[q])
<1> USE Fields DEF Closes
<1>1. CASE AppStep(p)
  BY <1>1, AppFields DEF SameStage, SameSpan
<1>2. CASE Follows(p)
  BY <1>2, FollowFields DEF SameStage, SameSpan
<1>3. CASE RelayStep(p)
  BY <1>3, RelayFields DEF SameStage, SameSpan
<1>4. CASE SpanStep(p)
  <2>1. Closes(proc'[p])
    BY <1>4, SpanFields, SpanMoves DEF SpanStep, SameStage
  <2> QED
    BY <1>4, <2>1, SpanFields
<1>5. CASE StageStep(p)
  <2>1. proc'[p].at = proc[p].at \/ proc[p].at # "stopping" \/ proc[p].span = "none"
    BY <1>5, StageMoves, StageFields DEF StageStep, StageInv, Staged, Retiring, Young
  <2>2. Closes(proc'[p])
    BY <1>5, <2>1, StageFields DEF SameSpan
  <2> QED
    BY <1>5, <2>2, StageFields
<1>6. CASE Perishes(p)
  <2>1. Closes(proc'[p])
    BY <1>6, Perished DEF Ends, Fresh
  <2> QED
    BY <1>6, <2>1, Perished DEF Ends
<1>7. CASE BeginUpgrade(p)
  <2>1. PICK mode \in Modes, kid \in Procs, pauses \in BOOLEAN : ForkOf(p, mode, kid, pauses)
    BY <1>7, Forks
  <2>2. Closes(proc'[p]) /\ Closes(proc'[kid])
    BY <2>1 DEF ForkOf, Fresh, Same
  <2> QED
    BY <2>1, <2>2 DEF ForkOf
<1>8. CASE UpgradeFails(p)
  <2>1. Closes(proc'[p])
    BY <1>8, Fails DEF Same
  <2>2. Closes(proc'[proc[p].heir])
    BY <1>8, Fails DEF Fresh
  <2> QED
    BY <1>8, <2>1, <2>2, Fails
<1> QED
  BY <1>1, <1>2, <1>3, <1>4, <1>5, <1>6, <1>7, <1>8, StepKinds

\* A lease is given back when its span has ended, or left by one that is gone or
\* going.
LEMMA LeasedPreserved ==
    ASSUME Types, StageInv, OwnerInv, OpInv, HeadInv, Numbered, NEW p \in Procs, ProcStep(p),
           \A q \in Procs : Closes(proc[q]) /\ Leased(q)
    PROVE  \A q \in Procs : Leased(q)'
<1> USE Fields, Bounds DEF Leased
<1>1. CASE AppStep(p)
  BY <1>1, AppFields DEF SameStage, SameSpan
<1>2. CASE Follows(p)
  BY <1>2, FollowFields DEF SameStage, SameSpan
<1>3. CASE RelayStep(p)
  BY <1>3, RelayFields DEF SameStage, SameSpan
<1>4. CASE SpanStep(p)
  <2>1. Leased(p)' /\ (owner' = owner \/ owner' = p)
    <3> USE <1>4, SpanFields, SpanMoves DEF SameStage, OwnerInv, Owned, Closes
    <3>1. CASE Acquire(p)
      BY <3>1
    <3>2. CASE TakeFence(p)
      BY <3>2
    <3>3. CASE OpenSpan(p)
      BY <3>3
    <3>4. CASE SpanCloses(p)
      BY <3>4
    <3>5. CASE DrainDone(p)
      BY <3>5
    <3>6. CASE DrainGivesUp(p)
      BY <3>6
    <3>7. CASE SpanAborts(p)
      BY <3>7
    <3> QED
      BY <3>1, <3>2, <3>3, <3>4, <3>5, <3>6, <3>7 DEF SpanStep
  <2> QED
    BY <1>4, <2>1, SpanFields
<1>5. CASE StageStep(p)
  <2>1. Leased(p)' /\ (owner' = owner \/ owner' = 0)
    <3> USE <1>5, StageFields, StageMoves DEF SameSpan, StageInv, Staged, Retiring, Young
    <3>1. CASE ChildListens(p)
      BY <3>1
    <3>2. CASE ChildActivates(p)
      BY <3>2
    <3>3. CASE ChildReady(p)
      BY <3>3
    <3>4. CASE TakeAck(p)
      BY <3>4
    <3>5. CASE Restore(p)
      BY <3>5
    <3>6. CASE HTTPShut(p)
      BY <3>6
    <3>7. CASE OwnershipStopped(p)
      BY <3>7
    <3>8. CASE Seal(p)
      BY <3>8 DEF Sealable
    <3>9. CASE PublishSeal(p)
      BY <3>9
    <3>10. CASE Release(p)
      BY <3>10
    <3>11. CASE Retire(p)
      BY <3>11
    <3>12. CASE Fallback(p)
      BY <3>12
    <3> QED
      BY <3>1, <3>2, <3>3, <3>4, <3>5, <3>6, <3>7, <3>8, <3>9, <3>10, <3>11, <3>12
         DEF StageStep
  <2> QED
    BY <1>5, <2>1, StageFields
<1>6. CASE Perishes(p)
  <2>1. owner' = owner
    BY <1>6, Perished, Zenon DEF Dies
  <2>2. Leased(p)'
    BY <1>6, Perished DEF Ends
  <2> QED
    BY <1>6, <2>1, <2>2, Perished DEF Ends
<1>7. CASE BeginUpgrade(p)
  <2>1. PICK mode \in Modes, kid \in Procs, pauses \in BOOLEAN : ForkOf(p, mode, kid, pauses)
    BY <1>7, Forks
  <2>2. owner' = owner
    BY <1>7 DEF BeginUpgrade
  <2>3. Leased(p)'
    BY <2>1, <2>2 DEF ForkOf, Same
  <2>4. proc[kid].at = "none"
    BY <2>1 DEF ForkOf
  <2>5. owner # kid
    BY <2>4 DEF OwnerInv, Owned, Young
  <2>6. Leased(kid)'
    BY <2>2, <2>5
  <2>7. \A q \in Procs \ {p, kid} : Leased(q)'
    BY <2>1, <2>2 DEF ForkOf
  <2> QED
    BY <2>3, <2>6, <2>7
<1>8. CASE UpgradeFails(p)
  <2>1. owner' = owner
    BY <1>8 DEF UpgradeFails
  <2>2. Leased(p)'
    BY <1>8, <2>1, Fails DEF Same
  <2>3. proc'[proc[p].heir].at = "dead"
    BY <1>8, Fails
  <2>4. \A q \in Procs \ {p, proc[p].heir} : Leased(q)'
    BY <1>8, <2>1, Fails
  <2> QED
    BY <2>2, <2>3, <2>4
<1> QED
  BY <1>1, <1>2, <1>3, <1>4, <1>5, <1>6, <1>7, <1>8, StepKinds

\* Every step keeps the ways out.
LEMMA MovePreserved ==
    ASSUME IInv, MoveInv, [Next]_vars
    PROVE  MoveInv'
<1>1. ASSUME NEW p \in Procs, ProcStep(p) PROVE MoveInv'
  <2>1. /\ Types /\ StageInv /\ OwnerInv /\ OpInv /\ HeadInv /\ Numbered
        /\ \A q \in Procs : Unpauses(proc[q])
        /\ \A q \in Procs : Closes(proc[q])
        /\ \A q \in Procs : Leased(q)
    BY DEF IInv, MoveInv
  <2>2. \A q \in Procs : Unpauses(proc'[q])
    BY <1>1, <2>1, UnpausesPreserved
  <2>3. \A q \in Procs : Closes(proc'[q])
    BY <1>1, <2>1, ClosesPreserved
  <2>4. \A q \in Procs : Leased(q)'
    BY <1>1, <2>1, LeasedPreserved
  <2> QED
    BY <2>2, <2>3, <2>4 DEF MoveInv
<1>2. CASE \/ \E c \in Clients : OpenSession(c) \/ EndSession(c)
           \/ UNCHANGED vars
  <2>1. proc' = proc /\ owner' = owner
    BY <1>2 DEF OpenSession, EndSession, vars
  <2> QED
    BY <2>1 DEF MoveInv, Unpauses, Closes, Leased
<1>3. CASE LeaseExpires
  <2>1. proc' = proc /\ owner' = 0
    BY <1>3 DEF LeaseExpires
  <2> QED
    BY <2>1, Bounds DEF MoveInv, Unpauses, Closes, Leased
<1> QED
  BY <1>1, <1>2, <1>3 DEF Next, ProcStep

\* Once an upgrade is over and those before it are out, the process that serves
\* is all that is left.
LEMMA HeadAlone ==
    ASSUME Types, StageInv, NEW s \in Procs, Head(s), ~May(s),
           proc[s].parent \in Procs => ~May(proc[s].parent)
    PROVE  /\ proc[s].up = "idle" /\ proc[s].at = "serving" /\ ParentDone(s)
           /\ \A q \in Procs \ {s} : proc[q].at \in {"none", "relaying", "dead"}
<1>1. proc[s].up = "idle" /\ proc[s].at = "serving"
  BY DEF May, StageInv, Staged, Head
<1>2. ASSUME NEW q \in Procs, q < s PROVE proc[q].at \in Gone
  BY <1>2 DEF Head, Older, May
<1>3. ASSUME NEW q \in Procs, q > s PROVE proc[q].at \in {"none", "dead"}
  BY <1>1, <1>3 DEF Head, Younger, Kid
<1>4. \A q \in Procs \ {s} : q < s \/ q > s
  BY Bounds
<1>5. ParentDone(s)
  BY <1>2, Fields DEF Head, ParentDone, At, Gone
<1> QED
  BY <1>1, <1>2, <1>3, <1>4, <1>5 DEF Gone

\* Nobody but the process that serves holds the fleet lock, has a span or an
\* operation then.
LEMMA FleetLeft ==
    ASSUME IInv, MoveInv, NEW s \in Procs, proc[s].at = "serving", proc[s].up = "idle", ~May(s),
           \A q \in Procs \ {s} : proc[q].at \in {"none", "relaying", "dead"}
    PROVE  FleetFree /\ ~proc[s].paused /\ \A q \in Procs \ {s} : proc[q].span = "none"
<1>1. Types /\ StageInv /\ OwnerInv /\ OpInv
  BY DEF IInv
<1>2. ASSUME NEW q \in Procs \ {s} PROVE proc[q].span = "none" /\ proc[q].drained
  BY <1>1, <1>2 DEF OwnerInv, Owned, Young, StageInv, Staged
<1>3. ASSUME NEW q \in Procs PROVE ~proc[q].paused
  <2>1. proc[q].up \notin {"waiting", "failing"}
    BY <1>1 DEF StageInv, Staged, Young, Retiring
  <2>2. proc[q].at \notin Retiring
    BY DEF Retiring
  <2> QED
    BY <2>1, <2>2 DEF MoveInv, Unpauses
<1>4. \A q \in Procs : proc[q].span # "fenced"
  BY <1>2 DEF May
<1>5. op = NoOp
  <2> SUFFICES ASSUME op # NoOp PROVE FALSE
    OBVIOUS
  <2>1. op.by \in Procs
    BY <1>1 DEF Types, Operations
  <2>2. op.by # s
    BY DEF May
  <2>3. proc[op.by].span \in {"open", "closing"} \/ ~proc[op.by].drained
    BY <1>1 DEF OpInv
  <2> QED
    BY <1>2, <2>1, <2>2, <2>3
<1> QED
  BY <1>2, <1>3, <1>4, <1>5 DEF FleetFree, FleetHeldEx

\* Elector, OwnerScope, handoff pause and retiring-parent fence: whatever a process
\* that serves still waits for before its operations are admitted is at every
\* moment a step that it, its parent or its child can take, or the expiry of a
\* lease that nobody renews.  There is no cycle among the lease, the fleet lock,
\* the pause and the fence.
THEOREM ServersAlwaysGoOn == Spec => []ServersGoOn
<1>1. Init => MoveInv
  BY Bounds DEF Init, NoProc, MoveInv, Unpauses, Closes, Leased
<1>2. ASSUME IInv, MoveInv PROVE ServersGoOn
  <2> SUFFICES ASSUME NEW p \in Procs, proc[p].at = "serving", ~LeaseLapses,
                      \A q \in Procs \cap {p, proc[p].parent, proc[p].heir} : ~May(q)
               PROVE  Resumed(p)
    BY DEF ServersGoOn
  <2>1. Types /\ StageInv /\ OwnerInv
    BY <1>2 DEF IInv
  <2>2. PICK s \in Procs : Head(s)
    BY <1>2 DEF IInv, HeadInv
  <2>3. p = s
    <3> SUFFICES ASSUME p # s PROVE FALSE
      OBVIOUS
    <3>1. Kid(s, p)
      BY <2>2, Bounds DEF Head, Older, Younger, Gone, Retiring
    <3>2. proc[p].parent = s /\ May(s)
      BY <3>1 DEF Kid, May
    <3> QED
      BY <3>2
  <2>4. ~May(p) /\ (proc[p].parent \in Procs => ~May(proc[p].parent))
    OBVIOUS
  <2>5. /\ proc[p].up = "idle" /\ ParentDone(p)
        /\ \A q \in Procs \ {p} : proc[q].at \in {"none", "relaying", "dead"}
    BY <2>1, <2>2, <2>3, <2>4, HeadAlone
  <2>6. FleetFree /\ ~proc[p].paused /\ \A q \in Procs \ {p} : proc[q].span = "none"
    BY <1>2, <2>4, <2>5, FleetLeft
  <2>7. proc[p].span # "none"
    <3> SUFFICES ASSUME proc[p].span = "none" PROVE FALSE
      OBVIOUS
    <3>1. owner \in Procs
      BY <2>1, <2>4 DEF May, Types
    <3>2. Leased(owner)
      BY <1>2, <3>1 DEF MoveInv
    <3>3. proc[owner].at \notin {"stopping", "stopped", "draining"}
      BY <2>5, <3>1
    <3>4. proc[owner].at = "dead"
      BY <2>6, <3>1, <3>2, <3>3 DEF Leased
    <3> QED
      BY <3>1, <3>4, Bounds DEF LeaseLapses
  <2>8. proc[p].span = "open"
    <3>1. proc[p].span \notin {"waiting", "fenced"}
      BY <2>4, <2>6 DEF May
    <3>2. proc[p].span # "closing"
      BY <1>2 DEF MoveInv, Closes
    <3> QED
      BY <2>1, <2>7, <3>1, <3>2, Fields DEF Spans
  <2>9. ~proc[p].view.unknown
    <3>1. proc[p].view = DiskView
      BY <2>4 DEF May
    <3>2. \A q \in Procs : proc[q].lock # "locked"
      BY <2>1, <2>5 DEF StageInv, Staged
    <3> QED
      BY <3>1, <3>2 DEF DiskView, Live
  <2>10. ~proc[p].fence
    BY <2>4, <2>5, <2>6, <2>8 DEF May, CanOperate
  <2> QED
    BY <2>6, <2>8, <2>9, <2>10 DEF Resumed, RetiringParentAlive
<1>3. IInv /\ MoveInv /\ [Next]_vars => MoveInv'
  BY MovePreserved
<1> QED
  BY <1>1, <1>2, <1>3, InitInv, NextInv, PTL DEF Spec
=============================================================================
