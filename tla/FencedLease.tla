---------------------------- MODULE FencedLease ----------------------------
(***************************************************************************)
(* What control-plane ownership promises the rest of the system: a lease   *)
(* that is held by one instance at a time, whose epoch advances with every *)
(* take-over, and of which an instance may know less than the store does.  *)
(* OwnerElection (the row, the elector, the clock) implements it, and the  *)
(* components that fence their writes by the lease are composed with it.   *)
(***************************************************************************)
EXTENDS Naturals

CONSTANTS
    Instances,  \* control-plane processes
    NoInstance  \* nobody

ASSUME LeaseAssumption == NoInstance \notin Instances

VARIABLES
    holder,     \* the instance the lease row names
    leaseEpoch, \* its epoch
    live,       \* the row has not expired
    known       \* known[i]: the epoch instance i takes itself to own, or 0

leaseVars == <<holder, leaseEpoch, live, known>>

LeaseInit ==
    /\ holder = NoInstance
    /\ leaseEpoch = 0
    /\ live = FALSE
    /\ known = [i \in Instances |-> 0]

\* The row changes hands; the taker has not been told yet.
Take(i) ==
    /\ holder = NoInstance \/ ~live
    /\ holder' = i
    /\ leaseEpoch' = leaseEpoch + 1
    /\ live' = TRUE
    /\ UNCHANGED known

\* The taker learns of the epoch it holds.
Learn(i) ==
    /\ holder = i
    /\ known' = [known EXCEPT ![i] = leaseEpoch]
    /\ UNCHANGED <<holder, leaseEpoch, live>>

\* A renewal revives even an expired row, as long as nobody took it; its
\* answer may be lost, and the holder may give up for that.
Renew(i) ==
    /\ holder = i
    /\ known[i] = leaseEpoch
    /\ live' = TRUE
    /\ known' \in {known, [known EXCEPT ![i] = 0]}
    /\ UNCHANGED <<holder, leaseEpoch>>

Expire ==
    /\ live
    /\ live' = FALSE
    /\ UNCHANGED <<holder, leaseEpoch, known>>

\* The instance stops taking itself for the owner, or is gone.
Forget(i) ==
    /\ known' = [known EXCEPT ![i] = 0]
    /\ UNCHANGED <<holder, leaseEpoch, live>>

\* Given up only by an instance that has already stopped acting as the owner;
\* the epoch stays.
GiveUp(i) ==
    /\ holder = i
    /\ known[i] = 0
    /\ holder' = NoInstance
    /\ live' = FALSE
    /\ UNCHANGED <<leaseEpoch, known>>

LeaseNext ==
    \/ Expire
    \/ \E i \in Instances :
         Take(i) \/ Learn(i) \/ Renew(i) \/ Forget(i) \/ GiveUp(i)

LeaseSpec == LeaseInit /\ [][LeaseNext]_leaseVars

----------------------------------------------------------------------------
\* What leasedWrite asks of the row before it lets a write of instance i,
\* begun under epoch e, commit.
Fenced(i, e) == e = 0 \/ holder # i \/ leaseEpoch # e \/ ~live
============================================================================
