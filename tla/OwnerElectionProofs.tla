------------------------ MODULE OwnerElectionProofs ------------------------
(* Proofs about OwnerElection, for any number of instances, any TTL and any  *)
(* bounds.                                                                   *)
EXTENDS OwnerElection, TLAPS

\* What the store's clock reports is a time.
LEMMA DbClock ==
  ASSUME now \in Nat
  PROVE  /\ DbNow \in Nat
         /\ DbPlusTTL \in Nat
<1> USE ConstantsAssumption
<1>1. \A n \in Nat : n \div Second \in Nat
  OBVIOUS
<1>2. \A m, n \in Nat : m * n \in Nat
  OBVIOUS
<1>3. DbNow \in Nat
  BY <1>1, <1>2 DEF DbNow
<1>4. TTLSeconds \in Nat
  BY <1>1 DEF TTLSeconds
<1> QED
  BY <1>2, <1>3, <1>4 DEF DbPlusTTL

\* Every statement that writes the row leaves a row.
LEMMA RowWrites ==
  ASSUME TypeOK
  PROVE  /\ Renewed \in Rows
         /\ Released \in Rows
         /\ \A i \in Instances : Upsert(i) \in Rows
<1>1. DbNow \in Nat /\ DbPlusTTL \in Nat
  BY DbClock DEF TypeOK
<1> QED
  BY <1>1 DEF TypeOK, Rows, Renewed, Released, Upsert

\* Types are preserved by every action.
LEMMA TypeStep == TypeOK /\ [Next]_vars => TypeOK'
<1> SUFFICES ASSUME TypeOK, [Next]_vars PROVE TypeOK'
  OBVIOUS
<1> USE ConstantsAssumption DEF TypeOK, PCs, elector, scope, writes
<1>0. Renewed \in Rows /\ Released \in Rows /\ \A i \in Instances : Upsert(i) \in Rows
  BY RowWrites
<1>1. ASSUME NEW i \in Instances, BeginStep(i) PROVE TypeOK'
  BY <1>0, <1>1 DEF BeginStep, GoTo
<1>2. ASSUME NEW i \in Instances, RenewOk(i) PROVE TypeOK'
  BY <1>0, <1>2 DEF RenewOk, StepDone, GoTo, Unlocked, Matches
<1>3. ASSUME NEW i \in Instances, RenewLost(i) PROVE TypeOK'
  BY <1>0, <1>3 DEF RenewLost, Relinquish, SetOwner, CancelSpan, GoTo,
      Unlocked, Matches
<1>4. ASSUME NEW i \in Instances, RenewError(i) PROVE TypeOK'
  <2>1. CASE LeaseExpired(i)
    <3>1. Relinquish(i)
      BY <1>4, <2>1 DEF RenewError
    <3> QED
      BY <1>0, <1>4, <3>1 DEF RenewError, Fault, Relinquish, SetOwner,
      CancelSpan, GoTo
  <2>2. CASE ~LeaseExpired(i)
    BY <1>0, <1>4, <2>2 DEF RenewError, Fault, StepDone, GoTo
  <2> QED
    BY <2>1, <2>2
<1>5. ASSUME NEW i \in Instances, AcquireUpsert(i) PROVE TypeOK'
  BY <1>0, <1>5 DEF AcquireUpsert, StepDone, GoTo, Unlocked
<1>6. ASSUME NEW i \in Instances, AcquireError(i) PROVE TypeOK'
  BY <1>0, <1>6 DEF AcquireError, Fault, StepDone, GoTo, Unlocked
<1>7. ASSUME NEW i \in Instances, AcquireRead(i) PROVE TypeOK'
  <2>1. CASE row.instance = i
    <3>1. SetOwner(i, TRUE, row.epoch)
      BY <1>7, <2>1 DEF AcquireRead
    <3>2. row.epoch \in Nat
      BY DEF Rows
    <3> QED
      BY <1>7, <2>1, <3>1, <3>2 DEF AcquireRead, SetOwner, GoTo
  <2>2. CASE row.instance # i
    BY <1>7, <2>2 DEF AcquireRead, StepDone, GoTo
  <2> QED
    BY <2>1, <2>2
<1>8. ASSUME NEW i \in Instances, AcquireReadError(i) PROVE TypeOK'
  BY <1>0, <1>8 DEF AcquireReadError, Fault, StepDone, GoTo
<1>9. ASSUME NEW i \in Instances, ScopeAcquire(i) PROVE TypeOK'
  BY <1>0, <1>9 DEF ScopeAcquire, GoTo
<1>10. ASSUME NEW i \in Instances, OwnerReady(i) PROVE TypeOK'
  BY <1>0, <1>10 DEF OwnerReady
<1>11. ASSUME NEW i \in Instances, SpanPanics(i) PROVE TypeOK'
  BY <1>0, <1>11 DEF SpanPanics, Fault, EndSpan
<1>12. ASSUME NEW i \in Instances, SpanDrained(i) PROVE TypeOK'
  BY <1>0, <1>12 DEF SpanDrained, EndSpan
<1>13. ASSUME NEW i \in Instances, SpanDrainGaveUp(i) PROVE TypeOK'
  BY <1>0, <1>13 DEF SpanDrainGaveUp, Fault, EndSpan
<1>14. ASSUME NEW i \in Instances, LeftoverEnds(i) PROVE TypeOK'
  BY <1>0, <1>14 DEF LeftoverEnds
<1>15. ASSUME NEW i \in Instances, LoseReturns(i) PROVE TypeOK'
  BY <1>0, <1>15 DEF LoseReturns, GoTo
<1>16. ASSUME NEW i \in Instances, Shutdown(i) PROVE TypeOK'
  <2>1. CASE owner[i]
    <3>1. SetOwner(i, FALSE, 0) /\ CancelSpan(i)
      BY <1>16, <2>1 DEF Shutdown
    <3> QED
      BY <1>16, <2>1, <3>1 DEF Shutdown, SetOwner, CancelSpan, GoTo
  <2>2. CASE ~owner[i]
    BY <1>16, <2>2 DEF Shutdown, GoTo
  <2> QED
    BY <2>1, <2>2
<1>17. ASSUME NEW i \in Instances, RetainOrRelease(i) PROVE TypeOK'
  BY <1>0, <1>17 DEF RetainOrRelease, RunReturns, GoTo
<1>18. ASSUME NEW i \in Instances, Release(i) PROVE TypeOK'
  BY <1>0, <1>18 DEF Release, RunReturns, GoTo, Unlocked, Matches
<1>19. ASSUME NEW i \in Instances, ReleaseError(i) PROVE TypeOK'
  <2>1. CASE UNCHANGED row
    BY <1>19, <2>1 DEF ReleaseError, Fault, RunReturns, GoTo
  <2>2. CASE row' = Released
    BY <1>0, <1>19, <2>2 DEF ReleaseError, Fault, RunReturns, GoTo
  <2> QED
    BY <1>19, <2>1, <2>2 DEF ReleaseError
<1>20. ASSUME NEW i \in Instances, Exit(i) PROVE TypeOK'
  BY <1>0, <1>20 DEF Exit, ProcessGone, GoTo, SetOwner
<1>21. ASSUME NEW i \in Instances, Crash(i) PROVE TypeOK'
  BY <1>0, <1>21 DEF Crash, Fault, ProcessGone, GoTo, SetOwner
<1>22. ASSUME NEW i \in Instances, Restart(i) PROVE TypeOK'
  BY <1>0, <1>22 DEF Restart, Fault, GoTo
<1>23. ASSUME NEW i \in Instances, CaptureLease(i) PROVE TypeOK'
  BY <1>0, <1>23 DEF CaptureLease
<1>24. ASSUME NEW i \in Instances, BeginLeasedWrite(i) PROVE TypeOK'
  BY <1>0, <1>24 DEF BeginLeasedWrite, Unlocked, LeaseValid, Matches
<1>25. ASSUME NEW i \in Instances, CommitLeasedWrite(i) PROVE TypeOK'
  BY <1>0, <1>25 DEF CommitLeasedWrite, LeaseValid, Matches
<1>26. CASE Tick
  BY <1>26 DEF Tick
<1>27. CASE UNCHANGED vars
  BY <1>27 DEF vars
<1> QED
  BY <1>1, <1>2, <1>3, <1>4, <1>5, <1>6, <1>7, <1>8, <1>9, <1>10, <1>11,
      <1>12, <1>13, <1>14, <1>15, <1>16, <1>17, <1>18, <1>19, <1>20, <1>21,
      <1>22, <1>23, <1>24, <1>25, <1>26, <1>27 DEF Next, ElectorStep,
      StoreError, OwnerWork, LeasedWrite

\* Where Run stands keeps determining ownership and the span.
LEMMA ControlStep == OwnerInv /\ [Next]_vars => ControlState'
<1> SUFFICES ASSUME OwnerInv, [Next]_vars PROVE ControlState'
  OBVIOUS
<1>t. TypeOK'
  BY TypeStep DEF OwnerInv
<1> USE ConstantsAssumption DEF OwnerInv, TypeOK, Rows, elector, scope,
      writes, ControlState, EpochsFromRow
<1>1. ASSUME NEW i \in Instances, BeginStep(i) PROVE ControlState'
  BY <1>t, <1>1 DEF BeginStep, GoTo
<1>2. ASSUME NEW i \in Instances, RenewOk(i) PROVE ControlState'
  BY <1>t, <1>2 DEF RenewOk, StepDone, GoTo, Unlocked, Renewed
<1>3. ASSUME NEW i \in Instances, RenewLost(i) PROVE ControlState'
  BY <1>t, <1>3 DEF RenewLost, Relinquish, SetOwner, CancelSpan, GoTo,
      Unlocked
<1>4. ASSUME NEW i \in Instances, RenewError(i) PROVE ControlState'
  BY <1>t, <1>4 DEF RenewError, Fault, Relinquish, SetOwner, CancelSpan,
      GoTo, StepDone, Unlocked, Renewed
<1>5. ASSUME NEW i \in Instances, AcquireUpsert(i) PROVE ControlState'
  BY <1>t, <1>5 DEF AcquireUpsert, StepDone, GoTo, Unlocked, Upsert
<1>6. ASSUME NEW i \in Instances, AcquireError(i) PROVE ControlState'
  BY <1>t, <1>6 DEF AcquireError, Fault, StepDone, GoTo, Unlocked, Upsert
<1>7. ASSUME NEW i \in Instances, AcquireRead(i) PROVE ControlState'
  BY <1>t, <1>7 DEF AcquireRead, StepDone, GoTo, SetOwner
<1>8. ASSUME NEW i \in Instances, AcquireReadError(i) PROVE ControlState'
  BY <1>t, <1>8 DEF AcquireReadError, Fault, StepDone, GoTo
<1>9. ASSUME NEW i \in Instances, ScopeAcquire(i) PROVE ControlState'
  BY <1>t, <1>9 DEF ScopeAcquire, GoTo
<1>10. ASSUME NEW i \in Instances, OwnerReady(i) PROVE ControlState'
  BY <1>t, <1>10 DEF OwnerReady
<1>11. ASSUME NEW i \in Instances, SpanPanics(i) PROVE ControlState'
  BY <1>t, <1>11 DEF SpanPanics, Fault, EndSpan
<1>12. ASSUME NEW i \in Instances, SpanDrained(i) PROVE ControlState'
  BY <1>t, <1>12 DEF SpanDrained, EndSpan
<1>13. ASSUME NEW i \in Instances, SpanDrainGaveUp(i) PROVE ControlState'
  BY <1>t, <1>13 DEF SpanDrainGaveUp, Fault, EndSpan
<1>14. ASSUME NEW i \in Instances, LeftoverEnds(i) PROVE ControlState'
  BY <1>t, <1>14 DEF LeftoverEnds
<1>15. ASSUME NEW i \in Instances, LoseReturns(i) PROVE ControlState'
  BY <1>t, <1>15 DEF LoseReturns, GoTo
<1>16. ASSUME NEW i \in Instances, Shutdown(i) PROVE ControlState'
  BY <1>t, <1>16 DEF Shutdown, SetOwner, CancelSpan, GoTo
<1>17. ASSUME NEW i \in Instances, RetainOrRelease(i) PROVE ControlState'
  BY <1>t, <1>17 DEF RetainOrRelease, RunReturns, GoTo
<1>18. ASSUME NEW i \in Instances, Release(i) PROVE ControlState'
  BY <1>t, <1>18 DEF Release, RunReturns, GoTo, Unlocked, Released
<1>19. ASSUME NEW i \in Instances, ReleaseError(i) PROVE ControlState'
  BY <1>t, <1>19 DEF ReleaseError, Fault, RunReturns, GoTo, Unlocked, Released
<1>20. ASSUME NEW i \in Instances, Exit(i) PROVE ControlState'
  BY <1>t, <1>20 DEF Exit, ProcessGone, GoTo, SetOwner
<1>21. ASSUME NEW i \in Instances, Crash(i) PROVE ControlState'
  BY <1>t, <1>21 DEF Crash, Fault, ProcessGone, GoTo, SetOwner
<1>22. ASSUME NEW i \in Instances, Restart(i) PROVE ControlState'
  BY <1>t, <1>22 DEF Restart, Fault, GoTo
<1>23. ASSUME NEW i \in Instances, CaptureLease(i) PROVE ControlState'
  BY <1>t, <1>23 DEF CaptureLease
<1>24. ASSUME NEW i \in Instances, BeginLeasedWrite(i) PROVE ControlState'
  BY <1>t, <1>24 DEF BeginLeasedWrite, Unlocked, LeaseValid
<1>25. ASSUME NEW i \in Instances, CommitLeasedWrite(i) PROVE ControlState'
  BY <1>t, <1>25 DEF CommitLeasedWrite, LeaseValid
<1>26. CASE Tick
  BY <1>26 DEF Tick
<1>27. CASE UNCHANGED vars
  BY <1>27 DEF vars
<1> QED
  BY <1>1, <1>2, <1>3, <1>4, <1>5, <1>6, <1>7, <1>8, <1>9, <1>10, <1>11,
      <1>12, <1>13, <1>14, <1>15, <1>16, <1>17, <1>18, <1>19, <1>20, <1>21,
      <1>22, <1>23, <1>24, <1>25, <1>26, <1>27 DEF Next, ElectorStep,
      StoreError, OwnerWork, LeasedWrite

\* Nothing writes the row while a fenced write has it locked.
LEMMA LockStep == OwnerInv /\ [Next]_vars => LockFreezesRow'
<1> SUFFICES ASSUME OwnerInv, [Next]_vars PROVE LockFreezesRow'
  OBVIOUS
<1>t. TypeOK'
  BY TypeStep DEF OwnerInv
<1> USE ConstantsAssumption DEF OwnerInv, TypeOK, Rows, elector, scope,
      writes, Matches, LockFreezesRow
<1>1. ASSUME NEW i \in Instances, BeginStep(i) PROVE LockFreezesRow'
  BY <1>t, <1>1 DEF BeginStep, GoTo
<1>2. ASSUME NEW i \in Instances, RenewOk(i) PROVE LockFreezesRow'
  BY <1>t, <1>2 DEF RenewOk, StepDone, GoTo, Unlocked, Renewed
<1>3. ASSUME NEW i \in Instances, RenewLost(i) PROVE LockFreezesRow'
  BY <1>t, <1>3 DEF RenewLost, Relinquish, SetOwner, CancelSpan, GoTo,
      Unlocked
<1>4. ASSUME NEW i \in Instances, RenewError(i) PROVE LockFreezesRow'
  BY <1>t, <1>4 DEF RenewError, Fault, Relinquish, SetOwner, CancelSpan,
      GoTo, StepDone, Unlocked, Renewed
<1>5. ASSUME NEW i \in Instances, AcquireUpsert(i) PROVE LockFreezesRow'
  BY <1>t, <1>5 DEF AcquireUpsert, StepDone, GoTo, Unlocked, Upsert
<1>6. ASSUME NEW i \in Instances, AcquireError(i) PROVE LockFreezesRow'
  BY <1>t, <1>6 DEF AcquireError, Fault, StepDone, GoTo, Unlocked, Upsert
<1>7. ASSUME NEW i \in Instances, AcquireRead(i) PROVE LockFreezesRow'
  BY <1>t, <1>7 DEF AcquireRead, StepDone, GoTo, SetOwner
<1>8. ASSUME NEW i \in Instances, AcquireReadError(i) PROVE LockFreezesRow'
  BY <1>t, <1>8 DEF AcquireReadError, Fault, StepDone, GoTo
<1>9. ASSUME NEW i \in Instances, ScopeAcquire(i) PROVE LockFreezesRow'
  BY <1>t, <1>9 DEF ScopeAcquire, GoTo
<1>10. ASSUME NEW i \in Instances, OwnerReady(i) PROVE LockFreezesRow'
  BY <1>t, <1>10 DEF OwnerReady
<1>11. ASSUME NEW i \in Instances, SpanPanics(i) PROVE LockFreezesRow'
  BY <1>t, <1>11 DEF SpanPanics, Fault, EndSpan
<1>12. ASSUME NEW i \in Instances, SpanDrained(i) PROVE LockFreezesRow'
  BY <1>t, <1>12 DEF SpanDrained, EndSpan
<1>13. ASSUME NEW i \in Instances, SpanDrainGaveUp(i) PROVE LockFreezesRow'
  BY <1>t, <1>13 DEF SpanDrainGaveUp, Fault, EndSpan
<1>14. ASSUME NEW i \in Instances, LeftoverEnds(i) PROVE LockFreezesRow'
  BY <1>t, <1>14 DEF LeftoverEnds
<1>15. ASSUME NEW i \in Instances, LoseReturns(i) PROVE LockFreezesRow'
  BY <1>t, <1>15 DEF LoseReturns, GoTo
<1>16. ASSUME NEW i \in Instances, Shutdown(i) PROVE LockFreezesRow'
  BY <1>t, <1>16 DEF Shutdown, SetOwner, CancelSpan, GoTo
<1>17. ASSUME NEW i \in Instances, RetainOrRelease(i) PROVE LockFreezesRow'
  BY <1>t, <1>17 DEF RetainOrRelease, RunReturns, GoTo
<1>18. ASSUME NEW i \in Instances, Release(i) PROVE LockFreezesRow'
  BY <1>t, <1>18 DEF Release, RunReturns, GoTo, Unlocked, Released
<1>19. ASSUME NEW i \in Instances, ReleaseError(i) PROVE LockFreezesRow'
  BY <1>t, <1>19 DEF ReleaseError, Fault, RunReturns, GoTo, Unlocked, Released
<1>20. ASSUME NEW i \in Instances, Exit(i) PROVE LockFreezesRow'
  BY <1>t, <1>20 DEF Exit, ProcessGone, GoTo, SetOwner
<1>21. ASSUME NEW i \in Instances, Crash(i) PROVE LockFreezesRow'
  BY <1>t, <1>21 DEF Crash, Fault, ProcessGone, GoTo, SetOwner
<1>22. ASSUME NEW i \in Instances, Restart(i) PROVE LockFreezesRow'
  BY <1>t, <1>22 DEF Restart, Fault, GoTo
<1>23. ASSUME NEW i \in Instances, CaptureLease(i) PROVE LockFreezesRow'
  BY <1>t, <1>23 DEF CaptureLease
<1>24. ASSUME NEW i \in Instances, BeginLeasedWrite(i) PROVE LockFreezesRow'
  BY <1>t, <1>24 DEF BeginLeasedWrite, Unlocked, LeaseValid
<1>25. ASSUME NEW i \in Instances, CommitLeasedWrite(i) PROVE LockFreezesRow'
  BY <1>t, <1>25 DEF CommitLeasedWrite, LeaseValid
<1>26. CASE Tick
  BY <1>26 DEF Tick
<1>27. CASE UNCHANGED vars
  BY <1>27 DEF vars
<1> QED
  BY <1>1, <1>2, <1>3, <1>4, <1>5, <1>6, <1>7, <1>8, <1>9, <1>10, <1>11,
      <1>12, <1>13, <1>14, <1>15, <1>16, <1>17, <1>18, <1>19, <1>20, <1>21,
      <1>22, <1>23, <1>24, <1>25, <1>26, <1>27 DEF Next, ElectorStep,
      StoreError, OwnerWork, LeasedWrite

\* No step leaves an instance acting under an epoch the row does not back.
LEMMA EpochsStep == OwnerInv /\ [Next]_vars => EpochsFromRow'
<1> SUFFICES ASSUME OwnerInv, [Next]_vars PROVE EpochsFromRow'
  OBVIOUS
<1>t. TypeOK'
  BY TypeStep DEF OwnerInv
<1> USE ConstantsAssumption DEF OwnerInv, TypeOK, Rows, elector, scope,
      writes, Matches, EpochsFromRow, ControlState, Backed,
     LockFreezesRow
<1>1. ASSUME NEW i \in Instances, BeginStep(i) PROVE EpochsFromRow'
  BY <1>t, <1>1 DEF BeginStep, GoTo
<1>2. ASSUME NEW i \in Instances, RenewOk(i) PROVE EpochsFromRow'
  BY <1>t, <1>2 DEF RenewOk, StepDone, GoTo, Unlocked, Renewed
<1>3. ASSUME NEW i \in Instances, RenewLost(i) PROVE EpochsFromRow'
  BY <1>t, <1>3 DEF RenewLost, Relinquish, SetOwner, CancelSpan, GoTo,
      Unlocked
<1>4. ASSUME NEW i \in Instances, RenewError(i) PROVE EpochsFromRow'
  BY <1>t, <1>4 DEF RenewError, Fault, Relinquish, SetOwner, CancelSpan,
      GoTo, StepDone, Unlocked, Renewed
<1>5. ASSUME NEW i \in Instances, AcquireUpsert(i) PROVE EpochsFromRow'
  BY <1>t, <1>5 DEF AcquireUpsert, StepDone, GoTo, Unlocked, Upsert
<1>6. ASSUME NEW i \in Instances, AcquireError(i) PROVE EpochsFromRow'
  BY <1>t, <1>6 DEF AcquireError, Fault, StepDone, GoTo, Unlocked, Upsert
<1>7. ASSUME NEW i \in Instances, AcquireRead(i) PROVE EpochsFromRow'
  BY <1>t, <1>7 DEF AcquireRead, StepDone, GoTo, SetOwner
<1>8. ASSUME NEW i \in Instances, AcquireReadError(i) PROVE EpochsFromRow'
  BY <1>t, <1>8 DEF AcquireReadError, Fault, StepDone, GoTo
<1>9. ASSUME NEW i \in Instances, ScopeAcquire(i) PROVE EpochsFromRow'
  BY <1>t, <1>9 DEF ScopeAcquire, GoTo
<1>10. ASSUME NEW i \in Instances, OwnerReady(i) PROVE EpochsFromRow'
  BY <1>t, <1>10 DEF OwnerReady
<1>11. ASSUME NEW i \in Instances, SpanPanics(i) PROVE EpochsFromRow'
  BY <1>t, <1>11 DEF SpanPanics, Fault, EndSpan
<1>12. ASSUME NEW i \in Instances, SpanDrained(i) PROVE EpochsFromRow'
  BY <1>t, <1>12 DEF SpanDrained, EndSpan
<1>13. ASSUME NEW i \in Instances, SpanDrainGaveUp(i) PROVE EpochsFromRow'
  BY <1>t, <1>13 DEF SpanDrainGaveUp, Fault, EndSpan
<1>14. ASSUME NEW i \in Instances, LeftoverEnds(i) PROVE EpochsFromRow'
  BY <1>t, <1>14 DEF LeftoverEnds
<1>15. ASSUME NEW i \in Instances, LoseReturns(i) PROVE EpochsFromRow'
  BY <1>t, <1>15 DEF LoseReturns, GoTo
<1>16. ASSUME NEW i \in Instances, Shutdown(i) PROVE EpochsFromRow'
  BY <1>t, <1>16 DEF Shutdown, SetOwner, CancelSpan, GoTo
<1>17. ASSUME NEW i \in Instances, RetainOrRelease(i) PROVE EpochsFromRow'
  BY <1>t, <1>17 DEF RetainOrRelease, RunReturns, GoTo
<1>18. ASSUME NEW i \in Instances, Release(i) PROVE EpochsFromRow'
  BY <1>t, <1>18 DEF Release, RunReturns, GoTo, Unlocked, Released
<1>19. ASSUME NEW i \in Instances, ReleaseError(i) PROVE EpochsFromRow'
  BY <1>t, <1>19 DEF ReleaseError, Fault, RunReturns, GoTo, Unlocked, Released
<1>20. ASSUME NEW i \in Instances, Exit(i) PROVE EpochsFromRow'
  BY <1>t, <1>20 DEF Exit, ProcessGone, GoTo, SetOwner
<1>21. ASSUME NEW i \in Instances, Crash(i) PROVE EpochsFromRow'
  BY <1>t, <1>21 DEF Crash, Fault, ProcessGone, GoTo, SetOwner
<1>22. ASSUME NEW i \in Instances, Restart(i) PROVE EpochsFromRow'
  BY <1>t, <1>22 DEF Restart, Fault, GoTo
<1>23. ASSUME NEW i \in Instances, CaptureLease(i) PROVE EpochsFromRow'
  BY <1>t, <1>23 DEF CaptureLease
<1>24. ASSUME NEW i \in Instances, BeginLeasedWrite(i) PROVE EpochsFromRow'
  BY <1>t, <1>24 DEF BeginLeasedWrite, Unlocked, LeaseValid
<1>25. ASSUME NEW i \in Instances, CommitLeasedWrite(i) PROVE EpochsFromRow'
  BY <1>t, <1>25 DEF CommitLeasedWrite, LeaseValid
<1>26. CASE Tick
  BY <1>26 DEF Tick
<1>27. CASE UNCHANGED vars
  BY <1>27 DEF vars
<1> QED
  BY <1>1, <1>2, <1>3, <1>4, <1>5, <1>6, <1>7, <1>8, <1>9, <1>10, <1>11,
      <1>12, <1>13, <1>14, <1>15, <1>16, <1>17, <1>18, <1>19, <1>20, <1>21,
      <1>22, <1>23, <1>24, <1>25, <1>26, <1>27 DEF Next, ElectorStep,
      StoreError, OwnerWork, LeasedWrite

----------------------------------------------------------------------------
\* An epoch e that instance j acts under was one it acted under before, or it
\* is the row's epoch and the row names j.
From(j,
      e) == e = 0 \/ e \in Presents(j) \/ (row.instance = j /\ e = row.epoch)

Inherited(j) ==
    /\ From(j, epoch'[j])
    /\ From(j, span'[j])
    /\ From(j, token'[j])
    /\ From(j, exiting'[j])

\* Instances come by epochs only through the row.
LEMMA PresentsStep == OwnerInv /\ [Next]_vars => \A j \in Instances : Inherited(j)
<1> SUFFICES ASSUME OwnerInv,
      [Next]_vars PROVE \A j \in Instances : Inherited(j)
  OBVIOUS
<1> USE ConstantsAssumption DEF OwnerInv, TypeOK, Rows, elector, scope,
      writes, Inherited, From, Presents
<1>1. ASSUME NEW i \in Instances,
      BeginStep(i) PROVE \A j \in Instances : Inherited(j)
  BY <1>1 DEF BeginStep
<1>2. ASSUME NEW i \in Instances,
      RenewOk(i) PROVE \A j \in Instances : Inherited(j)
  BY <1>2 DEF RenewOk, StepDone
<1>3. ASSUME NEW i \in Instances,
      RenewLost(i) PROVE \A j \in Instances : Inherited(j)
  BY <1>3 DEF RenewLost, Relinquish, SetOwner, CancelSpan
<1>4. ASSUME NEW i \in Instances,
      RenewError(i) PROVE \A j \in Instances : Inherited(j)
  BY <1>4 DEF RenewError, Relinquish, SetOwner, CancelSpan, StepDone
<1>5. ASSUME NEW i \in Instances,
      AcquireUpsert(i) PROVE \A j \in Instances : Inherited(j)
  BY <1>5 DEF AcquireUpsert, StepDone
<1>6. ASSUME NEW i \in Instances,
      AcquireError(i) PROVE \A j \in Instances : Inherited(j)
  BY <1>6 DEF AcquireError, StepDone
<1>7. ASSUME NEW i \in Instances,
      AcquireRead(i) PROVE \A j \in Instances : Inherited(j)
  BY <1>7 DEF AcquireRead, StepDone, SetOwner
<1>8. ASSUME NEW i \in Instances,
      AcquireReadError(i) PROVE \A j \in Instances : Inherited(j)
  BY <1>8 DEF AcquireReadError, StepDone
<1>9. ASSUME NEW i \in Instances,
      ScopeAcquire(i) PROVE \A j \in Instances : Inherited(j)
  BY <1>9 DEF ScopeAcquire
<1>10. ASSUME NEW i \in Instances,
      OwnerReady(i) PROVE \A j \in Instances : Inherited(j)
  BY <1>10 DEF OwnerReady
<1>11. ASSUME NEW i \in Instances,
      SpanPanics(i) PROVE \A j \in Instances : Inherited(j)
  BY <1>11 DEF SpanPanics, EndSpan
<1>12. ASSUME NEW i \in Instances,
      SpanDrained(i) PROVE \A j \in Instances : Inherited(j)
  BY <1>12 DEF SpanDrained, EndSpan
<1>13. ASSUME NEW i \in Instances,
      SpanDrainGaveUp(i) PROVE \A j \in Instances : Inherited(j)
  BY <1>13 DEF SpanDrainGaveUp, EndSpan
<1>14. ASSUME NEW i \in Instances,
      LeftoverEnds(i) PROVE \A j \in Instances : Inherited(j)
  BY <1>14 DEF LeftoverEnds
<1>15. ASSUME NEW i \in Instances,
      LoseReturns(i) PROVE \A j \in Instances : Inherited(j)
  BY <1>15 DEF LoseReturns
<1>16. ASSUME NEW i \in Instances,
      Shutdown(i) PROVE \A j \in Instances : Inherited(j)
  BY <1>16 DEF Shutdown, SetOwner, CancelSpan
<1>17. ASSUME NEW i \in Instances,
      RetainOrRelease(i) PROVE \A j \in Instances : Inherited(j)
  BY <1>17 DEF RetainOrRelease, RunReturns
<1>18. ASSUME NEW i \in Instances,
      Release(i) PROVE \A j \in Instances : Inherited(j)
  BY <1>18 DEF Release, RunReturns
<1>19. ASSUME NEW i \in Instances,
      ReleaseError(i) PROVE \A j \in Instances : Inherited(j)
  BY <1>19 DEF ReleaseError, RunReturns
<1>20. ASSUME NEW i \in Instances,
      Exit(i) PROVE \A j \in Instances : Inherited(j)
  BY <1>20 DEF Exit, ProcessGone, SetOwner
<1>21. ASSUME NEW i \in Instances,
      Crash(i) PROVE \A j \in Instances : Inherited(j)
  BY <1>21 DEF Crash, ProcessGone, SetOwner
<1>22. ASSUME NEW i \in Instances,
      Restart(i) PROVE \A j \in Instances : Inherited(j)
  BY <1>22 DEF Restart
<1>23. ASSUME NEW i \in Instances,
      CaptureLease(i) PROVE \A j \in Instances : Inherited(j)
  BY <1>23 DEF CaptureLease
<1>24. ASSUME NEW i \in Instances,
      BeginLeasedWrite(i) PROVE \A j \in Instances : Inherited(j)
  BY <1>24 DEF BeginLeasedWrite
<1>25. ASSUME NEW i \in Instances,
      CommitLeasedWrite(i) PROVE \A j \in Instances : Inherited(j)
  BY <1>25 DEF CommitLeasedWrite
<1>26. CASE Tick
  BY <1>26 DEF Tick
<1>27. CASE UNCHANGED vars
  BY <1>27 DEF vars
<1> QED
  BY <1>1, <1>2, <1>3, <1>4, <1>5, <1>6, <1>7, <1>8, <1>9, <1>10, <1>11,
      <1>12, <1>13, <1>14, <1>15, <1>16, <1>17, <1>18, <1>19, <1>20, <1>21,
      <1>22, <1>23, <1>24, <1>25, <1>26, <1>27 DEF Next, ElectorStep,
      StoreError, OwnerWork, LeasedWrite

\* So no step gives two instances the same epoch.
LEMMA UniqueStep == OwnerInv /\ [Next]_vars => EpochsAreUnique'
<1> SUFFICES ASSUME OwnerInv, [Next]_vars,
                    NEW i \in Instances, NEW j \in Instances, i # j,
                    NEW e \in Presents(i)' \cap Presents(j)'
             PROVE  FALSE
  BY DEF EpochsAreUnique
<1>1. \A k \in {i,
      j} : e \in Presents(k) \/ (row.instance = k /\ e = row.epoch)
  BY PresentsStep DEF Inherited, From, Presents
<1>2. e # 0
  BY DEF Presents
<1>3. \A k \in {i,
      j} : e \in Presents(k) /\ e = row.epoch => row.instance \in {k,
      NoInstance}
  BY <1>2 DEF Presents, OwnerInv, TypeOK, Rows, EpochsFromRow, Backed, Matches
<1>4. ~(e \in Presents(i) /\ e \in Presents(j))
  BY DEF OwnerInv, EpochsAreUnique
<1> QED
  BY <1>1, <1>3, <1>4, ConstantsAssumption

----------------------------------------------------------------------------
\* Together: the invariant is inductive.
LEMMA InvStep == OwnerInv /\ [Next]_vars => OwnerInv'
<1> SUFFICES ASSUME OwnerInv, [Next]_vars PROVE OwnerInv'
  OBVIOUS
<1>1. TypeOK'
  BY TypeStep DEF OwnerInv
<1> QED
  BY <1>1, ControlStep, LockStep, EpochsStep, UniqueStep DEF OwnerInv

\* The inductive invariant holds of every behaviour.
THEOREM OwnerInvariant == Spec => []OwnerInv
<1>1. Init => OwnerInv
  <2> SUFFICES ASSUME Init PROVE OwnerInv
    OBVIOUS
  <2> USE ConstantsAssumption DEF Init
  <2>1. TypeOK
    BY DEF TypeOK, Rows, PCs
  <2>2. EpochsFromRow /\ EpochsAreUnique /\ ControlState /\ LockFreezesRow
    BY DEF EpochsFromRow, EpochsAreUnique, Presents, ControlState,
      LockFreezesRow
  <2> QED
    BY <2>1, <2>2 DEF OwnerInv
<1>2. OwnerInv /\ [Next]_vars => OwnerInv'
  BY InvStep
<1> QED
  BY <1>1, <1>2, PTL DEF Spec

\* The row, the electors and the scopes keep their types (elector.go, owner.go).
THEOREM TypeCorrect == Spec => []TypeOK
<1>1. OwnerInv => TypeOK
  BY DEF OwnerInv
<1> QED
  BY <1>1, OwnerInvariant, PTL

\* A fencing epoch is never in the hands of two instances (AcquireOwner).
THEOREM UniqueEpochs == Spec => []EpochsAreUnique
<1>1. OwnerInv => EpochsAreUnique
  BY DEF OwnerInv
<1> QED
  BY <1>1, OwnerInvariant, PTL

\* Owner work never runs under an epoch that has been released (Elector.Run).
THEOREM SpanBacked == Spec => []SpanKeepsItsEpoch
<1>1. OwnerInv => SpanKeepsItsEpoch
  BY DEF OwnerInv, EpochsFromRow, Backed, SpanKeepsItsEpoch
<1> QED
  BY <1>1, OwnerInvariant, PTL

\* Mutations are admitted only during the current epoch's owner work
\* (ownerAndReadyPredicate, OwnerScope.Acquire).
THEOREM AdmissionGated == Spec => []AdmissionNeedsCurrentSpan
<1>1. OwnerInv => AdmissionNeedsCurrentSpan
  BY DEF OwnerInv, ControlState, AdmissionNeedsCurrentSpan
<1> QED
  BY <1>1, OwnerInvariant, PTL

\* Lease-fenced writes commit in epoch order (leasedWrite, checkOwnerLease).
THEOREM FencedWritesOrdered == Spec => WritesInEpochOrder
<1>1. OwnerInv /\ [Next]_vars => lastWrite' >= lastWrite
  <2> SUFFICES ASSUME OwnerInv, [Next]_vars PROVE lastWrite' >= lastWrite
    OBVIOUS
  <2> USE DEF OwnerInv, TypeOK
  <2>1. ASSUME NEW i \in Instances, CommitLeasedWrite(i)
        PROVE  lastWrite' >= lastWrite
    BY <2>1, ConstantsAssumption
       DEF CommitLeasedWrite, LeaseValid, Matches, LockFreezesRow, Rows
  <2>2. UNCHANGED lastWrite \/ \E i \in Instances : CommitLeasedWrite(i)
    BY DEF Next, vars, writes, ElectorStep, StoreError, OwnerWork,
      LeasedWrite,
       BeginStep, RenewOk, RenewLost, RenewError, AcquireUpsert, AcquireError,
       AcquireRead, AcquireReadError, ScopeAcquire, OwnerReady, SpanPanics,
       SpanDrained, SpanDrainGaveUp, LeftoverEnds, LoseReturns, Shutdown,
       RetainOrRelease, Release, ReleaseError, Exit, Crash, ProcessGone,
       Restart, CaptureLease, BeginLeasedWrite, Tick
  <2> QED
    BY <2>1, <2>2
<1> QED
  BY <1>1, OwnerInvariant, PTL DEF Spec, WritesInEpochOrder

\* The lease is released only once all owner work of the process has stopped
\* (Elector.Run, drainOwnershipHandoff).
THEOREM QuietRelease == Spec => ReleaseIsQuiet
<1>1. OwnerInv /\ [Next]_vars =>
        \A i \in Instances : row.instance = i /\ row'.instance = NoInstance
                               => span[i] = 0 /\ ~leftover[i]
  <2> SUFFICES ASSUME OwnerInv, [Next]_vars, NEW i \in Instances,
                      row.instance = i, row'.instance = NoInstance
               PROVE  span[i] = 0 /\ ~leftover[i]
    OBVIOUS
  <2> USE ConstantsAssumption DEF OwnerInv, TypeOK
  <2>0. \/ UNCHANGED row
        \/ row' = Renewed
        \/ \E j \in Instances : row' = Upsert(j)
        \/ \E j \in Instances : Release(j) \/ ReleaseError(j)
    BY DEF Next, vars, ElectorStep, StoreError, OwnerWork, LeasedWrite,
       BeginStep, RenewOk, RenewLost, RenewError, AcquireUpsert, AcquireError,
       AcquireRead, AcquireReadError, ScopeAcquire, OwnerReady, SpanPanics,
       SpanDrained, SpanDrainGaveUp, LeftoverEnds, LoseReturns, Shutdown,
       RetainOrRelease, Exit, Crash, ProcessGone, Restart, CaptureLease,
       BeginLeasedWrite, CommitLeasedWrite, Tick
  <2>1. PICK j \in Instances : Release(j) \/ ReleaseError(j)
    BY <2>0 DEF Upsert, Renewed, Rows
  <2>2. pc[j] = "release" /\ j = i
    BY <2>1 DEF Release, ReleaseError, Matches
  <2> QED
    BY <2>2 DEF ControlState
<1> QED
  BY <1>1, OwnerInvariant, PTL DEF Spec, ReleaseIsQuiet

\* With an exact clock no deadline gets ahead of the stamp behind it.
LEMMA DeadlineStep == ExactClock /\ OwnerInv /\ DeadlinesFollowStamps /\ [Next]_vars
                        => DeadlinesFollowStamps'
<1> SUFFICES ASSUME ExactClock, OwnerInv, DeadlinesFollowStamps,
      [Next]_vars PROVE DeadlinesFollowStamps'
  OBVIOUS
<1>t. TypeOK'
  BY TypeStep DEF OwnerInv
<1>d. DbNow = now /\ DbPlusTTL = now + TTL
  BY DEF ExactClock, DbNow, DbPlusTTL
<1> USE ConstantsAssumption DEF OwnerInv, TypeOK, Rows, elector, scope,
      writes, Matches, ControlState, DeadlinesFollowStamps
<1>1. ASSUME NEW i \in Instances, BeginStep(i) PROVE DeadlinesFollowStamps'
  BY <1>d, <1>t, <1>1 DEF BeginStep, GoTo
<1>2. ASSUME NEW i \in Instances, RenewOk(i) PROVE DeadlinesFollowStamps'
  BY <1>d, <1>t, <1>2 DEF RenewOk, StepDone, GoTo, Unlocked, Renewed
<1>3. ASSUME NEW i \in Instances, RenewLost(i) PROVE DeadlinesFollowStamps'
  BY <1>d, <1>t, <1>3 DEF RenewLost, Relinquish, SetOwner, CancelSpan, GoTo,
      Unlocked
<1>4. ASSUME NEW i \in Instances, RenewError(i) PROVE DeadlinesFollowStamps'
  BY <1>d, <1>t, <1>4 DEF RenewError, Fault, Relinquish, SetOwner,
      CancelSpan, GoTo, StepDone, Unlocked, Renewed
<1>5. ASSUME NEW i \in Instances,
      AcquireUpsert(i) PROVE DeadlinesFollowStamps'
  BY <1>d, <1>t, <1>5 DEF AcquireUpsert, StepDone, GoTo, Unlocked, Upsert
<1>6. ASSUME NEW i \in Instances, AcquireError(i) PROVE DeadlinesFollowStamps'
  BY <1>d, <1>t, <1>6 DEF AcquireError, Fault, StepDone, GoTo, Unlocked,
      Upsert
<1>7. ASSUME NEW i \in Instances, AcquireRead(i) PROVE DeadlinesFollowStamps'
  BY <1>d, <1>t, <1>7 DEF AcquireRead, StepDone, GoTo, SetOwner
<1>8. ASSUME NEW i \in Instances,
      AcquireReadError(i) PROVE DeadlinesFollowStamps'
  BY <1>d, <1>t, <1>8 DEF AcquireReadError, Fault, StepDone, GoTo
<1>9. ASSUME NEW i \in Instances, ScopeAcquire(i) PROVE DeadlinesFollowStamps'
  BY <1>d, <1>t, <1>9 DEF ScopeAcquire, GoTo
<1>10. ASSUME NEW i \in Instances, OwnerReady(i) PROVE DeadlinesFollowStamps'
  BY <1>d, <1>t, <1>10 DEF OwnerReady
<1>11. ASSUME NEW i \in Instances, SpanPanics(i) PROVE DeadlinesFollowStamps'
  BY <1>d, <1>t, <1>11 DEF SpanPanics, Fault, EndSpan
<1>12. ASSUME NEW i \in Instances, SpanDrained(i) PROVE DeadlinesFollowStamps'
  BY <1>d, <1>t, <1>12 DEF SpanDrained, EndSpan
<1>13. ASSUME NEW i \in Instances,
      SpanDrainGaveUp(i) PROVE DeadlinesFollowStamps'
  BY <1>d, <1>t, <1>13 DEF SpanDrainGaveUp, Fault, EndSpan
<1>14. ASSUME NEW i \in Instances,
      LeftoverEnds(i) PROVE DeadlinesFollowStamps'
  BY <1>d, <1>t, <1>14 DEF LeftoverEnds
<1>15. ASSUME NEW i \in Instances, LoseReturns(i) PROVE DeadlinesFollowStamps'
  BY <1>d, <1>t, <1>15 DEF LoseReturns, GoTo
<1>16. ASSUME NEW i \in Instances, Shutdown(i) PROVE DeadlinesFollowStamps'
  BY <1>d, <1>t, <1>16 DEF Shutdown, SetOwner, CancelSpan, GoTo
<1>17. ASSUME NEW i \in Instances,
      RetainOrRelease(i) PROVE DeadlinesFollowStamps'
  BY <1>d, <1>t, <1>17 DEF RetainOrRelease, RunReturns, GoTo
<1>18. ASSUME NEW i \in Instances, Release(i) PROVE DeadlinesFollowStamps'
  BY <1>d, <1>t, <1>18 DEF Release, RunReturns, GoTo, Unlocked, Released
<1>19. ASSUME NEW i \in Instances,
      ReleaseError(i) PROVE DeadlinesFollowStamps'
  BY <1>d, <1>t, <1>19 DEF ReleaseError, Fault, RunReturns, GoTo, Unlocked,
      Released
<1>20. ASSUME NEW i \in Instances, Exit(i) PROVE DeadlinesFollowStamps'
  BY <1>d, <1>t, <1>20 DEF Exit, ProcessGone, GoTo, SetOwner
<1>21. ASSUME NEW i \in Instances, Crash(i) PROVE DeadlinesFollowStamps'
  BY <1>d, <1>t, <1>21 DEF Crash, Fault, ProcessGone, GoTo, SetOwner
<1>22. ASSUME NEW i \in Instances, Restart(i) PROVE DeadlinesFollowStamps'
  BY <1>d, <1>t, <1>22 DEF Restart, Fault, GoTo
<1>23. ASSUME NEW i \in Instances,
      CaptureLease(i) PROVE DeadlinesFollowStamps'
  BY <1>d, <1>t, <1>23 DEF CaptureLease
<1>24. ASSUME NEW i \in Instances,
      BeginLeasedWrite(i) PROVE DeadlinesFollowStamps'
  BY <1>d, <1>t, <1>24 DEF BeginLeasedWrite, Unlocked, LeaseValid
<1>25. ASSUME NEW i \in Instances,
      CommitLeasedWrite(i) PROVE DeadlinesFollowStamps'
  BY <1>d, <1>t, <1>25 DEF CommitLeasedWrite, LeaseValid
<1>26. CASE Tick
  BY <1>26 DEF Tick
<1>27. CASE UNCHANGED vars
  BY <1>27 DEF vars
<1> QED
  BY <1>1, <1>2, <1>3, <1>4, <1>5, <1>6, <1>7, <1>8, <1>9, <1>10, <1>11,
      <1>12, <1>13, <1>14, <1>15, <1>16, <1>17, <1>18, <1>19, <1>20, <1>21,
      <1>22, <1>23, <1>24, <1>25, <1>26, <1>27 DEF Next, ElectorStep,
      StoreError, OwnerWork, LeasedWrite

\* On a clock as fine as the instances' own and a TTL of whole seconds, an
\* owner's local deadline never outlives the row's (bumpLeaseFrom).
THEOREM DeadlineConservative == ExactClock => (Spec => []LocalDeadlineConservative)
<1> SUFFICES ASSUME ExactClock PROVE Spec => []LocalDeadlineConservative
  OBVIOUS
<1>1. Init => DeadlinesFollowStamps
  <2> SUFFICES ASSUME Init, NEW i \in Instances
               PROVE  /\ start[i] <= now
                      /\ leaseExpiry[i] <= now + TTL
                      /\ ~owner[i]
                      /\ pc[i] # "readEpoch"
    BY Zenon DEF DeadlinesFollowStamps
  <2>1. now = 0 /\ start[i] = 0 /\ leaseExpiry[i] = 0
    BY DEF Init
  <2>2. ~owner[i] /\ pc[i] # "readEpoch"
    BY DEF Init
  <2> QED
    BY <2>1, <2>2, ConstantsAssumption
<1>2. OwnerInv /\ DeadlinesFollowStamps /\ [Next]_vars => DeadlinesFollowStamps'
  BY DeadlineStep
<1>3. DeadlinesFollowStamps => LocalDeadlineConservative
  BY DEF DeadlinesFollowStamps, LocalDeadlineConservative
<1> QED
  BY <1>1, <1>2, <1>3, OwnerInvariant, PTL DEF Spec
----------------------------------------------------------------------------
(* OwnerElection implements FencedLease.                                    *)

\* The store's clock never runs backwards, and a stamp lies ahead of it.
LEMMA ClockAdvances ==
  ASSUME now \in Nat
  PROVE  /\ DbPlusTTL > DbNow
         /\ now' = now => DbNow' = DbNow
         /\ now' = now + 1 => DbNow' >= DbNow
<1> USE ConstantsAssumption
<1>1. DbNow \in Nat
  BY DbClock
<1>2. TTLSeconds \in Nat \ {0}
  BY DEF TTLSeconds
<1>3. \A m, n \in Nat \ {0} : m * n \in Nat \ {0}
  OBVIOUS
<1>4. DbPlusTTL > DbNow
  <2>1. TTLSeconds * Second \in Nat \ {0}
    BY <1>2, <1>3
  <2> QED
    BY <1>1, <2>1 DEF DbPlusTTL
<1>5. now' = now => DbNow' = DbNow
  BY DEF DbNow
<1>6. ASSUME now' = now + 1 PROVE DbNow' >= DbNow
  <2> DEFINE q == now \div Second
             r == (now + 1) \div Second
  <2>1. q \in Nat /\ r \in Nat /\ q <= r
    OBVIOUS
  <2>2. \A m, n \in Nat : m <= n => m * Second <= n * Second
    OBVIOUS
  <2>3. q * Second <= r * Second
    BY <2>1, <2>2
  <2>4. CASE TruncatesClock
    <3>1. DbNow = q * Second /\ DbNow' = r * Second
      BY <1>6, <2>4 DEF DbNow
    <3>2. q * Second \in Nat /\ r * Second \in Nat
      BY <2>1
    <3> QED
      BY <2>3, <3>1, <3>2
  <2>5. CASE ~TruncatesClock
    BY <1>6, <2>5 DEF DbNow
  <2> QED
    BY <2>4, <2>5
<1> QED
  BY <1>4, <1>5, <1>6

\* Every step of the electors is a step of the lease, or does not touch it.
LEMMA LeaseStep == OwnerInv /\ [Next]_vars => [Lease!LeaseNext]_Lease!leaseVars
<1> SUFFICES ASSUME OwnerInv, [Next]_vars
             PROVE  Lease!LeaseNext \/ UNCHANGED Lease!leaseVars
  OBVIOUS
<1> DEFINE Mapped == Lease!LeaseNext \/ UNCHANGED Lease!leaseVars
<1>t. TypeOK /\ TypeOK'
  BY TypeStep DEF OwnerInv
<1>n. now \in Nat /\ DbNow \in Nat /\ DbPlusTTL \in Nat
  BY <1>t, DbClock DEF TypeOK
<1>c. /\ DbPlusTTL > DbNow
      /\ now' = now => DbNow' = DbNow
      /\ now' = now + 1 => DbNow' >= DbNow
  BY <1>n, ClockAdvances
<1>q. ASSUME row' = row, epoch' = epoch, now' = now PROVE Mapped
  BY <1>q, <1>c DEF Lease!leaseVars
<1>f. ASSUME NEW i \in Instances, row' = row, now' = now,
             epoch' = [epoch EXCEPT ![i] = 0]
      PROVE  Mapped
  <2>1. Lease!Forget(i)
    BY <1>f, <1>c DEF Lease!Forget
  <2> QED
    BY <2>1 DEF Lease!LeaseNext
<1>r. ASSUME NEW i \in Instances, Matches(i, epoch[i]), row' = Renewed, now' = now,
             epoch' \in {epoch, [epoch EXCEPT ![i] = 0]}
      PROVE  Mapped
  <2>1. row'.instance = row.instance /\ row'.epoch = row.epoch /\ row'.expires = DbPlusTTL
    BY <1>t, <1>r DEF Renewed, TypeOK, Rows
  <2>2. Lease!Renew(i)
    BY <1>r, <1>c, <1>n, <2>1 DEF Lease!Renew, Matches
  <2> QED
    BY <2>2 DEF Lease!LeaseNext
<1>u. ASSUME NEW i \in Instances, Free, row' = Upsert(i), now' = now, epoch' = epoch
      PROVE  Mapped
  <2>1. row'.instance = i /\ row'.epoch = row.epoch + 1 /\ row'.expires = DbPlusTTL
    BY <1>u DEF Upsert
  <2>2. row.instance = NoInstance \/ ~(row.expires > DbNow)
    BY <1>u, <1>n, <1>t DEF Free, TypeOK, Rows
  <2>3. Lease!Take(i)
    BY <1>u, <1>c, <1>n, <2>1, <2>2 DEF Lease!Take
  <2> QED
    BY <2>3 DEF Lease!LeaseNext
<1>g. ASSUME NEW i \in Instances, row.instance = i, epoch[i] = 0, row' = Released,
             now' = now, epoch' = epoch
      PROVE  Mapped
  <2>1. row'.instance = NoInstance /\ row'.epoch = row.epoch /\ row'.expires = DbNow
    BY <1>g DEF Released
  <2>2. Lease!GiveUp(i)
    BY <1>g, <1>c, <1>n, <2>1 DEF Lease!GiveUp
  <2> QED
    BY <2>2 DEF Lease!LeaseNext
<1>1. ASSUME NEW i \in Instances, BeginStep(i) PROVE Mapped
  BY <1>q, <1>1 DEF BeginStep, elector
<1>2. ASSUME NEW i \in Instances, RenewOk(i) PROVE Mapped
  BY <1>r, <1>2 DEF RenewOk
<1>3. ASSUME NEW i \in Instances, RenewLost(i) PROVE Mapped
  BY <1>q, <1>f, <1>3 DEF RenewLost, Relinquish, SetOwner
<1>4. ASSUME NEW i \in Instances, RenewError(i) PROVE Mapped
  <2>1. now' = now /\ epoch' \in {epoch, [epoch EXCEPT ![i] = 0]}
    BY <1>4 DEF RenewError, Relinquish, SetOwner
  <2>2. CASE row' = row
    BY <1>q, <1>f, <2>1, <2>2
  <2>3. CASE Matches(i, epoch[i]) /\ row' = Renewed
    BY <1>r, <2>1, <2>3
  <2> QED
    BY <1>4, <2>2, <2>3 DEF RenewError
<1>5. ASSUME NEW i \in Instances, AcquireUpsert(i) PROVE Mapped
  BY <1>q, <1>u, <1>5 DEF AcquireUpsert, elector
<1>6. ASSUME NEW i \in Instances, AcquireError(i) PROVE Mapped
  BY <1>q, <1>u, <1>6 DEF AcquireError, elector
<1>7. ASSUME NEW i \in Instances, AcquireRead(i) PROVE Mapped
  <2>1. CASE row.instance = i
    <3>1. Lease!Learn(i)
      BY <1>c, <1>7, <2>1 DEF AcquireRead, SetOwner, Lease!Learn
    <3> QED
      BY <3>1 DEF Lease!LeaseNext
  <2>2. CASE row.instance # i
    BY <1>q, <1>7, <2>2 DEF AcquireRead, elector
  <2> QED
    BY <2>1, <2>2
<1>8. ASSUME NEW i \in Instances, AcquireReadError(i) PROVE Mapped
  BY <1>q, <1>8 DEF AcquireReadError, elector
<1>9. ASSUME NEW i \in Instances, ScopeAcquire(i) PROVE Mapped
  BY <1>q, <1>9 DEF ScopeAcquire, elector
<1>10. ASSUME NEW i \in Instances, OwnerReady(i) PROVE Mapped
  BY <1>q, <1>10 DEF OwnerReady, elector
<1>11. ASSUME NEW i \in Instances, SpanPanics(i) PROVE Mapped
  BY <1>q, <1>11 DEF SpanPanics, elector
<1>12. ASSUME NEW i \in Instances, SpanDrained(i) PROVE Mapped
  BY <1>q, <1>12 DEF SpanDrained, elector
<1>13. ASSUME NEW i \in Instances, SpanDrainGaveUp(i) PROVE Mapped
  BY <1>q, <1>13 DEF SpanDrainGaveUp, elector
<1>14. ASSUME NEW i \in Instances, LeftoverEnds(i) PROVE Mapped
  BY <1>q, <1>14 DEF LeftoverEnds, elector
<1>15. ASSUME NEW i \in Instances, LoseReturns(i) PROVE Mapped
  BY <1>q, <1>15 DEF LoseReturns, elector
<1>16. ASSUME NEW i \in Instances, Shutdown(i) PROVE Mapped
  BY <1>q, <1>f, <1>16 DEF Shutdown, SetOwner, elector
<1>17. ASSUME NEW i \in Instances, RetainOrRelease(i) PROVE Mapped
  BY <1>q, <1>17 DEF RetainOrRelease, elector
<1>18. ASSUME NEW i \in Instances, Release(i) PROVE Mapped
  <2>1. pc[i] = "release" /\ now' = now /\ epoch' = epoch
    BY <1>18 DEF Release, elector
  <2>2. epoch[i] = 0
    BY <2>1 DEF OwnerInv, ControlState, EpochsFromRow
  <2>3. row' = row \/ (row.instance = i /\ row' = Released)
    BY <1>18 DEF Release, Matches
  <2> QED
    BY <1>q, <1>g, <2>1, <2>2, <2>3
<1>19. ASSUME NEW i \in Instances, ReleaseError(i) PROVE Mapped
  <2>1. pc[i] = "release" /\ now' = now /\ epoch' = epoch
    BY <1>19 DEF ReleaseError, elector
  <2>2. epoch[i] = 0
    BY <2>1 DEF OwnerInv, ControlState, EpochsFromRow
  <2>3. row' = row \/ (row.instance = i /\ row' = Released)
    BY <1>19 DEF ReleaseError, Matches
  <2> QED
    BY <1>q, <1>g, <2>1, <2>2, <2>3
<1>20. ASSUME NEW i \in Instances, Exit(i) PROVE Mapped
  BY <1>q, <1>f, <1>20 DEF Exit, ProcessGone, SetOwner
<1>21. ASSUME NEW i \in Instances, Crash(i) PROVE Mapped
  BY <1>q, <1>f, <1>21 DEF Crash, ProcessGone, SetOwner
<1>22. ASSUME NEW i \in Instances, Restart(i) PROVE Mapped
  BY <1>q, <1>22 DEF Restart, elector
<1>23. ASSUME NEW i \in Instances, CaptureLease(i) PROVE Mapped
  BY <1>q, <1>23 DEF CaptureLease, elector
<1>24. ASSUME NEW i \in Instances, BeginLeasedWrite(i) PROVE Mapped
  BY <1>q, <1>24 DEF BeginLeasedWrite, elector
<1>25. ASSUME NEW i \in Instances, CommitLeasedWrite(i) PROVE Mapped
  BY <1>q, <1>25 DEF CommitLeasedWrite, elector
<1>26. CASE Tick
  <2>1. row' = row /\ epoch' = epoch /\ now' = now + 1
    BY <1>26 DEF Tick, elector
  <2>2. CASE (row.expires > DbNow) /\ ~(row'.expires > DbNow')
    <3>1. Lease!Expire
      BY <2>1, <2>2 DEF Lease!Expire
    <3> QED
      BY <3>1 DEF Lease!LeaseNext
  <2>3. CASE (row.expires > DbNow) <=> (row'.expires > DbNow')
    BY <2>1, <2>3 DEF Lease!leaseVars
  <2>4. DbNow' \in Nat
    <3>1. now' \in Nat
      BY <1>n, <2>1
    <3>2. \A n \in Nat : n \div Second \in Nat
      BY ConstantsAssumption
    <3>3. \A m, n \in Nat : m * n \in Nat
      OBVIOUS
    <3> QED
      BY <3>1, <3>2, <3>3, ConstantsAssumption DEF DbNow
  <2>5. row'.expires > DbNow' => row.expires > DbNow
    BY <1>c, <1>n, <1>t, <2>1, <2>4 DEF TypeOK, Rows
  <2> QED
    BY <2>2, <2>3, <2>5
<1>27. CASE UNCHANGED vars
  BY <1>q, <1>27 DEF vars, elector
<1> QED
  BY <1>1, <1>2, <1>3, <1>4, <1>5, <1>6, <1>7, <1>8, <1>9, <1>10, <1>11,
      <1>12, <1>13, <1>14, <1>15, <1>16, <1>17, <1>18, <1>19, <1>20, <1>21,
      <1>22, <1>23, <1>24, <1>25, <1>26, <1>27 DEF Next, ElectorStep,
      StoreError, OwnerWork, LeasedWrite

\* The electors, their row and its clock implement the fenced lease the other
\* components are built on (AcquireOwner, RenewOwner, ReleaseOwner, Elector).
THEOREM ImplementsFencedLease == Spec => ImplementsLease
<1>1. Init => Lease!LeaseInit
  <2> SUFFICES ASSUME Init PROVE Lease!LeaseInit
    OBVIOUS
  <2>1. DbNow \in Nat /\ row.expires = 0
    BY DbClock DEF Init
  <2> QED
    BY <2>1 DEF Init, Lease!LeaseInit
<1>2. OwnerInv /\ [Next]_vars => [Lease!LeaseNext]_Lease!leaseVars
  BY LeaseStep
<1> QED
  BY <1>1, <1>2, OwnerInvariant, PTL DEF Spec, ImplementsLease, Lease!LeaseSpec

----------------------------------------------------------------------------
(* What the elector waits for ends: the safety half of ShutdownCompletes.   *)

\* The owner work of an owner is not cancelled, any other is.
SpanFollows(i) ==
  span[i] # 0 => /\ owner[i] => ~cancelled[i]
                 /\ ~owner[i] => cancelled[i]
SpansFollow == \A i \in Instances : SpanFollows(i)

\* Losing the lease cancels the span in the same step, and a new span starts as
\* owner with a context of its own.
LEMMA SpansStep == OwnerInv /\ SpansFollow /\ [Next]_vars => SpansFollow'
<1> SUFFICES ASSUME OwnerInv, SpansFollow, [Next]_vars, NEW j \in Instances
             PROVE  SpanFollows(j)'
  BY DEF SpansFollow
<1>t. /\ owner \in [Instances -> BOOLEAN] /\ cancelled \in [Instances -> BOOLEAN]
      /\ span \in [Instances -> Nat] /\ epoch \in [Instances -> Nat]
      /\ SpanFollows(j) /\ ControlState
  BY DEF OwnerInv, TypeOK, SpansFollow
<1>0. ASSUME owner'[j] = owner[j], span'[j] = span[j], cancelled'[j] = cancelled[j]
      PROVE  SpanFollows(j)'
  BY <1>t, <1>0 DEF SpanFollows
<1>1. ASSUME UNCHANGED <<owner, span, cancelled>>
      PROVE  SpanFollows(j)'
  BY <1>0, <1>1
<1>2. ASSUME NEW i \in Instances, SetOwner(i, FALSE, 0), CancelSpan(i), span' = span
      PROVE  SpanFollows(j)'
  BY <1>t, <1>2 DEF SetOwner, CancelSpan, SpanFollows
<1>3. ASSUME NEW i \in Instances, EndSpan(i), owner' = owner
      PROVE  SpanFollows(j)'
  BY <1>t, <1>3 DEF EndSpan, SpanFollows
<1>4. ASSUME NEW i \in Instances, ElectorStep(i) \/ StoreError(i)
      PROVE  SpanFollows(j)'
  <2>1. CASE BeginStep(i) \/ RenewOk(i) \/ AcquireUpsert(i) \/ LoseReturns(i)
               \/ RetainOrRelease(i) \/ Release(i)
    BY <1>1, <2>1 DEF BeginStep, RenewOk, AcquireUpsert, LoseReturns, RetainOrRelease,
      Release, elector, scope
  <2>2. CASE RenewLost(i)
    BY <1>2, <2>2 DEF RenewLost, Relinquish
  <2>3. CASE RenewError(i)
    BY <1>1, <1>2, <2>3 DEF RenewError, Relinquish
  <2>4. CASE AcquireError(i) \/ AcquireReadError(i) \/ ReleaseError(i)
    BY <1>1, <2>4 DEF AcquireError, AcquireReadError, ReleaseError, elector, scope
  <2>5. CASE AcquireRead(i)
    <3>1. span[i] = 0 /\ span' = span
      BY <1>t, <2>5 DEF AcquireRead, ControlState, scope
    <3>2. cancelled' = cancelled /\ (i # j => owner'[j] = owner[j])
      BY <1>t, <2>5 DEF AcquireRead, SetOwner, elector, scope
    <3> QED
      BY <1>0, <3>1, <3>2 DEF SpanFollows
  <2>6. CASE ScopeAcquire(i)
    <3>1. owner' = owner /\ owner[i]
      BY <1>t, <2>6 DEF ScopeAcquire, ControlState, elector
    <3>2. /\ cancelled' = [cancelled EXCEPT ![i] = FALSE]
          /\ span' = [span EXCEPT ![i] = epoch[i]]
      BY <2>6 DEF ScopeAcquire
    <3> QED
      BY <1>t, <3>1, <3>2 DEF SpanFollows
  <2>7. CASE Exit(i)
    BY <1>t, <2>7 DEF Exit, ProcessGone, SetOwner, SpanFollows
  <2> QED
    BY <1>4, <2>1, <2>2, <2>3, <2>4, <2>5, <2>6, <2>7 DEF ElectorStep, StoreError
<1>5. ASSUME NEW i \in Instances, OwnerWork(i)
      PROVE  SpanFollows(j)'
  BY <1>1, <1>3, <1>5 DEF OwnerWork, OwnerReady, SpanPanics, SpanDrained, SpanDrainGaveUp,
    LeftoverEnds, elector
<1>6. ASSUME NEW i \in Instances, LeasedWrite(i)
      PROVE  SpanFollows(j)'
  BY <1>1, <1>6 DEF LeasedWrite, CaptureLease, BeginLeasedWrite, CommitLeasedWrite, elector,
    scope
<1>7. ASSUME NEW i \in Instances, Shutdown(i)
      PROVE  SpanFollows(j)'
  BY <1>1, <1>2, <1>7 DEF Shutdown
<1>8. ASSUME NEW i \in Instances, Crash(i) \/ Restart(i)
      PROVE  SpanFollows(j)'
  BY <1>t, <1>1, <1>8 DEF Crash, Restart, ProcessGone, SetOwner, SpanFollows, elector, scope
<1>9. CASE Tick
  BY <1>1, <1>9 DEF Tick, elector, scope
<1>10. CASE UNCHANGED vars
  BY <1>1, <1>10 DEF vars, elector, scope
<1> QED
  BY <1>4, <1>5, <1>6, <1>7, <1>8, <1>9, <1>10 DEF Next

\* OwnerScope.Acquire and Lose, Elector.relinquish and Run: whoever joins a span joins
\* one that has been cancelled, Acquire never has one to join, an owner keeps its
\* span until it stops being the owner, and the release waits only for a transaction
\* that still has the lease it began under.
THEOREM JoinsEnd ==
  Spec => [](/\ \A i \in Instances :
                 /\ pc[i] \in {"onLose", "drain"} /\ span[i] # 0 => cancelled[i]
                 /\ pc[i] = "onAcquire" => span[i] = 0
                 /\ owner[i] /\ span[i] # 0 => ~cancelled[i]
             /\ rowLock \in Instances => Matches(rowLock, token[rowLock]))
<1> DEFINE Ends == /\ \A i \in Instances :
                       /\ pc[i] \in {"onLose", "drain"} /\ span[i] # 0 => cancelled[i]
                       /\ pc[i] = "onAcquire" => span[i] = 0
                       /\ owner[i] /\ span[i] # 0 => ~cancelled[i]
                   /\ rowLock \in Instances => Matches(rowLock, token[rowLock])
<1>1. Init => SpansFollow
  BY DEF Init, SpansFollow, SpanFollows
<1>2. OwnerInv /\ SpansFollow /\ [Next]_vars => SpansFollow'
  BY SpansStep
<1>3. OwnerInv /\ SpansFollow => Ends
  BY DEF OwnerInv, ControlState, LockFreezesRow, SpansFollow, SpanFollows
<1> QED
  BY <1>1, <1>2, <1>3, OwnerInvariant, PTL DEF Spec
============================================================================
