------------------------- MODULE IdempotencyProofs -------------------------
(***************************************************************************)
(* Proofs about the two users of the table idempotency_records, for every  *)
(* set of workers and all durations that satisfy the named hypotheses.     *)
(* Each specification leaves the other's own variables alone; no theorem   *)
(* speaks of both.                                                         *)
(*                                                                         *)
(* Keys: a claim is made while its lock is valid (ShortCalls), so whoever  *)
(* read the row before the claim is too old to reclaim it.                 *)
(* Lock: a lease is renewed in time or its renewals have failed for long   *)
(* (LeaseInv), so until one runs out under an operation, a row that can be *)
(* reclaimed or deleted has no holder.                                     *)
(***************************************************************************)
EXTENDS IdempotencyKeys, SystemOperationLock, TLAPS

-----------------------------------------------------------------------------
(* IdempotencyKeys. *)

\* No row, and what an UPDATE makes of a row of idempotency_records.
LEMMA RowTypes ==
  /\ NoRow \in Row
  /\ \A r \in Row : r.id \in Nat
  /\ \A r \in Row, locked \in Nat, expires \in Nat : Reclaimed(r, locked, expires) \in Row
  /\ \A r \in Row, locked \in Nat, expires \in Nat : Extended(r, locked, expires) \in Row
  /\ \A r \in Row, id \in Nat, f \in Fingerprints, expires \in Nat :
        MarkedSucceeded(r, id, f, expires) \in Row
  /\ \A r \in Row, id \in Nat, locked \in Nat, expires \in Nat :
        MarkedFailed(r, id, locked, expires) \in Row
<1> USE DEF Row, RowStatus
<1>1. NoRow \in Row
  BY DEF NoRow
<1>2. \A r \in Row : r.id \in Nat
  OBVIOUS
<1>3. \A r \in Row, locked \in Nat, expires \in Nat : Reclaimed(r, locked, expires) \in Row
  BY DEF Reclaimed
<1>4. \A r \in Row, locked \in Nat, expires \in Nat : Extended(r, locked, expires) \in Row
  BY DEF Extended
<1>5. \A r \in Row, id \in Nat, f \in Fingerprints, expires \in Nat :
         MarkedSucceeded(r, id, f, expires) \in Row
  BY DEF MarkedSucceeded
<1>6. \A r \in Row, id \in Nat, locked \in Nat, expires \in Nat :
         MarkedFailed(r, id, locked, expires) \in Row
  BY DEF MarkedFailed
<1> QED
  BY <1>1, <1>2, <1>3, <1>4, <1>5, <1>6

\* The invariant holds for an empty table and idle workers.
LEMMA KeyInit == Init => KeyInv
<1> SUFFICES ASSUME Init PROVE KeyInv
  OBVIOUS
<1> USE StoreAssumption, DurationAssumption DEF Init, StoreInit, Claiming, Working, NoRow
<1>1. TypeOK
  BY DEF TypeOK, StoreTypeOK, Row, RowStatus
<1>2. IdInv
  BY DEF IdInv, ReplayMatchesRequest
<1>3. CallTimeInv /\ ClaimInv /\ EffectInv
  BY DEF CallTimeInv, ClaimInv, OneExecution, EffectInv
<1> QED
  BY <1>1, <1>2, <1>3 DEF KeyInv

\* Every step keeps the types.
LEMMA KeyTypeStep == KeyInv /\ [Next]_vars => TypeOK'
<1> SUFFICES ASSUME KeyInv, [Next]_vars PROVE TypeOK'
  OBVIOUS
<1> USE StoreAssumption, DurationAssumption
    DEF KeyInv, TypeOK, StoreTypeOK, Claiming, Working
<1>1. ASSUME NEW w \in Workers, NEW f \in Fingerprints, Execute(w, f) PROVE TypeOK'
  BY <1>1 DEF Execute, store, Row, RowStatus, NoRow
<1>2. ASSUME NEW w \in Workers, CreateProcessing(w) PROVE TypeOK'
  BY <1>2 DEF CreateProcessing, LockedUntil, ExpiresAt, Goto, Claim, Inserted, Row, RowStatus, NoRow
<1>3. ASSUME NEW w \in Workers, CreateConflicts(w) PROVE TypeOK'
  BY <1>3 DEF CreateConflicts, Goto, store, Row, RowStatus, NoRow
<1>4. ASSUME NEW w \in Workers, Get(w) PROVE TypeOK'
  BY <1>4 DEF Get, Goto, AfterRead, Unusable, store, Row, RowStatus, NoRow
<1>5. ASSUME NEW w \in Workers, GetAgain(w) PROVE TypeOK'
  BY <1>5 DEF GetAgain, Goto, AfterRead, Unusable, store, Row, RowStatus, NoRow
<1>6. ASSUME NEW w \in Workers, ReclaimExpired(w) PROVE TypeOK'
  <2>1. NoRow \in Row /\ seen[w].id \in Nat
    BY RowTypes
  <2>2. row' \in Row
    BY <1>6, <2>1, RowTypes DEF ReclaimExpired, LockedUntil, ExpiresAt, Goto, Claim, Reclaimable
  <2> QED
    BY <1>6, <2>1, <2>2 DEF ReclaimExpired, LockedUntil, ExpiresAt, Goto, Claim, Reclaimable
<1>7. ASSUME NEW w \in Workers, ReclaimExpiredRefused(w) PROVE TypeOK'
  BY <1>7 DEF ReclaimExpiredRefused, Goto, Reclaimable, store, Row, RowStatus, NoRow
<1>8. ASSUME NEW w \in Workers, ReclaimFailed(w) PROVE TypeOK'
  <2>1. NoRow \in Row /\ seen[w].id \in Nat
    BY RowTypes
  <2>2. row' \in Row
    BY <1>8, <2>1, RowTypes DEF ReclaimFailed, LockedUntil, ExpiresAt, Goto, Claim, Reclaimable
  <2> QED
    BY <1>8, <2>1, <2>2 DEF ReclaimFailed, LockedUntil, ExpiresAt, Goto, Claim, Reclaimable
<1>9. ASSUME NEW w \in Workers, ReclaimFailedRefused(w) PROVE TypeOK'
  BY <1>9 DEF ReclaimFailedRefused, Goto, Claim, Return, Reclaimable, store, Row, RowStatus, NoRow
<1>10. ASSUME NEW w \in Workers, ExecutionSucceeds(w) PROVE TypeOK'
  BY <1>10 DEF ExecutionSucceeds, Goto, store, Row, RowStatus, NoRow
<1>11. ASSUME NEW w \in Workers, ExecutionFails(w) PROVE TypeOK'
  BY <1>11 DEF ExecutionFails, Goto, store, Row, RowStatus, NoRow
<1>12. ASSUME NEW w \in Workers, MarkSucceeded(w) PROVE TypeOK'
  <2>1. NoRow \in Row /\ seen[w].id \in Nat
    BY RowTypes
  <2>2. row' = MarkedSucceeded(row, rid[w], fp[w], ExpiresAt(w))
    BY <1>12 DEF MarkSucceeded
  <2>3. fp[w] \in Fingerprints /\ ExpiresAt(w) \in Nat
    BY <1>12 DEF MarkSucceeded, ExpiresAt
  <2>4. row' \in Row
    BY <2>2, <2>3, RowTypes
  <2> QED
    BY <1>12, <2>1, <2>4 DEF MarkSucceeded, ExpiresAt, Goto, Claim, Return
<1>13. ASSUME NEW w \in Workers, MarkFailedRetryable(w) PROVE TypeOK'
  <2>1. NoRow \in Row /\ seen[w].id \in Nat
    BY RowTypes
  <2>2. row' = MarkedFailed(row, rid[w], clock + FailedRetryBackoff, ExpiresAt(w))
    BY <1>13 DEF MarkFailedRetryable
  <2>3. clock + FailedRetryBackoff \in Nat /\ ExpiresAt(w) \in Nat
    BY <1>13 DEF ExpiresAt
  <2>4. row' \in Row
    BY <2>2, <2>3, RowTypes
  <2> QED
    BY <1>13, <2>1, <2>4 DEF MarkFailedRetryable, ExpiresAt, Goto, Claim, Return
<1>14. ASSUME NEW w \in Workers, CallEnds(w) PROVE TypeOK'
  BY <1>14 DEF CallEnds, Goto, Claim, Return, store, Row, RowStatus, NoRow
<1>15. ASSUME Tick PROVE TypeOK'
  BY <1>15 DEF Tick, store, call, Row, RowStatus, NoRow
<1>16. ASSUME CleanUp PROVE TypeOK'
  BY <1>16 DEF CleanUp, DeleteExpired, call, Row, RowStatus, NoRow
<1>17. CASE UNCHANGED vars
  BY <1>17 DEF vars, store, call, Row, RowStatus, NoRow
<1> QED
  BY <1>1, <1>2, <1>3, <1>4, <1>5, <1>6, <1>7, <1>8, <1>9, <1>10, <1>11, <1>12,
     <1>13, <1>14, <1>15, <1>16, <1>17
  DEF Next, Step

\* Every step keeps an id tied to a fingerprint.
LEMMA IdStep == KeyInv /\ [Next]_vars => IdInv'
<1> SUFFICES ASSUME KeyInv, [Next]_vars PROVE IdInv'
  OBVIOUS
<1> USE StoreAssumption, DurationAssumption
    DEF KeyInv, TypeOK, StoreTypeOK, Row, RowStatus, NoRow, Claiming, Working,
       IdInv, ReplayMatchesRequest
<1>1. ASSUME NEW w \in Workers, NEW f \in Fingerprints, Execute(w, f) PROVE IdInv'
  BY <1>1 DEF Execute, store
<1>2. ASSUME NEW w \in Workers, CreateProcessing(w) PROVE IdInv'
  BY <1>2 DEF CreateProcessing, LockedUntil, ExpiresAt, Goto, Claim, Inserted
<1>3. ASSUME NEW w \in Workers, CreateConflicts(w) PROVE IdInv'
  BY <1>3 DEF CreateConflicts, Goto, store
<1>4. ASSUME NEW w \in Workers, Get(w) PROVE IdInv'
  BY <1>4 DEF Get, Goto, AfterRead, Unusable, store
<1>5. ASSUME NEW w \in Workers, GetAgain(w) PROVE IdInv'
  BY <1>5 DEF GetAgain, Goto, AfterRead, Unusable, store
<1>6. ASSUME NEW w \in Workers, ReclaimExpired(w) PROVE IdInv'
  BY <1>6 DEF ReclaimExpired, LockedUntil, ExpiresAt, Goto, Claim, Reclaimable, Reclaimed
<1>7. ASSUME NEW w \in Workers, ReclaimExpiredRefused(w) PROVE IdInv'
  BY <1>7 DEF ReclaimExpiredRefused, Goto, Reclaimable, store
<1>8. ASSUME NEW w \in Workers, ReclaimFailed(w) PROVE IdInv'
  BY <1>8 DEF ReclaimFailed, LockedUntil, ExpiresAt, Goto, Claim, Reclaimable, Reclaimed
<1>9. ASSUME NEW w \in Workers, ReclaimFailedRefused(w) PROVE IdInv'
  BY <1>9 DEF ReclaimFailedRefused, Goto, Claim, Return, Reclaimable, store
<1>10. ASSUME NEW w \in Workers, ExecutionSucceeds(w) PROVE IdInv'
  BY <1>10 DEF ExecutionSucceeds, Goto, store
<1>11. ASSUME NEW w \in Workers, ExecutionFails(w) PROVE IdInv'
  BY <1>11 DEF ExecutionFails, Goto, store
<1>12. ASSUME NEW w \in Workers, MarkSucceeded(w) PROVE IdInv'
  BY <1>12 DEF MarkSucceeded, ExpiresAt, Goto, Claim, Return, MarkedSucceeded
<1>13. ASSUME NEW w \in Workers, MarkFailedRetryable(w) PROVE IdInv'
  BY <1>13 DEF MarkFailedRetryable, ExpiresAt, Goto, Claim, Return, MarkedFailed
<1>14. ASSUME NEW w \in Workers, CallEnds(w) PROVE IdInv'
  BY <1>14 DEF CallEnds, Goto, Claim, Return, store
<1>15. ASSUME Tick PROVE IdInv'
  BY <1>15 DEF Tick, store, call
<1>16. ASSUME CleanUp PROVE IdInv'
  BY <1>16 DEF CleanUp, DeleteExpired, call
<1>17. CASE UNCHANGED vars
  BY <1>17 DEF vars, store, call
<1> QED
  BY <1>1, <1>2, <1>3, <1>4, <1>5, <1>6, <1>7, <1>8, <1>9, <1>10, <1>11, <1>12,
     <1>13, <1>14, <1>15, <1>16, <1>17
  DEF Next, Step

\* No call outlasts its bounds.
LEMMA CallTimeStep ==
  ASSUME ShortCalls
  PROVE  KeyInv /\ [Next]_vars => CallTimeInv'
<1> SUFFICES ASSUME KeyInv, [Next]_vars PROVE CallTimeInv'
  OBVIOUS
<1> USE StoreAssumption, DurationAssumption
    DEF KeyInv, TypeOK, StoreTypeOK, Row, RowStatus, NoRow, Claiming, Working,
       ShortCalls, CallTimeInv
<1>1. ASSUME NEW w \in Workers, NEW f \in Fingerprints, Execute(w, f) PROVE CallTimeInv'
  BY <1>1 DEF Execute, store
<1>2. ASSUME NEW w \in Workers, CreateProcessing(w) PROVE CallTimeInv'
  BY <1>2 DEF CreateProcessing, LockedUntil, ExpiresAt, Goto, Claim, Inserted
<1>3. ASSUME NEW w \in Workers, CreateConflicts(w) PROVE CallTimeInv'
  BY <1>3 DEF CreateConflicts, Goto, store
<1>4. ASSUME NEW w \in Workers, Get(w) PROVE CallTimeInv'
  BY <1>4 DEF Get, Goto, AfterRead, Unusable, store
<1>5. ASSUME NEW w \in Workers, GetAgain(w) PROVE CallTimeInv'
  BY <1>5 DEF GetAgain, Goto, AfterRead, Unusable, store
<1>6. ASSUME NEW w \in Workers, ReclaimExpired(w) PROVE CallTimeInv'
  BY <1>6 DEF ReclaimExpired, LockedUntil, ExpiresAt, Goto, Claim, Reclaimable, Reclaimed
<1>7. ASSUME NEW w \in Workers, ReclaimExpiredRefused(w) PROVE CallTimeInv'
  BY <1>7 DEF ReclaimExpiredRefused, Goto, Reclaimable, store
<1>8. ASSUME NEW w \in Workers, ReclaimFailed(w) PROVE CallTimeInv'
  BY <1>8 DEF ReclaimFailed, LockedUntil, ExpiresAt, Goto, Claim, Reclaimable, Reclaimed
<1>9. ASSUME NEW w \in Workers, ReclaimFailedRefused(w) PROVE CallTimeInv'
  BY <1>9 DEF ReclaimFailedRefused, Goto, Claim, Return, Reclaimable, store
<1>10. ASSUME NEW w \in Workers, ExecutionSucceeds(w) PROVE CallTimeInv'
  BY <1>10 DEF ExecutionSucceeds, Goto, store
<1>11. ASSUME NEW w \in Workers, ExecutionFails(w) PROVE CallTimeInv'
  BY <1>11 DEF ExecutionFails, Goto, store
<1>12. ASSUME NEW w \in Workers, MarkSucceeded(w) PROVE CallTimeInv'
  BY <1>12 DEF MarkSucceeded, ExpiresAt, Goto, Claim, Return, MarkedSucceeded
<1>13. ASSUME NEW w \in Workers, MarkFailedRetryable(w) PROVE CallTimeInv'
  BY <1>13 DEF MarkFailedRetryable, ExpiresAt, Goto, Claim, Return, MarkedFailed
<1>14. ASSUME NEW w \in Workers, CallEnds(w) PROVE CallTimeInv'
  BY <1>14 DEF CallEnds, Goto, Claim, Return, store
<1>15. ASSUME Tick PROVE CallTimeInv'
  BY <1>15 DEF Tick, store, call
<1>16. ASSUME CleanUp PROVE CallTimeInv'
  BY <1>16 DEF CleanUp, DeleteExpired, call
<1>17. CASE UNCHANGED vars
  BY <1>17 DEF vars, store, call
<1> QED
  BY <1>1, <1>2, <1>3, <1>4, <1>5, <1>6, <1>7, <1>8, <1>9, <1>10, <1>11, <1>12,
     <1>13, <1>14, <1>15, <1>16, <1>17
  DEF Next, Step

\* Every step keeps the row with the one worker that executes.
LEMMA ClaimStep ==
  ASSUME ShortCalls
  PROVE  KeyInv /\ [Next]_vars => ClaimInv'
<1> SUFFICES ASSUME KeyInv, [Next]_vars PROVE ClaimInv'
  OBVIOUS
<1> USE StoreAssumption, DurationAssumption
    DEF KeyInv, TypeOK, StoreTypeOK, Row, RowStatus, NoRow, Claiming, Working,
       IdInv, ReplayMatchesRequest, ShortCalls, CallTimeInv, ClaimInv,
       OneExecution, LockedUntil, ExpiresAt
<1>1. ASSUME NEW w \in Workers, NEW f \in Fingerprints, Execute(w, f) PROVE ClaimInv'
  BY <1>1 DEF Execute, store
<1>2. ASSUME NEW w \in Workers, CreateProcessing(w) PROVE ClaimInv'
  BY <1>2 DEF CreateProcessing, LockedUntil, ExpiresAt, Goto, Claim, Inserted
<1>3. ASSUME NEW w \in Workers, CreateConflicts(w) PROVE ClaimInv'
  BY <1>3 DEF CreateConflicts, Goto, store
<1>4. ASSUME NEW w \in Workers, Get(w) PROVE ClaimInv'
  BY <1>4 DEF Get, Goto, AfterRead, Unusable, store
<1>5. ASSUME NEW w \in Workers, GetAgain(w) PROVE ClaimInv'
  BY <1>5 DEF GetAgain, Goto, AfterRead, Unusable, store
<1>6. ASSUME NEW w \in Workers, ReclaimExpired(w) PROVE ClaimInv'
  BY <1>6 DEF ReclaimExpired, LockedUntil, ExpiresAt, Goto, Claim, Reclaimable, Reclaimed
<1>7. ASSUME NEW w \in Workers, ReclaimExpiredRefused(w) PROVE ClaimInv'
  BY <1>7 DEF ReclaimExpiredRefused, Goto, Reclaimable, store
<1>8. ASSUME NEW w \in Workers, ReclaimFailed(w) PROVE ClaimInv'
  BY <1>8 DEF ReclaimFailed, LockedUntil, ExpiresAt, Goto, Claim, Reclaimable, Reclaimed
<1>9. ASSUME NEW w \in Workers, ReclaimFailedRefused(w) PROVE ClaimInv'
  BY <1>9 DEF ReclaimFailedRefused, Goto, Claim, Return, Reclaimable, store
<1>10. ASSUME NEW w \in Workers, ExecutionSucceeds(w) PROVE ClaimInv'
  BY <1>10 DEF ExecutionSucceeds, Goto, store
<1>11. ASSUME NEW w \in Workers, ExecutionFails(w) PROVE ClaimInv'
  BY <1>11 DEF ExecutionFails, Goto, store
<1>12. ASSUME NEW w \in Workers, MarkSucceeded(w) PROVE ClaimInv'
  BY <1>12 DEF MarkSucceeded, ExpiresAt, Goto, Claim, Return, MarkedSucceeded
<1>13. ASSUME NEW w \in Workers, MarkFailedRetryable(w) PROVE ClaimInv'
  BY <1>13 DEF MarkFailedRetryable, ExpiresAt, Goto, Claim, Return, MarkedFailed
<1>14. ASSUME NEW w \in Workers, CallEnds(w) PROVE ClaimInv'
  BY <1>14 DEF CallEnds, Goto, Claim, Return, store
<1>15. ASSUME Tick PROVE ClaimInv'
  BY <1>15 DEF Tick, store, call
<1>16. ASSUME CleanUp PROVE ClaimInv'
  BY <1>16 DEF CleanUp, DeleteExpired, call
<1>17. CASE UNCHANGED vars
  BY <1>17 DEF vars, store, call
<1> QED
  BY <1>1, <1>2, <1>3, <1>4, <1>5, <1>6, <1>7, <1>8, <1>9, <1>10, <1>11, <1>12,
     <1>13, <1>14, <1>15, <1>16, <1>17
  DEF Next, Step

\* Every step keeps a second execution out before the first row can expire.
LEMMA EffectStep ==
  ASSUME ShortCalls
  PROVE  KeyInv /\ [Next]_vars => EffectInv'
<1> SUFFICES ASSUME KeyInv, [Next]_vars PROVE EffectInv'
  OBVIOUS
<1> USE StoreAssumption, DurationAssumption
    DEF KeyInv, TypeOK, StoreTypeOK, Row, RowStatus, NoRow, Claiming, Working,
       IdInv, ReplayMatchesRequest, ShortCalls, CallTimeInv, ClaimInv,
       OneExecution, LockedUntil, ExpiresAt, EffectInv
<1>1. ASSUME NEW w \in Workers, NEW f \in Fingerprints, Execute(w, f) PROVE EffectInv'
  BY <1>1 DEF Execute, store
<1>2. ASSUME NEW w \in Workers, CreateProcessing(w) PROVE EffectInv'
  BY <1>2 DEF CreateProcessing, LockedUntil, ExpiresAt, Goto, Claim, Inserted
<1>3. ASSUME NEW w \in Workers, CreateConflicts(w) PROVE EffectInv'
  BY <1>3 DEF CreateConflicts, Goto, store
<1>4. ASSUME NEW w \in Workers, Get(w) PROVE EffectInv'
  BY <1>4 DEF Get, Goto, AfterRead, Unusable, store
<1>5. ASSUME NEW w \in Workers, GetAgain(w) PROVE EffectInv'
  BY <1>5 DEF GetAgain, Goto, AfterRead, Unusable, store
<1>6. ASSUME NEW w \in Workers, ReclaimExpired(w) PROVE EffectInv'
  BY <1>6 DEF ReclaimExpired, LockedUntil, ExpiresAt, Goto, Claim, Reclaimable, Reclaimed
<1>7. ASSUME NEW w \in Workers, ReclaimExpiredRefused(w) PROVE EffectInv'
  BY <1>7 DEF ReclaimExpiredRefused, Goto, Reclaimable, store
<1>8. ASSUME NEW w \in Workers, ReclaimFailed(w) PROVE EffectInv'
  BY <1>8 DEF ReclaimFailed, LockedUntil, ExpiresAt, Goto, Claim, Reclaimable, Reclaimed
<1>9. ASSUME NEW w \in Workers, ReclaimFailedRefused(w) PROVE EffectInv'
  BY <1>9 DEF ReclaimFailedRefused, Goto, Claim, Return, Reclaimable, store
<1>10. ASSUME NEW w \in Workers, ExecutionSucceeds(w) PROVE EffectInv'
  BY <1>10 DEF ExecutionSucceeds, Goto, store
<1>11. ASSUME NEW w \in Workers, ExecutionFails(w) PROVE EffectInv'
  BY <1>11 DEF ExecutionFails, Goto, store
<1>12. ASSUME NEW w \in Workers, MarkSucceeded(w) PROVE EffectInv'
  BY <1>12 DEF MarkSucceeded, ExpiresAt, Goto, Claim, Return, MarkedSucceeded
<1>13. ASSUME NEW w \in Workers, MarkFailedRetryable(w) PROVE EffectInv'
  BY <1>13 DEF MarkFailedRetryable, ExpiresAt, Goto, Claim, Return, MarkedFailed
<1>14. ASSUME NEW w \in Workers, CallEnds(w) PROVE EffectInv'
  BY <1>14 DEF CallEnds, Goto, Claim, Return, store
<1>15. ASSUME Tick PROVE EffectInv'
  BY <1>15 DEF Tick, store, call
<1>16. ASSUME CleanUp PROVE EffectInv'
  BY <1>16 DEF CleanUp, DeleteExpired, call
<1>17. CASE UNCHANGED vars
  BY <1>17 DEF vars, store, call
<1> QED
  BY <1>1, <1>2, <1>3, <1>4, <1>5, <1>6, <1>7, <1>8, <1>9, <1>10, <1>11, <1>12,
     <1>13, <1>14, <1>15, <1>16, <1>17
  DEF Next, Step

\* KeyInv holds in every reachable state.
THEOREM KeyInvariance == Spec => []KeyInv
<1>1. KeyInv /\ [Next]_vars => KeyInv'
  <2> SUFFICES ASSUME KeyInv, [Next]_vars PROVE KeyInv'
    OBVIOUS
  <2>1. TypeOK' /\ IdInv'
    BY KeyTypeStep, IdStep
  <2>2. ASSUME ShortCalls PROVE CallTimeInv' /\ ClaimInv' /\ EffectInv'
    BY <2>2, CallTimeStep, ClaimStep, EffectStep
  <2>3. ShortCalls' <=> ShortCalls
    BY DEF ShortCalls
  <2> QED
    BY <2>1, <2>2, <2>3 DEF KeyInv
<1> QED
  BY KeyInit, <1>1, PTL DEF Spec

\* A stored response is always the response to the row's own request, also
\* when calls outlast every lock and lifetime.
THEOREM ReplayIsFaithful == Spec => []ReplayMatchesRequest
<1>1. KeyInv => ReplayMatchesRequest
  BY DEF KeyInv, IdInv
<1> QED
  BY KeyInvariance, <1>1, PTL

\* Calls that keep their bounds never execute at the same time, whatever fails
\* and however often the row expires.
THEOREM ExclusiveExecution ==
  ASSUME ShortCalls
  PROVE  Spec => []OneExecution
<1>1. KeyInv => OneExecution
  BY DEF KeyInv, ClaimInv
<1> QED
  BY KeyInvariance, <1>1, PTL

\* Until the first row can expire there is one effect, although the process
\* may die, or fail to store the result, at any point.
THEOREM SingleEffect ==
  ASSUME ShortCalls
  PROVE  Spec => []EffectOnce
<1>1. KeyInv => EffectOnce
  BY DEF KeyInv, EffectInv, EffectOnce, TypeOK
<1> QED
  BY KeyInvariance, <1>1, PTL

-----------------------------------------------------------------------------
(* SystemOperationLock. *)

\* The invariant holds for an empty table and idle workers.
LEMMA LockInitInv == LockInit => LockInv
<1> SUFFICES ASSUME LockInit PROVE LockInv
  OBVIOUS
<1> USE StoreAssumption, LeaseAssumption DEF LockInit, StoreInit, Acquiring, NoRow
<1>1. LockTypeOK
  BY DEF LockTypeOK, StoreTypeOK, Row, RowStatus
<1>2. RenewInv /\ LeaseInv
  BY DEF RenewInv, LeaseInv, OneOperation, Covered, Holders
<1> QED
  BY <1>1, <1>2 DEF LockInv

\* Every step keeps the types.
LEMMA LockTypeStep == LockInv /\ [LockNext]_lockVars => LockTypeOK'
<1> SUFFICES ASSUME LockInv, [LockNext]_lockVars PROVE LockTypeOK'
  OBVIOUS
<1> USE StoreAssumption, LeaseAssumption
    DEF LockInv, LockTypeOK, StoreTypeOK, Acquiring
<1>0. lapsed' \in BOOLEAN
  BY DEF LockNext, Lapses, lockVars
<1>1. ASSUME NEW w \in Workers, NEW f \in Fingerprints, Acquire(w, f) PROVE LockTypeOK'
  BY <1>0, <1>1 DEF Acquire, store, renewer, Row, RowStatus, NoRow
<1>2. ASSUME NEW w \in Workers, InsertLock(w) PROVE LockTypeOK'
  BY <1>0, <1>2 DEF InsertLock, LockGoto, Hold, Inserted, Row, RowStatus, NoRow
<1>3. ASSUME NEW w \in Workers, InsertConflicts(w) PROVE LockTypeOK'
  BY <1>0, <1>3 DEF InsertConflicts, LockGoto, store, renewer, Row, RowStatus, NoRow
<1>4. ASSUME NEW w \in Workers, GetLock(w) PROVE LockTypeOK'
  BY <1>0, <1>4 DEF GetLock, LockGoto, Busy, store, renewer, Row, RowStatus, NoRow
<1>5. ASSUME NEW w \in Workers, TryReclaim(w) PROVE LockTypeOK'
  <2>1. NoRow \in Row /\ seen[w].id \in Nat
    BY RowTypes
  <2>2. row' \in Row
    BY <1>5, <2>1, RowTypes DEF TryReclaim, LockGoto, Hold, Reclaimable
  <2> QED
    BY <1>0, <1>5, <2>1, <2>2 DEF TryReclaim, LockGoto, Hold, Reclaimable
<1>6. ASSUME NEW w \in Workers, ReclaimRefused(w) PROVE LockTypeOK'
  BY <1>0, <1>6 DEF ReclaimRefused, LockGoto, Reclaimable, store, renewer, Row, RowStatus, NoRow
<1>7. ASSUME NEW w \in Workers, Renew(w) PROVE LockTypeOK'
  <2>1. NoRow \in Row /\ seen[w].id \in Nat
    BY RowTypes
  <2>2. row' \in Row
    BY <1>7, <2>1, RowTypes DEF Renew, Extendable, acquire
  <2> QED
    BY <1>0, <1>7, <2>1, <2>2 DEF Renew, Extendable, acquire
<1>8. ASSUME NEW w \in Workers, RenewStops(w) PROVE LockTypeOK'
  BY <1>0, <1>8 DEF RenewStops, Stop, Extendable, store, acquire, Row, RowStatus, NoRow
<1>9. ASSUME NEW w \in Workers, RenewFails(w) PROVE LockTypeOK'
  BY <1>0, <1>9 DEF RenewFails, store, acquire, Row, RowStatus, NoRow
<1>10. ASSUME NEW w \in Workers, RenewLate(w) PROVE LockTypeOK'
  <2>1. NoRow \in Row /\ seen[w].id \in Nat
    BY RowTypes
  <2>2. row' = IF Extendable(row, rid[w], op[w])
              THEN Extended(row, clock + Lease, clock + TTL) ELSE row
    BY <1>10 DEF RenewLate
  <2>3. clock + Lease \in Nat /\ clock + TTL \in Nat
    BY <1>10 DEF RenewLate
  <2>4. row' \in Row
    BY <2>2, <2>3, RowTypes
  <2> QED
    BY <1>0, <1>10, <2>1, <2>4 DEF RenewLate, Stop, Extendable, acquire
<1>11. ASSUME NEW w \in Workers, ReleaseSucceeded(w) PROVE LockTypeOK'
  <2>1. NoRow \in Row /\ seen[w].id \in Nat
    BY RowTypes
  <2>2. row' = MarkedSucceeded(row, rid[w], op[w], clock + TTL)
    BY <1>11 DEF ReleaseSucceeded
  <2>3. op[w] \in Fingerprints /\ clock + TTL \in Nat
    BY <1>11 DEF ReleaseSucceeded
  <2>4. row' \in Row
    BY <2>2, <2>3, RowTypes
  <2> QED
    BY <1>0, <1>11, <2>1, <2>4 DEF ReleaseSucceeded, LockGoto, StopRenewing, Stop
<1>12. ASSUME NEW w \in Workers, ReleaseFailed(w) PROVE LockTypeOK'
  <2>1. NoRow \in Row /\ seen[w].id \in Nat
    BY RowTypes
  <2>2. row' = MarkedFailed(row, rid[w], clock, clock + TTL)
    BY <1>12 DEF ReleaseFailed
  <2>3. clock + TTL \in Nat
    BY <1>12 DEF ReleaseFailed
  <2>4. row' \in Row
    BY <2>2, <2>3, RowTypes
  <2> QED
    BY <1>0, <1>12, <2>1, <2>4 DEF ReleaseFailed, LockGoto, StopRenewing, Stop
<1>13. ASSUME NEW w \in Workers, StatementFails(w) PROVE LockTypeOK'
  <2>1. NoRow \in Row
    BY RowTypes
  <2> QED
    BY <1>0, <1>13, <2>1 DEF StatementFails, LockGoto, StopRenewing, Stop, store
<1>14. ASSUME NEW w \in Workers, Crash(w) PROVE LockTypeOK'
  <2>1. NoRow \in Row
    BY RowTypes
  <2> QED
    BY <1>0, <1>14, <2>1 DEF Crash, LockGoto, Stop, store
<1>15. ASSUME LockTick PROVE LockTypeOK'
  BY <1>0, <1>15 DEF LockTick, store, acquire, renewer, Row, RowStatus, NoRow
<1>16. ASSUME LockCleanUp PROVE LockTypeOK'
  BY <1>0, <1>16 DEF LockCleanUp, DeleteExpired, acquire, renewer, Row, RowStatus, NoRow
<1>17. CASE UNCHANGED lockVars
  BY <1>0, <1>17 DEF lockVars, store, acquire, renewer, Row, RowStatus, NoRow
<1> QED
  BY <1>1, <1>2, <1>3, <1>4, <1>5, <1>6, <1>7, <1>8, <1>9, <1>10, <1>11, <1>12,
     <1>13, <1>14, <1>15, <1>16, <1>17
  DEF LockNext, LockStep

\* No claim and no ticker is late.
LEMMA RenewStep == LockInv /\ [LockNext]_lockVars => RenewInv'
<1> SUFFICES ASSUME LockInv, [LockNext]_lockVars PROVE RenewInv'
  OBVIOUS
<1> USE StoreAssumption, LeaseAssumption
    DEF LockInv, LockTypeOK, StoreTypeOK, Row, RowStatus, NoRow, Acquiring, RenewInv
<1>1. ASSUME NEW w \in Workers, NEW f \in Fingerprints, Acquire(w, f) PROVE RenewInv'
  BY <1>1 DEF Acquire, store, renewer
<1>2. ASSUME NEW w \in Workers, InsertLock(w) PROVE RenewInv'
  BY <1>2 DEF InsertLock, LockGoto, Hold, Inserted
<1>3. ASSUME NEW w \in Workers, InsertConflicts(w) PROVE RenewInv'
  BY <1>3 DEF InsertConflicts, LockGoto, store, renewer
<1>4. ASSUME NEW w \in Workers, GetLock(w) PROVE RenewInv'
  BY <1>4 DEF GetLock, LockGoto, Busy, store, renewer
<1>5. ASSUME NEW w \in Workers, TryReclaim(w) PROVE RenewInv'
  BY <1>5 DEF TryReclaim, LockGoto, Hold, Reclaimable, Reclaimed
<1>6. ASSUME NEW w \in Workers, ReclaimRefused(w) PROVE RenewInv'
  BY <1>6 DEF ReclaimRefused, LockGoto, Reclaimable, store, renewer
<1>7. ASSUME NEW w \in Workers, Renew(w) PROVE RenewInv'
  BY <1>7 DEF Renew, Extendable, Extended, acquire
<1>8. ASSUME NEW w \in Workers, RenewStops(w) PROVE RenewInv'
  BY <1>8 DEF RenewStops, Stop, Extendable, store, acquire
<1>9. ASSUME NEW w \in Workers, RenewFails(w) PROVE RenewInv'
  BY <1>9 DEF RenewFails, store, acquire
<1>10. ASSUME NEW w \in Workers, RenewLate(w) PROVE RenewInv'
  BY <1>10 DEF RenewLate, Stop, Extendable, Extended, acquire
<1>11. ASSUME NEW w \in Workers, ReleaseSucceeded(w) PROVE RenewInv'
  BY <1>11 DEF ReleaseSucceeded, LockGoto, StopRenewing, Stop, MarkedSucceeded
<1>12. ASSUME NEW w \in Workers, ReleaseFailed(w) PROVE RenewInv'
  BY <1>12 DEF ReleaseFailed, LockGoto, StopRenewing, Stop, MarkedFailed
<1>13. ASSUME NEW w \in Workers, StatementFails(w) PROVE RenewInv'
  BY <1>13 DEF StatementFails, LockGoto, StopRenewing, Stop, store
<1>14. ASSUME NEW w \in Workers, Crash(w) PROVE RenewInv'
  BY <1>14 DEF Crash, LockGoto, Stop, store
<1>15. ASSUME LockTick PROVE RenewInv'
  BY <1>15 DEF LockTick, store, acquire, renewer
<1>16. ASSUME LockCleanUp PROVE RenewInv'
  BY <1>16 DEF LockCleanUp, DeleteExpired, acquire, renewer
<1>17. CASE UNCHANGED lockVars
  BY <1>17 DEF lockVars, store, acquire, renewer
<1> QED
  BY <1>1, <1>2, <1>3, <1>4, <1>5, <1>6, <1>7, <1>8, <1>9, <1>10, <1>11, <1>12,
     <1>13, <1>14, <1>15, <1>16, <1>17
  DEF LockNext, LockStep

\* What the history says after a step: a row that is still leased has not
\* lapsed, and it stays lapsed while someone holds the lock.
LEMMA HistoryStep ==
  ASSUME LockNext
  PROVE  /\ lapsed' \in BOOLEAN
         /\ ~lapsed' /\ Holders' # {} =>
               ~lapsed /\ (row'.status = "processing" => ~(row'.locked <= clock'))
         /\ Holders' = {} => Covered' = {}
         /\ Covered' \subseteq Holders'
<1>1. lapsed' = (Lapses \/ (lapsed /\ Holders' # {}))
  BY DEF LockNext
<1> QED
  BY <1>1 DEF Lapses, Covered

\* Every step keeps the lease with its holder.
LEMMA LeaseStep == LockInv /\ [LockNext]_lockVars => LeaseInv'
<1> SUFFICES ASSUME LockInv, [LockNext]_lockVars PROVE LeaseInv'
  OBVIOUS
<1>0. CASE UNCHANGED lockVars
  BY <1>0 DEF LockInv, LeaseInv, OneOperation, Covered, Holders, lockVars, store, acquire, renewer
<1> SUFFICES ASSUME LockNext PROVE LeaseInv'
  BY <1>0
<1> SUFFICES ASSUME Covered' # {} PROVE LeaseInv'
  BY DEF LeaseInv, OneOperation
<1>. /\ Covered' = Holders' /\ Covered = Holders
     /\ row'.status = "processing" => ~(row'.locked <= clock')
  BY HistoryStep DEF Covered
<1> USE StoreAssumption, LeaseAssumption
    DEF LockInv, LockTypeOK, StoreTypeOK, Row, RowStatus, NoRow, Acquiring, RenewInv, LeaseInv,
       OneOperation, Holders
<1>1. ASSUME NEW w \in Workers, NEW f \in Fingerprints, Acquire(w, f) PROVE LeaseInv'
  BY <1>1 DEF Acquire, store, renewer
<1>2. ASSUME NEW w \in Workers, InsertLock(w) PROVE LeaseInv'
  BY <1>2 DEF InsertLock, LockGoto, Hold, Inserted
<1>3. ASSUME NEW w \in Workers, InsertConflicts(w) PROVE LeaseInv'
  BY <1>3 DEF InsertConflicts, LockGoto, store, renewer
<1>4. ASSUME NEW w \in Workers, GetLock(w) PROVE LeaseInv'
  BY <1>4 DEF GetLock, LockGoto, Busy, store, renewer
<1>5. ASSUME NEW w \in Workers, TryReclaim(w) PROVE LeaseInv'
  BY <1>5 DEF TryReclaim, LockGoto, Hold, Reclaimable, Reclaimed
<1>6. ASSUME NEW w \in Workers, ReclaimRefused(w) PROVE LeaseInv'
  BY <1>6 DEF ReclaimRefused, LockGoto, Reclaimable, store, renewer
<1>7. ASSUME NEW w \in Workers, Renew(w) PROVE LeaseInv'
  BY <1>7 DEF Renew, Extendable, Extended, acquire
<1>8. ASSUME NEW w \in Workers, RenewStops(w) PROVE LeaseInv'
  BY <1>8 DEF RenewStops, Stop, Extendable, store, acquire
<1>9. ASSUME NEW w \in Workers, RenewFails(w) PROVE LeaseInv'
  BY <1>9 DEF RenewFails, store, acquire
<1>10. ASSUME NEW w \in Workers, RenewLate(w) PROVE LeaseInv'
  BY <1>10 DEF RenewLate, Stop, Extendable, Extended, acquire
<1>11. ASSUME NEW w \in Workers, ReleaseSucceeded(w) PROVE LeaseInv'
  BY <1>11 DEF ReleaseSucceeded, LockGoto, StopRenewing, Stop, MarkedSucceeded
<1>12. ASSUME NEW w \in Workers, ReleaseFailed(w) PROVE LeaseInv'
  BY <1>12 DEF ReleaseFailed, LockGoto, StopRenewing, Stop, MarkedFailed
<1>13. ASSUME NEW w \in Workers, StatementFails(w) PROVE LeaseInv'
  BY <1>13 DEF StatementFails, LockGoto, StopRenewing, Stop, store
<1>14. ASSUME NEW w \in Workers, Crash(w) PROVE LeaseInv'
  BY <1>14 DEF Crash, LockGoto, Stop, store
<1>15. ASSUME LockTick PROVE LeaseInv'
  BY <1>15 DEF LockTick, store, acquire, renewer
<1>16. ASSUME LockCleanUp PROVE LeaseInv'
  BY <1>16 DEF LockCleanUp, DeleteExpired, acquire, renewer
<1> QED
  BY <1>1, <1>2, <1>3, <1>4, <1>5, <1>6, <1>7, <1>8, <1>9, <1>10, <1>11, <1>12,
     <1>13, <1>14, <1>15, <1>16
  DEF LockNext, LockStep

\* LockInv holds in every reachable state.
THEOREM LockInvariance == SystemLock => []LockInv
<1>1. LockInv /\ [LockNext]_lockVars => LockInv'
  BY LockTypeStep, RenewStep, LeaseStep DEF LockInv
<1> QED
  BY LockInitInv, <1>1, PTL DEF SystemLock

\* Each step that lets a lease run out is a tick, or a claim slower than the
\* lease.
LEMMA LapseStep ==
  ASSUME LockInv, LockNext, ~lapsed, lapsed'
  PROVE  \E w \in Holders' : RenewalsDown(w)' \/ row'.fp # op'[w]
<1>. DEFINE Excused == \E w \in Holders' : RenewalsDown(w)' \/ row'.fp # op'[w]
<1>. /\ Holders' # {} /\ row'.status = "processing" /\ row'.locked <= clock'
     /\ Covered = Holders
  BY DEF LockNext, Lapses, Covered
<1> USE StoreAssumption, LeaseAssumption
    DEF LockInv, LockTypeOK, StoreTypeOK, Row, RowStatus, NoRow, Acquiring, RenewInv, LeaseInv,
       OneOperation, Holders, RenewalsDown
<1>1. ASSUME NEW w \in Workers, NEW f \in Fingerprints, Acquire(w, f) PROVE Excused
  BY <1>1 DEF Acquire, store, renewer
<1>2. ASSUME NEW w \in Workers, InsertLock(w) PROVE Excused
  BY <1>2 DEF InsertLock, LockGoto, Hold, Inserted
<1>3. ASSUME NEW w \in Workers, InsertConflicts(w) PROVE Excused
  BY <1>3 DEF InsertConflicts, LockGoto, store, renewer
<1>4. ASSUME NEW w \in Workers, GetLock(w) PROVE Excused
  BY <1>4 DEF GetLock, LockGoto, Busy, store, renewer
<1>5. ASSUME NEW w \in Workers, TryReclaim(w) PROVE Excused
  BY <1>5 DEF TryReclaim, LockGoto, Hold, Reclaimable, Reclaimed
<1>6. ASSUME NEW w \in Workers, ReclaimRefused(w) PROVE Excused
  BY <1>6 DEF ReclaimRefused, LockGoto, Reclaimable, store, renewer
<1>7. ASSUME NEW w \in Workers, Renew(w) PROVE Excused
  BY <1>7 DEF Renew, Extendable, Extended, acquire
<1>8. ASSUME NEW w \in Workers, RenewStops(w) PROVE Excused
  BY <1>8 DEF RenewStops, Stop, Extendable, store, acquire
<1>9. ASSUME NEW w \in Workers, RenewFails(w) PROVE Excused
  BY <1>9 DEF RenewFails, store, acquire
<1>10. ASSUME NEW w \in Workers, RenewLate(w) PROVE Excused
  BY <1>10 DEF RenewLate, Stop, Extendable, Extended, acquire
<1>11. ASSUME NEW w \in Workers, ReleaseSucceeded(w) PROVE Excused
  BY <1>11 DEF ReleaseSucceeded, LockGoto, StopRenewing, Stop, MarkedSucceeded
<1>12. ASSUME NEW w \in Workers, ReleaseFailed(w) PROVE Excused
  BY <1>12 DEF ReleaseFailed, LockGoto, StopRenewing, Stop, MarkedFailed
<1>13. ASSUME NEW w \in Workers, StatementFails(w) PROVE Excused
  BY <1>13 DEF StatementFails, LockGoto, StopRenewing, Stop, store
<1>14. ASSUME NEW w \in Workers, Crash(w) PROVE Excused
  BY <1>14 DEF Crash, LockGoto, Stop, store
<1>15. ASSUME LockTick PROVE Excused
  BY <1>15 DEF LockTick, store, acquire, renewer
<1>16. ASSUME LockCleanUp PROVE Excused
  BY <1>16 DEF LockCleanUp, DeleteExpired, acquire, renewer
<1> QED
  BY <1>1, <1>2, <1>3, <1>4, <1>5, <1>6, <1>7, <1>8, <1>9, <1>10, <1>11, <1>12,
     <1>13, <1>14, <1>15, <1>16
  DEF LockNext, LockStep

\* A lease runs out under an operation only if its renewals failed for a lease
\* or match no row, however long the operation takes.
THEOREM LeaseCoversOperation == SystemLock => HeldIsLocked
<1>1. LockInv /\ [LockNext]_lockVars =>
        [ ~lapsed /\ lapsed' =>
             \E w \in Holders' : RenewalsDown(w)' \/ row'.fp # op'[w] ]_lockVars
  BY LapseStep
<1> QED
  BY LockInvariance, <1>1, PTL DEF SystemLock, HeldIsLocked

\* Two operations never run at the same time before a lease has run out.
THEOREM ExclusiveOperation == SystemLock => []OneOperation
<1>1. LockInv => OneOperation
  BY DEF LockInv, LeaseInv
<1> QED
  BY LockInvariance, <1>1, PTL


\* The covered operations after a step: those that hold the lock, or none.
LEMMA CoveredStep ==
  ASSUME LockNext
  PROVE  /\ lapsed => Covered = {} /\ Covered' = {}
         /\ ~lapsed => Covered = Holders /\ (Covered' = Holders' \/ Covered' = {})
BY DEF LockNext, Covered, Lapses

\* A step takes the lock, gives it up, or changes no holder; only a free row is
\* taken before a lease has run out.
LEMMA HolderStep ==
  ASSUME LockInv, LockNext, ~lapsed
  PROVE  \/ Holders' = Holders
         \/ \E w \in Workers : Holders = {} /\ Holders' = {w}
         \/ \E w \in Holders : Holders' = Holders \ {w}
<1>. DEFINE Single == \/ Holders' = Holders
                      \/ \E w \in Workers : Holders = {} /\ Holders' = {w}
                      \/ \E w \in Holders : Holders' = Holders \ {w}
<1>. Covered = Holders /\ pc \in [Workers -> {"idle", "held"} \cup Acquiring]
  BY DEF Covered, LockInv, LockTypeOK
<1>a. ASSUME NEW w \in Workers, pc' = [pc EXCEPT ![w] = "held"], Holders = {} PROVE Single
  BY <1>a DEF Holders
<1>b. ASSUME NEW w \in Workers, pc' = [pc EXCEPT ![w] = "idle"] PROVE Single
  <2>1. Holders' = Holders \ {w}
    BY <1>b DEF Holders, Acquiring
  <2> QED
    BY <2>1
<1>c. ASSUME NEW w \in Workers, NEW q \in Acquiring, pc' = [pc EXCEPT ![w] = q], pc[w] # "held"
      PROVE  Single
  BY <1>c DEF Holders, Acquiring
<1>d. ASSUME UNCHANGED pc PROVE Single
  BY <1>d DEF Holders
<1>1. ASSUME NEW w \in Workers, NEW f \in Fingerprints, Acquire(w, f) PROVE Single
  BY <1>1, <1>c DEF Acquire, Acquiring
<1>2. ASSUME NEW w \in Workers, InsertLock(w) PROVE Single
  <2>1. Holders = {}
    BY <1>2 DEF InsertLock, LockInv, LeaseInv
  <2> QED
    BY <1>2, <2>1, <1>a DEF InsertLock, Hold, LockGoto
<1>3. ASSUME NEW w \in Workers, InsertConflicts(w) PROVE Single
  BY <1>3, <1>c DEF InsertConflicts, LockGoto, Acquiring
<1>4. ASSUME NEW w \in Workers, GetLock(w) PROVE Single
  BY <1>4, <1>b, <1>c DEF GetLock, LockGoto, Acquiring
<1>5. ASSUME NEW w \in Workers, TryReclaim(w) PROVE Single
  <2>1. row.locked <= clock
    BY <1>5, StoreAssumption
    DEF TryReclaim, Reclaimable, LockInv, LockTypeOK, StoreTypeOK, Row, RenewInv, Acquiring
  <2>2. Holders = {}
    BY <2>1 DEF LockInv, LeaseInv, LockTypeOK, StoreTypeOK, Row
  <2> QED
    BY <1>5, <2>2, <1>a DEF TryReclaim, Hold, LockGoto
<1>6. ASSUME NEW w \in Workers, ReclaimRefused(w) PROVE Single
  BY <1>6, <1>b DEF ReclaimRefused, LockGoto
<1>7. ASSUME NEW w \in Workers, Renew(w) PROVE Single
  BY <1>7, <1>d DEF Renew
<1>8. ASSUME NEW w \in Workers, RenewStops(w) PROVE Single
  BY <1>8, <1>d DEF RenewStops
<1>9. ASSUME NEW w \in Workers, RenewFails(w) PROVE Single
  BY <1>9, <1>d DEF RenewFails
<1>10. ASSUME NEW w \in Workers, RenewLate(w) PROVE Single
  BY <1>10, <1>d DEF RenewLate
<1>11. ASSUME NEW w \in Workers, ReleaseSucceeded(w) PROVE Single
  BY <1>11, <1>b DEF ReleaseSucceeded, LockGoto
<1>12. ASSUME NEW w \in Workers, ReleaseFailed(w) PROVE Single
  BY <1>12, <1>b DEF ReleaseFailed, LockGoto
<1>13. ASSUME NEW w \in Workers, StatementFails(w) PROVE Single
  BY <1>13, <1>b DEF StatementFails, LockGoto
<1>14. ASSUME NEW w \in Workers, Crash(w) PROVE Single
  BY <1>14, <1>b DEF Crash, LockGoto
<1>15. ASSUME LockTick PROVE Single
  BY <1>15, <1>d DEF LockTick
<1>16. ASSUME LockCleanUp PROVE Single
  BY <1>16, <1>d DEF LockCleanUp
<1> QED
  BY <1>1, <1>2, <1>3, <1>4, <1>5, <1>6, <1>7, <1>8, <1>9, <1>10, <1>11, <1>12,
     <1>13, <1>14, <1>15, <1>16
  DEF LockNext, LockStep

\* The row with its lease implements a lock with a single holder, until a lease
\* runs out under the holder.
THEOREM LockRefinement == SystemLock => LockSpec
<1>1. LockInit => Lock!Init
  BY DEF LockInit, Lock!Init, Covered, Holders
<1>2. LockInv /\ [LockNext]_lockVars => [Lock!Next]_Covered
  <2>1. ASSUME LockInv, LockNext, ~lapsed PROVE [Lock!Next]_Covered
    <3>1. \A w \in Covered : Covered \ {w} = {}
      BY <2>1 DEF LockInv, LeaseInv, OneOperation
    <3>2. Covered \subseteq Workers
      BY DEF Covered, Holders
    <3>3. Covered = Holders /\ (Covered' = Holders' \/ Covered' = {})
      BY <2>1, CoveredStep
    <3> QED
      BY <2>1, <3>1, <3>2, <3>3, HolderStep DEF Lock!Next, Lock!Acquire, Lock!Release
  <2>2. ASSUME LockNext, lapsed PROVE [Lock!Next]_Covered
    BY <2>2, CoveredStep
  <2>3. CASE UNCHANGED lockVars
    BY <2>3 DEF lockVars, Covered, Holders
  <2> QED
    BY <2>1, <2>2, <2>3
<1> QED
  BY LockInvariance, <1>1, <1>2, PTL DEF SystemLock, LockSpec, Lock!Spec
=============================================================================
