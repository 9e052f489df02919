----------------------- MODULE ConcurrencySlotsProofs -----------------------
(***************************************************************************)
(* Proofs about ConcurrencySlots for any number of requests and instances, *)
(* any limits, durations and faults.  No bound on how long a request runs  *)
(* or waits is assumed: the theorems say in which steps a slot or a count  *)
(* can be lost, and that the limit holds for those that are in the set.    *)
(***************************************************************************)
EXTENDS ConcurrencySlots, FiniteSetTheorems, TLAPS

\* Nothing is held or counted at first.
LEMMA SlotsInit == Init => SlotsInv
<1> SUFFICES ASSUME Init PROVE SlotsInv
  OBVIOUS
<1> USE SlotSetsAssumption, SlotNumbersAssumption DEF Init
<1>1. TypeOK
  BY DEF TypeOK, PC
<1>2. ControlInv /\ HeldInv
  BY DEF ControlInv, HeldInv
<1>3. QueueInv
  BY DEF QueueInv, Queued
<1> QED
  BY <1>1, <1>2, <1>3 DEF SlotsInv

\* Every step keeps the types.
LEMMA SlotsTypeStep == SlotsInv /\ [Next]_vars => TypeOK'
<1> SUFFICES ASSUME SlotsInv, [Next]_vars PROVE TypeOK'
  OBVIOUS
<1> USE SlotSetsAssumption, SlotNumbersAssumption
    DEF SlotsInv, TypeOK, PC
<1>1. ASSUME NEW r \in Requests, Begin(r) PROVE TypeOK'
  BY <1>1 DEF Begin, Goto, redis, queue
<1>2. ASSUME NEW r \in Requests, AcquireSlot(r) PROVE TypeOK'
  BY <1>2 DEF AcquireSlot, Goto, Live, Fresh, Add, counter, queue
<1>3. ASSUME NEW r \in Requests, AcquireLost(r) PROVE TypeOK'
  BY <1>3 DEF AcquireLost, Goto, Live, Fresh, Add, counter, queue
<1>4. ASSUME NEW r \in Requests, AcquireRefused(r) PROVE TypeOK'
  BY <1>4 DEF AcquireRefused, Goto, Live, Keep, counter, queue
<1>5. ASSUME NEW r \in Requests, GiveUp(r) PROVE TypeOK'
  BY <1>5 DEF GiveUp, Goto, redis, queue
<1>6. ASSUME NEW r \in Requests, IncrementWaitCount(r) PROVE TypeOK'
  BY <1>6 DEF IncrementWaitCount, Goto, Ran, sortedSet
<1>7. ASSUME NEW r \in Requests, IncrementRefused(r) PROVE TypeOK'
  BY <1>7 DEF IncrementRefused, Goto, redis, queue
<1>8. ASSUME NEW r \in Requests, DecrementWaitCount(r) PROVE TypeOK'
  BY <1>8 DEF DecrementWaitCount, Goto, AfterQueue, sortedSet
<1>9. ASSUME NEW r \in Requests, DecrementFails(r) PROVE TypeOK'
  BY <1>9 DEF DecrementFails, Goto, AfterQueue, redis
<1>10. ASSUME NEW r \in Requests, ReleaseSlot(r) PROVE TypeOK'
  BY <1>10 DEF ReleaseSlot, Goto, Keep, counter, queue
<1>11. ASSUME NEW r \in Requests, ReleaseFails(r) PROVE TypeOK'
  BY <1>11 DEF ReleaseFails, Goto, redis, queue
<1>12. ASSUME NEW p \in Processes, Crash(p) PROVE TypeOK'
  BY <1>12 DEF Crash, counter
<1>13. ASSUME NEW p \in Processes, Start(p) PROVE TypeOK'
  BY <1>13 DEF Start, redis, queue
<1>14. ASSUME NEW p \in Processes, CleanSlots(p) PROVE TypeOK'
  BY <1>14 DEF CleanSlots, Keep, counter, queue
<1>15. ASSUME NEW p \in Processes, CleanWait(p) PROVE TypeOK'
  BY <1>15 DEF CleanWait, sortedSet, queue
<1>16. ASSUME NEW p \in Processes, CleanFails(p) PROVE TypeOK'
  BY <1>16 DEF CleanFails, redis, queue
<1>17. ASSUME CleanupExpiredSlots PROVE TypeOK'
  BY <1>17 DEF CleanupExpiredSlots, Live, Keep, counter, queue
<1>18. ASSUME Tick PROVE TypeOK'
  BY <1>18 DEF Tick
<1>19. CASE UNCHANGED vars
  BY <1>19 DEF vars, redis, counter, queue
<1> QED
  BY <1>1, <1>2, <1>3, <1>4, <1>5, <1>6, <1>7, <1>8, <1>9, <1>10, <1>11, <1>12,
     <1>13, <1>14, <1>15, <1>16, <1>17, <1>18, <1>19
  DEF Next, Step, Startup

\* Every step keeps the control of requests and processes consistent.
LEMMA ControlStep == SlotsInv /\ [Next]_vars => ControlInv'
<1> SUFFICES ASSUME SlotsInv, [Next]_vars PROVE ControlInv'
  OBVIOUS
<1> USE SlotSetsAssumption, SlotNumbersAssumption
    DEF SlotsInv, TypeOK, PC, ControlInv
<1>1. ASSUME NEW r \in Requests, Begin(r) PROVE ControlInv'
  BY <1>1 DEF Begin, Goto, redis, queue
<1>2. ASSUME NEW r \in Requests, AcquireSlot(r) PROVE ControlInv'
  BY <1>2 DEF AcquireSlot, Goto, Live, Fresh, Add, counter, queue
<1>3. ASSUME NEW r \in Requests, AcquireLost(r) PROVE ControlInv'
  BY <1>3 DEF AcquireLost, Goto, Live, Fresh, Add, counter, queue
<1>4. ASSUME NEW r \in Requests, AcquireRefused(r) PROVE ControlInv'
  BY <1>4 DEF AcquireRefused, Goto, Live, Keep, counter, queue
<1>5. ASSUME NEW r \in Requests, GiveUp(r) PROVE ControlInv'
  BY <1>5 DEF GiveUp, Goto, redis, queue
<1>6. ASSUME NEW r \in Requests, IncrementWaitCount(r) PROVE ControlInv'
  BY <1>6 DEF IncrementWaitCount, Goto, Ran, sortedSet
<1>7. ASSUME NEW r \in Requests, IncrementRefused(r) PROVE ControlInv'
  BY <1>7 DEF IncrementRefused, Goto, redis, queue
<1>8. ASSUME NEW r \in Requests, DecrementWaitCount(r) PROVE ControlInv'
  BY <1>8 DEF DecrementWaitCount, Goto, AfterQueue, sortedSet
<1>9. ASSUME NEW r \in Requests, DecrementFails(r) PROVE ControlInv'
  BY <1>9 DEF DecrementFails, Goto, AfterQueue, redis
<1>10. ASSUME NEW r \in Requests, ReleaseSlot(r) PROVE ControlInv'
  BY <1>10 DEF ReleaseSlot, Goto, Keep, counter, queue
<1>11. ASSUME NEW r \in Requests, ReleaseFails(r) PROVE ControlInv'
  BY <1>11 DEF ReleaseFails, Goto, redis, queue
<1>12. ASSUME NEW p \in Processes, Crash(p) PROVE ControlInv'
  BY <1>12 DEF Crash, counter
<1>13. ASSUME NEW p \in Processes, Start(p) PROVE ControlInv'
  BY <1>13 DEF Start, redis, queue
<1>14. ASSUME NEW p \in Processes, CleanSlots(p) PROVE ControlInv'
  BY <1>14 DEF CleanSlots, Keep, counter, queue
<1>15. ASSUME NEW p \in Processes, CleanWait(p) PROVE ControlInv'
  BY <1>15 DEF CleanWait, sortedSet, queue
<1>16. ASSUME NEW p \in Processes, CleanFails(p) PROVE ControlInv'
  BY <1>16 DEF CleanFails, redis, queue
<1>17. ASSUME CleanupExpiredSlots PROVE ControlInv'
  BY <1>17 DEF CleanupExpiredSlots, Live, Keep, counter, queue
<1>18. ASSUME Tick PROVE ControlInv'
  BY <1>18 DEF Tick
<1>19. CASE UNCHANGED vars
  BY <1>19 DEF vars, redis, counter, queue
<1> QED
  BY <1>1, <1>2, <1>3, <1>4, <1>5, <1>6, <1>7, <1>8, <1>9, <1>10, <1>11, <1>12,
     <1>13, <1>14, <1>15, <1>16, <1>17, <1>18, <1>19
  DEF Next, Step, Startup

\* No two requests hold a slot under the same id.
LEMMA HeldStep == SlotsInv /\ [Next]_vars => HeldInv'
<1> SUFFICES ASSUME SlotsInv, [Next]_vars PROVE HeldInv'
  OBVIOUS
<1> USE SlotSetsAssumption, SlotNumbersAssumption
    DEF SlotsInv, TypeOK, HeldInv
<1>1. ASSUME NEW r \in Requests, Begin(r) PROVE HeldInv'
  BY <1>1 DEF Begin, Goto, redis, queue
<1>2. ASSUME NEW r \in Requests, AcquireSlot(r) PROVE HeldInv'
  BY <1>2 DEF AcquireSlot, Goto, Live, Fresh, Add, counter, queue
<1>3. ASSUME NEW r \in Requests, AcquireLost(r) PROVE HeldInv'
  BY <1>3 DEF AcquireLost, Goto, Live, Fresh, Add, counter, queue
<1>4. ASSUME NEW r \in Requests, AcquireRefused(r) PROVE HeldInv'
  BY <1>4 DEF AcquireRefused, Goto, Live, Keep, counter, queue
<1>5. ASSUME NEW r \in Requests, GiveUp(r) PROVE HeldInv'
  BY <1>5 DEF GiveUp, Goto, redis, queue
<1>6. ASSUME NEW r \in Requests, IncrementWaitCount(r) PROVE HeldInv'
  BY <1>6 DEF IncrementWaitCount, Goto, Ran, sortedSet
<1>7. ASSUME NEW r \in Requests, IncrementRefused(r) PROVE HeldInv'
  BY <1>7 DEF IncrementRefused, Goto, redis, queue
<1>8. ASSUME NEW r \in Requests, DecrementWaitCount(r) PROVE HeldInv'
  BY <1>8 DEF DecrementWaitCount, Goto, AfterQueue, sortedSet
<1>9. ASSUME NEW r \in Requests, DecrementFails(r) PROVE HeldInv'
  BY <1>9 DEF DecrementFails, Goto, AfterQueue, redis
<1>10. ASSUME NEW r \in Requests, ReleaseSlot(r) PROVE HeldInv'
  BY <1>10 DEF ReleaseSlot, Goto, Keep, counter, queue
<1>11. ASSUME NEW r \in Requests, ReleaseFails(r) PROVE HeldInv'
  BY <1>11 DEF ReleaseFails, Goto, redis, queue
<1>12. ASSUME NEW p \in Processes, Crash(p) PROVE HeldInv'
  BY <1>12 DEF Crash, counter
<1>13. ASSUME NEW p \in Processes, Start(p) PROVE HeldInv'
  BY <1>13 DEF Start, redis, queue
<1>14. ASSUME NEW p \in Processes, CleanSlots(p) PROVE HeldInv'
  BY <1>14 DEF CleanSlots, Keep, counter, queue
<1>15. ASSUME NEW p \in Processes, CleanWait(p) PROVE HeldInv'
  BY <1>15 DEF CleanWait, sortedSet, queue
<1>16. ASSUME NEW p \in Processes, CleanFails(p) PROVE HeldInv'
  BY <1>16 DEF CleanFails, redis, queue
<1>17. ASSUME CleanupExpiredSlots PROVE HeldInv'
  BY <1>17 DEF CleanupExpiredSlots, Live, Keep, counter, queue
<1>18. ASSUME Tick PROVE HeldInv'
  BY <1>18 DEF Tick
<1>19. CASE UNCHANGED vars
  BY <1>19 DEF vars, redis, counter, queue
<1> QED
  BY <1>1, <1>2, <1>3, <1>4, <1>5, <1>6, <1>7, <1>8, <1>9, <1>10, <1>11, <1>12,
     <1>13, <1>14, <1>15, <1>16, <1>17, <1>18, <1>19
  DEF Next, Step, Startup

\* No step makes the counter's TTL older than a request in the queue.
LEMMA QueueStep == SlotsInv /\ [Next]_vars => QueueInv'
<1> SUFFICES ASSUME SlotsInv, [Next]_vars PROVE QueueInv'
  OBVIOUS
<1> USE SlotSetsAssumption, SlotNumbersAssumption
    DEF SlotsInv, TypeOK, ControlInv, PC, QueueInv, Queued
<1>1. ASSUME NEW r \in Requests, Begin(r) PROVE QueueInv'
  BY <1>1 DEF Begin, Goto, redis, queue
<1>2. ASSUME NEW r \in Requests, AcquireSlot(r) PROVE QueueInv'
  BY <1>2 DEF AcquireSlot, Goto, Live, Fresh, Add, counter, queue
<1>3. ASSUME NEW r \in Requests, AcquireLost(r) PROVE QueueInv'
  BY <1>3 DEF AcquireLost, Goto, Live, Fresh, Add, counter, queue
<1>4. ASSUME NEW r \in Requests, AcquireRefused(r) PROVE QueueInv'
  BY <1>4 DEF AcquireRefused, Goto, Live, Keep, counter, queue
<1>5. ASSUME NEW r \in Requests, GiveUp(r) PROVE QueueInv'
  BY <1>5 DEF GiveUp, Goto, redis, queue
<1>6. ASSUME NEW r \in Requests, IncrementWaitCount(r) PROVE QueueInv'
  BY <1>6 DEF IncrementWaitCount, Goto, Ran, sortedSet
<1>7. ASSUME NEW r \in Requests, IncrementRefused(r) PROVE QueueInv'
  BY <1>7 DEF IncrementRefused, Goto, redis, queue
<1>8. ASSUME NEW r \in Requests, DecrementWaitCount(r) PROVE QueueInv'
  BY <1>8 DEF DecrementWaitCount, Goto, AfterQueue, sortedSet
<1>9. ASSUME NEW r \in Requests, DecrementFails(r) PROVE QueueInv'
  BY <1>9 DEF DecrementFails, Goto, AfterQueue, redis
<1>10. ASSUME NEW r \in Requests, ReleaseSlot(r) PROVE QueueInv'
  BY <1>10 DEF ReleaseSlot, Goto, Keep, counter, queue
<1>11. ASSUME NEW r \in Requests, ReleaseFails(r) PROVE QueueInv'
  BY <1>11 DEF ReleaseFails, Goto, redis, queue
<1>12. ASSUME NEW p \in Processes, Crash(p) PROVE QueueInv'
  BY <1>12 DEF Crash, counter
<1>13. ASSUME NEW p \in Processes, Start(p) PROVE QueueInv'
  BY <1>13 DEF Start, redis, queue
<1>14. ASSUME NEW p \in Processes, CleanSlots(p) PROVE QueueInv'
  BY <1>14 DEF CleanSlots, Keep, counter, queue
<1>15. ASSUME NEW p \in Processes, CleanWait(p) PROVE QueueInv'
  BY <1>15 DEF CleanWait, sortedSet, queue
<1>16. ASSUME NEW p \in Processes, CleanFails(p) PROVE QueueInv'
  BY <1>16 DEF CleanFails, redis, queue
<1>17. ASSUME CleanupExpiredSlots PROVE QueueInv'
  BY <1>17 DEF CleanupExpiredSlots, Live, Keep, counter, queue
<1>18. ASSUME Tick PROVE QueueInv'
  BY <1>18 DEF Tick
<1>19. CASE UNCHANGED vars
  BY <1>19 DEF vars, redis, counter, queue
<1> QED
  BY <1>1, <1>2, <1>3, <1>4, <1>5, <1>6, <1>7, <1>8, <1>9, <1>10, <1>11, <1>12,
     <1>13, <1>14, <1>15, <1>16, <1>17, <1>18, <1>19
  DEF Next, Step, Startup

\* SlotsInv holds in every reachable state.
THEOREM SlotsInvariance == Spec => []SlotsInv
<1>1. SlotsInv /\ [Next]_vars => SlotsInv'
  BY SlotsTypeStep, ControlStep, HeldStep, QueueStep DEF SlotsInv
<1> QED
  BY SlotsInit, <1>1, PTL DEF Spec

\* A running request's slot leaves the sorted set by its age or by another
\* instance's start only.
LEMMA KeptStep ==
  ASSUME SlotsInv, Next, NEW h \in Holding, slot'[h] = slot[h], slot[h] \notin slots'
  PROVE  \/ age[slot[h]] >= SlotTTL
         \/ \E q \in Processes \ {Home[h]} : up[q] = "cleanSlots"
<1>. DEFINE Excused == \/ age[slot[h]] >= SlotTTL
                      \/ \E q \in Processes \ {Home[h]} : up[q] = "cleanSlots"
<1> USE SlotSetsAssumption, SlotNumbersAssumption
    DEF SlotsInv, TypeOK, ControlInv, HeldInv, Holding
<1>1. ASSUME NEW r \in Requests, Begin(r) PROVE Excused
  BY <1>1 DEF Begin, Goto, redis, queue
<1>2. ASSUME NEW r \in Requests, AcquireSlot(r) PROVE Excused
  BY <1>2 DEF AcquireSlot, Goto, Live, Fresh, Add, counter, queue
<1>3. ASSUME NEW r \in Requests, AcquireLost(r) PROVE Excused
  BY <1>3 DEF AcquireLost, Goto, Live, Fresh, Add, counter, queue
<1>4. ASSUME NEW r \in Requests, AcquireRefused(r) PROVE Excused
  BY <1>4 DEF AcquireRefused, Goto, Live, Keep, counter, queue
<1>5. ASSUME NEW r \in Requests, GiveUp(r) PROVE Excused
  BY <1>5 DEF GiveUp, Goto, redis, queue
<1>6. ASSUME NEW r \in Requests, IncrementWaitCount(r) PROVE Excused
  BY <1>6 DEF IncrementWaitCount, Goto, Ran, sortedSet
<1>7. ASSUME NEW r \in Requests, IncrementRefused(r) PROVE Excused
  BY <1>7 DEF IncrementRefused, Goto, redis, queue
<1>8. ASSUME NEW r \in Requests, DecrementWaitCount(r) PROVE Excused
  BY <1>8 DEF DecrementWaitCount, Goto, AfterQueue, sortedSet
<1>9. ASSUME NEW r \in Requests, DecrementFails(r) PROVE Excused
  BY <1>9 DEF DecrementFails, Goto, AfterQueue, redis
<1>10. ASSUME NEW r \in Requests, ReleaseSlot(r) PROVE Excused
  BY <1>10 DEF ReleaseSlot, Goto, Keep, counter, queue
<1>11. ASSUME NEW r \in Requests, ReleaseFails(r) PROVE Excused
  BY <1>11 DEF ReleaseFails, Goto, redis, queue
<1>12. ASSUME NEW p \in Processes, Crash(p) PROVE Excused
  BY <1>12 DEF Crash, counter
<1>13. ASSUME NEW p \in Processes, Start(p) PROVE Excused
  BY <1>13 DEF Start, redis, queue
<1>14. ASSUME NEW p \in Processes, CleanSlots(p) PROVE Excused
  BY <1>14 DEF CleanSlots, Keep, counter, queue
<1>15. ASSUME NEW p \in Processes, CleanWait(p) PROVE Excused
  BY <1>15 DEF CleanWait, sortedSet, queue
<1>16. ASSUME NEW p \in Processes, CleanFails(p) PROVE Excused
  BY <1>16 DEF CleanFails, redis, queue
<1>17. ASSUME CleanupExpiredSlots PROVE Excused
  BY <1>17 DEF CleanupExpiredSlots, Live, Keep, counter, queue
<1>18. ASSUME Tick PROVE Excused
  BY <1>18 DEF Tick
<1> QED
  BY <1>1, <1>2, <1>3, <1>4, <1>5, <1>6, <1>7, <1>8, <1>9, <1>10, <1>11, <1>12,
     <1>13, <1>14, <1>15, <1>16, <1>17, <1>18
  DEF Next, Step, Startup

\* A request keeps its slot until it gives it back, the slot grows old or
\* another instance starts.
THEOREM SlotsAreKept == Spec => HeldIsCounted
<1>1. SlotsInv /\ [Next]_vars =>
        [ \A r \in Holding :
             slot'[r] = slot[r] /\ slot[r] \notin slots' =>
                \/ age[slot[r]] >= SlotTTL
                \/ \E p \in Processes \ {Home[r]} : up[p] = "cleanSlots" ]_vars
  BY KeptStep
<1> QED
  BY SlotsInvariance, <1>1, PTL DEF Spec, HeldIsCounted

-----------------------------------------------------------------------------
(* The queue. *)

\* The set of queued requests is finite.
LEMMA QueuedFinite ==
  /\ IsFiniteSet(Queued) /\ Cardinality(Queued) \in Nat
  /\ \A S \in SUBSET Queued : Cardinality(S) \in Nat /\ Cardinality(S) <= Cardinality(Queued)
<1>1. Queued \in SUBSET Requests
  BY DEF Queued
<1>2. IsFiniteSet(Queued)
  BY <1>1, SlotSetsAssumption, FS_Subset
<1> QED
  BY <1>2, FS_Subset, FS_CardinalityType

\* In every other step the counter stays at or above the queue.
LEMMA CountedStep ==
  ASSUME SlotsInv, Next, Cardinality(Queued) <= wait
  PROVE  Cardinality(Queued') <= wait' \/ Uncounted
<1>. DEFINE Right == Cardinality(Queued') <= wait' \/ Uncounted
<1>. wait \in Nat
  BY DEF SlotsInv, TypeOK
<1>a. ASSUME Queued' = Queued, wait' = wait PROVE Right
  BY <1>a
<1>b. ASSUME Queued' \in SUBSET Queued, wait' = wait PROVE Right
  BY <1>b, QueuedFinite
<1> USE SlotSetsAssumption, SlotNumbersAssumption DEF SlotsInv, TypeOK, ControlInv
<1>1. ASSUME NEW r \in Requests, Begin(r) PROVE Right
  <2>1. Queued' = Queued /\ wait' = wait
    BY <1>1 DEF Begin, Goto, redis, queue, Queued
  <2> QED
    BY <2>1, <1>a
<1>2. ASSUME NEW r \in Requests, AcquireSlot(r) PROVE Right
  <2>1. Queued' = Queued /\ wait' = wait
    BY <1>2 DEF AcquireSlot, Goto, Live, Fresh, Add, counter, queue, Queued
  <2> QED
    BY <2>1, <1>a
<1>3. ASSUME NEW r \in Requests, AcquireLost(r) PROVE Right
  <2>1. Queued' = Queued /\ wait' = wait
    BY <1>3 DEF AcquireLost, Goto, Live, Fresh, Add, counter, queue, Queued
  <2> QED
    BY <2>1, <1>a
<1>4. ASSUME NEW r \in Requests, AcquireRefused(r) PROVE Right
  <2>1. Queued' = Queued /\ wait' = wait
    BY <1>4 DEF AcquireRefused, Goto, Live, Keep, counter, queue, Queued
  <2> QED
    BY <2>1, <1>a
<1>5. ASSUME NEW r \in Requests, GiveUp(r) PROVE Right
  <2>1. Queued' = Queued /\ wait' = wait
    BY <1>5 DEF GiveUp, Goto, redis, queue, Queued
  <2> QED
    BY <2>1, <1>a
<1>6. ASSUME NEW r \in Requests, IncrementWaitCount(r) PROVE Right
  <2>1. PICK ran \in Ran :
           /\ wait' = IF ran THEN wait + 1 ELSE wait
           /\ counted' = [counted EXCEPT ![r] = IF ran THEN "in" ELSE "failed"]
    BY <1>6 DEF IncrementWaitCount
  <2>2. r \notin Queued
    BY <1>6 DEF IncrementWaitCount, Queued
  <2>3. CASE ran
    <3>1. Queued' = Queued \cup {r}
      BY <2>1, <2>3 DEF Queued
    <3>2. Cardinality(Queued') = Cardinality(Queued) + 1
      BY <2>2, <3>1, QueuedFinite, FS_AddElement
    <3> QED
      BY <2>1, <2>3, <3>2, QueuedFinite
  <2>4. CASE ~ran
    <3>1. Queued' = Queued
      BY <2>1, <2>2, <2>4 DEF Queued
    <3> QED
      BY <2>1, <2>4, <3>1, <1>a
  <2> QED
    BY <2>3, <2>4
<1>7. ASSUME NEW r \in Requests, IncrementRefused(r) PROVE Right
  <2>1. Queued' = Queued /\ wait' = wait
    BY <1>7 DEF IncrementRefused, Goto, redis, queue, Queued
  <2> QED
    BY <2>1, <1>a
<1>8. ASSUME NEW r \in Requests, DecrementWaitCount(r) PROVE Right
  <2>1. counted' = [counted EXCEPT ![r] = "no"] /\ wait' = IF wait > 0 THEN wait - 1 ELSE 0
    BY <1>8 DEF DecrementWaitCount
  <2>2. counted[r] \in {"in", "failed"}
    BY <1>8 DEF DecrementWaitCount
  <2>3. CASE counted[r] = "failed"
    BY <2>1, <2>3 DEF Uncounted
  <2>4. CASE counted[r] = "in"
    <3>1. Queued' = Queued \ {r} /\ r \in Queued
      BY <2>1, <2>4 DEF Queued
    <3>2. Cardinality(Queued') = Cardinality(Queued) - 1
      BY <3>1, QueuedFinite, FS_RemoveElement
    <3> QED
      BY <2>1, <3>2, QueuedFinite
  <2> QED
    BY <2>2, <2>3, <2>4
<1>9. ASSUME NEW r \in Requests, DecrementFails(r) PROVE Right
  <2>1. Queued' \in SUBSET Queued /\ wait' = wait
    BY <1>9 DEF DecrementFails, Goto, AfterQueue, redis, Queued
  <2> QED
    BY <2>1, <1>b
<1>10. ASSUME NEW r \in Requests, ReleaseSlot(r) PROVE Right
  <2>1. Queued' = Queued /\ wait' = wait
    BY <1>10 DEF ReleaseSlot, Goto, Keep, counter, queue, Queued
  <2> QED
    BY <2>1, <1>a
<1>11. ASSUME NEW r \in Requests, ReleaseFails(r) PROVE Right
  <2>1. Queued' = Queued /\ wait' = wait
    BY <1>11 DEF ReleaseFails, Goto, redis, queue, Queued
  <2> QED
    BY <2>1, <1>a
<1>12. ASSUME NEW p \in Processes, Crash(p) PROVE Right
  <2>1. Queued' \in SUBSET Queued /\ wait' = wait
    BY <1>12 DEF Crash, counter, Queued
  <2> QED
    BY <2>1, <1>b
<1>13. ASSUME NEW p \in Processes, Start(p) PROVE Right
  <2>1. Queued' = Queued /\ wait' = wait
    BY <1>13 DEF Start, redis, queue, Queued
  <2> QED
    BY <2>1, <1>a
<1>14. ASSUME NEW p \in Processes, CleanSlots(p) PROVE Right
  <2>1. Queued' = Queued /\ wait' = wait
    BY <1>14 DEF CleanSlots, Keep, counter, queue, Queued
  <2> QED
    BY <2>1, <1>a
<1>15. ASSUME NEW p \in Processes, CleanWait(p) PROVE Right
  <2>1. up[p] = "cleanWait" /\ up'[p] = "up"
    BY <1>15 DEF CleanWait
  <2>2. \A r \in Queued : Home[r] # p
    BY <2>1 DEF Queued
  <2> QED
    BY <2>1, <2>2 DEF Uncounted
<1>16. ASSUME NEW p \in Processes, CleanFails(p) PROVE Right
  <2>1. Queued' = Queued /\ wait' = wait
    BY <1>16 DEF CleanFails, redis, queue, Queued
  <2> QED
    BY <2>1, <1>a
<1>17. ASSUME CleanupExpiredSlots PROVE Right
  <2>1. Queued' = Queued /\ wait' = wait
    BY <1>17 DEF CleanupExpiredSlots, Live, Keep, counter, queue, Queued
  <2> QED
    BY <2>1, <1>a
<1>18. ASSUME Tick PROVE Right
  <2>1. Queued' = Queued
    BY <1>18 DEF Tick, Queued
  <2>2. CASE waitAge + 1 < WaitTTL
    <3>1. wait' = wait
      BY <1>18, <2>2 DEF Tick
    <3> QED
      BY <2>1, <3>1, <1>a
  <2>3. CASE ~(waitAge + 1 < WaitTTL)
    <3>1. ASSUME NEW r \in Queued PROVE queued'[r] >= WaitTTL
      <4>1. queued'[r] = IF queued[r] < WaitTTL THEN queued[r] + 1 ELSE queued[r]
        BY <1>18 DEF Tick, Queued
      <4>2. waitAge <= queued[r] /\ queued[r] \in Nat
        BY DEF QueueInv, Queued
      <4> QED
        BY <2>3, <4>1, <4>2
    <3> QED
      BY <2>1, <3>1 DEF Uncounted
  <2> QED
    BY <2>2, <2>3
<1> QED
  BY <1>1, <1>2, <1>3, <1>4, <1>5, <1>6, <1>7, <1>8, <1>9, <1>10, <1>11, <1>12,
     <1>13, <1>14, <1>15, <1>16, <1>17, <1>18
  DEF Next, Step, Startup

\* The counter stays below its bound, and above the queue but for the steps
\* named.
THEOREM QueueIsBounded == Spec => WaitersCounted
<1>1. SlotsInv /\ SlotsInv' /\ [Next]_vars =>
        [ /\ wait' <= MaxWait
          /\ Cardinality(Queued) <= wait /\ Cardinality(Queued') > wait' => Uncounted ]_vars
  <2> SUFFICES ASSUME SlotsInv, SlotsInv', Next
               PROVE  /\ wait' <= MaxWait
                      /\ Cardinality(Queued) <= wait /\ Cardinality(Queued') > wait' => Uncounted
    OBVIOUS
  <2>1. wait' <= MaxWait
    BY DEF SlotsInv, QueueInv
  <2>2. wait' \in Nat /\ Cardinality(Queued') \in Nat
    <3>1. Queued' \in SUBSET Requests
      BY DEF Queued
    <3> QED
      BY <3>1, SlotSetsAssumption, FS_Subset, FS_CardinalityType DEF SlotsInv, TypeOK
  <2> QED
    BY <2>1, <2>2, CountedStep
<1> QED
  BY SlotsInvariance, <1>1, PTL DEF Spec, WaitersCounted

-----------------------------------------------------------------------------
(* The limit. *)

\* The holders whose members have not expired are no more than those members.
LEMMA HoldersAreMembers ==
  ASSUME SlotsInv
  PROVE  LET H == {r \in Holding : slot[r] \in Live} IN
            /\ Cardinality(H) \in Nat /\ Cardinality(Live) \in Nat
            /\ Cardinality(H) <= Cardinality(Live)
<1> DEFINE H == {r \in Holding : slot[r] \in Live}
<1> DEFINE f == [r \in H |-> slot[r]]
<1>1. \A r \in H : slot[r] \in Live
  OBVIOUS
<1>2. \A r, q \in H : slot[r] = slot[q] => r = q
  BY SlotSetsAssumption DEF Holding, SlotsInv, HeldInv, TypeOK
<1>3. f \in Injection(H, Live)
  BY <1>1, <1>2 DEF Injection, IsInjective
<1>4. Live \in SUBSET Ids /\ H \in SUBSET Requests
  BY DEF Live, Holding, SlotsInv, TypeOK
<1>5. IsFiniteSet(Live) /\ IsFiniteSet(H)
  BY <1>4, SlotSetsAssumption, FS_Subset
<1>6. Cardinality(H) <= Cardinality(Live)
  BY <1>3, <1>5, FS_Injection
<1> QED
  BY <1>5, <1>6, FS_CardinalityType

\* A step after which only previous holders hold is a step of the semaphore.
LEMMA HoldersLeave ==
  ASSUME Holding' \subseteq Holding
  PROVE  [Limited!Next]_Holding
<1> DEFINE S == Holding \ Holding'
<1>1. S \in SUBSET Holding /\ Holding' = Holding \ S
  OBVIOUS
<1>2. CASE S = {}
  BY <1>1, <1>2
<1>3. CASE S # {}
  BY <1>1, <1>3 DEF Limited!Next, Limited!Leave
<1> QED
  BY <1>2, <1>3

\* Every step is a step of the semaphore or leaves the holders alone.
LEMMA SemaphoreStep ==
  ASSUME SlotsInv, Next
  PROVE  [Limited!Next]_Holding
<1> USE SlotSetsAssumption, SlotNumbersAssumption DEF SlotsInv, TypeOK, ControlInv
<1>1. ASSUME NEW r \in Requests, Begin(r) PROVE [Limited!Next]_Holding
  <2>1. Holding' \subseteq Holding
    BY <1>1 DEF Begin, Goto, redis, queue, Holding
  <2> QED
    BY <2>1, HoldersLeave
<1>2. ASSUME NEW r \in Requests, AcquireSlot(r) PROVE [Limited!Next]_Holding
  <2> DEFINE H == {q \in Holding : slot[q] \in Live}
  <2> DEFINE S == Holding \ H
  <2>1. r \notin Holding
    BY <1>2 DEF AcquireSlot, Holding
  <2>2. Holding' = H \cup {r}
    BY <1>2 DEF AcquireSlot, Live, Fresh, Add, Holding
  <2>3. Cardinality(H) < Limit
    BY <1>2, HoldersAreMembers DEF AcquireSlot, Room
  <2>4. Limited!Cardinality(H) = Cardinality(H)
    BY DEF Limited!Cardinality, Cardinality, Limited!IsFiniteSet, IsFiniteSet
  <2>5. H = Holding \ S /\ S \in SUBSET Holding
    OBVIOUS
  <2> HIDE DEF H, S
  <2>6. Limited!Enter(r, S)
    BY <2>1, <2>2, <2>3, <2>4, <2>5 DEF Limited!Enter
  <2> QED
    BY <2>5, <2>6 DEF Limited!Next
<1>3. ASSUME NEW r \in Requests, AcquireLost(r) PROVE [Limited!Next]_Holding
  <2>1. Holding' \subseteq Holding
    BY <1>3 DEF AcquireLost, Goto, Live, Fresh, Add, counter, queue, Holding
  <2> QED
    BY <2>1, HoldersLeave
<1>4. ASSUME NEW r \in Requests, AcquireRefused(r) PROVE [Limited!Next]_Holding
  <2>1. Holding' \subseteq Holding
    BY <1>4 DEF AcquireRefused, Goto, Live, Keep, counter, queue, Holding
  <2> QED
    BY <2>1, HoldersLeave
<1>5. ASSUME NEW r \in Requests, GiveUp(r) PROVE [Limited!Next]_Holding
  <2>1. Holding' \subseteq Holding
    BY <1>5 DEF GiveUp, Goto, redis, queue, Holding
  <2> QED
    BY <2>1, HoldersLeave
<1>6. ASSUME NEW r \in Requests, IncrementWaitCount(r) PROVE [Limited!Next]_Holding
  <2>1. Holding' \subseteq Holding
    BY <1>6 DEF IncrementWaitCount, Goto, Ran, sortedSet, Holding
  <2> QED
    BY <2>1, HoldersLeave
<1>7. ASSUME NEW r \in Requests, IncrementRefused(r) PROVE [Limited!Next]_Holding
  <2>1. Holding' \subseteq Holding
    BY <1>7 DEF IncrementRefused, Goto, redis, queue, Holding
  <2> QED
    BY <2>1, HoldersLeave
<1>8. ASSUME NEW r \in Requests, DecrementWaitCount(r) PROVE [Limited!Next]_Holding
  <2>1. Holding' \subseteq Holding
    BY <1>8 DEF DecrementWaitCount, Goto, AfterQueue, sortedSet, Holding
  <2> QED
    BY <2>1, HoldersLeave
<1>9. ASSUME NEW r \in Requests, DecrementFails(r) PROVE [Limited!Next]_Holding
  <2>1. Holding' \subseteq Holding
    BY <1>9 DEF DecrementFails, Goto, AfterQueue, redis, Holding
  <2> QED
    BY <2>1, HoldersLeave
<1>10. ASSUME NEW r \in Requests, ReleaseSlot(r) PROVE [Limited!Next]_Holding
  <2>1. Holding' \subseteq Holding
    BY <1>10 DEF ReleaseSlot, Goto, Keep, counter, queue, Holding
  <2> QED
    BY <2>1, HoldersLeave
<1>11. ASSUME NEW r \in Requests, ReleaseFails(r) PROVE [Limited!Next]_Holding
  <2>1. Holding' \subseteq Holding
    BY <1>11 DEF ReleaseFails, Goto, redis, queue, Holding
  <2> QED
    BY <2>1, HoldersLeave
<1>12. ASSUME NEW p \in Processes, Crash(p) PROVE [Limited!Next]_Holding
  <2>1. Holding' \subseteq Holding
    BY <1>12 DEF Crash, counter, Holding
  <2> QED
    BY <2>1, HoldersLeave
<1>13. ASSUME NEW p \in Processes, Start(p) PROVE [Limited!Next]_Holding
  <2>1. Holding' \subseteq Holding
    BY <1>13 DEF Start, redis, queue, Holding
  <2> QED
    BY <2>1, HoldersLeave
<1>14. ASSUME NEW p \in Processes, CleanSlots(p) PROVE [Limited!Next]_Holding
  <2>1. Holding' \subseteq Holding
    BY <1>14 DEF CleanSlots, Keep, counter, queue, Holding
  <2> QED
    BY <2>1, HoldersLeave
<1>15. ASSUME NEW p \in Processes, CleanWait(p) PROVE [Limited!Next]_Holding
  <2>1. Holding' \subseteq Holding
    BY <1>15 DEF CleanWait, sortedSet, queue, Holding
  <2> QED
    BY <2>1, HoldersLeave
<1>16. ASSUME NEW p \in Processes, CleanFails(p) PROVE [Limited!Next]_Holding
  <2>1. Holding' \subseteq Holding
    BY <1>16 DEF CleanFails, redis, queue, Holding
  <2> QED
    BY <2>1, HoldersLeave
<1>17. ASSUME CleanupExpiredSlots PROVE [Limited!Next]_Holding
  <2>1. Holding' \subseteq Holding
    BY <1>17 DEF CleanupExpiredSlots, Live, Keep, counter, queue, Holding
  <2> QED
    BY <2>1, HoldersLeave
<1>18. ASSUME Tick PROVE [Limited!Next]_Holding
  <2>1. Holding' \subseteq Holding
    BY <1>18 DEF Tick, Holding
  <2> QED
    BY <2>1, HoldersLeave
<1> QED
  BY <1>1, <1>2, <1>3, <1>4, <1>5, <1>6, <1>7, <1>8, <1>9, <1>10, <1>11, <1>12,
     <1>13, <1>14, <1>15, <1>16, <1>17, <1>18
  DEF Next, Step, Startup

\* All instances together implement the semaphore, for the holders that are in
\* the sorted set: the limit holds across lost answers, failing releases,
\* crashes, sweeps and restarts.
THEOREM LimitIsKept == Spec => SemaphoreSpec
<1>1. Init => Limited!Init
  BY SlotSetsAssumption DEF Init, Limited!Init, Holding
<1>2. SlotsInv /\ [Next]_vars => [Limited!Next]_Holding
  <2>1. CASE UNCHANGED vars
    BY <2>1 DEF vars, redis, Holding
  <2> QED
    BY <2>1, SemaphoreStep
<1> QED
  BY <1>1, <1>2, SlotsInvariance, PTL DEF Spec, SemaphoreSpec, Limited!Spec
=============================================================================
