---------------------- MODULE SchedulerSnapshotProofs ----------------------
(***************************************************************************)
(* Proofs about SchedulerSnapshot for any number of goroutines, keys,      *)
(* changes, events and crashes, and every choice of faults.                *)
(*                                                                         *)
(* Lists (VersionInv): from INCR to the activation a writer's key is its   *)
(* own, so a request that holds the active key reads what was whole when   *)
(* it was activated, or nothing.                                           *)
(* Events (EventInv, BatchInv): whatever a poller's batch no longer holds  *)
(* is handled; a rebuild of the batch reads after all its events, and      *)
(* published never falls.  The watermark may therefore go back and forth.  *)
(***************************************************************************)
EXTENDS SchedulerSnapshot, SequenceTheorems, TLAPS

\* Cutting the order of the newer writers at one of them.
LEMMA NewerTypes ==
  ASSUME newer \in Seq(Workers), NEW w \in Workers, Newer(w)
  PROVE  /\ After(w) \in Seq(Workers)
         /\ Before(w) \o After(w) \in Seq(Workers)
<1>1. Place(w) \in 1..Len(newer)
  BY DEF Newer, Place
<1>2. After(w) \in Seq(Workers)
  BY <1>1 DEF After
<1>3. Before(w) \in Seq(Workers)
  BY <1>1 DEF Before
<1> QED
  BY <1>2, <1>3

\* A goroutine that gives up keeps the types.
LEMMA QuitTypes ==
  ASSUME TypeOK, NEW w \in Workers, Quit(w)
  PROVE  /\ pc' \in [Workers -> Point]
         /\ copy' \in [Workers -> Generation \cup {None, Partial}]
         /\ key' \in [Workers -> Keys \cup {NoKey}]
         /\ list' \in [Keys -> Generation \cup {None, Partial}]
         /\ newer' \in Seq(Workers)
         /\ batch' \in [Workers -> SUBSET Event] /\ upto' \in [Workers -> 0..MaxEvent]
         /\ rebuilt' \in [Workers -> BOOLEAN]
<1> USE SnapshotBoundsAssumption DEF TypeOK, Quit, Goto, Hold, Point
<1>1. newer' \in Seq(Workers)
  BY NewerTypes
<1> QED
  BY <1>1

\* Going on to the next event keeps the types.
LEMMA NextEventTypes ==
  ASSUME TypeOK, NEW w \in Workers, NextEvent(w)
  PROVE  /\ pc' \in [Workers -> Point]
         /\ batch' \in [Workers -> SUBSET Event]
<1> USE DEF TypeOK, NextEvent, Goto, Point
<1>1. batch' \in [Workers -> SUBSET Event]
  OBVIOUS
<1> QED
  BY <1>1

\* Nothing is known at the start.
LEMMA SnapshotInitInv == Init => SnapshotInv
<1> SUFFICES ASSUME Init PROVE SnapshotInv
  OBVIOUS
<1> USE SnapshotBoundsAssumption, SnapshotNamesAssumption DEF Init, Point, Rebuilding, Writing
<1>1. TypeOK
  BY DEF TypeOK, Generation, None
<1>2. RoleInv
  BY DEF RoleInv
<1>3. VersionInv
  BY DEF VersionInv
<1>4. EventInv
  BY DEF EventInv
<1>5. BatchInv
  BY DEF BatchInv, BatchKept
<1> QED
  BY <1>1, <1>2, <1>3, <1>4, <1>5 DEF SnapshotInv

\* Every step keeps the types.
LEMMA SnapshotTypeStep == SnapshotInv /\ [Next]_vars => TypeOK'
<1> SUFFICES ASSUME SnapshotInv, [Next]_vars PROVE TypeOK'
  OBVIOUS
<1> USE SnapshotBoundsAssumption
    DEF SnapshotInv, TypeOK,
        constants, database, snapshot, poll, Point, Rebuilding, Writing, Generation, None
<1>1. ASSUME NEW w \in Workers, Change(w) PROVE TypeOK'
  BY <1>1 DEF Change, Goto, Gone
<1>2. ASSUME NEW w \in Workers, DeleteSnapshot(w) PROVE TypeOK'
  BY <1>2 DEF DeleteSnapshot, Goto
<1>3. ASSUME NEW w \in Workers, Enqueue(w) PROVE TypeOK'
  <2> DEFINE new == [id |-> lastId + 1, used |-> FALSE, since |-> now]
  <2>1. new \in Event /\ new.id = lastId + 1 /\ new.used = FALSE /\ new.since = now
    BY <1>3 DEF Enqueue, Event
  <2>2. outbox' = outbox \cup {new}
    BY <1>3 DEF Enqueue
  <2>3. lastId' \in 0..MaxEvent /\ watermark' \in 0..lastId'
    BY <1>3 DEF Enqueue
  <2> HIDE DEF new
  <2>4. outbox' \subseteq Event
    BY <2>1, <2>2
  <2> QED
    BY <1>3, <2>3, <2>4 DEF Enqueue, Goto
<1>4. ASSUME NEW w \in Workers, EnqueueSkipped(w) PROVE TypeOK'
  BY <1>4 DEF EnqueueSkipped, Goto
<1>5. ASSUME NEW w \in Workers, EnqueueLastUsed(w) PROVE TypeOK'
  <2> DEFINE new == [id |-> lastId + 1, used |-> TRUE, since |-> 0]
  <2>1. new \in Event /\ new.id = lastId + 1 /\ new.used = TRUE /\ new.since = 0
    BY <1>5 DEF EnqueueLastUsed, Event
  <2>2. outbox' = outbox \cup {new}
    BY <1>5 DEF EnqueueLastUsed
  <2>3. lastId' \in 0..MaxEvent /\ watermark' \in 0..lastId'
    BY <1>5 DEF EnqueueLastUsed
  <2> HIDE DEF new
  <2>4. outbox' \subseteq Event
    BY <2>1, <2>2
  <2> QED
    BY <1>5, <2>3, <2>4 DEF EnqueueLastUsed
<1>6. ASSUME NEW w \in Workers, SyncRead(w) PROVE TypeOK'
  BY <1>6 DEF SyncRead, Goto, Hold
<1>7. ASSUME NEW w \in Workers, SyncSkipped(w) PROVE TypeOK'
  BY <1>7 DEF SyncSkipped, Goto
<1>8. ASSUME NEW w \in Workers, SyncWrite(w) PROVE TypeOK'
  <2>1. copy[w] \in Generation
    BY <1>8 DEF SyncWrite, RoleInv, VersionInv, BatchInv, BatchKept, Workers, Event
  <2> QED
    BY <1>8, <2>1 DEF SyncWrite, Goto, Hold
<1>9. ASSUME NEW w \in Workers, FullRebuild(w) PROVE TypeOK'
  BY <1>9 DEF FullRebuild, Goto
<1>10. ASSUME NEW w \in Workers, TryLockBucket(w) PROVE TypeOK'
  BY <1>10 DEF TryLockBucket, Goto
<1>11. ASSUME NEW w \in Workers, Load(w) PROVE TypeOK'
  BY <1>11 DEF Load, Goto, Hold
<1>12. ASSUME NEW w \in Workers, Incr(w) PROVE TypeOK'
  <2>1. NewKey \in Keys
    BY <1>12 DEF Incr, NewKey, FreeKeys
  <2>2. Append(newer, w) \in Seq(Workers)
    OBVIOUS
  <2> QED
    BY <1>12, <2>1, <2>2 DEF Incr, Goto
<1>13. ASSUME NEW w \in Workers, WriteAccounts(w) PROVE TypeOK'
  <2>1. copy[w] \in Generation
    BY <1>13 DEF WriteAccounts, RoleInv, VersionInv, BatchInv, BatchKept, Workers, Event
  <2> QED
    BY <1>13, <2>1 DEF WriteAccounts, Goto
<1>14. ASSUME NEW w \in Workers, WriteList(w) PROVE TypeOK'
  BY <1>14 DEF WriteList, Goto
<1>15. ASSUME NEW w \in Workers, Activate(w) PROVE TypeOK'
  <2>1. copy[w] \in Generation /\ key[w] \in Keys
    BY <1>15 DEF Activate, RoleInv, VersionInv
  <2>2. newer' \in Seq(Workers)
    BY <1>15, NewerTypes DEF Activate
  <2>3. published' \in Generation \cup {None}
    BY <1>15, <2>1 DEF Activate
  <2>4. list' \in [Keys -> Generation \cup {None, Partial}] /\ active' \in Keys \cup {NoKey}
    BY <1>15, <2>1 DEF Activate
  <2>5. /\ pc' \in [Workers -> Point]
        /\ copy' \in [Workers -> Generation \cup {None, Partial}]
        /\ key' \in [Workers -> Keys \cup {NoKey}]
    BY <1>15 DEF Activate, Written, Goto, Hold
  <2> QED
    BY <1>15, <2>2, <2>3, <2>4, <2>5 DEF Activate
<1>16. ASSUME NEW w \in Workers, UnlockBucket(w) PROVE TypeOK'
  BY <1>16, NextEventTypes DEF UnlockBucket
<1>17. ASSUME NEW w \in Workers, BucketLocked(w) PROVE TypeOK'
  <2>1. {e.id : e \in batch[w]} \subseteq 1..MaxEvent
    BY DEF Event
  <2>2. NextEvent(w)
    BY <1>17 DEF BucketLocked
  <2>3. missed' \subseteq 1..MaxEvent
    BY <1>17, <2>1 DEF BucketLocked
  <2>4. rebuilt' \in [Workers -> BOOLEAN]
    BY <1>17 DEF BucketLocked
  <2> QED
    BY <1>17, <2>2, <2>3, <2>4, NextEventTypes DEF BucketLocked
<1>18. ASSUME NEW w \in Workers, RebuildFails(w) PROVE TypeOK'
  <2>1. Quit(w)
    BY <1>18 DEF RebuildFails
  <2> QED
    BY <1>18, <2>1, QuitTypes DEF RebuildFails
<1>19. ASSUME NEW w \in Workers, Poll(w) PROVE TypeOK'
  <2>1. PICK last \in outbox : upto' = [upto EXCEPT ![w] = last.id]
    BY <1>19 DEF Poll
  <2>2. last.id \in 0..MaxEvent
    BY DEF Event
  <2>3. batch' \in [Workers -> SUBSET Event]
    BY <1>19 DEF Poll
  <2> QED
    BY <1>19, <2>1, <2>2, <2>3 DEF Poll, Goto
<1>20. ASSUME NEW w \in Workers, ReadAccount(w) PROVE TypeOK'
  BY <1>20 DEF ReadAccount, Goto, Hold
<1>21. ASSUME NEW w \in Workers, SetAccount(w) PROVE TypeOK'
  <2>1. copy[w] \in Generation
    BY <1>21 DEF SetAccount, RoleInv
  <2>2. CASE rebuilt[w]
    BY <1>21, <2>1, <2>2, NextEventTypes DEF SetAccount, Hold
  <2>3. CASE ~rebuilt[w]
    BY <1>21, <2>1, <2>3 DEF SetAccount, Goto, Hold
  <2> QED
    BY <2>2, <2>3
<1>22. ASSUME NEW w \in Workers, SetUsed(w) PROVE TypeOK'
  <2>1. copy[w] \in Generation \cup {None}
    BY <1>22 DEF SetUsed, RoleInv
  <2> QED
    BY <1>22, <2>1, NextEventTypes DEF SetUsed, Hold
<1>23. ASSUME NEW w \in Workers, HandlingFails(w) PROVE TypeOK'
  <2>1. Quit(w)
    BY <1>23 DEF HandlingFails
  <2> QED
    BY <1>23, <2>1, QuitTypes DEF HandlingFails
<1>24. ASSUME NEW w \in Workers, SetOutboxWatermark(w) PROVE TypeOK'
  <2>1. upto[w] <= lastId
    BY <1>24 DEF SetOutboxWatermark, RoleInv, VersionInv, BatchInv, BatchKept, Workers, Event
  <2> QED
    BY <1>24, <2>1 DEF SetOutboxWatermark, Goto
<1>25. ASSUME NEW w \in Workers, GetActive(w) PROVE TypeOK'
  BY <1>25 DEF GetActive, Goto
<1>26. ASSUME NEW w \in Workers, ReadList(w) PROVE TypeOK'
  <2>1. key[w] \in Keys
    BY <1>26 DEF ReadList, RoleInv, VersionInv, BatchInv, BatchKept, Workers, Event
  <2> QED
    BY <1>26, <2>1 DEF ReadList, Goto, Hold
<1>27. ASSUME NEW w \in Workers, ReadMetadata(w) PROVE TypeOK'
  BY <1>27 DEF ReadMetadata, Goto, Hold
<1>28. ASSUME NEW w \in Workers, FallbackRefused(w) PROVE TypeOK'
  BY <1>28 DEF FallbackRefused, Goto
<1>29. ASSUME NEW k \in Keys, SnapshotExpires(k) PROVE TypeOK'
  BY <1>29 DEF SnapshotExpires
<1>30. ASSUME LockExpires PROVE TypeOK'
  BY <1>30 DEF LockExpires
<1>31. ASSUME Crash PROVE TypeOK'
  <2>1. PICK w \in Workers : Quit(w)
    BY <1>31 DEF Crash
  <2>2. crashes' \in 0..MaxCrashes
    BY <1>31 DEF Crash
  <2> QED
    BY <1>31, <2>1, <2>2, QuitTypes DEF Crash
<1>32. CASE UNCHANGED vars
  BY <1>32 DEF vars
<1> QED
  BY <1>1, <1>2, <1>3, <1>4, <1>5, <1>6, <1>7, <1>8, <1>9, <1>10, <1>11,
     <1>12, <1>13, <1>14, <1>15, <1>16, <1>17, <1>18, <1>19, <1>20, <1>21,
     <1>22, <1>23, <1>24, <1>25, <1>26, <1>27, <1>28, <1>29, <1>30, <1>31,
     <1>32
  DEF Next, Step

\* Every step keeps each role where it belongs.
LEMMA RoleStep == SnapshotInv /\ [Next]_vars => RoleInv'
<1> SUFFICES ASSUME SnapshotInv, [Next]_vars PROVE RoleInv'
  OBVIOUS
<1> USE PollersAssumption, SnapshotNamesAssumption, SnapshotBoundsAssumption
    DEF SnapshotInv, TypeOK, RoleInv,
        constants, database, snapshot, poll, Point, Rebuilding, Writing, Generation, None
<1>1. ASSUME NEW w \in Workers, Change(w) PROVE RoleInv'
  BY <1>1 DEF Change, Goto, Gone
<1>2. ASSUME NEW w \in Workers, DeleteSnapshot(w) PROVE RoleInv'
  BY <1>2 DEF DeleteSnapshot, Goto
<1>3. ASSUME NEW w \in Workers, Enqueue(w) PROVE RoleInv'
  BY <1>3 DEF Enqueue, Goto
<1>4. ASSUME NEW w \in Workers, EnqueueSkipped(w) PROVE RoleInv'
  BY <1>4 DEF EnqueueSkipped, Goto
<1>5. ASSUME NEW w \in Workers, EnqueueLastUsed(w) PROVE RoleInv'
  BY <1>5 DEF EnqueueLastUsed
<1>6. ASSUME NEW w \in Workers, SyncRead(w) PROVE RoleInv'
  BY <1>6 DEF SyncRead, Goto, Hold
<1>7. ASSUME NEW w \in Workers, SyncSkipped(w) PROVE RoleInv'
  BY <1>7 DEF SyncSkipped, Goto
<1>8. ASSUME NEW w \in Workers, SyncWrite(w) PROVE RoleInv'
  BY <1>8 DEF SyncWrite, Goto, Hold
<1>9. ASSUME NEW w \in Workers, FullRebuild(w) PROVE RoleInv'
  BY <1>9 DEF FullRebuild, Goto
<1>10. ASSUME NEW w \in Workers, TryLockBucket(w) PROVE RoleInv'
  BY <1>10 DEF TryLockBucket, Goto
<1>11. ASSUME NEW w \in Workers, Load(w) PROVE RoleInv'
  BY <1>11 DEF Load, Goto, Hold
<1>12. ASSUME NEW w \in Workers, Incr(w) PROVE RoleInv'
  BY <1>12 DEF Incr, Goto
<1>13. ASSUME NEW w \in Workers, WriteAccounts(w) PROVE RoleInv'
  BY <1>13 DEF WriteAccounts, Goto
<1>14. ASSUME NEW w \in Workers, WriteList(w) PROVE RoleInv'
  BY <1>14 DEF WriteList, Goto
<1>15. ASSUME NEW w \in Workers, Activate(w) PROVE RoleInv'
  BY <1>15 DEF Activate, Written, Goto, Hold
<1>16. ASSUME NEW w \in Workers, UnlockBucket(w) PROVE RoleInv'
  BY <1>16 DEF UnlockBucket, NextEvent, Goto
<1>17. ASSUME NEW w \in Workers, BucketLocked(w) PROVE RoleInv'
  BY <1>17 DEF BucketLocked, NextEvent, Goto
<1>18. ASSUME NEW w \in Workers, RebuildFails(w) PROVE RoleInv'
  BY <1>18 DEF RebuildFails, Quit, Goto, Hold
<1>19. ASSUME NEW w \in Workers, Poll(w) PROVE RoleInv'
  BY <1>19 DEF Poll, Goto
<1>20. ASSUME NEW w \in Workers, ReadAccount(w) PROVE RoleInv'
  BY <1>20 DEF ReadAccount, Goto, Hold
<1>21. ASSUME NEW w \in Workers, SetAccount(w) PROVE RoleInv'
  BY <1>21 DEF SetAccount, NextEvent, Goto, Hold
<1>22. ASSUME NEW w \in Workers, SetUsed(w) PROVE RoleInv'
  BY <1>22 DEF SetUsed, NextEvent, Goto, Hold
<1>23. ASSUME NEW w \in Workers, HandlingFails(w) PROVE RoleInv'
  BY <1>23 DEF HandlingFails, Quit, Goto, Hold
<1>24. ASSUME NEW w \in Workers, SetOutboxWatermark(w) PROVE RoleInv'
  BY <1>24 DEF SetOutboxWatermark, Goto
<1>25. ASSUME NEW w \in Workers, GetActive(w) PROVE RoleInv'
  BY <1>25 DEF GetActive, Goto
<1>26. ASSUME NEW w \in Workers, ReadList(w) PROVE RoleInv'
  <2>1. list[key[w]] \in Generation \cup {None}
    BY <1>26 DEF ReadList, VersionInv
  <2> QED
    BY <1>26, <2>1 DEF ReadList, Goto, Hold
<1>27. ASSUME NEW w \in Workers, ReadMetadata(w) PROVE RoleInv'
  BY <1>27 DEF ReadMetadata, Goto, Hold
<1>28. ASSUME NEW w \in Workers, FallbackRefused(w) PROVE RoleInv'
  BY <1>28 DEF FallbackRefused, Goto
<1>29. ASSUME NEW k \in Keys, SnapshotExpires(k) PROVE RoleInv'
  BY <1>29 DEF SnapshotExpires
<1>30. ASSUME LockExpires PROVE RoleInv'
  BY <1>30 DEF LockExpires
<1>31. ASSUME Crash PROVE RoleInv'
  BY <1>31 DEF Crash, Quit, Goto, Hold
<1>32. CASE UNCHANGED vars
  BY <1>32 DEF vars
<1> QED
  BY <1>1, <1>2, <1>3, <1>4, <1>5, <1>6, <1>7, <1>8, <1>9, <1>10, <1>11,
     <1>12, <1>13, <1>14, <1>15, <1>16, <1>17, <1>18, <1>19, <1>20, <1>21,
     <1>22, <1>23, <1>24, <1>25, <1>26, <1>27, <1>28, <1>29, <1>30, <1>31,
     <1>32
  DEF Next, Step

\* No step writes a list that is being read, or activates one in pieces.
LEMMA VersionStep == SnapshotInv /\ [Next]_vars => VersionInv'
<1> SUFFICES ASSUME SnapshotInv, [Next]_vars PROVE VersionInv'
  OBVIOUS
<1> USE PollersAssumption, SnapshotNamesAssumption, SnapshotBoundsAssumption
    DEF SnapshotInv, TypeOK, RoleInv, VersionInv,
        constants, database, snapshot, poll, Point, Rebuilding, Writing
<1>1. ASSUME NEW w \in Workers, Change(w) PROVE VersionInv'
  BY <1>1 DEF Change, Goto, Gone
<1>2. ASSUME NEW w \in Workers, DeleteSnapshot(w) PROVE VersionInv'
  BY <1>2 DEF DeleteSnapshot, Goto
<1>3. ASSUME NEW w \in Workers, Enqueue(w) PROVE VersionInv'
  BY <1>3 DEF Enqueue, Goto
<1>4. ASSUME NEW w \in Workers, EnqueueSkipped(w) PROVE VersionInv'
  BY <1>4 DEF EnqueueSkipped, Goto
<1>5. ASSUME NEW w \in Workers, EnqueueLastUsed(w) PROVE VersionInv'
  BY <1>5 DEF EnqueueLastUsed
<1>6. ASSUME NEW w \in Workers, SyncRead(w) PROVE VersionInv'
  BY <1>6 DEF SyncRead, Goto, Hold
<1>7. ASSUME NEW w \in Workers, SyncSkipped(w) PROVE VersionInv'
  BY <1>7 DEF SyncSkipped, Goto
<1>8. ASSUME NEW w \in Workers, SyncWrite(w) PROVE VersionInv'
  BY <1>8 DEF SyncWrite, Goto, Hold
<1>9. ASSUME NEW w \in Workers, FullRebuild(w) PROVE VersionInv'
  BY <1>9 DEF FullRebuild, Goto
<1>10. ASSUME NEW w \in Workers, TryLockBucket(w) PROVE VersionInv'
  BY <1>10 DEF TryLockBucket, Goto
<1>11. ASSUME NEW w \in Workers, Load(w) PROVE VersionInv'
  BY <1>11 DEF Load, Goto, Hold
<1>12. ASSUME NEW w \in Workers, Incr(w) PROVE VersionInv'
  <2>1. NewKey \in Keys \ {active} /\ \A v \in Workers : key[v] # NewKey
    BY <1>12 DEF Incr, NewKey, FreeKeys
  <2> QED
    BY <1>12, <2>1 DEF Incr, Goto
<1>13. ASSUME NEW w \in Workers, WriteAccounts(w) PROVE VersionInv'
  BY <1>13 DEF WriteAccounts, Goto
<1>14. ASSUME NEW w \in Workers, WriteList(w) PROVE VersionInv'
  BY <1>14 DEF WriteList, Goto
<1>15. ASSUME NEW w \in Workers, Activate(w) PROVE VersionInv'
  BY <1>15 DEF Activate, Written, Goto, Hold
<1>16. ASSUME NEW w \in Workers, UnlockBucket(w) PROVE VersionInv'
  BY <1>16 DEF UnlockBucket, NextEvent, Goto
<1>17. ASSUME NEW w \in Workers, BucketLocked(w) PROVE VersionInv'
  BY <1>17 DEF BucketLocked, NextEvent, Goto
<1>18. ASSUME NEW w \in Workers, RebuildFails(w) PROVE VersionInv'
  BY <1>18 DEF RebuildFails, Quit, Goto, Hold
<1>19. ASSUME NEW w \in Workers, Poll(w) PROVE VersionInv'
  BY <1>19 DEF Poll, Goto
<1>20. ASSUME NEW w \in Workers, ReadAccount(w) PROVE VersionInv'
  BY <1>20 DEF ReadAccount, Goto, Hold
<1>21. ASSUME NEW w \in Workers, SetAccount(w) PROVE VersionInv'
  BY <1>21 DEF SetAccount, NextEvent, Goto, Hold
<1>22. ASSUME NEW w \in Workers, SetUsed(w) PROVE VersionInv'
  BY <1>22 DEF SetUsed, NextEvent, Goto, Hold
<1>23. ASSUME NEW w \in Workers, HandlingFails(w) PROVE VersionInv'
  BY <1>23 DEF HandlingFails, Quit, Goto, Hold
<1>24. ASSUME NEW w \in Workers, SetOutboxWatermark(w) PROVE VersionInv'
  BY <1>24 DEF SetOutboxWatermark, Goto
<1>25. ASSUME NEW w \in Workers, GetActive(w) PROVE VersionInv'
  BY <1>25 DEF GetActive, Goto
<1>26. ASSUME NEW w \in Workers, ReadList(w) PROVE VersionInv'
  BY <1>26 DEF ReadList, Goto, Hold
<1>27. ASSUME NEW w \in Workers, ReadMetadata(w) PROVE VersionInv'
  BY <1>27 DEF ReadMetadata, Goto, Hold
<1>28. ASSUME NEW w \in Workers, FallbackRefused(w) PROVE VersionInv'
  BY <1>28 DEF FallbackRefused, Goto
<1>29. ASSUME NEW k \in Keys, SnapshotExpires(k) PROVE VersionInv'
  <2>1. PICK r \in Readers : key[r] = k /\ pc[r] = "range"
    BY <1>29 DEF SnapshotExpires
  <2>2. \A v \in Workers : pc[v] = "activate" => key[v] # k
    BY <2>1 DEF Workers
  <2> QED
    BY <1>29, <2>2 DEF SnapshotExpires, Generation, None
<1>30. ASSUME LockExpires PROVE VersionInv'
  BY <1>30 DEF LockExpires
<1>31. ASSUME Crash PROVE VersionInv'
  BY <1>31 DEF Crash, Quit, Goto, Hold
<1>32. CASE UNCHANGED vars
  BY <1>32 DEF vars
<1> QED
  BY <1>1, <1>2, <1>3, <1>4, <1>5, <1>6, <1>7, <1>8, <1>9, <1>10, <1>11,
     <1>12, <1>13, <1>14, <1>15, <1>16, <1>17, <1>18, <1>19, <1>20, <1>21,
     <1>22, <1>23, <1>24, <1>25, <1>26, <1>27, <1>28, <1>29, <1>30, <1>31,
     <1>32
  DEF Next, Step

\* No step moves the watermark past an event that is not handled.
LEMMA EventStep == SnapshotInv /\ [Next]_vars => EventInv'
<1> SUFFICES ASSUME SnapshotInv, [Next]_vars PROVE EventInv'
  OBVIOUS
<1> USE PollersAssumption, SnapshotNamesAssumption, SnapshotBoundsAssumption
    DEF SnapshotInv, TypeOK, RoleInv, EventInv, BatchInv, BatchKept, Handled, Event,
        constants, database, snapshot, poll, Point, Rebuilding, Writing,
        Generation, None
<1>1. ASSUME NEW w \in Workers, Change(w) PROVE EventInv'
  BY <1>1 DEF Change, Goto, Gone
<1>2. ASSUME NEW w \in Workers, DeleteSnapshot(w) PROVE EventInv'
  BY <1>2 DEF DeleteSnapshot, Goto
<1>3. ASSUME NEW w \in Workers, Enqueue(w) PROVE EventInv'
  <2> DEFINE new == [id |-> lastId + 1, used |-> FALSE, since |-> now]
  <2>1. new \in Event /\ new.id = lastId + 1 /\ new.used = FALSE /\ new.since = now
    BY <1>3 DEF Enqueue, Event
  <2>2. outbox' = outbox \cup {new} /\ lastId' = lastId + 1
    BY <1>3 DEF Enqueue
  <2> HIDE DEF new
  <2>3. UNCHANGED <<now, watermark, published, missed>>
    BY <1>3 DEF Enqueue
  <2>4. \A e \in outbox : e.id < new.id /\ Handled(e)' = Handled(e)
    BY <2>1, <2>3
  <2>5. \A e \in outbox' : e.id <= lastId' /\ e.since <= now'
    BY <2>1, <2>2, <2>3
  <2>6. \A e, f \in outbox' : e.id = f.id => e = f
    BY <2>1, <2>2, <2>4
  <2>7. \A e \in outbox' : e.id <= watermark' => Handled(e)'
    BY <2>1, <2>2, <2>3, <2>4
  <2> QED
    BY <2>5, <2>6, <2>7
<1>4. ASSUME NEW w \in Workers, EnqueueSkipped(w) PROVE EventInv'
  BY <1>4 DEF EnqueueSkipped, Goto
<1>5. ASSUME NEW w \in Workers, EnqueueLastUsed(w) PROVE EventInv'
  <2> DEFINE new == [id |-> lastId + 1, used |-> TRUE, since |-> 0]
  <2>1. new \in Event /\ new.id = lastId + 1 /\ new.used = TRUE /\ new.since = 0
    BY <1>5 DEF EnqueueLastUsed, Event
  <2>2. outbox' = outbox \cup {new} /\ lastId' = lastId + 1
    BY <1>5 DEF EnqueueLastUsed
  <2> HIDE DEF new
  <2>3. UNCHANGED <<now, watermark, published, missed>>
    BY <1>5 DEF EnqueueLastUsed
  <2>4. \A e \in outbox : e.id < new.id /\ Handled(e)' = Handled(e)
    BY <2>1, <2>3
  <2>5. \A e \in outbox' : e.id <= lastId' /\ e.since <= now'
    BY <2>1, <2>2, <2>3
  <2>6. \A e, f \in outbox' : e.id = f.id => e = f
    BY <2>1, <2>2, <2>4
  <2>7. \A e \in outbox' : e.id <= watermark' => Handled(e)'
    BY <2>1, <2>2, <2>3, <2>4
  <2> QED
    BY <2>5, <2>6, <2>7
<1>6. ASSUME NEW w \in Workers, SyncRead(w) PROVE EventInv'
  BY <1>6 DEF SyncRead, Goto, Hold
<1>7. ASSUME NEW w \in Workers, SyncSkipped(w) PROVE EventInv'
  BY <1>7 DEF SyncSkipped, Goto
<1>8. ASSUME NEW w \in Workers, SyncWrite(w) PROVE EventInv'
  BY <1>8 DEF SyncWrite, Goto, Hold
<1>9. ASSUME NEW w \in Workers, FullRebuild(w) PROVE EventInv'
  BY <1>9 DEF FullRebuild, Goto
<1>10. ASSUME NEW w \in Workers, TryLockBucket(w) PROVE EventInv'
  BY <1>10 DEF TryLockBucket, Goto
<1>11. ASSUME NEW w \in Workers, Load(w) PROVE EventInv'
  BY <1>11 DEF Load, Goto, Hold
<1>12. ASSUME NEW w \in Workers, Incr(w) PROVE EventInv'
  BY <1>12 DEF Incr, Goto
<1>13. ASSUME NEW w \in Workers, WriteAccounts(w) PROVE EventInv'
  BY <1>13 DEF WriteAccounts, Goto
<1>14. ASSUME NEW w \in Workers, WriteList(w) PROVE EventInv'
  BY <1>14 DEF WriteList, Goto
<1>15. ASSUME NEW w \in Workers, Activate(w) PROVE EventInv'
  BY <1>15 DEF Activate, Written, Goto, Hold
<1>16. ASSUME NEW w \in Workers, UnlockBucket(w) PROVE EventInv'
  BY <1>16 DEF UnlockBucket, NextEvent, Goto
<1>17. ASSUME NEW w \in Workers, BucketLocked(w) PROVE EventInv'
  BY <1>17 DEF BucketLocked, NextEvent, Goto
<1>18. ASSUME NEW w \in Workers, RebuildFails(w) PROVE EventInv'
  BY <1>18 DEF RebuildFails, Quit, Goto, Hold
<1>19. ASSUME NEW w \in Workers, Poll(w) PROVE EventInv'
  BY <1>19 DEF Poll, Goto
<1>20. ASSUME NEW w \in Workers, ReadAccount(w) PROVE EventInv'
  BY <1>20 DEF ReadAccount, Goto, Hold
<1>21. ASSUME NEW w \in Workers, SetAccount(w) PROVE EventInv'
  BY <1>21 DEF SetAccount, NextEvent, Goto, Hold
<1>22. ASSUME NEW w \in Workers, SetUsed(w) PROVE EventInv'
  BY <1>22 DEF SetUsed, NextEvent, Goto, Hold
<1>23. ASSUME NEW w \in Workers, HandlingFails(w) PROVE EventInv'
  BY <1>23 DEF HandlingFails, Quit, Goto, Hold
<1>24. ASSUME NEW w \in Workers, SetOutboxWatermark(w) PROVE EventInv'
  BY <1>24 DEF SetOutboxWatermark, Goto
<1>25. ASSUME NEW w \in Workers, GetActive(w) PROVE EventInv'
  BY <1>25 DEF GetActive, Goto
<1>26. ASSUME NEW w \in Workers, ReadList(w) PROVE EventInv'
  BY <1>26 DEF ReadList, Goto, Hold
<1>27. ASSUME NEW w \in Workers, ReadMetadata(w) PROVE EventInv'
  BY <1>27 DEF ReadMetadata, Goto, Hold
<1>28. ASSUME NEW w \in Workers, FallbackRefused(w) PROVE EventInv'
  BY <1>28 DEF FallbackRefused, Goto
<1>29. ASSUME NEW k \in Keys, SnapshotExpires(k) PROVE EventInv'
  BY <1>29 DEF SnapshotExpires
<1>30. ASSUME LockExpires PROVE EventInv'
  BY <1>30 DEF LockExpires
<1>31. ASSUME Crash PROVE EventInv'
  BY <1>31 DEF Crash, Quit, Goto, Hold
<1>32. CASE UNCHANGED vars
  BY <1>32 DEF vars
<1> QED
  BY <1>1, <1>2, <1>3, <1>4, <1>5, <1>6, <1>7, <1>8, <1>9, <1>10, <1>11,
     <1>12, <1>13, <1>14, <1>15, <1>16, <1>17, <1>18, <1>19, <1>20, <1>21,
     <1>22, <1>23, <1>24, <1>25, <1>26, <1>27, <1>28, <1>29, <1>30, <1>31,
     <1>32
  DEF Next, Step

\* No step drops an event of a batch unhandled.
LEMMA BatchStep == SnapshotInv /\ [Next]_vars => BatchInv'
<1> SUFFICES ASSUME SnapshotInv, [Next]_vars PROVE BatchInv'
  OBVIOUS
<1> USE PollersAssumption, SnapshotNamesAssumption, SnapshotBoundsAssumption
    DEF SnapshotInv, TypeOK, RoleInv, EventInv, BatchInv, BatchKept, Handled, Event,
        constants, database, snapshot, poll, Point, Rebuilding, Writing,
        Generation, None
<1>1. ASSUME NEW w \in Workers, Change(w) PROVE BatchInv'
  BY <1>1 DEF Change, Goto, Gone
<1>2. ASSUME NEW w \in Workers, DeleteSnapshot(w) PROVE BatchInv'
  BY <1>2 DEF DeleteSnapshot, Goto
<1>3. ASSUME NEW w \in Workers, Enqueue(w) PROVE BatchInv'
  BY <1>3 DEF Enqueue, Goto
<1>4. ASSUME NEW w \in Workers, EnqueueSkipped(w) PROVE BatchInv'
  BY <1>4 DEF EnqueueSkipped, Goto
<1>5. ASSUME NEW w \in Workers, EnqueueLastUsed(w) PROVE BatchInv'
  BY <1>5 DEF EnqueueLastUsed
<1>6. ASSUME NEW w \in Workers, SyncRead(w) PROVE BatchInv'
  BY <1>6 DEF SyncRead, Goto, Hold
<1>7. ASSUME NEW w \in Workers, SyncSkipped(w) PROVE BatchInv'
  BY <1>7 DEF SyncSkipped, Goto
<1>8. ASSUME NEW w \in Workers, SyncWrite(w) PROVE BatchInv'
  BY <1>8 DEF SyncWrite, Goto, Hold
<1>9. ASSUME NEW w \in Workers, FullRebuild(w) PROVE BatchInv'
  BY <1>9 DEF FullRebuild, Goto
<1>10. ASSUME NEW w \in Workers, TryLockBucket(w) PROVE BatchInv'
  BY <1>10 DEF TryLockBucket, Goto
<1>11. ASSUME NEW w \in Workers, Load(w) PROVE BatchInv'
  BY <1>11 DEF Load, Goto, Hold
<1>12. ASSUME NEW w \in Workers, Incr(w) PROVE BatchInv'
  BY <1>12 DEF Incr, Goto
<1>13. ASSUME NEW w \in Workers, WriteAccounts(w) PROVE BatchInv'
  BY <1>13 DEF WriteAccounts, Goto
<1>14. ASSUME NEW w \in Workers, WriteList(w) PROVE BatchInv'
  BY <1>14 DEF WriteList, Goto
<1>15. ASSUME NEW w \in Workers, Activate(w) PROVE BatchInv'
  BY <1>15 DEF Activate, Written, Goto, Hold
<1>16. ASSUME NEW w \in Workers, UnlockBucket(w) PROVE BatchInv'
  BY <1>16 DEF UnlockBucket, NextEvent, Goto
<1>17. ASSUME NEW w \in Workers, BucketLocked(w) PROVE BatchInv'
  BY <1>17 DEF BucketLocked, NextEvent, Goto
<1>18. ASSUME NEW w \in Workers, RebuildFails(w) PROVE BatchInv'
  BY <1>18 DEF RebuildFails, Quit, Goto, Hold
<1>19. ASSUME NEW w \in Workers, Poll(w) PROVE BatchInv'
  BY <1>19 DEF Poll, Goto
<1>20. ASSUME NEW w \in Workers, ReadAccount(w) PROVE BatchInv'
  <2> DEFINE First(e) == e \in batch[w] /\ \A f \in batch[w] : e.id <= f.id
  <2>1. \A e : First(e) => Current(w) = e
    <3> SUFFICES ASSUME NEW e, First(e) PROVE Current(w) = e
      OBVIOUS
    <3>1. Current(w) \in batch[w] /\ \A f \in batch[w] : Current(w).id <= f.id
      BY DEF Current
    <3>2. Current(w).id = e.id
      BY <3>1
    <3> QED
      BY <3>1, <3>2
  <2>2. pc'[w] = "setUsed" => \A e : First(e) => e.used
    BY <1>20, <2>1 DEF ReadAccount, Goto
  <2> HIDE DEF First
  <2>3. \A v \in Workers \ {w} : pc'[v] = pc[v] /\ copy'[v] = copy[v]
    BY <1>20 DEF ReadAccount, Goto, Hold
  <2>4. pc'[w] \in {"setUsed", "setAccount"} /\ pc[w] = "account"
    BY <1>20 DEF ReadAccount, Goto
  <2> QED
    BY <1>20, <2>2, <2>3, <2>4 DEF ReadAccount, First
<1>21. ASSUME NEW w \in Workers, SetAccount(w) PROVE BatchInv'
  <2>1. CASE rebuilt[w]
    <3>1. NextEvent(w) /\ w \in Pollers /\ pc[w] = "setAccount"
      BY <1>21, <2>1 DEF SetAccount
    <3>2. batch'[w] \subseteq batch[w]
      BY <3>1 DEF NextEvent
    <3>3. \/ pc'[w] = "watermark" /\ batch'[w] = {}
          \/ pc'[w] = "account"
      BY <3>1 DEF NextEvent, Goto
    <3>4. \A e \in batch[w] : Handled(e)
      BY <2>1, <3>1
    <3>5. \A v \in Workers \ {w} : pc'[v] = pc[v] /\ copy'[v] = copy[v] /\ batch'[v] = batch[v]
      BY <1>21, <3>1 DEF SetAccount, NextEvent, Goto, Hold
    <3>6. UNCHANGED <<outbox, lastId, upto, rebuilt, published, missed>>
      BY <1>21, <2>1 DEF SetAccount
    <3>7. \A v \in Workers \ {w} : BatchKept(v)'
      BY <3>5, <3>6
    <3>8. BatchKept(w)'
      BY <3>2, <3>3, <3>4, <3>6, <3>1
    <3> QED
      BY <3>7, <3>8
  <2>2. CASE ~rebuilt[w]
    BY <1>21, <2>2 DEF SetAccount, Goto, Hold
  <2> QED
    BY <2>1, <2>2
<1>22. ASSUME NEW w \in Workers, SetUsed(w) PROVE BatchInv'
  <2>1. NextEvent(w) /\ pc[w] = "setUsed"
    BY <1>22 DEF SetUsed
  <2>2. batch'[w] \subseteq batch[w] /\ \A e \in batch[w] : e \in batch'[w] \/ e.used
    BY <2>1 DEF NextEvent
  <2>3. \/ w \notin Pollers /\ pc'[w] = "idle"
        \/ pc'[w] = "watermark" /\ batch'[w] = {}
        \/ pc'[w] = "account"
    BY <2>1 DEF NextEvent, Goto
  <2>4. \A v \in Workers \ {w} : pc'[v] = pc[v] /\ copy'[v] = copy[v] /\ batch'[v] = batch[v]
    BY <1>22, <2>1 DEF SetUsed, NextEvent, Goto, Hold
  <2>5. UNCHANGED <<outbox, lastId, upto, rebuilt, published, missed>>
    BY <1>22 DEF SetUsed
  <2>6. \A v \in Workers \ {w} : BatchKept(v)'
    BY <2>4, <2>5
  <2>7. BatchKept(w)'
    BY <2>1, <2>2, <2>3, <2>5
  <2> QED
    BY <2>6, <2>7
<1>23. ASSUME NEW w \in Workers, HandlingFails(w) PROVE BatchInv'
  BY <1>23 DEF HandlingFails, Quit, Goto, Hold
<1>24. ASSUME NEW w \in Workers, SetOutboxWatermark(w) PROVE BatchInv'
  BY <1>24 DEF SetOutboxWatermark, Goto
<1>25. ASSUME NEW w \in Workers, GetActive(w) PROVE BatchInv'
  BY <1>25 DEF GetActive, Goto
<1>26. ASSUME NEW w \in Workers, ReadList(w) PROVE BatchInv'
  BY <1>26 DEF ReadList, Goto, Hold
<1>27. ASSUME NEW w \in Workers, ReadMetadata(w) PROVE BatchInv'
  BY <1>27 DEF ReadMetadata, Goto, Hold
<1>28. ASSUME NEW w \in Workers, FallbackRefused(w) PROVE BatchInv'
  BY <1>28 DEF FallbackRefused, Goto
<1>29. ASSUME NEW k \in Keys, SnapshotExpires(k) PROVE BatchInv'
  BY <1>29 DEF SnapshotExpires
<1>30. ASSUME LockExpires PROVE BatchInv'
  BY <1>30 DEF LockExpires
<1>31. ASSUME Crash PROVE BatchInv'
  BY <1>31 DEF Crash, Quit, Goto, Hold
<1>32. CASE UNCHANGED vars
  BY <1>32 DEF vars
<1> QED
  BY <1>1, <1>2, <1>3, <1>4, <1>5, <1>6, <1>7, <1>8, <1>9, <1>10, <1>11,
     <1>12, <1>13, <1>14, <1>15, <1>16, <1>17, <1>18, <1>19, <1>20, <1>21,
     <1>22, <1>23, <1>24, <1>25, <1>26, <1>27, <1>28, <1>29, <1>30, <1>31,
     <1>32
  DEF Next, Step

\* SnapshotInv holds in every reachable state.
THEOREM SnapshotInvariance == Spec => []SnapshotInv
<1>1. SnapshotInv /\ [Next]_vars => SnapshotInv'
  BY SnapshotTypeStep, RoleStep, VersionStep, EventStep, BatchStep DEF SnapshotInv
<1> QED
  BY SnapshotInitInv, <1>1, PTL DEF Spec

\* A request never chooses from a list that is only partly written.
THEOREM ListsReadWhole == Spec => []ListsAreWhole
<1>1. SnapshotInv => ListsAreWhole
  BY DEF SnapshotInv, RoleInv, ListsAreWhole, Workers, Point, Rebuilding, Writing
<1> QED
  BY SnapshotInvariance, <1>1, PTL

\* The watermark never passes an event whose change no snapshot has.
THEOREM EventsNotSkipped == Spec => []NoEventSkipped
<1>1. SnapshotInv => NoEventSkipped
  BY DEF SnapshotInv, EventInv, Handled, NoEventSkipped
<1> QED
  BY SnapshotInvariance, <1>1, PTL
=============================================================================
