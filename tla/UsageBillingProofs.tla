------------------------- MODULE UsageBillingProofs -------------------------
(***************************************************************************)
(* Proofs about UsageBilling for every set of tasks, any costs, quotas and *)
(* queue sizes, and all situations.                                        *)
(*                                                                         *)
(* BillingInv is the inductive invariant.  KeyInv carries the argument:    *)
(* the task whose row holds a key is the only one between its claim and    *)
(* its commit, and the key is then neither committed nor archived.  RowInv *)
(* says that what a quota's UPDATE returned still holds at the commit.     *)
(* CacheInv is the inductive invariant of the cached balance: DeductionInv *)
(* says that a charge owes its deduction once, wherever that waits, and    *)
(* LoadInv that a loaded balance newer than every charge and recharge is   *)
(* still the balance.  What is owed is a sum over a set of tasks: Total,   *)
(* shown to add up because a smallest finite set where it would not        *)
(* cannot exist.                                                           *)
(***************************************************************************)
EXTENDS UsageBilling, TLAPS, FiniteSetTheorems

\* The situation gives each task its id, fingerprint and cost.
LEMMA SituationTypes ==
  ASSUME DatabaseTypes
  PROVE  \A t \in Tasks : /\ Id(t) \in Ids \cup {None}
                          /\ Fingerprint(t) \in Fingerprints
                          /\ Cost(t) \in Costs /\ Cost(t) \in Nat /\ Cost(t) > 0
<1>1. PICK s \in Situations : s = [cast |-> cast, faults |-> faults]
  BY DEF DatabaseTypes
<1>2. cast \in [Tasks -> [id : Ids \cup {None}, print : Fingerprints, cost : Costs]]
  BY <1>1, BillingAssumption
<1>3. Costs \subseteq Nat \ {0}
  BY BillingAssumption
<1> SUFFICES ASSUME NEW t \in Tasks
             PROVE  /\ Id(t) \in Ids \cup {None}
                    /\ Fingerprint(t) \in Fingerprints
                    /\ Cost(t) \in Costs /\ Cost(t) \in Nat /\ Cost(t) > 0
  OBVIOUS
<1>4. cast[t] \in [id : Ids \cup {None}, print : Fingerprints, cost : Costs]
  BY <1>2
<1>5. cast[t].id \in Ids \cup {None} /\ cast[t].print \in Fingerprints /\ cast[t].cost \in Costs
  BY <1>4
<1>6. cast[t].cost \in Nat /\ cast[t].cost > 0
  <2>1. cast[t].cost \in Nat \ {0}
    BY <1>3, <1>5
  <2>2. \A n \in Nat \ {0} : n \in Nat /\ n > 0
    OBVIOUS
  <2> QED
    BY <2>1, <2>2
<1> QED
  BY <1>5, <1>6 DEF Id, Fingerprint, Cost

\* Every step keeps the types of the database and of the situation.
LEMMA DatabaseStep == BillingInv /\ [Next]_vars => DatabaseTypes'
<1> SUFFICES ASSUME BillingInv, [Next]_vars PROVE DatabaseTypes'
  OBVIOUS
<1> USE BillingAssumption
    DEF BillingInv, TypeOK, DatabaseTypes, KeyInv, InTransaction, situation,
        ledger, keys, pool, redis, queue, gate, loading
<1>1. ASSUME NEW t \in Tasks, Submit(t) PROVE DatabaseTypes'
  BY <1>1 DEF Submit, Goto, Queued
<1>2. ASSUME NEW t \in Tasks, Execute(t) PROVE DatabaseTypes'
  BY <1>2 DEF Execute, Goto
<1>3. ASSUME NEW t \in Tasks, Claim(t) PROVE DatabaseTypes'
  BY <1>3 DEF Claim, Goto
<1>4. ASSUME NEW t \in Tasks, CompareFingerprint(t) PROVE DatabaseTypes'
  BY <1>4 DEF CompareFingerprint, Goto
<1>5. ASSUME NEW t \in Tasks, CompareArchive(t) PROVE DatabaseTypes'
  BY <1>5 DEF CompareArchive, Goto
<1>6. ASSUME NEW t \in Tasks, ApplyUsageBillingEffects(t) PROVE DatabaseTypes'
  BY <1>6 DEF ApplyUsageBillingEffects, Goto
<1>7. ASSUME NEW t \in Tasks, Commit(t) PROVE DatabaseTypes'
  <2>1. Id(t) \in Ids /\ Fingerprint(t) \in Fingerprints /\ Cost(t) \in Nat
    BY <1>7, SituationTypes, BillingAssumption DEF Commit
  <2> QED
    BY <1>7, <2>1 DEF Commit, Charge, EnqueueEvent, Release, Goto
<1>8. ASSUME NEW t \in Tasks, CommitAnswerLost(t) PROVE DatabaseTypes'
  <2>1. Id(t) \in Ids /\ Fingerprint(t) \in Fingerprints /\ Cost(t) \in Nat
    BY <1>8, SituationTypes, BillingAssumption DEF CommitAnswerLost
  <2> QED
    BY <1>8, <2>1 DEF CommitAnswerLost, Charge, EnqueueEvent, Release, Goto
<1>9. ASSUME NEW t \in Tasks, Rollback(t) PROVE DatabaseTypes'
  BY <1>9 DEF Rollback, Release, Goto, RowInv, ProcessTypes
<1>10. ASSUME NEW t \in Tasks, InvalidateAuthCache(t) PROVE DatabaseTypes'
  BY <1>10 DEF InvalidateAuthCache, Goto
<1>11. ASSUME NEW t \in Tasks, CheckStopped(t) PROVE DatabaseTypes'
  BY <1>11 DEF CheckStopped, Goto
<1>12. ASSUME NEW t \in Tasks, Send(t) PROVE DatabaseTypes'
  BY <1>12 DEF Send, Goto, Room
<1>13. ASSUME NEW t \in Tasks, DeductBalanceCache(t) PROVE DatabaseTypes'
  BY <1>13 DEF DeductBalanceCache, DeductUserBalance, Goto
<1>14. ASSUME NEW w \in hands, CacheWrite(w) PROVE DatabaseTypes'
  BY <1>14 DEF CacheWrite, DeductUserBalance
<1>15. ASSUME NEW i \in Ids, CleanupUsageBillingDedup(i) PROVE DatabaseTypes'
  BY <1>15 DEF CleanupUsageBillingDedup
<1>16. CASE TakeWrite
  BY <1>16 DEF TakeWrite
<1>17. CASE QueueSetBalance
  BY <1>17 DEF QueueSetBalance
<1>18. CASE InvalidateUserBalance
  BY <1>18 DEF InvalidateUserBalance
<1>19. CASE CloseChannel
  BY <1>19 DEF CloseChannel
<1>20. CASE WorkersEnded
  BY <1>20 DEF WorkersEnded
<1>21. CASE Expire
  BY <1>21 DEF Expire
<1>22. CASE LoadBalance
  BY <1>22 DEF LoadBalance
<1>23. CASE TopUp
  BY <1>23 DEF TopUp
<1>24. CASE StopPool
  BY <1>24 DEF StopPool
<1>25. CASE Stop
  BY <1>25 DEF Stop
<1>26. CASE Crash
  BY <1>26 DEF Crash, RowInv
<1>27. CASE UNCHANGED vars
  BY <1>27 DEF vars
<1> QED
  BY <1>1, <1>2, <1>3, <1>4, <1>5, <1>6, <1>7, <1>8, <1>9, <1>10, <1>11,
     <1>12, <1>13, <1>14, <1>15, <1>16, <1>17, <1>18, <1>19, <1>20, <1>21,
     <1>22, <1>23, <1>24, <1>25, <1>26, <1>27
  DEF Next, TaskStep, CacheStep, StopStep

\* A send ends the task or goes on to the fallback, and touches the cache and
\* the queue only.
LEMMA SendEnds ==
  ASSUME NEW t \in Tasks, Send(t)
  PROVE  /\ pc[t] = "send"
         /\ \E p \in {"done", "panicked", "fallback"} : pc' = [pc EXCEPT ![t] = p]
         /\ UNCHANGED <<cast, faults, dedup, archive, claim, rows, balance, keyUsed, keyStatus,
                        accountUsed, events, poolStopped, crashed, told, crossed, stopped, chan>>
<1>1. /\ pc[t] = "send"
      /\ UNCHANGED <<cast, faults, dedup, archive, claim, rows, balance, keyUsed, keyStatus,
                     accountUsed, events, poolStopped, crashed, told, crossed, stopped, chan>>
  BY DEF Send, situation, ledger, keys, pool, gate
<1>2. \E p \in {"done", "panicked", "fallback"} : pc' = [pc EXCEPT ![t] = p]
  <2>1. CASE Room
    BY <2>1 DEF Send, Goto, Room
  <2>2. CASE ~Room /\ chan = "closed"
    BY <2>2 DEF Send, Goto
  <2>3. CASE ~Room /\ chan # "closed"
    BY <2>3 DEF Send, Goto
  <2> QED
    BY <2>1, <2>2, <2>3
<1> QED
  BY <1>1, <1>2

\* A step of one task that leaves the rows, the quotas and their crossing alone.
LEMMA RowQuiet ==
  ASSUME BillingInv, NEW t \in Tasks, NEW p \in PC, pc' = [pc EXCEPT ![t] = p],
         UNCHANGED <<cast, rows, crossed, told, keyUsed, accountUsed>>,
         pc[t] # "commit", p # "commit",
         p \in {"new", "queued", "claim", "select", "archive", "effects"} =>
            pc[t] \in {"new", "queued", "claim", "select", "archive", "effects"}
  PROVE  RowInv'
<1>1. /\ \A u \in Tasks : pc'[u] = "commit" <=> pc[u] = "commit"
      /\ \A u \in Tasks :
            pc'[u] \in {"new", "queued", "claim", "select", "archive", "effects"} =>
               pc[u] \in {"new", "queued", "claim", "select", "archive", "effects"}
  BY DEF BillingInv, TypeOK, ProcessTypes
<1> QED
  BY <1>1 DEF BillingInv, RowInv, Cost

\* Every step keeps a key with the one that inserted it.
LEMMA KeyStep == BillingInv /\ [Next]_vars => KeyInv'
<1> SUFFICES ASSUME BillingInv, [Next]_vars PROVE KeyInv'
  OBVIOUS
<1> USE BillingAssumption
    DEF BillingInv, TypeOK, DatabaseTypes, ProcessTypes, KeyInv, InTransaction,
        Over, Id, situation, ledger, keys, pool, redis, queue, gate, loading
<1>1. ASSUME NEW t \in Tasks, Submit(t) PROVE KeyInv'
  <2>1. PICK p \in PC : Goto(t, p)
    BY <1>1 DEF Submit, PC, Over
  <2>2. Id(t) \in Ids /\ pc[t] = "new" /\ UNCHANGED <<cast, archive, dedup, claim>>
    BY <1>1, SituationTypes DEF Submit
  <2>3. p \notin InTransaction
    BY <1>1, <2>1 DEF Submit, Goto
  <2> QED
    BY <2>1, <2>2, <2>3 DEF Goto
<1>2. ASSUME NEW t \in Tasks, Execute(t) PROVE KeyInv'
  BY <1>2 DEF Execute, Goto
<1>3. ASSUME NEW t \in Tasks, Claim(t) PROVE KeyInv'
  BY <1>3 DEF Claim, Goto
<1>4. ASSUME NEW t \in Tasks, CompareFingerprint(t) PROVE KeyInv'
  BY <1>4 DEF CompareFingerprint, Goto
<1>5. ASSUME NEW t \in Tasks, CompareArchive(t) PROVE KeyInv'
  BY <1>5 DEF CompareArchive, Goto
<1>6. ASSUME NEW t \in Tasks, ApplyUsageBillingEffects(t) PROVE KeyInv'
  BY <1>6 DEF ApplyUsageBillingEffects, Goto
<1>7. ASSUME NEW t \in Tasks, Commit(t) PROVE KeyInv'
  BY <1>7 DEF Commit, Charge, Release, Goto
<1>8. ASSUME NEW t \in Tasks, CommitAnswerLost(t) PROVE KeyInv'
  BY <1>8 DEF CommitAnswerLost, Charge, Release, Goto
<1>9. ASSUME NEW t \in Tasks, Rollback(t) PROVE KeyInv'
  BY <1>9 DEF Rollback, Release, Goto
<1>10. ASSUME NEW t \in Tasks, InvalidateAuthCache(t) PROVE KeyInv'
  BY <1>10 DEF InvalidateAuthCache, Goto
<1>11. ASSUME NEW t \in Tasks, CheckStopped(t) PROVE KeyInv'
  BY <1>11 DEF CheckStopped, Goto
<1>12. ASSUME NEW t \in Tasks, Send(t) PROVE KeyInv'
  BY <1>12, SendEnds
<1>13. ASSUME NEW t \in Tasks, DeductBalanceCache(t) PROVE KeyInv'
  BY <1>13 DEF DeductBalanceCache, DeductUserBalance, Goto
<1>14. ASSUME NEW w \in hands, CacheWrite(w) PROVE KeyInv'
  BY <1>14 DEF CacheWrite, DeductUserBalance
<1>15. ASSUME NEW i \in Ids, CleanupUsageBillingDedup(i) PROVE KeyInv'
  BY <1>15 DEF CleanupUsageBillingDedup
<1>16. CASE TakeWrite
  BY <1>16 DEF TakeWrite
<1>17. CASE QueueSetBalance
  BY <1>17 DEF QueueSetBalance
<1>18. CASE InvalidateUserBalance
  BY <1>18 DEF InvalidateUserBalance
<1>19. CASE CloseChannel
  BY <1>19 DEF CloseChannel
<1>20. CASE WorkersEnded
  BY <1>20 DEF WorkersEnded
<1>21. CASE Expire
  BY <1>21 DEF Expire
<1>22. CASE LoadBalance
  BY <1>22 DEF LoadBalance
<1>23. CASE TopUp
  BY <1>23 DEF TopUp
<1>24. CASE StopPool
  BY <1>24 DEF StopPool
<1>25. CASE Stop
  BY <1>25 DEF Stop
<1>26. CASE Crash
  BY <1>26 DEF Crash
<1>27. CASE UNCHANGED vars
  BY <1>27 DEF vars
<1> QED
  BY <1>1, <1>2, <1>3, <1>4, <1>5, <1>6, <1>7, <1>8, <1>9, <1>10, <1>11,
     <1>12, <1>13, <1>14, <1>15, <1>16, <1>17, <1>18, <1>19, <1>20, <1>21,
     <1>22, <1>23, <1>24, <1>25, <1>26, <1>27
  DEF Next, TaskStep, CacheStep, StopStep

\* The comparisons with a fingerprint end the task or go on to the effects.
LEMMA RowComparison ==
  ASSUME BillingInv, NEW t \in Tasks, CompareFingerprint(t) \/ CompareArchive(t)
  PROVE  RowInv'
<1>1. /\ pc[t] \in {"select", "archive"}
      /\ UNCHANGED <<cast, rows, crossed, told, keyUsed, accountUsed>>
  BY DEF CompareFingerprint, CompareArchive, situation, ledger, keys, pool
<1>2. CASE CompareFingerprint(t)
  <2>1. CASE dedup[Id(t)] = Fingerprint(t)
    <3>1. pc' = [pc EXCEPT ![t] = "done"] /\ "done" \in PC
      BY <1>2, <2>1 DEF CompareFingerprint, Goto, PC, Over
    <3> QED
      BY <1>1, <3>1, RowQuiet
  <2>2. CASE dedup[Id(t)] # Fingerprint(t)
    <3>1. pc' = [pc EXCEPT ![t] = "failed"] /\ "failed" \in PC
      BY <1>2, <2>2 DEF CompareFingerprint, Goto, PC, Over
    <3> QED
      BY <1>1, <3>1, RowQuiet
  <2> QED
    BY <2>1, <2>2
<1>3. CASE CompareArchive(t)
  <2>1. \E p \in {"effects", "done", "failed"} : pc' = [pc EXCEPT ![t] = p]
    <3>1. CASE archive[Id(t)] = None /\ archive[Id(t)] # Fingerprint(t)
      BY <1>3, <3>1 DEF CompareArchive, Goto
    <3>2. CASE archive[Id(t)] = Fingerprint(t) /\ archive[Id(t)] # None
      BY <1>3, <3>2 DEF CompareArchive, Goto
    <3>3. CASE archive[Id(t)] # None /\ archive[Id(t)] # Fingerprint(t)
      BY <1>3, <3>3 DEF CompareArchive, Goto
    <3>4. Fingerprint(t) \in Fingerprints /\ Fingerprint(t) # None
      BY SituationTypes, BillingAssumption DEF BillingInv, TypeOK
    <3> QED
      BY <3>1, <3>2, <3>3, <3>4
  <2>2. {"effects", "done", "failed"} \subseteq PC
    BY DEF PC, Over, InTransaction
  <2>3. PICK p \in {"effects", "done", "failed"} : pc' = [pc EXCEPT ![t] = p]
    BY <2>1
  <2>4. p \in PC /\ p # "commit" /\ pc[t] # "commit"
    BY <1>1, <2>2
  <2> QED
    BY <1>1, <2>3, <2>4, RowQuiet
<1> QED
  BY <1>2, <1>3

\* A send ends the task or goes on to the fallback.
LEMMA RowSend ==
  ASSUME BillingInv, NEW t \in Tasks, Send(t)
  PROVE  RowInv'
<1>1. PICK p \in {"done", "panicked", "fallback"} : pc' = [pc EXCEPT ![t] = p]
  BY SendEnds
<1>2. p \in PC /\ p # "commit"
  BY DEF PC, Over, Owing
<1>3. pc[t] = "send" /\ UNCHANGED <<cast, rows, crossed, told, keyUsed, accountUsed>>
  BY SendEnds
<1> QED
  BY <1>1, <1>2, <1>3, RowQuiet

\* Every step keeps the rows with the one that locked them.
LEMMA RowStep == BillingInv /\ [Next]_vars => RowInv'
<1> SUFFICES ASSUME BillingInv, [Next]_vars PROVE RowInv'
  OBVIOUS
<1> USE BillingAssumption
    DEF BillingInv, TypeOK, DatabaseTypes, ProcessTypes, RowInv, InTransaction,
        Over, Cost, situation, ledger, keys, pool, redis, queue, gate, loading
<1>1. ASSUME NEW t \in Tasks, Submit(t) PROVE RowInv'
  BY <1>1 DEF Submit, Goto, Queued
<1>2. ASSUME NEW t \in Tasks, Execute(t) PROVE RowInv'
  BY <1>2 DEF Execute, Goto
<1>3. ASSUME NEW t \in Tasks, Claim(t) PROVE RowInv'
  BY <1>3 DEF Claim, Goto
<1>4. ASSUME NEW t \in Tasks, CompareFingerprint(t) PROVE RowInv'
  BY <1>4, RowComparison DEF CompareFingerprint
<1>5. ASSUME NEW t \in Tasks, CompareArchive(t) PROVE RowInv'
  BY <1>5, RowComparison DEF CompareArchive
<1>6. ASSUME NEW t \in Tasks, ApplyUsageBillingEffects(t) PROVE RowInv'
  BY <1>6 DEF ApplyUsageBillingEffects, Goto
<1>7. ASSUME NEW t \in Tasks, Commit(t) PROVE RowInv'
  BY <1>7 DEF Commit, Charge, Release, Goto
<1>8. ASSUME NEW t \in Tasks, CommitAnswerLost(t) PROVE RowInv'
  BY <1>8 DEF CommitAnswerLost, Charge, Release, Goto
<1>9. ASSUME NEW t \in Tasks, Rollback(t) PROVE RowInv'
  BY <1>9 DEF Rollback, Release, Goto
<1>10. ASSUME NEW t \in Tasks, InvalidateAuthCache(t) PROVE RowInv'
  BY <1>10 DEF InvalidateAuthCache, Goto
<1>11. ASSUME NEW t \in Tasks, CheckStopped(t) PROVE RowInv'
  BY <1>11 DEF CheckStopped, Goto
<1>12. ASSUME NEW t \in Tasks, Send(t) PROVE RowInv'
  BY <1>12, RowSend
<1>13. ASSUME NEW t \in Tasks, DeductBalanceCache(t) PROVE RowInv'
  BY <1>13 DEF DeductBalanceCache, DeductUserBalance, Goto
<1>14. ASSUME NEW w \in hands, CacheWrite(w) PROVE RowInv'
  BY <1>14 DEF CacheWrite, DeductUserBalance
<1>15. ASSUME NEW i \in Ids, CleanupUsageBillingDedup(i) PROVE RowInv'
  BY <1>15 DEF CleanupUsageBillingDedup
<1>16. CASE TakeWrite
  BY <1>16 DEF TakeWrite
<1>17. CASE QueueSetBalance
  BY <1>17 DEF QueueSetBalance
<1>18. CASE InvalidateUserBalance
  BY <1>18 DEF InvalidateUserBalance
<1>19. CASE CloseChannel
  BY <1>19 DEF CloseChannel
<1>20. CASE WorkersEnded
  BY <1>20 DEF WorkersEnded
<1>21. CASE Expire
  BY <1>21 DEF Expire
<1>22. CASE LoadBalance
  BY <1>22 DEF LoadBalance
<1>23. CASE TopUp
  BY <1>23 DEF TopUp
<1>24. CASE StopPool
  BY <1>24 DEF StopPool
<1>25. CASE Stop
  BY <1>25 DEF Stop
<1>26. CASE Crash
  BY <1>26 DEF Crash
<1>27. CASE UNCHANGED vars
  BY <1>27 DEF vars
<1> QED
  BY <1>1, <1>2, <1>3, <1>4, <1>5, <1>6, <1>7, <1>8, <1>9, <1>10, <1>11,
     <1>12, <1>13, <1>14, <1>15, <1>16, <1>17, <1>18, <1>19, <1>20, <1>21,
     <1>22, <1>23, <1>24, <1>25, <1>26, <1>27
  DEF Next, TaskStep, CacheStep, StopStep

\* Every step keeps the quota crossed by one charge.
LEMMA CrossStep == BillingInv /\ [Next]_vars => CrossInv'
<1> SUFFICES ASSUME BillingInv, [Next]_vars PROVE CrossInv'
  OBVIOUS
<1> USE BillingAssumption
    DEF BillingInv, TypeOK, DatabaseTypes, ProcessTypes, RowInv, CrossInv,
        InTransaction, Over, situation, ledger, keys, pool, redis, queue, gate,
        loading
<1>1. ASSUME NEW t \in Tasks, Submit(t) PROVE CrossInv'
  BY <1>1 DEF Submit, Goto, Queued
<1>2. ASSUME NEW t \in Tasks, Execute(t) PROVE CrossInv'
  BY <1>2 DEF Execute, Goto
<1>3. ASSUME NEW t \in Tasks, Claim(t) PROVE CrossInv'
  BY <1>3 DEF Claim, Goto
<1>4. ASSUME NEW t \in Tasks, CompareFingerprint(t) PROVE CrossInv'
  BY <1>4 DEF CompareFingerprint, Goto
<1>5. ASSUME NEW t \in Tasks, CompareArchive(t) PROVE CrossInv'
  BY <1>5 DEF CompareArchive, Goto
<1>6. ASSUME NEW t \in Tasks, ApplyUsageBillingEffects(t) PROVE CrossInv'
  <2>1. Cost(t) \in Nat /\ Cost(t) > 0 /\ KeyQuota \in Nat
    BY SituationTypes, BillingAssumption
  <2> QED
    BY <1>6, <2>1 DEF ApplyUsageBillingEffects, Goto, Crosses
<1>7. ASSUME NEW t \in Tasks, Commit(t) PROVE CrossInv'
  <2>1. Cost(t) \in Nat /\ Cost(t) > 0 /\ KeyQuota \in Nat
    BY SituationTypes, BillingAssumption
  <2>2. rows = t /\ (t \in crossed["key"] => keyUsed + Cost(t) >= KeyQuota)
    BY <1>7, <2>1 DEF Commit, Crosses
  <2>3. crossed' = crossed /\ keyUsed' = keyUsed + Cost(t)
    BY <1>7 DEF Commit, Charge, Release, Goto
  <2> QED
    BY <2>1, <2>2, <2>3
<1>8. ASSUME NEW t \in Tasks, CommitAnswerLost(t) PROVE CrossInv'
  <2>1. Cost(t) \in Nat /\ Cost(t) > 0 /\ KeyQuota \in Nat
    BY SituationTypes, BillingAssumption
  <2>2. rows = t /\ (t \in crossed["key"] => keyUsed + Cost(t) >= KeyQuota)
    BY <1>8, <2>1 DEF CommitAnswerLost, Crosses
  <2>3. crossed' = crossed /\ keyUsed' = keyUsed + Cost(t)
    BY <1>8 DEF CommitAnswerLost, Charge, Release, Goto
  <2> QED
    BY <2>1, <2>2, <2>3
<1>9. ASSUME NEW t \in Tasks, Rollback(t) PROVE CrossInv'
  BY <1>9 DEF Rollback, Release, Goto
<1>10. ASSUME NEW t \in Tasks, InvalidateAuthCache(t) PROVE CrossInv'
  BY <1>10 DEF InvalidateAuthCache, Goto
<1>11. ASSUME NEW t \in Tasks, CheckStopped(t) PROVE CrossInv'
  BY <1>11 DEF CheckStopped, Goto
<1>12. ASSUME NEW t \in Tasks, Send(t) PROVE CrossInv'
  BY <1>12, SendEnds
<1>13. ASSUME NEW t \in Tasks, DeductBalanceCache(t) PROVE CrossInv'
  BY <1>13 DEF DeductBalanceCache, DeductUserBalance, Goto
<1>14. ASSUME NEW w \in hands, CacheWrite(w) PROVE CrossInv'
  BY <1>14 DEF CacheWrite, DeductUserBalance
<1>15. ASSUME NEW i \in Ids, CleanupUsageBillingDedup(i) PROVE CrossInv'
  BY <1>15 DEF CleanupUsageBillingDedup
<1>16. CASE TakeWrite
  BY <1>16 DEF TakeWrite
<1>17. CASE QueueSetBalance
  BY <1>17 DEF QueueSetBalance
<1>18. CASE InvalidateUserBalance
  BY <1>18 DEF InvalidateUserBalance
<1>19. CASE CloseChannel
  BY <1>19 DEF CloseChannel
<1>20. CASE WorkersEnded
  BY <1>20 DEF WorkersEnded
<1>21. CASE Expire
  BY <1>21 DEF Expire
<1>22. CASE LoadBalance
  BY <1>22 DEF LoadBalance
<1>23. CASE TopUp
  BY <1>23 DEF TopUp
<1>24. CASE StopPool
  BY <1>24 DEF StopPool
<1>25. CASE Stop
  BY <1>25 DEF Stop
<1>26. CASE Crash
  BY <1>26 DEF Crash
<1>27. CASE UNCHANGED vars
  BY <1>27 DEF vars
<1> QED
  BY <1>1, <1>2, <1>3, <1>4, <1>5, <1>6, <1>7, <1>8, <1>9, <1>10, <1>11,
     <1>12, <1>13, <1>14, <1>15, <1>16, <1>17, <1>18, <1>19, <1>20, <1>21,
     <1>22, <1>23, <1>24, <1>25, <1>26, <1>27
  DEF Next, TaskStep, CacheStep, StopStep

\* Every step keeps the fingerprints of what is done.
LEMMA DoneStep == BillingInv /\ [Next]_vars => DoneIsCharged'
<1> SUFFICES ASSUME BillingInv, [Next]_vars PROVE DoneIsCharged'
  OBVIOUS
<1> USE BillingAssumption
    DEF BillingInv, TypeOK, DatabaseTypes, ProcessTypes, KeyInv, DoneIsCharged,
        InTransaction, Over, Owing, Id, Fingerprint, situation, ledger, keys,
        pool, redis, queue, gate, loading
<1>1. ASSUME NEW t \in Tasks, Submit(t) PROVE DoneIsCharged'
  BY <1>1 DEF Submit, Goto, Queued
<1>2. ASSUME NEW t \in Tasks, Execute(t) PROVE DoneIsCharged'
  BY <1>2 DEF Execute, Goto
<1>3. ASSUME NEW t \in Tasks, Claim(t) PROVE DoneIsCharged'
  BY <1>3 DEF Claim, Goto
<1>4. ASSUME NEW t \in Tasks, CompareFingerprint(t) PROVE DoneIsCharged'
  BY <1>4 DEF CompareFingerprint, Goto
<1>5. ASSUME NEW t \in Tasks, CompareArchive(t) PROVE DoneIsCharged'
  BY <1>5 DEF CompareArchive, Goto
<1>6. ASSUME NEW t \in Tasks, ApplyUsageBillingEffects(t) PROVE DoneIsCharged'
  BY <1>6 DEF ApplyUsageBillingEffects, Goto
<1>7. ASSUME NEW t \in Tasks, Commit(t) PROVE DoneIsCharged'
  BY <1>7 DEF Commit, Charge, Release, Goto
<1>8. ASSUME NEW t \in Tasks, CommitAnswerLost(t) PROVE DoneIsCharged'
  BY <1>8 DEF CommitAnswerLost, Charge, Release, Goto
<1>9. ASSUME NEW t \in Tasks, Rollback(t) PROVE DoneIsCharged'
  BY <1>9 DEF Rollback, Release, Goto
<1>10. ASSUME NEW t \in Tasks, InvalidateAuthCache(t) PROVE DoneIsCharged'
  BY <1>10 DEF InvalidateAuthCache, Goto
<1>11. ASSUME NEW t \in Tasks, CheckStopped(t) PROVE DoneIsCharged'
  BY <1>11 DEF CheckStopped, Goto
<1>12. ASSUME NEW t \in Tasks, Send(t) PROVE DoneIsCharged'
  <2>1. pc[t] \in Owing /\ UNCHANGED <<cast, dedup, archive>>
    BY <1>12, SendEnds
  <2>2. \A u \in Tasks : u # t => pc'[u] = pc[u]
    BY <1>12, SendEnds
  <2>3. ASSUME NEW u \in Tasks, pc'[u] \in Owing \cup {"done", "panicked"}
        PROVE  Fingerprint(u)' \in {dedup[Id(u)], archive[Id(u)]}'
    <3>1. pc[u] \in Owing \cup {"done", "panicked"}
      BY <2>1, <2>2, <2>3
    <3> QED
      BY <2>1, <3>1
  <2> QED
    BY <2>3
<1>13. ASSUME NEW t \in Tasks, DeductBalanceCache(t) PROVE DoneIsCharged'
  BY <1>13 DEF DeductBalanceCache, DeductUserBalance, Goto
<1>14. ASSUME NEW w \in hands, CacheWrite(w) PROVE DoneIsCharged'
  BY <1>14 DEF CacheWrite, DeductUserBalance
<1>15. ASSUME NEW i \in Ids, CleanupUsageBillingDedup(i) PROVE DoneIsCharged'
  BY <1>15 DEF CleanupUsageBillingDedup
<1>16. CASE TakeWrite
  BY <1>16 DEF TakeWrite
<1>17. CASE QueueSetBalance
  BY <1>17 DEF QueueSetBalance
<1>18. CASE InvalidateUserBalance
  BY <1>18 DEF InvalidateUserBalance
<1>19. CASE CloseChannel
  BY <1>19 DEF CloseChannel
<1>20. CASE WorkersEnded
  BY <1>20 DEF WorkersEnded
<1>21. CASE Expire
  BY <1>21 DEF Expire
<1>22. CASE LoadBalance
  BY <1>22 DEF LoadBalance
<1>23. CASE TopUp
  BY <1>23 DEF TopUp
<1>24. CASE StopPool
  BY <1>24 DEF StopPool
<1>25. CASE Stop
  BY <1>25 DEF Stop
<1>26. CASE Crash
  BY <1>26 DEF Crash
<1>27. CASE UNCHANGED vars
  BY <1>27 DEF vars
<1> QED
  BY <1>1, <1>2, <1>3, <1>4, <1>5, <1>6, <1>7, <1>8, <1>9, <1>10, <1>11,
     <1>12, <1>13, <1>14, <1>15, <1>16, <1>17, <1>18, <1>19, <1>20, <1>21,
     <1>22, <1>23, <1>24, <1>25, <1>26, <1>27
  DEF Next, TaskStep, CacheStep, StopStep

\* A deduction leaves a number, or nothing.
LEMMA DeductTypes ==
  ASSUME BillingInv
  PROVE  \A t \in Tasks : DeductUserBalance(t) => cache' = None \/ cache' \in Int
<1> SUFFICES ASSUME NEW t \in Tasks, DeductUserBalance(t)
             PROVE  cache' = None \/ cache' \in Int
  OBVIOUS
<1>1. Cost(t) \in Nat
  BY SituationTypes DEF BillingInv, TypeOK
<1>2. PICK n \in 0..2 : cache' = IF cache = None THEN None ELSE cache - n * Cost(t)
  BY DEF DeductUserBalance
<1>3. n * Cost(t) \in Nat
  <2>1. n = 0 \/ n = 1 \/ n = 2
    OBVIOUS
  <2>2. 0 * Cost(t) = 0 /\ 1 * Cost(t) = Cost(t) /\ 2 * Cost(t) = Cost(t) + Cost(t)
    BY <1>1
  <2> QED
    BY <1>1, <2>1, <2>2
<1> QED
  BY <1>2, <1>3 DEF BillingInv, TypeOK, ProcessTypes

\* Every step keeps the types of the process and of its queue.
LEMMA ProcessStep == BillingInv /\ [Next]_vars => ProcessTypes'
<1> SUFFICES ASSUME BillingInv, [Next]_vars PROVE ProcessTypes'
  OBVIOUS
<1> USE BillingAssumption
    DEF BillingInv, TypeOK, ProcessTypes, PC, InTransaction, Owing, Over,
        situation, ledger, keys, pool, redis, queue, gate, loading
<1>1. ASSUME NEW t \in Tasks, Submit(t) PROVE ProcessTypes'
  BY <1>1 DEF Submit, Goto
<1>2. ASSUME NEW t \in Tasks, Execute(t) PROVE ProcessTypes'
  BY <1>2 DEF Execute, Goto
<1>3. ASSUME NEW t \in Tasks, Claim(t) PROVE ProcessTypes'
  BY <1>3 DEF Claim, Goto
<1>4. ASSUME NEW t \in Tasks, CompareFingerprint(t) PROVE ProcessTypes'
  BY <1>4 DEF CompareFingerprint, Goto
<1>5. ASSUME NEW t \in Tasks, CompareArchive(t) PROVE ProcessTypes'
  BY <1>5 DEF CompareArchive, Goto
<1>6. ASSUME NEW t \in Tasks, ApplyUsageBillingEffects(t) PROVE ProcessTypes'
  BY <1>6 DEF ApplyUsageBillingEffects, Goto
<1>7. ASSUME NEW t \in Tasks, Commit(t) PROVE ProcessTypes'
  BY <1>7 DEF Commit, Charge, Release, Goto
<1>8. ASSUME NEW t \in Tasks, CommitAnswerLost(t) PROVE ProcessTypes'
  BY <1>8 DEF CommitAnswerLost, Charge, Release, Goto
<1>9. ASSUME NEW t \in Tasks, Rollback(t) PROVE ProcessTypes'
  BY <1>9 DEF Rollback, Release, Goto
<1>10. ASSUME NEW t \in Tasks, InvalidateAuthCache(t) PROVE ProcessTypes'
  BY <1>10 DEF InvalidateAuthCache, Goto
<1>11. ASSUME NEW t \in Tasks, CheckStopped(t) PROVE ProcessTypes'
  BY <1>11 DEF CheckStopped, Goto
<1>12. ASSUME NEW t \in Tasks, Send(t) PROVE ProcessTypes'
  <2>1. Deduct(t) \in Write
    BY DEF Write
  <2>2. CASE Room
    <3>1. writes' = Append(writes, Deduct(t)) /\ Len(writes) < WriteQueue
      BY <1>12, <2>2 DEF Send, Room
    <3>2. writes' \in Seq(Write) /\ Len(writes') <= WriteQueue
      BY <2>1, <3>1
    <3> QED
      BY <1>12, <2>2, <3>2 DEF Send, Goto
  <2>3. CASE ~Room
    BY <1>12, <2>3 DEF Send, Goto
  <2> QED
    BY <2>2, <2>3
<1>13. ASSUME NEW t \in Tasks, DeductBalanceCache(t) PROVE ProcessTypes'
  <2>1. cache' = None \/ cache' \in Int
    BY <1>13, DeductTypes DEF DeductBalanceCache, DatabaseTypes
  <2>2. clean' \in BOOLEAN /\ UNCHANGED outdated
    BY <1>13 DEF DeductBalanceCache, DeductUserBalance
  <2> QED
    BY <1>13, <2>1, <2>2 DEF DeductBalanceCache, Goto
<1>14. ASSUME NEW w \in hands, CacheWrite(w) PROVE ProcessTypes'
  <2>1. hands' \subseteq Write /\ IsFiniteSet(hands') /\ Cardinality(hands') <= WriteWorkers
    <3>1. hands' = hands \ {w}
      BY <1>14 DEF CacheWrite
    <3>2. IsFiniteSet(hands \ {w}) /\ Cardinality(hands \ {w}) = Cardinality(hands) - 1
      BY FS_RemoveElement, <1>14
    <3>3. Cardinality(hands) \in Nat /\ WriteWorkers \in Nat
      BY FS_CardinalityType
    <3> QED
      BY <3>1, <3>2, <3>3
  <2>2. cache' = None \/ cache' \in Int
    <3>1. CASE w.kind = "deduct"
      <4>1. w.by \in Tasks
        BY <3>1 DEF Write, Deduct
      <4>2. DeductUserBalance(w.by)
        BY <1>14, <3>1 DEF CacheWrite
      <4> QED
        BY <4>1, <4>2, DeductTypes
    <3>2. CASE w.kind = "set"
      <4>1. w.amount \in Int
        BY <3>2 DEF Write, Deduct
      <4> QED
        BY <1>14, <3>2, <4>1 DEF CacheWrite
    <3> QED
      BY <1>14, <3>1, <3>2 DEF CacheWrite
  <2>3. clean' \in BOOLEAN /\ outdated' \in BOOLEAN
    <3>1. CASE DeductUserBalance(w.by)
      BY <3>1 DEF DeductUserBalance
    <3>2. CASE clean' = (w.by > past) /\ UNCHANGED outdated
      BY <3>2
    <3>3. CASE UNCHANGED redis
      BY <3>3
    <3> QED
      BY <1>14, <3>1, <3>2, <3>3 DEF CacheWrite
  <2> QED
    BY <1>14, <2>1, <2>2, <2>3 DEF CacheWrite
<1>15. ASSUME NEW i \in Ids, CleanupUsageBillingDedup(i) PROVE ProcessTypes'
  BY <1>15 DEF CleanupUsageBillingDedup
<1>16. CASE TakeWrite
  <2>1. Head(writes) \in Write /\ Tail(writes) \in Seq(Write) /\ Len(Tail(writes)) = Len(writes) - 1
    BY <1>16 DEF TakeWrite
  <2>2. hands' \subseteq Write /\ IsFiniteSet(hands') /\ Cardinality(hands') <= WriteWorkers
    <3>1. hands' = hands \cup {Head(writes)} /\ Cardinality(hands) < WriteWorkers
      BY <1>16 DEF TakeWrite
    <3>2. /\ IsFiniteSet(hands \cup {Head(writes)})
          /\ Cardinality(hands \cup {Head(writes)}) =
               IF Head(writes) \in hands THEN Cardinality(hands) ELSE Cardinality(hands) + 1
      BY FS_AddElement
    <3>3. Cardinality(hands) \in Nat /\ WriteWorkers \in Nat
      BY FS_CardinalityType
    <3> QED
      BY <2>1, <3>1, <3>2, <3>3
  <2> QED
    BY <1>16, <2>1, <2>2 DEF TakeWrite
<1>17. CASE QueueSetBalance
  <2>1. load \in Write
    BY <1>17 DEF QueueSetBalance
  <2>2. CASE Room /\ ~stopped
    <3>1. writes' = Append(writes, load) /\ Len(writes) < WriteQueue
      BY <1>17, <2>2 DEF QueueSetBalance, Room
    <3>2. writes' \in Seq(Write) /\ Len(writes') <= WriteQueue
      BY <2>1, <3>1
    <3> QED
      BY <1>17, <3>2 DEF QueueSetBalance
  <2>3. CASE ~(Room /\ ~stopped)
    BY <1>17, <2>3 DEF QueueSetBalance
  <2> QED
    BY <2>2, <2>3
<1>18. CASE InvalidateUserBalance
  BY <1>18 DEF InvalidateUserBalance
<1>19. CASE CloseChannel
  BY <1>19 DEF CloseChannel
<1>20. CASE WorkersEnded
  BY <1>20 DEF WorkersEnded
<1>21. CASE Expire
  BY <1>21 DEF Expire
<1>22. CASE LoadBalance
  <2>1. load' \in Write /\ loads' \in 0..MaxLoads /\ past' \in 0..loads'
    BY <1>22 DEF LoadBalance, DatabaseTypes, Write
  <2> QED
    BY <1>22, <2>1 DEF LoadBalance
<1>23. CASE TopUp
  BY <1>23 DEF TopUp
<1>24. CASE StopPool
  BY <1>24 DEF StopPool
<1>25. CASE Stop
  BY <1>25 DEF Stop
<1>26. CASE Crash
  <2>1. writes' \in Seq(Write) /\ Len(writes') <= WriteQueue /\ hands' \subseteq Write
        /\ IsFiniteSet(hands') /\ Cardinality(hands') <= WriteWorkers
    BY <1>26, FS_EmptySet DEF Crash
  <2> QED
    BY <1>26, <2>1 DEF Crash
<1>27. CASE UNCHANGED vars
  BY <1>27 DEF vars
<1> QED
  BY <1>1, <1>2, <1>3, <1>4, <1>5, <1>6, <1>7, <1>8, <1>9, <1>10, <1>11,
     <1>12, <1>13, <1>14, <1>15, <1>16, <1>17, <1>18, <1>19, <1>20, <1>21,
     <1>22, <1>23, <1>24, <1>25, <1>26, <1>27
  DEF Next, TaskStep, CacheStep, StopStep

\* Nothing is charged, queued or locked at the start.
LEMMA BillingInit == Init => BillingInv
<1> SUFFICES ASSUME Init PROVE BillingInv
  OBVIOUS
<1> USE BillingAssumption DEF Init
<1>1. [cast |-> cast, faults |-> faults] \in Situations
  <2>1. PICK s \in Situations : cast = s.cast /\ faults = s.faults
    OBVIOUS
  <2>2. s = [cast |-> s.cast, faults |-> s.faults]
    BY BillingAssumption
  <2> QED
    BY <2>1, <2>2
<1>2. DatabaseTypes
  BY <1>1 DEF DatabaseTypes
<1>3. /\ writes \in Seq(Write) /\ Len(writes) = 0
      /\ IsFiniteSet(hands) /\ Cardinality(hands) = 0
  BY FS_EmptySet
<1>5. WriteQueue \in Nat /\ WriteWorkers \in Nat
  OBVIOUS
<1>6. pc \in [Tasks -> PC] /\ (cache = None \/ cache \in Int)
  BY DEF PC, Over
<1>7. ProcessTypes
  <2>1. Len(writes) <= WriteQueue /\ Cardinality(hands) <= WriteWorkers
    BY <1>3, <1>5
  <2>2. loads \in 0..MaxLoads /\ past \in 0..loads /\ hands \subseteq Write
    OBVIOUS
  <2>3. /\ poolStopped \in BOOLEAN /\ crashed \in BOOLEAN /\ clean \in BOOLEAN
        /\ outdated \in BOOLEAN /\ (load = None \/ load \in Write)
        /\ stopped \in BOOLEAN /\ chan \in {"open", "closed", "nil"}
    OBVIOUS
  <2> HIDE DEF Init
  <2> QED
    BY <1>3, <1>6, <2>1, <2>2, <2>3 DEF ProcessTypes
<1>4. KeyInv /\ RowInv /\ CrossInv /\ DoneIsCharged
  BY DEF KeyInv, RowInv, CrossInv, DoneIsCharged, InTransaction, Owing
<1> QED
  BY <1>2, <1>4, <1>7 DEF BillingInv, TypeOK

\* Every step is a step of the ledger, or leaves it alone.
LEMMA LedgerStep == BillingInv /\ [Next]_vars => [Ledger!Next]_<<Billed, ledger>>
<1> SUFFICES ASSUME BillingInv, [Next]_vars PROVE [Ledger!Next]_<<Billed, ledger>>
  OBVIOUS
<1> USE BillingAssumption
    DEF BillingInv, TypeOK, DatabaseTypes, Billed, situation, ledger, keys,
        pool, redis, queue, gate, loading
<1>1. ASSUME NEW t \in Tasks, Submit(t) PROVE [Ledger!Next]_<<Billed, ledger>>
  BY <1>1 DEF Submit, Goto, Queued
<1>2. ASSUME NEW t \in Tasks, Execute(t) PROVE [Ledger!Next]_<<Billed, ledger>>
  BY <1>2 DEF Execute, Goto
<1>3. ASSUME NEW t \in Tasks, Claim(t) PROVE [Ledger!Next]_<<Billed, ledger>>
  BY <1>3 DEF Claim, Goto
<1>4. ASSUME NEW t \in Tasks, CompareFingerprint(t) PROVE [Ledger!Next]_<<Billed, ledger>>
  BY <1>4 DEF CompareFingerprint, Goto
<1>5. ASSUME NEW t \in Tasks, CompareArchive(t) PROVE [Ledger!Next]_<<Billed, ledger>>
  BY <1>5 DEF CompareArchive, Goto
<1>6. ASSUME NEW t \in Tasks, ApplyUsageBillingEffects(t) PROVE [Ledger!Next]_<<Billed, ledger>>
  BY <1>6 DEF ApplyUsageBillingEffects, Goto
<1>7. ASSUME NEW t \in Tasks, Commit(t) PROVE [Ledger!Next]_<<Billed, ledger>>
  <2>1. /\ Id(t) \in Ids /\ Cost(t) \in Costs /\ Fingerprint(t) # None
        /\ pc[t] = "commit"
    BY <1>7, SituationTypes, BillingAssumption DEF Commit, KeyInv
  <2>2. dedup[Id(t)] = None /\ archive[Id(t)] = None
    BY <2>1 DEF KeyInv, InTransaction
  <2>3. Billed' = Billed \cup {Id(t)} /\ Id(t) \notin Billed
    BY <1>7, <2>1, <2>2 DEF Commit, Charge
  <2>4. /\ t \in crossed["key"] <=> Crosses(keyUsed, Cost(t), KeyQuota)
        /\ t \in crossed["account"] <=> Crosses(accountUsed, Cost(t), AccountLimit)
    BY <2>1 DEF RowInv
  <2>5. /\ keyStatus' = IF Crosses(keyUsed, Cost(t), KeyQuota) THEN "quota_exhausted"
                        ELSE keyStatus
        /\ IF Crosses(accountUsed, Cost(t), AccountLimit) THEN EnqueueEvent ELSE events' = events
        /\ balance' = balance - Cost(t) /\ keyUsed' = keyUsed + Cost(t)
        /\ accountUsed' = accountUsed + Cost(t)
    BY <1>7, <2>4 DEF Commit, Charge
  <2>6. PICK id \in Ids, cost \in Costs : id = Id(t) /\ cost = Cost(t)
    BY <2>1
  <2>7. Ledger!Charge(id, cost)
    BY <2>3, <2>5, <2>6 DEF Ledger!Charge, Ledger!Crosses, Ledger!Notified, Crosses, EnqueueEvent
  <2>8. Ledger!Next
    BY <2>7 DEF Ledger!Next
  <2> QED
    BY <2>8, Zenon
<1>8. ASSUME NEW t \in Tasks, CommitAnswerLost(t) PROVE [Ledger!Next]_<<Billed, ledger>>
  <2>1. /\ Id(t) \in Ids /\ Cost(t) \in Costs /\ Fingerprint(t) # None
        /\ pc[t] = "commit"
    BY <1>8, SituationTypes, BillingAssumption DEF CommitAnswerLost, KeyInv
  <2>2. dedup[Id(t)] = None /\ archive[Id(t)] = None
    BY <2>1 DEF KeyInv, InTransaction
  <2>3. Billed' = Billed \cup {Id(t)} /\ Id(t) \notin Billed
    BY <1>8, <2>1, <2>2 DEF CommitAnswerLost, Charge
  <2>4. /\ t \in crossed["key"] <=> Crosses(keyUsed, Cost(t), KeyQuota)
        /\ t \in crossed["account"] <=> Crosses(accountUsed, Cost(t), AccountLimit)
    BY <2>1 DEF RowInv
  <2>5. /\ keyStatus' = IF Crosses(keyUsed, Cost(t), KeyQuota) THEN "quota_exhausted"
                        ELSE keyStatus
        /\ IF Crosses(accountUsed, Cost(t), AccountLimit) THEN EnqueueEvent ELSE events' = events
        /\ balance' = balance - Cost(t) /\ keyUsed' = keyUsed + Cost(t)
        /\ accountUsed' = accountUsed + Cost(t)
    BY <1>8, <2>4 DEF CommitAnswerLost, Charge
  <2>6. PICK id \in Ids, cost \in Costs : id = Id(t) /\ cost = Cost(t)
    BY <2>1
  <2>7. Ledger!Charge(id, cost)
    BY <2>3, <2>5, <2>6 DEF Ledger!Charge, Ledger!Crosses, Ledger!Notified, Crosses, EnqueueEvent
  <2>8. Ledger!Next
    BY <2>7 DEF Ledger!Next
  <2> QED
    BY <2>8, Zenon
<1>9. ASSUME NEW t \in Tasks, Rollback(t) PROVE [Ledger!Next]_<<Billed, ledger>>
  BY <1>9 DEF Rollback, Release, Goto
<1>10. ASSUME NEW t \in Tasks, InvalidateAuthCache(t) PROVE [Ledger!Next]_<<Billed, ledger>>
  BY <1>10 DEF InvalidateAuthCache, Goto
<1>11. ASSUME NEW t \in Tasks, CheckStopped(t) PROVE [Ledger!Next]_<<Billed, ledger>>
  BY <1>11 DEF CheckStopped, Goto
<1>12. ASSUME NEW t \in Tasks, Send(t) PROVE [Ledger!Next]_<<Billed, ledger>>
  BY <1>12 DEF Send, Goto, Room
<1>13. ASSUME NEW t \in Tasks, DeductBalanceCache(t) PROVE [Ledger!Next]_<<Billed, ledger>>
  BY <1>13 DEF DeductBalanceCache, DeductUserBalance, Goto
<1>14. ASSUME NEW w \in hands, CacheWrite(w) PROVE [Ledger!Next]_<<Billed, ledger>>
  BY <1>14 DEF CacheWrite, DeductUserBalance
<1>15. ASSUME NEW i \in Ids, CleanupUsageBillingDedup(i) PROVE [Ledger!Next]_<<Billed, ledger>>
  BY <1>15 DEF CleanupUsageBillingDedup
<1>16. CASE TakeWrite
  BY <1>16 DEF TakeWrite
<1>17. CASE QueueSetBalance
  BY <1>17 DEF QueueSetBalance
<1>18. CASE InvalidateUserBalance
  BY <1>18 DEF InvalidateUserBalance
<1>19. CASE CloseChannel
  BY <1>19 DEF CloseChannel
<1>20. CASE WorkersEnded
  BY <1>20 DEF WorkersEnded
<1>21. CASE Expire
  BY <1>21 DEF Expire
<1>22. CASE LoadBalance
  BY <1>22 DEF LoadBalance
<1>23. CASE TopUp
  <2>1. Ledger!Credit
    BY <1>23 DEF TopUp, Ledger!Credit
  <2> QED
    BY <2>1 DEF Ledger!Next
<1>24. CASE StopPool
  BY <1>24 DEF StopPool
<1>25. CASE Stop
  BY <1>25 DEF Stop
<1>26. CASE Crash
  BY <1>26 DEF Crash
<1>27. CASE UNCHANGED vars
  BY <1>27 DEF vars
<1> QED
  BY <1>1, <1>2, <1>3, <1>4, <1>5, <1>6, <1>7, <1>8, <1>9, <1>10, <1>11,
     <1>12, <1>13, <1>14, <1>15, <1>16, <1>17, <1>18, <1>19, <1>20, <1>21,
     <1>22, <1>23, <1>24, <1>25, <1>26, <1>27
  DEF Next, TaskStep, CacheStep, StopStep

\* BillingInv is inductive.
THEOREM BillingInvariance == Spec => []BillingInv
<1>1. BillingInv /\ [Next]_vars => BillingInv'
  BY DatabaseStep, ProcessStep, KeyStep, RowStep, CrossStep, DoneStep DEF BillingInv, TypeOK
<1> QED
  BY BillingInit, <1>1, PTL DEF Spec

\* Every variable keeps its type: the queue and its workers never exceed their
\* bounds.
THEOREM BillingTypes == Spec => []TypeOK
<1>1. BillingInv => TypeOK
  BY DEF BillingInv
<1> QED
  BY BillingInvariance, <1>1, PTL

\* A task that is done or goes on to the caches has been charged with its own
\* fingerprint (usage_billing_repo.go, claimUsageBillingKey).
THEOREM DoneTasksAreCharged == Spec => []DoneIsCharged
<1>1. BillingInv => DoneIsCharged
  BY DEF BillingInv
<1> QED
  BY BillingInvariance, <1>1, PTL

\* One task at most drops the authentication cache of the exhausted key.
THEOREM ExhaustionToldOnce == Spec => []ToldOnce
<1>1. BillingInv => ToldOnce
  <2> SUFFICES ASSUME BillingInv PROVE ToldOnce
    OBVIOUS
  <2>1. \A t, u \in told : t = u
    BY DEF BillingInv, TypeOK, DatabaseTypes, CrossInv
  <2>2. told = {} \/ \E t \in told : told = {t}
    BY <2>1
  <2> QED
    BY <2>2, FS_EmptySet, FS_Singleton DEF ToldOnce
<1> QED
  BY BillingInvariance, <1>1, PTL

\* Usage billing implements BillingLedger: a request is charged at most once,
\* whatever is repeated, rolled back, archived or lost, and in one step.
THEOREM RequestsChargedOnce == Spec => ChargedOnce
<1>1. BillingInv /\ [Next]_vars => [Ledger!Next]_<<Billed, ledger>>
  BY LedgerStep
<1> QED
  BY BillingInvariance, <1>1, PTL DEF Spec, ChargedOnce
-----------------------------------------------------------------------------
(* Sums over tasks. *)

\* The sum of the costs of S.
Total(c, S) == MapThenSumSet(LAMBDA t : c[t].cost, S)

\* g gives each subset of S the sum of its costs.
Additive(c, S, g) ==
    /\ g \in [SUBSET S -> Int]
    /\ g[{}] = 0
    /\ \A T \in SUBSET S : \A x \in S \ T : g[T \cup {x}] = g[T] + c[x].cost

\* Among some subsets of a finite set one contains no other.
LEMMA SmallestSubset ==
  ASSUME NEW S, IsFiniteSet(S), NEW B \in SUBSET (SUBSET S), B # {}
  PROVE  \E T \in B : \A U \in SUBSET T : U # T => U \notin B
<1>1. IsWellFoundedOn(StrictSubsetOrdering(S), SUBSET S)
  BY FS_StrictSubsetOrderingWellFounded, FS_FiniteSubsetsOfFinite
<1>2. \E T \in B : \A U \in B : ~(<<U, T>> \in StrictSubsetOrdering(S))
  BY <1>1, WFMin
<1> QED
  BY <1>2 DEF StrictSubsetOrdering

\* Every finite set has such a function.
LEMMA AdditiveExists ==
  ASSUME NEW c, NEW S, IsFiniteSet(S), \A x \in S : c[x].cost \in Int
  PROVE  \E g : Additive(c, S, g)
<1> DEFINE B == {T \in SUBSET S : \A g : ~Additive(c, T, g)}
<1> SUFFICES ASSUME B # {} PROVE FALSE
  BY DEF B
<1>1. PICK T \in B : \A U \in SUBSET T : U # T => U \notin B
  <2>1. B \in SUBSET (SUBSET S)
    OBVIOUS
  <2> HIDE DEF B
  <2> QED
    BY <2>1, SmallestSubset
<1>2. CASE T = {}
  <2>1. Additive(c, T, [U \in SUBSET T |-> 0])
    BY <1>2 DEF Additive
  <2> QED
    BY <1>1, <2>1
<1>3. CASE T # {}
  <2>1. PICK x \in T : TRUE
    BY <1>3
  <2>2. PICK g : Additive(c, T \ {x}, g)
    BY <1>1
  <2> DEFINE h == [U \in SUBSET T |-> IF x \in U THEN g[U \ {x}] + c[x].cost ELSE g[U]]
  <2>3. \A U \in SUBSET T : U \ {x} \in SUBSET (T \ {x}) /\ (x \notin U => U \in SUBSET (T \ {x}))
    OBVIOUS
  <2>4. c[x].cost \in Int /\ \A U \in SUBSET (T \ {x}) : g[U] \in Int
    BY <2>2 DEF Additive
  <2>5. h \in [SUBSET T -> Int]
    BY <2>3, <2>4
  <2>6. h[{}] = 0
    BY <2>2 DEF Additive
  <2>7. ASSUME NEW U \in SUBSET T, NEW y \in T \ U
        PROVE  h[U \cup {y}] = h[U] + c[y].cost
    <3>1. CASE y = x
      <4>1. (U \cup {y}) \ {x} = U
        BY <3>1
      <4> QED
        BY <3>1, <4>1
    <3>2. CASE y # x /\ x \in U
      <4>1. (U \cup {y}) \ {x} = (U \ {x}) \cup {y}
        BY <3>2
      <4>2. g[(U \ {x}) \cup {y}] = g[U \ {x}] + c[y].cost
        BY <2>2, <2>3, <3>2 DEF Additive
      <4>3. c[y].cost \in Int /\ g[U \ {x}] \in Int
        BY <2>3, <2>4
      <4>4. h[U] = g[U \ {x}] + c[x].cost
        BY <3>2
      <4>5. h[U \cup {y}] = g[(U \cup {y}) \ {x}] + c[x].cost
        BY <3>2
      <4>6. h[U \cup {y}] = (g[U \ {x}] + c[y].cost) + c[x].cost
        BY <4>1, <4>2, <4>5
      <4>7. \A i, j, k \in Int : (i + j) + k = (i + k) + j
        OBVIOUS
      <4> HIDE DEF h
      <4> QED
        BY <2>4, <4>3, <4>4, <4>6, <4>7
    <3>3. CASE y # x /\ x \notin U
      <4>1. g[U \cup {y}] = g[U] + c[y].cost
        BY <2>2, <2>3, <3>3 DEF Additive
      <4> QED
        BY <3>3, <4>1
    <3> QED
      BY <3>1, <3>2, <3>3
  <2>8. Additive(c, T, h)
    BY <2>5, <2>6, <2>7 DEF Additive
  <2> QED
    BY <1>1, <2>8
<1> QED
  BY <1>2, <1>3

\* It is what MapThenSumSet computes.
LEMMA TotalIsAdditive ==
  ASSUME NEW c, NEW S, IsFiniteSet(S), \A x \in S : c[x].cost \in Int,
         NEW g, Additive(c, S, g)
  PROVE  Total(c, S) = g[S]
<1> DEFINE First(s) == CHOOSE x \in s : TRUE
<1> DEFINE Rec(h) == h = [s \in SUBSET S |->
                            IF s = {} THEN 0 ELSE c[First(s)].cost + h[s \ {First(s)}]]
<1>1. Total(c, S) = (CHOOSE h : Rec(h))[S]
  BY Zenon DEF Total, MapThenSumSet, MapThenFoldSet
<1>2. \A s \in SUBSET S : s # {} => /\ First(s) \in s
                                    /\ s \ {First(s)} \in SUBSET S
  OBVIOUS
<1> HIDE DEF First
<1>3. \A s \in SUBSET S : s # {} => g[s] = g[s \ {First(s)}] + c[First(s)].cost
  <2> SUFFICES ASSUME NEW s \in SUBSET S, s # {}
               PROVE  g[s] = g[s \ {First(s)}] + c[First(s)].cost
    OBVIOUS
  <2>1. (s \ {First(s)}) \cup {First(s)} = s
    BY <1>2
  <2> QED
    BY <1>2, <2>1 DEF Additive
<1>4. Rec(g)
  <2>1. \A s \in SUBSET S : s # {} =>
           g[s] = c[First(s)].cost + g[s \ {First(s)}]
    BY <1>2, <1>3 DEF Additive
  <2>2. g = [s \in SUBSET S |-> g[s]] /\ g[{}] = 0
    BY DEF Additive
  <2> QED
    BY <2>1, <2>2
<1>5. PICK h : Rec(h) /\ h = (CHOOSE f : Rec(f))
  BY <1>4
<1>6. \A s \in SUBSET S : h[s] = g[s]
  <2> DEFINE B == {s \in SUBSET S : h[s] # g[s]}
  <2> SUFFICES ASSUME B # {} PROVE FALSE
    OBVIOUS
  <2>1. PICK s \in B : \A u \in SUBSET s : u # s => u \notin B
    <3>1. B \in SUBSET (SUBSET S)
      OBVIOUS
    <3> HIDE DEF B
    <3> QED
      BY <3>1, SmallestSubset
  <2>2. CASE s = {}
    BY <1>5, <2>1, <2>2 DEF Additive
  <2>3. CASE s # {}
    <3>1. h[s] = c[First(s)].cost + h[s \ {First(s)}]
      BY <1>5, <2>3
    <3>2. h[s \ {First(s)}] = g[s \ {First(s)}]
      BY <1>2, <2>1, <2>3
    <3>3. g[s] = g[s \ {First(s)}] + c[First(s)].cost
      BY <1>3, <2>3
    <3>4. g[s \ {First(s)}] \in Int /\ c[First(s)].cost \in Int
      BY <1>2, <2>3 DEF Additive
    <3>5. h[s] = g[s]
      BY <3>1, <3>2, <3>3, <3>4
    <3> QED
      BY <3>5
  <2> QED
    BY <2>2, <2>3
<1> QED
  BY <1>1, <1>5, <1>6

\* The sum of nothing, and of one task more.
LEMMA TotalProperties ==
  ASSUME NEW c, NEW S, IsFiniteSet(S), \A x \in S : c[x].cost \in Int
  PROVE  /\ Total(c, {}) = 0
         /\ Total(c, S) \in Int
         /\ \A x : x \notin S /\ c[x].cost \in Int => Total(c, S \cup {x}) = Total(c, S) + c[x].cost
<1>1. Total(c, {}) = 0
  <2>1. PICK g : Additive(c, {}, g)
    BY AdditiveExists, FS_EmptySet
  <2> QED
    BY <2>1, TotalIsAdditive, FS_EmptySet DEF Additive
<1>2. PICK g : Additive(c, S, g)
  BY AdditiveExists
<1>3. Total(c, S) = g[S] /\ g[S] \in Int
  <2>1. Total(c, S) = g[S]
    BY <1>2, TotalIsAdditive
  <2>2. g[S] \in Int
    BY <1>2 DEF Additive
  <2> QED
    BY <2>1, <2>2
<1>4. ASSUME NEW x, x \notin S, c[x].cost \in Int
      PROVE  Total(c, S \cup {x}) = Total(c, S) + c[x].cost
  <2>1. IsFiniteSet(S \cup {x}) /\ \A y \in S \cup {x} : c[y].cost \in Int
    BY <1>4, FS_AddElement
  <2>2. PICK h : Additive(c, S \cup {x}, h)
    BY <2>1, AdditiveExists
  <2> DEFINE f == [T \in SUBSET S |-> h[T]]
  <2>3. Additive(c, S, f)
    BY <2>2 DEF Additive
  <2>4. Total(c, S) = h[S]
    BY <2>3, TotalIsAdditive
  <2>5. Total(c, S \cup {x}) = h[S \cup {x}]
    BY <2>1, <2>2, TotalIsAdditive
  <2>6. h[S \cup {x}] = h[S] + c[x].cost
    BY <1>4, <2>2 DEF Additive
  <2> QED
    BY <2>4, <2>5, <2>6
<1> QED
  BY <1>1, <1>3, <1>4

-----------------------------------------------------------------------------
(* The cached balance. *)

\* The deductions that have not reached Redis.
Pending == Total(cast, Owed)

\* CacheIsExact in these terms.
LEMMA ExactIs ==
  /\ CacheIsExact <=> (cache # None /\ clean => cache = balance + Pending)
  /\ CacheIsExact' <=> (cache' # None /\ clean' => cache' = balance' + Pending')
  BY Zenon DEF CacheIsExact, Pending, Total, Cost, MapThenSumSet, MapThenFoldSet

\* What a queue holds when a write is added and when one is taken.
LEMMA QueueElements ==
  ASSUME NEW s \in Seq(Write), NEW w \in Write
  PROVE  /\ ToSet(Append(s, w)) = ToSet(s) \cup {w}
         /\ s # <<>> => ToSet(s) = ToSet(Tail(s)) \cup {Head(s)}
<1>1. ToSet(Append(s, w)) = ToSet(s) \cup {w}
  <2>1. /\ Len(Append(s, w)) = Len(s) + 1 /\ Append(s, w)[Len(s) + 1] = w /\ Len(s) \in Nat
        /\ \A i \in 1..Len(s) : Append(s, w)[i] = s[i]
    OBVIOUS
  <2>2. ToSet(s) = {s[i] : i \in 1..Len(s)}
    BY DEF ToSet
  <2>3. ToSet(Append(s, w)) = {Append(s, w)[i] : i \in 1..Len(Append(s, w))}
    BY DEF ToSet
  <2>4. ASSUME NEW x \in ToSet(Append(s, w)) PROVE x \in ToSet(s) \cup {w}
    <3>1. PICK i \in 1..Len(Append(s, w)) : x = Append(s, w)[i]
      BY <2>3
    <3>2. i \in 1..Len(s) \/ i = Len(s) + 1
      BY <2>1
    <3> QED
      BY <2>1, <2>2, <3>1, <3>2
  <2>5. ASSUME NEW x \in ToSet(s) \cup {w} PROVE x \in ToSet(Append(s, w))
    <3>1. CASE x = w
      <4>1. Len(s) + 1 \in 1..Len(Append(s, w))
        BY <2>1
      <4> QED
        BY <2>1, <2>3, <3>1, <4>1
    <3>2. CASE x \in ToSet(s)
      <4>1. PICK i \in 1..Len(s) : x = s[i]
        BY <2>2, <3>2
      <4>2. i \in 1..Len(Append(s, w)) /\ x = Append(s, w)[i]
        BY <2>1, <4>1
      <4> QED
        BY <2>3, <4>2
    <3> QED
      BY <3>1, <3>2
  <2> QED
    BY <2>4, <2>5
<1>2. ASSUME s # <<>> PROVE ToSet(s) = ToSet(Tail(s)) \cup {Head(s)}
  <2>1. /\ Len(s) \in Nat \ {0} /\ Len(Tail(s)) = Len(s) - 1 /\ Head(s) = s[1]
        /\ \A i \in 1..Len(s) - 1 : Tail(s)[i] = s[i + 1]
    BY <1>2
  <2>2. ToSet(s) = {s[i] : i \in 1..Len(s)}
    BY DEF ToSet
  <2>3. ToSet(Tail(s)) = {Tail(s)[i] : i \in 1..Len(s) - 1}
    <3>1. DOMAIN Tail(s) = 1..Len(s) - 1
      BY <1>2
    <3> QED
      BY <3>1 DEF ToSet
  <2>4. ASSUME NEW i \in 1..Len(s), i # 1
        PROVE  i - 1 \in 1..Len(s) - 1 /\ s[i] = Tail(s)[i - 1]
    <3>1. i - 1 \in 1..Len(s) - 1 /\ (i - 1) + 1 = i
      BY <2>1, <2>4
    <3> QED
      BY <2>1, <3>1
  <2>5. ASSUME NEW x \in ToSet(s) PROVE x \in ToSet(Tail(s)) \cup {Head(s)}
    <3>1. PICK i \in 1..Len(s) : x = s[i]
      BY <2>2
    <3>2. CASE i = 1
      BY <2>1, <3>1, <3>2
    <3>3. CASE i # 1
      <4>1. i - 1 \in 1..Len(s) - 1 /\ x = Tail(s)[i - 1]
        BY <2>4, <3>1, <3>3
      <4> QED
        BY <2>3, <4>1
    <3> QED
      BY <3>2, <3>3
  <2>6. ASSUME NEW x \in ToSet(Tail(s)) \cup {Head(s)} PROVE x \in ToSet(s)
    <3>1. CASE x = Head(s)
      BY <2>1, <2>2, <3>1
    <3>2. CASE x \in ToSet(Tail(s))
      <4>1. PICK i \in 1..Len(s) - 1 : x = Tail(s)[i]
        BY <2>3, <3>2
      <4>2. i + 1 \in 1..Len(s) /\ x = s[i + 1]
        BY <2>1, <4>1
      <4> QED
        BY <2>2, <4>2
    <3> QED
      BY <3>1, <3>2
  <2> QED
    BY <2>5, <2>6
<1> QED
  BY <1>1, <1>2

\* The costs are numbers.
LEMMA CostTypes ==
  ASSUME BillingInv
  PROVE  \A t \in Tasks : cast[t].cost \in Int /\ Cost(t) = cast[t].cost
  BY SituationTypes DEF BillingInv, TypeOK, Cost

\* What is pending is a number; it grows by the cost of a task that owes a
\* deduction, and shrinks by that of one that does not any more.
LEMMA PendingProperties ==
  ASSUME BillingInv, IsFiniteSet(Owed), UNCHANGED cast
  PROVE  /\ Pending \in Int
         /\ Owed = {} => Pending = 0
         /\ Owed' = Owed => Pending' = Pending
         /\ Owed' = {} => Pending' = 0
         /\ \A t \in Tasks \ Owed : Owed' = Owed \cup {t} => Pending' = Pending + Cost(t)
         /\ \A t \in Owed : Owed' = Owed \ {t} => Pending' = Pending - Cost(t)
<1>1. Owed \subseteq Tasks
  BY DEF Owed
<1>2. Pending \in Int /\ Total(cast, {}) = 0
  BY <1>1, CostTypes, TotalProperties DEF Pending
<1>3. ASSUME NEW t \in Tasks \ Owed, Owed' = Owed \cup {t} PROVE Pending' = Pending + Cost(t)
  BY <1>1, <1>3, CostTypes, TotalProperties DEF Pending
<1>4. ASSUME NEW t \in Owed, Owed' = Owed \ {t} PROVE Pending' = Pending - Cost(t)
  <2>1. /\ IsFiniteSet(Owed \ {t}) /\ t \notin Owed \ {t}
        /\ \A u \in Owed \ {t} : cast[u].cost \in Int
    BY <1>1, CostTypes, FS_RemoveElement
  <2>2. cast[t].cost \in Int /\ Cost(t) = cast[t].cost
    BY <1>1, CostTypes
  <2>3. (Owed \ {t}) \cup {t} = Owed
    OBVIOUS
  <2>4. Total(cast, Owed) = Total(cast, Owed \ {t}) + cast[t].cost
    BY <2>1, <2>2, <2>3, TotalProperties
  <2>5. Total(cast, Owed \ {t}) \in Int
    BY <2>1, TotalProperties
  <2>6. Pending' = Total(cast, Owed \ {t})
    BY <1>4 DEF Pending
  <2> QED
    BY <2>2, <2>4, <2>5, <2>6 DEF Pending
<1>5. Owed = {} => Pending = 0
  BY <1>2 DEF Pending
<1>6. (Owed' = Owed => Pending' = Pending) /\ (Owed' = {} => Pending' = 0)
  BY <1>2 DEF Pending
<1> QED
  BY <1>2, <1>3, <1>4, <1>5, <1>6

\* A step that leaves the balance, the queue, the loads and what is owed alone
\* may only empty the cache.
LEMMA QuietStep ==
  ASSUME BillingInv, CacheInv,
         UNCHANGED <<cast, balance, writes, hands, load, loads, past>>,
         \A t \in Tasks : /\ pc'[t] \in Owing <=> pc[t] \in Owing
                          /\ pc[t] = "done" => pc'[t] = "done",
         clean' => cache' = None \/ (cache' = cache /\ clean)
  PROVE  CacheInv'
<1>1. Owed' = Owed /\ CacheQueue' = CacheQueue
  BY DEF Owed, CacheQueue
<1>2. DeductionInv'
  BY <1>1 DEF CacheInv, DeductionInv, CacheQueue, Deduct
<1>3. LoadInv'
  BY <1>1 DEF CacheInv, LoadInv, Current
<1>4. CacheIsExact'
  BY <1>1, ExactIs, PendingProperties DEF CacheInv
<1> QED
  BY <1>1, <1>2, <1>3, <1>4 DEF CacheInv

\* Nothing that was loaded is newer than a charge or a recharge.
LEMMA LoadsPast ==
  ASSUME BillingInv, LoadInv, CacheQueue' = CacheQueue, past' = loads,
         UNCHANGED <<load, loads>>
  PROVE  LoadInv'
<1>1. ASSUME NEW w, Current(w), w.kind = "set" => w.by \in Nat PROVE Current(w)'
  BY <1>1 DEF Current, BillingInv, TypeOK, ProcessTypes
<1>2. \A w \in Write : w.kind = "set" => w.by \in Nat
  BY BillingAssumption DEF Write, Deduct
<1>3. CacheQueue \subseteq Write /\ (load # None => load \in Write)
  BY DEF CacheQueue, ToSet, BillingInv, TypeOK, ProcessTypes
<1> QED
  BY <1>1, <1>2, <1>3 DEF LoadInv

\* A deduction in Redis settles one of those that are owed.
LEMMA DeductionSettles ==
  ASSUME BillingInv, CacheInv, NEW t \in Owed, Owed' = Owed \ {t},
         DeductUserBalance(t), UNCHANGED <<cast, balance>>
  PROVE  IsFiniteSet(Owed') /\ CacheIsExact'
<1>1. IsFiniteSet(Owed')
  BY FS_RemoveElement DEF CacheInv
<1>2. Pending' = Pending - Cost(t) /\ Pending \in Int
  BY PendingProperties DEF CacheInv
<1>3. Cost(t) \in Int /\ balance \in Int
  BY CostTypes DEF Owed, BillingInv, TypeOK, DatabaseTypes
<1>4. ASSUME cache' # None, clean' PROVE cache' = balance' + Pending'
  <2>1. cache # None /\ clean /\ cache' = cache - Cost(t)
    <3>1. PICK n \in IF "net" \in faults THEN 0..2 ELSE {1} :
             /\ cache' = IF cache = None THEN None ELSE cache - n * Cost(t)
             /\ clean' = (clean /\ (n # 1 => cache = None))
      BY DEF DeductUserBalance
    <3>2. clean /\ cache # None
      BY <1>4, <3>1
    <3>3. n = 1
      BY <1>4, <3>1, <3>2
    <3> QED
      BY <1>3, <3>1, <3>2, <3>3
  <2>2. cache = balance + Pending
    BY <2>1, ExactIs DEF CacheInv
  <2> QED
    BY <1>2, <1>3, <2>1, <2>2
<1> QED
  BY <1>1, <1>4, ExactIs

\* The invariant holds at the start, where the cache holds the balance or nothing.
LEMMA CacheInit == Init => CacheInv
<1> SUFFICES ASSUME Init PROVE CacheInv
  OBVIOUS
<1>1. Owed = {} /\ CacheQueue = {}
  BY DEF Init, Owed, Owing, CacheQueue, ToSet
<1>2. DeductionInv /\ LoadInv
  BY <1>1 DEF Init, DeductionInv, LoadInv, CacheQueue
<1>3. Pending = 0
  BY <1>1, TotalProperties, FS_EmptySet DEF Pending
<1>4. CacheIsExact
  BY <1>3, ExactIs, BillingAssumption DEF Init
<1> QED
  BY <1>1, <1>2, <1>4, FS_EmptySet DEF CacheInv

\* Every step keeps the cached balance exact.
LEMMA CacheStepInv == BillingInv /\ CacheInv /\ [Next]_vars => CacheInv'
<1> SUFFICES ASSUME BillingInv, CacheInv, [Next]_vars PROVE CacheInv'
  OBVIOUS
<1> USE DEF situation, ledger, keys, pool, redis, queue, gate, loading
<1>1. ASSUME NEW t \in Tasks, Submit(t) PROVE CacheInv'
  <2>1. \A u \in Tasks : /\ pc'[u] \in Owing <=> pc[u] \in Owing
                         /\ pc[u] = "done" => pc'[u] = "done"
    BY <1>1 DEF Submit, Goto, Owing, InTransaction, BillingInv, TypeOK, ProcessTypes
  <2>2. /\ UNCHANGED <<cast, balance, writes, hands, load, loads, past>>
        /\ clean' => cache' = None \/ (cache' = cache /\ clean)
    BY <1>1 DEF Submit
  <2> QED
    BY <2>1, <2>2, QuietStep
<1>2. ASSUME NEW t \in Tasks, Execute(t) PROVE CacheInv'
  <2>1. \A u \in Tasks : /\ pc'[u] \in Owing <=> pc[u] \in Owing
                         /\ pc[u] = "done" => pc'[u] = "done"
    BY <1>2 DEF Execute, Goto, Owing, InTransaction, BillingInv, TypeOK, ProcessTypes
  <2>2. /\ UNCHANGED <<cast, balance, writes, hands, load, loads, past>>
        /\ clean' => cache' = None \/ (cache' = cache /\ clean)
    BY <1>2 DEF Execute
  <2> QED
    BY <2>1, <2>2, QuietStep
<1>3. ASSUME NEW t \in Tasks, Claim(t) PROVE CacheInv'
  <2>1. \A u \in Tasks : /\ pc'[u] \in Owing <=> pc[u] \in Owing
                         /\ pc[u] = "done" => pc'[u] = "done"
    BY <1>3 DEF Claim, Goto, Owing, InTransaction, BillingInv, TypeOK, ProcessTypes
  <2>2. /\ UNCHANGED <<cast, balance, writes, hands, load, loads, past>>
        /\ clean' => cache' = None \/ (cache' = cache /\ clean)
    BY <1>3 DEF Claim
  <2> QED
    BY <2>1, <2>2, QuietStep
<1>4. ASSUME NEW t \in Tasks, CompareFingerprint(t) PROVE CacheInv'
  <2>1. \A u \in Tasks : /\ pc'[u] \in Owing <=> pc[u] \in Owing
                         /\ pc[u] = "done" => pc'[u] = "done"
    BY <1>4 DEF CompareFingerprint, Goto, Owing, InTransaction, BillingInv, TypeOK, ProcessTypes
  <2>2. /\ UNCHANGED <<cast, balance, writes, hands, load, loads, past>>
        /\ clean' => cache' = None \/ (cache' = cache /\ clean)
    BY <1>4 DEF CompareFingerprint
  <2> QED
    BY <2>1, <2>2, QuietStep
<1>5. ASSUME NEW t \in Tasks, CompareArchive(t) PROVE CacheInv'
  <2>1. \A u \in Tasks : /\ pc'[u] \in Owing <=> pc[u] \in Owing
                         /\ pc[u] = "done" => pc'[u] = "done"
    BY <1>5 DEF CompareArchive, Goto, Owing, InTransaction, BillingInv, TypeOK, ProcessTypes
  <2>2. /\ UNCHANGED <<cast, balance, writes, hands, load, loads, past>>
        /\ clean' => cache' = None \/ (cache' = cache /\ clean)
    BY <1>5 DEF CompareArchive
  <2> QED
    BY <2>1, <2>2, QuietStep
<1>6. ASSUME NEW t \in Tasks, ApplyUsageBillingEffects(t) PROVE CacheInv'
  <2>1. \A u \in Tasks : /\ pc'[u] \in Owing <=> pc[u] \in Owing
                         /\ pc[u] = "done" => pc'[u] = "done"
    BY <1>6 DEF ApplyUsageBillingEffects, Goto, Owing, InTransaction, BillingInv, TypeOK, ProcessTypes
  <2>2. /\ UNCHANGED <<cast, balance, writes, hands, load, loads, past>>
        /\ clean' => cache' = None \/ (cache' = cache /\ clean)
    BY <1>6 DEF ApplyUsageBillingEffects
  <2> QED
    BY <2>1, <2>2, QuietStep
<1>7. ASSUME NEW t \in Tasks, Rollback(t) PROVE CacheInv'
  <2>1. \A u \in Tasks : /\ pc'[u] \in Owing <=> pc[u] \in Owing
                         /\ pc[u] = "done" => pc'[u] = "done"
    BY <1>7 DEF Rollback, Goto, Owing, InTransaction, BillingInv, TypeOK, ProcessTypes
  <2>2. /\ UNCHANGED <<cast, balance, writes, hands, load, loads, past>>
        /\ clean' => cache' = None \/ (cache' = cache /\ clean)
    BY <1>7 DEF Rollback
  <2> QED
    BY <2>1, <2>2, QuietStep
<1>8. ASSUME NEW t \in Tasks, InvalidateAuthCache(t) PROVE CacheInv'
  <2>1. \A u \in Tasks : /\ pc'[u] \in Owing <=> pc[u] \in Owing
                         /\ pc[u] = "done" => pc'[u] = "done"
    BY <1>8 DEF InvalidateAuthCache, Goto, Owing, InTransaction, BillingInv, TypeOK, ProcessTypes
  <2>2. /\ UNCHANGED <<cast, balance, writes, hands, load, loads, past>>
        /\ clean' => cache' = None \/ (cache' = cache /\ clean)
    BY <1>8 DEF InvalidateAuthCache
  <2> QED
    BY <2>1, <2>2, QuietStep
<1>9. ASSUME NEW t \in Tasks, CheckStopped(t) PROVE CacheInv'
  <2>1. \A u \in Tasks : /\ pc'[u] \in Owing <=> pc[u] \in Owing
                         /\ pc[u] = "done" => pc'[u] = "done"
    BY <1>9 DEF CheckStopped, Goto, Owing, InTransaction, BillingInv, TypeOK, ProcessTypes
  <2>2. /\ UNCHANGED <<cast, balance, writes, hands, load, loads, past>>
        /\ clean' => cache' = None \/ (cache' = cache /\ clean)
    BY <1>9 DEF CheckStopped
  <2> QED
    BY <2>1, <2>2, QuietStep
<1>10. ASSUME NEW i \in Ids, CleanupUsageBillingDedup(i) PROVE CacheInv'
  BY <1>10, QuietStep DEF CleanupUsageBillingDedup
<1>11. CASE InvalidateUserBalance
  BY <1>11, QuietStep DEF InvalidateUserBalance
<1>12. CASE CloseChannel
  BY <1>12, QuietStep DEF CloseChannel
<1>13. CASE WorkersEnded
  BY <1>13, QuietStep DEF WorkersEnded
<1>14. CASE Expire
  BY <1>14, QuietStep DEF Expire
<1>15. CASE StopPool
  BY <1>15, QuietStep DEF StopPool
<1>16. CASE Stop
  BY <1>16, QuietStep DEF Stop
<1>17. ASSUME NEW t \in Tasks, Commit(t) PROVE CacheInv'
  <2>1. /\ pc[t] = "commit" /\ pc' = [pc EXCEPT ![t] = "finalize"] /\ balance' = balance - Cost(t)
        /\ past' = loads /\ UNCHANGED <<cast, cache, clean, writes, hands, load, loads>>
    BY <1>17 DEF Commit, Charge, Goto
  <2>2. t \in Tasks \ Owed /\ Owed' = Owed \cup {t} /\ CacheQueue' = CacheQueue
    BY <2>1 DEF Owed, Owing, CacheQueue, CacheInv, DeductionInv, BillingInv, TypeOK, ProcessTypes,
       Deduct
  <2>3. DeductionInv'
    BY <2>1, <2>2 DEF CacheInv, DeductionInv, CacheQueue, BillingInv, TypeOK, ProcessTypes, Deduct
  <2>4. LoadInv'
    BY <2>1, <2>2, LoadsPast DEF CacheInv
  <2>5. /\ Pending' = Pending + Cost(t) /\ Pending \in Int /\ Cost(t) \in Int /\ balance \in Int
        /\ IsFiniteSet(Owed')
    BY <2>1, <2>2, PendingProperties, CostTypes, FS_AddElement
    DEF CacheInv, BillingInv, TypeOK, DatabaseTypes
  <2>6. CacheIsExact'
    BY <2>1, <2>5, ExactIs DEF CacheInv
  <2> QED
    BY <2>3, <2>4, <2>5, <2>6 DEF CacheInv
<1>18. ASSUME NEW t \in Tasks, CommitAnswerLost(t) PROVE CacheInv'
  <2>1. /\ pc[t] = "commit" /\ pc' = [pc EXCEPT ![t] = "failed"] /\ balance' = balance - Cost(t)
        /\ past' = loads /\ UNCHANGED <<cast, cache, writes, hands, load, loads>>
        /\ clean' = (clean /\ cache = None)
    BY <1>18 DEF CommitAnswerLost, Charge, Goto
  <2>2. Owed' = Owed /\ CacheQueue' = CacheQueue
    BY <2>1 DEF Owed, Owing, CacheQueue, BillingInv, TypeOK, ProcessTypes
  <2>3. DeductionInv'
    BY <2>1, <2>2 DEF CacheInv, DeductionInv, CacheQueue, BillingInv, TypeOK, ProcessTypes, Deduct
  <2>4. LoadInv'
    BY <2>1, <2>2, LoadsPast DEF CacheInv
  <2>5. CacheIsExact'
    BY <2>1, ExactIs
  <2> QED
    BY <2>2, <2>3, <2>4, <2>5 DEF CacheInv
<1>19. CASE TopUp
  <2>1. Owed' = Owed /\ CacheQueue' = CacheQueue
    BY <1>19 DEF TopUp, Owed, CacheQueue
  <2>2. DeductionInv'
    BY <1>19, <2>1 DEF TopUp, CacheInv, DeductionInv, CacheQueue, Deduct
  <2>3. LoadInv'
    BY <1>19, <2>1, LoadsPast DEF CacheInv, TopUp
  <2>4. CacheIsExact'
    BY <1>19, ExactIs DEF TopUp
  <2> QED
    BY <2>1, <2>2, <2>3, <2>4 DEF CacheInv
<1>20. ASSUME NEW t \in Tasks, Send(t) PROVE CacheInv'
  <2>1. pc[t] = "send" /\ UNCHANGED <<cast, balance, cache, hands, load, loads, past>>
    BY <1>20 DEF Send
  <2>2. CASE ~Room
    <3>1. /\ \A u \in Tasks \ {t} : pc'[u] = pc[u]
          /\ pc'[t] \in {"panicked", "fallback"} /\ (pc'[t] = "panicked" => chan = "closed")
          /\ writes' = writes /\ clean' = (clean /\ (chan = "closed" => cache = None))
      BY <1>20, <2>2 DEF Send, Goto, BillingInv, TypeOK, ProcessTypes
    <3>2. CASE pc'[t] = "fallback"
      BY <2>1, <3>1, <3>2, QuietStep DEF Owing
    <3>3. CASE pc'[t] = "panicked"
      <4>1. cache' = None \/ ~clean'
        BY <2>1, <3>1, <3>3
      <4>2. Owed' = Owed \ {t} /\ CacheQueue' = CacheQueue
        BY <2>1, <3>1, <3>3 DEF Owed, Owing, CacheQueue, CacheInv, DeductionInv, Deduct
      <4>3. DeductionInv'
        BY <2>1, <3>1, <4>2 DEF CacheInv, DeductionInv, CacheQueue, Deduct
      <4>4. LoadInv'
        BY <2>1, <4>2 DEF CacheInv, LoadInv, Current
      <4>5. CacheIsExact' /\ IsFiniteSet(Owed')
        BY <4>1, <4>2, ExactIs, FS_RemoveElement DEF CacheInv
      <4> QED
        BY <4>3, <4>4, <4>5 DEF CacheInv
    <3> QED
      BY <3>1, <3>2, <3>3
  <2>3. CASE Room
    <3>1. /\ writes' = Append(writes, Deduct(t)) /\ chan = "open" /\ pc' = [pc EXCEPT ![t] = "done"]
          /\ clean' = clean
      BY <1>20, <2>3 DEF Send, Goto, Room, BillingInv, TypeOK, ProcessTypes
    <3>2. Deduct(t) \in Write /\ Deduct(t).kind = "deduct" /\ Deduct(t) \notin CacheQueue
          /\ \A u \in Tasks : Deduct(u) = Deduct(t) => u = t
      BY <2>1 DEF Write, Deduct, CacheInv, DeductionInv
    <3>3. /\ CacheQueue' = CacheQueue \cup {Deduct(t)}
          /\ ToSet(writes') = ToSet(writes) \cup {Deduct(t)}
      BY <2>1, <3>1, <3>2, QueueElements DEF CacheQueue, BillingInv, TypeOK, ProcessTypes
    <3>4. Owed' = Owed
      BY <2>1, <3>1, <3>2, <3>3 DEF Owed, Owing, CacheQueue, BillingInv, TypeOK, ProcessTypes
    <3>5. /\ \A u \in Tasks : Deduct(u) \in CacheQueue' => pc'[u] = "done"
          /\ \A u \in Tasks : Deduct(u) \in hands' => Deduct(u) \notin ToSet(writes')
      BY <2>1, <3>1, <3>2, <3>3
      DEF CacheInv, DeductionInv, CacheQueue, BillingInv, TypeOK, ProcessTypes
    <3>6. \A i, j \in 1..Len(writes') :
             writes'[i].kind = "deduct" /\ writes'[i] = writes'[j] => i = j
      <4>1. \A i \in 1..Len(writes) : writes[i] \in CacheQueue
        BY DEF CacheQueue, ToSet, BillingInv, TypeOK, ProcessTypes
      <4>2. \A i \in 1..Len(writes') :
               \/ i \in 1..Len(writes) /\ writes'[i] = writes[i]
               \/ i = Len(writes) + 1 /\ writes'[i] = Deduct(t)
        BY <3>1, <3>2 DEF BillingInv, TypeOK, ProcessTypes
      <4> QED
        BY <3>2, <4>1, <4>2 DEF CacheInv, DeductionInv
    <3>7. DeductionInv'
      BY <3>5, <3>6 DEF DeductionInv
    <3>8. LoadInv'
      BY <2>1, <3>2, <3>3, <3>4 DEF CacheInv, LoadInv, Current
    <3>9. CacheIsExact'
      BY <2>1, <3>1, <3>4, ExactIs, PendingProperties DEF CacheInv
    <3> QED
      BY <3>4, <3>7, <3>8, <3>9 DEF CacheInv
  <2> QED
    BY <2>2, <2>3
<1>21. ASSUME NEW t \in Tasks, DeductBalanceCache(t) PROVE CacheInv'
  <2>1. /\ pc[t] = "fallback" /\ pc' = [pc EXCEPT ![t] = "done"] /\ DeductUserBalance(t)
        /\ UNCHANGED <<cast, balance, writes, hands, load, loads, past>>
    BY <1>21 DEF DeductBalanceCache, Goto
  <2>2. t \in Owed /\ Owed' = Owed \ {t} /\ CacheQueue' = CacheQueue
    BY <2>1 DEF Owed, Owing, CacheQueue, CacheInv, DeductionInv, BillingInv, TypeOK, ProcessTypes,
       Deduct
  <2>3. DeductionInv'
    BY <2>1, <2>2 DEF CacheInv, DeductionInv, CacheQueue, BillingInv, TypeOK, ProcessTypes, Deduct
  <2>4. LoadInv'
    BY <2>1, <2>2 DEF CacheInv, LoadInv, Current
  <2>5. IsFiniteSet(Owed') /\ CacheIsExact'
    BY <2>1, <2>2, DeductionSettles
  <2> QED
    BY <2>3, <2>4, <2>5 DEF CacheInv
<1>22. ASSUME NEW w \in hands, CacheWrite(w) PROVE CacheInv'
  <2>1. hands' = hands \ {w} /\ w \in Write /\ w \in CacheQueue
        /\ UNCHANGED <<cast, balance, pc, writes, load, loads, past>>
    BY <1>22 DEF CacheWrite, CacheQueue, BillingInv, TypeOK, ProcessTypes
  <2>2. CacheQueue' \subseteq CacheQueue /\ \A v \in CacheQueue : v \in CacheQueue' \/ v = w
    BY <2>1 DEF CacheQueue
  <2>3. DeductionInv'
    BY <2>1, <2>2 DEF CacheInv, DeductionInv
  <2>4. CASE w.kind = "deduct"
    <3>1. w.by \in Tasks /\ w = Deduct(w.by) /\ DeductUserBalance(w.by)
      BY <1>22, <2>1, <2>4 DEF Write, Deduct, CacheWrite
    <3>2. pc[w.by] = "done" /\ Deduct(w.by) \notin CacheQueue'
      BY <2>1, <3>1 DEF CacheInv, DeductionInv, CacheQueue
    <3>3. \A u \in Tasks : Deduct(u) = w => u = w.by
      BY <3>1 DEF Deduct
    <3>4. w.by \in Owed /\ Owed' = Owed \ {w.by}
      BY <2>1, <2>2, <3>1, <3>2, <3>3 DEF Owed, Owing, CacheQueue
    <3>5. IsFiniteSet(Owed') /\ CacheIsExact'
      BY <2>1, <3>1, <3>4, DeductionSettles
    <3>6. LoadInv'
      BY <2>1, <2>2, <3>4 DEF CacheInv, LoadInv, Current
    <3> QED
      BY <2>3, <3>5, <3>6 DEF CacheInv
  <2>5. CASE w.kind = "set"
    <3>1. \A u \in Tasks : Deduct(u) # w
      BY <2>5 DEF Deduct
    <3>2. Owed' = Owed
      BY <2>1, <2>2, <3>1 DEF Owed, CacheQueue
    <3>3. LoadInv'
      BY <2>1, <2>2, <3>2 DEF CacheInv, LoadInv, Current
    <3>4. CacheIsExact'
      <4>1. CASE cache' = w.amount /\ clean' = (w.by > past)
        <5>1. ASSUME clean' PROVE w.amount = balance /\ Owed = {}
          BY <2>1, <2>5, <4>1, <5>1 DEF CacheInv, LoadInv, Current
        <5>2. balance \in Int
          BY DEF BillingInv, TypeOK, DatabaseTypes
        <5> QED
          BY <2>1, <3>2, <4>1, <5>1, <5>2, ExactIs, PendingProperties DEF CacheInv
      <4>2. CASE UNCHANGED <<cache, clean>>
        BY <2>1, <3>2, <4>2, ExactIs, PendingProperties DEF CacheInv
      <4> QED
        BY <1>22, <2>5, <4>1, <4>2 DEF CacheWrite
    <3> QED
      BY <2>3, <3>2, <3>3, <3>4 DEF CacheInv
  <2> QED
    BY <1>22, <2>4, <2>5 DEF CacheWrite
<1>23. CASE TakeWrite
  <2>1. /\ writes # <<>> /\ writes \in Seq(Write) /\ Head(writes) \in Write
        /\ hands' = hands \cup {Head(writes)} /\ writes' = Tail(writes)
        /\ UNCHANGED <<cast, balance, pc, cache, clean, load, loads, past>>
    BY <1>23 DEF TakeWrite, BillingInv, TypeOK, ProcessTypes
  <2>2. ToSet(writes) = ToSet(writes') \cup {Head(writes)}
    BY <2>1, QueueElements
  <2>3. CacheQueue' = CacheQueue /\ Owed' = Owed
    BY <2>1, <2>2 DEF CacheQueue, Owed
  <2>4. /\ \A i \in 1..Len(writes') : i + 1 \in 1..Len(writes) /\ writes'[i] = writes[i + 1]
        /\ Head(writes) = writes[1] /\ 1 \in 1..Len(writes)
    BY <2>1
  <2>5. \A i, j \in 1..Len(writes') : writes'[i].kind = "deduct" /\ writes'[i] = writes'[j] => i = j
    <3>1. \A i, j \in 1..Len(writes') :
             writes[i + 1].kind = "deduct" /\ writes[i + 1] = writes[j + 1] => i + 1 = j + 1
      BY <2>4 DEF CacheInv, DeductionInv
    <3> QED
      BY <2>4, <3>1
  <2>6. \A t \in Tasks : Deduct(t) \in hands' => Deduct(t) \notin ToSet(writes')
    <3> SUFFICES ASSUME NEW t \in Tasks, Deduct(t) \in hands', Deduct(t) \in ToSet(writes')
                 PROVE  FALSE
      OBVIOUS
    <3>1. PICK i \in 1..Len(writes') : writes'[i] = Deduct(t)
      BY <2>1 DEF ToSet
    <3>2. Deduct(t) = Head(writes)
      BY <2>1, <2>2 DEF CacheInv, DeductionInv
    <3>3. writes[1] = writes[i + 1] /\ writes[1].kind = "deduct"
      BY <2>4, <3>1, <3>2 DEF Deduct
    <3>4. 1 = i + 1
      BY <2>4, <3>3 DEF CacheInv, DeductionInv
    <3> QED
      BY <3>1, <3>4
  <2>7. DeductionInv'
    BY <2>1, <2>3, <2>5, <2>6 DEF CacheInv, DeductionInv
  <2>8. LoadInv'
    BY <2>1, <2>3 DEF CacheInv, LoadInv, Current
  <2>9. CacheIsExact'
    BY <2>1, <2>3, ExactIs, PendingProperties DEF CacheInv
  <2> QED
    BY <2>3, <2>7, <2>8, <2>9 DEF CacheInv
<1>24. CASE QueueSetBalance
  <2>1. /\ load # None /\ load \in Write /\ load' = None /\ writes \in Seq(Write)
        /\ UNCHANGED <<cast, balance, pc, cache, clean, hands, loads, past>>
    BY <1>24 DEF QueueSetBalance, BillingInv, TypeOK, ProcessTypes
  <2>2. load.kind = "set" /\ \A t \in Tasks : Deduct(t) # load
    BY <2>1 DEF CacheInv, LoadInv, Deduct
  <2>3. \/ writes' = writes
        \/ writes' = Append(writes, load) /\ ToSet(writes') = ToSet(writes) \cup {load}
    BY <1>24, <2>1, QueueElements DEF QueueSetBalance
  <2>4. /\ CacheQueue \subseteq CacheQueue' /\ CacheQueue' \subseteq CacheQueue \cup {load}
        /\ ToSet(writes') \subseteq ToSet(writes) \cup {load}
    BY <2>1, <2>3 DEF CacheQueue
  <2>5. Owed' = Owed
    BY <2>1, <2>2, <2>4 DEF Owed, CacheQueue
  <2>6. \A i, j \in 1..Len(writes') : writes'[i].kind = "deduct" /\ writes'[i] = writes'[j] => i = j
    <3>1. CASE writes' = writes
      BY <3>1 DEF CacheInv, DeductionInv
    <3>2. CASE writes' = Append(writes, load)
      <4>1. \A i \in 1..Len(writes') :
               \/ i \in 1..Len(writes) /\ writes'[i] = writes[i]
               \/ writes'[i] = load
        BY <2>1, <3>2
      <4>2. load.kind # "deduct"
        BY <2>2
      <4> QED
        BY <4>1, <4>2 DEF CacheInv, DeductionInv
    <3> QED
      BY <2>3, <3>1, <3>2
  <2>7. DeductionInv'
    BY <2>1, <2>2, <2>4, <2>6 DEF CacheInv, DeductionInv
  <2>8. LoadInv'
    BY <2>1, <2>4, <2>5 DEF CacheInv, LoadInv, Current
  <2>9. CacheIsExact'
    BY <2>1, <2>5, ExactIs, PendingProperties DEF CacheInv
  <2> QED
    BY <2>1, <2>5, <2>7, <2>8, <2>9 DEF CacheInv
<1>25. CASE LoadBalance
  <2>1. /\ loads' = loads + 1 /\ load' = [kind |-> "set", by |-> loads + 1, amount |-> balance]
        /\ past' = (IF Owed = {} THEN past ELSE loads + 1)
        /\ UNCHANGED <<cast, balance, pc, cache, clean, writes, hands>>
    BY <1>25 DEF LoadBalance
  <2>2. Owed' = Owed /\ CacheQueue' = CacheQueue
    BY <2>1 DEF Owed, CacheQueue
  <2>3. DeductionInv'
    BY <2>1, <2>2 DEF CacheInv, DeductionInv
  <2>4. /\ loads \in Nat /\ past \in Nat /\ past <= loads
        /\ \A w \in CacheQueue : w.kind = "set" => w.by \in Nat
    BY DEF BillingInv, TypeOK, ProcessTypes, BillingAssumption, CacheQueue, Write, Deduct, ToSet
  <2>5. \A w \in CacheQueue : Current(w)'
    BY <2>1, <2>2, <2>4 DEF CacheInv, LoadInv, Current
  <2>6. Current(load)'
    BY <2>1, <2>2, <2>4 DEF Current
  <2>7. CacheIsExact'
    BY <2>1, <2>2, ExactIs, PendingProperties DEF CacheInv
  <2> QED
    BY <2>1, <2>2, <2>3, <2>5, <2>6, <2>7 DEF CacheInv, LoadInv
<1>26. CASE Crash
  <2>1. /\ writes' = <<>> /\ hands' = {} /\ load' = None
        /\ UNCHANGED <<cast, balance, cache, loads, past>>
        /\ clean' => clean /\ (cache = None \/ Owed = {})
        /\ \A t \in Tasks : pc'[t] \notin Owing
    BY <1>26 DEF Crash, Owing, Over
  <2>2. Owed' = {} /\ CacheQueue' = {}
    BY <2>1 DEF Owed, CacheQueue, ToSet
  <2>3. DeductionInv' /\ LoadInv'
    BY <2>1, <2>2 DEF DeductionInv, LoadInv, CacheQueue
  <2>4. CacheIsExact'
    BY <2>1, <2>2, ExactIs, PendingProperties DEF CacheInv
  <2> QED
    BY <2>2, <2>3, <2>4, FS_EmptySet DEF CacheInv
<1>27. CASE UNCHANGED vars
  BY <1>27, QuietStep DEF vars
<1> QED
  BY <1>1, <1>2, <1>3, <1>4, <1>5, <1>6, <1>7, <1>8, <1>9, <1>10, <1>11,
     <1>12, <1>13, <1>14, <1>15, <1>16, <1>17, <1>18, <1>19, <1>20, <1>21,
     <1>22, <1>23, <1>24, <1>25, <1>26, <1>27
  DEF Next, TaskStep, CacheStep, StopStep

\* The cached balance is exact as long as nothing went past it.
THEOREM CachedBalanceIsExact == Spec => []CacheIsExact
<1>1. BillingInv /\ CacheInv /\ [Next]_vars => CacheInv'
  BY CacheStepInv
<1>2. CacheInv => CacheIsExact
  BY DEF CacheInv
<1> QED
  BY BillingInvariance, CacheInit, <1>1, <1>2, PTL DEF Spec
=============================================================================
