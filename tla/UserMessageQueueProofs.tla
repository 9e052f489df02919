------------------------ MODULE UserMessageQueueProofs ------------------------
(***************************************************************************)
(* Proofs about UserMessageQueue for every set of requests and cleaners    *)
(* and every TTL, timeout and delay.                                       *)
(*                                                                         *)
(* QueueInv is the inductive invariant.  Its core is HolderInv; LockInv    *)
(* shows that a release that finds its own id is one of a holder, BareInv  *)
(* that a cleaner deletes the lock of a request only when its TTL was      *)
(* lost.                                                                   *)
(***************************************************************************)
EXTENDS UserMessageQueue, TLAPS

\* The lock is free and nobody waits.
LEMMA QueueInit == Init => QueueInv
<1> SUFFICES ASSUME Init PROVE QueueInv
  OBVIOUS
<1> USE QueueNamesAssumption, QueueTimesAssumption DEF Init
<1>1. /\ faults \in FaultModels /\ lock \in Requests \cup {NoRequest, Orphan}
      /\ ttl \in 0..LockTTL /\ since = None /\ bare = {}
  OBVIOUS
<1>2. /\ pc \in [Requests -> {"idle"}] /\ holding \in [Requests -> {FALSE}]
      /\ left \in [Requests -> {0}] /\ nap \in [Requests -> {0}]
      /\ found \in [Cleaners -> {FALSE}]
  OBVIOUS
<1>3. TypeOK
  BY <1>1, <1>2 DEF TypeOK
<1>4. LockInv /\ BareInv /\ HolderInv /\ NapInv
  BY <1>1, <1>2 DEF LockInv, BareInv, HolderInv, NapInv
<1> QED
  BY <1>3, <1>4 DEF QueueInv

\* Every step keeps the types.
LEMMA QueueTypeStep == QueueInv /\ [Next]_vars => TypeOK'
<1> SUFFICES ASSUME QueueInv, [Next]_vars PROVE TypeOK'
  OBVIOUS
<1> USE QueueNamesAssumption, QueueTimesAssumption DEF QueueInv, TypeOK, NoTTL, None
<1>1. ASSUME NEW r \in Requests, Arrive(r) PROVE TypeOK'
  BY <1>1 DEF Arrive, Goto
<1>2. ASSUME NEW r \in Requests, AcquireLock(r) PROVE TypeOK'
  BY <1>2 DEF AcquireLock, Goto, LockIsFree
<1>3. ASSUME NEW r \in Requests, AcquireAnswerLost(r) PROVE TypeOK'
  BY <1>3 DEF AcquireAnswerLost, LockIsFree, timers
<1>4. ASSUME NEW r \in Requests, GoOnWithoutLock(r) PROVE TypeOK'
  BY <1>4 DEF GoOnWithoutLock, Goto, Forget
<1>5. ASSUME NEW r \in Requests, DelayUnknown(r) PROVE TypeOK'
  BY <1>5 DEF DelayUnknown, Goto, timers
<1>6. ASSUME NEW r \in Requests, DelayOver(r) PROVE TypeOK'
  BY <1>6 DEF DelayOver, Goto, timers
<1>7. ASSUME NEW r \in Requests, DelayInterrupted(r) PROVE TypeOK'
  BY <1>7 DEF DelayInterrupted, Goto, ReleaseLock
<1>8. ASSUME NEW r \in Requests, Accepted(r) PROVE TypeOK'
  BY <1>8 DEF Accepted, Goto, ReleaseLock, timers
<1>9. ASSUME NEW r \in Requests, ReleaseFails(r) PROVE TypeOK'
  BY <1>9 DEF ReleaseFails, Goto, Forget, timers
<1>10. ASSUME NEW r \in Requests, Crash(r) PROVE TypeOK'
  BY <1>10 DEF Crash, Goto, Forget
<1>11. ASSUME NEW r \in Requests, NEW d \in Delays, EnforceDelay(r, d) PROVE TypeOK'
  BY <1>11 DEF EnforceDelay, Goto, Remaining
<1>12. ASSUME NEW c \in Cleaners, ScanLockKeys(c) PROVE TypeOK'
  BY <1>12 DEF ScanLockKeys, timers
<1>13. ASSUME NEW c \in Cleaners, ForceReleaseLock(c) PROVE TypeOK'
  BY <1>13 DEF ForceReleaseLock, timers
<1>14. CASE TTLLost
  BY <1>14 DEF TTLLost, timers
<1>15. CASE Tick
  BY <1>15 DEF Tick, InTime, Less
<1>16. CASE UNCHANGED vars
  BY <1>16 DEF vars, timers
<1> QED
  BY <1>1, <1>2, <1>3, <1>4, <1>5, <1>6, <1>7, <1>8, <1>9, <1>10, <1>11, <1>12,
     <1>13, <1>14, <1>15, <1>16
  DEF Next, Step

\* Every step keeps known ids and the lock together.
LEMMA LockStep == QueueInv /\ [Next]_vars => LockInv'
<1> SUFFICES ASSUME QueueInv, [Next]_vars PROVE LockInv'
  OBVIOUS
<1> USE QueueNamesAssumption, QueueTimesAssumption DEF QueueInv, LockInv, TypeOK, NoTTL, None
<1>1. ASSUME NEW r \in Requests, Arrive(r) PROVE LockInv'
  BY <1>1 DEF Arrive, Goto
<1>2. ASSUME NEW r \in Requests, AcquireLock(r) PROVE LockInv'
  BY <1>2 DEF AcquireLock, Goto, LockIsFree
<1>3. ASSUME NEW r \in Requests, AcquireAnswerLost(r) PROVE LockInv'
  BY <1>3 DEF AcquireAnswerLost, LockIsFree, timers
<1>4. ASSUME NEW r \in Requests, GoOnWithoutLock(r) PROVE LockInv'
  BY <1>4 DEF GoOnWithoutLock, Goto, Forget
<1>5. ASSUME NEW r \in Requests, DelayUnknown(r) PROVE LockInv'
  BY <1>5 DEF DelayUnknown, Goto, timers
<1>6. ASSUME NEW r \in Requests, DelayOver(r) PROVE LockInv'
  BY <1>6 DEF DelayOver, Goto, timers
<1>7. ASSUME NEW r \in Requests, DelayInterrupted(r) PROVE LockInv'
  BY <1>7 DEF DelayInterrupted, Goto, ReleaseLock
<1>8. ASSUME NEW r \in Requests, Accepted(r) PROVE LockInv'
  BY <1>8 DEF Accepted, Goto, ReleaseLock, timers
<1>9. ASSUME NEW r \in Requests, ReleaseFails(r) PROVE LockInv'
  BY <1>9 DEF ReleaseFails, Goto, Forget, timers
<1>10. ASSUME NEW r \in Requests, Crash(r) PROVE LockInv'
  BY <1>10 DEF Crash, Goto, Forget
<1>11. ASSUME NEW r \in Requests, NEW d \in Delays, EnforceDelay(r, d) PROVE LockInv'
  BY <1>11 DEF EnforceDelay, Goto, Remaining
<1>12. ASSUME NEW c \in Cleaners, ScanLockKeys(c) PROVE LockInv'
  BY <1>12 DEF ScanLockKeys, timers
<1>13. ASSUME NEW c \in Cleaners, ForceReleaseLock(c) PROVE LockInv'
  BY <1>13 DEF ForceReleaseLock, timers
<1>14. CASE TTLLost
  BY <1>14 DEF TTLLost, timers
<1>15. CASE Tick
  BY <1>15 DEF Tick, InTime, Less
<1>16. CASE UNCHANGED vars
  BY <1>16 DEF vars, timers
<1> QED
  BY <1>1, <1>2, <1>3, <1>4, <1>5, <1>6, <1>7, <1>8, <1>9, <1>10, <1>11, <1>12,
     <1>13, <1>14, <1>15, <1>16
  DEF Next, Step

\* Every step keeps account of the locks without a TTL.
LEMMA BareStep == QueueInv /\ [Next]_vars => BareInv'
<1> SUFFICES ASSUME QueueInv, [Next]_vars PROVE BareInv'
  OBVIOUS
<1> USE QueueNamesAssumption, QueueTimesAssumption DEF QueueInv, LockInv, BareInv, TypeOK, NoTTL, None
<1>1. ASSUME NEW r \in Requests, Arrive(r) PROVE BareInv'
  BY <1>1 DEF Arrive, Goto
<1>2. ASSUME NEW r \in Requests, AcquireLock(r) PROVE BareInv'
  BY <1>2 DEF AcquireLock, Goto, LockIsFree
<1>3. ASSUME NEW r \in Requests, AcquireAnswerLost(r) PROVE BareInv'
  BY <1>3 DEF AcquireAnswerLost, LockIsFree, timers
<1>4. ASSUME NEW r \in Requests, GoOnWithoutLock(r) PROVE BareInv'
  BY <1>4 DEF GoOnWithoutLock, Goto, Forget
<1>5. ASSUME NEW r \in Requests, DelayUnknown(r) PROVE BareInv'
  BY <1>5 DEF DelayUnknown, Goto, timers
<1>6. ASSUME NEW r \in Requests, DelayOver(r) PROVE BareInv'
  BY <1>6 DEF DelayOver, Goto, timers
<1>7. ASSUME NEW r \in Requests, DelayInterrupted(r) PROVE BareInv'
  BY <1>7 DEF DelayInterrupted, Goto, ReleaseLock
<1>8. ASSUME NEW r \in Requests, Accepted(r) PROVE BareInv'
  BY <1>8 DEF Accepted, Goto, ReleaseLock, timers
<1>9. ASSUME NEW r \in Requests, ReleaseFails(r) PROVE BareInv'
  BY <1>9 DEF ReleaseFails, Goto, Forget, timers
<1>10. ASSUME NEW r \in Requests, Crash(r) PROVE BareInv'
  BY <1>10 DEF Crash, Goto, Forget
<1>11. ASSUME NEW r \in Requests, NEW d \in Delays, EnforceDelay(r, d) PROVE BareInv'
  BY <1>11 DEF EnforceDelay, Goto, Remaining
<1>12. ASSUME NEW c \in Cleaners, ScanLockKeys(c) PROVE BareInv'
  BY <1>12 DEF ScanLockKeys, timers
<1>13. ASSUME NEW c \in Cleaners, ForceReleaseLock(c) PROVE BareInv'
  BY <1>13 DEF ForceReleaseLock, timers
<1>14. CASE TTLLost
  BY <1>14 DEF TTLLost, timers
<1>15. CASE Tick
  BY <1>15 DEF Tick, InTime, Less
<1>16. CASE UNCHANGED vars
  BY <1>16 DEF vars, timers
<1> QED
  BY <1>1, <1>2, <1>3, <1>4, <1>5, <1>6, <1>7, <1>8, <1>9, <1>10, <1>11, <1>12,
     <1>13, <1>14, <1>15, <1>16
  DEF Next, Step

\* Every step leaves the lock to its holder.
LEMMA HolderStep == QueueInv /\ [Next]_vars => HolderInv'
<1> SUFFICES ASSUME QueueInv, [Next]_vars PROVE HolderInv'
  OBVIOUS
<1> USE QueueNamesAssumption, QueueTimesAssumption DEF QueueInv, LockInv, BareInv, HolderInv, TypeOK, NoTTL, None
<1>1. ASSUME NEW r \in Requests, Arrive(r) PROVE HolderInv'
  BY <1>1 DEF Arrive, Goto
<1>2. ASSUME NEW r \in Requests, AcquireLock(r) PROVE HolderInv'
  BY <1>2 DEF AcquireLock, Goto, LockIsFree
<1>3. ASSUME NEW r \in Requests, AcquireAnswerLost(r) PROVE HolderInv'
  BY <1>3 DEF AcquireAnswerLost, LockIsFree, timers
<1>4. ASSUME NEW r \in Requests, GoOnWithoutLock(r) PROVE HolderInv'
  BY <1>4 DEF GoOnWithoutLock, Goto, Forget
<1>5. ASSUME NEW r \in Requests, DelayUnknown(r) PROVE HolderInv'
  BY <1>5 DEF DelayUnknown, Goto, timers
<1>6. ASSUME NEW r \in Requests, DelayOver(r) PROVE HolderInv'
  BY <1>6 DEF DelayOver, Goto, timers
<1>7. ASSUME NEW r \in Requests, DelayInterrupted(r) PROVE HolderInv'
  BY <1>7 DEF DelayInterrupted, Goto, ReleaseLock
<1>8. ASSUME NEW r \in Requests, Accepted(r) PROVE HolderInv'
  BY <1>8 DEF Accepted, Goto, ReleaseLock, timers
<1>9. ASSUME NEW r \in Requests, ReleaseFails(r) PROVE HolderInv'
  BY <1>9 DEF ReleaseFails, Goto, Forget, timers
<1>10. ASSUME NEW r \in Requests, Crash(r) PROVE HolderInv'
  BY <1>10 DEF Crash, Goto, Forget
<1>11. ASSUME NEW r \in Requests, NEW d \in Delays, EnforceDelay(r, d) PROVE HolderInv'
  BY <1>11 DEF EnforceDelay, Goto, Remaining
<1>12. ASSUME NEW c \in Cleaners, ScanLockKeys(c) PROVE HolderInv'
  BY <1>12 DEF ScanLockKeys, timers
<1>13. ASSUME NEW c \in Cleaners, ForceReleaseLock(c) PROVE HolderInv'
  BY <1>13 DEF ForceReleaseLock, timers
<1>14. CASE TTLLost
  BY <1>14 DEF TTLLost, timers
<1>15. CASE Tick
  BY <1>15 DEF Tick, InTime, Less
<1>16. CASE UNCHANGED vars
  BY <1>16 DEF vars, timers
<1> QED
  BY <1>1, <1>2, <1>3, <1>4, <1>5, <1>6, <1>7, <1>8, <1>9, <1>10, <1>11, <1>12,
     <1>13, <1>14, <1>15, <1>16
  DEF Next, Step

\* Every step keeps delays long enough: only the holder of the lock renews the
\* time of the last message.
LEMMA NapStep == QueueInv /\ [Next]_vars => NapInv'
<1> SUFFICES ASSUME QueueInv, [Next]_vars PROVE NapInv'
  OBVIOUS
<1> USE QueueNamesAssumption, QueueTimesAssumption DEF QueueInv, LockInv, BareInv, HolderInv, NapInv, TypeOK, NoTTL, None
<1>1. ASSUME NEW r \in Requests, Arrive(r) PROVE NapInv'
  BY <1>1 DEF Arrive, Goto
<1>2. ASSUME NEW r \in Requests, AcquireLock(r) PROVE NapInv'
  BY <1>2 DEF AcquireLock, Goto, LockIsFree
<1>3. ASSUME NEW r \in Requests, AcquireAnswerLost(r) PROVE NapInv'
  BY <1>3 DEF AcquireAnswerLost, LockIsFree, timers
<1>4. ASSUME NEW r \in Requests, GoOnWithoutLock(r) PROVE NapInv'
  BY <1>4 DEF GoOnWithoutLock, Goto, Forget
<1>5. ASSUME NEW r \in Requests, DelayUnknown(r) PROVE NapInv'
  BY <1>5 DEF DelayUnknown, Goto, timers
<1>6. ASSUME NEW r \in Requests, DelayOver(r) PROVE NapInv'
  BY <1>6 DEF DelayOver, Goto, timers
<1>7. ASSUME NEW r \in Requests, DelayInterrupted(r) PROVE NapInv'
  BY <1>7 DEF DelayInterrupted, Goto, ReleaseLock
<1>8. ASSUME NEW r \in Requests, Accepted(r) PROVE NapInv'
  BY <1>8 DEF Accepted, Goto, ReleaseLock, timers
<1>9. ASSUME NEW r \in Requests, ReleaseFails(r) PROVE NapInv'
  BY <1>9 DEF ReleaseFails, Goto, Forget, timers
<1>10. ASSUME NEW r \in Requests, Crash(r) PROVE NapInv'
  BY <1>10 DEF Crash, Goto, Forget
<1>11. ASSUME NEW r \in Requests, NEW d \in Delays, EnforceDelay(r, d) PROVE NapInv'
  BY <1>11 DEF EnforceDelay, Goto, Remaining
<1>12. ASSUME NEW c \in Cleaners, ScanLockKeys(c) PROVE NapInv'
  BY <1>12 DEF ScanLockKeys, timers
<1>13. ASSUME NEW c \in Cleaners, ForceReleaseLock(c) PROVE NapInv'
  BY <1>13 DEF ForceReleaseLock, timers
<1>14. CASE TTLLost
  BY <1>14 DEF TTLLost, timers
<1>15. CASE Tick
  BY <1>15 DEF Tick, InTime, Less
<1>16. CASE UNCHANGED vars
  BY <1>16 DEF vars, timers
<1> QED
  BY <1>1, <1>2, <1>3, <1>4, <1>5, <1>6, <1>7, <1>8, <1>9, <1>10, <1>11, <1>12,
     <1>13, <1>14, <1>15, <1>16
  DEF Next, Step

\* QueueInv holds in every reachable state.
THEOREM QueueInvariance == Spec => []QueueInv
<1>1. QueueInv /\ [Next]_vars => QueueInv'
  BY QueueTypeStep, LockStep, BareStep, HolderStep, NapStep DEF QueueInv
<1> QED
  BY QueueInit, <1>1, PTL DEF Spec

\* Every variable keeps its type.
THEOREM QueueTypes == Spec => []TypeOK
<1>1. QueueInv => TypeOK
  BY DEF QueueInv
<1> QED
  BY QueueInvariance, <1>1, PTL

\* Neither releases nor cleaners nor forgotten ids take a request's lock.
THEOREM HoldersKeepTheLock == Spec => []HolderKeepsLock
<1>1. QueueInv => HolderKeepsLock
  BY DEF QueueInv, HolderInv, HolderKeepsLock
<1> QED
  BY QueueInvariance, <1>1, PTL

\* While locks keep their TTL and no request outlasts it, the queue implements
\* SingleHolder.
THEOREM MessagesOneAtATime == Spec => OneAtATime
<1>1. Init => Lock!Init
  BY DEF Init, Lock!Init, Holders
<1>2. ASSUME QueueInv, [Next]_vars, faults \cap {"slow", "ttl"} = {}
      PROVE  Lock!Next \/ Holders' = Holders
  <2> USE <1>2 DEF QueueInv, TypeOK
  <2>1. \A r \in Requests : holding[r] => lock = r
    BY DEF BareInv, HolderInv
  <2>2. ASSUME NEW r \in Requests, AcquireLock(r) PROVE Lock!Acquire(r)
    BY <2>1, <2>2, QueueNamesAssumption
       DEF AcquireLock, LockIsFree, LockInv, Lock!Acquire, Holders
  <2>3. ASSUME NEW r \in Requests, holding' = [holding EXCEPT ![r] = FALSE]
        PROVE  Lock!Release(r) \/ Holders' = Holders
    <3>1. Holders' = Holders \ {r}
      BY <2>3 DEF Holders
    <3> QED
      BY <3>1 DEF Lock!Release
  <2>4. ASSUME holding' = holding PROVE Holders' = Holders
    BY <2>4 DEF Holders
  <2>5. ASSUME NEW r \in Requests,
               DelayInterrupted(r) \/ Accepted(r) \/ ReleaseFails(r) \/ Crash(r)
        PROVE  holding' = [holding EXCEPT ![r] = FALSE]
    BY <2>5 DEF DelayInterrupted, Accepted, ReleaseFails, Crash
  <2>6. ASSUME NEW r \in Requests,
               Arrive(r) \/ AcquireAnswerLost(r) \/ GoOnWithoutLock(r) \/ DelayUnknown(r)
               \/ DelayOver(r) \/ \E d \in Delays : EnforceDelay(r, d)
        PROVE  holding' = holding
    BY <2>6 DEF Arrive, AcquireAnswerLost, GoOnWithoutLock, DelayUnknown, DelayOver, EnforceDelay
  <2>7. ASSUME NEW c \in Cleaners, ScanLockKeys(c) \/ ForceReleaseLock(c) PROVE holding' = holding
    BY <2>7 DEF ScanLockKeys, ForceReleaseLock
  <2>8. TTLLost \/ Tick \/ UNCHANGED vars => holding' = holding
    BY DEF TTLLost, Tick, vars
  <2>9. ASSUME NEW r \in Requests, Arrive(r) \/ AcquireAnswerLost(r) \/ Crash(r) \/ Step(r)
        PROVE  Lock!Next \/ Holders' = Holders
    BY <2>2, <2>3, <2>4, <2>5, <2>6, <2>9 DEF Step, Lock!Next
  <2> QED
    BY <2>4, <2>7, <2>8, <2>9 DEF Next
<1>3. QueueInv /\ [Next]_vars => [faults \cap {"slow", "ttl"} = {} => Lock!Next]_Holders
  BY <1>2
<1> QED
  BY QueueInvariance, <1>1, <1>3, PTL DEF Spec, OneAtATime

\* No message is sent sooner than the shortest delay after the one before it.
THEOREM MessagesArePaced == Spec => Paced
<1> DEFINE LongEnough ==
      faults \cap {"slow", "ttl"} = {} =>
         \A r \in Requests :
             pc[r] = "nap" /\ pc'[r] = "forward" /\ holding'[r] =>
                 since = None \/ \E d \in Delays : since >= d
<1>1. QueueInv /\ [Next]_vars => [LongEnough]_vars
  <2> SUFFICES ASSUME QueueInv, Next, faults \cap {"slow", "ttl"} = {}, NEW s \in Requests,
                      pc[s] = "nap", pc'[s] = "forward", holding'[s]
               PROVE  since = None \/ \E d \in Delays : since >= d
    BY DEF vars
  <2> USE DEF QueueInv, TypeOK
  <2>1. ASSUME nap[s] = 0, holding[s] PROVE since = None \/ \E d \in Delays : since >= d
    <3>1. since = None \/ \E d \in Delays : since + nap[s] >= d
      BY <2>1 DEF NapInv
    <3>2. since \in Int /\ \A d \in Delays : since + 0 >= d => since >= d
      BY QueueTimesAssumption DEF None
    <3> QED
      BY <2>1, <3>1, <3>2
  <2>2. ASSUME NEW r \in Requests, DelayOver(r) PROVE nap[s] = 0 /\ holding[s]
    <3>1. pc[s] # pc'[s] /\ holding' = holding
      BY <2>2 DEF DelayOver
    <3>2. s = r
      BY <2>2, <3>1 DEF DelayOver, Goto
    <3> QED
      BY <2>2, <3>1, <3>2 DEF DelayOver
  <2>3. ASSUME NEW r \in Requests,
               DelayInterrupted(r) \/ Accepted(r) \/ ReleaseFails(r) \/ Crash(r)
        PROVE  FALSE
    BY <2>3 DEF DelayInterrupted, Accepted, ReleaseFails, Crash, Goto
  <2>4. ASSUME NEW r \in Requests,
               Arrive(r) \/ AcquireLock(r) \/ AcquireAnswerLost(r) \/ GoOnWithoutLock(r)
               \/ DelayUnknown(r) \/ \E d \in Delays : EnforceDelay(r, d)
        PROVE  FALSE
    BY <2>4 DEF Arrive, AcquireLock, AcquireAnswerLost, GoOnWithoutLock, DelayUnknown,
                EnforceDelay, Goto
  <2>5. ASSUME NEW c \in Cleaners, ScanLockKeys(c) \/ ForceReleaseLock(c) PROVE FALSE
    BY <2>5 DEF ScanLockKeys, ForceReleaseLock
  <2>6. ~TTLLost /\ ~Tick
    BY DEF TTLLost, Tick
  <2> QED
    BY <2>1, <2>2, <2>3, <2>4, <2>5, <2>6 DEF Next, Step
<1> QED
  BY QueueInvariance, <1>1, PTL DEF Spec, Paced
=============================================================================
