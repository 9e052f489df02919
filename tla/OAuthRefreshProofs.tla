------------------------- MODULE OAuthRefreshProofs -------------------------
(***************************************************************************)
(* Proofs about OAuthRefresh for every set of instances and workers.       *)
(*                                                                         *)
(* RefreshInv is the inductive invariant.  OrderInv needs no lock at all:  *)
(* a worker can only exchange the newest refresh token, and while a new    *)
(* pair is not stored nobody can even read the newest one, whatever old    *)
(* pairs a 401 puts back.  The lock is needed for the two statements about *)
(* tokens that do not work: who is refused by the provider may conclude    *)
(* that the stored token is dead only because no other worker is about to  *)
(* store its successor, and, after refresh_token_reused, because the token *)
(* it presented was read under the lock.                                   *)
(***************************************************************************)
EXTENDS OAuthRefresh, TLAPS

\* A fresh pair is stored and nobody is refreshing.
LEMMA OAuthInit == Init => RefreshInv
<1> SUFFICES ASSUME Init PROVE RefreshInv
  OBVIOUS
<1> USE RefreshWorkersAssumption, RefreshBoundsAssumption, RefreshFaultsAssumption DEF Init
<1>1. /\ faults \in FaultModels /\ cred \in Generation /\ stored \in Generation
      /\ live \in Generation /\ due \in -1..MaxGen /\ mishaps \in 0..MaxMishaps
  BY DEF Generation
<1>2. /\ acc \in [Workers -> Generation] /\ fresh \in [Workers -> Generation]
      /\ got \in [Workers -> Generation]
  BY DEF Generation
<1>3. /\ pc \in [Workers -> PC] /\ res \in [Workers -> Result]
      /\ \A w \in Workers : pc[w] # "persist"
  BY DEF PC, Critical, Result
<1>4. TypeOK
  BY <1>1, <1>2, <1>3 DEF TypeOK
<1>5. OrderInv /\ LatestInv /\ ExclusionInv /\ ErrorInv /\ ReplayInv
  BY DEF OrderInv, LatestInv, ExclusionInv, ErrorInv, ReplayInv, Critical
<1> QED
  BY <1>4, <1>5 DEF RefreshInv

\* Every step keeps the types.
LEMMA OAuthTypeStep == RefreshInv /\ [Next]_vars => TypeOK'
<1> SUFFICES ASSUME RefreshInv, [Next]_vars PROVE TypeOK'
  OBVIOUS
<1> USE RefreshWorkersAssumption, RefreshBoundsAssumption, RefreshFaultsAssumption
    DEF RefreshInv, OrderInv, TypeOK, Generation, PC, Critical, Result
<1>1. ASSUME NEW w \in Workers, ProcessRefresh(w) PROVE TypeOK'
  BY <1>1 DEF ProcessRefresh, Goto, NeedsRefresh, tokens, locks
<1>2. ASSUME NEW w \in Workers, GetAccessToken(w) PROVE TypeOK'
  BY <1>2 DEF GetAccessToken, Goto, NeedsRefresh, tokens, locks
<1>3. ASSUME NEW w \in Workers, LockMutex(w) PROVE TypeOK'
  BY <1>3 DEF LockMutex, Goto, tokens
<1>4. ASSUME NEW w \in Workers, AcquireRefreshLock(w) PROVE TypeOK'
  BY <1>4 DEF AcquireRefreshLock, Goto, tokens
<1>5. ASSUME NEW w \in Workers, LockHeld(w) PROVE TypeOK'
  BY <1>5 DEF LockHeld, Goto, tokens
<1>6. ASSUME NEW w \in Workers, Reread(w) PROVE TypeOK'
  BY <1>6 DEF Reread, Goto, NeedsRefresh, tokens, locks
<1>7. ASSUME NEW w \in Workers, Refresh(w) PROVE TypeOK'
  BY <1>7 DEF Refresh, Goto, locks
<1>8. ASSUME NEW w \in Workers, InvalidGrant(w) PROVE TypeOK'
  BY <1>8 DEF InvalidGrant, Goto, tokens, locks
<1>9. ASSUME NEW w \in Workers, RefreshTokenReused(w) PROVE TypeOK'
  BY <1>9 DEF RefreshTokenReused, Goto, Return, tokens, locks
<1>10. ASSUME NEW w \in Workers, RecoverFromRefreshRace(w) PROVE TypeOK'
  BY <1>10 DEF RecoverFromRefreshRace, Goto, Return, tokens, locks
<1>11. ASSUME NEW w \in Workers, Persist(w) PROVE TypeOK'
  BY <1>11 DEF Persist, Goto, Return, locks
<1>12. ASSUME NEW w \in Workers, Release(w) PROVE TypeOK'
  BY <1>12 DEF Release, Goto, tokens
<1>13. ASSUME NEW w \in Workers, BackgroundSkips(w) PROVE TypeOK'
  BY <1>13 DEF BackgroundSkips, Goto, End, tokens, locks
<1>14. ASSUME NEW w \in Workers, BackgroundRetries(w) PROVE TypeOK'
  BY <1>14 DEF BackgroundRetries, Goto, tokens, locks
<1>15. ASSUME NEW w \in Workers, BackgroundExhausted(w) PROVE TypeOK'
  BY <1>15 DEF BackgroundExhausted, Goto, End, tokens, locks
<1>16. ASSUME NEW w \in Workers, BackgroundGivesUp(w) PROVE TypeOK'
  BY <1>16 DEF BackgroundGivesUp, Goto, tokens, locks
<1>17. ASSUME NEW w \in Workers, SetError(w) PROVE TypeOK'
  BY <1>17 DEF SetError, Goto, End, locks
<1>18. ASSUME NEW w \in Workers, BackgroundRefreshed(w) PROVE TypeOK'
  BY <1>18 DEF BackgroundRefreshed, Goto, tokens, locks
<1>19. ASSUME NEW w \in Workers, InvalidateToken(w) PROVE TypeOK'
  BY <1>19 DEF InvalidateToken, Goto, End, tokens, locks
<1>20. ASSUME NEW w \in Workers, RequestGoesOn(w) PROVE TypeOK'
  BY <1>20 DEF RequestGoesOn, Goto, tokens, locks
<1>21. ASSUME NEW w \in Workers, RequestEnds(w) PROVE TypeOK'
  BY <1>21 DEF RequestEnds, Goto, End, tokens, locks
<1>22. ASSUME NEW w \in Workers, TokenIsStale(w) PROVE TypeOK'
  BY <1>22 DEF TokenIsStale, Goto, End, tokens, locks
<1>23. ASSUME NEW w \in Workers, TokenIsLatest(w) PROVE TypeOK'
  BY <1>23 DEF TokenIsLatest, Goto, tokens, locks
<1>24. ASSUME NEW w \in Workers, SetAccessToken(w) PROVE TypeOK'
  BY <1>24 DEF SetAccessToken, Goto, End, tokens, locks
<1>25. ASSUME NEW w \in Workers, LockDegraded(w) PROVE TypeOK'
  BY <1>25 DEF LockDegraded, Goto, tokens, locks
<1>26. ASSUME NEW w \in Workers, RereadFails(w) PROVE TypeOK'
  BY <1>26 DEF RereadFails, Goto, NeedsRefresh, tokens, locks
<1>27. ASSUME NEW w \in Workers, RefreshAnswerLost(w) PROVE TypeOK'
  BY <1>27 DEF RefreshAnswerLost, Goto, Return, locks
<1>28. ASSUME NEW w \in Workers, RefreshFails(w) PROVE TypeOK'
  BY <1>28 DEF RefreshFails, Goto, Return, tokens, locks
<1>29. ASSUME NEW w \in Workers, RecoverFails(w) PROVE TypeOK'
  BY <1>29 DEF RecoverFails, Goto, Return, tokens, locks
<1>30. ASSUME NEW w \in Workers, PersistFails(w) PROVE TypeOK'
  BY <1>30 DEF PersistFails, Goto, Return, tokens, locks
<1>31. ASSUME NEW w \in Workers, ReleaseFails(w) PROVE TypeOK'
  BY <1>31 DEF ReleaseFails, Goto, tokens
<1>32. ASSUME NEW w \in Workers, SetErrorFails(w) PROVE TypeOK'
  BY <1>32 DEF SetErrorFails, Goto, End, tokens, locks
<1>33. ASSUME NEW w \in Workers, CheckFails(w) PROVE TypeOK'
  BY <1>33 DEF CheckFails, Goto, tokens, locks
<1>34. ASSUME NEW w \in Workers, Unauthorized(w) PROVE TypeOK'
  BY <1>34 DEF Unauthorized, locks, call
<1>35. ASSUME NEW i \in Instances, Crash(i) PROVE TypeOK'
  BY <1>35 DEF Crash, tokens
<1>36. CASE Age
  BY <1>36 DEF Age, tokens, locks, call
<1>37. CASE LockExpires
  BY <1>37 DEF LockExpires, tokens, call
<1>38. CASE CacheExpires
  BY <1>38 DEF CacheExpires, tokens, locks, call
<1>39. CASE UNCHANGED vars
  BY <1>39 DEF vars, tokens, locks, call
<1> QED
  BY <1>1, <1>2, <1>3, <1>4, <1>5, <1>6, <1>7, <1>8, <1>9, <1>10, <1>11, <1>12, <1>13, <1>14,
     <1>15, <1>16, <1>17, <1>18, <1>19, <1>20, <1>21, <1>22, <1>23, <1>24, <1>25, <1>26, <1>27,
     <1>28, <1>29, <1>30, <1>31, <1>32, <1>33, <1>34, <1>35, <1>36, <1>37, <1>38, <1>39
  DEF Next, Step, Fault

\* Every step keeps the pairs in order.
LEMMA OrderStep == RefreshInv /\ [Next]_vars => OrderInv'
<1> SUFFICES ASSUME RefreshInv, [Next]_vars PROVE OrderInv'
  OBVIOUS
<1> USE RefreshWorkersAssumption, RefreshBoundsAssumption, RefreshFaultsAssumption
    DEF RefreshInv, OrderInv, TypeOK, Generation, PC, Critical, Result
<1>1. ASSUME NEW w \in Workers, ProcessRefresh(w) PROVE OrderInv'
  BY <1>1 DEF ProcessRefresh, Goto, NeedsRefresh, tokens, locks
<1>2. ASSUME NEW w \in Workers, GetAccessToken(w) PROVE OrderInv'
  BY <1>2 DEF GetAccessToken, Goto, NeedsRefresh, tokens, locks
<1>3. ASSUME NEW w \in Workers, LockMutex(w) PROVE OrderInv'
  BY <1>3 DEF LockMutex, Goto, tokens
<1>4. ASSUME NEW w \in Workers, AcquireRefreshLock(w) PROVE OrderInv'
  BY <1>4 DEF AcquireRefreshLock, Goto, tokens
<1>5. ASSUME NEW w \in Workers, LockHeld(w) PROVE OrderInv'
  BY <1>5 DEF LockHeld, Goto, tokens
<1>6. ASSUME NEW w \in Workers, Reread(w) PROVE OrderInv'
  BY <1>6 DEF Reread, Goto, NeedsRefresh, tokens, locks
<1>7. ASSUME NEW w \in Workers, Refresh(w) PROVE OrderInv'
  BY <1>7 DEF Refresh, Goto, locks
<1>8. ASSUME NEW w \in Workers, InvalidGrant(w) PROVE OrderInv'
  BY <1>8 DEF InvalidGrant, Goto, tokens, locks
<1>9. ASSUME NEW w \in Workers, RefreshTokenReused(w) PROVE OrderInv'
  BY <1>9 DEF RefreshTokenReused, Goto, Return, tokens, locks
<1>10. ASSUME NEW w \in Workers, RecoverFromRefreshRace(w) PROVE OrderInv'
  BY <1>10 DEF RecoverFromRefreshRace, Goto, Return, tokens, locks
<1>11. ASSUME NEW w \in Workers, Persist(w) PROVE OrderInv'
  BY <1>11 DEF Persist, Goto, Return, locks
<1>12. ASSUME NEW w \in Workers, Release(w) PROVE OrderInv'
  BY <1>12 DEF Release, Goto, tokens
<1>13. ASSUME NEW w \in Workers, BackgroundSkips(w) PROVE OrderInv'
  BY <1>13 DEF BackgroundSkips, Goto, End, tokens, locks
<1>14. ASSUME NEW w \in Workers, BackgroundRetries(w) PROVE OrderInv'
  BY <1>14 DEF BackgroundRetries, Goto, tokens, locks
<1>15. ASSUME NEW w \in Workers, BackgroundExhausted(w) PROVE OrderInv'
  BY <1>15 DEF BackgroundExhausted, Goto, End, tokens, locks
<1>16. ASSUME NEW w \in Workers, BackgroundGivesUp(w) PROVE OrderInv'
  BY <1>16 DEF BackgroundGivesUp, Goto, tokens, locks
<1>17. ASSUME NEW w \in Workers, SetError(w) PROVE OrderInv'
  BY <1>17 DEF SetError, Goto, End, locks
<1>18. ASSUME NEW w \in Workers, BackgroundRefreshed(w) PROVE OrderInv'
  BY <1>18 DEF BackgroundRefreshed, Goto, tokens, locks
<1>19. ASSUME NEW w \in Workers, InvalidateToken(w) PROVE OrderInv'
  BY <1>19 DEF InvalidateToken, Goto, End, tokens, locks
<1>20. ASSUME NEW w \in Workers, RequestGoesOn(w) PROVE OrderInv'
  BY <1>20 DEF RequestGoesOn, Goto, tokens, locks
<1>21. ASSUME NEW w \in Workers, RequestEnds(w) PROVE OrderInv'
  BY <1>21 DEF RequestEnds, Goto, End, tokens, locks
<1>22. ASSUME NEW w \in Workers, TokenIsStale(w) PROVE OrderInv'
  BY <1>22 DEF TokenIsStale, Goto, End, tokens, locks
<1>23. ASSUME NEW w \in Workers, TokenIsLatest(w) PROVE OrderInv'
  BY <1>23 DEF TokenIsLatest, Goto, tokens, locks
<1>24. ASSUME NEW w \in Workers, SetAccessToken(w) PROVE OrderInv'
  BY <1>24 DEF SetAccessToken, Goto, End, tokens, locks
<1>25. ASSUME NEW w \in Workers, LockDegraded(w) PROVE OrderInv'
  BY <1>25 DEF LockDegraded, Goto, tokens, locks
<1>26. ASSUME NEW w \in Workers, RereadFails(w) PROVE OrderInv'
  BY <1>26 DEF RereadFails, Goto, NeedsRefresh, tokens, locks
<1>27. ASSUME NEW w \in Workers, RefreshAnswerLost(w) PROVE OrderInv'
  BY <1>27 DEF RefreshAnswerLost, Goto, Return, locks
<1>28. ASSUME NEW w \in Workers, RefreshFails(w) PROVE OrderInv'
  BY <1>28 DEF RefreshFails, Goto, Return, tokens, locks
<1>29. ASSUME NEW w \in Workers, RecoverFails(w) PROVE OrderInv'
  BY <1>29 DEF RecoverFails, Goto, Return, tokens, locks
<1>30. ASSUME NEW w \in Workers, PersistFails(w) PROVE OrderInv'
  BY <1>30 DEF PersistFails, Goto, Return, tokens, locks
<1>31. ASSUME NEW w \in Workers, ReleaseFails(w) PROVE OrderInv'
  BY <1>31 DEF ReleaseFails, Goto, tokens
<1>32. ASSUME NEW w \in Workers, SetErrorFails(w) PROVE OrderInv'
  BY <1>32 DEF SetErrorFails, Goto, End, tokens, locks
<1>33. ASSUME NEW w \in Workers, CheckFails(w) PROVE OrderInv'
  BY <1>33 DEF CheckFails, Goto, tokens, locks
<1>34. ASSUME NEW w \in Workers, Unauthorized(w) PROVE OrderInv'
  BY <1>34 DEF Unauthorized, locks, call
<1>35. ASSUME NEW i \in Instances, Crash(i) PROVE OrderInv'
  BY <1>35 DEF Crash, tokens
<1>36. CASE Age
  BY <1>36 DEF Age, tokens, locks, call
<1>37. CASE LockExpires
  BY <1>37 DEF LockExpires, tokens, call
<1>38. CASE CacheExpires
  BY <1>38 DEF CacheExpires, tokens, locks, call
<1>39. CASE UNCHANGED vars
  BY <1>39 DEF vars, tokens, locks, call
<1> QED
  BY <1>1, <1>2, <1>3, <1>4, <1>5, <1>6, <1>7, <1>8, <1>9, <1>10, <1>11, <1>12, <1>13, <1>14,
     <1>15, <1>16, <1>17, <1>18, <1>19, <1>20, <1>21, <1>22, <1>23, <1>24, <1>25, <1>26, <1>27,
     <1>28, <1>29, <1>30, <1>31, <1>32, <1>33, <1>34, <1>35, <1>36, <1>37, <1>38, <1>39
  DEF Next, Step, Fault

\* Without a 401 the newest pair that was ever stored is stored.
LEMMA LatestStep == RefreshInv /\ "unauthorized" \notin faults /\ [Next]_vars => LatestInv'
<1> SUFFICES ASSUME RefreshInv /\ "unauthorized" \notin faults, [Next]_vars PROVE LatestInv'
  OBVIOUS
<1> USE RefreshWorkersAssumption, RefreshBoundsAssumption, RefreshFaultsAssumption
    DEF RefreshInv, LatestInv, TypeOK, Generation, PC, Critical, Result
<1>1. ASSUME NEW w \in Workers, ProcessRefresh(w) PROVE LatestInv'
  BY <1>1 DEF ProcessRefresh, Goto, NeedsRefresh, tokens, locks
<1>2. ASSUME NEW w \in Workers, GetAccessToken(w) PROVE LatestInv'
  BY <1>2 DEF GetAccessToken, Goto, NeedsRefresh, tokens, locks
<1>3. ASSUME NEW w \in Workers, LockMutex(w) PROVE LatestInv'
  BY <1>3 DEF LockMutex, Goto, tokens
<1>4. ASSUME NEW w \in Workers, AcquireRefreshLock(w) PROVE LatestInv'
  BY <1>4 DEF AcquireRefreshLock, Goto, tokens
<1>5. ASSUME NEW w \in Workers, LockHeld(w) PROVE LatestInv'
  BY <1>5 DEF LockHeld, Goto, tokens
<1>6. ASSUME NEW w \in Workers, Reread(w) PROVE LatestInv'
  BY <1>6 DEF Reread, Goto, NeedsRefresh, tokens, locks
<1>7. ASSUME NEW w \in Workers, Refresh(w) PROVE LatestInv'
  BY <1>7 DEF Refresh, Goto, locks
<1>8. ASSUME NEW w \in Workers, InvalidGrant(w) PROVE LatestInv'
  BY <1>8 DEF InvalidGrant, Goto, tokens, locks
<1>9. ASSUME NEW w \in Workers, RefreshTokenReused(w) PROVE LatestInv'
  BY <1>9 DEF RefreshTokenReused, Goto, Return, tokens, locks
<1>10. ASSUME NEW w \in Workers, RecoverFromRefreshRace(w) PROVE LatestInv'
  BY <1>10 DEF RecoverFromRefreshRace, Goto, Return, tokens, locks
<1>11. ASSUME NEW w \in Workers, Persist(w) PROVE LatestInv'
  BY <1>11 DEF Persist, Goto, Return, locks
<1>12. ASSUME NEW w \in Workers, Release(w) PROVE LatestInv'
  BY <1>12 DEF Release, Goto, tokens
<1>13. ASSUME NEW w \in Workers, BackgroundSkips(w) PROVE LatestInv'
  BY <1>13 DEF BackgroundSkips, Goto, End, tokens, locks
<1>14. ASSUME NEW w \in Workers, BackgroundRetries(w) PROVE LatestInv'
  BY <1>14 DEF BackgroundRetries, Goto, tokens, locks
<1>15. ASSUME NEW w \in Workers, BackgroundExhausted(w) PROVE LatestInv'
  BY <1>15 DEF BackgroundExhausted, Goto, End, tokens, locks
<1>16. ASSUME NEW w \in Workers, BackgroundGivesUp(w) PROVE LatestInv'
  BY <1>16 DEF BackgroundGivesUp, Goto, tokens, locks
<1>17. ASSUME NEW w \in Workers, SetError(w) PROVE LatestInv'
  BY <1>17 DEF SetError, Goto, End, locks
<1>18. ASSUME NEW w \in Workers, BackgroundRefreshed(w) PROVE LatestInv'
  BY <1>18 DEF BackgroundRefreshed, Goto, tokens, locks
<1>19. ASSUME NEW w \in Workers, InvalidateToken(w) PROVE LatestInv'
  BY <1>19 DEF InvalidateToken, Goto, End, tokens, locks
<1>20. ASSUME NEW w \in Workers, RequestGoesOn(w) PROVE LatestInv'
  BY <1>20 DEF RequestGoesOn, Goto, tokens, locks
<1>21. ASSUME NEW w \in Workers, RequestEnds(w) PROVE LatestInv'
  BY <1>21 DEF RequestEnds, Goto, End, tokens, locks
<1>22. ASSUME NEW w \in Workers, TokenIsStale(w) PROVE LatestInv'
  BY <1>22 DEF TokenIsStale, Goto, End, tokens, locks
<1>23. ASSUME NEW w \in Workers, TokenIsLatest(w) PROVE LatestInv'
  BY <1>23 DEF TokenIsLatest, Goto, tokens, locks
<1>24. ASSUME NEW w \in Workers, SetAccessToken(w) PROVE LatestInv'
  BY <1>24 DEF SetAccessToken, Goto, End, tokens, locks
<1>25. ASSUME NEW w \in Workers, LockDegraded(w) PROVE LatestInv'
  BY <1>25 DEF LockDegraded, Goto, tokens, locks
<1>26. ASSUME NEW w \in Workers, RereadFails(w) PROVE LatestInv'
  BY <1>26 DEF RereadFails, Goto, NeedsRefresh, tokens, locks
<1>27. ASSUME NEW w \in Workers, RefreshAnswerLost(w) PROVE LatestInv'
  BY <1>27 DEF RefreshAnswerLost, Goto, Return, locks
<1>28. ASSUME NEW w \in Workers, RefreshFails(w) PROVE LatestInv'
  BY <1>28 DEF RefreshFails, Goto, Return, tokens, locks
<1>29. ASSUME NEW w \in Workers, RecoverFails(w) PROVE LatestInv'
  BY <1>29 DEF RecoverFails, Goto, Return, tokens, locks
<1>30. ASSUME NEW w \in Workers, PersistFails(w) PROVE LatestInv'
  BY <1>30 DEF PersistFails, Goto, Return, tokens, locks
<1>31. ASSUME NEW w \in Workers, ReleaseFails(w) PROVE LatestInv'
  BY <1>31 DEF ReleaseFails, Goto, tokens
<1>32. ASSUME NEW w \in Workers, SetErrorFails(w) PROVE LatestInv'
  BY <1>32 DEF SetErrorFails, Goto, End, tokens, locks
<1>33. ASSUME NEW w \in Workers, CheckFails(w) PROVE LatestInv'
  BY <1>33 DEF CheckFails, Goto, tokens, locks
<1>34. ASSUME NEW w \in Workers, Unauthorized(w) PROVE LatestInv'
  BY <1>34 DEF Unauthorized, locks, call
<1>35. ASSUME NEW i \in Instances, Crash(i) PROVE LatestInv'
  BY <1>35 DEF Crash, tokens
<1>36. CASE Age
  BY <1>36 DEF Age, tokens, locks, call
<1>37. CASE LockExpires
  BY <1>37 DEF LockExpires, tokens, call
<1>38. CASE CacheExpires
  BY <1>38 DEF CacheExpires, tokens, locks, call
<1>39. CASE UNCHANGED vars
  BY <1>39 DEF vars, tokens, locks, call
<1> QED
  BY <1>1, <1>2, <1>3, <1>4, <1>5, <1>6, <1>7, <1>8, <1>9, <1>10, <1>11, <1>12, <1>13, <1>14,
     <1>15, <1>16, <1>17, <1>18, <1>19, <1>20, <1>21, <1>22, <1>23, <1>24, <1>25, <1>26, <1>27,
     <1>28, <1>29, <1>30, <1>31, <1>32, <1>33, <1>34, <1>35, <1>36, <1>37, <1>38, <1>39
  DEF Next, Step, Fault

\* Unless Redis is down or slow, every step keeps refreshes apart.
LEMMA ExclusionStep == RefreshInv /\ faults \cap Overlap = {} /\ [Next]_vars => ExclusionInv'
<1> SUFFICES ASSUME RefreshInv /\ faults \cap Overlap = {}, [Next]_vars PROVE ExclusionInv'
  OBVIOUS
<1> USE RefreshWorkersAssumption, RefreshBoundsAssumption, RefreshFaultsAssumption
    DEF RefreshInv, ExclusionInv, Overlap, TypeOK, Generation, PC, Critical, Result
<1>1. ASSUME NEW w \in Workers, ProcessRefresh(w) PROVE ExclusionInv'
  BY <1>1 DEF ProcessRefresh, Goto, NeedsRefresh, tokens, locks
<1>2. ASSUME NEW w \in Workers, GetAccessToken(w) PROVE ExclusionInv'
  BY <1>2 DEF GetAccessToken, Goto, NeedsRefresh, tokens, locks
<1>3. ASSUME NEW w \in Workers, LockMutex(w) PROVE ExclusionInv'
  BY <1>3 DEF LockMutex, Goto, tokens
<1>4. ASSUME NEW w \in Workers, AcquireRefreshLock(w) PROVE ExclusionInv'
  BY <1>4 DEF AcquireRefreshLock, Goto, tokens
<1>5. ASSUME NEW w \in Workers, LockHeld(w) PROVE ExclusionInv'
  BY <1>5 DEF LockHeld, Goto, tokens
<1>6. ASSUME NEW w \in Workers, Reread(w) PROVE ExclusionInv'
  BY <1>6 DEF Reread, Goto, NeedsRefresh, tokens, locks
<1>7. ASSUME NEW w \in Workers, Refresh(w) PROVE ExclusionInv'
  BY <1>7 DEF Refresh, Goto, locks
<1>8. ASSUME NEW w \in Workers, InvalidGrant(w) PROVE ExclusionInv'
  BY <1>8 DEF InvalidGrant, Goto, tokens, locks
<1>9. ASSUME NEW w \in Workers, RefreshTokenReused(w) PROVE ExclusionInv'
  BY <1>9 DEF RefreshTokenReused, Goto, Return, tokens, locks
<1>10. ASSUME NEW w \in Workers, RecoverFromRefreshRace(w) PROVE ExclusionInv'
  BY <1>10 DEF RecoverFromRefreshRace, Goto, Return, tokens, locks
<1>11. ASSUME NEW w \in Workers, Persist(w) PROVE ExclusionInv'
  BY <1>11 DEF Persist, Goto, Return, locks
<1>12. ASSUME NEW w \in Workers, Release(w) PROVE ExclusionInv'
  BY <1>12 DEF Release, Goto, tokens
<1>13. ASSUME NEW w \in Workers, BackgroundSkips(w) PROVE ExclusionInv'
  BY <1>13 DEF BackgroundSkips, Goto, End, tokens, locks
<1>14. ASSUME NEW w \in Workers, BackgroundRetries(w) PROVE ExclusionInv'
  BY <1>14 DEF BackgroundRetries, Goto, tokens, locks
<1>15. ASSUME NEW w \in Workers, BackgroundExhausted(w) PROVE ExclusionInv'
  BY <1>15 DEF BackgroundExhausted, Goto, End, tokens, locks
<1>16. ASSUME NEW w \in Workers, BackgroundGivesUp(w) PROVE ExclusionInv'
  BY <1>16 DEF BackgroundGivesUp, Goto, tokens, locks
<1>17. ASSUME NEW w \in Workers, SetError(w) PROVE ExclusionInv'
  BY <1>17 DEF SetError, Goto, End, locks
<1>18. ASSUME NEW w \in Workers, BackgroundRefreshed(w) PROVE ExclusionInv'
  BY <1>18 DEF BackgroundRefreshed, Goto, tokens, locks
<1>19. ASSUME NEW w \in Workers, InvalidateToken(w) PROVE ExclusionInv'
  BY <1>19 DEF InvalidateToken, Goto, End, tokens, locks
<1>20. ASSUME NEW w \in Workers, RequestGoesOn(w) PROVE ExclusionInv'
  BY <1>20 DEF RequestGoesOn, Goto, tokens, locks
<1>21. ASSUME NEW w \in Workers, RequestEnds(w) PROVE ExclusionInv'
  BY <1>21 DEF RequestEnds, Goto, End, tokens, locks
<1>22. ASSUME NEW w \in Workers, TokenIsStale(w) PROVE ExclusionInv'
  BY <1>22 DEF TokenIsStale, Goto, End, tokens, locks
<1>23. ASSUME NEW w \in Workers, TokenIsLatest(w) PROVE ExclusionInv'
  BY <1>23 DEF TokenIsLatest, Goto, tokens, locks
<1>24. ASSUME NEW w \in Workers, SetAccessToken(w) PROVE ExclusionInv'
  BY <1>24 DEF SetAccessToken, Goto, End, tokens, locks
<1>25. ASSUME NEW w \in Workers, LockDegraded(w) PROVE ExclusionInv'
  BY <1>25 DEF LockDegraded, Goto, tokens, locks
<1>26. ASSUME NEW w \in Workers, RereadFails(w) PROVE ExclusionInv'
  BY <1>26 DEF RereadFails, Goto, NeedsRefresh, tokens, locks
<1>27. ASSUME NEW w \in Workers, RefreshAnswerLost(w) PROVE ExclusionInv'
  BY <1>27 DEF RefreshAnswerLost, Goto, Return, locks
<1>28. ASSUME NEW w \in Workers, RefreshFails(w) PROVE ExclusionInv'
  BY <1>28 DEF RefreshFails, Goto, Return, tokens, locks
<1>29. ASSUME NEW w \in Workers, RecoverFails(w) PROVE ExclusionInv'
  BY <1>29 DEF RecoverFails, Goto, Return, tokens, locks
<1>30. ASSUME NEW w \in Workers, PersistFails(w) PROVE ExclusionInv'
  BY <1>30 DEF PersistFails, Goto, Return, tokens, locks
<1>31. ASSUME NEW w \in Workers, ReleaseFails(w) PROVE ExclusionInv'
  BY <1>31 DEF ReleaseFails, Goto, tokens
<1>32. ASSUME NEW w \in Workers, SetErrorFails(w) PROVE ExclusionInv'
  BY <1>32 DEF SetErrorFails, Goto, End, tokens, locks
<1>33. ASSUME NEW w \in Workers, CheckFails(w) PROVE ExclusionInv'
  BY <1>33 DEF CheckFails, Goto, tokens, locks
<1>34. ASSUME NEW w \in Workers, Unauthorized(w) PROVE ExclusionInv'
  BY <1>34 DEF Unauthorized, locks, call
<1>35. ASSUME NEW i \in Instances, Crash(i) PROVE ExclusionInv'
  BY <1>35 DEF Crash, tokens
<1>36. CASE Age
  BY <1>36 DEF Age, tokens, locks, call
<1>37. CASE LockExpires
  BY <1>37 DEF LockExpires, tokens, call
<1>38. CASE CacheExpires
  BY <1>38 DEF CacheExpires, tokens, locks, call
<1>39. CASE UNCHANGED vars
  BY <1>39 DEF vars, tokens, locks, call
<1> QED
  BY <1>1, <1>2, <1>3, <1>4, <1>5, <1>6, <1>7, <1>8, <1>9, <1>10, <1>11, <1>12, <1>13, <1>14,
     <1>15, <1>16, <1>17, <1>18, <1>19, <1>20, <1>21, <1>22, <1>23, <1>24, <1>25, <1>26, <1>27,
     <1>28, <1>29, <1>30, <1>31, <1>32, <1>33, <1>34, <1>35, <1>36, <1>37, <1>38, <1>39
  DEF Next, Step, Fault

\* Every step keeps dead pairs dead and errors about dead pairs only.
LEMMA ErrorStep == RefreshInv /\ ~MayMisjudge /\ [Next]_vars => ErrorInv'
<1> SUFFICES ASSUME RefreshInv /\ ~MayMisjudge, [Next]_vars PROVE ErrorInv'
  OBVIOUS
<1> USE RefreshWorkersAssumption, RefreshBoundsAssumption, RefreshFaultsAssumption
    DEF RefreshInv, OrderInv, LatestInv, ExclusionInv, ErrorInv, Dead, MayMisjudge, Overlap,
     TypeOK, Generation, PC, Critical, Result
<1>1. ASSUME NEW w \in Workers, ProcessRefresh(w) PROVE ErrorInv'
  BY <1>1 DEF ProcessRefresh, Goto, NeedsRefresh, tokens, locks
<1>2. ASSUME NEW w \in Workers, GetAccessToken(w) PROVE ErrorInv'
  BY <1>2 DEF GetAccessToken, Goto, NeedsRefresh, tokens, locks
<1>3. ASSUME NEW w \in Workers, LockMutex(w) PROVE ErrorInv'
  BY <1>3 DEF LockMutex, Goto, tokens
<1>4. ASSUME NEW w \in Workers, AcquireRefreshLock(w) PROVE ErrorInv'
  BY <1>4 DEF AcquireRefreshLock, Goto, tokens
<1>5. ASSUME NEW w \in Workers, LockHeld(w) PROVE ErrorInv'
  BY <1>5 DEF LockHeld, Goto, tokens
<1>6. ASSUME NEW w \in Workers, Reread(w) PROVE ErrorInv'
  BY <1>6 DEF Reread, Goto, NeedsRefresh, tokens, locks
<1>7. ASSUME NEW w \in Workers, Refresh(w) PROVE ErrorInv'
  BY <1>7 DEF Refresh, Goto, locks
<1>8. ASSUME NEW w \in Workers, InvalidGrant(w) PROVE ErrorInv'
  BY <1>8 DEF InvalidGrant, Goto, tokens, locks
<1>9. ASSUME NEW w \in Workers, RefreshTokenReused(w) PROVE ErrorInv'
  <2>1. ~MayReplay
    BY <1>9 DEF RefreshTokenReused, MayReplay
  <2>2. fresh[w] = cred /\ pc[w] = "refresh"
    BY <1>9, <2>1 DEF RefreshTokenReused, ReplayInv
  <2> QED
    BY <1>9, <2>2 DEF RefreshTokenReused, Goto, Return, tokens, locks
<1>10. ASSUME NEW w \in Workers, RecoverFromRefreshRace(w) PROVE ErrorInv'
  BY <1>10 DEF RecoverFromRefreshRace, Goto, Return, tokens, locks
<1>11. ASSUME NEW w \in Workers, Persist(w) PROVE ErrorInv'
  BY <1>11 DEF Persist, Goto, Return, locks
<1>12. ASSUME NEW w \in Workers, Release(w) PROVE ErrorInv'
  BY <1>12 DEF Release, Goto, tokens
<1>13. ASSUME NEW w \in Workers, BackgroundSkips(w) PROVE ErrorInv'
  BY <1>13 DEF BackgroundSkips, Goto, End, tokens, locks
<1>14. ASSUME NEW w \in Workers, BackgroundRetries(w) PROVE ErrorInv'
  BY <1>14 DEF BackgroundRetries, Goto, tokens, locks
<1>15. ASSUME NEW w \in Workers, BackgroundExhausted(w) PROVE ErrorInv'
  BY <1>15 DEF BackgroundExhausted, Goto, End, tokens, locks
<1>16. ASSUME NEW w \in Workers, BackgroundGivesUp(w) PROVE ErrorInv'
  BY <1>16 DEF BackgroundGivesUp, Goto, tokens, locks
<1>17. ASSUME NEW w \in Workers, SetError(w) PROVE ErrorInv'
  BY <1>17 DEF SetError, Goto, End, locks
<1>18. ASSUME NEW w \in Workers, BackgroundRefreshed(w) PROVE ErrorInv'
  BY <1>18 DEF BackgroundRefreshed, Goto, tokens, locks
<1>19. ASSUME NEW w \in Workers, InvalidateToken(w) PROVE ErrorInv'
  BY <1>19 DEF InvalidateToken, Goto, End, tokens, locks
<1>20. ASSUME NEW w \in Workers, RequestGoesOn(w) PROVE ErrorInv'
  BY <1>20 DEF RequestGoesOn, Goto, tokens, locks
<1>21. ASSUME NEW w \in Workers, RequestEnds(w) PROVE ErrorInv'
  BY <1>21 DEF RequestEnds, Goto, End, tokens, locks
<1>22. ASSUME NEW w \in Workers, TokenIsStale(w) PROVE ErrorInv'
  BY <1>22 DEF TokenIsStale, Goto, End, tokens, locks
<1>23. ASSUME NEW w \in Workers, TokenIsLatest(w) PROVE ErrorInv'
  BY <1>23 DEF TokenIsLatest, Goto, tokens, locks
<1>24. ASSUME NEW w \in Workers, SetAccessToken(w) PROVE ErrorInv'
  BY <1>24 DEF SetAccessToken, Goto, End, tokens, locks
<1>25. ASSUME NEW w \in Workers, LockDegraded(w) PROVE ErrorInv'
  BY <1>25 DEF LockDegraded, Goto, tokens, locks
<1>26. ASSUME NEW w \in Workers, RereadFails(w) PROVE ErrorInv'
  BY <1>26 DEF RereadFails, Goto, NeedsRefresh, tokens, locks
<1>27. ASSUME NEW w \in Workers, RefreshAnswerLost(w) PROVE ErrorInv'
  BY <1>27 DEF RefreshAnswerLost, Goto, Return, locks
<1>28. ASSUME NEW w \in Workers, RefreshFails(w) PROVE ErrorInv'
  BY <1>28 DEF RefreshFails, Goto, Return, tokens, locks
<1>29. ASSUME NEW w \in Workers, RecoverFails(w) PROVE ErrorInv'
  BY <1>29 DEF RecoverFails, Goto, Return, tokens, locks
<1>30. ASSUME NEW w \in Workers, PersistFails(w) PROVE ErrorInv'
  BY <1>30 DEF PersistFails, Goto, Return, tokens, locks
<1>31. ASSUME NEW w \in Workers, ReleaseFails(w) PROVE ErrorInv'
  BY <1>31 DEF ReleaseFails, Goto, tokens
<1>32. ASSUME NEW w \in Workers, SetErrorFails(w) PROVE ErrorInv'
  BY <1>32 DEF SetErrorFails, Goto, End, tokens, locks
<1>33. ASSUME NEW w \in Workers, CheckFails(w) PROVE ErrorInv'
  BY <1>33 DEF CheckFails, Goto, tokens, locks
<1>34. ASSUME NEW w \in Workers, Unauthorized(w) PROVE ErrorInv'
  BY <1>34 DEF Unauthorized, locks, call
<1>35. ASSUME NEW i \in Instances, Crash(i) PROVE ErrorInv'
  BY <1>35 DEF Crash, tokens
<1>36. CASE Age
  BY <1>36 DEF Age, tokens, locks, call
<1>37. CASE LockExpires
  BY <1>37 DEF LockExpires, tokens, call
<1>38. CASE CacheExpires
  BY <1>38 DEF CacheExpires, tokens, locks, call
<1>39. CASE UNCHANGED vars
  BY <1>39 DEF vars, tokens, locks, call
<1> QED
  BY <1>1, <1>2, <1>3, <1>4, <1>5, <1>6, <1>7, <1>8, <1>9, <1>10, <1>11, <1>12, <1>13, <1>14,
     <1>15, <1>16, <1>17, <1>18, <1>19, <1>20, <1>21, <1>22, <1>23, <1>24, <1>25, <1>26, <1>27,
     <1>28, <1>29, <1>30, <1>31, <1>32, <1>33, <1>34, <1>35, <1>36, <1>37, <1>38, <1>39
  DEF Next, Step, Fault

\* Every step keeps used tokens unused as long as the account is read under the
\* lock.
LEMMA ReplayStep == RefreshInv /\ ~MayReplay /\ [Next]_vars => ReplayInv'
<1> SUFFICES ASSUME RefreshInv /\ ~MayReplay, [Next]_vars PROVE ReplayInv'
  OBVIOUS
<1> USE RefreshWorkersAssumption, RefreshBoundsAssumption, RefreshFaultsAssumption
    DEF RefreshInv, OrderInv, LatestInv, ExclusionInv, ReplayInv, Dead, MayReplay, Overlap,
     TypeOK, Generation, PC, Critical, Result
<1>1. ASSUME NEW w \in Workers, ProcessRefresh(w) PROVE ReplayInv'
  BY <1>1 DEF ProcessRefresh, Goto, NeedsRefresh, tokens, locks
<1>2. ASSUME NEW w \in Workers, GetAccessToken(w) PROVE ReplayInv'
  BY <1>2 DEF GetAccessToken, Goto, NeedsRefresh, tokens, locks
<1>3. ASSUME NEW w \in Workers, LockMutex(w) PROVE ReplayInv'
  BY <1>3 DEF LockMutex, Goto, tokens
<1>4. ASSUME NEW w \in Workers, AcquireRefreshLock(w) PROVE ReplayInv'
  BY <1>4 DEF AcquireRefreshLock, Goto, tokens
<1>5. ASSUME NEW w \in Workers, LockHeld(w) PROVE ReplayInv'
  BY <1>5 DEF LockHeld, Goto, tokens
<1>6. ASSUME NEW w \in Workers, Reread(w) PROVE ReplayInv'
  BY <1>6 DEF Reread, Goto, NeedsRefresh, tokens, locks
<1>7. ASSUME NEW w \in Workers, Refresh(w) PROVE ReplayInv'
  BY <1>7 DEF Refresh, Goto, locks
<1>8. ASSUME NEW w \in Workers, InvalidGrant(w) PROVE ReplayInv'
  BY <1>8 DEF InvalidGrant, Goto, tokens, locks
<1>9. ASSUME NEW w \in Workers, RefreshTokenReused(w) PROVE ReplayInv'
  BY <1>9 DEF RefreshTokenReused, Goto, Return, tokens, locks
<1>10. ASSUME NEW w \in Workers, RecoverFromRefreshRace(w) PROVE ReplayInv'
  BY <1>10 DEF RecoverFromRefreshRace, Goto, Return, tokens, locks
<1>11. ASSUME NEW w \in Workers, Persist(w) PROVE ReplayInv'
  BY <1>11 DEF Persist, Goto, Return, locks
<1>12. ASSUME NEW w \in Workers, Release(w) PROVE ReplayInv'
  BY <1>12 DEF Release, Goto, tokens
<1>13. ASSUME NEW w \in Workers, BackgroundSkips(w) PROVE ReplayInv'
  BY <1>13 DEF BackgroundSkips, Goto, End, tokens, locks
<1>14. ASSUME NEW w \in Workers, BackgroundRetries(w) PROVE ReplayInv'
  BY <1>14 DEF BackgroundRetries, Goto, tokens, locks
<1>15. ASSUME NEW w \in Workers, BackgroundExhausted(w) PROVE ReplayInv'
  BY <1>15 DEF BackgroundExhausted, Goto, End, tokens, locks
<1>16. ASSUME NEW w \in Workers, BackgroundGivesUp(w) PROVE ReplayInv'
  BY <1>16 DEF BackgroundGivesUp, Goto, tokens, locks
<1>17. ASSUME NEW w \in Workers, SetError(w) PROVE ReplayInv'
  BY <1>17 DEF SetError, Goto, End, locks
<1>18. ASSUME NEW w \in Workers, BackgroundRefreshed(w) PROVE ReplayInv'
  BY <1>18 DEF BackgroundRefreshed, Goto, tokens, locks
<1>19. ASSUME NEW w \in Workers, InvalidateToken(w) PROVE ReplayInv'
  BY <1>19 DEF InvalidateToken, Goto, End, tokens, locks
<1>20. ASSUME NEW w \in Workers, RequestGoesOn(w) PROVE ReplayInv'
  BY <1>20 DEF RequestGoesOn, Goto, tokens, locks
<1>21. ASSUME NEW w \in Workers, RequestEnds(w) PROVE ReplayInv'
  BY <1>21 DEF RequestEnds, Goto, End, tokens, locks
<1>22. ASSUME NEW w \in Workers, TokenIsStale(w) PROVE ReplayInv'
  BY <1>22 DEF TokenIsStale, Goto, End, tokens, locks
<1>23. ASSUME NEW w \in Workers, TokenIsLatest(w) PROVE ReplayInv'
  BY <1>23 DEF TokenIsLatest, Goto, tokens, locks
<1>24. ASSUME NEW w \in Workers, SetAccessToken(w) PROVE ReplayInv'
  BY <1>24 DEF SetAccessToken, Goto, End, tokens, locks
<1>25. ASSUME NEW w \in Workers, LockDegraded(w) PROVE ReplayInv'
  BY <1>25 DEF LockDegraded, Goto, tokens, locks
<1>26. ASSUME NEW w \in Workers, RereadFails(w) PROVE ReplayInv'
  BY <1>26 DEF RereadFails, Goto, NeedsRefresh, tokens, locks
<1>27. ASSUME NEW w \in Workers, RefreshAnswerLost(w) PROVE ReplayInv'
  BY <1>27 DEF RefreshAnswerLost, Goto, Return, locks
<1>28. ASSUME NEW w \in Workers, RefreshFails(w) PROVE ReplayInv'
  BY <1>28 DEF RefreshFails, Goto, Return, tokens, locks
<1>29. ASSUME NEW w \in Workers, RecoverFails(w) PROVE ReplayInv'
  BY <1>29 DEF RecoverFails, Goto, Return, tokens, locks
<1>30. ASSUME NEW w \in Workers, PersistFails(w) PROVE ReplayInv'
  BY <1>30 DEF PersistFails, Goto, Return, tokens, locks
<1>31. ASSUME NEW w \in Workers, ReleaseFails(w) PROVE ReplayInv'
  BY <1>31 DEF ReleaseFails, Goto, tokens
<1>32. ASSUME NEW w \in Workers, SetErrorFails(w) PROVE ReplayInv'
  BY <1>32 DEF SetErrorFails, Goto, End, tokens, locks
<1>33. ASSUME NEW w \in Workers, CheckFails(w) PROVE ReplayInv'
  BY <1>33 DEF CheckFails, Goto, tokens, locks
<1>34. ASSUME NEW w \in Workers, Unauthorized(w) PROVE ReplayInv'
  BY <1>34 DEF Unauthorized, locks, call
<1>35. ASSUME NEW i \in Instances, Crash(i) PROVE ReplayInv'
  BY <1>35 DEF Crash, tokens
<1>36. CASE Age
  BY <1>36 DEF Age, tokens, locks, call
<1>37. CASE LockExpires
  BY <1>37 DEF LockExpires, tokens, call
<1>38. CASE CacheExpires
  BY <1>38 DEF CacheExpires, tokens, locks, call
<1>39. CASE UNCHANGED vars
  BY <1>39 DEF vars, tokens, locks, call
<1> QED
  BY <1>1, <1>2, <1>3, <1>4, <1>5, <1>6, <1>7, <1>8, <1>9, <1>10, <1>11, <1>12, <1>13, <1>14,
     <1>15, <1>16, <1>17, <1>18, <1>19, <1>20, <1>21, <1>22, <1>23, <1>24, <1>25, <1>26, <1>27,
     <1>28, <1>29, <1>30, <1>31, <1>32, <1>33, <1>34, <1>35, <1>36, <1>37, <1>38, <1>39
  DEF Next, Step, Fault

\* What may fail is settled at the start.
LEMMA FaultsAreFixed == [Next]_vars => faults' = faults
<1> SUFFICES ASSUME [Next]_vars PROVE faults' = faults
  OBVIOUS
<1>1. ASSUME NEW w \in Workers, ProcessRefresh(w) \/ GetAccessToken(w) PROVE faults' = faults
  BY <1>1 DEF ProcessRefresh, GetAccessToken
<1>2. ASSUME NEW w \in Workers, Step(w) PROVE faults' = faults
  BY <1>2 DEF Step, LockMutex, AcquireRefreshLock, LockHeld, Reread, Refresh, InvalidGrant,
     RefreshTokenReused, RecoverFromRefreshRace, Persist, Release, BackgroundSkips, BackgroundRetries, BackgroundExhausted,
     BackgroundGivesUp, SetError, BackgroundRefreshed, InvalidateToken, RequestGoesOn, RequestEnds,
     TokenIsStale, TokenIsLatest, SetAccessToken
<1>3. ASSUME NEW w \in Workers, Fault(w) PROVE faults' = faults
  BY <1>3 DEF Fault, LockDegraded, RereadFails, RefreshAnswerLost, RefreshFails, RecoverFails, PersistFails,
     ReleaseFails, SetErrorFails, CheckFails, Unauthorized
<1>4. ASSUME NEW i \in Instances, Crash(i) PROVE faults' = faults
  BY <1>4 DEF Crash
<1>5. CASE Age \/ LockExpires \/ CacheExpires
  BY <1>5 DEF Age, LockExpires, CacheExpires
<1>6. CASE UNCHANGED vars
  BY <1>6 DEF vars
<1> QED
  BY <1>1, <1>2, <1>3, <1>4, <1>5, <1>6 DEF Next

\* RefreshInv holds in every reachable state.
THEOREM OAuthInvariance == Spec => []RefreshInv
<1>1. RefreshInv /\ [Next]_vars => RefreshInv'
  <2> SUFFICES ASSUME RefreshInv, [Next]_vars PROVE RefreshInv'
    OBVIOUS
  <2>1. TypeOK' /\ OrderInv'
    BY OAuthTypeStep, OrderStep
  <2>2. faults' = faults
    BY FaultsAreFixed
  <2>3. "unauthorized" \notin faults => LatestInv'
    BY LatestStep
  <2>4. faults \cap Overlap = {} => ExclusionInv'
    BY ExclusionStep
  <2>5. ~MayMisjudge => ErrorInv'
    BY ErrorStep
  <2>6. ~MayReplay => ReplayInv'
    BY ReplayStep
  <2> QED
    BY <2>1, <2>2, <2>3, <2>4, <2>5, <2>6 DEF RefreshInv, Overlap, MayMisjudge, MayReplay
<1> QED
  BY OAuthInit, <1>1, PTL DEF Spec

\* Every variable keeps its type.
THEOREM OAuthTypes == Spec => []TypeOK
<1>1. RefreshInv => TypeOK
  BY DEF RefreshInv
<1> QED
  BY OAuthInvariance, <1>1, PTL

\* An account is reported only when its token is dead, whatever crashes, lost
\* answers and failed UPDATEs there are, and whatever a used token is refused
\* with as long as the account is read under the lock.
THEOREM ErrorsAreReal == Spec => []ErrorMeansDead
<1>1. RefreshInv => ErrorMeansDead
  BY DEF RefreshInv, ErrorInv, ErrorMeansDead, Dead
<1> QED
  BY OAuthInvariance, <1>1, PTL

\* No refresh token is used twice while its successor exists.
THEOREM TokensUsedOnce == Spec => []NoNeedlessReplay
<1>1. RefreshInv => NoNeedlessReplay
  BY DEF RefreshInv, ReplayInv, NoNeedlessReplay, Dead
<1> QED
  BY OAuthInvariance, <1>1, PTL

\* Only a 401 takes the stored pair back, under every set of faults.
THEOREM CredentialsNeverGoBack == Spec => CredentialsAdvance
<1>1. RefreshInv /\ [Next]_vars => [cred' < cred => \E w \in Requests : Unauthorized(w)]_cred
  <2> SUFFICES ASSUME RefreshInv, [Next]_vars, cred' # cred, ~(\E w \in Requests : Unauthorized(w))
               PROVE  ~(cred' < cred)
    OBVIOUS
  <2>1. ASSUME NEW w \in Workers, Persist(w) PROVE ~(cred' < cred)
    BY <2>1, RefreshBoundsAssumption DEF Persist, RefreshInv, OrderInv, TypeOK, Generation
  <2>2. ASSUME NEW w \in Workers, ~Persist(w), Step(w) PROVE FALSE
    BY <2>2 DEF Step, tokens, LockMutex, AcquireRefreshLock, LockHeld, Reread, Refresh, InvalidGrant,
     RefreshTokenReused, RecoverFromRefreshRace, Release, BackgroundSkips, BackgroundRetries,
     BackgroundExhausted, BackgroundGivesUp, SetError, BackgroundRefreshed, InvalidateToken,
     RequestGoesOn, RequestEnds, TokenIsStale, TokenIsLatest, SetAccessToken
  <2>3. ASSUME NEW w \in Workers, ~Unauthorized(w), Fault(w) PROVE FALSE
    BY <2>3 DEF Fault, tokens, LockDegraded, RereadFails, RefreshAnswerLost, RefreshFails, RecoverFails,
     PersistFails, ReleaseFails, SetErrorFails, CheckFails
  <2>4. ASSUME NEW w \in Workers, Unauthorized(w) PROVE FALSE
    BY <2>4 DEF Unauthorized
  <2>5. ASSUME NEW w \in Workers, ProcessRefresh(w) \/ GetAccessToken(w) PROVE FALSE
    BY <2>5 DEF ProcessRefresh, GetAccessToken, tokens
  <2>6. ASSUME NEW i \in Instances, Crash(i) PROVE FALSE
    BY <2>6 DEF Crash, tokens
  <2>7. ~(Age \/ LockExpires \/ CacheExpires) /\ ~UNCHANGED vars
    BY DEF Age, LockExpires, CacheExpires, vars, tokens
  <2> QED
    BY <2>1, <2>2, <2>3, <2>4, <2>5, <2>6, <2>7 DEF Next
<1> QED
  BY OAuthInvariance, <1>1, PTL DEF Spec, CredentialsAdvance
=============================================================================
