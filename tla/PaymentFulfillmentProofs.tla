--------------------- MODULE PaymentFulfillmentProofs ---------------------
(***************************************************************************)
(* Proofs about PaymentFulfillment for every set of orders and workers.     *)
(*                                                                         *)
(* FulfillmentInv is the inductive invariant.  None of its parts is         *)
(* inductive alone: the RECHARGING lock (LockInv) is safe from the          *)
(* unconditional FAILED of CreateOrder only because a locked order is paid  *)
(* (PaidInv) and a paid order is not being created (CreationInv); the       *)
(* ledgers (LedgerInv) agree only because one goroutine works on them.      *)
(***************************************************************************)
EXTENDS PaymentFulfillment, TLAPS

\* The database starts without orders and no goroutine runs.
LEMMA InitInv == Init => FulfillmentInv
<1> SUFFICES ASSUME Init PROVE FulfillmentInv
  OBVIOUS
<1> USE OrdersAssumption, GrantsAssumption DEF Init
<1>1. TypeOK
  BY DEF TypeOK, Status, PayState, PC, Delivering, Caller, AuditAction
<1>2. CreationInv
  BY DEF CreationInv, Creating
<1>3. PaidInv
  BY DEF PaidInv, Confirmed, Delivering
<1>4. LockInv
  BY DEF LockInv, OneFulfiller, Delivering
<1>5. LedgerInv
  BY DEF LedgerInv, CompletedIsDelivered
<1> QED
  BY <1>1, <1>2, <1>3, <1>4, <1>5 DEF FulfillmentInv

\* Every step keeps the types; the bound on granted needs the recharge code.
LEMMA TypeStep == FulfillmentInv /\ [Next]_vars => TypeOK'
<1> SUFFICES ASSUME FulfillmentInv, [Next]_vars PROVE TypeOK'
  OBVIOUS
<1> USE OrdersAssumption, GrantsAssumption, FaultsAssumption
    DEF FulfillmentInv, TypeOK, Status, PayState, PC, Delivering, Caller, AuditAction, LedgerInv
<1>1. ASSUME NEW w \in Workers, NEW o \in Orders, CreateOrder(w, o) PROVE TypeOK'
  BY <1>1 DEF CreateOrder, Enter, UpdateRow, ledgerVars, envVars
<1>2. ASSUME NEW w \in Workers, NEW o \in Orders, Webhook(w, o) PROVE TypeOK'
  BY <1>2 DEF Webhook, Enter, rowVars, ledgerVars, envVars
<1>3. ASSUME NEW w \in Workers, NEW o \in Orders, VerifyOrder(w, o) PROVE TypeOK'
  BY <1>3 DEF VerifyOrder, Enter, rowVars, ledgerVars, envVars
<1>4. ASSUME NEW w \in Workers, NEW o \in Orders, ReconcilePending(w, o) PROVE TypeOK'
  BY <1>4 DEF ReconcilePending, Enter, rowVars, ledgerVars, envVars
<1>5. ASSUME NEW w \in Workers, NEW o \in Orders, CancelOrder(w, o) PROVE TypeOK'
  BY <1>5 DEF CancelOrder, Enter, rowVars, ledgerVars, envVars
<1>6. ASSUME NEW w \in Workers, NEW o \in Orders, ExpireTimedOut(w, o) PROVE TypeOK'
  BY <1>6 DEF ExpireTimedOut, Enter, rowVars, ledgerVars, envVars
<1>7. ASSUME NEW w \in Workers, NEW o \in Orders, RetryFulfillment(w, o) PROVE TypeOK'
  BY <1>7 DEF RetryFulfillment, Enter, rowVars, ledgerVars, envVars
<1>8. ASSUME NEW w \in Workers, InvokeProvider(w) PROVE TypeOK'
  BY <1>8 DEF InvokeProvider, Goto, rowVars, ledgerVars, envVars
<1>9. ASSUME NEW w \in Workers, SavePaymentDetails(w) PROVE TypeOK'
  BY <1>9 DEF SavePaymentDetails, GotoOrReturn, Return, UpdateRow, ledgerVars
<1>10. ASSUME NEW w \in Workers, MarkCreateFailed(w) PROVE TypeOK'
  BY <1>10 DEF MarkCreateFailed, GotoOrReturn, Return, UpdateRow, ledgerVars, envVars
<1>11. ASSUME NEW w \in Workers, ResetForRetry(w) PROVE TypeOK'
  BY <1>11 DEF ResetForRetry, Goto, UpdateRowWhere, ledgerVars, envVars
<1>12. ASSUME NEW w \in Workers, QueryPaid(w) PROVE TypeOK'
  BY <1>12 DEF QueryPaid, Goto, rowVars, ledgerVars, envVars
<1>13. ASSUME NEW w \in Workers, QueryUnpaid(w) PROVE TypeOK'
  BY <1>13 DEF QueryUnpaid, GotoOrReturn, Closing, rowVars, ledgerVars, envVars
<1>14. ASSUME NEW w \in Workers, PersistTradeNo(w) PROVE TypeOK'
  BY <1>14 DEF PersistTradeNo, Goto, UpdateRow, ledgerVars, envVars
<1>15. ASSUME NEW w \in Workers, CloseUpstream(w) PROVE TypeOK'
  BY <1>15 DEF CloseUpstream, Goto, rowVars, ledgerVars
<1>16. ASSUME NEW w \in Workers, CancelRow(w) PROVE TypeOK'
  BY <1>16 DEF CancelRow, GotoOrReturn, Return, UpdateRowWhere, ledgerVars, envVars
<1>17. ASSUME NEW w \in Workers, Confirm(w) PROVE TypeOK'
  BY <1>17 DEF Confirm, Goto, rowVars, ledgerVars, envVars
<1>18. ASSUME NEW w \in Workers, RejectNotification(w) PROVE TypeOK'
  BY <1>18 DEF RejectNotification, GotoOrReturn, Return, rowVars, ledgerVars, envVars
<1>19. ASSUME NEW w \in Workers, ToPaid(w) PROVE TypeOK'
  BY <1>19 DEF ToPaid, Goto, UpdateRow, AcceptsPayment, ledgerVars, envVars
<1>20. ASSUME NEW w \in Workers, ToPaidRefused(w) PROVE TypeOK'
  BY <1>20 DEF ToPaidRefused, Goto, AcceptsPayment, rowVars, ledgerVars, envVars
<1>21. ASSUME NEW w \in Workers, AlreadyProcessed(w) PROVE TypeOK'
  BY <1>21 DEF AlreadyProcessed, GotoOrReturn, rowVars, envVars
<1>22. ASSUME NEW w \in Workers, LoadForFulfillment(w) PROVE TypeOK'
  BY <1>22 DEF LoadForFulfillment, GotoOrReturn, rowVars, ledgerVars, envVars
<1>23. ASSUME NEW w \in Workers, Lock(w) PROVE TypeOK'
  BY <1>23 DEF Lock, GotoOrReturn, UpdateRowWhere, ledgerVars, envVars
<1>24. ASSUME NEW w \in Workers, LookupCode(w) PROVE TypeOK'
  BY <1>24 DEF LookupCode, Goto, OrOnFault, RedeemAction, rowVars, ledgerVars, envVars
<1>25. ASSUME NEW w \in Workers, CreateCode(w) PROVE TypeOK'
  BY <1>25 DEF CreateCode, Goto, OrOnFault, rowVars, envVars
<1>26. ASSUME NEW w \in Workers, Redeem(w) PROVE TypeOK'
  BY <1>26 DEF Redeem, Goto, OrOnFault, rowVars, envVars
<1>27. ASSUME NEW w \in Workers, ApplyRebate(w) PROVE TypeOK'
  BY <1>27 DEF ApplyRebate, Goto, OrOnFault, rowVars, envVars
<1>28. ASSUME NEW w \in Workers, LookupSubscriptionAudit(w) PROVE TypeOK'
  BY <1>28 DEF LookupSubscriptionAudit, Goto, OrOnFault, rowVars, ledgerVars, envVars
<1>29. ASSUME NEW w \in Workers, AssignOrExtend(w) PROVE TypeOK'
  BY <1>29 DEF AssignOrExtend, Goto, OrOnFault, rowVars, envVars
<1>30. ASSUME NEW w \in Workers, MarkCompleted(w) PROVE TypeOK'
  BY <1>30 DEF MarkCompleted, Goto, OrOnFault, UpdateRowWhere, ledgerVars, envVars
<1>31. ASSUME NEW w \in Workers, WriteSuccessAudit(w) PROVE TypeOK'
  BY <1>31 DEF WriteSuccessAudit, GotoOrReturn, Return, rowVars, envVars
<1>32. ASSUME NEW w \in Workers, MarkFailed(w) PROVE TypeOK'
  BY <1>32 DEF MarkFailed, GotoOrReturn, Return, UpdateRowWhere, ledgerVars, envVars
<1>33. ASSUME NEW w \in Workers, QueryFails(w) PROVE TypeOK'
  BY <1>33 DEF QueryFails, GotoOrReturn, Closing, rowVars, ledgerVars, envVars
<1>34. ASSUME NEW w \in Workers, StatementFails(w) PROVE TypeOK'
  BY <1>34 DEF StatementFails, GotoOrReturn, AfterFailure, AckedFailure, rowVars, ledgerVars, envVars
<1>35. ASSUME NEW w \in Workers, Crash(w) PROVE TypeOK'
  BY <1>35 DEF Crash, Leave, rowVars, ledgerVars, envVars
<1>36. ASSUME NEW o \in Orders, CustomerPays(o) PROVE TypeOK'
  BY <1>36 DEF CustomerPays, rowVars, ledgerVars, threadVars
<1>37. ASSUME NEW o \in Orders, Redeliver(o) PROVE TypeOK'
  BY <1>37 DEF Redeliver, rowVars, ledgerVars, envVars, threadVars
<1>38. ASSUME NEW o \in Orders, LoseNotification(o) PROVE TypeOK'
  BY <1>38 DEF LoseNotification, rowVars, ledgerVars, envVars, threadVars
<1>39. ASSUME NEW o \in Orders, ComesDue(o) PROVE TypeOK'
  BY <1>39 DEF ComesDue, rowVars, ledgerVars, threadVars
<1>40. ASSUME NEW o \in Orders, GracePasses(o) PROVE TypeOK'
  BY <1>40 DEF GracePasses, ledgerVars, threadVars
<1>41. CASE UNCHANGED vars
  BY <1>41 DEF vars, rowVars, ledgerVars, envVars, threadVars
<1> QED
  BY <1>1, <1>2, <1>3, <1>4, <1>5, <1>6, <1>7, <1>8, <1>9, <1>10, <1>11, <1>12,
     <1>13, <1>14, <1>15, <1>16, <1>17, <1>18, <1>19, <1>20, <1>21, <1>22, <1>23, <1>24,
     <1>25, <1>26, <1>27, <1>28, <1>29, <1>30, <1>31, <1>32, <1>33, <1>34, <1>35, <1>36,
     <1>37, <1>38, <1>39, <1>40, <1>41
  DEF Next, Call, Step, Fault, Environment

\* Every step keeps one creation per order, over before the customer can pay.
LEMMA CreationStep == FulfillmentInv /\ [Next]_vars => CreationInv'
<1> SUFFICES ASSUME FulfillmentInv, [Next]_vars PROVE CreationInv'
  OBVIOUS
<1> USE OrdersAssumption, GrantsAssumption, FaultsAssumption
    DEF FulfillmentInv, TypeOK, Status, PayState, PC, Delivering, Caller, AuditAction, Confirmed, Creating, CreationInv, PaidInv
<1>1. ASSUME NEW w \in Workers, NEW o \in Orders, CreateOrder(w, o) PROVE CreationInv'
  BY <1>1 DEF CreateOrder, Enter, UpdateRow, ledgerVars, envVars
<1>2. ASSUME NEW w \in Workers, NEW o \in Orders, Webhook(w, o) PROVE CreationInv'
  BY <1>2 DEF Webhook, Enter, rowVars, ledgerVars, envVars
<1>3. ASSUME NEW w \in Workers, NEW o \in Orders, VerifyOrder(w, o) PROVE CreationInv'
  BY <1>3 DEF VerifyOrder, Enter, rowVars, ledgerVars, envVars
<1>4. ASSUME NEW w \in Workers, NEW o \in Orders, ReconcilePending(w, o) PROVE CreationInv'
  BY <1>4 DEF ReconcilePending, Enter, rowVars, ledgerVars, envVars
<1>5. ASSUME NEW w \in Workers, NEW o \in Orders, CancelOrder(w, o) PROVE CreationInv'
  BY <1>5 DEF CancelOrder, Enter, rowVars, ledgerVars, envVars
<1>6. ASSUME NEW w \in Workers, NEW o \in Orders, ExpireTimedOut(w, o) PROVE CreationInv'
  BY <1>6 DEF ExpireTimedOut, Enter, rowVars, ledgerVars, envVars
<1>7. ASSUME NEW w \in Workers, NEW o \in Orders, RetryFulfillment(w, o) PROVE CreationInv'
  BY <1>7 DEF RetryFulfillment, Enter, rowVars, ledgerVars, envVars
<1>8. ASSUME NEW w \in Workers, InvokeProvider(w) PROVE CreationInv'
  BY <1>8 DEF InvokeProvider, Goto, rowVars, ledgerVars, envVars
<1>9. ASSUME NEW w \in Workers, SavePaymentDetails(w) PROVE CreationInv'
  BY <1>9 DEF SavePaymentDetails, GotoOrReturn, Return, UpdateRow, ledgerVars
<1>10. ASSUME NEW w \in Workers, MarkCreateFailed(w) PROVE CreationInv'
  BY <1>10 DEF MarkCreateFailed, GotoOrReturn, Return, UpdateRow, ledgerVars, envVars
<1>11. ASSUME NEW w \in Workers, ResetForRetry(w) PROVE CreationInv'
  BY <1>11 DEF ResetForRetry, Goto, UpdateRowWhere, ledgerVars, envVars
<1>12. ASSUME NEW w \in Workers, QueryPaid(w) PROVE CreationInv'
  BY <1>12 DEF QueryPaid, Goto, rowVars, ledgerVars, envVars
<1>13. ASSUME NEW w \in Workers, QueryUnpaid(w) PROVE CreationInv'
  BY <1>13 DEF QueryUnpaid, GotoOrReturn, Closing, rowVars, ledgerVars, envVars
<1>14. ASSUME NEW w \in Workers, PersistTradeNo(w) PROVE CreationInv'
  BY <1>14 DEF PersistTradeNo, Goto, UpdateRow, ledgerVars, envVars
<1>15. ASSUME NEW w \in Workers, CloseUpstream(w) PROVE CreationInv'
  BY <1>15 DEF CloseUpstream, Goto, rowVars, ledgerVars
<1>16. ASSUME NEW w \in Workers, CancelRow(w) PROVE CreationInv'
  BY <1>16 DEF CancelRow, GotoOrReturn, Return, UpdateRowWhere, ledgerVars, envVars
<1>17. ASSUME NEW w \in Workers, Confirm(w) PROVE CreationInv'
  BY <1>17 DEF Confirm, Goto, rowVars, ledgerVars, envVars
<1>18. ASSUME NEW w \in Workers, RejectNotification(w) PROVE CreationInv'
  BY <1>18 DEF RejectNotification, GotoOrReturn, Return, rowVars, ledgerVars, envVars
<1>19. ASSUME NEW w \in Workers, ToPaid(w) PROVE CreationInv'
  BY <1>19 DEF ToPaid, Goto, UpdateRow, AcceptsPayment, ledgerVars, envVars
<1>20. ASSUME NEW w \in Workers, ToPaidRefused(w) PROVE CreationInv'
  BY <1>20 DEF ToPaidRefused, Goto, AcceptsPayment, rowVars, ledgerVars, envVars
<1>21. ASSUME NEW w \in Workers, AlreadyProcessed(w) PROVE CreationInv'
  BY <1>21 DEF AlreadyProcessed, GotoOrReturn, rowVars, envVars
<1>22. ASSUME NEW w \in Workers, LoadForFulfillment(w) PROVE CreationInv'
  BY <1>22 DEF LoadForFulfillment, GotoOrReturn, rowVars, ledgerVars, envVars
<1>23. ASSUME NEW w \in Workers, Lock(w) PROVE CreationInv'
  BY <1>23 DEF Lock, GotoOrReturn, UpdateRowWhere, ledgerVars, envVars
<1>24. ASSUME NEW w \in Workers, LookupCode(w) PROVE CreationInv'
  BY <1>24 DEF LookupCode, Goto, OrOnFault, RedeemAction, rowVars, ledgerVars, envVars
<1>25. ASSUME NEW w \in Workers, CreateCode(w) PROVE CreationInv'
  BY <1>25 DEF CreateCode, Goto, OrOnFault, rowVars, envVars
<1>26. ASSUME NEW w \in Workers, Redeem(w) PROVE CreationInv'
  BY <1>26 DEF Redeem, Goto, OrOnFault, rowVars, envVars
<1>27. ASSUME NEW w \in Workers, ApplyRebate(w) PROVE CreationInv'
  BY <1>27 DEF ApplyRebate, Goto, OrOnFault, rowVars, envVars
<1>28. ASSUME NEW w \in Workers, LookupSubscriptionAudit(w) PROVE CreationInv'
  BY <1>28 DEF LookupSubscriptionAudit, Goto, OrOnFault, rowVars, ledgerVars, envVars
<1>29. ASSUME NEW w \in Workers, AssignOrExtend(w) PROVE CreationInv'
  BY <1>29 DEF AssignOrExtend, Goto, OrOnFault, rowVars, envVars
<1>30. ASSUME NEW w \in Workers, MarkCompleted(w) PROVE CreationInv'
  BY <1>30 DEF MarkCompleted, Goto, OrOnFault, UpdateRowWhere, ledgerVars, envVars
<1>31. ASSUME NEW w \in Workers, WriteSuccessAudit(w) PROVE CreationInv'
  BY <1>31 DEF WriteSuccessAudit, GotoOrReturn, Return, rowVars, envVars
<1>32. ASSUME NEW w \in Workers, MarkFailed(w) PROVE CreationInv'
  BY <1>32 DEF MarkFailed, GotoOrReturn, Return, UpdateRowWhere, ledgerVars, envVars
<1>33. ASSUME NEW w \in Workers, QueryFails(w) PROVE CreationInv'
  BY <1>33 DEF QueryFails, GotoOrReturn, Closing, rowVars, ledgerVars, envVars
<1>34. ASSUME NEW w \in Workers, StatementFails(w) PROVE CreationInv'
  BY <1>34 DEF StatementFails, GotoOrReturn, AfterFailure, AckedFailure, rowVars, ledgerVars, envVars
<1>35. ASSUME NEW w \in Workers, Crash(w) PROVE CreationInv'
  BY <1>35 DEF Crash, Leave, rowVars, ledgerVars, envVars
<1>36. ASSUME NEW o \in Orders, CustomerPays(o) PROVE CreationInv'
  BY <1>36 DEF CustomerPays, rowVars, ledgerVars, threadVars
<1>37. ASSUME NEW o \in Orders, Redeliver(o) PROVE CreationInv'
  BY <1>37 DEF Redeliver, rowVars, ledgerVars, envVars, threadVars
<1>38. ASSUME NEW o \in Orders, LoseNotification(o) PROVE CreationInv'
  BY <1>38 DEF LoseNotification, rowVars, ledgerVars, envVars, threadVars
<1>39. ASSUME NEW o \in Orders, ComesDue(o) PROVE CreationInv'
  BY <1>39 DEF ComesDue, rowVars, ledgerVars, threadVars
<1>40. ASSUME NEW o \in Orders, GracePasses(o) PROVE CreationInv'
  BY <1>40 DEF GracePasses, ledgerVars, threadVars
<1>41. CASE UNCHANGED vars
  BY <1>41 DEF vars, rowVars, ledgerVars, envVars, threadVars
<1> QED
  BY <1>1, <1>2, <1>3, <1>4, <1>5, <1>6, <1>7, <1>8, <1>9, <1>10, <1>11, <1>12,
     <1>13, <1>14, <1>15, <1>16, <1>17, <1>18, <1>19, <1>20, <1>21, <1>22, <1>23, <1>24,
     <1>25, <1>26, <1>27, <1>28, <1>29, <1>30, <1>31, <1>32, <1>33, <1>34, <1>35, <1>36,
     <1>37, <1>38, <1>39, <1>40, <1>41
  DEF Next, Call, Step, Fault, Environment

\* Every step keeps: what counts as paid is paid in full at the provider.
LEMMA PaidStep == FulfillmentInv /\ [Next]_vars => PaidInv'
<1> SUFFICES ASSUME FulfillmentInv, [Next]_vars PROVE PaidInv'
  OBVIOUS
<1> USE OrdersAssumption, GrantsAssumption, FaultsAssumption
    DEF FulfillmentInv, TypeOK, Status, PayState, PC, Delivering, Caller, AuditAction, Confirmed, Creating, CreationInv, PaidInv, LedgerInv
<1>1. ASSUME NEW w \in Workers, NEW o \in Orders, CreateOrder(w, o) PROVE PaidInv'
  BY <1>1 DEF CreateOrder, Enter, UpdateRow, ledgerVars, envVars
<1>2. ASSUME NEW w \in Workers, NEW o \in Orders, Webhook(w, o) PROVE PaidInv'
  BY <1>2 DEF Webhook, Enter, rowVars, ledgerVars, envVars
<1>3. ASSUME NEW w \in Workers, NEW o \in Orders, VerifyOrder(w, o) PROVE PaidInv'
  BY <1>3 DEF VerifyOrder, Enter, rowVars, ledgerVars, envVars
<1>4. ASSUME NEW w \in Workers, NEW o \in Orders, ReconcilePending(w, o) PROVE PaidInv'
  BY <1>4 DEF ReconcilePending, Enter, rowVars, ledgerVars, envVars
<1>5. ASSUME NEW w \in Workers, NEW o \in Orders, CancelOrder(w, o) PROVE PaidInv'
  BY <1>5 DEF CancelOrder, Enter, rowVars, ledgerVars, envVars
<1>6. ASSUME NEW w \in Workers, NEW o \in Orders, ExpireTimedOut(w, o) PROVE PaidInv'
  BY <1>6 DEF ExpireTimedOut, Enter, rowVars, ledgerVars, envVars
<1>7. ASSUME NEW w \in Workers, NEW o \in Orders, RetryFulfillment(w, o) PROVE PaidInv'
  BY <1>7 DEF RetryFulfillment, Enter, rowVars, ledgerVars, envVars
<1>8. ASSUME NEW w \in Workers, InvokeProvider(w) PROVE PaidInv'
  BY <1>8 DEF InvokeProvider, Goto, rowVars, ledgerVars, envVars
<1>9. ASSUME NEW w \in Workers, SavePaymentDetails(w) PROVE PaidInv'
  BY <1>9 DEF SavePaymentDetails, GotoOrReturn, Return, UpdateRow, ledgerVars
<1>10. ASSUME NEW w \in Workers, MarkCreateFailed(w) PROVE PaidInv'
  BY <1>10 DEF MarkCreateFailed, GotoOrReturn, Return, UpdateRow, ledgerVars, envVars
<1>11. ASSUME NEW w \in Workers, ResetForRetry(w) PROVE PaidInv'
  BY <1>11 DEF ResetForRetry, Goto, UpdateRowWhere, ledgerVars, envVars
<1>12. ASSUME NEW w \in Workers, QueryPaid(w) PROVE PaidInv'
  BY <1>12 DEF QueryPaid, Goto, rowVars, ledgerVars, envVars
<1>13. ASSUME NEW w \in Workers, QueryUnpaid(w) PROVE PaidInv'
  BY <1>13 DEF QueryUnpaid, GotoOrReturn, Closing, rowVars, ledgerVars, envVars
<1>14. ASSUME NEW w \in Workers, PersistTradeNo(w) PROVE PaidInv'
  BY <1>14 DEF PersistTradeNo, Goto, UpdateRow, ledgerVars, envVars
<1>15. ASSUME NEW w \in Workers, CloseUpstream(w) PROVE PaidInv'
  BY <1>15 DEF CloseUpstream, Goto, rowVars, ledgerVars
<1>16. ASSUME NEW w \in Workers, CancelRow(w) PROVE PaidInv'
  BY <1>16 DEF CancelRow, GotoOrReturn, Return, UpdateRowWhere, ledgerVars, envVars
<1>17. ASSUME NEW w \in Workers, Confirm(w) PROVE PaidInv'
  BY <1>17 DEF Confirm, Goto, rowVars, ledgerVars, envVars
<1>18. ASSUME NEW w \in Workers, RejectNotification(w) PROVE PaidInv'
  BY <1>18 DEF RejectNotification, GotoOrReturn, Return, rowVars, ledgerVars, envVars
<1>19. ASSUME NEW w \in Workers, ToPaid(w) PROVE PaidInv'
  BY <1>19 DEF ToPaid, Goto, UpdateRow, AcceptsPayment, ledgerVars, envVars
<1>20. ASSUME NEW w \in Workers, ToPaidRefused(w) PROVE PaidInv'
  BY <1>20 DEF ToPaidRefused, Goto, AcceptsPayment, rowVars, ledgerVars, envVars
<1>21. ASSUME NEW w \in Workers, AlreadyProcessed(w) PROVE PaidInv'
  BY <1>21 DEF AlreadyProcessed, GotoOrReturn, rowVars, envVars
<1>22. ASSUME NEW w \in Workers, LoadForFulfillment(w) PROVE PaidInv'
  BY <1>22 DEF LoadForFulfillment, GotoOrReturn, rowVars, ledgerVars, envVars
<1>23. ASSUME NEW w \in Workers, Lock(w) PROVE PaidInv'
  BY <1>23 DEF Lock, GotoOrReturn, UpdateRowWhere, ledgerVars, envVars
<1>24. ASSUME NEW w \in Workers, LookupCode(w) PROVE PaidInv'
  BY <1>24 DEF LookupCode, Goto, OrOnFault, RedeemAction, rowVars, ledgerVars, envVars
<1>25. ASSUME NEW w \in Workers, CreateCode(w) PROVE PaidInv'
  BY <1>25 DEF CreateCode, Goto, OrOnFault, rowVars, envVars
<1>26. ASSUME NEW w \in Workers, Redeem(w) PROVE PaidInv'
  BY <1>26 DEF Redeem, Goto, OrOnFault, rowVars, envVars
<1>27. ASSUME NEW w \in Workers, ApplyRebate(w) PROVE PaidInv'
  BY <1>27 DEF ApplyRebate, Goto, OrOnFault, rowVars, envVars
<1>28. ASSUME NEW w \in Workers, LookupSubscriptionAudit(w) PROVE PaidInv'
  BY <1>28 DEF LookupSubscriptionAudit, Goto, OrOnFault, rowVars, ledgerVars, envVars
<1>29. ASSUME NEW w \in Workers, AssignOrExtend(w) PROVE PaidInv'
  BY <1>29 DEF AssignOrExtend, Goto, OrOnFault, rowVars, envVars
<1>30. ASSUME NEW w \in Workers, MarkCompleted(w) PROVE PaidInv'
  BY <1>30 DEF MarkCompleted, Goto, OrOnFault, UpdateRowWhere, ledgerVars, envVars
<1>31. ASSUME NEW w \in Workers, WriteSuccessAudit(w) PROVE PaidInv'
  BY <1>31 DEF WriteSuccessAudit, GotoOrReturn, Return, rowVars, envVars
<1>32. ASSUME NEW w \in Workers, MarkFailed(w) PROVE PaidInv'
  BY <1>32 DEF MarkFailed, GotoOrReturn, Return, UpdateRowWhere, ledgerVars, envVars
<1>33. ASSUME NEW w \in Workers, QueryFails(w) PROVE PaidInv'
  BY <1>33 DEF QueryFails, GotoOrReturn, Closing, rowVars, ledgerVars, envVars
<1>34. ASSUME NEW w \in Workers, StatementFails(w) PROVE PaidInv'
  BY <1>34 DEF StatementFails, GotoOrReturn, AfterFailure, AckedFailure, rowVars, ledgerVars, envVars
<1>35. ASSUME NEW w \in Workers, Crash(w) PROVE PaidInv'
  BY <1>35 DEF Crash, Leave, rowVars, ledgerVars, envVars
<1>36. ASSUME NEW o \in Orders, CustomerPays(o) PROVE PaidInv'
  BY <1>36 DEF CustomerPays, rowVars, ledgerVars, threadVars
<1>37. ASSUME NEW o \in Orders, Redeliver(o) PROVE PaidInv'
  BY <1>37 DEF Redeliver, rowVars, ledgerVars, envVars, threadVars
<1>38. ASSUME NEW o \in Orders, LoseNotification(o) PROVE PaidInv'
  BY <1>38 DEF LoseNotification, rowVars, ledgerVars, envVars, threadVars
<1>39. ASSUME NEW o \in Orders, ComesDue(o) PROVE PaidInv'
  BY <1>39 DEF ComesDue, rowVars, ledgerVars, threadVars
<1>40. ASSUME NEW o \in Orders, GracePasses(o) PROVE PaidInv'
  BY <1>40 DEF GracePasses, ledgerVars, threadVars
<1>41. CASE UNCHANGED vars
  BY <1>41 DEF vars, rowVars, ledgerVars, envVars, threadVars
<1> QED
  BY <1>1, <1>2, <1>3, <1>4, <1>5, <1>6, <1>7, <1>8, <1>9, <1>10, <1>11, <1>12,
     <1>13, <1>14, <1>15, <1>16, <1>17, <1>18, <1>19, <1>20, <1>21, <1>22, <1>23, <1>24,
     <1>25, <1>26, <1>27, <1>28, <1>29, <1>30, <1>31, <1>32, <1>33, <1>34, <1>35, <1>36,
     <1>37, <1>38, <1>39, <1>40, <1>41
  DEF Next, Call, Step, Fault, Environment

\* Every step keeps RECHARGING an exclusive lock.
LEMMA LockStep == FulfillmentInv /\ [Next]_vars => LockInv'
<1> SUFFICES ASSUME FulfillmentInv, [Next]_vars PROVE LockInv'
  OBVIOUS
<1> USE OrdersAssumption, GrantsAssumption, FaultsAssumption
    DEF FulfillmentInv, TypeOK, Status, PayState, PC, Delivering, Caller, AuditAction, Confirmed, Creating, CreationInv, PaidInv, LockInv, OneFulfiller
<1>1. ASSUME NEW w \in Workers, NEW o \in Orders, CreateOrder(w, o) PROVE LockInv'
  BY <1>1 DEF CreateOrder, Enter, UpdateRow, ledgerVars, envVars
<1>2. ASSUME NEW w \in Workers, NEW o \in Orders, Webhook(w, o) PROVE LockInv'
  BY <1>2 DEF Webhook, Enter, rowVars, ledgerVars, envVars
<1>3. ASSUME NEW w \in Workers, NEW o \in Orders, VerifyOrder(w, o) PROVE LockInv'
  BY <1>3 DEF VerifyOrder, Enter, rowVars, ledgerVars, envVars
<1>4. ASSUME NEW w \in Workers, NEW o \in Orders, ReconcilePending(w, o) PROVE LockInv'
  BY <1>4 DEF ReconcilePending, Enter, rowVars, ledgerVars, envVars
<1>5. ASSUME NEW w \in Workers, NEW o \in Orders, CancelOrder(w, o) PROVE LockInv'
  BY <1>5 DEF CancelOrder, Enter, rowVars, ledgerVars, envVars
<1>6. ASSUME NEW w \in Workers, NEW o \in Orders, ExpireTimedOut(w, o) PROVE LockInv'
  BY <1>6 DEF ExpireTimedOut, Enter, rowVars, ledgerVars, envVars
<1>7. ASSUME NEW w \in Workers, NEW o \in Orders, RetryFulfillment(w, o) PROVE LockInv'
  BY <1>7 DEF RetryFulfillment, Enter, rowVars, ledgerVars, envVars
<1>8. ASSUME NEW w \in Workers, InvokeProvider(w) PROVE LockInv'
  BY <1>8 DEF InvokeProvider, Goto, rowVars, ledgerVars, envVars
<1>9. ASSUME NEW w \in Workers, SavePaymentDetails(w) PROVE LockInv'
  BY <1>9 DEF SavePaymentDetails, GotoOrReturn, Return, UpdateRow, ledgerVars
<1>10. ASSUME NEW w \in Workers, MarkCreateFailed(w) PROVE LockInv'
  BY <1>10 DEF MarkCreateFailed, GotoOrReturn, Return, UpdateRow, ledgerVars, envVars
<1>11. ASSUME NEW w \in Workers, ResetForRetry(w) PROVE LockInv'
  BY <1>11 DEF ResetForRetry, Goto, UpdateRowWhere, ledgerVars, envVars
<1>12. ASSUME NEW w \in Workers, QueryPaid(w) PROVE LockInv'
  BY <1>12 DEF QueryPaid, Goto, rowVars, ledgerVars, envVars
<1>13. ASSUME NEW w \in Workers, QueryUnpaid(w) PROVE LockInv'
  BY <1>13 DEF QueryUnpaid, GotoOrReturn, Closing, rowVars, ledgerVars, envVars
<1>14. ASSUME NEW w \in Workers, PersistTradeNo(w) PROVE LockInv'
  BY <1>14 DEF PersistTradeNo, Goto, UpdateRow, ledgerVars, envVars
<1>15. ASSUME NEW w \in Workers, CloseUpstream(w) PROVE LockInv'
  BY <1>15 DEF CloseUpstream, Goto, rowVars, ledgerVars
<1>16. ASSUME NEW w \in Workers, CancelRow(w) PROVE LockInv'
  BY <1>16 DEF CancelRow, GotoOrReturn, Return, UpdateRowWhere, ledgerVars, envVars
<1>17. ASSUME NEW w \in Workers, Confirm(w) PROVE LockInv'
  BY <1>17 DEF Confirm, Goto, rowVars, ledgerVars, envVars
<1>18. ASSUME NEW w \in Workers, RejectNotification(w) PROVE LockInv'
  BY <1>18 DEF RejectNotification, GotoOrReturn, Return, rowVars, ledgerVars, envVars
<1>19. ASSUME NEW w \in Workers, ToPaid(w) PROVE LockInv'
  BY <1>19 DEF ToPaid, Goto, UpdateRow, AcceptsPayment, ledgerVars, envVars
<1>20. ASSUME NEW w \in Workers, ToPaidRefused(w) PROVE LockInv'
  BY <1>20 DEF ToPaidRefused, Goto, AcceptsPayment, rowVars, ledgerVars, envVars
<1>21. ASSUME NEW w \in Workers, AlreadyProcessed(w) PROVE LockInv'
  BY <1>21 DEF AlreadyProcessed, GotoOrReturn, rowVars, envVars
<1>22. ASSUME NEW w \in Workers, LoadForFulfillment(w) PROVE LockInv'
  BY <1>22 DEF LoadForFulfillment, GotoOrReturn, rowVars, ledgerVars, envVars
<1>23. ASSUME NEW w \in Workers, Lock(w) PROVE LockInv'
  BY <1>23 DEF Lock, GotoOrReturn, UpdateRowWhere, ledgerVars, envVars
<1>24. ASSUME NEW w \in Workers, LookupCode(w) PROVE LockInv'
  BY <1>24 DEF LookupCode, Goto, OrOnFault, RedeemAction, rowVars, ledgerVars, envVars
<1>25. ASSUME NEW w \in Workers, CreateCode(w) PROVE LockInv'
  BY <1>25 DEF CreateCode, Goto, OrOnFault, rowVars, envVars
<1>26. ASSUME NEW w \in Workers, Redeem(w) PROVE LockInv'
  BY <1>26 DEF Redeem, Goto, OrOnFault, rowVars, envVars
<1>27. ASSUME NEW w \in Workers, ApplyRebate(w) PROVE LockInv'
  BY <1>27 DEF ApplyRebate, Goto, OrOnFault, rowVars, envVars
<1>28. ASSUME NEW w \in Workers, LookupSubscriptionAudit(w) PROVE LockInv'
  BY <1>28 DEF LookupSubscriptionAudit, Goto, OrOnFault, rowVars, ledgerVars, envVars
<1>29. ASSUME NEW w \in Workers, AssignOrExtend(w) PROVE LockInv'
  BY <1>29 DEF AssignOrExtend, Goto, OrOnFault, rowVars, envVars
<1>30. ASSUME NEW w \in Workers, MarkCompleted(w) PROVE LockInv'
  BY <1>30 DEF MarkCompleted, Goto, OrOnFault, UpdateRowWhere, ledgerVars, envVars
<1>31. ASSUME NEW w \in Workers, WriteSuccessAudit(w) PROVE LockInv'
  BY <1>31 DEF WriteSuccessAudit, GotoOrReturn, Return, rowVars, envVars
<1>32. ASSUME NEW w \in Workers, MarkFailed(w) PROVE LockInv'
  BY <1>32 DEF MarkFailed, GotoOrReturn, Return, UpdateRowWhere, ledgerVars, envVars
<1>33. ASSUME NEW w \in Workers, QueryFails(w) PROVE LockInv'
  BY <1>33 DEF QueryFails, GotoOrReturn, Closing, rowVars, ledgerVars, envVars
<1>34. ASSUME NEW w \in Workers, StatementFails(w) PROVE LockInv'
  BY <1>34 DEF StatementFails, GotoOrReturn, AfterFailure, AckedFailure, rowVars, ledgerVars, envVars
<1>35. ASSUME NEW w \in Workers, Crash(w) PROVE LockInv'
  BY <1>35 DEF Crash, Leave, rowVars, ledgerVars, envVars
<1>36. ASSUME NEW o \in Orders, CustomerPays(o) PROVE LockInv'
  BY <1>36 DEF CustomerPays, rowVars, ledgerVars, threadVars
<1>37. ASSUME NEW o \in Orders, Redeliver(o) PROVE LockInv'
  BY <1>37 DEF Redeliver, rowVars, ledgerVars, envVars, threadVars
<1>38. ASSUME NEW o \in Orders, LoseNotification(o) PROVE LockInv'
  BY <1>38 DEF LoseNotification, rowVars, ledgerVars, envVars, threadVars
<1>39. ASSUME NEW o \in Orders, ComesDue(o) PROVE LockInv'
  BY <1>39 DEF ComesDue, rowVars, ledgerVars, threadVars
<1>40. ASSUME NEW o \in Orders, GracePasses(o) PROVE LockInv'
  BY <1>40 DEF GracePasses, ledgerVars, threadVars
<1>41. CASE UNCHANGED vars
  BY <1>41 DEF vars, rowVars, ledgerVars, envVars, threadVars
<1> QED
  BY <1>1, <1>2, <1>3, <1>4, <1>5, <1>6, <1>7, <1>8, <1>9, <1>10, <1>11, <1>12,
     <1>13, <1>14, <1>15, <1>16, <1>17, <1>18, <1>19, <1>20, <1>21, <1>22, <1>23, <1>24,
     <1>25, <1>26, <1>27, <1>28, <1>29, <1>30, <1>31, <1>32, <1>33, <1>34, <1>35, <1>36,
     <1>37, <1>38, <1>39, <1>40, <1>41
  DEF Next, Call, Step, Fault, Environment

\* Every step keeps the ledgers in agreement.
LEMMA LedgerStep == FulfillmentInv /\ [Next]_vars => LedgerInv'
<1> SUFFICES ASSUME FulfillmentInv, [Next]_vars PROVE LedgerInv'
  OBVIOUS
<1> USE OrdersAssumption, GrantsAssumption, FaultsAssumption
    DEF FulfillmentInv, TypeOK, Status, PayState, PC, Delivering, Caller, AuditAction, Confirmed, Creating, LockInv, LedgerInv, CompletedIsDelivered
<1>1. ASSUME NEW w \in Workers, NEW o \in Orders, CreateOrder(w, o) PROVE LedgerInv'
  BY <1>1 DEF CreateOrder, Enter, UpdateRow, ledgerVars, envVars
<1>2. ASSUME NEW w \in Workers, NEW o \in Orders, Webhook(w, o) PROVE LedgerInv'
  BY <1>2 DEF Webhook, Enter, rowVars, ledgerVars, envVars
<1>3. ASSUME NEW w \in Workers, NEW o \in Orders, VerifyOrder(w, o) PROVE LedgerInv'
  BY <1>3 DEF VerifyOrder, Enter, rowVars, ledgerVars, envVars
<1>4. ASSUME NEW w \in Workers, NEW o \in Orders, ReconcilePending(w, o) PROVE LedgerInv'
  BY <1>4 DEF ReconcilePending, Enter, rowVars, ledgerVars, envVars
<1>5. ASSUME NEW w \in Workers, NEW o \in Orders, CancelOrder(w, o) PROVE LedgerInv'
  BY <1>5 DEF CancelOrder, Enter, rowVars, ledgerVars, envVars
<1>6. ASSUME NEW w \in Workers, NEW o \in Orders, ExpireTimedOut(w, o) PROVE LedgerInv'
  BY <1>6 DEF ExpireTimedOut, Enter, rowVars, ledgerVars, envVars
<1>7. ASSUME NEW w \in Workers, NEW o \in Orders, RetryFulfillment(w, o) PROVE LedgerInv'
  BY <1>7 DEF RetryFulfillment, Enter, rowVars, ledgerVars, envVars
<1>8. ASSUME NEW w \in Workers, InvokeProvider(w) PROVE LedgerInv'
  BY <1>8 DEF InvokeProvider, Goto, rowVars, ledgerVars, envVars
<1>9. ASSUME NEW w \in Workers, SavePaymentDetails(w) PROVE LedgerInv'
  BY <1>9 DEF SavePaymentDetails, GotoOrReturn, Return, UpdateRow, ledgerVars
<1>10. ASSUME NEW w \in Workers, MarkCreateFailed(w) PROVE LedgerInv'
  BY <1>10 DEF MarkCreateFailed, GotoOrReturn, Return, UpdateRow, ledgerVars, envVars
<1>11. ASSUME NEW w \in Workers, ResetForRetry(w) PROVE LedgerInv'
  BY <1>11 DEF ResetForRetry, Goto, UpdateRowWhere, ledgerVars, envVars
<1>12. ASSUME NEW w \in Workers, QueryPaid(w) PROVE LedgerInv'
  BY <1>12 DEF QueryPaid, Goto, rowVars, ledgerVars, envVars
<1>13. ASSUME NEW w \in Workers, QueryUnpaid(w) PROVE LedgerInv'
  BY <1>13 DEF QueryUnpaid, GotoOrReturn, Closing, rowVars, ledgerVars, envVars
<1>14. ASSUME NEW w \in Workers, PersistTradeNo(w) PROVE LedgerInv'
  BY <1>14 DEF PersistTradeNo, Goto, UpdateRow, ledgerVars, envVars
<1>15. ASSUME NEW w \in Workers, CloseUpstream(w) PROVE LedgerInv'
  BY <1>15 DEF CloseUpstream, Goto, rowVars, ledgerVars
<1>16. ASSUME NEW w \in Workers, CancelRow(w) PROVE LedgerInv'
  BY <1>16 DEF CancelRow, GotoOrReturn, Return, UpdateRowWhere, ledgerVars, envVars
<1>17. ASSUME NEW w \in Workers, Confirm(w) PROVE LedgerInv'
  BY <1>17 DEF Confirm, Goto, rowVars, ledgerVars, envVars
<1>18. ASSUME NEW w \in Workers, RejectNotification(w) PROVE LedgerInv'
  BY <1>18 DEF RejectNotification, GotoOrReturn, Return, rowVars, ledgerVars, envVars
<1>19. ASSUME NEW w \in Workers, ToPaid(w) PROVE LedgerInv'
  BY <1>19 DEF ToPaid, Goto, UpdateRow, AcceptsPayment, ledgerVars, envVars
<1>20. ASSUME NEW w \in Workers, ToPaidRefused(w) PROVE LedgerInv'
  BY <1>20 DEF ToPaidRefused, Goto, AcceptsPayment, rowVars, ledgerVars, envVars
<1>21. ASSUME NEW w \in Workers, AlreadyProcessed(w) PROVE LedgerInv'
  BY <1>21 DEF AlreadyProcessed, GotoOrReturn, rowVars, envVars
<1>22. ASSUME NEW w \in Workers, LoadForFulfillment(w) PROVE LedgerInv'
  BY <1>22 DEF LoadForFulfillment, GotoOrReturn, rowVars, ledgerVars, envVars
<1>23. ASSUME NEW w \in Workers, Lock(w) PROVE LedgerInv'
  BY <1>23 DEF Lock, GotoOrReturn, UpdateRowWhere, ledgerVars, envVars
<1>24. ASSUME NEW w \in Workers, LookupCode(w) PROVE LedgerInv'
  BY <1>24 DEF LookupCode, Goto, OrOnFault, RedeemAction, rowVars, ledgerVars, envVars
<1>25. ASSUME NEW w \in Workers, CreateCode(w) PROVE LedgerInv'
  BY <1>25 DEF CreateCode, Goto, OrOnFault, rowVars, envVars
<1>26. ASSUME NEW w \in Workers, Redeem(w) PROVE LedgerInv'
  BY <1>26 DEF Redeem, Goto, OrOnFault, rowVars, envVars
<1>27. ASSUME NEW w \in Workers, ApplyRebate(w) PROVE LedgerInv'
  BY <1>27 DEF ApplyRebate, Goto, OrOnFault, rowVars, envVars
<1>28. ASSUME NEW w \in Workers, LookupSubscriptionAudit(w) PROVE LedgerInv'
  BY <1>28 DEF LookupSubscriptionAudit, Goto, OrOnFault, rowVars, ledgerVars, envVars
<1>29. ASSUME NEW w \in Workers, AssignOrExtend(w) PROVE LedgerInv'
  BY <1>29 DEF AssignOrExtend, Goto, OrOnFault, rowVars, envVars
<1>30. ASSUME NEW w \in Workers, MarkCompleted(w) PROVE LedgerInv'
  BY <1>30 DEF MarkCompleted, Goto, OrOnFault, UpdateRowWhere, ledgerVars, envVars
<1>31. ASSUME NEW w \in Workers, WriteSuccessAudit(w) PROVE LedgerInv'
  BY <1>31 DEF WriteSuccessAudit, GotoOrReturn, Return, rowVars, envVars
<1>32. ASSUME NEW w \in Workers, MarkFailed(w) PROVE LedgerInv'
  BY <1>32 DEF MarkFailed, GotoOrReturn, Return, UpdateRowWhere, ledgerVars, envVars
<1>33. ASSUME NEW w \in Workers, QueryFails(w) PROVE LedgerInv'
  BY <1>33 DEF QueryFails, GotoOrReturn, Closing, rowVars, ledgerVars, envVars
<1>34. ASSUME NEW w \in Workers, StatementFails(w) PROVE LedgerInv'
  BY <1>34 DEF StatementFails, GotoOrReturn, AfterFailure, AckedFailure, rowVars, ledgerVars, envVars
<1>35. ASSUME NEW w \in Workers, Crash(w) PROVE LedgerInv'
  BY <1>35 DEF Crash, Leave, rowVars, ledgerVars, envVars
<1>36. ASSUME NEW o \in Orders, CustomerPays(o) PROVE LedgerInv'
  BY <1>36 DEF CustomerPays, rowVars, ledgerVars, threadVars
<1>37. ASSUME NEW o \in Orders, Redeliver(o) PROVE LedgerInv'
  BY <1>37 DEF Redeliver, rowVars, ledgerVars, envVars, threadVars
<1>38. ASSUME NEW o \in Orders, LoseNotification(o) PROVE LedgerInv'
  BY <1>38 DEF LoseNotification, rowVars, ledgerVars, envVars, threadVars
<1>39. ASSUME NEW o \in Orders, ComesDue(o) PROVE LedgerInv'
  BY <1>39 DEF ComesDue, rowVars, ledgerVars, threadVars
<1>40. ASSUME NEW o \in Orders, GracePasses(o) PROVE LedgerInv'
  BY <1>40 DEF GracePasses, ledgerVars, threadVars
<1>41. CASE UNCHANGED vars
  BY <1>41 DEF vars, rowVars, ledgerVars, envVars, threadVars
<1> QED
  BY <1>1, <1>2, <1>3, <1>4, <1>5, <1>6, <1>7, <1>8, <1>9, <1>10, <1>11, <1>12,
     <1>13, <1>14, <1>15, <1>16, <1>17, <1>18, <1>19, <1>20, <1>21, <1>22, <1>23, <1>24,
     <1>25, <1>26, <1>27, <1>28, <1>29, <1>30, <1>31, <1>32, <1>33, <1>34, <1>35, <1>36,
     <1>37, <1>38, <1>39, <1>40, <1>41
  DEF Next, Call, Step, Fault, Environment

\* No step takes a completed order back or delivers it again.
LEMMA FinalStep == FulfillmentInv /\ [Next]_vars =>
      (\A x \in Orders : status[x] = "COMPLETED" =>
          status'[x] = "COMPLETED" /\ granted'[x] = granted[x])
<1> DEFINE Kept == \A x \in Orders : status[x] = "COMPLETED" =>
          status'[x] = "COMPLETED" /\ granted'[x] = granted[x]
<1> SUFFICES ASSUME FulfillmentInv, [Next]_vars PROVE Kept
  OBVIOUS
<1> USE OrdersAssumption, GrantsAssumption, FaultsAssumption
    DEF FulfillmentInv, TypeOK, Status, PayState, PC, Delivering, Caller, AuditAction, Confirmed, Creating, CreationInv, PaidInv, LockInv, OneFulfiller
<1>1. ASSUME NEW w \in Workers, NEW o \in Orders, CreateOrder(w, o) PROVE Kept
  BY <1>1 DEF CreateOrder, Enter, UpdateRow, ledgerVars, envVars
<1>2. ASSUME NEW w \in Workers, NEW o \in Orders, Webhook(w, o) PROVE Kept
  BY <1>2 DEF Webhook, Enter, rowVars, ledgerVars, envVars
<1>3. ASSUME NEW w \in Workers, NEW o \in Orders, VerifyOrder(w, o) PROVE Kept
  BY <1>3 DEF VerifyOrder, Enter, rowVars, ledgerVars, envVars
<1>4. ASSUME NEW w \in Workers, NEW o \in Orders, ReconcilePending(w, o) PROVE Kept
  BY <1>4 DEF ReconcilePending, Enter, rowVars, ledgerVars, envVars
<1>5. ASSUME NEW w \in Workers, NEW o \in Orders, CancelOrder(w, o) PROVE Kept
  BY <1>5 DEF CancelOrder, Enter, rowVars, ledgerVars, envVars
<1>6. ASSUME NEW w \in Workers, NEW o \in Orders, ExpireTimedOut(w, o) PROVE Kept
  BY <1>6 DEF ExpireTimedOut, Enter, rowVars, ledgerVars, envVars
<1>7. ASSUME NEW w \in Workers, NEW o \in Orders, RetryFulfillment(w, o) PROVE Kept
  BY <1>7 DEF RetryFulfillment, Enter, rowVars, ledgerVars, envVars
<1>8. ASSUME NEW w \in Workers, InvokeProvider(w) PROVE Kept
  BY <1>8 DEF InvokeProvider, Goto, rowVars, ledgerVars, envVars
<1>9. ASSUME NEW w \in Workers, SavePaymentDetails(w) PROVE Kept
  BY <1>9 DEF SavePaymentDetails, GotoOrReturn, Return, UpdateRow, ledgerVars
<1>10. ASSUME NEW w \in Workers, MarkCreateFailed(w) PROVE Kept
  BY <1>10 DEF MarkCreateFailed, GotoOrReturn, Return, UpdateRow, ledgerVars, envVars
<1>11. ASSUME NEW w \in Workers, ResetForRetry(w) PROVE Kept
  BY <1>11 DEF ResetForRetry, Goto, UpdateRowWhere, ledgerVars, envVars
<1>12. ASSUME NEW w \in Workers, QueryPaid(w) PROVE Kept
  BY <1>12 DEF QueryPaid, Goto, rowVars, ledgerVars, envVars
<1>13. ASSUME NEW w \in Workers, QueryUnpaid(w) PROVE Kept
  BY <1>13 DEF QueryUnpaid, GotoOrReturn, Closing, rowVars, ledgerVars, envVars
<1>14. ASSUME NEW w \in Workers, PersistTradeNo(w) PROVE Kept
  BY <1>14 DEF PersistTradeNo, Goto, UpdateRow, ledgerVars, envVars
<1>15. ASSUME NEW w \in Workers, CloseUpstream(w) PROVE Kept
  BY <1>15 DEF CloseUpstream, Goto, rowVars, ledgerVars
<1>16. ASSUME NEW w \in Workers, CancelRow(w) PROVE Kept
  BY <1>16 DEF CancelRow, GotoOrReturn, Return, UpdateRowWhere, ledgerVars, envVars
<1>17. ASSUME NEW w \in Workers, Confirm(w) PROVE Kept
  BY <1>17 DEF Confirm, Goto, rowVars, ledgerVars, envVars
<1>18. ASSUME NEW w \in Workers, RejectNotification(w) PROVE Kept
  BY <1>18 DEF RejectNotification, GotoOrReturn, Return, rowVars, ledgerVars, envVars
<1>19. ASSUME NEW w \in Workers, ToPaid(w) PROVE Kept
  BY <1>19 DEF ToPaid, Goto, UpdateRow, AcceptsPayment, ledgerVars, envVars
<1>20. ASSUME NEW w \in Workers, ToPaidRefused(w) PROVE Kept
  BY <1>20 DEF ToPaidRefused, Goto, AcceptsPayment, rowVars, ledgerVars, envVars
<1>21. ASSUME NEW w \in Workers, AlreadyProcessed(w) PROVE Kept
  BY <1>21 DEF AlreadyProcessed, GotoOrReturn, rowVars, envVars
<1>22. ASSUME NEW w \in Workers, LoadForFulfillment(w) PROVE Kept
  BY <1>22 DEF LoadForFulfillment, GotoOrReturn, rowVars, ledgerVars, envVars
<1>23. ASSUME NEW w \in Workers, Lock(w) PROVE Kept
  BY <1>23 DEF Lock, GotoOrReturn, UpdateRowWhere, ledgerVars, envVars
<1>24. ASSUME NEW w \in Workers, LookupCode(w) PROVE Kept
  BY <1>24 DEF LookupCode, Goto, OrOnFault, RedeemAction, rowVars, ledgerVars, envVars
<1>25. ASSUME NEW w \in Workers, CreateCode(w) PROVE Kept
  BY <1>25 DEF CreateCode, Goto, OrOnFault, rowVars, envVars
<1>26. ASSUME NEW w \in Workers, Redeem(w) PROVE Kept
  BY <1>26 DEF Redeem, Goto, OrOnFault, rowVars, envVars
<1>27. ASSUME NEW w \in Workers, ApplyRebate(w) PROVE Kept
  BY <1>27 DEF ApplyRebate, Goto, OrOnFault, rowVars, envVars
<1>28. ASSUME NEW w \in Workers, LookupSubscriptionAudit(w) PROVE Kept
  BY <1>28 DEF LookupSubscriptionAudit, Goto, OrOnFault, rowVars, ledgerVars, envVars
<1>29. ASSUME NEW w \in Workers, AssignOrExtend(w) PROVE Kept
  BY <1>29 DEF AssignOrExtend, Goto, OrOnFault, rowVars, envVars
<1>30. ASSUME NEW w \in Workers, MarkCompleted(w) PROVE Kept
  BY <1>30 DEF MarkCompleted, Goto, OrOnFault, UpdateRowWhere, ledgerVars, envVars
<1>31. ASSUME NEW w \in Workers, WriteSuccessAudit(w) PROVE Kept
  BY <1>31 DEF WriteSuccessAudit, GotoOrReturn, Return, rowVars, envVars
<1>32. ASSUME NEW w \in Workers, MarkFailed(w) PROVE Kept
  BY <1>32 DEF MarkFailed, GotoOrReturn, Return, UpdateRowWhere, ledgerVars, envVars
<1>33. ASSUME NEW w \in Workers, QueryFails(w) PROVE Kept
  BY <1>33 DEF QueryFails, GotoOrReturn, Closing, rowVars, ledgerVars, envVars
<1>34. ASSUME NEW w \in Workers, StatementFails(w) PROVE Kept
  BY <1>34 DEF StatementFails, GotoOrReturn, AfterFailure, AckedFailure, rowVars, ledgerVars, envVars
<1>35. ASSUME NEW w \in Workers, Crash(w) PROVE Kept
  BY <1>35 DEF Crash, Leave, rowVars, ledgerVars, envVars
<1>36. ASSUME NEW o \in Orders, CustomerPays(o) PROVE Kept
  BY <1>36 DEF CustomerPays, rowVars, ledgerVars, threadVars
<1>37. ASSUME NEW o \in Orders, Redeliver(o) PROVE Kept
  BY <1>37 DEF Redeliver, rowVars, ledgerVars, envVars, threadVars
<1>38. ASSUME NEW o \in Orders, LoseNotification(o) PROVE Kept
  BY <1>38 DEF LoseNotification, rowVars, ledgerVars, envVars, threadVars
<1>39. ASSUME NEW o \in Orders, ComesDue(o) PROVE Kept
  BY <1>39 DEF ComesDue, rowVars, ledgerVars, threadVars
<1>40. ASSUME NEW o \in Orders, GracePasses(o) PROVE Kept
  BY <1>40 DEF GracePasses, ledgerVars, threadVars
<1>41. CASE UNCHANGED vars
  BY <1>41 DEF vars, rowVars, ledgerVars, envVars, threadVars
<1> QED
  BY <1>1, <1>2, <1>3, <1>4, <1>5, <1>6, <1>7, <1>8, <1>9, <1>10, <1>11, <1>12,
     <1>13, <1>14, <1>15, <1>16, <1>17, <1>18, <1>19, <1>20, <1>21, <1>22, <1>23, <1>24,
     <1>25, <1>26, <1>27, <1>28, <1>29, <1>30, <1>31, <1>32, <1>33, <1>34, <1>35, <1>36,
     <1>37, <1>38, <1>39, <1>40, <1>41
  DEF Next, Call, Step, Fault, Environment

\* Without failures every step leaves an extended order RECHARGING or COMPLETED.
LEMMA ExtensionStep ==
  ASSUME Faults = FALSE
  PROVE  FulfillmentInv /\ ExtensionInv /\ [Next]_vars => ExtensionInv'
<1> SUFFICES ASSUME FulfillmentInv, ExtensionInv, [Next]_vars PROVE ExtensionInv'
  OBVIOUS
<1> USE OrdersAssumption, GrantsAssumption
    DEF FulfillmentInv, TypeOK, Status, PayState, PC, Delivering, Caller, AuditAction, LockInv, OneFulfiller, ExtensionInv, SubscriptionExtendedOnce
<1>1. ASSUME NEW w \in Workers, NEW o \in Orders, CreateOrder(w, o) PROVE ExtensionInv'
  BY <1>1 DEF CreateOrder, Enter, UpdateRow, ledgerVars, envVars
<1>2. ASSUME NEW w \in Workers, NEW o \in Orders, Webhook(w, o) PROVE ExtensionInv'
  BY <1>2 DEF Webhook, Enter, rowVars, ledgerVars, envVars
<1>3. ASSUME NEW w \in Workers, NEW o \in Orders, VerifyOrder(w, o) PROVE ExtensionInv'
  BY <1>3 DEF VerifyOrder, Enter, rowVars, ledgerVars, envVars
<1>4. ASSUME NEW w \in Workers, NEW o \in Orders, ReconcilePending(w, o) PROVE ExtensionInv'
  BY <1>4 DEF ReconcilePending, Enter, rowVars, ledgerVars, envVars
<1>5. ASSUME NEW w \in Workers, NEW o \in Orders, CancelOrder(w, o) PROVE ExtensionInv'
  BY <1>5 DEF CancelOrder, Enter, rowVars, ledgerVars, envVars
<1>6. ASSUME NEW w \in Workers, NEW o \in Orders, ExpireTimedOut(w, o) PROVE ExtensionInv'
  BY <1>6 DEF ExpireTimedOut, Enter, rowVars, ledgerVars, envVars
<1>7. ASSUME NEW w \in Workers, NEW o \in Orders, RetryFulfillment(w, o) PROVE ExtensionInv'
  BY <1>7 DEF RetryFulfillment, Enter, rowVars, ledgerVars, envVars
<1>8. ASSUME NEW w \in Workers, InvokeProvider(w) PROVE ExtensionInv'
  BY <1>8 DEF InvokeProvider, Goto, rowVars, ledgerVars, envVars
<1>9. ASSUME NEW w \in Workers, SavePaymentDetails(w) PROVE ExtensionInv'
  BY <1>9 DEF SavePaymentDetails, GotoOrReturn, Return, UpdateRow, ledgerVars
<1>10. ASSUME NEW w \in Workers, MarkCreateFailed(w) PROVE ExtensionInv'
  BY <1>10 DEF MarkCreateFailed, CreationInv, PaidInv, Creating, GotoOrReturn, Return, UpdateRow, ledgerVars, envVars
<1>11. ASSUME NEW w \in Workers, ResetForRetry(w) PROVE ExtensionInv'
  BY <1>11 DEF ResetForRetry, Goto, UpdateRowWhere, ledgerVars, envVars
<1>12. ASSUME NEW w \in Workers, QueryPaid(w) PROVE ExtensionInv'
  BY <1>12 DEF QueryPaid, Goto, rowVars, ledgerVars, envVars
<1>13. ASSUME NEW w \in Workers, QueryUnpaid(w) PROVE ExtensionInv'
  BY <1>13 DEF QueryUnpaid, GotoOrReturn, Closing, rowVars, ledgerVars, envVars
<1>14. ASSUME NEW w \in Workers, PersistTradeNo(w) PROVE ExtensionInv'
  BY <1>14 DEF PersistTradeNo, Goto, UpdateRow, ledgerVars, envVars
<1>15. ASSUME NEW w \in Workers, CloseUpstream(w) PROVE ExtensionInv'
  BY <1>15 DEF CloseUpstream, Goto, rowVars, ledgerVars
<1>16. ASSUME NEW w \in Workers, CancelRow(w) PROVE ExtensionInv'
  BY <1>16 DEF CancelRow, GotoOrReturn, Return, UpdateRowWhere, ledgerVars, envVars
<1>17. ASSUME NEW w \in Workers, Confirm(w) PROVE ExtensionInv'
  BY <1>17 DEF Confirm, Goto, rowVars, ledgerVars, envVars
<1>18. ASSUME NEW w \in Workers, RejectNotification(w) PROVE ExtensionInv'
  BY <1>18 DEF RejectNotification, GotoOrReturn, Return, rowVars, ledgerVars, envVars
<1>19. ASSUME NEW w \in Workers, ToPaid(w) PROVE ExtensionInv'
  BY <1>19 DEF ToPaid, Goto, UpdateRow, AcceptsPayment, ledgerVars, envVars
<1>20. ASSUME NEW w \in Workers, ToPaidRefused(w) PROVE ExtensionInv'
  BY <1>20 DEF ToPaidRefused, Goto, AcceptsPayment, rowVars, ledgerVars, envVars
<1>21. ASSUME NEW w \in Workers, AlreadyProcessed(w) PROVE ExtensionInv'
  BY <1>21 DEF AlreadyProcessed, GotoOrReturn, rowVars, envVars
<1>22. ASSUME NEW w \in Workers, LoadForFulfillment(w) PROVE ExtensionInv'
  BY <1>22 DEF LoadForFulfillment, GotoOrReturn, rowVars, ledgerVars, envVars
<1>23. ASSUME NEW w \in Workers, Lock(w) PROVE ExtensionInv'
  BY <1>23 DEF Lock, GotoOrReturn, UpdateRowWhere, ledgerVars, envVars
<1>24. ASSUME NEW w \in Workers, LookupCode(w) PROVE ExtensionInv'
  BY <1>24 DEF LookupCode, Goto, OrOnFault, RedeemAction, rowVars, ledgerVars, envVars
<1>25. ASSUME NEW w \in Workers, CreateCode(w) PROVE ExtensionInv'
  BY <1>25 DEF CreateCode, LedgerInv, Goto, OrOnFault, rowVars, envVars
<1>26. ASSUME NEW w \in Workers, Redeem(w) PROVE ExtensionInv'
  BY <1>26 DEF Redeem, LedgerInv, Goto, OrOnFault, rowVars, envVars
<1>27. ASSUME NEW w \in Workers, ApplyRebate(w) PROVE ExtensionInv'
  BY <1>27 DEF ApplyRebate, LedgerInv, Goto, OrOnFault, rowVars, envVars
<1>28. ASSUME NEW w \in Workers, LookupSubscriptionAudit(w) PROVE ExtensionInv'
  BY <1>28 DEF LookupSubscriptionAudit, Goto, OrOnFault, rowVars, ledgerVars, envVars
<1>29. ASSUME NEW w \in Workers, AssignOrExtend(w) PROVE ExtensionInv'
  BY <1>29 DEF AssignOrExtend, Goto, OrOnFault, rowVars, envVars
<1>30. ASSUME NEW w \in Workers, MarkCompleted(w) PROVE ExtensionInv'
  BY <1>30 DEF MarkCompleted, Goto, OrOnFault, UpdateRowWhere, ledgerVars, envVars
<1>31. ASSUME NEW w \in Workers, WriteSuccessAudit(w) PROVE ExtensionInv'
  BY <1>31 DEF WriteSuccessAudit, GotoOrReturn, Return, rowVars, envVars
<1>32. ASSUME NEW w \in Workers, MarkFailed(w) PROVE ExtensionInv'
  BY <1>32 DEF MarkFailed, GotoOrReturn, Return, UpdateRowWhere, ledgerVars, envVars
<1>33. ASSUME NEW w \in Workers, QueryFails(w) PROVE ExtensionInv'
  BY <1>33 DEF QueryFails, GotoOrReturn, Closing, rowVars, ledgerVars, envVars
<1>34. ASSUME NEW w \in Workers, StatementFails(w) PROVE ExtensionInv'
  BY <1>34 DEF StatementFails, GotoOrReturn, AfterFailure, AckedFailure, rowVars, ledgerVars, envVars
<1>35. ASSUME NEW w \in Workers, Crash(w) PROVE ExtensionInv'
  BY <1>35 DEF Crash, Leave, rowVars, ledgerVars, envVars
<1>36. ASSUME NEW o \in Orders, CustomerPays(o) PROVE ExtensionInv'
  BY <1>36 DEF CustomerPays, rowVars, ledgerVars, threadVars
<1>37. ASSUME NEW o \in Orders, Redeliver(o) PROVE ExtensionInv'
  BY <1>37 DEF Redeliver, rowVars, ledgerVars, envVars, threadVars
<1>38. ASSUME NEW o \in Orders, LoseNotification(o) PROVE ExtensionInv'
  BY <1>38 DEF LoseNotification, rowVars, ledgerVars, envVars, threadVars
<1>39. ASSUME NEW o \in Orders, ComesDue(o) PROVE ExtensionInv'
  BY <1>39 DEF ComesDue, rowVars, ledgerVars, threadVars
<1>40. ASSUME NEW o \in Orders, GracePasses(o) PROVE ExtensionInv'
  BY <1>40 DEF GracePasses, ledgerVars, threadVars
<1>41. CASE UNCHANGED vars
  BY <1>41 DEF vars, rowVars, ledgerVars, envVars, threadVars
<1> QED
  BY <1>1, <1>2, <1>3, <1>4, <1>5, <1>6, <1>7, <1>8, <1>9, <1>10, <1>11, <1>12,
     <1>13, <1>14, <1>15, <1>16, <1>17, <1>18, <1>19, <1>20, <1>21, <1>22, <1>23, <1>24,
     <1>25, <1>26, <1>27, <1>28, <1>29, <1>30, <1>31, <1>32, <1>33, <1>34, <1>35, <1>36,
     <1>37, <1>38, <1>39, <1>40, <1>41
  DEF Next, Call, Step, Fault, Environment

\* FulfillmentInv holds in every reachable state, for any number of orders and
\* goroutines and with every modelled failure.
THEOREM Invariance == Spec => []FulfillmentInv
<1>1. FulfillmentInv /\ [Next]_vars => FulfillmentInv'
  BY TypeStep, CreationStep, PaidStep, LockStep, LedgerStep DEF FulfillmentInv
<1> QED
  BY InitInv, <1>1, PTL DEF Spec

\* The variables keep their types.
THEOREM TypeCorrectness == Spec => []TypeOK
<1>1. FulfillmentInv => TypeOK
  BY DEF FulfillmentInv
<1> QED
  BY Invariance, <1>1, PTL

\* A balance order is credited at most once, whatever is retried or fails.
THEOREM CreditedOnce == Spec => []BalanceCreditedOnce
<1>1. FulfillmentInv => BalanceCreditedOnce
  BY DEF FulfillmentInv, LedgerInv, BalanceCreditedOnce
<1> QED
  BY Invariance, <1>1, PTL

\* Nothing is delivered that the provider does not hold the full payment for.
THEOREM NothingForFree == Spec => []DeliveredOnlyIfPaid
<1>1. FulfillmentInv => DeliveredOnlyIfPaid
  BY DEF FulfillmentInv, PaidInv, DeliveredOnlyIfPaid
<1> QED
  BY Invariance, <1>1, PTL

\* As long as no statement fails and no process dies, a subscription order
\* extends the subscription at most once, however many calls deliver it.
THEOREM ExtendedOnce ==
  ASSUME Faults = FALSE
  PROVE  Spec => []SubscriptionExtendedOnce
<1>1. Init => ExtensionInv
  BY OrdersAssumption DEF Init, ExtensionInv, SubscriptionExtendedOnce
<1>2. FulfillmentInv /\ ExtensionInv /\ [Next]_vars => ExtensionInv'
  BY ExtensionStep
<1>3. ExtensionInv => SubscriptionExtendedOnce
  BY DEF ExtensionInv
<1> QED
  BY Invariance, <1>1, <1>2, <1>3, PTL DEF Spec

\* A COMPLETED order was delivered, and its rebate decided.
THEOREM CompletionIsTrue == Spec => []CompletedIsDelivered
<1>1. FulfillmentInv => CompletedIsDelivered
  BY DEF FulfillmentInv, LedgerInv
<1> QED
  BY Invariance, <1>1, PTL

\* At most one rebate per order, and none without the recharge.
THEOREM RebatedOnce == Spec => []RebateOnceAndEarned
<1>1. FulfillmentInv => RebateOnceAndEarned
  BY DEF FulfillmentInv, TypeOK, LedgerInv, RebateOnceAndEarned
<1> QED
  BY Invariance, <1>1, PTL

\* Two goroutines never deliver the same order at the same time.
THEOREM MutualExclusion == Spec => []OneFulfiller
<1>1. FulfillmentInv => OneFulfiller
  BY DEF FulfillmentInv, LockInv
<1> QED
  BY Invariance, <1>1, PTL

\* A completed order stays completed and is not delivered again.
THEOREM CompletionIsFinal == Spec => CompletedIsFinal
<1>1. FulfillmentInv /\ [Next]_vars =>
        [\A o \in Orders : status[o] = "COMPLETED" =>
            status'[o] = "COMPLETED" /\ granted'[o] = granted[o]]_vars
  BY FinalStep
<1> QED
  BY Invariance, <1>1, PTL DEF Spec, CompletedIsFinal
=============================================================================
