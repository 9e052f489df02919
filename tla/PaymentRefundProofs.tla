----------------------- MODULE PaymentRefundProofs -----------------------
(***************************************************************************)
(* Proofs about PaymentRefund for every set of orders and workers.         *)
(*                                                                         *)
(* RefundInv is the inductive invariant.  PaidBackOnce needs the lock: the *)
(* gateway step may assume that nothing was sent only because no other     *)
(* refund of the order is between its lock and its last UPDATE.            *)
(***************************************************************************)
EXTENDS PaymentRefund, TLAPS

\* Orders start completed and nothing has been refunded.
LEMMA RefundInit == Init => RefundInv
<1> SUFFICES ASSUME Init PROVE RefundInv
  OBVIOUS
<1> USE RefundOrdersAssumption, AmountAssumption DEF Init
<1>1. TypeOK
  BY DEF TypeOK, Status, OrderType, PC, Refunding, Plan, NoPlan
<1>2. RefundLockInv
  BY DEF RefundLockInv, OneRefunder, Refunding
<1>3. SentInv
  BY DEF SentInv, PaidBackOnce, Refunding
<1>4. TakenInv
  BY DEF TakenInv, Refundable
<1> QED
  BY <1>1, <1>2, <1>3, <1>4 DEF RefundInv

\* Every step keeps the types.
LEMMA RefundTypeStep == RefundInv /\ [Next]_vars => TypeOK'
<1> SUFFICES ASSUME RefundInv, [Next]_vars PROVE TypeOK'
  OBVIOUS
<1> USE RefundOrdersAssumption, AmountAssumption, MaxRefundsAssumption
    DEF RefundInv, TypeOK, Status, Refundable, PC, Refunding, Plan, NoPlan
<1>1. ASSUME NEW w \in Workers, NEW o \in Orders, RequestRefund(w, o), UNCHANGED <<faults, orderType, tradeNo>> PROVE TypeOK'
  BY <1>1 DEF RequestRefund, Enter, rows, customer
<1>2. ASSUME NEW w \in Workers, NEW o \in Orders, PrepareRefund(w, o), UNCHANGED <<faults, orderType, tradeNo>> PROVE TypeOK'
  BY <1>2 DEF PrepareRefund, Enter, rows, customer
<1>3. ASSUME NEW w \in Workers, MarkRequested(w), UNCHANGED <<faults, orderType, tradeNo>> PROVE TypeOK'
  BY <1>3 DEF MarkRequested, Goto, Leave, customer
<1>4. ASSUME NEW w \in Workers, PrepDeductBalance(w), UNCHANGED <<faults, orderType, tradeNo>> PROVE TypeOK'
  BY <1>4 DEF PrepDeductBalance, Goto, rows, customer
<1>5. ASSUME NEW w \in Workers, PrepDeductSubscription(w), UNCHANGED <<faults, orderType, tradeNo>> PROVE TypeOK'
  BY <1>5 DEF PrepDeductSubscription, Goto, rows, customer
<1>6. ASSUME NEW w \in Workers, PrepDeductNotFound(w), UNCHANGED <<faults, orderType, tradeNo>> PROVE TypeOK'
  BY <1>6 DEF PrepDeductNotFound, Goto, rows, customer
<1>7. ASSUME NEW w \in Workers, Lock(w), UNCHANGED <<faults, orderType, tradeNo>> PROVE TypeOK'
  BY <1>7 DEF Lock, Goto, customer
<1>8. ASSUME NEW w \in Workers, NothingToDeduct(w), UNCHANGED <<faults, orderType, tradeNo>> PROVE TypeOK'
  BY <1>8 DEF NothingToDeduct, Goto, rows, customer
<1>9. ASSUME NEW w \in Workers, SkipDeduction(w), UNCHANGED <<faults, orderType, tradeNo>> PROVE TypeOK'
  BY <1>9 DEF SkipDeduction, Goto, AuditSaysTaken, rows, customer
<1>10. ASSUME NEW w \in Workers, DeductBalance(w), UNCHANGED <<faults, orderType, tradeNo>> PROVE TypeOK'
  BY <1>10 DEF DeductBalance, Goto, AuditSaysTaken, rows
<1>11. ASSUME NEW w \in Workers, DeductSubscription(w), UNCHANGED <<faults, orderType, tradeNo>> PROVE TypeOK'
  BY <1>11 DEF DeductSubscription, Goto, AuditSaysTaken, rows
<1>12. ASSUME NEW w \in Workers, DeductFails(w), UNCHANGED <<faults, orderType, tradeNo>> PROVE TypeOK'
  BY <1>12 DEF DeductFails, Goto, AuditSaysTaken, rows, customer
<1>13. ASSUME NEW w \in Workers, DeductUnreported(w), UNCHANGED <<faults, orderType, tradeNo>> PROVE TypeOK'
  BY <1>13 DEF DeductUnreported, Goto, AuditSaysTaken, rows
<1>14. ASSUME NEW w \in Workers, GatewaySkipped(w), UNCHANGED <<faults, orderType, tradeNo>> PROVE TypeOK'
  BY <1>14 DEF GatewaySkipped, Goto, rows, customer
<1>15. ASSUME NEW w \in Workers, GatewayRefunds(w), UNCHANGED <<faults, orderType, tradeNo>> PROVE TypeOK'
  BY <1>15 DEF GatewayRefunds, Goto, rows, customer
<1>16. ASSUME NEW w \in Workers, GatewayRefuses(w), UNCHANGED <<faults, orderType, tradeNo>> PROVE TypeOK'
  BY <1>16 DEF GatewayRefuses, Goto, rows, customer
<1>17. ASSUME NEW w \in Workers, MarkRefundOk(w), UNCHANGED <<faults, orderType, tradeNo>> PROVE TypeOK'
  BY <1>17 DEF MarkRefundOk, Goto, Leave, SetStatus, customer
<1>18. ASSUME NEW w \in Workers, Rollback(w), UNCHANGED <<faults, orderType, tradeNo>> PROVE TypeOK'
  BY <1>18 DEF Rollback, Goto, rows
<1>19. ASSUME NEW w \in Workers, RollbackFails(w), UNCHANGED <<faults, orderType, tradeNo>> PROVE TypeOK'
  BY <1>19 DEF RollbackFails, Goto, rows, customer
<1>20. ASSUME NEW w \in Workers, RollbackUnreported(w), UNCHANGED <<faults, orderType, tradeNo>> PROVE TypeOK'
  BY <1>20 DEF RollbackUnreported, Goto, rows
<1>21. ASSUME NEW w \in Workers, NoteRollbackFailed(w), UNCHANGED <<faults, orderType, tradeNo>> PROVE TypeOK'
  BY <1>21 DEF NoteRollbackFailed, Goto, Outcome, customer
<1>22. ASSUME NEW w \in Workers, MarkRefundFailed(w), UNCHANGED <<faults, orderType, tradeNo>> PROVE TypeOK'
  BY <1>22 DEF MarkRefundFailed, Goto, Leave, Outcome, customer
<1>23. ASSUME NEW w \in Workers, RestoreStatus(w), UNCHANGED <<faults, orderType, tradeNo>> PROVE TypeOK'
  BY <1>23 DEF RestoreStatus, Goto, Leave, Outcome, customer
<1>24. ASSUME NEW w \in Workers, StatementFails(w), UNCHANGED <<faults, orderType, tradeNo>> PROVE TypeOK'
  BY <1>24 DEF StatementFails, Goto, Leave, rows, customer
<1>25. ASSUME NEW w \in Workers, Crash(w), UNCHANGED <<faults, orderType, tradeNo>> PROVE TypeOK'
  BY <1>25 DEF Crash, Goto, Leave, rows, customer
<1>26. ASSUME NEW o \in Orders, Spend(o), UNCHANGED <<faults, orderType, tradeNo>> PROVE TypeOK'
  BY <1>26 DEF Spend, rows
<1>27. CASE UNCHANGED vars
  BY <1>27 DEF vars, rows, customer
<1> QED
  BY <1>1, <1>2, <1>3, <1>4, <1>5, <1>6, <1>7, <1>8, <1>9, <1>10, <1>11, <1>12,
     <1>13, <1>14, <1>15, <1>16, <1>17, <1>18, <1>19, <1>20, <1>21, <1>22, <1>23, <1>24,
     <1>25, <1>26, <1>27
  DEF Next, Call, Step, Fault

\* Every step keeps REFUNDING an exclusive lock.
LEMMA RefundLockStep == RefundInv /\ [Next]_vars => RefundLockInv'
<1> SUFFICES ASSUME RefundInv, [Next]_vars PROVE RefundLockInv'
  OBVIOUS
<1> USE RefundOrdersAssumption, AmountAssumption, MaxRefundsAssumption
    DEF RefundInv, TypeOK, Status, Refundable, PC, Refunding, RefundLockInv, OneRefunder
<1>1. ASSUME NEW w \in Workers, NEW o \in Orders, RequestRefund(w, o), UNCHANGED <<faults, orderType, tradeNo>> PROVE RefundLockInv'
  BY <1>1 DEF RequestRefund, Enter, rows, customer
<1>2. ASSUME NEW w \in Workers, NEW o \in Orders, PrepareRefund(w, o), UNCHANGED <<faults, orderType, tradeNo>> PROVE RefundLockInv'
  BY <1>2 DEF PrepareRefund, Enter, rows, customer
<1>3. ASSUME NEW w \in Workers, MarkRequested(w), UNCHANGED <<faults, orderType, tradeNo>> PROVE RefundLockInv'
  BY <1>3 DEF MarkRequested, Goto, Leave, customer
<1>4. ASSUME NEW w \in Workers, PrepDeductBalance(w), UNCHANGED <<faults, orderType, tradeNo>> PROVE RefundLockInv'
  BY <1>4 DEF PrepDeductBalance, Goto, rows, customer
<1>5. ASSUME NEW w \in Workers, PrepDeductSubscription(w), UNCHANGED <<faults, orderType, tradeNo>> PROVE RefundLockInv'
  BY <1>5 DEF PrepDeductSubscription, Goto, rows, customer
<1>6. ASSUME NEW w \in Workers, PrepDeductNotFound(w), UNCHANGED <<faults, orderType, tradeNo>> PROVE RefundLockInv'
  BY <1>6 DEF PrepDeductNotFound, Goto, rows, customer
<1>7. ASSUME NEW w \in Workers, Lock(w), UNCHANGED <<faults, orderType, tradeNo>> PROVE RefundLockInv'
  BY <1>7 DEF Lock, Goto, customer
<1>8. ASSUME NEW w \in Workers, NothingToDeduct(w), UNCHANGED <<faults, orderType, tradeNo>> PROVE RefundLockInv'
  BY <1>8 DEF NothingToDeduct, Goto, rows, customer
<1>9. ASSUME NEW w \in Workers, SkipDeduction(w), UNCHANGED <<faults, orderType, tradeNo>> PROVE RefundLockInv'
  BY <1>9 DEF SkipDeduction, Goto, AuditSaysTaken, rows, customer
<1>10. ASSUME NEW w \in Workers, DeductBalance(w), UNCHANGED <<faults, orderType, tradeNo>> PROVE RefundLockInv'
  BY <1>10 DEF DeductBalance, Goto, AuditSaysTaken, rows
<1>11. ASSUME NEW w \in Workers, DeductSubscription(w), UNCHANGED <<faults, orderType, tradeNo>> PROVE RefundLockInv'
  BY <1>11 DEF DeductSubscription, Goto, AuditSaysTaken, rows
<1>12. ASSUME NEW w \in Workers, DeductFails(w), UNCHANGED <<faults, orderType, tradeNo>> PROVE RefundLockInv'
  BY <1>12 DEF DeductFails, Goto, AuditSaysTaken, rows, customer
<1>13. ASSUME NEW w \in Workers, DeductUnreported(w), UNCHANGED <<faults, orderType, tradeNo>> PROVE RefundLockInv'
  BY <1>13 DEF DeductUnreported, Goto, AuditSaysTaken, rows
<1>14. ASSUME NEW w \in Workers, GatewaySkipped(w), UNCHANGED <<faults, orderType, tradeNo>> PROVE RefundLockInv'
  BY <1>14 DEF GatewaySkipped, Goto, rows, customer
<1>15. ASSUME NEW w \in Workers, GatewayRefunds(w), UNCHANGED <<faults, orderType, tradeNo>> PROVE RefundLockInv'
  BY <1>15 DEF GatewayRefunds, Goto, rows, customer
<1>16. ASSUME NEW w \in Workers, GatewayRefuses(w), UNCHANGED <<faults, orderType, tradeNo>> PROVE RefundLockInv'
  BY <1>16 DEF GatewayRefuses, Goto, rows, customer
<1>17. ASSUME NEW w \in Workers, MarkRefundOk(w), UNCHANGED <<faults, orderType, tradeNo>> PROVE RefundLockInv'
  BY <1>17 DEF MarkRefundOk, Goto, Leave, SetStatus, customer
<1>18. ASSUME NEW w \in Workers, Rollback(w), UNCHANGED <<faults, orderType, tradeNo>> PROVE RefundLockInv'
  BY <1>18 DEF Rollback, Goto, rows
<1>19. ASSUME NEW w \in Workers, RollbackFails(w), UNCHANGED <<faults, orderType, tradeNo>> PROVE RefundLockInv'
  BY <1>19 DEF RollbackFails, Goto, rows, customer
<1>20. ASSUME NEW w \in Workers, RollbackUnreported(w), UNCHANGED <<faults, orderType, tradeNo>> PROVE RefundLockInv'
  BY <1>20 DEF RollbackUnreported, Goto, rows
<1>21. ASSUME NEW w \in Workers, NoteRollbackFailed(w), UNCHANGED <<faults, orderType, tradeNo>> PROVE RefundLockInv'
  BY <1>21 DEF NoteRollbackFailed, Goto, Outcome, customer
<1>22. ASSUME NEW w \in Workers, MarkRefundFailed(w), UNCHANGED <<faults, orderType, tradeNo>> PROVE RefundLockInv'
  BY <1>22 DEF MarkRefundFailed, Goto, Leave, Outcome, customer
<1>23. ASSUME NEW w \in Workers, RestoreStatus(w), UNCHANGED <<faults, orderType, tradeNo>> PROVE RefundLockInv'
  BY <1>23 DEF RestoreStatus, Goto, Leave, Outcome, customer
<1>24. ASSUME NEW w \in Workers, StatementFails(w), UNCHANGED <<faults, orderType, tradeNo>> PROVE RefundLockInv'
  BY <1>24 DEF StatementFails, Goto, Leave, rows, customer
<1>25. ASSUME NEW w \in Workers, Crash(w), UNCHANGED <<faults, orderType, tradeNo>> PROVE RefundLockInv'
  BY <1>25 DEF Crash, Goto, Leave, rows, customer
<1>26. ASSUME NEW o \in Orders, Spend(o), UNCHANGED <<faults, orderType, tradeNo>> PROVE RefundLockInv'
  BY <1>26 DEF Spend, rows
<1>27. CASE UNCHANGED vars
  BY <1>27 DEF vars, rows, customer
<1> QED
  BY <1>1, <1>2, <1>3, <1>4, <1>5, <1>6, <1>7, <1>8, <1>9, <1>10, <1>11, <1>12,
     <1>13, <1>14, <1>15, <1>16, <1>17, <1>18, <1>19, <1>20, <1>21, <1>22, <1>23, <1>24,
     <1>25, <1>26, <1>27
  DEF Next, Call, Step, Fault

\* Every step keeps the count of refunds at the provider right.
LEMMA SentStep ==
  ASSUME "gateway" \notin faults
  PROVE  RefundInv /\ [Next]_vars => SentInv'
<1> SUFFICES ASSUME RefundInv, [Next]_vars PROVE SentInv'
  OBVIOUS
<1> USE RefundOrdersAssumption, AmountAssumption, MaxRefundsAssumption
    DEF RefundInv, TypeOK, Status, Refundable, PC, Refunding, RefundLockInv, OneRefunder, SentInv, PaidBackOnce
<1>1. ASSUME NEW w \in Workers, NEW o \in Orders, RequestRefund(w, o), UNCHANGED <<faults, orderType, tradeNo>> PROVE SentInv'
  BY <1>1 DEF RequestRefund, Enter, rows, customer
<1>2. ASSUME NEW w \in Workers, NEW o \in Orders, PrepareRefund(w, o), UNCHANGED <<faults, orderType, tradeNo>> PROVE SentInv'
  BY <1>2 DEF PrepareRefund, Enter, rows, customer
<1>3. ASSUME NEW w \in Workers, MarkRequested(w), UNCHANGED <<faults, orderType, tradeNo>> PROVE SentInv'
  BY <1>3 DEF MarkRequested, Goto, Leave, customer
<1>4. ASSUME NEW w \in Workers, PrepDeductBalance(w), UNCHANGED <<faults, orderType, tradeNo>> PROVE SentInv'
  BY <1>4 DEF PrepDeductBalance, Goto, rows, customer
<1>5. ASSUME NEW w \in Workers, PrepDeductSubscription(w), UNCHANGED <<faults, orderType, tradeNo>> PROVE SentInv'
  BY <1>5 DEF PrepDeductSubscription, Goto, rows, customer
<1>6. ASSUME NEW w \in Workers, PrepDeductNotFound(w), UNCHANGED <<faults, orderType, tradeNo>> PROVE SentInv'
  BY <1>6 DEF PrepDeductNotFound, Goto, rows, customer
<1>7. ASSUME NEW w \in Workers, Lock(w), UNCHANGED <<faults, orderType, tradeNo>> PROVE SentInv'
  BY <1>7 DEF Lock, Goto, customer
<1>8. ASSUME NEW w \in Workers, NothingToDeduct(w), UNCHANGED <<faults, orderType, tradeNo>> PROVE SentInv'
  BY <1>8 DEF NothingToDeduct, Goto, rows, customer
<1>9. ASSUME NEW w \in Workers, SkipDeduction(w), UNCHANGED <<faults, orderType, tradeNo>> PROVE SentInv'
  BY <1>9 DEF SkipDeduction, Goto, AuditSaysTaken, rows, customer
<1>10. ASSUME NEW w \in Workers, DeductBalance(w), UNCHANGED <<faults, orderType, tradeNo>> PROVE SentInv'
  BY <1>10 DEF DeductBalance, Goto, AuditSaysTaken, rows
<1>11. ASSUME NEW w \in Workers, DeductSubscription(w), UNCHANGED <<faults, orderType, tradeNo>> PROVE SentInv'
  BY <1>11 DEF DeductSubscription, Goto, AuditSaysTaken, rows
<1>12. ASSUME NEW w \in Workers, DeductFails(w), UNCHANGED <<faults, orderType, tradeNo>> PROVE SentInv'
  BY <1>12 DEF DeductFails, Goto, AuditSaysTaken, rows, customer
<1>13. ASSUME NEW w \in Workers, DeductUnreported(w), UNCHANGED <<faults, orderType, tradeNo>> PROVE SentInv'
  BY <1>13 DEF DeductUnreported, Goto, AuditSaysTaken, rows
<1>14. ASSUME NEW w \in Workers, GatewaySkipped(w), UNCHANGED <<faults, orderType, tradeNo>> PROVE SentInv'
  BY <1>14 DEF GatewaySkipped, Goto, rows, customer
<1>15. ASSUME NEW w \in Workers, GatewayRefunds(w), UNCHANGED <<faults, orderType, tradeNo>> PROVE SentInv'
  BY <1>15 DEF GatewayRefunds, Goto, rows, customer
<1>16. ASSUME NEW w \in Workers, GatewayRefuses(w), UNCHANGED <<faults, orderType, tradeNo>> PROVE SentInv'
  BY <1>16 DEF GatewayRefuses, Goto, rows, customer
<1>17. ASSUME NEW w \in Workers, MarkRefundOk(w), UNCHANGED <<faults, orderType, tradeNo>> PROVE SentInv'
  BY <1>17 DEF MarkRefundOk, Goto, Leave, SetStatus, customer
<1>18. ASSUME NEW w \in Workers, Rollback(w), UNCHANGED <<faults, orderType, tradeNo>> PROVE SentInv'
  BY <1>18 DEF Rollback, Goto, rows
<1>19. ASSUME NEW w \in Workers, RollbackFails(w), UNCHANGED <<faults, orderType, tradeNo>> PROVE SentInv'
  BY <1>19 DEF RollbackFails, Goto, rows, customer
<1>20. ASSUME NEW w \in Workers, RollbackUnreported(w), UNCHANGED <<faults, orderType, tradeNo>> PROVE SentInv'
  BY <1>20 DEF RollbackUnreported, Goto, rows
<1>21. ASSUME NEW w \in Workers, NoteRollbackFailed(w), UNCHANGED <<faults, orderType, tradeNo>> PROVE SentInv'
  BY <1>21 DEF NoteRollbackFailed, Goto, Outcome, customer
<1>22. ASSUME NEW w \in Workers, MarkRefundFailed(w), UNCHANGED <<faults, orderType, tradeNo>> PROVE SentInv'
  BY <1>22 DEF MarkRefundFailed, Goto, Leave, Outcome, customer
<1>23. ASSUME NEW w \in Workers, RestoreStatus(w), UNCHANGED <<faults, orderType, tradeNo>> PROVE SentInv'
  BY <1>23 DEF RestoreStatus, Goto, Leave, Outcome, customer
<1>24. ASSUME NEW w \in Workers, StatementFails(w), UNCHANGED <<faults, orderType, tradeNo>> PROVE SentInv'
  BY <1>24 DEF StatementFails, Goto, Leave, rows, customer
<1>25. ASSUME NEW w \in Workers, Crash(w), UNCHANGED <<faults, orderType, tradeNo>> PROVE SentInv'
  BY <1>25 DEF Crash, Goto, Leave, rows, customer
<1>26. ASSUME NEW o \in Orders, Spend(o), UNCHANGED <<faults, orderType, tradeNo>> PROVE SentInv'
  BY <1>26 DEF Spend, rows
<1>27. CASE UNCHANGED vars
  BY <1>27 DEF vars, rows, customer
<1> QED
  BY <1>1, <1>2, <1>3, <1>4, <1>5, <1>6, <1>7, <1>8, <1>9, <1>10, <1>11, <1>12,
     <1>13, <1>14, <1>15, <1>16, <1>17, <1>18, <1>19, <1>20, <1>21, <1>22, <1>23, <1>24,
     <1>25, <1>26, <1>27
  DEF Next, Call, Step, Fault

\* With a working database every step keeps the books on what was taken.
LEMMA TakenStep ==
  ASSUME faults \cap {"db", "crash"} = {}
  PROVE  RefundInv /\ [Next]_vars => TakenInv'
<1> SUFFICES ASSUME RefundInv, [Next]_vars PROVE TakenInv'
  OBVIOUS
<1> USE RefundOrdersAssumption, AmountAssumption, MaxRefundsAssumption
    DEF RefundInv, TypeOK, Status, Refundable, PC, Refunding, RefundLockInv, OneRefunder, TakenInv, Plan, NoPlan, OrderType
<1>1. ASSUME NEW w \in Workers, NEW o \in Orders, RequestRefund(w, o), UNCHANGED <<faults, orderType, tradeNo>> PROVE TakenInv'
  BY <1>1 DEF RequestRefund, Enter, rows, customer
<1>2. ASSUME NEW w \in Workers, NEW o \in Orders, PrepareRefund(w, o), UNCHANGED <<faults, orderType, tradeNo>> PROVE TakenInv'
  BY <1>2 DEF PrepareRefund, Enter, rows, customer
<1>3. ASSUME NEW w \in Workers, MarkRequested(w), UNCHANGED <<faults, orderType, tradeNo>> PROVE TakenInv'
  BY <1>3 DEF MarkRequested, Goto, Leave, customer
<1>4. ASSUME NEW w \in Workers, PrepDeductBalance(w), UNCHANGED <<faults, orderType, tradeNo>> PROVE TakenInv'
  BY <1>4 DEF PrepDeductBalance, Goto, rows, customer
<1>5. ASSUME NEW w \in Workers, PrepDeductSubscription(w), UNCHANGED <<faults, orderType, tradeNo>> PROVE TakenInv'
  BY <1>5 DEF PrepDeductSubscription, Goto, rows, customer
<1>6. ASSUME NEW w \in Workers, PrepDeductNotFound(w), UNCHANGED <<faults, orderType, tradeNo>> PROVE TakenInv'
  BY <1>6 DEF PrepDeductNotFound, Goto, rows, customer
<1>7. ASSUME NEW w \in Workers, Lock(w), UNCHANGED <<faults, orderType, tradeNo>> PROVE TakenInv'
  BY <1>7 DEF Lock, Goto, customer
<1>8. ASSUME NEW w \in Workers, NothingToDeduct(w), UNCHANGED <<faults, orderType, tradeNo>> PROVE TakenInv'
  BY <1>8 DEF NothingToDeduct, Goto, rows, customer
<1>9. ASSUME NEW w \in Workers, SkipDeduction(w), UNCHANGED <<faults, orderType, tradeNo>> PROVE TakenInv'
  BY <1>9 DEF SkipDeduction, Goto, AuditSaysTaken, rows, customer
<1>10. ASSUME NEW w \in Workers, DeductBalance(w), UNCHANGED <<faults, orderType, tradeNo>> PROVE TakenInv'
  BY <1>10 DEF DeductBalance, Goto, AuditSaysTaken, rows
<1>11. ASSUME NEW w \in Workers, DeductSubscription(w), UNCHANGED <<faults, orderType, tradeNo>> PROVE TakenInv'
  <2> DEFINE o == ord[w]
  <2>1. o \in Orders /\ w \in Workers
    BY <1>11 DEF DeductSubscription
  <2>2. ~rollbackFailed[o] /\ taken[o] = 0 /\ plan[w].deduct \in 0..Amount /\ orderType[o] = "subscription"
    BY <1>11, <2>1 DEF DeductSubscription, AuditSaysTaken
  <2>0. taken' = [taken EXCEPT ![o] = @ + plan[w].deduct]
    BY <1>11 DEF DeductSubscription
  <2>3. taken'[o] = plan[w].deduct /\ \A p \in Orders : p # o => taken'[p] = taken[p]
    BY <2>0, <2>1, <2>2
  <2>4. pc' = [pc EXCEPT ![w] = "gateway"] /\ UNCHANGED <<ord, plan, status, rollbackFailed, orderType>>
    BY <1>11 DEF DeductSubscription, Goto, rows
  <2>5. \A p \in Orders : p # o => revoked'[p] = revoked[p]
    BY <1>11, <2>1 DEF DeductSubscription
  <2>6. status[o] = "REFUNDING" /\ \A v \in Workers : pc[v] \in Refunding /\ ord[v] = o => v = w
    BY <1>11, <2>1 DEF DeductSubscription
  <2> HIDE DEF o
  <2>7. \A p \in Orders :
          /\ taken'[p] <= Amount
          /\ orderType'[p] = "balance" => ~rollbackFailed'[p] /\ ~revoked'[p]
          /\ status'[p] \in Refundable /\ ~rollbackFailed'[p] => taken'[p] = 0
    BY <2>1, <2>2, <2>3, <2>4, <2>5, <2>6
  <2>8. \A v \in Workers : v # w /\ pc[v] \in Refunding => ord[v] \in Orders /\ ord[v] # o
    BY <2>6
  <2>9. o = ord[w]
    BY DEF o
  <2> QED
    BY <2>1, <2>2, <2>3, <2>4, <2>7, <2>8, <2>9
<1>12. ASSUME NEW w \in Workers, DeductFails(w), UNCHANGED <<faults, orderType, tradeNo>> PROVE TakenInv'
  BY <1>12 DEF DeductFails, Goto, AuditSaysTaken, rows, customer
<1>13. ASSUME NEW w \in Workers, DeductUnreported(w), UNCHANGED <<faults, orderType, tradeNo>> PROVE TakenInv'
  BY <1>13 DEF DeductUnreported, Goto, AuditSaysTaken, rows
<1>14. ASSUME NEW w \in Workers, GatewaySkipped(w), UNCHANGED <<faults, orderType, tradeNo>> PROVE TakenInv'
  BY <1>14 DEF GatewaySkipped, Goto, rows, customer
<1>15. ASSUME NEW w \in Workers, GatewayRefunds(w), UNCHANGED <<faults, orderType, tradeNo>> PROVE TakenInv'
  BY <1>15 DEF GatewayRefunds, Goto, rows, customer
<1>16. ASSUME NEW w \in Workers, GatewayRefuses(w), UNCHANGED <<faults, orderType, tradeNo>> PROVE TakenInv'
  BY <1>16 DEF GatewayRefuses, Goto, rows, customer
<1>17. ASSUME NEW w \in Workers, MarkRefundOk(w), UNCHANGED <<faults, orderType, tradeNo>> PROVE TakenInv'
  BY <1>17 DEF MarkRefundOk, Goto, Leave, SetStatus, customer
<1>18. ASSUME NEW w \in Workers, Rollback(w), UNCHANGED <<faults, orderType, tradeNo>> PROVE TakenInv'
  BY <1>18 DEF Rollback, Goto, rows
<1>19. ASSUME NEW w \in Workers, RollbackFails(w), UNCHANGED <<faults, orderType, tradeNo>> PROVE TakenInv'
  BY <1>19 DEF RollbackFails, Goto, rows, customer
<1>20. ASSUME NEW w \in Workers, RollbackUnreported(w), UNCHANGED <<faults, orderType, tradeNo>> PROVE TakenInv'
  BY <1>20 DEF RollbackUnreported, Goto, rows
<1>21. ASSUME NEW w \in Workers, NoteRollbackFailed(w), UNCHANGED <<faults, orderType, tradeNo>> PROVE TakenInv'
  <2>1. ord[w] \in Orders /\ w \in Workers /\ orderType[ord[w]] = "subscription"
    BY <1>21 DEF NoteRollbackFailed
  <2>2. rollbackFailed' = [rollbackFailed EXCEPT ![ord[w]] = TRUE]
    BY <1>21, <2>1 DEF NoteRollbackFailed, Outcome
  <2>3. pc' = [pc EXCEPT ![w] = "markFailed"] /\ UNCHANGED <<ord, plan, status, taken, revoked, orderType>>
    BY <1>21 DEF NoteRollbackFailed, Goto, customer
  <2>4. status[ord[w]] = "REFUNDING"
    BY <1>21, <2>1 DEF NoteRollbackFailed
  <2> QED
    BY <2>1, <2>2, <2>3, <2>4
<1>22. ASSUME NEW w \in Workers, MarkRefundFailed(w), UNCHANGED <<faults, orderType, tradeNo>> PROVE TakenInv'
  BY <1>22 DEF MarkRefundFailed, Goto, Leave, Outcome, customer
<1>23. ASSUME NEW w \in Workers, RestoreStatus(w), UNCHANGED <<faults, orderType, tradeNo>> PROVE TakenInv'
  BY <1>23 DEF RestoreStatus, Goto, Leave, Outcome, customer
<1>24. ASSUME NEW w \in Workers, StatementFails(w), UNCHANGED <<faults, orderType, tradeNo>> PROVE TakenInv'
  BY <1>24 DEF StatementFails, Goto, Leave, rows, customer
<1>25. ASSUME NEW w \in Workers, Crash(w), UNCHANGED <<faults, orderType, tradeNo>> PROVE TakenInv'
  BY <1>25 DEF Crash, Goto, Leave, rows, customer
<1>26. ASSUME NEW o \in Orders, Spend(o), UNCHANGED <<faults, orderType, tradeNo>> PROVE TakenInv'
  BY <1>26 DEF Spend, rows
<1>27. CASE UNCHANGED vars
  BY <1>27 DEF vars, rows, customer
<1> QED
  BY <1>1, <1>2, <1>3, <1>4, <1>5, <1>6, <1>7, <1>8, <1>9, <1>10, <1>11, <1>12,
     <1>13, <1>14, <1>15, <1>16, <1>17, <1>18, <1>19, <1>20, <1>21, <1>22, <1>23, <1>24,
     <1>25, <1>26, <1>27
  DEF Next, Call, Step, Fault

\* What may fail in a behaviour is fixed.
LEMMA RefundFaultsFixed == [Next]_vars => faults' = faults
  BY DEF Next, vars

\* RefundInv holds in every reachable state.
THEOREM RefundInvariance == Spec => []RefundInv
<1>1. RefundInv /\ [Next]_vars => RefundInv'
  <2> SUFFICES ASSUME RefundInv, [Next]_vars PROVE RefundInv'
    OBVIOUS
  <2>1. TypeOK' /\ RefundLockInv'
    BY RefundTypeStep, RefundLockStep
  <2>2. faults' = faults
    BY RefundFaultsFixed
  <2>3. "gateway" \notin faults => SentInv'
    BY SentStep
  <2>4. faults \cap {"db", "crash"} = {} => TakenInv'
    BY TakenStep
  <2> QED
    BY <2>1, <2>2, <2>3, <2>4 DEF RefundInv
<1> QED
  BY RefundInit, <1>1, PTL DEF Spec

\* Every variable keeps its type.
THEOREM RefundTypes == Spec => []TypeOK
<1>1. RefundInv => TypeOK
  BY DEF RefundInv
<1> QED
  BY RefundInvariance, <1>1, PTL

\* Two refunds of one order never run at the same time, whatever fails.
THEOREM RefundMutualExclusion == Spec => []OneRefunder
<1>1. RefundInv => OneRefunder
  BY DEF RefundInv, RefundLockInv
<1> QED
  BY RefundInvariance, <1>1, PTL

\* A provider whose answers can be believed pays an order back at most once,
\* and has done so when the order says it.
THEOREM RefundedOnce == Spec => []PaidBackOnce
<1>1. RefundInv => PaidBackOnce
  BY DEF RefundInv, SentInv, PaidBackOnce
<1> QED
  BY RefundInvariance, <1>1, PTL

\* With a working database a refused refund has given the balance back.
THEOREM RefusedIsGivenBack == Spec => []NothingTakenUnlessRefunded
<1>1. RefundInv => NothingTakenUnlessRefunded
  BY DEF RefundInv, TakenInv, NothingTakenUnlessRefunded, Refundable
<1> QED
  BY RefundInvariance, <1>1, PTL

\* With a working database no order has more taken than it delivered.
THEOREM TakenAtMostOnce == Spec => []TakenOnce
<1>1. RefundInv => TakenOnce
  BY DEF RefundInv, TakenInv, TakenOnce
<1> QED
  BY RefundInvariance, <1>1, PTL
=============================================================================
