--------------------------- MODULE PaymentRefund ---------------------------
(***************************************************************************)
(* Refunds of completed payment orders                                     *)
(* (backend/internal/service/payment_refund.go).                           *)
(*                                                                         *)
(* A refund first takes back what the order delivered (balance or          *)
(* subscription days), then asks the payment provider to return the money, *)
(* and gives back what it took when the provider refuses.  A worker is one *)
(* goroutine running one refund (admin) or one refund request (customer);  *)
(* every database statement and provider call is a step of its own.        *)
(***************************************************************************)
EXTENDS Integers, FiniteSets

CONSTANTS
    Orders,   \* completed orders, each of a customer of its own
    NoOrder,  \* the order of an idle worker
    Workers,  \* goroutines that can be inside PaymentService at one time
    Amount,   \* what an order delivered: balance units or days
    MaxRefunds,   \* bound on the refunds of an order at the provider
    FaultModels   \* which sets of things may fail in one behaviour

ASSUME RefundOrdersAssumption == NoOrder \notin Orders
ASSUME AmountAssumption == Amount \in Nat \ {0}
ASSUME MaxRefundsAssumption == MaxRefunds \in Nat \ {0}
\* db: a statement fails; gateway: the provider pays back and its answer is
\* lost; crash: a goroutine ends with its process.
ASSUME RefundFaultsAssumption == FaultModels \subseteq SUBSET {"db", "gateway", "crash"}

VARIABLES
    faults,          \* what may fail: chosen once
    status,          \* payment_orders.status
    orderType,       \* payment_orders.order_type
    tradeNo,         \* payment_orders.payment_trade_no is not empty
    rollbackFailed,  \* audit row REFUND_ROLLBACK_FAILED
    held,            \* the customer's balance, or the days left
    revoked,         \* the subscription was deleted
    taken,           \* what refunds of the order took and have not given back
    sent,            \* refunds the provider carried out
    pc, ord,
    plan             \* RefundPlan

rows == <<status, rollbackFailed>>
customer == <<held, revoked, taken>>
vars == <<faults, rows, orderType, tradeNo, customer, sent, pc, ord, plan>>

Status == {"COMPLETED", "REFUND_REQUESTED", "REFUNDING", "REFUNDED",
           "PARTIALLY_REFUNDED", "REFUND_FAILED"}
Refundable == {"COMPLETED", "REFUND_REQUESTED", "REFUND_FAILED"}

OrderType == {"balance", "subscription"}

\* The steps of a call that holds the REFUNDING status as its lock.
Refunding == {"deduct", "gateway", "rollback", "noteRollback", "restore",
              "markFailed", "markOk"}
PC == Refunding \cup {"idle", "request", "prepDeduct", "lock"}

\* from: the status the plan was made for; refund: RefundAmount; deduct:
\* BalanceToDeduct or SubDaysToDeduct (0 when nothing is to be taken).
Plan == [from : Status, refund : 1..Amount, deduct : 0..Amount]
NoPlan == [from |-> "COMPLETED", refund |-> Amount, deduct |-> 0]

TypeOK ==
    /\ faults \in FaultModels
    /\ status \in [Orders -> Status]
    /\ orderType \in [Orders -> OrderType]
    /\ tradeNo \in [Orders -> BOOLEAN]
    /\ rollbackFailed \in [Orders -> BOOLEAN]
    /\ held \in [Orders -> Int]
    /\ revoked \in [Orders -> BOOLEAN]
    /\ taken \in [Orders -> Int]
    /\ sent \in [Orders -> Nat]
    /\ pc \in [Workers -> PC]
    /\ ord \in [Workers -> Orders \cup {NoOrder}]
    /\ plan \in [Workers -> Plan]
    /\ \A w \in Workers : pc[w] # "idle" => ord[w] \in Orders

\* The customer may hold more than the order delivered.
Init ==
    /\ faults \in FaultModels
    /\ status = [o \in Orders |-> "COMPLETED"]
    /\ orderType \in [Orders -> OrderType]
    /\ tradeNo \in [Orders -> BOOLEAN]
    /\ rollbackFailed = [o \in Orders |-> FALSE]
    /\ held \in [Orders -> {Amount, 2 * Amount}]
    /\ revoked = [o \in Orders |-> FALSE]
    /\ taken = [o \in Orders |-> 0]
    /\ sent = [o \in Orders |-> 0]
    /\ pc = [w \in Workers |-> "idle"]
    /\ ord = [w \in Workers |-> NoOrder]
    /\ plan = [w \in Workers |-> NoPlan]

-----------------------------------------------------------------------------
(* Control of a goroutine. *)

Enter(w, o, p) ==
    /\ pc[w] = "idle"
    /\ pc' = [pc EXCEPT ![w] = p]
    /\ ord' = [ord EXCEPT ![w] = o]

Goto(w, p) ==
    /\ pc' = [pc EXCEPT ![w] = p]
    /\ ord' = [ord EXCEPT ![w] = IF p = "idle" THEN NoOrder ELSE @]

Leave(w) ==
    /\ Goto(w, "idle")
    /\ plan' = [plan EXCEPT ![w] = NoPlan]

\* What a statement may report: success, or failure as well if the database
\* can fail.  A failed statement has no effect.
Outcome == IF "db" \in faults THEN {TRUE, FALSE} ELSE {TRUE}

NoActiveSubscription(o) ==
    orderType[o] = "subscription" /\ (held[o] <= 0 \/ revoked[o])

SetStatus(o, s) == status' = [status EXCEPT ![o] = s]

-----------------------------------------------------------------------------
(* The customer asks for a refund; the customer spends. *)

\* validateRefundRequest and the balance check; the UPDATE comes later.
RequestRefund(w, o) ==
    /\ orderType[o] = "balance"
    /\ status[o] = "COMPLETED"
    /\ held[o] >= Amount
    /\ Enter(w, o, "request")
    /\ UNCHANGED <<rows, customer, sent, plan>>

MarkRequested(w) ==
    /\ pc[w] = "request"
    /\ status' = [status EXCEPT ![ord[w]] = IF @ = "COMPLETED" THEN "REFUND_REQUESTED" ELSE @]
    /\ Leave(w)
    /\ UNCHANGED <<rollbackFailed, customer, sent>>

\* Requests use up balance, time uses up days.
Spend(o) ==
    /\ held[o] > 0
    /\ held' = [held EXCEPT ![o] = @ - 1]
    /\ UNCHANGED <<rows, revoked, taken, sent, pc, ord, plan>>

-----------------------------------------------------------------------------
(* PrepareRefund. *)

\* Without deduct_balance, prepDeduct is not called.
PrepareRefund(w, o) ==
    /\ status[o] \in Refundable
    /\ \E amt \in 1..Amount, p \in {"prepDeduct", "lock"} :
          /\ Enter(w, o, p)
          /\ plan' = [plan EXCEPT ![w] = [from |-> status[o], refund |-> amt, deduct |-> 0]]
    /\ UNCHANGED <<rows, customer, sent>>

\* prepDeduct: the smaller of the refund and the balance is taken.
PrepDeductBalance(w) ==
    /\ pc[w] = "prepDeduct"
    /\ orderType[ord[w]] = "balance"
    /\ plan' = [plan EXCEPT ![w].deduct =
                    IF held[ord[w]] <= 0 THEN 0
                    ELSE IF held[ord[w]] < plan[w].refund THEN held[ord[w]]
                    ELSE plan[w].refund]
    /\ Goto(w, "lock")
    /\ UNCHANGED <<rows, customer, sent>>

\* All the days of the order, also for a partial refund.
PrepDeductSubscription(w) ==
    /\ pc[w] = "prepDeduct"
    /\ orderType[ord[w]] = "subscription"
    /\ held[ord[w]] > 0 /\ ~revoked[ord[w]]
    /\ plan' = [plan EXCEPT ![w].deduct = Amount]
    /\ Goto(w, "lock")
    /\ UNCHANGED <<rows, customer, sent>>

\* The user or an active subscription is not found: force goes on without a
\* deduction, otherwise the call ends with a warning.
PrepDeductNotFound(w) ==
    /\ pc[w] = "prepDeduct"
    /\ "db" \in faults \/ NoActiveSubscription(ord[w])
    /\ \E p \in {"idle", "lock"} : Goto(w, p)
    /\ plan' = [plan EXCEPT ![w].deduct = 0]
    /\ UNCHANGED <<rows, customer, sent>>

-----------------------------------------------------------------------------
(* ExecuteRefund. *)

\* Mutant: the order is locked on the strength of the status in the plan.
LockByPlan(w) ==
    /\ pc[w] = "lock"
    /\ SetStatus(ord[w], "REFUNDING")
    /\ Goto(w, "deduct")
    /\ UNCHANGED <<rollbackFailed, customer, sent, plan>>

Lock(w) ==
    /\ pc[w] = "lock"
    /\ status' = [status EXCEPT ![ord[w]] = IF @ \in Refundable THEN "REFUNDING" ELSE @]
    /\ Goto(w, IF status[ord[w]] \in Refundable THEN "deduct" ELSE "idle")
    /\ UNCHANGED <<rollbackFailed, customer, sent, plan>>

\* hasAuditLog reads a failing query as "no such row".
AuditSaysTaken(o) == {rollbackFailed[o]} \cup (IF "db" \in faults THEN {FALSE} ELSE {})

NothingToDeduct(w) ==
    /\ pc[w] = "deduct"
    /\ plan[w].deduct = 0
    /\ Goto(w, "gateway")
    /\ UNCHANGED <<rows, customer, sent, plan>>

SkipDeduction(w) ==
    /\ pc[w] = "deduct"
    /\ plan[w].deduct > 0
    /\ TRUE \in AuditSaysTaken(ord[w])
    /\ plan' = [plan EXCEPT ![w].deduct = 0]
    /\ Goto(w, "gateway")
    /\ UNCHANGED <<rows, customer, sent>>

\* DeductBalance lets the balance go below zero.
DeductBalance(w) ==
    /\ pc[w] = "deduct"
    /\ plan[w].deduct > 0 /\ orderType[ord[w]] = "balance"
    /\ FALSE \in AuditSaysTaken(ord[w])
    /\ held' = [held EXCEPT ![ord[w]] = @ - plan[w].deduct]
    /\ taken' = [taken EXCEPT ![ord[w]] = @ + plan[w].deduct]
    /\ Goto(w, "gateway")
    /\ UNCHANGED <<rows, revoked, sent, plan>>

\* ExtendSubscription(-days), or RevokeSubscription when it would expire.
DeductSubscription(w) ==
    /\ pc[w] = "deduct"
    /\ plan[w].deduct > 0 /\ orderType[ord[w]] = "subscription"
    /\ FALSE \in AuditSaysTaken(ord[w])
    /\ held[ord[w]] > 0 /\ ~revoked[ord[w]]
    /\ LET left == held[ord[w]] - plan[w].deduct
       IN  /\ held' = [held EXCEPT ![ord[w]] = IF left > 0 THEN left ELSE 0]
           /\ revoked' = [revoked EXCEPT ![ord[w]] = left <= 0]
    /\ taken' = [taken EXCEPT ![ord[w]] = @ + plan[w].deduct]
    /\ Goto(w, "gateway")
    /\ UNCHANGED <<rows, sent, plan>>

\* The deduction fails: a failing statement, or the subscription has expired
\* or is gone by now.
DeductFails(w) ==
    /\ pc[w] = "deduct"
    /\ plan[w].deduct > 0
    /\ FALSE \in AuditSaysTaken(ord[w])
    /\ "db" \in faults \/ NoActiveSubscription(ord[w])
    /\ Goto(w, "restore")
    /\ UNCHANGED <<rows, customer, sent, plan>>

\* ExtendSubscription shortens the subscription and then cannot read it back:
\* the refund is called off, the days are gone.
DeductUnreported(w) ==
    /\ "db" \in faults
    /\ pc[w] = "deduct"
    /\ plan[w].deduct > 0 /\ orderType[ord[w]] = "subscription"
    /\ FALSE \in AuditSaysTaken(ord[w])
    /\ held[ord[w]] > plan[w].deduct /\ ~revoked[ord[w]]
    /\ held' = [held EXCEPT ![ord[w]] = @ - plan[w].deduct]
    /\ taken' = [taken EXCEPT ![ord[w]] = @ + plan[w].deduct]
    /\ Goto(w, "restore")
    /\ UNCHANGED <<rows, revoked, sent, plan>>

\* gwRefund without a trade number asks nobody.
GatewaySkipped(w) ==
    /\ pc[w] = "gateway"
    /\ ~tradeNo[ord[w]]
    /\ Goto(w, "markOk")
    /\ UNCHANGED <<rows, customer, sent, plan>>

\* gwRefund: the provider pays back and says so, refuses, or pays back and the
\* answer is lost.
GatewayRefunds(w) ==
    /\ pc[w] = "gateway"
    /\ tradeNo[ord[w]]
    /\ sent[ord[w]] < MaxRefunds
    /\ sent' = [sent EXCEPT ![ord[w]] = @ + 1]
    /\ \E p \in IF "gateway" \in faults THEN {"markOk", "rollback"} ELSE {"markOk"} : Goto(w, p)
    /\ UNCHANGED <<rows, customer, plan>>

GatewayRefuses(w) ==
    /\ pc[w] = "gateway"
    /\ tradeNo[ord[w]]
    /\ Goto(w, "rollback")
    /\ UNCHANGED <<rows, customer, sent, plan>>

\* Mutant: a partial refund leaves the order open for another one.
MarkRefundOkPartialStaysOpen(w) ==
    /\ pc[w] = "markOk"
    /\ SetStatus(ord[w], IF plan[w].refund < Amount THEN "COMPLETED" ELSE "REFUNDED")
    /\ Leave(w)
    /\ UNCHANGED <<rollbackFailed, customer, sent>>

MarkRefundOk(w) ==
    /\ pc[w] = "markOk"
    /\ SetStatus(ord[w], IF plan[w].refund < Amount THEN "PARTIALLY_REFUNDED" ELSE "REFUNDED")
    /\ Leave(w)
    /\ UNCHANGED <<rollbackFailed, customer, sent>>

\* Mutant: a refused refund is not rolled back.
RollbackForgotten(w) ==
    /\ pc[w] = "rollback"
    /\ Goto(w, "restore")
    /\ UNCHANGED <<rows, customer, sent, plan>>

\* RollbackRefund; a revoked subscription cannot be extended.
Rollback(w) ==
    /\ pc[w] = "rollback"
    /\ plan[w].deduct = 0 \/ ~revoked[ord[w]]
    /\ held' = [held EXCEPT ![ord[w]] = @ + plan[w].deduct]
    /\ taken' = [taken EXCEPT ![ord[w]] = @ - plan[w].deduct]
    /\ Goto(w, "restore")
    /\ UNCHANGED <<rows, revoked, sent, plan>>

RollbackFails(w) ==
    /\ pc[w] = "rollback"
    /\ plan[w].deduct > 0
    /\ revoked[ord[w]] \/ "db" \in faults
    /\ Goto(w, "noteRollback")
    /\ UNCHANGED <<rows, customer, sent, plan>>

\* The same for the extension that gives the days back.
RollbackUnreported(w) ==
    /\ "db" \in faults
    /\ pc[w] = "rollback"
    /\ plan[w].deduct > 0 /\ orderType[ord[w]] = "subscription"
    /\ ~revoked[ord[w]]
    /\ held' = [held EXCEPT ![ord[w]] = @ + plan[w].deduct]
    /\ taken' = [taken EXCEPT ![ord[w]] = @ - plan[w].deduct]
    /\ Goto(w, "noteRollback")
    /\ UNCHANGED <<rows, revoked, sent, plan>>

\* The audit row is best effort.
NoteRollbackFailed(w) ==
    /\ pc[w] = "noteRollback"
    /\ \E written \in Outcome :
          rollbackFailed' = [rollbackFailed EXCEPT ![ord[w]] = @ \/ written]
    /\ Goto(w, "markFailed")
    /\ UNCHANGED <<status, customer, sent, plan>>

\* handleGwFail after a failed rollback; a failing UPDATE is ignored.
MarkRefundFailed(w) ==
    /\ pc[w] = "markFailed"
    /\ \E written \in Outcome :
          status' = [status EXCEPT ![ord[w]] = IF written THEN "REFUND_FAILED" ELSE @]
    /\ Leave(w)
    /\ UNCHANGED <<rollbackFailed, customer, sent>>

\* restoreStatus; a failing UPDATE is ignored.
RestoreStatus(w) ==
    /\ pc[w] = "restore"
    /\ \E written \in Outcome :
          status' = [status EXCEPT ![ord[w]] =
                         IF ~written THEN @
                         ELSE IF plan[w].from = "REFUND_REQUESTED" THEN "REFUND_REQUESTED"
                         ELSE "COMPLETED"]
    /\ Leave(w)
    /\ UNCHANGED <<rollbackFailed, customer, sent>>

\* A failing statement ends the call; after markRefundOk's the order stays
\* REFUNDING.
StatementFails(w) ==
    /\ "db" \in faults
    /\ pc[w] \in {"request", "lock", "markOk"}
    /\ Leave(w)
    /\ UNCHANGED <<rows, customer, sent>>

Crash(w) ==
    /\ "crash" \in faults
    /\ pc[w] # "idle"
    /\ Leave(w)
    /\ UNCHANGED <<rows, customer, sent>>

-----------------------------------------------------------------------------
Call(w, o) == RequestRefund(w, o) \/ PrepareRefund(w, o)

Step(w) ==
    \/ MarkRequested(w) \/ PrepDeductBalance(w) \/ PrepDeductSubscription(w)
    \/ PrepDeductNotFound(w) \/ Lock(w) \/ NothingToDeduct(w) \/ SkipDeduction(w)
    \/ DeductBalance(w) \/ DeductSubscription(w) \/ DeductFails(w)
    \/ DeductUnreported(w) \/ GatewaySkipped(w) \/ GatewayRefunds(w)
    \/ GatewayRefuses(w) \/ MarkRefundOk(w) \/ Rollback(w) \/ RollbackFails(w)
    \/ RollbackUnreported(w) \/ NoteRollbackFailed(w)
    \/ MarkRefundFailed(w) \/ RestoreStatus(w)

Fault(w) == StatementFails(w) \/ Crash(w)

Next ==
    /\ \/ \E w \in Workers, o \in Orders : Call(w, o)
       \/ \E w \in Workers : Step(w) \/ Fault(w)
       \/ \E o \in Orders : Spend(o)
    /\ UNCHANGED <<faults, orderType, tradeNo>>

Spec == Init /\ [][Next]_vars

-----------------------------------------------------------------------------
(* Properties. *)

\* REFUNDING is a lock: two refunds of one order never run at the same time,
\* although a plan is made before the lock is taken and every later UPDATE is
\* unconditional (ExecuteRefund).
OneRefunder ==
    \A v, w \in Workers :
        pc[v] \in Refunding /\ pc[w] \in Refunding /\ ord[v] = ord[w] => v = w

\* As long as the provider's answers can be believed, it pays an order back at
\* most once, and exactly once if the order says so and has a trade number,
\* whatever crashes and database failures there are.
PaidBackOnce ==
    "gateway" \notin faults => \A o \in Orders :
        /\ sent[o] <= 1
        /\ status[o] \in {"REFUNDED", "PARTIALLY_REFUNDED"} /\ tradeNo[o] => sent[o] = 1

\* With a working database, a refund that did not happen has given the balance
\* back: an order that can be refunded anew has nothing taken (handleGwFail:
\* "rolled back").
NothingTakenUnlessRefunded ==
    faults \cap {"db", "crash"} = {} => \A o \in Orders :
        orderType[o] = "balance" /\ status[o] \in {"COMPLETED", "REFUND_REQUESTED"} => taken[o] = 0

\* With a working database, retries of a refund take the balance once
\* (ExecuteRefund skips the deduction when a previous attempt could not be
\* rolled back).
TakenOnce == faults \cap {"db", "crash"} = {} => \A o \in Orders : taken[o] <= Amount

-----------------------------------------------------------------------------
(* The inductive invariant behind OneRefunder and PaidBackOnce. *)

\* REFUNDING belongs to the one goroutine that refunds.
RefundLockInv ==
    /\ OneRefunder
    /\ \A w \in Workers : pc[w] \in Refunding => status[ord[w]] = "REFUNDING"

\* Before its gateway step a refund finds nothing sent; after a successful one
\* there is no way back to a refundable status.
SentInv ==
    /\ \A o \in Orders : status[o] \in Refundable => sent[o] = 0
    /\ \A w \in Workers : pc[w] \in Refunding \ {"markOk"} => sent[ord[w]] = 0
    /\ \A w \in Workers : pc[w] = "markOk" /\ tradeNo[ord[w]] => sent[ord[w]] = 1
    /\ PaidBackOnce

\* What is taken is what the refund under way has deducted; an order that kept
\* more says so in its audit row, which only a subscription can get.
TakenInv ==
    /\ \A o \in Orders :
          /\ taken[o] <= Amount
          /\ orderType[o] = "balance" => ~rollbackFailed[o] /\ ~revoked[o]
          /\ status[o] \in Refundable /\ ~rollbackFailed[o] => taken[o] = 0
    /\ \A w \in Workers :
          /\ pc[w] \in {"deduct", "restore"} /\ ~rollbackFailed[ord[w]] => taken[ord[w]] = 0
          /\ pc[w] \in {"gateway", "rollback"} =>
                \/ taken[ord[w]] = plan[w].deduct
                \/ rollbackFailed[ord[w]] /\ plan[w].deduct = 0
          /\ pc[w] = "noteRollback" => orderType[ord[w]] = "subscription"
          /\ pc[w] = "markFailed" => rollbackFailed[ord[w]]

\* Inductive: SentInv as long as the provider's answers can be believed,
\* TakenInv with a working database.
RefundInv ==
    /\ TypeOK /\ RefundLockInv
    /\ "gateway" \notin faults => SentInv
    /\ faults \cap {"db", "crash"} = {} => TakenInv
=============================================================================
