------------------------ MODULE PaymentFulfillment ------------------------
(***************************************************************************)
(* The life of a payment order from its creation to the delivery of what   *)
(* was bought (backend/internal/service/payment_order.go,                  *)
(* payment_order_lifecycle.go, payment_fulfillment.go).                    *)
(*                                                                         *)
(* A worker is one goroutine running one call of PaymentService: a         *)
(* webhook, a user's verify or cancel, a pass of the expiry job, an        *)
(* administrator's retry, an order creation.  Every database statement and *)
(* every provider call is a step of its own, so workers interleave between *)
(* any two of them, and a worker may crash or a statement fail at each.    *)
(***************************************************************************)
EXTENDS Naturals, FiniteSets

CONSTANTS
    Orders,         \* payment orders
    NoOrder,        \* the order of an idle worker
    BalanceOrders,  \* those that recharge a balance; the others buy a subscription
    Workers,        \* goroutines that can be inside PaymentService at one time
    MaxGrants,      \* bound on the deliveries counted for one order
    Faults          \* whether crashes, failing statements and lost webhooks happen

ASSUME OrdersAssumption == BalanceOrders \subseteq Orders /\ NoOrder \notin Orders
ASSUME GrantsAssumption == MaxGrants \in Nat \ {0}
ASSUME FaultsAssumption == Faults \in BOOLEAN

VARIABLES
    \* payment_orders
    status,     \* order status, "NONE" before the row exists
    paidAt,     \* paid_at is set
    fresh,      \* updated_at is within paymentGraceMinutes
    \* redeem_codes, users/user_subscriptions, payment_audit_logs
    code,       \* the order's recharge code
    granted,    \* how often the balance was credited or the subscription extended
    rebates,    \* how often an affiliate rebate was accrued
    audit,      \* audit actions that later steps read
    \* clock, customer and payment provider
    due,        \* expires_at has passed
    lapsed,     \* the grace period since the order expired has passed
    payable,    \* the customer has been given the payment link
    pay,        \* what the provider holds for the order
    notif,      \* the provider has a success webhook it will (re)send
    \* goroutines
    pc, via, ord

rowVars    == <<status, paidAt, fresh>>
ledgerVars == <<code, granted, rebates, audit>>
envVars    == <<due, lapsed, payable, pay>>
threadVars == <<pc, via, ord>>
vars       == <<rowVars, ledgerVars, envVars, notif, threadVars>>

Status == {"NONE", "PENDING", "PAID", "RECHARGING", "COMPLETED", "EXPIRED",
           "CANCELLED", "FAILED"}
AuditAction == {"SUCCESS", "AFFILIATE_REBATE", "PAYMENT_AFTER_EXPIRY"}
PayState == {"unpaid", "closed", "exact", "mismatch"}
Caller == {"none", "create", "webhook", "verify", "reconcile", "cancel",
           "expire", "retry"}

\* Steps of the part of a call that holds the RECHARGING status as its lock.
Delivering == {"lookup", "createCode", "redeem", "rebate", "assign",
               "complete", "markFailed"}
PC == Delivering \cup
      {"idle", "invoke", "saveDetails", "createFailed", "query", "persistTradeNo",
       "confirm", "toPaid", "already", "load", "lock", "auditSuccess",
       "closeUpstream", "cancelRow", "resetForRetry"}

TypeOK ==
    /\ status \in [Orders -> Status]
    /\ paidAt \in [Orders -> BOOLEAN]
    /\ fresh \in [Orders -> BOOLEAN]
    /\ code \in [Orders -> {"none", "unused", "used"}]
    /\ granted \in [Orders -> 0..MaxGrants]
    /\ rebates \in [Orders -> Nat]
    /\ audit \in [Orders -> SUBSET AuditAction]
    /\ due \in [Orders -> BOOLEAN]
    /\ lapsed \in [Orders -> BOOLEAN]
    /\ payable \in [Orders -> BOOLEAN]
    /\ pay \in [Orders -> PayState]
    /\ notif \in [Orders -> BOOLEAN]
    /\ pc \in [Workers -> PC]
    /\ via \in [Workers -> Caller]
    /\ ord \in [Workers -> Orders \cup {NoOrder}]
    /\ \A w \in Workers : pc[w] # "idle" => ord[w] \in Orders

Init ==
    /\ status = [o \in Orders |-> "NONE"]
    /\ paidAt = [o \in Orders |-> FALSE]
    /\ fresh = [o \in Orders |-> FALSE]
    /\ code = [o \in Orders |-> "none"]
    /\ granted = [o \in Orders |-> 0]
    /\ rebates = [o \in Orders |-> 0]
    /\ audit = [o \in Orders |-> {}]
    /\ due = [o \in Orders |-> FALSE]
    /\ lapsed = [o \in Orders |-> FALSE]
    /\ payable = [o \in Orders |-> FALSE]
    /\ pay = [o \in Orders |-> "unpaid"]
    /\ notif = [o \in Orders |-> FALSE]
    /\ pc = [w \in Workers |-> "idle"]
    /\ via = [w \in Workers |-> "none"]
    /\ ord = [w \in Workers |-> NoOrder]

-----------------------------------------------------------------------------
(* Control of a goroutine. *)

Enter(w, o, caller, p) ==
    /\ pc[w] = "idle"
    /\ pc' = [pc EXCEPT ![w] = p]
    /\ via' = [via EXCEPT ![w] = caller]
    /\ ord' = [ord EXCEPT ![w] = o]

Goto(w, p) ==
    /\ pc' = [pc EXCEPT ![w] = p]
    /\ UNCHANGED <<via, ord>>

Leave(w) ==
    /\ pc' = [pc EXCEPT ![w] = "idle"]
    /\ via' = [via EXCEPT ![w] = "none"]
    /\ ord' = [ord EXCEPT ![w] = NoOrder]

\* The call goes on at p, or returns when p is "idle".  The webhook handler
\* answers 2xx when its call returned no error (ok), and only then does the
\* provider stop sending; every other caller ignores the result.
GotoOrReturn(w, p, ok) ==
    /\ pc' = [pc EXCEPT ![w] = p]
    /\ via' = [via EXCEPT ![w] = IF p = "idle" THEN "none" ELSE @]
    /\ ord' = [ord EXCEPT ![w] = IF p = "idle" THEN NoOrder ELSE @]
    /\ notif' = IF p = "idle" /\ ok /\ via[w] = "webhook"
                THEN [notif EXCEPT ![ord[w]] = FALSE]
                ELSE notif

Return(w, ok) == GotoOrReturn(w, "idle", ok)

\* A statement can take effect although its caller is told that it failed.
OrOnFault(p, q) == IF Faults THEN {p, q} ELSE {p}

\* An UPDATE of the order row; updated_at follows every update.
UpdateRow(o, s) ==
    /\ status' = [status EXCEPT ![o] = s]
    /\ fresh' = [fresh EXCEPT ![o] = TRUE]

\* UPDATE ... SET status = s WHERE id = o AND status IN from.
UpdateRowWhere(o, from, s) ==
    /\ status' = [status EXCEPT ![o] = IF @ \in from THEN s ELSE @]
    /\ fresh' = [fresh EXCEPT ![o] = (status[o] \in from \/ @)]

-----------------------------------------------------------------------------
(* Order creation. *)

CreateOrder(w, o) ==
    /\ status[o] = "NONE"
    /\ Enter(w, o, "create", "invoke")
    /\ UpdateRow(o, "PENDING")
    /\ UNCHANGED <<paidAt, ledgerVars, envVars, notif>>

InvokeProvider(w) ==
    /\ pc[w] = "invoke"
    /\ \E p \in {"saveDetails", "createFailed"} : Goto(w, p)
    /\ UNCHANGED <<rowVars, ledgerVars, envVars, notif>>

SavePaymentDetails(w) ==
    /\ pc[w] = "saveDetails"
    /\ UpdateRow(ord[w], status[ord[w]])
    /\ payable' = [payable EXCEPT ![ord[w]] = TRUE]
    /\ Return(w, TRUE)
    /\ UNCHANGED <<paidAt, ledgerVars, due, lapsed, pay>>

\* No condition on the status the row has by now.
MarkCreateFailed(w) ==
    /\ pc[w] = "createFailed"
    /\ UpdateRow(ord[w], "FAILED")
    /\ Return(w, FALSE)
    /\ UNCHANGED <<paidAt, ledgerVars, envVars>>

-----------------------------------------------------------------------------
(* Entry points of the calls that end in a payment confirmation. *)

Webhook(w, o) ==
    /\ notif[o]
    /\ Enter(w, o, "webhook", "confirm")
    /\ UNCHANGED <<rowVars, ledgerVars, envVars, notif>>

VerifyOrder(w, o) ==
    /\ status[o] \in {"PENDING", "EXPIRED"}
    /\ Enter(w, o, "verify", "query")
    /\ UNCHANGED <<rowVars, ledgerVars, envVars, notif>>

ReconcilePending(w, o) ==
    /\ status[o] = "PENDING" /\ ~due[o]
    /\ Enter(w, o, "reconcile", "query")
    /\ UNCHANGED <<rowVars, ledgerVars, envVars, notif>>

CancelOrder(w, o) ==
    /\ status[o] = "PENDING"
    /\ Enter(w, o, "cancel", "query")
    /\ UNCHANGED <<rowVars, ledgerVars, envVars, notif>>

ExpireTimedOut(w, o) ==
    /\ status[o] = "PENDING" /\ due[o]
    /\ Enter(w, o, "expire", "query")
    /\ UNCHANGED <<rowVars, ledgerVars, envVars, notif>>

RetryFulfillment(w, o) ==
    /\ paidAt[o]
    /\ status[o] \in {"FAILED", "PAID"}
    /\ Enter(w, o, "retry", "resetForRetry")
    /\ UNCHANGED <<rowVars, ledgerVars, envVars, notif>>

ResetForRetry(w) ==
    /\ pc[w] = "resetForRetry"
    /\ UpdateRowWhere(ord[w], {"FAILED", "PAID"}, "PAID")
    /\ Goto(w, "load")
    /\ UNCHANGED <<paidAt, ledgerVars, envVars, notif>>

-----------------------------------------------------------------------------
(* checkPaidWithOptions: ask the provider, then confirm or cancel. *)

Closing(w) == via[w] \in {"cancel", "expire"}

QueryPaid(w) ==
    /\ pc[w] = "query"
    /\ pay[ord[w]] \in {"exact", "mismatch"}
    /\ \E p \in {"persistTradeNo", "confirm"} : Goto(w, p)
    /\ UNCHANGED <<rowVars, ledgerVars, envVars, notif>>

QueryUnpaid(w) ==
    /\ pc[w] = "query"
    /\ pay[ord[w]] \in {"unpaid", "closed"}
    /\ GotoOrReturn(w, IF Closing(w) THEN "closeUpstream" ELSE "idle", TRUE)
    /\ UNCHANGED <<rowVars, ledgerVars, envVars>>

\* The provider does not answer: the order is cancelled or expired all the same.
QueryFails(w) ==
    /\ Faults
    /\ pc[w] = "query"
    /\ GotoOrReturn(w, IF Closing(w) THEN "cancelRow" ELSE "idle", TRUE)
    /\ UNCHANGED <<rowVars, ledgerVars, envVars>>

PersistTradeNo(w) ==
    /\ pc[w] = "persistTradeNo"
    /\ UpdateRow(ord[w], status[ord[w]])
    /\ Goto(w, "confirm")
    /\ UNCHANGED <<paidAt, ledgerVars, envVars, notif>>

\* CancelPayment, on the providers that have it; its error is ignored, and a
\* payment made in the meantime is not undone.
CloseUpstream(w) ==
    /\ pc[w] = "closeUpstream"
    /\ \E p \in {pay[ord[w]]} \cup (IF pay[ord[w]] = "unpaid" THEN {"closed"} ELSE {}) :
          pay' = [pay EXCEPT ![ord[w]] = p]
    /\ Goto(w, "cancelRow")
    /\ UNCHANGED <<rowVars, ledgerVars, due, lapsed, payable, notif>>

CancelRow(w) ==
    /\ pc[w] = "cancelRow"
    /\ UpdateRowWhere(ord[w], {"PENDING"},
                      IF via[w] = "expire" THEN "EXPIRED" ELSE "CANCELLED")
    /\ Return(w, TRUE)
    /\ UNCHANGED <<paidAt, ledgerVars, envVars>>

-----------------------------------------------------------------------------
(* confirmPayment, toPaid and alreadyProcessed. *)

\* Mutant: the paid amount is not compared with the order's.
ConfirmAnyAmount(w) ==
    /\ pc[w] = "confirm"
    /\ pay[ord[w]] \in {"exact", "mismatch"}
    /\ Goto(w, "toPaid")
    /\ UNCHANGED <<rowVars, ledgerVars, envVars, notif>>

\* Provider key, provider metadata and amount agree with the order.
Confirm(w) ==
    /\ pc[w] = "confirm"
    /\ pay[ord[w]] = "exact"
    /\ Goto(w, "toPaid")
    /\ UNCHANGED <<rowVars, ledgerVars, envVars, notif>>

\* One of them does not: the amount never, the provider binding when the
\* instance was reconfigured after the order was made.
RejectNotification(w) ==
    /\ pc[w] = "confirm"
    /\ pay[ord[w]] # "exact" \/ Faults
    /\ Return(w, FALSE)
    /\ UNCHANGED <<rowVars, ledgerVars, envVars>>

\* Mutant: a cancelled order does not take the payment any more.
AcceptsPaymentUnlessCancelled(o) ==
    \/ status[o] = "PENDING"
    \/ status[o] = "EXPIRED" /\ fresh[o]

\* The condition of toPaid's UPDATE.
AcceptsPayment(o) ==
    \/ status[o] \in {"PENDING", "CANCELLED"}
    \/ status[o] = "EXPIRED" /\ fresh[o]

ToPaid(w) ==
    /\ pc[w] = "toPaid"
    /\ AcceptsPayment(ord[w])
    /\ UpdateRow(ord[w], "PAID")
    /\ paidAt' = [paidAt EXCEPT ![ord[w]] = TRUE]
    /\ Goto(w, "load")
    /\ UNCHANGED <<ledgerVars, envVars, notif>>

\* The UPDATE matches no row.
ToPaidRefused(w) ==
    /\ pc[w] = "toPaid"
    /\ ~AcceptsPayment(ord[w])
    /\ Goto(w, "already")
    /\ UNCHANGED <<rowVars, ledgerVars, envVars, notif>>

AlreadyProcessed(w) ==
    /\ pc[w] = "already"
    /\ audit' = IF status[ord[w]] = "EXPIRED"
                THEN [audit EXCEPT ![ord[w]] = @ \cup {"PAYMENT_AFTER_EXPIRY"}]
                ELSE audit
    /\ GotoOrReturn(w, IF status[ord[w]] = "FAILED" THEN "load" ELSE "idle",
                    status[ord[w]] \notin {"PAID", "RECHARGING"})
    /\ UNCHANGED <<rowVars, code, granted, rebates, envVars>>

-----------------------------------------------------------------------------
(* Execute{Balance,Subscription}Fulfillment, doBalance, doSub. *)

LoadForFulfillment(w) ==
    /\ pc[w] = "load"
    /\ GotoOrReturn(w, IF status[ord[w]] \in {"PAID", "FAILED"} THEN "lock" ELSE "idle",
                    status[ord[w]] = "COMPLETED")
    /\ UNCHANGED <<rowVars, ledgerVars, envVars>>

\* Mutant: the status read by the load is trusted, the UPDATE is unconditional.
LockUnconditionally(w) ==
    /\ pc[w] = "lock"
    /\ UpdateRow(ord[w], "RECHARGING")
    /\ Goto(w, "lookup")
    /\ UNCHANGED <<paidAt, ledgerVars, envVars, notif>>

Lock(w) ==
    /\ pc[w] = "lock"
    /\ UpdateRowWhere(ord[w], {"PAID", "FAILED"}, "RECHARGING")
    /\ GotoOrReturn(w, IF status[ord[w]] \in {"PAID", "FAILED"} THEN "lookup" ELSE "idle",
                    TRUE)
    /\ UNCHANGED <<paidAt, ledgerVars, envVars>>

\* resolveRedeemAction.
RedeemAction(c) ==
    IF c = "none" THEN "createCode" ELSE IF c = "unused" THEN "redeem" ELSE "rebate"

\* Mutant: any existing code counts as redeemed.
LookupCodeSkipsUnused(w) ==
    /\ pc[w] = "lookup"
    /\ ord[w] \in BalanceOrders
    /\ Goto(w, IF code[ord[w]] = "none" THEN "createCode" ELSE "rebate")
    /\ UNCHANGED <<rowVars, ledgerVars, envVars, notif>>

\* GetByCode; a failing lookup counts as "no such code".
LookupCode(w) ==
    /\ pc[w] = "lookup"
    /\ ord[w] \in BalanceOrders
    /\ \E p \in OrOnFault(RedeemAction(code[ord[w]]), "createCode") : Goto(w, p)
    /\ UNCHANGED <<rowVars, ledgerVars, envVars, notif>>

CreateCode(w) ==
    /\ pc[w] = "createCode"
    /\ code' = [code EXCEPT ![ord[w]] = IF @ = "none" THEN "unused" ELSE @]
    /\ \E p \in OrOnFault(IF code[ord[w]] = "none" THEN "redeem" ELSE "markFailed",
                          "markFailed") : Goto(w, p)
    /\ UNCHANGED <<rowVars, granted, rebates, audit, envVars, notif>>

\* Mutant: the credit without the unused -> used transition of the code.
RedeemLeavesCodeUnused(w) ==
    /\ pc[w] = "redeem"
    /\ granted' = [granted EXCEPT ![ord[w]] = @ + 1]
    /\ \E p \in OrOnFault("rebate", "markFailed") : Goto(w, p)
    /\ UNCHANGED <<rowVars, code, rebates, audit, envVars, notif>>

\* RedeemService.Redeem: one transaction marks the code used and credits.
Redeem(w) ==
    /\ pc[w] = "redeem"
    /\ code' = [code EXCEPT ![ord[w]] = IF @ = "unused" THEN "used" ELSE @]
    /\ granted' = [granted EXCEPT ![ord[w]] = @ + (IF code[ord[w]] = "unused" THEN 1 ELSE 0)]
    /\ \E p \in OrOnFault(IF code[ord[w]] = "unused" THEN "rebate" ELSE "markFailed",
                          "markFailed") : Goto(w, p)
    /\ UNCHANGED <<rowVars, rebates, audit, envVars, notif>>

\* Mutant: the accrual does not look at the claim.
ApplyRebateUnclaimed(w) ==
    /\ pc[w] = "rebate"
    /\ rebates' = [rebates EXCEPT ![ord[w]] = @ + 1]
    /\ audit' = [audit EXCEPT ![ord[w]] = @ \cup {"AFFILIATE_REBATE"}]
    /\ \E p \in OrOnFault("complete", "markFailed") : Goto(w, p)
    /\ UNCHANGED <<rowVars, code, granted, envVars, notif>>

\* applyAffiliateRebateForOrder: one transaction claims the audit row
\* (AFFILIATE_REBATE_APPLIED or _SKIPPED) and accrues, or finds that the buyer
\* has no inviter.
ApplyRebate(w) ==
    /\ pc[w] = "rebate"
    /\ \E n \in IF "AFFILIATE_REBATE" \in audit[ord[w]] THEN {0} ELSE {0, 1} :
          rebates' = [rebates EXCEPT ![ord[w]] = @ + n]
    /\ audit' = [audit EXCEPT ![ord[w]] = @ \cup {"AFFILIATE_REBATE"}]
    /\ \E p \in OrOnFault("complete", "markFailed") : Goto(w, p)
    /\ UNCHANGED <<rowVars, code, granted, envVars, notif>>

\* doSub up to hasAuditLog, which reads a failing query as "not there".
LookupSubscriptionAudit(w) ==
    /\ pc[w] = "lookup"
    /\ ord[w] \notin BalanceOrders
    /\ \E p \in OrOnFault(IF "SUCCESS" \in audit[ord[w]] THEN "complete" ELSE "assign",
                          "assign") : Goto(w, p)
    /\ UNCHANGED <<rowVars, ledgerVars, envVars, notif>>

AssignOrExtend(w) ==
    /\ pc[w] = "assign"
    /\ granted[ord[w]] < MaxGrants
    /\ granted' = [granted EXCEPT ![ord[w]] = @ + 1]
    /\ \E p \in OrOnFault("complete", "markFailed") : Goto(w, p)
    /\ UNCHANGED <<rowVars, code, rebates, audit, envVars, notif>>

MarkCompleted(w) ==
    /\ pc[w] = "complete"
    /\ UpdateRowWhere(ord[w], {"RECHARGING"}, "COMPLETED")
    /\ \E p \in OrOnFault("auditSuccess", "markFailed") : Goto(w, p)
    /\ UNCHANGED <<paidAt, ledgerVars, envVars, notif>>

WriteSuccessAudit(w) ==
    /\ pc[w] = "auditSuccess"
    /\ audit' = [audit EXCEPT ![ord[w]] = @ \cup {"SUCCESS"}]
    /\ Return(w, TRUE)
    /\ UNCHANGED <<rowVars, code, granted, rebates, envVars>>

\* Mutant: FAILED is written whatever the status.
MarkFailedUnconditionally(w) ==
    /\ pc[w] = "markFailed"
    /\ UpdateRow(ord[w], "FAILED")
    /\ Return(w, FALSE)
    /\ UNCHANGED <<paidAt, ledgerVars, envVars>>

MarkFailed(w) ==
    /\ pc[w] = "markFailed"
    /\ UpdateRowWhere(ord[w], {"RECHARGING"}, "FAILED")
    /\ Return(w, FALSE)
    /\ UNCHANGED <<paidAt, ledgerVars, envVars>>

-----------------------------------------------------------------------------
(* Failures. *)

\* Where the call goes when the statement at a step fails without effect.
AfterFailure(p) ==
    IF p \in Delivering \ {"markFailed"} THEN "markFailed"
    ELSE IF p = "saveDetails" THEN "createFailed"
    ELSE IF p = "persistTradeNo" THEN "confirm"
    ELSE "idle"

\* confirmPayment and alreadyProcessed return nil when they cannot read the
\* order, and the audit row is best effort: the webhook is acknowledged.
AckedFailure == {"confirm", "already", "auditSuccess"}

StatementFails(w) ==
    /\ Faults
    /\ pc[w] \in PC \ {"idle", "invoke", "query", "closeUpstream"}
    /\ GotoOrReturn(w, AfterFailure(pc[w]), pc[w] \in AckedFailure)
    /\ UNCHANGED <<rowVars, ledgerVars, envVars>>

\* The process dies: the goroutine is gone, the rows stay as they are.
Crash(w) ==
    /\ Faults
    /\ pc[w] # "idle"
    /\ Leave(w)
    /\ UNCHANGED <<rowVars, ledgerVars, envVars, notif>>

-----------------------------------------------------------------------------
(* Customer, clock and the provider's delivery of webhooks. *)

CustomerPays(o) ==
    /\ payable[o] /\ pay[o] = "unpaid"
    /\ \E p \in {"exact", "mismatch"} : pay' = [pay EXCEPT ![o] = p]
    /\ notif' = [notif EXCEPT ![o] = TRUE]
    /\ UNCHANGED <<rowVars, ledgerVars, due, lapsed, payable, threadVars>>

\* An acknowledgement is lost, or the provider sends twice.
Redeliver(o) ==
    /\ pay[o] \in {"exact", "mismatch"} /\ ~notif[o]
    /\ notif' = [notif EXCEPT ![o] = TRUE]
    /\ UNCHANGED <<rowVars, ledgerVars, envVars, threadVars>>

\* The provider gives up.
LoseNotification(o) ==
    /\ Faults
    /\ notif[o]
    /\ notif' = [notif EXCEPT ![o] = FALSE]
    /\ UNCHANGED <<rowVars, ledgerVars, envVars, threadVars>>

ComesDue(o) ==
    /\ status[o] # "NONE" /\ ~due[o]
    /\ due' = [due EXCEPT ![o] = TRUE]
    /\ UNCHANGED <<rowVars, ledgerVars, lapsed, payable, pay, notif, threadVars>>

\* The provider calls of a creation or a verification time out after seconds,
\* the grace period lasts minutes.
GracePasses(o) ==
    /\ status[o] = "EXPIRED" /\ fresh[o]
    /\ \A w \in Workers : via[w] \in {"create", "verify"} => ord[w] # o
    /\ fresh' = [fresh EXCEPT ![o] = FALSE]
    /\ lapsed' = [lapsed EXCEPT ![o] = TRUE]
    /\ UNCHANGED <<status, paidAt, ledgerVars, due, payable, pay, notif, threadVars>>

-----------------------------------------------------------------------------
Call(w, o) ==
    \/ CreateOrder(w, o) \/ Webhook(w, o) \/ VerifyOrder(w, o)
    \/ ReconcilePending(w, o) \/ CancelOrder(w, o) \/ ExpireTimedOut(w, o)
    \/ RetryFulfillment(w, o)

Step(w) ==
    \/ InvokeProvider(w) \/ SavePaymentDetails(w) \/ MarkCreateFailed(w)
    \/ ResetForRetry(w) \/ QueryPaid(w) \/ QueryUnpaid(w)
    \/ PersistTradeNo(w) \/ CloseUpstream(w) \/ CancelRow(w)
    \/ Confirm(w) \/ RejectNotification(w) \/ ToPaid(w) \/ ToPaidRefused(w)
    \/ AlreadyProcessed(w)
    \/ LoadForFulfillment(w) \/ Lock(w) \/ LookupCode(w) \/ CreateCode(w)
    \/ Redeem(w) \/ ApplyRebate(w) \/ LookupSubscriptionAudit(w)
    \/ AssignOrExtend(w) \/ MarkCompleted(w) \/ WriteSuccessAudit(w)
    \/ MarkFailed(w)

Fault(w) == QueryFails(w) \/ StatementFails(w) \/ Crash(w)

Environment(o) ==
    \/ CustomerPays(o) \/ Redeliver(o) \/ LoseNotification(o)
    \/ ComesDue(o) \/ GracePasses(o)

Next ==
    \/ \E w \in Workers, o \in Orders : Call(w, o)
    \/ \E w \in Workers : Step(w) \/ Fault(w)
    \/ \E o \in Orders : Environment(o)

Spec == Init /\ [][Next]_vars

\* A goroutine that runs keeps running, and a provider that was not answered
\* 2xx sends again: the fixed set of workers stands for the server's unbounded
\* goroutines, so a webhook finds one infinitely often.
Fairness ==
    /\ \A w \in Workers : WF_vars(Step(w))
    /\ \A o \in Orders : SF_vars(\E w \in Workers : Webhook(w, o))

FairSpec == Spec /\ Fairness

-----------------------------------------------------------------------------
(* Properties. *)

\* However many webhooks, verifications and retries an order sees, and
\* whatever fails in between, its balance is credited at most once
\* (doBalance: the recharge code is the idempotency key).
BalanceCreditedOnce == \A o \in BalanceOrders : granted[o] <= 1

\* A subscription order extends the subscription at most once (doSub).
SubscriptionExtendedOnce == \A o \in Orders \ BalanceOrders : granted[o] <= 1

\* Nothing is delivered unless the provider holds the full payment
\* (confirmPayment's checks are on every path to executeFulfillment).
DeliveredOnlyIfPaid == \A o \in Orders : granted[o] > 0 => pay[o] = "exact"

\* COMPLETED means delivered: no path of retries and partial failures reaches
\* markCompleted without the credit or the extension, and a balance order has
\* had its rebate decided by then.
CompletedIsDelivered ==
    \A o \in Orders : status[o] = "COMPLETED" =>
        /\ granted[o] >= 1
        /\ o \in BalanceOrders => "AFFILIATE_REBATE" \in audit[o]

\* The inviter earns at most one rebate, and only for a recharge that happened
\* (tryClaimAffiliateRebateAudit).
RebateOnceAndEarned ==
    \A o \in Orders : rebates[o] <= (IF granted[o] > 0 THEN 1 ELSE 0)

\* The RECHARGING status is a lock: two goroutines never deliver the same
\* order at the same time.
OneFulfiller ==
    \A v, w \in Workers :
        pc[v] \in Delivering /\ pc[w] \in Delivering /\ ord[v] = ord[w] => v = w

\* A completed order stays completed and is not delivered again, although
\* CreateOrder writes FAILED without looking at the status and a markCompleted
\* that reported an error is followed by markFailed.
CompletedIsFinal ==
    [][\A o \in Orders : status[o] = "COMPLETED" =>
          status'[o] = "COMPLETED" /\ granted'[o] = granted[o]]_vars

\* As long as nothing fails, money that reached the provider for an order is
\* delivered, or recorded as too late (PAYMENT_AFTER_EXPIRY).
PaymentIsSettled ==
    \A o \in Orders :
        pay[o] = "exact" ~> (granted[o] > 0 \/ "PAYMENT_AFTER_EXPIRY" \in audit[o])

-----------------------------------------------------------------------------
(* The inductive invariant behind the safety properties. *)

\* Only confirmPayment lets a call go on to these steps, or it is a retry.
Confirmed == Delivering \cup {"toPaid", "already", "load", "lock", "auditSuccess",
                              "resetForRetry"}
Creating == {"invoke", "saveDetails", "createFailed"}

\* An order is created by one call, which ends before the customer can pay.
CreationInv ==
    /\ \A w \in Workers : pc[w] # "idle" => status[ord[w]] # "NONE"
    /\ \A w \in Workers : pc[w] \in Creating => ~payable[ord[w]]
    /\ \A v, w \in Workers :
          pc[v] \in Creating /\ pc[w] \in Creating /\ ord[v] = ord[w] => v = w
    /\ \A o \in Orders : status[o] = "NONE" => ~payable[o]
    /\ \A o \in Orders : pay[o] \in {"exact", "mismatch"} \/ notif[o] => payable[o]

\* What the rows and the goroutines say about money is true at the provider.
PaidInv ==
    /\ \A w \in Workers : pc[w] \in Confirmed => pay[ord[w]] = "exact"
    /\ \A o \in Orders :
          \/ paidAt[o]
          \/ status[o] \in {"PAID", "RECHARGING", "COMPLETED"}
          \/ granted[o] > 0
          => pay[o] = "exact"

\* RECHARGING belongs to the one goroutine that delivers; that goroutine may
\* still be on its way to a markFailed after its markCompleted took effect.
LockInv ==
    /\ OneFulfiller
    /\ \A w \in Workers : pc[w] \in Delivering =>
          \/ status[ord[w]] = "RECHARGING"
          \/ status[ord[w]] = "COMPLETED" /\ pc[w] = "markFailed"

\* The ledgers agree with each other and with how far the goroutines are.
LedgerInv ==
    /\ \A o \in BalanceOrders : granted[o] = (IF code[o] = "used" THEN 1 ELSE 0)
    /\ \A o \in Orders :
          /\ audit[o] \cap {"SUCCESS", "AFFILIATE_REBATE"} # {} => granted[o] >= 1
          /\ rebates[o] <= (IF "AFFILIATE_REBATE" \in audit[o] THEN 1 ELSE 0)
    /\ \A w \in Workers :
          /\ pc[w] \in {"createCode", "redeem", "rebate"} => ord[w] \in BalanceOrders
          /\ pc[w] = "assign" => ord[w] \notin BalanceOrders
          /\ pc[w] \in {"rebate", "complete", "auditSuccess"} => granted[ord[w]] >= 1
          /\ pc[w] = "complete" /\ ord[w] \in BalanceOrders =>
                "AFFILIATE_REBATE" \in audit[ord[w]]
    /\ CompletedIsDelivered

\* Inductive: it holds initially and every step keeps it.
FulfillmentInv == TypeOK /\ CreationInv /\ PaidInv /\ LockInv /\ LedgerInv

\* Without failures an extended subscription order is RECHARGING, in the hands
\* of the goroutine that extended it, or COMPLETED: nobody can lock it again.
ExtensionInv ==
    /\ SubscriptionExtendedOnce
    /\ \A o \in Orders \ BalanceOrders :
          granted[o] > 0 => status[o] \in {"RECHARGING", "COMPLETED"}
    /\ \A w \in Workers : ord[w] \in Orders \ BalanceOrders =>
          /\ pc[w] # "markFailed"
          /\ pc[w] \in {"lookup", "assign"} => granted[ord[w]] = 0
=============================================================================
