# A TLA+ model of Sub2API (nexora-custom)

Sub2API is a gateway in front of AI providers: customers hold API keys, pay by
balance or subscription, and their requests are scheduled onto a pool of
upstream accounts.  The backend is one Go program (`backend/`), usually run in
several instances that share a PostgreSQL database and a Redis.  This directory
models the parts of it in which money, locks and limits depend on the order of
concurrent steps.

## Inventory

State is kept in PostgreSQL (rows changed by single statements or short
transactions), in Redis (keys changed by single commands or Lua scripts) and in
process memory (maps under mutexes, channels).  Components interact by direct
calls inside a request's goroutine, by background goroutines on tickers, and
through those shared stores; the outside world is the customer, the payment
providers and the AI providers.

| Component | State | Operations | What is hard | What makes it correct |
|---|---|---|---|---|
| Payment fulfilment (`service/payment_order.go`, `payment_order_lifecycle.go`, `payment_fulfillment.go`) | `payment_orders.status`, `paid_at`, `updated_at`; recharge code; audit rows | create, webhook, verify, reconcile, cancel, expire, retry | every caller interleaves with every other between two statements; statements fail, processes die, webhooks repeat or get lost | one credit per order, none without payment, COMPLETED true and final |
| Payment refund (`service/payment_refund.go`) | order status, balance or subscription, provider side | request, prepare, execute, roll back | a plan prepared before the lock; ambiguous provider errors | one gateway refund, deduction and refund agree |
| Idempotency keys (`service/idempotency.go`, `repository/idempotency_repo.go`) | `idempotency_records` rows with a lock time | claim, reclaim, extend, complete, fail, clean up | a lock that expires while its owner still runs | one execution per key, replies replay |
| Concurrency slots (`service/concurrency_service.go`, `repository/concurrency_cache.go`) | Redis sorted sets of request ids per user and account, wait counters | acquire, release, wait, sweep, start-up clean-up | slots of dead processes, wait counters that leak | never more holders than the limit |
| User message queue (`service/user_msg_queue_service.go`, `repository/user_msg_queue_cache.go`, `handler/user_msg_queue_helper.go`) | Redis lock per account with a TTL, time of the last message | acquire, delay, release, force-release | lost answers, a lost TTL, fail-open | one message at a time, a delay between two, nobody stuck |
| OAuth token refresh (`service/oauth_refresh_api.go`, `token_refresh_service.go`, the token providers, the 401 branch of `ratelimit_service.go`) | account credentials, refresh lock, token cache | refresh on demand, in background, forced by a 401 | two refreshes of a rotating refresh token, writes of old copies | an error is real, no token is used twice, stored pairs only advance |
| Usage billing (`repository/usage_billing_repo.go`, `service/billing_cache_service.go`, `repository/billing_cache.go`) | dedup and archive rows, balances, quota counters, cached balance, queue of cache writes | apply, archive, deduct, load, invalidate, stop | repeated usage tasks, concurrent crossings of a quota, races of the cache | each request is billed once, a crossing is told once, the cached balance is exact |
| Scheduler snapshot (`service/scheduler_snapshot_service.go`, `repository/scheduler_outbox_repo.go`) | outbox table and watermark, Redis snapshot buckets with versions, account data | publish, rebuild, poll, read, write back | rebuilds and batches out of order, events lost or skipped | lists are whole, no event is passed over, the snapshot becomes current |
| Redeem codes (`service/redeem_service.go`) | code rows, Redis lock and error counter | generate, redeem | two users, one code | a code is used once |
| Subscriptions (`service/subscription_service.go`) | `user_subscriptions` | assign, extend, revoke, usage windows | read-modify-write of the expiry | no lost extension |
| WebSocket pool (`service/openai_ws_pool.go`), HTTP client pool (`repository/http_upstream.go`) | in-memory pools | acquire, release, evict | eviction against use | no connection used after close |
| Worker pool of usage records (`service/usage_record_worker_pool.go`) | bounded queue | submit, drain, scale | full queue, stop | nothing accepted is lost |
| System operation lock (`service/system_operation_lock_service.go`) | an idempotency row used as a lease | acquire, renew, release | lease lost while working | one operation at a time |
| Failover (`handler/failover_loop.go`) | per-request sets | retry same, switch | loops | terminates |
| Everything else: request translation between AI protocols (`pkg/apicompat`, gateway services), authentication and administration handlers, statistics, e-mail, the generated `ent` code, the Vue frontend | | | pure data conversion or CRUD | |

## Modules

| Module | What it is |
|---|---|
| `PaymentFulfillment` | a payment order from its creation to the delivery |
| `PaymentRefund` | refunds of a completed order |
| `IdempotencyStore` | the statements on `idempotency_records`, and what their callers have in common, used by the next two |
| `IdempotencyKeys` | requests with an `Idempotency-Key` |
| `SystemOperationLock` | the lease of update, rollback and restart |
| `ConcurrencySlots` | slots and wait queue of one account or user |
| `OAuthRefresh` | refreshing the rotating tokens of one Claude or OpenAI account |
| `SchedulerSnapshot` | the outbox and the snapshots of one bucket |
| `UserMessageQueue` | the serial queue of one account's user messages |
| `UsageBilling` | charging served requests: pool, transaction, cached balance |
| `SingleHolder`, `Semaphore`, `BillingLedger` | what a lock, a limit and a ledger promise; `SystemOperationLock` and `UserMessageQueue`, `ConcurrencySlots`, and `UsageBilling` are shown to implement them |
| `MC*` | instances for TLC, one module per component |
| `*Proofs` | theorems and their proofs, one module per component; `IdempotencyProofs` has both users of the store |

The payment modules share the order row but not a state: fulfilment ends where
`PaymentRefund` begins (an order that is COMPLETED), and no step of the one
touches an order that the other may change, except that a refund's failing last
statement leaves an order REFUNDING, which fulfilment ignores
(`alreadyProcessed`, `RetryFulfillment`).  A composition would multiply the
states and add no step.

### PaymentFulfillment

A worker is a goroutine inside `PaymentService`; `pc` names the statement or
provider call it does next, `via` the call that brought it there, `ord` its
order.  Workers interleave between any two statements.

| Model | Code |
|---|---|
| `status`, `paidAt`, `fresh` | the `payment_orders` row; `fresh` is `updated_at >= now - paymentGraceMinutes` |
| `code`, `granted` | the order's redeem code; how often it credited a balance or extended a subscription |
| `audit`, `rebates` | the audit rows later steps read; the inviter's rebates |
| `pay`, `notif`, `payable` | the provider: what was paid, whether it has a webhook to send, whether the customer has the link |
| `CreateOrder` ... `MarkCreateFailed` | `CreateOrder`, `invokeProvider` |
| `Webhook`, `VerifyOrder`, `ReconcilePending`, `CancelOrder`, `ExpireTimedOut`, `RetryFulfillment` | the entry points, each with its own guard on the row |
| `QueryPaid` ... `CancelRow` | `checkPaidWithOptions`, `cancelCore` |
| `Confirm` ... `AlreadyProcessed` | `confirmPayment`, `toPaid`, `alreadyProcessed` |
| `LoadForFulfillment` ... `MarkFailed` | `executeFulfillment`, `doBalance`, `doSub`, `markCompleted`, `markFailed` |
| `StatementFails`, `QueryFails`, `Crash` | a statement without effect, a silent provider, a dying process |

A statement may also take effect and report an error (`OrOnFault`), which is
what a lost connection does.  Assumptions: the customer can pay only after
`CreateOrder` has returned the link; the calls of a creation or verification
last seconds, the grace period minutes (guard of `GracePasses`).

### PaymentRefund

`plan` is the `RefundPlan` that `PrepareRefund` returns; it is stale by the time
`ExecuteRefund` locks the order.  `held` is what the customer still has (balance
or days), `taken` what refunds took and did not give back, `sent` what the
provider paid back.  `Spend` stands for usage billing and for the passing of
days.  `faults`, `orderType` and `tradeNo` are chosen at the start and do not
change; so one run covers both types of orders and several sets of faults.

### IdempotencyStore, IdempotencyKeys, SystemOperationLock

`row` is the one row of a key (statements always name one row), `lastId` the id
sequence.  The store's operators are the statements with their WHERE and SET:
`Reclaimable`/`Reclaimed` is `TryReclaim`, `Extendable`/`Extended` is
`ExtendProcessingLock`, `MarkedSucceeded` and `MarkedFailed` address the row by
id alone.  The store also declares what both users have: the callers (`Workers`,
`pc`), the `now` a call has read (`started`), the id it has claimed (`rid`) and
the row it has read (`seen`).  In `IdempotencyKeys` a worker is a call of
`IdempotencyCoordinator.Execute`: it reads `now` once (`started`), so everything
it compares and writes is relative to a time that grows stale.  A failing
marshal of the result ends the call like a failing `MarkSucceeded`
(`CallEnds`).  In `SystemOperationLock` a worker is a request and its renewing
goroutine (`renew`, `due`); `renew = "late"` is the statement that `Release`
overtook.  An operation lasts as long as it takes: `PerformUpdate` may download
for ten minutes (`repository/github_release_service.go`), many leases of 30
seconds.  Two variables are history: `down`, how long the renewals have been
failing, and `lapsed`, that a lease has run out under an operation.

Time is a clock in whole ticks.  A tick is disabled while a claim or an
idempotent call is at its longest (`MaxClaim`, `MaxCall`), which makes those
durations explicit parameters; the theorems name the relation between them that
they need.
Assumptions: the processes' clocks agree; a business function that returns an
error had no effect; a renewing ticker is not late.

### ConcurrencySlots

`slots`, `age` and `prefix` are the sorted set: members, how long ago each was
scored, and the process whose prefix it has.  `wait` and `waitAge` are the
counter and the time since its EXPIRE.  A request tries (`try`), queues
(`count`, `wait`, `uncount`) and holds (`hold`); the Claude handlers count
first, the OpenAI handlers and the account slots try first (`Begin`).  A failing
count is reported as success, so the request waits and is counted out later
(`counted = "failed"`).  Every process may start, die and start again beside
others that serve; nothing bounds how long a slot is held or a request queued.
A Lua script is one step.  Assumptions: `maxConcurrency > 0` (otherwise there is no
limit and no state); one key, since scripts touch one user's or account's keys;
an id that no member and no request uses stands for a new one.  The slot of a
request is given back once, by the handler or by its context's end, whichever
is first; the model does not follow what a handler does after its context
ended.

### OAuthRefresh

Token pairs are numbered by generation: `live` is the one the provider accepts,
`cred` the one in the database, `stored` the newest it ever had, `acc[w]` the
copy of the account its caller gave a worker, `fresh[w]` the one it read under
the lock, `got[w]` the provider's answer it has yet to store.  A worker is the `refreshLoop` of an
instance (`Background`) or a request in `GetAccessToken`; `RefreshIfNeeded` is
the steps from `LockMutex` to `Release`.  The mutex belongs to an instance
(`InstanceOf`), `lock` is the Redis key without an owner, which `Release` deletes
whoever has set it.  `due` is the provider's clock.  `faults` names what may fail
in a behaviour; `slow` lets a call outlast the lock's 60 seconds.  A used token is
refused with `invalid_grant` (`InvalidGrant`), which the recovery looks into, or
with OpenAI's `refresh_token_reused` (`RefreshTokenReused`), which it does not.
`Unauthorized` is the 401 branch of `HandleUpstreamError`: the request stores
its own copy of the account, of whatever age, without the lock.  Assumption: a
refresh token that was used is refused from then on.  So the module is about
Claude and OpenAI; Google's refresh tokens do not rotate, the keys of its locks
follow the `project_id`, and its providers store the caller's copy.

### SchedulerSnapshot

The database is a generation (`now`): each change of the account makes the next
one, the last one deletes it.  `list`, `active`, `newer` and `meta` are the
bucket's sorted sets, its active version, the writers whose version is higher,
and the account's data under a key without a version.  `outbox`, `lastId` and
`watermark` are the events and how far they were handled.  Pollers take a batch
(`Poll`), handle each event (`ReadAccount` ... `BucketLocked`) and move the
watermark; rebuilders, and requests that find no snapshot, write the bucket
through the same steps (`Load` ... `Activate`), the requests without its lock.
A goroutine has one of these roles (`PollersAssumption`).
Editors change the account, leave an event and write its data themselves;
flushers write back when it was last used.  A snapshot key nobody refers to
stands for a new version; while none is free no version is taken (`FreeKeys`), a
bound of the model that Redis does not have.

### UserMessageQueue

`lock` is the value of the account's key, `Orphan` an id that no request knows
any more; `ttl` is -1 when Redis has lost it.  `holding[r]` says that the request
remembers the id with which it took the lock.  Timers count ticks: `left` the
rest of the wait, `nap` of the delay, `since` the age of the last message.  Every
error is fail-open, as in the code; after a failing acquire the delay is kept
without the lock (`GoOnWithoutLock`).  `InTime` keeps requests within their lock's
TTL unless the situation is `slow`; the configuration asks for that.

### UsageBilling

`cast` gives every task its id, fingerprint and cost.  A task goes from the pool
(`Submit`, `Execute`) through the transaction, one step per statement (`Claim`,
`CompareFingerprint`, `CompareArchive`, `ApplyUsageBillingEffects`, `Commit`), to
the caches (`InvalidateAuthCache`, `CheckStopped`, `Send`,
`DeductBalanceCache`).  An uncommitted insert is `claim`, which makes the next
insert of the key wait; the row locks of user, key and account are taken in one
order and held until the end, so they are one lock (`rows`).  The effects become
visible at `Commit`.  `crossed` is what the UPDATEs return about the quotas; the account's crossing
leaves an event for the scheduler unless one of the last second is there
(`EnqueueEvent`).
`cache` is the balance in Redis, `writes` and `hands` the cache writes queued and
under way, `chan` the channel: between the close and the end of its workers it
is `"closed"`, where a send panics.  `clean` and `past` are history: what went
past the cached value since it was read.  Assumptions: one user, key and account,
which exist; costs and quotas are positive; a key is archived long after the
clean-up's cut-off in reality, at any time in the model.

## Runs

| Run | Distinct states | Shows |
|---|---|---|
| `payment_balance` | 66 thousand | with every modelled fault: one credit, one rebate, delivery only against full payment, one deliverer at a time, COMPLETED true and final |
| `payment_subscription` | 563 thousand | without faults, three calls: one extension, and every full payment is delivered or recorded as too late |
| `payment_double_extension` | violation | with one failing statement the subscription is extended twice |
| `refund` | 245 thousand | balance and subscription orders, with failing statements and crashes or with lost answers of the provider: one refunder, one payment back, and a working database takes nothing for a refused refund and never more than was delivered |
| `idempotency` | 674 thousand | with faults: one execution at a time, one effect per lifetime, no foreign replay |
| `system_lock` | 727 thousand | with faults, operations of any length: the lease is renewed in time but for the named exceptions, and until one runs out the row refines `SingleHolder` |
| `slots` | 146 thousand | two instances, with lost answers, failing counts and releases, crashes and restarts: the limit (refinement of `Semaphore`), slots and counts lost only in the named ways, and every leak heals |
| `oauth` | 414 thousand | under seven sets of faults: an account in error is dead and no token is used twice needlessly unless a named fault misled a worker, refreshes never take the stored pair back, a due token is refreshed |
| `oauth_slow` | violation | a provider call that outlasts the lock puts a working account out of service |
| `scheduler` | 624 thousand | in seven situations: lists are read whole, no event is passed over, the snapshot becomes current for good |
| `message_queue` | 58 thousand | with lost answers, lost TTLs, crashes and slow requests: one message at a time, delayed, no lock lost or stuck, nobody waits forever |
| `billing` | 123 thousand | in eight situations: one charge per request in one step, quota crossings told once, an exact cached balance, nothing queued is lost |

The properties checked are those that take several steps to violate.  The type
invariants (`TypeOK`) are part of the proved inductive invariants.  Each of those
was checked by TLC on its run's instance before it was proved.  Every property has a mutant, a
plausible bug in a definition, stated before the definition it replaces.

**Bounds.** One order, key, row, account, bucket or sorted set per run, because
statements name one and share nothing with others (the payment theorems hold for
any set of orders).  Two or three concurrent calls: every hazard here is a race
of one call against one other, and three show what happens to a bystander.
`MaxGrants = 2` lets a second delivery be seen and stops there.  `Amount = 2`
gives partial and full refunds, `held` up to twice that; spending stops at zero.
The clocks (`MaxTime`) cover two lifetimes of a row plus a call; `TTL`, timeouts
and call lengths are the smallest numbers in the code's order (claim < lock
timeout, call < lifetime, renewal interval < lease).  `system_lock` runs for two
leases, in which operations hold, lose and reclaim.  In `slots` two requests on
two instances compete for one slot and two places in the queue, and three ids
leave a new one while both requests remember one; ages stop at the TTL.

`oauth`: `MaxGen = 2` gives a refresh that uses what the refresh before it
stored; two loops and a request cover a race within an instance (mutex) and
between instances (Redis lock); `MaxMishaps = 1` allows one crash, failing SETNX
or 401 in a behaviour.
`scheduler`: two changes, of which the second
deletes the account, and two events; three snapshot keys are one active, one
being read and one being written.  Its situations pair the goroutines that write
the same thing: two pollers, a poller and a rebuild, a rebuild and a request, a
write-back.  `message_queue`: a TTL longer than the wait, two delays of which the
longer reaches the end of the last message's key; no counter needs a bound, so
deadlock is checked.  `billing`: three tasks, of which two share an id, costs that
take the key across its quota at once and the account at the second charge, a
queue of one write with two workers (full, and writes under way at the same
time), two loads, one recharge, one crash.  Faults and goroutines that do not act
on each other are put into different situations; each situation is explored to
the end.

Deadlock is checked for `slots` and `message_queue`; the other systems stop when
an order is settled, all work is done or a bound is reached, so
`CHECK_DEADLOCK FALSE` there.  Symmetry is used only where no liveness property
is checked.

**Fairness.** `payment_subscription`: weak fairness of each worker's steps (a
goroutine is scheduled) and strong fairness of the webhook (the provider repeats
it until it is answered 2xx; the fixed set of workers stands for a server that
starts a goroutine per request).  Nothing forces the customer to pay, the clock
or any user call.  With failures the property is false, as the hazards say, and
the group of a subscription order is assumed to stay active.  `slots`: time
passes, the background worker sweeps, a queued request's deadline ends its wait,
and a request ends.  No fairness on retries, restarts or new requests.  `oauth`:
workers go on, the background loops' tickers fire, Redis expires the lock, and a
goroutine that waits for a mutex gets it in the end (strong fairness; Go's mutex
serves its waiters).  `scheduler`: goroutines go on, the tickers of pollers and
full rebuilds fire, the lock expires; nobody has to read or edit.
`message_queue`: requests go on, cleaners' tickers fire, time passes.  `billing`:
goroutines are scheduled and statements end, the write workers and a `Stop` that
was called go on; nobody has to submit, load, recharge, archive or stop.

## Disagreements with the code's own statements

Shown by a run:

1. `payment_double_extension`: `doSub` guards against a second extension with
   the audit row SUBSCRIPTION_SUCCESS, which only `markCompleted` writes, after
   the statement whose failure the guard is for.
2. `oauth_slow`: the recovery from a refresh race reads the database once, while
   the winner of the race may be between the provider's answer and its UPDATE.
   The lock excludes this for 60 seconds; a call may take 120.

Met while modelling, each a behaviour of the module but not a run of its own:

3. Refund: a retry of a REFUND_FAILED order plans no deduction because the first
   attempt still holds it; refused again, it rolls back nothing, answers "rolled
   back" and restores COMPLETED.  `NothingTakenUnlessRefunded` is therefore
   stated for a working database.
4. Idempotency: `TryReclaim` does not compare `expires_at`, so a request that
   read an expired success reclaims the row after another request has refreshed
   it.  `EffectOnce` speaks of the time before the first row can expire.
5. System lock: reclaiming keeps the old fingerprint, and the lease is renewed by
   fingerprint; a reclaimed lock is never renewed, so an operation longer than
   the lease loses it, and two operations may run together from then on.
   `HeldIsLocked` names it as one of the two ways a lease runs out.
6. Slots: the start-up clean-up takes every other prefix for a dead process and
   removes the slots of a running instance, and deletes the wait counter under
   its queued requests.  `HeldIsCounted` and `WaitersCounted` name that step.
7. Billing: `enqueueCacheWrite` looks at `stopped` before it takes the lock, and
   `Stop` leaves the closed channel in place until the workers have ended.  A
   task in between sends on a closed channel and panics: the charge is made, its
   deduction and its usage log are lost (`pc = "panicked"`).  At shutdown both
   pools are stopped in parallel (`cmd/server/wire.go`).
8. Billing: the key of a charge prefers the client's request id, and the tests
   check that, but the pool runs its tasks with a background context, so only
   the upstream's id ever arrives.
9. OAuth: on a 401 a request stores its own copy of the account with an expiry of
   now, so that "the refresh service can pick it up" (comment at
   `ratelimit_service.go:261`).  If someone has refreshed in between, the copy
   replaces the new pair by the used one, and the next refresh puts a working
   account in error.  `MayMisjudge` and `CredentialsAdvance` name it.
10. OAuth: `isNonRetryableRefreshError` takes `refresh_token_reused` for final,
   but the race recovery looks for `invalid_grant` only; after a failing read
   under the lock, the loser of a race puts a working account in error.
11. OAuth: `GeminiTokenProvider` and `AntigravityTokenProvider` store the
   caller's copy of the credentials, with the `project_id` they found, outside
   the lock; an older copy replaces a newer access token.  Not modelled.

Further exposures that no property covers, beside the hazards of `PROJECT.json`:
storing the trade number renews the clock of the expiry grace period; an order
that was RECHARGING or REFUNDING when its process died stays so; `confirmPayment`
acknowledges a webhook whose order it could not read; a refund whose answer was
lost is repeated under a new number; `restoreStatus` writes the status from before
the lock; a revoked subscription cannot be extended back; an idempotent response
that is cut off is no JSON; `SetAccessToken` may store a token that a refresh between it and
`CheckTokenVersion` has replaced; outbox ids become visible out of order; a list
whose writer died stays in Redis without a TTL; a handler that read an account
before its deletion writes its data after it; a message that outlasts its lock
shares the account; queued usage tasks die with their process; each deduction
renews the TTL of a cached balance that a race may have put off.

## Proofs

TLAPS proves the following for all values of the constants that satisfy the
named assumptions (about 6 800 obligations).  Each module has an inductive
invariant, the conjunction of named parts, stated at the end of the component's
module; each part has a lemma with one step per action.

* **Fulfilment** (`FulfillmentInv`).  The safety properties are not inductive
  alone.  `PaidInv` carries "paid at the provider" from the confirmation along
  the control to the row, because later steps do not ask the provider again.
  `LockInv` ties RECHARGING to the one goroutine that delivers, and allows for
  the goroutine whose `markCompleted` took effect but reported an error.
  `LedgerInv` equates credits with the code's used state and relates audit rows,
  rebates and control.  `CreationInv` says that a creation ends before the
  customer can pay, so its unconditional FAILED meets no paid order.
  `CompletedIsFinal` follows from the same invariant.  With working statements
  (`Faults = FALSE`) `ExtensionInv` adds that an extended order never leaves
  RECHARGING but for COMPLETED, because no delivery is marked failed, and that
  the one goroutine of `LockInv` that is still before the extension has an order
  without one (`ExtendedOnce`); `payment_double_extension` is the behaviour
  without that hypothesis.
* **Refund** (`RefundInv`).  `RefundLockInv` ties REFUNDING to its goroutine;
  `SentInv` says that a refundable order has nothing sent and that only the
  marking step follows a payment.  `PaidBackOnce` assumes that the provider's answers are true, and nothing
  of the database or of crashes.  For a working database `TakenInv` adds that
  what is taken is what the refund under way has deducted; an order that kept
  more (a subscription that could not be extended back) says so in an audit row,
  and its next plan deducts nothing.
* **Idempotency keys** (`KeyInv`).  `IdInv`: ids are never reused, so an id
  remembered by a call stands for one payload; this alone gives
  `ReplayMatchesRequest` without any timing.  Under `ShortCalls`, `ClaimInv`: the
  row carries the lock its worker wrote, and whoever read the row before that
  claim started before the lock's end and is refused; `EffectInv`: before the
  first row can expire, no reclaim of an expired row exists.
* **System lock** (`LockInv`).  No assumption bounds an operation or relates the
  lease to anything but the row's TTL.  `RenewInv`: the ticker of a renewing
  goroutine is due within an interval.  `LeaseInv`: until a lease runs out under
  an operation, the row is the one holder's, and if it has the holder's
  fingerprint its lease is the one the last successful renewal wrote or a later
  one, so it can end only after a lease of failures (`LeaseCoversOperation`).
  `LockRefinement`: claims map to `Acquire`, ends to `Release`, everything else
  stutters; when a lease runs out under operations they count as ended, because
  nothing in the code excludes others from then on.
* **Slots** (`SlotsInv`).  For any number of instances and without a bound on
  holds.  `HeldInv`: holders have ids of their own, so the holders in the
  sorted set inject into the live members and `Cardinality(Live) < Limit` bounds
  them (`LimitIsKept`, a refinement of `Semaphore`).  `QueueInv`: the counter's
  TTL was set no longer ago than any queued request was counted; so it expires
  only when all are a TTL old (`QueueIsBounded`).
* **OAuth refresh** (`RefreshInv`).  `OrderInv` needs no assumption on faults: no
  copy is newer than what the database ever had, and a pair that is about to be
  stored is newer than that and belongs to one worker, because the provider
  accepts a token once; `CredentialsAdvance` follows.  Without 401 answers the
  database has the newest pair it ever had (`LatestInv`).  Without `redis` and
  `slow`, `ExclusionInv` ties the critical section to the lock; then `ErrorInv`
  and `ReplayInv` carry "the stored pair is dead" along the control.
* **Message queue** (`QueueInv`).  `LockInv` says who knows the id in the lock,
  `BareInv` who has lost its TTL, `HolderInv` that the others still have the
  lock.  `NapInv` relates the rest of a holder's delay to the age of the last message;
  both advance with the same tick.
* **Scheduler snapshot** (`SnapshotInv`).  `RoleInv`: a goroutine is where its
  role can be.  `VersionInv`: a list under construction has a key nobody
  else knows, and it is whole when its writer is about to make it active; so the
  key a request has taken holds a whole list or, if it was slow, none
  (`ListsReadWhole`).  `EventInv`: what the watermark has passed is handled.
  `BatchInv`: an event up to the end of a poller's batch is in the batch or
  handled, and once the batch is written all of it is, because the read behind
  the write is younger than the batch's events; so whichever poller moves the
  watermark, even backwards, no event below it is unhandled
  (`EventsNotSkipped`).  Both hold for any number of pollers, rebuilders,
  requests and editors.
* **Usage billing** (`BillingInv`).  `KeyInv`: who is in the transaction has the
  key's uncommitted row, a key is in one table only, and after the look into the
  archive it stays out of it, since only committed keys are moved.  `RowInv`: who
  is about to commit holds the rows, so the crossing its UPDATE has returned is
  still right.  `CrossInv`: once a charge has crossed the key's quota no other
  does.  `ChargedOnce` is the refinement of `BillingLedger`: `Commit` and the
  commit whose answer is lost map to `Charge`, a recharge to `Credit`, moving a
  key to the archive stutters.

  `CacheInv` is a second invariant, for the cached balance.  `DeductionInv`: a
  charge's deduction waits in one place, in its task or once in the queue or the
  workers' hands.  `LoadInv`: a loaded balance newer than `past` is still the
  balance, and then nobody owes a deduction; so whenever it is written to Redis
  it makes the cache exact.  `CacheIsExact` compares the cache with a sum over a
  set of tasks.  That the sum grows by what is added to the set is not taken for
  granted: `Additive` states what a sum has to satisfy, a smallest finite set
  without such a function cannot exist (`FS_StrictSubsetOrderingWellFounded`),
  nor can a smallest one where it differs from `MapThenSumSet`
  (`TotalIsAdditive`), which replaces the induction.

What the proofs assume is what the disagreements break: `ShortCalls` for the
idempotency keys, the faults that `MayMisjudge` and `MayReplay` name for the
refresh, requests within their lock's TTL for the message queue, working
statements for `ExtendedOnce` and the books of a refund.

Every safety property of the passing runs, invariant or action property, is
stated by a theorem.  Only model-checked: the liveness properties
(`PaymentIsSettled`, `LeakedSlotReturns`, `DueIsRefreshed`, `Converges`,
`OrphansAreFreed`, `NobodyWaitsForever`, `QueuedIsCharged`, `DeductionArrives`,
`ExhaustionIsTold`), which rest on fairness and so are out of the prover's reach.

## Not modelled

* The text of requests, prices, fees and signatures: `pay = "exact"` stands for
  "amount, provider and metadata agree", `"mismatch"` for the rest.
* The pending and daily limits of order creation, administration of orders and
  providers, and resume tokens.
* Refund numbers: a provider that deduplicates is not told apart from one that
  does not; an answer that is lost after the refund was made is fault
  `"gateway"`, with which `PaidBackOnce` does not hold.
* A REFUND_ROLLBACK_FAILED audit row that could not be written lets a retry take
  the balance a second time; `TakenOnce` is therefore checked with a working
  database.
* Stored responses that are cut off, and the wording of errors.
* Conversion between AI protocols, CRUD, statistics, generated code and the
  frontend: nothing in them depends on an order of steps.
* OAuth: accounts of Gemini and Antigravity (see disagreement 11), the ten
  minutes an account is kept out of scheduling after failed refreshes or a 401,
  the privacy setting, and an administrator's refresh, import or authorisation.
* Scheduler: bulk and group events, the choice of buckets, rebuilds triggered by
  lag or backlog (which do what a full rebuild does).
* Message queue: the throttle mode, a delay without state, and the formula of the
  delay.
* Billing: subscription cost, rate-limit windows, daily and weekly and platform
  quotas, the path without a billing repository, the pool's auto scaler,
  eligibility checks, notifications.
* The remaining components of the inventory, as the plan says.

## Plan

Done: the money path (fulfilment, refund, billing), the idempotency table with
its two users, the concurrency slots, the token refresh, the scheduler snapshot
and the message queue, each with proofs of its safety properties.  Left, in this order:

1. **Order limits**: `createOrderInTx` counts pending orders and then inserts,
   without a lock (`payment_order.go`).  **Subscriptions**:
   `AssignOrExtendSubscription` reads the expiry and writes it back
   (`subscription_service.go`).  Both extend `PaymentFulfillment`'s view of one
   order to several orders of one user.
2. **Pools in memory**: WebSocket leases and reference-counted HTTP clients;
   failover as a bounded loop.
3. **OAuth of Google accounts**: a lock per `project_id`, a refresh token that
   does not rotate, and the providers' own writes.
4. **Billing**: the window counters of rate limits and daily quotas, and the
   Redis copy of the platform quota.
