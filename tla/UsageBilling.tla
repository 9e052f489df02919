--------------------------- MODULE UsageBilling ----------------------------
(***************************************************************************)
(* Charging the usage of served requests: the pool that runs the tasks     *)
(* (service/usage_record_worker_pool.go), the transaction that charges one *)
(* (repository/usage_billing_repo.go), the job that archives the keys of   *)
(* old charges (repository/dashboard_aggregation_repo.go), and the cached  *)
(* balance with its queue of writes (service/billing_cache_service.go,     *)
(* repository/billing_cache.go).                                           *)
(*                                                                         *)
(* The model has one process, one user with one API key, and one account.  *)
(* A task is the usage of one answered request; its id is the one of the   *)
(* upstream's answer, since the pool's context carries no other.  Tasks    *)
(* whose upstream repeats an id have the same key.  Every SQL statement,   *)
(* Redis call and channel operation is a step.                             *)
(***************************************************************************)
EXTENDS Integers, Sequences, FiniteSets, SequencesExt, FiniteSetsExt

CONSTANTS
    Tasks,        \* usage record tasks
    Ids,          \* usage_billing_dedup.request_id (with the API key)
    Fingerprints, \* request fingerprints
    Costs,        \* ActualCost of a task
    Balance,      \* the user's balance at the start
    KeyQuota,     \* quota of the API key
    AccountLimit, \* quota limit of the account
    TopUpAmount,  \* what a recharge brings
    PoolQueue,    \* bound of the task queue (QueueSize)
    WriteQueue,   \* bound of the cache write queue (cacheWriteBufferSize)
    WriteWorkers, \* cacheWriteWorkerCount
    MaxLoads,     \* bound on the balance loads of a behaviour
    None,         \* no row, no key in Redis, no holder
    Situations    \* who calls with what, and what goes wrong

ASSUME BillingAssumption ==
    /\ Costs \subseteq Nat \ {0} /\ Balance \in Int
    /\ None \notin Tasks \cup Ids \cup Fingerprints
    /\ {KeyQuota, AccountLimit, TopUpAmount} \subseteq Nat \ {0}
    /\ {PoolQueue, WriteQueue, WriteWorkers} \subseteq Nat \ {0} /\ MaxLoads \in Nat
    /\ Situations \subseteq
         [cast : [Tasks -> [id : Ids \cup {None}, print : Fingerprints, cost : Costs]],
          faults : SUBSET {"net", "crash", "stop", "load", "topUp", "age", "event"}]

VARIABLES
    cast, faults,  \* the situation, fixed; a task without an id takes no part
    \* PostgreSQL
    dedup,         \* usage_billing_dedup: fingerprint of each committed key
    archive,       \* usage_billing_dedup_archive
    claim,         \* the task whose uncommitted row holds a key
    rows,          \* the task that has locked the user, key and account rows
    balance, keyUsed, keyStatus, accountUsed, events,
    \* the task pool
    pc,            \* where a task is
    crossed,       \* tasks whose charge took a quota across its limit
    poolStopped, crashed,
    told,          \* tasks that dropped the key's authentication cache
    \* the cached balance in Redis
    cache,
    clean,         \* nothing went past the cached value since it was loaded
    outdated,      \* a recharge has yet to invalidate it
    \* the process's cache writes
    load, loads,   \* the balance read by a running load; loads so far
    past,          \* a charge or recharge went past the loads up to this one
    writes, hands, \* queued cache writes; those the workers are executing
    stopped, chan

situation == <<cast, faults>>
ledger    == <<balance, keyUsed, keyStatus, accountUsed, events>>
keys      == <<dedup, archive, claim, rows>>
pool      == <<poolStopped, crashed, told, crossed>>
redis     == <<cache, clean, outdated>>
loading   == <<load, loads, past>>
queue     == <<writes, hands, loading>>
gate      == <<stopped, chan>>
vars == <<situation, ledger, keys, pc, pool, redis, queue, gate>>

InTransaction == {"archive", "effects", "commit"}
Owing         == {"finalize", "enqueue", "send", "fallback"}
Over          == {"new", "done", "dropped", "failed", "panicked", "gone"}
PC == {"queued", "claim", "select"} \cup InTransaction \cup Owing \cup Over

Deduct(t) == [kind |-> "deduct", by |-> t]
Write == {Deduct(t) : t \in Tasks} \cup
         [kind : {"set"}, by : 1..MaxLoads, amount : Int]

DatabaseTypes ==
    /\ [cast |-> cast, faults |-> faults] \in Situations
    /\ dedup \in [Ids -> Fingerprints \cup {None}]
    /\ archive \in [Ids -> Fingerprints \cup {None}]
    /\ claim \in [Ids -> Tasks \cup {None}]
    /\ rows \in Tasks \cup {None}
    /\ balance \in Int /\ keyUsed \in Nat /\ accountUsed \in Nat
    /\ keyStatus \in {"active", "quota_exhausted"}
    /\ events \in Nat
    /\ crossed \in [{"key", "account"} -> SUBSET Tasks]
    /\ told \subseteq crossed["key"]

ProcessTypes ==
    /\ pc \in [Tasks -> PC]
    /\ poolStopped \in BOOLEAN /\ crashed \in BOOLEAN
    /\ cache = None \/ cache \in Int
    /\ clean \in BOOLEAN /\ outdated \in BOOLEAN
    /\ load = None \/ load \in Write
    /\ loads \in 0..MaxLoads /\ past \in 0..loads
    /\ writes \in Seq(Write) /\ Len(writes) <= WriteQueue
    /\ hands \subseteq Write /\ IsFiniteSet(hands) /\ Cardinality(hands) <= WriteWorkers
    /\ stopped \in BOOLEAN /\ chan \in {"open", "closed", "nil"}

TypeOK == DatabaseTypes /\ ProcessTypes

Init ==
    /\ \E s \in Situations : cast = s.cast /\ faults = s.faults
    /\ dedup = [i \in Ids |-> None]
    /\ archive = [i \in Ids |-> None]
    /\ claim = [i \in Ids |-> None]
    /\ rows = None
    /\ balance = Balance /\ keyUsed = 0 /\ accountUsed = 0
    /\ keyStatus = "active" /\ events = IF "event" \in faults THEN 1 ELSE 0
    /\ pc = [t \in Tasks |-> "new"]
    /\ crossed = [q \in {"key", "account"} |-> {}] /\ told = {}
    /\ poolStopped = FALSE /\ crashed = FALSE
    /\ cache = IF "load" \in faults THEN None ELSE Balance
    /\ clean = TRUE /\ outdated = FALSE
    /\ load = None /\ loads = 0 /\ past = 0
    /\ writes = <<>> /\ hands = {}
    /\ stopped = FALSE /\ chan = "open"

Goto(t, p) == pc' = [pc EXCEPT ![t] = p]

Id(t) == cast[t].id
Fingerprint(t) == cast[t].print
Cost(t) == cast[t].cost

-----------------------------------------------------------------------------
(* The task pool. *)

Queued == {t \in Tasks : pc[t] = "queued"}

\* Submit: into the queue; when it is full or stopped the task is dropped or
\* executed by the caller: by the overflow policy, or because it is mandatory.
Submit(t) ==
    /\ pc[t] = "new"
    /\ Id(t) # None
    /\ \E p \in IF ~poolStopped /\ Cardinality(Queued) < PoolQueue
                THEN {"queued"} ELSE {"claim", "dropped"} : Goto(t, p)
    /\ UNCHANGED <<situation, ledger, keys, pool, redis, queue, gate>>

\* Mutant: a stopped pool throws its queue away.
ExecuteUnlessStopped(t) ==
    /\ pc[t] = "queued"
    /\ Goto(t, IF poolStopped THEN "dropped" ELSE "claim")
    /\ UNCHANGED <<situation, ledger, keys, pool, redis, queue, gate>>

Execute(t) ==
    /\ pc[t] = "queued"
    /\ Goto(t, "claim")
    /\ UNCHANGED <<situation, ledger, keys, pool, redis, queue, gate>>

\* Stop: no task is accepted any more, the queued ones are still executed.
StopPool ==
    /\ "stop" \in faults /\ ~poolStopped
    /\ poolStopped' = TRUE
    /\ UNCHANGED <<situation, ledger, keys, pc, crashed, told, crossed, redis,
                   queue, gate>>

-----------------------------------------------------------------------------
(* The transaction of a charge. *)

\* INSERT ... ON CONFLICT DO NOTHING.  It waits while another transaction has
\* inserted the same key and has not ended.
Claim(t) ==
    /\ pc[t] = "claim"
    /\ claim[Id(t)] = None
    /\ claim' = [claim EXCEPT ![Id(t)] = IF dedup[Id(t)] = None THEN t ELSE None]
    /\ Goto(t, IF dedup[Id(t)] = None THEN "archive" ELSE "select")
    /\ UNCHANGED <<situation, ledger, dedup, archive, rows, pool, redis, queue, gate>>

\* Mutant: every conflict is taken for a repetition.
TakeForRepetition(t) ==
    /\ pc[t] = "select"
    /\ Goto(t, "done")
    /\ UNCHANGED <<situation, ledger, keys, pool, redis, queue, gate>>

\* After a conflict: the same fingerprint is a repetition, another one is an
\* error, and so is a row that has moved to the archive since.
CompareFingerprint(t) ==
    /\ pc[t] = "select"
    /\ Goto(t, IF dedup[Id(t)] = Fingerprint(t) THEN "done" ELSE "failed")
    /\ UNCHANGED <<situation, ledger, keys, pool, redis, queue, gate>>

\* The transaction ends without a trace.
Release(t) ==
    /\ claim' = [claim EXCEPT ![Id(t)] = IF @ = t THEN None ELSE @]
    /\ rows' = IF rows = t THEN None ELSE rows

\* Mutant: the archive is not asked.
SkipArchive(t) ==
    /\ pc[t] = "archive"
    /\ Goto(t, "effects")
    /\ UNCHANGED <<situation, ledger, keys, pool, redis, queue, gate>>

CompareArchive(t) ==
    /\ pc[t] = "archive"
    /\ claim' = [claim EXCEPT ![Id(t)] = IF archive[Id(t)] = None THEN t ELSE None]
    /\ Goto(t, CASE archive[Id(t)] = None -> "effects"
                 [] archive[Id(t)] = Fingerprint(t) -> "done"
                 [] OTHER -> "failed")
    /\ UNCHANGED <<situation, ledger, dedup, archive, rows, pool, redis, queue, gate>>

\* Mutant: every charge at or past the limit is told to cross it.
IsAtLimit(used, cost, limit) == used + cost >= limit

Crosses(used, cost, limit) == used < limit /\ used + cost >= limit

\* The UPDATEs of the user, the key and the account lock their rows, in this
\* order in every charge, until the transaction ends.  The statement that adds
\* to a quota tells whether it goes across its limit; for the account the
\* scheduler's event is inserted at once, with the transaction.
ApplyUsageBillingEffects(t) ==
    /\ pc[t] = "effects"
    /\ rows = None
    /\ rows' = t
    /\ crossed' = [q \in {"key", "account"} |->
           IF IF q = "key" THEN Crosses(keyUsed, Cost(t), KeyQuota)
                           ELSE Crosses(accountUsed, Cost(t), AccountLimit)
           THEN crossed[q] \cup {t} ELSE crossed[q]]
    /\ Goto(t, "commit")
    /\ UNCHANGED <<situation, ledger, dedup, archive, claim, poolStopped, crashed, told,
                   redis, queue, gate>>

\* The scheduler's event (enqueueSchedulerOutbox): none is inserted when the
\* account has had one in the last second; "event" says that it has had one.
EnqueueEvent ==
    \/ events' = events + 1
    \/ events > 0 /\ events' = events

\* What the transaction of t leaves in the database.
Charge(t) ==
    /\ dedup' = [dedup EXCEPT ![Id(t)] = Fingerprint(t)]
    /\ balance' = balance - Cost(t)
    /\ keyUsed' = keyUsed + Cost(t)
    /\ keyStatus' = IF t \in crossed["key"] THEN "quota_exhausted" ELSE keyStatus
    /\ accountUsed' = accountUsed + Cost(t)
    /\ IF t \in crossed["account"] THEN EnqueueEvent ELSE events' = events
    /\ past' = loads
    /\ Release(t)
    /\ UNCHANGED <<archive, writes, hands, load, loads>>

Commit(t) ==
    /\ pc[t] = "commit"
    /\ Charge(t)
    /\ Goto(t, "finalize")
    /\ UNCHANGED <<situation, pool, redis, gate>>

\* The transaction commits and its answer is lost: Apply returns an error, and
\* nothing is told to the caches.
CommitAnswerLost(t) ==
    /\ "net" \in faults
    /\ pc[t] = "commit"
    /\ Charge(t)
    /\ Goto(t, "failed")
    /\ clean' = (clean /\ cache = None)
    /\ UNCHANGED <<situation, pool, cache, outdated, gate>>

\* A statement fails, or a row is not found.
Rollback(t) ==
    /\ "net" \in faults
    /\ pc[t] \in InTransaction
    /\ Release(t)
    /\ crossed' = [q \in {"key", "account"} |-> crossed[q] \ {t}]
    /\ Goto(t, "failed")
    /\ UNCHANGED <<situation, ledger, dedup, archive, poolStopped, crashed, told, redis,
                   queue, gate>>

\* CleanupUsageBillingDedup moves an old key in one statement.
CleanupUsageBillingDedup(i) ==
    /\ "age" \in faults
    /\ dedup[i] # None
    /\ archive' = [archive EXCEPT ![i] = dedup[i]]
    /\ dedup' = [dedup EXCEPT ![i] = None]
    /\ UNCHANGED <<situation, ledger, claim, rows, pc, pool, redis, queue, gate>>

-----------------------------------------------------------------------------
(* After the charge. *)

\* Mutant: whether the charge crossed the quota is found out after the commit.
InvalidateAuthCacheLate(t) ==
    /\ pc[t] = "finalize"
    /\ told' = IF Crosses(keyUsed - Cost(t), Cost(t), KeyQuota) THEN told \cup {t} ELSE told
    /\ Goto(t, "enqueue")
    /\ UNCHANGED <<situation, ledger, keys, poolStopped, crashed, crossed, redis,
                   queue, gate>>

InvalidateAuthCache(t) ==
    /\ pc[t] = "finalize"
    /\ told' = IF t \in crossed["key"] THEN told \cup {t} ELSE told
    /\ Goto(t, "enqueue")
    /\ UNCHANGED <<situation, ledger, keys, poolStopped, crashed, crossed, redis,
                   queue, gate>>

\* enqueueCacheWrite looks at stopped before it takes the lock.
CheckStopped(t) ==
    /\ pc[t] = "enqueue"
    /\ Goto(t, IF stopped THEN "fallback" ELSE "send")
    /\ UNCHANGED <<situation, ledger, keys, pool, redis, queue, gate>>

Room == chan = "open" /\ Len(writes) < WriteQueue

\* Mutant: a queued deduction is reported as refused.
SendAndFallBack(t) ==
    /\ pc[t] = "send"
    /\ writes' = IF Room THEN Append(writes, Deduct(t)) ELSE writes
    /\ clean' = (clean /\ (chan = "closed" => cache = None))
    /\ Goto(t, IF chan = "closed" THEN "panicked" ELSE "fallback")
    /\ UNCHANGED <<situation, ledger, keys, pool, cache, outdated, hands,
                   loading, gate>>

\* A closed channel that is not nil yet: the send panics, and the pool's
\* execute ends the task.
Send(t) ==
    /\ pc[t] = "send"
    /\ writes' = IF Room THEN Append(writes, Deduct(t)) ELSE writes
    /\ clean' = (clean /\ (chan = "closed" => cache = None))
    /\ Goto(t, CASE Room -> "done"
                 [] chan = "closed" -> "panicked"
                 [] OTHER -> "fallback")
    /\ UNCHANGED <<situation, ledger, keys, pool, cache, outdated, hands,
                   loading, gate>>

\* deductBalanceScript: nothing happens when the key is not there.  Without an
\* answer the client sends the script again, so it may run twice or not at all.
DeductUserBalance(t) ==
    \E n \in IF "net" \in faults THEN 0..2 ELSE {1} :
        /\ cache' = IF cache = None THEN None ELSE cache - n * Cost(t)
        /\ clean' = (clean /\ (n # 1 => cache = None))
        /\ UNCHANGED outdated

DeductBalanceCache(t) ==
    /\ pc[t] = "fallback"
    /\ DeductUserBalance(t)
    /\ Goto(t, "done")
    /\ UNCHANGED <<situation, ledger, keys, pool, queue, gate>>

-----------------------------------------------------------------------------
(* The cached balance. *)

\* Mutant: the workers end at once when the queue is closed.
TakeWriteWhileOpen ==
    /\ chan = "open"
    /\ writes # <<>>
    /\ Cardinality(hands) < WriteWorkers
    /\ hands' = hands \cup {Head(writes)}
    /\ writes' = Tail(writes)
    /\ UNCHANGED <<situation, ledger, keys, pc, pool, redis, loading, gate>>

TakeWrite ==
    /\ writes # <<>>
    /\ Cardinality(hands) < WriteWorkers
    /\ hands' = hands \cup {Head(writes)}
    /\ writes' = Tail(writes)
    /\ UNCHANGED <<situation, ledger, keys, pc, pool, redis, loading, gate>>

CacheWrite(w) ==
    /\ hands' = hands \ {w}
    /\ \/ w.kind = "deduct" /\ DeductUserBalance(w.by)
       \/ w.kind = "set" /\ cache' = w.amount /\ clean' = (w.by > past) /\ UNCHANGED outdated
       \/ w.kind = "set" /\ "net" \in faults /\ UNCHANGED redis
    /\ UNCHANGED <<situation, ledger, keys, pc, pool, writes, loading, gate>>

Expire ==
    /\ "load" \in faults
    /\ cache # None
    /\ cache' = None /\ clean' = TRUE
    /\ UNCHANGED <<situation, ledger, keys, pc, pool, outdated, queue, gate>>

\* Charges whose deduction has not reached Redis.
Owed == {t \in Tasks : pc[t] \in Owing \/ Deduct(t) \in hands \cup ToSet(writes)}

\* GetUserBalance on a miss; singleflight lets one load run at a time.  The miss
\* and the query are one step: no earlier value is read between them.
LoadBalance ==
    /\ "load" \in faults
    /\ cache = None /\ load = None /\ loads < MaxLoads
    /\ loads' = loads + 1
    /\ load' = [kind |-> "set", by |-> loads + 1, amount |-> balance]
    /\ past' = IF Owed = {} THEN past ELSE loads + 1
    /\ UNCHANGED <<situation, ledger, keys, pc, pool, redis, writes, hands, gate>>

\* A balance that finds no room in the queue is not cached.
QueueSetBalance ==
    /\ load # None
    /\ writes' = IF Room /\ ~stopped THEN Append(writes, load) ELSE writes
    /\ load' = None
    /\ UNCHANGED <<situation, ledger, keys, pc, pool, redis, hands, loads, past, gate>>

\* A recharge commits (one in a behaviour), and a goroutine of its own
\* invalidates the balance.
TopUp ==
    /\ "topUp" \in faults
    /\ balance + keyUsed = Balance
    /\ rows = None
    /\ balance' = balance + TopUpAmount
    /\ outdated' = TRUE
    /\ clean' = (clean /\ cache = None)
    /\ past' = loads
    /\ UNCHANGED <<situation, keyUsed, keyStatus, accountUsed, events, keys, pc, pool,
                   cache, writes, hands, load, loads, gate>>

InvalidateUserBalance ==
    /\ outdated
    /\ outdated' = FALSE
    /\ \/ cache' = None /\ clean' = TRUE
       \/ "net" \in faults /\ UNCHANGED <<cache, clean>>
    /\ UNCHANGED <<situation, ledger, keys, pc, pool, queue, gate>>

-----------------------------------------------------------------------------
(* The end of the process. *)

Stop ==
    /\ "stop" \in faults /\ ~stopped
    /\ stopped' = TRUE
    /\ UNCHANGED <<situation, ledger, keys, pc, pool, redis, queue, chan>>

CloseChannel ==
    /\ stopped /\ chan = "open"
    /\ chan' = "closed"
    /\ UNCHANGED <<situation, ledger, keys, pc, pool, redis, queue, stopped>>

\* The workers have drained the channel.
WorkersEnded ==
    /\ chan = "closed" /\ writes = <<>> /\ hands = {}
    /\ chan' = "nil"
    /\ UNCHANGED <<situation, ledger, keys, pc, pool, redis, queue, stopped>>

\* The process dies and another one starts: its tasks and queues are gone, its
\* transactions roll back.
Crash ==
    /\ "crash" \in faults /\ ~crashed
    /\ crashed' = TRUE
    /\ clean' = (clean /\ (cache = None \/ (Owed = {} /\ ~outdated)))
    /\ outdated' = FALSE
    /\ pc' = [t \in Tasks |-> IF pc[t] \in Over THEN pc[t] ELSE "gone"]
    /\ claim' = [i \in Ids |-> None]
    /\ rows' = None
    /\ writes' = <<>> /\ hands' = {} /\ load' = None
    /\ poolStopped' = FALSE /\ stopped' = FALSE /\ chan' = "open"
    /\ crossed' = [q \in {"key", "account"} |-> crossed[q] \ {rows}]
    /\ UNCHANGED <<situation, ledger, dedup, archive, told, cache, loads, past>>

-----------------------------------------------------------------------------

TaskStep(t) ==
    \/ Execute(t) \/ Claim(t) \/ CompareFingerprint(t) \/ CompareArchive(t)
    \/ ApplyUsageBillingEffects(t) \/ Commit(t)
    \/ InvalidateAuthCache(t) \/ CheckStopped(t) \/ Send(t) \/ DeductBalanceCache(t)

CacheStep ==
    TakeWrite \/ QueueSetBalance \/ InvalidateUserBalance \/ \E w \in hands : CacheWrite(w)

StopStep == CloseChannel \/ WorkersEnded

Next ==
    \/ \E t \in Tasks : Submit(t) \/ TaskStep(t) \/ CommitAnswerLost(t) \/ Rollback(t)
    \/ CacheStep \/ StopStep
    \/ \E i \in Ids : CleanupUsageBillingDedup(i)
    \/ Expire \/ LoadBalance \/ TopUp \/ StopPool \/ Stop \/ Crash

Spec == Init /\ [][Next]_vars

\* Goroutines are scheduled and statements end; the workers and a Stop that was
\* called go on.  Nobody has to submit, load, recharge, archive or stop.
Fairness ==
    /\ \A t \in Tasks : WF_vars(TaskStep(t))
    /\ WF_vars(CacheStep) /\ WF_vars(StopStep)

FairSpec == Spec /\ Fairness

-----------------------------------------------------------------------------
(* Properties. *)

Billed == {i \in Ids : dedup[i] # None \/ archive[i] # None}

Ledger == INSTANCE BillingLedger WITH billed <- Billed

\* A request is charged at most once, however often its task is repeated and
\* whenever its key moves to the archive, and the charge is one step: the
\* balance, both quotas, the key's status and the scheduler's event together.
ChargedOnce == [][Ledger!Next]_<<Billed, ledger>>

\* A task that ended well, or goes on to the caches, has been charged with its
\* own fingerprint: a different request with the same id is never taken for it.
DoneIsCharged ==
    \A t \in Tasks : pc[t] \in Owing \cup {"done", "panicked"} =>
        Fingerprint(t) \in {dedup[Id(t)], archive[Id(t)]}

\* The authentication cache of an exhausted key is dropped by one task only, the
\* one whose charge went past the quota.
ToldOnce == Cardinality(told) <= 1

\* The cached balance is the balance of the database plus what the queued
\* deductions have yet to take from it, each once, as long as nothing went past
\* the value: a charge or recharge during its load, a lost answer, a death, or
\* a send that met the closing of the queue.
CacheIsExact ==
    cache # None /\ clean => cache = balance + MapThenSumSet(Cost, Owed)

\* The inductive invariant of the charges: who has inserted a key has its row,
KeyInv ==
    /\ \A t \in Tasks : pc[t] # "new" => Id(t) \in Ids
    /\ \A t \in Tasks : pc[t] \in InTransaction => claim[Id(t)] = t
    /\ \A t \in Tasks : pc[t] \in {"effects", "commit"} => archive[Id(t)] = None
    /\ \A i \in Ids : claim[i] # None => dedup[i] = None
    /\ \A i \in Ids : dedup[i] = None \/ archive[i] = None

\* who has updated the quotas has locked them and knows whether it crossed them,
RowInv ==
    /\ \A t \in Tasks : pc[t] = "commit" <=> rows = t
    /\ \A t \in Tasks : pc[t] = "commit" =>
           /\ t \in crossed["key"] <=> Crosses(keyUsed, Cost(t), KeyQuota)
           /\ t \in crossed["account"] <=> Crosses(accountUsed, Cost(t), AccountLimit)
    /\ \A t \in Tasks : pc[t] \in {"new", "queued", "claim", "select", "archive", "effects"} =>
           t \notin crossed["key"] \cup crossed["account"]
    /\ rows \notin told

\* and only one crosses that of the key.
CrossInv ==
    /\ \A t, u \in crossed["key"] : t = u
    /\ crossed["key"] # {} => rows \in crossed["key"] \/ keyUsed >= KeyQuota

BillingInv == TypeOK /\ KeyInv /\ RowInv /\ CrossInv /\ DoneIsCharged

\* The inductive invariant of the cached balance: a deduction is queued or
\* executed once, after its task is done,
CacheQueue == ToSet(writes) \cup hands

DeductionInv ==
    /\ \A t \in Tasks : Deduct(t) \in CacheQueue => pc[t] = "done"
    /\ \A t \in Tasks : Deduct(t) \in hands => Deduct(t) \notin ToSet(writes)
    /\ \A i, j \in 1..Len(writes) :
           writes[i].kind = "deduct" /\ writes[i] = writes[j] => i = j

\* and a loaded balance that nothing went past is still the balance, and nobody
\* owes a deduction from it.
Current(w) ==
    w.kind = "set" => /\ w.by <= loads
                      /\ w.by > past => Owed = {} /\ w.amount = balance

LoadInv == (\A w \in CacheQueue : Current(w)) /\ (load # None => load.kind = "set" /\ Current(load))

CacheInv == IsFiniteSet(Owed) /\ DeductionInv /\ LoadInv /\ CacheIsExact

\* Every task the pool has queued is charged, a Stop notwithstanding, unless a
\* call fails or the process dies.
QueuedIsCharged ==
    \A t \in Tasks :
        pc[t] = "queued" ~> Id(t) \in Billed \/ faults \cap {"net", "crash"} # {}

\* A charge's deduction is not forgotten in a full or a stopped queue: it is
\* executed, or ends with its process, its failing call, or its panic.
DeductionArrives == \A t \in Tasks : t \in Owed ~> t \notin Owed

\* Somebody drops the authentication cache of an exhausted key, unless the
\* answer of the charge is lost or the process dies.
ExhaustionIsTold ==
    keyStatus = "quota_exhausted" ~> told # {} \/ faults \cap {"net", "crash"} # {}

=============================================================================
