-------------------------- MODULE IdempotencyKeys --------------------------
(***************************************************************************)
(* Execution of a request under an Idempotency-Key                         *)
(* (IdempotencyCoordinator.Execute, backend/internal/service/              *)
(* idempotency.go).                                                        *)
(*                                                                         *)
(* A worker is a goroutine serving one request with the key; each          *)
(* statement and the business function are steps of their own.             *)
(***************************************************************************)
EXTENDS IdempotencyStore

CONSTANTS
    ProcessingTimeout,
    FailedRetryBackoff,
    MaxCall             \* longest time from the start of a call to its end

ASSUME DurationAssumption ==
    ProcessingTimeout \in Nat /\ FailedRetryBackoff \in Nat /\ MaxCall \in Nat

VARIABLES
    fp,       \* the request's fingerprint
    effects   \* times the business function took effect

call == <<started, fp, rid, seen>>
vars == <<clock, store, pc, call, effects>>

Claiming == {"create", "get", "reclaimExpired", "getAgain", "reclaimFailed"}
Working == {"execute", "markOk", "markFailed"}

TypeOK ==
    /\ StoreTypeOK
    /\ pc \in [Workers -> {"idle"} \cup Claiming \cup Working]
    /\ started \in [Workers -> Nat]
    /\ fp \in [Workers -> Fingerprints \cup {NoFingerprint}]
    /\ rid \in [Workers -> Nat]
    /\ seen \in [Workers -> Row]
    /\ effects \in Nat
    /\ \A w \in Workers : pc[w] # "idle" => fp[w] \in Fingerprints

Init ==
    /\ StoreInit
    /\ pc = [w \in Workers |-> "idle"]
    /\ started = [w \in Workers |-> 0]
    /\ fp = [w \in Workers |-> NoFingerprint]
    /\ rid = [w \in Workers |-> 0]
    /\ seen = [w \in Workers |-> NoRow]
    /\ effects = 0

-----------------------------------------------------------------------------
\* The times a claim writes into the row.
LockedUntil(w) == started[w] + ProcessingTimeout
ExpiresAt(w) == started[w] + TTL

\* Continue at p; a call that returns forgets its locals.
Goto(w, p) ==
    /\ pc' = [pc EXCEPT ![w] = p]
    /\ started' = [started EXCEPT ![w] = IF p = "idle" THEN 0 ELSE @]
    /\ fp' = [fp EXCEPT ![w] = IF p = "idle" THEN NoFingerprint ELSE @]

Claim(w, p, id) ==
    /\ Goto(w, p)
    /\ rid' = [rid EXCEPT ![w] = IF p = "idle" THEN 0 ELSE id]
    /\ seen' = [seen EXCEPT ![w] = NoRow]

Return(w) == Claim(w, "idle", 0)

\* A request with the key arrives.
Execute(w, f) ==
    /\ pc[w] = "idle"
    /\ pc' = [pc EXCEPT ![w] = "create"]
    /\ started' = [started EXCEPT ![w] = clock]
    /\ fp' = [fp EXCEPT ![w] = f]
    /\ UNCHANGED <<clock, store, rid, seen, effects>>

CreateProcessing(w) ==
    /\ pc[w] = "create"
    /\ row.id = 0
    /\ row' = Inserted(fp[w], LockedUntil(w), ExpiresAt(w))
    /\ lastId' = lastId + 1
    /\ Claim(w, "execute", lastId + 1)
    /\ UNCHANGED <<clock, effects>>

CreateConflicts(w) ==
    /\ pc[w] = "create"
    /\ row.id # 0
    /\ Goto(w, "get")
    /\ UNCHANGED <<clock, store, rid, seen, effects>>

\* What the status of a row that has not expired means to a new call: a stored
\* response is replayed, a running or backing-off request is a conflict.
AfterRead(w, r) ==
    IF r.status = "failed_retryable" /\ r.locked <= started[w] THEN "reclaimFailed" ELSE "idle"

\* Mutant: the fingerprint is not compared.
UnusableIfGone(w, r) == r.id = 0

\* The row is gone, or belongs to another request: an error.
Unusable(w, r) == r.id = 0 \/ r.fp # fp[w]

Get(w) ==
    /\ pc[w] = "get"
    /\ LET p == IF Unusable(w, row) THEN "idle"
                ELSE IF row.expires <= started[w] THEN "reclaimExpired"
                ELSE AfterRead(w, row)
       IN  /\ Goto(w, p)
           /\ seen' = [seen EXCEPT ![w] = IF p = "idle" THEN NoRow ELSE row]
    /\ UNCHANGED <<clock, store, rid, effects>>

\* The second read, after a reclaim that came too late.
GetAgain(w) ==
    /\ pc[w] = "getAgain"
    /\ LET p == IF Unusable(w, row) THEN "idle" ELSE AfterRead(w, row)
       IN  /\ Goto(w, p)
           /\ seen' = [seen EXCEPT ![w] = IF p = "idle" THEN NoRow ELSE row]
    /\ UNCHANGED <<clock, store, rid, effects>>

\* Mutant: an expired row is taken whatever its lock says.
ReclaimExpiredIgnoringLock(w) ==
    /\ pc[w] = "reclaimExpired"
    /\ row.id = seen[w].id /\ row.status = seen[w].status
    /\ row' = Reclaimed(row, LockedUntil(w), ExpiresAt(w))
    /\ Claim(w, "execute", seen[w].id)
    /\ UNCHANGED <<clock, lastId, effects>>

ReclaimExpired(w) ==
    /\ pc[w] = "reclaimExpired"
    /\ Reclaimable(row, seen[w].id, seen[w].status, started[w])
    /\ row' = Reclaimed(row, LockedUntil(w), ExpiresAt(w))
    /\ Claim(w, "execute", seen[w].id)
    /\ UNCHANGED <<clock, lastId, effects>>

ReclaimExpiredRefused(w) ==
    /\ pc[w] = "reclaimExpired"
    /\ ~Reclaimable(row, seen[w].id, seen[w].status, started[w])
    /\ Goto(w, "getAgain")
    /\ UNCHANGED <<clock, store, rid, seen, effects>>

\* Mutant: any row may be reclaimed that is not locked.
ReclaimFailedAnyStatus(w) ==
    /\ pc[w] = "reclaimFailed"
    /\ row.id = seen[w].id /\ row.locked <= started[w]
    /\ row' = Reclaimed(row, LockedUntil(w), ExpiresAt(w))
    /\ Claim(w, "execute", seen[w].id)
    /\ UNCHANGED <<clock, lastId, effects>>

ReclaimFailed(w) ==
    /\ pc[w] = "reclaimFailed"
    /\ Reclaimable(row, seen[w].id, "failed_retryable", started[w])
    /\ row' = Reclaimed(row, LockedUntil(w), ExpiresAt(w))
    /\ Claim(w, "execute", seen[w].id)
    /\ UNCHANGED <<clock, lastId, effects>>

ReclaimFailedRefused(w) ==
    /\ pc[w] = "reclaimFailed"
    /\ ~Reclaimable(row, seen[w].id, "failed_retryable", started[w])
    /\ Return(w)
    /\ UNCHANGED <<clock, store, effects>>

\* The business function; one that returns an error has had no effect.
ExecutionSucceeds(w) ==
    /\ pc[w] = "execute"
    /\ effects' = effects + 1
    /\ Goto(w, "markOk")
    /\ UNCHANGED <<clock, store, rid, seen>>

ExecutionFails(w) ==
    /\ pc[w] = "execute"
    /\ Goto(w, "markFailed")
    /\ UNCHANGED <<clock, store, rid, seen, effects>>

MarkSucceeded(w) ==
    /\ pc[w] = "markOk"
    /\ row' = MarkedSucceeded(row, rid[w], fp[w], ExpiresAt(w))
    /\ Return(w)
    /\ UNCHANGED <<clock, lastId, effects>>

MarkFailedRetryable(w) ==
    /\ pc[w] = "markFailed"
    /\ row' = MarkedFailed(row, rid[w], clock + FailedRetryBackoff, ExpiresAt(w))
    /\ Return(w)
    /\ UNCHANGED <<clock, lastId, effects>>

\* A statement fails, or the process dies: the call ends where it is.
CallEnds(w) ==
    /\ \/ "db" \in Faults /\ pc[w] \in Claiming \cup {"markOk", "markFailed"}
       \/ "crash" \in Faults /\ pc[w] # "idle"
    /\ Return(w)
    /\ UNCHANGED <<clock, store, effects>>

\* Time passes, but no call outlasts its bounds.
Tick ==
    /\ clock < MaxTime
    /\ \A w \in Workers :
          /\ pc[w] \in Claiming => clock < started[w] + MaxClaim
          /\ pc[w] \in Working => clock < started[w] + MaxCall
    /\ clock' = clock + 1
    /\ UNCHANGED <<store, pc, call, effects>>

CleanUp == DeleteExpired /\ UNCHANGED <<pc, call, effects>>

-----------------------------------------------------------------------------
Step(w) ==
    \/ CreateProcessing(w) \/ CreateConflicts(w) \/ Get(w) \/ GetAgain(w)
    \/ ReclaimExpired(w) \/ ReclaimExpiredRefused(w)
    \/ ReclaimFailed(w) \/ ReclaimFailedRefused(w)
    \/ ExecutionSucceeds(w) \/ ExecutionFails(w)
    \/ MarkSucceeded(w) \/ MarkFailedRetryable(w) \/ CallEnds(w)

Next ==
    \/ \E w \in Workers, f \in Fingerprints : Execute(w, f)
    \/ \E w \in Workers : Step(w)
    \/ Tick
    \/ CleanUp

Spec == Init /\ [][Next]_vars

-----------------------------------------------------------------------------
(* Properties. *)

\* Two requests with one key never run the business function at the same time
\* (CreateProcessing, TryReclaim), whichever fail, die or find the row expired.
OneExecution ==
    \A v, w \in Workers : pc[v] \in Working /\ pc[w] \in Working => v = w

\* Until a record expires the business function takes effect at most once,
\* also when the result could not be stored or the process died.
EffectOnce == clock < TTL => effects <= 1

\* A stored response belongs to the request that the row was created for: a
\* replay never answers with the response to another payload.
ReplayMatchesRequest == row.status = "succeeded" => row.response = row.fp

-----------------------------------------------------------------------------
(* The inductive invariant behind the first three properties. *)

\* Ids are never reused, so an id stands for a fingerprint.
IdInv ==
    /\ row.id <= lastId
    /\ row.status = "none" <=> row.id = 0
    /\ \A w \in Workers :
          /\ rid[w] <= lastId /\ seen[w].id <= lastId
          /\ pc[w] \in Working => rid[w] # 0 /\ (rid[w] = row.id => row.fp = fp[w])
          /\ pc[w] \in {"reclaimExpired", "reclaimFailed"} =>
                seen[w].id # 0 /\ (seen[w].id = row.id => row.fp = fp[w])
    /\ ReplayMatchesRequest

\* A claim is made while its lock is valid, and a call ends before its row can
\* expire.
ShortCalls == MaxClaim < ProcessingTimeout /\ MaxClaim <= MaxCall /\ MaxCall < TTL

CallTimeInv ==
    /\ clock >= 1
    /\ \A w \in Workers :
          /\ pc[w] # "idle" => started[w] >= 1 /\ started[w] <= clock
          /\ pc[w] \in Claiming => clock <= started[w] + MaxClaim
          /\ pc[w] \in Working => clock <= started[w] + MaxCall

\* The row is the worker's who runs the business function; a call that read
\* the row before that claim is too old to reclaim it.
ClaimInv ==
    /\ OneExecution
    /\ \A w \in Workers : pc[w] \in Working =>
          /\ row.id = rid[w] /\ row.status = "processing"
          /\ row.locked = LockedUntil(w) /\ row.expires = ExpiresAt(w)
    /\ \A v, w \in Workers :
          pc[v] \in Working /\ pc[w] = "reclaimExpired" => started[w] < LockedUntil(v)

\* Before the first row can expire nothing runs the function again.
EffectInv ==
    /\ row.id # 0 => row.expires > TTL
    /\ \A w \in Workers : pc[w] = "reclaimExpired" => started[w] > TTL
    /\ clock < TTL /\ effects # 0 =>
          /\ effects = 1
          /\ row.id # 0 /\ row.status # "failed_retryable"
          /\ \A w \in Workers : pc[w] \notin {"execute", "markFailed"}

KeyInv == TypeOK /\ IdInv /\ (ShortCalls => CallTimeInv /\ ClaimInv /\ EffectInv)
=============================================================================
