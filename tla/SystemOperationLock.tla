------------------------ MODULE SystemOperationLock ------------------------
(***************************************************************************)
(* The lock of update, rollback and restart                                *)
(* (backend/internal/service/system_operation_lock_service.go, used by     *)
(* backend/internal/handler/admin/system_handler.go).                      *)
(*                                                                         *)
(* The lock is one row of idempotency_records whose fingerprint is an      *)
(* operation id and whose locked_until is a lease that a goroutine of the  *)
(* holder renews.  A worker is a request with, once it holds the lock, its *)
(* renewing goroutine.                                                     *)
(***************************************************************************)
EXTENDS IdempotencyStore

CONSTANTS
    Lease,          \* ProcessingTimeout, by default 30 s
    RenewInterval   \* a third of the lease

\* SystemOperationTTL is an hour by default.
ASSUME LeaseAssumption == Lease \in Nat /\ RenewInterval \in Nat \ {0} /\ Lease <= TTL

VARIABLES
    op,       \* the operation id
    renew,    \* the renewing goroutine: off, on, or late: its last statement
              \* is under way when Release stops it
    due,      \* when its ticker fires next
    \* history, which no step reads:
    down,     \* how long the renewals have been failing
    lapsed    \* the lease has run out under an operation, and the lock has
              \* not been free since

acquire == <<started, op, rid, seen>>
renewer == <<renew, due>>
lockVars == <<clock, store, pc, acquire, renewer, down, lapsed>>

Acquiring == {"create", "get", "reclaim"}

LockTypeOK ==
    /\ StoreTypeOK
    /\ pc \in [Workers -> {"idle", "held"} \cup Acquiring]
    /\ started \in [Workers -> Nat]
    /\ op \in [Workers -> Fingerprints \cup {NoFingerprint}]
    /\ rid \in [Workers -> Nat]
    /\ seen \in [Workers -> Row]
    /\ renew \in [Workers -> {"off", "on", "late"}]
    /\ due \in [Workers -> Nat]
    /\ down \in [Workers -> Nat]
    /\ lapsed \in BOOLEAN
    /\ \A w \in Workers : pc[w] # "idle" => op[w] \in Fingerprints

LockInit ==
    /\ StoreInit
    /\ pc = [w \in Workers |-> "idle"]
    /\ started = [w \in Workers |-> 0]
    /\ op = [w \in Workers |-> NoFingerprint]
    /\ rid = [w \in Workers |-> 0]
    /\ seen = [w \in Workers |-> NoRow]
    /\ renew = [w \in Workers |-> "off"]
    /\ due = [w \in Workers |-> 0]
    /\ down = [w \in Workers |-> 0]
    /\ lapsed = FALSE

Holders == {w \in Workers : pc[w] = "held"}

-----------------------------------------------------------------------------
(* Acquire. *)

LockGoto(w, p) ==
    /\ pc' = [pc EXCEPT ![w] = p]
    /\ started' = [started EXCEPT ![w] = IF p = "idle" THEN 0 ELSE @]

Acquire(w, f) ==
    /\ pc[w] = "idle" /\ renew[w] = "off"
    /\ pc' = [pc EXCEPT ![w] = "create"]
    /\ started' = [started EXCEPT ![w] = clock]
    /\ op' = [op EXCEPT ![w] = f]
    /\ UNCHANGED <<clock, store, rid, seen, renewer, down>>

\* The lock is taken and its renewing goroutine started.
Hold(w, id) ==
    /\ LockGoto(w, "held")
    /\ rid' = [rid EXCEPT ![w] = id]
    /\ seen' = [seen EXCEPT ![w] = NoRow]
    /\ renew' = [renew EXCEPT ![w] = "on"]
    /\ due' = [due EXCEPT ![w] = clock + RenewInterval]
    /\ down' = [down EXCEPT ![w] = 0]

InsertLock(w) ==
    /\ pc[w] = "create"
    /\ row.id = 0
    /\ row' = Inserted(op[w], started[w] + Lease, started[w] + TTL)
    /\ lastId' = lastId + 1
    /\ Hold(w, lastId + 1)
    /\ UNCHANGED <<clock, op>>

InsertConflicts(w) ==
    /\ pc[w] = "create"
    /\ row.id # 0
    /\ LockGoto(w, "get")
    /\ UNCHANGED <<clock, store, op, rid, seen, renewer, down>>

\* The row is gone (an error) or leased.
Busy(w) == row.id = 0 \/ (row.status = "processing" /\ row.locked > started[w])

GetLock(w) ==
    /\ pc[w] = "get"
    /\ LockGoto(w, IF Busy(w) THEN "idle" ELSE "reclaim")
    /\ seen' = [seen EXCEPT ![w] = IF Busy(w) THEN NoRow ELSE row]
    /\ UNCHANGED <<clock, store, op, rid, renewer, down>>

\* Mutant: the lock time is not compared again.
TryReclaimByStatus(w) ==
    /\ pc[w] = "reclaim"
    /\ row.id = seen[w].id /\ row.status = seen[w].status
    /\ row' = Reclaimed(row, started[w] + Lease, started[w] + TTL)
    /\ Hold(w, seen[w].id)
    /\ UNCHANGED <<clock, lastId, op>>

TryReclaim(w) ==
    /\ pc[w] = "reclaim"
    /\ Reclaimable(row, seen[w].id, seen[w].status, started[w])
    /\ row' = Reclaimed(row, started[w] + Lease, started[w] + TTL)
    /\ Hold(w, seen[w].id)
    /\ UNCHANGED <<clock, lastId, op>>

\* Refused: the latest row is read only for the error message.
ReclaimRefused(w) ==
    /\ pc[w] = "reclaim"
    /\ ~Reclaimable(row, seen[w].id, seen[w].status, started[w])
    /\ LockGoto(w, "idle")
    /\ seen' = [seen EXCEPT ![w] = NoRow]
    /\ UNCHANGED <<clock, store, op, rid, renewer, down>>

-----------------------------------------------------------------------------
(* The renewing goroutine. *)

Renew(w) ==
    /\ renew[w] = "on"
    /\ clock = due[w]
    /\ Extendable(row, rid[w], op[w])
    /\ row' = Extended(row, clock + Lease, clock + TTL)
    /\ due' = [due EXCEPT ![w] = clock + RenewInterval]
    /\ down' = [down EXCEPT ![w] = 0]
    /\ UNCHANGED <<clock, lastId, pc, acquire, renew>>

\* The goroutine ends, with r = "late" after the statement under way.
Stop(w, r) ==
    /\ renew' = [renew EXCEPT ![w] = r]
    /\ due' = [due EXCEPT ![w] = 0]
    /\ down' = [down EXCEPT ![w] = 0]

\* "ownership_lost": the goroutine stops, the operation goes on.
RenewStops(w) ==
    /\ renew[w] = "on"
    /\ clock = due[w]
    /\ ~Extendable(row, rid[w], op[w])
    /\ Stop(w, "off")
    /\ UNCHANGED <<clock, store, pc, acquire>>

\* A failing statement is tried again at the next tick.
RenewFails(w) ==
    /\ "db" \in Faults
    /\ renew[w] = "on"
    /\ clock = due[w]
    /\ due' = [due EXCEPT ![w] = clock + RenewInterval]
    /\ down' = [down EXCEPT ![w] = @ + RenewInterval]
    /\ UNCHANGED <<clock, store, pc, acquire, renew>>

\* The statement that Release overtook.
RenewLate(w) ==
    /\ renew[w] = "late"
    /\ row' = IF Extendable(row, rid[w], op[w]) THEN Extended(row, clock + Lease, clock + TTL)
              ELSE row
    /\ Stop(w, "off")
    /\ UNCHANGED <<clock, lastId, pc, acquire>>

-----------------------------------------------------------------------------
(* Release, failures and time. *)

\* Stopping the goroutine may miss a statement that is under way.
StopRenewing(w) ==
    \/ Stop(w, "off")
    \/ renew[w] = "on" /\ due[w] = clock /\ Stop(w, "late")

ReleaseSucceeded(w) ==
    /\ pc[w] = "held"
    /\ row' = MarkedSucceeded(row, rid[w], op[w], clock + TTL)
    /\ StopRenewing(w)
    /\ LockGoto(w, "idle")
    /\ UNCHANGED <<clock, lastId, op, rid, seen>>

ReleaseFailed(w) ==
    /\ pc[w] = "held"
    /\ row' = MarkedFailed(row, rid[w], clock, clock + TTL)
    /\ StopRenewing(w)
    /\ LockGoto(w, "idle")
    /\ UNCHANGED <<clock, lastId, op, rid, seen>>

\* A statement of Acquire or Release fails; Release's callers ignore it.
StatementFails(w) ==
    /\ "db" \in Faults
    /\ pc[w] # "idle"
    /\ StopRenewing(w)
    /\ LockGoto(w, "idle")
    /\ seen' = [seen EXCEPT ![w] = NoRow]
    /\ UNCHANGED <<clock, store, op, rid>>

Crash(w) ==
    /\ "crash" \in Faults
    /\ pc[w] # "idle"
    /\ Stop(w, "off")
    /\ LockGoto(w, "idle")
    /\ seen' = [seen EXCEPT ![w] = NoRow]
    /\ UNCHANGED <<clock, store, op, rid>>

\* Time passes, but no claim outlasts its bound and no ticker is late; an
\* operation takes as long as it takes (PerformUpdate downloads for up to ten
\* minutes, many leases).
LockTick ==
    /\ clock < MaxTime
    /\ \A w \in Workers :
          /\ pc[w] \in Acquiring => clock < started[w] + MaxClaim
          /\ renew[w] = "on" => clock < due[w]
          /\ renew[w] # "late"
    /\ clock' = clock + 1
    /\ UNCHANGED <<store, pc, acquire, renewer, down>>

LockCleanUp == DeleteExpired /\ UNCHANGED <<pc, acquire, renewer, down>>

-----------------------------------------------------------------------------
LockStep(w) ==
    \/ InsertLock(w) \/ InsertConflicts(w) \/ GetLock(w) \/ TryReclaim(w)
    \/ ReclaimRefused(w) \/ Renew(w) \/ RenewStops(w) \/ RenewFails(w) \/ RenewLate(w)
    \/ ReleaseSucceeded(w) \/ ReleaseFailed(w) \/ StatementFails(w) \/ Crash(w)

\* The lease runs out as time passes, or before a slow claim holds it.
Lapses == Holders' # {} /\ row'.status = "processing" /\ row'.locked <= clock'

LockNext ==
    /\ \/ \E w \in Workers, f \in Fingerprints : Acquire(w, f)
       \/ \E w \in Workers : LockStep(w)
       \/ LockTick
       \/ LockCleanUp
    /\ lapsed' = (Lapses \/ (lapsed /\ Holders' # {}))

SystemLock == LockInit /\ [][LockNext]_lockVars

-----------------------------------------------------------------------------
(* Properties. *)

\* The running operations, none once a lease has run out under one of them:
\* then another may have reclaimed the row, and a release that addresses it by
\* its id frees it for a third.
Covered == IF lapsed THEN {} ELSE Holders

\* Two system operations run at the same time (ErrSystemOperationBusy) only
\* after a lease has run out under one, across restarts, late renewals, failing
\* statements and clean-up.
OneOperation == \A v, w \in Covered : v = w

\* Renewals failed for so long that even a lease written at the last success
\* (or at the claim, MaxClaim after its time was read) is over.
RenewalsDown(w) == MaxClaim + RenewInterval + down[w] >= Lease

\* However long an operation runs, its lease is renewed in time
\* (system_operation_lock_service_test.go: "locked_until should be renewed
\* while lock is held").  It runs out in two cases only: the renewals fail for
\* a lease, or the operation reclaimed the row of another, whose fingerprint
\* TryReclaim keeps, so that the renewals match no row.
HeldIsLocked ==
    [][ ~lapsed /\ lapsed' =>
           \E w \in Holders' : RenewalsDown(w)' \/ row'.fp # op'[w] ]_lockVars

\* Until a lease runs out, the row is a lock for the operations.
Lock == INSTANCE SingleHolder WITH Processes <- Workers, holders <- Covered
LockSpec == Lock!Spec

-----------------------------------------------------------------------------
(* The inductive invariant behind the properties. *)

\* A claim stays within its bound; a renewing goroutine has an operation and is
\* never late, and its last success, one interval and the failing ones before
\* the next tick, lies in the past.
RenewInv ==
    \A w \in Workers :
        /\ pc[w] \in Acquiring => started[w] <= clock /\ clock <= started[w] + MaxClaim
        /\ pc[w] = "reclaim" => seen[w].id # 0
        /\ renew[w] = "on" =>
              /\ pc[w] = "held"
              /\ clock <= due[w]
              /\ due[w] <= clock + RenewInterval + down[w]

\* The row is the one holder's with a valid lease; if its fingerprint is the
\* holder's too, the lease is the one the last success wrote or a later one.
LeaseInv ==
    /\ OneOperation
    /\ \A w \in Covered :
          /\ row.id # 0 /\ row.id = rid[w] /\ row.status = "processing"
          /\ row.locked > clock
          /\ row.expires >= row.locked
          /\ row.fp = op[w] =>
                /\ renew[w] = "on"
                /\ row.locked + MaxClaim + RenewInterval + down[w] >= due[w] + Lease

LockInv == LockTypeOK /\ RenewInv /\ LeaseInv
=============================================================================
