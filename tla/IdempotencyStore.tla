-------------------------- MODULE IdempotencyStore --------------------------
(***************************************************************************)
(* The table idempotency_records                                           *)
(* (backend/internal/repository/idempotency_repo.go,                       *)
(* backend/internal/service/idempotency_cleanup_service.go).               *)
(*                                                                         *)
(* Every statement names one row, by its key or by its id, so one key is   *)
(* modelled.  Times are whole ticks of a clock the processes share.        *)
(***************************************************************************)
EXTENDS Integers, FiniteSets

CONSTANTS
    Workers,        \* the goroutines that claim the key's row
    Fingerprints,   \* request fingerprints (operation ids for the system lock)
    NoFingerprint,  \* none
    TTL,            \* lifetime of a row
    MaxClaim,       \* longest time from the start of a call to its claim
    Faults,         \* "db": statements fail; "crash": processes die
    MaxTime         \* bound on the clock, for TLC

ASSUME StoreAssumption ==
    /\ NoFingerprint \notin Fingerprints
    /\ TTL \in Nat /\ MaxClaim \in Nat /\ MaxTime \in Nat
    /\ Faults \subseteq {"db", "crash"}

VARIABLES
    clock,
    row,            \* the key's row, or NoRow
    lastId,         \* the sequence behind the id column
    \* of each worker:
    pc,
    started,        \* now, read once at the start of the call
    rid,            \* the id of the row the call claimed, 0 before
    seen            \* existing: the row as the call read it

store == <<row, lastId>>

RowStatus == {"processing", "succeeded", "failed_retryable"}

\* locked is locked_until, 0 for NULL; response is the request whose response
\* is stored.
Row == [id : Nat, fp : Fingerprints \cup {NoFingerprint},
        status : RowStatus \cup {"none"}, locked : Nat, expires : Nat,
        response : Fingerprints \cup {NoFingerprint}]

NoRow == [id |-> 0, fp |-> NoFingerprint, status |-> "none", locked |-> 0,
          expires |-> 0, response |-> NoFingerprint]

StoreTypeOK ==
    /\ clock \in Nat
    /\ row \in Row
    /\ lastId \in Nat

StoreInit ==
    /\ clock = 1
    /\ row = NoRow
    /\ lastId = 0

-----------------------------------------------------------------------------
(* The statements, as functions of the row they meet. *)

\* INSERT ... ON CONFLICT DO NOTHING
Inserted(f, locked, expires) ==
    [id |-> lastId + 1, fp |-> f, status |-> "processing", locked |-> locked,
     expires |-> expires, response |-> NoFingerprint]

\* TryReclaim's WHERE and SET; the fingerprint stays, expires_at is not asked.
Reclaimable(r, id, from, now) == r.id = id /\ r.status = from /\ r.locked <= now

Reclaimed(r, locked, expires) ==
    [r EXCEPT !.status = "processing", !.locked = locked, !.expires = expires]

\* ExtendProcessingLock's WHERE and SET.
Extendable(r, id, f) == r.id = id /\ r.status = "processing" /\ r.fp = f

\* Mutant: only the lifetime is extended.
ExtendedKeepsLock(r, locked, expires) == [r EXCEPT !.expires = expires]

Extended(r, locked, expires) == [r EXCEPT !.locked = locked, !.expires = expires]

\* MarkSucceeded and MarkFailedRetryable address the row by id alone.
MarkedSucceeded(r, id, response, expires) ==
    IF r.id # id THEN r
    ELSE [r EXCEPT !.status = "succeeded", !.locked = 0, !.expires = expires,
                   !.response = response]

MarkedFailed(r, id, locked, expires) ==
    IF r.id # id THEN r
    ELSE [r EXCEPT !.status = "failed_retryable", !.locked = locked, !.expires = expires]

\* The cleanup job.
DeleteExpired ==
    /\ row.id # 0
    /\ row.expires <= clock
    /\ row' = NoRow
    /\ UNCHANGED <<lastId, clock>>
=============================================================================
