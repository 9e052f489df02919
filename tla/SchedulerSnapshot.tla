-------------------------- MODULE SchedulerSnapshot --------------------------
(***************************************************************************)
(* The scheduler's view of the accounts                                    *)
(* (backend/internal/service/scheduler_snapshot_service.go, repository/    *)
(* scheduler_cache.go, scheduler_outbox_repo.go).                          *)
(*                                                                         *)
(* Requests choose an account from a snapshot of their bucket in Redis: a  *)
(* list under a key with a version, and the accounts' data under keys      *)
(* without one.  Changes of accounts leave events in an outbox; pollers    *)
(* rebuild the bucket for every event, another goroutine of each instance  *)
(* rebuilds it now and then, and a request that finds no snapshot writes   *)
(* one itself.                                                             *)
(*                                                                         *)
(* The database's content is a generation: which accounts the bucket has   *)
(* and their data.  One account is followed; others stay in the bucket     *)
(* always.  Buckets are independent of each other.                         *)
(***************************************************************************)
EXTENDS Integers, Sequences, FiniteSets

CONSTANTS
    Pollers,      \* runOutboxWorker of the instances
    Rebuilders,   \* runInitialRebuild and runFullRebuildWorker
    Readers,      \* requests in ListSchedulableAccounts
    Editors,      \* handlers that change the account
    Flushers,     \* DeferredService: writes when the account was last used
    Keys,         \* snapshot keys; one nobody refers to stands for a new one
    NoKey, NoWorker,
    MaxChange,    \* bound on the changes
    MaxEvent,     \* bound on the events
    MaxCrashes,   \* bound on the crashes
    Situations    \* who takes part in one behaviour, and what may fail in it

Workers == Pollers \cup Rebuilders \cup Readers \cup Editors \cup Flushers

ASSUME SnapshotNamesAssumption == NoKey \notin Keys /\ NoWorker \notin Workers
ASSUME SnapshotBoundsAssumption ==
    MaxChange \in Nat /\ MaxEvent \in Nat /\ MaxCrashes \in Nat

\* runOutboxWorker is a goroutine of its own.
ASSUME PollersAssumption == Pollers \cap (Rebuilders \cup Readers \cup Editors) = {}

\* call: a call fails; enqueue: the event is not stored; slow: a rebuild outlasts
\* its lock.
ASSUME SituationsAssumption ==
    Situations \subseteq [cast : SUBSET Workers,
                          faults : SUBSET {"call", "enqueue", "slow", "crash"}]

VARIABLES
    faults,     \* what may fail: chosen once
    cast,       \* the goroutines that take part: chosen once
    now,        \* the generation of the database
    outbox,     \* scheduler_outbox
    lastId,
    watermark,
    list,       \* the sorted sets under the snapshot keys
    active,     \* the key of the active version, NoKey while not ready
    newer,      \* writers with a version above the active one, in its order
    meta,       \* the account's data in the cache
    lock,       \* who set the bucket's lock
    pc,
    copy,       \* what the worker has read: a generation
    key,        \* the snapshot key a worker writes or reads
    batch,      \* a poller's events that are left
    upto,       \* the last id of the batch
    rebuilt,    \* seen: the batch has rebuilt the bucket
    published,  \* the newest generation that a complete SetSnapshot has written
    missed,     \* events whose rebuild found the bucket locked
    crashes

constants == <<faults, cast>>
database == <<now, outbox, lastId>>
snapshot == <<list, active, newer, published>>
poll == <<batch, upto, rebuilt>>
vars == <<constants, database, watermark, snapshot, meta, lock, pc, copy, key,
          poll, missed, crashes>>

Generation == 0..MaxChange
None == -1      \* nothing is stored
Partial == -2   \* some members of the list are missing

\* The last change deletes the account.
Gone(g) == g = MaxChange

\* since: the generation the event announces; 0 for a last_used event.
Event == [id : 1..MaxEvent, used : BOOLEAN, since : Generation]

Writing == {"load", "incr", "accounts", "list", "activate"}
Rebuilding == Writing \cup {"unlock"}
Point == Rebuilding \cup {"idle", "range", "meta", "delete", "enqueue", "syncRead", "syncWrite",
                          "account", "setAccount", "setUsed", "lock", "watermark"}

TypeOK ==
    /\ \E s \in Situations : faults = s.faults /\ cast = s.cast
    /\ now \in Generation /\ outbox \subseteq Event /\ lastId \in 0..MaxEvent
    /\ watermark \in 0..lastId
    /\ list \in [Keys -> Generation \cup {None, Partial}]
    /\ active \in Keys \cup {NoKey}
    /\ newer \in Seq(Workers)
    /\ meta \in Generation \cup {None}
    /\ lock \in Workers \cup {NoWorker}
    /\ pc \in [Workers -> Point]
    /\ copy \in [Workers -> Generation \cup {None, Partial}]
    /\ key \in [Workers -> Keys \cup {NoKey}]
    /\ batch \in [Workers -> SUBSET Event] /\ upto \in [Workers -> 0..MaxEvent]
    /\ rebuilt \in [Workers -> BOOLEAN]
    /\ published \in Generation \cup {None}
    /\ missed \subseteq 1..MaxEvent
    /\ crashes \in 0..MaxCrashes

Init ==
    /\ \E s \in Situations : faults = s.faults /\ cast = s.cast
    /\ now = 0 /\ outbox = {} /\ lastId = 0 /\ watermark = 0
    /\ list = [k \in Keys |-> None]
    /\ active = NoKey /\ newer = <<>> /\ meta = None /\ lock = NoWorker
    /\ pc = [w \in Workers |-> "idle"]
    /\ copy = [w \in Workers |-> None]
    /\ key = [w \in Workers |-> NoKey]
    /\ batch = [w \in Workers |-> {}]
    /\ upto = [w \in Workers |-> 0]
    /\ rebuilt = [w \in Workers |-> FALSE]
    /\ published = None /\ missed = {} /\ crashes = 0

Goto(w, p) == pc' = [pc EXCEPT ![w] = p]
Hold(w, g) == copy' = [copy EXCEPT ![w] = g]

-----------------------------------------------------------------------------
(* Changes of the account. *)

Change(w) ==
    /\ w \in cast \cap Editors
    /\ pc[w] = "idle"
    /\ now < MaxChange
    /\ now' = now + 1
    /\ Goto(w, IF Gone(now') THEN "delete" ELSE "enqueue")
    /\ UNCHANGED <<constants, outbox, lastId, watermark, snapshot, meta, lock, copy, key, poll,
                   missed, crashes>>

\* deleteSchedulerAccountSnapshot; its error is only logged.
DeleteSnapshot(w) ==
    /\ pc[w] = "delete"
    /\ meta' \in {None} \cup IF "call" \in faults THEN {meta} ELSE {}
    /\ Goto(w, "enqueue")
    /\ UNCHANGED <<constants, database, watermark, snapshot, lock, copy, key, poll, missed, crashes>>

\* enqueueSchedulerOutbox
Enqueue(w) ==
    /\ pc[w] = "enqueue"
    /\ lastId < MaxEvent
    /\ lastId' = lastId + 1
    /\ outbox' = outbox \cup {[id |-> lastId + 1, used |-> FALSE, since |-> now]}
    /\ Goto(w, "syncRead")
    /\ UNCHANGED <<constants, now, watermark, snapshot, meta, lock, copy, key, poll, missed,
                   crashes>>

\* An event of the same type is less than a second old, handled or not.
EnqueueSkipped(w) ==
    /\ pc[w] = "enqueue"
    /\ "enqueue" \in faults \/ lastId = MaxEvent \/ \E e \in outbox : ~e.used
    /\ Goto(w, "syncRead")
    /\ UNCHANGED <<constants, database, watermark, snapshot, meta, lock, copy, key, poll, missed,
                   crashes>>

\* The time of the account's last use; its generation does not tell it.
EnqueueLastUsed(w) ==
    /\ w \in cast \cap Flushers
    /\ lastId < MaxEvent
    /\ lastId' = lastId + 1
    /\ outbox' = outbox \cup {[id |-> lastId + 1, used |-> TRUE, since |-> 0]}
    /\ UNCHANGED <<constants, now, watermark, snapshot, meta, lock, pc, copy, key, poll, missed,
                   crashes>>

\* syncSchedulerAccountSnapshot: GetByID, then SetAccount; not all changes do
\* it, and a deleted account is not found.
SyncRead(w) ==
    /\ pc[w] = "syncRead"
    /\ ~Gone(now)
    /\ Hold(w, now)
    /\ Goto(w, "syncWrite")
    /\ UNCHANGED <<constants, database, watermark, snapshot, meta, lock, key, poll, missed,
                   crashes>>

SyncSkipped(w) ==
    /\ pc[w] = "syncRead"
    /\ Goto(w, "idle")
    /\ UNCHANGED <<constants, database, watermark, snapshot, meta, lock, copy, key, poll, missed,
                   crashes>>

SyncWrite(w) ==
    /\ pc[w] = "syncWrite"
    /\ meta' = copy[w]
    /\ Hold(w, None)
    /\ Goto(w, "idle")
    /\ UNCHANGED <<constants, database, watermark, snapshot, lock, key, poll, missed, crashes>>

-----------------------------------------------------------------------------
(* rebuildBucket and SetSnapshot. *)

\* runInitialRebuild, triggerFullRebuild.
FullRebuild(w) ==
    /\ w \in cast \cap Rebuilders
    /\ pc[w] = "idle"
    /\ Goto(w, "lock")
    /\ UNCHANGED <<constants, database, watermark, snapshot, meta, lock, copy, key, poll, missed,
                   crashes>>

TryLockBucket(w) ==
    /\ pc[w] = "lock"
    /\ lock = NoWorker
    /\ lock' = w
    /\ rebuilt' = [rebuilt EXCEPT ![w] = w \in Pollers]
    /\ Goto(w, "load")
    /\ UNCHANGED <<constants, database, watermark, snapshot, meta, copy, key, batch, upto, missed,
                   crashes>>

\* loadAccountsFromDB
Load(w) ==
    /\ pc[w] = "load"
    /\ Hold(w, now)
    /\ Goto(w, "incr")
    /\ UNCHANGED <<constants, database, watermark, snapshot, meta, lock, key, poll, missed,
                   crashes>>

\* Mutant: the active key is written in place.
ActiveKey == IF active # NoKey THEN active ELSE CHOOSE k \in Keys : TRUE

\* A key nobody refers to stands for a new one.
FreeKeys == {k \in Keys : k # active /\ \A w \in Workers : key[w] # k}
NewKey == CHOOSE k \in FreeKeys : TRUE

\* INCR: the newest version, and a key of its own.  The keys are the bound on the
\* snapshots in use at a time; Redis has none.
Incr(w) ==
    /\ pc[w] = "incr"
    /\ FreeKeys # {}
    /\ key' = [key EXCEPT ![w] = NewKey]
    /\ list' = [list EXCEPT ![NewKey] = Partial]
    /\ newer' = Append(newer, w)
    /\ Goto(w, "accounts")
    /\ UNCHANGED <<constants, database, watermark, active, published, meta, lock, copy, poll,
                   missed, crashes>>

\* writeAccounts: data has no version.
WriteAccounts(w) ==
    /\ pc[w] = "accounts"
    /\ meta' = IF Gone(copy[w]) THEN meta ELSE copy[w]
    /\ Goto(w, "list")
    /\ UNCHANGED <<constants, database, watermark, snapshot, lock, copy, key, poll, missed,
                   crashes>>

\* The last ZADD; a pipeline is no transaction.
WriteList(w) ==
    /\ pc[w] = "list"
    /\ list' = [list EXCEPT ![key[w]] = copy[w]]
    /\ Goto(w, "activate")
    /\ UNCHANGED <<constants, database, watermark, active, newer, published, meta, lock, copy,
                   key, poll, missed, crashes>>

Newer(w) == \E i \in 1..Len(newer) : newer[i] = w
Place(w) == CHOOSE i \in 1..Len(newer) : newer[i] = w
After(w) == SubSeq(newer, Place(w) + 1, Len(newer))
Before(w) == SubSeq(newer, 1, Place(w) - 1)

\* After SetSnapshot: a request is done, others unlock the bucket.
Written(w) ==
    /\ Goto(w, IF w \in Readers THEN "idle" ELSE "unlock")
    /\ Hold(w, None)
    /\ key' = [key EXCEPT ![w] = NoKey]

\* activateSnapshotScript: a version below the active one is dropped, and the
\* key of the one it replaces expires later, which matters only to a request
\* that is about to read it.
Activate(w) ==
    /\ pc[w] = "activate"
    /\ active' = IF Newer(w) THEN key[w] ELSE active
    /\ newer' = IF Newer(w) THEN After(w) ELSE newer
    /\ LET old == IF Newer(w) THEN active ELSE key[w]
       IN  list' = [k \in Keys |-> IF k = old /\ ~\E r \in Readers : key[r] = k THEN None ELSE list[k]]
    /\ published' = IF copy[w] > published THEN copy[w] ELSE published
    /\ Written(w)
    /\ UNCHANGED <<constants, database, watermark, meta, lock, poll, missed, crashes>>

\* What a poller does after an event.
NextEvent(w) ==
    LET rest == {e \in batch[w] : \E f \in batch[w] : f.id < e.id}
    IN  /\ batch' = [batch EXCEPT ![w] = rest]
        /\ Goto(w, IF w \notin Pollers THEN "idle" ELSE IF rest = {} THEN "watermark" ELSE "account")

\* A goroutine gives up, and what it has written under a key of its own is
\* never read.
Quit(w) ==
    /\ Goto(w, "idle")
    /\ Hold(w, None)
    /\ key' = [key EXCEPT ![w] = NoKey]
    /\ list' = [k \in Keys |-> IF pc[w] \in Writing /\ key[w] = k THEN None ELSE list[k]]
    /\ newer' = IF Newer(w) THEN Before(w) \o After(w) ELSE newer
    /\ batch' = [batch EXCEPT ![w] = {}]
    /\ upto' = [upto EXCEPT ![w] = 0]
    /\ rebuilt' = [rebuilt EXCEPT ![w] = FALSE]

\* The grace period of a replaced snapshot is over.
SnapshotExpires(k) ==
    /\ k # active /\ list[k] # None
    /\ \E r \in Readers : key[r] = k /\ pc[r] = "range"
    /\ list' = [list EXCEPT ![k] = None]
    /\ UNCHANGED <<constants, database, watermark, active, newer, published, meta, lock, pc, copy,
                   key, poll, missed, crashes>>

\* UnlockBucket: DEL, whoever holds the lock by now.
UnlockBucket(w) ==
    /\ pc[w] = "unlock"
    /\ lock' = NoWorker
    /\ NextEvent(w)
    /\ UNCHANGED <<constants, database, watermark, snapshot, meta, copy, key, upto, rebuilt,
                   missed, crashes>>

\* Someone else rebuilds the bucket, perhaps from an older read: nothing is
\* done for this event or the rest of the batch.
BucketLocked(w) ==
    /\ pc[w] = "lock"
    /\ lock # NoWorker
    /\ rebuilt' = [rebuilt EXCEPT ![w] = w \in Pollers]
    /\ missed' = missed \cup {e.id : e \in batch[w]}
    /\ NextEvent(w)
    /\ UNCHANGED <<constants, database, watermark, snapshot, meta, lock, copy, key, upto, crashes>>

\* A call fails or its context ends, before or after the lock is taken; DEL may
\* fail as well.  A poller leaves the rest of the batch for the next poll.
RebuildFails(w) ==
    /\ "call" \in faults
    /\ pc[w] \in Writing \cup {"lock", "unlock"}
    /\ \E deleted \in BOOLEAN :
          lock' = IF deleted /\ pc[w] # "lock" /\ w \notin Readers THEN NoWorker ELSE lock
    /\ Quit(w)
    /\ UNCHANGED <<constants, database, watermark, active, published, meta, missed, crashes>>

\* Mutant: the lock is set without a TTL.
LockNeverExpires ==
    /\ lock = NoWorker
    /\ UNCHANGED vars

\* The TTL ends: a rebuild's context ends before, unless its last call is slow.
LockExpires ==
    /\ lock # NoWorker
    /\ "slow" \in faults \/ pc[lock] \notin Rebuilding
    /\ lock' = NoWorker
    /\ UNCHANGED <<constants, database, watermark, snapshot, meta, pc, copy, key, poll, missed,
                   crashes>>

-----------------------------------------------------------------------------
(* pollOutbox. *)

\* GetOutboxWatermark and ListAfter.
Poll(w) ==
    /\ w \in cast \cap Pollers
    /\ pc[w] = "idle"
    /\ LET events == {e \in outbox : e.id > watermark}
       IN  \E last \in events :
              /\ \A e \in events : e.id <= last.id
              /\ batch' = [batch EXCEPT ![w] = events]
              /\ upto' = [upto EXCEPT ![w] = last.id]
    /\ Goto(w, "account")
    /\ UNCHANGED <<constants, database, watermark, snapshot, meta, lock, copy, key, rebuilt,
                   missed, crashes>>

Current(w) == CHOOSE e \in batch[w] : \A f \in batch[w] : e.id <= f.id

\* handleAccountEvent: GetByID.  handleLastUsedEvent: MGET.
ReadAccount(w) ==
    /\ pc[w] = "account"
    /\ Hold(w, IF Current(w).used THEN meta ELSE now)
    /\ Goto(w, IF Current(w).used THEN "setUsed" ELSE "setAccount")
    /\ UNCHANGED <<constants, database, watermark, snapshot, meta, lock, key, poll, missed,
                   crashes>>

\* SetAccount, or DeleteAccount; the bucket is rebuilt once for a batch.
SetAccount(w) ==
    /\ pc[w] = "setAccount"
    /\ meta' = IF Gone(copy[w]) THEN None ELSE copy[w]
    /\ Hold(w, None)
    /\ IF rebuilt[w] THEN NextEvent(w) ELSE Goto(w, "lock") /\ UNCHANGED batch
    /\ UNCHANGED <<constants, database, watermark, snapshot, lock, key, upto, rebuilt, missed,
                   crashes>>

\* UpdateLastUsed writes what it has read with another time.
SetUsed(w) ==
    /\ pc[w] = "setUsed"
    /\ meta' = IF copy[w] = None THEN meta ELSE copy[w]
    /\ Hold(w, None)
    /\ NextEvent(w)
    /\ UNCHANGED <<constants, database, watermark, snapshot, lock, key, upto, rebuilt, missed,
                   crashes>>

HandlingFails(w) ==
    /\ "call" \in faults
    /\ pc[w] \in {"account", "setAccount", "setUsed", "watermark"}
    /\ Quit(w)
    /\ UNCHANGED <<constants, database, watermark, active, published, meta, lock, missed, crashes>>

\* Mutant: seen outlives the batch.
SetOutboxWatermarkKeepsSeen(w) ==
    /\ pc[w] = "watermark"
    /\ watermark' = upto[w]
    /\ upto' = [upto EXCEPT ![w] = 0]
    /\ Goto(w, "idle")
    /\ UNCHANGED <<constants, database, snapshot, meta, lock, copy, key, batch, rebuilt, missed,
                   crashes>>

\* SetOutboxWatermark, whatever another poller has written.
SetOutboxWatermark(w) ==
    /\ pc[w] = "watermark"
    /\ watermark' = upto[w]
    /\ upto' = [upto EXCEPT ![w] = 0]
    /\ rebuilt' = [rebuilt EXCEPT ![w] = FALSE]
    /\ Goto(w, "idle")
    /\ UNCHANGED <<constants, database, snapshot, meta, lock, copy, key, batch, missed, crashes>>

-----------------------------------------------------------------------------
(* ListSchedulableAccounts. *)

\* The ready and the active key; without them the request reads the database
\* and writes a snapshot, unless the fallback is switched off or limited.
GetActive(w) ==
    /\ w \in cast \cap Readers
    /\ pc[w] = "idle"
    /\ key' = [key EXCEPT ![w] = active]
    /\ Goto(w, IF active = NoKey THEN "load" ELSE "range")
    /\ UNCHANGED <<constants, database, watermark, snapshot, meta, lock, copy, poll, missed,
                   crashes>>

\* An empty list is a miss.
ReadList(w) ==
    /\ pc[w] = "range"
    /\ Hold(w, list[key[w]])
    /\ key' = [key EXCEPT ![w] = NoKey]
    /\ list' = [list EXCEPT ![key[w]] = IF key[w] = active THEN @ ELSE None]
    /\ Goto(w, IF list[key[w]] = None THEN "load" ELSE "meta")
    /\ UNCHANGED <<constants, database, watermark, active, newer, published, meta, lock, poll,
                   missed, crashes>>

\* A member without data is a miss.
ReadMetadata(w) ==
    /\ pc[w] = "meta"
    /\ Hold(w, None)
    /\ Goto(w, IF meta = None /\ ~Gone(copy[w]) THEN "load" ELSE "idle")
    /\ UNCHANGED <<constants, database, watermark, snapshot, meta, lock, key, poll, missed,
                   crashes>>

FallbackRefused(w) ==
    /\ w \in Readers
    /\ pc[w] = "load"
    /\ Goto(w, "idle")
    /\ UNCHANGED <<constants, database, watermark, snapshot, meta, lock, copy, key, poll, missed,
                   crashes>>

\* A process dies with some of its goroutines under way.
Crash ==
    /\ "crash" \in faults
    /\ crashes < MaxCrashes
    /\ \E w \in Workers \ Editors : pc[w] # "idle" /\ Quit(w)
    /\ crashes' = crashes + 1
    /\ UNCHANGED <<constants, database, watermark, active, published, meta, lock, missed>>

-----------------------------------------------------------------------------
Step(w) ==
    \/ DeleteSnapshot(w) \/ Enqueue(w) \/ EnqueueSkipped(w) \/ SyncRead(w) 
    \/ SyncSkipped(w) \/ SyncWrite(w) \/ TryLockBucket(w) \/ BucketLocked(w) \/ Load(w) \/ Incr(w)
    \/ WriteAccounts(w) \/ WriteList(w) \/ Activate(w) \/ UnlockBucket(w)
    \/ RebuildFails(w) \/ ReadAccount(w) \/ SetAccount(w) \/ SetUsed(w)
    \/ HandlingFails(w) \/ SetOutboxWatermark(w) \/ ReadList(w) \/ ReadMetadata(w)
    \/ FallbackRefused(w)

Next ==
    \/ \E w \in Workers : \/ Change(w) \/ EnqueueLastUsed(w) \/ FullRebuild(w) \/ Poll(w)
                          \/ GetActive(w) \/ Step(w)
    \/ \E k \in Keys : SnapshotExpires(k)
    \/ LockExpires \/ Crash

Spec == Init /\ [][Next]_vars

\* Goroutines go on, both tickers fire, and the lock's TTL ends.
Fairness ==
    /\ \A w \in Workers : WF_vars(Step(w))
    /\ \A w \in Pollers : WF_vars(Poll(w))
    /\ \A w \in Rebuilders : WF_vars(FullRebuild(w))
    /\ WF_vars(LockExpires)

FairSpec == Spec /\ Fairness

-----------------------------------------------------------------------------
(* Properties. *)

\* A request that finds a snapshot gets a list the database had as a whole,
\* although lists are written in pieces, replaced and expired under it
\* (SetSnapshot: the versioned key is unknown to readers until it is active).
ListsAreWhole == \A w \in Readers : pc[w] = "meta" => copy[w] \in Generation

\* The watermark passes an event only when a snapshot with its change has been
\* written, or its rebuild met a locked bucket: not when the batch was aborted,
\* when two pollers move the watermark back and forth, or when an earlier event
\* of the batch has rebuilt the bucket already (pollOutbox, batchSeenKey).
NoEventSkipped ==
    \A e \in outbox : ~e.used /\ e.id <= watermark => e.since <= published \/ e.id \in missed

\* Whatever was lost, overwritten by older data or left behind by a crash, once
\* the account does not change any more the full rebuilds bring list and data
\* up to date for good (runFullRebuildWorker).
Converges ==
    "call" \notin faults /\ cast \cap Rebuilders # {} =>
        <>[](active # NoKey /\ list[active] = now /\ (meta = now \/ Gone(now)))

-----------------------------------------------------------------------------
(* The inductive invariant behind ListsAreWhole and NoEventSkipped. *)

\* Where each role can be, and what a worker holds there.
RoleInv ==
    \A w \in Workers :
        /\ w \in Pollers => pc[w] \in Rebuilding \cup
                {"idle", "account", "setAccount", "setUsed", "lock", "watermark"}
        /\ pc[w] \in (Writing \ {"load"}) \cup {"syncWrite", "setAccount", "meta"}
                => copy[w] \in Generation
        /\ pc[w] = "setUsed" => copy[w] \in Generation \cup {None}

\* A list under construction has a key nobody else knows; the active one is
\* whole, and stays until the requests that have its key have read it.
VersionInv ==
    /\ active # NoKey => list[active] \in Generation
    /\ \A w \in Workers :
        LET owns == pc[w] \in {"accounts", "list", "activate"}
        IN  /\ owns => /\ key[w] \in Keys \ {active}
                       /\ \A v \in Workers \ {w} : key[v] # key[w]
            /\ pc[w] = "activate" => list[key[w]] = copy[w]
            /\ pc[w] = "range" => key[w] \in Keys /\ list[key[w]] \in Generation \cup {None}
            /\ ~owns /\ pc[w] # "range" => key[w] = NoKey

\* What NoEventSkipped promises of an event below the watermark.
Handled(e) == e.used \/ e.since <= published \/ e.id \in missed

\* Events are numbered without repetition and announce what has happened.
EventInv ==
    /\ \A e \in outbox : e.id <= lastId /\ e.since <= now
    /\ \A e, f \in outbox : e.id = f.id => e = f
    /\ \A e \in outbox : e.id <= watermark => Handled(e)

\* What a batch has left behind is handled, and so is all of it once its
\* snapshot is written; until then the read behind it is younger than its events.
BatchKept(w) ==
    /\ batch[w] \subseteq outbox /\ upto[w] <= lastId
    /\ \A e \in outbox : e.id <= upto[w] => e \in batch[w] \/ Handled(e)
    /\ pc[w] = "watermark" => batch[w] = {}
    /\ rebuilt[w] => w \in Pollers /\ pc[w] # "idle"
    /\ pc[w] = "unlock" \/ (rebuilt[w] /\ pc[w] \notin Writing) =>
          \A e \in batch[w] : Handled(e)
    /\ pc[w] \in Writing \ {"load"} => \A e \in batch[w] : e.since <= copy[w]
    /\ pc[w] = "setUsed" =>
          \A e \in batch[w] : (\A f \in batch[w] : e.id <= f.id) => e.used

BatchInv == \A w \in Workers : BatchKept(w)

SnapshotInv == TypeOK /\ RoleInv /\ VersionInv /\ EventInv /\ BatchInv
=============================================================================
