--------------------------- MODULE UserMessageQueue ---------------------------
(***************************************************************************)
(* The serial queue of an account's user messages                          *)
(* (backend/internal/service/user_msg_queue_service.go, repository/        *)
(* user_msg_queue_cache.go, handler/user_msg_queue_helper.go).             *)
(*                                                                         *)
(* A request takes the account's lock in Redis, waits until the last       *)
(* message is some time ago, and gives the lock back when the upstream has *)
(* accepted its message.  Whatever fails, the request goes on without the  *)
(* lock.  Times are ticks; the lock's TTL and the time since the last      *)
(* message are kept by Redis, the others are timers of the requests.       *)
(***************************************************************************)
EXTENDS Integers, FiniteSets

CONSTANTS
    Requests,
    Cleaners,     \* StartCleanupWorker of the instances
    NoRequest,    \* the lock is free
    Orphan,       \* the lock has a request id that nobody knows any more
    LockTTL, WaitTimeout,
    Delays,       \* CalculateRPMAwareDelay
    LastTTL,      \* of the key with the time of the last message
    FaultModels   \* which sets of things may fail in one behaviour

ASSUME QueueNamesAssumption ==
    NoRequest \notin Requests /\ Orphan \notin Requests /\ NoRequest # Orphan

ASSUME QueueTimesAssumption ==
    /\ LockTTL \in Nat \ {0} /\ WaitTimeout \in Nat /\ LastTTL \in Nat
    /\ Delays \subseteq Nat

\* net: a call of Redis fails or its answer is lost; ttl: Redis loses the TTL of
\* a key; slow: a request outlasts its lock; crash: a request's process dies.
ASSUME QueueFaultsAssumption == FaultModels \subseteq SUBSET {"net", "ttl", "slow", "crash"}

VARIABLES
    faults,   \* what may fail: chosen once
    lock,     \* whose request id the lock has
    ttl,      \* what is left of its TTL, 0 while it is free
    since,    \* time since the last message, None when its key is gone
    pc,
    holding,  \* the request knows the id with which it took the lock
    bare,     \* requests whose lock has lost its TTL while they held it
    left,     \* what is left of a request's WaitTimeout while it tries
    nap,      \* what is left of its delay
    found     \* what a cleaner's scan has found is still to be deleted

timers == <<left, nap>>
vars == <<faults, lock, ttl, since, pc, holding, bare, timers, found>>

NoTTL == -1
None == -1

TypeOK ==
    /\ faults \in FaultModels
    /\ lock \in Requests \cup {NoRequest, Orphan}
    /\ ttl \in 0..LockTTL \cup {NoTTL}
    /\ since \in 0..LastTTL \cup {None}
    /\ pc \in [Requests -> {"idle", "try", "delay", "nap", "forward"}]
    /\ holding \in [Requests -> BOOLEAN]
    /\ bare \subseteq Requests
    /\ left \in [Requests -> 0..WaitTimeout]
    /\ nap \in [Requests -> Nat]
    /\ found \in [Cleaners -> BOOLEAN]

Init ==
    /\ faults \in FaultModels
    /\ lock = NoRequest /\ ttl = 0 /\ since = None
    /\ pc = [r \in Requests |-> "idle"]
    /\ holding = [r \in Requests |-> FALSE]
    /\ bare = {}
    /\ left = [r \in Requests |-> 0]
    /\ nap = [r \in Requests |-> 0]
    /\ found = [c \in Cleaners |-> FALSE]

Goto(r, p) == pc' = [pc EXCEPT ![r] = p]

-----------------------------------------------------------------------------
(* TryAcquire. *)

Arrive(r) ==
    /\ pc[r] = "idle"
    /\ Goto(r, "try")
    /\ left' = [left EXCEPT ![r] = WaitTimeout]
    /\ UNCHANGED <<faults, lock, ttl, since, holding, bare, nap, found>>

\* acquireLockScript: the lock is free, or has the id of this call, which the
\* Redis client has sent before.
LockIsFree(r) == lock \in {NoRequest, r}

AcquireLock(r) ==
    /\ pc[r] = "try"
    /\ LockIsFree(r)
    /\ lock' = r
    /\ ttl' = LockTTL
    /\ holding' = [holding EXCEPT ![r] = TRUE]
    /\ bare' = bare \ {r}
    /\ left' = [left EXCEPT ![r] = 0]
    /\ Goto(r, "delay")
    /\ UNCHANGED <<faults, since, nap, found>>

\* The answer is lost, and the client sends the call again.
AcquireAnswerLost(r) ==
    /\ "net" \in faults
    /\ pc[r] = "try"
    /\ LockIsFree(r)
    /\ lock' = r
    /\ ttl' = LockTTL
    /\ UNCHANGED <<faults, since, pc, holding, bare, timers, found>>

\* Nobody releases a lock whose id is forgotten.
Forget(r) == lock' = IF lock = r THEN Orphan ELSE lock

\* Mutant: the wait has no timeout.
GoOnAfterErrors(r) ==
    /\ pc[r] = "try"
    /\ "net" \in faults
    /\ Goto(r, "delay")
    /\ Forget(r)
    /\ left' = [left EXCEPT ![r] = 0]
    /\ UNCHANGED <<faults, ttl, since, holding, bare, nap, found>>

\* Fail-open: WaitTimeout ends, and the message is sent; or the call fails, and
\* the request waits for the delay as if it had the lock.
GoOnWithoutLock(r) ==
    /\ pc[r] = "try"
    /\ \/ left[r] = 0 /\ Goto(r, "forward")
       \/ "net" \in faults /\ Goto(r, "delay")
    /\ Forget(r)
    /\ left' = [left EXCEPT ![r] = 0]
    /\ UNCHANGED <<faults, ttl, since, holding, bare, nap, found>>

-----------------------------------------------------------------------------
(* EnforceDelay. *)

\* Mutant: the delay is subtracted from the elapsed time.
RemainingBackwards(d) == IF since = None \/ since <= d THEN 0 ELSE since - d

\* The time of the last message is looked up, the delay computed from the load.
Remaining(d) == IF since = None \/ since >= d THEN 0 ELSE d - since

EnforceDelay(r, d) ==
    /\ pc[r] = "delay"
    /\ d \in Delays
    /\ nap' = [nap EXCEPT ![r] = Remaining(d)]
    /\ Goto(r, "nap")
    /\ UNCHANGED <<faults, lock, ttl, since, holding, bare, left, found>>

\* Fail-open: Redis does not tell the time.
DelayUnknown(r) ==
    /\ "net" \in faults
    /\ pc[r] = "delay"
    /\ Goto(r, "forward")
    /\ UNCHANGED <<faults, lock, ttl, since, holding, bare, timers, found>>

DelayOver(r) ==
    /\ pc[r] = "nap"
    /\ nap[r] = 0
    /\ Goto(r, "forward")
    /\ UNCHANGED <<faults, lock, ttl, since, holding, bare, timers, found>>

-----------------------------------------------------------------------------
(* Release. *)

\* Mutant: the lock is deleted without a look at its id.
ReleaseAnyLock(r) ==
    /\ lock' = NoRequest
    /\ ttl' = 0
    /\ since' = 0

\* releaseLockScript: only the lock with this id is deleted, and the time is
\* recorded.
ReleaseLock(r) ==
    /\ lock' = IF holding[r] /\ lock = r THEN NoRequest ELSE lock
    /\ ttl' = IF holding[r] /\ lock = r THEN 0 ELSE ttl
    /\ since' = IF holding[r] /\ lock = r THEN 0 ELSE since

\* WaitTimeout ends during the delay, or the client is gone: the lock is given
\* back, although no message was sent.
DelayInterrupted(r) ==
    /\ pc[r] \in {"delay", "nap"}
    /\ ReleaseLock(r)
    /\ holding' = [holding EXCEPT ![r] = FALSE]
    /\ bare' = bare \ {r}
    /\ nap' = [nap EXCEPT ![r] = 0]
    /\ Goto(r, "forward")
    /\ UNCHANGED <<faults, left, found>>

\* The upstream accepts the message, Forward returns, or the client is gone.
Accepted(r) ==
    /\ pc[r] = "forward"
    /\ ReleaseLock(r)
    /\ holding' = [holding EXCEPT ![r] = FALSE]
    /\ bare' = bare \ {r}
    /\ Goto(r, "idle")
    /\ UNCHANGED <<faults, timers, found>>

\* The script does not run; the error is only logged.
ReleaseFails(r) ==
    /\ "net" \in faults
    /\ pc[r] = "forward"
    /\ Forget(r)
    /\ holding' = [holding EXCEPT ![r] = FALSE]
    /\ bare' = bare \ {r}
    /\ Goto(r, "idle")
    /\ UNCHANGED <<faults, ttl, since, timers, found>>

Crash(r) ==
    /\ "crash" \in faults
    /\ pc[r] # "idle"
    /\ Forget(r)
    /\ holding' = [holding EXCEPT ![r] = FALSE]
    /\ bare' = bare \ {r}
    /\ left' = [left EXCEPT ![r] = 0]
    /\ nap' = [nap EXCEPT ![r] = 0]
    /\ Goto(r, "idle")
    /\ UNCHANGED <<faults, ttl, since, found>>

-----------------------------------------------------------------------------
(* Orphaned locks. *)

\* A failover of Redis.
TTLLost ==
    /\ "ttl" \in faults
    /\ lock # NoRequest
    /\ ttl' = NoTTL
    /\ bare' = IF lock \in Requests THEN bare \cup {lock} ELSE bare
    /\ UNCHANGED <<faults, lock, since, pc, holding, timers, found>>

ScanLockKeys(c) ==
    /\ ~found[c]
    /\ lock # NoRequest /\ ttl = NoTTL
    /\ found' = [found EXCEPT ![c] = TRUE]
    /\ UNCHANGED <<faults, lock, ttl, since, pc, holding, bare, timers>>

\* Mutant: what the scan has found is deleted as it is now.
ForceReleaseUnchecked(c) ==
    /\ found[c]
    /\ lock' = NoRequest
    /\ ttl' = 0
    /\ found' = [found EXCEPT ![c] = FALSE]
    /\ UNCHANGED <<faults, since, pc, holding, bare, timers>>

\* Mutant: -2, a missing key, is taken for a key without a TTL.
ForceReleaseMissing(c) ==
    /\ found[c]
    /\ found' = [found EXCEPT ![c] = FALSE]
    /\ UNCHANGED <<faults, lock, ttl, since, pc, holding, bare, timers>>

\* forceReleaseLockScript looks at the TTL again.
ForceReleaseLock(c) ==
    /\ found[c]
    /\ lock' = IF ttl = NoTTL THEN NoRequest ELSE lock
    /\ ttl' = IF ttl = NoTTL THEN 0 ELSE ttl
    /\ found' = [found EXCEPT ![c] = FALSE]
    /\ UNCHANGED <<faults, since, pc, holding, bare, timers>>

-----------------------------------------------------------------------------
(* Time. *)

\* LockTTL "should exceed the longest request".
InTime == "slow" \in faults \/ lock \notin Requests \/ ttl # 1

Less(n) == IF n > 0 THEN n - 1 ELSE n

Tick ==
    /\ InTime
    /\ lock' = IF ttl = 1 THEN NoRequest ELSE lock
    /\ ttl' = Less(ttl)
    /\ since' = IF since = LastTTL THEN None ELSE IF since = None THEN None ELSE since + 1
    /\ left' = [r \in Requests |-> Less(left[r])]
    /\ nap' = [r \in Requests |-> Less(nap[r])]
    /\ UNCHANGED <<faults, pc, holding, bare, found>>

-----------------------------------------------------------------------------
Step(r) ==
    \/ AcquireLock(r) \/ GoOnWithoutLock(r) \/ DelayUnknown(r) \/ DelayOver(r)
    \/ DelayInterrupted(r) \/ Accepted(r) \/ ReleaseFails(r)
    \/ \E d \in Delays : EnforceDelay(r, d)

Next ==
    \/ \E r \in Requests : Arrive(r) \/ AcquireAnswerLost(r) \/ Crash(r) \/ Step(r)
    \/ \E c \in Cleaners : ScanLockKeys(c) \/ ForceReleaseLock(c)
    \/ TTLLost \/ Tick

Spec == Init /\ [][Next]_vars

\* Requests go on, the cleaners' tickers fire, and time passes.
Fairness ==
    /\ \A r \in Requests : WF_vars(Step(r))
    /\ \A c \in Cleaners : WF_vars(ScanLockKeys(c) \/ ForceReleaseLock(c))
    /\ WF_vars(Tick)

FairSpec == Spec /\ Fairness

-----------------------------------------------------------------------------
(* The inductive invariant. *)

\* Only who delays or is about to send knows its id, and a known id in the lock is
\* that of a request that will release it or is still trying.
LockInv ==
    \A r \in Requests : /\ holding[r] => pc[r] \in {"delay", "nap", "forward"}
                        /\ lock = r => holding[r] \/ pc[r] = "try"

\* A lock without a TTL that someone holds is known to have lost it.
BareInv ==
    /\ \A r \in Requests : lock = r /\ holding[r] /\ ttl = NoTTL => r \in bare
    /\ "ttl" \notin faults => bare = {}

HolderInv ==
    "slow" \notin faults => \A r \in Requests : holding[r] /\ r \notin bare => lock = r

\* The delay of who has the lock ends when the shortest one has passed since the
\* last message.
NapInv ==
    faults \cap {"slow", "ttl"} = {} =>
        \A r \in Requests : pc[r] = "nap" /\ holding[r] =>
            since = None \/ \E d \in Delays : since + nap[r] >= d

QueueInv == TypeOK /\ LockInv /\ BareInv /\ HolderInv /\ NapInv

-----------------------------------------------------------------------------
(* Properties. *)

\* A request that has the lock keeps it until it gives it back: the release of
\* another request, a call sent twice, a forgotten id or a cleaner whose scan is
\* old never take it (releaseLockScript, forceReleaseLockScript), unless the
\* request outlasts the TTL or Redis has lost it.
HolderKeepsLock ==
    "slow" \notin faults => \A r \in Requests \ bare : holding[r] => lock = r

\* So messages go one at a time: the lock is the holder of SingleHolder.
Holders == {r \in Requests : holding[r]}
Lock == INSTANCE SingleHolder WITH Processes <- Requests, holders <- Holders
OneAtATime == Lock!Init /\ [][faults \cap {"slow", "ttl"} = {} => Lock!Next]_Holders

\* A request with the lock that was told the time does not send its message
\* sooner than the shortest delay after the message before it, whoever sent that
\* (EnforceDelay, with the time of the release taken inside the script).
Paced ==
    [][faults \cap {"slow", "ttl"} = {} =>
         \A r \in Requests :
             pc[r] = "nap" /\ pc'[r] = "forward" /\ holding'[r] =>
                 since = None \/ \E d \in Delays : since >= d]_vars

\* A lock nobody will release comes free, through its TTL or a cleaner.
OrphansAreFreed == lock = Orphan ~> lock # Orphan

\* Every request goes on, with the lock or without it, or its process dies.
NobodyWaitsForever == \A r \in Requests : pc[r] = "try" ~> pc[r] \in {"forward", "idle"}
=============================================================================
