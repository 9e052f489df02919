---------------------------- MODULE OAuthRefresh ----------------------------
(***************************************************************************)
(* Refreshing the OAuth tokens of one upstream account                     *)
(* (backend/internal/service/oauth_refresh_api.go, token_refresh_service.go*)
(* and the token providers) of Claude or OpenAI.                           *)
(*                                                                         *)
(* Every refresh token can be used once: the provider answers with the     *)
(* next pair of tokens and refuses the old one from then on.  Pairs are    *)
(* numbered by generation.  Workers are the background loop of an instance *)
(* and the requests that find no cached access token; they serialise their *)
(* refreshes with a mutex per instance and a Redis lock without an owner.  *)
(* A request whose access token the upstream refuses stores the copy of    *)
(* the account it carries, without the lock.                               *)
(*                                                                         *)
(* Google's refresh tokens do not rotate and the keys of its locks follow  *)
(* the project_id: Gemini and Antigravity accounts are not modelled, nor   *)
(* are the writes of an administrator, who refreshes, imports or           *)
(* authorises an account by hand.                                          *)
(*                                                                         *)
(* The mark that keeps an account out of scheduling for ten minutes and    *)
(* the privacy setting are written after a refresh but never read by one;  *)
(* they are left out.                                                      *)
(***************************************************************************)
EXTENDS Integers

CONSTANTS
    Instances,    \* server processes
    Background,   \* refreshLoop of the instances
    Requests,     \* requests that ask a token provider for an access token
    NoWorker,
    InstanceOf,   \* the instance of a worker
    None,         \* no token in the cache
    MaxGen,       \* bound on the generations of tokens
    MaxMishaps,   \* bound on crashes, failing SETNX and 401 answers
    FaultModels   \* which sets of things may fail in one behaviour

Workers == Background \cup Requests

ASSUME RefreshWorkersAssumption ==
    /\ NoWorker \notin Workers
    /\ InstanceOf \in [Workers -> Instances]
    /\ Background \cap Requests = {}

ASSUME RefreshBoundsAssumption ==
    /\ MaxGen \in Nat /\ MaxMishaps \in Nat
    /\ None \notin Nat

\* reread: the read of the account under the lock; recover: the read after
\* invalid_grant; write: the UPDATE of the credentials, or the request that
\* refreshes is cancelled; net: the provider's answer is an error or is lost;
\* reused: it may refuse a used token with refresh_token_reused (OpenAI);
\* redis: SETNX fails; cache: the look for a cached token fails; slow: a call
\* outlasts the lock's TTL; unauthorized: the upstream answers requests with 401.
ASSUME RefreshFaultsAssumption ==
    FaultModels \subseteq SUBSET {"reread", "recover", "write", "net", "reused", "redis", "cache",
                                  "slow", "unauthorized", "crash"}

VARIABLES
    faults,    \* what may fail: chosen once
    cred,      \* accounts.credentials
    stored,    \* the newest generation accounts.credentials ever had
    live,      \* the generation whose refresh token the provider accepts
    due,       \* generations up to this one are in the refresh window
    status,    \* accounts.status
    cache,     \* the cached access token
    lock,      \* who set the refresh lock
    locked,    \* lockAcquired
    mutex,     \* localLocks
    pc,
    acc,       \* the copy of the account a worker carries
    fresh,     \* freshAccount, then the account of the result
    got,       \* newCredentials
    res,       \* what RefreshIfNeeded will report
    replayed,  \* a refresh token was presented after its use
    mishaps    \* crashes, failing SETNX and 401 answers so far

tokens == <<cred, stored, live, status>>
locks == <<lock, locked, mutex>>
call == <<pc, acc, fresh, got, res>>
vars == <<faults, tokens, due, cache, locks, call, replayed, mishaps>>

Generation == 0..MaxGen

\* The part of RefreshIfNeeded between the lock and its release.
Critical == {"read", "refresh", "recover", "persist", "release"}
PC == Critical \cup {"idle", "mutex", "lock", "report", "check", "fill", "setError", "clear"}

Result == {"refreshed", "already", "error", "grant", "held"}

TypeOK ==
    /\ faults \in FaultModels
    /\ cred \in Generation /\ stored \in Generation /\ live \in Generation /\ due \in -1..MaxGen
    /\ status \in {"active", "error"}
    /\ cache \in Generation \cup {None}
    /\ lock \in Workers \cup {NoWorker}
    /\ locked \in [Workers -> BOOLEAN]
    /\ mutex \in [Instances -> Workers \cup {NoWorker}]
    /\ pc \in [Workers -> PC]
    /\ acc \in [Workers -> Generation]
    /\ fresh \in [Workers -> Generation]
    /\ got \in [Workers -> Generation]
    /\ res \in [Workers -> Result]
    /\ replayed \in BOOLEAN
    /\ mishaps \in 0..MaxMishaps

Init ==
    /\ faults \in FaultModels
    /\ cred = 0 /\ stored = 0 /\ live = 0 /\ due = -1
    /\ status = "active"
    /\ cache = None
    /\ lock = NoWorker
    /\ locked = [w \in Workers |-> FALSE]
    /\ mutex = [i \in Instances |-> NoWorker]
    /\ pc = [w \in Workers |-> "idle"]
    /\ acc = [w \in Workers |-> 0]
    /\ fresh = [w \in Workers |-> 0]
    /\ got = [w \in Workers |-> 0]
    /\ res = [w \in Workers |-> "held"]
    /\ replayed = FALSE
    /\ mishaps = 0

-----------------------------------------------------------------------------
Goto(w, p) == pc' = [pc EXCEPT ![w] = p]

\* The call is over and its locals are gone.
End(w) ==
    /\ Goto(w, "idle")
    /\ acc' = [acc EXCEPT ![w] = 0]
    /\ fresh' = [fresh EXCEPT ![w] = 0]
    /\ res' = [res EXCEPT ![w] = "held"]

\* NeedsRefresh: the background loop and the providers differ only in how long
\* before the expiry they ask.
NeedsRefresh(g) == g <= due

\* RefreshIfNeeded ends with the given result.
Return(w, r) ==
    /\ Goto(w, "release")
    /\ res' = [res EXCEPT ![w] = r]

\* The newest access token comes near its expiry.
Age ==
    /\ live < MaxGen
    /\ due < live
    /\ due' = live
    /\ UNCHANGED <<faults, tokens, cache, locks, call, replayed, mishaps>>

-----------------------------------------------------------------------------
(* Callers of RefreshIfNeeded. *)

\* processRefresh: ListActive returns a copy of the account, which may be
\* refreshed by someone else before its turn comes.
ProcessRefresh(w) ==
    /\ w \in Background
    /\ pc[w] = "idle"
    /\ status = "active"
    /\ NeedsRefresh(cred)
    /\ acc' = [acc EXCEPT ![w] = cred]
    /\ Goto(w, "mutex")
    /\ UNCHANGED <<faults, tokens, due, cache, locks, fresh, got, res, replayed, mishaps>>

\* GetAccessToken after a cache miss or a failing look into the cache, with the
\* account of the scheduler's snapshot.
GetAccessToken(w) ==
    /\ w \in Requests
    /\ pc[w] = "idle"
    /\ cache = None \/ "cache" \in faults
    /\ \E g \in 0..stored :
          /\ acc' = [acc EXCEPT ![w] = g]
          /\ Goto(w, IF NeedsRefresh(g) THEN "mutex" ELSE "check")
    /\ UNCHANGED <<faults, tokens, due, cache, locks, fresh, got, res, replayed, mishaps>>

-----------------------------------------------------------------------------
(* RefreshIfNeeded. *)

LockMutex(w) ==
    /\ pc[w] = "mutex"
    /\ mutex[InstanceOf[w]] = NoWorker
    /\ mutex' = [mutex EXCEPT ![InstanceOf[w]] = w]
    /\ Goto(w, "lock")
    /\ UNCHANGED <<faults, tokens, due, cache, lock, locked, acc, fresh, got, res, replayed, mishaps>>

\* Mutant: SET instead of SETNX.
AcquireRefreshLockAlways(w) ==
    /\ pc[w] = "lock"
    /\ lock' = w
    /\ locked' = [locked EXCEPT ![w] = TRUE]
    /\ Goto(w, "read")
    /\ UNCHANGED <<faults, tokens, due, cache, mutex, acc, fresh, got, res, replayed, mishaps>>

AcquireRefreshLock(w) ==
    /\ pc[w] = "lock"
    /\ lock = NoWorker
    /\ lock' = w
    /\ locked' = [locked EXCEPT ![w] = TRUE]
    /\ Goto(w, "read")
    /\ UNCHANGED <<faults, tokens, due, cache, mutex, acc, fresh, got, res, replayed, mishaps>>

\* LockHeld: nothing to release but the mutex.
LockHeld(w) ==
    /\ pc[w] = "lock"
    /\ lock # NoWorker
    /\ mutex' = [mutex EXCEPT ![InstanceOf[w]] = NoWorker]
    /\ Goto(w, "report")
    /\ res' = [res EXCEPT ![w] = "held"]
    /\ UNCHANGED <<faults, tokens, due, cache, lock, locked, acc, fresh, got, replayed, mishaps>>

\* Redis is down: the refresh goes on without the lock.
LockDegraded(w) ==
    /\ "redis" \in faults
    /\ mishaps < MaxMishaps
    /\ pc[w] = "lock"
    /\ Goto(w, "read")
    /\ mishaps' = mishaps + 1
    /\ UNCHANGED <<faults, tokens, due, cache, locks, acc, fresh, got, res, replayed>>

\* Mutant: the caller's copy of the account is refreshed.
KeepAccount(w) ==
    /\ pc[w] = "read"
    /\ fresh' = [fresh EXCEPT ![w] = acc[w]]
    /\ Goto(w, "refresh")
    /\ UNCHANGED <<faults, tokens, due, cache, locks, acc, got, res, replayed, mishaps>>

\* GetByID under the lock, and the second NeedsRefresh.
Reread(w) ==
    /\ pc[w] = "read"
    /\ fresh' = [fresh EXCEPT ![w] = cred]
    /\ Goto(w, IF NeedsRefresh(cred) THEN "refresh" ELSE "release")
    /\ res' = [res EXCEPT ![w] = "already"]
    /\ UNCHANGED <<faults, tokens, due, cache, locks, acc, got, replayed, mishaps>>

\* The read fails: the caller's copy is used.
RereadFails(w) ==
    /\ "reread" \in faults
    /\ pc[w] = "read"
    /\ fresh' = [fresh EXCEPT ![w] = acc[w]]
    /\ Goto(w, IF NeedsRefresh(acc[w]) THEN "refresh" ELSE "release")
    /\ res' = [res EXCEPT ![w] = "already"]
    /\ UNCHANGED <<faults, tokens, due, cache, locks, acc, got, replayed, mishaps>>

\* executor.Refresh: the provider exchanges a live refresh token; its answer
\* arrives with the next step, or is lost.
Refresh(w) ==
    /\ pc[w] = "refresh"
    /\ fresh[w] = live
    /\ live < MaxGen
    /\ live' = live + 1
    /\ got' = [got EXCEPT ![w] = live + 1]
    /\ Goto(w, "persist")
    /\ UNCHANGED <<faults, cred, stored, status, due, cache, locks, acc, fresh, res, replayed, mishaps>>

RefreshAnswerLost(w) ==
    /\ "net" \in faults
    /\ pc[w] = "refresh"
    /\ fresh[w] = live
    /\ live < MaxGen
    /\ live' = live + 1
    /\ Return(w, "error")
    /\ UNCHANGED <<faults, cred, stored, status, due, cache, locks, acc, fresh, got, replayed, mishaps>>

\* The provider cannot be reached or answers with an error of its own.
RefreshFails(w) ==
    /\ "net" \in faults
    /\ pc[w] = "refresh"
    /\ Return(w, "error")
    /\ UNCHANGED <<faults, tokens, due, cache, locks, acc, fresh, got, replayed, mishaps>>

\* A used token is refused with invalid_grant: perhaps someone else was faster.
InvalidGrant(w) ==
    /\ pc[w] = "refresh"
    /\ fresh[w] # live
    /\ replayed' = TRUE
    /\ Goto(w, "recover")
    /\ UNCHANGED <<faults, tokens, due, cache, locks, acc, fresh, got, res, mishaps>>

\* OpenAI's refresh_token_reused is not an invalid_grant to isInvalidGrantError:
\* there is no recovery, and the caller takes it for final.
RefreshTokenReused(w) ==
    /\ "reused" \in faults
    /\ pc[w] = "refresh"
    /\ fresh[w] # live
    /\ replayed' = TRUE
    /\ Return(w, "grant")
    /\ UNCHANGED <<faults, tokens, due, cache, locks, acc, fresh, got, mishaps>>

\* Mutant: invalid_grant is believed at once.
NeverRecover(w) ==
    /\ pc[w] = "recover"
    /\ Return(w, "grant")
    /\ UNCHANGED <<faults, tokens, due, cache, locks, acc, fresh, got, replayed, mishaps>>

\* Mutant: the recovery stores the account it has used.
RecoverWritesBack(w) ==
    /\ pc[w] = "recover"
    /\ cred' = fresh[w]
    /\ Return(w, "already")
    /\ UNCHANGED <<faults, stored, live, status, due, cache, locks, acc, fresh, got, replayed, mishaps>>

\* tryRecoverFromRefreshRace: another refresh token in the database means
\* that someone else has refreshed.
RecoverFromRefreshRace(w) ==
    /\ pc[w] = "recover"
    /\ Return(w, IF cred # fresh[w] THEN "already" ELSE "grant")
    /\ fresh' = [fresh EXCEPT ![w] = cred]
    /\ UNCHANGED <<faults, tokens, due, cache, locks, acc, got, replayed, mishaps>>

RecoverFails(w) ==
    /\ "recover" \in faults
    /\ pc[w] = "recover"
    /\ Return(w, "grant")
    /\ UNCHANGED <<faults, tokens, due, cache, locks, acc, fresh, got, replayed, mishaps>>

\* persistAccountCredentials: an unconditional UPDATE.
Persist(w) ==
    /\ pc[w] = "persist"
    /\ cred' = got[w]
    /\ stored' = got[w]
    /\ fresh' = [fresh EXCEPT ![w] = got[w]]
    /\ got' = [got EXCEPT ![w] = 0]
    /\ Return(w, "refreshed")
    /\ UNCHANGED <<faults, live, status, due, cache, locks, acc, replayed, mishaps>>

PersistFails(w) ==
    /\ "write" \in faults
    /\ pc[w] = "persist"
    /\ got' = [got EXCEPT ![w] = 0]
    /\ Return(w, "error")
    /\ UNCHANGED <<faults, tokens, due, cache, locks, acc, fresh, replayed, mishaps>>

\* The deferred calls: DEL of the lock, whoever has it by now, then the mutex.
Release(w) ==
    /\ pc[w] = "release"
    /\ lock' = IF locked[w] THEN NoWorker ELSE lock
    /\ locked' = [locked EXCEPT ![w] = FALSE]
    /\ mutex' = [mutex EXCEPT ![InstanceOf[w]] = NoWorker]
    /\ Goto(w, "report")
    /\ UNCHANGED <<faults, tokens, due, cache, acc, fresh, got, res, replayed, mishaps>>

\* DEL fails, or the context is cancelled: the lock stays until its TTL.
ReleaseFails(w) ==
    /\ faults \cap {"redis", "write"} # {}
    /\ pc[w] = "release"
    /\ locked' = [locked EXCEPT ![w] = FALSE]
    /\ mutex' = [mutex EXCEPT ![InstanceOf[w]] = NoWorker]
    /\ Goto(w, "report")
    /\ UNCHANGED <<faults, tokens, due, cache, lock, acc, fresh, got, res, replayed, mishaps>>

\* Mutant: a lock without a TTL.
LockNeverExpires ==
    /\ "slow" \in faults /\ lock # NoWorker
    /\ lock' = NoWorker
    /\ UNCHANGED <<faults, tokens, due, cache, locked, mutex, call, replayed, mishaps>>

\* The TTL ends.  Unless a call takes too long its owner is gone by then.
LockExpires ==
    /\ lock # NoWorker
    /\ "slow" \in faults \/ ~locked[lock]
    /\ lock' = NoWorker
    /\ UNCHANGED <<faults, tokens, due, cache, locked, mutex, call, replayed, mishaps>>

-----------------------------------------------------------------------------
(* What the callers do with the result. *)

\* refreshWithRetry: someone else refreshes or has refreshed.
BackgroundSkips(w) ==
    /\ w \in Background
    /\ pc[w] = "report"
    /\ res[w] \in {"already", "held"}
    /\ End(w)
    /\ UNCHANGED <<faults, tokens, due, cache, locks, got, replayed, mishaps>>

\* The next attempt starts from the caller's copy of the account again.
BackgroundRetries(w) ==
    /\ w \in Background
    /\ pc[w] = "report"
    /\ res[w] = "error"
    /\ fresh' = [fresh EXCEPT ![w] = 0]
    /\ Goto(w, "mutex")
    /\ res' = [res EXCEPT ![w] = "held"]
    /\ UNCHANGED <<faults, tokens, due, cache, locks, acc, got, replayed, mishaps>>

\* MaxRetries attempts have failed; the next round starts over.
BackgroundExhausted(w) ==
    /\ w \in Background
    /\ pc[w] = "report"
    /\ res[w] = "error"
    /\ End(w)
    /\ UNCHANGED <<faults, tokens, due, cache, locks, got, replayed, mishaps>>

BackgroundGivesUp(w) ==
    /\ w \in Background
    /\ pc[w] = "report"
    /\ res[w] = "grant"
    /\ Goto(w, "setError")
    /\ acc' = [acc EXCEPT ![w] = 0]
    /\ fresh' = [fresh EXCEPT ![w] = 0]
    /\ res' = [res EXCEPT ![w] = "held"]
    /\ UNCHANGED <<faults, tokens, due, cache, locks, got, replayed, mishaps>>

\* SetError: the account is out of service until someone authorises it anew.
SetError(w) ==
    /\ pc[w] = "setError"
    /\ status' = "error"
    /\ End(w)
    /\ UNCHANGED <<faults, cred, stored, live, due, cache, locks, got, replayed, mishaps>>

SetErrorFails(w) ==
    /\ "write" \in faults
    /\ pc[w] = "setError"
    /\ End(w)
    /\ UNCHANGED <<faults, tokens, due, cache, locks, got, replayed, mishaps>>

BackgroundRefreshed(w) ==
    /\ w \in Background
    /\ pc[w] = "report"
    /\ res[w] = "refreshed"
    /\ Goto(w, "clear")
    /\ acc' = [acc EXCEPT ![w] = 0]
    /\ fresh' = [fresh EXCEPT ![w] = 0]
    /\ res' = [res EXCEPT ![w] = "held"]
    /\ UNCHANGED <<faults, tokens, due, cache, locks, got, replayed, mishaps>>

\* postRefreshActions: InvalidateToken.
InvalidateToken(w) ==
    /\ pc[w] = "clear"
    /\ cache' = None
    /\ End(w)
    /\ UNCHANGED <<faults, tokens, due, locks, got, replayed, mishaps>>

\* GetAccessToken goes on with the account of the result, or with the caller's
\* copy when the refresh failed or someone else has the lock (the policies of
\* Claude and OpenAI); a cache hit after the wait for the lock ends the call.
RequestGoesOn(w) ==
    /\ w \in Requests
    /\ pc[w] = "report"
    /\ acc' = [acc EXCEPT ![w] = IF res[w] \in {"refreshed", "already"} THEN fresh[w] ELSE acc[w]]
    /\ fresh' = [fresh EXCEPT ![w] = 0]
    /\ Goto(w, "check")
    /\ res' = [res EXCEPT ![w] = "held"]
    /\ UNCHANGED <<faults, tokens, due, cache, locks, got, replayed, mishaps>>

RequestEnds(w) ==
    /\ w \in Requests
    /\ pc[w] = "report"
    /\ res[w] = "held" /\ cache # None
    /\ End(w)
    /\ UNCHANGED <<faults, tokens, due, cache, locks, got, replayed, mishaps>>

\* CheckTokenVersion: an account older than the database's is not cached.
TokenIsStale(w) ==
    /\ pc[w] = "check"
    /\ cred > acc[w]
    /\ End(w)
    /\ UNCHANGED <<faults, tokens, due, cache, locks, got, replayed, mishaps>>

TokenIsLatest(w) ==
    /\ pc[w] = "check"
    /\ cred <= acc[w]
    /\ Goto(w, "fill")
    /\ UNCHANGED <<faults, tokens, due, cache, locks, acc, fresh, got, res, replayed, mishaps>>

\* The read fails: caching is allowed.
CheckFails(w) ==
    /\ "reread" \in faults
    /\ pc[w] = "check"
    /\ Goto(w, "fill")
    /\ UNCHANGED <<faults, tokens, due, cache, locks, acc, fresh, got, res, replayed, mishaps>>

SetAccessToken(w) ==
    /\ pc[w] = "fill"
    /\ cache' = acc[w]
    /\ End(w)
    /\ UNCHANGED <<faults, tokens, due, locks, got, replayed, mishaps>>

\* HandleUpstreamError, 401: the request stores its copy of the account, of
\* whatever age, with an expiry of now (other copies of that generation count as
\* expired too); before that it tries to delete the cached token.
Unauthorized(w) ==
    /\ "unauthorized" \in faults
    /\ w \in Requests
    /\ mishaps < MaxMishaps
    /\ pc[w] = "idle"
    /\ \E g \in 0..stored :
          /\ cred' = g
          /\ due' = IF g > due THEN g ELSE due
    /\ cache' \in {None, cache}
    /\ mishaps' = mishaps + 1
    /\ UNCHANGED <<faults, stored, live, status, locks, call, replayed>>

\* The TTL of the cached token, at the latest at the token's own expiry.
CacheExpires ==
    /\ cache # None
    /\ cache' = None
    /\ UNCHANGED <<faults, tokens, due, locks, call, replayed, mishaps>>

\* An instance dies with all its workers; the lock in Redis stays.
Crash(i) ==
    /\ "crash" \in faults
    /\ mishaps < MaxMishaps
    /\ \E w \in Workers : InstanceOf[w] = i /\ pc[w] # "idle"
    /\ pc' = [w \in Workers |-> IF InstanceOf[w] = i THEN "idle" ELSE pc[w]]
    /\ locked' = [w \in Workers |-> locked[w] /\ InstanceOf[w] # i]
    /\ mutex' = [mutex EXCEPT ![i] = NoWorker]
    /\ mishaps' = mishaps + 1
    /\ acc' = [w \in Workers |-> IF InstanceOf[w] = i THEN 0 ELSE acc[w]]
    /\ fresh' = [w \in Workers |-> IF InstanceOf[w] = i THEN 0 ELSE fresh[w]]
    /\ got' = [w \in Workers |-> IF InstanceOf[w] = i THEN 0 ELSE got[w]]
    /\ res' = [w \in Workers |-> IF InstanceOf[w] = i THEN "held" ELSE res[w]]
    /\ UNCHANGED <<faults, tokens, due, cache, lock, replayed>>

-----------------------------------------------------------------------------
Step(w) ==
    \/ LockMutex(w) \/ AcquireRefreshLock(w) \/ LockHeld(w) \/ Reread(w)
    \/ Refresh(w) \/ InvalidGrant(w) \/ RefreshTokenReused(w)
    \/ RecoverFromRefreshRace(w) \/ Persist(w)
    \/ Release(w) \/ BackgroundSkips(w) \/ BackgroundRetries(w)
    \/ BackgroundExhausted(w)
    \/ BackgroundGivesUp(w) \/ SetError(w) \/ BackgroundRefreshed(w)
    \/ InvalidateToken(w) \/ RequestGoesOn(w) \/ RequestEnds(w)
    \/ TokenIsStale(w) \/ TokenIsLatest(w) \/ SetAccessToken(w)

Fault(w) ==
    \/ LockDegraded(w) \/ RereadFails(w) \/ RefreshAnswerLost(w) \/ RefreshFails(w)
    \/ RecoverFails(w) \/ PersistFails(w) \/ ReleaseFails(w) \/ SetErrorFails(w)
    \/ CheckFails(w) \/ Unauthorized(w)

Next ==
    \/ \E w \in Workers : ProcessRefresh(w) \/ GetAccessToken(w) \/ Step(w) \/ Fault(w)
    \/ \E i \in Instances : Crash(i)
    \/ Age \/ LockExpires \/ CacheExpires

Spec == Init /\ [][Next]_vars

\* Every goroutine goes on, the ticker of the background loop fires and the
\* TTLs end.  A goroutine waiting for the mutex gets it sooner or later, since
\* Go's mutex does not starve.
Fairness ==
    /\ \A w \in Workers :
          /\ SF_vars(LockMutex(w))
          /\ WF_vars(Step(w))
          /\ WF_vars(ProcessRefresh(w))
    /\ WF_vars(LockExpires)

FairSpec == Spec /\ Fairness

-----------------------------------------------------------------------------
(* Properties. *)

\* The faults under which two refreshes of the account may overlap.
Overlap == {"redis", "slow"}

\* A worker may take a working pair for dead: when refreshes overlap, when the
\* recovery cannot read, when the token refused with refresh_token_reused came
\* from an old copy, and when a request has stored an old copy.
MayMisjudge ==
    \/ faults \cap (Overlap \cup {"recover", "unauthorized"}) # {}
    \/ {"reread", "reused"} \subseteq faults

\* A worker may present a used token although its successor is stored.
MayReplay == faults \cap (Overlap \cup {"reread", "unauthorized"}) # {}

\* An account is put out of service only when its refresh token is of no use
\* (isNonRetryableRefreshError: the user has to authorise anew), although the
\* loser of a race sees the same invalid_grant as the owner of a dead token.
ErrorMeansDead == ~MayMisjudge /\ status = "error" => cred # live

\* What the race recovery is for: an account that another worker has refreshed
\* in time is not reported (tryRecoverFromRefreshRace).  A call that outlasts
\* the lock breaks it: the loser looks before the winner has stored its pair.
RefreshRaceIsNoError == status = "error" => cred # live

\* A used refresh token is presented again only when its successor was lost:
\* refreshes by the loops and requests of several instances, each starting
\* from a copy of the account, never use a token twice (RefreshIfNeeded:
\* "prevents using an outdated refresh_token").
NoNeedlessReplay == ~MayReplay /\ replayed => cred # live

\* A refresh never replaces the stored pair by an older one, whatever fails and
\* however many refreshes overlap, though its UPDATE is unconditional.  Only the
\* 401 handler of a request takes the pair back, to the copy it carries.
CredentialsAdvance == [][cred' < cred => \E w \in Requests : Unauthorized(w)]_cred

\* As long as only whole instances fail, an account whose token comes near its
\* expiry is refreshed or reported, also when the holder of the lock dies.
DueIsRefreshed ==
    (faults \subseteq {"crash", "reused"} /\ NeedsRefresh(cred)) ~> (~NeedsRefresh(cred) \/ status = "error")

-----------------------------------------------------------------------------
(* The inductive invariant. *)

\* No pair was stored that the provider has not issued, and nobody carries one
\* that was not stored; a pair not yet stored is the newest and belongs to one
\* worker.
OrderInv ==
    /\ cred <= stored /\ stored <= live
    /\ \A w \in Workers : acc[w] <= stored /\ fresh[w] <= stored
    /\ \A w \in Workers : pc[w] = "persist" => got[w] = live /\ stored < live
    /\ \A v, w \in Workers : pc[v] = "persist" /\ pc[w] = "persist" => v = w

\* Refreshes exclude each other as long as Redis answers in time.
ExclusionInv ==
    \A w \in Workers :
        /\ locked[w] <=> pc[w] \in Critical
        /\ locked[w] => lock = w

\* The stored pair is of no use, and nobody is about to store a better one.
Dead == cred # live /\ \A w \in Workers : pc[w] # "persist"

\* Nothing but a refresh writes the credentials.
LatestInv == cred = stored

ErrorInv ==
    /\ status = "error" => Dead
    /\ \A w \in Workers :
          /\ pc[w] = "recover" => fresh[w] # live
          /\ pc[w] = "setError" \/ (pc[w] \in {"release", "report"} /\ res[w] = "grant") => Dead

ReplayInv ==
    /\ replayed => Dead
    /\ \A w \in Workers : pc[w] = "refresh" => fresh[w] = cred

RefreshInv ==
    /\ TypeOK /\ OrderInv
    /\ "unauthorized" \notin faults => LatestInv
    /\ faults \cap Overlap = {} => ExclusionInv
    /\ ~MayMisjudge => ErrorInv
    /\ ~MayReplay => ReplayInv
=============================================================================
