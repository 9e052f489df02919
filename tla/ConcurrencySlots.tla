-------------------------- MODULE ConcurrencySlots --------------------------
(***************************************************************************)
(* The concurrency limit of one account or one user                        *)
(* (backend/internal/service/concurrency_service.go, repository/           *)
(* concurrency_cache.go, handler/gateway_helper.go).                       *)
(*                                                                         *)
(* Redis keeps a sorted set with one member per request that holds a slot, *)
(* scored with its time, and a counter of the requests that wait for one.  *)
(* Both are shared by all processes and changed by atomic scripts.  Slots  *)
(* that nobody gives back grow old and are swept.  Keys of different       *)
(* accounts and users are independent, so one is modelled.                 *)
(***************************************************************************)
EXTENDS Integers, FiniteSets

CONSTANTS
    Requests,   \* goroutines that handle requests
    Processes,
    Home,       \* the process of a goroutine
    Ids,        \* request ids; one that nobody uses any more stands for a new one
    NoId,
    Limit,      \* maxConcurrency, when it is positive
    MaxWait,    \* CalculateMaxWait, or MaxWaiting of the wait plan
    SlotTTL, WaitTTL,
    Faults      \* "count", "uncount", "release", "startup": these Redis calls
                \* fail; "crash": processes die

ASSUME SlotSetsAssumption ==
    /\ Home \in [Requests -> Processes] /\ NoId \notin Ids
    /\ IsFiniteSet(Requests) /\ IsFiniteSet(Ids)
ASSUME SlotNumbersAssumption ==
    /\ Limit \in Nat \ {0} /\ MaxWait \in Nat
    /\ SlotTTL \in Nat /\ WaitTTL \in Nat
ASSUME SlotFaultsAssumption ==
    Faults \subseteq {"count", "uncount", "release", "startup", "crash"}

VARIABLES
    slots,    \* the members of the sorted set
    age,      \* how long ago a member was added
    prefix,   \* the process whose prefix the id has, "old" for a dead one's
    wait,     \* the wait counter, 0 when its key is missing
    waitAge,  \* how long ago the counter's TTL was set
    up,       \* a process: down, cleanSlots, cleanWait (starting) or up
    pc,
    slot,     \* the request id a goroutine holds a slot with
    counted,  \* waitCounted: no, in, or failed: the script failed, and the
              \* request believes that it is counted
    queued    \* history: how long ago it was counted

redis == <<slots, age, prefix, wait, waitAge>>
sortedSet == <<slots, age, prefix>>
counter == <<wait, waitAge>>
queue == <<counted, queued>>
vars == <<redis, up, pc, slot, queue>>

PC == {"idle", "try", "count", "wait", "uncount", "hold"}

TypeOK ==
    /\ slots \subseteq Ids
    /\ age \in [Ids -> Nat]
    /\ prefix \in [Ids -> Processes \cup {"old"}]
    /\ wait \in Nat /\ waitAge \in Nat
    /\ up \in [Processes -> {"down", "cleanSlots", "cleanWait", "up"}]
    /\ pc \in [Requests -> PC]
    /\ slot \in [Requests -> Ids \cup {NoId}]
    /\ counted \in [Requests -> {"no", "in", "failed"}]
    /\ queued \in [Requests -> Nat]

Init ==
    /\ slots = {}
    /\ age = [i \in Ids |-> 0]
    /\ prefix = [i \in Ids |-> "old"]
    /\ wait = 0 /\ waitAge = 0
    /\ up = [p \in Processes |-> "down"]
    /\ pc = [r \in Requests |-> "idle"]
    /\ slot = [r \in Requests |-> NoId]
    /\ counted = [r \in Requests |-> "no"]
    /\ queued = [r \in Requests |-> 0]

Goto(r, p) == pc' = [pc EXCEPT ![r] = p]

-----------------------------------------------------------------------------
(* Slots. *)

\* Mutants: nothing grows old; members grow old a moment early.
LiveForever == slots
LiveTooShort == {i \in slots : age[i] + 1 < SlotTTL}

\* What ZREMRANGEBYSCORE -inf (now - ttl) leaves.
Live == {i \in slots : age[i] < SlotTTL}

\* An id nobody has: generateRequestID makes a new one for every attempt.
Fresh(i) == i \notin slots /\ \A r \in Requests : slot[r] # i

\* The members in S stay.
Keep(S) ==
    /\ slots' = S
    /\ age' = [i \in Ids |-> IF i \in S THEN age[i] ELSE 0]
    /\ prefix' = [i \in Ids |-> IF i \in S THEN prefix[i] ELSE "old"]

\* acquireScript sweeps and adds the member.
Add(r, i) ==
    /\ slots' = Live \cup {i}
    /\ age' = [j \in Ids |-> IF j \in Live THEN age[j] ELSE 0]
    /\ prefix' = [j \in Ids |-> IF j = i THEN Home[r]
                                ELSE IF j \in Live THEN prefix[j] ELSE "old"]

\* Mutant: the limit is compared after the member would have been added.
RoomForOneMore == Cardinality(Live) <= Limit

Room == Cardinality(Live) < Limit

\* The request got its slot; one that was queued still has to say so.
AcquireSlot(r) ==
    /\ pc[r] \in {"try", "wait"}
    /\ Room
    /\ \E i \in Ids :
          /\ Fresh(i)
          /\ Add(r, i)
          /\ slot' = [slot EXCEPT ![r] = i]
    /\ Goto(r, IF pc[r] = "try" THEN "hold" ELSE "uncount")
    /\ UNCHANGED <<counter, up, queue>>

\* The client disconnects, or Redis answers too late: the member is added and
\* the request does not know.
AcquireLost(r) ==
    /\ pc[r] \in {"try", "wait"}
    /\ Room
    /\ \E i \in Ids : Fresh(i) /\ Add(r, i)
    /\ Goto(r, IF pc[r] = "try" THEN "idle" ELSE "uncount")
    /\ UNCHANGED <<counter, up, slot, queue>>

\* No room.  A waiting request tries again after a pause; a first try is
\* followed by queueing, or by an error to a WebSocket client.
AcquireRefused(r) ==
    /\ pc[r] \in {"try", "wait"}
    /\ ~Room
    /\ Keep(Live)
    /\ \E p \in IF pc[r] = "try" THEN {"count", "idle"} ELSE {"wait"} : Goto(r, p)
    /\ UNCHANGED <<counter, up, slot, queue>>

\* waitForSlotWithPingTimeout: the time is up, the client is gone or Redis
\* fails.
GiveUp(r) ==
    /\ pc[r] \in {"try", "wait"}
    /\ Goto(r, IF pc[r] = "try" THEN "idle" ELSE "uncount")
    /\ UNCHANGED <<redis, up, slot, queue>>

\* ReleaseFunc, run once: by the handler or when its context is done.
ReleaseSlot(r) ==
    /\ pc[r] = "hold"
    /\ Keep(slots \ {slot[r]})
    /\ slot' = [slot EXCEPT ![r] = NoId]
    /\ Goto(r, "idle")
    /\ UNCHANGED <<counter, up, queue>>

ReleaseFails(r) ==
    /\ "release" \in Faults
    /\ pc[r] = "hold"
    /\ slot' = [slot EXCEPT ![r] = NoId]
    /\ Goto(r, "idle")
    /\ UNCHANGED <<redis, up, queue>>

\* CleanupExpiredAccountSlots of the background worker; the reading scripts
\* and the key's own EXPIRE have the same effect.
CleanupExpiredSlots ==
    /\ Live # slots
    /\ Keep(Live)
    /\ UNCHANGED <<counter, up, pc, slot, queue>>

-----------------------------------------------------------------------------
(* The wait queue. *)

\* The handlers of the Claude API count themselves first, those of the OpenAI
\* API and the account slots try first.
Begin(r) ==
    /\ pc[r] = "idle"
    /\ up[Home[r]] = "up"
    /\ \E p \in {"try", "count"} : Goto(r, p)
    /\ UNCHANGED <<redis, up, slot, queue>>

\* Whether the script ran.  The service reports a failing one as success: the
\* request will be counted out although it was not counted in.
Ran == IF "count" \in Faults THEN BOOLEAN ELSE {TRUE}

\* Mutant: the TTL is set when the counter is created and not renewed.
IncrementWaitCountKeepsTTL(r) ==
    /\ pc[r] = "count"
    /\ wait < MaxWait
    /\ wait' = wait + 1
    /\ waitAge' = IF wait = 0 THEN 0 ELSE waitAge
    /\ counted' = [counted EXCEPT ![r] = "in"]
    /\ queued' = [queued EXCEPT ![r] = 0]
    /\ Goto(r, "wait")
    /\ UNCHANGED <<sortedSet, up, slot>>

IncrementWaitCount(r) ==
    /\ pc[r] = "count"
    /\ \E ran \in Ran :
          /\ ran => wait < MaxWait
          /\ wait' = IF ran THEN wait + 1 ELSE wait
          /\ waitAge' = IF ran THEN 0 ELSE waitAge
          /\ counted' = [counted EXCEPT ![r] = IF ran THEN "in" ELSE "failed"]
    /\ queued' = [queued EXCEPT ![r] = 0]
    /\ Goto(r, "wait")
    /\ UNCHANGED <<sortedSet, up, slot>>

\* Too many pending requests.
IncrementRefused(r) ==
    /\ pc[r] = "count"
    /\ wait >= MaxWait
    /\ Goto(r, "idle")
    /\ UNCHANGED <<redis, up, slot, queue>>

AfterQueue(r) == IF slot[r] = NoId THEN "idle" ELSE "hold"

DecrementWaitCount(r) ==
    /\ pc[r] = "uncount"
    /\ wait' = IF wait > 0 THEN wait - 1 ELSE 0
    /\ counted' = [counted EXCEPT ![r] = "no"]
    /\ queued' = [queued EXCEPT ![r] = 0]
    /\ Goto(r, AfterQueue(r))
    /\ UNCHANGED <<sortedSet, waitAge, up, slot>>

DecrementFails(r) ==
    /\ "uncount" \in Faults
    /\ pc[r] = "uncount"
    /\ counted' = [counted EXCEPT ![r] = "no"]
    /\ queued' = [queued EXCEPT ![r] = 0]
    /\ Goto(r, AfterQueue(r))
    /\ UNCHANGED <<redis, up, slot>>

-----------------------------------------------------------------------------
(* Processes and time. *)

\* The slots and counts of a process that dies stay behind.
Crash(p) ==
    /\ "crash" \in Faults
    /\ up[p] # "down"
    /\ up' = [up EXCEPT ![p] = "down"]
    /\ prefix' = [i \in Ids |-> IF prefix[i] = p THEN "old" ELSE prefix[i]]
    /\ pc' = [r \in Requests |-> IF Home[r] = p THEN "idle" ELSE pc[r]]
    /\ slot' = [r \in Requests |-> IF Home[r] = p THEN NoId ELSE slot[r]]
    /\ counted' = [r \in Requests |-> IF Home[r] = p THEN "no" ELSE counted[r]]
    /\ queued' = [r \in Requests |-> IF Home[r] = p THEN 0 ELSE queued[r]]
    /\ UNCHANGED <<slots, age, counter>>

\* ProvideConcurrencyService, before the process takes requests.
Start(p) ==
    /\ up[p] = "down"
    /\ up' = [up EXCEPT ![p] = "cleanSlots"]
    /\ UNCHANGED <<redis, pc, slot, queue>>

\* CleanupStaleProcessSlots: members without the process's own prefix go, then
\* the wait counter.
CleanSlots(p) ==
    /\ up[p] = "cleanSlots"
    /\ Keep({i \in slots : prefix[i] = p})
    /\ up' = [up EXCEPT ![p] = "cleanWait"]
    /\ UNCHANGED <<counter, pc, slot, queue>>

CleanWait(p) ==
    /\ up[p] = "cleanWait"
    /\ wait' = 0
    /\ up' = [up EXCEPT ![p] = "up"]
    /\ UNCHANGED <<sortedSet, waitAge, pc, slot, queue>>

\* A failing clean-up is logged and the process starts all the same.
CleanFails(p) ==
    /\ "startup" \in Faults
    /\ up[p] \in {"cleanSlots", "cleanWait"}
    /\ up' = [up EXCEPT ![p] = "up"]
    /\ UNCHANGED <<redis, pc, slot, queue>>

\* Ages stop at the TTL that makes them matter; the counter's key expires.
\* Nothing bounds how long a slot is held (a stream runs as long as its client
\* stays) or a request is queued.
Tick ==
    /\ age' = [i \in Ids |-> IF i \in slots /\ age[i] < SlotTTL THEN age[i] + 1 ELSE age[i]]
    /\ queued' = [r \in Requests |->
          IF counted[r] # "no" /\ queued[r] < WaitTTL THEN queued[r] + 1 ELSE queued[r]]
    /\ wait' = IF waitAge + 1 >= WaitTTL THEN 0 ELSE wait
    /\ waitAge' = IF wait = 0 \/ waitAge + 1 >= WaitTTL THEN 0 ELSE waitAge + 1
    /\ UNCHANGED <<slots, prefix, up, pc, slot, counted>>

-----------------------------------------------------------------------------
Step(r) ==
    \/ AcquireSlot(r) \/ AcquireLost(r) \/ AcquireRefused(r) \/ GiveUp(r)
    \/ IncrementWaitCount(r) \/ IncrementRefused(r)
    \/ DecrementWaitCount(r) \/ DecrementFails(r)
    \/ ReleaseSlot(r) \/ ReleaseFails(r)

Startup(p) == CleanSlots(p) \/ CleanWait(p) \/ CleanFails(p)

Next ==
    \/ \E r \in Requests : Begin(r) \/ Step(r)
    \/ \E p \in Processes : Crash(p) \/ Start(p) \/ Startup(p)
    \/ CleanupExpiredSlots
    \/ Tick

Spec == Init /\ [][Next]_vars

\* Time passes, the background worker sweeps, a queued request ends its wait
\* (waitForSlotWithPingTimeout has a deadline) and a request ends.
Fairness ==
    /\ WF_vars(Tick)
    /\ WF_vars(CleanupExpiredSlots)
    /\ \A r \in Requests :
          /\ WF_vars(GiveUp(r) \/ AcquireSlot(r))
          /\ WF_vars(DecrementWaitCount(r) \/ DecrementFails(r))
          /\ WF_vars(ReleaseSlot(r) \/ ReleaseFails(r))

FairSpec == Spec /\ Fairness

-----------------------------------------------------------------------------
(* Properties. *)

\* The requests whose slot the sorted set has, and the queued requests that the
\* counter was incremented for.
Holding == {r \in Requests : slot[r] \in slots}
Queued == {r \in Requests : counted[r] = "in"}

\* A request that goes on holding its slot stays in the sorted set, across
\* sweeps, the releases of others and clean-ups of its own process, until the
\* slot is SlotTTL old (nothing renews its score) or another instance starts
\* beside its own (whose clean-up takes every prefix but its own for a dead
\* process's).
HeldIsCounted ==
    [][ \A r \in Holding :
           slot'[r] = slot[r] /\ slot[r] \notin slots' =>
              \/ age[slot[r]] >= SlotTTL
              \/ \E p \in Processes \ {Home[r]} : up[p] = "cleanSlots" ]_vars

\* The limit is kept by all instances together: acquireScript admits a request
\* only if fewer than maxConcurrency are in the sorted set, whatever was lost,
\* swept or cleaned up before.
Limited == INSTANCE Semaphore WITH Clients <- Requests, inside <- Holding
SemaphoreSpec == Limited!Spec

\* The steps in which the counter may fall behind the queue: all that are queued
\* have been for WaitTTL, another instance than theirs starts (its clean-up
\* deletes the counter), or a request whose count failed is counted out.
Uncounted ==
    \/ \A r \in Queued' : queued'[r] >= WaitTTL
    \/ \E p \in Processes :
          up[p] = "cleanWait" /\ up'[p] = "up" /\ \A r \in Queued : Home[r] # p
    \/ \E r \in Requests : counted[r] = "failed" /\ counted'[r] = "no"

\* The counter does not exceed maxWait, and it falls behind the queue in those
\* steps only (incrementWaitScript refreshes the TTL "to keep queue depth
\* accurate").
WaitersCounted ==
    [][ /\ wait' <= MaxWait
        /\ Cardinality(Queued) <= wait /\ Cardinality(Queued') > wait' => Uncounted ]_vars

\* A slot that nobody holds any more, because an answer or a release was lost
\* or a process died, comes back.
LeakedSlotReturns ==
    \A i \in Ids :
        (i \in slots /\ \A r \in Requests : slot[r] # i)
            ~> (i \notin slots \/ \E r \in Requests : slot[r] = i)
-----------------------------------------------------------------------------
(* The inductive invariant behind the safety properties. *)

ControlInv ==
    \A r \in Requests :
        /\ slot[r] # NoId => pc[r] \in {"uncount", "hold"}
        /\ counted[r] # "no" <=> pc[r] \in {"wait", "uncount"}
        /\ up[Home[r]] # "up" => pc[r] = "idle"

\* A slot is held under an id of its own.
HeldInv == \A r, q \in Requests : slot[r] # NoId /\ slot[r] = slot[q] => r = q

\* The counter's TTL was last set after every queued request was counted.
QueueInv ==
    /\ wait <= MaxWait
    /\ waitAge = 0 \/ waitAge < WaitTTL
    /\ \A r \in Queued : waitAge <= queued[r]

SlotsInv == TypeOK /\ ControlInv /\ HeldInv /\ QueueInv
=============================================================================
