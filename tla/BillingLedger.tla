--------------------------- MODULE BillingLedger ---------------------------
(***************************************************************************)
(* What usage billing promises: a request is charged at most once, and its *)
(* charge to the balance, to the API key's quota and to the account's      *)
(* quota, with what crossing a quota brings about, is one step.            *)
(***************************************************************************)
EXTENDS Integers

CONSTANTS Ids, Costs, KeyQuota, AccountLimit

VARIABLES billed,       \* requests that were charged
          balance,      \* users.balance
          keyUsed,      \* api_keys.quota_used
          keyStatus,    \* api_keys.status
          accountUsed,  \* accounts.extra.quota_used
          events        \* account_changed events left for the scheduler, by anyone

Crosses(used, cost, limit) == used < limit /\ used + cost >= limit

\* A crossing leaves its event, unless there has been one in the last second.
Notified(crosses) ==
    IF crosses THEN events' = events + 1 \/ (events > 0 /\ events' = events)
    ELSE events' = events

Charge(id, cost) ==
    /\ id \notin billed
    /\ billed' = billed \cup {id}
    /\ balance' = balance - cost
    /\ keyUsed' = keyUsed + cost
    /\ keyStatus' = IF Crosses(keyUsed, cost, KeyQuota) THEN "quota_exhausted"
                    ELSE keyStatus
    /\ accountUsed' = accountUsed + cost
    /\ Notified(Crosses(accountUsed, cost, AccountLimit))

\* Money comes in: a recharge, a redeemed code, an administrator's change.
Credit ==
    /\ balance' > balance
    /\ UNCHANGED <<billed, keyUsed, keyStatus, accountUsed, events>>

Next == Credit \/ \E id \in Ids, cost \in Costs : Charge(id, cost)
=============================================================================
