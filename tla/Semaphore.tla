----------------------------- MODULE Semaphore -----------------------------
(***************************************************************************)
(* What a concurrency limit promises: at most Limit clients are inside,    *)
(* each enters only while there is room, after some may have been put out  *)
(* in the same step, and leaves (several at once when their process dies). *)
(***************************************************************************)
EXTENDS Naturals, FiniteSets

CONSTANTS Clients, Limit

VARIABLE inside

Init == inside = {}

Enter(c, S) ==
    /\ c \notin inside
    /\ Cardinality(inside \ S) < Limit
    /\ inside' = (inside \ S) \cup {c}

Leave(S) == S # {} /\ inside' = inside \ S

Next == \E S \in SUBSET inside : (\E c \in Clients : Enter(c, S)) \/ Leave(S)

Spec == Init /\ [][Next]_inside
=============================================================================
