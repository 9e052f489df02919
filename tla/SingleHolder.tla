---------------------------- MODULE SingleHolder ----------------------------
(***************************************************************************)
(* What a lock promises: at most one process holds it, and a process gives *)
(* up only its own hold.                                                   *)
(***************************************************************************)
CONSTANT Processes

VARIABLE holders

Init == holders = {}

Acquire(p) == holders = {} /\ holders' = {p}

Release(p) == p \in holders /\ holders' = holders \ {p}

Next == \E p \in Processes : Acquire(p) \/ Release(p)

Spec == Init /\ [][Next]_holders
=============================================================================
