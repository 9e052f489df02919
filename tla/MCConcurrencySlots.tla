------------------------- MODULE MCConcurrencySlots -------------------------
(* Instances of ConcurrencySlots for TLC. *)
EXTENDS ConcurrencySlots, TLC

CONSTANTS r1, r2, p1, p2, i1, i2, i3

TwoRequests == {r1, r2}
OneEach == [r \in Requests |-> IF r = r1 THEN p1 ELSE p2]
TwoProcesses == {p1, p2}
ThreeIds == {i1, i2, i3}
AllFaults == {"count", "uncount", "release", "startup", "crash"}
=============================================================================
