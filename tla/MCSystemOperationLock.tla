----------------------- MODULE MCSystemOperationLock -----------------------
(* Instances of SystemOperationLock for TLC. *)
EXTENDS SystemOperationLock, TLC

CONSTANTS w1, w2, w3, f1, f2

TwoWorkers == {w1, w2}
TwoOperations == {f1, f2}
AllFaults == {"db", "crash"}
LockSymmetry == Permutations(Workers) \cup Permutations(Fingerprints)
=============================================================================
