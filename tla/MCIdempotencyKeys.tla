------------------------- MODULE MCIdempotencyKeys -------------------------
(* Instances of IdempotencyKeys for TLC. *)
EXTENDS IdempotencyKeys, TLC

CONSTANTS w1, w2, w3, f1, f2

ThreeWorkers == {w1, w2, w3}
TwoFingerprints == {f1, f2}
AllFaults == {"db", "crash"}
KeySymmetry == Permutations(Workers) \cup Permutations(Fingerprints)
=============================================================================
