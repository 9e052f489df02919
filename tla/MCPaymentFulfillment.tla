----------------------- MODULE MCPaymentFulfillment -----------------------
(* Instances of PaymentFulfillment for TLC. *)
EXTENDS PaymentFulfillment, TLC

CONSTANTS b1, s1, w1, w2, w3

OneBalanceOrder == {b1}
OneSubscriptionOrder == {s1}
NoOrders == {}
OneWorker == {w1}
TwoWorkers == {w1, w2}
ThreeWorkers == {w1, w2, w3}
WorkerSymmetry == Permutations(Workers)
=============================================================================
