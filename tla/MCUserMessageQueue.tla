------------------------- MODULE MCUserMessageQueue -------------------------
(* Instances of UserMessageQueue for TLC. *)
EXTENDS UserMessageQueue, TLC

CONSTANTS r1, r2, r3, c1

SomeRequests == {r1, r2, r3}
OneCleaner == {c1}
SomeDelays == {1, 2}
SomeFaults == {{"net"}, {"ttl", "crash"}, {"slow"}}
=============================================================================
