-------------------------- MODULE MCUsageBilling ---------------------------
(* Instances of UsageBilling for TLC. *)
EXTENDS UsageBilling, TLC

CONSTANTS t1, t2, t3, r1, r2, f1, f2

ThreeTasks == {t1, t2, t3}
TwoIds == {r1, r2}
TwoPrints == {f1, f2}

Usage(i, f, c) == [id |-> i, print |-> f, cost |-> c]

\* t1 and t2 are one request; t3 is another one.
Repeated == t1 :> Usage(r1, f1, 2) @@ t2 :> Usage(r1, f1, 2) @@ t3 :> Usage(r2, f2, 1)
\* Two requests share an id.
Clashing == t1 :> Usage(r1, f1, 2) @@ t2 :> Usage(r1, f2, 1) @@ t3 :> Usage(r2, f2, 1)
\* Two requests, no repetition.
Two == t1 :> Usage(r1, f1, 2) @@ t2 :> Usage(None, f1, 1) @@ t3 :> Usage(r2, f2, 1)
\* A single one.
One == [t \in ThreeTasks |-> Usage(IF t = t1 THEN r1 ELSE None, f1, 2)]

TheSituations ==
    [cast : {Repeated, Clashing}, faults : {{"age", "net"}, {"age", "crash"}}]
    \cup [cast : {Repeated}, faults : {{"stop", "event"}}]
    \cup [cast : {Two}, faults : {{"load"}, {"load", "net"}}]
    \cup [cast : {One}, faults : {{"load", "topUp"}}]
=============================================================================
