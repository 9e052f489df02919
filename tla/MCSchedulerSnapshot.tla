------------------------ MODULE MCSchedulerSnapshot ------------------------
(* Instances of SchedulerSnapshot for TLC. *)
EXTENDS SchedulerSnapshot, TLC

CONSTANTS p1, p2, f1, r1, e1, u1, k1, k2, k3

TwoPollers == {p1, p2}
OneRebuilder == {f1}
OneReader == {r1}
OneEditor == {e1}
OneFlusher == {u1}
SomeKeys == {k1, k2, k3}

Situation(c, f) == [cast |-> c, faults |-> f]
SomeSituations ==
    {Situation({p1, p2, e1}, {"crash"}), Situation({p1, e1}, {"call"}),
     Situation({p1, f1, e1}, {"slow"}), Situation({p1, f1, e1}, {"crash"}),
     Situation({p1, f1, u1, e1}, {"enqueue"}), Situation({f1, r1, e1}, {}),
     Situation({p1, r1, e1}, {})}
=============================================================================
