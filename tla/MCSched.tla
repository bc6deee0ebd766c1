------------------------------ MODULE MCSched -------------------------------
(* Instances of Sched for TLC. *)
EXTENDS Sched, TLC

CONSTANTS c1, c2, t1, t2, w1, w2

TwoCPUs == {c1, c2}
TwoTasks == {t1, t2}
OneWaker == {w1}
TwoWakers == {w1, w2}
FirstOrphan == {t1}
SamePrio == [t \in Tasks |-> 1]
FirstHigher == [t \in Tasks |-> IF t = t1 THEN 2 ELSE 1]
Anywhere == [t \in Tasks |-> CPUs]

(* Neither the CPUs nor the wakers differ where every task runs anywhere.    *)
Symmetric == Permutations(CPUs) \cup Permutations(Wakers)
=============================================================================
