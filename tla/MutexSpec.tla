----------------------------- MODULE MutexSpec ------------------------------
(* What a mutex promises: at most one holder, taken only when free and given *)
(* back only by the thread that holds it.                                    *)
CONSTANTS Threads, NoThread

VARIABLE holder

Init == holder = NoThread
Acquire(t) == holder = NoThread /\ holder' = t
Release(t) == holder = t /\ holder' = NoThread
Next == \E t \in Threads : Acquire(t) \/ Release(t)
Spec == Init /\ [][Next]_holder
=============================================================================
