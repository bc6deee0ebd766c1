------------------------------- MODULE Rwlock -------------------------------
(***************************************************************************)
(* pthread_rwlock_t (usr/lib/libcervus/pthread/pthread.c): a counter of     *)
(* readers and a mutex w that a writer keeps.  The mutex is the abstract    *)
(* one of MutexSpec, which Pthread is shown to implement; the counter is a  *)
(* futex.  Each access to the counter is a step.                            *)
(***************************************************************************)
EXTENDS Futex

CONSTANT NoThread           \* not one of the threads; Words is {"readers"}

ASSUME RwlockAssumption == NoThread \notin Threads /\ IsFiniteSet(Threads) /\ Words = {"readers"}

VARIABLES holder,   \* of the mutex w
          r_pc,
          expected  \* expected value passed to futex_wait

rvars == <<mem, futex, holder, r_pc, expected>>

Mutex == INSTANCE MutexSpec

RInit == /\ FutexInit /\ Mutex!Init
         /\ mem = [w \in Words |-> 0]
         /\ r_pc = [t \in Threads |-> "idle"]
         /\ expected = [t \in Threads |-> 0]

RAt(t, l) == r_pc[t] = l
RGo(t, l) == r_pc' = [r_pc EXCEPT ![t] = l]
readers == mem["readers"]
Count(n) == mem' = [mem EXCEPT !["readers"] = n]
-----------------------------------------------------------------------------
(* pthread_rwlock_rdlock. *)
RdLock(t) == /\ RAt(t, "idle") /\ Mutex!Acquire(t) /\ RGo(t, "rd_add")
             /\ UNCHANGED <<mem, futex, expected>>
RdAdd(t) == /\ RAt(t, "rd_add") /\ Count(readers + 1) /\ RGo(t, "rd_unlock")
            /\ UNCHANGED <<futex, holder, expected>>
RdUnlockW(t) == /\ RAt(t, "rd_unlock") /\ Mutex!Release(t) /\ RGo(t, "reading")
                /\ UNCHANGED <<mem, futex, expected>>

(* pthread_rwlock_wrlock: the test of the loop, ... *)
WrLock(t) == /\ RAt(t, "idle") /\ Mutex!Acquire(t) /\ RGo(t, "wr_test")
             /\ UNCHANGED <<mem, futex, expected>>
WrTestSkipped(t) == /\ RAt(t, "wr_test") /\ RGo(t, "writing")
                    /\ UNCHANGED <<mem, futex, holder, expected>>
WrTest(t) == /\ RAt(t, "wr_test") /\ RGo(t, IF readers > 0 THEN "wr_load" ELSE "writing")
             /\ UNCHANGED <<mem, futex, holder, expected>>

(* ... the second load, for the argument of futex_wait, and the wait. *)
WrLoad(t) == /\ RAt(t, "wr_load") /\ expected' = [expected EXCEPT ![t] = readers] /\ RGo(t, "wr_wait")
             /\ UNCHANGED <<mem, futex, holder>>
WrWait(t) == /\ RAt(t, "wr_wait")
             /\ \/ FutexSleep(t, "readers", expected[t]) /\ RGo(t, "wr_asleep")
                \/ FutexRefuse(t, "readers", expected[t]) /\ RGo(t, "wr_test")
             /\ UNCHANGED <<mem, holder, expected>>
WrReturn(t) == /\ RAt(t, "wr_asleep") /\ FutexReturn(t) /\ RGo(t, "wr_test")
               /\ UNCHANGED <<mem, holder, expected>>

(* pthread_rwlock_unlock, which tells a reader from a writer by the counter. *)
UnlockTest(t) == /\ r_pc[t] \in {"reading", "writing"}
                 /\ RGo(t, IF readers > 0 THEN "un_sub" ELSE "un_w")
                 /\ UNCHANGED <<mem, futex, holder, expected>>
UnSub(t) == /\ RAt(t, "un_sub") /\ Count(readers - 1)
            /\ RGo(t, IF readers = 1 THEN "un_wake" ELSE "idle")
            /\ UNCHANGED <<futex, holder, expected>>
UnWake(t) == /\ RAt(t, "un_wake") /\ FutexWakeOne("readers") /\ RGo(t, "idle")
             /\ UNCHANGED <<mem, holder, expected>>
UnlockW(t) == /\ RAt(t, "un_w") /\ Mutex!Release(t) /\ RGo(t, "idle")
              /\ UNCHANGED <<mem, futex, expected>>

RInterrupted(t) == FutexSignal(t) /\ UNCHANGED <<mem, holder, r_pc, expected>>

RNext == \E t \in Threads : \/ RdLock(t) \/ RdAdd(t) \/ RdUnlockW(t)
                            \/ WrLock(t) \/ WrTest(t) \/ WrLoad(t) \/ WrWait(t) \/ WrReturn(t)
                            \/ UnlockTest(t) \/ UnSub(t) \/ UnWake(t) \/ UnlockW(t)
                            \/ RInterrupted(t)

RSpec == RInit /\ [][RNext]_rvars
-----------------------------------------------------------------------------
(* The threads counted in readers. *)
Reading == {t \in Threads : r_pc[t] \in {"rd_unlock", "reading", "un_sub"}}

(* A writer is alone: no other writer, and no reader that is inside or in   *)
(* the middle of its unlock, although unlock guesses from the counter which *)
(* of the two its caller is.                                                *)
WriterAlone == \A t \in Threads : r_pc[t] \in {"writing", "un_w"} =>
                  /\ holder = t /\ readers = 0 /\ Reading = {}
                  /\ \A u \in Threads \ {t} : r_pc[u] \notin {"writing", "un_w"}

(* A writer asleep on the counter has readers left, one of which will wake  *)
(* it ("futex_wait sleeps only if the word at ADDR still equals EXPECTED,   *)
(* which closes the race between testing the lock and going to sleep",      *)
(* futex.2).                                                                *)
WriterNotForgotten == \A t \in Threads : r_pc[t] = "wr_asleep" /\ blocked[t] =>
                         readers > 0 \/ \E u \in Threads : r_pc[u] = "un_wake"
=============================================================================
