---------------------------- MODULE PthreadProofs ---------------------------
(***************************************************************************)
(* Proofs about Pthread for any sets of producers and consumers, any number *)
(* of slots of the waiter table, and both kinds of mutex.                   *)
(***************************************************************************)
EXTENDS Pthread, FiniteSetTheorems, TLAPS

(* The return label fits the call, ... *)
ThenInv == \A t \in Threads :
    /\ pc[t] = "unlock_wake" => then[t] \in {"idle", "put_out", "cw_wait"}
    /\ pc[t] \in {"signal", "broadcast"} => then[t] \in {"done", "idle"}

(* ... a slot is used exactly by a thread inside futex_wait, and a blocked  *)
(* thread has one that nobody has marked, ...                               *)
KeyInv == \A t \in Threads :
    /\ key[t] = "state" <=> pc[t] = "asleep"
    /\ key[t] = "seq" <=> pc[t] = "cw_asleep"
    /\ blocked[t] => key[t] # NoWord /\ ~woken[t]

(* ... and with these the two properties are inductive. *)
IInv == TypeOK /\ ThenInv /\ KeyInv /\ MutualExclusion /\ SleeperNotForgotten
-----------------------------------------------------------------------------
(* The operations on the table of waiters keep its types. *)
LEMMA FutexStep ==
    ASSUME FutexTypes, NEW t \in Threads, NEW w \in Words, NEW e,
           \/ FutexSleep(t, w, e) \/ FutexRefuse(t, w, e) \/ FutexReturn(t)
           \/ FutexWakeOne(w) \/ FutexWakeAll(w) \/ FutexSignal(t) \/ UNCHANGED futex
    PROVE  FutexTypes'
<1>1. ASSUME NEW S, Rouse(S) PROVE FutexTypes'
      BY <1>1, Zenon DEF FutexTypes, Rouse
<1>2. CASE FutexWakeOne(w) \/ FutexWakeAll(w)
      BY ZenonT(60), <1>1, <1>2 DEF FutexWakeOne, FutexWakeAll, FutexTypes, futex
<1>3. CASE \/ FutexSleep(t, w, e) \/ FutexRefuse(t, w, e) \/ FutexReturn(t)
           \/ FutexSignal(t) \/ UNCHANGED futex
      BY ZenonT(60), <1>3, FutexAssumption DEF FutexSleep, FutexRefuse, FutexReturn, FutexSignal, FutexTypes, futex
<1> QED
      BY <1>2, <1>3, Zenon

(* Every action keeps the variables in their types. *)
LEMMA TypeStep == TypeOK /\ [Next]_vars => TypeOK'
<1> SUFFICES ASSUME TypeOK, [Next]_vars PROVE TypeOK'
    BY Zenon
<1> USE DEF TypeOK
<1>w. "state" \in Words /\ "seq" \in Words
      BY WordAssumption, Zenon
<1>f. UNCHANGED futex => FutexTypes'
      BY Zenon DEF FutexTypes, futex
<1>o. \A t \in Threads : Own(t) \/ Disown => owner' \in Threads \cup {NoThread} /\ count' \in 0..MaxNest
      BY DEF Own, Disown, own, MaxNest
<1>1. ASSUME NEW t \in Threads, Lock(t) \/ Xchg(t) \/ TryLock(t) PROVE TypeOK'
      BY <1>1, <1>f, <1>o, <1>w DEF Lock, Xchg, TryLock, Go, Set, own, items, Labels
<1>2. ASSUME NEW t \in Threads, Unlock(t) PROVE TypeOK'
      <2>1. AfterUnlock(pc[t]) \in {"idle", "put_out", "cw_wait"}
            BY <1>2, Zenon DEF Unlock, AfterUnlock
      <2> QED
            BY <1>2, <2>1, <1>f, <1>o, <1>w DEF Unlock, Go, Set, items, Labels
<1>3. ASSUME NEW t \in Threads, LockWait(t) \/ LockReturn(t) PROVE TypeOK'
      <2>1. FutexTypes'
            BY <1>3, <1>w, FutexStep, Zenon DEF LockWait, LockReturn
      <2> QED
            BY <1>3, <2>1, Zenon DEF LockWait, LockReturn, Go, own, items, Labels
<1>4. ASSUME NEW t \in Threads, CondSleep(t) \/ CondReturn(t) PROVE TypeOK'
      <2>1. FutexTypes'
            BY <1>4, <1>w, FutexStep, Zenon DEF CondSleep, CondReturn
      <2> QED
            BY <1>4, <2>1, Zenon DEF CondSleep, CondReturn, Go, own, items, Labels
<1>5. ASSUME NEW t \in Threads, UnlockWake(t) \/ CondSignal(t) \/ CondBroadcast(t) PROVE TypeOK'
      <2>1. FutexTypes'
            BY <1>5, <1>w, FutexStep, Zenon DEF UnlockWake, CondSignal, CondBroadcast
      <2> QED
            BY <1>5, <2>1 DEF UnlockWake, CondSignal, CondBroadcast, Return, Go, own, items, Labels
<1>6. ASSUME NEW t \in Threads, CondCount(t) PROVE TypeOK'
      <2>1. (mem["seq"] + 1) % SeqMod \in Nat
            BY <1>w, BoundAssumption
      <2>2. mem' \in [Words -> Nat] /\ mem'["state"] \in 0..2
            BY <1>6, <1>w, <2>1, Zenon DEF CondCount, Set
      <2> QED
            BY <1>6, <2>2, <1>f, Zenon DEF CondCount, Go, own, items, Labels
<1>7. ASSUME NEW t \in Threads, CondWait(t) PROVE TypeOK'
      BY <1>7, <1>f, <1>w, Zenon DEF CondWait, Go, own, items, Labels
<1>8. ASSUME NEW t \in Threads, Put(t) \/ Take(t) PROVE TypeOK'
      BY <1>8, <1>f, BoundAssumption DEF Put, Take, Go, own, items, Labels
<1>9. ASSUME NEW t \in Threads, LockAgain(t) \/ UnlockInner(t) PROVE TypeOK'
      BY <1>9, <1>f DEF LockAgain, UnlockInner, items, MaxNest
<1>10. ASSUME NEW t \in Threads, Interrupted(t) PROVE TypeOK'
      <2>1. FutexTypes'
            BY <1>10, <1>w, FutexStep, Zenon DEF Interrupted
      <2> QED
            BY <1>10, <2>1, Zenon DEF Interrupted, own, items
<1>11. CASE UNCHANGED vars
      BY <1>11, <1>f, Zenon DEF vars, own, items
<1> QED
      BY <1>1, <1>2, <1>3, <1>4, <1>5, <1>6, <1>7, <1>8, <1>9, <1>10, <1>11 DEF Next, Library, Client

LEMMA TypeInit == Init => TypeOK
    BY WordAssumption, BoundAssumption DEF Init, FutexInit, TypeOK, FutexTypes, Labels, MaxNest

(* Every variable of the library stays in its type. *)
THEOREM TypeCorrect == Spec => []TypeOK
<1> QED
    BY TypeInit, TypeStep, PTL DEF Spec
-----------------------------------------------------------------------------
(* A step of one thread leaves the place of the others alone. *)
Others(t) == \A u \in Threads \ {t} : pc'[u] = pc[u] /\ then'[u] = then[u]

LEMMA OthersStay ==
    ASSUME TypeOK, NEW t \in Threads,
           \/ Lock(t) \/ TryLock(t) \/ LockAgain(t) \/ UnlockInner(t)
           \/ Library(t) \/ Client(t) \/ Interrupted(t)
    PROVE  Others(t)
    BY Zenon DEF TypeOK, Others, Lock, TryLock, LockAgain, UnlockInner, Library, Client, Interrupted, Xchg,
           LockWait, LockReturn, Unlock, UnlockWake, CondSleep, CondReturn, CondCount, CondSignal,
           CondBroadcast, CondWait, Put, Take, Return, Go

(* The return label keeps fitting the call. *)
LEMMA ThenStep == TypeOK /\ ThenInv /\ [Next]_vars => ThenInv'
<1> SUFFICES ASSUME TypeOK, ThenInv, [Next]_vars PROVE ThenInv'
    BY Zenon
<1>1. CASE UNCHANGED vars
      BY <1>1, Zenon DEF ThenInv, vars
<1>2. ASSUME NEW t \in Threads,
             \/ Lock(t) \/ TryLock(t) \/ LockAgain(t) \/ UnlockInner(t)
             \/ Library(t) \/ Client(t) \/ Interrupted(t)
      PROVE  ThenInv'
      <2>1. Others(t)
            BY <1>2, OthersStay, Zenon
      <2>2. \/ pc'[t] \notin {"unlock_wake", "signal", "broadcast"}
            \/ pc'[t] = pc[t] /\ then'[t] = then[t]
            \/ pc'[t] = "unlock_wake" /\ then'[t] \in {"idle", "put_out", "cw_wait"}
            \/ pc'[t] \in {"signal", "broadcast"} /\ then'[t] \in {"done", "idle"}
            BY <1>2 DEF TypeOK, Lock, TryLock, LockAgain, UnlockInner, Library, Client, Interrupted, Xchg,
               LockWait, LockReturn, Unlock, UnlockWake, CondSleep, CondReturn, CondCount, CondSignal,
               CondBroadcast, CondWait, Put, Take, Return, Go, AfterUnlock
      <2> QED
            BY <2>1, <2>2 DEF ThenInv, Others
<1> QED
    BY <1>1, <1>2, Zenon DEF Next

(* What a step of t does to its hold of the mutex: it takes it when the     *)
(* word is 0, it gives it back, or nothing of the kind.                     *)
Takes(t) == /\ mem["state"] = 0 /\ ~Holds(t) /\ Holds(t)' /\ mem'["state"] # 0
            /\ Recursive => owner' = t
Gives(t) == Holds(t) /\ ~Holds(t)'
Stays(t) == /\ Holds(t)' <=> Holds(t)
            /\ mem["state"] # 0 => mem'["state"] # 0
            /\ owner' = owner

LEMMA HoldStep ==
    ASSUME TypeOK, ThenInv, NEW t \in Threads,
           \/ Lock(t) \/ TryLock(t) \/ LockAgain(t) \/ UnlockInner(t)
           \/ Library(t) \/ Client(t) \/ Interrupted(t)
    PROVE  Takes(t) \/ Gives(t) \/ Stays(t)
<1> USE DEF TypeOK
<1>w. "state" \in Words /\ "seq" \in Words
      BY WordAssumption, Zenon
<1>1. CASE Lock(t) \/ TryLock(t) \/ Xchg(t)
      BY <1>1, <1>w DEF Lock, TryLock, Xchg, Calls, Takes, Stays, Holds, Go, Set, Own, own
<1>2. CASE Unlock(t)
      BY <1>2, Zenon DEF Unlock, Gives, Holds, Go, AfterUnlock
<1>3. CASE UnlockWake(t) \/ CondSignal(t) \/ CondBroadcast(t)
      BY <1>3, Zenon DEF UnlockWake, CondSignal, CondBroadcast, Return, Go, Stays, Holds, ThenInv, own
<1>4. CASE CondCount(t)
      BY <1>4, <1>w, Zenon DEF CondCount, Go, Set, Stays, Holds, own
<1>5. CASE LockWait(t) \/ LockReturn(t) \/ CondSleep(t) \/ CondReturn(t)
      BY <1>5, Zenon DEF LockWait, LockReturn, CondSleep, CondReturn, Go, Stays, Holds, own
<1>6. CASE Client(t) \/ LockAgain(t) \/ UnlockInner(t) \/ Interrupted(t)
      BY <1>6, Zenon DEF Client, CondWait, Put, Take, LockAgain, UnlockInner, Interrupted,
                  Go, Stays, Holds, own
<1> QED
    BY <1>1, <1>2, <1>3, <1>4, <1>5, <1>6, Zenon DEF Library

LEMMA ExclusionStep == TypeOK /\ ThenInv /\ MutualExclusion /\ [Next]_vars => MutualExclusion'
<1> SUFFICES ASSUME TypeOK, ThenInv, MutualExclusion, [Next]_vars PROVE MutualExclusion'
    BY Zenon
<1>1. CASE UNCHANGED vars
      BY <1>1, Zenon DEF MutualExclusion, Holds, vars, own
<1>2. ASSUME NEW t \in Threads,
             \/ Lock(t) \/ TryLock(t) \/ LockAgain(t) \/ UnlockInner(t)
             \/ Library(t) \/ Client(t) \/ Interrupted(t)
      PROVE  MutualExclusion'
      <2>1. \A u \in Threads \ {t} : Holds(u)' <=> Holds(u)
            BY <1>2, OthersStay, Zenon DEF Others, Holds
      <2>2. Takes(t) \/ Gives(t) \/ Stays(t)
            BY <1>2, HoldStep, Zenon
      <2> QED
            BY <2>1, <2>2, Zenon DEF MutualExclusion, Takes, Gives, Stays
<1> QED
    BY <1>1, <1>2, Zenon DEF Next

(* One thread at a time is between lock and unlock, whatever the number of  *)
(* threads and however their steps interleave.                              *)
THEOREM Exclusion == Spec => []MutualExclusion
<1>1. Init => ThenInv /\ MutualExclusion
      BY Zenon DEF Init, ThenInv, MutualExclusion, Holds
<1> QED
    BY <1>1, TypeInit, TypeStep, ThenStep, ExclusionStep, PTL DEF Spec
-----------------------------------------------------------------------------
LEMMA KeyStep == TypeOK /\ ThenInv /\ KeyInv /\ [Next]_vars => KeyInv'
<1> SUFFICES ASSUME TypeOK, ThenInv, KeyInv, [Next]_vars PROVE KeyInv'
    BY Zenon
<1> USE DEF TypeOK, FutexTypes
<1>w. "state" \in Words /\ "seq" \in Words /\ NoWord # "state" /\ NoWord # "seq"
      BY WordAssumption, FutexAssumption, Zenon
<1>1. CASE UNCHANGED vars
      BY <1>1, Zenon DEF KeyInv, vars, futex
<1>2. ASSUME NEW t \in Threads, UNCHANGED futex, Others(t),
             pc[t] \notin {"asleep", "cw_asleep"} /\ pc'[t] \notin {"asleep", "cw_asleep"}
      PROVE  KeyInv'
      BY <1>2, Zenon DEF KeyInv, Others, futex
<1>3. ASSUME NEW t \in Threads, Lock(t) \/ TryLock(t) \/ Xchg(t) \/ Unlock(t) \/ CondCount(t) \/ Client(t)
      PROVE  KeyInv'
      <2>1. Others(t)
            BY <1>3, OthersStay, Zenon DEF Library
      <2>2. UNCHANGED futex /\ pc[t] \notin {"asleep", "cw_asleep"} /\ pc'[t] \notin {"asleep", "cw_asleep"}
            BY <1>3 DEF Lock, TryLock, Calls, Xchg, Unlock, CondCount, Client, CondWait, Put, Take,
                        Go, AfterUnlock
      <2> QED
            BY <1>2, <2>1, <2>2, Zenon
<1>4. ASSUME NEW t \in Threads, LockAgain(t) \/ UnlockInner(t) PROVE KeyInv'
      BY SMTT(60), <1>4 DEF LockAgain, UnlockInner, KeyInv, futex
<1>5. ASSUME NEW t \in Threads, LockWait(t) \/ CondSleep(t) PROVE KeyInv'
      BY SMTT(60), <1>5, <1>w DEF LockWait, CondSleep, FutexSleep, FutexRefuse, Go, KeyInv, futex
<1>6. ASSUME NEW t \in Threads, LockReturn(t) \/ CondReturn(t) PROVE KeyInv'
      BY <1>6, <1>w DEF LockReturn, CondReturn, FutexReturn, Go, KeyInv
<1>7. ASSUME NEW t \in Threads, UnlockWake(t) \/ CondSignal(t) \/ CondBroadcast(t) PROVE KeyInv'
      <2>1. Others(t)
            BY <1>7, OthersStay, Zenon DEF Library
      <2>2. pc[t] \notin {"asleep", "cw_asleep"} /\ pc'[t] \notin {"asleep", "cw_asleep"}
            BY <1>7, Zenon DEF UnlockWake, CondSignal, CondBroadcast, Return, Go, ThenInv
      <2>3. ASSUME NEW S, Rouse(S) PROVE KeyInv'
            BY <2>1, <2>2, <2>3 DEF Rouse, KeyInv, Others
      <2> QED
            BY ZenonT(60), <1>7, <1>2, <2>1, <2>2, <2>3 DEF UnlockWake, CondSignal, CondBroadcast, FutexWakeOne, FutexWakeAll
<1>8. ASSUME NEW t \in Threads, Interrupted(t) PROVE KeyInv'
      BY <1>8, Zenon DEF Interrupted, FutexSignal, KeyInv
<1> QED
    BY <1>1, <1>3, <1>4, <1>5, <1>6, <1>7, <1>8 DEF Next, Library

(* Who keeps the sleepers of the mutex in mind. *)
Minds(u) == pc[u] = "unlock_wake" \/ Trying(u)

LEMMA SleeperStep == TypeOK /\ KeyInv /\ SleeperNotForgotten /\ [Next]_vars => SleeperNotForgotten'
<1> SUFFICES ASSUME TypeOK, KeyInv, SleeperNotForgotten, [Next]_vars,
                    NEW s \in Threads, pc'[s] = "asleep", blocked'[s]
             PROVE  mem'["state"] = 2 \/ \E u \in Threads : Minds(u)'
    BY Zenon DEF SleeperNotForgotten, Minds
<1> USE DEF TypeOK, FutexTypes
<1>w. "state" \in Words /\ "seq" \in Words
      BY WordAssumption, Zenon
<1>a. pc[s] = "asleep" /\ blocked[s] => mem["state"] = 2 \/ \E u \in Threads : Minds(u)
      BY Zenon DEF SleeperNotForgotten, Minds
<1>1. CASE UNCHANGED vars
      BY <1>1, <1>a, Zenon DEF vars, futex, Minds, Trying
<1>2. ASSUME NEW t \in Threads, UNCHANGED futex, Others(t), ~Minds(t), pc[t] # "asleep", pc'[t] # "asleep",
             mem["state"] = 2 => mem'["state"] = 2 \/ Minds(t)'
      PROVE  mem'["state"] = 2 \/ \E u \in Threads : Minds(u)'
      <2>1. pc[s] = "asleep" /\ blocked[s]
            BY <1>2, Zenon DEF Others, futex
      <2>2. \A u \in Threads : Minds(u) => Minds(u)'
            BY <1>2, Zenon DEF Others, futex, Minds, Trying
      <2> QED
            BY <1>2, <1>a, <2>1, <2>2, Zenon
<1>3. ASSUME NEW t \in Threads, Xchg(t) PROVE mem'["state"] = 2
      BY <1>3, <1>w, Zenon DEF Xchg, Set
<1>4. ASSUME NEW t \in Threads, LockWait(t) PROVE mem'["state"] = 2 \/ Minds(t)'
      BY <1>4, Zenon DEF LockWait, FutexSleep, CanSleep, FutexRefuse, Go, Minds, Trying
<1>5. ASSUME NEW t \in Threads, LockReturn(t) PROVE Minds(t)'
      BY <1>5, Zenon DEF LockReturn, Go, Minds, Trying
<1>6. ASSUME NEW t \in Threads, Lock(t) \/ TryLock(t) \/ Unlock(t) \/ CondCount(t) \/ Client(t)
      PROVE  mem'["state"] = 2 \/ \E u \in Threads : Minds(u)'
      <2>1. Others(t)
            BY <1>6, OthersStay, Zenon DEF Library
      <2>2. UNCHANGED futex /\ ~Minds(t) /\ pc[t] # "asleep" /\ pc'[t] # "asleep"
            BY <1>6 DEF Lock, TryLock, Calls, Unlock, CondCount, Client, CondWait, Put, Take,
                        Go, AfterUnlock, Minds, Trying
      <2>3. mem["state"] = 2 => mem'["state"] = 2 \/ Minds(t)'
            BY <1>6, <1>w DEF Lock, TryLock, Unlock, CondCount, Client, CondWait, Put, Take,
                        Go, Set, Minds
      <2> QED
            BY <1>2, <2>1, <2>2, <2>3, Zenon
<1>7. ASSUME NEW t \in Threads, LockAgain(t) \/ UnlockInner(t)
      PROVE  mem'["state"] = 2 \/ \E u \in Threads : Minds(u)'
      BY SMTT(60), <1>7, <1>a DEF LockAgain, UnlockInner, futex, Minds, Trying
<1>8. ASSUME NEW t \in Threads, CondSleep(t) \/ CondReturn(t)
      PROVE  mem'["state"] = 2 \/ \E u \in Threads : Minds(u)'
      <2>1. pc[s] = "asleep" /\ blocked[s]
            BY <1>8 DEF CondSleep, CondReturn, FutexSleep, FutexRefuse, FutexReturn, Go, futex
      <2>2. \A u \in Threads : Minds(u) => Minds(u)'
            BY <1>8 DEF CondSleep, CondReturn, FutexSleep, FutexRefuse, FutexReturn, Go, futex, Minds, Trying
      <2> QED
            BY <1>8, <1>a, <2>1, <2>2, Zenon DEF CondSleep, CondReturn
<1>9. ASSUME NEW t \in Threads, UnlockWake(t)
      PROVE  mem'["state"] = 2 \/ \E u \in Threads : Minds(u)'
      <2>1. pc[t] = "unlock_wake" /\ Others(t)
            BY <1>9, OthersStay, Zenon DEF UnlockWake, Library
      <2>2. pc'[t] # "asleep"
            BY <1>9, Zenon DEF UnlockWake, Return, Go
      <2>3. CASE Wakeable("state") = {} /\ UNCHANGED futex
            BY SMTT(60), <2>1, <2>2, <2>3 DEF Others, KeyInv, Wakeable, futex
      <2>4. ASSUME NEW u \in Wakeable("state"), Rouse({u}) PROVE Minds(u)'
            BY <2>1, <2>4 DEF Wakeable, Rouse, KeyInv, Others, Minds, Trying
      <2> QED
            BY ZenonT(60), <1>9, <2>3, <2>4 DEF UnlockWake, FutexWakeOne, Wakeable
<1>10. ASSUME NEW t \in Threads, CondSignal(t) \/ CondBroadcast(t)
      PROVE  mem'["state"] = 2 \/ \E u \in Threads : Minds(u)'
      <2>1. Others(t) /\ ~Minds(t) /\ pc[t] # "asleep" /\ pc'[t] # "asleep" /\ mem' = mem
            BY <1>10, OthersStay, Zenon DEF CondSignal, CondBroadcast, Library, Return, Go, Minds, Trying
      <2>2. ASSUME NEW S, Rouse(S) PROVE \A u \in Threads : blocked'[u] => blocked[u]
            BY <2>2, Zenon DEF Rouse
      <2>3. \A u \in Threads : blocked'[u] => blocked[u]
            BY ZenonT(60), <1>10, <2>2 DEF CondSignal, CondBroadcast, FutexWakeOne, FutexWakeAll, futex
      <2>4. \A u \in Threads : Minds(u) => Minds(u)'
            BY <2>1, <2>3, Zenon DEF Others, Minds, Trying
      <2> QED
            BY <1>a, <2>1, <2>3, <2>4, Zenon DEF Others
<1>11. ASSUME NEW t \in Threads, Interrupted(t)
      PROVE  mem'["state"] = 2 \/ \E u \in Threads : Minds(u)'
      <2>1. \A u \in Threads : blocked'[u] => blocked[u]
            BY <1>11, Zenon DEF Interrupted, FutexSignal
      <2>2. \A u \in Threads : Minds(u) => Minds(u)'
            BY <1>11, <2>1, Zenon DEF Interrupted, Minds, Trying
      <2> QED
            BY <1>11, <1>a, <2>1, <2>2, Zenon DEF Interrupted
<1> QED
    BY SMTT(60), <1>1, <1>3, <1>4, <1>5, <1>6, <1>7, <1>8, <1>9, <1>10, <1>11 DEF Next, Library

(* No thread is left asleep on a mutex without somebody whose next steps    *)
(* wake it or mark the mutex as contended.                                  *)
THEOREM NobodyForgotten == Spec => []SleeperNotForgotten
<1>1. Init => ThenInv /\ KeyInv /\ SleeperNotForgotten
      BY FutexAssumption, WordAssumption DEF Init, FutexInit, ThenInv, KeyInv, SleeperNotForgotten
<1> QED
    BY <1>1, TypeInit, TypeStep, ThenStep, KeyStep, SleeperStep, PTL DEF Spec
-----------------------------------------------------------------------------
(* Every step takes the abstract mutex, gives it back or leaves it alone. *)
LEMMA RefinementStep ==
    TypeOK /\ ThenInv /\ MutualExclusion /\ MutualExclusion' /\ [Next]_vars
       => [Abstract!Next]_TheHolder
<1> SUFFICES ASSUME TypeOK, ThenInv, MutualExclusion, MutualExclusion', [Next]_vars
             PROVE  Abstract!Next \/ TheHolder' = TheHolder
    BY Zenon
<1>1. CASE UNCHANGED vars
      BY <1>1, Zenon DEF TheHolder, Holds, vars
<1>2. ASSUME NEW t \in Threads,
             \/ Lock(t) \/ TryLock(t) \/ LockAgain(t) \/ UnlockInner(t)
             \/ Library(t) \/ Client(t) \/ Interrupted(t)
      PROVE  Abstract!Next \/ TheHolder' = TheHolder
      <2>1. \A u \in Threads \ {t} : Holds(u)' <=> Holds(u)
            BY <1>2, OthersStay, Zenon DEF Others, Holds
      <2>2. \A u \in Threads : Holds(u) => TheHolder = u
            BY Zenon DEF TheHolder, MutualExclusion
      <2>3. \A u \in Threads : Holds(u)' => TheHolder' = u
            BY Zenon DEF TheHolder, MutualExclusion
      <2>4. (\A u \in Threads : ~Holds(u)) => TheHolder = NoThread
            BY Zenon DEF TheHolder
      <2>5. (\A u \in Threads : ~Holds(u)') => TheHolder' = NoThread
            BY Zenon DEF TheHolder
      <2>6. CASE Takes(t)
            <3>1. TheHolder = NoThread
                  BY <2>4, <2>6, Zenon DEF Takes, MutualExclusion
            <3>2. TheHolder' = t
                  BY <2>3, <2>6, Zenon DEF Takes
            <3> QED
                  BY <3>1, <3>2, Zenon DEF Abstract!Next, Abstract!Acquire
      <2>7. CASE Gives(t)
            <3>1. TheHolder = t
                  BY <2>2, <2>7, Zenon DEF Gives
            <3>2. TheHolder' = NoThread
                  BY <2>1, <2>5, <2>7, Zenon DEF Gives, MutualExclusion
            <3> QED
                  BY <3>1, <3>2, Zenon DEF Abstract!Next, Abstract!Release
      <2>8. CASE Stays(t)
            <3>1. \A u \in Threads : Holds(u)' <=> Holds(u)
                  BY <2>1, <2>8, Zenon DEF Stays
            <3>2. CASE \E u \in Threads : Holds(u)
                  BY <3>1, <3>2, <2>2, <2>3, Zenon
            <3>3. CASE \A u \in Threads : ~Holds(u)
                  BY <3>1, <3>3, <2>4, <2>5, Zenon
            <3> QED
                  BY <3>2, <3>3, Zenon
      <2> QED
            BY <1>2, HoldStep, <2>6, <2>7, <2>8, Zenon
<1> QED
    BY <1>1, <1>2, Zenon DEF Next

(* The mutex of the library, futexes included, implements the abstract one. *)
THEOREM Refinement == Spec => IsMutex
<1>1. Init => ThenInv /\ MutualExclusion /\ Abstract!Init
      BY Zenon DEF Init, ThenInv, MutualExclusion, Holds, TheHolder, Abstract!Init
<1> QED
    BY <1>1, TypeInit, TypeStep, ThenStep, ExclusionStep, RefinementStep, PTL
       DEF Spec, IsMutex, Abstract!Spec
-----------------------------------------------------------------------------
(* The consumer has read the counter and is not yet in futex_wait; the       *)
(* producer has yet to count its item in the condition.                      *)
Between(t) == \/ pc[t] \in {"cw_unlock", "cw_wait"}
              \/ pc[t] = "unlock_wake" /\ then[t] = "cw_wait"
Counts(t) == \/ pc[t] \in {"put", "put_out"}
             \/ pc[t] = "unlock_wake" /\ then[t] = "put_out"
Uncounted == {t \in Threads : Counts(t)}

(* Only consumers are inside pthread_cond_wait, only producers signal; ...   *)
RoleInv == \A t \in Threads :
    /\ Between(t) \/ pc[t] \in {"cw_asleep", "relock"} => t \in Consumers
    /\ Counts(t) \/ pc[t] \in {"signal", "broadcast"} => t \in Producers

(* ... the threads that have an item in mind are the producers that have yet *)
(* to signal, and the consumers that will look, those only interrupted in    *)
(* their sleep left out since a signal may still go to them; ...             *)
Looks(t) == \/ pc[t] \in {"relock", "xchg", "wait", "asleep", "held"}
            \/ Between(t) /\ seq[t] # mem["seq"]
            \/ pc[t] = "cw_asleep" /\ woken[t]
Serves(t) == Owing(t) \/ (t \in Consumers /\ Looks(t))
Served == {t \in Threads : Serves(t)}

(* ... the counter has not wrapped, so that it tells a consumer whose call   *)
(* began before a signal; ...                                                *)
CountInv == /\ mem["seq"] + Cardinality(Uncounted) <= puts
            /\ \A t \in Threads : seq[t] <= mem["seq"]

(* ... and with these no item is forgotten, neither by a consumer about to   *)
(* sleep nor by one that sleeps.                                             *)
AboutToSleep == (\E t \in Threads : Between(t) /\ seq[t] = mem["seq"])
                   => avail <= Cardinality(Uncounted)
Sleeping == (\E t \in Threads : pc[t] = "cw_asleep" /\ ~woken[t]) => avail <= Cardinality(Served)
ItemInv == RoleInv /\ CountInv /\ AboutToSleep /\ Sleeping

(* What a set of threads counts, when it grows, when one thread leaves and    *)
(* another comes, when one leaves and when one comes.                        *)
LEMMA Counting ==
    ASSUME NEW S, NEW T, S \subseteq Threads, T \subseteq Threads
    PROVE  /\ Cardinality(S) \in Nat /\ Cardinality(T) \in Nat
           /\ S \subseteq T => Cardinality(S) <= Cardinality(T)
           /\ \A t \in S, u \in T \ S : S \ {t} \subseteq T => Cardinality(S) <= Cardinality(T)
           /\ \A t \in S : S \ {t} \subseteq T => Cardinality(S) - 1 <= Cardinality(T)
           /\ \A u \in T \ S : S \subseteq T => Cardinality(S) + 1 <= Cardinality(T)
           /\ \A u \in T \ S : T \ {u} \subseteq S => Cardinality(T) <= Cardinality(S) + 1
           /\ \A t \in S : T \subseteq S \ {t} => Cardinality(T) + 1 <= Cardinality(S)
<1>1. IsFiniteSet(S) /\ IsFiniteSet(T)
      BY ThreadAssumption, FS_Subset, Zenon
<1>2. Cardinality(S) \in Nat /\ Cardinality(T) \in Nat
      BY <1>1, FS_CardinalityType, Zenon
<1>3. ASSUME NEW A, NEW B, IsFiniteSet(B), A \subseteq B
      PROVE  IsFiniteSet(A) /\ Cardinality(A) \in Nat /\ Cardinality(B) \in Nat
             /\ Cardinality(A) <= Cardinality(B)
      BY <1>3, FS_Subset, FS_CardinalityType, Zenon
<1>4. ASSUME NEW A, IsFiniteSet(A), NEW x \in A
      PROVE  IsFiniteSet(A \ {x}) /\ Cardinality(A \ {x}) = Cardinality(A) - 1
      BY <1>4, FS_RemoveElement, Zenon
<1>5. ASSUME NEW t \in S, S \ {t} \subseteq T
      PROVE  /\ Cardinality(S) - 1 <= Cardinality(T)
             /\ \A u \in T \ S : Cardinality(S) <= Cardinality(T)
      <2>1. Cardinality(S \ {t}) = Cardinality(S) - 1
            BY <1>1, <1>4, Zenon
      <2>2. Cardinality(S \ {t}) <= Cardinality(T)
            BY <1>1, <1>3, <1>5, Zenon
      <2>3. ASSUME NEW u \in T \ S PROVE Cardinality(S) <= Cardinality(T)
            <3>1. S \ {t} \subseteq T \ {u}
                  BY <1>5, Zenon
            <3>2. IsFiniteSet(T \ {u}) /\ Cardinality(T \ {u}) = Cardinality(T) - 1
                  BY <1>1, <1>4, Zenon
            <3>3. Cardinality(S \ {t}) <= Cardinality(T \ {u})
                  BY <1>3, <3>1, <3>2, Zenon
            <3>4. QED BY <1>2, <2>1, <3>2, <3>3
      <2>4. QED BY <1>2, <2>1, <2>2, <2>3, Zenon
<1>6. ASSUME NEW u \in T \ S, S \subseteq T PROVE Cardinality(S) + 1 <= Cardinality(T)
      <2>1. S \subseteq T \ {u}
            BY <1>6, Zenon
      <2>2. IsFiniteSet(T \ {u}) /\ Cardinality(T \ {u}) = Cardinality(T) - 1
            BY <1>1, <1>4, Zenon
      <2>3. Cardinality(S) <= Cardinality(T \ {u})
            BY <1>3, <2>1, <2>2, Zenon
      <2>4. QED BY <1>2, <2>2, <2>3
<1>7. ASSUME NEW u \in T \ S, T \ {u} \subseteq S PROVE Cardinality(T) <= Cardinality(S) + 1
      <2>1. IsFiniteSet(T \ {u}) /\ Cardinality(T \ {u}) = Cardinality(T) - 1
            BY <1>1, <1>4, Zenon
      <2>2. Cardinality(T \ {u}) <= Cardinality(S)
            BY <1>1, <1>3, <1>7, Zenon
      <2>3. QED BY <1>2, <2>1, <2>2
<1>8. ASSUME NEW t \in S, T \subseteq S \ {t} PROVE Cardinality(T) + 1 <= Cardinality(S)
      <2>1. IsFiniteSet(S \ {t}) /\ Cardinality(S \ {t}) = Cardinality(S) - 1
            BY <1>1, <1>4, Zenon
      <2>2. Cardinality(T) <= Cardinality(S \ {t})
            BY <1>3, <1>8, <2>1, Zenon
      <2>3. QED BY <1>2, <2>1, <2>2
<1>9. S \subseteq T => Cardinality(S) <= Cardinality(T)
      BY <1>1, <1>3, Zenon
<1>10. QED BY <1>2, <1>5, <1>6, <1>7, <1>8, <1>9, Zenon

(* Each thread keeps to its role.                                            *)
LEMMA RoleStep == TypeOK /\ ThenInv /\ RoleInv /\ [Next]_vars => RoleInv'
<1> SUFFICES ASSUME TypeOK, ThenInv, RoleInv, [Next]_vars PROVE RoleInv'
    BY Zenon
<1> USE DEF RoleInv, Between, Counts
<1>1. CASE UNCHANGED vars
      BY <1>1, Zenon DEF vars
<1>2. ASSUME NEW t \in Threads,
             \/ Lock(t) \/ TryLock(t) \/ LockAgain(t) \/ UnlockInner(t)
             \/ Library(t) \/ Client(t) \/ Interrupted(t)
      PROVE  RoleInv'
      <2>1. Others(t)
            BY <1>2, OthersStay, Zenon
      <2>2. /\ (Between(t) \/ pc[t] \in {"cw_asleep", "relock"} => t \in Consumers)'
            /\ (Counts(t) \/ pc[t] \in {"signal", "broadcast"} => t \in Producers)'
            <3> USE DEF TypeOK, Go
            <3>1. CASE Lock(t) \/ TryLock(t) \/ Xchg(t) \/ LockWait(t) \/ LockReturn(t)
                  BY <3>1, Zenon DEF Lock, TryLock, Xchg, LockWait, LockReturn
            <3>2. CASE LockAgain(t) \/ UnlockInner(t) \/ Interrupted(t)
                  BY <3>2, Zenon DEF LockAgain, UnlockInner, Interrupted
            <3>3. CASE Unlock(t)
                  BY <3>3, Zenon DEF Unlock, AfterUnlock
            <3>4. CASE UnlockWake(t) \/ CondSignal(t) \/ CondBroadcast(t)
                  BY <3>4, Zenon DEF UnlockWake, CondSignal, CondBroadcast, Return, ThenInv
            <3>5. CASE CondSleep(t) \/ CondReturn(t) \/ CondCount(t)
                  BY <3>5, Zenon DEF CondSleep, CondReturn, CondCount
            <3>6. CASE Client(t)
                  BY <3>6, Zenon DEF Client, CondWait, Put, Take
            <3>7. QED BY <1>2, <3>1, <3>2, <3>3, <3>4, <3>5, <3>6 DEF Library
      <2>3. QED BY <2>1, <2>2, Zenon DEF Others
<1>3. QED BY <1>1, <1>2, Zenon DEF Next

(* A step that neither counts, puts, takes, sleeps nor wakes on the          *)
(* condition forgets no item.                                                *)
Quiet == /\ mem'["seq"] = mem["seq"] /\ seq' = seq /\ avail' = avail /\ puts' = puts
         /\ \A u \in Threads : /\ Counts(u)' <=> Counts(u)
                               /\ Serves(u) => Serves(u)'
                               /\ Between(u)' => Between(u)
                               /\ (pc[u] = "cw_asleep" /\ ~woken[u])'
                                     => pc[u] = "cw_asleep" /\ ~woken[u]

LEMMA QuietStep ==
    ASSUME TypeOK, CountInv, AboutToSleep, Sleeping, Quiet
    PROVE  (CountInv /\ AboutToSleep /\ Sleeping)'
<1>1. Uncounted' = Uncounted /\ Served \subseteq Served'
      BY Zenon DEF Quiet, Uncounted, Served
<1>2. /\ Cardinality(Served) <= Cardinality(Served')
      /\ Cardinality(Served) \in Nat /\ Cardinality(Served') \in Nat
      BY <1>1, Counting, Zenon DEF Served
<1>3. CountInv' /\ AboutToSleep'
      BY <1>1, Zenon DEF Quiet, CountInv, AboutToSleep
<1>4. Sleeping'
      <2> SUFFICES ASSUME \E t \in Threads : (pc[t] = "cw_asleep" /\ ~woken[t])'
                   PROVE  avail' <= Cardinality(Served')
          BY Zenon DEF Sleeping
      <2>1. avail <= Cardinality(Served)
            BY Zenon DEF Quiet, Sleeping
      <2>2. QED BY <1>2, <2>1 DEF Quiet, TypeOK
<1>5. QED BY <1>3, <1>4, Zenon

(* The steps of the mutex, of the recursion and of the signals are quiet.    *)
LEMMA MutexQuiet ==
    ASSUME TypeOK, ThenInv, RoleInv, NEW t \in Threads,
           \/ Lock(t) \/ TryLock(t) \/ LockAgain(t) \/ UnlockInner(t) \/ Xchg(t) \/ LockWait(t)
           \/ LockReturn(t) \/ Unlock(t) \/ UnlockWake(t) \/ CondReturn(t) \/ Interrupted(t)
    PROVE  Quiet
<1>w. "state" \in Words /\ "seq" \in Words
      BY WordAssumption, Zenon
<1>1. Others(t)
      BY OthersStay, Zenon DEF Library
<1>2. mem'["seq"] = mem["seq"] /\ seq' = seq /\ avail' = avail /\ puts' = puts
      BY <1>w, Zenon DEF TypeOK, Lock, TryLock, LockAgain, UnlockInner, Xchg, LockWait, LockReturn, Unlock,
         UnlockWake, CondReturn, Interrupted, Set, items
<1>3. \A u \in Threads \ {t} : woken[u] => woken'[u]
      <2>1. ASSUME NEW S, Rouse(S) PROVE \A u \in Threads \ {t} : woken[u] => woken'[u]
            BY <2>1, Zenon DEF Rouse
      <2>2. CASE UnlockWake(t)
            BY ZenonT(60), <2>1, <2>2 DEF UnlockWake, FutexWakeOne, futex
      <2>3. CASE ~UnlockWake(t)
            BY <2>3, Zenon DEF TypeOK, FutexTypes, Lock, TryLock, LockAgain, UnlockInner, Xchg, LockWait,
               LockReturn, Unlock, CondReturn, Interrupted, FutexSleep, FutexRefuse, FutexReturn,
               FutexSignal, futex
      <2>4. QED BY <2>2, <2>3, Zenon
<1>4. \A u \in Threads \ {t} :
         /\ Counts(u)' <=> Counts(u)
         /\ Serves(u) => Serves(u)'
         /\ Between(u)' => Between(u)
         /\ (pc[u] = "cw_asleep" /\ ~woken[u])' => pc[u] = "cw_asleep" /\ ~woken[u]
      BY <1>1, <1>2, <1>3, Zenon DEF Others, Counts, Serves, Between, Looks, Owing
<1>5. /\ Counts(t)' <=> Counts(t)
      /\ Serves(t) => Serves(t)'
      /\ Between(t)' => Between(t)
      /\ (pc[t] = "cw_asleep" /\ ~woken[t])' => pc[t] = "cw_asleep" /\ ~woken[t]
      <2> USE DEF TypeOK, Go, Counts, Serves, Between, Looks, Owing
      <2>1. CASE Lock(t) \/ TryLock(t) \/ Xchg(t)
            BY <1>2, <2>1, Zenon DEF Lock, TryLock, Calls, Xchg
      <2>2. CASE LockAgain(t) \/ UnlockInner(t)
            BY <1>2, <2>2, Zenon DEF LockAgain, UnlockInner, futex
      <2>3. CASE LockWait(t) \/ LockReturn(t) \/ CondReturn(t)
            BY <1>2, <2>3, Zenon DEF LockWait, LockReturn, CondReturn, RoleInv
      <2>4. CASE Unlock(t)
            BY <1>2, <2>4, Zenon DEF Unlock, AfterUnlock
      <2>5. CASE UnlockWake(t)
            BY <1>2, <2>5, Zenon DEF UnlockWake, Return, ThenInv
      <2>6. CASE Interrupted(t)
            BY <1>2, <2>6, Zenon DEF Interrupted, FutexSignal
      <2>7. QED BY <2>1, <2>2, <2>3, <2>4, <2>5, <2>6, Zenon
<1>6. QED BY <1>2, <1>4, <1>5, Zenon DEF Quiet

(* The other steps forget no item either, unless 2^32 signals are sent.      *)
LEMMA ItemStep ==
    ASSUME TypeOK, ThenInv, KeyInv, ItemInv, puts < SeqMod, [Next]_vars
    PROVE  ItemInv'
<1>w. "state" \in Words /\ "seq" \in Words /\ Uncounted \subseteq Threads /\ Served \subseteq Threads
      /\ Uncounted' \subseteq Threads /\ Served' \subseteq Threads
      BY WordAssumption, Zenon DEF Uncounted, Served
<1>n. /\ Cardinality(Uncounted) \in Nat /\ Cardinality(Served) \in Nat
      /\ Cardinality(Uncounted') \in Nat /\ Cardinality(Served') \in Nat
      /\ mem["seq"] \in Nat /\ avail \in Nat /\ puts \in Nat
      BY <1>w, Counting, Zenon DEF TypeOK
<1>s. Uncounted \subseteq Served /\ Cardinality(Uncounted) <= Cardinality(Served)
      <2>1. \A u \in Threads : Counts(u) => Serves(u)
            BY Zenon DEF ItemInv, RoleInv, Counts, Serves, Owing
      <2>2. QED BY <1>w, <2>1, Counting, Zenon DEF Uncounted, Served
<1>0. RoleInv'
      BY RoleStep, Zenon DEF ItemInv
<1>q. Quiet => ItemInv'
      BY QuietStep, <1>0, Zenon DEF ItemInv
<1>1. CASE UNCHANGED vars
      <2>1. Quiet
            BY <1>1, Zenon DEF vars, items, futex, Quiet, Counts, Serves, Between, Looks, Owing
      <2>2. QED BY <1>q, <2>1, Zenon
<1>2. ASSUME NEW t \in Threads, CondWait(t) PROVE ItemInv'
      <2>1. Others(t) /\ mem' = mem /\ avail' = 0 /\ avail = 0 /\ puts' = puts
            /\ seq' = [seq EXCEPT ![t] = mem["seq"]]
            BY <1>2, OthersStay, Zenon DEF CondWait, Client, items
      <2>2. Uncounted' = Uncounted
            BY <1>2, <2>1, Zenon DEF CondWait, Others, Uncounted, Counts, TypeOK, Go
      <2>3. CountInv'
            BY <2>1, <2>2, <1>n DEF ItemInv, CountInv, TypeOK
      <2>4. AboutToSleep' /\ Sleeping'
            BY <1>n, <2>1 DEF AboutToSleep, Sleeping
      <2>5. QED BY <1>0, <2>3, <2>4, Zenon DEF ItemInv
<1>3. ASSUME NEW t \in Threads, Put(t) PROVE ItemInv'
      <2>1. Others(t) /\ mem' = mem /\ avail' = avail + 1 /\ puts' = puts + 1 /\ seq' = seq /\ woken' = woken
            /\ pc[t] = "held" /\ pc'[t] = "put" /\ t \in Producers /\ t \notin Consumers
            BY <1>3, OthersStay, ThreadAssumption, Zenon DEF Put, Client, futex, TypeOK, Go
      <2>2. ~Counts(t) /\ ~Serves(t) /\ Counts(t)' /\ Serves(t)'
            BY <2>1, Zenon DEF Counts, Serves, Owing
      <2>3. \A u \in Threads \ {t} : (Counts(u)' <=> Counts(u)) /\ (Serves(u)' <=> Serves(u))
                                    /\ (Between(u)' <=> Between(u))
            BY <2>1 DEF Others, Counts, Serves, Between, Looks, Owing
      <2>4. /\ t \in Uncounted' \ Uncounted /\ Uncounted \subseteq Uncounted' /\ Uncounted' \ {t} \subseteq Uncounted
            /\ t \in Served' \ Served /\ Served \subseteq Served'
            BY <2>2, <2>3, Zenon DEF Uncounted, Served
      <2>5. /\ Cardinality(Uncounted') <= Cardinality(Uncounted) + 1
            /\ Cardinality(Uncounted) + 1 <= Cardinality(Uncounted')
            /\ Cardinality(Served) + 1 <= Cardinality(Served')
            BY <1>w, <2>4, Counting, Zenon
      <2>6. CountInv'
            BY <1>n, <2>1, <2>5, SMTT(60) DEF ItemInv, CountInv
      <2>7. AboutToSleep'
            BY <1>n, <2>1, <2>3, <2>5, SMTT(60) DEF ItemInv, AboutToSleep, Between
      <2>8. Sleeping'
            BY <1>n, <2>1, <2>5 DEF ItemInv, Sleeping, Others
      <2>9. QED BY <1>0, <2>6, <2>7, <2>8, Zenon DEF ItemInv
<1>4. ASSUME NEW t \in Threads, Take(t) PROVE ItemInv'
      <2>1. Others(t) /\ mem' = mem /\ avail' = avail - 1 /\ puts' = puts /\ seq' = seq /\ woken' = woken
            /\ pc[t] = "held" /\ pc'[t] = "done" /\ t \in Consumers /\ t \notin Producers
            BY <1>4, OthersStay, ThreadAssumption, Zenon DEF Take, Client, futex, TypeOK, Go
      <2>2. ~Counts(t) /\ Serves(t) /\ ~Counts(t)'
            BY <2>1, Zenon DEF Counts, Serves, Looks
      <2>3. \A u \in Threads \ {t} : (Counts(u)' <=> Counts(u)) /\ (Serves(u)' <=> Serves(u))
                                    /\ (Between(u)' <=> Between(u))
            BY <2>1 DEF Others, Counts, Serves, Between, Looks, Owing
      <2>4. Uncounted' = Uncounted /\ t \in Served /\ Served \ {t} \subseteq Served'
            BY <2>2, <2>3, Zenon DEF Uncounted, Served
      <2>5. Cardinality(Served) - 1 <= Cardinality(Served')
            BY <1>w, <2>4, Counting, Zenon
      <2>6. CountInv'
            BY <1>n, <2>1, <2>4, Zenon DEF ItemInv, CountInv
      <2>7. AboutToSleep'
            BY <1>n, <2>1, <2>3, <2>4 DEF ItemInv, AboutToSleep, Between
      <2>8. Sleeping'
            BY <1>n, <2>1, <2>5 DEF ItemInv, Sleeping, Others
      <2>9. QED BY <1>0, <2>6, <2>7, <2>8, Zenon DEF ItemInv
<1>5. ASSUME NEW t \in Threads, CondSleep(t) PROVE ItemInv'
      <2>1. Others(t) /\ mem' = mem /\ avail' = avail /\ puts' = puts /\ seq' = seq
            /\ pc[t] = "cw_wait"
            BY <1>5, OthersStay, Zenon DEF CondSleep, Library, items
      <2>2. CASE FutexRefuse(t, "seq", seq[t]) /\ Go(t, "relock")
            <3>1. pc'[t] = "relock" /\ woken' = woken /\ t \in Consumers
                  BY <2>1, <2>2, Zenon DEF FutexRefuse, Go, TypeOK, futex, ItemInv, RoleInv, Between
            <3>2. Quiet
                  BY <2>1, <3>1 DEF Others, Quiet, Counts, Serves, Between, Looks, Owing
            <3>3. QED BY <1>q, <3>2, Zenon
      <2>3. CASE FutexSleep(t, "seq", seq[t]) /\ Go(t, "cw_asleep")
            <3>1. /\ pc'[t] = "cw_asleep" /\ mem["seq"] = seq[t]
                  /\ \A u \in Threads \ {t} : woken'[u] = woken[u]
                  BY <2>1, <2>3, Zenon DEF FutexSleep, CanSleep, Go, TypeOK, FutexTypes
            <3>2. \A u \in Threads \ {t} : (Counts(u)' <=> Counts(u)) /\ (Serves(u) => Serves(u)')
                                          /\ (Between(u)' <=> Between(u))
                  BY <2>1, <3>1, Zenon DEF Others, Counts, Serves, Between, Looks, Owing
            <3>3. Between(t) /\ ~Between(t)' /\ ~Counts(t) /\ ~Counts(t)' /\ ~Serves(t)
                  BY <2>1, <3>1, Zenon DEF Between, Counts, Serves, Looks, Owing
            <3>4. Uncounted' = Uncounted /\ Served \subseteq Served'
                  BY <3>2, <3>3, Zenon DEF Uncounted, Served
            <3>5. Cardinality(Served) <= Cardinality(Served')
                  BY <1>w, <3>4, Counting, Zenon
            <3>6. avail <= Cardinality(Uncounted)
                  BY <3>1, <3>3, Zenon DEF ItemInv, AboutToSleep
            <3>7. CountInv' /\ AboutToSleep'
                  BY <2>1, <3>4, <3>6, Zenon DEF ItemInv, CountInv, AboutToSleep
            <3>8. Sleeping'
                  BY <1>n, <1>s, <2>1, <3>5, <3>6, SMTT(60) DEF Sleeping
            <3>9. QED BY <1>0, <3>7, <3>8, Zenon DEF ItemInv
      <2>4. QED BY <1>5, <2>2, <2>3, Zenon DEF CondSleep
<1>6. ASSUME NEW t \in Threads, CondCount(t) PROVE ItemInv'
      <2>1. Others(t) /\ avail' = avail /\ puts' = puts /\ seq' = seq /\ woken' = woken
            /\ pc[t] \in {"put", "put_out"} /\ pc'[t] \in {"signal", "broadcast"}
            /\ mem'["seq"] = (mem["seq"] + 1) % SeqMod
            BY <1>6, <1>w, OthersStay, Zenon DEF CondCount, Library, items, futex, TypeOK, Go, Set
      <2>2. Counts(t) /\ ~Counts(t)' /\ Serves(t)' /\ ~Between(t)' /\ t \in Producers
            BY <2>1, Zenon DEF Counts, Serves, Between, Owing, ItemInv, RoleInv
      <2>3. \A u \in Threads \ {t} : (Counts(u)' <=> Counts(u)) /\ (Between(u)' <=> Between(u))
            BY <2>1, Zenon DEF Others, Counts, Between
      <2>4. t \in Uncounted /\ Uncounted' \subseteq Uncounted \ {t}
            BY <2>2, <2>3, Zenon DEF Uncounted
      <2>5. Cardinality(Uncounted') + 1 <= Cardinality(Uncounted)
            BY <1>w, <2>4, Counting, Zenon
      <2>6. mem'["seq"] = mem["seq"] + 1
            <3>1. mem["seq"] + 1 \in 0 .. SeqMod - 1
                  BY <1>n, <2>5, BoundAssumption DEF ItemInv, CountInv
            <3>2. \A n \in 0 .. SeqMod - 1 : n % SeqMod = n
                  BY BoundAssumption
            <3>3. QED BY <2>1, <3>1, <3>2, Zenon
      <2>7. CountInv'
            BY <1>n, <2>1, <2>5, <2>6, SMTT(60) DEF ItemInv, CountInv, TypeOK
      <2>8. \A u \in Threads : seq'[u] # mem'["seq"]
            BY <1>n, <2>1, <2>6 DEF ItemInv, CountInv, TypeOK
      <2>9. AboutToSleep'
            BY <2>8, Zenon DEF AboutToSleep
      <2>10. \A u \in Threads : Serves(u) => Serves(u)'
            <3>1. \A u \in Threads \ {t} : Serves(u) => Serves(u)'
                  BY <2>1, <2>8, Zenon DEF Others, Serves, Between, Looks, Owing
            <3>2. QED BY <2>2, <3>1, Zenon
      <2>11. Cardinality(Served) <= Cardinality(Served')
            BY <1>w, <2>10, Counting, Zenon DEF Served
      <2>12. Sleeping'
            BY <1>n, <2>1, <2>11 DEF ItemInv, Sleeping, Others
      <2>13. QED BY <1>0, <2>7, <2>9, <2>12, Zenon DEF ItemInv
<1>7. ASSUME NEW t \in Threads, CondSignal(t) \/ CondBroadcast(t) PROVE ItemInv'
      <2>1. Others(t) /\ mem' = mem /\ avail' = avail /\ puts' = puts /\ seq' = seq
            /\ pc[t] \in {"signal", "broadcast"} /\ pc'[t] \in {"idle", "done"}
            BY <1>7, OthersStay, Zenon DEF CondSignal, CondBroadcast, Library, items, Return, Go, TypeOK, ThenInv
      <2>2. ~Counts(t) /\ ~Counts(t)' /\ ~Between(t)'
            BY <2>1, Zenon DEF Counts, Between
      <2>3. \A u \in Threads \ {t} : (Counts(u)' <=> Counts(u)) /\ (Between(u)' <=> Between(u))
            BY <2>1, Zenon DEF Others, Counts, Between
      <2>4. Uncounted' = Uncounted
            BY <2>2, <2>3, Zenon DEF Uncounted
      <2>5. CountInv' /\ AboutToSleep'
            BY <2>1, <2>2, <2>3, <2>4, Zenon DEF ItemInv, CountInv, AboutToSleep
      <2>6. \A u \in Threads : pc'[u] = "cw_asleep" => pc[u] = "cw_asleep" /\ key[u] = "seq"
            BY <2>1, Zenon DEF Others, KeyInv
      <2>7. ASSUME \A u \in Threads : pc'[u] = "cw_asleep" => woken'[u] PROVE ItemInv'
            <3>1. Sleeping'
                  BY <2>7, Zenon DEF Sleeping
            <3>2. QED BY <1>0, <2>5, <3>1, Zenon DEF ItemInv
      <2>8. ASSUME NEW s \in Wakeable("seq"), Rouse({s}) PROVE ItemInv'
            <3>1. s \in Threads /\ pc[s] = "cw_asleep" /\ ~woken[s] /\ woken'[s] /\ s # t /\ pc'[s] = "cw_asleep"
                  /\ s \in Consumers /\ s \notin Producers
                  BY <2>1, <2>8, ThreadAssumption, Zenon DEF Wakeable, Rouse, KeyInv, Others, ItemInv, RoleInv
            <3>2. ~Serves(s) /\ Serves(s)'
                  BY <3>1, Zenon DEF Serves, Looks, Between, Owing
            <3>3. \A u \in Threads : woken[u] => woken'[u]
                  BY <2>8, Zenon DEF Rouse
            <3>4. \A u \in Threads \ {t} : Serves(u) => Serves(u)'
                  BY <2>1, <3>3, Zenon DEF Others, Serves, Between, Looks, Owing
            <3>5. Served \ {t} \subseteq Served' /\ s \in Served' \ Served
                  BY <3>1, <3>2, <3>4, Zenon DEF Served
            <3>6. t \in Served
                  BY <2>1, Zenon DEF Served, Serves, Owing, ItemInv, RoleInv
            <3>7. Cardinality(Served) <= Cardinality(Served')
                  BY <1>w, <3>5, <3>6, Counting, Zenon
            <3>8. avail <= Cardinality(Served)
                  BY <3>1, Zenon DEF ItemInv, Sleeping
            <3>9. Sleeping'
                  BY <1>n, <2>1, <3>7, <3>8 DEF Sleeping
            <3>10. QED BY <1>0, <2>5, <3>9, Zenon DEF ItemInv
      <2>9. CASE CondBroadcast(t)
            <3>1. Rouse(Wakeable("seq"))
                  BY <2>9, Zenon DEF CondBroadcast, FutexWakeAll
            <3>2. \A u \in Threads : pc'[u] = "cw_asleep" => woken'[u]
                  BY <2>6, <3>1, Zenon DEF Rouse, Wakeable
            <3>3. QED BY <2>7, <3>2, Zenon
      <2>10. CASE CondSignal(t)
            <3>1. FutexWakeOne("seq")
                  BY <2>10, Zenon DEF CondSignal
            <3>2. CASE Wakeable("seq") = {} /\ UNCHANGED futex
                  <4>1. \A u \in Threads : pc'[u] = "cw_asleep" => woken'[u]
                        BY <2>6, <3>2, Zenon DEF Wakeable, futex
                  <4>2. QED BY <2>7, <4>1, Zenon
            <3>3. CASE \E s \in Wakeable("seq") : Rouse({s})
                  <4>1. PICK s \in Wakeable("seq") : Rouse({s})
                        BY <3>3, Zenon
                  <4>2. QED BY <2>8, <4>1, Zenon
            <3>4. QED BY <3>1, <3>2, <3>3, Zenon DEF FutexWakeOne
      <2>11. QED BY <1>7, <2>9, <2>10, Zenon
<1>8. QED BY <1>1, <1>2, <1>3, <1>4, <1>5, <1>6, <1>7, <1>q, MutexQuiet DEF Next, Library, Client, ItemInv

(* No item is forgotten while a consumer sleeps in pthread_cond_wait, as     *)
(* long as the counter of the condition has not wrapped (2^32 signals).      *)
THEOREM SignalsReach == Spec /\ [](puts < SeqMod) => []SignalNotLost
<1> DEFINE Inv == TypeOK /\ ThenInv /\ KeyInv /\ ItemInv
<1>1. Init => Inv
      <2> SUFFICES ASSUME Init PROVE ThenInv /\ KeyInv /\ ItemInv
          BY TypeInit, Zenon
      <2>1. ThenInv /\ KeyInv
            BY FutexAssumption, WordAssumption, Zenon DEF Init, FutexInit, ThenInv, KeyInv
      <2>2. Uncounted = {}
            BY Zenon DEF Init, Uncounted, Counts
      <2>3. CountInv
            BY <2>2, FS_EmptySet, WordAssumption DEF Init, CountInv
      <2>4. RoleInv /\ AboutToSleep /\ Sleeping
            BY Zenon DEF Init, RoleInv, AboutToSleep, Sleeping, Between, Counts
      <2>5. QED BY <2>1, <2>3, <2>4, Zenon DEF ItemInv
<1>2. Inv /\ puts < SeqMod /\ [Next]_vars => Inv'
      BY TypeStep, ThenStep, KeyStep, ItemStep, Zenon
<1>3. Inv => SignalNotLost
      <2> SUFFICES ASSUME Inv, NEW s \in Threads, pc[s] = "cw_asleep", blocked[s]
                   PROVE  avail <= Cardinality({t \in Threads : Looking(t) \/ Owing(t)})
          BY Zenon DEF SignalNotLost
      <2> DEFINE L == {t \in Threads : Looking(t) \/ Owing(t)}
      <2>1. avail <= Cardinality(Served)
            BY Zenon DEF ItemInv, Sleeping, KeyInv
      <2>2. \A t \in Threads : woken[t] => ~blocked[t]
            BY Zenon DEF KeyInv
      <2>3. Served \subseteq L
            BY <2>2, Zenon DEF Served, Serves, Looks, Looking, Between
      <2>4. Cardinality(Served) <= Cardinality(L) /\ Cardinality(Served) \in Nat /\ Cardinality(L) \in Nat
            BY <2>3, Counting, Zenon
      <2>5. QED BY <2>1, <2>4 DEF TypeOK
<1> HIDE DEF Inv
<1>4. QED BY <1>1, <1>2, <1>3, PTL DEF Spec
=============================================================================
