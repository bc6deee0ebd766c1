------------------------------ MODULE Pthread -------------------------------
(***************************************************************************)
(* Mutexes and condition variables of the C library                        *)
(* (usr/lib/libcervus/pthread/pthread.c) over the kernel's futexes, used by *)
(* producers and consumers of items that the mutex protects: a consumer     *)
(* takes one when there is one and waits on the condition otherwise, a      *)
(* producer adds one and signals, with the mutex held or after unlocking.   *)
(* Each atomic access of the library is a step.                             *)
(***************************************************************************)
EXTENDS Futex

CONSTANTS Producers, Consumers, NoThread,
          Recursive,    \* the mutex is PTHREAD_MUTEX_RECURSIVE, not NORMAL
          Signals,      \* threads may be sent signals
          SeqMod,       \* values of the counter of the condition, 2^32
          MaxPuts       \* bound: a producer starts a call only below it

ASSUME ThreadAssumption == Threads = Producers \cup Consumers /\ Producers \cap Consumers = {}
                           /\ NoThread \notin Threads /\ IsFiniteSet(Threads)
ASSUME WordAssumption == Words = {"state", "seq"}
ASSUME BoundAssumption == /\ SeqMod \in Nat \ {0} /\ MaxPuts \in Nat
                          /\ Recursive \in BOOLEAN /\ Signals \in BOOLEAN

VARIABLES pc, then,       \* step of the call; where it returns to
          seq,            \* local seq of pthread_cond_wait
          owner, count,   \* of a recursive mutex
          avail, puts     \* the items, and how many were ever added

own == <<owner, count>>
items == <<avail, puts>>
vars == <<mem, futex, pc, then, seq, own, items>>

Init == /\ FutexInit
        /\ mem = [w \in Words |-> 0]
        /\ pc = [t \in Threads |-> "idle"]
        /\ then = [t \in Threads |-> "idle"]
        /\ seq = [t \in Threads |-> 0]
        /\ owner = NoThread /\ count = 0
        /\ avail = 0 /\ puts = 0

Go(t, l) == pc' = [pc EXCEPT ![t] = l]
Return(t) == Go(t, then[t])
Set(w, v) == mem' = [mem EXCEPT ![w] = v]

(* The plain stores to owner and count after the acquisition: other threads *)
(* only compare owner with themselves.                                      *)
Own(t) == IF Recursive THEN owner' = t /\ count' = 1 ELSE UNCHANGED own
Disown == IF Recursive THEN owner' = NoThread /\ count' = 0 ELSE UNCHANGED own
-----------------------------------------------------------------------------
(* A producer calls as long as there is something left to produce: nothing  *)
(* in mutex_acquire stops a thread that locks again and again from          *)
(* overtaking a thread it has woken.                                        *)
Calls(t) == pc[t] = "idle" /\ (t \in Producers => puts < MaxPuts)

(* mutex_acquire: compare-exchange, ... *)
LockUncontended(t) ==
    /\ Calls(t) \/ pc[t] = "relock"
    /\ IF mem["state"] # 2 THEN Set("state", 1) /\ Go(t, "held") /\ Own(t)
                            ELSE Go(t, "xchg") /\ UNCHANGED <<mem, own>>
    /\ UNCHANGED <<futex, then, seq, items>>
Lock(t) ==
    /\ Calls(t) \/ pc[t] = "relock"
    /\ IF mem["state"] = 0 THEN Set("state", 1) /\ Go(t, "held") /\ Own(t)
                           ELSE Go(t, "xchg") /\ UNCHANGED <<mem, own>>
    /\ UNCHANGED <<futex, then, seq, items>>

(* ... then exchange with 2 ... *)
XchgTakesOne(t) ==
    /\ pc[t] = "xchg"
    /\ Set("state", IF mem["state"] = 0 THEN 1 ELSE 2)
    /\ IF mem["state"] = 0 THEN Go(t, "held") /\ Own(t) ELSE Go(t, "wait") /\ UNCHANGED own
    /\ UNCHANGED <<futex, then, seq, items>>
Xchg(t) ==
    /\ pc[t] = "xchg"
    /\ Set("state", 2)
    /\ IF mem["state"] = 0 THEN Go(t, "held") /\ Own(t) ELSE Go(t, "wait") /\ UNCHANGED own
    /\ UNCHANGED <<futex, then, seq, items>>

(* ... and futex_wait, again and again. *)
LockWait(t) ==
    /\ pc[t] = "wait"
    /\ \/ FutexSleep(t, "state", 2) /\ Go(t, "asleep")
       \/ FutexRefuse(t, "state", 2) /\ Go(t, "xchg")
    /\ UNCHANGED <<mem, then, seq, own, items>>

LockReturn(t) ==
    /\ pc[t] = "asleep"
    /\ FutexReturn(t)
    /\ Go(t, "xchg")
    /\ UNCHANGED <<mem, then, seq, own, items>>

(* pthread_mutex_trylock: EBUSY changes nothing. *)
TryLock(t) ==
    /\ Calls(t) /\ mem["state"] = 0
    /\ Set("state", 1) /\ Go(t, "held") /\ Own(t)
    /\ UNCHANGED <<futex, then, seq, items>>

(* pthread_mutex_lock by the owner of a recursive mutex, and the unlock     *)
(* that only undoes it.                                                     *)
MaxNest == 2
LockAgain(t) ==
    /\ pc[t] = "held" /\ Recursive /\ owner = t /\ count < MaxNest
    /\ count' = count + 1
    /\ UNCHANGED <<mem, futex, pc, then, seq, owner, items>>

UnlockInner(t) ==
    /\ pc[t] = "held" /\ Recursive /\ owner = t /\ count > 1
    /\ count' = count - 1
    /\ UNCHANGED <<mem, futex, pc, then, seq, owner, items>>

(* pthread_mutex_unlock, called by the client when done or with a signal    *)
(* still owed, and by pthread_cond_wait.                                    *)
AfterUnlock(l) == CASE l = "done" -> "idle" [] l = "put" -> "put_out" [] l = "cw_unlock" -> "cw_wait"

UnlockNoWake(t) ==
    /\ pc[t] \in {"done", "put", "cw_unlock"} /\ (Recursive => owner = t)
    /\ Set("state", 0) /\ Disown
    /\ then' = [then EXCEPT ![t] = AfterUnlock(pc[t])]
    /\ Go(t, AfterUnlock(pc[t]))
    /\ UNCHANGED <<futex, seq, items>>
Unlock(t) ==
    /\ pc[t] \in {"done", "put", "cw_unlock"} /\ (Recursive => owner = t)
    /\ Set("state", 0) /\ Disown
    /\ then' = [then EXCEPT ![t] = AfterUnlock(pc[t])]
    /\ Go(t, IF mem["state"] = 2 THEN "unlock_wake" ELSE AfterUnlock(pc[t]))
    /\ UNCHANGED <<futex, seq, items>>

UnlockWake(t) ==
    /\ pc[t] = "unlock_wake"
    /\ FutexWakeOne("state")
    /\ Return(t)
    /\ UNCHANGED <<mem, then, seq, own, items>>
-----------------------------------------------------------------------------
(* pthread_cond_wait, by a consumer that finds nothing: load seq, unlock,   *)
(* futex_wait, lock.                                                        *)
CondWait(t) ==
    /\ t \in Consumers /\ pc[t] = "held" /\ avail = 0 /\ count <= 1
    /\ seq' = [seq EXCEPT ![t] = mem["seq"]]
    /\ Go(t, "cw_unlock")
    /\ UNCHANGED <<mem, futex, then, own, items>>

CondSleepBlindly(t) ==
    /\ pc[t] = "cw_wait"
    /\ FutexSleep(t, "seq", mem["seq"]) /\ Go(t, "cw_asleep")
    /\ UNCHANGED <<mem, then, seq, own, items>>
CondSleep(t) ==
    /\ pc[t] = "cw_wait"
    /\ \/ FutexSleep(t, "seq", seq[t]) /\ Go(t, "cw_asleep")
       \/ FutexRefuse(t, "seq", seq[t]) /\ Go(t, "relock")
    /\ UNCHANGED <<mem, then, seq, own, items>>

CondReturn(t) ==
    /\ pc[t] = "cw_asleep"
    /\ FutexReturn(t)
    /\ Go(t, "relock")
    /\ UNCHANGED <<mem, then, seq, own, items>>

(* pthread_cond_signal and pthread_cond_broadcast: count, then wake. *)
CondCount(t) ==
    /\ pc[t] \in {"put", "put_out"}
    /\ Set("seq", (mem["seq"] + 1) % SeqMod)
    /\ then' = [then EXCEPT ![t] = IF pc[t] = "put" THEN "done" ELSE "idle"]
    /\ \/ Go(t, "signal") \/ Go(t, "broadcast")
    /\ UNCHANGED <<futex, seq, own, items>>

CondSignal(t) ==
    /\ pc[t] = "signal"
    /\ FutexWakeOne("seq")
    /\ Return(t)
    /\ UNCHANGED <<mem, then, seq, own, items>>

CondBroadcast(t) ==
    /\ pc[t] = "broadcast"
    /\ FutexWakeAll("seq")
    /\ Return(t)
    /\ UNCHANGED <<mem, then, seq, own, items>>
-----------------------------------------------------------------------------
(* The clients. *)
Put(t) ==
    /\ t \in Producers /\ pc[t] = "held" /\ count <= 1
    /\ avail' = avail + 1 /\ puts' = puts + 1
    /\ Go(t, "put")
    /\ UNCHANGED <<mem, futex, then, seq, own>>

Take(t) ==
    /\ t \in Consumers /\ pc[t] = "held" /\ count <= 1 /\ avail > 0
    /\ avail' = avail - 1
    /\ Go(t, "done")
    /\ UNCHANGED <<mem, futex, then, seq, own, puts>>

Interrupted(t) ==
    /\ Signals /\ FutexSignal(t)
    /\ UNCHANGED <<mem, pc, then, seq, own, items>>

Library(t) == \/ Xchg(t) \/ LockWait(t) \/ LockReturn(t) \/ Unlock(t) \/ UnlockWake(t)
              \/ CondSleep(t) \/ CondReturn(t) \/ CondCount(t) \/ CondSignal(t) \/ CondBroadcast(t)
Client(t) == CondWait(t) \/ Put(t) \/ Take(t)

Next == \E t \in Threads : \/ Lock(t) \/ TryLock(t) \/ LockAgain(t) \/ UnlockInner(t)
                           \/ Library(t) \/ Client(t) \/ Interrupted(t)

Spec == Init /\ [][Next]_vars

(* A thread inside a call, in its critical section or owing a signal keeps  *)
(* running, undoes its inner locks and does not lock a recursive mutex over *)
(* and over; a thread in "idle" need not call again.                        *)
Relock(t) == pc[t] = "relock" /\ Lock(t)
FairSpec == /\ Spec
            /\ \A t \in Threads : /\ WF_vars(Library(t) \/ Relock(t))
                                  /\ SF_vars(Client(t)) /\ WF_vars(UnlockInner(t))
-----------------------------------------------------------------------------
Labels == {"idle", "relock", "xchg", "wait", "asleep", "held", "done", "put", "put_out",
           "unlock_wake", "cw_unlock", "cw_wait", "cw_asleep", "signal", "broadcast"}

(* Every variable stays in its type; the mutex word is 0, 1 or 2. *)
TypeOK == /\ FutexTypes
          /\ mem \in [Words -> Nat] /\ mem["state"] \in 0..2
          /\ pc \in [Threads -> Labels] /\ then \in [Threads -> {"idle", "done", "put_out", "cw_wait"}]
          /\ seq \in [Threads -> Nat]
          /\ owner \in Threads \cup {NoThread} /\ count \in 0..MaxNest
          /\ avail \in Nat /\ puts \in Nat

(* The thread is between a lock that succeeded and the exchange of unlock. *)
Holds(t) == \/ pc[t] \in {"held", "done", "put", "cw_unlock"}
            \/ pc[t] \in {"signal", "broadcast"} /\ then[t] = "done"

(* pthread_mutex_lock and trylock let one thread in at a time, however the  *)
(* compare-exchange, the exchanges and the spurious returns of futex_wait   *)
(* interleave, and a recursive mutex is owned by that thread.               *)
MutualExclusion ==
    \A t \in Threads : Holds(t) => /\ \A u \in Threads \ {t} : ~Holds(u)
                                   /\ mem["state"] # 0
                                   /\ Recursive => owner = t

(* The thread is awake on the slow path of mutex_acquire. *)
Trying(t) == pc[t] \in {"xchg", "wait"} \/ (pc[t] = "asleep" /\ ~blocked[t])

(* No sleeper of a mutex is forgotten: the word says 2, so that the holder  *)
(* will wake one, or a wake is on its way, or another thread is awake on    *)
(* the slow path and will leave 2 behind.                                   *)
SleeperNotForgotten ==
    (\E t \in Threads : pc[t] = "asleep" /\ blocked[t]) =>
       \/ mem["state"] = 2
       \/ \E u \in Threads : pc[u] = "unlock_wake" \/ Trying(u)

(* The consumer will look at the items again without another signal. *)
Looking(t) == /\ t \in Consumers
              /\ \/ pc[t] \in {"relock", "xchg", "wait", "asleep", "held"}
                 \/ pc[t] \in {"cw_unlock", "cw_wait"} /\ seq[t] # mem["seq"]
                 \/ pc[t] = "unlock_wake" /\ then[t] = "cw_wait" /\ seq[t] # mem["seq"]
                 \/ pc[t] = "cw_asleep" /\ ~blocked[t]
Owing(t) == /\ t \in Producers
            /\ \/ pc[t] \in {"put", "put_out", "signal", "broadcast"}
               \/ pc[t] = "unlock_wake" /\ then[t] = "put_out"

(* No signal of a condition is lost: while a consumer sleeps in             *)
(* pthread_cond_wait, every item there is has a consumer that will look     *)
(* again or a producer that still has to signal.                            *)
SignalNotLost ==
    (\E t \in Threads : pc[t] = "cw_asleep" /\ blocked[t])
       => avail <= Cardinality({t \in Threads : Looking(t) \/ Owing(t)})

(* The mutex implements MutexSpec. *)
TheHolder == IF \E t \in Threads : Holds(t) THEN CHOOSE t \in Threads : Holds(t) ELSE NoThread
Abstract == INSTANCE MutexSpec WITH holder <- TheHolder
IsMutex == Abstract!Spec

(* While threads wait for the mutex somebody gets it again and again. *)
MutexMoves == (\E t \in Threads : pc[t] \in {"relock", "xchg", "wait", "asleep"})
                 ~> (\E t \in Threads : Holds(t))

(* An item does not stay while a consumer sleeps. *)
ItemsTaken == (avail > 0 /\ \E t \in Consumers : pc[t] = "cw_asleep")
                 ~> (avail = 0 \/ \A t \in Consumers : pc[t] # "cw_asleep")
=============================================================================
