------------------------------- MODULE Futex --------------------------------
(***************************************************************************)
(* The kernel's futexes (syscall/mem/futex.c).  Every call takes            *)
(* g_futex_lock with interrupts off, so each is one step; a waiter gives    *)
(* its slot back in a second step, after it has run again.  A task has at   *)
(* most one slot of g_waiters, hence the slots are fields of the task.      *)
(***************************************************************************)
EXTENDS Naturals, FiniteSets

CONSTANTS Threads, Words,     \* tasks, and the words they wait on
          NoWord,             \* key of a task without a slot
          FUTEX_WAITERS_MAX   \* slots of g_waiters

ASSUME FutexAssumption == NoWord \notin Words /\ FUTEX_WAITERS_MAX \in Nat

VARIABLES mem,      \* contents of the words
          key,      \* key of the task's slot
          woken,    \* woken of the task's slot
          blocked   \* the task is BLOCKED

futex == <<key, woken, blocked>>

FutexInit == /\ key = [t \in Threads |-> NoWord]
             /\ woken = [t \in Threads |-> FALSE]
             /\ blocked = [t \in Threads |-> FALSE]

Used == {t \in Threads : key[t] # NoWord}

(* sys_futex_wait goes to sleep, unless the word has another value (EAGAIN) *)
(* or no slot is free (ENOMEM).                                             *)
CanSleep(w, expected) == mem[w] = expected /\ Cardinality(Used) < FUTEX_WAITERS_MAX

FutexSleep(t, w, expected) ==
    /\ CanSleep(w, expected)
    /\ key' = [key EXCEPT ![t] = w]
    /\ woken' = [woken EXCEPT ![t] = FALSE]
    /\ blocked' = [blocked EXCEPT ![t] = TRUE]

FutexRefuse(t, w, expected) == ~CanSleep(w, expected) /\ UNCHANGED futex

(* The rest of sys_futex_wait, once the task runs again. *)
FutexReturn(t) ==
    /\ key[t] # NoWord /\ ~blocked[t]
    /\ key' = [key EXCEPT ![t] = NoWord]
    /\ UNCHANGED <<woken, blocked>>

(* sys_futex_wake for one waiter, in any slot, and for all of them.  A      *)
(* waiter that a signal has made runnable keeps its slot and is eligible.   *)
Wakeable(w) == {t \in Threads : key[t] = w /\ ~woken[t]}

Rouse(S) == /\ woken' = [t \in Threads |-> woken[t] \/ t \in S]
            /\ blocked' = [t \in Threads |-> blocked[t] /\ t \notin S]
            /\ UNCHANGED key

FutexWakeOne(w) == \/ Wakeable(w) = {} /\ UNCHANGED futex
                   \/ \E t \in Wakeable(w) : Rouse({t})

FutexWakeAll(w) == Rouse(Wakeable(w))

(* signal_send makes a sleeping task runnable. *)
FutexSignal(t) == /\ blocked[t]
                  /\ blocked' = [blocked EXCEPT ![t] = FALSE]
                  /\ UNCHANGED <<key, woken>>

FutexTypes == /\ key \in [Threads -> Words \cup {NoWord}]
              /\ woken \in [Threads -> BOOLEAN] /\ blocked \in [Threads -> BOOLEAN]
=============================================================================
