------------------------------- MODULE Eventfd -------------------------------
(***************************************************************************)
(* An eventfd (kernel/src/syscall/io/eventfd.c): a counter with one slot    *)
(* for a sleeping reader.  A hold of e->lock is one step; the two stores    *)
(* that put the reader to sleep come after it, one by one.                  *)
(***************************************************************************)
EXTENDS Naturals

CONSTANTS EventReaders, NoReader,
          Width,            \* bits of the counter
          MaxWrites         \* bound on the calls of write

ASSUME ReaderAssumption == NoReader \notin EventReaders

VARIABLES count, semaphore, nonblock, waiter,
          e_pc,             \* idle, enter (about to take the lock), runnable (before
                            \* the first store), state (before the second), blocked, woken
          killed,           \* pending_kill
          writes,
          missed,           \* history: woken before it was BLOCKED
          displaced         \* history: another reader has taken its place in the slot
evars == <<count, semaphore, nonblock, waiter, e_pc, killed, writes, missed, displaced>>

EInit == /\ count \in 0 .. 1 /\ semaphore \in BOOLEAN /\ nonblock = FALSE
         /\ waiter = NoReader /\ e_pc = [t \in EventReaders |-> "idle"] /\ killed = {}
         /\ writes = 0 /\ missed = {} /\ displaced = {}

EGoto(t, p) == e_pc' = [e_pc EXCEPT ![t] = p]
Range64 == 2 ^ Width
efixed == <<semaphore, nonblock>>
ehistory == <<missed, displaced>>
-----------------------------------------------------------------------------
EReadCall(t) == /\ e_pc[t] = "idle" /\ t \notin killed /\ EGoto(t, "enter")
                /\ UNCHANGED <<count, efixed, waiter, killed, writes, ehistory>>

(* One turn of the loop under the lock: take, or give up, or take the slot. *)
Given == IF semaphore THEN 1 ELSE count
efd_read(t) ==
    /\ e_pc[t] = "enter"
    /\ \/ count > 0 /\ count' = count - Given /\ EGoto(t, "idle") /\ UNCHANGED <<waiter, ehistory>>
       \/ count = 0 /\ nonblock /\ EGoto(t, "idle") /\ UNCHANGED <<count, waiter, ehistory>>
       \/ /\ count = 0 /\ ~nonblock /\ EGoto(t, "runnable")
          /\ waiter' = t /\ missed' = missed \ {t}
          /\ displaced' = (displaced \cup ({waiter} \ {NoReader})) \ {t}
          /\ UNCHANGED count
    /\ UNCHANGED <<efixed, killed, writes>>
ENotRunnable(t) == /\ e_pc[t] = "runnable" /\ EGoto(t, "state")
                   /\ UNCHANGED <<count, efixed, waiter, killed, writes, ehistory>>
EBlock(t) == /\ e_pc[t] = "state" /\ EGoto(t, "blocked")
             /\ UNCHANGED <<count, efixed, waiter, killed, writes, ehistory>>

(* task_unblock of the task in the slot does nothing to one that is not     *)
(* BLOCKED yet.                                                             *)
WakesNobody == UNCHANGED <<waiter, e_pc, ehistory>>
wake_one == IF waiter = NoReader THEN UNCHANGED <<waiter, e_pc, ehistory>>
            ELSE /\ waiter' = NoReader
                 /\ e_pc' = [e_pc EXCEPT ![waiter] = IF @ = "blocked" THEN "woken" ELSE @]
                 /\ missed' = IF e_pc[waiter] \in {"runnable", "state"}
                              THEN missed \cup {waiter} ELSE missed
                 /\ UNCHANGED displaced
efd_write == /\ writes < MaxWrites /\ writes' = writes + 1
             /\ \E add \in 0 .. Range64 - 2 :
                  /\ (count + add) % Range64 >= count
                  /\ count' = (count + add) % Range64
             /\ wake_one
             /\ UNCHANGED <<efixed, killed>>
efd_ioctl == /\ nonblock' = ~nonblock
             /\ UNCHANGED <<count, semaphore, waiter, e_pc, killed, writes, ehistory>>

(* Back in the loop a task that was killed leaves; its slot stays as it is. *)
(* A signal or a kill wakes a BLOCKED task.                                 *)
EResume(t) == /\ e_pc[t] = "woken" /\ EGoto(t, IF t \in killed THEN "idle" ELSE "enter")
              /\ UNCHANGED <<count, efixed, waiter, killed, writes, ehistory>>
ESignal(t) == /\ e_pc[t] = "blocked" /\ EGoto(t, "woken")
              /\ UNCHANGED <<count, efixed, waiter, killed, writes, ehistory>>
EKill(t) == /\ t \notin killed /\ killed' = killed \cup {t}
            /\ e_pc' = [e_pc EXCEPT ![t] = IF @ = "blocked" THEN "woken" ELSE @]
            /\ UNCHANGED <<count, efixed, waiter, writes, ehistory>>

ENext == efd_write \/ efd_ioctl
         \/ \E t \in EventReaders : EReadCall(t) \/ efd_read(t) \/ ENotRunnable(t) \/ EBlock(t)
                                    \/ EResume(t) \/ ESignal(t) \/ EKill(t)
ESpec == EInit /\ [][ENext]_evars
-----------------------------------------------------------------------------
(* A reader asleep in efd_read has nothing to read, with two exceptions of  *)
(* this code: the write came between its entry into the slot and its        *)
(* becoming BLOCKED, or another reader has taken its place in the slot.     *)
EventNotMissed ==
    \A t \in EventReaders : (e_pc[t] = "blocked" /\ count > 0) => t \in missed \cup displaced
=============================================================================
