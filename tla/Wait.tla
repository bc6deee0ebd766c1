-------------------------------- MODULE Wait --------------------------------
(***************************************************************************)
(* fork, exit and wait (syscall/process/wait.c, task_fork, task_exit and    *)
(* task_wakeup_waiters of sched/sched.c), one access at a time where no     *)
(* lock covers two of them.  System calls start with interrupts off; once   *)
(* sched_reschedule has returned inside one they are on, and the task can   *)
(* be preempted between any two of its steps.                               *)
(***************************************************************************)
EXTENDS Integers, FiniteSets

CONSTANTS Procs, init,      \* init is pid 1 and never exits
          AnyChild, Nobody, \* waitpid(-1); no pid and no task
          NCPU,             \* number of CPUs
          Catchers,         \* tasks with a handler for SIGCHLD
          Interrupts,       \* tasks may be sent other signals and be killed
          WaitsForAny       \* programs also call waitpid(-1)

ASSUME ProcAssumption == init \in Procs /\ {AnyChild, Nobody} \cap Procs = {}

VARIABLES
    p_state, runnable, on_cpu,  \* of the task
    parent, children,           \* task_t.parent/ppid and the list of children
    wait_for_pid, p_kill,
    p_pc, arg, zombie,          \* step of the system call, pid_arg, local zombie
    intr                        \* interrupts are on inside the system call

psched == <<p_state, runnable, on_cpu>>
family == <<parent, children>>
pcall == <<p_pc, arg, zombie, intr>>
pvars == <<psched, family, wait_for_pid, p_kill, pcall>>

PInit == /\ p_state = [p \in Procs |-> IF p = init THEN "RUNNING" ELSE "NEW"]
         /\ runnable = [p \in Procs |-> p = init]
         /\ on_cpu = [p \in Procs |-> p = init]
         /\ parent = [p \in Procs |-> Nobody]
         /\ children = [p \in Procs |-> {}]
         /\ wait_for_pid = [p \in Procs |-> Nobody]
         /\ p_kill = [p \in Procs |-> FALSE]
         /\ p_pc = [p \in Procs |-> "user"]
         /\ arg = [p \in Procs |-> Nobody]
         /\ zombie = [p \in Procs |-> Nobody]
         /\ intr = [p \in Procs |-> FALSE]

PAt(p, l) == on_cpu[p] /\ p_pc[p] = l
PGo(p, l) == p_pc' = [p_pc EXCEPT ![p] = l]
-----------------------------------------------------------------------------
(* The scheduler, seen from here: a runnable task is given a CPU; a task    *)
(* that leaves its CPU is put back only if it is runnable.                  *)
Dispatch(p) ==
    /\ p_state[p] = "READY" /\ runnable[p] /\ ~on_cpu[p]
    /\ Cardinality({q \in Procs : on_cpu[q]}) < NCPU
    /\ on_cpu' = [on_cpu EXCEPT ![p] = TRUE]
    /\ p_state' = [p_state EXCEPT ![p] = "RUNNING"]
    /\ UNCHANGED <<runnable, family, wait_for_pid, p_kill, pcall>>

LeaveCpu(p) ==
    /\ on_cpu' = [on_cpu EXCEPT ![p] = FALSE]
    /\ p_state' = [p_state EXCEPT ![p] = IF @ # "ZOMBIE" /\ runnable[p] THEN "READY" ELSE @]
    /\ UNCHANGED runnable

(* A timer interrupt in user mode, or in a system call with interrupts on.  *)
Preempt(p) ==
    /\ on_cpu[p] /\ (p_pc[p] = "user" \/ intr[p]) /\ p_state[p] # "ZOMBIE"
    /\ p_pc[p] # "resched"
    /\ LeaveCpu(p)
    /\ UNCHANGED <<family, wait_for_pid, p_kill, pcall>>

(* task_unblock. *)
PUnblock(p) ==
    /\ p_state' = [p_state EXCEPT ![p] = IF @ = "BLOCKED" THEN "READY" ELSE @]
    /\ runnable' = [runnable EXCEPT ![p] = @ \/ p_state[p] = "BLOCKED"]

(* A signal with a handler, or SIGKILL. *)
PSignal(p) ==
    /\ Interrupts /\ p # init /\ p_state[p] \in {"READY", "RUNNING", "BLOCKED"}
    /\ PUnblock(p)
    /\ p_kill' \in {p_kill, [p_kill EXCEPT ![p] = TRUE]}
    /\ UNCHANGED <<on_cpu, family, wait_for_pid, pcall>>
-----------------------------------------------------------------------------
(* task_fork. *)
Fork(p) == \E c \in Procs :
    /\ PAt(p, "user") /\ ~p_kill[p] /\ p_state[c] = "NEW"
    /\ p_state' = [p_state EXCEPT ![c] = "READY"]
    /\ runnable' = [runnable EXCEPT ![c] = TRUE]
    /\ parent' = [parent EXCEPT ![c] = p]
    /\ children' = [children EXCEPT ![p] = @ \cup {c}]
    /\ UNCHANGED <<on_cpu, wait_for_pid, p_kill, pcall>>

(* sys_wait is entered. *)
sys_wait(p) == \E a \in children[p] \cup (IF WaitsForAny THEN {AnyChild} ELSE {}) :
        /\ PAt(p, "user") /\ ~p_kill[p]
        /\ arg' = [arg EXCEPT ![p] = a]
        /\ intr' = [intr EXCEPT ![p] = FALSE]
        /\ PGo(p, "scan")
        /\ UNCHANGED <<psched, family, wait_for_pid, p_kill, zombie>>

Zombies(p) == {c \in children[p] : arg[p] \in {AnyChild, c} /\ p_state[c] = "ZOMBIE"}
Ready(p) == {c \in Zombies(p) : ~on_cpu[c]}

(* The scan under children_lock finds a zombie to reap, ... *)
Scan(p) == \E c \in Ready(p) :
    /\ PAt(p, "scan")
    /\ zombie' = [zombie EXCEPT ![p] = c]
    /\ PGo(p, "reap")
    /\ UNCHANGED <<psched, family, wait_for_pid, p_kill, arg, intr>>

(* ... or only one that has not left its CPU yet: task_yield and retry, ... *)
ScanYield(p) ==
    /\ PAt(p, "scan") /\ Ready(p) = {} /\ Zombies(p) # {}
    /\ LeaveCpu(p)
    /\ intr' = [intr EXCEPT ![p] = TRUE]
    /\ UNCHANGED <<family, wait_for_pid, p_kill, p_pc, arg, zombie>>

(* ... or nothing: 0 with WNOHANG, otherwise wait_for_pid is set. *)
ScanNothing(p) ==
    /\ PAt(p, "scan") /\ Zombies(p) = {}
    /\ \/ PGo(p, "user") /\ UNCHANGED wait_for_pid
       \/ PGo(p, "forpid") /\ wait_for_pid' = [wait_for_pid EXCEPT ![p] = arg[p]]
    /\ UNCHANGED <<psched, family, p_kill, arg, zombie, intr>>

(* The two stores that put the caller to sleep, and sched_reschedule. *)
PNotRunnable(p) ==
    /\ PAt(p, "forpid")
    /\ runnable' = [runnable EXCEPT ![p] = FALSE]
    /\ PGo(p, "block")
    /\ UNCHANGED <<p_state, on_cpu, family, wait_for_pid, p_kill, arg, zombie, intr>>

PBlock(p) ==
    /\ PAt(p, "block")
    /\ p_state' = [p_state EXCEPT ![p] = "BLOCKED"]
    /\ PGo(p, "resched")
    /\ UNCHANGED <<runnable, on_cpu, family, wait_for_pid, p_kill, arg, zombie, intr>>

Resched(p) ==
    /\ PAt(p, "resched")
    /\ LeaveCpu(p)
    /\ intr' = [intr EXCEPT ![p] = TRUE]
    /\ PGo(p, "resumed")
    /\ UNCHANGED <<family, wait_for_pid, p_kill, arg, zombie>>

(* -EINTR for a killed task, otherwise all over again. *)
Resumed(p) ==
    /\ PAt(p, "resumed")
    /\ PGo(p, IF p_kill[p] THEN "user" ELSE "scan")
    /\ UNCHANGED <<psched, family, wait_for_pid, p_kill, arg, zombie, intr>>

(* The zombie is unlinked and destroyed; a bad status pointer leaves it.    *)
Reap(p) == LET z == zombie[p] IN
    /\ PAt(p, "reap")
    /\ \/ /\ children' = [children EXCEPT ![p] = @ \ {z}]
          /\ parent' = [parent EXCEPT ![z] = Nobody]
          /\ p_state' = [p_state EXCEPT ![z] = "GONE"]
       \/ UNCHANGED <<family, p_state>>
    /\ zombie' = [zombie EXCEPT ![p] = Nobody]
    /\ PGo(p, "user")
    /\ UNCHANGED <<runnable, on_cpu, wait_for_pid, p_kill, arg, intr>>
-----------------------------------------------------------------------------
(* task_exit hands the children to init, ... *)
ExitKeepsChildren(p) ==
    /\ PAt(p, "user") /\ p # init
    /\ PGo(p, "exit")
    /\ intr' = [intr EXCEPT ![p] = FALSE]
    /\ UNCHANGED <<psched, family, wait_for_pid, p_kill, arg, zombie>>
Exit(p) ==
    /\ PAt(p, "user") /\ p # init
    /\ children' = [children EXCEPT ![p] = {}, ![init] = @ \cup children[p]]
    /\ parent' = [c \in Procs |-> IF c \in children[p] THEN init ELSE parent[c]]
    /\ PGo(p, "exit")
    /\ intr' = [intr EXCEPT ![p] = FALSE]
    /\ UNCHANGED <<psched, wait_for_pid, p_kill, arg, zombie>>

(* ... becomes a zombie, ... *)
BecomeZombie(p) ==
    /\ PAt(p, "exit")
    /\ p_state' = [p_state EXCEPT ![p] = "ZOMBIE"]
    /\ runnable' = [runnable EXCEPT ![p] = FALSE]
    /\ PGo(p, "wakeup")
    /\ UNCHANGED <<on_cpu, family, wait_for_pid, p_kill, arg, zombie, intr>>

(* ... wakes whoever is blocked and waits for it (task_wakeup_waiters), ... *)
Waiters(p) == {q \in Procs : p_state[q] = "BLOCKED" /\ wait_for_pid[q] \in {p, AnyChild}}

WakeWaiters(p) ==
    /\ PAt(p, "wakeup")
    /\ wait_for_pid' = [q \in Procs |-> IF q \in Waiters(p) THEN Nobody ELSE wait_for_pid[q]]
    /\ runnable' = [q \in Procs |-> runnable[q] \/ q \in Waiters(p)]
    /\ p_state' = [q \in Procs |-> IF q \in Waiters(p) THEN "READY" ELSE p_state[q]]
    /\ PGo(p, "sigchld")
    /\ UNCHANGED <<on_cpu, family, p_kill, arg, zombie, intr>>

(* ... sends SIGCHLD, which wakes a parent that does not ignore it, ... *)
SigChld(p) ==
    /\ PAt(p, "sigchld")
    /\ IF parent[p] \in Catchers THEN PUnblock(parent[p]) ELSE UNCHANGED <<p_state, runnable>>
    /\ PGo(p, "leave")
    /\ UNCHANGED <<on_cpu, family, wait_for_pid, p_kill, arg, zombie, intr>>

(* ... and leaves its CPU for good. *)
Leave(p) ==
    /\ PAt(p, "leave")
    /\ LeaveCpu(p)
    /\ PGo(p, "dead")
    /\ UNCHANGED <<family, wait_for_pid, p_kill, arg, zombie, intr>>

Waiting(p) == \/ Scan(p) \/ ScanYield(p) \/ ScanNothing(p) \/ PNotRunnable(p) \/ PBlock(p)
              \/ Resched(p) \/ Resumed(p) \/ Reap(p)
Exiting(p) == BecomeZombie(p) \/ WakeWaiters(p) \/ SigChld(p) \/ Leave(p)

PNext == \E p \in Procs : \/ Dispatch(p) \/ Preempt(p) \/ PSignal(p)
                          \/ Fork(p) \/ sys_wait(p) \/ Waiting(p) \/ Exit(p) \/ Exiting(p)

PSpec == PInit /\ [][PNext]_pvars
-----------------------------------------------------------------------------
(* Every process that has not been reaped is in the list of exactly one     *)
(* parent, and that parent has not left user mode for task_exit: a zombie   *)
(* always has somebody who can reap it.  What sys_wait destroys is still    *)
(* its own zombie child, with its kernel stack off every CPU, although the  *)
(* lock was dropped since the scan.                                         *)
ReapedByParent ==
    /\ \A c \in Procs \ {init} : p_state[c] \notin {"NEW", "GONE"} =>
          \E p \in Procs : /\ {q \in Procs : c \in children[q]} = {p} /\ parent[c] = p
                           /\ p_pc[p] \notin {"exit", "wakeup", "sigchld", "leave", "dead"}
    /\ \A p \in Procs : p_pc[p] = "reap" =>
          LET z == zombie[p] IN
          /\ z \in children[p] /\ p_state[z] = "ZOMBIE" /\ ~on_cpu[z] /\ p_pc[z] = "dead"
          /\ arg[p] \in {AnyChild, z}

(* A waiting parent is not left asleep once a child it waits for has gone   *)
(* through its wakeups and no other exit is about to wake it ("Blocks       *)
(* until a child exits and reports which one", wait.2).                     *)
ExitNoticed ==
    \A p \in Procs : p_pc[p] \in {"block", "resumed"} /\ ~on_cpu[p] /\ ~runnable[p] =>
       \A c \in Zombies(p) : \/ p_pc[c] = "wakeup"
                             \/ p_pc[c] = "sigchld" /\ p \in Catchers
                             \/ arg[p] = AnyChild /\ \E q \in Procs : p_pc[q] \in {"exit", "wakeup"}
=============================================================================
