------------------------------- MODULE Sched --------------------------------
(***************************************************************************)
(* The scheduler of sched/sched.c on several CPUs: ready queues under one   *)
(* lock, the on_cpu and on_rq flags taken by compare-and-swap,              *)
(* sched_reschedule in the steps the other CPUs can fall between, and       *)
(* task_unblock, whose check and stores take no lock of the scheduler.      *)
(* Each CPU runs with interrupts off from one step of sched_reschedule to   *)
(* the next.                                                                *)
(***************************************************************************)
EXTENDS Integers, Sequences

CONSTANTS CPUs, Tasks,
          Wakers,          \* contexts that may be inside task_unblock
          Orphans,         \* tasks without a parent (task_create_ex)
          Prio,            \* task_t.priority of each task
          Affinity,        \* the CPUs task_t.cpu_affinity lets each task run on
          Idle, NoTask     \* idle_tasks[cpu], a NULL task pointer

ASSUME TaskAssumption == Idle \notin Tasks /\ NoTask \notin Tasks /\ Idle # NoTask
ASSUME PrioAssumption == Prio \in [Tasks -> Nat] /\ Affinity \in [Tasks -> SUBSET CPUs]
ASSUME KindAssumption == Orphans \subseteq Tasks

VARIABLES
    state, runnable,       \* task_t.state and task_t.runnable
    on_cpu, on_rq,         \* the two atomic flags of a task
    ready_queues,          \* per priority, head first
    current_task,          \* per CPU
    pc, next, prev,        \* per CPU: step of sched_reschedule, its locals
    deferred_free_task,    \* per CPU: percpu_t.deferred_free_task
    exited, freed,         \* the task entered task_exit; its task_t is freed
    wpc, wtask,            \* per waker: step of task_unblock, its task
    overtaken              \* history: tasks that a waker's store was too late for

sched == <<state, runnable>>
queues == <<on_rq, ready_queues>>
cpu == <<current_task, pc, next, prev, deferred_free_task>>
life == <<exited, freed>>
wake == <<wpc, wtask>>
vars == <<sched, on_cpu, queues, cpu, life, wake, overtaken>>

Priorities == {Prio[t] : t \in Tasks}

Init == /\ state = [t \in Tasks |-> "NEW"]
        /\ runnable = [t \in Tasks |-> FALSE]
        /\ on_cpu = [t \in Tasks |-> FALSE]
        /\ on_rq = [t \in Tasks |-> FALSE]
        /\ ready_queues = [p \in Priorities |-> <<>>]
        /\ current_task = [c \in CPUs |-> Idle]
        /\ pc = [c \in CPUs |-> "run"]
        /\ next = [c \in CPUs |-> Idle]
        /\ prev = [c \in CPUs |-> Idle]
        /\ deferred_free_task = [c \in CPUs |-> NoTask]
        /\ exited = [t \in Tasks |-> FALSE]
        /\ freed = [t \in Tasks |-> FALSE]
        /\ wpc = [w \in Wakers |-> "idle"]
        /\ wtask = [w \in Wakers |-> NoTask]
        /\ overtaken = {}

(* enqueue_global: push at the head unless on_rq says it is queued already. *)
EnqueueAlways(t) ==
    /\ on_rq' = [on_rq EXCEPT ![t] = TRUE]
    /\ ready_queues' = [ready_queues EXCEPT ![Prio[t]] = <<t>> \o @]
Enqueue(t) ==
    IF on_rq[t]
    THEN UNCHANGED queues
    ELSE /\ on_rq' = [on_rq EXCEPT ![t] = TRUE]
         /\ ready_queues' = [ready_queues EXCEPT ![Prio[t]] = <<t>> \o @]

(* task_create_ex, task_create_user, task_spawn_thread and task_fork. *)
Create(t) ==
    /\ state[t] = "NEW"
    /\ state' = [state EXCEPT ![t] = "READY"]
    /\ runnable' = [runnable EXCEPT ![t] = TRUE]
    /\ Enqueue(t)
    /\ UNCHANGED <<on_cpu, cpu, life, wake, overtaken>>
-----------------------------------------------------------------------------
Runs(c, t) == pc[c] = "run" /\ current_task[c] = t

(* The task goes on although a waker has one of these stores still to make  *)
(* for its last sleep: most wakers hold no lock that the task waits for     *)
(* (signal_send, task_kill, the timer, unix_connect).                       *)
Overtake(t, steps) ==
    overtaken' = IF \E w \in Wakers : wtask[w] = t /\ wpc[w] \in steps
                 THEN overtaken \cup {t} ELSE overtaken

(* The current task marks itself BLOCKED and calls sched_reschedule, with   *)
(* interrupts off: task_sleep_ns, sys_futex_wait, pipe_read_op, ...         *)
Block(c) == \E t \in Tasks :
    /\ Runs(c, t)
    /\ runnable' = [runnable EXCEPT ![t] = FALSE]
    /\ state' = [state EXCEPT ![t] = "BLOCKED"]
    /\ pc' = [pc EXCEPT ![c] = "enter"]
    /\ Overtake(t, {"state"})
    /\ UNCHANGED <<on_cpu, queues, current_task, next, prev, deferred_free_task, life, wake>>

(* task_exit up to its call of sched_reschedule. *)
Exit(c) == \E t \in Tasks :
    /\ Runs(c, t)
    /\ runnable' = [runnable EXCEPT ![t] = FALSE]
    /\ state' = [state EXCEPT ![t] = "ZOMBIE"]
    /\ exited' = [exited EXCEPT ![t] = TRUE]
    /\ pc' = [pc EXCEPT ![c] = "enter"]
    /\ Overtake(t, {"runnable", "state"})
    /\ UNCHANGED <<on_cpu, queues, current_task, next, prev, deferred_free_task, freed, wake>>

(* task_yield, or an interrupt that finds need_resched set. *)
Preempt(c) ==
    /\ pc[c] = "run"
    /\ pc' = [pc EXCEPT ![c] = "enter"]
    /\ UNCHANGED <<sched, on_cpu, queues, current_task, next, prev, deferred_free_task, life,
                   wake, overtaken>>

(* process_deferred_free. *)
DeferredFree(c) ==
    /\ deferred_free_task' = [deferred_free_task EXCEPT ![c] = NoTask]
    /\ freed' = [t \in Tasks |-> freed[t] \/ deferred_free_task[c] = t]

Enter(c) ==
    /\ pc[c] = "enter"
    /\ DeferredFree(c)
    /\ pc' = [pc EXCEPT ![c] = "pick"]
    /\ UNCHANGED <<sched, on_cpu, queues, current_task, next, prev, exited, wake, overtaken>>
-----------------------------------------------------------------------------
LiveWhateverQueued(t) == on_rq[t]
Live(t) == runnable[t] /\ state[t] # "ZOMBIE"

TakeableOnAnyCpu(c, t) == Live(t) /\ c \in Affinity[t]
Takeable(c, t) == Live(t) /\ c \in Affinity[t] /\ ~on_cpu[t]

(* A queue after the scan of sched_pick_next has gone over all of it. *)
Scanned(q) ==
    LET scan[i \in 0 .. Len(q)] ==
          IF i = 0 THEN <<>>
          ELSE IF Live(q[i]) THEN Append(scan[i - 1], q[i]) ELSE scan[i - 1]
    IN scan[Len(q)]

NoneIn(c, q) == \A j \in DOMAIN q : ~Takeable(c, q[j])

(* sched_pick_next takes the first takeable task of the highest priority    *)
(* and unlinks the dead entries it passes on the way.                       *)
PickAt(c, t, i) ==
    LET p == Prio[t]
        q == ready_queues[p]
        before == SubSeq(q, 1, i - 1)
        Passed(u) == Prio[u] > p \/ \E j \in DOMAIN before : before[j] = u
    IN /\ q[i] = t /\ Takeable(c, t)
       /\ NoneIn(c, before)
       /\ \A r \in Priorities : r > p => NoneIn(c, ready_queues[r])
       /\ ready_queues' = [r \in Priorities |->
             IF r > p THEN Scanned(ready_queues[r])
             ELSE IF r = p THEN Scanned(before) \o SubSeq(q, i + 1, Len(q))
             ELSE ready_queues[r]]
       /\ on_rq' = [u \in Tasks |-> on_rq[u] /\ u # t /\ (Live(u) \/ ~Passed(u))]
       /\ on_cpu' = [on_cpu EXCEPT ![t] = TRUE]
       /\ next' = [next EXCEPT ![c] = t]

PickTask(c) == \E t \in Tasks : \E i \in DOMAIN ready_queues[Prio[t]] : PickAt(c, t, i)

PickIdle(c) ==
    /\ \A p \in Priorities : NoneIn(c, ready_queues[p])
    /\ ready_queues' = [p \in Priorities |-> Scanned(ready_queues[p])]
    /\ on_rq' = [u \in Tasks |-> on_rq[u] /\ Live(u)]
    /\ next' = [next EXCEPT ![c] = Idle]
    /\ UNCHANGED on_cpu

(* An idle CPU that finds nothing looks a second time, then stays idle. *)
Pick(c) ==
    /\ pc[c] \in {"pick", "pick2"}
    /\ \/ PickTask(c) /\ pc' = [pc EXCEPT ![c] = "retire"]
       \/ /\ PickIdle(c)
          /\ pc' = [pc EXCEPT ![c] = IF current_task[c] # Idle THEN "retire"
                                     ELSE IF pc[c] = "pick" THEN "pick2" ELSE "run"]
    /\ UNCHANGED <<sched, current_task, prev, deferred_free_task, life, wake, overtaken>>

(* What happens to the task that leaves the CPU. *)
Retire(c) ==
    LET old == current_task[c] IN
    /\ pc[c] = "retire"
    /\ pc' = [pc EXCEPT ![c] = "switch"]
    /\ \/ /\ old \in Tasks /\ state[old] = "ZOMBIE"
          /\ deferred_free_task' = IF old \in Orphans
                                   THEN [deferred_free_task EXCEPT ![c] = old]
                                   ELSE deferred_free_task
          /\ UNCHANGED <<sched, queues>>
       \/ /\ old \in Tasks /\ state[old] # "ZOMBIE" /\ runnable[old]
          /\ state' = [state EXCEPT ![old] = "READY"]
          /\ Enqueue(old)
          /\ UNCHANGED <<runnable, deferred_free_task>>
       \/ /\ old \in Tasks => state[old] # "ZOMBIE" /\ ~runnable[old]
          /\ UNCHANGED <<sched, queues, deferred_free_task>>
    /\ UNCHANGED <<on_cpu, current_task, next, prev, life, wake, overtaken>>

(* next becomes the current task; context_switch has saved the old stack    *)
(* and loaded the new one.                                                  *)
Switch(c) ==
    /\ pc[c] = "switch"
    /\ state' = [t \in Tasks |-> IF t = next[c] THEN "RUNNING" ELSE state[t]]
    /\ prev' = [prev EXCEPT ![c] = current_task[c]]
    /\ current_task' = [current_task EXCEPT ![c] = next[c]]
    /\ next' = [next EXCEPT ![c] = Idle]
    /\ pc' = [pc EXCEPT ![c] = "switched"]
    /\ UNCHANGED <<runnable, on_cpu, queues, deferred_free_task, life, wake, overtaken>>

(* The last store of context_switch, then process_deferred_free on the new  *)
(* stack.                                                                   *)
ReleaseKeepsClaim(c) ==
    /\ pc[c] = "switched"
    /\ prev' = [prev EXCEPT ![c] = Idle]
    /\ pc' = [pc EXCEPT ![c] = "released"]
    /\ UNCHANGED <<sched, on_cpu, queues, current_task, next, deferred_free_task, life, wake,
                   overtaken>>
Release(c) ==
    /\ pc[c] = "switched"
    /\ on_cpu' = [t \in Tasks |-> on_cpu[t] /\ t # prev[c]]
    /\ prev' = [prev EXCEPT ![c] = Idle]
    /\ pc' = [pc EXCEPT ![c] = "released"]
    /\ UNCHANGED <<sched, queues, current_task, next, deferred_free_task, life, wake, overtaken>>

Resume(c) ==
    /\ pc[c] = "released"
    /\ DeferredFree(c)
    /\ pc' = [pc EXCEPT ![c] = "run"]
    /\ UNCHANGED <<sched, on_cpu, queues, current_task, next, prev, exited, wake, overtaken>>
-----------------------------------------------------------------------------
(* task_unblock, one access at a time. *)
WakeCheck(w) == \E t \in Tasks :
    /\ wpc[w] = "idle" /\ state[t] = "BLOCKED" /\ ~freed[t]
    /\ wtask' = [wtask EXCEPT ![w] = t]
    /\ wpc' = [wpc EXCEPT ![w] = "runnable"]
    /\ UNCHANGED <<sched, on_cpu, queues, cpu, life, overtaken>>

WakeRunnable(w) ==
    /\ wpc[w] = "runnable"
    /\ runnable' = [runnable EXCEPT ![wtask[w]] = TRUE]
    /\ wpc' = [wpc EXCEPT ![w] = "state"]
    /\ UNCHANGED <<state, on_cpu, queues, cpu, life, wtask, overtaken>>

WakeState(w) ==
    /\ wpc[w] = "state"
    /\ state' = [state EXCEPT ![wtask[w]] = "READY"]
    /\ wpc' = [wpc EXCEPT ![w] = "enqueue"]
    /\ UNCHANGED <<runnable, on_cpu, queues, cpu, life, wtask, overtaken>>

WakeEnqueueOffCpu(w) ==
    /\ wpc[w] = "enqueue"
    /\ IF on_cpu[wtask[w]] THEN UNCHANGED queues ELSE Enqueue(wtask[w])
    /\ wpc' = [wpc EXCEPT ![w] = "idle"]
    /\ wtask' = [wtask EXCEPT ![w] = NoTask]
    /\ UNCHANGED <<sched, on_cpu, cpu, life, overtaken>>
WakeEnqueue(w) ==
    /\ wpc[w] = "enqueue"
    /\ Enqueue(wtask[w])
    /\ wpc' = [wpc EXCEPT ![w] = "idle"]
    /\ wtask' = [wtask EXCEPT ![w] = NoTask]
    /\ UNCHANGED <<sched, on_cpu, cpu, life, overtaken>>

(* sys_wait destroys a zombie child that is off its CPU. *)
ReapOnCpu(t) == TRUE
Reapable(t) == ~on_cpu[t]
Reap(t) ==
    /\ state[t] = "ZOMBIE" /\ t \notin Orphans /\ ~freed[t] /\ Reapable(t)
    /\ \E c \in CPUs : pc[c] = "run" /\ current_task[c] \notin {Idle, t}
    /\ freed' = [freed EXCEPT ![t] = TRUE]
    /\ UNCHANGED <<sched, on_cpu, queues, cpu, exited, wake, overtaken>>

Reschedule(c) == Enter(c) \/ Pick(c) \/ Retire(c) \/ Switch(c) \/ Release(c) \/ Resume(c)
Waking(w) == WakeCheck(w) \/ WakeRunnable(w) \/ WakeState(w) \/ WakeEnqueue(w)

Next == \/ \E t \in Tasks : Create(t) \/ Reap(t)
        \/ \E c \in CPUs : Block(c) \/ Exit(c) \/ Preempt(c) \/ Reschedule(c)
        \/ \E w \in Wakers : Waking(w)

Spec == Init /\ [][Next]_vars

(* The timer interrupts every CPU again and again, and code with interrupts *)
(* off goes on to its end.                                                  *)
FairSpec == /\ Spec
            /\ \A c \in CPUs : WF_vars(Preempt(c)) /\ WF_vars(Reschedule(c))
            /\ \A w \in Wakers : WF_vars(WakeRunnable(w) \/ WakeState(w) \/ WakeEnqueue(w))
-----------------------------------------------------------------------------
States == {"NEW", "READY", "RUNNING", "BLOCKED", "ZOMBIE"}
Steps  == {"run", "enter", "pick", "pick2", "retire", "switch", "switched", "released"}

TaskType ==
    /\ state \in [Tasks -> States] /\ runnable \in [Tasks -> BOOLEAN]
    /\ on_cpu \in [Tasks -> BOOLEAN] /\ on_rq \in [Tasks -> BOOLEAN]
    /\ exited \in [Tasks -> BOOLEAN] /\ freed \in [Tasks -> BOOLEAN]
CpuType ==
    /\ current_task \in [CPUs -> Tasks \cup {Idle}] /\ next \in [CPUs -> Tasks \cup {Idle}]
    /\ prev \in [CPUs -> Tasks \cup {Idle}] /\ pc \in [CPUs -> Steps]
    /\ deferred_free_task \in [CPUs -> Tasks \cup {NoTask}]
WakerType ==
    \A w \in Wakers : \/ wpc[w] = "idle" /\ wtask[w] = NoTask
                      \/ wpc[w] \in {"runnable", "state", "enqueue"} /\ wtask[w] \in Tasks
WakeType == DOMAIN wpc = Wakers /\ DOMAIN wtask = Wakers /\ WakerType

(* Every variable stays in its type, and a waker has a task exactly while   *)
(* it is inside task_unblock.                                               *)
TypeOK == /\ TaskType /\ CpuType /\ WakeType
          /\ ready_queues \in [Priorities -> Seq(Tasks)] /\ overtaken \subseteq Tasks

(* The tasks whose kernel stack CPU c runs on, is about to load or has not  *)
(* left yet.                                                                *)
Held(c) == {current_task[c], next[c], prev[c]} \ {Idle}

(* A task is on one CPU at a time, from the compare-and-swap that claims    *)
(* it in sched_pick_next to the last store of context_switch.               *)
OneCpu == \A c, d \in CPUs : c # d => Held(c) \cap Held(d) = {}

(* on_rq says exactly whether a task is queued, and none is queued twice.   *)
QueueInv ==
    \A t \in Tasks :
       LET places == {x \in UNION {{p} \X DOMAIN ready_queues[p] : p \in Priorities} :
                         ready_queues[x[1]][x[2]] = t}
       IN  /\ on_rq[t] <=> places # {}
           /\ \A x, y \in places : x = y

(* A task that has entered task_exit never comes back from its last         *)
(* sched_reschedule ("should never happen").                                *)
ExitIsFinal ==
    \A c \in CPUs : pc[c] = "run" /\ current_task[c] \in Tasks => ~exited[current_task[c]]

(* The tasks that went to sleep and exited only when no waker had a store   *)
(* still to make that would undo it.                                        *)
Steady == Tasks \ overtaken

(* However many wakers work on a task, and whatever locks they hold, it     *)
(* comes back after task_exit only if it was overtaken: it exited while one *)
(* of them had its store of runnable or of READY still to make.             *)
OnlyOvertakenReturn ==
    \A c \in CPUs : pc[c] = "run" /\ current_task[c] \in Steady => ~exited[current_task[c]]

(* The kernel stack of a task is never freed under a CPU that uses it,      *)
(* unless the task was overtaken: a zombie that comes back runs on a stack  *)
(* that its parent may free.                                                *)
StackInUse == \A c \in CPUs : \A t \in Held(c) \cap Steady : ~freed[t]

(* Somebody will run t: it is queued, in the hands of its waker, or on a    *)
(* CPU that has yet to put it back.                                         *)
Kept(t) == \/ on_rq[t]
           \/ \E w \in Wakers : wtask[w] = t
           \/ \E c \in CPUs : next[c] = t \/ (current_task[c] = t /\ pc[c] # "switch")

(* A task that is ready or running is runnable, and one that is runnable is *)
(* queued, on a CPU that has yet to put it back, or in the hands of a       *)
(* waker.  The exception is an overtaken task: it slept again while a waker *)
(* had the store of READY still to make, which then hides the new sleep     *)
(* from every later task_unblock.                                           *)
NotLost == \A t \in Steady : /\ state[t] \in {"READY", "RUNNING"} => runnable[t]
                             /\ runnable[t] => Kept(t)

(* Another task that can run is queued where sched_pick_next may prefer it. *)
Rivalled(t) == \E u \in Tasks \ {t} : on_rq[u] /\ Live(u) /\ Prio[u] >= Prio[t]

(* A queued task that can run is run in the end, unless rivals are queued   *)
(* again and again: enqueue_global pushes at the front of a queue, so that   *)
(* two tasks that are always ready can keep a third of their priority from  *)
(* a CPU for ever.                                                           *)
QueuedRuns ==
    \A t \in Tasks :
       (on_rq[t] /\ Live(t)) ~> ((\E c \in CPUs : current_task[c] = t) \/ Rivalled(t))
-----------------------------------------------------------------------------
(* What makes OneCpu inductive: a CPU holds only tasks whose on_cpu flag it  *)
(* has set, and it drops the flag only after it has left the stack.         *)
ClaimInv ==
    /\ OneCpu
    /\ \A c \in CPUs :
          /\ \A t \in Held(c) : on_cpu[t]
          /\ next[c] # Idle => pc[c] \in {"retire", "switch"} /\ next[c] # current_task[c]
          /\ prev[c] # Idle => pc[c] = "switched" /\ prev[c] # current_task[c]

(* A waker that has its store of runnable still to make, or that of READY,   *)
(* works on a task that has not exited, in the second case on one that is   *)
(* runnable.                                                                *)
WakeInv ==
    \A w \in Wakers : wtask[w] \in Steady =>
       /\ wpc[w] \in {"runnable", "state"} => ~exited[wtask[w]]
       /\ wpc[w] = "state" => runnable[wtask[w]]

(* An exited task stays a zombie that cannot be picked and is freed only     *)
(* off the CPUs.                                                            *)
ZombieInv ==
    \A t \in Steady :
       /\ exited[t] <=> state[t] = "ZOMBIE"
       /\ exited[t] => ~runnable[t]
       /\ freed[t] => exited[t] /\ \A c \in CPUs : t \notin Held(c)

(* A CPU leaves an exited task for good, and defers its free until then.     *)
LeaveInv(c) ==
    /\ current_task[c] \in Steady /\ exited[current_task[c]]
          => pc[c] \in {"enter", "pick", "retire", "switch"}
    /\ next[c] \in Steady => ~exited[next[c]] /\ runnable[next[c]]
    /\ pc[c] = "pick2" => current_task[c] = Idle
    /\ LET t == deferred_free_task[c] IN t \in Steady =>
          /\ exited[t]
          /\ \/ pc[c] = "switch" /\ current_task[c] = t
             \/ pc[c] = "switched" /\ prev[c] = t
             \/ pc[c] = "released" /\ \A d \in CPUs : t \notin Held(d)

ExitInv == ZombieInv /\ \A c \in CPUs : LeaveInv(c)

(* What makes QueueInv inductive: a task with on_rq set is in the queue of  *)
(* its priority, no other is, and no queue holds a task twice.              *)
Holds(q, t) == \E i \in DOMAIN q : q[i] = t
Once(q) == \A i, j \in DOMAIN q : q[i] = q[j] => i = j
QueuesInv ==
    /\ ready_queues \in [Priorities -> Seq(Tasks)]
    /\ \A p \in Priorities :
          /\ Once(ready_queues[p])
          /\ \A t \in Tasks : Holds(ready_queues[p], t) <=> on_rq[t] /\ Prio[t] = p

(* The inductive invariant of the scheduler, for any wakers.                *)
SchedInv == TaskType /\ CpuType /\ WakeType /\ ClaimInv /\ WakeInv /\ ExitInv /\ NotLost
=============================================================================
