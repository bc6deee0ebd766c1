----------------------------- MODULE SchedProofs ----------------------------
(***************************************************************************)
(* Proofs about Sched for any sets of CPUs, tasks and wakers, any            *)
(* priorities and affinities.                                               *)
(***************************************************************************)
EXTENDS Sched, FiniteSetTheorems, WellFoundedInduction, SequenceTheorems, TLAPS

Types == TaskType /\ CpuType /\ WakeType

(* Every action keeps the flags, the per-CPU locals and the wakers in type.  *)
LEMMA TypesStep == Types /\ [Next]_vars => Types'
<1> SUFFICES ASSUME Types, [Next]_vars PROVE Types'
    BY Zenon
<1>a. UNCHANGED <<sched, on_cpu, on_rq, life>> => TaskType'
      BY Zenon DEF Types, TaskType, sched, life
<1>b. UNCHANGED cpu => CpuType'
      BY Zenon DEF Types, CpuType, cpu
<1>c. UNCHANGED wake => WakeType'
      BY Zenon DEF Types, WakeType, WakerType, wake
<1>d. \A t \in Tasks : Enqueue(t) => on_rq' \in [Tasks -> BOOLEAN]
      BY ZenonT(60) DEF Types, TaskType, Enqueue, queues
<1>e. \A c \in CPUs : DeferredFree(c) => /\ freed' \in [Tasks -> BOOLEAN]
                                         /\ deferred_free_task' \in [CPUs -> Tasks \cup {NoTask}]
      BY Zenon DEF Types, TaskType, CpuType, DeferredFree
<1> USE DEF Types
<1>1. ASSUME NEW t \in Tasks, Create(t) PROVE Types'
      BY <1>1, <1>b, <1>c, <1>d, Zenon DEF Create, TaskType, States, life
<1>2. ASSUME NEW t \in Tasks, Reap(t) PROVE Types'
      BY <1>2, <1>b, <1>c, Zenon DEF Reap, TaskType, sched, queues
<1>3. ASSUME NEW c \in CPUs, Block(c) PROVE Types'
      BY <1>3, <1>c DEF Block, TaskType, CpuType, States, Steps, queues, life
<1>4. ASSUME NEW c \in CPUs, Exit(c) PROVE Types'
      BY <1>4, <1>c DEF Exit, TaskType, CpuType, States, Steps, queues
<1>5. ASSUME NEW c \in CPUs, Preempt(c) PROVE Types'
      BY <1>5, <1>a, <1>c, Zenon DEF Preempt, CpuType, Steps, queues
<1>6. ASSUME NEW c \in CPUs, Enter(c) \/ Resume(c) PROVE Types'
      <2>1. TaskType'
            BY <1>6, <1>e, Zenon DEF Enter, Resume, TaskType, sched, queues
      <2>2. CpuType'
            BY <1>6, <1>e, Zenon DEF Enter, Resume, CpuType, Steps
      <2>3. QED BY <1>6, <1>c, <2>1, <2>2, Zenon DEF Enter, Resume
<1>7. ASSUME NEW c \in CPUs, Pick(c) PROVE Types'
      <2>1. TaskType'
            <3>1. on_rq' \in [Tasks -> BOOLEAN]
                  BY <1>7, ZenonT(60) DEF Pick, PickTask, PickAt, PickIdle, TaskType
            <3>2. on_cpu' \in [Tasks -> BOOLEAN]
                  BY ZenonT(60), <1>7 DEF Pick, PickTask, PickAt, PickIdle, TaskType
            <3>3. QED BY <1>7, <3>1, <3>2, Zenon DEF Pick, TaskType, sched, life
      <2>2. CpuType'
            <3>1. next' \in [CPUs -> Tasks \cup {Idle}]
                  BY <1>7 DEF Pick, PickTask, PickAt, PickIdle, CpuType
            <3>2. pc' \in [CPUs -> Steps]
                  BY <1>7, Zenon DEF Pick, CpuType, Steps
            <3>3. QED BY <1>7, <3>1, <3>2, Zenon DEF Pick, CpuType
      <2>3. QED BY <1>7, <1>c, <2>1, <2>2, Zenon DEF Pick
<1>8. ASSUME NEW c \in CPUs, Retire(c) PROVE Types'
      <2>1. TaskType'
            BY <1>8, <1>d, Zenon DEF Retire, TaskType, States, sched, queues, life
      <2>2. CpuType'
            BY <1>8, Zenon DEF Retire, CpuType, Steps
      <2>3. QED BY <1>8, <1>c, <2>1, <2>2, Zenon DEF Retire
<1>9. ASSUME NEW c \in CPUs, Switch(c) PROVE Types'
      BY <1>9, <1>c, Zenon DEF Switch, TaskType, CpuType, States, Steps, queues, life
<1>10. ASSUME NEW c \in CPUs, Release(c) PROVE Types'
      <2>1. on_cpu' \in [Tasks -> BOOLEAN]
            BY <1>10, Zenon DEF Release, TaskType
      <2>2. QED BY <1>10, <1>c, <2>1, Zenon DEF Release, TaskType, CpuType, Steps, sched, queues, life
<1>11. ASSUME NEW w \in Wakers, Waking(w) PROVE Types'
      <2>1. TaskType'
            <3>1. CASE WakeCheck(w)
                  BY <3>1, <1>a, Zenon DEF WakeCheck, queues
            <3>2. CASE WakeRunnable(w)
                  BY ZenonT(60), <3>2 DEF WakeRunnable, TaskType, queues, life
            <3>3. CASE WakeState(w)
                  BY ZenonT(60), <3>3 DEF WakeState, TaskType, States, queues, life
            <3>4. CASE WakeEnqueue(w)
                  <4>1. wtask[w] \in Tasks
                        BY <3>4, Zenon DEF WakeEnqueue, WakeType, WakerType
                  <4>2. QED BY <3>4, <4>1, <1>d, Zenon DEF WakeEnqueue, TaskType, sched, life
            <3>5. QED BY <1>11, <3>1, <3>2, <3>3, <3>4, Zenon DEF Waking
      <2>2. WakeType'
            BY <1>11, Zenon DEF Waking, WakeCheck, WakeRunnable, WakeState, WakeEnqueue,
               WakeType, WakerType
      <2>3. QED BY <1>11, <1>b, <2>1, <2>2, Zenon
            DEF Waking, WakeCheck, WakeRunnable, WakeState, WakeEnqueue
<1>12. ASSUME UNCHANGED vars PROVE Types'
      BY <1>12, <1>a, <1>b, <1>c, Zenon DEF vars, queues
<1>13. QED
      BY <1>1, <1>2, <1>3, <1>4, <1>5, <1>6, <1>7, <1>8, <1>9, <1>10, <1>11, <1>12, SMTT(60)
         DEF Next, Reschedule

(* The types hold initially.                                                 *)
LEMMA TypesInit == Init => Types
<1> SUFFICES ASSUME Init PROVE Types
    BY Zenon
<1>1. TaskType
      BY Zenon DEF Init, TaskType, States
<1>2. CpuType
      BY Zenon DEF Init, CpuType, Steps
<1>3. WakeType
      BY Zenon DEF Init, WakeType, WakerType
<1>4. QED BY <1>1, <1>2, <1>3, Zenon DEF Types

(* Every action keeps each claimed task on the one CPU that claimed it.      *)
LEMMA ClaimStep == Types /\ ClaimInv /\ [Next]_vars => ClaimInv'
<1> SUFFICES ASSUME Types, ClaimInv, [Next]_vars PROVE ClaimInv'
    BY Zenon
<1>a. UNCHANGED <<on_cpu, current_task, next, prev>> /\
      (\A c \in CPUs : pc'[c] # pc[c] => pc[c] \notin {"retire", "switch", "switched"}) => ClaimInv'
      BY SMTT(60) DEF ClaimInv, OneCpu, Held
<1>b. Idle \notin Tasks
      BY TaskAssumption, Zenon
<1>c. CpuType /\ TaskType
      BY Zenon DEF Types
<1>1. ASSUME NEW c \in CPUs, Pick(c) PROVE ClaimInv'
      <2>0. next[c] = Idle /\ prev[c] = Idle
            BY <1>1, Zenon DEF Pick, ClaimInv
      <2>1. CASE PickTask(c)
            <3>1. PICK t \in Tasks : /\ ~on_cpu[t] /\ on_cpu' = [on_cpu EXCEPT ![t] = TRUE]
                                     /\ next' = [next EXCEPT ![c] = t]
                  BY ZenonT(60), <2>1 DEF PickTask, PickAt, Takeable
            <3>2. /\ UNCHANGED <<current_task, prev>> /\ pc' = [pc EXCEPT ![c] = pc'[c]]
                  /\ pc'[c] \in {"retire", "pick2", "run"}
                  BY <1>1, <1>c, Zenon DEF Pick, CpuType
            <3>3. pc'[c] = "retire"
                  BY <1>1, <1>b, <1>c, <3>1, <2>1, Zenon DEF Pick, PickIdle, CpuType
            <3>4. \A d \in CPUs : t \notin Held(d)
                  BY <3>1, Zenon DEF ClaimInv
            <3>5. \A d \in CPUs : Held(d)' = IF d = c THEN Held(c) \cup {t} ELSE Held(d)
                  BY <1>b, <1>c, <2>0, <3>1, <3>2 DEF Held, CpuType
            <3>6. OneCpu'
                  BY <3>4, <3>5 DEF ClaimInv, OneCpu
            <3>7. ASSUME NEW d \in CPUs, NEW u \in Held(d)' PROVE on_cpu'[u]
                  <4>1. u = t \/ (u \in Held(d) /\ u \in Tasks)
                        BY <1>c, <3>5 DEF Held, CpuType
                  <4>2. u \in Held(d) => on_cpu[u]
                        BY Zenon DEF ClaimInv
                  <4>3. QED BY <1>c, <3>1, <4>1, <4>2, Zenon DEF TaskType
            <3>8. QED BY SMTT(60), <1>b, <1>c, <2>0, <3>1, <3>2, <3>3, <3>4, <3>6, <3>7
                  DEF ClaimInv, Held, CpuType
      <2>2. CASE PickIdle(c)
            <3>1. UNCHANGED <<on_cpu, current_task, prev>> /\ next' = next
                  BY <1>1, <1>c, <2>0, <2>2, Zenon DEF Pick, PickIdle, CpuType
            <3>2. \A d \in CPUs : pc'[d] # pc[d] => pc[d] \notin {"retire", "switch", "switched"}
                  BY <1>1, <1>c, Zenon DEF Pick, CpuType
            <3>3. QED BY <3>1, <3>2, <1>a, Zenon
      <2>3. QED BY <1>1, <2>1, <2>2, Zenon DEF Pick
<1>2. ASSUME NEW c \in CPUs, Retire(c) PROVE ClaimInv'
      BY <1>2, <1>c, Zenon DEF Retire, ClaimInv, OneCpu, Held, CpuType
<1>3. ASSUME NEW c \in CPUs, Switch(c) PROVE ClaimInv'
      <2>0. prev[c] = Idle
            BY <1>3, Zenon DEF Switch, ClaimInv
      <2>1. /\ on_cpu' = on_cpu /\ pc' = [pc EXCEPT ![c] = "switched"]
            /\ prev' = [prev EXCEPT ![c] = current_task[c]]
            /\ current_task' = [current_task EXCEPT ![c] = next[c]]
            /\ next' = [next EXCEPT ![c] = Idle]
            BY <1>3, Zenon DEF Switch
      <2>2. \A d \in CPUs : Held(d)' = Held(d)
            BY <1>c, <2>0, <2>1 DEF Held, CpuType
      <2>3. OneCpu' /\ \A d \in CPUs : \A t \in Held(d)' : on_cpu'[t]
            BY <2>1, <2>2, Zenon DEF ClaimInv, OneCpu
      <2>4. next[c] # Idle => next[c] # current_task[c]
            BY Zenon DEF ClaimInv
      <2>5. current_task[c] # Idle => current_task[c] # next[c]
            BY <2>4, Zenon
      <2>6. ASSUME NEW d \in CPUs
            PROVE  /\ next'[d] # Idle => pc'[d] \in {"retire", "switch"} /\ next'[d] # current_task'[d]
                   /\ prev'[d] # Idle => pc'[d] = "switched" /\ prev'[d] # current_task'[d]
            BY <1>c, <2>1, <2>5, Zenon DEF ClaimInv, CpuType
      <2>7. QED BY <2>3, <2>6, Zenon DEF ClaimInv
<1>4. ASSUME NEW c \in CPUs, Release(c) PROVE ClaimInv'
      <2>1. /\ on_cpu' = [t \in Tasks |-> on_cpu[t] /\ t # prev[c]]
            /\ prev' = [prev EXCEPT ![c] = Idle] /\ pc' = [pc EXCEPT ![c] = "released"]
            /\ UNCHANGED <<current_task, next>> /\ next[c] = Idle
            BY <1>4, Zenon DEF Release, ClaimInv
      <2>2. \A d \in CPUs : Held(d)' = IF d = c THEN Held(c) \ {prev[c]} ELSE Held(d)
            BY <1>c, <2>1 DEF Held, CpuType, ClaimInv
      <2>3. OneCpu'
            BY <2>2 DEF ClaimInv, OneCpu
      <2>4. ASSUME NEW d \in CPUs, NEW t \in Held(d)' PROVE on_cpu'[t]
            <3>1. t \in Held(d) /\ t \in Tasks
                  BY <1>c, <2>2 DEF Held, CpuType
            <3>2. t # prev[c]
                  BY <1>b, <1>c, <2>2, <3>1 DEF ClaimInv, OneCpu, Held, CpuType
            <3>3. QED BY ZenonT(60), <2>1, <3>1, <3>2 DEF ClaimInv
      <2>5. QED BY <1>c, <2>1, <2>3, <2>4, Zenon DEF ClaimInv, CpuType
<1>5. CASE \A c \in CPUs : ~Pick(c) /\ ~Retire(c) /\ ~Switch(c) /\ ~Release(c)
      <2>1. UNCHANGED <<on_cpu, current_task, next, prev>>
            BY <1>5, Zenon DEF Next, Reschedule, Waking, Create, Reap, Block, Exit, Preempt, Enter, Resume,
               WakeCheck, WakeRunnable, WakeState, WakeEnqueue, vars, cpu
      <2>2. \A d \in CPUs : pc'[d] # pc[d] => pc[d] \notin {"retire", "switch", "switched"}
            BY <1>5, <1>c DEF Next, Reschedule, Waking, Create, Reap, Block, Exit, Preempt, Enter,
               Resume, WakeCheck, WakeRunnable, WakeState, WakeEnqueue, vars, cpu, CpuType, Runs
      <2>3. QED BY <1>a, <2>1, <2>2, Zenon
<1>6. QED BY <1>1, <1>2, <1>3, <1>4, <1>5, Zenon

(* A task is on one CPU at a time, whatever the wakers do.                   *)
THEOREM TaskOnOneCpu == Spec => []OneCpu
<1>1. Init => Types /\ ClaimInv
      BY TypesInit, TaskAssumption DEF Init, ClaimInv, OneCpu, Held
<1>2. Types /\ ClaimInv /\ [Next]_vars => (Types /\ ClaimInv)'
      BY TypesStep, ClaimStep, Zenon
<1>3. Types /\ ClaimInv => OneCpu
      BY SMTT(60) DEF ClaimInv
<1>4. QED BY <1>1, <1>2, <1>3, PTL DEF Spec

(* A step only adds tasks to the overtaken ones, and so only takes some      *)
(* from the steady ones.                                                     *)
LEMMA SteadyShrinks ==
    ASSUME [Next]_vars
    PROVE  /\ Steady' \subseteq Steady /\ Steady \subseteq Tasks
           /\ overtaken \subseteq Tasks => overtaken' \subseteq Tasks
<1>1. ASSUME NEW c \in CPUs, Block(c) \/ Exit(c)
      PROVE  overtaken \subseteq overtaken' /\ overtaken' \subseteq overtaken \cup Tasks
      <2>1. PICK t \in Tasks, S \in {{"state"}, {"runnable", "state"}} : Overtake(t, S)
            BY <1>1, Zenon DEF Block, Exit
      <2>2. overtaken' \in {overtaken, overtaken \cup {t}}
            BY <2>1, Zenon DEF Overtake
      <2>3. QED BY <2>2
<1>2. (\A c \in CPUs : ~Block(c) /\ ~Exit(c)) => overtaken' = overtaken
      BY Zenon DEF Next, Reschedule, Waking, Create, Reap, Preempt, Enter, Pick, Retire, Switch, Release,
         Resume, WakeCheck, WakeRunnable, WakeState, WakeEnqueue, vars
<1>3. QED BY <1>1, <1>2 DEF Steady

(* A task that blocks and is steady has no waker about to store READY, and   *)
(* one that exits has none about to store anything but its queue entry.      *)
LEMMA SteadyAfter ==
    ASSUME NEW t \in Tasks, NEW S, Overtake(t, S), t \in Steady'
    PROVE  \A w \in Wakers : wtask[w] = t => wpc[w] \notin S
BY Zenon DEF Overtake, Steady

(* Every action keeps a waker that has stores to make on a task that has     *)
(* not exited, as long as the task is steady.                                *)
LEMMA WakeStep == SchedInv /\ [Next]_vars => WakeInv'
<1> SUFFICES ASSUME SchedInv, [Next]_vars PROVE WakeInv'
    BY Zenon
<1>a. TaskType /\ WakeType /\ NoTask \notin Tasks
      BY TaskAssumption, Zenon DEF SchedInv
<1>b. WakeInv /\ ExitInv
      BY Zenon DEF SchedInv
<1>s. Steady' \subseteq Steady /\ Steady \subseteq Tasks
      BY SteadyShrinks, Zenon
<1>c. /\ \A t \in Steady' : exited'[t] = exited[t] /\ (runnable[t] => runnable'[t])
      /\ UNCHANGED wake
      => WakeInv'
      BY <1>b, <1>s DEF WakeInv, wake
<1>1. ASSUME NEW t \in Tasks, Create(t) PROVE WakeInv'
      BY <1>1, <1>a, <1>c, <1>s DEF Create, TaskType, life
<1>2. ASSUME NEW c \in CPUs, Block(c) PROVE WakeInv'
      <2>1. PICK t \in Tasks : /\ Overtake(t, {"state"})
                               /\ runnable' = [runnable EXCEPT ![t] = FALSE]
            BY <1>2, Zenon DEF Block
      <2>2. UNCHANGED <<wake, exited>>
            BY <1>2, Zenon DEF Block, life
      <2>3. t \in Steady' => \A w \in Wakers : wtask[w] = t => wpc[w] # "state"
            BY <2>1, SteadyAfter, Zenon
      <2>4. \A u \in Tasks : u # t => runnable'[u] = runnable[u]
            BY <2>1, <1>a, Zenon DEF TaskType
      <2>5. QED BY <1>b, <1>s, <2>2, <2>3, <2>4 DEF WakeInv, wake
<1>3. ASSUME NEW c \in CPUs, Exit(c) PROVE WakeInv'
      <2>1. PICK t \in Tasks : /\ Overtake(t, {"runnable", "state"})
                               /\ runnable' = [runnable EXCEPT ![t] = FALSE]
                               /\ exited' = [exited EXCEPT ![t] = TRUE]
            BY <1>3, Zenon DEF Exit
      <2>2. UNCHANGED wake
            BY <1>3, Zenon DEF Exit
      <2>3. t \in Steady' => \A w \in Wakers : wtask[w] = t => wpc[w] \notin {"runnable", "state"}
            BY <2>1, SteadyAfter, Zenon
      <2>4. \A u \in Tasks : u # t => runnable'[u] = runnable[u] /\ exited'[u] = exited[u]
            BY <2>1, <1>a, Zenon DEF TaskType
      <2>5. QED BY <1>b, <1>s, <2>2, <2>3, <2>4 DEF WakeInv, wake
<1>4. ASSUME NEW w \in Wakers, WakeCheck(w) PROVE WakeInv'
      <2>1. PICK t \in Tasks : /\ state[t] = "BLOCKED"
                               /\ wtask' = [wtask EXCEPT ![w] = t]
                               /\ wpc' = [wpc EXCEPT ![w] = "runnable"]
            BY ZenonT(60), <1>4 DEF WakeCheck
      <2>2. UNCHANGED <<runnable, exited>> /\ (t \in Steady => ~exited[t])
            BY <1>4, <1>b, <2>1 DEF WakeCheck, ExitInv, ZombieInv, sched, life
      <2>3. QED BY <1>a, <1>b, <1>s, <2>1, <2>2 DEF WakeInv, WakeType
<1>5. ASSUME NEW w \in Wakers, WakeRunnable(w) PROVE WakeInv'
      <2>1. /\ wtask[w] \in Tasks /\ wpc[w] = "runnable" /\ wpc' = [wpc EXCEPT ![w] = "state"]
            /\ runnable' = [runnable EXCEPT ![wtask[w]] = TRUE] /\ UNCHANGED <<wtask, exited>>
            BY <1>5, <1>a, Zenon DEF WakeRunnable, WakeType, WakerType, life
      <2>2. QED BY <1>a, <1>b, <1>s, <2>1 DEF WakeInv, WakeType, TaskType
<1>6. ASSUME NEW w \in Wakers, WakeState(w) \/ WakeEnqueue(w) PROVE WakeInv'
      <2>1. UNCHANGED <<runnable, exited>>
            BY <1>6, Zenon DEF WakeState, WakeEnqueue, sched, life
      <2>2. \A v \in Wakers : wtask'[v] \in Tasks =>
               wtask'[v] = wtask[v] /\ (wpc'[v] = wpc[v] \/ wpc'[v] = "enqueue")
            BY <1>6, <1>a DEF WakeState, WakeEnqueue, WakeType
      <2>3. QED BY <1>b, <1>s, <2>1, <2>2 DEF WakeInv
<1>7. CASE UNCHANGED <<runnable, exited, wake>>
      BY <1>7, <1>c, Zenon
<1>8. QED
      BY <1>1, <1>2, <1>3, <1>4, <1>5, <1>6, <1>7, SMTT(60) DEF Next, Reschedule, Waking,
         Reap, Preempt, Enter, Pick, Retire, Switch, Release, Resume, vars, life, sched

(* What Pick may change besides the queues: next and pc of its own CPU.      *)
LEMMA PickChanges ==
    ASSUME CpuType, NEW c \in CPUs, Pick(c)
    PROVE  /\ UNCHANGED <<sched, current_task, prev, deferred_free_task, life, wake>>
           /\ next' = [next EXCEPT ![c] = next'[c]] /\ next'[c] \in Tasks \cup {Idle}
           /\ pc' = [pc EXCEPT ![c] = pc'[c]] /\ pc'[c] \in {"retire", "pick2", "run"}
<1>1. next' = [next EXCEPT ![c] = next'[c]] /\ next'[c] \in Tasks \cup {Idle}
      <2>1. CASE PickTask(c)
            <3>1. PICK t \in Tasks : next' = [next EXCEPT ![c] = t]
                  BY <2>1, Zenon DEF PickTask, PickAt
            <3>2. QED BY <3>1, Zenon DEF CpuType
      <2>2. CASE PickIdle(c)
            <3>1. next' = [next EXCEPT ![c] = Idle]
                  BY <2>2, Zenon DEF PickIdle
            <3>2. QED BY <3>1, Zenon DEF CpuType
      <2>3. QED BY <2>1, <2>2, Zenon DEF Pick
<1>2. UNCHANGED <<sched, current_task, prev, deferred_free_task, life, wake>>
      BY Zenon DEF Pick
<1>3. pc' = [pc EXCEPT ![c] = pc'[c]] /\ pc'[c] \in {"retire", "pick2", "run"}
      <2>1. PICK l \in {"retire", "pick2", "run"} : pc' = [pc EXCEPT ![c] = l]
            BY Zenon DEF Pick
      <2>2. QED BY <2>1, Zenon DEF CpuType
<1>4. QED BY <1>1, <1>2, <1>3, Zenon

(* An exited task that is steady stays off the CPUs once it has left, and it *)
(* is freed only then.                                                       *)
LEMMA ExitStep == SchedInv /\ [Next]_vars => ExitInv'
<1> SUFFICES ASSUME SchedInv, [Next]_vars PROVE ExitInv'
    BY Zenon
<1>a. TaskType /\ CpuType /\ WakeType /\ ClaimInv /\ WakeInv /\ ExitInv
      BY Zenon DEF SchedInv
<1>b. Idle \notin Tasks /\ NoTask \notin Tasks
      BY TaskAssumption, Zenon
<1>c. \A c \in CPUs : Held(c) \subseteq Tasks
      BY <1>a DEF CpuType, Held
<1>s. Steady' \subseteq Steady /\ Steady \subseteq Tasks
      BY SteadyShrinks, Zenon
<1>1. ASSUME NEW t \in Tasks, Create(t) PROVE ExitInv'
      <2>1. /\ t \in Steady => ~exited[t]
            /\ state' = [state EXCEPT ![t] = "READY"]
            /\ runnable' = [runnable EXCEPT ![t] = TRUE] /\ UNCHANGED <<cpu, life>>
            BY <1>1, <1>a, <1>s, Zenon DEF Create, ExitInv, ZombieInv
      <2>2. QED BY SMTT(60), <1>a, <1>s, <2>1 DEF ExitInv, ZombieInv, LeaveInv, TaskType, Held, cpu, life
<1>2. ASSUME NEW t \in Tasks, Reap(t) PROVE ExitInv'
      <2>1. (t \in Steady => exited[t]) /\ \A c \in CPUs : t \notin Held(c)
            BY <1>2, <1>a, <1>s, Zenon DEF Reap, Reapable, ExitInv, ZombieInv, LeaveInv, ClaimInv
      <2>2. QED BY SMTT(60), <1>2, <1>a, <1>s, <2>1 DEF Reap, ExitInv, ZombieInv, LeaveInv, TaskType, Held, cpu, sched
<1>3. ASSUME NEW c \in CPUs, Block(c) PROVE ExitInv'
      <2>1. PICK t \in Tasks :
               /\ pc[c] = "run" /\ current_task[c] = t
               /\ runnable' = [runnable EXCEPT ![t] = FALSE]
               /\ state' = [state EXCEPT ![t] = "BLOCKED"]
               /\ pc' = [pc EXCEPT ![c] = "enter"]
               /\ UNCHANGED <<current_task, next, prev, deferred_free_task, exited, freed>>
            BY ZenonT(60), <1>3 DEF Block, Runs, life
      <2>2. t \in Steady => ~exited[t]
            BY <1>a, <1>s, <2>1, Zenon DEF ExitInv, ZombieInv, LeaveInv
      <2>3. \A d \in CPUs : next[d] # t
            BY SMTT(60), <1>a, <1>s, <1>b, <2>1 DEF ClaimInv, OneCpu, Held
      <2>4. QED BY SMTT(60), <1>a, <1>s, <2>1, <2>2, <2>3 DEF ExitInv, ZombieInv, LeaveInv, TaskType, CpuType, Held
<1>4. ASSUME NEW c \in CPUs, Exit(c) PROVE ExitInv'
      <2>1. PICK t \in Tasks :
               /\ pc[c] = "run" /\ current_task[c] = t
               /\ runnable' = [runnable EXCEPT ![t] = FALSE]
               /\ state' = [state EXCEPT ![t] = "ZOMBIE"]
               /\ exited' = [exited EXCEPT ![t] = TRUE]
               /\ pc' = [pc EXCEPT ![c] = "enter"]
               /\ UNCHANGED <<current_task, next, prev, deferred_free_task, freed>>
            BY ZenonT(60), <1>4 DEF Exit, Runs
      <2>2. \A d \in CPUs : next[d] # t /\ (d # c => current_task[d] # t)
            BY SMTT(60), <1>a, <1>s, <1>b, <2>1 DEF ClaimInv, OneCpu, Held
      <2>3. QED BY <1>a, <1>s, <2>1, <2>2 DEF ExitInv, ZombieInv, LeaveInv, TaskType, CpuType, Held
<1>5. ASSUME NEW c \in CPUs, Preempt(c) PROVE ExitInv'
      BY <1>5, <1>a, <1>s DEF Preempt, ExitInv, ZombieInv, LeaveInv, CpuType, Held, sched, life
<1>6. ASSUME NEW c \in CPUs, Enter(c) \/ Resume(c) PROVE ExitInv'
      <2>1. \A t \in Steady : deferred_free_task[c] = t => exited[t] /\ \A d \in CPUs : t \notin Held(d)
            BY <1>6, <1>a, <1>s, <1>b DEF Enter, Resume, ExitInv, LeaveInv
      <2>2. /\ freed' = [t \in Tasks |-> freed[t] \/ deferred_free_task[c] = t]
            /\ deferred_free_task' = [deferred_free_task EXCEPT ![c] = NoTask]
            /\ UNCHANGED <<state, runnable, exited, current_task, next, prev>>
            BY <1>6, Zenon DEF Enter, Resume, DeferredFree, sched
      <2>3. \A t \in Steady : freed'[t] => exited[t] /\ \A d \in CPUs : t \notin Held(d)
            BY ZenonT(60), <1>a, <1>s, <2>1, <2>2 DEF ExitInv, ZombieInv, LeaveInv
      <2>4. pc' = [pc EXCEPT ![c] = pc'[c]] /\ pc'[c] \in {"pick", "run"}
            BY <1>6, <1>a, <1>s, Zenon DEF Enter, Resume, CpuType
      <2>5. current_task[c] \in Steady /\ exited[current_task[c]] => pc'[c] = "pick"
            BY SMTT(60), <1>6, <1>a, <1>s DEF Enter, Resume, ExitInv, ZombieInv, LeaveInv, CpuType
      <2>6. \A d \in CPUs : Held(d)' = Held(d)
            BY <2>2, Zenon DEF Held
      <2>7. ZombieInv'
            BY <1>a, <1>s, <2>2, <2>3, <2>6, ZenonT(60) DEF ExitInv, ZombieInv
      <2>8. ASSUME NEW d \in CPUs PROVE LeaveInv(d)'
            <3>1. LeaveInv(d)
                  BY <1>a, <1>s, Zenon DEF ExitInv
            <3>2. CASE d = c
                  BY SMTT(60), <1>a, <1>b, <1>s, <2>2, <2>4, <2>5, <3>1, <3>2 DEF LeaveInv, CpuType
            <3>3. CASE d # c
                  BY SMTT(60), <1>a, <1>s, <2>2, <2>4, <2>6, <3>1, <3>3 DEF LeaveInv, CpuType
            <3>4. QED BY <3>2, <3>3, Zenon
      <2>9. QED BY <2>7, <2>8, Zenon DEF ExitInv
<1>7. ASSUME NEW c \in CPUs, Pick(c) PROVE ExitInv'
      <2>1. /\ UNCHANGED <<state, runnable, exited, freed, current_task, prev, deferred_free_task>>
            /\ next' = [next EXCEPT ![c] = next'[c]]
            /\ pc' = [pc EXCEPT ![c] = pc'[c]] /\ next'[c] \in Tasks \cup {Idle}
            BY <1>7, <1>a, <1>s, PickChanges, Zenon DEF sched, life
      <2>2. next'[c] \in Tasks => runnable[next'[c]] /\ state[next'[c]] # "ZOMBIE"
            BY ZenonT(60), <1>7, <1>a, <1>s, <1>b DEF Pick, PickTask, PickAt, PickIdle, CpuType, Takeable, Live
      <2>3. next'[c] \in Steady => ~exited[next'[c]]
            BY <1>a, <1>s, <2>2, Zenon DEF ExitInv, ZombieInv
      <2>4. \A d \in CPUs : \A t \in Held(d)' : t \in Held(d) \/ (t \in Tasks /\ t = next'[c])
            BY <1>a, <1>s, <2>1 DEF Held, CpuType
      <2>5. ZombieInv'
            BY <1>a, <1>s, <2>1, <2>3, <2>4 DEF ExitInv, ZombieInv
      <2>6. pc[c] \in {"pick", "pick2"} /\ pc'[c] \in {"retire", "pick2", "run"}
            BY <1>7, <1>a, <1>s, Zenon DEF Pick, CpuType
      <2>7. /\ pc'[c] = "run" => current_task[c] = Idle
            /\ pc'[c] = "pick2" => current_task[c] = Idle
            BY <1>7, <1>a, <1>s, Zenon DEF Pick, CpuType
      <2>8. ASSUME NEW d \in CPUs PROVE LeaveInv(d)'
            <3>1. LeaveInv(d)
                  BY <1>a, <1>s, Zenon DEF ExitInv
            <3>2. CASE d = c
                  BY SMTT(60), <1>a, <1>s, <1>b, <2>1, <2>2, <2>3, <2>6, <2>7, <3>1, <3>2 DEF LeaveInv, CpuType
            <3>3. CASE d # c
                  BY SMTT(60), <1>a, <1>s, <2>1, <2>3, <2>4, <3>1, <3>3 DEF LeaveInv, CpuType
            <3>4. QED BY <3>2, <3>3, Zenon
      <2>9. QED BY <2>5, <2>8, Zenon DEF ExitInv
<1>8. ASSUME NEW c \in CPUs, Retire(c) PROVE ExitInv'
      <2>1. /\ UNCHANGED <<runnable, exited, freed, current_task, next, prev>>
            /\ pc[c] = "retire" /\ pc' = [pc EXCEPT ![c] = "switch"]
            BY <1>8, Zenon DEF Retire, sched, life
      <2>2. \A t \in Tasks : state'[t] = state[t] \/ (state[t] # "ZOMBIE" /\ state'[t] = "READY")
            BY <1>8, <1>a, <1>s, Zenon DEF Retire, sched, TaskType
      <2>3. deferred_free_task[c] \notin Steady
            BY <1>a, <1>s, <2>1, Zenon DEF ExitInv, LeaveInv
      <2>4. \/ deferred_free_task' = deferred_free_task
            \/ /\ current_task[c] \in Tasks /\ state[current_task[c]] = "ZOMBIE"
               /\ deferred_free_task' = [deferred_free_task EXCEPT ![c] = current_task[c]]
            BY <1>8, Zenon DEF Retire
      <2>5. \A d \in CPUs : Held(d)' = Held(d)
            BY <2>1, Zenon DEF Held
      <2>6. ZombieInv'
            BY <1>a, <1>s, <2>1, <2>2, <2>5, Zenon DEF ExitInv, ZombieInv
      <2>7. ASSUME NEW d \in CPUs PROVE LeaveInv(d)'
            <3>1. LeaveInv(d) /\ ZombieInv
                  BY <1>a, <1>s, Zenon DEF ExitInv
            <3>2. CASE d = c
                  BY SMTT(60), <1>a, <1>s, <2>1, <2>3, <2>4, <3>1, <3>2 DEF LeaveInv, ZombieInv, CpuType
            <3>3. CASE d # c
                  BY SMTT(60), <1>a, <1>s, <2>1, <2>4, <2>5, <3>1, <3>3 DEF LeaveInv, CpuType
            <3>4. QED BY <3>2, <3>3, Zenon
      <2>8. QED BY <2>6, <2>7, Zenon DEF ExitInv
<1>9. ASSUME NEW c \in CPUs, Switch(c) PROVE ExitInv'
      <2>1. /\ UNCHANGED <<runnable, exited, freed, deferred_free_task>>
            /\ pc[c] = "switch" /\ pc' = [pc EXCEPT ![c] = "switched"]
            /\ prev' = [prev EXCEPT ![c] = current_task[c]]
            /\ current_task' = [current_task EXCEPT ![c] = next[c]]
            /\ next' = [next EXCEPT ![c] = Idle]
            /\ state' = [t \in Tasks |-> IF t = next[c] THEN "RUNNING" ELSE state[t]]
            BY <1>9, Zenon DEF Switch, life
      <2>2. \A d \in CPUs : Held(d)' = Held(d)
            BY <1>a, <1>s, <2>1 DEF Held, CpuType, ClaimInv
      <2>3. next[c] \in Steady => ~exited[next[c]]
            BY <1>a, <1>s, Zenon DEF ExitInv, LeaveInv
      <2>4. ZombieInv'
            BY SMTT(60), <1>a, <1>s, <2>1, <2>2, <2>3 DEF ExitInv, ZombieInv, TaskType
      <2>5. ASSUME NEW d \in CPUs PROVE LeaveInv(d)'
            <3>1. LeaveInv(d)
                  BY <1>a, <1>s, Zenon DEF ExitInv
            <3>2. CASE d = c
                  BY <1>a, <1>s, <1>b, <2>1, <2>3, <3>1, <3>2, ZenonT(60) DEF LeaveInv, CpuType
            <3>3. CASE d # c
                  BY <1>a, <1>s, <2>1, <2>2, <3>1, <3>3, SMTT(60) DEF LeaveInv, CpuType
            <3>4. QED BY <3>2, <3>3, Zenon
      <2>6. QED BY <2>4, <2>5, Zenon DEF ExitInv
<1>10. ASSUME NEW c \in CPUs, Release(c) PROVE ExitInv'
      <2>1. /\ UNCHANGED <<state, runnable, exited, freed, current_task, next, deferred_free_task>>
            /\ pc[c] = "switched" /\ pc' = [pc EXCEPT ![c] = "released"]
            /\ prev' = [prev EXCEPT ![c] = Idle]
            BY <1>10, Zenon DEF Release, sched, life
      <2>2. \A d \in CPUs : Held(d)' \subseteq Held(d)
            BY <1>a, <1>s, <2>1, Zenon DEF Held, CpuType
      <2>3. ZombieInv'
            BY <1>a, <1>s, <2>1, <2>2, Zenon DEF ExitInv, ZombieInv
      <2>4. prev[c] # Idle => \A d \in CPUs : prev[c] \notin Held(d)'
            BY SMTT(60), <1>a, <1>s, <1>b, <2>1 DEF ClaimInv, OneCpu, Held, CpuType
      <2>5. ASSUME NEW d \in CPUs PROVE LeaveInv(d)'
            <3>1. LeaveInv(d)
                  BY <1>a, <1>s, Zenon DEF ExitInv
            <3>2. CASE d = c
                  BY SMTT(60), <1>a, <1>s, <1>b, <2>1, <2>4, <3>1, <3>2 DEF LeaveInv, CpuType
            <3>3. CASE d # c
                  BY <1>a, <1>s, <2>1, <2>2, <3>1, <3>3, ZenonT(60) DEF LeaveInv, CpuType
            <3>4. QED BY <3>2, <3>3, Zenon
      <2>6. QED BY <2>3, <2>5, Zenon DEF ExitInv
<1>11. ASSUME NEW w \in Wakers, Waking(w) PROVE ExitInv'
      <2>1. UNCHANGED <<exited, freed, cpu>>
            BY <1>11, Zenon DEF Waking, WakeCheck, WakeRunnable, WakeState, WakeEnqueue, life
      <2>2. \A t \in Tasks : \/ state'[t] = state[t] /\ runnable'[t] = runnable[t]
                             \/ /\ wtask[w] = t /\ state'[t] \in {state[t], "READY"}
                                /\ (runnable[t] => runnable'[t])
            BY <1>11, <1>a, <1>s, Zenon DEF Waking, WakeCheck, WakeRunnable, WakeState, WakeEnqueue, sched,
               TaskType, WakeType, WakerType
      <2>3. \A t \in Steady : \/ state'[t] = state[t] /\ runnable'[t] = runnable[t]
                              \/ ~exited[t]
            BY <1>11, <1>a, <1>s, <2>2 DEF Waking, WakeCheck, WakeRunnable, WakeState, WakeEnqueue, WakeInv,
               sched
      <2>4. \A d \in CPUs : Held(d)' = Held(d)
            BY <2>1, Zenon DEF Held, cpu
      <2>5. ZombieInv'
            BY SMTT(60), <1>a, <1>s, <2>1, <2>2, <2>3, <2>4 DEF ExitInv, ZombieInv
      <2>6. QED BY SMTT(60), <1>a, <1>s, <2>1, <2>2, <2>4, <2>5 DEF ExitInv, LeaveInv, cpu
<1>12. ASSUME UNCHANGED vars PROVE ExitInv'
      BY SMTT(60), <1>12, <1>a, <1>s DEF vars, ExitInv, ZombieInv, LeaveInv, Held, sched, cpu, life
<1>13. QED
      BY <1>1, <1>2, <1>3, <1>4, <1>5, <1>6, <1>7, <1>8, <1>9, <1>10, <1>11, <1>12, SMTT(60)
         DEF Next, Reschedule

(* No step drops a steady task that should run: what it takes off a queue, a *)
(* CPU or a waker is on another of them.                                     *)
LEMMA NotLostStep == SchedInv /\ [Next]_vars => NotLost'
<1> SUFFICES ASSUME SchedInv, [Next]_vars PROVE NotLost'
    BY Zenon
<1>a. TaskType /\ CpuType /\ WakeType /\ ClaimInv /\ WakeInv /\ ExitInv /\ NotLost
      BY Zenon DEF SchedInv
<1>b. Idle \notin Tasks /\ NoTask \notin Tasks
      BY TaskAssumption, Zenon
<1>c. \A t \in Tasks : Enqueue(t) => /\ on_rq'[t]
                                     /\ \A u \in Tasks : on_rq[u] => on_rq'[u]
      BY <1>a, Zenon DEF Enqueue, TaskType, queues
<1>s. Steady' \subseteq Steady /\ Steady \subseteq Tasks
      BY SteadyShrinks, Zenon
<1>1. ASSUME NEW t \in Tasks, Create(t) PROVE NotLost'
      <2>1. \A u \in Tasks : Kept(u) \/ u = t => Kept(u)'
            BY <1>1, <1>c, Zenon DEF Create, Kept, cpu, wake
      <2>2. QED BY SMTT(60), <1>1, <1>a, <1>s, <2>1 DEF Create, NotLost, TaskType
<1>2. ASSUME NEW t \in Tasks, Reap(t) PROVE NotLost'
      BY ZenonT(60), <1>2, <1>a, <1>s DEF Reap, NotLost, Kept, sched, queues, cpu, wake
<1>3. ASSUME NEW c \in CPUs, Block(c) \/ Exit(c) PROVE NotLost'
      <2>1. /\ UNCHANGED <<on_rq, current_task, next, wtask>>
            /\ pc' = [pc EXCEPT ![c] = "enter"]
            BY <1>3, Zenon DEF Block, Exit, queues, wake
      <2>2. \A t \in Tasks : \/ state'[t] \in {"BLOCKED", "ZOMBIE"} /\ ~runnable'[t]
                             \/ state'[t] = state[t] /\ runnable'[t] = runnable[t]
            BY SMTT(60), <1>3, <1>a DEF Block, Exit, TaskType
      <2>3. \A t \in Tasks : Kept(t) => Kept(t)'
            BY <1>a, <2>1, Zenon DEF Kept, CpuType
      <2>4. QED BY <1>a, <1>s, <2>2, <2>3, SMTT(60) DEF NotLost
<1>4. ASSUME NEW c \in CPUs, Preempt(c) \/ Enter(c) \/ Resume(c) \/ Release(c) PROVE NotLost'
      <2>1. /\ UNCHANGED <<sched, on_rq, current_task, next, exited, wtask>>
            /\ pc' = [pc EXCEPT ![c] = pc'[c]] /\ pc'[c] # "switch"
            BY <1>4, <1>a, Zenon DEF Preempt, Enter, Resume, Release, queues, life, wake, CpuType
      <2>2. \A t \in Tasks : Kept(t) => Kept(t)'
            BY <1>a, <2>1, Zenon DEF Kept, CpuType
      <2>3. QED BY <1>a, <1>s, <2>1, <2>2, Zenon DEF NotLost, sched
<1>5. ASSUME NEW c \in CPUs, Pick(c) PROVE NotLost'
      <2>1. /\ UNCHANGED <<sched, current_task, exited, wtask>>
            /\ pc' = [pc EXCEPT ![c] = pc'[c]] /\ pc'[c] # "switch"
            /\ next' = [next EXCEPT ![c] = next'[c]] /\ next'[c] \in Tasks \cup {Idle}
            BY <1>5, <1>a, PickChanges, Zenon DEF life, wake
      <2>2. next[c] = Idle
            BY <1>5, <1>a, Zenon DEF Pick, ClaimInv
      <2>3. \A t \in Tasks : on_rq[t] /\ Live(t) => on_rq'[t] \/ t = next'[c]
            <3>1. CASE PickTask(c)
                  <4>1. PICK u \in Tasks : \E i \in DOMAIN ready_queues[Prio[u]] : PickAt(c, u, i)
                        BY <3>1, Zenon DEF PickTask
                  <4>2. PICK i : PickAt(c, u, i)
                        BY <4>1, Zenon
                  <4>3. next' = [next EXCEPT ![c] = u]
                        BY <4>2, Zenon DEF PickAt
                  <4>4. \A t \in Tasks : on_rq[t] /\ Live(t) /\ t # u => on_rq'[t]
                        BY <4>2, Zenon DEF PickAt
                  <4>5. QED BY <1>a, <4>3, <4>4, Zenon DEF CpuType
            <3>2. CASE PickIdle(c)
                  <4>1. on_rq' = [t \in Tasks |-> on_rq[t] /\ Live(t)]
                        BY <3>2, Zenon DEF PickIdle
                  <4>2. QED BY <4>1, Zenon
            <3>3. QED BY <1>5, <3>1, <3>2, Zenon DEF Pick
      <2>4. ASSUME NEW t \in Steady, runnable[t], Kept(t) PROVE Kept(t)'
            <3>1. Live(t)
                  BY <1>a, <2>4, Zenon DEF Live, ExitInv, ZombieInv
            <3> t \in Tasks
                  BY <1>s, Zenon
            <3>2. CASE on_rq[t]
                  BY <1>a, <2>1, <2>3, <3>1, <3>2, Zenon DEF Kept, CpuType
            <3>3. CASE \E w \in Wakers : wtask[w] = t
                  BY <2>1, <3>3, Zenon DEF Kept
            <3>4. CASE \E d \in CPUs : next[d] = t \/ (current_task[d] = t /\ pc[d] # "switch")
                  BY <1>a, <1>b, <2>1, <2>2, <3>4, Zenon DEF Kept, CpuType
            <3>5. QED BY <2>4, <3>2, <3>3, <3>4, Zenon DEF Kept
      <2>5. QED BY <1>a, <1>s, <2>1, <2>4, Zenon DEF NotLost, sched
<1>6. ASSUME NEW c \in CPUs, Retire(c) PROVE NotLost'
      <2>1. /\ UNCHANGED <<runnable, current_task, next, exited, wtask>>
            /\ pc' = [pc EXCEPT ![c] = "switch"]
            BY <1>6, Zenon DEF Retire, sched, life, wake
      <2>2. \A t \in Tasks : /\ on_rq[t] => on_rq'[t]
                             /\ \/ state'[t] = state[t]
                                \/ t = current_task[c] /\ state[t] # "ZOMBIE" /\ runnable[t]
            BY <1>6, <1>a, <1>c, Zenon DEF Retire, sched, queues, TaskType
      <2>3. \A t \in Tasks : t = current_task[c] =>
               \/ state[t] = "ZOMBIE" \/ (~runnable[t] /\ state'[t] = state[t]) \/ on_rq'[t]
            BY <1>6, <1>a, <1>c, Zenon DEF Retire, sched
      <2>4. ASSUME NEW t \in Steady, runnable[t] PROVE Kept(t)'
            <3>1. t \in Tasks /\ state[t] # "ZOMBIE" /\ Kept(t)
                  BY <1>a, <1>s, <2>4, Zenon DEF ExitInv, ZombieInv, NotLost
            <3>2. CASE t = current_task[c]
                  BY <2>3, <2>4, <3>1, <3>2, Zenon DEF Kept
            <3>3. CASE t # current_task[c]
                  BY <1>a, <2>1, <2>2, <3>1, <3>3, Zenon DEF Kept, CpuType
            <3>4. QED BY <3>2, <3>3, Zenon
      <2>5. QED BY <1>a, <1>s, <2>1, <2>2, <2>4, Zenon DEF NotLost
<1>7. ASSUME NEW c \in CPUs, Switch(c) PROVE NotLost'
      <2>1. /\ UNCHANGED <<runnable, on_rq, exited, wtask>>
            /\ pc[c] = "switch" /\ pc' = [pc EXCEPT ![c] = "switched"]
            /\ current_task' = [current_task EXCEPT ![c] = next[c]]
            /\ next' = [next EXCEPT ![c] = Idle]
            /\ state' = [t \in Tasks |-> IF t = next[c] THEN "RUNNING" ELSE state[t]]
            BY <1>7, Zenon DEF Switch, queues, life, wake
      <2>2. \A t \in Tasks : Kept(t) => Kept(t)'
            BY <1>a, <2>1, Zenon DEF Kept, CpuType
      <2>3. next[c] \in Steady => runnable[next[c]]
            BY <1>a, Zenon DEF ExitInv, LeaveInv
      <2>4. QED BY <1>a, <1>s, <2>1, <2>2, <2>3, SMTT(60) DEF NotLost
<1>8. ASSUME NEW w \in Wakers, WakeCheck(w) PROVE NotLost'
      <2>1. wtask[w] = NoTask
            BY <1>8, <1>a, Zenon DEF WakeCheck, WakeType, WakerType
      <2>2. \A t \in Tasks : Kept(t) => Kept(t)'
            BY SMTT(60), <1>8, <1>a, <1>b, <2>1 DEF WakeCheck, Kept, queues, cpu, WakeType
      <2>3. QED BY <1>8, <1>a, <1>s, <2>2, Zenon DEF WakeCheck, NotLost, sched
<1>9. ASSUME NEW w \in Wakers, WakeRunnable(w) \/ WakeState(w) PROVE NotLost'
      <2>1. /\ wtask[w] \in Tasks /\ UNCHANGED <<on_rq, current_task, next, pc, exited, wtask>>
            /\ WakeState(w) /\ wtask[w] \in Steady => runnable[wtask[w]]
            BY ZenonT(60), <1>9, <1>a DEF WakeRunnable, WakeState, queues, cpu, life, WakeType, WakerType, WakeInv
      <2>2. \A t \in Tasks : /\ Kept(t)' <=> Kept(t)
                             /\ runnable[t] => runnable'[t]
            BY <1>9, <1>a, <2>1, Zenon DEF Kept, WakeRunnable, WakeState, TaskType
      <2>3. \A t \in Steady : state'[t] = state[t] \/ (t = wtask[w] /\ runnable[t])
            BY <1>9, <1>a, <1>s, <2>1, Zenon DEF WakeRunnable, WakeState, TaskType
      <2>4. \A t \in Tasks : /\ t = wtask[w] => Kept(t)
                             /\ t # wtask[w] => runnable'[t] = runnable[t]
            BY <1>9, <1>a, <2>1, Zenon DEF WakeRunnable, WakeState, TaskType, Kept
      <2>5. QED BY SMTT(60), <1>a, <1>s, <2>2, <2>3, <2>4 DEF NotLost
<1>10. ASSUME NEW w \in Wakers, WakeEnqueue(w) PROVE NotLost'
      <2>1. wtask[w] \in Tasks /\ UNCHANGED <<state, runnable, exited, current_task, next, pc>>
            BY <1>10, <1>a, Zenon DEF WakeEnqueue, sched, cpu, life, WakeType, WakerType
      <2>2. on_rq'[wtask[w]] /\ \A u \in Tasks : on_rq[u] => on_rq'[u]
            BY <1>10, <1>c, <2>1, Zenon DEF WakeEnqueue
      <2>3. \A t \in Tasks : Kept(t) => Kept(t)'
            BY SMTT(60), <1>10, <1>a, <2>1, <2>2 DEF WakeEnqueue, Kept, WakeType
      <2>4. QED BY <1>a, <1>s, <2>1, <2>3 DEF NotLost
<1>11. ASSUME UNCHANGED vars PROVE NotLost'
      BY <1>11, <1>a, <1>s DEF vars, NotLost, Kept, sched, queues, cpu, wake
<1>12. QED
      BY <1>1, <1>2, <1>3, <1>4, <1>5, <1>6, <1>7, <1>8, <1>9, <1>10, <1>11, SMTT(60)
         DEF Next, Reschedule, Waking

(* SchedInv is an inductive invariant, whatever the wakers are and hold.     *)
THEOREM SchedInvariant == Spec => []SchedInv
<1>1. Init => SchedInv
      <2> SUFFICES ASSUME Init PROVE SchedInv
          BY Zenon
      <2>1. TaskType /\ CpuType /\ WakeType
            BY TypesInit, Zenon DEF Types
      <2>2. ClaimInv /\ WakeInv
            BY TaskAssumption, Zenon DEF Init, ClaimInv, OneCpu, Held, WakeInv, Steady
      <2>3. ExitInv /\ NotLost
            BY TaskAssumption, Zenon DEF Init, ExitInv, ZombieInv, LeaveInv, Held, NotLost, Steady
      <2>4. QED BY <2>1, <2>2, <2>3, Zenon DEF SchedInv
<1>2. SchedInv /\ [Next]_vars => SchedInv'
      <2>1. SchedInv => Types /\ ClaimInv
            BY Zenon DEF SchedInv, Types
      <2>2. QED BY <2>1, TypesStep, ClaimStep, WakeStep, ExitStep, NotLostStep, Zenon DEF SchedInv, Types
<1>3. QED BY <1>1, <1>2, PTL DEF Spec

(* Only a task that exited under a waker with stores still to make can come  *)
(* back from task_exit, however many wakers there are.                       *)
THEOREM ExitDoesNotReturn == Spec => []OnlyOvertakenReturn
<1>1. SchedInv => OnlyOvertakenReturn
      BY SMTT(60) DEF SchedInv, ExitInv, LeaveInv, OnlyOvertakenReturn
<1>2. QED BY <1>1, SchedInvariant, PTL

(* The kernel stack of no other task is freed under a CPU.                   *)
THEOREM StackFreedOffCpu == Spec => []StackInUse
<1>1. SchedInv => StackInUse
      BY DEF SchedInv, ExitInv, ZombieInv, StackInUse
<1>2. QED BY <1>1, SchedInvariant, PTL

(* No task is dropped that went to sleep only when no waker had the store of *)
(* READY still to make for it.                                               *)
THEOREM NoTaskLost == Spec => []NotLost
<1>1. SchedInv => NotLost
      BY Zenon DEF SchedInv
<1>2. QED BY <1>1, SchedInvariant, PTL
-----------------------------------------------------------------------------
(* Every nonempty set of natural numbers has a least element: 0 .. k grows   *)
(* with k, and inclusion is well-founded on finite sets.                     *)
LEMMA LeastElement ==
    ASSUME NEW T \in SUBSET Nat, T # {}
    PROVE  \E x \in T : \A y \in T : x <= y
<1>0. PICK n \in T : TRUE
      BY Zenon
<1> DEFINE U == {j \in T : j <= n}
           V == {0 .. k : k \in U}
           R == StrictSubsetOrdering(0 .. n)
           S == FiniteSubsetsOf(0 .. n)
<1>1. n \in Nat /\ n \in U
      OBVIOUS
<1>2. IsFiniteSet(0 .. n)
      BY <1>1, FS_Interval
<1>3. IsWellFoundedOn(R, S)
      BY FS_StrictSubsetOrderingWellFounded, Zenon
<1>4. S = SUBSET (0 .. n)
      BY <1>2, FS_FiniteSubsetsOfFinite, Zenon
<1>5. V \subseteq S /\ V # {}
      BY <1>1, <1>4
<1>6. \E x \in V : \A y \in V : ~(<<y, x>> \in R)
      <2> HIDE DEF R, S, V
      <2> QED BY <1>3, <1>5, WFMin, Zenon
<1>7. PICK m \in U : \A y \in V : ~(<<y, 0 .. m>> \in R)
      BY <1>6, Zenon
<1>8. ASSUME NEW k \in U, k < m PROVE FALSE
      <2>1. 0 .. k \in SUBSET (0 .. n) /\ 0 .. m \in SUBSET (0 .. n)
            OBVIOUS
      <2>2. 0 .. k \subseteq 0 .. m /\ m \in 0 .. m /\ m \notin 0 .. k
            BY <1>8
      <2>3. <<0 .. k, 0 .. m>> \in R
            BY <2>1, <2>2, Zenon DEF StrictSubsetOrdering
      <2>4. QED BY <2>3, <1>7, Zenon
<1>9. QED BY <1>8

(* One step of the scan of a queue, and a scan of its first n entries.       *)
ScanStep(q, g, i) ==
    IF i = 0 THEN <<>> ELSE IF Live(q[i]) THEN Append(g[i - 1], q[i]) ELSE g[i - 1]
Scans(q, n, g) == g = [i \in 0 .. n |-> ScanStep(q, g, i)]

LEMMA ScanExists == ASSUME NEW q \in Seq(Tasks) PROVE \E g : Scans(q, Len(q), g)
<1> DEFINE Bad == {n \in Nat : ~\E g : Scans(q, n, g)}
<1>0. SUFFICES Bad = {}
      BY LenProperties, Zenon
<1>1. SUFFICES ASSUME Bad # {} PROVE FALSE
      BY Zenon
<1>2. PICK n \in Bad : \A m \in Bad : n <= m
      BY <1>1, LeastElement, Zenon
<1>3. CASE n = 0
      <2> DEFINE g == [i \in 0 .. 0 |-> <<>>]
      <2>1. Scans(q, 0, g)
            BY DEF Scans, ScanStep
      <2>2. QED BY <1>3, <2>1, Zenon
<1>4. CASE n > 0
      <2>1. PICK h : Scans(q, n - 1, h)
            BY <1>2, <1>4
      <2> DEFINE g == [i \in 0 .. n |-> IF i = n THEN ScanStep(q, h, n) ELSE h[i]]
      <2>2. \A i \in 0 .. n - 1 : h[i] = ScanStep(q, h, i)
            BY <2>1, Zenon DEF Scans
      <2>3. \A i \in 0 .. n : g[i] = ScanStep(q, g, i)
            <3> TAKE i \in 0 .. n
            <3>1. i > 0 => i - 1 \in 0 .. n /\ i - 1 # n /\ g[i - 1] = h[i - 1]
                  BY <1>4
            <3>2. i # n => i \in 0 .. n - 1
                  OBVIOUS
            <3>3. ScanStep(q, g, i) = ScanStep(q, h, i)
                  BY <3>1 DEF ScanStep
            <3>4. QED BY <3>2, <3>3, <2>2, Zenon
      <2>4. Scans(q, n, g)
            BY <2>3, Zenon DEF Scans
      <2>5. QED BY <2>4, Zenon
<1>5. QED BY <1>3, <1>4

LEMMA ScannedIs ==
    ASSUME NEW q \in Seq(Tasks)
    PROVE  \E g : Scans(q, Len(q), g) /\ Scanned(q) = g[Len(q)]
<1> DEFINE G == CHOOSE g : Scans(q, Len(q), g)
<1>1. Scans(q, Len(q), G)
      BY ScanExists, Zenon
<1>2. Scanned(q) = G[Len(q)]
      BY Zenon DEF Scanned, Scans, ScanStep
<1>3. QED BY <1>1, <1>2, Zenon

(* What an unfinished scan has kept of the entries it has passed.            *)
ScanKept(q, s, i) ==
    /\ s \in Seq(Tasks)
    /\ \A t \in Tasks : Holds(s, t) <=> Live(t) /\ \E k \in 1 .. i : q[k] = t
    /\ Once(q) => Once(s)

LEMMA AppendHolds ==
    ASSUME NEW s \in Seq(Tasks), NEW t \in Tasks
    PROVE  /\ Append(s, t) \in Seq(Tasks)
           /\ \A u \in Tasks : Holds(Append(s, t), u) <=> u = t \/ Holds(s, u)
           /\ Once(s) /\ ~Holds(s, t) => Once(Append(s, t))
<1>1. /\ Append(s, t) \in Seq(Tasks) /\ DOMAIN Append(s, t) = 1 .. Len(s) + 1
      /\ DOMAIN s = 1 .. Len(s) /\ Len(s) \in Nat
      /\ \A i \in 1 .. Len(s) : Append(s, t)[i] = s[i]
      /\ Append(s, t)[Len(s) + 1] = t
      OBVIOUS
<1> DEFINE a == Append(s, t)
<1> HIDE DEF a
<1>2. QED BY <1>1 DEF a, Holds, Once

LEMMA ScannedFacts ==
    ASSUME NEW q \in Seq(Tasks), Types
    PROVE  /\ Scanned(q) \in Seq(Tasks)
           /\ \A t \in Tasks : Holds(Scanned(q), t) <=> Live(t) /\ Holds(q, t)
           /\ Once(q) => Once(Scanned(q))
<1>1. PICK g : Scans(q, Len(q), g) /\ Scanned(q) = g[Len(q)]
      BY ScannedIs, Zenon
<1> DEFINE Bad == {n \in 0 .. Len(q) : ~ScanKept(q, g[n], n)}
<1>2. SUFFICES Bad = {}
      <2>1. ScanKept(q, g[Len(q)], Len(q)) /\ DOMAIN q = 1 .. Len(q)
            BY <1>2
      <2>2. QED BY <1>1, <2>1 DEF ScanKept, Holds
<1>3. SUFFICES ASSUME Bad # {} PROVE FALSE
      BY Zenon
<1>4. PICK n \in Bad : \A m \in Bad : n <= m
      <2>1. Bad \in SUBSET Nat
            OBVIOUS
      <2>2. QED BY <1>3, <2>1, LeastElement, Zenon
<1>5. g[n] = ScanStep(q, g, n)
      BY <1>1, Zenon DEF Scans
<1>6. CASE n = 0
      <2>1. g[0] = <<>> /\ <<>> \in Seq(Tasks) /\ DOMAIN <<>> = {}
            BY <1>5, <1>6 DEF ScanStep
      <2>2. ScanKept(q, g[0], 0)
            BY <2>1 DEF ScanKept, Holds, Once
      <2>3. QED BY <1>6, <2>2, Zenon
<1>7. CASE n > 0
      <2>1. n - 1 \in 0 .. Len(q) /\ ScanKept(q, g[n - 1], n - 1) /\ q[n] \in Tasks
            BY <1>4, <1>7
      <2>2. \A t : (\E k \in 1 .. n : q[k] = t) <=> q[n] = t \/ \E k \in 1 .. n - 1 : q[k] = t
            BY <1>7
      <2>3. CASE ~Live(q[n])
            <3>1. g[n] = g[n - 1]
                  BY <1>5, <1>7, <2>3 DEF ScanStep
            <3>2. QED BY <2>1, <2>2, <2>3, <3>1, Zenon DEF ScanKept
      <2>4. CASE Live(q[n])
            <3>1. g[n] = Append(g[n - 1], q[n])
                  BY <1>5, <1>7, <2>4, SMTT(60) DEF ScanStep
            <3>2. Once(q) => ~Holds(g[n - 1], q[n])
                  BY <2>1, <1>7 DEF Once, ScanKept
            <3>3. g[n - 1] \in Seq(Tasks)
                  BY <2>1, Zenon DEF ScanKept
            <3>4. /\ g[n] \in Seq(Tasks)
                  /\ \A u \in Tasks : Holds(g[n], u) <=> u = q[n] \/ Holds(g[n - 1], u)
                  /\ Once(g[n - 1]) /\ ~Holds(g[n - 1], q[n]) => Once(g[n])
                  BY <2>1, <3>1, <3>3, AppendHolds, SMTT(60)
            <3>5. ScanKept(q, g[n], n)
                  BY <2>1, <2>2, <2>4, <3>2, <3>4 DEF ScanKept
            <3>6. QED BY <3>5, Zenon
      <2>5. QED BY <2>3, <2>4, Zenon
<1>8. QED BY <1>6, <1>7

(* What a queue holds after a task is pushed at its head.                    *)
LEMMA PushHolds ==
    ASSUME NEW s \in Seq(Tasks), NEW t \in Tasks
    PROVE  /\ <<t>> \o s \in Seq(Tasks)
           /\ \A u \in Tasks : Holds(<<t>> \o s, u) <=> u = t \/ Holds(s, u)
           /\ Once(s) /\ ~Holds(s, t) => Once(<<t>> \o s)
<1> DEFINE a == <<t>> \o s
<1>1. /\ a \in Seq(Tasks) /\ Len(a) = Len(s) + 1
      /\ a[1] = t /\ \A i \in 1 .. Len(s) : a[i + 1] = s[i]
      OBVIOUS
<1>2. DOMAIN a = 1 .. Len(s) + 1 /\ DOMAIN s = 1 .. Len(s) /\ Len(s) \in Nat
      BY <1>1, LenProperties
<1> HIDE DEF a
<1>3. \A i \in 2 .. Len(s) + 1 : i - 1 \in 1 .. Len(s) /\ a[i] = s[i - 1]
      <2> TAKE i \in 2 .. Len(s) + 1
      <2>1. i - 1 \in 1 .. Len(s) /\ (i - 1) + 1 = i
            BY <1>2
      <2>2. QED BY <1>1, <2>1
<1>4. \A u \in Tasks : Holds(a, u) <=> u = t \/ Holds(s, u)
      <2> TAKE u \in Tasks
      <2>1. ASSUME Holds(s, u) PROVE Holds(a, u)
            <3>1. PICK i \in 1 .. Len(s) : s[i] = u
                  BY <2>1, <1>2, Zenon DEF Holds
            <3>2. i + 1 \in 1 .. Len(s) + 1
                  BY <1>2
            <3>3. QED BY <1>1, <1>2, <3>1, <3>2, Zenon DEF Holds
      <2>2. t = u => Holds(a, u)
            BY <1>1, <1>2 DEF Holds
      <2>3. ASSUME Holds(a, u), u # t PROVE Holds(s, u)
            <3>1. PICK i \in 1 .. Len(s) + 1 : a[i] = u
                  BY <2>3, <1>2, Zenon DEF Holds
            <3>2. i \in 2 .. Len(s) + 1
                  BY <2>3, <3>1, <1>1, <1>2
            <3>3. QED BY <1>2, <1>3, <3>1, <3>2 DEF Holds
      <2>4. QED BY <2>1, <2>2, <2>3
<1>5. ASSUME Once(s), ~Holds(s, t) PROVE Once(a)
      <2> SUFFICES ASSUME NEW i \in 1 .. Len(s) + 1, NEW j \in 1 .. Len(s) + 1, a[i] = a[j]
                   PROVE  i = j
          BY <1>2, Zenon DEF Once
      <2>1. \A k \in 2 .. Len(s) + 1 : a[k] # t
            BY <1>2, <1>3, <1>5, Zenon DEF Holds
      <2>2. CASE i = 1 \/ j = 1
            BY <1>1, <1>2, <2>1, <2>2
      <2>3. CASE i \in 2 .. Len(s) + 1 /\ j \in 2 .. Len(s) + 1
            <3>1. i - 1 = j - 1
                  BY <1>2, <1>3, <1>5, <2>3 DEF Once
            <3>2. QED BY <3>1
      <2>4. QED BY <1>2, <2>2, <2>3
<1>6. QED BY <1>1, <1>4, <1>5, Zenon DEF a

(* A queue q without its entry i, and with something that holds less in the  *)
(* place of what is before it.                                               *)
LEMMA CutHolds ==
    ASSUME NEW q \in Seq(Tasks), NEW i \in DOMAIN q, NEW s \in Seq(Tasks), Once(q), Once(s),
           \A u \in Tasks : Holds(s, u) => Holds(SubSeq(q, 1, i - 1), u)
    PROVE  LET before == SubSeq(q, 1, i - 1)
               after == SubSeq(q, i + 1, Len(q))
           IN  /\ before \in Seq(Tasks) /\ s \o after \in Seq(Tasks) /\ Once(before)
               /\ Once(s \o after)
               /\ \A u \in Tasks :
                     Holds(s \o after, u) <=>
                        Holds(s, u) \/ (Holds(q, u) /\ u # q[i] /\ ~Holds(before, u))
<1> DEFINE n == Len(q)
           m == Len(s)
           b == SubSeq(q, 1, i - 1)
           a == SubSeq(q, i + 1, n)
           r == s \o a
<1>1. n \in Nat /\ m \in Nat /\ DOMAIN q = 1 .. n /\ DOMAIN s = 1 .. m /\ i \in 1 .. n
      BY LenProperties, Zenon
<1>2. /\ b \in Seq(Tasks) /\ DOMAIN b = 1 .. i - 1 /\ \A j \in 1 .. i - 1 : b[j] = q[j]
      BY <1>1
<1>3. /\ a \in Seq(Tasks) /\ Len(a) = n - i /\ \A j \in 1 .. n - i : a[j] = q[i + j]
      BY <1>1, SMTT(60)
<1>4. /\ r \in Seq(Tasks) /\ Len(r) = m + (n - i)
      /\ \A j \in 1 .. m : r[j] = s[j]
      /\ \A j \in m + 1 .. m + (n - i) : r[j] = a[j - m]
      <2> HIDE DEF a
      <2>1. /\ r \in Seq(Tasks) /\ Len(r) = Len(s) + Len(a)
            /\ \A j \in 1 .. Len(s) + Len(a) :
                  r[j] = IF j <= Len(s) THEN s[j] ELSE a[j - Len(s)]
            BY <1>3, ConcatProperties, Zenon
      <2> HIDE DEF r
      <2>2. /\ \A j \in 1 .. m : j \in 1 .. m + (n - i) /\ j <= m
            /\ \A j \in m + 1 .. m + (n - i) : j \in 1 .. m + (n - i) /\ ~(j <= m)
            BY <1>1, SMTT(60)
      <2>3. QED BY <1>3, <2>1, <2>2, Zenon
<1>5. DOMAIN r = 1 .. m + (n - i)
      BY <1>4, LenProperties, Zenon
<1>6. \A j \in m + 1 .. m + (n - i) : /\ j - m + i \in i + 1 .. n
                                      /\ r[j] = q[j - m + i]
      <2> HIDE DEF a, r
      <2> TAKE j \in m + 1 .. m + (n - i)
      <2>1. j - m \in 1 .. n - i /\ i + (j - m) = j - m + i
            BY <1>1
      <2>2. QED BY <1>1, <1>3, <1>4, <2>1, SMTT(60)
<1> HIDE DEF n, m, a, b, r
<1>7. Once(b)
      BY <1>1, <1>2 DEF Once
<1>8. \A u \in Tasks : Holds(s, u) => \E j \in 1 .. i - 1 : q[j] = u
      BY <1>2, Zenon DEF Holds, b
<1>9. \A u \in Tasks : Holds(r, u) <=> Holds(s, u) \/ \E k \in i + 1 .. n : q[k] = u
      <2> TAKE u \in Tasks
      <2>1. ASSUME Holds(r, u) PROVE Holds(s, u) \/ \E k \in i + 1 .. n : q[k] = u
            <3>1. PICK j \in 1 .. m + (n - i) : r[j] = u
                  BY <1>5, <2>1, ZenonT(60) DEF Holds
            <3>2. CASE j \in 1 .. m
                  BY <1>1, <1>4, <3>1, <3>2, Zenon DEF Holds
            <3>3. CASE j \in m + 1 .. m + (n - i)
                  BY <1>6, <3>1, <3>3, Zenon
            <3>4. QED BY <1>1, <3>2, <3>3
      <2>2. ASSUME Holds(s, u) PROVE Holds(r, u)
            <3>1. PICK j \in 1 .. m : s[j] = u
                  BY <1>1, <2>2, Zenon DEF Holds
            <3>2. j \in 1 .. m + (n - i)
                  BY <1>1, SMTT(60)
            <3>3. QED BY <1>4, <1>5, <3>1, <3>2, Zenon DEF Holds
      <2>3. ASSUME NEW k \in i + 1 .. n, q[k] = u PROVE Holds(r, u)
            <3>1. k - i + m \in m + 1 .. m + (n - i) /\ (k - i + m) - m + i = k
                  BY <1>1
            <3>2. k - i + m \in 1 .. m + (n - i)
                  BY <1>1
            <3>3. QED BY <1>5, <1>6, <2>3, <3>1, <3>2, SMTT(60) DEF Holds
      <2>4. QED BY <2>1, <2>2, <2>3, Zenon
<1>10. \A u \in Tasks : (\E k \in i + 1 .. n : q[k] = u) <=> Holds(q, u) /\ u # q[i] /\ ~Holds(b, u)
      <2> TAKE u \in Tasks
      <2>1. \A j, k \in 1 .. n : q[j] = q[k] => j = k
            BY <1>1, Zenon DEF Once
      <2>2. Holds(q, u) <=> \E k \in 1 .. n : q[k] = u
            BY <1>1, Zenon DEF Holds
      <2>3. Holds(b, u) <=> \E k \in 1 .. i - 1 : q[k] = u
            BY <1>2, Zenon DEF Holds
      <2>4. QED BY <1>1, <2>1, <2>2, <2>3
<1>11. Once(r)
      <2> SUFFICES ASSUME NEW j \in 1 .. m + (n - i), NEW k \in 1 .. m + (n - i), r[j] = r[k], j < k
                   PROVE  FALSE
          BY <1>1, <1>5 DEF Once
      <2>1. CASE k \in 1 .. m
            <3>1. j \in 1 .. m
                  BY <1>1, <2>1
            <3>2. s[j] = s[k]
                  BY <1>4, <2>1, <3>1, Zenon
            <3>3. QED BY <1>1, <2>1, <3>1, <3>2, SMTT(60) DEF Once
      <2>2. CASE j \in m + 1 .. m + (n - i)
            <3>1. k \in m + 1 .. m + (n - i)
                  BY <1>1, <2>2, SMTT(60)
            <3>2. j - m + i = k - m + i
                  BY <1>1, <1>6, <2>2, <3>1, SMTT(60) DEF Once
            <3>3. QED BY <1>1, <3>2
      <2>3. CASE j \in 1 .. m /\ k \in m + 1 .. m + (n - i)
            <3>1. r[j] = s[j] /\ s[j] \in Tasks /\ Holds(s, s[j])
                  <4>1. s[j] \in Tasks
                        BY <1>1, <2>3, ElementOfSeq, Zenon DEF m
                  <4>2. QED BY <1>1, <1>4, <2>3, <4>1 DEF Holds
            <3>2. PICK l \in 1 .. i - 1 : q[l] = r[j]
                  BY <1>8, <3>1, Zenon
            <3>3. k - m + i \in i + 1 .. n /\ q[k - m + i] = q[l]
                  BY <1>6, <2>3, <3>2, Zenon
            <3>4. l \in 1 .. n /\ k - m + i \in 1 .. n
                  BY <1>1, <3>3
            <3>5. l = k - m + i
                  BY <1>1, <3>3, <3>4, SMTT(60) DEF Once
            <3>6. QED BY <1>1, <3>3, <3>5
      <2>4. QED BY <1>1, <2>1, <2>2, <2>3, SMTT(60)
<1>12. QED BY <1>2, <1>4, <1>7, <1>9, <1>10, <1>11, Zenon DEF n, a, b, r

(* enqueue_global keeps the queues and the flags in agreement.               *)
LEMMA EnqueueKeeps ==
    ASSUME Types, QueuesInv, NEW t \in Tasks, Enqueue(t)
    PROVE  QueuesInv'
<1>1. CASE on_rq[t]
      BY <1>1 DEF Enqueue, queues, QueuesInv
<1>2. CASE ~on_rq[t]
      <2> DEFINE p == Prio[t]
                 q == ready_queues[p]
      <2>1. p \in Priorities /\ q \in Seq(Tasks) /\ Once(q) /\ ~Holds(q, t)
            BY <1>2, Zenon DEF QueuesInv, Priorities
      <2>2. /\ <<t>> \o q \in Seq(Tasks) /\ Once(<<t>> \o q)
            /\ \A u \in Tasks : Holds(<<t>> \o q, u) <=> u = t \/ Holds(q, u)
            BY <2>1, PushHolds, Zenon
      <2>3. /\ ready_queues' = [ready_queues EXCEPT ![p] = <<t>> \o q]
            /\ on_rq' = [on_rq EXCEPT ![t] = TRUE]
            BY <1>2, Zenon DEF Enqueue
      <2>4. ready_queues' \in [Priorities -> Seq(Tasks)]
            BY <2>1, <2>2, <2>3, Zenon DEF QueuesInv
      <2>5. ASSUME NEW r \in Priorities
            PROVE  /\ Once(ready_queues'[r])
                   /\ \A u \in Tasks : Holds(ready_queues'[r], u) <=> on_rq'[u] /\ Prio[u] = r
            <3>1. \A u \in Tasks : on_rq'[u] <=> on_rq[u] \/ u = t
                  BY <2>3, Zenon DEF Types, TaskType
            <3>2. CASE r = p
                  <4>1. ready_queues'[r] = <<t>> \o q
                        BY <2>1, <2>3, <3>2, Zenon DEF QueuesInv
                  <4>2. \A u \in Tasks : Holds(q, u) <=> on_rq[u] /\ Prio[u] = r
                        BY <2>1, <3>2, Zenon DEF QueuesInv
                  <4> HIDE DEF q
                  <4>3. QED BY <2>2, <3>1, <3>2, <4>1, <4>2, Zenon
            <3>3. CASE r # p
                  <4>1. ready_queues'[r] = ready_queues[r]
                        BY <2>3, <3>3, Zenon DEF QueuesInv
                  <4>2. QED BY <3>1, <3>3, <4>1, Zenon DEF QueuesInv
            <3>4. QED BY <3>2, <3>3, Zenon
      <2>6. QED BY <2>4, <2>5, Zenon DEF QueuesInv
<1>3. QED BY <1>1, <1>2, Zenon

(* The scan of sched_pick_next unlinks dead entries and clears their flags.  *)
LEMMA PickKeeps ==
    ASSUME Types, QueuesInv, NEW c \in CPUs, PickTask(c) \/ PickIdle(c)
    PROVE  QueuesInv'
<1>0. \A u \in Tasks : Live(u) \in BOOLEAN
      BY Zenon DEF Live
<1>1. ASSUME NEW r \in Priorities
      PROVE  LET q == Scanned(ready_queues[r])
             IN  /\ q \in Seq(Tasks) /\ Once(q)
                 /\ \A u \in Tasks : Holds(q, u) <=> Live(u) /\ on_rq[u] /\ Prio[u] = r
      <2>1. /\ ready_queues[r] \in Seq(Tasks) /\ Once(ready_queues[r])
            /\ \A u \in Tasks : Holds(ready_queues[r], u) <=> on_rq[u] /\ Prio[u] = r
            BY Zenon DEF QueuesInv
      <2>2. QED BY <2>1, ScannedFacts, Zenon
<1>2. CASE PickIdle(c)
      <2>1. /\ ready_queues' = [p \in Priorities |-> Scanned(ready_queues[p])]
            /\ on_rq' = [u \in Tasks |-> on_rq[u] /\ Live(u)]
            BY <1>2, Zenon DEF PickIdle
      <2>2. ready_queues' \in [Priorities -> Seq(Tasks)]
            BY <1>1, <2>1, Zenon
      <2>3. ASSUME NEW r \in Priorities
            PROVE  /\ Once(ready_queues'[r])
                   /\ \A u \in Tasks : Holds(ready_queues'[r], u) <=> on_rq'[u] /\ Prio[u] = r
            <3>1. ready_queues'[r] = Scanned(ready_queues[r])
                  BY <2>1, Zenon
            <3>2. \A u \in Tasks : on_rq'[u] <=> on_rq[u] /\ Live(u)
                  BY <2>1, Zenon
            <3>3. QED BY <1>1, <3>1, <3>2
      <2>4. QED BY <2>2, <2>3, Zenon DEF QueuesInv
<1>3. CASE PickTask(c)
      <2>1. PICK t \in Tasks : \E i \in DOMAIN ready_queues[Prio[t]] : PickAt(c, t, i)
            BY <1>3, Zenon DEF PickTask
      <2>2. PICK i \in DOMAIN ready_queues[Prio[t]] : PickAt(c, t, i)
            BY <2>1, Zenon
      <2> DEFINE p == Prio[t]
                 q == ready_queues[p]
                 before == SubSeq(q, 1, i - 1)
                 cut == Scanned(before) \o SubSeq(q, i + 1, Len(q))
                 Passed(u) == Prio[u] > p \/ Holds(before, u)
      <2>3. /\ q[i] = t
            /\ ready_queues' = [r \in Priorities |-> IF r > p THEN Scanned(ready_queues[r])
                                                     ELSE IF r = p THEN cut
                                                     ELSE ready_queues[r]]
            /\ on_rq' = [u \in Tasks |-> on_rq[u] /\ u # t /\ (Live(u) \/ ~Passed(u))]
            BY <2>2, Zenon DEF PickAt, Holds
      <2>4. /\ p \in Priorities /\ q \in Seq(Tasks) /\ Once(q)
            /\ \A u \in Tasks : Holds(q, u) <=> on_rq[u] /\ Prio[u] = p
            BY DEF QueuesInv, Priorities
      <2>5. before \in Seq(Tasks) /\ Once(before)
            <3>1. /\ i \in 1 .. Len(q) /\ DOMAIN q = 1 .. Len(q) /\ Len(q) \in Nat
                  BY <2>2, <2>4, LenProperties, Zenon
            <3> HIDE DEF q
            <3>2. /\ before \in Seq(Tasks) /\ DOMAIN before = 1 .. i - 1
                  /\ \A j \in 1 .. i - 1 : before[j] = q[j]
                  BY <2>4, <3>1
            <3>3. QED BY <2>4, <3>1, <3>2, SMTT(60) DEF Once
      <2>6. /\ Scanned(before) \in Seq(Tasks) /\ Once(Scanned(before))
            /\ \A u \in Tasks : Holds(Scanned(before), u) <=> Live(u) /\ Holds(before, u)
            <3> HIDE DEF before
            <3> QED BY <2>5, ScannedFacts, Zenon
      <2>7. /\ cut \in Seq(Tasks) /\ Once(cut)
            /\ \A u \in Tasks : Holds(cut, u) <=>
                  \/ Live(u) /\ Holds(before, u)
                  \/ Holds(q, u) /\ u # t /\ ~Holds(before, u)
            <3>1. \A u \in Tasks : Holds(Scanned(before), u) => Holds(before, u)
                  BY <2>6, Zenon
            <3>2. i \in DOMAIN q
                  BY <2>2, Zenon
            <3>3. /\ cut \in Seq(Tasks) /\ Once(cut)
                  /\ \A u \in Tasks : Holds(cut, u) <=>
                        \/ Holds(Scanned(before), u)
                        \/ Holds(q, u) /\ u # q[i] /\ ~Holds(before, u)
                  <4> DEFINE s == Scanned(before)
                  <4>1. s \in Seq(Tasks) /\ Once(s)
                        BY <2>6, Zenon
                  <4>2. \A u \in Tasks : Holds(s, u) => Holds(SubSeq(q, 1, i - 1), u)
                        BY <3>1, Zenon
                  <4> HIDE DEF s, q
                  <4>3. LET b == SubSeq(q, 1, i - 1)
                            a == SubSeq(q, i + 1, Len(q))
                        IN  /\ s \o a \in Seq(Tasks) /\ Once(s \o a)
                            /\ \A u \in Tasks : Holds(s \o a, u) <=>
                                  Holds(s, u) \/ (Holds(q, u) /\ u # q[i] /\ ~Holds(b, u))
                        BY <2>4, <3>2, <4>1, <4>2, CutHolds, Zenon
                  <4>4. QED BY <4>3, Zenon DEF s
            <3> HIDE DEF before, cut, q
            <3>4. QED BY <2>3, <2>6, <3>3, Zenon
      <2>8. \A u \in Tasks : Holds(before, u) => Holds(q, u)
            <3>1. /\ i \in 1 .. Len(q) /\ DOMAIN q = 1 .. Len(q) /\ Len(q) \in Nat
                  BY <2>2, <2>4, LenProperties, Zenon
            <3> HIDE DEF q
            <3>2. /\ before \in Seq(Tasks) /\ DOMAIN before = 1 .. i - 1
                  /\ \A j \in 1 .. i - 1 : before[j] = q[j]
                  BY <2>4, <3>1
            <3>3. QED BY <3>1, <3>2, SMTT(60) DEF Holds
      <2>9. ~Holds(before, t)
            <3>1. /\ i \in 1 .. Len(q) /\ DOMAIN q = 1 .. Len(q) /\ Len(q) \in Nat
                  BY <2>2, <2>4, LenProperties, Zenon
            <3> HIDE DEF q
            <3>2. /\ before \in Seq(Tasks) /\ DOMAIN before = 1 .. i - 1
                  /\ \A j \in 1 .. i - 1 : before[j] = q[j]
                  BY <2>4, <3>1
            <3>3. QED BY <2>3, <2>4, <3>1, <3>2, SMTT(60) DEF Holds, Once
      <2>10. \A u \in Tasks : on_rq'[u] <=> on_rq[u] /\ u # t /\ (Live(u) \/ ~Passed(u))
            BY <2>3, Zenon
      <2>11. ready_queues' \in [Priorities -> Seq(Tasks)]
            <3> HIDE DEF cut, p
            <3> QED BY <1>1, <2>3, <2>7, Zenon DEF QueuesInv
      <2>12. ASSUME NEW r \in Priorities
             PROVE  /\ Once(ready_queues'[r])
                    /\ \A u \in Tasks : Holds(ready_queues'[r], u) <=> on_rq'[u] /\ Prio[u] = r
            <3>0. r \in Nat /\ p \in Nat /\ \A u \in Tasks : Prio[u] \in Nat
                  BY PrioAssumption, Zenon DEF Priorities
            <3>1. CASE r > p
                  <4>1. ready_queues'[r] = Scanned(ready_queues[r])
                        <5> HIDE DEF cut, p, q, Passed
                        <5> QED BY <2>3, <3>0, <3>1, Zenon
                  <4>2. \A u \in Tasks : Prio[u] = r => Passed(u) /\ u # t
                        BY <3>0, <3>1, SMTT(60)
                  <4> HIDE DEF Passed, before, cut, q, p
                  <4>3. QED BY <1>1, <2>10, <4>1, <4>2
            <3>2. CASE r = p
                  <4>1. ready_queues'[r] = cut
                        <5> HIDE DEF cut, p
                        <5> QED BY <2>3, <3>0, <3>2
                  <4>2. \A u \in Tasks : Prio[u] = r => (Passed(u) <=> Holds(before, u))
                        BY <3>0, <3>2
                  <4> HIDE DEF Passed, before, cut, q, p
                  <4>3. QED BY <2>4, <2>7, <2>8, <2>9, <2>10, <3>2, <4>1, <4>2, SMTT(60)
            <3>3. CASE r < p
                  <4>1. ready_queues'[r] = ready_queues[r]
                        <5> HIDE DEF cut, p, q, Passed
                        <5> QED BY <2>3, <3>0, <3>3, SMTT(60)
                  <4>2. \A u \in Tasks : Prio[u] = r => ~Passed(u) /\ u # t
                        BY <2>4, <2>8, <3>0, <3>3
                  <4> HIDE DEF Passed, before, cut, q, p
                  <4>3. QED BY <2>10, <4>1, <4>2, Zenon DEF QueuesInv
            <3>4. QED BY <3>0, <3>1, <3>2, <3>3
      <2>13. QED BY <2>11, <2>12, Zenon DEF QueuesInv
<1>4. QED BY <1>2, <1>3, Zenon

(* Every action keeps them in agreement; no other action touches them.       *)
LEMMA QueuesStep == Types /\ QueuesInv /\ [Next]_vars => QueuesInv'
<1> SUFFICES ASSUME Types, QueuesInv, [Next]_vars PROVE QueuesInv'
    BY Zenon
<1>a. UNCHANGED queues => QueuesInv'
      BY DEF QueuesInv, queues
<1>1. ASSUME NEW t \in Tasks, Create(t) \/ Reap(t) PROVE QueuesInv'
      BY <1>1, <1>a, EnqueueKeeps, Zenon DEF Create, Reap
<1>2. ASSUME NEW c \in CPUs, Block(c) \/ Exit(c) \/ Preempt(c) PROVE QueuesInv'
      BY <1>2, <1>a, Zenon DEF Block, Exit, Preempt
<1>3. ASSUME NEW c \in CPUs, Reschedule(c) PROVE QueuesInv'
      <2>1. CASE Pick(c)
            BY <2>1, PickKeeps, Zenon DEF Pick
      <2>2. CASE Retire(c)
            BY <2>2, <1>a, EnqueueKeeps, Zenon DEF Retire
      <2>3. CASE Enter(c) \/ Switch(c) \/ Release(c) \/ Resume(c)
            BY <2>3, <1>a, Zenon DEF Enter, Switch, Release, Resume
      <2>4. QED BY <1>3, <2>1, <2>2, <2>3, Zenon DEF Reschedule
<1>4. ASSUME NEW w \in Wakers, Waking(w) PROVE QueuesInv'
      <2>1. CASE WakeEnqueue(w)
            <3>1. wtask[w] \in Tasks /\ Enqueue(wtask[w])
                  BY <2>1, Zenon DEF WakeEnqueue, Types, WakeType, WakerType
            <3>2. QED BY <3>1, EnqueueKeeps, Zenon
      <2>2. CASE WakeCheck(w) \/ WakeRunnable(w) \/ WakeState(w)
            BY <2>2, <1>a, Zenon DEF WakeCheck, WakeRunnable, WakeState
      <2>3. QED BY <1>4, <2>1, <2>2, Zenon DEF Waking
<1>5. ASSUME UNCHANGED vars PROVE QueuesInv'
      BY <1>5, <1>a, Zenon DEF vars
<1>6. QED BY <1>1, <1>2, <1>3, <1>4, <1>5, Zenon DEF Next

(* What QueuesInv says about a task is what QueueInv says of its places.     *)
LEMMA QueuesImply == Types /\ QueuesInv => QueueInv
<1> SUFFICES ASSUME Types, QueuesInv, NEW t \in Tasks
             PROVE  LET places == {x \in UNION {{p} \X DOMAIN ready_queues[p] : p \in Priorities} :
                                      ready_queues[x[1]][x[2]] = t}
                    IN  /\ on_rq[t] <=> places # {}
                        /\ \A x, y \in places : x = y
    BY Zenon DEF QueueInv
<1> DEFINE all == UNION {{p} \X DOMAIN ready_queues[p] : p \in Priorities}
           places == {x \in all : ready_queues[x[1]][x[2]] = t}
<1>1. ASSUME NEW x \in places
      PROVE  /\ x[1] \in Priorities /\ x[2] \in DOMAIN ready_queues[x[1]]
             /\ ready_queues[x[1]][x[2]] = t /\ x = <<x[1], x[2]>>
      <2>1. PICK p \in Priorities : x \in {p} \X DOMAIN ready_queues[p]
            BY Zenon
      <2>2. QED BY <2>1
<1>2. ASSUME NEW p \in Priorities, NEW i \in DOMAIN ready_queues[p], ready_queues[p][i] = t
      PROVE  <<p, i>> \in places
      <2>1. <<p, i>> \in {p} \X DOMAIN ready_queues[p]
            BY Zenon
      <2>2. <<p, i>> \in all
            BY <2>1, Zenon
      <2>3. QED BY <1>2, <2>2, Zenon
<1> HIDE DEF all, places
<1>3. ASSUME NEW x \in places
      PROVE  on_rq[t] /\ Prio[t] = x[1]
      BY <1>1 DEF QueuesInv, Holds
<1>4. ASSUME on_rq[t] PROVE places # {}
      <2>1. Prio[t] \in Priorities
            BY Zenon DEF Priorities
      <2>2. Holds(ready_queues[Prio[t]], t)
            BY <1>4, <2>1, Zenon DEF QueuesInv
      <2>3. QED BY <1>2, <2>1, <2>2, Zenon DEF Holds
<1>5. ASSUME NEW x \in places, NEW y \in places PROVE x = y
      <2>1. x[1] = y[1]
            BY <1>3
      <2>2. x[2] = y[2]
            BY <1>1, <2>1 DEF QueuesInv, Once
      <2>3. QED BY <1>1, <2>1, <2>2, Zenon
<1>6. QED BY <1>3, <1>4, <1>5, Zenon DEF places, all

(* The queues and the flags agree from the start, in every state, however    *)
(* the wakers of task_unblock interleave with the CPUs.                      *)
LEMMA QueuesAgree == Spec => [](Types /\ QueuesInv)
<1>1. Init => Types /\ QueuesInv
      <2> SUFFICES ASSUME Init PROVE QueuesInv
          BY TypesInit, Zenon
      <2>1. ready_queues \in [Priorities -> Seq(Tasks)]
            BY DEF Init
      <2>2. \A p \in Priorities : ready_queues[p] = <<>>
            BY Zenon DEF Init
      <2>3. \A t \in Tasks : ~on_rq[t]
            BY Zenon DEF Init
      <2>4. QED BY <2>1, <2>2, <2>3 DEF QueuesInv, Once, Holds
<1>2. Types /\ QueuesInv /\ [Next]_vars => (Types /\ QueuesInv)'
      BY TypesStep, QueuesStep, Zenon
<1>3. QED BY <1>1, <1>2, PTL DEF Spec

(* on_rq says exactly whether a task is queued, and no task is queued        *)
(* twice, whether or not the wakers hold a lock.                             *)
THEOREM QueuedOnce == Spec => []QueueInv
<1>1. QED BY QueuesAgree, QueuesImply, PTL

(* Every variable of the scheduler stays in its type.                        *)
THEOREM TypesKept == Spec => []TypeOK
<1>1. Init => overtaken \subseteq Tasks
      BY Zenon DEF Init
<1>2. overtaken \subseteq Tasks /\ [Next]_vars => (overtaken \subseteq Tasks)'
      BY SteadyShrinks, Zenon
<1>3. Types /\ QueuesInv /\ overtaken \subseteq Tasks => TypeOK
      BY Zenon DEF Types, QueuesInv, TypeOK
<1>4. QED BY <1>1, <1>2, <1>3, QueuesAgree, PTL DEF Spec
=============================================================================
