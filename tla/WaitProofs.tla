----------------------------- MODULE WaitProofs -----------------------------
(***************************************************************************)
(* Wait for any processes, and Pipe for every number of tasks, every ring   *)
(* size from two and every length: WaitInv and IInv are inductive, and the  *)
(* safety properties and the refinement of PipeSpec follow from them.       *)
(***************************************************************************)
EXTENDS Pipe, Wait, TLAPS

(* Wait: the lists of children and the parent pointers agree, a task on its *)
(* way out of task_exit has no children, a task is a zombie from the middle *)
(* of task_exit on and has left its CPU once it is dead, and a parent       *)
(* between the scan and the reaping still has the child it found.           *)
Exits == {"exit", "wakeup", "sigchld", "leave", "dead"}
Labels == {"user", "scan", "forpid", "block", "resched", "resumed", "reap"} \cup Exits
PStates == {"NEW", "READY", "RUNNING", "BLOCKED", "ZOMBIE", "GONE"}
Still == {"NEW", "ZOMBIE", "GONE"}
WaitTypes == /\ p_state \in [Procs -> PStates] /\ on_cpu \in [Procs -> BOOLEAN]
             /\ p_pc \in [Procs -> Labels]
             /\ children \in [Procs -> SUBSET Procs] /\ parent \in [Procs -> Procs \cup {Nobody}]
             /\ zombie \in [Procs -> Procs \cup {Nobody}]
             /\ arg \in [Procs -> Procs \cup {AnyChild, Nobody}]
Family == /\ \A p, c \in Procs : c \in children[p] <=> parent[c] = p
          /\ \A c \in Procs : parent[c] = Nobody <=> c = init \/ p_state[c] \in {"NEW", "GONE"}
          /\ \A p \in Procs : p_pc[p] \in Exits => children[p] = {} /\ p # init
          /\ p_state[init] \notin Still
Dying(c) == /\ p_state[c] = "ZOMBIE" => p_pc[c] \in Exits \ {"exit"}
            /\ p_pc[c] \in {"wakeup", "sigchld", "leave"} => p_state[c] = "ZOMBIE" /\ on_cpu[c]
            /\ p_pc[c] = "dead" => p_state[c] \in {"ZOMBIE", "GONE"} /\ ~on_cpu[c]
            /\ p_state[c] \in {"NEW", "GONE"} => ~on_cpu[c]
Reaping(p) == p_pc[p] = "reap" => /\ zombie[p] \in children[p] /\ p_state[zombie[p]] = "ZOMBIE"
                                  /\ ~on_cpu[zombie[p]] /\ arg[p] \in {AnyChild, zombie[p]}
WaitInv == WaitTypes /\ Family /\ \A p \in Procs : Dying(p) /\ Reaping(p)

(* A step that makes no zombie, no child and no grave, and takes nobody     *)
(* into or out of task_exit.                                                *)
LEMMA WaitQuiet ==
    ASSUME WaitInv, WaitTypes', UNCHANGED family,
           \A c \in Procs : p_state[c] \in Still \/ p_state'[c] \in Still =>
                               p_state'[c] = p_state[c] /\ on_cpu'[c] = on_cpu[c],
           \A q \in Procs : p_pc[q] \in Exits \/ p_pc'[q] \in Exits => p_pc'[q] = p_pc[q],
           \A q \in Procs : p_pc'[q] = "reap" =>
                               /\ p_pc[q] = "reap" /\ zombie'[q] = zombie[q] /\ arg'[q] = arg[q]
    PROVE  WaitInv'
<1>1. Family'
  BY SMTT(30), ProcAssumption DEF WaitInv, WaitTypes, Family, Still, family
<1>2. ASSUME NEW c \in Procs PROVE Dying(c)'
  BY ProcAssumption, Zenon DEF WaitInv, WaitTypes, Dying, Still, Exits
<1>3. ASSUME NEW q \in Procs PROVE Reaping(q)'
  BY SMTT(30), ProcAssumption DEF WaitInv, WaitTypes, Reaping, Still, family
<1> QED BY <1>1, <1>2, <1>3, Zenon DEF WaitInv

LEMMA WaitCalls ==
    ASSUME WaitInv, NEW p \in Procs,
           \/ Dispatch(p) \/ Preempt(p) \/ PSignal(p) \/ sys_wait(p) \/ ScanYield(p)
           \/ ScanNothing(p) \/ PNotRunnable(p) \/ PBlock(p) \/ Resched(p) \/ Resumed(p)
    PROVE  WaitInv'
<1> USE ProcAssumption DEF WaitTypes, psched, family, pcall, PAt, PGo, PStates, Labels,
                           Exits, Still
<1> SUFFICES /\ WaitTypes' /\ UNCHANGED family
             /\ \A c \in Procs : p_state[c] \in Still \/ p_state'[c] \in Still =>
                                    p_state'[c] = p_state[c] /\ on_cpu'[c] = on_cpu[c]
             /\ \A q \in Procs : p_pc[q] \in Exits \/ p_pc'[q] \in Exits => p_pc'[q] = p_pc[q]
             /\ \A q \in Procs : p_pc'[q] = "reap" =>
                                    /\ p_pc[q] = "reap" /\ zombie'[q] = zombie[q] /\ arg'[q] = arg[q]
  BY WaitQuiet, Zenon
<1>1. WaitTypes /\ \A c \in Procs : p_state[c] \in {"NEW", "GONE"} => ~on_cpu[c]
  BY Zenon DEF WaitInv, Dying
<1>a. ASSUME NEW b \in BOOLEAN, on_cpu' = [on_cpu EXCEPT ![p] = b]
      PROVE  on_cpu' \in [Procs -> BOOLEAN] /\ \A c \in Procs \ {p} : on_cpu'[c] = on_cpu[c]
  BY <1>1, <1>a, Zenon
<1>b. ASSUME LeaveCpu(p), p_state[p] # "ZOMBIE", on_cpu[p]
      PROVE  /\ on_cpu' \in [Procs -> BOOLEAN] /\ p_state' \in [Procs -> PStates]
             /\ \A c \in Procs : p_state[c] \in Still \/ p_state'[c] \in Still =>
                                    p_state'[c] = p_state[c] /\ on_cpu'[c] = on_cpu[c]
  <2>1. on_cpu' \in [Procs -> BOOLEAN] /\ \A c \in Procs \ {p} : on_cpu'[c] = on_cpu[c]
    BY <1>a, <1>b, Zenon DEF LeaveCpu
  <2>2. p_state' = [p_state EXCEPT ![p] = "READY"] \/ p_state' = p_state
    BY <1>1, <1>b, Zenon DEF LeaveCpu
  <2>3. p_state[p] \notin Still
    BY <1>1, <1>b, Zenon
  <2>4. CASE p_state' = [p_state EXCEPT ![p] = "READY"]
    BY <1>1, <2>1, <2>3, <2>4, Zenon
  <2>5. CASE p_state' = p_state
    BY <1>1, <2>1, <2>3, <2>5, Zenon
  <2> QED BY <2>2, <2>4, <2>5, Zenon
<1>2. CASE Dispatch(p)
  <2>1. on_cpu' \in [Procs -> BOOLEAN] /\ \A c \in Procs \ {p} : on_cpu'[c] = on_cpu[c]
    BY <1>2, <1>a, Zenon DEF Dispatch
  <2>2. /\ p_state[p] = "READY" /\ p_state' = [p_state EXCEPT ![p] = "RUNNING"]
        /\ UNCHANGED <<parent, children, p_pc, arg, zombie>>
    BY <1>2, Zenon DEF Dispatch
  <2> QED BY <1>1, <2>1, <2>2, Zenon
<1>3. CASE Preempt(p)
  <2>1. p_state[p] # "ZOMBIE" /\ on_cpu[p] /\ UNCHANGED <<parent, children, p_pc, arg, zombie>>
    BY <1>3, Zenon DEF Preempt
  <2>3. LeaveCpu(p)
    BY <1>3, Zenon DEF Preempt
  <2> QED BY <1>1, <1>b, <2>1, <2>3, Zenon
<1>4. CASE PSignal(p)
  BY <1>1, <1>4, Zenon DEF PSignal, PUnblock
<1>5. CASE sys_wait(p)
  BY <1>1, <1>5, SMTT(30) DEF sys_wait
<1>6. CASE ScanYield(p)
  <2>1. p_state[p] # "ZOMBIE"
    BY <1>6, Zenon DEF ScanYield, WaitInv, Dying
  <2>2. on_cpu[p] /\ UNCHANGED <<parent, children, p_pc, arg, zombie>>
    BY <1>6, Zenon DEF ScanYield
  <2>3. LeaveCpu(p)
    BY <1>6, Zenon DEF ScanYield
  <2> QED BY <1>1, <1>b, <2>1, <2>3, <2>2, Zenon
<1>7. CASE ScanNothing(p)
  BY <1>1, <1>7, SMTT(30) DEF ScanNothing
<1>8. CASE PNotRunnable(p)
  BY <1>1, <1>8, Zenon DEF PNotRunnable
<1>9. CASE PBlock(p)
  <2>1. p_state[p] # "ZOMBIE"
    BY <1>9, Zenon DEF PBlock, WaitInv, Dying
  <2> QED BY <1>1, <1>9, <2>1, Zenon DEF PBlock
<1>10. CASE Resched(p)
  <2>1. p_state[p] # "ZOMBIE"
    BY <1>10, Zenon DEF Resched, WaitInv, Dying
  <2>2. /\ on_cpu[p] /\ p_pc[p] = "resched" /\ p_pc' = [p_pc EXCEPT ![p] = "resumed"]
        /\ UNCHANGED <<parent, children, arg, zombie>>
    BY <1>10, Zenon DEF Resched
  <2>3. LeaveCpu(p)
    BY <1>10, Zenon DEF Resched
  <2> QED BY <1>1, <1>b, <2>1, <2>3, <2>2, Zenon
<1>11. CASE Resumed(p)
  BY <1>1, <1>11, Zenon DEF Resumed
<1> QED BY <1>2, <1>3, <1>4, <1>5, <1>6, <1>7, <1>8, <1>9, <1>10, <1>11, Zenon

LEMMA WaitFork == ASSUME WaitInv, NEW p \in Procs, Fork(p) PROVE WaitInv'
<1> PICK c \in Procs : /\ PAt(p, "user") /\ p_state[c] = "NEW"
                       /\ p_state' = [p_state EXCEPT ![c] = "READY"]
                       /\ parent' = [parent EXCEPT ![c] = p]
                       /\ children' = [children EXCEPT ![p] = @ \cup {c}]
                       /\ UNCHANGED <<on_cpu, pcall>>
  BY Zenon DEF Fork
<1> USE ProcAssumption DEF pcall, PAt
<1>1. WaitTypes'
  BY SMTT(30) DEF WaitInv, WaitTypes, PStates
<1>2. Family'
  <2>1. c # init /\ p # c
    BY Zenon DEF WaitInv, Family, Still, Dying
  <2>2. \A q, d \in Procs : d \in children'[q] <=> parent'[d] = q
    BY SMTT(30) DEF WaitInv, WaitTypes, Family
  <2>3. \A d \in Procs : parent'[d] = Nobody <=> d = init \/ p_state'[d] \in {"NEW", "GONE"}
    BY <2>1, SMTT(30) DEF WaitInv, WaitTypes, Family
  <2>4. \A q \in Procs : p_pc'[q] \in Exits => children'[q] = {} /\ q # init
    BY SMTT(30) DEF WaitInv, WaitTypes, Family, Exits
  <2>5. p_state'[init] \notin Still
    BY <2>1, SMTT(30) DEF WaitInv, WaitTypes, Family, Still
  <2> QED BY <2>2, <2>3, <2>4, <2>5, Zenon DEF Family
<1>3. ASSUME NEW d \in Procs PROVE Dying(d)'
  BY SMTT(30) DEF WaitInv, WaitTypes, Dying, Exits
<1>4. ASSUME NEW q \in Procs PROVE Reaping(q)'
  BY SMTT(30) DEF WaitInv, WaitTypes, Reaping
<1> QED BY <1>1, <1>2, <1>3, <1>4, Zenon DEF WaitInv

LEMMA WaitScan == ASSUME WaitInv, NEW p \in Procs, Scan(p) PROVE WaitInv'
<1> USE ProcAssumption DEF psched, family, PAt, PGo
<1> PICK c \in Ready(p) : /\ PAt(p, "scan") /\ zombie' = [zombie EXCEPT ![p] = c] /\ PGo(p, "reap")
                          /\ UNCHANGED <<psched, family, arg>>
  BY Zenon DEF Scan
<1>1. c \in children[p] /\ c \in Procs /\ arg[p] \in {AnyChild, c} /\ p_state[c] = "ZOMBIE" /\ ~on_cpu[c]
  BY SMTT(30) DEF Ready, Zombies, WaitInv, WaitTypes
<1>2. WaitTypes'
  BY <1>1, Zenon DEF WaitInv, WaitTypes, Labels
<1>3. Family'
  BY SMTT(30) DEF WaitInv, WaitTypes, Family, Exits
<1>4. ASSUME NEW d \in Procs PROVE Dying(d)'
  BY SMTT(30) DEF WaitInv, WaitTypes, Dying, Exits
<1>5. ASSUME NEW q \in Procs PROVE Reaping(q)'
  BY <1>1, Zenon DEF WaitInv, WaitTypes, Reaping
<1> QED BY <1>2, <1>3, <1>4, <1>5, Zenon DEF WaitInv

LEMMA WaitReap == ASSUME WaitInv, NEW p \in Procs, Reap(p) PROVE WaitInv'
<1> USE ProcAssumption DEF PAt, PGo
<1> DEFINE z == zombie[p]
<1>1. /\ z \in children[p] /\ z \in Procs /\ p_state[z] = "ZOMBIE" /\ ~on_cpu[z] /\ parent[z] = p
      /\ p_pc[z] = "dead" /\ z # init
  BY SMTT(30) DEF Reap, WaitInv, WaitTypes, Reaping, Family, Dying, Exits
<1>2. CASE UNCHANGED <<family, p_state>>
  <2>1. WaitTypes'
    BY <1>2, Zenon DEF Reap, WaitInv, WaitTypes, Labels, family
  <2> QED BY <1>2, <2>1, WaitQuiet, Zenon DEF Reap, WaitInv, WaitTypes, family, Exits
<1>3. CASE /\ children' = [children EXCEPT ![p] = @ \ {z}] /\ parent' = [parent EXCEPT ![z] = Nobody]
           /\ p_state' = [p_state EXCEPT ![z] = "GONE"]
  <2> HIDE DEF z
  <2>0. /\ p_pc[p] = "reap" /\ p_pc' = [p_pc EXCEPT ![p] = "user"] /\ on_cpu' = on_cpu /\ arg' = arg
        /\ zombie' = [zombie EXCEPT ![p] = Nobody] /\ p # z
    BY <1>1, Zenon DEF Reap
  <2>1. WaitTypes'
    BY <1>1, <1>3, <2>0, Zenon DEF WaitInv, WaitTypes, Labels, PStates
  <2>2. Family'
    <3>1. \A q, d \in Procs : d \in children'[q] <=> parent'[d] = q
      BY <1>1, <1>3, SMTT(30) DEF WaitInv, WaitTypes, Family
    <3>2. \A d \in Procs : parent'[d] = Nobody <=> d = init \/ p_state'[d] \in {"NEW", "GONE"}
      BY <1>1, <1>3, SMTT(30) DEF WaitInv, WaitTypes, Family
    <3>3. \A q \in Procs : p_pc'[q] \in Exits => children'[q] = {} /\ q # init
      BY <1>3, <2>0, SMTT(30) DEF WaitInv, WaitTypes, Family, Exits
    <3>4. p_state'[init] \notin Still
      BY <1>1, <1>3, SMTT(30) DEF WaitInv, WaitTypes, Family, Still
    <3> QED BY <3>1, <3>2, <3>3, <3>4, Zenon DEF Family
  <2>3. ASSUME NEW d \in Procs PROVE Dying(d)'
    BY <1>1, <1>3, <2>0, Zenon DEF WaitInv, WaitTypes, Dying, Exits
  <2>4. ASSUME NEW q \in Procs PROVE Reaping(q)'
    <3>1. CASE q = p
      BY <2>0, <3>1, Zenon DEF WaitInv, WaitTypes, Reaping
    <3>2. CASE q # p
      <4> SUFFICES ASSUME p_pc[q] = "reap" PROVE Reaping(q)'
        BY <2>0, <3>2, Zenon DEF WaitInv, WaitTypes, Reaping
      <4>1. /\ zombie[q] \in children[q] /\ p_state[zombie[q]] = "ZOMBIE" /\ ~on_cpu[zombie[q]]
            /\ arg[q] \in {AnyChild, zombie[q]} /\ zombie[q] \in Procs
        BY SMTT(30) DEF WaitInv, WaitTypes, Reaping
      <4>2. zombie[q] # z
        BY <1>1, <3>2, <4>1, SMTT(30) DEF WaitInv, Family
      <4> QED BY <1>1, <1>3, <2>0, <3>2, <4>1, <4>2, Zenon DEF WaitInv, WaitTypes, Reaping
    <3> QED BY <3>1, <3>2, Zenon
  <2> QED BY <2>1, <2>2, <2>3, <2>4, Zenon DEF WaitInv
<1> QED BY <1>2, <1>3, Zenon DEF Reap

LEMMA WaitExit == ASSUME WaitInv, NEW p \in Procs, Exit(p) PROVE WaitInv'
<1> USE ProcAssumption DEF psched, PAt, PGo
<1>0. /\ on_cpu[p] /\ p_pc[p] = "user" /\ p # init
      /\ children' = [children EXCEPT ![p] = {}, ![init] = @ \cup children[p]]
      /\ parent' = [c \in Procs |-> IF c \in children[p] THEN init ELSE parent[c]]
      /\ p_pc' = [p_pc EXCEPT ![p] = "exit"]
      /\ UNCHANGED <<p_state, on_cpu, arg, zombie>>
  BY Zenon DEF Exit
<1>1. WaitTypes'
  BY <1>0, Zenon DEF WaitInv, WaitTypes, Labels, Exits
<1>2. Family'
  <2>1. \A q, d \in Procs : d \in children'[q] <=> parent'[d] = q
    BY <1>0, SMTT(30) DEF WaitInv, WaitTypes, Family
  <2>2. \A d \in Procs : parent'[d] = Nobody <=> d = init \/ p_state'[d] \in {"NEW", "GONE"}
    BY <1>0, SMTT(30) DEF WaitInv, WaitTypes, Family
  <2>3. \A q \in Procs : p_pc'[q] \in Exits => children'[q] = {} /\ q # init
    BY <1>0, SMTT(30) DEF WaitInv, WaitTypes, Family, Exits
  <2>4. p_state'[init] \notin Still
    BY <1>0, Zenon DEF WaitInv, Family
  <2> QED BY <2>1, <2>2, <2>3, <2>4, Zenon DEF Family
<1>3. ASSUME NEW d \in Procs PROVE Dying(d)'
  BY <1>0, Zenon DEF WaitInv, WaitTypes, Dying, Exits
<1>4. ASSUME NEW q \in Procs PROVE Reaping(q)'
  BY <1>0, Zenon DEF WaitInv, WaitTypes, Reaping
<1> QED BY <1>1, <1>2, <1>3, <1>4, Zenon DEF WaitInv

LEMMA WaitZombie == ASSUME WaitInv, NEW p \in Procs, BecomeZombie(p) PROVE WaitInv'
<1> USE ProcAssumption DEF family, PAt, PGo
<1>0. /\ on_cpu[p] /\ p_pc[p] = "exit" /\ p_pc' = [p_pc EXCEPT ![p] = "wakeup"]
      /\ p_state' = [p_state EXCEPT ![p] = "ZOMBIE"]
      /\ UNCHANGED <<children, parent, on_cpu, arg, zombie>>
  BY Zenon DEF BecomeZombie
<1>1. WaitTypes'
  BY <1>0, Zenon DEF WaitInv, WaitTypes, Labels, PStates, Exits
<1>2. Family'
  <2>1. p # init /\ p_state[p] \notin {"NEW", "GONE"}
    BY <1>0, Zenon DEF WaitInv, Family, Dying, Exits
  <2> QED BY <1>0, <2>1, SMTT(30) DEF WaitInv, WaitTypes, Family, Exits, Still
<1>3. ASSUME NEW d \in Procs PROVE Dying(d)'
  BY <1>0, Zenon DEF WaitInv, WaitTypes, Dying, Exits
<1>4. ASSUME NEW q \in Procs PROVE Reaping(q)'
  BY <1>0, Zenon DEF WaitInv, WaitTypes, Reaping
<1> QED BY <1>1, <1>2, <1>3, <1>4, Zenon DEF WaitInv

(* The rest of task_exit moves only the exiting task and wakes BLOCKED ones.*)
LEMMA WaitLeaving ==
    ASSUME WaitInv, NEW p \in Procs, NEW l \in {"sigchld", "leave", "dead"},
           p_pc[p] \in {"wakeup", "sigchld", "leave"}, p_pc' = [p_pc EXCEPT ![p] = l],
           p_state' \in [Procs -> PStates], on_cpu' \in [Procs -> BOOLEAN],
           \A c \in Procs : p_state[c] \in Still \/ p_state'[c] \in Still => p_state'[c] = p_state[c],
           (l = "dead" /\ ~on_cpu'[p]) \/ (l # "dead" /\ on_cpu'[p]), \A c \in Procs \ {p} : on_cpu'[c] = on_cpu[c],
           UNCHANGED <<family, arg, zombie>>
    PROVE  WaitInv'
<1> USE ProcAssumption DEF family
<1>1. WaitTypes'
  <2>1. p_pc' \in [Procs -> Labels]
    BY SMTT(30) DEF WaitInv, WaitTypes, Labels, Exits
  <2> QED BY <2>1, Zenon DEF WaitInv, WaitTypes
<1>2. Family'
  BY SMTT(30) DEF WaitInv, WaitTypes, Family, Exits, Still
<1>3. ASSUME NEW d \in Procs PROVE Dying(d)'
  BY SMTT(30) DEF WaitInv, WaitTypes, Dying, Exits, Still
<1>4. ASSUME NEW q \in Procs PROVE Reaping(q)'
  <2>1. on_cpu[p]
    BY SMTT(30) DEF WaitInv, Dying
  <2> QED BY <2>1, SMTT(30) DEF WaitInv, WaitTypes, Reaping, Still
<1> QED BY <1>1, <1>2, <1>3, <1>4, Zenon DEF WaitInv

LEMMA WaitExiting ==
    ASSUME WaitInv, NEW p \in Procs, WakeWaiters(p) \/ SigChld(p) \/ Leave(p) PROVE WaitInv'
<1> USE DEF PAt, PGo, Still, PStates
<1>0. /\ p_state \in [Procs -> PStates] /\ on_cpu \in [Procs -> BOOLEAN] /\ p_pc \in [Procs -> Labels]
      /\ p_pc[p] \in {"wakeup", "sigchld", "leave"} => p_state[p] = "ZOMBIE"
  BY Zenon DEF WaitInv, WaitTypes, Dying
<1>1. CASE WakeWaiters(p)
  <2>1. \A c \in Procs : p_state'[c] = IF p_state[c] = "BLOCKED" /\ c \in Waiters(p)
                                       THEN "READY" ELSE p_state[c]
    BY <1>0, <1>1, Zenon DEF WakeWaiters, Waiters
  <2>2. p_state' \in [Procs -> PStates]
    BY <1>0, <1>1, Zenon DEF WakeWaiters
  <2>3. on_cpu[p] /\ UNCHANGED <<on_cpu, family, arg, zombie>>
    BY <1>1, Zenon DEF WakeWaiters
  <2>4. \A c \in Procs : p_state[c] \in Still \/ p_state'[c] \in Still => p_state'[c] = p_state[c]
    BY <2>1, Zenon
  <2>5. p_pc[p] = "wakeup" /\ p_pc' = [p_pc EXCEPT ![p] = "sigchld"]
    BY <1>1, Zenon DEF WakeWaiters
  <2> QED BY <1>0, <2>2, <2>3, <2>4, <2>5, WaitLeaving, Zenon
<1>2. CASE SigChld(p)
  <2>1. \A c \in Procs : p_state'[c] = p_state[c] \/ (p_state[c] = "BLOCKED" /\ p_state'[c] = "READY")
    BY <1>0, <1>2, Zenon DEF SigChld, PUnblock
  <2>2. p_state' \in [Procs -> PStates]
    BY <1>0, <1>2, Zenon DEF SigChld, PUnblock
  <2>3. on_cpu[p] /\ UNCHANGED <<on_cpu, family, arg, zombie>>
    BY <1>2, Zenon DEF SigChld
  <2>4. \A c \in Procs : p_state[c] \in Still \/ p_state'[c] \in Still => p_state'[c] = p_state[c]
    BY <2>1, Zenon
  <2>5. p_pc[p] = "sigchld" /\ p_pc' = [p_pc EXCEPT ![p] = "leave"]
    BY <1>2, Zenon DEF SigChld
  <2> QED BY <1>0, <2>2, <2>3, <2>4, <2>5, WaitLeaving, Zenon
<1>3. CASE Leave(p)
  <2>1. p_pc[p] = "leave" /\ p_pc' = [p_pc EXCEPT ![p] = "dead"] /\ UNCHANGED <<family, arg, zombie>>
    BY <1>3, Zenon DEF Leave
  <2>2. p_state' = p_state
    BY <1>0, <1>3, <2>1, Zenon DEF Leave, LeaveCpu
  <2>3. on_cpu' \in [Procs -> BOOLEAN] /\ ~on_cpu'[p] /\ \A c \in Procs \ {p} : on_cpu'[c] = on_cpu[c]
    BY <1>0, <1>3, Zenon DEF Leave, LeaveCpu
  <2> QED BY <1>0, <2>1, <2>2, <2>3, WaitLeaving, Zenon
<1> QED BY <1>1, <1>2, <1>3, Zenon

LEMMA WaitStep == WaitInv /\ [PNext]_pvars => WaitInv'
<1> SUFFICES ASSUME WaitInv, [PNext]_pvars PROVE WaitInv'
  BY Zenon
<1>1. CASE UNCHANGED pvars
  BY <1>1 DEF pvars, psched, family, pcall, WaitInv, WaitTypes, Family, Dying, Reaping
<1>2. ASSUME NEW p \in Procs, \/ Dispatch(p) \/ Preempt(p) \/ PSignal(p) \/ Fork(p) \/ sys_wait(p)
                              \/ Waiting(p) \/ Exit(p) \/ Exiting(p)
      PROVE  WaitInv'
  BY <1>2, WaitCalls, WaitFork, WaitScan, WaitReap, WaitExit, WaitZombie, WaitExiting, Zenon
  DEF Waiting, Exiting
<1> QED BY <1>1, <1>2, Zenon DEF PNext

(* For any number of processes and CPUs a process that is not reaped is in  *)
(* the list of exactly one parent, which has not begun task_exit, and what  *)
(* sys_wait destroys is still its own zombie child, off every CPU, although *)
(* the lock was dropped since the scan.                                     *)
THEOREM ChildrenReaped == PSpec => []ReapedByParent
<1>1. PInit => WaitInv
  <2> SUFFICES ASSUME PInit PROVE WaitInv
    BY Zenon
  <2>1. WaitTypes
    BY ProcAssumption, Zenon DEF PInit, WaitTypes, PStates, Labels, Exits
  <2>2. Family
    BY ProcAssumption, Zenon DEF PInit, Family, Exits, Still
  <2>3. \A p \in Procs : Dying(p) /\ Reaping(p)
    <3> SUFFICES ASSUME NEW p \in Procs PROVE Dying(p) /\ Reaping(p)
      BY Zenon
    <3>1. p_state[p] = (IF p = init THEN "RUNNING" ELSE "NEW") /\ p_pc[p] = "user"
      BY SMTT(30) DEF PInit
    <3>2. on_cpu[p] <=> p = init
      BY Zenon DEF PInit
    <3> QED BY <3>1, <3>2, Zenon DEF Dying, Reaping, Exits
  <2> QED BY <2>1, <2>2, <2>3, Zenon DEF WaitInv
<1>2. WaitInv => ReapedByParent
  <2> SUFFICES ASSUME WaitInv PROVE ReapedByParent
    BY Zenon
  <2>1. ASSUME NEW c \in Procs \ {init}, p_state[c] \notin {"NEW", "GONE"}
        PROVE  \E p \in Procs : /\ {q \in Procs : c \in children[q]} = {p} /\ parent[c] = p
                                /\ p_pc[p] \notin {"exit", "wakeup", "sigchld", "leave", "dead"}
    <3>1. parent[c] \in Procs
      BY <2>1 DEF WaitInv, WaitTypes, Family
    <3>2. {q \in Procs : c \in children[q]} = {parent[c]}
      BY <3>1, SMTT(30) DEF WaitInv, Family
    <3>3. p_pc[parent[c]] \notin {"exit", "wakeup", "sigchld", "leave", "dead"}
      BY <3>1, Zenon DEF WaitInv, Family, Exits
    <3> QED BY <3>1, <3>2, <3>3, Zenon
  <2>2. ASSUME NEW p \in Procs, p_pc[p] = "reap"
        PROVE  /\ zombie[p] \in children[p] /\ p_state[zombie[p]] = "ZOMBIE" /\ ~on_cpu[zombie[p]]
               /\ p_pc[zombie[p]] = "dead" /\ arg[p] \in {AnyChild, zombie[p]}
    BY <2>2, SMTT(30) DEF WaitInv, WaitTypes, Reaping, Dying, Exits
  <2> QED BY <2>1, <2>2, Zenon DEF ReapedByParent
<1> QED BY <1>1, <1>2, WaitStep, PTL DEF PSpec
-----------------------------------------------------------------------------


(* The index after i is the next slot of the ring, or 0 after the last.      *)
LEMMA AdvanceIndex ==
    ASSUME NEW i \in 0 .. PIPE_BUFSZ - 1
    PROVE  Advance(i) = IF i + 1 = PIPE_BUFSZ THEN 0 ELSE i + 1
BY BufAssumption, SMT DEF Advance

(* Every action keeps the variables in their types.                          *)
LEMMA TypeStep == IInv /\ [Next]_vars => TypeOK'
<1> SUFFICES ASSUME IInv, [Next]_vars PROVE TypeOK'
    BY Zenon
<1> TypeOK BY Zenon DEF IInv
<1>a. /\ Readers \subseteq Tasks /\ Writers \subseteq Tasks /\ NoTask \notin Tasks
      /\ PIPE_BUFSZ \in Nat /\ PIPE_BUFSZ >= 2
      BY BufAssumption, TaskAssumption, Zenon DEF Tasks
<1>b. /\ readers # 0 <=> openR # {}
      /\ writers # 0 <=> openW # {}
      /\ \A t \in Tasks : /\ pc[t] = "read" => t \in Readers
                          /\ pc[t] = "write" => t \in Writers
      BY Zenon DEF IInv, CallsInv, CountInv, TaskInv, TypeOK, EndsType
<1>c. UNCHANGED <<ring, history>> => RingType'
      BY Zenon DEF TypeOK, RingType, ring, history
<1>d. UNCHANGED ends => EndsType'
      BY Zenon DEF TypeOK, EndsType, ends
<1>e. UNCHANGED call => CallType'
      BY Zenon DEF TypeOK, CallType, call
<1>f. \A t \in Tasks, r \in Int : Return(t, r) => CallType'
      BY LenAssumption DEF TypeOK, CallType, Return
<1>g. \A t \in Tasks : done[t] \in 0 .. MaxLen
      BY Zenon DEF TypeOK, CallType
<1> USE DEF TypeOK
<1>1. ASSUME NEW t \in Tasks, NEW S, NEW l \in Locations, Call(t, S, l) PROVE TypeOK'
      <2>1. CallType'
            BY <1>1, LenAssumption DEF Call, CallType
      <2>2. TaskType'
            BY <1>1, Zenon DEF Call, TaskType, Goto, waiters
      <2>3. QED BY <1>1, <1>c, <1>d, <2>1, <2>2, Zenon DEF Call
<1>2. ASSUME NEW t \in Tasks, ReadCall(t) \/ WriteCall(t) PROVE TypeOK'
      BY <1>1, <1>2, Zenon DEF ReadCall, WriteCall, Locations
<1>3. ASSUME NEW t \in Tasks, ReadEmpty(t) PROVE TypeOK'
      <2>1. CallType'
            BY <1>3, <1>e, <1>f, <1>g, LenAssumption DEF ReadEmpty, EINTR
      <2>2. TaskType'
            BY ZenonT(60), <1>3, <1>b DEF ReadEmpty, TaskType, Goto, Return, At, Sleep, Locations
      <2>3. QED BY <1>3, <1>c, <1>d, <2>1, <2>2, Zenon DEF ReadEmpty
<1>4. ASSUME NEW t \in Tasks, ReadLock(t) \/ WriteLock(t) PROVE TypeOK'
      <2>1. TaskType'
            BY <1>4, Zenon DEF ReadLock, WriteLock, TaskType, Goto, Locations, waiters
      <2>2. QED BY <1>4, <1>c, <1>d, <1>e, <2>1, Zenon DEF ReadLock, WriteLock
<1>5. ASSUME NEW t \in Tasks, ReadByte(t) PROVE TypeOK'
      <2>1. RingType'
            BY <1>5, <1>a, AdvanceIndex DEF ReadByte, RingType
      <2>2. CallType'
            BY <1>5, LenAssumption DEF ReadByte, CallType
      <2>3. TaskType'
            BY <1>5, Zenon DEF ReadByte, TaskType, waiters
      <2>4. QED BY <1>5, <1>d, <2>1, <2>2, <2>3, Zenon DEF ReadByte
<1>6. ASSUME NEW t \in Tasks, ReadUnlock(t) \/ WriteUnlock(t) PROVE TypeOK'
      <2>1. CallType'
            BY <1>6, <1>e, <1>f, <1>g, LenAssumption DEF ReadUnlock, WriteUnlock, Stay
      <2>2. pc' \in [Tasks -> Locations]
            BY <1>6, Zenon DEF ReadUnlock, WriteUnlock, Stay, Return, Goto, Locations, TaskType
      <2>3. blocked' \in [Tasks -> BOOLEAN]
            BY ZenonT(60), <1>6 DEF ReadUnlock, WriteUnlock, Wake, TaskType
      <2>4. TaskType'
            BY <1>6, <2>2, <2>3, Zenon DEF ReadUnlock, WriteUnlock, TaskType
      <2>5. QED BY <1>6, <1>c, <1>d, <2>1, <2>4, Zenon DEF ReadUnlock, WriteUnlock
<1>7. ASSUME NEW t \in Tasks, WriteStuck(t) PROVE TypeOK'
      <2>1. CallType'
            BY <1>7, <1>e, <1>f, <1>g, LenAssumption DEF WriteStuck, EINTR, EPIPE
      <2>2. TaskType'
            BY ZenonT(60), <1>7, <1>b DEF WriteStuck, TaskType, Goto, Return, At, Sleep, Locations
      <2>3. QED BY <1>7, <1>c, <1>d, <2>1, <2>2, Zenon DEF WriteStuck
<1>9. ASSUME NEW t \in Tasks, WriteByte(t) PROVE TypeOK'
      <2>1. RingType'
            BY SMTT(60), <1>9, <1>a, AdvanceIndex DEF WriteByte, RingType
      <2>2. CallType'
            BY <1>9, LenAssumption DEF WriteByte, CallType
      <2>3. TaskType'
            BY <1>9, Zenon DEF WriteByte, TaskType, waiters
      <2>4. QED BY <1>9, <1>d, <2>1, <2>2, <2>3, Zenon DEF WriteByte
<1>11. ASSUME NEW t \in Tasks, CloseRead(t) PROVE TypeOK'
      <2>1. EndsType'
            <3>1. readers' \in {0, 1}
                  BY <1>11, <1>b DEF CloseRead, EndsType
            <3>2. freed' \in BOOLEAN
                  BY <1>11, Zenon DEF CloseRead, EndsType, LastEnd
            <3>3. QED BY <1>11, <3>1, <3>2, Zenon DEF CloseRead, EndsType
      <2>2. TaskType'
            BY ZenonT(60), <1>11 DEF CloseRead, TaskType, Wake, waiters
      <2>3. QED BY <1>11, <1>c, <1>e, <2>1, <2>2, Zenon DEF CloseRead
<1>12. ASSUME NEW t \in Tasks, CloseWrite(t) PROVE TypeOK'
      <2>1. EndsType'
            <3>1. writers' \in {0, 1}
                  BY <1>12, <1>b DEF CloseWrite, EndsType
            <3>2. freed' \in BOOLEAN
                  BY <1>12, Zenon DEF CloseWrite, EndsType, LastEnd
            <3>3. QED BY <1>12, <3>1, <3>2, Zenon DEF CloseWrite, EndsType
      <2>2. TaskType'
            BY ZenonT(60), <1>12 DEF CloseWrite, TaskType, Wake, waiters
      <2>3. QED BY <1>12, <1>c, <1>e, <2>1, <2>2, Zenon DEF CloseWrite
<1>13. ASSUME NEW t \in Tasks, Signal(t) \/ Kill(t) PROVE TypeOK'
      <2>1. TaskType'
            BY ZenonT(60), <1>13 DEF Signal, Kill, TaskType, waiters
      <2>2. QED BY <1>13, <1>c, <1>d, <1>e, <2>1, Zenon DEF Signal, Kill
<1>14. ASSUME UNCHANGED vars PROVE TypeOK'
      BY <1>14, <1>c, <1>d, <1>e, Zenon DEF vars, TaskType, waiters
<1>15. QED
      BY <1>2, <1>3, <1>4, <1>5, <1>6, <1>7, <1>9, <1>11, <1>12, <1>13, <1>14, Zenon DEF Next, Step

(* Every action keeps descriptors, counts, the lock and the calls in step.    *)
LEMMA CallsStep == IInv /\ [Next]_vars => CallsInv'
<1> SUFFICES ASSUME IInv, [Next]_vars PROVE CallsInv'
    BY Zenon
<1>a. /\ Readers \subseteq Tasks /\ Writers \subseteq Tasks /\ NoTask \notin Tasks
      BY TaskAssumption, Zenon DEF Tasks
<1>b. /\ pc \in [Tasks -> Locations] /\ blocked \in [Tasks -> BOOLEAN]
      /\ read_waiter \in Tasks \cup {NoTask} /\ write_waiter \in Tasks \cup {NoTask}
      /\ readers \in {0, 1} /\ writers \in {0, 1}
      BY <1>a, Zenon DEF IInv, TypeOK, TaskType, EndsType
<1>c. CountInv /\ \A t \in Tasks : TaskInv(t)
      BY Zenon DEF IInv, CallsInv
<1>d. UNCHANGED ends => CountInv'
      BY <1>c DEF CountInv, ends
<1> USE DEF CallsInv
<1>1. ASSUME NEW t \in Tasks, ReadCall(t) PROVE CallsInv'
      BY <1>1, <1>b, <1>c, <1>d, Zenon DEF ReadCall, Call, TaskInv, Goto, At, ends
<1>2. ASSUME NEW t \in Tasks, WriteCall(t) PROVE CallsInv'
      BY <1>2, <1>b, <1>c, <1>d, Zenon DEF WriteCall, Call, TaskInv, Goto, At, ends
<1>3. ASSUME NEW t \in Tasks, ReadEmpty(t) PROVE CallsInv'
      BY <1>3, <1>b, <1>c, <1>d, Zenon DEF ReadEmpty, TaskInv, Goto, Return, Sleep, At, ends
<1>4. ASSUME NEW t \in Tasks, ReadLock(t) PROVE CallsInv'
      BY <1>4, <1>a, <1>b, <1>c, <1>d, Zenon DEF ReadLock, TaskInv, Goto, At, ends
<1>5. ASSUME NEW t \in Tasks, ReadByte(t) PROVE CallsInv'
      BY <1>5, <1>b, <1>c, <1>d, Zenon DEF ReadByte, TaskInv, ends
<1>6. ASSUME NEW t \in Tasks, ReadUnlock(t) PROVE CallsInv'
      BY <1>6, <1>a, <1>b, <1>c, <1>d, Zenon
         DEF ReadUnlock, TaskInv, Goto, Return, Stay, Wake, At, ends
<1>7. ASSUME NEW t \in Tasks, WriteStuck(t) PROVE CallsInv'
      BY <1>7, <1>b, <1>c, <1>d, Zenon DEF WriteStuck, TaskInv, Goto, Return, Sleep, At, ends
<1>8. ASSUME NEW t \in Tasks, WriteLock(t) PROVE CallsInv'
      BY <1>8, <1>a, <1>b, <1>c, <1>d, Zenon DEF WriteLock, TaskInv, Goto, At, ends
<1>9. ASSUME NEW t \in Tasks, WriteByte(t) PROVE CallsInv'
      BY <1>9, <1>b, <1>c, <1>d, Zenon DEF WriteByte, TaskInv, ends
<1>10. ASSUME NEW t \in Tasks, WriteUnlock(t) PROVE CallsInv'
      BY <1>10, <1>a, <1>b, <1>c, <1>d, ZenonT(60)
         DEF WriteUnlock, TaskInv, Goto, Return, Stay, Wake, At, ends
<1>11. ASSUME NEW t \in Tasks, CloseRead(t) PROVE CallsInv'
      <2>1. CountInv'
            <3>1. readers = 1 /\ ~freed
                  BY <1>11, <1>b, <1>c, Zenon DEF CloseRead, CountInv
            <3>2. CASE openR' # {}
                  BY <1>11, <1>c, <3>1, <3>2, Zenon DEF CloseRead, CountInv
            <3>3. CASE openR' = {}
                  <4>1. readers' = 0 /\ writers' = writers /\ UNCHANGED openW
                        BY <1>11, <3>1, <3>3 DEF CloseRead
                  <4>2. freed' => writers <= 0
                        BY <1>11, <3>3, <4>1, Zenon DEF CloseRead, LastEnd
                  <4>3. QED BY <1>b, <1>c, <3>3, <4>1, <4>2 DEF CountInv
            <3>4. QED BY <3>2, <3>3, Zenon
      <2>2. ASSUME NEW u \in Tasks PROVE TaskInv(u)'
            BY <1>11, <1>a, <1>b, <1>c, Zenon DEF CloseRead, TaskInv, CountInv, At, Wake
      <2>3. QED BY <2>1, <2>2, Zenon
<1>12. ASSUME NEW t \in Tasks, CloseWrite(t) PROVE CallsInv'
      <2>1. CountInv'
            <3>1. writers = 1 /\ ~freed
                  BY <1>12, <1>b, <1>c, Zenon DEF CloseWrite, CountInv
            <3>2. CASE openW' # {}
                  BY <1>12, <1>c, <3>1, <3>2, Zenon DEF CloseWrite, CountInv
            <3>3. CASE openW' = {}
                  <4>1. writers' = 0 /\ readers' = readers /\ UNCHANGED openR
                        BY <1>12, <3>1, <3>3 DEF CloseWrite
                  <4>2. freed' => readers <= 0
                        BY <1>12, <3>3, <4>1, Zenon DEF CloseWrite, LastEnd
                  <4>3. QED BY <1>b, <1>c, <3>3, <4>1, <4>2 DEF CountInv
            <3>4. QED BY <3>2, <3>3, Zenon
      <2>2. ASSUME NEW u \in Tasks PROVE TaskInv(u)'
            BY <1>12, <1>a, <1>b, <1>c, Zenon DEF CloseWrite, TaskInv, CountInv, At, Wake
      <2>3. QED BY <2>1, <2>2, Zenon
<1>13. ASSUME NEW t \in Tasks, Signal(t) \/ Kill(t) PROVE CallsInv'
      BY <1>13, <1>b, <1>c, <1>d, Zenon DEF Signal, Kill, TaskInv, ends
<1>14. ASSUME UNCHANGED vars PROVE CallsInv'
      BY <1>14, <1>c, <1>d, Zenon DEF vars, TaskInv, ends
<1>15. QED
      BY Zenon, <1>1, <1>2, <1>3, <1>4, <1>5, <1>6, <1>7, <1>8, <1>9, <1>10, <1>11, <1>12,
         <1>13, <1>14 DEF Next, Step

(* What ReadByte does to the ring: the oldest byte leaves.                    *)
LEMMA ReadRing ==
    ASSUME TypeOK, NEW t \in Tasks, ReadByte(t)
    PROVE  /\ Gap \in 1 .. PIPE_BUFSZ - 1 /\ Gap' = Gap - 1 /\ Slot(0) = head
           /\ \A i \in 0 .. PIPE_BUFSZ - 1 : i < Gap' => Slot(i)' = Slot(i + 1)
<1>1. /\ PIPE_BUFSZ \in Nat /\ head \in 0 .. PIPE_BUFSZ - 1 /\ tail \in 0 .. PIPE_BUFSZ - 1
      BY BufAssumption, Zenon DEF TypeOK, RingType
<1>2. /\ head # tail /\ tail' = tail
      /\ head' = IF head + 1 = PIPE_BUFSZ THEN 0 ELSE head + 1
      BY <1>1, AdvanceIndex, Zenon DEF ReadByte, Empty
<1>3. QED BY <1>1, <1>2 DEF Gap, Slot

(* What WriteByte does to the ring: the slots in use stay where they are and  *)
(* the new byte goes to the one after them.                                   *)
LEMMA WriteRing ==
    ASSUME TypeOK, NEW t \in Tasks, WriteByte(t)
    PROVE  /\ Gap \in 0 .. PIPE_BUFSZ - 2 /\ Gap' = Gap + 1 /\ Slot(Gap) = tail
           /\ \A i \in 0 .. PIPE_BUFSZ - 1 :
                 /\ Slot(i)' = Slot(i)
                 /\ i < Gap => Slot(i) # tail /\ Slot(i) \in 0 .. PIPE_BUFSZ - 1
<1>1. /\ PIPE_BUFSZ \in Nat /\ head \in 0 .. PIPE_BUFSZ - 1 /\ tail \in 0 .. PIPE_BUFSZ - 1
      BY BufAssumption, Zenon DEF TypeOK, RingType
<1>2. /\ Advance(tail) = IF tail + 1 = PIPE_BUFSZ THEN 0 ELSE tail + 1
      /\ Advance(tail) # head /\ tail' = Advance(tail) /\ head' = head
      BY <1>1, AdvanceIndex, Zenon DEF WriteByte, Full
<1>3. QED BY <1>1, <1>2 DEF Gap, Slot

(* Every action keeps the ring equal to the bytes in flight.                  *)
LEMMA RingStep == IInv /\ [Next]_vars => RingInv'
<1> SUFFICES ASSUME IInv, [Next]_vars PROVE RingInv'
    BY Zenon
<1>a. TypeOK /\ RingInv
      BY Zenon DEF IInv
<1>b. /\ sent \in Seq(Byte) /\ rcvd \in Seq(Byte)
      /\ PIPE_BUFSZ \in Nat /\ buf \in [0 .. PIPE_BUFSZ - 1 -> Byte]
      /\ head \in 0 .. PIPE_BUFSZ - 1 /\ tail \in 0 .. PIPE_BUFSZ - 1
      BY BufAssumption, Zenon DEF IInv, TypeOK, RingType
<1>c. UNCHANGED <<ring, history>> => RingInv'
      BY <1>a, Zenon DEF RingInv, Gap, Slot, ring, history
<1>1. ASSUME NEW t \in Tasks, ReadByte(t) PROVE RingInv'
      <2>1. /\ rcvd' = Append(rcvd, buf[head]) /\ sent' = sent /\ buf' = buf
            BY <1>1, Zenon DEF ReadByte
      <2>2. Len(rcvd') = Len(rcvd) + 1 /\ Len(rcvd) \in Nat
            BY <1>b, <2>1
      <2>3. /\ Gap \in 1 .. PIPE_BUFSZ - 1 /\ Gap' = Gap - 1
            /\ \A i \in 0 .. PIPE_BUFSZ - 1 : i < Gap' => Slot(i)' = Slot(i + 1)
            BY <1>1, <1>a, ReadRing, Zenon
      <2>4. Len(sent') = Len(rcvd') + Gap'
            BY SMTT(60), <1>a, <2>1, <2>2, <2>3 DEF RingInv
      <2>5. ASSUME NEW i \in 0 .. PIPE_BUFSZ - 1, i < Gap'
            PROVE  buf'[Slot(i)'] = sent'[Len(rcvd') + 1 + i]
            <3>1. i + 1 \in 0 .. PIPE_BUFSZ - 1 /\ i + 1 < Gap
                  BY <1>b, <2>3, <2>5
            <3>2. buf[Slot(i + 1)] = sent[Len(rcvd) + 1 + (i + 1)]
                  BY <1>a, <3>1, Zenon DEF RingInv
            <3>3. Len(rcvd) + 1 + (i + 1) = Len(rcvd') + 1 + i
                  BY <2>2
            <3>4. QED BY <2>1, <2>3, <2>5, <3>2, <3>3, Zenon
      <2>6. ASSUME NEW i \in 1 .. Len(rcvd') PROVE rcvd'[i] = sent'[i]
            <3>1. CASE i \in 1 .. Len(rcvd)
                  BY <1>a, <1>b, <2>1, <3>1 DEF RingInv
            <3>2. CASE i = Len(rcvd) + 1
                  <4>1. Slot(0) = head /\ 0 \in 0 .. PIPE_BUFSZ - 1 /\ 0 < Gap
                        BY <1>1, <1>a, <1>b, ReadRing
                  <4>2. buf[Slot(0)] = sent[Len(rcvd) + 1 + 0]
                        BY <1>a, <4>1, Zenon DEF RingInv
                  <4>3. QED BY <1>b, <2>1, <2>2, <3>2, <4>1, <4>2
            <3>3. QED BY <2>2, <3>1, <3>2
      <2>7. QED BY <2>4, <2>5, <2>6, Zenon DEF RingInv
<1>2. ASSUME NEW t \in Tasks, WriteByte(t) PROVE RingInv'
      <2>1. PICK b \in Byte : buf' = [buf EXCEPT ![tail] = b] /\ sent' = Append(sent, b)
            BY ZenonT(60), <1>2 DEF WriteByte
      <2>2. /\ rcvd' = rcvd /\ Len(sent') = Len(sent) + 1
            /\ Len(rcvd) \in Nat /\ Len(sent) \in Nat
            BY <1>b, <1>2, <2>1 DEF WriteByte
      <2>3. /\ Gap \in 0 .. PIPE_BUFSZ - 2 /\ Gap' = Gap + 1 /\ Slot(Gap) = tail
            /\ \A i \in 0 .. PIPE_BUFSZ - 1 :
                  /\ Slot(i)' = Slot(i)
                  /\ i < Gap => Slot(i) # tail /\ Slot(i) \in 0 .. PIPE_BUFSZ - 1
            BY <1>2, <1>a, WriteRing, Zenon
      <2>4. Len(sent) = Len(rcvd) + Gap
            BY <1>a, Zenon DEF RingInv
      <2>5. ASSUME NEW i \in 0 .. PIPE_BUFSZ - 1, i < Gap'
            PROVE  buf'[Slot(i)'] = sent'[Len(rcvd') + 1 + i]
            <3>1. CASE i < Gap
                  <4>1. buf[Slot(i)] = sent[Len(rcvd) + 1 + i]
                        BY <1>a, <3>1, Zenon DEF RingInv
                  <4>2. Len(rcvd) + 1 + i \in 1 .. Len(sent)
                        BY <2>2, <2>3, <2>4, <3>1
                  <4>3. sent'[Len(rcvd) + 1 + i] = sent[Len(rcvd) + 1 + i]
                        BY <1>b, <2>1, <4>2
                  <4>4. QED BY <1>b, <2>1, <2>2, <2>3, <3>1, <4>1, <4>3, Zenon
            <3>2. CASE i = Gap
                  <4>1. Len(rcvd') + 1 + i = Len(sent) + 1
                        BY <2>2, <2>3, <2>4, <3>2
                  <4>2. sent'[Len(sent) + 1] = b
                        BY <1>b, <2>1
                  <4>3. QED BY <1>b, <2>1, <2>3, <3>2, <4>1, <4>2, Zenon
            <3>3. QED BY <2>3, <2>5, <3>1, <3>2
      <2>6. Len(sent') = Len(rcvd') + Gap'
            BY <2>2, <2>3, <2>4
      <2>7. ASSUME NEW i \in 1 .. Len(rcvd') PROVE rcvd'[i] = sent'[i]
            <3>1. i \in 1 .. Len(sent) /\ rcvd[i] = sent[i]
                  BY <1>a, <2>2, <2>3, <2>4 DEF RingInv
            <3>2. QED BY <1>b, <2>1, <2>2, <3>1
      <2>8. QED BY <2>5, <2>6, <2>7, Zenon DEF RingInv
<1>3. CASE \A t \in Tasks : ~ReadByte(t) /\ ~WriteByte(t)
      <2>1. UNCHANGED <<ring, history>>
            BY <1>3, Zenon DEF Next, Step, ReadCall, WriteCall, Call, ReadEmpty, ReadLock, ReadUnlock,
               WriteStuck, WriteLock, WriteUnlock, CloseRead, CloseWrite, Signal, Kill, vars
      <2>2. QED BY <1>c, <2>1, Zenon
<1>4. QED BY <1>1, <1>2, <1>3, Zenon

(* Every action keeps the lone sleeping reader in its slot with a reason to     *)
(* sleep: what ends the reason also wakes it.                                 *)
LEMMA ReaderSleepStep == IInv /\ [Next]_vars => \A t \in Readers : ReaderSleeps(t)'
<1> SUFFICES ASSUME IInv, [Next]_vars, NEW t \in Readers, Readers = {t}, blocked'[t],
                    pc'[t] = "read"
             PROVE  /\ read_waiter' = t /\ writers' # 0
                    /\ Empty' \/ \E u \in Tasks : pc'[u] = "wcopy"
    BY Zenon DEF ReaderSleeps
<1> DEFINE Goal == /\ read_waiter' = t /\ writers' # 0
                   /\ Empty' \/ \E u \in Tasks : pc'[u] = "wcopy"
<1>a. t \in Tasks /\ t # NoTask
      BY TaskAssumption, Zenon DEF Tasks
<1>b. /\ pc \in [Tasks -> Locations] /\ blocked \in [Tasks -> BOOLEAN]
      /\ writers \in {0, 1}
      BY Zenon DEF IInv, TypeOK, TaskType, EndsType
<1>c. \A u \in Tasks : TaskInv(u)
      BY ZenonT(60) DEF IInv, CallsInv
<1>d. \A u \in Tasks : pc[u] \in {"read", "rcopy"} => u = t
      BY <1>c, Zenon DEF TaskInv, IInv, TypeOK, EndsType
<1>e. blocked[t] /\ pc[t] = "read" => /\ read_waiter = t /\ writers # 0
                                      /\ Empty \/ \E u \in Tasks : pc[u] = "wcopy"
      BY Zenon DEF IInv, SleepInv, ReaderSleeps
<1>1. ASSUME NEW u \in Tasks, ReadCall(u) \/ WriteCall(u) PROVE Goal
      BY Zenon, <1>1, <1>a, <1>b, <1>e DEF ReadCall, WriteCall, Call, At, Goto, ring, ends, waiters, Empty
<1>2. ASSUME NEW u \in Tasks, ReadEmpty(u) PROVE Goal
      BY <1>2, <1>a, <1>b, <1>d, <1>e, Zenon
         DEF ReadEmpty, ReadMayReturn, At, Goto, Return, Sleep, ring, ends, Empty
<1>3. ASSUME NEW u \in Tasks, ReadLock(u) \/ ReadByte(u) \/ ReadUnlock(u) PROVE Goal
      <2>1. u = t /\ ~blocked[t]
            BY Zenon, <1>3, <1>d DEF ReadLock, ReadByte, ReadUnlock, At
      <2>2. ~blocked'[t]
            BY <1>3, <1>a, <1>b, <2>1, Zenon DEF ReadLock, ReadByte, ReadUnlock, Wake
      <2>3. QED BY <2>2, Zenon
<1>4. ASSUME NEW u \in Tasks, WriteStuck(u) PROVE Goal
      BY <1>4, <1>a, <1>b, <1>e, Zenon DEF WriteStuck, At, Goto, Return, Sleep, ring, ends, Empty
<1>5. ASSUME NEW u \in Tasks, WriteLock(u) PROVE Goal
      BY <1>5, <1>a, <1>b, <1>e, Zenon DEF WriteLock, At, Goto, ends, waiters
<1>6. ASSUME NEW u \in Tasks, WriteByte(u) PROVE Goal
      BY <1>6, <1>a, <1>b, <1>e, Zenon DEF WriteByte, At, ends, waiters
<1>7. ASSUME NEW u \in Tasks, WriteUnlock(u) PROVE Goal
      BY <1>7, <1>a, <1>b, <1>e, Zenon DEF WriteUnlock, At, Goto, Return, Stay, Wake
<1>8. ASSUME NEW u \in Tasks, CloseRead(u) PROVE Goal
      <2>1. CloseRead(u) /\ u = t
            BY <1>8, Zenon DEF CloseRead, IInv, TypeOK, EndsType
      <2>2. pc[t] = "idle" /\ UNCHANGED pc
            BY <2>1, Zenon DEF CloseRead, At
      <2>3. QED BY <2>2, Zenon
<1>9. ASSUME NEW u \in Tasks, CloseWrite(u) PROVE Goal
      BY <1>9, <1>a, <1>b, <1>e, Zenon DEF CloseWrite, At, Wake, ring, waiters, Empty
<1>10. ASSUME NEW u \in Tasks, Signal(u) \/ Kill(u) PROVE Goal
      BY <1>10, <1>a, <1>b, <1>e, Zenon DEF Signal, Kill, ring, ends, waiters, Empty
<1>11. ASSUME UNCHANGED vars PROVE Goal
      BY Zenon, <1>11, <1>e DEF vars, ring, ends, waiters, Empty
<1>12. QED
      BY ZenonT(60), <1>1, <1>2, <1>3, <1>4, <1>5, <1>6, <1>7, <1>8, <1>9, <1>10, <1>11 DEF Next, Step

(* Every action keeps the lone sleeping writer in its slot with a reason to     *)
(* sleep: what ends the reason also wakes it.                                 *)
LEMMA WriterSleepStep == IInv /\ [Next]_vars => \A t \in Writers : WriterSleeps(t)'
<1> SUFFICES ASSUME IInv, [Next]_vars, NEW t \in Writers, Writers = {t}, blocked'[t],
                    pc'[t] = "write"
             PROVE  /\ write_waiter' = t /\ readers' # 0
                    /\ Full' \/ \E u \in Tasks : pc'[u] = "rcopy"
    BY Zenon DEF WriterSleeps
<1> DEFINE Goal == /\ write_waiter' = t /\ readers' # 0
                   /\ Full' \/ \E u \in Tasks : pc'[u] = "rcopy"
<1>a. t \in Tasks /\ t # NoTask
      BY TaskAssumption, Zenon DEF Tasks
<1>b. /\ pc \in [Tasks -> Locations] /\ blocked \in [Tasks -> BOOLEAN]
      /\ readers \in {0, 1}
      BY Zenon DEF IInv, TypeOK, TaskType, EndsType
<1>c. \A u \in Tasks : TaskInv(u)
      BY Zenon DEF IInv, CallsInv
<1>d. \A u \in Tasks : pc[u] \in {"write", "wcopy"} => u = t
      BY <1>c, Zenon DEF TaskInv, IInv, TypeOK, EndsType
<1>e. blocked[t] /\ pc[t] = "write" => /\ write_waiter = t /\ readers # 0
                                       /\ Full \/ \E u \in Tasks : pc[u] = "rcopy"
      BY SMTT(60) DEF IInv, SleepInv, WriterSleeps
<1>1. ASSUME NEW u \in Tasks, ReadCall(u) \/ WriteCall(u) PROVE Goal
      BY Zenon, <1>1, <1>a, <1>b, <1>e DEF ReadCall, WriteCall, Call, At, Goto, ring, ends, waiters, Full, Advance
<1>2. ASSUME NEW u \in Tasks, WriteStuck(u) PROVE Goal
      BY <1>2, <1>a, <1>b, <1>d, <1>e, Zenon
         DEF WriteStuck, At, Goto, Return, Sleep, ring, ends, Full, Advance
<1>3. ASSUME NEW u \in Tasks, WriteLock(u) \/ WriteByte(u) \/ WriteUnlock(u) PROVE Goal
      <2>1. u = t /\ ~blocked[t]
            BY Zenon, <1>3, <1>d DEF WriteLock, WriteByte, WriteUnlock, At
      <2>2. ~blocked'[t]
            BY Zenon, <1>3, <1>a, <1>b, <2>1 DEF WriteLock, WriteByte, WriteUnlock, Wake
      <2>3. QED BY <2>2, Zenon
<1>4. ASSUME NEW u \in Tasks, ReadEmpty(u) PROVE Goal
      BY <1>4, <1>a, <1>b, <1>e, Zenon DEF ReadEmpty, At, Goto, Return, Sleep, ring, ends, Full, Advance
<1>5. ASSUME NEW u \in Tasks, ReadLock(u) PROVE Goal
      BY <1>5, <1>a, <1>b, <1>e, Zenon DEF ReadLock, At, Goto, ends, waiters
<1>6. ASSUME NEW u \in Tasks, ReadByte(u) PROVE Goal
      BY <1>6, <1>a, <1>b, <1>e, Zenon DEF ReadByte, At, ends, waiters
<1>7. ASSUME NEW u \in Tasks, ReadUnlock(u) PROVE Goal
      BY <1>7, <1>a, <1>b, <1>e, Zenon DEF ReadUnlock, At, Goto, Return, Stay, Wake
<1>8. ASSUME NEW u \in Tasks, CloseWrite(u) PROVE Goal
      <2>1. CloseWrite(u) /\ u = t
            BY <1>8, Zenon DEF CloseWrite, IInv, TypeOK, EndsType
      <2>2. pc[t] = "idle" /\ UNCHANGED pc
            BY <2>1, Zenon DEF CloseWrite, At
      <2>3. QED BY <2>2, Zenon
<1>9. ASSUME NEW u \in Tasks, CloseRead(u) PROVE Goal
      BY <1>9, <1>a, <1>b, <1>e, Zenon DEF CloseRead, At, Wake, ring, waiters, Full, Advance
<1>10. ASSUME NEW u \in Tasks, Signal(u) \/ Kill(u) PROVE Goal
      BY <1>10, <1>a, <1>b, <1>e, Zenon DEF Signal, Kill, ring, ends, waiters, Full, Advance
<1>11. ASSUME UNCHANGED vars PROVE Goal
      BY <1>11, <1>e, Zenon DEF vars, ring, ends, waiters, Full, Advance
<1>12. QED
      BY <1>1, <1>2, <1>3, <1>4, <1>5, <1>6, <1>7, <1>8, <1>9, <1>10, <1>11, Zenon DEF Next, Step

(* IInv holds initially.                                                      *)
LEMMA InitInv == Init => IInv
<1> SUFFICES ASSUME Init PROVE IInv
    BY Zenon
<1>1. TypeOK
      <2>1. RingType
            BY BufAssumption, ByteAssumption DEF Init, RingType
      <2>2. EndsType
            BY ZenonT(60) DEF Init, EndsType
      <2>3. TaskType
            BY Zenon DEF Init, TaskType, Locations
      <2>4. CallType
            BY LenAssumption DEF Init, CallType
      <2>5. QED BY <2>1, <2>2, <2>3, <2>4, Zenon DEF TypeOK
<1>2. CallsInv
      BY TaskAssumption DEF Init, CallsInv, CountInv, TaskInv, Tasks
<1>3. RingInv
      BY BufAssumption DEF Init, RingInv, Gap
<1>4. SleepInv
      BY Zenon DEF Init, SleepInv, ReaderSleeps, WriterSleeps, Tasks
<1>5. QED BY <1>1, <1>2, <1>3, <1>4, Zenon DEF IInv

(* IInv is an invariant of the pipe.                                          *)
THEOREM Inductive == Spec => []IInv
<1>1. IInv /\ [Next]_vars => IInv'
      BY TypeStep, CallsStep, RingStep, ReaderSleepStep, WriterSleepStep, Zenon DEF IInv, SleepInv
<1>2. QED BY InitInv, <1>1, PTL DEF Spec

(* Type correctness.                                                          *)
THEOREM TypeCorrect == Spec => []TypeOK
BY Inductive, PTL DEF IInv

(* pipe_shared_t is freed only when no task can reach it again.               *)
THEOREM FreedUnreachable == Spec => []NoUseAfterFree
<1>1. IInv => NoUseAfterFree
      <2> SUFFICES ASSUME IInv, freed
                   PROVE  /\ openR = {} /\ openW = {} /\ lock = NoTask
                          /\ \A t \in Tasks : pc[t] = "idle"
          BY Zenon DEF NoUseAfterFree
      <2>1. openR = {} /\ openW = {}
            BY Zenon DEF IInv, CallsInv, CountInv
      <2>2. \A t \in Tasks : pc[t] = "idle"
            BY <2>1, Zenon DEF IInv, CallsInv, TaskInv, TypeOK, TaskType, Locations
      <2>3. lock = NoTask
            BY <2>2, Zenon DEF IInv, CallsInv, TaskInv, TypeOK, TaskType
      <2>4. QED BY <2>1, <2>2, <2>3, Zenon
<1>2. QED BY <1>1, Inductive, PTL

(* A lone reader and a lone writer never sleep past what they wait for.       *)
THEOREM NoLostWakeup == Spec => []SoleSleeperNotLost
<1>1. IInv => SoleSleeperNotLost
      <2> SUFFICES ASSUME IInv PROVE SoleReaderNotLost /\ SoleWriterNotLost
          BY Zenon DEF SoleSleeperNotLost
      <2>1. lock = NoTask => \A u \in Tasks : pc[u] \notin {"rcopy", "wcopy"}
            BY TaskAssumption, Zenon DEF IInv, CallsInv, TaskInv, Tasks
      <2>2. SoleReaderNotLost
            BY <2>1, Zenon DEF IInv, SleepInv, ReaderSleeps, SoleReaderNotLost
      <2>3. SoleWriterNotLost
            BY <2>1, Zenon DEF IInv, SleepInv, WriterSleeps, SoleWriterNotLost
      <2>4. QED BY <2>2, <2>3, Zenon
<1>2. QED BY <1>1, Inductive, PTL

(* A read returns 0 only when the write end is gone and all bytes came out.   *)
THEOREM ZeroOnlyAtEof == Spec => ZeroMeansEof
<1> DEFINE A == \A t \in Tasks : (pc[t] = "read" /\ pc'[t] = "idle" /\ ret'[t] = 0)
                                    => writers = 0 /\ rcvd = sent
<1>1. ASSUME IInv, Next PROVE A
      <2> SUFFICES ASSUME NEW t \in Tasks, pc[t] = "read", pc'[t] = "idle", ret'[t] = 0
                   PROVE  writers = 0 /\ rcvd = sent
          BY Zenon
      <2>a. /\ pc \in [Tasks -> Locations] /\ done \in [Tasks -> 0 .. MaxLen]
            /\ ret \in [Tasks -> Int] /\ MaxLen \in Nat
            BY <1>1, LenAssumption, Zenon DEF IInv, TypeOK, TaskType, CallType
      <2>1. ReadEmpty(t)
            <3>1. ASSUME NEW u \in Tasks, ReadCall(u) \/ WriteCall(u)
                  PROVE  FALSE
                  BY ZenonT(60), <3>1, <2>a DEF ReadCall, WriteCall, Call, At, Goto
            <3>2. ASSUME NEW u \in Tasks, ReadLock(u) \/ WriteLock(u) \/ ReadByte(u) \/ WriteByte(u)
                  PROVE  FALSE
                  BY Zenon, <3>2, <2>a DEF ReadLock, WriteLock, ReadByte, WriteByte, Goto, At
            <3>3. ASSUME NEW u \in Tasks, ReadUnlock(u) \/ WriteUnlock(u) \/ WriteStuck(u)
                  PROVE  FALSE
                  BY <3>3, <2>a, Zenon DEF ReadUnlock, WriteUnlock, WriteStuck, Return, Stay, Goto, At
            <3>4. ASSUME NEW u \in Tasks, CloseRead(u) \/ CloseWrite(u) \/ Signal(u) \/ Kill(u)
                  PROVE  FALSE
                  BY ZenonT(60), <3>4 DEF CloseRead, CloseWrite, Signal, Kill
            <3>5. ASSUME NEW u \in Tasks, ReadEmpty(u), u # t
                  PROVE  FALSE
                  <4>1. pc' = [pc EXCEPT ![u] = "idle"] \/ pc' = pc
                        BY ZenonT(60), <3>5 DEF ReadEmpty, Return, Goto
                  <4>2. QED BY <2>a, <3>5, <4>1, Zenon
            <3>6. QED BY Zenon, <1>1, <3>1, <3>2, <3>3, <3>4, <3>5 DEF Next, Step
      <2>2. Return(t, done[t]) /\ ReadMayReturn(t)
            BY <2>1, <2>a DEF ReadEmpty, Return, EINTR
      <2>3. writers = 0
            BY <2>2, <2>a DEF Return, ReadMayReturn
      <2>4. sent \in Seq(Byte) /\ rcvd \in Seq(Byte) /\ head = tail /\ head \in Nat
            <3>1. sent \in Seq(Byte) /\ rcvd \in Seq(Byte) /\ head \in 0 .. PIPE_BUFSZ - 1
                  BY <1>1, Zenon DEF IInv, TypeOK, RingType
            <3>2. head = tail
                  BY <2>1, ZenonT(30) DEF ReadEmpty, Empty
            <3>3. head \in Nat
                  BY <3>1, BufAssumption
            <3>4. QED BY <3>1, <3>2, <3>3, Zenon
      <2>5. Len(rcvd) = Len(sent) /\ \A i \in 1 .. Len(rcvd) : rcvd[i] = sent[i]
            <3>1. RingInv
                  BY <1>1, Zenon DEF IInv
            <3>2. Gap = 0
                  BY <2>4 DEF Gap
            <3> QED BY <2>4, <3>1, <3>2 DEF RingInv
      <2>6. QED BY <2>3, <2>4, <2>5
<1>2. IInv /\ [Next]_vars => [A]_vars
      BY <1>1, Zenon
<1>3. QED BY <1>2, Inductive, PTL DEF Spec, ZeroMeansEof

(* The ring with its lock, waiter slots and wakeups implements the channel.   *)
THEOREM Refinement == Spec => ImplementsFifo
<1>1. Init => Fifo!Init
      BY DEF Init, Fifo!Init
<1>2. ASSUME IInv, [Next]_vars PROVE [Fifo!Next]_(Fifo!vars)
      <2>a. /\ sent \in Seq(Byte) /\ rcvd \in Seq(Byte)
            /\ readers \in {0, 1} /\ writers \in {0, 1}
            BY <1>2, Zenon DEF IInv, TypeOK, RingType, EndsType
      <2>b. RingInv /\ CallsInv /\ TypeOK
            BY <1>2, Zenon DEF IInv
      <2>1. ASSUME NEW t \in Tasks, ReadByte(t) PROVE Fifo!Get
            <3>1. /\ Gap \in 1 .. PIPE_BUFSZ - 1 /\ Slot(0) = head
                  BY <2>1, <2>b, ReadRing, Zenon
            <3>2. Len(rcvd) < Len(sent) /\ buf[head] = sent[Len(rcvd) + 1]
                  BY SMTT(60), <2>a, <2>b, <3>1, BufAssumption DEF RingInv
            <3>3. readers # 0
                  BY <2>1, <2>b, Zenon DEF ReadByte, At, CallsInv, CountInv, TaskInv
            <3>4. QED BY <2>1, <3>2, <3>3, Zenon DEF ReadByte, ends, Fifo!Get
      <2>2. ASSUME NEW t \in Tasks, WriteByte(t) PROVE \E b \in Byte : Fifo!Put(b)
            <3>1. Gap \in 0 .. PIPE_BUFSZ - 2
                  BY <2>2, <2>b, WriteRing, Zenon
            <3>2. Len(sent) - Len(rcvd) < PIPE_BUFSZ - 1
                  BY SMTT(60), <2>a, <2>b, <3>1, BufAssumption DEF RingInv
            <3>3. readers # 0 /\ writers # 0
                  BY <2>2, <2>b, Zenon DEF WriteByte, At, CallsInv, CountInv, TaskInv
            <3>4. QED BY <2>2, <3>2, <3>3, Zenon DEF WriteByte, ends, Fifo!Put
      <2>3. ASSUME NEW t \in Tasks, CloseRead(t) PROVE Fifo!CloseRead \/ UNCHANGED Fifo!vars
            <3>1. readers = 1
                  BY <2>3, <2>a, <2>b, Zenon DEF CloseRead, CallsInv, CountInv
            <3>2. QED BY <2>3, <3>1 DEF CloseRead, history, Fifo!CloseRead, Fifo!vars
      <2>4. ASSUME NEW t \in Tasks, CloseWrite(t) PROVE Fifo!CloseWrite \/ UNCHANGED Fifo!vars
            <3>1. writers = 1
                  BY <2>4, <2>a, <2>b, Zenon DEF CloseWrite, CallsInv, CountInv
            <3>2. QED BY <2>4, <3>1 DEF CloseWrite, history, Fifo!CloseWrite, Fifo!vars
      <2>5. CASE \A t \in Tasks : /\ ~ReadByte(t) /\ ~WriteByte(t)
                                  /\ ~CloseRead(t) /\ ~CloseWrite(t)
            <3>1. UNCHANGED <<ends, history>>
                  BY <1>2, <2>5, Zenon DEF Next, Step, ReadCall, WriteCall, Call, ReadEmpty, ReadLock,
                     ReadUnlock, WriteStuck, WriteLock, WriteUnlock, Signal, Kill, vars
            <3>2. QED BY <3>1, Zenon DEF ends, history, Fifo!vars
      <2>6. QED BY <2>1, <2>2, <2>3, <2>4, <2>5, Zenon DEF Fifo!Next
<1>3. QED BY <1>1, <1>2, Inductive, PTL DEF Spec, ImplementsFifo, Fifo!Spec
=============================================================================
