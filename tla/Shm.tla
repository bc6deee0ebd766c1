--------------------------------- MODULE Shm ---------------------------------
(***************************************************************************)
(* System V shared memory (kernel/src/syscall/mem/shm.c): segments, the     *)
(* table of attachments, and the page maps the segments are mapped into.    *)
(* An attachment belongs to a task, a page map to the tasks that share it,  *)
(* and fork copies the map (vmm_clone_pagemap) but no attachment.  Every    *)
(* hold of g_lock is one step; pages are mapped and unmapped without it.    *)
(* A segment is one page; a lookup by key (shmget) changes nothing.         *)
(***************************************************************************)
EXTENDS Naturals, FiniteSets

CONSTANTS ShmTasks, ShmFirst, Spaces,
          Absent,           \* no page map, no page, an entry that is not used
          MaxId,            \* bound on g_next_id
          SHM_MAX, SHM_ATT_MAX,
          NVa               \* addresses below the first value of brk_max

VARIABLES seg, next_id,
          att,              \* g_att
          space,            \* the page map of a task, if there is the task
          map,              \* a page of a page map: its segment and (history) the task
                            \* that attached it, Absent once that has left the map
          brk_max,
          shm_step,         \* the call of a task between two holds of g_lock
          failed            \* history: segments a shmat could not map
mvars == <<seg, next_id, att, space, map, brk_max, shm_step, failed>>

Ids == 1 .. MaxId
Slots == 1 .. SHM_ATT_MAX
Vas == 1 .. NVa
NoSeg == [used |-> FALSE, nattach |-> 0, marked |-> FALSE]
Unmapped == [va \in Vas |-> Absent]
Step(op, va, i, slot) == [op |-> op, va |-> va, id |-> i, slot |-> slot]
NoStep == Step("no", 0, 0, 0)

ASSUME ShmAssumption == /\ ShmFirst \in ShmTasks /\ IsFiniteSet(ShmTasks) /\ Spaces # {}
                        /\ {MaxId, SHM_ATT_MAX, NVa} \subseteq Nat
                        /\ Absent \notin ShmTasks /\ Absent \notin Spaces
                        /\ Absent \notin [task : ShmTasks, va : Vas, id : Ids]
                        /\ Absent \notin [id : Ids, by : ShmTasks \cup {Absent}]

MInit == /\ seg = [i \in Ids |-> NoSeg] /\ next_id = 1
         /\ att = [k \in Slots |-> Absent]
         /\ space = [t \in ShmTasks |-> IF t = ShmFirst THEN CHOOSE s \in Spaces : TRUE ELSE Absent]
         /\ map = [s \in Spaces |-> Unmapped]
         /\ brk_max = [t \in ShmTasks |-> NVa + 1]
         /\ shm_step = [t \in ShmTasks |-> NoStep] /\ failed = {}

InUserMode(t) == space[t] # Absent /\ shm_step[t] = NoStep
Does(t, s) == shm_step' = [shm_step EXCEPT ![t] = s]
OfTask(t) == {k \in Slots : att[k] # Absent /\ att[k].task = t}
IsFirst(k, S) == k \in S /\ \A j \in S : k <= j
procs == <<space, brk_max>>

(* The pages of a page map after the tasks in ts have left it, and the map  *)
(* of t after t has: the last one frees it.                                 *)
Left(pages, ts) == [va \in Vas |-> IF pages[va] # Absent /\ pages[va].by \in ts
                                   THEN [pages[va] EXCEPT !.by = Absent] ELSE pages[va]]
MapLeft(t) == IF \E r \in ShmTasks \ {t} : space[r] = space[t] THEN Left(map[space[t]], {t})
                                                             ELSE Unmapped
-----------------------------------------------------------------------------
(* c attachments are gone; the last one of a marked segment frees it.       *)
Detached(s, c) ==
    IF s.marked /\ s.nattach <= c THEN [s EXCEPT !.used = FALSE, !.nattach = 0]
                                  ELSE [s EXCEPT !.nattach = @ - c]
MarkedFree(s) == [s EXCEPT !.marked = TRUE, !.used = FALSE]
Marked(s) == [s EXCEPT !.marked = TRUE, !.used = @ /\ s.nattach > 0]

sys_shmget(t) == /\ InUserMode(t) /\ next_id \in Ids
                 /\ Cardinality({i \in Ids : seg[i].used}) < SHM_MAX
                 /\ seg' = [seg EXCEPT ![next_id].used = TRUE] /\ next_id' = next_id + 1
                 /\ UNCHANGED <<att, procs, map, shm_step, failed>>
sys_shmctl(t, i) == /\ InUserMode(t) /\ seg[i].used
                    /\ seg' = [seg EXCEPT ![i] = Marked(@)]
                    /\ UNCHANGED <<next_id, att, procs, map, shm_step, failed>>

(* shmat counts and records the attachment, then maps the page; when there  *)
(* is no memory for a page table it takes both back, without a look at      *)
(* marked.                                                                  *)
sys_shmat(t, i) ==
    /\ InUserMode(t) /\ seg[i].used /\ brk_max[t] > 1
    /\ brk_max' = [brk_max EXCEPT ![t] = @ - 1]
    /\ \E k \in Slots :
         /\ IsFirst(k, {j \in Slots : att[j] = Absent})
         /\ att' = [att EXCEPT ![k] = [task |-> t, va |-> brk_max'[t], id |-> i]]
         /\ Does(t, Step("map", brk_max'[t], i, k))
    /\ seg' = [seg EXCEPT ![i].nattach = @ + 1]
    /\ UNCHANGED <<next_id, space, map, failed>>
MapPage(t) == /\ shm_step[t].op = "map" /\ Does(t, NoStep)
              /\ map' = [map EXCEPT ![space[t]][shm_step[t].va] = [id |-> shm_step[t].id, by |-> t]]
              /\ UNCHANGED <<seg, next_id, att, procs, failed>>
MapFails(t) == /\ shm_step[t].op = "map" /\ Does(t, NoStep)
               /\ att' = [att EXCEPT ![shm_step[t].slot] = Absent]
               /\ seg' = [seg EXCEPT ![shm_step[t].id].nattach = @ - 1]
               /\ failed' = failed \cup {shm_step[t].id}
               /\ UNCHANGED <<next_id, procs, map>>

(* shmdt forgets the attachment, unmaps the page, then counts it down.      *)
sys_shmdt(t, va) ==
    /\ InUserMode(t)
    /\ \E k \in Slots :
         /\ IsFirst(k, {j \in OfTask(t) : att[j].va = va})
         /\ att' = [att EXCEPT ![k] = Absent]
         /\ Does(t, Step("unmap", va, att[k].id, 0))
    /\ UNCHANGED <<seg, next_id, procs, map, failed>>
UnmapPage(t) == /\ shm_step[t].op = "unmap" /\ Does(t, Step("drop", 0, shm_step[t].id, 0))
                /\ map' = [map EXCEPT ![space[t]][shm_step[t].va] = Absent]
                /\ UNCHANGED <<seg, next_id, att, procs, failed>>
DropSegment(t) == /\ shm_step[t].op = "drop" /\ Does(t, NoStep)
                  /\ seg' = [seg EXCEPT ![shm_step[t].id] = Detached(@, 1)]
                  /\ UNCHANGED <<next_id, att, procs, map, failed>>

shm_task_exit(t) ==
    /\ InUserMode(t) /\ t # ShmFirst
    /\ att' = [k \in Slots |-> IF k \in OfTask(t) THEN Absent ELSE att[k]]
    /\ seg' = [i \in Ids |->
                 LET mine == {k \in OfTask(t) : att[k].id = i}
                 IN  IF mine = {} THEN seg[i] ELSE Detached(seg[i], Cardinality(mine))]
    /\ space' = [space EXCEPT ![t] = Absent]
    /\ map' = [map EXCEPT ![space[t]] = MapLeft(t)]
    /\ brk_max' = [brk_max EXCEPT ![t] = NVa + 1]
    /\ UNCHANGED <<next_id, shm_step, failed>>
-----------------------------------------------------------------------------
(* A thread shares the page map, a child of fork gets a copy; both start    *)
(* with the parent's brk_max, and neither with its attachments.  execve     *)
(* leaves the map behind and keeps the attachments.                         *)
UnusedMaps == Spaces \ {space[t] : t \in ShmTasks}
NewMap == CHOOSE s \in UnusedMaps : TRUE
Starts(p, t) == InUserMode(p) /\ space[t] = Absent /\ t # ShmFirst
task_spawn_thread(p, t) ==
    /\ Starts(p, t)
    /\ space' = [space EXCEPT ![t] = space[p]] /\ brk_max' = [brk_max EXCEPT ![t] = brk_max[p]]
    /\ UNCHANGED <<seg, next_id, att, map, shm_step, failed>>
task_fork(p, t) ==
    /\ Starts(p, t)
    /\ UnusedMaps # {} /\ space' = [space EXCEPT ![t] = NewMap]
    /\ map' = [map EXCEPT ![NewMap] = Left(map[space[p]], ShmTasks)]
    /\ brk_max' = [brk_max EXCEPT ![t] = brk_max[p]]
    /\ UNCHANGED <<seg, next_id, att, shm_step, failed>>
sys_execve(t) ==
    /\ InUserMode(t) /\ UnusedMaps # {} /\ space' = [space EXCEPT ![t] = NewMap]
    /\ map' = [map EXCEPT ![space[t]] = MapLeft(t)]
    /\ brk_max' = [brk_max EXCEPT ![t] = NVa + 1]
    /\ UNCHANGED <<seg, next_id, att, shm_step, failed>>

MNext == \E t \in ShmTasks :
            \/ sys_shmget(t) \/ MapPage(t) \/ MapFails(t) \/ UnmapPage(t) \/ DropSegment(t)
            \/ shm_task_exit(t) \/ sys_execve(t)
            \/ \E i \in Ids : sys_shmctl(t, i) \/ sys_shmat(t, i)
            \/ \E va \in Vas : sys_shmdt(t, va)
            \/ \E p \in ShmTasks : task_spawn_thread(p, t) \/ task_fork(p, t)
MSpec == MInit /\ [][MNext]_mvars
-----------------------------------------------------------------------------
(* The memory of a segment is not freed while a task can reach a page of it *)
(* and the task that attached it still runs in that page map, whatever      *)
(* IPC_RMID, shmdt, execve and exit do meanwhile.  Not so for what a child  *)
(* of fork inherits and what a thread leaves behind when it exits: nobody   *)
(* counts these, and the segment goes with the attachments of others.       *)
SegmentKept ==
    \A t \in ShmTasks, va \in Vas :
        space[t] # Absent => LET page == map[space[t]][va]
                             IN  (page # Absent /\ page.by # Absent) => seg[page.id].used

(* A segment marked by IPC_RMID is freed with its last attachment: as long  *)
(* as it is there somebody has it attached or is about to count it down.    *)
(* Not so when a shmat of it failed half way.                               *)
RemovedAtLast ==
    \A i \in Ids \ failed : (seg[i].used /\ seg[i].marked) =>
        \/ \E k \in Slots : att[k] # Absent /\ att[k].id = i
        \/ \E t \in ShmTasks : shm_step[t].op \in {"unmap", "drop"} /\ shm_step[t].id = i

(* A segment lives exactly as long as it is attached, with the exceptions   *)
(* above.                                                                   *)
SegmentLifetime == SegmentKept /\ RemovedAtLast
=============================================================================
