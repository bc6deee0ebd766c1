------------------------------- MODULE MCTasks -------------------------------
(***************************************************************************)
(* Twelve components that tasks and interrupts work on at the same time but *)
(* that share no state: sleeping, wait, the reader-writer lock, kmalloc,    *)
(* the page allocator, open files, record locks, shared memory, eventfds,   *)
(* timerfds, speculation regions and signals.  A behaviour is one of one of *)
(* them, the one in part, from its own initial state, and the variables of  *)
(* the others do not change.  The page allocator and speculation regions    *)
(* take turns with the variables s1 .. s13; the ones a component does not   *)
(* need are 0.                                                              *)
(***************************************************************************)
EXTENDS Slab, Sleep, Files, Flock, Wait, Rwlock, Shm, Eventfd, Timerfd, Signal, TLC

CONSTANTS Regions, FREE_MIN, MAX_ORDER, Limits,
          SPEC_PAGE, Length, ByteValues, Contents, MaxOps, CallerWrites, MaxRuns,
          p1, p2

VARIABLES part, s1, s2, s3, s4, s5, s6, s7, s8, s9, s10, s11, s12, s13

B == INSTANCE Buddy WITH orders <- s1, free_pages <- s2, owned <- s3
P == INSTANCE Speculation WITH Values <- ByteValues, MaxWrites <- CallerWrites,
                               master <- s1, base <- s2, shadow <- s3, s_state <- s4,
                               done <- s5, read_lo <- s6, read_hi <- s7, refused <- s8,
                               running <- s9, ops <- s10, overlapped <- s11, writes <- s12, runs <- s13

TwoMore == {init, p1, p2}
TheWords == {"readers"}
TwoRegions == {<<0, 7>>, <<8, 13>>}
SomeContents == {[b \in 0 .. Length - 1 |-> 0], [b \in 0 .. Length - 1 |-> b % 2]}
SomePrograms == {<<{"sleep", "kernel"}, {"sleep"}>>,
                 <<{"futex"}, {"itimer"}>>,
                 <<{"itimer"}, {"itimer"}>>}
SomeActions == {[handler |-> "IGN", mask |-> {}, flags |-> {}],
                [handler |-> "fn", mask |-> {1, 9, 17}, flags |-> {}],
                [handler |-> "fn", mask |-> {}, flags |-> {"NODEFER", "RESETHAND"}]}
SomeMasks == {{1, 9}}
SomeCallSets == {{"sigaction", "mask"}, {"mask", "tty"}, {"mask", "signalfd"}}

(* The variables that are left over by a component with fewer.               *)
From4 == /\ s4 = 0 /\ s5 = 0 /\ s6 = 0 /\ s7 = 0 /\ s8 = 0 /\ s9 = 0 /\ s10 = 0 /\ s11 = 0
         /\ s12 = 0 /\ s13 = 0
From1 == s1 = 0 /\ s2 = 0 /\ s3 = 0 /\ From4
after3 == <<s4, s5, s6, s7, s8, s9, s10, s11, s12, s13>>
shared == <<s1, s2, s3, after3>>
own == <<zvars, svars, fvars, lvars, pvars, rvars, mvars, evars, tvars, gvars>>

Init == /\ ZInit /\ SInit /\ FInit /\ LInit /\ PInit /\ RInit /\ MInit /\ EInit /\ TInit /\ GInit
        /\ \/ part \in {"sleep", "slab", "files", "locks", "wait", "rwlock", "shm", "eventfd",
                      "timerfd", "signal"} /\ From1
           \/ part = "buddy" /\ B!BInit /\ From4
           \/ part = "spec" /\ P!SpInit
        /\ part # "sleep" => calls = CHOOSE c \in Programs : TRUE
        /\ part # "eventfd" => count = 0 /\ ~semaphore
        /\ part # "signal" => program = CHOOSE p \in CallSets : TRUE

Next == /\ part' = part
        /\ \/ part = "sleep" /\ ZNext
              /\ UNCHANGED <<svars, fvars, lvars, pvars, rvars, mvars, evars, tvars, gvars, shared>>
           \/ part = "slab" /\ SNext
              /\ UNCHANGED <<zvars, fvars, lvars, pvars, rvars, mvars, evars, tvars, gvars, shared>>
           \/ part = "files" /\ FNext
              /\ UNCHANGED <<zvars, svars, lvars, pvars, rvars, mvars, evars, tvars, gvars, shared>>
           \/ part = "locks" /\ LNext
              /\ UNCHANGED <<zvars, svars, fvars, pvars, rvars, mvars, evars, tvars, gvars, shared>>
           \/ part = "wait" /\ PNext
              /\ UNCHANGED <<zvars, svars, fvars, lvars, rvars, mvars, evars, tvars, gvars, shared>>
           \/ part = "rwlock" /\ RNext
              /\ UNCHANGED <<zvars, svars, fvars, lvars, pvars, mvars, evars, tvars, gvars, shared>>
           \/ part = "shm" /\ MNext
              /\ UNCHANGED <<zvars, svars, fvars, lvars, pvars, rvars, evars, tvars, gvars, shared>>
           \/ part = "eventfd" /\ ENext
              /\ UNCHANGED <<zvars, svars, fvars, lvars, pvars, rvars, mvars, tvars, gvars, shared>>
           \/ part = "timerfd" /\ TNext
              /\ UNCHANGED <<zvars, svars, fvars, lvars, pvars, rvars, mvars, evars, gvars, shared>>
           \/ part = "signal" /\ GNext
              /\ UNCHANGED <<zvars, svars, fvars, lvars, pvars, rvars, mvars, evars, tvars, shared>>
           \/ part = "buddy" /\ B!BNext /\ UNCHANGED <<own, after3>>
           \/ part = "spec" /\ P!SpNext /\ UNCHANGED own

(* The variables of the part that moves, by which the search tells states   *)
(* apart, with four reductions: states of the open files that differ in    *)
(* the names of the tasks are one (only FInit tells the tasks apart), and   *)
(* so are states that differ in what no step or property reads again: the   *)
(* variables sys_wait has left behind in its caller, the object a task has *)
(* last slept on and the set of accepted signals once an update of the      *)
(* pending set is lost, the bounds of the read-set of a speculation beyond  *)
(* the bytes and pages in it, and all of a speculation from which no commit *)
(* of its last launch can come that CommitSerial is about.                  *)
Renamed(r) == [t \in FileTasks |->
                 <<IF table_of[r[t]] = None THEN None ELSE CHOOSE u \in FileTasks : r[u] = table_of[r[t]],
                   entries[r[t]], cloexec[r[t]], f_step[r[t]], hand[r[t]], f_arg[r[t]], then[r[t]]>>]
InFiles == <<refcount, vnode, vrefs, inbox, f_raced, {Renamed(r) : r \in Permutations(FileTasks)}>>
InWait == [p \in Procs |-> IF p_pc[p] \in {"user", "exit", "wakeup", "sigchld", "leave", "dead"}
                           THEN <<>> ELSE <<arg[p], intr[p]>>]
InSignal == <<program, sig_pending, sig_blocked, sigaction, g_pending_kill, frames, sender, tty, sfd, g_asked,
              IF task.at \in {"tty2", "block", "blocked", "woken"} THEN task ELSE [task EXCEPT !.in = "tty"],
              IF seen.lost THEN <<seen.missed>> ELSE seen>>
NoCommit == s13 = MaxRuns /\ (s8 \/ s11 \/ (~s5 /\ s9 = {}))
InSpec == IF NoCommit THEN <<>>
          ELSE <<s1, s2, s3, s4, s5, s8, s9, s10, s11, s12, s13,
                 {b \in P!Bytes : s6 <= b /\ b < s7}, P!ReadPages>>
Moving == <<part, CASE part = "sleep" -> zvars
                    [] part = "slab" -> svars
                    [] part = "files" -> InFiles
                    [] part = "locks" -> lvars
                    [] part = "wait" -> <<psched, family, wait_for_pid, p_kill, p_pc, zombie, InWait>>
                    [] part = "rwlock" -> rvars
                    [] part = "shm" -> mvars
                    [] part = "eventfd" -> evars
                    [] part = "timerfd" -> tvars
                    [] part = "signal" -> InSignal
                    [] part = "spec" -> InSpec
                    [] OTHER -> shared>>

Spec == Init /\ [][Next]_<<part, own, shared>>
-----------------------------------------------------------------------------
(* Free and allocated pages never overlap and none is lost                  *)
(* (_buddy_alloc_order, _buddy_free_order); free_pages is never too low.    *)
PagesAccounted == part = "buddy" => B!PagesAccounted

(* spec_commit merges what the function would compute if it ran then.       *)
CommitSerial == [][part = "spec" => P!CommitStep]_<<part, shared>>
=============================================================================
