----------------------------- MODULE Speculation -----------------------------
(***************************************************************************)
(* A speculation region (kernel/src/sched/spec.c): a worker on another CPU  *)
(* runs a function on a copy of some memory while the caller goes on with   *)
(* the original, and spec_commit merges the pages the worker has changed or *)
(* refuses.  A step of the function reads one byte and stores the next      *)
(* value into another; it reads inside the read-set it was declared with,   *)
(* or what it has stored itself.  The caller makes its calls in any order:  *)
(* it may abort while the worker runs and launch again, and then the old    *)
(* worker goes on, on the same copy.                                        *)
(***************************************************************************)
EXTENDS Naturals, Sequences, SequencesExt

CONSTANTS SPEC_PAGE,        \* bytes of a page
          Length,           \* bytes of the region, the last page may be short
          Values,           \* a byte is 0 .. Values - 1
          Contents,         \* what the memory may hold at the start
          MaxOps, MaxWrites, MaxRuns

VARIABLES master, base, shadow,
          s_state, done, read_lo, read_hi,
          refused,          \* conflicts > 0
          running,          \* the launches whose worker has not come to its end
          ops,              \* history: the steps of the last worker, <<read, written>>
          overlapped,       \* history: an earlier worker ran at the last launch
          writes, runs
svars == <<master, base, shadow, s_state, done, read_lo, read_hi, refused, running, ops, overlapped,
           writes, runs>>

Bytes == 0 .. Length - 1
Blank == [b \in Bytes |-> 0]
PageOf(b) == b \div SPEC_PAGE
Pages == {PageOf(b) : b \in Bytes}

SpInit == /\ master \in Contents /\ base = Blank /\ shadow = Blank
          /\ s_state = "IDLE" /\ done = FALSE /\ read_lo = 0 /\ read_hi = 0
          /\ refused = FALSE /\ running = {} /\ ops = <<>> /\ overlapped = FALSE
          /\ writes = 0 /\ runs = 0

copies == <<base, shadow>>
readset == <<read_lo, read_hi>>
worker == <<running, ops, overlapped>>
limits == <<writes, runs>>
-----------------------------------------------------------------------------
(* spec_launch; without memory for the worker the region is idle again.     *)
spec_launch == /\ s_state # "RUNNING" /\ runs < MaxRuns /\ runs' = runs + 1
               /\ base' = master /\ shadow' = master
               /\ read_lo' \in 0 .. Length /\ read_hi' \in 0 .. Length
               /\ done' = FALSE /\ refused' = FALSE
               /\ \/ s_state' = "RUNNING" /\ running' = running \cup {runs'}
                  \/ s_state' = "IDLE" /\ UNCHANGED running
               /\ ops' = <<>> /\ overlapped' = (running # {})
               /\ UNCHANGED <<master, writes>>

(* The function, one step at a time, and its end.  Of an earlier worker,    *)
(* which reads and writes the same copy, any step is possible.              *)
Store(m, op) == [m EXCEPT ![op[2]] = (m[op[1]] + 1) % Values]
MayRead(b) == (read_lo <= b /\ b < read_hi) \/ \E i \in DOMAIN ops : ops[i][2] = b
WorkerStep == /\ runs \in running /\ Len(ops) < MaxOps
              /\ \E b, c \in Bytes : /\ MayRead(b)
                                     /\ shadow' = Store(shadow, <<b, c>>)
                                     /\ ops' = Append(ops, <<b, c>>)
              /\ UNCHANGED <<master, base, s_state, done, readset, refused, running, overlapped, limits>>
EarlierStep == /\ running \ {runs} # {}
               /\ \E b, c \in Bytes : shadow' = Store(shadow, <<b, c>>)
               /\ UNCHANGED <<master, base, s_state, done, readset, refused, running, ops, overlapped,
                              limits>>
WorkerDone == \E r \in running :
              /\ running' = running \ {r} /\ done' = TRUE
              /\ UNCHANGED <<master, copies, s_state, readset, refused, ops, overlapped, limits>>

MainWrites == /\ writes < MaxWrites /\ writes' = writes + 1
              /\ \E b \in Bytes, v \in 0 .. Values - 1 : master' = [master EXCEPT ![b] = v]
              /\ UNCHANGED <<copies, s_state, done, readset, refused, worker, runs>>

(* spec_poll and spec_wait; a wait that times out changes nothing.          *)
spec_poll == /\ done /\ s_state = "RUNNING" /\ s_state' = "DONE"
             /\ UNCHANGED <<master, copies, done, readset, refused, worker, limits>>
spec_wait == /\ done /\ s_state' = "DONE"
             /\ UNCHANGED <<master, copies, done, readset, refused, worker, limits>>

(* The pages in which two memories differ, and those of the read-set.       *)
Differ(m, n) == {PageOf(b) : b \in {c \in Bytes : m[c] # n[c]}}
PageEnd(p) == IF (p + 1) * SPEC_PAGE < Length THEN (p + 1) * SPEC_PAGE ELSE Length
ReadPages == {p \in Pages : read_hi > p * SPEC_PAGE /\ read_lo < PageEnd(p)}
ConflictsOfWrites == Differ(master, base) \cap Differ(shadow, base)
Conflicts == Differ(master, base) \cap (Differ(shadow, base) \cup ReadPages)
Merged == [b \in Bytes |-> IF PageOf(b) \in Differ(shadow, base) THEN shadow[b] ELSE master[b]]
spec_commit == /\ s_state = "DONE"
               /\ IF refused \/ Conflicts # {}
                  THEN refused' = TRUE /\ UNCHANGED <<master, s_state>>
                  ELSE master' = Merged /\ s_state' = "COMMITTED" /\ UNCHANGED refused
               /\ UNCHANGED <<copies, done, readset, worker, limits>>
spec_abort == /\ s_state' = "ABORTED"
              /\ UNCHANGED <<master, copies, done, readset, refused, worker, limits>>

SpNext == \/ spec_launch \/ WorkerStep \/ EarlierStep \/ WorkerDone \/ MainWrites
          \/ spec_poll \/ spec_wait \/ spec_commit \/ spec_abort
SpSpec == SpInit /\ [][SpNext]_svars
-----------------------------------------------------------------------------
(* "speculation is always safe" (README): what spec_commit puts into memory *)
(* is what the function would compute if it ran at that moment, from what   *)
(* the caller has written meanwhile, and no write of the caller is lost;    *)
(* also after an abort, a failed launch and another launch.  A store that   *)
(* does not change a byte does not count as one, on either side.  The       *)
(* exception is a region that was aborted and launched again while a worker *)
(* of an earlier launch was running: it writes into the copy of the new     *)
(* one, and its end counts as the end of the new one.                       *)
Effect(m) == FoldLeft(Store, m, ops)
CommitStep ==
    (s_state = "DONE" /\ s_state' = "COMMITTED" /\ ~overlapped) =>
        \A b \in Bytes : master'[b] = IF Effect(base)[b] # base[b] THEN Effect(master)[b]
                                                                  ELSE master[b]
CommitSerial == [][CommitStep]_svars
=============================================================================
