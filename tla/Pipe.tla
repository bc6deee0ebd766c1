-------------------------------- MODULE Pipe --------------------------------
(***************************************************************************)
(* The anonymous pipe of syscall/io/pipe.c: a ring of PIPE_BUFSZ bytes      *)
(* under one spinlock, with one waiter slot for readers and one for         *)
(* writers.  A task's call loops over critical sections; between two of     *)
(* them the other tasks run, and a task that finds the ring empty (full)    *)
(* marks itself BLOCKED under the lock and sleeps until a peer, a signal or *)
(* a kill unblocks it.                                                      *)
(***************************************************************************)
EXTENDS Integers, Sequences

CONSTANTS Readers,    \* tasks that hold a descriptor of the read end
          Writers,    \* tasks that hold a descriptor of the write end
          PIPE_BUFSZ, \* slots of the ring; one of them always stays free
          Byte,       \* byte values
          MaxLen,     \* bound: largest length a call asks for
          MaxSent,    \* bound: no write call starts after so many bytes
          NoTask      \* a NULL task pointer

ASSUME BufAssumption == PIPE_BUFSZ \in Nat /\ PIPE_BUFSZ >= 2
ASSUME LenAssumption == MaxLen \in Nat /\ MaxLen >= 1 /\ MaxSent \in Nat
ASSUME ByteAssumption == 0 \in Byte
ASSUME TaskAssumption == /\ NoTask \notin Readers \cup Writers
                         /\ Readers # {} /\ Writers # {}

Tasks == Readers \cup Writers
EINTR == -4
EPIPE == -32

VARIABLES
    buf, head, tail,              \* the ring
    readers, writers,             \* vnodes of each end that are alive
    lock,                         \* the task inside ps->lock, or NoTask
    read_waiter, write_waiter,    \* the two waiter slots
    freed,                        \* pipe_shared_t given back to the heap
    openR, openW,                 \* tasks whose descriptor table holds the end
    pc, blocked, pending_kill,    \* per task: where it is, BLOCKED, killed
    len, done, ret,               \* per task: bytes asked, bytes moved, result
    sent, rcvd                    \* history of bytes accepted and handed out

ring     == <<buf, head, tail>>
ends     == <<readers, writers, openR, openW, freed>>
waiters  == <<read_waiter, write_waiter>>
history  == <<sent, rcvd>>
call     == <<len, done, ret>>
vars     == <<ring, ends, waiters, history, call, lock, pc, blocked, pending_kill>>

Init == /\ buf = [i \in 0 .. PIPE_BUFSZ - 1 |-> 0]
        /\ head = 0 /\ tail = 0
        /\ readers = 1 /\ writers = 1
        /\ lock = NoTask /\ read_waiter = NoTask /\ write_waiter = NoTask
        /\ freed = FALSE
        /\ openR = Readers /\ openW = Writers
        /\ pc = [t \in Tasks |-> "idle"]
        /\ blocked = [t \in Tasks |-> FALSE]
        /\ pending_kill = [t \in Tasks |-> FALSE]
        /\ len = [t \in Tasks |-> 0]
        /\ done = [t \in Tasks |-> 0]
        /\ ret = [t \in Tasks |-> 0]
        /\ sent = <<>> /\ rcvd = <<>>

Empty == head = tail

Advance(i) == (i + 1) % PIPE_BUFSZ

FullUnchecked == FALSE
Full == Advance(tail) = head

(* The task executes its own code at location l. *)
At(t, l) == pc[t] = l /\ ~blocked[t]

Goto(t, l) == pc' = [pc EXCEPT ![t] = l]

(* The call returns r and its locals are gone. *)
Return(t, r) == /\ Goto(t, "idle")
                /\ ret' = [ret EXCEPT ![t] = r]
                /\ len' = [len EXCEPT ![t] = 0]
                /\ done' = [done EXCEPT ![t] = 0]

Stay(t, l) == Goto(t, l) /\ UNCHANGED call

WakeNobody(w) == UNCHANGED blocked

(* pipe_wake_other: empty the slot and task_unblock the task it named. *)
Wake(w) == blocked' = IF w = NoTask THEN blocked ELSE [blocked EXCEPT ![w] = FALSE]

(* The end of pipe_unref_op: both counts, read under the lock, are down. *)
LastEndWhenEither(r, w) == r <= 0 \/ w <= 0
LastEnd(r, w) == r <= 0 /\ w <= 0

Sleep(t) == blocked' = [blocked EXCEPT ![t] = TRUE]
-----------------------------------------------------------------------------
Call(t, open, l) ==
    /\ At(t, "idle") /\ t \in open /\ ~pending_kill[t]
    /\ Goto(t, l)
    /\ \E n \in 1 .. MaxLen : len' = [len EXCEPT ![t] = n]
    /\ ret' = [ret EXCEPT ![t] = 0]
    /\ UNCHANGED <<ring, ends, waiters, history, done, lock, blocked, pending_kill>>

ReadCall(t)  == Call(t, openR, "read")
WriteCall(t) == Len(sent) < MaxSent /\ Call(t, openW, "write")

ReadMayReturn(t) == writers = 0 \/ done[t] > 0

(* The critical section of pipe_read_op that finds the ring empty. *)
ReadEmpty(t) ==
    /\ At(t, "read") /\ lock = NoTask /\ Empty
    /\ \/ /\ ReadMayReturn(t)
          /\ Return(t, done[t])
          /\ UNCHANGED <<read_waiter, blocked>>
       \/ /\ ~ReadMayReturn(t) /\ pending_kill[t]
          /\ Return(t, EINTR)
          /\ UNCHANGED <<read_waiter, blocked>>
       \/ /\ ~ReadMayReturn(t) /\ ~pending_kill[t]
          /\ read_waiter' = t
          /\ Sleep(t)
          /\ UNCHANGED <<pc, call>>
    /\ UNCHANGED <<ring, ends, history, write_waiter, lock, pending_kill>>

(* The critical section of pipe_read_op that finds bytes: lock, copy one byte *)
(* at a time, wake the writer and unlock.                                     *)
ReadLock(t) ==
    /\ At(t, "read") /\ lock = NoTask /\ ~Empty
    /\ lock' = t
    /\ Goto(t, "rcopy")
    /\ UNCHANGED <<ring, ends, waiters, history, call, blocked, pending_kill>>

ReadByte(t) ==
    /\ At(t, "rcopy") /\ done[t] < len[t] /\ ~Empty
    /\ rcvd' = Append(rcvd, buf[head])
    /\ done' = [done EXCEPT ![t] = @ + 1]
    /\ head' = Advance(head)
    /\ UNCHANGED <<buf, tail, ends, waiters, sent, len, ret, lock, pc, blocked, pending_kill>>

ReadUnlock(t) ==
    /\ At(t, "rcopy") /\ (done[t] = len[t] \/ Empty)
    /\ Wake(write_waiter)
    /\ write_waiter' = NoTask
    /\ lock' = NoTask
    /\ IF done[t] = len[t] THEN Return(t, done[t]) ELSE Stay(t, "read")
    /\ UNCHANGED <<ring, ends, read_waiter, history, pending_kill>>
-----------------------------------------------------------------------------
(* The critical section of pipe_write_op that moves nothing: no reader, or a *)
(* full ring.                                                                *)
WriteStuck(t) ==
    /\ At(t, "write") /\ lock = NoTask
    /\ \/ /\ readers = 0
          /\ Return(t, IF done[t] > 0 THEN done[t] ELSE EPIPE)
          /\ UNCHANGED <<write_waiter, blocked>>
       \/ /\ readers # 0 /\ Full /\ pending_kill[t]
          /\ Return(t, IF done[t] > 0 THEN done[t] ELSE EINTR)
          /\ UNCHANGED <<write_waiter, blocked>>
       \/ /\ readers # 0 /\ Full /\ ~pending_kill[t]
          /\ write_waiter' = t
          /\ Sleep(t)
          /\ UNCHANGED <<pc, call>>
    /\ UNCHANGED <<ring, ends, history, read_waiter, lock, pending_kill>>

WriteLock(t) ==
    /\ At(t, "write") /\ lock = NoTask /\ readers # 0 /\ ~Full
    /\ lock' = t
    /\ Goto(t, "wcopy")
    /\ UNCHANGED <<ring, ends, waiters, history, call, blocked, pending_kill>>

WriteByte(t) ==
    /\ At(t, "wcopy") /\ done[t] < len[t] /\ ~Full
    /\ \E b \in Byte : /\ buf' = [buf EXCEPT ![tail] = b]
                       /\ sent' = Append(sent, b)
    /\ done' = [done EXCEPT ![t] = @ + 1]
    /\ tail' = Advance(tail)
    /\ UNCHANGED <<head, ends, waiters, rcvd, len, ret, lock, pc, blocked, pending_kill>>

WriteUnlock(t) ==
    /\ At(t, "wcopy") /\ (done[t] = len[t] \/ Full)
    /\ Wake(read_waiter)
    /\ read_waiter' = NoTask
    /\ lock' = NoTask
    /\ IF done[t] = len[t] THEN Return(t, done[t]) ELSE Stay(t, "write")
    /\ UNCHANGED <<ring, ends, write_waiter, history, pending_kill>>
-----------------------------------------------------------------------------
(* close(2) or exit: the task's reference to the open file goes, and the last *)
(* reference runs pipe_unref_op for that end.                                 *)
CloseRead(t) ==
    /\ At(t, "idle") /\ t \in openR
    /\ openR' = openR \ {t}
    /\ IF openR' # {}
       THEN UNCHANGED <<readers, waiters, blocked, freed>>
       ELSE /\ lock = NoTask
            /\ readers' = readers - 1
            /\ Wake(write_waiter)
            /\ write_waiter' = NoTask
            /\ freed' = LastEnd(readers', writers)
            /\ UNCHANGED read_waiter
    /\ UNCHANGED <<ring, writers, openW, history, call, lock, pc, pending_kill>>

CloseWrite(t) ==
    /\ At(t, "idle") /\ t \in openW
    /\ openW' = openW \ {t}
    /\ IF openW' # {}
       THEN UNCHANGED <<writers, waiters, blocked, freed>>
       ELSE /\ lock = NoTask
            /\ writers' = writers - 1
            /\ Wake(read_waiter)
            /\ read_waiter' = NoTask
            /\ freed' = LastEnd(readers, writers')
            /\ UNCHANGED write_waiter
    /\ UNCHANGED <<ring, readers, openR, history, call, lock, pc, pending_kill>>

(* A deliverable signal unblocks the task and leaves it in its loop. *)
Signal(t) ==
    /\ blocked[t]
    /\ blocked' = [blocked EXCEPT ![t] = FALSE]
    /\ UNCHANGED <<ring, ends, waiters, history, call, lock, pc, pending_kill>>

Kill(t) ==
    /\ ~pending_kill[t]
    /\ pending_kill' = [pending_kill EXCEPT ![t] = TRUE]
    /\ blocked' = [blocked EXCEPT ![t] = FALSE]
    /\ UNCHANGED <<ring, ends, waiters, history, call, lock, pc>>

(* The steps a task takes inside a call. *)
Step(t) == \/ ReadEmpty(t) \/ ReadLock(t) \/ ReadByte(t) \/ ReadUnlock(t)
           \/ WriteStuck(t) \/ WriteLock(t) \/ WriteByte(t) \/ WriteUnlock(t)

Next == \E t \in Tasks : \/ ReadCall(t) \/ WriteCall(t) \/ Step(t)
                         \/ CloseRead(t) \/ CloseWrite(t) \/ Signal(t) \/ Kill(t)

Spec == Init /\ [][Next]_vars

(* The ticket spinlock grants ps->lock in the order of arrival.  A ready    *)
(* task gets a CPU again and again as long as no peer computes without ever *)
(* blocking (the ready queue is last-in first-out, see Sched), and then a    *)
(* step that keeps becoming possible is taken.                              *)
FairSpec == Spec /\ \A t \in Tasks : SF_vars(Step(t))
-----------------------------------------------------------------------------
Locations == {"idle", "read", "rcopy", "write", "wcopy"}

RingType == /\ buf \in [0 .. PIPE_BUFSZ - 1 -> Byte]
            /\ head \in 0 .. PIPE_BUFSZ - 1 /\ tail \in 0 .. PIPE_BUFSZ - 1
            /\ sent \in Seq(Byte) /\ rcvd \in Seq(Byte)
EndsType == /\ readers \in {0, 1} /\ writers \in {0, 1} /\ freed \in BOOLEAN
            /\ openR \in SUBSET Readers /\ openW \in SUBSET Writers
TaskType == /\ pc \in [Tasks -> Locations]
            /\ blocked \in [Tasks -> BOOLEAN] /\ pending_kill \in [Tasks -> BOOLEAN]
            /\ lock \in Tasks \cup {NoTask}
            /\ read_waiter \in Readers \cup {NoTask} /\ write_waiter \in Writers \cup {NoTask}
CallType == /\ len \in [Tasks -> 0 .. MaxLen] /\ done \in [Tasks -> 0 .. MaxLen]
            /\ ret \in [Tasks -> Int]

(* Every variable stays in its type: indices inside the ring, the counts of   *)
(* pipe_shared_t at 0 or 1, no call moves more than it was asked to.          *)
TypeOK == RingType /\ EndsType /\ TaskType /\ CallType

(* pipe_unref_op frees pipe_shared_t only when no task can reach it again:     *)
(* no descriptor is left and no call is in progress.                          *)
NoUseAfterFree ==
    freed => openR = {} /\ openW = {} /\ lock = NoTask /\ \A t \in Tasks : pc[t] = "idle"

(* No lost wakeup: when one task does all the reading and it sleeps in        *)
(* pipe_read_op, then outside critical sections the ring is empty and a       *)
(* writer is left to wake it, whatever signals and kills came in between;     *)
(* and the same for one writing task asleep in pipe_write_op.                 *)
SoleReaderNotLost ==
    \A t \in Readers : (Readers = {t} /\ blocked[t] /\ pc[t] = "read" /\ lock = NoTask)
                          => Empty /\ writers # 0
SoleWriterNotLost ==
    \A t \in Writers : (Writers = {t} /\ blocked[t] /\ pc[t] = "write" /\ lock = NoTask)
                          => Full /\ readers # 0
SoleSleeperNotLost == SoleReaderNotLost /\ SoleWriterNotLost

(* A read returns 0 only at end of file: the write end is gone and every byte *)
(* that was accepted has been handed out.                                     *)
ZeroMeansEof ==
    [][\A t \in Tasks : (pc[t] = "read" /\ pc'[t] = "idle" /\ ret'[t] = 0)
                           => writers = 0 /\ rcvd = sent]_vars

(* The pipe implements the bounded first-in first-out channel of PipeSpec.    *)
Fifo == INSTANCE PipeSpec WITH Capacity <- PIPE_BUFSZ - 1,
                               rdOpen <- readers # 0, wrOpen <- writers # 0
ImplementsFifo == Fifo!Spec

(* A call comes back.  "once every writer has closed it, the read returns 0"  *)
(* (man2/pipe.2): a read in progress when the last writer is gone; a read,     *)
(* asleep or on its way into pipe_read_op, when there are bytes in the ring;   *)
(* and a write in progress when the last reader is gone.                      *)
CallsReturn ==
    /\ \A t \in Readers : (writers = 0 /\ pc[t] \in {"read", "rcopy"}) ~> (pc[t] = "idle")
    /\ \A t \in Readers : (~Empty /\ pc[t] = "read") ~> (pc[t] = "idle")
    /\ \A t \in Writers : (readers = 0 /\ pc[t] \in {"write", "wcopy"}) ~> (pc[t] = "idle")
-----------------------------------------------------------------------------
(* The inductive invariant behind the safety properties.                      *)

(* An end is counted while a descriptor of it is left, and the structure is    *)
(* freed only after both ends.                                                *)
CountInv ==
    /\ readers # 0 <=> openR # {}
    /\ writers # 0 <=> openW # {}
    /\ freed => readers = 0 /\ writers = 0

(* A task inside a call keeps its descriptor, the copying task and no other    *)
(* holds the lock, and only a call sleeps.                                     *)
TaskInv(t) ==
    /\ pc[t] \in {"read", "rcopy"} => t \in openR
    /\ pc[t] \in {"write", "wcopy"} => t \in openW
    /\ pc[t] \in {"rcopy", "wcopy"} <=> lock = t
    /\ pc[t] = "wcopy" => readers # 0
    /\ blocked[t] => pc[t] \in {"read", "write"}

CallsInv == CountInv /\ \A t \in Tasks : TaskInv(t)

(* Bytes in flight, and the slot of the i-th oldest of them.                  *)
Gap     == IF tail >= head THEN tail - head ELSE tail - head + PIPE_BUFSZ
Slot(i) == IF head + i >= PIPE_BUFSZ THEN head + i - PIPE_BUFSZ ELSE head + i

(* The ring holds exactly the bytes accepted and not yet handed out, in order, *)
(* and those handed out are the first ones accepted.                           *)
RingInv ==
    /\ Len(sent) = Len(rcvd) + Gap
    /\ \A i \in 0 .. PIPE_BUFSZ - 1 : i < Gap => buf[Slot(i)] = sent[Len(rcvd) + 1 + i]
    /\ \A i \in 1 .. Len(rcvd) : rcvd[i] = sent[i]

(* A lone sleeper is in its slot, and what it waits for has not come true      *)
(* except inside the critical section that is about to wake it.                *)
ReaderSleeps(t) == Readers = {t} /\ blocked[t] /\ pc[t] = "read"
    => read_waiter = t /\ writers # 0 /\ (Empty \/ \E u \in Tasks : pc[u] = "wcopy")
WriterSleeps(t) == Writers = {t} /\ blocked[t] /\ pc[t] = "write"
    => write_waiter = t /\ readers # 0 /\ (Full \/ \E u \in Tasks : pc[u] = "rcopy")
SleepInv == (\A t \in Readers : ReaderSleeps(t)) /\ (\A t \in Writers : WriterSleeps(t))

(* TypeOK with what makes it inductive: the ring, the calls and the sleepers.  *)
IInv == TypeOK /\ CallsInv /\ RingInv /\ SleepInv
=============================================================================
