# Verification of Cervus

TLA+ models of the parts of Cervus in which several actors meet, TLC runs that
check them on small instances, and TLAPS proofs of most of what the runs check,
for every size. Paths are relative to the repository; `K/` stands for
`kernel/src/`.

1. The system
2. Modules and the code they model
3. What the runs check
4. What is proved
5. What is not modelled
6. Observations about the code

## 1. The system

Cervus is a monolithic x86_64 kernel with its own C library and tools. User
tasks enter it by `syscall` with interrupts off; timer and device interrupts
arrive on every CPU; `sched_reschedule` switches tasks. Almost every blocking
call has one shape: take a spinlock, look at a condition, store the task in a
waiter slot, set `runnable = false` and `state = TASK_BLOCKED`, drop the lock
and reschedule. The waking side empties the slot and calls `task_unblock`, which
does nothing unless the task is BLOCKED. What can go wrong is in the order of
these stores: some calls make them under the lock (pipes, futexes, TCP), some
after it (eventfd, the terminal), and `sys_wait` with no lock at all.

Components meet in four places. Pipes, futexes, sockets, timers and `sys_wait`
all sleep and wake through the scheduler: `Sched` models `task_unblock` and the
switch in full, the others use its interface (BLOCKED or not). The C library
meets the kernel in the futex: `Pthread` and `Rwlock` extend `Futex`. The
read-write lock holds a mutex: `Rwlock` uses the abstract `MutexSpec`, which
`Pthread` is shown to implement. Signals reach tasks that sleep: every module
with a sleeper lets signals and kills arrive at any point of the call.

## 2. Modules and the code they model

| module | code | granularity |
|---|---|---|
| `Sched` | `K/sched/sched.c`, `sched_asm.asm`: ready queues, switch, `task_unblock`, exit, deferred free | every access another CPU can fall between is a step |
| `Wait` | `K/syscall/process/wait.c`, `task_exit`, `task_wakeup_waiters` | likewise, with interrupts on after the first reschedule inside the call |
| `Pipe`, `PipeSpec` | `K/syscall/io/pipe.c`; man2/pipe.2 | a critical section is a step; the copy loop goes byte by byte under the lock |
| `Futex` | `K/syscall/mem/futex.c` | each call is one step under `g_futex_lock` |
| `Pthread`, `MutexSpec` | `usr/lib/libcervus/pthread/pthread.c`: mutexes and conditions | each atomic access is a step; producers and consumers are the clients |
| `Rwlock` | the same: read-write locks | each access to the counter, over `Futex` and `MutexSpec` |
| `Sleep` | `K/sched/sched.c`: sleeps, alarms, the scan of the timer interrupt | each task of the scan is a step |
| `Signal` | `K/signal/signal.c`, `K/fs/devfs.c`, signalfd | reads and writes of `sig_pending` are steps of their own |
| `Eventfd`, `Timerfd` | `K/syscall/io/eventfd.c` | critical sections, and the two stores after them |
| `Files` | `K/fs/vfs.c`, `fcntl.c`: open files, descriptor tables | tests, claims and counts are steps of their own |
| `Flock` | `K/fs/flock.c`: record locks | the test and the insertion are two holds of the lock |
| `Shm` | `K/syscall/mem/shm.c` | record, page tables and count change in separate steps |
| `Slab`, `Buddy` | `K/memory/pmm.c` | holds of `g_slab_lock`; an operation of the page allocator is a step |
| `Speculation` | `K/sched/spec.c` | a step of the worker, a write of the caller |
| `WriteBack` | `K/fs/ext2.c`: block cache | one step per operation, since `fs_lock` is held throughout |
| `Ext2` | `K/fs/ext2.c`: bitmaps, inodes, directories; `K/fs/vfs.c`, `K/syscall/fs/` | an operation of a vnode is a step, a system call several |
| `Journal` | `K/fs/jbd2.c` | the writes between two flushes are a step; a crash falls anywhere in them |
| `Tcp` | `K/net/tcp.c` | one step per handler |
| `Unix` | `K/net/unix.c` | holds of `g_ulock` |
| `Frag` | `K/net/ip.c`, `ip_frag.c` | one step per packet |
| `MC…` | | constants for TLC, and the composition of components that share a run |
| `…Proofs`, `TcpLemmas` | | theorems |

Definitions keep the names of the source; `PROJECT.json` gives the lines each one
stands for. What follows says how state and steps correspond where that is not
obvious.

**Sched.** The variables are the fields of `task_t` and the per-CPU area. A CPU
goes through `sched_reschedule` in the steps *enter* (put the old task back),
*pick* (claim a task by compare-and-swap on `on_cpu`), *retire* (defer the free
of an exited orphan), *switch* (stack and `current_task`), *release* (the store
of `on_cpu` at the end of `context_switch`) and *resume*. A waker goes through
`task_unblock` in four: the test, the two stores, the enqueue. No waker is assumed
to hold a lock: a pipe or a futex does, `signal_send`, `task_kill`, the timer and
`unix.c` do not. The history variable `overtaken` is the set of tasks that slept
again or exited while a waker had a store still to make for the sleep before;
`Steady` are the others.

**Wait.** `sys_wait` scans its children under `children_lock`, then stores
`wait_for_pid`, `runnable` and BLOCKED with no lock. `task_exit` reparents,
becomes a zombie, wakes the waiters, sends SIGCHLD and leaves its CPU. The
scheduler is reduced to: a runnable task gets one of `NCPU` CPUs.

**Pipe.** Tasks loop over critical sections, sleep in the slots, are signalled
and killed, and close their ends. `sent` and `rcvd` are history variables. The
refinement mapping to `PipeSpec` is the identity on them and "count not zero" on
the ends.

**Futex, Pthread, Rwlock.** `futex_wait` returns at once if the word has another
value or the table is full, and may return without a wake (signals); the library
loops. A recursive mutex keeps `owner` and `count` beside the word. The sequence
word of a condition is counted modulo `SeqMod`, 2^32 in the code.

**Sleep.** `wakeup_time` and `alarm_at` are the deadlines in the tasks; `earliest_wakeup`
and `earliest_alarm` are what the timer interrupt compares with the clock before it scans. A
scan goes task by task, collects at most `WakeMax` sleepers and `AlarmMax`
alarms, and stores the next deadline over whatever is there. The history variable
`unseen` is the set of deadlines that were published during a scan, or by
`futex_wait` never, and that no scan has come across since.

**Signal.** One task with its masks, handlers and frames, any senders. A sender
reads `sig_pending` in one step and writes it in another. The two stores that
block a reader of the terminal (`runnable`, then BLOCKED) are one step: nothing
looks at the first alone. A full queue of a signalfd drops the signal, which then
counts as taken; `sfd_read` is ended by a kill only.

**Files, Flock, Shm.** A descriptor table may be shared; an open file has a count
and a vnode. The steps of the code that run without a lock are steps of the
model, and a history variable counts the races that hit, so that a property can
say what holds without them. A lock of a range is an entry of `g_locks`, `asked`
is what the last calls of each owner mean byte by byte. A segment is one page;
`page.by` is the task whose attachment a page comes from, or nobody for what a
child of fork inherits and what a thread leaves.

**Slab, Buddy.** One size class: slabs are records of the objects handed out, in
the partial list, the full list or neither. The buddy lists are sets of block
addresses by order; `owned` is the blocks the callers have.

**Speculation.** Regions of `Length` bytes in pages; a function is a sequence of
reads and writes inside the set it declared, computed on a copy. `running` is the
set of launches whose worker has not ended: an abort does not end it.

**WriteBack.** `disk` is the device, `buf`, `dirty` and `ndirty` the slots, `ra`
the read-ahead buffers. Each action takes the set of blocks the device accepted
and the set that was marked clean, so that any transfer may fail. `bad` collects
the blocks of which a write was refused and given up; the properties leave them
out. `Remount` is a crash followed by a mount. A file system with a journal has
no persistent cache: `wb_begin` and `wb_end` bracket one.

**Ext2.** The disk is a record; a vnode operation is a function of it, built like
the code from `alloc_block`, `set_block_num`, `free_block` and the rest. A system
call keeps inode numbers between holds of `fs_lock`; `stale` remembers which of
them were freed meanwhile, `spoiled` that one was used, or a directory with
entries removed, or an entry lost for want of a table block.

**Journal.** `jdisk` is what survives and `pend` the writes since the last flush:
a crash keeps a prefix of them or, on a device that reorders, any selection.
`jbd2_pass` walks the log record by record. `okHome` is what the home blocks may
hold. The kernel's own transactions need `jbd2_write_enabled`, a global that
nothing sets; the model has it TRUE.

**Tcp.** Two ends and a set of segments that only grows: a segment may be
delivered never, once or often, in any order. Sequence numbers are modulo `SEQ`.
A handler is one step. This is an abstraction: the code drops `t->lock` to
transmit, and `tcp_output` reads `rcv_nxt` and `rcv_count` without it, so that
another CPU may change the block between the decision to send and the segment.
Those interleavings are not explored. Time is left open: an armed timer may fire
at any moment, and any duplicate ACK may be the third. The congestion window is
one segment or wide.

**Unix, Frag.** Sockets point to each other (`peer`, the accept queue); a freed
one must not be pointed to. A message is one item, with or without a descriptor.
A datagram is its identifier and length; a fragment is an offset; a slot is a
bitmap of the chunks it has.

## 3. What the runs check

Six runs pass. Six runs end in a counterexample: each states what a manual
page, a comment or a message of the repository says, and shows a behaviour of the
code that disagrees. `PROJECT.json` lists the properties of each run, one mutant
of the model per property that makes it fail, and the findings.

| run | instance | shows |
|---|---|---|
| `pipe` | one reader, one writer, ring of 3 slots, calls of up to 3 bytes, 3 bytes in all; signals, kills | the pipe is the FIFO of `PipeSpec`; it is freed once and not used after; a lone sleeper is never lost; data, end of file and broken pipe reach the other end, and every call returns |
| `sched` | 2 CPUs, 2 tasks of different priorities, one waker without a lock, one orphan | a task is on one CPU and queued once; unless overtaken by a waker it does not return from its exit, keeps its stack while a CPU uses it and is not lost; it runs in the end once queued unless rivals keep coming |
| `pthread` | one producer, two consumers, recursive mutex, 2 futex slots for 3 threads, signals, 2 items | no forgotten sleeper, no lost signal, implements `MutexSpec`; the mutex moves on; items are taken |
| `tasks` | `Wait`, `Rwlock`, `Sleep`, `Slab`, `Buddy`, `Files`, `Flock`, `Shm`, `Eventfd`, `Timerfd`, `Speculation`, `Signal` | the thirteen invariants named after what they promise, and that a commit of a speculation equals a serial execution |
| `storage` | `WriteBack` with 3 blocks and 2 slots; `Journal` with logs of one transaction or of two across the end of the log, and two crashes; `Ext2` with 7 blocks and 4 inodes, two tasks, 4 calls | a block reads as last written, a sync that the device takes is complete, a crash leaves contents the block has had; a mount finds all of a transaction or nothing; bitmaps, counts, inodes and names agree |
| `sockets` | `Tcp`: the server sends 3 bytes to the client, buffers of 2, segments of 1 or 2, one slot for early segments, 32 sequence numbers starting just below the wrap, one retransmission, the server may give up; `Unix`: 3 sockets; `Frag`: 3 datagrams, 2 slots, 3 identifiers | the client reads a prefix of what was sent, a byte leaves the send buffer only when the peer has it, nobody sleeps over something to do; no pointer dangles; a datagram is delivered as it was sent |
| `sched_exit` (violation) | 2 CPUs, 2 tasks, two wakers without a lock | `ExitIsFinal` fails: a stale `task_unblock` revives a zombie |
| `wait_lost` (violation) | init and two processes, no signals | `ExitNoticed` fails: the child exits between the scan and the store of BLOCKED |
| `rwlock_lost` (violation) | 4 threads, 3 futex slots | `WriterNotForgotten` fails: the second load of `readers` makes the writer sleep on 0 |
| `ext2_sync` (violation) | 3 blocks, 2 slots | `SuperSynced` fails: `fs->dirty` is cleared though the superblock was refused |
| `tcp_close` (violation) | as in `sockets` | `CloseSeen` fails: the ACK of data is taken for the ACK of a FIN that was not sent |
| `files` (violation) | 2 tasks, 2 open files | `LetGoLast` fails: the last close clears the vnode of a file opened meanwhile in its slot |

**Composition.** The parts of `tasks`, `storage` and `sockets` share no state.
`part` names the one that moves in a behaviour, from its own initial state; the
variables of the others stay as they are. In `MCTasks` the two components that
are instances (`Buddy`, `Speculation`) take turns with the variables `s1` to
`s13`, and those a component does not need are 0.

**Exceptions.** Where the code has a race that does happen, the property names it
and says what holds otherwise:

- `OnlyOvertakenReturn`, `StackInUse`, `NotLost`: a task that exits or sleeps again
  while a waker is between the test and the last store of `task_unblock`. The run
  `sched_exit` shows what then happens at an exit; a task that slept again is left
  READY but not runnable, so that the ready queue drops it and every later
  `task_unblock` passes it by.
- `DeadlinesKept`: a deadline published while the timer's scan is going on may be
  overwritten by the end of the scan, and a timed `futex_wait` does not publish its
  deadline at all (`K/syscall/mem/futex.c:74`). Both are missing in the cached word
  until a scan that another deadline has started passes the task.
- `NoConflict`: a record lock inserted after a test that does not hold any more.
- `FilesKept`: a claim of `vfs_file_alloc` that met a slot another task was using
  (`LetGoLast` in the run `files` shows one). F_DUPFD, which enters the descriptor
  before it counts it, is no exception: the counts stay exact, and only the call
  itself can be left with a file that was let go, of which it uses no more than
  the count.
- `SegmentLifetime`: pages a child of fork inherits and pages a thread leaves
  behind are counted by nobody; a `shmat` that fails half way does not free a
  segment marked meanwhile.
- `EventNotMissed`: a write between the reader's entry into the slot and BLOCKED,
  and a second reader that takes the slot.
- `SignalsKept`: two overlapping updates of `sig_pending`.
- `ReadInterrupted`: a wakeup between the last look and BLOCKED; a switch of
  terminals, which wakes nobody.
- `SleepersWaitForPeer`: the client of a connection whose listener closed before
  it was accepted. A task asleep for a descriptor is not in the property: a close
  does not wake it.
- `ReassembledAsSent`: two datagrams with one identifier in a slot.
- `AllOrNothing`: a recovery cut short on a device that reorders its cache; a
  transaction that does not fit the log, whose blocks are written in their places
  without it (`K/fs/jbd2.c:295`), so that a crash may leave any part of them.
- `CommitSerial`: a region that was aborted while its worker ran and launched
  again before the worker had ended. The old worker writes into the new copy, and
  its end lets `spec_wait` and `spec_commit` take half a result.
- `StructuresAgree`: an operation on an inode freed since it was looked up, the
  removal of a directory with entries, an entry lost for want of a table block.
- `QueuedRuns`: rivals that are queued again and again.
- `SoleSleeperNotLost`: two tasks on one end of a pipe, where the second sleeper
  overwrites the first in `read_waiter` (`K/syscall/io/pipe.c:54`).

**Bounds.** They are small and chosen so that each hard case occurs. The ring of
the pipe fills, empties and wraps inside one call. With two CPUs and two tasks a
CPU is left, claimed, idle and contended. Three processes are the fewest with a
parent that exits before its child. The futex table is one slot short of the
threads, so it overflows. Both arrays of the timer's scan hold one task, so that
two sleepers due at once overflow them. The table of record locks has three
entries for two owners and three bytes: a split finds it full. Three slabs on
three CPUs let one CPU empty a slab while another makes one and a third waits.
The two memory regions of `Buddy` have unaligned ends. Two slots for three blocks
force evictions, of dirty blocks too. The log of the journal wraps inside a
transaction, and so do its sequence numbers. Seven blocks are fewer than a file
with a double indirect block and a directory need, so the disk fills at every
point of a growing file. Three bytes through two-byte buffers fill both buffers,
probe a closed window, come early, overlap after a retransmission and cross the
wrap of the sequence numbers. Only the server writes, and only it retransmits
(`MaxRewinds`): data in both directions makes more states than can be searched.
The identifiers of `Frag` wrap after three datagrams. One sender of signals is
enough for the run, since the task itself updates `sig_pending` too; the proof is
for any number, and so are those of `Sched`, whose run has one waker without a
lock (the run `sched_exit` has two). A region of `Speculation` is launched twice,
so that a worker survives the abort of its launch; a function makes two steps and
the caller one write.

**View and symmetry.** `tasks`, `storage` and `sockets` are searched by the
variables of the part that moves, since the others stay as they are. Six things are left
out of these because no step and no property of the run reads them again:
`super` (`storage`); what `sys_wait` has left in `arg` and `intr` of its caller;
what a task last slept on, once it is awake; the set of accepted signals, once an
update of the pending set is lost; the bounds of a read-set beyond the bytes and
pages in it; and all of a region once no commit of its last launch can come that
`CommitSerial` is about (`tasks`). States of `Files` that
differ in the names of the two tasks are searched once: only the initial state
tells the tasks apart. Symmetry is used where threads, CPUs, blocks, names or
tasks are interchangeable (`storage`, `rwlock_lost`, `sched_exit`, `ext2_sync`),
and never with a liveness property.

**Deadlock** is not checked where the system may stop for good: all tasks have
exited, no thread calls again, the connection is over, a bound is reached.

**Fairness.** `Pipe!FairSpec`: a task inside a call that is not blocked goes on,
as the scheduler runs every runnable task. `Sched!FairSpec`: the periodic timer
interrupts every CPU again and again, and code with interrupts off runs to its
end. `QueuedRuns` excepts a task whose rivals are queued again and again, because
ready queues are last-in first-out: without the exception it fails for one CPU
and three tasks, two of which take turns. `Pthread!FairSpec`: a thread inside the
library, in its critical section or owing a signal goes on; the client's steps
need strong fairness because a recursive mutex may be locked and unlocked over
and over; nothing forces a thread in *idle* to call again. No fairness is assumed
of the other modules, whose runs check safety only.

## 4. What is proved

The theorems hold for every value of the constants under the ASSUMEs of the
modules, which TLC evaluates in the runs. They say no more than that null values
are not tasks, that the ring has two slots, that sets which are counted are
finite, that sizes and times are natural numbers, and the like. One says more:
the streams of `Tcp` are shorter than half of the sequence space.

| theorem | states | of |
|---|---|---|
| `WaitProofs!ChildrenReaped` | `ReapedByParent` | `Wait` |
| `WaitProofs!FreedUnreachable`, `NoLostWakeup`, `ZeroOnlyAtEof`, `TypeCorrect` | `NoUseAfterFree`, `SoleSleeperNotLost`, an action property, types | `Pipe` |
| `WaitProofs!Refinement` | `ImplementsFifo` | `Pipe` implements `PipeSpec` |
| `SchedProofs!TaskOnOneCpu`, `QueuedOnce`, `TypesKept` | `OneCpu`, `QueueInv`, types | `Sched`, any wakers |
| `SchedProofs!ExitDoesNotReturn`, `StackFreedOffCpu`, `NoTaskLost` | `OnlyOvertakenReturn`, `StackInUse`, `NotLost` | `Sched`, any wakers |
| `PthreadProofs!Exclusion`, `NobodyForgotten`, `SignalsReach`, `TypeCorrect` | mutual exclusion, `SleeperNotForgotten`, `SignalNotLost`, types | `Pthread` |
| `PthreadProofs!Refinement` | `IsMutex` | `Pthread` implements `MutexSpec` |
| `CountProofs!WritersAlone`, `DatagramsExact`, `SegmentsCounted` | `WriterAlone`, `ReassembledAsSent`, `SegmentLifetime` | `Rwlock`, `Frag`, `Shm` |
| `EventProofs!EventsReach`, `ExpirationsCounted`, `SignalsNotLost`, `ReadsInterrupted`, `DeadlinesInTime` | `EventNotMissed`, `TicksExact`, `SignalsKept`, `ReadInterrupted`, `DeadlinesKept` | `Eventfd`, `Timerfd`, `Signal`, `Sleep` |
| `TableProofs!ListsRight`, `LocksAsAsked`, `LocksExclude`, `PointersGood`, `NoForgottenSleeper` | `SlabLists`, `HeldAsAsked`, `NoConflict`, `NoDangling`, `SleepersWaitForPeer` | `Slab`, `Flock`, `Unix` |
| `TableProofs!Coherence`, `Durability`, `LastWritten`, `DiskHistory` | five invariants, `SyncDurable`, `ReadsLastWritten`, `DiskFollows` | `WriteBack` |
| `TcpProofs!TcpInvariant`, `StreamsAreExact`, `BytesAreKept`, `SleepersAreWoken` | the inductive invariant, `StreamExact`, `KeptUntilReceived`, `SleepersWait` | `Tcp` |

A property of a component is not inductive as it stands. The invariants that are,
and what each of them adds:

**WaitProofs.** `WaitInv`: the lists of children and the parent pointers agree, a
task on its way out has no children, a zombie is past the middle of `task_exit`
and off its CPU once dead, and a parent between scan and reaping still has the
child it found. `IInv` of `Pipe`: types, `CallsInv` (counts are not zero exactly
while a descriptor is left; a task in a call holds its descriptor; the copying
task holds the lock), `RingInv` (the ring holds exactly the bytes sent and not
received, slot by slot) and `SleepInv` (a lone sleeper is in its slot, and its
condition has not come true except inside the critical section that is about to
wake it). Two lemmas about the ring, `WriteRing` and `ReadRing`, carry the
arithmetic modulo the ring size.

**SchedProofs.** `TaskOnOneCpu` needs `ClaimInv` only: a CPU holds tasks whose
`on_cpu` it has set, and clears it after leaving the stack. `QueuedOnce` rests on
`QueuesInv`: the queues as sequences hold each task at most once, and `on_rq` is
set exactly for those. The others rest on `SchedInv`, which speaks of the tasks no
waker has been too late for (`Steady`): a waker with a store still to make works on
a task that has not exited, and before the store of READY on one that is runnable;
an exited task stays a zombie and is freed off every CPU; a task that is ready or
running is runnable, and a runnable one is kept. A task leaves `Steady` when it
sleeps again or exits under such a waker, and the run `sched_exit` shows why that
exception is needed. No lock and no number of wakers is assumed. The first runnable task of a queue is found with `LeastElement`, a
least-number principle for sets, which stands in for induction.

**PthreadProofs.** Types, `ThenInv` (where a call returns to), `KeyInv` (which
threads have a slot on which word), mutual exclusion and `SleeperNotForgotten`
are inductive together. `SignalNotLost` needs `ItemInv` beside them, which counts
waiters, woken threads and items, and holds as long as fewer than `SeqMod` signals
were sent in all (the hypothesis of `SignalsReach`): with 2^32 signals between the
load and `futex_wait` the word is the same again.

**CountProofs.** `RwInv`: the counter is the number of threads counted in it, the
mutex belongs to whoever is between its two calls, and a writer past its test has
found the counter at zero. `FragInv`: a slot's bitmap, units and total are those
of the fragments that came since it was claimed. `ShmInv`: the count of a segment
is the number of entries of `g_att` and of the calls of `shmdt` that have yet to
count down, and a page whose task still runs in its map has one or the other.

**EventProofs.** `EventInv` and `SignalInv`: a reader on its way to sleep whose
wakeup has not been missed is in the slot, and its condition has been false since
it went there. `TimerInv`: the next deadline is the first one plus the periods
read. `SleepInv`: the local minimum of a scan is no later than the deadlines the
scan has passed, an array that is full left its task in the minimum, and whoever
publishes during a scan, or waits in a futex with a deadline, is in `unseen` until
a scan has passed it.

**TableProofs.** `Coherence` of `WriteBack` proves the conjunction of five
invariants, which is inductive as it stands: `CountInv` needs cardinalities of
finite sets, `CleanOnDisk` is what lets eviction drop a buffer, `ModeInv` what lets
inodes go around the cache. The action properties follow, with one lemma per
action. `LockInv` for `Flock` over three lemmas about `lock_clear_range`: what is
left is part of what there was and clear of the range, the entries of others are
as they were, and nothing outside the range is lost unless there was no room.
`SlabInv`: a page in the hands of a CPU is in no list. `UnixInv`: peers point at
each other, a queued connection has a live listener, and a sleeper is in its slot.

**TcpLemmas, TcpProofs.** Number the stream of a side: 0 is its SYN, then come its
bytes, then its FIN. `Pos` is the sequence number of a position, and as long as a
stream and two more numbers fit in half of the sequence space (`TcpAssumption`; in
the code, a connection that carries less than 2^31 bytes each way) the sign of a
difference orders positions as the numbers they are. `Good` says in these terms
what a control block holds: its send buffer is the end of what was written, and
`snd_una` and `snd_nxt` stand in one of four phases (SYN out, data out, FIN out,
FIN acknowledged); what was read, the receive buffer and `rcv_nxt` follow each
other in the peer's stream, whose early segments are in the queue; a sleeper has
nothing to do. `TcpLemmas` shows that each part of the handlers keeps `Good`:
`tcp_try_send`, the new and the repeated ACK, `rcv_push`, `ooo_insert`,
`ooo_drain`, the FIN, `tcp_input` as a whole. `TcpInv` joins the two sides: a side
has dropped no byte from its buffer that the other has not received, and every
segment ever sent carries a piece of the stream of its sender and acknowledges no
more than its sender has. The last point must survive every later step, since a
segment may come at any time; it does, because streams and what was received only
grow, and a closed side writes no more (`Frozen`). `LocalStep` proves this once for
any step of one side, and every action is shown to be such a step. The three
properties follow from `TcpInv`. `ooo_drain` takes the longest run of bytes it
can; that a longest one exists is `Largest`, from the well-founded order of the
natural numbers.

**Only model-checked.** Liveness (`CallsReturn`, `QueuedRuns`, `MutexMoves`,
`ItemsTaken`), since TLAPS here does not reason about fairness. `AllOrNothing`:
`jbd2_pass` is a RECURSIVE operator over the log, and what a walk of any length
computes needs induction over data. `PagesAccounted`, `FilesKept`, `CommitSerial`
and `StructuresAgree` speak of recursive merging, of sums over tasks and of folds
over the steps of a function or the blocks of a file, and need induction over data
too.

## 5. What is not modelled

`PROJECT.json` lists every part with a reason. Parts without a protocol between
actors are left out: drivers, the layout of other file systems, boot, drawing,
the sequential tools and the library outside pthreads. Poll and epoll look again
after a short sleep and can lose no wakeup. Pseudo-terminals repeat the pattern of
`Pipe`, semaphores are tried again every 2 ms. Threads of the library (create,
join, detach) are not modelled.

Left out of the modelled parts: the contents of a task (`Sched`), the foreground
process of the terminal and the release of resources (`Wait`), the cleanup of a
killed waiter (`Futex`), process groups and the line discipline (`Signal`), paths,
mounts and offsets (`Files`), extents, indexed directories, symbolic links,
checksums and device errors (`Ext2`), checksums and 64-bit tags (`Journal`),
several connections, IPv6, poll and the memory of freed control blocks (`Tcp`),
paths, credentials and the copying of messages (`Unix`), routing and checksums
(`Frag`), `krealloc`, large allocations and `pmm_alloc_aligned` (`Slab`, `Buddy`),
the placement on CPUs (`Speculation`).

## 6. Observations about the code

Met while modelling, and stated by no property:

- `K/sched/sched.c:774` An exited task may still be linked in a ready queue when
  its parent reaps it: `task_destroy` does not unlink it, and only a later scan
  would have dropped it.
- `K/sched/sched.c:540` `task_wakeup_waiters` stops after 64 waiters: the 65th
  stays asleep although its child has exited.
- `K/syscall/process/wait.c:38` `wait_for_pid` is cleared only by an exit: after a
  wait ended by a kill or a signal it stays set, and a later unrelated sleep of
  the task is ended by any exit that matches it.
- `K/syscall/process/wait.c:29` `sys_wait` computes `has_children` and discards
  it: a caller without children goes to sleep instead of getting the ECHILD of
  wait.2.
- `usr/lib/libcervus/pthread/pthread.c:239` The mutex is unfair: a thread that
  locks again and again overtakes the thread its unlock has woken, for ever.
- `usr/lib/libcervus/pthread/pthread.c:120` `pthread_join` frees `struct __pthread`
  and unmaps the stack as soon as `done` is set, while the thread still wakes the
  joiner, reads `detached` and runs on that stack until SYS_THREAD_EXIT.
- `K/fs/ext2.c:192` `wb_end` drops the dirty blocks that the device has refused
  twice; the write has already returned success to its caller.
- `K/fs/ext2.c:862` The result of `ext2_block_write_data` is ignored, so that a
  write whose last part the device refused reports all of its bytes.
- `K/fs/ext2.c:496` `alloc_block` does not look at the result of reading the
  bitmap.
- `K/fs/vfs.c:606` `fsync` returns 0 whatever the device said, and so does `sync`.
- `K/syscall/fs/` `sys_rename` copies a file and removes the old name, although
  man2/unlink.2 says that rename "moves a name, which within one filesystem costs
  nothing because no data is copied"; `ext2_dir_rename` is never called. A renamed
  directory loses its entries.
- `K/fs/jbd2.c:198` After a replay the superblock read before it is written back
  over the replayed one, and the group descriptors in memory are those from before.
- `K/syscall/mem/shm.c:120` man2/shmget.2 says that "a segment stays alive while any
  process has it attached", but a child of fork has the pages without an entry in
  `g_att`, so that the segment may be freed while the child still maps it.
- `K/memory/pmm.c:152` A free that merges may raise `free_pages` by more than it
  gives back.
- `K/net/tcp.c:800` A FIN that comes again because its ACK was lost is not
  acknowledged again, nor is a repeated SYN|ACK (line 728): the other side gives
  up after ten retries.
- `K/net/tcp.c:695` Nothing clears the client's retransmission timer when it
  becomes ESTABLISHED: an idle client times out eleven times and marks its
  connection reset.
- `K/net/tcp.c:409` A connecting task that runs only after data and FIN have
  arrived finds CLOSE_WAIT instead of ESTABLISHED and sleeps on; the deadline is
  tested only when something wakes it.
- `K/net/tcp.c:487` `t->waiter` is one slot: a reader and a writer of one socket
  overwrite each other.
- `K/net/tcp.c:369` `g_eport` is read and advanced without a lock and a port in
  use is not skipped.
- `K/syscall/io/eventfd.c` `timerfd_settime` does not wake a reader that sleeps for
  a later deadline: no reader is ever stored in `tm->waiter`.
- `K/fs/fat32.c` One buffer and one cache of the table serve all callers without a
  lock; unlinking leaves the entries of a long name behind.
- `K/syscall/mem/sem.c:63` Two operations of one `semop` on one semaphore are each
  tested against its value before both.
- `K/net/loopback.c:94` A task that finds `g_draining` set leaves its packet to
  another that may just have found the queue empty; it stays there until somebody
  drains again.
