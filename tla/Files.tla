-------------------------------- MODULE Files --------------------------------
(***************************************************************************)
(* Open files, descriptor tables and the references between them            *)
(* (kernel/src/fs/vfs.c and the calls of syscall/io that change a table),   *)
(* with the descriptors on their way through a Unix-domain socket           *)
(* (net/unix.c).  A table has a lock; the table of open files has none.     *)
(***************************************************************************)
EXTENDS Integers, Sequences, FiniteSets, FiniteSetsExt

CONSTANTS FileTasks, First, \* the first task, the only one at the start
          Fds,              \* 0 .. TASK_MAX_FDS - 1
          Files,            \* 1 .. VFS_MAX_OPEN_FILES
          Vnodes,           \* what there is to open
          None,
          InboxMax,         \* length of fd_inbox
          MaxClaims         \* bound: behaviours end after this many lost races

VARIABLES refcount, vnode,  \* of an open file
          vrefs,            \* vnode_t.refcount: open files and callers
          table_of,         \* the table of each task; a table is named by its first task
          entries, cloexec, \* of a table
          inbox,            \* fd_inbox of a socket the tasks hold
          f_step, hand, f_arg, \* of a task: its step, the files in its hands, a descriptor
          then,             \* what it does once they are freed
          f_raced           \* history: claims of a slot that was not free any more
fvars == <<refcount, vnode, vrefs, table_of, entries, cloexec, inbox, f_step, hand, f_arg, then,
           f_raced>>

FInit == /\ refcount = [f \in Files |-> 0] /\ vnode = [f \in Files |-> None]
         /\ vrefs = [v \in Vnodes |-> 0]
         /\ table_of = [t \in FileTasks |-> IF t = First THEN First ELSE None]
         /\ entries = [t \in FileTasks |-> [d \in Fds |-> None]]
         /\ cloexec = [t \in FileTasks |-> {}]
         /\ inbox = <<>>
         /\ f_step = [t \in FileTasks |-> IF t = First THEN "user" ELSE "none"]
         /\ hand = [t \in FileTasks |-> <<>>] /\ f_arg = [t \in FileTasks |-> None]
         /\ then = [t \in FileTasks |-> "user"]
         /\ f_raced = 0

FAt(t, s, fs, x, after) ==
    /\ f_step' = [f_step EXCEPT ![t] = s] /\ hand' = [hand EXCEPT ![t] = fs]
    /\ f_arg' = [f_arg EXCEPT ![t] = x] /\ then' = [then EXCEPT ![t] = after]
Back(t) == FAt(t, "user", <<>>, None, "user")
Frees(t, fs, x, after) == IF fs = <<>> THEN FAt(t, after, <<>>, x, "user")
                                       ELSE FAt(t, "free", fs, x, after)
T(t) == table_of[t]
Fd(t, d) == entries[T(t)][d]
FreeFds(t) == {d \in Fds : Fd(t, d) = None}
Enters(t, d, f) == /\ entries' = [entries EXCEPT ![T(t)][d] = f]
                   /\ cloexec' = [cloexec EXCEPT ![T(t)] = @ \ {d}]
Empties(t, ds) == /\ entries' = [entries EXCEPT ![T(t)] =
                                    [d \in Fds |-> IF d \in ds THEN None ELSE @[d]]]
                  /\ cloexec' = [cloexec EXCEPT ![T(t)] = @ \ ds]
FilesOf(t, ds) == SelectSeq([i \in 1 .. Cardinality(Fds) |->
                               IF i - 1 \in ds THEN Fd(t, i - 1) ELSE None],
                            LAMBDA f : f # None)
Counts(f, n) == refcount' = [refcount EXCEPT ![f] = @ + n]
Race(lost) == f_raced' = (IF lost THEN f_raced + 1 ELSE f_raced) /\ f_raced' <= MaxClaims
files == <<refcount, vnode, vrefs>>
tables == <<table_of, entries, cloexec>>
-----------------------------------------------------------------------------
(* vfs_open: the path gives a referenced vnode, and vfs_file_alloc tests    *)
(* the slots in order for a free one ...                                    *)
FreeSlots == {f \in Files : refcount[f] = 0}
vfs_open(t) ==
    /\ f_step[t] = "user" /\ FreeSlots # {}
    /\ \E v \in Vnodes : /\ vrefs' = [vrefs EXCEPT ![v] = @ + 1]
                         /\ FAt(t, "claim", <<Min(FreeSlots)>>, v, "user")
    /\ UNCHANGED <<refcount, vnode, tables, inbox, f_raced>>

(* ... and claims it with plain stores.                                     *)
vfs_file_alloc(t) ==
    LET f == hand[t][1]
    IN  /\ f_step[t] = "claim"
        /\ refcount' = [refcount EXCEPT ![f] = 1]
        /\ vnode' = [vnode EXCEPT ![f] = f_arg[t]]
        /\ Race(refcount[f] # 0 \/ \E u \in FileTasks : f_step[u] = "unref" /\ hand[u][1] = f)
        /\ \E s \in {"fd", "fd_cloexec"} : FAt(t, s, <<f>>, None, "user")
        /\ UNCHANGED <<vrefs, tables, inbox>>

(* fd_alloc: the lowest free descriptor takes over the reference in hand;   *)
(* without one the reference is dropped.                                    *)
fd_alloc(t) ==
    /\ f_step[t] \in {"fd", "fd_cloexec"}
    /\ IF FreeFds(t) = {}
       THEN Frees(t, hand[t], None, "user") /\ UNCHANGED <<entries, cloexec>>
       ELSE /\ Enters(t, Min(FreeFds(t)), hand[t][1])
            /\ IF f_step[t] = "fd" THEN Back(t)
                                   ELSE FAt(t, "flags", <<>>, Min(FreeFds(t)), "user")
    /\ UNCHANGED <<files, table_of, inbox, f_raced>>
fd_set_flags(t) ==
    /\ f_step[t] = "flags"
    /\ cloexec' = IF Fd(t, f_arg[t]) = None THEN cloexec
                  ELSE [cloexec EXCEPT ![T(t)] = @ \cup {f_arg[t]}]
    /\ Frees(t, hand[t], None, "user")
    /\ UNCHANGED <<files, table_of, entries, inbox, f_raced>>

(* vfs_file_free: the count goes down, and whoever took the last one lets   *)
(* go of the vnode and empties the slot.                                    *)
LastOrLastButOne(f) == refcount[f] \in {1, 2}
LastReference(f) == refcount[f] = 1
vfs_file_free(t, s) ==
    LET f == hand[t][1]
    IN  /\ f_step[t] = s
        /\ Counts(f, -1)
        /\ IF LastReference(f) THEN FAt(t, "unref", hand[t], f_arg[t], then[t])
                               ELSE Frees(t, Tail(hand[t]), f_arg[t], then[t])
        /\ UNCHANGED <<vnode, vrefs, tables, inbox, f_raced>>
vnode_unref(t) ==
    LET f == hand[t][1]
    IN  /\ f_step[t] = "unref"
        /\ vrefs' = IF vnode[f] = None THEN vrefs ELSE [vrefs EXCEPT ![vnode[f]] = @ - 1]
        /\ vnode' = [vnode EXCEPT ![f] = None]
        /\ Frees(t, Tail(hand[t]), f_arg[t], then[t])
        /\ UNCHANGED <<refcount, tables, inbox, f_raced>>
-----------------------------------------------------------------------------
(* fd_get, under the lock of the table, for a call that uses the file (read *)
(* and the like, and the first half of sys_close, which goes on to          *)
(* fd_close), for sys_dup, for F_DUPFD and for sys_sendfd.                  *)
fd_get(t, d, s, x, after) == /\ f_step[t] = "user" /\ Fd(t, d) # None
                             /\ Counts(Fd(t, d), 1)
                             /\ FAt(t, s, <<Fd(t, d)>>, x, after)
                             /\ UNCHANGED <<vnode, vrefs, tables, inbox, f_raced>>
sys_read(t) == \E d \in Fds : fd_get(t, d, "use", None, "user")
sys_close(t) == \E d \in Fds : fd_get(t, d, "use", d, "close")
sys_dup(t) == \E d \in Fds : fd_get(t, d, "fd", None, "user")
F_DUPFD(t) == \E d \in Fds : fd_get(t, d, "dupfd", None, "user")
sys_sendfd(t) == \E d \in Fds : fd_get(t, d, "send", None, "user")

fd_put(t) == vfs_file_free(t, "use")
fd_close(t) == /\ f_step[t] = "close"
               /\ Empties(t, {f_arg[t]})
               /\ Frees(t, FilesOf(t, {f_arg[t]}), None, "user")
               /\ UNCHANGED <<files, table_of, inbox, f_raced>>

(* F_DUPFD enters the file into the table and counts the new reference      *)
(* afterwards, without the lock.                                            *)
DupfdEnter(t) ==
    /\ f_step[t] = "dupfd"
    /\ IF FreeFds(t) = {}
       THEN FAt(t, "free", hand[t], None, "user") /\ UNCHANGED <<entries, cloexec>>
       ELSE /\ Enters(t, Min(FreeFds(t)), hand[t][1])
            /\ FAt(t, "count", hand[t], Min(FreeFds(t)), "user")
    /\ UNCHANGED <<files, table_of, inbox, f_raced>>
DupfdCount(t) == /\ f_step[t] = "count"
                 /\ Counts(hand[t][1], 1)
                 /\ \E s \in {"free", "flags"} : FAt(t, s, hand[t], f_arg[t], "user")
                 /\ UNCHANGED <<vnode, vrefs, tables, inbox, f_raced>>

(* fd_dup2: one critical section; the file that was there is freed after.   *)
fd_dup2(t) == \E d, e \in Fds :
    /\ f_step[t] = "user" /\ d # e /\ Fd(t, d) # None
    /\ Enters(t, e, Fd(t, d))
    /\ Counts(Fd(t, d), 1)
    /\ Frees(t, FilesOf(t, {e}), None, "user")
    /\ UNCHANGED <<vnode, vrefs, table_of, inbox, f_raced>>
-----------------------------------------------------------------------------
(* task_fork clones the table under its lock; a thread shares it.           *)
fork(t, u) ==
    /\ f_step[t] = "user" /\ f_step[u] = "none"
    /\ f_step' = [f_step EXCEPT ![u] = "user"]
    /\ table_of' = [table_of EXCEPT ![u] = u]
    /\ entries' = [entries EXCEPT ![u] = entries[T(t)]]
    /\ cloexec' = [cloexec EXCEPT ![u] = cloexec[T(t)]]
    /\ refcount' = [f \in Files |-> refcount[f] + Cardinality({d \in Fds : Fd(t, d) = f})]
    /\ UNCHANGED <<vnode, vrefs, inbox, hand, f_arg, then, f_raced>>
thread(t, u) ==
    /\ f_step[t] = "user" /\ f_step[u] = "none"
    /\ f_step' = [f_step EXCEPT ![u] = "user"]
    /\ table_of' = [table_of EXCEPT ![u] = T(t)]
    /\ UNCHANGED <<files, entries, cloexec, inbox, hand, f_arg, then, f_raced>>

fd_table_cloexec(t) ==
    /\ f_step[t] = "user" /\ cloexec[T(t)] # {}
    /\ Empties(t, cloexec[T(t)])
    /\ Frees(t, FilesOf(t, cloexec[T(t)]), None, "user")
    /\ UNCHANGED <<files, table_of, inbox, f_raced>>

(* The exit of a task: the last one to have the table empties it.           *)
fd_table_destroy(t) ==
    /\ f_step[t] = "user"
    /\ table_of' = [table_of EXCEPT ![t] = None]
    /\ IF \E u \in FileTasks \ {t} : T(u) = T(t)
       THEN FAt(t, "dead", <<>>, None, "user") /\ UNCHANGED <<entries, cloexec>>
       ELSE Empties(t, Fds) /\ Frees(t, FilesOf(t, Fds), None, "dead")
    /\ UNCHANGED <<files, inbox, f_raced>>

(* unix_send_fd puts the reference into the inbox of the peer, or drops it  *)
(* when there is no room; unix_recv_fd takes one out; the last close of the *)
(* socket drops what nobody took.                                           *)
unix_send_fd(t) == /\ f_step[t] = "send"
                   /\ IF Len(inbox) < InboxMax
                      THEN inbox' = inbox \o hand[t] /\ Back(t)
                      ELSE inbox' = inbox /\ Frees(t, hand[t], None, "user")
                   /\ UNCHANGED <<files, tables, f_raced>>
unix_recv_fd(t) == /\ f_step[t] = "user" /\ inbox # <<>>
                   /\ inbox' = Tail(inbox)
                   /\ FAt(t, "fd", <<Head(inbox)>>, None, "user")
                   /\ UNCHANGED <<files, tables, f_raced>>
unix_unref_op(t) == /\ f_step[t] = "user" /\ inbox # <<>>
                    /\ inbox' = <<>>
                    /\ Frees(t, inbox, None, "user")
                    /\ UNCHANGED <<files, tables, f_raced>>

Call(t) == \/ vfs_open(t) \/ sys_read(t) \/ sys_close(t) \/ sys_dup(t) \/ F_DUPFD(t)
           \/ sys_sendfd(t) \/ fd_dup2(t) \/ unix_recv_fd(t) \/ unix_unref_op(t)
           \/ fd_table_cloexec(t) \/ fd_table_destroy(t)
           \/ \E u \in FileTasks : fork(t, u) \/ thread(t, u)
Continue(t) == \/ vfs_file_alloc(t) \/ fd_alloc(t) \/ fd_set_flags(t) \/ vfs_file_free(t, "free")
               \/ vnode_unref(t) \/ fd_put(t) \/ fd_close(t) \/ DupfdEnter(t) \/ DupfdCount(t)
               \/ unix_send_fd(t)
FNext == \E t \in FileTasks : Call(t) \/ Continue(t)
FSpec == FInit /\ [][FNext]_fvars
-----------------------------------------------------------------------------
Times(seq, f) == Cardinality({i \in DOMAIN seq : seq[i] = f})
Descriptors == {p \in FileTasks \X Fds : entries[p[1]][p[2]] # None}
Named(f) == Cardinality({p \in Descriptors : entries[p[1]][p[2]] = f})
References(t) == IF f_step[t] \in {"claim", "unref"} THEN Tail(hand[t]) ELSE hand[t]
InHands(f) == Cardinality(UNION {{<<t, i>> : i \in {j \in DOMAIN References(t) : References(t)[j] = f}}
                                  : t \in FileTasks})
NotCounted(f) == Cardinality({t \in FileTasks : f_step[t] = "count" /\ hand[t][1] = f})

(* A file is let go only once the last descriptor that refers to it is      *)
(* closed (vfs_file_free).                                                  *)
LetGoLast == \A p \in Descriptors : vnode[entries[p[1]][p[2]]] # None

(* The counts are exact in every interleaving, so that nothing is let go    *)
(* early and nothing is kept for ever: the count of an open file is the     *)
(* number of descriptors, of descriptors in flight through the socket and   *)
(* of calls that hold it (less the one F_DUPFD is about to add), and the    *)
(* count of a vnode the number of open files and callers that hold it; and  *)
(* a file that a descriptor, a call that uses it or a message refers to has *)
(* its vnode.  So F_DUPFD, which enters the descriptor before it counts it, *)
(* endangers no one but itself: both descriptors may be closed under it and *)
(* the file let go, but all it still does is to count it and to put it.     *)
(* This as long as no claim of vfs_file_alloc met a slot that was not free. *)
FilesKept == f_raced = 0 =>
    /\ \A f \in Files : refcount[f] = Named(f) + InHands(f) + Times(inbox, f) - NotCounted(f)
    /\ \A v \in Vnodes : vrefs[v] = Cardinality({f \in Files : vnode[f] = v})
                                  + Cardinality({t \in FileTasks : f_step[t] = "claim" /\ f_arg[t] = v})
    /\ LetGoLast
    /\ \A t \in FileTasks : f_step[t] \in {"use", "fd", "send"} => vnode[hand[t][1]] # None
    /\ \A i \in DOMAIN inbox : vnode[inbox[i]] # None
=============================================================================
