-------------------------------- MODULE Flock --------------------------------
(***************************************************************************)
(* Record locks (kernel/src/fs/flock.c and fcntl_lock of syscall/io/fcntl.c)*)
(* on one file.  The table of locks has a lock of its own, but              *)
(* vfs_lock_set takes it twice: to look for a conflict and to change the    *)
(* table.  F_SETLKW is the same call made again until it is not refused.    *)
(***************************************************************************)
EXTENDS Integers, FiniteSets

CONSTANTS Owners,           \* the pids
          LastByte,         \* UINT64_MAX
          VFS_MAX_LOCKS,
          MaxRaces          \* bound: behaviours end after this many stale tests

ASSUME ByteAssumption == LastByte \in Nat

Bytes == 0 .. LastByte
Free == "UNLOCK"            \* the type of a byte that is not locked
Types == {"READ", "WRITE"}

VARIABLES g_locks,          \* the entries in use
          call,             \* the request of each owner between the halves of vfs_lock_set
          asked,            \* history: what the calls of each owner asked for
          stale             \* history: changes made after a test that did not hold any more
lvars == <<g_locks, call, asked, stale>>

NoCall == [type |-> Free, start |-> 0, end |-> 0, bytes |-> {}]

LInit == /\ g_locks = {} /\ call = [o \in Owners |-> NoCall]
         /\ asked = [o \in Owners |-> [b \in Bytes |-> Free]]
         /\ stale = 0
-----------------------------------------------------------------------------
overlaps(l, start, end) == l.start <= end /\ start <= l.end

(* flock_range: l_len may be negative, and 0 means up to the last byte.     *)
FlockStart(l_start, l_len) == IF l_len < 0 THEN l_start + l_len ELSE l_start
FlockEnd(l_start, l_len) == IF l_len = 0 THEN LastByte
                            ELSE FlockStart(l_start, l_len) + (IF l_len < 0 THEN -l_len ELSE l_len) - 1

(* vfs_lock_test: a lock of somebody else that overlaps and is not shared.  *)
Conflicts(l, type, start, end, owner) ==
    l.owner # owner /\ overlaps(l, start, end) /\ ~(type = "READ" /\ l.type = "READ")
TestWriters(type, start, end, owner) ==
    \A l \in g_locks : l.owner # owner /\ overlaps(l, start, end) => l.type = "READ"
vfs_lock_test(type, start, end, owner) ==
    \A l \in g_locks : ~Conflicts(l, type, start, end, owner)

(* lock_insert: an entry, if there is room (ENOLCK).                        *)
Entry(start, end, type, owner) == [start |-> start, end |-> end, type |-> type, owner |-> owner]

(* lock_clear_range: every entry of the owner that overlaps is replaced by  *)
(* what is left of it below and above.  Only an entry that sticks out on    *)
(* both sides, which is then the only one, needs another slot: when there   *)
(* is none the part above is lost and the call fails.                       *)
Below(l, start) == IF l.start < start THEN {Entry(l.start, start - 1, l.type, l.owner)} ELSE {}
Above(l, end) == IF l.end > end THEN {Entry(end + 1, l.end, l.type, l.owner)} ELSE {}
Hit(start, end, owner) == {l \in g_locks : l.owner = owner /\ overlaps(l, start, end)}
NoRoom(start, end, owner) == /\ \E l \in Hit(start, end, owner) : l.start < start /\ l.end > end
                             /\ Cardinality(g_locks) = VFS_MAX_LOCKS
AllBut(hit, start) == (g_locks \ hit) \cup UNION {Below(l, start) : l \in hit}
ClearedBelow(start, end, owner) == AllBut(Hit(start, end, owner), start)
Cleared(start, end, owner) ==
    LET hit == Hit(start, end, owner)
    IN  IF NoRoom(start, end, owner) THEN AllBut(hit, start)
        ELSE AllBut(hit, start) \cup UNION {Above(l, end) : l \in hit}

(* The bytes a caller means: the definition that fcntl_lock is held to.     *)
Meant(l_start, l_len) ==
    {b \in Bytes : IF l_len < 0 THEN l_start + l_len <= b /\ b < l_start
                   ELSE l_start <= b /\ (l_len = 0 \/ b < l_start + l_len)}
-----------------------------------------------------------------------------
(* A request as fcntl_lock hands it on, and the bytes that were meant by it.*)
Request(type, l_start, l_len) == [type |-> type, bytes |-> Meant(l_start, l_len),
    start |-> FlockStart(l_start, l_len), end |-> FlockEnd(l_start, l_len)]
Requests(types) == {r \in {Request(type, s, n) : type \in types, s \in 0 .. LastByte + 1,
                                                 n \in -LastByte .. LastByte + 1} :
                      r.start >= 0 /\ r.start <= r.end /\ r.end <= LastByte}

ToLock == Requests(Types)
ToUnlock == Requests({Free})

(* The first half of vfs_lock_set; a conflict (EAGAIN) changes nothing.     *)
TestLock(o) ==
    /\ call[o] = NoCall
    /\ \E r \in ToLock : /\ vfs_lock_test(r.type, r.start, r.end, o)
                        /\ call' = [call EXCEPT ![o] = r]
    /\ UNCHANGED <<g_locks, asked, stale>>

(* The second half: the range is cleared and the new lock inserted.  A call *)
(* that is refused for want of room (ENOLCK) asked for nothing, but what it *)
(* has cleared is lost.                                                     *)
Change(o, r) ==
    LET left  == Cleared(r.start, r.end, o)
        fails == \/ NoRoom(r.start, r.end, o)
                 \/ r.type # Free /\ Cardinality(left) = VFS_MAX_LOCKS
        lost  == {b \in Bytes : \A l \in left : l.owner = o => b \notin l.start .. l.end}
    IN  /\ g_locks' = IF fails \/ r.type = Free THEN left
                      ELSE left \cup {Entry(r.start, r.end, r.type, o)}
        /\ asked' = [asked EXCEPT ![o] = [b \in Bytes |->
                        IF ~fails /\ b \in r.bytes THEN r.type
                        ELSE IF fails /\ b \in lost THEN Free ELSE @[b]]]
SetLock(o) ==
    LET r == call[o]
    IN  /\ r # NoCall
        /\ Change(o, r)
        /\ stale' = IF vfs_lock_test(r.type, r.start, r.end, o) THEN stale ELSE stale + 1
        /\ stale' <= MaxRaces
        /\ call' = [call EXCEPT ![o] = NoCall]
Unlock(o) ==
    /\ call[o] = NoCall
    /\ \E r \in ToUnlock : Change(o, r)
    /\ UNCHANGED <<call, stale>>

(* Closing a descriptor of the file, or the end of the task.                *)
vfs_lock_release(o) ==
    /\ call[o] = NoCall
    /\ g_locks' = {l \in g_locks : l.owner # o}
    /\ asked' = [asked EXCEPT ![o] = [b \in Bytes |-> Free]]
    /\ UNCHANGED <<call, stale>>

LNext == \E o \in Owners : TestLock(o) \/ SetLock(o) \/ Unlock(o) \/ vfs_lock_release(o)
LSpec == LInit /\ [][LNext]_lvars
-----------------------------------------------------------------------------
Holds(o, b) == {l.type : l \in {k \in g_locks : k.owner = o /\ k.start <= b /\ b <= k.end}}

(* After any sequence of locks, changes of type and unlocks, through every  *)
(* split of an entry, an owner holds on each byte exactly what its last     *)
(* call there asked for, less what a refused call has cleared.              *)
HeldAsAsked == \A o \in Owners, b \in Bytes : Holds(o, b) = {asked[o][b]} \ {Free}

(* Two owners have a byte in common only when both hold it for reading,     *)
(* unless a lock was inserted after a test that did not hold any more.      *)
NoConflict ==
    stale = 0 => \A b \in Bytes, o, p \in Owners :
                    o # p /\ Holds(o, b) # {} /\ Holds(p, b) # {} => Holds(o, b) = {"READ"}
=============================================================================
