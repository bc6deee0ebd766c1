-------------------------------- MODULE Ext2 ---------------------------------
(***************************************************************************)
(* What ext2 keeps on disk (kernel/src/fs/ext2.c): the bitmaps and the      *)
(* counts of the groups, the inodes with their direct, indirect and double  *)
(* indirect blocks, and the entries of directories; and the system calls    *)
(* that change it: open with O_CREAT, mkdir, unlink and rmdir, write,       *)
(* ftruncate, rename.  An operation of a vnode is one hold of fs_lock and   *)
(* one step.  A system call is several of them: it looks a path up, keeps   *)
(* the number of the inode in a vnode, and uses it later.                   *)
(*                                                                          *)
(* Sizes are counted in blocks and the contents of files left out.  All     *)
(* names are equally long, so a directory block has room for DirCap         *)
(* entries, "." and ".." included.  Inodes and directories are those of a   *)
(* volume formatted as ext2: no extents, no index.                          *)
(***************************************************************************)
EXTENDS Integers, FiniteSets, FiniteSetsExt, SequencesExt

CONSTANTS Task, Names,
          NB, s_blocks_per_group,        \* s_blocks_count - 1 blocks, in groups
          NI, s_inodes_per_group,
          EXT2_NDIR_BLOCKS, ptrs_per_block, DirCap,
          Offsets, Lengths, Sizes,       \* arguments of write and of ftruncate
          MaxCalls                       \* system calls of a behaviour

BlockNo == 1 .. NB
Ino == 1 .. NI
Root == 1
GroupOfBlock(b) == (b - 1) \div s_blocks_per_group
BitOf(b) == (b - 1) % s_blocks_per_group
GroupOfInode(i) == (i - 1) \div s_inodes_per_group
Groups == 0 .. GroupOfBlock(NB)
IND == EXT2_NDIR_BLOCKS + 1
DIND == EXT2_NDIR_BLOCKS + 2

VARIABLES fs,        \* the disk and what ext2_t keeps of it
          call,      \* the call a task is in, between two holds of fs_lock
          fd,        \* the inode of the file a task has open, or 0
          stale,     \* history: <<t, w>>, the inode of call (w = "dir", "src", "dst")
                     \* or fd of t was freed after it was looked up
          spoiled,   \* history: an operation used what was stale, removed a
                     \* directory with entries, or lost an entry
          calls
xvars == <<fs, call, fd, stale, spoiled, calls>>

NoPtrs == [k \in 1 .. ptrs_per_block |-> 0]
NoEntries == [fmt |-> FALSE, dots |-> FALSE, name |-> [n \in Names |-> 0]]
NoBlocks == [k \in 1 .. EXT2_NDIR_BLOCKS + 2 |-> 0]
NewInode(dir) == [dir |-> dir, links |-> IF dir THEN 2 ELSE 1, size |-> 0, blocks |-> 0,
                  blk |-> NoBlocks]
Dots == [NoEntries EXCEPT !.fmt = TRUE, !.dots = TRUE]
Idle == [op |-> "none"]

(* A new file system: a root directory of one block.                        *)
FsInit == [bbm |-> {1}, ibm |-> {Root}, alloc_group |-> 0, alloc_bit |-> 0,
           bfree |-> [g \in Groups |-> Cardinality({b \in BlockNo \ {1} : GroupOfBlock(b) = g})],
           ifree |-> [g \in Groups |-> Cardinality({i \in Ino \ {Root} : GroupOfInode(i) = g})],
           dirs |-> [g \in Groups |-> IF g = 0 THEN 1 ELSE 0],
           di |-> [i \in Ino |-> IF i = Root
                                 THEN [NewInode(TRUE) EXCEPT !.size = 1, !.blocks = 1,
                                                             !.blk[1] = 1]
                                 ELSE NewInode(FALSE)],
           ptr |-> [b \in BlockNo |-> NoPtrs],
           ent |-> [b \in BlockNo |-> IF b = 1 THEN Dots ELSE NoEntries],
           lost |-> {}]
XInit == /\ fs = FsInit
         /\ call = [t \in Task |-> Idle] /\ fd = [t \in Task |-> 0]
         /\ stale = {} /\ spoiled = FALSE /\ calls = 0
-----------------------------------------------------------------------------
(* The bitmaps.  The search for a block goes on where the last one ended,   *)
(* through every group, and through the first one again from its beginning. *)
FreeBits(f, g, from) == {b \in BlockNo \ f.bbm : GroupOfBlock(b) = g /\ BitOf(b) >= from}
Found(f, n) == LET g == (f.alloc_group + n) % Cardinality(Groups)
               IN  IF f.bfree[g] = 0 THEN {}
                   ELSE FreeBits(f, g, IF n = 0 THEN f.alloc_bit ELSE 0)
alloc_block(f) == LET ns == {n \in 0 .. Cardinality(Groups) : Found(f, n) # {}}
                  IN  IF ns = {} THEN 0 ELSE Min(Found(f, Min(ns)))
Taken(f, b) == [f EXCEPT !.bbm = @ \cup {b}, !.bfree[GroupOfBlock(b)] = @ - 1,
                         !.alloc_group = GroupOfBlock(b), !.alloc_bit = BitOf(b) + 1]
(* What a free block holds is not kept.                                     *)
free_block(f, b) == [f EXCEPT !.bbm = @ \ {b}, !.bfree[GroupOfBlock(b)] = @ + 1,
                              !.ptr[b] = NoPtrs, !.ent[b] = NoEntries]
FreeBlocks(f, s) == FoldLeft(free_block, f, s)

alloc_inode(f) == LET is == {i \in Ino \ f.ibm : f.ifree[GroupOfInode(i)] # 0}
                  IN  IF is = {} THEN 0 ELSE Min(is)
InodeTaken(f, i) == [f EXCEPT !.ibm = @ \cup {i}, !.ifree[GroupOfInode(i)] = @ - 1]
free_inode(f, i) == [f EXCEPT !.ibm = @ \ {i}, !.ifree[GroupOfInode(i)] = @ + 1]
-----------------------------------------------------------------------------
(* The blocks of a file; x is the disk and an inode read from it.           *)
Efbig == -1
get_block_num(f, di, fb) ==
    LET k == fb - EXT2_NDIR_BLOCKS
        m == k - ptrs_per_block
        sub == f.ptr[di.blk[DIND]][(m \div ptrs_per_block) + 1]
    IN  CASE fb < EXT2_NDIR_BLOCKS -> di.blk[fb + 1]
          [] k \in 0 .. ptrs_per_block - 1 ->
                IF di.blk[IND] = 0 THEN 0 ELSE f.ptr[di.blk[IND]][k + 1]
          [] m \in 0 .. ptrs_per_block * ptrs_per_block - 1 ->
                IF di.blk[DIND] = 0 \/ sub = 0 THEN 0 ELSE f.ptr[sub][(m % ptrs_per_block) + 1]
          [] OTHER -> Efbig

(* A block of pointers where there is none.                                 *)
WithTable(x, i) ==
    LET nb == alloc_block(x.f)
    IN  CASE ~x.ok \/ x.di.blk[i] # 0 -> x
          [] nb = 0 -> [x EXCEPT !.ok = FALSE]
          [] OTHER -> [x EXCEPT !.f = [Taken(x.f, nb) EXCEPT !.ptr[nb] = NoPtrs],
                                !.di.blk[i] = nb, !.di.blocks = @ + 1]
WithSubTable(x, k) ==
    LET nb == alloc_block(x.f)
        d == x.di.blk[DIND]
    IN  CASE ~x.ok \/ x.f.ptr[d][k] # 0 -> x
          [] nb = 0 -> [x EXCEPT !.ok = FALSE]
          [] OTHER -> [x EXCEPT !.f = [Taken(x.f, nb) EXCEPT !.ptr[nb] = NoPtrs, !.ptr[d][k] = nb],
                                !.di.blocks = @ + 1]
Pointed(x, table, k, b) == IF x.ok THEN [x EXCEPT !.f.ptr[table][k] = b] ELSE x
PointedInd(x, k, b) == Pointed(x, x.di.blk[IND], k, b)
PointedDind(x, i, k, b) == Pointed(x, x.f.ptr[x.di.blk[DIND]][i], k, b)
set_block_num(f, di, fb, b) ==
    LET x == [f |-> f, di |-> di, ok |-> TRUE]
        k == fb - EXT2_NDIR_BLOCKS
        m == k - ptrs_per_block
        i == (m \div ptrs_per_block) + 1
    IN  CASE fb < EXT2_NDIR_BLOCKS -> [x EXCEPT !.di.blk[fb + 1] = b]
          [] k \in 0 .. ptrs_per_block - 1 -> PointedInd(WithTable(x, IND), k + 1, b)
          [] m \in 0 .. ptrs_per_block * ptrs_per_block - 1 ->
                PointedDind(WithSubTable(WithTable(x, DIND), i), i, (m % ptrs_per_block) + 1, b)
          [] OTHER -> [x EXCEPT !.ok = FALSE]

(* write: a block that is not there is allocated.  That no table could be   *)
(* allocated for it is not noticed: the block is then in no file.           *)
Overwritten(f, b) == [f EXCEPT !.ent[b] = NoEntries]
Grown(x, y, nb) ==
    [x EXCEPT !.f = [Overwritten(y.f, nb) EXCEPT !.lost = IF y.ok THEN @ ELSE @ \cup {nb}],
              !.di = [y.di EXCEPT !.blocks = @ + 1],
              !.done = @ + 1]
WriteBlock(x, fb) ==
    LET db == get_block_num(x.f, x.di, fb)
        nb == alloc_block(x.f)
    IN  CASE x.stop \/ db = Efbig \/ (db = 0 /\ nb = 0) -> [x EXCEPT !.stop = TRUE]
          [] db = 0 -> Grown(x, set_block_num(Taken(x.f, nb), x.di, fb, nb), nb)
          [] OTHER -> [x EXCEPT !.f = Overwritten(x.f, db), !.done = @ + 1]
FileWritten(x, f, i, from) ==
    [n |-> x.done,
     f |-> IF x.done = 0 THEN f
           ELSE [x.f EXCEPT !.di[i] = [x.di EXCEPT !.size = Max({@, from + x.done})]]]
ext2_file_write(f, i, from, n) ==
    FileWritten(FoldLeft(WriteBlock, [f |-> f, di |-> f.di[i], done |-> 0, stop |-> FALSE],
                         [k \in 1 .. n |-> from + k - 1]),
                f, i, from)

(* truncate frees what lies beyond the new size, and the tables nothing is  *)
(* left in.                                                                 *)
NonZero(s) == SelectSeq(s, LAMBDA b : b # 0)
CutTo(s, first) == [k \in DOMAIN s |-> IF k > first THEN 0 ELSE s[k]]
Beyond(s, first) == NonZero(SubSeq(s, first + 1, Len(s)))
CutDirect(x, keep) ==
    LET old == SubSeq(x.di.blk, 1, EXT2_NDIR_BLOCKS)
        b == Beyond(old, keep)
    IN  [f |-> FreeBlocks(x.f, b), freed |-> Len(b),
         di |-> [x.di EXCEPT !.blk = CutTo(old, keep) \o SubSeq(@, IND, DIND)]]
CutIndKept(x, keep) ==
    LET p == x.di.blk[IND]
        b == Beyond(x.f.ptr[p], Max({0, keep - EXT2_NDIR_BLOCKS}))
    IN  IF p = 0 THEN x
        ELSE [f |-> free_block(FreeBlocks(x.f, b), p), di |-> x.di, freed |-> x.freed + Len(b) + 1]
CutInd(x, keep) ==
    LET p == x.di.blk[IND]
        b == Beyond(x.f.ptr[p], Max({0, keep - EXT2_NDIR_BLOCKS}))
        f == FreeBlocks(x.f, b)
    IN  CASE p = 0 -> x
          [] keep <= EXT2_NDIR_BLOCKS ->
                    [f |-> free_block(f, p), di |-> [x.di EXCEPT !.blk[IND] = 0],
                     freed |-> x.freed + Len(b) + 1]
          [] OTHER -> [f |-> [f EXCEPT !.ptr[p] = CutTo(@, keep - EXT2_NDIR_BLOCKS)],
                       di |-> x.di, freed |-> x.freed + Len(b)]
CutSub(x, i, keep) ==
    LET d == x.di.blk[DIND]
        p == x.f.ptr[d][i]
        base == EXT2_NDIR_BLOCKS + i * ptrs_per_block
        first == Max({0, keep - base})
        b == Beyond(x.f.ptr[p], first)
        f == FreeBlocks(x.f, b)
    IN  CASE p = 0 \/ base + ptrs_per_block <= keep -> x
          [] first = 0 -> [x EXCEPT !.f = [free_block(f, p) EXCEPT !.ptr[d][i] = 0],
                                    !.freed = @ + Len(b) + 1]
          [] OTHER -> [x EXCEPT !.f = [f EXCEPT !.ptr[p] = CutTo(@, first)],
                                !.freed = @ + Len(b)]
DindDropped(x, keep) ==
    IF keep <= EXT2_NDIR_BLOCKS + ptrs_per_block
    THEN [f |-> free_block(x.f, x.di.blk[DIND]), di |-> [x.di EXCEPT !.blk[DIND] = 0],
          freed |-> x.freed + 1]
    ELSE x
CutDind(x, keep) ==
    IF x.di.blk[DIND] = 0 THEN x
    ELSE DindDropped(FoldLeft(LAMBDA z, i : CutSub(z, i, keep), x,
                              [i \in 1 .. ptrs_per_block |-> i]), keep)
ext2_truncate_blocks(f, di, keep) ==
    CutDind(CutInd(CutDirect([f |-> f, di |-> di, freed |-> 0], keep), keep), keep)
Resized(x, i, size) ==
    [x.f EXCEPT !.di[i] = [x.di EXCEPT !.size = size, !.blocks = Max({0, @ - x.freed})]]
ext2_file_truncate(f, i, size) ==
    LET di == f.di[i]
    IN  Resized(IF size < di.size THEN ext2_truncate_blocks(f, di, size)
                ELSE [f |-> f, di |-> di, freed |-> 0], i, size)

(* Everything that belongs to an inode.                                     *)
Table(f, p) == IF p = 0 THEN <<>> ELSE NonZero(f.ptr[p])
Owned(f, di) ==
    LET subs == Table(f, di.blk[DIND])
    IN  NonZero(di.blk) \o Table(f, di.blk[IND]) \o subs
        \o FlattenSeq([k \in DOMAIN subs |-> Table(f, subs[k])])
free_all_blocks(f, di) == FreeBlocks(f, Owned(f, di))
-----------------------------------------------------------------------------
(* Directories.                                                             *)
DirBlocks(f, di) == NonZero([k \in 1 .. di.size |-> Max({0, get_block_num(f, di, k - 1)})])
Holding(f, d, n) == SelectSeq(DirBlocks(f, f.di[d]), LAMBDA b : f.ent[b].name[n] # 0)
ext2_dir_lookup(f, d, n) ==
    LET bs == Holding(f, d, n) IN IF bs = <<>> THEN 0 ELSE f.ent[Head(bs)].name[n]
Entries(f, d) == {n \in Names : ext2_dir_lookup(f, d, n) # 0}

HasRoom(e) == /\ e.fmt
              /\ Cardinality({n \in Names : e.name[n] # 0}) + (IF e.dots THEN 2 ELSE 0) < DirCap
(* The result has ok FALSE when there is no room, and an entry in lost when *)
(* no table could be allocated for the new block of the directory.          *)
DirGrown(x, d, nb, i, n) ==
    [x.f EXCEPT !.di[d] = [x.di EXCEPT !.size = @ + 1, !.blocks = @ + 1],
                !.ent[nb] = [NoEntries EXCEPT !.fmt = TRUE, !.name[n] = i],
                !.lost = IF x.ok THEN @ ELSE @ \cup {nb}]
ext2_dir_add_entry(f, d, i, n) ==
    LET di == f.di[d]
        bs == SelectSeq(DirBlocks(f, di), LAMBDA b : HasRoom(f.ent[b]))
        nb == alloc_block(f)
    IN  CASE bs # <<>> -> [ok |-> TRUE, f |-> [f EXCEPT !.ent[Head(bs)].name[n] = i]]
          [] nb = 0 -> [ok |-> FALSE, f |-> f]
          [] OTHER -> [ok |-> TRUE,
                       f |-> DirGrown(set_block_num(Taken(f, nb), di, di.size, nb), d, nb, i, n)]

Created(x, i) == IF x.ok THEN [ino |-> i, f |-> x.f]
                 ELSE [ino |-> 0, f |-> free_inode(x.f, i)]
ext2_dir_create(f, d, n) ==
    LET old == ext2_dir_lookup(f, d, n)
        i == alloc_inode(f)
    IN  CASE old # 0 -> [ino |-> old, f |-> f]
          [] i = 0 -> [ino |-> 0, f |-> f]
          [] OTHER -> Created(ext2_dir_add_entry([InodeTaken(f, i) EXCEPT !.di[i] = NewInode(FALSE)],
                                                 d, i, n), i)

DirCreated(x, d, i, b) ==
    IF x.ok THEN [x.f EXCEPT !.di[d].links = @ + 1, !.dirs[GroupOfInode(i)] = @ + 1]
    ELSE free_inode(free_block(x.f, b), i)
ext2_dir_mkdir(f, d, n) ==
    LET i == alloc_inode(f)
        g == InodeTaken(f, i)
        b == alloc_block(g)
        new == [NewInode(TRUE) EXCEPT !.size = 1, !.blocks = 1, !.blk[1] = b]
    IN  CASE ext2_dir_lookup(f, d, n) # 0 \/ i = 0 -> f
          [] b = 0 -> free_inode(g, i)
          [] OTHER -> DirCreated(ext2_dir_add_entry([Taken(g, b) EXCEPT !.ent[b] = Dots, !.di[i] = new],
                                                    d, i, n), d, i, b)

Removed(f, i) == [free_inode(free_all_blocks(f, f.di[i]), i)
                      EXCEPT !.di[i].links = 0, !.di[i].size = 0, !.di[i].blocks = 0,
                             !.di[i].blk = NoBlocks]
ext2_dir_unlink(f, d, n) ==
    LET i == ext2_dir_lookup(f, d, n)
        b == Head(Holding(f, d, n))
        g == [Removed(f, i) EXCEPT !.ent[b].name[n] = 0]
        less(k, least) == IF k > least THEN k - 1 ELSE k
    IN  CASE i = 0 -> f
          [] f.di[i].dir -> [g EXCEPT !.di[d].links = less(@, 1),
                                      !.dirs[GroupOfInode(i)] = less(@, 0)]
          [] OTHER -> g
-----------------------------------------------------------------------------
(* The system calls.                                                        *)
Paths == UNION {[1 .. k -> Names] : k \in 1 .. 2}
vfs_lookup(p) ==
    LET walk[k \in 0 .. Len(p)] ==
            IF k = 0 THEN Root
            ELSE LET d == walk[k - 1]
                 IN  IF d # 0 /\ fs.di[d].dir THEN ext2_dir_lookup(fs, d, p[k]) ELSE 0
    IN  walk[Len(p)]
IsDir(i) == i # 0 /\ fs.di[i].dir
IsFile(i) == i # 0 /\ ~fs.di[i].dir

Holds(t, w) == CASE w = "fd" -> fd[t]
                 [] w \in DOMAIN call[t] -> call[t][w]
                 [] OTHER -> 0
MayCall(t) == call[t] = Idle /\ calls < MaxCalls
EnterCall(t, c) == call' = [call EXCEPT ![t] = c] /\ calls' = calls + 1
Return(t) == call' = [call EXCEPT ![t] = Idle] /\ calls' = calls
Kept(t, ws) == stale \ ({t} \X ws)
InCall == {"dir", "src", "dst"}
Spoils(bad) == spoiled' = (spoiled \/ bad)

(* open: the file is there, or its directory is and it will be created.     *)
vfs_open(t, p) ==
    /\ MayCall(t) /\ fd[t] = 0 /\ IsFile(vfs_lookup(p))
    /\ EnterCall(t, Idle)
    /\ fd' = [fd EXCEPT ![t] = vfs_lookup(p)]
    /\ UNCHANGED <<fs, stale, spoiled>>
vfs_open_creat(t, p) ==
    /\ MayCall(t) /\ fd[t] = 0
    /\ vfs_lookup(p) = 0 /\ IsDir(vfs_lookup(Front(p)))
    /\ EnterCall(t, [op |-> "create", dir |-> vfs_lookup(Front(p)), name |-> Last(p)])
    /\ UNCHANGED <<fs, fd, stale, spoiled>>
Create(t) ==
    /\ call[t].op = "create"
    /\ \E x \in {ext2_dir_create(fs, call[t].dir, call[t].name)} :
          /\ fs' = x.f
          /\ fd' = [fd EXCEPT ![t] = IF x.ino # 0 /\ ~x.f.di[x.ino].dir THEN x.ino ELSE 0]
          /\ Spoils(<<t, "dir">> \in stale \/ x.f.lost # fs.lost)
    /\ stale' = Kept(t, InCall)
    /\ Return(t)
vfs_close(t) == /\ fd[t] # 0 /\ call[t] = Idle
                /\ fd' = [fd EXCEPT ![t] = 0] /\ stale' = Kept(t, {"fd"})
                /\ UNCHANGED <<fs, call, calls, spoiled>>

vfs_mkdir(t, p) ==
    /\ MayCall(t) /\ IsDir(vfs_lookup(Front(p)))
    /\ EnterCall(t, [op |-> "mkdir", dir |-> vfs_lookup(Front(p)), name |-> Last(p)])
    /\ UNCHANGED <<fs, fd, stale, spoiled>>
Mkdir(t) ==
    /\ call[t].op = "mkdir"
    /\ fs' = ext2_dir_mkdir(fs, call[t].dir, call[t].name)
    /\ Spoils(<<t, "dir">> \in stale \/ fs'.lost # fs.lost)
    /\ stale' = Kept(t, InCall)
    /\ Return(t) /\ UNCHANGED fd

(* unlink and rmdir: check_target, then the operation of the directory,     *)
(* which looks at nothing but the name.                                     *)
remove_entry(t, p, want_dir) ==
    LET i == vfs_lookup(p)
    IN  /\ MayCall(t)
        /\ IF want_dir THEN IsDir(i) /\ Entries(fs, i) = {} ELSE IsFile(i)
        /\ EnterCall(t, [op |-> "unlink", dir |-> vfs_lookup(Front(p)), name |-> Last(p)])
        /\ UNCHANGED <<fs, fd, stale, spoiled>>
Unlink(t) ==
    LET d == call[t].dir
        i == ext2_dir_lookup(fs, d, call[t].name)
    IN  /\ call[t].op = "unlink"
        /\ fs' = ext2_dir_unlink(fs, d, call[t].name)
        /\ Spoils(<<t, "dir">> \in stale \/ (IsDir(i) /\ Entries(fs, i) # {}))
        /\ stale' = (stale \cup {h \in Task \X (InCall \cup {"fd"}) : i # 0 /\ Holds(h[1], h[2]) = i})
                    \ ({t} \X InCall)
        /\ Return(t) /\ UNCHANGED fd

vfs_write(t, from, n) ==
    /\ MayCall(t) /\ fd[t] # 0 /\ EnterCall(t, Idle)
    /\ fs' = ext2_file_write(fs, fd[t], from, n).f
    /\ Spoils(<<t, "fd">> \in stale)
    /\ UNCHANGED <<fd, stale>>
vfs_ftruncate(t, size) ==
    /\ MayCall(t) /\ fd[t] # 0 /\ EnterCall(t, Idle)
    /\ fs' = ext2_file_truncate(fs, fd[t], size)
    /\ Spoils(<<t, "fd">> \in stale)
    /\ UNCHANGED <<fd, stale>>

(* rename creates or empties the new file, copies block by block whatever   *)
(* the writes return (nothing of a directory), and removes the old name     *)
(* without a check.                                                         *)
sys_rename(t, p, q) ==
    LET src == vfs_lookup(p)
        new == IF IsDir(vfs_lookup(q)) THEN Append(q, Last(p)) ELSE q
    IN  /\ MayCall(t) /\ src # 0
        /\ ~IsDir(vfs_lookup(new)) /\ IsDir(vfs_lookup(Front(new)))
        /\ EnterCall(t, [op |-> IF vfs_lookup(new) = 0 THEN "rename" ELSE "empty",
                     src |-> IF IsDir(src) THEN 0 ELSE src, dst |-> vfs_lookup(new),
                     dir |-> vfs_lookup(Front(new)), name |-> Last(new),
                     from |-> p, rpos |-> 0, wpos |-> 0])
        /\ UNCHANGED <<fs, fd, stale, spoiled>>
RenameCreate(t) ==
    /\ call[t].op = "rename"
    /\ \E x \in {ext2_dir_create(fs, call[t].dir, call[t].name)} :
          LET ok == x.ino # 0 /\ ~x.f.di[x.ino].dir
          IN  /\ fs' = x.f
              /\ Spoils(<<t, "dir">> \in stale \/ x.f.lost # fs.lost)
              /\ call' = [call EXCEPT ![t] = IF ok THEN [@ EXCEPT !.op = "empty", !.dst = x.ino] ELSE Idle]
              /\ stale' = Kept(t, IF ok THEN {"dst"} ELSE InCall)
    /\ UNCHANGED <<fd, calls>>
RenameEmpty(t) ==
    /\ call[t].op = "empty"
    /\ fs' = ext2_file_truncate(fs, call[t].dst, 0)
    /\ Spoils(<<t, "dst">> \in stale)
    /\ call' = [call EXCEPT ![t].op = "copy"]
    /\ UNCHANGED <<fd, stale, calls>>
Copying(c) == c.src # 0 /\ c.rpos < fs.di[c.src].size
RenameCopy(t) ==
    /\ call[t].op = "copy" /\ Copying(call[t])
    /\ \E x \in {ext2_file_write(fs, call[t].dst, call[t].wpos, 1)} :
          /\ fs' = x.f
          /\ call' = [call EXCEPT ![t].rpos = @ + 1, ![t].wpos = @ + x.n]
    /\ Spoils(<<t, "dst">> \in stale)
    /\ UNCHANGED <<fd, stale, calls>>
RenameRemove(t) ==
    LET d == vfs_lookup(Front(call[t].from))
    IN  /\ call[t].op = "copy" /\ ~Copying(call[t])
        /\ call' = [call EXCEPT ![t] = IF IsDir(d)
                        THEN [op |-> "unlink", dir |-> d, name |-> Last(call[t].from)] ELSE Idle]
        /\ stale' = Kept(t, InCall)
        /\ UNCHANGED <<fs, fd, spoiled, calls>>

XNext == \E t \in Task :
            \/ \E p \in Paths : \/ vfs_open(t, p) \/ vfs_open_creat(t, p) \/ vfs_mkdir(t, p)
                                \/ \E want_dir \in BOOLEAN : remove_entry(t, p, want_dir)
                                \/ \E q \in Paths : sys_rename(t, p, q)
            \/ Create(t) \/ Mkdir(t) \/ Unlink(t) \/ vfs_close(t)
            \/ RenameCreate(t) \/ RenameEmpty(t) \/ RenameCopy(t) \/ RenameRemove(t)
            \/ \E from \in Offsets, n \in Lengths : vfs_write(t, from, n)
            \/ \E size \in Sizes : vfs_ftruncate(t, size)
XSpec == XInit /\ [][XNext]_xvars
-----------------------------------------------------------------------------
Pieces(i) == Owned(fs, fs.di[i])
Own(i) == Range(Pieces(i))
SubDirs(d) == {n \in Entries(fs, d) : fs.di[ext2_dir_lookup(fs, d, n)].dir}

(* Whatever the sizes files are given, wherever the disk is full, and in    *)
(* whatever order tasks create and remove names: a block in use belongs to  *)
(* one inode, in one place, or was lost by a write that found no room for a *)
(* table; the counts of the groups are those of the bitmaps; an inode in    *)
(* use has one name and the count of links and blocks that go with it.      *)
(* Until an operation has used a vnode whose inode was freed in the         *)
(* meantime, a directory with entries was removed (rename of a directory;   *)
(* rmdir while somebody creates), or the entry of a new file was lost.      *)
BlocksRight ==
    /\ \A i \in fs.ibm : IsInjective(Pieces(i))
    /\ \A i, j \in fs.ibm : i # j => Own(i) \cap Own(j) = {}
    /\ fs.bbm = UNION {Own(i) : i \in fs.ibm} \cup fs.lost
    /\ fs.lost = {} => \A i \in fs.ibm : fs.di[i].blocks = Len(Pieces(i))
CountsRight ==
    \A g \in Groups :
        /\ fs.bfree[g] = Cardinality({b \in BlockNo \ fs.bbm : GroupOfBlock(b) = g})
        /\ fs.ifree[g] = Cardinality({i \in Ino \ fs.ibm : GroupOfInode(i) = g})
        /\ fs.dirs[g] = Cardinality({i \in fs.ibm : GroupOfInode(i) = g /\ fs.di[i].dir})
Named == {<<d, n>> \in {i \in fs.ibm : fs.di[i].dir} \X Names : ext2_dir_lookup(fs, d, n) # 0}
NamesRight ==
    /\ {ext2_dir_lookup(fs, e[1], e[2]) : e \in Named} = fs.ibm \ {Root}
    /\ Cardinality(Named) = Cardinality(fs.ibm) - 1
    /\ \A i \in fs.ibm : fs.di[i].links = IF fs.di[i].dir THEN 2 + Cardinality(SubDirs(i)) ELSE 1
Consistent == ~spoiled => BlocksRight /\ CountsRight /\ NamesRight
=============================================================================
