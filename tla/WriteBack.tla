------------------------------ MODULE WriteBack ------------------------------
(***************************************************************************)
(* The block cache of ext2 (kernel/src/fs/ext2.c).  Every operation of the  *)
(* file system holds fs_lock, so the calls below do not overlap; what makes *)
(* the cache hard is that the device may refuse any write or read, that the *)
(* machine may stop at any time, and that four paths reach the disk: the    *)
(* cache, file data written through it or around it, inodes, and the        *)
(* read-ahead buffers.                                                      *)
(*                                                                         *)
(* Two modes.  Without a journal the cache is persistent and holds dirty    *)
(* blocks until ext2_sync.  With one it only works inside a bracket         *)
(* wb_begin ... wb_end and is emptied at its end (jbd2_write_enabled is 0,  *)
(* so fs->cur_txn stays NULL).                                              *)
(*                                                                         *)
(* Slots are named by the block they hold: wb_slot looks a block up before  *)
(* it takes a slot.  Which slot is the oldest is left open, tick wraps.     *)
(***************************************************************************)
EXTENDS Naturals, FiniteSets

CONSTANTS Block,        \* blocks other than the superblock and the descriptors
          InodeBlock,   \* those of the inode tables
          Part,         \* the inodes of a block
          Val,
          WB_SLOTS,
          NoBuf         \* a block without a buffer

Content == [Part -> Val]
Uniform == {[p \in Part |-> v] : v \in Val}
Pool == Block \ InodeBlock

ASSUME WbAssumption == /\ InodeBlock \subseteq Block /\ IsFiniteSet(Block)
                       /\ NoBuf \notin Content /\ WB_SLOTS \in Nat \ {0}

VARIABLES disk,         \* the device
          persistent,   \* no journal
          wb,           \* fs->wb is allocated
          buf,          \* the buffer of each cached block
          dirty,        \* cached blocks marked dirty
          ndirty, depth,
          ra,           \* read-ahead buffers
          kind,         \* use of each block of the pool
          fsdirty,      \* fs->dirty
          super,        \* the superblock and descriptors on disk are the current ones
          bad           \* history: blocks whose last write the device refused

cache == <<wb, buf, dirty, ndirty, depth>>
meta == <<kind, fsdirty, super>>
vars == <<disk, persistent, cache, ra, meta, bad>>

cached == {b \in Block : buf[b] # NoBuf}
Empty == [b \in Block |-> NoBuf]

Init == /\ disk \in [Block -> Uniform] /\ persistent \in BOOLEAN
        /\ wb \in BOOLEAN /\ buf = Empty /\ dirty = {} /\ ndirty = 0 /\ depth = 0
        /\ ra = Empty /\ bad = {}
        /\ kind \in [Pool -> {"free", "meta", "data"}]
        /\ fsdirty \in BOOLEAN /\ super = ~fsdirty
-----------------------------------------------------------------------------
(* The slots. *)
wb_usable(b) == wb /\ (persistent \/ (b \in Pool /\ depth > 0))

(* The disk once the buffers of the blocks w are written. *)
WrittenTwice(w) == [b \in Block |-> IF b \in w THEN buf[CHOOSE x \in w : TRUE] ELSE disk[b]]
Written(w) == [b \in Block |-> IF b \in w THEN buf[b] ELSE disk[b]]

(* wb_flush_all and wb_flush_slot on the dirty blocks d: the device takes   *)
(* the writes of w and reports success for those of c.                      *)
Flush(d, w, c) == c \subseteq w /\ w \subseteq d

(* The dirty blocks that are flushed before the slots of out are taken.     *)
AllDirty == IF ndirty = 0 THEN {} ELSE dirty
FlushedNothing(out) == {}
Flushed(out) == IF out \cap dirty = {} THEN {} ELSE IF persistent THEN AllDirty ELSE out

(* wb_slot on a miss: a slot is free or the block in out gives up its own,  *)
(* and the call fails when the flush does or when the block cannot be read. *)
Victims(b) == IF wb_usable(b) /\ b \notin cached /\ Cardinality(cached) >= WB_SLOTS
              THEN {{x} : x \in cached} ELSE {{}}
wb_slot(b, load, out, w, c, ok) ==
    /\ out \in Victims(b)
    /\ Flush(Flushed(out), w, c)
    /\ ok => c = Flushed(out)
    /\ (b \in cached \/ (~load /\ c = Flushed(out))) => ok

(* What the call leaves, with the content v in the slot of b if it worked.  *)
Gone(out, c) == IF c = Flushed(out) THEN out ELSE {}
SlotHolds(b, v, out, c, ok) ==
    buf' = [x \in Block |-> IF x = b /\ ok THEN v
                            ELSE IF x \in Gone(out, c) THEN NoBuf ELSE buf[x]]

(* wb_mark_dirty and wb_mark_clean keep ndirty in step. *)
MarkDirty(b, c) == /\ dirty' = (dirty \ c) \cup {b}
                   /\ ndirty' = (ndirty - Cardinality(c)) + (IF b \in dirty \ c THEN 0 ELSE 1)
MarkCleanAgain(c) == dirty' = dirty \ c /\ ndirty' = ndirty - Cardinality(c)
MarkClean(c) == /\ dirty' = dirty \ c
                /\ ndirty' = ndirty - Cardinality(dirty \cap c)

(* wb_forget drops the blocks of S. *)
Forget(S) == /\ buf' = [b \in Block |-> IF b \in S THEN NoBuf ELSE buf[b]]
             /\ MarkClean(S)

(* What a read of b returns. *)
cur(b) == IF buf[b] # NoBuf THEN buf[b] ELSE disk[b]
-----------------------------------------------------------------------------
(* ext2_block_read and inode_read through the cache.  A read of the device  *)
(* changes nothing.                                                         *)
Read(b, out, w, c, ok) ==
    /\ wb_usable(b) /\ (b \in Pool => kind[b] # "free")
    /\ wb_slot(b, TRUE, out, w, c, ok)
    /\ disk' = Written(w)
    /\ SlotHolds(b, cur(b), out, c, ok)
    /\ MarkClean(c)
    /\ UNCHANGED <<persistent, wb, depth, ra, meta, bad>>

(* A block of the pool is allocated when it is first used; alloc_block and  *)
(* free_block change the superblock and the descriptors in memory.          *)
Use(b, k) == /\ b \in Pool /\ kind[b] \in {"free", k}
             /\ kind' = [kind EXCEPT ![b] = k]
             /\ IF kind[b] = k THEN UNCHANGED <<fsdirty, super>> ELSE fsdirty' = TRUE /\ super' = FALSE

(* ext2_block_write: into the cache, ... *)
BlockWrite(b, v, out, w, c) ==
    /\ wb_usable(b) /\ Use(b, "meta")
    /\ wb_slot(b, FALSE, out, w, c, TRUE)
    /\ disk' = Written(w)
    /\ SlotHolds(b, v, out, c, TRUE)
    /\ MarkDirty(b, c)
    /\ bad' = bad \ {b}
    /\ UNCHANGED <<persistent, wb, depth, ra>>

(* ... or to the device, if the cache is not in use or found no slot.       *)
BlockWriteRaw(b, v, out, w, c, done) ==
    /\ Use(b, "meta")
    /\ IF wb_usable(b) THEN wb_slot(b, FALSE, out, w, c, FALSE) ELSE out = {} /\ w = {} /\ c = {}
    /\ disk' = IF done THEN [Written(w) EXCEPT ![b] = v] ELSE Written(w)
    /\ bad' = IF done THEN bad \ {b} ELSE bad \cup {b}
    /\ MarkClean(c)
    /\ UNCHANGED <<persistent, wb, buf, depth, ra>>

(* inode_write patches the inode's part of the block, in the cache ... *)
InodeWrite(b, p, v, out, w, c) ==
    /\ wb_usable(b) /\ b \in InodeBlock
    /\ wb_slot(b, TRUE, out, w, c, TRUE)
    /\ disk' = Written(w)
    /\ SlotHolds(b, [cur(b) EXCEPT ![p] = v], out, c, TRUE)
    /\ MarkDirty(b, c)
    /\ UNCHANGED <<persistent, wb, depth, ra, meta, bad>>

(* ... or on the device. *)
InodeWriteRaw(b, p, v, out, w, c, done) ==
    /\ b \in InodeBlock
    /\ IF wb_usable(b) THEN wb_slot(b, TRUE, out, w, c, FALSE) ELSE out = {} /\ w = {} /\ c = {}
    /\ disk' = IF done THEN [Written(w) EXCEPT ![b] = [disk[b] EXCEPT ![p] = v]] ELSE Written(w)
    /\ buf' = [x \in Block |-> IF x \in Gone(out, c) THEN NoBuf ELSE buf[x]]
    /\ MarkClean(c)
    /\ UNCHANGED <<persistent, wb, depth, ra, meta, bad>>

(* ext2_block_write_data: file data goes to the device, and into the slot   *)
(* of the block if it has one.                                              *)
WriteData(b, v, done) ==
    /\ Use(b, "data")
    /\ ra' = Empty
    /\ buf' = IF b \in cached THEN [buf EXCEPT ![b] = v] ELSE buf
    /\ MarkClean({b})
    /\ disk' = IF done THEN [disk EXCEPT ![b] = v] ELSE disk
    /\ bad' = IF done THEN bad \ {b} ELSE bad \cup {b}
    /\ UNCHANGED <<persistent, wb, depth>>

(* run_flush: whole blocks of file data go to the device in one request,    *)
(* which may fail with some of them written.                                *)
RunFlush(S, v, w) ==
    /\ \A b \in S : kind[b] \in {"free", "data"}
    /\ kind' = [b \in Pool |-> IF b \in S THEN "data" ELSE kind[b]]
    /\ IF \E b \in S : kind[b] = "free" THEN fsdirty' = TRUE /\ super' = FALSE
                                         ELSE UNCHANGED <<fsdirty, super>>
    /\ Forget(S)
    /\ ra' = Empty
    /\ disk' = [b \in Block |-> IF b \in w THEN v ELSE disk[b]]
    /\ bad' = IF w = S THEN bad \ S ELSE bad \cup S
    /\ UNCHANGED <<persistent, wb, depth>>

(* ra_block: a read of file data, ahead of what was asked for, into the     *)
(* buffers of a slot that drops the blocks of out; S is {} if it fails.     *)
Data == {b \in Pool : kind[b] = "data"}
ReadAhead(S, out) ==
    /\ wb /\ \E b \in Data : ra[b] = NoBuf /\ (S = {} \/ b \in S)
    /\ ra' = [b \in Block |-> IF b \in S THEN disk[b] ELSE IF b \in out THEN NoBuf ELSE ra[b]]
    /\ UNCHANGED <<disk, persistent, cache, meta, bad>>

(* free_block, apart from the bitmap. *)
FreeBlock(b) ==
    /\ kind[b] # "free"
    /\ kind' = [kind EXCEPT ![b] = "free"]
    /\ fsdirty' = TRUE /\ super' = FALSE
    /\ ra' = Empty
    /\ UNCHANGED <<disk, persistent, cache, bad>>

(* wb_begin, which allocates the cache if mount could not, and wb_end, which *)
(* empties a cache that is not persistent, its blocks on disk or not.  The  *)
(* file system does not nest the brackets.                                  *)
Begin == /\ depth = 0 /\ depth' = 1 /\ wb' = TRUE
         /\ UNCHANGED <<disk, persistent, buf, dirty, ndirty, ra, meta, bad>>

End(w) == /\ depth = 1 /\ depth' = 0
          /\ IF persistent
             THEN w = {} /\ UNCHANGED <<disk, buf, dirty, ndirty, bad>>
             ELSE /\ w \subseteq dirty /\ disk' = Written(w)
                  /\ buf' = Empty /\ dirty' = {} /\ ndirty' = 0
                  /\ bad' = bad \cup (dirty \ w)
          /\ UNCHANGED <<persistent, wb, ra, meta>>

(* ext2_sync, from sync, fsync, umount and syncd: the cache, then the       *)
(* superblock and the descriptors, which reach the disk if ok.  A bracket   *)
(* lies within one hold of fs_lock, and so outside this one.                *)
Sync(w, c, ok) ==
    /\ depth = 0 /\ (fsdirty \/ ndirty > 0)
    /\ Flush(AllDirty, w, c)
    /\ disk' = Written(w)
    /\ MarkClean(c)
    /\ super' = (super \/ (fsdirty /\ ok)) /\ fsdirty' = FALSE
    /\ UNCHANGED <<persistent, wb, buf, depth, ra, kind, bad>>

(* The machine stops, or the volume is unmounted, and it is mounted again.  *)
(* What the blocks are for is read from the disk; ext2_mount itself may     *)
(* change the descriptors.                                                  *)
Remount == /\ wb' \in BOOLEAN /\ buf' = Empty /\ dirty' = {} /\ ndirty' = 0 /\ depth' = 0
           /\ ra' = Empty /\ bad' = {}
           /\ kind' \in [Pool -> {"free", "meta", "data"}]
           /\ fsdirty' \in BOOLEAN /\ super' = ~fsdirty'
           /\ UNCHANGED <<disk, persistent>>

Next == \/ \E b \in Block : \E out \in Victims(b) : \E w \in SUBSET Flushed(out), c \in SUBSET Flushed(out) :
              \/ \E ok \in BOOLEAN : Read(b, out, w, c, ok)
              \/ \E v \in Uniform : BlockWrite(b, v, out, w, c)
              \/ \E v \in Uniform, ok \in BOOLEAN : BlockWriteRaw(b, v, out, w, c, ok)
              \/ \E p \in Part, v \in Val : InodeWrite(b, p, v, out, w, c)
              \/ \E p \in Part, v \in Val, ok \in BOOLEAN : InodeWriteRaw(b, p, v, out, w, c, ok)
        \/ \E w \in SUBSET dirty, c \in SUBSET dirty, ok \in BOOLEAN : Sync(w, c, ok)
        \/ \E b \in Pool, v \in Uniform, ok \in BOOLEAN : WriteData(b, v, ok)
        \/ \E S \in SUBSET Pool \ {{}} : \E w \in SUBSET S, v \in Uniform : RunFlush(S, v, w)
        \/ \E S \in SUBSET Data, out \in SUBSET {b \in Pool : ra[b] # NoBuf} : ReadAhead(S, out)
        \/ \E b \in Pool : FreeBlock(b)
        \/ Begin
        \/ \E w \in SUBSET dirty : End(w)
        \/ Remount

Spec == Init /\ [][Next]_vars
-----------------------------------------------------------------------------
(* Every variable stays in its type, and only cached blocks are dirty. *)
TypeOK == /\ disk \in [Block -> Content] /\ persistent \in BOOLEAN /\ wb \in BOOLEAN
          /\ buf \in [Block -> Content \cup {NoBuf}] /\ dirty \in SUBSET cached
          /\ ndirty \in Nat /\ depth \in 0..1
          /\ ra \in [Block -> Content \cup {NoBuf}]
          /\ kind \in [Pool -> {"free", "meta", "data"}]
          /\ fsdirty \in BOOLEAN /\ super \in BOOLEAN /\ bad \in SUBSET Block

(* ndirty, by which wb_flush_all and ext2_sync decide that there is nothing *)
(* to do, counts the dirty slots, and no more slots are in use than exist.  *)
CountInv == ndirty = Cardinality(dirty) /\ Cardinality(cached) <= WB_SLOTS

(* A clean buffer may be dropped at any time: the disk has its content.     *)
CleanOnDisk == \A b \in cached \ (dirty \cup bad) : buf[b] = disk[b]

(* File data is read from the disk and from the read-ahead buffers, around  *)
(* the cache: the cache never holds a newer copy of it, nor an older one    *)
(* that a flush would put over it, and no read-ahead buffer is stale.       *)
DataCoherent == \A b \in Pool : kind[b] = "data" =>
                   /\ b \notin dirty
                   /\ b \notin bad => ra[b] \in {NoBuf, disk[b]} /\ buf[b] \in {NoBuf, disk[b]}

(* A cache that is not persistent is empty outside wb_begin ... wb_end, and *)
(* never holds inodes: both are read and written around it then.            *)
ModeInv == /\ wb \/ cached = {}
           /\ persistent \/ cached \subseteq Pool
           /\ persistent \/ depth > 0 \/ cached = {}

(* A sync to which the device refuses nothing leaves every block on disk.   *)
SyncDurable == [][Sync(AllDirty, AllDirty, TRUE) => \A b \in Block \ bad : disk'[b] = cur(b)]_vars

(* ... and the superblock and the descriptors ("Writes buffered data out to *)
(* the device. sync flushes every filesystem", sync.2).                     *)
SuperSynced == [][Sync(AllDirty, AllDirty, TRUE) => super']_vars

(* What the step writes to the block b, on behalf of the file system. *)
Writes(b, v) ==
    \/ \E out \in Victims(b) : \E w \in SUBSET Flushed(out), c \in SUBSET Flushed(out) :
          \/ BlockWrite(b, v, out, w, c) \/ BlockWriteRaw(b, v, out, w, c, TRUE)
          \/ \E p \in Part, x \in Val :
                /\ InodeWrite(b, p, x, out, w, c) \/ InodeWriteRaw(b, p, x, out, w, c, TRUE)
                /\ v = [cur(b) EXCEPT ![p] = x]
    \/ WriteData(b, v, TRUE)
    \/ \E S \in SUBSET Pool : b \in S /\ RunFlush(S, v, S)

(* A block reads as it was last written: only a write of it changes what it *)
(* reads as, and to what was written.  Hits, misses, evictions, flushes,    *)
(* the end of a bracket and the paths around the cache do not, unless the   *)
(* device refused to write the block.                                       *)
ReadsLastWritten == [][Remount \/ \A b \in Block \ (bad \cup bad') :
                          cur(b)' # cur(b) => Writes(b, cur(b)')]_vars

(* What a crash leaves of a block is a content it has had.                  *)
DiskFollows == [][\A b \in Block : disk'[b] \in {disk[b], cur(b), cur(b)'}]_vars
=============================================================================
