---------------------------- MODULE TableProofs -------------------------------
(***************************************************************************)
(* What the kernel keeps in tables and lists: the cached blocks of a file   *)
(* system, record locks, slabs and Unix-domain sockets, for any number of   *)
(* blocks, owners, CPUs and sockets and any sizes.                          *)
(***************************************************************************)
EXTENDS WriteBack, Flock, Slab, Unix, FiniteSetTheorems, TLAPS

(* WriteBack: the invariant is inductive, and the action properties follow  *)
(* from it.                                                                 *)
IInv == TypeOK /\ CountInv /\ CleanOnDisk /\ DataCoherent /\ ModeInv

(* dirty and cached are finite, and ndirty = 0 means that nothing is dirty. *)
LEMMA Finite == IInv => /\ IsFiniteSet(dirty) /\ IsFiniteSet(cached)
                        /\ Cardinality(dirty) \in Nat /\ Cardinality(cached) \in Nat
                        /\ AllDirty = dirty
<1> SUFFICES ASSUME IInv PROVE /\ IsFiniteSet(dirty) /\ IsFiniteSet(cached)
                               /\ Cardinality(dirty) \in Nat /\ Cardinality(cached) \in Nat
                               /\ AllDirty = dirty
      BY Zenon
<1>1. cached \subseteq Block /\ dirty \subseteq Block
      BY Zenon DEF IInv, TypeOK, cached
<1>2. IsFiniteSet(dirty) /\ IsFiniteSet(cached)
      BY <1>1, WbAssumption, FS_Subset, Zenon
<1>3. Cardinality(dirty) \in Nat /\ Cardinality(cached) \in Nat
      BY <1>2, FS_CardinalityType, Zenon
<1>4. AllDirty = dirty
      BY <1>2, FS_EmptySet, Zenon DEF IInv, CountInv, AllDirty
<1> QED BY <1>2, <1>3, <1>4, Zenon

(* wb_mark_clean and wb_mark_dirty keep the count. *)
LEMMA CountClean == ASSUME IInv, NEW c, MarkClean(c)
                    PROVE  ndirty' = Cardinality(dirty') /\ ndirty' \in Nat
<1>1. /\ IsFiniteSet(dirty \ c) /\ IsFiniteSet(dirty \cap c)
      /\ Cardinality(dirty \ c) = Cardinality(dirty) - Cardinality(dirty \cap c)
      BY ZenonT(60), Finite, FS_Difference, FS_Intersection
<1>2. Cardinality(dirty \ c) \in Nat
      BY <1>1, FS_CardinalityType, Zenon
<1> QED BY <1>1, <1>2, Zenon DEF MarkClean, IInv, CountInv

LEMMA CountDirty == ASSUME IInv, NEW b, NEW c, c \subseteq dirty, MarkDirty(b, c)
                    PROVE  ndirty' = Cardinality(dirty') /\ ndirty' \in Nat
<1>0. dirty \cap c = c
      BY Zenon
<1>1. /\ IsFiniteSet(dirty \ c)
      /\ Cardinality(dirty \ c) = Cardinality(dirty) - Cardinality(c)
      BY ZenonT(60), <1>0, Finite, FS_Difference
<1>2. Cardinality(dirty \ c) \in Nat
      BY <1>1, FS_CardinalityType, Zenon
<1>3. Cardinality((dirty \ c) \cup {b}) =
         IF b \in dirty \ c THEN Cardinality(dirty \ c) ELSE Cardinality(dirty \ c) + 1
      BY <1>1, FS_AddElement, Zenon
<1> QED BY <1>1, <1>2, <1>3 DEF MarkDirty, IInv, CountInv

(* What wb_slot does, whatever the caller puts into the slot: the blocks    *)
(* that lose theirs are clean by then, and the slots suffice.               *)
SlotTaken(b, out, w, c, ok) ==
    /\ c \subseteq w /\ w \subseteq dirty
    /\ Gone(out, c) \subseteq cached \ (dirty \ c)
    /\ b \notin Gone(out, c)
    /\ buf' \in [Block -> Content \cup {NoBuf}]
    /\ cached' = (cached \ Gone(out, c)) \cup (IF ok THEN {b} ELSE {})
    /\ Cardinality(cached') <= WB_SLOTS

LEMMA SlotStep == ASSUME IInv, NEW b \in Block, NEW load, NEW out, NEW w, NEW c, NEW ok,
                         NEW v \in Content, wb_usable(b),
                         wb_slot(b, load, out, w, c, ok), SlotHolds(b, v, out, c, ok)
                  PROVE  SlotTaken(b, out, w, c, ok)
<1> DEFINE g == Gone(out, c)
<1>1. out \in Victims(b) /\ c \subseteq w /\ w \subseteq Flushed(out)
      BY Zenon DEF wb_slot, Flush
<1>2. Flushed(out) \subseteq dirty /\ out \cap dirty \subseteq Flushed(out)
      <2>1. out \subseteq cached /\ (out = {} \/ \E x \in cached : out = {x})
            BY <1>1, Zenon DEF Victims
      <2> QED BY <2>1, Finite, Zenon DEF Flushed
<1>3. g \subseteq cached \ (dirty \ c) /\ b \notin g
      BY <1>1, <1>2, Zenon DEF Gone, Victims
<1>4. buf' \in [Block -> Content \cup {NoBuf}]
      BY Zenon DEF SlotHolds, IInv, TypeOK
<1>5. cached' = (cached \ g) \cup (IF ok THEN {b} ELSE {})
      BY <1>3, WbAssumption, Zenon DEF SlotHolds, cached
<1>6. Cardinality(cached') <= WB_SLOTS
      <2>1. Cardinality(cached) <= WB_SLOTS /\ WB_SLOTS \in Nat
            BY WbAssumption, Zenon DEF IInv, CountInv
      <2>2. CASE ~ok \/ b \in cached
            <3>1. cached' \subseteq cached
                  BY <2>2, <1>5, Zenon
            <3> QED BY <3>1, <2>1, Finite, FS_Subset, FS_CardinalityType
      <2>3. CASE ok /\ b \notin cached
            <3>1. c = Flushed(out)
                  BY <2>3, Zenon DEF wb_slot
            <3>2. cached' = (cached \ out) \cup {b}
                  BY <2>3, <3>1, <1>5, Zenon DEF Gone
            <3>3. CASE out = {}
                  <4>1. Cardinality(cached) < WB_SLOTS
                        BY <3>3, <2>1, <2>3, <1>1, Finite DEF Victims
                  <4>2. cached' = cached \cup {b}
                        BY <3>2, <3>3, Zenon
                  <4>3. Cardinality(cached \cup {b}) = Cardinality(cached) + 1
                        BY ZenonT(60), <2>3, Finite, FS_AddElement
                  <4> QED BY <4>1, <4>2, <4>3, <2>1, Finite
            <3>4. CASE out # {}
                  <4>1. PICK x \in cached : out = {x}
                        BY <3>4, <1>1, Zenon DEF Victims
                  <4>2. IsFiniteSet(cached \ {x}) /\ Cardinality(cached \ {x}) = Cardinality(cached) - 1
                        BY <4>1, Finite, FS_RemoveElement, Zenon
                  <4>3. Cardinality((cached \ {x}) \cup {b}) = Cardinality(cached \ {x}) + 1
                        BY ZenonT(60), <4>2, <2>3, FS_AddElement
                  <4>4. cached' = (cached \ {x}) \cup {b}
                        BY <3>2, <4>1, Zenon
                  <4> QED BY <4>2, <4>3, <4>4, <2>1, Finite
            <3> QED BY <3>3, <3>4, Zenon
      <2> QED BY <2>2, <2>3, Zenon
<1> QED BY <1>1, <1>2, <1>3, <1>4, <1>5, <1>6, Zenon DEF SlotTaken

(* The disk after a flush. *)
LEMMA WrittenType == ASSUME IInv, NEW w, w \subseteq dirty
                     PROVE  /\ Written(w) \in [Block -> Content]
                            /\ \A b \in Block : Written(w)[b] = IF b \in w THEN buf[b] ELSE disk[b]
      BY Zenon DEF IInv, TypeOK, cached, Written

LEMMA CurType == IInv => \A b \in Block : cur(b) \in Content
      BY Zenon DEF IInv, TypeOK, cur

LEMMA UniformType == Uniform \subseteq Content
      BY Zenon DEF Uniform, Content

(* Read: nothing becomes dirty, and what is loaded is what the disk holds.  *)
LEMMA ReadStep == ASSUME IInv, NEW b \in Block, NEW out, NEW w, NEW c, NEW ok \in BOOLEAN,
                         Read(b, out, w, c, ok)
                  PROVE  IInv'
<1> DEFINE g == Gone(out, c)
<1>1. /\ c \subseteq w /\ w \subseteq dirty /\ g \subseteq cached \ (dirty \ c) /\ b \notin g
      /\ buf' \in [Block -> Content \cup {NoBuf}]
      /\ cached' = (cached \ g) \cup (IF ok THEN {b} ELSE {})
      /\ Cardinality(cached') <= WB_SLOTS
      <2>1. cur(b) \in Content
            BY CurType, Zenon
      <2>2. wb_usable(b) /\ wb_slot(b, TRUE, out, w, c, ok) /\ SlotHolds(b, cur(b), out, c, ok)
            BY ZenonT(60) DEF Read
      <2>3. SlotTaken(b, out, w, c, ok)
            BY ZenonT(60), <2>1, <2>2, SlotStep
      <2> QED BY <2>3, Zenon DEF SlotTaken
<1>2. /\ disk' \in [Block -> Content]
      /\ \A x \in Block : disk'[x] = IF x \in w THEN buf[x] ELSE disk[x]
      BY <1>1, WrittenType DEF Read
<1>3. /\ ndirty' = Cardinality(dirty') /\ ndirty' \in Nat /\ dirty' = dirty \ c
      BY ZenonT(60), CountClean DEF Read, MarkClean
<1>4. \A x \in Block : buf'[x] = IF x = b /\ ok THEN cur(b) ELSE IF x \in g THEN NoBuf ELSE buf[x]
      BY Zenon DEF Read, SlotHolds
<1>5. /\ UNCHANGED <<persistent, wb, depth, ra, kind, fsdirty, super, bad>> /\ wb_usable(b)
      BY Zenon DEF Read, meta
<1>6. TypeOK'
      BY <1>1, <1>2, <1>3, <1>5, Zenon DEF IInv, TypeOK
<1>7. CleanOnDisk'
      BY SMTT(60), <1>1, <1>2, <1>3, <1>4, <1>5, WbAssumption DEF IInv, TypeOK, CleanOnDisk, cached, cur
<1>8. DataCoherent'
      BY <1>1, <1>2, <1>3, <1>4, <1>5 DEF IInv, TypeOK, DataCoherent, CleanOnDisk, cached, cur, Pool
<1>9. ModeInv'
      BY <1>1, <1>5, Zenon DEF IInv, ModeInv, wb_usable
<1> QED BY <1>1, <1>3, <1>6, <1>7, <1>8, <1>9, Zenon DEF IInv, CountInv

(* ext2_block_write. *)
LEMMA BlockWriteStep == ASSUME IInv, NEW b \in Block, NEW v \in Uniform, NEW out, NEW w, NEW c,
                               BlockWrite(b, v, out, w, c)
                        PROVE  IInv'
<1> DEFINE g == Gone(out, c)
<1>1. /\ c \subseteq w /\ w \subseteq dirty /\ g \subseteq cached \ (dirty \ c) /\ b \notin g
      /\ buf' \in [Block -> Content \cup {NoBuf}]
      /\ cached' = (cached \ g) \cup {b}
      /\ Cardinality(cached') <= WB_SLOTS
      <2>1. v \in Content
            BY UniformType, Zenon
      <2>2. wb_usable(b) /\ wb_slot(b, FALSE, out, w, c, TRUE) /\ SlotHolds(b, v, out, c, TRUE)
            BY ZenonT(60) DEF BlockWrite
      <2>3. SlotTaken(b, out, w, c, TRUE)
            BY ZenonT(60), <2>1, <2>2, SlotStep
      <2> QED BY <2>3, Zenon DEF SlotTaken
<1>2. /\ disk' \in [Block -> Content]
      /\ \A x \in Block : disk'[x] = IF x \in w THEN buf[x] ELSE disk[x]
      BY <1>1, WrittenType DEF BlockWrite
<1>3. /\ ndirty' = Cardinality(dirty') /\ ndirty' \in Nat /\ dirty' = (dirty \ c) \cup {b}
      BY ZenonT(60), <1>1, CountDirty DEF BlockWrite, MarkDirty
<1>4. \A x \in Block : buf'[x] = IF x = b THEN v ELSE IF x \in g THEN NoBuf ELSE buf[x]
      BY Zenon DEF BlockWrite, SlotHolds
<1>5. /\ UNCHANGED <<persistent, wb, depth, ra>> /\ wb_usable(b) /\ bad' = bad \ {b}
      BY Zenon DEF BlockWrite
<1>u. /\ b \in Pool /\ kind[b] # "data" /\ kind' = [kind EXCEPT ![b] = "meta"]
      /\ fsdirty' \in BOOLEAN /\ super' \in BOOLEAN
      BY ZenonT(60) DEF BlockWrite, Use, IInv, TypeOK
<1>6. TypeOK'
      BY <1>1, <1>2, <1>3, <1>5, <1>u, Zenon DEF IInv, TypeOK
<1>7. CleanOnDisk'
      BY <1>1, <1>2, <1>3, <1>4, <1>5, Zenon DEF IInv, TypeOK, CleanOnDisk, cached
<1>8. DataCoherent'
      BY <1>1, <1>2, <1>3, <1>4, <1>5, <1>u, Zenon DEF IInv, TypeOK, DataCoherent, cached, Pool
<1>9. ModeInv'
      BY <1>1, <1>5, <1>u, Zenon DEF IInv, ModeInv, wb_usable
<1> QED BY <1>1, <1>3, <1>6, <1>7, <1>8, <1>9, Zenon DEF IInv, CountInv

(* ext2_block_write around the cache: the block has no slot then. *)
LEMMA BlockWriteRawStep ==
    ASSUME IInv, NEW b \in Block, NEW v \in Uniform, NEW out, NEW w, NEW c, NEW done \in BOOLEAN,
           BlockWriteRaw(b, v, out, w, c, done)
    PROVE  IInv' /\ w \subseteq dirty /\ b \notin cached
<1>u. /\ b \in Pool /\ kind[b] # "data" /\ kind' = [kind EXCEPT ![b] = "meta"]
      /\ fsdirty' \in BOOLEAN /\ super' \in BOOLEAN
      BY ZenonT(60) DEF BlockWriteRaw, Use, IInv, TypeOK
<1>1. b \notin cached /\ c \subseteq w /\ w \subseteq dirty
      <2>1. CASE wb_usable(b)
            <3>1. wb_slot(b, FALSE, out, w, c, FALSE)
                  BY ZenonT(60), <2>1 DEF BlockWriteRaw
            <3>2. out = {} \/ \E x \in cached : out = {x}
                  BY <3>1, Zenon DEF wb_slot, Victims
            <3>3. Flushed(out) \subseteq dirty
                  BY <3>2, Finite, Zenon DEF Flushed
            <3> QED BY <3>1, <3>3, Zenon DEF wb_slot, Flush
      <2>2. CASE ~wb_usable(b)
            <3>1. cached = {}
                  BY <2>2, <1>u, Zenon DEF wb_usable, IInv, ModeInv, TypeOK
            <3> QED BY <2>2, <3>1, Zenon DEF BlockWriteRaw
      <2> QED BY <2>1, <2>2, Zenon
<1>2. /\ disk' \in [Block -> Content]
      /\ \A x \in Block \ {b} : disk'[x] = IF x \in w THEN buf[x] ELSE disk[x]
      BY <1>1, WrittenType, UniformType DEF BlockWriteRaw
<1>3. /\ ndirty' = Cardinality(dirty') /\ ndirty' \in Nat /\ dirty' = dirty \ c
      BY ZenonT(60), CountClean DEF BlockWriteRaw, MarkClean
<1>4. /\ UNCHANGED <<persistent, wb, buf, depth, ra>> /\ cached' = cached
      /\ bad' = (IF done THEN bad \ {b} ELSE bad \cup {b})
      BY Zenon DEF BlockWriteRaw, cached
<1>5. TypeOK'
      BY <1>2, <1>3, <1>4, <1>u, Zenon DEF IInv, TypeOK
<1>6. CleanOnDisk'
      BY <1>1, <1>2, <1>3, <1>4, Zenon DEF IInv, TypeOK, CleanOnDisk, cached
<1>7. DataCoherent'
      BY <1>1, <1>2, <1>3, <1>4, <1>u, Zenon DEF IInv, TypeOK, DataCoherent, cached, Pool
<1>8. ModeInv' /\ CountInv'
      BY <1>3, <1>4, Zenon DEF IInv, ModeInv, CountInv
<1> QED BY <1>1, <1>5, <1>6, <1>7, <1>8, Zenon DEF IInv

(* inode_write. *)
LEMMA InodeWriteStep ==
    ASSUME IInv, NEW b \in Block, NEW p \in Part, NEW v \in Val, NEW out, NEW w, NEW c,
           InodeWrite(b, p, v, out, w, c)
    PROVE  IInv'
<1> DEFINE g == Gone(out, c)
           n == [cur(b) EXCEPT ![p] = v]
<1>0. n \in Content
      BY CurType, Zenon DEF Content
<1>1. /\ c \subseteq w /\ w \subseteq dirty /\ g \subseteq cached \ (dirty \ c) /\ b \notin g
      /\ buf' \in [Block -> Content \cup {NoBuf}]
      /\ cached' = (cached \ g) \cup {b}
      /\ Cardinality(cached') <= WB_SLOTS
      <2>2. wb_usable(b) /\ wb_slot(b, TRUE, out, w, c, TRUE) /\ SlotHolds(b, n, out, c, TRUE)
            BY ZenonT(60) DEF InodeWrite
      <2>3. SlotTaken(b, out, w, c, TRUE)
            BY ZenonT(60), <1>0, <2>2, SlotStep
      <2> QED BY <2>3, Zenon DEF SlotTaken
<1>2. /\ disk' \in [Block -> Content]
      /\ \A x \in Block : disk'[x] = IF x \in w THEN buf[x] ELSE disk[x]
      BY <1>1, WrittenType, Zenon DEF InodeWrite
<1>3. /\ ndirty' = Cardinality(dirty') /\ ndirty' \in Nat /\ dirty' = (dirty \ c) \cup {b}
      BY ZenonT(60), <1>1, CountDirty DEF InodeWrite, MarkDirty
<1>4. \A x \in Block \ {b} : buf'[x] = IF x \in g THEN NoBuf ELSE buf[x]
      BY Zenon DEF InodeWrite, SlotHolds
<1>5. /\ UNCHANGED <<persistent, wb, depth, ra, kind, fsdirty, super, bad>>
      /\ wb_usable(b) /\ b \in InodeBlock
      BY Zenon DEF InodeWrite, meta
<1>6. TypeOK'
      BY <1>1, <1>2, <1>3, <1>5, Zenon DEF IInv, TypeOK
<1>7. CleanOnDisk'
      BY <1>1, <1>2, <1>3, <1>4, <1>5, Zenon DEF IInv, TypeOK, CleanOnDisk, cached
<1>8. DataCoherent'
      BY <1>1, <1>2, <1>3, <1>4, <1>5, Zenon DEF IInv, TypeOK, DataCoherent, cached, Pool
<1>9. ModeInv'
      BY <1>1, <1>5, Zenon DEF IInv, ModeInv, wb_usable, Pool
<1> QED BY <1>1, <1>3, <1>6, <1>7, <1>8, <1>9, Zenon DEF IInv, CountInv

LEMMA InodeWriteRawStep ==
    ASSUME IInv, NEW b \in Block, NEW p \in Part, NEW v \in Val, NEW out, NEW w, NEW c,
           NEW done \in BOOLEAN, InodeWriteRaw(b, p, v, out, w, c, done)
    PROVE  IInv' /\ w \subseteq dirty /\ b \notin cached /\ Gone(out, c) \subseteq cached \ (dirty \ c)
<1> DEFINE g == Gone(out, c)
<1>1. b \notin cached /\ c \subseteq w /\ w \subseteq dirty /\ g \subseteq cached \ (dirty \ c)
      <2>1. CASE wb_usable(b)
            <3>1. wb_slot(b, TRUE, out, w, c, FALSE)
                  BY ZenonT(60), <2>1 DEF InodeWriteRaw
            <3>2. out = {} \/ \E x \in cached : out = {x}
                  BY <3>1, Zenon DEF wb_slot, Victims
            <3>3. Flushed(out) \subseteq dirty /\ out \cap dirty \subseteq Flushed(out)
                  BY <3>2, Finite, Zenon DEF Flushed
            <3> QED BY <3>1, <3>2, <3>3, Zenon DEF wb_slot, Flush, Gone
      <2>2. CASE ~wb_usable(b)
            <3>1. b \notin cached
                  BY <2>2, Zenon DEF wb_usable, IInv, ModeInv, TypeOK, InodeWriteRaw, Pool
            <3> QED BY <2>2, <3>1, Zenon DEF InodeWriteRaw, Gone
      <2> QED BY <2>1, <2>2, Zenon
<1>2. /\ disk' \in [Block -> Content]
      /\ \A x \in Block \ {b} : disk'[x] = IF x \in w THEN buf[x] ELSE disk[x]
      <2>1. [disk[b] EXCEPT ![p] = v] \in Content
            BY Zenon DEF IInv, TypeOK, Content
      <2> QED BY <2>1, <1>1, WrittenType DEF InodeWriteRaw
<1>3. /\ ndirty' = Cardinality(dirty') /\ ndirty' \in Nat /\ dirty' = dirty \ c
      BY ZenonT(60), CountClean DEF InodeWriteRaw, MarkClean
<1>4. /\ UNCHANGED <<persistent, wb, depth, ra, kind, fsdirty, super, bad>> /\ b \in InodeBlock
      /\ buf' = [x \in Block |-> IF x \in g THEN NoBuf ELSE buf[x]]
      BY Zenon DEF InodeWriteRaw, meta
<1>5. cached' = cached \ g /\ buf' \in [Block -> Content \cup {NoBuf}]
      BY <1>4, Zenon DEF cached, IInv, TypeOK
<1>6. TypeOK'
      BY <1>1, <1>2, <1>3, <1>4, <1>5, Zenon DEF IInv, TypeOK
<1>7. CleanOnDisk'
      BY <1>1, <1>2, <1>3, <1>4, <1>5, Zenon DEF IInv, TypeOK, CleanOnDisk, cached
<1>8. DataCoherent'
      BY <1>1, <1>2, <1>3, <1>4, Zenon DEF IInv, TypeOK, DataCoherent, cached, Pool
<1>9. ModeInv' /\ CountInv'
      <2>1. Cardinality(cached') <= Cardinality(cached) /\ Cardinality(cached') \in Nat
            BY <1>5, Finite, FS_Subset, FS_CardinalityType, Zenon
      <2> QED BY <2>1, <1>3, <1>4, <1>5, Finite, WbAssumption DEF IInv, ModeInv, CountInv
<1> QED BY <1>1, <1>6, <1>7, <1>8, <1>9, Zenon DEF IInv

(* File data. *)
LEMMA WriteDataStep == ASSUME IInv, NEW b \in Pool, NEW v \in Uniform, NEW done \in BOOLEAN,
                              WriteData(b, v, done)
                       PROVE  IInv'
<1>1. /\ kind' = [kind EXCEPT ![b] = "data"] /\ fsdirty' \in BOOLEAN /\ super' \in BOOLEAN
      BY ZenonT(60) DEF WriteData, Use, IInv, TypeOK
<1>2. b \in Block /\ v \in Content
      BY UniformType, Zenon DEF Pool
<1>3. /\ ndirty' = Cardinality(dirty') /\ ndirty' \in Nat /\ dirty' = dirty \ {b}
      BY ZenonT(60), CountClean DEF WriteData, MarkClean
<1>4. /\ buf' \in [Block -> Content \cup {NoBuf}] /\ cached' = cached
      /\ \A x \in Block \ {b} : buf'[x] = buf[x]
      /\ buf'[b] \in {NoBuf, v}
      BY <1>2, WbAssumption, Zenon DEF WriteData, IInv, TypeOK, cached
<1>5. /\ disk' \in [Block -> Content] /\ \A x \in Block \ {b} : disk'[x] = disk[x]
      /\ (done => disk'[b] = v) /\ bad' = (IF done THEN bad \ {b} ELSE bad \cup {b})
      BY <1>2, Zenon DEF WriteData, IInv, TypeOK
<1>6. /\ UNCHANGED <<persistent, wb, depth>> /\ ra' = Empty
      BY Zenon DEF WriteData
<1>7. TypeOK'
      BY <1>1, <1>2, <1>3, <1>4, <1>5, <1>6, Zenon DEF IInv, TypeOK, Empty
<1>8. CleanOnDisk'
      BY <1>2, <1>3, <1>4, <1>5, Zenon DEF IInv, TypeOK, CleanOnDisk, cached
<1>9. DataCoherent'
      BY <1>1, <1>2, <1>3, <1>4, <1>5, <1>6, Zenon DEF IInv, TypeOK, DataCoherent, Pool, Empty
<1>10. ModeInv' /\ CountInv'
      BY <1>3, <1>4, <1>6, Zenon DEF IInv, ModeInv, CountInv
<1> QED BY <1>7, <1>8, <1>9, <1>10, Zenon DEF IInv

LEMMA RunFlushStep == ASSUME IInv, NEW S \in SUBSET Pool, NEW w \in SUBSET S, NEW v \in Uniform,
                             RunFlush(S, v, w)
                      PROVE  IInv'
<1>1. /\ kind' = [b \in Pool |-> IF b \in S THEN "data" ELSE kind[b]]
      /\ fsdirty' \in BOOLEAN /\ super' \in BOOLEAN
      BY ZenonT(60) DEF RunFlush, IInv, TypeOK
<1>2. S \subseteq Block /\ v \in Content
      BY UniformType, Zenon DEF Pool
<1>3. /\ ndirty' = Cardinality(dirty') /\ ndirty' \in Nat /\ dirty' = dirty \ S
      <2>1. MarkClean(S)
            BY Zenon DEF RunFlush, Forget
      <2> QED BY ZenonT(60), <2>1, CountClean DEF MarkClean
<1>4. /\ buf' \in [Block -> Content \cup {NoBuf}] /\ cached' = cached \ S
      /\ \A x \in Block : buf'[x] = IF x \in S THEN NoBuf ELSE buf[x]
      BY <1>2, Zenon DEF RunFlush, Forget, IInv, TypeOK, cached
<1>5. /\ disk' \in [Block -> Content] /\ \A x \in Block \ S : disk'[x] = disk[x]
      /\ bad' = IF w = S THEN bad \ S ELSE bad \cup S
      BY <1>2, Zenon DEF RunFlush, IInv, TypeOK
<1>6. /\ UNCHANGED <<persistent, wb, depth>> /\ ra' = Empty
      BY Zenon DEF RunFlush
<1>7. TypeOK'
      BY <1>1, <1>2, <1>3, <1>4, <1>5, <1>6, Zenon DEF IInv, TypeOK, Empty
<1>8. CleanOnDisk'
      BY <1>2, <1>3, <1>4, <1>5, Zenon DEF IInv, TypeOK, CleanOnDisk, cached
<1>9. DataCoherent'
      BY <1>1, <1>2, <1>3, <1>4, <1>5, <1>6, Zenon DEF IInv, TypeOK, DataCoherent, Pool, Empty
<1>10. ModeInv' /\ CountInv'
      <2>1. Cardinality(cached') <= Cardinality(cached) /\ Cardinality(cached') \in Nat
            BY <1>4, Finite, FS_Subset, FS_CardinalityType, Zenon
      <2> QED BY <2>1, <1>3, <1>4, <1>6, Finite, WbAssumption DEF IInv, ModeInv, CountInv
<1> QED BY <1>7, <1>8, <1>9, <1>10, Zenon DEF IInv

(* The other steps. *)
LEMMA PlainStep == ASSUME IInv,
                          \/ \E S \in SUBSET Data, out \in SUBSET {b \in Pool : ra[b] # NoBuf} : ReadAhead(S, out)
                          \/ \E b \in Pool : FreeBlock(b)
                          \/ Begin
                          \/ UNCHANGED vars
                   PROVE  IInv'
<1>1. ASSUME NEW S \in SUBSET Data, NEW out, ReadAhead(S, out) PROVE IInv'
      <2>1. UNCHANGED <<disk, persistent, wb, buf, dirty, ndirty, depth, kind, fsdirty, super, bad>>
            BY <1>1, Zenon DEF ReadAhead, cache, meta
      <2>2. cached' = cached
            BY <2>1, Zenon DEF cached
      <2>3. /\ ra' \in [Block -> Content \cup {NoBuf}]
            /\ \A b \in Block : ra'[b] \in {NoBuf, ra[b], disk[b]}
            BY <1>1, Zenon DEF ReadAhead, IInv, TypeOK
      <2> QED BY <2>1, <2>2, <2>3, Zenon DEF IInv, TypeOK, CountInv, CleanOnDisk, DataCoherent, ModeInv, Pool
<1>2. ASSUME NEW b \in Pool, FreeBlock(b) PROVE IInv'
      <2>1. UNCHANGED <<disk, persistent, wb, buf, dirty, ndirty, depth, bad>>
            BY <1>2, Zenon DEF FreeBlock, cache
      <2>2. cached' = cached
            BY <2>1, Zenon DEF cached
      <2>3. /\ kind' = [kind EXCEPT ![b] = "free"] /\ ra' = Empty
            /\ fsdirty' \in BOOLEAN /\ super' \in BOOLEAN
            BY ZenonT(60), <1>2 DEF FreeBlock
      <2>4. TypeOK'
            BY <2>1, <2>2, <2>3, Zenon DEF IInv, TypeOK, Empty
      <2>5. DataCoherent'
            BY <2>1, <2>3, Zenon DEF IInv, TypeOK, DataCoherent, Empty, Pool
      <2> QED BY <2>1, <2>2, <2>4, <2>5, Zenon DEF IInv, CountInv, CleanOnDisk, ModeInv
<1>3. CASE Begin
      <2>1. cached' = cached
            BY <1>3, Zenon DEF Begin, cached
      <2> QED BY SMTT(60), <1>3, <2>1 DEF Begin, meta, IInv, TypeOK, CountInv, CleanOnDisk, DataCoherent, ModeInv, Pool
<1>4. CASE UNCHANGED vars
      <2>1. cached' = cached
            BY <1>4, Zenon DEF vars, cache, cached
      <2> QED BY <1>4, <2>1, Zenon DEF vars, cache, meta, IInv, TypeOK, CountInv, CleanOnDisk, DataCoherent, ModeInv
<1> QED BY <1>1, <1>2, <1>3, <1>4, Zenon

(* The cache emptied, by wb_end or by a new mount. *)
LEMMA EmptyStep == ASSUME buf' = Empty, dirty' = {}, ndirty' = 0
                   PROVE  cached' = {} /\ CountInv' /\ CleanOnDisk' /\ ModeInv' /\ dirty' \in SUBSET cached'
<1>1. cached' = {}
      BY Zenon DEF cached, Empty
<1>2. Cardinality({}) = 0
      BY FS_EmptySet, Zenon
<1> QED BY <1>1, <1>2, WbAssumption DEF CountInv, CleanOnDisk, ModeInv

LEMMA EndStep == ASSUME IInv, NEW w \in SUBSET dirty, End(w) PROVE IInv'
<1>1. CASE persistent
      <2>1. UNCHANGED <<disk, buf, dirty, ndirty, bad, persistent, wb, ra, kind, fsdirty, super>> /\ depth' = 0
            BY <1>1, Zenon DEF End, meta
      <2>2. cached' = cached
            BY <2>1, Zenon DEF cached
      <2> QED BY <1>1, <2>1, <2>2 DEF IInv, TypeOK, CountInv, CleanOnDisk, DataCoherent, ModeInv
<1>2. CASE ~persistent
      <2>1. /\ buf' = Empty /\ dirty' = {} /\ ndirty' = 0 /\ disk' = Written(w)
            /\ bad' = bad \cup (dirty \ w) /\ depth' = 0 /\ UNCHANGED <<persistent, wb, ra, kind, fsdirty, super>>
            BY <1>2, Zenon DEF End, meta
      <2>2. CountInv' /\ CleanOnDisk' /\ ModeInv' /\ dirty' \in SUBSET cached'
            BY <2>1, EmptyStep, Zenon
      <2>3. TypeOK'
            BY SMTT(60), <2>1, <2>2, WrittenType DEF IInv, TypeOK, Empty, cached
      <2>4. DataCoherent'
            BY <2>1, WrittenType DEF IInv, TypeOK, DataCoherent, Empty, Pool
      <2> QED BY <2>2, <2>3, <2>4, Zenon DEF IInv
<1> QED BY <1>1, <1>2, Zenon

LEMMA SyncStep == ASSUME IInv, NEW w, NEW c, NEW ok \in BOOLEAN, Sync(w, c, ok) PROVE IInv' /\ w \subseteq dirty
<1>1. c \subseteq w /\ w \subseteq dirty
      BY Finite, Zenon DEF Sync, Flush
<1>2. /\ disk' \in [Block -> Content]
      /\ \A x \in Block : disk'[x] = IF x \in w THEN buf[x] ELSE disk[x]
      BY <1>1, WrittenType, Zenon DEF Sync
<1>3. /\ ndirty' = Cardinality(dirty') /\ ndirty' \in Nat /\ dirty' = dirty \ c
      BY ZenonT(60), CountClean DEF Sync, MarkClean
<1>4. /\ UNCHANGED <<persistent, wb, buf, depth, ra, kind, bad>> /\ cached' = cached
      /\ fsdirty' \in BOOLEAN /\ super' \in BOOLEAN
      BY ZenonT(60) DEF Sync, cached
<1>5. TypeOK'
      BY <1>2, <1>3, <1>4, Zenon DEF IInv, TypeOK
<1>6. CleanOnDisk'
      BY <1>1, <1>2, <1>3, <1>4, Zenon DEF IInv, TypeOK, CleanOnDisk, cached
<1>7. DataCoherent'
      BY <1>1, <1>2, <1>3, <1>4, Zenon DEF IInv, TypeOK, DataCoherent, Pool
<1>8. ModeInv' /\ CountInv'
      BY <1>3, <1>4, Zenon DEF IInv, ModeInv, CountInv
<1> QED BY <1>1, <1>5, <1>6, <1>7, <1>8, Zenon DEF IInv

LEMMA RemountStep == ASSUME IInv, Remount PROVE IInv'
<1>1. CountInv' /\ CleanOnDisk' /\ ModeInv' /\ dirty' \in SUBSET cached'
      BY EmptyStep, Zenon DEF Remount
<1>2. TypeOK'
      <2>1. /\ buf' \in [Block -> Content \cup {NoBuf}] /\ ra' \in [Block -> Content \cup {NoBuf}]
            /\ ndirty' \in Nat /\ depth' \in 0..1 /\ bad' \in SUBSET Block
            BY DEF Remount, Empty
      <2>2. /\ fsdirty' \in BOOLEAN /\ super' \in BOOLEAN /\ wb' \in BOOLEAN
            /\ persistent' \in BOOLEAN /\ disk' \in [Block -> Content]
            /\ kind' \in [Pool -> {"free", "meta", "data"}]
            BY Zenon DEF Remount, IInv, TypeOK
      <2> QED BY <1>1, <2>1, <2>2, Zenon DEF TypeOK
<1>3. DataCoherent'
      BY Zenon DEF Remount, DataCoherent, Empty, Pool
<1> QED BY <1>1, <1>2, <1>3, Zenon DEF IInv

(* Init and Next. *)
LEMMA InitInv == Init => IInv
<1> SUFFICES ASSUME Init PROVE IInv
      BY Zenon
<1>1. cached = {}
      BY Zenon DEF Init, cached, Empty
<1>2. Cardinality({}) = 0
      BY FS_EmptySet, Zenon
<1>3. CountInv /\ CleanOnDisk /\ ModeInv
      BY <1>1, <1>2, WbAssumption DEF Init, CountInv, CleanOnDisk, ModeInv
<1>4. DataCoherent
      BY Zenon DEF Init, DataCoherent, Empty, Pool
<1>5. TypeOK
      <2>1. /\ buf \in [Block -> Content \cup {NoBuf}] /\ ra \in [Block -> Content \cup {NoBuf}]
            /\ ndirty \in Nat /\ depth \in 0..1 /\ bad \in SUBSET Block /\ dirty \in SUBSET cached
            BY DEF Init, Empty
      <2>2. /\ fsdirty \in BOOLEAN /\ super \in BOOLEAN /\ wb \in BOOLEAN /\ persistent \in BOOLEAN
            /\ kind \in [Pool -> {"free", "meta", "data"}] /\ disk \in [Block -> Uniform]
            BY Zenon DEF Init
      <2>3. disk \in [Block -> Content]
            BY <2>2, UniformType, Zenon
      <2> QED BY <2>1, <2>2, <2>3, Zenon DEF TypeOK
<1> QED BY <1>3, <1>4, <1>5, Zenon DEF IInv

LEMMA NextInv == IInv /\ [Next]_vars => IInv'
<1> SUFFICES ASSUME IInv, [Next]_vars PROVE IInv'
      BY Zenon
<1>1. ASSUME NEW b \in Block, NEW out, NEW w, NEW c,
             \/ \E ok \in BOOLEAN : Read(b, out, w, c, ok)
             \/ \E v \in Uniform : BlockWrite(b, v, out, w, c)
             \/ \E v \in Uniform, ok \in BOOLEAN : BlockWriteRaw(b, v, out, w, c, ok)
             \/ \E p \in Part, v \in Val : InodeWrite(b, p, v, out, w, c)
             \/ \E p \in Part, v \in Val, ok \in BOOLEAN : InodeWriteRaw(b, p, v, out, w, c, ok)
      PROVE  IInv'
      BY <1>1, ReadStep, BlockWriteStep, BlockWriteRawStep, InodeWriteStep, InodeWriteRawStep, Zenon
<1>2. ASSUME NEW w, NEW c, NEW ok \in BOOLEAN, Sync(w, c, ok) PROVE IInv'
      BY <1>2, SyncStep, Zenon
<1>3. ASSUME NEW b \in Pool, NEW v \in Uniform, NEW ok \in BOOLEAN, WriteData(b, v, ok) PROVE IInv'
      BY <1>3, WriteDataStep, Zenon
<1>4. ASSUME NEW S \in SUBSET Pool, NEW w \in SUBSET S, NEW v \in Uniform, RunFlush(S, v, w) PROVE IInv'
      BY <1>4, RunFlushStep, Zenon
<1>5. ASSUME NEW w \in SUBSET dirty, End(w) PROVE IInv'
      BY <1>5, EndStep, Zenon
<1>6. CASE Remount
      BY <1>6, RemountStep, Zenon
<1> QED BY ZenonT(60), <1>1, <1>2, <1>3, <1>4, <1>5, <1>6, PlainStep DEF Next

(* The cache keeps its counts, its clean buffers are on disk and file data  *)
(* read around it is the data last written.                                 *)
THEOREM Coherence == Spec => [](TypeOK /\ CountInv /\ CleanOnDisk /\ DataCoherent /\ ModeInv)
<1>1. Init => IInv
      BY InitInv, Zenon
<1>2. IInv /\ [Next]_vars => IInv'
      BY NextInv, Zenon
<1> QED BY <1>1, <1>2, PTL DEF Spec, IInv

(* A sync to which the device refuses nothing leaves every block on disk.   *)
THEOREM Durability == Spec => SyncDurable
<1>1. IInv => [Sync(AllDirty, AllDirty, TRUE) => \A b \in Block \ bad : disk'[b] = cur(b)]_vars
      <2> SUFFICES ASSUME IInv, Sync(AllDirty, AllDirty, TRUE), NEW b \in Block \ bad
                   PROVE  disk'[b] = cur(b)
            BY Zenon
      <2>1. disk'[b] = IF b \in dirty THEN buf[b] ELSE disk[b]
            BY Finite, Zenon DEF Sync, Written
      <2> QED BY <2>1, Zenon DEF cur, IInv, TypeOK, CleanOnDisk, cached
<1>2. IInv /\ [Next]_vars => IInv'
      BY NextInv, Zenon
<1> QED BY <1>1, <1>2, InitInv, PTL DEF Spec, SyncDurable

(* A slot taken for b, and the flush before it, leave the other blocks as   *)
(* they read.                                                               *)
Evicts(b, g, w, c) ==
    /\ c \subseteq w /\ w \subseteq dirty /\ g \subseteq cached \ (dirty \ c)
    /\ \A x \in Block \ {b} : /\ buf'[x] = IF x \in g THEN NoBuf ELSE buf[x]
                             /\ disk'[x] = IF x \in w THEN buf[x] ELSE disk[x]
OthersReadAlike(b) ==
    /\ \A x \in Block \ ({b} \cup bad) : cur(x)' = cur(x)
    /\ \A x \in Block \ {b} : disk'[x] \in {disk[x], cur(x)}

LEMMA OthersRead == ASSUME IInv, NEW b, NEW g, NEW w, NEW c, Evicts(b, g, w, c)
                    PROVE  OthersReadAlike(b)
      BY WbAssumption, Zenon DEF Evicts, OthersReadAlike, IInv, TypeOK, CleanOnDisk, cached, cur

(* What the steps of the file system do to what blocks read as. *)
Shows == /\ \A b \in Block \ (bad \cup bad') : cur(b)' # cur(b) => Writes(b, cur(b)')
         /\ \A b \in Block : disk'[b] \in {disk[b], cur(b), cur(b)'}

LEMMA ReadShows == ASSUME IInv, NEW b \in Block, NEW out, NEW w, NEW c, NEW ok \in BOOLEAN,
                          Read(b, out, w, c, ok)
                   PROVE  Shows
<1> DEFINE g == Gone(out, c)
<1>1. c \subseteq w /\ w \subseteq dirty /\ g \subseteq cached \ (dirty \ c) /\ b \notin g
      <2>1. cur(b) \in Content
            BY CurType, Zenon
      <2>2. SlotTaken(b, out, w, c, ok)
            BY ZenonT(60), <2>1, SlotStep DEF Read
      <2> QED BY <2>2, Zenon DEF SlotTaken
<1>2. \A x \in Block : /\ buf'[x] = IF x = b /\ ok THEN cur(b) ELSE IF x \in g THEN NoBuf ELSE buf[x]
                       /\ disk'[x] = IF x \in w THEN buf[x] ELSE disk[x]
      BY Zenon DEF Read, SlotHolds, Written
<1>3. OthersReadAlike(b)
      <2>1. Evicts(b, g, w, c)
            BY <1>1, <1>2, Zenon DEF Evicts
      <2> QED BY <2>1, OthersRead, Zenon
<1>4. cur(b)' = cur(b) /\ disk'[b] \in {disk[b], cur(b)}
      BY <1>1, <1>2, WbAssumption, CurType, Zenon DEF cur, cached, IInv, TypeOK
<1> QED BY <1>3, <1>4, Zenon DEF Shows, OthersReadAlike

LEMMA BlockWriteShows == ASSUME IInv, NEW b \in Block, NEW v \in Uniform, NEW out, NEW w, NEW c,
                                BlockWrite(b, v, out, w, c)
                         PROVE  Shows
<1> DEFINE g == Gone(out, c)
<1>0. v \in Content /\ v # NoBuf
      BY UniformType, WbAssumption, Zenon
<1>1. c \subseteq w /\ w \subseteq dirty /\ g \subseteq cached \ (dirty \ c) /\ b \notin g
      <2>2. SlotTaken(b, out, w, c, TRUE)
            BY ZenonT(60), <1>0, SlotStep DEF BlockWrite
      <2> QED BY <2>2, Zenon DEF SlotTaken
<1>2. \A x \in Block : /\ buf'[x] = IF x = b THEN v ELSE IF x \in g THEN NoBuf ELSE buf[x]
                       /\ disk'[x] = IF x \in w THEN buf[x] ELSE disk[x]
      BY Zenon DEF BlockWrite, SlotHolds, Written
<1>3. OthersReadAlike(b)
      <2>1. Evicts(b, g, w, c)
            BY <1>1, <1>2, Zenon DEF Evicts
      <2> QED BY <2>1, OthersRead, Zenon
<1>4. cur(b)' = v /\ disk'[b] \in {disk[b], cur(b)}
      BY <1>0, <1>1, <1>2, Zenon DEF cur, cached, IInv, TypeOK
<1>5. Writes(b, v)
      BY ZenonT(60) DEF Writes, BlockWrite, wb_slot, Flush
<1> QED BY <1>3, <1>4, <1>5, Zenon DEF Shows, OthersReadAlike

LEMMA BlockWriteRawShows == ASSUME IInv, NEW b \in Block, NEW v \in Uniform, NEW out, NEW w, NEW c,
                                   NEW done \in BOOLEAN, BlockWriteRaw(b, v, out, w, c, done)
                            PROVE  Shows
<1>1. w \subseteq dirty /\ b \notin cached
      BY BlockWriteRawStep, Zenon
<1>2. /\ buf' = buf /\ bad' = (IF done THEN bad \ {b} ELSE bad \cup {b})
      /\ \A x \in Block \ {b} : disk'[x] = IF x \in w THEN buf[x] ELSE disk[x]
      /\ disk'[b] = IF done THEN v ELSE disk[b]
      BY <1>1, Zenon DEF BlockWriteRaw, Written, IInv, TypeOK
<1>3. \A x \in Block \ {b} : cur(x)' = cur(x) /\ disk'[x] \in {disk[x], cur(x)}
      BY <1>1, <1>2, Zenon DEF IInv, TypeOK, cached, cur
<1>4. cur(b)' = disk'[b]
      BY <1>1, <1>2, Zenon DEF cur, cached
<1>5. CASE done
      <2>1. BlockWriteRaw(b, v, out, w, c, TRUE)
            BY ZenonT(60), <1>5 DEF BlockWriteRaw
      <2>2. out \in Victims(b) /\ w \in SUBSET Flushed(out) /\ c \in SUBSET Flushed(out)
            BY <2>1, Zenon DEF BlockWriteRaw, wb_slot, Flush, Victims
      <2>3. Writes(b, v)
            BY ZenonT(60), <2>1, <2>2 DEF Writes
      <2> QED BY <1>2, <1>3, <1>4, <1>5, <2>3, Zenon DEF Shows
<1>6. CASE ~done
      BY <1>2, <1>3, <1>6, Zenon DEF Shows
<1> QED BY <1>5, <1>6, Zenon

LEMMA InodeWriteShows == ASSUME IInv, NEW b \in Block, NEW p \in Part, NEW v \in Val, NEW out, NEW w, NEW c,
                                InodeWrite(b, p, v, out, w, c)
                         PROVE  Shows
<1> DEFINE g == Gone(out, c)
           n == [cur(b) EXCEPT ![p] = v]
<1>0. n \in Content /\ n # NoBuf
      <2>1. n \in Content
            BY CurType, Zenon DEF Content
      <2> QED BY <2>1, WbAssumption, Zenon
<1>1. c \subseteq w /\ w \subseteq dirty /\ g \subseteq cached \ (dirty \ c) /\ b \notin g
      <2>1. wb_usable(b) /\ wb_slot(b, TRUE, out, w, c, TRUE) /\ SlotHolds(b, n, out, c, TRUE)
            BY Zenon DEF InodeWrite
      <2>2. SlotTaken(b, out, w, c, TRUE)
            BY ZenonT(60), <1>0, <2>1, SlotStep
      <2> QED BY <2>2, Zenon DEF SlotTaken
<1>2. \A x \in Block : /\ buf'[x] = IF x = b THEN n ELSE IF x \in g THEN NoBuf ELSE buf[x]
                       /\ disk'[x] = IF x \in w THEN buf[x] ELSE disk[x]
      BY Zenon DEF InodeWrite, SlotHolds, Written
<1>3. OthersReadAlike(b)
      <2>1. Evicts(b, g, w, c)
            BY <1>1, <1>2, Zenon DEF Evicts
      <2> QED BY <2>1, OthersRead, Zenon
<1>4. cur(b)' = n /\ disk'[b] \in {disk[b], cur(b)}
      <2> HIDE DEF n
      <2> QED BY <1>0, <1>1, <1>2, Zenon DEF cur, cached, IInv, TypeOK
<1>5. Writes(b, n)
      <2>1. out \in Victims(b) /\ w \in SUBSET Flushed(out) /\ c \in SUBSET Flushed(out)
            BY Zenon DEF InodeWrite, wb_slot, Flush
      <2> QED BY ZenonT(60), <2>1 DEF Writes
<1> QED BY ZenonT(60), <1>3, <1>4, <1>5 DEF Shows, OthersReadAlike

LEMMA InodeWriteRawShows ==
    ASSUME IInv, NEW b \in Block, NEW p \in Part, NEW v \in Val, NEW out, NEW w, NEW c,
           NEW done \in BOOLEAN, InodeWriteRaw(b, p, v, out, w, c, done)
    PROVE  Shows
<1> DEFINE g == Gone(out, c)
           n == [cur(b) EXCEPT ![p] = v]
<1>1. w \subseteq dirty /\ b \notin cached /\ g \subseteq cached \ (dirty \ c)
      BY SMTT(60), InodeWriteRawStep
<1>c. c \subseteq w
      BY SMTT(60) DEF InodeWriteRaw, wb_slot, Flush
<1>2. /\ \A x \in Block : buf'[x] = IF x \in g THEN NoBuf ELSE buf[x]
      /\ \A x \in Block \ {b} : disk'[x] = IF x \in w THEN buf[x] ELSE disk[x]
      /\ disk'[b] = IF done THEN [disk[b] EXCEPT ![p] = v] ELSE disk[b]
      BY <1>1, Zenon DEF InodeWriteRaw, Written, IInv, TypeOK
<1>3. OthersReadAlike(b)
      <2>1. Evicts(b, g, w, c)
            BY <1>1, <1>c, <1>2, Zenon DEF Evicts
      <2> QED BY <2>1, OthersRead, Zenon
<1>4. cur(b)' = disk'[b] /\ cur(b) = disk[b]
      BY <1>1, <1>2, Zenon DEF cur, cached
<1>5. CASE done
      <2>1. InodeWriteRaw(b, p, v, out, w, c, TRUE)
            BY ZenonT(60), <1>5 DEF InodeWriteRaw
      <2>2. out \in Victims(b) /\ w \in SUBSET Flushed(out) /\ c \in SUBSET Flushed(out)
            BY <2>1, Zenon DEF InodeWriteRaw, wb_slot, Flush, Victims
      <2>3. Writes(b, n)
            BY ZenonT(60), <2>1, <2>2 DEF Writes
      <2>4. cur(b)' = n
            BY <1>2, <1>4, <1>5, Zenon
      <2> QED BY ZenonT(60), <1>3, <1>4, <2>3, <2>4 DEF Shows, OthersReadAlike
<1>6. CASE ~done
      BY <1>2, <1>3, <1>4, <1>6, Zenon DEF Shows, OthersReadAlike
<1> QED BY <1>5, <1>6, Zenon

LEMMA WriteDataShows == ASSUME IInv, NEW b \in Pool, NEW v \in Uniform, NEW done \in BOOLEAN,
                               WriteData(b, v, done)
                        PROVE  Shows
<1>0. b \in Block /\ v \in Content /\ v # NoBuf
      BY UniformType, WbAssumption, Zenon DEF Pool
<1>1. /\ \A x \in Block \ {b} : buf'[x] = buf[x] /\ disk'[x] = disk[x]
      /\ buf'[b] = (IF b \in cached THEN v ELSE buf[b])
      /\ disk'[b] = (IF done THEN v ELSE disk[b])
      /\ bad' = (IF done THEN bad \ {b} ELSE bad \cup {b})
      BY <1>0, Zenon DEF WriteData, IInv, TypeOK
<1>2. \A x \in Block \ {b} : cur(x)' = cur(x)
      BY <1>1, Zenon DEF cur
<1>3. CASE done
      <2>1. cur(b)' = v
            BY <1>0, <1>1, <1>3, Zenon DEF cur, cached
      <2>2. WriteData(b, v, TRUE)
            BY <1>3, Zenon DEF WriteData
      <2>3. Writes(b, v)
            BY ZenonT(60), <2>2 DEF Writes
      <2> QED BY <1>1, <1>2, <1>3, <2>1, <2>3, Zenon DEF Shows
<1>4. CASE ~done
      BY <1>1, <1>2, <1>4, Zenon DEF Shows
<1> QED BY <1>3, <1>4, Zenon

LEMMA RunFlushShows == ASSUME IInv, NEW S \in SUBSET Pool, NEW w \in SUBSET S, NEW v \in Uniform,
                              RunFlush(S, v, w)
                       PROVE  Shows
<1>0. S \subseteq Block
      BY SMTT(60) DEF Pool
<1>1. /\ \A x \in Block : buf'[x] = IF x \in S THEN NoBuf ELSE buf[x]
      /\ \A x \in Block : disk'[x] = IF x \in w THEN v ELSE disk[x]
      /\ bad' = IF w = S THEN bad \ S ELSE bad \cup S
      BY <1>0, Zenon DEF RunFlush, Forget
<1>2. \A x \in Block \ S : cur(x)' = cur(x) /\ disk'[x] = disk[x]
      BY <1>1, Zenon DEF cur
<1>3. \A x \in S : cur(x)' = disk'[x]
      BY <1>0, <1>1, Zenon DEF cur
<1>4. CASE w = S
      <2>1. \A x \in S : Writes(x, v)
            BY ZenonT(60), <1>4 DEF Writes
      <2> QED BY SMTT(60), <1>1, <1>2, <1>3, <1>4, <2>1 DEF Shows
<1>5. CASE w # S
      BY <1>1, <1>2, <1>3, <1>5, Zenon DEF Shows
<1> QED BY <1>4, <1>5, Zenon

LEMMA EndShows == ASSUME IInv, NEW w \in SUBSET dirty, End(w) PROVE Shows
<1>1. CASE persistent
      <2>1. disk' = disk /\ buf' = buf
            BY <1>1, Zenon DEF End
      <2> QED BY <2>1, Zenon DEF Shows, cur
<1>2. CASE ~persistent
      <2>1. /\ \A x \in Block : buf'[x] = NoBuf
            /\ \A x \in Block : disk'[x] = IF x \in w THEN buf[x] ELSE disk[x]
            /\ bad' = bad \cup (dirty \ w)
            BY <1>2, Zenon DEF End, Written, Empty
      <2>2. \A x \in Block : cur(x)' = disk'[x]
            BY <2>1, Zenon DEF cur
      <2>3. \A x \in Block \ (bad \cup bad') : cur(x)' = cur(x)
            BY <2>1, <2>2, Zenon DEF cur, cached, IInv, TypeOK, CleanOnDisk
      <2> QED BY <2>2, <2>3, Zenon DEF Shows
<1> QED BY <1>1, <1>2, Zenon

LEMMA SyncShows == ASSUME IInv, NEW w, NEW c, NEW ok \in BOOLEAN, Sync(w, c, ok) PROVE Shows
<1>1. w \subseteq dirty
      BY SyncStep, Zenon
<1>2. /\ buf' = buf
      /\ \A x \in Block : disk'[x] = IF x \in w THEN buf[x] ELSE disk[x]
      BY SMTT(60) DEF Sync, Written
<1>3. \A x \in Block : cur(x)' = cur(x) /\ disk'[x] \in {disk[x], cur(x)}
      BY <1>1, <1>2, Zenon DEF cur, cached, IInv, TypeOK
<1> QED BY <1>3, Zenon DEF Shows

LEMMA PlainShows == ASSUME \/ \E S \in SUBSET Data, out \in SUBSET {b \in Pool : ra[b] # NoBuf} : ReadAhead(S, out)
                           \/ \E b \in Pool : FreeBlock(b)
                           \/ Begin
                           \/ UNCHANGED vars
                    PROVE  Shows
<1>1. disk' = disk /\ buf' = buf
      BY SMTT(60) DEF ReadAhead, FreeBlock, Begin, vars, cache
<1> QED BY <1>1, Zenon DEF Shows, cur

LEMMA NextShows == IInv /\ [Next]_vars => Remount \/ Shows
<1> SUFFICES ASSUME IInv, [Next]_vars, ~Remount PROVE Shows
      BY Zenon
<1>1. ASSUME NEW b \in Block, NEW out, NEW w, NEW c,
             \/ \E ok \in BOOLEAN : Read(b, out, w, c, ok)
             \/ \E v \in Uniform : BlockWrite(b, v, out, w, c)
             \/ \E v \in Uniform, ok \in BOOLEAN : BlockWriteRaw(b, v, out, w, c, ok)
             \/ \E p \in Part, v \in Val : InodeWrite(b, p, v, out, w, c)
             \/ \E p \in Part, v \in Val, ok \in BOOLEAN : InodeWriteRaw(b, p, v, out, w, c, ok)
      PROVE  Shows
      BY <1>1, ReadShows, BlockWriteShows, BlockWriteRawShows, InodeWriteShows, InodeWriteRawShows, Zenon
<1>2. ASSUME NEW w, NEW c, NEW ok \in BOOLEAN, Sync(w, c, ok) PROVE Shows
      BY <1>2, SyncShows, Zenon
<1>3. ASSUME NEW b \in Pool, NEW v \in Uniform, NEW ok \in BOOLEAN, WriteData(b, v, ok) PROVE Shows
      BY <1>3, WriteDataShows, Zenon
<1>4. ASSUME NEW S \in SUBSET Pool, NEW w \in SUBSET S, NEW v \in Uniform, RunFlush(S, v, w) PROVE Shows
      BY <1>4, RunFlushShows, Zenon
<1>5. ASSUME NEW w \in SUBSET dirty, End(w) PROVE Shows
      BY <1>5, EndShows, Zenon
<1> QED BY ZenonT(60), <1>1, <1>2, <1>3, <1>4, <1>5, PlainShows DEF Next

(* A block of ext2 reads as it was last written: no miss, eviction, flush,  *)
(* end of a bracket or transfer around the cache changes what it reads as.  *)
THEOREM LastWritten == Spec => ReadsLastWritten
<1>1. IInv /\ [Next]_vars => [Remount \/ \A b \in Block \ (bad \cup bad') :
                                cur(b)' # cur(b) => Writes(b, cur(b)')]_vars
      BY NextShows, Zenon DEF Shows
<1>2. IInv /\ [Next]_vars => IInv'
      BY NextInv, Zenon
<1> QED BY <1>1, <1>2, InitInv, PTL DEF Spec, ReadsLastWritten

(* What the flushes of ext2 leave on the disk of a block, at any moment a   *)
(* crash may come, is a content the block has had.                          *)
THEOREM DiskHistory == Spec => DiskFollows
<1>1. IInv /\ [Next]_vars => [\A b \in Block : disk'[b] \in {disk[b], cur(b), cur(b)'}]_vars
      <2> SUFFICES ASSUME IInv, [Next]_vars, NEW b \in Block
                   PROVE  disk'[b] \in {disk[b], cur(b), cur(b)'}
            BY Zenon
      <2>1. CASE Remount
            BY <2>1, Zenon DEF Remount
      <2>2. CASE Shows
            BY <2>2, Zenon DEF Shows
      <2> QED BY <2>1, <2>2, NextShows, Zenon
<1>2. IInv /\ [Next]_vars => IInv'
      BY NextInv, Zenon
<1> QED BY <1>1, <1>2, InitInv, PTL DEF Spec, DiskFollows
-----------------------------------------------------------------------------

(* Flock: everything about lock_clear_range that HeldAsAsked and NoConflict *)
(* need is in three lemmas: what is left is part of what there was and      *)
(* clear of the range, the entries of others are as they were, and nothing  *)
(* outside the range is lost unless there was no room.                      *)
Locks == [start : Int, end : Int, type : Types, owner : Owners]
LockCalls == [type : Types \cup {Free}, start : Int, end : Int, bytes : SUBSET Bytes]
RangeMeant(r) == \A b \in Bytes : b \in r.bytes <=> r.start <= b /\ b <= r.end
LockTypes ==
    /\ g_locks \subseteq Locks /\ stale \in Nat
    /\ call \in [Owners -> LockCalls]
    /\ asked \in [Owners -> [Bytes -> Types \cup {Free}]]
    /\ \A o \in Owners : call[o] # NoCall => call[o].type \in Types /\ RangeMeant(call[o])
LockInv == LockTypes /\ HeldAsAsked /\ NoConflict
Covers(l, b) == l.start <= b /\ b <= l.end

LEMMA ByteIsInt == Bytes \subseteq Int
  BY ByteAssumption, SMTT(30) DEF Bytes

(* flock_range gives the bytes the caller means.                            *)
LEMMA RequestMeant ==
    ASSUME NEW types \in SUBSET (Types \cup {Free}), NEW r \in Requests(types)
    PROVE  r \in LockCalls /\ r.type \in types /\ RangeMeant(r)
<1>1. PICK type \in types, s \in 0 .. LastByte + 1, n \in -LastByte .. LastByte + 1 :
         r = Request(type, s, n)
  BY DEF Requests
<1>2. s \in Int /\ n \in Int
  BY ByteAssumption, SMTT(30)
<1>3. r.type = type /\ r.bytes = Meant(s, n) /\ r.start = FlockStart(s, n) /\ r.end = FlockEnd(s, n)
  BY <1>1, Zenon DEF Request
<1>4. r.start \in Int /\ r.end \in Int
  BY <1>2, <1>3, ByteAssumption, SMTT(30) DEF FlockStart, FlockEnd
<1>5. r.bytes \in SUBSET Bytes
  BY <1>3, Zenon DEF Meant
<1>6. r \in LockCalls
  BY <1>1, <1>3, <1>4, <1>5, Zenon DEF Request, LockCalls
<1>7. RangeMeant(r)
  <2> SUFFICES ASSUME NEW b \in Bytes PROVE b \in r.bytes <=> r.start <= b /\ b <= r.end
    BY Zenon DEF RangeMeant
  <2>1. b \in Int /\ 0 <= b /\ b <= LastByte
    BY ByteAssumption, SMTT(30) DEF Bytes
  <2>2. b \in r.bytes <=> IF n < 0 THEN s + n <= b /\ b < s ELSE s <= b /\ (n = 0 \/ b < s + n)
    BY <1>3, Zenon DEF Meant
  <2> QED BY <1>2, <1>3, <2>1, <2>2, ByteAssumption, SMTT(30) DEF FlockStart, FlockEnd
<1> QED BY <1>1, <1>3, <1>6, <1>7, Zenon

(* What lock_clear_range leaves was there before.                           *)
LEMMA ClearedWas ==
    ASSUME g_locks \subseteq Locks, NEW start \in Int, NEW end \in Int, NEW o \in Owners,
           NEW e \in Cleared(start, end, o)
    PROVE  /\ e \in Locks
           /\ e.owner # o => e \in g_locks
           /\ e.owner = o => \A b \in Bytes : Covers(e, b) => ~(start <= b /\ b <= end)
           /\ \E l \in g_locks : /\ l.owner = e.owner /\ l.type = e.type
                                 /\ \A b \in Bytes : Covers(e, b) => Covers(l, b)
<1> DEFINE hit == Hit(start, end, o)
<1>1. CASE e \in g_locks /\ e \notin hit
  <2>1. e \in Locks
    BY <1>1, Zenon
  <2>2. e.owner = o => ~overlaps(e, start, end)
    BY <1>1, Zenon DEF Hit
  <2>3. e.start \in Int /\ e.end \in Int
    BY <2>1, Zenon DEF Locks
  <2>4. ASSUME e.owner = o, NEW b \in Bytes, Covers(e, b) PROVE ~(start <= b /\ b <= end)
    BY <2>2, <2>3, <2>4, ByteIsInt, SMTT(30) DEF overlaps, Covers
  <2> QED BY <1>1, <2>1, <2>4, Zenon
<1>2. ASSUME NEW l \in hit, e \in Below(l, start) \/ e \in Above(l, end)
      PROVE /\ e \in Locks
            /\ e.owner = o /\ l \in g_locks /\ l.owner = o /\ l.type = e.type
            /\ \A b \in Bytes : Covers(e, b) => Covers(l, b) /\ ~(start <= b /\ b <= end)
  <2>1. l \in g_locks /\ l \in Locks /\ l.owner = o
    BY Zenon DEF Hit
  <2>2. l.start \in Int /\ l.end \in Int /\ l.type \in Types /\ l.owner \in Owners
    BY <2>1, Zenon DEF Locks
  <2>3. CASE e \in Below(l, start)
    <3>1. e = [start |-> l.start, end |-> start - 1, type |-> l.type, owner |-> l.owner]
          /\ l.start < start /\ overlaps(l, start, end)
      BY <2>3, Zenon DEF Below, Entry, Hit
    <3>2. e \in Locks
      BY <2>2, <3>1, SMTT(30) DEF Locks
    <3>3. e.start = l.start /\ e.end = start - 1 /\ e.type = l.type /\ e.owner = l.owner
      BY <3>1, Zenon
    <3>4. \A b \in Bytes : Covers(e, b) => Covers(l, b) /\ ~(start <= b /\ b <= end)
      BY <2>2, <3>1, <3>3, ByteIsInt, SMTT(30) DEF Covers, overlaps
    <3> QED BY <2>1, <3>2, <3>3, <3>4, Zenon
  <2>4. CASE e \in Above(l, end)
    <3>1. e = [start |-> end + 1, end |-> l.end, type |-> l.type, owner |-> l.owner]
          /\ l.end > end /\ overlaps(l, start, end)
      BY <2>4, Zenon DEF Above, Entry, Hit
    <3>2. e \in Locks
      BY <2>2, <3>1, SMTT(30) DEF Locks
    <3>3. e.start = end + 1 /\ e.end = l.end /\ e.type = l.type /\ e.owner = l.owner
      BY <3>1, Zenon
    <3>4. \A b \in Bytes : Covers(e, b) => Covers(l, b) /\ ~(start <= b /\ b <= end)
      BY <2>2, <3>1, <3>3, ByteIsInt, SMTT(30) DEF Covers, overlaps
    <3> QED BY <2>1, <3>2, <3>3, <3>4, Zenon
  <2> QED BY <1>2, <2>3, <2>4, Zenon
<1>3. \/ e \in g_locks /\ e \notin hit
      \/ \E l \in hit : e \in Below(l, start) \/ e \in Above(l, end)
  BY Zenon DEF Cleared, AllBut
<1> HIDE DEF hit
<1>4. CASE \E l \in hit : e \in Below(l, start) \/ e \in Above(l, end)
  <2>1. PICK l \in hit : e \in Below(l, start) \/ e \in Above(l, end)
    BY <1>4, Zenon
  <2> QED BY <1>2, <2>1, Zenon
<1> QED BY <1>1, <1>3, <1>4, Zenon

(* The entries of others stay, and so does what is outside the range.       *)
LEMMA ClearedKeeps ==
    ASSUME g_locks \subseteq Locks, NEW start \in Int, NEW end \in Int, NEW o \in Owners,
           NEW l \in g_locks
    PROVE  /\ l.owner # o => l \in Cleared(start, end, o)
           /\ ~NoRoom(start, end, o) => \A b \in Bytes :
                 Covers(l, b) /\ ~(start <= b /\ b <= end)
                     => \E e \in Cleared(start, end, o) : /\ e.owner = l.owner /\ e.type = l.type
                                                          /\ Covers(e, b)
<1> DEFINE hit == Hit(start, end, o)
<1>1. l \notin hit => l \in Cleared(start, end, o)
  BY Zenon DEF Cleared, AllBut
<1>2. l \in hit => l.owner = o
  BY Zenon DEF Hit
<1>3. ASSUME ~NoRoom(start, end, o), l \in hit, NEW b \in Bytes, Covers(l, b),
             ~(start <= b /\ b <= end)
      PROVE \E e \in Cleared(start, end, o) : e.owner = l.owner /\ e.type = l.type /\ Covers(e, b)
  <2>1. Below(l, start) \cup Above(l, end) \subseteq Cleared(start, end, o)
    BY <1>3, Zenon DEF Cleared, AllBut
  <2>2. l.start \in Int /\ l.end \in Int /\ b \in Int
    BY ByteIsInt, Zenon DEF Locks
  <2>3. CASE b < start
    <3> DEFINE e == Entry(l.start, start - 1, l.type, l.owner)
    <3>1. e \in Below(l, start)
      BY <1>3, <2>2, <2>3, SMTT(30) DEF Below, Covers
    <3>2. e.start = l.start /\ e.end = start - 1 /\ e.owner = l.owner /\ e.type = l.type
      BY Zenon DEF Entry
    <3>3. Covers(e, b)
      BY <1>3, <2>2, <2>3, <3>2, SMTT(30) DEF Covers
    <3> QED BY <2>1, <3>1, <3>2, <3>3, Zenon
  <2>4. CASE b > end
    <3> DEFINE e == Entry(end + 1, l.end, l.type, l.owner)
    <3>1. e \in Above(l, end)
      BY <1>3, <2>2, <2>4, SMTT(30) DEF Above, Covers
    <3>2. e.start = end + 1 /\ e.end = l.end /\ e.owner = l.owner /\ e.type = l.type
      BY Zenon DEF Entry
    <3>3. Covers(e, b)
      BY <1>3, <2>2, <2>4, <3>2, SMTT(30) DEF Covers
    <3> QED BY <2>1, <3>1, <3>2, <3>3, Zenon
  <2> QED BY <1>3, <2>2, <2>3, <2>4, SMTT(30)
<1> QED BY <1>1, <1>2, <1>3, Zenon

LEMMA HoldsIs ==
    ASSUME NEW o \in Owners, NEW b \in Bytes, NEW x
    PROVE  x \in Holds(o, b) <=> \E k \in g_locks : k.owner = o /\ Covers(k, b) /\ k.type = x
  BY Zenon DEF Holds, Covers

(* vfs_lock_set and an unlock leave every owner with what it asked for.     *)
LEMMA ChangeHeld ==
    ASSUME LockTypes, HeldAsAsked, NEW o \in Owners, NEW r \in LockCalls, RangeMeant(r), Change(o, r)
    PROVE  /\ g_locks' \subseteq Locks
           /\ asked' \in [Owners -> [Bytes -> Types \cup {Free}]]
           /\ HeldAsAsked'
<1> DEFINE left  == Cleared(r.start, r.end, o)
           fails == \/ NoRoom(r.start, r.end, o)
                    \/ r.type # Free /\ Cardinality(left) = VFS_MAX_LOCKS
           lost  == {b \in Bytes : \A l \in left : l.owner = o => b \notin l.start .. l.end}
           new   == Entry(r.start, r.end, r.type, o)
<1>1. /\ g_locks \subseteq Locks /\ asked \in [Owners -> [Bytes -> Types \cup {Free}]]
      /\ r.start \in Int /\ r.end \in Int /\ r.type \in Types \cup {Free}
  BY Zenon DEF LockTypes, LockCalls
<1>2. /\ g_locks' = IF fails \/ r.type = Free THEN left ELSE left \cup {new}
      /\ asked' = [asked EXCEPT ![o] = [b \in Bytes |->
                      IF ~fails /\ b \in r.bytes THEN r.type
                      ELSE IF fails /\ b \in lost THEN Free ELSE @[b]]]
  BY Zenon DEF Change
<1>3. /\ asked' \in [Owners -> [Bytes -> Types \cup {Free}]]
      /\ \A p \in Owners \ {o} : asked'[p] = asked[p]
      /\ \A b \in Bytes : asked'[o][b] = IF ~fails /\ b \in r.bytes THEN r.type
                                         ELSE IF fails /\ b \in lost THEN Free ELSE asked[o][b]
  <2> HIDE DEF fails, lost
  <2> QED BY <1>1, <1>2, Zenon
<1>4. new.start = r.start /\ new.end = r.end /\ new.type = r.type /\ new.owner = o
  BY Zenon DEF Entry
<1>5. ASSUME NEW e \in left
      PROVE /\ e \in Locks
            /\ e.owner # o => e \in g_locks
            /\ e.owner = o => \A b \in Bytes : Covers(e, b) => ~(r.start <= b /\ b <= r.end)
            /\ \E l \in g_locks : /\ l.owner = e.owner /\ l.type = e.type
                                  /\ \A b \in Bytes : Covers(e, b) => Covers(l, b)
  BY <1>1, ClearedWas, Zenon
<1>6. ASSUME NEW l \in g_locks
      PROVE /\ l.owner # o => l \in left
            /\ ~fails => \A b \in Bytes : Covers(l, b) /\ ~(r.start <= b /\ b <= r.end)
                  => \E e \in left : e.owner = l.owner /\ e.type = l.type /\ Covers(e, b)
  BY <1>1, ClearedKeeps, Zenon
<1>7. \A b \in Bytes : b \in lost <=> ~ \E e \in left : e.owner = o /\ Covers(e, b)
  <2> SUFFICES ASSUME NEW b \in Bytes, NEW e \in left
               PROVE  b \in e.start .. e.end <=> Covers(e, b)
    BY Zenon
  <2>1. e.start \in Int /\ e.end \in Int /\ b \in Int
    BY <1>1, ByteIsInt, ClearedWas DEF Locks
  <2> QED BY <2>1, SMTT(30) DEF Covers
<1> HIDE DEF left, fails, lost, new
<1>8. g_locks' \subseteq Locks
  <2>1. left \subseteq Locks
    BY <1>1, ClearedWas, Zenon DEF left
  <2>2. r.type # Free => new \in Locks
    BY <1>1, Zenon DEF Locks, new, Entry
  <2> QED BY <1>2, <2>1, <2>2, Zenon
<1>9. ASSUME NEW p \in Owners, NEW b \in Bytes PROVE Holds(p, b)' = {asked'[p][b]} \ {Free}
  <2>0. \A x : x \in Holds(p, b)' <=> \E k \in g_locks' : k.owner = p /\ Covers(k, b) /\ k.type = x
    BY Zenon DEF Holds, Covers
  <2>00. /\ \A x : x \in Holds(p, b) <=> \E k \in g_locks : k.owner = p /\ Covers(k, b) /\ k.type = x
         /\ Holds(p, b) = {asked[p][b]} \ {Free}
    BY HoldsIs DEF HeldAsAsked
  <2>1. CASE p # o
    <3>1. \A k : k.owner = p => (k \in g_locks' <=> k \in g_locks)
      <4> SUFFICES ASSUME NEW k, k.owner = p PROVE k \in g_locks' <=> k \in g_locks
        BY Zenon
      <4>1. k \in left <=> k \in g_locks
        BY <1>5, <1>6, <2>1, Zenon
      <4>2. k # new
        BY <1>4, <2>1, Zenon
      <4> QED BY <1>2, <4>1, <4>2, Zenon
    <3>2. \A x : x \in Holds(p, b)' <=> x \in Holds(p, b)
      BY <2>0, <2>00, <3>1, Zenon
    <3> QED BY <1>3, <2>00, <2>1, <3>2, Zenon
  <2>2. CASE p = o /\ ~fails /\ b \in r.bytes
    <3>1. r.start <= b /\ b <= r.end
      BY <2>2, Zenon DEF RangeMeant
    <3>2. \A e \in left : ~(e.owner = o /\ Covers(e, b))
      BY <1>5, <3>1, Zenon
    <3>3. Covers(new, b)
      BY <1>4, <3>1, Zenon DEF Covers
    <3>4. \A x : x \in Holds(p, b)' <=> r.type # Free /\ x = r.type
      BY <1>2, <1>4, <2>0, <2>2, <3>2, <3>3, SMTT(60)
    <3> QED BY <1>3, <2>2, <3>4, Zenon
  <2>3. CASE p = o /\ ~fails /\ b \notin r.bytes
    <3>1. ~(r.start <= b /\ b <= r.end)
      BY <2>3, Zenon DEF RangeMeant
    <3>2. ~Covers(new, b)
      BY <1>4, <3>1, Zenon DEF Covers
    <3>3. \A x : x \in Holds(p, b)' => x \in Holds(p, b)
      BY <1>2, <1>5, <2>0, <2>00, <3>2, SMTT(60)
    <3>4. \A x : x \in Holds(p, b) => x \in Holds(p, b)'
      BY <1>2, <1>6, <2>0, <2>00, <2>3, <3>1, SMTT(60)
    <3> QED BY <1>3, <2>00, <2>3, <3>3, <3>4, Zenon
  <2>4. CASE p = o /\ fails
    <3>1. g_locks' = left
      BY <1>2, <2>4, ZenonT(60)
    <3>2. \A x : x \in Holds(p, b)' => x \in Holds(p, b)
      BY <1>5, <2>0, <2>00, <3>1, SMTT(60)
    <3>3. Holds(p, b)' = {} <=> b \in lost
      BY <1>7, <2>0, <2>4, <3>1, Zenon
    <3>4. asked'[p][b] = IF b \in lost THEN Free ELSE asked[p][b]
      BY <1>3, <2>4, Zenon
    <3> QED BY <2>00, <3>2, <3>3, <3>4, Zenon
  <2> QED BY <2>1, <2>2, <2>3, <2>4, Zenon
<1> QED BY <1>3, <1>8, <1>9, Zenon DEF HeldAsAsked

(* A lock that passed the test at the moment it is inserted shares no byte  *)
(* it should not.                                                           *)
LEMMA ChangeShares ==
    ASSUME LockTypes, NEW o \in Owners, NEW r \in LockCalls, RangeMeant(r), Change(o, r),
           r.type = Free \/ vfs_lock_test(r.type, r.start, r.end, o),
           NoConflict, stale = 0
    PROVE  NoConflict'
<1> DEFINE left == Cleared(r.start, r.end, o)
           new  == Entry(r.start, r.end, r.type, o)
<1>1. g_locks \subseteq Locks /\ r.start \in Int /\ r.end \in Int /\ r.type \in Types \cup {Free}
  BY Zenon DEF LockTypes, LockCalls
<1>2. g_locks' \subseteq left \cup (IF r.type = Free THEN {} ELSE {new})
  BY Zenon DEF Change
<1>3. new.start = r.start /\ new.end = r.end /\ new.type = r.type /\ new.owner = o
  BY Zenon DEF Entry
<1>4. ASSUME NEW e \in left
      PROVE \E l \in g_locks : /\ l.owner = e.owner /\ l.type = e.type
                               /\ \A b \in Bytes : Covers(e, b) => Covers(l, b)
  BY <1>1, ClearedWas, Zenon
<1>5. ASSUME NEW k \in g_locks, NEW l \in g_locks, NEW b \in Bytes, k.owner # l.owner,
             Covers(k, b), Covers(l, b)
      PROVE k.type = "READ"
  <2>1. k.owner \in Owners /\ l.owner \in Owners
    BY <1>1, Zenon DEF Locks
  <2>2. k.type \in Holds(k.owner, b) /\ l.type \in Holds(l.owner, b)
    BY <1>5, <2>1, HoldsIs, Zenon
  <2> QED BY <1>5, <2>1, <2>2 DEF NoConflict
<1>6. ASSUME NEW k \in g_locks, NEW b \in Bytes, k.owner # o, Covers(k, b), Covers(new, b), r.type # Free
      PROVE k.type = "READ" /\ r.type = "READ"
  <2>1. k.start \in Int /\ k.end \in Int /\ b \in Int
    BY <1>1, ByteIsInt, Zenon DEF Locks
  <2>2. overlaps(k, r.start, r.end)
    BY <1>1, <1>3, <1>6, <2>1, SMTT(30) DEF overlaps, Covers
  <2> QED BY <1>6, <2>2, Zenon DEF vfs_lock_test, Conflicts
<1> HIDE DEF left, new
<1>7. ASSUME NEW k \in g_locks', NEW l \in g_locks', NEW b \in Bytes, k.owner # l.owner,
             Covers(k, b), Covers(l, b)
      PROVE k.type = "READ"
  <2>1. CASE k \in left /\ l \in left
    BY <1>4, <1>5, <1>7, <2>1
  <2>2. CASE k = new /\ l \in left /\ r.type # Free
    BY <1>3, <1>4, <1>6, <1>7, <2>2, Zenon
  <2>3. CASE k \in left /\ l = new /\ r.type # Free
    BY <1>3, <1>4, <1>6, <1>7, <2>3, Zenon
  <2> QED BY <1>2, <1>7, <2>1, <2>2, <2>3, Zenon
<1>8. ASSUME NEW b \in Bytes, NEW p \in Owners, NEW q \in Owners, p # q,
             Holds(p, b)' # {}, Holds(q, b)' # {}
      PROVE Holds(p, b)' = {"READ"}
  <2>1. \A x : /\ x \in Holds(p, b)' <=> \E k \in g_locks' : k.owner = p /\ Covers(k, b) /\ k.type = x
               /\ x \in Holds(q, b)' <=> \E k \in g_locks' : k.owner = q /\ Covers(k, b) /\ k.type = x
    BY Zenon DEF Holds, Covers
  <2>2. PICK l \in g_locks' : l.owner = q /\ Covers(l, b)
    BY <1>8, <2>1, Zenon
  <2>3. \A x : x \in Holds(p, b)' => x = "READ"
    BY <1>7, <1>8, <2>1, <2>2, Zenon
  <2> QED BY <1>8, <2>3, Zenon
<1> QED BY <1>8, Zenon DEF NoConflict

LEMMA LockInit == LInit => LockInv
<1> SUFFICES ASSUME LInit PROVE LockInv
  BY Zenon
<1>1. NoCall \in LockCalls
  BY SMTT(30) DEF NoCall, LockCalls
<1>2. LockTypes
  BY <1>1, Zenon DEF LInit, LockTypes
<1>3. HeldAsAsked /\ NoConflict
  <2>1. \A o \in Owners, b \in Bytes : Holds(o, b) = {} /\ asked[o][b] = Free
    BY Zenon DEF LInit, Holds
  <2> QED BY <2>1, Zenon DEF HeldAsAsked, NoConflict
<1> QED BY <1>2, <1>3, Zenon DEF LockInv

LEMMA TestKeeps == ASSUME LockInv, NEW o \in Owners, TestLock(o) PROVE LockInv'
<1>1. PICK r \in Requests(Types) : call' = [call EXCEPT ![o] = r]
  BY ZenonT(30) DEF TestLock, ToLock
<1>2. r \in LockCalls /\ r.type \in Types /\ RangeMeant(r)
  BY RequestMeant, Zenon
<1>3. LockTypes
  BY Zenon DEF LockInv
<1>4. UNCHANGED <<g_locks, asked, stale>>
  BY Zenon DEF TestLock
<1>5. call' \in [Owners -> LockCalls] /\ \A p \in Owners : call'[p] = IF p = o THEN r ELSE call[p]
  BY <1>1, <1>2, <1>3, Zenon DEF LockTypes
<1>6. ASSUME NEW p \in Owners, call'[p] # NoCall PROVE call'[p].type \in Types /\ RangeMeant(call'[p])
  BY <1>2, <1>3, <1>5, <1>6, Zenon DEF LockTypes
<1>7. LockTypes'
  BY <1>3, <1>4, <1>5, <1>6, Zenon DEF LockTypes, RangeMeant, NoCall
<1>8. HeldAsAsked' /\ NoConflict'
  <2>1. \A p \in Owners, b \in Bytes : Holds(p, b)' = Holds(p, b)
    BY <1>4, Zenon DEF Holds
  <2> QED BY <1>4, <2>1 DEF LockInv, HeldAsAsked, NoConflict
<1> QED BY <1>7, <1>8, Zenon DEF LockInv

LEMMA SetKeeps == ASSUME LockInv, NEW o \in Owners, SetLock(o) PROVE LockInv'
<1> DEFINE r == call[o]
<1>1. LockTypes /\ HeldAsAsked /\ NoConflict
  BY Zenon DEF LockInv
<1>2. r # NoCall /\ Change(o, r) /\ call' = [call EXCEPT ![o] = NoCall]
  BY Zenon DEF SetLock
<1>3. r \in LockCalls /\ r.type \in Types /\ RangeMeant(r)
  BY <1>1, <1>2, Zenon DEF LockTypes
<1>4. stale' \in Nat /\ (stale' = 0 => stale = 0 /\ vfs_lock_test(r.type, r.start, r.end, o))
  BY <1>1, SMTT(30) DEF SetLock, LockTypes
<1> HIDE DEF r
<1>5. g_locks' \subseteq Locks /\ asked' \in [Owners -> [Bytes -> Types \cup {Free}]] /\ HeldAsAsked'
  BY <1>1, <1>2, <1>3, ChangeHeld, Zenon
<1>6. NoConflict'
  <2>1. CASE stale' = 0
    BY <1>1, <1>2, <1>3, <1>4, <2>1, ChangeShares, Zenon
  <2>2. CASE stale' # 0
    BY <2>2, Zenon DEF NoConflict
  <2> QED BY <2>1, <2>2, Zenon
<1>7. NoCall \in LockCalls
  BY SMTT(30) DEF NoCall, LockCalls
<1>8. call' \in [Owners -> LockCalls] /\ \A p \in Owners : call'[p] = IF p = o THEN NoCall ELSE call[p]
  BY <1>1, <1>2, <1>7, Zenon DEF LockTypes
<1>9. LockTypes'
  BY <1>1, <1>4, <1>5, <1>8, Zenon DEF LockTypes, RangeMeant, NoCall
<1> QED BY <1>5, <1>6, <1>9, Zenon DEF LockInv

LEMMA UnlockKeeps == ASSUME LockInv, NEW o \in Owners, Unlock(o) PROVE LockInv'
<1>1. LockTypes /\ HeldAsAsked /\ NoConflict
  BY Zenon DEF LockInv
<1>2. PICK r \in Requests({Free}) : Change(o, r)
  BY Zenon DEF Unlock, ToUnlock
<1>3. r \in LockCalls /\ r.type = Free /\ RangeMeant(r)
  BY RequestMeant
<1>4. UNCHANGED <<call, stale>>
  BY Zenon DEF Unlock
<1>5. g_locks' \subseteq Locks /\ asked' \in [Owners -> [Bytes -> Types \cup {Free}]] /\ HeldAsAsked'
  BY <1>1, <1>2, <1>3, ChangeHeld, Zenon
<1>6. NoConflict'
  <2>1. CASE stale = 0
    BY <1>1, <1>2, <1>3, <2>1, ChangeShares, Zenon
  <2>2. CASE stale # 0
    BY <1>4, <2>2, Zenon DEF NoConflict
  <2> QED BY <2>1, <2>2, Zenon
<1>7. LockTypes'
  BY <1>1, <1>4, <1>5, Zenon DEF LockTypes, RangeMeant, NoCall
<1> QED BY <1>5, <1>6, <1>7, Zenon DEF LockInv

LEMMA ReleaseKeeps == ASSUME LockInv, NEW o \in Owners, vfs_lock_release(o) PROVE LockInv'
<1>1. LockTypes /\ HeldAsAsked /\ NoConflict
  BY Zenon DEF LockInv
<1>2. /\ g_locks' = {l \in g_locks : l.owner # o} /\ UNCHANGED <<call, stale>>
      /\ asked' = [asked EXCEPT ![o] = [b \in Bytes |-> Free]]
  BY Zenon DEF vfs_lock_release
<1>3. LockTypes'
  BY <1>1, <1>2, Zenon DEF LockTypes, RangeMeant, NoCall
<1>4. \A p \in Owners, b \in Bytes : /\ Holds(p, b)' = IF p = o THEN {} ELSE Holds(p, b)
                                    /\ asked'[p][b] = IF p = o THEN Free ELSE asked[p][b]
  <2> SUFFICES ASSUME NEW p \in Owners, NEW b \in Bytes
               PROVE  /\ Holds(p, b)' = IF p = o THEN {} ELSE Holds(p, b)
                      /\ asked'[p][b] = IF p = o THEN Free ELSE asked[p][b]
    BY Zenon
  <2>1. Holds(p, b)' = IF p = o THEN {} ELSE Holds(p, b)
    BY <1>2, Zenon DEF Holds
  <2>2. asked'[p][b] = IF p = o THEN Free ELSE asked[p][b]
    BY <1>1, <1>2, Zenon DEF LockTypes
  <2> QED BY <2>1, <2>2, Zenon
<1>5. HeldAsAsked'
  BY <1>1, <1>4 DEF HeldAsAsked
<1>6. NoConflict'
  BY <1>1, <1>2, <1>4 DEF NoConflict
<1> QED BY <1>3, <1>5, <1>6, Zenon DEF LockInv

LEMMA LockStep == LockInv /\ [LNext]_lvars => LockInv'
<1> SUFFICES ASSUME LockInv, [LNext]_lvars PROVE LockInv'
  BY Zenon
<1>1. CASE UNCHANGED lvars
  <2>1. \A p \in Owners, b \in Bytes : Holds(p, b)' = Holds(p, b)
    BY <1>1, Zenon DEF Holds, lvars
  <2>2. HeldAsAsked' /\ NoConflict'
    BY <1>1, <2>1 DEF lvars, LockInv, HeldAsAsked, NoConflict
  <2>3. LockTypes'
    BY <1>1, Zenon DEF lvars, LockInv, LockTypes, RangeMeant, NoCall
  <2> QED BY <2>2, <2>3, Zenon DEF LockInv
<1> QED BY <1>1, TestKeeps, SetKeeps, UnlockKeeps, ReleaseKeeps, Zenon DEF LNext

(***************************************************************************)
(* Whatever lock_clear_range splits, shortens or removes, an owner holds on *)
(* every byte what its calls asked for.                                     *)
(***************************************************************************)
THEOREM LocksAsAsked == LSpec => []HeldAsAsked
  BY LockInit, LockStep, PTL DEF LSpec, LockInv

(***************************************************************************)
(* As long as no vfs_lock_set inserts on a stale test, no two owners share  *)
(* a byte that one of them has locked for writing.                          *)
(***************************************************************************)
THEOREM LocksExclude == LSpec => []NoConflict
  BY LockInit, LockStep, PTL DEF LSpec, LockInv
-----------------------------------------------------------------------------
(* Slabs: what the CPUs have in their hands while they are without the      *)
(* lock is a page that is not on a list, and each has a different one.      *)
SlabTypes ==
    /\ used \in [Slabs -> 0 .. Total]
    /\ page \in [Slabs -> {"free", "made", "slab", "empty"}]
    /\ doing \in [CPUs -> [at : {"idle", "new", "give"}, slab : Slabs \cup {NoSlab}]]

InHand ==
    /\ \A c \in CPUs : /\ doing[c].at = "new" => doing[c].slab \in Slabs /\ page[doing[c].slab] = "made"
                       /\ doing[c].at = "give" => doing[c].slab \in Slabs /\ page[doing[c].slab] = "empty"
    /\ \A c, d \in CPUs : /\ c # d /\ doing[c].at # "idle" /\ doing[d].at # "idle"
                          => doing[c].slab # doing[d].slab

SlabInv == SlabTypes /\ InHand /\ SlabLists

(* Taking an object keeps the lists right, for a slab that is on the list   *)
(* given and has an object free.                                            *)
LEMMA TakeKeepsLists ==
    ASSUME SlabTypes, SlabLists,
           NEW s \in Slabs, used[s] < Total, page' \in [Slabs -> {"free", "made", "slab", "empty"}],
           page'[s] = "slab", \A r \in Slabs \ {s} : page'[r] = page[r],
           TakeFrom(partial \cup {s}, s)
    PROVE  used' \in [Slabs -> 0 .. Total] /\ SlabLists'
<1>1. used' \in [Slabs -> 0 .. Total] /\ used'[s] = used[s] + 1 /\ \A r \in Slabs \ {s} : used'[r] = used[r]
  BY TotalAssumption, SMTT(30) DEF SlabTypes, TakeFrom
<1>2. CASE used[s] + 1 = Total
  <2>1. partial' = partial \ {s} /\ full' = full \cup {s}
    BY <1>2, Zenon DEF TakeFrom
  <2> QED BY <1>1, <1>2, <2>1, TotalAssumption, SMTT(60) DEF SlabTypes, SlabLists
<1>3. CASE used[s] + 1 # Total
  <2>1. partial' = partial \cup {s} /\ full' = full
    BY <1>3, Zenon DEF TakeFrom
  <2> QED BY <1>1, <1>3, <2>1, TotalAssumption, SMTT(60) DEF SlabTypes, SlabLists
<1> QED BY <1>1, <1>2, <1>3, Zenon

LEMMA SlabInit == SInit => SlabInv
  BY TotalAssumption, SMTT(30) DEF SInit, SlabInv, SlabTypes, InHand, SlabLists

LEMMA SlabStep == SlabInv /\ [SNext]_svars => SlabInv'
<1> SUFFICES ASSUME SlabInv, [SNext]_svars PROVE SlabInv'
  BY Zenon
<1>1. CASE UNCHANGED svars
  BY <1>1, Zenon DEF SlabInv, SlabTypes, InHand, SlabLists, svars
<1>2. ASSUME NEW c \in CPUs, kmalloc(c) PROVE SlabInv'
  <2>1. PICK s \in partial : TakeFrom(partial, s)
    BY <1>2, Zenon DEF kmalloc
  <2>2. s \in Slabs /\ used[s] < Total /\ page[s] = "slab" /\ partial = partial \cup {s}
    BY <2>1, TotalAssumption, SMTT(30) DEF SlabInv, SlabTypes, SlabLists
  <2>3. page' = page /\ doing' = doing
    BY <1>2, Zenon DEF kmalloc
  <2>4. used' \in [Slabs -> 0 .. Total] /\ SlabLists'
    BY <2>1, <2>2, <2>3, TakeKeepsLists, Zenon DEF SlabInv, SlabTypes
  <2> QED BY <2>3, <2>4, Zenon DEF SlabInv, SlabTypes, InHand
<1>3. ASSUME NEW c \in CPUs, kmalloc_new(c) PROVE SlabInv'
  <2>1. PICK s \in Slabs : page[s] = "free" /\ page' = [page EXCEPT ![s] = "made"] /\ At(c, "new", s)
    BY <1>3, ZenonT(30) DEF kmalloc_new
  <2>2. SlabTypes'
    BY <1>3, <2>1, Zenon DEF kmalloc_new, At, SlabInv, SlabTypes
  <2>3. InHand'
    BY <1>3, <2>1, SMTT(60) DEF kmalloc_new, At, SlabInv, SlabTypes, InHand
  <2>4. SlabLists'
    BY <1>3, <2>1, Zenon DEF kmalloc_new, SlabInv, SlabTypes, SlabLists
  <2> QED BY <2>2, <2>3, <2>4, Zenon DEF SlabInv
<1>4. ASSUME NEW c \in CPUs, kmalloc_push(c) PROVE SlabInv'
  <2> DEFINE s == doing[c].slab
  <2>1. s \in Slabs /\ page[s] = "made" /\ used[s] = 0 /\ used[s] < Total
    BY <1>4, TotalAssumption, SMTT(30) DEF kmalloc_push, SlabInv, SlabTypes, InHand, SlabLists
  <2>2. page' = [page EXCEPT ![s] = "slab"] /\ TakeFrom(partial \cup {s}, s) /\ At(c, "idle", NoSlab)
    BY <1>4, Zenon DEF kmalloc_push
  <2> HIDE DEF s
  <2>3. used' \in [Slabs -> 0 .. Total] /\ SlabLists'
    <3>1. /\ page' \in [Slabs -> {"free", "made", "slab", "empty"}]
          /\ page'[s] = "slab" /\ \A r \in Slabs \ {s} : page'[r] = page[r]
      BY <2>1, <2>2, Zenon DEF SlabInv, SlabTypes
    <3> QED BY <2>1, <2>2, <3>1, TakeKeepsLists, Zenon DEF SlabInv
  <2>4. SlabTypes'
    <3>1. page' \in [Slabs -> {"free", "made", "slab", "empty"}]
      BY <2>1, <2>2, Zenon DEF SlabInv, SlabTypes
    <3>2. doing' \in [CPUs -> [at : {"idle", "new", "give"}, slab : Slabs \cup {NoSlab}]]
      BY <2>2, Zenon DEF At, SlabInv, SlabTypes
    <3> QED BY <2>3, <3>1, <3>2, Zenon DEF SlabTypes
  <2>5. InHand'
    BY <1>4, <2>1, <2>2, SMTT(60) DEF At, kmalloc_push, SlabInv, SlabTypes, InHand, s
  <2> QED BY <2>3, <2>4, <2>5, Zenon DEF SlabInv
<1>5. ASSUME NEW c \in CPUs, kfree_pages(c) PROVE SlabInv'
  <2>1. doing[c].slab \in Slabs /\ page[doing[c].slab] = "empty"
    BY <1>5, Zenon DEF kfree_pages, SlabInv, InHand
  <2>2. SlabTypes'
    BY <1>5, <2>1, Zenon DEF kfree_pages, At, SlabInv, SlabTypes
  <2>3. InHand'
    BY <1>5, <2>1, SMTT(60) DEF kfree_pages, At, SlabInv, SlabTypes, InHand
  <2>4. SlabLists'
    BY <1>5, <2>1, Zenon DEF kfree_pages, SlabInv, SlabTypes, SlabLists
  <2> QED BY <2>2, <2>3, <2>4, Zenon DEF SlabInv
<1>6. ASSUME NEW c \in CPUs, NEW s \in Slabs, kfree(c, s) PROVE SlabInv'
  <2>1. /\ used[s] \in 1 .. Total /\ page[s] = "slab" /\ doing[c].at = "idle"
        /\ used' = [used EXCEPT ![s] = @ - 1] /\ full' = full \ {s} /\ partial' = PartialAfter(s)
    BY <1>6, TotalAssumption, SMTT(60) DEF kfree, SlabInv, SlabTypes, SlabLists
  <2>2. CASE used[s] = 1
    <3>1. page' = [page EXCEPT ![s] = "empty"] /\ At(c, "give", s)
      BY <1>6, <2>2, Zenon DEF kfree
    <3>2. SlabTypes'
      BY <2>1, <3>1, TotalAssumption, SMTT(60) DEF At, SlabInv, SlabTypes
    <3>3. InHand'
      BY <2>1, <3>1, SMTT(60) DEF At, SlabInv, SlabTypes, InHand
    <3>4. SlabLists'
      BY <2>1, <2>2, <3>1, TotalAssumption, SMTT(60) DEF PartialAfter, SlabInv, SlabTypes, SlabLists
    <3> QED BY <3>2, <3>3, <3>4, Zenon DEF SlabInv
  <2>3. CASE used[s] # 1
    <3>1. page' = page /\ doing' = doing
      BY <1>6, <2>3, Zenon DEF kfree
    <3>2. SlabTypes' /\ InHand'
      BY <2>1, <3>1, TotalAssumption, SMTT(60) DEF SlabInv, SlabTypes, InHand
    <3>3. SlabLists'
      BY <2>1, <2>3, <3>1, TotalAssumption, SMTT(60) DEF PartialAfter, SlabInv, SlabTypes, SlabLists
    <3> QED BY <3>2, <3>3, Zenon DEF SlabInv
  <2> QED BY <2>2, <2>3, Zenon
<1> QED BY <1>1, <1>2, <1>3, <1>4, <1>5, <1>6, Zenon DEF SNext

(* At every moment, with any number of CPUs between the two holds of the    *)
(* lock that kmalloc and kfree take, the two lists hold exactly the slabs   *)
(* they should, and a page that is being given back is on neither.          *)
THEOREM ListsRight == SSpec => []SlabLists
<1>1. SlabInv => SlabLists
  BY Zenon DEF SlabInv
<1> QED BY <1>1, SlabInit, SlabStep, PTL DEF SSpec
-----------------------------------------------------------------------------
(* Unix: a pointer is good because a socket that waits in a queue has no    *)
(* descriptor that could be closed, is in one queue once, and a socket that *)
(* never connected has no peer; a sleeper is found because it stays in its  *)
(* slot until it is on its way to be woken.                                 *)
UStates == {"none", "UNBOUND", "BOUND", "LISTEN", "CONNECTED", "freed"}
UTypes ==
    /\ ustate \in [Socks -> UStates] /\ peer \in [Socks -> Socks \cup {NoSock}]
    /\ accept_q \in [Socks -> Seq(Socks)] /\ listeners \subseteq Socks /\ held \subseteq Live
PeersLinked == \A s \in Live : peer[s] # NoSock => peer[s] \in Live /\ peer[peer[s]] = s
Unconnected ==
    \A s \in Socks : /\ ustate[s] \in {"none", "UNBOUND", "BOUND", "LISTEN"} => peer[s] = NoSock
                     /\ ustate[s] = "none" => accept_q[s] = <<>>
QueuedLive == \A s \in Live : \A i \in DOMAIN accept_q[s] : accept_q[s][i] \in Live \ held
QueuedOnce ==
    \A s, r \in Live : \A i \in DOMAIN accept_q[s], j \in DOMAIN accept_q[r] :
        accept_q[s][i] = accept_q[r][j] => s = r /\ i = j
LinkInv == /\ UTypes /\ PeersLinked /\ Unconnected /\ QueuedLive /\ QueuedOnce
           /\ \A s \in listeners : ustate[s] = "LISTEN"

Waits == {"read", "accept", "fd"}
STypes ==
    /\ DOMAIN rbuf = Socks /\ DOMAIN fic = Socks /\ peer_gone \in [Socks -> BOOLEAN]
    /\ asleep \in [Socks -> Waits \cup {"no"}] /\ slot \in [Socks -> SUBSET Waits]
InSlot == \A s \in Socks : asleep[s] # "no" => s \in held /\ (s \notin waking => asleep[s] \in slot[s])
SleepersFound ==
    \A s \in Socks \ waking :
        /\ asleep[s] = "read" => rbuf[s] = 0 /\ (peer_gone[s] => s \in unaccepted)
        /\ asleep[s] = "accept" => accept_q[s] = <<>>
WakeInv == STypes /\ InSlot /\ SleepersFound
UnixInv == LinkInv /\ WakeInv

LEMMA UnixInit == UInit => UnixInv
<1> SUFFICES ASSUME UInit PROVE UnixInv
  BY Zenon
<1>1. Live = {}
  BY Zenon DEF UInit, Live
<1>2. LinkInv
  BY <1>1, SMTT(30) DEF UInit, LinkInv, UTypes, UStates, PeersLinked, Unconnected, QueuedLive, QueuedOnce
<1>3. WakeInv
  BY <1>1, Zenon DEF UInit, WakeInv, STypes, InSlot, SleepersFound, Waits
<1> QED BY <1>2, <1>3, Zenon DEF UnixInv

(* A step that leaves the pointers alone.                                   *)
LEMMA LinksUnchanged ==
    ASSUME LinkInv, UNCHANGED <<ustate, held, peer, accept_q, listeners>> PROVE LinkInv'
<1>1. Live' = Live
  BY Zenon DEF Live
<1> QED BY <1>1 DEF LinkInv, UTypes, PeersLinked, Unconnected, QueuedLive, QueuedOnce

LEMMA NewLinks == ASSUME LinkInv, NEW s \in Socks, unix_new_vnode(s) PROVE LinkInv'
<1>1. /\ ustate[s] = "none" /\ ustate' = [ustate EXCEPT ![s] = "UNBOUND"] /\ held' = held \cup {s}
      /\ UNCHANGED <<peer, accept_q, listeners>>
  BY Zenon DEF unix_new_vnode, Becomes, links, queues
<1>2. UTypes /\ PeersLinked /\ Unconnected /\ QueuedLive /\ QueuedOnce
  BY Zenon DEF LinkInv
<1>3. Live' = Live \cup {s} /\ s \notin Live
  BY <1>1, <1>2, Zenon DEF Live, UTypes
<1>4. peer[s] = NoSock /\ accept_q[s] = <<>> /\ DOMAIN accept_q[s] = {}
  BY <1>1, <1>2, SMTT(30) DEF Unconnected
<1>5. UTypes'
  BY <1>1, <1>2, <1>3, Zenon DEF UTypes, UStates
<1>6. PeersLinked'
  BY <1>1, <1>2, <1>3, <1>4, Zenon DEF PeersLinked
<1>7. Unconnected'
  BY <1>1, <1>2, <1>4, ZenonT(60) DEF Unconnected, UTypes
<1>8. QueuedLive' /\ QueuedOnce'
  BY <1>1, <1>2, <1>3, <1>4, SMTT(60) DEF QueuedLive, QueuedOnce
<1>9. \A r \in listeners' : ustate'[r] = "LISTEN"
  BY <1>1, <1>2, Zenon DEF LinkInv, UTypes
<1> QED BY <1>5, <1>6, <1>7, <1>8, <1>9, Zenon DEF LinkInv

LEMMA TwoExcept ==
    ASSUME NEW S, NEW T, NEW f \in [S -> T], NEW a \in S, NEW b \in S, NEW x \in T, NEW y \in T
    PROVE  /\ [f EXCEPT ![a] = x, ![b] = y] \in [S -> T]
           /\ \A q \in S : [f EXCEPT ![a] = x, ![b] = y][q]
                            = IF q = b THEN y ELSE IF q = a THEN x ELSE f[q]
  BY SMTT(30)

LEMMA PairLinks ==
    ASSUME LinkInv, NEW s \in Socks, NEW r \in Socks, unix_make_pair(s, r) PROVE LinkInv'
<1>1. /\ s # r /\ ustate[s] = "none" /\ ustate[r] = "none"
      /\ ustate' = [ustate EXCEPT ![s] = "CONNECTED", ![r] = "CONNECTED"]
      /\ peer' = [peer EXCEPT ![s] = r, ![r] = s]
      /\ held' = held \cup {s, r} /\ UNCHANGED <<accept_q, listeners>>
  BY Zenon DEF unix_make_pair, queues
<1>2. UTypes /\ PeersLinked /\ Unconnected /\ QueuedLive /\ QueuedOnce
  BY Zenon DEF LinkInv
<1>3. Live' = Live \cup {s, r} /\ s \notin Live /\ r \notin Live
  BY <1>1, <1>2, Zenon DEF Live, UTypes
<1>4. accept_q[s] = <<>> /\ accept_q[r] = <<>> /\ DOMAIN accept_q[s] = {} /\ DOMAIN accept_q[r] = {}
  BY <1>1, <1>2, SMTT(30) DEF Unconnected
<1>5. UTypes'
  <2>1. ustate' \in [Socks -> UStates]
    <3>1. ustate \in [Socks -> UStates] /\ "CONNECTED" \in UStates
      BY <1>2, Zenon DEF UTypes, UStates
    <3> QED BY <1>1, <3>1, TwoExcept, Zenon
  <2>2. peer' \in [Socks -> Socks \cup {NoSock}]
    <3>1. peer \in [Socks -> Socks \cup {NoSock}]
      BY <1>2, Zenon DEF UTypes
    <3> QED BY <1>1, <3>1, TwoExcept, Zenon
  <2>3. held' \subseteq Live'
    BY <1>1, <1>2, <1>3, Zenon DEF UTypes
  <2> QED BY <1>1, <1>2, <2>1, <2>2, <2>3, ZenonT(60) DEF UTypes, UStates
<1>6. PeersLinked'
  <2> SUFFICES ASSUME NEW q \in Live', peer'[q] # NoSock
               PROVE  peer'[q] \in Live' /\ peer'[peer'[q]] = q
    BY Zenon DEF PeersLinked
  <2>1. \A x \in Socks : peer'[x] = IF x = s THEN r ELSE IF x = r THEN s ELSE peer[x]
    BY <1>1, <1>2, Zenon DEF UTypes
  <2>2. q \in Socks
    BY Zenon DEF Live
  <2>3. CASE q \in {s, r}
    <3>1. peer'[s] = r /\ peer'[r] = s
      BY <1>1, <2>1, ZenonT(60)
    <3> QED BY <1>3, <2>3, <3>1, Zenon
  <2>4. CASE q \in Live
    <3>1. q # s /\ q # r /\ peer'[q] = peer[q]
      BY <1>3, <2>1, <2>2, <2>4, Zenon
    <3>2. peer[q] \in Live /\ peer[peer[q]] = q
      BY <1>2, <2>4, <3>1, Zenon DEF PeersLinked
    <3>3. peer[q] \in Socks /\ peer[q] # s /\ peer[q] # r
      BY <1>3, <3>2, Zenon DEF Live
    <3> QED BY <1>3, <2>1, <3>1, <3>2, <3>3, Zenon
  <2> QED BY <1>3, <2>3, <2>4, Zenon
<1>7. Unconnected'
  BY <1>1, <1>2, ZenonT(60) DEF Unconnected, UTypes
<1>8. QueuedLive' /\ QueuedOnce'
  BY <1>1, <1>2, <1>3, <1>4, SMTT(60) DEF QueuedLive, QueuedOnce
<1>9. \A q \in listeners' : ustate'[q] = "LISTEN"
  BY <1>1, <1>2, Zenon DEF LinkInv, UTypes
<1> QED BY <1>5, <1>6, <1>7, <1>8, <1>9, Zenon DEF LinkInv

LEMMA BindLinks ==
    ASSUME LinkInv, NEW s \in Socks, unix_op_bind(s) \/ unix_op_listen(s) PROVE LinkInv'
<1>1. /\ ustate[s] \in {"UNBOUND", "BOUND"} /\ \E st \in {"BOUND", "LISTEN"} :
            ustate' = [ustate EXCEPT ![s] = st] /\ (listeners' # listeners => st = "LISTEN" /\ listeners' = {s})
      /\ UNCHANGED <<held, peer, accept_q>>
  BY Zenon DEF unix_op_bind, unix_op_listen, Becomes, links, queues
<1>2. UTypes /\ PeersLinked /\ Unconnected /\ QueuedLive /\ QueuedOnce
  BY Zenon DEF LinkInv
<1>3. Live' = Live
  BY <1>1, <1>2, Zenon DEF Live, UTypes
<1>5. UTypes'
  BY <1>1, <1>2, <1>3, ZenonT(60) DEF UTypes, UStates
<1>6. PeersLinked' /\ QueuedLive' /\ QueuedOnce'
  BY <1>1, <1>2, <1>3 DEF PeersLinked, QueuedLive, QueuedOnce
<1>7. Unconnected'
  BY <1>1, <1>2, Zenon DEF Unconnected, UTypes
<1>9. \A q \in listeners' : ustate'[q] = "LISTEN"
  BY <1>1, <1>2, Zenon DEF LinkInv, UTypes
<1> QED BY <1>5, <1>6, <1>7, <1>9, Zenon DEF LinkInv

LEMMA ConnectLinks == ASSUME LinkInv, NEW c \in Socks, unix_op_connect(c) PROVE LinkInv'
<1>1. PICK l \in listeners, srv \in Socks :
         /\ ustate[srv] = "none"
         /\ ustate' = [ustate EXCEPT ![c] = "CONNECTED", ![srv] = "CONNECTED"]
         /\ peer' = [peer EXCEPT ![c] = srv, ![srv] = c]
         /\ accept_q' = [accept_q EXCEPT ![l] = Append(@, srv)]
  BY ZenonT(30) DEF unix_op_connect
<1>2. UTypes /\ PeersLinked /\ Unconnected /\ QueuedLive /\ QueuedOnce
  BY Zenon DEF LinkInv
<1>3. /\ c \in held /\ c \in Live /\ ustate[c] \in {"UNBOUND", "BOUND"} /\ c # srv /\ peer[c] = NoSock
      /\ UNCHANGED <<held, listeners>>
  BY <1>1, <1>2, Zenon DEF unix_op_connect, Calls, UTypes, Unconnected
<1>4. l \in Live /\ ustate[l] = "LISTEN" /\ l # c /\ l # srv /\ l \in Socks
  BY <1>1, <1>2, <1>3, Zenon DEF LinkInv, Live, UTypes
<1>5. Live' = Live \cup {srv} /\ srv \notin Live
  BY <1>1, <1>2, <1>3, Zenon DEF Live, UTypes
<1>6. accept_q[srv] = <<>> /\ DOMAIN accept_q[srv] = {}
  BY <1>1, <1>2, SMTT(60) DEF Unconnected
<1>7. /\ \A q \in Socks : q # l => accept_q'[q] = accept_q[q]
      /\ DOMAIN accept_q'[l] = DOMAIN accept_q[l] \cup {Len(accept_q[l]) + 1}
      /\ Len(accept_q[l]) + 1 \notin DOMAIN accept_q[l]
      /\ \A i \in DOMAIN accept_q[l] : accept_q'[l][i] = accept_q[l][i]
      /\ accept_q'[l][Len(accept_q[l]) + 1] = srv
      /\ accept_q' \in [Socks -> Seq(Socks)]
  <2>1. accept_q \in [Socks -> Seq(Socks)] /\ accept_q[l] \in Seq(Socks)
    BY <1>2, <1>4, Zenon DEF UTypes
  <2>2. accept_q'[l] = Append(accept_q[l], srv) /\ \A q \in Socks : q # l => accept_q'[q] = accept_q[q]
    BY <1>1, <1>4, <2>1, Zenon
  <2>3. Append(accept_q[l], srv) \in Seq(Socks)
    BY <2>1, SMTT(30)
  <2>4. accept_q' \in [Socks -> Seq(Socks)]
    BY <1>1, <1>4, <2>1, <2>3, Zenon
  <2>5. ASSUME NEW q \in Seq(Socks)
        PROVE /\ DOMAIN Append(q, srv) = DOMAIN q \cup {Len(q) + 1} /\ Len(q) + 1 \notin DOMAIN q
              /\ \A i \in DOMAIN q : Append(q, srv)[i] = q[i]
              /\ Append(q, srv)[Len(q) + 1] = srv
    BY <2>5, SMTT(30)
  <2> QED BY <2>1, <2>2, <2>4, <2>5, ZenonT(60)
<1>8. UTypes'
  <2>1. ustate' \in [Socks -> UStates]
    <3>1. ustate \in [Socks -> UStates] /\ "CONNECTED" \in UStates
      BY <1>2, Zenon DEF UTypes, UStates
    <3> QED BY <1>1, <3>1, TwoExcept, Zenon
  <2>2. peer' \in [Socks -> Socks \cup {NoSock}]
    <3>1. peer \in [Socks -> Socks \cup {NoSock}]
      BY <1>2, Zenon DEF UTypes
    <3> QED BY <1>1, <3>1, TwoExcept, Zenon
  <2>3. held' \subseteq Live' /\ listeners' \subseteq Socks
    BY <1>2, <1>3, <1>5, Zenon DEF UTypes
  <2> QED BY <1>7, <2>1, <2>2, <2>3, Zenon DEF UTypes, UStates
<1>9. PeersLinked'
  <2> SUFFICES ASSUME NEW q \in Live', peer'[q] # NoSock
               PROVE  peer'[q] \in Live' /\ peer'[peer'[q]] = q
    BY Zenon DEF PeersLinked
  <2>1. \A x \in Socks : peer'[x] = IF x = c THEN srv ELSE IF x = srv THEN c ELSE peer[x]
    BY <1>1, <1>2, <1>3, Zenon DEF UTypes
  <2>2. q \in Socks
    BY Zenon DEF Live
  <2>3. CASE q \in {c, srv}
    BY <1>3, <1>5, <2>1, <2>3, Zenon
  <2>4. CASE q \in Live /\ q # c
    <3>1. q # srv /\ peer'[q] = peer[q]
      BY <1>5, <2>1, <2>2, <2>4, Zenon
    <3>2. peer[q] \in Live /\ peer[peer[q]] = q
      BY <1>2, <2>4, <3>1, Zenon DEF PeersLinked
    <3>3. peer[q] # c
      BY <1>3, <3>2, SockAssumption, <2>2, Zenon
    <3>4. peer[q] \in Socks /\ peer[q] # srv
      BY <1>5, <3>2, Zenon DEF Live
    <3> QED BY <1>5, <2>1, <3>1, <3>2, <3>3, <3>4, ZenonT(60)
  <2> QED BY <1>5, <2>3, <2>4, Zenon
<1>10. Unconnected'
  <2> SUFFICES ASSUME NEW s \in Socks
               PROVE  /\ ustate'[s] \in {"none", "UNBOUND", "BOUND", "LISTEN"} => peer'[s] = NoSock
                      /\ ustate'[s] = "none" => accept_q'[s] = <<>>
    BY Zenon DEF Unconnected
  <2>1. CASE s \in {c, srv}
    <3>1. ustate'[s] = "CONNECTED"
      BY <1>1, <1>2, <2>1, Zenon DEF UTypes
    <3> QED BY <3>1, Zenon
  <2>2. CASE s \notin {c, srv}
    <3>1. ustate'[s] = ustate[s] /\ peer'[s] = peer[s]
      BY <1>1, <1>2, <2>2, Zenon DEF UTypes
    <3>2. s = l => ustate[s] = "LISTEN"
      BY <1>4, Zenon
    <3>3. s # l => accept_q'[s] = accept_q[s]
      BY <1>7, Zenon
    <3> QED BY <1>2, <3>1, <3>2, <3>3, Zenon DEF Unconnected
  <2> QED BY <2>1, <2>2, Zenon
<1>11. srv \notin held
  BY <1>2, <1>5, Zenon DEF UTypes
<1>12. QueuedLive'
  <2> SUFFICES ASSUME NEW s \in Live', NEW i \in DOMAIN accept_q'[s]
               PROVE  accept_q'[s][i] \in Live' \ held'
    BY Zenon DEF QueuedLive
  <2>1. CASE s = srv
    BY <1>4, <1>6, <1>7, <2>1, Zenon
  <2>2. CASE s \in Live /\ s # l
    <3>1. accept_q'[s] = accept_q[s]
      BY <1>7, <2>2, Zenon DEF Live
    <3> QED BY <1>2, <1>3, <1>5, <2>2, <3>1, Zenon DEF QueuedLive
  <2>3. CASE s = l
    BY <1>2, <1>3, <1>4, <1>5, <1>7, <1>11, <2>3, ZenonT(60) DEF QueuedLive
  <2> QED BY <1>5, <2>1, <2>2, <2>3, Zenon
<1>13. QueuedOnce'
  <2> SUFFICES ASSUME NEW s \in Live', NEW r \in Live', NEW i \in DOMAIN accept_q'[s],
                      NEW j \in DOMAIN accept_q'[r], accept_q'[s][i] = accept_q'[r][j]
               PROVE  s = r /\ i = j
    BY Zenon DEF QueuedOnce
  <2>1. \A x \in Live' : \A y \in DOMAIN accept_q'[x] :
           \/ x = l /\ y = Len(accept_q[l]) + 1 /\ accept_q'[x][y] = srv
           \/ /\ x \in Live /\ y \in DOMAIN accept_q[x] /\ accept_q'[x][y] = accept_q[x][y]
              /\ accept_q[x][y] # srv
    <3> SUFFICES ASSUME NEW x \in Live', NEW y \in DOMAIN accept_q'[x]
                 PROVE  \/ x = l /\ y = Len(accept_q[l]) + 1 /\ accept_q'[x][y] = srv
                        \/ /\ x \in Live /\ y \in DOMAIN accept_q[x] /\ accept_q'[x][y] = accept_q[x][y]
                           /\ accept_q[x][y] # srv
      BY Zenon
    <3>1. x # srv
      BY <1>4, <1>6, <1>7, Zenon
    <3>2. x \in Live /\ x \in Socks
      BY <1>5, <3>1, Zenon DEF Live
    <3>3. CASE x = l /\ y = Len(accept_q[l]) + 1
      BY <1>7, <3>3, Zenon
    <3>4. CASE ~(x = l /\ y = Len(accept_q[l]) + 1)
      <4>1. y \in DOMAIN accept_q[x] /\ accept_q'[x][y] = accept_q[x][y]
        <5>1. CASE x = l
          BY <1>7, <3>4, <5>1, ZenonT(60)
        <5>2. CASE x # l
          BY <1>7, <3>2, <5>2, ZenonT(60)
        <5> QED BY <5>1, <5>2, Zenon
      <4>2. accept_q[x][y] \in Live
        BY <1>2, <3>2, <4>1, Zenon DEF QueuedLive
      <4> QED BY <1>5, <3>2, <4>1, <4>2, Zenon
    <3> QED BY <3>3, <3>4, Zenon
  <2> QED BY <1>2, <2>1 DEF QueuedOnce
<1>14. \A q \in listeners' : ustate'[q] = "LISTEN"
  BY <1>1, <1>2, <1>3, Zenon DEF LinkInv, UTypes
<1> QED BY <1>8, <1>9, <1>10, <1>12, <1>13, <1>14, Zenon DEF LinkInv

LEMMA AcceptLinks == ASSUME LinkInv, NEW l \in Socks, unix_op_accept(l) PROVE LinkInv'
<1>1. /\ l \in held /\ UNCHANGED <<ustate, peer, listeners>>
      /\ \/ /\ accept_q[l] # <<>> /\ held' = held \cup {Head(accept_q[l])}
            /\ accept_q' = [accept_q EXCEPT ![l] = Tail(@)]
         \/ UNCHANGED <<held, accept_q>>
  BY Zenon DEF unix_op_accept, Calls, links
<1>2. CASE UNCHANGED <<held, accept_q>>
  BY <1>1, <1>2, LinksUnchanged, Zenon
<1>3. CASE /\ accept_q[l] # <<>> /\ held' = held \cup {Head(accept_q[l])}
           /\ accept_q' = [accept_q EXCEPT ![l] = Tail(@)]
  <2>1. UTypes /\ PeersLinked /\ Unconnected /\ QueuedLive /\ QueuedOnce
    BY Zenon DEF LinkInv
  <2>2. Live' = Live /\ l \in Live
    BY <1>1, <2>1, Zenon DEF Live, UTypes
  <2>3. /\ accept_q' \in [Socks -> Seq(Socks)]
        /\ \A q \in Socks : q # l => accept_q'[q] = accept_q[q]
        /\ \A i \in DOMAIN accept_q'[l] : /\ i + 1 \in DOMAIN accept_q[l] /\ i \in Nat /\ i > 0
                                          /\ accept_q'[l][i] = accept_q[l][i + 1]
        /\ 1 \in DOMAIN accept_q[l] /\ Head(accept_q[l]) = accept_q[l][1]
    <3>1. accept_q \in [Socks -> Seq(Socks)] /\ accept_q[l] \in Seq(Socks)
      BY <2>1, Zenon DEF UTypes
    <3>2. accept_q'[l] = Tail(accept_q[l]) /\ \A q \in Socks : q # l => accept_q'[q] = accept_q[q]
      BY <1>3, <3>1, Zenon
    <3>3. Tail(accept_q[l]) \in Seq(Socks)
      BY <1>3, <3>1, SMTT(30)
    <3>4. accept_q' \in [Socks -> Seq(Socks)]
      BY <1>3, <3>1, <3>3, Zenon
    <3>5. /\ \A i \in DOMAIN Tail(accept_q[l]) : /\ i + 1 \in DOMAIN accept_q[l] /\ i \in Nat /\ i > 0
                                                 /\ Tail(accept_q[l])[i] = accept_q[l][i + 1]
          /\ 1 \in DOMAIN accept_q[l] /\ Head(accept_q[l]) = accept_q[l][1]
      BY <1>3, <3>1, SMTT(30)
    <3> QED BY <3>2, <3>4, <3>5, Zenon
  <2>4. accept_q[l][1] \in Live \ held
    BY <2>1, <2>2, <2>3, ZenonT(60) DEF QueuedLive
  <2>5. UTypes'
    BY <1>1, <1>3, <2>1, <2>2, <2>3, <2>4, SMTT(60) DEF UTypes
  <2>6. PeersLinked'
    BY <1>1, <2>1, <2>2, Zenon DEF PeersLinked
  <2>7. ustate[l] # "none"
    BY <2>2, Zenon DEF Live
  <2>8. Unconnected'
    BY <1>1, <2>1, <2>3, <2>7, ZenonT(60) DEF Unconnected
  <2>9. \A x \in Live : \A y \in DOMAIN accept_q'[x] :
           \/ x = l /\ y \in Nat /\ y > 0 /\ y + 1 \in DOMAIN accept_q[l] /\ accept_q'[x][y] = accept_q[l][y + 1]
           \/ x # l /\ y \in DOMAIN accept_q[x] /\ accept_q'[x][y] = accept_q[x][y]
    BY <2>3, Zenon DEF Live
  <2>10. QueuedLive'
    <3> SUFFICES ASSUME NEW x \in Live, NEW y \in DOMAIN accept_q'[x]
                 PROVE  accept_q'[x][y] \in Live \ held'
      BY <2>2, Zenon DEF QueuedLive
    <3>1. PICK k \in DOMAIN accept_q[x] : accept_q'[x][y] = accept_q[x][k] /\ (x = l => k # 1)
      <4>1. CASE x = l
        <5>1. y \in Nat /\ y > 0 /\ y + 1 \in DOMAIN accept_q[x] /\ accept_q'[x][y] = accept_q[x][y + 1]
          BY <2>9, <4>1, Zenon
        <5>2. y + 1 # 1
          BY <5>1, SMTT(30)
        <5> QED BY <5>1, <5>2, Zenon
      <4>2. CASE x # l
        BY <2>9, <4>2, Zenon
      <4> QED BY <4>1, <4>2, Zenon
    <3>2. accept_q[x][k] \in Live \ held
      BY <2>1, <3>1, Zenon DEF QueuedLive
    <3>3. accept_q[x][k] # accept_q[l][1]
      BY <2>1, <2>2, <2>3, <3>1 DEF QueuedOnce
    <3> QED BY <1>3, <2>3, <3>1, <3>2, <3>3, SMTT(60)
  <2>11. QueuedOnce'
    <3> SUFFICES ASSUME NEW x \in Live, NEW r \in Live, NEW y \in DOMAIN accept_q'[x],
                        NEW j \in DOMAIN accept_q'[r], accept_q'[x][y] = accept_q'[r][j]
                 PROVE  x = r /\ y = j
      BY <2>2, Zenon DEF QueuedOnce
    <3>1. CASE x # l /\ r # l
      BY <2>1, <2>9, <3>1, SMTT(60) DEF QueuedOnce
    <3>2. CASE x = l /\ r # l
      BY <2>1, <2>9, <3>2, SMTT(60) DEF QueuedOnce
    <3>3. CASE x # l /\ r = l
      BY <2>1, <2>9, <3>3, SMTT(60) DEF QueuedOnce
    <3>4. CASE x = l /\ r = l
      <4>1. /\ y \in Nat /\ y + 1 \in DOMAIN accept_q[l] /\ accept_q'[x][y] = accept_q[l][y + 1]
            /\ j \in Nat /\ j + 1 \in DOMAIN accept_q[l] /\ accept_q'[r][j] = accept_q[l][j + 1]
        BY <2>9, <3>4, Zenon
      <4>2. y + 1 = j + 1
        <5>1. accept_q[l][y + 1] = accept_q[l][j + 1]
          BY <4>1, ZenonT(60)
        <5>2. \A a, b \in DOMAIN accept_q[l] : accept_q[l][a] = accept_q[l][b] => a = b
          BY <2>1, <2>2, SMTT(60) DEF QueuedOnce
        <5> QED BY <4>1, <5>1, <5>2, ZenonT(30)
      <4> QED BY <3>4, <4>1, <4>2, SMTT(60)
    <3> QED BY <3>1, <3>2, <3>3, <3>4, Zenon
  <2> QED BY <1>1, <2>5, <2>6, <2>8, <2>10, <2>11, ZenonT(60) DEF LinkInv
<1> QED BY <1>1, <1>2, <1>3, Zenon

LEMMA UnrefLinks == ASSUME LinkInv, NEW s \in Socks, unix_unref_op(s) PROVE LinkInv'
<1>1. /\ s \in held /\ ustate' = [ustate EXCEPT ![s] = "freed"] /\ held' = held \ {s}
      /\ listeners' = listeners \ {s} /\ accept_q' = accept_q
      /\ peer' = [r \in Socks |-> IF peer[r] = s THEN NoSock ELSE peer[r]]
  BY Zenon DEF unix_unref_op, Calls, Becomes, PeersAfter
<1>2. UTypes /\ PeersLinked /\ Unconnected /\ QueuedLive /\ QueuedOnce
  BY Zenon DEF LinkInv
<1>3. Live' = Live \ {s} /\ s \in Live
  BY <1>1, <1>2, Zenon DEF Live, UTypes
<1>4. UTypes'
  BY <1>1, <1>2, <1>3, Zenon DEF UTypes, UStates
<1>5. PeersLinked'
  <2> SUFFICES ASSUME NEW q \in Live', peer'[q] # NoSock
               PROVE  peer'[q] \in Live' /\ peer'[peer'[q]] = q
    BY Zenon DEF PeersLinked
  <2>1. q \in Live /\ q \in Socks /\ q # s
    BY <1>3, Zenon DEF Live
  <2>2. peer[q] # s /\ peer'[q] = peer[q]
    BY <1>1, <2>1, Zenon
  <2>3. peer[q] \in Live /\ peer[peer[q]] = q
    BY <1>2, <2>1, <2>2, Zenon DEF PeersLinked
  <2>4. peer[q] \in Socks
    BY <2>3, Zenon DEF Live
  <2> QED BY <1>1, <1>3, <2>1, <2>2, <2>3, <2>4, Zenon
<1>6. Unconnected'
  BY <1>1, <1>2, ZenonT(60) DEF Unconnected, UTypes
<1>7. QueuedLive' /\ QueuedOnce'
  BY <1>1, <1>2, <1>3 DEF QueuedLive, QueuedOnce
<1>8. \A q \in listeners' : ustate'[q] = "LISTEN"
  BY <1>1, <1>2, Zenon DEF LinkInv, UTypes
<1> QED BY <1>4, <1>5, <1>6, <1>7, <1>8, Zenon DEF LinkInv

-----------------------------------------------------------------------------
(* The slots: what a wake and a sleep do.                                   *)
LEMMA WakeDoes ==
    ASSUME STypes, InSlot, NEW s \in Socks, NEW what \in Waits, Wake(s, what), held \subseteq held'
    PROVE  /\ asleep' = asleep /\ slot' \in [Socks -> SUBSET Waits] /\ InSlot'
           /\ waking \subseteq waking' /\ (asleep[s] = what => s \in waking')
<1>1. /\ slot' = [slot EXCEPT ![s] = @ \ {what}] /\ asleep' = asleep
      /\ waking' = IF what \in slot[s] THEN waking \cup {s} ELSE waking
  BY Zenon DEF Wake
<1>2. slot \in [Socks -> SUBSET Waits]
  BY Zenon DEF STypes
<1>3. \A q \in Socks : slot'[q] = IF q = s THEN slot[s] \ {what} ELSE slot[q]
  BY <1>1, <1>2, Zenon
<1>4. slot' \in [Socks -> SUBSET Waits]
  BY <1>1, <1>2, Zenon
<1>5. waking \subseteq waking' /\ (what \in slot[s] => s \in waking')
  BY <1>1, Zenon
<1>6. asleep[s] = what => s \in waking'
  <2>1. what # "no"
    BY Zenon DEF Waits
  <2> QED BY <1>5, <2>1, Zenon DEF InSlot
<1>7. InSlot'
  <2> SUFFICES ASSUME NEW q \in Socks, asleep'[q] # "no"
               PROVE  q \in held' /\ (q \notin waking' => asleep'[q] \in slot'[q])
    BY Zenon DEF InSlot
  <2>1. q \in held /\ (q \notin waking => asleep[q] \in slot[q])
    BY <1>1, Zenon DEF InSlot
  <2> QED BY <1>1, <1>3, <1>5, <1>6, <2>1, Zenon
<1> QED BY <1>1, <1>4, <1>5, <1>6, <1>7, Zenon

LEMMA SleepDoes ==
    ASSUME STypes, InSlot, NEW s \in Socks, NEW what \in Waits, Sleep(s, what), s \in held,
           UNCHANGED held
    PROVE  /\ waking' = waking /\ slot' \in [Socks -> SUBSET Waits] /\ InSlot'
           /\ asleep' \in [Socks -> Waits \cup {"no"}]
           /\ \A q \in Socks : asleep'[q] = IF q = s THEN what ELSE asleep[q]
<1>1. /\ slot' = [slot EXCEPT ![s] = @ \cup {what}] /\ waking' = waking
      /\ asleep' = [asleep EXCEPT ![s] = what]
  BY Zenon DEF Sleep
<1>2. slot \in [Socks -> SUBSET Waits] /\ asleep \in [Socks -> Waits \cup {"no"}]
  BY Zenon DEF STypes
<1>3. \A q \in Socks : /\ slot'[q] = IF q = s THEN slot[s] \cup {what} ELSE slot[q]
                       /\ asleep'[q] = IF q = s THEN what ELSE asleep[q]
  BY <1>1, <1>2, Zenon
<1>4. slot' \in [Socks -> SUBSET Waits] /\ asleep' \in [Socks -> Waits \cup {"no"}]
  BY <1>1, <1>2, Zenon
<1>5. InSlot'
  BY <1>1, <1>3 DEF InSlot
<1> QED BY <1>1, <1>3, <1>4, <1>5, Zenon

(* Nothing about a task that sleeps changes.                                *)
LEMMA QuietSleepers ==
    ASSUME WakeInv, held \subseteq held',
           UNCHANGED <<rbuf, fic, peer_gone, unaccepted, asleep, slot, waking>>,
           \A q \in Socks : asleep[q] # "no" => accept_q'[q] = accept_q[q]
    PROVE  WakeInv'
<1>1. STypes' /\ InSlot'
  BY Zenon DEF WakeInv, STypes, InSlot
<1>2. SleepersFound'
  BY Zenon DEF WakeInv, SleepersFound
<1> QED BY <1>1, <1>2, Zenon DEF WakeInv

LEMMA ConnectSleepers ==
    ASSUME LinkInv, WakeInv, NEW c \in Socks, unix_op_connect(c) PROVE WakeInv'
<1>1. PICK l \in listeners, srv \in Socks :
         accept_q' = [accept_q EXCEPT ![l] = Append(@, srv)] /\ Wake(l, "accept")
  BY ZenonT(30) DEF unix_op_connect
<1>2. UNCHANGED <<held, rbuf, fic, peer_gone, unaccepted>>
  BY Zenon DEF unix_op_connect, data
<1>3. l \in Socks /\ accept_q \in [Socks -> Seq(Socks)] /\ STypes /\ InSlot /\ "accept" \in Waits
  BY Zenon DEF LinkInv, UTypes, WakeInv, Waits
<1>4. /\ asleep' = asleep /\ slot' \in [Socks -> SUBSET Waits] /\ InSlot'
      /\ waking \subseteq waking' /\ (asleep[l] = "accept" => l \in waking')
  BY <1>1, <1>2, <1>3, WakeDoes, Zenon
<1>5. \A q \in Socks : q # l => accept_q'[q] = accept_q[q]
  BY <1>1, <1>3, Zenon
<1>6. STypes'
  BY <1>2, <1>3, <1>4, Zenon DEF STypes
<1>7. SleepersFound'
  BY <1>2, <1>4, <1>5, Zenon DEF WakeInv, SleepersFound
<1> QED BY <1>4, <1>6, <1>7, Zenon DEF WakeInv

LEMMA AcceptSleepers ==
    ASSUME LinkInv, WakeInv, NEW l \in Socks, unix_op_accept(l) PROVE WakeInv'
<1>1. /\ asleep[l] = "no" /\ l \in held /\ UNCHANGED <<rbuf, fic, peer_gone, unaccepted>>
      /\ \/ /\ held \subseteq held' /\ accept_q' = [accept_q EXCEPT ![l] = Tail(@)]
            /\ UNCHANGED <<asleep, slot, waking>>
         \/ accept_q[l] = <<>> /\ Sleep(l, "accept") /\ UNCHANGED <<held, accept_q>>
  BY Zenon DEF unix_op_accept, Calls, links, data, tasks
<1>2. STypes /\ InSlot /\ "accept" \in Waits /\ accept_q \in [Socks -> Seq(Socks)]
  BY Zenon DEF WakeInv, Waits, LinkInv, UTypes
<1>3. CASE /\ held \subseteq held' /\ accept_q' = [accept_q EXCEPT ![l] = Tail(@)]
           /\ UNCHANGED <<asleep, slot, waking>>
  <2>1. \A q \in Socks : asleep[q] # "no" => accept_q'[q] = accept_q[q]
    BY <1>1, <1>2, <1>3, Zenon
  <2> QED BY <1>1, <1>3, <2>1, QuietSleepers, Zenon
<1>4. CASE accept_q[l] = <<>> /\ Sleep(l, "accept") /\ UNCHANGED <<held, accept_q>>
  <2>1. /\ waking' = waking /\ slot' \in [Socks -> SUBSET Waits] /\ InSlot'
        /\ asleep' \in [Socks -> Waits \cup {"no"}]
        /\ \A q \in Socks : asleep'[q] = IF q = l THEN "accept" ELSE asleep[q]
    BY <1>1, <1>2, <1>4, SleepDoes, Zenon
  <2>2. STypes'
    BY <1>1, <1>2, <2>1, Zenon DEF STypes
  <2>3. SleepersFound'
    BY <1>1, <1>4, <2>1, Zenon DEF WakeInv, SleepersFound
  <2> QED BY <2>1, <2>2, <2>3, Zenon DEF WakeInv
<1> QED BY <1>1, <1>3, <1>4, Zenon

LEMMA ReadSleepers ==
    ASSUME WakeInv, NEW s \in Socks, unix_read_nb(s) \/ unix_recv_fd(s) PROVE WakeInv'
<1>1. /\ asleep[s] = "no" /\ s \in held /\ UNCHANGED <<held, peer_gone, unaccepted, accept_q>>
      /\ DOMAIN rbuf' = Socks /\ DOMAIN fic' = Socks
      /\ \A q \in Socks : q # s => rbuf'[q] = rbuf[q]
      /\ \/ UNCHANGED <<asleep, slot, waking>>
         \/ Sleep(s, "read") /\ rbuf[s] = 0 /\ ~peer_gone[s] /\ rbuf' = rbuf
         \/ Sleep(s, "fd") /\ rbuf' = rbuf
  BY Zenon DEF unix_read_nb, unix_recv_fd, Calls, links, queues, tasks, WakeInv, STypes
<1>2. STypes /\ InSlot /\ "read" \in Waits /\ "fd" \in Waits
  BY Zenon DEF WakeInv, Waits
<1>3. CASE UNCHANGED <<asleep, slot, waking>>
  <2>1. STypes' /\ InSlot'
    BY <1>1, <1>2, <1>3, Zenon DEF STypes, InSlot
  <2>2. SleepersFound'
    BY <1>1, <1>3, Zenon DEF WakeInv, SleepersFound
  <2> QED BY <2>1, <2>2, Zenon DEF WakeInv
<1>4. ASSUME NEW what \in {"read", "fd"}, Sleep(s, what), rbuf' = rbuf,
             what = "read" => rbuf[s] = 0 /\ ~peer_gone[s]
      PROVE WakeInv'
  <2>1. /\ waking' = waking /\ slot' \in [Socks -> SUBSET Waits] /\ InSlot'
        /\ asleep' \in [Socks -> Waits \cup {"no"}]
        /\ \A q \in Socks : asleep'[q] = IF q = s THEN what ELSE asleep[q]
    BY <1>1, <1>2, <1>4, SleepDoes, SMTT(60)
  <2>2. STypes'
    BY <1>1, <1>2, <2>1, ZenonT(60) DEF STypes
  <2>3. SleepersFound'
    BY <1>1, <1>4, <2>1 DEF WakeInv, SleepersFound
  <2> QED BY <2>1, <2>2, <2>3, ZenonT(60) DEF WakeInv
<1> QED BY <1>1, <1>3, <1>4, Zenon

LEMMA WriteSleepers ==
    ASSUME LinkInv, WakeInv, NEW s \in Socks, unix_write_nb(s) \/ unix_send_fd(s) PROVE WakeInv'
<1> DEFINE p == peer[s]
<1>1. p \in Socks
  BY Zenon DEF unix_write_nb, unix_send_fd, Reachable, LinkInv, UTypes
<1>2. STypes /\ InSlot /\ "read" \in Waits /\ "fd" \in Waits
  BY SMTT(60) DEF WakeInv, Waits
<1>3. /\ UNCHANGED <<held, peer_gone, unaccepted, accept_q>>
      /\ DOMAIN rbuf' = Socks /\ DOMAIN fic' = Socks
      /\ \A q \in Socks : q # p => rbuf'[q] = rbuf[q]
      /\ \/ Wake(p, "read")
         \/ Wake(p, "fd") /\ rbuf' = rbuf
  BY <1>2, Zenon DEF unix_write_nb, unix_send_fd, links, queues, STypes
<1> HIDE DEF p
<1>4. ASSUME NEW what \in {"read", "fd"}, Wake(p, what), what = "fd" => rbuf' = rbuf PROVE WakeInv'
  <2>1. /\ asleep' = asleep /\ slot' \in [Socks -> SUBSET Waits] /\ InSlot'
        /\ waking \subseteq waking' /\ (asleep[p] = what => p \in waking')
    BY <1>1, <1>2, <1>3, <1>4, WakeDoes, Zenon
  <2>2. STypes'
    BY <1>2, <1>3, <2>1, Zenon DEF STypes
  <2>3. SleepersFound'
    BY <1>3, <1>4, <2>1, Zenon DEF WakeInv, SleepersFound
  <2> QED BY <2>1, <2>2, <2>3, Zenon DEF WakeInv
<1> QED BY <1>3, <1>4, Zenon

LEMMA UnblockSleepers ==
    ASSUME WakeInv, NEW s \in Socks, task_unblock(s) \/ task_kill(s) PROVE WakeInv'
<1>1. /\ asleep' = [asleep EXCEPT ![s] = "no"] /\ waking' \in {waking, waking \ {s}}
      /\ UNCHANGED <<held, rbuf, fic, peer_gone, unaccepted, accept_q, slot>>
  BY Zenon DEF task_unblock, task_kill, links, data, queues
<1>2. STypes /\ InSlot /\ SleepersFound
  BY Zenon DEF WakeInv
<1>3. /\ asleep' \in [Socks -> Waits \cup {"no"}]
      /\ \A q \in Socks : asleep'[q] = IF q = s THEN "no" ELSE asleep[q]
  BY <1>1, <1>2, Zenon DEF STypes
<1>4. STypes'
  BY <1>1, <1>2, <1>3, Zenon DEF STypes
<1>5. InSlot'
  BY <1>1, <1>2, <1>3, Zenon DEF InSlot
<1>6. SleepersFound'
  BY <1>1, <1>2, <1>3, Zenon DEF SleepersFound
<1> QED BY <1>4, <1>5, <1>6, Zenon DEF WakeInv

LEMMA UnrefSleepers ==
    ASSUME LinkInv, WakeInv, NEW s \in Socks, unix_unref_op(s) PROVE WakeInv'
<1>1. /\ s \in held /\ asleep[s] = "no" /\ held' = held \ {s}
      /\ peer_gone' = [r \in Socks |-> r \in Told(s) \/ peer_gone[r]]
      /\ unaccepted' = unaccepted \cup {peer[r] : r \in Cut(s)}
      /\ fic' = [fic EXCEPT ![s] = 0] /\ UNCHANGED <<rbuf, accept_q>>
      /\ IF peer[s] = NoSock THEN UNCHANGED <<asleep, slot, waking>> ELSE Wake(peer[s], "read")
  BY Zenon DEF unix_unref_op, Calls, tasks
<1>2. STypes /\ InSlot /\ SleepersFound /\ "read" \in Waits
  BY SMTT(60) DEF WakeInv, Waits
<1>3. s \in Live /\ peer[s] \in Socks \cup {NoSock}
  BY <1>1, Zenon DEF LinkInv, UTypes
<1>4. \A r \in Cut(s) : asleep[r] = "no"
  <2> SUFFICES ASSUME NEW r \in Cut(s) PROVE asleep[r] = "no"
    BY Zenon
  <2>1. r \in Live /\ r \notin held
    BY <1>3, Zenon DEF Cut, LinkInv, QueuedLive
  <2> QED BY <1>2, <2>1, Zenon DEF InSlot, Live
<1>5. /\ asleep' = asleep /\ slot' \in [Socks -> SUBSET Waits] /\ waking \subseteq waking'
      /\ \A q \in Socks : asleep[q] # "no" => q \in held /\ (q \notin waking' => asleep[q] \in slot'[q])
      /\ peer[s] \in Socks /\ asleep[peer[s]] = "read" => peer[s] \in waking'
  <2>1. CASE peer[s] = NoSock
    BY <1>1, <1>2, <2>1, SockAssumption, Zenon DEF STypes, InSlot
  <2>2. CASE peer[s] # NoSock
    <3>1. /\ slot' = [slot EXCEPT ![peer[s]] = @ \ {"read"}] /\ asleep' = asleep
          /\ waking' = IF "read" \in slot[peer[s]] THEN waking \cup {peer[s]} ELSE waking
      BY <1>1, <2>2, Zenon DEF Wake
    <3>2. peer[s] \in Socks /\ slot \in [Socks -> SUBSET Waits]
      BY <1>2, <1>3, <2>2, Zenon DEF STypes
    <3>3. \A q \in Socks : slot'[q] = IF q = peer[s] THEN slot[q] \ {"read"} ELSE slot[q]
      BY <3>1, <3>2, Zenon
    <3>4. slot' \in [Socks -> SUBSET Waits]
      BY <3>1, <3>2, Zenon
    <3>5. asleep[peer[s]] = "read" => peer[s] \in waking'
      BY <1>2, <3>1, <3>2, Zenon DEF InSlot
    <3>6. ASSUME NEW q \in Socks, asleep[q] # "no"
          PROVE q \in held /\ (q \notin waking' => asleep[q] \in slot'[q])
      <4>1. q \in held /\ (q \notin waking => asleep[q] \in slot[q])
        BY <1>2, <3>6, Zenon DEF InSlot
      <4> QED BY <3>1, <3>3, <3>5, <4>1, Zenon
    <3> QED BY <3>1, <3>4, <3>5, <3>6, Zenon
  <2> QED BY <2>1, <2>2, Zenon
<1>6. STypes'
  BY <1>1, <1>2, <1>5, Zenon DEF STypes
<1>7. InSlot'
  BY <1>1, <1>5, Zenon DEF InSlot
<1>8. SleepersFound'
  <2> SUFFICES ASSUME NEW q \in Socks \ waking'
               PROVE  /\ asleep'[q] = "read" => rbuf'[q] = 0 /\ (peer_gone'[q] => q \in unaccepted')
                      /\ asleep'[q] = "accept" => accept_q'[q] = <<>>
    BY Zenon DEF SleepersFound
  <2>1. /\ asleep[q] = "read" => rbuf[q] = 0 /\ (peer_gone[q] => q \in unaccepted)
        /\ asleep[q] = "accept" => accept_q[q] = <<>>
    BY <1>2, <1>5, Zenon DEF SleepersFound
  <2>2. ASSUME asleep[q] = "read", q \in Told(s) PROVE q \in unaccepted'
    <3>1. q \notin Cut(s)
      BY <1>4, <2>2, Zenon
    <3>2. q # peer[s]
      BY <1>5, <2>2, Zenon
    <3> QED BY <1>1, <2>2, <3>1, <3>2, Zenon DEF Told
  <2> QED BY <1>1, <1>5, <2>1, <2>2, ZenonT(60)
<1> QED BY <1>6, <1>7, <1>8, Zenon DEF WakeInv
-----------------------------------------------------------------------------
LEMMA UnixStep == UnixInv /\ [UNext]_uvars => UnixInv'
<1> SUFFICES ASSUME UnixInv, [UNext]_uvars PROVE UnixInv'
  BY Zenon
<1>0. LinkInv /\ WakeInv
  BY Zenon DEF UnixInv
<1>1. CASE UNCHANGED uvars
  <2>1. LinkInv'
    BY <1>0, <1>1, LinksUnchanged, Zenon DEF uvars
  <2>2. WakeInv'
    BY <1>0, <1>1, Zenon DEF uvars, WakeInv, STypes, InSlot, SleepersFound
  <2> QED BY <2>1, <2>2, Zenon DEF UnixInv
<1>2. ASSUME NEW s \in Socks, unix_new_vnode(s) \/ unix_op_bind(s) \/ unix_op_listen(s)
                              \/ \E r \in Socks : unix_make_pair(s, r)
      PROVE UnixInv'
  <2>1. LinkInv'
    BY <1>0, <1>2, NewLinks, BindLinks, PairLinks, Zenon
  <2>2. /\ held \subseteq held' /\ accept_q' = accept_q
        /\ UNCHANGED <<rbuf, fic, peer_gone, unaccepted, asleep, slot, waking>>
    BY <1>2, Zenon DEF unix_new_vnode, unix_op_bind, unix_op_listen, unix_make_pair, links, data, queues, tasks
  <2>3. WakeInv'
    BY <1>0, <2>2, QuietSleepers, Zenon
  <2> QED BY <2>1, <2>3, Zenon DEF UnixInv
<1>3. ASSUME NEW s \in Socks, unix_read_nb(s) \/ unix_recv_fd(s) \/ unix_write_nb(s) \/ unix_send_fd(s)
                              \/ task_unblock(s) \/ task_kill(s)
      PROVE UnixInv'
  <2>1. UNCHANGED <<ustate, held, peer, accept_q, listeners>>
    BY <1>3, Zenon DEF unix_read_nb, unix_recv_fd, unix_write_nb, unix_send_fd, task_unblock, task_kill,
                links, queues
  <2>2. WakeInv'
    BY <1>0, <1>3, ReadSleepers, WriteSleepers, UnblockSleepers, Zenon
  <2> QED BY <1>0, <2>1, <2>2, LinksUnchanged, Zenon DEF UnixInv
<1>4. ASSUME NEW s \in Socks, unix_op_connect(s) \/ unix_op_accept(s) \/ unix_unref_op(s)
      PROVE UnixInv'
  BY <1>0, <1>4, ConnectLinks, ConnectSleepers, AcceptLinks, AcceptSleepers, UnrefLinks, UnrefSleepers, ZenonT(60)
  DEF UnixInv
<1> QED BY <1>1, <1>2, <1>3, <1>4, Zenon DEF UNext

(***************************************************************************)
(* unix_unref_op frees a structure only when no peer, no listener and no    *)
(* accept queue has a pointer to it.                                        *)
(***************************************************************************)
THEOREM PointersGood == USpec => []NoDangling
<1>1. UnixInv => NoDangling
  BY SMTT(60) DEF UnixInv, LinkInv, UTypes, PeersLinked, QueuedLive, NoDangling, Live
<1> QED BY UnixInit, UnixStep, <1>1, PTL DEF USpec

(***************************************************************************)
(* A sleeping reader or acceptor that is not on its way to be woken has     *)
(* something to wait for, but for the client nobody accepted.               *)
(***************************************************************************)
THEOREM NoForgottenSleeper == USpec => []SleepersWaitForPeer
<1>1. UnixInv => SleepersWaitForPeer
  BY Zenon DEF UnixInv, WakeInv, SleepersFound, SleepersWaitForPeer, Live
<1> QED BY UnixInit, UnixStep, <1>1, PTL DEF USpec
=============================================================================
