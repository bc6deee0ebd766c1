------------------------------ MODULE MCStorage ------------------------------
(***************************************************************************)
(* The block cache of ext2, the journal, and the structures ext2 keeps on   *)
(* disk.  The code never uses the first two together (a file system with a  *)
(* journal has no persistent cache), and the third is over either: what it  *)
(* reads is what was last written.  They share no state here.  A behaviour  *)
(* is one of the component in part, from its own initial state; the         *)
(* variables of the others do not change.                                   *)
(***************************************************************************)
EXTENDS WriteBack, Ext2

CONSTANTS Home, Super, NoBlock, Magic, s_first, MaxLog, TidMod, MaxData, OldLogs,
          jbd2_write_enabled, MaxTxn, MaxCrash,
          i1, p1, p2, ha, hb, hc, n1, n2, t1, t2

VARIABLES part,
          jdisk, pend, inorder, phase, fsSb, staged, tdepth, next, ver, okHome, cutShort,
          crashes

J == INSTANCE Journal

(* Two blocks of the pool and one of an inode table. *)
Blocks == {i1, p1, p2}
Inodes == {i1}
TwoNames == {n1, n2}
TwoTasks == {t1, t2}
Sym == Permutations({p1, p2})
       \cup {f @@ g : f \in Permutations(TwoNames), g \in Permutations(TwoTasks)}

(* The logs found at the first mount: one complete transaction at the       *)
(* beginning of the log or two across its end, with or without the          *)
(* beginning of another one; or nothing, in a small log or in a large one.  *)
Txns == {[blocks |-> bs, revokes |-> {}] : bs \in {<<ha>>, <<ha, hb>>, <<Super, hb>>}}
        \cup {[blocks |-> <<hb>>, revokes |-> {ha}]}
Tails == {<<>>, <<[blocks |-> <<hb>>, revokes |-> {ha}]>>}
MCLogs == [txns : {<<t>> : t \in Txns}, tail : Tails, at : {1}, seq : {15}, maxlen : {13}]
          \cup [txns : {<<t, u>> : t, u \in Txns}, tail : Tails, at : {9}, seq : {15}, maxlen : {13}]
          \cup [txns : {<<>>}, tail : {<<>>}, at : {1}, seq : {15}, maxlen : {5, 13}]

jvars == <<jdisk, pend, inorder, phase, fsSb, staged, tdepth, next, ver, okHome, cutShort,
           crashes>>

JIdle == /\ jdisk = 0 /\ pend = 0 /\ inorder = 0 /\ phase = 0 /\ fsSb = 0 /\ staged = 0
         /\ tdepth = 0 /\ next = 0 /\ ver = 0 /\ okHome = 0 /\ cutShort = 0 /\ crashes = 0

XIdle == fs = 0 /\ call = 0 /\ fd = 0 /\ stale = 0 /\ spoiled = 0 /\ calls = 0

StInit == /\ part \in {"cache", "journal", "ext2"}
          /\ Init
          /\ part # "cache" =>
                /\ disk = [b \in Block |-> [p \in Part |-> 0]] /\ persistent /\ wb /\ super
                /\ kind = [b \in Pool |-> "free"]
          /\ IF part = "journal" THEN J!JInit ELSE JIdle
          /\ IF part = "ext2" THEN XInit ELSE XIdle

StNext == \/ part = "cache" /\ Next /\ UNCHANGED <<part, jvars, xvars>>
          \/ part = "journal" /\ J!JNext /\ UNCHANGED <<part, vars, xvars>>
          \/ part = "ext2" /\ XNext /\ UNCHANGED <<part, vars, jvars>>

(* The variables of the part that moves, by which the search tells states   *)
(* apart, without super: no step but to a new super, and no property of     *)
(* this run, depends on whether the superblock on disk is the current one.  *)
View == <<part, CASE part = "cache" -> <<disk, persistent, cache, ra, kind, fsdirty, bad>>
                  [] part = "journal" -> jvars
                  [] part = "ext2" -> xvars>>

StSpec == StInit /\ [][StNext]_<<part, vars, jvars, xvars>>
-----------------------------------------------------------------------------
(* After every mount the home blocks hold all of a committed transaction or *)
(* nothing of an uncommitted one (jbd2_recover, txn_flush), but for one     *)
(* that does not fit the log.                                               *)
AllOrNothing == part = "journal" => J!AllOrNothing

(* The bitmaps, counts, inodes and directories of ext2 agree with each      *)
(* other (alloc_block, set_block_num, ext2_truncate_blocks and the          *)
(* operations of directories), until a task has used an inode that was      *)
(* freed since it looked it up or a directory with entries was removed.     *)
StructuresAgree == part = "ext2" => Consistent
=============================================================================
