---------------------------- MODULE MCWriteBack ----------------------------
(* Two blocks of the pool and one of an inode table, over two slots. *)
EXTENDS WriteBack, TLC

CONSTANTS i1, p1, p2

Blocks == {i1, p1, p2}
Inodes == {i1}
Sym == Permutations({p1, p2})
=============================================================================
