------------------------------ MODULE MCRwlock ------------------------------
(* Instances of Rwlock for TLC. *)
EXTENDS Rwlock, TLC

CONSTANTS a, b, c, d

Four == {a, b, c, d}
TheWords == {"readers"}
Symmetric == Permutations(Threads)
=============================================================================
