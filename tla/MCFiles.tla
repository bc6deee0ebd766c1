------------------------------ MODULE MCFiles ------------------------------
(* Two tasks and two open files, with a lost race. *)
EXTENDS Files, TLC
=============================================================================
