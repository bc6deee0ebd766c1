------------------------------- MODULE MCWait -------------------------------
(* Instances of Wait for TLC. *)
EXTENDS Wait

CONSTANTS p1, p2

OneMore == {init, p1}
TwoMore == {init, p1, p2}
=============================================================================
