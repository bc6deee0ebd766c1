-------------------------------- MODULE MCTcp --------------------------------
(* A connection whose sequence numbers wrap. *)
EXTENDS Tcp

Wrapping == [e \in End |-> IF e = "client" THEN SEQ - 2 ELSE SEQ - 1]
OnceInAll == [e \in End |-> 1]
Download == [e \in End |-> IF e = "client" THEN 0 ELSE 3]
=============================================================================
