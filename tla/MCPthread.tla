----------------------------- MODULE MCPthread ------------------------------
(* Instances of Pthread for TLC. *)
EXTENDS Pthread

CONSTANTS a, x, y

OneProducer == {a}
TwoConsumers == {x, y}
OneAndTwo == {a, x, y}
TheWords == {"state", "seq"}
=============================================================================
