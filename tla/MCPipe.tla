------------------------------- MODULE MCPipe -------------------------------
(* A small instance of Pipe: three ring slots hold two bytes, so the ring    *)
(* fills, empties and wraps within one call of three bytes.                  *)
EXTENDS Pipe

CONSTANTS r1, w1

OneReader == {r1}
OneWriter == {w1}
=============================================================================
