------------------------------ MODULE MCSockets ------------------------------
(***************************************************************************)
(* TCP connections, Unix-domain sockets and IP fragments, which share no    *)
(* state.  A behaviour is one of the component in part, from its own        *)
(* initial state; the variables of the others do not change.                *)
(***************************************************************************)
EXTENDS Tcp, Unix, Frag

CONSTANT longest

VARIABLE part

(* One datagram that fills its fragments, the others do not. *)
TheSizes == [d \in Datagrams |-> IF d = longest THEN 4 ELSE 3]

(* A download over a connection whose sequence numbers wrap. *)
Wrapping == [e \in End |-> IF e = "client" THEN SEQ - 2 ELSE SEQ - 1]
OnlyServer == [e \in End |-> IF e = "client" THEN 0 ELSE 1]
Download == [e \in End |-> IF e = "client" THEN 0 ELSE 3]

SkInit == part \in {"tcp", "unix", "frag"} /\ Init /\ UInit /\ FInit

SkNext == /\ part' = part
          /\ \/ part = "tcp" /\ Next /\ UNCHANGED <<uvars, fvars>>
             \/ part = "unix" /\ UNext /\ UNCHANGED <<vars, fvars>>
             \/ part = "frag" /\ FNext /\ UNCHANGED <<vars, uvars>>

(* The variables of the part that moves, by which the search tells states   *)
(* apart.                                                                   *)
View == <<part, CASE part = "tcp" -> vars [] part = "unix" -> uvars [] part = "frag" -> fvars>>

SkSpec == SkInit /\ [][SkNext]_<<part, vars, uvars, fvars>>
=============================================================================
