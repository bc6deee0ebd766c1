------------------------------ MODULE PipeSpec ------------------------------
(***************************************************************************)
(* What a pipe promises (man2/pipe.2): the bytes written come out in order, *)
(* none lost and none twice; a bounded number is in flight; nothing is      *)
(* written once the read end is gone, and an end that is gone stays gone.   *)
(***************************************************************************)
EXTENDS Integers, Sequences

CONSTANTS Byte, Capacity

VARIABLES sent,       \* bytes accepted from writers, oldest first
          rcvd,       \* bytes handed to readers, oldest first
          rdOpen,     \* some descriptor of the read end exists
          wrOpen      \* some descriptor of the write end exists

vars == <<sent, rcvd, rdOpen, wrOpen>>

Init == sent = <<>> /\ rcvd = <<>> /\ rdOpen = TRUE /\ wrOpen = TRUE

Put(b) == /\ rdOpen /\ wrOpen
          /\ Len(sent) - Len(rcvd) < Capacity
          /\ sent' = Append(sent, b)
          /\ UNCHANGED <<rcvd, rdOpen, wrOpen>>

Get == /\ rdOpen
       /\ Len(rcvd) < Len(sent)
       /\ rcvd' = Append(rcvd, sent[Len(rcvd) + 1])
       /\ UNCHANGED <<sent, rdOpen, wrOpen>>

CloseRead == rdOpen /\ rdOpen' = FALSE /\ UNCHANGED <<sent, rcvd, wrOpen>>

CloseWrite == wrOpen /\ wrOpen' = FALSE /\ UNCHANGED <<sent, rcvd, rdOpen>>

Next == (\E b \in Byte : Put(b)) \/ Get \/ CloseRead \/ CloseWrite

Spec == Init /\ [][Next]_vars
=============================================================================
