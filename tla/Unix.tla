-------------------------------- MODULE Unix ---------------------------------
(***************************************************************************)
(* Unix-domain stream sockets (kernel/src/net/unix.c): pairs, listening,    *)
(* connecting and accepting, data, the slots of sleeping tasks, and the     *)
(* last close, which frees the structure others have pointers to.  Every    *)
(* operation is one hold of g_ulock, in which a task that has to wait also  *)
(* becomes BLOCKED; the task_unblock of a task taken from a slot comes      *)
(* after it.  One task uses a socket at a time.  Paths are left out: all    *)
(* sockets are bound to the same one.                                       *)
(***************************************************************************)
EXTENDS Naturals, Sequences, FiniteSets

CONSTANTS Socks, NoSock,
          UNIX_ACCEPTQ,     \* connections that wait for accept
          Room,             \* UNIX_BUFSZ - 1
          FdRoom            \* length of fd_inbox

ASSUME SockAssumption == NoSock \notin Socks

VARIABLES ustate,           \* "none" before the allocation, "freed" after free()
          peer, peer_gone,
          held,             \* a descriptor refers to the socket
          rbuf, fic,        \* bytes and descriptors that wait for the reader
          accept_q, listeners,
          asleep,           \* what the task of the socket is blocked in, or "no"
          slot,             \* the slots (reader, acceptor, fd_waiter) that hold it
          waking,           \* taken out of a slot, task_unblock still to come
          unaccepted        \* history: cut off by a listener that never accepted it
uvars == <<ustate, peer, peer_gone, held, rbuf, fic, accept_q, listeners,
           asleep, slot, waking, unaccepted>>

UInit == /\ ustate = [s \in Socks |-> "none"]
         /\ peer = [s \in Socks |-> NoSock] /\ peer_gone = [s \in Socks |-> FALSE]
         /\ held = {} /\ rbuf = [s \in Socks |-> 0] /\ fic = [s \in Socks |-> 0]
         /\ accept_q = [s \in Socks |-> <<>>] /\ listeners = {}
         /\ asleep = [s \in Socks |-> "no"] /\ slot = [s \in Socks |-> {}]
         /\ waking = {} /\ unaccepted = {}

tasks == <<asleep, slot, waking>>
data == <<rbuf, fic>>
links == <<peer, peer_gone, unaccepted>>
queues == <<accept_q, listeners>>

(* A call of the task that has the socket.                                  *)
Calls(s) == s \in held /\ asleep[s] = "no"
Becomes(s, st) == ustate' = [ustate EXCEPT ![s] = st]

(* The task leaves the slot; it is unblocked once the lock is released.     *)
WakeForgotten(s, what) == /\ slot' = [slot EXCEPT ![s] = @ \ {what}]
                          /\ UNCHANGED <<asleep, waking>>
Wake(s, what) == /\ slot' = [slot EXCEPT ![s] = @ \ {what}]
                 /\ waking' = IF what \in slot[s] THEN waking \cup {s} ELSE waking
                 /\ asleep' = asleep
Sleep(s, what) == /\ slot' = [slot EXCEPT ![s] = @ \cup {what}]
                  /\ asleep' = [asleep EXCEPT ![s] = what]
                  /\ waking' = waking
-----------------------------------------------------------------------------
unix_new_vnode(s) == /\ ustate[s] = "none" /\ Becomes(s, "UNBOUND")
                     /\ held' = held \cup {s}
                     /\ UNCHANGED <<links, data, queues, tasks>>
unix_make_pair(s, r) == /\ s # r /\ ustate[s] = "none" /\ ustate[r] = "none"
                        /\ ustate' = [ustate EXCEPT ![s] = "CONNECTED", ![r] = "CONNECTED"]
                        /\ peer' = [peer EXCEPT ![s] = r, ![r] = s]
                        /\ held' = held \cup {s, r}
                        /\ UNCHANGED <<peer_gone, unaccepted, data, queues, tasks>>
unix_op_bind(s) == /\ Calls(s) /\ ustate[s] = "UNBOUND" /\ Becomes(s, "BOUND")
                   /\ UNCHANGED <<held, links, data, queues, tasks>>
unix_op_listen(s) == /\ Calls(s) /\ ustate[s] = "BOUND" /\ listeners = {}
                     /\ Becomes(s, "LISTEN") /\ listeners' = {s}
                     /\ UNCHANGED <<held, links, data, accept_q, tasks>>

(* connect makes the socket of the other side, queues it and wakes the      *)
(* acceptor.                                                                *)
unix_op_connect(c) ==
    /\ Calls(c) /\ ustate[c] \in {"UNBOUND", "BOUND"}
    /\ \E l \in listeners, srv \in Socks :
         /\ Len(accept_q[l]) < UNIX_ACCEPTQ
         /\ ustate[srv] = "none"
         /\ ustate' = [ustate EXCEPT ![c] = "CONNECTED", ![srv] = "CONNECTED"]
         /\ peer' = [peer EXCEPT ![c] = srv, ![srv] = c]
         /\ accept_q' = [accept_q EXCEPT ![l] = Append(@, srv)]
         /\ Wake(l, "accept")
    /\ UNCHANGED <<held, peer_gone, unaccepted, data, listeners>>
unix_op_accept(l) ==
    /\ Calls(l) /\ ustate[l] = "LISTEN"
    /\ IF accept_q[l] # <<>>
       THEN /\ held' = held \cup {Head(accept_q[l])}
            /\ accept_q' = [accept_q EXCEPT ![l] = Tail(@)]
            /\ UNCHANGED tasks
       ELSE Sleep(l, "accept") /\ UNCHANGED <<held, accept_q>>
    /\ UNCHANGED <<ustate, links, data, listeners>>

(* read takes what there is, up to what was asked for; at the end it        *)
(* returns 0, else it sleeps (or returns EAGAIN).                           *)
unix_read_nb(s) ==
    /\ Calls(s)
    /\ \/ /\ \E n \in 1 .. rbuf[s] : rbuf' = [rbuf EXCEPT ![s] = @ - n]
          /\ UNCHANGED tasks
       \/ /\ rbuf[s] = 0 /\ ~peer_gone[s] /\ Sleep(s, "read")
          /\ UNCHANGED rbuf
    /\ UNCHANGED <<ustate, held, links, fic, queues>>

(* write puts in what there is room for; a full buffer is looked at again   *)
(* after 2 ms.                                                              *)
Reachable(s) == peer[s] # NoSock /\ ~peer_gone[s]
unix_write_nb(s) ==
    /\ Calls(s) /\ Reachable(s)
    /\ \E n \in 1 .. Room - rbuf[peer[s]] : rbuf' = [rbuf EXCEPT ![peer[s]] = @ + n]
    /\ Wake(peer[s], "read")
    /\ UNCHANGED <<ustate, held, links, fic, queues>>
unix_send_fd(s) ==
    /\ Calls(s) /\ Reachable(s) /\ fic[peer[s]] < FdRoom
    /\ fic' = [fic EXCEPT ![peer[s]] = @ + 1]
    /\ Wake(peer[s], "fd")
    /\ UNCHANGED <<ustate, held, links, rbuf, queues>>
unix_recv_fd(s) ==
    /\ Calls(s)
    /\ \/ fic[s] > 0 /\ fic' = [fic EXCEPT ![s] = @ - 1] /\ UNCHANGED tasks
       \/ fic[s] = 0 /\ ~peer_gone[s] /\ Sleep(s, "fd") /\ UNCHANGED fic
    /\ UNCHANGED <<ustate, held, links, rbuf, queues>>

(* The task_unblock that follows a wake, and a kill, which leaves the slot  *)
(* as it is.                                                                *)
task_unblock(s) == /\ s \in waking /\ waking' = waking \ {s}
                   /\ asleep' = [asleep EXCEPT ![s] = "no"]
                   /\ UNCHANGED <<ustate, held, links, data, queues, slot>>
task_kill(s) == /\ asleep[s] # "no" /\ asleep' = [asleep EXCEPT ![s] = "no"]
                /\ UNCHANGED <<ustate, held, links, data, queues, slot, waking>>

(* unix_unref_op, at the last close: the descriptors in the inbox are       *)
(* dropped, the connections nobody accepted are cut off, the peer is told   *)
(* and its reader woken, and the structure freed.                           *)
Cut(s) == IF ustate[s] # "LISTEN" THEN {} ELSE {accept_q[s][i] : i \in DOMAIN accept_q[s]}
Told(s) == Cut(s) \cup {peer[r] : r \in Cut(s) \cup {s}}
PeersKept(s) == peer
PeersAfter(s) == [r \in Socks |-> IF peer[r] = s THEN NoSock ELSE peer[r]]
unix_unref_op(s) ==
    /\ Calls(s)
    /\ Becomes(s, "freed")
    /\ held' = held \ {s}
    /\ fic' = [fic EXCEPT ![s] = 0]
    /\ listeners' = listeners \ {s}
    /\ peer_gone' = [r \in Socks |-> r \in Told(s) \/ peer_gone[r]]
    /\ unaccepted' = unaccepted \cup {peer[r] : r \in Cut(s)}
    /\ peer' = PeersAfter(s)
    /\ IF peer[s] = NoSock THEN UNCHANGED tasks ELSE Wake(peer[s], "read")
    /\ UNCHANGED <<rbuf, accept_q>>

UNext == \E s \in Socks :
            \/ unix_new_vnode(s) \/ unix_op_bind(s) \/ unix_op_listen(s) \/ unix_op_connect(s)
            \/ unix_op_accept(s) \/ unix_read_nb(s) \/ unix_write_nb(s) \/ unix_send_fd(s)
            \/ unix_recv_fd(s) \/ task_unblock(s) \/ task_kill(s) \/ unix_unref_op(s)
            \/ \E r \in Socks : unix_make_pair(s, r)
USpec == UInit /\ [][UNext]_uvars
-----------------------------------------------------------------------------
Live == {s \in Socks : ustate[s] \notin {"none", "freed"}}

(* No pointer outlives what it points to: whatever the order in which the   *)
(* ends, the listener and connections nobody accepted are closed, the peer  *)
(* of a socket, a queued connection of a listener and a listener in the     *)
(* list are structures that have not been freed, and peers point at each    *)
(* other.                                                                   *)
NoDangling ==
    /\ listeners \subseteq Live
    /\ \A s \in Live : /\ peer[s] # NoSock => peer[s] \in Live /\ peer[peer[s]] = s
                       /\ \A i \in DOMAIN accept_q[s] : accept_q[s][i] \in Live

(* A task asleep in read has nothing to read and a peer that is still       *)
(* there, and one asleep in accept no connection to accept, unless it is    *)
(* about to be woken.  Not so for the client of a connection that was never *)
(* accepted: the last close of the listener does not wake it.               *)
SleepersWaitForPeer ==
    \A s \in Live \ waking :
        /\ asleep[s] = "read" => rbuf[s] = 0 /\ (peer_gone[s] => s \in unaccepted)
        /\ asleep[s] = "accept" => accept_q[s] = <<>>
=============================================================================
