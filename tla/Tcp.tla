--------------------------------- MODULE Tcp ---------------------------------
(***************************************************************************)
(* TCP (kernel/src/net/tcp.c): one connection between a client, which       *)
(* connects, and a server, whose listener answers, over a network that      *)
(* loses, repeats and reorders segments.  A segment stays in net once sent  *)
(* and is delivered any number of times.                                    *)
(*                                                                         *)
(* A call or an interrupt works on the control block under t->lock.  It     *)
(* drops the lock to transmit and reads the block anew when it takes the    *)
(* lock again, so every handler is one step here.  Left open are           *)
(*   - time: a timer that is armed may fire, and any firing may be the one   *)
(*     after the tenth retry, which gives the connection up;                *)
(*   - the count of duplicate ACKs: any of them may be the third;           *)
(*   - the arithmetic of the congestion window: tcp_try_send finds a window *)
(*     of one segment or a wide one.                                        *)
(*                                                                         *)
(* Bounds: Total, GiveUp and MaxRewinds below, and one control block per     *)
(* side, so that a SYN is answered once.  The byte written as number i is i. *)
(***************************************************************************)
EXTENDS Integers, Sequences, FiniteSets

CONSTANTS SEQ,          \* number of sequence numbers, 2^32 in the code
          TCP_MSS, MSS_DEFAULT, TCP_SNDBUF, TCP_RCVBUF, TCP_WSCALE, TCP_OOO_MAX,
          RCV_LOW,      \* TCP_RCVBUF - 2 * TCP_MSS in the code
          ISS,          \* initial sequence number of each side
          Total,        \* number of bytes each side may write
          GiveUp,       \* the sides whose retries may run out
          MaxRewinds    \* a side retransmits data or FIN only after fewer than this many

End == {"client", "server"}

(* A connection carries less than half of the sequence space in each        *)
(* direction: the network may keep a segment for ever.                      *)
ASSUME TcpAssumption ==
    /\ {SEQ, TCP_MSS, MSS_DEFAULT, TCP_SNDBUF, TCP_RCVBUF, TCP_OOO_MAX, 2^TCP_WSCALE} \subseteq Nat
    /\ TCP_MSS > 0 /\ MSS_DEFAULT > 0 /\ 2^TCP_WSCALE > 0
    /\ ISS \in [End -> 0 .. SEQ - 1] /\ Total \in [End -> Nat]
    /\ \A e \in End : Total[e] + 2 < SEQ \div 2
Peer(e) == IF e = "client" THEN "server" ELSE "client"

VARIABLES tcb, net,
          sent, got,    \* bytes written to, and read from, each side
          rewinds       \* times that a side went back to its first unacknowledged byte
vars == <<tcb, net, sent, got, rewinds>>

Least(a, b) == IF a < b THEN a ELSE b

(* Sequence numbers wrap, and are compared by the sign of the difference.   *)
Plus(a, n) == (a + n) % SEQ
Diff(a, b) == LET d == (a - b) % SEQ IN IF d < SEQ \div 2 THEN d ELSE d - SEQ

(* A control block: sleep says in which call the task of this side waits,   *)
(* queue that nobody has accepted the connection.  opts is set once the     *)
(* options of a SYN have been read.                                         *)
Fresh(e, st, rcv, sl) ==
    [state |-> st, una |-> ISS[e], nxt |-> Plus(ISS[e], 1), rcv |-> rcv, wnd |-> 0,
     buf |-> <<>>, psyn |-> TRUE, pfin |-> FALSE, fsent |-> FALSE,
     rx |-> <<>>, ooo |-> {}, fin |-> FALSE, reset |-> FALSE, closed |-> FALSE,
     opts |-> FALSE, timer |-> TRUE, sleep |-> sl]

Exists(e) == tcb[e].state \notin {"NONE", "FREED"}

Init == /\ tcb = [e \in End |-> Fresh(e, "NONE", 0, "no")]
        /\ net = {} /\ sent = [e \in End |-> 0] /\ got = [e \in End |-> <<>>] /\ rewinds = 0
-----------------------------------------------------------------------------
(* tcp_output, and the window that tcp_input finds in a segment.  The       *)
(* server has seen the options, and scales, only if a SYN came again:       *)
(* tcp_accept_syn does not look at them.                                    *)
Seg(e, t, seq, fl, data) ==
    [to |-> Peer(e), seq |-> seq, ack |-> t.rcv, fl |-> fl, data |-> data,
     win |-> LET w == TCP_RCVBUF - Len(t.rx) IN IF "SYN" \in fl THEN w ELSE w \div 2^TCP_WSCALE]
Window(t, s) == IF "SYN" \notin s.fl /\ t.opts THEN s.win * 2^TCP_WSCALE ELSE s.win

(* The sequence number of a bare ACK is not looked at.                      *)
Ack(e, t) == Seg(e, t, 0, {"ACK"}, <<>>)

(* What a handler leaves: the control block, and the segments it has sent.  *)
Done(t, out) == [t |-> t, out |-> out]
Apply(e, r) == tcb' = [tcb EXCEPT ![e] = r.t] /\ net' = net \cup r.out

tcb_wake(t) == IF t.sleep \in {"connect", "send", "recv"}
           THEN [t EXCEPT !.sleep = IF t.sleep = "connect" THEN "woken" ELSE "no"] ELSE t

(* tcp_try_send: the unsent bytes that the windows allow, in segments, and  *)
(* the FIN once everything is acknowledged.                                 *)
Sending == {"ESTABLISHED", "CLOSE_WAIT", "FIN_WAIT1", "LAST_ACK"}
Cwnd == {TCP_MSS, TCP_SNDBUF}
FinDue(t) == t.pfin /\ ~t.fsent /\ t.buf = <<>> /\ t.una = t.nxt
TrySend(e, t, cwnd) ==
    LET inflight == Diff(t.nxt, t.una)
        wnd == Least(IF t.wnd = 0 THEN 1 ELSE t.wnd, cwnd)
        n == Least(Len(t.buf), wnd) - inflight
        mss == IF t.opts THEN TCP_MSS ELSE MSS_DEFAULT
        piece(k) == Seg(e, t, Plus(t.nxt, k * mss), {"ACK"},
                        SubSeq(t.buf, inflight + k * mss + 1, inflight + Least((k + 1) * mss, n)))
    IN  IF t.state \notin Sending THEN Done(t, {})
        ELSE IF n > 0
        THEN Done([t EXCEPT !.nxt = Plus(t.nxt, n), !.timer = TRUE],
                  {piece(k) : k \in 0..((n - 1) \div mss)})
        ELSE IF FinDue(t)
        THEN Done([t EXCEPT !.nxt = Plus(t.nxt, 1), !.fsent = TRUE, !.timer = TRUE],
                  {Seg(e, t, t.nxt, {"ACK", "FIN"}, <<>>)})
        ELSE Done(t, {})

(* Sending again from the first byte that is not acknowledged.              *)
Rewind(t) == [t EXCEPT !.nxt = t.una, !.fsent = FALSE, !.timer = TRUE]
-----------------------------------------------------------------------------
(* rcv_push takes what there is room for, ooo_insert keeps a segment that   *)
(* is ahead, ooo_drain takes what has become due.                           *)
push_acks_all(t, data) == LET n == Least(Len(data), TCP_RCVBUF - Len(t.rx))
                          IN [t EXCEPT !.rx = t.rx \o SubSeq(data, 1, n), !.rcv = Plus(t.rcv, Len(data))]
rcv_push(t, data) == LET n == Least(Len(data), TCP_RCVBUF - Len(t.rx))
                     IN [t EXCEPT !.rx = t.rx \o SubSeq(data, 1, n), !.rcv = Plus(t.rcv, n)]

ooo_insert(t, s) == IF \/ \E q \in t.ooo : q.seq = s.seq /\ Len(q.data) >= Len(s.data)
                       \/ Cardinality(t.ooo) >= TCP_OOO_MAX
                    THEN t ELSE [t EXCEPT !.ooo = t.ooo \cup {[seq |-> s.seq, data |-> s.data]}]

Holding(t, p) == {q \in t.ooo : Diff(p, q.seq) \in 0..(Len(q.data) - 1)}
ooo_drain(t) ==
    LET run == {n \in 0..(TCP_RCVBUF * TCP_OOO_MAX) : \A i \in 0..(n - 1) : Holding(t, Plus(t.rcv, i)) # {}}
        n == CHOOSE m \in run : \A k \in run : k <= m
        byte(p) == LET h == CHOOSE q \in Holding(t, p) : TRUE IN h.data[Diff(p, h.seq) + 1]
        u == rcv_push(t, [i \in 1..n |-> byte(Plus(t.rcv, i - 1))])
    IN  [u EXCEPT !.ooo = {q \in t.ooo : Diff(q.seq, u.rcv) > 0}]

(* The parts of tcp_input.  ACK: *)
Acked(t, s) == LET adv == Diff(s.ack, t.una)
                   n == Least(IF t.fsent /\ s.ack = t.nxt THEN adv - 1 ELSE adv, Len(t.buf))
               IN  tcb_wake([t EXCEPT !.buf = SubSeq(t.buf, n + 1, Len(t.buf)), !.una = s.ack,
                                  !.timer = s.ack # t.nxt])
NewAck(t, s) == Diff(s.ack, t.una) > 0 /\ Diff(s.ack, t.nxt) <= 0
DupAck(t, s) == s.data = <<>> /\ s.ack = t.una /\ t.nxt # t.una /\ s.fl \cap {"SYN", "FIN"} = {}
Closing(t) == IF t.una # t.nxt THEN t
              ELSE IF t.state = "FIN_WAIT1" THEN [t EXCEPT !.state = "FIN_WAIT2"]
              ELSE IF t.state = "LAST_ACK" THEN [t EXCEPT !.state = "CLOSED"] ELSE t
InputAck(e, t, s, third) ==
    LET r == IF NewAck(t, s) THEN Done(Acked(t, s), {})
             ELSE IF DupAck(t, s) /\ third THEN TrySend(e, Rewind(t), 5 * TCP_MSS)
             ELSE Done(t, {})
    IN  IF "ACK" \in s.fl THEN Done(Closing(r.t), r.out) ELSE Done(t, {})

(* ... data and FIN. *)
Receiving == {"ESTABLISHED", "FIN_WAIT1", "FIN_WAIT2"}
TakeWhole(t, s) == tcb_wake(ooo_drain(rcv_push(t, s.data)))
TakeSilently(t, s) == ooo_drain(rcv_push(t, SubSeq(s.data, Diff(t.rcv, s.seq) + 1, Len(s.data))))
Take(t, s) == tcb_wake(ooo_drain(rcv_push(t, SubSeq(s.data, Diff(t.rcv, s.seq) + 1, Len(s.data)))))
FinHere(t, s) == "FIN" \in s.fl /\ Plus(s.seq, Len(s.data)) = t.rcv
TakeFin(t) == tcb_wake([t EXCEPT !.rcv = Plus(t.rcv, 1), !.fin = TRUE,
                             !.state = CASE t.state = "ESTABLISHED" -> "CLOSE_WAIT"
                                         [] t.state \in {"FIN_WAIT1", "FIN_WAIT2"} -> "TIME_WAIT"
                                         [] OTHER -> t.state])
InputRest(e, t, s, cwnd) ==
    LET off == Diff(t.rcv, s.seq)
        data == s.data # <<>> /\ t.state \in Receiving
        u == IF data THEN Take(t, s) ELSE t
        f == TakeFin(u)
        r == TrySend(e, u, cwnd)
        acks == IF data THEN {Ack(e, u)} ELSE {}
    IN  IF data /\ off >= Len(s.data) THEN Done(t, {Ack(e, t)})
        ELSE IF data /\ off < 0 THEN Done(ooo_insert(t, s), {Ack(e, t)})
        ELSE IF FinHere(u, s) THEN Done(f, acks \cup {Ack(e, f)})
        ELSE Done(r.t, acks \cup r.out)

(* tcp_input, by the state of the connection. *)
tcp_input(e, t, s, third, cwnd) ==
    LET w == [t EXCEPT !.wnd = Window(t, s), !.opts = t.opts \/ "SYN" \in s.fl]
        a == InputAck(e, w, s, third)
        r == InputRest(e, a.t, s, cwnd)
        up == [w EXCEPT !.una = s.ack, !.psyn = FALSE, !.state = "ESTABLISHED"]
        client == tcb_wake([up EXCEPT !.rcv = Plus(s.seq, 1)])
    IN  CASE "RST" \in s.fl -> Done(tcb_wake([t EXCEPT !.reset = TRUE, !.state = "CLOSED"]), {})
          [] "RST" \notin s.fl /\ t.state = "SYN_SENT" ->
               IF {"SYN", "ACK"} \subseteq s.fl /\ s.ack = Plus(ISS[e], 1)
               THEN Done(client, {Ack(e, client)}) ELSE Done(w, {})
          [] "RST" \notin s.fl /\ t.state = "SYN_RCVD" ->
               IF "ACK" \in s.fl /\ s.ack = Plus(ISS[e], 1)
               THEN Done([up EXCEPT !.timer = FALSE], {}) ELSE Done(w, {})
          [] OTHER -> Done(r.t, a.out \cup r.out)
-----------------------------------------------------------------------------
(* tcp_rx: to the control block, ... *)
Input(e) == /\ Exists(e)
            /\ \E s \in net, third \in BOOLEAN, cwnd \in Cwnd :
                  /\ s.to = e /\ (third => DupAck(tcb[e], s) /\ rewinds < MaxRewinds[e])
                  /\ rewinds' = IF third THEN rewinds + 1 ELSE rewinds
                  /\ Apply(e, tcp_input(e, tcb[e], s, third, cwnd))
            /\ UNCHANGED <<sent, got>>

(* ... to the listener, which answers a SYN and ignores the rest, ... *)
Listener == /\ tcb["server"].state = "NONE"
            /\ \E s \in net : /\ s.to = "server" /\ s.fl = {"SYN"}
                              /\ LET t == Fresh("server", "SYN_RCVD", Plus(s.seq, 1), "queue")
                                 IN Apply("server", Done(t, {Seg("server", t, t.una, {"SYN", "ACK"}, <<>>)}))
            /\ UNCHANGED <<sent, got, rewinds>>

(* ... or to nobody.  All segments the client gets acknowledge something.   *)
Reject == /\ tcb["client"].state = "FREED"
          /\ \E s \in net : /\ s.to = "client" /\ "RST" \notin s.fl
                            /\ net' = net \cup {[to |-> "server", seq |-> s.ack, ack |-> 0, fl |-> {"RST"},
                                                 data |-> <<>>, win |-> 0]}
          /\ UNCHANGED <<tcb, sent, got, rewinds>>

(* tcp_connect, which waits, and tcp_connect_start, which does not.  The    *)
(* deadline and a kill are seen when the task is awake.                     *)
Connect == /\ tcb["client"].state = "NONE"
           /\ \E sl \in {"connect", "no"} :
                 LET t == Fresh("client", "SYN_SENT", 0, sl)
                 IN Apply("client", Done(t, {Seg("client", t, t.una, {"SYN"}, <<>>)}))
           /\ UNCHANGED <<sent, got, rewinds>>
ConnectWoken == LET t == tcb["client"] IN
    /\ t.sleep = "woken"
    /\ \E sl \in {"no", "connect"} :
          /\ sl = "connect" => t.state # "ESTABLISHED" /\ ~t.reset
          /\ tcb' = [tcb EXCEPT !["client"].sleep = sl]
    /\ UNCHANGED <<net, sent, got, rewinds>>

(* tcp_accept. *)
Accept == /\ tcb["server"].sleep = "queue" /\ ~tcb["server"].psyn
          /\ tcb' = [tcb EXCEPT !["server"].sleep = "no"]
          /\ UNCHANGED <<net, sent, got, rewinds>>

(* A task may call: close and shutdown both end in tcp_close, and after the *)
(* latter the task goes on reading.                                         *)
Running(e) == Exists(e) /\ tcb[e].sleep = "no"

(* tcp_send. *)
MaySend(t) == ~t.reset /\ t.state \in {"ESTABLISHED", "CLOSE_WAIT"}
Send(e) == LET t == tcb[e] IN
    /\ Running(e) /\ ~t.closed /\ MaySend(t)
    /\ \E n \in 1..Least(TCP_SNDBUF - Len(t.buf), Total[e] - sent[e]), cwnd \in Cwnd :
          /\ Apply(e, TrySend(e, [t EXCEPT !.buf = t.buf \o [i \in 1..n |-> sent[e] + i]], cwnd))
          /\ sent' = [sent EXCEPT ![e] = sent[e] + n]
    /\ UNCHANGED <<got, rewinds>>
SendFull(e) == LET t == tcb[e] IN
    /\ Running(e) /\ ~t.closed /\ MaySend(t) /\ sent[e] < Total[e]
    /\ Len(t.buf) = TCP_SNDBUF
    /\ tcb' = [tcb EXCEPT ![e].sleep = "send"]
    /\ UNCHANGED <<net, sent, got, rewinds>>

(* tcp_recv. *)
Reopened(t, u) == Len(t.rx) >= RCV_LOW /\ Len(u.rx) < RCV_LOW /\ u.state \in Receiving
Recv(e) == LET t == tcb[e] IN
    /\ Running(e)
    /\ \E n \in 1..Len(t.rx) :
          LET u == [t EXCEPT !.rx = SubSeq(t.rx, n + 1, Len(t.rx))]
          IN  /\ Apply(e, Done(u, IF Reopened(t, u) THEN {Ack(e, u)} ELSE {}))
              /\ got' = [got EXCEPT ![e] = got[e] \o SubSeq(t.rx, 1, n)]
    /\ UNCHANGED <<sent, rewinds>>
RecvEmpty(e) == LET t == tcb[e] IN
    /\ Running(e) /\ t.rx = <<>> /\ ~t.reset /\ ~t.fin
    /\ tcb' = [tcb EXCEPT ![e].sleep = "recv"]
    /\ UNCHANGED <<net, sent, got, rewinds>>

(* tcp_close. *)
Close(e) == LET t == tcb[e]
                u(st) == [t EXCEPT !.closed = TRUE, !.pfin = TRUE, !.state = st]
            IN
    /\ Running(e)
    /\ \E cwnd \in Cwnd :
          Apply(e, CASE t.state = "ESTABLISHED" -> TrySend(e, u("FIN_WAIT1"), cwnd)
                     [] t.state = "CLOSE_WAIT" -> TrySend(e, u("LAST_ACK"), cwnd)
                     [] OTHER -> Done([t EXCEPT !.closed = TRUE], {}))
    /\ UNCHANGED <<sent, got, rewinds>>

(* tcp_tick: the retransmission timer, ... *)
Tick(e) == LET t == tcb[e] IN
    /\ Exists(e) /\ ~t.reset /\ t.state \notin {"CLOSED", "TIME_WAIT"} /\ t.timer
    /\ \/ /\ e \in GiveUp /\ UNCHANGED rewinds
          /\ Apply(e, Done(tcb_wake([t EXCEPT !.reset = TRUE]), {}))
       \/ /\ t.psyn /\ UNCHANGED rewinds
          /\ Apply(e, Done(t, {Seg(e, t, t.una, IF t.state = "SYN_RCVD" THEN {"SYN", "ACK"} ELSE {"SYN"}, <<>>)}))
       \/ /\ ~t.psyn /\ rewinds < MaxRewinds[e] /\ rewinds' = rewinds + 1
          /\ Apply(e, TrySend(e, Rewind(t), TCP_MSS))
    /\ UNCHANGED <<sent, got>>

(* ... and the control blocks that are done with. *)
Reap(e) == LET t == tcb[e] IN
    /\ Running(e)
    /\ ((t.reset \/ t.state = "CLOSED") /\ t.closed) \/ t.state = "TIME_WAIT"
    /\ tcb' = [tcb EXCEPT ![e] = Fresh(e, "FREED", 0, "no")]
    /\ UNCHANGED <<net, sent, got, rewinds>>

Next == \/ Connect \/ ConnectWoken \/ Listener \/ Accept \/ Reject
        \/ \E e \in End : \/ Input(e) \/ Send(e) \/ SendFull(e) \/ Recv(e) \/ RecvEmpty(e)
                          \/ Close(e) \/ Tick(e) \/ Reap(e)

Spec == Init /\ [][Next]_vars
-----------------------------------------------------------------------------
(* Bytes that e has received from its peer. *)
received(e) == got[e] \o tcb[e].rx
Bytes(n) == [i \in 1..n |-> i]

(* Buffers keep to their sizes and snd_nxt stays within what is buffered,   *)
(* although rcv_push and tcp_try_send are driven by what the peer sends.    *)
TypeOK == \A e \in End : LET t == tcb[e] IN
             /\ Len(t.buf) <= TCP_SNDBUF /\ Len(t.rx) <= TCP_RCVBUF
             /\ Cardinality(t.ooo) <= TCP_OOO_MAX
             /\ Diff(t.nxt, t.una) \in 0..(TCP_SNDBUF + 1)

(* What a side has got from tcp_recv or holds for it is the beginning of    *)
(* what tcp_send took on the other: no byte is lost, doubled or out of      *)
(* order, whatever tcp_input, ooo_insert and ooo_drain are given.  A reader *)
(* to which tcp_recv returns 0 has got all of it: the FIN, sent again too,  *)
(* does not overtake data.                                                  *)
StreamExact == \A e \in End : /\ \E n \in 0..sent[e] : received(Peer(e)) = Bytes(n)
                              /\ tcb[e].fin => Len(received(e)) = sent[Peer(e)]

(* tcp_input drops a byte from the send buffer only when the peer's         *)
(* rcv_push has taken it; until then it can be sent again.                  *)
KeptUntilReceived == \A e \in End : Exists(e) =>
                       /\ tcb[e].buf = SubSeq(Bytes(sent[e]), sent[e] - Len(tcb[e].buf) + 1, sent[e])
                       /\ Exists(Peer(e)) => sent[e] - Len(tcb[e].buf) <= Len(received(Peer(e)))

(* No task sleeps in tcp_recv or tcp_send over something it could do: each  *)
(* change it waits for comes with a tcb_wake.                               *)
SleepersWait == \A e \in End : LET t == tcb[e] IN
                  /\ t.sleep = "recv" => t.rx = <<>> /\ ~t.fin /\ ~t.reset
                  /\ t.sleep = "send" => Len(t.buf) = TCP_SNDBUF /\ ~t.reset /\ t.state # "CLOSED"

(* A side whose close tcp_input takes for acknowledged (FIN_WAIT2) has told *)
(* its peer, whose tcp_recv then returns 0.                                 *)
CloseSeen == \A e \in End : tcb[e].state = "FIN_WAIT2" /\ Exists(Peer(e)) => tcb[Peer(e)].fin
=============================================================================
