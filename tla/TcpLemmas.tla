----------------------------- MODULE TcpLemmas -------------------------------
(***************************************************************************)
(* One side of a TCP connection: what its control block holds of the two    *)
(* streams, the segments it sends, and that tcp_try_send, tcp_input and     *)
(* their parts keep this, for any buffer and segment sizes, any initial     *)
(* sequence numbers and any streams shorter than half of the sequence space.*)
(***************************************************************************)
EXTENDS Tcp, WellFoundedInduction, TLAPS

(* Number k of the stream of e: 0 is its SYN, then its bytes, then its FIN. *)
Pos(e, k) == Plus(ISS[e], k)
Near == 0 .. SEQ \div 2 - 1

LEMMA Consts == /\ SEQ \in Nat /\ SEQ > 4 /\ SEQ \div 2 \in Nat /\ 2 * (SEQ \div 2) <= SEQ
                /\ \A e \in End : /\ ISS[e] \in 0 .. SEQ - 1 /\ Total[e] \in Nat
                                  /\ Total[e] + 2 < SEQ \div 2 /\ Peer(e) \in End
<1>1. \A e \in End : Peer(e) \in End
      BY Zenon DEF End, Peer
<1> QED BY <1>1, TcpAssumption, SMTT(30) DEF End

LEMMA Sizes ==
    ASSUME NEW e \in End, NEW S \in 0 .. Total[e]
    PROVE  S \in Nat /\ 1 \in Near /\ 1 + S \in Near /\ 2 + S \in Near /\ \A k \in 0 .. S + 2 : k \in Near
<1>1. PICK T \in Nat : T = Total[e] /\ T + 2 < SEQ \div 2
      BY Consts, Zenon
<1> QED BY <1>1, Consts, SMTT(30) DEF Near

LEMMA ModSmall ==
    ASSUME NEW x \in Int
    PROVE  /\ 0 <= x /\ x < SEQ => x % SEQ = x
           /\ SEQ <= x /\ x < 2 * SEQ => x % SEQ = x - SEQ
           /\ -SEQ <= x /\ x < 0 => x % SEQ = x + SEQ
  BY Consts, SMTT(30)

LEMMA PosFacts ==
    ASSUME NEW e \in End, NEW a \in Near, NEW b \in Near
    PROVE  /\ Pos(e, a) \in 0 .. SEQ - 1
           /\ Diff(Pos(e, a), Pos(e, b)) = a - b
           /\ Pos(e, a) = Pos(e, b) => a = b
           /\ \A k \in Near : Plus(Pos(e, a), k) = Pos(e, a + k)
<1>1. \A x \in Int : /\ 0 <= x /\ x < SEQ => x % SEQ = x
                     /\ SEQ <= x /\ x < 2 * SEQ => x % SEQ = x - SEQ
                     /\ -SEQ <= x /\ x < 0 => x % SEQ = x + SEQ
      BY ModSmall, Zenon
<1>2. PICK i \in 0 .. SEQ - 1 : i = ISS[e]
      BY Consts, Zenon
<1>3. a \in Nat /\ b \in Nat /\ 2 * a + 2 <= SEQ /\ 2 * b + 2 <= SEQ /\ a < SEQ \div 2 /\ b < SEQ \div 2
      BY Consts, SMTT(30) DEF Near
<1>4. \A k \in Near : Pos(e, k) = IF i + k < SEQ THEN i + k ELSE i + k - SEQ
      BY <1>1, <1>2, Consts, SMTT(30) DEF Pos, Plus, Near
<1>5. Pos(e, a) \in 0 .. SEQ - 1 /\ Pos(e, b) \in 0 .. SEQ - 1
      BY <1>2, <1>3, <1>4, Consts, SMTT(30) DEF Near
<1>6. Diff(Pos(e, a), Pos(e, b)) = a - b
  <2> DEFINE x == Pos(e, a) - Pos(e, b)
  <2>1. x \in {a - b, a - b + SEQ, a - b - SEQ} /\ -SEQ < x /\ x < SEQ
        BY <1>2, <1>3, <1>4, <1>5, Consts, SMTT(30)
  <2>2. x % SEQ = IF a >= b THEN a - b ELSE a - b + SEQ
        BY <1>1, <1>3, <2>1, Consts, SMTT(30)
  <2> HIDE DEF x
  <2>3. (LET d == x % SEQ IN IF d < SEQ \div 2 THEN d ELSE d - SEQ) = a - b
        BY <1>3, <2>2, Consts, SMTT(30)
  <2> QED BY <2>3, Zenon DEF Diff, x
<1>7. Pos(e, a) = Pos(e, b) => a = b
      BY <1>2, <1>3, <1>4, Consts, SMTT(30) DEF Near
<1>8. ASSUME NEW k \in Near PROVE Plus(Pos(e, a), k) = Pos(e, a + k)
  <2>1. k \in Nat /\ 2 * k + 2 <= SEQ
        BY Consts, SMTT(30) DEF Near
  <2>2. Pos(e, a + k) = IF i + a + k < SEQ THEN i + a + k ELSE i + a + k - SEQ
    <3>1. i + (a + k) \in Int /\ 0 <= i + (a + k) /\ i + (a + k) < 2 * SEQ /\ i + a + k = i + (a + k)
          BY <1>2, <1>3, <2>1, Consts, SMTT(30)
    <3>2. Pos(e, a + k) = (i + (a + k)) % SEQ
          BY <1>2, Zenon DEF Pos, Plus
    <3>3. PICK x \in Int : x = i + (a + k)
          BY <3>1, Zenon
    <3>4. (x < SEQ => x % SEQ = x) /\ (SEQ <= x => x % SEQ = x - SEQ)
          BY <1>1, <3>1, <3>3, Zenon
    <3>5. (x < SEQ => Pos(e, a + k) = x) /\ (SEQ <= x => Pos(e, a + k) = x - SEQ)
          BY <3>2, <3>3, <3>4, Zenon
    <3> QED BY <1>2, <1>3, <2>1, <3>3, <3>5, Consts, SMTT(30)
  <2>3. Plus(Pos(e, a), k) = IF Pos(e, a) + k < SEQ THEN Pos(e, a) + k ELSE Pos(e, a) + k - SEQ
        BY <1>1, <1>3, <1>5, <2>1, Consts, SMTT(30) DEF Plus
  <2>4. Pos(e, a) = IF i + a < SEQ THEN i + a ELSE i + a - SEQ
        BY <1>4, Zenon
  <2> QED BY <1>2, <1>3, <2>1, <2>2, <2>3, <2>4, Consts, SMTT(30)
<1> QED BY <1>5, <1>6, <1>7, <1>8, Zenon

LEMMA PosDiff ==
    ASSUME NEW e \in End, NEW a \in Near, NEW b \in Near
    PROVE  Diff(Pos(e, a), Pos(e, b)) = a - b
  BY PosFacts, Zenon

LEMMA PosPlus ==
    ASSUME NEW e \in End, NEW a \in Near, NEW k \in Near
    PROVE  Plus(Pos(e, a), k) = Pos(e, a + k)
<1>1. \A j \in Near : Plus(Pos(e, a), j) = Pos(e, a + j)
      BY PosFacts, Zenon
<1> QED BY <1>1, Zenon

LEMMA PosSame ==
    ASSUME NEW e \in End, NEW a \in Near, NEW b \in Near, Pos(e, a) = Pos(e, b)
    PROVE  a = b
  BY PosFacts, Zenon
-----------------------------------------------------------------------------
Flags == {"SYN", "ACK", "FIN", "RST"}
Segs == [to : End, seq : Int, ack : Int, fl : SUBSET Flags, data : Seq(Nat), win : Int]
States == {"NONE", "SYN_SENT", "SYN_RCVD", "ESTABLISHED", "CLOSE_WAIT", "FIN_WAIT1", "FIN_WAIT2",
           "LAST_ACK", "TIME_WAIT", "CLOSED", "FREED"}
Sleeps == {"no", "queue", "connect", "woken", "send", "recv"}
Tcbs == [state : States, una : Int, nxt : Int, rcv : Int, wnd : Int, buf : Seq(Nat),
         psyn : BOOLEAN, pfin : BOOLEAN, fsent : BOOLEAN, rx : Seq(Nat),
         ooo : SUBSET [seq : Int, data : Seq(Nat)], fin : BOOLEAN, reset : BOOLEAN,
         closed : BOOLEAN, opts : BOOLEAN, timer : BOOLEAN, sleep : Sleeps]

(* d is the bytes of a stream after the first k. *)
Piece(d, k) == \A i \in 1 .. Len(d) : d[i] = k + i

(* The sending half of a control block of e that was given S bytes: its SYN *)
(* is out; data is out, or nothing; the FIN is out; the FIN is acknowledged.*)
SynOut(e, t, S) == /\ t.una = Pos(e, 0) /\ t.nxt = Pos(e, 1) /\ S = 0 /\ ~t.fsent /\ t.psyn
                   /\ t.state \in {"SYN_SENT", "SYN_RCVD", "CLOSED"}
DataOut(e, t, S) == /\ t.una = Pos(e, 1 + S - Len(t.buf)) /\ ~t.fsent
                    /\ \E n \in 0 .. Len(t.buf) : t.nxt = Pos(e, 1 + S - Len(t.buf) + n)
                    /\ t.state \notin {"SYN_SENT", "SYN_RCVD"}
FinOut(e, t, S) == /\ t.una = Pos(e, 1 + S) /\ t.nxt = Pos(e, 2 + S) /\ t.fsent /\ t.buf = <<>>
                   /\ t.state \notin {"SYN_SENT", "SYN_RCVD"}
FinAcked(e, t, S) == /\ t.una = Pos(e, 2 + S) /\ t.nxt = Pos(e, 2 + S) /\ t.fsent /\ t.buf = <<>>
                     /\ ~t.timer /\ t.state \notin {"SYN_SENT", "SYN_RCVD"}
Snd(e, t, S) == /\ Len(t.buf) <= S /\ Len(t.buf) <= TCP_SNDBUF /\ Piece(t.buf, S - Len(t.buf))
                /\ t.pfin \/ t.fsent => t.closed
                /\ t.psyn => t.state \in {"SYN_SENT", "SYN_RCVD", "CLOSED"}
                /\ t.state \notin {"NONE", "FREED"}
                /\ SynOut(e, t, S) \/ DataOut(e, t, S) \/ FinOut(e, t, S) \/ FinAcked(e, t, S)

(* The receiving half, of a task that has read g, when the peer was given P *)
(* bytes and F says that it will be given no more.                          *)
Top(t, g) == Len(g) + Len(t.rx) + (IF t.fin THEN 1 ELSE 0)
Early(e, q, P) == \E k \in Nat : q.seq = Pos(Peer(e), 1 + k) /\ Piece(q.data, k) /\ k + Len(q.data) <= P
Rcv(e, t, P, F, g) ==
    /\ Len(t.rx) <= TCP_RCVBUF /\ Len(g) + Len(t.rx) <= P /\ Piece(t.rx, Len(g))
    /\ t.fin => Len(g) + Len(t.rx) = P /\ F /\ t.state \notin Receiving \cup {"SYN_RCVD"}
    /\ \A q \in t.ooo : Early(e, q, P)
    /\ IF t.state = "SYN_SENT" THEN g = <<>> /\ t.rx = <<>> /\ t.ooo = {} /\ ~t.fin
       ELSE t.rcv = Pos(Peer(e), 1 + Top(t, g))

Asleep(t) == /\ t.sleep = "recv" => t.rx = <<>> /\ ~t.fin /\ ~t.reset
             /\ t.sleep = "send" => /\ Len(t.buf) = TCP_SNDBUF /\ ~t.reset
                                    /\ t.state \in {"ESTABLISHED", "CLOSE_WAIT"}
Good(e, t, S, P, F, g) == Snd(e, t, S) /\ Rcv(e, t, P, F, g) /\ Asleep(t)

(* A segment that e sends. *)
Content(e, seq, fl, data, S, closed) ==
    /\ data # <<>> => \E k \in Nat : seq = Pos(e, 1 + k) /\ Piece(data, k) /\ k + Len(data) <= S
    /\ "FIN" \in fl => data = <<>> /\ seq = Pos(e, 1 + S) /\ closed
    /\ "SYN" \in fl => data = <<>> /\ seq = Pos(e, 0) /\ "FIN" \notin fl
SegBy(e, s, S, closed, P, F, top) ==
    /\ s \in Segs /\ s.to = Peer(e) /\ "RST" \notin s.fl /\ Content(e, s.seq, s.fl, s.data, S, closed)
    /\ "ACK" \in s.fl => \E r \in 0 .. top : s.ack = Pos(Peer(e), 1 + r) /\ (r = P + 1 => F)
-----------------------------------------------------------------------------
(* A part of a sequence, and the smaller of two numbers. *)
LEMMA Slice ==
    ASSUME NEW q \in Seq(Nat), NEW a \in Nat, NEW c \in Nat, a <= c, c <= Len(q)
    PROVE  /\ SubSeq(q, a + 1, c) \in Seq(Nat) /\ Len(SubSeq(q, a + 1, c)) = c - a
           /\ \A i \in 1 .. c - a : SubSeq(q, a + 1, c)[i] = q[a + i]
BY SMTT(60)

LEMMA LeastOf ==
    ASSUME NEW a \in Nat, NEW b \in Nat
    PROVE  Least(a, b) \in Nat /\ Least(a, b) <= a /\ Least(a, b) <= b
BY SMT DEF Least

(* The window that a segment offers. *)
LEMMA Quotient ==
    ASSUME NEW w \in Int, NEW k \in Nat, k > 0
    PROVE  w \div k \in Int
BY SMT

LEMMA Room ==
    ASSUME NEW b \in Nat, NEW x \in Seq(Nat)
    PROVE  b - Len(x) \in Int
BY SMT

LEMMA SegGood ==
    ASSUME NEW e \in End, NEW t \in Tcbs, NEW S \in 0 .. Total[e], NEW P \in 0 .. Total[Peer(e)],
           NEW F \in BOOLEAN, NEW g \in Seq(Nat), Rcv(e, t, P, F, g), t.state # "SYN_SENT",
           NEW seq \in Int, NEW fl \in SUBSET {"SYN", "ACK", "FIN"}, NEW data \in Seq(Nat),
           Content(e, seq, fl, data, S, t.closed)
    PROVE  SegBy(e, Seg(e, t, seq, fl, data), S, t.closed, P, F, Top(t, g))
<1> DEFINE s == Seg(e, t, seq, fl, data)
<1>1. Peer(e) \in End
      BY Zenon DEF End, Peer
<1>2. t.rcv = Pos(Peer(e), 1 + Top(t, g)) /\ t.rcv \in Int
      BY Zenon DEF Rcv, Tcbs
<1>3. Top(t, g) \in Nat /\ (Top(t, g) = P + 1 => F)
      BY SMTT(60) DEF Top, Rcv, Tcbs
<1>4. s.win \in Int
  <2>1. t.rx \in Seq(Nat) /\ TCP_RCVBUF \in Nat
        BY TcpAssumption, Zenon DEF Tcbs
  <2>2. 2^TCP_WSCALE \in Nat /\ 2^TCP_WSCALE > 0
        BY TcpAssumption, Zenon
  <2>3. TCP_RCVBUF - Len(t.rx) \in Int /\ (TCP_RCVBUF - Len(t.rx)) \div 2^TCP_WSCALE \in Int
        BY <2>1, <2>2, Room, Quotient, Zenon
  <2>4. s.win = IF "SYN" \in fl THEN TCP_RCVBUF - Len(t.rx)
                ELSE (TCP_RCVBUF - Len(t.rx)) \div 2^TCP_WSCALE
        BY Zenon DEF Seg
  <2> QED BY <2>3, <2>4, Zenon
<1>5. /\ s.to = Peer(e) /\ s.seq = seq /\ s.ack = t.rcv /\ s.fl = fl /\ s.data = data
      BY Zenon DEF Seg
<1>6. s \in Segs
      BY <1>1, <1>2, <1>4, <1>5, SMTT(30) DEF Segs, Flags, Seg
<1> HIDE DEF s
<1>7. Top(t, g) \in 0 .. Top(t, g)
      BY <1>3, SMTT(30)
<1>8. SegBy(e, s, S, t.closed, P, F, Top(t, g))
      BY <1>2, <1>3, <1>5, <1>6, <1>7, Zenon DEF SegBy
<1> QED BY <1>8, Zenon DEF s

(* What tcp_try_send leaves alone. *)
SendSame(t, u) == /\ u.state = t.state /\ u.una = t.una /\ u.rcv = t.rcv /\ u.buf = t.buf
                  /\ u.psyn = t.psyn /\ u.pfin = t.pfin /\ u.rx = t.rx /\ u.ooo = t.ooo
                  /\ u.fin = t.fin /\ u.reset = t.reset /\ u.closed = t.closed /\ u.sleep = t.sleep

LEMMA SendSameKeeps ==
    ASSUME NEW e, NEW t, NEW u, NEW P, NEW F, NEW g, SendSame(t, u), Rcv(e, t, P, F, g), Asleep(t)
    PROVE  Rcv(e, u, P, F, g) /\ Asleep(u) /\ Top(u, g) = Top(t, g)
  BY Zenon DEF SendSame, Rcv, Asleep, Top

LEMMA Multiples ==
    ASSUME NEW n \in Nat \ {0}, NEW m \in Nat \ {0}, NEW k \in 0 .. ((n - 1) \div m)
    PROVE  k * m \in 0 .. n - 1 /\ (k + 1) * m = k * m + m
<1>1. (n - 1) \div m \in Nat /\ m * ((n - 1) \div m) <= n - 1
      BY Z3T(30)
<1>2. k \in Nat /\ k <= (n - 1) \div m
      BY <1>1, SMTT(30)
<1> QED BY <1>1, <1>2, Z3T(30)

(* tcp_try_send: the segments are pieces of the stream, the FIN is last.    *)
LEMMA TrySendGood ==
    ASSUME NEW e \in End, NEW t \in Tcbs, NEW S \in 0 .. Total[e], NEW P \in 0 .. Total[Peer(e)],
           NEW F \in BOOLEAN, NEW g \in Seq(Nat), Good(e, t, S, P, F, g), NEW cwnd \in Int
    PROVE  LET r == TrySend(e, t, cwnd)
           IN  /\ r.t \in Tcbs /\ SendSame(t, r.t) /\ Good(e, r.t, S, P, F, g)
               /\ \A s \in r.out : SegBy(e, s, S, t.closed, P, F, Top(t, g))
<1> DEFINE inflight == Diff(t.nxt, t.una)
           wnd == Least(IF t.wnd = 0 THEN 1 ELSE t.wnd, cwnd)
           n == Least(Len(t.buf), wnd) - inflight
           mss == IF t.opts THEN TCP_MSS ELSE MSS_DEFAULT
           piece(k) == Seg(e, t, Plus(t.nxt, k * mss), {"ACK"},
                        SubSeq(t.buf, inflight + k * mss + 1, inflight + Least((k + 1) * mss, n)))
           r == TrySend(e, t, cwnd)
           ut == [t EXCEPT !.nxt = Plus(t.nxt, n), !.timer = TRUE]
           uf == [t EXCEPT !.nxt = Plus(t.nxt, 1), !.fsent = TRUE, !.timer = TRUE]
<1>0. r = IF t.state \notin Sending THEN Done(t, {})
          ELSE IF n > 0 THEN Done(ut, {piece(k) : k \in 0..((n - 1) \div mss)})
          ELSE IF FinDue(t) THEN Done(uf, {Seg(e, t, t.nxt, {"ACK", "FIN"}, <<>>)})
          ELSE Done(t, {})
      BY Zenon DEF TrySend
<1>t. t.buf \in Seq(Nat) /\ t.wnd \in Int /\ t.nxt \in Int /\ t.una \in Int
      BY Zenon DEF Tcbs
<1>l. Len(t.buf) \in Nat /\ wnd \in Int
      BY <1>t, SMTT(30) DEF Least
<1>u. PICK b \in Nat : b = Len(t.buf)
      BY <1>l, Zenon
<1>a. b <= S
      BY <1>u, Zenon DEF Good, Snd
<1>b. S \in Nat /\ 1 \in Near /\ 1 + S \in Near /\ 2 + S \in Near /\ \A k \in 0 .. S + 2 : k \in Near
      BY Sizes, Zenon
<1> HIDE DEF r, wnd
<1>c. mss \in Nat \ {0}
      BY TcpAssumption, SMTT(60)
<1>1. CASE t.state \notin Sending \/ (~(n > 0) /\ ~FinDue(t))
  <2>1. r.t = t /\ r.out = {}
        BY <1>0, <1>1, Zenon DEF Done
  <2> QED BY <2>1, Zenon DEF SendSame, r
<1>2. CASE t.state \in Sending /\ n > 0
  <2>1. r.t = ut /\ r.out = {piece(k) : k \in 0..((n - 1) \div mss)}
        BY <1>0, <1>2, Zenon DEF Done
  <2>2. t.state # "SYN_SENT" /\ ~SynOut(e, t, S)
        BY <1>2, Zenon DEF Sending, SynOut
  <2>3. DataOut(e, t, S)
    <3>1. CASE FinOut(e, t, S)
      <4>1. Diff(Pos(e, 2 + S), Pos(e, 1 + S)) = (2 + S) - (1 + S) /\ t.buf = <<>>
            BY <3>1, <1>b, PosDiff, Zenon DEF FinOut
      <4>2. inflight = 1 /\ Len(t.buf) = 0
            BY <3>1, <4>1, <1>b, SMTT(30) DEF FinOut
      <4> QED BY <4>2, <1>2, <1>l, SMTT(30) DEF Least
    <3>2. CASE FinAcked(e, t, S)
      <4>1. Diff(Pos(e, 2 + S), Pos(e, 2 + S)) = (2 + S) - (2 + S) /\ t.buf = <<>>
            BY <3>2, <1>b, PosDiff, Zenon DEF FinAcked
      <4>2. inflight = 0 /\ Len(t.buf) = 0
            BY <3>2, <4>1, <1>b, SMTT(30) DEF FinAcked
      <4> QED BY <4>2, <1>2, <1>l, SMTT(30) DEF Least
    <3> QED BY <2>2, <3>1, <3>2, Zenon DEF Good, Snd
  <2>4. PICK m \in 0 .. b : t.nxt = Pos(e, 1 + S - b + m) /\ t.una = Pos(e, 1 + S - b)
        BY <2>3, <1>u, Zenon DEF DataOut
  <2>5. inflight = m
    <3>0. 1 + S - b + m \in 0 .. S + 2 /\ 1 + S - b \in 0 .. S + 2
          BY <1>a, <1>b, SMTT(30)
    <3>1. 1 + S - b + m \in Near /\ 1 + S - b \in Near
          BY <3>0, <1>b, Zenon
    <3>2. Diff(Pos(e, 1 + S - b + m), Pos(e, 1 + S - b)) = (1 + S - b + m) - (1 + S - b)
          BY <3>1, PosDiff, Zenon
    <3> QED BY <3>2, <2>4, <1>a, <1>b, SMTT(30)
  <2>6. n \in Nat \ {0} /\ m + n <= b
        BY <1>2, <1>l, <1>u, <2>5, SMTT(30) DEF Least
  <2> HIDE DEF inflight, n
  <2>7. ASSUME NEW o \in 0 .. n
        PROVE  Plus(t.nxt, o) = Pos(e, 1 + S - b + m + o)
    <3>1. 1 + S - b + m \in 0 .. S + 2 /\ o \in 0 .. S + 2
          BY <1>a, <1>b, <2>6, SMTT(30)
    <3> QED BY <3>1, <2>4, <1>b, PosPlus, ZenonT(60)
  <2>8. ut \in Tcbs /\ SendSame(t, ut) /\ ut.nxt = Plus(t.nxt, n) /\ ut.fsent = t.fsent
    <3>1. Plus(t.nxt, n) \in Int
          BY <1>t, <2>6, Consts, SMTT(60) DEF Plus
    <3> QED BY <3>1, Zenon DEF Tcbs, SendSame
  <2>9. Good(e, ut, S, P, F, g)
    <3>1. m + n \in 0 .. b /\ ut.nxt = Pos(e, 1 + S - b + (m + n))
      <4>1. 1 + S - b + m + n = 1 + S - b + (m + n) /\ n \in 0 .. n
            BY <1>a, <1>b, <2>6, SMTT(30)
      <4>2. m + n \in 0 .. b
            BY <2>6, SMTT(30)
      <4> QED BY <4>1, <4>2, <2>7, <2>8, Zenon
    <3>2. DataOut(e, ut, S)
          BY <3>1, <1>u, <2>3, <2>8, Zenon DEF DataOut, SendSame
    <3>3. Snd(e, ut, S)
          BY <3>2, <2>8, Zenon DEF Snd, Good, SendSame
    <3>4. Rcv(e, t, P, F, g) /\ Asleep(t)
          BY Zenon DEF Good
    <3>5. Rcv(e, ut, P, F, g) /\ Asleep(ut)
      <4> HIDE DEF ut
      <4> QED BY <3>4, <2>8, SendSameKeeps, Zenon
    <3> QED BY <3>3, <3>5, Zenon DEF Good
  <2>10. ASSUME NEW k \in 0..((n - 1) \div mss)
         PROVE  SegBy(e, piece(k), S, t.closed, P, F, Top(t, g))
    <3> DEFINE o == k * mss
               h == Least((k + 1) * mss, n)
               d == SubSeq(t.buf, m + o + 1, m + h)
    <3>1. o \in 0 .. n - 1 /\ (k + 1) * mss = o + mss
          BY <1>c, <2>6, Multiples, Zenon
    <3>2. h \in 0 .. n /\ h > o
          BY <1>c, <2>6, <3>1, SMTT(60) DEF Least
    <3>3. piece(k) = Seg(e, t, Plus(t.nxt, o), {"ACK"}, d)
          BY <2>5, Zenon
    <3> HIDE DEF o, h
    <3>4. d \in Seq(Nat) /\ Len(d) = h - o /\ \A i \in 1 .. h - o : d[i] = t.buf[m + o + i]
      <4>1. /\ m + o \in Nat /\ m + h \in Nat /\ m + o <= m + h /\ m + h <= b
            /\ (m + h) - (m + o) = h - o
            BY <2>6, <3>1, <3>2, SMT
      <4>2. t.buf \in Seq(Nat) /\ m + h <= Len(t.buf)
            BY <1>t, <1>u, <4>1, Zenon
      <4>3. /\ d \in Seq(Nat) /\ Len(d) = (m + h) - (m + o)
            /\ \A i \in 1 .. (m + h) - (m + o) : d[i] = t.buf[m + o + i]
            BY <4>1, <4>2, Slice, Zenon
      <4> QED BY <4>1, <4>3, Zenon
    <3> HIDE DEF d
    <3>5. Piece(d, S - b + m + o)
      <4>1. \A i \in 1 .. b : t.buf[i] = S - b + i
            BY <1>u, Zenon DEF Good, Snd, Piece
      <4>2. ASSUME NEW i \in 1 .. h - o PROVE d[i] = S - b + m + o + i
        <5>1. m + o + i \in 1 .. b /\ S - b + (m + o + i) = S - b + m + o + i
              BY <1>a, <1>b, <2>6, <3>1, <3>2, SMTT(30)
        <5>2. d[i] = t.buf[m + o + i] /\ t.buf[m + o + i] = S - b + (m + o + i)
              BY <3>4, <4>1, <5>1, Zenon
        <5> QED BY <5>1, <5>2, Zenon
      <4> QED BY <4>2, <3>4, Zenon DEF Piece
    <3>6. /\ S - b + m + o \in Nat /\ S - b + m + o + Len(d) <= S
          /\ 1 + S - b + m + o = 1 + (S - b + m + o)
          BY <1>a, <1>b, <2>6, <3>1, <3>2, <3>4, SMTT(30)
    <3>7. Plus(t.nxt, o) = Pos(e, 1 + (S - b + m + o)) /\ Plus(t.nxt, o) \in Int
      <4>1. o \in 0 .. n
            BY <3>1, <2>6, SMTT(30)
      <4>2. Plus(t.nxt, o) \in Int
            BY <1>t, <4>1, <2>6, Consts, SMTT(60) DEF Plus
      <4> QED BY <4>1, <4>2, <2>7, <3>6, Zenon
    <3>8. SegBy(e, Seg(e, t, Plus(t.nxt, o), {"ACK"}, d), S, t.closed, P, F, Top(t, g))
      <4>1. {"ACK"} \in SUBSET {"SYN", "ACK", "FIN"} /\ "SYN" \notin {"ACK"} /\ "FIN" \notin {"ACK"}
            BY Zenon
      <4>2. Rcv(e, t, P, F, g)
            BY Zenon DEF Good
      <4>3. Content(e, Plus(t.nxt, o), {"ACK"}, d, S, t.closed)
            BY <4>1, <3>5, <3>6, <3>7, Zenon DEF Content
      <4> HIDE DEF mss
      <4> QED BY <4>1, <4>2, <4>3, <2>2, <3>4, <3>7, SegGood, Zenon
    <3> QED BY <3>3, <3>8, Zenon
  <2> QED BY <2>1, <2>8, <2>9, <2>10, Zenon DEF r
<1>3. CASE t.state \in Sending /\ ~(n > 0) /\ FinDue(t)
  <2>1. r.t = uf /\ r.out = {Seg(e, t, t.nxt, {"ACK", "FIN"}, <<>>)}
        BY <1>0, <1>3, Zenon DEF Done
  <2>2. /\ t.state \notin {"SYN_SENT", "SYN_RCVD", "CLOSED"} /\ ~t.fsent /\ t.closed
        /\ t.buf = <<>> /\ t.una = t.nxt
        BY <1>3, Zenon DEF Sending, FinDue, Good, Snd
  <2>3. DataOut(e, t, S)
        BY <2>2, Zenon DEF Good, Snd, SynOut, FinOut, FinAcked
  <2>4. 1 + S - Len(t.buf) = 1 + S /\ 1 + S + 1 = 2 + S
        BY <1>b, <2>2, SMTT(30)
  <2>5. t.una = Pos(e, 1 + S) /\ t.nxt = Pos(e, 1 + S)
        BY <2>2, <2>3, <2>4, Zenon DEF DataOut
  <2>6. Plus(t.nxt, 1) = Pos(e, 2 + S) /\ Plus(t.nxt, 1) \in Int
    <3>1. Plus(t.nxt, 1) = Pos(e, 2 + S)
          BY <1>b, <2>4, <2>5, PosPlus, Zenon
    <3>2. Plus(t.nxt, 1) \in Int
          BY <1>t, Consts, SMTT(60) DEF Plus
    <3> QED BY <3>1, <3>2, Zenon
  <2>7. uf \in Tcbs /\ SendSame(t, uf) /\ uf.nxt = Plus(t.nxt, 1) /\ uf.fsent
        BY <2>6, Zenon DEF Tcbs, SendSame
  <2>8. FinOut(e, uf, S)
        BY <2>2, <2>5, <2>6, <2>7, Zenon DEF FinOut, SendSame
  <2>9. Snd(e, uf, S)
        BY <2>2, <2>8, <2>7, Zenon DEF Snd, Good, SendSame
  <2>10. Good(e, uf, S, P, F, g)
    <3>1. Rcv(e, t, P, F, g) /\ Asleep(t)
          BY Zenon DEF Good
    <3>2. Rcv(e, uf, P, F, g) /\ Asleep(uf)
      <4> HIDE DEF uf
      <4> QED BY <3>1, <2>7, SendSameKeeps, Zenon
    <3> QED BY <3>2, <2>9, Zenon DEF Good
  <2>11. SegBy(e, Seg(e, t, t.nxt, {"ACK", "FIN"}, <<>>), S, t.closed, P, F, Top(t, g))
    <3>1. <<>> \in Seq(Nat) /\ {"ACK", "FIN"} \in SUBSET {"SYN", "ACK", "FIN"}
          BY SMTT(30)
    <3>2. Rcv(e, t, P, F, g) /\ t.state # "SYN_SENT" /\ "SYN" \notin {"ACK", "FIN"}
          BY <2>2, Zenon DEF Good
    <3>3. Content(e, t.nxt, {"ACK", "FIN"}, <<>>, S, t.closed)
          BY <2>2, <2>5, <3>2, Zenon DEF Content
    <3> QED BY <1>t, <3>1, <3>2, <3>3, SegGood, Zenon
  <2> QED BY <2>1, <2>7, <2>10, <2>11, Zenon DEF r
<1> QED BY <1>1, <1>2, <1>3, Zenon
-----------------------------------------------------------------------------
(* Which fields each half depends on. *)
SndSame(t, u) == /\ u.una = t.una /\ u.nxt = t.nxt /\ u.buf = t.buf /\ u.psyn = t.psyn /\ u.pfin = t.pfin
                 /\ u.fsent = t.fsent /\ u.closed = t.closed /\ u.timer = t.timer
RcvSame(t, u) == u.rx = t.rx /\ u.fin = t.fin /\ u.ooo = t.ooo /\ u.rcv = t.rcv

LEMMA SndKeeps ==
    ASSUME NEW e, NEW t, NEW u, NEW S, Snd(e, t, S), SndSame(t, u), u.state = t.state
    PROVE  Snd(e, u, S)
  BY Zenon DEF Snd, SndSame, SynOut, DataOut, FinOut, FinAcked

LEMMA RcvKeeps ==
    ASSUME NEW e, NEW t, NEW u, NEW P, NEW F, NEW g, Rcv(e, t, P, F, g), RcvSame(t, u), u.state = t.state
    PROVE  Rcv(e, u, P, F, g) /\ Top(u, g) = Top(t, g)
  BY Zenon DEF Rcv, RcvSame, Top

LEMMA WakeFacts ==
    ASSUME NEW t \in Tcbs
    PROVE  LET u == tcb_wake(t)
           IN  /\ u \in Tcbs /\ SndSame(t, u) /\ RcvSame(t, u) /\ Asleep(u)
               /\ u.state = t.state /\ u.wnd = t.wnd /\ u.opts = t.opts /\ u.reset = t.reset
<1> DEFINE z == IF t.sleep = "connect" THEN "woken" ELSE "no"
           v == [t EXCEPT !.sleep = z]
<1>1. CASE t.sleep \in {"connect", "send", "recv"}
  <2>1. tcb_wake(t) = v
        BY <1>1, Zenon DEF tcb_wake
  <2>2. z \in Sleeps /\ z # "recv" /\ z # "send"
    <3>1. "no" \in Sleeps /\ "woken" \in Sleeps
          BY Zenon DEF Sleeps
    <3> QED BY <3>1, Zenon
  <2> HIDE DEF z
  <2>3. /\ v \in Tcbs /\ SndSame(t, v) /\ RcvSame(t, v) /\ v.sleep = z
        /\ v.state = t.state /\ v.wnd = t.wnd /\ v.opts = t.opts /\ v.reset = t.reset
        BY <2>2, Zenon DEF Tcbs, SndSame, RcvSame
  <2> QED BY <2>1, <2>2, <2>3, Zenon DEF Asleep
<1>2. CASE t.sleep \notin {"connect", "send", "recv"}
  <2>1. tcb_wake(t) = t
        BY <1>2, Zenon DEF tcb_wake
  <2> QED BY <1>2, <2>1, Zenon DEF Asleep, SndSame, RcvSame
<1> QED BY <1>1, <1>2, Zenon

LEMMA WakeGood ==
    ASSUME NEW e, NEW t \in Tcbs, NEW S, NEW P, NEW F, NEW g, Snd(e, t, S), Rcv(e, t, P, F, g)
    PROVE  /\ tcb_wake(t) \in Tcbs /\ Good(e, tcb_wake(t), S, P, F, g)
           /\ SndSame(t, tcb_wake(t)) /\ RcvSame(t, tcb_wake(t)) /\ tcb_wake(t).state = t.state
<1> DEFINE u == tcb_wake(t)
<1>1. u \in Tcbs /\ SndSame(t, u) /\ RcvSame(t, u) /\ Asleep(u) /\ u.state = t.state
      BY WakeFacts, Zenon
<1> HIDE DEF u
<1>2. Snd(e, u, S) /\ Rcv(e, u, P, F, g)
      BY <1>1, SndKeeps, RcvKeeps, Zenon
<1> QED BY <1>1, <1>2, Zenon DEF Good, u

(* Sending again. *)
LEMMA RewindGood ==
    ASSUME NEW e \in End, NEW t \in Tcbs, NEW S \in 0 .. Total[e], NEW P, NEW F, NEW g,
           Good(e, t, S, P, F, g), DataOut(e, t, S) \/ FinOut(e, t, S)
    PROVE  LET u == Rewind(t)
           IN  /\ u \in Tcbs /\ Good(e, u, S, P, F, g) /\ RcvSame(t, u)
               /\ u.buf = t.buf /\ u.state = t.state /\ u.closed = t.closed
<1> DEFINE u == Rewind(t)
<1>1. /\ u \in Tcbs /\ RcvSame(t, u) /\ u.buf = t.buf /\ u.state = t.state /\ u.closed = t.closed
      /\ u.nxt = t.una /\ u.una = t.una /\ ~u.fsent /\ u.psyn = t.psyn /\ u.pfin = t.pfin
      /\ u.sleep = t.sleep /\ u.reset = t.reset
      BY Zenon DEF Rewind, Tcbs, RcvSame
<1> HIDE DEF u
<1>2. t.una = Pos(e, 1 + S - Len(t.buf)) /\ t.state \notin {"SYN_SENT", "SYN_RCVD"}
  <2>1. CASE FinOut(e, t, S)
    <3>1. 1 + S - Len(t.buf) = 1 + S
          BY <2>1, Sizes, SMTT(30) DEF FinOut
    <3> QED BY <2>1, <3>1, Zenon DEF FinOut
  <2> QED BY <2>1, Zenon DEF DataOut
<1>3. Len(t.buf) \in Nat
  <2>1. t.buf \in Seq(Nat)
        BY Zenon DEF Tcbs
  <2> QED BY <2>1, SMTT(30)
<1>4. 0 \in 0 .. Len(t.buf) /\ 1 + S - Len(t.buf) + 0 = 1 + S - Len(t.buf)
      BY <1>3, Sizes, SMTT(30)
<1>5. DataOut(e, u, S)
      BY <1>1, <1>2, <1>4, Zenon DEF DataOut
<1>6. Snd(e, u, S)
      BY <1>1, <1>5, Zenon DEF Snd, Good
<1>7. Rcv(e, u, P, F, g) /\ Asleep(u)
  <2>1. Rcv(e, t, P, F, g) /\ Asleep(t)
        BY Zenon DEF Good
  <2>2. Rcv(e, u, P, F, g)
        BY <1>1, <2>1, RcvKeeps, Zenon
  <2>3. Asleep(u)
        BY <1>1, <2>1, Zenon DEF Asleep, RcvSame
  <2> QED BY <2>2, <2>3, Zenon
<1> QED BY <1>1, <1>6, <1>7, Zenon DEF Good, u

(* The end of a piece of the stream. *)
LEMMA PieceTail ==
    ASSUME NEW d \in Seq(Nat), NEW k \in Int, Piece(d, k), NEW n \in 0 .. Len(d)
    PROVE  LET u == SubSeq(d, n + 1, Len(d))
           IN  u \in Seq(Nat) /\ Len(u) = Len(d) - n /\ Piece(u, k + n)
<1> DEFINE u == SubSeq(d, n + 1, Len(d))
<1>1. u \in Seq(Nat) /\ Len(u) = Len(d) - n /\ \A i \in 1 .. Len(d) - n : u[i] = d[n + i]
  <2>1. n \in Nat /\ Len(d) \in Nat /\ n <= Len(d) /\ Len(d) <= Len(d)
        BY SMT
  <2> QED BY <2>1, Slice, Zenon
<1> HIDE DEF u
<1>2. ASSUME NEW i \in 1 .. Len(u) PROVE u[i] = k + n + i
  <2>1. i \in 1 .. Len(d) - n /\ n + i \in 1 .. Len(d) /\ k + (n + i) = k + n + i
        BY <1>1, SMTT(30)
  <2>2. u[i] = d[n + i] /\ d[n + i] = k + (n + i)
        BY <1>1, <2>1, Zenon DEF Piece
  <2> QED BY <2>1, <2>2, Zenon
<1>3. Piece(u, k + n)
      BY <1>2, Zenon DEF Piece
<1> QED BY <1>1, <1>3, Zenon DEF u

(* A byte leaves the send buffer only for an acknowledgement of it. *)
AckTaken(e, t, u, S, P, F, g, r) ==
    /\ u \in Tcbs /\ Good(e, u, S, P, F, g) /\ RcvSame(t, u)
    /\ u.state = t.state /\ u.closed = t.closed
    /\ S - Len(u.buf) <= r /\ S - Len(u.buf) <= S

LEMMA AckedGood ==
    ASSUME NEW e \in End, NEW t \in Tcbs, NEW S \in 0 .. Total[e], NEW P, NEW F, NEW g,
           Good(e, t, S, P, F, g), t.state \notin {"SYN_SENT", "SYN_RCVD"},
           NEW s, NEW r \in 0 .. S + 1, s.ack = Pos(e, 1 + r), s.ack \in Int, NewAck(t, s)
    PROVE  AckTaken(e, t, Acked(t, s), S, P, F, g, r)
<1> USE DEF AckTaken
<1> DEFINE adv == Diff(s.ack, t.una)
           n == Least(IF t.fsent /\ s.ack = t.nxt THEN adv - 1 ELSE adv, Len(t.buf))
           bb == SubSeq(t.buf, n + 1, Len(t.buf))
           tm == s.ack # t.nxt
           v == [t EXCEPT !.buf = bb, !.una = s.ack, !.timer = tm]
<1>0. Acked(t, s) = tcb_wake(v)
      BY Zenon DEF Acked
<1>1. t.buf \in Seq(Nat) /\ t.una \in Int /\ t.nxt \in Int
      BY Zenon DEF Tcbs
<1>2. Snd(e, t, S) /\ Rcv(e, t, P, F, g)
      BY Zenon DEF Good
<1>3. PICK b \in Nat : b = Len(t.buf) /\ b <= S
  <2>1. Len(t.buf) \in Nat
        BY <1>1, SMTT(30)
  <2> QED BY <1>2, <2>1, Zenon DEF Snd
<1>4. Piece(t.buf, S - b)
      BY <1>2, <1>3, Zenon DEF Snd
<1>5. S \in Nat /\ r \in Nat /\ r <= S + 1 /\ 1 + r \in Near /\ 1 + S \in Near /\ 2 + S \in Near /\ 1 \in Near
      /\ 0 \in Near /\ \A k \in 0 .. S + 2 : k \in Near
  <2>1. S \in Nat /\ 1 \in Near /\ 1 + S \in Near /\ 2 + S \in Near /\ \A k \in 0 .. S + 2 : k \in Near
        BY Sizes, Zenon
  <2>2. r \in Nat /\ r <= S + 1 /\ 1 + r \in 0 .. S + 2 /\ 0 \in 0 .. S + 2
        BY <2>1, SMTT(30)
  <2> QED BY <2>1, <2>2, Zenon
<1>u. b = Len(t.buf)
      BY <1>3, Zenon
<1>i. S \in Nat /\ r \in Nat /\ r <= S + 1 /\ b <= S
      BY <1>3, <1>5, Zenon
<1>n. 1 + r \in Near
      BY <1>5, Zenon
<1>6. ASSUME NEW c \in 0 .. b, n = c, Snd(e, v, S)
      PROVE  LET u == Acked(t, s)
             IN  /\ u \in Tcbs /\ Good(e, u, S, P, F, g) /\ RcvSame(t, u)
                 /\ u.state = t.state /\ u.closed = t.closed /\ Len(u.buf) = b - c
  <2>1. bb \in Seq(Nat) /\ Len(bb) = b - c
    <3> HIDE DEF n
    <3>1. bb = SubSeq(t.buf, c + 1, Len(t.buf)) /\ c \in 0 .. Len(t.buf) /\ S - b \in Int
          BY <1>3, <1>5, <1>6, SMTT(60)
    <3>2. LET u == SubSeq(t.buf, c + 1, Len(t.buf)) IN u \in Seq(Nat) /\ Len(u) = Len(t.buf) - c
          BY <1>1, <1>4, <3>1, PieceTail, Zenon
    <3> QED BY <1>3, <3>1, <3>2, Zenon
  <2>2. v \in Tcbs /\ RcvSame(t, v) /\ v.state = t.state /\ v.closed = t.closed /\ v.buf = bb
    <3> HIDE DEF bb
    <3>1. tm \in BOOLEAN
          BY Zenon
    <3> HIDE DEF tm
    <3> QED BY <3>1, <2>1, Zenon DEF Tcbs, RcvSame
  <2> HIDE DEF v, bb
  <2>3. Rcv(e, v, P, F, g)
        BY <1>2, <2>2, RcvKeeps, Zenon
  <2>4. /\ tcb_wake(v) \in Tcbs /\ Good(e, tcb_wake(v), S, P, F, g)
        /\ SndSame(v, tcb_wake(v)) /\ RcvSame(v, tcb_wake(v)) /\ tcb_wake(v).state = v.state
        BY <1>6, <2>2, <2>3, WakeGood, Zenon
  <2> QED BY <1>0, <2>1, <2>2, <2>4, Zenon DEF SndSame, RcvSame
<1>v. /\ v.una = s.ack /\ v.nxt = t.nxt /\ v.fsent = t.fsent /\ v.psyn = t.psyn /\ v.pfin = t.pfin
      /\ v.closed = t.closed /\ v.timer = (s.ack # t.nxt) /\ v.buf = bb /\ v.state = t.state
  <2> HIDE DEF bb
  <2> QED BY Zenon DEF Tcbs
<1>w. ASSUME NEW a \in Near, t.una = Pos(e, a) PROVE adv = (1 + r) - a
  <2>1. Diff(Pos(e, 1 + r), Pos(e, a)) = (1 + r) - a
        BY <1>n, PosDiff, Zenon
  <2> QED BY <2>1, <1>w, Zenon
<1>x. ASSUME NEW a \in Near, t.nxt = Pos(e, a) PROVE (1 + r) - a <= 0
  <2>1. Diff(Pos(e, 1 + r), Pos(e, a)) = (1 + r) - a
        BY <1>n, PosDiff, Zenon
  <2> QED BY <2>1, <1>x, Zenon DEF NewAck
<1>y. adv > 0
      BY Zenon DEF NewAck
<1> HIDE DEF adv
<1>z. ASSUME NEW c \in 0 .. b, n = c, S - b + c <= S
      PROVE  /\ Len(v.buf) = b - c /\ Len(v.buf) <= S /\ Len(v.buf) <= TCP_SNDBUF
             /\ Piece(v.buf, S - Len(v.buf)) /\ (c = b => v.buf = <<>>)
  <2>0. c \in 0 .. Len(t.buf) /\ S - b \in Int /\ bb = SubSeq(t.buf, c + 1, Len(t.buf))
    <3> HIDE DEF n
    <3> QED BY <1>3, <1>5, <1>z, SMTT(30)
  <2>1. bb \in Seq(Nat) /\ Len(bb) = b - c /\ Piece(bb, S - b + c)
    <3> HIDE DEF bb
    <3>2. LET u == SubSeq(t.buf, c + 1, Len(t.buf))
          IN  u \in Seq(Nat) /\ Len(u) = Len(t.buf) - c /\ Piece(u, S - b + c)
          BY <1>1, <1>4, <2>0, PieceTail, Zenon
    <3> QED BY <1>3, <2>0, <3>2, Zenon
  <2>2. S - b + c = S - (b - c) /\ b - c <= S
        BY <1>3, <1>5, SMTT(30)
  <2>3. b - c <= TCP_SNDBUF
    <3>1. b <= TCP_SNDBUF
          BY <1>2, <1>3, Zenon DEF Snd
    <3> QED BY <3>1, TcpAssumption, SMTT(30)
  <2> HIDE DEF bb, v
  <2>4. c = b => bb = <<>>
        BY <2>1, SMTT(30)
  <2> QED BY <1>v, <2>1, <2>2, <2>3, <2>4, Zenon
<1> HIDE DEF v
<1>7. CASE DataOut(e, t, S)
  <2>1. PICK m \in 0 .. b : t.nxt = Pos(e, 1 + S - b + m) /\ t.una = Pos(e, 1 + S - b) /\ ~t.fsent
        BY <1>3, <1>7, Zenon DEF DataOut
  <2>2. 1 + S - b + m \in 0 .. S + 2 /\ 1 + S - b \in 0 .. S + 2
        BY <1>i, SMTT(30)
  <2>3. (1 + r) - (1 + S - b + m) <= 0 /\ adv = (1 + r) - (1 + S - b)
        BY <1>5, <1>w, <1>x, <2>1, <2>2, Zenon
  <2>4. PICK c \in 0 .. m : c = r - (S - b)
        BY <1>i, <1>y, <2>3, SMTT(30)
  <2>f. ~t.fsent
        BY <2>1, Zenon
  <2>5. n = c /\ c \in 0 .. b /\ S - b + c <= S
    <3>1. n = Least(adv, b)
          BY <1>u, <2>f, Zenon
    <3> HIDE DEF n
    <3> QED BY <1>i, <2>3, <2>4, <3>1, SMTT(30) DEF Least
  <2> HIDE DEF n
  <2>6. /\ Len(v.buf) = b - c /\ Len(v.buf) <= S /\ Len(v.buf) <= TCP_SNDBUF /\ Piece(v.buf, S - Len(v.buf))
        BY <1>z, <2>5, Zenon
  <2>7. /\ 1 + S - (b - c) = 1 + r /\ m - c \in 0 .. b - c
        /\ 1 + S - (b - c) + (m - c) = 1 + S - b + m
        BY <1>i, <2>4, SMTT(30)
  <2>8. DataOut(e, v, S)
        BY <1>7, <1>v, <2>1, <2>6, <2>7, Zenon DEF DataOut
  <2>9. Snd(e, v, S)
        BY <1>2, <1>v, <2>6, <2>8, Zenon DEF Snd
  <2>10. S - (b - c) <= r /\ S - (b - c) <= S
        BY <1>i, <2>4, <2>5, SMTT(30)
  <2> QED BY <1>6, <2>5, <2>9, <2>10, Zenon
<1>8. CASE SynOut(e, t, S) \/ FinOut(e, t, S)
  <2>1. b = 0
    <3>1. S = 0 \/ t.buf = <<>>
          BY <1>8, Zenon DEF SynOut, FinOut
    <3> QED BY <3>1, <1>3, SMTT(30)
  <2>2. adv = 1 /\ r = (IF t.fsent THEN S + 1 ELSE 0) /\ (~t.fsent => S = 0 /\ t.nxt = Pos(e, 1))
    <3>1. CASE SynOut(e, t, S)
      <4>1. adv = (1 + r) - 0 /\ (1 + r) - 1 <= 0 /\ S = 0 /\ ~t.fsent /\ t.nxt = Pos(e, 1)
            BY <3>1, <1>5, <1>w, <1>x, Zenon DEF SynOut
      <4> QED BY <4>1, <1>5, SMTT(30)
    <3>2. CASE FinOut(e, t, S)
      <4>1. adv = (1 + r) - (1 + S) /\ t.fsent
            BY <3>2, <1>5, <1>w, Zenon DEF FinOut
      <4> QED BY <4>1, <1>5, <1>y, SMTT(30)
    <3> QED BY <3>1, <3>2, <1>8, Zenon
  <2>3. n = 0 /\ 0 \in 0 .. b /\ S - b + 0 <= S
        BY <1>3, <1>5, <2>1, <2>2, SMTT(30) DEF Least
  <2> HIDE DEF n
  <2>4. /\ Len(v.buf) = b - 0 /\ Len(v.buf) <= S /\ Len(v.buf) <= TCP_SNDBUF /\ Piece(v.buf, S - Len(v.buf))
        /\ v.buf = <<>>
        BY <1>z, <2>1, <2>3, Zenon
  <2>5. DataOut(e, v, S) \/ FinAcked(e, v, S)
    <3>1. CASE t.fsent
      <4>1. 1 + r = 2 + S
            BY <1>5, <2>2, <3>1, SMTT(30)
      <4>2. t.nxt = Pos(e, 2 + S)
            BY <1>8, <3>1, Zenon DEF SynOut, FinOut
      <4> QED BY <3>1, <4>1, <4>2, <1>v, <2>4, Zenon DEF FinAcked
    <3>2. CASE ~t.fsent
      <4>1. 1 + r = 1 /\ 1 + S - Len(v.buf) = 1 /\ 0 \in 0 .. Len(v.buf) /\ 1 + S - Len(v.buf) + 0 = 1
            BY <1>5, <2>1, <2>2, <2>4, <3>2, SMTT(30)
      <4> QED BY <3>2, <4>1, <1>v, <2>2, Zenon DEF DataOut
    <3> QED BY <3>1, <3>2, Zenon
  <2>6. Snd(e, v, S)
        BY <1>2, <1>v, <2>4, <2>5, Zenon DEF Snd
  <2>7. S - (b - 0) <= r /\ S - (b - 0) <= S
        BY <1>5, <2>1, <2>2, SMTT(30)
  <2> QED BY <1>6, <2>3, <2>6, <2>7, Zenon
<1>9. CASE FinAcked(e, t, S)
  <2>1. adv = (1 + r) - (2 + S)
        BY <1>9, <1>5, <1>w, Zenon DEF FinAcked
  <2> QED BY <2>1, <1>5, <1>y, SMTT(30)
<1> QED BY <1>2, <1>7, <1>8, <1>9, Zenon DEF Snd

LEMMA ClosingGood ==
    ASSUME NEW e, NEW t \in Tcbs, NEW S, NEW P, NEW F, NEW g,
           Good(e, t, S, P, F, g), t.state \notin {"SYN_SENT", "SYN_RCVD"}
    PROVE  LET u == Closing(t)
           IN  /\ u \in Tcbs /\ Good(e, u, S, P, F, g) /\ RcvSame(t, u) /\ SndSame(t, u)
               /\ u.state \notin {"SYN_SENT", "SYN_RCVD"}
<1> DEFINE v(st) == [t EXCEPT !.state = st]
<1>1. ASSUME NEW st \in {"FIN_WAIT2", "CLOSED"},
             t.state = IF st = "FIN_WAIT2" THEN "FIN_WAIT1" ELSE "LAST_ACK"
      PROVE  /\ v(st) \in Tcbs /\ Good(e, v(st), S, P, F, g) /\ RcvSame(t, v(st)) /\ SndSame(t, v(st))
             /\ v(st).state \notin {"SYN_SENT", "SYN_RCVD"}
  <2> DEFINE u == v(st)
  <2>0. st \in States
        BY Zenon DEF States
  <2>1. /\ u \in Tcbs /\ RcvSame(t, u) /\ SndSame(t, u) /\ u.state = st
        /\ u.sleep = t.sleep /\ u.reset = t.reset
        BY <2>0, Zenon DEF Tcbs, RcvSame, SndSame
  <2> HIDE DEF u
  <2>2. st \notin {"SYN_SENT", "SYN_RCVD", "ESTABLISHED", "FIN_WAIT1", "NONE", "FREED"} /\ t.state \in {"FIN_WAIT1", "LAST_ACK"}
        BY <1>1, Zenon
  <2>3. Snd(e, u, S)
    <3>1. ~t.psyn /\ ~SynOut(e, t, S)
          BY <2>2, Zenon DEF Good, Snd, SynOut
    <3>2. DataOut(e, u, S) \/ FinOut(e, u, S) \/ FinAcked(e, u, S)
          BY <2>1, <2>2, <3>1, Zenon DEF Good, Snd, DataOut, FinOut, FinAcked, SndSame
    <3> QED BY <2>1, <3>1, <3>2, Zenon DEF Good, Snd, SndSame
  <2>4. Rcv(e, u, P, F, g)
    <3>1. t.fin => st \notin Receiving \cup {"SYN_RCVD"}
          BY <1>1, <2>2, Zenon DEF Good, Rcv, Receiving
    <3>2. Top(u, g) = Top(t, g)
          BY <2>1, Zenon DEF Top, RcvSame
    <3> QED BY <2>1, <2>2, <3>1, <3>2, Zenon DEF Good, Rcv, RcvSame
  <2>5. Asleep(u)
        BY <2>1, <2>2, Zenon DEF Good, Asleep, RcvSame, SndSame
  <2>6. /\ u \in Tcbs /\ Good(e, u, S, P, F, g) /\ RcvSame(t, u) /\ SndSame(t, u)
        /\ u.state \notin {"SYN_SENT", "SYN_RCVD"}
        BY <2>1, <2>2, <2>3, <2>4, <2>5, Zenon DEF Good
  <2> QED BY <2>6, Zenon DEF u
<1>2. CASE Closing(t) = v("FIN_WAIT2") /\ t.state = "FIN_WAIT1"
      BY <1>1, <1>2, Zenon
<1>3. CASE Closing(t) = v("CLOSED") /\ t.state = "LAST_ACK"
      BY <1>1, <1>3, Zenon
<1>4. CASE Closing(t) = t
      BY <1>4, Zenon DEF RcvSame, SndSame
<1> QED BY <1>2, <1>3, <1>4, Zenon DEF Closing

(* A segment stays what it is while its sender receives. *)
LEMMA SegUp ==
    ASSUME NEW e, NEW s, NEW S, NEW closed, NEW P, NEW F, NEW top \in Int, NEW u \in Int, top <= u,
           SegBy(e, s, S, closed, P, F, top)
    PROVE  SegBy(e, s, S, closed, P, F, u)
<1>1. \A r \in 0 .. top : r \in 0 .. u
      BY SMTT(30)
<1> QED BY <1>1, Zenon DEF SegBy

(* What each part of tcp_input leaves, when the peer has taken L bytes. *)
Fine(e, u, S, P, F, g, L) == /\ u \in Tcbs /\ Good(e, u, S, P, F, g) /\ S - Len(u.buf) <= L
                             /\ u.state \notin {"SYN_SENT", "SYN_RCVD"}
Up(t, u, g) == u.closed = t.closed /\ Top(t, g) <= Top(u, g) /\ Len(t.rx) <= Len(u.rx)

LEMMA TopInt ==
    ASSUME NEW t \in Tcbs, NEW g \in Seq(Nat)
    PROVE  Top(t, g) \in Nat /\ Len(t.rx) \in Nat /\ Len(t.buf) \in Nat
<1>1. t.rx \in Seq(Nat) /\ t.fin \in BOOLEAN /\ t.buf \in Seq(Nat)
      BY Zenon DEF Tcbs
<1>2. Len(t.rx) \in Nat /\ Len(t.buf) \in Nat /\ Len(g) \in Nat
      BY <1>1, SMTT(30)
<1>3. PICK x \in {0, 1} : x = IF t.fin THEN 1 ELSE 0
      BY Zenon
<1>4. Len(g) + Len(t.rx) + x \in Nat
      BY <1>2, SMTT(30)
<1> QED BY <1>2, <1>3, <1>4, Zenon DEF Top

LEMMA UpSame ==
    ASSUME NEW t \in Tcbs, NEW u \in Tcbs, NEW g \in Seq(Nat), RcvSame(t, u), u.closed = t.closed
    PROVE  Up(t, u, g) /\ Top(u, g) = Top(t, g)
<1>1. Top(u, g) = Top(t, g) /\ Len(u.rx) = Len(t.rx)
      BY Zenon DEF RcvSame, Top
<1>2. Top(t, g) \in Nat /\ Len(t.rx) \in Nat
      BY TopInt, Zenon
<1>3. Top(t, g) <= Top(t, g) /\ Len(t.rx) <= Len(t.rx)
      BY <1>2, SMTT(30)
<1> QED BY <1>1, <1>3, Zenon DEF Up

(* An acknowledgement of up to r - 1 bytes, and of the FIN if r is S + 1. *)
Acks(e, s, S, L) == "ACK" \in s.fl => \E r \in 0 .. S + 1 : s.ack = Pos(e, 1 + r) /\ (r <= L \/ L = S)

LEMMA InputAckGood ==
    ASSUME NEW e \in End, NEW t, NEW S \in 0 .. Total[e], NEW P \in 0 .. Total[Peer(e)],
           NEW F \in BOOLEAN, NEW g \in Seq(Nat), NEW L \in Nat, Fine(e, t, S, P, F, g, L),
           NEW s \in Segs, Acks(e, s, S, L), NEW third \in BOOLEAN
    PROVE  LET a == InputAck(e, t, s, third)
           IN  /\ Fine(e, a.t, S, P, F, g, L) /\ Up(t, a.t, g)
               /\ \A x \in a.out : SegBy(e, x, S, t.closed, P, F, Top(a.t, g))
<1> DEFINE rr == IF NewAck(t, s) THEN Done(Acked(t, s), {})
                 ELSE IF DupAck(t, s) /\ third THEN TrySend(e, Rewind(t), 5 * TCP_MSS)
                 ELSE Done(t, {})
           a == InputAck(e, t, s, third)
<1>0. t \in Tcbs /\ Good(e, t, S, P, F, g) /\ t.state \notin {"SYN_SENT", "SYN_RCVD"} /\ S - Len(t.buf) <= L
      BY Zenon DEF Fine
<1>1. CASE "ACK" \notin s.fl
  <2>1. a.t = t /\ a.out = {}
        BY <1>1, Zenon DEF InputAck, Done
  <2>2. Up(t, t, g)
        BY <1>0, UpSame, Zenon DEF RcvSame
  <2> QED BY <2>1, <2>2, Zenon
<1>2. CASE "ACK" \in s.fl
  <2>1. a.t = Closing(rr.t) /\ a.out = rr.out
        BY <1>2, Zenon DEF InputAck, Done
  <2>2. PICK r \in 0 .. S + 1 : s.ack = Pos(e, 1 + r) /\ (r <= L \/ L = S)
        BY <1>2, Zenon DEF Acks
  <2>3. s.ack \in Int
        BY Zenon DEF Segs
  <2>4. ASSUME NEW u, rr.t = u, u \in Tcbs, Good(e, u, S, P, F, g), RcvSame(t, u), u.state = t.state,
               u.closed = t.closed, S - Len(u.buf) <= L,
               \A x \in rr.out : SegBy(e, x, S, t.closed, P, F, Top(t, g))
        PROVE  /\ Fine(e, a.t, S, P, F, g, L) /\ Up(t, a.t, g)
               /\ \A x \in a.out : SegBy(e, x, S, t.closed, P, F, Top(a.t, g))
    <3> HIDE DEF rr, a
    <3> DEFINE w == Closing(u)
    <3>1. /\ w \in Tcbs /\ Good(e, w, S, P, F, g) /\ RcvSame(u, w) /\ SndSame(u, w)
          /\ w.state \notin {"SYN_SENT", "SYN_RCVD"}
          BY <1>0, <2>4, ClosingGood, Zenon
    <3>2. a.t = w
          BY <2>1, <2>4, Zenon
    <3> HIDE DEF w
    <3>3. RcvSame(t, w) /\ w.closed = t.closed /\ w.buf = u.buf
          BY <2>4, <3>1, Zenon DEF RcvSame, SndSame
    <3>4. Up(t, w, g) /\ Top(w, g) = Top(t, g)
          BY <1>0, <3>1, <3>3, UpSame, Zenon
    <3>5. Fine(e, w, S, P, F, g, L)
          BY <2>4, <3>1, <3>3, Zenon DEF Fine
    <3> QED BY <2>1, <2>4, <3>2, <3>4, <3>5, Zenon
  <2>5. CASE NewAck(t, s)
    <3> DEFINE u == Acked(t, s)
    <3>1. rr.t = u /\ rr.out = {}
          BY <2>5, Zenon DEF Done
    <3> HIDE DEF u, rr
    <3>2. /\ u \in Tcbs /\ Good(e, u, S, P, F, g) /\ RcvSame(t, u)
          /\ u.state = t.state /\ u.closed = t.closed /\ S - Len(u.buf) <= r /\ S - Len(u.buf) <= S
      <4> HIDE DEF a
      <4>1. AckTaken(e, t, Acked(t, s), S, P, F, g, r)
            BY <1>0, <2>2, <2>3, <2>5, AckedGood, Zenon
      <4>2. AckTaken(e, t, u, S, P, F, g, r)
            BY <4>1, Zenon DEF u
      <4> QED BY <4>2, Zenon DEF AckTaken
    <3>3. S - Len(u.buf) <= L
      <4>1. Len(u.buf) \in Nat /\ S \in Nat
            BY <3>2, TopInt, Sizes, Zenon
      <4> QED BY <2>2, <3>2, <4>1, SMTT(30)
    <3> QED BY <2>4, <3>1, <3>2, <3>3, Zenon
  <2>6. CASE ~NewAck(t, s) /\ DupAck(t, s) /\ third
    <3> DEFINE u == Rewind(t)
               z == TrySend(e, u, 5 * TCP_MSS)
    <3>1. rr = z
          BY <2>6, Zenon
    <3>2. DataOut(e, t, S) \/ FinOut(e, t, S)
      <4>1. ~FinAcked(e, t, S)
            BY <2>6, Zenon DEF DupAck, FinAcked
      <4>2. ~SynOut(e, t, S)
        <5>1. SynOut(e, t, S) => Pos(e, 0) = Pos(e, 1 + r)
              BY <2>2, <2>6, Zenon DEF DupAck, SynOut
        <5>2. 0 \in 0 .. S + 2 /\ 1 + r \in 0 .. S + 2 /\ 0 # 1 + r
              BY SMTT(30), Sizes
        <5>3. 0 \in Near /\ 1 + r \in Near
              BY <5>2, Sizes, Zenon
        <5> QED BY <5>1, <5>2, <5>3, PosSame, Zenon
      <4> QED BY <1>0, <4>1, <4>2, Zenon DEF Good, Snd
    <3>3. /\ u \in Tcbs /\ Good(e, u, S, P, F, g) /\ RcvSame(t, u)
          /\ u.buf = t.buf /\ u.state = t.state /\ u.closed = t.closed
          BY <1>0, <3>2, RewindGood, Zenon
    <3>4. 5 * TCP_MSS \in Int
          BY TcpAssumption, SMTT(60)
    <3> HIDE DEF u, rr
    <3>5. /\ z.t \in Tcbs /\ SendSame(u, z.t) /\ Good(e, z.t, S, P, F, g)
          /\ \A x \in z.out : SegBy(e, x, S, u.closed, P, F, Top(u, g))
          BY <3>3, <3>4, TrySendGood, Zenon
    <3>6. Top(u, g) = Top(t, g)
          BY <1>0, <3>3, UpSame, Zenon
    <3> HIDE DEF z
    <3>7. /\ RcvSame(t, z.t) /\ z.t.state = t.state /\ z.t.closed = t.closed /\ S - Len(z.t.buf) <= L
          BY <1>0, <3>3, <3>5, Zenon DEF SendSame, RcvSame
    <3> QED BY <2>4, <3>1, <3>3, <3>5, <3>6, <3>7, Zenon
  <2>7. CASE ~NewAck(t, s) /\ ~(DupAck(t, s) /\ third)
    <3>1. rr.t = t /\ rr.out = {}
          BY <2>7, Zenon DEF Done
    <3> HIDE DEF rr
    <3> QED BY <1>0, <2>4, <3>1, Zenon DEF RcvSame
  <2> QED BY <2>5, <2>6, <2>7, Zenon
<1> QED BY <1>1, <1>2, Zenon
-----------------------------------------------------------------------------
LEMMA PieceCat ==
    ASSUME NEW a \in Seq(Nat), NEW d \in Seq(Nat), NEW k \in Nat, Piece(a, k), Piece(d, k + Len(a)),
           NEW n \in 0 .. Len(d)
    PROVE  LET u == a \o SubSeq(d, 1, n)
           IN  u \in Seq(Nat) /\ Len(u) = Len(a) + n /\ Piece(u, k)
<1> DEFINE v == SubSeq(d, 1, n)
           u == a \o v
<1>1. v \in Seq(Nat) /\ Len(v) = n /\ \A i \in 1 .. n : v[i] = d[i]
      BY SMTT(30)
<1> HIDE DEF v
<1>2. /\ u \in Seq(Nat) /\ Len(u) = Len(a) + n
      /\ \A i \in 1 .. Len(a) + n : u[i] = IF i <= Len(a) THEN a[i] ELSE v[i - Len(a)]
  <2>1. v \in Seq(Nat) /\ Len(v) = n
        BY <1>1, Zenon
  <2>2. u \in Seq(Nat) /\ Len(u) = Len(a) + Len(v)
        BY <2>1, SMTT(30)
  <2>3. \A i \in 1 .. Len(a) + Len(v) : u[i] = IF i <= Len(a) THEN a[i] ELSE v[i - Len(a)]
        BY <2>1, SMTT(30)
  <2> QED BY <2>1, <2>2, <2>3, Zenon
<1> HIDE DEF u
<1>3. ASSUME NEW i \in 1 .. Len(u) PROVE u[i] = k + i
  <2>1. CASE i <= Len(a)
    <3>1. i \in 1 .. Len(a) /\ u[i] = a[i]
          BY <1>2, <2>1, SMTT(30)
    <3> QED BY <3>1, Zenon DEF Piece
  <2>2. CASE ~(i <= Len(a))
    <3>1. i - Len(a) \in 1 .. n /\ i - Len(a) \in 1 .. Len(d) /\ k + Len(a) + (i - Len(a)) = k + i
          BY <1>2, <2>2, SMTT(60)
    <3>2. u[i] = v[i - Len(a)]
          BY <1>2, <2>2, SMTT(30)
    <3>3. v[i - Len(a)] = d[i - Len(a)] /\ d[i - Len(a)] = k + Len(a) + (i - Len(a))
          BY <1>1, <3>1, Zenon DEF Piece
    <3> QED BY <3>1, <3>2, <3>3, Zenon
  <2> QED BY <2>1, <2>2, Zenon
<1>4. Piece(u, k)
      BY <1>3, Zenon DEF Piece
<1> QED BY <1>2, <1>4, Zenon DEF u, v

(* What the receiving functions leave alone. *)
Same(t, u) == /\ SndSame(t, u) /\ u.state = t.state /\ u.fin = t.fin /\ u.reset = t.reset
              /\ u.sleep = t.sleep /\ u.opts = t.opts /\ u.wnd = t.wnd

LEMMA PushGood ==
    ASSUME NEW e \in End, NEW t \in Tcbs, NEW P \in 0 .. Total[Peer(e)], NEW F, NEW g \in Seq(Nat),
           Rcv(e, t, P, F, g), ~t.fin, t.state # "SYN_SENT", NEW d \in Seq(Nat),
           Piece(d, Len(g) + Len(t.rx)), Len(g) + Len(t.rx) + Len(d) <= P
    PROVE  LET u == rcv_push(t, d)
           IN  u \in Tcbs /\ Rcv(e, u, P, F, g) /\ Same(t, u) /\ u.ooo = t.ooo /\ Len(t.rx) <= Len(u.rx)
<1> DEFINE n == Least(Len(d), TCP_RCVBUF - Len(t.rx))
           x == t.rx \o SubSeq(d, 1, n)
           y == Plus(t.rcv, n)
           u == [t EXCEPT !.rx = x, !.rcv = y]
<1>0. rcv_push(t, d) = u
      BY Zenon DEF rcv_push
<1>1. t.rx \in Seq(Nat) /\ t.rcv \in Int
      BY Zenon DEF Tcbs
<1>2. Len(t.rx) <= TCP_RCVBUF /\ Len(g) + Len(t.rx) <= P /\ Piece(t.rx, Len(g))
      BY Zenon DEF Rcv
<1>3. PICK h \in Nat : h = Len(g)
      BY SMTT(30)
<1>4. PICK l \in Nat : l = Len(t.rx)
      BY <1>1, SMTT(30)
<1>5. PICK m \in Nat : m = Len(d)
      BY SMTT(30)
<1>6. n \in 0 .. Len(d) /\ l + n <= TCP_RCVBUF /\ h + l + n <= P /\ n \in Nat
  <2>1. l <= TCP_RCVBUF /\ h + l + m <= P /\ n = Least(m, TCP_RCVBUF - l)
        BY <1>2, <1>3, <1>4, <1>5, Zenon
  <2>2. n \in 0 .. m /\ l + n <= TCP_RCVBUF /\ h + l + n <= P /\ n \in Nat
    <3>0. TCP_RCVBUF \in Nat
          BY TcpAssumption, Zenon
    <3>1. TCP_RCVBUF - l \in Nat
          BY <2>1, <3>0, SMT
    <3>2. n \in Nat /\ n <= m /\ n <= TCP_RCVBUF - l
          BY <2>1, <3>1, LeastOf, Zenon
    <3>3. P \in Nat
          BY Consts, Sizes, Zenon
    <3> HIDE DEF n
    <3> QED BY <2>1, <3>0, <3>2, <3>3, SMTT(60)
  <2> HIDE DEF n
  <2> QED BY <2>2, <1>5, Zenon
<1> HIDE DEF n
<1>7. x \in Seq(Nat) /\ Len(x) = l + n /\ Piece(x, h)
  <2>1. LET w == t.rx \o SubSeq(d, 1, n) IN w \in Seq(Nat) /\ Len(w) = Len(t.rx) + n /\ Piece(w, Len(g))
        BY <1>1, <1>2, <1>3, <1>6, PieceCat, Zenon
  <2> QED BY <2>1, <1>3, <1>4, Zenon
<1> HIDE DEF x
<1>8. t.rcv = Pos(Peer(e), 1 + (h + l)) /\ y = Pos(Peer(e), 1 + (h + l + n))
  <2>1. Top(t, g) = h + l + 0
        BY <1>3, <1>4, Zenon DEF Top
  <2>2. h + l + 0 = h + l /\ 1 + (h + l + n) = 1 + (h + l) + n
        BY <1>6, SMTT(30)
  <2>3. t.rcv = Pos(Peer(e), 1 + (h + l))
        BY <2>1, <2>2, Zenon DEF Rcv
  <2>4. Peer(e) \in End /\ P \in Nat
        BY Consts, Sizes, Zenon
  <2>5. 1 + (h + l) \in 0 .. P + 2 /\ n \in 0 .. P + 2
        BY <1>6, <2>4, SMTT(30)
  <2>6. 1 + (h + l) \in Near /\ n \in Near
        BY <2>4, <2>5, Sizes, Zenon
  <2> QED BY <2>2, <2>3, <2>4, <2>6, PosPlus, ZenonT(60)
<1>9. y \in Int
      BY <1>1, <1>6, Consts, SMTT(60) DEF Plus
<1> HIDE DEF y
<1>10. u \in Tcbs /\ Same(t, u) /\ u.ooo = t.ooo /\ u.rx = x /\ u.rcv = y
      BY <1>7, <1>9, Zenon DEF Tcbs, Same, SndSame
<1> HIDE DEF u
<1>11. Top(u, g) = h + l + n
  <2>1. Top(u, g) = h + (l + n) + 0
        BY <1>3, <1>7, <1>10, Zenon DEF Top, Same
  <2> QED BY <2>1, <1>6, SMTT(30)
<1>12. h + (l + n) <= P /\ l <= l + n
      BY <1>6, Sizes, Consts, SMTT(30)
<1>13. Rcv(e, u, P, F, g)
      BY <1>3, <1>6, <1>7, <1>8, <1>10, <1>11, <1>12, Zenon DEF Rcv, Same
<1> QED BY <1>0, <1>4, <1>7, <1>10, <1>12, <1>13, Zenon

(* A set of numbers up to some bound that is closed downwards has a largest. *)
LEMMA Largest ==
    ASSUME NEW M \in Nat, NEW T \in SUBSET (0 .. M), 0 \in T, \A k \in T : \A j \in 0 .. k : j \in T
    PROVE  \E m \in T : \A k \in T : k <= m
<1> DEFINE R == {r \in Nat \X Nat : r[1] < r[2]}
           U == {i \in Nat : i \notin T}
<1>1. IsWellFoundedOn(R, Nat)
      BY NatLessThanWellFounded, Zenon DEF OpToRel
<1>2. U \subseteq Nat /\ U # {}
  <2>1. M + 1 \in Nat /\ M + 1 \notin 0 .. M
        BY SMT
  <2> QED BY <2>1, Zenon
<1>3. PICK x \in U : \A y \in U : <<y, x>> \notin R
  <2> HIDE DEF R, U
  <2> QED BY <1>1, <1>2, WFMin, Zenon
<1>4. \A y \in Nat : y < x => y \in T
  <2> SUFFICES ASSUME NEW y \in Nat, y < x, y \notin T PROVE FALSE
      BY Zenon
  <2>1. y \in U /\ <<y, x>> \in Nat \X Nat
        BY Zenon
  <2>2. <<y, x>> \in R
    <3>1. <<y, x>>[1] = y /\ <<y, x>>[2] = x
          BY Zenon
    <3> QED BY <2>1, <3>1, Zenon
  <2> QED BY <1>3, <2>1, <2>2, Zenon
<1>5. x - 1 \in Nat /\ x - 1 < x
      BY SMT
<1>6. \A k \in T : k \in Nat /\ x \notin 0 .. k
  <2>1. \A k \in T : k \in Nat
        BY SMT
  <2> QED BY <2>1, Zenon
<1>7. \A k \in T : k <= x - 1
      BY <1>5, <1>6, SMT
<1> QED BY <1>4, <1>5, <1>7, Zenon

(* What ooo_drain appends is what comes next in the stream. *)
LEMMA HeldByte ==
    ASSUME NEW e \in End, NEW t \in Tcbs, NEW P \in 0 .. Total[Peer(e)], NEW R \in 0 .. P,
           t.rcv = Pos(Peer(e), 1 + R), \A q \in t.ooo : Early(e, q, P), NEW i \in 0 .. P - R,
           NEW q \in Holding(t, Plus(t.rcv, i))
    PROVE  R + i < P /\ q.data[Diff(Plus(t.rcv, i), q.seq) + 1] = R + i + 1
<1>0. Peer(e) \in End /\ P \in Nat /\ \A k \in 0 .. P + 2 : k \in Near
      BY Consts, Sizes, Zenon
<1>1. 1 + R \in 0 .. P + 2 /\ i \in 0 .. P + 2 /\ 1 + R + i \in 0 .. P + 2
      BY <1>0, SMTT(30)
<1>2. Plus(t.rcv, i) = Pos(Peer(e), 1 + R + i)
      BY <1>0, <1>1, PosPlus, ZenonT(60)
<1>3. q \in t.ooo /\ Diff(Plus(t.rcv, i), q.seq) \in 0 .. Len(q.data) - 1
      BY Zenon DEF Holding
<1>4. q.data \in Seq(Nat)
  <2>1. t.ooo \subseteq [seq : Int, data : Seq(Nat)]
        BY Zenon DEF Tcbs
  <2> QED BY <1>3, <2>1, Zenon
<1>5. PICK l \in Nat : l = Len(q.data)
      BY <1>4, SMTT(30)
<1>6. PICK k \in Nat : q.seq = Pos(Peer(e), 1 + k) /\ Piece(q.data, k) /\ k + Len(q.data) <= P
      BY <1>3, Zenon DEF Early
<1>7. 1 + k \in 0 .. P + 2
  <2>1. k + l <= P
        BY <1>5, <1>6, Zenon
  <2> QED BY <1>0, <2>1, SMTT(30)
<1>8. Diff(Plus(t.rcv, i), q.seq) = (1 + R + i) - (1 + k)
      BY <1>0, <1>1, <1>2, <1>6, <1>7, PosDiff, ZenonT(60)
<1>9. PICK c \in 0 .. l - 1 : c = Diff(Plus(t.rcv, i), q.seq)
      BY <1>3, <1>5, Zenon
<1>10. k + l <= P /\ c = (1 + R + i) - (1 + k)
      BY <1>5, <1>6, <1>8, <1>9, Zenon
<1>11. R + i < P /\ c + 1 \in 1 .. l /\ k + (c + 1) = R + i + 1
      BY <1>0, <1>10, SMTT(30)
<1>12. q.data[c + 1] = k + (c + 1)
      BY <1>5, <1>6, <1>11, Zenon DEF Piece
<1> QED BY <1>9, <1>11, <1>12, Zenon

LEMMA DrainGood ==
    ASSUME NEW e \in End, NEW t \in Tcbs, NEW P \in 0 .. Total[Peer(e)], NEW F, NEW g \in Seq(Nat),
           Rcv(e, t, P, F, g), ~t.fin, t.state # "SYN_SENT"
    PROVE  LET u == ooo_drain(t)
           IN  u \in Tcbs /\ Rcv(e, u, P, F, g) /\ Same(t, u) /\ Len(t.rx) <= Len(u.rx)
<1> DEFINE M == TCP_RCVBUF * TCP_OOO_MAX
           run == {n \in 0..M : \A i \in 0..(n - 1) : Holding(t, Plus(t.rcv, i)) # {}}
           n == CHOOSE m \in run : \A k \in run : k <= m
           byte(p) == LET h == CHOOSE q \in Holding(t, p) : TRUE IN h.data[Diff(p, h.seq) + 1]
           d == [i \in 1..n |-> byte(Plus(t.rcv, i - 1))]
           u == rcv_push(t, d)
           oo == {q \in t.ooo : Diff(q.seq, u.rcv) > 0}
           v == [u EXCEPT !.ooo = oo]
<1>0. ooo_drain(t) = v
      BY Zenon DEF ooo_drain
<1>1. M \in Nat
      BY TcpAssumption, Z3T(30), SMTT(60)
<1>2. n \in run
  <2> HIDE DEF M
  <2>1. run \in SUBSET (0 .. M)
        BY Zenon
  <2>2. 0 \in run
    <3>1. 0 \in 0 .. M /\ 0 .. (0 - 1) = {}
          BY <1>1, SMTT(30)
    <3> QED BY <3>1, Zenon
  <2>3. ASSUME NEW k \in run, NEW j \in 0 .. k PROVE j \in run
    <3>1. k \in 0 .. M /\ \A i \in 0 .. (k - 1) : Holding(t, Plus(t.rcv, i)) # {}
          BY Zenon
    <3>2. j \in 0 .. M /\ \A i \in 0 .. (j - 1) : i \in 0 .. (k - 1)
          BY <1>1, <3>1, SMTT(30)
    <3> QED BY <3>1, <3>2, Zenon
  <2> HIDE DEF run
  <2>4. \E m \in run : \A k \in run : k <= m
        BY <1>1, <2>1, <2>2, <2>3, Largest, Zenon
  <2> QED BY <2>4, Zenon
<1>3. n \in Nat /\ \A i \in 0 .. (n - 1) : Holding(t, Plus(t.rcv, i)) # {}
  <2> HIDE DEF M, n
  <2>1. n \in 0 .. M /\ \A i \in 0 .. (n - 1) : Holding(t, Plus(t.rcv, i)) # {}
        BY <1>2, Zenon
  <2> QED BY <1>1, <2>1, SMTT(30)
<1> HIDE DEF n, run, M
<1>4. t.rx \in Seq(Nat) /\ Len(g) + Len(t.rx) <= P /\ \A q \in t.ooo : Early(e, q, P)
      BY Zenon DEF Tcbs, Rcv
<1>5. PICK R \in Nat : R = Len(g) + Len(t.rx)
      BY <1>4, SMTT(30)
<1>6. P \in Nat /\ R \in 0 .. P /\ Peer(e) \in End
  <2>1. P \in Nat /\ Peer(e) \in End /\ R <= P
        BY <1>4, <1>5, Consts, Sizes, Zenon
  <2> QED BY <2>1, SMTT(30)
<1>7. t.rcv = Pos(Peer(e), 1 + R)
  <2>1. Top(t, g) = R + 0 /\ R + 0 = R
    <3>1. Top(t, g) = R + 0
          BY <1>5, Zenon DEF Top
    <3> QED BY <3>1, <1>5, SMTT(30)
  <2> QED BY <2>1, Zenon DEF Rcv
<1>8. ASSUME NEW i \in 0 .. P - R, NEW q \in Holding(t, Plus(t.rcv, i))
      PROVE  R + i < P /\ q.data[Diff(Plus(t.rcv, i), q.seq) + 1] = R + i + 1
      BY <1>4, <1>6, <1>7, HeldByte, Zenon
<1>9. n <= P - R
  <2>1. SUFFICES ASSUME ~(n <= P - R) PROVE FALSE
        BY Zenon
  <2>2. P - R \in 0 .. P - R /\ P - R \in 0 .. (n - 1) /\ ~(R + (P - R) < P)
        BY <1>3, <1>6, <2>1, SMTT(30)
  <2> QED BY <1>3, <1>8, <2>2, Zenon
<1>10. ASSUME NEW i \in 1 .. n PROVE byte(Plus(t.rcv, i - 1)) = R + i
  <2>1. i - 1 \in 0 .. P - R /\ i - 1 \in 0 .. (n - 1) /\ R + (i - 1) + 1 = R + i
        BY <1>3, <1>6, <1>9, SMTT(30)
  <2>2. PICK h \in Holding(t, Plus(t.rcv, i - 1)) : byte(Plus(t.rcv, i - 1)) = h.data[Diff(Plus(t.rcv, i - 1), h.seq) + 1]
        BY <1>3, <2>1, Zenon
  <2> HIDE DEF byte
  <2> QED BY <1>8, <2>1, <2>2, Zenon
<1>11. d \in Seq(Nat) /\ Len(d) = n /\ Piece(d, R)
  <2> HIDE DEF byte
  <2>1. d = [i \in 1 .. n |-> R + i]
        BY <1>10, Zenon
  <2>2. \A i \in 1 .. n : R + i \in Nat
        BY <1>3, <1>5, SMTT(30)
  <2>3. d \in Seq(Nat) /\ Len(d) = n
        BY <1>3, <2>1, <2>2, SMTT(30)
  <2>4. \A i \in 1 .. n : d[i] = R + i
        BY <2>1, Zenon
  <2> QED BY <2>3, <2>4, Zenon DEF Piece
<1> HIDE DEF d
<1>12. u \in Tcbs /\ Rcv(e, u, P, F, g) /\ Same(t, u) /\ u.ooo = t.ooo /\ Len(t.rx) <= Len(u.rx)
  <2>1. R + n <= P
        BY <1>3, <1>6, <1>9, SMTT(30)
  <2>2. Piece(d, Len(g) + Len(t.rx)) /\ Len(g) + Len(t.rx) + Len(d) <= P
        BY <1>5, <1>11, <2>1, Zenon
  <2> QED BY <1>11, <2>2, PushGood, Zenon
<1> HIDE DEF u
<1>13. oo \subseteq t.ooo
      BY Zenon
<1> HIDE DEF oo
<1>14. v \in Tcbs /\ Same(u, v) /\ v.ooo = oo /\ v.rx = u.rx /\ v.rcv = u.rcv
  <2>1. oo \in SUBSET [seq : Int, data : Seq(Nat)]
        BY <1>13, Zenon DEF Tcbs
  <2> QED BY <1>12, <2>1, Zenon DEF Tcbs, Same, SndSame
<1> HIDE DEF v
<1>15. Rcv(e, v, P, F, g)
  <2>1. Top(v, g) = Top(u, g)
        BY <1>14, Zenon DEF Top, Same
  <2>2. \A q \in v.ooo : Early(e, q, P)
        BY <1>4, <1>13, <1>14, Zenon
  <2> QED BY <1>12, <1>14, <2>1, <2>2, Zenon DEF Rcv, Same
<1>16. Same(t, v)
      BY <1>12, <1>14, Zenon DEF Same, SndSame
<1> QED BY <1>0, <1>12, <1>14, <1>15, <1>16, Zenon

(* Where a control block stands in the stream of its peer. *)
At(e, t, P, g, R) == R \in 0 .. P /\ R = Len(g) + Len(t.rx) /\ t.rcv = Pos(Peer(e), 1 + R) /\ Top(t, g) = R
LEMMA RcvAt ==
    ASSUME NEW e \in End, NEW t \in Tcbs, NEW P \in 0 .. Total[Peer(e)], NEW F, NEW g \in Seq(Nat),
           Rcv(e, t, P, F, g), ~t.fin, t.state # "SYN_SENT"
    PROVE  \E R : At(e, t, P, g, R)
<1>1. t.rx \in Seq(Nat) /\ Len(g) + Len(t.rx) <= P
      BY Zenon DEF Tcbs, Rcv
<1>2. PICK R \in Nat : R = Len(g) + Len(t.rx)
      BY <1>1, SMTT(30)
<1>3. P \in Nat
      BY Consts, Sizes, Zenon
<1>4. R \in 0 .. P /\ R + 0 = R
      BY <1>1, <1>2, <1>3, SMTT(30)
<1>5. Top(t, g) = R
      BY <1>2, <1>4, Zenon DEF Top
<1> QED BY <1>2, <1>4, <1>5, Zenon DEF Rcv, At

LEMMA TakeGood ==
    ASSUME NEW e \in End, NEW t \in Tcbs, NEW S, NEW P \in 0 .. Total[Peer(e)], NEW F,
           NEW g \in Seq(Nat), Good(e, t, S, P, F, g), t.state \in Receiving,
           NEW s \in Segs, Content(Peer(e), s.seq, s.fl, s.data, P, F), s.data # <<>>,
           ~(Diff(t.rcv, s.seq) >= Len(s.data)), ~(Diff(t.rcv, s.seq) < 0)
    PROVE  LET u == Take(t, s)
           IN  u \in Tcbs /\ Good(e, u, S, P, F, g) /\ SndSame(t, u) /\ u.state = t.state /\ Up(t, u, g)
<1> DEFINE off == Diff(t.rcv, s.seq)
           d == SubSeq(s.data, off + 1, Len(s.data))
           u == rcv_push(t, d)
           v == ooo_drain(u)
<1>0. Take(t, s) = tcb_wake(v)
      BY Zenon DEF Take
<1>1. Snd(e, t, S) /\ Rcv(e, t, P, F, g) /\ ~t.fin /\ t.state # "SYN_SENT"
      BY Zenon DEF Good, Rcv, Receiving
<1>2. PICK R \in 0 .. P : R = Len(g) + Len(t.rx) /\ t.rcv = Pos(Peer(e), 1 + R) /\ Top(t, g) = R
  <2>1. PICK R : At(e, t, P, g, R)
        BY <1>1, RcvAt, Zenon
  <2> QED BY <2>1, Zenon DEF At
<1>3. PICK k \in Nat : s.seq = Pos(Peer(e), 1 + k) /\ Piece(s.data, k) /\ k + Len(s.data) <= P
      BY Zenon DEF Content
<1>4. s.data \in Seq(Nat)
      BY Zenon DEF Segs
<1>5. PICK l \in Nat : l = Len(s.data)
      BY <1>4, SMTT(30)
<1>6. Peer(e) \in End /\ P \in Nat /\ \A i \in 0 .. P + 2 : i \in Near
      BY Consts, Sizes, Zenon
<1>7. off = (1 + R) - (1 + k) /\ k + l <= P
  <2>1. k + l <= P
        BY <1>3, <1>5, Zenon
  <2>2. 1 + R \in 0 .. P + 2 /\ 1 + k \in 0 .. P + 2
        BY <2>1, <1>6, SMTT(30)
  <2> QED BY <1>2, <1>3, <1>6, <2>1, <2>2, PosDiff, Zenon
<1>8. off \in 0 .. l /\ ~(off >= l)
  <2>1. ~(off >= l) /\ ~(off < 0)
        BY <1>5, Zenon
  <2> HIDE DEF off
  <2> QED BY <1>6, <1>7, <2>1, SMTT(30)
<1> HIDE DEF off
<1>9. d \in Seq(Nat) /\ Len(d) = l - off /\ Piece(d, k + off)
  <2>1. k \in Int /\ off \in 0 .. Len(s.data)
        BY <1>5, <1>8, SMTT(30)
  <2>2. d \in Seq(Nat) /\ Len(d) = Len(s.data) - off /\ Piece(d, k + off)
        BY <1>3, <1>4, <2>1, PieceTail, Zenon
  <2> QED BY <1>5, <2>2, Zenon
<1> HIDE DEF d
<1>10. k + off = R /\ R + (l - off) <= P
      BY <1>6, <1>7, <1>8, SMTT(30)
<1>11. u \in Tcbs /\ Rcv(e, u, P, F, g) /\ Same(t, u) /\ Len(t.rx) <= Len(u.rx)
  <2>1. Piece(d, Len(g) + Len(t.rx)) /\ Len(g) + Len(t.rx) + Len(d) <= P
        BY <1>2, <1>9, <1>10, Zenon
  <2> QED BY <1>1, <1>9, <2>1, PushGood, Zenon
<1> HIDE DEF u
<1>12. ~u.fin /\ u.state # "SYN_SENT"
      BY <1>1, <1>11, Zenon DEF Same
<1>13. v \in Tcbs /\ Rcv(e, v, P, F, g) /\ Same(u, v) /\ Len(u.rx) <= Len(v.rx)
      BY <1>11, <1>12, DrainGood, Zenon
<1> HIDE DEF v
<1>14. Same(t, v)
      BY <1>11, <1>13, Zenon DEF Same, SndSame
<1>15. Snd(e, v, S)
      BY <1>1, <1>14, SndKeeps, Zenon DEF Same
<1> DEFINE w == tcb_wake(v)
<1>16. w \in Tcbs /\ Good(e, w, S, P, F, g) /\ SndSame(v, w) /\ RcvSame(v, w) /\ w.state = v.state
      BY <1>13, <1>15, WakeGood, Zenon
<1> HIDE DEF w
<1>17. SndSame(t, w) /\ w.state = t.state /\ w.closed = t.closed /\ ~w.fin /\ w.rx = v.rx
      BY <1>1, <1>14, <1>16, Zenon DEF Same, SndSame, RcvSame
<1>18. Up(t, w, g)
  <2>1. Len(t.rx) \in Nat /\ Len(u.rx) \in Nat /\ Len(v.rx) \in Nat /\ Len(g) \in Nat
    <3>1. Len(g) \in Nat
          BY SMTT(60)
    <3> QED BY <3>1, <1>11, <1>13, TopInt, Zenon
  <2>2. Len(t.rx) <= Len(v.rx) /\ Len(g) + Len(t.rx) + 0 <= Len(g) + Len(v.rx) + 0
        BY <1>11, <1>13, <2>1, SMTT(30)
  <2>3. Top(t, g) = Len(g) + Len(t.rx) + 0 /\ Top(w, g) = Len(g) + Len(v.rx) + 0
        BY <1>1, <1>17, Zenon DEF Top
  <2> QED BY <1>17, <2>2, <2>3, Zenon DEF Up
<1> QED BY <1>0, <1>16, <1>17, <1>18, Zenon DEF w

Inserted(e, t, u, S, P, F, g) == /\ u \in Tcbs /\ Good(e, u, S, P, F, g) /\ SndSame(t, u)
                                 /\ u.state = t.state /\ u.rx = t.rx /\ u.fin = t.fin
LEMMA InsertGood ==
    ASSUME NEW e \in End, NEW t \in Tcbs, NEW S, NEW P, NEW F, NEW g,
           Good(e, t, S, P, F, g), t.state # "SYN_SENT",
           NEW s \in Segs, Content(Peer(e), s.seq, s.fl, s.data, P, F), s.data # <<>>
    PROVE  Inserted(e, t, ooo_insert(t, s), S, P, F, g)
<1> DEFINE q0 == [seq |-> s.seq, data |-> s.data]
           oo == t.ooo \cup {q0}
           u == [t EXCEPT !.ooo = oo]
<1>1. CASE ooo_insert(t, s) = t
      BY <1>1, Zenon DEF SndSame, Inserted
<1>2. CASE ooo_insert(t, s) = u
  <2>1. s.seq \in Int /\ s.data \in Seq(Nat)
        BY Zenon DEF Segs
  <2>2. oo \in SUBSET [seq : Int, data : Seq(Nat)]
    <3>1. q0 \in [seq : Int, data : Seq(Nat)]
          BY <2>1, Zenon
    <3>2. t.ooo \in SUBSET [seq : Int, data : Seq(Nat)]
          BY Zenon DEF Tcbs
    <3> HIDE DEF q0
    <3> QED BY <3>1, <3>2, Zenon
  <2>3. Early(e, q0, P)
        BY Zenon DEF Content, Early
  <2>4. \A q \in oo : Early(e, q, P)
    <3> HIDE DEF q0
    <3> QED BY <2>3, Zenon DEF Good, Rcv
  <2> HIDE DEF oo
  <2>5. /\ u \in Tcbs /\ SndSame(t, u) /\ u.state = t.state /\ u.rx = t.rx /\ u.fin = t.fin
        /\ u.ooo = oo /\ u.rcv = t.rcv /\ u.reset = t.reset /\ u.sleep = t.sleep
        BY <2>2, Zenon DEF Tcbs, SndSame
  <2> HIDE DEF u
  <2>6. Snd(e, u, S)
    <3>1. Snd(e, t, S)
          BY Zenon DEF Good
    <3> QED BY <2>5, <3>1, SndKeeps, Zenon
  <2>7. Rcv(e, u, P, F, g)
    <3>1. Top(u, g) = Top(t, g)
          BY <2>5, Zenon DEF Top
    <3> QED BY <2>4, <2>5, <3>1, Zenon DEF Good, Rcv
  <2>8. Asleep(u)
        BY <2>5, Zenon DEF Good, Asleep, SndSame
  <2> QED BY <1>2, <2>5, <2>6, <2>7, <2>8, Zenon DEF Good, Inserted
<1> QED BY <1>1, <1>2, Zenon DEF ooo_insert

(* A FIN is taken when all that came before it has been. *)
LEMMA TakeFinGood ==
    ASSUME NEW e \in End, NEW t \in Tcbs, NEW S, NEW P \in 0 .. Total[Peer(e)], NEW F,
           NEW g \in Seq(Nat), Good(e, t, S, P, F, g), t.state \notin {"SYN_SENT", "SYN_RCVD"},
           NEW s \in Segs, Content(Peer(e), s.seq, s.fl, s.data, P, F), FinHere(t, s)
    PROVE  LET u == TakeFin(t)
           IN  /\ u \in Tcbs /\ Good(e, u, S, P, F, g) /\ SndSame(t, u) /\ Up(t, u, g)
               /\ u.state \notin {"SYN_SENT", "SYN_RCVD"}
<1> DEFINE st == CASE t.state = "ESTABLISHED" -> "CLOSE_WAIT"
                   [] t.state \in {"FIN_WAIT1", "FIN_WAIT2"} -> "TIME_WAIT"
                   [] OTHER -> t.state
           y == Plus(t.rcv, 1)
           v == [t EXCEPT !.rcv = y, !.fin = TRUE, !.state = st]
           u == tcb_wake(v)
<1>0. TakeFin(t) = u
      BY Zenon DEF TakeFin
<1>1. /\ st \in States /\ st \notin Receiving \cup {"SYN_RCVD"} /\ st # "SYN_SENT"
      /\ (t.state = "CLOSED" => st = "CLOSED") /\ st \notin {"NONE", "FREED"}
  <2>0. t.state \in States /\ t.state \notin {"NONE", "FREED"}
        BY Zenon DEF Tcbs, Good, Snd
  <2>1. CASE t.state = "ESTABLISHED"
    <3>1. st = "CLOSE_WAIT"
          BY <2>1, SMT
    <3> HIDE DEF st
    <3> QED BY <2>1, <3>1, Zenon DEF States, Receiving
  <2>2. CASE t.state \in {"FIN_WAIT1", "FIN_WAIT2"}
    <3>1. st = "TIME_WAIT"
          BY <2>2, SMT
    <3> HIDE DEF st
    <3> QED BY <2>2, <3>1, Zenon DEF States, Receiving
  <2>3. CASE t.state \notin {"ESTABLISHED", "FIN_WAIT1", "FIN_WAIT2"}
    <3>1. st = t.state
          BY <2>3, SMT
    <3> HIDE DEF st
    <3> QED BY <2>0, <2>3, <3>1, Zenon DEF Receiving
  <2> QED BY <2>1, <2>2, <2>3, Zenon
<1> HIDE DEF st
<1>2. Snd(e, t, S) /\ Rcv(e, t, P, F, g)
      BY Zenon DEF Good
<1>3. s.seq = Pos(Peer(e), 1 + P) /\ Plus(s.seq, Len(s.data)) = t.rcv /\ s.data = <<>> /\ F
      BY Zenon DEF Content, FinHere
<1>4. Peer(e) \in End /\ P \in Nat /\ 1 \in Near /\ 1 + P \in Near /\ 2 + P \in Near /\ \A k \in 0 .. P + 2 : k \in Near
      BY Consts, Sizes, Zenon
<1>5. t.rcv = Pos(Peer(e), 1 + P)
  <2>1. Len(s.data) = 0 /\ 1 + P + 0 = 1 + P /\ 0 \in 0 .. P + 2
        BY <1>3, <1>4, SMTT(30)
  <2>2. Plus(Pos(Peer(e), 1 + P), 0) = Pos(Peer(e), 1 + P + 0)
        BY <1>4, <2>1, PosPlus, ZenonT(60)
  <2> QED BY <1>3, <2>1, <2>2, Zenon
<1>6. ~t.fin
  <2>1. SUFFICES ASSUME t.fin PROVE FALSE
        BY Zenon
  <2>2. Top(t, g) = P + 1
        BY <1>2, <2>1, Zenon DEF Top, Rcv
  <2>3. 1 + (P + 1) = 2 + P /\ 2 + P # 1 + P
        BY <1>4, SMTT(30)
  <2>4. Pos(Peer(e), 2 + P) = Pos(Peer(e), 1 + P)
        BY <1>2, <1>5, <2>2, <2>3, Zenon DEF Rcv
  <2> QED BY <1>4, <2>3, <2>4, PosSame, Zenon
<1>7. Len(g) + Len(t.rx) = P /\ Top(t, g) = P
  <2>1. PICK R \in 0 .. P : R = Len(g) + Len(t.rx) /\ t.rcv = Pos(Peer(e), 1 + R) /\ Top(t, g) = R
    <3>1. t.state # "SYN_SENT"
          BY Zenon
    <3>2. Rcv(e, t, P, F, g)
          BY <1>2, Zenon
    <3>3. PICK R : At(e, t, P, g, R)
          BY <1>6, <3>1, <3>2, RcvAt, Zenon
    <3> QED BY <3>3, Zenon DEF At
  <2>2. 1 + R \in 0 .. P + 2
        BY <1>4, SMTT(30)
  <2>3. 1 + R = 1 + P
        BY <1>4, <1>5, <2>1, <2>2, PosSame, Zenon
  <2>4. R = P
        BY <1>4, <2>3, SMTT(30)
  <2> QED BY <2>1, <2>4, Zenon
<1>8. y = Pos(Peer(e), 1 + (P + 1)) /\ y \in Int
  <2>1. 1 + P + 1 = 1 + (P + 1)
        BY <1>4, SMTT(30)
  <2>2. y = Pos(Peer(e), 1 + P + 1)
        BY <1>4, <1>5, PosPlus, ZenonT(60)
  <2>3. t.rcv \in Int
        BY Zenon DEF Tcbs
  <2>4. y \in Int
        BY <2>3, Consts, SMTT(30) DEF Plus
  <2> QED BY <2>1, <2>2, <2>4, Zenon
<1> HIDE DEF y
<1>9. v \in Tcbs /\ SndSame(t, v) /\ v.state = st /\ v.rx = t.rx /\ v.ooo = t.ooo /\ v.fin = TRUE /\ v.rcv = y
      BY <1>1, <1>8, Zenon DEF Tcbs, SndSame
<1> HIDE DEF v
<1>10. Top(v, g) = P + 1
      BY <1>7, <1>9, Zenon DEF Top
<1>11. Rcv(e, v, P, F, g)
      BY <1>1, <1>2, <1>3, <1>7, <1>8, <1>9, <1>10, Zenon DEF Rcv
<1>12. Snd(e, v, S)
  <2>1. v.psyn => v.state \in {"SYN_SENT", "SYN_RCVD", "CLOSED"}
        BY <1>1, <1>2, <1>9, Zenon DEF Snd, SndSame
  <2>2. SynOut(e, v, S) \/ DataOut(e, v, S) \/ FinOut(e, v, S) \/ FinAcked(e, v, S)
    <3>1. CASE SynOut(e, t, S)
          BY <3>1, <1>1, <1>9, Zenon DEF SynOut, SndSame
    <3>2. CASE DataOut(e, t, S) \/ FinOut(e, t, S) \/ FinAcked(e, t, S)
          BY <3>2, <1>1, <1>9, Zenon DEF DataOut, FinOut, FinAcked, SndSame
    <3> QED BY <1>2, <3>1, <3>2, Zenon DEF Snd
  <2> QED BY <1>1, <1>2, <1>9, <2>1, <2>2, Zenon DEF Snd, SndSame
<1>13. u \in Tcbs /\ Good(e, u, S, P, F, g) /\ SndSame(v, u) /\ RcvSame(v, u) /\ u.state = v.state
      BY <1>9, <1>11, <1>12, WakeGood, Zenon
<1> HIDE DEF u
<1>14. SndSame(t, u) /\ u.closed = t.closed /\ u.rx = t.rx
      BY <1>9, <1>13, Zenon DEF SndSame, RcvSame
<1>15. Top(u, g) = P + 1
      BY <1>10, <1>13, Zenon DEF Top, RcvSame
<1>16. P <= P + 1 /\ Len(t.rx) <= Len(t.rx)
  <2>1. Len(t.rx) \in Nat
        BY TopInt, Zenon
  <2> QED BY <1>4, <2>1, SMTT(30)
<1>17. Up(t, u, g)
      BY <1>7, <1>14, <1>15, <1>16, Zenon DEF Up
<1> QED BY <1>0, <1>1, <1>9, <1>13, <1>14, <1>17, Zenon

LEMMA AckGood ==
    ASSUME NEW e \in End, NEW t \in Tcbs, NEW S \in 0 .. Total[e], NEW P \in 0 .. Total[Peer(e)],
           NEW F \in BOOLEAN, NEW g \in Seq(Nat), Good(e, t, S, P, F, g), t.state # "SYN_SENT"
    PROVE  SegBy(e, Ack(e, t), S, t.closed, P, F, Top(t, g))
<1>1. <<>> \in Seq(Nat) /\ {"ACK"} \in SUBSET {"SYN", "ACK", "FIN"} /\ 0 \in Int
      BY SMTT(30)
<1>2. Rcv(e, t, P, F, g)
      BY Zenon DEF Good
<1>3. Content(e, 0, {"ACK"}, <<>>, S, t.closed)
      BY Zenon DEF Content
<1>4. SegBy(e, Seg(e, t, 0, {"ACK"}, <<>>), S, t.closed, P, F, Top(t, g))
      BY <1>1, <1>2, <1>3, SegGood, Zenon
<1> QED BY <1>4, Zenon DEF Ack

LEMMA InputRestGood ==
    ASSUME NEW e \in End, NEW t, NEW S \in 0 .. Total[e], NEW P \in 0 .. Total[Peer(e)],
           NEW F \in BOOLEAN, NEW g \in Seq(Nat), NEW L \in Nat, Fine(e, t, S, P, F, g, L),
           NEW s \in Segs, Content(Peer(e), s.seq, s.fl, s.data, P, F), NEW cwnd \in Int
    PROVE  LET z == InputRest(e, t, s, cwnd)
           IN  /\ Fine(e, z.t, S, P, F, g, L) /\ Up(t, z.t, g)
               /\ \A x \in z.out : SegBy(e, x, S, t.closed, P, F, Top(z.t, g))
<1> DEFINE off == Diff(t.rcv, s.seq)
           data == s.data # <<>> /\ t.state \in Receiving
           u == IF data THEN Take(t, s) ELSE t
           f == TakeFin(u)
           r == TrySend(e, u, cwnd)
           acks == IF data THEN {Ack(e, u)} ELSE {}
           z == InputRest(e, t, s, cwnd)
<1>0. z = IF data /\ off >= Len(s.data) THEN Done(t, {Ack(e, t)})
          ELSE IF data /\ off < 0 THEN Done(ooo_insert(t, s), {Ack(e, t)})
          ELSE IF FinHere(u, s) THEN Done(f, acks \cup {Ack(e, f)})
          ELSE Done(r.t, acks \cup r.out)
      BY Zenon DEF InputRest
<1>1. /\ t \in Tcbs /\ Good(e, t, S, P, F, g) /\ t.state \notin {"SYN_SENT", "SYN_RCVD"}
      /\ S - Len(t.buf) <= L /\ t.state # "SYN_SENT"
      BY Zenon DEF Fine
<1>2. SegBy(e, Ack(e, t), S, t.closed, P, F, Top(t, g))
      BY <1>1, AckGood, Zenon
<1>3. CASE data /\ off >= Len(s.data)
  <2>1. z.t = t /\ z.out = {Ack(e, t)}
    <3>1. z = Done(t, {Ack(e, t)})
      <4> HIDE DEF z, data, off, u, f, r, acks
      <4> QED BY <1>0, <1>3, Zenon
    <3> HIDE DEF z
    <3> QED BY <3>1, Zenon DEF Done
  <2>2. Up(t, t, g)
        BY <1>1, UpSame, Zenon DEF RcvSame
  <2> HIDE DEF z
  <2>3. Fine(e, z.t, S, P, F, g, L) /\ Up(t, z.t, g) /\ \A x \in z.out : SegBy(e, x, S, t.closed, P, F, Top(z.t, g))
        BY <1>2, <2>1, <2>2, Zenon
  <2> QED BY <2>3, Zenon DEF z
<1>4. CASE data /\ ~(off >= Len(s.data)) /\ off < 0
  <2> DEFINE w == ooo_insert(t, s)
  <2>1. z.t = w /\ z.out = {Ack(e, t)}
    <3>1. z = Done(w, {Ack(e, t)})
      <4> HIDE DEF z, data, off, u, f, r, acks
      <4> QED BY <1>0, <1>4, Zenon
    <3> HIDE DEF z, w
    <3> QED BY <3>1, Zenon DEF Done
  <2>2. /\ w \in Tcbs /\ Good(e, w, S, P, F, g) /\ SndSame(t, w)
        /\ w.state = t.state /\ w.rx = t.rx /\ w.fin = t.fin
    <3>1. s.data # <<>>
          BY <1>4, Zenon
    <3>2. Good(e, t, S, P, F, g) /\ t.state # "SYN_SENT" /\ t \in Tcbs
          BY <1>1, Zenon
    <3>3. Inserted(e, t, w, S, P, F, g)
          BY <3>1, <3>2, InsertGood, Zenon
    <3> HIDE DEF w
    <3> QED BY <3>3, Zenon DEF Inserted
  <2> HIDE DEF z, w
  <2>3. Top(w, g) = Top(t, g) /\ Top(t, g) <= Top(t, g) /\ Len(t.rx) <= Len(t.rx)
    <3>1. Top(w, g) = Top(t, g)
          BY <2>2, Zenon DEF Top
    <3>2. Top(t, g) \in Nat /\ Len(t.rx) \in Nat
          BY <1>1, TopInt, Zenon
    <3>3. Top(t, g) <= Top(t, g) /\ Len(t.rx) <= Len(t.rx)
          BY <3>2, SMTT(30)
    <3> QED BY <3>1, <3>3, Zenon
  <2>4. Up(t, w, g)
        BY <2>2, <2>3, Zenon DEF Up, SndSame
  <2>5. Fine(e, w, S, P, F, g, L)
        BY <1>1, <2>2, Zenon DEF Fine, SndSame
  <2>6. \A x \in z.out : SegBy(e, x, S, t.closed, P, F, Top(z.t, g))
        BY <1>2, <2>1, <2>3, Zenon
  <2>7. Fine(e, z.t, S, P, F, g, L) /\ Up(t, z.t, g)
        BY <2>1, <2>4, <2>5, Zenon
  <2> QED BY <2>6, <2>7, Zenon DEF z
<1>5. CASE ~(data /\ off >= Len(s.data)) /\ ~(data /\ off < 0) /\ FinHere(u, s)
  <2>1. s.data = <<>>
        BY <1>5, Zenon DEF FinHere, Content
  <2>2. u = t /\ acks = {}
        BY <2>1, Zenon
  <2> DEFINE w == TakeFin(t)
  <2>3. z.t = w /\ \A x \in z.out : x = Ack(e, w)
    <3>1. z = Done(f, acks \cup {Ack(e, f)})
      <4> HIDE DEF z, data, off, u, f, r, acks
      <4> QED BY <1>0, <1>5, Zenon
    <3>2. f = w
          BY <2>2, Zenon
    <3> HIDE DEF z, w, f, u, acks
    <3> QED BY <2>2, <3>1, <3>2, Zenon DEF Done
  <2>4. FinHere(t, s)
        BY <1>5, <2>2, Zenon
  <2>5. w \in Tcbs /\ Good(e, w, S, P, F, g) /\ SndSame(t, w) /\ Up(t, w, g) /\ w.state \notin {"SYN_SENT", "SYN_RCVD"}
        BY <1>1, <2>4, TakeFinGood, Zenon
  <2> HIDE DEF z, w, u, f, acks
  <2>6. w.state # "SYN_SENT" /\ w.closed = t.closed
        BY <2>5, Zenon DEF SndSame
  <2>7. SegBy(e, Ack(e, w), S, w.closed, P, F, Top(w, g))
        BY <2>5, <2>6, AckGood, Zenon
  <2>8. Fine(e, w, S, P, F, g, L)
        BY <1>1, <2>5, Zenon DEF Fine, SndSame
  <2>9. Fine(e, z.t, S, P, F, g, L) /\ Up(t, z.t, g) /\ \A x \in z.out : SegBy(e, x, S, t.closed, P, F, Top(z.t, g))
        BY <2>3, <2>5, <2>6, <2>7, <2>8, Zenon
  <2> QED BY <2>9, Zenon DEF z
<1>6. CASE ~(data /\ off >= Len(s.data)) /\ ~(data /\ off < 0) /\ ~FinHere(u, s)
  <2>1. z = Done(r.t, acks \cup r.out)
    <3> HIDE DEF z, data, off, u, f, r, acks
    <3> QED BY <1>0, <1>6, Zenon
  <2>2. u \in Tcbs /\ Good(e, u, S, P, F, g) /\ SndSame(t, u) /\ u.state = t.state /\ Up(t, u, g)
    <3>1. CASE data
      <4>1. u = Take(t, s)
            BY <3>1, Zenon
      <4>2. /\ s.data # <<>> /\ t.state \in Receiving
            /\ ~(Diff(t.rcv, s.seq) >= Len(s.data)) /\ ~(Diff(t.rcv, s.seq) < 0)
            BY <1>6, <3>1, Zenon
      <4> DEFINE w == Take(t, s)
      <4>3. w \in Tcbs /\ Good(e, w, S, P, F, g) /\ SndSame(t, w) /\ w.state = t.state /\ Up(t, w, g)
        <5> HIDE DEF u, z, off, data
        <5> QED BY <1>1, <4>2, TakeGood, Zenon
      <4> HIDE DEF u, w
      <4> QED BY <4>1, <4>3, Zenon DEF w
    <3>2. CASE ~data
      <4>1. u = t
            BY <3>2, Zenon
      <4>2. Up(t, t, g) /\ SndSame(t, t)
            BY <1>1, UpSame, Zenon DEF RcvSame, SndSame
      <4> HIDE DEF u
      <4> QED BY <1>1, <4>1, <4>2, Zenon
    <3> QED BY <3>1, <3>2, Zenon
  <2> HIDE DEF u
  <2>3. u.state # "SYN_SENT" /\ u.closed = t.closed /\ u.buf = t.buf
        BY <1>1, <2>2, Zenon DEF SndSame
  <2>4. SegBy(e, Ack(e, u), S, u.closed, P, F, Top(u, g))
        BY <2>2, <2>3, AckGood, Zenon
  <2>5. /\ r.t \in Tcbs /\ SendSame(u, r.t) /\ Good(e, r.t, S, P, F, g)
        /\ \A x \in r.out : SegBy(e, x, S, u.closed, P, F, Top(u, g))
        BY <2>2, TrySendGood, Zenon
  <2> HIDE DEF r
  <2>6. z.t = r.t /\ \A x \in z.out : x = Ack(e, u) \/ x \in r.out
    <3> HIDE DEF z, data
    <3>1. \A x \in acks : x = Ack(e, u)
          BY Zenon
    <3> HIDE DEF acks
    <3> QED BY <2>1, <3>1, Zenon DEF Done
  <2> HIDE DEF z
  <2>7. r.t.closed = t.closed /\ r.t.buf = t.buf /\ r.t.state = t.state /\ RcvSame(u, r.t) /\ r.t.closed = u.closed
        BY <2>2, <2>3, <2>5, Zenon DEF SendSame, RcvSame
  <2>8. Top(r.t, g) = Top(u, g) /\ r.t.rx = u.rx
        BY <2>7, Zenon DEF RcvSame, Top
  <2>9. Up(t, r.t, g)
        BY <2>2, <2>7, <2>8, Zenon DEF Up
  <2>10. Fine(e, r.t, S, P, F, g, L)
        BY <1>1, <2>5, <2>7, Zenon DEF Fine
  <2>11. Fine(e, z.t, S, P, F, g, L) /\ Up(t, z.t, g) /\ \A x \in z.out : SegBy(e, x, S, t.closed, P, F, Top(z.t, g))
        BY <2>3, <2>4, <2>5, <2>6, <2>8, <2>9, <2>10, Zenon
  <2> QED BY <2>11, Zenon DEF z
<1> QED BY <1>3, <1>4, <1>5, <1>6, Zenon

(* A reset. *)
LEMMA ResetGood ==
    ASSUME NEW e \in End, NEW t \in Tcbs, NEW S, NEW P, NEW F, NEW g \in Seq(Nat),
           Good(e, t, S, P, F, g), t.state # "SYN_SENT"
    PROVE  LET u == tcb_wake([t EXCEPT !.reset = TRUE, !.state = "CLOSED"])
           IN  u \in Tcbs /\ Good(e, u, S, P, F, g) /\ SndSame(t, u) /\ Up(t, u, g) /\ u.state = "CLOSED"
<1> DEFINE v == [t EXCEPT !.reset = TRUE, !.state = "CLOSED"]
           u == tcb_wake(v)
<1>1. v \in Tcbs /\ SndSame(t, v) /\ RcvSame(t, v) /\ v.state = "CLOSED"
  <2>1. "CLOSED" \in States
        BY Zenon DEF States
  <2> QED BY <2>1, Zenon DEF Tcbs, SndSame, RcvSame
<1> HIDE DEF v
<1>2. Snd(e, v, S)
  <2>1. SynOut(e, v, S) \/ DataOut(e, v, S) \/ FinOut(e, v, S) \/ FinAcked(e, v, S)
        BY <1>1, Zenon DEF Good, Snd, SynOut, DataOut, FinOut, FinAcked, SndSame
  <2> QED BY <1>1, <2>1, Zenon DEF Good, Snd, SndSame
<1>3. Rcv(e, v, P, F, g)
  <2>1. Top(v, g) = Top(t, g)
        BY <1>1, Zenon DEF Top, RcvSame
  <2> QED BY <1>1, <2>1, Zenon DEF Good, Rcv, RcvSame, Receiving
<1>4. u \in Tcbs /\ Good(e, u, S, P, F, g) /\ SndSame(v, u) /\ RcvSame(v, u) /\ u.state = v.state
      BY <1>1, <1>2, <1>3, WakeGood, Zenon
<1> HIDE DEF u
<1>5. SndSame(t, u) /\ RcvSame(t, u) /\ u.closed = t.closed /\ u.state = "CLOSED"
      BY <1>1, <1>4, Zenon DEF SndSame, RcvSame
<1>6. Up(t, u, g)
      BY <1>4, <1>5, UpSame, Zenon
<1> QED BY <1>4, <1>5, <1>6, Zenon DEF u, v

(* The end of the handshake. *)
LEMMA UpGood ==
    ASSUME NEW e \in End, NEW t \in Tcbs, NEW S \in 0 .. Total[e], NEW P, NEW F, NEW g \in Seq(Nat),
           Good(e, t, S, P, F, g), t.state \in {"SYN_SENT", "SYN_RCVD"}, NEW y \in Int,
           t.state = "SYN_SENT" => y = Pos(Peer(e), 1), t.state = "SYN_RCVD" => y = t.rcv,
           NEW u \in Tcbs, u.rx = t.rx, u.fin = t.fin, u.ooo = t.ooo, u.rcv = y,
           u.una = Pos(e, 1), u.nxt = t.nxt, u.buf = t.buf, ~u.psyn, u.pfin = t.pfin, u.fsent = t.fsent,
           u.closed = t.closed, u.state = "ESTABLISHED"
    PROVE  Snd(e, u, S) /\ Rcv(e, u, P, F, g) /\ Up(t, u, g)
<1>1. SynOut(e, t, S)
      BY Zenon DEF Good, Snd, DataOut, FinOut, FinAcked
<1>2. u.rx = t.rx /\ u.fin = t.fin /\ u.ooo = t.ooo /\ u.rcv = y
      OBVIOUS
<1>3. t.buf \in Seq(Nat) /\ Len(t.buf) <= S /\ S = 0
      BY <1>1, Zenon DEF Tcbs, Good, Snd, SynOut
<1>4. 1 + S - Len(u.buf) = 1 /\ 0 \in 0 .. Len(u.buf) /\ 1 + S - Len(u.buf) + 0 = 1
      BY <1>3, SMTT(30)
<1>5. DataOut(e, u, S)
      BY <1>1, <1>4, Zenon DEF DataOut, SynOut
<1>6. Snd(e, u, S)
      BY <1>5, Zenon DEF Snd, Good
<1>7. ~t.fin
      BY Zenon DEF Good, Rcv
<1>8. Top(u, g) = Top(t, g)
      BY <1>2, Zenon DEF Top
<1>9. y = Pos(Peer(e), 1 + Top(t, g))
  <2>1. CASE t.state = "SYN_SENT"
    <3>1. g = <<>> /\ t.rx = <<>>
          BY <2>1, Zenon DEF Good, Rcv
    <3>2. Top(t, g) = Len(<<>>) + Len(<<>>) + 0
          BY <1>7, <3>1, Zenon DEF Top
    <3>3. 1 + Top(t, g) = 1
          BY <3>2, SMTT(30)
    <3> QED BY <2>1, <3>3, Zenon
  <2>2. CASE t.state = "SYN_RCVD"
        BY <2>2, Zenon DEF Good, Rcv
  <2> QED BY <2>1, <2>2, Zenon
<1>10. Rcv(e, u, P, F, g)
      BY <1>2, <1>7, <1>8, <1>9, Zenon DEF Good, Rcv
<1>11. Up(t, u, g)
  <2>1. Top(t, g) \in Nat /\ Len(t.rx) \in Nat
        BY TopInt, Zenon
  <2>2. Top(t, g) <= Top(t, g) /\ Len(t.rx) <= Len(t.rx)
        BY <2>1, SMTT(30)
  <2> QED BY <1>2, <1>8, <2>2, Zenon DEF Up
<1> QED BY <1>6, <1>10, <1>11, Zenon

(* tcp_input, for a segment other than a reset. *)
Sound(e, t, S, P, F, g, L, z) ==
    /\ z.t \in Tcbs /\ Good(e, z.t, S, P, F, g) /\ S - Len(z.t.buf) <= L /\ Up(t, z.t, g)
    /\ z.t.state = "SYN_SENT" => t.state = "SYN_SENT"
    /\ \A x \in z.out : SegBy(e, x, S, t.closed, P, F, Top(z.t, g))

LEMMA InputGood ==
    ASSUME NEW e \in End, NEW t \in Tcbs, NEW S \in 0 .. Total[e], NEW P \in 0 .. Total[Peer(e)],
           NEW F \in BOOLEAN, NEW g \in Seq(Nat), NEW L \in Nat, Good(e, t, S, P, F, g),
           S - Len(t.buf) <= L, NEW s \in Segs, "RST" \notin s.fl,
           Content(Peer(e), s.seq, s.fl, s.data, P, F), Acks(e, s, S, L),
           NEW third \in BOOLEAN, NEW cwnd \in Int
    PROVE  Sound(e, t, S, P, F, g, L, tcp_input(e, t, s, third, cwnd))
<1> DEFINE nw == Window(t, s)
           op == t.opts \/ "SYN" \in s.fl
           w == [t EXCEPT !.wnd = nw, !.opts = op]
           a == InputAck(e, w, s, third)
           r == InputRest(e, a.t, s, cwnd)
           up == [w EXCEPT !.una = s.ack, !.psyn = FALSE, !.state = "ESTABLISHED"]
           cv == [up EXCEPT !.rcv = Plus(s.seq, 1)]
           sv == [up EXCEPT !.timer = FALSE]
           client == tcb_wake(cv)
           z == tcp_input(e, t, s, third, cwnd)
           Ok == /\ z.t \in Tcbs /\ Good(e, z.t, S, P, F, g) /\ S - Len(z.t.buf) <= L /\ Up(t, z.t, g)
                 /\ z.t.state = "SYN_SENT" => t.state = "SYN_SENT"
                 /\ \A x \in z.out : SegBy(e, x, S, t.closed, P, F, Top(z.t, g))
<1>0. /\ t.state = "SYN_SENT" /\ {"SYN", "ACK"} \subseteq s.fl /\ s.ack = Plus(ISS[e], 1)
         => z = Done(client, {Ack(e, client)})
      /\ t.state = "SYN_SENT" /\ ~({"SYN", "ACK"} \subseteq s.fl /\ s.ack = Plus(ISS[e], 1)) => z = Done(w, {})
      /\ t.state = "SYN_RCVD" /\ "ACK" \in s.fl /\ s.ack = Plus(ISS[e], 1) => z = Done(sv, {})
      /\ t.state = "SYN_RCVD" /\ ~("ACK" \in s.fl /\ s.ack = Plus(ISS[e], 1)) => z = Done(w, {})
      /\ t.state \notin {"SYN_SENT", "SYN_RCVD"} => z = Done(r.t, a.out \cup r.out)
      BY SMTT(30) DEF tcp_input
<1>1. nw \in Int /\ op \in BOOLEAN
  <2>1. s.win \in Int /\ t.opts \in BOOLEAN
        BY Zenon DEF Segs, Tcbs
  <2>2. PICK k \in Nat : k = 2^TCP_WSCALE
        BY TcpAssumption, Zenon
  <2>3. s.win * k \in Int
        BY <2>1, Z3T(30)
  <2>4. nw \in Int
        BY <2>1, <2>2, <2>3, Zenon DEF Window
  <2> QED BY <2>4, Zenon
<1> HIDE DEF nw, op
<1>2. w \in Tcbs /\ SndSame(t, w) /\ RcvSame(t, w) /\ w.state = t.state /\ w.sleep = t.sleep /\ w.reset = t.reset
      BY <1>1, Zenon DEF Tcbs, SndSame, RcvSame
<1> HIDE DEF w
<1>3. Good(e, w, S, P, F, g) /\ Up(t, w, g) /\ w.buf = t.buf /\ w.closed = t.closed /\ Top(w, g) = Top(t, g)
  <2>1. Snd(e, t, S) /\ Rcv(e, t, P, F, g) /\ Asleep(t)
        BY Zenon DEF Good
  <2>2. Snd(e, w, S)
        BY <1>2, <2>1, SndKeeps, Zenon
  <2>3. Rcv(e, w, P, F, g)
        BY <1>2, <2>1, RcvKeeps, Zenon
  <2>4. Asleep(w)
        BY <1>2, <2>1, Zenon DEF Asleep, SndSame, RcvSame
  <2>5. w.buf = t.buf /\ w.closed = t.closed
        BY <1>2, Zenon DEF SndSame
  <2>6. Up(t, w, g) /\ Top(w, g) = Top(t, g)
        BY <1>2, <2>5, UpSame, Zenon
  <2> QED BY <2>2, <2>3, <2>4, <2>5, <2>6, Zenon DEF Good
<1> HIDE DEF z
<1>4. CASE z = Done(w, {})
  <2>1. z.t = w /\ z.out = {}
        BY <1>4, Zenon DEF Done
  <2> QED BY <1>2, <1>3, <2>1, Zenon DEF Sound, z
<1>5. s.ack \in Int /\ s.seq \in Int /\ "ESTABLISHED" \in States
      BY Zenon DEF Segs, States
<1>6. up \in Tcbs /\ /\ up.una = s.ack /\ ~up.psyn /\ up.state = "ESTABLISHED" /\ RcvSame(w, up)
                     /\ up.nxt = w.nxt /\ up.buf = w.buf /\ up.pfin = w.pfin /\ up.fsent = w.fsent
                     /\ up.closed = w.closed /\ up.sleep = w.sleep /\ up.reset = w.reset
      BY <1>2, <1>5, Zenon DEF Tcbs, RcvSame
<1> HIDE DEF up
<1>7. CASE t.state = "SYN_SENT" /\ {"SYN", "ACK"} \subseteq s.fl /\ s.ack = Plus(ISS[e], 1)
  <2>1. s.ack = Pos(e, 1)
        BY <1>7, Zenon DEF Pos
  <2>2. Plus(s.seq, 1) = Pos(Peer(e), 1) /\ Plus(s.seq, 1) \in Int
    <3>1. s.seq = Pos(Peer(e), 0)
          BY <1>7, Zenon DEF Content
    <3>2. Peer(e) \in End /\ 0 \in Near /\ 1 \in Near /\ 0 + 1 = 1
      <4>1. Peer(e) \in End
            BY Consts, Zenon
      <4>2. 0 \in Near /\ 1 \in Near /\ 0 + 1 = 1
            BY Consts, SMTT(30) DEF Near
      <4> QED BY <4>1, <4>2, Zenon
    <3>3. Plus(Pos(Peer(e), 0), 1) = Pos(Peer(e), 0 + 1)
          BY <3>2, PosPlus, Zenon
    <3>4. Plus(s.seq, 1) \in Int
          BY <1>5, Consts, SMTT(60) DEF Plus
    <3> QED BY <3>1, <3>2, <3>3, <3>4, Zenon
  <2>3. /\ cv \in Tcbs /\ cv.una = Pos(e, 1) /\ ~cv.psyn /\ cv.state = "ESTABLISHED" /\ cv.rcv = Plus(s.seq, 1)
        /\ cv.rx = w.rx /\ cv.fin = w.fin /\ cv.ooo = w.ooo
        /\ cv.nxt = w.nxt /\ cv.buf = w.buf /\ cv.pfin = w.pfin /\ cv.fsent = w.fsent /\ cv.closed = w.closed
        BY <1>6, <2>1, <2>2, Zenon DEF Tcbs, RcvSame
  <2> HIDE DEF cv
  <2>4. w.state = "SYN_SENT"
        BY <1>2, <1>7, Zenon
  <2>5. Snd(e, cv, S) /\ Rcv(e, cv, P, F, g) /\ Up(w, cv, g)
    <3>1. w.state \in {"SYN_SENT", "SYN_RCVD"} /\ w.state # "SYN_RCVD"
          BY <2>4, Zenon
    <3> QED BY <1>2, <1>3, <2>2, <2>3, <3>1, UpGood, Zenon
  <2>6. /\ client \in Tcbs /\ Good(e, client, S, P, F, g)
        /\ SndSame(cv, client) /\ RcvSame(cv, client) /\ client.state = cv.state
        BY <2>3, <2>5, WakeGood, Zenon
  <2> HIDE DEF client
  <2>7. client.state # "SYN_SENT" /\ client.closed = t.closed /\ client.buf = t.buf
        BY <1>3, <2>3, <2>6, Zenon DEF SndSame
  <2>8. SegBy(e, Ack(e, client), S, client.closed, P, F, Top(client, g))
        BY <2>6, <2>7, AckGood, ZenonT(60)
  <2>9. Up(t, client, g)
    <3>1. Top(client, g) = Top(cv, g) /\ client.rx = cv.rx
          BY <2>6, Zenon DEF RcvSame, Top
    <3>2. w.rx = t.rx
          BY <1>2, Zenon DEF RcvSame
    <3> QED BY <1>3, <2>5, <2>7, <3>1, <3>2, Zenon DEF Up
  <2>10. z.t = client /\ z.out = {Ack(e, client)}
    <3>1. z = Done(client, {Ack(e, client)})
          BY <1>0, <1>7, Zenon
    <3> QED BY <3>1, Zenon DEF Done
  <2>11. Ok
        BY <2>6, <2>7, <2>8, <2>9, <2>10, Zenon
  <2> QED BY <2>11, Zenon DEF Sound, z
<1>8. CASE t.state = "SYN_RCVD" /\ "ACK" \in s.fl /\ s.ack = Plus(ISS[e], 1)
  <2>1. s.ack = Pos(e, 1)
        BY <1>8, Zenon DEF Pos
  <2>2. /\ sv \in Tcbs /\ sv.una = Pos(e, 1) /\ ~sv.psyn /\ sv.state = "ESTABLISHED" /\ sv.rcv = w.rcv
        /\ sv.rx = w.rx /\ sv.fin = w.fin /\ sv.ooo = w.ooo /\ sv.sleep = w.sleep /\ sv.reset = w.reset
        /\ sv.nxt = w.nxt /\ sv.buf = w.buf /\ sv.pfin = w.pfin /\ sv.fsent = w.fsent /\ sv.closed = w.closed
        BY <1>6, <2>1, Zenon DEF Tcbs, RcvSame
  <2> HIDE DEF sv
  <2>3. w.state = "SYN_RCVD"
        BY <1>2, <1>8, Zenon
  <2>4. Snd(e, sv, S) /\ Rcv(e, sv, P, F, g) /\ Up(w, sv, g)
    <3>1. w.state \in {"SYN_SENT", "SYN_RCVD"} /\ w.state # "SYN_SENT" /\ w.rcv \in Int
          BY <1>2, <2>3, Zenon DEF Tcbs
    <3> QED BY <1>2, <1>3, <2>2, <3>1, UpGood, Zenon
  <2>5. Asleep(sv)
        BY <1>3, <2>2, <2>3, Zenon DEF Good, Asleep
  <2>6. Up(t, sv, g)
    <3>1. w.rx = t.rx
          BY <1>2, Zenon DEF RcvSame
    <3> QED BY <1>3, <2>2, <2>4, <3>1, Zenon DEF Up
  <2>7. z.t = sv /\ z.out = {}
    <3>1. z = Done(sv, {})
          BY <1>0, <1>8, Zenon
    <3> QED BY <3>1, Zenon DEF Done
  <2>8. sv.buf = t.buf /\ sv.state # "SYN_SENT"
        BY <1>3, <2>2, Zenon
  <2>9. Ok
        BY <2>2, <2>4, <2>5, <2>6, <2>7, <2>8, ZenonT(60) DEF Good
  <2> QED BY <2>9, Zenon DEF Sound, z
<1>9. CASE t.state \notin {"SYN_SENT", "SYN_RCVD"}
  <2>1. Fine(e, w, S, P, F, g, L)
        BY <1>2, <1>3, <1>9, Zenon DEF Fine
  <2>2. /\ Fine(e, a.t, S, P, F, g, L) /\ Up(w, a.t, g)
        /\ \A x \in a.out : SegBy(e, x, S, w.closed, P, F, Top(a.t, g))
        BY <2>1, InputAckGood, ZenonT(60)
  <2> HIDE DEF a
  <2>3. /\ Fine(e, r.t, S, P, F, g, L) /\ Up(a.t, r.t, g)
        /\ \A x \in r.out : SegBy(e, x, S, a.t.closed, P, F, Top(r.t, g))
        BY <2>2, InputRestGood, Zenon
  <2> HIDE DEF r
  <2>4. z.t = r.t /\ z.out = a.out \cup r.out
    <3>1. z = Done(r.t, a.out \cup r.out)
          BY <1>0, <1>9, Zenon
    <3> QED BY <3>1, Zenon DEF Done
  <2>5. w.closed = t.closed /\ a.t.closed = t.closed /\ r.t.closed = t.closed
        BY <1>3, <2>2, <2>3, Zenon DEF Up
  <2>6. a.t \in Tcbs /\ r.t \in Tcbs /\ Good(e, r.t, S, P, F, g) /\ S - Len(r.t.buf) <= L /\ r.t.state # "SYN_SENT"
        BY <2>2, <2>3, Zenon DEF Fine
  <2>7. /\ Top(t, g) \in Nat /\ Top(a.t, g) \in Nat /\ Top(r.t, g) \in Nat /\ Len(t.rx) \in Nat
        /\ Len(a.t.rx) \in Nat /\ Len(r.t.rx) \in Nat
        BY <2>6, TopInt, Zenon
  <2>8. /\ Top(t, g) <= Top(a.t, g) /\ Top(a.t, g) <= Top(r.t, g)
        /\ Len(t.rx) <= Len(a.t.rx) /\ Len(a.t.rx) <= Len(r.t.rx)
        BY <1>2, <1>3, <2>2, <2>3, Zenon DEF Up, RcvSame
  <2>9. Top(t, g) <= Top(r.t, g) /\ Len(t.rx) <= Len(r.t.rx) /\ Top(a.t, g) \in Int /\ Top(r.t, g) \in Int
        BY <2>7, <2>8, SMTT(60)
  <2>10. Up(t, r.t, g)
        BY <2>5, <2>9, Zenon DEF Up
  <2>11. \A x \in a.out : SegBy(e, x, S, t.closed, P, F, Top(r.t, g))
        BY <2>2, <2>5, <2>8, <2>9, SegUp, Zenon
  <2>12. \A x \in r.out : SegBy(e, x, S, t.closed, P, F, Top(r.t, g))
        BY <2>3, <2>5, Zenon
  <2>13. \A x \in z.out : SegBy(e, x, S, t.closed, P, F, Top(r.t, g))
        BY <2>4, <2>11, <2>12, Zenon
  <2>14. Ok
    <3>1. z.t \in Tcbs /\ Good(e, z.t, S, P, F, g) /\ Up(t, z.t, g) /\ z.t.state # "SYN_SENT"
          BY <2>4, <2>6, <2>10, Zenon
    <3>2. S - Len(z.t.buf) <= L
          BY <2>4, <2>6, Zenon
    <3>3. \A x \in z.out : SegBy(e, x, S, t.closed, P, F, Top(z.t, g))
          BY <2>4, <2>13, Zenon
    <3> QED BY <3>1, <3>2, <3>3, Zenon
  <2> QED BY <2>14, Zenon DEF Sound, z
<1> QED BY <1>0, <1>4, <1>7, <1>8, <1>9, ZenonT(60)
=============================================================================
