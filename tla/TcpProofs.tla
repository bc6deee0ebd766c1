----------------------------- MODULE TcpProofs -------------------------------
(***************************************************************************)
(* A TCP connection, over a network that loses, repeats and reorders        *)
(* segments: what is read is what was written, nothing leaves the send      *)
(* buffer too early, and nobody sleeps over something to do.                *)
(***************************************************************************)
EXTENDS TcpLemmas

(* When the peer is given more, or nothing more for ever. *)
LEMMA GoodGrows ==
    ASSUME NEW e, NEW t \in Tcbs, NEW S, NEW P \in Nat, NEW F, NEW g \in Seq(Nat), Good(e, t, S, P, F, g),
           NEW Q \in Nat, NEW G, P <= Q, F => G /\ Q = P
    PROVE  Good(e, t, S, Q, G, g)
<1>1. Len(g) + Len(t.rx) <= Q
  <2>1. Len(t.rx) \in Nat /\ Len(g) \in Nat
    <3>1. Len(g) \in Nat
          BY SMTT(30)
    <3> QED BY <3>1, TopInt, Zenon
  <2>2. Len(g) + Len(t.rx) <= P
        BY Zenon DEF Good, Rcv
  <2> QED BY <2>1, <2>2, SMTT(30)
<1>2. ASSUME NEW q \in t.ooo PROVE Early(e, q, Q)
  <2>1. PICK k \in Nat : q.seq = Pos(Peer(e), 1 + k) /\ Piece(q.data, k) /\ k + Len(q.data) <= P
        BY Zenon DEF Good, Rcv, Early
  <2>2. q.data \in Seq(Nat)
    <3>1. t.ooo \subseteq [seq : Int, data : Seq(Nat)]
          BY Zenon DEF Tcbs
    <3> QED BY <3>1, Zenon
  <2>3. k + Len(q.data) <= Q
    <3>1. Len(q.data) \in Nat
          BY <2>2, SMTT(30)
    <3> QED BY <2>1, <3>1, SMTT(30)
  <2> QED BY <2>1, <2>3, Zenon DEF Early
<1>3. Rcv(e, t, Q, G, g)
      BY <1>1, <1>2, Zenon DEF Good, Rcv
<1> QED BY <1>3, Zenon DEF Good

(* A segment, when its sender is given more and receives more ... *)
LEMMA SegMine ==
    ASSUME NEW e, NEW s, NEW S \in Nat, NEW c, NEW P, NEW F, NEW top \in Int,
           SegBy(e, s, S, c, P, F, top),
           NEW Z \in Nat, NEW d, NEW u \in Int, S <= Z, c => d /\ Z = S, top <= u
    PROVE  SegBy(e, s, Z, d, P, F, u)
<1>1. SegBy(e, s, S, c, P, F, u)
      BY SegUp, Zenon
<1>2. ASSUME s.data # <<>>
      PROVE  \E k \in Nat : s.seq = Pos(e, 1 + k) /\ Piece(s.data, k) /\ k + Len(s.data) <= Z
  <2>1. PICK k \in Nat : s.seq = Pos(e, 1 + k) /\ Piece(s.data, k) /\ k + Len(s.data) <= S
        BY <1>1, <1>2, Zenon DEF SegBy, Content
  <2>2. s.data \in Seq(Nat)
        BY <1>1, Zenon DEF SegBy, Segs
  <2>3. k + Len(s.data) <= Z
    <3>1. Len(s.data) \in Nat
          BY <2>2, SMTT(30)
    <3> QED BY <2>1, <3>1, SMTT(30)
  <2> QED BY <2>1, <2>3, Zenon
<1>3. Content(e, s.seq, s.fl, s.data, Z, d)
      BY <1>1, <1>2, Zenon DEF SegBy, Content
<1> QED BY <1>1, <1>3, Zenon DEF SegBy

(* ... or the other side is given more. *)
LEMMA SegOther ==
    ASSUME NEW e, NEW s, NEW S, NEW c, NEW P \in Nat, NEW F, NEW top \in Int,
           SegBy(e, s, S, c, P, F, top), top <= P + 1,
           NEW Q \in Nat, NEW G, NEW u \in Int, P <= Q, F => G /\ Q = P, top <= u
    PROVE  SegBy(e, s, S, c, Q, G, u)
<1>1. ASSUME NEW r \in 0 .. top, r = P + 1 => F
      PROVE  r \in 0 .. u /\ (r = Q + 1 => G)
  <2>1. r \in Int /\ r <= P + 1 /\ r \in 0 .. u
        BY SMTT(30)
  <2>2. CASE F
        BY <2>1, <2>2, Zenon
  <2>3. CASE ~F
    <3>1. r # P + 1
          BY <1>1, <2>3, Zenon
    <3>2. r # Q + 1
          BY <2>1, <3>1, SMTT(30)
    <3> QED BY <2>1, <3>2, Zenon
  <2> QED BY <2>2, <2>3, Zenon
<1>2. ASSUME "ACK" \in s.fl
      PROVE  \E r \in 0 .. u : s.ack = Pos(Peer(e), 1 + r) /\ (r = Q + 1 => G)
      BY <1>1, <1>2, Zenon DEF SegBy
<1> QED BY <1>2, Zenon DEF SegBy
-----------------------------------------------------------------------------
(* The connection: e will be given no more bytes, what e has received, what *)
(* it has acknowledged at most, its half, and the segments.                 *)
Frozen(e) == tcb[e].closed \/ tcb[e].state = "FREED"
Heard(e) == Len(got[e]) + Len(tcb[e].rx)
TopOf(e) == IF Exists(e) THEN Top(tcb[e], got[e]) ELSE sent[Peer(e)] + 1
Half(e) == /\ tcb[e] \in Tcbs /\ sent[e] \in 0 .. Total[e] /\ got[e] \in Seq(Nat)
           /\ Len(got[e]) <= sent[Peer(e)] /\ Piece(got[e], 0)
           /\ IF Exists(e) THEN Good(e, tcb[e], sent[e], sent[Peer(e)], Frozen(Peer(e)), got[e])
              ELSE tcb[e] = Fresh(e, tcb[e].state, 0, "no")
           /\ Exists(e) /\ Exists(Peer(e)) => sent[e] - Len(tcb[e].buf) <= Heard(Peer(e))
Reset(s) == s \in Segs /\ s.to = "server" /\ s.fl = {"RST"}
SentBy(e, s) == SegBy(e, s, sent[e], Frozen(e), sent[Peer(e)], Frozen(Peer(e)), TopOf(e))

(* Before the server has a control block, there are only SYNs. *)
Start == /\ tcb["server"].state # "SYN_SENT"
         /\ tcb["client"].state = "NONE" => tcb["server"].state = "NONE" /\ net = {}
         /\ tcb["server"].state = "NONE" => /\ tcb["client"].state \in {"NONE", "SYN_SENT", "FREED"}
                                            /\ \A e \in End : sent[e] = 0 /\ got[e] = <<>>
                                            /\ \A s \in net : s.to = "server" /\ s.fl = {"SYN"}
TcpInv == /\ tcb \in [End -> Tcbs] /\ sent \in [End -> Nat] /\ got \in [End -> Seq(Nat)]
          /\ \A e \in End : Half(e)
          /\ \A s \in net : Reset(s) \/ \E e \in End : SentBy(e, s)
          /\ Start
-----------------------------------------------------------------------------
(* A step of one side that leaves it the control block u, Z bytes written,  *)
(* h read, and sends out.                                                   *)
Local(e, u, Z, h, out) ==
    /\ u \in Tcbs /\ Good(e, u, Z, sent[Peer(e)], Frozen(Peer(e)), h)
    /\ Z \in Nat /\ sent[e] <= Z /\ Z <= Total[e] /\ (tcb[e].closed => u.closed /\ Z = sent[e])
    /\ h \in Seq(Nat) /\ Piece(h, 0) /\ Len(h) <= sent[Peer(e)]
    /\ Top(tcb[e], got[e]) <= Top(u, h) /\ Heard(e) <= Len(h) + Len(u.rx)
    /\ Exists(Peer(e)) => Z - Len(u.buf) <= Heard(Peer(e))
    /\ u.state = "SYN_SENT" => tcb[e].state = "SYN_SENT"
    /\ \A x \in out : SegBy(e, x, Z, u.closed, sent[Peer(e)], Frozen(Peer(e)), Top(u, h))
    /\ tcb["server"].state = "NONE" => Z = 0 /\ h = <<>> /\ u.state = "SYN_SENT" /\ \A x \in out : x.fl = {"SYN"}

LEMMA PeerFacts == \A e \in End : /\ Peer(e) \in End /\ Peer(e) # e /\ Peer(Peer(e)) = e
                                  /\ \A f \in End : f = e \/ f = Peer(e)
  BY Zenon DEF End, Peer

(* What the invariant says of one side. *)
LEMMA InvFacts ==
    ASSUME TcpInv, NEW e \in End
    PROVE  /\ tcb[e] \in Tcbs /\ sent[e] \in Nat /\ sent[e] \in 0 .. Total[e] /\ got[e] \in Seq(Nat)
           /\ Len(got[e]) \in Nat /\ Len(tcb[e].rx) \in Nat /\ Heard(e) \in Nat /\ TopOf(e) \in Nat
           /\ TopOf(e) <= sent[Peer(e)] + 1 /\ Heard(e) <= sent[Peer(e)] /\ Frozen(e) \in BOOLEAN
           /\ Exists(e) => TopOf(e) = Top(tcb[e], got[e])
<1>1. Half(e) /\ Peer(e) \in End
      BY PeerFacts, Zenon DEF TcpInv
<1>2. tcb[e] \in Tcbs /\ sent[e] \in Nat /\ sent[e] \in 0 .. Total[e] /\ got[e] \in Seq(Nat) /\ sent[Peer(e)] \in Nat
      BY <1>1, Zenon DEF Half, TcpInv
<1>3. Len(got[e]) \in Nat /\ Len(tcb[e].rx) \in Nat /\ Top(tcb[e], got[e]) \in Nat
  <2>1. Len(got[e]) \in Nat
        BY <1>2, SMTT(30)
  <2> QED BY <1>2, <2>1, TopInt, Zenon
<1>4. Heard(e) \in Nat
  <2>1. PICK a \in Nat, b \in Nat : a = Len(got[e]) /\ b = Len(tcb[e].rx)
        BY <1>3, Zenon
  <2>2. a + b \in Nat
        BY SMTT(30)
  <2> QED BY <2>1, <2>2, Zenon DEF Heard
<1>5. tcb[e].closed \in BOOLEAN
      BY <1>2, Zenon DEF Tcbs
<1>6. CASE Exists(e)
  <2>1. TopOf(e) = Top(tcb[e], got[e])
        BY <1>6, Zenon DEF TopOf
  <2>2. Len(got[e]) + Len(tcb[e].rx) <= sent[Peer(e)]
        BY <1>1, <1>6, Zenon DEF Half, Good, Rcv
  <2>3. PICK x \in {0, 1} : Top(tcb[e], got[e]) = Len(got[e]) + Len(tcb[e].rx) + x
        BY Zenon DEF Top
  <2>4. Top(tcb[e], got[e]) <= sent[Peer(e)] + 1
    <3>1. PICK a \in Nat, b \in Nat : a = Len(got[e]) /\ b = Len(tcb[e].rx)
          BY <1>3, Zenon
    <3>2. a + b <= sent[Peer(e)] /\ Top(tcb[e], got[e]) = a + b + x
          BY <2>2, <2>3, <3>1, Zenon
    <3> QED BY <1>2, <3>2, SMTT(30)
  <2> QED BY <1>2, <1>3, <1>4, <1>5, <2>1, <2>2, <2>4, Zenon DEF Heard, Frozen
<1>7. CASE ~Exists(e)
  <2>1. TopOf(e) = sent[Peer(e)] + 1
        BY <1>7, Zenon DEF TopOf
  <2>2. sent[Peer(e)] + 1 \in Nat /\ sent[Peer(e)] + 1 <= sent[Peer(e)] + 1
        BY <1>2, SMTT(30)
  <2>3. tcb[e].rx = <<>> /\ Len(got[e]) <= sent[Peer(e)]
    <3>1. PICK st : tcb[e] = Fresh(e, st, 0, "no")
          BY <1>1, <1>7, Zenon DEF Half
    <3>2. Fresh(e, st, 0, "no").rx = <<>>
          BY DEF Fresh
    <3>3. tcb[e].rx = <<>>
          BY <3>1, <3>2
    <3> QED BY <1>1, <3>3, Zenon DEF Half
  <2>4. Len(got[e]) + Len(tcb[e].rx) <= sent[Peer(e)]
        BY <1>2, <1>3, <2>3, SMTT(30)
  <2> QED BY <1>2, <1>3, <1>4, <1>5, <1>7, <2>1, <2>2, <2>4, Zenon DEF Heard, Frozen
<1> QED BY <1>6, <1>7, Zenon

LEMMA LocalStep ==
    ASSUME TcpInv, NEW e \in End, Exists(e), NEW u, NEW Z, NEW h, NEW out, Local(e, u, Z, h, out),
           tcb' = [tcb EXCEPT ![e] = u], net' = net \cup out,
           sent' = [sent EXCEPT ![e] = Z], got' = [got EXCEPT ![e] = h]
    PROVE  TcpInv'
<1> DEFINE p == Peer(e)
<1>1. p \in End /\ p # e /\ Peer(p) = e /\ \A f \in End : f = e \/ f = p
      BY PeerFacts, Zenon
<1> HIDE DEF p
<1>2. tcb \in [End -> Tcbs] /\ sent \in [End -> Nat] /\ got \in [End -> Seq(Nat)] /\ Half(e) /\ Half(p) /\ Start
      BY <1>1, Zenon DEF TcpInv
<1>3. /\ u \in Tcbs /\ Good(e, u, Z, sent[p], Frozen(p), h)
      /\ Z \in Nat /\ sent[e] <= Z /\ Z <= Total[e] /\ (tcb[e].closed => u.closed /\ Z = sent[e])
      /\ h \in Seq(Nat) /\ Piece(h, 0) /\ Len(h) <= sent[p]
      /\ Top(tcb[e], got[e]) <= Top(u, h) /\ Heard(e) <= Len(h) + Len(u.rx)
      /\ Exists(p) => Z - Len(u.buf) <= Heard(p)
      /\ u.state = "SYN_SENT" => tcb[e].state = "SYN_SENT"
      /\ \A x \in out : SegBy(e, x, Z, u.closed, sent[p], Frozen(p), Top(u, h))
      /\ tcb["server"].state = "NONE" => Z = 0 /\ h = <<>> /\ u.state = "SYN_SENT" /\ \A x \in out : x.fl = {"SYN"}
      BY Zenon DEF Local, p
<1>4. /\ tcb'[e] = u /\ tcb'[p] = tcb[p] /\ sent'[e] = Z /\ sent'[p] = sent[p] /\ got'[e] = h /\ got'[p] = got[p]
      /\ tcb' \in [End -> Tcbs] /\ sent' \in [End -> Nat] /\ got' \in [End -> Seq(Nat)]
      BY <1>1, <1>2, <1>3, Zenon
<1>5. u.state \notin {"NONE", "FREED"} /\ tcb[e].state \notin {"NONE", "FREED"}
      BY <1>3, Zenon DEF Good, Snd, Exists
<1>6. Exists(e)' /\ (Exists(p)' <=> Exists(p)) /\ (Frozen(p)' <=> Frozen(p)) /\ (Frozen(e) => tcb[e].closed)
      /\ (Frozen(e)' <=> u.closed) /\ Heard(p)' = Heard(p) /\ Heard(e)' = Len(h) + Len(u.rx)
      BY <1>4, <1>5, Zenon DEF Exists, Frozen, Heard
<1>7. /\ sent[e] \in Nat /\ sent[p] \in Nat /\ sent[e] \in 0 .. Total[e] /\ sent[p] \in 0 .. Total[p]
      /\ TopOf(e) \in Nat /\ TopOf(e) = Top(tcb[e], got[e]) /\ TopOf(p) \in Nat /\ TopOf(p) <= sent[e] + 1
      /\ Heard(e) \in Nat /\ tcb[p] \in Tcbs /\ got[p] \in Seq(Nat)
      /\ Len(got[p]) \in Nat /\ Len(u.rx) \in Nat /\ Len(h) \in Nat /\ Top(u, h) \in Nat
  <2>1. Len(h) \in Nat
        BY <1>3, SMTT(30)
  <2>2. Top(u, h) \in Nat /\ Len(u.rx) \in Nat
        BY <1>3, TopInt, Zenon
  <2> QED BY <1>1, <2>1, <2>2, InvFacts, Zenon
<1>8. TopOf(e)' = Top(u, h) /\ (Exists(p) => TopOf(p)' = TopOf(p)) /\ (~Exists(p) => TopOf(p)' = Z + 1)
      BY <1>1, <1>4, <1>6, Zenon DEF TopOf
<1>9. Z \in 0 .. Total[e] /\ TopOf(p) <= Z + 1 /\ TopOf(p)' \in Int /\ TopOf(p) <= TopOf(p)' /\ Len(got[p]) <= Z
  <2>1. Len(got[p]) <= sent[e]
        BY <1>1, <1>2, Zenon DEF Half
  <2>2. Total[e] \in Nat
        BY Consts, Zenon
  <2>3. Z \in 0 .. Total[e] /\ TopOf(p) <= Z + 1 /\ Len(got[p]) <= Z
        BY <1>3, <1>7, <2>1, <2>2, SMTT(60)
  <2>4. CASE Exists(p)
    <3>1. TopOf(p)' = TopOf(p) /\ TopOf(p) \in Int /\ TopOf(p) <= TopOf(p)
          BY <1>7, <1>8, <2>4, SMTT(30)
    <3> QED BY <2>3, <3>1, Zenon
  <2>5. CASE ~Exists(p)
    <3>1. TopOf(p)' = Z + 1 /\ Z + 1 \in Int
          BY <1>3, <1>8, <2>5, SMTT(60)
    <3> QED BY <2>3, <3>1, Zenon
  <2> QED BY <2>4, <2>5, Zenon
<1>10. Half(e)'
  <2>1. Good(e, u, Z, sent[p], Frozen(p)', h)
    <3>1. Frozen(p)' = Frozen(p)
      <4>1. Frozen(p) \in BOOLEAN /\ Frozen(p)' \in BOOLEAN
        <5>1. tcb[p].closed \in BOOLEAN
              BY <1>7, Zenon DEF Tcbs
        <5> QED BY <1>4, <5>1, Zenon DEF Frozen
      <4> QED BY <1>6, <4>1, Zenon
    <3> QED BY <1>3, <3>1, Zenon
  <2>2. Peer(e) = p
        BY Zenon DEF p
  <2> QED BY <1>3, <1>4, <1>6, <1>9, <2>1, <2>2, Zenon DEF Half
<1>11. Half(p)'
  <2>1. CASE Exists(p)
    <3>1. Good(p, tcb[p], sent[p], sent[e], Frozen(e), got[p])
          BY <1>1, <1>2, <2>1, Zenon DEF Half
    <3>2. Good(p, tcb[p], sent[p], Z, Frozen(e)', got[p])
          BY <1>3, <1>6, <1>7, <3>1, GoodGrows, Zenon
    <3>3. sent[p] - Len(tcb[p].buf) <= Len(h) + Len(u.rx)
      <4>1. sent[p] - Len(tcb[p].buf) <= Heard(e)
            BY <1>1, <1>2, <2>1, Zenon DEF Half
      <4>2. Len(tcb[p].buf) \in Nat
            BY <1>7, TopInt, Zenon
      <4> QED BY <1>3, <1>7, <4>1, <4>2, SMTT(60)
    <3> QED BY <1>1, <1>2, <1>4, <1>6, <1>7, <1>9, <2>1, <3>2, <3>3, ZenonT(60) DEF Half
  <2>2. CASE ~Exists(p)
        BY <1>1, <1>2, <1>4, <1>6, <1>7, <1>9, <2>2, Zenon DEF Half
  <2> QED BY <2>1, <2>2, Zenon
<1>12. ASSUME NEW x \in net' PROVE Reset(x) \/ \E f \in End : SentBy(f, x)'
  <2>1. Frozen(e)' = u.closed /\ Frozen(p)' = Frozen(p) /\ (Frozen(e) => u.closed /\ Z = sent[e])
    <3>1. u.closed \in BOOLEAN /\ tcb[p].closed \in BOOLEAN
          BY <1>3, <1>7, Zenon DEF Tcbs
    <3>2. Frozen(p)' = Frozen(p)
          BY <1>4, <3>1, Zenon DEF Frozen
    <3>3. Frozen(e)' = u.closed
          BY <1>4, <1>5, <3>1, Zenon DEF Frozen
    <3> QED BY <1>3, <1>6, <3>2, <3>3, Zenon
  <2>2. Peer(e) = p /\ Peer(p) = e
        BY <1>1, Zenon DEF p
  <2>3. CASE x \in out
    <3>1. SegBy(e, x, Z, u.closed, sent[p], Frozen(p), Top(u, h))
          BY <1>3, <2>3, Zenon
    <3>2. SentBy(e, x)'
          BY <1>4, <1>8, <2>1, <2>2, <3>1, Zenon DEF SentBy
    <3> QED BY <3>2, Zenon
  <2>4. CASE x \in net
    <3>1. CASE SentBy(e, x)
      <4>1. SegBy(e, x, sent[e], Frozen(e), sent[p], Frozen(p), Top(tcb[e], got[e]))
            BY <1>7, <2>2, <3>1, Zenon DEF SentBy
      <4>2. Top(tcb[e], got[e]) \in Int /\ Top(u, h) \in Int /\ Top(tcb[e], got[e]) <= Top(u, h)
            BY <1>3, <1>7, SMTT(30)
      <4>3. SegBy(e, x, Z, u.closed, sent[p], Frozen(p), Top(u, h))
        <5>1. sent[e] \in Nat /\ Z \in Nat /\ sent[e] <= Z
              BY <1>3, <1>7, Zenon
        <5> QED BY <2>1, <4>1, <4>2, <5>1, SegMine, ZenonT(60)
      <4>4. SentBy(e, x)'
            BY <1>4, <1>8, <2>1, <2>2, <4>3, Zenon DEF SentBy
      <4> QED BY <4>4, Zenon
    <3>2. CASE SentBy(p, x)
      <4>1. SegBy(p, x, sent[p], Frozen(p), sent[e], Frozen(e), TopOf(p))
            BY <2>2, <3>2, Zenon DEF SentBy
      <4>2. TopOf(p) \in Int
            BY <1>7, SMT
      <4>3. SegBy(p, x, sent[p], Frozen(p), Z, u.closed, TopOf(p)')
            BY <1>3, <1>7, <1>9, <2>1, <4>1, <4>2, SegOther, ZenonT(60)
      <4>4. SentBy(p, x)'
            BY <1>4, <2>1, <2>2, <4>3, Zenon DEF SentBy
      <4> QED BY <1>1, <4>4, Zenon
    <3> QED BY <1>1, <2>4, <3>1, <3>2, Zenon DEF TcpInv
  <2> QED BY <2>3, <2>4, Zenon
<1>13. Start'
  <2>1. "client" \in End /\ "server" \in End
        BY Zenon DEF End
  <2>2. CASE e = "server"
    <3>1. tcb["server"].state # "SYN_SENT" /\ tcb["server"].state # "NONE" /\ tcb["client"].state # "NONE"
          BY <1>2, <1>5, <2>2, Zenon DEF Start
    <3>2. p = "client"
          BY <2>2, Zenon DEF p, Peer
    <3> QED BY <1>3, <1>4, <1>5, <2>2, <3>1, <3>2, Zenon DEF Start
  <2>3. CASE e = "client"
    <3>1. p = "server"
          BY <2>3, Zenon DEF p, Peer
    <3>2. tcb'["server"].state = tcb["server"].state /\ tcb["server"].state # "SYN_SENT" /\ tcb'["client"].state # "NONE"
          BY <1>2, <1>4, <1>5, <2>3, <3>1, Zenon DEF Start
    <3>3. ASSUME tcb["server"].state = "NONE"
          PROVE  /\ u.state = "SYN_SENT" /\ sent'[e] = 0 /\ sent'[p] = 0 /\ got'[e] = <<>> /\ got'[p] = <<>>
                 /\ \A x \in net' : x.to = "server" /\ x.fl = {"SYN"}
      <4>1. \A x \in out : x.to = p /\ x.fl = {"SYN"}
            BY <1>3, <3>3, Zenon DEF SegBy, p
      <4>2. \A x \in net : x.to = "server" /\ x.fl = {"SYN"}
            BY <1>2, <3>3, Zenon DEF Start
      <4>3. sent[p] = 0 /\ got[p] = <<>>
            BY <1>1, <1>2, <3>3, Zenon DEF Start
      <4> QED BY <1>3, <1>4, <3>1, <3>3, <4>1, <4>2, <4>3, Zenon
    <3> QED BY <1>1, <1>4, <2>3, <3>1, <3>2, <3>3, Zenon DEF Start
  <2> QED BY <2>2, <2>3, Zenon DEF End
<1>14. \A f \in End : Half(f)'
      BY <1>1, <1>10, <1>11, Zenon
<1>15. \A x \in net' : Reset(x)' \/ \E f \in End : SentBy(f, x)'
      BY <1>12, Zenon DEF Reset
<1> QED BY <1>4, <1>13, <1>14, <1>15, Zenon DEF TcpInv

LEMMA Mine ==
    ASSUME TcpInv, NEW e \in End, Exists(e)
    PROVE  /\ tcb[e] \in Tcbs /\ Good(e, tcb[e], sent[e], sent[Peer(e)], Frozen(Peer(e)), got[e])
           /\ sent[e] \in 0 .. Total[e] /\ sent[Peer(e)] \in 0 .. Total[Peer(e)] /\ Frozen(Peer(e)) \in BOOLEAN
           /\ got[e] \in Seq(Nat) /\ Piece(got[e], 0) /\ Len(got[e]) <= sent[Peer(e)]
           /\ Exists(Peer(e)) => sent[e] - Len(tcb[e].buf) <= Heard(Peer(e))
           /\ tcb["server"].state # "SYN_SENT"
           /\ tcb["server"].state = "NONE" => e = "client" /\ tcb[e].state = "SYN_SENT" /\ sent[e] = 0 /\ got[e] = <<>>
<1>1. Peer(e) \in End /\ Half(e) /\ Half(Peer(e)) /\ Start
      BY PeerFacts, Zenon DEF TcpInv
<1>2. Frozen(Peer(e)) \in BOOLEAN
      BY <1>1, InvFacts, Zenon
<1>3. tcb["server"].state = "NONE" => e = "client" /\ tcb[e].state = "SYN_SENT" /\ sent[e] = 0 /\ got[e] = <<>>
      BY <1>1, Zenon DEF Start, Exists, End
<1> QED BY <1>1, <1>2, <1>3, Zenon DEF Half, Start

(* A step that neither writes nor reads. *)
LEMMA Quiet ==
    ASSUME TcpInv, NEW e \in End, Exists(e), NEW u \in Tcbs, NEW out,
           Good(e, u, sent[e], sent[Peer(e)], Frozen(Peer(e)), got[e]),
           Exists(Peer(e)) => sent[e] - Len(u.buf) <= Heard(Peer(e)),
           Top(tcb[e], got[e]) <= Top(u, got[e]), Len(tcb[e].rx) <= Len(u.rx), tcb[e].closed => u.closed,
           u.state = "SYN_SENT" => tcb[e].state = "SYN_SENT",
           \A x \in out : SegBy(e, x, sent[e], u.closed, sent[Peer(e)], Frozen(Peer(e)), Top(u, got[e])),
           tcb["server"].state = "NONE" => u.state = "SYN_SENT" /\ \A x \in out : x.fl = {"SYN"},
           tcb' = [tcb EXCEPT ![e] = u], net' = net \cup out, UNCHANGED <<sent, got>>
    PROVE  TcpInv'
<1>1. /\ sent[e] \in 0 .. Total[e] /\ got[e] \in Seq(Nat) /\ Piece(got[e], 0) /\ Len(got[e]) <= sent[Peer(e)]
      /\ tcb["server"].state = "NONE" => sent[e] = 0 /\ got[e] = <<>>
      BY Mine, Zenon
<1>2. sent[e] \in Nat /\ sent[e] <= sent[e] /\ sent[e] <= Total[e]
  <2>1. Total[e] \in Nat
        BY Consts, Zenon
  <2> QED BY <1>1, <2>1, SMTT(30)
<1>3. Heard(e) <= Len(got[e]) + Len(u.rx)
  <2>1. Len(got[e]) \in Nat /\ Len(tcb[e].rx) \in Nat
        BY InvFacts, Zenon
  <2>2. Len(u.rx) \in Nat
        BY <1>1, TopInt, Zenon
  <2>3. Len(got[e]) + Len(tcb[e].rx) <= Len(got[e]) + Len(u.rx)
        BY <2>1, <2>2, SMTT(30)
  <2> QED BY <2>3, Zenon DEF Heard
<1>4. PICK Z, h : Z = sent[e] /\ h = got[e]
      BY Zenon
<1>5. Local(e, u, Z, h, out)
      BY <1>1, <1>2, <1>3, <1>4, Zenon DEF Local
<1>6. sent' = [sent EXCEPT ![e] = Z] /\ got' = [got EXCEPT ![e] = h]
      BY <1>4, Zenon DEF TcpInv
<1> QED BY <1>5, <1>6, LocalStep, Zenon

(* An acknowledgement of the peer says no more than what it has. *)
LEMMA PeerAcks ==
    ASSUME TcpInv, NEW e \in End, Exists(e), NEW s, SentBy(Peer(e), s)
    PROVE  LET L == IF Exists(Peer(e)) THEN Heard(Peer(e)) ELSE sent[e]
           IN  L \in Nat /\ Acks(e, s, sent[e], L)
<1> DEFINE p == Peer(e)
           L == IF Exists(p) THEN Heard(p) ELSE sent[e]
<1>1. p \in End /\ Peer(p) = e
      BY PeerFacts, Zenon
<1>2. /\ sent[e] \in Nat /\ Heard(p) \in Nat /\ TopOf(p) \in Nat /\ TopOf(p) <= sent[e] + 1
      /\ Exists(p) => TopOf(p) = Top(tcb[p], got[p])
      /\ Len(got[p]) \in Nat /\ Len(tcb[p].rx) \in Nat
      BY <1>1, InvFacts, Zenon
<1>3. L \in Nat
      BY <1>2, Zenon
<1>4. ASSUME NEW r \in 0 .. TopOf(p) PROVE r \in 0 .. sent[e] + 1 /\ (r <= L \/ L = sent[e])
  <2>1. r \in 0 .. sent[e] + 1 /\ r <= TopOf(p)
        BY <1>2, SMTT(30)
  <2>2. CASE ~Exists(p)
        BY <2>1, <2>2, Zenon
  <2>3. CASE Exists(p) /\ tcb[p].fin
    <3>1. Good(p, tcb[p], sent[p], sent[e], Frozen(e), got[p])
          BY <1>1, <2>3, Mine, Zenon
    <3>2. Heard(p) = sent[e]
          BY <2>3, <3>1, Zenon DEF Good, Rcv, Heard
    <3> QED BY <2>1, <2>3, <3>2, Zenon
  <2>4. CASE Exists(p) /\ ~tcb[p].fin
    <3>1. TopOf(p) = Len(got[p]) + Len(tcb[p].rx) + 0
          BY <1>2, <2>4, Zenon DEF Top
    <3>2. TopOf(p) = Len(got[p]) + Len(tcb[p].rx)
          BY <1>2, <3>1, SMTT(30)
    <3>3. TopOf(p) = L
          BY <2>4, <3>2, Zenon DEF Heard
    <3> QED BY <2>1, <3>3, Zenon
  <2> QED BY <2>2, <2>3, <2>4, Zenon
<1> HIDE DEF L, p
<1>5. ASSUME "ACK" \in s.fl PROVE \E r \in 0 .. sent[e] + 1 : s.ack = Pos(e, 1 + r) /\ (r <= L \/ L = sent[e])
  <2>1. PICK r \in 0 .. TopOf(p) : s.ack = Pos(e, 1 + r)
        BY <1>1, <1>5, Zenon DEF SentBy, SegBy, p
  <2> QED BY <1>4, <2>1, Zenon
<1>6. Acks(e, s, sent[e], L)
      BY <1>5, Zenon DEF Acks
<1> QED BY <1>3, <1>6, Zenon DEF L, p

LEMMA InputStep ==
    ASSUME TcpInv, NEW e \in End, Input(e)
    PROVE  TcpInv'
<1> DEFINE p == Peer(e)
           L == IF Exists(p) THEN Heard(p) ELSE sent[e]
           t == tcb[e]
<1>1. PICK s \in net, third \in BOOLEAN, cwnd \in Cwnd : s.to = e /\ Apply(e, tcp_input(e, t, s, third, cwnd))
      BY Zenon DEF Input
<1> DEFINE z == tcp_input(e, t, s, third, cwnd)
<1>2. Exists(e) /\ p \in End /\ p # e /\ Peer(p) = e /\ UNCHANGED <<sent, got>>
      BY PeerFacts, Zenon DEF Input
<1>3. /\ t \in Tcbs /\ Good(e, t, sent[e], sent[p], Frozen(p), got[e])
      /\ sent[e] \in 0 .. Total[e] /\ sent[p] \in 0 .. Total[p] /\ Frozen(p) \in BOOLEAN
      /\ got[e] \in Seq(Nat)
      /\ Exists(p) => sent[e] - Len(t.buf) <= Heard(p)
      /\ tcb["server"].state # "SYN_SENT"
      BY <1>2, Mine, Zenon
<1>4. tcb["server"].state # "NONE"
  <2>1. SUFFICES ASSUME tcb["server"].state = "NONE" PROVE FALSE
        BY Zenon
  <2>2. e = "client"
        BY <1>2, <2>1, Mine, Zenon
  <2>3. s.to = "server"
        BY <1>1, <2>1, Zenon DEF TcpInv, Start
  <2> QED BY <1>1, <2>2, <2>3, Zenon
<1>5. tcb' = [tcb EXCEPT ![e] = z.t] /\ net' = net \cup z.out
      BY <1>1, Zenon DEF Apply
<1>6. CASE Reset(s)
  <2>1. e = "server" /\ "RST" \in s.fl
        BY <1>1, <1>6, Zenon DEF Reset
  <2>2. t.state # "SYN_SENT"
        BY <1>3, <2>1, Zenon
  <2> DEFINE u == tcb_wake([t EXCEPT !.reset = TRUE, !.state = "CLOSED"])
  <2>3. z.t = u /\ z.out = {}
        BY <2>1, Zenon DEF tcp_input, Done
  <2> HIDE DEF z
  <2>4. u \in Tcbs /\ Good(e, u, sent[e], sent[p], Frozen(p), got[e]) /\ SndSame(t, u) /\ Up(t, u, got[e]) /\ u.state = "CLOSED"
        BY <1>3, <2>2, ResetGood, Zenon
  <2> HIDE DEF u
  <2>5. u.buf = t.buf /\ u.closed = t.closed /\ Top(t, got[e]) <= Top(u, got[e]) /\ Len(t.rx) <= Len(u.rx)
        BY <2>4, Zenon DEF SndSame, Up
  <2> QED BY <1>2, <1>3, <1>4, <1>5, <2>3, <2>4, <2>5, Quiet, ZenonT(60)
<1>7. CASE SentBy(p, s)
  <2>1. L \in Nat /\ Acks(e, s, sent[e], L)
        BY <1>2, <1>7, PeerAcks, Zenon
  <2>2. s \in Segs /\ "RST" \notin s.fl /\ Content(p, s.seq, s.fl, s.data, sent[p], Frozen(p))
        BY <1>7, Zenon DEF SentBy, SegBy
  <2>3. cwnd \in Int
    <3>1. TCP_MSS \in Int /\ TCP_SNDBUF \in Int
          BY TcpAssumption, SMT
    <3> QED BY <3>1, Zenon DEF Cwnd
  <2>4. sent[e] - Len(t.buf) <= L
    <3>1. CASE Exists(p)
          BY <1>3, <3>1, Zenon
    <3>2. CASE ~Exists(p)
      <4>1. Len(t.buf) \in Nat
            BY <1>3, TopInt, Zenon
      <4>2. sent[e] - Len(t.buf) <= sent[e]
        <5>1. sent[e] \in Nat
              BY InvFacts, Zenon
        <5> QED BY <4>1, <5>1, SMTT(30)
      <4> QED BY <3>2, <4>2, Zenon
    <3> QED BY <3>1, <3>2, Zenon
  <2> HIDE DEF L
  <2>5. /\ z.t \in Tcbs /\ Good(e, z.t, sent[e], sent[p], Frozen(p), got[e]) /\ sent[e] - Len(z.t.buf) <= L
        /\ Up(t, z.t, got[e])
        /\ z.t.state = "SYN_SENT" => t.state = "SYN_SENT"
        /\ \A x \in z.out : SegBy(e, x, sent[e], t.closed, sent[p], Frozen(p), Top(z.t, got[e]))
    <3> HIDE DEF z, t, p
    <3>1. PICK P, F, g, v, S : P = sent[p] /\ F = Frozen(p) /\ g = got[e] /\ v = t /\ S = sent[e]
          BY Zenon
    <3>2. /\ v \in Tcbs /\ S \in 0 .. Total[e] /\ P \in 0 .. Total[Peer(e)] /\ F \in BOOLEAN /\ g \in Seq(Nat)
          /\ Good(e, v, S, P, F, g) /\ Acks(e, s, S, L) /\ Content(Peer(e), s.seq, s.fl, s.data, P, F) /\ S - Len(v.buf) <= L
          BY <1>3, <2>1, <2>2, <2>4, <3>1, Zenon DEF p
    <3>3. z = tcp_input(e, v, s, third, cwnd)
          BY <3>1, Zenon DEF z
    <3>4. Sound(e, v, S, P, F, g, L, tcp_input(e, v, s, third, cwnd))
          BY <2>1, <2>2, <2>3, <3>2, InputGood, ZenonT(30)
    <3> QED BY <3>1, <3>3, <3>4, Zenon DEF Sound
  <2> HIDE DEF z
  <2>6. z.t.closed = t.closed /\ Top(t, got[e]) <= Top(z.t, got[e]) /\ Len(t.rx) <= Len(z.t.rx)
        BY <2>5, Zenon DEF Up
  <2>7. Exists(p) => sent[e] - Len(z.t.buf) <= Heard(p)
        BY <2>5, Zenon DEF L
  <2> QED BY <1>2, <1>4, <1>5, <2>5, <2>6, <2>7, Quiet, Zenon
<1>8. Reset(s) \/ SentBy(p, s)
  <2>1. CASE SentBy(e, s)
    <3>1. s.to = p
          BY <2>1, Zenon DEF SentBy, SegBy
    <3> QED BY <1>1, <1>2, <3>1, Zenon
  <2>2. \A f \in End : f = e \/ f = p
        BY PeerFacts, Zenon
  <2> QED BY <2>1, <2>2, Zenon DEF TcpInv
<1> QED BY <1>6, <1>7, <1>8, Zenon

(* A step that only puts a task to sleep or wakes it. *)
LEMMA SleepStep ==
    ASSUME TcpInv, NEW e \in End, Exists(e), NEW x \in Sleeps, Asleep([tcb[e] EXCEPT !.sleep = x]),
           tcb' = [tcb EXCEPT ![e].sleep = x], UNCHANGED <<net, sent, got>>
    PROVE  TcpInv'
<1> DEFINE t == tcb[e]
           u == [t EXCEPT !.sleep = x]
<1>1. /\ t \in Tcbs /\ Good(e, t, sent[e], sent[Peer(e)], Frozen(Peer(e)), got[e]) /\ got[e] \in Seq(Nat)
      /\ Exists(Peer(e)) => sent[e] - Len(t.buf) <= Heard(Peer(e))
      /\ tcb["server"].state = "NONE" => t.state = "SYN_SENT"
      BY Mine, Zenon
<1>2. u \in Tcbs /\ SndSame(t, u) /\ RcvSame(t, u) /\ u.state = t.state
      BY <1>1, Zenon DEF Tcbs, SndSame, RcvSame
<1>3. Asleep(u) /\ tcb' = [tcb EXCEPT ![e] = u] /\ net' = net \cup {} /\ UNCHANGED <<sent, got>>
      BY Zenon
<1> HIDE DEF u
<1>4. Good(e, u, sent[e], sent[Peer(e)], Frozen(Peer(e)), got[e])
      BY <1>1, <1>2, <1>3, SndKeeps, RcvKeeps, Zenon DEF Good
<1>5. Up(t, u, got[e]) /\ u.buf = t.buf /\ u.closed = t.closed
      BY <1>1, <1>2, UpSame, Zenon DEF SndSame
<1>6. Top(t, got[e]) <= Top(u, got[e]) /\ Len(t.rx) <= Len(u.rx)
      BY <1>5, Zenon DEF Up
<1>7. PICK out : out = {}
      BY Zenon
<1>8. /\ \A y \in out : SegBy(e, y, sent[e], u.closed, sent[Peer(e)], Frozen(Peer(e)), Top(u, got[e]))
      /\ \A y \in out : y.fl = {"SYN"}
      BY <1>7, Zenon
<1>9. Exists(Peer(e)) => sent[e] - Len(u.buf) <= Heard(Peer(e))
      BY <1>1, <1>5, Zenon
<1>10. tcb[e].closed => u.closed
      BY <1>5, Zenon
<1> QED BY <1>1, <1>2, <1>3, <1>4, <1>6, <1>7, <1>8, <1>9, <1>10, Quiet, ZenonT(60)

(* The side without a control block has no task in a call. *)
LEMMA NoTask ==
    ASSUME TcpInv, NEW e \in End, tcb[e].sleep # "no"
    PROVE  Exists(e)
<1>1. SUFFICES ASSUME ~Exists(e) PROVE FALSE
      BY Zenon
<1>2. PICK st : tcb[e] = Fresh(e, st, 0, "no")
      BY <1>1, Zenon DEF TcpInv, Half
<1>3. Fresh(e, st, 0, "no").sleep = "no"
      BY DEF Fresh
<1> QED BY <1>2, <1>3

LEMMA SleepSteps ==
    ASSUME TcpInv, ConnectWoken \/ Accept \/ \E e \in End : SendFull(e) \/ RecvEmpty(e)
    PROVE  TcpInv'
<1>0. {"no", "connect", "send", "recv"} \subseteq Sleeps /\ "client" \in End /\ "server" \in End
      BY Zenon DEF Sleeps, End
<1>1. ASSUME NEW e \in End, NEW x \in {"no", "connect", "send", "recv"}, Exists(e)
      PROVE  [tcb[e] EXCEPT !.sleep = x].sleep = x /\ \A f \in {"rx", "fin", "reset", "buf", "state"} : [tcb[e] EXCEPT !.sleep = x][f] = tcb[e][f]
  <2>1. tcb[e] \in Tcbs
        BY <1>1, Mine, Zenon
  <2> QED BY <2>1, Zenon DEF Tcbs
<1>2. CASE ConnectWoken
  <2>1. PICK sl \in {"no", "connect"} : tcb' = [tcb EXCEPT !["client"].sleep = sl]
        BY <1>2, Zenon DEF ConnectWoken
  <2>2. Exists("client") /\ UNCHANGED <<net, sent, got>>
        BY <1>0, <1>2, NoTask, Zenon DEF ConnectWoken
  <2>3. Asleep([tcb["client"] EXCEPT !.sleep = sl])
        BY <1>0, <1>1, <2>2, Zenon DEF Asleep
  <2> QED BY <1>0, <2>1, <2>2, <2>3, SleepStep, Zenon
<1>3. CASE Accept
  <2>1. tcb' = [tcb EXCEPT !["server"].sleep = "no"] /\ Exists("server") /\ UNCHANGED <<net, sent, got>>
        BY <1>0, <1>3, NoTask, Zenon DEF Accept
  <2>2. Asleep([tcb["server"] EXCEPT !.sleep = "no"])
        BY <1>0, <1>1, <2>1, Zenon DEF Asleep
  <2> QED BY <1>0, <2>1, <2>2, SleepStep, Zenon
<1>4. ASSUME NEW e \in End, SendFull(e) PROVE TcpInv'
  <2>1. /\ tcb' = [tcb EXCEPT ![e].sleep = "send"] /\ Exists(e) /\ UNCHANGED <<net, sent, got>>
        /\ Len(tcb[e].buf) = TCP_SNDBUF /\ ~tcb[e].reset /\ tcb[e].state \in {"ESTABLISHED", "CLOSE_WAIT"}
        BY <1>4, Zenon DEF SendFull, Running, MaySend
  <2>2. Asleep([tcb[e] EXCEPT !.sleep = "send"])
        BY <1>1, <2>1, Zenon DEF Asleep
  <2> QED BY <1>0, <2>1, <2>2, SleepStep, Zenon
<1>5. ASSUME NEW e \in End, RecvEmpty(e) PROVE TcpInv'
  <2>1. /\ tcb' = [tcb EXCEPT ![e].sleep = "recv"] /\ Exists(e) /\ UNCHANGED <<net, sent, got>>
        /\ tcb[e].rx = <<>> /\ ~tcb[e].reset /\ ~tcb[e].fin
        BY <1>5, Zenon DEF RecvEmpty, Running
  <2>2. Asleep([tcb[e] EXCEPT !.sleep = "recv"])
        BY <1>1, <2>1, Zenon DEF Asleep
  <2> QED BY <1>0, <2>1, <2>2, SleepStep, Zenon
<1> QED BY <1>2, <1>3, <1>4, <1>5, Zenon

(* A step that ends in tcp_try_send. *)
LEMMA SendStep ==
    ASSUME TcpInv, NEW e \in End, Exists(e), NEW v \in Tcbs,
           Good(e, v, sent[e], sent[Peer(e)], Frozen(Peer(e)), got[e]),
           v.buf = tcb[e].buf, v.rx = tcb[e].rx, v.fin = tcb[e].fin, tcb[e].closed => v.closed,
           v.state # "SYN_SENT", tcb["server"].state # "NONE",
           NEW cwnd \in Int, Apply(e, TrySend(e, v, cwnd)), UNCHANGED <<sent, got>>
    PROVE  TcpInv'
<1> DEFINE r == TrySend(e, v, cwnd)
           t == tcb[e]
<1>1. /\ t \in Tcbs /\ sent[e] \in 0 .. Total[e] /\ sent[Peer(e)] \in 0 .. Total[Peer(e)] /\ Frozen(Peer(e)) \in BOOLEAN
      /\ got[e] \in Seq(Nat)
      /\ Exists(Peer(e)) => sent[e] - Len(t.buf) <= Heard(Peer(e))
      BY Mine, Zenon
<1>2. /\ r.t \in Tcbs /\ SendSame(v, r.t) /\ Good(e, r.t, sent[e], sent[Peer(e)], Frozen(Peer(e)), got[e])
      /\ \A x \in r.out : SegBy(e, x, sent[e], v.closed, sent[Peer(e)], Frozen(Peer(e)), Top(v, got[e]))
      BY <1>1, TrySendGood, ZenonT(30)
<1>3. tcb' = [tcb EXCEPT ![e] = r.t] /\ net' = net \cup r.out
      BY Zenon DEF Apply
<1> HIDE DEF r
<1>4. /\ r.t.buf = t.buf /\ r.t.rx = t.rx /\ r.t.fin = t.fin /\ r.t.closed = v.closed /\ r.t.state = v.state
      BY <1>2, Zenon DEF SendSame
<1>5. Top(r.t, got[e]) = Top(t, got[e]) /\ Top(v, got[e]) = Top(t, got[e])
      BY <1>4, Zenon DEF Top
<1>6. Top(t, got[e]) <= Top(t, got[e]) /\ Len(t.rx) <= Len(t.rx)
  <2>1. Top(t, got[e]) \in Nat /\ Len(t.rx) \in Nat
        BY <1>1, TopInt, Zenon
  <2> QED BY <2>1, SMTT(30)
<1>7. \A x \in r.out : SegBy(e, x, sent[e], r.t.closed, sent[Peer(e)], Frozen(Peer(e)), Top(r.t, got[e]))
      BY <1>2, <1>4, <1>5, Zenon
<1>8. Top(t, got[e]) <= Top(r.t, got[e]) /\ Len(t.rx) <= Len(r.t.rx) /\ (t.closed => r.t.closed)
      BY <1>4, <1>5, <1>6, Zenon
<1>9. Exists(Peer(e)) => sent[e] - Len(r.t.buf) <= Heard(Peer(e))
      BY <1>1, <1>4, Zenon
<1> QED BY <1>2, <1>3, <1>4, <1>7, <1>8, <1>9, Quiet, Zenon

LEMMA WindowInt == Cwnd \subseteq Int /\ TCP_MSS \in Int
<1>1. TCP_MSS \in Int /\ TCP_SNDBUF \in Int
      BY TcpAssumption, SMT
<1> QED BY <1>1, Zenon DEF Cwnd

(* A control block that is closed, with nothing sent. *)
LEMMA ClosedGood ==
    ASSUME NEW e, NEW t \in Tcbs, NEW S, NEW P, NEW F, NEW g \in Seq(Nat), Good(e, t, S, P, F, g), t.sleep = "no",
           NEW u \in Tcbs, u.una = t.una, u.nxt = t.nxt, u.buf = t.buf, u.psyn = t.psyn, u.fsent = t.fsent,
           u.timer = t.timer, u.closed, RcvSame(t, u), u.sleep = t.sleep,
           u.state = t.state \/ (t.state = "ESTABLISHED" /\ u.state = "FIN_WAIT1") \/ (t.state = "CLOSE_WAIT" /\ u.state = "LAST_ACK")
    PROVE  Good(e, u, S, P, F, g)
<1>1. Snd(e, u, S)
  <2>1. SynOut(e, u, S) \/ DataOut(e, u, S) \/ FinOut(e, u, S) \/ FinAcked(e, u, S)
    <3>1. CASE u.state = t.state
          BY <3>1, Zenon DEF Good, Snd, SynOut, DataOut, FinOut, FinAcked
    <3>2. CASE u.state # t.state
          BY <3>2, Zenon DEF Good, Snd, SynOut, DataOut, FinOut, FinAcked
    <3> QED BY <3>1, <3>2, Zenon
  <2>2. u.state \notin {"NONE", "FREED"} /\ (u.psyn => u.state \in {"SYN_SENT", "SYN_RCVD", "CLOSED"})
        BY Zenon DEF Good, Snd
  <2> QED BY <2>1, <2>2, Zenon DEF Good, Snd
<1>2. Rcv(e, u, P, F, g)
  <2>1. Top(u, g) = Top(t, g)
        BY Zenon DEF Top, RcvSame
  <2>2. CASE u.state = t.state
        BY <2>2, RcvKeeps, Zenon DEF Good
  <2>3. CASE t.state = "ESTABLISHED" /\ u.state = "FIN_WAIT1"
        BY <2>1, <2>3, Zenon DEF Good, Rcv, RcvSame, Receiving
  <2>4. CASE t.state = "CLOSE_WAIT" /\ u.state = "LAST_ACK"
        BY <2>1, <2>4, Zenon DEF Good, Rcv, RcvSame, Receiving
  <2> QED BY <2>2, <2>3, <2>4, Zenon
<1>3. Asleep(u)
      BY Zenon DEF Asleep
<1> QED BY <1>1, <1>2, <1>3, Zenon DEF Good

LEMMA CloseStep ==
    ASSUME TcpInv, NEW e \in End, Close(e)
    PROVE  TcpInv'
<1> DEFINE t == tcb[e]
           v(st) == [t EXCEPT !.closed = TRUE, !.pfin = TRUE, !.state = st]
           w == [t EXCEPT !.closed = TRUE]
<1>1. PICK cwnd \in Cwnd :
          Apply(e, CASE t.state = "ESTABLISHED" -> TrySend(e, v("FIN_WAIT1"), cwnd)
                     [] t.state = "CLOSE_WAIT" -> TrySend(e, v("LAST_ACK"), cwnd)
                     [] OTHER -> Done(w, {}))
      BY Zenon DEF Close
<1>2. Exists(e) /\ t.sleep = "no" /\ UNCHANGED <<sent, got>> /\ cwnd \in Int
      BY WindowInt, Zenon DEF Close, Running
<1>3. /\ t \in Tcbs /\ Good(e, t, sent[e], sent[Peer(e)], Frozen(Peer(e)), got[e])
      /\ got[e] \in Seq(Nat)
      /\ Exists(Peer(e)) => sent[e] - Len(t.buf) <= Heard(Peer(e))
      /\ tcb["server"].state = "NONE" => t.state = "SYN_SENT"
      BY <1>2, Mine, Zenon
<1>4. ASSUME NEW st \in {"FIN_WAIT1", "LAST_ACK"}, Apply(e, TrySend(e, v(st), cwnd)),
             (t.state = "ESTABLISHED" /\ st = "FIN_WAIT1") \/ (t.state = "CLOSE_WAIT" /\ st = "LAST_ACK")
      PROVE  TcpInv'
  <2> DEFINE u == v(st)
  <2>1. /\ u \in Tcbs /\ u.una = t.una /\ u.nxt = t.nxt /\ u.buf = t.buf /\ u.psyn = t.psyn /\ u.fsent = t.fsent
        /\ u.timer = t.timer /\ u.closed /\ RcvSame(t, u) /\ u.sleep = t.sleep /\ u.state = st
    <3>1. st \in States
          BY Zenon DEF States
    <3> QED BY <1>3, <3>1, Zenon DEF Tcbs, RcvSame
  <2>2. Apply(e, TrySend(e, u, cwnd))
        BY <1>4, Zenon
  <2> HIDE DEF u, v
  <2>3. Good(e, u, sent[e], sent[Peer(e)], Frozen(Peer(e)), got[e])
        BY <1>2, <1>3, <1>4, <2>1, ClosedGood, ZenonT(30)
  <2>4. u.rx = t.rx /\ u.fin = t.fin /\ u.state # "SYN_SENT" /\ tcb["server"].state # "NONE"
        BY <1>3, <1>4, <2>1, Zenon DEF RcvSame
  <2> QED BY <1>2, <2>1, <2>2, <2>3, <2>4, SendStep, Zenon
<1>5. CASE t.state = "ESTABLISHED"
      BY <1>1, <1>4, <1>5, Zenon
<1>6. CASE t.state = "CLOSE_WAIT"
      BY <1>1, <1>4, <1>6, Zenon
<1>7. CASE t.state \notin {"ESTABLISHED", "CLOSE_WAIT"}
  <2>1. Apply(e, Done(w, {}))
        BY <1>1, <1>7, Zenon
  <2>2. tcb' = [tcb EXCEPT ![e] = w] /\ net' = net \cup {}
        BY <2>1, Zenon DEF Apply, Done
  <2>3. /\ w \in Tcbs /\ w.una = t.una /\ w.nxt = t.nxt /\ w.buf = t.buf /\ w.psyn = t.psyn /\ w.fsent = t.fsent
        /\ w.timer = t.timer /\ w.closed /\ RcvSame(t, w) /\ w.sleep = t.sleep /\ w.state = t.state
        BY <1>3, Zenon DEF Tcbs, RcvSame
  <2> HIDE DEF w
  <2>4. Good(e, w, sent[e], sent[Peer(e)], Frozen(Peer(e)), got[e])
        BY <1>2, <1>3, <2>3, ClosedGood, ZenonT(30)
  <2>5. PICK out : out = {}
        BY Zenon
  <2>6. /\ \A y \in out : SegBy(e, y, sent[e], w.closed, sent[Peer(e)], Frozen(Peer(e)), Top(w, got[e]))
        /\ \A y \in out : y.fl = {"SYN"}
        BY <2>5, Zenon
  <2>7. Top(t, got[e]) \in Nat /\ Len(t.rx) \in Nat
        BY <1>3, TopInt, Zenon
  <2>8. Top(t, got[e]) <= Top(t, got[e]) /\ Len(t.rx) <= Len(t.rx)
        BY <2>7, SMTT(30)
  <2>9. Top(w, got[e]) = Top(t, got[e]) /\ w.rx = t.rx
        BY <2>3, Zenon DEF Top, RcvSame
  <2>10. Top(t, got[e]) <= Top(w, got[e]) /\ Len(t.rx) <= Len(w.rx) /\ (t.closed => w.closed)
        BY <2>3, <2>8, <2>9, Zenon
  <2>11. Exists(Peer(e)) => sent[e] - Len(w.buf) <= Heard(Peer(e))
        BY <1>3, <2>3, Zenon
  <2> QED BY <1>2, <1>3, <2>2, <2>3, <2>4, <2>5, <2>6, <2>10, <2>11, Quiet, ZenonT(60)
<1> QED BY <1>5, <1>6, <1>7, Zenon

(* The first segment of a side acknowledges nothing. *)
LEMMA SynGood ==
    ASSUME NEW e \in End, NEW t \in Tcbs, t.una = Pos(e, 0), NEW S, NEW c, NEW P, NEW F, NEW top
    PROVE  SegBy(e, Seg(e, t, t.una, {"SYN"}, <<>>), S, c, P, F, top)
<1> DEFINE s == Seg(e, t, t.una, {"SYN"}, <<>>)
           W == TCP_RCVBUF - Len(t.rx)
<1>1. W \in Int
  <2>1. t.rx \in Seq(Nat)
        BY Zenon DEF Tcbs
  <2>2. Len(t.rx) \in Nat
        BY <2>1, SMT
  <2>3. TCP_RCVBUF \in Nat
        BY TcpAssumption, SMT
  <2> QED BY <2>2, <2>3, SMT
<1>2. /\ s.to = Peer(e) /\ s.seq = t.una /\ s.ack = t.rcv /\ s.fl = {"SYN"} /\ s.data = <<>> /\ s.win = W
      /\ s = [to |-> Peer(e), seq |-> t.una, ack |-> t.rcv, fl |-> {"SYN"}, data |-> <<>>, win |-> W]
      BY Zenon DEF Seg
<1>3. Peer(e) \in End /\ t.una \in Int /\ t.rcv \in Int /\ {"SYN"} \subseteq Flags
      BY Consts, Zenon DEF Tcbs, Flags
<1> HIDE DEF W, s
<1>4. <<>> \in Seq(Nat)
      BY SMT
<1>5. s \in Segs
      BY <1>1, <1>2, <1>3, <1>4, Zenon DEF Segs
<1>6. Content(e, s.seq, s.fl, s.data, S, c)
      BY <1>2, Zenon DEF Content
<1> QED BY <1>2, <1>5, <1>6, Zenon DEF SegBy, s

LEMMA TickStep ==
    ASSUME TcpInv, NEW e \in End, Tick(e)
    PROVE  TcpInv'
<1> DEFINE t == tcb[e]
<1>1. /\ Exists(e) /\ UNCHANGED <<sent, got>> /\ t.timer /\ t.state # "CLOSED"
      BY Zenon DEF Tick
<1>2. /\ t \in Tcbs /\ Good(e, t, sent[e], sent[Peer(e)], Frozen(Peer(e)), got[e])
      /\ sent[e] \in 0 .. Total[e] /\ sent[Peer(e)] \in 0 .. Total[Peer(e)] /\ Frozen(Peer(e)) \in BOOLEAN
      /\ got[e] \in Seq(Nat)
      /\ Exists(Peer(e)) => sent[e] - Len(t.buf) <= Heard(Peer(e))
      /\ tcb["server"].state = "NONE" => t.state = "SYN_SENT"
      BY <1>1, Mine, Zenon
<1>3. CASE Apply(e, Done(tcb_wake([t EXCEPT !.reset = TRUE]), {}))
  <2> DEFINE v == [t EXCEPT !.reset = TRUE]
             u == tcb_wake(v)
  <2>1. v \in Tcbs /\ SndSame(t, v) /\ RcvSame(t, v) /\ v.state = t.state
        BY <1>2, Zenon DEF Tcbs, SndSame, RcvSame
  <2>2. tcb' = [tcb EXCEPT ![e] = u] /\ net' = net \cup {}
        BY <1>3, Zenon DEF Apply, Done
  <2> HIDE DEF v
  <2>3. Snd(e, v, sent[e]) /\ Rcv(e, v, sent[Peer(e)], Frozen(Peer(e)), got[e])
        BY <1>2, <2>1, SndKeeps, RcvKeeps, Zenon DEF Good
  <2>4. u \in Tcbs /\ Good(e, u, sent[e], sent[Peer(e)], Frozen(Peer(e)), got[e]) /\ SndSame(v, u) /\ RcvSame(v, u) /\ u.state = v.state
        BY <2>1, <2>3, WakeGood, Zenon
  <2> HIDE DEF u
  <2>5. RcvSame(t, u) /\ u.closed = t.closed /\ u.buf = t.buf /\ u.state = t.state
        BY <2>1, <2>4, Zenon DEF SndSame, RcvSame
  <2>6. Up(t, u, got[e])
        BY <1>2, <2>4, <2>5, UpSame, Zenon
  <2>7. Top(t, got[e]) <= Top(u, got[e]) /\ Len(t.rx) <= Len(u.rx) /\ (t.closed => u.closed)
        BY <2>6, Zenon DEF Up
  <2>8. PICK out : out = {}
        BY Zenon
  <2>9. /\ \A y \in out : SegBy(e, y, sent[e], u.closed, sent[Peer(e)], Frozen(Peer(e)), Top(u, got[e]))
        /\ \A y \in out : y.fl = {"SYN"}
        BY <2>8, Zenon
  <2>10. Exists(Peer(e)) => sent[e] - Len(u.buf) <= Heard(Peer(e))
        BY <1>2, <2>5, Zenon
  <2>11. u.state = "SYN_SENT" => t.state = "SYN_SENT"
        BY <2>5, Zenon
  <2>12. tcb["server"].state = "NONE" => u.state = "SYN_SENT"
        BY <1>2, <2>5, Zenon
  <2> QED BY <1>1, <2>2, <2>4, <2>7, <2>8, <2>9, <2>10, <2>11, <2>12, Quiet, ZenonT(60)
<1>4. CASE t.psyn /\ Apply(e, Done(t, {Seg(e, t, t.una, IF t.state = "SYN_RCVD" THEN {"SYN", "ACK"} ELSE {"SYN"}, <<>>)}))
  <2> DEFINE fl == IF t.state = "SYN_RCVD" THEN {"SYN", "ACK"} ELSE {"SYN"}
             s == Seg(e, t, t.una, fl, <<>>)
  <2>1. tcb' = [tcb EXCEPT ![e] = t] /\ net' = net \cup {s}
        BY <1>4, Zenon DEF Apply, Done
  <2>2. t.state \in {"SYN_SENT", "SYN_RCVD"} /\ t.una = Pos(e, 0)
        BY <1>1, <1>2, <1>4, Zenon DEF Good, Snd, SynOut, DataOut, FinOut, FinAcked
  <2>3. SegBy(e, s, sent[e], t.closed, sent[Peer(e)], Frozen(Peer(e)), Top(t, got[e])) /\ (t.state = "SYN_SENT" => s.fl = {"SYN"})
    <3>1. CASE t.state = "SYN_SENT"
      <4>1. fl = {"SYN"}
            BY <3>1, Zenon
      <4>2. s = Seg(e, t, t.una, {"SYN"}, <<>>)
            BY <4>1, Zenon
      <4>3. s.fl = {"SYN"}
            BY <4>1, Zenon DEF Seg
      <4>4. SegBy(e, Seg(e, t, t.una, {"SYN"}, <<>>), sent[e], t.closed, sent[Peer(e)], Frozen(Peer(e)), Top(t, got[e]))
            BY <1>2, <2>2, SynGood, Zenon
      <4> QED BY <4>2, <4>3, <4>4, Zenon
    <3>2. CASE t.state = "SYN_RCVD"
      <4>1. fl = {"SYN", "ACK"}
            BY <3>2, Zenon
      <4>2. fl \in SUBSET {"SYN", "ACK", "FIN"} /\ "FIN" \notin fl
            BY <4>1, Zenon
      <4>3. t.una \in Int
            BY <1>2, Zenon DEF Tcbs
      <4>4. <<>> \in Seq(Nat)
            BY SMT
      <4> HIDE DEF fl
      <4>5. Content(e, t.una, fl, <<>>, sent[e], t.closed)
            BY <2>2, <4>2, Zenon DEF Content
      <4>6. Rcv(e, t, sent[Peer(e)], Frozen(Peer(e)), got[e]) /\ t.state # "SYN_SENT"
            BY <1>2, <3>2, Zenon DEF Good
      <4>7. SegBy(e, Seg(e, t, t.una, fl, <<>>), sent[e], t.closed, sent[Peer(e)], Frozen(Peer(e)), Top(t, got[e]))
            BY <1>2, <4>2, <4>3, <4>4, <4>5, <4>6, SegGood, ZenonT(60)
      <4> QED BY <3>2, <4>7, Zenon
    <3> QED BY <2>2, <3>1, <3>2, Zenon
  <2> HIDE DEF s
  <2>4. Top(t, got[e]) \in Nat /\ Len(t.rx) \in Nat
        BY <1>2, TopInt, Zenon
  <2>5. Top(t, got[e]) <= Top(t, got[e]) /\ Len(t.rx) <= Len(t.rx)
        BY <2>4, SMTT(30)
  <2>6. PICK u, out : u = t /\ out = {s}
        BY Zenon
  <2>7. /\ \A y \in out : SegBy(e, y, sent[e], u.closed, sent[Peer(e)], Frozen(Peer(e)), Top(u, got[e]))
        /\ tcb["server"].state = "NONE" => u.state = "SYN_SENT" /\ \A y \in out : y.fl = {"SYN"}
        BY <1>2, <2>3, <2>6, Zenon
  <2>8. /\ u \in Tcbs /\ Good(e, u, sent[e], sent[Peer(e)], Frozen(Peer(e)), got[e])
        /\ Exists(Peer(e)) => sent[e] - Len(u.buf) <= Heard(Peer(e))
        /\ Top(t, got[e]) <= Top(u, got[e]) /\ Len(t.rx) <= Len(u.rx) /\ (t.closed => u.closed) /\ (u.state = "SYN_SENT" => t.state = "SYN_SENT")
        BY <1>2, <2>5, <2>6, Zenon
  <2>9. tcb' = [tcb EXCEPT ![e] = u] /\ net' = net \cup out
        BY <2>1, <2>6, Zenon
  <2> QED BY <1>1, <2>7, <2>8, <2>9, Quiet, Zenon
<1>5. CASE ~t.psyn /\ Apply(e, TrySend(e, Rewind(t), TCP_MSS))
  <2> DEFINE v == Rewind(t)
  <2>1. (DataOut(e, t, sent[e]) \/ FinOut(e, t, sent[e])) /\ t.state # "SYN_SENT" /\ tcb["server"].state # "NONE"
        BY <1>1, <1>2, <1>5, Zenon DEF Good, Snd, SynOut, DataOut, FinOut, FinAcked
  <2>2. v \in Tcbs /\ Good(e, v, sent[e], sent[Peer(e)], Frozen(Peer(e)), got[e]) /\ RcvSame(t, v)
        /\ v.buf = t.buf /\ v.state = t.state /\ v.closed = t.closed
        BY <1>2, <2>1, RewindGood, Zenon
  <2>3. Apply(e, TrySend(e, v, TCP_MSS)) /\ TCP_MSS \in Int
        BY <1>5, WindowInt, Zenon
  <2> HIDE DEF v
  <2>4. v.rx = t.rx /\ v.fin = t.fin /\ (t.closed => v.closed) /\ v.state # "SYN_SENT"
        BY <2>1, <2>2, Zenon DEF RcvSame
  <2> QED BY <1>1, <2>1, <2>2, <2>3, <2>4, SendStep, ZenonT(60)
<1> QED BY <1>3, <1>4, <1>5, Zenon DEF Tick

(* tcp_send appends to the send buffer. *)
Appended(e, t, S, P, F, g, Z, v) ==
    /\ v \in Tcbs /\ Good(e, v, Z, P, F, g) /\ RcvSame(t, v) /\ v.state = t.state /\ v.closed = t.closed
    /\ Z \in 0 .. Total[e] /\ Z - Len(v.buf) = S - Len(t.buf)

LEMMA AppendGood ==
    ASSUME NEW e \in End, NEW t \in Tcbs, NEW S \in 0 .. Total[e], NEW P, NEW F, NEW g,
           Good(e, t, S, P, F, g), t.sleep = "no", ~t.closed, t.state \in {"ESTABLISHED", "CLOSE_WAIT"},
           NEW n \in 1 .. Least(TCP_SNDBUF - Len(t.buf), Total[e] - S), NEW Z, Z = S + n,
           NEW v, v = [t EXCEPT !.buf = t.buf \o [i \in 1 .. n |-> S + i]]
    PROVE  Appended(e, t, S, P, F, g, Z, v)
<1> DEFINE d == [i \in 1 .. n |-> S + i]
           b == t.buf \o d
<1>1. t.buf \in Seq(Nat)
      BY Zenon DEF Tcbs
<1>2. PICK a \in Nat : a = Len(t.buf)
  <2>1. Len(t.buf) \in Nat
        BY <1>1, SMT
  <2> QED BY <2>1, Zenon
<1>3. S \in Nat /\ Total[e] \in Nat /\ S <= Total[e]
      BY Consts, SMTT(30)
<1>4. n \in Nat /\ n > 0 /\ a + n <= TCP_SNDBUF /\ S + n <= Total[e]
  <2>1. n \in 1 .. Least(TCP_SNDBUF - a, Total[e] - S)
        BY <1>2, Zenon
  <2>2. TCP_SNDBUF \in Nat
        BY TcpAssumption, SMT
  <2> QED BY <1>3, <2>1, <2>2, SMTT(60) DEF Least
<1>5. d \in Seq(Nat) /\ Len(d) = n /\ Piece(d, S)
      BY <1>3, <1>4, SMTT(60) DEF Piece
<1>6. a <= S /\ a <= TCP_SNDBUF /\ Piece(t.buf, S - a)
      BY <1>2, Zenon DEF Good, Snd
<1> HIDE DEF d
<1>7. b \in Seq(Nat) /\ Len(b) = a + n /\ Piece(b, S - a)
  <2>1. S - a \in Nat /\ (S - a) + a = S /\ n \in 0 .. n
        BY <1>3, <1>4, <1>6, SMTT(60)
  <2>2. t.buf \o SubSeq(d, 1, n) = b
    <3>1. SubSeq(d, 1, Len(d)) = d
          BY <1>4, <1>5, SMTT(60)
    <3> QED BY <1>5, <3>1, Zenon DEF b
  <2>3. Piece(d, (S - a) + Len(t.buf)) /\ n \in 0 .. Len(d)
        BY <1>2, <1>5, <2>1, Zenon
  <2> DEFINE x == t.buf \o SubSeq(d, 1, n)
  <2>4. x \in Seq(Nat) /\ Len(x) = Len(t.buf) + n /\ Piece(x, S - a)
        BY <1>1, <1>5, <1>6, <2>1, <2>3, PieceCat, ZenonT(60)
  <2> QED BY <1>2, <2>2, <2>4, Zenon
<1> HIDE DEF b
<1>8. /\ v \in Tcbs /\ v.buf = b /\ RcvSame(t, v) /\ v.state = t.state /\ v.closed = t.closed /\ v.una = t.una /\ v.nxt = t.nxt
      /\ v.psyn = t.psyn /\ v.pfin = t.pfin /\ v.fsent = t.fsent /\ v.sleep = t.sleep /\ v.reset = t.reset
  <2>1. v = [t EXCEPT !.buf = b]
        BY Zenon DEF b, d
  <2> QED BY <1>7, <2>1, Zenon DEF Tcbs, RcvSame
<1>9. S + n \in 0 .. Total[e] /\ (S + n) - (a + n) = S - a /\ a + n <= S + n /\ (1 + (S + n)) - (a + n) = (1 + S) - a
      BY <1>3, <1>4, <1>6, SMTT(60)
<1>10. Len(v.buf) = a + n
      BY <1>7, <1>8, Zenon
<1>11. DataOut(e, t, S)
      BY Zenon DEF Good, Snd, SynOut, DataOut, FinOut, FinAcked
<1>12. DataOut(e, v, S + n)
  <2>1. PICK k \in 0 .. a : t.nxt = Pos(e, 1 + S - a + k)
        BY <1>2, <1>11, Zenon DEF DataOut
  <2>2. k \in 0 .. a + n
        BY <1>4, SMTT(30)
  <2>3. v.nxt = Pos(e, 1 + (S + n) - Len(v.buf) + k)
    <3>1. 1 + (S + n) - Len(v.buf) + k = 1 + S - a + k
          BY <1>3, <1>4, <1>10, SMTT(60)
    <3> QED BY <1>8, <2>1, <3>1, Zenon
  <2>4. v.una = Pos(e, 1 + (S + n) - Len(v.buf))
    <3>1. t.una = Pos(e, 1 + S - a)
          BY <1>2, <1>11, Zenon DEF DataOut
    <3>2. 1 + (S + n) - Len(v.buf) = 1 + S - a
          BY <1>3, <1>4, <1>10, SMTT(60)
    <3> QED BY <1>8, <3>1, <3>2, Zenon
  <2> QED BY <1>8, <1>10, <1>11, <2>2, <2>3, <2>4, ZenonT(60) DEF DataOut
<1>13. Piece(v.buf, (S + n) - Len(v.buf)) /\ Len(v.buf) <= S + n /\ Len(v.buf) <= TCP_SNDBUF
      BY <1>4, <1>7, <1>8, <1>9, <1>10, ZenonT(60)
<1>14. Snd(e, v, S + n)
  <2>1. /\ v.pfin \/ v.fsent => v.closed
        /\ v.psyn => v.state \in {"SYN_SENT", "SYN_RCVD", "CLOSED"}
        /\ v.state \notin {"NONE", "FREED"}
        BY <1>8, Zenon DEF Good, Snd
  <2> QED BY <1>12, <1>13, <2>1, Zenon DEF Snd
<1>15. Rcv(e, v, P, F, g) /\ Asleep(v)
      BY <1>8, RcvKeeps, Zenon DEF Good, Asleep
<1>16. (S + n) - Len(v.buf) = S - Len(t.buf)
      BY <1>2, <1>9, <1>10, Zenon
<1> QED BY <1>8, <1>9, <1>14, <1>15, <1>16, Zenon DEF Good, Appended

LEMMA SendingStep ==
    ASSUME TcpInv, NEW e \in End, Send(e)
    PROVE  TcpInv'
<1> DEFINE t == tcb[e]
<1>1. /\ Exists(e) /\ UNCHANGED got /\ t.sleep = "no" /\ ~t.closed /\ t.state \in {"ESTABLISHED", "CLOSE_WAIT"}
      BY Zenon DEF Send, Running, MaySend
<1>2. /\ t \in Tcbs /\ Good(e, t, sent[e], sent[Peer(e)], Frozen(Peer(e)), got[e])
      /\ sent[e] \in 0 .. Total[e] /\ sent[Peer(e)] \in 0 .. Total[Peer(e)] /\ Frozen(Peer(e)) \in BOOLEAN
      /\ got[e] \in Seq(Nat) /\ Piece(got[e], 0) /\ Len(got[e]) <= sent[Peer(e)]
      /\ Exists(Peer(e)) => sent[e] - Len(t.buf) <= Heard(Peer(e))
      /\ tcb["server"].state # "NONE"
      BY <1>1, Mine, Zenon
<1>3. PICK n \in 1 .. Least(TCP_SNDBUF - Len(t.buf), Total[e] - sent[e]), cwnd \in Cwnd :
          /\ Apply(e, TrySend(e, [t EXCEPT !.buf = t.buf \o [i \in 1 .. n |-> sent[e] + i]], cwnd))
          /\ sent' = [sent EXCEPT ![e] = sent[e] + n]
      BY Zenon DEF Send
<1> DEFINE v == [t EXCEPT !.buf = t.buf \o [i \in 1 .. n |-> sent[e] + i]]
           Z == sent[e] + n
           r == TrySend(e, v, cwnd)
<1>4. /\ v \in Tcbs /\ Good(e, v, Z, sent[Peer(e)], Frozen(Peer(e)), got[e]) /\ RcvSame(t, v)
      /\ v.state = t.state /\ v.closed = t.closed /\ Z \in 0 .. Total[e] /\ Z - Len(v.buf) = sent[e] - Len(t.buf)
  <2>1. v = [t EXCEPT !.buf = t.buf \o [i \in 1 .. n |-> sent[e] + i]] /\ Z = sent[e] + n
        BY Zenon
  <2> HIDE DEF v, Z
  <2>2. PICK c, S, P, F, g : c = t /\ S = sent[e] /\ P = sent[Peer(e)] /\ F = Frozen(Peer(e)) /\ g = got[e]
        BY Zenon
  <2>3. /\ c \in Tcbs /\ S \in 0 .. Total[e] /\ Good(e, c, S, P, F, g) /\ c.sleep = "no" /\ ~c.closed
        /\ c.state \in {"ESTABLISHED", "CLOSE_WAIT"}
        BY <1>1, <1>2, <2>2, Zenon
  <2>4. n \in 1 .. Least(TCP_SNDBUF - Len(c.buf), Total[e] - S)
        BY <2>2, Zenon
  <2>5. v = [c EXCEPT !.buf = c.buf \o [i \in 1 .. n |-> S + i]] /\ Z = S + n
        BY <2>1, <2>2, Zenon
  <2>6. Appended(e, c, S, P, F, g, Z, v)
        BY <2>3, <2>4, <2>5, AppendGood, ZenonT(30)
  <2> QED BY <2>2, <2>6, Zenon DEF Appended
<1> HIDE DEF v
<1>5. cwnd \in Int
      BY WindowInt, Zenon
<1>6. /\ r.t \in Tcbs /\ SendSame(v, r.t) /\ Good(e, r.t, Z, sent[Peer(e)], Frozen(Peer(e)), got[e])
      /\ \A x \in r.out : SegBy(e, x, Z, v.closed, sent[Peer(e)], Frozen(Peer(e)), Top(v, got[e]))
      BY <1>2, <1>4, <1>5, TrySendGood, ZenonT(30)
<1>7. tcb' = [tcb EXCEPT ![e] = r.t] /\ net' = net \cup r.out
      BY <1>3, Zenon DEF Apply, v
<1>8. Z \in Nat /\ sent[e] <= Z /\ Z <= Total[e]
  <2>1. n \in Nat
        BY SMT
  <2>2. Total[e] \in Nat /\ sent[e] \in Nat
        BY Consts, InvFacts, Zenon
  <2> QED BY <1>4, <2>1, <2>2, SMTT(60)
<1> HIDE DEF r, Z
<1>9. /\ r.t.buf = v.buf /\ r.t.rx = t.rx /\ r.t.fin = t.fin /\ r.t.closed = t.closed /\ r.t.state = t.state
      BY <1>4, <1>6, Zenon DEF SendSame, RcvSame
<1>10. Top(r.t, got[e]) = Top(t, got[e]) /\ Top(v, got[e]) = Top(t, got[e])
      BY <1>4, <1>9, Zenon DEF Top, RcvSame
<1>11. Top(t, got[e]) <= Top(r.t, got[e]) /\ Heard(e) <= Len(got[e]) + Len(r.t.rx)
  <2>1. Top(t, got[e]) \in Nat /\ Len(t.rx) \in Nat /\ Heard(e) \in Nat
        BY <1>2, TopInt, InvFacts, Zenon
  <2>2. Top(t, got[e]) <= Top(t, got[e]) /\ Heard(e) <= Heard(e)
        BY <2>1, SMTT(30)
  <2> QED BY <1>9, <1>10, <2>2, Zenon DEF Heard
<1>12. \A x \in r.out : SegBy(e, x, Z, r.t.closed, sent[Peer(e)], Frozen(Peer(e)), Top(r.t, got[e]))
      BY <1>4, <1>6, <1>9, <1>10, Zenon
<1>13. Exists(Peer(e)) => Z - Len(r.t.buf) <= Heard(Peer(e))
      BY <1>2, <1>4, <1>9, Zenon
<1>14. PICK Y, h : Y = Z /\ h = got[e]
      BY Zenon
<1>15. Local(e, r.t, Y, h, r.out)
      BY <1>1, <1>2, <1>6, <1>8, <1>9, <1>11, <1>12, <1>13, <1>14, ZenonT(60) DEF Local
<1>16. sent' = [sent EXCEPT ![e] = Y] /\ got' = [got EXCEPT ![e] = h]
      BY <1>1, <1>3, <1>14, Zenon DEF TcpInv, Z
<1> QED BY <1>1, <1>7, <1>15, <1>16, LocalStep, ZenonT(60)

(* tcp_recv moves n bytes from the receive buffer to the reader. *)
Moved(e, t, S, P, F, g, u, h) ==
    /\ u \in Tcbs /\ Good(e, u, S, P, F, h) /\ SndSame(t, u) /\ u.state = t.state
    /\ h \in Seq(Nat) /\ Piece(h, 0) /\ Len(h) <= P /\ Top(u, h) = Top(t, g)
    /\ Len(h) + Len(u.rx) = Len(g) + Len(t.rx)

LEMMA MoveGood ==
    ASSUME NEW e \in End, NEW t \in Tcbs, NEW S, NEW P \in Nat, NEW F, NEW g \in Seq(Nat), Piece(g, 0),
           Good(e, t, S, P, F, g), t.sleep = "no", NEW n \in 1 .. Len(t.rx),
           NEW u, u = [t EXCEPT !.rx = SubSeq(t.rx, n + 1, Len(t.rx))],
           NEW h, h = g \o SubSeq(t.rx, 1, n)
    PROVE  Moved(e, t, S, P, F, g, u, h) /\ t.state # "SYN_SENT"
<1>1. t.rx \in Seq(Nat)
      BY Zenon DEF Tcbs
<1>2. PICK a \in Nat, b \in Nat : a = Len(g) /\ b = Len(t.rx)
  <2>1. Len(t.rx) \in Nat /\ Len(g) \in Nat
        BY <1>1, SMTT(60)
  <2> QED BY <2>1, Zenon
<1>3. n \in Nat /\ n > 0 /\ n <= b /\ n \in 0 .. Len(t.rx)
      BY <1>2, SMTT(30)
<1>4. Piece(t.rx, a) /\ a + b <= P
      BY <1>2, Zenon DEF Good, Rcv
<1> DEFINE x == SubSeq(t.rx, n + 1, Len(t.rx))
<1>5. x \in Seq(Nat) /\ Len(x) = b - n /\ Piece(x, a + n)
  <2>1. x \in Seq(Nat) /\ Len(x) = Len(t.rx) - n /\ Piece(x, a + n)
    <3>1. a \in Int
          BY SMT
    <3> QED BY <1>1, <1>3, <1>4, <3>1, PieceTail, Zenon
  <2> QED BY <1>2, <2>1, Zenon
<1>6. h \in Seq(Nat) /\ Len(h) = a + n /\ Piece(h, 0)
  <2>1. 0 \in Nat /\ 0 + Len(g) = a
        BY <1>2, SMTT(30)
  <2>2. Piece(t.rx, 0 + Len(g))
        BY <1>4, <2>1, Zenon
  <2> DEFINE y == g \o SubSeq(t.rx, 1, n)
  <2>3. y \in Seq(Nat) /\ Len(y) = Len(g) + n /\ Piece(y, 0)
        BY <1>1, <1>3, <2>1, <2>2, PieceCat, Zenon
  <2> QED BY <1>2, <2>3, Zenon
<1> HIDE DEF x
<1>7. /\ u \in Tcbs /\ u.rx = x /\ SndSame(t, u) /\ u.state = t.state /\ u.fin = t.fin /\ u.ooo = t.ooo
      /\ u.rcv = t.rcv /\ u.sleep = t.sleep
  <2>1. u = [t EXCEPT !.rx = x]
        BY Zenon DEF x
  <2> QED BY <1>5, <2>1, Zenon DEF Tcbs, SndSame
<1>8. (a + n) + (b - n) = a + b /\ a + n <= P /\ b - n <= b
      BY <1>3, <1>4, SMTT(60)
<1>9. Len(h) + Len(u.rx) = Len(g) + Len(t.rx) /\ Len(h) <= P
      BY <1>2, <1>5, <1>6, <1>7, <1>8, Zenon
<1>10. Top(u, h) = Top(t, g)
      BY <1>7, <1>9, Zenon DEF Top
<1>11. t.rx # <<>> /\ t.state # "SYN_SENT"
  <2>1. t.rx # <<>>
        BY <1>2, <1>3, SMT
  <2> QED BY <2>1, Zenon DEF Good, Rcv
<1>12. Rcv(e, u, P, F, h)
  <2>1. Len(u.rx) <= TCP_RCVBUF
    <3>1. b <= TCP_RCVBUF
          BY <1>2, Zenon DEF Good, Rcv
    <3>2. TCP_RCVBUF \in Nat
          BY TcpAssumption, SMT
    <3>3. b - n <= TCP_RCVBUF
          BY <1>3, <3>1, <3>2, SMT
    <3> QED BY <1>5, <1>7, <3>3, Zenon
  <2>2. Len(h) + Len(u.rx) <= P /\ Piece(u.rx, Len(h))
        BY <1>2, <1>4, <1>5, <1>6, <1>7, <1>9, ZenonT(60)
  <2>3. u.fin => Len(h) + Len(u.rx) = P /\ F /\ u.state \notin Receiving \cup {"SYN_RCVD"}
        BY <1>7, <1>9, Zenon DEF Good, Rcv
  <2>4. \A q \in u.ooo : Early(e, q, P)
        BY <1>7, Zenon DEF Good, Rcv
  <2>5. u.rcv = Pos(Peer(e), 1 + Top(u, h)) /\ u.state # "SYN_SENT"
        BY <1>7, <1>10, <1>11, Zenon DEF Good, Rcv
  <2> QED BY <2>1, <2>2, <2>3, <2>4, <2>5, Zenon DEF Rcv
<1>13. Snd(e, u, S) /\ Asleep(u)
      BY <1>7, SndKeeps, Zenon DEF Good, Asleep
<1> QED BY <1>6, <1>7, <1>9, <1>10, <1>11, <1>12, <1>13, ZenonT(60) DEF Moved, Good

LEMMA RecvStep ==
    ASSUME TcpInv, NEW e \in End, Recv(e)
    PROVE  TcpInv'
<1> DEFINE t == tcb[e]
<1>1. Exists(e) /\ UNCHANGED sent /\ t.sleep = "no"
      BY Zenon DEF Recv, Running
<1>2. /\ t \in Tcbs /\ Good(e, t, sent[e], sent[Peer(e)], Frozen(Peer(e)), got[e])
      /\ sent[e] \in 0 .. Total[e] /\ sent[Peer(e)] \in 0 .. Total[Peer(e)] /\ Frozen(Peer(e)) \in BOOLEAN
      /\ got[e] \in Seq(Nat) /\ Piece(got[e], 0)
      /\ Exists(Peer(e)) => sent[e] - Len(t.buf) <= Heard(Peer(e))
      /\ tcb["server"].state = "NONE" => t.state = "SYN_SENT"
      BY <1>1, Mine, Zenon
<1>3. PICK n \in 1 .. Len(t.rx) :
          LET u == [t EXCEPT !.rx = SubSeq(t.rx, n + 1, Len(t.rx))]
          IN  /\ Apply(e, Done(u, IF Reopened(t, u) THEN {Ack(e, u)} ELSE {}))
              /\ got' = [got EXCEPT ![e] = got[e] \o SubSeq(t.rx, 1, n)]
      BY Zenon DEF Recv
<1>4. PICK u, h, out : /\ u = [t EXCEPT !.rx = SubSeq(t.rx, n + 1, Len(t.rx))] /\ h = got[e] \o SubSeq(t.rx, 1, n)
                       /\ out = IF Reopened(t, u) THEN {Ack(e, u)} ELSE {}
      BY Zenon
<1>5. tcb' = [tcb EXCEPT ![e] = u] /\ net' = net \cup out /\ got' = [got EXCEPT ![e] = h]
      BY <1>3, <1>4, Zenon DEF Apply, Done
<1>6. sent[e] \in Nat /\ sent[Peer(e)] \in Nat /\ Total[e] \in Nat
      BY PeerFacts, InvFacts, Consts, Zenon
<1>7. Moved(e, t, sent[e], sent[Peer(e)], Frozen(Peer(e)), got[e], u, h) /\ t.state # "SYN_SENT"
      BY <1>1, <1>2, <1>4, <1>6, MoveGood, ZenonT(60)
<1>8. /\ u \in Tcbs /\ Good(e, u, sent[e], sent[Peer(e)], Frozen(Peer(e)), h) /\ u.state = t.state
      /\ h \in Seq(Nat) /\ Piece(h, 0) /\ Len(h) <= sent[Peer(e)] /\ Top(u, h) = Top(t, got[e])
      /\ Len(h) + Len(u.rx) = Len(got[e]) + Len(t.rx) /\ u.buf = t.buf /\ u.closed = t.closed
      BY <1>7, Zenon DEF Moved, SndSame
<1>9. \A x \in out : SegBy(e, x, sent[e], u.closed, sent[Peer(e)], Frozen(Peer(e)), Top(u, h))
  <2>1. SegBy(e, Ack(e, u), sent[e], u.closed, sent[Peer(e)], Frozen(Peer(e)), Top(u, h))
        BY <1>2, <1>7, <1>8, AckGood, ZenonT(30)
  <2> QED BY <1>4, <2>1, Zenon
<1>10. Top(t, got[e]) <= Top(u, h) /\ Heard(e) <= Len(h) + Len(u.rx)
  <2>1. Top(t, got[e]) \in Nat /\ Heard(e) \in Nat
        BY <1>2, TopInt, InvFacts, Zenon
  <2>2. Top(t, got[e]) <= Top(t, got[e]) /\ Heard(e) <= Heard(e)
        BY <2>1, SMTT(30)
  <2> QED BY <1>8, <2>2, Zenon DEF Heard
<1>11. PICK Z : Z = sent[e]
      BY Zenon
<1>12. Z \in Nat /\ sent[e] <= Z /\ Z <= Total[e]
      BY <1>2, <1>6, <1>11, SMTT(60)
<1>13. Exists(Peer(e)) => Z - Len(u.buf) <= Heard(Peer(e))
      BY <1>2, <1>8, <1>11, Zenon
<1>14. Local(e, u, Z, h, out)
      BY <1>2, <1>7, <1>8, <1>9, <1>10, <1>11, <1>12, <1>13, ZenonT(60) DEF Local
<1>15. sent' = [sent EXCEPT ![e] = Z]
      BY <1>1, <1>11, Zenon DEF TcpInv
<1> QED BY <1>1, <1>5, <1>14, <1>15, LocalStep, Zenon

(* A new control block. *)
Blank(e, st, rcv, sl, t) ==
    /\ t \in Tcbs /\ t.state = st /\ t.una = Pos(e, 0) /\ t.nxt = Pos(e, 1) /\ t.rcv = rcv /\ t.buf = <<>>
    /\ t.psyn = TRUE /\ t.pfin = FALSE /\ t.fsent = FALSE /\ t.rx = <<>> /\ t.ooo = {} /\ t.fin = FALSE
    /\ t.reset = FALSE /\ t.closed = FALSE /\ t.timer = TRUE /\ t.sleep = sl

LEMMA FreshFacts ==
    ASSUME NEW e \in End, NEW st \in States, NEW rcv \in Int, NEW sl \in Sleeps
    PROVE  Blank(e, st, rcv, sl, Fresh(e, st, rcv, sl))
<1> DEFINE t == Fresh(e, st, rcv, sl)
<1>1. ISS[e] = Pos(e, 0) /\ Plus(ISS[e], 1) = Pos(e, 1) /\ Pos(e, 0) \in Int /\ Pos(e, 1) \in Int
  <2>1. 0 \in Near /\ 1 \in Near
        BY Consts, SMTT(30) DEF Near
  <2>2. Pos(e, 0) \in 0 .. SEQ - 1 /\ Pos(e, 1) \in 0 .. SEQ - 1
        BY <2>1, PosFacts, Zenon
  <2>3. ISS[e] \in 0 .. SEQ - 1 /\ SEQ \in Nat
        BY Consts, Zenon
  <2>4. ISS[e] + 0 \in Int /\ 0 <= ISS[e] + 0 /\ ISS[e] + 0 < SEQ /\ ISS[e] + 0 = ISS[e]
        BY <2>3, SMTT(30)
  <2>5. (ISS[e] + 0) % SEQ = ISS[e] + 0
        BY <2>4, ModSmall, Zenon
  <2>6. ISS[e] = Pos(e, 0)
        BY <2>4, <2>5, Zenon DEF Pos, Plus
  <2>7. Pos(e, 0) \in Int /\ Pos(e, 1) \in Int
        BY <2>2, <2>3, SMTT(60)
  <2> QED BY <2>6, <2>7, Zenon DEF Pos
<1>2. <<>> \in Seq(Nat) /\ 0 \in Int
      BY SMT
<1>3. t = [state |-> st, una |-> Pos(e, 0), nxt |-> Pos(e, 1), rcv |-> rcv, wnd |-> 0,
           buf |-> <<>>, psyn |-> TRUE, pfin |-> FALSE, fsent |-> FALSE,
           rx |-> <<>>, ooo |-> {}, fin |-> FALSE, reset |-> FALSE, closed |-> FALSE,
           opts |-> FALSE, timer |-> TRUE, sleep |-> sl]
      BY <1>1, Zenon DEF Fresh
<1>4. t \in Tcbs
      BY <1>1, <1>2, <1>3, SMTT(60) DEF Tcbs
<1>5. /\ t.state = st /\ t.una = Pos(e, 0) /\ t.nxt = Pos(e, 1) /\ t.rcv = rcv /\ t.buf = <<>>
      /\ t.psyn = TRUE /\ t.pfin = FALSE /\ t.fsent = FALSE /\ t.rx = <<>> /\ t.ooo = {} /\ t.fin = FALSE
      /\ t.reset = FALSE /\ t.closed = FALSE /\ t.timer = TRUE /\ t.sleep = sl
      BY <1>1, SMTT(30) DEF Fresh
<1> HIDE DEF t
<1>6. Blank(e, st, rcv, sl, t)
      BY <1>4, <1>5, Zenon DEF Blank
<1> QED BY <1>6, Zenon DEF t

LEMMA FreshGood ==
    ASSUME NEW e \in End, NEW st \in {"SYN_SENT", "SYN_RCVD"}, NEW rcv \in Int, st = "SYN_RCVD" => rcv = Pos(Peer(e), 1),
           NEW sl \in {"no", "connect", "queue"}, NEW t, t = Fresh(e, st, rcv, sl), NEW F
    PROVE  t \in Tcbs /\ Good(e, t, 0, 0, F, <<>>) /\ Top(t, <<>>) = 0
<1>1. st \in States /\ sl \in Sleeps
      BY Zenon DEF States, Sleeps
<1>9. Blank(e, st, rcv, sl, t)
      BY <1>1, FreshFacts, Zenon
<1>2. /\ t \in Tcbs /\ t.state = st /\ t.una = Pos(e, 0) /\ t.nxt = Pos(e, 1) /\ t.rcv = rcv /\ t.buf = <<>>
      /\ t.psyn = TRUE /\ t.pfin = FALSE /\ t.fsent = FALSE /\ t.rx = <<>> /\ t.ooo = {} /\ t.fin = FALSE
      /\ t.reset = FALSE /\ t.closed = FALSE /\ t.timer = TRUE /\ t.sleep = sl
      BY <1>9, Zenon DEF Blank
<1>3. Len(<<>>) = 0 /\ TCP_SNDBUF \in Nat /\ TCP_RCVBUF \in Nat
      BY TcpAssumption, SMT
<1>4. 0 <= TCP_SNDBUF /\ 0 <= TCP_RCVBUF /\ 0 + 0 = 0 /\ 0 - 0 = 0 /\ 0 <= 0 /\ 0 + 0 + 0 = 0 /\ 1 + 0 = 1 /\ Piece(<<>>, 0)
      BY <1>3, SMTT(30) DEF Piece
<1>5. Top(t, <<>>) = 0
      BY <1>2, <1>3, <1>4, Zenon DEF Top
<1>6. Snd(e, t, 0)
  <2>1. SynOut(e, t, 0)
        BY <1>2, Zenon DEF SynOut
  <2> QED BY <1>2, <1>3, <1>4, <2>1, Zenon DEF Snd
<1>7. Rcv(e, t, 0, F, <<>>)
      BY <1>2, <1>3, <1>4, <1>5, ZenonT(60) DEF Rcv
<1>8. Asleep(t)
      BY <1>2, Zenon DEF Asleep
<1> QED BY <1>2, <1>5, <1>6, <1>7, <1>8, Zenon DEF Good

LEMMA InitInv == Init => TcpInv
<1> SUFFICES ASSUME Init PROVE TcpInv
    BY Zenon
<1>1. "NONE" \in States /\ "no" \in Sleeps
      BY Zenon DEF States, Sleeps
<1>2. 0 \in Int /\ 0 \in Nat /\ <<>> \in Seq(Nat) /\ Len(<<>>) = 0 /\ 0 <= 0 /\ Piece(<<>>, 0)
      BY SMTT(30) DEF Piece
<1>3. ASSUME NEW e \in End PROVE /\ tcb[e] \in Tcbs /\ tcb[e].state = "NONE" /\ tcb[e] = Fresh(e, tcb[e].state, 0, "no")
                                 /\ sent[e] = 0 /\ got[e] = <<>> /\ ~Exists(e) /\ Peer(e) \in End
  <2>1. tcb[e] = Fresh(e, "NONE", 0, "no") /\ sent[e] = 0 /\ got[e] = <<>>
        BY Zenon DEF Init
  <2>2. tcb[e] \in Tcbs /\ tcb[e].state = "NONE"
    <3>1. Blank(e, "NONE", 0, "no", Fresh(e, "NONE", 0, "no"))
          BY <1>1, <1>2, FreshFacts, Zenon
    <3> QED BY <2>1, <3>1, Zenon DEF Blank
  <2> QED BY <2>1, <2>2, PeerFacts, Zenon DEF Exists
<1>4. ASSUME NEW e \in End PROVE Half(e)
  <2>1. 0 \in 0 .. Total[e]
    <3>1. Total[e] \in Nat
          BY Consts, Zenon
    <3> QED BY <3>1, SMT
  <2>2. sent[Peer(e)] = 0
        BY <1>3, Zenon
  <2> QED BY <1>2, <1>3, <2>1, <2>2, Zenon DEF Half
<1>5. tcb \in [End -> Tcbs] /\ sent \in [End -> Nat] /\ got \in [End -> Seq(Nat)]
  <2>1. tcb = [e \in End |-> tcb[e]]
        BY Zenon DEF Init
  <2> QED BY <1>2, <1>3, <2>1, Zenon DEF Init
<1>6. Start
  <2>1. "client" \in End /\ "server" \in End
        BY Zenon DEF End
  <2>2. net = {}
        BY Zenon DEF Init
  <2> QED BY <1>3, <2>1, <2>2, Zenon DEF Start
<1>7. net = {}
      BY Zenon DEF Init
<1> QED BY <1>4, <1>5, <1>6, <1>7, Zenon DEF TcpInv

LEMMA Ends == "client" \in End /\ "server" \in End /\ Peer("client") = "server" /\ Peer("server") = "client"
  BY Zenon DEF End, Peer

LEMMA ConnectStep ==
    ASSUME TcpInv, Connect
    PROVE  TcpInv'
<1>1. PICK sl \in {"connect", "no"} :
          LET t == Fresh("client", "SYN_SENT", 0, sl)
          IN  Apply("client", Done(t, {Seg("client", t, t.una, {"SYN"}, <<>>)}))
      BY Zenon DEF Connect
<1> DEFINE t == Fresh("client", "SYN_SENT", 0, sl)
           s == Seg("client", t, t.una, {"SYN"}, <<>>)
<1>2. tcb' = [tcb EXCEPT !["client"] = t] /\ net' = net \cup {s} /\ UNCHANGED <<sent, got>>
      BY <1>1, Zenon DEF Connect, Apply, Done
<1>3. tcb \in [End -> Tcbs] /\ sent \in [End -> Nat] /\ got \in [End -> Seq(Nat)] /\ Half("server") /\ Start /\ Half("client")
      BY Ends, Zenon DEF TcpInv
<1>4. /\ net = {} /\ tcb["client"].state = "NONE" /\ tcb["server"].state = "NONE"
      /\ sent["client"] = 0 /\ sent["server"] = 0 /\ got["client"] = <<>> /\ got["server"] = <<>>
      BY <1>3, Ends, Zenon DEF Connect, Start
<1>5. 0 \in Int /\ 0 \in Nat /\ <<>> \in Seq(Nat) /\ Len(<<>>) = 0 /\ 0 <= 0 /\ Piece(<<>>, 0)
      BY SMTT(30) DEF Piece
<1>6. "SYN_SENT" \in States /\ sl \in Sleeps
      BY Zenon DEF States, Sleeps
<1>7. Blank("client", "SYN_SENT", 0, sl, t)
      BY <1>5, <1>6, Ends, FreshFacts, Zenon
<1>8. t \in Tcbs /\ Good("client", t, 0, 0, Frozen("server")', <<>>)
      BY <1>5, Ends, FreshGood, Zenon
<1>9. t.state = "SYN_SENT" /\ t.closed = FALSE /\ t.una = Pos("client", 0)
      BY <1>7, Zenon DEF Blank
<1>10. SegBy("client", s, 0, Frozen("client")', 0, Frozen("server")', TopOf("client")')
      BY <1>8, <1>9, Ends, SynGood, Zenon
<1>11. s.to = "server" /\ s.fl = {"SYN"}
      BY Ends, Zenon DEF Seg
<1> HIDE DEF s, t
<1>12. /\ tcb' \in [End -> Tcbs] /\ sent' \in [End -> Nat] /\ got' \in [End -> Seq(Nat)]
       /\ tcb'["client"] = t /\ tcb'["server"] = tcb["server"]
      BY <1>2, <1>3, <1>8, Ends, Zenon
<1>13. Exists("client")' /\ ~Exists("server")' /\ ~Exists("server")
      BY <1>4, <1>9, <1>12, Zenon DEF Exists
<1>14. Half("client")'
  <2>1. 0 \in 0 .. Total["client"]
    <3>1. Total["client"] \in Nat
          BY Consts, Ends, Zenon
    <3> QED BY <3>1, SMT
  <2> QED BY <1>2, <1>4, <1>5, <1>8, <1>12, <1>13, <2>1, Ends, ZenonT(60) DEF Half
<1>15. Half("server")'
      BY <1>2, <1>3, <1>12, <1>13, Ends, Zenon DEF Half
<1>16. SentBy("client", s)'
      BY <1>2, <1>4, <1>10, Ends, Zenon DEF SentBy
<1>17. Start'
  <2>1. \A x \in net' : x.to = "server" /\ x.fl = {"SYN"}
        BY <1>2, <1>4, <1>11, Zenon
  <2>2. \A e \in End : sent'[e] = 0 /\ got'[e] = <<>>
        BY <1>2, <1>4, Zenon DEF End
  <2> QED BY <1>4, <1>9, <1>12, <2>1, <2>2, ZenonT(60) DEF Start
<1>18. \A e \in End : Half(e)'
      BY <1>14, <1>15, Zenon DEF End
<1>19. \A x \in net' : \E e \in End : SentBy(e, x)'
      BY <1>2, <1>4, <1>16, Ends, Zenon
<1> QED BY <1>12, <1>17, <1>18, <1>19, Zenon DEF TcpInv

LEMMA ListenerStep ==
    ASSUME TcpInv, Listener
    PROVE  TcpInv'
<1>1. PICK q \in net : /\ q.to = "server" /\ q.fl = {"SYN"}
                       /\ LET t == Fresh("server", "SYN_RCVD", Plus(q.seq, 1), "queue")
                          IN  Apply("server", Done(t, {Seg("server", t, t.una, {"SYN", "ACK"}, <<>>)}))
      BY Zenon DEF Listener
<1> DEFINE y == Plus(q.seq, 1)
           t == Fresh("server", "SYN_RCVD", y, "queue")
           s == Seg("server", t, t.una, {"SYN", "ACK"}, <<>>)
<1>2. tcb' = [tcb EXCEPT !["server"] = t] /\ net' = net \cup {s} /\ UNCHANGED <<sent, got>>
      BY <1>1, Zenon DEF Listener, Apply, Done
<1>3. tcb \in [End -> Tcbs] /\ sent \in [End -> Nat] /\ got \in [End -> Seq(Nat)] /\ Half("server") /\ Start /\ Half("client")
      BY Ends, Zenon DEF TcpInv
<1>4. /\ tcb["server"].state = "NONE" /\ tcb["client"].state # "NONE"
      /\ sent["client"] = 0 /\ sent["server"] = 0 /\ got["client"] = <<>> /\ got["server"] = <<>>
      /\ \A x \in net : x.to = "server"
      BY <1>1, <1>3, Ends, Zenon DEF Listener, Start
<1>5. 0 \in Int /\ 0 \in Nat /\ <<>> \in Seq(Nat) /\ Len(<<>>) = 0 /\ 0 <= 0 /\ Piece(<<>>, 0) /\ 0 \in 0 .. 0
      BY SMTT(30) DEF Piece
<1>6. "SYN_RCVD" \in States /\ "queue" \in Sleeps
      BY Zenon DEF States, Sleeps
<1>7. y = Pos("client", 1) /\ y \in Int
  <2>1. q.seq = Pos("client", 0)
    <3>1. ~Reset(q)
          BY <1>1, Zenon DEF Reset
    <3>2. PICK e \in End : SentBy(e, q)
          BY <3>1, Zenon DEF TcpInv
    <3>3. e = "client"
          BY <1>1, <3>2, Ends, Zenon DEF SentBy, SegBy, End
    <3> QED BY <1>1, <3>2, <3>3, Zenon DEF SentBy, SegBy, Content
  <2>2. 0 \in Near /\ 1 \in Near /\ 0 + 1 = 1 /\ SEQ \in Nat
        BY Consts, SMTT(30) DEF Near
  <2>3. y = Pos("client", 0 + 1)
        BY <2>1, <2>2, PosPlus, Ends, Zenon
  <2>4. Pos("client", 1) \in 0 .. SEQ - 1
        BY <2>2, PosFacts, Ends, Zenon
  <2>5. Pos("client", 1) \in Int
        BY <2>2, <2>4, SMTT(60)
  <2> QED BY <2>2, <2>3, <2>5, Zenon
<1> HIDE DEF y
<1>8. Blank("server", "SYN_RCVD", y, "queue", t)
      BY <1>6, <1>7, Ends, FreshFacts, Zenon
<1>9. t \in Tcbs /\ Good("server", t, 0, 0, Frozen("client"), <<>>) /\ Top(t, <<>>) = 0
      BY <1>7, Ends, FreshGood, Zenon
<1>10. t.state = "SYN_RCVD" /\ t.closed = FALSE /\ t.una = Pos("server", 0) /\ t.rx = <<>>
      BY <1>8, Zenon DEF Blank
<1> HIDE DEF t
<1>11. /\ tcb' \in [End -> Tcbs] /\ sent' \in [End -> Nat] /\ got' \in [End -> Seq(Nat)]
       /\ tcb'["server"] = t /\ tcb'["client"] = tcb["client"]
      BY <1>2, <1>3, <1>9, Ends, Zenon
<1>12. /\ Exists("server")' /\ ~Exists("server") /\ (Exists("client")' <=> Exists("client"))
       /\ Frozen("server")' = FALSE /\ Frozen("client")' = Frozen("client") /\ Frozen("client") \in BOOLEAN /\ Frozen("server") = FALSE
  <2>1. Exists("server")' /\ ~Exists("server") /\ (Exists("client")' <=> Exists("client"))
        BY <1>4, <1>10, <1>11, Zenon DEF Exists
  <2>2. Frozen("server")' = FALSE /\ Frozen("client")' = Frozen("client")
        BY <1>10, <1>11, Zenon DEF Frozen
  <2>3. Frozen("client") \in BOOLEAN
        BY Ends, InvFacts, Zenon
  <2>4. Frozen("server") = FALSE
    <3>1. PICK st : tcb["server"] = Fresh("server", st, 0, "no")
          BY <1>3, <2>1, Zenon DEF Half
    <3>2. Fresh("server", st, 0, "no").closed = FALSE
          BY DEF Fresh
    <3>3. tcb["server"].closed = FALSE
          BY <3>1, <3>2, Zenon
    <3> QED BY <1>4, <3>3, Zenon DEF Frozen
  <2> QED BY <2>1, <2>2, <2>3, <2>4, Zenon
<1>13. 0 \in 0 .. Total["server"] /\ 0 \in 0 .. Total["client"]
  <2>1. Total["client"] \in Nat /\ Total["server"] \in Nat
        BY Consts, Ends, Zenon
  <2> QED BY <2>1, SMT
<1>14. SegBy("server", s, 0, t.closed, 0, Frozen("client"), Top(t, <<>>))
  <2>1. Rcv("server", t, 0, Frozen("client"), <<>>) /\ t.state # "SYN_SENT" /\ t.una \in Int
        BY <1>9, <1>10, Zenon DEF Good, Tcbs
  <2>2. Content("server", t.una, {"SYN", "ACK"}, <<>>, 0, t.closed)
        BY <1>10, Zenon DEF Content
  <2>3. {"SYN", "ACK"} \in SUBSET {"SYN", "ACK", "FIN"}
        BY Zenon
  <2> QED BY <1>5, <1>9, <1>12, <1>13, <2>1, <2>2, <2>3, Ends, SegGood, ZenonT(60)
<1> HIDE DEF s
<1>15. TopOf("server")' = 0 /\ TopOf("client")' = TopOf("client")
      BY <1>2, <1>4, <1>9, <1>11, <1>12, Ends, ZenonT(60) DEF TopOf
<1>16. SentBy("server", s)'
      BY <1>2, <1>4, <1>9, <1>11, <1>12, <1>10, <1>14, <1>15, Ends, ZenonT(60) DEF SentBy
<1>17. ASSUME NEW x \in net PROVE Reset(x) \/ SentBy("client", x)'
  <2>1. CASE SentBy("server", x)
    <3>1. x.to = "client"
          BY <2>1, Ends, Zenon DEF SentBy, SegBy
    <3> QED BY <1>4, <3>1, Zenon
  <2>2. CASE SentBy("client", x)
        BY <1>2, <1>12, <1>15, <2>2, Ends, ZenonT(60) DEF SentBy
  <2> QED BY <2>1, <2>2, Zenon DEF TcpInv, End
<1>18. Half("server")'
  <2>1. Exists("client") => 0 - Len(t.buf) <= Heard("client")'
    <3>1. Heard("client")' = Heard("client") /\ Heard("client") \in Nat /\ Len(t.buf) \in Nat
          BY <1>2, <1>5, <1>9, <1>11, Ends, InvFacts, TopInt, ZenonT(60) DEF Heard
    <3>2. 0 - Len(t.buf) <= Heard("client")
          BY <3>1, SMT
    <3> QED BY <3>1, <3>2, Zenon
  <2> QED BY <1>2, <1>4, <1>5, <1>9, <1>11, <1>12, <1>13, <2>1, Ends, ZenonT(60) DEF Half
<1>19. Half("client")'
  <2>1. Exists("client") => 0 - Len(tcb["client"].buf) <= Heard("server")'
    <3>1. Heard("server")' = 0 + 0 /\ 0 + 0 = 0
      <4>1. 0 + 0 = 0
            BY SMT
      <4> QED BY <1>2, <1>4, <1>5, <1>10, <1>11, <4>1, ZenonT(60) DEF Heard
    <3>2. Len(tcb["client"].buf) \in Nat
          BY <1>3, <1>5, Ends, TopInt, Zenon
    <3>3. 0 - Len(tcb["client"].buf) <= 0
          BY <3>2, SMT
    <3> QED BY <3>1, <3>3, Zenon
  <2>2. CASE Exists("client")
    <3>1. Good("client", tcb["client"], 0, 0, FALSE, <<>>)
          BY <1>3, <1>4, <1>12, <2>2, Ends, ZenonT(60) DEF Half
    <3> QED BY <1>2, <1>3, <1>4, <1>5, <1>11, <1>12, <1>13, <2>1, <2>2, <3>1, Ends, ZenonT(60) DEF Half
  <2>3. CASE ~Exists("client")
        BY <1>2, <1>3, <1>11, <1>12, <2>3, Ends, ZenonT(60) DEF Half
  <2> QED BY <2>2, <2>3, Zenon
<1>20. Start'
      BY <1>4, <1>10, <1>11, Zenon DEF Start
<1>21. \A e \in End : Half(e)'
      BY <1>18, <1>19, Zenon DEF End
<1>22. \A x \in net' : Reset(x)' \/ \E e \in End : SentBy(e, x)'
      BY <1>2, <1>16, <1>17, Ends, Zenon DEF Reset
<1> QED BY <1>11, <1>20, <1>21, <1>22, Zenon DEF TcpInv

LEMMA RejectStep ==
    ASSUME TcpInv, Reject
    PROVE  TcpInv'
<1>1. PICK q \in net : q.to = "client" /\ net' = net \cup {[to |-> "server", seq |-> q.ack, ack |-> 0, fl |-> {"RST"},
                                                            data |-> <<>>, win |-> 0]}
      BY Zenon DEF Reject
<1> DEFINE s == [to |-> "server", seq |-> q.ack, ack |-> 0, fl |-> {"RST"}, data |-> <<>>, win |-> 0]
<1>2. net' = net \cup {s} /\ UNCHANGED <<tcb, sent, got>> /\ tcb["client"].state = "FREED"
      BY <1>1, Zenon DEF Reject
<1>3. q \in Segs
      BY Zenon DEF TcpInv, Reset, SentBy, SegBy
<1>4. q.ack \in Int
      BY <1>3, Zenon DEF Segs
<1>5. 0 \in Int /\ <<>> \in Seq(Nat) /\ {"RST"} \subseteq Flags
      BY SMT DEF Flags
<1>6. Reset(s)
      BY <1>4, <1>5, Ends, Zenon DEF Reset, Segs
<1> HIDE DEF s
<1>7. Start
      BY Zenon DEF TcpInv
<1>8. tcb["server"].state # "NONE"
      BY <1>1, <1>7, Zenon DEF Start
<1>9. Start'
      BY <1>2, <1>7, <1>8, Zenon DEF Start
<1>10. \A e \in End : /\ (Exists(e)' <=> Exists(e)) /\ Heard(e)' = Heard(e) /\ TopOf(e)' = TopOf(e)
                      /\ Frozen(e)' = Frozen(e)
      BY <1>2, Zenon DEF Exists, Heard, TopOf, Frozen
<1>11. ASSUME NEW e \in End PROVE Half(e)'
  <2>1. Half(e) /\ Peer(e) \in End
        BY PeerFacts, Zenon DEF TcpInv
  <2> QED BY <1>2, <1>10, <2>1, Zenon DEF Half
<1>12. ASSUME NEW x \in net' PROVE Reset(x)' \/ \E e \in End : SentBy(e, x)'
  <2>1. CASE x = s
        BY <1>6, <2>1, Zenon DEF Reset
  <2>2. CASE Reset(x)
        BY <2>2, Zenon DEF Reset
  <2>3. CASE \E e \in End : SentBy(e, x)
    <3>1. PICK e \in End : SentBy(e, x)
          BY <2>3, Zenon
    <3>2. SentBy(e, x)'
          BY <1>2, <1>10, <3>1, PeerFacts, Zenon DEF SentBy
    <3> QED BY <3>2, Zenon
  <2> QED BY <1>2, <2>1, <2>2, <2>3, Zenon DEF TcpInv
<1>13. tcb' \in [End -> Tcbs] /\ sent' \in [End -> Nat] /\ got' \in [End -> Seq(Nat)]
      BY <1>2, Zenon DEF TcpInv
<1> QED BY <1>9, <1>11, <1>12, <1>13, Zenon DEF TcpInv

LEMMA ReapStep ==
    ASSUME TcpInv, NEW e \in End, Reap(e)
    PROVE  TcpInv'
<1> DEFINE p == Peer(e)
           u == Fresh(e, "FREED", 0, "no")
<1>1. Exists(e) /\ tcb' = [tcb EXCEPT ![e] = u] /\ UNCHANGED <<net, sent, got>>
      BY Zenon DEF Reap, Running
<1>2. p \in End /\ p # e /\ Peer(p) = e /\ Peer(e) = p /\ \A f \in End : f = e \/ f = p
      BY PeerFacts, Zenon
<1> HIDE DEF p
<1>3. tcb \in [End -> Tcbs] /\ sent \in [End -> Nat] /\ got \in [End -> Seq(Nat)] /\ Half(e) /\ Half(p) /\ Start
      BY <1>2, Zenon DEF TcpInv
<1>4. Blank(e, "FREED", 0, "no", u)
  <2>1. "FREED" \in States /\ "no" \in Sleeps
        BY Zenon DEF States, Sleeps
  <2>2. 0 \in Int
        BY SMT
  <2> QED BY <2>1, <2>2, FreshFacts, Zenon
<1>5. u \in Tcbs /\ u.state = "FREED" /\ u = Fresh(e, u.state, 0, "no")
      BY <1>4, Zenon DEF Blank
<1> HIDE DEF u
<1>6. tcb'[e] = u /\ tcb'[p] = tcb[p] /\ tcb' \in [End -> Tcbs] /\ sent' \in [End -> Nat] /\ got' \in [End -> Seq(Nat)]
      BY <1>1, <1>2, <1>3, <1>5, Zenon
<1>7. ~Exists(e)' /\ (Exists(p)' <=> Exists(p)) /\ Frozen(e)' = TRUE /\ Frozen(p)' = Frozen(p)
      BY <1>5, <1>6, Zenon DEF Exists, Frozen
<1>8. /\ sent[e] \in Nat /\ sent[p] \in Nat /\ TopOf(e) \in Nat /\ TopOf(e) <= sent[p] + 1
      /\ TopOf(p) \in Nat /\ TopOf(p) <= sent[e] + 1 /\ tcb[p] \in Tcbs /\ got[p] \in Seq(Nat)
      BY <1>2, InvFacts, Zenon
<1>9. TopOf(e)' = sent[p] + 1 /\ TopOf(p)' = TopOf(p)
      BY <1>1, <1>2, <1>6, <1>7, Zenon DEF TopOf
<1>10. sent[e] <= sent[e] /\ sent[p] <= sent[p] /\ TopOf(p) <= TopOf(p) /\ TopOf(e) \in Int /\ TopOf(p) \in Int /\ sent[p] + 1 \in Int
      BY <1>8, SMT
<1>11. Half(e)'
      BY <1>1, <1>2, <1>3, <1>5, <1>6, <1>7, ZenonT(60) DEF Half
<1>12. Half(p)'
  <2>1. CASE Exists(p)
    <3>1. Good(p, tcb[p], sent[p], sent[e], Frozen(e), got[p])
          BY <1>2, <1>3, <2>1, Zenon DEF Half
    <3>2. Good(p, tcb[p], sent[p], sent[e], TRUE, got[p])
          BY <1>8, <1>10, <3>1, GoodGrows, Zenon
    <3> QED BY <1>1, <1>2, <1>3, <1>6, <1>7, <2>1, <3>2, ZenonT(60) DEF Half
  <2>2. CASE ~Exists(p)
        BY <1>1, <1>2, <1>3, <1>6, <1>7, <2>2, ZenonT(60) DEF Half
  <2> QED BY <2>1, <2>2, Zenon
<1>13. ASSUME NEW x \in net' PROVE Reset(x)' \/ \E f \in End : SentBy(f, x)'
  <2>1. CASE Reset(x)
        BY <2>1, Zenon DEF Reset
  <2>2. CASE SentBy(e, x)
    <3>1. SegBy(e, x, sent[e], Frozen(e), sent[p], Frozen(p), TopOf(e))
          BY <1>2, <2>2, Zenon DEF SentBy
    <3>2. SegBy(e, x, sent[e], TRUE, sent[p], Frozen(p), sent[p] + 1)
      <4>1. PICK d, top : d = TRUE /\ top = sent[p] + 1
            BY Zenon
      <4>2. (Frozen(e) => d /\ sent[e] = sent[e]) /\ top \in Int /\ TopOf(e) <= top
            BY <1>8, <1>10, <4>1, Zenon
      <4>3. SegBy(e, x, sent[e], d, sent[p], Frozen(p), top)
            BY <1>8, <1>10, <3>1, <4>2, SegMine, ZenonT(60)
      <4> QED BY <4>1, <4>3, Zenon
    <3>3. SentBy(e, x)'
          BY <1>1, <1>2, <1>7, <1>9, <3>2, Zenon DEF SentBy
    <3> QED BY <3>3, Zenon
  <2>3. CASE SentBy(p, x)
    <3>1. SegBy(p, x, sent[p], Frozen(p), sent[e], Frozen(e), TopOf(p))
          BY <1>2, <2>3, Zenon DEF SentBy
    <3>2. SegBy(p, x, sent[p], Frozen(p), sent[e], TRUE, TopOf(p))
          BY <1>8, <1>10, <3>1, SegOther, Zenon
    <3>3. SentBy(p, x)'
          BY <1>1, <1>2, <1>7, <1>9, <3>2, Zenon DEF SentBy
    <3> QED BY <1>2, <3>3, Zenon
  <2> QED BY <1>1, <1>2, <2>1, <2>2, <2>3, ZenonT(60) DEF TcpInv
<1>14. Start'
  <2>1. tcb[e].state # "NONE"
        BY <1>1, Zenon DEF Exists
  <2>2. CASE e = "server"
    <3>1. p = "client"
          BY <1>2, <2>2, Ends, Zenon
    <3> QED BY <1>3, <1>5, <1>6, <2>1, <2>2, <3>1, Zenon DEF Start
  <2>3. CASE e = "client"
    <3>1. p = "server"
          BY <1>2, <2>3, Ends, Zenon
    <3> QED BY <1>1, <1>3, <1>5, <1>6, <2>3, <3>1, ZenonT(60) DEF Start
  <2> QED BY <2>2, <2>3, Zenon DEF End
<1>15. \A f \in End : Half(f)'
      BY <1>2, <1>11, <1>12, Zenon
<1> QED BY <1>6, <1>13, <1>14, <1>15, Zenon DEF TcpInv
-----------------------------------------------------------------------------
(* The invariant of the connection, whatever the network does. *)
THEOREM TcpInvariant == Spec => []TcpInv
<1>1. TcpInv /\ [Next]_vars => TcpInv'
  <2> SUFFICES ASSUME TcpInv, [Next]_vars PROVE TcpInv'
      BY Zenon
  <2>1. CASE UNCHANGED vars
    <3>1. UNCHANGED <<tcb, net, sent, got>>
          BY <2>1, Zenon DEF vars
    <3>2. \A e \in End : /\ (Exists(e)' <=> Exists(e)) /\ Heard(e)' = Heard(e) /\ TopOf(e)' = TopOf(e)
                         /\ Frozen(e)' = Frozen(e)
          BY <3>1, Zenon DEF Exists, Heard, TopOf, Frozen
    <3>3. ASSUME NEW e \in End PROVE Half(e)'
          BY <3>1, <3>2, PeerFacts, Zenon DEF Half, TcpInv
    <3>4. ASSUME NEW x \in net' PROVE Reset(x)' \/ \E e \in End : SentBy(e, x)'
      <4>1. CASE Reset(x)
            BY <4>1, Zenon DEF Reset
      <4>2. ASSUME NEW e \in End, SentBy(e, x) PROVE SentBy(e, x)'
            BY <3>1, <3>2, <4>2, PeerFacts, Zenon DEF SentBy
      <4> QED BY <3>1, <4>1, <4>2, Zenon DEF TcpInv
    <3>5. Start'
          BY <3>1, Zenon DEF Start, TcpInv
    <3>6. tcb' \in [End -> Tcbs] /\ sent' \in [End -> Nat] /\ got' \in [End -> Seq(Nat)]
          BY <3>1, Zenon DEF TcpInv
    <3> QED BY <3>3, <3>4, <3>5, <3>6, Zenon DEF TcpInv
  <2>2. CASE Connect
        BY <2>2, ConnectStep, Zenon
  <2>3. CASE Listener
        BY <2>3, ListenerStep, ZenonT(60)
  <2>4. CASE Reject
        BY <2>4, RejectStep, Zenon
  <2>5. CASE ConnectWoken \/ Accept \/ \E e \in End : SendFull(e) \/ RecvEmpty(e)
        BY <2>5, SleepSteps, Zenon
  <2>6. ASSUME NEW e \in End, Input(e) PROVE TcpInv'
        BY <2>6, InputStep, Zenon
  <2>7. ASSUME NEW e \in End, Send(e) PROVE TcpInv'
        BY <2>7, SendingStep, ZenonT(60)
  <2>8. ASSUME NEW e \in End, Recv(e) PROVE TcpInv'
        BY <2>8, RecvStep, Zenon
  <2>9. ASSUME NEW e \in End, Close(e) PROVE TcpInv'
        BY <2>9, CloseStep, Zenon
  <2>10. ASSUME NEW e \in End, Tick(e) PROVE TcpInv'
        BY <2>10, TickStep, Zenon
  <2>11. ASSUME NEW e \in End, Reap(e) PROVE TcpInv'
        BY <2>11, ReapStep, Zenon
  <2> QED BY <2>1, <2>2, <2>3, <2>4, <2>5, <2>6, <2>7, <2>8, <2>9, <2>10, <2>11, ZenonT(60) DEF Next
<1> QED BY InitInv, <1>1, PTL DEF Spec

(* Pieces that are a stream, or the end of one. *)
LEMMA Whole ==
    ASSUME NEW a \in Seq(Nat), NEW b \in Seq(Nat), Piece(a, 0), Piece(b, Len(a))
    PROVE  a \o b = Bytes(Len(a) + Len(b)) /\ Len(a \o b) = Len(a) + Len(b) /\ Len(a) + Len(b) \in Nat
<1>1. PICK m \in Nat, n \in Nat : m = Len(a) /\ n = Len(b)
  <2>1. Len(a) \in Nat /\ Len(b) \in Nat
        BY SMT
  <2> QED BY <2>1, Zenon
<1> DEFINE c == a \o b
<1>2. c \in Seq(Nat) /\ Len(c) = m + n /\ m + n \in Nat
      BY <1>1, SMTT(30)
<1>3. ASSUME NEW i \in 1 .. m + n PROVE c[i] = i
  <2>1. CASE i <= m
    <3>1. i \in 1 .. Len(a)
          BY <1>1, <2>1, SMT
    <3>2. c[i] = a[i]
          BY <3>1, SMT
    <3>3. a[i] = 0 + i
          BY <3>1, Zenon DEF Piece
    <3> QED BY <3>2, <3>3, SMT
  <2>2. CASE i > m
    <3>1. i - m \in 1 .. Len(b)
          BY <1>1, <2>2, SMTT(60)
    <3>2. c[i] = b[i - m]
          BY <1>1, <2>2, SMTT(60)
    <3>3. b[i - m] = m + (i - m)
          BY <1>1, <3>1, Zenon DEF Piece
    <3> QED BY <3>2, <3>3, SMTT(60)
  <2>3. i <= m \/ i > m
        BY SMT
  <2> QED BY <2>1, <2>2, <2>3, Zenon
<1> HIDE DEF c
<1>4. c = [i \in 1 .. m + n |-> c[i]]
      BY <1>2, SMT
<1>5. c = Bytes(m + n)
      BY <1>3, <1>4, Zenon DEF Bytes
<1> QED BY <1>1, <1>2, <1>5, Zenon DEF c

LEMMA LastOnes ==
    ASSUME NEW b \in Seq(Nat), NEW S \in Nat, Len(b) <= S, Piece(b, S - Len(b))
    PROVE  b = SubSeq(Bytes(S), S - Len(b) + 1, S)
  BY SMTT(60) DEF Piece, Bytes

LEMMA Received ==
    ASSUME TcpInv, NEW e \in End
    PROVE  /\ \E n \in 0 .. sent[Peer(e)] : received(e) = Bytes(n)
           /\ Len(received(e)) = Heard(e)
<1>1. /\ got[e] \in Seq(Nat) /\ Piece(got[e], 0) /\ tcb[e] \in Tcbs /\ Heard(e) <= sent[Peer(e)] /\ Heard(e) \in Nat
      /\ sent[Peer(e)] \in Nat
      BY PeerFacts, InvFacts, Zenon DEF TcpInv, Half
<1>2. tcb[e].rx \in Seq(Nat)
      BY <1>1, Zenon DEF Tcbs
<1>3. Piece(tcb[e].rx, Len(got[e]))
  <2>1. CASE Exists(e)
        BY <2>1, Mine, Zenon DEF Good, Rcv
  <2>2. CASE ~Exists(e)
    <3>1. PICK st : tcb[e] = Fresh(e, st, 0, "no")
          BY <2>2, Zenon DEF TcpInv, Half
    <3>2. Fresh(e, st, 0, "no").rx = <<>>
          BY DEF Fresh
    <3>3. Piece(<<>>, Len(got[e]))
          BY SMT DEF Piece
    <3> QED BY <3>1, <3>2, <3>3, Zenon
  <2> QED BY <2>1, <2>2, Zenon
<1>4. received(e) = Bytes(Heard(e)) /\ Len(received(e)) = Heard(e)
      BY <1>1, <1>2, <1>3, Whole, Zenon DEF received, Heard
<1>5. Heard(e) \in 0 .. sent[Peer(e)]
      BY <1>1, SMT
<1> QED BY <1>4, <1>5, Zenon

(* What a task gets from tcp_recv is the beginning of what the other side   *)
(* gave tcp_send, and all of it once the FIN is there: no loss, repetition  *)
(* or reordering of segments and no retransmission changes that.            *)
THEOREM StreamsAreExact == Spec => []StreamExact
<1>1. TcpInv => StreamExact
  <2> SUFFICES ASSUME TcpInv, NEW e \in End
               PROVE  /\ \E n \in 0 .. sent[e] : received(Peer(e)) = Bytes(n)
                      /\ tcb[e].fin => Len(received(e)) = sent[Peer(e)]
      BY Zenon DEF StreamExact
  <2>1. \E n \in 0 .. sent[e] : received(Peer(e)) = Bytes(n)
    <3>1. Peer(e) \in End /\ Peer(Peer(e)) = e
          BY PeerFacts, Zenon
    <3>2. \E n \in 0 .. sent[Peer(Peer(e))] : received(Peer(e)) = Bytes(n)
          BY <3>1, Received, Zenon
    <3> QED BY <3>1, <3>2, Zenon
  <2>2. ASSUME tcb[e].fin PROVE Len(received(e)) = sent[Peer(e)]
    <3>1. Exists(e)
      <4>1. ASSUME ~Exists(e) PROVE FALSE
        <5>1. PICK st : tcb[e] = Fresh(e, st, 0, "no")
              BY <4>1, Zenon DEF TcpInv, Half
        <5>2. Fresh(e, st, 0, "no").fin = FALSE
              BY DEF Fresh
        <5> QED BY <2>2, <5>1, <5>2, ZenonT(60)
      <4> QED BY <4>1, Zenon
    <3>2. Heard(e) = sent[Peer(e)]
          BY <2>2, <3>1, Mine, ZenonT(60) DEF Good, Rcv, Heard
    <3> QED BY <3>2, Received, Zenon
  <2> QED BY <2>1, <2>2, Zenon
<1> QED BY <1>1, TcpInvariant, PTL

(* tcp_input takes a byte out of the send buffer only when the other side   *)
(* has it, so every byte that may be lost can still be sent again.          *)
THEOREM BytesAreKept == Spec => []KeptUntilReceived
<1>1. TcpInv => KeptUntilReceived
  <2> SUFFICES ASSUME TcpInv, NEW e \in End, Exists(e)
               PROVE  /\ tcb[e].buf = SubSeq(Bytes(sent[e]), sent[e] - Len(tcb[e].buf) + 1, sent[e])
                      /\ Exists(Peer(e)) => sent[e] - Len(tcb[e].buf) <= Len(received(Peer(e)))
      BY Zenon DEF KeptUntilReceived
  <2>1. tcb[e].buf = SubSeq(Bytes(sent[e]), sent[e] - Len(tcb[e].buf) + 1, sent[e])
    <3>1. tcb[e].buf \in Seq(Nat) /\ sent[e] \in Nat
          BY InvFacts, Zenon DEF Tcbs
    <3>2. Len(tcb[e].buf) <= sent[e] /\ Piece(tcb[e].buf, sent[e] - Len(tcb[e].buf))
          BY Mine, Zenon DEF Good, Snd
    <3> QED BY <3>1, <3>2, LastOnes, Zenon
  <2>2. Exists(Peer(e)) => sent[e] - Len(tcb[e].buf) <= Len(received(Peer(e)))
    <3>1. Len(received(Peer(e))) = Heard(Peer(e))
          BY PeerFacts, Received, ZenonT(60)
    <3> QED BY <3>1, Mine, Zenon
  <2> QED BY <2>1, <2>2, Zenon
<1> QED BY <1>1, TcpInvariant, PTL

(* Every change a task sleeps for in tcp_recv or tcp_send wakes it. *)
THEOREM SleepersAreWoken == Spec => []SleepersWait
<1>1. TcpInv => SleepersWait
  <2> SUFFICES ASSUME TcpInv, NEW e \in End
               PROVE  /\ tcb[e].sleep = "recv" => tcb[e].rx = <<>> /\ ~tcb[e].fin /\ ~tcb[e].reset
                      /\ tcb[e].sleep = "send" => Len(tcb[e].buf) = TCP_SNDBUF /\ ~tcb[e].reset /\ tcb[e].state # "CLOSED"
      BY Zenon DEF SleepersWait
  <2>1. CASE Exists(e)
    <3>1. Asleep(tcb[e])
          BY <2>1, Mine, Zenon DEF Good
    <3> QED BY <3>1, Zenon DEF Asleep
  <2>2. CASE ~Exists(e)
        BY <2>2, NoTask, Zenon
  <2> QED BY <2>1, <2>2, Zenon
<1> QED BY <1>1, TcpInvariant, PTL
=============================================================================
