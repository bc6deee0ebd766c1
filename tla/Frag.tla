-------------------------------- MODULE Frag ---------------------------------
(***************************************************************************)
(* IP datagrams that are larger than the MTU: ip_send (net/ip.c) takes an   *)
(* identifier and emits fragments, and ip_frag_input (net/ip_frag.c) puts   *)
(* them together in one of FRAG_SLOTS slots, each under a timeout.  Lengths *)
(* and offsets are in units of 8 bytes, a short last unit counting as one.  *)
(* The network loses, repeats and reorders fragments.  All datagrams have   *)
(* the same source, destination and protocol, so that the identifier alone  *)
(* tells them apart.  A sender whose ip_emit fails goes no further.         *)
(***************************************************************************)
EXTENDS Integers, FiniteSets

CONSTANTS Datagrams, Size,   \* units of each datagram, more than Chunk
          Chunk,             \* (mtu - 20) / 8
          IDS,               \* 2^16, the number of identifiers
          FRAG_SLOTS, FRAG_TIMEOUT, MaxTime, None

VARIABLES g_ip_id,           \* the next identifier, without a lock
          id,                \* the identifier a sender took, or None
          stored,            \* senders that have stored the next one
          off,               \* units a sender has emitted
          g_frags, now,
          tick,              \* the slot ip_frag_tick looks at next and its now, or None
          out                \* what the last step handed to ip_deliver, or None
fvars == <<g_ip_id, id, stored, off, g_frags, now, tick, out>>

ASSUME FragAssumption == /\ Chunk \in Nat \ {0} /\ IDS \in Nat \ {0} /\ None \notin Nat
                         /\ FRAG_TIMEOUT \in Nat
                         /\ Size \in [Datagrams -> Nat \ {0}]

senders == <<g_ip_id, id, stored, off>>

Slot == 1 .. FRAG_SLOTS
Offsets(d) == {o \in 0 .. Size[d] - 1 : o % Chunk = 0}
EndOf(d, o) == IF Size[d] - o < Chunk THEN Size[d] ELSE o + Chunk

(* A slot after slot_reset.  came is history: the fragments since then.     *)
(* What is in buf by then is no datagram's.                                 *)
Unused == [used |-> FALSE, id |-> None, total |-> 0, filled |-> 0, bmap |-> {},
           deadline |-> 0, buf |-> <<>>, came |-> {}]

FInit == /\ g_ip_id = 1 % IDS /\ id = [d \in Datagrams |-> None] /\ stored = {}
         /\ off = [d \in Datagrams |-> 0]
         /\ g_frags = [s \in Slot |-> Unused]
         /\ now = 0 /\ tick = None /\ out = None
-----------------------------------------------------------------------------
(* id = g_ip_id++ is a read and a write.                                    *)
ip_send_id(d) == \/ /\ id[d] = None /\ id' = [id EXCEPT ![d] = g_ip_id]
                    /\ UNCHANGED <<g_ip_id, stored>>
                 \/ /\ id[d] # None /\ d \notin stored
                    /\ g_ip_id' = (id[d] + 1) % IDS /\ stored' = stored \cup {d}
                    /\ UNCHANGED id
ip_send_emit(d) == /\ d \in stored /\ off[d] < Size[d]
                   /\ off' = [off EXCEPT ![d] = EndOf(d, @)]
ip_send(d) == /\ \/ ip_send_id(d) /\ UNCHANGED off
                 \/ ip_send_emit(d) /\ UNCHANGED <<g_ip_id, id, stored>>
              /\ out' = None /\ UNCHANGED <<g_frags, now, tick>>
-----------------------------------------------------------------------------
slot_find(i) == {s \in Slot : g_frags[s].used /\ g_frags[s].id = i}

(* The first slot that is free, or else the one with the earliest deadline. *)
slot_claim == LET free == {s \in Slot : ~g_frags[s].used}
                  worse(s, t) == \/ g_frags[t].deadline < g_frags[s].deadline
                                 \/ g_frags[t].deadline = g_frags[s].deadline /\ t < s
              IN  IF free # {} THEN CHOOSE s \in free : \A t \in free : s <= t
                  ELSE CHOOSE s \in Slot : \A t \in Slot : ~worse(s, t)
Claimed(i) == [Unused EXCEPT !.used = TRUE, !.id = i, !.deadline = now + FRAG_TIMEOUT]

(* A unit that is there already is neither copied nor counted again.        *)
bmap_fill_repeats(f, d, o) ==
    [f EXCEPT !.bmap = @ \cup (o .. EndOf(d, o) - 1),
              !.filled = @ + EndOf(d, o) - o,
              !.buf = [u \in f.bmap \cup (o .. EndOf(d, o) - 1) |->
                          IF u \in f.bmap THEN f.buf[u] ELSE d],
              !.came = @ \cup {<<d, o>>}]
bmap_fill(f, d, o) ==
    [f EXCEPT !.bmap = @ \cup (o .. EndOf(d, o) - 1),
              !.filled = @ + Cardinality((o .. EndOf(d, o) - 1) \ f.bmap),
              !.buf = [u \in f.bmap \cup (o .. EndOf(d, o) - 1) |->
                          IF u \in f.bmap THEN f.buf[u] ELSE d],
              !.came = @ \cup {<<d, o>>}]

(* A fragment comes in: a last one that disagrees about the length drops    *)
(* the slot; the one that makes it complete hands the buffer over.          *)
ip_frag_input(d, o) ==
    /\ o < off[d]
    /\ LET s == IF slot_find(id[d]) # {} THEN CHOOSE t \in slot_find(id[d]) : TRUE
                ELSE slot_claim
           f == IF slot_find(id[d]) # {} THEN g_frags[s] ELSE Claimed(id[d])
           last == EndOf(d, o) = Size[d]
           g == bmap_fill(IF last THEN [f EXCEPT !.total = Size[d]] ELSE f, d, o)
           becomes(slot) == g_frags' = [g_frags EXCEPT ![s] = slot]
       IN  \/ /\ last /\ f.total # 0 /\ f.total # Size[d]
              /\ becomes(Unused) /\ out' = None
           \/ /\ ~(last /\ f.total # 0 /\ f.total # Size[d])
              /\ IF g.total # 0 /\ g.filled = g.total
                 THEN becomes(Unused) /\ out' = g
                 ELSE becomes(g) /\ out' = None
    /\ UNCHANGED <<senders, now, tick>>

(* ip_frag_tick takes the lock anew for every slot, with the time it began  *)
(* at; the ICMP message about a datagram whose first fragment came is left  *)
(* out.                                                                     *)
ip_frag_tick ==
    /\ \/ tick = None /\ tick' = [slot |-> 1, now |-> now] /\ UNCHANGED g_frags
       \/ /\ tick # None
          /\ g_frags' = [g_frags EXCEPT ![tick.slot] =
                            IF @.used /\ tick.now - @.deadline >= 0 THEN Unused ELSE @]
          /\ tick' = IF tick.slot = FRAG_SLOTS THEN None ELSE [tick EXCEPT !.slot = @ + 1]
    /\ out' = None /\ UNCHANGED <<senders, now>>
Passes == /\ now < MaxTime /\ now' = now + 1
          /\ out' = None /\ UNCHANGED <<senders, g_frags, tick>>

FNext == \/ \E d \in Datagrams : ip_send(d) \/ \E o \in Offsets(d) : ip_frag_input(d, o)
         \/ ip_frag_tick \/ Passes
FSpec == FInit /\ [][FNext]_fvars
-----------------------------------------------------------------------------
All(d) == {<<d, o>> : o \in Offsets(d)}
Mixed(f) == \E x, y \in f.came : x[1] # y[1] /\ id[x[1]] = id[y[1]]

(* A datagram is delivered when all its fragments have come since its slot  *)
(* was claimed, and not before, with every unit in its place, in whatever   *)
(* order and however often they came; and one datagram is assembled in one  *)
(* slot.  Not so for two datagrams with the same identifier in one slot,    *)
(* which a wrap of g_ip_id, or two senders that read it at once, bring      *)
(* about.                                                                   *)
ReassembledAsSent ==
    /\ out # None => \/ Mixed(out)
                     \/ \E d \in Datagrams : /\ out.came = All(d) /\ out.total = Size[d]
                                            /\ out.buf = [u \in 0 .. Size[d] - 1 |-> d]
    /\ \A s \in Slot : g_frags[s].used =>
          /\ \A d \in Datagrams : g_frags[s].came # All(d)
          /\ slot_find(g_frags[s].id) = {s}
=============================================================================
