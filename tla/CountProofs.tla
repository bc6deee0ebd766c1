----------------------------- MODULE CountProofs -----------------------------
(***************************************************************************)
(* The reader-writer lock, IP fragments and shared memory, whose correctness*)
(* rests on counts, for any number of threads, datagrams, slots, tasks, page*)
(* maps and segments and any sizes.                                         *)
(***************************************************************************)
EXTENDS Rwlock, Frag, Shm, FiniteSetTheorems, TLAPS

(* Rwlock: the counter is the number of threads counted in it, the mutex w  *)
(* belongs to whoever is between its two calls, and a writer past the test  *)
(* of its loop has found the counter at zero, where it stays.               *)
HoldsW == {"rd_add", "rd_unlock", "wr_test", "wr_load", "wr_wait", "wr_asleep", "writing", "un_w"}
Elsewhere == {"idle", "reading", "un_sub", "un_wake"}
InCount == {"rd_unlock", "reading", "un_sub"}
RwInv == /\ mem \in [{"readers"} -> Nat]
         /\ r_pc \in [Threads -> HoldsW \cup Elsewhere]
         /\ \A t \in Threads : r_pc[t] \in HoldsW <=> holder = t
         /\ readers = Cardinality(Reading)
         /\ \A t \in Threads : r_pc[t] \in {"writing", "un_w"} => readers = 0

LEMMA ReadingChanges ==
    ASSUME NEW t \in Threads, NEW l \in HoldsW \cup Elsewhere, RGo(t, l),
           r_pc \in [Threads -> HoldsW \cup Elsewhere]
    PROVE  /\ r_pc[t] \in InCount <=> l \in InCount => Reading' = Reading
           /\ l \in InCount => Reading' = Reading \cup {t}
           /\ l \notin InCount => Reading' = Reading \ {t}
  BY SMTT(30) DEF RGo, Reading, InCount

LEMMA ReadersCount ==
    /\ IsFiniteSet(Reading) /\ Cardinality(Reading) \in Nat
    /\ \A t \in Threads : /\ t \in Reading => /\ Cardinality(Reading) > 0
                                              /\ Cardinality(Reading \ {t}) = Cardinality(Reading) - 1
                          /\ t \notin Reading => Cardinality(Reading \cup {t}) = Cardinality(Reading) + 1
    /\ Cardinality(Reading) = 0 => Reading = {}
<1>1. IsFiniteSet(Reading) /\ Cardinality(Reading) \in Nat
  BY RwlockAssumption, FS_Subset, FS_CardinalityType, Zenon DEF Reading
<1>2. ASSUME NEW t \in Threads, t \in Reading
      PROVE  Cardinality(Reading) > 0 /\ Cardinality(Reading \ {t}) = Cardinality(Reading) - 1
  <2>1. Cardinality(Reading \ {t}) = Cardinality(Reading) - 1
    BY <1>1, <1>2, FS_RemoveElement, Zenon
  <2>2. Cardinality(Reading \ {t}) \in Nat
    BY <1>1, FS_RemoveElement, FS_CardinalityType, Zenon
  <2> QED BY <1>1, <2>1, <2>2, SMTT(30)
<1>3. ASSUME NEW t \in Threads, t \notin Reading
      PROVE  Cardinality(Reading \cup {t}) = Cardinality(Reading) + 1
  BY <1>1, <1>3, FS_AddElement, Zenon
<1>4. Cardinality(Reading) = 0 => Reading = {}
  BY <1>1, FS_EmptySet, Zenon
<1> QED BY <1>1, <1>2, <1>3, <1>4, Zenon

(* A step of a thread that leaves the counter and the set of the counted    *)
(* threads alone, takes w where nobody has it or gives it up, and does not  *)
(* become a writer while there are readers.                                 *)
LEMMA RwMove ==
    ASSUME RwInv, NEW t \in Threads, NEW l \in HoldsW \cup Elsewhere, RGo(t, l), mem' = mem,
           r_pc[t] \in InCount <=> l \in InCount,
           l \in {"writing", "un_w"} => readers = 0,
           \/ holder' = holder /\ (r_pc[t] \in HoldsW <=> l \in HoldsW)
           \/ holder = NoThread /\ holder' = t /\ l \in HoldsW
           \/ holder = t /\ holder' = NoThread /\ l \notin HoldsW
    PROVE  RwInv'
<1>1. Reading' = Reading
  BY ReadingChanges, Zenon DEF RwInv
<1>2. readers' = readers
  BY Zenon DEF readers
<1>3. r_pc' \in [Threads -> HoldsW \cup Elsewhere]
  BY SMTT(30) DEF RwInv, RGo
<1>4. \A u \in Threads : r_pc'[u] \in HoldsW <=> holder' = u
  BY RwlockAssumption, SMTT(30) DEF RwInv, RGo
<1>5. \A u \in Threads : r_pc'[u] \in {"writing", "un_w"} => readers' = 0
  BY <1>2, Zenon DEF RwInv, RGo
<1>6. readers' = Cardinality(Reading')
  BY <1>1, <1>2, Zenon DEF RwInv
<1> QED BY <1>3, <1>4, <1>5, <1>6, Zenon DEF RwInv

LEMMA RwCount == ASSUME RwInv, NEW t \in Threads, RdAdd(t) \/ UnSub(t) PROVE RwInv'
<1>1. CASE RdAdd(t)
  <2>1. RGo(t, "rd_unlock") /\ r_pc[t] = "rd_add" /\ holder' = holder /\ holder = t
    BY <1>1, Zenon DEF RdAdd, RAt, RwInv, HoldsW
  <2>2. Reading' = Reading \cup {t} /\ t \notin Reading
    <3>1. Reading' = Reading \cup {t}
      BY <2>1, ReadingChanges, Zenon DEF RwInv, InCount, HoldsW
    <3>2. t \notin Reading
      BY <2>1, Zenon DEF Reading
    <3> QED BY <3>1, <3>2, Zenon
  <2>3. mem' \in [{"readers"} -> Nat] /\ readers' = readers + 1
    BY <1>1, SMTT(30) DEF RdAdd, Count, readers, RwInv
  <2>4. readers' = Cardinality(Reading')
    BY <2>2, <2>3, ReadersCount, Zenon DEF RwInv
  <2>5. r_pc' \in [Threads -> HoldsW \cup Elsewhere]
    BY <2>1, Zenon DEF RwInv, RGo, HoldsW
  <2>6. \A u \in Threads : r_pc'[u] \in HoldsW <=> holder' = u
    BY <2>1, Zenon DEF RwInv, RGo, HoldsW
  <2>7. \A u \in Threads : r_pc'[u] \notin {"writing", "un_w"}
    BY <2>1, Zenon DEF RwInv, RGo, HoldsW
  <2> QED BY <2>3, <2>4, <2>5, <2>6, <2>7, Zenon DEF RwInv
<1>2. CASE UnSub(t)
  <2> DEFINE l == IF readers = 1 THEN "un_wake" ELSE "idle"
  <2>1. RGo(t, l) /\ r_pc[t] = "un_sub" /\ holder' = holder /\ l \in {"un_wake", "idle"}
    BY <1>2, Zenon DEF UnSub, RAt
  <2> HIDE DEF l
  <2>2. Reading' = Reading \ {t} /\ t \in Reading
    <3>1. Reading' = Reading \ {t}
      BY <2>1, ReadingChanges, Zenon DEF RwInv, InCount, Elsewhere
    <3>2. t \in Reading
      BY <2>1, Zenon DEF Reading
    <3> QED BY <3>1, <3>2, Zenon
  <2>3. readers > 0 /\ readers \in Nat
    BY <2>2, ReadersCount, Zenon DEF RwInv
  <2>4. mem' \in [{"readers"} -> Nat] /\ readers' = readers - 1
    BY <1>2, <2>3, SMTT(30) DEF UnSub, Count, readers, RwInv
  <2>5. readers' = Cardinality(Reading')
    BY <2>2, <2>4, ReadersCount, Zenon DEF RwInv
  <2>6. r_pc' \in [Threads -> HoldsW \cup Elsewhere]
    BY <2>1, Zenon DEF RwInv, RGo, Elsewhere
  <2>7. \A u \in Threads : r_pc'[u] \in HoldsW <=> holder' = u
    BY <2>1, Zenon DEF RwInv, RGo, HoldsW
  <2>8. \A u \in Threads : r_pc'[u] \notin {"writing", "un_w"}
    BY <2>1, <2>3, SMTT(30) DEF RwInv, RGo
  <2> QED BY <2>4, <2>5, <2>6, <2>7, <2>8, Zenon DEF RwInv
<1> QED BY <1>1, <1>2, Zenon

LEMMA RwStep == RwInv /\ [RNext]_rvars => RwInv'
<1> SUFFICES ASSUME RwInv, [RNext]_rvars PROVE RwInv'
  BY Zenon
<1>1. CASE UNCHANGED rvars
  <2>1. UNCHANGED <<mem, r_pc, holder>>
    BY <1>1, Zenon DEF rvars
  <2>2. Reading' = Reading /\ readers' = readers
    BY <2>1, Zenon DEF Reading, readers
  <2> QED BY <2>1, <2>2, Zenon DEF RwInv
<1>2. CASE RNext
  <2> PICK t \in Threads : \/ RdLock(t) \/ RdAdd(t) \/ RdUnlockW(t)
                            \/ WrLock(t) \/ WrTest(t) \/ WrLoad(t) \/ WrWait(t) \/ WrReturn(t)
                            \/ UnlockTest(t) \/ UnSub(t) \/ UnWake(t) \/ UnlockW(t)
                            \/ RInterrupted(t)
    BY <1>2, Zenon DEF RNext
  <2> USE DEF RAt, InCount, HoldsW, Elsewhere, Mutex!Acquire, Mutex!Release
  <2>1. CASE RdLock(t)
    BY <2>1, RwMove, Zenon DEF RdLock
  <2>2. CASE WrLock(t)
    BY <2>2, RwMove, Zenon DEF WrLock
  <2>3. CASE RdUnlockW(t)
    BY <2>3, RwMove, Zenon DEF RdUnlockW
  <2>4. CASE WrTest(t)
    <3>1. readers \in Nat
      BY SMTT(30) DEF RwInv, readers
    <3> QED BY <2>4, <3>1, RwMove, SMTT(30) DEF WrTest
  <2>5. CASE WrLoad(t)
    BY <2>5, RwMove, Zenon DEF WrLoad
  <2>6. CASE WrWait(t)
    <3>1. mem' = mem /\ holder' = holder /\ (RGo(t, "wr_asleep") \/ RGo(t, "wr_test"))
      BY <2>6, Zenon DEF WrWait
    <3> QED BY <2>6, <3>1, RwMove, Zenon DEF WrWait
  <2>7. CASE WrReturn(t)
    BY <2>7, RwMove, Zenon DEF WrReturn
  <2>8. CASE UnlockTest(t)
    <3>1. readers \in Nat
      BY SMTT(30) DEF RwInv, readers
    <3>2. CASE r_pc[t] = "reading"
      <4>1. t \in Reading
        BY <3>2, Zenon DEF Reading
      <4>2. readers > 0
        BY <4>1, ReadersCount, Zenon DEF RwInv
      <4> QED BY <2>8, <3>2, <4>2, RwMove, Zenon DEF UnlockTest
    <3>3. CASE r_pc[t] = "writing"
      <4>1. readers = 0
        BY <3>3, Zenon DEF RwInv
      <4> QED BY <2>8, <3>3, <4>1, RwMove, SMTT(30) DEF UnlockTest
    <3> QED BY <2>8, <3>2, <3>3, Zenon DEF UnlockTest
  <2>9. CASE UnWake(t)
    BY <2>9, RwMove, Zenon DEF UnWake
  <2>10. CASE UnlockW(t)
    BY <2>10, RwMove, Zenon DEF UnlockW
  <2>11. CASE RInterrupted(t)
    <3>1. UNCHANGED <<mem, r_pc, holder>>
      BY <2>11, Zenon DEF RInterrupted
    <3>2. Reading' = Reading /\ readers' = readers
      BY <3>1, Zenon DEF Reading, readers
    <3> QED BY <3>1, <3>2, Zenon DEF RwInv
  <2> QED BY <2>1, <2>2, <2>3, <2>4, <2>5, <2>6, <2>7, <2>8, <2>9, <2>10, <2>11, RwCount, Zenon
<1> QED BY <1>1, <1>2, Zenon

(* For any number of threads a writer holds the lock alone: no other        *)
(* writer, and no reader that is inside or in the middle of its unlock,     *)
(* although pthread_rwlock_unlock guesses from the counter which of the two *)
(* its caller is.                                                           *)
THEOREM WritersAlone == RSpec => []WriterAlone
<1>1. RInit => RwInv
  <2> SUFFICES ASSUME RInit PROVE RwInv
    BY Zenon
  <2>1. Reading = {}
    BY SMTT(30) DEF RInit, Reading
  <2>2. readers = 0 /\ mem \in [{"readers"} -> Nat]
    BY RwlockAssumption, Zenon DEF RInit, readers
  <2>3. readers = Cardinality(Reading)
    BY <2>1, <2>2, FS_EmptySet, Zenon
  <2> QED BY <2>2, <2>3, RwlockAssumption, Zenon
          DEF RInit, RwInv, Mutex!Init, HoldsW, Elsewhere
<1>2. RwInv => WriterAlone
  <2> SUFFICES ASSUME RwInv, NEW t \in Threads, r_pc[t] \in {"writing", "un_w"}
      PROVE  /\ holder = t /\ readers = 0 /\ Reading = {}
             /\ \A u \in Threads \ {t} : r_pc[u] \notin {"writing", "un_w"}
    BY Zenon DEF WriterAlone
  <2>1. holder = t /\ readers = 0
    BY SMTT(30) DEF RwInv, HoldsW
  <2>2. Reading = {}
    BY <2>1, ReadersCount, Zenon DEF RwInv
  <2>3. \A u \in Threads \ {t} : r_pc[u] \notin {"writing", "un_w"}
    BY <2>1, Zenon DEF RwInv, HoldsW
  <2> QED BY <2>1, <2>2, <2>3, Zenon
<1> QED BY <1>1, <1>2, RwStep, PTL DEF RSpec
-----------------------------------------------------------------------------
(* Frag: a slot in use holds exactly the units of the fragments that came   *)
(* since it was claimed, each from one of them, counts them, and knows the  *)
(* length once a last fragment has come; it is not complete, or it would    *)
(* have been handed over.                                                   *)
Units(x) == x[2] .. EndOf(x[1], x[2]) - 1
Fragments == {x \in Datagrams \X Nat : x[2] \in Offsets(x[1])}
Buffers == {<<>>} \cup UNION {[B -> Datagrams] : B \in SUBSET Nat}
Records == [used : BOOLEAN, id : Nat \cup {None}, total : Nat, filled : Nat,
            bmap : SUBSET Nat, deadline : Nat, buf : Buffers, came : SUBSET Fragments]
Complete(f) == f.total # 0 /\ f.filled = f.total
Holds(f) ==
    /\ f.id # None
    /\ \A x \in f.came : Units(x) \subseteq f.bmap /\ id[x[1]] = f.id
    /\ \A u \in f.bmap : \E x \in f.came : u \in Units(x) /\ f.buf[u] = x[1]
    /\ f.bmap # {} => f.buf \in [f.bmap -> Datagrams]
    /\ IsFiniteSet(f.bmap) /\ f.filled = Cardinality(f.bmap)
    /\ f.total # 0 => \E x \in f.came : f.total = Size[x[1]]
    /\ \A x \in f.came : EndOf(x[1], x[2]) = Size[x[1]] => f.total = Size[x[1]]
Apart == \A s, t \in Slot : g_frags[s].used /\ g_frags[t].used /\ g_frags[s].id = g_frags[t].id => s = t
FragTypes == /\ g_ip_id \in Nat /\ id \in [Datagrams -> Nat \cup {None}] /\ now \in Nat
             /\ stored \subseteq Datagrams /\ off \in [Datagrams -> Nat]
             /\ \A d \in Datagrams : /\ d \in stored => id[d] # None
                                     /\ off[d] > 0 => d \in stored
             /\ g_frags \in [Slot -> Records]
SlotsHold == \A s \in Slot : g_frags[s].used => Holds(g_frags[s]) /\ ~Complete(g_frags[s])
Delivered ==
    out # None => \/ Mixed(out)
                  \/ \E d \in Datagrams : /\ out.came = All(d) /\ out.total = Size[d]
                                         /\ out.buf = [u \in 0 .. Size[d] - 1 |-> d]
FragInv == FragTypes /\ Apart /\ SlotsHold /\ Delivered

LEMMA EndBounds ==
    ASSUME NEW d \in Datagrams, NEW o \in Offsets(d)
    PROVE  /\ o \in Nat /\ o < Size[d] /\ Size[d] \in Nat \ {0}
           /\ EndOf(d, o) \in Nat /\ o < EndOf(d, o) /\ EndOf(d, o) <= Size[d] /\ EndOf(d, o) <= o + Chunk
<1>1. Size[d] \in Nat \ {0} /\ Chunk \in Nat \ {0}
  BY FragAssumption, Zenon
<1>2. o \in Nat /\ o < Size[d]
  BY <1>1 DEF Offsets
<1> QED BY <1>1, <1>2 DEF EndOf

(* Every unit of a datagram is in the fragment that starts at or below it.  *)
LEMMA UnitCovered ==
    ASSUME NEW d \in Datagrams, NEW u \in 0 .. Size[d] - 1
    PROVE  \E o \in Offsets(d) : u \in Units(<<d, o>>)
<1> DEFINE r == u % Chunk
           q == u \div Chunk
<1>1. Size[d] \in Nat \ {0} /\ Chunk \in Nat \ {0} /\ u \in Nat /\ u < Size[d]
  BY FragAssumption
<1>2. r \in Nat /\ r < Chunk /\ q \in Nat /\ u = Chunk * q + r
  BY <1>1, SMT
<1> HIDE DEF r, q
<1>3. u - r = Chunk * q
  BY <1>1, <1>2
<1>4. (u - r) % Chunk = 0
  BY <1>1, <1>2, <1>3, SMT
<1>5. u - r \in Offsets(d)
  BY <1>1, <1>2, <1>3, <1>4 DEF Offsets
<1>6. u \in (u - r) .. EndOf(d, u - r) - 1
  BY <1>1, <1>2, <1>5 DEF EndOf
<1> QED BY <1>5, <1>6, Zenon DEF Units

LEMMA LastFragment ==
    ASSUME NEW d \in Datagrams
    PROVE  \E o \in Offsets(d) : EndOf(d, o) = Size[d]
<1>1. Size[d] \in Nat \ {0}
  BY FragAssumption, Zenon
<1>2. Size[d] - 1 \in 0 .. Size[d] - 1
  BY <1>1
<1>3. PICK o \in Offsets(d) : Size[d] - 1 \in Units(<<d, o>>)
  BY <1>2, UnitCovered, Zenon
<1>4. Size[d] - 1 <= EndOf(d, o) - 1
  BY <1>3 DEF Units
<1> QED BY <1>1, <1>3, <1>4, EndBounds

LEMMA SameFragment ==
    ASSUME NEW d \in Datagrams, NEW o \in Offsets(d), NEW p \in Offsets(d), o \in Units(<<d, p>>)
    PROVE  o = p
<1> DEFINE a == o \div Chunk
           b == p \div Chunk
<1>1. Chunk \in Nat \ {0} /\ o \in Nat /\ p \in Nat /\ o % Chunk = 0 /\ p % Chunk = 0
  BY FragAssumption, EndBounds, Zenon DEF Offsets
<1>2. a \in Nat /\ b \in Nat /\ o = Chunk * a /\ p = Chunk * b
  BY <1>1, SMT
<1> HIDE DEF a, b
<1>3. p <= o /\ o < p + Chunk
  BY <1>1, EndBounds DEF Units
<1>4. ASSUME a >= b + 1 PROVE FALSE
  <2>1. Chunk * a >= Chunk * (b + 1) /\ Chunk * (b + 1) = Chunk * b + Chunk
    BY <1>1, <1>2, <1>4, SMT
  <2> QED BY <1>1, <1>2, <1>3, <2>1
<1>5. ASSUME b >= a + 1 PROVE FALSE
  <2>1. Chunk * b >= Chunk * (a + 1) /\ Chunk * (a + 1) = Chunk * a + Chunk
    BY <1>1, <1>2, <1>5, SMT
  <2> QED BY <1>1, <1>2, <1>3, <2>1
<1>6. a = b
  BY <1>2, <1>4, <1>5
<1> QED BY <1>2, <1>6, Zenon

(* A slot with all the fragments of a datagram is complete, ...             *)
LEMMA AllComplete ==
    ASSUME NEW f \in Records, Holds(f), NEW d \in Datagrams, f.came = All(d)
    PROVE  Complete(f)
<1>1. Size[d] \in Nat \ {0} /\ 0 .. Size[d] - 1 = 0 .. (Size[d] - 1)
  BY FragAssumption, Zenon
<1>2. \A o \in Offsets(d) : <<d, o>> \in f.came
  BY Zenon DEF All
<1>3. f.total = Size[d]
  BY <1>2, LastFragment, Zenon DEF Holds
<1>4. f.bmap = 0 .. Size[d] - 1
  <2>1. ASSUME NEW u \in f.bmap PROVE u \in 0 .. Size[d] - 1
    <3>1. PICK o \in Offsets(d) : u \in Units(<<d, o>>)
      BY Zenon DEF Holds, All
    <3> QED BY <1>1, <3>1, EndBounds DEF Units
  <2>2. ASSUME NEW u \in 0 .. Size[d] - 1 PROVE u \in f.bmap
    <3>1. PICK o \in Offsets(d) : u \in Units(<<d, o>>)
      BY UnitCovered, Zenon
    <3> QED BY <1>2, <3>1, Zenon DEF Holds
  <2> QED BY <2>1, <2>2, Zenon
<1>5. Cardinality(0 .. Size[d] - 1) = Size[d]
  BY <1>1, FS_Interval
<1> QED BY <1>1, <1>3, <1>4, <1>5, Zenon DEF Complete, Holds

(* ... and the other way round, unless it has fragments of several.         *)
LEMMA CompleteIsAll ==
    ASSUME NEW f \in Records, Holds(f), Complete(f), ~Mixed(f)
    PROVE  \E d \in Datagrams : /\ f.came = All(d) /\ f.total = Size[d]
                                /\ f.buf = [u \in 0 .. Size[d] - 1 |-> d]
<1>1. PICK y \in f.came : f.total = Size[y[1]]
  BY Zenon DEF Complete, Holds
<1> DEFINE d == y[1]
<1>2. d \in Datagrams /\ Size[d] \in Nat \ {0}
  BY FragAssumption, Zenon DEF Records, Fragments
<1>3. ASSUME NEW x \in f.came PROVE x = <<d, x[2]>> /\ x[2] \in Offsets(d)
  <2>1. x[1] = d
    BY <1>1 DEF Mixed, Holds
  <2>2. x \in Fragments
    BY Zenon DEF Records
  <2> QED BY <2>1, <2>2 DEF Fragments
<1> HIDE DEF d
<1>4. f.bmap \subseteq 0 .. Size[d] - 1
  <2> SUFFICES ASSUME NEW u \in f.bmap PROVE u \in 0 .. Size[d] - 1
    BY Zenon
  <2>1. PICK x \in f.came : u \in Units(x)
    BY Zenon DEF Holds
  <2>2. u \in Units(<<d, x[2]>>) /\ x[2] \in Offsets(d)
    BY <1>3, <2>1, Zenon
  <2> QED BY <1>2, <2>2, EndBounds DEF Units
<1>5. f.bmap = 0 .. Size[d] - 1
  <2>1. Cardinality(f.bmap) = Size[d]
    BY <1>1, Zenon DEF Complete, Holds, d
  <2>2. 0 \in Int /\ Size[d] - 1 \in Int /\ ~(0 > Size[d] - 1) /\ (Size[d] - 1) - 0 + 1 = Size[d]
    BY <1>2
  <2>3. IsFiniteSet(0 .. Size[d] - 1) /\ Cardinality(0 .. Size[d] - 1) = Size[d]
    BY <2>2, FS_Interval, Zenon
  <2> QED BY <1>4, <2>1, <2>3, FS_Subset, Zenon
<1>6. All(d) \subseteq f.came
  <2> SUFFICES ASSUME NEW o \in Offsets(d) PROVE <<d, o>> \in f.came
    BY Zenon DEF All
  <2>1. o \in f.bmap
    BY <1>2, <1>5, EndBounds
  <2>2. PICK x \in f.came : o \in Units(x)
    BY <2>1, Zenon DEF Holds
  <2>3. x = <<d, x[2]>> /\ x[2] \in Offsets(d) /\ o \in Units(<<d, x[2]>>)
    BY <1>3, <2>2, Zenon
  <2>4. x[2] = o
    BY <1>2, <2>3, SameFragment, Zenon
  <2> QED BY <2>3, <2>4, Zenon
<1>7. f.came = All(d)
  BY <1>3, <1>6, Zenon DEF All
<1>8. f.buf = [u \in 0 .. Size[d] - 1 |-> d]
  <2>1. f.buf \in [f.bmap -> Datagrams]
    <3>1. 0 \in f.bmap
      BY <1>2, <1>5
    <3> QED BY <3>1, Zenon DEF Holds
  <2>2. \A u \in f.bmap : f.buf[u] = d
    <3> SUFFICES ASSUME NEW u \in f.bmap PROVE f.buf[u] = d
      BY Zenon
    <3>1. PICK x \in f.came : f.buf[u] = x[1]
      BY Zenon DEF Holds
    <3> QED BY <1>3, <3>1
  <2> QED BY <1>5, <2>1, <2>2, Zenon
<1>9. f.total = Size[d]
  BY <1>1, Zenon DEF d
<1> QED BY <1>2, <1>7, <1>8, <1>9, Zenon

(* What bmap_fill makes of a slot.                                          *)
Filled(h, d, o, g) ==
    LET new == Units(<<d, o>>)
    IN  /\ g.used = h.used /\ g.id = h.id /\ g.total = h.total /\ g.deadline = h.deadline
        /\ g.bmap = h.bmap \cup new /\ g.filled = h.filled + Cardinality(new \ h.bmap)
        /\ \A u \in h.bmap : g.buf[u] = h.buf[u]
        /\ \A u \in new \ h.bmap : g.buf[u] = d
        /\ (\A u \in h.bmap : h.buf[u] \in Datagrams) => g.buf \in [h.bmap \cup new -> Datagrams]
        /\ g.came = h.came \cup {<<d, o>>}
LEMMA FillFields ==
    ASSUME NEW h \in Records, NEW d \in Datagrams, NEW o \in Offsets(d)
    PROVE  Filled(h, d, o, bmap_fill(h, d, o))
<1> DEFINE g == bmap_fill(h, d, o)
           new == Units(<<d, o>>)
<1>1. new = o .. EndOf(d, o) - 1
  BY Zenon DEF Units
<1> HIDE DEF new
<1>2. /\ g.used = h.used /\ g.id = h.id /\ g.total = h.total /\ g.deadline = h.deadline
  BY Zenon DEF bmap_fill, Records
<1>3. g.bmap = h.bmap \cup new /\ g.came = h.came \cup {<<d, o>>}
  BY <1>1, Zenon DEF bmap_fill, Records
<1>4. g.filled = h.filled + Cardinality(new \ h.bmap)
  BY <1>1, Zenon DEF bmap_fill, Records
<1>5. g.buf = [u \in h.bmap \cup new |-> IF u \in h.bmap THEN h.buf[u] ELSE d]
  BY <1>1, Zenon DEF bmap_fill, Records
<1> HIDE DEF g
<1>6. /\ \A u \in h.bmap : g.buf[u] = h.buf[u]
      /\ \A u \in new \ h.bmap : g.buf[u] = d
      /\ (\A u \in h.bmap : h.buf[u] \in Datagrams) => g.buf \in [h.bmap \cup new -> Datagrams]
  BY <1>5, Zenon
<1>7. Filled(h, d, o, g)
  BY <1>2, <1>3, <1>4, <1>6, Zenon DEF Filled, new
<1> QED BY <1>7, Zenon DEF g

LEMMA FillRecord ==
    ASSUME NEW h \in Records, NEW d \in Datagrams, NEW o \in Offsets(d),
           NEW g, g = bmap_fill(h, d, o),
           g.bmap \in SUBSET Nat, g.filled \in Nat, g.buf \in Buffers, g.came \in SUBSET Fragments
    PROVE  g \in Records
<1>1. g \in [used : {g.used}, id : {g.id}, total : {g.total}, filled : {g.filled},
             bmap : {g.bmap}, deadline : {g.deadline}, buf : {g.buf}, came : {g.came}]
  BY Zenon DEF bmap_fill, Records
<1>2. g.used \in BOOLEAN /\ g.id \in Nat \cup {None} /\ g.total \in Nat /\ g.deadline \in Nat
  BY Zenon DEF bmap_fill, Records
<1> QED BY <1>1, <1>2, Zenon DEF Records

LEMMA FillHolds ==
    ASSUME NEW f \in Records, Holds(f), NEW d \in Datagrams, NEW o \in Offsets(d), id[d] = f.id,
           ~(EndOf(d, o) = Size[d] /\ f.total # 0 /\ f.total # Size[d]),
           NEW g, g = bmap_fill(IF EndOf(d, o) = Size[d] THEN [f EXCEPT !.total = Size[d]] ELSE f, d, o)
    PROVE  g \in Records /\ Holds(g) /\ g.used = f.used /\ g.id = f.id
<1> DEFINE last == EndOf(d, o) = Size[d]
           h == IF last THEN [f EXCEPT !.total = Size[d]] ELSE f
           new == Units(<<d, o>>)
<1>1. Size[d] \in Nat \ {0} /\ o \in Nat /\ EndOf(d, o) \in Nat
  BY EndBounds, Zenon
<1>2. /\ h \in Records /\ h.used = f.used /\ h.id = f.id /\ h.bmap = f.bmap /\ h.filled = f.filled
      /\ h.buf = f.buf /\ h.came = f.came
  <2>1. CASE last
    BY <1>1, <2>1, Zenon DEF Records
  <2>2. CASE ~last
    BY <2>2, Zenon
  <2> QED BY <2>1, <2>2, Zenon
<1>3. h.total = IF last THEN Size[d] ELSE f.total
  BY Zenon DEF Records
<1> HIDE DEF h
<1>4. /\ g.used = f.used /\ g.id = f.id /\ g.total = h.total /\ g.deadline = h.deadline
      /\ g.bmap = f.bmap \cup new /\ g.filled = f.filled + Cardinality(new \ f.bmap)
      /\ \A u \in f.bmap : g.buf[u] = f.buf[u]
      /\ \A u \in new \ f.bmap : g.buf[u] = d
      /\ (\A u \in f.bmap : f.buf[u] \in Datagrams) => g.buf \in [f.bmap \cup new -> Datagrams]
      /\ g.came = f.came \cup {<<d, o>>}
  <2>1. g = bmap_fill(h, d, o)
    BY Zenon DEF h
  <2> HIDE DEF new
  <2>2. new = Units(<<d, o>>)
    BY Zenon DEF new
  <2>3. h \in Records
    BY <1>2, Zenon
  <2>4. Filled(h, d, o, g)
    <3>1. Filled(h, d, o, bmap_fill(h, d, o))
      BY <2>3, FillFields, Zenon
    <3> QED BY <2>1, <3>1, Zenon
  <2> QED BY <1>2, <2>2, <2>4 DEF Filled
<1>5. IsFiniteSet(new) /\ new \subseteq Nat /\ o \in new
  <2>1. o \in Int /\ EndOf(d, o) - 1 \in Int
    BY <1>1
  <2> QED BY <1>1, <2>1, FS_Interval, EndBounds, SMTT(60) DEF Units
<1> HIDE DEF new
<1>6. IsFiniteSet(g.bmap) /\ g.filled = Cardinality(g.bmap) /\ g.filled \in Nat
  <2>1. IsFiniteSet(f.bmap) /\ f.filled = Cardinality(f.bmap)
    BY Zenon DEF Holds
  <2>2. IsFiniteSet(new \ f.bmap)
    BY <1>5, FS_Subset, Zenon
  <2>3. f.bmap \cup (new \ f.bmap) = g.bmap /\ f.bmap \cap (new \ f.bmap) = {}
    BY <1>4, Zenon
  <2>4. IsFiniteSet(g.bmap)
        /\ Cardinality(g.bmap) = Cardinality(f.bmap) + Cardinality(new \ f.bmap) - Cardinality({})
    BY <2>1, <2>2, <2>3, FS_Union, SMTT(60)
  <2>5. Cardinality({}) = 0 /\ Cardinality(f.bmap) \in Nat /\ Cardinality(new \ f.bmap) \in Nat
    BY <2>1, <2>2, FS_EmptySet, FS_CardinalityType, Zenon
  <2> QED BY <1>4, <2>1, <2>4, <2>5
<1>7. g.buf \in [g.bmap -> Datagrams] /\ g.bmap \subseteq Nat
  <2>1. f.bmap \subseteq Nat
    BY Zenon DEF Records
  <2>2. \A u \in f.bmap : f.buf[u] \in Datagrams
    BY Zenon DEF Holds
  <2>3. g.buf \in [f.bmap \cup new -> Datagrams]
    BY <1>4, <2>2, Zenon
  <2> QED BY <1>4, <1>5, <2>1, <2>3, Zenon
<1>8. g.came \subseteq Fragments
  BY <1>1, <1>4 DEF Records, Fragments
<1>9. g \in Records
  <2>1. g = bmap_fill(h, d, o) /\ h \in Records
    BY <1>2, Zenon DEF h
  <2>2. g.buf \in Buffers
    BY <1>7, Zenon DEF Buffers
  <2> QED BY <1>6, <1>7, <1>8, <2>1, <2>2, FillRecord, Zenon
<1>10. ASSUME NEW x \in g.came
       PROVE  /\ Units(x) \subseteq g.bmap /\ id[x[1]] = g.id
              /\ EndOf(x[1], x[2]) = Size[x[1]] => g.total = Size[x[1]]
  <2>1. CASE x = <<d, o>>
    BY <1>3, <1>4, <2>1, Zenon DEF new
  <2>2. CASE x \in f.came
    <3>1. Units(x) \subseteq g.bmap /\ id[x[1]] = g.id
      BY <1>4, <2>2, Zenon DEF Holds
    <3>2. Size[x[1]] # 0
      BY <2>2, FragAssumption, Zenon DEF Records, Fragments
    <3>3. EndOf(x[1], x[2]) = Size[x[1]] => f.total = Size[x[1]]
      BY <2>2, Zenon DEF Holds
    <3> QED BY <1>3, <1>4, <3>1, <3>2, <3>3, Zenon
  <2> QED BY <1>4, <2>1, <2>2, Zenon
<1>11. ASSUME NEW u \in g.bmap PROVE \E x \in g.came : u \in Units(x) /\ g.buf[u] = x[1]
  <2>1. CASE u \in f.bmap
    <3>1. PICK x \in f.came : u \in Units(x) /\ f.buf[u] = x[1]
      BY <2>1, Zenon DEF Holds
    <3> QED BY <1>4, <2>1, <3>1, Zenon
  <2>2. CASE u \notin f.bmap
    <3>1. u \in Units(<<d, o>>) /\ g.buf[u] = d /\ <<d, o>> \in g.came
      BY <1>4, <2>2, Zenon DEF new
    <3> QED BY <3>1, Zenon
  <2> QED BY <2>1, <2>2, Zenon
<1>12. g.total # 0 => \E x \in g.came : g.total = Size[x[1]]
  <2>1. CASE last
    <3>1. <<d, o>> \in g.came /\ g.total = Size[d]
      BY <1>3, <1>4, <2>1, Zenon
    <3> QED BY <3>1, Zenon
  <2>2. CASE ~last
    BY <1>3, <1>4, <2>2 DEF Holds
  <2> QED BY <2>1, <2>2, Zenon
<1>13. Holds(g)
  BY <1>4, <1>6, <1>7, <1>10, <1>11, <1>12, Zenon DEF Holds
<1> QED BY <1>4, <1>9, <1>13, Zenon

LEMMA NoSlotRecord == Unused \in Records /\ ~Unused.used
  BY Zenon DEF Unused, Records, Buffers

LEMMA ClaimedHolds ==
    ASSUME NEW i \in Nat, now \in Nat
    PROVE  Claimed(i) \in Records /\ Holds(Claimed(i)) /\ Claimed(i).used /\ Claimed(i).id = i
<1> DEFINE f == Claimed(i)
<1>1. f \in Records /\ f.used /\ f.id = i /\ f.total = 0 /\ f.filled = 0 /\ f.bmap = {} /\ f.came = {}
  <2>1. now + FRAG_TIMEOUT \in Nat
    BY FragAssumption
  <2>2. Unused.total = 0 /\ Unused.filled = 0 /\ Unused.bmap = {} /\ Unused.came = {}
    BY Zenon DEF Unused
  <2>3. f \in Records
    BY <2>1, NoSlotRecord, Zenon DEF Claimed, Records
  <2>4. f.used /\ f.id = i
    BY NoSlotRecord, Zenon DEF Claimed, Records
  <2>5. f.total = Unused.total /\ f.filled = Unused.filled /\ f.bmap = Unused.bmap /\ f.came = Unused.came
    BY NoSlotRecord, Zenon DEF Claimed, Records
  <2> QED BY <2>2, <2>3, <2>4, <2>5, Zenon
<1> HIDE DEF f
<1>2. IsFiniteSet(f.bmap) /\ Cardinality(f.bmap) = 0
  BY <1>1, FS_EmptySet, Zenon
<1>3. Holds(f)
  BY <1>1, <1>2, FragAssumption, Zenon DEF Holds
<1> QED BY <1>1, <1>3, Zenon DEF f

(* Putting a record of this kind, or none, into one slot.                   *)
LEMMA SlotBecomes ==
    ASSUME FragTypes, Apart, SlotsHold, UNCHANGED id, NEW s, NEW g \in Records,
           g_frags' = [g_frags EXCEPT ![s] = g],
           g.used => /\ Holds(g) /\ ~Complete(g)
                     /\ \A t \in Slot \ {s} : g_frags[t].used => g_frags[t].id # g.id
    PROVE  g_frags' \in [Slot -> Records] /\ Apart' /\ SlotsHold'
<1>1. g_frags \in [Slot -> Records]
  BY Zenon DEF FragTypes
<1>2. g_frags' \in [Slot -> Records]
  BY <1>1, Zenon
<1>3. \A t \in Slot : g_frags'[t] = IF t = s THEN g ELSE g_frags[t]
  BY <1>1, Zenon
<1>4. Apart'
  <2> SUFFICES ASSUME NEW t \in Slot, NEW u \in Slot, g_frags'[t].used, g_frags'[u].used,
                      g_frags'[t].id = g_frags'[u].id
               PROVE  t = u
    BY Zenon DEF Apart
  <2>1. CASE t # s /\ u # s
    BY <1>3, <2>1 DEF Apart
  <2>2. CASE t = s \/ u = s
    BY <1>3, <2>2, SMTT(60)
  <2> QED BY <2>1, <2>2, Zenon
<1>5. SlotsHold'
  BY <1>3 DEF SlotsHold, Holds, Complete
<1> QED BY <1>2, <1>4, <1>5, Zenon

LEMMA FragInput ==
    ASSUME FragInv, NEW d \in Datagrams, NEW o \in Offsets(d), ip_frag_input(d, o) PROVE FragInv'
<1> DEFINE found == slot_find(id[d]) # {}
           s == IF found THEN CHOOSE t \in slot_find(id[d]) : TRUE ELSE slot_claim
           f == IF found THEN g_frags[s] ELSE Claimed(id[d])
           last == EndOf(d, o) = Size[d]
           g == bmap_fill(IF last THEN [f EXCEPT !.total = Size[d]] ELSE f, d, o)
           differs == last /\ f.total # 0 /\ f.total # Size[d]
<1>1. /\ UNCHANGED <<senders, now, tick>> /\ o < off[d]
      /\ \/ differs /\ g_frags' = [g_frags EXCEPT ![s] = Unused] /\ out' = None
         \/ ~differs /\ Complete(g) /\ g_frags' = [g_frags EXCEPT ![s] = Unused] /\ out' = g
         \/ ~differs /\ ~Complete(g) /\ g_frags' = [g_frags EXCEPT ![s] = g] /\ out' = None
  BY Zenon DEF ip_frag_input, Complete
<1>2. id[d] \in Nat
  BY <1>1, EndBounds DEF FragInv, FragTypes
<1>3. /\ f \in Records /\ Holds(f) /\ f.used /\ f.id = id[d]
      /\ \A t \in Slot \ {s} : g_frags[t].used => g_frags[t].id # id[d]
  <2>1. CASE found
    <3>1. s \in Slot /\ g_frags[s].used /\ g_frags[s].id = id[d]
      BY <2>1, Zenon DEF slot_find
    <3> QED BY <2>1, <3>1, Zenon DEF FragInv, FragTypes, SlotsHold, Apart
  <2>2. CASE ~found
    <3>1. \A t \in Slot : g_frags[t].used => g_frags[t].id # id[d]
      BY <2>2, Zenon DEF slot_find
    <3> QED BY <1>2, <2>2, <3>1, ClaimedHolds, Zenon DEF FragInv, FragTypes
  <2> QED BY <2>1, <2>2, Zenon
<1> HIDE DEF s, f
<1>4. ~differs => g \in Records /\ Holds(g) /\ g.used = f.used /\ g.id = f.id
  <2>1. g = bmap_fill(IF EndOf(d, o) = Size[d] THEN [f EXCEPT !.total = Size[d]] ELSE f, d, o)
    BY Zenon
  <2>2. id[d] = f.id /\ (~differs <=> ~(EndOf(d, o) = Size[d] /\ f.total # 0 /\ f.total # Size[d]))
    BY <1>3, Zenon
  <2> HIDE DEF g, differs, last
  <2>3. ASSUME ~(EndOf(d, o) = Size[d] /\ f.total # 0 /\ f.total # Size[d])
        PROVE  g \in Records /\ Holds(g) /\ g.used = f.used /\ g.id = f.id
    <3>1. f \in Records /\ Holds(f)
      BY <1>3, Zenon
    <3> QED BY <2>1, <2>2, <2>3, <3>1, FillHolds
  <2> QED BY <2>2, <2>3, Zenon
<1> HIDE DEF g
<1>5. UNCHANGED id /\ FragTypes /\ Apart /\ SlotsHold
  BY <1>1, Zenon DEF senders, FragInv
<1>6. g_frags' \in [Slot -> Records] /\ Apart' /\ SlotsHold'
  <2>1. CASE g_frags' = [g_frags EXCEPT ![s] = Unused]
    BY <1>5, <2>1, SlotBecomes, NoSlotRecord, Zenon
  <2>2. CASE ~differs /\ ~Complete(g) /\ g_frags' = [g_frags EXCEPT ![s] = g]
    BY <1>3, <1>4, <1>5, <2>2, SlotBecomes, Zenon
  <2> QED BY <1>1, <2>1, <2>2, Zenon
<1>7. FragTypes'
  BY <1>1, <1>6, Zenon DEF FragInv, FragTypes, senders
<1>8. Delivered'
  <2>1. CASE out' = None
    BY <2>1, Zenon DEF Delivered
  <2>2. CASE ~differs /\ Complete(g) /\ out' = g
    <3>1. \/ Mixed(g)
          \/ \E e \in Datagrams : /\ g.came = All(e) /\ g.total = Size[e]
                                  /\ g.buf = [u \in 0 .. Size[e] - 1 |-> e]
      BY <1>4, <2>2, CompleteIsAll, Zenon
    <3> QED BY <1>5, <2>2, <3>1, Zenon DEF Delivered, Mixed
  <2> QED BY <1>1, <2>1, <2>2, Zenon
<1> QED BY <1>6, <1>7, <1>8, Zenon DEF FragInv

LEMMA SlotsStay ==
    ASSUME Apart, SlotsHold, UNCHANGED <<id, g_frags>>
    PROVE  Apart' /\ SlotsHold'
<1>1. Apart'
  BY Zenon DEF Apart
<1>2. SlotsHold'
  <2> SUFFICES ASSUME NEW s \in Slot, g_frags[s].used
               PROVE  Holds(g_frags[s])' /\ ~Complete(g_frags[s])
    BY Zenon DEF SlotsHold, Complete
  <2>1. Holds(g_frags[s]) /\ ~Complete(g_frags[s])
    BY Zenon DEF SlotsHold
  <2> QED BY <2>1, Zenon DEF Holds
<1> QED BY <1>1, <1>2, Zenon

LEMMA FragTick == ASSUME FragInv, ip_frag_tick PROVE FragInv'
<1>1. UNCHANGED <<senders, now>> /\ out' = None /\ UNCHANGED id
  BY Zenon DEF ip_frag_tick, senders
<1>2. FragTypes /\ Apart /\ SlotsHold
  BY Zenon DEF FragInv
<1>3. g_frags' \in [Slot -> Records] /\ Apart' /\ SlotsHold'
  <2>1. CASE UNCHANGED g_frags
    BY <1>1, <1>2, <2>1, SlotsStay, Zenon DEF FragTypes
  <2>2. CASE tick.slot \in Slot /\ g_frags' = [g_frags EXCEPT ![tick.slot] = Unused]
    BY <1>1, <1>2, <2>2, SlotBecomes, NoSlotRecord, Zenon
  <2>3. \/ UNCHANGED g_frags
        \/ tick.slot \in Slot /\ g_frags' = [g_frags EXCEPT ![tick.slot] = Unused]
    BY <1>2 DEF ip_frag_tick, FragTypes
  <2> QED BY <2>1, <2>2, <2>3, Zenon
<1> QED BY <1>1, <1>2, <1>3, Zenon DEF FragInv, FragTypes, Delivered, senders

LEMMA FragSend == ASSUME FragInv, NEW d \in Datagrams, ip_send(d) PROVE FragInv'
<1>1. UNCHANGED <<g_frags, now>> /\ out' = None /\ FragTypes /\ Apart /\ SlotsHold
  BY Zenon DEF ip_send, FragInv
<1>2. FragTypes' /\ \A e \in Datagrams : id[e] # None => id'[e] = id[e]
  <2>1. CASE ip_send_id(d) /\ UNCHANGED off
    BY <1>1, <2>1, FragAssumption DEF FragTypes, ip_send_id
  <2>2. CASE ip_send_emit(d) /\ UNCHANGED <<g_ip_id, id, stored>>
    <3>a. Size[d] \in Nat /\ Chunk \in Nat /\ off[d] \in Nat
      BY <1>1, FragAssumption, Zenon DEF FragTypes
    <3>1. EndOf(d, off[d]) \in Nat /\ d \in stored
      BY <2>2, <3>a DEF ip_send_emit, EndOf
    <3>2. off' = [off EXCEPT ![d] = EndOf(d, off[d])]
      BY <2>2, Zenon DEF ip_send_emit
    <3> QED BY <1>1, <2>2, <3>1, <3>2, Zenon DEF FragTypes
  <2> QED BY <2>1, <2>2, Zenon DEF ip_send
<1>3. SlotsHold'
  <2> SUFFICES ASSUME NEW s \in Slot, g_frags[s].used
               PROVE  Holds(g_frags[s])' /\ ~Complete(g_frags[s])
    BY <1>1, Zenon DEF SlotsHold, Complete
  <2>1. Holds(g_frags[s]) /\ ~Complete(g_frags[s]) /\ g_frags[s] \in Records
    BY <1>1, Zenon DEF SlotsHold, FragTypes
  <2>2. \A x \in g_frags[s].came : id'[x[1]] = id[x[1]]
    BY <1>2, <2>1 DEF Holds, Records, Fragments
  <2> QED BY <1>1, <2>1, <2>2 DEF Holds
<1> QED BY <1>1, <1>2, <1>3, Zenon DEF FragInv, Apart, Delivered

LEMMA FragInit == FInit => FragInv
  BY FragAssumption, NoSlotRecord DEF FInit, FragInv, FragTypes, Apart, SlotsHold, Delivered

LEMMA FragStep == FragInv /\ [FNext]_fvars => FragInv'
<1> SUFFICES ASSUME FragInv, [FNext]_fvars PROVE FragInv'
  BY Zenon
<1>1. CASE UNCHANGED fvars \/ Passes
  <2>1. /\ UNCHANGED <<g_ip_id, id, stored, off, g_frags>>
        /\ now' = now \/ now' = now + 1
        /\ out' = out \/ out' = None
    BY <1>1, Zenon DEF fvars, Passes, senders
  <2>2. FragTypes'
    BY <2>1 DEF FragInv, FragTypes
  <2>3. Apart' /\ SlotsHold'
    BY <2>1, SlotsStay, Zenon DEF FragInv
  <2>4. Delivered'
    BY <2>1, Zenon DEF FragInv, Delivered, Mixed
  <2> QED BY <2>2, <2>3, <2>4, Zenon DEF FragInv
<1> QED BY <1>1, FragInput, FragTick, FragSend, Zenon DEF FNext

(***************************************************************************)
(* In whatever order and however often fragments come, slots are taken away *)
(* and timeouts run out, ip_frag_input delivers a datagram when it is       *)
(* complete, not before, and as it was sent, for any sizes and any number   *)
(* of slots, unless two datagrams had the same identifier.                  *)
(***************************************************************************)
THEOREM DatagramsExact == FSpec => []ReassembledAsSent
<1>1. FragInv => ReassembledAsSent
  <2> SUFFICES ASSUME FragInv PROVE ReassembledAsSent
    BY Zenon
  <2>1. ASSUME NEW s \in Slot, g_frags[s].used
        PROVE  /\ \A d \in Datagrams : g_frags[s].came # All(d)
               /\ slot_find(g_frags[s].id) = {s}
    <3>1. g_frags[s] \in Records /\ Holds(g_frags[s]) /\ ~Complete(g_frags[s])
      BY <2>1, Zenon DEF FragInv, FragTypes, SlotsHold
    <3>2. \A d \in Datagrams : g_frags[s].came # All(d)
      BY <3>1, AllComplete, Zenon
    <3>3. slot_find(g_frags[s].id) = {s}
      BY <2>1, Zenon DEF slot_find, FragInv, Apart
    <3> QED BY <3>2, <3>3, Zenon
  <2> QED BY <2>1, Zenon DEF FragInv, Delivered, ReassembledAsSent
<1> QED BY <1>1, FragInit, FragStep, PTL DEF FSpec
-----------------------------------------------------------------------------

(* Shm: the count of a segment is that of the entries of g_att and of the   *)
(* calls of shmdt that have yet to count down, and a page whose task still  *)
(* runs in its map has one or the other.  Addresses go down with brk_max,   *)
(* so the page a shmat is about to map is not one that is there.            *)
Entries == [task : ShmTasks, va : Vas, id : Ids]
PageRecords == [id : Ids, by : ShmTasks \cup {Absent}]
Segments == [used : BOOLEAN, nattach : Nat, marked : BOOLEAN]
Steps == [op : {"no", "map", "unmap", "drop"}, va : Nat, id : Nat, slot : Nat]
ShmTypes ==
    /\ seg \in [Ids -> Segments] /\ next_id \in Nat
    /\ att \in [Slots -> Entries \cup {Absent}]
    /\ space \in [ShmTasks -> Spaces \cup {Absent}]
    /\ map \in [Spaces -> [Vas -> PageRecords \cup {Absent}]]
    /\ brk_max \in [ShmTasks -> 1 .. NVa + 1]
    /\ shm_step \in [ShmTasks -> Steps]
Attached(i) == {k \in Slots : att[k] # Absent /\ att[k].id = i}
Leaving(i) == {t \in ShmTasks : shm_step[t].op \in {"unmap", "drop"} /\ shm_step[t].id = i}
Counted(i) == /\ seg[i].nattach = Cardinality(Attached(i)) + Cardinality(Leaving(i))
              /\ seg[i].nattach > 0 => seg[i].used
              /\ i \notin failed /\ seg[i].used /\ seg[i].marked => seg[i].nattach > 0
              /\ i >= next_id => ~seg[i].marked /\ ~seg[i].used
InCall(t) ==
    LET s == shm_step[t]
    IN  /\ s.op # "no" => space[t] # Absent /\ s.id \in Ids
        /\ s.op \in {"map", "unmap"} => s.va \in Vas
        /\ s.op = "map" => /\ s.slot \in Slots /\ s.va = brk_max[t]
                           /\ att[s.slot] = [task |-> t, va |-> s.va, id |-> s.id]
Covered(s, va, i, t) ==
    /\ space[t] = s /\ va >= brk_max[t]
    /\ shm_step[t].op = "map" => va > brk_max[t]
    /\ \/ \E k \in Slots : att[k] = [task |-> t, va |-> va, id |-> i]
       \/ shm_step[t].op = "unmap" /\ shm_step[t].va = va /\ shm_step[t].id = i
PagesCovered ==
    \A s \in Spaces, va \in Vas :
        (map[s][va] # Absent /\ map[s][va].by # Absent) => Covered(s, va, map[s][va].id, map[s][va].by)
ShmInv == /\ ShmTypes /\ PagesCovered
          /\ \A i \in Ids : Counted(i)
          /\ \A t \in ShmTasks : InCall(t)

LEMMA SetsFinite ==
    /\ \A i \in Ids : IsFiniteSet(Attached(i)) /\ IsFiniteSet(Leaving(i))
    /\ \A i \in Ids : Cardinality(Attached(i)) \in Nat /\ Cardinality(Leaving(i)) \in Nat
<1>1. IsFiniteSet(Slots)
  BY ShmAssumption, FS_Interval DEF Slots
<1>2. \A i \in Ids : Attached(i) \subseteq Slots /\ Leaving(i) \subseteq ShmTasks
  BY Zenon DEF Attached, Leaving
<1>3. \A i \in Ids : IsFiniteSet(Attached(i)) /\ IsFiniteSet(Leaving(i))
  BY <1>1, <1>2, FS_Subset, ShmAssumption, Zenon
<1> QED BY <1>3, FS_CardinalityType, Zenon

LEMMA DetachedIs ==
    ASSUME NEW s \in Segments, NEW c \in Nat, c <= s.nattach
    PROVE  /\ Detached(s, c) \in Segments /\ Detached(s, c).nattach = s.nattach - c
           /\ Detached(s, c).marked = s.marked
           /\ s.used /\ Detached(s, c).nattach > 0 => Detached(s, c).used
           /\ Detached(s, c).used /\ s.marked => Detached(s, c).nattach > 0
<1>1. s.nattach \in Nat
  BY Zenon DEF Segments
<1>2. CASE s.marked /\ s.nattach <= c
  <2>1. Detached(s, c) = [s EXCEPT !.used = FALSE, !.nattach = 0]
    BY <1>2, Zenon DEF Detached
  <2>a. 0 \in Nat
    BY Zenon
  <2>b. Detached(s, c) \in Segments
    BY <2>1, <2>a, Zenon DEF Segments
  <2>2. Detached(s, c).nattach = 0 /\ Detached(s, c).marked = s.marked /\ ~Detached(s, c).used
    BY <2>1, Zenon DEF Segments
  <2>3. s.nattach - c = 0 /\ ~(0 > 0)
    BY <1>1, <1>2
  <2> QED BY <2>b, <2>2, <2>3, Zenon
<1>3. CASE ~(s.marked /\ s.nattach <= c)
  <2>1. Detached(s, c) = [s EXCEPT !.nattach = s.nattach - c] /\ s.nattach - c \in Nat
    BY <1>1, <1>3 DEF Detached
  <2>2. /\ Detached(s, c) \in Segments /\ Detached(s, c).nattach = s.nattach - c
        /\ Detached(s, c).marked = s.marked /\ Detached(s, c).used = s.used
    BY <2>1, Zenon DEF Segments
  <2>3. s.marked => s.nattach - c > 0
    BY <1>1, <1>3
  <2> QED BY <2>2, <2>3, Zenon
<1> QED BY <1>2, <1>3, Zenon

LEMMA ShmInit == MInit => ShmInv
<1> SUFFICES ASSUME MInit PROVE ShmInv
  BY Zenon
<1>1. NoSeg \in Segments /\ NoSeg.nattach = 0 /\ ~NoSeg.marked /\ ~NoSeg.used
  BY Zenon DEF NoSeg, Segments
<1>2. NoStep \in Steps /\ NoStep.op = "no"
  BY Zenon DEF NoStep, Step, Steps
<1>3. ShmTypes
  BY <1>1, <1>2, ShmAssumption DEF MInit, ShmTypes, Unmapped
<1>4. \A i \in Ids : Attached(i) = {} /\ Leaving(i) = {}
  BY <1>2, Zenon DEF MInit, Attached, Leaving
<1>5. \A i \in Ids : Counted(i)
  <2> SUFFICES ASSUME NEW i \in Ids PROVE Counted(i)
    BY Zenon
  <2>1. Cardinality(Attached(i)) = 0 /\ Cardinality(Leaving(i)) = 0
    BY <1>4, FS_EmptySet, Zenon
  <2>2. seg[i] = NoSeg
    BY Zenon DEF MInit
  <2> QED BY <1>1, <2>1, <2>2 DEF Counted
<1>6. \A t \in ShmTasks : InCall(t)
  BY <1>2, Zenon DEF MInit, InCall
<1>7. PagesCovered
  BY Zenon DEF MInit, PagesCovered, Unmapped
<1> QED BY <1>3, <1>5, <1>6, <1>7, Zenon DEF ShmInv

LEMMA StepIs ==
    ASSUME NEW op \in {"no", "map", "unmap", "drop"}, NEW va \in Nat, NEW i \in Nat, NEW k \in Nat
    PROVE  /\ Step(op, va, i, k) \in Steps /\ Step(op, va, i, k).op = op
           /\ Step(op, va, i, k).va = va /\ Step(op, va, i, k).id = i /\ Step(op, va, i, k).slot = k
  BY Zenon DEF Step, Steps
LEMMA NoStepIs == NoStep \in Steps /\ NoStep.op = "no"
  BY StepIs, SMTT(60) DEF NoStep

LEMMA MapsStay ==
    ASSUME PagesCovered, \A u \in ShmTasks : InCall(u),
           UNCHANGED <<att, space, brk_max, map, shm_step, failed>>
    PROVE  PagesCovered' /\ \A u \in ShmTasks : InCall(u)'
BY DEF PagesCovered, Covered, InCall

LEMMA ShmGet == ASSUME ShmInv, NEW t \in ShmTasks, sys_shmget(t) PROVE ShmInv'
<1>1. /\ seg' = [seg EXCEPT ![next_id].used = TRUE] /\ next_id' = next_id + 1 /\ next_id \in Ids
      /\ UNCHANGED <<att, space, brk_max, map, shm_step, failed>>
  BY Zenon DEF sys_shmget, procs
<1>2. ShmTypes /\ PagesCovered /\ (\A i \in Ids : Counted(i)) /\ (\A u \in ShmTasks : InCall(u))
  BY Zenon DEF ShmInv
<1>3. \A i \in Ids : /\ seg'[i] \in Segments /\ seg'[i].nattach = seg[i].nattach
                     /\ seg'[i].marked = seg[i].marked
                     /\ seg'[i].used = (seg[i].used \/ i = next_id)
  BY <1>1, <1>2, Zenon DEF ShmTypes, Segments
<1>4. ShmTypes'
  <2>1. seg' \in [Ids -> Segments]
    BY <1>1, <1>2, Zenon DEF ShmTypes, Segments
  <2>2. next_id' \in Nat
    BY <1>1, <1>2 DEF ShmTypes
  <2> QED BY <1>1, <1>2, <2>1, <2>2, Zenon DEF ShmTypes
<1>5. ASSUME NEW i \in Ids PROVE Counted(i)'
  <2>1. Attached(i)' = Attached(i) /\ Leaving(i)' = Leaving(i)
    BY <1>1, Zenon DEF Attached, Leaving
  <2>2. CASE i = next_id
    <3>1. ~seg'[i].marked /\ seg'[i].used /\ ~(i >= next_id')
      <4>1. i >= next_id /\ ~(i >= next_id + 1)
        BY <2>2 DEF Ids
      <4> QED BY <1>1, <1>2, <1>3, <2>2, <4>1, Zenon DEF Counted
    <3> QED BY <1>2, <1>3, <2>1, <3>1, Zenon DEF Counted
  <2>3. CASE i # next_id
    <3>1. seg'[i] = seg[i] /\ (i >= next_id' => i >= next_id)
      BY <1>1, <1>2, <2>3 DEF ShmTypes, Ids
    <3> QED BY <1>1, <1>2, <2>1, <3>1, Zenon DEF Counted
  <2> QED BY <2>2, <2>3, Zenon
<1>6. PagesCovered' /\ \A u \in ShmTasks : InCall(u)'
  BY <1>1, <1>2, MapsStay, Zenon
<1> QED BY <1>4, <1>5, <1>6, Zenon DEF ShmInv

LEMMA ShmControl == ASSUME ShmInv, NEW t \in ShmTasks, NEW i \in Ids, sys_shmctl(t, i) PROVE ShmInv'
<1>1. /\ seg' = [seg EXCEPT ![i] = Marked(seg[i])] /\ seg[i].used
      /\ UNCHANGED <<att, space, brk_max, map, shm_step, failed, next_id>>
  BY Zenon DEF sys_shmctl, procs
<1>2. ShmTypes /\ PagesCovered /\ (\A j \in Ids : Counted(j)) /\ (\A u \in ShmTasks : InCall(u))
  BY Zenon DEF ShmInv
<1>3. /\ Marked(seg[i]) \in Segments /\ Marked(seg[i]).nattach = seg[i].nattach
      /\ Marked(seg[i]).marked /\ (Marked(seg[i]).used <=> seg[i].used /\ seg[i].nattach > 0)
  BY <1>2, Zenon DEF ShmTypes, Segments, Marked
<1>4. ShmTypes'
  BY <1>1, <1>2, <1>3, Zenon DEF ShmTypes
<1>5. ASSUME NEW j \in Ids PROVE Counted(j)'
  <2>1. Attached(j)' = Attached(j) /\ Leaving(j)' = Leaving(j)
    BY <1>1, Zenon DEF Attached, Leaving
  <2>2. seg'[j] = IF j = i THEN Marked(seg[i]) ELSE seg[j]
    BY <1>1, <1>2, Zenon DEF ShmTypes
  <2>3. Counted(j) /\ Counted(i)
    BY <1>2, Zenon
  <2>4. CASE j = i
    BY <1>1, <1>3, <2>1, <2>2, <2>3, <2>4, Zenon DEF Counted
  <2>5. CASE j # i
    BY <1>1, <2>1, <2>2, <2>3, <2>5, Zenon DEF Counted
  <2> QED BY <2>4, <2>5, Zenon
<1>6. PagesCovered' /\ \A u \in ShmTasks : InCall(u)'
  BY <1>1, <1>2, MapsStay, Zenon
<1> QED BY <1>4, <1>5, <1>6, Zenon DEF ShmInv

(* Changes of one entry of g_att and of the step of one task.               *)
LEMMA EntryAdded ==
    ASSUME ShmTypes, NEW k \in Slots, att[k] = Absent, NEW e \in Entries, att' = [att EXCEPT ![k] = e]
    PROVE  \A i \in Ids : Cardinality(Attached(i)') = Cardinality(Attached(i)) + IF i = e.id THEN 1 ELSE 0
<1> SUFFICES ASSUME NEW i \in Ids
             PROVE  Cardinality(Attached(i)') = Cardinality(Attached(i)) + IF i = e.id THEN 1 ELSE 0
  BY Zenon
<1>1. \A j \in Slots : att'[j] = IF j = k THEN e ELSE att[j]
  BY Zenon DEF ShmTypes
<1>2. e # Absent
  BY ShmAssumption, Zenon DEF Entries
<1>3. IsFiniteSet(Attached(i)) /\ Cardinality(Attached(i)) \in Nat /\ k \notin Attached(i)
  BY SetsFinite, Zenon DEF Attached
<1>4. CASE i = e.id
  <2>1. Attached(i)' = Attached(i) \cup {k}
    BY <1>1, <1>2, <1>4, Zenon DEF Attached
  <2>2. Cardinality(Attached(i) \cup {k}) = Cardinality(Attached(i)) + 1
    BY <1>3, FS_AddElement, Zenon
  <2> QED BY <1>4, <2>1, <2>2, Zenon
<1>5. CASE i # e.id
  <2>1. Attached(i)' = Attached(i)
    BY <1>1, <1>2, <1>5, Zenon DEF Attached
  <2> QED BY <1>3, <1>5, <2>1
<1> QED BY <1>4, <1>5, Zenon

LEMMA EntryRemoved ==
    ASSUME ShmTypes, NEW k \in Slots, att[k] # Absent, att' = [att EXCEPT ![k] = Absent]
    PROVE  \A i \in Ids : Cardinality(Attached(i)') = Cardinality(Attached(i)) - IF i = att[k].id THEN 1 ELSE 0
<1> SUFFICES ASSUME NEW i \in Ids
             PROVE  Cardinality(Attached(i)') = Cardinality(Attached(i)) - IF i = att[k].id THEN 1 ELSE 0
  BY Zenon
<1>1. \A j \in Slots : att'[j] = IF j = k THEN Absent ELSE att[j]
  BY Zenon DEF ShmTypes
<1>2. IsFiniteSet(Attached(i)) /\ Cardinality(Attached(i)) \in Nat
  BY SetsFinite, Zenon
<1>3. CASE i = att[k].id
  <2>1. Attached(i)' = Attached(i) \ {k} /\ k \in Attached(i)
    BY <1>1, <1>3, Zenon DEF Attached
  <2>2. Cardinality(Attached(i) \ {k}) = Cardinality(Attached(i)) - 1
    BY <1>2, <2>1, FS_RemoveElement, Zenon
  <2> QED BY <1>3, <2>1, <2>2, Zenon
<1>4. CASE i # att[k].id
  <2>1. Attached(i)' = Attached(i)
    BY <1>1, <1>4, Zenon DEF Attached
  <2> QED BY <1>2, <1>4, <2>1
<1> QED BY <1>3, <1>4, Zenon

LEMMA OneMoreOrLess ==
    /\ \A n \in Nat : n + 0 - 0 = n
    /\ \A a, l \in Nat : (a + l) - 1 = a + (l + 0 - 1)
BY SMT

Leaves(s, i) == s.op \in {"unmap", "drop"} /\ s.id = i
LEMMA StepChanged ==
    ASSUME ShmTypes, NEW t \in ShmTasks, NEW s, Does(t, s)
    PROVE  \A i \in Ids :
             Cardinality(Leaving(i)') = Cardinality(Leaving(i)) + (IF Leaves(s, i) THEN 1 ELSE 0)
                                                                - (IF Leaves(shm_step[t], i) THEN 1 ELSE 0)
<1> SUFFICES ASSUME NEW i \in Ids
             PROVE  Cardinality(Leaving(i)') = Cardinality(Leaving(i)) + (IF Leaves(s, i) THEN 1 ELSE 0)
                                                                - (IF Leaves(shm_step[t], i) THEN 1 ELSE 0)
  BY Zenon
<1>1. \A u \in ShmTasks : shm_step'[u] = IF u = t THEN s ELSE shm_step[u]
  BY Zenon DEF ShmTypes, Does
<1>2. IsFiniteSet(Leaving(i)) /\ Cardinality(Leaving(i)) \in Nat
  BY SetsFinite, Zenon
<1>3. t \in Leaving(i) <=> Leaves(shm_step[t], i)
  BY Zenon DEF Leaving, Leaves
<1>4. CASE Leaves(s, i)
  <2>1. Leaving(i)' = Leaving(i) \cup {t}
    BY <1>1, <1>4, Zenon DEF Leaving, Leaves
  <2>2. Cardinality(Leaving(i) \cup {t}) = IF t \in Leaving(i) THEN Cardinality(Leaving(i))
                                          ELSE Cardinality(Leaving(i)) + 1
    BY <1>2, FS_AddElement, Zenon
  <2> QED BY <1>2, <1>3, <1>4, <2>1, <2>2
<1>5. CASE ~Leaves(s, i)
  <2>1. Leaving(i)' = Leaving(i) \ {t}
    BY <1>1, <1>5, Zenon DEF Leaving, Leaves
  <2>2. Cardinality(Leaving(i)') = IF t \in Leaving(i) THEN Cardinality(Leaving(i)) - 1
                                                     ELSE Cardinality(Leaving(i))
    BY <1>2, <2>1, FS_RemoveElement, Zenon
  <2> QED BY <1>2, <1>3, <1>5, <2>2
<1> QED BY <1>4, <1>5, Zenon

LEMMA EntryThere ==
    \A u \in ShmTasks, w \in Vas, j \in Ids : /\ [task |-> u, va |-> w, id |-> j] \in Entries
                                              /\ [task |-> u, va |-> w, id |-> j] # Absent
<1>1. \A u \in ShmTasks, w \in Vas, j \in Ids : [task |-> u, va |-> w, id |-> j] \in Entries
  BY Zenon DEF Entries
<1> QED BY <1>1, ShmAssumption, Zenon DEF Entries

(* A page stays covered when the task it belongs to changes nothing.        *)
LEMMA StaysCovered ==
    ASSUME ShmTypes, NEW m, NEW w \in Vas, NEW j \in Ids, NEW u \in ShmTasks, Covered(m, w, j, u),
           space'[u] = space[u], brk_max'[u] = brk_max[u], shm_step'[u] = shm_step[u],
           \A k \in Slots : att[k] # Absent /\ att[k].task = u => att'[k] = att[k]
    PROVE  Covered(m, w, j, u)'
<1>1. ASSUME NEW k \in Slots, att[k] = [task |-> u, va |-> w, id |-> j]
      PROVE  att'[k] = [task |-> u, va |-> w, id |-> j]
  <2>1. att[k].task = u
    BY <1>1
  <2>2. att[k] # Absent
    BY <1>1, EntryThere, Zenon
  <2> QED BY <1>1, <2>1, <2>2, Zenon
<1> QED BY <1>1, Zenon DEF Covered

LEMMA ShmAttach == ASSUME ShmInv, NEW t \in ShmTasks, NEW i \in Ids, sys_shmat(t, i) PROVE ShmInv'
<1>1. ShmTypes /\ PagesCovered /\ (\A j \in Ids : Counted(j)) /\ (\A u \in ShmTasks : InCall(u))
  BY Zenon DEF ShmInv
<1> DEFINE va == brk_max[t] - 1
<1>2. va \in Vas /\ va \in Nat /\ va \in 1 .. NVa + 1 /\ i \in Nat /\ va < brk_max[t]
  BY <1>1, ShmAssumption DEF ShmTypes, Vas, Ids, sys_shmat
<1>3. brk_max' = [brk_max EXCEPT ![t] = va] /\ brk_max'[t] = va
  BY <1>1, Zenon DEF ShmTypes, sys_shmat
<1>4. PICK k \in Slots : /\ att[k] = Absent
                         /\ att' = [att EXCEPT ![k] = [task |-> t, va |-> va, id |-> i]]
                         /\ Does(t, Step("map", va, i, k))
  BY <1>3, Zenon DEF sys_shmat, IsFirst
<1> HIDE DEF va
<1> DEFINE e == [task |-> t, va |-> va, id |-> i]
           s == Step("map", va, i, k)
<1>5. e \in Entries /\ e.id = i /\ k \in Nat
  BY <1>2 DEF Entries, Slots
<1>6. s \in Steps /\ s.op = "map" /\ s.va = va /\ s.id = i /\ s.slot = k
  BY <1>2, <1>5, StepIs
<1> HIDE DEF s
<1>7. /\ seg' = [seg EXCEPT ![i] = [seg[i] EXCEPT !.nattach = seg[i].nattach + 1]]
      /\ seg[i].used /\ space[t] # Absent /\ shm_step[t] = NoStep
      /\ UNCHANGED <<next_id, space, map, failed>>
  BY <1>1, Zenon DEF sys_shmat, InUserMode, ShmTypes
<1>8. seg[i].nattach \in Nat /\ seg[i].nattach + 1 \in Nat
  BY <1>1 DEF ShmTypes, Segments
<1>9. /\ seg' \in [Ids -> Segments]
      /\ seg'[i].nattach = seg[i].nattach + 1 /\ seg'[i].used = seg[i].used /\ seg'[i].marked = seg[i].marked
      /\ \A j \in Ids \ {i} : seg'[j] = seg[j]
  BY <1>1, <1>7, <1>8, Zenon DEF ShmTypes, Segments
<1>10. ShmTypes'
  BY <1>1, <1>2, <1>3, <1>4, <1>5, <1>6, <1>7, <1>9, SMTT(60) DEF ShmTypes, Does, s
<1>11. ASSUME NEW j \in Ids PROVE Counted(j)'
  <2>1. Cardinality(Leaving(j)') = Cardinality(Leaving(j))
    <3>1. ~Leaves(s, j) /\ ~Leaves(shm_step[t], j)
      BY <1>6, <1>7, NoStepIs, Zenon DEF Leaves
    <3> QED BY <1>1, <1>4, <3>1, StepChanged, SetsFinite, SMTT(60) DEF s
  <2>2. Cardinality(Attached(j)') = Cardinality(Attached(j)) + IF j = i THEN 1 ELSE 0
    BY <1>1, <1>4, <1>5, EntryAdded, Zenon
  <2>3. Cardinality(Attached(j)) \in Nat /\ Cardinality(Leaving(j)) \in Nat
    BY SetsFinite, Zenon
  <2>4. CASE j = i
    <3>1. seg'[i].nattach = Cardinality(Attached(i)') + Cardinality(Leaving(i)') /\ seg'[i].nattach > 0
      BY <1>1, <1>8, <1>9, <2>1, <2>2, <2>3, <2>4, SMTT(60) DEF Counted
    <3> QED BY <1>1, <1>7, <1>9, <2>4, <3>1, ZenonT(60) DEF Counted
  <2>5. CASE j # i
    BY <1>1, <1>7, <1>9, <2>1, <2>2, <2>3, <2>5, SMTT(60) DEF Counted
  <2> QED BY <2>4, <2>5, Zenon
<1>12. ASSUME NEW u \in ShmTasks PROVE InCall(u)'
  <2>1. CASE u = t
    <3>1. shm_step'[t] = s /\ att'[k] = e
      BY <1>1, <1>4, Zenon DEF Does, ShmTypes, s
    <3> QED BY <1>2, <1>3, <1>6, <1>7, <2>1, <3>1, Zenon DEF InCall
  <2>2. CASE u # t
    <3>1. shm_step'[u] = shm_step[u] /\ brk_max'[u] = brk_max[u] /\ \A j \in Slots \ {k} : att'[j] = att[j]
      BY <1>1, <1>3, <1>4, <2>2, Zenon DEF Does, ShmTypes
    <3>2. shm_step[u].op = "map" => shm_step[u].slot # k
      <4> SUFFICES ASSUME shm_step[u].op = "map" PROVE shm_step[u].slot # k
        BY Zenon
      <4>1. /\ att[shm_step[u].slot] = [task |-> u, va |-> shm_step[u].va, id |-> shm_step[u].id]
            /\ shm_step[u].va \in Vas /\ shm_step[u].id \in Ids
        BY <1>1, Zenon DEF InCall
      <4>2. att[shm_step[u].slot] # Absent
        BY <4>1, EntryThere, Zenon
      <4> QED BY <1>4, <4>2, Zenon
    <3> QED BY <1>1, <1>7, <3>1, <3>2 DEF InCall
  <2> QED BY <2>1, <2>2, Zenon
<1>13. PagesCovered'
  <2> SUFFICES ASSUME NEW m \in Spaces, NEW w \in Vas, NEW j \in Ids, NEW u \in ShmTasks, Covered(m, w, j, u)
               PROVE  Covered(m, w, j, u)'
    BY <1>1, <1>7 DEF PagesCovered, ShmTypes, PageRecords
  <2>1. shm_step'[u] = (IF u = t THEN s ELSE shm_step[u]) /\ brk_max'[u] = (IF u = t THEN va ELSE brk_max[u])
    BY <1>1, <1>3, <1>4, Zenon DEF Does, ShmTypes, s
  <2>2. \A x \in Slots : att[x] # Absent => att'[x] = att[x]
    BY <1>1, <1>4, Zenon DEF ShmTypes
  <2>3. CASE u # t
    BY <1>1, <1>7, <2>1, <2>2, <2>3, StaysCovered, Zenon
  <2>4. CASE u = t
    <3>1. PICK x \in Slots : att[x] = [task |-> t, va |-> w, id |-> j]
      BY <1>7, <2>4, NoStepIs, Zenon DEF Covered
    <3>2. att'[x] = att[x]
      BY <2>2, <3>1, EntryThere, Zenon
    <3>3. w >= brk_max[t] /\ w \in Nat /\ brk_max[t] \in Nat
      BY <1>1, <2>4 DEF Covered, Vas, ShmTypes
    <3>4. w > va /\ w >= va
      BY <1>2, <3>3
    <3> QED BY <1>6, <1>7, <2>1, <2>4, <3>1, <3>2, <3>4, Zenon DEF Covered
  <2> QED BY <2>3, <2>4, Zenon
<1> QED BY <1>10, <1>11, <1>12, <1>13, Zenon DEF ShmInv

LEMMA ShmMapPage == ASSUME ShmInv, NEW t \in ShmTasks, MapPage(t) PROVE ShmInv'
<1>1. ShmTypes /\ PagesCovered /\ (\A j \in Ids : Counted(j)) /\ (\A u \in ShmTasks : InCall(u))
  BY Zenon DEF ShmInv
<1> SUFFICES ASSUME NEW c \in Steps, c = shm_step[t], NEW m, m = space[t] PROVE ShmInv'
  BY <1>1, Zenon DEF ShmTypes
<1>2. /\ c.op = "map" /\ Does(t, NoStep)
      /\ map' = [map EXCEPT ![m][c.va] = [id |-> c.id, by |-> t]]
      /\ UNCHANGED <<seg, next_id, att, space, brk_max, failed>>
  BY Zenon DEF MapPage, procs
<1>3. /\ m \in Spaces /\ c.id \in Ids /\ c.va \in Vas /\ c.slot \in Slots /\ c.va = brk_max[t]
      /\ att[c.slot] = [task |-> t, va |-> c.va, id |-> c.id]
  BY <1>1, <1>2, Zenon DEF InCall, ShmTypes
<1>4. [id |-> c.id, by |-> t] \in PageRecords
  BY <1>3, Zenon DEF PageRecords
<1>5. \A x \in Spaces, w \in Vas :
        map'[x][w] = IF x = m /\ w = c.va THEN [id |-> c.id, by |-> t] ELSE map[x][w]
  BY <1>1, <1>2, <1>3, Zenon DEF ShmTypes
<1>6. ShmTypes'
  <2>1. map' \in [Spaces -> [Vas -> PageRecords \cup {Absent}]]
    BY <1>1, <1>2, <1>3, <1>4, Zenon DEF ShmTypes
  <2> QED BY <1>1, <1>2, <2>1, NoStepIs, Zenon DEF ShmTypes, Does
<1>7. \A u \in ShmTasks : shm_step'[u] = IF u = t THEN NoStep ELSE shm_step[u]
  BY <1>1, <1>2, Zenon DEF ShmTypes, Does
<1>8. ASSUME NEW j \in Ids PROVE Counted(j)'
  <2>1. ~Leaves(NoStep, j) /\ ~Leaves(c, j)
    BY <1>2, NoStepIs, Zenon DEF Leaves
  <2>2. Cardinality(Leaving(j)') = Cardinality(Leaving(j)) /\ Attached(j)' = Attached(j)
    <3>1. Cardinality(Leaving(j)) \in Nat
      BY SetsFinite, Zenon
    <3>2. Cardinality(Leaving(j)') = Cardinality(Leaving(j)) + 0 - 0
      BY <1>1, <1>2, <2>1, StepChanged, ZenonT(60)
    <3> QED BY <1>2, <3>1, <3>2 DEF Attached
  <2> QED BY <1>1, <1>2, <2>2, Zenon DEF Counted
<1>9. \A u \in ShmTasks : InCall(u)'
  BY <1>1, <1>2, <1>7, NoStepIs DEF InCall
<1>10. PagesCovered'
  <2> SUFFICES ASSUME NEW x \in Spaces, NEW w \in Vas, NEW i \in Ids, NEW u \in ShmTasks,
                      map'[x][w] # Absent, map'[x][w].id = i, map'[x][w].by = u
               PROVE  Covered(x, w, i, u)'
    BY <1>6 DEF PagesCovered, ShmTypes, PageRecords
  <2>1. CASE x = m /\ w = c.va
    <3>1. i = c.id /\ u = t
      BY <1>5, <2>1, SMTT(60)
    <3>2. brk_max'[t] = brk_max[t] /\ w >= brk_max[t] /\ space'[t] = x
      BY <1>2, <1>3, <2>1 DEF Vas
    <3>3. att'[c.slot] = [task |-> t, va |-> w, id |-> i]
      BY <1>2, <1>3, <2>1, <3>1, Zenon
    <3>4. shm_step'[t].op = "no"
      BY <1>7, NoStepIs, Zenon
    <3> QED BY <1>3, <3>1, <3>2, <3>3, <3>4, ZenonT(60) DEF Covered
  <2>2. CASE ~(x = m /\ w = c.va)
    <3>1. Covered(x, w, i, u)
      BY <1>1, <1>5, <2>2, ShmAssumption, SMTT(60) DEF PagesCovered
    <3>2. CASE u # t
      BY <1>1, <1>2, <1>7, <3>1, <3>2, StaysCovered
    <3>3. CASE u = t
      BY <1>2, <1>7, <3>1, <3>3, NoStepIs, Zenon DEF Covered
    <3> QED BY <3>2, <3>3, ZenonT(60)
  <2> QED BY <2>1, <2>2, Zenon
<1> QED BY <1>6, <1>8, <1>9, <1>10, Zenon DEF ShmInv

LEMMA ShmMapFails == ASSUME ShmInv, NEW t \in ShmTasks, MapFails(t) PROVE ShmInv'
<1>1. ShmTypes /\ PagesCovered /\ (\A j \in Ids : Counted(j)) /\ (\A u \in ShmTasks : InCall(u))
  BY Zenon DEF ShmInv
<1> SUFFICES ASSUME NEW c \in Steps, c = shm_step[t], NEW i, i = c.id, NEW k, k = c.slot PROVE ShmInv'
  BY <1>1, Zenon DEF ShmTypes
<1>2. /\ c.op = "map" /\ Does(t, NoStep) /\ att' = [att EXCEPT ![k] = Absent]
      /\ seg' = [seg EXCEPT ![i].nattach = @ - 1] /\ failed' = failed \cup {i}
      /\ UNCHANGED <<next_id, space, brk_max, map>>
  BY Zenon DEF MapFails, procs
<1>3. /\ i \in Ids /\ k \in Slots /\ c.va \in Vas /\ c.va = brk_max[t]
      /\ att[k] = [task |-> t, va |-> c.va, id |-> i]
  BY <1>1, <1>2, Zenon DEF InCall
<1>4. ~Leaves(NoStep, i) /\ ~Leaves(c, i) /\ \A j \in Ids : ~Leaves(NoStep, j) /\ ~Leaves(c, j)
  BY <1>2, NoStepIs, Zenon DEF Leaves
<1>5. \A j \in Ids : Cardinality(Leaving(j)') = Cardinality(Leaving(j))
  BY <1>1, <1>2, <1>4, StepChanged, SetsFinite, SMTT(60)
<1>6. att[k] # Absent /\ att[k].id = i /\ att[k].task = t
  BY <1>3, EntryThere
<1>7. \A j \in Ids : Cardinality(Attached(j)') = Cardinality(Attached(j)) - IF j = i THEN 1 ELSE 0
  BY <1>1, <1>2, <1>3, <1>6, EntryRemoved, ZenonT(60)
<1>8. seg[i].nattach \in Nat /\ seg[i].nattach - 1 \in Nat
  <2>1. k \in Attached(i)
    BY <1>3, <1>6, Zenon DEF Attached
  <2>2. Cardinality(Attached(i)) # 0
    BY <1>3, <2>1, SetsFinite, FS_EmptySet, Zenon
  <2> QED BY <1>1, <1>3, <2>2, SetsFinite DEF Counted
<1>9. seg' = [seg EXCEPT ![i] = [seg[i] EXCEPT !.nattach = seg[i].nattach - 1]]
  BY <1>2, Zenon
<1>10. /\ seg' \in [Ids -> Segments]
       /\ seg'[i].nattach = seg[i].nattach - 1 /\ seg'[i].used = seg[i].used /\ seg'[i].marked = seg[i].marked
       /\ \A j \in Ids \ {i} : seg'[j] = seg[j]
  BY <1>1, <1>3, <1>8, <1>9 DEF ShmTypes, Segments
<1>11. ShmTypes'
  BY <1>1, <1>2, <1>3, <1>10, NoStepIs, Zenon DEF ShmTypes, Does
<1>12. ASSUME NEW j \in Ids PROVE Counted(j)'
  <2>1. Cardinality(Attached(j)) \in Nat /\ Cardinality(Leaving(j)) \in Nat
    BY SetsFinite, Zenon
  <2>2. CASE j = i
    <3>1. /\ seg'[i].nattach = Cardinality(Attached(i)') + Cardinality(Leaving(i)')
          /\ seg'[i].nattach > 0 => seg[i].nattach > 0
      BY <1>1, <1>5, <1>7, <1>8, <1>10, <2>1, <2>2, SMTT(60) DEF Counted
    <3>2. i \in failed' /\ next_id' = next_id
      BY <1>2, Zenon
    <3> QED BY <1>1, <1>10, <2>2, <3>1, <3>2, ZenonT(60) DEF Counted
  <2>3. CASE j # i
    <3>1. Cardinality(Attached(j)') = Cardinality(Attached(j)) /\ Cardinality(Leaving(j)') = Cardinality(Leaving(j))
      BY <1>5, <1>7, <2>1, <2>3
    <3>2. seg'[j] = seg[j] /\ next_id' = next_id /\ (j \notin failed' => j \notin failed)
      BY <1>2, <1>10, <2>3, Zenon
    <3> QED BY <1>1, <3>1, <3>2, Zenon DEF Counted
  <2> QED BY <2>2, <2>3, Zenon
<1>13. \A u \in ShmTasks : shm_step'[u] = IF u = t THEN NoStep ELSE shm_step[u]
  BY <1>1, <1>2, Zenon DEF ShmTypes, Does
<1>14. \A x \in Slots : att'[x] = IF x = k THEN Absent ELSE att[x]
  BY <1>1, <1>2, Zenon DEF ShmTypes
<1>15. ASSUME NEW u \in ShmTasks PROVE InCall(u)'
  <2>1. CASE u = t
    BY <1>13, <2>1, NoStepIs, Zenon DEF InCall
  <2>2. CASE u # t
    <3>1. shm_step[u].op = "map" => shm_step[u].slot # k
      <4> SUFFICES ASSUME shm_step[u].op = "map", shm_step[u].slot = k PROVE FALSE
        BY Zenon
      <4>0. att[shm_step[u].slot] = [task |-> u, va |-> shm_step[u].va, id |-> shm_step[u].id]
        BY <1>1, Zenon DEF InCall
      <4>1. att[k].task = u
        BY <4>0
      <4> QED BY <1>6, <2>2, <4>1, Zenon
    <3> QED BY <1>1, <1>2, <1>13, <1>14, <2>2, <3>1, SMTT(60) DEF InCall
  <2> QED BY <2>1, <2>2, Zenon
<1>16. PagesCovered'
  <2> SUFFICES ASSUME NEW x \in Spaces, NEW w \in Vas, NEW j \in Ids, NEW u \in ShmTasks, Covered(x, w, j, u)
               PROVE  Covered(x, w, j, u)'
    BY <1>1, <1>2 DEF PagesCovered, ShmTypes, PageRecords
  <2>1. CASE u # t
    BY <1>1, <1>2, <1>6, <1>13, <1>14, <2>1, StaysCovered, SMTT(60)
  <2>2. CASE u = t
    <3>1. PICK y \in Slots : att[y] = [task |-> t, va |-> w, id |-> j]
      BY <1>2, <2>2, Zenon DEF Covered
    <3>2. w > brk_max[t] /\ w \in Nat /\ brk_max[t] \in Nat
      BY <1>1, <1>2, <2>2, SMTT(60) DEF Covered, ShmTypes, Vas
    <3>3. att[y].va # att[k].va
      BY <1>3, <3>1, <3>2
    <3>4. att'[y] = att[y]
      BY <1>14, <3>3, Zenon
    <3>5. Covered(x, w, j, t)'
      BY <1>2, <1>13, <2>2, <3>1, <3>2, <3>4, NoStepIs, Zenon DEF Covered
    <3> QED BY <2>2, <3>5, Zenon
  <2> QED BY <2>1, <2>2, Zenon
<1> QED BY <1>11, <1>12, <1>15, <1>16, Zenon DEF ShmInv

LEMMA ShmDetach == ASSUME ShmInv, NEW t \in ShmTasks, NEW va \in Vas, sys_shmdt(t, va) PROVE ShmInv'
<1>1. ShmTypes /\ PagesCovered /\ (\A j \in Ids : Counted(j)) /\ (\A u \in ShmTasks : InCall(u))
  BY Zenon DEF ShmInv
<1>2. PICK k \in Slots : /\ k \in {j \in OfTask(t) : att[j].va = va}
                         /\ att' = [att EXCEPT ![k] = Absent] /\ Does(t, Step("unmap", va, att[k].id, 0))
  BY Zenon DEF sys_shmdt, IsFirst
<1>3. /\ space[t] # Absent /\ shm_step[t] = NoStep
      /\ UNCHANGED <<seg, next_id, space, brk_max, map, failed>>
  BY Zenon DEF sys_shmdt, InUserMode, procs
<1> SUFFICES ASSUME NEW i \in Ids, att[k] = [task |-> t, va |-> va, id |-> i] PROVE ShmInv'
  BY <1>1, <1>2, Zenon DEF ShmTypes, Entries, OfTask
<1> SUFFICES ASSUME NEW s, s = Step("unmap", va, i, 0) PROVE ShmInv'
  BY Zenon
<1>4. va \in Nat /\ i \in Nat /\ 0 \in Nat
  BY DEF Vas, Ids
<1>5. s \in Steps /\ s.op = "unmap" /\ s.va = va /\ s.id = i
  BY <1>4, StepIs, SMTT(60)
<1>6. att[k] # Absent /\ att[k].id = i /\ att[k].task = t
  BY EntryThere
<1>7. Does(t, s)
  BY <1>2, <1>6, ZenonT(60)
<1>8. ShmTypes'
  BY <1>1, <1>2, <1>3, <1>5, <1>7 DEF ShmTypes, Does
<1>9. ASSUME NEW j \in Ids PROVE Counted(j)'
  <2>1. Cardinality(Attached(j)) \in Nat /\ Cardinality(Leaving(j)) \in Nat
    BY SetsFinite, Zenon
  <2>2. ~Leaves(NoStep, j) /\ (Leaves(s, j) <=> j = i)
    BY <1>5, NoStepIs, Zenon DEF Leaves
  <2>3. Cardinality(Leaving(j)') = Cardinality(Leaving(j)) + (IF j = i THEN 1 ELSE 0) - 0
    BY <1>1, <1>3, <1>7, <2>2, StepChanged, Zenon
  <2>4. Cardinality(Attached(j)') = Cardinality(Attached(j)) - IF j = i THEN 1 ELSE 0
    BY <1>1, <1>2, <1>6, EntryRemoved, ZenonT(60)
  <2>5. Cardinality(Attached(j)') + Cardinality(Leaving(j)') = Cardinality(Attached(j)) + Cardinality(Leaving(j))
    BY <2>1, <2>3, <2>4
  <2> QED BY <1>1, <1>3, <2>5, Zenon DEF Counted
<1>10. \A u \in ShmTasks : shm_step'[u] = IF u = t THEN s ELSE shm_step[u]
  BY <1>1, <1>7, Zenon DEF ShmTypes, Does
<1>11. \A x \in Slots : att'[x] = IF x = k THEN Absent ELSE att[x]
  BY <1>1, <1>2, Zenon DEF ShmTypes
<1>12. ASSUME NEW u \in ShmTasks PROVE InCall(u)'
  <2>1. CASE u = t
    BY <1>3, <1>5, <1>10, <2>1, ZenonT(60) DEF InCall
  <2>2. CASE u # t
    <3>1. shm_step[u].op = "map" => shm_step[u].slot # k
      <4> SUFFICES ASSUME shm_step[u].op = "map", shm_step[u].slot = k PROVE FALSE
        BY Zenon
      <4>1. att[shm_step[u].slot] = [task |-> u, va |-> shm_step[u].va, id |-> shm_step[u].id]
        BY <1>1, ZenonT(60) DEF InCall
      <4>2. att[k].task = u
        BY <4>1
      <4> QED BY <1>6, <2>2, <4>2, Zenon
    <3> QED BY <1>1, <1>3, <1>10, <1>11, <2>2, <3>1 DEF InCall
  <2> QED BY <2>1, <2>2, Zenon
<1>13. PagesCovered'
  <2> SUFFICES ASSUME NEW x \in Spaces, NEW w \in Vas, NEW j \in Ids, NEW u \in ShmTasks, Covered(x, w, j, u)
               PROVE  Covered(x, w, j, u)'
    BY <1>1, <1>3 DEF PagesCovered, ShmTypes, PageRecords
  <2>1. CASE u # t
    BY <1>1, <1>3, <1>6, <1>10, <1>11, <2>1, StaysCovered, Zenon
  <2>2. CASE u = t
    <3>1. PICK y \in Slots : att[y] = [task |-> t, va |-> w, id |-> j]
      BY <1>3, <2>2, NoStepIs, Zenon DEF Covered
    <3>2. CASE y = k
      <4>1. att[y].va = w /\ att[y].id = j /\ att[k].va = va
        BY <3>1
      <4>2. w = va /\ j = i
        BY <1>6, <3>2, <4>1, Zenon
      <4> QED BY <1>3, <1>5, <1>10, <2>2, <4>2, ZenonT(60) DEF Covered
    <3>3. CASE y # k
      BY <1>3, <1>5, <1>10, <1>11, <2>2, <3>1, <3>3, Zenon DEF Covered
    <3> QED BY <3>2, <3>3, Zenon
  <2> QED BY <2>1, <2>2, Zenon
<1> QED BY <1>8, <1>9, <1>12, <1>13, Zenon DEF ShmInv

LEMMA ShmUnmapPage == ASSUME ShmInv, NEW t \in ShmTasks, UnmapPage(t) PROVE ShmInv'
<1>1. ShmTypes /\ PagesCovered /\ (\A j \in Ids : Counted(j)) /\ (\A u \in ShmTasks : InCall(u))
  BY Zenon DEF ShmInv
<1> SUFFICES ASSUME NEW c \in Steps, c = shm_step[t], NEW m, m = space[t],
                    NEW s, s = Step("drop", 0, c.id, 0)
             PROVE  ShmInv'
  BY <1>1, Zenon DEF ShmTypes
<1>2. /\ c.op = "unmap" /\ Does(t, s) /\ map' = [map EXCEPT ![m][c.va] = Absent]
      /\ UNCHANGED <<seg, next_id, att, space, brk_max, failed>>
  BY Zenon DEF UnmapPage, procs
<1>3. m \in Spaces /\ m # Absent /\ c.id \in Ids /\ c.va \in Vas
  BY <1>1, <1>2, ZenonT(60) DEF InCall, ShmTypes
<1>4. c.id \in Nat /\ 0 \in Nat
  BY <1>3 DEF Ids
<1>5. s \in Steps /\ s.op = "drop" /\ s.id = c.id
  BY <1>4, StepIs
<1>6. \A x \in Spaces, w \in Vas : map'[x][w] = IF x = m /\ w = c.va THEN Absent ELSE map[x][w]
  BY <1>1, <1>2, <1>3, Zenon DEF ShmTypes
<1>7. ShmTypes'
  <2>1. map' \in [Spaces -> [Vas -> PageRecords \cup {Absent}]]
    BY <1>1, <1>2, <1>3, Zenon DEF ShmTypes
  <2> QED BY <1>1, <1>2, <1>5, <2>1, Zenon DEF ShmTypes, Does
<1>8. \A u \in ShmTasks : shm_step'[u] = IF u = t THEN s ELSE shm_step[u]
  BY <1>1, <1>2, Zenon DEF ShmTypes, Does
<1>9. ASSUME NEW j \in Ids PROVE Counted(j)'
  <2>1. Leaves(s, j) <=> Leaves(c, j)
    BY <1>2, <1>5, Zenon DEF Leaves
  <2>2. Cardinality(Leaving(j)) \in Nat
    BY SetsFinite, Zenon
  <2>3. Cardinality(Leaving(j)') = Cardinality(Leaving(j)) + (IF Leaves(c, j) THEN 1 ELSE 0) - (IF Leaves(c, j) THEN 1 ELSE 0)
    BY <1>1, <1>2, <2>1, StepChanged, Zenon
  <2>4. Cardinality(Leaving(j)') = Cardinality(Leaving(j)) /\ Attached(j)' = Attached(j)
    BY <1>2, <2>2, <2>3, SMTT(60) DEF Attached
  <2> QED BY <1>1, <1>2, <2>4, Zenon DEF Counted
<1>10. \A u \in ShmTasks : InCall(u)'
  BY <1>1, <1>2, <1>3, <1>5, <1>8 DEF InCall
<1>11. PagesCovered'
  <2> SUFFICES ASSUME NEW x \in Spaces, NEW w \in Vas, NEW i \in Ids, NEW u \in ShmTasks,
                      map'[x][w] # Absent, map'[x][w].id = i, map'[x][w].by = u
               PROVE  Covered(x, w, i, u)'
    BY <1>7 DEF PagesCovered, ShmTypes, PageRecords
  <2>1. map'[x][w] = map[x][w] /\ ~(x = m /\ w = c.va)
    BY <1>6, Zenon
  <2>2. Covered(x, w, i, u)
    BY <1>1, <2>1, ShmAssumption, ZenonT(60) DEF PagesCovered
  <2>3. CASE u # t
    BY <1>1, <1>2, <1>8, <2>2, <2>3, StaysCovered, SMTT(60)
  <2>4. CASE u = t
    <3>1. w # c.va
      BY <2>1, <2>2, <2>4, Zenon DEF Covered
    <3> QED BY <1>2, <1>5, <1>8, <2>2, <2>4, <3>1, Zenon DEF Covered
  <2> QED BY <2>3, <2>4, Zenon
<1> QED BY <1>7, <1>9, <1>10, <1>11, Zenon DEF ShmInv

LEMMA ShmDrop == ASSUME ShmInv, NEW t \in ShmTasks, DropSegment(t) PROVE ShmInv'
<1>1. ShmTypes /\ PagesCovered /\ (\A j \in Ids : Counted(j)) /\ (\A u \in ShmTasks : InCall(u))
  BY Zenon DEF ShmInv
<1> SUFFICES ASSUME NEW c \in Steps, c = shm_step[t], NEW i, i = c.id PROVE ShmInv'
  BY <1>1, Zenon DEF ShmTypes
<1>2. /\ c.op = "drop" /\ Does(t, NoStep) /\ seg' = [seg EXCEPT ![i] = Detached(seg[i], 1)]
      /\ UNCHANGED <<next_id, att, space, brk_max, map, failed>>
  BY Zenon DEF DropSegment, procs
<1>3. i \in Ids
  BY <1>1, <1>2, ZenonT(60) DEF InCall
<1>4. seg[i] \in Segments /\ seg[i].nattach \in Nat /\ 1 <= seg[i].nattach /\ 1 \in Nat
  <2>1. t \in Leaving(i)
    BY <1>2, Zenon DEF Leaving
  <2>2. Cardinality(Leaving(i)) # 0
    BY <1>3, <2>1, SetsFinite, FS_EmptySet, Zenon
  <2>3. seg[i] \in Segments /\ seg[i].nattach \in Nat
    BY <1>1, <1>3, Zenon DEF ShmTypes, Segments
  <2> QED BY <1>1, <1>3, <2>2, <2>3, SetsFinite DEF Counted
<1>5. /\ Detached(seg[i], 1) \in Segments /\ Detached(seg[i], 1).nattach = seg[i].nattach - 1
      /\ Detached(seg[i], 1).marked = seg[i].marked
      /\ seg[i].used /\ Detached(seg[i], 1).nattach > 0 => Detached(seg[i], 1).used
      /\ Detached(seg[i], 1).used /\ seg[i].marked => Detached(seg[i], 1).nattach > 0
  BY <1>4, DetachedIs, Zenon
<1>6. ShmTypes'
  BY <1>1, <1>2, <1>3, <1>5, NoStepIs, Zenon DEF ShmTypes, Does
<1>7. ASSUME NEW j \in Ids PROVE Counted(j)'
  <2>1. Cardinality(Attached(j)) \in Nat /\ Cardinality(Leaving(j)) \in Nat /\ Attached(j)' = Attached(j)
    BY <1>2, SetsFinite, Zenon DEF Attached
  <2>2. ~Leaves(NoStep, j) /\ (Leaves(c, j) <=> j = i)
    BY <1>2, NoStepIs, Zenon DEF Leaves
  <2>3. Cardinality(Leaving(j)') = Cardinality(Leaving(j)) + 0 - (IF j = i THEN 1 ELSE 0)
    BY <1>1, <1>2, <2>2, StepChanged, Zenon
  <2>4. CASE j = i
    <3>1. seg'[i] = Detached(seg[i], 1)
      BY <1>1, <1>2, <1>3, ZenonT(60) DEF ShmTypes
    <3>2. seg'[i].nattach = Cardinality(Attached(i)') + Cardinality(Leaving(i)')
      <4>1. seg[i].nattach = Cardinality(Attached(i)) + Cardinality(Leaving(i))
        BY <1>1, <1>3, Zenon DEF Counted
      <4>2. seg'[i].nattach = seg[i].nattach - 1
        BY <1>5, <3>1, Zenon
      <4>3. Cardinality(Leaving(i)') = Cardinality(Leaving(i)) + 0 - 1 /\ Attached(i)' = Attached(i)
        BY <2>1, <2>3, <2>4, Zenon
      <4>4. PICK a \in Nat, l \in Nat : a = Cardinality(Attached(i)) /\ l = Cardinality(Leaving(i))
        BY <2>1, <2>4, Zenon
      <4>5. (a + l) - 1 = a + (l + 0 - 1)
        BY <4>4, OneMoreOrLess, Zenon
      <4>6. seg'[i].nattach = (a + l) - 1 /\ Cardinality(Leaving(i)') = l + 0 - 1 /\ Cardinality(Attached(i)') = a
        BY <4>1, <4>2, <4>3, <4>4, Zenon
      <4> QED BY <4>5, <4>6, Zenon
    <3>3. seg[i].nattach > 0 /\ seg[i].used /\ i < next_id /\ next_id' = next_id
      BY <1>1, <1>2, <1>3, <1>4, SMTT(60) DEF Counted, ShmTypes, Ids
    <3>4. ~(i >= next_id)
      BY <1>1, <1>3, <3>3 DEF ShmTypes, Ids
    <3> QED BY <1>5, <2>4, <3>1, <3>2, <3>3, <3>4, Zenon DEF Counted
  <2>5. CASE j # i
    <3>1. seg'[j] = seg[j]
      BY <1>1, <1>2, <2>5, Zenon DEF ShmTypes
    <3>2. Cardinality(Leaving(j)') = Cardinality(Leaving(j)) + 0 - 0
      BY <2>3, <2>5, Zenon
    <3>3. Cardinality(Leaving(j)) + 0 - 0 = Cardinality(Leaving(j))
      BY <2>1, OneMoreOrLess, Zenon
    <3> QED BY <1>1, <1>2, <2>1, <3>1, <3>2, <3>3, Zenon DEF Counted
  <2> QED BY <2>4, <2>5, Zenon
<1>8. \A u \in ShmTasks : shm_step'[u] = IF u = t THEN NoStep ELSE shm_step[u]
  BY <1>1, <1>2, ZenonT(60) DEF ShmTypes, Does
<1>9. \A u \in ShmTasks : InCall(u)'
  BY <1>1, <1>2, <1>8, NoStepIs, ZenonT(60) DEF InCall
<1>10. PagesCovered'
  <2> SUFFICES ASSUME NEW x \in Spaces, NEW w \in Vas, NEW j \in Ids, NEW u \in ShmTasks, Covered(x, w, j, u)
               PROVE  Covered(x, w, j, u)'
    BY <1>1, <1>2 DEF PagesCovered, ShmTypes, PageRecords
  <2>1. CASE u # t
    BY <1>1, <1>2, <1>8, <2>1, StaysCovered, Zenon
  <2>2. CASE u = t
    BY <1>2, <1>8, <2>2, NoStepIs, Zenon DEF Covered
  <2> QED BY <2>1, <2>2, Zenon
<1> QED BY <1>6, <1>7, <1>9, <1>10, Zenon DEF ShmInv

(* What leaves a page map: only pages of the task that leaves lose it, and  *)
(* a map nobody uses has no page of a task.                                 *)
LEMMA LeftIs ==
    ASSUME NEW pages \in [Vas -> PageRecords \cup {Absent}], NEW ts, Absent \notin ts
    PROVE  /\ Left(pages, ts) \in [Vas -> PageRecords \cup {Absent}]
           /\ \A w \in Vas : (Left(pages, ts)[w] # Absent /\ Left(pages, ts)[w].by # Absent) =>
                                /\ pages[w].by \notin ts /\ Left(pages, ts)[w] = pages[w]
<1> SUFFICES ASSUME NEW w \in Vas
             PROVE  /\ Left(pages, ts)[w] \in PageRecords \cup {Absent}
                    /\ (Left(pages, ts)[w] # Absent /\ Left(pages, ts)[w].by # Absent) =>
                                /\ pages[w].by \notin ts /\ Left(pages, ts)[w] = pages[w]
  BY Zenon DEF Left
<1>1. CASE pages[w] # Absent /\ pages[w].by \in ts
  <2>1. Left(pages, ts)[w] = [pages[w] EXCEPT !.by = Absent] /\ pages[w] \in PageRecords
    BY <1>1, Zenon DEF Left
  <2>2. Left(pages, ts)[w] = [id |-> pages[w].id, by |-> Absent]
    BY <2>1, Zenon DEF PageRecords
  <2> QED BY <2>1, <2>2, Zenon DEF PageRecords
<1>2. CASE ~(pages[w] # Absent /\ pages[w].by \in ts)
  <2>1. Left(pages, ts)[w] = pages[w]
    BY <1>2, Zenon DEF Left
  <2> QED BY <1>2, <2>1, Zenon
<1> QED BY <1>1, <1>2, Zenon
LEMMA MapLeftIs ==
    ASSUME ShmTypes, PagesCovered, NEW t \in ShmTasks, space[t] # Absent, map' = [map EXCEPT ![space[t]] = MapLeft(t)]
    PROVE  /\ map' \in [Spaces -> [Vas -> PageRecords \cup {Absent}]]
           /\ \A x \in Spaces, w \in Vas : (map'[x][w] # Absent /\ map'[x][w].by # Absent) =>
                /\ map'[x][w] = map[x][w] /\ map[x][w].by # t /\ map[x][w].by \in ShmTasks
                /\ Covered(x, w, map[x][w].id, map[x][w].by)
<1> DEFINE m == space[t]
<1>1. m \in Spaces /\ map[m] \in [Vas -> PageRecords \cup {Absent}] /\ Absent \notin {t}
  BY ShmAssumption, ZenonT(60) DEF ShmTypes
<1>2. \A x \in Spaces, w \in Vas : (map[x][w] # Absent /\ map[x][w].by # Absent) =>
        map[x][w].by \in ShmTasks /\ Covered(x, w, map[x][w].id, map[x][w].by) /\ space[map[x][w].by] = x
  BY DEF PagesCovered, Covered, ShmTypes, PageRecords
<1>3. /\ MapLeft(t) \in [Vas -> PageRecords \cup {Absent}]
      /\ \A w \in Vas : (MapLeft(t)[w] # Absent /\ MapLeft(t)[w].by # Absent) =>
            MapLeft(t)[w] = map[m][w] /\ map[m][w].by # t
  <2>1. CASE MapLeft(t) = Left(map[m], {t})
    BY <1>1, <2>1, LeftIs
  <2>2. CASE MapLeft(t) = Unmapped
    BY <2>2, Zenon DEF Unmapped
  <2> QED BY <2>1, <2>2, ZenonT(60) DEF MapLeft
<1>4. \A x \in Spaces : map'[x] = IF x = m THEN MapLeft(t) ELSE map[x]
  BY Zenon DEF ShmTypes
<1>5. map' \in [Spaces -> [Vas -> PageRecords \cup {Absent}]]
  BY <1>3, Zenon DEF ShmTypes
<1> HIDE DEF m
<1>6. ASSUME NEW x \in Spaces, NEW w \in Vas, map'[x][w] # Absent, map'[x][w].by # Absent
      PROVE  /\ map'[x][w] = map[x][w] /\ map[x][w].by # t /\ map[x][w].by \in ShmTasks
             /\ Covered(x, w, map[x][w].id, map[x][w].by)
  <2>1. CASE x = m
    <3>1. map'[x][w] = map[x][w] /\ map[x][w].by # t
      BY <1>3, <1>4, <1>6, <2>1, Zenon
    <3> QED BY <1>2, <1>6, <3>1, Zenon
  <2>2. CASE x # m
    <3>1. map'[x][w] = map[x][w]
      BY <1>4, <2>2, Zenon
    <3>2. map[x][w].by \in ShmTasks /\ space[map[x][w].by] = x /\ Covered(x, w, map[x][w].id, map[x][w].by)
      BY <1>2, <1>6, <3>1, Zenon
    <3> QED BY <2>2, <3>1, <3>2, Zenon DEF m
  <2> QED BY <2>1, <2>2, Zenon
<1> QED BY <1>5, <1>6, Zenon

(* A task in user mode is in no call, and neither is one that is not there. *)
LEMMA ShmExit == ASSUME ShmInv, NEW t \in ShmTasks, shm_task_exit(t) PROVE ShmInv'
<1>1. ShmTypes /\ PagesCovered /\ (\A j \in Ids : Counted(j)) /\ (\A u \in ShmTasks : InCall(u))
  BY Zenon DEF ShmInv
<1>2. /\ space[t] # Absent /\ shm_step[t] = NoStep
      /\ att' = [k \in Slots |-> IF k \in OfTask(t) THEN Absent ELSE att[k]]
      /\ space' = [space EXCEPT ![t] = Absent] /\ map' = [map EXCEPT ![space[t]] = MapLeft(t)]
      /\ brk_max' = [brk_max EXCEPT ![t] = NVa + 1]
      /\ UNCHANGED <<next_id, shm_step, failed>>
  BY Zenon DEF shm_task_exit, InUserMode
<1> DEFINE mine(i) == {k \in OfTask(t) : att[k].id = i}
<1>3. \A i \in Ids : seg'[i] = IF mine(i) = {} THEN seg[i] ELSE Detached(seg[i], Cardinality(mine(i)))
  BY Zenon DEF shm_task_exit
<1>4. ASSUME NEW i \in Ids
      PROVE  /\ mine(i) \subseteq Attached(i) /\ Attached(i)' = Attached(i) \ mine(i)
             /\ IsFiniteSet(mine(i)) /\ Cardinality(mine(i)) \in Nat
             /\ Cardinality(mine(i)) <= Cardinality(Attached(i))
             /\ Cardinality(Attached(i)') = Cardinality(Attached(i)) - Cardinality(mine(i))
             /\ mine(i) = {} => Cardinality(mine(i)) = 0
  <2>1. mine(i) \subseteq Attached(i)
    BY Zenon DEF Attached, OfTask
  <2>2. Attached(i)' = Attached(i) \ mine(i)
    BY <1>2, Zenon DEF Attached, OfTask
  <2>3. IsFiniteSet(mine(i)) /\ Cardinality(mine(i)) \in Nat /\ Cardinality(mine(i)) <= Cardinality(Attached(i))
    BY <2>1, SetsFinite, FS_Subset, FS_CardinalityType, Zenon
  <2>4. Attached(i) \cap mine(i) = mine(i)
    BY <2>1, Zenon
  <2>5. Cardinality(Attached(i) \ mine(i)) = Cardinality(Attached(i)) - Cardinality(Attached(i) \cap mine(i))
    BY SetsFinite, FS_Difference, Zenon
  <2> QED BY <2>1, <2>2, <2>3, <2>4, <2>5, FS_EmptySet, Zenon
<1> HIDE DEF mine
<1>5. ASSUME NEW i \in Ids
      PROVE  /\ seg'[i] \in Segments /\ seg'[i].nattach = seg[i].nattach - Cardinality(mine(i))
             /\ seg'[i].marked = seg[i].marked
             /\ seg'[i].nattach > 0 => seg'[i].used
             /\ i \notin failed /\ seg'[i].used /\ seg'[i].marked => seg'[i].nattach > 0
             /\ i >= next_id => ~seg'[i].used
  <2>1. seg[i] \in Segments /\ seg[i].nattach \in Nat /\ Counted(i)
    BY <1>1, Zenon DEF ShmTypes, Segments
  <2>2. CASE mine(i) = {}
    <3>0. Cardinality(mine(i)) = 0 /\ seg'[i] = seg[i]
      BY <1>3, <1>4, <2>2, ZenonT(60)
    <3>1. seg'[i] = seg[i] /\ seg[i].nattach - Cardinality(mine(i)) = seg[i].nattach
      BY <2>1, <3>0, SMTT(60)
    <3> QED BY <2>1, <3>1, Zenon DEF Counted
  <2>3. CASE mine(i) # {}
    <3>1. Cardinality(mine(i)) <= seg[i].nattach /\ Cardinality(mine(i)) > 0
      BY <1>4, <2>1, <2>3, SetsFinite, FS_EmptySet DEF Counted
    <3>2. seg'[i] = Detached(seg[i], Cardinality(mine(i))) /\ Cardinality(mine(i)) \in Nat
      BY <1>3, <1>4, <2>3, ZenonT(60)
    <3>3. seg[i].nattach > 0
      BY <2>1, <3>1, <3>2
    <3>4. seg[i].used /\ ~(i >= next_id)
      BY <2>1, <3>3, Zenon DEF Counted
    <3> QED BY <2>1, <3>1, <3>2, <3>4, DetachedIs, SMTT(60)
  <2> QED BY <2>2, <2>3, Zenon
<1>6. ShmTypes'
  <2>1. map' \in [Spaces -> [Vas -> PageRecords \cup {Absent}]]
    BY <1>1, <1>2, MapLeftIs, Zenon
  <2>2. seg' \in [Ids -> Segments]
    BY <1>5, Zenon DEF shm_task_exit
  <2>3. NVa + 1 \in 1 .. NVa + 1
    BY ShmAssumption
  <2> QED BY <1>1, <1>2, <2>1, <2>2, <2>3, Zenon DEF ShmTypes
<1>7. ASSUME NEW i \in Ids PROVE Counted(i)'
  <2>1. Leaving(i)' = Leaving(i) /\ Cardinality(Attached(i)) \in Nat /\ Cardinality(Leaving(i)) \in Nat
    BY <1>2, SetsFinite, ZenonT(60) DEF Leaving
  <2>2. seg'[i].nattach = Cardinality(Attached(i)') + Cardinality(Leaving(i)')
    BY <1>1, <1>4, <1>5, <2>1 DEF Counted
  <2>3. i >= next_id => ~seg[i].marked
    BY <1>1, Zenon DEF Counted
  <2> QED BY <1>2, <1>5, <2>2, <2>3, Zenon DEF Counted
<1>8. ASSUME NEW u \in ShmTasks PROVE InCall(u)'
  <2>1. CASE u = t
    BY <1>2, <2>1, NoStepIs, Zenon DEF InCall
  <2>2. CASE u # t
    <3>1. shm_step[u].op = "map" => att'[shm_step[u].slot] = att[shm_step[u].slot]
      <4> SUFFICES ASSUME shm_step[u].op = "map" PROVE att'[shm_step[u].slot] = att[shm_step[u].slot]
        BY Zenon
      <4>1. /\ shm_step[u].slot \in Slots
            /\ att[shm_step[u].slot] = [task |-> u, va |-> shm_step[u].va, id |-> shm_step[u].id]
        BY <1>1, ZenonT(60) DEF InCall
      <4>2. shm_step[u].slot \notin OfTask(t)
        BY <2>2, <4>1 DEF OfTask
      <4> QED BY <1>2, <4>1, <4>2, Zenon
    <3>2. space'[u] = space[u] /\ brk_max'[u] = brk_max[u] /\ shm_step'[u] = shm_step[u]
      BY <1>1, <1>2, <2>2, Zenon DEF ShmTypes
    <3> QED BY <1>1, <3>1, <3>2, Zenon DEF InCall
  <2> QED BY <2>1, <2>2, Zenon
<1>9. PagesCovered'
  <2> SUFFICES ASSUME NEW x \in Spaces, NEW w \in Vas, NEW j \in Ids, NEW u \in ShmTasks,
                      map'[x][w] # Absent, map'[x][w].id = j, map'[x][w].by = u
               PROVE  Covered(x, w, j, u)'
    BY <1>6 DEF PagesCovered, ShmTypes, PageRecords
  <2>0. \A v \in Vas : (map'[x][v] # Absent /\ map'[x][v].by # Absent) =>
           /\ map'[x][v] = map[x][v] /\ map[x][v].by # t
           /\ Covered(x, v, map[x][v].id, map[x][v].by)
    BY <1>1, <1>2, MapLeftIs, Zenon
  <2>1. u # t /\ Covered(x, w, j, u)
    BY <2>0, ShmAssumption, Zenon
  <2>2. space'[u] = space[u] /\ brk_max'[u] = brk_max[u] /\ shm_step'[u] = shm_step[u]
    BY <1>1, <1>2, <2>1, Zenon DEF ShmTypes
  <2>3. \A k \in Slots : att[k] # Absent /\ att[k].task = u => att'[k] = att[k]
    BY <1>2, <2>1, Zenon DEF OfTask
  <2> QED BY <1>1, <2>1, <2>2, <2>3, StaysCovered, Zenon
<1> QED BY <1>6, <1>7, <1>8, <1>9, Zenon DEF ShmInv

(* A new thread or process, and execve: only t changes its map.             *)
LEMMA MapChanged ==
    ASSUME ShmInv, NEW t \in ShmTasks, shm_step[t].op = "no", UNCHANGED <<seg, next_id, att, shm_step, failed>>,
           ShmTypes', \A u \in ShmTasks \ {t} : space'[u] = space[u] /\ brk_max'[u] = brk_max[u],
           \A x \in Spaces, w \in Vas : (map'[x][w] # Absent /\ map'[x][w].by # Absent) =>
                map'[x][w].by # t /\ Covered(x, w, map'[x][w].id, map'[x][w].by)
    PROVE  ShmInv'
<1>1. ShmTypes /\ PagesCovered /\ (\A j \in Ids : Counted(j)) /\ (\A u \in ShmTasks : InCall(u))
  BY Zenon DEF ShmInv
<1>2. ASSUME NEW i \in Ids PROVE Counted(i)'
  <2>1. Attached(i)' = Attached(i) /\ Leaving(i)' = Leaving(i)
    BY Zenon DEF Attached, Leaving
  <2> QED BY <1>1, <2>1, Zenon DEF Counted
<1>3. ASSUME NEW u \in ShmTasks PROVE InCall(u)'
  <2>1. CASE u = t
    BY <2>1, Zenon DEF InCall
  <2>2. CASE u # t
    BY <1>1, <2>2, Zenon DEF InCall
  <2> QED BY <2>1, <2>2, Zenon
<1>4. PagesCovered'
  <2> SUFFICES ASSUME NEW x \in Spaces, NEW w \in Vas, NEW j \in Ids, NEW u \in ShmTasks,
                      map'[x][w] # Absent, map'[x][w].id = j, map'[x][w].by = u
               PROVE  Covered(x, w, j, u)'
    BY DEF PagesCovered, ShmTypes, PageRecords
  <2>1. u # t /\ Covered(x, w, j, u)
    BY ShmAssumption, Zenon
  <2> QED BY <1>1, <2>1, StaysCovered, ZenonT(60)
<1> QED BY <1>2, <1>3, <1>4, Zenon DEF ShmInv

LEMMA NewMapIs ==
    ASSUME UnusedMaps # {}
    PROVE  NewMap \in Spaces /\ \A t \in ShmTasks : space[t] # NewMap
<1>1. NewMap \in UnusedMaps
  BY Zenon DEF NewMap
<1> QED BY <1>1, Zenon DEF UnusedMaps

LEMMA ShmStart == ASSUME ShmInv, NEW p \in ShmTasks, NEW t \in ShmTasks, task_spawn_thread(p, t) \/ task_fork(p, t)
                  PROVE  ShmInv'
<1>1. ShmTypes /\ PagesCovered /\ (\A j \in Ids : Counted(j)) /\ (\A u \in ShmTasks : InCall(u))
  BY Zenon DEF ShmInv
<1>2. space[t] = Absent /\ space[p] # Absent /\ UNCHANGED <<seg, next_id, att, shm_step, failed>>
      /\ brk_max' = [brk_max EXCEPT ![t] = brk_max[p]]
  BY Zenon DEF task_spawn_thread, task_fork, Starts, InUserMode
<1>3. shm_step[t].op = "no"
  BY <1>1, <1>2, ZenonT(60) DEF InCall
<1>4. \A x \in Spaces, w \in Vas : (map[x][w] # Absent /\ map[x][w].by # Absent) =>
        map[x][w].by # t /\ Covered(x, w, map[x][w].id, map[x][w].by)
  BY <1>1, <1>2, ShmAssumption DEF PagesCovered, Covered
<1>5. CASE task_spawn_thread(p, t)
  <2>1. map' = map /\ space' = [space EXCEPT ![t] = space[p]]
    BY <1>5, Zenon DEF task_spawn_thread
  <2>2. ShmTypes'
    BY <1>1, <1>2, <2>1, Zenon DEF ShmTypes
  <2>3. \A u \in ShmTasks \ {t} : space'[u] = space[u] /\ brk_max'[u] = brk_max[u]
    BY <1>1, <1>2, <2>1, Zenon DEF ShmTypes
  <2> QED BY <1>2, <1>3, <1>4, <2>1, <2>2, <2>3, MapChanged, Zenon
<1>6. CASE task_fork(p, t)
  <2> SUFFICES ASSUME NEW m, m = NewMap PROVE ShmInv'
    BY Zenon
  <2>1. map' = [map EXCEPT ![m] = Left(map[space[p]], ShmTasks)] /\ space' = [space EXCEPT ![t] = m]
    BY <1>6, Zenon DEF task_fork
  <2>2. m \in Spaces
    BY <1>6, NewMapIs, Zenon DEF task_fork
  <2>3. /\ Left(map[space[p]], ShmTasks) \in [Vas -> PageRecords \cup {Absent}]
        /\ \A w \in Vas : LET q == Left(map[space[p]], ShmTasks)[w] IN ~(q # Absent /\ q.by # Absent)
    <3>1. map[space[p]] \in [Vas -> PageRecords \cup {Absent}] /\ Absent \notin ShmTasks
      BY <1>1, <1>2, ShmAssumption, ZenonT(60) DEF ShmTypes
    <3> DEFINE l == Left(map[space[p]], ShmTasks)
    <3>2. /\ l \in [Vas -> PageRecords \cup {Absent}]
          /\ \A w \in Vas : (l[w] # Absent /\ l[w].by # Absent) => map[space[p]][w].by \notin ShmTasks /\ l[w] = map[space[p]][w]
      BY <3>1, LeftIs
    <3> HIDE DEF l
    <3>3. \A w \in Vas : l[w] # Absent => l[w].by \in ShmTasks \cup {Absent}
      BY <3>2, Zenon DEF PageRecords
    <3>4. \A w \in Vas : ~(l[w] # Absent /\ l[w].by # Absent)
      BY <3>2, <3>3, Zenon
    <3> QED BY <3>2, <3>4, Zenon DEF l
  <2>4. ShmTypes'
    BY <1>1, <1>2, <2>1, <2>2, <2>3, Zenon DEF ShmTypes
  <2>5. \A u \in ShmTasks \ {t} : space'[u] = space[u] /\ brk_max'[u] = brk_max[u]
    BY <1>1, <1>2, <2>1, Zenon DEF ShmTypes
  <2>6. \A x \in Spaces, w \in Vas : (map'[x][w] # Absent /\ map'[x][w].by # Absent) => map'[x][w] = map[x][w]
    BY <1>1, <2>1, <2>2, <2>3, ZenonT(60) DEF ShmTypes
  <2>7. \A x \in Spaces, w \in Vas : (map'[x][w] # Absent /\ map'[x][w].by # Absent) =>
                map'[x][w].by # t /\ Covered(x, w, map'[x][w].id, map'[x][w].by)
    BY <1>4, <2>6
  <2> QED BY <1>2, <1>3, <2>4, <2>5, <2>7, MapChanged, Zenon
<1> QED BY <1>5, <1>6, Zenon

LEMMA ShmExecve == ASSUME ShmInv, NEW t \in ShmTasks, sys_execve(t) PROVE ShmInv'
<1>1. ShmTypes /\ PagesCovered
  BY Zenon DEF ShmInv
<1> SUFFICES ASSUME NEW m, m = NewMap PROVE ShmInv'
  BY Zenon
<1>2. /\ space[t] # Absent /\ shm_step[t].op = "no" /\ space' = [space EXCEPT ![t] = m]
      /\ map' = [map EXCEPT ![space[t]] = MapLeft(t)] /\ brk_max' = [brk_max EXCEPT ![t] = NVa + 1]
      /\ UNCHANGED <<seg, next_id, att, shm_step, failed>>
  BY NoStepIs, Zenon DEF sys_execve, InUserMode
<1>3. m \in Spaces
  BY NewMapIs, Zenon DEF sys_execve
<1>4. NVa + 1 \in 1 .. NVa + 1
  BY ShmAssumption
<1>5. /\ map' \in [Spaces -> [Vas -> PageRecords \cup {Absent}]]
      /\ \A x \in Spaces, w \in Vas : (map'[x][w] # Absent /\ map'[x][w].by # Absent) =>
            /\ map'[x][w] = map[x][w] /\ map[x][w].by # t
            /\ Covered(x, w, map[x][w].id, map[x][w].by)
  BY <1>1, <1>2, MapLeftIs, ZenonT(60)
<1>6. ShmTypes'
  BY <1>1, <1>2, <1>3, <1>4, <1>5, Zenon DEF ShmTypes
<1>7. \A u \in ShmTasks \ {t} : space'[u] = space[u] /\ brk_max'[u] = brk_max[u]
  BY <1>1, <1>2, Zenon DEF ShmTypes
<1>8. \A x \in Spaces, w \in Vas : (map'[x][w] # Absent /\ map'[x][w].by # Absent) =>
                map'[x][w].by # t /\ Covered(x, w, map'[x][w].id, map'[x][w].by)
  BY <1>5, Zenon
<1> QED BY <1>2, <1>6, <1>7, <1>8, MapChanged, Zenon

LEMMA ShmStep == ShmInv /\ [MNext]_mvars => ShmInv'
<1> SUFFICES ASSUME ShmInv, [MNext]_mvars PROVE ShmInv'
  BY Zenon
<1>1. CASE UNCHANGED mvars
  <2>1. UNCHANGED <<seg, next_id, att, space, brk_max, map, shm_step, failed>>
    BY <1>1, Zenon DEF mvars
  <2>2. ShmTypes' /\ PagesCovered' /\ \A u \in ShmTasks : InCall(u)'
    BY <2>1, MapsStay, Zenon DEF ShmInv, ShmTypes
  <2>3. ASSUME NEW i \in Ids PROVE Counted(i)'
    BY <2>1, Zenon DEF ShmInv, Counted, Attached, Leaving
  <2> QED BY <2>2, <2>3, Zenon DEF ShmInv
<1>2. CASE MNext
  BY <1>2, ShmGet, ShmControl, ShmAttach, ShmMapPage, ShmMapFails, ShmDetach, ShmUnmapPage, ShmDrop,
     ShmExit, ShmStart, ShmExecve, SMTT(60) DEF MNext
<1> QED BY <1>1, <1>2, Zenon

LEMMA ShmEnough == ShmInv => SegmentLifetime
<1> SUFFICES ASSUME ShmInv PROVE SegmentLifetime
  BY Zenon
<1>1. ShmTypes /\ PagesCovered /\ (\A j \in Ids : Counted(j)) /\ (\A u \in ShmTasks : InCall(u))
  BY Zenon DEF ShmInv
<1>2. SegmentKept
  <2> SUFFICES ASSUME NEW m \in Spaces, NEW w \in Vas, map[m][w] # Absent, map[m][w].by # Absent
               PROVE  seg[map[m][w].id].used
    BY <1>1, Zenon DEF SegmentKept, ShmTypes
  <2> DEFINE i == map[m][w].id
             u == map[m][w].by
  <2>1. i \in Ids /\ u \in ShmTasks /\ Covered(m, w, i, u)
    <3>1. map[m][w] \in PageRecords
      BY <1>1, Zenon DEF ShmTypes
    <3>2. i \in Ids /\ u \in ShmTasks
      BY <3>1, Zenon DEF PageRecords
    <3>3. Covered(m, w, map[m][w].id, map[m][w].by)
      BY <1>1, Zenon DEF PagesCovered
    <3> QED BY <3>2, <3>3, Zenon
  <2> HIDE DEF i, u
  <2>2. Attached(i) # {} \/ Leaving(i) # {}
    <3>1. CASE \E k \in Slots : att[k] = [task |-> u, va |-> w, id |-> i]
      BY <2>1, <3>1, EntryThere DEF Attached
    <3>2. CASE shm_step[u].op = "unmap" /\ shm_step[u].id = i
      BY <2>1, <3>2, ZenonT(60) DEF Leaving
    <3> QED BY <2>1, <3>1, <3>2, ZenonT(60) DEF Covered
  <2>3. seg[i].nattach > 0
    <3>1. Cardinality(Attached(i)) # 0 \/ Cardinality(Leaving(i)) # 0
      BY <2>1, <2>2, SetsFinite, FS_EmptySet, Zenon
    <3> QED BY <1>1, <2>1, <3>1, SetsFinite DEF Counted
  <2> QED BY <1>1, <2>1, <2>3, Zenon DEF Counted, i
<1>3. RemovedAtLast
  <2> SUFFICES ASSUME NEW i \in Ids, i \notin failed, seg[i].used, seg[i].marked
               PROVE  Attached(i) # {} \/ Leaving(i) # {}
    BY Zenon DEF RemovedAtLast, Attached, Leaving
  <2>1. seg[i].nattach > 0 /\ seg[i].nattach = Cardinality(Attached(i)) + Cardinality(Leaving(i))
    BY <1>1, Zenon DEF Counted
  <2>2. Cardinality(Attached(i)) # 0 \/ Cardinality(Leaving(i)) # 0
    BY <2>1
  <2> QED BY <2>2, FS_EmptySet, Zenon
<1> QED BY <1>2, <1>3, Zenon DEF SegmentLifetime

(* While a task can reach a page that it, or a task of its page map, has    *)
(* attached, the segment is not freed, and a segment that IPC_RMID marked   *)
(* goes with its last attachment.                                           *)
THEOREM SegmentsCounted == MSpec => []SegmentLifetime
<1>1. MSpec => []ShmInv
  BY ShmInit, ShmStep, PTL DEF MSpec
<1> QED BY <1>1, ShmEnough, PTL
=============================================================================
