-------------------------------- MODULE Buddy --------------------------------
(***************************************************************************)
(* The allocator of physical pages (kernel/src/memory/pmm.c).  g_pmm_lock   *)
(* is held through each operation, so an operation is one step.  Addresses  *)
(* are page numbers.  The free lists are sets: which block of a list comes  *)
(* first is left open.  Clients give back what they got, with the number of *)
(* pages they asked for.                                                    *)
(***************************************************************************)
EXTENDS Naturals, FiniteSets, FiniteSetsExt

CONSTANTS Regions,          \* the usable regions of the memory map, as <<base, end>>
          FREE_MIN,         \* PMM_FREE_MIN_PHYS
          MAX_ORDER,        \* PMM_MAX_ORDER
          Limits            \* the bounds asked of pmm_alloc_below

Orders == 0..MAX_ORDER
mem_end == Max({r[2] : r \in Regions})
usable_pages == MapThenSumSet(LAMBDA r : r[2] - r[1], Regions)
Span(p, o) == p .. p + 2^o - 1
Pages(S) == UNION {Span(b[1], b[2]) : b \in S}

VARIABLES orders,           \* g_buddy.orders: the free blocks of each order
          free_pages,
          owned             \* history: the blocks clients hold, as <<page, order>>
bvars == <<orders, free_pages, owned>>

FreeBlocks == {b \in (0..mem_end) \X Orders : b[1] \in orders[b[2]]}

(* pmm_init cuts each region into the largest blocks that are aligned and   *)
(* fit.                                                                     *)
Cut[base \in 0..mem_end, end \in 0..mem_end] ==
    IF base >= end THEN {}
    ELSE LET o == Max({k \in Orders : k = 0 \/ (base % 2^k = 0 /\ 2^k <= end - base)})
         IN {<<base, o>>} \cup Cut[base + 2^o, end]
Booted == UNION {Cut[IF r[1] < FREE_MIN THEN FREE_MIN ELSE r[1], r[2]] : r \in Regions}
BInit == /\ orders = [o \in Orders |-> {b[1] : b \in {x \in Booted : x[2] = o}}]
         /\ free_pages = Cardinality(Pages(Booted))
         /\ owned = {}
-----------------------------------------------------------------------------
(* _pages_to_order. *)
OrderOf(n) == Min({o \in 0..n : n <= 2^o})

(* Taking the block b of order found for one of order o leaves the upper    *)
(* halves on the lists below.                                               *)
SplitLower(b, found, o) ==
    [orders EXCEPT ![found] = @ \ {b}]
SplitTaken(b, found, o) ==
    [k \in Orders |-> IF k = found THEN orders[k] \ {b}
                      ELSE IF k \in o .. found - 1 THEN orders[k] \cup {b + 2^k}
                      ELSE orders[k]]
Take(b, found, o) ==
    /\ orders' = SplitTaken(b, found, o)
    /\ free_pages' = free_pages - 2^o
    /\ owned' = owned \cup {<<b, o>>}

(* _buddy_alloc_order: the first list from o up that is not empty.  The     *)
(* alignments pmm_alloc_aligned is asked for are powers of two that the     *)
(* blocks of its order have, so its path of refusal is not reached.         *)
Alloc(n) ==
    LET o == OrderOf(n) IN
    /\ o <= MAX_ORDER
    /\ \E found \in o..MAX_ORDER :
         /\ orders[found] # {} /\ \A k \in o .. found - 1 : orders[k] = {}
         /\ \E b \in orders[found] : Take(b, found, o)

(* pmm_alloc_below: the first list that holds a block low enough.           *)
AllocBelow(n, limit) ==
    LET o == OrderOf(n)
        Low(k) == {b \in orders[k] : b >= FREE_MIN /\ b + 2^o <= limit}
    IN /\ o <= MAX_ORDER
       /\ \E found \in o..MAX_ORDER :
            /\ \A k \in o .. found - 1 : Low(k) = {}
            /\ \E b \in Low(found) : Take(b, found, o)

(* _buddy_free_order: while the buddy is free at this order the two become  *)
(* one block.                                                               *)
BuddyOf(p, o) == IF (p \div 2^o) % 2 = 0 THEN p + 2^o ELSE p - 2^o
Joins(f, p, o) == LET q == BuddyOf(p, o)
                  IN o < MAX_ORDER /\ q >= FREE_MIN /\ q < mem_end /\ q \in f[o]
FreeLists == [Orders -> SUBSET (0..mem_end)]
Merged[f \in FreeLists, p \in 0..mem_end, o \in Orders] ==
    IF Joins(f, p, o)
    THEN LET q == BuddyOf(p, o)
         IN Merged[[f EXCEPT ![o] = @ \ {q}], IF q < p THEN q ELSE p, o + 1]
    ELSE [lists |-> [f EXCEPT ![o] = @ \cup {p}], order |-> o]

(* free_pages grows by the merged block, the pages already free included.   *)
Clamp(n) == IF n > usable_pages THEN usable_pages ELSE n
Counted(m) == Clamp(free_pages + 2^m.order)

(* pmm_free of the block b. *)
Free(b) ==
    /\ b \in owned
    /\ b[1] >= FREE_MIN /\ b[1] < mem_end /\ b[1] \notin orders[b[2]]
    /\ LET m == Merged[orders, b[1], b[2]]
       IN orders' = m.lists /\ free_pages' = Counted(m)
    /\ owned' = owned \ {b}

BNext == \/ \E n \in 1..2^MAX_ORDER : Alloc(n) \/ \E l \in Limits : AllocBelow(n, l)
         \/ \E b \in owned : Free(b)
BSpec == BInit /\ [][BNext]_bvars
-----------------------------------------------------------------------------
(* No page is handed out twice and none is lost: the free blocks and those  *)
(* clients hold do not overlap, and together they are the pages that were   *)
(* free when pmm_init returned.  free_pages, which a free may raise by more *)
(* than it gives back, never claims fewer pages than are free.              *)
PagesAccounted ==
    /\ \A b, c \in FreeBlocks \cup owned : b # c => Span(b[1], b[2]) \cap Span(c[1], c[2]) = {}
    /\ FreeBlocks \cap owned = {}
    /\ Pages(FreeBlocks \cup owned) = Pages(Booted)
    /\ Cardinality(Pages(FreeBlocks)) <= free_pages /\ free_pages <= usable_pages
=============================================================================
