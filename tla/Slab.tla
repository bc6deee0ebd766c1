-------------------------------- MODULE Slab ---------------------------------
(***************************************************************************)
(* kmalloc and kfree for one size class (kernel/src/memory/pmm.c).          *)
(* g_slab_lock is let go while a new slab is made and before an empty one   *)
(* is given back, so that the calls of several CPUs interleave there.       *)
(* Requests above SLAB_MAX_SIZE go straight to the page allocator and are   *)
(* not in this module.                                                      *)
(***************************************************************************)
EXTENDS Naturals, FiniteSets

CONSTANTS CPUs, Slabs,      \* the pages that can become slabs
          NoSlab,
          Total             \* objects of a slab

ASSUME TotalAssumption == Total \in Nat \ {0}

VARIABLES used,             \* s->used: the objects of each slab that are handed out
          partial, full,    \* the lists of the cache
          page,             \* who has each page: "free", "made", "slab" or "empty"
          doing             \* of each CPU: "idle", "new", "give" and the slab

svars == <<used, partial, full, page, doing>>

SInit == /\ used = [s \in Slabs |-> 0]
         /\ partial = {} /\ full = {}
         /\ page = [s \in Slabs |-> "free"]
         /\ doing = [c \in CPUs |-> [at |-> "idle", slab |-> NoSlab]]

At(c, at, s) == doing' = [doing EXCEPT ![c] = [at |-> at, slab |-> s]]

(* An object of the first slab of the list is taken; a slab without another *)
(* moves to the other list.                                                 *)
TakeFrom(lst, s) ==
    /\ used' = [used EXCEPT ![s] = @ + 1]
    /\ IF used[s] + 1 = Total THEN partial' = lst \ {s} /\ full' = full \cup {s}
                              ELSE partial' = lst /\ full' = full

kmalloc(c) == /\ doing[c].at = "idle" /\ partial # {}
              /\ \E s \in partial : TakeFrom(partial, s)
              /\ UNCHANGED <<page, doing>>

(* No slab has a free object: the lock is let go and _slab_new asks for the *)
(* pages of one, which may not be there.                                    *)
kmalloc_new(c) == /\ doing[c].at = "idle" /\ partial = {}
                  /\ \E s \in Slabs : /\ page[s] = "free"
                                      /\ page' = [page EXCEPT ![s] = "made"]
                                      /\ At(c, "new", s)
                  /\ UNCHANGED <<used, partial, full>>

(* With the lock again: the new slab is the first of the list, and the      *)
(* object is taken from it.                                                 *)
kmalloc_push(c) == LET s == doing[c].slab IN
                   /\ doing[c].at = "new"
                   /\ page' = [page EXCEPT ![s] = "slab"]
                   /\ TakeFrom(partial \cup {s}, s)
                   /\ At(c, "idle", NoSlab)

(* kfree: a slab that was full is partial again, one that is empty leaves   *)
(* the list and its pages are given back without the lock.                  *)
PartialKeeps(s) == IF used[s] = Total THEN partial \cup {s} ELSE partial
PartialAfter(s) == (IF used[s] = Total THEN partial \cup {s} ELSE partial)
                   \ (IF used[s] = 1 THEN {s} ELSE {})
kfree(c, s) == /\ doing[c].at = "idle" /\ used[s] > 0
               /\ used' = [used EXCEPT ![s] = @ - 1]
               /\ full' = full \ {s}
               /\ partial' = PartialAfter(s)
               /\ IF used[s] = 1
                  THEN page' = [page EXCEPT ![s] = "empty"] /\ At(c, "give", s)
                  ELSE UNCHANGED <<page, doing>>
kfree_pages(c) == /\ doing[c].at = "give"
                  /\ page' = [page EXCEPT ![doing[c].slab] = "free"]
                  /\ At(c, "idle", NoSlab)
                  /\ UNCHANGED <<used, partial, full>>

SNext == \E c \in CPUs : \/ kmalloc(c) \/ kmalloc_new(c) \/ kmalloc_push(c) \/ kfree_pages(c)
                         \/ \E s \in Slabs : kfree(c, s)
SSpec == SInit /\ [][SNext]_svars
-----------------------------------------------------------------------------
(* The lists are what kmalloc relies on after it takes the lock again: a    *)
(* slab is on the partial list exactly if it has objects in use and objects *)
(* free, on the full list exactly if all are in use, and no page is on a    *)
(* list or holds an object once kfree has decided to give it back.          *)
SlabLists ==
    /\ partial = {s \in Slabs : page[s] = "slab" /\ used[s] \in 1 .. Total - 1}
    /\ full = {s \in Slabs : page[s] = "slab" /\ used[s] = Total}
    /\ \A s \in Slabs : page[s] # "slab" => used[s] = 0
=============================================================================
