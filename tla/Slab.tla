-------------------------------- MODULE Slab --------------------------------
(***************************************************************************)
(* The slab allocator of src/util/slab.c: child pools of one parent, each  *)
(* used by one thread at a time, that hand out the elements of their pages *)
(* and may be given back elements of each other, also after the pool that  *)
(* owns the page has been destroyed.                                       *)
(*                                                                         *)
(* A thread is identified with the pool it calls slab_alloc and slab_free  *)
(* on. A section under parent->mutex is one action; so is what a thread    *)
(* does to its own free list, which no other thread reads. Pages are       *)
(* addresses: malloc may return one that has been freed before.            *)
(*                                                                         *)
(* The thread of a pool is "idle", in slab_alloc after the collection      *)
(* ("grow"), in slab_free before the mutex ("slow") or after it ("orphan"),*)
(* in slab_destroy_child after the mutex ("drain"), or its pool is "gone". *)
(***************************************************************************)
EXTENDS Integers, Sequences, FiniteSets

CONSTANTS
  Pools,        \* the child pools
  Pages,        \* bound: the addresses malloc returns pages at
  NumElements,  \* parent->num_elements
  Orphan,       \* owner of an element of an orphaned page
  None          \* no element

ASSUME SlabAssumption ==
  /\ NumElements \in Nat \ {0}
  /\ Orphan \notin Pools
  /\ IsFiniteSet(Pages)

\* slab_get_element(parent, page, i)
Elements == Pages \X (1..NumElements)
PageOf(e) == e[1]
ElementsOf(pg) == {pg} \X (1..NumElements)

ASSUME NoneAssumption == None \notin Elements

VARIABLES
  free, migrated,  \* of each pool: linked lists, the head first
  pages,           \* of each pool: the pages in its list
  owner,           \* elt->owner
  num_remaining,   \* page->u.num_remaining, meaningful for orphaned pages
  mapped,          \* the pages that are allocated memory
  allocated,       \* the elements the program has got from slab_alloc
  pc, elt          \* each pool's thread, and the element it is freeing

vars == <<free, migrated, pages, owner, num_remaining, mapped, allocated, pc,
          elt>>

Init ==
  /\ free = [p \in Pools |-> <<>>]
  /\ migrated = [p \in Pools |-> <<>>]
  /\ pages = [p \in Pools |-> {}]
  /\ owner = [e \in Elements |-> Orphan]
  /\ num_remaining = [pg \in Pages |-> 0]
  /\ mapped = {}
  /\ allocated = {}
  /\ pc = [p \in Pools |-> "idle"]
  /\ elt = [p \in Pools |-> None]

Goto(p, l) == pc' = [pc EXCEPT ![p] = l]

-----------------------------------------------------------------------------
(* slab_alloc *)

\* Take the head of the given free list.
Pop(p, list) ==
  /\ free' = [free EXCEPT ![p] = Tail(list)]
  /\ allocated' = allocated \cup {Head(list)}
  /\ Goto(p, "idle")

Alloc(p) ==
  /\ pc[p] = "idle" /\ free[p] # <<>>
  /\ Pop(p, free[p])
  /\ UNCHANGED <<migrated, pages, owner, num_remaining, mapped, elt>>

\* Faulty variant: the migrated list is not emptied.
CollectShared(p) ==
  /\ pc[p] = "idle" /\ free[p] = <<>>
  /\ free' = [free EXCEPT ![p] = migrated[p]]
  /\ Goto(p, "grow")
  /\ UNCHANGED <<migrated, pages, owner, num_remaining, mapped, allocated, elt>>

\* "First, collect elements that belong to us but were freed from a different
\* child pool", under the mutex.
Collect(p) ==
  /\ pc[p] = "idle" /\ free[p] = <<>>
  /\ free' = [free EXCEPT ![p] = migrated[p]]
  /\ migrated' = [migrated EXCEPT ![p] = <<>>]
  /\ Goto(p, "grow")
  /\ UNCHANGED <<pages, owner, num_remaining, mapped, allocated, elt>>

AllocCollected(p) ==
  /\ pc[p] = "grow" /\ free[p] # <<>>
  /\ Pop(p, free[p])
  /\ UNCHANGED <<migrated, pages, owner, num_remaining, mapped, elt>>

\* slab_add_new_page pushes the elements one by one, so the last comes first.
NewPageList(pg) == [i \in 1..NumElements |-> <<pg, NumElements + 1 - i>>]

AllocNewPage(p, pg) ==
  /\ pc[p] = "grow" /\ free[p] = <<>> /\ pg \notin mapped
  /\ mapped' = mapped \cup {pg}
  /\ owner' = [e \in Elements |-> IF PageOf(e) = pg THEN p ELSE owner[e]]
  /\ pages' = [pages EXCEPT ![p] = @ \cup {pg}]
  /\ Pop(p, NewPageList(pg))
  /\ UNCHANGED <<migrated, num_remaining, elt>>

\* malloc fails: slab_alloc returns NULL.
AllocFails(p) ==
  /\ pc[p] = "grow" /\ free[p] = <<>>
  /\ Goto(p, "idle")
  /\ UNCHANGED <<free, migrated, pages, owner, num_remaining, mapped,
                 allocated, elt>>

-----------------------------------------------------------------------------
(* slab_free *)

\* slab_free_orphaned for the elements of S, whose pages are orphaned.
Left(pg, S) == num_remaining[pg] - Cardinality({e \in S : PageOf(e) = pg})
FreeOrphaned(S) ==
  LET touched == {PageOf(e) : e \in S}
  IN  /\ num_remaining' = [pg \in Pages |-> Left(pg, S)]
      /\ mapped' = mapped \ {pg \in touched : Left(pg, S) = 0}

\* The test without the mutex: the element is ours, or take the slow path.
Free(p, e) ==
  /\ pc[p] = "idle" /\ e \in allocated
  /\ allocated' = allocated \ {e}
  /\ IF owner[e] = p
     THEN free' = [free EXCEPT ![p] = <<e>> \o @] /\ UNCHANGED <<pc, elt>>
     ELSE /\ elt' = [elt EXCEPT ![p] = e]
          /\ Goto(p, "slow")
          /\ UNCHANGED free
  /\ UNCHANGED <<migrated, pages, owner, num_remaining, mapped>>

\* Under the mutex: "we _must_ re-read elt->owner here".
FreeLocked(p) ==
  /\ pc[p] = "slow"
  /\ LET e == elt[p]
         q == owner[e]
     IN  IF q # Orphan
         THEN /\ migrated' = [migrated EXCEPT ![q] = <<e>> \o @]
              /\ elt' = [elt EXCEPT ![p] = None]
              /\ Goto(p, "idle")
         ELSE Goto(p, "orphan") /\ UNCHANGED <<migrated, elt>>
  /\ UNCHANGED <<free, pages, owner, num_remaining, mapped, allocated>>

FreeOrphan(p) ==
  /\ pc[p] = "orphan"
  /\ FreeOrphaned({elt[p]})
  /\ elt' = [elt EXCEPT ![p] = None]
  /\ Goto(p, "idle")
  /\ UNCHANGED <<free, migrated, pages, owner, allocated>>

-----------------------------------------------------------------------------
(* slab_destroy_child and slab_create_child *)

\* Faulty variants: the migrated elements are forgotten, the pages are freed at
\* once, and the elements keep their owner.
DestroyForgets(p) ==
  /\ pc[p] = "idle"
  /\ num_remaining' = [pg \in Pages |-> IF pg \in pages[p] THEN NumElements
                                                          ELSE num_remaining[pg]]
  /\ owner' = [e \in Elements |-> IF PageOf(e) \in pages[p] THEN Orphan ELSE owner[e]]
  /\ pages' = [pages EXCEPT ![p] = {}]
  /\ migrated' = [migrated EXCEPT ![p] = <<>>]
  /\ Goto(p, "drain")
  /\ UNCHANGED <<free, mapped, allocated, elt>>
DestroyFrees(p) ==
  /\ pc[p] = "idle"
  /\ mapped' = mapped \ pages[p]
  /\ owner' = [e \in Elements |-> IF PageOf(e) \in pages[p] THEN Orphan ELSE owner[e]]
  /\ pages' = [pages EXCEPT ![p] = {}]
  /\ migrated' = [migrated EXCEPT ![p] = <<>>]
  /\ free' = [free EXCEPT ![p] = <<>>]
  /\ Goto(p, "drain")
  /\ UNCHANGED <<num_remaining, allocated, elt>>
DestroyKeepsOwner(p) ==
  /\ pc[p] = "idle"
  /\ pages' = [pages EXCEPT ![p] = {}]
  /\ Goto(p, "drain")
  /\ UNCHANGED <<free, migrated, owner, num_remaining, mapped, allocated, elt>>

\* Under the mutex: orphan the pages, then give up the migrated elements.
DestroyLocked(p) ==
  /\ pc[p] = "idle"
  /\ LET M == {migrated[p][i] : i \in 1..Len(migrated[p])}
         Of(pg) == Cardinality({e \in M : PageOf(e) = pg})
         left == [pg \in Pages |->
                    (IF pg \in pages[p] THEN NumElements
                                        ELSE num_remaining[pg]) - Of(pg)]
     IN  /\ num_remaining' = left
         /\ mapped' = mapped \ {pg \in Pages : Of(pg) > 0 /\ left[pg] = 0}
  /\ owner' = [e \in Elements |-> IF PageOf(e) \in pages[p] THEN Orphan ELSE owner[e]]
  /\ pages' = [pages EXCEPT ![p] = {}]
  /\ migrated' = [migrated EXCEPT ![p] = <<>>]
  /\ Goto(p, "drain")
  /\ UNCHANGED <<free, allocated, elt>>

\* Without it: give up the free elements, one by one.
DrainFree(p) ==
  /\ pc[p] = "drain"
  /\ IF free[p] # <<>>
     THEN /\ FreeOrphaned({Head(free[p])})
          /\ free' = [free EXCEPT ![p] = Tail(@)]
          /\ UNCHANGED pc
     ELSE Goto(p, "gone") /\ UNCHANGED <<free, num_remaining, mapped>>
  /\ UNCHANGED <<migrated, pages, owner, allocated, elt>>

\* A new child pool at the same address.
Create(p) ==
  /\ pc[p] = "gone"
  /\ Goto(p, "idle")
  /\ UNCHANGED <<free, migrated, pages, owner, num_remaining, mapped,
                 allocated, elt>>

-----------------------------------------------------------------------------
Next ==
  \E p \in Pools :
    \/ Alloc(p) \/ Collect(p) \/ AllocCollected(p) \/ AllocFails(p)
    \/ \E pg \in Pages : AllocNewPage(p, pg)
    \/ \E e \in allocated : Free(p, e)
    \/ FreeLocked(p) \/ FreeOrphan(p)
    \/ DestroyLocked(p) \/ DrainFree(p) \/ Create(p)

Spec == Init /\ [][Next]_vars

-----------------------------------------------------------------------------
(* Properties *)

\* Where element e is: at a position of a list, with a thread that is freeing
\* it, or in the hands of the program.
ListHomes(name, lists, e) ==
  UNION {{<<name, p, i>> : i \in {k \in 1..Len(lists[p]) : lists[p][k] = e}} :
           p \in Pools}
Homes(e) ==
  ListHomes("free", free, e) \cup ListHomes("migrated", migrated, e)
    \cup {h \in {"thread"} \X Pools : elt[h[2]] = e}
    \cup {h \in {<<"program">>} : e \in allocated}

IsOrphaned(pg) == pg \in mapped /\ \A e \in ElementsOf(pg) : owner[e] = Orphan

\* slab_alloc never hands out an element that somebody else has or that sits
\* in a second list, and no element of a living pool's page gets lost.
OneHome ==
  \A e \in Elements :
    /\ Cardinality(Homes(e)) <= 1
    /\ owner[e] # Orphan => Homes(e) # {}

\* "They are eventually freed when all objects in them are freed", and not
\* before: the count of an orphaned page is the number of its elements that
\* are still to come, and the page is freed with the last of them.
OrphanCount ==
  \A pg \in Pages : IsOrphaned(pg) =>
    /\ num_remaining[pg] = Cardinality({e \in ElementsOf(pg) : Homes(e) # {}})
    /\ num_remaining[pg] > 0

\* Nobody holds or lists an element of a page that has been freed.
NoDangling ==
  \A e \in Elements : PageOf(e) \notin mapped => Homes(e) = {}

\* A destroyed pool is left alone: from the end of the destructor's critical
\* section on nothing is put into its lists, however late a slab_free on
\* another pool reads the owner, so its memory may be reused.
GoneIsUntouched ==
  \A p \in Pools :
    /\ pc[p] \in {"drain", "gone"} =>
         migrated[p] = <<>> /\ \A e \in Elements : owner[e] # p
    /\ pc[p] = "gone" => free[p] = <<>>
=============================================================================
