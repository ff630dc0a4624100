----------------------------- MODULE SlabProofs -----------------------------
(***************************************************************************)
(* The invariants of module Slab, for any number of pools, pages and       *)
(* elements in a page.                                                     *)
(***************************************************************************)
EXTENDS Slab, FiniteSetTheorems, TLAPS

In(list, e) == \E i \in 1..Len(list) : list[i] = e

Distinct(list) == \A i, j \in 1..Len(list) : list[i] = list[j] => i = j

SlabPC == {"idle", "grow", "slow", "orphan", "drain", "gone"}

TypeOK ==
  /\ free \in [Pools -> Seq(Elements)] /\ migrated \in [Pools -> Seq(Elements)]
  /\ pages \in [Pools -> SUBSET Pages]
  /\ owner \in [Elements -> Pools \cup {Orphan}]
  /\ num_remaining \in [Pages -> Int]
  /\ mapped \in SUBSET Pages /\ allocated \in SUBSET Elements
  /\ pc \in [Pools -> SlabPC]
  /\ elt \in [Pools -> Elements \cup {None}]

\* No list holds an element twice.
DistinctLists == \A p \in Pools : Distinct(free[p]) /\ Distinct(migrated[p])

\* An element is in one list, with one thread, or with the program.
UniqueHomes ==
  \A e \in Elements, p, q \in Pools :
    /\ In(free[p], e) => ~In(migrated[q], e) /\ elt[q] # e /\ e \notin allocated
    /\ In(migrated[p], e) => elt[q] # e /\ e \notin allocated
    /\ elt[p] = e => e \notin allocated
    /\ In(free[p], e) /\ In(free[q], e) => p = q
    /\ In(migrated[p], e) /\ In(migrated[q], e) => p = q
    /\ elt[p] = e /\ elt[q] = e => p = q

HasHome(e) ==
  \/ e \in allocated
  \/ \E p \in Pools : In(free[p], e) \/ In(migrated[p], e) \/ elt[p] = e

\* A pool owns the elements of its pages, which are memory. What is in its
\* lists is its own, except in the destructor, which has orphaned it.
Owned ==
  /\ \A p \in Pools : pages[p] \subseteq mapped
  /\ \A p \in Pools, e \in Elements : owner[e] = p <=> PageOf(e) \in pages[p]
  /\ \A p \in Pools, e \in Elements : In(migrated[p], e) => owner[e] = p
  /\ \A p \in Pools, e \in Elements :
       In(free[p], e) => owner[e] = IF pc[p] = "drain" THEN Orphan ELSE p

\* Where each thread is: it has an element between the two halves of slab_free,
\* for an orphan it has read the owner; a pool in destruction has no pages and
\* no migrated elements, and a destroyed one has no free ones either.
ThreadPlaces ==
  \A p \in Pools :
    /\ elt[p] # None <=> pc[p] \in {"slow", "orphan"}
    /\ pc[p] = "orphan" => owner[elt[p]] = Orphan
    /\ pc[p] \in {"drain", "gone"} => pages[p] = {} /\ migrated[p] = <<>>
    /\ pc[p] = "gone" => free[p] = <<>>

\* An element that is anywhere is memory, and every element of a living pool is
\* somewhere.
Placed ==
  /\ \A e \in Elements : HasHome(e) => PageOf(e) \in mapped
  /\ \A e \in Elements : owner[e] # Orphan => HasHome(e)

Orphaned(pg) == pg \in mapped /\ \A p \in Pools : pg \notin pages[p]

Remaining(pg) == {e \in ElementsOf(pg) : HasHome(e)}

\* The count of an orphaned page is that of its elements still to come.
Counted ==
  \A pg \in Pages : Orphaned(pg) =>
    num_remaining[pg] = Cardinality(Remaining(pg)) /\ num_remaining[pg] > 0

IInv ==
  /\ TypeOK
  /\ DistinctLists
  /\ UniqueHomes
  /\ Owned
  /\ ThreadPlaces
  /\ Placed
  /\ Counted

-----------------------------------------------------------------------------
(* Lists and elements *)

\* Nothing is in the empty list.
LEMMA NothingIn == \A e : ~In(<<>>, e)
  BY DEF In

\* Taking the first element off a list.
LEMMA PopFacts ==
  ASSUME NEW S, NEW list \in Seq(S), list # <<>>, Distinct(list)
  PROVE  /\ Tail(list) \in Seq(S) /\ Distinct(Tail(list))
         /\ Head(list) \in S /\ In(list, Head(list))
         /\ \A e : In(Tail(list), e) <=> In(list, e) /\ e # Head(list)
<1>1. /\ Len(list) \in Nat \ {0} /\ Tail(list) \in Seq(S)
      /\ Len(Tail(list)) = Len(list) - 1
      /\ Head(list) = list[1] /\ list[1] \in S
      /\ \A i \in 1..Len(list)-1 : Tail(list)[i] = list[i + 1]
  OBVIOUS
<1>2. Distinct(Tail(list))
  BY <1>1 DEF Distinct
<1>3. In(list, Head(list))
  BY <1>1 DEF In
<1>4. ASSUME NEW e PROVE In(Tail(list), e) <=> In(list, e) /\ e # Head(list)
  <2>1. ASSUME In(Tail(list), e) PROVE In(list, e) /\ e # Head(list)
    <3>1. PICK i \in 1..Len(list)-1 : list[i + 1] = e
      BY <2>1, <1>1 DEF In
    <3>2. i + 1 \in 1..Len(list) /\ 1 \in 1..Len(list) /\ i + 1 # 1
      BY <1>1
    <3> QED
      BY <3>1, <3>2, <1>1 DEF In, Distinct
  <2>2. ASSUME In(list, e), e # Head(list) PROVE In(Tail(list), e)
    <3>1. PICK i \in 1..Len(list) : list[i] = e
      BY <2>2 DEF In
    <3>2. i - 1 \in 1..Len(list)-1 /\ (i - 1) + 1 = i
      BY <3>1, <2>2, <1>1
    <3> QED
      BY <3>1, <3>2, <1>1 DEF In
  <2> QED
    BY <2>1, <2>2
<1> QED
  BY <1>1, <1>2, <1>3, <1>4

\* Putting an element in front of a list.
LEMMA PushFacts ==
  ASSUME NEW S, NEW list \in Seq(S), NEW x \in S, Distinct(list), ~In(list, x)
  PROVE  /\ <<x>> \o list \in Seq(S) /\ Distinct(<<x>> \o list)
         /\ \A e : In(<<x>> \o list, e) <=> In(list, e) \/ e = x
<1> DEFINE new == <<x>> \o list
<1>1. /\ Len(list) \in Nat /\ new \in Seq(S) /\ Len(new) = Len(list) + 1
      /\ new[1] = x
      /\ \A i \in 2..Len(list)+1 : new[i] = list[i - 1]
  OBVIOUS
<1> HIDE DEF new
<1>2. \A i \in 1..Len(list) : i + 1 \in 2..Len(list)+1 /\ new[i + 1] = list[i]
  BY <1>1
<1>3. Distinct(new)
  <2>1. SUFFICES ASSUME NEW i \in 1..Len(list)+1, NEW j \in 1..Len(list)+1,
                        new[i] = new[j], i < j
                 PROVE  FALSE
    BY <1>1 DEF Distinct
  <2>2. j - 1 \in 1..Len(list) /\ new[j] = list[j - 1]
    BY <2>1, <1>1
  <2>3. CASE i = 1
    BY <2>1, <2>2, <2>3, <1>1 DEF In
  <2>4. CASE i # 1
    <3>1. i - 1 \in 1..Len(list) /\ new[i] = list[i - 1]
      BY <2>4, <1>1
    <3> QED
      BY <2>1, <2>2, <3>1 DEF Distinct
  <2> QED
    BY <2>3, <2>4
<1>4. ASSUME NEW e PROVE In(new, e) <=> In(list, e) \/ e = x
  <2>1. ASSUME In(new, e), e # x PROVE In(list, e)
    <3>1. PICK i \in 1..Len(list)+1 : new[i] = e
      BY <2>1, <1>1 DEF In
    <3>2. i - 1 \in 1..Len(list) /\ new[i] = list[i - 1]
      BY <3>1, <2>1, <1>1
    <3> QED
      BY <3>1, <3>2 DEF In
  <2>2. ASSUME In(list, e) PROVE In(new, e)
    <3>1. PICK i \in 1..Len(list) : list[i] = e
      BY <2>2 DEF In
    <3>2. i + 1 \in 1..Len(new) /\ new[i + 1] = e
      BY <3>1, <1>1, <1>2
    <3> QED
      BY <3>2 DEF In
  <2>3. In(new, x)
    BY <1>1 DEF In
  <2> QED
    BY <2>1, <2>2, <2>3
<1> QED
  BY <1>1, <1>3, <1>4 DEF new

\* The elements and their pages, from the assumptions.
LEMMA ElementFacts ==
  /\ \A e \in Elements : PageOf(e) \in Pages
  /\ \A pg \in Pages : \A e : e \in ElementsOf(pg) <=> e \in Elements /\ PageOf(e) = pg
  /\ None \notin Elements /\ Orphan \notin Pools
  BY SlabAssumption, NoneAssumption DEF Elements, PageOf, ElementsOf

\* A page has NumElements elements, at least one.
LEMMA PageFacts ==
  ASSUME NEW pg \in Pages
  PROVE  /\ IsFiniteSet(ElementsOf(pg)) /\ Cardinality(ElementsOf(pg)) = NumElements
         /\ NumElements \in Nat \ {0} /\ \E e \in Elements : PageOf(e) = pg
<1>1. NumElements \in Nat \ {0}
  BY SlabAssumption
<1>2. IsFiniteSet(1..NumElements) /\ Cardinality(1..NumElements) = NumElements
  BY <1>1, FS_Interval
<1>3. IsFiniteSet({pg}) /\ Cardinality({pg}) = 1
  BY FS_Singleton
<1>4. /\ IsFiniteSet(ElementsOf(pg))
      /\ Cardinality(ElementsOf(pg)) = 1 * NumElements
  BY <1>2, <1>3, FS_Product, ZenonT(40) DEF ElementsOf
<1>5. <<pg, 1>> \in Elements /\ PageOf(<<pg, 1>>) = pg
  BY <1>1 DEF Elements, PageOf
<1> QED
  BY <1>1, <1>4, <1>5

\* The elements of a page that are still out are finitely many.
LEMMA RemainingFacts ==
  ASSUME NEW pg \in Pages
  PROVE  IsFiniteSet(Remaining(pg)) /\ Cardinality(Remaining(pg)) \in Nat
<1>1. IsFiniteSet(ElementsOf(pg))
  BY PageFacts
<1>2. Remaining(pg) \subseteq ElementsOf(pg)
  BY DEF Remaining
<1> QED
  BY <1>1, <1>2, FS_Subset, FS_CardinalityType

\* slab_add_new_page lists the elements of the page.
LEMMA NewPageFacts ==
  ASSUME NEW pg \in Pages
  PROVE  /\ NewPageList(pg) \in Seq(Elements) /\ NewPageList(pg) # <<>>
         /\ Distinct(NewPageList(pg))
         /\ \A e : In(NewPageList(pg), e) <=> e \in ElementsOf(pg)
<1>1. NumElements \in Nat \ {0}
  BY SlabAssumption
<1>2. \A i \in 1..NumElements : NumElements + 1 - i \in 1..NumElements
  BY <1>1
<1>3. NewPageList(pg) \in Seq(Elements) /\ Len(NewPageList(pg)) = NumElements
  BY <1>1, <1>2 DEF NewPageList, Elements
<1>4. NewPageList(pg) # <<>>
  BY <1>1, <1>3
<1>5. \A i \in 1..NumElements : NewPageList(pg)[i] = <<pg, NumElements + 1 - i>>
  BY DEF NewPageList
<1>6. Distinct(NewPageList(pg))
  <2>1. SUFFICES ASSUME NEW i \in 1..NumElements, NEW j \in 1..NumElements,
                        <<pg, NumElements + 1 - i>> = <<pg, NumElements + 1 - j>>
                 PROVE  i = j
    BY <1>3, <1>5 DEF Distinct
  <2>2. NumElements + 1 - i = NumElements + 1 - j
    BY <2>1
  <2> QED
    BY <2>2, <1>1
<1>7. ASSUME NEW e PROVE In(NewPageList(pg), e) <=> e \in ElementsOf(pg)
  <2>1. ASSUME In(NewPageList(pg), e) PROVE e \in ElementsOf(pg)
    <3>1. PICK i \in 1..NumElements : NewPageList(pg)[i] = e
      BY <2>1, <1>3 DEF In
    <3>2. e = <<pg, NumElements + 1 - i>> /\ NumElements + 1 - i \in 1..NumElements
      BY <3>1, <1>2, <1>5
    <3> QED
      BY <3>2 DEF ElementsOf
  <2>2. ASSUME e \in ElementsOf(pg) PROVE In(NewPageList(pg), e)
    <3>1. PICK k \in 1..NumElements : e = <<pg, k>>
      BY <2>2 DEF ElementsOf
    <3> DEFINE i == NumElements + 1 - k
    <3>2. i \in 1..NumElements /\ NumElements + 1 - i = k
      BY <1>1
    <3> QED
      BY <3>1, <3>2, <1>3, <1>5 DEF In
  <2> QED
    BY <2>1, <2>2
<1> QED
  BY <1>3, <1>4, <1>6, <1>7

-----------------------------------------------------------------------------
(* Steps after which every element is still somewhere, or one is not *)

\* Elements move, but none is lost and no page changes hands.
LEMMA KeepAll ==
  ASSUME IInv, \A e \in Elements : HasHome(e)' <=> HasHome(e),
         UNCHANGED <<pages, owner, num_remaining, mapped>>
  PROVE  Placed' /\ Counted'
<1> USE DEF IInv
<1>1. Placed'
  BY DEF Placed
<1>2. \A pg \in Pages : Remaining(pg)' = Remaining(pg)
  BY ElementFacts DEF Remaining
<1>3. Counted'
  BY <1>2 DEF Counted, Orphaned
<1> QED
  BY <1>1, <1>3

\* slab_free_orphaned for an element that is an orphan and is nowhere else.
LEMMA LoseOne ==
  ASSUME IInv, NEW x \in Elements, HasHome(x), owner[x] = Orphan,
         FreeOrphaned({x}), UNCHANGED <<pages, owner>>,
         \A e \in Elements : HasHome(e)' <=> HasHome(e) /\ e # x
  PROVE  /\ num_remaining' \in [Pages -> Int] /\ mapped' \in SUBSET Pages
         /\ \A p \in Pools : pages[p] \subseteq mapped'
         /\ Placed' /\ Counted'
<1> USE DEF IInv
<1> DEFINE px == PageOf(x)
<1>1. px \in mapped /\ px \in Pages /\ num_remaining \in [Pages -> Int]
  BY ElementFacts DEF Placed, TypeOK
<1>2. Orphaned(px)
  BY <1>1, ElementFacts DEF Orphaned, Owned
<1>3. \A pg \in Pages : Left(pg, {x}) = IF pg = px THEN num_remaining[pg] - 1 ELSE num_remaining[pg]
  <2>1. SUFFICES ASSUME NEW pg \in Pages
                 PROVE Left(pg, {x}) = IF pg = px THEN num_remaining[pg] - 1 ELSE num_remaining[pg]
    OBVIOUS
  <2>2. CASE pg = px
    <3>1. {e \in {x} : PageOf(e) = pg} = {x}
      BY <2>2
    <3> QED
      BY <2>2, <3>1, FS_Singleton DEF Left
  <2>3. CASE pg # px
    <3>1. {e \in {x} : PageOf(e) = pg} = {}
      BY <2>3
    <3>2. Left(pg, {x}) = num_remaining[pg] - 0
      BY <3>1, FS_EmptySet DEF Left
    <3> QED
      BY <3>2, <2>3, <1>1
  <2> QED
    BY <2>2, <2>3
<1>4. /\ num_remaining' = [pg \in Pages |-> Left(pg, {x})]
      /\ mapped' = mapped \ {pg \in {px} : Left(pg, {x}) = 0}
  BY DEF FreeOrphaned
<1>5. \A pg \in Pages : num_remaining'[pg] = IF pg = px THEN num_remaining[pg] - 1 ELSE num_remaining[pg]
  BY <1>3, <1>4
<1>6. mapped' = IF num_remaining[px] = 1 THEN mapped \ {px} ELSE mapped
  BY <1>1, <1>3, <1>4
<1>7. num_remaining' \in [Pages -> Int]
  <2>1. \A pg \in Pages : Left(pg, {x}) \in Int
    BY <1>1, <1>3
  <2> QED
    BY <2>1, <1>4
<1>8. mapped' \in SUBSET Pages
  BY <1>6 DEF TypeOK
<1>9. \A p \in Pools : pages[p] \subseteq mapped'
  BY <1>2, <1>6 DEF Owned, Orphaned
<1>10. \A pg \in Pages : Remaining(pg)' = Remaining(pg) \ {x}
  BY ElementFacts DEF Remaining
<1>11. x \in Remaining(px) /\ \A pg \in Pages \ {px} : x \notin Remaining(pg)
  BY <1>1, ElementFacts DEF Remaining
<1>12. num_remaining[px] = Cardinality(Remaining(px)) /\ num_remaining[px] > 0
  BY <1>1, <1>2 DEF Counted
<1>13. Cardinality(Remaining(px)') = num_remaining[px] - 1
  BY <1>1, <1>10, <1>11, <1>12, RemainingFacts, FS_RemoveElement
<1>14. Placed'
  <2>1. ASSUME NEW e \in Elements, HasHome(e)' PROVE PageOf(e) \in mapped'
    <3>1. PageOf(e) \in mapped
      BY <2>1 DEF Placed
    <3>2. CASE PageOf(e) = px /\ num_remaining[px] = 1
      <4>1. e \in Remaining(px)'
        BY <2>1, <3>2, <1>1, ElementFacts DEF Remaining
      <4>2. Cardinality(Remaining(px)') = 0
        BY <1>13, <3>2
      <4>3. IsFiniteSet(Remaining(px)')
        BY <1>1, <1>10, RemainingFacts, FS_RemoveElement
      <4> QED
        BY <4>1, <4>2, <4>3, FS_EmptySet
    <3> QED
      BY <3>1, <3>2, <1>6
  <2>2. \A e \in Elements : owner'[e] # Orphan => HasHome(e)'
    BY DEF Placed
  <2> QED
    BY <2>1, <2>2 DEF Placed
<1>15. Counted'
  <2>1. SUFFICES ASSUME NEW pg \in Pages, Orphaned(pg)'
                 PROVE  /\ num_remaining'[pg] = Cardinality(Remaining(pg)')
                        /\ num_remaining'[pg] > 0
    BY DEF Counted
  <2>2. Orphaned(pg)
    BY <2>1, <1>6 DEF Orphaned
  <2>3. CASE pg = px
    <3>1. num_remaining[px] # 1
      BY <2>1, <2>3, <1>6 DEF Orphaned
    <3> QED
      BY <3>1, <2>3, <1>1, <1>5, <1>12, <1>13
  <2>4. CASE pg # px
    <3>1. Remaining(pg)' = Remaining(pg)
      BY <2>4, <1>10, <1>11
    <3> QED
      BY <3>1, <2>2, <2>4, <1>5 DEF Counted
  <2> QED
    BY <2>3, <2>4
<1> QED
  BY <1>7, <1>8, <1>9, <1>14, <1>15

-----------------------------------------------------------------------------
(* slab_alloc *)

\* The head of the free list goes to the program.
LEMMA PopStep ==
  ASSUME IInv, NEW p \in Pools, pc[p] \in {"idle", "grow"}, free[p] # <<>>,
         Pop(p, free[p]),
         UNCHANGED <<migrated, pages, owner, num_remaining, mapped, elt>>
  PROVE  IInv'
<1> USE DEF IInv
<1> DEFINE x == Head(free[p])
<1>1. free[p] \in Seq(Elements) /\ Distinct(free[p])
  BY DEF TypeOK, DistinctLists
<1>2. /\ Tail(free[p]) \in Seq(Elements) /\ Distinct(Tail(free[p]))
      /\ x \in Elements /\ In(free[p], x)
      /\ \A e : In(Tail(free[p]), e) <=> In(free[p], e) /\ e # x
  BY <1>1, PopFacts
<1>3. /\ free' = [free EXCEPT ![p] = Tail(free[p])]
      /\ allocated' = allocated \cup {x}
      /\ pc' = [pc EXCEPT ![p] = "idle"]
  BY DEF Pop, Goto
<1> HIDE DEF x
<1>4. /\ free'[p] = Tail(free[p]) /\ \A r \in Pools \ {p} : free'[r] = free[r]
      /\ pc'[p] = "idle" /\ \A r \in Pools \ {p} : pc'[r] = pc[r]
  BY <1>3 DEF TypeOK
<1>5. \A r \in Pools : \A e : In(free'[r], e) <=> In(free[r], e) /\ ~(r = p /\ e = x)
  BY <1>2, <1>4
<1>6. TypeOK'
  BY <1>2, <1>3 DEF TypeOK, SlabPC
<1>7. DistinctLists'
  BY <1>2, <1>4 DEF DistinctLists
<1>8. UniqueHomes'
  BY <1>2, <1>3, <1>5 DEF UniqueHomes
<1>9. Owned'
  BY <1>4, <1>5 DEF Owned
<1>10. ThreadPlaces'
  BY <1>4 DEF ThreadPlaces
<1>11. \A e \in Elements : HasHome(e)' <=> HasHome(e)
  BY <1>2, <1>3, <1>5 DEF HasHome
<1>12. Placed' /\ Counted'
  BY <1>11, KeepAll
<1> QED
  BY <1>6, <1>7, <1>8, <1>9, <1>10, <1>12

\* The migrated list becomes the free list.
LEMMA CollectStep ==
  ASSUME IInv, NEW p \in Pools, Collect(p)
  PROVE  IInv'
<1> USE DEF IInv
<1>1. /\ pc[p] = "idle" /\ free[p] = <<>>
      /\ free' = [free EXCEPT ![p] = migrated[p]]
      /\ migrated' = [migrated EXCEPT ![p] = <<>>]
      /\ pc' = [pc EXCEPT ![p] = "grow"]
      /\ UNCHANGED <<pages, owner, num_remaining, mapped, allocated, elt>>
  BY DEF Collect, Goto
<1>2. /\ free'[p] = migrated[p] /\ migrated'[p] = <<>> /\ pc'[p] = "grow"
      /\ \A r \in Pools \ {p} :
           free'[r] = free[r] /\ migrated'[r] = migrated[r] /\ pc'[r] = pc[r]
  BY <1>1 DEF TypeOK
<1>3. TypeOK'
  BY <1>1 DEF TypeOK, SlabPC
<1>4. DistinctLists'
  BY <1>2 DEF DistinctLists, Distinct
<1>5. /\ \A r \in Pools : \A e : In(free'[r], e) <=> IF r = p THEN In(migrated[p], e) ELSE In(free[r], e)
      /\ \A r \in Pools : \A e : In(migrated'[r], e) <=> In(migrated[r], e) /\ r # p
      /\ \A e : ~In(free[p], e)
  BY <1>1, <1>2, NothingIn
<1>6. UniqueHomes'
  <2>1. SUFFICES ASSUME NEW e \in Elements, NEW q \in Pools, NEW r \in Pools
                 PROVE  /\ In(free'[q], e) => ~In(migrated'[r], e) /\ elt[r] # e /\ e \notin allocated
                        /\ In(migrated'[q], e) => elt[r] # e /\ e \notin allocated
                        /\ elt[q] = e => e \notin allocated
                        /\ In(free'[q], e) /\ In(free'[r], e) => q = r
                        /\ In(migrated'[q], e) /\ In(migrated'[r], e) => q = r
                        /\ elt[q] = e /\ elt[r] = e => q = r
    BY <1>1 DEF UniqueHomes
  <2> QED
    BY <1>5 DEF UniqueHomes
<1>7. Owned'
  BY <1>1, <1>2, <1>5 DEF Owned
<1>8. ThreadPlaces'
  BY <1>1, <1>2 DEF ThreadPlaces
<1>9. \A e \in Elements : HasHome(e)' <=> HasHome(e)
  BY <1>1, <1>5 DEF HasHome
<1>10. Placed' /\ Counted'
  BY <1>1, <1>9, KeepAll
<1> QED
  BY <1>3, <1>4, <1>6, <1>7, <1>8, <1>10

\* Only the thread's place changes.
LEMMA PlaceStep ==
  ASSUME IInv, NEW p \in Pools, NEW l \in {"idle", "gone"}, Goto(p, l),
         pc[p] \in {"grow", "gone", "drain"},
         l = "idle" => pc[p] # "drain",
         pc[p] = "drain" \/ l = "gone" => pc[p] = "drain" /\ free[p] = <<>>,
         UNCHANGED <<free, migrated, pages, owner, num_remaining, mapped,
                     allocated, elt>>
  PROVE  IInv'
<1> USE DEF IInv
<1>1. pc'[p] = l /\ \A r \in Pools \ {p} : pc'[r] = pc[r]
  BY DEF TypeOK, Goto
<1>2. TypeOK'
  BY DEF TypeOK, SlabPC, Goto
<1>3. DistinctLists' /\ UniqueHomes'
  BY DEF DistinctLists, UniqueHomes
<1>4. Owned'
  BY <1>1, NothingIn DEF Owned
<1>5. ThreadPlaces'
  BY <1>1 DEF ThreadPlaces
<1>6. \A e \in Elements : HasHome(e)' <=> HasHome(e)
  BY DEF HasHome
<1>7. Placed' /\ Counted'
  BY <1>6, KeepAll
<1> QED
  BY <1>2, <1>3, <1>4, <1>5, <1>7

\* The elements of a page that was no memory were nowhere and nobody's.
LEMMA NewPageStep ==
  ASSUME IInv, NEW p \in Pools, NEW pg \in Pages, AllocNewPage(p, pg)
  PROVE  IInv'
<1> USE DEF IInv
<1> DEFINE list == NewPageList(pg)
           x == Head(list)
<1>1. /\ list \in Seq(Elements) /\ list # <<>> /\ Distinct(list)
      /\ \A e : In(list, e) <=> e \in ElementsOf(pg)
  BY NewPageFacts
<1>2. /\ Tail(list) \in Seq(Elements) /\ Distinct(Tail(list)) /\ x \in ElementsOf(pg)
      /\ \A e : In(Tail(list), e) <=> e \in ElementsOf(pg) /\ e # x
  BY <1>1, PopFacts
<1>3. /\ pc[p] = "grow" /\ free[p] = <<>> /\ pg \notin mapped
      /\ mapped' = mapped \cup {pg}
      /\ owner' = [e \in Elements |-> IF PageOf(e) = pg THEN p ELSE owner[e]]
      /\ pages' = [pages EXCEPT ![p] = pages[p] \cup {pg}]
      /\ free' = [free EXCEPT ![p] = Tail(list)]
      /\ allocated' = allocated \cup {x}
      /\ pc' = [pc EXCEPT ![p] = "idle"]
      /\ UNCHANGED <<migrated, num_remaining, elt>>
  BY DEF AllocNewPage, Pop, Goto
<1> HIDE DEF list, x
<1>4. /\ free'[p] = Tail(list) /\ \A r \in Pools \ {p} : free'[r] = free[r]
      /\ pc'[p] = "idle" /\ \A r \in Pools \ {p} : pc'[r] = pc[r]
      /\ pages'[p] = pages[p] \cup {pg} /\ \A r \in Pools \ {p} : pages'[r] = pages[r]
      /\ \A e \in Elements : owner'[e] = IF PageOf(e) = pg THEN p ELSE owner[e]
  BY <1>3 DEF TypeOK
<1>5. /\ \A e : e \in ElementsOf(pg) <=> e \in Elements /\ PageOf(e) = pg
      /\ None \notin Elements /\ Orphan \notin Pools
  BY ElementFacts
<1>6. /\ \A e \in Elements : PageOf(e) = pg => ~HasHome(e)
      /\ \A r \in Pools : pg \notin pages[r]
      /\ \A e \in Elements : PageOf(e) = pg => owner[e] = Orphan
  BY <1>3 DEF Placed, Owned, TypeOK
<1>7. \A r \in Pools : \A e : In(free'[r], e) <=>
         \/ In(free[r], e)
         \/ r = p /\ e \in ElementsOf(pg) /\ e # x
  BY <1>2, <1>3, <1>4, NothingIn, ZenonT(40)
<1>8. TypeOK'
  BY <1>2, <1>3, <1>5 DEF TypeOK, SlabPC
<1>9. DistinctLists'
  BY <1>2, <1>3, <1>4 DEF DistinctLists
<1>10. \A e \in Elements, r \in Pools :
         /\ In(free[r], e) => HasHome(e) /\ In(free'[r], e)
         /\ In(migrated[r], e) => HasHome(e)
         /\ elt[r] = e => HasHome(e)
         /\ e \in allocated => HasHome(e)
  BY <1>7 DEF HasHome
<1>11. UniqueHomes'
  <2>1. SUFFICES ASSUME NEW e \in Elements, NEW q \in Pools, NEW r \in Pools
                 PROVE  /\ In(free'[q], e) => ~In(migrated[r], e) /\ elt[r] # e /\ e \notin allocated'
                        /\ In(migrated[q], e) => elt[r] # e /\ e \notin allocated'
                        /\ elt[q] = e => e \notin allocated'
                        /\ In(free'[q], e) /\ In(free'[r], e) => q = r
                        /\ In(migrated[q], e) /\ In(migrated[r], e) => q = r
                        /\ elt[q] = e /\ elt[r] = e => q = r
    BY <1>3 DEF UniqueHomes
  <2>2. CASE PageOf(e) = pg
    BY <2>2, <1>2, <1>3, <1>6, <1>7, <1>10
  <2>3. CASE PageOf(e) # pg
    BY <2>3, <1>2, <1>3, <1>5, <1>7 DEF UniqueHomes
  <2> QED
    BY <2>2, <2>3
<1>12. Owned'
  <2>1. \A r \in Pools : pages'[r] \subseteq mapped'
    BY <1>3, <1>4 DEF Owned
  <2>2. \A r \in Pools, e \in Elements : owner'[e] = r <=> PageOf(e) \in pages'[r]
    BY <1>4, <1>6 DEF Owned
  <2>3. \A r \in Pools, e \in Elements : In(migrated[r], e) => owner'[e] = r
    BY <1>4, <1>6, <1>10 DEF Owned
  <2>4. \A r \in Pools, e \in Elements :
          In(free'[r], e) => owner'[e] = IF pc'[r] = "drain" THEN Orphan ELSE r
    BY <1>3, <1>4, <1>5, <1>6, <1>7, <1>10 DEF Owned
  <2> QED
    BY <2>1, <2>2, <2>3, <2>4, <1>3 DEF Owned
<1>13. ThreadPlaces'
  <2>1. \A r \in Pools : pc[r] = "orphan" => elt[r] \in Elements /\ HasHome(elt[r])
    BY <1>5 DEF ThreadPlaces, TypeOK, HasHome
  <2> QED
    BY <2>1, <1>3, <1>4, <1>6 DEF ThreadPlaces
<1>14. \A e \in Elements : HasHome(e)' <=> HasHome(e) \/ PageOf(e) = pg
  BY <1>2, <1>3, <1>5, <1>7 DEF HasHome
<1>15. Placed'
  BY <1>3, <1>4, <1>14 DEF Placed
<1>16. Counted'
  <2>1. SUFFICES ASSUME NEW g \in Pages, Orphaned(g)'
                 PROVE  /\ num_remaining[g] = Cardinality(Remaining(g)')
                        /\ num_remaining[g] > 0
    BY <1>3 DEF Counted
  <2>2. g # pg /\ Orphaned(g)
    BY <2>1, <1>3, <1>4 DEF Orphaned
  <2>3. Remaining(g)' = Remaining(g)
    BY <2>2, <1>14, ElementFacts DEF Remaining
  <2> QED
    BY <2>2, <2>3 DEF Counted
<1> QED
  BY <1>8, <1>9, <1>11, <1>12, <1>13, <1>15, <1>16

-----------------------------------------------------------------------------
(* slab_free *)

\* slab_free to the caller's own pool, or the way to the lock.
LEMMA FreeStep ==
  ASSUME IInv, NEW p \in Pools, NEW x \in allocated, Free(p, x)
  PROVE  IInv'
<1> USE DEF IInv
<1>1. /\ pc[p] = "idle" /\ x \in Elements /\ x # None /\ elt[p] = None
      /\ allocated' = allocated \ {x}
      /\ UNCHANGED <<migrated, pages, owner, num_remaining, mapped>>
  BY ElementFacts DEF Free, TypeOK, ThreadPlaces
<1>2. \A r \in Pools : ~In(free[r], x) /\ ~In(migrated[r], x) /\ elt[r] # x
  BY <1>1 DEF UniqueHomes
<1>3. CASE owner[x] = p
  <2>1. free' = [free EXCEPT ![p] = <<x>> \o free[p]] /\ UNCHANGED <<pc, elt>>
    BY <1>3 DEF Free
  <2>2. /\ <<x>> \o free[p] \in Seq(Elements) /\ Distinct(<<x>> \o free[p])
        /\ \A e : In(<<x>> \o free[p], e) <=> In(free[p], e) \/ e = x
    BY <1>1, <1>2, PushFacts DEF TypeOK, DistinctLists
  <2>3. free'[p] = <<x>> \o free[p] /\ \A r \in Pools \ {p} : free'[r] = free[r]
    BY <2>1 DEF TypeOK
  <2>4. \A r \in Pools : \A e : In(free'[r], e) <=> In(free[r], e) \/ (r = p /\ e = x)
    BY <2>2, <2>3
  <2>5. TypeOK'
    BY <1>1, <2>1, <2>2 DEF TypeOK
  <2>6. DistinctLists'
    BY <1>1, <2>2, <2>3 DEF DistinctLists
  <2>7. UniqueHomes'
    <3>1. SUFFICES ASSUME NEW e \in Elements, NEW q \in Pools, NEW r \in Pools
                   PROVE  /\ In(free'[q], e) => ~In(migrated[r], e) /\ elt[r] # e /\ e \notin allocated'
                          /\ In(migrated[q], e) => elt[r] # e /\ e \notin allocated'
                          /\ elt[q] = e => e \notin allocated'
                          /\ In(free'[q], e) /\ In(free'[r], e) => q = r
                          /\ In(migrated[q], e) /\ In(migrated[r], e) => q = r
                          /\ elt[q] = e /\ elt[r] = e => q = r
      BY <1>1, <2>1 DEF UniqueHomes
    <3>2. CASE e = x
      BY <3>2, <1>1, <1>2, <2>4
    <3>3. CASE e # x
      BY <3>3, <1>1, <2>4 DEF UniqueHomes
    <3> QED
      BY <3>2, <3>3
  <2>8. Owned'
    BY <1>1, <1>3, <2>1, <2>4 DEF Owned
  <2>9. ThreadPlaces'
    BY <1>1, <2>1, <2>3 DEF ThreadPlaces
  <2>10. \A e \in Elements : HasHome(e)' <=> HasHome(e)
    BY <1>1, <2>1, <2>4 DEF HasHome
  <2>11. Placed' /\ Counted'
    BY <1>1, <2>10, KeepAll
  <2> QED
    BY <2>5, <2>6, <2>7, <2>8, <2>9, <2>11
<1>4. CASE owner[x] # p
  <2>1. /\ elt' = [elt EXCEPT ![p] = x] /\ pc' = [pc EXCEPT ![p] = "slow"]
        /\ UNCHANGED free
    BY <1>4 DEF Free, Goto
  <2>2. /\ elt'[p] = x /\ \A r \in Pools \ {p} : elt'[r] = elt[r]
        /\ pc'[p] = "slow" /\ \A r \in Pools \ {p} : pc'[r] = pc[r]
    BY <2>1 DEF TypeOK
  <2>3. TypeOK'
    BY <1>1, <2>1 DEF TypeOK, SlabPC
  <2>4. DistinctLists'
    BY <1>1, <2>1 DEF DistinctLists
  <2>5. UniqueHomes'
    BY <1>1, <1>2, <2>1, <2>2 DEF UniqueHomes
  <2>6. Owned'
    BY <1>1, <2>1, <2>2 DEF Owned
  <2>7. ThreadPlaces'
    BY <1>1, <2>1, <2>2 DEF ThreadPlaces
  <2>8. \A e \in Elements : HasHome(e)' <=> HasHome(e)
    BY <1>1, <2>1, <2>2, ElementFacts DEF HasHome
  <2>9. Placed' /\ Counted'
    BY <1>1, <2>8, KeepAll
  <2> QED
    BY <2>3, <2>4, <2>5, <2>6, <2>7, <2>9
<1> QED
  BY <1>3, <1>4

\* The owner that is read under the mutex is a pool that still collects what
\* migrates to it, because a pool in destruction owns nothing.
LEMMA FreeLockedStep ==
  ASSUME IInv, NEW p \in Pools, FreeLocked(p)
  PROVE  IInv'
<1> USE DEF IInv
<1> DEFINE x == elt[p]
           q == owner[x]
<1>1. /\ pc[p] = "slow" /\ x \in Elements /\ x # None
      /\ UNCHANGED <<free, pages, owner, num_remaining, mapped, allocated>>
  BY DEF FreeLocked, TypeOK, ThreadPlaces
<1>2. /\ \A r \in Pools : ~In(free[r], x) /\ ~In(migrated[r], x)
      /\ \A r \in Pools \ {p} : elt[r] # x
      /\ x \notin allocated
  BY <1>1 DEF UniqueHomes
<1>3. CASE q # Orphan
  <2>1. /\ migrated' = [migrated EXCEPT ![q] = <<x>> \o migrated[q]]
        /\ elt' = [elt EXCEPT ![p] = None]
        /\ pc' = [pc EXCEPT ![p] = "idle"]
    BY <1>3 DEF FreeLocked, Goto
  <2>2. q \in Pools
    BY <1>1, <1>3 DEF TypeOK
  <2>3. pages[q] # {}
    BY <1>1, <2>2 DEF Owned
  <2> HIDE DEF q
  <2>4. /\ <<x>> \o migrated[q] \in Seq(Elements) /\ Distinct(<<x>> \o migrated[q])
        /\ \A e : In(<<x>> \o migrated[q], e) <=> In(migrated[q], e) \/ e = x
    BY <1>1, <1>2, <2>2, PushFacts DEF TypeOK, DistinctLists
  <2>5. /\ migrated'[q] = <<x>> \o migrated[q]
        /\ \A r \in Pools \ {q} : migrated'[r] = migrated[r]
        /\ elt'[p] = None /\ \A r \in Pools \ {p} : elt'[r] = elt[r]
        /\ pc'[p] = "idle" /\ \A r \in Pools \ {p} : pc'[r] = pc[r]
    BY <2>1, <2>2 DEF TypeOK
  <2>6. \A r \in Pools : \A e : In(migrated'[r], e) <=> In(migrated[r], e) \/ (r = q /\ e = x)
    BY <2>4, <2>5
  <2>7. TypeOK'
    BY <1>1, <2>1, <2>2, <2>4 DEF TypeOK, SlabPC
  <2>8. DistinctLists'
    BY <1>1, <2>4, <2>5 DEF DistinctLists
  <2>9. UniqueHomes'
    BY <1>1, <1>2, <2>5, <2>6, ElementFacts DEF UniqueHomes
  <2>10. Owned'
    BY <1>1, <2>5, <2>6 DEF Owned, q
  <2>11. ThreadPlaces'
    BY <1>1, <2>3, <2>5 DEF ThreadPlaces
  <2>12. \A e \in Elements : HasHome(e)' <=> HasHome(e)
    BY <1>1, <2>2, <2>5, <2>6, ElementFacts, ZenonT(40) DEF HasHome
  <2>13. Placed' /\ Counted'
    BY <1>1, <2>12, KeepAll
  <2> QED
    BY <2>7, <2>8, <2>9, <2>10, <2>11, <2>13
<1>4. CASE q = Orphan
  <2>1. pc' = [pc EXCEPT ![p] = "orphan"] /\ UNCHANGED <<migrated, elt>>
    BY <1>4 DEF FreeLocked, Goto
  <2>2. pc'[p] = "orphan" /\ \A r \in Pools \ {p} : pc'[r] = pc[r]
    BY <2>1 DEF TypeOK
  <2>3. TypeOK'
    BY <1>1, <2>1 DEF TypeOK, SlabPC
  <2>4. DistinctLists' /\ UniqueHomes'
    BY <1>1, <2>1 DEF DistinctLists, UniqueHomes
  <2>5. Owned' /\ ThreadPlaces'
    BY <1>1, <1>4, <2>1, <2>2 DEF Owned, ThreadPlaces
  <2>6. \A e \in Elements : HasHome(e)' <=> HasHome(e)
    BY <1>1, <2>1 DEF HasHome
  <2>7. Placed' /\ Counted'
    BY <1>1, <2>6, KeepAll
  <2> QED
    BY <2>3, <2>4, <2>5, <2>7
<1> QED
  BY <1>3, <1>4

\* slab_free of an element whose pool is gone.
LEMMA FreeOrphanStep ==
  ASSUME IInv, NEW p \in Pools, FreeOrphan(p)
  PROVE  IInv'
<1> USE DEF IInv
<1> DEFINE x == elt[p]
<1>1. /\ pc[p] = "orphan" /\ x \in Elements /\ owner[x] = Orphan
      /\ FreeOrphaned({x})
      /\ elt' = [elt EXCEPT ![p] = None] /\ pc' = [pc EXCEPT ![p] = "idle"]
      /\ UNCHANGED <<free, migrated, pages, owner, allocated>>
  BY DEF FreeOrphan, Goto, TypeOK, ThreadPlaces
<1>2. /\ \A r \in Pools : ~In(free[r], x) /\ ~In(migrated[r], x)
      /\ \A r \in Pools \ {p} : elt[r] # x
      /\ x \notin allocated
  BY <1>1 DEF UniqueHomes
<1>3. /\ elt'[p] = None /\ \A r \in Pools \ {p} : elt'[r] = elt[r]
      /\ pc'[p] = "idle" /\ \A r \in Pools \ {p} : pc'[r] = pc[r]
  BY <1>1 DEF TypeOK
<1>4. HasHome(x) /\ \A e \in Elements : HasHome(e)' <=> HasHome(e) /\ e # x
  BY <1>1, <1>2, <1>3, ElementFacts DEF HasHome
<1>5. /\ num_remaining' \in [Pages -> Int] /\ mapped' \in SUBSET Pages
      /\ \A r \in Pools : pages[r] \subseteq mapped'
      /\ Placed' /\ Counted'
  BY <1>1, <1>4, LoseOne
<1>6. TypeOK'
  BY <1>1, <1>5 DEF TypeOK, SlabPC
<1>7. DistinctLists'
  BY <1>1 DEF DistinctLists
<1>8. UniqueHomes'
  BY <1>1, <1>3, ElementFacts DEF UniqueHomes
<1>9. Owned'
  BY <1>1, <1>3, <1>5 DEF Owned
<1>10. ThreadPlaces'
  BY <1>1, <1>3 DEF ThreadPlaces
<1> QED
  BY <1>5, <1>6, <1>7, <1>8, <1>9, <1>10

-----------------------------------------------------------------------------
(* slab_destroy_child *)

\* The pages become orphans that wait for all their elements but the migrated
\* ones, which are given up at once.
LEMMA DestroyLockedStep ==
  ASSUME IInv, NEW p \in Pools, DestroyLocked(p)
  PROVE  IInv'
<1> USE DEF IInv
<1> DEFINE Mig(pg) == {e \in ElementsOf(pg) : In(migrated[p], e)}
           left(pg) == (IF pg \in pages[p] THEN NumElements ELSE num_remaining[pg])
                         - Cardinality(Mig(pg))
<1>1. /\ pc[p] = "idle"
      /\ owner' = [e \in Elements |-> IF PageOf(e) \in pages[p] THEN Orphan ELSE owner[e]]
      /\ pages' = [pages EXCEPT ![p] = {}]
      /\ migrated' = [migrated EXCEPT ![p] = <<>>]
      /\ pc' = [pc EXCEPT ![p] = "drain"]
      /\ UNCHANGED <<free, allocated, elt>>
  BY DEF DestroyLocked, Goto
<1>2. /\ num_remaining' = [pg \in Pages |-> left(pg)]
      /\ mapped' = mapped \ {pg \in Pages : Cardinality(Mig(pg)) > 0 /\ left(pg) = 0}
  <2> DEFINE M == {migrated[p][i] : i \in 1..Len(migrated[p])}
             Of(pg) == Cardinality({e \in M : PageOf(e) = pg})
             lft == [pg \in Pages |->
                      (IF pg \in pages[p] THEN NumElements ELSE num_remaining[pg]) - Of(pg)]
  <2>1. /\ num_remaining' = lft
        /\ mapped' = mapped \ {pg \in Pages : Of(pg) > 0 /\ lft[pg] = 0}
    BY DEF DestroyLocked
  <2>2. \A e : e \in M <=> In(migrated[p], e)
    BY DEF In
  <2>3. M \subseteq Elements
    BY DEF TypeOK
  <2> HIDE DEF M
  <2>4. \A pg \in Pages : {e \in M : PageOf(e) = pg} = Mig(pg)
    BY <2>2, <2>3, ElementFacts
  <2>5. \A pg \in Pages : Of(pg) = Cardinality(Mig(pg))
    BY <2>4
  <2>6. \A pg \in Pages : lft[pg] = left(pg)
    BY <2>5
  <2> QED
    BY <2>1, <2>5, <2>6
<1>3. /\ migrated'[p] = <<>> /\ \A r \in Pools \ {p} : migrated'[r] = migrated[r]
      /\ pages'[p] = {} /\ \A r \in Pools \ {p} : pages'[r] = pages[r]
      /\ pc'[p] = "drain" /\ \A r \in Pools \ {p} : pc'[r] = pc[r]
      /\ \A e \in Elements : owner'[e] = IF PageOf(e) \in pages[p] THEN Orphan ELSE owner[e]
  BY <1>1 DEF TypeOK
<1>4. \A r \in Pools : \A e : In(migrated'[r], e) <=> In(migrated[r], e) /\ r # p
  BY <1>3, NothingIn
<1>5. \A pg \in Pages : /\ IsFiniteSet(ElementsOf(pg)) /\ Cardinality(ElementsOf(pg)) = NumElements
                        /\ NumElements \in Nat \ {0} /\ \E e \in Elements : PageOf(e) = pg
  BY PageFacts
<1>6. \A pg \in Pages : IsFiniteSet(Mig(pg)) /\ Cardinality(Mig(pg)) \in Nat
  <2>1. SUFFICES ASSUME NEW pg \in Pages
                 PROVE  IsFiniteSet(Mig(pg)) /\ Cardinality(Mig(pg)) \in Nat
    OBVIOUS
  <2>2. Mig(pg) \in SUBSET ElementsOf(pg)
    OBVIOUS
  <2> HIDE DEF Mig
  <2> QED
    BY <2>2, <1>5, FS_Subset, FS_CardinalityType
<1>7. \A pg \in Pages \ pages[p] : Mig(pg) = {} /\ Cardinality(Mig(pg)) = 0
  <2>1. SUFFICES ASSUME NEW pg \in Pages \ pages[p] PROVE Mig(pg) = {}
    BY FS_EmptySet
  <2> QED
    BY ElementFacts DEF Owned
<1>8. \A pg \in Pages \ pages[p] : left(pg) = num_remaining[pg]
  <2>1. SUFFICES ASSUME NEW pg \in Pages \ pages[p] PROVE left(pg) = num_remaining[pg]
    OBVIOUS
  <2>2. left(pg) = num_remaining[pg] - 0
    BY <1>7
  <2> QED
    BY <2>2 DEF TypeOK
<1>9. \A pg \in pages[p] : left(pg) = NumElements - Cardinality(Mig(pg))
  OBVIOUS
<1>10. \A e \in Elements : HasHome(e)' <=> HasHome(e) /\ ~In(migrated[p], e)
  <2>1. SUFFICES ASSUME NEW e \in Elements
                 PROVE  HasHome(e)' <=> HasHome(e) /\ ~In(migrated[p], e)
    OBVIOUS
  <2>2. CASE In(migrated[p], e)
    BY <2>2, <1>1, <1>4 DEF HasHome, UniqueHomes
  <2>3. CASE ~In(migrated[p], e)
    BY <2>3, <1>1, <1>4 DEF HasHome
  <2> QED
    BY <2>2, <2>3
<1>11. \A pg \in pages[p] : pg \in Pages /\ Cardinality(Remaining(pg)') = left(pg)
                            /\ IsFiniteSet(Remaining(pg)')
  <2>1. SUFFICES ASSUME NEW pg \in pages[p]
                 PROVE  pg \in Pages /\ Cardinality(Remaining(pg)') = left(pg)
                        /\ IsFiniteSet(Remaining(pg)')
    OBVIOUS
  <2>2. pg \in Pages
    BY DEF TypeOK
  <2>3. \A e \in ElementsOf(pg) : e \in Elements /\ HasHome(e)
    BY <2>2, ElementFacts DEF Owned, Placed
  <2>4. Remaining(pg)' = ElementsOf(pg) \ Mig(pg)
    BY <2>3, <1>10 DEF Remaining
  <2>5. ElementsOf(pg) \cap Mig(pg) = Mig(pg)
    OBVIOUS
  <2> HIDE DEF Mig
  <2>6. /\ IsFiniteSet(ElementsOf(pg) \ Mig(pg))
        /\ Cardinality(ElementsOf(pg) \ Mig(pg)) = NumElements - Cardinality(Mig(pg))
    <3>1. PICK s, t : s = ElementsOf(pg) /\ t = Mig(pg)
      OBVIOUS
    <3>2. IsFiniteSet(s) /\ Cardinality(s) = NumElements
      BY <2>2, <3>1, <1>5
    <3>3. s \cap t = t
      BY <2>5, <3>1
    <3>4. /\ IsFiniteSet(s \ t)
          /\ Cardinality(s \ t) = Cardinality(s) - Cardinality(s \cap t)
      BY <3>2, FS_Difference
    <3> QED
      BY <3>1, <3>2, <3>3, <3>4
  <2> QED
    BY <2>2, <2>4, <2>6, <1>9
<1>12. \A pg \in Pages \ pages[p] : Remaining(pg)' = Remaining(pg)
  <2>1. SUFFICES ASSUME NEW pg \in Pages \ pages[p], NEW e \in ElementsOf(pg)
                 PROVE  HasHome(e)' <=> HasHome(e)
    BY DEF Remaining
  <2>2. e \in Elements /\ ~In(migrated[p], e)
    BY ElementFacts DEF Owned
  <2> QED
    BY <2>2, <1>10
<1>13. \A pg \in mapped \ mapped' : pg \in pages[p] /\ left(pg) = 0
  BY <1>2, <1>7
<1>14. \A pg \in pages[p] : pg \in mapped' => left(pg) > 0
  <2>1. SUFFICES ASSUME NEW pg \in pages[p], pg \in mapped' PROVE left(pg) > 0
    OBVIOUS
  <2>2. pg \in Pages
    BY DEF TypeOK
  <2>3. left(pg) \in Int /\ left(pg) >= 0
    <3>1. Cardinality(Remaining(pg)') \in Nat
      BY <1>11, FS_CardinalityType
    <3> QED
      BY <3>1, <1>11
  <2>4. left(pg) # 0
    <3>1. CASE Cardinality(Mig(pg)) > 0
      BY <3>1, <2>1, <2>2, <1>2
    <3>2. CASE ~(Cardinality(Mig(pg)) > 0)
      BY <3>2, <2>2, <1>5, <1>6, <1>9
    <3> QED
      BY <3>1, <3>2
  <2> QED
    BY <2>3, <2>4
<1> HIDE DEF left, Mig
<1>15. TypeOK'
  <2>1. \A pg \in Pages : left(pg) \in Int
    <3>1. ASSUME NEW pg \in pages[p] PROVE left(pg) \in Int
      BY <1>5, <1>6, <1>9, <1>11
    <3>2. ASSUME NEW pg \in Pages \ pages[p] PROVE left(pg) \in Int
      BY <1>8 DEF TypeOK
    <3> QED
      BY <3>1, <3>2
  <2>2. num_remaining' \in [Pages -> Int] /\ mapped' \in SUBSET Pages
    BY <2>1, <1>2 DEF TypeOK
  <2> QED
    BY <2>2, <1>1 DEF TypeOK, SlabPC
<1>16. DistinctLists'
  BY <1>1, <1>3 DEF DistinctLists, Distinct
<1>17. UniqueHomes'
  BY <1>1, <1>4 DEF UniqueHomes
<1>18. \A r \in Pools \ {p} : pages[r] \cap pages[p] = {}
  <2>1. SUFFICES ASSUME NEW r \in Pools \ {p}, NEW pg \in Pages, pg \in pages[r], pg \in pages[p]
                 PROVE  FALSE
    BY DEF TypeOK
  <2>2. PICK e \in Elements : PageOf(e) = pg
    BY <1>5
  <2> QED
    BY <2>1, <2>2 DEF Owned
<1>19. Owned'
  <2>1. \A r \in Pools : pages'[r] \subseteq mapped'
    BY <1>3, <1>13, <1>18 DEF Owned
  <2>2. \A r \in Pools, e \in Elements : owner'[e] = r <=> PageOf(e) \in pages'[r]
    BY <1>3, <1>18, ElementFacts DEF Owned
  <2>3. \A r \in Pools, e \in Elements : In(migrated'[r], e) => owner'[e] = r
    <3>1. SUFFICES ASSUME NEW r \in Pools \ {p}, NEW e \in Elements, In(migrated[r], e)
                   PROVE  owner'[e] = r
      BY <1>4
    <3>2. owner[e] = r /\ PageOf(e) \notin pages[p]
      BY <3>1 DEF Owned
    <3> QED
      BY <3>2, <1>3
  <2>4. \A r \in Pools, e \in Elements :
          In(free'[r], e) => owner'[e] = IF pc'[r] = "drain" THEN Orphan ELSE r
    <3>1. SUFFICES ASSUME NEW r \in Pools, NEW e \in Elements, In(free[r], e)
                   PROVE  owner'[e] = IF pc'[r] = "drain" THEN Orphan ELSE r
      BY <1>1
    <3>2. CASE r = p
      BY <3>1, <3>2, <1>1, <1>3 DEF Owned
    <3>3. CASE r # p
      BY <3>1, <3>3, <1>3, <1>18 DEF Owned
    <3> QED
      BY <3>2, <3>3
  <2> QED
    BY <2>1, <2>2, <2>3, <2>4 DEF Owned
<1>20. ThreadPlaces'
  BY <1>1, <1>3, ElementFacts DEF ThreadPlaces, TypeOK
<1>21. Placed'
  <2>1. ASSUME NEW e \in Elements, HasHome(e)' PROVE PageOf(e) \in mapped'
    <3>1. PageOf(e) \in mapped
      BY <2>1, <1>10 DEF Placed
    <3>2. SUFFICES ASSUME PageOf(e) \notin mapped' PROVE FALSE
      OBVIOUS
    <3>3. PageOf(e) \in pages[p] /\ left(PageOf(e)) = 0
      BY <3>1, <3>2, <1>13
    <3>4. Remaining(PageOf(e))' = {}
      BY <3>3, <1>11, FS_EmptySet
    <3>5. e \in Remaining(PageOf(e))'
      BY <2>1, ElementFacts DEF Remaining
    <3> QED
      BY <3>4, <3>5
  <2>2. ASSUME NEW e \in Elements, owner'[e] # Orphan PROVE HasHome(e)'
    <3>1. PageOf(e) \notin pages[p] /\ owner[e] # Orphan
      BY <2>2, <1>3
    <3>2. HasHome(e) /\ ~In(migrated[p], e)
      BY <3>1 DEF Placed, Owned
    <3> QED
      BY <3>2, <1>10
  <2> QED
    BY <2>1, <2>2 DEF Placed
<1>22. Counted'
  <2>1. SUFFICES ASSUME NEW pg \in Pages, Orphaned(pg)'
                 PROVE  /\ num_remaining'[pg] = Cardinality(Remaining(pg)')
                        /\ num_remaining'[pg] > 0
    BY DEF Counted
  <2>2. num_remaining'[pg] = left(pg)
    BY <1>2
  <2>3. CASE pg \in pages[p]
    BY <2>1, <2>2, <2>3, <1>11, <1>14 DEF Orphaned
  <2>4. CASE pg \notin pages[p]
    <3>1. Orphaned(pg)
      BY <2>1, <2>4, <1>2, <1>3 DEF Orphaned
    <3> QED
      BY <3>1, <2>2, <2>4, <1>8, <1>12 DEF Counted
  <2> QED
    BY <2>3, <2>4
<1> QED
  BY <1>15, <1>16, <1>17, <1>19, <1>20, <1>21, <1>22

\* slab_destroy_child frees the elements of its own free list.
LEMMA DrainFreeStep ==
  ASSUME IInv, NEW p \in Pools, DrainFree(p)
  PROVE  IInv'
<1> USE DEF IInv
<1>1. CASE free[p] = <<>>
  BY <1>1, PlaceStep DEF DrainFree
<1>2. CASE free[p] # <<>>
  <2> DEFINE x == Head(free[p])
  <2>1. /\ pc[p] = "drain" /\ FreeOrphaned({x})
        /\ free' = [free EXCEPT ![p] = Tail(free[p])]
        /\ UNCHANGED <<pc, migrated, pages, owner, allocated, elt>>
    BY <1>2 DEF DrainFree
  <2>2. /\ Tail(free[p]) \in Seq(Elements) /\ Distinct(Tail(free[p]))
        /\ x \in Elements /\ In(free[p], x)
        /\ \A e : In(Tail(free[p]), e) <=> In(free[p], e) /\ e # x
    BY <1>2, PopFacts DEF TypeOK, DistinctLists
  <2> HIDE DEF x
  <2>3. free'[p] = Tail(free[p]) /\ \A r \in Pools \ {p} : free'[r] = free[r]
    BY <2>1 DEF TypeOK
  <2>4. \A r \in Pools : \A e : In(free'[r], e) <=> In(free[r], e) /\ ~(r = p /\ e = x)
    BY <2>2, <2>3
  <2>5. owner[x] = Orphan
    BY <2>1, <2>2 DEF Owned
  <2>6. /\ \A r \in Pools : ~In(migrated[r], x) /\ elt[r] # x
        /\ \A r \in Pools \ {p} : ~In(free[r], x)
        /\ x \notin allocated
    BY <2>2 DEF UniqueHomes
  <2>7. HasHome(x) /\ \A e \in Elements : HasHome(e)' <=> HasHome(e) /\ e # x
    BY <2>1, <2>2, <2>4, <2>6 DEF HasHome
  <2>8. /\ num_remaining' \in [Pages -> Int] /\ mapped' \in SUBSET Pages
        /\ \A r \in Pools : pages[r] \subseteq mapped'
        /\ Placed' /\ Counted'
    BY <2>1, <2>2, <2>5, <2>7, LoseOne
  <2>9. TypeOK'
    BY <2>1, <2>2, <2>8 DEF TypeOK
  <2>10. DistinctLists'
    BY <2>1, <2>2, <2>3 DEF DistinctLists
  <2>11. UniqueHomes'
    BY <2>1, <2>4 DEF UniqueHomes
  <2>12. Owned'
    BY <2>1, <2>4, <2>8 DEF Owned
  <2>13. ThreadPlaces'
    BY <2>1, <2>3 DEF ThreadPlaces
  <2> QED
    BY <2>8, <2>9, <2>10, <2>11, <2>12, <2>13
<1> QED
  BY <1>1, <1>2

-----------------------------------------------------------------------------
(* The theorems *)

\* Every step of the threads that use the pools keeps IInv.
LEMMA IInvInductive == IInv /\ [Next]_vars => IInv'
<1> SUFFICES ASSUME IInv, [Next]_vars PROVE IInv'
  OBVIOUS
<1>1. ASSUME NEW p \in Pools, Alloc(p) \/ AllocCollected(p) PROVE IInv'
  BY <1>1, PopStep DEF Alloc, AllocCollected
<1>2. ASSUME NEW p \in Pools, AllocFails(p) \/ Create(p) PROVE IInv'
  BY <1>2, PlaceStep DEF AllocFails, Create
<1>3. CASE UNCHANGED vars
  <2> USE <1>3 DEF vars, IInv
  <2>1. TypeOK' /\ DistinctLists' /\ UniqueHomes'
    BY DEF TypeOK, DistinctLists, UniqueHomes
  <2>2. Owned' /\ ThreadPlaces'
    BY DEF Owned, ThreadPlaces
  <2>3. \A e \in Elements : HasHome(e)' <=> HasHome(e)
    BY DEF HasHome
  <2>4. Placed' /\ Counted'
    BY <2>3, KeepAll
  <2> QED
    BY <2>1, <2>2, <2>4
<1> QED
  BY <1>1, <1>2, <1>3, CollectStep, NewPageStep, FreeStep, FreeLockedStep,
     FreeOrphanStep, DestroyLockedStep, DrainFreeStep
  DEF Next

\* Pools without pages satisfy the invariant.
LEMMA IInvInit == Init => IInv
<1> SUFFICES ASSUME Init PROVE IInv
  OBVIOUS
<1> USE ElementFacts DEF Init
<1>1. TypeOK
  BY DEF TypeOK, SlabPC
<1>2. DistinctLists
  BY DEF DistinctLists, Distinct
<1>3. UniqueHomes
  BY NothingIn DEF UniqueHomes
<1>4. Owned
  BY NothingIn DEF Owned
<1>5. ThreadPlaces
  BY DEF ThreadPlaces
<1>6. Placed
  BY NothingIn DEF Placed, HasHome
<1>7. Counted
  BY DEF Counted, Orphaned
<1> QED
  BY <1>1, <1>2, <1>3, <1>4, <1>5, <1>6, <1>7 DEF IInv

\* The invariant holds from the start.
LEMMA IInvHolds == Spec => []IInv
  BY IInvInit, IInvInductive, PTL DEF Spec

\* What the invariant says of the homes of an element.
LEMMA HomesFacts ==
  ASSUME IInv, NEW e \in Elements
  PROVE  /\ Homes(e) # {} <=> HasHome(e)
         /\ \A g, h \in Homes(e) : g = h
<1> USE DEF IInv
<1> DEFINE F == ListHomes("free", free, e)
           M == ListHomes("migrated", migrated, e)
           T == {h \in {"thread"} \X Pools : elt[h[2]] = e}
           P == {h \in {<<"program">>} : e \in allocated}
<1>1. \A h : h \in F <=> \E p \in Pools : \E i \in 1..Len(free[p]) :
                           h = <<"free", p, i>> /\ free[p][i] = e
  BY DEF ListHomes
<1>2. \A h : h \in M <=> \E p \in Pools : \E i \in 1..Len(migrated[p]) :
                           h = <<"migrated", p, i>> /\ migrated[p][i] = e
  BY DEF ListHomes
<1>3. \A h : h \in T <=> \E p \in Pools : h = <<"thread", p>> /\ elt[p] = e
  OBVIOUS
<1>4. \A h : h \in P <=> h = <<"program">> /\ e \in allocated
  OBVIOUS
<1>5. Homes(e) = F \cup M \cup T \cup P
  BY DEF Homes
<1> HIDE DEF F, M, T, P
<1>6. /\ F # {} <=> \E p \in Pools : In(free[p], e)
      /\ M # {} <=> \E p \in Pools : In(migrated[p], e)
      /\ T # {} <=> \E p \in Pools : elt[p] = e
      /\ P # {} <=> e \in allocated
  BY <1>1, <1>2, <1>3, <1>4 DEF In
<1>7. Homes(e) # {} <=> HasHome(e)
  BY <1>5, <1>6 DEF HasHome
<1>8. \A g, h \in F : g = h
  <2>1. SUFFICES ASSUME NEW g \in F, NEW h \in F PROVE g = h
    OBVIOUS
  <2>2. PICK p \in Pools :
          \E i \in 1..Len(free[p]) : g = <<"free", p, i>> /\ free[p][i] = e
    BY <1>1
  <2>3. PICK q \in Pools :
          \E i \in 1..Len(free[q]) : h = <<"free", q, i>> /\ free[q][i] = e
    BY <1>1
  <2>4. p = q
    BY <2>2, <2>3 DEF UniqueHomes, In
  <2> QED
    BY <2>2, <2>3, <2>4 DEF DistinctLists, Distinct
<1>9. \A g, h \in M : g = h
  <2>1. SUFFICES ASSUME NEW g \in M, NEW h \in M PROVE g = h
    OBVIOUS
  <2>2. PICK p \in Pools :
          \E i \in 1..Len(migrated[p]) : g = <<"migrated", p, i>> /\ migrated[p][i] = e
    BY <1>2
  <2>3. PICK q \in Pools :
          \E i \in 1..Len(migrated[q]) : h = <<"migrated", q, i>> /\ migrated[q][i] = e
    BY <1>2
  <2>4. p = q
    BY <2>2, <2>3 DEF UniqueHomes, In
  <2> QED
    BY <2>2, <2>3, <2>4 DEF DistinctLists, Distinct
<1>10. \A g, h \in T : g = h
  BY <1>3 DEF UniqueHomes
<1>11. \A g, h \in P : g = h
  BY <1>4
<1>12. /\ F # {} => M = {} /\ T = {} /\ P = {}
       /\ M # {} => T = {} /\ P = {}
       /\ T # {} => P = {}
  BY <1>6 DEF UniqueHomes
<1>13. \A g, h \in F \cup M \cup T \cup P : g = h
  BY <1>8, <1>9, <1>10, <1>11, <1>12
<1> QED
  BY <1>5, <1>7, <1>13

\* slab_alloc hands an element to one user at a time, and slab_free, the
\* migration between pools and their destruction lose none of a living pool.
THEOREM AllocatedOnce == Spec => []OneHome
<1>1. ASSUME IInv, NEW e \in Elements
      PROVE  Cardinality(Homes(e)) <= 1 /\ (owner[e] # Orphan => Homes(e) # {})
  <2>1. (Homes(e) # {} <=> HasHome(e)) /\ \A g, h \in Homes(e) : g = h
    BY <1>1, HomesFacts
  <2>2. CASE Homes(e) = {}
    BY <2>2, FS_EmptySet, <2>1, <1>1 DEF IInv, Placed
  <2>3. CASE Homes(e) # {}
    <3>1. PICK h \in Homes(e) : TRUE
      BY <2>3
    <3>2. Homes(e) = {h}
      BY <3>1, <2>1
    <3>3. Cardinality(Homes(e)) = 1
      BY <3>2, FS_Singleton
    <3> QED
      BY <3>3, <2>3
  <2> QED
    BY <2>2, <2>3
<1>2. IInv => OneHome
  BY <1>1 DEF OneHome
<1> QED
  BY <1>2, IInvHolds, PTL

\* The atomic count of an orphaned page is exact, and not zero: slab_destroy_child
\* and slab_free free the page with its last element and not before.
THEOREM OrphansFreedLast == Spec => []OrphanCount
<1>1. ASSUME IInv, NEW pg \in Pages, IsOrphaned(pg)
      PROVE  /\ num_remaining[pg] = Cardinality({e \in ElementsOf(pg) : Homes(e) # {}})
             /\ num_remaining[pg] > 0
  <2>1. PICK x \in Elements : PageOf(x) = pg
    BY PageFacts
  <2>2. Orphaned(pg)
    BY <1>1, <2>1, ElementFacts DEF IsOrphaned, Orphaned, IInv, Owned
  <2>3. \A e \in ElementsOf(pg) : Homes(e) # {} <=> HasHome(e)
    BY <1>1, ElementFacts, HomesFacts
  <2>4. {e \in ElementsOf(pg) : Homes(e) # {}} = Remaining(pg)
    BY <2>3 DEF Remaining
  <2> QED
    BY <1>1, <2>2, <2>4 DEF IInv, Counted
<1>2. IInv => OrphanCount
  BY <1>1 DEF OrphanCount
<1> QED
  BY <1>2, IInvHolds, PTL

\* A page is freed only when nobody has or lists one of its elements.
THEOREM NoneDangling == Spec => []NoDangling
<1>1. IInv => NoDangling
  BY HomesFacts DEF IInv, Placed, NoDangling
<1> QED
  BY <1>1, IInvHolds, PTL

\* Once slab_destroy_child has left its critical section no slab_free reaches
\* the pool any more, so that its memory may be freed or reused.
THEOREM DestroyedUntouched == Spec => []GoneIsUntouched
<1>1. IInv => GoneIsUntouched
  BY DEF IInv, Owned, ThreadPlaces, GoneIsUntouched
<1> QED
  BY <1>1, IInvHolds, PTL
=============================================================================
