------------------------- MODULE AnvStatePoolProofs -------------------------
(***************************************************************************)
(* Proofs about AnvBlockPool with arbitrary clients; that the state pool   *)
(* uses its block pool as AnvBlockPool allows, so that what is proved of   *)
(* the block pool holds inside the state pool; and that the lock-free free *)
(* lists of the state pool neither lose memory nor give it out twice, as   *)
(* long as no count comes round. For any threads, buckets, block sizes and *)
(* page size.                                                              *)
(***************************************************************************)
EXTENDS AnvStatePool, FiniteSetTheorems, TLAPS

Labels == {"idle", "add", "wait", "sleep", "lock", "front", "size", "expand", "bo",
           "read", "read2", "publish", "wake", "return"}

\* What a thread has in tmp, by where it is.
TmpOK ==
  \A t \in Threads :
    /\ bpc[t] = "front" => tmp[t] \in [back_used : Nat]
    /\ bpc[t] = "size" =>
         tmp[t] \in [back_used : Nat, back_required : Nat, front_used : Nat,
                     front_required : Nat, size : Nat]
    /\ bpc[t] \in {"expand", "bo"} =>
         tmp[t] \in [center : Nat, size : Nat] /\ tmp[t].center <= tmp[t].size
    /\ bpc[t] = "read2" => tmp[t] \in [read : {"center", "size"}, value : Nat]
    /\ bpc[t] = "publish" => tmp[t] \in [end : Nat]

BlockTypeOK ==
  /\ state \in [Sides -> [next : Nat, end : Nat]]
  /\ center_bo_offset \in Nat /\ bo_size \in Nat
  /\ map \in [back : Nat, front : Nat]
  /\ mutex \in Threads \cup {NoThread}
  /\ bpc \in [Threads -> Labels]
  /\ call \in [Threads -> [side : Sides, size : Nat]]
  /\ got \in [Threads -> [next : Nat, end : Nat]]
  /\ DOMAIN tmp = Threads
  /\ TmpOK

-----------------------------------------------------------------------------
(* Arithmetic *)

\* Rounding up to a page does not lose what is used.
LEMMA AlignPageNat ==
  ASSUME NEW n \in Nat
  PROVE  /\ AlignPage(n) \in Nat
         /\ AlignPage(n) = 0 <=> n = 0
<1> DEFINE q == (n + PageSize - 1) \div PageSize
<1>1. PageSize \in Nat \ {0}
  BY AnvBlockPoolAssumption
<1>2. q \in Nat /\ (q = 0 <=> n = 0)
  BY <1>1
<1>3. AlignPage(n) = q * PageSize
  BY DEF AlignPage
<1> HIDE DEF q
<1>4. q * PageSize \in Nat /\ (q * PageSize = 0 <=> q = 0)
  BY <1>1, <1>2
<1> QED
  BY <1>2, <1>3, <1>4

\* anv_block_pool_grow centres the pool so that neither end gets less than
\* what is required, and gives the back nothing if nothing of it is used.
LEMMA CenteredBounds ==
  ASSUME NEW size \in Nat, NEW bu \in Nat, NEW fu \in Nat,
         NEW br \in Nat, NEW fr \in Nat, size >= br + fr
  PROVE  /\ Centered(size, bu, fu, br, fr) \in Nat
         /\ bu = 0 => Centered(size, bu, fu, br, fr) = 0
         /\ bu # 0 => Centered(size, bu, fu, br, fr) >= br
         /\ size - Centered(size, bu, fu, br, fr) >= fr
<1> DEFINE ratio == (size * bu) \div (bu + fu)
           page  == (ratio \div PageSize) * PageSize
           c     == Centered(size, bu, fu, br, fr)
<1>1. CASE bu = 0
  <2>1. c = 0
    BY <1>1 DEF Centered
  <2> QED
    BY <1>1, <2>1
<1>2. CASE bu # 0
  <2>1. ratio \in Int
    <3>1. size * bu \in Int /\ bu + fu \in Nat \ {0}
      BY <1>2
    <3> QED
      BY <3>1
  <2>2. page \in Int
    <3> HIDE DEF ratio
    <3>1. PageSize \in Nat \ {0}
      BY AnvBlockPoolAssumption
    <3>2. ratio \div PageSize \in Int
      BY <2>1, <3>1
    <3> QED
      BY <3>1, <3>2
  <2>3. c = LET aligned == MAX2(page, br)
            IN  IF size - aligned < fr THEN size - fr ELSE aligned
    BY <1>2 DEF Centered
  <2> HIDE DEF page, c
  <2> QED
    BY <1>2, <2>2, <2>3 DEF MAX2, c
<1> QED
  BY <1>1, <1>2

\* A remainder is not larger than the number itself.
LEMMA ModBounds ==
  ASSUME NEW n \in Int
  PROVE  n % Word \in Nat /\ (n >= 0 => n % Word <= n)
<1>1. Word \in Nat \ {0}
  BY AnvBlockPoolAssumption
<1> QED
  BY <1>1

-----------------------------------------------------------------------------
(* Types *)

\* The steps of anv_block_pool_alloc_new keep the types.
LEMMA AllocTypes ==
  ASSUME BlockTypeOK, NEW t \in Threads,
         \/ \E s \in Sides, n \in Sizes : Call(t, s, n)
         \/ Retry(t) \/ FutexWait(t) \/ Publish(t) \/ FutexWake(t) \/ Return(t)
  PROVE  BlockTypeOK'
<1> USE DEF BlockTypeOK, TmpOK, Labels, Sides
<1>1. ASSUME NEW s \in Sides, NEW n \in Sizes, Call(t, s, n) PROVE BlockTypeOK'
  <2>1. n \in Nat
    BY AnvBlockPoolAssumption
  <2>2. Outcome(state[s], n) \in {"return", "lock", "wait"}
    BY DEF Outcome
  <2> QED
    BY <1>1, <2>1, <2>2, SMTT(40) DEF Call, FetchAndAdd, Goto, pool
<1>2. CASE Retry(t)
  <2>1. Outcome(state[call[t].side], call[t].size) \in {"return", "lock", "wait"}
    BY DEF Outcome
  <2> QED
    BY <1>2, <2>1, SMTT(40) DEF Retry, FetchAndAdd, Goto, pool
<1>3. CASE FutexWait(t)
  BY <1>3 DEF FutexWait, Goto, pool, locals
<1>4. CASE Publish(t)
  BY <1>4 DEF Publish, Goto, Keep, NewNext, pool
<1>5. CASE FutexWake(t)
  BY <1>5 DEF FutexWake, pool, locals
<1>6. CASE Return(t)
  BY <1>6 DEF Return, Goto, NoCall, NoPair, pool
<1> QED
  BY <1>1, <1>2, <1>3, <1>4, <1>5, <1>6

\* The steps of anv_block_pool_grow keep the types.
LEMMA GrowTypes ==
  ASSUME BlockTypeOK, NEW t \in Threads, Grow(t)
  PROVE  BlockTypeOK'
<1> USE DEF BlockTypeOK, TmpOK, Labels, Sides
<1>1. CASE GrowLock(t)
  <2>1. AlignPage(state["back"].next) \in Nat
    BY AlignPageNat
  <2> QED
    BY <1>1, <2>1 DEF GrowLock, Goto, Keep, pool
<1>2. CASE GrowDecide(t)
  <2>1. AlignPage(state["front"].next) \in Nat
    BY AlignPageNat
  <2> DEFINE bu == tmp[t].back_used
             fu == AlignPage(state["front"].next)
             br == MAX2(bu, center_bo_offset)
             fr == MAX2(fu, bo_size - center_bo_offset)
             next == [back_used |-> bu, back_required |-> br, front_used |-> fu,
                      front_required |-> fr, size |-> bo_size * 2]
  <2>2. bu \in Nat /\ br \in Nat /\ fr \in Nat /\ bo_size * 2 \in Nat
    BY <1>2, <2>1 DEF GrowDecide, MAX2
  <2>3. \/ tmp' = [tmp EXCEPT ![t] = Nothing] /\ bpc' = [bpc EXCEPT ![t] = "read"]
        \/ tmp' = [tmp EXCEPT ![t] = next] /\ bpc' = [bpc EXCEPT ![t] = "size"]
    BY <1>2 DEF GrowDecide, Goto, Keep
  <2>4. next \in [back_used : Nat, back_required : Nat, front_used : Nat,
                  front_required : Nat, size : Nat]
    BY <2>1, <2>2
  <2>5. /\ mutex' \in Threads \cup {NoThread}
        /\ UNCHANGED <<state, center_bo_offset, bo_size, map, call, got>>
    BY <1>2 DEF GrowDecide, pool
  <2> HIDE DEF next
  <2>6. TmpOK' /\ DOMAIN tmp' = Threads /\ bpc' \in [Threads -> Labels]
    <3>1. CASE tmp' = [tmp EXCEPT ![t] = Nothing] /\ bpc' = [bpc EXCEPT ![t] = "read"]
      BY <3>1
    <3>2. CASE tmp' = [tmp EXCEPT ![t] = next] /\ bpc' = [bpc EXCEPT ![t] = "size"]
      BY <3>2, <2>4
    <3> QED
      BY <2>3, <3>1, <3>2
  <2> QED
    BY <2>5, <2>6
<1>3. CASE GrowDouble(t)
  BY <1>3, SMTT(40) DEF GrowDouble, pool
<1>4. CASE GrowCenter(t)
  <2> DEFINE v == tmp[t]
             c == Centered(v.size, v.back_used, v.front_used, v.back_required,
                           v.front_required)
  <2>1. c \in Nat /\ v.size \in Nat /\ c <= v.size
    <3>1. /\ v.size \in Nat /\ v.back_used \in Nat /\ v.front_used \in Nat
          /\ v.back_required \in Nat /\ v.front_required \in Nat
          /\ v.size >= v.back_required + v.front_required
      BY <1>4 DEF GrowCenter
    <3>2. c \in Nat /\ v.size - c >= v.front_required
      BY <3>1, CenteredBounds
    <3> QED
      BY <3>1, <3>2
  <2> HIDE DEF c
  <2>2. tmp' = [tmp EXCEPT ![t] = [center |-> c, size |-> v.size]]
    BY <1>4 DEF GrowCenter, Keep, c
  <2> QED
    BY <1>4, <2>1, <2>2 DEF GrowCenter, Goto, pool
<1>5. CASE Expand(t)
  BY <1>5 DEF Expand, Goto, locals
<1>6. CASE ExpandBo(t)
  BY <1>6 DEF ExpandBo, Goto, Keep
<1>7. CASE ExpandFail(t)
  BY <1>7 DEF ExpandFail, Goto, Keep, pool
<1>8. CASE ReadCenter(t)
  BY <1>8 DEF ReadCenter, Goto, Keep, Enough, pool
<1>9. CASE ReadFirst(t)
  BY <1>9 DEF ReadFirst, Goto, Keep, pool
<1>10. CASE ReadSecond(t)
  <2>1. (bo_size - tmp[t].value) % Word \in Nat /\ (tmp[t].value - center_bo_offset) % Word \in Nat
    BY <1>10, ModBounds DEF ReadSecond
  <2> QED
    BY <1>10, <2>1 DEF ReadSecond, Goto, Keep, Enough, pool
<1> QED
  BY <1>1, <1>2, <1>3, <1>4, <1>5, <1>6, <1>7, <1>8, <1>9, <1>10 DEF Grow

-----------------------------------------------------------------------------
(* One thread grows a side *)

GrowingOn(t, s) == Growing(t) /\ call[t].side = s

\* The block of the thread that grows a side crosses `end`, and whatever is
\* added behind it does too: this is why `next` acts as a mutex.
GrowerCrosses ==
  \A t \in Threads : Growing(t) =>
    /\ state[call[t].side].end < NewNext(t)
    /\ NewNext(t) <= state[call[t].side].next

\* Only a side that is being grown is used beyond its end.
CrossedIsGrowing ==
  \A s \in Sides :
    state[s].next <= state[s].end \/ \E t \in Threads : GrowingOn(t, s)

\* The pair that is to be published has room for the block.
RoomForBlock ==
  \A t \in Threads : bpc[t] = "publish" => NewNext(t) <= tmp[t].end

\* Inside a call the size is one of those asked for.
CallSizes == \A t \in Threads : bpc[t] # "idle" => call[t].size \in Sizes

GrowOK ==
  OneGrower /\ GrowerCrosses /\ CrossedIsGrowing /\ RoomForBlock /\ CallSizes

\* A step that nobody can see at the pair or in the growing threads.
Quiet ==
  /\ UNCHANGED <<state, call, got>>
  /\ \A u \in Threads : bpc'[u] # bpc[u] => bpc[u] # "idle"
  /\ \A u \in Threads : Growing(u)' <=> Growing(u)
  /\ \A u \in Threads : bpc'[u] = "publish" =>
       \/ bpc[u] = "publish" /\ tmp'[u] = tmp[u]
       \/ NewNext(u) <= tmp'[u].end

\* A quiet step leaves the growing threads alone.
LEMMA QuietGrow ==
  ASSUME GrowOK, Quiet
  PROVE  GrowOK'
<1>1. \A u \in Threads : NewNext(u)' = NewNext(u)
  BY DEF Quiet, NewNext
<1>2. OneGrower' /\ CallSizes'
  BY DEF GrowOK, Quiet, OneGrower, CallSizes
<1>3. GrowerCrosses'
  BY <1>1 DEF GrowOK, Quiet, GrowerCrosses
<1>4. CrossedIsGrowing'
  BY DEF GrowOK, Quiet, CrossedIsGrowing, GrowingOn
<1>5. RoomForBlock'
  BY <1>1 DEF GrowOK, Quiet, RoomForBlock
<1> QED
  BY <1>2, <1>3, <1>4, <1>5 DEF GrowOK

\* The steps of the growth, the futex calls and the return leave the pair and
\* the growing threads alone, but for the fetch-and-add and the exchange.
LEMMA QuietSteps ==
  ASSUME BlockTypeOK, NEW t \in Threads, Grow(t) \/ FutexWait(t) \/ FutexWake(t)
  PROVE  Quiet
<1> USE DEF BlockTypeOK, Quiet, Growing, Labels
<1>1. CASE GrowLock(t)
  BY <1>1 DEF GrowLock, Goto, Keep, pool
<1>2. CASE GrowDecide(t)
  <2>1. \/ bpc' = [bpc EXCEPT ![t] = "read"]
        \/ bpc' = [bpc EXCEPT ![t] = "size"]
    BY <1>2 DEF GrowDecide, Goto
  <2>2. bpc[t] = "front" /\ UNCHANGED <<state, call, got>>
    BY <1>2 DEF GrowDecide
  <2>3. \A u \in Threads \ {t} : tmp'[u] = tmp[u]
    BY <1>2 DEF GrowDecide, Keep
  <2> QED
    BY <2>1, <2>2, <2>3
<1>3. CASE GrowDouble(t)
  BY <1>3 DEF GrowDouble, pool
<1>4. CASE GrowCenter(t)
  <2>1. /\ bpc[t] = "size" /\ bpc' = [bpc EXCEPT ![t] = "expand"]
        /\ UNCHANGED <<state, call, got>>
    BY <1>4 DEF GrowCenter, Goto
  <2>2. \A u \in Threads \ {t} : tmp'[u] = tmp[u]
    BY <1>4 DEF GrowCenter, Keep
  <2> QED
    BY <2>1, <2>2
<1>5. CASE Expand(t)
  BY <1>5 DEF Expand, Goto, locals
<1>6. CASE ExpandBo(t)
  BY <1>6 DEF ExpandBo, Goto, Keep
<1>7. CASE ExpandFail(t)
  BY <1>7 DEF ExpandFail, Goto, Keep, pool
<1>8. CASE ReadCenter(t)
  BY <1>8 DEF ReadCenter, Goto, Keep, Enough, NewNext, pool
<1>9. CASE ReadFirst(t)
  BY <1>9 DEF ReadFirst, Goto, Keep, pool
<1>10. CASE ReadSecond(t)
  <2> DEFINE end == IF tmp[t].read = "center" THEN (bo_size - tmp[t].value) % Word
                    ELSE (tmp[t].value - center_bo_offset) % Word
  <2>1. end \in Nat
    BY <1>10, ModBounds DEF ReadSecond, TmpOK
  <2>2. /\ bpc[t] = "read2" /\ tmp' = [tmp EXCEPT ![t] = [end |-> end]]
        /\ bpc' = [bpc EXCEPT ![t] = IF end < NewNext(t) THEN "lock" ELSE "publish"]
        /\ UNCHANGED <<state, call, got>>
    BY <1>10 DEF ReadSecond, Goto, Keep, Enough
  <2> HIDE DEF end
  <2> QED
    BY <2>1, <2>2 DEF NewNext
<1>11. CASE FutexWait(t)
  BY <1>11 DEF FutexWait, Goto, pool, locals
<1>12. CASE FutexWake(t)
  BY <1>12 DEF FutexWake, pool, locals
<1> QED
  BY <1>1, <1>2, <1>3, <1>4, <1>5, <1>6, <1>7, <1>8, <1>9, <1>10, <1>11, <1>12
  DEF Grow

\* What a fetch-and-add of thread t on side s does, with the size n.
Fetched(t, s, n) ==
  /\ FetchAndAdd(t, s, n)
  /\ call' = [call EXCEPT ![t] = [side |-> s, size |-> n]]
  /\ ~ Growing(t)

\* Both ways to the atomic add of anv_block_pool_alloc_new: a call and a retry.
LEMMA FetchSteps ==
  ASSUME BlockTypeOK, GrowOK, NEW t \in Threads,
         Retry(t) \/ \E s \in Sides, n \in Sizes : Call(t, s, n)
  PROVE  \E s \in Sides, n \in Sizes : Fetched(t, s, n) /\ bpc[t] \in {"idle", "add"}
<1>1. CASE Retry(t)
  <2>1. call[t].side \in Sides /\ call[t].size \in Sizes
    BY <1>1 DEF Retry, BlockTypeOK, GrowOK, CallSizes
  <2>2. call' = [call EXCEPT ![t] = [side |-> call[t].side, size |-> call[t].size]]
    BY <1>1 DEF Retry, BlockTypeOK
  <2> QED
    BY <1>1, <2>1, <2>2 DEF Retry, Fetched, Growing
<1>2. ASSUME NEW s \in Sides, NEW n \in Sizes, Call(t, s, n)
      PROVE  Fetched(t, s, n) /\ bpc[t] \in {"idle", "add"}
  BY <1>2 DEF Call, Fetched, Growing
<1> QED
  BY <1>1, <1>2

\* The three outcomes of a fetch-and-add.
LEMMA FetchOutcome ==
  ASSUME BlockTypeOK, GrowOK, NEW t \in Threads, NEW s \in Sides, NEW n \in Sizes,
         Fetched(t, s, n)
  PROVE  /\ n \in Nat
         /\ state' = [state EXCEPT ![s].next = @ + n]
         /\ got' = [got EXCEPT ![t] = state[s]]
         /\ call' = [call EXCEPT ![t] = [side |-> s, size |-> n]]
         /\ UNCHANGED <<pool, mutex, tmp>>
         /\ \/ /\ bpc' = [bpc EXCEPT ![t] = "return"]
               /\ state[s].next + n <= state[s].end
            \/ /\ bpc' = [bpc EXCEPT ![t] = "lock"]
               /\ state[s].next + n > state[s].end /\ state[s].next <= state[s].end
            \/ /\ bpc' = [bpc EXCEPT ![t] = "wait"]
               /\ state[s].next > state[s].end
<1>1. n \in Nat /\ state[s].next \in Nat /\ state[s].end \in Nat
  BY AnvBlockPoolAssumption DEF BlockTypeOK
<1>2. /\ state' = [state EXCEPT ![s].next = @ + n] /\ got' = [got EXCEPT ![t] = state[s]]
      /\ call' = [call EXCEPT ![t] = [side |-> s, size |-> n]]
      /\ UNCHANGED <<pool, mutex, tmp>>
      /\ bpc' = [bpc EXCEPT ![t] = Outcome(state[s], n)]
  BY DEF Fetched, FetchAndAdd, Goto
<1>3. \/ Outcome(state[s], n) = "return" /\ state[s].next + n <= state[s].end
      \/ /\ Outcome(state[s], n) = "lock"
         /\ state[s].next + n > state[s].end /\ state[s].next <= state[s].end
      \/ Outcome(state[s], n) = "wait" /\ state[s].next > state[s].end
  BY <1>1 DEF Outcome
<1> QED
  BY <1>1, <1>2, <1>3

\* A side whose next is not beyond its end is grown by nobody.
LEMMA NobodyGrows ==
  ASSUME BlockTypeOK, GrowOK, NEW s \in Sides, state[s].next <= state[s].end
  PROVE  \A u \in Threads : ~ GrowingOn(u, s)
BY DEF BlockTypeOK, GrowOK, GrowerCrosses, GrowingOn, NewNext

\* A fetch-and-add makes the thread grow the side only if nobody does.
LEMMA FetchGrow ==
  ASSUME BlockTypeOK, GrowOK, NEW t \in Threads, NEW s \in Sides, NEW n \in Sizes,
         Fetched(t, s, n)
  PROVE  GrowOK'
<1>0. ~ Growing(t)
  BY DEF Fetched
<1>a. /\ n \in Nat
      /\ state' = [state EXCEPT ![s].next = @ + n]
      /\ got' = [got EXCEPT ![t] = state[s]]
      /\ call' = [call EXCEPT ![t] = [side |-> s, size |-> n]]
      /\ tmp' = tmp
  BY FetchOutcome
<1>b. \/ bpc' = [bpc EXCEPT ![t] = "return"] /\ state[s].next + n <= state[s].end
      \/ /\ bpc' = [bpc EXCEPT ![t] = "lock"]
         /\ state[s].next + n > state[s].end /\ state[s].next <= state[s].end
      \/ bpc' = [bpc EXCEPT ![t] = "wait"] /\ state[s].next > state[s].end
  BY FetchOutcome
<1>c. \A u \in Threads \ {t} : bpc'[u] = bpc[u] /\ call'[u] = call[u] /\ got'[u] = got[u]
  BY <1>a, <1>b DEF BlockTypeOK
<1>1. \A u \in Threads \ {t} : /\ Growing(u)' <=> Growing(u)
                              /\ call'[u] = call[u] /\ got'[u] = got[u]
                              /\ NewNext(u)' = NewNext(u)
  BY <1>c DEF Growing, NewNext
<1>2. call'[t] = [side |-> s, size |-> n] /\ got'[t] = state[s]
  BY <1>a DEF BlockTypeOK
<1>3. NewNext(t)' = state[s].next + n
  BY <1>2 DEF NewNext
<1>4. state'[s].end = state[s].end /\ state'[s].next = state[s].next + n
  BY <1>a DEF BlockTypeOK
<1>5. \A r \in Sides \ {s} : state'[r] = state[r]
  BY <1>a DEF BlockTypeOK
<1>6. Growing(t)' => /\ bpc'[t] = "lock" /\ state[s].next + n > state[s].end
                     /\ state[s].next <= state[s].end
  BY <1>b DEF BlockTypeOK, Growing
<1>7. OneGrower'
  <2>1. Growing(t)' => \A u \in Threads : ~ GrowingOn(u, s)
    BY <1>6, NobodyGrows
  <2> QED
    BY <1>1, <1>2, <2>1 DEF GrowOK, OneGrower, GrowingOn
<1>8. GrowerCrosses'
  <2> SUFFICES ASSUME NEW u \in Threads, Growing(u)'
               PROVE  /\ state'[call'[u].side].end < NewNext(u)'
                      /\ NewNext(u)' <= state'[call'[u].side].next
    BY DEF GrowerCrosses
  <2>1. CASE u = t
    BY <1>2, <1>3, <1>4, <1>6, <1>a, <2>1 DEF BlockTypeOK
  <2>2. CASE u # t /\ call[u].side = s
    BY <1>1, <1>4, <1>a, <2>2 DEF BlockTypeOK, GrowOK, GrowerCrosses, NewNext
  <2>3. CASE u # t /\ call[u].side # s
    BY <1>1, <1>5, <2>3 DEF BlockTypeOK, GrowOK, GrowerCrosses
  <2> QED
    BY <2>1, <2>2, <2>3
<1>9. CrossedIsGrowing'
  <2> SUFFICES ASSUME NEW r \in Sides
               PROVE  state'[r].next <= state'[r].end \/ \E u \in Threads : GrowingOn(u, r)'
    BY DEF CrossedIsGrowing
  <2>1. \A u \in Threads : GrowingOn(u, r) => GrowingOn(u, r)'
    BY <1>0, <1>1 DEF GrowingOn
  <2>2. CASE r # s
    BY <1>5, <2>1, <2>2 DEF GrowOK, CrossedIsGrowing
  <2>3. CASE r = s /\ state[s].next > state[s].end
    BY <2>1, <2>3 DEF GrowOK, CrossedIsGrowing, BlockTypeOK
  <2>4. CASE r = s /\ bpc' = [bpc EXCEPT ![t] = "return"] /\ state[s].next + n <= state[s].end
    BY <1>4, <2>4
  <2>5. CASE r = s /\ bpc' = [bpc EXCEPT ![t] = "lock"]
    <3>1. GrowingOn(t, s)'
      BY <1>2, <2>5 DEF GrowingOn, Growing, BlockTypeOK
    <3> QED
      BY <2>5, <3>1
  <2> QED
    BY <1>b, <2>2, <2>3, <2>4, <2>5
<1>10. RoomForBlock'
  <2>1. bpc'[t] # "publish"
    BY <1>b DEF BlockTypeOK
  <2> QED
    BY <1>1, <1>a, <1>c, <2>1 DEF GrowOK, RoomForBlock
<1>11. CallSizes'
  BY <1>2, <1>c DEF GrowOK, CallSizes
<1> QED
  BY <1>7, <1>8, <1>9, <1>10, <1>11 DEF GrowOK

\* The exchange ends the growth of the side.
LEMMA PublishGrow ==
  ASSUME BlockTypeOK, GrowOK, NEW t \in Threads, Publish(t)
  PROVE  GrowOK'
<1> DEFINE s == call[t].side
<1>1. /\ bpc[t] = "publish" /\ call' = call /\ got' = got
      /\ state' = [state EXCEPT ![s] = [next |-> NewNext(t), end |-> tmp[t].end]]
      /\ tmp' = [tmp EXCEPT ![t] = Nothing]
      /\ \/ bpc' = [bpc EXCEPT ![t] = "wake"]
         \/ bpc' = [bpc EXCEPT ![t] = "return"]
  BY DEF Publish, Goto, Keep
<1>2. s \in Sides
  BY DEF BlockTypeOK
<1>3. ~ Growing(t)' /\ \A u \in Threads \ {t} : Growing(u)' <=> Growing(u)
  BY <1>1 DEF Growing, BlockTypeOK
<1>4. \A u \in Threads : NewNext(u)' = NewNext(u)
  BY <1>1 DEF NewNext
<1>5. \A u \in Threads : GrowingOn(u, s) => u = t
  BY <1>1 DEF GrowOK, OneGrower, GrowingOn, Growing
<1>6. OneGrower' /\ CallSizes'
  BY <1>1, <1>3 DEF GrowOK, OneGrower, CallSizes, BlockTypeOK
<1>7. GrowerCrosses'
  <2> SUFFICES ASSUME NEW u \in Threads, Growing(u)'
               PROVE  /\ state'[call'[u].side].end < NewNext(u)'
                      /\ NewNext(u)' <= state'[call'[u].side].next
    BY DEF GrowerCrosses
  <2>1. Growing(u) /\ call[u].side # s /\ call[u].side \in Sides
    BY <1>3, <1>5 DEF GrowingOn, BlockTypeOK
  <2>2. state'[call[u].side] = state[call[u].side]
    BY <1>1, <2>1 DEF BlockTypeOK
  <2> QED
    BY <1>1, <1>4, <2>1, <2>2 DEF GrowOK, GrowerCrosses
<1>8. CrossedIsGrowing'
  <2> SUFFICES ASSUME NEW r \in Sides
               PROVE  state'[r].next <= state'[r].end \/ \E u \in Threads : GrowingOn(u, r)'
    BY DEF CrossedIsGrowing
  <2>1. CASE r = s
    BY <1>1, <1>2, <2>1 DEF GrowOK, RoomForBlock, BlockTypeOK
  <2>2. CASE r # s
    <3>1. \A u \in Threads : GrowingOn(u, r) => GrowingOn(u, r)'
      BY <1>1, <1>3, <2>2 DEF GrowingOn
    <3> QED
      BY <1>1, <2>2, <3>1 DEF GrowOK, CrossedIsGrowing, BlockTypeOK
  <2> QED
    BY <2>1, <2>2
<1>9. RoomForBlock'
  BY <1>1, <1>4 DEF GrowOK, RoomForBlock, BlockTypeOK
<1> QED
  BY <1>6, <1>7, <1>8, <1>9 DEF GrowOK

\* A thread that returns was not growing.
LEMMA ReturnGrow ==
  ASSUME BlockTypeOK, GrowOK, NEW t \in Threads, Return(t)
  PROVE  GrowOK'
<1>1. /\ bpc[t] = "return" /\ bpc' = [bpc EXCEPT ![t] = "idle"]
      /\ call' = [call EXCEPT ![t] = NoCall] /\ got' = [got EXCEPT ![t] = NoPair]
      /\ UNCHANGED <<state, tmp>>
  BY DEF Return, Goto
<1>2. /\ ~ Growing(t) /\ ~ Growing(t)'
      /\ \A u \in Threads \ {t} : /\ Growing(u)' <=> Growing(u)
                                 /\ call'[u] = call[u] /\ NewNext(u)' = NewNext(u)
  BY <1>1 DEF Growing, NewNext, BlockTypeOK
<1>3. OneGrower' /\ GrowerCrosses' /\ CallSizes'
  BY <1>1, <1>2 DEF GrowOK, OneGrower, GrowerCrosses, CallSizes, BlockTypeOK
<1>4. CrossedIsGrowing'
  BY <1>1, <1>2 DEF GrowOK, CrossedIsGrowing, GrowingOn
<1>5. RoomForBlock'
  BY <1>1, <1>2 DEF GrowOK, RoomForBlock, BlockTypeOK
<1> QED
  BY <1>3, <1>4, <1>5 DEF GrowOK

-----------------------------------------------------------------------------
(* The pool's map *)

\* device->mutex is held from the lock to the unlock of anv_block_pool_grow.
HolderOK ==
  \A t \in Threads : bpc[t] \in {"front", "size", "expand", "bo"} <=> mutex = t

\* The size of the buffer object lags behind the map only while the thread
\* that expands the pool is between the two writes. The back has no room as
\* long as nobody asked for it.
Geometry ==
  /\ map.back = center_bo_offset
  /\ bo_size <= center_bo_offset + map.front
  /\ (\A t \in Threads : bpc[t] # "bo") => bo_size = center_bo_offset + map.front
  /\ state["back"].next = 0 => center_bo_offset = 0

\* What the holder of the mutex has computed shortens neither end.
BackUsed(t) ==
  /\ tmp[t].back_used = 0 => center_bo_offset = 0
  /\ tmp[t].back_used # 0 => state["back"].next # 0

GrowthPlan ==
  \A t \in Threads :
    /\ bpc[t] \in {"front", "size"} => BackUsed(t)
    /\ bpc[t] = "size" => /\ center_bo_offset <= tmp[t].back_required
                          /\ map.front <= tmp[t].front_required
    /\ bpc[t] = "expand" => /\ center_bo_offset <= tmp[t].center
                            /\ map.front <= tmp[t].size - tmp[t].center
                            /\ tmp[t].center # 0 => state["back"].next # 0
    /\ bpc[t] = "bo" => tmp[t].size = center_bo_offset + map.front

\* The ends that are or will be published.
BackEnds ==
  /\ state["back"].end <= map.back
  /\ \A t \in Threads :
       bpc[t] = "publish" /\ call[t].side = "back" => tmp[t].end <= map.back

FrontEnds ==
  /\ \A t \in Threads : bpc[t] = "read2" => call[t].side = "front"
  /\ state["back"].next = 0 =>
       /\ state["front"].end <= map.front
       /\ \A t \in Threads :
            /\ bpc[t] = "publish" /\ call[t].side = "front" => tmp[t].end <= map.front
            /\ bpc[t] = "read2" =>
                 tmp[t].value <= IF tmp[t].read = "center" THEN 0 ELSE map.front

MapOK == HolderOK /\ Geometry /\ GrowthPlan /\ BackEnds /\ FrontEnds

\* Once the back has been used it stays used.
BackStaysUsed == state["back"].next # 0 => state'["back"].next # 0

\* The atomic add touches no mapping.
LEMMA FetchMap ==
  ASSUME BlockTypeOK, GrowOK, MapOK, NEW t \in Threads, NEW s \in Sides, NEW n \in Sizes,
         Fetched(t, s, n), bpc[t] \in {"idle", "add"}
  PROVE  MapOK'
<1>1. /\ UNCHANGED <<center_bo_offset, bo_size, map, mutex, tmp>>
      /\ state' = [state EXCEPT ![s].next = @ + n]
      /\ call' = [call EXCEPT ![t] = [side |-> s, size |-> n]]
      /\ bpc'[t] \in {"return", "lock", "wait"}
  BY FetchOutcome DEF pool, BlockTypeOK
<1>2. \A u \in Threads \ {t} : bpc'[u] = bpc[u] /\ call'[u] = call[u]
  BY FetchOutcome DEF BlockTypeOK
<1>3. state'["back"].next = 0 => state["back"].next = 0
  BY <1>1, AnvBlockPoolAssumption DEF BlockTypeOK, Sides
<1>4. \A r \in Sides : state'[r].end = state[r].end
  BY <1>1 DEF BlockTypeOK
<1>5. BackStaysUsed
  BY <1>1, AnvBlockPoolAssumption DEF BlockTypeOK, Sides, BackStaysUsed
<1>6. HolderOK'
  BY <1>1, <1>2 DEF MapOK, HolderOK
<1>7. Geometry'
  BY <1>1, <1>2, <1>3 DEF MapOK, Geometry
<1>8. GrowthPlan'
  BY <1>1, <1>2, <1>5 DEF MapOK, GrowthPlan, BackUsed, BackStaysUsed
<1>9. BackEnds' /\ FrontEnds'
  BY <1>1, <1>2, <1>3, <1>4 DEF MapOK, BackEnds, FrontEnds, Sides
<1> QED
  BY <1>6, <1>7, <1>8, <1>9 DEF MapOK

\* Publishing, sleeping, waking and returning touch no mapping.
LEMMA AllocMap ==
  ASSUME BlockTypeOK, GrowOK, MapOK, NEW t \in Threads,
         Publish(t) \/ FutexWait(t) \/ FutexWake(t) \/ Return(t)
  PROVE  MapOK'
<1>1. CASE Publish(t)
  <2> DEFINE s == call[t].side
  <2>1. /\ UNCHANGED <<center_bo_offset, bo_size, map, mutex, call>>
        /\ bpc[t] = "publish" /\ s \in Sides
        /\ state' = [state EXCEPT ![s] = [next |-> NewNext(t), end |-> tmp[t].end]]
        /\ bpc'[t] \in {"wake", "return"}
    BY <1>1 DEF Publish, Goto, pool, BlockTypeOK
  <2>2. \A u \in Threads \ {t} : bpc'[u] = bpc[u] /\ tmp'[u] = tmp[u]
    BY <1>1 DEF Publish, Goto, Keep, BlockTypeOK
  <2>3. NewNext(t) \in Nat /\ NewNext(t) # 0
    BY <2>1 DEF GrowOK, GrowerCrosses, Growing, NewNext, BlockTypeOK
  <2>4. state'["back"].next = 0 => state["back"].next = 0 /\ s = "front"
    BY <2>1, <2>3 DEF BlockTypeOK, Sides
  <2>5. BackStaysUsed
    BY <2>1, <2>3 DEF BlockTypeOK, Sides, BackStaysUsed
  <2>6. HolderOK'
    BY <2>1, <2>2 DEF MapOK, HolderOK
  <2>7. Geometry'
    BY <2>1, <2>2, <2>4 DEF MapOK, Geometry
  <2>8. GrowthPlan'
    BY <2>1, <2>2, <2>5 DEF MapOK, GrowthPlan, BackUsed, BackStaysUsed
  <2>9. BackEnds'
    BY <2>1, <2>2 DEF MapOK, BackEnds, Sides, BlockTypeOK
  <2>10. FrontEnds'
    BY <2>1, <2>2, <2>4 DEF MapOK, FrontEnds, Sides, BlockTypeOK
  <2> QED
    BY <2>6, <2>7, <2>8, <2>9, <2>10 DEF MapOK
<1>2. CASE FutexWait(t) \/ FutexWake(t)
  <2>1. /\ UNCHANGED <<state, center_bo_offset, bo_size, map, mutex, call, tmp>>
        /\ \A u \in Threads : \/ bpc'[u] = bpc[u]
                              \/ /\ bpc[u] \in {"wait", "sleep", "wake"}
                                 /\ bpc'[u] \in {"sleep", "add", "return"}
    BY <1>2 DEF FutexWait, FutexWake, Goto, pool, locals, BlockTypeOK
  <2> QED
    BY <2>1 DEF MapOK, HolderOK, Geometry, GrowthPlan, BackUsed, BackEnds, FrontEnds
<1>3. CASE Return(t)
  <2>1. /\ UNCHANGED <<state, center_bo_offset, bo_size, map, mutex, tmp>>
        /\ bpc[t] = "return" /\ bpc'[t] = "idle"
        /\ \A u \in Threads \ {t} : bpc'[u] = bpc[u] /\ call'[u] = call[u]
    BY <1>3 DEF Return, Goto, pool, BlockTypeOK
  <2>2. HolderOK' /\ Geometry'
    BY <2>1 DEF MapOK, HolderOK, Geometry
  <2>3. GrowthPlan' /\ BackEnds' /\ FrontEnds'
    BY <2>1 DEF MapOK, GrowthPlan, BackUsed, BackEnds, FrontEnds
  <2> QED
    BY <2>2, <2>3 DEF MapOK
<1> QED
  BY <1>1, <1>2, <1>3

\* anv_block_pool_grow maps what the new end needs.
LEMMA GrowMap ==
  ASSUME BlockTypeOK, GrowOK, MapOK, NEW t \in Threads, Grow(t)
  PROVE  MapOK'
<1> USE DEF MapOK
<1>0. NoThread # t
  BY AnvBlockPoolAssumption
<1>1. CASE GrowLock(t)
  <2> DEFINE bu == AlignPage(state["back"].next)
  <2>1. /\ UNCHANGED <<state, center_bo_offset, bo_size, map, call>>
        /\ bpc[t] = "lock" /\ bpc'[t] = "front" /\ mutex = NoThread /\ mutex' = t
        /\ tmp'[t].back_used = bu
        /\ \A u \in Threads \ {t} : bpc'[u] = bpc[u] /\ tmp'[u] = tmp[u]
    BY <1>1 DEF GrowLock, Goto, Keep, pool, BlockTypeOK
  <2>2. bu = 0 <=> state["back"].next = 0
    BY AlignPageNat DEF BlockTypeOK, Sides
  <2> HIDE DEF bu
  <2>3. HolderOK' /\ Geometry'
    BY <1>0, <2>1, AnvBlockPoolAssumption DEF HolderOK, Geometry
  <2>4. GrowthPlan' /\ BackEnds' /\ FrontEnds'
    BY <2>1, <2>2 DEF GrowthPlan, Geometry, BackUsed, BackEnds, FrontEnds
  <2> QED
    BY <2>3, <2>4
<1>2. CASE GrowDecide(t)
  <2>1. /\ UNCHANGED <<state, center_bo_offset, bo_size, map, call>>
        /\ bpc[t] = "front"
        /\ \A u \in Threads \ {t} : bpc'[u] = bpc[u] /\ tmp'[u] = tmp[u]
    BY <1>2 DEF GrowDecide, Goto, Keep, pool, BlockTypeOK
  <2>2. \/ bpc'[t] = "read" /\ mutex' = NoThread
        \/ /\ bpc'[t] = "size" /\ mutex' = mutex
           /\ tmp'[t].back_used = tmp[t].back_used
           /\ tmp'[t].back_required = MAX2(tmp[t].back_used, center_bo_offset)
           /\ tmp'[t].front_required = MAX2(AlignPage(state["front"].next),
                                           bo_size - center_bo_offset)
    BY <1>2 DEF GrowDecide, Goto, Keep, BlockTypeOK
  <2>3. mutex = t /\ \A u \in Threads : bpc[u] # "bo"
    BY <2>1 DEF HolderOK
  <2>4. tmp[t].back_used \in Nat /\ AlignPage(state["front"].next) \in Nat
    BY <2>1, AlignPageNat DEF BlockTypeOK, TmpOK, Sides
  <2>5. bpc'[t] = "size" => /\ center_bo_offset <= tmp'[t].back_required
                            /\ map.front <= tmp'[t].front_required
    BY <2>2, <2>3, <2>4 DEF Geometry, MAX2, BlockTypeOK
  <2>6. HolderOK' /\ Geometry'
    BY <1>0, <2>1, <2>2, <2>3, AnvBlockPoolAssumption DEF HolderOK, Geometry
  <2>7. GrowthPlan' /\ BackEnds' /\ FrontEnds'
    BY <2>1, <2>2, <2>5 DEF GrowthPlan, BackUsed, BackEnds, FrontEnds
  <2> QED
    BY <2>6, <2>7
<1>3. CASE GrowDouble(t)
  <2>1. /\ UNCHANGED <<state, center_bo_offset, bo_size, map, mutex, bpc, call>>
        /\ bpc[t] = "size"
        /\ \A u \in Threads \ {t} : tmp'[u] = tmp[u]
        /\ tmp'[t].back_used = tmp[t].back_used
        /\ tmp'[t].back_required = tmp[t].back_required
        /\ tmp'[t].front_required = tmp[t].front_required
    BY <1>3 DEF GrowDouble, pool, BlockTypeOK, TmpOK
  <2> QED
    BY <2>1 DEF HolderOK, Geometry, GrowthPlan, BackUsed, BackEnds, FrontEnds
<1>4. CASE GrowCenter(t)
  <2> DEFINE v == tmp[t]
             c == Centered(v.size, v.back_used, v.front_used, v.back_required,
                           v.front_required)
  <2>1. /\ UNCHANGED <<state, center_bo_offset, bo_size, map, mutex, call>>
        /\ bpc[t] = "size" /\ bpc'[t] = "expand"
        /\ v.size >= v.back_required + v.front_required
        /\ tmp'[t].center = c /\ tmp'[t].size = v.size
        /\ \A u \in Threads \ {t} : bpc'[u] = bpc[u] /\ tmp'[u] = tmp[u]
    BY <1>4 DEF GrowCenter, Goto, Keep, pool, BlockTypeOK
  <2>2. /\ v.size \in Nat /\ v.back_used \in Nat /\ v.front_used \in Nat
        /\ v.back_required \in Nat /\ v.front_required \in Nat
    BY <2>1 DEF BlockTypeOK, TmpOK
  <2>3. /\ c \in Nat /\ v.size - c >= v.front_required
        /\ v.back_used = 0 => c = 0
        /\ v.back_used # 0 => c >= v.back_required
    <3>1. v.size >= v.back_required + v.front_required
      BY <2>1
    <3>2. c \in Nat /\ v.size - c >= v.front_required
      BY <2>2, <3>1, CenteredBounds
    <3>3. v.back_used = 0 => c = 0
      BY DEF Centered
    <3>4. v.back_used # 0 => c >= v.back_required
      BY <2>2, <3>1, CenteredBounds
    <3> QED
      BY <3>2, <3>3, <3>4
  <2> HIDE DEF c
  <2>4. /\ center_bo_offset <= c /\ map.front <= v.size - c
        /\ c # 0 => state["back"].next # 0
    BY <2>1, <2>2, <2>3 DEF GrowthPlan, BackUsed, BlockTypeOK
  <2>5. HolderOK' /\ Geometry'
    BY <2>1 DEF HolderOK, Geometry
  <2>6. GrowthPlan' /\ BackEnds' /\ FrontEnds'
    BY <2>1, <2>4 DEF GrowthPlan, BackUsed, BackEnds, FrontEnds
  <2> QED
    BY <2>5, <2>6
<1>5. CASE Expand(t)
  <2>1. /\ UNCHANGED <<state, bo_size, mutex, call, tmp>>
        /\ map'.back = tmp[t].center /\ map'.front = tmp[t].size - tmp[t].center
        /\ center_bo_offset' = tmp[t].center
        /\ bpc[t] = "expand" /\ bpc'[t] = "bo"
        /\ \A u \in Threads \ {t} : bpc'[u] = bpc[u]
    BY <1>5 DEF Expand, Goto, locals, BlockTypeOK
  <2>2. tmp[t].center \in Nat /\ tmp[t].size \in Nat
    BY <2>1 DEF BlockTypeOK, TmpOK
  <2>3. mutex = t /\ \A u \in Threads \ {t} : bpc[u] \notin {"front", "size", "expand", "bo"}
    BY <2>1 DEF HolderOK
  <2>4. /\ map.back <= map'.back /\ map.front <= map'.front
        /\ center_bo_offset <= center_bo_offset'
        /\ tmp[t].center # 0 => state["back"].next # 0
    BY <2>1 DEF Geometry, GrowthPlan
  <2>5. HolderOK'
    BY <2>1, <2>3 DEF HolderOK
  <2>6. Geometry'
    BY <2>1, <2>2, <2>3, <2>4 DEF Geometry, BlockTypeOK
  <2>7. GrowthPlan'
    BY <2>1, <2>2, <2>3 DEF GrowthPlan
  <2>8. BackEnds'
    BY <2>1, <2>2, <2>4 DEF BackEnds, BlockTypeOK, TmpOK, Sides
  <2>9. FrontEnds'
    BY <2>1, <2>2, <2>4 DEF FrontEnds, BlockTypeOK, TmpOK, Sides
  <2> QED
    BY <2>5, <2>6, <2>7, <2>8, <2>9
<1>6. CASE ExpandBo(t)
  <2>1. /\ UNCHANGED <<state, center_bo_offset, map, call>>
        /\ bo_size' = tmp[t].size /\ mutex' = NoThread
        /\ bpc[t] = "bo" /\ bpc'[t] = "read"
        /\ \A u \in Threads \ {t} : bpc'[u] = bpc[u] /\ tmp'[u] = tmp[u]
    BY <1>6 DEF ExpandBo, Goto, Keep, BlockTypeOK
  <2>2. HolderOK'
    BY <1>0, <2>1, AnvBlockPoolAssumption DEF HolderOK
  <2>3. Geometry'
    BY <2>1 DEF Geometry, GrowthPlan, BlockTypeOK
  <2>4. GrowthPlan' /\ BackEnds' /\ FrontEnds'
    BY <2>1 DEF GrowthPlan, BackUsed, BackEnds, FrontEnds
  <2> QED
    BY <2>2, <2>3, <2>4
<1>7. CASE ExpandFail(t)
  <2>1. /\ UNCHANGED <<state, center_bo_offset, bo_size, map, call>>
        /\ mutex' = NoThread /\ bpc[t] = "expand" /\ bpc'[t] = "lock"
        /\ \A u \in Threads \ {t} : bpc'[u] = bpc[u] /\ tmp'[u] = tmp[u]
    BY <1>7 DEF ExpandFail, Goto, Keep, pool, BlockTypeOK
  <2>2. HolderOK' /\ Geometry'
    BY <1>0, <2>1, AnvBlockPoolAssumption DEF HolderOK, Geometry
  <2>3. GrowthPlan' /\ BackEnds' /\ FrontEnds'
    BY <2>1 DEF GrowthPlan, BackUsed, BackEnds, FrontEnds
  <2> QED
    BY <2>2, <2>3
<1>8. CASE ReadCenter(t)
  <2>1. /\ UNCHANGED <<state, center_bo_offset, bo_size, map, mutex, call>>
        /\ bpc[t] = "read" /\ bpc'[t] \in {"lock", "publish"} /\ call[t].side = "back"
        /\ tmp'[t].end = center_bo_offset
        /\ \A u \in Threads \ {t} : bpc'[u] = bpc[u] /\ tmp'[u] = tmp[u]
    BY <1>8 DEF ReadCenter, Goto, Keep, Enough, pool, BlockTypeOK
  <2>2. HolderOK' /\ Geometry'
    BY <2>1 DEF HolderOK, Geometry
  <2>3. GrowthPlan' /\ FrontEnds'
    BY <2>1 DEF GrowthPlan, BackUsed, FrontEnds
  <2>4. BackEnds'
    BY <2>1 DEF BackEnds, Geometry, BlockTypeOK
  <2> QED
    BY <2>2, <2>3, <2>4
<1>9. CASE ReadFirst(t)
  <2>1. /\ UNCHANGED <<state, center_bo_offset, bo_size, map, mutex, call>>
        /\ bpc[t] = "read" /\ bpc'[t] = "read2" /\ call[t].side = "front"
        /\ \A u \in Threads \ {t} : bpc'[u] = bpc[u] /\ tmp'[u] = tmp[u]
    BY <1>9 DEF ReadFirst, Goto, Keep, pool, BlockTypeOK
  <2>2. \/ tmp'[t].read = "center" /\ tmp'[t].value = center_bo_offset
        \/ tmp'[t].read = "size" /\ tmp'[t].value = bo_size
    BY <1>9 DEF ReadFirst, Keep, BlockTypeOK
  <2>3. HolderOK' /\ Geometry'
    BY <2>1 DEF HolderOK, Geometry
  <2>4. GrowthPlan' /\ BackEnds'
    BY <2>1 DEF GrowthPlan, BackUsed, BackEnds
  <2>5. FrontEnds'
    BY <2>1, <2>2 DEF FrontEnds, Geometry, BlockTypeOK
  <2> QED
    BY <2>3, <2>4, <2>5
<1>10. CASE ReadSecond(t)
  <2> DEFINE v   == tmp[t].value
             end == IF tmp[t].read = "center" THEN (bo_size - v) % Word
                    ELSE (v - center_bo_offset) % Word
  <2>1. /\ UNCHANGED <<state, center_bo_offset, bo_size, map, mutex, call>>
        /\ bpc[t] = "read2" /\ bpc'[t] \in {"lock", "publish"}
        /\ tmp'[t].end = end
        /\ \A u \in Threads \ {t} : bpc'[u] = bpc[u] /\ tmp'[u] = tmp[u]
    BY <1>10 DEF ReadSecond, Goto, Keep, Enough, pool, BlockTypeOK
  <2>2. v \in Nat
    BY <2>1 DEF BlockTypeOK, TmpOK
  <2>3. state["back"].next = 0 => end <= map.front
    <3>1. SUFFICES ASSUME state["back"].next = 0 PROVE end <= map.front
      OBVIOUS
    <3>2. center_bo_offset = 0 /\ bo_size <= map.front
      BY <3>1 DEF Geometry, BlockTypeOK
    <3>3. CASE tmp[t].read = "center"
      <4>1. v = 0
        BY <2>1, <2>2, <3>1, <3>3 DEF FrontEnds
      <4>2. bo_size - v \in Int /\ bo_size - v >= 0 /\ bo_size - v <= map.front
        BY <3>2, <4>1 DEF BlockTypeOK
      <4>3. (bo_size - v) % Word \in Nat /\ (bo_size - v) % Word <= bo_size - v
        BY <4>2, ModBounds
      <4> QED
        BY <3>3, <4>2, <4>3 DEF BlockTypeOK
    <3>4. CASE tmp[t].read # "center"
      <4>1. v <= map.front
        BY <2>1, <2>2, <3>1, <3>4 DEF FrontEnds
      <4>2. v - center_bo_offset \in Int /\ v - center_bo_offset >= 0
            /\ v - center_bo_offset <= map.front
        BY <2>2, <3>2, <4>1
      <4>3. /\ (v - center_bo_offset) % Word \in Nat
            /\ (v - center_bo_offset) % Word <= v - center_bo_offset
        BY <4>2, ModBounds
      <4> QED
        BY <3>4, <4>2, <4>3 DEF BlockTypeOK
    <3> QED
      BY <3>3, <3>4
  <2> HIDE DEF end
  <2>4. HolderOK' /\ Geometry'
    BY <2>1 DEF HolderOK, Geometry
  <2>5. GrowthPlan' /\ BackEnds'
    BY <2>1 DEF GrowthPlan, BackUsed, BackEnds, FrontEnds
  <2>6. FrontEnds'
    BY <2>1, <2>3 DEF FrontEnds
  <2> QED
    BY <2>4, <2>5, <2>6
<1> QED
  BY <1>1, <1>2, <1>3, <1>4, <1>5, <1>6, <1>7, <1>8, <1>9, <1>10 DEF Grow

-----------------------------------------------------------------------------
(* The inductive invariant *)

BlockInv == BlockTypeOK /\ GrowOK /\ MapOK

\* An empty block pool satisfies the invariant.
LEMMA BlockInitInv == BlockPoolInit => BlockInv
<1> SUFFICES ASSUME BlockPoolInit PROVE BlockInv
  OBVIOUS
<1> USE AnvBlockPoolAssumption DEF BlockPoolInit, Sides
<1>1. BlockTypeOK
  BY DEF BlockTypeOK, TmpOK, Labels, NoPair, NoCall
<1>2. GrowOK
  BY DEF GrowOK, OneGrower, GrowerCrosses, CrossedIsGrowing, RoomForBlock, CallSizes,
         Growing, NoPair
<1>3. MapOK
  BY DEF MapOK, HolderOK, Geometry, GrowthPlan, BackEnds, FrontEnds, NoPair
<1> QED
  BY <1>1, <1>2, <1>3 DEF BlockInv

\* Every step of the block pool keeps the invariant.
LEMMA BlockNextInv == BlockInv /\ [BlockPoolNext]_bvars => BlockInv'
<1> SUFFICES ASSUME BlockInv, [BlockPoolNext]_bvars PROVE BlockInv'
  OBVIOUS
<1> USE DEF BlockInv
<1>1. ASSUME NEW t \in Threads,
             Retry(t) \/ \E s \in Sides, n \in Sizes : Call(t, s, n)
      PROVE  BlockInv'
  <2>1. BlockTypeOK'
    BY <1>1, AllocTypes
  <2>2. GrowOK' /\ MapOK'
    BY <1>1, FetchSteps, FetchGrow, FetchMap
  <2> QED
    BY <2>1, <2>2
<1>2. ASSUME NEW t \in Threads, Grow(t) PROVE BlockInv'
  BY <1>2, GrowTypes, QuietSteps, QuietGrow, GrowMap
<1>3. ASSUME NEW t \in Threads, FutexWait(t) \/ FutexWake(t) PROVE BlockInv'
  BY <1>3, AllocTypes, QuietSteps, QuietGrow, AllocMap
<1>4. ASSUME NEW t \in Threads, Publish(t) PROVE BlockInv'
  BY <1>4, AllocTypes, PublishGrow, AllocMap
<1>5. ASSUME NEW t \in Threads, Return(t) PROVE BlockInv'
  BY <1>5, AllocTypes, ReturnGrow, AllocMap
<1>6. CASE UNCHANGED bvars
  <2> USE <1>6 DEF bvars, pool, locals
  <2>1. BlockTypeOK'
    BY DEF BlockTypeOK, TmpOK
  <2>2. Quiet
    BY DEF Quiet, Growing
  <2>3. MapOK'
    BY DEF MapOK, HolderOK, Geometry, GrowthPlan, BackUsed, BackEnds, FrontEnds
  <2> QED
    BY <2>1, <2>2, <2>3, QuietGrow
<1> QED
  BY <1>1, <1>2, <1>3, <1>4, <1>5, <1>6 DEF BlockPoolNext, AllocStep

\* For any threads and block sizes, the invariant above holds of the pool.
THEOREM BlockInvariant == BlockPoolSpec => []BlockInv
<1> QED
  BY BlockInitInv, BlockNextInv, PTL DEF BlockPoolSpec

\* For any threads and block sizes, at most one thread grows a side of the
\* pool (anv_block_pool_alloc_new).
THEOREM OneThreadGrows == BlockPoolSpec => []OneGrower
<1>1. BlockInv => OneGrower
  BY DEF BlockInv, GrowOK
<1> QED
  BY <1>1, BlockInvariant, PTL

\* For any threads, block sizes and page size, the map reaches what has been
\* handed out (anv_block_pool_grow).
THEOREM MapReachesBlocks == BlockPoolSpec => []MapCoversBlocks
<1>1. BlockInv => MapCoversBlocks
  BY DEF BlockInv, MapOK, BackEnds, FrontEnds, MapCoversBlocks
<1> QED
  BY <1>1, BlockInvariant, PTL

-----------------------------------------------------------------------------
(* The refinement *)

\* Used, by whether there is a thread that grows the side.
LEMMA UsedIs ==
  ASSUME OneGrower, NEW s \in Sides
  PROVE  /\ \A t \in Threads : GrowingOn(t, s) => Used[s] = NewNext(t)
         /\ (\A t \in Threads : ~ GrowingOn(t, s)) => Used[s] = state[s].next
<1>1. ASSUME NEW t \in Threads, GrowingOn(t, s) PROVE Used[s] = NewNext(t)
  <2>1. (CHOOSE u \in Threads : Growing(u) /\ call[u].side = s) = t
    BY <1>1 DEF OneGrower, GrowingOn
  <2> QED
    BY <1>1, <2>1 DEF Used, GrowingOn
<1>2. (\A t \in Threads : ~ GrowingOn(t, s)) => Used[s] = state[s].next
  BY DEF Used, GrowingOn
<1> QED
  BY <1>1, <1>2

\* How far a side is used up: to the block of its grower, if it has one.
LEMMA UsedIsNext ==
  ASSUME OneGrower', NEW s \in Sides
  PROVE  /\ \A t \in Threads : GrowingOn(t, s)' => Used'[s] = NewNext(t)'
         /\ (\A t \in Threads : ~ GrowingOn(t, s)') => Used'[s] = state'[s].next
<1>1. ASSUME NEW t \in Threads, GrowingOn(t, s)' PROVE Used'[s] = NewNext(t)'
  <2>1. (CHOOSE u \in Threads : Growing(u)' /\ call'[u].side = s) = t
    BY <1>1 DEF OneGrower, GrowingOn
  <2> QED
    BY <1>1, <2>1 DEF Used, GrowingOn
<1>2. (\A t \in Threads : ~ GrowingOn(t, s)') => Used'[s] = state'[s].next
  BY DEF Used, GrowingOn
<1> QED
  BY <1>1, <1>2

\* The block of each thread in the abstract allocator.
BlockOf(t) == [side |-> call[t].side, offset |-> got[t].next, size |-> call[t].size]
Blocks == [t \in Threads |-> IF Decided(t) THEN BlockOf(t) ELSE NoBlock]

\* A block is never the missing one.
LEMMA BlockIsNotNone ==
  ASSUME BlockTypeOK, NEW t \in Threads
  PROVE  BlockOf(t) # NoBlock
BY AnvBlockPoolAssumption DEF BlockTypeOK, BlockOf

\* Two values of Used are equal if they agree on both sides.
LEMMA SameUsed ==
  ASSUME \A s \in Sides : Used'[s] = Used[s]
  PROVE  Used' = Used
<1>1. Used = [s \in Sides |-> Used[s]]
  BY Zenon DEF Used
<1>2. Used' = [s \in Sides |-> Used'[s]]
  BY Zenon DEF Used
<1> QED
  BY <1>1, <1>2

\* A step that leaves the pair and the growing threads alone is invisible.
LEMMA QuietRefines ==
  ASSUME BlockInv, BlockInv', Quiet, \A u \in Threads : Decided(u)' <=> Decided(u)
  PROVE  Used' = Used /\ Blocks' = Blocks
<1>1. OneGrower /\ OneGrower'
  BY DEF BlockInv, GrowOK
<1>2. ASSUME NEW s \in Sides PROVE Used'[s] = Used[s]
  <2>1. \A u \in Threads : /\ GrowingOn(u, s)' <=> GrowingOn(u, s)
                           /\ NewNext(u)' = NewNext(u)
    BY DEF Quiet, GrowingOn, NewNext
  <2>2. state' = state
    BY DEF Quiet
  <2> QED
    BY <1>1, <2>1, <2>2, UsedIs, UsedIsNext
<1>3. Blocks' = Blocks
  BY DEF Quiet, Blocks, BlockOf
<1> QED
  BY <1>2, <1>3, SameUsed

\* The steps that QuietSteps lists decide nothing either.
LEMMA QuietDecides ==
  ASSUME BlockTypeOK, NEW t \in Threads, Grow(t) \/ FutexWait(t) \/ FutexWake(t)
  PROVE  \A u \in Threads : Decided(u)' <=> Decided(u)
<1>1. CASE Grow(t)
  <2>1. Growing(t) /\ \A u \in Threads \ {t} : bpc'[u] = bpc[u]
    BY <1>1 DEF Grow, GrowLock, GrowDecide, GrowDouble, GrowCenter, Expand, ExpandBo,
                ExpandFail, ReadCenter, ReadFirst, ReadSecond, Goto, Growing,
                BlockTypeOK
  <2>2. Quiet
    BY <1>1, QuietSteps
  <2> QED
    BY <2>1, <2>2 DEF Quiet, Decided, Growing
<1>2. CASE FutexWait(t)
  BY <1>2 DEF FutexWait, Goto, Decided, Growing, BlockTypeOK
<1>3. CASE FutexWake(t)
  BY <1>3 DEF FutexWake, Decided, Growing, BlockTypeOK
<1> QED
  BY <1>1, <1>2, <1>3

\* A fetch-and-add that gives the thread its block, or makes it grow the pool
\* for it, allocates the block; one after which it waits does nothing.
LEMMA FetchRefines ==
  ASSUME BlockInv, BlockInv', NEW t \in Threads, NEW s \in Sides, NEW n \in Sizes,
         Fetched(t, s, n), bpc[t] \in {"idle", "add"}
  PROVE  \/ UNCHANGED <<Used, Blocks>>
         \/ /\ Blocks[t] = NoBlock
            /\ Blocks' = [Blocks EXCEPT ![t] = [side |-> s, offset |-> Used[s],
                                                size |-> n]]
            /\ Used' = [Used EXCEPT ![s] = @ + n]
<1> USE DEF BlockInv
<1>0. OneGrower /\ OneGrower'
  BY DEF GrowOK
<1>a. /\ n \in Nat
      /\ state' = [state EXCEPT ![s].next = @ + n]
      /\ got' = [got EXCEPT ![t] = state[s]]
      /\ call' = [call EXCEPT ![t] = [side |-> s, size |-> n]]
  BY FetchOutcome
<1>b. \/ bpc' = [bpc EXCEPT ![t] = "return"] /\ state[s].next + n <= state[s].end
      \/ /\ bpc' = [bpc EXCEPT ![t] = "lock"]
         /\ state[s].next + n > state[s].end /\ state[s].next <= state[s].end
      \/ bpc' = [bpc EXCEPT ![t] = "wait"] /\ state[s].next > state[s].end
  BY FetchOutcome
<1>c. \A u \in Threads \ {t} : bpc'[u] = bpc[u] /\ call'[u] = call[u] /\ got'[u] = got[u]
  BY <1>a, <1>b DEF BlockTypeOK
<1>d. /\ call'[t] = [side |-> s, size |-> n] /\ got'[t] = state[s]
      /\ state'[s].next = state[s].next + n
      /\ \A r \in Sides \ {s} : state'[r] = state[r]
  BY <1>a DEF BlockTypeOK
<1>e. ~ Decided(t) /\ ~ Growing(t)
  BY DEF Decided, Growing
<1>2. \A r \in Sides \ {s} : Used'[r] = Used[r]
  <2> SUFFICES ASSUME NEW r \in Sides \ {s} PROVE Used'[r] = Used[r]
    OBVIOUS
  <2>1. state'[r] = state[r]
    BY <1>d
  <2>2. \A u \in Threads : /\ GrowingOn(u, r)' <=> GrowingOn(u, r)
                           /\ GrowingOn(u, r) => NewNext(u)' = NewNext(u)
    BY <1>c, <1>d, <1>e DEF GrowingOn, Growing, NewNext
  <2> QED
    BY <1>0, <2>1, <2>2, UsedIs, UsedIsNext
<1>3. CASE bpc' = [bpc EXCEPT ![t] = "wait"] /\ state[s].next > state[s].end
  <2>1. ~ Growing(t)' /\ ~ Decided(t)'
    BY <1>3 DEF Growing, Decided, BlockTypeOK
  <2>2. PICK u \in Threads : GrowingOn(u, s)
    BY <1>3, SMTT(40) DEF GrowOK, CrossedIsGrowing, BlockTypeOK
  <2>3. u # t /\ GrowingOn(u, s)' /\ NewNext(u)' = NewNext(u)
    BY <1>c, <1>e, <2>2 DEF GrowingOn, Growing, NewNext
  <2>4. Used'[s] = Used[s]
    BY <1>0, <2>2, <2>3, UsedIs, UsedIsNext
  <2>5. Blocks' = Blocks
    BY <1>c, <1>e, <2>1 DEF Blocks, BlockOf, Decided, Growing
  <2> QED
    BY <1>2, <2>4, <2>5, SameUsed
<1>4. CASE /\ bpc' = [bpc EXCEPT ![t] = "return"] \/ bpc' = [bpc EXCEPT ![t] = "lock"]
           /\ state[s].next <= state[s].end
  <2>1. Used[s] = state[s].next
    BY <1>0, <1>4, NobodyGrows, UsedIs
  <2>2. Decided(t)'
    BY <1>4 DEF Decided, Growing, BlockTypeOK
  <2>3. Used'[s] = state[s].next + n
    <3>1. \A u \in Threads \ {t} : ~ GrowingOn(u, s)'
      <4>1. \A u \in Threads : ~ GrowingOn(u, s)
        BY <1>4, NobodyGrows
      <4> QED
        BY <1>c, <4>1 DEF GrowingOn, Growing
    <3>2. CASE GrowingOn(t, s)'
      <4>1. NewNext(t)' = state[s].next + n
        BY <1>d DEF NewNext
      <4> QED
        BY <1>0, <3>2, <4>1, UsedIsNext
    <3>3. CASE ~ GrowingOn(t, s)'
      BY <1>0, <1>d, <3>1, <3>3, UsedIsNext
    <3> QED
      BY <3>2, <3>3
  <2>4. Used' = [Used EXCEPT ![s] = @ + n]
    <3>1. Used' = [r \in Sides |-> Used'[r]]
      BY Zenon DEF Used
    <3>2. Used = [r \in Sides |-> Used[r]]
      BY Zenon DEF Used
    <3>3. DOMAIN Used = Sides
      BY DEF Used
    <3>4. [Used EXCEPT ![s] = @ + n] = [r \in Sides |-> IF r = s THEN Used[s] + n ELSE Used[r]]
      BY <3>3
    <3> HIDE DEF Used
    <3>5. \A r \in Sides : Used'[r] = IF r = s THEN Used[s] + n ELSE Used[r]
      BY <1>2, <2>1, <2>3
    <3> QED
      BY <3>1, <3>4, <3>5
  <2>5. Blocks' = [Blocks EXCEPT ![t] = [side |-> s, offset |-> Used[s], size |-> n]]
    <3>1. BlockOf(t)' = [side |-> s, offset |-> Used[s], size |-> n]
      BY <1>d, <2>1 DEF BlockOf
    <3> QED
      BY <1>c, <2>2, <3>1 DEF Blocks, BlockOf, Decided, Growing
  <2> QED
    BY <1>e, <2>4, <2>5 DEF Blocks
<1> QED
  BY <1>a, <1>b, <1>3, <1>4 DEF BlockTypeOK

\* The exchange makes the pair agree with what has been handed out.
LEMMA PublishRefines ==
  ASSUME BlockInv, BlockInv', NEW t \in Threads, Publish(t)
  PROVE  UNCHANGED <<Used, Blocks>>
<1> DEFINE s == call[t].side
<1> USE DEF BlockInv
<1>1. /\ bpc[t] = "publish" /\ call' = call /\ got' = got /\ s \in Sides
      /\ state' = [state EXCEPT ![s] = [next |-> NewNext(t), end |-> tmp[t].end]]
      /\ \/ bpc' = [bpc EXCEPT ![t] = "wake"]
         \/ bpc' = [bpc EXCEPT ![t] = "return"]
  BY DEF Publish, Goto, BlockTypeOK
<1>2. OneGrower /\ OneGrower'
  BY DEF GrowOK
<1>3. /\ GrowingOn(t, s) /\ ~ Growing(t)' /\ Decided(t) /\ Decided(t)'
      /\ \A u \in Threads \ {t} : bpc'[u] = bpc[u]
  BY <1>1 DEF Growing, GrowingOn, Decided, BlockTypeOK
<1>4. \A u \in Threads : NewNext(u)' = NewNext(u)
  BY <1>1 DEF NewNext
<1>5. ASSUME NEW r \in Sides PROVE Used'[r] = Used[r]
  <2>1. CASE r = s
    <3>1. \A u \in Threads : ~ GrowingOn(u, s)'
      BY <1>1, <1>2, <1>3 DEF OneGrower, GrowingOn, Growing
    <3>2. state'[s].next = NewNext(t)
      BY <1>1 DEF BlockTypeOK
    <3> QED
      BY <1>1, <1>2, <1>3, <2>1, <3>1, <3>2, UsedIs, UsedIsNext
  <2>2. CASE r # s
    <3>1. \A u \in Threads : GrowingOn(u, r)' <=> GrowingOn(u, r)
      BY <1>1, <1>3, <2>2 DEF GrowingOn, Growing
    <3>2. state'[r] = state[r]
      BY <1>1, <2>2 DEF BlockTypeOK
    <3> QED
      BY <1>2, <1>4, <3>1, <3>2, UsedIs, UsedIsNext
  <2> QED
    BY <2>1, <2>2
<1>6. Blocks' = Blocks
  BY <1>1, <1>3 DEF Blocks, BlockOf, Decided, Growing
<1> QED
  BY <1>5, <1>6, SameUsed

\* Returning hands the block over and uses up nothing.
LEMMA ReturnRefines ==
  ASSUME BlockInv, BlockInv', NEW t \in Threads, Return(t)
  PROVE  /\ Blocks[t] # NoBlock
         /\ Blocks' = [Blocks EXCEPT ![t] = NoBlock]
         /\ Used' = Used
<1> USE DEF BlockInv
<1>1. /\ bpc[t] = "return" /\ bpc' = [bpc EXCEPT ![t] = "idle"] /\ state' = state
      /\ call' = [call EXCEPT ![t] = NoCall] /\ got' = [got EXCEPT ![t] = NoPair]
  BY DEF Return, Goto
<1>2. /\ Decided(t) /\ ~ Decided(t)' /\ ~ Growing(t) /\ ~ Growing(t)'
      /\ \A u \in Threads \ {t} : bpc'[u] = bpc[u] /\ call'[u] = call[u] /\ got'[u] = got[u]
  BY <1>1 DEF Decided, Growing, BlockTypeOK
<1>3. \A u \in Threads \ {t} : /\ Decided(u)' <=> Decided(u)
                              /\ BlockOf(u)' = BlockOf(u) /\ NewNext(u)' = NewNext(u)
  BY <1>2 DEF Decided, Growing, BlockOf, NewNext
<1>4. Blocks' = [Blocks EXCEPT ![t] = NoBlock]
  BY <1>2, <1>3 DEF Blocks
<1>5. Blocks[t] # NoBlock
  BY <1>2, BlockIsNotNone DEF Blocks
<1>6. ASSUME NEW s \in Sides PROVE Used'[s] = Used[s]
  <2>1. \A u \in Threads : GrowingOn(u, s)' <=> GrowingOn(u, s)
    BY <1>2 DEF GrowingOn, Growing
  <2>2. \A u \in Threads : GrowingOn(u, s) => NewNext(u)' = NewNext(u)
    BY <1>2, <1>3 DEF GrowingOn
  <2>3. OneGrower /\ OneGrower'
    BY DEF GrowOK
  <2> QED
    BY <1>1, <2>1, <2>2, <2>3, UsedIs, UsedIsNext
<1> QED
  BY <1>4, <1>5, <1>6, SameUsed

\* An empty block pool is an empty allocator.
LEMMA InitRefines == BlockPoolInit => Abstract!Init
<1> SUFFICES ASSUME BlockPoolInit PROVE Abstract!Init
  OBVIOUS
<1>1. \A t \in Threads : ~ Decided(t) /\ ~ Growing(t)
  BY DEF BlockPoolInit, Decided, Growing
<1>2. Used = [s \in Sides |-> 0]
  BY <1>1 DEF Used, BlockPoolInit, NoPair
<1>3. [t \in Threads |->
         IF Decided(t) THEN [side |-> call[t].side, offset |-> got[t].next,
                             size |-> call[t].size]
                       ELSE NoBlock] = [t \in Threads |-> NoBlock]
  BY <1>1
<1> QED
  BY <1>2, <1>3 DEF Abstract!Init

\* Every step of the block pool is a step of the allocator, or none.
LEMMA NextRefines ==
  BlockInv /\ BlockInv' /\ [BlockPoolNext]_bvars => [Abstract!Next]_(Abstract!vars)
<1> SUFFICES ASSUME BlockInv, BlockInv', [BlockPoolNext]_bvars
             PROVE  Abstract!Next \/ UNCHANGED Abstract!vars
  OBVIOUS
<1>0. BlockTypeOK /\ GrowOK
  BY DEF BlockInv
<1>1. ASSUME UNCHANGED <<Used, Blocks>> PROVE UNCHANGED Abstract!vars
  BY <1>1 DEF Blocks, BlockOf, Abstract!vars
<1>2. ASSUME NEW t \in Threads,
             Retry(t) \/ \E s \in Sides, n \in Sizes : Call(t, s, n)
      PROVE  Abstract!Next \/ UNCHANGED Abstract!vars
  <2>1. PICK s \in Sides, n \in Sizes : Fetched(t, s, n) /\ bpc[t] \in {"idle", "add"}
    BY <1>0, <1>2, FetchSteps
  <2>2. \/ UNCHANGED <<Used, Blocks>>
        \/ /\ Blocks[t] = NoBlock
           /\ Blocks' = [Blocks EXCEPT ![t] = [side |-> s, offset |-> Used[s], size |-> n]]
           /\ Used' = [Used EXCEPT ![s] = @ + n]
    BY <2>1, FetchRefines
  <2>3. ASSUME /\ Blocks[t] = NoBlock
               /\ Blocks' = [Blocks EXCEPT ![t] = [side |-> s, offset |-> Used[s],
                                                   size |-> n]]
               /\ Used' = [Used EXCEPT ![s] = @ + n]
        PROVE  Abstract!Alloc(t, s, n)
    BY <2>3 DEF Blocks, BlockOf, Abstract!Alloc
  <2> QED
    BY <1>1, <2>2, <2>3 DEF Abstract!Next
<1>3. ASSUME NEW t \in Threads, Grow(t) \/ FutexWait(t) \/ FutexWake(t)
      PROVE  UNCHANGED Abstract!vars
  BY <1>0, <1>1, <1>3, QuietSteps, QuietDecides, QuietRefines
<1>4. ASSUME NEW t \in Threads, Publish(t) PROVE UNCHANGED Abstract!vars
  BY <1>1, <1>4, PublishRefines
<1>5. ASSUME NEW t \in Threads, Return(t) PROVE Abstract!Next
  <2>1. /\ Blocks[t] # NoBlock
        /\ Blocks' = [Blocks EXCEPT ![t] = NoBlock]
        /\ Used' = Used
    BY <1>5, ReturnRefines
  <2>2. Abstract!Return(t)
    BY <2>1 DEF Blocks, BlockOf, Abstract!Return
  <2> QED
    BY <2>2 DEF Abstract!Next
<1>6. CASE UNCHANGED bvars
  BY <1>6 DEF bvars, pool, locals, Abstract!vars, Used, Decided, Growing, NewNext
<1> QED
  BY <1>2, <1>3, <1>4, <1>5, <1>6 DEF BlockPoolNext, AllocStep

\* For any threads and block sizes, the lock-free allocation with its growth
\* hands out consecutive blocks on each side (anv_block_pool_alloc_new).
THEOREM BlocksAreConsecutive == BlockPoolSpec => ImplementsBumpAllocator
<1>1. BlockPoolSpec => []BlockInv
  BY BlockInvariant
<1> QED
  BY <1>1, InitRefines, NextRefines, PTL
  DEF BlockPoolSpec, ImplementsBumpAllocator, Abstract!Spec

-----------------------------------------------------------------------------
(* The state pool *)

WantOK == want \in [Threads -> Lists]

\* Nobody waits for a block at first.
LEMMA InitWant == Init => WantOK
BY DEF Init, WantOK, Lists

\* A thread asks for blocks of the size of its list.
LEMMA NextWant == WantOK /\ [Next]_vars => WantOK'
<1> SUFFICES ASSUME WantOK, [Next]_vars PROVE WantOK'
  OBVIOUS
<1> USE DEF WantOK, Lists
<1>1. ASSUME NEW t \in Threads, Step(t) PROVE WantOK'
  <2>1. want' = want \/ want' = [want EXCEPT ![t] = Back]
    BY <1>1 DEF Step, svars, mine, PopHead, PopLink, PopSwap, PushChain, PushLink, PushSwap,
                NewBlock, NewChunk, RefillBlock, BlockReturns, BucketWake, BucketWait,
                Done
  <2> QED
    BY <2>1
<1>2. ASSUME NEW t \in Threads, NEW l \in Requests, CallAlloc(t, l) PROVE WantOK'
  BY <1>2, AnvStatePoolAssumption DEF CallAlloc
<1>3. ASSUME NEW t \in Threads, NEW s \in held, CallFree(t, s) PROVE WantOK'
  BY <1>3 DEF CallFree
<1>4. CASE UNCHANGED vars
  BY <1>4 DEF vars, svars, mine
<1> QED
  BY <1>1, <1>2, <1>3, <1>4 DEF Next

\* Every step of the state pool is one of the block pool or invisible to it.
LEMMA NextIsBlockNext == WantOK /\ [Next]_vars => [BlockPoolNext]_bvars
<1> SUFFICES ASSUME WantOK, [Next]_vars PROVE BlockPoolNext \/ UNCHANGED bvars
  OBVIOUS
<1>1. ASSUME NEW t \in Threads, AllocStep(t) PROVE BlockPoolNext
  BY <1>1 DEF BlockPoolNext
<1>2. ASSUME NEW t \in Threads, NewBlock(t) PROVE BlockPoolNext
  <2>1. ChunkSize(want[t]) \in Sizes
    BY <1>2, AnvStatePoolAssumption DEF NewBlock, WantOK
  <2>2. \E s \in Sides : Call(t, s, ChunkSize(want[t]))
    BY <1>2 DEF NewBlock, Sides
  <2> QED
    BY <2>1, <2>2 DEF BlockPoolNext
<1>3. ASSUME NEW t \in Threads, RefillBlock(t) PROVE BlockPoolNext
  BY <1>3, AnvStatePoolAssumption DEF RefillBlock, BlockPoolNext, Sides
<1>4. ASSUME NEW t \in Threads, BlockReturns(t) PROVE BlockPoolNext
  BY <1>4 DEF BlockReturns, BlockPoolNext
<1>5. ASSUME NEW t \in Threads,
             \/ PopHead(t) \/ PopLink(t) \/ PopSwap(t)
             \/ PushChain(t) \/ PushLink(t) \/ PushSwap(t)
             \/ NewChunk(t) \/ BucketWake(t) \/ BucketWait(t) \/ Done(t)
      PROVE  UNCHANGED bvars
  BY <1>5 DEF PopHead, PopLink, PopSwap, PushChain, PushLink, PushSwap, NewChunk,
              BucketWake, BucketWait, Done
<1>6. ASSUME NEW t \in Threads,
             (\E l \in Requests : CallAlloc(t, l)) \/ (\E s \in held : CallFree(t, s))
      PROVE  UNCHANGED bvars
  BY <1>6 DEF CallAlloc, CallFree
<1>7. CASE UNCHANGED vars
  BY <1>7 DEF vars
<1> QED
  BY <1>1, <1>2, <1>3, <1>4, <1>5, <1>6, <1>7 DEF Next, Step

\* For any threads and sizes, the state pool's calls of the block pool are
\* calls that the block pool's specification allows.
THEOREM UsesBlockPool == Spec => BlockPoolSpec
<1>1. Init => BlockPoolInit
  BY DEF Init
<1> QED
  BY <1>1, InitWant, NextWant, NextIsBlockNext, PTL DEF Spec, BlockPoolSpec

\* For any threads, inside the state pool no two threads grow the same side
\* of the block pool (anv_block_pool_alloc_new).
THEOREM StatePoolOneGrower == Spec => []OneGrower
BY UsesBlockPool, OneThreadGrows, PTL

\* For any threads, sizes and page size, the map of the state pool's block
\* pool reaches the blocks (anv_block_pool_grow).
THEOREM StatePoolMapped == Spec => []MapCoversBlocks
BY UsesBlockPool, MapReachesBlocks, PTL

\* For any threads and sizes, the blocks that the state pool gets follow one
\* another without overlap or loss (anv_block_pool_alloc_new).
THEOREM StatePoolBlocks == Spec => ImplementsBumpAllocator
BY UsesBlockPool, BlocksAreConsecutive, PTL

-----------------------------------------------------------------------------
(* The free lists: what the threads know, and where memory is *)

\* Where a thread of the state pool can be; the head of a list; a chain.
StatePCs == {"idle", "pop", "next", "popcas", "push", "link", "pushcas", "new", "refill",
             "block", "wait", "sleep", "wake", "done"}
Heads == [offset : Offsets \cup {EMPTY}, count : 0..CountRange-1]
ChainType == [list : Lists, offset : Int, count : Nat \ {0}]

\* The thread is in anv_free_list_pop, or in anv_free_list_push.
Popping(t) == pc[t] \in {"pop", "next", "popcas"}
Pushing(t) == pc[t] \in {"push", "link", "pushcas"}

\* The thread has read a head, of this list.
HasRead(t) == pc[t] \in {"next", "popcas", "link", "pushcas"}
ReadList(t) == IF pc[t] \in {"next", "popcas"} THEN at[t] ELSE Head(pushes[t]).list

\* The types of the variables.
StateTypeOK ==
  /\ head \in [Lists -> Heads]
  /\ link \in [Offsets -> Offsets \cup {EMPTY, Garbage}]
  /\ fixed \in [Buckets -> [next : Nat, end : Nat]]
  /\ pc \in [Threads -> StatePCs]
  /\ want \in [Threads -> Lists] /\ at \in [Threads -> Lists]
  /\ cur = [t \in Threads |-> cur[t]] /\ nxt = [t \in Threads |-> nxt[t]]
  /\ chunk \in [Threads -> Offsets \cup {EMPTY}]
  /\ pushes \in [Threads -> Seq(ChainType)]
  /\ held \subseteq [offset : Offsets, list : Lists]
  /\ ops \in Nat

\* Whom a thread works for, in which state of its call.
Small(t) == ChunkSize(want[t]) < BlockSize
Refilling(t) == pc[t] = "refill" \/ (pc[t] = "block" /\ Small(t))
CallOf(t) == [side |-> IF want[t] = Back THEN "back" ELSE "front",
              size |-> IF Small(t) THEN BlockSize ELSE ChunkSize(want[t])]

\* A thread is in the block pool exactly while it is in "block", with the call
\* that its request needs. A bucket is refilled for a small chunk only.
CallMatches(t) ==
  /\ pc[t] = "block" <=> bpc[t] # "idle"
  /\ pc[t] = "block" => call[t] = CallOf(t)
  /\ pc[t] = "refill" => Small(t)

\* The list being popped is that of the size asked for, or of a larger bucket.
PopMatches(t) ==
  Popping(t) => IF want[t] = Back THEN at[t] = Back ELSE at[t] \in want[t]..NumBuckets-1

\* A thread pushes as long as it has chains, which are for different lists. It
\* has its chunk from then on until the call returns.
PushMatches(t) ==
  /\ Pushing(t) <=> pushes[t] # <<>>
  /\ chunk[t] # EMPTY => pc[t] \in {"push", "link", "pushcas", "wake", "done"}
  /\ pc[t] \in {"wake", "done"} => chunk[t] # EMPTY
  /\ \A i, j \in DOMAIN pushes[t] : pushes[t][i].list = pushes[t][j].list => i = j

\* What the count is for: a head that was read is the head that there is now, if
\* the counts agree, and then the link that was read is still the link.
ReadMatches(t) ==
  /\ HasRead(t) => /\ cur[t] \in Heads
                   /\ cur[t].count <= head[ReadList(t)].count
                   /\ cur[t].count = head[ReadList(t)].count => cur[t] = head[ReadList(t)]
  /\ pc[t] \in {"next", "popcas"} => cur[t].offset # EMPTY
  /\ pc[t] = "popcas" /\ head[at[t]] = cur[t] => nxt[t] = link[cur[t].offset]

\* The chain is linked up when the exchange puts it on its list.
ChainLinked(t) ==
  LET p == Head(pushes[t]) IN
    /\ pc[t] \in {"link", "pushcas"} =>
         \A o \in ChainOf(p) \ {TailOf(p)} : link[o] = o + ChunkSize(p.list)
    /\ pc[t] = "pushcas" => link[TailOf(p)] = cur[t].offset

\* All of this of a thread.
ThreadOK(t) ==
  CallMatches(t) /\ PopMatches(t) /\ PushMatches(t) /\ ReadMatches(t) /\ ChainLinked(t)

\* One thread at most gets the next block of a bucket, and the bucket has none
\* meanwhile. What is left of a block is a number of whole chunks.
BucketOK ==
  /\ \A t, u \in Threads : Refilling(t) /\ Refilling(u) /\ want[t] = want[u] => t = u
  /\ \A t \in Threads : Refilling(t) => fixed[want[t]].next > fixed[want[t]].end
  /\ \A b \in Buckets : fixed[b].next <= fixed[b].end =>
       \E k \in Nat : fixed[b].end = fixed[b].next + k * ChunkSize(b)

\* The threads that may still take a block, and that there is memory for them.
PendingPCs == {"pop", "next", "popcas", "new", "refill", "wait", "sleep"}
Pending == {t \in Threads : \/ pc[t] \in PendingPCs
                            \/ (pc[t] = "block" /\ ~ Decided(t))}
MemoryBound ==
  \A s \in Sides : Used[s] + Cardinality(Pending) * ChunkSize(NumBuckets - 1) <= Memory

\* List l is a stack of n[l] chunks: the k-th from the bottom is at lev[l][k].
Linked(n, lev) ==
  \A l \in Lists :
    /\ head[l].offset = lev[l][n[l]] /\ lev[l][0] = EMPTY
    /\ \A k \in 1..n[l] : lev[l][k] \in Offsets /\ link[lev[l][k]] = lev[l][k - 1]
    /\ \A j, k \in 1..n[l] : lev[l][j] = lev[l][k] => j = k

\* Byte a is in home h. The bytes that the block pool has handed out.
In(a, h) == a \in h[3]..h[3] + h[4] - 1
Bytes == -Used["back"]..Used["front"]-1

\* The homes H divide the bytes A between them.
Partition(H, A) ==
  /\ \A h \in H : \A a : In(a, h) => a \in A
  /\ \A a \in A : \E h \in H : In(a, h)
  /\ \A g, h \in H : \A a : In(a, g) /\ In(a, h) => g = h

-----------------------------------------------------------------------------
(* The sizes of the buckets *)

\* A nonempty set of naturals has a least element: what the provers have in
\* the place of induction.
LEMMA Least ==
  ASSUME NEW T \in SUBSET Nat, T # {}
  PROVE  \E m \in T : \A n \in T : m <= n
<1> DEFINE R == OpToRel(<, Nat)
<1>1. IsWellFoundedOn(R, Nat)
  BY NatLessThanWellFounded
<1>2. PICK m \in T : \A n \in T : <<n, m>> \notin R
  BY <1>1, WFMin
<1>3. \A n \in T : ~(n < m)
  BY <1>2 DEF OpToRel
<1> QED
  BY <1>3

\* The sizes of the buckets up to n.
SizesTo(f, n) == f = [b \in 0..n |-> IF b = 0 THEN 1 ELSE 2 * f[b - 1]]

\* The recursion of BucketSize defines a function.
LEMMA SizesExist == \A n \in Nat : \E f : SizesTo(f, n)
<1> DEFINE T == {n \in Nat : ~ \E f : SizesTo(f, n)}
<1> SUFFICES ASSUME T # {} PROVE FALSE
  OBVIOUS
<1>1. PICK m \in T : \A n \in T : m <= n
  BY Least
<1>2. m # 0
  <2>1. SizesTo([b \in 0..0 |-> 1], 0)
    BY DEF SizesTo
  <2> QED
    BY <2>1
<1>3. m - 1 \in Nat /\ m - 1 \notin T
  BY <1>1, <1>2
<1>4. PICK f : SizesTo(f, m - 1)
  BY <1>3
<1> DEFINE g == [b \in 0..m |-> IF b = m THEN 2 * f[m - 1] ELSE f[b]]
<1>5. ASSUME NEW b \in 0..m PROVE g[b] = IF b = 0 THEN 1 ELSE 2 * g[b - 1]
  <2>1. CASE b = m
    BY <1>1, <1>2, <2>1
  <2>2. CASE b # m
    <3>1. b \in 0..m-1 /\ (b # 0 => b - 1 \in 0..m-1)
      BY <1>1, <2>2
    <3>2. f[b] = IF b = 0 THEN 1 ELSE 2 * f[b - 1]
      BY <1>4, <3>1 DEF SizesTo
    <3>3. g[b] = f[b] /\ (b # 0 => g[b-1] = f[b-1])
      BY <1>1, <2>2, <3>1
    <3> HIDE DEF g
    <3> QED
      BY <3>2, <3>3
  <2> QED
    BY <2>1, <2>2
<1>6. SizesTo(g, m)
  <2>1. g = [b \in 0..m |-> g[b]]
    OBVIOUS
  <2> HIDE DEF g
  <2> QED
    BY <1>5, <2>1 DEF SizesTo
<1> QED
  BY <1>1, <1>6

\* Bucket 0 has chunks of one unit, every other one twice those of the one before.
LEMMA BucketSizes ==
  /\ BucketSize[0] = 1
  /\ \A b \in Buckets \ {0} : BucketSize[b] = 2 * BucketSize[b - 1]
<1>1. NumBuckets - 1 \in Nat /\ 0 \in Buckets
  BY AnvStatePoolAssumption DEF Buckets
<1>2. \E f : f = [b \in Buckets |-> IF b = 0 THEN 1 ELSE 2 * f[b - 1]]
  BY <1>1, SizesExist DEF SizesTo, Buckets
<1>3. BucketSize = [b \in Buckets |-> IF b = 0 THEN 1 ELSE 2 * BucketSize[b - 1]]
  BY <1>2 DEF BucketSize
<1>4. \A b \in Buckets : BucketSize[b] = IF b = 0 THEN 1 ELSE 2 * BucketSize[b - 1]
  BY <1>3, Zenon
<1> QED
  BY <1>1, <1>4

\* A chunk of a bucket is some chunks of each smaller bucket, at least two.
LEMMA BucketMultiple ==
  ASSUME NEW w \in Buckets
  PROVE  /\ BucketSize[w] \in Nat \ {0}
         /\ \A l \in Buckets : w <= l =>
              \E k \in Nat \ {0} : /\ BucketSize[l] = k * BucketSize[w]
                                   /\ w # l => k >= 2
<1>0. Buckets \subseteq Nat /\ \A b \in Buckets \ {0} : b - 1 \in Buckets
  BY AnvStatePoolAssumption DEF Buckets
<1>1. \A b \in Buckets : BucketSize[b] \in Nat \ {0}
  <2> DEFINE T == {b \in Buckets : BucketSize[b] \notin Nat \ {0}}
  <2> SUFFICES ASSUME T # {} PROVE FALSE
    OBVIOUS
  <2>1. PICK m \in T : \A n \in T : m <= n
    BY <1>0, Least
  <2>2. m # 0 /\ m \in Buckets \ {0}
    BY BucketSizes, <2>1
  <2>3. m - 1 \in Buckets /\ m - 1 \notin T
    BY <1>0, <2>1, <2>2
  <2>4. BucketSize[m - 1] \in Nat \ {0} /\ BucketSize[m] = 2 * BucketSize[m - 1]
    BY <2>2, <2>3, BucketSizes
  <2> QED
    BY <2>1, <2>4
<1> DEFINE M(l) == \E k \in Nat \ {0} : BucketSize[l] = k * BucketSize[w] /\ (w # l => k >= 2)
           U == {l \in Buckets : w <= l /\ ~ M(l)}
<1>2. U = {}
  <2> SUFFICES ASSUME U # {} PROVE FALSE
    OBVIOUS
  <2>1. PICK m \in U : \A n \in U : m <= n
    BY <1>0, Least
  <2>2. m # w
    <3>1. BucketSize[w] = 1 * BucketSize[w]
      BY <1>1
    <3> QED
      BY <2>1, <3>1
  <2>3. m \in Buckets \ {0} /\ m - 1 \in Buckets /\ w <= m - 1 /\ m - 1 \notin U
    BY <1>0, <2>1, <2>2
  <2>4. PICK k \in Nat \ {0} : BucketSize[m - 1] = k * BucketSize[w]
    BY <2>3
  <2>5. BucketSize[m] = 2 * BucketSize[m - 1]
    BY <2>3, BucketSizes
  <2>6. BucketSize[m] = (2 * k) * BucketSize[w] /\ 2 * k \in Nat \ {0} /\ 2 * k >= 2
    BY <1>1, <2>4, <2>5
  <2> QED
    BY <2>1, <2>6
<1> QED
  BY <1>1, <1>2

\* A multiple of s, divided by s.
LEMMA DivMultiple ==
  ASSUME NEW k \in Nat, NEW s \in Nat \ {0}
  PROVE  (k * s) \div s = k
OBVIOUS

\* The sizes of the chunks of the lists.
LEMMA SizeFacts ==
  /\ Buckets \subseteq Nat /\ Back \in Nat /\ Back \notin Buckets
  /\ \A l \in Lists : ChunkSize(l) \in Nat \ {0}
  /\ BlockBucket \in Buckets /\ ChunkSize(BlockBucket) = BlockSize
  /\ BlockSize \in Nat \ {0} /\ ChunkSize(Back) = BlockSize
  /\ NumBuckets - 1 \in Buckets
  /\ \A l \in Lists : ChunkSize(l) <= ChunkSize(NumBuckets - 1)
<1>1. /\ Buckets \subseteq Nat /\ Back \in Nat /\ Back \notin Buckets
      /\ NumBuckets - 1 \in Buckets
  BY AnvStatePoolAssumption DEF Buckets, Back
<1>2. BlockBucket \in Buckets /\ ChunkSize(BlockBucket) = BlockSize
  BY AnvStatePoolAssumption DEF BlockBucket
<1>3. \A b \in Buckets : ChunkSize(b) = BucketSize[b]
  BY <1>1 DEF ChunkSize
<1>4. \A b \in Buckets : ChunkSize(b) \in Nat \ {0}
  BY <1>3, BucketMultiple
<1>5. ChunkSize(Back) = BlockSize
  BY DEF ChunkSize
<1>6. \A b \in Buckets : ChunkSize(b) <= ChunkSize(NumBuckets - 1)
  <2> TAKE b \in Buckets
  <2>1. b <= NumBuckets - 1
    BY AnvStatePoolAssumption DEF Buckets
  <2>2. PICK k \in Nat \ {0} : BucketSize[NumBuckets - 1] = k * BucketSize[b]
    BY <1>1, <2>1, BucketMultiple
  <2>3. k * BucketSize[b] >= BucketSize[b]
    BY BucketMultiple
  <2> QED
    BY <1>1, <1>3, <2>2, <2>3, BucketMultiple
<1> QED
  BY <1>1, <1>2, <1>4, <1>5, <1>6 DEF Lists

\* What anv_state_pool_alloc_no_vg divides by divides.
LEMMA DivideSizes ==
  ASSUME NEW w \in Buckets, NEW l \in Buckets, w < l
  PROVE  /\ ChunkSize(w) < ChunkSize(l)
         /\ ChunkSize(l) \div ChunkSize(w) \in Nat
         /\ ChunkSize(l) \div ChunkSize(w) >= 2
         /\ ChunkSize(l) = (ChunkSize(l) \div ChunkSize(w)) * ChunkSize(w)
<1>1. ChunkSize(w) = BucketSize[w] /\ ChunkSize(l) = BucketSize[l]
  BY SizeFacts DEF ChunkSize
<1>2. PICK k \in Nat \ {0} : BucketSize[l] = k * BucketSize[w] /\ k >= 2
  BY BucketMultiple, SizeFacts
<1>3. BucketSize[w] \in Nat \ {0}
  BY BucketMultiple
<1>4. k * BucketSize[w] > BucketSize[w]
  BY <1>2, <1>3
<1>5. (k * BucketSize[w]) \div BucketSize[w] = k
  BY <1>3, DivMultiple
<1> QED
  BY <1>1, <1>2, <1>3, <1>4, <1>5

\* A bucket is larger than another one if its chunks are.
LEMMA SizesOrder ==
  ASSUME NEW w \in Buckets, NEW l \in Buckets, ChunkSize(w) < ChunkSize(l)
  PROVE  w < l
<1>1. CASE w = l
  BY <1>1, SizeFacts DEF Lists
<1>2. CASE l < w
  <2>1. ChunkSize(l) < ChunkSize(w)
    BY <1>2, DivideSizes
  <2> QED
    BY <2>1, SizeFacts DEF Lists
<1> QED
  BY <1>1, <1>2, SizeFacts

\* The n pieces of size s from o on are all of the bytes up to o + n * s, and
\* do not overlap.
LEMMA Pieces ==
  ASSUME NEW o \in Int, NEW s \in Nat \ {0}, NEW n \in Nat
  PROVE  /\ \A a \in Int : o <= a /\ a < o + n * s =>
              \E i \in 0..n-1 : o + i * s <= a /\ a < (o + i * s) + s
         /\ \A i \in 0..n-1 : /\ o <= o + i * s /\ (o + i * s) + s <= o + n * s
                              /\ i * s \in Nat /\ o + i * s \in Int
         /\ \A i, j \in 0..n-1 : \A a \in Int :
              /\ o + i * s <= a /\ a < (o + i * s) + s
              /\ o + j * s <= a /\ a < (o + j * s) + s
              => i = j
<1>1. ASSUME NEW a \in Int, o <= a, a < o + n * s
      PROVE  \E i \in 0..n-1 : o + i * s <= a /\ a < (o + i * s) + s
  <2> DEFINE T == {i \in Nat : a < o + (i + 1) * s}
  <2>1. n # 0
    BY <1>1
  <2>2. n - 1 \in T
    BY <1>1, <2>1
  <2>3. PICK m \in T : \A i \in T : m <= i
    BY <2>2, Least
  <2>4. m <= n - 1
    BY <2>2, <2>3
  <2>5. o + m * s <= a
    <3>1. CASE m = 0
      BY <1>1, <3>1
    <3>2. CASE m # 0
      <4>1. m - 1 \in Nat /\ m - 1 \notin T
        BY <2>3, <3>2
      <4> QED
        BY <4>1, <2>3
    <3> QED
      BY <3>1, <3>2
  <2>6. a < (o + m * s) + s
    <3>1. m \in Nat /\ a < o + (m + 1) * s
      BY <2>3
    <3>2. (m + 1) * s = m * s + s /\ m * s \in Nat
      BY <3>1
    <3> QED
      BY <3>1, <3>2
  <2>7. m \in 0..n-1
    BY <2>1, <2>3, <2>4
  <2> QED
    BY <2>5, <2>6, <2>7, Zenon
<1>2. ASSUME NEW i \in 0..n-1
      PROVE  /\ o <= o + i * s /\ (o + i * s) + s <= o + n * s
             /\ i * s \in Nat /\ o + i * s \in Int
  <2>1. i * s \in Nat /\ n * s \in Nat /\ (n - i - 1) * s \in Nat
    OBVIOUS
  <2>2. n * s = i * s + s + (n - i - 1) * s
    OBVIOUS
  <2> QED
    BY <2>1, <2>2
<1>3. ASSUME NEW i \in 0..n-1, NEW j \in 0..n-1, NEW a \in Int, i < j,
             a < (o + i * s) + s, o + j * s <= a
      PROVE  FALSE
  <2>1. i * s \in Nat /\ j * s \in Nat /\ (j - i - 1) * s \in Nat
    BY <1>3
  <2>2. j * s = i * s + s + (j - i - 1) * s
    OBVIOUS
  <2> QED
    BY <1>3, <2>1, <2>2
<1>4. ASSUME NEW i \in 0..n-1, NEW j \in 0..n-1, NEW a \in Int,
             o + i * s <= a, a < (o + i * s) + s, o + j * s <= a, a < (o + j * s) + s
      PROVE  i = j
  BY <1>3, <1>4
<1> QED
  BY <1>1, <1>2, <1>4

-----------------------------------------------------------------------------
(* The chunks of a free list, as the links lead through them *)

\* What FreeChunks has met after up to m links.
ReachTo(l, f, m) ==
  f = [n \in 0..m |-> IF n = 0 THEN {head[l].offset} \ {EMPTY}
                      ELSE f[n - 1] \cup ({link[o] : o \in f[n - 1] \cap Offsets} \ {EMPTY})]

\* The recursion of FreeChunks defines a function.
LEMMA ReachExists == \A l : \A m \in Nat : \E f : ReachTo(l, f, m)
<1> TAKE l
<1> DEFINE More(r) == r \cup ({link[o] : o \in r \cap Offsets} \ {EMPTY})
           First == {head[l].offset} \ {EMPTY}
           Is(f, m) == f = [n \in 0..m |-> IF n = 0 THEN First ELSE More(f[n - 1])]
<1>0. \A f, m : ReachTo(l, f, m) <=> Is(f, m)
  BY DEF ReachTo
<1> HIDE DEF More, First
<1> SUFFICES \A m \in Nat : \E f : Is(f, m)
  BY <1>0
<1> DEFINE T == {m \in Nat : ~ \E f : Is(f, m)}
<1> SUFFICES ASSUME T # {} PROVE FALSE
  OBVIOUS
<1>1. PICK m \in T : \A n \in T : m <= n
  BY Least
<1>2. m # 0
  <2>1. Is([n \in 0..0 |-> First], 0)
    OBVIOUS
  <2> QED
    BY <2>1
<1>3. m - 1 \in Nat /\ m - 1 \notin T
  <2> HIDE DEF Is
  <2> QED
    BY <1>1, <1>2
<1>4. PICK f : Is(f, m - 1)
  BY <1>3
<1> DEFINE g == [n \in 0..m |-> IF n = m THEN More(f[m - 1]) ELSE f[n]]
<1>5. ASSUME NEW n \in 0..m PROVE g[n] = IF n = 0 THEN First ELSE More(g[n - 1])
  <2>1. CASE n = m
    BY <1>1, <1>2, <2>1
  <2>2. CASE n # m
    <3>1. n \in 0..m-1 /\ (n # 0 => n - 1 \in 0..m-1)
      BY <1>1, <2>2
    <3>2. f[n] = IF n = 0 THEN First ELSE More(f[n - 1])
      BY <1>4, <3>1
    <3>3. g[n] = f[n] /\ (n # 0 => g[n - 1] = f[n - 1])
      BY <1>1, <2>2, <3>1
    <3> HIDE DEF g
    <3> QED
      BY <3>2, <3>3
  <2> QED
    BY <2>1, <2>2
<1>6. Is(g, m)
  <2>1. g = [n \in 0..m |-> g[n]]
    OBVIOUS
  <2> HIDE DEF g
  <2> QED
    BY <1>5, <2>1
<1> QED
  BY <1>1, <1>6

\* The chunks of the stacks.
FreeOf(n, lev) == [l \in Lists |-> {lev[l][k] : k \in 1..n[l]}]

\* After i steps the recursion has met the topmost i + 1 chunks.
LEMMA ReachIs ==
  ASSUME NEW n \in [Lists -> Nat], NEW lev \in [Lists -> [Nat -> Offsets \cup {EMPTY}]],
         Linked(n, lev), NEW l \in Lists, NEW m \in Nat, NEW f, ReachTo(l, f, m)
  PROVE  \A i \in 0..m : f[i] = {lev[l][k] : k \in {j \in 1..n[l] : j >= n[l] - i}}
<1> DEFINE S(i) == {lev[l][k] : k \in {j \in 1..n[l] : j >= n[l] - i}}
           T == {i \in 0..m : f[i] # S(i)}
<1>0. /\ n[l] \in Nat /\ head[l].offset = lev[l][n[l]] /\ lev[l][0] = EMPTY
      /\ \A k \in 1..n[l] : /\ lev[l][k] \in Offsets /\ link[lev[l][k]] = lev[l][k - 1]
                            /\ lev[l][k] # EMPTY
  BY AnvStatePoolAssumption DEF Linked
<1>00. /\ f[0] = {head[l].offset} \ {EMPTY}
       /\ \A i \in 0..m : i # 0 =>
            f[i] = f[i - 1] \cup ({link[o] : o \in f[i - 1] \cap Offsets} \ {EMPTY})
  <2>1. \A i \in 0..m : f[i] = IF i = 0 THEN {head[l].offset} \ {EMPTY}
                ELSE f[i - 1] \cup ({link[o] : o \in f[i - 1] \cap Offsets} \ {EMPTY})
    BY Zenon DEF ReachTo
  <2>2. 0 \in 0..m
    OBVIOUS
  <2> QED
    BY <2>1, <2>2
<1> SUFFICES ASSUME T # {} PROVE FALSE
  OBVIOUS
<1>1. PICK i \in T : \A j \in T : i <= j
  <2>1. T \in SUBSET Nat
    OBVIOUS
  <2> HIDE DEF T
  <2> QED
    BY <2>1, Least
<1>2. i # 0
  <2>1. CASE n[l] = 0
    <3>1. S(0) = {}
      BY <2>1
    <3> QED
      BY <2>1, <3>1, <1>0, <1>00, <1>1
  <2>2. CASE n[l] # 0
    <3>1. S(0) = {lev[l][n[l]]}
      BY <1>0, <2>2
    <3>2. n[l] \in 1..n[l]
      BY <1>0, <2>2
    <3> QED
      BY <3>1, <3>2, <1>0, <1>00, <1>1
  <2> QED
    BY <2>1, <2>2
<1>3. i - 1 \in 0..m /\ i - 1 \notin T /\ i \in Nat
  BY <1>1, <1>2
<1>4. f[i - 1] = S(i - 1)
  BY <1>3
<1>5. f[i] = S(i - 1) \cup ({link[o] : o \in S(i - 1) \cap Offsets} \ {EMPTY})
  BY <1>00, <1>1, <1>2, <1>4
<1>6. ASSUME NEW x \in f[i] PROVE x \in S(i)
  <2>1. CASE x \in S(i - 1)
    BY <1>0, <1>3, <2>1
  <2>2. CASE x \notin S(i - 1)
    <3>1. PICK o \in S(i - 1) : x = link[o] /\ x # EMPTY
      BY <1>5, <1>6, <2>2
    <3>2. PICK k \in 1..n[l] : k >= n[l] - (i - 1) /\ o = lev[l][k]
      BY <3>1
    <3>3. x = lev[l][k - 1] /\ k - 1 # 0
      BY <1>0, <3>1, <3>2
    <3>4. k - 1 \in 1..n[l] /\ k - 1 >= n[l] - i
      BY <1>0, <1>3, <3>2, <3>3
    <3> QED
      BY <3>3, <3>4
  <2> QED
    BY <2>1, <2>2
<1>7. ASSUME NEW x \in S(i) PROVE x \in f[i]
  <2>1. PICK k \in 1..n[l] : k >= n[l] - i /\ x = lev[l][k]
    BY <1>7
  <2>2. CASE k >= n[l] - (i - 1)
    BY <1>5, <2>1, <2>2
  <2>3. CASE ~(k >= n[l] - (i - 1))
    <3>1. k + 1 \in 1..n[l] /\ k + 1 >= n[l] - (i - 1)
      BY <1>0, <1>2, <1>3, <2>1, <2>3
    <3>2. lev[l][k + 1] \in S(i - 1)
      BY <3>1
    <3>3. link[lev[l][k + 1]] = x /\ lev[l][k + 1] \in Offsets /\ x # EMPTY
      <4>1. (k + 1) - 1 = k
        BY <2>1
      <4> QED
        BY <1>0, <2>1, <3>1, <4>1
    <3> QED
      BY <1>5, <3>2, <3>3
  <2> QED
    BY <2>2, <2>3
<1>8. f[i] = S(i)
  BY <1>6, <1>7
<1> QED
  BY <1>1, <1>8

\* An injective function does not go into a smaller set.
LEMMA Injective ==
  ASSUME NEW S, NEW T, IsFiniteSet(S), IsFiniteSet(T), NEW f \in [S -> T],
         \A x, y \in S : f[x] = f[y] => x = y
  PROVE  Cardinality(S) <= Cardinality(T)
<1>1. Cardinality(S) \in Nat /\ Cardinality(T) \in Nat
  BY FS_CardinalityType
<1>2. ~(Cardinality(T) < Cardinality(S))
  BY FS_PigeonHole
<1> QED
  BY <1>1, <1>2

\* A list is no longer than there are offsets.
LEMMA ListFits ==
  ASSUME NEW n \in [Lists -> Nat], NEW lev \in [Lists -> [Nat -> Offsets \cup {EMPTY}]],
         Linked(n, lev), NEW l \in Lists
  PROVE  n[l] <= 2 * Memory
<1>0. n[l] \in Nat /\ Memory \in Nat
  BY AnvStatePoolAssumption
<1>1. IsFiniteSet(Offsets) /\ Cardinality(Offsets) = 2 * Memory
  <2>1. -Memory \in Int /\ Memory - 1 \in Int
    BY <1>0
  <2>2. /\ IsFiniteSet(-Memory..Memory-1)
        /\ Cardinality(-Memory..Memory-1) = IF -Memory > Memory - 1 THEN 0
                                            ELSE (Memory - 1) - (-Memory) + 1
    BY <2>1, FS_Interval
  <2> QED
    BY <1>0, <2>2 DEF Offsets
<1>2. IsFiniteSet(1..n[l]) /\ Cardinality(1..n[l]) = n[l]
  BY <1>0, FS_Interval
<1> DEFINE f == [k \in 1..n[l] |-> lev[l][k]]
<1>3. f \in [1..n[l] -> Offsets] /\ \A j, k \in 1..n[l] : f[j] = f[k] => j = k
  BY DEF Linked
<1> HIDE DEF f
<1>4. Cardinality(1..n[l]) <= Cardinality(Offsets)
  BY <1>1, <1>2, <1>3, Injective
<1> QED
  BY <1>0, <1>1, <1>2, <1>4

\* The links lead through the chunks of the stack, and no others.
LEMMA FreeChunksAre ==
  ASSUME NEW n \in [Lists -> Nat], NEW lev \in [Lists -> [Nat -> Offsets \cup {EMPTY}]],
         Linked(n, lev), NEW l \in Lists
  PROVE  FreeChunks(l) = FreeOf(n, lev)[l]
<1>0. 2 * Memory \in Nat /\ n[l] \in Nat
  BY AnvStatePoolAssumption
<1> DEFINE f == CHOOSE g : ReachTo(l, g, 2 * Memory)
<1>1. ReachTo(l, f, 2 * Memory)
  BY <1>0, ReachExists
<1>2. FreeChunks(l) = f[2 * Memory]
  BY DEF FreeChunks, ReachTo
<1> HIDE DEF f
<1>3. f[2 * Memory] = {lev[l][k] : k \in {j \in 1..n[l] : j >= n[l] - 2 * Memory}}
  <2>m. PICK m \in Nat : m = 2 * Memory
    BY <1>0
  <2>1. ReachTo(l, f, m)
    BY <1>1, <2>m
  <2>2. \A i \in 0..m : f[i] = {lev[l][k] : k \in {j \in 1..n[l] : j >= n[l] - i}}
    BY <2>1, ReachIs, SMTT(40)
  <2>3. m \in 0..m
    OBVIOUS
  <2> QED
    BY <2>2, <2>3, <2>m
<1>4. {j \in 1..n[l] : j >= n[l] - 2 * Memory} = 1..n[l]
  BY <1>0, ListFits
<1> QED
  BY <1>2, <1>3, <1>4 DEF FreeOf

-----------------------------------------------------------------------------
(* Memory in exactly one place *)

\* Some homes are replaced by others for the same bytes.
LEMMA Rehome ==
  ASSUME NEW K, NEW R, NEW N, NEW A, Partition(K \cup R, A), K \cap R = {},
         \A a : (\E r \in R : In(a, r)) <=> (\E m \in N : In(a, m)),
         \A m, k \in N : \A a : In(a, m) /\ In(a, k) => m = k
  PROVE  Partition(K \cup N, A)
<1> USE DEF Partition
<1>1. ASSUME NEW h \in K \cup N, NEW a, In(a, h) PROVE a \in A
  BY <1>1, Zenon
<1>2. ASSUME NEW a \in A PROVE \E h \in K \cup N : In(a, h)
  BY <1>2, Zenon
<1>3. ASSUME NEW g \in K, NEW h \in N, NEW a, In(a, g), In(a, h) PROVE FALSE
  <2>1. PICK r \in R : In(a, r)
    BY <1>3, Zenon
  <2>2. g = r
    BY <1>3, <2>1, Zenon
  <2> QED
    BY <2>1, <2>2
<1>4. ASSUME NEW g \in K \cup N, NEW h \in K \cup N, NEW a, In(a, g), In(a, h)
      PROVE  g = h
  <2>1. CASE g \in K /\ h \in K
    BY <1>4, <2>1, Zenon
  <2>2. CASE g \in N /\ h \in N
    BY <1>4, <2>2, Zenon
  <2> QED
    BY <1>3, <1>4, <2>1, <2>2, Zenon
<1> QED
  BY <1>1, <1>2, <1>4, Zenon

\* A home is added for bytes that are new.
LEMMA NewHome ==
  ASSUME NEW H, NEW m, NEW A, NEW B, Partition(H, A),
         \A a : a \in B <=> a \in A \/ In(a, m),
         \A a \in A : ~ In(a, m)
  PROVE  Partition(H \cup {m}, B)
<1> USE DEF Partition
<1>1. ASSUME NEW h \in H \cup {m}, NEW a, In(a, h) PROVE a \in B
  BY <1>1, Zenon
<1>2. ASSUME NEW a \in B PROVE \E h \in H \cup {m} : In(a, h)
  BY <1>2, Zenon
<1>3. ASSUME NEW g \in H \cup {m}, NEW h \in H \cup {m}, NEW a, In(a, g), In(a, h)
      PROVE  g = h
  BY <1>3, Zenon
<1> QED
  BY <1>1, <1>2, <1>3, Zenon

\* The lists are the stacks n, lev, and all bytes have exactly one home.
HeapOK(n, lev) ==
  /\ n \in [Lists -> Nat] /\ lev \in [Lists -> [Nat -> Offsets \cup {EMPTY}]]
  /\ Linked(n, lev)
  /\ Partition(HomesWith(FreeOf(n, lev)), Bytes)

\* What the run checks follows from the stacks and the partition.
LEMMA HeapMeansOneHome ==
  ASSUME NEW n, NEW lev, HeapOK(n, lev)
  PROVE  OneHomeForEveryByte
<1>1. \A l \in Lists : FreeChunks(l) = FreeOf(n, lev)[l]
  BY FreeChunksAre DEF HeapOK
<1>2. \A l \in Lists : FreeChunks(l) \subseteq Offsets
  BY <1>1 DEF FreeOf, HeapOK, Linked
<1>3. [l \in Lists |-> FreeChunks(l)] = FreeOf(n, lev)
  <2>1. FreeOf(n, lev) = [l \in Lists |-> FreeOf(n, lev)[l]]
    BY DEF FreeOf
  <2> QED
    BY <1>1, <2>1, Zenon
<1> DEFINE H == HomesWith(FreeOf(n, lev))
<1>4. ASSUME NEW a \in Bytes PROVE Cardinality({h \in H : In(a, h)}) = 1
  <2> HIDE DEF H
  <2>0. Partition(H, Bytes)
    BY DEF HeapOK, H
  <2>1. PICK g \in H : In(a, g)
    BY <2>0, <1>4, Zenon DEF Partition
  <2>2. {h \in H : In(a, h)} = {g}
    <3>1. \A h \in H : In(a, h) => h = g
      BY <2>0, <2>1, <1>4, Zenon DEF Partition
    <3> QED
      BY <2>1, <3>1, Zenon
  <2> QED
    BY <2>2, FS_Singleton, Zenon
<1> QED
  BY <1>2, <1>3, <1>4 DEF OneHomeForEveryByte, Bytes, In

-----------------------------------------------------------------------------
(* The counts of the lists do not come round *)

\* How many exchanges the call of a thread may still make.
Swaps(t) == IF Popping(t) THEN 3 ELSE Len(pushes[t])

\* Every call gets three tokens. An exchange takes one from its thread and
\* gives it to its list, whose count says how many it has.
TokensOK(S, R) ==
  /\ S \in [Lists -> SUBSET (1..3 * ops)] /\ R \in [Threads -> SUBSET (1..3 * ops)]
  /\ \A l \in Lists : head[l].count = Cardinality(S[l])
  /\ \A t \in Threads : Cardinality(R[t]) >= Swaps(t)
  /\ \A t \in Threads : \A l \in Lists : R[t] \cap S[l] = {}
  /\ \A t, u \in Threads : t # u => R[t] \cap R[u] = {}

\* There are three tokens for every call made.
CountsOK == ops \in 0..MaxOps /\ \E S, R : TokensOK(S, R)

\* A set of tokens is finite.
LEMMA TokensFinite ==
  ASSUME NEW m \in Nat, NEW T \in SUBSET (1..m)
  PROVE  IsFiniteSet(T) /\ Cardinality(T) \in Nat /\ Cardinality(T) <= m
<1>1. IsFiniteSet(1..m) /\ Cardinality(1..m) = m
  BY FS_Interval
<1>2. IsFiniteSet(T) /\ Cardinality(T) <= Cardinality(1..m)
  BY <1>1, FS_Subset
<1> QED
  BY <1>1, <1>2, FS_CardinalityType

\* A step without an exchange.
LEMMA KeepTokens ==
  ASSUME CountsOK, UNCHANGED ops, \A l \in Lists : head'[l].count = head[l].count,
         \A u \in Threads : Swaps(u) \in Nat /\ Swaps(u)' \in Nat /\ Swaps(u)' <= Swaps(u)
  PROVE  CountsOK'
<1>1. PICK S, R : TokensOK(S, R)
  BY DEF CountsOK
<1>2. \A u \in Threads : Cardinality(R[u]) \in Nat
  <2>1. 3 * ops \in Nat
    BY DEF CountsOK
  <2> QED
    BY <1>1, <2>1, TokensFinite DEF TokensOK
<1>3. \A u \in Threads : Cardinality(R[u]) >= Swaps(u)'
  BY <1>1, <1>2 DEF TokensOK
<1>4. TokensOK(S, R)'
  BY <1>1, <1>3 DEF TokensOK
<1> QED
  BY <1>4 DEF CountsOK

\* A call begins.
LEMMA IssueTokens ==
  ASSUME CountsOK, NEW t \in Threads, ops < MaxOps, ops' = ops + 1,
         \A l \in Lists : head'[l].count = head[l].count, Swaps(t)' \in 0..3,
         \A u \in Threads \ {t} : Swaps(u)' = Swaps(u)
  PROVE  CountsOK'
<1>1. PICK S, R : TokensOK(S, R)
  BY DEF CountsOK
<1>2. ops \in Nat /\ ops' \in 0..MaxOps /\ 3 * ops' = 3 * ops + 3 /\ 3 * ops \in Nat
  BY AnvStatePoolAssumption DEF CountsOK
<1>n. PICK N : N = (3 * ops + 1)..(3 * ops + 3)
  OBVIOUS
<1> DEFINE Q == [R EXCEPT ![t] = N]
<1>3. Cardinality(N) = 3 /\ N \subseteq 1..3 * ops' /\ 1..3 * ops \subseteq 1..3 * ops'
      /\ N \cap 1..3 * ops = {}
  <2>1. Cardinality(N) = (3 * ops + 3) - (3 * ops + 1) + 1
    <3>1. 3 * ops + 1 \in Int /\ 3 * ops + 3 \in Int /\ ~(3 * ops + 1 > 3 * ops + 3)
      BY <1>2
    <3> QED
      BY <1>n, <3>1, FS_Interval
  <2>2. \A a : a \in N <=> a \in Int /\ 3 * ops + 1 <= a /\ a <= 3 * ops + 3
    BY <1>2, <1>n
  <2>3. N \subseteq 1..3 * ops' /\ 1..3 * ops \subseteq 1..3 * ops'
    BY <1>2, <2>2
  <2>4. N \cap 1..3 * ops = {}
    BY <1>2, <2>2
  <2>5. Cardinality(N) = 3
    BY <1>2, <2>1
  <2> QED
    BY <2>3, <2>4, <2>5
<1>4. Q \in [Threads -> SUBSET (1..3 * ops')] /\ Q[t] = N
      /\ \A u \in Threads \ {t} : Q[u] = R[u]
  BY <1>1, <1>3 DEF TokensOK
<1>5. S \in [Lists -> SUBSET (1..3 * ops')]
  BY <1>1, <1>3 DEF TokensOK
<1> HIDE DEF Q
<1>6. \A u \in Threads : Cardinality(Q[u]) >= Swaps(u)'
  BY <1>1, <1>3, <1>4 DEF TokensOK
<1>7. \A u \in Threads : \A l \in Lists : Q[u] \cap S[l] = {}
  BY <1>1, <1>3, <1>4 DEF TokensOK
<1>8. \A u, v \in Threads : u # v => Q[u] \cap Q[v] = {}
  BY <1>1, <1>3, <1>4 DEF TokensOK
<1>9. TokensOK(S, Q)'
  <2>1. \A l \in Lists : head'[l].count = Cardinality(S[l])
    BY <1>1 DEF TokensOK
  <2> QED
    BY <2>1, <1>4, <1>5, <1>6, <1>7, <1>8 DEF TokensOK
<1> QED
  BY <1>2, <1>9 DEF CountsOK

\* An exchange: the count does not come round.
LEMMA SpendToken ==
  ASSUME 3 * MaxOps < CountRange, CountsOK, NEW t \in Threads, NEW l \in Lists,
         UNCHANGED ops, Swaps(t) \in Nat, Swaps(t) >= 1, Swaps(t)' \in Nat,
         Swaps(t)' <= Swaps(t) - 1,
         \A u \in Threads \ {t} : Swaps(u)' = Swaps(u),
         head'[l].count = Bump(head[l]),
         \A k \in Lists \ {l} : head'[k].count = head[k].count
  PROVE  CountsOK' /\ head[l].count \in Nat /\ head'[l].count = head[l].count + 1
         /\ head'[l].count < CountRange
<1>1. PICK S, R : TokensOK(S, R)
  BY DEF CountsOK
<1>2. 3 * ops \in Nat /\ 3 * ops < CountRange /\ CountRange \in Nat
  BY AnvStatePoolAssumption DEF CountsOK
<1>3. /\ \A T \in SUBSET (1..3 * ops) : /\ IsFiniteSet(T) /\ Cardinality(T) \in Nat
                                        /\ Cardinality(T) <= 3 * ops
      /\ R[t] \in SUBSET (1..3 * ops) /\ S[l] \in SUBSET (1..3 * ops)
  BY <1>1, <1>2, TokensFinite DEF TokensOK
<1>4. PICK x \in R[t] : x \notin S[l]
  <2>1. Cardinality(R[t]) >= 1
    BY <1>1, <1>3 DEF TokensOK
  <2>2. R[t] # {}
    <3> SUFFICES ASSUME R[t] = {} PROVE FALSE
      OBVIOUS
    <3>1. Cardinality(R[t]) = 0
      BY FS_EmptySet, Zenon
    <3> QED
      BY <2>1, <3>1
  <2> QED
    BY <1>1, <2>2 DEF TokensOK
<1> DEFINE P == [S EXCEPT ![l] = S[l] \cup {x}]
           Q == [R EXCEPT ![t] = R[t] \ {x}]
<1>5. Cardinality(S[l] \cup {x}) = Cardinality(S[l]) + 1
      /\ Cardinality(R[t] \ {x}) = Cardinality(R[t]) - 1
  BY <1>3, <1>4, FS_AddElement, FS_RemoveElement
<1>6. /\ P \in [Lists -> SUBSET (1..3 * ops)] /\ Q \in [Threads -> SUBSET (1..3 * ops)]
      /\ P[l] = S[l] \cup {x} /\ Q[t] = R[t] \ {x}
      /\ \A k \in Lists \ {l} : P[k] = S[k]
      /\ \A u \in Threads \ {t} : Q[u] = R[u]
  BY <1>1, <1>3, <1>4 DEF TokensOK
<1>7. head[l].count = Cardinality(S[l]) /\ head[l].count \in Nat
      /\ head[l].count + 1 <= 3 * ops
  <2>1. S[l] \cup {x} \in SUBSET (1..3 * ops)
    BY <1>3, <1>4
  <2> QED
    BY <1>1, <1>3, <1>5, <2>1 DEF TokensOK
<1>8. head'[l].count = head[l].count + 1 /\ head'[l].count < CountRange
  <2>1. head[l].count + 1 < CountRange
    BY <1>2, <1>7
  <2>2. (head[l].count + 1) % CountRange = head[l].count + 1
    BY <1>2, <1>7, <2>1
  <2> QED
    BY <2>1, <2>2 DEF Bump
<1> HIDE DEF P, Q
<1>9. \A k \in Lists : head'[k].count = Cardinality(P[k])
  BY <1>1, <1>5, <1>6, <1>7, <1>8 DEF TokensOK
<1>10. \A u \in Threads : Cardinality(Q[u]) >= Swaps(u)'
  <2>1. Cardinality(Q[t]) >= Swaps(t)'
    BY <1>1, <1>3, <1>5, <1>6 DEF TokensOK
  <2> QED
    <3> TAKE u \in Threads
    <3>1. CASE u = t
      BY <2>1, <3>1
    <3>2. CASE u # t
      BY <1>1, <1>6, <3>2 DEF TokensOK
    <3> QED
      BY <3>1, <3>2
<1>11. \A u \in Threads : \A k \in Lists : Q[u] \cap P[k] = {}
  <2> TAKE u \in Threads
  <2> TAKE k \in Lists
  <2>1. R[u] \cap S[k] = {} /\ (u # t => x \notin R[u])
    BY <1>1, <1>4 DEF TokensOK
  <2>2. Q[u] \subseteq R[u] /\ (u = t => x \notin Q[u]) /\ P[k] \subseteq S[k] \cup {x}
    BY <1>6
  <2> QED
    BY <2>1, <2>2
<1>12. \A u, v \in Threads : u # v => Q[u] \cap Q[v] = {}
  BY <1>1, <1>6 DEF TokensOK
<1>13. TokensOK(P, Q)'
  BY <1>6, <1>9, <1>10, <1>11, <1>12 DEF TokensOK
<1> QED
  BY <1>7, <1>8, <1>13 DEF CountsOK

-----------------------------------------------------------------------------
(* The memory is large enough *)

\* What has been handed out on a side is a number.
LEMMA UsedNat == ASSUME BlockInv PROVE Used \in [Sides -> Nat]
<1>1. OneGrower
  BY DEF BlockInv, GrowOK
<1>2. \A s \in Sides : Used[s] \in Nat
  <2> TAKE s \in Sides
  <2>1. CASE \E t \in Threads : GrowingOn(t, s)
    <3>1. PICK t \in Threads : GrowingOn(t, s)
      BY <2>1
    <3>2. NewNext(t) \in Nat
      BY DEF BlockInv, BlockTypeOK, NewNext
    <3> QED
      BY <1>1, <3>1, <3>2, UsedIs
  <2>2. CASE ~ \E t \in Threads : GrowingOn(t, s)
    BY <1>1, <2>2, UsedIs DEF BlockInv, BlockTypeOK
  <2> QED
    BY <2>1, <2>2
<1>3. Used = [s \in Sides |-> Used[s]]
  BY Zenon DEF Used
<1> QED
  BY <1>2, <1>3

\* The bound on the memory, multiplied out.
LEMMA PendingFinite ==
  ASSUME NEW P \in SUBSET Threads
  PROVE  /\ IsFiniteSet(P) /\ Cardinality(P) \in Nat
         /\ Cardinality(P) <= Cardinality(Threads) /\ Cardinality(Threads) \in Nat
         /\ \A Q \in SUBSET P : Cardinality(Q) \in Nat /\ Cardinality(Q) <= Cardinality(P)
         /\ \A t \in P : Cardinality(P \ {t}) = Cardinality(P) - 1
<1>1. IsFiniteSet(P) /\ Cardinality(P) <= Cardinality(Threads)
  BY AnvStatePoolAssumption, FS_Subset
<1>2. \A Q \in SUBSET P : Cardinality(Q) \in Nat /\ Cardinality(Q) <= Cardinality(P)
  BY <1>1, FS_Subset, FS_CardinalityType
<1>3. \A t \in P : Cardinality(P \ {t}) = Cardinality(P) - 1
  BY <1>1, FS_RemoveElement
<1> QED
  BY <1>1, <1>2, <1>3, AnvStatePoolAssumption, FS_CardinalityType

\* Products of naturals.
LEMMA Times ==
  ASSUME NEW i \in Nat, NEW j \in Nat, NEW m \in Nat, i <= j
  PROVE  i * m \in Nat /\ j * m \in Nat /\ i * m <= j * m
         /\ (i + 1) * m = i * m + m
OBVIOUS

\* A step that hands out nothing.
LEMMA KeepMemory ==
  ASSUME BlockInv, MemoryBound, Used' = Used, Pending' \subseteq Pending
  PROVE  MemoryBound'
<1> DEFINE m == ChunkSize(NumBuckets - 1)
<1>1. m \in Nat /\ m' = m
  BY SizeFacts DEF Lists
<1>2. /\ Cardinality(Pending) \in Nat /\ Cardinality(Pending') \in Nat
      /\ Cardinality(Pending') <= Cardinality(Pending)
  BY PendingFinite DEF Pending, PendingPCs
<1>3. Cardinality(Pending') * m \in Nat /\ Cardinality(Pending) * m \in Nat
      /\ Cardinality(Pending') * m <= Cardinality(Pending) * m
  BY <1>1, <1>2, Times
<1>4. Memory \in Nat /\ \A s \in Sides : Used[s] \in Nat
  BY UsedNat, AnvStatePoolAssumption
<1>5. \A s \in Sides : Used[s] + Cardinality(Pending) * m <= Memory
  BY DEF MemoryBound
<1> HIDE DEF m
<1>6. \A s \in Sides : Used'[s] + Cardinality(Pending') * m <= Memory
  BY <1>3, <1>4, <1>5
<1> QED
  BY <1>6 DEF MemoryBound, m

\* The guard of a call leaves memory for all threads.
LEMMA CallMemory ==
  ASSUME BlockInv, MemoryLeft, Used' = Used
  PROVE  MemoryBound'
<1> DEFINE m == ChunkSize(NumBuckets - 1)
<1>1. m \in Nat /\ m' = m
  BY SizeFacts DEF Lists
<1>2. /\ Cardinality(Threads) \in Nat /\ Cardinality(Pending') \in Nat
      /\ Cardinality(Pending') <= Cardinality(Threads)
  BY PendingFinite DEF Pending, PendingPCs
<1>3. Cardinality(Pending') * m \in Nat /\ Cardinality(Threads) * m \in Nat
      /\ Cardinality(Pending') * m <= Cardinality(Threads) * m
  BY <1>1, <1>2, Times
<1>4. Memory \in Nat /\ \A s \in Sides : Used[s] \in Nat
  BY UsedNat, AnvStatePoolAssumption
<1>5. \A s \in Sides : Used[s] + Cardinality(Threads) * m <= Memory
  BY DEF MemoryLeft
<1> HIDE DEF m
<1>6. \A s \in Sides : Used'[s] + Cardinality(Pending') * m <= Memory
  BY <1>3, <1>4, <1>5
<1> QED
  BY <1>6 DEF MemoryBound, m

\* A thread that takes its block takes it from its own share.
LEMMA TakeMemory ==
  ASSUME BlockInv, MemoryBound, NEW t \in Pending, NEW s \in Sides, NEW n \in Nat,
         n <= ChunkSize(NumBuckets - 1), Used' = [Used EXCEPT ![s] = @ + n],
         Pending' \subseteq Pending \ {t}
  PROVE  MemoryBound'
<1> DEFINE m == ChunkSize(NumBuckets - 1)
<1>1. m \in Nat /\ m' = m
  BY SizeFacts DEF Lists
<1>2. /\ Cardinality(Pending) \in Nat /\ Cardinality(Pending') \in Nat
      /\ Cardinality(Pending') + 1 <= Cardinality(Pending)
  <2>1. Pending \in SUBSET Threads
    BY DEF Pending, PendingPCs
  <2>2. Pending \ {t} \in SUBSET Threads /\ Pending' \in SUBSET (Pending \ {t})
    BY <2>1
  <2>3. Cardinality(Pending') \in Nat /\ Cardinality(Pending') <= Cardinality(Pending \ {t})
    BY <2>2, PendingFinite
  <2>4. Cardinality(Pending) \in Nat /\ Cardinality(Pending \ {t}) = Cardinality(Pending) - 1
    BY <2>1, PendingFinite
  <2> QED
    BY <2>3, <2>4
<1>3. /\ Cardinality(Pending') * m \in Nat /\ Cardinality(Pending) * m \in Nat
      /\ Cardinality(Pending') * m + m <= Cardinality(Pending) * m
  <2>1. /\ (Cardinality(Pending') + 1) * m <= Cardinality(Pending) * m
        /\ Cardinality(Pending) * m \in Nat
    BY <1>1, <1>2, Times
  <2>2. /\ (Cardinality(Pending') + 1) * m = Cardinality(Pending') * m + m
        /\ Cardinality(Pending') * m \in Nat
    BY <1>1, <1>2, Times
  <2> QED
    BY <2>1, <2>2
<1>4. Memory \in Nat /\ \A r \in Sides : Used[r] \in Nat
  BY UsedNat, AnvStatePoolAssumption
<1>5. \A r \in Sides : Used[r] + Cardinality(Pending) * m <= Memory
  BY DEF MemoryBound
<1>6. \A r \in Sides : Used'[r] <= Used[r] + n /\ Used'[r] \in Nat
  BY <1>4, UsedNat
<1> HIDE DEF m
<1>7. \A r \in Sides : Used'[r] + Cardinality(Pending') * m <= Memory
  <2>1. n <= m
    BY DEF m
  <2> QED
    BY <2>1, <1>1, <1>3, <1>4, <1>5, <1>6
<1> QED
  BY <1>7 DEF MemoryBound, m

\* All that has been handed out is memory.
LEMMA BytesFit ==
  ASSUME BlockInv, MemoryBound
  PROVE  Bytes \subseteq Offsets
<1> DEFINE m == ChunkSize(NumBuckets - 1)
<1>1. m \in Nat /\ Cardinality(Pending) \in Nat
  BY SizeFacts, PendingFinite DEF Lists, Pending, PendingPCs
<1>2. Cardinality(Pending) * m \in Nat
  BY <1>1, Times
<1>3. Memory \in Nat /\ \A s \in Sides : Used[s] \in Nat
  BY UsedNat, AnvStatePoolAssumption
<1>4. \A s \in Sides : Used[s] + Cardinality(Pending) * m <= Memory
  BY DEF MemoryBound
<1> HIDE DEF m
<1>5. Used["back"] <= Memory /\ Used["front"] <= Memory
  BY <1>2, <1>3, <1>4 DEF Sides
<1> QED
  BY <1>3, <1>5 DEF Bytes, Offsets, Sides

-----------------------------------------------------------------------------
(* What a step leaves alone *)

\* A place is of one kind.
LEMMA Kinds ==
  ASSUME NEW f
  PROVE  /\ \A h \in ClientHomes : h[1] = "client"
         /\ \A h \in FreeHomes(f) : h[1] = "free"
         /\ \A h \in RestHomes : h[1] = "rest"
         /\ \A h \in GotHomes : h[1] = "got"
         /\ \A h \in BlockHomes : h[1] = "block"
         /\ \A h \in ChainHomes : h[1] = "chain"
<1>1. \A h \in ClientHomes : h[1] = "client"
  BY DEF ClientHomes
<1>2. \A h \in FreeHomes(f) : h[1] = "free"
  BY DEF FreeHomes
<1>3. \A h \in RestHomes : h[1] = "rest"
  BY DEF RestHomes
<1>4. \A h \in GotHomes : h[1] = "got"
  BY DEF GotHomes
<1>5. \A h \in BlockHomes : h[1] = "block"
  BY DEF BlockHomes
<1>6. \A h \in ChainHomes : h[1] = "chain"
  BY DEF ChainHomes
<1> QED
  BY <1>1, <1>2, <1>3, <1>4, <1>5, <1>6

\* The homes that there are.
LEMMA HomeOf ==
  ASSUME NEW f, NEW H, H = HomesWith(f)
  PROVE  /\ \A s \in held : <<"client", s.list, s.offset, ChunkSize(s.list)>> \in H
         /\ \A l \in Lists : \A o \in f[l] : <<"free", l, o, ChunkSize(l)>> \in H
         /\ \A b \in Buckets : fixed[b].next < fixed[b].end =>
              <<"rest", b, fixed[b].next, fixed[b].end - fixed[b].next>> \in H
         /\ \A t \in Threads : chunk[t] # EMPTY =>
              <<"got", t, chunk[t], ChunkSize(want[t])>> \in H
         /\ \A t \in Threads : Decided(t) => <<"block", t, Result(t), call[t].size>> \in H
         /\ \A t \in Threads : \A p \in Chains(t) : \A o \in ChainOf(p) :
              <<"chain", <<t, p.list>>, o, ChunkSize(p.list)>> \in H
<1>1. \A s \in held : <<"client", s.list, s.offset, ChunkSize(s.list)>> \in H
  BY DEF HomesWith, ClientHomes
<1>2. \A l \in Lists : \A o \in f[l] : <<"free", l, o, ChunkSize(l)>> \in H
  BY DEF HomesWith, FreeHomes
<1>3. \A b \in Buckets : fixed[b].next < fixed[b].end =>
              <<"rest", b, fixed[b].next, fixed[b].end - fixed[b].next>> \in H
  BY DEF HomesWith, RestHomes
<1>4. \A t \in Threads : chunk[t] # EMPTY =>
              <<"got", t, chunk[t], ChunkSize(want[t])>> \in H
  BY DEF HomesWith, GotHomes
<1>5. \A t \in Threads : Decided(t) => <<"block", t, Result(t), call[t].size>> \in H
  BY DEF HomesWith, BlockHomes
<1>6. \A t \in Threads : \A p \in Chains(t) : \A o \in ChainOf(p) :
              <<"chain", <<t, p.list>>, o, ChunkSize(p.list)>> \in H
  BY DEF HomesWith, ChainHomes
<1> QED
  BY <1>1, <1>2, <1>3, <1>4, <1>5, <1>6

\* The invariant of the state pool, but for the places of memory.
StateInv ==
  /\ BlockInv /\ StateTypeOK /\ BucketOK /\ MemoryBound /\ CountsOK
  /\ \A t \in Threads : ThreadOK(t)

\* The homes that only thread t may write to.
OwnHome(t, h) == (h[1] = "got" /\ h[2] = t) \/ (h[1] = "chain" /\ h[2][1] = t)

\* A step of thread t, and perhaps of threads that it wakes.
Others(t) ==
  \A u \in Threads \ {t} :
    /\ want'[u] = want[u] /\ at'[u] = at[u] /\ nxt'[u] = nxt[u] /\ chunk'[u] = chunk[u]
    /\ pushes'[u] = pushes[u] /\ call'[u] = call[u]
    /\ bpc'[u] = "idle" <=> bpc[u] = "idle"
    /\ \/ pc'[u] = pc[u] /\ cur'[u] = cur[u]
       \/ pc[u] = "sleep" /\ pc'[u] = "new"

\* The heads that change count on.
HeadsCount == \A l \in Lists : head'[l] = head[l] \/ head'[l].count > head[l].count

\* Other threads' chains, and the first chunks of the lists, keep their links.
LinksKept(t) ==
  /\ \A l \in Lists : head[l].offset # EMPTY => link'[head[l].offset] = link[head[l].offset]
  /\ \A u \in Threads \ {t} : \A p \in Chains(u) : \A o \in ChainOf(p) : link'[o] = link[o]

\* The chain that is being pushed.
LEMMA HeadChain ==
  ASSUME NEW q \in Seq(ChainType), q # <<>>
  PROVE  /\ Head(q) = q[1] /\ 1 \in DOMAIN q
         /\ Head(q) \in ChainType /\ Head(q).list \in Lists
         /\ Head(q).offset \in Int /\ Head(q).count \in Nat \ {0}
<1>1. Head(q) = q[1] /\ 1 \in DOMAIN q /\ Head(q) \in ChainType
  OBVIOUS
<1> QED
  BY <1>1 DEF ChainType

\* The threads that a step is not about stay as they are.
LEMMA Frame ==
  ASSUME StateTypeOK, StateTypeOK', \A u \in Threads : ThreadOK(u), NEW t \in Threads,
         Others(t), HeadsCount, LinksKept(t), ThreadOK(t)'
  PROVE  \A u \in Threads : ThreadOK(u)'
<1> SUFFICES ASSUME NEW u \in Threads \ {t} PROVE ThreadOK(u)'
  OBVIOUS
<1>0. /\ want'[u] = want[u] /\ at'[u] = at[u] /\ nxt'[u] = nxt[u] /\ chunk'[u] = chunk[u]
      /\ pushes'[u] = pushes[u] /\ call'[u] = call[u]
      /\ bpc'[u] = "idle" <=> bpc[u] = "idle"
      /\ \/ pc'[u] = pc[u] /\ cur'[u] = cur[u]
         \/ pc[u] = "sleep" /\ pc'[u] = "new"
  BY DEF Others
<1>1. ThreadOK(u)
  OBVIOUS
<1>2. CallMatches(u)'
  BY <1>0, <1>1 DEF ThreadOK, CallMatches, CallOf, Small
<1>3. PopMatches(u)' /\ PushMatches(u)'
  BY <1>0, <1>1 DEF ThreadOK, PopMatches, Popping, PushMatches, Pushing
<1>4. CASE pc[u] = "sleep" /\ pc'[u] = "new"
  <2>1. ReadMatches(u)' /\ ChainLinked(u)'
    BY <1>4 DEF ReadMatches, HasRead, ChainLinked
  <2> QED
    BY <1>2, <1>3, <2>1 DEF ThreadOK
<1>5. CASE pc'[u] = pc[u] /\ cur'[u] = cur[u]
  <2>1. /\ HasRead(u)' <=> HasRead(u)
        /\ ReadList(u)' = ReadList(u)
        /\ pushes[u] \in Seq(ChainType) /\ at[u] \in Lists
    BY <1>0, <1>5 DEF HasRead, ReadList, StateTypeOK
  <2>2. HasRead(u) => ReadList(u) \in Lists
    BY <1>1, <2>1, HeadChain DEF HasRead, ReadList, ThreadOK, PushMatches, Pushing
  <2>3. \A l \in Lists : head[l] \in Heads /\ head'[l] \in Heads
    BY DEF StateTypeOK
  <2>4. ReadMatches(u)'
    <3>1. ASSUME HasRead(u) 
          PROVE  /\ cur[u] \in Heads
                 /\ cur[u].count <= head'[ReadList(u)].count
                 /\ cur[u].count = head'[ReadList(u)].count =>
                       /\ cur[u] = head[ReadList(u)]
                       /\ head'[ReadList(u)] = head[ReadList(u)]
      <4>1. /\ cur[u] \in Heads
            /\ cur[u].count <= head[ReadList(u)].count
            /\ cur[u].count = head[ReadList(u)].count => cur[u] = head[ReadList(u)]
        BY <1>1, <3>1 DEF ThreadOK, ReadMatches
      <4>2. head'[ReadList(u)] = head[ReadList(u)] \/ head'[ReadList(u)].count > head[ReadList(u)].count
        BY <2>2, <3>1 DEF HeadsCount
      <4>3. cur[u].count \in Int /\ head'[ReadList(u)].count \in Int
            /\ head[ReadList(u)].count \in Int
        BY <2>2, <2>3, <3>1, <4>1, AnvStatePoolAssumption DEF Heads
      <4> QED
        BY <4>1, <4>2, <4>3
    <3>2. ASSUME pc[u] = "popcas", head'[at[u]] = cur[u] PROVE nxt[u] = link'[cur[u].offset]
      <4>1. HasRead(u) /\ ReadList(u) = at[u]
        BY <3>2 DEF HasRead, ReadList
      <4>2. cur[u] = head[at[u]] /\ cur[u].offset # EMPTY
        BY <1>1, <3>1, <3>2, <4>1 DEF ThreadOK, ReadMatches
      <4>3. nxt[u] = link[cur[u].offset]
        BY <1>1, <3>2, <4>2 DEF ThreadOK, ReadMatches
      <4> QED
        BY <2>1, <4>2, <4>3 DEF LinksKept
    <3>3. pc[u] \in {"next", "popcas"} => cur[u].offset # EMPTY
      BY <1>1 DEF ThreadOK, ReadMatches
    <3> QED
      BY <1>0, <1>5, <2>1, <3>1, <3>2, <3>3 DEF ReadMatches
  <2>5. ChainLinked(u)'
    <3> SUFFICES ASSUME pc[u] \in {"link", "pushcas"} PROVE ChainLinked(u)'
      BY <1>5 DEF ChainLinked
    <3>p. PICK p : p = Head(pushes[u])
      OBVIOUS
    <3>1. p \in Chains(u) /\ p \in ChainType
      BY <1>1, <2>1, <3>p, HeadChain DEF ThreadOK, PushMatches, Pushing, Chains
    <3>2. \A o \in ChainOf(p) : link'[o] = link[o]
      BY <3>1 DEF LinksKept
    <3>3. TailOf(p) \in ChainOf(p)
      <4>1. p.count - 1 \in 0..p.count-1
        BY <3>1 DEF ChainType
      <4> QED
        BY <4>1 DEF TailOf, ChainOf
    <3>4. /\ \A o \in ChainOf(p) \ {TailOf(p)} : link[o] = o + ChunkSize(p.list)
          /\ pc[u] = "pushcas" => link[TailOf(p)] = cur[u].offset
      BY <1>1, <3>p DEF ThreadOK, ChainLinked
    <3> HIDE DEF ChainOf, TailOf
    <3> QED
      BY <1>0, <1>5, <3>p, <3>2, <3>3, <3>4 DEF ChainLinked
  <2> QED
    BY <1>2, <1>3, <2>4, <2>5 DEF ThreadOK
<1> QED
  BY <1>0, <1>4, <1>5

\* All homes are memory.
LEMMA HomeInside ==
  ASSUME BlockInv, MemoryBound, NEW n, NEW lev, HeapOK(n, lev),
         NEW h \in HomesWith(FreeOf(n, lev)), NEW a, In(a, h)
  PROVE  a \in Bytes /\ a \in Offsets
<1>1. a \in Bytes
  BY DEF HeapOK, Partition
<1> QED
  BY <1>1, BytesFit

\* A home has its own offset, if it is not empty.
LEMMA HomeStart ==
  ASSUME NEW k, NEW w, NEW o \in Int, NEW s \in Nat \ {0}
  PROVE  In(o, <<k, w, o, s>>)
BY DEF In

\* Every byte of a home.
LEMMA HomeBytes ==
  ASSUME NEW k, NEW w, NEW o \in Int, NEW s \in Int
  PROVE  \A a : In(a, <<k, w, o, s>>) <=> a \in Int /\ o <= a /\ a < o + s
BY DEF In

\* The chunks of a list are offsets, and the head is the topmost one.
LEMMA ListFacts ==
  ASSUME NEW n, NEW lev, HeapOK(n, lev), NEW l \in Lists
  PROVE  /\ n[l] \in Nat /\ head[l].offset = lev[l][n[l]] /\ lev[l][0] = EMPTY
         /\ \A k \in 1..n[l] : /\ lev[l][k] \in Offsets /\ lev[l][k] \in Int
                               /\ lev[l][k] # EMPTY
                               /\ link[lev[l][k]] = lev[l][k - 1]
                               /\ <<"free", l, lev[l][k], ChunkSize(l)>>
                                    \in HomesWith(FreeOf(n, lev))
         /\ \A j, k \in 1..n[l] : lev[l][j] = lev[l][k] => j = k
         /\ head[l].offset # EMPTY => n[l] \in 1..n[l]
<1>1. /\ n[l] \in Nat /\ head[l].offset = lev[l][n[l]] /\ lev[l][0] = EMPTY
      /\ \A j, k \in 1..n[l] : lev[l][j] = lev[l][k] => j = k
  BY DEF HeapOK, Linked
<1>2. \A k \in 1..n[l] : /\ lev[l][k] \in Offsets /\ lev[l][k] \in Int
                         /\ lev[l][k] # EMPTY
                         /\ link[lev[l][k]] = lev[l][k - 1]
  <2>1. Offsets \subseteq Int /\ EMPTY \notin Offsets
    BY AnvStatePoolAssumption DEF Offsets
  <2>2. \A k \in 1..n[l] : lev[l][k] \in Offsets /\ link[lev[l][k]] = lev[l][k - 1]
    BY DEF HeapOK, Linked
  <2> HIDE DEF Offsets
  <2> QED
    BY <2>1, <2>2
<1>3. \A k \in 1..n[l] : <<"free", l, lev[l][k], ChunkSize(l)>> \in HomesWith(FreeOf(n, lev))
  <2>1. \A k \in 1..n[l] : lev[l][k] \in FreeOf(n, lev)[l]
    BY DEF FreeOf
  <2> HIDE DEF FreeOf
  <2> QED
    BY <2>1, HomeOf
<1>4. head[l].offset # EMPTY => n[l] \in 1..n[l]
  BY <1>1
<1> QED
  BY <1>1, <1>2, <1>3, <1>4

\* The chunks of a chain that is to be pushed are memory.
LEMMA ChainFacts ==
  ASSUME BlockInv, MemoryBound, StateTypeOK, NEW n, NEW lev, HeapOK(n, lev),
         NEW u \in Threads, NEW p \in Chains(u)
  PROVE  /\ p \in ChainType /\ ChunkSize(p.list) \in Nat \ {0}
         /\ TailOf(p) \in ChainOf(p)
         /\ \A o \in ChainOf(p) :
              /\ o \in Int /\ o \in Offsets
              /\ In(o, <<"chain", <<u, p.list>>, o, ChunkSize(p.list)>>)
              /\ <<"chain", <<u, p.list>>, o, ChunkSize(p.list)>> \in HomesWith(FreeOf(n, lev))
         /\ \A o \in ChainOf(p) \ {TailOf(p)} : o + ChunkSize(p.list) \in ChainOf(p)
<1>1. p \in ChainType
  <2>1. pushes[u] \in Seq(ChainType)
    BY DEF StateTypeOK
  <2> QED
    BY <2>1 DEF Chains
<1>2. p.list \in Lists /\ p.offset \in Int /\ p.count \in Nat \ {0}
  BY <1>1 DEF ChainType
<1>s. PICK s : s = ChunkSize(p.list)
  OBVIOUS
<1>3. s \in Nat \ {0}
  BY <1>2, <1>s, SizeFacts
<1>4. TailOf(p) \in ChainOf(p)
  <2>1. p.count - 1 \in 0..p.count-1
    BY <1>2
  <2> QED
    BY <2>1 DEF TailOf, ChainOf
<1>5. \A o \in ChainOf(p) : o \in Int
  <2> TAKE o \in ChainOf(p)
  <2>1. PICK i \in 0..p.count-1 : o = p.offset + i * s
    BY <1>s DEF ChainOf
  <2>2. i * s \in Int
    BY <1>3, <2>1
  <2> QED
    BY <1>2, <2>1, <2>2
<1>6. \A o \in ChainOf(p) :
              /\ In(o, <<"chain", <<u, p.list>>, o, ChunkSize(p.list)>>)
              /\ <<"chain", <<u, p.list>>, o, ChunkSize(p.list)>> \in HomesWith(FreeOf(n, lev))
  BY <1>s, <1>3, <1>5, HomeStart, HomeOf
<1>7. \A o \in ChainOf(p) : o \in Offsets
  BY <1>6, HomeInside
<1>8. \A o \in ChainOf(p) \ {TailOf(p)} : o + s \in ChainOf(p)
  <2> TAKE o \in ChainOf(p) \ {TailOf(p)}
  <2>1. PICK i \in 0..p.count-1 : o = p.offset + i * s
    BY <1>s DEF ChainOf
  <2>2. i # p.count - 1
    BY <1>s, <2>1 DEF TailOf
  <2>3. i + 1 \in 0..p.count-1 /\ i \in Nat
    BY <1>2, <2>1, <2>2
  <2>4. (i + 1) * s = i * s + s /\ i * s \in Nat
    BY <1>3, <2>3, Times
  <2>5. o + s = p.offset + (i + 1) * s
    BY <1>2, <1>3, <2>1, <2>4
  <2> QED
    BY <1>s, <2>3, <2>5 DEF ChainOf
<1> QED
  BY <1>1, <1>s, <1>3, <1>4, <1>5, <1>6, <1>7, <1>8

\* A thread that writes only to its own homes disturbs neither a list nor
\* another thread's chain.
LEMMA OwnWrites ==
  ASSUME BlockInv, MemoryBound, StateTypeOK, NEW n, NEW lev, HeapOK(n, lev),
         NEW t \in Threads,
         \A o \in Offsets : link'[o] # link[o] =>
           \E h \in HomesWith(FreeOf(n, lev)) : OwnHome(t, h) /\ In(o, h)
  PROVE  /\ LinksKept(t)
         /\ \A l \in Lists : \A k \in 1..n[l] : link'[lev[l][k]] = link[lev[l][k]]
<1>h. PICK H : H = HomesWith(FreeOf(n, lev))
  OBVIOUS
<1>0. Partition(H, Bytes)
  BY <1>h DEF HeapOK
<1>1. ASSUME NEW l \in Lists, NEW k \in 1..n[l] PROVE link'[lev[l][k]] = link[lev[l][k]]
  <2>f. PICK f : f = <<"free", l, lev[l][k], ChunkSize(l)>>
    OBVIOUS
  <2>1. f \in H /\ In(lev[l][k], f) /\ lev[l][k] \in Offsets
    BY <1>h, <2>f, ListFacts, SizeFacts, HomeStart
  <2> SUFFICES ASSUME NEW h \in H, OwnHome(t, h), In(lev[l][k], h) PROVE FALSE
    BY <1>h, <2>1
  <2>2. f = h
    BY <1>0, <2>1, Zenon DEF Partition
  <2> QED
    BY <2>2, <2>f DEF OwnHome
<1>2. ASSUME NEW u \in Threads \ {t}, NEW p \in Chains(u), NEW o \in ChainOf(p)
      PROVE  link'[o] = link[o]
  <2>f. PICK f : f = <<"chain", <<u, p.list>>, o, ChunkSize(p.list)>>
    OBVIOUS
  <2>1. f \in H /\ In(o, f) /\ o \in Offsets
    BY <1>h, <2>f, ChainFacts
  <2> SUFFICES ASSUME NEW h \in H, OwnHome(t, h), In(o, h) PROVE FALSE
    BY <1>h, <2>1
  <2>2. f = h
    BY <1>0, <2>1, Zenon DEF Partition
  <2> QED
    BY <2>2, <2>f DEF OwnHome
<1>3. ASSUME NEW l \in Lists, head[l].offset # EMPTY
      PROVE  link'[head[l].offset] = link[head[l].offset]
  BY <1>1, <1>3, ListFacts
<1> QED
  BY <1>1, <1>2, <1>3 DEF LinksKept

\* The places of the blocks that the block pool has decided on.
HomesOf(B) ==
  {<<"block", t, IF B[t].side = "front" THEN B[t].offset ELSE -(B[t].offset + B[t].size),
     B[t].size>> : t \in {u \in Threads : B[u] # NoBlock}}

\* They are known from what the refinement shows.
LEMMA BlockHomesAre == ASSUME BlockTypeOK PROVE BlockHomes = HomesOf(Blocks)
<1>1. \A t \in Threads : Decided(t) <=> Blocks[t] # NoBlock
  BY BlockIsNotNone DEF Blocks
<1>2. {u \in Threads : Decided(u)} = {u \in Threads : Blocks[u] # NoBlock}
  BY <1>1
<1>3. \A t \in Threads : Decided(t) =>
        /\ Result(t) = IF Blocks[t].side = "front" THEN Blocks[t].offset
                       ELSE -(Blocks[t].offset + Blocks[t].size)
        /\ call[t].size = Blocks[t].size
  BY DEF Blocks, BlockOf, Result
<1> QED
  BY <1>2, <1>3, Zenon DEF BlockHomes, HomesOf

\* Some homes become others.
LEMMA HomesMove ==
  ASSUME NEW H, NEW G, NEW R, NEW N, Partition(H, Bytes), Used' = Used,
         R \subseteq H, G = (H \ R) \cup N,
         \A a : (\E r \in R : In(a, r)) <=> (\E h \in N : In(a, h)),
         \A g, h \in N : \A a : In(a, g) /\ In(a, h) => g = h
  PROVE  Partition(G, Bytes')
<1>1. Partition((H \ R) \cup R, Bytes)
  <2>1. (H \ R) \cup R = H
    OBVIOUS
  <2> QED
    BY <2>1
<1>2. (H \ R) \cap R = {}
  OBVIOUS
<1>3. Partition((H \ R) \cup N, Bytes)
  BY <1>1, <1>2, Rehome, Zenon
<1>4. Bytes' = Bytes
  BY DEF Bytes
<1> QED
  BY <1>3, <1>4

\* The parts of the heap, put together.
LEMMA HeapFrom ==
  ASSUME NEW m, NEW lv, m \in [Lists -> Nat],
         lv \in [Lists -> [Nat -> Offsets \cup {EMPTY}]], Linked(m, lv)',
         NEW G, G = HomesWith(FreeOf(m, lv))', Partition(G, Bytes')
  PROVE  HeapOK(m, lv)'
<1>1. Partition(HomesWith(FreeOf(m, lv))', Bytes')
  OBVIOUS
<1> QED
  BY <1>1 DEF HeapOK, Partition

\* The lists and all homes stay.
LEMMA HeapStays ==
  ASSUME NEW n, NEW lev, HeapOK(n, lev), Used' = Used,
         \A l \in Lists : head'[l].offset = head[l].offset,
         \A l \in Lists : \A k \in 1..n[l] : link'[lev[l][k]] = link[lev[l][k]],
         ClientHomes' = ClientHomes, RestHomes' = RestHomes, GotHomes' = GotHomes,
         BlockHomes' = BlockHomes, ChainHomes' = ChainHomes
  PROVE  HeapOK(n, lev)'
<1>1. Linked(n, lev)'
  BY DEF Linked, HeapOK
<1>2. FreeHomes(FreeOf(n, lev))' = FreeHomes(FreeOf(n, lev))
  BY DEF FreeHomes, FreeOf
<1>3. HomesWith(FreeOf(n, lev))' = HomesWith(FreeOf(n, lev))
  BY <1>2 DEF HomesWith
<1>4. Bytes' = Bytes
  BY DEF Bytes
<1>5. Partition(HomesWith(FreeOf(n, lev))', Bytes')
  BY <1>3, <1>4 DEF HeapOK
<1> QED
  BY <1>1, <1>5 DEF HeapOK, Partition

-----------------------------------------------------------------------------
(* anv_free_list_pop, up to the exchange *)

\* A step outside the block pool.
LEMMA PoolSame ==
  ASSUME UNCHANGED bvars
  PROVE  /\ Used' = Used /\ BlockHomes' = BlockHomes /\ bpc' = bpc /\ call' = call
         /\ \A u \in Threads : Decided(u)' <=> Decided(u)
<1>1. /\ state' = state /\ bpc' = bpc /\ call' = call /\ got' = got
  BY DEF bvars, locals
<1>2. Used' = Used
  BY <1>1 DEF Used, Growing, NewNext
<1>3. \A u \in Threads : Decided(u)' <=> Decided(u)
  BY <1>1 DEF Decided, Growing
<1>4. BlockHomes' = BlockHomes
  BY <1>1 DEF BlockHomes, Decided, Growing, Result
<1> QED
  BY <1>1, <1>2, <1>3, <1>4

\* The bucket's blocks stay, and nobody gets to refill one.
LEMMA KeepBucket ==
  ASSUME BucketOK, fixed' = fixed,
         \A u \in Threads : Refilling(u)' => Refilling(u) /\ want'[u] = want[u]
  PROVE  BucketOK'
<1>1. \A t, u \in Threads : Refilling(t)' /\ Refilling(u)' /\ want'[t] = want'[u] => t = u
  BY DEF BucketOK
<1>2. \A t \in Threads : Refilling(t)' => fixed'[want'[t]].next > fixed'[want'[t]].end
  BY DEF BucketOK
<1>3. \A b \in Buckets : fixed'[b].next <= fixed'[b].end =>
        \E k \in Nat : fixed'[b].end = fixed'[b].next + k * ChunkSize(b)
  BY DEF BucketOK
<1> QED
  BY <1>1, <1>2, <1>3 DEF BucketOK

\* The exchanges still to be made are at most three while popping.
LEMMA SwapsNat ==
  ASSUME StateTypeOK, NEW t \in Threads
  PROVE  /\ Swaps(t) \in Nat
         /\ Popping(t) => Swaps(t) = 3
         /\ ~ Popping(t) => Swaps(t) = Len(pushes[t])
         /\ Len(pushes[t]) \in Nat
<1>1. Len(pushes[t]) \in Nat
  BY DEF StateTypeOK
<1> QED
  BY <1>1 DEF Swaps

\* A step that changes nothing but the thread's own progress.
LEMMA Local ==
  ASSUME StateInv, BlockInv', NEW n, NEW lev, HeapOK(n, lev), NEW t \in Threads,
         NEW x \in StatePCs, NEW c, NEW a \in Lists, NEW v,
         pc' = [pc EXCEPT ![t] = x], cur' = [cur EXCEPT ![t] = c],
         at' = [at EXCEPT ![t] = a], nxt' = [nxt EXCEPT ![t] = v],
         UNCHANGED <<bvars, head, link, fixed, want, chunk, pushes, held, ops>>,
         pc[t] # "block", x # "block", x # "refill",
         x \in {"pop", "next", "popcas"} => Popping(t),
         x \in PendingPCs => pc[t] \in PendingPCs,
         ThreadOK(t)'
  PROVE  StateInv' /\ HeapOK(n, lev)'
<1>1. StateTypeOK /\ BlockInv /\ MemoryBound /\ CountsOK /\ BucketOK
  BY DEF StateInv
<1>2. StateTypeOK'
  BY <1>1 DEF StateTypeOK
<1>2a. /\ \A u \in Threads \ {t} : pc'[u] = pc[u] /\ cur'[u] = cur[u] /\ at'[u] = at[u] /\ nxt'[u] = nxt[u]
       /\ pc'[t] = x
  BY <1>1 DEF StateTypeOK
<1>3. Others(t)
  BY <1>2a, PoolSame DEF Others
<1>4. HeadsCount /\ LinksKept(t)
  BY DEF HeadsCount, LinksKept
<1>5. \A u \in Threads : ThreadOK(u)'
  BY <1>1, <1>2, <1>3, <1>4, Frame DEF StateInv
<1>6. BucketOK'
  <2>1. \A u \in Threads : Refilling(u)' => Refilling(u) /\ want'[u] = want[u]
    BY <1>2a DEF Refilling, Small
  <2> QED
    BY <1>1, <2>1, KeepBucket
<1>7. MemoryBound'
  <2>1. Pending' \subseteq Pending
    BY <1>2a, PoolSame DEF Pending, PendingPCs
  <2> QED
    BY <1>1, <2>1, PoolSame, KeepMemory
<1>8. CountsOK'
  <2>1. \A u \in Threads : Swaps(u) \in Nat /\ Swaps(u)' \in Nat /\ Swaps(u)' <= Swaps(u)
    <3> TAKE u \in Threads
    <3>1. Swaps(u) \in Nat /\ Len(pushes[u]) \in Nat
      BY <1>1, SwapsNat
    <3>2. Popping(u)' => Popping(u)
      BY <1>2a DEF Popping
    <3>3. Swaps(u)' = Swaps(u) \/ (pc'[u] = x /\ ~ Popping(u)' /\ Swaps(u)' = Len(pushes[u]))
      BY <1>2a, <3>2 DEF Swaps, Popping
    <3>4. Popping(u) => Len(pushes[u]) <= Swaps(u)
      <4>1. Popping(u) => pushes[u] = <<>>
        <5>1. PushMatches(u)
          BY DEF StateInv, ThreadOK
        <5> QED
          BY <5>1 DEF PushMatches, Popping, Pushing
      <4>2. Popping(u) => Len(pushes[u]) = 0
        BY <4>1
      <4> QED
        BY <3>1, <4>2
    <3>5. ~ Popping(u) => Len(pushes[u]) = Swaps(u)
      BY DEF Swaps
    <3> QED
      BY <3>1, <3>3, <3>4, <3>5
  <2> QED
    BY <1>1, <2>1, KeepTokens
<1>9. HeapOK(n, lev)'
  <2>1. ClientHomes' = ClientHomes /\ RestHomes' = RestHomes /\ GotHomes' = GotHomes
        /\ ChainHomes' = ChainHomes
    BY DEF ClientHomes, RestHomes, GotHomes, ChainHomes, Chains
  <2> QED
    BY <2>1, PoolSame, HeapStays
<1> QED
  BY <1>2, <1>5, <1>6, <1>7, <1>8, <1>9 DEF StateInv

\* What a thread knows that has looked at the head of list l.
LEMMA SeeHeadOK ==
  ASSUME StateTypeOK, NEW t \in Threads, NEW l \in Lists, SeeHead(t, l),
         UNCHANGED <<head, link, pushes, chunk>>, pushes[t] = <<>>, chunk[t] = EMPTY,
         bpc'[t] = "idle", want'[t] \in Lists,
         IF want'[t] = Back THEN l = Back ELSE l \in want'[t]..NumBuckets-1
  PROVE  /\ ThreadOK(t)'
         /\ \E x \in {"pop", "next", "new"}, a \in Lists : \E c :
              /\ pc' = [pc EXCEPT ![t] = x] /\ cur' = [cur EXCEPT ![t] = c]
              /\ at' = [at EXCEPT ![t] = a]
<1>0. cur = [u \in Threads |-> cur[u]] /\ pc \in [Threads -> StatePCs] /\ at \in [Threads -> Lists]
      /\ head[l] \in Heads
  BY DEF StateTypeOK
<1>1. CASE head[l].offset # EMPTY
  <2>1. /\ pc' = [pc EXCEPT ![t] = "next"] /\ cur' = [cur EXCEPT ![t] = head[l]]
        /\ at' = [at EXCEPT ![t] = l]
    BY <1>1 DEF SeeHead, Read, Go
  <2>2. pc'[t] = "next" /\ cur'[t] = head[l] /\ at'[t] = l
    BY <1>0, <2>1
  <2>3. CallMatches(t)' /\ PopMatches(t)' /\ PushMatches(t)' /\ ChainLinked(t)'
    BY <2>2 DEF CallMatches, PopMatches, Popping, PushMatches, Pushing, ChainLinked
  <2>4. ReadMatches(t)'
    <3>1. ReadList(t)' = l
      BY <2>2 DEF ReadList
    <3>2. head[l].count \in Int
      BY <1>0, AnvStatePoolAssumption DEF Heads
    <3> QED
      BY <1>0, <1>1, <2>2, <3>1, <3>2 DEF ReadMatches
  <2> QED
    BY <2>1, <2>3, <2>4 DEF ThreadOK
<1>2. CASE head[l].offset = EMPTY
  <2>1. /\ cur' = [cur EXCEPT ![t] = <<>>]
        /\ \/ l \in {Back, NumBuckets - 1} /\ pc' = [pc EXCEPT ![t] = "new"] /\ at' = at
           \/ /\ l \notin {Back, NumBuckets - 1} /\ pc' = [pc EXCEPT ![t] = "pop"]
              /\ at' = [at EXCEPT ![t] = l + 1]
    BY <1>2 DEF SeeHead, Read, Go
  <2>2. CASE l \in {Back, NumBuckets - 1} /\ pc' = [pc EXCEPT ![t] = "new"] /\ at' = at
    <3>1. pc'[t] = "new" /\ at' = [at EXCEPT ![t] = at[t]] /\ at[t] \in Lists
      BY <1>0, <2>2
    <3>2. ThreadOK(t)'
      BY <3>1 DEF ThreadOK, CallMatches, PopMatches, Popping, PushMatches, Pushing,
                  ReadMatches, HasRead, ChainLinked
    <3> QED
      BY <2>1, <2>2, <3>1, <3>2
  <2>3. CASE /\ l \notin {Back, NumBuckets - 1} /\ pc' = [pc EXCEPT ![t] = "pop"]
             /\ at' = [at EXCEPT ![t] = l + 1]
    <3>1. pc'[t] = "pop" /\ at'[t] = l + 1
      BY <1>0, <2>3
    <3>2. l + 1 \in Lists /\ l \in Buckets /\ l + 1 \in Buckets
      BY <2>3, AnvStatePoolAssumption DEF Lists, Buckets, Back
    <3>3. PopMatches(t)'
      <4>1. CASE want'[t] = Back
        BY <2>3, <4>1
      <4>2. CASE want'[t] # Back
        <5>1. l \in want'[t]..NumBuckets-1 /\ l # NumBuckets - 1 /\ want'[t] \in Nat
          BY <2>3, <4>2, SizeFacts DEF Lists
        <5>2. l + 1 \in want'[t]..NumBuckets-1
          BY <5>1, AnvStatePoolAssumption
        <5> QED
          BY <3>1, <4>2, <5>2 DEF PopMatches
      <4> QED
        BY <4>1, <4>2
    <3>4. CallMatches(t)' /\ PushMatches(t)' /\ ReadMatches(t)' /\ ChainLinked(t)'
      BY <3>1 DEF CallMatches, PushMatches, Pushing, ReadMatches, HasRead, ChainLinked
    <3> QED
      BY <2>1, <2>3, <3>2, <3>3, <3>4 DEF ThreadOK
  <2> QED
    BY <2>1, <2>2, <2>3
<1> QED
  BY <1>1, <1>2

\* What a thread that is popping, or allocates a new chunk, has not got.
LEMMA NothingYet ==
  ASSUME StateInv, NEW t \in Threads, pc[t] \notin {"push", "link", "pushcas", "wake", "done"}
  PROVE  pushes[t] = <<>> /\ chunk[t] = EMPTY /\ (pc[t] # "block" => bpc[t] = "idle")
<1>1. ThreadOK(t)
  BY DEF StateInv
<1> QED
  BY <1>1 DEF ThreadOK, PushMatches, Pushing, CallMatches

\* anv_free_list_pop reads the head of the next list.
LEMMA PopHeadOK ==
  ASSUME StateInv, BlockInv', NEW n, NEW lev, HeapOK(n, lev), NEW t \in Threads, PopHead(t)
  PROVE  StateInv' /\ HeapOK(n, lev)'
<1>1. /\ pc[t] = "pop" /\ SeeHead(t, at[t])
      /\ UNCHANGED <<bvars, head, link, fixed, want, nxt, chunk, pushes, held, ops>>
  BY DEF PopHead, lists
<1>2. StateTypeOK /\ ThreadOK(t)
  BY DEF StateInv
<1>3. at[t] \in Lists /\ want[t] \in Lists /\ nxt = [u \in Threads |-> nxt[u]]
  BY <1>2 DEF StateTypeOK
<1>4. IF want[t] = Back THEN at[t] = Back ELSE at[t] \in want[t]..NumBuckets-1
  BY <1>1, <1>2 DEF ThreadOK, PopMatches, Popping
<1>5. pushes[t] = <<>> /\ chunk[t] = EMPTY /\ bpc'[t] = "idle"
  BY <1>1, NothingYet, PoolSame
<1>6. /\ ThreadOK(t)'
      /\ \E x \in {"pop", "next", "new"}, a \in Lists : \E c :
              /\ pc' = [pc EXCEPT ![t] = x] /\ cur' = [cur EXCEPT ![t] = c]
              /\ at' = [at EXCEPT ![t] = a]
  BY <1>1, <1>2, <1>3, <1>4, <1>5, SeeHeadOK
<1>7. PICK x, a, c :
              /\ x \in {"pop", "next", "new"} /\ a \in Lists
              /\ pc' = [pc EXCEPT ![t] = x] /\ cur' = [cur EXCEPT ![t] = c]
              /\ at' = [at EXCEPT ![t] = a]
  BY <1>6
<1>8. nxt' = [nxt EXCEPT ![t] = nxt[t]]
  BY <1>1, <1>3
<1>9. x \in StatePCs /\ x # "block" /\ x # "refill" /\ Popping(t) /\ pc[t] \in PendingPCs
      /\ pc[t] # "block"
  BY <1>1, <1>7 DEF StatePCs, Popping, PendingPCs
<1> QED
  BY <1>1, <1>6, <1>7, <1>8, <1>9, Local

\* It reads the link in the chunk it has found.
LEMMA PopLinkOK ==
  ASSUME StateInv, BlockInv', NEW n, NEW lev, HeapOK(n, lev), NEW t \in Threads, PopLink(t)
  PROVE  StateInv' /\ HeapOK(n, lev)'
<1>1. /\ pc[t] = "next" /\ pc' = [pc EXCEPT ![t] = "popcas"]
      /\ nxt' = [nxt EXCEPT ![t] = link[cur[t].offset]]
      /\ UNCHANGED <<bvars, head, link, fixed, want, at, cur, chunk, pushes, held, ops>>
  BY DEF PopLink, lists, Go
<1>2. StateTypeOK /\ ThreadOK(t)
  BY DEF StateInv
<1>3. /\ at[t] \in Lists /\ nxt = [u \in Threads |-> nxt[u]] /\ cur = [u \in Threads |-> cur[u]]
      /\ pc'[t] = "popcas" /\ nxt'[t] = link[cur[t].offset]
      /\ at' = [at EXCEPT ![t] = at[t]] /\ cur' = [cur EXCEPT ![t] = cur[t]]
  BY <1>1, <1>2 DEF StateTypeOK
<1>4. bpc' = bpc /\ call' = call
  BY <1>1, PoolSame
<1>5. CallMatches(t)' /\ PopMatches(t)' /\ PushMatches(t)' /\ ChainLinked(t)'
  BY <1>1, <1>2, <1>3, <1>4
  DEF ThreadOK, CallMatches, PopMatches, Popping, PushMatches, Pushing, ChainLinked
<1>6. ReadMatches(t)'
  BY <1>1, <1>2, <1>3 DEF ThreadOK, ReadMatches, HasRead, ReadList
<1>7. "popcas" \in StatePCs /\ Popping(t) /\ pc[t] \in PendingPCs
  BY <1>1 DEF StatePCs, Popping, PendingPCs
<1>8. ThreadOK(t)'
  BY <1>5, <1>6 DEF ThreadOK
<1> QED
  BY <1>1, <1>3, <1>7, <1>8, Local

\* Its exchange fails: it goes on with the head that there is now.
LEMMA PopAgainOK ==
  ASSUME StateInv, BlockInv', NEW n, NEW lev, HeapOK(n, lev), NEW t \in Threads,
         PopSwap(t), head[at[t]] # cur[t]
  PROVE  StateInv' /\ HeapOK(n, lev)'
<1>1. /\ pc[t] = "popcas" /\ SeeHead(t, at[t]) /\ nxt' = [nxt EXCEPT ![t] = EMPTY]
      /\ UNCHANGED <<bvars, head, link, fixed, want, chunk, pushes, held, ops>>
  BY DEF PopSwap
<1>2. StateTypeOK /\ ThreadOK(t)
  BY DEF StateInv
<1>3. at[t] \in Lists /\ want[t] \in Lists
  BY <1>2 DEF StateTypeOK
<1>4. IF want[t] = Back THEN at[t] = Back ELSE at[t] \in want[t]..NumBuckets-1
  BY <1>1, <1>2 DEF ThreadOK, PopMatches, Popping
<1>5. pushes[t] = <<>> /\ chunk[t] = EMPTY /\ bpc'[t] = "idle"
  BY <1>1, NothingYet, PoolSame
<1>6. /\ ThreadOK(t)'
      /\ \E x \in {"pop", "next", "new"}, a \in Lists : \E c :
              /\ pc' = [pc EXCEPT ![t] = x] /\ cur' = [cur EXCEPT ![t] = c]
              /\ at' = [at EXCEPT ![t] = a]
  BY <1>1, <1>2, <1>3, <1>4, <1>5, SeeHeadOK
<1>7. PICK x, a, c :
              /\ x \in {"pop", "next", "new"} /\ a \in Lists
              /\ pc' = [pc EXCEPT ![t] = x] /\ cur' = [cur EXCEPT ![t] = c]
              /\ at' = [at EXCEPT ![t] = a]
  BY <1>6
<1>9. x \in StatePCs /\ x # "block" /\ x # "refill" /\ Popping(t) /\ pc[t] \in PendingPCs
      /\ pc[t] # "block"
  BY <1>1, <1>7 DEF StatePCs, Popping, PendingPCs
<1> QED
  BY <1>1, <1>6, <1>7, <1>9, Local

\* The exchange of anv_free_list_push fails: the chain gets another successor.
LEMMA PushAgainOK ==
  ASSUME StateInv, BlockInv', NEW n, NEW lev, HeapOK(n, lev), NEW t \in Threads,
         PushSwap(t), head[Head(pushes[t]).list] # cur[t]
  PROVE  StateInv' /\ HeapOK(n, lev)'
<1>l. PICK l : l = Head(pushes[t]).list
  OBVIOUS
<1>1. /\ pc[t] = "pushcas" /\ pc' = [pc EXCEPT ![t] = "link"]
      /\ cur' = [cur EXCEPT ![t] = head[l]]
      /\ UNCHANGED <<bvars, head, link, fixed, want, at, nxt, chunk, pushes, held, ops>>
  BY <1>l DEF PushSwap, Go, Read
<1>2. StateTypeOK /\ ThreadOK(t)
  BY DEF StateInv
<1>3. pushes[t] \in Seq(ChainType) /\ pushes[t] # <<>>
  BY <1>1, <1>2 DEF StateTypeOK, ThreadOK, PushMatches, Pushing
<1>4. l \in Lists
  BY <1>3, <1>l, HeadChain
<1>5. /\ at[t] \in Lists /\ nxt = [u \in Threads |-> nxt[u]] /\ cur = [u \in Threads |-> cur[u]]
      /\ pc'[t] = "link" /\ cur'[t] = head[l] /\ head[l] \in Heads
      /\ at' = [at EXCEPT ![t] = at[t]] /\ nxt' = [nxt EXCEPT ![t] = nxt[t]]
  BY <1>1, <1>2, <1>4 DEF StateTypeOK
<1>6. bpc' = bpc /\ call' = call
  BY <1>1, PoolSame
<1>7. CallMatches(t)' /\ PopMatches(t)' /\ PushMatches(t)'
  BY <1>1, <1>2, <1>5, <1>6
  DEF ThreadOK, CallMatches, PopMatches, Popping, PushMatches, Pushing
<1>8. ChainLinked(t)'
  BY <1>1, <1>2, <1>5 DEF ThreadOK, ChainLinked
<1>9. ReadMatches(t)'
  <2>1. ReadList(t)' = l
    BY <1>1, <1>5, <1>l DEF ReadList
  <2>2. head[l].count \in Int
    BY <1>5, AnvStatePoolAssumption DEF Heads
  <2> QED
    BY <1>1, <1>5, <2>1, <2>2 DEF ReadMatches
<1>10. "link" \in StatePCs /\ "link" \notin PendingPCs
  BY DEF StatePCs, PendingPCs
<1>11. ThreadOK(t)'
  BY <1>7, <1>8, <1>9 DEF ThreadOK
<1> QED
  BY <1>1, <1>5, <1>10, <1>11, Local

\* futex_wait on the bucket's block.
LEMMA BucketWaitOK ==
  ASSUME StateInv, BlockInv', NEW n, NEW lev, HeapOK(n, lev), NEW t \in Threads,
         BucketWait(t)
  PROVE  StateInv' /\ HeapOK(n, lev)'
<1>1. /\ pc[t] = "wait"
      /\ UNCHANGED <<bvars, head, link, fixed, want, at, nxt, chunk, pushes, held, ops>>
  BY DEF BucketWait, lists
<1>2. StateTypeOK /\ ThreadOK(t)
  BY DEF StateInv
<1>3. /\ nxt = [u \in Threads |-> nxt[u]] /\ cur = [u \in Threads |-> cur[u]] /\ at[t] \in Lists
      /\ at' = [at EXCEPT ![t] = at[t]] /\ nxt' = [nxt EXCEPT ![t] = nxt[t]]
      /\ cur = [cur EXCEPT ![t] = cur[t]]
  BY <1>1, <1>2 DEF StateTypeOK
<1>4. PICK x, c : x \in {"sleep", "new"} /\ pc' = [pc EXCEPT ![t] = x] /\ cur' = [cur EXCEPT ![t] = c]
  BY <1>3 DEF BucketWait, Go, Read
<1>5. pc'[t] = x
  BY <1>2, <1>4 DEF StateTypeOK
<1>6. ThreadOK(t)'
  BY <1>1, <1>2, <1>4, <1>5, PoolSame
  DEF ThreadOK, CallMatches, PopMatches, Popping, PushMatches, Pushing, ReadMatches,
      HasRead, ChainLinked
<1>7. x \in StatePCs /\ x # "block" /\ x # "refill" /\ pc[t] \in PendingPCs
      /\ x \notin {"pop", "next", "popcas"}
  BY <1>1, <1>4 DEF StatePCs, PendingPCs
<1> QED
  BY <1>1, <1>3, <1>4, <1>6, <1>7, Local

-----------------------------------------------------------------------------
(* The calls, the futex and anv_free_list_push, up to the exchange *)

\* The call of a client: anv_state_pool_alloc or anv_state_pool_alloc_back.
LEMMA CallAllocOK ==
  ASSUME StateInv, BlockInv', NEW n, NEW lev, HeapOK(n, lev), NEW t \in Threads,
         NEW l \in Requests, CallAlloc(t, l)
  PROVE  StateInv' /\ HeapOK(n, lev)'
<1>1. /\ pc[t] = "idle" /\ ops < MaxOps /\ MemoryLeft /\ ops' = ops + 1
      /\ want' = [want EXCEPT ![t] = l] /\ SeeHead(t, l)
      /\ UNCHANGED <<bvars, head, link, fixed, nxt, chunk, pushes, held>>
  BY DEF CallAlloc, lists
<1>2. StateTypeOK /\ ThreadOK(t) /\ BlockInv /\ MemoryBound /\ CountsOK /\ BucketOK
  BY DEF StateInv
<1>3. l \in Lists /\ want'[t] = l /\ l \in Nat
  BY <1>1, <1>2, AnvStatePoolAssumption, SizeFacts DEF StateTypeOK, Lists
<1>4. IF want'[t] = Back THEN l = Back ELSE l \in want'[t]..NumBuckets-1
  BY <1>3, AnvStatePoolAssumption DEF Lists, Buckets, Back
<1>5. pushes[t] = <<>> /\ chunk[t] = EMPTY /\ bpc'[t] = "idle"
  BY <1>1, NothingYet, PoolSame
<1>6. /\ ThreadOK(t)'
      /\ \E x \in {"pop", "next", "new"}, a \in Lists : \E c :
              /\ pc' = [pc EXCEPT ![t] = x] /\ cur' = [cur EXCEPT ![t] = c]
              /\ at' = [at EXCEPT ![t] = a]
  BY <1>1, <1>2, <1>3, <1>4, <1>5, SeeHeadOK
<1>7. PICK x, a, c :
              /\ x \in {"pop", "next", "new"} /\ a \in Lists
              /\ pc' = [pc EXCEPT ![t] = x] /\ cur' = [cur EXCEPT ![t] = c]
              /\ at' = [at EXCEPT ![t] = a]
  BY <1>6
<1>8. x \in StatePCs /\ ops \in Nat /\ ops' \in Nat
  BY <1>1, <1>2, <1>7 DEF StatePCs, StateTypeOK
<1>9. StateTypeOK'
  BY <1>1, <1>2, <1>3, <1>7, <1>8 DEF StateTypeOK
<1>10. /\ \A u \in Threads \ {t} : /\ pc'[u] = pc[u] /\ cur'[u] = cur[u] /\ at'[u] = at[u]
                                   /\ want'[u] = want[u]
       /\ pc'[t] = x
  BY <1>1, <1>2, <1>7 DEF StateTypeOK
<1>11. Others(t) /\ HeadsCount /\ LinksKept(t)
  BY <1>1, <1>10, PoolSame DEF Others, HeadsCount, LinksKept
<1>12. \A u \in Threads : ThreadOK(u)'
  BY <1>2, <1>6, <1>9, <1>11, Frame DEF StateInv
<1>13. BucketOK'
  <2>1. \A u \in Threads : Refilling(u)' => Refilling(u) /\ want'[u] = want[u]
    BY <1>7, <1>10 DEF Refilling, Small
  <2> QED
    BY <1>1, <1>2, <2>1, KeepBucket
<1>14. MemoryBound'
  BY <1>1, <1>2, PoolSame, CallMemory
<1>15. CountsOK'
  <2>1. Swaps(t)' \in 0..3
    <3>1. Len(pushes'[t]) = 0
      BY <1>1, <1>5
    <3> QED
      BY <3>1 DEF Swaps
  <2>2. \A u \in Threads \ {t} : Swaps(u)' = Swaps(u)
    BY <1>1, <1>10 DEF Swaps, Popping
  <2> QED
    BY <1>1, <1>2, <2>1, <2>2, IssueTokens
<1>16. HeapOK(n, lev)'
  <2>1. GotHomes' = GotHomes
    <3>1. \A u \in {v \in Threads : chunk[v] # EMPTY} : want'[u] = want[u]
      BY <1>5, <1>10
    <3> QED
      BY <1>1, <3>1 DEF GotHomes
  <2>2. ClientHomes' = ClientHomes /\ RestHomes' = RestHomes /\ ChainHomes' = ChainHomes
    BY <1>1 DEF ClientHomes, RestHomes, ChainHomes, Chains
  <2> QED
    BY <1>1, <2>1, <2>2, PoolSame, HeapStays
<1> QED
  BY <1>9, <1>12, <1>13, <1>14, <1>15, <1>16 DEF StateInv

\* futex_wake on the bucket's block.
LEMMA BucketWakeOK ==
  ASSUME StateInv, BlockInv', NEW n, NEW lev, HeapOK(n, lev), NEW t \in Threads,
         BucketWake(t)
  PROVE  StateInv' /\ HeapOK(n, lev)'
<1>1. /\ pc[t] = "wake"
      /\ UNCHANGED <<bvars, head, link, fixed, want, at, nxt, chunk, pushes, held, ops>>
  BY DEF BucketWake, lists
<1>2. StateTypeOK /\ ThreadOK(t) /\ BlockInv /\ MemoryBound /\ CountsOK /\ BucketOK
  BY DEF StateInv
<1>3. /\ pc'[t] = "done"
      /\ \A u \in Threads \ {t} : \/ pc'[u] = pc[u] /\ cur'[u] = cur[u]
                                  \/ pc[u] = "sleep" /\ pc'[u] = "new"
  BY <1>1, <1>2 DEF StateTypeOK, BucketWake
<1>4. pc' = [u \in Threads |-> pc'[u]] /\ cur' = [u \in Threads |-> cur'[u]]
  BY DEF BucketWake
<1>5. pc' \in [Threads -> StatePCs]
  <2>1. \A u \in Threads : pc'[u] \in StatePCs
    BY <1>2, <1>3 DEF StateTypeOK, StatePCs
  <2> QED
    BY <1>4, <2>1
<1>6. StateTypeOK'
  BY <1>1, <1>2, <1>4, <1>5 DEF StateTypeOK
<1>7. Others(t) /\ HeadsCount /\ LinksKept(t)
  BY <1>1, <1>3, PoolSame DEF Others, HeadsCount, LinksKept
<1>8. ThreadOK(t)'
  BY <1>1, <1>2, <1>3, PoolSame
  DEF ThreadOK, CallMatches, PopMatches, Popping, PushMatches, Pushing, ReadMatches,
      HasRead, ChainLinked
<1>9. \A u \in Threads : ThreadOK(u)'
  BY <1>2, <1>6, <1>7, <1>8, Frame DEF StateInv
<1>10. BucketOK'
  <2>1. \A u \in Threads : Refilling(u)' => Refilling(u) /\ want'[u] = want[u]
    BY <1>1, <1>3 DEF Refilling, Small
  <2> QED
    BY <1>1, <1>2, <2>1, KeepBucket
<1>11. MemoryBound'
  <2>1. Pending' \subseteq Pending
    BY <1>1, <1>3, PoolSame DEF Pending, PendingPCs
  <2> QED
    BY <1>1, <1>2, <2>1, PoolSame, KeepMemory
<1>12. CountsOK'
  <2>1. \A u \in Threads : Swaps(u) \in Nat /\ Swaps(u)' = Swaps(u)
    <3>1. \A u \in Threads : Popping(u)' <=> Popping(u)
      BY <1>1, <1>3 DEF Popping
    <3> QED
      BY <1>1, <1>2, <3>1, SwapsNat DEF Swaps
  <2>2. \A u \in Threads : Swaps(u) \in Nat /\ Swaps(u)' \in Nat /\ Swaps(u)' <= Swaps(u)
    BY <2>1
  <2> QED
    BY <1>1, <1>2, <2>2, KeepTokens
<1>13. HeapOK(n, lev)'
  <2>1. /\ ClientHomes' = ClientHomes /\ RestHomes' = RestHomes /\ GotHomes' = GotHomes
        /\ ChainHomes' = ChainHomes
    BY <1>1 DEF ClientHomes, RestHomes, GotHomes, ChainHomes, Chains
  <2> QED
    BY <1>1, <2>1, PoolSame, HeapStays
<1> QED
  BY <1>6, <1>9, <1>10, <1>11, <1>12, <1>13 DEF StateInv

\* A thread that pushes a chain writes links into it, and nothing else.
LEMMA ChainWrite ==
  ASSUME StateInv, BlockInv', NEW n, NEW lev, HeapOK(n, lev), NEW t \in Threads,
         NEW x \in {"link", "pushcas"}, NEW c,
         Pushing(t), pc' = [pc EXCEPT ![t] = x], cur' = [cur EXCEPT ![t] = c],
         UNCHANGED <<bvars, head, fixed, want, at, nxt, chunk, pushes, held, ops>>,
         link' \in [Offsets -> Offsets \cup {EMPTY, Garbage}],
         \A o \in Offsets : link'[o] # link[o] => o \in ChainOf(Head(pushes[t])),
         ReadMatches(t)', ChainLinked(t)'
  PROVE  StateInv' /\ HeapOK(n, lev)'
<1>2. StateTypeOK /\ ThreadOK(t) /\ BlockInv /\ MemoryBound /\ CountsOK /\ BucketOK
  BY DEF StateInv
<1>3. x \in StatePCs
  BY DEF StatePCs
<1>4. StateTypeOK'
  BY <1>2, <1>3 DEF StateTypeOK
<1>5. /\ \A u \in Threads \ {t} : pc'[u] = pc[u] /\ cur'[u] = cur[u]
      /\ pc'[t] = x
  BY <1>2 DEF StateTypeOK
<1>6. Others(t) /\ HeadsCount
  BY <1>5, PoolSame DEF Others, HeadsCount
<1>p. PICK p : p = Head(pushes[t])
  OBVIOUS
<1>7. p \in Chains(t)
  <2>1. pushes[t] \in Seq(ChainType) /\ pushes[t] # <<>>
    BY <1>2 DEF StateTypeOK, ThreadOK, PushMatches
  <2> QED
    BY <1>p, <2>1, HeadChain DEF Chains
<1>8. /\ LinksKept(t)
      /\ \A l \in Lists : \A k \in 1..n[l] : link'[lev[l][k]] = link[lev[l][k]]
  <2>1. ASSUME NEW o \in Offsets, link'[o] # link[o]
        PROVE  \E h \in HomesWith(FreeOf(n, lev)) : OwnHome(t, h) /\ In(o, h)
    <3>1. o \in ChainOf(p)
      BY <1>p, <2>1
    <3>h. PICK h : h = <<"chain", <<t, p.list>>, o, ChunkSize(p.list)>>
      OBVIOUS
    <3>2. h \in HomesWith(FreeOf(n, lev)) /\ In(o, h)
      BY <1>2, <1>7, <3>1, <3>h, ChainFacts
    <3>3. OwnHome(t, h)
      BY <3>h DEF OwnHome
    <3> QED
      BY <3>2, <3>3
  <2> QED
    BY <1>2, <2>1, OwnWrites
<1>9. ThreadOK(t)'
  <2>1. CallMatches(t)' /\ PopMatches(t)' /\ PushMatches(t)'
    BY <1>2, <1>5, PoolSame
    DEF ThreadOK, CallMatches, PopMatches, Popping, PushMatches, Pushing
  <2> QED
    BY <2>1 DEF ThreadOK
<1>10. \A u \in Threads : ThreadOK(u)'
  BY <1>2, <1>4, <1>6, <1>8, <1>9, Frame DEF StateInv
<1>11. BucketOK'
  <2>1. \A u \in Threads : Refilling(u)' => Refilling(u) /\ want'[u] = want[u]
    BY <1>5 DEF Refilling, Small
  <2> QED
    BY <1>2, <2>1, KeepBucket
<1>12. MemoryBound'
  <2>1. Pending' \subseteq Pending
    BY <1>5, PoolSame DEF Pending, PendingPCs
  <2> QED
    BY <1>2, <2>1, PoolSame, KeepMemory
<1>13. CountsOK'
  <2>1. \A u \in Threads : Swaps(u) \in Nat /\ Swaps(u)' = Swaps(u)
    <3>1. \A u \in Threads : Popping(u)' <=> Popping(u)
      BY <1>5 DEF Popping, Pushing
    <3> QED
      BY <1>2, <3>1, SwapsNat DEF Swaps
  <2>2. \A u \in Threads : Swaps(u) \in Nat /\ Swaps(u)' \in Nat /\ Swaps(u)' <= Swaps(u)
    BY <2>1
  <2> QED
    BY <1>2, <2>2, KeepTokens
<1>14. HeapOK(n, lev)'
  <2>1. /\ ClientHomes' = ClientHomes /\ RestHomes' = RestHomes /\ GotHomes' = GotHomes
        /\ ChainHomes' = ChainHomes
    BY DEF ClientHomes, RestHomes, GotHomes, ChainHomes, Chains
  <2> QED
    BY <1>8, <2>1, PoolSame, HeapStays
<1> QED
  BY <1>4, <1>10, <1>11, <1>12, <1>13, <1>14 DEF StateInv

\* anv_free_list_push links the chain and reads the head.
LEMMA PushChainOK ==
  ASSUME StateInv, BlockInv', NEW n, NEW lev, HeapOK(n, lev), NEW t \in Threads,
         PushChain(t)
  PROVE  StateInv' /\ HeapOK(n, lev)'
<1>p. PICK p : p = Head(pushes[t])
  OBVIOUS
<1>1. /\ pc[t] = "push"
      /\ pc' = [pc EXCEPT ![t] = "link"] /\ cur' = [cur EXCEPT ![t] = head[p.list]]
      /\ link' = [o \in Offsets |-> IF o \in ChainOf(p) \ {TailOf(p)} THEN o + ChunkSize(p.list)
                                                                  ELSE link[o]]
      /\ UNCHANGED <<bvars, head, fixed, want, at, nxt, chunk, pushes, held, ops>>
  BY <1>p DEF PushChain, StartPush, Go, Read
<1>2. StateTypeOK /\ ThreadOK(t) /\ BlockInv /\ MemoryBound
  BY DEF StateInv
<1>3. pushes[t] \in Seq(ChainType) /\ pushes[t] # <<>> /\ Pushing(t)
  BY <1>1, <1>2 DEF StateTypeOK, ThreadOK, PushMatches, Pushing
<1>4. p \in Chains(t) /\ p.list \in Lists
  BY <1>3, <1>p, HeadChain DEF Chains
<1>5. /\ \A o \in ChainOf(p) : o \in Offsets
      /\ \A o \in ChainOf(p) \ {TailOf(p)} : o + ChunkSize(p.list) \in Offsets
  BY <1>2, <1>4, ChainFacts
<1>6. link' \in [Offsets -> Offsets \cup {EMPTY, Garbage}]
  <2>1. \A o \in Offsets : link[o] \in Offsets \cup {EMPTY, Garbage}
    BY <1>2 DEF StateTypeOK
  <2> QED
    BY <1>1, <1>5, <2>1
<1>7. \A o \in Offsets : link'[o] # link[o] => o \in ChainOf(p)
  BY <1>1
<1>8. /\ pc'[t] = "link" /\ cur'[t] = head[p.list] /\ head[p.list] \in Heads
  BY <1>1, <1>2, <1>4 DEF StateTypeOK
<1>9. ReadMatches(t)'
  <2>1. ReadList(t)' = p.list
    BY <1>1, <1>8, <1>p DEF ReadList
  <2>2. head[p.list].count \in Int
    BY <1>8, AnvStatePoolAssumption DEF Heads
  <2> QED
    BY <1>1, <1>8, <2>1, <2>2 DEF ReadMatches
<1>10. ChainLinked(t)'
  <2>1. \A o \in ChainOf(p) \ {TailOf(p)} : link'[o] = o + ChunkSize(p.list)
    BY <1>1, <1>5
  <2>2. Head(pushes'[t]) = p
    BY <1>1, <1>p
  <2> QED
    BY <1>8, <2>1, <2>2 DEF ChainLinked
<1> QED
  BY <1>1, <1>3, <1>6, <1>7, <1>9, <1>10, <1>p, ChainWrite

\* It links the chain's last chunk to the head that it has read.
LEMMA PushLinkOK ==
  ASSUME StateInv, BlockInv', NEW n, NEW lev, HeapOK(n, lev), NEW t \in Threads,
         PushLink(t)
  PROVE  StateInv' /\ HeapOK(n, lev)'
<1>p. PICK p : p = Head(pushes[t])
  OBVIOUS
<1>1. /\ pc[t] = "link"
      /\ pc' = [pc EXCEPT ![t] = "pushcas"]
      /\ link' = [link EXCEPT ![TailOf(p)] = cur[t].offset]
      /\ UNCHANGED <<bvars, head, fixed, want, at, cur, nxt, chunk, pushes, held, ops>>
  BY <1>p DEF PushLink, Go, mine
<1>2. StateTypeOK /\ ThreadOK(t) /\ BlockInv /\ MemoryBound
  BY DEF StateInv
<1>3. pushes[t] \in Seq(ChainType) /\ pushes[t] # <<>> /\ Pushing(t)
  BY <1>1, <1>2 DEF StateTypeOK, ThreadOK, PushMatches, Pushing
<1>4. p \in Chains(t) /\ p.list \in Lists
  BY <1>3, <1>p, HeadChain DEF Chains
<1>5. TailOf(p) \in ChainOf(p) /\ TailOf(p) \in Offsets /\ \A o \in ChainOf(p) : o \in Offsets
  BY <1>2, <1>4, ChainFacts
<1>6. cur[t] \in Heads /\ cur[t].offset \in Offsets \cup {EMPTY}
  BY <1>1, <1>2 DEF ThreadOK, ReadMatches, HasRead, Heads
<1>7. link' \in [Offsets -> Offsets \cup {EMPTY, Garbage}]
  BY <1>1, <1>2, <1>5, <1>6 DEF StateTypeOK
<1>8. \A o \in Offsets : link'[o] # link[o] => o \in ChainOf(p)
  BY <1>1, <1>2, <1>5 DEF StateTypeOK
<1>9. /\ pc'[t] = "pushcas" /\ cur' = [cur EXCEPT ![t] = cur[t]]
  BY <1>1, <1>2 DEF StateTypeOK
<1>10. ReadMatches(t)'
  BY <1>1, <1>2, <1>9 DEF ThreadOK, ReadMatches, HasRead, ReadList
<1>11. ChainLinked(t)'
  <2>1. \A o \in ChainOf(p) \ {TailOf(p)} : link'[o] = o + ChunkSize(p.list)
    <3>1. \A o \in ChainOf(p) \ {TailOf(p)} : link[o] = o + ChunkSize(p.list)
      BY <1>1, <1>2, <1>p DEF ThreadOK, ChainLinked
    <3>2. \A o \in ChainOf(p) \ {TailOf(p)} : link'[o] = link[o]
      BY <1>1, <1>2, <1>5 DEF StateTypeOK
    <3> QED
      BY <3>1, <3>2
  <2>2. Head(pushes'[t]) = p
    BY <1>1, <1>p
  <2>3. link'[TailOf(p)] = cur'[t].offset
    BY <1>1, <1>2, <1>5 DEF StateTypeOK
  <2> QED
    BY <1>9, <2>1, <2>2, <2>3 DEF ChainLinked
<1> QED
  BY <1>1, <1>3, <1>7, <1>8, <1>9, <1>10, <1>11, <1>p, ChainWrite

\* The places of the chunks of a chain of thread u.
HomesOfChain(u, p) == {<<"chain", <<u, p.list>>, o, ChunkSize(p.list)>> : o \in ChainOf(p)}

\* Each chain of each thread has its places.
LEMMA ChainHomesAre ==
  \A h : h \in ChainHomes <=> \E u \in Threads : \E p \in Chains(u) : h \in HomesOfChain(u, p)
BY DEF ChainHomes, HomesOfChain

\* The lists as they are, if only the homes change.
LEMMA ListsStay ==
  ASSUME NEW n, NEW lev, HeapOK(n, lev), \A l \in Lists : head'[l].offset = head[l].offset,
         \A l \in Lists : \A k \in 1..n[l] : link'[lev[l][k]] = link[lev[l][k]]
  PROVE  /\ Linked(n, lev)' /\ FreeHomes(FreeOf(n, lev))' = FreeHomes(FreeOf(n, lev))
         /\ n \in [Lists -> Nat] /\ lev \in [Lists -> [Nat -> Offsets \cup {EMPTY}]]
<1>1. Linked(n, lev)'
  BY DEF Linked, HeapOK
<1>2. FreeHomes(FreeOf(n, lev))' = FreeHomes(FreeOf(n, lev))
  BY DEF FreeHomes, FreeOf
<1> QED
  BY <1>1, <1>2 DEF HeapOK

\* One home becomes another, and the lists stay.
LEMMA HomeMoves ==
  ASSUME NEW n, NEW lev, HeapOK(n, lev), Used' = Used, Linked(n, lev)',
         NEW r \in HomesWith(FreeOf(n, lev)), NEW m, \A a : In(a, r) <=> In(a, m),
         HomesWith(FreeOf(n, lev))' = (HomesWith(FreeOf(n, lev)) \ {r}) \cup {m}
  PROVE  HeapOK(n, lev)'
<1>1. \A a : (\E x \in {r} : In(a, x)) <=> (\E x \in {m} : In(a, x))
  OBVIOUS
<1>2. \A g, h \in {m} : \A a : In(a, g) /\ In(a, h) => g = h
  OBVIOUS
<1>4. n \in [Lists -> Nat] /\ lev \in [Lists -> [Nat -> Offsets \cup {EMPTY}]]
  BY DEF HeapOK
<1> QED
  <2>h. PICK H, G : H = HomesWith(FreeOf(n, lev)) /\ G = HomesWith(FreeOf(n, lev))'
    OBVIOUS
  <2>1. Partition(H, Bytes) /\ {r} \subseteq H /\ G = (H \ {r}) \cup {m}
    BY <2>h DEF HeapOK
  <2>2. Partition(G, Bytes')
    BY <1>1, <1>2, <2>1, HomesMove, Zenon
  <2> QED
    BY <1>4, <2>h, <2>2, HeapFrom

\* A thread has what it has in one place.
LEMMA GotMoves ==
  ASSUME StateTypeOK, NEW t \in Threads,
         \A u \in Threads \ {t} : chunk'[u] = chunk[u] /\ want'[u] = want[u]
  PROVE  /\ chunk[t] # EMPTY /\ chunk'[t] = EMPTY
              => GotHomes' = GotHomes \ {<<"got", t, chunk[t], ChunkSize(want[t])>>}
         /\ chunk[t] = EMPTY /\ chunk'[t] # EMPTY
              => GotHomes' = GotHomes \cup {<<"got", t, chunk'[t], ChunkSize(want'[t])>>}
<1> DEFINE Got(u) == <<"got", u, chunk[u], ChunkSize(want[u])>>
<1>1. \A h : h \in GotHomes <=> \E u \in Threads : chunk[u] # EMPTY /\ h = Got(u)
  BY DEF GotHomes
<1>2. \A h : h \in GotHomes' <=> \E u \in Threads : chunk'[u] # EMPTY /\ h = Got(u)'
  BY DEF GotHomes
<1>3. \A u \in Threads \ {t} : Got(u)' = Got(u) /\ Got(u) # Got(t) /\ Got(u) # Got(t)'
  OBVIOUS
<1> HIDE DEF Got
<1>4. ASSUME chunk[t] # EMPTY, chunk'[t] = EMPTY PROVE GotHomes' = GotHomes \ {Got(t)}
  BY <1>1, <1>2, <1>3, <1>4
<1>5. ASSUME chunk[t] = EMPTY, chunk'[t] # EMPTY PROVE GotHomes' = GotHomes \cup {Got(t)'}
  BY <1>1, <1>2, <1>3, <1>5
<1> QED
  BY <1>4, <1>5 DEF Got

\* The call returns with its chunk.
LEMMA DoneOK ==
  ASSUME StateInv, BlockInv', NEW n, NEW lev, HeapOK(n, lev), NEW t \in Threads, Done(t)
  PROVE  StateInv' /\ HeapOK(n, lev)'
<1>o. PICK o, w : o = chunk[t] /\ w = want[t]
  OBVIOUS
<1>1. /\ pc[t] = "done" /\ held' = held \cup {[offset |-> o, list |-> w]}
      /\ link' = [a \in Offsets |->
                IF a \in o..o + ChunkSize(w) - 1 THEN Garbage ELSE link[a]]
      /\ chunk' = [chunk EXCEPT ![t] = EMPTY] /\ want' = [want EXCEPT ![t] = Back]
      /\ at' = [at EXCEPT ![t] = Back] /\ pc' = [pc EXCEPT ![t] = "idle"]
      /\ UNCHANGED <<bvars, head, fixed, cur, nxt, pushes, ops>>
  BY <1>o DEF Done, Go
<1>2. StateTypeOK /\ ThreadOK(t) /\ BlockInv /\ MemoryBound /\ CountsOK /\ BucketOK
  BY DEF StateInv
<1>3. /\ o \in Offsets /\ w \in Lists /\ chunk[t] # EMPTY /\ o \in Int /\ o # EMPTY
      /\ ChunkSize(w) \in Nat \ {0} /\ Back \in Lists
  <2>1. chunk[t] # EMPTY
    BY <1>1, <1>2 DEF ThreadOK, PushMatches
  <2>2. o \in Offsets /\ w \in Lists /\ o # EMPTY
    BY <1>o, <1>2, <2>1 DEF StateTypeOK
  <2>3. Offsets \subseteq Int /\ Back \in Lists
    BY AnvStatePoolAssumption DEF Offsets, Lists
  <2> QED
    BY <2>1, <2>2, <2>3, SizeFacts
<1>4. StateTypeOK'
  <2>1. link' \in [Offsets -> Offsets \cup {EMPTY, Garbage}]
    BY <1>1, <1>2 DEF StateTypeOK
  <2>2. held' \subseteq [offset : Offsets, list : Lists]
    BY <1>1, <1>2, <1>3 DEF StateTypeOK
  <2>3. "idle" \in StatePCs
    BY DEF StatePCs
  <2> QED
    BY <1>1, <1>2, <1>3, <2>1, <2>2, <2>3 DEF StateTypeOK
<1>5. /\ \A u \in Threads \ {t} : /\ pc'[u] = pc[u] /\ at'[u] = at[u] /\ want'[u] = want[u]
                                  /\ chunk'[u] = chunk[u]
      /\ pc'[t] = "idle" /\ chunk'[t] = EMPTY
  BY <1>1, <1>2 DEF StateTypeOK
<1>6. Others(t) /\ HeadsCount
  BY <1>1, <1>5, PoolSame DEF Others, HeadsCount
<1>g. PICK g : g = <<"got", t, o, ChunkSize(w)>>
  OBVIOUS
<1>m. PICK m : m = <<"client", w, o, ChunkSize(w)>>
  OBVIOUS
<1>7. g \in HomesWith(FreeOf(n, lev))
  BY <1>3, <1>g, <1>o, HomeOf
<1>b. \A a : (In(a, g) <=> In(a, m)) /\ (In(a, g) <=> a \in o..o + ChunkSize(w) - 1)
  BY <1>g, <1>m DEF In
<1>8. /\ LinksKept(t)
      /\ \A l \in Lists : \A k \in 1..n[l] : link'[lev[l][k]] = link[lev[l][k]]
  <2>1. ASSUME NEW a \in Offsets, link'[a] # link[a]
        PROVE  \E h \in HomesWith(FreeOf(n, lev)) : OwnHome(t, h) /\ In(a, h)
    <3>1. In(a, g)
      BY <1>1, <1>b, <2>1
    <3>2. g[1] = "got" /\ g[2] = t
      BY <1>g
    <3>3. OwnHome(t, g)
      BY <3>2 DEF OwnHome
    <3> QED
      BY <1>7, <3>1, <3>3
  <2> QED
    BY <1>2, <2>1, OwnWrites
<1>9. ThreadOK(t)'
  BY <1>1, <1>2, <1>5, PoolSame
  DEF ThreadOK, CallMatches, PopMatches, Popping, PushMatches, Pushing, ReadMatches,
      HasRead, ChainLinked
<1>10. \A u \in Threads : ThreadOK(u)'
  BY <1>2, <1>4, <1>6, <1>8, <1>9, Frame DEF StateInv
<1>11. BucketOK'
  <2>1. \A u \in Threads : Refilling(u)' => Refilling(u) /\ want'[u] = want[u]
    BY <1>5 DEF Refilling, Small
  <2> QED
    BY <1>1, <1>2, <2>1, KeepBucket
<1>12. MemoryBound'
  <2>1. Pending' \subseteq Pending
    BY <1>1, <1>5, PoolSame DEF Pending, PendingPCs
  <2> QED
    BY <1>1, <1>2, <2>1, PoolSame, KeepMemory
<1>13. CountsOK'
  <2>1. \A u \in Threads : Swaps(u) \in Nat /\ Swaps(u)' = Swaps(u)
    <3>1. \A u \in Threads : Popping(u)' <=> Popping(u)
      BY <1>1, <1>5 DEF Popping
    <3> QED
      BY <1>1, <1>2, <3>1, SwapsNat DEF Swaps
  <2>2. \A u \in Threads : Swaps(u) \in Nat /\ Swaps(u)' \in Nat /\ Swaps(u)' <= Swaps(u)
    BY <2>1
  <2> QED
    BY <1>1, <1>2, <2>2, KeepTokens
<1>14. HeapOK(n, lev)'
  <2>1. /\ Linked(n, lev)' /\ FreeHomes(FreeOf(n, lev))' = FreeHomes(FreeOf(n, lev))
        /\ n \in [Lists -> Nat] /\ lev \in [Lists -> [Nat -> Offsets \cup {EMPTY}]]
    BY <1>1, <1>8, ListsStay
  <2>2. GotHomes' = GotHomes \ {g}
    BY <1>2, <1>3, <1>5, <1>g, <1>o, GotMoves
  <2>3. ClientHomes' = ClientHomes \cup {m}
    <3>q. PICK q : q = [offset |-> o, list |-> w]
      OBVIOUS
    <3>1. m = <<"client", q.list, q.offset, ChunkSize(q.list)>> /\ held' = held \cup {q}
      BY <1>1, <1>m, <3>q
    <3> QED
      BY <3>1 DEF ClientHomes
  <2>4. RestHomes' = RestHomes /\ ChainHomes' = ChainHomes /\ BlockHomes' = BlockHomes
    BY <1>1, PoolSame DEF RestHomes, ChainHomes, Chains
  <2>5. g \notin ClientHomes \cup FreeHomes(FreeOf(n, lev)) \cup RestHomes \cup BlockHomes
               \cup ChainHomes
    BY <1>g, Kinds
  <2>6. HomesWith(FreeOf(n, lev))' = (HomesWith(FreeOf(n, lev)) \ {g}) \cup {m}
    BY <2>1, <2>2, <2>3, <2>4, <2>5 DEF HomesWith
  <2> QED
    BY <1>1, <1>7, <1>b, <2>1, <2>6, PoolSame, HomeMoves
<1> QED
  BY <1>4, <1>10, <1>11, <1>12, <1>13, <1>14 DEF StateInv

\* anv_state_pool_free: the client's state is a chain of one chunk.
LEMMA CallFreeOK ==
  ASSUME StateInv, BlockInv', NEW n, NEW lev, HeapOK(n, lev), NEW t \in Threads,
         NEW s \in held, CallFree(t, s)
  PROVE  StateInv' /\ HeapOK(n, lev)'
<1>p. PICK p : p = [list |-> s.list, offset |-> s.offset, count |-> 1]
  OBVIOUS
<1>1. /\ pc[t] = "idle" /\ ops < MaxOps /\ ops' = ops + 1 /\ held' = held \ {s}
      /\ pushes' = [pushes EXCEPT ![t] = <<p>>]
      /\ link' = [o \in Offsets |-> IF o \in ChainOf(p) \ {TailOf(p)} THEN o + ChunkSize(p.list)
                                                                  ELSE link[o]]
      /\ cur' = [cur EXCEPT ![t] = head[p.list]]
      /\ pc' = [pc EXCEPT ![t] = "link"]
      /\ UNCHANGED <<bvars, head, fixed, want, at, nxt, chunk>>
  BY <1>p DEF CallFree, StartPush, Go, Read
<1>2. StateTypeOK /\ ThreadOK(t) /\ BlockInv /\ MemoryBound /\ CountsOK /\ BucketOK
  BY DEF StateInv
<1>3. /\ s \in [offset : Offsets, list : Lists] /\ s.list \in Lists /\ s.offset \in Int
      /\ ChunkSize(s.list) \in Nat \ {0}
  <2>1. s \in [offset : Offsets, list : Lists]
    BY <1>2 DEF StateTypeOK
  <2>2. Offsets \subseteq Int
    BY AnvStatePoolAssumption DEF Offsets
  <2> QED
    BY <2>1, <2>2, SizeFacts
<1>4. ChainOf(p) = {s.offset} /\ TailOf(p) = s.offset
  <2>1. 0..p.count-1 = {0} /\ p.count - 1 = 0 /\ p.offset = s.offset /\ p.list = s.list
    BY <1>p
  <2>2. 0 * ChunkSize(s.list) = 0 /\ s.offset + 0 = s.offset
    BY <1>3
  <2>3. ChainOf(p) = {s.offset + 0 * ChunkSize(s.list)}
    BY <2>1 DEF ChainOf
  <2>4. TailOf(p) = s.offset + 0 * ChunkSize(s.list)
    BY <2>1 DEF TailOf
  <2> QED
    BY <2>2, <2>3, <2>4
<1>5. link' = link
  BY <1>1, <1>2, <1>4 DEF StateTypeOK
<1>6. p \in ChainType /\ <<p>> \in Seq(ChainType) /\ p.list \in Lists /\ head[p.list] \in Heads
  <2>1. p \in ChainType /\ p.list \in Lists
    BY <1>3, <1>p DEF ChainType
  <2> QED
    BY <1>2, <2>1 DEF StateTypeOK
<1>7. StateTypeOK'
  <2>1. "link" \in StatePCs /\ ops' \in Nat
    BY <1>1, <1>2 DEF StatePCs, StateTypeOK
  <2> QED
    BY <1>1, <1>2, <1>5, <1>6, <2>1 DEF StateTypeOK
<1>8. /\ \A u \in Threads \ {t} : pc'[u] = pc[u] /\ cur'[u] = cur[u] /\ pushes'[u] = pushes[u]
      /\ pc'[t] = "link" /\ cur'[t] = head[p.list] /\ pushes'[t] = <<p>>
  BY <1>1, <1>2 DEF StateTypeOK
<1>9. Others(t) /\ HeadsCount /\ LinksKept(t)
  BY <1>1, <1>5, <1>8, PoolSame DEF Others, HeadsCount, LinksKept
<1>10. Head(<<p>>) = p /\ Len(<<p>>) = 1 /\ DOMAIN <<p>> = {1} /\ <<p>>[1] = p /\ <<p>> # <<>>
  OBVIOUS
<1>0. pushes[t] = <<>> /\ chunk[t] = EMPTY /\ bpc[t] = "idle"
  BY <1>1, NothingYet
<1>11. ThreadOK(t)'
  <2>1. CallMatches(t)' /\ PopMatches(t)'
    BY <1>0, <1>1, <1>8, PoolSame DEF CallMatches, PopMatches, Popping
  <2>2. PushMatches(t)'
    BY <1>0, <1>1, <1>8, <1>10 DEF PushMatches, Pushing
  <2>3. ReadMatches(t)'
    <3>1. ReadList(t)' = p.list
      BY <1>8, <1>10 DEF ReadList
    <3>2. head[p.list].count \in Int
      BY <1>6, AnvStatePoolAssumption DEF Heads
    <3> QED
      BY <1>1, <1>6, <1>8, <3>1, <3>2 DEF ReadMatches
  <2>4. ChainLinked(t)'
    BY <1>4, <1>8, <1>10 DEF ChainLinked
  <2> QED
    BY <2>1, <2>2, <2>3, <2>4 DEF ThreadOK
<1>12. \A u \in Threads : ThreadOK(u)'
  BY <1>2, <1>7, <1>9, <1>11, Frame DEF StateInv
<1>13. BucketOK'
  <2>1. \A u \in Threads : Refilling(u)' => Refilling(u) /\ want'[u] = want[u]
    BY <1>1, <1>8 DEF Refilling, Small
  <2> QED
    BY <1>1, <1>2, <2>1, KeepBucket
<1>14. MemoryBound'
  <2>1. Pending' \subseteq Pending
    BY <1>1, <1>8, PoolSame DEF Pending, PendingPCs
  <2> QED
    BY <1>1, <1>2, <2>1, PoolSame, KeepMemory
<1>15. CountsOK'
  <2>1. Swaps(t)' \in 0..3
    BY <1>8, <1>10 DEF Swaps, Popping
  <2>2. \A u \in Threads \ {t} : Swaps(u)' = Swaps(u)
    BY <1>1, <1>8 DEF Swaps, Popping
  <2> QED
    BY <1>1, <1>2, <2>1, <2>2, IssueTokens
<1>r. PICK r : r = <<"client", s.list, s.offset, ChunkSize(s.list)>>
  OBVIOUS
<1>m. PICK m : m = <<"chain", <<t, s.list>>, s.offset, ChunkSize(s.list)>>
  OBVIOUS
<1>16. HeapOK(n, lev)'
  <2>1. /\ Linked(n, lev)' /\ FreeHomes(FreeOf(n, lev))' = FreeHomes(FreeOf(n, lev))
        /\ n \in [Lists -> Nat] /\ lev \in [Lists -> [Nat -> Offsets \cup {EMPTY}]]
    BY <1>1, <1>5, ListsStay
  <2>2. GotHomes' = GotHomes /\ RestHomes' = RestHomes /\ BlockHomes' = BlockHomes
    BY <1>1, PoolSame DEF GotHomes, RestHomes
  <2>3. ClientHomes' = ClientHomes \ {r}
    <3>1. \A q \in held : q \in [offset : Offsets, list : Lists]
      BY <1>2 DEF StateTypeOK
    <3>2. \A q \in held : <<"client", q.list, q.offset, ChunkSize(q.list)>> = r => q = s
      BY <1>3, <1>r, <3>1
    <3> QED
      BY <1>1, <1>r, <3>2 DEF ClientHomes
  <2>4. ChainHomes' = ChainHomes \cup {m}
    <3>1. Chains(t) = {} /\ Chains(t)' = {p} /\ \A u \in Threads \ {t} : Chains(u)' = Chains(u)
      BY <1>0, <1>8, <1>10 DEF Chains
    <3>2. HomesOfChain(t, p) = {m}
      BY <1>4, <1>m, <1>p DEF HomesOfChain
    <3>3. \A h : h \in ChainHomes' <=> \E u \in Threads : \E q \in Chains(u)' : h \in HomesOfChain(u, q)
      BY DEF ChainHomes, HomesOfChain
    <3> HIDE DEF HomesOfChain, Chains
    <3> QED
      BY <3>1, <3>2, <3>3, ChainHomesAre
  <2>5. r \notin GotHomes \cup FreeHomes(FreeOf(n, lev)) \cup RestHomes \cup BlockHomes
               \cup ChainHomes
    BY <1>r, Kinds
  <2>6. HomesWith(FreeOf(n, lev))' = (HomesWith(FreeOf(n, lev)) \ {r}) \cup {m}
    BY <2>1, <2>2, <2>3, <2>4, <2>5 DEF HomesWith
  <2>7. r \in HomesWith(FreeOf(n, lev))
    BY <1>r, HomeOf
  <2>8. \A a : In(a, r) <=> In(a, m)
    BY <1>r, <1>m DEF In
  <2> QED
    BY <1>1, <2>1, <2>6, <2>7, <2>8, PoolSame, HomeMoves
<1> QED
  BY <1>7, <1>12, <1>13, <1>14, <1>15, <1>16 DEF StateInv

-----------------------------------------------------------------------------
(* anv_fixed_size_state_pool_alloc_new *)

\* The rest of a bucket's block changes with the bucket's pair.
LEMMA RestMoves ==
  ASSUME StateTypeOK, NEW b \in Buckets, \A c \in Buckets \ {b} : fixed'[c] = fixed[c],
         NEW r, r = <<"rest", b, fixed[b].next, fixed[b].end - fixed[b].next>>,
         NEW q, q = <<"rest", b, fixed'[b].next, fixed'[b].end - fixed'[b].next>>
  PROVE  RestHomes' = (RestHomes \ (IF fixed[b].next < fixed[b].end THEN {r} ELSE {}))
                         \cup (IF fixed'[b].next < fixed'[b].end THEN {q} ELSE {})
<1> DEFINE Rest(c) == <<"rest", c, fixed[c].next, fixed[c].end - fixed[c].next>>
           Some(c) == fixed[c].next < fixed[c].end
<1>1. \A h : h \in RestHomes <=> \E c \in Buckets : Some(c) /\ h = Rest(c)
  BY DEF RestHomes
<1>2. \A h : h \in RestHomes' <=> \E c \in Buckets : Some(c)' /\ h = Rest(c)'
  BY DEF RestHomes
<1>3. \A c \in Buckets \ {b} : /\ Rest(c)' = Rest(c) /\ Rest(c) # r /\ Rest(c) # q
                               /\ Some(c)' <=> Some(c)
  OBVIOUS
<1>4. /\ Rest(b) = r /\ Rest(b)' = q
      /\ Some(b) <=> fixed[b].next < fixed[b].end
      /\ Some(b)' <=> fixed'[b].next < fixed'[b].end
  OBVIOUS
<1> HIDE DEF Rest, Some
<1>5. RestHomes' = (RestHomes \ (IF Some(b) THEN {r} ELSE {})) \cup (IF Some(b)' THEN {q} ELSE {})
  <2>1. ASSUME NEW h \in RestHomes'
        PROVE  h \in (RestHomes \ (IF Some(b) THEN {r} ELSE {})) \cup (IF Some(b)' THEN {q} ELSE {})
    <3>1. PICK c \in Buckets : Some(c)' /\ h = Rest(c)'
      BY <1>2, <2>1
    <3> QED
      BY <1>1, <1>3, <1>4, <3>1
  <2>2. ASSUME NEW h \in (RestHomes \ (IF Some(b) THEN {r} ELSE {})) \cup (IF Some(b)' THEN {q} ELSE {})
        PROVE  h \in RestHomes'
    <3>1. CASE Some(b)' /\ h = q
      BY <1>2, <1>4, <3>1
    <3>2. CASE h \in RestHomes \ (IF Some(b) THEN {r} ELSE {})
      <4>1. PICK c \in Buckets : Some(c) /\ h = Rest(c)
        BY <1>1, <3>2
      <4>2. c # b
        BY <1>4, <3>2, <4>1
      <4> QED
        BY <1>2, <1>3, <4>1, <4>2
    <3> QED
      BY <2>2, <3>1, <3>2
  <2> QED
    BY <2>1, <2>2
<1> QED
  BY <1>4, <1>5

\* The fetch-and-add of anv_fixed_size_state_pool_alloc_new.
LEMMA NewChunkFacts ==
  ASSUME StateInv, NEW t \in Threads, NewChunk(t), NEW b, b = want[t]
  PROVE  /\ b \in Buckets /\ b \in Lists /\ ChunkSize(b) \in Nat \ {0} /\ Small(t)
         /\ fixed[b].next \in Nat /\ fixed[b].end \in Nat
         /\ fixed' \in [Buckets -> [next : Nat, end : Nat]]
         /\ fixed'[b].next = fixed[b].next + ChunkSize(b) /\ fixed'[b].end = fixed[b].end
         /\ \A c \in Buckets \ {b} : fixed'[c] = fixed[c]
         /\ \A c \in Buckets : fixed'[c].next <= fixed'[c].end =>
              \E k \in Nat : fixed'[c].end = fixed'[c].next + k * ChunkSize(c)
         /\ fixed[b].next < fixed[b].end => fixed'[b].next <= fixed'[b].end
         /\ pushes[t] = <<>> /\ chunk[t] = EMPTY /\ bpc[t] = "idle"
<1>1. /\ pc[t] = "new" /\ ChunkSize(b) < BlockSize
      /\ fixed' = [fixed EXCEPT ![b].next = @ + ChunkSize(b)]
  BY DEF NewChunk
<1>2. StateTypeOK /\ BucketOK
  BY DEF StateInv
<1>3. b \in Buckets /\ b \in Lists /\ ChunkSize(b) \in Nat \ {0} /\ BlockSize \in Nat
  <2>1. b \in Lists
    BY <1>2 DEF StateTypeOK
  <2>2. ChunkSize(b) \in Nat \ {0} /\ ChunkSize(Back) = BlockSize /\ BlockSize \in Nat
    BY <2>1, SizeFacts
  <2>3. b # Back
    BY <1>1, <2>2
  <2> QED
    BY <2>1, <2>2, <2>3 DEF Lists
<1>4. fixed[b] \in [next : Nat, end : Nat]
  BY <1>2, <1>3 DEF StateTypeOK
<1>s. PICK s \in Nat : s = ChunkSize(b) /\ s # 0
  BY <1>3
<1>5. /\ fixed' \in [Buckets -> [next : Nat, end : Nat]]
      /\ fixed'[b].next = fixed[b].next + s /\ fixed'[b].end = fixed[b].end
      /\ \A c \in Buckets \ {b} : fixed'[c] = fixed[c]
  <2>1. fixed' = [fixed EXCEPT ![b].next = @ + s] /\ fixed \in [Buckets -> [next : Nat, end : Nat]]
    BY <1>1, <1>2, <1>s DEF StateTypeOK
  <2> QED
    BY <1>3, <1>4, <2>1
<1>6. ASSUME fixed[b].next <= fixed[b].end
      PROVE  \E k \in Nat : fixed[b].end = fixed[b].next + k * s
  BY <1>2, <1>3, <1>6, <1>s DEF BucketOK
<1>7. ASSUME fixed[b].next < fixed[b].end
      PROVE  \E k \in Nat : fixed[b].end = (fixed[b].next + s) + k * s
  <2>1. PICK k \in Nat : fixed[b].end = fixed[b].next + k * s
    BY <1>4, <1>6, <1>7
  <2>2. k # 0
    BY <1>4, <1>7, <2>1
  <2>3. k - 1 \in Nat
    BY <2>2
  <2>4. ((k - 1) + 1) * s = (k - 1) * s + s /\ (k - 1) * s \in Nat
    BY <2>3, Times
  <2>5. fixed[b].end = (fixed[b].next + s) + (k - 1) * s
    BY <1>4, <2>1, <2>4
  <2> QED
    BY <2>3, <2>5
<1>8. ASSUME fixed[b].next < fixed[b].end PROVE fixed[b].next + s <= fixed[b].end
  <2>1. PICK k \in Nat : fixed[b].end = (fixed[b].next + s) + k * s
    BY <1>7, <1>8
  <2>2. k * s \in Nat
    BY Times
  <2> QED
    BY <1>4, <2>1, <2>2
<1>9. \A c \in Buckets : fixed'[c].next <= fixed'[c].end =>
              \E k \in Nat : fixed'[c].end = fixed'[c].next + k * ChunkSize(c)
  <2> TAKE c \in Buckets
  <2>1. CASE c = b
    <3> SUFFICES ASSUME fixed[b].next + s <= fixed[b].end
                 PROVE  \E k \in Nat : fixed[b].end = (fixed[b].next + s) + k * s
      BY <1>5, <1>s, <2>1
    <3>1. fixed[b].next < fixed[b].end
      BY <1>4, <1>s
    <3> QED
      BY <1>7, <3>1
  <2>2. CASE c # b
    BY <1>2, <1>5, <2>2 DEF BucketOK
  <2> QED
    BY <2>1, <2>2
<1>10. pushes[t] = <<>> /\ chunk[t] = EMPTY /\ bpc[t] = "idle"
  BY <1>1, NothingYet
<1> QED
  BY <1>1, <1>3, <1>4, <1>5, <1>8, <1>9, <1>10, <1>s DEF Small

\* The parts of the invariant that do not depend on which way it goes.
LEMMA NewChunkRest ==
  ASSUME StateInv, BlockInv', NEW t \in Threads, NewChunk(t),
         NEW x \in {"done", "refill", "wait"}, NEW c, NEW o \in Offsets \cup {EMPTY},
         pc' = [pc EXCEPT ![t] = x], cur' = [cur EXCEPT ![t] = c],
         chunk' = [chunk EXCEPT ![t] = o], x = "done" <=> o # EMPTY,
         x = "refill" => fixed[want[t]].next = fixed[want[t]].end
  PROVE  StateInv'
<1>1. UNCHANGED <<bvars, head, link, want, at, nxt, pushes, held, ops>> /\ pc[t] = "new"
  BY DEF NewChunk, lists
<1>2. StateTypeOK /\ ThreadOK(t) /\ BlockInv /\ MemoryBound /\ CountsOK /\ BucketOK
  BY DEF StateInv
<1>b. PICK b : b = want[t]
  OBVIOUS
<1>3. /\ b \in Buckets /\ b \in Lists /\ ChunkSize(b) \in Nat \ {0} /\ Small(t)
      /\ fixed[b].next \in Nat /\ fixed[b].end \in Nat
      /\ fixed' \in [Buckets -> [next : Nat, end : Nat]]
      /\ fixed'[b].next = fixed[b].next + ChunkSize(b) /\ fixed'[b].end = fixed[b].end
      /\ \A d \in Buckets \ {b} : fixed'[d] = fixed[d]
      /\ \A d \in Buckets : fixed'[d].next <= fixed'[d].end =>
              \E k \in Nat : fixed'[d].end = fixed'[d].next + k * ChunkSize(d)
      /\ pushes[t] = <<>> /\ chunk[t] = EMPTY /\ bpc[t] = "idle"
  BY <1>b, NewChunkFacts
<1>4. StateTypeOK'
  <2>1. x \in StatePCs
    BY DEF StatePCs
  <2> QED
    BY <1>1, <1>2, <1>3, <2>1 DEF StateTypeOK
<1>5. /\ \A u \in Threads \ {t} : pc'[u] = pc[u] /\ cur'[u] = cur[u] /\ chunk'[u] = chunk[u]
      /\ pc'[t] = x /\ chunk'[t] = o
  BY <1>2 DEF StateTypeOK
<1>6. Others(t) /\ HeadsCount /\ LinksKept(t)
  BY <1>1, <1>5, PoolSame DEF Others, HeadsCount, LinksKept
<1>7. ThreadOK(t)'
  <2>1. CallMatches(t)'
    BY <1>1, <1>3, <1>5, PoolSame DEF CallMatches, Small
  <2>2. PushMatches(t)'
    BY <1>1, <1>2, <1>3, <1>5 DEF ThreadOK, PushMatches, Pushing
  <2>3. PopMatches(t)' /\ ReadMatches(t)' /\ ChainLinked(t)'
    BY <1>5 DEF PopMatches, Popping, ReadMatches, HasRead, ChainLinked
  <2> QED
    BY <2>1, <2>2, <2>3 DEF ThreadOK
<1>8. \A u \in Threads : ThreadOK(u)'
  BY <1>2, <1>4, <1>6, <1>7, Frame DEF StateInv
<1>9. BucketOK'
  <2>1. \A u \in Threads \ {t} : (Refilling(u)' <=> Refilling(u)) /\ want'[u] = want[u]
    BY <1>1, <1>5 DEF Refilling, Small
  <2>2. Refilling(t)' => x = "refill"
    BY <1>5 DEF Refilling
  <2>3. \A u \in Threads : Refilling(u) => want[u] \in Buckets
    <3> SUFFICES ASSUME NEW u \in Threads, Refilling(u) PROVE want[u] \in Buckets
      OBVIOUS
    <3>1. Small(u) /\ want[u] \in Lists
      BY <1>2 DEF StateInv, ThreadOK, CallMatches, Refilling, StateTypeOK
    <3>2. want[u] # Back
      <4>1. BlockSize \in Nat /\ ChunkSize(Back) = BlockSize
        BY SizeFacts
      <4> QED
        BY <3>1, <4>1 DEF Small
    <3> QED
      BY <3>1, <3>2 DEF Lists
  <2>4. \A u \in Threads : Refilling(u) => fixed[want[u]].next > fixed[want[u]].end
    BY <1>2 DEF BucketOK
  <2>5. ASSUME NEW u \in Threads, Refilling(u)'
        PROVE  fixed'[want'[u]].next > fixed'[want'[u]].end
    <3>1. CASE u = t
      <4>1. want'[t] = b /\ fixed[b].next = fixed[b].end
        BY <1>1, <1>b, <2>2, <2>5, <3>1
      <4> QED
        BY <1>3, <3>1, <4>1
    <3>2. CASE u # t /\ want[u] = b
      <4>1. fixed[b].next > fixed[b].end /\ want'[u] = b
        BY <2>1, <2>4, <2>5, <3>2
      <4> QED
        BY <1>3, <4>1
    <3>3. CASE u # t /\ want[u] # b
      <4>1. Refilling(u) /\ want'[u] = want[u]
        BY <2>1, <2>5, <3>3
      <4>2. fixed'[want[u]] = fixed[want[u]]
        BY <1>3, <2>3, <3>3, <4>1
      <4> QED
        BY <2>4, <4>1, <4>2
    <3> QED
      BY <3>1, <3>2, <3>3
  <2>6. ASSUME NEW u \in Threads, NEW v \in Threads, Refilling(u)', Refilling(v)',
               want'[u] = want'[v]
        PROVE  u = v
    <3>1. ASSUME NEW z \in Threads \ {t}, Refilling(z)', Refilling(t)', want'[z] = want'[t]
          PROVE  FALSE
      <4>1. fixed[b].next = fixed[b].end /\ want[z] = b
        BY <1>1, <1>b, <2>1, <2>2, <3>1
      <4>2. fixed[b].next > fixed[b].end
        BY <2>1, <2>4, <3>1, <4>1
      <4> QED
        BY <1>3, <4>1, <4>2
    <3>2. CASE u # t /\ v # t
      BY <1>2, <2>1, <2>6, <3>2 DEF BucketOK
    <3> QED
      BY <2>6, <3>1, <3>2
  <2> QED
    BY <1>3, <2>5, <2>6 DEF BucketOK
<1>10. MemoryBound'
  <2>1. Pending' \subseteq Pending
    BY <1>1, <1>5, PoolSame DEF Pending, PendingPCs
  <2> QED
    BY <1>1, <1>2, <2>1, PoolSame, KeepMemory
<1>11. CountsOK'
  <2>1. \A u \in Threads : Swaps(u) \in Nat /\ Swaps(u)' = Swaps(u)
    <3>1. \A u \in Threads : Popping(u)' <=> Popping(u)
      BY <1>1, <1>5 DEF Popping
    <3> QED
      BY <1>1, <1>2, <3>1, SwapsNat DEF Swaps
  <2>2. \A u \in Threads : Swaps(u) \in Nat /\ Swaps(u)' \in Nat /\ Swaps(u)' <= Swaps(u)
    BY <2>1
  <2> QED
    BY <1>1, <1>2, <2>2, KeepTokens
<1> QED
  BY <1>4, <1>8, <1>9, <1>10, <1>11 DEF StateInv

\* A home is split in two, the second of which may be empty.
LEMMA SplitHome ==
  ASSUME NEW o \in Int, NEW e \in Int, NEW s \in Nat, s <= e, NEW r, NEW g, NEW q,
         \A a : In(a, r) <=> a \in Int /\ o <= a /\ a < o + e,
         \A a : In(a, g) <=> a \in Int /\ o <= a /\ a < o + s,
         \A a : In(a, q) <=> a \in Int /\ o + s <= a /\ a < o + e,
         NEW N, N = {g} \cup (IF s < e THEN {q} ELSE {})
  PROVE  /\ \A a : (\E x \in {r} : In(a, x)) <=> (\E h \in N : In(a, h))
         /\ \A x, h \in N : \A a : In(a, x) /\ In(a, h) => x = h
<1>2. ASSUME NEW a PROVE ~(In(a, g) /\ In(a, q))
  OBVIOUS
<1>3. ASSUME NEW a, In(a, r) PROVE \E h \in N : In(a, h)
  <2>1. CASE a < o + s
    BY <1>3, <2>1
  <2>2. CASE ~(a < o + s)
    BY <1>3, <2>2
  <2> QED
    BY <2>1, <2>2
<1>4. ASSUME NEW a, NEW h \in N, In(a, h) PROVE In(a, r)
  BY <1>4
<1>5. ASSUME NEW x \in N, NEW h \in N, NEW a, In(a, x), In(a, h) PROVE x = h
  BY <1>2, <1>5
<1> QED
  BY <1>3, <1>4, <1>5

\* The chunk comes from the bucket's block, if there is one left.
LEMMA NewChunkOK ==
  ASSUME StateInv, BlockInv', NEW n, NEW lev, HeapOK(n, lev), NEW t \in Threads,
         NewChunk(t)
  PROVE  StateInv' /\ HeapOK(n, lev)'
<1>1. UNCHANGED <<bvars, head, link, want, at, nxt, pushes, held, ops>> /\ pc[t] = "new"
  BY DEF NewChunk, lists
<1>2. StateTypeOK /\ BlockInv /\ MemoryBound
  BY DEF StateInv
<1>b. PICK b : b = want[t]
  OBVIOUS
<1>3. /\ b \in Buckets /\ b \in Lists /\ ChunkSize(b) \in Nat \ {0}
      /\ fixed[b].next \in Nat /\ fixed[b].end \in Nat
      /\ fixed'[b].next = fixed[b].next + ChunkSize(b) /\ fixed'[b].end = fixed[b].end
      /\ \A c \in Buckets \ {b} : fixed'[c] = fixed[c]
      /\ fixed[b].next < fixed[b].end => fixed'[b].next <= fixed'[b].end
      /\ chunk[t] = EMPTY
  BY <1>b, NewChunkFacts
<1>r. PICK r, q : /\ r = <<"rest", b, fixed[b].next, fixed[b].end - fixed[b].next>>
                  /\ q = <<"rest", b, fixed'[b].next, fixed'[b].end - fixed'[b].next>>
  OBVIOUS
<1>4. RestHomes' = (RestHomes \ (IF fixed[b].next < fixed[b].end THEN {r} ELSE {}))
                         \cup (IF fixed'[b].next < fixed'[b].end THEN {q} ELSE {})
  BY <1>2, <1>3, <1>r, RestMoves
<1>5. ClientHomes' = ClientHomes /\ ChainHomes' = ChainHomes /\ BlockHomes' = BlockHomes
      /\ Used' = Used
  BY <1>1, PoolSame DEF ClientHomes, ChainHomes, Chains
<1>6. CASE fixed[b].next < fixed[b].end
  <2>o. PICK o : o = fixed[b].next
    OBVIOUS
  <2>1. /\ pc' = [pc EXCEPT ![t] = "done"] /\ cur' = [cur EXCEPT ![t] = <<>>]
        /\ chunk' = [chunk EXCEPT ![t] = o]
    BY <1>3, <1>6, <1>b, <2>o DEF NewChunk, Go, Read
  <2>2. r \in HomesWith(FreeOf(n, lev))
    BY <1>3, <1>6, <1>r, HomeOf
  <2>3. o \in Offsets /\ o # EMPTY
    <3>1. In(o, r)
      <4>1. o \in Int /\ fixed[b].end - fixed[b].next \in Nat \ {0}
        BY <1>3, <1>6, <2>o
      <4> QED
        BY <1>r, <2>o, <4>1, HomeStart
    <3>2. o \in Offsets
      BY <1>2, <2>2, <3>1, HomeInside
    <3> QED
      BY <3>2, AnvStatePoolAssumption
  <2>4. StateInv'
    BY <2>1, <2>3, NewChunkRest
  <2>g. PICK g : g = <<"got", t, o, ChunkSize(b)>>
    OBVIOUS
  <2>5. GotHomes' = GotHomes \cup {g}
    <3>1. chunk'[t] = o /\ \A u \in Threads \ {t} : chunk'[u] = chunk[u]
      BY <1>2, <2>1 DEF StateTypeOK
    <3> QED
      BY <1>1, <1>2, <1>3, <1>b, <2>3, <2>g, <3>1, GotMoves
  <2>N. PICK N : N = {g} \cup (IF fixed'[b].next < fixed'[b].end THEN {q} ELSE {})
    OBVIOUS
  <2>6. /\ \A a : (\E x \in {r} : In(a, x)) <=> (\E h \in N : In(a, h))
        /\ \A x, h \in N : \A a : In(a, x) /\ In(a, h) => x = h
    <3>e. PICK e, s : e = fixed[b].end - fixed[b].next /\ s = ChunkSize(b)
      OBVIOUS
    <3>1. /\ o \in Int /\ e \in Int /\ s \in Nat /\ s <= e
          /\ s < e <=> fixed'[b].next < fixed'[b].end
          /\ fixed'[b].next = o + s /\ fixed'[b].end - fixed'[b].next = e - s
      BY <1>3, <1>6, <2>o, <3>e
    <3>2. /\ \A a : In(a, r) <=> a \in Int /\ o <= a /\ a < o + e
          /\ \A a : In(a, g) <=> a \in Int /\ o <= a /\ a < o + s
      BY <1>r, <2>g, <2>o, <3>1, <3>e, HomeBytes
    <3>3. \A a : In(a, q) <=> a \in Int /\ o + s <= a /\ a < o + e
      <4>1. q = <<"rest", b, o + s, e - s>> /\ o + s \in Int /\ e - s \in Int
            /\ (o + s) + (e - s) = o + e
        BY <1>r, <3>1
      <4> QED
        BY <4>1, HomeBytes
    <3>4. N = {g} \cup (IF s < e THEN {q} ELSE {})
      BY <2>N, <3>1
    <3>5. o \in Int /\ e \in Int /\ s \in Nat /\ s <= e
      BY <3>1
    <3> QED
      BY <3>2, <3>3, <3>4, <3>5, SplitHome
  <2>7. /\ Linked(n, lev)' /\ FreeHomes(FreeOf(n, lev))' = FreeHomes(FreeOf(n, lev))
        /\ n \in [Lists -> Nat] /\ lev \in [Lists -> [Nat -> Offsets \cup {EMPTY}]]
    BY <1>1, ListsStay
  <2>h. PICK H, G : H = HomesWith(FreeOf(n, lev)) /\ G = HomesWith(FreeOf(n, lev))'
    OBVIOUS
  <2>8. G = (H \ {r}) \cup N
    <3>1. r \notin ClientHomes \cup FreeHomes(FreeOf(n, lev)) \cup GotHomes \cup BlockHomes
               \cup ChainHomes
      BY <1>r, Kinds
    <3>2. RestHomes' = (RestHomes \ {r}) \cup (IF fixed'[b].next < fixed'[b].end THEN {q} ELSE {})
      BY <1>4, <1>6
    <3> QED
      BY <1>5, <2>5, <2>7, <2>h, <2>N, <3>1, <3>2 DEF HomesWith
  <2>9. Partition(H, Bytes) /\ {r} \subseteq H
    BY <2>2, <2>h DEF HeapOK
  <2>10. Partition(G, Bytes')
    <3>R. PICK R : R = {r}
      OBVIOUS
    <3>1. \A a : (\E x \in R : In(a, x)) <=> (\E h \in N : In(a, h))
      BY <2>6, <3>R, Zenon
    <3>2. \A x, h \in N : \A a : In(a, x) /\ In(a, h) => x = h
      BY <2>6, Zenon
    <3>3. Used' = Used
      BY <1>5
    <3>4. R \subseteq H /\ G = (H \ R) \cup N
      BY <2>8, <2>9, <3>R
    <3>5. Partition(H, Bytes)
      BY <2>9
    <3> QED
      BY <3>1, <3>2, <3>3, <3>4, <3>5, HomesMove, Zenon
  <2> QED
    BY <2>4, <2>7, <2>h, <2>10, HeapFrom
<1>7. CASE ~(fixed[b].next < fixed[b].end)
  <2>p. /\ chunk' = chunk /\ cur' = [cur EXCEPT ![t] = fixed[b]]
        /\ \/ fixed[b].next = fixed[b].end /\ pc' = [pc EXCEPT ![t] = "refill"]
           \/ pc' = [pc EXCEPT ![t] = "wait"]
    BY <1>7, <1>b DEF NewChunk, Go, Read
  <2>1. PICK x \in {"refill", "wait"} :
          pc' = [pc EXCEPT ![t] = x] /\ (x = "refill" => fixed[b].next = fixed[b].end)
    BY <2>p
  <2>2. chunk' = [chunk EXCEPT ![t] = EMPTY]
    BY <1>2, <1>3, <2>p DEF StateTypeOK
  <2>3. StateInv'
    BY <1>b, <2>p, <2>1, <2>2, NewChunkRest
  <2>4. GotHomes' = GotHomes
    BY <1>1, <2>p DEF GotHomes
  <2>5. RestHomes' = RestHomes
    <3>1. ~(fixed'[b].next < fixed'[b].end)
      BY <1>3, <1>7
    <3> QED
      BY <1>4, <1>7, <3>1
  <2>6. HeapOK(n, lev)'
    BY <1>1, <1>5, <2>4, <2>5, HeapStays
  <2> QED
    BY <2>3, <2>6
<1> QED
  BY <1>6, <1>7

\* The block of a thread is in its hands until it returns.
LEMMA BlockMoves ==
  ASSUME NEW t \in Threads, Decided(t), ~ Decided(t)',
         \A u \in Threads \ {t} : /\ Decided(u)' <=> Decided(u)
                                  /\ Result(u)' = Result(u) /\ call'[u] = call[u]
  PROVE  BlockHomes' = BlockHomes \ {<<"block", t, Result(t), call[t].size>>}
<1> DEFINE B(u) == <<"block", u, Result(u), call[u].size>>
<1>1. \A h : h \in BlockHomes <=> \E u \in Threads : Decided(u) /\ h = B(u)
  BY DEF BlockHomes
<1>2. \A h : h \in BlockHomes' <=> \E u \in Threads : Decided(u)' /\ h = B(u)'
  BY DEF BlockHomes
<1>3. \A u \in Threads \ {t} : B(u)' = B(u) /\ B(u) # B(t)
  OBVIOUS
<1> HIDE DEF B
<1>4. BlockHomes' = BlockHomes \ {B(t)}
  BY <1>1, <1>2, <1>3
<1> QED
  BY <1>4 DEF B

\* What anv_block_pool_alloc or anv_block_pool_alloc_back returns.
LEMMA ReturnFacts ==
  ASSUME StateInv, BlockInv', NEW n, NEW lev, HeapOK(n, lev), NEW t \in Threads,
         BlockReturns(t), NEW b, b = want[t], NEW o, o = Result(t),
         NEW r, r = <<"block", t, o, CallOf(t).size>>
  PROVE  /\ b \in Lists /\ o \in Offsets /\ o \in Int /\ o # EMPTY
         /\ r \in HomesWith(FreeOf(n, lev)) /\ BlockHomes' = BlockHomes \ {r}
         /\ Used' = Used /\ bpc'[t] = "idle"
         /\ \A u \in Threads \ {t} : /\ bpc'[u] = bpc[u] /\ call'[u] = call[u]
                                     /\ Decided(u)' <=> Decided(u)
         /\ ChunkSize(b) < BlockSize => b \in Buckets /\ o \in Nat
         /\ pushes[t] = <<>> /\ chunk[t] = EMPTY
         /\ ChunkSize(b) \in Nat \ {0} /\ BlockSize \in Nat \ {0}
<1>1. pc[t] = "block" /\ Return(t)
  BY DEF BlockReturns
<1>2. StateTypeOK /\ ThreadOK(t) /\ BlockInv /\ MemoryBound /\ BlockTypeOK
  BY DEF StateInv, BlockInv
<1>3. call[t] = CallOf(t)
  BY <1>1, <1>2 DEF ThreadOK, CallMatches
<1>4. /\ bpc[t] = "return" /\ bpc' = [bpc EXCEPT ![t] = "idle"]
      /\ call' = [call EXCEPT ![t] = NoCall] /\ got' = [got EXCEPT ![t] = NoPair]
  BY <1>1 DEF Return, Goto
<1>5. /\ Decided(t) /\ ~ Decided(t)' /\ bpc'[t] = "idle"
      /\ \A u \in Threads \ {t} : bpc'[u] = bpc[u] /\ call'[u] = call[u] /\ got'[u] = got[u]
  BY <1>2, <1>4 DEF Decided, Growing, BlockTypeOK
<1>6. \A u \in Threads \ {t} : (Decided(u)' <=> Decided(u)) /\ Result(u)' = Result(u)
  BY <1>5 DEF Decided, Growing, Result
<1>7. BlockHomes' = BlockHomes \ {r}
  BY <1>3, <1>5, <1>6, BlockMoves
<1>8. Used' = Used
  BY <1>1, <1>2, ReturnRefines
<1>9. r \in HomesWith(FreeOf(n, lev))
  BY <1>3, <1>5, HomeOf
<1>10. /\ b \in Lists /\ ChunkSize(b) \in Nat \ {0} /\ BlockSize \in Nat \ {0}
       /\ ChunkSize(b) < BlockSize => b # Back
  <2>1. b \in Lists
    BY <1>2 DEF StateTypeOK
  <2>2. ChunkSize(b) \in Nat \ {0} /\ BlockSize \in Nat \ {0} /\ ChunkSize(Back) = BlockSize
    BY <2>1, SizeFacts
  <2>3. ChunkSize(b) < BlockSize => b # Back
    BY <2>2
  <2> QED
    BY <2>1, <2>2, <2>3
<1>11. got[t].next \in Nat /\ call[t].size \in Nat /\ o \in Int
  <2>1. got[t] \in [next : Nat, end : Nat] /\ call[t] \in [side : Sides, size : Nat]
    BY <1>2 DEF BlockTypeOK
  <2>2. got[t].next \in Nat /\ call[t].size \in Nat
    BY <2>1
  <2> QED
    BY <2>2 DEF Result
<1>12. ChunkSize(b) < BlockSize => b \in Buckets /\ o \in Nat
  BY <1>3, <1>10, <1>11 DEF Lists, CallOf, Result
<1>13. CallOf(t).size \in Nat \ {0}
  BY <1>10 DEF CallOf
<1>14. o \in Offsets /\ o # EMPTY
  <2>1. In(o, r)
    BY <1>11, <1>13, HomeStart
  <2>2. o \in Offsets
    BY <1>2, <1>9, <2>1, HomeInside
  <2> QED
    BY <2>2, AnvStatePoolAssumption
<1>15. pushes[t] = <<>> /\ chunk[t] = EMPTY
  BY <1>1, NothingYet
<1> QED
  BY <1>5, <1>6, <1>7, <1>8, <1>9, <1>10, <1>11, <1>12, <1>14, <1>15

\* The block becomes a chunk, or a chunk and the bucket's next block.
LEMMA BlockReturnsRest ==
  ASSUME StateInv, BlockInv', NEW n, NEW lev, HeapOK(n, lev), NEW t \in Threads,
         BlockReturns(t)
  PROVE  StateInv'
<1>b. PICK b, o, r : b = want[t] /\ o = Result(t) /\ r = <<"block", t, o, CallOf(t).size>>
  OBVIOUS
<1>1. /\ pc[t] = "block" /\ Return(t) /\ chunk' = [chunk EXCEPT ![t] = o]
      /\ cur' = [cur EXCEPT ![t] = <<>>]
      /\ UNCHANGED <<head, link, want, at, nxt, pushes, held, ops>>
      /\ \/ pc' = [pc EXCEPT ![t] = "done"]
         \/ pc' = [pc EXCEPT ![t] = "wake"]
  BY <1>b DEF BlockReturns, lists, Go, Read
<1>2. /\ ChunkSize(b) >= BlockSize => fixed' = fixed
      /\ ChunkSize(b) < BlockSize =>
           fixed' = [fixed EXCEPT ![b] = [next |-> o + ChunkSize(b), end |-> o + BlockSize]]
  <2>1. ChunkSize(b) \in Nat /\ BlockSize \in Nat
    BY <1>b, ReturnFacts
  <2> QED
    BY <1>b, <2>1 DEF BlockReturns
<1>3. StateTypeOK /\ ThreadOK(t) /\ BlockInv /\ MemoryBound /\ CountsOK /\ BucketOK
  BY DEF StateInv
<1>4. /\ b \in Lists /\ o \in Offsets /\ o \in Int /\ o # EMPTY
      /\ Used' = Used /\ bpc'[t] = "idle"
      /\ \A u \in Threads \ {t} : /\ bpc'[u] = bpc[u] /\ call'[u] = call[u]
                                  /\ Decided(u)' <=> Decided(u)
      /\ ChunkSize(b) < BlockSize => b \in Buckets /\ o \in Nat
      /\ pushes[t] = <<>> /\ chunk[t] = EMPTY
      /\ ChunkSize(b) \in Nat \ {0} /\ BlockSize \in Nat \ {0}
  BY <1>b, ReturnFacts
<1>x. PICK x \in {"done", "wake"} : pc' = [pc EXCEPT ![t] = x]
  BY <1>1
<1>5. StateTypeOK'
  <2>1. x \in StatePCs
    BY DEF StatePCs
  <2>2. fixed' \in [Buckets -> [next : Nat, end : Nat]]
    <3>1. CASE ChunkSize(b) >= BlockSize
      BY <1>2, <1>3, <3>1 DEF StateTypeOK
    <3>2. CASE ChunkSize(b) < BlockSize
      <4>1. o + ChunkSize(b) \in Nat /\ o + BlockSize \in Nat
        BY <1>4, <3>2
      <4>f. PICK f : f = [next |-> o + ChunkSize(b), end |-> o + BlockSize]
        OBVIOUS
      <4>2. f \in [next : Nat, end : Nat] /\ fixed' = [fixed EXCEPT ![b] = f]
        BY <1>2, <3>2, <4>1, <4>f
      <4> QED
        BY <1>3, <4>2 DEF StateTypeOK
    <3> QED
      BY <1>4, <3>1, <3>2
  <2> QED
    BY <1>1, <1>3, <1>4, <1>x, <2>1, <2>2 DEF StateTypeOK
<1>6. /\ \A u \in Threads \ {t} : pc'[u] = pc[u] /\ cur'[u] = cur[u] /\ chunk'[u] = chunk[u]
      /\ pc'[t] = x /\ chunk'[t] = o
  BY <1>1, <1>3, <1>x DEF StateTypeOK
<1>7. Others(t) /\ HeadsCount /\ LinksKept(t)
  BY <1>1, <1>4, <1>6 DEF Others, HeadsCount, LinksKept
<1>8. ThreadOK(t)'
  <2>1. PushMatches(t)'
    BY <1>1, <1>3, <1>4, <1>6 DEF ThreadOK, PushMatches, Pushing
  <2>2. CallMatches(t)' /\ PopMatches(t)' /\ ReadMatches(t)' /\ ChainLinked(t)'
    BY <1>4, <1>6 DEF CallMatches, PopMatches, Popping, ReadMatches, HasRead, ChainLinked
  <2> QED
    BY <2>1, <2>2 DEF ThreadOK
<1>9. \A u \in Threads : ThreadOK(u)'
  BY <1>3, <1>5, <1>7, <1>8, Frame DEF StateInv
<1>10. BucketOK'
  <2>1. \A u \in Threads \ {t} : (Refilling(u)' <=> Refilling(u)) /\ want'[u] = want[u]
    BY <1>1, <1>6 DEF Refilling, Small
  <2>2. ~ Refilling(t)'
    BY <1>6 DEF Refilling
  <2>3. CASE ChunkSize(b) >= BlockSize
    <3>1. \A u \in Threads : Refilling(u)' => Refilling(u) /\ want'[u] = want[u]
      BY <2>1, <2>2
    <3> QED
      BY <1>2, <1>3, <2>3, <3>1, KeepBucket
  <2>4. CASE ChunkSize(b) < BlockSize
    <3>1. /\ fixed'[b].next = o + ChunkSize(b) /\ fixed'[b].end = o + BlockSize
          /\ \A c \in Buckets \ {b} : fixed'[c] = fixed[c]
          /\ b \in Buckets
      BY <1>2, <1>3, <1>4, <2>4 DEF StateTypeOK
    <3>2. Refilling(t)
      BY <1>1, <1>b, <2>4 DEF Refilling, Small
    <3>3. \A u \in Threads : Refilling(u)' => Refilling(u) /\ want'[u] = want[u] /\ want[u] # b
      BY <1>3, <1>b, <2>1, <2>2, <3>2 DEF BucketOK
    <3>4. \A u \in Threads : Refilling(u) => want[u] \in Buckets
      <4> SUFFICES ASSUME NEW u \in Threads, Refilling(u) PROVE want[u] \in Buckets
        OBVIOUS
      <4>1. Small(u) /\ want[u] \in Lists
        BY <1>3 DEF StateInv, ThreadOK, CallMatches, Refilling, StateTypeOK
      <4>2. ChunkSize(Back) = BlockSize
        BY SizeFacts
      <4>3. want[u] # Back
        BY <1>4, <4>1, <4>2 DEF Small
      <4> QED
        BY <4>1, <4>3 DEF Lists
    <3>5. \A u \in Threads : Refilling(u)' => fixed'[want'[u]].next > fixed'[want'[u]].end
      BY <1>3, <3>1, <3>3, <3>4 DEF BucketOK
    <3>6. \A u, v \in Threads : Refilling(u)' /\ Refilling(v)' /\ want'[u] = want'[v] => u = v
      BY <1>3, <3>3 DEF BucketOK
    <3>7. \E k \in Nat : fixed'[b].end = fixed'[b].next + k * ChunkSize(b)
      <4>1. BlockBucket \in Buckets /\ ChunkSize(BlockBucket) = BlockSize
        BY SizeFacts
      <4>2. b < BlockBucket
        BY <2>4, <3>1, <4>1, SizesOrder
      <4>k. PICK k : k = BlockSize \div ChunkSize(b)
        OBVIOUS
      <4>3. k \in Nat /\ k >= 2 /\ BlockSize = k * ChunkSize(b)
        BY <3>1, <4>1, <4>2, <4>k, DivideSizes
      <4>4. k - 1 \in Nat
        BY <4>3
      <4>5. ((k - 1) + 1) * ChunkSize(b) = (k - 1) * ChunkSize(b) + ChunkSize(b)
            /\ (k - 1) * ChunkSize(b) \in Nat
        BY <1>4, <4>4, Times
      <4>6. (k - 1) + 1 = k
        BY <4>3
      <4>7. o + BlockSize = (o + ChunkSize(b)) + (k - 1) * ChunkSize(b)
        BY <1>4, <4>3, <4>5, <4>6
      <4> QED
        BY <3>1, <4>4, <4>7
    <3>8. \A c \in Buckets : fixed'[c].next <= fixed'[c].end =>
            \E k \in Nat : fixed'[c].end = fixed'[c].next + k * ChunkSize(c)
      BY <1>3, <3>1, <3>7 DEF BucketOK
    <3> QED
      BY <3>5, <3>6, <3>8 DEF BucketOK
  <2> QED
    BY <1>4, <2>3, <2>4
<1>11. MemoryBound'
  <2>1. Pending' \subseteq Pending
    BY <1>4, <1>6 DEF Pending, PendingPCs
  <2> QED
    BY <1>3, <1>4, <2>1, KeepMemory
<1>12. CountsOK'
  <2>1. \A u \in Threads : Swaps(u) \in Nat /\ Swaps(u)' = Swaps(u)
    <3>1. \A u \in Threads : Popping(u)' <=> Popping(u)
      BY <1>1, <1>6 DEF Popping
    <3> QED
      BY <1>1, <1>3, <3>1, SwapsNat DEF Swaps
  <2>2. \A u \in Threads : Swaps(u) \in Nat /\ Swaps(u)' \in Nat /\ Swaps(u)' <= Swaps(u)
    BY <2>1
  <2> QED
    BY <1>1, <1>3, <2>2, KeepTokens
<1> QED
  BY <1>5, <1>9, <1>10, <1>11, <1>12 DEF StateInv

\* The block that is returned, as homes.
LEMMA BlockReturnsOK ==
  ASSUME StateInv, BlockInv', NEW n, NEW lev, HeapOK(n, lev), NEW t \in Threads,
         BlockReturns(t)
  PROVE  StateInv' /\ HeapOK(n, lev)'
<1>b. PICK b, o, r : b = want[t] /\ o = Result(t) /\ r = <<"block", t, o, CallOf(t).size>>
  OBVIOUS
<1>0. StateInv'
  BY BlockReturnsRest
<1>1. /\ chunk' = [chunk EXCEPT ![t] = o]
      /\ UNCHANGED <<head, link, want, at, nxt, pushes, held, ops>>
  BY <1>b DEF BlockReturns, lists
<1>3. StateTypeOK
  BY DEF StateInv
<1>4. /\ b \in Lists /\ o \in Offsets /\ o \in Int /\ o # EMPTY
      /\ r \in HomesWith(FreeOf(n, lev)) /\ BlockHomes' = BlockHomes \ {r}
      /\ Used' = Used
      /\ ChunkSize(b) < BlockSize => b \in Buckets /\ o \in Nat
      /\ chunk[t] = EMPTY
      /\ ChunkSize(b) \in Nat \ {0} /\ BlockSize \in Nat \ {0}
  BY <1>b, ReturnFacts
<1>2. /\ ChunkSize(b) >= BlockSize => fixed' = fixed
      /\ ChunkSize(b) < BlockSize =>
           fixed' = [fixed EXCEPT ![b] = [next |-> o + ChunkSize(b), end |-> o + BlockSize]]
  BY <1>4, <1>b DEF BlockReturns
<1>g. PICK g : g = <<"got", t, o, ChunkSize(b)>>
  OBVIOUS
<1>5. GotHomes' = GotHomes \cup {g}
  <2>1. chunk'[t] = o /\ \A u \in Threads \ {t} : chunk'[u] = chunk[u]
    BY <1>1, <1>3 DEF StateTypeOK
  <2> QED
    BY <1>1, <1>3, <1>4, <1>b, <1>g, <2>1, GotMoves
<1>6. /\ Linked(n, lev)' /\ FreeHomes(FreeOf(n, lev))' = FreeHomes(FreeOf(n, lev))
      /\ n \in [Lists -> Nat] /\ lev \in [Lists -> [Nat -> Offsets \cup {EMPTY}]]
  BY <1>1, ListsStay
<1>7. ClientHomes' = ClientHomes /\ ChainHomes' = ChainHomes
  BY <1>1 DEF ClientHomes, ChainHomes, Chains
<1>8. r \notin ClientHomes \cup FreeHomes(FreeOf(n, lev)) \cup GotHomes \cup RestHomes
             \cup ChainHomes
  BY <1>b, Kinds
<1>9. CASE ChunkSize(b) >= BlockSize
  <2>1. RestHomes' = RestHomes
    BY <1>2, <1>9 DEF RestHomes
  <2>2. HomesWith(FreeOf(n, lev))' = (HomesWith(FreeOf(n, lev)) \ {r}) \cup {g}
    BY <1>4, <1>5, <1>6, <1>7, <1>8, <2>1 DEF HomesWith
  <2>3. CallOf(t).size = ChunkSize(b)
    BY <1>4, <1>9, <1>b DEF CallOf, Small
  <2>4. \A a : In(a, r) <=> In(a, g)
    BY <1>b, <1>g, <2>3 DEF In
  <2>5. HeapOK(n, lev)'
    BY <1>4, <1>6, <2>2, <2>4, HomeMoves
  <2> QED
    BY <1>0, <2>5
<1>10. CASE ChunkSize(b) < BlockSize
  <2>1. /\ fixed'[b].next = o + ChunkSize(b) /\ fixed'[b].end = o + BlockSize
        /\ \A c \in Buckets \ {b} : fixed'[c] = fixed[c]
        /\ b \in Buckets
    BY <1>2, <1>3, <1>4, <1>10 DEF StateTypeOK
  <2>r. PICK q, z : /\ q = <<"rest", b, fixed'[b].next, fixed'[b].end - fixed'[b].next>>
                    /\ z = <<"rest", b, fixed[b].next, fixed[b].end - fixed[b].next>>
    OBVIOUS
  <2>2. RestHomes' = RestHomes \cup {q}
    <3>1. RestHomes' = (RestHomes \ (IF fixed[b].next < fixed[b].end THEN {z} ELSE {}))
                         \cup (IF fixed'[b].next < fixed'[b].end THEN {q} ELSE {})
      BY <1>3, <2>1, <2>r, RestMoves
    <3>2. fixed[b].next > fixed[b].end
      <4>1. Refilling(t)
        BY <1>10, <1>b DEF BlockReturns, Refilling, Small
      <4> QED
        BY <1>b, <4>1 DEF StateInv, BucketOK
    <3>3. fixed[b].next \in Nat /\ fixed[b].end \in Nat
      <4>1. fixed[b] \in [next : Nat, end : Nat]
        BY <1>3, <2>1 DEF StateTypeOK
      <4> QED
        BY <4>1
    <3>4. ~(fixed[b].next < fixed[b].end) /\ fixed'[b].next < fixed'[b].end
      BY <1>4, <1>10, <2>1, <3>2, <3>3
    <3> QED
      BY <3>1, <3>4
  <2>N. PICK N, R : N = {g} \cup {q} /\ R = {r}
    OBVIOUS
  <2>3. /\ \A a : (\E x \in {r} : In(a, x)) <=> (\E h \in N : In(a, h))
        /\ \A x, h \in N : \A a : In(a, x) /\ In(a, h) => x = h
    <3>e. PICK e, s : e = BlockSize /\ s = ChunkSize(b)
      OBVIOUS
    <3>1. /\ o \in Int /\ e \in Int /\ s \in Nat /\ s <= e /\ s < e
          /\ fixed'[b].next = o + s /\ fixed'[b].end - fixed'[b].next = e - s
      BY <1>4, <1>10, <2>1, <3>e
    <3>2. CallOf(t).size = e
      BY <1>10, <1>b, <3>e DEF CallOf, Small
    <3>3. /\ \A a : In(a, r) <=> a \in Int /\ o <= a /\ a < o + e
          /\ \A a : In(a, g) <=> a \in Int /\ o <= a /\ a < o + s
      BY <1>b, <1>g, <3>1, <3>2, <3>e, HomeBytes
    <3>4. \A a : In(a, q) <=> a \in Int /\ o + s <= a /\ a < o + e
      <4>1. q = <<"rest", b, o + s, e - s>> /\ o + s \in Int /\ e - s \in Int
            /\ (o + s) + (e - s) = o + e
        BY <2>r, <3>1
      <4> QED
        BY <4>1, HomeBytes
    <3>5. N = {g} \cup (IF s < e THEN {q} ELSE {})
      BY <2>N, <3>1
    <3>6. o \in Int /\ e \in Int /\ s \in Nat /\ s <= e
      BY <3>1
    <3> QED
      BY <3>3, <3>4, <3>5, <3>6, SplitHome
  <2>h. PICK H, G : H = HomesWith(FreeOf(n, lev)) /\ G = HomesWith(FreeOf(n, lev))'
    OBVIOUS
  <2>4. G = (H \ {r}) \cup N
    BY <1>4, <1>5, <1>6, <1>7, <1>8, <2>2, <2>N, <2>h DEF HomesWith
  <2>5. Partition(G, Bytes')
    <3>1. \A a : (\E x \in R : In(a, x)) <=> (\E h \in N : In(a, h))
      BY <2>3, <2>N, Zenon
    <3>2. \A x, h \in N : \A a : In(a, x) /\ In(a, h) => x = h
      BY <2>3, Zenon
    <3>3. Used' = Used
      BY <1>4
    <3>4. R \subseteq H /\ G = (H \ R) \cup N
      BY <1>4, <2>4, <2>N, <2>h
    <3>5. Partition(H, Bytes)
      BY <2>h DEF HeapOK
    <3> QED
      BY <3>1, <3>2, <3>3, <3>4, <3>5, HomesMove, Zenon
  <2>6. HeapOK(n, lev)'
    BY <1>6, <2>h, <2>5, HeapFrom
  <2> QED
    BY <1>0, <2>6
<1> QED
  BY <1>4, <1>9, <1>10

-----------------------------------------------------------------------------
(* The block pool inside a call *)

\* A thread has a block in the abstract allocator when it is decided.
LEMMA DecidedIs ==
  ASSUME BlockTypeOK, NEW t \in Threads PROVE Decided(t) <=> Blocks[t] # NoBlock
BY BlockIsNotNone DEF Blocks

\* The same after a step.
LEMMA DecidedIsNext ==
  ASSUME BlockTypeOK', NEW t \in Threads PROVE Decided(t)' <=> Blocks'[t] # NoBlock
<1>1. BlockOf(t)' # NoBlock
  BY AnvBlockPoolAssumption DEF BlockTypeOK, BlockOf
<1>2. Blocks'[t] = IF Decided(t)' THEN BlockOf(t)' ELSE NoBlock
  BY DEF Blocks
<1> QED
  BY <1>1, <1>2

\* So do the places of the blocks after a step.
LEMMA BlockHomesNext == ASSUME BlockTypeOK' PROVE BlockHomes' = HomesOf(Blocks)'
<1>1. \A t \in Threads : Decided(t)' <=> Blocks'[t] # NoBlock
  BY DecidedIsNext
<1>2. {u \in Threads : Decided(u)'} = {u \in Threads : Blocks'[u] # NoBlock}
  BY <1>1
<1>3. \A t \in Threads : Decided(t)' =>
        /\ Result(t)' = IF Blocks'[t].side = "front" THEN Blocks'[t].offset
                        ELSE -(Blocks'[t].offset + Blocks'[t].size)
        /\ call'[t].size = Blocks'[t].size
  BY DEF Blocks, BlockOf, Result
<1> QED
  BY <1>2, <1>3, Zenon DEF BlockHomes, HomesOf

\* The block pool decides on a block, or it does not.
Allocates(t, s, m) ==
  /\ Blocks[t] = NoBlock
  /\ Blocks' = [Blocks EXCEPT ![t] = [side |-> s, offset |-> Used[s], size |-> m]]
  /\ Used' = [Used EXCEPT ![s] = @ + m]

\* A block is handed out on one side, next to all the others.
LEMMA TakeHome ==
  ASSUME BlockInv, BlockInv', NEW n, NEW lev, HeapOK(n, lev), NEW t \in Threads,
         NEW s \in Sides, NEW m \in Nat \ {0}, Allocates(t, s, m),
         UNCHANGED <<head, link, fixed, want, chunk, pushes, held>>
  PROVE  HeapOK(n, lev)'
<1>1. BlockTypeOK /\ BlockTypeOK'
  BY DEF BlockInv
<1>2. /\ Blocks[t] = NoBlock /\ Used' = [Used EXCEPT ![s] = @ + m]
      /\ Blocks'[t] = [side |-> s, offset |-> Used[s], size |-> m]
      /\ \A u \in Threads \ {t} : Blocks'[u] = Blocks[u]
  <2>1. Blocks \in [Threads -> {Blocks[u] : u \in Threads}]
    BY DEF Blocks
  <2> HIDE DEF Blocks
  <2> QED
    BY <2>1 DEF Allocates
<1>d. PICK d : d = <<"block", t, IF s = "front" THEN Used[s] ELSE -(Used[s] + m), m>>
  OBVIOUS
<1>3. BlockHomes' = BlockHomes \cup {d}
  <2> DEFINE P(B, u) == <<"block", u, IF B[u].side = "front" THEN B[u].offset
                                      ELSE -(B[u].offset + B[u].size), B[u].size>>
  <2>1. \A h : h \in BlockHomes <=> \E u \in Threads : Blocks[u] # NoBlock /\ h = P(Blocks, u)
    BY <1>1, BlockHomesAre DEF HomesOf
  <2>2. \A h : h \in BlockHomes' <=> \E u \in Threads : Blocks'[u] # NoBlock /\ h = P(Blocks', u)
    BY <1>1, BlockHomesNext DEF HomesOf
  <2>3. P(Blocks', t) = d
    BY <1>2, <1>d
  <2>4. Blocks'[t] # NoBlock
    <3>1. Used[s] \in Nat
      BY UsedNat
    <3> QED
      BY <1>2, <3>1, AnvBlockPoolAssumption
  <2>5. \A u \in Threads \ {t} : P(Blocks', u) = P(Blocks, u)
    BY <1>2
  <2> HIDE DEF P
  <2> QED
    BY <1>2, <2>1, <2>2, <2>3, <2>4, <2>5
<1>4. /\ Linked(n, lev)' /\ FreeHomes(FreeOf(n, lev))' = FreeHomes(FreeOf(n, lev))
      /\ n \in [Lists -> Nat] /\ lev \in [Lists -> [Nat -> Offsets \cup {EMPTY}]]
  BY ListsStay
<1>5. /\ ClientHomes' = ClientHomes /\ RestHomes' = RestHomes /\ GotHomes' = GotHomes
      /\ ChainHomes' = ChainHomes
  BY DEF ClientHomes, RestHomes, GotHomes, ChainHomes, Chains
<1>h. PICK H, G : H = HomesWith(FreeOf(n, lev)) /\ G = HomesWith(FreeOf(n, lev))'
  OBVIOUS
<1>6. G = H \cup {d}
  BY <1>3, <1>4, <1>5, <1>h DEF HomesWith
<1>7. Partition(H, Bytes)
  BY <1>h DEF HeapOK
<1>u. PICK f, b : f = Used["front"] /\ b = Used["back"]
  OBVIOUS
<1>8. /\ f \in Nat /\ b \in Nat
      /\ s = "front" => Used'["front"] = f + m /\ Used'["back"] = b
      /\ s = "back" => Used'["front"] = f /\ Used'["back"] = b + m
  <2>1. Used \in [Sides -> Nat]
    BY UsedNat
  <2> QED
    BY <1>2, <1>u, <2>1 DEF Sides
<1>9. /\ \A a : a \in Bytes <=> a \in Int /\ -b <= a /\ a < f
      /\ s = "front" => \A a : a \in Bytes' <=> a \in Int /\ -b <= a /\ a < f + m
      /\ s = "back" => \A a : a \in Bytes' <=> a \in Int /\ -(b + m) <= a /\ a < f
  <2>1. Bytes = -b..f-1 /\ (s = "front" => Bytes' = -b..(f+m)-1) /\ (s = "back" => Bytes' = -(b+m)..f-1)
    BY <1>8, <1>u DEF Bytes
  <2> QED
    BY <1>8, <2>1
<1>10. /\ s = "front" => \A a : In(a, d) <=> a \in Int /\ f <= a /\ a < f + m
       /\ s = "back" => \A a : In(a, d) <=> a \in Int /\ -(b + m) <= a /\ a < -b
  <2>1. CASE s = "front"
    <3>1. d = <<"block", t, f, m>>
      BY <1>d, <1>u, <2>1
    <3> QED
      BY <1>8, <2>1, <3>1, HomeBytes
  <2>2. CASE s = "back"
    <3>1. d = <<"block", t, -(b + m), m>> /\ -(b + m) \in Int /\ -(b + m) + m = -b
      BY <1>8, <1>d, <1>u, <2>2
    <3> QED
      BY <2>2, <3>1, HomeBytes
  <2> QED
    BY <2>1, <2>2
<1>11. /\ \A a : a \in Bytes' <=> a \in Bytes \/ In(a, d)
       /\ \A a \in Bytes : ~ In(a, d)
  BY <1>8, <1>9, <1>10 DEF Sides
<1>12. Partition(G, Bytes')
  <2>1. PICK A, B : A = Bytes /\ B = Bytes'
    OBVIOUS
  <2>2. Partition(H, A) /\ (\A a : a \in B <=> a \in A \/ In(a, d)) /\ \A a \in A : ~ In(a, d)
    BY <1>7, <1>11, <2>1
  <2>3. Partition(H \cup {d}, B)
    BY <2>2, NewHome, Zenon
  <2> QED
    BY <1>6, <2>1, <2>3
<1> QED
  BY <1>4, <1>h, <1>12, HeapFrom

\* Nothing is handed out.
LEMMA NoHome ==
  ASSUME BlockInv, BlockInv', NEW n, NEW lev, HeapOK(n, lev), UNCHANGED <<Used, Blocks>>,
         UNCHANGED <<head, link, fixed, want, chunk, pushes, held>>
  PROVE  HeapOK(n, lev)'
<1>1. BlockHomes' = BlockHomes
  <2>1. HomesOf(Blocks)' = HomesOf(Blocks)
    BY DEF HomesOf
  <2> QED
    BY <2>1, BlockHomesAre, BlockHomesNext DEF BlockInv
<1>2. /\ ClientHomes' = ClientHomes /\ RestHomes' = RestHomes /\ GotHomes' = GotHomes
      /\ ChainHomes' = ChainHomes
  BY DEF ClientHomes, RestHomes, GotHomes, ChainHomes, Chains
<1> QED
  BY <1>1, <1>2, HeapStays

\* A step of the block pool, as the state pool sees it.
LEMMA PoolStep ==
  ASSUME StateInv, BlockInv', NEW n, NEW lev, HeapOK(n, lev), NEW t \in Threads,
         NEW x \in StatePCs, pc' = [pc EXCEPT ![t] = x], x = "block",
         pc[t] \in {"new", "refill", "block"}, Refilling(t)' <=> Refilling(t),
         UNCHANGED <<head, link, fixed, want, at, cur, nxt, chunk, pushes, held, ops>>,
         \A u \in Threads \ {t} : /\ call'[u] = call[u]
                                  /\ bpc'[u] = "idle" <=> bpc[u] = "idle",
         bpc'[t] # "idle", call'[t] = CallOf(t),
         \/ UNCHANGED <<Used, Blocks>>
         \/ \E s \in Sides, m \in Nat \ {0} : Allocates(t, s, m) /\ call'[t].size = m
  PROVE  StateInv' /\ HeapOK(n, lev)'
<1>2. StateTypeOK /\ ThreadOK(t) /\ BlockInv /\ MemoryBound /\ CountsOK /\ BucketOK
  BY DEF StateInv
<1>0. BlockTypeOK /\ BlockTypeOK'
  BY <1>2 DEF BlockInv
<1>3. StateTypeOK'
  BY <1>2 DEF StateTypeOK
<1>4. /\ \A u \in Threads \ {t} : pc'[u] = pc[u]
      /\ pc'[t] = "block"
  BY <1>2 DEF StateTypeOK
<1>5. Others(t) /\ HeadsCount /\ LinksKept(t)
  BY <1>4 DEF Others, HeadsCount, LinksKept
<1>6. ThreadOK(t)'
  <2>1. CallMatches(t)'
    BY <1>4 DEF CallMatches, CallOf, Small
  <2>2. PushMatches(t)'
    BY <1>2, <1>4 DEF ThreadOK, PushMatches, Pushing
  <2>3. PopMatches(t)' /\ ReadMatches(t)' /\ ChainLinked(t)'
    BY <1>4 DEF PopMatches, Popping, ReadMatches, HasRead, ChainLinked
  <2> QED
    BY <2>1, <2>2, <2>3 DEF ThreadOK
<1>7. \A u \in Threads : ThreadOK(u)'
  BY <1>2, <1>3, <1>5, <1>6, Frame DEF StateInv
<1>8. BucketOK'
  <2>1. \A u \in Threads : Refilling(u)' => Refilling(u) /\ want'[u] = want[u]
    BY <1>4 DEF Refilling, Small
  <2> QED
    BY <1>2, <2>1, KeepBucket
<1>9. CountsOK'
  <2>1. \A u \in Threads : Swaps(u) \in Nat /\ Swaps(u)' = Swaps(u)
    <3>1. \A u \in Threads : Popping(u)' <=> Popping(u)
      BY <1>4 DEF Popping
    <3> QED
      BY <1>2, <3>1, SwapsNat DEF Swaps
  <2>2. \A u \in Threads : Swaps(u) \in Nat /\ Swaps(u)' \in Nat /\ Swaps(u)' <= Swaps(u)
    BY <2>1
  <2> QED
    BY <1>2, <2>2, KeepTokens
<1>10. \A u \in Threads : /\ Decided(u) <=> Blocks[u] # NoBlock
                          /\ Decided(u)' <=> Blocks'[u] # NoBlock
  BY <1>0, DecidedIs, DecidedIsNext
<1>11. CASE UNCHANGED <<Used, Blocks>>
  <2>1. Pending' \subseteq Pending
    <3>1. ASSUME NEW u \in Pending' PROVE u \in Pending
      <4>1. CASE u = t
        <5>1. ~ Decided(t)'
          BY <1>4, <3>1, <4>1 DEF Pending, PendingPCs
        <5>2. ~ Decided(t)
          BY <1>10, <1>11, <5>1
        <5> QED
          BY <4>1, <5>2 DEF Pending, PendingPCs
      <4>2. CASE u # t
        <5>1. u \in Threads
          BY <3>1 DEF Pending, PendingPCs
        <5>2. Decided(u)' <=> Decided(u)
          BY <1>10, <1>11, <5>1
        <5> QED
          BY <1>4, <3>1, <4>2, <5>1, <5>2 DEF Pending, PendingPCs
      <4> QED
        BY <4>1, <4>2
    <3> QED
      BY <3>1
  <2>2. MemoryBound'
    BY <1>2, <1>11, <2>1, KeepMemory
  <2>3. HeapOK(n, lev)'
    BY <1>2, <1>11, NoHome
  <2> QED
    BY <1>3, <1>7, <1>8, <1>9, <2>2, <2>3 DEF StateInv
<1>12. ASSUME NEW s \in Sides, NEW m \in Nat \ {0}, Allocates(t, s, m), call'[t].size = m
       PROVE  MemoryBound' /\ HeapOK(n, lev)'
  <2>1. /\ Blocks[t] = NoBlock /\ Used' = [Used EXCEPT ![s] = @ + m]
        /\ Blocks'[t] = [side |-> s, offset |-> Used[s], size |-> m]
        /\ \A u \in Threads \ {t} : Blocks'[u] = Blocks[u]
    <3>1. Blocks \in [Threads -> {Blocks[u] : u \in Threads}]
      BY DEF Blocks
    <3> HIDE DEF Blocks
    <3> QED
      BY <1>12, <3>1 DEF Allocates
  <2>2. Blocks'[t] # NoBlock
    <3>1. Used[s] \in Nat
      BY <1>2, UsedNat
    <3> QED
      BY <2>1, <3>1, AnvBlockPoolAssumption
  <2>3. ~ Decided(t) /\ Decided(t)' /\ \A u \in Threads \ {t} : Decided(u)' <=> Decided(u)
    BY <1>10, <2>1, <2>2
  <2>4. t \in Pending /\ Pending' \subseteq Pending \ {t}
    <3>1. t \in Pending
      BY <2>3 DEF Pending, PendingPCs
    <3>2. ASSUME NEW u \in Pending' PROVE u \in Pending \ {t}
      <4>1. u # t /\ u \in Threads
        BY <1>4, <2>3, <3>2 DEF Pending, PendingPCs
      <4> QED
        BY <1>4, <2>3, <3>2, <4>1 DEF Pending, PendingPCs
    <3> QED
      BY <3>1, <3>2
  <2>5. m <= ChunkSize(NumBuckets - 1)
    <3>1. want[t] \in Lists
      BY <1>2 DEF StateTypeOK
    <3>2. m = BlockSize \/ m = ChunkSize(want[t])
      BY <1>12 DEF CallOf
    <3>3. Back \in Lists
      BY DEF Lists
    <3> QED
      BY <3>1, <3>2, <3>3, SizeFacts
  <2>6. MemoryBound'
    BY <1>2, <2>1, <2>4, <2>5, TakeMemory
  <2>7. HeapOK(n, lev)'
    BY <1>2, <1>12, TakeHome
  <2> QED
    BY <2>6, <2>7
<1> QED
  BY <1>3, <1>7, <1>8, <1>9, <1>11, <1>12 DEF StateInv

\* A fetch-and-add of the block pool for a thread of the state pool.
LEMMA FetchOK ==
  ASSUME StateInv, BlockInv', NEW n, NEW lev, HeapOK(n, lev), NEW t \in Threads,
         pc[t] \in {"new", "refill", "block"}, pc' = [pc EXCEPT ![t] = "block"],
         Refilling(t)' <=> Refilling(t),
         UNCHANGED <<head, link, fixed, want, at, cur, nxt, chunk, pushes, held, ops>>,
         NEW s \in Sides, NEW m \in Sizes, Fetched(t, s, m), bpc[t] \in {"idle", "add"},
         CallOf(t) = [side |-> s, size |-> m]
  PROVE  StateInv' /\ HeapOK(n, lev)'
<1>1. BlockInv
  BY DEF StateInv
<1>2. BlockTypeOK /\ GrowOK
  BY <1>1 DEF BlockInv
<1>3. /\ call' = [call EXCEPT ![t] = [side |-> s, size |-> m]]
      /\ \E x \in {"return", "lock", "wait"} : bpc' = [bpc EXCEPT ![t] = x]
  BY <1>2, FetchOutcome
<1>4. bpc \in [Threads -> Labels] /\ call \in [Threads -> [side : Sides, size : Nat]]
  BY <1>2 DEF BlockTypeOK
<1>5. bpc'[t] # "idle" /\ call'[t] = CallOf(t) /\ call'[t].size = m
  BY <1>3, <1>4
<1>6. \A u \in Threads \ {t} : /\ call'[u] = call[u]
                               /\ bpc'[u] = "idle" <=> bpc[u] = "idle"
  BY <1>3, <1>4
<1>7. \/ UNCHANGED <<Used, Blocks>>
      \/ /\ Blocks[t] = NoBlock
         /\ Blocks' = [Blocks EXCEPT ![t] = [side |-> s, offset |-> Used[s], size |-> m]]
         /\ Used' = [Used EXCEPT ![s] = @ + m]
  BY <1>1, FetchRefines
<1>8. m \in Nat \ {0}
  BY AnvBlockPoolAssumption
<1>9. \/ UNCHANGED <<Used, Blocks>>
      \/ \E r \in Sides, k \in Nat \ {0} : Allocates(t, r, k) /\ call'[t].size = k
  BY <1>5, <1>7, <1>8 DEF Allocates
<1>10. "block" \in StatePCs
  BY DEF StatePCs
<1> QED
  BY <1>5, <1>6, <1>9, <1>10, PoolStep

\* A step of the block pool that hands out nothing.
LEMMA QuietPoolOK ==
  ASSUME StateInv, BlockInv', NEW n, NEW lev, HeapOK(n, lev), NEW t \in Threads,
         bpc[t] # "idle", call' = call, UNCHANGED svars, UNCHANGED <<Used, Blocks>>,
         \A u \in Threads : bpc'[u] = "idle" <=> bpc[u] = "idle"
  PROVE  StateInv' /\ HeapOK(n, lev)'
<1>1. /\ UNCHANGED <<head, link, fixed, want, at, cur, nxt, chunk, pushes, held, ops>>
      /\ pc' = pc
  BY DEF svars, lists, mine
<1>2. CallMatches(t) /\ StateTypeOK
  BY DEF StateInv, ThreadOK
<1>3. pc[t] = "block" /\ call[t] = CallOf(t)
  BY <1>2 DEF CallMatches
<1>4. pc' = [pc EXCEPT ![t] = "block"] /\ "block" \in StatePCs
  BY <1>1, <1>2, <1>3 DEF StateTypeOK, StatePCs
<1>5. Refilling(t)' <=> Refilling(t)
  BY <1>1 DEF Refilling, Small
<1> QED
  BY <1>1, <1>3, <1>4, <1>5, PoolStep

\* The steps of the block pool inside a call.
LEMMA AllocStepOK ==
  ASSUME StateInv, BlockInv', NEW n, NEW lev, HeapOK(n, lev), NEW t \in Threads,
         AllocStep(t), UNCHANGED svars
  PROVE  StateInv' /\ HeapOK(n, lev)'
<1>1. BlockInv /\ CallMatches(t) /\ StateTypeOK
  BY DEF StateInv, ThreadOK
<1>2. BlockTypeOK /\ GrowOK /\ bpc \in [Threads -> Labels]
      /\ call \in [Threads -> [side : Sides, size : Nat]]
  BY <1>1 DEF BlockInv, BlockTypeOK
<1>3. CASE Retry(t)
  <2>1. PICK s \in Sides, m \in Sizes : Fetched(t, s, m) /\ bpc[t] \in {"idle", "add"}
    BY <1>2, <1>3, FetchSteps
  <2>2. call' = [call EXCEPT ![t] = [side |-> s, size |-> m]] /\ call' = call /\ bpc[t] = "add"
    BY <1>3, <2>1 DEF Fetched, Retry
  <2>3. call[t] = [side |-> s, size |-> m]
    BY <1>2, <2>2
  <2>4. pc[t] = "block" /\ call[t] = CallOf(t)
    BY <1>1, <2>2 DEF CallMatches
  <2>5. /\ UNCHANGED <<head, link, fixed, want, at, cur, nxt, chunk, pushes, held, ops>>
        /\ pc' = pc
    BY DEF svars, lists, mine
  <2>6. pc' = [pc EXCEPT ![t] = "block"]
    BY <1>1, <2>4, <2>5 DEF StateTypeOK
  <2>7. Refilling(t)' <=> Refilling(t)
    BY <2>5 DEF Refilling, Small
  <2> QED
    BY <2>1, <2>3, <2>4, <2>5, <2>6, <2>7, FetchOK
<1>4. CASE Publish(t)
  <2>1. UNCHANGED <<Used, Blocks>>
    BY <1>1, <1>4, PublishRefines
  <2>2. /\ bpc[t] = "publish" /\ call' = call
        /\ \E x \in {"wake", "return"} : bpc' = [bpc EXCEPT ![t] = x]
    BY <1>4 DEF Publish, Goto
  <2>3. \A u \in Threads : bpc'[u] = "idle" <=> bpc[u] = "idle"
    BY <1>2, <2>2
  <2> QED
    BY <2>1, <2>2, <2>3, QuietPoolOK
<1>5. CASE Grow(t) \/ FutexWait(t) \/ FutexWake(t)
  <2>1. Quiet /\ \A u \in Threads : Decided(u)' <=> Decided(u)
    BY <1>2, <1>5, QuietSteps, QuietDecides
  <2>2. UNCHANGED <<Used, Blocks>>
    BY <1>1, <2>1, QuietRefines
  <2>3. /\ bpc[t] # "idle"
        /\ \A u \in Threads : bpc'[u] = "idle" <=> bpc[u] = "idle"
    <3>1. CASE FutexWake(t)
      BY <1>2, <3>1 DEF FutexWake
    <3>2. CASE FutexWait(t)
      BY <1>2, <3>2 DEF FutexWait, Goto
    <3>3. CASE GrowLock(t) \/ GrowDecide(t) \/ GrowDouble(t) \/ GrowCenter(t)
      BY <1>2, <3>3 DEF GrowLock, GrowDecide, GrowDouble, GrowCenter, Goto
    <3>4. CASE Expand(t) \/ ExpandBo(t) \/ ExpandFail(t)
      BY <1>2, <3>4 DEF Expand, ExpandBo, ExpandFail, Goto
    <3>5. CASE ReadCenter(t) \/ ReadFirst(t) \/ ReadSecond(t)
      BY <1>2, <3>5 DEF ReadCenter, ReadFirst, ReadSecond, Goto, Enough
    <3> QED
      BY <1>5, <3>1, <3>2, <3>3, <3>4, <3>5 DEF Grow
  <2>4. call' = call
    BY <2>1 DEF Quiet
  <2> QED
    BY <2>2, <2>3, <2>4, QuietPoolOK
<1> QED
  BY <1>3, <1>4, <1>5 DEF AllocStep

\* A chunk of a block or more, or one at the back, is asked of the block pool.
LEMMA NewBlockOK ==
  ASSUME StateInv, BlockInv', NEW n, NEW lev, HeapOK(n, lev), NEW t \in Threads, NewBlock(t)
  PROVE  StateInv' /\ HeapOK(n, lev)'
<1>1. BlockInv /\ CallMatches(t) /\ StateTypeOK
  BY DEF StateInv, ThreadOK
<1>2. BlockTypeOK /\ GrowOK
  BY <1>1 DEF BlockInv
<1>w. PICK w, s, m : /\ w = want[t] /\ s = (IF w = Back THEN "back" ELSE "front")
                     /\ m = ChunkSize(w)
  OBVIOUS
<1>3. /\ pc[t] = "new" /\ m >= BlockSize /\ Call(t, s, m)
      /\ pc' = [pc EXCEPT ![t] = "block"]
      /\ UNCHANGED <<head, link, fixed, want, at, cur, nxt, chunk, pushes, held, ops>>
  BY <1>w DEF NewBlock, Go, lists, mine
<1>4. w \in Lists /\ s \in Sides /\ m \in Sizes
  BY <1>1, <1>3, <1>w, AnvStatePoolAssumption DEF StateTypeOK, Sides
<1>5. Fetched(t, s, m) /\ bpc[t] \in {"idle", "add"}
  BY <1>3 DEF Call, Fetched, Growing
<1>6. ~ Small(t)
  <2>1. m \in Nat /\ BlockSize \in Nat
    BY <1>4, AnvStatePoolAssumption, AnvBlockPoolAssumption
  <2> QED
    BY <1>3, <1>w, <2>1 DEF Small
<1>7. CallOf(t) = [side |-> s, size |-> m]
  BY <1>6, <1>w DEF CallOf
<1>8. Refilling(t)' <=> Refilling(t)
  <2>1. pc'[t] = "block" /\ ~ Small(t)'
    BY <1>1, <1>3, <1>6 DEF StateTypeOK, Small
  <2> QED
    BY <1>3, <1>6, <2>1 DEF Refilling
<1> QED
  BY <1>3, <1>4, <1>5, <1>7, <1>8, FetchOK

\* The bucket's next block is asked of the block pool.
LEMMA RefillBlockOK ==
  ASSUME StateInv, BlockInv', NEW n, NEW lev, HeapOK(n, lev), NEW t \in Threads,
         RefillBlock(t)
  PROVE  StateInv' /\ HeapOK(n, lev)'
<1>1. BlockInv /\ CallMatches(t) /\ StateTypeOK
  BY DEF StateInv, ThreadOK
<1>3. /\ pc[t] = "refill" /\ Call(t, "front", BlockSize)
      /\ pc' = [pc EXCEPT ![t] = "block"]
      /\ UNCHANGED <<head, link, fixed, want, at, cur, nxt, chunk, pushes, held, ops>>
  BY DEF RefillBlock, Go, lists, mine
<1>4. "front" \in Sides /\ BlockSize \in Sizes
  BY AnvStatePoolAssumption DEF Sides
<1>5. Fetched(t, "front", BlockSize) /\ bpc[t] \in {"idle", "add"}
  BY <1>3 DEF Call, Fetched, Growing
<1>6. Small(t)
  BY <1>1, <1>3 DEF CallMatches
<1>7. CallOf(t) = [side |-> "front", size |-> BlockSize]
  <2>1. want[t] # Back
    <3>1. BlockSize \in Nat
      BY AnvStatePoolAssumption, AnvBlockPoolAssumption
    <3> QED
      BY <1>6, <3>1 DEF Small, ChunkSize
  <2> QED
    BY <1>6, <2>1 DEF CallOf
<1>8. Refilling(t)' <=> Refilling(t)
  <2>1. pc'[t] = "block" /\ Small(t)'
    BY <1>1, <1>3, <1>6 DEF StateTypeOK, Small
  <2> QED
    BY <1>3, <2>1 DEF Refilling
<1> QED
  BY <1>3, <1>4, <1>5, <1>7, <1>8, FetchOK

-----------------------------------------------------------------------------
(* The exchange of anv_free_list_pop *)

\* The chunks of a chain lie one behind the other.
LEMMA ChainBytes ==
  ASSUME NEW u, NEW p \in ChainType
  PROVE  /\ ChunkSize(p.list) \in Nat \ {0} /\ p.offset \in Int
         /\ p.count * ChunkSize(p.list) \in Nat
         /\ \A a : (\E h \in HomesOfChain(u, p) : In(a, h)) <=>
              a \in Int /\ p.offset <= a /\ a < p.offset + p.count * ChunkSize(p.list)
         /\ \A g, h \in HomesOfChain(u, p) : \A a : In(a, g) /\ In(a, h) => g = h
<1>s. PICK s, k, o : s = ChunkSize(p.list) /\ k = p.count /\ o = p.offset
  OBVIOUS
<1>1. s \in Nat \ {0} /\ k \in Nat \ {0} /\ o \in Int
  BY <1>s, SizeFacts DEF ChainType
<1> DEFINE P(i) == <<"chain", <<u, p.list>>, o + i * s, s>>
<1>2. /\ \A a \in Int : o <= a /\ a < o + k * s =>
              \E i \in 0..k-1 : o + i * s <= a /\ a < (o + i * s) + s
      /\ \A i \in 0..k-1 : /\ o <= o + i * s /\ (o + i * s) + s <= o + k * s
                           /\ i * s \in Nat /\ o + i * s \in Int
      /\ \A i, j \in 0..k-1 : \A a \in Int :
              /\ o + i * s <= a /\ a < (o + i * s) + s
              /\ o + j * s <= a /\ a < (o + j * s) + s
              => i = j
  BY <1>1, Pieces
<1>3. \A h : h \in HomesOfChain(u, p) <=> \E i \in 0..k-1 : h = P(i)
  BY <1>s DEF HomesOfChain, ChainOf
<1>4. \A i \in 0..k-1 : \A a : In(a, P(i)) <=> a \in Int /\ o + i * s <= a /\ a < (o + i * s) + s
  <2> TAKE i \in 0..k-1
  <2>1. o + i * s \in Int /\ s \in Int
    BY <1>1, <1>2
  <2> QED
    BY <2>1, HomeBytes
<1>5. k * s \in Nat
  BY <1>1, Times
<1> HIDE DEF P
<1>6. \A a : (\E h \in HomesOfChain(u, p) : In(a, h)) <=> a \in Int /\ o <= a /\ a < o + k * s
  <2>1. ASSUME NEW a, NEW i \in 0..k-1, In(a, P(i)) PROVE a \in Int /\ o <= a /\ a < o + k * s
    <3>x. PICK x, y : x = i * s /\ y = k * s
      OBVIOUS
    <3>1. a \in Int /\ o + x <= a /\ a < (o + x) + s /\ o <= o + x /\ (o + x) + s <= o + y
          /\ x \in Nat /\ y \in Nat
      BY <1>2, <1>4, <1>5, <2>1, <3>x
    <3>2. a \in Int /\ o <= a /\ a < o + y
      BY <1>1, <3>1
    <3> QED
      BY <3>2, <3>x
  <2>2. ASSUME NEW a \in Int, o <= a, a < o + k * s PROVE \E i \in 0..k-1 : In(a, P(i))
    BY <1>2, <1>4, <2>2
  <2> QED
    BY <1>3, <2>1, <2>2, Zenon
<1>7. \A g, h \in HomesOfChain(u, p) : \A a : In(a, g) /\ In(a, h) => g = h
  <2>1. \A i, j \in 0..k-1 : \A a : In(a, P(i)) /\ In(a, P(j)) => i = j
    BY <1>2, <1>4
  <2> QED
    BY <1>3, <2>1, ZenonT(40)
<1> QED
  BY <1>s, <1>1, <1>5, <1>6, <1>7

\* What anv_state_pool_alloc_no_vg gives back of a larger chunk.
LEMMA SplitFacts ==
  ASSUME NEW w \in Buckets, NEW l \in Buckets, w < l, NEW o \in Int
  PROVE  \E p \in ChainType :
           /\ p.list = w /\ p.offset = o + ChunkSize(w)
           /\ \/ /\ Split(o, l, w) = <<p>>
                 /\ p.offset + p.count * ChunkSize(w) = o + ChunkSize(l)
              \/ \E q \in ChainType :
                   /\ Split(o, l, w) = <<q, p>> /\ q.list # w
                   /\ q.offset = p.offset + p.count * ChunkSize(w)
                   /\ q.offset + q.count * ChunkSize(q.list) = o + ChunkSize(l)
<1>s. PICK s, e, B : s = ChunkSize(w) /\ e = ChunkSize(l) /\ B = BlockSize
  OBVIOUS
<1>1. /\ s \in Nat \ {0} /\ e \in Nat \ {0} /\ B \in Nat \ {0} /\ w \in Lists /\ l \in Lists
      /\ BlockBucket \in Buckets /\ BlockBucket \in Lists /\ ChunkSize(BlockBucket) = B
  BY <1>s, SizeFacts DEF Lists
\* k pieces less one, behind the first.
<1>2. ASSUME NEW i \in Buckets, NEW j \in Buckets, i < j, NEW c, c = ChunkSize(j) \div ChunkSize(i) - 1
      PROVE  /\ c \in Nat \ {0} /\ c * ChunkSize(i) \in Nat
             /\ ChunkSize(j) = c * ChunkSize(i) + ChunkSize(i)
             /\ ChunkSize(i) \in Nat \ {0}
  <2>k. PICK k : k = ChunkSize(j) \div ChunkSize(i)
    OBVIOUS
  <2>1. k \in Nat /\ k >= 2 /\ ChunkSize(j) = k * ChunkSize(i)
    BY <1>2, <2>k, DivideSizes
  <2>2. c \in Nat \ {0} /\ c + 1 = k
    BY <1>2, <2>1, <2>k
  <2>3. ChunkSize(i) \in Nat \ {0}
    BY <1>2, SizeFacts DEF Lists
  <2>4. c * ChunkSize(i) \in Nat /\ (c + 1) * ChunkSize(i) = c * ChunkSize(i) + ChunkSize(i)
    <3>1. c \in Nat /\ c <= c /\ ChunkSize(i) \in Nat
      BY <2>2, <2>3
    <3> QED
      BY <3>1, Times
  <2> QED
    BY <2>1, <2>2, <2>3, <2>4
<1>3. CASE ~(e > B /\ s < B)
  <2>c. PICK c, p : c = e \div s - 1 /\ p = [list |-> w, offset |-> o + s, count |-> c]
    OBVIOUS
  <2>1. c \in Nat \ {0} /\ c * s \in Nat /\ e = c * s + s
    BY <1>2, <1>s, <2>c
  <2>2. Split(o, l, w) = <<p>>
    BY <1>3, <1>s, <2>c DEF Split
  <2>3. p \in ChainType /\ p.list = w /\ p.offset = o + s /\ p.count = c
    BY <1>1, <2>1, <2>c DEF ChainType
  <2>4. (o + s) + c * s = o + e
    <3>x. PICK x : x = c * s
      OBVIOUS
    <3>1. x \in Nat /\ e = x + s
      BY <2>1, <3>x
    <3>2. (o + s) + x = o + e
      BY <1>1, <3>1
    <3> QED
      BY <3>2, <3>x
  <2> QED
    BY <1>s, <2>2, <2>3, <2>4
<1>4. CASE e > B /\ s < B
  <2>c. PICK c, d, p, q : /\ c = B \div s - 1 /\ p = [list |-> w, offset |-> o + s, count |-> c]
                          /\ d = e \div B - 1
                          /\ q = [list |-> BlockBucket, offset |-> o + B, count |-> d]
    OBVIOUS
  <2>0. w < BlockBucket /\ BlockBucket < l
    BY <1>1, <1>4, <1>s, SizesOrder
  <2>1. c \in Nat \ {0} /\ c * s \in Nat /\ B = c * s + s
    BY <1>1, <1>2, <1>s, <2>c, <2>0
  <2>2. d \in Nat \ {0} /\ d * B \in Nat /\ e = d * B + B
    BY <1>1, <1>2, <1>s, <2>c, <2>0
  <2>3. Split(o, l, w) = <<q, p>>
    BY <1>4, <1>s, <2>c DEF Split
  <2>4. p \in ChainType /\ p.list = w /\ p.offset = o + s /\ p.count = c
    BY <1>1, <2>1, <2>c DEF ChainType
  <2>5. q \in ChainType /\ q.list = BlockBucket /\ q.offset = o + B /\ q.count = d
    BY <1>1, <2>2, <2>c DEF ChainType
  <2>6. o + B = (o + s) + c * s /\ (o + B) + d * B = o + e
    <3>x. PICK x, y : x = c * s /\ y = d * B
      OBVIOUS
    <3>1. x \in Nat /\ y \in Nat /\ B = x + s /\ e = y + B
      BY <2>1, <2>2, <3>x
    <3>2. o + B = (o + s) + x /\ (o + B) + y = o + e
      BY <1>1, <3>1
    <3> QED
      BY <3>2, <3>x
  <2>7. q.list # w
    BY <1>1, <2>0, <2>5, SizeFacts
  <2> QED
    BY <1>1, <1>s, <2>3, <2>4, <2>5, <2>6, <2>7
<1> QED
  BY <1>3, <1>4

\* The places of the chunk asked for and of the chains, after a split.
SplitInto(t, o, l, w) ==
  {<<"got", t, o, ChunkSize(w)>>}
    \cup UNION {HomesOfChain(t, Split(o, l, w)[i]) : i \in DOMAIN Split(o, l, w)}

\* The larger chunk is divided into the one asked for and the chains.
LEMMA SplitHomes ==
  ASSUME NEW w \in Buckets, NEW l \in Buckets, w < l, NEW o \in Int, NEW t
  PROVE  /\ Split(o, l, w) \in Seq(ChainType) /\ Split(o, l, w) # <<>>
         /\ Len(Split(o, l, w)) \in 1..2
         /\ \A i, j \in DOMAIN Split(o, l, w) :
              Split(o, l, w)[i].list = Split(o, l, w)[j].list => i = j
         /\ \A a : In(a, <<"free", l, o, ChunkSize(l)>>) <=>
                     (\E h \in SplitInto(t, o, l, w) : In(a, h))
         /\ \A f, h \in SplitInto(t, o, l, w) : \A a : In(a, f) /\ In(a, h) => f = h
<1>q. PICK q, g, r, N : /\ q = Split(o, l, w) /\ g = <<"got", t, o, ChunkSize(w)>>
                        /\ r = <<"free", l, o, ChunkSize(l)>> /\ N = SplitInto(t, o, l, w)
  OBVIOUS
<1>n. \A h : h \in N <=> h = g \/ \E i \in DOMAIN q : h \in HomesOfChain(t, q[i])
  BY <1>q DEF SplitInto
<1> SUFFICES /\ q \in Seq(ChainType) /\ q # <<>> /\ Len(q) \in 1..2
             /\ \A i, j \in DOMAIN q : q[i].list = q[j].list => i = j
             /\ \A a : In(a, r) <=> (\E h \in N : In(a, h))
             /\ \A f, h \in N : \A a : In(a, f) /\ In(a, h) => f = h
  BY <1>q
<1>p. PICK p \in ChainType :
           /\ p.list = w /\ p.offset = o + ChunkSize(w)
           /\ \/ /\ q = <<p>>
                 /\ p.offset + p.count * ChunkSize(w) = o + ChunkSize(l)
              \/ \E d \in ChainType :
                   /\ q = <<d, p>> /\ d.list # w
                   /\ d.offset = p.offset + p.count * ChunkSize(w)
                   /\ d.offset + d.count * ChunkSize(d.list) = o + ChunkSize(l)
  BY <1>q, SplitFacts
<1>s. PICK s, e, y : s = ChunkSize(w) /\ e = ChunkSize(l) /\ y = p.offset + p.count * ChunkSize(w)
  OBVIOUS
<1>1. s \in Nat \ {0} /\ e \in Nat \ {0}
  BY <1>s, SizeFacts DEF Lists
<1>2. /\ \A a : In(a, g) <=> a \in Int /\ o <= a /\ a < o + s
      /\ \A a : In(a, r) <=> a \in Int /\ o <= a /\ a < o + e
  BY <1>1, <1>q, <1>s, HomeBytes
<1>3. /\ \A a : (\E h \in HomesOfChain(t, p) : In(a, h)) <=> a \in Int /\ o + s <= a /\ a < y
      /\ \A f, h \in HomesOfChain(t, p) : \A a : In(a, f) /\ In(a, h) => f = h
      /\ y \in Int /\ o + s <= y
  <2>1. /\ p.offset \in Int /\ p.count * ChunkSize(p.list) \in Nat
        /\ \A a : (\E h \in HomesOfChain(t, p) : In(a, h)) <=>
              a \in Int /\ p.offset <= a /\ a < p.offset + p.count * ChunkSize(p.list)
        /\ \A f, h \in HomesOfChain(t, p) : \A a : In(a, f) /\ In(a, h) => f = h
    BY ChainBytes
  <2>2. p.offset = o + s /\ p.offset + p.count * ChunkSize(p.list) = y
    BY <1>p, <1>s
  <2>3. y \in Int /\ p.offset <= y
    BY <2>1, <2>2
  <2> QED
    BY <2>1, <2>2, <2>3
<1>4. CASE q = <<p>> /\ y = o + e
  <2>1. DOMAIN q = {1} /\ q[1] = p /\ Len(q) = 1 /\ q # <<>> /\ q \in Seq(ChainType)
    BY <1>4
  <2>2. \A h : h \in N <=> h = g \/ h \in HomesOfChain(t, p)
    BY <1>n, <2>1
  <2> HIDE DEF HomesOfChain, In
  <2>3. \A a : In(a, r) <=> In(a, g) \/ \E h \in HomesOfChain(t, p) : In(a, h)
    BY <1>1, <1>2, <1>3, <1>4
  <2>4. \A a : \A h \in HomesOfChain(t, p) : ~ (In(a, g) /\ In(a, h))
    BY <1>1, <1>2, <1>3
  <2>5. \A f, h \in N : \A a : In(a, f) /\ In(a, h) => f = h
    BY <1>3, <2>2, <2>4, Zenon
  <2>6. \A a : In(a, r) <=> (\E h \in N : In(a, h))
    BY <2>2, <2>3, Zenon
  <2>7. \A i, j \in DOMAIN q : q[i].list = q[j].list => i = j
    BY <2>1
  <2> QED
    BY <2>1, <2>5, <2>6, <2>7
<1>5. ASSUME NEW d \in ChainType, q = <<d, p>>, d.list # w, d.offset = y,
             d.offset + d.count * ChunkSize(d.list) = o + e
      PROVE  /\ q \in Seq(ChainType) /\ q # <<>> /\ Len(q) \in 1..2
             /\ \A i, j \in DOMAIN q : q[i].list = q[j].list => i = j
             /\ \A a : In(a, r) <=> (\E h \in N : In(a, h))
             /\ \A f, h \in N : \A a : In(a, f) /\ In(a, h) => f = h
  <2>1. /\ DOMAIN q = {1, 2} /\ q[1] = d /\ q[2] = p /\ Len(q) = 2 /\ q # <<>>
        /\ q \in Seq(ChainType)
    BY <1>5
  <2>2. \A h : h \in N <=> h = g \/ h \in HomesOfChain(t, p) \/ h \in HomesOfChain(t, d)
    BY <1>n, <2>1
  <2>3. /\ \A a : (\E h \in HomesOfChain(t, d) : In(a, h)) <=> a \in Int /\ y <= a /\ a < o + e
        /\ \A f, h \in HomesOfChain(t, d) : \A a : In(a, f) /\ In(a, h) => f = h
        /\ y <= o + e
    <3>1. /\ d.offset \in Int /\ d.count * ChunkSize(d.list) \in Nat
          /\ \A a : (\E h \in HomesOfChain(t, d) : In(a, h)) <=>
                a \in Int /\ d.offset <= a /\ a < d.offset + d.count * ChunkSize(d.list)
          /\ \A f, h \in HomesOfChain(t, d) : \A a : In(a, f) /\ In(a, h) => f = h
      BY ChainBytes
    <3>2. d.offset <= d.offset + d.count * ChunkSize(d.list)
      BY <3>1
    <3> QED
      BY <1>5, <3>1, <3>2
  <2> HIDE DEF HomesOfChain, In
  <2>4. \A a : In(a, r) <=> In(a, g) \/ (\E h \in HomesOfChain(t, p) : In(a, h))
                                    \/ (\E h \in HomesOfChain(t, d) : In(a, h))
    BY <1>1, <1>2, <1>3, <2>3
  <2>5. /\ \A a : \A h \in HomesOfChain(t, p) : ~ (In(a, g) /\ In(a, h))
        /\ \A a : \A h \in HomesOfChain(t, d) : ~ (In(a, g) /\ In(a, h))
        /\ \A a : \A f \in HomesOfChain(t, p), h \in HomesOfChain(t, d) : ~ (In(a, f) /\ In(a, h))
    <3>1. \A a : \A h \in HomesOfChain(t, p) : ~ (In(a, g) /\ In(a, h))
      BY <1>1, <1>2, <1>3
    <3>2. \A a : \A h \in HomesOfChain(t, d) : ~ (In(a, g) /\ In(a, h))
      BY <1>1, <1>2, <1>3, <2>3
    <3>3. \A a : \A f \in HomesOfChain(t, p), h \in HomesOfChain(t, d) : ~ (In(a, f) /\ In(a, h))
      <4> SUFFICES ASSUME NEW a, NEW f \in HomesOfChain(t, p), NEW h \in HomesOfChain(t, d),
                          In(a, f), In(a, h) PROVE FALSE
        OBVIOUS
      <4>1. a \in Int /\ a < y
        BY <1>3
      <4>2. y <= a
        BY <2>3
      <4> QED
        BY <1>3, <4>1, <4>2
    <3> QED
      BY <3>1, <3>2, <3>3
  <2>6. \A f, h \in N : \A a : In(a, f) /\ In(a, h) => f = h
    BY <1>3, <2>2, <2>3, <2>5, Zenon
  <2>7. \A a : In(a, r) <=> (\E h \in N : In(a, h))
    BY <2>2, <2>4, Zenon
  <2>8. \A i, j \in DOMAIN q : q[i].list = q[j].list => i = j
    BY <1>5, <1>p, <2>1
  <2> QED
    BY <2>1, <2>6, <2>7, <2>8
<1> QED
  BY <1>4, <1>5, <1>p, <1>s

\* The chunk that anv_free_list_pop has taken is the first of its list, and
\* the link that it has read is still the second.
LEMMA PopFacts ==
  ASSUME StateInv, NEW n, NEW lev, HeapOK(n, lev), NEW t \in Threads,
         pc[t] = "popcas", head[at[t]] = cur[t],
         NEW l, l = at[t], NEW w, w = want[t], NEW o, o = cur[t].offset
  PROVE  /\ l \in Lists /\ w \in Lists /\ n[l] \in Nat /\ n[l] - 1 \in Nat
         /\ n[l] \in 1..n[l] /\ o = lev[l][n[l]] /\ nxt[t] = lev[l][n[l] - 1]
         /\ o \in Offsets /\ o \in Int /\ o # EMPTY /\ nxt[t] \in Offsets \cup {EMPTY}
         /\ pushes[t] = <<>> /\ chunk[t] = EMPTY /\ bpc[t] = "idle"
         /\ l # w => l \in Buckets /\ w \in Buckets /\ w < l
         /\ <<"free", l, o, ChunkSize(l)>> \in HomesWith(FreeOf(n, lev))
<1>1. StateTypeOK /\ PopMatches(t) /\ ReadMatches(t)
  BY DEF StateInv, ThreadOK
<1>2. l \in Lists /\ w \in Lists
  BY <1>1 DEF StateTypeOK
<1>3. o = head[l].offset /\ o # EMPTY /\ nxt[t] = link[o]
  BY <1>1 DEF ReadMatches
<1>4. n[l] \in Nat /\ head[l].offset = lev[l][n[l]] /\ n[l] \in 1..n[l]
  BY <1>2, <1>3, ListFacts
<1>5. n[l] - 1 \in Nat
  BY <1>4
<1>k. PICK k \in 1..n[l] : k = n[l]
  BY <1>4
<1>6. /\ lev[l][k] \in Offsets /\ lev[l][k] \in Int /\ link[lev[l][k]] = lev[l][k - 1]
      /\ <<"free", l, lev[l][k], ChunkSize(l)>> \in HomesWith(FreeOf(n, lev))
  BY <1>2, ListFacts
<1>7. nxt[t] \in Offsets \cup {EMPTY}
  <2>1. lev \in [Lists -> [Nat -> Offsets \cup {EMPTY}]]
    BY DEF HeapOK
  <2>2. lev[l] \in [Nat -> Offsets \cup {EMPTY}]
    BY <1>2, <2>1
  <2> QED
    BY <1>3, <1>4, <1>5, <1>6, <1>k, <2>2
<1>8. pushes[t] = <<>> /\ chunk[t] = EMPTY /\ bpc[t] = "idle"
  BY NothingYet
<1>9. l # w => l \in Buckets /\ w \in Buckets /\ w < l
  <2> SUFFICES ASSUME l # w PROVE l \in Buckets /\ w \in Buckets /\ w < l
    OBVIOUS
  <2>1. IF w = Back THEN l = Back ELSE l \in w..NumBuckets-1
    BY <1>1 DEF PopMatches, Popping
  <2>2. w # Back /\ l \in w..NumBuckets-1
    BY <2>1
  <2>3. w \in Buckets /\ w \in Nat
    BY <1>2, <2>2, SizeFacts DEF Lists
  <2> QED
    BY <2>2, <2>3, AnvStatePoolAssumption DEF Buckets
<1> QED
  BY <1>2, <1>3, <1>4, <1>5, <1>6, <1>7, <1>8, <1>9, <1>k, SMTT(40)

\* A successful exchange of anv_free_list_pop, but for the homes.
LEMMA PopRest ==
  ASSUME 3 * MaxOps < CountRange, StateInv, BlockInv', NEW n, NEW lev, HeapOK(n, lev),
         NEW t \in Threads, PopSwap(t), head[at[t]] = cur[t],
         NEW x \in {"done", "push"}, NEW q \in Seq(ChainType), Len(q) <= 2,
         x = "push" <=> q # <<>>,
         \A i, j \in DOMAIN q : q[i].list = q[j].list => i = j,
         pc' = [pc EXCEPT ![t] = x], pushes' = [pushes EXCEPT ![t] = q]
  PROVE  StateInv'
<1>b. PICK l, w, o : l = at[t] /\ w = want[t] /\ o = cur[t].offset
  OBVIOUS
<1>1. /\ pc[t] = "popcas"
      /\ head' = [head EXCEPT ![l] = [offset |-> nxt[t], count |-> Bump(@)]]
      /\ chunk' = [chunk EXCEPT ![t] = o]
      /\ cur' = [cur EXCEPT ![t] = <<>>] /\ nxt' = [nxt EXCEPT ![t] = EMPTY]
      /\ UNCHANGED <<bvars, link, fixed, want, at, held, ops>>
  BY <1>b DEF PopSwap, Read
<1>2. StateTypeOK /\ ThreadOK(t) /\ BlockInv /\ MemoryBound /\ CountsOK /\ BucketOK
  BY DEF StateInv
<1>3. /\ l \in Lists /\ w \in Lists /\ o \in Offsets /\ o # EMPTY
      /\ nxt[t] \in Offsets \cup {EMPTY}
      /\ pushes[t] = <<>> /\ chunk[t] = EMPTY /\ bpc[t] = "idle"
  BY <1>1, <1>b, PopFacts
<1>4. /\ head'[l].count = Bump(head[l]) /\ head'[l].offset = nxt[t]
      /\ \A k \in Lists \ {l} : head'[k] = head[k]
  BY <1>1, <1>2, <1>3 DEF StateTypeOK
<1>5. /\ \A u \in Threads \ {t} : /\ pc'[u] = pc[u] /\ cur'[u] = cur[u] /\ chunk'[u] = chunk[u]
                                  /\ pushes'[u] = pushes[u] /\ nxt'[u] = nxt[u]
      /\ pc'[t] = x /\ chunk'[t] = o /\ pushes'[t] = q
  BY <1>1, <1>2 DEF StateTypeOK
<1>6. CountsOK' /\ head[l].count \in Nat /\ head'[l].count = head[l].count + 1
      /\ head'[l].count < CountRange
  <2>1. Swaps(t) = 3 /\ Swaps(t)' = Len(q) /\ Len(q) \in Nat
    BY <1>1, <1>5 DEF Swaps, Popping
  <2>2. \A u \in Threads \ {t} : Swaps(u)' = Swaps(u)
    BY <1>5 DEF Swaps, Popping
  <2>3. Swaps(t) \in Nat /\ Swaps(t) >= 1 /\ Swaps(t)' \in Nat /\ Swaps(t)' <= Swaps(t) - 1
    BY <2>1
  <2> QED
    BY <1>1, <1>2, <1>3, <1>4, <2>2, <2>3, SpendToken
<1>7. StateTypeOK'
  <2>1. head' \in [Lists -> Heads]
    <3>1. head'[l] \in Heads
      <4>1. Bump(head[l]) \in 0..CountRange-1
        BY <1>4, <1>6, AnvStatePoolAssumption
      <4>2. head'[l] = [offset |-> nxt[t], count |-> Bump(head[l])]
        BY <1>1, <1>2, <1>3 DEF StateTypeOK
      <4> QED
        BY <1>3, <4>1, <4>2 DEF Heads
    <3>2. head \in [Lists -> Heads]
      BY <1>2 DEF StateTypeOK
    <3>3. head' = [head EXCEPT ![l] = head'[l]]
      BY <1>1, <1>3, <3>2
    <3> QED
      BY <3>1, <3>2, <3>3
  <2>2. x \in StatePCs
    BY DEF StatePCs
  <2> QED
    BY <1>1, <1>2, <1>3, <2>1, <2>2 DEF StateTypeOK
<1>8. Others(t) /\ LinksKept(t)
  BY <1>1, <1>5, PoolSame DEF Others, LinksKept
<1>9. HeadsCount
  <2>1. head'[l].count > head[l].count
    BY <1>6
  <2> QED
    BY <1>4, <2>1 DEF HeadsCount
<1>10. ThreadOK(t)'
  <2>1. PushMatches(t)'
    <3>1. chunk'[t] # EMPTY
      BY <1>3, <1>5
    <3>2. Pushing(t)' <=> pushes'[t] # <<>>
      BY <1>5 DEF Pushing
    <3>3. \A i, j \in DOMAIN pushes'[t] : pushes'[t][i].list = pushes'[t][j].list => i = j
      BY <1>5
    <3>4. pc'[t] \in {"push", "link", "pushcas", "wake", "done"}
      BY <1>5
    <3> QED
      BY <3>1, <3>2, <3>3, <3>4 DEF PushMatches
  <2>2. CallMatches(t)' /\ PopMatches(t)' /\ ReadMatches(t)' /\ ChainLinked(t)'
    BY <1>1, <1>3, <1>5, PoolSame DEF CallMatches, PopMatches, Popping, ReadMatches, HasRead, ChainLinked
  <2> QED
    BY <2>1, <2>2 DEF ThreadOK
<1>11. \A u \in Threads : ThreadOK(u)'
  BY <1>2, <1>7, <1>8, <1>9, <1>10, Frame DEF StateInv
<1>12. BucketOK'
  <2>1. \A u \in Threads : Refilling(u)' => Refilling(u) /\ want'[u] = want[u]
    BY <1>1, <1>5 DEF Refilling, Small
  <2> QED
    BY <1>1, <1>2, <2>1, KeepBucket
<1>13. MemoryBound'
  <2>1. Pending' \subseteq Pending
    BY <1>1, <1>5, PoolSame DEF Pending, PendingPCs
  <2> QED
    BY <1>1, <1>2, <2>1, PoolSame, KeepMemory
<1> QED
  BY <1>6, <1>7, <1>11, <1>12, <1>13 DEF StateInv

\* List l without its first chunk.
Popped(n, l) == [n EXCEPT ![l] = n[l] - 1]

\* The first chunk of list l is taken off it.
LEMMA PopLists ==
  ASSUME NEW n, NEW lev, HeapOK(n, lev), NEW l \in Lists, n[l] \in 1..n[l],
         UNCHANGED link,
         head'[l].offset = lev[l][n[l] - 1],
         \A k \in Lists \ {l} : head'[k].offset = head[k].offset
  PROVE  /\ Popped(n, l) \in [Lists -> Nat] /\ lev \in [Lists -> [Nat -> Offsets \cup {EMPTY}]]
         /\ Linked(Popped(n, l), lev)'
         /\ FreeHomes(FreeOf(Popped(n, l), lev))' =
              FreeHomes(FreeOf(n, lev)) \ {<<"free", l, lev[l][n[l]], ChunkSize(l)>>}
<1>m. PICK m : m = Popped(n, l)
  OBVIOUS
<1>1. n \in [Lists -> Nat] /\ lev \in [Lists -> [Nat -> Offsets \cup {EMPTY}]] /\ Linked(n, lev)
  BY DEF HeapOK
<1>2. n[l] \in Nat /\ n[l] - 1 \in Nat /\ 1..n[l]-1 = 1..n[l] \ {n[l]}
  <2>1. n[l] \in Nat
    BY <1>1
  <2>2. n[l] >= 1 /\ n[l] - 1 \in Nat
    BY <2>1
  <2> QED
    BY <2>1, <2>2
<1>3. /\ m \in [Lists -> Nat] /\ m[l] = n[l] - 1 /\ \A k \in Lists \ {l} : m[k] = n[k]
      /\ 1..m[l] \subseteq 1..n[l]
  BY <1>1, <1>2, <1>m DEF Popped
<1>4. Linked(m, lev)'
  <2> SUFFICES ASSUME NEW k \in Lists
               PROVE  /\ head'[k].offset = lev[k][m[k]] /\ lev[k][0] = EMPTY
                      /\ \A i \in 1..m[k] : lev[k][i] \in Offsets /\ link'[lev[k][i]] = lev[k][i - 1]
                      /\ \A i, j \in 1..m[k] : lev[k][i] = lev[k][j] => i = j
    BY DEF Linked
  <2>1. 1..m[k] \subseteq 1..n[k]
    BY <1>3
  <2>2. /\ lev[k][0] = EMPTY /\ head[k].offset = lev[k][n[k]]
        /\ \A i \in 1..n[k] : lev[k][i] \in Offsets /\ link[lev[k][i]] = lev[k][i - 1]
        /\ \A i, j \in 1..n[k] : lev[k][i] = lev[k][j] => i = j
    BY <1>1 DEF Linked
  <2>3. head'[k].offset = lev[k][m[k]]
    BY <1>3, <2>2
  <2> QED
    BY <2>1, <2>2, <2>3
<1>5. \A h : h \in FreeHomes(FreeOf(n, lev)) <=>
         \E k \in Lists : \E i \in 1..n[k] : h = <<"free", k, lev[k][i], ChunkSize(k)>>
  BY DEF FreeHomes, FreeOf
<1>6. \A h : h \in FreeHomes(FreeOf(m, lev))' <=>
         \E k \in Lists : \E i \in 1..m[k] : h = <<"free", k, lev[k][i], ChunkSize(k)>>
  BY DEF FreeHomes, FreeOf
<1>7. \A i, j \in 1..n[l] : lev[l][i] = lev[l][j] => i = j
  BY <1>1 DEF Linked
<1> DEFINE P(k, i) == <<"free", k, lev[k][i], ChunkSize(k)>>
<1>8. /\ \A k \in Lists \ {l} : \A i : P(k, i) # P(l, n[l])
      /\ \A i \in 1..n[l] : P(l, i) = P(l, n[l]) => i = n[l]
  BY <1>7
<1>9. /\ \A k \in Lists \ {l} : 1..m[k] = 1..n[k]
      /\ 1..m[l] = 1..n[l] \ {n[l]}
  BY <1>2, <1>3
<1> HIDE DEF P
<1>10. FreeHomes(FreeOf(m, lev))' = FreeHomes(FreeOf(n, lev)) \ {P(l, n[l])}
  <2>1. \A h : h \in FreeHomes(FreeOf(n, lev)) <=> \E k \in Lists : \E i \in 1..n[k] : h = P(k, i)
    BY <1>5 DEF P
  <2>2. \A h : h \in FreeHomes(FreeOf(m, lev))' <=> \E k \in Lists : \E i \in 1..m[k] : h = P(k, i)
    BY <1>6 DEF P
  <2>f. PICK F, E : F = FreeHomes(FreeOf(n, lev)) /\ E = FreeHomes(FreeOf(m, lev))'
    OBVIOUS
  <2>3. ASSUME NEW h PROVE h \in E <=> h \in F /\ h # P(l, n[l])
    <3>1. ASSUME h \in E PROVE h \in F /\ h # P(l, n[l])
      <4>1. PICK k \in Lists : \E i \in 1..m[k] : h = P(k, i)
        BY <2>2, <2>f, <3>1
      <4>i. PICK i \in 1..m[k] : h = P(k, i)
        BY <4>1
      <4>2. i \in 1..n[k] /\ P(k, i) # P(l, n[l])
        BY <1>8, <1>9
      <4> QED
        BY <2>1, <2>f, <4>i, <4>2
    <3>2. ASSUME h \in F, h # P(l, n[l]) PROVE h \in E
      <4>1. PICK k \in Lists : \E i \in 1..n[k] : h = P(k, i)
        BY <2>1, <2>f, <3>2
      <4>i. PICK i \in 1..n[k] : h = P(k, i)
        BY <4>1
      <4>2. i \in 1..m[k]
        BY <1>9, <3>2, <4>i
      <4> QED
        BY <2>2, <2>f, <4>i, <4>2
    <3> QED
      BY <3>1, <3>2
  <2>4. E = F \ {P(l, n[l])}
    BY <2>3
  <2> QED
    BY <2>4, <2>f
<1> QED
  BY <1>1, <1>3, <1>4, <1>10, <1>m DEF P

\* A thread that had no chains has some.
LEMMA ChainsCome ==
  ASSUME NEW t \in Threads, NEW q, pushes[t] = <<>>, pushes'[t] = q,
         \A u \in Threads \ {t} : pushes'[u] = pushes[u]
  PROVE  \A h : h \in ChainHomes' <=>
           h \in ChainHomes \/ \E i \in DOMAIN q : h \in HomesOfChain(t, q[i])
<1>1. Chains(t) = {} /\ Chains(t)' = {q[i] : i \in DOMAIN q}
      /\ \A u \in Threads \ {t} : Chains(u)' = Chains(u)
  BY DEF Chains
<1>2. \A h : h \in ChainHomes' <=> \E u \in Threads : \E p \in Chains(u)' : h \in HomesOfChain(u, p)
  BY DEF ChainHomes, HomesOfChain
<1> HIDE DEF HomesOfChain, Chains
<1> QED
  BY <1>1, <1>2, ChainHomesAre

\* The exchange of anv_free_list_pop succeeds.
LEMMA PopTakesOK ==
  ASSUME 3 * MaxOps < CountRange, StateInv, BlockInv', NEW n, NEW lev, HeapOK(n, lev),
         NEW t \in Threads, PopSwap(t), head[at[t]] = cur[t]
  PROVE  StateInv' /\ \E m : HeapOK(m, lev)'
<1>b. PICK l, w, o : l = at[t] /\ w = want[t] /\ o = cur[t].offset
  OBVIOUS
<1>1. /\ pc[t] = "popcas"
      /\ head' = [head EXCEPT ![l] = [offset |-> nxt[t], count |-> Bump(@)]]
      /\ chunk' = [chunk EXCEPT ![t] = o]
      /\ IF l = w THEN pc' = [pc EXCEPT ![t] = "done"] /\ pushes' = pushes
         ELSE pc' = [pc EXCEPT ![t] = "push"] /\ pushes' = [pushes EXCEPT ![t] = Split(o, l, w)]
      /\ UNCHANGED <<bvars, link, fixed, want, at, held, ops>>
  BY <1>b DEF PopSwap, Go
<1>2. StateTypeOK /\ BlockInv /\ MemoryBound
  BY DEF StateInv
<1>3. /\ l \in Lists /\ w \in Lists /\ n[l] \in Nat /\ n[l] - 1 \in Nat
      /\ n[l] \in 1..n[l] /\ o = lev[l][n[l]] /\ nxt[t] = lev[l][n[l] - 1]
      /\ o \in Offsets /\ o \in Int /\ o # EMPTY
      /\ pushes[t] = <<>> /\ chunk[t] = EMPTY
      /\ l # w => l \in Buckets /\ w \in Buckets /\ w < l
      /\ <<"free", l, o, ChunkSize(l)>> \in HomesWith(FreeOf(n, lev))
  BY <1>1, <1>b, PopFacts
<1>q. PICK q : q = IF l = w THEN <<>> ELSE Split(o, l, w)
  OBVIOUS
<1>g. PICK g, r : g = <<"got", t, o, ChunkSize(w)>> /\ r = <<"free", l, o, ChunkSize(l)>>
  OBVIOUS
<1>N. PICK N : N = {g} \cup UNION {HomesOfChain(t, q[i]) : i \in DOMAIN q}
  OBVIOUS
<1>4. \A h : h \in N <=> h = g \/ \E i \in DOMAIN q : h \in HomesOfChain(t, q[i])
  BY <1>N
<1>5. pushes' = [pushes EXCEPT ![t] = q]
  BY <1>1, <1>2, <1>3, <1>q DEF StateTypeOK
<1>x. PICK x \in {"done", "push"} : pc' = [pc EXCEPT ![t] = x] /\ (x = "push" <=> l # w)
  BY <1>1
<1>6. /\ q \in Seq(ChainType) /\ Len(q) <= 2 /\ (l # w <=> q # <<>>)
      /\ \A i, j \in DOMAIN q : q[i].list = q[j].list => i = j
      /\ \A a : In(a, r) <=> (\E h \in N : In(a, h))
      /\ \A f, h \in N : \A a : In(a, f) /\ In(a, h) => f = h
  <2>1. CASE l = w
    <3>1. q = <<>> /\ DOMAIN q = {} /\ Len(q) = 0 /\ q \in Seq(ChainType)
      BY <1>q, <2>1
    <3>2. N = {g}
      BY <1>4, <3>1
    <3>3. \A a : In(a, r) <=> In(a, g)
      BY <1>g, <2>1 DEF In
    <3> HIDE DEF In
    <3> QED
      BY <2>1, <3>1, <3>2, <3>3
  <2>2. CASE l # w
    <3>1. w \in Buckets /\ l \in Buckets /\ w < l /\ q = Split(o, l, w) /\ o \in Int
      BY <1>3, <1>q, <2>2
    <3>4. /\ q = Split(o, l, w) /\ N = SplitInto(t, o, l, w)
          /\ r = <<"free", l, o, ChunkSize(l)>>
      BY <1>N, <1>g, <3>1 DEF SplitInto
    <3>2. /\ q \in Seq(ChainType) /\ q # <<>> /\ Len(q) \in 1..2
          /\ \A i, j \in DOMAIN q : q[i].list = q[j].list => i = j
          /\ \A a : In(a, r) <=> (\E h \in N : In(a, h))
          /\ \A f, h \in N : \A a : In(a, f) /\ In(a, h) => f = h
      BY <3>1, <3>4, SplitHomes
    <3>3. Len(q) <= 2
      BY <3>2
    <3> QED
      BY <2>2, <3>2, <3>3, Zenon
  <2> QED
    BY <2>1, <2>2
<1>7. StateInv'
  BY <1>5, <1>6, <1>x, PopRest
<1>m. PICK m : m = Popped(n, l)
  OBVIOUS
<1>8. /\ m \in [Lists -> Nat] /\ lev \in [Lists -> [Nat -> Offsets \cup {EMPTY}]]
      /\ Linked(m, lev)'
      /\ FreeHomes(FreeOf(m, lev))' = FreeHomes(FreeOf(n, lev)) \ {r}
  <2>1. /\ head'[l].offset = lev[l][n[l] - 1]
        /\ \A k \in Lists \ {l} : head'[k].offset = head[k].offset
    BY <1>1, <1>2, <1>3 DEF StateTypeOK
  <2>2. r = <<"free", l, lev[l][n[l]], ChunkSize(l)>> /\ l \in Lists /\ n[l] \in 1..n[l]
    BY <1>3, <1>g
  <2>3. UNCHANGED link
    BY <1>1
  <2> QED
    BY <1>m, <2>1, <2>2, <2>3, PopLists
<1>9. /\ GotHomes' = GotHomes \cup {g}
      /\ \A h : h \in ChainHomes' <=>
           h \in ChainHomes \/ \E i \in DOMAIN q : h \in HomesOfChain(t, q[i])
  <2>1. /\ chunk'[t] = o /\ pushes'[t] = q
        /\ \A u \in Threads \ {t} : chunk'[u] = chunk[u] /\ want'[u] = want[u] /\ pushes'[u] = pushes[u]
    BY <1>1, <1>2, <1>5 DEF StateTypeOK
  <2>2. want'[t] = w
    BY <1>1, <1>b
  <2> QED
    BY <1>2, <1>3, <1>g, <2>1, <2>2, GotMoves, ChainsCome
<1>10. /\ ClientHomes' = ClientHomes /\ RestHomes' = RestHomes /\ BlockHomes' = BlockHomes
       /\ Used' = Used
  BY <1>1, PoolSame DEF ClientHomes, RestHomes
<1>h. PICK H, G : H = HomesWith(FreeOf(n, lev)) /\ G = HomesWith(FreeOf(m, lev))'
  OBVIOUS
<1>11. G = (H \ {r}) \cup N
  <2>1. r \notin ClientHomes \cup RestHomes \cup GotHomes \cup BlockHomes \cup ChainHomes
    BY <1>g, Kinds
  <2>2. \A h : h \in H <=> \/ h \in ClientHomes \/ h \in FreeHomes(FreeOf(n, lev)) \/ h \in RestHomes
                           \/ h \in GotHomes \/ h \in BlockHomes \/ h \in ChainHomes
    BY <1>h DEF HomesWith
  <2>3. \A h : h \in G <=> \/ h \in ClientHomes \/ h \in FreeHomes(FreeOf(n, lev)) \ {r} \/ h \in RestHomes
                           \/ h \in GotHomes \cup {g} \/ h \in BlockHomes \/ h \in ChainHomes'
    BY <1>8, <1>9, <1>10, <1>h DEF HomesWith
  <2>4. \A h : h \in G <=> (h \in H /\ h # r) \/ h \in N
    BY <1>4, <1>9, <2>1, <2>2, <2>3
  <2> QED
    BY <2>4
<1>12. Partition(G, Bytes')
  <2>R. PICK R : R = {r}
    OBVIOUS
  <2>1. \A a : (\E y \in R : In(a, y)) <=> (\E h \in N : In(a, h))
    BY <1>6, <2>R, Zenon
  <2>2. \A y, h \in N : \A a : In(a, y) /\ In(a, h) => y = h
    BY <1>6, Zenon
  <2>3. Used' = Used
    BY <1>10
  <2>4. R \subseteq H /\ G = (H \ R) \cup N
    BY <1>3, <1>11, <1>g, <1>h, <2>R
  <2>5. Partition(H, Bytes)
    BY <1>h DEF HeapOK
  <2> QED
    BY <2>1, <2>2, <2>3, <2>4, <2>5, HomesMove, Zenon
<1>13. HeapOK(m, lev)'
  BY <1>8, <1>h, <1>12, HeapFrom
<1> QED
  BY <1>7, <1>13

-----------------------------------------------------------------------------
(* The exchange of anv_free_list_push *)

\* The chains that are left when the first has been pushed.
LEMMA TailChains ==
  ASSUME NEW q \in Seq(ChainType), q # <<>>,
         \A i, j \in DOMAIN q : q[i].list = q[j].list => i = j
  PROVE  /\ Tail(q) \in Seq(ChainType) /\ Len(q) \in Nat /\ Len(q) >= 1
         /\ Len(Tail(q)) = Len(q) - 1
         /\ \A i, j \in DOMAIN Tail(q) : Tail(q)[i].list = Tail(q)[j].list => i = j
         /\ {Tail(q)[i] : i \in DOMAIN Tail(q)} = {q[i] : i \in DOMAIN q} \ {Head(q)}
         /\ \A c \in {Tail(q)[i] : i \in DOMAIN Tail(q)} : c.list # Head(q).list
<1>1. /\ Len(q) \in Nat /\ Len(q) >= 1 /\ DOMAIN q = 1..Len(q)
      /\ Tail(q) \in Seq(ChainType) /\ Len(Tail(q)) = Len(q) - 1
      /\ DOMAIN Tail(q) = 1..Len(q)-1 /\ Head(q) = q[1]
  OBVIOUS
<1>2. \A i \in DOMAIN Tail(q) : Tail(q)[i] = q[i + 1] /\ i + 1 \in DOMAIN q /\ i \in Nat
  BY <1>1
<1>3. \A i, j \in DOMAIN Tail(q) : Tail(q)[i].list = Tail(q)[j].list => i = j
  <2> SUFFICES ASSUME NEW i \in DOMAIN Tail(q), NEW j \in DOMAIN Tail(q),
                      Tail(q)[i].list = Tail(q)[j].list
               PROVE  i = j
    OBVIOUS
  <2>1. i + 1 = j + 1 /\ i \in Nat /\ j \in Nat
    BY <1>2
  <2> QED
    BY <2>1
<1>4. \A i \in DOMAIN q \ {1} : i - 1 \in DOMAIN Tail(q) /\ Tail(q)[i - 1] = q[i]
  BY <1>1
<1>5. \A i \in DOMAIN Tail(q) : i + 1 # 1 /\ 1 \in DOMAIN q
  BY <1>1
<1>6. \A c \in {Tail(q)[i] : i \in DOMAIN Tail(q)} : c.list # Head(q).list
  BY <1>1, <1>2, <1>5
<1>7. {Tail(q)[i] : i \in DOMAIN Tail(q)} = {q[i] : i \in DOMAIN q} \ {Head(q)}
  <2>1. ASSUME NEW c \in {Tail(q)[i] : i \in DOMAIN Tail(q)}
        PROVE  c \in {q[i] : i \in DOMAIN q} \ {Head(q)}
    BY <1>2, <1>6, <2>1
  <2>2. ASSUME NEW i \in DOMAIN q, q[i] # Head(q)
        PROVE  q[i] \in {Tail(q)[j] : j \in DOMAIN Tail(q)}
    BY <1>1, <1>4, <2>2
  <2> QED
    BY <2>1, <2>2
<1> QED
  BY <1>1, <1>3, <1>6, <1>7

\* The first chain of thread t goes.
LEMMA ChainGoes ==
  ASSUME NEW t \in Threads, pushes[t] \in Seq(ChainType), pushes[t] # <<>>,
         \A i, j \in DOMAIN pushes[t] : pushes[t][i].list = pushes[t][j].list => i = j,
         pushes'[t] = Tail(pushes[t]), \A u \in Threads \ {t} : pushes'[u] = pushes[u]
  PROVE  ChainHomes' = ChainHomes \ HomesOfChain(t, Head(pushes[t]))
<1>p. PICK p, q : p = Head(pushes[t]) /\ q = pushes[t]
  OBVIOUS
<1>1. /\ Chains(t)' = Chains(t) \ {p} /\ p \in Chains(t)
      /\ \A c \in Chains(t)' : c.list # p.list
      /\ \A u \in Threads \ {t} : Chains(u)' = Chains(u)
  <2>1. Chains(t) = {q[i] : i \in DOMAIN q} /\ Chains(t)' = {Tail(q)[i] : i \in DOMAIN Tail(q)}
        /\ \A u \in Threads \ {t} : Chains(u)' = Chains(u)
    BY <1>p DEF Chains
  <2>2. p \in Chains(t)
    BY <1>p, <2>1, HeadChain
  <2>3. /\ {Tail(q)[i] : i \in DOMAIN Tail(q)} = {q[i] : i \in DOMAIN q} \ {Head(q)}
        /\ \A c \in {Tail(q)[i] : i \in DOMAIN Tail(q)} : c.list # Head(q).list
    <3>1. q \in Seq(ChainType) /\ q # <<>> /\ \A i, j \in DOMAIN q : q[i].list = q[j].list => i = j
      BY <1>p
    <3> QED
      BY <3>1, TailChains
  <2> QED
    BY <1>p, <2>1, <2>2, <2>3
<1>2. \A h : h \in ChainHomes' <=> \E u \in Threads : \E c \in Chains(u)' : h \in HomesOfChain(u, c)
  BY DEF ChainHomes, HomesOfChain
<1>3. \A u : \A c : \A h \in HomesOfChain(u, c) : h[2] = <<u, c.list>>
  BY DEF HomesOfChain
<1>4. \A u \in Threads : \A c \in Chains(u)' : \A h \in HomesOfChain(u, c) : h \notin HomesOfChain(t, p)
  <2> SUFFICES ASSUME NEW u \in Threads, NEW c \in Chains(u)', NEW h \in HomesOfChain(u, c),
                      h \in HomesOfChain(t, p)
               PROVE  FALSE
    OBVIOUS
  <2>1. <<u, c.list>> = <<t, p.list>>
    BY <1>3
  <2>2. u = t /\ c.list = p.list
    BY <2>1
  <2> QED
    BY <1>1, <2>2
<1> HIDE DEF HomesOfChain, Chains
<1>5. \A h : h \in ChainHomes' <=> h \in ChainHomes /\ h \notin HomesOfChain(t, p)
  BY <1>1, <1>2, <1>4, ChainHomesAre
<1> QED
  BY <1>5, <1>p

\* What is known of the chain that an exchange of anv_free_list_push is about.
LEMMA PushFacts ==
  ASSUME StateInv, NEW n, NEW lev, HeapOK(n, lev), NEW t \in Threads, pc[t] = "pushcas",
         NEW p, p = Head(pushes[t])
  PROVE  /\ pushes[t] \in Seq(ChainType) /\ pushes[t] # <<>> /\ p \in ChainType /\ p \in Chains(t)
         /\ \A i, j \in DOMAIN pushes[t] : pushes[t][i].list = pushes[t][j].list => i = j
         /\ p.list \in Lists /\ p.offset \in Int /\ p.count \in Nat \ {0}
         /\ p.offset \in Offsets /\ p.offset \in ChainOf(p) /\ TailOf(p) \in ChainOf(p)
         /\ ChunkSize(p.list) \in Nat \ {0} /\ bpc[t] = "idle"
         /\ \A o \in ChainOf(p) \ {TailOf(p)} : link[o] = o + ChunkSize(p.list)
         /\ link[TailOf(p)] = cur[t].offset
<1>1. StateTypeOK /\ BlockInv /\ MemoryBound /\ CallMatches(t) /\ PushMatches(t) /\ ChainLinked(t)
  BY DEF StateInv, ThreadOK
<1>2. /\ pushes[t] \in Seq(ChainType) /\ pushes[t] # <<>>
      /\ \A i, j \in DOMAIN pushes[t] : pushes[t][i].list = pushes[t][j].list => i = j
      /\ bpc[t] = "idle"
  BY <1>1 DEF StateTypeOK, PushMatches, Pushing, CallMatches
<1>3. p \in ChainType /\ p \in Chains(t) /\ p.list \in Lists /\ p.offset \in Int /\ p.count \in Nat \ {0}
  BY <1>2, HeadChain DEF Chains
<1>4. /\ ChunkSize(p.list) \in Nat \ {0} /\ TailOf(p) \in ChainOf(p)
      /\ \A o \in ChainOf(p) : o \in Offsets
  BY <1>1, <1>3, ChainFacts
<1>5. p.offset \in ChainOf(p)
  <2>1. 0 \in 0..p.count-1 /\ p.offset + 0 * ChunkSize(p.list) = p.offset
    BY <1>3, <1>4
  <2> QED
    BY <2>1 DEF ChainOf
<1>6. /\ \A o \in ChainOf(p) \ {TailOf(p)} : link[o] = o + ChunkSize(p.list)
      /\ link[TailOf(p)] = cur[t].offset
  BY <1>1 DEF ChainLinked
<1> QED
  BY <1>2, <1>3, <1>4, <1>5, <1>6

\* A successful exchange of anv_free_list_push, but for the homes.
LEMMA PushRest ==
  ASSUME 3 * MaxOps < CountRange, StateInv, BlockInv', NEW n, NEW lev, HeapOK(n, lev),
         NEW t \in Threads, PushSwap(t), head[Head(pushes[t]).list] = cur[t]
  PROVE  StateInv'
<1>b. PICK p, l, q : p = Head(pushes[t]) /\ l = p.list /\ q = Tail(pushes[t])
  OBVIOUS
<1>x. PICK x : x = IF q # <<>> THEN "push" ELSE IF chunk[t] # EMPTY THEN "done" ELSE "idle"
  OBVIOUS
<1>1. /\ pc[t] = "pushcas"
      /\ head' = [head EXCEPT ![l] = [offset |-> p.offset, count |-> Bump(@)]]
      /\ pushes' = [pushes EXCEPT ![t] = Tail(@)]
      /\ cur' = [cur EXCEPT ![t] = <<>>] /\ pc' = [pc EXCEPT ![t] = x]
      /\ UNCHANGED <<bvars, link, fixed, want, at, nxt, chunk, held, ops>>
  BY <1>b, <1>x DEF PushSwap, Read, Go
<1>2. StateTypeOK /\ ThreadOK(t) /\ BlockInv /\ MemoryBound /\ CountsOK /\ BucketOK
  BY DEF StateInv
<1>3. /\ pushes[t] \in Seq(ChainType) /\ pushes[t] # <<>>
      /\ \A i, j \in DOMAIN pushes[t] : pushes[t][i].list = pushes[t][j].list => i = j
      /\ l \in Lists /\ p.offset \in Offsets /\ bpc[t] = "idle"
  BY <1>1, <1>b, PushFacts
<1>4. /\ q \in Seq(ChainType) /\ Len(pushes[t]) \in Nat /\ Len(pushes[t]) >= 1
      /\ Len(q) = Len(pushes[t]) - 1
      /\ \A i, j \in DOMAIN q : q[i].list = q[j].list => i = j
  BY <1>3, <1>b, TailChains
<1>5. /\ head'[l].count = Bump(head[l]) /\ head'[l].offset = p.offset
      /\ \A k \in Lists \ {l} : head'[k] = head[k]
  BY <1>1, <1>2, <1>3 DEF StateTypeOK
<1>6. /\ \A u \in Threads \ {t} : /\ pc'[u] = pc[u] /\ cur'[u] = cur[u]
                                  /\ pushes'[u] = pushes[u]
      /\ pc'[t] = x /\ pushes'[t] = q /\ chunk'[t] = chunk[t]
  BY <1>1, <1>2, <1>b DEF StateTypeOK
<1>7. x \in {"push", "done", "idle"} /\ (x = "push" <=> q # <<>>)
      /\ (x = "done" => chunk[t] # EMPTY) /\ (chunk[t] # EMPTY => x # "idle")
  BY <1>x
<1>8. CountsOK' /\ head[l].count \in Nat /\ head'[l].count = head[l].count + 1
      /\ head'[l].count < CountRange
  <2>1. Swaps(t) = Len(pushes[t]) /\ Swaps(t)' = Len(q)
    BY <1>1, <1>6, <1>7 DEF Swaps, Popping
  <2>2. \A u \in Threads \ {t} : Swaps(u)' = Swaps(u)
    BY <1>6 DEF Swaps, Popping
  <2>3. Swaps(t) \in Nat /\ Swaps(t) >= 1 /\ Swaps(t)' \in Nat /\ Swaps(t)' <= Swaps(t) - 1
    BY <1>4, <2>1
  <2> QED
    BY <1>1, <1>2, <1>3, <1>5, <2>2, <2>3, SpendToken
<1>9. StateTypeOK'
  <2>1. head' \in [Lists -> Heads]
    <3>1. head'[l] \in Heads
      <4>1. Bump(head[l]) \in 0..CountRange-1
        BY <1>5, <1>8, AnvStatePoolAssumption
      <4>2. head'[l] = [offset |-> p.offset, count |-> Bump(head[l])]
        BY <1>1, <1>2, <1>3 DEF StateTypeOK
      <4> QED
        BY <1>3, <4>1, <4>2 DEF Heads
    <3>2. head \in [Lists -> Heads]
      BY <1>2 DEF StateTypeOK
    <3>3. head' = [head EXCEPT ![l] = head'[l]]
      BY <1>1, <1>3, <3>2
    <3> QED
      BY <3>1, <3>2, <3>3
  <2>2. x \in StatePCs
    BY <1>7 DEF StatePCs
  <2>3. pushes' \in [Threads -> Seq(ChainType)]
    <3>1. pushes' = [pushes EXCEPT ![t] = q]
      BY <1>1, <1>b
    <3> QED
      BY <1>2, <1>4, <3>1 DEF StateTypeOK
  <2> QED
    BY <1>1, <1>2, <2>1, <2>2, <2>3 DEF StateTypeOK
<1>10. Others(t) /\ LinksKept(t)
  BY <1>1, <1>6, PoolSame DEF Others, LinksKept
<1>11. HeadsCount
  <2>1. head'[l].count > head[l].count
    BY <1>8
  <2> QED
    BY <1>5, <2>1 DEF HeadsCount
<1>12. ThreadOK(t)'
  <2>1. PushMatches(t)'
    <3>1. Pushing(t)' <=> pushes'[t] # <<>>
      BY <1>6, <1>7 DEF Pushing
    <3>2. \A i, j \in DOMAIN pushes'[t] : pushes'[t][i].list = pushes'[t][j].list => i = j
      BY <1>4, <1>6
    <3>3. /\ chunk'[t] # EMPTY => pc'[t] \in {"push", "link", "pushcas", "wake", "done"}
          /\ pc'[t] \in {"wake", "done"} => chunk'[t] # EMPTY
      BY <1>6, <1>7
    <3> QED
      BY <3>1, <3>2, <3>3 DEF PushMatches
  <2>2. CallMatches(t)' /\ PopMatches(t)' /\ ReadMatches(t)' /\ ChainLinked(t)'
    BY <1>1, <1>3, <1>6, <1>7, PoolSame
    DEF CallMatches, PopMatches, Popping, ReadMatches, HasRead, ChainLinked
  <2> QED
    BY <2>1, <2>2 DEF ThreadOK
<1>13. \A u \in Threads : ThreadOK(u)'
  BY <1>2, <1>9, <1>10, <1>11, <1>12, Frame DEF StateInv
<1>14. BucketOK'
  <2>1. \A u \in Threads : Refilling(u)' => Refilling(u) /\ want'[u] = want[u]
    BY <1>1, <1>6, <1>7 DEF Refilling, Small
  <2> QED
    BY <1>1, <1>2, <2>1, KeepBucket
<1>15. MemoryBound'
  <2>1. Pending' \subseteq Pending
    BY <1>1, <1>6, <1>7, PoolSame DEF Pending, PendingPCs
  <2> QED
    BY <1>1, <1>2, <2>1, PoolSame, KeepMemory
<1> QED
  BY <1>8, <1>9, <1>13, <1>14, <1>15 DEF StateInv

\* The k-th of the chunks of chain p, when they lie on top of b others.
Place(b, p, k) == p.offset + ((b + p.count) - k) * ChunkSize(p.list)

\* The chain is stacked with its first chunk on top.
LEMMA Places ==
  ASSUME NEW p \in ChainType, NEW b \in Nat
  PROVE  /\ b + p.count \in Nat
         /\ b + p.count \in b+1..b+p.count /\ Place(b, p, b + p.count) = p.offset
         /\ b + 1 \in b+1..b+p.count /\ Place(b, p, b + 1) = TailOf(p)
         /\ \A k \in b+1..b+p.count : Place(b, p, k) \in ChainOf(p) /\ Place(b, p, k) \in Int
         /\ \A o \in ChainOf(p) : \E k \in b+1..b+p.count : o = Place(b, p, k)
         /\ \A j, k \in b+1..b+p.count : Place(b, p, j) = Place(b, p, k) => j = k
         /\ \A k \in b+1..b+p.count : k # b + 1 =>
              /\ k - 1 \in b+1..b+p.count /\ Place(b, p, k) # TailOf(p)
              /\ Place(b, p, k - 1) = Place(b, p, k) + ChunkSize(p.list)
<1>s. PICK s, c, o : s = ChunkSize(p.list) /\ c = p.count /\ o = p.offset
  OBVIOUS
<1>1. s \in Nat \ {0} /\ c \in Nat \ {0} /\ o \in Int
  BY <1>s, SizeFacts DEF ChainType
<1>2. /\ \A i \in 0..c-1 : i * s \in Nat /\ o + i * s \in Int
      /\ \A i, j \in 0..c-1 : o + i * s = o + j * s => i = j
  <2>1. /\ \A i \in 0..c-1 : /\ o <= o + i * s /\ (o + i * s) + s <= o + c * s
                             /\ i * s \in Nat /\ o + i * s \in Int
        /\ \A i, j \in 0..c-1 : \A a \in Int :
              /\ o + i * s <= a /\ a < (o + i * s) + s
              /\ o + j * s <= a /\ a < (o + j * s) + s
              => i = j
    BY <1>1, Pieces
  <2>2. ASSUME NEW i \in 0..c-1, NEW j \in 0..c-1, o + i * s = o + j * s PROVE i = j
    <3>a. PICK a : a = o + i * s
      OBVIOUS
    <3>1. a \in Int /\ a = o + i * s /\ a = o + j * s
      BY <2>1, <2>2, <3>a
    <3>2. a <= a /\ a < a + s
      BY <1>1, <3>1
    <3> QED
      BY <2>1, <3>1, <3>2
  <2> QED
    BY <2>1, <2>2
<1>3. /\ b + c \in Nat /\ b + c \in b+1..b+c /\ b + 1 \in b+1..b+c /\ (b + c) - (b + c) = 0
      /\ (b + c) - (b + 1) = c - 1 /\ 0 \in 0..c-1 /\ c - 1 \in 0..c-1
      /\ \A k \in b+1..b+c : (b + c) - k \in 0..c-1
      /\ \A i \in 0..c-1 : (b + c) - i \in b+1..b+c /\ (b + c) - ((b + c) - i) = i
      /\ \A j, k \in b+1..b+c : (b + c) - j = (b + c) - k => j = k
      /\ \A k \in b+1..b+c : k # b + 1 =>
           k - 1 \in b+1..b+c /\ (b + c) - k # c - 1 /\ (b + c) - (k - 1) = ((b + c) - k) + 1
  BY <1>1
<1>4. \A k : Place(b, p, k) = o + ((b + c) - k) * s
  BY <1>s DEF Place
<1>5. ChainOf(p) = {o + i * s : i \in 0..c-1} /\ TailOf(p) = o + (c - 1) * s
  BY <1>s DEF ChainOf, TailOf
<1>6. Place(b, p, b + c) = o /\ Place(b, p, b + 1) = TailOf(p)
  <2>1. Place(b, p, b + c) = o + 0 * s
    BY <1>3, <1>4
  <2>2. 0 * s = 0 /\ o + 0 = o
    BY <1>1
  <2>3. Place(b, p, b + 1) = o + (c - 1) * s
    BY <1>3, <1>4
  <2> QED
    BY <1>5, <2>1, <2>2, <2>3
<1>7. \A k \in b+1..b+c : Place(b, p, k) \in ChainOf(p) /\ Place(b, p, k) \in Int
  <2> TAKE k \in b+1..b+c
  <2>i. PICK i \in 0..c-1 : i = (b + c) - k
    BY <1>3
  <2>1. Place(b, p, k) = o + i * s
    BY <1>4, <2>i
  <2> QED
    BY <1>2, <1>5, <2>1
<1>8. \A x \in ChainOf(p) : \E k \in b+1..b+c : x = Place(b, p, k)
  <2> TAKE x \in ChainOf(p)
  <2>i. PICK i \in 0..c-1 : x = o + i * s
    BY <1>5
  <2>k. PICK k \in b+1..b+c : k = (b + c) - i /\ (b + c) - k = i
    BY <1>3
  <2>1. x = Place(b, p, k)
    BY <1>4, <2>i, <2>k
  <2> QED
    BY <2>1
<1>9. \A j, k \in b+1..b+c : Place(b, p, j) = Place(b, p, k) => j = k
  <2> SUFFICES ASSUME NEW j \in b+1..b+c, NEW k \in b+1..b+c, Place(b, p, j) = Place(b, p, k)
               PROVE  j = k
    OBVIOUS
  <2>i. PICK i \in 0..c-1, h \in 0..c-1 : i = (b + c) - j /\ h = (b + c) - k
    BY <1>3
  <2>1. o + i * s = o + h * s
    BY <1>4, <2>i
  <2>2. i = h
    BY <1>2, <2>1
  <2> QED
    <3>1. j \in Int /\ k \in Int /\ b + c \in Int
      BY <1>3
    <3>2. (b + c) - j = (b + c) - k
      BY <2>2, <2>i
    <3> QED
      BY <3>1, <3>2
<1>10. \A k \in b+1..b+c : k # b + 1 =>
          /\ k - 1 \in b+1..b+c /\ Place(b, p, k) # TailOf(p)
          /\ Place(b, p, k - 1) = Place(b, p, k) + s
  <2> SUFFICES ASSUME NEW k \in b+1..b+c, k # b + 1
               PROVE  /\ k - 1 \in b+1..b+c /\ Place(b, p, k) # TailOf(p)
                      /\ Place(b, p, k - 1) = Place(b, p, k) + s
    OBVIOUS
  <2>i. PICK i \in 0..c-1 : i = (b + c) - k
    BY <1>3
  <2>1. k - 1 \in b+1..b+c /\ i # c - 1 /\ (b + c) - (k - 1) = i + 1
    BY <1>3, <2>i
  <2>2. Place(b, p, k) = o + i * s /\ Place(b, p, k - 1) = o + (i + 1) * s
    BY <1>4, <2>1, <2>i
  <2>3. Place(b, p, k) # TailOf(p)
    BY <1>2, <1>3, <1>5, <2>1, <2>2
  <2>4. (i + 1) * s = i * s + s /\ i * s \in Nat
    <3>1. i \in Nat /\ i <= i /\ s \in Nat
      BY <1>1
    <3> QED
      BY <3>1, Times
  <2>5. o + (i + 1) * s = (o + i * s) + s
    <3>y. PICK y : y = i * s
      OBVIOUS
    <3>1. y \in Nat /\ (i + 1) * s = y + s
      BY <2>4, <3>y
    <3>2. o + (y + s) = (o + y) + s
      BY <1>1, <3>1
    <3> QED
      BY <3>1, <3>2, <3>y
  <2> QED
    BY <2>1, <2>2, <2>3, <2>5
<1> QED
  BY <1>s, <1>3, <1>6, <1>7, <1>8, <1>9, <1>10

\* The chain p on top of its list.
Pushed(n, p) == [n EXCEPT ![p.list] = n[p.list] + p.count]
Stacked(n, lev, p) ==
  [lev EXCEPT ![p.list] = [k \in Nat |->
     IF k \in n[p.list]+1..n[p.list]+p.count THEN Place(n[p.list], p, k) ELSE lev[p.list][k]]]

\* The chunks of a chain are in no list yet.
LEMMA ChainNotFree ==
  ASSUME BlockInv, MemoryBound, StateTypeOK, NEW n, NEW lev, HeapOK(n, lev),
         NEW t \in Threads, NEW p \in Chains(t), NEW o \in ChainOf(p),
         NEW l \in Lists, NEW k \in 1..n[l]
  PROVE  lev[l][k] # o
<1> SUFFICES ASSUME lev[l][k] = o PROVE FALSE
  OBVIOUS
<1>h. PICK H, f, g : /\ H = HomesWith(FreeOf(n, lev)) /\ f = <<"free", l, o, ChunkSize(l)>>
                     /\ g = <<"chain", <<t, p.list>>, o, ChunkSize(p.list)>>
  OBVIOUS
<1>1. g \in H /\ In(o, g) /\ o \in Int
  BY <1>h, ChainFacts
<1>2. f \in H
  BY <1>h, ListFacts
<1>3. In(o, f)
  <2>1. ChunkSize(l) \in Nat \ {0}
    BY SizeFacts
  <2> QED
    BY <1>1, <1>h, <2>1, HomeStart
<1>4. Partition(H, Bytes)
  BY <1>h DEF HeapOK
<1>5. f = g
  BY <1>1, <1>2, <1>3, <1>4, Zenon DEF Partition
<1>6. f[1] = "free" /\ g[1] = "chain"
  BY <1>h
<1> QED
  BY <1>5, <1>6

\* The chain is put on top of its list.
LEMMA PushLists ==
  ASSUME BlockInv, MemoryBound, StateTypeOK, NEW n, NEW lev, HeapOK(n, lev),
         NEW t \in Threads, NEW p \in Chains(t), UNCHANGED link,
         head'[p.list].offset = p.offset,
         \A k \in Lists \ {p.list} : head'[k].offset = head[k].offset,
         \A o \in ChainOf(p) \ {TailOf(p)} : link[o] = o + ChunkSize(p.list),
         link[TailOf(p)] = head[p.list].offset
  PROVE  /\ Pushed(n, p) \in [Lists -> Nat]
         /\ Stacked(n, lev, p) \in [Lists -> [Nat -> Offsets \cup {EMPTY}]]
         /\ Linked(Pushed(n, p), Stacked(n, lev, p))'
         /\ FreeHomes(FreeOf(Pushed(n, p), Stacked(n, lev, p)))' =
              FreeHomes(FreeOf(n, lev)) \cup {<<"free", p.list, o, ChunkSize(p.list)>> : o \in ChainOf(p)}
<1>m. PICK m, lv, l, b, c, s : /\ m = Pushed(n, p) /\ lv = Stacked(n, lev, p)
                               /\ l = p.list /\ b = n[p.list] /\ c = p.count /\ s = ChunkSize(p.list)
  OBVIOUS
<1>1. n \in [Lists -> Nat] /\ lev \in [Lists -> [Nat -> Offsets \cup {EMPTY}]] /\ Linked(n, lev)
  BY DEF HeapOK
<1>2. p \in ChainType /\ s \in Nat \ {0} /\ l \in Lists /\ c \in Nat \ {0} /\ b \in Nat
      /\ \A o \in ChainOf(p) : o \in Offsets
  <2>1. p \in ChainType /\ s \in Nat \ {0} /\ \A o \in ChainOf(p) : o \in Offsets
    BY <1>m, ChainFacts
  <2> QED
    BY <1>1, <1>m, <2>1 DEF ChainType
<1>3. /\ b + c \in Nat
      /\ b + c \in b+1..b+c /\ Place(b, p, b + c) = p.offset
      /\ b + 1 \in b+1..b+c /\ Place(b, p, b + 1) = TailOf(p)
      /\ \A k \in b+1..b+c : Place(b, p, k) \in ChainOf(p)
      /\ \A o \in ChainOf(p) : \E k \in b+1..b+c : o = Place(b, p, k)
      /\ \A j, k \in b+1..b+c : Place(b, p, j) = Place(b, p, k) => j = k
      /\ \A k \in b+1..b+c : k # b + 1 =>
           /\ k - 1 \in b+1..b+c /\ Place(b, p, k) # TailOf(p)
           /\ Place(b, p, k - 1) = Place(b, p, k) + s
  <2>1. /\ b + p.count \in Nat
        /\ b + p.count \in b+1..b+p.count /\ Place(b, p, b + p.count) = p.offset
        /\ b + 1 \in b+1..b+p.count /\ Place(b, p, b + 1) = TailOf(p)
        /\ \A k \in b+1..b+p.count : Place(b, p, k) \in ChainOf(p) /\ Place(b, p, k) \in Int
        /\ \A o \in ChainOf(p) : \E k \in b+1..b+p.count : o = Place(b, p, k)
        /\ \A j, k \in b+1..b+p.count : Place(b, p, j) = Place(b, p, k) => j = k
        /\ \A k \in b+1..b+p.count : k # b + 1 =>
             /\ k - 1 \in b+1..b+p.count /\ Place(b, p, k) # TailOf(p)
             /\ Place(b, p, k - 1) = Place(b, p, k) + ChunkSize(p.list)
    BY <1>2, Places
  <2> QED
    BY <1>m, <2>1
<1>4. m \in [Lists -> Nat] /\ m[l] = b + c /\ \A k \in Lists \ {l} : m[k] = n[k]
  BY <1>1, <1>2, <1>3, <1>m DEF Pushed
<1>5. /\ lv \in [Lists -> [Nat -> Offsets \cup {EMPTY}]]
      /\ \A k \in Nat : lv[l][k] = IF k \in b+1..b+c THEN Place(b, p, k) ELSE lev[l][k]
      /\ \A k \in Lists \ {l} : lv[k] = lev[k]
  <2>f. PICK f : f = [k \in Nat |-> IF k \in b+1..b+c THEN Place(b, p, k) ELSE lev[l][k]]
    OBVIOUS
  <2>1. lv = [lev EXCEPT ![l] = f]
    BY <1>m, <2>f DEF Stacked
  <2>2. f \in [Nat -> Offsets \cup {EMPTY}]
    <3>1. lev[l] \in [Nat -> Offsets \cup {EMPTY}]
      BY <1>1, <1>2
    <3>2. \A k \in Nat : (IF k \in b+1..b+c THEN Place(b, p, k) ELSE lev[l][k]) \in Offsets \cup {EMPTY}
      BY <1>2, <1>3, <3>1
    <3> QED
      BY <2>f, <3>2
  <2> QED
    BY <1>1, <1>2, <2>1, <2>2, <2>f
<1>6. /\ \A k \in 0..b : lv[l][k] = lev[l][k]
      /\ \A k \in b+1..b+c : lv[l][k] = Place(b, p, k)
      /\ \A k \in 1..b+c : k \in 1..b \/ k \in b+1..b+c
      /\ 1..b \subseteq 1..b+c /\ b+1..b+c \subseteq 1..b+c
  <2>1. /\ \A k \in 0..b : k \in Nat /\ k \notin b+1..b+c
        /\ \A k \in b+1..b+c : k \in Nat
        /\ \A k \in 1..b+c : k \in 1..b \/ k \in b+1..b+c
        /\ 1..b \subseteq 1..b+c /\ b+1..b+c \subseteq 1..b+c
    BY <1>2
  <2> QED
    BY <1>5, <2>1
<1>7. \A k \in b+1..b+c : \A j \in 1..b : Place(b, p, k) # lev[l][j]
  <2> TAKE k \in b+1..b+c
  <2> TAKE j \in 1..b
  <2>o. PICK o \in ChainOf(p) : o = Place(b, p, k)
    BY <1>3
  <2>1. j \in 1..n[l]
    BY <1>m
  <2>2. lev[l][j] # o
    BY <1>2, <2>1, ChainNotFree
  <2> QED
    BY <2>2, <2>o
<1>8. /\ lev[l][0] = EMPTY /\ head[l].offset = lev[l][b]
      /\ \A i \in 1..b : lev[l][i] \in Offsets /\ link[lev[l][i]] = lev[l][i - 1]
      /\ \A i, j \in 1..b : lev[l][i] = lev[l][j] => i = j
  BY <1>1, <1>2, <1>m DEF Linked
<1>9. Linked(m, lv)'
  <2> SUFFICES ASSUME NEW k \in Lists
               PROVE  /\ head'[k].offset = lv[k][m[k]] /\ lv[k][0] = EMPTY
                      /\ \A i \in 1..m[k] : lv[k][i] \in Offsets /\ link'[lv[k][i]] = lv[k][i - 1]
                      /\ \A i, j \in 1..m[k] : lv[k][i] = lv[k][j] => i = j
    BY DEF Linked
  <2>1. CASE k # l
    BY <1>1, <1>4, <1>5, <1>m, <2>1 DEF Linked
  <2>2. CASE k = l
    <3>1. head'[l].offset = lv[l][m[l]]
      BY <1>3, <1>4, <1>6, <1>m
    <3>2. lv[l][0] = EMPTY
      <4>1. 0 \in 0..b
        BY <1>2
      <4> QED
        BY <1>6, <1>8, <4>1
    <3>3. ASSUME NEW i \in 1..m[l] PROVE lv[l][i] \in Offsets /\ link'[lv[l][i]] = lv[l][i - 1]
      <4>0. i \in 1..b+c
        BY <1>4, <3>3
      <4>1. CASE i \in 1..b
        <5>1. i \in 0..b /\ i - 1 \in 0..b
          BY <1>2, <4>1
        <5> QED
          BY <1>6, <1>8, <4>1, <5>1
      <4>2. CASE i = b + 1
        <5>1. lv[l][i] = TailOf(p) /\ TailOf(p) \in ChainOf(p)
          BY <1>3, <1>6, <4>2
        <5>2. i - 1 = b /\ b \in 0..b
          BY <1>2, <4>2
        <5>3. lv[l][i - 1] = lev[l][b]
          BY <1>6, <5>2
        <5> QED
          BY <1>2, <1>8, <1>m, <5>1, <5>3
      <4>3. CASE i \in b+1..b+c /\ i # b + 1
        <5>1. /\ lv[l][i] = Place(b, p, i) /\ Place(b, p, i) \in ChainOf(p) \ {TailOf(p)}
              /\ lv[l][i - 1] = Place(b, p, i) + s
          BY <1>3, <1>6, <4>3
        <5> QED
          BY <1>2, <1>m, <5>1
      <4> QED
        BY <1>6, <4>0, <4>1, <4>2, <4>3
    <3>4. ASSUME NEW i \in 1..m[l], NEW j \in 1..m[l], lv[l][i] = lv[l][j] PROVE i = j
      <4>0. i \in 1..b+c /\ j \in 1..b+c
        BY <1>4, <3>4
      <4>1. \A k0 \in 1..b : lv[l][k0] = lev[l][k0]
        <5>1. \A k0 \in 1..b : k0 \in 0..b
          BY <1>2
        <5> QED
          BY <1>6, <5>1
      <4>2. CASE i \in 1..b /\ j \in 1..b
        BY <1>8, <3>4, <4>1, <4>2
      <4>3. CASE i \in b+1..b+c /\ j \in b+1..b+c
        BY <1>3, <1>6, <3>4, <4>3
      <4>4. CASE i \in 1..b /\ j \in b+1..b+c
        BY <1>6, <1>7, <3>4, <4>1, <4>4
      <4>5. CASE i \in b+1..b+c /\ j \in 1..b
        BY <1>6, <1>7, <3>4, <4>1, <4>5
      <4> QED
        BY <1>6, <4>0, <4>2, <4>3, <4>4, <4>5
    <3> QED
      BY <2>2, <3>1, <3>2, <3>3, <3>4
  <2> QED
    BY <2>1, <2>2
<1>10. FreeHomes(FreeOf(m, lv))' =
              FreeHomes(FreeOf(n, lev)) \cup {<<"free", l, o, s>> : o \in ChainOf(p)}
  <2> DEFINE P(k, o) == <<"free", k, o, ChunkSize(k)>>
  <2>1. \A h : h \in FreeHomes(FreeOf(n, lev)) <=> \E k \in Lists : \E i \in 1..n[k] : h = P(k, lev[k][i])
    BY DEF FreeHomes, FreeOf
  <2>2. \A h : h \in FreeHomes(FreeOf(m, lv))' <=> \E k \in Lists : \E i \in 1..m[k] : h = P(k, lv[k][i])
    BY DEF FreeHomes, FreeOf
  <2>3. \A h : h \in {<<"free", l, o, s>> : o \in ChainOf(p)} <=> \E o \in ChainOf(p) : h = P(l, o)
    BY <1>m
  <2> HIDE DEF P
  <2>f. PICK F, E, C : /\ F = FreeHomes(FreeOf(n, lev)) /\ E = FreeHomes(FreeOf(m, lv))'
                       /\ C = {<<"free", l, o, s>> : o \in ChainOf(p)}
    OBVIOUS
  <2>4. ASSUME NEW h \in E PROVE h \in F \/ h \in C
    <3>1. PICK k \in Lists : \E i \in 1..m[k] : h = P(k, lv[k][i])
      BY <2>2, <2>4, <2>f
    <3>i. PICK i \in 1..m[k] : h = P(k, lv[k][i])
      BY <3>1
    <3>2. CASE k # l
      BY <1>4, <1>5, <2>1, <2>f, <3>2, <3>i
    <3>3. CASE k = l /\ i \in 1..b
      <4>1. i \in 0..b /\ i \in 1..n[l]
        BY <1>2, <1>m, <3>3
      <4>2. h = P(l, lev[l][i])
        BY <1>6, <3>3, <3>i, <4>1
      <4> QED
        BY <1>2, <2>1, <2>f, <4>1, <4>2
    <3>4. CASE k = l /\ i \in b+1..b+c
      <4>1. h = P(l, Place(b, p, i)) /\ Place(b, p, i) \in ChainOf(p)
        BY <1>3, <1>6, <3>4, <3>i
      <4> QED
        BY <2>3, <2>f, <4>1
    <3> QED
      BY <1>4, <1>6, <3>2, <3>3, <3>4
  <2>5. ASSUME NEW h \in F PROVE h \in E
    <3>1. PICK k \in Lists : \E i \in 1..n[k] : h = P(k, lev[k][i])
      BY <2>1, <2>5, <2>f
    <3>i. PICK i \in 1..n[k] : h = P(k, lev[k][i])
      BY <3>1
    <3>2. CASE k # l
      BY <1>4, <1>5, <2>2, <2>f, <3>2, <3>i
    <3>3. CASE k = l
      <4>1. i \in 1..b /\ i \in 0..b
        BY <1>2, <1>m, <3>3
      <4>2. h = P(l, lv[l][i]) /\ i \in 1..m[l]
        BY <1>4, <1>6, <3>3, <3>i, <4>1
      <4> QED
        BY <1>2, <2>2, <2>f, <4>2
    <3> QED
      BY <3>2, <3>3
  <2>6. ASSUME NEW h \in C PROVE h \in E
    <3>1. PICK o \in ChainOf(p) : h = P(l, o)
      BY <2>3, <2>6, <2>f
    <3>2. PICK k \in b+1..b+c : o = Place(b, p, k)
      BY <1>3
    <3>3. lv[l][k] = o /\ k \in 1..m[l]
      BY <1>4, <1>6, <3>2
    <3> QED
      BY <1>2, <2>2, <2>f, <3>1, <3>3
  <2>7. E = F \cup C
    BY <2>4, <2>5, <2>6
  <2> QED
    BY <2>7, <2>f
<1> QED
  BY <1>4, <1>5, <1>9, <1>10, <1>m

\* The places of the chunks of a chain in its list.
FreeOfChain(p) == {<<"free", p.list, o, ChunkSize(p.list)>> : o \in ChainOf(p)}

\* They are for the same bytes as those in the hands of the thread.
LEMMA ChainBecomesFree ==
  ASSUME NEW t, NEW p \in ChainType
  PROVE  /\ \A a : (\E r \in HomesOfChain(t, p) : In(a, r)) <=> (\E h \in FreeOfChain(p) : In(a, h))
         /\ \A g, h \in FreeOfChain(p) : \A a : In(a, g) /\ In(a, h) => g = h
<1> DEFINE P(o) == <<"chain", <<t, p.list>>, o, ChunkSize(p.list)>>
<1> DEFINE Q(o) == <<"free", p.list, o, ChunkSize(p.list)>>
<1>1. /\ \A h : h \in HomesOfChain(t, p) <=> \E o \in ChainOf(p) : h = P(o)
      /\ \A h : h \in FreeOfChain(p) <=> \E o \in ChainOf(p) : h = Q(o)
  BY DEF HomesOfChain, FreeOfChain
<1>2. \A a, o : In(a, P(o)) <=> In(a, Q(o))
  BY DEF In
<1>3. \A o, v : P(o) = P(v) => o = v
  OBVIOUS
<1> HIDE DEF P, Q
<1>4. \A g, h \in HomesOfChain(t, p) : \A a : In(a, g) /\ In(a, h) => g = h
  BY ChainBytes
<1>5. \A a : (\E r \in HomesOfChain(t, p) : In(a, r)) <=> (\E h \in FreeOfChain(p) : In(a, h))
  BY <1>1, <1>2, Zenon
<1>6. ASSUME NEW g \in FreeOfChain(p), NEW h \in FreeOfChain(p), NEW a, In(a, g), In(a, h)
      PROVE  g = h
  <2>1. PICK o \in ChainOf(p) : g = Q(o)
    BY <1>1
  <2>2. PICK v \in ChainOf(p) : h = Q(v)
    BY <1>1
  <2>3. In(a, P(o)) /\ In(a, P(v)) /\ P(o) \in HomesOfChain(t, p) /\ P(v) \in HomesOfChain(t, p)
    BY <1>1, <1>2, <1>6, <2>1, <2>2
  <2>4. o = v
    BY <1>3, <1>4, <2>3
  <2> QED
    BY <2>1, <2>2, <2>4
<1> QED
  BY <1>5, <1>6

\* The exchange of anv_free_list_push succeeds.
LEMMA PushGivesOK ==
  ASSUME 3 * MaxOps < CountRange, StateInv, BlockInv', NEW n, NEW lev, HeapOK(n, lev),
         NEW t \in Threads, PushSwap(t), head[Head(pushes[t]).list] = cur[t]
  PROVE  StateInv' /\ \E m, lv : HeapOK(m, lv)'
<1>0. StateInv'
  BY PushRest
<1>b. PICK p, l : p = Head(pushes[t]) /\ l = p.list
  OBVIOUS
<1>1. /\ pc[t] = "pushcas"
      /\ head' = [head EXCEPT ![l] = [offset |-> p.offset, count |-> Bump(@)]]
      /\ pushes' = [pushes EXCEPT ![t] = Tail(@)]
      /\ UNCHANGED <<bvars, link, fixed, want, at, nxt, chunk, held, ops>>
      /\ head[l] = cur[t]
  BY <1>b DEF PushSwap
<1>2. StateTypeOK /\ BlockInv /\ MemoryBound
  BY DEF StateInv
<1>3. /\ pushes[t] \in Seq(ChainType) /\ pushes[t] # <<>> /\ p \in ChainType /\ p \in Chains(t)
      /\ \A i, j \in DOMAIN pushes[t] : pushes[t][i].list = pushes[t][j].list => i = j
      /\ l \in Lists
      /\ \A o \in ChainOf(p) \ {TailOf(p)} : link[o] = o + ChunkSize(p.list)
      /\ link[TailOf(p)] = head[l].offset
  BY <1>1, <1>b, PushFacts
<1>m. PICK m, lv : m = Pushed(n, p) /\ lv = Stacked(n, lev, p)
  OBVIOUS
<1>4. /\ m \in [Lists -> Nat] /\ lv \in [Lists -> [Nat -> Offsets \cup {EMPTY}]]
      /\ Linked(m, lv)'
      /\ FreeHomes(FreeOf(m, lv))' = FreeHomes(FreeOf(n, lev)) \cup FreeOfChain(p)
  <2>1. /\ head'[p.list].offset = p.offset
        /\ \A k \in Lists \ {p.list} : head'[k].offset = head[k].offset
    BY <1>1, <1>2, <1>3, <1>b DEF StateTypeOK
  <2>2. UNCHANGED link /\ link[TailOf(p)] = head[p.list].offset
    BY <1>1, <1>3, <1>b
  <2>3. /\ Pushed(n, p) \in [Lists -> Nat]
        /\ Stacked(n, lev, p) \in [Lists -> [Nat -> Offsets \cup {EMPTY}]]
        /\ Linked(Pushed(n, p), Stacked(n, lev, p))'
        /\ FreeHomes(FreeOf(Pushed(n, p), Stacked(n, lev, p)))' =
             FreeHomes(FreeOf(n, lev)) \cup {<<"free", p.list, o, ChunkSize(p.list)>> : o \in ChainOf(p)}
    BY <1>2, <1>3, <2>1, <2>2, PushLists
  <2> QED
    BY <1>m, <2>3 DEF FreeOfChain
<1>5. ChainHomes' = ChainHomes \ HomesOfChain(t, p)
  <2>1. pushes'[t] = Tail(pushes[t]) /\ \A u \in Threads \ {t} : pushes'[u] = pushes[u]
    BY <1>1, <1>2 DEF StateTypeOK
  <2> QED
    BY <1>3, <1>b, <2>1, ChainGoes
<1>6. /\ ClientHomes' = ClientHomes /\ RestHomes' = RestHomes /\ GotHomes' = GotHomes
      /\ BlockHomes' = BlockHomes /\ Used' = Used
  BY <1>1, PoolSame DEF ClientHomes, RestHomes, GotHomes
<1>h. PICK H, G, R, N : /\ H = HomesWith(FreeOf(n, lev)) /\ G = HomesWith(FreeOf(m, lv))'
                        /\ R = HomesOfChain(t, p) /\ N = FreeOfChain(p)
  OBVIOUS
<1>7. R \subseteq ChainHomes
  BY <1>3, <1>h, ChainHomesAre
<1>8. R \subseteq H /\ G = (H \ R) \cup N
  <2>1. /\ \A h \in R : h[1] = "chain"
        /\ \A h \in ClientHomes \cup FreeHomes(FreeOf(n, lev)) \cup RestHomes \cup GotHomes
                      \cup BlockHomes : h[1] # "chain"
    BY <1>7, Kinds
  <2>2. (ClientHomes \cup FreeHomes(FreeOf(n, lev)) \cup RestHomes \cup GotHomes
                      \cup BlockHomes) \cap R = {}
    BY <2>1
  <2>3. H = ClientHomes \cup FreeHomes(FreeOf(n, lev)) \cup RestHomes \cup GotHomes
              \cup BlockHomes \cup ChainHomes
    BY <1>h DEF HomesWith
  <2>4. G = ClientHomes \cup (FreeHomes(FreeOf(n, lev)) \cup N) \cup RestHomes \cup GotHomes
              \cup BlockHomes \cup (ChainHomes \ R)
    BY <1>4, <1>5, <1>6, <1>h DEF HomesWith
  <2> QED
    BY <1>7, <2>2, <2>3, <2>4
<1>9. Partition(G, Bytes')
  <2>1. \A a : (\E r \in R : In(a, r)) <=> (\E h \in N : In(a, h))
    BY <1>3, <1>h, ChainBecomesFree
  <2>2. \A g, h \in N : \A a : In(a, g) /\ In(a, h) => g = h
    BY <1>3, <1>h, ChainBecomesFree
  <2>3. Used' = Used
    BY <1>6
  <2>4. R \subseteq H /\ G = (H \ R) \cup N
    BY <1>8
  <2>5. Partition(H, Bytes)
    BY <1>h DEF HeapOK
  <2> QED
    BY <2>1, <2>2, <2>3, <2>4, <2>5, HomesMove, Zenon
<1>10. HeapOK(m, lv)'
  BY <1>4, <1>h, <1>9, HeapFrom
<1> QED
  BY <1>0, <1>10

-----------------------------------------------------------------------------
(* The invariant and the theorem *)

\* The inductive invariant: with some stacks, every byte has one home.
HomeInv == StateInv /\ \E n, lev : HeapOK(n, lev)

\* An empty pool: no memory, and no lists.
LEMMA InitHome == Init => HomeInv
<1> SUFFICES ASSUME Init PROVE HomeInv
  OBVIOUS
<1>1. BlockInv
  BY BlockInitInv DEF Init
<1>2. StateTypeOK
  <2>1. Back \in Lists /\ "idle" \in StatePCs /\ 0 \in 0..CountRange-1
    BY AnvStatePoolAssumption DEF Lists, StatePCs
  <2>2. head \in [Lists -> Heads]
    BY <2>1 DEF Init, Heads
  <2>3. pushes \in [Threads -> Seq(ChainType)]
    BY DEF Init
  <2>4. cur = [t \in Threads |-> cur[t]] /\ nxt = [t \in Threads |-> nxt[t]]
    BY DEF Init
  <2> QED
    BY <2>1, <2>2, <2>3, <2>4 DEF Init, StateTypeOK
<1>3. \A t \in Threads : /\ pc[t] = "idle" /\ bpc[t] = "idle" /\ pushes[t] = <<>>
                         /\ chunk[t] = EMPTY /\ ~ Decided(t) /\ ~ Growing(t)
  BY DEF Init, BlockPoolInit, Decided, Growing
<1>4. \A t \in Threads : ThreadOK(t)
  <2> TAKE t \in Threads
  <2>1. PushMatches(t)
    <3>1. pushes[t] = <<>> /\ DOMAIN <<>> = {}
      BY <1>3
    <3> QED
      BY <1>3, <3>1 DEF PushMatches, Pushing
  <2>2. CallMatches(t) /\ PopMatches(t) /\ ReadMatches(t) /\ ChainLinked(t)
    BY <1>3 DEF CallMatches, PopMatches, Popping, ReadMatches, HasRead, ChainLinked
  <2> QED
    BY <2>1, <2>2 DEF ThreadOK
<1>5. BucketOK
  <2>1. \A t \in Threads : ~ Refilling(t)
    BY <1>3 DEF Refilling
  <2>2. \A b \in Buckets : fixed[b].next = 0 /\ fixed[b].end = 0
    BY DEF Init
  <2>3. \A b \in Buckets : 0 = 0 + 0 * ChunkSize(b)
    <3> TAKE b \in Buckets
    <3>1. ChunkSize(b) \in Nat
      BY SizeFacts DEF Lists
    <3> QED
      BY <3>1
  <2>4. \A b \in Buckets : fixed[b].end = fixed[b].next + 0 * ChunkSize(b)
    BY <2>2, <2>3
  <2> QED
    BY <2>1, <2>4 DEF BucketOK
<1>6. Used = [s \in Sides |-> 0]
  BY <1>3 DEF Used, Init, BlockPoolInit, NoPair
<1>7. MemoryBound
  <2>1. Pending = {}
    BY <1>3 DEF Pending, PendingPCs
  <2>2. Cardinality(Pending) = 0
    BY <2>1, FS_EmptySet
  <2>3. ChunkSize(NumBuckets - 1) \in Nat
    BY SizeFacts DEF Lists
  <2>4. 0 + 0 * ChunkSize(NumBuckets - 1) <= Memory
    BY <2>3, AnvStatePoolAssumption
  <2> QED
    BY <1>6, <2>2, <2>4 DEF MemoryBound
<1>8. CountsOK
  <2>s. PICK S, R : S = [l \in Lists |-> {}] /\ R = [t \in Threads |-> {}]
    OBVIOUS
  <2>1. /\ S \in [Lists -> SUBSET (1..3 * ops)] /\ R \in [Threads -> SUBSET (1..3 * ops)]
        /\ \A l \in Lists : S[l] = {} /\ head[l].count = 0
        /\ \A t \in Threads : R[t] = {}
    BY <2>s DEF Init
  <2>2. Cardinality({}) = 0
    BY FS_EmptySet
  <2>3. \A t \in Threads : Swaps(t) = 0
    <3>1. Len(<<>>) = 0
      OBVIOUS
    <3> QED
      BY <1>3, <3>1 DEF Swaps, Popping
  <2>4. TokensOK(S, R)
    <3>1. /\ \A l \in Lists : head[l].count = Cardinality(S[l])
          /\ \A t \in Threads : Cardinality(R[t]) >= Swaps(t)
      <4>1. \A l \in Lists : Cardinality(S[l]) = 0
        BY <2>1, <2>2, Zenon
      <4>2. \A t \in Threads : Cardinality(R[t]) = 0
        BY <2>1, <2>2, Zenon
      <4>3. 0 >= 0
        OBVIOUS
      <4> QED
        BY <2>1, <2>3, <4>1, <4>2, <4>3
    <3>2. /\ \A t \in Threads : \A l \in Lists : R[t] \cap S[l] = {}
          /\ \A t, u \in Threads : t # u => R[t] \cap R[u] = {}
      BY <2>1
    <3> QED
      BY <2>1, <3>1, <3>2 DEF TokensOK
  <2>5. ops \in 0..MaxOps
    BY AnvStatePoolAssumption DEF Init
  <2> QED
    BY <2>4, <2>5 DEF CountsOK
<1>9. \E n, lev : HeapOK(n, lev)
  <2>n. PICK n, lev : n = [l \in Lists |-> 0] /\ lev = [l \in Lists |-> [k \in Nat |-> EMPTY]]
    OBVIOUS
  <2>1. n \in [Lists -> Nat] /\ lev \in [Lists -> [Nat -> Offsets \cup {EMPTY}]]
    BY <2>n
  <2>2. \A l \in Lists : n[l] = 0 /\ 1..n[l] = {} /\ lev[l][0] = EMPTY
    BY <2>n
  <2>3. Linked(n, lev)
    BY <2>2 DEF Linked, Init
  <2>4. HomesWith(FreeOf(n, lev)) = {}
    <3>1. ClientHomes = {}
      BY DEF ClientHomes, Init
    <3>2. FreeHomes(FreeOf(n, lev)) = {}
      BY <2>2 DEF FreeHomes, FreeOf
    <3>3. RestHomes = {}
      <4>1. \A b \in Buckets : ~ (fixed[b].next < fixed[b].end)
        BY DEF Init
      <4> QED
        BY <4>1 DEF RestHomes
    <3>4. GotHomes = {} /\ BlockHomes = {}
      BY <1>3 DEF GotHomes, BlockHomes
    <3>5. ChainHomes = {}
      <4>1. \A t \in Threads : Chains(t) = {}
        <5>1. DOMAIN <<>> = {}
          OBVIOUS
        <5> QED
          BY <1>3, <5>1 DEF Chains
      <4> QED
        BY <4>1 DEF ChainHomes
    <3> QED
      BY <3>1, <3>2, <3>3, <3>4, <3>5 DEF HomesWith
  <2>5. Bytes = {}
    BY <1>6 DEF Bytes, Sides
  <2>6. Partition(HomesWith(FreeOf(n, lev)), Bytes)
    BY <2>4, <2>5 DEF Partition
  <2> QED
    BY <2>1, <2>3, <2>6 DEF HeapOK
<1> QED
  BY <1>1, <1>2, <1>4, <1>5, <1>7, <1>8, <1>9 DEF HomeInv, StateInv

\* Nothing happens.
LEMMA StutterHome ==
  ASSUME StateInv, BlockInv', NEW n, NEW lev, HeapOK(n, lev), UNCHANGED vars
  PROVE  StateInv' /\ HeapOK(n, lev)'
<1>1. UNCHANGED <<bvars, head, link, fixed, pc, want, at, cur, nxt, chunk, pushes, held, ops>>
  BY DEF vars, svars, lists, mine
<1>2. /\ Used' = Used /\ BlockHomes' = BlockHomes /\ bpc' = bpc /\ call' = call
      /\ \A u \in Threads : Decided(u)' <=> Decided(u)
  BY <1>1, PoolSame
<1>3. HeapOK(n, lev)'
  <2>1. ClientHomes' = ClientHomes /\ RestHomes' = RestHomes /\ GotHomes' = GotHomes
        /\ ChainHomes' = ChainHomes
    BY <1>1 DEF ClientHomes, RestHomes, GotHomes, ChainHomes, Chains
  <2> QED
    BY <1>1, <1>2, <2>1, HeapStays
<1>4. StateTypeOK'
  BY <1>1 DEF StateInv, StateTypeOK
<1>5. BucketOK'
  BY <1>1 DEF StateInv, BucketOK, Refilling, Small
<1>6. MemoryBound'
  <2>1. Pending' \subseteq Pending
    BY <1>1, <1>2 DEF Pending, PendingPCs
  <2> QED
    BY <1>2, <2>1, KeepMemory DEF StateInv
<1>7. CountsOK'
  BY <1>1 DEF StateInv, CountsOK, TokensOK, Swaps, Popping
<1>8. \A t \in Threads : ThreadOK(t)'
  BY <1>1, <1>2 DEF StateInv, ThreadOK, CallMatches, CallOf, Small, PopMatches, Popping,
                    PushMatches, Pushing, ReadMatches, HasRead, ReadList, ChainLinked
<1> QED
  BY <1>3, <1>4, <1>5, <1>6, <1>7, <1>8 DEF StateInv

\* Every step keeps the invariant, as long as no count comes round.
LEMMA NextHome ==
  ASSUME 3 * MaxOps < CountRange PROVE HomeInv /\ [Next]_vars => HomeInv'
<1> SUFFICES ASSUME HomeInv, [Next]_vars PROVE HomeInv'
  OBVIOUS
<1>0. StateInv
  BY DEF HomeInv
<1>n. PICK n, lev : HeapOK(n, lev)
  BY DEF HomeInv
<1>1. BlockInv'
  <2>1. WantOK /\ BlockInv
    BY <1>0 DEF StateInv, StateTypeOK, WantOK
  <2>2. [BlockPoolNext]_bvars
    BY <2>1, NextIsBlockNext
  <2> QED
    BY <2>1, <2>2, BlockNextInv
<1> SUFFICES StateInv' /\ \E m, lv : HeapOK(m, lv)'
  BY DEF HomeInv
<1>2. CASE UNCHANGED vars
  BY <1>0, <1>1, <1>2, <1>n, StutterHome
<1>3. ASSUME NEW t \in Threads, AllocStep(t), UNCHANGED svars
      PROVE  StateInv' /\ HeapOK(n, lev)'
  BY <1>0, <1>1, <1>3, <1>n, AllocStepOK
<1>4. ASSUME NEW t \in Threads, PopHead(t) \/ PopLink(t)
      PROVE  StateInv' /\ HeapOK(n, lev)'
  BY <1>0, <1>1, <1>4, <1>n, PopHeadOK, PopLinkOK
<1>5. ASSUME NEW t \in Threads, PopSwap(t)
      PROVE  StateInv' /\ \E m, lv : HeapOK(m, lv)'
  <2>1. CASE head[at[t]] = cur[t]
    BY <1>0, <1>1, <1>5, <1>n, <2>1, PopTakesOK
  <2>2. CASE head[at[t]] # cur[t]
    BY <1>0, <1>1, <1>5, <1>n, <2>2, PopAgainOK
  <2> QED
    BY <2>1, <2>2
<1>6. ASSUME NEW t \in Threads, PushChain(t) \/ PushLink(t)
      PROVE  StateInv' /\ HeapOK(n, lev)'
  BY <1>0, <1>1, <1>6, <1>n, PushChainOK, PushLinkOK
<1>7. ASSUME NEW t \in Threads, PushSwap(t)
      PROVE  StateInv' /\ \E m, lv : HeapOK(m, lv)'
  <2>1. CASE head[Head(pushes[t]).list] = cur[t]
    BY <1>0, <1>1, <1>7, <1>n, <2>1, PushGivesOK
  <2>2. CASE head[Head(pushes[t]).list] # cur[t]
    BY <1>0, <1>1, <1>7, <1>n, <2>2, PushAgainOK
  <2> QED
    BY <2>1, <2>2
<1>8. ASSUME NEW t \in Threads, NewBlock(t) \/ NewChunk(t) \/ RefillBlock(t)
      PROVE  StateInv' /\ HeapOK(n, lev)'
  BY <1>0, <1>1, <1>8, <1>n, NewBlockOK, NewChunkOK, RefillBlockOK
<1>9. ASSUME NEW t \in Threads, BlockReturns(t)
      PROVE  StateInv' /\ HeapOK(n, lev)'
  BY <1>0, <1>1, <1>9, <1>n, BlockReturnsOK
<1>10. ASSUME NEW t \in Threads, BucketWake(t) \/ BucketWait(t) \/ Done(t)
       PROVE  StateInv' /\ HeapOK(n, lev)'
  BY <1>0, <1>1, <1>10, <1>n, BucketWakeOK, BucketWaitOK, DoneOK
<1>11. ASSUME NEW t \in Threads, NEW l \in Requests, CallAlloc(t, l)
       PROVE  StateInv' /\ HeapOK(n, lev)'
  BY <1>0, <1>1, <1>11, <1>n, CallAllocOK
<1>12. ASSUME NEW t \in Threads, NEW s \in held, CallFree(t, s)
       PROVE  StateInv' /\ HeapOK(n, lev)'
  BY <1>0, <1>1, <1>12, <1>n, CallFreeOK
<1> QED
  BY <1>2, <1>3, <1>4, <1>5, <1>6, <1>7, <1>8, <1>9, <1>10, <1>11, <1>12 DEF Next, Step

\* For any threads, buckets, sizes and calls: as long as the count of no free
\* list comes round, all memory that anv_state_pool_alloc and
\* anv_state_pool_free move about is always in exactly one place.
THEOREM EveryByteHasOneHome ==
  ASSUME 3 * MaxOps < CountRange
  PROVE  Spec => []OneHomeForEveryByte
<1>1. Init => HomeInv
  BY InitHome
<1>2. HomeInv /\ [Next]_vars => HomeInv'
  BY NextHome
<1>3. HomeInv => OneHomeForEveryByte
  BY HeapMeansOneHome DEF HomeInv
<1> QED
  BY <1>1, <1>2, <1>3, PTL DEF Spec
=============================================================================
