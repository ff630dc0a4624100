---------------------------- MODULE AnvStatePool ----------------------------
(***************************************************************************)
(* The state pool of src/intel/vulkan/anv_allocator.c: power-of-two chunks *)
(* cut from the blocks of a block pool, with a lock-free free list for     *)
(* each size. A free list is a head {offset, count} changed by compare-    *)
(* and-swap; the links are in the free chunks themselves, which the client *)
(* overwrites once it owns them.                                           *)
(*                                                                         *)
(* The blocks come from the block pool of module AnvBlockPool, whose steps *)
(* the threads take while they are in "block". Memory is a function of the *)
(* offset, since all maps of the pool alias the same memory.               *)
(*                                                                         *)
(* One action is one access of shared memory. A thread is "idle"; in       *)
(* anv_free_list_pop before the read of the head ("pop"), of the link      *)
(* ("next") or the exchange ("popcas"); in anv_free_list_push before it    *)
(* builds its chain and reads the head ("push"), links the chain to it     *)
(* ("link") or exchanges it ("pushcas"); in the allocation of a new chunk  *)
(* ("new", "refill", "block", "wait", "sleep", "wake"); or it has its      *)
(* chunk ("done").                                                         *)
(***************************************************************************)
EXTENDS AnvBlockPool, Sequences, FiniteSets

CONSTANTS
  NumBuckets,    \* ANV_STATE_BUCKETS: bucket b holds chunks of size 2^b
  BlockSize,     \* pool->block_size
  CountRange,    \* 2^32: the range of the count in a free list's head
  MaxOps,        \* bound: the calls of the clients
  Memory,        \* bound: the memory on each side of the pool
  Requests,      \* the lists whose size the clients ask for
  EMPTY,         \* the offset in the head of an empty list
  Garbage        \* what a client has written over a link

Buckets == 0..NumBuckets-1
Back == NumBuckets    \* the list back_alloc_free_list
Lists == Buckets \cup {Back}
Offsets == -Memory..Memory-1

\* anv_state_pool_get_bucket_size: 1 << b
BucketSize[b \in Buckets] == IF b = 0 THEN 1 ELSE 2 * BucketSize[b - 1]

ChunkSize(l) == IF l = Back THEN BlockSize ELSE BucketSize[l]

BlockBucket == CHOOSE b \in Buckets : ChunkSize(b) = BlockSize

ASSUME AnvStatePoolAssumption ==
  /\ IsFiniteSet(Threads)
  /\ NumBuckets \in Nat \ {0}
  /\ CountRange \in Nat \ {0} /\ MaxOps \in Nat /\ Memory \in Nat
  /\ \E b \in Buckets : ChunkSize(b) = BlockSize
  /\ Requests \subseteq Lists
  /\ BlockSize \in Sizes
  /\ \A l \in Lists : ChunkSize(l) >= BlockSize => ChunkSize(l) \in Sizes
  /\ EMPTY \notin Offsets /\ Garbage \notin Offsets /\ EMPTY # Garbage

VARIABLES
  head,          \* the head of each free list: {offset, count}
  link,          \* the first word of the chunk at each offset
  fixed,         \* buckets[b].block: {next, end}
  pc,
  want,          \* the list of the size being allocated
  at,            \* the list being popped
  cur,           \* the head or the {next, end} pair last read
  nxt,           \* the link read
  chunk,         \* the chunk got, while allocating
  pushes,        \* the chains still to be pushed: {list, offset, count}
  held,          \* the states the clients have: {offset, list}
  ops            \* the calls made so far

lists  == <<head, link>>
mine   == <<want, at, cur, nxt, chunk, pushes>>
svars  == <<lists, fixed, pc, mine, held, ops>>
vars   == <<bvars, svars>>

\* anv_state_pool_init
Init ==
  /\ BlockPoolInit
  /\ head = [l \in Lists |-> [offset |-> EMPTY, count |-> 0]]
  /\ link = [o \in Offsets |-> Garbage]
  /\ fixed = [b \in Buckets |-> [next |-> 0, end |-> 0]]
  /\ pc = [t \in Threads |-> "idle"]
  /\ want = [t \in Threads |-> Back]
  /\ at = [t \in Threads |-> Back]
  /\ cur = [t \in Threads |-> <<>>]
  /\ nxt = [t \in Threads |-> EMPTY]
  /\ chunk = [t \in Threads |-> EMPTY]
  /\ pushes = [t \in Threads |-> <<>>]
  /\ held = {}
  /\ ops = 0

Go(t, l) == pc' = [pc EXCEPT ![t] = l]
Read(t, v) == cur' = [cur EXCEPT ![t] = v]

-----------------------------------------------------------------------------
(* anv_state_pool_alloc, anv_state_pool_alloc_back: the free lists *)

\* There is memory for whatever the threads may be about to allocate.
MemoryLeft ==
  \A s \in Sides :
    Used[s] + Cardinality(Threads) * ChunkSize(NumBuckets - 1) <= Memory

\* The thread has a value of the head of list l: go on to the link, or, if
\* the list is empty, to the next larger bucket, or else to a new chunk.
SeeHead(t, l) ==
  \/ /\ head[l].offset # EMPTY
     /\ Read(t, head[l]) /\ Go(t, "next")
     /\ at' = [at EXCEPT ![t] = l]
  \/ /\ head[l].offset = EMPTY
     /\ IF l \in {Back, NumBuckets - 1}
        THEN Go(t, "new") /\ UNCHANGED at
        ELSE Go(t, "pop") /\ at' = [at EXCEPT ![t] = l + 1]
     /\ Read(t, <<>>)

\* The client's call: the list of the size it asks for is tried first.
CallAlloc(t, l) ==
  /\ pc[t] = "idle" /\ ops < MaxOps /\ MemoryLeft
  /\ ops' = ops + 1
  /\ want' = [want EXCEPT ![t] = l]
  /\ SeeHead(t, l)
  /\ UNCHANGED <<bvars, lists, fixed, nxt, chunk, pushes, held>>

PopHead(t) ==
  /\ pc[t] = "pop"
  /\ SeeHead(t, at[t])
  /\ UNCHANGED <<bvars, lists, fixed, want, nxt, chunk, pushes, held, ops>>

\* The chunk may meanwhile be another thread's, and the link its data.
PopLink(t) ==
  /\ pc[t] = "next"
  /\ nxt' = [nxt EXCEPT ![t] = link[cur[t].offset]]
  /\ Go(t, "popcas")
  /\ UNCHANGED <<bvars, lists, fixed, want, at, cur, chunk, pushes, held, ops>>

\* Faulty variant: nothing tells a reused offset from the one that was read.
BumpNot(h) == h.count

\* The counter beside the offset, against ABA.
Bump(h) == (h.count + 1) % CountRange

\* What anv_state_pool_alloc_no_vg gives back of a chunk at offset o from the
\* larger list l: first whole blocks, then chunks of the size asked for.
Split(o, l, w) ==
  LET blocks(n) == [list |-> BlockBucket, offset |-> o + BlockSize, count |-> n]
      chunks(n) == [list |-> w, offset |-> o + ChunkSize(w), count |-> n]
      twoLevel  == ChunkSize(l) > BlockSize /\ ChunkSize(w) < BlockSize
  IN  IF twoLevel
      THEN <<blocks(ChunkSize(l) \div BlockSize - 1),
             chunks(BlockSize \div ChunkSize(w) - 1)>>
      ELSE <<chunks(ChunkSize(l) \div ChunkSize(w) - 1)>>

PopSwap(t) ==
  LET l == at[t]
      o == cur[t].offset IN
  /\ pc[t] = "popcas"
  /\ \/ /\ head[l] = cur[t]
        /\ head' = [head EXCEPT ![l] = [offset |-> nxt[t], count |-> Bump(@)]]
        /\ chunk' = [chunk EXCEPT ![t] = o]
        /\ IF l = want[t]
           THEN Go(t, "done") /\ UNCHANGED pushes
           ELSE /\ Go(t, "push")
                /\ pushes' = [pushes EXCEPT ![t] = Split(o, l, want[t])]
        /\ Read(t, <<>>)
        /\ UNCHANGED at
     \/ /\ head[l] # cur[t]
        /\ SeeHead(t, l)
        /\ UNCHANGED <<head, chunk, pushes>>
  /\ nxt' = [nxt EXCEPT ![t] = EMPTY]
  /\ UNCHANGED <<bvars, link, fixed, want, held, ops>>

-----------------------------------------------------------------------------
(* anv_free_list_push *)

\* The chunks of the chain p, and its last one.
ChainOf(p) == {p.offset + i * ChunkSize(p.list) : i \in 0..p.count-1}
TailOf(p) == p.offset + (p.count - 1) * ChunkSize(p.list)

\* The links inside the chain need no atomics; then the read of the head.
StartPush(t, p) ==
  /\ link' = [o \in Offsets |->
                IF o \in ChainOf(p) \ {TailOf(p)} THEN o + ChunkSize(p.list)
                                                  ELSE link[o]]
  /\ Read(t, head[p.list])
  /\ Go(t, "link")

PushChain(t) ==
  /\ pc[t] = "push"
  /\ StartPush(t, Head(pushes[t]))
  /\ UNCHANGED <<bvars, head, fixed, want, at, nxt, chunk, pushes, held, ops>>

PushLink(t) ==
  /\ pc[t] = "link"
  /\ link' = [link EXCEPT ![TailOf(Head(pushes[t]))] = cur[t].offset]
  /\ Go(t, "pushcas")
  /\ UNCHANGED <<bvars, head, fixed, mine, held, ops>>

PushSwap(t) ==
  LET p == Head(pushes[t]) IN
  /\ pc[t] = "pushcas"
  /\ \/ /\ head[p.list] = cur[t]
        /\ head' = [head EXCEPT ![p.list] = [offset |-> p.offset, count |-> Bump(@)]]
        /\ pushes' = [pushes EXCEPT ![t] = Tail(@)]
        /\ Go(t, IF Tail(pushes[t]) # <<>> THEN "push"
                   ELSE IF chunk[t] # EMPTY THEN "done" ELSE "idle")
        /\ Read(t, <<>>)
     \/ /\ head[p.list] # cur[t]
        /\ Read(t, head[p.list])
        /\ Go(t, "link")
        /\ UNCHANGED <<head, pushes>>
  /\ UNCHANGED <<bvars, link, fixed, want, at, nxt, chunk, held, ops>>

\* anv_state_pool_free
CallFree(t, s) ==
  LET p == [list |-> s.list, offset |-> s.offset, count |-> 1] IN
  /\ pc[t] = "idle" /\ ops < MaxOps
  /\ ops' = ops + 1
  /\ s \in held /\ held' = held \ {s}
  /\ pushes' = [pushes EXCEPT ![t] = <<p>>]
  /\ StartPush(t, p)
  /\ UNCHANGED <<bvars, head, fixed, want, at, nxt, chunk>>

-----------------------------------------------------------------------------
(* anv_fixed_size_state_pool_alloc_new and anv_block_pool_alloc[_back] *)

\* A chunk of a block or more, or one at the back, is a block by itself.
NewBlock(t) ==
  LET w == want[t] IN
  /\ pc[t] = "new" /\ ChunkSize(w) >= BlockSize
  /\ Call(t, IF w = Back THEN "back" ELSE "front", ChunkSize(w))
  /\ Go(t, "block")
  /\ UNCHANGED <<lists, fixed, mine, held, ops>>

\* A smaller one is cut from the bucket's current block by fetch-and-add. The
\* thread that finds the block used up exactly gets the next one.
NewChunk(t) ==
  LET b == want[t]
      p == fixed[b] IN
  /\ pc[t] = "new" /\ ChunkSize(b) < BlockSize
  /\ fixed' = [fixed EXCEPT ![b].next = @ + ChunkSize(b)]
  /\ \/ /\ p.next < p.end
        /\ chunk' = [chunk EXCEPT ![t] = p.next]
        /\ Go(t, "done") /\ Read(t, <<>>)
     \/ /\ p.next = p.end
        /\ Go(t, "refill") /\ Read(t, p)
        /\ UNCHANGED chunk
     \/ /\ p.next > p.end
        /\ Go(t, "wait") /\ Read(t, p)
        /\ UNCHANGED chunk
  /\ UNCHANGED <<bvars, lists, want, at, nxt, pushes, held, ops>>

RefillBlock(t) ==
  /\ pc[t] = "refill"
  /\ Call(t, "front", BlockSize)
  /\ Go(t, "block")
  /\ UNCHANGED <<lists, fixed, mine, held, ops>>

\* The block pool returns: the chunk is all of the block, or its first part,
\* and the rest becomes the bucket's block.
BlockReturns(t) ==
  LET b == want[t]
      o == Result(t) IN
  /\ pc[t] = "block"
  /\ Return(t)
  /\ chunk' = [chunk EXCEPT ![t] = o]
  /\ IF ChunkSize(b) >= BlockSize
     THEN Go(t, "done") /\ UNCHANGED fixed
     ELSE /\ fixed' = [fixed EXCEPT ![b] = [next |-> o + ChunkSize(b),
                                            end  |-> o + BlockSize]]
          /\ Go(t, IF fixed[b].next # cur[t].next THEN "wake" ELSE "done")
  /\ Read(t, <<>>)
  /\ UNCHANGED <<lists, want, at, nxt, pushes, held, ops>>

\* futex_wake(&pool->block.end, INT_MAX)
BucketWake(t) ==
  /\ pc[t] = "wake"
  /\ pc' = [u \in Threads |->
              IF u = t THEN "done"
              ELSE IF pc[u] = "sleep" /\ want[u] = want[t] THEN "new"
              ELSE pc[u]]
  /\ cur' = [u \in Threads |->
               IF pc[u] = "sleep" /\ want[u] = want[t] THEN <<>> ELSE cur[u]]
  /\ UNCHANGED <<bvars, lists, fixed, want, at, nxt, chunk, pushes, held, ops>>

\* futex_wait(&pool->block.end, block.end)
BucketWait(t) ==
  /\ pc[t] = "wait"
  /\ IF fixed[want[t]].end = cur[t].end
     THEN Go(t, "sleep") /\ UNCHANGED cur
     ELSE Go(t, "new") /\ Read(t, <<>>)
  /\ UNCHANGED <<bvars, lists, fixed, want, at, nxt, chunk, pushes, held, ops>>

\* The call returns. The state is the client's, who may write all over it.
Done(t) ==
  LET o == chunk[t] IN
  /\ pc[t] = "done"
  /\ held' = held \cup {[offset |-> o, list |-> want[t]]}
  /\ link' = [a \in Offsets |->
                IF a \in o..o + ChunkSize(want[t]) - 1 THEN Garbage ELSE link[a]]
  /\ chunk' = [chunk EXCEPT ![t] = EMPTY]
  /\ want' = [want EXCEPT ![t] = Back]
  /\ at' = [at EXCEPT ![t] = Back]
  /\ Go(t, "idle")
  /\ UNCHANGED <<bvars, head, fixed, cur, nxt, pushes, ops>>

-----------------------------------------------------------------------------
Step(t) ==
  \/ AllocStep(t) /\ UNCHANGED svars
  \/ PopHead(t) \/ PopLink(t) \/ PopSwap(t)
  \/ PushChain(t) \/ PushLink(t) \/ PushSwap(t)
  \/ NewBlock(t) \/ NewChunk(t) \/ RefillBlock(t) \/ BlockReturns(t)
  \/ BucketWake(t) \/ BucketWait(t) \/ Done(t)

Next ==
  \E t \in Threads :
    \/ Step(t)
    \/ \E l \in Requests : CallAlloc(t, l)
    \/ \E s \in held : CallFree(t, s)

\* A thread inside a call keeps running.
Spec == Init /\ [][Next]_vars /\ \A t \in Threads : WF_vars(Step(t))

-----------------------------------------------------------------------------
(* Properties *)

\* The chunks of a free list, following the links from its head.
FreeChunks(l) ==
  LET reach[n \in 0..2 * Memory] ==
        IF n = 0 THEN {head[l].offset} \ {EMPTY}
        ELSE LET r == reach[n - 1]
             IN  r \cup ({link[o] : o \in r \cap Offsets} \ {EMPTY})
  IN  reach[2 * Memory]

\* The chains that a thread has still to push.
Chains(t) == {pushes[t][i] : i \in DOMAIN pushes[t]}

\* Where memory of the pool can be, if free[l] is what list l has:
\* <<kind of place, which one, offset, size>>.
ClientHomes == {<<"client", s.list, s.offset, ChunkSize(s.list)>> : s \in held}
FreeHomes(free) == UNION {{<<"free", l, o, ChunkSize(l)>> : o \in free[l]} : l \in Lists}
RestHomes == {<<"rest", b, fixed[b].next, fixed[b].end - fixed[b].next>> :
                b \in {c \in Buckets : fixed[c].next < fixed[c].end}}
GotHomes == {<<"got", t, chunk[t], ChunkSize(want[t])>> :
               t \in {u \in Threads : chunk[u] # EMPTY}}
BlockHomes == {<<"block", t, Result(t), call[t].size>> : t \in {u \in Threads : Decided(u)}}
ChainHomes == UNION {UNION {{<<"chain", <<t, p.list>>, o, ChunkSize(p.list)>> :
                               o \in ChainOf(p)} : p \in Chains(t)} : t \in Threads}

HomesWith(free) ==
  ClientHomes \cup FreeHomes(free) \cup RestHomes \cup GotHomes \cup BlockHomes
              \cup ChainHomes

\* Everything the block pool has handed out is at any time in exactly one
\* place: a state of a client, a chunk of one free list, the rest of a
\* bucket's block, or the hands of a thread inside a call. No two states
\* overlap, no chunk is free twice, and none is lost, whatever a thread that
\* works with an outdated head or link does.
OneHomeForEveryByte ==
  /\ \A l \in Lists : FreeChunks(l) \subseteq Offsets
  /\ LET homes == HomesWith([l \in Lists |-> FreeChunks(l)])
     IN  \A a \in -Used["back"]..Used["front"]-1 :
           Cardinality({h \in homes : a \in h[3]..h[3] + h[4] - 1}) = 1

\* Every call returns: a thread that waits for the bucket's next block is
\* woken, and a compare-and-swap fails only because another one succeeded.
CallsReturn == \A t \in Threads : pc[t] # "idle" ~> pc[t] = "idle"
=============================================================================
