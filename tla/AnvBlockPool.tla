---------------------------- MODULE AnvBlockPool ----------------------------
(***************************************************************************)
(* The block pool of src/intel/vulkan/anv_allocator.c: a buffer object     *)
(* that grows at both ends, from which threads take blocks without a lock. *)
(* A 64-bit {next, end} pair for each side is advanced with fetch-and-add; *)
(* the one thread whose block crosses `end` grows the pool and replaces    *)
(* the pair, the others wait for that on a futex.                          *)
(*                                                                         *)
(* One action is one atomic access of shared memory, or a system call. The *)
(* fields that only the holder of device->mutex writes are read under it   *)
(* together; those of the last lines of anv_block_pool_grow are read after *)
(* the unlock, in either order, one at a time.                             *)
(*                                                                         *)
(* A thread is "idle", before another fetch-and-add ("add"), in futex_wait     *)
(* ("wait", "sleep"), in anv_block_pool_grow ("lock", "front", "size",     *)
(* "expand", "bo", "read", "read2"), before the exchange ("publish") or    *)
(* the futex_wake ("wake") after it, or about to return ("return").        *)
(***************************************************************************)
EXTENDS Integers

CONSTANTS
  Threads,
  Sizes,        \* the block sizes asked for
  InitialSize,  \* of the buffer object
  PageSize,     \* PAGE_SIZE
  Word,         \* 2^32: the range of a uint32_t
  MaxFails,     \* bound: how often mmap or userptr fail
  NoThread,     \* device->mutex is free
  NoBlock       \* no block is decided (in the refinement)

Sides == {"front", "back"}

ASSUME AnvBlockPoolAssumption ==
  /\ Sizes \subseteq Nat \ {0}
  /\ InitialSize \in Nat \ {0} /\ PageSize \in Nat \ {0}
  /\ InitialSize % PageSize = 0
  /\ Word \in Nat /\ InitialSize < Word
  /\ NoBlock \notin [side : Sides, offset : Nat, size : Nat]
  /\ MaxFails \in Nat
  /\ NoThread \notin Threads

VARIABLES
  state,             \* pool->state ("front") and pool->back_state ("back")
  center_bo_offset,
  bo_size,           \* pool->bo.size
  map,               \* what pool->map reaches: to the back and to the front
  mutex,             \* the holder of device->mutex
  bpc,               \* each thread
  call,              \* its call: the side and the block_size
  got,               \* the pair its last fetch-and-add returned
  tmp,               \* what it has read or computed in anv_block_pool_grow
  fails              \* failed system calls so far

pool   == <<center_bo_offset, bo_size, map>>
locals == <<call, got, tmp>>
bvars  == <<state, pool, mutex, bpc, locals, fails>>

NoCall == [side |-> "front", size |-> 0]
NoPair == [next |-> 0, end |-> 0]
Nothing == [read |-> "nothing"]

\* anv_block_pool_init, which maps initial_size in front of the centre.
BlockPoolInit ==
  /\ state = [s \in Sides |-> NoPair]
  /\ center_bo_offset = 0 /\ bo_size = InitialSize
  /\ map = [back |-> 0, front |-> InitialSize]
  /\ mutex = NoThread
  /\ bpc = [t \in Threads |-> "idle"]
  /\ call = [t \in Threads |-> NoCall]
  /\ got = [t \in Threads |-> NoPair]
  /\ tmp = [t \in Threads |-> Nothing]
  /\ fails = 0

Goto(t, l) == bpc' = [bpc EXCEPT ![t] = l]
Keep(t, v) == tmp' = [tmp EXCEPT ![t] = v]

\* state.next + block_size of the thread that has to grow the pool.
NewNext(t) == got[t].next + call[t].size

-----------------------------------------------------------------------------
(* anv_block_pool_alloc_new *)

\* Faulty variant: every thread whose block does not fit grows the pool.
OutcomeTooLate(p, n) ==
  CASE p.next + n <= p.end -> "return"
    [] p.next + n > p.end  -> "lock"

\* What the pair that the fetch-and-add returned tells the thread to do.
Outcome(p, n) ==
  CASE p.next + n <= p.end                -> "return"
    [] p.next + n > p.end /\ p.next <= p.end -> "lock"
    [] OTHER                              -> "wait"

FetchAndAdd(t, s, n) ==
  /\ got' = [got EXCEPT ![t] = state[s]]
  /\ state' = [state EXCEPT ![s].next = @ + n]
  /\ Goto(t, Outcome(state[s], n))
  /\ UNCHANGED <<pool, mutex, tmp, fails>>

Call(t, s, n) ==
  /\ bpc[t] = "idle"
  /\ call' = [call EXCEPT ![t] = [side |-> s, size |-> n]]
  /\ FetchAndAdd(t, s, n)

\* continue
Retry(t) ==
  /\ bpc[t] = "add"
  /\ FetchAndAdd(t, call[t].side, call[t].size)
  /\ UNCHANGED call

\* futex_wait(&pool_state->end, state.end): it does not sleep if the value
\* has changed. A wait that a signal interrupts, whose retry would add to
\* next once more, is left out.
FutexWait(t) ==
  /\ bpc[t] = "wait"
  /\ Goto(t, IF state[call[t].side].end = got[t].end THEN "sleep" ELSE "add")
  /\ UNCHANGED <<state, pool, mutex, locals, fails>>

\* Faulty variants: what the waiting threads have added counts as handed
\* out, and the waiting threads are not woken.
PublishKeepsNext(t) ==
  LET s == call[t].side IN
  /\ bpc[t] = "publish"
  /\ state' = [state EXCEPT ![s].end = tmp[t].end]
  /\ Goto(t, IF state[s].next # got[t].next THEN "wake" ELSE "return")
  /\ Keep(t, Nothing)
  /\ UNCHANGED <<pool, mutex, call, got, fails>>
PublishSilently(t) ==
  LET s == call[t].side IN
  /\ bpc[t] = "publish"
  /\ state' = [state EXCEPT ![s] = [next |-> NewNext(t), end |-> tmp[t].end]]
  /\ Goto(t, "return")
  /\ Keep(t, Nothing)
  /\ UNCHANGED <<pool, mutex, call, got, fails>>

\* The exchange of the pair after the pool has grown.
Publish(t) ==
  LET s == call[t].side IN
  /\ bpc[t] = "publish"
  /\ state' = [state EXCEPT ![s] = [next |-> NewNext(t), end |-> tmp[t].end]]
  /\ Goto(t, IF state[s].next # got[t].next THEN "wake" ELSE "return")
  /\ Keep(t, Nothing)
  /\ UNCHANGED <<pool, mutex, call, got, fails>>

\* futex_wake(&pool_state->end, INT_MAX)
FutexWake(t) ==
  /\ bpc[t] = "wake"
  /\ bpc' = [u \in Threads |->
               IF u = t THEN "return"
               ELSE IF bpc[u] = "sleep" /\ call[u].side = call[t].side THEN "add"
               ELSE bpc[u]]
  /\ UNCHANGED <<state, pool, mutex, locals, fails>>

\* The offset handed to the caller; alloc_back counts it downwards from the
\* centre and returns the start of the block.
Result(t) ==
  IF call[t].side = "front" THEN got[t].next
                            ELSE -(got[t].next + call[t].size)

Return(t) ==
  /\ bpc[t] = "return"
  /\ call' = [call EXCEPT ![t] = NoCall]
  /\ got' = [got EXCEPT ![t] = NoPair]
  /\ Goto(t, "idle")
  /\ UNCHANGED <<state, pool, mutex, tmp, fails>>

-----------------------------------------------------------------------------
(* anv_block_pool_grow and anv_block_pool_expand_range *)

AlignPage(n) == ((n + PageSize - 1) \div PageSize) * PageSize
MAX2(a, b) == IF a >= b THEN a ELSE b

\* The lock, and the read of back_state.next, which other threads advance.
GrowLock(t) ==
  /\ bpc[t] = "lock" /\ mutex = NoThread
  /\ mutex' = t
  /\ Keep(t, [back_used |-> AlignPage(state["back"].next)])
  /\ Goto(t, "front")
  /\ UNCHANGED <<state, pool, call, got, fails>>

\* Faulty variant: nothing keeps the ends from shrinking.
CenteredShrinks(size, back_used, front_used, back_required, front_required) ==
  LET ratio == (size * back_used) \div (back_used + front_used)
  IN  IF back_used = 0 THEN 0 ELSE (ratio \div PageSize) * PageSize

\* The new centre: in proportion to what is used, but neither end shrinks.
Centered(size, back_used, front_used, back_required, front_required) ==
  LET ratio   == (size * back_used) \div (back_used + front_used)
      aligned == MAX2((ratio \div PageSize) * PageSize, back_required)
  IN  IF back_used = 0 THEN 0
      ELSE IF size - aligned < front_required THEN size - front_required
      ELSE aligned

\* The read of state.next, and the decision: there is room enough on both
\* sides already, or the pool has to be twice as large at least.
GrowDecide(t) ==
  LET back_used      == tmp[t].back_used
      front_used     == AlignPage(state["front"].next)
      back_required  == MAX2(back_used, center_bo_offset)
      front_required == MAX2(front_used, bo_size - center_bo_offset)
  IN
  /\ bpc[t] = "front"
  /\ IF back_used * 2 <= back_required /\ front_used * 2 <= front_required
     THEN mutex' = NoThread /\ Keep(t, Nothing) /\ Goto(t, "read")
     ELSE /\ Keep(t, [back_used |-> back_used, back_required |-> back_required,
                      front_used |-> front_used, front_required |-> front_required,
                      size |-> bo_size * 2])
          /\ Goto(t, "size")
          /\ UNCHANGED mutex
  /\ UNCHANGED <<state, pool, call, got, fails>>

\* while (size < back_required + front_required) size *= 2
GrowDouble(t) ==
  /\ bpc[t] = "size" /\ tmp[t].size < tmp[t].back_required + tmp[t].front_required
  /\ tmp' = [tmp EXCEPT ![t].size = @ * 2]
  /\ UNCHANGED <<state, pool, mutex, bpc, call, got, fails>>

GrowCenter(t) ==
  LET v == tmp[t] IN
  /\ bpc[t] = "size" /\ v.size >= v.back_required + v.front_required
  /\ Keep(t, [center |-> Centered(v.size, v.back_used, v.front_used,
                                  v.back_required, v.front_required),
              size |-> v.size])
  /\ Goto(t, "expand")
  /\ UNCHANGED <<state, pool, mutex, call, got, fails>>

\* mmap and userptr succeed: the pool gets its new map and centre ...
Expand(t) ==
  /\ bpc[t] = "expand"
  /\ map' = [back |-> tmp[t].center, front |-> tmp[t].size - tmp[t].center]
  /\ center_bo_offset' = tmp[t].center
  /\ Goto(t, "bo")
  /\ UNCHANGED <<state, bo_size, mutex, locals, fails>>

\* ... and, in anv_bo_init, its new size; then the unlock.
ExpandBo(t) ==
  /\ bpc[t] = "bo"
  /\ bo_size' = tmp[t].size
  /\ mutex' = NoThread
  /\ Keep(t, Nothing)
  /\ Goto(t, "read")
  /\ UNCHANGED <<state, center_bo_offset, map, call, got, fails>>

\* mmap or userptr fails: anv_block_pool_grow returns 0, which is too small.
ExpandFail(t) ==
  /\ bpc[t] = "expand" /\ fails < MaxFails
  /\ fails' = fails + 1
  /\ mutex' = NoThread
  /\ Keep(t, Nothing)
  /\ Goto(t, "lock")
  /\ UNCHANGED <<state, pool, call, got>>

\* } while (new.end < new.next)
Enough(t, end) == IF end < NewNext(t) THEN "lock" ELSE "publish"

\* The mutex has been released when the result is read. The back side reads
\* one field ...
ReadCenter(t) ==
  /\ bpc[t] = "read" /\ call[t].side = "back"
  /\ Keep(t, [end |-> center_bo_offset])
  /\ Goto(t, Enough(t, center_bo_offset))
  /\ UNCHANGED <<state, pool, mutex, call, got, fails>>

\* ... the front side two, in an order that is up to the compiler.
ReadFirst(t) ==
  /\ bpc[t] = "read" /\ call[t].side = "front"
  /\ \/ Keep(t, [read |-> "center", value |-> center_bo_offset])
     \/ Keep(t, [read |-> "size", value |-> bo_size])
  /\ Goto(t, "read2")
  /\ UNCHANGED <<state, pool, mutex, call, got, fails>>

ReadSecond(t) ==
  LET v   == tmp[t].value
      end == IF tmp[t].read = "center" THEN (bo_size - v) % Word
                                       ELSE (v - center_bo_offset) % Word
  IN
  /\ bpc[t] = "read2"
  /\ Keep(t, [end |-> end])
  /\ Goto(t, Enough(t, end))
  /\ UNCHANGED <<state, pool, mutex, call, got, fails>>

-----------------------------------------------------------------------------
Grow(t) ==
  \/ GrowLock(t) \/ GrowDecide(t) \/ GrowDouble(t) \/ GrowCenter(t)
  \/ Expand(t) \/ ExpandBo(t) \/ ExpandFail(t)
  \/ ReadCenter(t) \/ ReadFirst(t) \/ ReadSecond(t)

\* The steps of a call but the last, which gives the block to the caller.
AllocStep(t) ==
  Retry(t) \/ FutexWait(t) \/ Publish(t) \/ FutexWake(t) \/ Grow(t)

BlockPoolNext ==
  \E t \in Threads :
    \/ AllocStep(t) \/ Return(t)
    \/ \E s \in Sides, n \in Sizes : Call(t, s, n)

\* The pool with clients that call it in any way.
BlockPoolSpec == BlockPoolInit /\ [][BlockPoolNext]_bvars

-----------------------------------------------------------------------------
(* Properties *)

Growing(t) == bpc[t] \in {"lock", "front", "size", "expand", "bo", "read", "read2",
                       "publish"}

\* "pool_state->next acts a mutex": no two threads grow the same side of the
\* pool, so that no exchange overwrites the pair that another one has written.
OneGrower ==
  \A t, u \in Threads :
    Growing(t) /\ Growing(u) /\ call[t].side = call[u].side => t = u

\* The pool's map reaches every block that has been handed out at the back;
\* it reaches every block at the front as long as the pool is only used
\* there, as most users of the block pool do.
MapCoversBlocks ==
  /\ state["back"].end <= map.back
  /\ \A t \in Threads :
       bpc[t] = "publish" /\ call[t].side = "back" => tmp[t].end <= map.back
  /\ state["back"].next = 0 => state["front"].end <= map.front

\* "Assert that we only ever grow the pool" in anv_block_pool_expand_range.
OnlyEverGrows ==
  \A t \in Threads : bpc[t] = "expand" =>
    /\ tmp[t].center >= state["back"].end
    /\ (tmp[t].size - tmp[t].center) % Word >= state["front"].end

\* What is handed out on a side: up to the block of the thread that is
\* growing it, if there is one, whatever the waiting threads have added.
Used ==
  [s \in Sides |->
     IF \E t \in Threads : Growing(t) /\ call[t].side = s
     THEN NewNext(CHOOSE t \in Threads : Growing(t) /\ call[t].side = s)
     ELSE state[s].next]

Decided(t) == Growing(t) \/ bpc[t] \in {"wake", "return"}

Abstract ==
  INSTANCE BumpAllocator
    WITH used  <- Used,
         block <- [t \in Threads |->
                     IF Decided(t)
                     THEN [side |-> call[t].side, offset |-> got[t].next,
                           size |-> call[t].size]
                     ELSE NoBlock]

\* The lock-free allocation and the growth of the pool implement consecutive
\* blocks on each side: no overlap, and nothing lost.
ImplementsBumpAllocator == Abstract!Spec
=============================================================================
