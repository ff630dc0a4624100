# Mesa: the concurrent core in TLA+

Mesa's drivers and state trackers are mostly sequential, but they stand on a small
set of shared concurrent components: a futex mutex, a fence, a worker-thread queue,
allocators whose objects migrate between threads or are handed out without a lock, and
the batch rings that feed work from an application thread to a worker. Those are short, are used everywhere,
have hardly any tests (`src/util/tests` covers hash tables, strings and the VMA heap,
not the queue), and go wrong only under particular interleavings. They are what this
project models, checks with TLC and proves with TLAPS.

## Inventory

| component | source | state | operations | what is hard |
|---|---|---|---|---|
| `simple_mtx` | `src/util/simple_mtx.h`, `futex.h` | one word: 0 free, 1 held, 2 held and contended | lock, unlock | lost wake-ups, a word of 1 while a thread sleeps |
| `util_queue_fence` | `src/util/u_queue.h`, `u_queue.c` | a word (0 signalled, 1 not, 2 not and waited for), or a flag with mutex and condition | init, destroy, reset, signal, wait, wait with a timeout | a wake call that comes after the fence was reset; destroying the fence under a signaller; timeouts across interrupted waits and across clocks |
| `util_queue` | `src/util/u_queue.c` | a ring of jobs with two indices and a counter, `kill_threads`, `num_threads`, `finish_lock` | add, drop, finish, destroy, the exit handler; the workers | full against empty ring, growing, dropping a job while it is taken, barriers of finish, shutdown at any moment |
| `util_barrier` | `src/util/u_thread.h` | a count and the waiters | wait | two barriers at a time |
| `glthread` | `src/mesa/main/glthread.c`, `marshal.h` | a ring of batches with fences, `next`, `last` | allocate a command, flush, finish, destroy; unmarshal | batches are not locked: only the size of the ring and the queue keep the two threads apart |
| slab allocator | `src/util/slab.c` | per pool: a free list, a migrated list, pages; per element an owner | create, alloc, free, destroy | an element is freed by another thread while its pool dies |
| threaded context | `src/gallium/auxiliary/util/u_threaded_context.c`, `u_range.h` | a ring of batches, a queue of one worker; per buffer the latest storage and the range that may hold data; per query a flag and a list | record a call, sync, flush with or without a fence, map, upload, invalidate, end a query and get its result | as glthread; and whether a map may skip the sync, fences that exist before their flush does, flags set late |
| buffer caches | `src/gallium/auxiliary/pipebuffer/` | buckets of idle buffers with expiry times, slabs, fenced lists | reclaim, add, expire | time, busy buffers, reuse |
| anv allocator | `src/intel/vulkan/anv_allocator.c` | block pool: a `{next, end}` pair per side, the map and its centre; state pool: lock-free free lists and a current block per size | alloc, alloc at the back, free, grow | ABA, stale links, growing while others allocate, two sides that grow at a time |
| WSI queue and X11 present thread | `src/vulkan/wsi/` | a blocking queue of image indices | push, pull with a timeout | image accounting, timeouts |
| VMA heap, hash table, set | `src/util/vma.c`, `hash_table.c`, `set.c` | hole list; open-addressed table with tombstones | alloc, free; insert, search, remove, rehash | edges at 0 and 2^64, tombstones |
| disk cache | `src/util/disk_cache.c` | a directory and a size counter shared between processes | put, get, evict | several processes, partial writes |
| llvmpipe fences and scene queue, amdgpu submission, DRI3 loader | `src/gallium/drivers/llvmpipe/`, `src/gallium/winsys/amdgpu/`, `src/loader/` | counters, queues, buffer lists | | users of the components above |
| compilers, GL front end, hardware drivers, addrlib | the rest | | | sequential; not modelled |

How they interact: `util_queue` uses one fence per job; `glthread`, the threaded
context, the shader compilers of radeonsi and the amdgpu winsys put jobs on a
`util_queue`; `simple_mtx` protects GL objects, the winsyses and the buffer caches;
the threaded context and the drivers allocate transfers from slabs, and free them on
another thread than the one that allocated them; in anv the state pool takes its blocks
from the block pool, and its free lists live in the memory that it hands out.

## Modules

| module | models | role |
|---|---|---|
| `SimpleMtx` | `simple_mtx_lock`, `simple_mtx_unlock`, `futex_wait`, `futex_wake` | |
| `AbstractFence` | what a fence promises | specification |
| `QueueFence` | the futex fence | implements `AbstractFence` |
| `QueueFenceStd` | the fence with `mtx_t` and `cnd_t` | implements `AbstractFence` |
| `ThreadPool` | what a `util_queue` promises | specification |
| `UtilQueue` | `u_queue.c` | implements `ThreadPool` |
| `GLThread` | `glthread.c` and `marshal.h` on top of `ThreadPool` | composition |
| `Slab` | `slab.c` | |
| `ThreadedContext` | `u_threaded_context.c` on top of `ThreadPool` | composition |
| `BumpAllocator` | what a block pool promises: consecutive blocks on each side | specification |
| `AnvBlockPool` | `anv_block_pool_alloc_new`, `anv_block_pool_grow`, `anv_block_pool_expand_range` | implements `BumpAllocator` |
| `AnvStatePool` | the state pool on top of `AnvBlockPool` | composition |
| `MC...` | instances for TLC | |
| `SimpleMtxProofs`, `QueueFenceProofs`, `QueueFenceStdProofs`, `UtilQueueProofs`, `GLThreadProofs`, `SlabProofs`, `ThreadedContextProofs`, `AnvStatePoolProofs` | the theorems about each, `AnvStatePoolProofs` also those about `AnvBlockPool` | proofs |

Operators introduced as a *faulty variant* (`FetchJobNoMemset`, `SignalNoWake`, ...)
stand before the definition they are a variant of. They are not part of any
specification; each is a plausible mistake in that code, and a property listed beside
it in `PROJECT.json` (`mutants`) fails when the variant takes the definition's place.

### SimpleMtx

`val` is `mtx->val`, `pc` the place of each thread. Every atomic instruction of
`simple_mtx_lock` and `simple_mtx_unlock` is an action of its own: the
compare-and-swap (`LockCas`), the exchange with 2 (`LockXchg`), the decrement
(`UnlockSub`), the store of 0 and the `futex_wake`. `FutexWait` is the kernel's atomic
test of the word; `SpuriousWake` an interrupted wait. Only the futex build is
modelled; the other one forwards to `mtx_t`.

### QueueFence, QueueFenceStd

`QueueFence` has one action for each atomic access to `fence->val`: the load and
compare-and-swap of `do_futex_fence_wait`, its `futex_wait`, the exchange of
`util_queue_fence_signal` and the `futex_wake` after it, which may come arbitrarily
late, also when the fence has been reset and used again. `Expire` lets the deadline of
a timed waiter pass, `FutexTimeout` is `ETIMEDOUT`, `Interrupted` any other early
return. The rules the header states (do not reset while someone waits; signal once
per reset) are guards of `Reset` and `Signal`.

`QueueFenceStd` has the same interface over a mutex and a condition variable, plus
what only this build needs: the lock-unlock handshake of `util_queue_fence_destroy`,
the initialization of a new fence at the same address, and the conversion of a
deadline between two clocks (`now` is `os_time_get_nano`, `now + UtcOffset` is
`TIME_UTC`).

### UtilQueue

The variables are the fields of `struct util_queue`, the fence of each job, and for
each thread a program counter and its locals. Each critical section under
`queue->lock` is one action, because every field of the ring is only accessed there.
What happens outside it is separate: the early test of `util_queue_drop_job`, the
signal of a fence after `execute`, reading `num_threads` in `util_queue_finish`.
`cnd_signal` wakes any one waiter, `cnd_wait` may also return by itself
(`SpuriousFetch`, `SpuriousSpace`). `util_queue_finish` queues its barrier jobs through
the same `AddJob`. `Visited` is the set of slots that a loop from `read_idx` to
`write_idx` visits: none when the indices are equal. The clients keep the rules of
`u_queue.h`: a job is added only when its fence is signalled and nobody uses it, and a
job is dropped after its `util_queue_add_job` has returned. The number of calls is
bounded (`MaxOps`).

Jobs and fences are one identifier: the code ties them together, and nothing else in a
job matters to the queue. A cleanup callback called by `util_queue_drop_job` inside the
lock has no state here.

### GLThread

The two threads share `used` and `buffer` of each batch with no lock. The queue is
`ThreadPool`, so what is shown about `GLThread` rests on `ImplementsPool` of
`UtilQueue`. The buffer of a batch is the sequence of its commands' program-order
numbers, with `used` kept in (scaled) bytes so that the fill test of
`_mesa_glthread_allocate_command` is the code's own. `SyncCall` stands for the
marshal functions that finish and then call the server dispatch directly,
`RestoreDispatch` for those that end the threading (`marshalling` says which table the
application's calls go through), and `Destroy` for `_mesa_glthread_destroy`, which kills
the worker with `ThreadPool`'s `GiveUp`: that nothing is given up is `FinishMeansIdle`.
`after` is what the caller of `_mesa_glthread_finish` does next.

### Slab

A thread is identified with the child pool it uses, which is the documented rule.
Lists are sequences, pages are addresses that `malloc` may return again, and a
destroyed pool may be created again at the same address. The sections under the
parent's mutex are atomic; `slab_free_orphaned` outside it is a step of its own per
element, except inside `slab_destroy_child`'s critical section.

### ThreadedContext

Each action is what one thread does between two points where the other can interfere.
`calls` is the list of recorded calls of each batch, a call being what its execution does
to a query, a fence or the buffer; all calls with no such effect are one kind. The two
sizes of a call (one slot or two) and three slots per batch make every call overflow a
batch at some point, so that every caller of `tc_add_sized_call` is seen with a
`tc_batch_flush` in the middle of it (`pending`, `after`). `tc_batch_execute` runs call
by call, in the driver thread or in `_tc_sync`, and `tc_flush_queries` query by query,
with the list and the flag as separate steps.

The buffer is a set of cells; `mem` has the contents of each storage that an invalidation
has created, `storage` is the one the driver uses and `latest` the one the application maps,
`valid` is `valid_buffer_range`, an interval as in `u_range.h`. `Path` is
`tc_improve_map_buffer_flags` as a decision: staging copy, map without a sync,
invalidation first, or sync. `contents` is a history variable: what the cells would hold if every call
were executed when it is made, with 0 for a cell of which the application has said that
nobody needs it (never written, or discarded). The rule for `PIPE_TRANSFER_UNSYNCHRONIZED`, that the
application knows that the range is unused, is a guard.

A call that writes the buffer when it is executed either adds what it writes to the valid
range when it is recorded (`RecordWrite`), or leaves the range alone (`WriteUntracked`):
`tc_get_query_result_resource`, and a draw that writes to what is bound. What is bound has
been added by `tc_set_shader_buffers`, `tc_set_shader_images` (`BindForWrite`) or
`tc_create_stream_output_target` (`CreateTarget`), not by `tc_make_image_handle_resident` and
`tc_set_stream_output_targets` (`BindUntracked`), and an invalidation empties the range under a
binding. `untracked` is a history variable with the cells that were written while
the range lacked them. `BuffersInProgramOrder` is about all other cells; for the untracked ones
the code does not keep it (see below).

`client` says which group of features an application uses: buffers, or the list of
unflushed queries with fences. The groups share batches, syncs and direct calls. The one call in both,
`tc_get_query_result_resource`, is in the group of the buffers: to a query it does nothing that
the list or the flag records. So one run has both groups without their product.

`threaded_context_unwrap_sync`, and every function that syncs and then calls the driver,
is `SyncCall` followed by `DirectCall`. `Destroy` kills the worker by `ThreadPool`'s
`GiveUp`; that nothing is given up is part of `DirectCallsAlone`.

### AnvBlockPool, AnvStatePool

An action is one atomic access to shared memory or one system call. The block pool keeps
for each side a 64-bit pair that is advanced by a fetch-and-add and replaced by an
exchange after a growth. `GrowLock` to `ExpandBo` are the section under `device->mutex`:
the two `next` fields are read one after the other since other threads advance them, the
map, the centre and the size are written in the code's order, and the doubling loop is
an action that repeats. The two fields that `anv_block_pool_grow` reads after the unlock
are two steps in either order (`ReadFirst`, `ReadSecond`), the difference taken modulo
the word. `ExpandFail` is a failing `mmap` or `userptr`, after which the caller's loop
tries again: at most `MaxFails` times, while the code tries without limit
(`anv_allocator.c:570-572`), so that `CallsReturn` says nothing of an `mmap` that fails for
ever, on which the code loops for ever. The doubled size does not overflow 32 bits, and the
bounds of the memfd, which `anv_block_pool_expand_range` asserts (`328-331`), are not in the model:
the pool of the instance is far from both. `futex_wait` compares and sleeps atomically. It is not interrupted in the model: an
interruption is one more fetch-and-add, of the kind that a late waiter makes anyway, but
without a bound on how often.

The state pool has a free list for each power of two and one for the back. `link` is the
first word of a chunk: a client overwrites it when it gets the chunk (`Garbage`), and a
thread in `anv_free_list_pop` may read it all the same. The chain that
`anv_free_list_push` builds is private until its exchange and is written in one step.
`Split` is the two-level split of a larger chunk. The composition is conjunction: a
thread in `"block"` takes the steps of `AnvBlockPool`, and `Call` and `Return` are
conjoined with the state pool's own step.

## Runs

| run | instance | shows |
|---|---|---|
| `simple_mtx` | 3 threads | exclusion, no lost wake-up, progress |
| `queue_fence` | 3 waiters, one timed; 2 signallers | sleepers are announced or about to be woken; refinement; waits end |
| `queue_fence_std` | 2 waiters, one timed; 2 signallers; clock up to 3 | a destroyed fence is not touched; refinement; waits end |
| `util_queue` | 2 workers, 2 clients, 2 jobs and the barrier jobs, ring of 2, 2 calls each | ring shape, one holder per unsignalled fence, finish, refinement of `ThreadPool`, every job and every call completes |
| `queue_resize` | 1 worker, 2 clients, 3 jobs, ring of 2 that grows | the same through a growth of the ring |
| `queue_shutdown` | 2 workers, 2 clients, 2 jobs, ring of 4 | shutdown with a ring that is never full |
| `glthread` | 4 batches of 2 aligned units, 7 commands | order, separation of the threads, finish, progress |
| `slab` | 3 pools, 2 pages of 2 elements | every element in one place, orphaned pages freed exactly once |
| `anv_pools` | 2 threads, 5 calls, states of 1, 4 and a back block of 2 (the bucket of 2 fills by splitting), block size 2, page size 2, pool of 4 growing to 16, one failing `mmap` | every byte in one place; one grower per side; the map covers the blocks; refinement of `BumpAllocator`; every call returns |
| `anv_grow_race` | the same | **violation**: see below |
| `threaded_context` | 3 batches of 3 slots, 4 calls, 2 fences, 1 query, 2 cells, 2 writes, 1 invalidation | draws and maps see the contents of program order, but for cells written untracked; direct calls are alone; tokens; fences become ready |
| `tc_query` | queries and fences only, 5 calls | **violation**: see below |

Why the bounds are enough for the questions asked. Two workers and two clients give
every pair of racing operations; two jobs, or a job and the two barrier jobs of a finish,
fill a ring of two with another producer waiting. Three threads
are needed in `simple_mtx` for a holder, a sleeper and one that barges in between
them, and three pools in `slab` for an owner that dies and two others that give up its
last elements. In `anv_pools` one thread at each side, or two at one, give every pair of
racing operations of the block pool, and five calls are enough for ABA on a free list (a
stale pop against a pop, a pop, a push of the first chunk and its own exchange: the
variant without the counter fails) and for a split chunk to be used from both sides. Three
batches are the least that the threaded context's formula for the queue allows, so four calls fill the
queue, and a fifth is only needed for the queries' scenario. Seven commands of one or two aligned units wrap a ring of four batches.
Deadlock checking is off in the queue, GL, threaded context and anv runs because the
bounded clients may legitimately stop calling; the liveness properties there say that nothing stops in the
middle of a call. Symmetry is used only in `slab`, which has no liveness property.

### Fairness

`FairSpec` gives weak fairness to the steps of a thread that is inside one of the
functions or is a worker: threads are preemptively scheduled and job callbacks return.
`Spec` of `ThreadedContext` and `AnvStatePool` does the same for the driver thread, a call
in progress and a thread inside an allocation; with a bounded number of calls, a
compare-and-swap that fails again and again would need others that succeed for ever.
No fairness is given to making a call, to spurious wake-ups or interrupted waits. A lock that is
free is eventually taken by a thread waiting for it; where several compete the
properties only ask for what weak fairness gives (`SomeoneGetsIn` says that somebody
gets the mutex, not that everybody does, as `simple_mtx` is not fair). In `QueueFenceStd`
the clock has a bound, so nothing is concluded from time alone.

### Disagreements found

1. `anv_grow_race` — `anv_block_pool_grow` reads `bo.size` and `center_bo_offset` after it
   has released the mutex (`anv_allocator.c:541`). When the other side of the pool grows
   in between, the front gets an `end` made of a new size and an old centre, beyond what
   is mapped; the next growth fails the assertion that the pool only ever grows
   (`anv_allocator.c:326`), and in a build without assertions blocks outside the pool are
   handed out. It needs a pool that is used at both ends; this is why the last part of
   `MapCoversBlocks`, about the front, is restricted to pools whose back is unused.
2. `tc_query` — `tc_get_query_result` edits the list of unflushed queries "after we
   sync'd" (`u_threaded_context.c:434`), but the sync is skipped if `flushed` is set, and
   the driver thread sets it for an *earlier* end of the same query.

Met while modelling, described here and modelled as the code has it, without a run
of their own:

* `_util_queue_fence_wait_timeout` of the condition-variable build computes the relative
  time left and then adds the *absolute* timeout to the current time (`u_queue.c:176`):
  the wait ends late. `Deadline` of `QueueFenceStd` does the same.
* When the workers are killed with a full ring, the loop that should "signal remaining
  jobs" visits nothing, as `read_idx` equals `write_idx` (`u_queue.c:295`); waiters on
  those fences hang. A producer that waited for space is then let in, meets a slot that
  was not cleared, and the assertion of `u_queue.c:506` fails. `queue_shutdown` has a
  ring that does not fill up.
* `util_queue_drop_job` does not find a job in a full ring for the same reason
  (`u_queue.c:536`): it waits for the job to run, and does not remove it as documented.
* The exit handler running while another thread is between the barrier jobs of a
  `util_queue_finish` hangs (`u_queue.c:581`): the later jobs are refused, and a worker
  waits at the barrier for ever. `queue_shutdown` has no `util_queue_finish`.
* `tc_improve_map_buffer_flags` maps without a sync if "the buffer range being mapped has
  never been initialized" (`u_threaded_context.c:1393-1394`), and decides it by the valid
  range. `tc_get_query_result_resource` (`461-478`) records a write of the buffer without
  `util_range_add`: a map for writing, or a `buffer_subdata`, of what it is about to write does
  not wait for it, and the query's result then overwrites what the application has
  written since. TLC finds this if `untracked` is kept empty: the result is recorded, the range is
  mapped and written, and a map for reading, which syncs, finds the result of the query.
  Draws that write to an image made resident by `tc_make_image_handle_resident` have the
  same effect, and those that write to a stream output target, or to a shader buffer, whose
  range an invalidation has emptied since it was added (`1322`); for shader buffers the
  state tracker helps, which binds again after an invalidation. `BuffersInProgramOrder`
  leaves out the cells that were written so, and no others.
* `tc_flush` takes the token of the current batch and then records the flush, which may
  submit that batch and land in the next one: the fence's token is detached although its
  deferred flush is not submitted. `threaded_context_flush` then does nothing for it; the
  caller has to sync, as radeonsi's `si_fence_finish` does.

## Proofs

All proofs are for arbitrary constants. Each safety theorem has the same outline:
`Init => IInv`, one step per action for `IInv /\ [Next]_vars => IInv'`, and PTL.

* `SimpleMtxProofs`. The inductive invariant adds to exclusion that the word is nonzero
  exactly when somebody owns the mutex, and is 2 while an unlocker that must wake is
  between its store and its wake. From it: `MutexExcludes` and `WakeupNotLost` (a sleeper
  implies that the word is 2, or that someone is about to store 2 or to wake).
* `QueueFenceProofs`. `TypeCorrect`; `WakeupNotLost`, that a sleeping waiter sees the
  word 2 or a signaller on its way to `futex_wake`; and `Implementation`, that a wait
  that returns success does so at a moment when the fence is signalled.
* `QueueFenceStdProofs`. `DestroySafe` needs that a signaller is inside
  `util_queue_fence_signal` exactly while it owns the mutex (`MutexOwned`), and that a
  destructor starts on a signalled fence nobody waits on and that it stays so
  (`DestroyQuiet`); then the handshake finds the last signaller gone. `Implementation` is
  the refinement of the same `AbstractFence`; the clocks play no part in it.
* `UtilQueueProofs`. `TypeCorrect` covers shutdown: indices and counters stay inside
  the ring. `RingCounts`: `num_queued` and the two indices agree, which is
  inductive given the types, because every action moves one index and the counter
  together and growth only happens when the ring is full. `RingInShape` adds that free
  slots are zeroed; it assumes that the queue is not shut down, because the drain of
  a full ring is exactly how it fails otherwise. `SignalledMeansDone` and `UnsignalledIsHeld`: in a queue that
  is not shut down every job has at most one holder (a slot, a worker or a client), and
  has one exactly while its fence is unsignalled, so that a fence is signalled once per
  reset and never forgotten. The inductive invariant `FenceInv` says more than the two
  properties: no two clients use one job (`ClientsDistinct`); a producer about to reset
  a fence finds it signalled; and the barrier jobs that `util_queue_finish` reuses from
  call to call are unsignalled only for the loop indices its two loops say
  (`BarrierFences`). Without the last part a second call could reset the fence
  of a barrier job that is still queued. It uses `RingInShape` for the slot that
  `util_queue_add_job` overwrites, and that a full ring is copied completely, as a
  rotation, when it grows (`GrowFills`). `Implementation`, the refinement of `ThreadPool`,
  reads the ring from `read_idx` as a sequence: a worker takes its head (`FifoTake`), a
  producer appends to it (`FifoPut`), growth leaves it as it is (`FifoGrow`), and
  `util_queue_drop_job` puts the empty job in the place of one element (`FifoDrop`); every
  other step is a stutter or changes the fences alone. `FinishComplete`, that
  `util_queue_finish` returns when all that was pending at the call is executed and
  signalled or dropped, follows the jobs that the caller is owed (`OwedInv`): they are
  unsignalled, and no client holds them, for the producers have put them in the ring
  before; in the ring they are ahead of the caller's barrier jobs (`OwedAhead`), so that
  they have left it when a worker takes one of those (`OwedTaken`); and the barrier counts
  the workers that wait at it (`BarrierCounts`). The last worker to arrive therefore
  finds every worker at the barrier, and none is left to hold a job that is owed
  (`BarrierOpened`). Both assume that the queue is not shut down.
* `GLThreadProofs`. `Ring`: measured as a distance behind `next`, the batches in the
  queue and with the worker are the last ones of the ring, in order, and `last` is the
  youngest; `Fences`: a fence is unsignalled exactly for those, and for a batch that
  waits for room. With the queue two places shorter than the ring the distance never comes
  round: `FillingFree`. A signalled fence of `last` then means that there are none:
  `FinishIdle`. For `InOrder`, `Order` says that each batch continues where the one before
  it ends, the oldest where execution stands. `Fits` is the arithmetic of the alignment.
* `SlabProofs`. `UniqueHomes` and `DistinctLists` say that an element is once in one list,
  with one thread or with the program; `Owned` that a pool's lists hold its own elements, or
  orphans while its destructor drains them; `ThreadPlaces` what a thread between the two
  halves of `slab_free` may have read. `Counted` relates the atomic counter of an orphaned
  page to the cardinality of what is left of it, with the library's theorems on finite
  sets: each decrement gives up one element that is nowhere else.
* `ThreadedContextProofs`. The invariant has two halves. `Control` is about the ring, as
  in `GLThreadProofs`, with the two executions of `tc_batch_execute`, the tokens and the
  place of the application. It makes the unexecuted calls one sequence `t` in program
  order, in which each batch has an offset (`Line(t, o)`; the pending call of a full batch
  is its last element). `Promise(t)` speaks of this sequence and of the buffer, and no
  longer of batches: a step of the application appends a call to `t`, the execution of a
  call removes the first, and every other step leaves `t` alone, even one that moves a
  batch through the ring. Its parts: the storages are replaced in the order of their
  creation (`Storing`); a draw in `t` will find in the storage of its time what it expects,
  since that is in memory and stays, or is written by a call before it (`DrawsFind`), and so
  would a draw recorded now (`EndFinds`); every cell of the latest storage that a call of `t` uses
  has contents, which are inside the valid range, unless it was written while the range lacked it (`Tracking`: this is why the test of
  `valid_buffer_range` allows a map without a sync); what is mapped so is used by no call of
  `t` (`Unsync`); a fence that is not ready has its flush in `t` (`Flushing`). `IInv` says that
  such `t` and `o` exist. From it `ProgramOrder`, `DirectAlone` (after `_tc_sync` the
  sequence is empty) and `TokenCurrent`.
* `AnvStatePoolProofs`, the block pool. The inductive invariant `BlockInv` has three parts beside the
  types. `GrowOK` explains why `next` acts as a mutex: the block of a growing thread
  crosses `end` (`GrowerCrosses`), and a side is used beyond its end only while somebody
  grows it (`CrossedIsGrowing`), so that a fetch-and-add can find `next <= end < next + size`
  only when nobody does. From this `OneThreadGrows`. `MapOK` follows a growth through its steps:
  who holds the mutex (`HolderOK`), that map, centre and size agree but for the two writes
  of an expansion (`Geometry`), that what the holder has computed shortens neither end
  (`GrowthPlan`, from the arithmetic of the clamps in `CenteredBounds`), and what the ends
  that are or will be published may be (`BackEnds`, `FrontEnds`). From this
  `MapReachesBlocks`. `BlocksAreConsecutive` is the refinement: `Used` is `next`, or, while a
  side grows, the end of the grower's block, because whatever the others have added behind it
  is taken back by the exchange; an allocation takes effect at the fetch-and-add that
  decides it, and all else is a stutter.
* `AnvStatePoolProofs`, the composition. `UsesBlockPool`: the state pool calls the block pool as
  `BlockPoolSpec` allows (needed: the size asked for is that of a list, `WantOK`). The three theorems carry over
  to the composed system.
* `AnvStatePoolProofs`, the free lists. `EveryByteHasOneHome` needs `HomeInv`, which has two parts.
  `StateInv` is what each thread knows: what it has read of a head is what is there, or
  the count has moved on (`ReadMatches`), and a link read from a chunk that was the head is the
  chunk's successor if the head has not changed since, whatever a client has written there meanwhile;
  one thread at most gets a bucket its next block, and what is left of a block is a number of whole
  chunks (`BucketOK`). `HeapOK` says that there are stacks `n`, `lev` that the links lead through
  (`Linked`), and that clients, stacks, rests of blocks, threads and chains divide the
  bytes of the block pool between them (`Partition`). The stacks are not a function of what is in memory:
  an exchange of `anv_free_list_pop` takes the top off, one of `anv_free_list_push` puts its chain on, and all other steps
  leave them alone. That an exchange with an unchanged head finds an unchanged list is the
  argument against ABA, and needs that the count has not come round: a call makes three
  exchanges at most (a pop and the two chains of `Split`), which is counted with tokens, three for every
  call, that an exchange hands from its thread to its list (`CountsOK`). Hence the hypothesis
  `3 * MaxOps < CountRange`: in the instance 15 < 32, in the code a limit of about
  1.4 billion calls over the life of the pool, since `count` has 32 bits. It is sufficient and far
  from necessary: in the code only the exchanges between a read of the head and the
  exchange that relies on it matter. That the model never runs out of addresses is `MemoryBound`. The
  facts that would be inductions over the length of a list or the number of a bucket
  (`FreeChunksAre`, `SizeFacts`) go by the least counterexample (`Least`).

Assumptions: those named in the modules (`UtilQueueAssumption` and so on): nonempty
finite sets of workers, a positive ring size, jobs distinct from the empty slot; rings of
at least three batches for `GLThread` and `ThreadedContext`, as the size of their queues
requires; the cells of a buffer are numbers, so that a range is an interval;
finitely many threads, and a bucket that is as large as a block, in the state pool.

Only model-checked: all liveness (TLAPS has no rules for fairness here); all that concerns
the shutdown of the queue. What `GLThreadProofs` and
`ThreadedContextProofs` say of the whole system rests on `ThreadPool` as the behaviour of the
queue, which `Implementation` of `UtilQueueProofs` establishes while it is not shut down.

## Not modelled

Memory ordering weaker than sequential consistency (the atomics used are full barriers
on the supported builds); the list of queues of the exit handler and a
`util_queue_init` whose later threads cannot be created; thread names, affinity and
priority; a `_mesa_glthread_finish` called from the worker itself, which returns at once
and changes nothing (`glthread.c:188-194`); GL statistics, other contexts' dispatch tables; the content of commands and jobs.
Of the threaded context: destroying queries, reference counts, explicit flushes of
mapped ranges, persistent maps, textures, `tc_resource_commit`, `tc_set_global_binding` (which syncs and, like
`BindUntracked`, adds nothing to the valid range), the HUD counters. Of the anv allocator: state
streams, the buffer object pool and its pointer list, scratch space, the buffer object cache.

The rest of the repository (compilers, API front ends, hardware drivers: two million
lines) is sequential translation of data; what is modelled here is a small part of it by
size, and the part where the order of steps decides.

## Plan

Done: `SimpleMtx`, `QueueFence`, `QueueFenceStd`, `UtilQueue` with `ThreadPool`,
`GLThread`, `Slab`, `ThreadedContext`, `AnvBlockPool`, `AnvStatePool`, and the proofs above.

Next, in this order:

1. `PbCache`, `PbSlab`, `PbFenced`: expiry, reclaim of busy buffers, the fenced list.
2. `WsiQueue` and the X11 present thread: image accounting.
3. `QueueExit`: several queues, `exit_mutex`, destroy against the exit handler;
   `UtilBarrier`, the fallback barrier.
4. `Vma` and `HashTable` as algorithms against reference definitions.
5. `DiskCache` with several processes.

Proofs to add: what holds of the shutdown of the queue.
