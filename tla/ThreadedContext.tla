--------------------------- MODULE ThreadedContext ---------------------------
(***************************************************************************)
(* The threaded context of src/gallium/auxiliary/util/u_threaded_context.c *)
(* which wraps a driver's pipe_context: the application thread records     *)
(* calls into a ring of batches that a util_queue with one worker, the     *)
(* driver thread, executes. The queue is the abstract one of ThreadPool.   *)
(*                                                                         *)
(* Three things cross the two threads without a lock: queries (the list    *)
(* of the unflushed ones and the `flushed` flag), fences that are created  *)
(* before the driver has flushed, and buffers, which the application may   *)
(* map or invalidate while calls that use them are still recorded.         *)
(*                                                                         *)
(* A call is what its execution does to these. A buffer is its storage and *)
(* the contents of that, cell by cell: a number of the write that was made *)
(* there, or 0 if there is nothing that anyone may rely on.                *)
(***************************************************************************)
EXTENDS Integers, Sequences

CONSTANTS
  MaxBatches,     \* TC_MAX_BATCHES
  CallsPerBatch,  \* TC_CALLS_PER_BATCH
  Clients,        \* which of "queries", "fences", "buffers" an application uses
  Queries,
  Cells,          \* the bytes of the buffer, the model's granularity
  Boxes,          \* the ranges of it that are mapped, copied to or bound
  MaxFences,      \* bound: fences created
  MaxWrites,      \* bound: writes to the buffer
  MaxStorages,    \* bound: storages created by invalidations
  MaxCalls,       \* bound: calls of the application
  NoBatch         \* the queue's empty entry

ASSUME ThreadedContextAssumption ==
  /\ MaxBatches \in Nat /\ MaxBatches >= 3
  /\ CallsPerBatch \in Nat /\ CallsPerBatch >= 2
  /\ Cells \subseteq Nat /\ Boxes \subseteq SUBSET Cells /\ {} \notin Boxes
  /\ {MaxFences, MaxWrites, MaxStorages, MaxCalls} \subseteq Nat
  /\ NoBatch \notin 0..MaxBatches-1

Batches  == 0..MaxBatches-1
Fences   == 1..MaxFences
Storages == 0..MaxStorages
Threads  == {"app", "driver"}

VARIABLES
  fifo, running, dropped, signalled,  \* the queue and the batches' fences
  calls,       \* batch->call: the recorded calls
  token,       \* batch->token exists
  attached,    \* the fences whose token still points to the context
  next, last,  \* tc->next and tc->last
  apc,         \* the application thread
  pending,     \* the call that did not fit into the batch, or none
  after,       \* where the application goes on
  exec,        \* tc_batch_execute in either thread
  unflushed,   \* tc->unflushed_queries
  flushed,     \* tq->flushed
  fences,      \* each fence: what the flush asked for, and if it was made
  storage,     \* the storage of the buffer in the driver
  latest,      \* tres->latest
  valid,       \* tres->valid_buffer_range
  buffer,      \* what is fixed of the buffer, and the staging uploads left
  bound,       \* the range bound for writing by shaders, or for stream output
  untracked,   \* history: what calls wrote while the valid range lacked it
  mem,         \* the contents of each storage
  contents,    \* the buffer's contents if every call were executed at once
  arg,         \* the arguments of the call in progress
  client,      \* what the application uses
  ncalls, nwrites

pool    == <<fifo, running, dropped, signalled>>
batches == <<calls, token, attached, next, last>>
ctl     == <<apc, pending, after, arg>>
query   == <<unflushed, flushed>>
buf     == <<storage, latest, valid, buffer, bound, untracked, mem, contents,
             nwrites>>
vars    == <<pool, batches, ctl, exec, query, fences, buf, client, ncalls>>

\* util_queue_init(&tc->queue, "gdrv", TC_MAX_BATCHES - 2, 1, 0)
QueueSize == MaxBatches - 2

Queue == INSTANCE ThreadPool
           WITH Jobs <- Batches, Capacity <- QueueSize, Unbounded <- FALSE,
                Hole <- NoBatch

NoCall == [kind |-> "none"]
Plain  == [kind |-> "other"]   \* a call with no effect on what is modelled
NoArg  == [op |-> "none"]
Idle   == [stage |-> "idle", pos |-> 0, batch |-> NoBatch, query |-> NoBatch]

\* Drivers set the valid range of a user pointer to the whole buffer.
Init ==
  /\ Queue!Init
  /\ calls = [b \in Batches |-> <<>>]
  /\ token = [b \in Batches |-> FALSE] /\ attached = {}
  /\ next = 0 /\ last = 0
  /\ apc = "app" /\ pending = NoCall /\ after = "app" /\ arg = NoArg
  /\ exec = [e \in Threads |-> Idle]
  /\ unflushed = {} /\ flushed = [q \in Queries |-> FALSE]
  /\ fences = [f \in Fences |-> "none"]
  /\ storage = 0 /\ latest = 0
  /\ buffer \in [kind : {"plain", "shared", "user_ptr", "sparse"},
                 forced : {0, 1}]
  /\ client \in Clients
  /\ "buffers" \notin client => buffer = [kind |-> "plain", forced |-> 0]
  /\ valid = IF buffer.kind = "user_ptr" THEN Cells ELSE {}
  /\ bound = {} /\ untracked = {}
  /\ mem = [s \in Storages |-> [c \in Cells |-> 0]]
  /\ contents = [c \in Cells |-> 0]
  /\ ncalls = 0 /\ nwrites = 0

-----------------------------------------------------------------------------
(* Recording: tc_add_sized_call and tc_batch_flush *)

\* num_call_slots: a call whose payload fits into its slot takes one, the
\* others, in the model, two.
Big(c) == c.kind # "unmap"
Slots(c) == IF Big(c) THEN 2 ELSE 1
NumSlots(b) == Len(calls[b]) + Len(SelectSeq(calls[b], Big))

Overflows(c) == NumSlots(next) + Slots(c) > CallsPerBatch

\* Records c and goes on at l, if need be behind a flush of the full batch.
AddCall(c, l) ==
  /\ IF Overflows(c)
     THEN /\ apc' = "submit" /\ pending' = c /\ after' = l
          /\ UNCHANGED calls
     ELSE /\ calls' = [calls EXCEPT ![next] = Append(@, c)]
          /\ apc' = l
          /\ UNCHANGED <<pending, after>>

\* Faulty variant: the batch keeps its pointer to the token.
DropTokenKeeps == attached' = {} /\ UNCHANGED token

\* next->token->tc = NULL, and the batch gives the token up.
DropToken ==
  /\ token' = [token EXCEPT ![next] = FALSE]
  /\ attached' = {}

\* Faulty variant: tc->last is left behind.
EnqueueKeepsLast ==
  /\ Queue!Enqueue(next)
  /\ next' = (next + 1) % MaxBatches
  /\ apc' = IF pending = NoCall THEN "app" ELSE "append"
  /\ UNCHANGED last

Enqueue ==
  /\ Queue!Enqueue(next)
  /\ last' = next
  /\ next' = (next + 1) % MaxBatches
  /\ apc' = IF pending = NoCall THEN "app" ELSE "append"

\* tc_batch_flush, with util_queue_add_job
BatchFlush ==
  /\ apc = "submit"
  /\ DropToken
  /\ \/ Enqueue
     \/ Queue!Announce(next) /\ apc' = "space" /\ UNCHANGED <<next, last>>
  /\ UNCHANGED <<calls, pending, after, arg, exec, query, fences, buf, ncalls>>

BatchFlushWoken ==
  /\ apc = "space" /\ Enqueue
  /\ UNCHANGED <<calls, token, attached, pending, after, arg, exec, query, fences,
                 buf, ncalls>>

\* tc_end_query clears the flag once the call has been recorded.
Cleared(c) ==
  IF c.kind = "end_query" THEN [flushed EXCEPT ![c.query] = FALSE] ELSE flushed

\* Faulty variant: what the caller does behind the call is forgotten.
AppendCallReturns ==
  /\ apc = "append"
  /\ calls' = [calls EXCEPT ![next] = Append(@, pending)]
  /\ pending' = NoCall
  /\ apc' = "app" /\ after' = "app"
  /\ flushed' = Cleared(pending)
  /\ UNCHANGED <<pool, token, attached, next, last, arg, exec, unflushed, fences,
                 buf, ncalls>>

AppendCall ==
  /\ apc = "append"
  /\ calls' = [calls EXCEPT ![next] = Append(@, pending)]
  /\ pending' = NoCall
  /\ apc' = after /\ after' = "app"
  /\ flushed' = Cleared(pending)
  /\ UNCHANGED <<pool, token, attached, next, last, arg, exec, unflushed, fences,
                 buf, ncalls>>

\* The application calls into the context.
Enter == apc = "app" /\ ncalls < MaxCalls /\ ncalls' = ncalls + 1

\* It records c and returns.
Record(c) ==
  /\ Enter
  /\ AddCall(c, "app")
  /\ UNCHANGED <<pool, token, attached, next, last, arg, exec, fences>>

-----------------------------------------------------------------------------
(* _tc_sync *)

\* Waits for the driver thread and executes what is recorded; then goes on
\* at l.
Sync(l) == apc' = "sync" /\ after' = l

SyncWait ==
  /\ apc = "sync" /\ signalled[last]
  /\ DropToken
  /\ apc' = "execute"
  /\ exec' = [exec EXCEPT !["app"] = [Idle EXCEPT !.stage = "calls",
                                                  !.batch = next]]
  /\ UNCHANGED <<pool, calls, next, last, pending, after, arg, query, fences, buf,
                 ncalls>>

\* A call that cannot be recorded ("direct"); fence_finish, through
\* threaded_context_unwrap_sync ("direct"); tc_destroy ("destroy").
SyncCall(l) ==
  /\ Enter
  /\ Sync(l)
  /\ UNCHANGED <<pool, batches, pending, arg, exec, query, fences, buf>>

\* pipe->function(...), or a callback that runs at once.
DirectCall ==
  /\ apc \in {"direct", "callback"}
  /\ apc' = "app"
  /\ UNCHANGED <<pool, batches, pending, after, arg, exec, query, fences, buf,
                 ncalls>>

\* tc_callback, with tc_is_sync
Callback(asap) ==
  \/ /\ asap /\ signalled[last] /\ calls[next] = <<>>
     /\ Enter
     /\ apc' = "callback"
     /\ UNCHANGED <<pool, batches, pending, after, arg, exec, query, fences, buf>>
  \/ /\ ~(asap /\ signalled[last] /\ calls[next] = <<>>)
     /\ Record(Plain)
     /\ UNCHANGED <<query, buf>>

Destroy ==
  /\ apc = "destroy" /\ running = {}
  /\ Queue!GiveUp
  /\ apc' = "destroyed"
  /\ UNCHANGED <<batches, pending, after, arg, exec, query, fences, buf, ncalls>>

-----------------------------------------------------------------------------
(* Queries *)

EndQuery(q) ==
  LET c == [kind |-> "end_query", query |-> q] IN
  /\ Record(c)
  /\ flushed' = IF Overflows(c) THEN flushed ELSE Cleared(c)
  /\ UNCHANGED <<unflushed, buf>>

\* tc_get_query_result waits for the driver thread unless `flushed` is set.
GetQueryResult(q) ==
  /\ Enter
  /\ arg' = [op |-> "result", query |-> q]
  /\ IF flushed[q] THEN apc' = "result" /\ UNCHANGED after ELSE Sync("result")
  /\ UNCHANGED <<pool, batches, pending, exec, query, fences, buf>>

\* The driver has the result or not; if it has, the query leaves the list.
QueryResult ==
  /\ apc = "result"
  /\ \/ /\ flushed' = [flushed EXCEPT ![arg.query] = TRUE]
        /\ IF arg.query \in unflushed
           THEN apc' = "list_del" /\ UNCHANGED arg
           ELSE apc' = "app" /\ arg' = NoArg
     \/ apc' = "app" /\ arg' = NoArg /\ UNCHANGED flushed
  /\ UNCHANGED <<pool, batches, pending, after, exec, unflushed, fences, buf,
                 ncalls>>

QueryListDel ==
  /\ apc = "list_del"
  /\ unflushed' = unflushed \ {arg.query}
  /\ apc' = "app" /\ arg' = NoArg
  /\ UNCHANGED <<pool, batches, pending, after, exec, flushed, fences, buf, ncalls>>

-----------------------------------------------------------------------------
(* tc_flush: "deferred", "async", "hint" (PIPE_FLUSH_ASYNC with HINT_FINISH) *)
(* or "normal"                                                              *)

Async(kind) ==
  \/ kind \in {"deferred", "async"}
  \/ kind = "hint" /\ ~signalled[last]

\* The flush is recorded, and submitted unless it is deferred. The token of
\* the fence is the one of the batch before the call is added.
FlushAsync(kind, fence) ==
  /\ Enter
  /\ Async(kind)
  /\ AddCall([kind |-> "flush", fence |-> fence, deferred |-> kind = "deferred"],
             IF kind = "deferred" THEN "app" ELSE "submit")
  /\ IF fence = 0
     THEN UNCHANGED <<token, attached, fences>>
     ELSE /\ token' = [token EXCEPT ![next] = TRUE]
          /\ attached' = attached \cup {fence}
          /\ fences' = [fences EXCEPT ![fence] =
                          IF kind = "deferred" THEN "deferred" ELSE "submitted"]
  /\ UNCHANGED <<pool, next, last, arg, exec, query, buf>>

\* The flush is made by this thread; also when the fence cannot be created,
\* with a token (`tok`) or without.
FlushSync(kind, tok) ==
  /\ Enter
  /\ tok => Async(kind)
  /\ token' = [token EXCEPT ![next] = @ \/ tok]
  /\ Sync(IF kind = "deferred" THEN "direct" ELSE "flush")
  /\ UNCHANGED <<pool, calls, attached, next, last, pending, arg, exec, query,
                 fences, buf>>

\* tc_flush_queries, then pipe->flush
FlushQueries ==
  /\ apc = "flush"
  /\ exec' = [exec EXCEPT !["app"] = [Idle EXCEPT !.stage = "queries",
                                                  !.batch = next]]
  /\ apc' = "execute" /\ after' = "direct"
  /\ UNCHANGED <<pool, batches, pending, arg, query, fences, buf, ncalls>>

\* threaded_context_flush, for a fence that waits for the current batch.
ContextFlush(f, prefer_async) ==
  /\ Enter
  /\ f \in attached
  /\ IF prefer_async \/ ~signalled[last]
     THEN apc' = "submit" /\ UNCHANGED after
     ELSE Sync("app")
  /\ UNCHANGED <<pool, batches, pending, arg, exec, query, fences, buf>>

-----------------------------------------------------------------------------
(* Buffers *)

Hull(cells) == {c \in Cells : \E a, b \in cells : a <= c /\ c <= b}
Written(m, box, id) == [c \in Cells |-> IF c \in box THEN id ELSE m[c]]

\* The buffer gets the contents of the next write, in program order.
NewContents(box) ==
  /\ nwrites < MaxWrites
  /\ nwrites' = nwrites + 1
  /\ contents' = Written(contents, box, nwrites + 1)

\* util_range_add
AddValid(box) == valid' = Hull(valid \cup box)

Draw ==
  /\ Record([kind |-> "draw", expects |-> contents])
  /\ UNCHANGED <<query, buf>>

\* Faulty variant: the valid range does not get what the call will write.
RecordWriteUntracked(box) ==
  /\ Record([kind |-> "write", box |-> box, id |-> nwrites + 1])
  /\ NewContents(box)
  /\ UNCHANGED <<query, storage, latest, valid, bound, untracked, mem>>

\* A call that writes to the buffer when it is executed: tc_clear_buffer,
\* tc_resource_copy_region, a small tc_buffer_subdata, and the copy out of
\* the staging buffer when a staged range is unmapped.
RecordWrite(box) ==
  /\ Record([kind |-> "write", box |-> box, id |-> nwrites + 1])
  /\ NewContents(box)
  /\ AddValid(box)
  /\ UNCHANGED <<query, storage, latest, bound, untracked, mem>>

CopyRegion(box) == RecordWrite(box) /\ UNCHANGED buffer

\* tc_set_shader_buffers and tc_set_shader_images: what is bound counts as
\* written.
BindForWrite(box) ==
  /\ Record(Plain)
  /\ bound' = box
  /\ AddValid(box)
  /\ UNCHANGED <<query, storage, latest, buffer, untracked, mem, contents, nwrites>>

\* tc_create_stream_output_target: the target's range counts as written. It is
\* added after the wait, which looks at no valid range.
CreateTarget(box) ==
  /\ Enter
  /\ Sync("direct")
  /\ AddValid(box)
  /\ UNCHANGED <<pool, batches, pending, arg, exec, query, fences, storage, latest,
                 buffer, bound, untracked, mem, contents, nwrites>>

\* Bound without a util_range_add: tc_make_image_handle_resident, with an
\* image of the buffer; and tc_set_stream_output_targets, since what was
\* added when the target was created may be gone by an invalidation.
BindUntracked(box) ==
  /\ Record(Plain)
  /\ bound' = box
  /\ UNCHANGED <<query, storage, latest, valid, buffer, untracked, mem, contents,
                 nwrites>>

\* A write is recorded without a util_range_add.
WriteUntracked(box) ==
  /\ Record([kind |-> "write", box |-> box, id |-> nwrites + 1])
  /\ NewContents(box)
  /\ untracked' = untracked \cup (box \ valid)
  /\ UNCHANGED <<query, storage, latest, valid, buffer, bound, mem>>

\* A draw or a grid whose shaders write to what is bound.
DrawAndWrite == bound # {} /\ WriteUntracked(bound)

\* tc_get_query_result_resource: the driver thread writes the result.
GetQueryResultResource(box) == WriteUntracked(box)

\* tc_invalidate_buffer, when the buffer can be and is reallocated.
InvalidateBuffer(l) ==
  /\ buffer.kind = "plain" /\ latest < MaxStorages
  /\ latest' = latest + 1
  /\ valid' = {}
  /\ contents' = [c \in Cells |-> 0]
  /\ AddCall([kind |-> "replace", src |-> latest + 1], l)
  /\ UNCHANGED <<pool, token, attached, next, last, exec, query, fences, storage,
                 buffer, bound, untracked, mem, nwrites>>

InvalidateResource == Enter /\ InvalidateBuffer("app") /\ UNCHANGED arg

\* tc_improve_map_buffer_flags: how the range is accessed. `created` says
\* whether an invalidation would succeed.
Discards(u) == u \cap {"DISCARD_RANGE", "DISCARD_WHOLE"} # {}

Path(u, box, created) ==
  IF Discards(u) /\ buffer.forced > 0 THEN "staging"
  ELSE IF buffer.kind = "sparse" THEN IF Discards(u) THEN "staging" ELSE "sync"
  ELSE IF "READ" \in u THEN "sync"
  ELSE IF \/ "UNSYNC" \in u
          \/ buffer.kind # "shared" /\ valid \cap box = {} THEN "unsync"
  ELSE IF /\ created
          /\ \/ "DISCARD_WHOLE" \in u
             \/ "DISCARD_RANGE" \in u /\ box = Cells THEN "invalidate"
  ELSE IF Discards(u) /\ buffer.kind # "user_ptr" THEN "staging"
  ELSE "sync"

\* The access itself. A staged range is copied at the unmap, by a call.
Access(u, box, path) ==
  \/ /\ path = "staging"
     /\ RecordWrite(box)
     /\ buffer' = [buffer EXCEPT !.forced = IF @ > 0 THEN @ - 1 ELSE @]
  \/ /\ Enter
     /\ arg' = IF "READ" \in u THEN [op |-> "read"]
                              ELSE [op |-> "write", box |-> box]
     /\ \/ path = "invalidate" /\ InvalidateBuffer("unsync")
        \/ /\ \/ path = "unsync" /\ apc' = "unsync" /\ UNCHANGED after
              \/ path = "sync" /\ Sync("map")
           /\ UNCHANGED <<pool, batches, pending, exec, query, fences, buf>>

Created == {c \in BOOLEAN : c => buffer.kind = "plain" /\ latest < MaxStorages}

\* tc_transfer_map. An application that asks for an unsynchronized map has to
\* know that nobody relies on what it overwrites.
TransferMap(u, box, created) ==
  /\ "READ" \notin u => nwrites < MaxWrites
  /\ "UNSYNC" \in u => \A c \in box : contents[c] = 0
  /\ Access(u, box, Path(u, box, created))

\* tc_buffer_subdata of a small size records the data where it would wait.
BufferSubdata(box, created) ==
  LET u == {"WRITE", "DISCARD_RANGE"}
      path == Path(u, box, created)
  IN  /\ nwrites < MaxWrites
      /\ Access(u, box, IF path = "sync" THEN "staging" ELSE path)

\* The application accesses the mapped storage, and tc_transfer_unmap.
AccessMapped ==
  /\ apc \in {"map", "unsync"}
  /\ AddCall([kind |-> "unmap"], "app")
  /\ arg' = NoArg
  /\ IF arg.op = "write"
     THEN /\ mem' = [mem EXCEPT ![latest] = Written(@, arg.box, nwrites + 1)]
          /\ NewContents(arg.box)
          /\ AddValid(arg.box)
     ELSE UNCHANGED <<mem, nwrites, contents, valid>>
  /\ UNCHANGED <<pool, token, attached, next, last, exec, query, fences, storage,
                 latest, buffer, bound, untracked, ncalls>>

-----------------------------------------------------------------------------
(* tc_batch_execute, in the driver thread or in _tc_sync *)

Stage(e, s) == exec' = [exec EXCEPT ![e].stage = s]

\* The effect of each call: tc_call_end_query, tc_call_flush up to its
\* queries, tc_call_replace_buffer_storage, and the calls that write.
Effect(c) ==
  /\ unflushed' = IF c.kind = "end_query" THEN unflushed \cup {c.query} ELSE unflushed
  /\ fences' = IF c.kind = "flush" /\ c.fence # 0
               THEN [fences EXCEPT ![c.fence] = "ready"] ELSE fences
  /\ storage' = IF c.kind = "replace" THEN c.src ELSE storage
  /\ mem' = IF c.kind = "write"
            THEN [mem EXCEPT ![storage] = Written(@, c.box, c.id)] ELSE mem

Executing(e) == exec[e].stage = "calls" /\ exec[e].pos < Len(calls[exec[e].batch])
Current(e) == calls[exec[e].batch][exec[e].pos + 1]

ExecuteCall(e) ==
  /\ Executing(e)
  /\ Effect(Current(e))
  /\ exec' = [exec EXCEPT ![e].pos = @ + 1,
                          ![e].stage = IF Current(e).kind = "flush" /\ ~Current(e).deferred
                                       THEN "queries" ELSE "calls"]
  /\ UNCHANGED <<pool, batches, ctl, flushed, latest, valid, buffer, bound, untracked,
                 contents, nwrites, ncalls>>

\* tc_flush_queries: a query leaves the list before its flag is set.
FlushListDel(e) ==
  /\ exec[e].stage = "queries"
  /\ \E q \in unflushed :
       /\ unflushed' = unflushed \ {q}
       /\ exec' = [exec EXCEPT ![e].stage = "flushed", ![e].query = q]
  /\ UNCHANGED <<pool, batches, ctl, flushed, fences, buf, ncalls>>

FlushSetFlag(e) ==
  /\ exec[e].stage = "flushed"
  /\ flushed' = [flushed EXCEPT ![exec[e].query] = TRUE]
  /\ exec' = [exec EXCEPT ![e].stage = "queries", ![e].query = NoBatch]
  /\ UNCHANGED <<pool, batches, ctl, unflushed, fences, buf, ncalls>>

FlushQueriesEnd(e) ==
  /\ exec[e].stage = "queries" /\ unflushed = {}
  /\ Stage(e, "calls")
  /\ UNCHANGED <<pool, batches, ctl, query, fences, buf, ncalls>>

\* batch->num_total_call_slots = 0
ExecuteEnd(e) ==
  /\ exec[e].stage = "calls" /\ ~Executing(e)
  /\ calls' = [calls EXCEPT ![exec[e].batch] = <<>>]
  /\ IF e = "driver"
     THEN Stage(e, "signal") /\ UNCHANGED ctl
     ELSE /\ exec' = [exec EXCEPT ![e] = Idle]
          /\ apc' = after /\ after' = "app"
          /\ UNCHANGED <<pending, arg>>
  /\ UNCHANGED <<pool, token, attached, next, last, query, fences, buf, ncalls>>

DriverTake ==
  /\ running = {} /\ Queue!Take
  /\ exec' = [exec EXCEPT !["driver"] = [Idle EXCEPT !.stage = "calls",
                                                     !.batch = Head(fifo)]]
  /\ UNCHANGED <<batches, ctl, query, fences, buf, ncalls>>

DriverSignal ==
  /\ exec["driver"].stage = "signal"
  /\ Queue!Complete(exec["driver"].batch)
  /\ exec' = [exec EXCEPT !["driver"] = Idle]
  /\ UNCHANGED <<batches, ctl, query, fences, buf, ncalls>>

-----------------------------------------------------------------------------
Execute(e) ==
  \/ ExecuteCall(e) \/ FlushListDel(e) \/ FlushSetFlag(e)
  \/ FlushQueriesEnd(e) \/ ExecuteEnd(e)

DriverStep ==
  /\ DriverTake \/ Execute("driver") \/ DriverSignal
  /\ UNCHANGED client

AppStep ==
  /\ \/ BatchFlush \/ BatchFlushWoken \/ AppendCall \/ SyncWait \/ Execute("app")
     \/ DirectCall \/ Destroy \/ QueryResult \/ QueryListDel \/ FlushQueries
     \/ AccessMapped
  /\ UNCHANGED client

Usages == {{"READ"}, {"WRITE"}, {"WRITE", "DISCARD_RANGE"},
           {"WRITE", "DISCARD_WHOLE"}, {"WRITE", "UNSYNC"}}

NewFences == {0} \cup {f \in Fences : fences[f] = "none" /\
                                      \A g \in 1..f-1 : fences[g] # "none"}

QueryCall == \E q \in Queries : EndQuery(q) \/ GetQueryResult(q)

FlushCall ==
  \/ \E kind \in {"deferred", "async", "hint", "normal"} :
       \/ \E f \in NewFences : FlushAsync(kind, f)
       \/ \E tok \in BOOLEAN : FlushSync(kind, tok)
  \/ \E f \in Fences, prefer_async \in BOOLEAN : ContextFlush(f, prefer_async)

BufferCall ==
  \/ Draw \/ DrawAndWrite \/ InvalidateResource
  \/ \E box \in Boxes :
       \/ CopyRegion(box) \/ GetQueryResultResource(box)
       \/ BindForWrite(box) \/ BindUntracked(box) \/ CreateTarget(box)
       \/ \E created \in Created :
            \/ BufferSubdata(box, created)
            \/ \E u \in Usages : TransferMap(u, box, created)

AppCall ==
  /\ \/ \E l \in {"direct", "destroy"} : SyncCall(l)
     \/ \E asap \in BOOLEAN : Callback(asap)
     \/ "queries" \in client /\ QueryCall
     \/ "fences" \in client /\ FlushCall
     \/ "buffers" \in client /\ BufferCall
  /\ UNCHANGED client

Next == AppCall \/ AppStep \/ DriverStep

\* The driver thread and a call in progress keep running; the application
\* need not make another call.
Spec == Init /\ [][Next]_vars /\ WF_vars(AppStep) /\ WF_vars(DriverStep)

-----------------------------------------------------------------------------
(* Properties *)

\* The cells that no call wrote while the valid range lacked them.
Tracked == Cells \ untracked

Sees(m, expected) == \A c \in Tracked : expected[c] # 0 => m[c] = expected[c]

\* However a range is written (through a staging buffer, behind an
\* invalidation, into memory nobody waited for, by a call or by shaders), a
\* draw and a synchronized map find the contents that the order of the
\* application's calls gives the buffer: in every cell but those written by
\* a call that leaves the valid range alone and does not find them there
\* (tc_get_query_result_resource; draws that write to a resident image, to a
\* stream output target or to what was bound before an invalidation). For
\* those the code does not have it: a map for writing then does not wait.
BuffersInProgramOrder ==
  /\ \A e \in Threads :
       Executing(e) /\ Current(e).kind = "draw" =>
         Sees(mem[storage], Current(e).expects)
  /\ apc = "map" => Sees(mem[latest], contents)

\* When _tc_sync or tc_is_sync lets the application thread call the driver
\* itself, the driver thread is idle, every recorded call has been executed,
\* and with them the flush of every fence.
DirectCallsAlone ==
  apc \in {"direct", "callback", "flush", "map", "destroy", "destroyed"} =>
    /\ fifo = <<>> /\ running = {}
    /\ \A b \in Batches : calls[b] = <<>>
    /\ \A f \in Fences : fences[f] \in {"none", "ready"}
    /\ storage = latest

\* Only the batch that is being recorded has a token (tc_batch_execute and
\* tc_destroy assert it), and a fence that has it waits for a flush in this
\* batch, which threaded_context_flush submits.
TokenOfCurrentBatch ==
  /\ \A b \in Batches : token[b] => b = next
  /\ attached # {} => token[next]
  /\ apc = "app" => \A f \in attached :
       \E i \in DOMAIN calls[next] : calls[next][i].kind = "flush" /\ calls[next][i].fence = f

\* The fence of a flush that is not deferred becomes ready, whatever the
\* application does or does not do next, and however full the queue is.
FencesBecomeReady ==
  \A f \in Fences : fences[f] = "submitted" ~> fences[f] = "ready"

\* tc_get_query_result: "This is safe because it can only happen after we
\* sync'd".
ListDelAfterSync == apc = "list_del" => fifo = <<>> /\ running = {}
=============================================================================
