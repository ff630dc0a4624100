------------------------------ MODULE GLThread ------------------------------
(***************************************************************************)
(* The threaded GL dispatch of src/mesa/main/glthread.c and marshal.h: the *)
(* application thread marshals commands into a ring of batches and hands   *)
(* full ones to a util_queue with one worker, which unmarshals them.       *)
(*                                                                         *)
(* The queue is the abstract one: util_queue_add_job and the worker use    *)
(* the actions of module ThreadPool, which UtilQueue implements. Nothing   *)
(* in a batch is locked: the ring itself must keep the two threads apart.  *)
(*                                                                         *)
(* The application thread is in "app" (outside the dispatch code), "flush" *)
(* (about to call util_queue_add_job), "space" (waiting in it), "append"   *)
(* (writing the command that did not fit before), "wait" (on the fence of  *)
(* the last batch), "direct" (unmarshalling the unsubmitted batch itself), *)
(* "call" (calling the server dispatch directly), "restore" (taking the    *)
(* marshal table out of the way), "destroy" or "destroyed".                *)
(***************************************************************************)
EXTENDS Integers, Sequences

CONSTANTS
  MaxBatches,   \* MARSHAL_MAX_BATCHES
  MaxCmdSize,   \* MARSHAL_MAX_CMD_SIZE: the bytes of a batch's buffer
  Align,        \* the 8 of ALIGN(size, 8)
  Sizes,        \* the sizes of the commands
  MaxCmds,      \* bound: the number of commands issued
  NoBatch       \* the queue's empty entry

ASSUME GLThreadAssumption ==
  /\ MaxBatches \in Nat /\ MaxBatches >= 3
  /\ Align \in Nat \ {0}
  /\ MaxCmdSize \in Nat /\ MaxCmdSize % Align = 0
  /\ Sizes \subseteq 1..MaxCmdSize
  /\ MaxCmds \in Nat
  /\ NoBatch \notin 0..MaxBatches-1

Batches == 0..MaxBatches-1

VARIABLES
  fifo, running, dropped, signalled,  \* the queue and the batches' fences
  used,       \* batch->used
  buffer,     \* the commands in batch->buffer, numbered in program order
  next, last, \* glthread->next and glthread->last
  mpc,        \* the application thread
  size,       \* the size of the command being allocated, 0 for none
  after,      \* what follows the pending _mesa_glthread_finish
  marshalling,\* the marshal table is installed: GL calls are threaded
  upos,       \* the worker: commands of its batch unmarshalled so far
  wpc,        \* the worker: "run" or "signal"
  issued,     \* the commands issued by the application so far
  executed    \* the commands executed by the context, in order

pool  == <<fifo, running, dropped, signalled>>
batch == <<used, buffer>>
app   == <<next, last, mpc, size, after, marshalling, issued>>
vars  == <<pool, batch, app, upos, wpc, executed>>

\* Faulty variant: one batch too many may wait in the queue.
QueueSizeTooBig == MaxBatches - 1

\* util_queue_init(..., MARSHAL_MAX_BATCHES - 2, 1, 0)
QueueSize == MaxBatches - 2

Queue == INSTANCE ThreadPool
           WITH Jobs <- Batches, Capacity <- QueueSize, Unbounded <- FALSE,
                Hole <- NoBatch

ALIGN(n) == ((n + Align - 1) \div Align) * Align

\* _mesa_glthread_init, which has waited for its initialization job.
Init ==
  /\ Queue!Init
  /\ used = [b \in Batches |-> 0]
  /\ buffer = [b \in Batches |-> <<>>]
  /\ next = 0 /\ last = 0
  /\ mpc = "app" /\ size = 0 /\ after = "return" /\ marshalling = TRUE
  /\ upos = 0 /\ wpc = "run"
  /\ issued = 0 /\ executed = <<>>

-----------------------------------------------------------------------------
(* _mesa_glthread_allocate_command and _mesa_glthread_flush_batch *)

Write(n) ==
  /\ used' = [used EXCEPT ![next] = @ + ALIGN(n)]
  /\ buffer' = [buffer EXCEPT ![next] = Append(@, issued + 1)]
  /\ issued' = issued + 1

\* Faulty variant: the new command is left out of the test.
AllocateIfAnyRoom(n) ==
  /\ mpc = "app" /\ marshalling /\ issued < MaxCmds
  /\ IF used[next] >= MaxCmdSize
     THEN mpc' = "flush" /\ size' = n /\ UNCHANGED <<batch, issued>>
     ELSE Write(n) /\ UNCHANGED <<mpc, size>>
  /\ UNCHANGED <<pool, next, last, after, marshalling, upos, wpc, executed>>

\* The test compares the unaligned size with what is left of the buffer.
Allocate(n) ==
  /\ mpc = "app" /\ marshalling /\ issued < MaxCmds
  /\ IF used[next] + n > MaxCmdSize
     THEN mpc' = "flush" /\ size' = n /\ UNCHANGED <<batch, issued>>
     ELSE Write(n) /\ UNCHANGED <<mpc, size>>
  /\ UNCHANGED <<pool, next, last, after, marshalling, upos, wpc, executed>>

\* A flush asked for by the application (glFlush, a swap of buffers); an
\* empty batch is not submitted.
CallFlush ==
  /\ mpc = "app" /\ used[next] # 0
  /\ mpc' = "flush"
  /\ UNCHANGED <<pool, batch, next, last, size, after, marshalling, issued, upos,
                 wpc, executed>>

\* Faulty variant: glthread->last is left behind.
SubmitKeepsLast ==
  /\ Queue!Enqueue(next)
  /\ last' = last
  /\ next' = (next + 1) % MaxBatches
  /\ mpc' = IF size = 0 THEN "app" ELSE "append"

Submit ==
  /\ Queue!Enqueue(next)
  /\ last' = next
  /\ next' = (next + 1) % MaxBatches
  /\ mpc' = IF size = 0 THEN "app" ELSE "append"

\* util_queue_add_job
FlushBatch ==
  /\ mpc = "flush"
  /\ \/ Submit
     \/ Queue!Announce(next) /\ mpc' = "space" /\ UNCHANGED <<next, last>>
  /\ UNCHANGED <<batch, size, after, marshalling, issued, upos, wpc, executed>>

FlushWoken ==
  /\ mpc = "space" /\ Submit
  /\ UNCHANGED <<batch, size, after, marshalling, issued, upos, wpc, executed>>

\* Faulty variant: a second test, off by one, flushes an empty batch.
AppendRetests ==
  /\ mpc = "append"
  /\ IF used[next] + ALIGN(size) >= MaxCmdSize
     THEN mpc' = "flush" /\ UNCHANGED <<batch, issued, size>>
     ELSE Write(size) /\ mpc' = "app" /\ size' = 0
  /\ UNCHANGED <<pool, next, last, after, marshalling, upos, wpc, executed>>

\* The command goes into the next batch, with no second test of its size.
AppendCommand ==
  /\ mpc = "append"
  /\ Write(size)
  /\ mpc' = "app" /\ size' = 0
  /\ UNCHANGED <<pool, next, last, after, marshalling, upos, wpc, executed>>

-----------------------------------------------------------------------------
(* _mesa_glthread_finish, and the destruction of the queue behind it *)

\* Faulty variant: the wait for the last batch is skipped.
CallFinishNoWait(k) ==
  /\ mpc = "app"
  /\ k \in {"call", "restore"} => marshalling /\ issued < MaxCmds
  /\ after' = k
  /\ mpc' = "direct"
  /\ UNCHANGED <<pool, batch, next, last, size, marshalling, issued, upos, wpc,
                 executed>>

\* Called by a flush of another kind ("return"), before a GL call that cannot
\* be marshalled ("call"), before one that ends the threading ("restore") and
\* by _mesa_glthread_destroy. A call from the worker itself returns at once
\* and changes nothing.
CallFinish(k) ==
  /\ mpc = "app"
  /\ k \in {"call", "restore"} => marshalling /\ issued < MaxCmds
  /\ after' = k
  /\ mpc' = IF signalled[last] THEN "direct" ELSE "wait"
  /\ UNCHANGED <<pool, batch, next, last, size, marshalling, issued, upos, wpc,
                 executed>>

FinishWait ==
  /\ mpc = "wait" /\ signalled[last]
  /\ mpc' = "direct"
  /\ UNCHANGED <<pool, batch, next, last, size, after, marshalling, issued, upos,
                 wpc, executed>>

\* The application thread unmarshals the batch it was filling.
FinishDirect ==
  /\ mpc = "direct"
  /\ executed' = executed \o buffer[next]
  /\ used' = [used EXCEPT ![next] = 0]
  /\ buffer' = [buffer EXCEPT ![next] = <<>>]
  /\ mpc' = IF after = "return" THEN "app" ELSE after
  /\ UNCHANGED <<pool, next, last, size, after, marshalling, issued, upos, wpc>>

\* CALL_...(ctx->CurrentServerDispatch, ...)
ServerCall ==
  /\ issued' = issued + 1
  /\ executed' = Append(executed, issued + 1)
  /\ mpc' = "app"
  /\ UNCHANGED <<pool, batch, next, last, size, after, marshalling, upos, wpc>>

SyncCall == mpc = "call" /\ ServerCall

\* From here on the application's GL calls go to the server dispatch. The call
\* at hand finishes once more and is made directly.
RestoreDispatch ==
  /\ mpc = "restore"
  /\ marshalling' = FALSE
  /\ after' = "call"
  /\ mpc' = IF signalled[last] THEN "direct" ELSE "wait"
  /\ UNCHANGED <<pool, batch, next, last, size, issued, upos, wpc, executed>>

UnthreadedCall ==
  /\ mpc = "app" /\ ~marshalling /\ issued < MaxCmds
  /\ ServerCall

\* util_queue_destroy, which joins the worker and gives up what is queued, and
\* the rest of _mesa_glthread_destroy.
Destroy ==
  /\ mpc = "destroy" /\ running = {}
  /\ Queue!GiveUp
  /\ marshalling' = FALSE
  /\ mpc' = "destroyed"
  /\ UNCHANGED <<batch, next, last, size, after, issued, upos, wpc, executed>>

-----------------------------------------------------------------------------
(* The worker: util_queue_thread_func running glthread_unmarshal_batch *)

WorkerTake ==
  /\ running = {} /\ Queue!Take
  /\ upos' = 0 /\ wpc' = "run"
  /\ UNCHANGED <<batch, app, executed>>

UnmarshalCommand(b) ==
  /\ b \in running /\ wpc = "run" /\ upos < Len(buffer[b])
  /\ executed' = Append(executed, buffer[b][upos + 1])
  /\ upos' = upos + 1
  /\ UNCHANGED <<pool, batch, app, wpc>>

\* Faulty variant: the loop's test is off by one, so it never ends.
UnmarshalEndLate(b) ==
  /\ b \in running /\ wpc = "run" /\ upos > Len(buffer[b])
  /\ used' = [used EXCEPT ![b] = 0]
  /\ buffer' = [buffer EXCEPT ![b] = <<>>]
  /\ wpc' = "signal"
  /\ UNCHANGED <<pool, app, upos, executed>>

\* batch->used = 0
UnmarshalEnd(b) ==
  /\ b \in running /\ wpc = "run" /\ upos >= Len(buffer[b])
  /\ used' = [used EXCEPT ![b] = 0]
  /\ buffer' = [buffer EXCEPT ![b] = <<>>]
  /\ wpc' = "signal"
  /\ UNCHANGED <<pool, app, upos, executed>>

WorkerSignal(b) ==
  /\ wpc = "signal" /\ Queue!Complete(b)
  /\ wpc' = "run"
  /\ UNCHANGED <<batch, app, upos, executed>>

-----------------------------------------------------------------------------
Finish ==
  FinishWait \/ FinishDirect \/ SyncCall \/ RestoreDispatch \/ Destroy

AppStep == FlushBatch \/ FlushWoken \/ AppendCommand \/ Finish

AppCall ==
  \/ \E n \in Sizes : Allocate(n)
  \/ CallFlush
  \/ \E k \in {"return", "call", "restore", "destroy"} : CallFinish(k)
  \/ UnthreadedCall

WorkerStep ==
  \/ WorkerTake
  \/ \E b \in Batches : UnmarshalCommand(b) \/ UnmarshalEnd(b) \/ WorkerSignal(b)

Next == AppStep \/ AppCall \/ WorkerStep

\* The worker and a call in progress keep running; the application need not
\* make another call.
Fairness == WF_vars(AppStep) /\ WF_vars(WorkerStep)

Spec == Init /\ [][Next]_vars

FairSpec == Spec /\ Fairness

-----------------------------------------------------------------------------
(* Properties *)

\* The context sees the commands in program order, each one once: across
\* batches, across the wrap-around of the ring and across the batches and
\* direct calls that the application thread executes itself.
CommandsInOrder == \A i \in 1..Len(executed) : executed[i] = i

\* "One batch is being executed, one batch is being filled, the rest are
\* waiting batches": the batch the application writes to is never one that
\* the worker has or will get, and the worker has left it empty.
FillingBatchIsFree ==
  mpc # "space" =>
    /\ signalled[next]
    /\ next \notin Queue!Queued \cup running
    /\ mpc = "append" => used[next] = 0

\* "the worker thread will be idle after this": when _mesa_glthread_finish
\* goes on, the application thread has the context for itself; and so it has
\* for good once the marshal table is out of the way.
FinishMeansIdle ==
  mpc \in {"direct", "call", "restore", "destroy", "destroyed"} \/ ~marshalling
    => fifo = <<>> /\ running = {}

\* No command is written past the end of a batch's buffer, although the test
\* of the free space is made with the unaligned size.
CommandsFit == \A b \in Batches : used[b] <= MaxCmdSize

\* Every batch that _mesa_glthread_flush_batch submits is executed.
BatchesComplete == \A b \in Batches : ~signalled[b] ~> signalled[b]

\* _mesa_glthread_flush_batch and _mesa_glthread_finish return, also when the
\* queue is full.
CallsReturn == mpc \notin {"app", "destroyed"} ~> mpc \in {"app", "destroyed"}
=============================================================================
