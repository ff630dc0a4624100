----------------------------- MODULE UtilQueue -----------------------------
(***************************************************************************)
(* The worker-thread queue of src/util/u_queue.c: a ring buffer of jobs    *)
(* under queue->lock, the condition variables has_queued_cond and          *)
(* has_space_cond, util_queue_add_job, util_queue_drop_job,                *)
(* util_queue_finish, and the shutdown of util_queue_killall_and_wait that *)
(* util_queue_destroy and the atexit handler share.                        *)
(*                                                                         *)
(* Every section between mtx_lock(&queue->lock) and the matching unlock or *)
(* cnd_wait is one action: all the ring's fields are read and written only *)
(* there. What the code does outside the lock (the early test in           *)
(* util_queue_drop_job, signalling a fence, reading num_threads) is an     *)
(* action of its own.                                                      *)
(*                                                                         *)
(* A job and the util_queue_fence embedded in it are one identifier. The   *)
(* fence is the Boolean that util_queue_fence_is_signalled returns; its    *)
(* futex is the subject of module QueueFence.                              *)
(***************************************************************************)
EXTENDS Integers, FiniteSets

CONSTANTS
  Workers,        \* the threads started by util_queue_init
  Clients,        \* the threads that call the queue
  Jobs,           \* the jobs (and fences) the clients own
  Cleanup,        \* those of Jobs that have a cleanup callback
  MaxJobs,        \* util_queue_init's max_jobs
  ResizeIfFull,   \* UTIL_QUEUE_INIT_RESIZE_IF_FULL is set
  Calls,          \* the calls the clients make, of AllCalls
  MaxOps,         \* bound: how many calls one client makes
  NoJob           \* a zeroed struct util_queue_job

AllCalls == {"add", "drop", "finish", "kill"}

NumThreads == Cardinality(Workers)

\* The jobs util_queue_finish queues to make every worker meet at its barrier:
\* fences[i] of the call made by client c.
BarrierJobs == Clients \X (1..NumThreads)

AllJobs == Jobs \cup BarrierJobs

ASSUME UtilQueueAssumption ==
  /\ IsFiniteSet(Workers) /\ Workers # {}
  /\ Cleanup \subseteq Jobs
  /\ Jobs \cap BarrierJobs = {}
  /\ MaxJobs \in Nat \ {0}
  /\ MaxOps \in Nat
  /\ ResizeIfFull \in BOOLEAN
  /\ Calls \subseteq AllCalls
  /\ NoJob \notin AllJobs

VARIABLES
  jobs,           \* queue->jobs, a function on 0..max_jobs-1
  read_idx, write_idx, num_queued, max_jobs,
  kill_threads,
  num_threads,
  finish_lock,    \* the set holding the owner of queue->finish_lock, if any
  signalled,      \* fence states
  wpc, wjob,      \* workers: program counter and the local copy of the job
  cpc, cjob, ci,  \* clients: program counter, fence at hand, loop index
  barrier,        \* util_barrier of each client's util_queue_finish
  owed,           \* history: jobs pending when a client called util_queue_finish
  ops             \* calls made so far, for the bound

ring    == <<jobs, read_idx, write_idx, num_queued, max_jobs>>
workers == <<wpc, wjob>>
clients == <<cpc, cjob, ci, ops>>
vars == <<ring, kill_threads, num_threads, finish_lock, signalled, workers,
          clients, barrier, owed>>

\* Worker program counters:
\*   "fetch"   about to take the lock and test the queue
\*   "waitq"   in cnd_wait(&has_queued_cond)
\*   "exec"    running job.execute
\*   "barrier" in util_barrier_wait
\*   "signal"  about to signal job.fence
\*   "cleanup" running job.cleanup
\*   "exit"    left the loop, about to signal the remaining jobs
\*   "done"    returned
WorkerPCs == {"fetch", "waitq", "exec", "barrier", "signal", "cleanup",
              "exit", "done"}

\* Client program counters:
\*   "idle"     outside the queue's functions
\*   "add"      about to take the lock in util_queue_add_job
\*   "space"    in cnd_wait(&has_space_cond)
\*   "put"      woken from it, about to test num_queued again
\*   "drop"     about to take the lock in util_queue_drop_job
\*   "dropsig"  removed the job, about to signal its fence
\*   "dropwait" did not find the job, waiting for its fence
\*   "finlock"  about to take finish_lock
\*   "finadd"   at the head of util_queue_finish's first loop
\*   "finwait"  in its second loop
\*   "kill"     about to set kill_threads
\*   "join"     joining the workers
\*   "exited"   shut the queue down
ClientPCs == {"idle", "add", "space", "put", "drop", "dropsig", "dropwait",
              "finlock", "finadd", "finwait", "kill", "join", "exited"}

Init ==
  /\ jobs = [i \in 0..MaxJobs-1 |-> NoJob]
  /\ read_idx = 0 /\ write_idx = 0 /\ num_queued = 0 /\ max_jobs = MaxJobs
  /\ kill_threads = FALSE
  /\ num_threads = NumThreads
  /\ finish_lock = {}
  /\ signalled = [j \in AllJobs |-> TRUE]
  /\ wpc = [w \in Workers |-> "fetch"]
  /\ wjob = [w \in Workers |-> NoJob]
  /\ cpc = [c \in Clients |-> "idle"]
  /\ cjob = [c \in Clients |-> NoJob]
  /\ ci = [c \in Clients |-> 0]
  /\ barrier = [c \in Clients |-> [count |-> 0, waiters |-> 0]]
  /\ owed = [c \in Clients |-> {}]
  /\ ops = [c \in Clients |-> 0]

-----------------------------------------------------------------------------
(* Helpers *)

\* The positions visited by  for (i = read_idx; i != write_idx; i = (i + 1) %
\* max_jobs): none at all when the two indices are equal, full queue or not.
Visited ==
  {i \in 0..max_jobs-1 :
     IF read_idx <= write_idx THEN read_idx <= i /\ i < write_idx
                              ELSE i >= read_idx \/ i < write_idx}

\* cnd_signal: wakes one thread, if any waits.
SignalQueued ==
  LET S == {w \in Workers : wpc[w] = "waitq"}
  IN  IF S = {} THEN {wpc} ELSE {[wpc EXCEPT ![w] = "fetch"] : w \in S}

SignalSpace ==
  LET S == {c \in Clients : cpc[c] = "space"}
  IN  IF S = {} THEN {cpc} ELSE {[cpc EXCEPT ![c] = "put"] : c \in S}

ToClient(c, l) == cpc' = [cpc EXCEPT ![c] = l]
ToWorker(w, l) == wpc' = [wpc EXCEPT ![w] = l]

-----------------------------------------------------------------------------
(* util_queue_thread_func *)

FetchWait(w) ==
  /\ wpc[w] = "fetch" /\ ~kill_threads /\ num_queued = 0
  /\ ToWorker(w, "waitq")
  /\ UNCHANGED <<ring, kill_threads, num_threads, finish_lock, signalled,
                 wjob, clients, barrier, owed>>

\* Faulty variant: the slot is not zeroed.
FetchJobNoMemset(w) ==
  /\ wpc[w] = "fetch" /\ ~kill_threads /\ num_queued # 0
  /\ wjob' = [wjob EXCEPT ![w] = jobs[read_idx]]
  /\ read_idx' = (read_idx + 1) % max_jobs
  /\ num_queued' = num_queued - 1
  /\ cpc' \in SignalSpace
  /\ ToWorker(w, IF jobs[read_idx] = NoJob THEN "fetch" ELSE "exec")
  /\ UNCHANGED <<jobs, write_idx, max_jobs, kill_threads, num_threads,
                 finish_lock, signalled, cjob, ci, ops, barrier, owed>>

\* Take the job at read_idx and make room for a waiting producer. A slot that
\* util_queue_drop_job has cleared is taken and skipped.
FetchJob(w) ==
  /\ wpc[w] = "fetch" /\ ~kill_threads /\ num_queued # 0
  /\ wjob' = [wjob EXCEPT ![w] = jobs[read_idx]]
  /\ jobs' = [jobs EXCEPT ![read_idx] = NoJob]
  /\ read_idx' = (read_idx + 1) % max_jobs
  /\ num_queued' = num_queued - 1
  /\ cpc' \in SignalSpace
  /\ ToWorker(w, IF jobs[read_idx] = NoJob THEN "fetch" ELSE "exec")
  /\ UNCHANGED <<write_idx, max_jobs, kill_threads, num_threads, finish_lock,
                 signalled, cjob, ci, ops, barrier, owed>>

FetchKilled(w) ==
  /\ wpc[w] = "fetch" /\ kill_threads
  /\ ToWorker(w, "exit")
  /\ UNCHANGED <<ring, kill_threads, num_threads, finish_lock, signalled,
                 wjob, clients, barrier, owed>>

\* POSIX lets cnd_wait return with no signal.
SpuriousFetch(w) ==
  /\ wpc[w] = "waitq"
  /\ ToWorker(w, "fetch")
  /\ UNCHANGED <<ring, kill_threads, num_threads, finish_lock, signalled,
                 wjob, clients, barrier, owed>>

\* job.execute of a client's job returns.
Execute(w) ==
  /\ wpc[w] = "exec" /\ wjob[w] \in Jobs
  /\ ToWorker(w, "signal")
  /\ UNCHANGED <<ring, kill_threads, num_threads, finish_lock, signalled,
                 wjob, clients, barrier, owed>>

\* Faulty variant: the workers do not wait for each other.
BarrierPassed(w) ==
  /\ wpc[w] = "exec" /\ wjob[w] \in BarrierJobs
  /\ ToWorker(w, "signal")
  /\ UNCHANGED <<ring, kill_threads, num_threads, finish_lock, signalled,
                 wjob, clients, barrier, owed>>

\* util_queue_finish_execute: wait at the barrier. The last worker to arrive
\* releases all of them.
BarrierWait(w) ==
  /\ wpc[w] = "exec" /\ wjob[w] \in BarrierJobs
  /\ LET c == wjob[w][1]
         n == barrier[c].waiters + 1
     IN  IF n < barrier[c].count
         THEN /\ barrier' = [barrier EXCEPT ![c].waiters = n]
              /\ ToWorker(w, "barrier")
         ELSE /\ barrier' = [barrier EXCEPT ![c].waiters = 0]
              /\ wpc' = [x \in Workers |->
                           IF x = w \/ (wpc[x] = "barrier" /\ wjob[x][1] = c)
                           THEN "signal" ELSE wpc[x]]
  /\ UNCHANGED <<ring, kill_threads, num_threads, finish_lock, signalled,
                 wjob, clients, owed>>

SignalFence(w) ==
  /\ wpc[w] = "signal"
  /\ signalled' = [signalled EXCEPT ![wjob[w]] = TRUE]
  /\ owed' = [c \in Clients |-> owed[c] \ {wjob[w]}]
  /\ IF wjob[w] \in Cleanup
     THEN ToWorker(w, "cleanup") /\ wjob' = wjob
     ELSE ToWorker(w, "fetch") /\ wjob' = [wjob EXCEPT ![w] = NoJob]
  /\ UNCHANGED <<ring, kill_threads, num_threads, finish_lock, clients, barrier>>

CleanupJob(w) ==
  /\ wpc[w] = "cleanup"
  /\ ToWorker(w, "fetch") /\ wjob' = [wjob EXCEPT ![w] = NoJob]
  /\ UNCHANGED <<ring, kill_threads, num_threads, finish_lock, signalled,
                 clients, barrier, owed>>

\* Faulty variant: the fences are not signalled.
RemainingForgotten(w) ==
  /\ wpc[w] = "exit"
  /\ jobs' = [i \in DOMAIN jobs |-> IF i \in Visited THEN NoJob ELSE jobs[i]]
  /\ read_idx' = write_idx
  /\ num_queued' = 0
  /\ ToWorker(w, "done")
  /\ UNCHANGED <<write_idx, max_jobs, kill_threads, num_threads, finish_lock,
                 signalled, wjob, clients, barrier, owed>>

\* Signal remaining jobs before terminating, and empty the queue. A slot is
\* modelled by its .job, which is all that this loop clears.
SignalRemaining(w) ==
  /\ wpc[w] = "exit"
  /\ LET left == {jobs[i] : i \in Visited} \ {NoJob}
     IN  /\ signalled' = [j \in AllJobs |-> signalled[j] \/ j \in left]
         /\ owed' = [c \in Clients |-> owed[c] \ left]
  /\ jobs' = [i \in DOMAIN jobs |-> IF i \in Visited THEN NoJob ELSE jobs[i]]
  /\ read_idx' = write_idx
  /\ num_queued' = 0
  /\ ToWorker(w, "done")
  /\ UNCHANGED <<write_idx, max_jobs, kill_threads, num_threads, finish_lock,
                 wjob, clients, barrier>>

-----------------------------------------------------------------------------
(* util_queue_add_job *)

\* Faulty variant: no worker is woken.
PutSilently(c, slots, r, wr, m) ==
  /\ jobs' = [slots EXCEPT ![wr] = cjob[c]]
  /\ read_idx' = r
  /\ write_idx' = (wr + 1) % m
  /\ max_jobs' = m
  /\ num_queued' = num_queued + 1
  /\ wpc' = wpc
  /\ ToClient(c, IF cjob[c] \in Jobs THEN "idle" ELSE "finadd")

\* Fill the slot at write_idx of the given array and wake a worker.
Put(c, slots, r, wr, m) ==
  /\ jobs' = [slots EXCEPT ![wr] = cjob[c]]
  /\ read_idx' = r
  /\ write_idx' = (wr + 1) % m
  /\ max_jobs' = m
  /\ num_queued' = num_queued + 1
  /\ wpc' \in SignalQueued
  /\ ToClient(c, IF cjob[c] \in Jobs THEN "idle" ELSE "finadd")

\* The array a full queue is copied into when it may grow: the do-while loop
\* starts at read_idx and runs until it meets write_idx again.
GrowBy == 8
NumCopied == IF read_idx = write_idx THEN max_jobs
                                     ELSE (write_idx - read_idx) % max_jobs
\* Faulty variant: the slots are copied from the first one on.
GrownUnrotated == [i \in 0..(max_jobs + GrowBy - 1) |->
                     IF i < NumCopied THEN jobs[i] ELSE NoJob]

Grown == [i \in 0..(max_jobs + GrowBy - 1) |->
            IF i < NumCopied THEN jobs[(read_idx + i) % max_jobs] ELSE NoJob]

AddToKilled(c) ==
  /\ cpc[c] = "add" /\ kill_threads
  /\ ToClient(c, IF cjob[c] \in Jobs THEN "idle" ELSE "finadd")
  /\ UNCHANGED <<ring, kill_threads, num_threads, finish_lock, signalled,
                 workers, cjob, ci, ops, barrier, owed>>

\* The fence is reset before the test for space, so it is already unsignalled
\* while the producer waits.
AddJob(c) ==
  /\ cpc[c] = "add" /\ ~kill_threads
  /\ signalled' = [signalled EXCEPT ![cjob[c]] = FALSE]
  /\ \/ /\ num_queued # max_jobs
        /\ Put(c, jobs, read_idx, write_idx, max_jobs)
     \/ /\ num_queued = max_jobs /\ ResizeIfFull
        /\ Put(c, Grown, 0, NumCopied, max_jobs + GrowBy)
     \/ /\ num_queued = max_jobs /\ ~ResizeIfFull
        /\ ToClient(c, "space")
        /\ UNCHANGED <<ring, wpc>>
  /\ UNCHANGED <<kill_threads, num_threads, finish_lock, wjob, cjob, ci, ops,
                 barrier, owed>>

\* Faulty variant: an if in place of the while around cnd_wait.
AddWokenOnce(c) ==
  /\ cpc[c] = "put"
  /\ Put(c, jobs, read_idx, write_idx, max_jobs)
  /\ UNCHANGED <<kill_threads, num_threads, finish_lock, signalled, wjob,
                 cjob, ci, ops, barrier, owed>>

\* Back from cnd_wait: the loop tests num_queued only, not kill_threads.
AddWoken(c) ==
  /\ cpc[c] = "put"
  /\ \/ /\ num_queued # max_jobs
        /\ Put(c, jobs, read_idx, write_idx, max_jobs)
     \/ /\ num_queued = max_jobs
        /\ ToClient(c, "space")
        /\ UNCHANGED <<ring, wpc>>
  /\ UNCHANGED <<kill_threads, num_threads, finish_lock, signalled, wjob,
                 cjob, ci, ops, barrier, owed>>

SpuriousSpace(c) ==
  /\ cpc[c] = "space"
  /\ ToClient(c, "put")
  /\ UNCHANGED <<ring, kill_threads, num_threads, finish_lock, signalled,
                 workers, cjob, ci, ops, barrier, owed>>

-----------------------------------------------------------------------------
(* util_queue_drop_job *)

\* Faulty variant: the slot is not cleared.
DropJobKeepsSlot(c) ==
  /\ cpc[c] = "drop"
  /\ ToClient(c, IF \E i \in Visited : jobs[i] = cjob[c] THEN "dropsig"
                                                         ELSE "dropwait")
  /\ UNCHANGED <<ring, kill_threads, num_threads, finish_lock, signalled,
                 workers, cjob, ci, ops, barrier, owed>>

DropJob(c) ==
  /\ cpc[c] = "drop"
  /\ \/ \E i \in Visited :
          /\ jobs[i] = cjob[c]
          /\ jobs' = [jobs EXCEPT ![i] = NoJob]
          /\ owed' = [d \in Clients |-> owed[d] \ {cjob[c]}]
          /\ ToClient(c, "dropsig")
     \/ /\ \A i \in Visited : jobs[i] # cjob[c]
        /\ ToClient(c, "dropwait")
        /\ UNCHANGED <<jobs, owed>>
  /\ UNCHANGED <<read_idx, write_idx, num_queued, max_jobs, kill_threads,
                 num_threads, finish_lock, signalled, workers, cjob, ci, ops,
                 barrier>>

\* Faulty variant: the fence of a removed job is not signalled.
DropSilently(c) ==
  /\ cpc[c] = "dropsig"
  /\ ToClient(c, "idle")
  /\ UNCHANGED <<ring, kill_threads, num_threads, finish_lock, signalled,
                 workers, cjob, ci, ops, barrier, owed>>

DropSignal(c) ==
  /\ cpc[c] = "dropsig"
  /\ signalled' = [signalled EXCEPT ![cjob[c]] = TRUE]
  /\ ToClient(c, "idle")
  /\ UNCHANGED <<ring, kill_threads, num_threads, finish_lock, workers, cjob,
                 ci, ops, barrier, owed>>

DropWaited(c) ==
  /\ cpc[c] = "dropwait" /\ signalled[cjob[c]]
  /\ ToClient(c, "idle")
  /\ UNCHANGED <<ring, kill_threads, num_threads, finish_lock, signalled,
                 workers, cjob, ci, ops, barrier, owed>>

-----------------------------------------------------------------------------
(* util_queue_finish *)

\* Faulty variant: no finish_lock.
FinishUnlocked(c) ==
  /\ cpc[c] = "finlock"
  /\ ci' = [ci EXCEPT ![c] = 0]
  /\ ToClient(c, "finadd")
  /\ UNCHANGED <<ring, kill_threads, num_threads, finish_lock, signalled,
                 workers, cjob, ops, barrier, owed>>

FinishLock(c) ==
  /\ cpc[c] = "finlock" /\ finish_lock = {}
  /\ finish_lock' = {c}
  /\ ci' = [ci EXCEPT ![c] = 0]
  /\ ToClient(c, "finadd")
  /\ UNCHANGED <<ring, kill_threads, num_threads, signalled, workers, cjob,
                 ops, barrier, owed>>

\* One round of the loop that queues a barrier job per worker: initialise the
\* fence (signalled) and call util_queue_add_job.
FinishAdd(c) ==
  /\ cpc[c] = "finadd"
  /\ IF ci[c] < num_threads
     THEN /\ cjob' = [cjob EXCEPT ![c] = <<c, ci[c] + 1>>]
          /\ signalled' = [signalled EXCEPT ![<<c, ci[c] + 1>>] = TRUE]
          /\ ci' = [ci EXCEPT ![c] = @ + 1]
          /\ ToClient(c, "add")
     ELSE /\ ci' = [ci EXCEPT ![c] = 0]
          /\ ToClient(c, "finwait")
          /\ UNCHANGED <<cjob, signalled>>
  /\ UNCHANGED <<ring, kill_threads, num_threads, finish_lock, workers, ops,
                 barrier, owed>>

\* One round of the loop that waits for the barrier jobs.
FinishWait(c) ==
  /\ cpc[c] = "finwait" /\ ci[c] < num_threads
  /\ signalled[<<c, ci[c] + 1>>]
  /\ ci' = [ci EXCEPT ![c] = @ + 1]
  /\ UNCHANGED <<ring, kill_threads, num_threads, finish_lock, signalled,
                 workers, cpc, cjob, ops, barrier, owed>>

FinishReturn(c) ==
  /\ cpc[c] = "finwait" /\ ci[c] >= num_threads
  /\ finish_lock' = {}
  /\ owed' = [owed EXCEPT ![c] = {}]
  /\ ToClient(c, "idle")
  /\ UNCHANGED <<ring, kill_threads, num_threads, signalled, workers, cjob,
                 ci, ops, barrier>>

-----------------------------------------------------------------------------
(* util_queue_killall_and_wait, from util_queue_destroy or atexit_handler *)

\* Faulty variant: the sleeping workers are not woken.
KillSilently(c) ==
  /\ cpc[c] = "kill"
  /\ kill_threads' = TRUE
  /\ ToClient(c, "join")
  /\ UNCHANGED <<ring, num_threads, finish_lock, signalled, workers, cjob, ci,
                 ops, barrier, owed>>

KillAll(c) ==
  /\ cpc[c] = "kill"
  /\ kill_threads' = TRUE
  /\ wpc' = [w \in Workers |-> IF wpc[w] = "waitq" THEN "fetch" ELSE wpc[w]]
  /\ ToClient(c, "join")
  /\ UNCHANGED <<ring, num_threads, finish_lock, signalled, wjob, cjob, ci,
                 ops, barrier, owed>>

JoinAll(c) ==
  /\ cpc[c] = "join" /\ \A w \in Workers : wpc[w] = "done"
  /\ num_threads' = 0
  /\ ToClient(c, "exited")
  /\ UNCHANGED <<ring, kill_threads, finish_lock, signalled, workers, cjob,
                 ci, ops, barrier, owed>>

-----------------------------------------------------------------------------
(* The calls the clients make *)

AtWorker(j) == \E w \in Workers : wjob[w] = j
AtClient(j) ==
  \E c \in Clients :
    cjob[c] = j /\ cpc[c] \in {"add", "space", "put", "drop", "dropsig", "dropwait"}

\* The unsignalled jobs that have been put into the ring and that no
\* util_queue_drop_job has removed (yet).
Pending ==
  {j \in Jobs : /\ ~signalled[j]
                /\ \A c \in Clients :
                     cpc[c] \in {"space", "put", "dropsig"} => cjob[c] # j}

\* A client adds a job it is not already using: u_queue.h forbids resetting a
\* fence that someone waits on, and asserts that it is signalled.
CallAdd(c, j) ==
  /\ "add" \in Calls
  /\ cpc[c] = "idle" /\ ops[c] < MaxOps
  /\ signalled[j] /\ ~AtClient(j) /\ ~AtWorker(j)
  /\ ops' = [ops EXCEPT ![c] = @ + 1]
  /\ cjob' = [cjob EXCEPT ![c] = j]
  /\ ToClient(c, "add")
  /\ UNCHANGED <<ring, kill_threads, num_threads, finish_lock, signalled,
                 workers, ci, barrier, owed>>

\* util_queue_drop_job returns at once when the fence is signalled; otherwise
\* it goes for the lock. The job's own util_queue_add_job has returned.
CallDrop(c, j) ==
  /\ "drop" \in Calls
  /\ cpc[c] = "idle" /\ ops[c] < MaxOps
  /\ ~signalled[j] /\ ~AtClient(j)
  /\ ops' = [ops EXCEPT ![c] = @ + 1]
  /\ cjob' = [cjob EXCEPT ![c] = j]
  /\ ToClient(c, "drop")
  /\ UNCHANGED <<ring, kill_threads, num_threads, finish_lock, signalled,
                 workers, ci, barrier, owed>>

\* util_queue_finish sizes its barrier before it takes finish_lock.
CallFinish(c) ==
  /\ "finish" \in Calls
  /\ cpc[c] = "idle" /\ ops[c] < MaxOps
  /\ ops' = [ops EXCEPT ![c] = @ + 1]
  /\ barrier' = [barrier EXCEPT ![c] = [count |-> num_threads, waiters |-> 0]]
  /\ owed' = [owed EXCEPT ![c] = Pending]
  /\ ToClient(c, "finlock")
  /\ UNCHANGED <<ring, kill_threads, num_threads, finish_lock, signalled,
                 workers, cjob, ci>>

CallKill(c) ==
  /\ "kill" \in Calls
  /\ cpc[c] = "idle" /\ ops[c] < MaxOps
  /\ \A d \in Clients : cpc[d] \notin {"kill", "join", "exited"}
  /\ ops' = [ops EXCEPT ![c] = @ + 1]
  /\ ToClient(c, "kill")
  /\ UNCHANGED <<ring, kill_threads, num_threads, finish_lock, signalled,
                 workers, cjob, ci, barrier, owed>>

-----------------------------------------------------------------------------
WorkerStep(w) ==
  \/ FetchWait(w) \/ FetchJob(w) \/ FetchKilled(w)
  \/ Execute(w) \/ BarrierWait(w) \/ SignalFence(w) \/ CleanupJob(w)
  \/ SignalRemaining(w)

ClientStep(c) ==
  \/ AddToKilled(c) \/ AddJob(c) \/ AddWoken(c)
  \/ DropJob(c) \/ DropSignal(c) \/ DropWaited(c)
  \/ FinishLock(c) \/ FinishAdd(c) \/ FinishWait(c) \/ FinishReturn(c)
  \/ KillAll(c) \/ JoinAll(c)

Call(c) ==
  \/ \E j \in Jobs : CallAdd(c, j) \/ CallDrop(c, j)
  \/ CallFinish(c) \/ CallKill(c)

Next ==
  \/ \E w \in Workers : WorkerStep(w) \/ SpuriousFetch(w)
  \/ \E c \in Clients : ClientStep(c) \/ SpuriousSpace(c) \/ Call(c)

\* Threads that are inside the queue's functions keep running and callbacks
\* return; nothing obliges a client to call, or cnd_wait to wake by itself.
Fairness ==
  /\ \A w \in Workers : WF_vars(WorkerStep(w))
  /\ \A c \in Clients : WF_vars(ClientStep(c))

Spec == Init /\ [][Next]_vars

FairSpec == Spec /\ Fairness

-----------------------------------------------------------------------------
(* Properties *)

\* The fields of the queue have their types: num_queued stays between 0 and
\* max_jobs, which util_queue_add_job and util_queue_thread_func assert, and
\* the indices stay inside the ring.
TypeOK ==
  /\ max_jobs \in Nat \ {0}
  /\ jobs \in [0..max_jobs-1 -> AllJobs \cup {NoJob}]
  /\ read_idx \in 0..max_jobs-1
  /\ write_idx \in 0..max_jobs-1
  /\ num_queued \in 0..max_jobs
  /\ kill_threads \in BOOLEAN
  /\ num_threads \in {0, NumThreads}
  /\ finish_lock \in SUBSET Clients
  /\ signalled \in [AllJobs -> BOOLEAN]
  /\ wpc \in [Workers -> WorkerPCs]
  /\ wjob \in [Workers -> AllJobs \cup {NoJob}]
  /\ cpc \in [Clients -> ClientPCs]
  /\ cjob \in [Clients -> AllJobs \cup {NoJob}]
  /\ ci \in [Clients -> 0..NumThreads]
  /\ barrier \in [Clients -> [count : 0..NumThreads, waiters : 0..NumThreads]]
  /\ owed \in [Clients -> SUBSET Jobs]
  /\ ops \in [Clients -> 0..MaxOps]

\* The slots between the indices, all of them when the queue is full.
Occupied == IF num_queued = max_jobs THEN 0..max_jobs-1 ELSE Visited

\* The counter says what the two indices cannot: equal indices mean a full or
\* an empty ring.
IndexCount ==
  /\ num_queued = max_jobs => read_idx = write_idx
  /\ num_queued < max_jobs =>
       num_queued = IF read_idx <= write_idx
                    THEN write_idx - read_idx
                    ELSE max_jobs - read_idx + write_idx

FreeSlotsZeroed == \A i \in (0..max_jobs-1) \ Occupied : jobs[i] = NoJob

\* The counter and the two indices of the ring agree, and every free slot is
\* zeroed: the assertion ptr->job == NULL of util_queue_add_job. Growing,
\* dropping and the wrap-around all have to keep it.
RingShape == IndexCount /\ FreeSlotsZeroed

\* Who is responsible for signalling the fence of job j: the ring slot it is
\* in, the worker that runs it, the producer between the reset and the slot,
\* or the client that has dropped it.
Holders(j) ==
  {i \in Occupied : jobs[i] = j}
    \cup {w \in Workers : wjob[w] = j /\ wpc[w] \in {"exec", "barrier", "signal"}}
    \cup {c \in Clients : cjob[c] = j /\ cpc[c] \in {"space", "put", "dropsig"}}

\* A signalled fence means the job is neither queued nor running, and nobody
\* will signal the fence a second time (the assertion in
\* util_queue_fence_signal): at most one party holds a job, and only while its
\* fence is unsignalled.
FenceMeansDone ==
  \A j \in AllJobs :
    /\ \A h, k \in Holders(j) : h = k
    /\ signalled[j] => Holders(j) = {}

\* The queues "assert idle" at exit: a shutdown that has begun joins every
\* worker.
ShutdownCompletes ==
  \A c \in Clients : cpc[c] = "kill" ~> cpc[c] = "exited"

\* No fence is forgotten: while it is unsignalled somebody will signal it.
NoFenceLost == \A j \in AllJobs : signalled[j] \/ Holders(j) # {}

\* "Wait until all previously added jobs have completed": when
\* util_queue_finish returns, the jobs pending at the call have been executed
\* and their fences signalled, or they have been dropped.
FinishWaitsForAll ==
  \A c \in Clients :
    cpc[c] = "finwait" /\ ci[c] >= num_threads => owed[c] = {}

\* Every job that was given to util_queue_add_job is eventually executed,
\* dropped or signalled at shutdown.
EveryFenceSignalled == \A j \in Jobs : ~signalled[j] ~> signalled[j]

\* Every call of a client returns: two concurrent calls of util_queue_finish do
\* not block each other at their barriers, and no wake-up of a producer that
\* waits on has_space_cond is lost.
EveryCallReturns ==
  \A c \in Clients : cpc[c] \notin {"idle", "exited"} ~> cpc[c] \in {"idle", "exited"}

\* The pool of workers this queue implements: the ring, read from read_idx on,
\* is a first-in first-out queue whatever is dropped and however it grows.
fifo == [k \in 1..num_queued |-> jobs[(read_idx + k - 1) % max_jobs]]
running == {wjob[w] : w \in {x \in Workers : wpc[x] \in {"exec", "barrier", "signal"}}}
dropped == {cjob[c] : c \in {d \in Clients : cpc[d] = "dropsig"}}
Pool == INSTANCE ThreadPool WITH Jobs <- AllJobs, Capacity <- MaxJobs,
                                 Unbounded <- ResizeIfFull, Hole <- NoJob
ImplementsPool == Pool!Spec
=============================================================================
