-------------------------- MODULE UtilQueueProofs --------------------------
(***************************************************************************)
(* Type correctness of the worker queue, the shape of its ring buffer, and *)
(* its fences: as long as the queue is not shut down, a fence is           *)
(* unsignalled exactly while one party (a slot, a worker or a client) has  *)
(* its job and will signal it. For any number of workers, clients and jobs *)
(* and any initial size.                                                   *)
(***************************************************************************)
EXTENDS UtilQueue, Sequences, FiniteSetTheorems, TLAPS

\* Setting the waiters of one barrier keeps the type of all of them.
LEMMA BarrierUpdate ==
  ASSUME NEW C, NEW N \in Nat, NEW c \in C, NEW k \in 0..N,
         NEW b \in [C -> [count : 0..N, waiters : 0..N]]
  PROVE  [b EXCEPT ![c].waiters = k] \in [C -> [count : 0..N, waiters : 0..N]]
<1>1. b[c] \in [count : 0..N, waiters : 0..N]
  OBVIOUS
<1>2. [b[c] EXCEPT !.waiters = k] \in [count : 0..N, waiters : 0..N]
  BY <1>1
<1> QED
  BY <1>2

\* The number of workers is a positive natural number.
LEMMA NumThreadsType == NumThreads \in Nat \ {0}
  BY UtilQueueAssumption, FS_CardinalityType, FS_EmptySet DEF NumThreads

\* One step of (i + 1) % max_jobs: the next slot, or slot 0 after the last.
LEMMA NextSlot ==
  ASSUME NEW m \in Nat \ {0}, NEW i \in 0..m-1
  PROVE  (i + 1) % m = IF i + 1 = m THEN 0 ELSE i + 1
<1>1. CASE i + 1 = m
  BY <1>1, SMT
<1>2. CASE i + 1 # m
  BY <1>2, SMT
<1> QED
  BY <1>1, <1>2

\* A cnd_signal leaves every program counter a program counter, and touches
\* only a thread that waited on the condition.
LEMMA SignalTypes ==
  ASSUME TypeOK
  PROVE  /\ SignalQueued \subseteq [Workers -> WorkerPCs]
         /\ SignalSpace \subseteq [Clients -> ClientPCs]
  BY ZenonT(40) DEF TypeOK, SignalQueued, SignalSpace, WorkerPCs, ClientPCs

\* The slots an enlarged ring is given.
LEMMA GrownType ==
  ASSUME TypeOK
  PROVE  /\ NumCopied \in 0..max_jobs
         /\ Grown \in [0..(max_jobs + GrowBy - 1) -> AllJobs \cup {NoJob}]
<1> USE DEF TypeOK
<1>1. NumCopied \in 0..max_jobs
  BY SMT DEF NumCopied
<1>2. \A i \in Nat : (read_idx + i) % max_jobs \in 0..max_jobs-1
  BY SMT
<1> QED
  BY <1>1, <1>2, SMT DEF Grown, GrowBy

\* Filling a slot of a ring of m slots keeps the types of the ring.
LEMMA PutType ==
  ASSUME TypeOK, NEW c \in Clients, cjob[c] \in AllJobs,
         NEW m \in Nat \ {0}, NEW slots \in [0..m-1 -> AllJobs \cup {NoJob}],
         NEW r \in 0..m-1, NEW wr \in 0..m-1, num_queued < m,
         Put(c, slots, r, wr, m)
  PROVE  /\ max_jobs' \in Nat \ {0}
         /\ jobs' \in [0..max_jobs'-1 -> AllJobs \cup {NoJob}]
         /\ read_idx' \in 0..max_jobs'-1
         /\ write_idx' \in 0..max_jobs'-1
         /\ num_queued' \in 0..max_jobs'
         /\ wpc' \in [Workers -> WorkerPCs]
         /\ cpc' \in [Clients -> ClientPCs]
<1>1. wpc' \in [Workers -> WorkerPCs]
  BY SignalTypes DEF Put
<1>2. cpc' \in [Clients -> ClientPCs]
  BY DEF Put, ToClient, TypeOK, ClientPCs
<1>3. write_idx' \in 0..m-1
  BY NextSlot DEF Put
<1> QED
  BY <1>1, <1>2, <1>3 DEF Put, TypeOK

\* The same for the slot that follows the copied jobs in an enlarged ring.
LEMMA PutGrownType ==
  ASSUME TypeOK, NEW c \in Clients, cjob[c] \in AllJobs, num_queued = max_jobs,
         Put(c, Grown, 0, NumCopied, max_jobs + GrowBy)
  PROVE  /\ max_jobs' \in Nat \ {0}
         /\ jobs' \in [0..max_jobs'-1 -> AllJobs \cup {NoJob}]
         /\ read_idx' \in 0..max_jobs'-1
         /\ write_idx' \in 0..max_jobs'-1
         /\ num_queued' \in 0..max_jobs'
         /\ wpc' \in [Workers -> WorkerPCs]
         /\ cpc' \in [Clients -> ClientPCs]
<1> DEFINE m == max_jobs + GrowBy
<1>1. /\ m \in Nat \ {0}
      /\ NumCopied \in 0..m-1
      /\ 0 \in 0..m-1
      /\ num_queued < m
  BY GrownType DEF GrowBy, TypeOK
<1>2. Grown \in [0..m-1 -> AllJobs \cup {NoJob}]
  BY GrownType DEF GrowBy, TypeOK
<1>3. Put(c, Grown, 0, NumCopied, m)
  OBVIOUS
<1> HIDE DEF m
<1> QED
  BY <1>1, <1>2, <1>3, PutType

\* A client inside util_queue_add_job has a job in its hands.
HasJob == \A c \in Clients : cpc[c] \in {"add", "space", "put"} => cjob[c] \in AllJobs

TypeInv == TypeOK /\ HasJob

\* The client that has filled a slot has left util_queue_add_job.
LEMMA PutHasJob ==
  ASSUME TypeInv, NEW c \in Clients, NEW m, NEW slots, NEW r, NEW wr,
         Put(c, slots, r, wr, m), cjob' = cjob
  PROVE  HasJob'
  BY DEF Put, ToClient, TypeInv, TypeOK, HasJob

\* Every step keeps the types of the ring, the fences and the program counters.
LEMMA TypeInvInductive == TypeInv /\ [Next]_vars => TypeInv'
<1> SUFFICES ASSUME TypeInv, [Next]_vars PROVE TypeInv'
  OBVIOUS
<1> USE UtilQueueAssumption, NumThreadsType
    DEF TypeInv, TypeOK, HasJob, ToClient, ToWorker, ring, workers, clients
<1>1. ASSUME NEW w \in Workers, FetchWait(w) PROVE TypeInv'
  BY <1>1 DEF FetchWait, WorkerPCs
<1>2. ASSUME NEW w \in Workers, FetchJob(w) PROVE TypeInv'
  <2>1. (read_idx + 1) % max_jobs \in 0..max_jobs-1
    BY NextSlot
  <2>2. cpc' \in [Clients -> ClientPCs]
    BY <1>2, SignalTypes DEF FetchJob
  <2>3. wpc' \in [Workers -> WorkerPCs]
    BY <1>2 DEF FetchJob, WorkerPCs
  <2>4. \A c \in Clients : cpc'[c] \in {"add", "space", "put"}
                            => cpc[c] \in {"add", "space", "put"}
    BY <1>2, SMTT(40) DEF FetchJob, SignalSpace
  <2>5. HasJob'
    BY <1>2, <2>4 DEF FetchJob
  <2> QED
    BY <1>2, <2>1, <2>2, <2>3, <2>5 DEF FetchJob
<1>3. ASSUME NEW w \in Workers, FetchKilled(w) PROVE TypeInv'
  BY <1>3 DEF FetchKilled, WorkerPCs
<1>4. ASSUME NEW w \in Workers, SpuriousFetch(w) PROVE TypeInv'
  BY <1>4 DEF SpuriousFetch, WorkerPCs
<1>5. ASSUME NEW w \in Workers, Execute(w) PROVE TypeInv'
  BY <1>5 DEF Execute, WorkerPCs
<1>6. ASSUME NEW w \in Workers, BarrierWait(w) PROVE TypeInv'
  <2> DEFINE c == wjob[w][1]
             n == barrier[c].waiters + 1
  <2>1. c \in Clients
    BY <1>6 DEF BarrierWait, BarrierJobs
  <2>2. wpc' \in [Workers -> WorkerPCs]
    BY <1>6, ZenonT(40) DEF BarrierWait, WorkerPCs
  <2>3. barrier' \in [Clients -> [count : 0..NumThreads, waiters : 0..NumThreads]]
    <3>1. CASE n < barrier[c].count
      <4>1. n \in 0..NumThreads /\ barrier' = [barrier EXCEPT ![c].waiters = n]
        <5>1. barrier[c] \in [count : 0..NumThreads, waiters : 0..NumThreads]
          BY <2>1
        <5> QED
          BY <1>6, <3>1, <5>1, SMTT(40) DEF BarrierWait
      <4> HIDE DEF c, n
      <4> QED
        BY <2>1, <4>1, BarrierUpdate
    <3>2. CASE ~(n < barrier[c].count)
      <4>1. 0 \in 0..NumThreads /\ barrier' = [barrier EXCEPT ![c].waiters = 0]
        BY <1>6, <3>2 DEF BarrierWait
      <4> HIDE DEF c, n
      <4> QED
        BY <2>1, <4>1, BarrierUpdate
    <3> QED
      BY <3>1, <3>2
  <2> QED
    BY <1>6, <2>2, <2>3 DEF BarrierWait
<1>7. ASSUME NEW w \in Workers, SignalFence(w) PROVE TypeInv'
  BY <1>7 DEF SignalFence, WorkerPCs
<1>8. ASSUME NEW w \in Workers, CleanupJob(w) PROVE TypeInv'
  BY <1>8 DEF CleanupJob, WorkerPCs
<1>9. ASSUME NEW w \in Workers, SignalRemaining(w) PROVE TypeInv'
  BY <1>9 DEF SignalRemaining, WorkerPCs
<1>10. ASSUME NEW c \in Clients, AddToKilled(c) PROVE TypeInv'
  BY <1>10 DEF AddToKilled, ClientPCs
<1>11. ASSUME NEW c \in Clients, AddJob(c) PROVE TypeInv'
  <2>1. cjob[c] \in AllJobs
    BY <1>11 DEF AddJob
  <2>2. signalled' \in [AllJobs -> BOOLEAN]
    BY <1>11 DEF AddJob
  <2>3. CASE Put(c, jobs, read_idx, write_idx, max_jobs) /\ num_queued # max_jobs
    <3>1. num_queued < max_jobs
      BY <2>3
    <3> QED
      BY <1>11, <2>1, <2>2, <2>3, <3>1, PutType, PutHasJob DEF AddJob
  <2>4. CASE /\ Put(c, Grown, 0, NumCopied, max_jobs + GrowBy)
             /\ num_queued = max_jobs
    BY <1>11, <2>1, <2>2, <2>4, PutGrownType, PutHasJob DEF AddJob
  <2>5. CASE cpc' = [cpc EXCEPT ![c] = "space"] /\ UNCHANGED <<ring, wpc>>
    BY <1>11, <2>1, <2>2, <2>5 DEF AddJob, ClientPCs
  <2> QED
    BY <1>11, <2>3, <2>4, <2>5 DEF AddJob
<1>12. ASSUME NEW c \in Clients, AddWoken(c) PROVE TypeInv'
  <2>1. cjob[c] \in AllJobs
    BY <1>12 DEF AddWoken
  <2>2. CASE Put(c, jobs, read_idx, write_idx, max_jobs) /\ num_queued # max_jobs
    <3>1. num_queued < max_jobs
      BY <2>2
    <3> QED
      BY <1>12, <2>1, <2>2, <3>1, PutType, PutHasJob DEF AddWoken
  <2>3. CASE cpc' = [cpc EXCEPT ![c] = "space"] /\ UNCHANGED <<ring, wpc>>
    BY <1>12, <2>1, <2>3 DEF AddWoken, ClientPCs
  <2> QED
    BY <1>12, <2>2, <2>3 DEF AddWoken
<1>13. ASSUME NEW c \in Clients, SpuriousSpace(c) PROVE TypeInv'
  BY <1>13 DEF SpuriousSpace, ClientPCs
<1>14. ASSUME NEW c \in Clients, DropJob(c) PROVE TypeInv'
  <2>1. cpc' \in [Clients -> ClientPCs]
    BY <1>14, ZenonT(40) DEF DropJob, ClientPCs
  <2>2. jobs' \in [0..max_jobs-1 -> AllJobs \cup {NoJob}]
    BY <1>14, ZenonT(40) DEF DropJob
  <2>3. owed' \in [Clients -> SUBSET Jobs]
    BY <1>14 DEF DropJob
  <2>4. HasJob'
    BY <1>14 DEF DropJob
  <2> QED
    BY <1>14, <2>1, <2>2, <2>3, <2>4 DEF DropJob
<1>15. ASSUME NEW c \in Clients, DropSignal(c) PROVE TypeInv'
  BY <1>15 DEF DropSignal, ClientPCs
<1>16. ASSUME NEW c \in Clients, DropWaited(c) PROVE TypeInv'
  BY <1>16 DEF DropWaited, ClientPCs
<1>17. ASSUME NEW c \in Clients, FinishLock(c) PROVE TypeInv'
  BY <1>17 DEF FinishLock, ClientPCs
<1>18. ASSUME NEW c \in Clients, FinishAdd(c) PROVE TypeInv'
  <2>1. CASE ci[c] < num_threads
    <3>1. ci[c] + 1 \in 1..NumThreads
      BY <2>1
    <3>2. <<c, ci[c] + 1>> \in AllJobs
      BY <3>1 DEF AllJobs, BarrierJobs
    <3> QED
      <4>1. cpc' \in [Clients -> ClientPCs]
        BY <1>18, <2>1 DEF FinishAdd, ClientPCs
      <4>2. signalled' \in [AllJobs -> BOOLEAN]
        BY <1>18, <2>1, <3>2 DEF FinishAdd
      <4>3. cjob' \in [Clients -> AllJobs \cup {NoJob}] /\ HasJob'
        <5> DEFINE k == <<c, ci[c] + 1>>
        <5>1. /\ k \in AllJobs /\ cjob' = [cjob EXCEPT ![c] = k]
              /\ cpc' = [cpc EXCEPT ![c] = "add"]
          BY <1>18, <2>1, <3>2 DEF FinishAdd
        <5> HIDE DEF k
        <5> QED
          BY <5>1
      <4>4. ci' \in [Clients -> 0..NumThreads]
        BY <1>18, <2>1, <3>1 DEF FinishAdd
      <4> QED
        BY <1>18, <4>1, <4>2, <4>3, <4>4 DEF FinishAdd
  <2>2. CASE ~(ci[c] < num_threads)
    <3>1. /\ cpc' = [cpc EXCEPT ![c] = "finwait"]
          /\ ci' = [ci EXCEPT ![c] = 0]
          /\ UNCHANGED <<cjob, signalled>>
      BY <1>18, <2>2 DEF FinishAdd
    <3>2. cpc' \in [Clients -> ClientPCs]
      BY <3>1 DEF ClientPCs
    <3>3. ci' \in [Clients -> 0..NumThreads]
      BY <3>1
    <3>4. HasJob'
      BY <3>1
    <3> QED
      BY <1>18, <3>1, <3>2, <3>3, <3>4 DEF FinishAdd
  <2> QED
    BY <2>1, <2>2
<1>19. ASSUME NEW c \in Clients, FinishWait(c) PROVE TypeInv'
  BY <1>19 DEF FinishWait, ClientPCs
<1>20. ASSUME NEW c \in Clients, FinishReturn(c) PROVE TypeInv'
  BY <1>20 DEF FinishReturn, ClientPCs
<1>21. ASSUME NEW c \in Clients, KillAll(c) PROVE TypeInv'
  BY <1>21 DEF KillAll, ClientPCs, WorkerPCs
<1>22. ASSUME NEW c \in Clients, JoinAll(c) PROVE TypeInv'
  BY <1>22 DEF JoinAll, ClientPCs
<1>23. ASSUME NEW c \in Clients, NEW j \in Jobs, CallAdd(c, j) PROVE TypeInv'
  BY <1>23 DEF CallAdd, ClientPCs, AllJobs
<1>24. ASSUME NEW c \in Clients, NEW j \in Jobs, CallDrop(c, j) PROVE TypeInv'
  BY <1>24 DEF CallDrop, ClientPCs, AllJobs
<1>25. ASSUME NEW c \in Clients, CallFinish(c) PROVE TypeInv'
  BY <1>25 DEF CallFinish, ClientPCs, Pending
<1>26. ASSUME NEW c \in Clients, CallKill(c) PROVE TypeInv'
  BY <1>26 DEF CallKill, ClientPCs
<1>27. CASE UNCHANGED vars
  BY <1>27 DEF vars
<1> QED
  BY <1>1, <1>2, <1>3, <1>4, <1>5, <1>6, <1>7, <1>8, <1>9, <1>10, <1>11, <1>12,
     <1>13, <1>14, <1>15, <1>16, <1>17, <1>18, <1>19, <1>20, <1>21, <1>22,
     <1>23, <1>24, <1>25, <1>26, <1>27
  DEF Next, WorkerStep, ClientStep, Call

\* The types hold initially and forever.
LEMMA TypeInvHolds == Spec => []TypeInv
<1>1. Init => TypeInv
  <2> SUFFICES ASSUME Init PROVE TypeInv
    OBVIOUS
  <2> USE UtilQueueAssumption, NumThreadsType DEF Init
  <2>1. /\ max_jobs \in Nat \ {0}
        /\ jobs \in [0..max_jobs-1 -> AllJobs \cup {NoJob}]
        /\ read_idx \in 0..max_jobs-1
        /\ write_idx \in 0..max_jobs-1
        /\ num_queued \in 0..max_jobs
    OBVIOUS
  <2>2. /\ signalled \in [AllJobs -> BOOLEAN]
        /\ wpc \in [Workers -> WorkerPCs]
        /\ wjob \in [Workers -> AllJobs \cup {NoJob}]
        /\ cpc \in [Clients -> ClientPCs]
        /\ cjob \in [Clients -> AllJobs \cup {NoJob}]
    BY DEF WorkerPCs, ClientPCs
  <2>3. /\ ci \in [Clients -> 0..NumThreads]
        /\ ops \in [Clients -> 0..MaxOps]
        /\ owed \in [Clients -> SUBSET Jobs]
    OBVIOUS
  <2>4. barrier \in [Clients -> [count : 0..NumThreads, waiters : 0..NumThreads]]
    OBVIOUS
  <2> QED
    BY <2>1, <2>2, <2>3, <2>4 DEF TypeInv, TypeOK, HasJob
<1> QED
  BY <1>1, TypeInvInductive, PTL DEF Spec

\* Every variable keeps its type: in particular the indices stay inside the
\* ring and num_queued between 0 and max_jobs, the assertion that
\* util_queue_add_job and util_queue_thread_func start with, also while the
\* ring grows and when the queue is shut down.
THEOREM TypeCorrect == Spec => []TypeOK
  BY TypeInvHolds, PTL DEF TypeInv

-----------------------------------------------------------------------------
(* The ring *)

\* The index arithmetic of a ring of m slots, apart from the queue: n slots
\* from r to w are in use.
Counts(n, r, w, m) ==
  /\ n = m => r = w
  /\ n < m => n = IF r <= w THEN w - r ELSE m - r + w
InUse(i, n, r, w, m) ==
  n = m \/ IF r <= w THEN r <= i /\ i < w ELSE i >= r \/ i < w

\* Advancing write_idx puts slot w, and no other, into use.
LEMMA AdvanceWrite ==
  ASSUME NEW m \in Nat \ {0}, NEW n \in 0..m, NEW r \in 0..m-1,
         NEW w \in 0..m-1, Counts(n, r, w, m), n # m
  PROVE  /\ Counts(n + 1, r, (w + 1) % m, m)
         /\ \A i \in 0..m-1 :
              InUse(i, n + 1, r, (w + 1) % m, m) <=> InUse(i, n, r, w, m) \/ i = w
<1>1. (w + 1) % m = IF w + 1 = m THEN 0 ELSE w + 1
  BY NextSlot
<1> QED
  BY <1>1 DEF Counts, InUse

\* Advancing read_idx puts slot r, and no other, out of use.
LEMMA AdvanceRead ==
  ASSUME NEW m \in Nat \ {0}, NEW n \in 0..m, NEW r \in 0..m-1,
         NEW w \in 0..m-1, Counts(n, r, w, m), n # 0
  PROVE  /\ Counts(n - 1, (r + 1) % m, w, m)
         /\ \A i \in 0..m-1 :
              InUse(i, n - 1, (r + 1) % m, w, m) <=> InUse(i, n, r, w, m) /\ i # r
<1>1. (r + 1) % m = IF r + 1 = m THEN 0 ELSE r + 1
  BY NextSlot
<1> QED
  BY <1>1 DEF Counts, InUse

\* The two definitions say the same as those of module UtilQueue.
LEMMA RingDefs ==
  ASSUME TypeOK
  PROVE  /\ IndexCount <=> Counts(num_queued, read_idx, write_idx, max_jobs)
         /\ \A i \in 0..max_jobs-1 :
              i \in Occupied <=> InUse(i, num_queued, read_idx, write_idx, max_jobs)
  BY DEF TypeOK, IndexCount, Counts, Occupied, Visited, InUse

\* ... also in the next state.
LEMMA RingDefsNext ==
  ASSUME TypeOK'
  PROVE  /\ IndexCount' <=> Counts(num_queued', read_idx', write_idx', max_jobs')
         /\ \A i \in 0..max_jobs'-1 :
              i \in Occupied' <=> InUse(i, num_queued', read_idx', write_idx', max_jobs')
  BY DEF TypeOK, IndexCount, Counts, Occupied, Visited, InUse

\* Filling the free slot at write_idx.
LEMMA PutRing ==
  ASSUME TypeInv, TypeInv', IndexCount, NEW c \in Clients, num_queued # max_jobs,
         Put(c, jobs, read_idx, write_idx, max_jobs)
  PROVE  IndexCount' /\ (FreeSlotsZeroed => FreeSlotsZeroed')
<1>1. /\ IndexCount'
      /\ \A i \in 0..max_jobs-1 : i \in Occupied' <=> i \in Occupied \/ i = write_idx
  BY AdvanceWrite, RingDefs, RingDefsNext DEF TypeInv, TypeOK, Put
<1>2. max_jobs' = max_jobs /\ jobs' = [jobs EXCEPT ![write_idx] = cjob[c]]
  BY DEF Put
<1> QED
  BY <1>1, <1>2 DEF FreeSlotsZeroed, TypeInv, TypeOK

\* Filling the slot behind the jobs that were copied into a larger ring: a
\* full ring is copied completely, since its indices are equal.
LEMMA GrowRing ==
  ASSUME TypeInv, TypeInv', IndexCount, NEW c \in Clients, num_queued = max_jobs,
         Put(c, Grown, 0, NumCopied, max_jobs + GrowBy)
  PROVE  IndexCount' /\ FreeSlotsZeroed'
<1>1. NumCopied = max_jobs
  BY DEF NumCopied, IndexCount
<1>2. (max_jobs + 1) % (max_jobs + 8) = max_jobs + 1
  <2> DEFINE m == max_jobs + 8
  <2>1. m \in Nat \ {0} /\ max_jobs \in 0..m-1 /\ max_jobs + 1 # m
    BY DEF TypeInv, TypeOK
  <2> HIDE DEF m
  <2>2. (max_jobs + 1) % m = max_jobs + 1
    BY <2>1, NextSlot
  <2> QED
    BY <2>2 DEF m
<1>3. /\ max_jobs' = max_jobs + 8 /\ read_idx' = 0
      /\ write_idx' = max_jobs + 1 /\ num_queued' = max_jobs + 1
      /\ jobs' = [Grown EXCEPT ![max_jobs] = cjob[c]]
  BY <1>1, <1>2 DEF Put, GrowBy
<1>4. IndexCount'
  BY <1>3 DEF IndexCount, TypeInv, TypeOK
<1>5. ASSUME NEW i \in (0..max_jobs'-1) \ Occupied' PROVE jobs'[i] = NoJob
  <2>1. i > max_jobs /\ i \in 0..(max_jobs + 8 - 1)
    BY <1>3, <1>5 DEF Occupied, Visited, TypeInv, TypeOK
  <2>2. Grown[i] = NoJob
    BY <1>1, <2>1 DEF Grown, GrowBy, TypeInv, TypeOK
  <2>3. Grown \in [0..(max_jobs + 8 - 1) -> AllJobs \cup {NoJob}]
    BY GrownType DEF TypeInv, GrowBy
  <2> QED
    BY <1>3, <2>1, <2>2, <2>3 DEF TypeInv, TypeOK
<1> QED
  BY <1>4, <1>5 DEF FreeSlotsZeroed

\* Every step keeps the counter and the indices in agreement, and every step
\* but the drain at shutdown keeps the free slots zeroed.
LEMMA RingInductive ==
  ASSUME TypeInv, IndexCount, [Next]_vars
  PROVE  /\ IndexCount'
         /\ \/ \E w \in Workers : SignalRemaining(w)
            \/ FreeSlotsZeroed => FreeSlotsZeroed'
<1> DEFINE Goal == /\ IndexCount'
                   /\ \/ \E w \in Workers : SignalRemaining(w)
                      \/ FreeSlotsZeroed => FreeSlotsZeroed'
<1>0. TypeInv'
  BY TypeInvInductive
<1>1. ASSUME UNCHANGED ring PROVE Goal
  BY <1>1 DEF ring, IndexCount, FreeSlotsZeroed, Occupied, Visited
<1>2. ASSUME NEW w \in Workers, FetchJob(w) PROVE Goal
  <2>1. /\ IndexCount'
        /\ \A i \in 0..max_jobs-1 : i \in Occupied' <=> i \in Occupied /\ i # read_idx
    BY <1>0, <1>2, AdvanceRead, RingDefs, RingDefsNext DEF TypeInv, TypeOK, FetchJob
  <2>2. max_jobs' = max_jobs /\ jobs' = [jobs EXCEPT ![read_idx] = NoJob]
    BY <1>2 DEF FetchJob
  <2> QED
    BY <2>1, <2>2 DEF FreeSlotsZeroed, TypeInv, TypeOK
<1>3. ASSUME NEW w \in Workers, SignalRemaining(w) PROVE Goal
  BY <1>3 DEF SignalRemaining, IndexCount, TypeInv, TypeOK
<1>4. ASSUME NEW c \in Clients, AddJob(c) PROVE Goal
  BY <1>0, <1>1, <1>4, PutRing, GrowRing DEF AddJob
<1>5. ASSUME NEW c \in Clients, AddWoken(c) PROVE Goal
  BY <1>0, <1>1, <1>5, PutRing DEF AddWoken
<1>6. ASSUME NEW c \in Clients, DropJob(c) PROVE Goal
  <2>1. UNCHANGED <<read_idx, write_idx, num_queued, max_jobs>>
    BY <1>6 DEF DropJob
  <2>2. \A i \in 0..max_jobs-1 : jobs'[i] = jobs[i] \/ jobs'[i] = NoJob
    BY <1>6 DEF DropJob, TypeInv, TypeOK
  <2>3. Occupied' = Occupied
    BY <2>1 DEF Occupied, Visited
  <2> QED
    BY <2>1, <2>2, <2>3 DEF IndexCount, FreeSlotsZeroed
<1>7. ASSUME NEW w \in Workers,
             \/ FetchWait(w) \/ FetchKilled(w) \/ SpuriousFetch(w) \/ Execute(w)
             \/ BarrierWait(w) \/ SignalFence(w) \/ CleanupJob(w)
      PROVE  UNCHANGED ring
  BY <1>7 DEF FetchWait, FetchKilled, SpuriousFetch, Execute, BarrierWait,
              SignalFence, CleanupJob
<1>8. ASSUME NEW c \in Clients,
             \/ AddToKilled(c) \/ SpuriousSpace(c) \/ DropSignal(c) \/ DropWaited(c)
             \/ FinishLock(c) \/ FinishAdd(c) \/ FinishWait(c) \/ FinishReturn(c)
             \/ KillAll(c) \/ JoinAll(c)
      PROVE  UNCHANGED ring
  BY <1>8 DEF AddToKilled, SpuriousSpace, DropSignal, DropWaited, FinishLock,
              FinishAdd, FinishWait, FinishReturn, KillAll, JoinAll
<1>9. ASSUME NEW c \in Clients, Call(c) PROVE UNCHANGED ring
  <2>1. ASSUME NEW j \in Jobs, CallAdd(c, j) PROVE UNCHANGED ring
    BY <2>1 DEF CallAdd
  <2>2. ASSUME NEW j \in Jobs, CallDrop(c, j) PROVE UNCHANGED ring
    BY <2>2 DEF CallDrop
  <2>3. ASSUME CallFinish(c) PROVE UNCHANGED ring
    BY <2>3 DEF CallFinish
  <2>4. ASSUME CallKill(c) PROVE UNCHANGED ring
    BY <2>4 DEF CallKill
  <2> QED
    BY <1>9, <2>1, <2>2, <2>3, <2>4 DEF Call
<1>10. UNCHANGED vars => UNCHANGED ring
  BY DEF vars
<1> HIDE DEF Goal
<1>11. Goal
  BY <1>1, <1>2, <1>3, <1>4, <1>5, <1>6, <1>7, <1>8, <1>9, <1>10
  DEF Next, WorkerStep, ClientStep
<1> QED
  BY <1>11 DEF Goal

\* The index arithmetic of the ring is right in every state, through the
\* wrap-around, the enlargement of a full ring, and the shutdown.
THEOREM RingCounts == Spec => []IndexCount
<1>1. Init => IndexCount
  BY UtilQueueAssumption DEF Init, IndexCount
<1>2. TypeInv /\ IndexCount /\ [Next]_vars => IndexCount'
  BY RingInductive
<1> QED
  BY <1>1, <1>2, TypeInvHolds, PTL DEF Spec

\* A queue that is not shut down.
NotKilled ==
  /\ ~kill_threads
  /\ \A c \in Clients : cpc[c] \notin {"kill", "join", "exited"}
  /\ \A w \in Workers : wpc[w] \notin {"exit", "done"}

\* A queue nobody shuts down keeps its workers.
LEMMA NotKilledInductive ==
  ASSUME "kill" \notin Calls, TypeInv, NotKilled, [Next]_vars
  PROVE  NotKilled'
<1> USE DEF TypeInv, TypeOK, NotKilled, ToClient, ToWorker, workers, clients
<1>1. ASSUME NEW w \in Workers,
             \/ FetchWait(w) \/ FetchKilled(w) \/ SpuriousFetch(w) \/ Execute(w)
             \/ SignalFence(w) \/ CleanupJob(w) \/ SignalRemaining(w)
      PROVE  NotKilled'
  BY <1>1 DEF FetchWait, FetchKilled, SpuriousFetch, Execute, SignalFence,
              CleanupJob, SignalRemaining
<1>2. ASSUME NEW w \in Workers, BarrierWait(w) PROVE NotKilled'
  BY <1>2 DEF BarrierWait
<1>3. ASSUME NEW w \in Workers, FetchJob(w) PROVE NotKilled'
  <2>1. ~kill_threads' /\ wpc \in [Workers -> WorkerPCs] /\ cpc \in [Clients -> ClientPCs]
    BY <1>3 DEF FetchJob
  <2>2. \A c \in Clients : cpc'[c] = cpc[c] \/ cpc'[c] = "put"
    BY <2>1, <1>3 DEF FetchJob, SignalSpace
  <2>3. \A v \in Workers : wpc'[v] = wpc[v] \/ wpc'[v] \in {"fetch", "exec"}
    BY <2>1, <1>3 DEF FetchJob
  <2> QED
    BY <2>1, <2>2, <2>3
<1>4. ASSUME NEW c \in Clients, NEW slots, NEW r, NEW wr, NEW m,
             Put(c, slots, r, wr, m), UNCHANGED kill_threads
      PROVE  NotKilled'
  BY <1>4 DEF Put, SignalQueued
<1>5. ASSUME NEW c \in Clients, AddJob(c) \/ AddWoken(c) PROVE NotKilled'
  <2>1. CASE cpc' = [cpc EXCEPT ![c] = "space"] /\ UNCHANGED <<wpc, kill_threads>>
    BY <2>1
  <2> QED
    BY <1>4, <1>5, <2>1 DEF AddJob, AddWoken
<1>6. ASSUME NEW c \in Clients,
             \/ AddToKilled(c) \/ SpuriousSpace(c) \/ DropJob(c) \/ DropSignal(c)
             \/ DropWaited(c) \/ FinishLock(c) \/ FinishWait(c) \/ FinishReturn(c)
      PROVE  NotKilled'
  <2>1. /\ cpc \in [Clients -> ClientPCs]
        /\ UNCHANGED <<wpc, kill_threads>>
    BY <1>6 DEF AddToKilled, SpuriousSpace, DropJob, DropSignal, DropWaited,
                FinishLock, FinishWait, FinishReturn
  <2>2. \/ cpc' = cpc
        \/ \E l \in {"idle", "finadd", "put", "dropsig", "dropwait"} :
             cpc' = [cpc EXCEPT ![c] = l]
    BY <1>6 DEF AddToKilled, SpuriousSpace, DropJob, DropSignal, DropWaited,
                FinishLock, FinishWait, FinishReturn
  <2> QED
    BY <2>1, <2>2
<1>7. ASSUME NEW c \in Clients, FinishAdd(c) PROVE NotKilled'
  BY <1>7 DEF FinishAdd
<1>8. ASSUME NEW c \in Clients, KillAll(c) \/ JoinAll(c) PROVE NotKilled'
  BY <1>8 DEF KillAll, JoinAll
<1>9. ASSUME NEW c \in Clients, Call(c) PROVE NotKilled'
  BY <1>9 DEF Call, CallAdd, CallDrop, CallFinish, CallKill
<1>10. CASE UNCHANGED vars
  BY <1>10 DEF vars
<1> QED
  BY <1>1, <1>2, <1>3, <1>5, <1>6, <1>7, <1>8, <1>9, <1>10
  DEF Next, WorkerStep, ClientStep

\* The ring is in order as long as the queue lives: its counter and indices
\* agree and util_queue_add_job finds the slot it fills zeroed, whatever is
\* dropped and however often the ring grows. (At shutdown the zeroing can
\* fail, when the drain meets a full ring.)
THEOREM RingInShape ==
  ASSUME "kill" \notin Calls
  PROVE  Spec => []RingShape
<1> DEFINE Inv == NotKilled /\ RingShape
<1>1. Init => Inv
  BY UtilQueueAssumption
  DEF Init, RingShape, IndexCount, FreeSlotsZeroed, Occupied, Visited, NotKilled
<1>2. TypeInv /\ Inv /\ [Next]_vars => Inv'
  <2> SUFFICES ASSUME TypeInv, Inv, [Next]_vars PROVE Inv'
    OBVIOUS
  <2>1. NotKilled'
    BY NotKilledInductive
  <2>2. ~ \E w \in Workers : SignalRemaining(w)
    BY DEF NotKilled, SignalRemaining
  <2> QED
    BY <2>1, <2>2, RingInductive DEF RingShape
<1> QED
  BY <1>1, <1>2, TypeInvHolds, PTL DEF Spec

-----------------------------------------------------------------------------
(* The fences *)

Slots == 0..max_jobs-1

\* The workers between taking a job and signalling its fence.
Active == {w \in Workers : wpc[w] \in {"exec", "barrier", "signal"}}

\* The clients by what they do with cjob: about to reset its fence, anywhere in
\* util_queue_add_job, responsible for an unsignalled fence, using the job at
\* all; and those in the two loops of util_queue_finish.
Begin   == {c \in Clients : cpc[c] = "add"}
Adding  == {c \in Clients : cpc[c] \in {"add", "space", "put"}}
Holding == {c \in Clients : cpc[c] \in {"space", "put", "dropsig"}}
Busy    == {c \in Clients :
              cpc[c] \in {"add", "space", "put", "drop", "dropsig", "dropwait"}}
FinAdd  == {c \in Clients : cpc[c] = "finadd"}
FinWait == {c \in Clients : cpc[c] = "finwait"}

\* No two clients use the same job.
ClientsDistinct ==
  \A c, d \in Busy : cjob[c] = cjob[d] => c = d

\* No job is in two places.
OneOwner ==
  /\ \A i, k \in Slots : jobs[i] # NoJob /\ jobs[i] = jobs[k] => i = k
  /\ \A v, w \in Active : wjob[v] = wjob[w] => v = w
  /\ \A i \in Slots, w \in Active : jobs[i] # wjob[w]
  /\ \A i \in Slots, c \in Holding : jobs[i] # cjob[c]
  /\ \A w \in Active, c \in Holding : wjob[w] # cjob[c]

\* A job that is somewhere is unsignalled, and one about to be added is not.
OwnedUnsignalled ==
  /\ \A i \in Slots : jobs[i] # NoJob => ~signalled[jobs[i]]
  /\ \A w \in Active : wjob[w] \in AllJobs /\ ~signalled[wjob[w]]
  /\ \A c \in Holding : ~signalled[cjob[c]]
  /\ \A c \in Begin : signalled[cjob[c]]

\* An unsignalled job is somewhere.
UnsignalledOwned ==
  \A j \in AllJobs : ~signalled[j] =>
    \/ \E i \in Slots : jobs[i] = j
    \/ \E w \in Active : wjob[w] = j
    \/ \E c \in Holding : cjob[c] = j

\* A client drops jobs of clients only; the job it adds in util_queue_finish is
\* its own barrier job, the one the loop index says.
ClientJobs ==
  /\ \A c \in Busy \ Adding : cjob[c] \in Jobs
  /\ \A c \in Adding : cjob[c] \in Jobs \/ cjob[c] = <<c, ci[c]>>

\* The barrier jobs of a client are unsignalled only while it is in
\* util_queue_finish: those it has added, and does not yet know to be done.
BarrierFences ==
  \A c \in Clients : \A i \in 1..NumThreads :
    ~signalled[<<c, i>>] =>
      \/ c \in FinAdd /\ i <= ci[c]
      \/ c \in Adding /\ cjob[c] \notin Jobs /\ i <= ci[c]
      \/ c \in FinWait /\ i > ci[c]

FenceInv ==
  /\ ClientsDistinct
  /\ OneOwner
  /\ OwnedUnsignalled
  /\ UnsignalledOwned
  /\ ClientJobs
  /\ BarrierFences
  /\ num_threads = NumThreads

-----------------------------------------------------------------------------
\* Holding clients are busy, and so are those in util_queue_add_job.
LEMMA ClientSets ==
  /\ Begin \subseteq Adding
  /\ Adding \subseteq Busy
  /\ Holding \subseteq Busy
  /\ Begin \cap Holding = {}
  /\ Busy \cap FinAdd = {} /\ Busy \cap FinWait = {} /\ FinAdd \cap FinWait = {}
  /\ Busy \subseteq Clients /\ FinAdd \subseteq Clients /\ FinWait \subseteq Clients
  /\ Active \subseteq Workers
  BY DEF Begin, Adding, Holding, Busy, FinAdd, FinWait, Active

\* A job of a client is no barrier job.
LEMMA JobKinds ==
  /\ \A j \in Jobs : j \in AllJobs
  /\ \A c \in Clients : \A i \in 1..NumThreads :
       <<c, i>> \in AllJobs /\ <<c, i>> \notin Jobs
  BY UtilQueueAssumption DEF AllJobs, BarrierJobs

\* The sets of clients do not change with a step that leaves cpc alone or lets
\* a producer return from cnd_wait.
LEMMA SpaceWoken ==
  ASSUME TypeOK, cpc' \in SignalSpace \cup {cpc}
  PROVE  UNCHANGED <<Begin, Adding, Holding, Busy, FinAdd, FinWait>>
<1>1. \A c \in Clients : cpc'[c] = cpc[c] \/ (cpc[c] = "space" /\ cpc'[c] = "put")
  BY DEF SignalSpace, TypeOK
<1> QED
  BY <1>1 DEF Begin, Adding, Holding, Busy, FinAdd, FinWait

\* The active workers do not change when one is woken.
LEMMA QueuedWoken ==
  ASSUME TypeOK, wpc' \in SignalQueued
  PROVE  Active' = Active
<1>1. \A w \in Workers : wpc'[w] = wpc[w] \/ (wpc[w] = "waitq" /\ wpc'[w] = "fetch")
  BY DEF SignalQueued, TypeOK
<1> QED
  BY <1>1 DEF Active

\* A step that moves no job, and no client into or out of a call, keeps the
\* invariant.
LEMMA Frame ==
  ASSUME FenceInv,
         UNCHANGED <<jobs, max_jobs, signalled, cjob, ci, num_threads>>,
         UNCHANGED <<Active, Begin, Adding, Holding, Busy, FinAdd, FinWait>>,
         \A w \in Active : wjob'[w] = wjob[w]
  PROVE  FenceInv'
  BY DEF FenceInv, ClientsDistinct, OneOwner, OwnedUnsignalled, UnsignalledOwned,
         ClientJobs, BarrierFences, Slots

-----------------------------------------------------------------------------
(* The workers *)

\* Steps of a worker that only change its program counter, and the end of a
\* cleanup, move no job.
LEMMA WorkerFrame ==
  ASSUME TypeOK, FenceInv, NEW w \in Workers,
         \/ FetchWait(w) \/ SpuriousFetch(w) \/ Execute(w) \/ BarrierWait(w)
         \/ CleanupJob(w)
  PROVE  FenceInv'
<1>1. UNCHANGED <<jobs, max_jobs, signalled, cpc, cjob, ci, num_threads>>
  BY DEF FetchWait, SpuriousFetch, Execute, BarrierWait, CleanupJob, ring, clients
<1>2. Active' = Active /\ \A v \in Active : wjob'[v] = wjob[v]
  <2>1. CASE BarrierWait(w)
    BY <2>1 DEF BarrierWait, Active, TypeOK, ToWorker
  <2>2. CASE CleanupJob(w)
    BY <2>2 DEF CleanupJob, Active, TypeOK, ToWorker
  <2>3. CASE FetchWait(w) \/ SpuriousFetch(w) \/ Execute(w)
    BY <2>3 DEF FetchWait, SpuriousFetch, Execute, Active, TypeOK, ToWorker
  <2> QED
    BY <2>1, <2>2, <2>3
<1>3. UNCHANGED <<Begin, Adding, Holding, Busy, FinAdd, FinWait>>
  BY <1>1, SpaceWoken
<1> QED
  BY <1>1, <1>2, <1>3, Frame

\* Jobs and clients are where the types say.
LEMMA JobTypes ==
  ASSUME TypeInv, FenceInv
  PROVE  /\ \A i \in Slots : jobs[i] \in AllJobs \cup {NoJob}
         /\ \A w \in Active : wjob[w] \in AllJobs
         /\ \A c \in Busy : cjob[c] \in AllJobs
         /\ \A c \in Clients : ci[c] \in 0..NumThreads
         /\ NoJob \notin AllJobs
<1>1. \A c \in Adding : cjob[c] \in AllJobs
  BY DEF TypeInv, HasJob, Adding
<1>2. \A c \in Busy \ Adding : cjob[c] \in AllJobs
  BY JobKinds DEF FenceInv, ClientJobs
<1>3. \A w \in Active : wjob[w] \in AllJobs
  BY DEF FenceInv, OwnedUnsignalled
<1> QED
  BY <1>1, <1>2, <1>3, UtilQueueAssumption DEF TypeInv, TypeOK, Slots

\* Taking a job moves it from its slot to the worker.
LEMMA FetchFences ==
  ASSUME TypeInv, FenceInv, NEW w \in Workers, FetchJob(w)
  PROVE  FenceInv'
<1> DEFINE j == jobs[read_idx]
<1>0. TypeOK
  BY DEF TypeInv
<1>1. /\ UNCHANGED <<max_jobs, signalled, cjob, ci, num_threads>>
      /\ UNCHANGED <<Begin, Adding, Holding, Busy, FinAdd, FinWait>>
  BY <1>0, SpaceWoken DEF FetchJob
<1>2. /\ w \notin Active
      /\ Active' = IF j = NoJob THEN Active ELSE Active \cup {w}
      /\ wjob'[w] = j /\ \A v \in Active : wjob'[v] = wjob[v]
  BY <1>0 DEF FetchJob, ToWorker, Active, TypeOK
<1>3. /\ Slots' = Slots /\ read_idx \in Slots
      /\ j \in AllJobs \cup {NoJob}
      /\ \A i \in Slots : jobs'[i] = IF i = read_idx THEN NoJob ELSE jobs[i]
  BY <1>0, <1>1 DEF FetchJob, TypeOK, Slots
<1>4. NoJob \notin AllJobs
  BY UtilQueueAssumption
<1> USE DEF FenceInv
<1> HIDE DEF j
<1>5. OneOwner'
  <2> USE <1>1, <1>2, <1>3 DEF OneOwner
  <2>1. \A i, k \in Slots' : jobs'[i] # NoJob /\ jobs'[i] = jobs'[k] => i = k
    OBVIOUS
  <2>2. \A v, x \in Active' : wjob'[v] = wjob'[x] => v = x
    BY DEF j
  <2>3. \A i \in Slots', v \in Active' : jobs'[i] # wjob'[v]
    BY <1>4 DEF j, OwnedUnsignalled
  <2>4. \A i \in Slots', c \in Holding' : jobs'[i] # cjob'[c]
    BY <1>4, JobTypes, ClientSets
  <2>5. \A v \in Active', c \in Holding' : wjob'[v] # cjob'[c]
    BY DEF j
  <2> QED
    BY <2>1, <2>2, <2>3, <2>4, <2>5
<1>6. OwnedUnsignalled'
  BY <1>1, <1>2, <1>3 DEF OwnedUnsignalled, j
<1>7. UnsignalledOwned'
  BY <1>1, <1>2, <1>3, <1>4 DEF UnsignalledOwned, j
<1> QED
  BY <1>1, <1>5, <1>6, <1>7 DEF ClientsDistinct, ClientJobs, BarrierFences

\* The worker that signals a fence was the only one to have its job.
LEMMA SignalFences ==
  ASSUME TypeInv, FenceInv, NEW w \in Workers, SignalFence(w)
  PROVE  FenceInv'
<1> DEFINE j == wjob[w]
<1>0. TypeOK
  BY DEF TypeInv
<1>1. /\ UNCHANGED <<jobs, max_jobs, cpc, cjob, ci, num_threads>>
      /\ Slots' = Slots
  BY DEF SignalFence, ring, clients, Slots
<1>2. UNCHANGED <<Begin, Adding, Holding, Busy, FinAdd, FinWait>>
  BY <1>0, <1>1, SpaceWoken
<1>3. /\ w \in Active /\ Active' = Active \ {w}
      /\ \A v \in Active' : wjob'[v] = wjob[v]
  BY <1>0 DEF SignalFence, ToWorker, Active, TypeOK
<1>4. /\ j \in AllJobs
      /\ signalled'[j]
      /\ \A k \in AllJobs : k # j => (signalled'[k] <=> signalled[k])
  BY <1>0, <1>3, JobTypes DEF SignalFence, TypeOK
<1> HIDE DEF j
<1> USE DEF FenceInv
<1>5. OneOwner'
  BY <1>1, <1>2, <1>3 DEF OneOwner
<1>6. OwnedUnsignalled'
  <2> USE <1>1, <1>2, <1>3, <1>4, JobTypes, ClientSets DEF OwnedUnsignalled, OneOwner, j
  <2>1. \A i \in Slots' : jobs'[i] # NoJob => ~signalled'[jobs'[i]]
    OBVIOUS
  <2>2. \A v \in Active' : wjob'[v] \in AllJobs /\ ~signalled'[wjob'[v]]
    OBVIOUS
  <2>3. \A c \in Holding' : ~signalled'[cjob'[c]]
    OBVIOUS
  <2>4. \A c \in Begin' : signalled'[cjob'[c]]
    OBVIOUS
  <2> QED
    BY <2>1, <2>2, <2>3, <2>4
<1>7. UnsignalledOwned'
  <2>1. ASSUME NEW k \in AllJobs, ~signalled'[k]
        PROVE  \/ \E i \in Slots' : jobs'[i] = k
               \/ \E v \in Active' : wjob'[v] = k
               \/ \E c \in Holding' : cjob'[c] = k
    <3>1. k # j /\ ~signalled[k]
      BY <1>4, <2>1
    <3> QED
      BY <1>1, <1>2, <1>3, <3>1 DEF UnsignalledOwned, j
  <2> QED
    BY <2>1 DEF UnsignalledOwned
<1>8. BarrierFences'
  BY <1>1, <1>2, <1>4, JobKinds DEF BarrierFences
<1> QED
  BY <1>1, <1>2, <1>5, <1>6, <1>7, <1>8 DEF ClientsDistinct, ClientJobs

-----------------------------------------------------------------------------
(* util_queue_add_job *)

\* What filling a slot does to the array of jobs, whether it was copied into a
\* larger one or not: job j comes in, no job is lost, none is duplicated.
Filled(j) ==
  /\ \E i \in Slots' : jobs'[i] = j
  /\ \A i \in Slots : jobs[i] # NoJob => \E k \in Slots' : jobs'[k] = jobs[i]
  /\ \A k \in Slots' :
       jobs'[k] = NoJob \/ jobs'[k] = j \/ \E i \in Slots : jobs'[k] = jobs[i]
  /\ \A i, k \in Slots' : jobs'[i] # NoJob /\ jobs'[i] = jobs'[k] => i = k

\* A slot that is filled at write_idx was free and zeroed.
LEMMA PutFills ==
  ASSUME TypeInv, RingShape, FenceInv, NEW c \in Adding, num_queued # max_jobs,
         \A i \in Slots : jobs[i] # cjob[c],
         Put(c, jobs, read_idx, write_idx, max_jobs)
  PROVE  Filled(cjob[c])
<1>1. /\ Slots' = Slots /\ write_idx \in Slots
      /\ \A i \in Slots : jobs'[i] = IF i = write_idx THEN cjob[c] ELSE jobs[i]
  BY DEF Put, Slots, TypeInv, TypeOK
<1>2. jobs[write_idx] = NoJob
  <2>1. write_idx \notin Occupied
    BY DEF RingShape, IndexCount, Occupied, Visited, TypeInv, TypeOK
  <2> QED
    BY <1>1, <2>1 DEF RingShape, FreeSlotsZeroed, Slots
<1> QED
  BY <1>1, <1>2 DEF Filled, FenceInv, OneOwner

\* Adding less than m to a slot number, round the ring.
LEMMA Rotate ==
  ASSUME NEW m \in Nat \ {0}, NEW r \in 0..m-1, NEW i \in 0..m-1
  PROVE  (r + i) % m = IF r + i < m THEN r + i ELSE r + i - m
<1>1. CASE r + i < m
  BY <1>1, SMT
<1>2. CASE ~(r + i < m)
  <2>1. (r + i) = m + (r + i - m) /\ r + i - m \in 0..m-1
    BY <1>2
  <2> QED
    BY <1>2, <2>1, SMT
<1> QED
  BY <1>1, <1>2

\* A full ring is copied completely: a slot of the old one goes to its distance
\* from read_idx, and the new job behind them.
LEMMA GrowFills ==
  ASSUME TypeInv, RingShape, FenceInv, NEW c \in Adding, num_queued = max_jobs,
         \A i \in Slots : jobs[i] # cjob[c],
         Put(c, Grown, 0, NumCopied, max_jobs + GrowBy)
  PROVE  Filled(cjob[c])
<1> DEFINE r == read_idx
           m == max_jobs
           At(i) == IF r + i < m THEN r + i ELSE r + i - m
<1>1. /\ m \in Nat \ {0} /\ r \in 0..m-1 /\ Slots = 0..m-1
      /\ jobs \in [0..m-1 -> AllJobs \cup {NoJob}]
  BY DEF TypeInv, TypeOK, Slots
<1>2. NumCopied = m
  BY DEF NumCopied, RingShape, IndexCount
<1>3. Grown = [i \in 0..(m + 7) |-> IF i < m THEN jobs[(r + i) % m] ELSE NoJob]
  BY <1>1, <1>2 DEF Grown, GrowBy
<1>4. ASSUME NEW i \in 0..m-1 PROVE Grown[i] = jobs[At(i)]
  <2>1. (r + i) % m = At(i)
    BY <1>1, Rotate
  <2>2. i \in 0..(m + 7) /\ i < m
    BY <1>1
  <2> QED
    BY <1>3, <2>1, <2>2
<1>5. \A i \in m..(m + 7) : Grown[i] = NoJob
  BY <1>1, <1>3
<1>6. Slots' = 0..(m + 7) /\ jobs' = [Grown EXCEPT ![m] = cjob[c]]
  BY <1>1, <1>2 DEF Put, GrowBy, Slots
<1>7. /\ jobs'[m] = cjob[c]
      /\ \A i \in 0..m-1 : jobs'[i] = jobs[At(i)]
      /\ \A i \in (m + 1)..(m + 7) : jobs'[i] = NoJob
  <2>1. /\ m \in 0..(m + 7) /\ \A i \in 0..m-1 : i \in 0..(m + 7) /\ i # m
        /\ \A i \in (m + 1)..(m + 7) : i \in m..(m + 7) /\ i \in 0..(m + 7) /\ i # m
    BY <1>1
  <2>2. DOMAIN Grown = 0..(m + 7)
    BY <1>3
  <2> HIDE DEF At, m
  <2> QED
    BY <1>4, <1>5, <1>6, <2>1, <2>2
<1>8. /\ \A i \in 0..m-1 : At(i) \in 0..m-1
      /\ \A i, k \in 0..m-1 : At(i) = At(k) => i = k
      /\ \A i \in 0..m-1 : \E k \in 0..m-1 : At(k) = i
  <2>1. ASSUME NEW i \in 0..m-1 PROVE \E k \in 0..m-1 : At(k) = i
    <3>1. CASE r <= i
      <4>1. i - r \in 0..m-1
        BY <1>1, <3>1
      <4> WITNESS i - r \in 0..m-1
      <4> QED BY <1>1, <3>1
    <3>2. CASE ~(r <= i)
      <4>1. i + m - r \in 0..m-1
        BY <1>1, <3>2
      <4> WITNESS i + m - r \in 0..m-1
      <4> QED BY <1>1, <3>2
    <3> QED
      BY <3>1, <3>2
  <2> QED
    BY <1>1, <2>1
<1> HIDE DEF At, m, r
<1>9. \A k \in 0..(m + 7) : k \in 0..m-1 \/ k = m \/ k \in (m + 1)..(m + 7)
  BY <1>1
<1>10. m \in 0..(m + 7) /\ \A k \in 0..m-1 : k \in 0..(m + 7)
  BY <1>1
<1> USE <1>1, <1>6, <1>7, <1>8, <1>9, <1>10 DEF FenceInv, OneOwner
<1>11. \E i \in Slots' : jobs'[i] = cjob[c]
  OBVIOUS
<1>12. ASSUME NEW i \in Slots PROVE \E k \in Slots' : jobs'[k] = jobs[i]
  <2>1. PICK k \in 0..m-1 : At(k) = i
    OBVIOUS
  <2>2. k \in Slots' /\ jobs'[k] = jobs[i]
    BY <2>1
  <2> QED
    BY <2>2
<1>13. \A k \in Slots' : jobs'[k] = NoJob \/ jobs'[k] = cjob[c]
                           \/ \E i \in Slots : jobs'[k] = jobs[i]
  OBVIOUS
<1>14. ASSUME NEW i \in Slots', NEW k \in Slots', jobs'[i] # NoJob, jobs'[i] = jobs'[k]
       PROVE  i = k
  <2>1. /\ i \in 0..m-1 \/ i = m
        /\ k \in 0..m-1 \/ k = m
    BY <1>14
  <2>2. \A x \in 0..m-1 : jobs'[x] # jobs'[m]
    <3> TAKE x \in 0..m-1
    <3>1. jobs'[x] = jobs[At(x)] /\ At(x) \in Slots /\ jobs'[m] = cjob[c]
      OBVIOUS
    <3>2. jobs[At(x)] # cjob[c]
      BY <3>1
    <3> QED
      BY ONLY <3>1, <3>2
  <2>3. CASE i \in 0..m-1 /\ k \in 0..m-1
    <3>1. jobs[At(i)] # NoJob /\ jobs[At(i)] = jobs[At(k)]
      BY <1>14, <2>3
    <3>2. At(i) \in Slots /\ At(k) \in Slots
      BY <2>3
    <3>3. At(i) = At(k)
      BY <3>1, <3>2
    <3> QED
      BY <2>3, <3>3
  <2> QED
    BY <1>14, <2>1, <2>2, <2>3
<1> QED
  BY ONLY <1>11, <1>12, <1>13, <1>14 DEF Filled

\* Adding a job: the client that had it to itself hands it to a slot. Its fence
\* is unsignalled from now on, or since the client began to wait for space.
LEMMA FillFences ==
  ASSUME TypeInv, FenceInv, NEW c \in Adding,
         \A i \in Slots : jobs[i] # cjob[c],
         \A w \in Active : wjob[w] # cjob[c],
         Filled(cjob[c]),
         ~signalled'[cjob[c]],
         \A k \in AllJobs : k # cjob[c] => (signalled'[k] <=> signalled[k]),
         UNCHANGED <<wjob, cjob, ci, num_threads, Active, FinWait>>,
         /\ Begin' = Begin \ {c} /\ Adding' = Adding \ {c}
         /\ Holding' = Holding \ {c} /\ Busy' = Busy \ {c}
         /\ FinAdd' = IF cjob[c] \in Jobs THEN FinAdd ELSE FinAdd \cup {c}
  PROVE  FenceInv'
<1> USE ClientSets, JobTypes DEF FenceInv
<1> DEFINE j == cjob[c]
<1>1. j \in AllJobs /\ \A d \in Busy : d # c => cjob[d] # j
  BY DEF ClientsDistinct
<1>2. OneOwner'
  <2> USE <1>1 DEF OneOwner, Filled
  <2>1. \A i, k \in Slots' : jobs'[i] # NoJob /\ jobs'[i] = jobs'[k] => i = k
    OBVIOUS
  <2>2. \A v, x \in Active' : wjob'[v] = wjob'[x] => v = x
    OBVIOUS
  <2>3. \A i \in Slots', v \in Active' : jobs'[i] # wjob'[v]
    OBVIOUS
  <2>4. \A i \in Slots', d \in Holding' : jobs'[i] # cjob'[d]
    OBVIOUS
  <2>5. \A v \in Active', d \in Holding' : wjob'[v] # cjob'[d]
    OBVIOUS
  <2> HIDE DEF Filled
  <2> QED
    BY <2>1, <2>2, <2>3, <2>4, <2>5
<1>3. OwnedUnsignalled'
  <2> USE <1>1 DEF OwnedUnsignalled
  <2>1. ASSUME NEW i \in Slots', jobs'[i] # NoJob PROVE ~signalled'[jobs'[i]]
    <3>1. jobs'[i] = j \/ \E k \in Slots : jobs'[i] = jobs[k]
      BY <2>1 DEF Filled
    <3> QED
      BY <2>1, <3>1
  <2>2. \A v \in Active' : wjob'[v] \in AllJobs /\ ~signalled'[wjob'[v]]
    OBVIOUS
  <2>3. \A d \in Holding' : ~signalled'[cjob'[d]]
    OBVIOUS
  <2>4. \A d \in Begin' : signalled'[cjob'[d]]
    OBVIOUS
  <2> QED
    BY <2>1, <2>2, <2>3, <2>4
<1>4. UnsignalledOwned'
  <2>1. ASSUME NEW k \in AllJobs, ~signalled'[k]
        PROVE  \/ \E i \in Slots' : jobs'[i] = k
               \/ \E v \in Active' : wjob'[v] = k
               \/ \E d \in Holding' : cjob'[d] = k
    <3>1. CASE k = j
      BY <3>1 DEF Filled
    <3>2. CASE k # j
      <4>1. ~signalled[k]
        BY <2>1, <3>2
      <4>2. \/ \E i \in Slots : jobs[i] = k
            \/ \E v \in Active : wjob[v] = k
            \/ \E d \in Holding : cjob[d] = k
        BY <4>1 DEF UnsignalledOwned
      <4>3. CASE \E i \in Slots : jobs[i] = k
        BY <4>3 DEF Filled
      <4>4. CASE \E d \in Holding : cjob[d] = k
        BY <3>2, <4>4
      <4> QED
        BY <4>2, <4>3, <4>4
    <3> QED
      BY <3>1, <3>2
  <2> QED
    BY <2>1 DEF UnsignalledOwned
<1>5. BarrierFences'
  <2> SUFFICES ASSUME NEW d \in Clients, NEW i \in 1..NumThreads, ~signalled'[<<d, i>>]
               PROVE  \/ d \in FinAdd' /\ i <= ci'[d]
                      \/ d \in Adding' /\ cjob'[d] \notin Jobs /\ i <= ci'[d]
                      \/ d \in FinWait' /\ i > ci'[d]
    BY DEF BarrierFences
  <2>1. CASE <<d, i>> = j
    <3>1. j = <<c, ci[c]>> /\ j \notin Jobs
      BY <2>1, JobKinds DEF ClientJobs
    <3>2. d = c /\ i = ci[c]
      BY <2>1, <3>1
    <3> QED
      BY <3>1, <3>2
  <2>2. CASE <<d, i>> # j
    <3>1. ~signalled[<<d, i>>]
      BY <2>2, JobKinds
    <3>2. CASE d # c
      BY <3>1, <3>2 DEF BarrierFences
    <3>3. CASE d = c
      BY <3>1, <3>3 DEF BarrierFences
    <3> QED
      BY <3>2, <3>3
  <2> QED
    BY <2>1, <2>2
<1> QED
  BY <1>2, <1>3, <1>4, <1>5 DEF ClientsDistinct, ClientJobs

\* A client that fills a slot leaves util_queue_add_job: it returns, or goes
\* on with the loop of util_queue_finish.
LEMMA PutClients ==
  ASSUME TypeInv, NEW c \in Adding, NEW slots, NEW r, NEW wr, NEW m,
         Put(c, slots, r, wr, m)
  PROVE  /\ Active' = Active /\ FinWait' = FinWait
         /\ Begin' = Begin \ {c} /\ Adding' = Adding \ {c}
         /\ Holding' = Holding \ {c} /\ Busy' = Busy \ {c}
         /\ FinAdd' = IF cjob[c] \in Jobs THEN FinAdd ELSE FinAdd \cup {c}
<1>1. Active' = Active
  BY QueuedWoken DEF Put, TypeInv
<1>2. cpc' = [cpc EXCEPT ![c] = IF cjob[c] \in Jobs THEN "idle" ELSE "finadd"]
  BY DEF Put, ToClient
<1>3. c \in Clients /\ cpc[c] \in {"add", "space", "put"} /\ DOMAIN cpc = Clients
  BY DEF Adding, TypeInv, TypeOK
<1> QED
  BY <1>1, <1>2, <1>3 DEF Begin, Adding, Holding, Busy, FinAdd, FinWait

\* A producer that finds the queue full resets its fence and keeps the job.
LEMMA SpaceFences ==
  ASSUME TypeInv, FenceInv, NEW c \in Begin,
         signalled' = [signalled EXCEPT ![cjob[c]] = FALSE],
         ToClient(c, "space"),
         UNCHANGED <<jobs, max_jobs, workers, cjob, ci, num_threads>>
  PROVE  FenceInv'
<1> DEFINE j == cjob[c]
<1>1. /\ Begin' = Begin \ {c} /\ Holding' = Holding \cup {c}
      /\ UNCHANGED <<Adding, Busy, FinAdd, FinWait>>
  BY DEF ToClient, TypeInv, TypeOK, Begin, Adding, Holding, Busy, FinAdd, FinWait
<1>2. UNCHANGED <<Slots, jobs, Active, wjob, cjob, ci, num_threads>>
  BY DEF Slots, Active, workers
<1> USE ClientSets, JobTypes DEF FenceInv
<1>3. /\ j \in AllJobs /\ signalled[j] /\ \A d \in Busy : d # c => cjob[d] # j
      /\ c \in Clients /\ c \in Adding
  BY DEF ClientsDistinct, OwnedUnsignalled
<1>4. ~signalled'[j] /\ \A k \in AllJobs : k # j => (signalled'[k] <=> signalled[k])
  BY <1>3 DEF TypeInv, TypeOK
<1>5. /\ \A i \in Slots : jobs[i] # j
      /\ \A w \in Active : wjob[w] # j
  BY <1>3 DEF OwnedUnsignalled
<1> HIDE DEF j
<1>6. OneOwner'
  BY <1>1, <1>2, <1>5 DEF OneOwner, j
<1>7. OwnedUnsignalled'
  BY <1>1, <1>2, <1>3, <1>4, <1>5 DEF OwnedUnsignalled, j
<1>8. UnsignalledOwned'
  BY <1>1, <1>2, <1>3, <1>4 DEF UnsignalledOwned, j
<1>9. BarrierFences'
  <2> SUFFICES ASSUME NEW d \in Clients, NEW i \in 1..NumThreads, ~signalled'[<<d, i>>]
               PROVE  \/ d \in FinAdd /\ i <= ci[d]
                      \/ d \in Adding /\ cjob[d] \notin Jobs /\ i <= ci[d]
                      \/ d \in FinWait /\ i > ci[d]
    BY <1>1, <1>2 DEF BarrierFences
  <2>1. CASE <<d, i>> = j
    <3>1. j = <<c, ci[c]>> /\ j \notin Jobs
      BY <1>3, <2>1, JobKinds DEF ClientJobs, j
    <3>2. d = c /\ i = ci[c]
      BY <2>1, <3>1
    <3> QED
      BY <1>3, <3>1, <3>2 DEF j
  <2>2. CASE <<d, i>> # j
    <3>1. ~signalled[<<d, i>>]
      BY <1>4, <2>2, JobKinds
    <3> QED
      BY <3>1 DEF BarrierFences
  <2> QED
    BY <2>1, <2>2
<1> QED
  BY <1>1, <1>2, <1>6, <1>7, <1>8, <1>9 DEF ClientsDistinct, ClientJobs

\* util_queue_add_job: the fence was signalled, so nobody else has the job.
LEMMA AddFences ==
  ASSUME TypeInv, RingShape, FenceInv, NEW c \in Clients, AddJob(c)
  PROVE  FenceInv'
<1>1. c \in Begin /\ c \in Adding
  BY DEF AddJob, Begin, Adding
<1>2. /\ \A i \in Slots : jobs[i] # cjob[c]
      /\ \A w \in Active : wjob[w] # cjob[c]
      /\ cjob[c] \in AllJobs
  BY <1>1, JobTypes, ClientSets DEF FenceInv, OwnedUnsignalled
<1>3. /\ ~signalled'[cjob[c]]
      /\ \A k \in AllJobs : k # cjob[c] => (signalled'[k] <=> signalled[k])
      /\ UNCHANGED <<wjob, cjob, ci, num_threads>>
  BY <1>2 DEF AddJob, TypeInv, TypeOK
<1>4. CASE num_queued # max_jobs /\ Put(c, jobs, read_idx, write_idx, max_jobs)
  BY <1>1, <1>2, <1>3, <1>4, PutFills, PutClients, FillFences
<1>5. CASE num_queued = max_jobs /\ Put(c, Grown, 0, NumCopied, max_jobs + GrowBy)
  BY <1>1, <1>2, <1>3, <1>5, GrowFills, PutClients, FillFences
<1>6. CASE ToClient(c, "space") /\ UNCHANGED <<ring, wpc>>
  BY <1>1, <1>6, SpaceFences DEF AddJob, ring, workers
<1> QED
  BY <1>4, <1>5, <1>6 DEF AddJob

\* A producer back from cnd_wait fills a slot, or waits again.
LEMMA WokenFences ==
  ASSUME TypeInv, RingShape, FenceInv, NEW c \in Clients,
         AddWoken(c) \/ SpuriousSpace(c)
  PROVE  FenceInv'
<1>1. c \in Adding /\ c \in Holding
  BY DEF AddWoken, SpuriousSpace, Adding, Holding
<1>2. /\ \A i \in Slots : jobs[i] # cjob[c]
      /\ \A w \in Active : wjob[w] # cjob[c]
      /\ ~signalled[cjob[c]]
  BY <1>1 DEF FenceInv, OneOwner, OwnedUnsignalled
<1>3. UNCHANGED <<signalled, wjob, cjob, ci, num_threads>>
  BY DEF AddWoken, SpuriousSpace, workers
<1>4. CASE num_queued # max_jobs /\ Put(c, jobs, read_idx, write_idx, max_jobs)
  BY <1>1, <1>2, <1>3, <1>4, PutFills, PutClients, FillFences
<1>5. CASE (ToClient(c, "space") \/ ToClient(c, "put")) /\ UNCHANGED <<ring, wpc>>
  <2>1. UNCHANGED <<Begin, Adding, Holding, Busy, FinAdd, FinWait>>
    <3>1. cpc[c] \in {"space", "put"}
      BY DEF AddWoken, SpuriousSpace
    <3> QED
      BY <1>5, <3>1 DEF ToClient, TypeInv, TypeOK, Begin, Adding, Holding, Busy,
                        FinAdd, FinWait
  <2>2. Active' = Active
    BY <1>5 DEF Active
  <2> QED
    BY <1>3, <1>5, <2>1, <2>2, Frame DEF ring
<1> QED
  BY <1>4, <1>5 DEF AddWoken, SpuriousSpace, workers

-----------------------------------------------------------------------------
(* util_queue_drop_job *)

\* Removing a job moves it from its slot to the client; a client that does not
\* find the job leaves everything where it is.
LEMMA DropFences ==
  ASSUME TypeInv, FenceInv, NEW c \in Clients, DropJob(c)
  PROVE  FenceInv'
<1> DEFINE j == cjob[c]
<1>1. UNCHANGED <<max_jobs, Slots, signalled, wjob, Active, cjob, ci, num_threads>>
  BY DEF DropJob, workers, Slots, Active
<1>2. c \in Busy /\ c \notin Adding /\ c \notin Holding
  BY DEF DropJob, Busy, Adding, Holding
<1>3. CASE ToClient(c, "dropwait") /\ UNCHANGED jobs
  <2>1. UNCHANGED <<Begin, Adding, Holding, Busy, FinAdd, FinWait>>
    BY <1>3 DEF DropJob, ToClient, TypeInv, TypeOK, Begin, Adding, Holding, Busy,
                FinAdd, FinWait
  <2> QED
    BY <1>1, <1>3, <2>1, Frame
<1>4. ASSUME NEW i \in Visited, jobs[i] = j, jobs' = [jobs EXCEPT ![i] = NoJob],
             ToClient(c, "dropsig")
      PROVE  FenceInv'
  <2>1. /\ Holding' = Holding \cup {c}
        /\ UNCHANGED <<Begin, Adding, Busy, FinAdd, FinWait>>
    BY <1>4 DEF DropJob, ToClient, TypeInv, TypeOK, Begin, Adding, Holding, Busy,
                FinAdd, FinWait
  <2> USE ClientSets, JobTypes DEF FenceInv
  <2>2. /\ i \in Slots /\ j \in AllJobs /\ j # NoJob
        /\ \A k \in Slots : jobs'[k] = IF k = i THEN NoJob ELSE jobs[k]
    BY <1>2, <1>4 DEF Visited, Slots, TypeInv, TypeOK
  <2>3. \A d \in Busy : d # c => cjob[d] # j
    BY <1>2 DEF ClientsDistinct
  <2> HIDE DEF j
  <2>4. OneOwner'
    <3> USE <1>1, <2>1, <2>2 DEF OneOwner
    <3>1. \A h, k \in Slots' : jobs'[h] # NoJob /\ jobs'[h] = jobs'[k] => h = k
      OBVIOUS
    <3>2. \A v, x \in Active' : wjob'[v] = wjob'[x] => v = x
      OBVIOUS
    <3>3. \A k \in Slots', v \in Active' : jobs'[k] # wjob'[v]
      OBVIOUS
    <3>4. \A k \in Slots', d \in Holding' : jobs'[k] # cjob'[d]
      <4> TAKE k \in Slots', d \in Holding'
      <4>1. CASE d = c
        <5>1. cjob'[d] = j
          BY <4>1 DEF j
        <5>2. CASE k = i
          BY <5>1, <5>2
        <5>3. CASE k # i
          BY <1>4, <5>1, <5>3
        <5> QED
          BY <5>2, <5>3
      <4>2. CASE d # c
        BY <4>2
      <4> QED
        BY <4>1, <4>2
    <3>5. \A v \in Active', d \in Holding' : wjob'[v] # cjob'[d]
      BY <1>4 DEF j
    <3> QED
      BY <3>1, <3>2, <3>3, <3>4, <3>5
  <2>5. OwnedUnsignalled'
    BY <1>1, <1>4, <2>1, <2>2 DEF OwnedUnsignalled, j
  <2>6. UnsignalledOwned'
    <3> SUFFICES ASSUME NEW k \in AllJobs, ~signalled[k]
                 PROVE  \/ \E h \in Slots : jobs'[h] = k
                        \/ \E v \in Active : wjob[v] = k
                        \/ \E d \in Holding' : cjob[d] = k
      BY <1>1 DEF UnsignalledOwned
    <3>1. CASE k = j
      BY <2>1, <3>1 DEF j
    <3>2. CASE k # j
      BY <1>4, <2>1, <2>2, <3>2 DEF UnsignalledOwned
    <3> QED
      BY <3>1, <3>2
  <2> QED
    BY <1>1, <2>1, <2>4, <2>5, <2>6 DEF ClientsDistinct, ClientJobs, BarrierFences
<1> QED
  BY <1>3, <1>4 DEF DropJob

\* The client that signals the fence of a job it has removed was the only one
\* to have the job.
LEMMA DropSignalFences ==
  ASSUME TypeInv, FenceInv, NEW c \in Clients, DropSignal(c)
  PROVE  FenceInv'
<1> DEFINE j == cjob[c]
<1>1. UNCHANGED <<jobs, max_jobs, Slots, wjob, Active, cjob, ci, num_threads>>
  BY DEF DropSignal, ring, workers, Slots, Active
<1>2. /\ c \in Holding /\ c \notin Adding
      /\ Holding' = Holding \ {c} /\ Busy' = Busy \ {c}
      /\ UNCHANGED <<Begin, Adding, FinAdd, FinWait>>
  BY DEF DropSignal, ToClient, TypeInv, TypeOK, Begin, Adding, Holding, Busy,
         FinAdd, FinWait
<1> USE ClientSets, JobTypes DEF FenceInv
<1>3. /\ j \in AllJobs
      /\ signalled'[j]
      /\ \A k \in AllJobs : k # j => (signalled'[k] <=> signalled[k])
  BY <1>2 DEF DropSignal, TypeInv, TypeOK
<1>4. \A d \in Busy : d # c => cjob[d] # j
  BY <1>2 DEF ClientsDistinct
<1>5. /\ \A i \in Slots : jobs[i] # j
      /\ \A w \in Active : wjob[w] # j
  BY <1>2 DEF OneOwner
<1> HIDE DEF j
<1>6. OneOwner'
  BY <1>1, <1>2 DEF OneOwner
<1>7. OwnedUnsignalled'
  BY <1>1, <1>2, <1>3, <1>4, <1>5 DEF OwnedUnsignalled
<1>8. UnsignalledOwned'
  BY <1>1, <1>2, <1>3 DEF UnsignalledOwned, j
<1>9. BarrierFences'
  BY <1>1, <1>2, <1>3, JobKinds DEF BarrierFences
<1> QED
  BY <1>1, <1>2, <1>6, <1>7, <1>8, <1>9 DEF ClientsDistinct, ClientJobs

\* Returning from the wait for a fence moves no job.
LEMMA DropWaitedFences ==
  ASSUME TypeInv, FenceInv, NEW c \in Clients, DropWaited(c)
  PROVE  FenceInv'
<1>1. UNCHANGED <<jobs, max_jobs, Slots, signalled, wjob, Active, cjob, ci, num_threads>>
  BY DEF DropWaited, ring, workers, Slots, Active
<1>2. /\ Busy' = Busy \ {c}
      /\ UNCHANGED <<Begin, Adding, Holding, FinAdd, FinWait>>
  BY DEF DropWaited, ToClient, TypeInv, TypeOK, Begin, Adding, Holding, Busy,
         FinAdd, FinWait
<1> QED
  BY <1>1, <1>2 DEF FenceInv, ClientsDistinct, OneOwner, OwnedUnsignalled,
     UnsignalledOwned, ClientJobs, BarrierFences

-----------------------------------------------------------------------------
(* util_queue_finish *)

\* The steps of util_queue_finish around util_queue_add_job move no job; they
\* keep track of which barrier jobs are done.
LEMMA FinishFences ==
  ASSUME TypeInv, FenceInv, NEW c \in Clients,
         \/ FinishLock(c) \/ FinishWait(c) \/ FinishReturn(c)
         \/ FinishAdd(c) /\ ~(ci[c] < num_threads)
  PROVE  FenceInv'
<1>1. UNCHANGED <<jobs, max_jobs, Slots, signalled, wjob, Active, cjob, num_threads>>
  BY DEF FinishLock, FinishWait, FinishReturn, FinishAdd, ring, workers, Slots, Active
<1>2. UNCHANGED <<Begin, Adding, Holding, Busy>> /\ c \notin Busy
  BY DEF FinishLock, FinishWait, FinishReturn, FinishAdd, ToClient, TypeInv, TypeOK,
         Begin, Adding, Holding, Busy
<1>3. ci' = [ci EXCEPT ![c] = ci'[c]] /\ \A d \in Clients : d # c => ci'[d] = ci[d]
  BY DEF FinishLock, FinishWait, FinishReturn, FinishAdd, TypeInv, TypeOK
<1> USE ClientSets DEF FenceInv
<1>4. ASSUME NEW d \in Clients, NEW i \in 1..NumThreads, ~signalled[<<d, i>>]
      PROVE  \/ d \in FinAdd' /\ i <= ci'[d]
             \/ d \in Adding /\ cjob[d] \notin Jobs /\ i <= ci'[d]
             \/ d \in FinWait' /\ i > ci'[d]
  <2>0. \/ d \in FinAdd /\ i <= ci[d]
        \/ d \in Adding /\ cjob[d] \notin Jobs /\ i <= ci[d]
        \/ d \in FinWait /\ i > ci[d]
    BY <1>4 DEF BarrierFences
  <2>1. CASE d # c
    <3>1. (d \in FinAdd' <=> d \in FinAdd) /\ (d \in FinWait' <=> d \in FinWait)
      BY <2>1 DEF FinishLock, FinishWait, FinishReturn, FinishAdd, ToClient,
                  TypeInv, TypeOK, FinAdd, FinWait
    <3> QED
      BY <1>3, <2>0, <2>1, <3>1
  <2>2. CASE d = c /\ FinishLock(c)
    BY <2>0, <2>2, <1>2 DEF FinishLock, FinAdd, FinWait
  <2>3. CASE d = c /\ FinishWait(c)
    <3>1. c \in FinWait /\ c \in FinWait' /\ ci'[c] = ci[c] + 1 /\ c \notin FinAdd
      BY <2>3 DEF FinishWait, FinWait, FinAdd, TypeInv, TypeOK
    <3>2. i > ci[c] /\ ci[c] \in 0..NumThreads
      BY <1>2, <2>0, <2>3, <3>1, JobTypes
    <3>3. i # ci[c] + 1
      BY <1>4, <2>3 DEF FinishWait
    <3> QED
      BY <2>3, <3>1, <3>2, <3>3
  <2>4. CASE d = c /\ FinishReturn(c)
    <3>1. c \in FinWait /\ c \notin FinAdd /\ ci[c] >= NumThreads
      BY <2>4 DEF FinishReturn, FinWait, FinAdd
    <3>2. i > ci[c] /\ ci[c] \in 0..NumThreads
      BY <1>2, <2>0, <2>4, <3>1, JobTypes
    <3> QED
      BY <3>1, <3>2, NumThreadsType
  <2>5. CASE d = c /\ FinishAdd(c) /\ ~(ci[c] < num_threads)
    <3>1. c \in FinWait' /\ ci'[c] = 0
      BY <2>5 DEF FinishAdd, ToClient, FinWait, TypeInv, TypeOK
    <3> QED
      BY <2>5, <3>1, NumThreadsType
  <2> QED
    BY <2>1, <2>2, <2>3, <2>4, <2>5
<1>5. BarrierFences'
  BY <1>1, <1>2, <1>4 DEF BarrierFences
<1>6. ClientJobs'
  BY <1>1, <1>2, <1>3 DEF ClientJobs
<1> QED
  BY <1>1, <1>2, <1>5, <1>6 DEF ClientsDistinct, OneOwner, OwnedUnsignalled,
     UnsignalledOwned

-----------------------------------------------------------------------------
(* Beginning a call *)

\* A client begins to use a job nobody else uses, whose fence is signalled if
\* the job is to be added. For a barrier job this is the next one of the loop.
LEMMA BeginFences ==
  ASSUME TypeInv, FenceInv, NEW c \in Clients \ Busy, NEW j \in AllJobs,
         NEW l \in {"add", "drop"}, ToClient(c, l),
         \A d \in Busy : cjob[d] # j,
         l = "add" => signalled[j],
         \/ j \in Jobs /\ ci' = ci /\ c \notin FinAdd \cup FinWait
         \/ /\ j = <<c, ci[c] + 1>> /\ j \notin Jobs /\ l = "add" /\ c \in FinAdd
            /\ ci' = [ci EXCEPT ![c] = ci[c] + 1],
         cjob' = [cjob EXCEPT ![c] = j],
         \A k \in AllJobs : signalled'[k] <=> signalled[k],
         UNCHANGED <<jobs, max_jobs, workers, num_threads>>
  PROVE  FenceInv'
<1>1. UNCHANGED <<Slots, wjob, Active>>
  BY DEF workers, Slots, Active
<1>2. /\ c \notin Busy /\ c \notin Adding /\ c \notin Begin /\ c \notin Holding
      /\ Holding' = Holding /\ Busy' = Busy \cup {c}
      /\ Begin' = IF l = "add" THEN Begin \cup {c} ELSE Begin
      /\ Adding' = IF l = "add" THEN Adding \cup {c} ELSE Adding
      /\ FinAdd' = FinAdd \ {c} /\ FinWait' = FinWait \ {c}
  BY DEF ToClient, TypeInv, TypeOK, Begin, Adding, Holding, Busy, FinAdd, FinWait
<1>3. cjob'[c] = j /\ \A d \in Clients : d # c => cjob'[d] = cjob[d] /\ ci'[d] = ci[d]
  BY DEF TypeInv, TypeOK
<1> USE ClientSets, JobTypes DEF FenceInv
<1>4. ClientsDistinct'
  BY <1>2, <1>3 DEF ClientsDistinct
<1>5. OneOwner'
  BY <1>1, <1>2, <1>3 DEF OneOwner
<1>6. OwnedUnsignalled'
  BY <1>1, <1>2, <1>3 DEF OwnedUnsignalled
<1>7. UnsignalledOwned'
  BY <1>1, <1>2, <1>3 DEF UnsignalledOwned
<1>8. ClientJobs'
  <2>1. CASE j \in Jobs
    BY <1>2, <1>3, <2>1 DEF ClientJobs
  <2>2. CASE j \notin Jobs
    <3>1. l = "add" /\ j = <<c, ci'[c]>>
      BY <2>2 DEF TypeInv, TypeOK
    <3> QED
      BY <1>2, <1>3, <3>1 DEF ClientJobs
  <2> QED
    BY <2>1, <2>2
<1>9. BarrierFences'
  <2> SUFFICES ASSUME NEW d \in Clients, NEW i \in 1..NumThreads, ~signalled[<<d, i>>]
               PROVE  \/ d \in FinAdd' /\ i <= ci'[d]
                      \/ d \in Adding' /\ cjob'[d] \notin Jobs /\ i <= ci'[d]
                      \/ d \in FinWait' /\ i > ci'[d]
    BY JobKinds DEF BarrierFences
  <2>0. \/ d \in FinAdd /\ i <= ci[d]
        \/ d \in Adding /\ cjob[d] \notin Jobs /\ i <= ci[d]
        \/ d \in FinWait /\ i > ci[d]
    BY DEF BarrierFences
  <2>1. CASE d # c
    BY <1>2, <1>3, <2>0, <2>1
  <2>2. CASE d = c
    <3>1. c \in FinAdd /\ i <= ci[c]
      BY <1>2, <2>0, <2>2
    <3>2. j \notin Jobs /\ l = "add" /\ ci'[c] = ci[c] + 1
      BY <3>1 DEF TypeInv, TypeOK
    <3> QED
      BY <1>2, <1>3, <2>2, <3>1, <3>2
  <2> QED
    BY <2>1, <2>2
<1> QED
  BY <1>4, <1>5, <1>6, <1>7, <1>8, <1>9

\* util_queue_finish goes round its first loop: the fence it initialises is
\* signalled already, since no earlier call has left a barrier job behind.
LEMMA FinishAddFences ==
  ASSUME TypeInv, FenceInv, NEW c \in Clients, FinishAdd(c), ci[c] < num_threads
  PROVE  FenceInv'
<1> DEFINE j == <<c, ci[c] + 1>>
<1>1. ci[c] + 1 \in 1..NumThreads
  BY JobTypes, NumThreadsType DEF FenceInv
<1>2. j \in AllJobs /\ j \notin Jobs
  BY <1>1, JobKinds
<1>3. c \in FinAdd /\ c \notin Busy /\ c \notin Adding /\ c \notin FinWait
  BY ClientSets DEF FinishAdd, FinAdd
<1>4. signalled[j]
  BY <1>1, <1>3, JobTypes DEF FenceInv, BarrierFences
<1>5. \A d \in Busy : cjob[d] # j
  <2> SUFFICES ASSUME NEW d \in Busy, cjob[d] = j PROVE FALSE
    OBVIOUS
  <2>1. d \in Adding /\ cjob[d] = <<d, ci[d]>>
    BY <1>2 DEF FenceInv, ClientJobs
  <2> QED
    BY <1>3, <2>1
<1>6. /\ ToClient(c, "add")
      /\ cjob' = [cjob EXCEPT ![c] = j]
      /\ ci' = [ci EXCEPT ![c] = ci[c] + 1]
      /\ signalled' = [signalled EXCEPT ![j] = TRUE]
      /\ UNCHANGED <<jobs, max_jobs, workers, num_threads>>
  BY DEF FinishAdd, ring
<1>7. \A k \in AllJobs : signalled'[k] <=> signalled[k]
  BY <1>2, <1>4, <1>6 DEF TypeInv, TypeOK
<1>8. j = <<c, ci[c] + 1>>
  OBVIOUS
<1> HIDE DEF j
<1> QED
  BY <1>2, <1>3, <1>4, <1>5, <1>6, <1>7, <1>8, BeginFences

\* The calls clients begin.
LEMMA CallFences ==
  ASSUME TypeInv, FenceInv, NotKilled, NEW c \in Clients, Call(c), "kill" \notin Calls
  PROVE  FenceInv'
<1>1. cpc[c] = "idle"
  BY DEF Call, CallAdd, CallDrop, CallFinish, CallKill
<1>2. c \in Clients \ Busy /\ c \notin FinAdd \cup FinWait
  BY <1>1 DEF Busy, FinAdd, FinWait
<1>3. \A j \in AllJobs : ~AtClient(j) => \A d \in Busy : cjob[d] # j
  BY DEF AtClient, Busy
<1>4. ASSUME NEW j \in Jobs, CallAdd(c, j) PROVE FenceInv'
  <2>1. /\ ToClient(c, "add") /\ cjob' = [cjob EXCEPT ![c] = j] /\ ci' = ci
        /\ signalled[j] /\ ~AtClient(j) /\ signalled' = signalled
        /\ UNCHANGED <<jobs, max_jobs, workers, num_threads>>
    BY <1>4 DEF CallAdd, ring
  <2> QED
    BY <1>2, <1>3, <2>1, JobKinds, BeginFences
<1>5. ASSUME NEW j \in Jobs, CallDrop(c, j) PROVE FenceInv'
  <2>1. /\ ToClient(c, "drop") /\ cjob' = [cjob EXCEPT ![c] = j] /\ ci' = ci
        /\ ~AtClient(j) /\ signalled' = signalled
        /\ UNCHANGED <<jobs, max_jobs, workers, num_threads>>
    BY <1>5 DEF CallDrop, ring
  <2> QED
    BY <1>2, <1>3, <2>1, JobKinds, BeginFences
<1>6. ASSUME CallFinish(c) PROVE FenceInv'
  <2>1. UNCHANGED <<jobs, max_jobs, signalled, cjob, ci, num_threads, wjob, Active>>
    BY <1>6 DEF CallFinish, ring, workers, Active
  <2>2. UNCHANGED <<Begin, Adding, Holding, Busy, FinAdd, FinWait>>
    BY <1>6 DEF CallFinish, ToClient, TypeInv, TypeOK, Begin, Adding, Holding, Busy,
                FinAdd, FinWait
  <2> QED
    BY <2>1, <2>2, Frame
<1> QED
  BY <1>4, <1>5, <1>6 DEF Call, CallKill

-----------------------------------------------------------------------------
\* Every step of a queue that nobody shuts down keeps the invariant.
LEMMA FenceInvInductive ==
  ASSUME "kill" \notin Calls, TypeInv, RingShape, NotKilled, FenceInv, [Next]_vars
  PROVE  FenceInv'
<1>1. ASSUME NEW w \in Workers, WorkerStep(w) \/ SpuriousFetch(w) PROVE FenceInv'
  <2>1. ~FetchKilled(w) /\ ~SignalRemaining(w)
    BY DEF NotKilled, FetchKilled, SignalRemaining
  <2> QED
    BY <1>1, <2>1, WorkerFrame, FetchFences, SignalFences DEF WorkerStep, TypeInv
<1>2. ASSUME NEW c \in Clients, ClientStep(c) \/ SpuriousSpace(c) PROVE FenceInv'
  <2>1. ~AddToKilled(c) /\ ~KillAll(c) /\ ~JoinAll(c)
    BY DEF NotKilled, AddToKilled, KillAll, JoinAll
  <2> QED
    BY <1>2, <2>1, AddFences, WokenFences, DropFences, DropSignalFences,
       DropWaitedFences, FinishFences, FinishAddFences DEF ClientStep
<1>3. ASSUME NEW c \in Clients, Call(c) PROVE FenceInv'
  BY <1>3, CallFences
<1>4. CASE UNCHANGED vars
  BY <1>4, Frame DEF vars, ring, workers, clients, Active, Begin, Adding, Holding,
     Busy, FinAdd, FinWait
<1> QED
  BY <1>1, <1>2, <1>3, <1>4 DEF Next

\* The invariant holds from the start.
LEMMA FenceInvHolds ==
  ASSUME "kill" \notin Calls
  PROVE  Spec => [](TypeInv /\ NotKilled /\ RingShape /\ FenceInv)
<1> DEFINE Inv == NotKilled /\ RingShape /\ FenceInv
<1>1. Init => Inv
  <2> SUFFICES ASSUME Init PROVE Inv
    OBVIOUS
  <2>1. NotKilled /\ RingShape
    BY UtilQueueAssumption
    DEF Init, RingShape, IndexCount, FreeSlotsZeroed, Occupied, Visited, NotKilled
  <2>2. /\ Active = {} /\ Busy = {} /\ Begin = {} /\ Adding = {} /\ Holding = {}
    BY DEF Init, Active, Busy, Begin, Adding, Holding
  <2>3. /\ \A i \in Slots : jobs[i] = NoJob
        /\ \A j \in AllJobs : signalled[j]
        /\ num_threads = NumThreads
    BY DEF Init, Slots
  <2> QED
    BY <2>1, <2>2, <2>3, JobKinds DEF FenceInv, ClientsDistinct, OneOwner,
       OwnedUnsignalled, UnsignalledOwned, ClientJobs, BarrierFences
<1>2. TypeInv /\ Inv /\ [Next]_vars => Inv'
  <2> SUFFICES ASSUME TypeInv, Inv, [Next]_vars PROVE Inv'
    OBVIOUS
  <2>1. NotKilled'
    BY NotKilledInductive
  <2>2. ~ \E w \in Workers : SignalRemaining(w)
    BY DEF NotKilled, SignalRemaining
  <2>3. RingShape'
    BY <2>2, RingInductive DEF RingShape
  <2> QED
    BY <2>1, <2>3, FenceInvInductive
<1> QED
  BY <1>1, <1>2, TypeInvHolds, PTL DEF Spec

\* The parties of Holders, with the slots the ring does not use left in.
LEMMA HoldersAre ==
  ASSUME TypeInv, RingShape, NEW j \in AllJobs
  PROVE  Holders(j) = {i \in Slots : jobs[i] = j} \cup {w \in Active : wjob[w] = j}
                        \cup {c \in Holding : cjob[c] = j}
<1>1. {i \in Slots : jobs[i] = j} = {i \in Occupied : jobs[i] = j}
  BY UtilQueueAssumption DEF Slots, Occupied, Visited, RingShape, FreeSlotsZeroed
<1> QED
  BY <1>1 DEF Holders, Active, Holding

\* While the queue lives, a job is in at most one place: two slots, a slot and
\* a worker or a worker and a client never have the same job, so that
\* util_queue_fence_signal is called once for every reset; and a fence that is
\* signalled belongs to a job that is neither queued nor running, however the
\* steps of util_queue_add_job, _drop_job, _finish and the workers interleave.
THEOREM SignalledMeansDone ==
  ASSUME "kill" \notin Calls
  PROVE  Spec => []FenceMeansDone
<1>1. TypeInv /\ RingShape /\ FenceInv => FenceMeansDone
  <2> SUFFICES ASSUME TypeInv, RingShape, FenceInv, NEW j \in AllJobs
               PROVE  /\ \A h, k \in Holders(j) : h = k
                      /\ signalled[j] => Holders(j) = {}
    BY DEF FenceMeansDone
  <2> DEFINE S == {i \in Slots : jobs[i] = j}
             W == {w \in Active : wjob[w] = j}
             C == {c \in Holding : cjob[c] = j}
  <2>1. Holders(j) = S \cup W \cup C
    BY HoldersAre
  <2>2. j # NoJob
    BY UtilQueueAssumption
  <2>3. /\ \A h, k \in S : h = k
        /\ \A h, k \in W : h = k
        /\ \A h \in S, k \in W : FALSE
        /\ \A h \in S, k \in C : FALSE
        /\ \A h \in W, k \in C : FALSE
    BY <2>2 DEF FenceInv, OneOwner
  <2>4. \A h, k \in C : h = k
    BY ClientSets DEF FenceInv, ClientsDistinct
  <2>5. signalled[j] => S = {} /\ W = {} /\ C = {}
    BY <2>2 DEF FenceInv, OwnedUnsignalled
  <2> HIDE DEF S, W, C
  <2> QED
    BY <2>1, <2>3, <2>4, <2>5
<1> QED
  BY <1>1, FenceInvHolds, PTL

\* While the queue lives, no fence is lost: an unsignalled one has a party that
\* is going to signal it.
THEOREM UnsignalledIsHeld ==
  ASSUME "kill" \notin Calls
  PROVE  Spec => []NoFenceLost
<1>1. TypeInv /\ RingShape /\ FenceInv => NoFenceLost
  <2> SUFFICES ASSUME TypeInv, RingShape, FenceInv, NEW j \in AllJobs, ~signalled[j]
               PROVE  Holders(j) # {}
    BY DEF NoFenceLost
  <2> QED
    BY HoldersAre DEF FenceInv, UnsignalledOwned
<1> QED
  BY <1>1, FenceInvHolds, PTL

-----------------------------------------------------------------------------
(* The ring as a first-in first-out queue *)

\* The slot of entry k of a ring of m slots read from r on.
Slot(r, k, m) == IF r + k - 1 < m THEN r + k - 1 ELSE r + k - 1 - m

Fifo(a, r, n, m) == [k \in 1..n |-> a[(r + k - 1) % m]]

\* f is the sequence of the n entries from r on in the array a of m slots.
IsFifo(f, a, r, n, m, S) ==
  /\ f \in Seq(S) /\ Len(f) = n
  /\ \A k \in 1..n : Slot(r, k, m) \in 0..m-1 /\ f[k] = a[Slot(r, k, m)]

\* The array b is a with x in slot i.
Updated(a, b, i, x, m) == \A k \in 0..m-1 : b[k] = IF k = i THEN x ELSE a[k]

\* The ring in b is the one in a without its first entry; with x behind its
\* last one; with x in place of the entry y.
Shorter(b, s, p, a, r, n, m) ==
  /\ Fifo(a, r, n, m) # <<>> /\ Head(Fifo(a, r, n, m)) = a[r]
  /\ Fifo(b, s, p, m) = Tail(Fifo(a, r, n, m))
Longer(b, s, q, p, a, r, m, n, x) ==
  Fifo(b, s, p, q) = Append(Fifo(a, r, n, m), x)
Replaced(b, a, r, n, m, x, y) ==
  \E k \in 1..n : /\ Fifo(a, r, n, m)[k] = y
                  /\ Fifo(b, r, n, m) = [Fifo(a, r, n, m) EXCEPT ![k] = x]

\* The array b starts with the entries of a from r on, and then x.
Rotated(b, a, r, m, x) ==
  b[m] = x /\ \A i \in 0..m-1 : b[i] = a[(r + i) % m]

\* Reading the ring from r on gives a sequence of its entries.
LEMMA FifoFacts ==
  ASSUME NEW m \in Nat \ {0}, NEW n \in 0..m, NEW r \in 0..m-1, NEW S,
         NEW a \in [0..m-1 -> S]
  PROVE  IsFifo(Fifo(a, r, n, m), a, r, n, m, S)
<1>1. ASSUME NEW k \in 1..n
      PROVE  (r + k - 1) % m = Slot(r, k, m) /\ Slot(r, k, m) \in 0..m-1
  <2>1. PICK i \in 0..m-1 : i = k - 1
    OBVIOUS
  <2>2. (r + i) % m = IF r + i < m THEN r + i ELSE r + i - m
    BY Rotate
  <2>3. r + i = r + k - 1
    BY <2>1
  <2> QED
    BY <2>1, <2>2, <2>3 DEF Slot
<1>2. \A k \in 1..n : Fifo(a, r, n, m)[k] = a[Slot(r, k, m)]
  BY <1>1 DEF Fifo
<1>3. Fifo(a, r, n, m) \in [1..n -> S]
  BY <1>1 DEF Fifo
<1>4. n \in Nat
  OBVIOUS
<1>5. Fifo(a, r, n, m) \in Seq(S) /\ Len(Fifo(a, r, n, m)) = n
  BY <1>3, <1>4
<1> QED
  BY <1>1, <1>2, <1>5 DEF IsFifo

\* Sequences are equal when their elements are.
LEMMA SameSeq ==
  ASSUME NEW S, NEW s \in Seq(S), NEW t \in Seq(S), Len(s) = Len(t),
         \A k \in 1..Len(s) : s[k] = t[k]
  PROVE  s = t
  OBVIOUS

\* Taking the job at read_idx.
LEMMA FifoTake ==
  ASSUME NEW m \in Nat \ {0}, NEW n \in 1..m, NEW r \in 0..m-1, NEW S,
         NEW a \in [0..m-1 -> S], NEW x \in S, NEW b \in [0..m-1 -> S],
         Updated(a, b, r, x, m)
  PROVE  Shorter(b, (r + 1) % m, n - 1, a, r, n, m)
<1>1. PICK s \in 0..m-1 : s = (r + 1) % m /\ s = IF r + 1 = m THEN 0 ELSE r + 1
  BY NextSlot
<1>2. PICK f : f = Fifo(a, r, n, m)
  OBVIOUS
<1>3. IsFifo(f, a, r, n, m, S)
  <2>1. n \in 0..m
    OBVIOUS
  <2> QED
    BY <1>2, <2>1, FifoFacts
<1>4. Slot(r, 1, m) = r /\ f[1] = a[r] /\ f # <<>>
  BY <1>3 DEF Slot, IsFifo
<1>5. PICK p \in 0..m : p = n - 1
  OBVIOUS
<1>7. PICK g : g = Fifo(b, s, p, m)
  OBVIOUS
<1>8. IsFifo(g, b, s, p, m, S)
  BY <1>7, FifoFacts
<1>9. Tail(f) \in Seq(S) /\ Len(Tail(f)) = p /\ \A k \in 1..p : Tail(f)[k] = f[k + 1]
  BY <1>3, <1>4, <1>5 DEF IsFifo
<1>10. ASSUME NEW k \in 1..p PROVE g[k] = Tail(f)[k]
  <2>1. Slot(s, k, m) = Slot(r, k + 1, m) /\ Slot(s, k, m) # r
    BY <1>1, <1>5 DEF Slot
  <2>2. k + 1 \in 1..n
    BY <1>5
  <2> QED
    BY <1>3, <1>8, <1>9, <2>1, <2>2 DEF IsFifo, Updated
<1>11. g = Tail(f)
  BY <1>8, <1>9, <1>10, SameSeq DEF IsFifo
<1> QED
  BY <1>1, <1>2, <1>3, <1>4, <1>5, <1>7, <1>11 DEF IsFifo, Shorter

\* Filling the slot at write_idx.
LEMMA FifoPut ==
  ASSUME NEW m \in Nat \ {0}, NEW n \in 0..m-1, NEW r \in 0..m-1, NEW w \in 0..m-1,
         w = Slot(r, n + 1, m), NEW S, NEW a \in [0..m-1 -> S], NEW x \in S,
         NEW b \in [0..m-1 -> S], Updated(a, b, w, x, m)
  PROVE  Longer(b, r, m, n + 1, a, r, m, n, x)
<1>1. PICK f : f = Fifo(a, r, n, m)
  OBVIOUS
<1>2. IsFifo(f, a, r, n, m, S)
  <2>1. n \in 0..m
    OBVIOUS
  <2> QED
    BY <1>1, <2>1, FifoFacts
<1>3. PICK p \in 0..m : p = n + 1
  OBVIOUS
<1>5. PICK g : g = Fifo(b, r, p, m)
  OBVIOUS
<1>6. IsFifo(g, b, r, p, m, S)
  BY <1>5, FifoFacts
<1>7. /\ Append(f, x) \in Seq(S) /\ Len(Append(f, x)) = p /\ Append(f, x)[p] = x
      /\ \A k \in 1..n : Append(f, x)[k] = f[k]
  BY <1>2, <1>3 DEF IsFifo
<1>8. ASSUME NEW k \in 1..p PROVE g[k] = Append(f, x)[k]
  <2>1. CASE k = p
    BY <1>3, <1>6, <1>7, <2>1 DEF IsFifo, Updated
  <2>2. CASE k # p
    <3>1. k \in 1..n
      BY <1>3, <2>2
    <3>2. Slot(r, k, m) # w
      BY <3>1 DEF Slot
    <3> QED
      BY <1>2, <1>6, <1>7, <3>1, <3>2 DEF IsFifo, Updated
  <2> QED
    BY <2>1, <2>2
<1>9. g = Append(f, x)
  BY <1>6, <1>7, <1>8, SameSeq DEF IsFifo
<1> QED
  BY <1>1, <1>3, <1>5, <1>9 DEF Longer

\* Copying a full ring into a larger one, from its first entry on.
LEMMA FifoGrow ==
  ASSUME NEW m \in Nat \ {0}, NEW q \in Nat, q > m, NEW r \in 0..m-1, NEW S,
         NEW a \in [0..m-1 -> S], NEW x \in S, NEW b \in [0..q-1 -> S],
         Rotated(b, a, r, m, x)
  PROVE  Longer(b, 0, q, m + 1, a, r, m, m, x)
<1>1. PICK f \in Seq(S) : f = Fifo(a, r, m, m) /\ Len(f) = m
  <2>1. m \in 0..m
    OBVIOUS
  <2>2. IsFifo(Fifo(a, r, m, m), a, r, m, m, S)
    BY <2>1, FifoFacts
  <2> QED
    BY <2>2 DEF IsFifo
<1>2. \A k \in 1..m : f[k] = a[(r + k - 1) % m]
  BY <1>1 DEF Fifo
<1>3. PICK p \in 0..q : p = m + 1
  OBVIOUS
<1>4. q \in Nat \ {0} /\ 0 \in 0..q-1
  OBVIOUS
<1>5. PICK g : g = Fifo(b, 0, p, q)
  OBVIOUS
<1>6. IsFifo(g, b, 0, p, q, S)
  BY <1>4, <1>5, FifoFacts
<1>7. /\ Append(f, x) \in Seq(S) /\ Len(Append(f, x)) = p /\ Append(f, x)[p] = x
      /\ \A k \in 1..m : Append(f, x)[k] = f[k]
  BY <1>1, <1>3
<1>8. ASSUME NEW k \in 1..p PROVE g[k] = Append(f, x)[k]
  <2>1. Slot(0, k, q) = k - 1
    BY <1>3 DEF Slot
  <2>2. CASE k = p
    BY <1>3, <1>6, <1>7, <2>1, <2>2 DEF IsFifo, Rotated
  <2>3. CASE k # p
    <3>1. k \in 1..m /\ k - 1 \in 0..m-1
      BY <1>3, <2>3
    <3>2. PICK i \in 0..m-1 : i = k - 1
      BY <3>1
    <3>3. g[k] = a[(r + i) % m] /\ r + i = r + k - 1
      BY <1>6, <2>1, <3>2 DEF IsFifo, Rotated
    <3> QED
      BY <1>2, <1>7, <3>1, <3>3
  <2> QED
    BY <2>2, <2>3
<1>9. g = Append(f, x)
  BY <1>6, <1>7, <1>8, SameSeq DEF IsFifo
<1> QED
  BY <1>1, <1>3, <1>5, <1>9 DEF Longer

\* Every slot in use holds an entry of the ring.
LEMMA SlotOf ==
  ASSUME NEW m \in Nat \ {0}, NEW n \in 0..m, NEW r \in 0..m-1, NEW w \in 0..m-1,
         Counts(n, r, w, m), NEW i \in 0..m-1, InUse(i, n, r, w, m)
  PROVE  \E k \in 1..n : Slot(r, k, m) = i
<1>1. CASE r <= i
  <2>1. i - r + 1 \in 1..n /\ Slot(r, i - r + 1, m) = i
    BY <1>1 DEF Slot, Counts, InUse
  <2> QED
    BY <2>1
<1>2. CASE i < r
  <2>1. i + m - r + 1 \in 1..n /\ Slot(r, i + m - r + 1, m) = i
    BY <1>2 DEF Slot, Counts, InUse
  <2> QED
    BY <2>1
<1> QED
  BY <1>1, <1>2

\* Clearing a slot in use.
LEMMA FifoDrop ==
  ASSUME NEW m \in Nat \ {0}, NEW n \in 0..m, NEW r \in 0..m-1, NEW w \in 0..m-1,
         Counts(n, r, w, m), NEW i \in 0..m-1, InUse(i, n, r, w, m), NEW S,
         NEW a \in [0..m-1 -> S], NEW x \in S, NEW b \in [0..m-1 -> S],
         Updated(a, b, i, x, m)
  PROVE  Replaced(b, a, r, n, m, x, a[i])
<1>1. PICK k \in 1..n : Slot(r, k, m) = i
  BY SlotOf
<1>2. PICK f : f = Fifo(a, r, n, m)
  OBVIOUS
<1>3. IsFifo(f, a, r, n, m, S)
  BY <1>2, FifoFacts
<1>5. PICK g : g = Fifo(b, r, n, m)
  OBVIOUS
<1>6. IsFifo(g, b, r, n, m, S)
  BY <1>5, FifoFacts
<1>7. PICK h : h = [f EXCEPT ![k] = x]
  OBVIOUS
<1>8. h \in Seq(S) /\ Len(h) = n /\ \A j \in 1..n : h[j] = IF j = k THEN x ELSE f[j]
  BY <1>3, <1>7 DEF IsFifo
<1>9. ASSUME NEW j \in 1..n PROVE g[j] = h[j]
  <2>1. j # k => Slot(r, j, m) # i
    BY <1>1 DEF Slot
  <2> QED
    BY <1>1, <1>3, <1>6, <1>8, <2>1 DEF IsFifo, Updated
<1>10. g = h
  BY <1>6, <1>8, <1>9, SameSeq DEF IsFifo
<1> QED
  BY <1>1, <1>2, <1>3, <1>5, <1>7, <1>10 DEF IsFifo, Replaced

-----------------------------------------------------------------------------
(* The queue implements the pool *)

Dropping == {c \in Clients : cpc[c] = "dropsig"}

\* The queue's own state read as that of the pool.
LEMMA PoolState ==
  /\ fifo = Fifo(jobs, read_idx, num_queued, max_jobs)
  /\ fifo' = Fifo(jobs', read_idx', num_queued', max_jobs')
  /\ running = {wjob[w] : w \in Active} /\ running' = {wjob'[w] : w \in Active'}
  /\ dropped = {cjob[c] : c \in Dropping} /\ dropped' = {cjob'[c] : c \in Dropping'}
  BY DEF fifo, Fifo, running, Active, dropped, Dropping

\* A ring that may not grow keeps its size.
FixedSize == ResizeIfFull \/ max_jobs = MaxJobs

\* Only growing changes max_jobs.
LEMMA FixedSizeInductive == FixedSize /\ [Next]_vars => FixedSize'
<1> SUFFICES ASSUME FixedSize, [Next]_vars, ~ResizeIfFull PROVE max_jobs' = max_jobs
  BY DEF FixedSize
<1>1. ASSUME NEW w \in Workers, WorkerStep(w) \/ SpuriousFetch(w)
      PROVE  max_jobs' = max_jobs
  BY <1>1 DEF WorkerStep, SpuriousFetch, FetchWait, FetchJob, FetchKilled, Execute,
     BarrierWait, SignalFence, CleanupJob, SignalRemaining, ring
<1>2. ASSUME NEW c \in Clients, AddJob(c) \/ AddWoken(c) PROVE max_jobs' = max_jobs
  BY <1>2 DEF AddJob, AddWoken, Put, ring
<1>3. ASSUME NEW c \in Clients, ClientStep(c) \/ SpuriousSpace(c) PROVE max_jobs' = max_jobs
  BY <1>2, <1>3 DEF ClientStep, AddToKilled, SpuriousSpace, DropJob, DropSignal,
     DropWaited, FinishLock, FinishAdd, FinishWait, FinishReturn, KillAll, JoinAll, ring
<1>4. ASSUME NEW c \in Clients, Call(c) PROVE max_jobs' = max_jobs
  BY <1>4 DEF Call, CallAdd, CallDrop, CallFinish, CallKill, ring
<1> QED
  BY <1>1, <1>3, <1>4 DEF Next, vars, ring

\* What is queued, and how much of it.
LEMMA QueuedIs ==
  ASSUME TypeInv
  PROVE  /\ IsFifo(fifo, jobs, read_idx, num_queued, max_jobs, AllJobs \cup {NoJob})
         /\ Len(fifo) = num_queued /\ DOMAIN fifo = 1..num_queued
         /\ \A j \in Pool!Queued : j # NoJob /\ \E i \in Slots : jobs[i] = j
<1>1. IsFifo(fifo, jobs, read_idx, num_queued, max_jobs, AllJobs \cup {NoJob})
  BY PoolState, FifoFacts DEF TypeInv, TypeOK
<1>2. Len(fifo) = num_queued /\ DOMAIN fifo = 1..num_queued
  BY <1>1 DEF IsFifo
<1>3. \A k \in 1..num_queued : Slot(read_idx, k, max_jobs) \in Slots
                               /\ fifo[k] = jobs[Slot(read_idx, k, max_jobs)]
  BY <1>1 DEF IsFifo, Slots
<1> QED
  BY <1>1, <1>2, <1>3 DEF Pool!Queued

\* write_idx is the slot behind the last entry.
LEMMA WriteSlot ==
  ASSUME TypeInv, IndexCount, num_queued # max_jobs
  PROVE  write_idx = Slot(read_idx, num_queued + 1, max_jobs)
  BY DEF TypeInv, TypeOK, IndexCount, Slot

\* Nobody starts or ends a job.
LEMMA StillRunning ==
  ASSUME Active' = Active, \A w \in Active : wjob'[w] = wjob[w]
  PROVE  running' = running
  BY PoolState
\* Nobody has dropped a job, or signals one.
LEMMA StillDropped ==
  ASSUME Dropping' = Dropping, \A c \in Dropping : cjob'[c] = cjob[c]
  PROVE  dropped' = dropped
  BY PoolState
\* The ring is left alone.
LEMMA StillQueued == ASSUME UNCHANGED ring PROVE fifo' = fifo
  BY DEF ring, fifo

\* The state the pool's steps are proved from.
QueueInv == TypeInv /\ RingShape /\ FenceInv /\ NotKilled /\ FixedSize

\* A worker takes the oldest entry.
LEMMA TakeStep ==
  ASSUME QueueInv, NEW w \in Workers, FetchJob(w)
  PROVE  Pool!Take
<1> DEFINE j == jobs[read_idx]
<1>1. TypeOK /\ TypeInv /\ FenceInv
  BY DEF QueueInv, TypeInv
<1>2. /\ max_jobs \in Nat \ {0} /\ num_queued \in 1..max_jobs /\ read_idx \in 0..max_jobs-1
      /\ jobs \in [0..max_jobs-1 -> AllJobs \cup {NoJob}]
  BY <1>1 DEF FetchJob, TypeOK
<1>3. /\ jobs' \in [0..max_jobs-1 -> AllJobs \cup {NoJob}]
      /\ \A i \in 0..max_jobs-1 : jobs'[i] = IF i = read_idx THEN NoJob ELSE jobs[i]
      /\ read_idx' = (read_idx + 1) % max_jobs /\ num_queued' = num_queued - 1
      /\ UNCHANGED <<max_jobs, signalled, cjob>>
  BY <1>2 DEF FetchJob
<1>4. fifo # <<>> /\ Head(fifo) = jobs[read_idx] /\ fifo' = Tail(fifo)
  <2>1. PICK S : S = AllJobs \cup {NoJob}
    OBVIOUS
  <2>2. PICK a \in [0..max_jobs-1 -> S], b \in [0..max_jobs-1 -> S] : a = jobs /\ b = jobs'
    BY <1>2, <1>3, <2>1
  <2>3. PICK m \in Nat \ {0}, n \in 1..max_jobs, r \in 0..max_jobs-1, x \in S :
          m = max_jobs /\ n = num_queued /\ r = read_idx /\ x = NoJob
    BY <1>2, <2>1
  <2>4. /\ m \in Nat \ {0} /\ n \in 1..m /\ r \in 0..m-1 /\ x \in S
        /\ a \in [0..m-1 -> S] /\ b \in [0..m-1 -> S]
        /\ Updated(a, b, r, x, m)
    BY <1>3, <2>2, <2>3 DEF Updated
  <2>5. Shorter(b, (r + 1) % m, n - 1, a, r, n, m)
    BY <2>4, FifoTake
  <2>6. fifo = Fifo(a, r, n, m) /\ fifo' = Fifo(b, (r + 1) % m, n - 1, m)
    BY <1>3, <2>2, <2>3, PoolState
  <2> QED
    BY <2>2, <2>3, <2>5, <2>6 DEF Shorter
<1>5. running' = running \cup ({j} \ {NoJob})
  <2>1. /\ w \notin Active
        /\ Active' = IF j = NoJob THEN Active ELSE Active \cup {w}
        /\ wjob'[w] = j /\ \A v \in Active : wjob'[v] = wjob[v]
    BY <1>1 DEF FetchJob, ToWorker, Active, TypeOK
  <2> HIDE DEF j
  <2> QED
    BY <2>1, PoolState
<1>6. dropped' = dropped
  <2>1. \A c \in Clients : cpc'[c] = cpc[c] \/ (cpc[c] = "space" /\ cpc'[c] = "put")
    BY <1>1 DEF FetchJob, SignalSpace, TypeOK
  <2>2. Dropping' = Dropping
    BY <2>1 DEF Dropping
  <2> QED
    BY <1>3, <2>2, StillDropped
<1> QED
  BY <1>3, <1>4, <1>5, <1>6 DEF Pool!Take

\* A worker signals the fence of the job it has executed.
LEMMA CompleteStep ==
  ASSUME QueueInv, NEW w \in Workers, SignalFence(w)
  PROVE  \E j \in AllJobs : Pool!Complete(j)
<1> DEFINE j == wjob[w]
<1>1. TypeOK /\ FenceInv /\ OneOwner
  BY DEF QueueInv, TypeInv, FenceInv
<1>2. w \in Active /\ j \in AllJobs
  BY <1>1 DEF SignalFence, Active, FenceInv, OwnedUnsignalled
<1>3. Active' = Active \ {w} /\ \A v \in Active \ {w} : wjob'[v] = wjob[v]
  BY <1>1 DEF SignalFence, ToWorker, Active, TypeOK
<1>4. /\ UNCHANGED <<ring, cpc, cjob>>
      /\ signalled' = [signalled EXCEPT ![j] = TRUE]
  BY DEF SignalFence, clients
<1>5. \A v \in Active \ {w} : wjob[v] # j
  BY <1>1, <1>2 DEF OneOwner
<1> HIDE DEF j
<1>6. j \in running /\ running' = running \ {j}
  BY <1>2, <1>3, <1>5, PoolState DEF j
<1>7. fifo' = fifo /\ dropped' = dropped
  BY <1>4, StillQueued, StillDropped DEF Dropping
<1> QED
  BY <1>2, <1>4, <1>6, <1>7 DEF Pool!Complete

\* A client signals the fence of the job it has dropped.
LEMMA CompleteDropStep ==
  ASSUME QueueInv, NEW c \in Clients, DropSignal(c)
  PROVE  \E j \in AllJobs : Pool!CompleteDrop(j)
<1> DEFINE j == cjob[c]
<1>1. TypeOK /\ TypeInv /\ FenceInv /\ ClientsDistinct
  BY DEF QueueInv, TypeInv, FenceInv
<1>2. c \in Dropping /\ c \in Busy /\ Dropping \subseteq Busy
  BY DEF DropSignal, Dropping, Busy
<1>3. j \in AllJobs
  BY <1>1, <1>2, JobTypes
<1>4. Dropping' = Dropping \ {c}
  BY <1>1 DEF DropSignal, ToClient, Dropping, TypeOK
<1>5. /\ UNCHANGED <<ring, wpc, wjob, cjob>>
      /\ signalled' = [signalled EXCEPT ![j] = TRUE]
  BY DEF DropSignal, workers
<1>6. \A d \in Dropping \ {c} : cjob[d] # j
  BY <1>1, <1>2 DEF ClientsDistinct
<1> HIDE DEF j
<1>7. j \in dropped /\ dropped' = dropped \ {j}
  BY <1>2, <1>4, <1>5, <1>6, PoolState DEF j
<1>8. fifo' = fifo /\ running' = running
  BY <1>5, StillQueued, StillRunning DEF Active
<1> QED
  BY <1>3, <1>5, <1>7, <1>8 DEF Pool!CompleteDrop

\* A producer fills the slot at write_idx.
LEMMA PutQueued ==
  ASSUME QueueInv, NEW c \in Clients, cjob[c] \in AllJobs, num_queued # max_jobs,
         Put(c, jobs, read_idx, write_idx, max_jobs)
  PROVE  fifo' = Append(fifo, cjob[c])
<1>1. /\ max_jobs \in Nat \ {0} /\ num_queued \in 0..max_jobs-1
      /\ read_idx \in 0..max_jobs-1 /\ write_idx \in 0..max_jobs-1
      /\ jobs \in [0..max_jobs-1 -> AllJobs \cup {NoJob}]
  BY DEF QueueInv, TypeInv, TypeOK
<1>2. write_idx = Slot(read_idx, num_queued + 1, max_jobs)
  BY WriteSlot DEF QueueInv, RingShape
<1>3. /\ jobs' \in [0..max_jobs-1 -> AllJobs \cup {NoJob}]
      /\ \A i \in 0..max_jobs-1 : jobs'[i] = IF i = write_idx THEN cjob[c] ELSE jobs[i]
      /\ read_idx' = read_idx /\ num_queued' = num_queued + 1 /\ max_jobs' = max_jobs
  BY <1>1 DEF Put
<1>4. PICK S : S = AllJobs \cup {NoJob}
  OBVIOUS
<1>5. PICK a \in [0..max_jobs-1 -> S], b \in [0..max_jobs-1 -> S], x \in S :
        a = jobs /\ b = jobs' /\ x = cjob[c]
  BY <1>1, <1>3, <1>4
<1>6. PICK m \in Nat \ {0}, n \in 0..max_jobs-1, r \in 0..max_jobs-1, w \in 0..max_jobs-1 :
        m = max_jobs /\ n = num_queued /\ r = read_idx /\ w = write_idx
  BY <1>1
<1>7. /\ m \in Nat \ {0} /\ n \in 0..m-1 /\ r \in 0..m-1 /\ w \in 0..m-1 /\ x \in S
      /\ a \in [0..m-1 -> S] /\ b \in [0..m-1 -> S] /\ w = Slot(r, n + 1, m)
      /\ Updated(a, b, w, x, m)
  BY <1>2, <1>3, <1>5, <1>6 DEF Updated
<1>8. Longer(b, r, m, n + 1, a, r, m, n, x)
  BY <1>7, FifoPut
<1>9. fifo = Fifo(a, r, n, m) /\ fifo' = Fifo(b, r, n + 1, m)
  BY <1>3, <1>5, <1>6, PoolState
<1> QED
  BY <1>5, <1>8, <1>9 DEF Longer

\* A producer copies a full ring into a larger one and fills the slot behind.
LEMMA GrowQueued ==
  ASSUME QueueInv, NEW c \in Clients, cjob[c] \in AllJobs, num_queued = max_jobs,
         Put(c, Grown, 0, NumCopied, max_jobs + GrowBy)
  PROVE  fifo' = Append(fifo, cjob[c])
<1>1. /\ max_jobs \in Nat \ {0} /\ read_idx \in 0..max_jobs-1
      /\ jobs \in [0..max_jobs-1 -> AllJobs \cup {NoJob}]
  BY DEF QueueInv, TypeInv, TypeOK
<1>2. NumCopied = max_jobs
  BY DEF QueueInv, RingShape, IndexCount, NumCopied
<1>3. PICK m \in Nat \ {0}, r \in 0..max_jobs-1, q \in Nat :
        m = max_jobs /\ r = read_idx /\ q = max_jobs + 8
  BY <1>1
<1>4. PICK S : S = AllJobs \cup {NoJob}
  OBVIOUS
<1>5. PICK a \in [0..m-1 -> S], x \in S : a = jobs /\ x = cjob[c]
  BY <1>1, <1>3, <1>4
<1>6. r \in 0..m-1 /\ q > m /\ m \in 0..q-1
  BY <1>3
<1>7. \A i \in 0..m-1 : (r + i) % m \in 0..m-1
  BY <1>6
<1>8. /\ Grown = [i \in 0..q-1 |-> IF i < m THEN a[(r + i) % m] ELSE NoJob]
      /\ jobs' = [Grown EXCEPT ![m] = x]
      /\ read_idx' = 0 /\ num_queued' = m + 1 /\ max_jobs' = q
  BY <1>2, <1>3, <1>5 DEF Put, Grown, GrowBy
<1>9. Grown \in [0..q-1 -> S] /\ \A i \in 0..m-1 : Grown[i] = a[(r + i) % m]
  <2>1. ASSUME NEW i \in 0..q-1
        PROVE  (IF i < m THEN a[(r + i) % m] ELSE NoJob) \in S
    <3>1. CASE i < m
      <4>1. i \in 0..m-1
        BY <3>1
      <4> QED
        BY <3>1, <4>1, <1>7
    <3>2. CASE ~(i < m)
      BY <3>2, <1>4
    <3> QED
      BY <3>1, <3>2
  <2>2. \A i \in 0..m-1 : i \in 0..q-1 /\ i < m
    BY <1>6
  <2> QED
    BY <1>8, <2>1, <2>2
<1>10. PICK b \in [0..q-1 -> S] : b = jobs'
  BY <1>8, <1>9
<1>11. Rotated(b, a, r, m, x)
  <2>1. b[m] = x
    BY <1>6, <1>8, <1>9, <1>10
  <2>2. \A i \in 0..m-1 : i \in 0..q-1 /\ i # m
    BY <1>6
  <2>3. \A i \in 0..m-1 : b[i] = Grown[i]
    BY <1>8, <1>9, <1>10, <2>2
  <2> QED
    BY <1>9, <2>1, <2>3 DEF Rotated
<1>12. Longer(b, 0, q, m + 1, a, r, m, m, x)
  BY <1>6, <1>11, FifoGrow
<1>13. fifo = Fifo(a, r, m, m) /\ fifo' = Fifo(b, 0, m + 1, q)
  BY <1>3, <1>5, <1>8, <1>10, PoolState
<1> QED
  BY <1>5, <1>12, <1>13 DEF Longer

\* A producer that fills a slot runs and drops nothing.
LEMMA PutOthers ==
  ASSUME QueueInv, NEW c \in Adding, NEW slots, NEW r, NEW wr, NEW m,
         Put(c, slots, r, wr, m), UNCHANGED <<wjob, cjob>>
  PROVE  running' = running /\ dropped' = dropped
<1>1. Active' = Active
  BY PutClients DEF QueueInv
<1>2. Dropping' = Dropping
  <2>1. cpc' = [cpc EXCEPT ![c] = IF cjob[c] \in Jobs THEN "idle" ELSE "finadd"]
    BY DEF Put, ToClient
  <2> QED
    BY <2>1 DEF Dropping, Adding, QueueInv, TypeInv, TypeOK
<1> QED
  BY <1>1, <1>2, StillRunning, StillDropped

\* A job its producer holds or is about to add is nowhere in the pool.
LEMMA NotInPool ==
  ASSUME QueueInv, NEW c \in Adding
  PROVE  cjob[c] \in AllJobs /\ cjob[c] \notin Pool!Queued \cup running \cup dropped
<1>1. TypeInv /\ FenceInv /\ OneOwner /\ OwnedUnsignalled /\ ClientsDistinct
  BY DEF QueueInv, FenceInv
<1>2. c \in Busy /\ c \notin Dropping /\ (c \in Begin \/ c \in Holding)
  BY DEF Adding, Busy, Dropping, Begin, Holding
<1>3. cjob[c] \in AllJobs
  BY <1>1, <1>2, JobTypes
<1>4. cjob[c] \notin Pool!Queued
  <2>1. \A i \in Slots : jobs[i] # cjob[c]
    BY <1>1, <1>2, <1>3, UtilQueueAssumption DEF OneOwner, OwnedUnsignalled
  <2> QED
    BY <1>1, <2>1, QueuedIs
<1>5. cjob[c] \notin running
  BY <1>1, <1>2, PoolState DEF OneOwner, OwnedUnsignalled
<1>6. cjob[c] \notin dropped
  <2>1. Dropping \subseteq Busy
    BY DEF Dropping, Busy
  <2> QED
    BY <1>1, <1>2, <2>1, PoolState DEF ClientsDistinct
<1> QED
  BY <1>3, <1>4, <1>5, <1>6

\* There is room in the pool when the ring is not full or may grow.
LEMMA RoomIs ==
  ASSUME QueueInv
  PROVE  Pool!HasRoom <=> ResizeIfFull \/ num_queued # max_jobs
<1>1. Len(fifo) = num_queued
  BY QueuedIs DEF QueueInv
<1>2. num_queued \in 0..max_jobs /\ max_jobs \in Nat /\ (ResizeIfFull \/ max_jobs = MaxJobs)
  BY DEF QueueInv, TypeInv, TypeOK, FixedSize
<1> QED
  BY <1>1, <1>2 DEF Pool!HasRoom

\* util_queue_add_job queues the job, or finds no room and waits.
LEMMA AddStep ==
  ASSUME QueueInv, NEW c \in Clients, AddJob(c)
  PROVE  \E j \in AllJobs : Pool!Announce(j) \/ Pool!Enqueue(j)
<1>1. c \in Adding /\ c \in Begin
  BY DEF AddJob, Adding, Begin
<1>2. /\ cjob[c] \in AllJobs /\ cjob[c] \notin Pool!Queued \cup running \cup dropped
      /\ signalled[cjob[c]]
  BY <1>1, NotInPool DEF QueueInv, FenceInv, OwnedUnsignalled
<1>3. /\ signalled' = [signalled EXCEPT ![cjob[c]] = FALSE]
      /\ UNCHANGED <<wjob, cjob>>
  BY DEF AddJob
<1>4. CASE num_queued # max_jobs /\ Put(c, jobs, read_idx, write_idx, max_jobs)
  <2>1. fifo' = Append(fifo, cjob[c]) /\ running' = running /\ dropped' = dropped
    BY <1>1, <1>2, <1>3, <1>4, PutQueued, PutOthers
  <2>2. Pool!HasRoom
    BY <1>4, RoomIs
  <2>3. Pool!Enqueue(cjob[c])
    BY <1>2, <1>3, <2>1, <2>2 DEF Pool!Enqueue
  <2> QED
    BY <1>2, <2>3
<1>5. CASE /\ num_queued = max_jobs /\ ResizeIfFull
           /\ Put(c, Grown, 0, NumCopied, max_jobs + GrowBy)
  <2>1. fifo' = Append(fifo, cjob[c]) /\ running' = running /\ dropped' = dropped
    BY <1>1, <1>2, <1>3, <1>5, GrowQueued, PutOthers
  <2>2. Pool!HasRoom
    BY <1>5, RoomIs
  <2>3. Pool!Enqueue(cjob[c])
    BY <1>2, <1>3, <2>1, <2>2 DEF Pool!Enqueue
  <2> QED
    BY <1>2, <2>3
<1>6. CASE /\ num_queued = max_jobs /\ ~ResizeIfFull
           /\ ToClient(c, "space") /\ UNCHANGED <<ring, wpc>>
  <2>1. Dropping' = Dropping
    BY <1>6 DEF AddJob, ToClient, Dropping, QueueInv, TypeInv, TypeOK
  <2>2. fifo' = fifo /\ running' = running /\ dropped' = dropped
    BY <1>3, <1>6, <2>1, StillQueued, StillRunning, StillDropped DEF Active
  <2>3. ~Pool!HasRoom
    BY <1>6, RoomIs
  <2>4. Pool!Announce(cjob[c])
    BY <1>2, <1>3, <2>2, <2>3 DEF Pool!Announce
  <2> QED
    BY <1>2, <2>4
<1> QED
  BY <1>4, <1>5, <1>6 DEF AddJob

\* The fence of a job whose producer waits is reset already.
LEMMA WokenStep ==
  ASSUME QueueInv, NEW c \in Clients, AddWoken(c) \/ SpuriousSpace(c)
  PROVE  (\E j \in AllJobs : Pool!Enqueue(j)) \/ UNCHANGED Pool!vars
<1>1. c \in Adding /\ c \in Holding
  BY DEF AddWoken, SpuriousSpace, Adding, Holding
<1>2. /\ cjob[c] \in AllJobs /\ cjob[c] \notin Pool!Queued \cup running \cup dropped
      /\ ~signalled[cjob[c]]
  BY <1>1, NotInPool DEF QueueInv, FenceInv, OwnedUnsignalled
<1>3. UNCHANGED <<signalled, wjob, cjob>>
  BY DEF AddWoken, SpuriousSpace, workers
<1>4. CASE num_queued # max_jobs /\ Put(c, jobs, read_idx, write_idx, max_jobs)
  <2>1. fifo' = Append(fifo, cjob[c]) /\ running' = running /\ dropped' = dropped
    BY <1>1, <1>2, <1>3, <1>4, PutQueued, PutOthers
  <2>2. Pool!HasRoom
    BY <1>4, RoomIs
  <2>3. signalled' = [signalled EXCEPT ![cjob[c]] = FALSE]
    <3>1. signalled \in [AllJobs -> BOOLEAN] /\ signalled[cjob[c]] = FALSE
      BY <1>2 DEF QueueInv, TypeInv, TypeOK
    <3> QED
      BY <1>2, <1>3, <3>1
  <2>4. Pool!Enqueue(cjob[c])
    BY <1>2, <2>1, <2>2, <2>3 DEF Pool!Enqueue
  <2> QED
    BY <1>2, <2>4
<1>5. CASE (ToClient(c, "space") \/ ToClient(c, "put")) /\ UNCHANGED <<ring, wpc>>
  <2>1. Dropping' = Dropping
    BY <1>1, <1>5 DEF Adding, ToClient, Dropping, QueueInv, TypeInv, TypeOK
  <2>2. fifo' = fifo /\ running' = running /\ dropped' = dropped
    BY <1>3, <1>5, <2>1, StillQueued, StillRunning, StillDropped DEF Active
  <2> QED
    BY <1>3, <2>2 DEF Pool!vars
<1> QED
  BY <1>4, <1>5 DEF AddWoken, SpuriousSpace, workers

\* util_queue_drop_job leaves a hole where it found the job.
LEMMA DropStep ==
  ASSUME QueueInv, NEW c \in Clients, DropJob(c)
  PROVE  (\E k \in DOMAIN fifo : Pool!Drop(k)) \/ UNCHANGED Pool!vars
<1>1. /\ UNCHANGED <<read_idx, write_idx, num_queued, max_jobs, signalled, wpc, wjob, cjob>>
      /\ cpc[c] = "drop"
  BY DEF DropJob, workers
<1>2. running' = running
  BY <1>1, StillRunning DEF Active
<1>3. CASE ToClient(c, "dropwait") /\ UNCHANGED jobs
  <2>1. Dropping' = Dropping
    BY <1>1, <1>3 DEF ToClient, Dropping, QueueInv, TypeInv, TypeOK
  <2>2. dropped' = dropped
    BY <1>1, <2>1, StillDropped
  <2>3. fifo' = fifo
    BY <1>1, <1>3, StillQueued DEF ring
  <2> QED
    BY <1>1, <1>2, <2>2, <2>3 DEF Pool!vars
<1>4. ASSUME NEW i \in Visited, jobs[i] = cjob[c], jobs' = [jobs EXCEPT ![i] = NoJob],
             ToClient(c, "dropsig")
      PROVE  \E k \in DOMAIN fifo : Pool!Drop(k)
  <2>1. /\ max_jobs \in Nat \ {0} /\ num_queued \in 0..max_jobs
        /\ read_idx \in 0..max_jobs-1 /\ write_idx \in 0..max_jobs-1 /\ i \in 0..max_jobs-1
        /\ jobs \in [0..max_jobs-1 -> AllJobs \cup {NoJob}]
    BY DEF QueueInv, TypeInv, TypeOK, Visited
  <2>2. /\ Counts(num_queued, read_idx, write_idx, max_jobs)
        /\ InUse(i, num_queued, read_idx, write_idx, max_jobs)
    <3>1. TypeOK /\ IndexCount /\ i \in Occupied
      BY <2>1 DEF QueueInv, TypeInv, RingShape, Occupied
    <3> QED
      BY <2>1, <3>1, RingDefs
  <2>3. /\ jobs' \in [0..max_jobs-1 -> AllJobs \cup {NoJob}]
        /\ \A h \in 0..max_jobs-1 : jobs'[h] = IF h = i THEN NoJob ELSE jobs[h]
    BY <1>4, <2>1
  <2>4. PICK S : S = AllJobs \cup {NoJob}
    OBVIOUS
  <2>5. PICK a \in [0..max_jobs-1 -> S], b \in [0..max_jobs-1 -> S], x \in S :
          a = jobs /\ b = jobs' /\ x = NoJob
    BY <2>1, <2>3, <2>4
  <2>6. PICK m \in Nat \ {0}, n \in 0..max_jobs, r \in 0..max_jobs-1, w \in 0..max_jobs-1 :
          m = max_jobs /\ n = num_queued /\ r = read_idx /\ w = write_idx
    BY <2>1
  <2>7. /\ m \in Nat \ {0} /\ n \in 0..m /\ r \in 0..m-1 /\ w \in 0..m-1 /\ i \in 0..m-1
        /\ a \in [0..m-1 -> S] /\ b \in [0..m-1 -> S] /\ x \in S
        /\ Counts(n, r, w, m) /\ InUse(i, n, r, w, m) /\ Updated(a, b, i, x, m)
    BY <2>1, <2>2, <2>3, <2>5, <2>6 DEF Updated
  <2>8. Replaced(b, a, r, n, m, x, a[i])
    BY <2>7, FifoDrop
  <2>9. fifo = Fifo(a, r, n, m) /\ fifo' = Fifo(b, r, n, m) /\ DOMAIN fifo = 1..n
    BY <1>1, <2>5, <2>6, PoolState, QueuedIs DEF QueueInv
  <2>10. PICK k \in DOMAIN fifo : fifo[k] = cjob[c] /\ fifo' = [fifo EXCEPT ![k] = NoJob]
    BY <1>4, <2>5, <2>8, <2>9 DEF Replaced
  <2>11. Dropping' = Dropping \cup {c}
    BY <1>4 DEF ToClient, Dropping, QueueInv, TypeInv, TypeOK
  <2>12. dropped' = dropped \cup {cjob[c]}
    BY <1>1, <2>11, PoolState
  <2>13. cjob[c] # NoJob
    <3>1. c \in Busy
      BY <1>1 DEF Busy
    <3> QED
      BY <3>1, JobTypes DEF QueueInv
  <2>14. Pool!Drop(k)
    BY <1>1, <1>2, <2>10, <2>12, <2>13 DEF Pool!Drop
  <2> QED
    BY <2>10, <2>14
<1> QED
  BY <1>3, <1>4 DEF DropJob

\* Steps of a worker that take or signal no job.
LEMMA WorkerStill ==
  ASSUME QueueInv, NEW w \in Workers,
         \/ FetchWait(w) \/ SpuriousFetch(w) \/ Execute(w) \/ BarrierWait(w)
         \/ CleanupJob(w)
  PROVE  UNCHANGED Pool!vars
<1>0. TypeOK
  BY DEF QueueInv, TypeInv
<1>1. UNCHANGED <<ring, signalled, cpc, cjob>>
  BY DEF FetchWait, SpuriousFetch, Execute, BarrierWait, CleanupJob, clients
<1>2. Active' = Active /\ \A v \in Active : wjob'[v] = wjob[v]
  <2>1. CASE BarrierWait(w)
    BY <1>0, <2>1 DEF BarrierWait, Active, TypeOK, ToWorker
  <2>2. CASE CleanupJob(w)
    BY <1>0, <2>2 DEF CleanupJob, Active, TypeOK, ToWorker
  <2>3. CASE FetchWait(w) \/ SpuriousFetch(w) \/ Execute(w)
    BY <1>0, <2>3 DEF FetchWait, SpuriousFetch, Execute, Active, TypeOK, ToWorker
  <2> QED
    BY <2>1, <2>2, <2>3
<1>3. fifo' = fifo /\ running' = running /\ dropped' = dropped
  BY <1>1, <1>2, StillQueued, StillRunning, StillDropped DEF Dropping
<1> QED
  BY <1>1, <1>3 DEF Pool!vars

\* Steps of a client that touch no job: the calls it begins, and waiting.
LEMMA ClientStill ==
  ASSUME QueueInv, NEW c \in Clients,
         \/ DropWaited(c) \/ FinishLock(c) \/ FinishWait(c) \/ FinishReturn(c)
         \/ Call(c)
  PROVE  UNCHANGED Pool!vars
<1>0. TypeOK
  BY DEF QueueInv, TypeInv
<1>1. UNCHANGED <<ring, signalled, wpc, wjob>>
  BY DEF DropWaited, FinishLock, FinishWait, FinishReturn, Call, CallAdd, CallDrop,
         CallFinish, CallKill, workers
<1>2. /\ cpc' = cpc \/ \E l \in {"idle", "add", "drop", "finlock", "finadd", "kill"} :
                         cpc' = [cpc EXCEPT ![c] = l]
      /\ cpc[c] # "dropsig"
      /\ cjob' = cjob \/ \E j \in Jobs : cjob' = [cjob EXCEPT ![c] = j]
  BY DEF DropWaited, FinishLock, FinishWait, FinishReturn, Call, CallAdd, CallDrop,
         CallFinish, CallKill, ToClient
<1>3. Dropping' = Dropping /\ \A d \in Dropping : cjob'[d] = cjob[d]
  BY <1>0, <1>2 DEF Dropping, TypeOK
<1>4. fifo' = fifo /\ running' = running /\ dropped' = dropped
  BY <1>1, <1>3, StillQueued, StillRunning, StillDropped DEF Active
<1> QED
  BY <1>1, <1>4 DEF Pool!vars

\* The fence util_queue_finish initialises is signalled already.
LEMMA FinishAddStill ==
  ASSUME QueueInv, NEW c \in Clients, FinishAdd(c)
  PROVE  UNCHANGED Pool!vars
<1>0. TypeOK /\ TypeInv /\ FenceInv
  BY DEF QueueInv, TypeInv
<1>1. UNCHANGED <<ring, wpc, wjob>> /\ cpc[c] = "finadd"
  BY DEF FinishAdd, workers
<1>2. signalled' = signalled
  <2>1. CASE ci[c] < num_threads
    <3> DEFINE j == <<c, ci[c] + 1>>
    <3>1. ci[c] + 1 \in 1..NumThreads
      BY <1>0, <2>1, JobTypes, NumThreadsType DEF FenceInv
    <3>2. j \in AllJobs
      BY <3>1, JobKinds
    <3>3. c \in FinAdd /\ c \notin Adding /\ c \notin FinWait
      BY <1>1 DEF FinAdd, Adding, FinWait
    <3>4. signalled[j]
      BY <1>0, <3>1, <3>3, JobTypes DEF FenceInv, BarrierFences
    <3>5. signalled' = [signalled EXCEPT ![j] = TRUE]
      BY <2>1 DEF FinishAdd
    <3> HIDE DEF j
    <3>6. signalled \in [AllJobs -> BOOLEAN] /\ signalled[j] = TRUE
      BY <1>0, <3>2, <3>4 DEF TypeOK
    <3> QED
      BY <3>2, <3>5, <3>6
  <2>2. CASE ~(ci[c] < num_threads)
    BY <2>2 DEF FinishAdd
  <2> QED
    BY <2>1, <2>2
<1>3. Dropping' = Dropping /\ \A d \in Dropping : cjob'[d] = cjob[d]
  <2>1. \A d \in Clients \ {c} : cpc'[d] = cpc[d] /\ cjob'[d] = cjob[d]
    BY <1>0 DEF FinishAdd, ToClient, TypeOK
  <2>2. cpc'[c] # "dropsig"
    BY <1>0 DEF FinishAdd, ToClient, TypeOK
  <2> QED
    BY <1>1, <2>1, <2>2 DEF Dropping
<1>4. fifo' = fifo /\ running' = running /\ dropped' = dropped
  BY <1>1, <1>3, StillQueued, StillRunning, StillDropped DEF Active
<1> QED
  BY <1>2, <1>4 DEF Pool!vars

\* Every step of the queue is a step of the pool or leaves it alone.
LEMMA StepSimulation ==
  ASSUME QueueInv, [Next]_vars
  PROVE  [Pool!Next]_Pool!vars
<1>1. ASSUME NEW w \in Workers, WorkerStep(w) \/ SpuriousFetch(w)
      PROVE  Pool!Next \/ UNCHANGED Pool!vars
  <2>1. ~FetchKilled(w) /\ ~SignalRemaining(w)
    BY DEF QueueInv, NotKilled, FetchKilled, SignalRemaining
  <2>2. CASE FetchJob(w)
    BY <2>2, TakeStep DEF Pool!Next
  <2>3. CASE SignalFence(w)
    BY <2>3, CompleteStep DEF Pool!Next
  <2> QED
    BY <1>1, <2>1, <2>2, <2>3, WorkerStill DEF WorkerStep
<1>2. ASSUME NEW c \in Clients, ClientStep(c) \/ SpuriousSpace(c)
      PROVE  Pool!Next \/ UNCHANGED Pool!vars
  <2>1. ~AddToKilled(c) /\ ~KillAll(c) /\ ~JoinAll(c)
    BY DEF QueueInv, NotKilled, AddToKilled, KillAll, JoinAll
  <2>2. CASE AddJob(c)
    BY <2>2, AddStep DEF Pool!Next
  <2>3. CASE AddWoken(c) \/ SpuriousSpace(c)
    BY <2>3, WokenStep DEF Pool!Next
  <2>4. CASE DropJob(c)
    BY <2>4, DropStep DEF Pool!Next
  <2>5. CASE DropSignal(c)
    BY <2>5, CompleteDropStep DEF Pool!Next
  <2> QED
    BY <1>2, <2>1, <2>2, <2>3, <2>4, <2>5, ClientStill, FinishAddStill DEF ClientStep
<1>3. ASSUME NEW c \in Clients, Call(c) PROVE UNCHANGED Pool!vars
  BY <1>3, ClientStill
<1>4. CASE UNCHANGED vars
  <2>1. UNCHANGED <<ring, signalled, wpc, wjob, cpc, cjob>>
    BY <1>4 DEF vars, workers, clients
  <2>2. fifo' = fifo /\ running' = running /\ dropped' = dropped
    BY <2>1, StillQueued, StillRunning, StillDropped DEF Active, Dropping
  <2> QED
    BY <2>1, <2>2 DEF Pool!vars
<1> QED
  BY <1>1, <1>2, <1>3, <1>4 DEF Next

\* The queue implements the pool of workers as long as nobody shuts it down:
\* whatever producers, util_queue_drop_job, util_queue_finish and the workers
\* do in between, jobs leave the ring in the order they entered it, also across
\* its wrap-around and its growth, a dropped job is a hole for the worker that
\* gets to it, and a fence is signalled exactly when its job has been executed
\* or dropped.
THEOREM Implementation ==
  ASSUME "kill" \notin Calls
  PROVE  Spec => ImplementsPool
<1>1. Init => Pool!Init
  <2> SUFFICES ASSUME Init PROVE Pool!Init
    OBVIOUS
  <2>1. Active = {} /\ Dropping = {}
    BY DEF Init, Active, Dropping
  <2>2. running = {} /\ dropped = {}
    BY <2>1, PoolState
  <2>3. fifo = <<>>
    <3>1. num_queued = 0
      BY DEF Init
    <3>2. fifo \in [1..0 -> {}]
      BY <3>1 DEF fifo
    <3> QED
      BY <3>2
  <2> QED
    BY <2>2, <2>3 DEF Pool!Init, Init
<1>2. Init => FixedSize
  BY DEF Init, FixedSize
<1>3. FixedSize /\ [Next]_vars => FixedSize'
  BY FixedSizeInductive
<1>4. TypeInv /\ NotKilled /\ RingShape /\ FenceInv /\ FixedSize /\ [Next]_vars
        => [Pool!Next]_Pool!vars
  BY StepSimulation DEF QueueInv
<1> QED
  BY <1>1, <1>2, <1>3, <1>4, FenceInvHolds, PTL DEF Spec, ImplementsPool, Pool!Spec

-----------------------------------------------------------------------------
(* util_queue_finish waits for the jobs queued before it *)

\* The barrier jobs of client c, and the workers that wait at its barrier.
BarrierOf(c) == {c} \X (1..NumThreads)
Waiting(c) == {w \in Workers : wpc[w] = "barrier" /\ wjob[w] \in BarrierOf(c)}

\* Client c in the loops of util_queue_finish: the barrier jobs it has queued.
Added(c, i) ==
  \/ c \in FinAdd /\ i <= ci[c]
  \/ c \in Adding /\ cjob[c] \notin Jobs /\ i < ci[c]
  \/ c \in FinWait

\* The clients inside util_queue_finish.
Finishing ==
  {c \in Clients : \/ cpc[c] \in {"finlock", "finadd", "finwait"}
                   \/ c \in Adding /\ cjob[c] \notin Jobs}

\* A job a call of util_queue_finish is to wait for is in the ring or with a
\* worker: its fence is unsignalled, and no client has it.
OwedPending ==
  \A c \in Clients : \A j \in owed[c] :
    j \in Jobs /\ ~signalled[j] /\ \A d \in Holding : cjob[d] # j

\* It is ahead of the barrier jobs in the ring ...
OwedAhead ==
  \A c \in Clients : \A k, l \in DOMAIN fifo :
    fifo[k] \in owed[c] /\ fifo[l] \in BarrierOf(c) => k < l

\* ... and out of the ring once a worker has one of those.
OwedTaken ==
  \A c \in Clients : \A w \in Active :
    wjob[w] \in BarrierOf(c) => \A k \in DOMAIN fifo : fifo[k] \notin owed[c]

\* The barrier opens when nothing is owed any more.
BarrierOpened ==
  \A c \in Clients :
    /\ \A w \in Workers : wpc[w] = "signal" /\ wjob[w] \in BarrierOf(c) => owed[c] = {}
    /\ \A i \in 1..NumThreads : Added(c, i) /\ signalled[<<c, i>>] => owed[c] = {}

\* The barrier counts its waiters, and is made for all the workers.
BarrierCounts ==
  /\ \A w \in Workers : wpc[w] = "barrier" => wjob[w] \in BarrierJobs
  /\ \A c \in Clients : barrier[c].waiters = Cardinality(Waiting(c))
  /\ \A c \in Finishing : barrier[c].count = NumThreads

OwedInv ==
  OwedPending /\ OwedAhead /\ OwedTaken /\ BarrierOpened /\ BarrierCounts

\* The barrier jobs of a client are its own and no client's jobs.
LEMMA BarrierNotJob ==
  ASSUME NEW c \in Clients
  PROVE  /\ \A j \in BarrierOf(c) : j \in BarrierJobs /\ j \notin Jobs /\ j[1] = c
         /\ \A j \in BarrierJobs : j[1] = c => j \in BarrierOf(c)
  BY UtilQueueAssumption DEF BarrierOf, BarrierJobs

\* A job in a slot is an entry of the ring.
LEMMA RingHas ==
  ASSUME QueueInv, NEW i \in Slots, jobs[i] # NoJob
  PROVE  \E k \in DOMAIN fifo : fifo[k] = jobs[i]
<1>1. /\ max_jobs \in Nat \ {0} /\ num_queued \in 0..max_jobs
      /\ read_idx \in 0..max_jobs-1 /\ write_idx \in 0..max_jobs-1 /\ i \in 0..max_jobs-1
  BY DEF QueueInv, TypeInv, TypeOK, Slots
<1>2. /\ Counts(num_queued, read_idx, write_idx, max_jobs)
      /\ InUse(i, num_queued, read_idx, write_idx, max_jobs)
  <2>1. TypeOK /\ IndexCount /\ i \in Occupied
    BY <1>1 DEF QueueInv, TypeInv, RingShape, FreeSlotsZeroed
  <2> QED
    BY <1>1, <2>1, RingDefs
<1>3. \E k \in 1..num_queued : Slot(read_idx, k, max_jobs) = i
  BY <1>1, <1>2, SlotOf
<1> QED
  BY <1>3, QueuedIs DEF QueueInv, IsFifo

\* A step that moves no job keeps the first three parts.
LEMMA OwedStill ==
  ASSUME OwedInv, UNCHANGED <<fifo, owed, signalled, Active, Holding>>,
         \A w \in Active : wjob'[w] = wjob[w], \A c \in Holding : cjob'[c] = cjob[c]
  PROVE  OwedPending' /\ OwedAhead' /\ OwedTaken'
<1>1. OwedPending'
  BY DEF OwedInv, OwedPending
<1>2. OwedAhead'
  BY DEF OwedInv, OwedAhead, BarrierOf
<1>3. OwedTaken'
  BY DEF OwedInv, OwedTaken, BarrierOf
<1> QED
  BY <1>1, <1>2, <1>3

\* A step that brings no worker to a barrier, or away from one.
LEMMA CountsStill ==
  ASSUME BarrierCounts, UNCHANGED barrier, Finishing' \subseteq Finishing,
         \A w \in Workers : /\ wpc'[w] = "barrier" <=> wpc[w] = "barrier"
                            /\ wpc[w] = "barrier" => wjob'[w] = wjob[w]
  PROVE  BarrierCounts'
<1>1. \A c \in Clients : Waiting(c)' = Waiting(c)
  BY DEF Waiting, BarrierOf
<1>2. \A c \in Clients : barrier'[c].waiters = Cardinality(Waiting(c)')
  BY <1>1 DEF BarrierCounts
<1>3. \A w \in Workers : wpc'[w] = "barrier" => wjob'[w] \in BarrierJobs
  BY DEF BarrierCounts
<1>4. \A c \in Finishing' : barrier'[c].count = NumThreads
  BY DEF BarrierCounts
<1> QED
  BY <1>2, <1>3, <1>4 DEF BarrierCounts

\* A step that queues no barrier job, signals none and passes no barrier.
LEMMA OpenedStill ==
  ASSUME BarrierOpened, \A c \in Clients : owed'[c] \subseteq owed[c],
         \A c \in Clients : \A i \in 1..NumThreads :
           Added(c, i)' /\ signalled'[<<c, i>>] =>
             owed'[c] = {} \/ (Added(c, i) /\ signalled[<<c, i>>]),
         \A c \in Clients : \A w \in Workers :
           wpc'[w] = "signal" /\ wjob'[w] \in BarrierOf(c) =>
             owed'[c] = {} \/ (wpc[w] = "signal" /\ wjob[w] \in BarrierOf(c))
  PROVE  BarrierOpened'
<1>1. \A c \in Clients : owed[c] = {} => owed'[c] = {}
  OBVIOUS
<1>2. \A c \in Clients : BarrierOf(c)' = BarrierOf(c)
  BY DEF BarrierOf
<1> QED
  BY <1>1, <1>2 DEF BarrierOpened

\* The sets of clients decide what has been queued.
LEMMA AddedStill ==
  ASSUME UNCHANGED <<Adding, FinAdd, FinWait>>,
         \A c \in Adding : cjob'[c] = cjob[c] /\ ci'[c] = ci[c],
         \A c \in FinAdd : ci'[c] = ci[c]
  PROVE  \A c \in Clients : \A i \in 1..NumThreads : Added(c, i)' <=> Added(c, i)
  BY DEF Added

\* Steps of a worker that take no job, signal none and pass no barrier.
LEMMA WorkerOwed ==
  ASSUME QueueInv, OwedInv, NEW w \in Workers,
         FetchWait(w) \/ SpuriousFetch(w) \/ Execute(w) \/ CleanupJob(w)
  PROVE  OwedInv'
<1>0. TypeOK
  BY DEF QueueInv, TypeInv
<1>1. UNCHANGED <<ring, signalled, cpc, cjob, ci, barrier, owed>>
  BY DEF FetchWait, SpuriousFetch, Execute, CleanupJob, clients
<1>2. /\ UNCHANGED <<Adding, Holding, FinAdd, FinWait, Finishing>>
      /\ fifo' = fifo
  BY <1>1, StillQueued DEF Adding, Holding, FinAdd, FinWait, Finishing
<1>3. /\ Active' = Active /\ \A v \in Active : wjob'[v] = wjob[v]
      /\ \A v \in Workers : /\ wpc'[v] = "barrier" <=> wpc[v] = "barrier"
                            /\ wpc[v] = "barrier" => wjob'[v] = wjob[v]
      /\ \A v \in Workers : wpc'[v] = "signal" =>
           wjob'[v] = wjob[v] /\ (wpc[v] = "signal" \/ wjob[v] \in Jobs)
  <2>1. CASE CleanupJob(w)
    BY <1>0, <2>1 DEF CleanupJob, Active, TypeOK, ToWorker
  <2>2. CASE FetchWait(w) \/ SpuriousFetch(w) \/ Execute(w)
    BY <1>0, <2>2 DEF FetchWait, SpuriousFetch, Execute, Active, TypeOK, ToWorker
  <2> QED
    BY <2>1, <2>2
<1>4. OwedPending' /\ OwedAhead' /\ OwedTaken'
  BY <1>1, <1>2, <1>3, OwedStill
<1>5. BarrierCounts'
  BY <1>1, <1>2, <1>3, CountsStill DEF OwedInv
<1>6. BarrierOpened'
  <2>1. \A c \in Clients : \A i \in 1..NumThreads : Added(c, i)' <=> Added(c, i)
    BY <1>1, <1>2, AddedStill
  <2>2. \A c \in Clients : \A j \in BarrierOf(c) : j \notin Jobs
    BY BarrierNotJob
  <2> QED
    BY <1>1, <1>3, <2>1, <2>2, OpenedStill DEF OwedInv
<1> QED
  BY <1>4, <1>5, <1>6 DEF OwedInv

\* Taking a job: a barrier job at the head of the ring has nothing owed behind
\* it.
LEMMA FetchOwed ==
  ASSUME QueueInv, OwedInv, NEW w \in Workers, FetchJob(w)
  PROVE  OwedInv'
<1> DEFINE j == jobs[read_idx]
<1>0. TypeOK /\ TypeInv
  BY DEF QueueInv, TypeInv
<1>1. UNCHANGED <<signalled, cjob, ci, barrier, owed>>
  BY DEF FetchJob
<1>2. \A c \in Clients : cpc'[c] = cpc[c] \/ (cpc[c] = "space" /\ cpc'[c] = "put")
  BY <1>0 DEF FetchJob, SignalSpace, TypeOK
<1>3. UNCHANGED <<Adding, Holding, FinAdd, FinWait, Finishing>>
  BY <1>1, <1>2 DEF Adding, Holding, FinAdd, FinWait, Finishing
<1>4. fifo # <<>> /\ fifo' = Tail(fifo) /\ Head(fifo) = j
  <2>1. Pool!Take
    BY TakeStep
  <2>2. num_queued \in 1..max_jobs /\ max_jobs \in Nat \ {0} /\ read_idx \in 0..max_jobs-1
    BY <1>0 DEF FetchJob, TypeOK
  <2>3. 1 \in 1..num_queued /\ Slot(read_idx, 1, max_jobs) = read_idx
    BY <2>2 DEF Slot
  <2>4. fifo[1] = j /\ fifo \in Seq(AllJobs \cup {NoJob})
    BY <1>0, <2>3, QueuedIs DEF IsFifo
  <2> QED
    BY <2>1, <2>4 DEF Pool!Take
<1>5. PICK S : fifo \in Seq(S) /\ S = AllJobs \cup {NoJob}
  BY <1>0, QueuedIs DEF IsFifo
<1>6. /\ 1 \in DOMAIN fifo /\ fifo[1] = j
      /\ \A k \in DOMAIN fifo' : k \in Nat /\ k + 1 \in DOMAIN fifo /\ fifo'[k] = fifo[k + 1] /\ k + 1 > 1
  BY <1>4, <1>5
<1>7. /\ Active' = IF j = NoJob THEN Active ELSE Active \cup {w}
      /\ w \notin Active /\ wjob'[w] = j /\ \A v \in Active : wjob'[v] = wjob[v]
      /\ \A v \in Workers : /\ wpc'[v] = "barrier" <=> wpc[v] = "barrier"
                            /\ wpc[v] = "barrier" => wjob'[v] = wjob[v]
                            /\ wpc'[v] = "signal" => wpc[v] = "signal" /\ wjob'[v] = wjob[v]
  BY <1>0 DEF FetchJob, ToWorker, Active, TypeOK
<1> HIDE DEF j
<1>8. OwedPending'
  BY <1>1, <1>3 DEF OwedInv, OwedPending
<1>9. OwedAhead'
  <2> SUFFICES ASSUME NEW c \in Clients, NEW k \in DOMAIN fifo', NEW l \in DOMAIN fifo',
                      fifo'[k] \in owed[c], fifo'[l] \in BarrierOf(c)
               PROVE  k < l
    BY <1>1 DEF OwedAhead, BarrierOf
  <2>1. k + 1 < l + 1
    BY <1>6 DEF OwedInv, OwedAhead
  <2> QED
    BY <1>6, <2>1
<1>10. OwedTaken'
  <2> SUFFICES ASSUME NEW c \in Clients, NEW v \in Active', wjob'[v] \in BarrierOf(c),
                      NEW k \in DOMAIN fifo', fifo'[k] \in owed[c]
               PROVE  FALSE
    BY <1>1 DEF OwedTaken, BarrierOf
  <2>1. k + 1 \in DOMAIN fifo /\ fifo[k + 1] \in owed[c]
    BY <1>6
  <2>2. CASE v \in Active
    BY <1>7, <2>1, <2>2 DEF OwedInv, OwedTaken
  <2>3. CASE v \notin Active
    <3>1. fifo[1] \in BarrierOf(c)
      BY <1>6, <1>7, <2>3
    <3>2. k + 1 < 1
      BY <1>6, <2>1, <3>1 DEF OwedInv, OwedAhead
    <3> QED
      BY <1>6, <3>2
  <2> QED
    BY <2>2, <2>3
<1>11. BarrierCounts'
  BY <1>1, <1>3, <1>7, CountsStill DEF OwedInv
<1>12. BarrierOpened'
  <2>1. \A c \in Clients : \A i \in 1..NumThreads : Added(c, i)' <=> Added(c, i)
    BY <1>1, <1>3, AddedStill
  <2> QED
    BY <1>1, <1>7, <2>1, OpenedStill DEF OwedInv
<1> QED
  BY <1>8, <1>9, <1>10, <1>11, <1>12 DEF OwedInv

\* Signalling the fence of a job takes it off every list.
LEMMA SignalOwed ==
  ASSUME QueueInv, OwedInv, NEW w \in Workers, SignalFence(w)
  PROVE  OwedInv'
<1> DEFINE j == wjob[w]
<1>0. TypeOK /\ TypeInv /\ FenceInv
  BY DEF QueueInv, TypeInv
<1>1. /\ UNCHANGED <<ring, cpc, cjob, ci, barrier>>
      /\ \A c \in Clients : owed'[c] = owed[c] \ {j}
  BY DEF SignalFence, clients
<1>2. /\ w \in Active /\ wpc[w] = "signal"
      /\ j \in AllJobs
  BY <1>0 DEF SignalFence, Active, FenceInv, OwnedUnsignalled
<1>3. /\ signalled'[j] /\ \A k \in AllJobs : k # j => signalled'[k] = signalled[k]
  BY <1>0, <1>2 DEF SignalFence, TypeOK
<1>4. /\ UNCHANGED <<Adding, Holding, FinAdd, FinWait, Finishing>>
      /\ fifo' = fifo
  BY <1>1, StillQueued DEF Adding, Holding, FinAdd, FinWait, Finishing
<1>5. /\ Active' \subseteq Active /\ \A v \in Active' : wjob'[v] = wjob[v]
      /\ \A v \in Workers : /\ wpc'[v] = "barrier" <=> wpc[v] = "barrier"
                            /\ wpc[v] = "barrier" => wjob'[v] = wjob[v]
                            /\ wpc'[v] = "signal" => wpc[v] = "signal" /\ wjob'[v] = wjob[v]
  BY <1>0 DEF SignalFence, ToWorker, Active, TypeOK
<1>6. \A c \in Clients : j \in BarrierOf(c) => owed[c] = {}
  BY <1>2 DEF OwedInv, BarrierOpened
<1> HIDE DEF j
<1>7. OwedPending'
  <2>1. \A c \in Clients : \A k \in owed'[c] : k \in owed[c] /\ k # j /\ k \in AllJobs
    BY <1>1, JobKinds DEF OwedInv, OwedPending
  <2> QED
    BY <1>1, <1>3, <1>4, <2>1 DEF OwedInv, OwedPending
<1>8. OwedAhead'
  BY <1>1, <1>4 DEF OwedInv, OwedAhead, BarrierOf
<1>9. OwedTaken'
  BY <1>1, <1>4, <1>5 DEF OwedInv, OwedTaken, BarrierOf
<1>10. BarrierCounts'
  BY <1>1, <1>4, <1>5, CountsStill DEF OwedInv
<1>11. BarrierOpened'
  <2>1. \A c \in Clients : \A i \in 1..NumThreads : Added(c, i)' <=> Added(c, i)
    BY <1>1, <1>4, AddedStill
  <2>2. \A c \in Clients : owed'[c] \subseteq owed[c]
    BY <1>1
  <2>3. \A c \in Clients : \A i \in 1..NumThreads :
          signalled'[<<c, i>>] => owed'[c] = {} \/ signalled[<<c, i>>]
    <3> SUFFICES ASSUME NEW c \in Clients, NEW i \in 1..NumThreads, signalled'[<<c, i>>]
                 PROVE  owed'[c] = {} \/ signalled[<<c, i>>]
      OBVIOUS
    <3>1. <<c, i>> \in BarrierOf(c) /\ <<c, i>> \in AllJobs
      BY JobKinds DEF BarrierOf
    <3>2. CASE <<c, i>> = j
      BY <1>6, <2>2, <3>1, <3>2
    <3>3. CASE <<c, i>> # j
      BY <1>3, <3>1, <3>3
    <3> QED
      BY <3>2, <3>3
  <2> QED
    BY <1>5, <2>1, <2>2, <2>3, OpenedStill DEF OwedInv
<1> QED
  BY <1>7, <1>8, <1>9, <1>10, <1>11 DEF OwedInv

\* Setting the waiters of one barrier changes nothing else.
LEMMA BarrierFields ==
  ASSUME NEW C, NEW N \in Nat, NEW c \in C, NEW k \in 0..N,
         NEW b \in [C -> [count : 0..N, waiters : 0..N]],
         NEW e, e = [b EXCEPT ![c].waiters = k]
  PROVE  /\ e[c].waiters = k
         /\ \A d \in C : e[d].count = b[d].count
         /\ \A d \in C \ {c} : e[d].waiters = b[d].waiters
<1>1. b[c] \in [count : 0..N, waiters : 0..N]
  OBVIOUS
<1>2. PICK f : f = [b[c] EXCEPT !.waiters = k]
  OBVIOUS
<1>3. f.waiters = k /\ f.count = b[c].count
  BY <1>1, <1>2
<1>4. e = [b EXCEPT ![c] = f]
  BY <1>2
<1>5. e[c] = f /\ \A d \in C \ {c} : e[d] = b[d]
  BY <1>4
<1> QED
  BY <1>3, <1>5

\* Arriving at the barrier. The last worker to arrive finds all the others
\* there: no worker has another job, and nothing that is owed is left in the
\* ring.
LEMMA BarrierOwed ==
  ASSUME QueueInv, OwedInv, NEW w \in Workers, BarrierWait(w)
  PROVE  OwedInv'
<1>0. TypeOK /\ TypeInv /\ FenceInv /\ BarrierCounts /\ BarrierOpened
  BY DEF QueueInv, TypeInv, OwedInv
<1>1. /\ UNCHANGED <<ring, signalled, wjob, cpc, cjob, ci, owed>>
      /\ wpc[w] = "exec" /\ wjob[w] \in BarrierJobs
  BY DEF BarrierWait, clients
<1>2. /\ UNCHANGED <<Adding, Holding, FinAdd, FinWait, Finishing>>
      /\ fifo' = fifo
  BY <1>1, StillQueued DEF Adding, Holding, FinAdd, FinWait, Finishing
<1>3. PICK c \in Clients, i \in 1..NumThreads : wjob[w] = <<c, i>>
  BY <1>1 DEF BarrierJobs
<1>4. wjob[w][1] = c /\ wjob[w] \in BarrierOf(c) /\ w \in Active
  BY <1>1, <1>3 DEF BarrierOf, Active
<1>5. barrier[c].count = NumThreads
  <2>1. ~signalled[<<c, i>>]
    BY <1>0, <1>3, <1>4 DEF FenceInv, OwnedUnsignalled
  <2>2. c \in Finishing
    BY <1>0, <2>1 DEF FenceInv, BarrierFences, Finishing, FinAdd, FinWait
  <2> QED
    BY <1>0, <2>2 DEF BarrierCounts
<1>6. /\ IsFiniteSet(Waiting(c)) /\ w \notin Waiting(c) /\ Waiting(c) \cup {w} \subseteq Workers
      /\ Cardinality(Waiting(c)) \in Nat
      /\ Cardinality(Waiting(c) \cup {w}) = Cardinality(Waiting(c)) + 1
  <2>1. Waiting(c) \in SUBSET Workers /\ w \notin Waiting(c)
    BY <1>1 DEF Waiting
  <2>2. IsFiniteSet(Waiting(c))
    BY <2>1, FS_Subset, UtilQueueAssumption
  <2> QED
    BY <2>1, <2>2, FS_AddElement, FS_CardinalityType
<1>7. barrier \in [Clients -> [count : 0..NumThreads, waiters : 0..NumThreads]]
  BY <1>0 DEF TypeOK
<1>8. barrier[c].waiters = Cardinality(Waiting(c)) /\ NumThreads \in Nat \ {0}
  BY <1>0, NumThreadsType DEF BarrierCounts
<1>9. \A d \in Clients : \A k \in 1..NumThreads : Added(d, k)' <=> Added(d, k)
  BY <1>1, <1>2, AddedStill
<1>10. wpc \in [Workers -> WorkerPCs]
  BY <1>0 DEF TypeOK
<1>11. CASE barrier[c].waiters + 1 < NumThreads
  <2>1. /\ barrier' = [barrier EXCEPT ![c].waiters = barrier[c].waiters + 1]
        /\ wpc' = [wpc EXCEPT ![w] = "barrier"]
    BY <1>4, <1>5, <1>11 DEF BarrierWait, ToWorker
  <2>2. PICK n \in 0..NumThreads : n = barrier[c].waiters + 1
    BY <1>6, <1>8, <1>11
  <2>3. /\ barrier'[c].waiters = n
        /\ \A d \in Clients : barrier'[d].count = barrier[d].count
        /\ \A d \in Clients \ {c} : barrier'[d].waiters = barrier[d].waiters
    BY <1>7, <1>8, <2>1, <2>2, BarrierFields
  <2>4. wpc'[w] = "barrier" /\ \A v \in Workers \ {w} : wpc'[v] = wpc[v]
    BY <1>10, <2>1
  <2>5. Active' = Active
    BY <1>4, <2>4 DEF Active
  <2>6. OwedPending' /\ OwedAhead' /\ OwedTaken'
    BY <1>1, <1>2, <2>5, OwedStill
  <2>7. BarrierCounts'
    <3>1. \A v \in Workers : wpc'[v] = "barrier" => wjob'[v] \in BarrierJobs
      BY <1>0, <1>1, <2>4 DEF BarrierCounts
    <3>2. Waiting(c)' = Waiting(c) \cup {w}
      BY <1>1, <1>4, <2>4 DEF Waiting, BarrierOf
    <3>3. \A d \in Clients \ {c} : Waiting(d)' = Waiting(d)
      BY <1>1, <1>3, <2>4 DEF Waiting, BarrierOf
    <3>4. \A d \in Clients : barrier'[d].waiters = Cardinality(Waiting(d)')
      BY <1>0, <1>6, <1>8, <2>2, <2>3, <3>2, <3>3 DEF BarrierCounts
    <3>5. \A d \in Finishing' : barrier'[d].count = NumThreads
      BY <1>0, <1>2, <2>3 DEF BarrierCounts, Finishing
    <3> QED
      BY <3>1, <3>4, <3>5 DEF BarrierCounts
  <2>8. BarrierOpened'
    BY <1>0, <1>1, <1>9, <2>4, OpenedStill
  <2> QED
    BY <2>6, <2>7, <2>8 DEF OwedInv
<1>12. CASE ~(barrier[c].waiters + 1 < NumThreads)
  <2>1. /\ barrier' = [barrier EXCEPT ![c].waiters = 0]
        /\ wpc' = [x \in Workers |-> IF x = w \/ (wpc[x] = "barrier" /\ wjob[x][1] = c)
                                     THEN "signal" ELSE wpc[x]]
    BY <1>4, <1>5, <1>12 DEF BarrierWait
  <2>2. /\ barrier'[c].waiters = 0
        /\ \A d \in Clients : barrier'[d].count = barrier[d].count
        /\ \A d \in Clients \ {c} : barrier'[d].waiters = barrier[d].waiters
    <3>1. 0 \in 0..NumThreads
      BY <1>8
    <3> QED
      BY <1>7, <1>8, <2>1, <3>1, BarrierFields
  <2>3. Waiting(c) \cup {w} = Workers
    <3>1. PICK T \in SUBSET Workers : T = Waiting(c) \cup {w}
      BY <1>6
    <3>2. Cardinality(T) <= Cardinality(Workers) /\ (Cardinality(Workers) = Cardinality(T) => Workers = T)
      BY FS_Subset, UtilQueueAssumption
    <3>3. Cardinality(Workers) \in Nat /\ Cardinality(T) >= Cardinality(Workers) /\ Cardinality(T) \in Nat
      BY <1>6, <1>8, <1>12, <3>1 DEF NumThreads
    <3> QED
      BY <3>1, <3>2, <3>3
  <2>4. \A v \in Workers : wjob[v] \in BarrierOf(c) /\ v \in Active
    BY <1>4, <2>3 DEF Waiting, Active
  <2>5. owed[c] = {}
    <3> SUFFICES ASSUME NEW j \in owed[c] PROVE FALSE
      OBVIOUS
    <3>1. j \in Jobs /\ ~signalled[j] /\ (\A d \in Holding : cjob[d] # j) /\ j \in AllJobs
      BY JobKinds DEF OwedInv, OwedPending
    <3>2. j # NoJob
      BY <3>1, UtilQueueAssumption
    <3>3. CASE \E v \in Active : wjob[v] = j
      BY <2>4, <3>1, <3>3, BarrierNotJob, ClientSets
    <3>4. CASE \E k \in Slots : jobs[k] = j
      <4>1. \E k \in DOMAIN fifo : fifo[k] = j
        BY <3>2, <3>4, RingHas
      <4> QED
        BY <1>4, <4>1 DEF OwedInv, OwedTaken
    <3> QED
      BY <1>0, <3>1, <3>3, <3>4 DEF FenceInv, UnsignalledOwned
  <2>6. \A v \in Workers : wpc'[v] = "signal"
    BY <1>4, <2>1, <2>3, <2>4, BarrierNotJob DEF Waiting
  <2>7. Active' = Active
    BY <2>4, <2>6, ClientSets DEF Active
  <2>8. OwedPending' /\ OwedAhead' /\ OwedTaken'
    BY <1>1, <1>2, <2>7, OwedStill
  <2>9. BarrierCounts'
    <3>1. \A d \in Clients : Waiting(d)' = {}
      BY <2>6 DEF Waiting
    <3>2. \A d \in Clients \ {c} : Waiting(d) = {}
      BY <2>4, BarrierNotJob DEF Waiting
    <3>3. \A d \in Clients : barrier'[d].waiters = Cardinality(Waiting(d)')
      BY <1>0, <2>2, <3>1, <3>2, FS_EmptySet DEF BarrierCounts
    <3>4. \A d \in Finishing' : barrier'[d].count = NumThreads
      BY <1>0, <1>2, <2>2 DEF BarrierCounts, Finishing
    <3> QED
      BY <2>6, <3>3, <3>4 DEF BarrierCounts
  <2>10. BarrierOpened'
    <3>1. \A d \in Clients \ {c} : \A v \in Workers : wjob'[v] \notin BarrierOf(d)
      BY <1>1, <2>4, BarrierNotJob
    <3> QED
      BY <1>0, <1>1, <1>9, <2>5, <3>1, OpenedStill
  <2> QED
    BY <2>8, <2>9, <2>10 DEF OwedInv
<1> QED
  BY <1>11, <1>12

\* Queueing a job behind the others: a barrier job is behind all that is owed,
\* and no client's job that is queued now is owed.
LEMMA PutOwed ==
  ASSUME QueueInv, OwedInv, NEW c \in Adding, NEW slots, NEW r, NEW wr, NEW m,
         Put(c, slots, r, wr, m), fifo' = Append(fifo, cjob[c]),
         UNCHANGED <<wjob, cjob, ci, barrier, owed>>,
         ~signalled'[cjob[c]],
         \A j \in AllJobs : j # cjob[c] => signalled'[j] = signalled[j],
         \A d \in Clients : cjob[c] \notin owed[d]
  PROVE  OwedInv'
<1>0. TypeOK /\ TypeInv /\ FenceInv /\ BarrierCounts /\ BarrierOpened /\ c \in Clients
  BY ClientSets DEF QueueInv, TypeInv, OwedInv
<1>1. /\ Active' = Active /\ FinWait' = FinWait
      /\ Adding' = Adding \ {c} /\ Holding' = Holding \ {c}
      /\ FinAdd' = IF cjob[c] \in Jobs THEN FinAdd ELSE FinAdd \cup {c}
  BY <1>0, PutClients
<1>2. \A w \in Workers : wpc'[w] = wpc[w] \/ (wpc[w] = "waitq" /\ wpc'[w] = "fetch")
  BY <1>0 DEF Put, SignalQueued, TypeOK
<1>3. PICK S : fifo \in Seq(S) /\ cjob[c] \in S
  <2>1. fifo \in Seq(AllJobs \cup {NoJob}) /\ cjob[c] \in AllJobs \cup {NoJob}
    BY <1>0, QueuedIs DEF IsFifo, TypeOK
  <2> QED
    BY <2>1
<1>4. PICK x : x = cjob[c]
  OBVIOUS
<1>5. PICK n \in Nat : n = Len(fifo) /\ DOMAIN fifo = 1..n /\ DOMAIN fifo' = 1..(n + 1)
                       /\ fifo'[n + 1] = x /\ \A k \in 1..n : fifo'[k] = fifo[k]
  BY <1>3, <1>4
<1>6. \A k \in DOMAIN fifo' : \/ k \in DOMAIN fifo /\ fifo'[k] = fifo[k]
                              \/ k = n + 1 /\ fifo'[k] = x
  <2>1. \A k \in 1..(n + 1) : k \in 1..n \/ k = n + 1
    OBVIOUS
  <2> QED
    BY <1>5, <2>1
<1>7. OwedPending'
  <2>1. \A d \in Clients : \A j \in owed'[d] : j \in owed[d] /\ j # cjob[c] /\ j \in AllJobs
    BY JobKinds DEF OwedInv, OwedPending
  <2> QED
    BY <1>1, <2>1 DEF OwedInv, OwedPending
<1>8. OwedAhead'
  <2> SUFFICES ASSUME NEW d \in Clients, NEW k \in DOMAIN fifo', NEW l \in DOMAIN fifo',
                      fifo'[k] \in owed[d], fifo'[l] \in BarrierOf(d)
               PROVE  k < l
    BY DEF OwedAhead, BarrierOf
  <2>1. k \in DOMAIN fifo /\ fifo[k] \in owed[d]
    BY <1>4, <1>6
  <2>2. CASE l = n + 1
    BY <1>5, <2>1, <2>2
  <2>3. CASE l # n + 1
    <3>1. l \in DOMAIN fifo /\ fifo[l] \in BarrierOf(d)
      BY <1>6, <2>3
    <3> QED
      BY <2>1, <3>1 DEF OwedInv, OwedAhead
  <2> QED
    BY <2>2, <2>3
<1>9. OwedTaken'
  <2> SUFFICES ASSUME NEW d \in Clients, NEW v \in Active, wjob[v] \in BarrierOf(d),
                      NEW k \in DOMAIN fifo', fifo'[k] \in owed[d]
               PROVE  FALSE
    BY <1>1 DEF OwedTaken, BarrierOf
  <2>1. k \in DOMAIN fifo /\ fifo[k] \in owed[d]
    BY <1>4, <1>6
  <2> QED
    BY <2>1 DEF OwedInv, OwedTaken
<1>10. BarrierCounts'
  <2>1. cpc' = [cpc EXCEPT ![c] = IF cjob[c] \in Jobs THEN "idle" ELSE "finadd"]
    BY DEF Put, ToClient
  <2>2. \A d \in Clients : IF d = c THEN cpc'[d] = IF cjob[c] \in Jobs THEN "idle" ELSE "finadd"
                                    ELSE cpc'[d] = cpc[d]
    BY <1>0, <2>1 DEF TypeOK
  <2>3. Finishing' \subseteq Finishing
    BY <1>1, <2>2 DEF Finishing
  <2> QED
    BY <1>0, <1>2, <2>3, CountsStill
<1>11. BarrierOpened'
  <2>1. \A d \in Clients : \A i \in 1..NumThreads :
          Added(d, i)' /\ signalled'[<<d, i>>] => Added(d, i) /\ signalled[<<d, i>>]
    <3> SUFFICES ASSUME NEW d \in Clients, NEW i \in 1..NumThreads,
                        Added(d, i)', signalled'[<<d, i>>]
                 PROVE  Added(d, i) /\ signalled[<<d, i>>]
      OBVIOUS
    <3>1. <<d, i>> \in AllJobs /\ <<d, i>> # cjob[c]
      BY JobKinds
    <3>2. signalled[<<d, i>>]
      BY <3>1
    <3>3. CASE d = c
      <4>1. c \notin FinAdd /\ c \notin FinWait /\ c \notin Adding'
        BY <1>1, ClientSets
      <4>2. c \in FinAdd' /\ i <= ci[c] /\ cjob[c] \notin Jobs
        BY <1>1, <3>3, <4>1 DEF Added
      <4>3. cjob[c] = <<c, ci[c]>>
        BY <1>0, <4>2 DEF FenceInv, ClientJobs
      <4>4. ci[c] \in Int /\ i # ci[c]
        BY <1>0, <3>1, <3>3, <4>3, NumThreadsType DEF TypeOK
      <4>5. i < ci[c]
        BY <4>2, <4>4
      <4> QED
        BY <3>2, <3>3, <4>2, <4>5 DEF Added
    <3>4. CASE d # c
      BY <1>1, <3>2, <3>4 DEF Added
    <3> QED
      BY <3>3, <3>4
  <2> QED
    BY <1>0, <1>2, <2>1, OpenedStill
<1> QED
  BY <1>7, <1>8, <1>9, <1>10, <1>11 DEF OwedInv

\* A producer that goes to sleep, or wakes, keeps its job.
LEMMA SpaceOwed ==
  ASSUME QueueInv, OwedInv, NEW c \in Adding, NEW l \in {"space", "put"}, ToClient(c, l),
         UNCHANGED <<ring, wpc, wjob, cjob, ci, barrier, owed>>,
         ~signalled'[cjob[c]],
         \A j \in AllJobs : j # cjob[c] => signalled'[j] = signalled[j],
         \A d \in Clients : cjob[c] \notin owed[d]
  PROVE  OwedInv'
<1>0. TypeOK /\ TypeInv /\ FenceInv /\ BarrierCounts /\ BarrierOpened /\ c \in Clients
  BY ClientSets DEF QueueInv, TypeInv, OwedInv
<1>1. cpc'[c] = l /\ \A d \in Clients \ {c} : cpc'[d] = cpc[d]
  BY <1>0 DEF ToClient, TypeOK
<1>2. /\ UNCHANGED <<Active, Adding, FinAdd, FinWait>>
      /\ Holding' = Holding \cup {c} /\ fifo' = fifo
  BY <1>1, StillQueued DEF Active, Adding, FinAdd, FinWait, Holding
<1>3. Finishing' \subseteq Finishing
  BY <1>1, <1>2 DEF Finishing
<1>4. OwedPending'
  <2>1. \A d \in Clients : \A j \in owed'[d] : j \in owed[d] /\ j # cjob[c] /\ j \in AllJobs
    BY JobKinds DEF OwedInv, OwedPending
  <2> QED
    BY <1>2, <2>1 DEF OwedInv, OwedPending
<1>5. OwedAhead' /\ OwedTaken'
  BY <1>2 DEF OwedInv, OwedAhead, OwedTaken, BarrierOf
<1>6. BarrierCounts'
  BY <1>0, <1>3, CountsStill
<1>7. BarrierOpened'
  <2>1. \A d \in Clients : \A i \in 1..NumThreads : Added(d, i)' <=> Added(d, i)
    BY <1>2, AddedStill
  <2>2. \A d \in Clients : \A i \in 1..NumThreads : signalled'[<<d, i>>] => signalled[<<d, i>>]
    BY JobKinds
  <2> QED
    BY <1>0, <2>1, <2>2, OpenedStill
<1> QED
  BY <1>4, <1>5, <1>6, <1>7 DEF OwedInv

\* util_queue_add_job.
LEMMA AddOwed ==
  ASSUME QueueInv, OwedInv, NEW c \in Clients,
         AddJob(c) \/ AddWoken(c) \/ SpuriousSpace(c)
  PROVE  OwedInv'
<1>0. TypeOK /\ TypeInv /\ FenceInv
  BY DEF QueueInv, TypeInv
<1>1. c \in Adding /\ (AddJob(c) => c \in Begin) /\ (c \in Begin \/ c \in Holding)
      /\ (~AddJob(c) => c \in Holding)
  BY DEF AddJob, AddWoken, SpuriousSpace, Adding, Begin, Holding
<1>2. cjob[c] \in AllJobs
  BY <1>0, <1>1, JobTypes, ClientSets
<1>3. \A d \in Clients : cjob[c] \notin owed[d]
  BY <1>0, <1>1 DEF FenceInv, OwnedUnsignalled, OwedInv, OwedPending
<1>4. UNCHANGED <<wjob, cjob, ci, barrier, owed>>
  BY DEF AddJob, AddWoken, SpuriousSpace, workers
<1>5. /\ ~signalled'[cjob[c]]
      /\ \A j \in AllJobs : j # cjob[c] => signalled'[j] = signalled[j]
  <2>1. CASE AddJob(c)
    BY <1>0, <1>2, <2>1 DEF AddJob, TypeOK
  <2>2. CASE ~AddJob(c)
    <3>1. signalled' = signalled
      BY <2>2 DEF AddWoken, SpuriousSpace
    <3> QED
      BY <1>0, <1>1, <2>2, <3>1 DEF FenceInv, OwnedUnsignalled
  <2> QED
    BY <2>1, <2>2
<1>6. CASE num_queued # max_jobs /\ Put(c, jobs, read_idx, write_idx, max_jobs)
  BY <1>1, <1>2, <1>3, <1>4, <1>5, <1>6, PutQueued, PutOwed
<1>7. CASE num_queued = max_jobs /\ Put(c, Grown, 0, NumCopied, max_jobs + GrowBy)
  BY <1>1, <1>2, <1>3, <1>4, <1>5, <1>7, GrowQueued, PutOwed
<1>8. ASSUME NEW l \in {"space", "put"}, ToClient(c, l), UNCHANGED <<ring, wpc>>
      PROVE  OwedInv'
  BY <1>1, <1>3, <1>4, <1>5, <1>8, SpaceOwed
<1> QED
  BY <1>6, <1>7, <1>8 DEF AddJob, AddWoken, SpuriousSpace, workers

\* An entry of the ring is in one of its slots.
LEMMA ModSlot ==
  ASSUME NEW m \in Nat \ {0}, NEW r \in 0..m-1, NEW n \in 0..m, NEW k \in 1..n
  PROVE  (r + k - 1) % m \in 0..m-1
<1>1. PICK i \in 0..m-1 : i = k - 1
  OBVIOUS
<1>2. (r + i) % m \in 0..m-1 /\ r + i = r + k - 1
  BY <1>1, Rotate
<1> QED
  BY <1>2

\* util_queue_drop_job: a job that is removed is no longer owed.
LEMMA DropOwed ==
  ASSUME QueueInv, OwedInv, NEW c \in Clients, DropJob(c)
  PROVE  OwedInv'
<1>0. TypeOK /\ TypeInv /\ FenceInv /\ BarrierCounts /\ BarrierOpened
  BY DEF QueueInv, TypeInv, OwedInv
<1>1. /\ UNCHANGED <<signalled, wpc, wjob, cjob, ci, barrier>>
      /\ cpc[c] = "drop"
      /\ UNCHANGED <<read_idx, num_queued, max_jobs>>
  BY DEF DropJob, workers
<1>2. PICK l \in {"dropsig", "dropwait"} : cpc' = [cpc EXCEPT ![c] = l]
  BY DEF DropJob, ToClient
<1>3. cpc'[c] = l /\ \A d \in Clients \ {c} : cpc'[d] = cpc[d]
  BY <1>0, <1>2 DEF TypeOK
<1>4. /\ UNCHANGED <<Active, Adding, FinAdd, FinWait>>
      /\ Holding' = IF l = "dropsig" THEN Holding \cup {c} ELSE Holding
  BY <1>1, <1>3 DEF Active, Adding, FinAdd, FinWait, Holding
<1>5. Finishing' \subseteq Finishing
  BY <1>1, <1>3, <1>4 DEF Finishing
<1>6. BarrierCounts'
  BY <1>0, <1>1, <1>5, CountsStill
<1>7. ASSUME \A d \in Clients : owed'[d] \subseteq owed[d] PROVE BarrierOpened'
  <2>1. \A d \in Clients : \A i \in 1..NumThreads : Added(d, i)' <=> Added(d, i)
    BY <1>1, <1>4, AddedStill
  <2> QED
    BY <1>0, <1>1, <1>7, <2>1, OpenedStill
<1>8. CASE l = "dropwait" /\ UNCHANGED <<jobs, owed>>
  <2>1. fifo' = fifo
    BY <1>1, <1>8, PoolState
  <2>2. OwedPending' /\ OwedAhead' /\ OwedTaken'
    BY <1>1, <1>4, <1>8, <2>1, OwedStill
  <2> QED
    BY <1>6, <1>7, <1>8, <2>2 DEF OwedInv
<1>9. CASE /\ l = "dropsig" /\ owed' = [d \in Clients |-> owed[d] \ {cjob[c]}]
           /\ \E i \in Visited : jobs' = [jobs EXCEPT ![i] = NoJob]
  <2>1. \A d \in Clients : owed'[d] = owed[d] \ {cjob[c]}
    BY <1>9
  <2>2. OwedPending'
    BY <1>1, <1>4, <1>9, <2>1 DEF OwedInv, OwedPending
  <2>3. /\ DOMAIN fifo' = DOMAIN fifo
        /\ \A k \in DOMAIN fifo' : fifo'[k] = NoJob \/ fifo'[k] = fifo[k]
    <3>1. \A i \in Slots : jobs'[i] = NoJob \/ jobs'[i] = jobs[i]
      BY <1>0, <1>9 DEF TypeOK, Slots
    <3>2. DOMAIN fifo = 1..num_queued /\ DOMAIN fifo' = 1..num_queued
      BY <1>1 DEF fifo
    <3>3. \A k \in 1..num_queued : (read_idx + k - 1) % max_jobs \in Slots
      BY <1>0, ModSlot DEF TypeOK, Slots
    <3> QED
      BY <1>1, <3>1, <3>2, <3>3 DEF fifo
  <2>4. NoJob \notin AllJobs /\ \A d \in Clients : NoJob \notin owed[d] /\ NoJob \notin BarrierOf(d)
    BY UtilQueueAssumption, BarrierNotJob, JobKinds DEF OwedInv, OwedPending, AllJobs
  <2>5. OwedAhead'
    BY <2>1, <2>3, <2>4 DEF OwedInv, OwedAhead, BarrierOf
  <2>6. OwedTaken'
    BY <1>1, <1>4, <2>1, <2>3, <2>4 DEF OwedInv, OwedTaken, BarrierOf
  <2> QED
    BY <1>6, <1>7, <2>1, <2>2, <2>5, <2>6 DEF OwedInv
<1>10. l = "dropsig" <=> cpc'[c] = "dropsig"
  BY <1>3
<1> QED
  <2>1. ToClient(c, "dropsig") => cpc'[c] = "dropsig"
    BY <1>0 DEF ToClient, TypeOK
  <2>2. ToClient(c, "dropwait") => cpc'[c] = "dropwait"
    BY <1>0 DEF ToClient, TypeOK
  <2> QED
    BY <1>3, <1>8, <1>9, <1>10, <2>1, <2>2 DEF DropJob

\* The end of util_queue_drop_job.
LEMMA DropEndOwed ==
  ASSUME QueueInv, OwedInv, NEW c \in Clients, DropSignal(c) \/ DropWaited(c)
  PROVE  OwedInv'
<1>0. TypeOK /\ TypeInv /\ FenceInv /\ BarrierCounts /\ BarrierOpened
  BY DEF QueueInv, TypeInv, OwedInv
<1>1. /\ UNCHANGED <<ring, wpc, wjob, cjob, ci, barrier, owed>>
      /\ cpc[c] \in {"dropsig", "dropwait"} /\ cpc' = [cpc EXCEPT ![c] = "idle"]
  BY DEF DropSignal, DropWaited, workers, ToClient
<1>2. cpc'[c] = "idle" /\ \A d \in Clients \ {c} : cpc'[d] = cpc[d]
  BY <1>0, <1>1 DEF TypeOK
<1>3. /\ UNCHANGED <<Active, Adding, FinAdd, FinWait>> /\ fifo' = fifo
      /\ Holding' \subseteq Holding
  BY <1>1, <1>2, StillQueued DEF Active, Adding, FinAdd, FinWait, Holding
<1>4. Finishing' \subseteq Finishing
  BY <1>1, <1>2, <1>3 DEF Finishing
<1>5. c \in Busy /\ c \notin Adding /\ cjob[c] \in Jobs /\ cjob[c] \in AllJobs
  <2>1. c \in Busy /\ c \notin Adding
    BY <1>1 DEF Busy, Adding
  <2> QED
    BY <1>0, <2>1, JobKinds DEF FenceInv, ClientJobs
<1>6. \A j \in AllJobs : signalled'[j] = signalled[j] \/ (j = cjob[c] /\ DropSignal(c))
  BY <1>0, <1>5 DEF DropSignal, DropWaited, TypeOK
<1>7. OwedPending'
  <2>1. DropSignal(c) => c \in Holding
    BY DEF DropSignal, Holding
  <2>2. \A d \in Clients : \A j \in owed[d] : j \in AllJobs /\ (DropSignal(c) => j # cjob[c])
    BY <2>1, JobKinds DEF OwedInv, OwedPending
  <2> QED
    BY <1>1, <1>3, <1>6, <2>2 DEF OwedInv, OwedPending
<1>8. OwedAhead' /\ OwedTaken'
  BY <1>1, <1>3 DEF OwedInv, OwedAhead, OwedTaken, BarrierOf
<1>9. BarrierCounts'
  BY <1>0, <1>1, <1>4, CountsStill
<1>10. BarrierOpened'
  <2>1. \A d \in Clients : \A i \in 1..NumThreads : Added(d, i)' <=> Added(d, i)
    BY <1>1, <1>3, AddedStill
  <2>2. \A d \in Clients : \A i \in 1..NumThreads : signalled'[<<d, i>>] = signalled[<<d, i>>]
    BY <1>5, <1>6, JobKinds
  <2> QED
    BY <1>0, <1>1, <2>1, <2>2, OpenedStill
<1> QED
  BY <1>7, <1>8, <1>9, <1>10 DEF OwedInv

\* util_queue_finish between its calls of util_queue_add_job.
LEMMA FinishOwed ==
  ASSUME QueueInv, OwedInv, NEW c \in Clients,
         FinishLock(c) \/ FinishAdd(c) \/ FinishWait(c)
  PROVE  OwedInv'
<1>0. TypeOK /\ TypeInv /\ FenceInv /\ BarrierCounts /\ BarrierOpened
  BY DEF QueueInv, TypeInv, OwedInv
<1>1. /\ UNCHANGED <<ring, wpc, wjob, barrier, owed>>
      /\ cpc[c] \in {"finlock", "finadd", "finwait"}
  BY DEF FinishLock, FinishAdd, FinishWait, workers
<1>2. signalled' = signalled /\ fifo' = fifo
  BY FinishAddStill, ClientStill DEF Pool!vars
<1>3. /\ cpc'[c] \in {"finadd", "add", "finwait"}
      /\ \A d \in Clients \ {c} : cpc'[d] = cpc[d] /\ cjob'[d] = cjob[d] /\ ci'[d] = ci[d]
  BY <1>0, <1>1 DEF FinishLock, FinishAdd, FinishWait, ToClient, TypeOK
<1>4. UNCHANGED <<Active, Holding>> /\ c \notin Holding
  BY <1>1, <1>3 DEF Active, Holding
<1>5. OwedPending' /\ OwedAhead' /\ OwedTaken'
  <2>1. \A d \in Holding : cjob'[d] = cjob[d]
    BY <1>3, <1>4 DEF Holding
  <2> QED
    BY <1>1, <1>2, <1>4, <2>1, OwedStill
<1>6. Finishing' \subseteq Finishing
  BY <1>1, <1>3 DEF Finishing, Adding
<1>7. BarrierCounts'
  BY <1>0, <1>1, <1>6, CountsStill
<1>8. \A i \in 1..NumThreads : Added(c, i)' => Added(c, i)
  <2> SUFFICES ASSUME NEW i \in 1..NumThreads, Added(c, i)' PROVE Added(c, i)
    OBVIOUS
  <2>0. ci[c] \in 0..NumThreads /\ NumThreads \in Nat /\ num_threads = NumThreads
    BY <1>0, NumThreadsType DEF TypeOK, FenceInv
  <2>1. CASE FinishLock(c)
    <3>1. cpc'[c] = "finadd" /\ ci'[c] = 0
      BY <1>0, <2>1 DEF FinishLock, ToClient, TypeOK
    <3> QED
      BY <3>1 DEF Added, FinAdd, FinWait, Adding
  <2>2. CASE FinishAdd(c) /\ ci[c] < num_threads
    <3>1. cpc[c] = "finadd" /\ cpc'[c] = "add" /\ ci'[c] = ci[c] + 1
      BY <1>0, <2>2 DEF FinishAdd, ToClient, TypeOK
    <3>2. i < ci[c] + 1
      BY <3>1 DEF Added, FinAdd, FinWait, Adding
    <3> QED
      BY <2>0, <3>1, <3>2 DEF Added, FinAdd
  <2>3. CASE FinishAdd(c) /\ ~(ci[c] < num_threads)
    <3>1. cpc[c] = "finadd" /\ i <= ci[c]
      BY <2>0, <2>3 DEF FinishAdd
    <3> QED
      BY <3>1 DEF Added, FinAdd
  <2>4. CASE FinishWait(c)
    <3>1. cpc[c] = "finwait"
      BY <2>4 DEF FinishWait
    <3> QED
      BY <3>1 DEF Added, FinWait
  <2> QED
    BY <2>1, <2>2, <2>3, <2>4
<1>9. \A d \in Clients \ {c} : \A i \in 1..NumThreads : Added(d, i)' => Added(d, i)
  BY <1>3 DEF Added, FinAdd, FinWait, Adding
<1>10. BarrierOpened'
  BY <1>0, <1>1, <1>2, <1>8, <1>9, OpenedStill
<1> QED
  BY <1>5, <1>7, <1>10 DEF OwedInv

\* util_queue_finish returns.
LEMMA ReturnOwed ==
  ASSUME QueueInv, OwedInv, NEW c \in Clients, FinishReturn(c)
  PROVE  OwedInv'
<1>0. TypeOK /\ TypeInv /\ FenceInv /\ BarrierCounts /\ BarrierOpened
  BY DEF QueueInv, TypeInv, OwedInv
<1>1. /\ UNCHANGED <<ring, wpc, wjob, cjob, ci, barrier, signalled>>
      /\ cpc[c] = "finwait" /\ cpc' = [cpc EXCEPT ![c] = "idle"]
      /\ owed' = [owed EXCEPT ![c] = {}]
  BY DEF FinishReturn, workers, ToClient
<1>2. /\ cpc'[c] = "idle" /\ \A d \in Clients \ {c} : cpc'[d] = cpc[d]
      /\ owed'[c] = {} /\ \A d \in Clients \ {c} : owed'[d] = owed[d]
  BY <1>0, <1>1 DEF TypeOK
<1>3. /\ UNCHANGED <<Active, Holding>> /\ fifo' = fifo /\ Finishing' \subseteq Finishing
  BY <1>1, <1>2, StillQueued DEF Active, Holding, Finishing, Adding
<1>4. OwedPending'
  BY <1>1, <1>2, <1>3 DEF OwedInv, OwedPending
<1>5. OwedAhead'
  BY <1>1, <1>2, <1>3 DEF OwedInv, OwedAhead, BarrierOf
<1>6. OwedTaken'
  BY <1>1, <1>2, <1>3 DEF OwedInv, OwedTaken, BarrierOf
<1>7. BarrierCounts'
  BY <1>0, <1>1, <1>3, CountsStill
<1>8. BarrierOpened'
  <2>1. \A d \in Clients \ {c} : \A i \in 1..NumThreads : Added(d, i)' => Added(d, i)
    BY <1>1, <1>2 DEF Added, FinAdd, FinWait, Adding
  <2>2. \A d \in Clients : owed'[d] \subseteq owed[d]
    BY <1>2
  <2> QED
    BY <1>0, <1>1, <1>2, <2>1, <2>2, OpenedStill
<1> QED
  BY <1>4, <1>5, <1>6, <1>7, <1>8 DEF OwedInv

\* A client begins to add or drop a job of its own.
LEMMA BeginOwed ==
  ASSUME QueueInv, OwedInv, NEW c \in Clients, NEW j \in Jobs,
         CallAdd(c, j) \/ CallDrop(c, j)
  PROVE  OwedInv'
<1>0. TypeOK /\ TypeInv /\ FenceInv /\ BarrierCounts /\ BarrierOpened
  BY DEF QueueInv, TypeInv, OwedInv
<1>1. /\ UNCHANGED <<ring, wpc, wjob, ci, barrier, signalled, owed>>
      /\ cpc[c] = "idle"
  BY DEF CallAdd, CallDrop, workers
<1>2. /\ cpc'[c] \in {"add", "drop"} /\ cjob'[c] = j
      /\ \A d \in Clients \ {c} : cpc'[d] = cpc[d] /\ cjob'[d] = cjob[d]
  BY <1>0 DEF CallAdd, CallDrop, ToClient, TypeOK
<1>3. /\ UNCHANGED <<Active, Holding>> /\ fifo' = fifo /\ Finishing' \subseteq Finishing
      /\ \A d \in Holding : cjob'[d] = cjob[d]
  BY <1>1, <1>2, StillQueued DEF Active, Holding, Finishing, Adding
<1>4. OwedPending' /\ OwedAhead' /\ OwedTaken'
  BY <1>1, <1>3, OwedStill
<1>5. BarrierCounts'
  BY <1>0, <1>1, <1>3, CountsStill
<1>6. BarrierOpened'
  <2>1. \A d \in Clients : \A i \in 1..NumThreads : Added(d, i)' => Added(d, i)
    BY <1>1, <1>2 DEF Added, FinAdd, FinWait, Adding
  <2> QED
    BY <1>0, <1>1, <2>1, OpenedStill
<1> QED
  BY <1>4, <1>5, <1>6 DEF OwedInv

\* A client calls util_queue_finish: its barrier jobs are at rest, so the ring
\* has none of them and no worker is at its barrier.
LEMMA CallFinishOwed ==
  ASSUME QueueInv, OwedInv, NEW c \in Clients, CallFinish(c)
  PROVE  OwedInv'
<1>0. TypeOK /\ TypeInv /\ FenceInv /\ BarrierCounts /\ BarrierOpened
  BY DEF QueueInv, TypeInv, OwedInv
<1>1. /\ UNCHANGED <<ring, wpc, wjob, ci, cjob, signalled>>
      /\ cpc[c] = "idle" /\ cpc' = [cpc EXCEPT ![c] = "finlock"]
      /\ barrier' = [barrier EXCEPT ![c] = [count |-> num_threads, waiters |-> 0]]
      /\ owed' = [owed EXCEPT ![c] = Pending]
  BY DEF CallFinish, workers, ToClient
<1>2. /\ cpc'[c] = "finlock" /\ \A d \in Clients \ {c} : cpc'[d] = cpc[d]
      /\ owed'[c] = Pending
      /\ \A d \in Clients \ {c} : owed'[d] = owed[d]
      /\ \A d \in Clients \ {c} : barrier'[d] = barrier[d]
      /\ barrier'[c] = [count |-> num_threads, waiters |-> 0]
  BY <1>0, <1>1 DEF TypeOK
<1>3. UNCHANGED <<Active, Holding, Adding, FinAdd, FinWait>> /\ fifo' = fifo
      /\ c \notin Adding /\ c \notin FinAdd /\ c \notin FinWait
  BY <1>1, <1>2, StillQueued DEF Active, Holding, Adding, FinAdd, FinWait
<1>4. \A i \in 1..NumThreads : signalled[<<c, i>>]
  BY <1>0, <1>3 DEF FenceInv, BarrierFences
<1>5. \A j \in BarrierOf(c) : signalled[j] /\ j \in AllJobs /\ j # NoJob
  BY <1>4, JobKinds, UtilQueueAssumption DEF BarrierOf
<1>6. /\ \A k \in DOMAIN fifo : fifo[k] \notin BarrierOf(c)
      /\ \A w \in Active : wjob[w] \notin BarrierOf(c)
  <2>1. \A i \in Slots : jobs[i] \notin BarrierOf(c)
    BY <1>0, <1>5 DEF FenceInv, OwnedUnsignalled
  <2>2. \A w \in Active : wjob[w] \notin BarrierOf(c)
    BY <1>0, <1>5 DEF FenceInv, OwnedUnsignalled
  <2>3. \A k \in DOMAIN fifo : \E i \in Slots : fifo[k] = jobs[i]
    BY <1>0, QueuedIs DEF IsFifo, Slots
  <2> QED
    BY <2>1, <2>2, <2>3
<1>7. OwedPending'
  <2>1. \A j \in owed'[c] : j \in Jobs /\ ~signalled[j] /\ \A d \in Holding : cjob[d] # j
    BY <1>2 DEF Pending, Holding
  <2> QED
    BY <1>1, <1>2, <1>3, <2>1 DEF OwedInv, OwedPending
<1>8. OwedAhead'
  BY <1>2, <1>3, <1>6 DEF OwedInv, OwedAhead, BarrierOf
<1>9. OwedTaken'
  BY <1>1, <1>2, <1>3, <1>6 DEF OwedInv, OwedTaken, BarrierOf
<1>10. BarrierCounts'
  <2>1. \A d \in Clients : Waiting(d)' = Waiting(d)
    BY <1>1 DEF Waiting, BarrierOf
  <2>2. Waiting(c) = {}
    BY <1>6 DEF Waiting, Active
  <2>3. barrier'[c].waiters = 0 /\ barrier'[c].count = NumThreads
    BY <1>0, <1>2 DEF FenceInv
  <2>4. \A d \in Clients : barrier'[d].waiters = Cardinality(Waiting(d)')
    BY <1>0, <1>2, <2>1, <2>2, <2>3, FS_EmptySet DEF BarrierCounts
  <2>5. Finishing' \subseteq Finishing \cup {c}
    BY <1>1, <1>2, <1>3 DEF Finishing
  <2>6. \A d \in Finishing' : barrier'[d].count = NumThreads
    BY <1>0, <1>2, <2>3, <2>5 DEF BarrierCounts, Finishing
  <2> QED
    BY <1>0, <1>1, <2>4, <2>6 DEF BarrierCounts
<1>11. BarrierOpened'
  <2>1. \A i \in 1..NumThreads : ~Added(c, i)'
    BY <1>3 DEF Added
  <2>2. \A w \in Workers : wpc'[w] = "signal" => wjob'[w] \notin BarrierOf(c)
    BY <1>1, <1>6 DEF Active
  <2>3. \A d \in Clients \ {c} : \A i \in 1..NumThreads : Added(d, i)' <=> Added(d, i)
    BY <1>1, <1>3 DEF Added
  <2>4. \A d \in Clients : BarrierOf(d)' = BarrierOf(d)
    BY DEF BarrierOf
  <2> QED
    BY <1>0, <1>1, <1>2, <2>1, <2>2, <2>3, <2>4 DEF BarrierOpened
<1> QED
  BY <1>7, <1>8, <1>9, <1>10, <1>11 DEF OwedInv

\* Every step of a queue that nobody shuts down keeps the invariant.
LEMMA OwedInvInductive ==
  ASSUME "kill" \notin Calls, QueueInv, OwedInv, [Next]_vars
  PROVE  OwedInv'
<1>1. ASSUME NEW w \in Workers, WorkerStep(w) \/ SpuriousFetch(w) PROVE OwedInv'
  <2>1. ~FetchKilled(w) /\ ~SignalRemaining(w)
    BY DEF QueueInv, NotKilled, FetchKilled, SignalRemaining
  <2> QED
    BY <1>1, <2>1, WorkerOwed, FetchOwed, SignalOwed, BarrierOwed DEF WorkerStep
<1>2. ASSUME NEW c \in Clients, ClientStep(c) \/ SpuriousSpace(c) PROVE OwedInv'
  <2>1. ~AddToKilled(c) /\ ~KillAll(c) /\ ~JoinAll(c)
    BY DEF QueueInv, NotKilled, AddToKilled, KillAll, JoinAll
  <2> QED
    BY <1>2, <2>1, AddOwed, DropOwed, DropEndOwed, FinishOwed, ReturnOwed DEF ClientStep
<1>3. ASSUME NEW c \in Clients, Call(c) PROVE OwedInv'
  BY <1>3, BeginOwed, CallFinishOwed DEF Call, CallKill
<1>4. CASE UNCHANGED vars
  <2>1. /\ UNCHANGED <<ring, signalled, wpc, wjob, cpc, cjob, ci, barrier, owed>>
        /\ OwedInv
    BY <1>4 DEF vars, workers, clients
  <2>2. fifo' = fifo
    BY <2>1, StillQueued
  <2>3. UNCHANGED <<Active, Holding, Adding, FinAdd, FinWait, Finishing>>
    BY <2>1 DEF Active, Holding, Adding, FinAdd, FinWait, Finishing
  <2>4. OwedPending' /\ OwedAhead' /\ OwedTaken'
    BY <2>1, <2>2, <2>3, OwedStill
  <2>5. BarrierCounts'
    BY <2>1, <2>3, CountsStill DEF OwedInv
  <2>6. BarrierOpened'
    BY <2>1, <2>3, AddedStill, OpenedStill DEF OwedInv
  <2> QED
    BY <2>4, <2>5, <2>6 DEF OwedInv
<1> QED
  BY <1>1, <1>2, <1>3, <1>4 DEF Next

\* When util_queue_finish returns, the jobs that were pending at the call have
\* been executed and signalled, or dropped, whatever other clients add, drop or
\* finish meanwhile and in whichever order the workers take the barrier jobs:
\* the last of them to arrive has let every earlier job out of the ring, and
\* finds every worker at the barrier.
THEOREM FinishComplete ==
  ASSUME "kill" \notin Calls
  PROVE  Spec => []FinishWaitsForAll
<1>1. Init => OwedInv /\ FixedSize
  <2> SUFFICES ASSUME Init PROVE OwedInv /\ FixedSize
    OBVIOUS
  <2>1. FixedSize
    BY DEF Init, FixedSize
  <2>2. \A c \in Clients : owed[c] = {} /\ barrier[c].waiters = 0 /\ cpc[c] = "idle"
    BY DEF Init
  <2>3. \A c \in Clients : Waiting(c) = {}
    BY DEF Init, Waiting
  <2>4. OwedPending /\ OwedAhead /\ OwedTaken /\ BarrierOpened
    BY <2>2 DEF OwedPending, OwedAhead, OwedTaken, BarrierOpened
  <2>5. BarrierCounts
    BY <2>2, <2>3, FS_EmptySet DEF BarrierCounts, Finishing, Adding, Init
  <2> QED
    BY <2>1, <2>4, <2>5 DEF OwedInv
<1>2. FixedSize /\ [Next]_vars => FixedSize'
  BY FixedSizeInductive
<1>3. TypeInv /\ NotKilled /\ RingShape /\ FenceInv /\ FixedSize /\ OwedInv /\ [Next]_vars
        => OwedInv'
  BY OwedInvInductive DEF QueueInv
<1>4. TypeInv /\ FenceInv /\ OwedInv => FinishWaitsForAll
  <2> SUFFICES ASSUME TypeInv, FenceInv, OwedInv, NEW c \in Clients,
                      cpc[c] = "finwait", ci[c] >= num_threads
               PROVE  owed[c] = {}
    BY DEF FinishWaitsForAll
  <2>1. 1 \in 1..NumThreads /\ ci[c] \in Int /\ ci[c] >= 1
    BY NumThreadsType DEF FenceInv, TypeInv, TypeOK
  <2>2. c \in FinWait /\ c \notin FinAdd /\ c \notin Adding
    BY DEF FinWait, FinAdd, Adding
  <2>3. signalled[<<c, 1>>]
    BY <2>1, <2>2 DEF FenceInv, BarrierFences
  <2>4. Added(c, 1)
    BY <2>2 DEF Added
  <2> QED
    BY <2>1, <2>3, <2>4 DEF OwedInv, BarrierOpened
<1> QED
  BY <1>1, <1>2, <1>3, <1>4, FenceInvHolds, PTL DEF Spec
=============================================================================
