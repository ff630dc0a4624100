----------------------------- MODULE ThreadPool -----------------------------
(***************************************************************************)
(* What src/util/u_queue.h promises the users of a util_queue: jobs start  *)
(* in the order they were added, each one once; a job's fence is signalled *)
(* exactly when the job has been executed, dropped or given up at          *)
(* shutdown; the queue never holds more than Capacity jobs unless it may   *)
(* grow. A dropped job stays behind as a hole: a no-op for the thread that *)
(* gets to it.                                                             *)
(***************************************************************************)
EXTENDS Naturals, Sequences

CONSTANTS
  Jobs,         \* the jobs, each with its fence
  Capacity,     \* the most entries the queue may hold ...
  Unbounded,    \* ... unless this is TRUE
  Hole          \* the entry of a dropped job

VARIABLES
  fifo,         \* the queued entries, oldest first
  running,      \* the jobs a worker is executing
  dropped,      \* the jobs taken out of the queue, not yet signalled
  signalled     \* the fences

vars == <<fifo, running, dropped, signalled>>

Queued == {fifo[k] : k \in DOMAIN fifo} \ {Hole}

Init ==
  /\ fifo = <<>>
  /\ running = {}
  /\ dropped = {}
  /\ signalled = [j \in Jobs |-> TRUE]

HasRoom == Unbounded \/ Len(fifo) < Capacity

\* A producer has reset the fence and found the queue full.
Announce(j) ==
  /\ signalled[j]
  /\ ~HasRoom
  /\ signalled' = [signalled EXCEPT ![j] = FALSE]
  /\ UNCHANGED <<fifo, running, dropped>>

\* The job enters the queue.
Enqueue(j) ==
  /\ j \notin Queued \cup running \cup dropped
  /\ HasRoom
  /\ fifo' = Append(fifo, j)
  /\ signalled' = [signalled EXCEPT ![j] = FALSE]
  /\ UNCHANGED <<running, dropped>>

\* A worker takes the oldest entry.
Take ==
  /\ fifo # <<>>
  /\ fifo' = Tail(fifo)
  /\ running' = running \cup ({Head(fifo)} \ {Hole})
  /\ UNCHANGED <<dropped, signalled>>

\* The job has been executed: its fence is signalled.
Complete(j) ==
  /\ j \in running
  /\ running' = running \ {j}
  /\ signalled' = [signalled EXCEPT ![j] = TRUE]
  /\ UNCHANGED <<fifo, dropped>>

Drop(k) ==
  /\ fifo[k] # Hole
  /\ fifo' = [fifo EXCEPT ![k] = Hole]
  /\ dropped' = dropped \cup {fifo[k]}
  /\ UNCHANGED <<running, signalled>>

CompleteDrop(j) ==
  /\ j \in dropped
  /\ dropped' = dropped \ {j}
  /\ signalled' = [signalled EXCEPT ![j] = TRUE]
  /\ UNCHANGED <<fifo, running>>

\* The queue is shut down: what is left in it will not be executed.
GiveUp ==
  /\ fifo' = <<>>
  /\ signalled' = [j \in Jobs |-> signalled[j] \/ j \in Queued]
  /\ UNCHANGED <<running, dropped>>

Next ==
  \/ \E j \in Jobs : Announce(j) \/ Enqueue(j) \/ Complete(j) \/ CompleteDrop(j)
  \/ \E k \in DOMAIN fifo : Drop(k)
  \/ Take \/ GiveUp

Spec == Init /\ [][Next]_vars
=============================================================================
