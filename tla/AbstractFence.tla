--------------------------- MODULE AbstractFence ---------------------------
(***************************************************************************)
(* What src/util/u_queue.h promises of a util_queue_fence, whichever of    *)
(* its two implementations is built: a flag that is reset only while       *)
(* nobody waits, signalled once per reset, and that lets a waiter go when  *)
(* it is signalled or, for a wait with a timeout, when the time is up.     *)
(***************************************************************************)
CONSTANTS
  Waiters,      \* the threads that wait on the fence
  Timed         \* those of them that call util_queue_fence_wait_timeout

VARIABLES
  signalled,
  waiting,      \* the threads inside a wait
  result        \* what the last wait of each thread returned

vars == <<signalled, waiting, result>>

Results == {"none", "true", "false"}

Init ==
  /\ signalled = TRUE
  /\ waiting = {}
  /\ result = [w \in Waiters |-> "none"]

Reset ==
  /\ signalled /\ waiting = {}
  /\ signalled' = FALSE
  /\ UNCHANGED <<waiting, result>>

Signal ==
  /\ ~signalled
  /\ signalled' = TRUE
  /\ UNCHANGED <<waiting, result>>

Begin(w) ==
  /\ w \notin waiting /\ ~signalled
  /\ waiting' = waiting \cup {w}
  /\ result' = [result EXCEPT ![w] = "none"]
  /\ UNCHANGED signalled

\* The wait is over because the fence is signalled; a wait that starts on a
\* signalled fence never blocks.
Return(w) ==
  /\ signalled
  /\ waiting' = waiting \ {w}
  /\ result' = [result EXCEPT ![w] = "true"]
  /\ UNCHANGED signalled

TimeOut(w) ==
  /\ w \in waiting \cap Timed
  /\ waiting' = waiting \ {w}
  /\ result' = [result EXCEPT ![w] = "false"]
  /\ UNCHANGED signalled

Next ==
  \/ Reset \/ Signal
  \/ \E w \in Waiters : Begin(w) \/ Return(w) \/ TimeOut(w)

Spec == Init /\ [][Next]_vars
=============================================================================
