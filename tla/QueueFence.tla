---------------------------- MODULE QueueFence ----------------------------
(***************************************************************************)
(* The futex build of util_queue_fence: util_queue_fence_reset, _signal,   *)
(* _is_signalled, _wait and _wait_timeout of src/util/u_queue.h and        *)
(* do_futex_fence_wait of src/util/u_queue.c.                              *)
(*                                                                         *)
(* One action per access to fence->val and per futex call. A waiter is     *)
(*   "out"    not waiting                                                  *)
(*   "load"   about to read fence->val, before the loop or at its end      *)
(*   "cas"    about to compare-and-swap 1 to 2                             *)
(*   "wait"   about to call futex_wait(&val, 2, timeout)                   *)
(*   "asleep" parked by the kernel on val                                  *)
(* and a signaller "out", or "wake": it has seen 2 and will call           *)
(* futex_wake. Nothing orders that call with the next use of the fence: a  *)
(* waiter can return, the fence be reset and new waiters park before it.   *)
(***************************************************************************)
EXTENDS Naturals

CONSTANTS
  Waiters,      \* the threads that wait on the fence
  Timed,        \* those of them that call util_queue_fence_wait_timeout
  Signallers    \* the threads that signal it

ASSUME FenceAssumption == Timed \subseteq Waiters

VARIABLES
  val,          \* fence->val: 0 signalled, 1 unsignalled, 2 maybe waited for
  pc, spc,      \* the waiters' and the signallers' program counters
  expired,      \* the timed waiters whose abs_timeout has passed
  result        \* history: what the last wait of each thread returned

vars == <<val, pc, spc, expired, result>>

\* util_queue_fence_init
Init ==
  /\ val = 0
  /\ pc = [w \in Waiters |-> "out"]
  /\ spc = [s \in Signallers |-> "out"]
  /\ expired = {}
  /\ result = [w \in Waiters |-> "none"]

Goto(w, l) == pc' = [pc EXCEPT ![w] = l] /\ result' = result

Returns(w, r) ==
  /\ pc' = [pc EXCEPT ![w] = "out"]
  /\ result' = [result EXCEPT ![w] = r]

-----------------------------------------------------------------------------
(* The owner of the fence *)

\* "The caller must ensure that no other thread may currently be waiting".
Reset ==
  /\ val = 0 /\ \A w \in Waiters : pc[w] = "out"
  /\ val' = 1
  /\ UNCHANGED <<pc, spc, expired, result>>

\* Faulty variant: the value 2 is overlooked.
SignalNoWake(s) ==
  /\ spc[s] = "out" /\ val # 0
  /\ val' = 0
  /\ UNCHANGED <<spc, pc, expired, result>>

\* The exchange of util_queue_fence_signal; its assertion says that the fence
\* is not signalled twice.
Signal(s) ==
  /\ spc[s] = "out" /\ val # 0
  /\ val' = 0
  /\ spc' = [spc EXCEPT ![s] = IF val = 2 THEN "wake" ELSE "out"]
  /\ UNCHANGED <<pc, expired, result>>

\* Faulty variant: futex_wake(&val, 1).
FutexWakeOne(s) ==
  /\ spc[s] = "wake"
  /\ spc' = [spc EXCEPT ![s] = "out"]
  /\ \/ \E w \in Waiters : pc[w] = "asleep" /\ pc' = [pc EXCEPT ![w] = "load"]
     \/ (\A w \in Waiters : pc[w] # "asleep") /\ UNCHANGED pc
  /\ UNCHANGED <<val, expired, result>>

\* futex_wake(&val, INT_MAX)
FutexWake(s) ==
  /\ spc[s] = "wake"
  /\ spc' = [spc EXCEPT ![s] = "out"]
  /\ pc' = [w \in Waiters |-> IF pc[w] = "asleep" THEN "load" ELSE pc[w]]
  /\ UNCHANGED <<val, expired, result>>

-----------------------------------------------------------------------------
(* A waiter *)

\* util_queue_fence_wait(_timeout): the test before the slow path.
Enter(w) ==
  /\ pc[w] = "out"
  /\ expired' = expired \ {w}
  /\ IF val = 0
     THEN Returns(w, "true")
     ELSE /\ pc' = [pc EXCEPT ![w] = "load"]
          /\ result' = [result EXCEPT ![w] = "none"]
  /\ UNCHANGED <<val, spc>>

\* v = fence->val and the loop's tests of v.
Load(w) ==
  /\ pc[w] = "load"
  /\ \/ val = 0 /\ Returns(w, "true")
     \/ val = 1 /\ Goto(w, "cas")
     \/ val = 2 /\ Goto(w, "wait")
  /\ UNCHANGED <<val, spc, expired>>

\* Faulty variant: a value of 2 is taken for a signal.
CasMisreads(w) ==
  /\ pc[w] = "cas"
  /\ \/ val # 1 /\ val' = val /\ Returns(w, "true")
     \/ val = 1 /\ val' = 2 /\ Goto(w, "wait")
  /\ UNCHANGED <<spc, expired>>

Cas(w) ==
  /\ pc[w] = "cas"
  /\ \/ val = 0 /\ val' = 0 /\ Returns(w, "true")
     \/ val # 0 /\ val' = 2 /\ Goto(w, "wait")
  /\ UNCHANGED <<spc, expired>>

\* Faulty variant: FUTEX_WAIT, whose timeout is relative to each call.
FutexWaitRelative(w) ==
  /\ pc[w] = "wait"
  /\ \/ val # 2 /\ Goto(w, "load") /\ UNCHANGED expired
     \/ val = 2 /\ Goto(w, "asleep") /\ expired' = expired \ {w}
  /\ UNCHANGED <<val, spc>>

\* The kernel compares val with 2 and parks the thread in one step. When val
\* differs the call fails, which the code ignores; when the absolute deadline
\* has passed it returns ETIMEDOUT.
FutexWait(w) ==
  /\ pc[w] = "wait"
  /\ \/ val # 2 /\ Goto(w, "load")
     \/ val = 2 /\ w \notin expired /\ Goto(w, "asleep")
     \/ val = 2 /\ w \in expired /\ Returns(w, "false")
  /\ UNCHANGED <<val, spc, expired>>

FutexTimeout(w) ==
  /\ pc[w] = "asleep" /\ w \in expired
  /\ Returns(w, "false")
  /\ UNCHANGED <<val, spc, expired>>

\* EINTR: only ETIMEDOUT ends the wait.
Interrupted(w) ==
  /\ pc[w] = "asleep"
  /\ Goto(w, "load")
  /\ UNCHANGED <<val, spc, expired>>

\* The clock passes the waiter's abs_timeout.
Expire(w) ==
  /\ pc[w] # "out" /\ w \in Timed \ expired
  /\ expired' = expired \cup {w}
  /\ UNCHANGED <<val, pc, spc, result>>

-----------------------------------------------------------------------------
WaiterStep(w) == Load(w) \/ Cas(w) \/ FutexWait(w) \/ FutexTimeout(w)

Next ==
  \/ Reset
  \/ \E s \in Signallers : Signal(s) \/ FutexWake(s)
  \/ \E w \in Waiters : Enter(w) \/ WaiterStep(w) \/ Interrupted(w) \/ Expire(w)

\* A thread inside the fence's functions keeps running, and time passes.
\* Nothing obliges anybody to reset or to signal the fence, or to wait.
Fairness ==
  /\ \A w \in Waiters : WF_vars(WaiterStep(w)) /\ WF_vars(Expire(w))
  /\ \A s \in Signallers : WF_vars(FutexWake(s))

Spec == Init /\ [][Next]_vars

FairSpec == Spec /\ Fairness

-----------------------------------------------------------------------------
(* Properties *)

\* fence->val is one of the three values u_queue.h documents.
TypeOK ==
  /\ val \in 0..2
  /\ pc \in [Waiters -> {"out", "load", "cas", "wait", "asleep"}]
  /\ spc \in [Signallers -> {"out", "wake"}]
  /\ expired \in SUBSET Timed
  /\ result \in [Waiters -> {"none", "true", "false"}]

\* No wake-up is lost: a parked waiter is either announced by the value 2, so
\* that the next util_queue_fence_signal will wake it, or that signal is on
\* its way to futex_wake.
SleepersAnnounced ==
  \A w \in Waiters :
    pc[w] = "asleep" => val = 2 \/ \E s \in Signallers : spc[s] = "wake"

\* The fence is the event that u_queue.h describes: a wait returns true only
\* on a signalled fence, and false only when it has a timeout.
Abs == INSTANCE AbstractFence
         WITH signalled <- val = 0,
              waiting <- {w \in Waiters : pc[w] # "out"}
ImplementsFence == Abs!Spec

\* util_queue_fence_signal releases everybody who waits, whatever the waiters
\* were doing when it came.
SignalReleases ==
  \A w \in Waiters : val = 0 /\ pc[w] # "out" ~> pc[w] = "out"

\* util_queue_fence_wait_timeout returns even if the fence is never signalled
\* and signals keep interrupting the system call: the deadline is absolute.
TimedWaitReturns ==
  \A w \in Timed : pc[w] # "out" ~> pc[w] = "out"
=============================================================================
