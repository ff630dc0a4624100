--------------------------- MODULE QueueFenceStd ---------------------------
(***************************************************************************)
(* The portable build of util_queue_fence (UTIL_QUEUE_FENCE_STANDARD):     *)
(* a flag under a mutex with a condition variable, in src/util/u_queue.c.  *)
(* util_queue_fence_is_signalled reads the flag without the mutex, so      *)
(* util_queue_fence_signal is split into its statements and the fence can  *)
(* be seen signalled, and be destroyed, while the signaller is inside it.  *)
(*                                                                         *)
(* The critical section of a waiter is one action: it holds the mutex from *)
(* the lock to cnd_wait or to the unlock and only reads the flag. A waiter *)
(* is "out", in "calc" (computing ts), about to "lock" the mutex, in       *)
(* "sleep" (cnd_wait or cnd_timedwait), "late" (cnd_timedwait timed out    *)
(* and wants the mutex back), or about to "read" the flag it returns.      *)
(***************************************************************************)
EXTENDS Integers

CONSTANTS
  Waiters,      \* the threads that wait on the fence
  Timed,        \* those of them that call util_queue_fence_wait_timeout
  Signallers,   \* the threads that signal it
  MaxTime,      \* bound: the last value of the os_time_get_nano clock
  UtcOffset     \* TIME_UTC minus that clock

ASSUME FenceStdAssumption ==
  /\ Timed \subseteq Waiters
  /\ MaxTime \in Nat /\ UtcOffset \in Nat

VARIABLES
  signalled,    \* fence->signalled
  mutex,        \* the set holding the signaller that owns fence->mutex, if any
  alive,        \* the fence is initialised and not destroyed
  destroying,   \* util_queue_fence_destroy has passed its assertion
  pc, spc,      \* the waiters' and the signallers' program counters
  now,          \* os_time_get_nano
  abs_timeout,  \* the argument of each timed wait
  ts,           \* the time, on the TIME_UTC clock, given to cnd_timedwait
  result        \* history: what the last wait of each thread returned

time == <<now, abs_timeout, ts>>
fence == <<signalled, mutex, alive, destroying>>
vars == <<fence, pc, spc, time, result>>

\* util_queue_fence_init
Init ==
  /\ signalled = TRUE /\ mutex = {} /\ alive = TRUE /\ destroying = FALSE
  /\ pc = [w \in Waiters |-> "out"]
  /\ spc = [s \in Signallers |-> "out"]
  /\ now = 0
  /\ abs_timeout = [w \in Waiters |-> 0]
  /\ ts = [w \in Waiters |-> 0]
  /\ result = [w \in Waiters |-> "none"]

Goto(w, l) == pc' = [pc EXCEPT ![w] = l] /\ result' = result

Returns(w, r) ==
  /\ pc' = [pc EXCEPT ![w] = "out"]
  /\ result' = [result EXCEPT ![w] = r]

Usable == alive /\ ~destroying

NobodyWaits == \A w \in Waiters : pc[w] = "out"

-----------------------------------------------------------------------------
(* The owner of the fence *)

Reset ==
  /\ Usable /\ signalled /\ NobodyWaits
  /\ signalled' = FALSE
  /\ UNCHANGED <<mutex, alive, destroying, pc, spc, time, result>>

\* util_queue_fence_destroy: the assertion. "as soon as a fence is signalled
\* by thread A, thread B is allowed to destroy it".
Destroy ==
  /\ Usable /\ signalled /\ NobodyWaits
  /\ destroying' = TRUE
  /\ UNCHANGED <<signalled, mutex, alive, pc, spc, time, result>>

\* Faulty variant: the mutex is destroyed without being taken once.
DestroyAtOnce ==
  /\ destroying
  /\ alive' = FALSE /\ destroying' = FALSE
  /\ UNCHANGED <<signalled, mutex, pc, spc, time, result>>

\* Lock and unlock the mutex once, then destroy it.
DestroyHandshake ==
  /\ destroying /\ mutex = {}
  /\ alive' = FALSE /\ destroying' = FALSE
  /\ UNCHANGED <<signalled, mutex, pc, spc, time, result>>

\* The memory becomes a new fence.
InitAgain ==
  /\ ~alive
  /\ alive' = TRUE /\ signalled' = TRUE
  /\ UNCHANGED <<mutex, destroying, pc, spc, time, result>>

-----------------------------------------------------------------------------
(* util_queue_fence_signal, by the one thread that completes the job *)

SignalLock(s) ==
  /\ alive /\ ~signalled /\ mutex = {}
  /\ mutex' = {s}
  /\ spc' = [spc EXCEPT ![s] = "set"]
  /\ UNCHANGED <<signalled, alive, destroying, pc, time, result>>

SignalSet(s) ==
  /\ spc[s] = "set"
  /\ signalled' = TRUE
  /\ spc' = [spc EXCEPT ![s] = "broadcast"]
  /\ UNCHANGED <<mutex, alive, destroying, pc, time, result>>

\* Faulty variant: cnd_signal.
SignalOne(s) ==
  /\ spc[s] = "broadcast"
  /\ \/ \E w \in Waiters : pc[w] = "sleep" /\ pc' = [pc EXCEPT ![w] = "lock"]
     \/ (\A w \in Waiters : pc[w] # "sleep") /\ UNCHANGED pc
  /\ spc' = [spc EXCEPT ![s] = "unlock"]
  /\ UNCHANGED <<fence, time, result>>

SignalBroadcast(s) ==
  /\ spc[s] = "broadcast"
  /\ pc' = [w \in Waiters |-> IF pc[w] = "sleep" THEN "lock" ELSE pc[w]]
  /\ spc' = [spc EXCEPT ![s] = "unlock"]
  /\ UNCHANGED <<fence, time, result>>

SignalUnlock(s) ==
  /\ spc[s] = "unlock"
  /\ mutex' = {}
  /\ spc' = [spc EXCEPT ![s] = "out"]
  /\ UNCHANGED <<signalled, alive, destroying, pc, time, result>>

-----------------------------------------------------------------------------
(* _util_queue_fence_wait and _util_queue_fence_wait_timeout *)

\* The test without the mutex in the inline functions.
Enter(w, abs) ==
  /\ Usable /\ pc[w] = "out"
  /\ \/ signalled /\ Returns(w, "true") /\ UNCHANGED abs_timeout
     \/ /\ ~signalled
        /\ pc' = [pc EXCEPT ![w] = IF w \in Timed THEN "calc" ELSE "lock"]
        /\ result' = [result EXCEPT ![w] = "none"]
        /\ abs_timeout' = [abs_timeout EXCEPT ![w] = abs]
  /\ UNCHANGED <<fence, spc, now, ts>>

\* rel is only tested; ts is the present TIME_UTC plus abs_timeout.
Deadline(w) ==
  /\ pc[w] = "calc"
  /\ LET rel == abs_timeout[w] - now
     IN  IF rel > 0
         THEN /\ ts' = [ts EXCEPT ![w] = now + UtcOffset + abs_timeout[w]]
              /\ Goto(w, "lock")
         ELSE Goto(w, "read") /\ UNCHANGED ts
  /\ UNCHANGED <<fence, spc, now, abs_timeout>>

\* Take the mutex, test the flag, and leave or wait.
WaitLocked(w) ==
  /\ pc[w] = "lock" /\ mutex = {}
  /\ \/ ~signalled /\ Goto(w, "sleep")
     \/ signalled /\ w \in Timed /\ Goto(w, "read")
     \/ signalled /\ w \notin Timed /\ Returns(w, "true")
  /\ UNCHANGED <<fence, spc, time>>

Spurious(w) ==
  /\ pc[w] = "sleep"
  /\ Goto(w, "lock")
  /\ UNCHANGED <<fence, spc, time>>

\* cnd_timedwait gives up once TIME_UTC has reached ts ...
TimedOut(w) ==
  /\ pc[w] = "sleep" /\ w \in Timed /\ now + UtcOffset >= ts[w]
  /\ Goto(w, "late")
  /\ UNCHANGED <<fence, spc, time>>

\* ... and the loop breaks, when the mutex has been taken back.
Break(w) ==
  /\ pc[w] = "late" /\ mutex = {}
  /\ Goto(w, "read")
  /\ UNCHANGED <<fence, spc, time>>

\* Faulty variant: a wait with a timeout always reports success.
ReadFlagTrue(w) ==
  /\ pc[w] = "read"
  /\ Returns(w, "true")
  /\ UNCHANGED <<fence, spc, time>>

\* return fence->signalled, without the mutex.
ReadFlag(w) ==
  /\ pc[w] = "read"
  /\ Returns(w, IF signalled THEN "true" ELSE "false")
  /\ UNCHANGED <<fence, spc, time>>

Tick ==
  /\ now < MaxTime
  /\ now' = now + 1
  /\ UNCHANGED <<fence, pc, spc, abs_timeout, ts, result>>

-----------------------------------------------------------------------------
SignallerStep(s) == SignalSet(s) \/ SignalBroadcast(s) \/ SignalUnlock(s)

WaiterStep(w) ==
  Deadline(w) \/ WaitLocked(w) \/ TimedOut(w) \/ Break(w) \/ ReadFlag(w)

Next ==
  \/ Reset \/ Destroy \/ DestroyHandshake \/ InitAgain \/ Tick
  \/ \E s \in Signallers : SignalLock(s) \/ SignallerStep(s)
  \/ \E w \in Waiters : WaiterStep(w) \/ Spurious(w)
                          \/ \E abs \in 1..MaxTime : Enter(w, abs)

\* Threads inside the fence's functions keep running.
Fairness ==
  /\ \A w \in Waiters : WF_vars(WaiterStep(w))
  /\ \A s \in Signallers : WF_vars(SignallerStep(s))
  /\ WF_vars(DestroyHandshake)

Spec == Init /\ [][Next]_vars

FairSpec == Spec /\ Fairness

-----------------------------------------------------------------------------
(* Properties *)

\* "Ensure that another thread is not in the middle of
\* util_queue_fence_signal": when the mutex and the condition variable are
\* destroyed nobody is inside a function of the fence.
DestroyedUnused ==
  ~alive => /\ mutex = {}
            /\ \A s \in Signallers : spc[s] = "out"
            /\ NobodyWaits

\* The fence is the same event as the futex fence, as long as it lives.
Abs == INSTANCE AbstractFence
         WITH waiting <- {w \in Waiters : pc[w] # "out"}
ImplementsFence == Abs!Spec

\* util_queue_fence_signal releases everybody who waits.
SignalReleases ==
  \A w \in Waiters : signalled /\ pc[w] # "out" ~> pc[w] = "out"
=============================================================================
