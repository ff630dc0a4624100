------------------------ MODULE QueueFenceStdProofs ------------------------
(***************************************************************************)
(* DestroyedUnused and ImplementsFence of module QueueFenceStd, for any    *)
(* sets of waiters and signallers and any clock.                           *)
(***************************************************************************)
EXTENDS QueueFenceStd, TLAPS

WaiterPC == {"out", "calc", "lock", "sleep", "late", "read"}

\* The types the proofs need; time itself plays no part in them.
TypeOK ==
  /\ signalled \in BOOLEAN /\ alive \in BOOLEAN /\ destroying \in BOOLEAN
  /\ mutex \in SUBSET Signallers
  /\ pc \in [Waiters -> WaiterPC]
  /\ spc \in [Signallers -> {"out", "set", "broadcast", "unlock"}]
  /\ result \in [Waiters -> {"none", "true", "false"}]

\* A signaller is inside util_queue_fence_signal exactly while it owns the
\* mutex, and there is at most one.
MutexOwned ==
  /\ \A s \in Signallers : spc[s] # "out" <=> s \in mutex
  /\ \A s, t \in mutex : s = t

\* The flag is still clear when the signaller is about to set it, and the
\* fence is neither destroyed nor about to be.
SetPending ==
  \A s \in Signallers : spc[s] = "set" => ~signalled /\ alive /\ ~destroying

\* util_queue_fence_destroy starts on a signalled fence nobody waits on, and
\* nothing changes that until the memory is a fence again.
DestroyQuiet ==
  destroying \/ ~alive => signalled /\ NobodyWaits

\* The handshake with the mutex: a destroyed fence has no owner.
DestroyShut == ~alive => mutex = {} /\ ~destroying

\* Only a wait with a timeout reads the flag on its way out.
ReadersTimed ==
  \A w \in Waiters : pc[w] \in {"calc", "read", "late"} => w \in Timed

IInv ==
  /\ TypeOK
  /\ MutexOwned
  /\ SetPending
  /\ DestroyQuiet
  /\ DestroyShut
  /\ ReadersTimed

\* Every step of the fence's users and of its functions keeps IInv.
LEMMA IInvInductive == IInv /\ [Next]_vars => IInv'
<1> SUFFICES ASSUME IInv, [Next]_vars PROVE IInv'
  OBVIOUS
<1> USE FenceStdAssumption
    DEF IInv, TypeOK, MutexOwned, SetPending, DestroyQuiet, DestroyShut,
        ReadersTimed, WaiterPC, NobodyWaits, Usable, Goto, Returns, fence, time
<1>1. CASE Reset
  BY <1>1 DEF Reset
<1>2. CASE Destroy
  BY <1>2 DEF Destroy
<1>3. CASE DestroyHandshake
  BY <1>3 DEF DestroyHandshake
<1>4. CASE InitAgain
  BY <1>4 DEF InitAgain
<1>5. CASE Tick
  BY <1>5 DEF Tick
<1>6. ASSUME NEW s \in Signallers, SignalLock(s) PROVE IInv'
  BY <1>6 DEF SignalLock
<1>7. ASSUME NEW s \in Signallers, SignalSet(s) PROVE IInv'
  BY <1>7 DEF SignalSet
<1>8. ASSUME NEW s \in Signallers, SignalBroadcast(s) PROVE IInv'
  BY <1>8 DEF SignalBroadcast
<1>9. ASSUME NEW s \in Signallers, SignalUnlock(s) PROVE IInv'
  BY <1>9 DEF SignalUnlock
<1>10. ASSUME NEW w \in Waiters, Deadline(w) PROVE IInv'
  BY <1>10 DEF Deadline
<1>11. ASSUME NEW w \in Waiters, WaitLocked(w) PROVE IInv'
  BY <1>11 DEF WaitLocked
<1>12. ASSUME NEW w \in Waiters, TimedOut(w) PROVE IInv'
  BY <1>12 DEF TimedOut
<1>13. ASSUME NEW w \in Waiters, Break(w) PROVE IInv'
  BY <1>13 DEF Break
<1>14. ASSUME NEW w \in Waiters, ReadFlag(w) PROVE IInv'
  BY <1>14 DEF ReadFlag
<1>15. ASSUME NEW w \in Waiters, Spurious(w) PROVE IInv'
  BY <1>15 DEF Spurious
<1>16. ASSUME NEW w \in Waiters, NEW abs \in 1..MaxTime, Enter(w, abs)
       PROVE  IInv'
  BY <1>16 DEF Enter
<1>17. CASE UNCHANGED vars
  BY <1>17 DEF vars
<1> QED
  BY <1>1, <1>2, <1>3, <1>4, <1>5, <1>6, <1>7, <1>8, <1>9, <1>10, <1>11,
     <1>12, <1>13, <1>14, <1>15, <1>16, <1>17
  DEF Next, SignallerStep, WaiterStep

\* IInv holds initially and forever.
LEMMA IInvHolds == Spec => []IInv
<1>1. Init => IInv
  BY DEF Init, IInv, TypeOK, MutexOwned, SetPending, DestroyQuiet, DestroyShut,
         ReadersTimed, WaiterPC, NobodyWaits
<1> QED
  BY <1>1, IInvInductive, PTL DEF Spec

\* util_queue_fence_destroy takes the mutex once before it destroys it, so it
\* waits for the signaller that is still inside util_queue_fence_signal:
\* nobody uses a destroyed mutex or condition variable.
THEOREM DestroySafe == Spec => []DestroyedUnused
<1>1. IInv => DestroyedUnused
  BY DEF IInv, TypeOK, MutexOwned, DestroyQuiet, DestroyShut, DestroyedUnused
<1> QED
  BY <1>1, IInvHolds, PTL

\* The portable fence is the event of u_queue.h, as the futex fence is: every
\* step is a step of AbstractFence or changes nothing that its users see.
THEOREM Implementation == Spec => ImplementsFence
<1> DEFINE W == {w \in Waiters : pc[w] # "out"}
<1>1. Init => Abs!Init
  BY DEF Init, Abs!Init
<1>2. ASSUME IInv, [Next]_vars PROVE [Abs!Next]_(Abs!vars)
  <2> USE <1>2, FenceStdAssumption
      DEF IInv, TypeOK, WaiterPC, NobodyWaits, Usable, Goto, Returns, fence, time,
          Abs!vars
  <2>1. CASE Reset
    <3>1. Abs!Reset
      BY <2>1 DEF Reset, Abs!Reset
    <3> QED
      BY <3>1 DEF Abs!Next
  <2>2. ASSUME Destroy \/ DestroyHandshake \/ Tick PROVE UNCHANGED Abs!vars
    BY <2>2 DEF Destroy, DestroyHandshake, Tick
  <2>3. CASE InitAgain
    BY <2>3 DEF InitAgain, DestroyQuiet
  <2>4. ASSUME NEW s \in Signallers, SignalLock(s) \/ SignalUnlock(s)
        PROVE  UNCHANGED Abs!vars
    BY <2>4 DEF SignalLock, SignalUnlock
  <2>5. ASSUME NEW s \in Signallers, SignalSet(s) PROVE Abs!Signal
    BY <2>5 DEF SignalSet, SetPending, Abs!Signal
  <2>6. ASSUME NEW s \in Signallers, SignalBroadcast(s)
        PROVE  UNCHANGED Abs!vars
    <3>1. \A w \in Waiters : pc'[w] = "out" <=> pc[w] = "out"
      BY <2>6 DEF SignalBroadcast
    <3>2. W' = W
      BY <3>1
    <3> QED
      BY <3>2, <2>6 DEF SignalBroadcast
  \* A waiter that goes from one place inside its wait to another.
  <2>7. ASSUME NEW w \in Waiters, NEW l \in WaiterPC \ {"out"}, pc[w] # "out",
               Goto(w, l), UNCHANGED fence
        PROVE  UNCHANGED Abs!vars
    <3>1. \A v \in Waiters : pc'[v] = "out" <=> pc[v] = "out"
      BY <2>7
    <3>2. W' = W
      BY <3>1
    <3> QED
      BY <3>2, <2>7
  <2>8. ASSUME NEW w \in Waiters, NEW r \in {"true", "false"}, Returns(w, r),
               r = "true" => signalled,
               r = "false" => w \in Timed /\ pc[w] # "out", UNCHANGED fence
        PROVE  Abs!Return(w) \/ Abs!TimeOut(w)
    <3>1. \A v \in Waiters : pc'[v] # "out" <=> pc[v] # "out" /\ v # w
      BY <2>8
    <3>2. W' = W \ {w}
      BY <3>1
    <3> QED
      BY <3>2, <2>8 DEF Abs!Return, Abs!TimeOut
  <2>9. ASSUME NEW w \in Waiters, Deadline(w) PROVE UNCHANGED Abs!vars
    <3>1. Goto(w, "lock") \/ Goto(w, "read")
      BY <2>9 DEF Deadline
    <3> QED
      BY <3>1, <2>7, <2>9 DEF Deadline
  <2>10. ASSUME NEW w \in Waiters, WaitLocked(w)
         PROVE  UNCHANGED Abs!vars \/ Abs!Return(w) \/ Abs!TimeOut(w)
    <3>1. pc[w] # "out" /\ UNCHANGED fence
      BY <2>10 DEF WaitLocked
    <3>2. CASE Goto(w, "sleep") \/ Goto(w, "read")
      BY <3>1, <3>2, <2>7
    <3>3. CASE signalled /\ Returns(w, "true")
      BY <3>1, <3>3, <2>8
    <3> QED
      BY <3>2, <3>3, <2>10 DEF WaitLocked
  <2>11. ASSUME NEW w \in Waiters, TimedOut(w) \/ Break(w) \/ Spurious(w)
         PROVE  UNCHANGED Abs!vars
    <3>1. /\ pc[w] # "out" /\ UNCHANGED fence
          /\ Goto(w, "late") \/ Goto(w, "read") \/ Goto(w, "lock")
      BY <2>11 DEF TimedOut, Break, Spurious
    <3> QED
      BY <3>1, <2>7
  <2>12. ASSUME NEW w \in Waiters, ReadFlag(w)
         PROVE  Abs!Return(w) \/ Abs!TimeOut(w)
    <3>1. w \in Timed /\ pc[w] # "out" /\ UNCHANGED fence
      BY <2>12 DEF ReadFlag, ReadersTimed
    <3>2. \/ signalled /\ Returns(w, "true")
          \/ ~signalled /\ Returns(w, "false")
      BY <2>12 DEF ReadFlag
    <3> QED
      BY <3>1, <3>2, <2>8
  <2>13. ASSUME NEW w \in Waiters, NEW abs \in 1..MaxTime, Enter(w, abs)
         PROVE  Abs!Begin(w) \/ Abs!Return(w) \/ Abs!TimeOut(w)
    <3>1. CASE signalled /\ Returns(w, "true")
      BY <3>1, <2>8, <2>13 DEF Enter
    <3>2. CASE ~signalled
      <4>1. \A v \in Waiters : pc'[v] # "out" <=> pc[v] # "out" \/ v = w
        BY <3>2, <2>13 DEF Enter
      <4>2. W' = W \cup {w}
        BY <4>1
      <4> QED
        BY <4>2, <3>2, <2>13 DEF Enter, Abs!Begin
    <3> QED
      BY <3>1, <3>2, <2>13 DEF Enter
  <2>14. CASE UNCHANGED vars
    BY <2>14 DEF vars
  <2> QED
    BY <2>1, <2>2, <2>3, <2>4, <2>5, <2>6, <2>9, <2>10, <2>11, <2>12, <2>13,
       <2>14
    DEF Next, SignallerStep, WaiterStep, Abs!Next
<1> QED
  BY <1>1, <1>2, IInvHolds, PTL DEF Spec, ImplementsFence, Abs!Spec
=============================================================================
