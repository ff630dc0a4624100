-------------------------- MODULE QueueFenceProofs --------------------------
(***************************************************************************)
(* TypeOK, SleepersAnnounced and ImplementsFence of module QueueFence, for *)
(* any sets of waiters and signallers.                                     *)
(***************************************************************************)
EXTENDS QueueFence, TLAPS

\* What an unsignalled fence knows of its sleepers: a thread parks only on the
\* value 2, and only an exchange with 0 removes that value.
IInv == TypeOK /\ SleepersAnnounced

\* Every step of the fence keeps the value 2, or the pending futex_wake, that
\* announces a parked waiter.
LEMMA IInvInductive == IInv /\ [Next]_vars => IInv'
<1> SUFFICES ASSUME IInv, [Next]_vars PROVE IInv'
  OBVIOUS
<1> USE FenceAssumption DEF IInv, TypeOK, SleepersAnnounced, Goto, Returns
<1>1. CASE Reset
  BY <1>1 DEF Reset
<1>2. ASSUME NEW s \in Signallers, Signal(s) PROVE IInv'
  BY <1>2 DEF Signal
<1>3. ASSUME NEW s \in Signallers, FutexWake(s) PROVE IInv'
  BY <1>3 DEF FutexWake
<1>4. ASSUME NEW w \in Waiters, Enter(w) PROVE IInv'
  BY <1>4 DEF Enter
<1>5. ASSUME NEW w \in Waiters, Load(w) PROVE IInv'
  BY <1>5 DEF Load
<1>6. ASSUME NEW w \in Waiters, Cas(w) PROVE IInv'
  BY <1>6 DEF Cas
<1>7. ASSUME NEW w \in Waiters, FutexWait(w) PROVE IInv'
  BY <1>7 DEF FutexWait
<1>8. ASSUME NEW w \in Waiters, FutexTimeout(w) PROVE IInv'
  BY <1>8 DEF FutexTimeout
<1>9. ASSUME NEW w \in Waiters, Interrupted(w) PROVE IInv'
  BY <1>9 DEF Interrupted
<1>10. ASSUME NEW w \in Waiters, Expire(w) PROVE IInv'
  BY <1>10 DEF Expire
<1>11. CASE UNCHANGED vars
  BY <1>11 DEF vars
<1> QED
  BY <1>1, <1>2, <1>3, <1>4, <1>5, <1>6, <1>7, <1>8, <1>9, <1>10, <1>11
  DEF Next, WaiterStep

\* IInv holds initially and forever.
LEMMA IInvHolds == Spec => []IInv
<1>1. Init => IInv
  BY DEF Init, IInv, TypeOK, SleepersAnnounced
<1> QED
  BY <1>1, IInvInductive, PTL DEF Spec

\* The fields of the fence and the program counters keep their types.
THEOREM TypeCorrect == Spec => []TypeOK
  BY IInvHolds, PTL DEF IInv

\* No wake-up is lost, with any number of waiters and signallers: a parked
\* waiter is announced by the value 2 or a futex_wake is coming.
THEOREM WakeupNotLost == Spec => []SleepersAnnounced
  BY IInvHolds, PTL DEF IInv

\* The futex fence is the event of u_queue.h: every step of it is a step of
\* AbstractFence, or changes nothing that its users can see.
THEOREM Implementation == Spec => ImplementsFence
<1> DEFINE W == {w \in Waiters : pc[w] # "out"}
<1>1. Init => Abs!Init
  BY DEF Init, Abs!Init
<1>2. ASSUME IInv, [Next]_vars PROVE [Abs!Next]_(Abs!vars)
  <2> USE <1>2, FenceAssumption DEF IInv, TypeOK, Abs!vars
  <2>1. CASE Reset
    <3>1. Abs!Reset
      BY <2>1 DEF Reset, Abs!Reset
    <3> QED
      BY <3>1 DEF Abs!Next
  <2>2. ASSUME NEW s \in Signallers, Signal(s) PROVE Abs!Signal
    BY <2>2 DEF Signal, Abs!Signal
  <2>3. ASSUME NEW s \in Signallers, FutexWake(s) PROVE UNCHANGED Abs!vars
    <3>1. \A w \in Waiters : pc'[w] = "out" <=> pc[w] = "out"
      BY <2>3 DEF FutexWake
    <3>2. W' = W
      BY <3>1
    <3> QED
      BY <2>3, <3>2 DEF FutexWake
  <2>4. ASSUME NEW w \in Waiters, val = 0, W' = W \ {w}, val' = val,
               result' = [result EXCEPT ![w] = "true"]
        PROVE  Abs!Return(w)
    BY <2>4 DEF Abs!Return
  <2>5. ASSUME NEW w \in Waiters, w \in W, w \in Timed, W' = W \ {w}, val' = val,
               result' = [result EXCEPT ![w] = "false"]
        PROVE  Abs!TimeOut(w)
    BY <2>5 DEF Abs!TimeOut
  <2>6. ASSUME NEW w \in Waiters, Enter(w)
        PROVE  Abs!Return(w) \/ Abs!Begin(w)
    <3>1. CASE val = 0
      <4>1. W' = W \ {w}
        BY <2>6, <3>1 DEF Enter, Returns
      <4> QED
        BY <2>4, <2>6, <3>1, <4>1 DEF Enter, Returns
    <3>2. CASE val # 0
      <4>1. W' = W \cup {w} /\ w \notin W
        BY <2>6, <3>2 DEF Enter
      <4> QED
        BY <2>6, <3>2, <4>1 DEF Enter, Abs!Begin
    <3> QED
      BY <3>1, <3>2
  <2>7. ASSUME NEW w \in Waiters, NEW l \in {"load", "cas", "wait", "asleep"},
               pc[w] # "out", Goto(w, l)
        PROVE  W' = W /\ result' = result
    BY <2>7 DEF Goto
  <2>8. ASSUME NEW w \in Waiters, NEW r, pc[w] # "out", Returns(w, r)
        PROVE  W' = W \ {w} /\ result' = [result EXCEPT ![w] = r] /\ w \in W
    BY <2>8 DEF Returns
  <2>9. ASSUME NEW w \in Waiters, Load(w)
        PROVE  Abs!Return(w) \/ UNCHANGED Abs!vars
    BY <2>4, <2>7, <2>8, <2>9 DEF Load
  <2>10. ASSUME NEW w \in Waiters, Cas(w)
         PROVE  Abs!Return(w) \/ UNCHANGED Abs!vars
    BY <2>4, <2>7, <2>8, <2>10 DEF Cas
  <2>11. ASSUME NEW w \in Waiters, FutexWait(w)
         PROVE  Abs!TimeOut(w) \/ UNCHANGED Abs!vars
    BY <2>5, <2>7, <2>8, <2>11 DEF FutexWait
  <2>12. ASSUME NEW w \in Waiters, FutexTimeout(w) PROVE Abs!TimeOut(w)
    BY <2>5, <2>8, <2>12 DEF FutexTimeout
  <2>13. ASSUME NEW w \in Waiters, Interrupted(w) PROVE UNCHANGED Abs!vars
    BY <2>7, <2>13 DEF Interrupted
  <2>14. ASSUME NEW w \in Waiters, Expire(w) PROVE UNCHANGED Abs!vars
    BY <2>14 DEF Expire
  <2>15. CASE UNCHANGED vars
    BY <2>15 DEF vars
  <2> QED
    BY <1>2, <2>1, <2>2, <2>3, <2>6, <2>9, <2>10, <2>11, <2>12, <2>13, <2>14,
       <2>15
    DEF Next, WaiterStep, Abs!Next
<1> QED
  BY <1>1, <1>2, IInvHolds, PTL DEF Spec, ImplementsFence, Abs!Spec
=============================================================================
