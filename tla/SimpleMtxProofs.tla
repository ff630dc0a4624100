-------------------------- MODULE SimpleMtxProofs --------------------------
(***************************************************************************)
(* Safety of the futex mutex for any set of threads. Mutual exclusion is   *)
(* not inductive by itself: it needs to know that val is non-zero exactly  *)
(* while some thread owns the mutex (OwnedIffLocked).                      *)
(***************************************************************************)
EXTENDS SimpleMtx, TLAPS

OwnedIffLocked == val # 0 <=> \E t \in Threads : Owns(t)

IInv == TypeOK /\ OwnedIffLocked /\ MutualExclusion

\* The strengthened invariant holds at the start and every atomic access to
\* val, every futex call and every stutter preserves it.
LEMMA IInvInductive ==
  /\ Init => IInv
  /\ IInv /\ [Next]_vars => IInv'
<1> USE DEF IInv, TypeOK, PCs, OwnedIffLocked, MutualExclusion, Owns
<1>1. Init => IInv
  BY DEF Init
<1>2. ASSUME IInv, [Next]_vars PROVE IInv'
  <2> USE <1>2 DEF Goto
  <2>1. ASSUME NEW t \in Threads, LockCas(t) PROVE IInv'
    BY <2>1 DEF LockCas
  <2>2. ASSUME NEW t \in Threads, LockXchg(t) PROVE IInv'
    BY <2>2 DEF LockXchg
  <2>3. ASSUME NEW t \in Threads, FutexWait(t) PROVE IInv'
    BY <2>3 DEF FutexWait
  <2>4. ASSUME NEW t \in Threads, SpuriousWake(t) PROVE IInv'
    BY <2>4 DEF SpuriousWake
  <2>5. ASSUME NEW t \in Threads, UnlockSub(t) PROVE IInv'
    BY <2>5 DEF UnlockSub
  <2>6. ASSUME NEW t \in Threads, UnlockStore(t) PROVE IInv'
    BY <2>6 DEF UnlockStore
  <2>7. ASSUME NEW t \in Threads, FutexWake(t) PROVE IInv'
    BY <2>7 DEF FutexWake
  <2>8. CASE UNCHANGED vars
    BY <2>8 DEF vars
  <2> QED
    BY <2>1, <2>2, <2>3, <2>4, <2>5, <2>6, <2>7, <2>8 DEF Next, Step
<1> QED
  BY <1>1, <1>2

\* Every value val and pc take is one the code can produce; in particular the
\* decrement of simple_mtx_unlock never wraps below 0.
THEOREM TypeCorrect == Spec => []TypeOK
BY IInvInductive, PTL DEF Spec, IInv

\* At most one thread is past simple_mtx_lock, for any number of threads.
THEOREM MutexExcludes == Spec => []MutualExclusion
BY IInvInductive, PTL DEF Spec, IInv

\* No thread stays parked on val without a wake-up on its way: the lost
\* wake-up that the store of 2 before every futex_wait is there to prevent.
THEOREM WakeupNotLost == Spec => []NoLostWakeup
<1> USE DEF TypeOK, PCs, NoLostWakeup
<1>1. Init => NoLostWakeup
  BY DEF Init
<1>2. ASSUME TypeOK, NoLostWakeup, [Next]_vars PROVE NoLostWakeup'
  <2> USE <1>2 DEF Goto
  <2>1. ASSUME NEW t \in Threads, LockCas(t) PROVE NoLostWakeup'
    BY <2>1 DEF LockCas
  <2>2. ASSUME NEW t \in Threads, LockXchg(t) PROVE NoLostWakeup'
    BY <2>2 DEF LockXchg
  <2>3. ASSUME NEW t \in Threads, FutexWait(t) PROVE NoLostWakeup'
    BY <2>3 DEF FutexWait
  <2>4. ASSUME NEW t \in Threads, SpuriousWake(t) PROVE NoLostWakeup'
    BY <2>4 DEF SpuriousWake
  <2>5. ASSUME NEW t \in Threads, UnlockSub(t) PROVE NoLostWakeup'
    BY <2>5 DEF UnlockSub
  <2>6. ASSUME NEW t \in Threads, UnlockStore(t) PROVE NoLostWakeup'
    BY <2>6 DEF UnlockStore
  <2>7. ASSUME NEW t \in Threads, FutexWake(t) PROVE NoLostWakeup'
    BY <2>7 DEF FutexWake
  <2>8. CASE UNCHANGED vars
    BY <2>8 DEF vars
  <2> QED
    BY <2>1, <2>2, <2>3, <2>4, <2>5, <2>6, <2>7, <2>8 DEF Next, Step
<1> QED
  BY <1>1, <1>2, TypeCorrect, PTL DEF Spec
=============================================================================
