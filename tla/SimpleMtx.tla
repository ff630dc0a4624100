----------------------------- MODULE SimpleMtx -----------------------------
(***************************************************************************)
(* The futex mutex of src/util/simple_mtx.h (the build with linux/futex.h).*)
(*                                                                         *)
(* One action per atomic access to mtx->val and per futex system call. The *)
(* local c of the code is read only to pick the next statement, so it      *)
(* lives in pc:                                                            *)
(*   "out"    not using the mutex                                          *)
(*   "xchg"   about to exchange val with 2                                 *)
(*   "wait"   about to call futex_wait(&val, 2)                            *)
(*   "asleep" parked by the kernel on val                                  *)
(*   "held"   simple_mtx_lock has returned                                 *)
(*   "store"  simple_mtx_unlock saw contention, about to store 0           *)
(*   "wake"   about to call futex_wake(&val, 1)                            *)
(***************************************************************************)
EXTENDS Naturals

CONSTANT Threads

VARIABLES
  val,    \* mtx->val: 0 free, 1 locked, 2 locked and maybe waited for
  pc      \* where each thread is

vars == <<val, pc>>

PCs == {"out", "xchg", "wait", "asleep", "held", "store", "wake"}

Goto(t, l) == pc' = [pc EXCEPT ![t] = l]

Init ==
  /\ val = 0
  /\ pc = [t \in Threads |-> "out"]

-----------------------------------------------------------------------------
(* simple_mtx_lock *)

\* The fast path: compare-and-swap 0 to 1, and the branch on what it returned.
LockCas(t) ==
  /\ pc[t] = "out"
  /\ \/ val = 0 /\ val' = 1   /\ Goto(t, "held")
     \/ val = 1 /\ val' = val /\ Goto(t, "xchg")
     \/ val = 2 /\ val' = val /\ Goto(t, "wait")

\* Faulty variant: any value but 2 is taken for free.
LockXchgNot2(t) ==
  /\ pc[t] = "xchg"
  /\ val' = 2
  /\ Goto(t, IF val # 2 THEN "held" ELSE "wait")

\* The exchange with 2, before the loop and at its end, and the loop test.
LockXchg(t) ==
  /\ pc[t] = "xchg"
  /\ val' = 2
  /\ Goto(t, IF val = 0 THEN "held" ELSE "wait")

\* futex_wait compares val with 2 and parks the thread in one step; when val
\* differs the call returns at once.
FutexWait(t) ==
  /\ pc[t] = "wait"
  /\ Goto(t, IF val = 2 THEN "asleep" ELSE "xchg")
  /\ UNCHANGED val

\* futex_wait may return with no wake-up (a signal); the loop does not look at
\* its result.
SpuriousWake(t) ==
  /\ pc[t] = "asleep"
  /\ Goto(t, "xchg")
  /\ UNCHANGED val

-----------------------------------------------------------------------------
(* simple_mtx_unlock *)

UnlockSub(t) ==
  /\ pc[t] = "held"
  /\ val' = val - 1
  /\ Goto(t, IF val = 1 THEN "out" ELSE "store")

\* Faulty variant: the wake-up is forgotten.
UnlockStoreOnly(t) ==
  /\ pc[t] = "store"
  /\ val' = 0
  /\ Goto(t, "out")

UnlockStore(t) ==
  /\ pc[t] = "store"
  /\ val' = 0
  /\ Goto(t, "wake")

\* Faulty variant: futex_wake(&val, 0).
FutexWakeNone(t) ==
  /\ pc[t] = "wake"
  /\ Goto(t, "out")
  /\ UNCHANGED val

\* futex_wake(&val, 1): one sleeper, of the kernel's choice, if there is one.
FutexWake(t) ==
  /\ pc[t] = "wake"
  /\ \/ \E s \in Threads :
          /\ pc[s] = "asleep"
          /\ pc' = [pc EXCEPT ![s] = "xchg", ![t] = "out"]
     \/ /\ \A s \in Threads : pc[s] # "asleep"
        /\ Goto(t, "out")
  /\ UNCHANGED val

-----------------------------------------------------------------------------
Step(t) ==
  \/ LockXchg(t) \/ FutexWait(t)
  \/ UnlockSub(t) \/ UnlockStore(t) \/ FutexWake(t)

Next == \E t \in Threads : LockCas(t) \/ SpuriousWake(t) \/ Step(t)

\* A thread that has entered simple_mtx_lock or owns the mutex keeps running;
\* none is obliged to ask for the mutex, and no signal need ever arrive.
Fairness == \A t \in Threads : WF_vars(Step(t))

Spec == Init /\ [][Next]_vars

FairSpec == Spec /\ Fairness

-----------------------------------------------------------------------------
(* Properties *)

\* mtx->val is one of the three values the header documents: the decrement in
\* simple_mtx_unlock never sees 0.
TypeOK ==
  /\ val \in 0..2
  /\ pc \in [Threads -> PCs]

Owns(t) == pc[t] \in {"held", "store"}

\* simple_mtx_lock has returned to at most one thread: no interleaving of the
\* exchange, the decrement and the store of 0 lets two threads in.
MutualExclusion == \A s, t \in Threads : Owns(s) /\ Owns(t) => s = t

\* A parked thread is never forgotten: either val is 2, so that the owner's
\* unlock will call futex_wake, or an unlock is on its way to that call, or a
\* thread is about to set val to 2 again.
NoLostWakeup ==
  (\E t \in Threads : pc[t] = "asleep") =>
    \/ val = 2
    \/ \E s \in Threads : pc[s] \in {"store", "wake", "xchg"}

\* The mutex never jams: when a thread waits for it, some thread gets it.
SomeoneGetsIn ==
  (\E t \in Threads : pc[t] \in {"xchg", "wait", "asleep"})
     ~> (\E t \in Threads : pc[t] = "held")

=============================================================================
