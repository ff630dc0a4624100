--------------------------- MODULE BumpAllocator ----------------------------
(***************************************************************************)
(* What anv_block_pool_alloc and anv_block_pool_alloc_back promise: on     *)
(* each side of the pool the calls get consecutive blocks, so that no two  *)
(* blocks overlap and no part of the pool is lost. A call may return later *)
(* than the moment its block was decided.                                  *)
(***************************************************************************)
EXTENDS Naturals

CONSTANTS Threads, Sides, Sizes, NoBlock

VARIABLES
  used,    \* of each side: how much has been handed out
  block    \* of each thread: the block its call will return

vars == <<used, block>>

Init ==
  /\ used = [s \in Sides |-> 0]
  /\ block = [t \in Threads |-> NoBlock]

Alloc(t, s, n) ==
  /\ block[t] = NoBlock
  /\ block' = [block EXCEPT ![t] = [side |-> s, offset |-> used[s], size |-> n]]
  /\ used' = [used EXCEPT ![s] = @ + n]

Return(t) ==
  /\ block[t] # NoBlock
  /\ block' = [block EXCEPT ![t] = NoBlock]
  /\ UNCHANGED used

Next ==
  \E t \in Threads :
    Return(t) \/ \E s \in Sides, n \in Sizes : Alloc(t, s, n)

Spec == Init /\ [][Next]_vars
=============================================================================
