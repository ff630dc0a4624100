--------------------------- MODULE GLThreadProofs ---------------------------
(***************************************************************************)
(* The invariants of module GLThread, for any number of batches, any size  *)
(* of their buffers and of the commands, and any number of commands.       *)
(***************************************************************************)
EXTENDS GLThread, TLAPS

AppPC == {"app", "flush", "space", "append", "wait", "direct", "call",
          "restore", "destroy", "destroyed"}

TypeOK ==
  /\ fifo \in Seq(Batches) /\ running \in SUBSET Batches /\ dropped = {}
  /\ signalled \in [Batches -> BOOLEAN]
  /\ used \in [Batches -> Nat] /\ buffer \in [Batches -> Seq(Nat)]
  /\ next \in Batches /\ last \in Batches
  /\ mpc \in AppPC /\ size \in Sizes \cup {0}
  /\ after \in {"return", "call", "restore", "destroy"}
  /\ marshalling \in BOOLEAN
  /\ upos \in Nat /\ wpc \in {"run", "signal"}
  /\ issued \in Nat /\ executed \in Seq(Nat)

\* How many steps of the ring batch b is behind the one being filled, which
\* is a whole turn behind itself.
Dist(b) == IF b < next THEN next - b ELSE next - b + MaxBatches

\* The batches submitted and not yet executed to the end.
Pending == Len(fifo) + (IF running = {} THEN 0 ELSE 1)

\* The batches in flight are the last Pending ones of the ring, the oldest
\* with the worker; glthread->last is the youngest of them.
Ring ==
  /\ Len(fifo) <= QueueSize
  /\ \A i \in 1..Len(fifo) : Dist(fifo[i]) = Len(fifo) - i + 1
  /\ \A b \in running : Dist(b) = Len(fifo) + 1
  /\ Pending > 0 => Dist(last) = 1
  /\ running = {} => wpc = "run"

\* A fence is unsignalled while its batch is in flight, or is waiting for
\* room in the queue.
Fences ==
  \A b \in Batches :
    signalled[b] <=> Dist(b) > Pending /\ ~(mpc = "space" /\ b = next)

\* The batches in flight hold commands, and the others but the one being
\* filled are empty.
Contents ==
  /\ \A b \in Batches : used[b] = 0 <=> buffer[b] = <<>>
  /\ \A b \in Batches : Dist(b) > Pending /\ b # next => buffer[b] = <<>>
  /\ \A i \in 1..Len(fifo) : buffer[fifo[i]] # <<>>
  /\ \A b \in running : buffer[b] = <<>> <=> wpc = "signal"
  /\ mpc = "append" => buffer[next] = <<>> /\ size # 0
  /\ mpc \in {"flush", "space"} => buffer[next] # <<>>

\* After the wait of _mesa_glthread_finish nothing is in flight, and after the
\* direct execution the batch being filled is empty as well.
Quiet ==
  /\ mpc \in {"direct", "call", "restore", "destroy", "destroyed"}
       => Pending = 0
  /\ mpc \in {"call", "restore", "destroy", "destroyed"} => buffer[next] = <<>>
  /\ ~marshalling =>
       /\ Pending = 0 /\ buffer[next] = <<>>
       /\ mpc \notin {"flush", "space", "append", "wait"}

\* The space a batch has used is a multiple of the alignment, and fits.
Aligned(u) == \E k \in Nat : u = k * Align

Fit == \A b \in Batches : Aligned(used[b]) /\ used[b] <= MaxCmdSize

\* The commands a batch holds are consecutive ones: from First to Final.
First(b) == buffer[b][1]

Final(b) == buffer[b][1] + Len(buffer[b]) - 1

Consecutive ==
  \A b \in Batches : \A i \in 1..Len(buffer[b]) : buffer[b][i] = First(b) + i - 1

\* The commands that are in no batch any more or in a batch in flight.
Filled == issued - Len(buffer[next])

Settled == running = {} \/ wpc = "signal"

\* Every batch continues where the one before it ends: the worker's batch
\* what has been executed, the first of the queue the worker's batch, and the
\* batch being filled the last of the queue.
Order ==
  /\ \A b \in running :
       wpc = "run" =>
         upos <= Len(buffer[b]) /\ First(b) + upos = Len(executed) + 1
  /\ fifo # <<>> =>
       /\ Settled => First(fifo[1]) = Len(executed) + 1
       /\ \A b \in running : wpc = "run" => First(fifo[1]) = Final(b) + 1
       /\ Filled = Final(fifo[Len(fifo)])
  /\ fifo = <<>> =>
       /\ Settled => Filled = Len(executed)
       /\ \A b \in running : wpc = "run" => Filled = Final(b)
  /\ \A i \in 1..Len(fifo)-1 : First(fifo[i+1]) = Final(fifo[i]) + 1
  /\ buffer[next] # <<>> => First(next) = Filled + 1

IInv ==
  /\ TypeOK
  /\ Ring
  /\ Fences
  /\ Contents
  /\ Quiet
  /\ Fit
  /\ Consecutive
  /\ Order
  /\ CommandsInOrder

-----------------------------------------------------------------------------
(* Arithmetic: the ring and the alignment *)

\* The assumptions on the constants, in the form the proofs use.
LEMMA ConstantFacts ==
  /\ MaxBatches \in Nat /\ MaxBatches >= 3
  /\ MaxCmdSize \in Nat /\ Sizes \subseteq Nat \ {0}
  /\ NoBatch \notin Batches
  BY GLThreadAssumption DEF Batches

\* The distance behind next numbers the batches from 1 to MaxBatches.
LEMMA DistFacts ==
  ASSUME next \in Batches, NEW b \in Batches
  PROVE  /\ Dist(b) \in 1..MaxBatches
         /\ Dist(b) = MaxBatches <=> b = next
         /\ \A a \in Batches : Dist(a) = Dist(b) => a = b
  BY ConstantFacts DEF Dist, Batches

\* The ring turns by one batch.
LEMMA DistTurn ==
  ASSUME next \in Batches, next' = (next + 1) % MaxBatches
  PROVE  /\ next' \in Batches /\ next' # next
         /\ Dist(next') = MaxBatches - 1
         /\ \A b \in Batches : Dist(b)' = IF b = next THEN 1 ELSE Dist(b) + 1
<1>1. next' = IF next + 1 = MaxBatches THEN 0 ELSE next + 1
  <2>1. CASE next + 1 = MaxBatches
    <3>1. MaxBatches % MaxBatches = 0
      BY ConstantFacts
    <3> QED
      BY <2>1, <3>1
  <2>2. CASE next + 1 # MaxBatches
    <3>1. next + 1 \in 0..MaxBatches-1
      BY <2>2, ConstantFacts DEF Batches
    <3>2. (next + 1) % MaxBatches = next + 1
      BY <3>1, ConstantFacts
    <3> QED
      BY <2>2, <3>2
  <2> QED
    BY <2>1, <2>2
<1> QED
  BY <1>1, ConstantFacts DEF Dist, Batches

\* A multiple of d is its quotient times d.
LEMMA Divides ==
  ASSUME NEW a \in Nat, NEW d \in Nat \ {0}, a % d = 0
  PROVE  a \div d \in Int /\ a = (a \div d) * d
  OBVIOUS

\* ALIGN rounds up to a multiple of the alignment, and what fits before it is
\* rounded up fits afterwards.
LEMMA AlignFits ==
  ASSUME NEW u \in Nat, Aligned(u), NEW n \in Nat \ {0}, u + n <= MaxCmdSize
  PROVE  /\ ALIGN(n) \in Nat /\ ALIGN(n) > 0
         /\ Aligned(u + ALIGN(n))
         /\ u + ALIGN(n) <= MaxCmdSize
<1>1. Align \in Nat \ {0}
  BY GLThreadAssumption
<1> DEFINE q == (n + Align - 1) \div Align
<1>2. q \in Int /\ q * Align <= n + Align - 1 /\ n + Align - 1 < q * Align + Align
  BY <1>1
<1>3. PICK k \in Nat : u = k * Align
  BY DEF Aligned
<1>4. PICK m \in Int : MaxCmdSize = m * Align
  BY <1>1, GLThreadAssumption, Divides
<1> HIDE DEF q
<1>5. q > 0
  <2>1. SUFFICES ASSUME q <= 0 PROVE FALSE
    BY <1>2
  <2>2. q * Align <= 0
    BY <2>1, <1>1, <1>2
  <2> QED
    BY <2>2, <1>1, <1>2
<1>6. k + q <= m
  <2>1. SUFFICES ASSUME k + q >= m + 1 PROVE FALSE
    BY <1>2, <1>3, <1>4
  <2>2. (k + q) * Align >= (m + 1) * Align
    BY <2>1, <1>1, <1>2, <1>3, <1>4
  <2>3. (k + q) * Align = k * Align + q * Align
    BY <1>1, <1>2, <1>3
  <2>4. (m + 1) * Align = m * Align + Align
    BY <1>1, <1>4
  <2> QED
    BY <2>2, <2>3, <2>4, <1>1, <1>2, <1>3, <1>4
<1>7. ALIGN(n) = q * Align
  BY DEF ALIGN, q
<1>8. q * Align \in Nat /\ q * Align > 0
  BY <1>1, <1>2, <1>5
<1>9. (k + q) * Align = k * Align + q * Align
  BY <1>1, <1>2, <1>3
<1>10. (k + q) * Align <= m * Align
  BY <1>1, <1>2, <1>3, <1>4, <1>6
<1>11. k + q \in Nat
  BY <1>2, <1>5
<1> QED
  BY <1>3, <1>4, <1>7, <1>8, <1>9, <1>10, <1>11 DEF Aligned

\* Appending an element to a sequence.
LEMMA AppendFacts ==
  ASSUME NEW S, NEW s \in Seq(S), NEW e \in S
  PROVE  /\ Len(s) \in Nat
         /\ Append(s, e) \in Seq(S) /\ Append(s, e) # <<>>
         /\ Len(Append(s, e)) = Len(s) + 1
         /\ Append(s, e)[Len(s) + 1] = e
         /\ \A i \in 1..Len(s) : Append(s, e)[i] = s[i]
<1>1. Len(s) \in Nat /\ Len(Append(s, e)) = Len(s) + 1
  OBVIOUS
<1>2. Append(s, e) # <<>>
  BY <1>1
<1> QED
  BY <1>1, <1>2

\* Removing the first element of a sequence.
LEMMA TailFacts ==
  ASSUME NEW S, NEW s \in Seq(S), s # <<>>
  PROVE  /\ Len(s) \in Nat \ {0} /\ Tail(s) \in Seq(S) /\ Len(Tail(s)) = Len(s) - 1
         /\ Head(s) = s[1] /\ s[1] \in S
         /\ \A i \in 1..Len(s)-1 : Tail(s)[i] = s[i + 1]
  OBVIOUS

-----------------------------------------------------------------------------
(* What the ring says of the batches *)

\* The batches in flight are different ones, and not the one being filled.
LEMMA Apart ==
  ASSUME TypeOK, Ring
  PROVE  /\ Pending \in Nat /\ Pending < MaxBatches
         /\ \A i \in 1..Len(fifo) :
              fifo[i] \in Batches /\ fifo[i] # next /\ fifo[i] \notin running
         /\ \A i, j \in 1..Len(fifo) : fifo[i] = fifo[j] => i = j
         /\ next \notin running
         /\ \A a, b \in running : a = b
         /\ \A b \in Batches :
              Dist(b) > Pending <=> b \notin running /\ \A i \in 1..Len(fifo) : fifo[i] # b
<1>1. /\ MaxBatches \in Nat /\ Len(fifo) \in Nat /\ Len(fifo) <= MaxBatches - 2
      /\ next \in Batches /\ running \subseteq Batches
      /\ \A i \in 1..Len(fifo) : fifo[i] \in Batches
      /\ \A i \in 1..Len(fifo) : Dist(fifo[i]) = Len(fifo) - i + 1
      /\ \A b \in running : Dist(b) = Len(fifo) + 1
  BY ConstantFacts DEF TypeOK, Ring, QueueSize
<1> USE <1>1
<1>2. Pending \in Nat /\ Pending < MaxBatches
  BY <1>1 DEF Pending
<1>3. \A b \in Batches : Dist(b) \in 1..MaxBatches /\ (Dist(b) = MaxBatches <=> b = next)
  BY DistFacts
<1>4. \A i \in 1..Len(fifo) : fifo[i] # next /\ fifo[i] \notin running
  BY <1>1, <1>3
<1>5. \A i, j \in 1..Len(fifo) : fifo[i] = fifo[j] => i = j
  BY <1>1, <1>3
<1>6. next \notin running
  BY <1>1, <1>3
<1>7. \A a, b \in Batches : Dist(a) = Dist(b) => a = b
  BY DistFacts
<1>8. \A a, b \in running : a = b
  BY <1>7
<1>9. ASSUME NEW b \in Batches, Dist(b) <= Pending
      PROVE  b \in running \/ \E i \in 1..Len(fifo) : fifo[i] = b
  <2>1. CASE Dist(b) = Len(fifo) + 1
    <3>1. PICK a \in running : TRUE
      BY <2>1, <1>9, <1>1 DEF Pending
    <3> QED
      BY <3>1, <2>1, <1>7
  <2>2. CASE Dist(b) # Len(fifo) + 1
    <3> DEFINE i == Len(fifo) + 1 - Dist(b)
    <3>1. i \in 1..Len(fifo)
      BY <2>2, <1>1, <1>3, <1>9 DEF Pending
    <3>2. Dist(fifo[i]) = Dist(b)
      BY <3>1, <1>1, <1>3
    <3> QED
      BY <3>1, <3>2, <1>1, <1>7
  <2> QED
    BY <2>1, <2>2
<1>10. ASSUME NEW b \in Batches, Dist(b) > Pending
       PROVE  b \notin running /\ \A i \in 1..Len(fifo) : fifo[i] # b
  BY <1>10, <1>1, <1>3 DEF Pending
<1> QED
  <2>1. ASSUME NEW b \in Batches
        PROVE Dist(b) > Pending <=> b \notin running /\ \A i \in 1..Len(fifo) : fifo[i] # b
    <3>1. Dist(b) > Pending \/ Dist(b) <= Pending
      BY <1>2, <1>3
    <3> QED
      BY <3>1, <1>9, <1>10
  <2> QED
    BY <1>1, <1>2, <1>4, <1>5, <1>6, <1>8, <2>1

-----------------------------------------------------------------------------
(* The application thread: steps that only move its program counter *)

\* Everything but the application thread's own place in its calls stands still.
Still == UNCHANGED <<pool, batch, next, last, issued, upos, wpc, executed>>

\* Most of the invariant does not speak of that place.
LEMMA StillStep ==
  ASSUME IInv, Still
  PROVE  /\ Ring' /\ Fit' /\ Consecutive' /\ Order' /\ CommandsInOrder'
         /\ Pending' = Pending /\ \A b \in Batches : Dist(b)' = Dist(b)
<1> USE DEF IInv, Still, pool, batch
<1>1. Pending' = Pending
  BY DEF Pending
<1>2. \A b : Dist(b)' = Dist(b)
  BY DEF Dist
<1>3. Ring'
  BY <1>1, <1>2 DEF Ring
<1>4. Fit' /\ Consecutive' /\ CommandsInOrder'
  BY DEF Fit, Aligned, Consecutive, First, CommandsInOrder
<1>5. Order'
  BY DEF Order, First, Final, Filled, Settled
<1> QED
  BY <1>1, <1>2, <1>3, <1>4, <1>5

\* The rest of the invariant after such a step.
LEMMA StillRest ==
  ASSUME IInv, Still,
         mpc' \in AppPC \ {"space", "append"}, mpc # "space",
         size' \in Sizes \cup {0},
         after' \in {"return", "call", "restore", "destroy"},
         marshalling' \in BOOLEAN,
         mpc' = "flush" => marshalling' /\ buffer[next] # <<>>,
         mpc' = "wait" => marshalling',
         mpc' = "direct" => Pending = 0,
         mpc' \in {"call", "restore", "destroy", "destroyed"} =>
           Pending = 0 /\ buffer[next] = <<>>,
         ~marshalling' => Pending = 0 /\ buffer[next] = <<>>
  PROVE  IInv'
<1> USE DEF IInv, Still, pool, batch
<1>1. /\ Ring' /\ Fit' /\ Consecutive' /\ Order' /\ CommandsInOrder'
      /\ Pending' = Pending /\ \A b \in Batches : Dist(b)' = Dist(b)
  BY StillStep
<1>2. TypeOK'
  BY DEF TypeOK
<1>3. Fences'
  BY <1>1 DEF Fences
<1>4. Contents'
  BY <1>1 DEF Contents
<1>5. Quiet'
  BY <1>1 DEF Quiet
<1> QED
  BY <1>1, <1>2, <1>3, <1>4, <1>5

\* The fence of glthread->last tells whether anything is in flight.
LEMMA LastTells ==
  ASSUME IInv, mpc # "space"
  PROVE  signalled[last] <=> Pending = 0
<1>1. Pending \in Nat /\ Dist(last) \in 1..MaxBatches
  BY Apart, DistFacts DEF IInv, TypeOK
<1>2. signalled[last] <=> Dist(last) > Pending
  BY DEF IInv, Fences, TypeOK
<1>3. Pending > 0 => Dist(last) = 1
  BY DEF IInv, Ring
<1> QED
  BY <1>1, <1>2, <1>3

\* A flush asked for by the application only moves it.
LEMMA CallFlushStep == IInv /\ CallFlush => IInv'
<1> SUFFICES ASSUME IInv, CallFlush PROVE IInv'
  OBVIOUS
<1>1. Still /\ UNCHANGED <<size, after, marshalling>> /\ mpc = "app" /\ mpc' = "flush"
  BY DEF CallFlush, Still
<1>2. buffer[next] # <<>>
  BY DEF CallFlush, IInv, TypeOK, Contents
<1> QED
  BY <1>1, <1>2, StillRest DEF IInv, TypeOK, Quiet, AppPC

\* So does the start of _mesa_glthread_finish.
LEMMA CallFinishStep ==
  ASSUME NEW k \in {"return", "call", "restore", "destroy"}, IInv, CallFinish(k)
  PROVE  IInv'
<1>1. /\ Still /\ UNCHANGED <<size, marshalling>> /\ after' = k /\ mpc = "app"
      /\ mpc' = IF signalled[last] THEN "direct" ELSE "wait"
  BY DEF CallFinish, Still
<1>2. mpc' = "direct" => Pending = 0
  BY <1>1, LastTells
<1>3. mpc' = "wait" => marshalling
  BY <1>1, LastTells DEF IInv, Quiet
<1> QED
  BY <1>1, <1>2, <1>3, StillRest DEF IInv, TypeOK, Quiet, AppPC

\* The wait for the last batch ends when its fence is signalled.
LEMMA FinishWaitStep == IInv /\ FinishWait => IInv'
<1> SUFFICES ASSUME IInv, FinishWait PROVE IInv'
  OBVIOUS
<1>1. /\ Still /\ UNCHANGED <<size, after, marshalling>> /\ mpc = "wait"
      /\ mpc' = "direct" /\ signalled[last]
  BY DEF FinishWait, Still
<1>2. Pending = 0
  BY <1>1, LastTells
<1> QED
  BY <1>1, <1>2, StillRest DEF IInv, TypeOK, Quiet, AppPC

\* _mesa_glthread_restore_dispatch leaves the batches alone.
LEMMA RestoreStep == IInv /\ RestoreDispatch => IInv'
<1> SUFFICES ASSUME IInv, RestoreDispatch PROVE IInv'
  OBVIOUS
<1>1. /\ Still /\ UNCHANGED size /\ mpc = "restore" /\ after' = "call"
      /\ marshalling' = FALSE
      /\ mpc' = IF signalled[last] THEN "direct" ELSE "wait"
  BY DEF RestoreDispatch, Still
<1>2. Pending = 0 /\ buffer[next] = <<>>
  BY <1>1 DEF IInv, Quiet
<1>3. mpc' = "direct"
  BY <1>1, <1>2, LastTells
<1> QED
  BY <1>1, <1>2, <1>3, StillRest DEF IInv, TypeOK, AppPC

\* util_queue_destroy gives up an empty queue.
LEMMA DestroyStep == IInv /\ Destroy => IInv'
<1> SUFFICES ASSUME IInv, Destroy PROVE IInv'
  OBVIOUS
<1>1. mpc = "destroy" /\ Pending = 0 /\ buffer[next] = <<>>
  BY DEF Destroy, IInv, Quiet
<1>2. fifo = <<>>
  BY <1>1 DEF IInv, TypeOK, Pending
<1>3. fifo' = fifo
  BY <1>2 DEF Destroy, Queue!GiveUp
<1>4. \A b \in Batches : signalled[b]
  BY <1>1, DistFacts DEF IInv, Fences, TypeOK
<1>5. signalled' = signalled
  BY <1>4 DEF Destroy, Queue!GiveUp, IInv, TypeOK
<1>6. /\ Still /\ UNCHANGED <<size, after>> /\ mpc' = "destroyed"
      /\ marshalling' = FALSE
  BY <1>3, <1>5 DEF Destroy, Queue!GiveUp, Still, pool
<1> QED
  BY <1>1, <1>6, StillRest DEF IInv, TypeOK, AppPC

-----------------------------------------------------------------------------
(* The application thread: writing a command *)

\* A command that fits is appended to the batch being filled.
LEMMA WriteStep ==
  ASSUME IInv, NEW n \in Sizes, Write(n), used[next] + n <= MaxCmdSize,
         mpc \in {"app", "append"}, mpc' = "app", marshalling,
         size' \in Sizes \cup {0},
         UNCHANGED <<pool, next, last, after, marshalling, upos, wpc, executed>>
  PROVE  IInv'
<1> USE DEF IInv, pool
<1>1. /\ n \in Nat \ {0} /\ next \in Batches /\ issued \in Nat
      /\ buffer[next] \in Seq(Nat) /\ used[next] \in Nat
  BY ConstantFacts DEF TypeOK
<1>2. /\ ALIGN(n) \in Nat /\ ALIGN(n) > 0 /\ Aligned(used[next] + ALIGN(n))
      /\ used[next] + ALIGN(n) <= MaxCmdSize
  BY <1>1, AlignFits DEF Fit
<1>3. /\ used' = [used EXCEPT ![next] = used[next] + ALIGN(n)]
      /\ buffer' = [buffer EXCEPT ![next] = Append(buffer[next], issued + 1)]
      /\ issued' = issued + 1 /\ next' = next
  BY DEF Write
<1>4. TypeOK'
  BY <1>1, <1>2, <1>3, SMTT(40) DEF TypeOK, AppPC
<1>5. /\ buffer'[next] = Append(buffer[next], issued + 1)
      /\ used'[next] = used[next] + ALIGN(n)
      /\ \A b \in Batches \ {next} : buffer'[b] = buffer[b] /\ used'[b] = used[b]
  BY <1>1, <1>3 DEF TypeOK
<1>6. /\ buffer'[next] \in Seq(Nat) /\ buffer'[next] # <<>>
      /\ Len(buffer[next]) \in Nat /\ Len(buffer'[next]) = Len(buffer[next]) + 1
      /\ buffer'[next][Len(buffer[next]) + 1] = issued + 1
      /\ \A i \in 1..Len(buffer[next]) : buffer'[next][i] = buffer[next][i]
  BY <1>1, <1>5, AppendFacts, SMTT(40)
<1>7. Pending' = Pending /\ \A b : Dist(b)' = Dist(b)
  BY DEF Pending, Dist
<1>8. /\ \A i \in 1..Len(fifo) : fifo[i] \in Batches \ {next}
      /\ running \subseteq Batches \ {next}
  BY Apart DEF TypeOK
<1>9. Ring' /\ Fences'
  BY <1>7 DEF Ring, Fences
<1>10. Contents'
  <2>1. used'[next] # 0
    BY <1>1, <1>2, <1>5
  <2> QED
    BY <2>1, <1>1, <1>3, <1>5, <1>6, <1>7, <1>8 DEF Contents
<1>11. Quiet'
  BY <1>7 DEF Quiet
<1>12. Fit'
  BY <1>2, <1>5 DEF Fit
<1>13. issued' - Len(buffer'[next]) = issued - Len(buffer[next])
  <2>1. issued' = issued + 1 /\ issued \in Int
    BY <1>1, <1>3
  <2>2. Len(buffer[next]) \in Int /\ Len(buffer'[next]) = Len(buffer[next]) + 1
    BY <1>6
  <2> QED
    BY <2>1, <2>2
<1>14. buffer'[next][1] = issued - Len(buffer[next]) + 1
  <2>1. CASE buffer[next] = <<>>
    BY <2>1, <1>1, <1>6
  <2>2. CASE buffer[next] # <<>>
    <3>1. buffer[next][1] = issued - Len(buffer[next]) + 1
      BY <2>2 DEF Order, First, Filled
    <3>2. 1 \in 1..Len(buffer[next])
      BY <2>2, <1>1
    <3> QED
      BY <3>1, <3>2, <1>6
  <2> QED
    BY <2>1, <2>2
<1>15. \A i \in 1..Len(buffer'[next]) : buffer'[next][i] = buffer'[next][1] + i - 1
  <2>1. SUFFICES ASSUME NEW i \in 1..Len(buffer[next])+1
                 PROVE  buffer'[next][i] = buffer'[next][1] + i - 1
    BY <1>6
  <2>2. CASE i = Len(buffer[next]) + 1
    BY <2>2, <1>1, <1>6, <1>14
  <2>3. CASE i # Len(buffer[next]) + 1
    <3>1. i \in 1..Len(buffer[next]) /\ 1 \in 1..Len(buffer[next])
      BY <2>3, <1>6
    <3> QED
      BY <3>1, <1>1, <1>6 DEF Consecutive, First
  <2> QED
    BY <2>2, <2>3
<1>16. Consecutive'
  <2>1. SUFFICES ASSUME NEW b \in Batches
                 PROVE  \A i \in 1..Len(buffer'[b]) : buffer'[b][i] = buffer'[b][1] + i - 1
    BY DEF Consecutive, First
  <2> QED
    BY <1>5, <1>15 DEF Consecutive, First
<1>17. Order'
  <2>1. Filled' = Filled
    BY <1>3, <1>13 DEF Filled
  <2>2. First(next)' = Filled + 1
    BY <1>3, <1>14 DEF First, Filled
  <2>3. \A b \in Batches \ {next} : First(b)' = First(b) /\ Final(b)' = Final(b)
    BY <1>5 DEF First, Final
  <2> QED
    BY <2>1, <2>2, <2>3, <1>3, <1>5, <1>8 DEF Order, Settled
<1>18. CommandsInOrder'
  BY DEF CommandsInOrder
<1> QED
  BY <1>4, <1>9, <1>10, <1>11, <1>12, <1>16, <1>17, <1>18

\* A command is written into its batch, or makes it overflow.
LEMMA AllocateStep ==
  ASSUME NEW n \in Sizes, IInv, Allocate(n)
  PROVE  IInv'
<1>1. n \in Nat /\ n <= MaxCmdSize /\ used[next] \in Nat /\ MaxCmdSize \in Nat
  BY GLThreadAssumption DEF IInv, TypeOK
<1>2. CASE used[next] + n > MaxCmdSize
  <2>1. /\ Still /\ UNCHANGED <<after, marshalling>> /\ size' = n /\ mpc = "app"
        /\ mpc' = "flush" /\ marshalling
    BY <1>2 DEF Allocate, Still, batch
  <2>2. used[next] # 0
    BY <1>1, <1>2
  <2>3. buffer[next] # <<>>
    BY <2>2 DEF IInv, TypeOK, Contents
  <2> QED
    BY <2>1, <2>3, StillRest DEF IInv, TypeOK, Quiet, AppPC
<1>3. CASE used[next] + n <= MaxCmdSize
  <2>1. ~(used[next] + n > MaxCmdSize)
    BY <1>1, <1>3
  <2>2. /\ Write(n) /\ mpc = "app" /\ mpc' = "app" /\ marshalling /\ size' = size
        /\ UNCHANGED <<pool, next, last, after, marshalling, upos, wpc, executed>>
    BY <2>1 DEF Allocate
  <2>3. size \in Sizes \cup {0}
    BY DEF IInv, TypeOK
  <2> QED
    BY <1>3, <2>2, <2>3, WriteStep
<1> QED
  BY <1>1, <1>2, <1>3

\* The command that made its batch overflow fits in the empty one after it.
LEMMA AppendStep == IInv /\ AppendCommand => IInv'
<1> SUFFICES ASSUME IInv, AppendCommand PROVE IInv'
  OBVIOUS
<1>1. mpc = "append" /\ buffer[next] = <<>> /\ size # 0 /\ size \in Sizes
  BY DEF AppendCommand, IInv, TypeOK, Contents
<1>2. used[next] = 0 /\ marshalling
  BY <1>1 DEF IInv, TypeOK, Contents, Quiet
<1>3. used[next] + size <= MaxCmdSize
  BY <1>1, <1>2, GLThreadAssumption
<1> QED
  BY <1>1, <1>2, <1>3, WriteStep DEF AppendCommand

-----------------------------------------------------------------------------
(* The application thread: submitting a batch *)

\* util_queue_add_job has reset the fence and waits for room.
LEMMA AnnounceStep ==
  ASSUME IInv, mpc = "flush", Queue!Announce(next), mpc' = "space",
         UNCHANGED <<next, last, batch, size, after, marshalling, issued, upos,
                     wpc, executed>>
  PROVE  IInv'
<1> USE DEF IInv, Queue!Announce, batch
<1>1. Pending' = Pending /\ \A b : Dist(b)' = Dist(b)
  BY DEF Pending, Dist
<1>2. TypeOK'
  BY DEF TypeOK, AppPC
<1>3. Ring' /\ Contents' /\ Quiet'
  BY <1>1 DEF Ring, Contents, Quiet
<1>4. Fences'
  BY <1>1 DEF Fences, TypeOK
<1>5. Fit' /\ Consecutive' /\ CommandsInOrder'
  BY DEF Fit, Aligned, Consecutive, First, CommandsInOrder
<1>6. Order'
  BY DEF Order, First, Final, Filled, Settled
<1> QED
  BY <1>2, <1>3, <1>4, <1>5, <1>6

\* A batch is queued, and the ring turns. There is room for QueueSize batches
\* in the queue only, so that the batch after the submitted one is free.
LEMMA SubmitStep ==
  ASSUME IInv, mpc \in {"flush", "space"}, Submit,
         UNCHANGED <<batch, size, after, marshalling, issued, upos, wpc, executed>>
  PROVE  IInv'
<1> USE DEF IInv, batch
<1>1. /\ next \in Batches /\ fifo \in Seq(Batches) /\ running \subseteq Batches
      /\ marshalling /\ buffer[next] # <<>> /\ buffer[next] \in Seq(Nat)
      /\ signalled \in [Batches -> BOOLEAN]
  BY DEF TypeOK, Quiet, Contents
<1>2. /\ Len(fifo) < MaxBatches - 2 /\ fifo' = Append(fifo, next)
      /\ signalled' = [signalled EXCEPT ![next] = FALSE]
      /\ running' = running /\ dropped' = dropped
      /\ last' = next /\ next' = (next + 1) % MaxBatches
      /\ mpc' = IF size = 0 THEN "app" ELSE "append"
  BY DEF Submit, Queue!Enqueue, Queue!HasRoom, QueueSize
<1>3. /\ Len(fifo) \in Nat /\ fifo' \in Seq(Batches) /\ fifo' # <<>>
      /\ Len(fifo') = Len(fifo) + 1 /\ fifo'[Len(fifo) + 1] = next
      /\ \A i \in 1..Len(fifo) : fifo'[i] = fifo[i]
  BY <1>1, <1>2, AppendFacts
<1>4. /\ next' \in Batches /\ next' # next /\ Dist(next') = MaxBatches - 1
      /\ \A b \in Batches : Dist(b)' = IF b = next THEN 1 ELSE Dist(b) + 1
  BY <1>1, <1>2, DistTurn
<1>5. /\ Pending \in Nat /\ Pending < MaxBatches
      /\ \A i \in 1..Len(fifo) : fifo[i] \in Batches \ {next}
      /\ running \subseteq Batches \ {next}
  BY <1>1, Apart
<1>6. Pending' = Pending + 1 /\ Pending < MaxBatches - 1 /\ MaxBatches \in Nat
  BY <1>2, <1>3, ConstantFacts DEF Pending
<1>7. buffer[next'] = <<>>
  BY <1>4, <1>5, <1>6 DEF Contents
<1>8. \A b \in Batches : Dist(b) \in Nat
  BY <1>1, <1>6, DistFacts
<1>9. TypeOK'
  BY <1>1, <1>2, <1>3, <1>4 DEF TypeOK, AppPC
<1>10. Ring'
  <2>1. \A i \in 1..Len(fifo') : Dist(fifo[i])' = Len(fifo') - i + 1
    <3>1. SUFFICES ASSUME NEW i \in 1..Len(fifo)+1
                   PROVE  Dist(fifo[i])' = Len(fifo) + 1 - i + 1
      BY <1>3
    <3>2. CASE i = Len(fifo) + 1
      BY <3>2, <1>1, <1>3, <1>4
    <3>3. CASE i # Len(fifo) + 1
      <4>1. i \in 1..Len(fifo)
        BY <3>3, <1>3
      <4>2. Dist(fifo[i]) = Len(fifo) - i + 1 /\ fifo'[i] = fifo[i]
        BY <4>1, <1>3 DEF Ring
      <4> QED
        BY <4>1, <4>2, <1>3, <1>4, <1>5
    <3> QED
      BY <3>2, <3>3
  <2> QED
    BY <2>1, <1>2, <1>3, <1>4, <1>5, <1>6, ConstantFacts DEF Ring, QueueSize
<1>11. Fences'
  BY <1>1, <1>2, <1>4, <1>5, <1>6, <1>8, SMTT(40) DEF Fences
<1>12. Contents'
  BY <1>1, <1>2, <1>3, <1>4, <1>5, <1>6, <1>7, <1>8, SMTT(40) DEF Contents
<1>13. Quiet'
  BY <1>1, <1>2 DEF Quiet
<1>14. Fit' /\ Consecutive' /\ CommandsInOrder'
  BY DEF Fit, Aligned, Consecutive, First, CommandsInOrder
<1>15. Order'
  <2>1. \A b \in Batches : First(b)' = First(b) /\ Final(b)' = Final(b)
    BY DEF First, Final
  <2>2. First(next) = Filled + 1 /\ Filled' = Final(next)
    BY <1>1, <1>7 DEF Order, Filled, Final, First, TypeOK
  <2> QED
    BY <2>1, <2>2, <1>1, <1>2, <1>3, <1>5, <1>7, SMTT(40) DEF Order, Settled
<1> QED
  BY <1>9, <1>10, <1>11, <1>12, <1>13, <1>14, <1>15

-----------------------------------------------------------------------------
(* The application thread: executing commands itself *)

\* Nothing is in flight: the ring is empty but for the batch being filled.
LEMMA NothingInFlight ==
  ASSUME IInv, Pending = 0
  PROVE  fifo = <<>> /\ running = {} /\ Filled = Len(executed)
<1>1. fifo \in Seq(Batches)
  BY DEF IInv, TypeOK
<1>2. fifo = <<>> /\ running = {}
  BY <1>1 DEF Pending
<1> QED
  BY <1>2 DEF IInv, Order, Settled

\* The batch being filled is executed by the application itself.
LEMMA FinishDirectStep == IInv /\ FinishDirect => IInv'
<1> SUFFICES ASSUME IInv, FinishDirect PROVE IInv'
  OBVIOUS
<1> USE DEF IInv, pool
<1>1. Pending = 0
  BY DEF FinishDirect, Quiet
<1>2. fifo = <<>> /\ running = {} /\ Filled = Len(executed)
  BY <1>1, NothingInFlight
<1>3. /\ UNCHANGED <<fifo, running, dropped, signalled, next, last, size, after,
                     marshalling, issued, upos, wpc>>
      /\ executed' = executed \o buffer[next]
      /\ used' = [used EXCEPT ![next] = 0]
      /\ buffer' = [buffer EXCEPT ![next] = <<>>]
      /\ mpc' = IF after = "return" THEN "app" ELSE after
  BY DEF FinishDirect
<1>4. /\ next \in Batches /\ issued \in Nat /\ executed \in Seq(Nat)
      /\ buffer[next] \in Seq(Nat)
      /\ after \in {"return", "call", "restore", "destroy"}
  BY DEF TypeOK
<1>5. TypeOK'
  BY <1>3, <1>4 DEF TypeOK, AppPC
<1>6. /\ buffer'[next] = <<>> /\ used'[next] = 0
      /\ \A b \in Batches \ {next} : buffer'[b] = buffer[b] /\ used'[b] = used[b]
  BY <1>3, <1>4 DEF TypeOK
<1>7. Pending' = Pending /\ \A b : Dist(b)' = Dist(b)
  BY <1>3 DEF Pending, Dist
<1>8. Ring'
  BY <1>3, <1>7 DEF Ring
<1>9. Fences'
  BY <1>3, <1>4, <1>7 DEF Fences, FinishDirect
<1>10. Contents'
  BY <1>2, <1>3, <1>4, <1>6, <1>7 DEF Contents
<1>11. Quiet'
  BY <1>1, <1>3, <1>4, <1>6, <1>7 DEF Quiet
<1>12. Fit'
  <2>1. Aligned(0)
    <3>1. Align \in Nat
      BY GLThreadAssumption
    <3>2. 0 = 0 * Align
      BY <3>1
    <3> QED
      BY <3>2 DEF Aligned
  <2> QED
    BY <2>1, <1>6, ConstantFacts DEF Fit
<1>13. Consecutive'
  BY <1>6 DEF Consecutive, First
<1>14. /\ Len(executed) \in Nat /\ Len(buffer[next]) \in Nat
       /\ Len(executed') = Len(executed) + Len(buffer[next])
       /\ \A i \in 1..Len(executed) : executed'[i] = executed[i]
       /\ \A i \in 1..Len(buffer[next]) : executed'[Len(executed) + i] = buffer[next][i]
  BY <1>3, <1>4, SMTT(40)
<1>15. issued = Len(executed')
  BY <1>2, <1>4, <1>14 DEF Filled
<1>16. Order'
  BY <1>2, <1>3, <1>4, <1>6, <1>15 DEF Order, Filled, Settled
<1>17. CommandsInOrder'
  <2>1. SUFFICES ASSUME NEW i \in 1..Len(executed') PROVE executed'[i] = i
    BY DEF CommandsInOrder
  <2>2. CASE i <= Len(executed)
    BY <2>2, <1>14 DEF CommandsInOrder
  <2>3. CASE i > Len(executed)
    <3> DEFINE j == i - Len(executed)
    <3>1. j \in 1..Len(buffer[next]) /\ i = Len(executed) + j
      BY <2>3, <1>14
    <3>2. executed'[i] = buffer[next][j]
      BY <3>1, <1>14
    <3>3. buffer[next][j] = First(next) + j - 1
      BY <3>1, <1>4 DEF Consecutive
    <3>4. First(next) = Len(executed) + 1
      <4>1. buffer[next] # <<>>
        BY <3>1
      <4> QED
        BY <4>1, <1>2 DEF Order
    <3> QED
      BY <3>1, <3>2, <3>3, <3>4, <1>14
  <2> QED
    BY <2>2, <2>3, <1>14
<1> QED
  BY <1>5, <1>8, <1>9, <1>10, <1>11, <1>12, <1>13, <1>16, <1>17

\* A direct call, with nothing in flight and nothing in the batch being filled.
LEMMA ServerCallStep ==
  ASSUME IInv, ServerCall, mpc = "call" \/ (mpc = "app" /\ ~marshalling)
  PROVE  IInv'
<1> USE DEF IInv, pool, batch
<1>1. Pending = 0 /\ buffer[next] = <<>>
  BY DEF Quiet
<1>2. fifo = <<>> /\ running = {} /\ Filled = Len(executed)
  BY <1>1, NothingInFlight
<1>3. /\ UNCHANGED <<fifo, running, dropped, signalled, used, buffer, next, last,
                     size, after, marshalling, upos, wpc>>
      /\ issued' = issued + 1 /\ mpc' = "app"
      /\ executed' = Append(executed, issued + 1)
  BY DEF ServerCall
<1>4. issued \in Nat /\ executed \in Seq(Nat)
  BY DEF TypeOK
<1>5. TypeOK'
  BY <1>3, <1>4 DEF TypeOK, AppPC
<1>6. Pending' = Pending /\ \A b : Dist(b)' = Dist(b)
  BY <1>3 DEF Pending, Dist
<1>7. Ring' /\ Fences' /\ Contents' /\ Quiet'
  BY <1>1, <1>3, <1>6 DEF Ring, Fences, Contents, Quiet
<1>8. Fit' /\ Consecutive'
  BY <1>3 DEF Fit, Aligned, Consecutive, First
<1>9. /\ Len(executed) \in Nat /\ Len(executed') = Len(executed) + 1
      /\ executed'[Len(executed) + 1] = issued + 1
      /\ \A i \in 1..Len(executed) : executed'[i] = executed[i]
  BY <1>3, <1>4, AppendFacts
<1>10. issued = Len(executed) /\ issued' = Len(executed')
  BY <1>1, <1>2, <1>3, <1>4, <1>9 DEF Filled
<1>11. Order'
  <2>1. issued' \in Nat /\ buffer'[next'] = <<>> /\ issued' - 0 = issued'
    BY <1>1, <1>3, <1>4
  <2>2. Filled' = issued' - Len(buffer'[next'])
    BY DEF Filled
  <2>3. Filled' = Len(executed')
    BY <2>1, <2>2, <1>10
  <2> QED
    BY <2>3, <1>1, <1>2, <1>3 DEF Order
<1>12. CommandsInOrder'
  <2>1. SUFFICES ASSUME NEW i \in 1..Len(executed)+1 PROVE executed'[i] = i
    BY <1>9 DEF CommandsInOrder
  <2>2. CASE i = Len(executed) + 1
    BY <2>2, <1>9, <1>10
  <2>3. CASE i # Len(executed) + 1
    BY <2>3, <1>9 DEF CommandsInOrder
  <2> QED
    BY <2>2, <2>3
<1> QED
  BY <1>5, <1>7, <1>8, <1>11, <1>12

-----------------------------------------------------------------------------
(* The worker *)

\* The worker takes the oldest batch.
LEMMA WorkerTakeStep == IInv /\ WorkerTake => IInv'
<1> SUFFICES ASSUME IInv, WorkerTake PROVE IInv'
  OBVIOUS
<1> USE DEF IInv, batch, app
<1>1. fifo \in Seq(Batches) /\ fifo # <<>>
  BY DEF TypeOK, WorkerTake, Queue!Take
<1>2. /\ Len(fifo) \in Nat \ {0} /\ Tail(fifo) \in Seq(Batches)
      /\ Len(Tail(fifo)) = Len(fifo) - 1
      /\ Head(fifo) = fifo[1] /\ fifo[1] \in Batches
      /\ \A i \in 1..Len(fifo)-1 : Tail(fifo)[i] = fifo[i + 1]
  BY <1>1, TailFacts
<1>3. /\ fifo' = Tail(fifo) /\ running = {} /\ running' = {fifo[1]}
      /\ upos' = 0 /\ wpc' = "run"
      /\ UNCHANGED <<dropped, signalled, used, buffer, next, last, mpc, size, after,
                     marshalling, issued, executed>>
  BY <1>2, ConstantFacts DEF WorkerTake, Queue!Take
<1>4. TypeOK'
  BY <1>2, <1>3 DEF TypeOK
<1>5. Pending' = Pending /\ \A b : Dist(b)' = Dist(b)
  <2>1. running' # {} /\ Len(fifo') = Len(fifo) - 1
    BY <1>2, <1>3
  <2>2. Pending = Len(fifo) + 0 /\ Pending' = Len(fifo) - 1 + 1
    BY <2>1, <1>3 DEF Pending
  <2>3. Pending' = Pending
    BY <2>2, <1>2
  <2> QED
    BY <2>3, <1>3 DEF Dist
<1>6. Ring'
  <2>1. Dist(fifo[1]) = Len(fifo)
    BY <1>2 DEF Ring
  <2>2. \A b \in running' : Dist(b) = Len(fifo') + 1
    BY <2>1, <1>2, <1>3
  <2>3. \A i \in 1..Len(fifo') : Dist(fifo'[i]) = Len(fifo') - i + 1
    <3>1. SUFFICES ASSUME NEW i \in 1..Len(fifo)-1
                   PROVE  Dist(fifo[i + 1]) = Len(fifo) - 1 - i + 1
      BY <1>2, <1>3
    <3>2. i + 1 \in 1..Len(fifo)
      BY <1>2
    <3>3. Dist(fifo[i + 1]) = Len(fifo) - (i + 1) + 1
      BY <3>2 DEF Ring
    <3> QED
      BY <3>3, <1>2
  <2>4. Len(fifo') <= QueueSize
    BY <1>2, <1>3, ConstantFacts DEF Ring, QueueSize
  <2> QED
    BY <2>2, <2>3, <2>4, <1>3, <1>5 DEF Ring
<1>7. Fences' /\ Quiet'
  BY <1>3, <1>5 DEF Fences, Quiet
<1>8. Contents'
  BY <1>2, <1>3, <1>5 DEF Contents
<1>9. Fit' /\ Consecutive' /\ CommandsInOrder'
  BY <1>3 DEF Fit, Aligned, Consecutive, First, CommandsInOrder
<1>10. Order'
  <2>1. \A b : First(b)' = First(b) /\ Final(b)' = Final(b)
    BY <1>3 DEF First, Final
  <2>2. Filled' = Filled
    BY <1>3 DEF Filled
  <2>3. First(fifo[1]) = Len(executed) + 1 /\ Filled = Final(fifo[Len(fifo)])
    BY <1>1, <1>3 DEF Order, Settled
  <2>4. First(fifo[1]) + 0 = Len(executed) + 1
    BY <2>3, <1>2 DEF First, TypeOK, Contents
  <2>5. /\ \A b \in running' : upos' <= Len(buffer'[b]) /\ First(b) + upos' = Len(executed') + 1
    BY <2>4, <1>2, <1>3 DEF TypeOK
  <2>6. CASE Len(fifo) = 1
    BY <2>1, <2>2, <2>3, <2>5, <2>6, <1>2, <1>3 DEF Order, Settled
  <2>7. CASE Len(fifo) # 1
    <3>1. fifo' # <<>> /\ fifo'[1] = fifo[2] /\ fifo'[Len(fifo')] = fifo[Len(fifo)]
      BY <2>7, <1>2, <1>3
    <3>2. First(fifo[2]) = Final(fifo[1]) + 1
      BY <2>7, <1>2 DEF Order
    <3>3. ASSUME NEW i \in 1..Len(fifo')-1 PROVE First(fifo'[i + 1]) = Final(fifo'[i]) + 1
      <4>1. /\ i + 1 \in 1..Len(fifo)-1 /\ i \in 1..Len(fifo)-1
        BY <1>2, <1>3
      <4>2. fifo'[i] = fifo[i + 1] /\ fifo'[i + 1] = fifo[(i + 1) + 1]
        BY <4>1, <1>2, <1>3
      <4> QED
        BY <4>1, <4>2 DEF Order
    <3> QED
      BY <2>1, <2>2, <2>3, <2>5, <3>1, <3>2, <3>3, <1>3 DEF Order, Settled
  <2> QED
    BY <2>6, <2>7
<1> QED
  BY <1>4, <1>6, <1>7, <1>8, <1>9, <1>10

\* The worker executes one command.
LEMMA UnmarshalCommandStep ==
  ASSUME IInv, NEW b \in Batches, UnmarshalCommand(b)
  PROVE  IInv'
<1> USE DEF IInv, pool, batch, app
<1>1. /\ b \in running /\ wpc = "run" /\ upos < Len(buffer[b]) /\ upos' = upos + 1
      /\ executed' = Append(executed, buffer[b][upos + 1])
      /\ UNCHANGED <<fifo, running, dropped, signalled, used, buffer, next, last, mpc,
                     size, after, marshalling, issued, wpc>>
  BY DEF UnmarshalCommand
<1>2. /\ upos \in Nat /\ executed \in Seq(Nat) /\ buffer[b] \in Seq(Nat)
      /\ Len(buffer[b]) \in Nat
  BY DEF TypeOK
<1>3. upos + 1 \in 1..Len(buffer[b]) /\ 1 \in 1..Len(buffer[b])
  BY <1>1, <1>2
<1>4. buffer[b][upos + 1] = First(b) + (upos + 1) - 1 /\ First(b) \in Nat
      /\ buffer[b][upos + 1] \in Nat
  BY <1>2, <1>3, SMTT(40) DEF Consecutive, First
<1>5. First(b) + upos = Len(executed) + 1
  BY <1>1 DEF Order
<1>6. buffer[b][upos + 1] = Len(executed) + 1
  BY <1>2, <1>4, <1>5
<1>7. /\ Len(executed) \in Nat /\ Len(executed') = Len(executed) + 1
      /\ executed' \in Seq(Nat) /\ executed'[Len(executed) + 1] = Len(executed) + 1
      /\ \A i \in 1..Len(executed) : executed'[i] = executed[i]
  BY <1>1, <1>2, <1>4, <1>6, AppendFacts
<1>8. TypeOK'
  BY <1>1, <1>2, <1>7, SMTT(40) DEF TypeOK
<1>9. Pending' = Pending /\ \A c : Dist(c)' = Dist(c)
  BY <1>1 DEF Pending, Dist
<1>10. Ring' /\ Fences' /\ Quiet' /\ Contents'
  BY <1>1, <1>9 DEF Ring, Fences, Quiet, Contents
<1>11. Fit' /\ Consecutive'
  BY <1>1 DEF Fit, Aligned, Consecutive, First
<1>12. CommandsInOrder'
  <2>1. SUFFICES ASSUME NEW i \in 1..Len(executed)+1 PROVE executed'[i] = i
    BY <1>7 DEF CommandsInOrder
  <2>2. CASE i = Len(executed) + 1
    BY <2>2, <1>7
  <2>3. CASE i # Len(executed) + 1
    BY <2>3, <1>7 DEF CommandsInOrder
  <2> QED
    BY <2>2, <2>3
<1>13. Order'
  <2>1. /\ \A c : First(c)' = First(c) /\ Final(c)' = Final(c)
        /\ Filled' = Filled
    BY <1>1 DEF First, Final, Filled
  <2>2. \A c \in running : c = b
    BY <1>1, Apart
  <2>3. upos' <= Len(buffer[b]) /\ First(b) + upos' = Len(executed') + 1
    <3>1. upos' = upos + 1 /\ upos' <= Len(buffer[b])
      BY <1>1, <1>2
    <3>2. First(b) + (upos + 1) = Len(executed) + 1 + 1
      BY <1>2, <1>4, <1>5, <1>7
    <3> QED
      BY <3>1, <3>2, <1>7
  <2>4. ~Settled /\ ~Settled'
    BY <1>1 DEF Settled
  <2> QED
    BY <2>1, <2>2, <2>3, <2>4, <1>1 DEF Order
<1> QED
  BY <1>8, <1>10, <1>11, <1>12, <1>13

\* The worker is done with the commands and empties the batch.
LEMMA UnmarshalEndStep ==
  ASSUME IInv, NEW b \in Batches, UnmarshalEnd(b)
  PROVE  IInv'
<1> USE DEF IInv, pool, batch, app
<1>1. /\ b \in running /\ wpc = "run" /\ upos >= Len(buffer[b]) /\ wpc' = "signal"
      /\ used' = [used EXCEPT ![b] = 0]
      /\ buffer' = [buffer EXCEPT ![b] = <<>>]
      /\ UNCHANGED <<fifo, running, dropped, signalled, next, last, mpc, size, after,
                     marshalling, issued, upos, executed>>
  BY DEF UnmarshalEnd
<1>2. /\ upos \in Nat /\ buffer[b] \in Seq(Nat) /\ Len(buffer[b]) \in Nat
      /\ Len(executed) \in Nat
  BY DEF TypeOK
<1>3. /\ buffer'[b] = <<>> /\ used'[b] = 0
      /\ \A c \in Batches \ {b} : buffer'[c] = buffer[c] /\ used'[c] = used[c]
  BY <1>1 DEF TypeOK
<1>4. /\ \A c \in running : c = b
      /\ next \in Batches \ {b}
      /\ \A i \in 1..Len(fifo) : fifo[i] \in Batches \ {b}
  BY <1>1, Apart, SMTT(40) DEF TypeOK
<1>5. TypeOK'
  BY <1>1 DEF TypeOK
<1>6. Pending' = Pending /\ \A c : Dist(c)' = Dist(c)
  BY <1>1 DEF Pending, Dist
<1>7. Ring' /\ Fences'
  BY <1>1, <1>6 DEF Ring, Fences
<1>8. Quiet'
  BY <1>1, <1>3, <1>4, <1>6 DEF Quiet
<1>9. Contents'
  BY <1>1, <1>3, <1>4, <1>6 DEF Contents
<1>10. Fit'
  <2>1. Align \in Nat
    BY GLThreadAssumption
  <2>2. 0 = 0 * Align
    BY <2>1
  <2>3. Aligned(0)
    BY <2>2 DEF Aligned
  <2> QED
    BY <2>3, <1>3, ConstantFacts DEF Fit
<1>11. Consecutive'
  BY <1>3 DEF Consecutive, First
<1>12. CommandsInOrder'
  BY <1>1 DEF CommandsInOrder
<1>13. Order'
  <2>1. \A c \in Batches \ {b} : First(c)' = First(c) /\ Final(c)' = Final(c)
    BY <1>3 DEF First, Final
  <2>2. Filled' = Filled
    BY <1>1, <1>3, <1>4 DEF Filled
  <2>3. upos = Len(buffer[b]) /\ First(b) + upos = Len(executed) + 1
    BY <1>1, <1>2 DEF Order
  <2>4. First(b) \in Nat
    <3>1. 1 \in 1..Len(buffer[b])
      BY <1>1, <1>2 DEF Contents
    <3> QED
      BY <3>1, <1>2 DEF First
  <2>5. Final(b) = Len(executed)
    BY <2>3, <2>4, <1>2 DEF Final, First
  <2>6. fifo # <<>> => /\ 1 \in 1..Len(fifo) /\ Len(fifo) \in 1..Len(fifo)
                       /\ \A i \in 1..Len(fifo)-1 : i \in 1..Len(fifo) /\ i+1 \in 1..Len(fifo)
    BY DEF TypeOK
  <2>7. fifo = <<>> => 1..Len(fifo)-1 = {}
    OBVIOUS
  <2> QED
    BY <2>1, <2>2, <2>5, <2>6, <2>7, <1>1, <1>3, <1>4 DEF Order
<1> QED
  BY <1>5, <1>7, <1>8, <1>9, <1>10, <1>11, <1>12, <1>13

\* The worker signals the fence of the batch.
LEMMA WorkerSignalStep ==
  ASSUME IInv, NEW b \in Batches, WorkerSignal(b)
  PROVE  IInv'
<1> USE DEF IInv, batch, app
<1>1. /\ b \in running /\ wpc = "signal" /\ wpc' = "run" /\ running' = running \ {b}
      /\ signalled' = [signalled EXCEPT ![b] = TRUE]
      /\ UNCHANGED <<fifo, dropped, used, buffer, next, last, mpc, size, after,
                     marshalling, issued, upos, executed>>
  BY DEF WorkerSignal, Queue!Complete
<1>2. \A c \in running : c = b
  BY <1>1, Apart
<1>3. running' = {}
  BY <1>1, <1>2
<1>4. TypeOK'
  BY <1>1 DEF TypeOK
<1>5. /\ Len(fifo) \in Nat /\ Pending = Len(fifo) + 1 /\ Pending' = Len(fifo)
      /\ \A c : Dist(c)' = Dist(c)
  BY <1>1, <1>3 DEF Pending, Dist, TypeOK
<1>6. next # b /\ Dist(b) = Len(fifo) + 1
  BY <1>1, Apart DEF Ring
<1>7. \A c \in Batches \ {b} : Dist(c) \in Nat /\ Dist(c) # Len(fifo) + 1
  BY <1>6, DistFacts, ConstantFacts, SMTT(40) DEF TypeOK
<1>8. Ring'
  BY <1>1, <1>3, <1>5 DEF Ring
<1>9. Fences'
  BY <1>1, <1>5, <1>6, <1>7 DEF Fences, TypeOK
<1>10. Contents'
  BY <1>1, <1>3, <1>5, <1>6, <1>7 DEF Contents
<1>11. Quiet'
  BY <1>1, <1>5 DEF Quiet
<1>12. Fit' /\ Consecutive' /\ CommandsInOrder'
  BY <1>1 DEF Fit, Aligned, Consecutive, First, CommandsInOrder
<1>13. Order'
  <2>1. /\ \A c : First(c)' = First(c) /\ Final(c)' = Final(c)
        /\ Filled' = Filled
    BY <1>1 DEF First, Final, Filled
  <2> QED
    BY <2>1, <1>1, <1>3 DEF Order, Settled
<1> QED
  BY <1>4, <1>8, <1>9, <1>10, <1>11, <1>12, <1>13

-----------------------------------------------------------------------------
(* The theorems *)

\* Every step of the application thread and of the worker keeps IInv.
LEMMA IInvInductive == IInv /\ [Next]_vars => IInv'
<1> SUFFICES ASSUME IInv, [Next]_vars PROVE IInv'
  OBVIOUS
<1>1. ASSUME FlushBatch PROVE IInv'
  <2>1. mpc = "flush"
    BY <1>1 DEF FlushBatch
  <2>2. CASE Submit
    BY <1>1, <2>1, <2>2, SubmitStep DEF FlushBatch
  <2>3. CASE Queue!Announce(next) /\ mpc' = "space" /\ UNCHANGED <<next, last>>
    BY <1>1, <2>1, <2>3, AnnounceStep DEF FlushBatch
  <2> QED
    BY <1>1, <2>2, <2>3 DEF FlushBatch
<1>2. ASSUME FlushWoken PROVE IInv'
  BY <1>2, SubmitStep DEF FlushWoken
<1>3. ASSUME SyncCall \/ UnthreadedCall PROVE IInv'
  BY <1>3, ServerCallStep DEF SyncCall, UnthreadedCall
<1>4. CASE AppStep
  BY <1>1, <1>2, <1>3, <1>4, AppendStep, FinishWaitStep, FinishDirectStep,
     RestoreStep, DestroyStep
  DEF AppStep, Finish
<1>5. CASE AppCall
  BY <1>3, <1>5, AllocateStep, CallFlushStep, CallFinishStep DEF AppCall
<1>6. CASE WorkerStep
  BY <1>6, WorkerTakeStep, UnmarshalCommandStep, UnmarshalEndStep, WorkerSignalStep
  DEF WorkerStep
<1>7. CASE UNCHANGED vars
  <2>1. /\ Still /\ UNCHANGED <<mpc, size, after, marshalling>>
    BY <1>7 DEF vars, app, Still
  <2>2. /\ Ring' /\ Fit' /\ Consecutive' /\ Order' /\ CommandsInOrder'
        /\ Pending' = Pending /\ \A b \in Batches : Dist(b)' = Dist(b)
    BY <2>1, StillStep
  <2>3. TypeOK' /\ Fences' /\ Contents' /\ Quiet'
    BY <2>1, <2>2 DEF IInv, TypeOK, Fences, Contents, Quiet, Still, pool, batch
  <2> QED
    BY <2>2, <2>3 DEF IInv
<1> QED
  BY <1>4, <1>5, <1>6, <1>7 DEF Next

\* Everything is empty when _mesa_glthread_init returns.
LEMMA IInvInit == Init => IInv
<1> SUFFICES ASSUME Init PROVE IInv
  OBVIOUS
<1> USE ConstantFacts DEF Init, Queue!Init
<1>1. TypeOK
  BY DEF TypeOK, AppPC, Batches
<1>2. Pending = 0
  BY DEF Pending
<1>3. Ring
  BY <1>2 DEF Ring, QueueSize
<1>4. Fences
  BY <1>1, <1>2, DistFacts DEF Fences, TypeOK
<1>5. Contents /\ Quiet
  BY <1>1, <1>2 DEF Contents, Quiet, TypeOK
<1>6. Fit
  <2>1. Align \in Nat
    BY GLThreadAssumption
  <2>2. 0 = 0 * Align
    BY <2>1
  <2> QED
    BY <2>2 DEF Fit, Aligned
<1>7. Consecutive /\ Order /\ CommandsInOrder
  BY <1>1 DEF Consecutive, Order, CommandsInOrder, Filled, Settled, TypeOK
<1> QED
  BY <1>1, <1>3, <1>4, <1>5, <1>6, <1>7 DEF IInv

\* The invariant holds from the start.
LEMMA IInvHolds == Spec => []IInv
  BY IInvInit, IInvInductive, PTL DEF Spec

\* The context executes the commands in program order, each one once, whatever
\* the number and the size of the batches: _mesa_glthread_flush_batch hands
\* them over in the order of the ring, and _mesa_glthread_finish waits for
\* them before the application thread executes anything itself.
THEOREM InOrder == Spec => []CommandsInOrder
  BY IInvHolds, PTL DEF IInv

\* The batch _mesa_glthread_allocate_command writes to is never with the
\* worker or in the queue, because util_queue_init was given two places less
\* than there are batches.
THEOREM FillingFree == Spec => []FillingBatchIsFree
<1>1. ASSUME IInv PROVE FillingBatchIsFree
  <2> USE <1>1 DEF IInv
  <2>1. /\ next \in Batches /\ next \notin running /\ Pending \in Nat
        /\ Pending < MaxBatches /\ \A i \in 1..Len(fifo) : fifo[i] # next
    BY Apart DEF TypeOK
  <2>2. Dist(next) = MaxBatches /\ MaxBatches \in Nat
    BY <2>1, DistFacts, ConstantFacts
  <2>3. mpc # "space" => signalled[next]
    BY <2>1, <2>2 DEF Fences
  <2>4. next \notin Queue!Queued
    BY <2>1 DEF Queue!Queued, TypeOK
  <2>5. mpc = "append" => used[next] = 0
    BY <2>1 DEF Contents
  <2> QED
    BY <2>1, <2>3, <2>4, <2>5 DEF FillingBatchIsFree
<1> QED
  BY <1>1, IInvHolds, PTL

\* When _mesa_glthread_finish goes on after its wait for the last batch, and
\* for good once _mesa_glthread_restore_dispatch has run, the worker is idle.
THEOREM FinishIdle == Spec => []FinishMeansIdle
<1>1. ASSUME IInv PROVE FinishMeansIdle
  BY <1>1, NothingInFlight DEF IInv, Quiet, FinishMeansIdle
<1> QED
  BY <1>1, IInvHolds, PTL

\* No command is written past the end of a batch's buffer: the test with the
\* unaligned size is enough because the buffer's size and the space used are
\* multiples of the alignment.
THEOREM Fits == Spec => []CommandsFit
<1>1. IInv => CommandsFit
  BY DEF IInv, Fit, CommandsFit
<1> QED
  BY <1>1, IInvHolds, PTL
=============================================================================
