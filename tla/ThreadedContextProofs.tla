----------------------- MODULE ThreadedContextProofs -----------------------
(***************************************************************************)
(* The invariants of module ThreadedContext, for any number of batches,    *)
(* any size of them, any buffer and any number of fences and calls.        *)
(*                                                                         *)
(* The argument has two parts. The ring, the queue and the program         *)
(* counters (Control) make the recorded calls one sequence: those that are *)
(* not yet executed, in program order, with a place for each batch in it   *)
(* (Line). What the application relies on is then a statement about this   *)
(* sequence alone (Promise): a step of the application appends a call to   *)
(* it, and a step of tc_batch_execute takes the first one off.             *)
(***************************************************************************)
EXTENDS ThreadedContext, TLAPS

-----------------------------------------------------------------------------
(* Types *)

\* The calls that are recorded.
CallType ==
  [kind : {"other"}] \cup [kind : {"unmap"}]
    \cup [kind : {"end_query"}, query : Queries]
    \cup [kind : {"flush"}, fence : Fences \cup {0}, deferred : BOOLEAN]
    \cup [kind : {"draw"}, expects : [Cells -> Nat]]
    \cup [kind : {"write"}, box : SUBSET Cells, id : Nat]
    \cup [kind : {"replace"}, src : Storages]

ArgType ==
  [op : {"none"}] \cup [op : {"read"}] \cup [op : {"result"}, query : Queries]
    \cup [op : {"write"}, box : SUBSET Cells]

AppPC == {"app", "submit", "space", "append", "sync", "execute", "direct",
          "callback", "destroy", "destroyed", "result", "list_del", "flush",
          "map", "unsync"}

ExecType ==
  [stage : {"idle", "calls", "queries", "flushed", "signal"}, pos : Nat,
   batch : Batches \cup {NoBatch}, query : Queries \cup {NoBatch}]

ControlTypeOK ==
  /\ fifo \in Seq(Batches) /\ running \in SUBSET Batches
  /\ signalled \in [Batches -> BOOLEAN]
  /\ calls \in [Batches -> Seq(CallType)]
  /\ token \in [Batches -> BOOLEAN] /\ attached \in SUBSET Fences
  /\ next \in Batches /\ last \in Batches
  /\ apc \in AppPC /\ pending \in CallType \cup {NoCall}
  /\ after \in {"app", "submit", "unsync", "direct", "destroy", "result",
                "flush", "map"}
  /\ exec \in [Threads -> ExecType]
  /\ unflushed \in SUBSET Queries

BufferTypeOK ==
  /\ fences \in [Fences -> {"none", "deferred", "submitted", "ready"}]
  /\ storage \in Storages /\ latest \in Storages
  /\ valid \in SUBSET Cells /\ bound \in SUBSET Cells
  /\ mem \in [Storages -> [Cells -> Nat]]
  /\ contents \in [Cells -> Nat] /\ nwrites \in Nat
  /\ untracked \in SUBSET Cells
  /\ arg \in ArgType

-----------------------------------------------------------------------------
(* Control *)

\* How many steps of the ring batch b is behind the one being recorded, which
\* is a whole turn behind itself.
Dist(b) == IF b < next THEN next - b ELSE next - b + MaxBatches

\* The batch after b in the ring.
Succ(b) == IF b + 1 = MaxBatches THEN 0 ELSE b + 1

\* The batches submitted and not yet executed to the end.
Pending == Len(fifo) + (IF running = {} THEN 0 ELSE 1)

\* The batches in flight are the last Pending ones of the ring, the oldest
\* with the driver thread; tc->last is the youngest of them.
Ring ==
  /\ Len(fifo) <= QueueSize
  /\ \A i \in 1..Len(fifo) : Dist(fifo[i]) = Len(fifo) - i + 1
  /\ \A b \in running : Dist(b) = Len(fifo) + 1
  /\ Pending > 0 => Dist(last) = 1

\* A batch's fence is unsignalled while it is in flight, or waits for room in
\* the queue; all the others but the one being recorded are empty.
Flight ==
  \A b \in Batches :
    /\ signalled[b] <=> Dist(b) > Pending /\ ~(apc = "space" /\ b = next)
    /\ Dist(b) > Pending /\ b # next => calls[b] = <<>>

\* tc_batch_execute: the driver thread executes the oldest batch, the
\* application the one it records.
Executes ==
  /\ exec["driver"].stage = "idle" <=> running = {}
  /\ exec["app"].stage = "idle" <=> apc # "execute"
  /\ exec["app"].stage # "signal"
  /\ apc = "execute" => exec["app"].batch = next
  /\ \A b \in running : exec["driver"].batch = b
  /\ exec["driver"].stage = "signal" => calls[exec["driver"].batch] = <<>>
  /\ \A e \in Threads :
       /\ exec[e].stage = "idle" => exec[e].pos = 0
       /\ exec[e].stage \in {"calls", "queries", "flushed"} =>
            exec[e].pos <= Len(calls[exec[e].batch])

\* Where the application is. Nothing is in flight once it has waited, and
\* once it has executed its own batch that is empty.
Place ==
  /\ pending # NoCall => apc \in {"submit", "space", "append"}
  /\ apc = "append" => pending # NoCall
  /\ apc \notin {"submit", "space", "append", "sync", "execute"} => after = "app"
  /\ apc \in {"submit", "space"} /\ pending = NoCall => after = "app"
  /\ apc \in {"submit", "space", "append"} => after \in {"app", "submit", "unsync"}
  /\ apc \in {"sync", "execute"} => after \notin {"submit", "unsync"}
  /\ apc \in {"execute", "direct", "callback", "flush", "map", "destroy",
              "destroyed"} => Pending = 0
  /\ apc \in {"direct", "callback", "flush", "map", "destroy", "destroyed"}
       => calls[next] = <<>>

FlushOf(c, f) == c.kind = "flush" /\ c.fence = f

\* Only the batch being recorded has a token. A fence with this token has its
\* flush in this batch, or right behind it when the batch is full.
Tokens ==
  /\ \A b \in Batches : token[b] => b = next
  /\ attached # {} => token[next]
  /\ apc \in {"space", "append", "execute", "flush"} =>
       attached = {} /\ ~token[next]
  /\ \A f \in attached :
       \/ \E i \in DOMAIN calls[next] : FlushOf(calls[next][i], f)
       \/ apc = "submit" /\ FlushOf(pending, f)

Control ==
  /\ ControlTypeOK
  /\ Ring
  /\ Flight
  /\ Executes
  /\ Place
  /\ Tokens

-----------------------------------------------------------------------------
(* The calls not yet executed, in program order *)

\* The batch whose calls come first, and how many of them are executed.
Oldest(b) == IF Pending = 0 THEN b = next ELSE Dist(b) = Pending

Progress ==
  IF exec["driver"].stage = "idle" THEN exec["app"].pos
  ELSE IF exec["driver"].stage = "signal" THEN 0
  ELSE exec["driver"].pos

\* t is the sequence of the calls not yet executed, and call i of batch b is
\* at place o[b] + i of it, or has been executed.
Line(t, o) ==
  /\ t \in Seq(CallType) /\ o \in [Batches -> Int]
  /\ \A b \in Batches : Oldest(b) => o[b] = 0 - Progress
  /\ \A b \in Batches : Dist(b) <= Pending => o[Succ(b)] = o[b] + Len(calls[b])
  /\ Len(t) = o[next] + Len(calls[next]) + (IF pending = NoCall THEN 0 ELSE 1)
  /\ pending # NoCall => t[Len(t)] = pending
  /\ \A b \in Batches : Dist(b) <= Pending =>
       o[b] + Len(calls[b]) <= o[next] + Len(calls[next])
  /\ \A b \in Batches : b = next \/ Dist(b) <= Pending =>
       \A i \in 1..Len(calls[b]) :
         o[b] + i >= 1 => o[b] + i <= Len(t) /\ t[o[b] + i] = calls[b][i]

-----------------------------------------------------------------------------
(* What the application relies on *)

Replaces(c) == c.kind = "replace"

\* Call k finds storage s in the driver.
InEpoch(t, k, s) ==
  /\ \A j \in 1..k-1 : Replaces(t[j]) => t[j].src <= s
  /\ \/ s = storage
     \/ \E j \in 1..k-1 : Replaces(t[j]) /\ t[j].src = s

Writes(c, x) == c.kind = "write" /\ x \in c.box

\* Call k will find v in cell x of storage s: it is there and stays there, or
\* the last write to the cell before k puts it there.
Finds(t, k, s, x, v) ==
  \/ /\ mem[s][x] = v
     /\ \A j \in 1..k-1 : Writes(t[j], x) => ~InEpoch(t, j, s)
  \/ \E j \in 1..k-1 :
       /\ Writes(t[j], x) /\ t[j].id = v /\ InEpoch(t, j, s)
       /\ \A i \in j+1..k-1 : ~Writes(t[i], x)

\* The storages are replaced in the order of their creation, up to the latest.
Storing(t) ==
  /\ storage <= latest
  /\ \A k \in 1..Len(t) :
       Replaces(t[k]) => storage < t[k].src /\ t[k].src <= latest
  /\ \A j, k \in 1..Len(t) :
       Replaces(t[j]) /\ Replaces(t[k]) /\ j < k => t[j].src < t[k].src
  /\ storage # latest =>
       \E k \in 1..Len(t) : Replaces(t[k]) /\ t[k].src = latest

\* Every draw finds what it expects, and so would one recorded now, in the cells
\* whose writes were tracked.
DrawsFind(t) ==
  \A k \in 1..Len(t) : \A s \in Storages : \A x \in Tracked :
    t[k].kind = "draw" /\ t[k].expects[x] # 0 /\ InEpoch(t, k, s) =>
      Finds(t, k, s, x, t[k].expects[x])

EndFinds(t) ==
  \A x \in Tracked :
    contents[x] # 0 => Finds(t, Len(t) + 1, latest, x, contents[x])

\* A call that relies on cell x or writes to it.
Uses(c, x) ==
  \/ Writes(c, x)
  \/ c.kind = "draw" /\ c.expects[x] # 0

\* A cell of the latest storage that a call uses has contents, and a cell that
\* has contents is in the valid range.
Tracking(t) ==
  /\ \A k \in 1..Len(t) : \A x \in Tracked :
       Uses(t[k], x) /\ InEpoch(t, k, latest) => contents[x] # 0
  /\ \A x \in Tracked : contents[x] # 0 => x \in valid

\* What the application writes without waiting is used by no call.
Unused(t, box) ==
  \A k \in 1..Len(t) : \A x \in box \cap Tracked :
    Uses(t[k], x) => ~InEpoch(t, k, latest)

Unsync(t) ==
  apc = "unsync" \/ after = "unsync" => arg.op = "write" /\ Unused(t, arg.box)

\* A flush that has a fence is executed before anything is waited for.
Flushing(t) ==
  \A f \in Fences :
    fences[f] \in {"deferred", "submitted"} =>
      \E k \in 1..Len(t) : FlushOf(t[k], f)

Promise(t) ==
  /\ BufferTypeOK
  /\ Flushing(t)
  /\ Storing(t)
  /\ DrawsFind(t) /\ EndFinds(t) /\ Tracking(t) /\ Unsync(t)

IInv ==
  /\ Control
  /\ \E t \in Seq(CallType), o \in [Batches -> Int] : Line(t, o) /\ Promise(t)

-----------------------------------------------------------------------------
(* The ring *)

\* The assumptions on the constants, in the form the proofs use.
LEMMA ConstantFacts ==
  /\ MaxBatches \in Nat /\ MaxBatches >= 3
  /\ NoBatch \notin Batches /\ 0 \in Batches
  /\ Cells \subseteq Nat /\ Boxes \subseteq SUBSET Cells
  /\ MaxStorages \in Nat /\ 0 \in Storages /\ Storages \subseteq Nat
  /\ Fences \subseteq Nat \ {0}
  BY ThreadedContextAssumption DEF Batches, Storages, Fences

\* The distance behind next numbers the batches from 1 to MaxBatches.
LEMMA DistFacts ==
  ASSUME next \in Batches, NEW b \in Batches
  PROVE  /\ Dist(b) \in 1..MaxBatches
         /\ Dist(b) = MaxBatches <=> b = next
         /\ \A a \in Batches : Dist(a) = Dist(b) => a = b
  BY ConstantFacts DEF Dist, Batches

\* The batch after b is one step less behind.
LEMMA SuccFacts ==
  ASSUME next \in Batches, NEW b \in Batches
  PROVE  /\ Succ(b) \in Batches
         /\ Dist(b) = 1 => Succ(b) = next
         /\ Dist(b) # 1 => Dist(Succ(b)) = Dist(b) - 1 /\ Succ(b) # next
  BY ConstantFacts DEF Dist, Succ, Batches

\* The ring turns by one batch.
LEMMA DistTurn ==
  ASSUME next \in Batches, next' = (next + 1) % MaxBatches
  PROVE  /\ next' \in Batches /\ next' # next
         /\ Dist(next') = MaxBatches - 1
         /\ \A b \in Batches : Dist(b)' = IF b = next THEN 1 ELSE Dist(b) + 1
<1>1. next' = IF next + 1 = MaxBatches THEN 0 ELSE next + 1
  <2>1. CASE next + 1 = MaxBatches
    <3>1. MaxBatches % MaxBatches = 0
      BY ConstantFacts
    <3> QED
      BY <2>1, <3>1
  <2>2. CASE next + 1 # MaxBatches
    <3>1. next + 1 \in 0..MaxBatches-1
      BY <2>2, ConstantFacts DEF Batches
    <3>2. (next + 1) % MaxBatches = next + 1
      BY <3>1, ConstantFacts
    <3> QED
      BY <2>2, <3>2
  <2> QED
    BY <2>1, <2>2
<1> QED
  BY <1>1, ConstantFacts DEF Dist, Batches

\* Appending an element to a sequence.
LEMMA AppendFacts ==
  ASSUME NEW S, NEW s \in Seq(S), NEW e \in S
  PROVE  /\ Len(s) \in Nat
         /\ Append(s, e) \in Seq(S) /\ Append(s, e) # <<>>
         /\ Len(Append(s, e)) = Len(s) + 1
         /\ Append(s, e)[Len(s) + 1] = e
         /\ \A i \in 1..Len(s) : Append(s, e)[i] = s[i]
<1>1. Len(s) \in Nat /\ Len(Append(s, e)) = Len(s) + 1
  OBVIOUS
<1>2. Append(s, e) # <<>>
  BY <1>1
<1> QED
  BY <1>1, <1>2

\* Removing the first element of a sequence.
LEMMA TailFacts ==
  ASSUME NEW S, NEW s \in Seq(S), s # <<>>
  PROVE  /\ Len(s) \in Nat \ {0} /\ Tail(s) \in Seq(S) /\ Len(Tail(s)) = Len(s) - 1
         /\ Head(s) = s[1] /\ s[1] \in S
         /\ \A i \in 1..Len(s)-1 : Tail(s)[i] = s[i + 1]
  OBVIOUS

\* The batches in flight are different ones, and not the one being filled.
LEMMA Apart ==
  ASSUME ControlTypeOK, Ring
  PROVE  /\ Pending \in Nat /\ Pending < MaxBatches
         /\ \A i \in 1..Len(fifo) :
              fifo[i] \in Batches /\ fifo[i] # next /\ fifo[i] \notin running
         /\ \A i, j \in 1..Len(fifo) : fifo[i] = fifo[j] => i = j
         /\ next \notin running
         /\ \A a, b \in running : a = b
         /\ \A b \in Batches :
              Dist(b) > Pending <=> b \notin running /\ \A i \in 1..Len(fifo) : fifo[i] # b
<1>1. /\ MaxBatches \in Nat /\ Len(fifo) \in Nat /\ Len(fifo) <= MaxBatches - 2
      /\ next \in Batches /\ running \subseteq Batches
      /\ \A i \in 1..Len(fifo) : fifo[i] \in Batches
      /\ \A i \in 1..Len(fifo) : Dist(fifo[i]) = Len(fifo) - i + 1
      /\ \A b \in running : Dist(b) = Len(fifo) + 1
  BY ConstantFacts DEF ControlTypeOK, Ring, QueueSize
<1> USE <1>1
<1>2. Pending \in Nat /\ Pending < MaxBatches
  BY <1>1 DEF Pending
<1>3. \A b \in Batches : Dist(b) \in 1..MaxBatches /\ (Dist(b) = MaxBatches <=> b = next)
  BY DistFacts
<1>4. \A i \in 1..Len(fifo) : fifo[i] # next /\ fifo[i] \notin running
  BY <1>1, <1>3
<1>5. \A i, j \in 1..Len(fifo) : fifo[i] = fifo[j] => i = j
  BY <1>1, <1>3
<1>6. next \notin running
  BY <1>1, <1>3
<1>7. \A a, b \in Batches : Dist(a) = Dist(b) => a = b
  BY DistFacts
<1>8. \A a, b \in running : a = b
  BY <1>7
<1>9. ASSUME NEW b \in Batches, Dist(b) <= Pending
      PROVE  b \in running \/ \E i \in 1..Len(fifo) : fifo[i] = b
  <2>1. CASE Dist(b) = Len(fifo) + 1
    <3>1. PICK a \in running : TRUE
      BY <2>1, <1>9, <1>1 DEF Pending
    <3> QED
      BY <3>1, <2>1, <1>7
  <2>2. CASE Dist(b) # Len(fifo) + 1
    <3> DEFINE i == Len(fifo) + 1 - Dist(b)
    <3>1. i \in 1..Len(fifo)
      BY <2>2, <1>1, <1>3, <1>9 DEF Pending
    <3>2. Dist(fifo[i]) = Dist(b)
      BY <3>1, <1>1, <1>3
    <3> QED
      BY <3>1, <3>2, <1>1, <1>7
  <2> QED
    BY <2>1, <2>2
<1>10. ASSUME NEW b \in Batches, Dist(b) > Pending
       PROVE  b \notin running /\ \A i \in 1..Len(fifo) : fifo[i] # b
  BY <1>10, <1>1, <1>3 DEF Pending
<1> QED
  <2>1. ASSUME NEW b \in Batches
        PROVE Dist(b) > Pending <=> b \notin running /\ \A i \in 1..Len(fifo) : fifo[i] # b
    <3>1. Dist(b) > Pending \/ Dist(b) <= Pending
      BY <1>2, <1>3
    <3> QED
      BY <3>1, <1>9, <1>10
  <2> QED
    BY <1>1, <1>2, <1>4, <1>5, <1>6, <1>8, <2>1

-----------------------------------------------------------------------------
(* The calls *)

\* The fields of a call, by its kind.
LEMMA CallFacts ==
  ASSUME NEW c \in CallType
  PROVE  /\ c.kind = "write" => c.box \in SUBSET Cells /\ c.id \in Nat
         /\ c.kind = "draw" => c.expects \in [Cells -> Nat]
         /\ c.kind = "replace" => c.src \in Storages
         /\ c.kind = "flush" => c.fence \in Fences \cup {0} /\ c.deferred \in BOOLEAN
         /\ c.kind = "end_query" => c.query \in Queries
         /\ c # NoCall
  BY DEF CallType, NoCall

\* A call that replaces the storage names one.
LEMMA ReplaceFacts ==
  ASSUME NEW t \in Seq(CallType), NEW k \in 1..Len(t), Replaces(t[k])
  PROVE  t[k].src \in Storages /\ t[k].src \in Nat
<1>1. t[k] \in CallType
  OBVIOUS
<1> QED
  BY <1>1, CallFacts, ConstantFacts DEF Replaces

\* The calls the actions record are calls.
LEMMA CallMembers ==
  /\ Plain \in CallType /\ [kind |-> "unmap"] \in CallType
  /\ \A q \in Queries : [kind |-> "end_query", query |-> q] \in CallType
  /\ \A f \in Fences \cup {0}, d \in BOOLEAN :
       [kind |-> "flush", fence |-> f, deferred |-> d] \in CallType
  /\ \A m \in [Cells -> Nat] : [kind |-> "draw", expects |-> m] \in CallType
  /\ \A box \in SUBSET Cells, n \in Nat :
       [kind |-> "write", box |-> box, id |-> n] \in CallType
  /\ \A s \in Storages : [kind |-> "replace", src |-> s] \in CallType
  BY DEF CallType, Plain

-----------------------------------------------------------------------------
(* Promise: calls are appended *)

\* What a call finds depends on the calls before it only.
LEMMA EpochPrefix ==
  ASSUME NEW t \in Seq(CallType), NEW u \in Seq(CallType),
         \A j \in 1..Len(t) : u[j] = t[j],
         storage' = storage, NEW k \in 1..Len(t)+1, NEW s
  PROVE  InEpoch(u, k, s)' <=> InEpoch(t, k, s)
<1>1. \A j \in 1..k-1 : j \in 1..Len(t)
  OBVIOUS
<1>2. \A j \in 1..k-1 : u[j] = t[j]
  BY <1>1
<1> QED
  BY <1>2 DEF InEpoch, Replaces

\* What a call finds depends on the calls before it only.
LEMMA FindsPrefix ==
  ASSUME NEW t \in Seq(CallType), NEW u \in Seq(CallType),
         \A j \in 1..Len(t) : u[j] = t[j],
         storage' = storage, NEW k \in 1..Len(t)+1, NEW s, NEW x, NEW v,
         mem'[s][x] = mem[s][x], Finds(t, k, s, x, v)
  PROVE  Finds(u, k, s, x, v)'
<1>1. Len(t) \in Nat
  OBVIOUS
<1>2. \A j \in 1..k-1 : j \in 1..Len(t) /\ j \in 1..Len(t)+1
  BY <1>1
<1>3. \A j \in 1..k-1 : u[j] = t[j] /\ (InEpoch(u, j, s)' <=> InEpoch(t, j, s))
  BY <1>2, EpochPrefix
<1>4. CASE mem[s][x] = v /\ \A j \in 1..k-1 : Writes(t[j], x) => ~InEpoch(t, j, s)
  BY <1>3, <1>4 DEF Finds, Writes
<1>5. ASSUME NEW j \in 1..k-1, Writes(t[j], x), t[j].id = v, InEpoch(t, j, s),
             \A i \in j+1..k-1 : ~Writes(t[i], x)
      PROVE  Finds(u, k, s, x, v)'
  <2>1. \A i \in j+1..k-1 : i \in 1..k-1
    OBVIOUS
  <2> QED
    BY <1>3, <1>5, <2>1 DEF Finds, Writes
<1> QED
  BY <1>4, <1>5 DEF Finds

\* Behind all the calls the storage is the latest.
LEMMA EndEpoch ==
  ASSUME BufferTypeOK, NEW t \in Seq(CallType), Storing(t), NEW s
  PROVE  InEpoch(t, Len(t) + 1, s) <=> s = latest
<1>1. Len(t) \in Nat /\ Len(t) + 1 - 1 = Len(t)
  OBVIOUS
<1>2. storage \in Nat /\ latest \in Nat
  BY ConstantFacts DEF BufferTypeOK
<1>3. \A k \in 1..Len(t) : Replaces(t[k]) => t[k].src \in Nat
  BY ReplaceFacts
<1>4. ASSUME InEpoch(t, Len(t) + 1, s) PROVE s = latest
  <2>1. CASE storage = latest
    BY <2>1, <1>1, <1>2, <1>3, <1>4 DEF InEpoch, Storing
  <2>2. CASE storage # latest
    <3>1. PICK k \in 1..Len(t) : Replaces(t[k]) /\ t[k].src = latest
      BY <2>2 DEF Storing
    <3>2. latest <= s
      BY <3>1, <1>1, <1>4 DEF InEpoch
    <3> QED
      BY <3>2, <1>1, <1>2, <1>3, <1>4 DEF InEpoch, Storing
  <2> QED
    BY <2>1, <2>2
<1>5. ASSUME s = latest PROVE InEpoch(t, Len(t) + 1, s)
  BY <1>5, <1>1 DEF InEpoch, Storing
<1> QED
  BY <1>4, <1>5

\* Recording a call that replaces no storage keeps the storages in order.
LEMMA StoringAppend ==
  ASSUME NEW t \in Seq(CallType), NEW c \in CallType, NEW u, u = Append(t, c),
         Storing(t), ~Replaces(c), UNCHANGED <<storage, latest>>
  PROVE  Storing(u)'
<1>1. /\ Len(t) \in Nat /\ Len(u) = Len(t) + 1 /\ u[Len(u)] = c
      /\ \A j \in 1..Len(t) : u[j] = t[j]
  BY AppendFacts
<1>2. \A j \in 1..Len(u) : Replaces(u[j]) => j \in 1..Len(t) /\ u[j] = t[j]
  BY <1>1
<1>3. \A j \in 1..Len(t) : j \in 1..Len(u)
  BY <1>1
<1>4. \A j, k \in 1..Len(u) :
        Replaces(u[j]) /\ Replaces(u[k]) /\ j < k => u[j].src < u[k].src
  BY <1>2 DEF Storing
<1>5. \A k \in 1..Len(u) :
        Replaces(u[k]) => storage < u[k].src /\ u[k].src <= latest
  BY <1>2 DEF Storing
<1>6. storage # latest => \E k \in 1..Len(u) : Replaces(u[k]) /\ u[k].src = latest
  BY <1>1, <1>3 DEF Storing
<1> QED
  BY <1>4, <1>5, <1>6 DEF Storing, Replaces

\* Recording a call keeps a flush for every fence on its way.
LEMMA FlushingAppend ==
  ASSUME NEW t \in Seq(CallType), NEW c \in CallType, NEW u, u = Append(t, c),
         Flushing(t), \A f \in Fences : fences'[f] = fences[f] \/ FlushOf(c, f)
  PROVE  Flushing(u)'
<1>1. /\ Len(t) \in Nat /\ Len(u) = Len(t) + 1 /\ u[Len(u)] = c
      /\ \A j \in 1..Len(t) : u[j] = t[j]
  BY AppendFacts
<1>2. Len(u) \in 1..Len(u) /\ \A j \in 1..Len(t) : j \in 1..Len(u)
  BY <1>1
<1> SUFFICES ASSUME NEW f \in Fences, fences'[f] \in {"deferred", "submitted"}
             PROVE  \E k \in 1..Len(u) : FlushOf(u[k], f)
  BY DEF Flushing, FlushOf
<1>3. CASE FlushOf(c, f)
  BY <1>1, <1>2, <1>3
<1>4. CASE fences'[f] = fences[f]
  BY <1>1, <1>2, <1>4 DEF Flushing
<1> QED
  BY <1>3, <1>4

\* Recording a call keeps what the draws before it find, and finds the contents
\* itself.
LEMMA DrawsFindAppend ==
  ASSUME NEW t \in Seq(CallType), NEW c \in CallType, NEW u, u = Append(t, c),
         BufferTypeOK, Storing(t), DrawsFind(t), EndFinds(t), storage' = storage,
         Tracked' \subseteq Tracked,
         c.kind = "draw" => c.expects = contents /\ mem' = mem,
         \A k \in 1..Len(t) : \A s \in Storages : \A x \in Tracked :
           Uses(t[k], x) /\ InEpoch(t, k, s) => mem'[s][x] = mem[s][x]
  PROVE  DrawsFind(u)'
<1>1. /\ Len(t) \in Nat /\ Len(u) = Len(t) + 1 /\ u[Len(u)] = c
      /\ u \in Seq(CallType) /\ \A j \in 1..Len(t) : u[j] = t[j]
  BY AppendFacts
<1> SUFFICES ASSUME NEW k \in 1..Len(u), NEW s \in Storages, NEW x \in Tracked,
                    u[k].kind = "draw", u[k].expects[x] # 0, InEpoch(u, k, s)'
             PROVE  Finds(u, k, s, x, u[k].expects[x])'
  BY DEF DrawsFind
<1>2. k \in 1..Len(t)+1
  BY <1>1
<1>3. InEpoch(t, k, s)
  BY <1>1, <1>2, EpochPrefix
<1>4. CASE k \in 1..Len(t)
  <2>1. Finds(t, k, s, x, t[k].expects[x]) /\ mem'[s][x] = mem[s][x]
    BY <1>1, <1>3, <1>4 DEF DrawsFind, Uses
  <2>2. Finds(u, k, s, x, t[k].expects[x])'
    BY <1>1, <1>2, <2>1, FindsPrefix
  <2> QED
    BY <1>1, <1>4, <2>2
<1>5. CASE k = Len(t) + 1
  <2>1. u[k] = c /\ c.kind = "draw" /\ c.expects = contents /\ mem' = mem
    BY <1>1, <1>5
  <2>2. s = latest
    BY <1>3, <1>5, EndEpoch
  <2>3. Finds(t, k, s, x, contents[x])
    BY <2>1, <2>2, <1>5 DEF EndFinds
  <2>4. PICK v : v = contents[x]
    OBVIOUS
  <2>5. Finds(u, k, s, x, v)'
    BY <1>1, <1>2, <2>1, <2>3, <2>4, FindsPrefix
  <2> QED
    BY <2>1, <2>4, <2>5
<1> QED
  BY <1>2, <1>4, <1>5

\* Cells that a new call does not write to are found as before.
LEMMA EndFindsAppend ==
  ASSUME NEW t \in Seq(CallType), NEW c \in CallType, NEW u, u = Append(t, c),
         EndFinds(t), UNCHANGED <<storage, latest>>,
         NEW x \in Tracked, contents[x] # 0, contents'[x] = contents[x],
         mem'[latest][x] = mem[latest][x], ~Writes(c, x)
  PROVE  Finds(u, Len(u) + 1, latest, x, contents[x])'
<1>1. /\ Len(t) \in Nat /\ Len(u) = Len(t) + 1 /\ u[Len(u)] = c
      /\ u \in Seq(CallType) /\ \A j \in 1..Len(t) : u[j] = t[j]
  BY AppendFacts
<1>2. PICK v, s : v = contents[x] /\ s = latest
  OBVIOUS
<1>3. Finds(t, Len(t) + 1, s, x, v)
  BY <1>2 DEF EndFinds
<1>4. Finds(u, Len(t) + 1, s, x, v)'
  <2>1. Len(t) + 1 \in 1..Len(t)+1
    BY <1>1
  <2> QED
    BY <1>1, <1>2, <1>3, <2>1, FindsPrefix
<1>5. Finds(u, Len(u) + 1, s, x, v)'
  <2>1. \A i \in 1..(Len(u) + 1)-1 : i \in 1..(Len(t) + 1)-1 \/ u[i] = c
    BY <1>1
  <2>2. \A i \in 1..(Len(t) + 1)-1 : i \in 1..(Len(u) + 1)-1
    BY <1>1
  <2>3. CASE /\ mem'[s][x] = v
             /\ \A j \in 1..(Len(t) + 1)-1 : Writes(u[j], x) => ~InEpoch(u, j, s)'
    BY <2>1, <2>3 DEF Finds, Writes
  <2>4. ASSUME NEW j \in 1..(Len(t) + 1)-1, Writes(u[j], x), u[j].id = v,
               InEpoch(u, j, s)',
               \A i \in j+1..(Len(t) + 1)-1 : ~Writes(u[i], x)
        PROVE  Finds(u, Len(u) + 1, s, x, v)'
    <3>1. j \in 1..(Len(u) + 1)-1
      BY <2>2
    <3>2. \A i \in j+1..(Len(u) + 1)-1 : i \in j+1..(Len(t) + 1)-1 \/ u[i] = c
      BY <1>1
    <3>3. \A i \in j+1..(Len(u) + 1)-1 : ~Writes(u[i], x)
      BY <2>4, <3>2
    <3> QED
      BY <2>4, <3>1, <3>3 DEF Finds, Writes
  <2> QED
    BY <1>4, <2>3, <2>4 DEF Finds, Writes
<1> QED
  BY <1>2, <1>5

\* Recording a call keeps the valid range ahead of the contents.
LEMMA TrackingAppend ==
  ASSUME NEW t \in Seq(CallType), NEW c \in CallType, NEW u, u = Append(t, c),
         Tracking(t), UNCHANGED <<storage, latest>>, Tracked' \subseteq Tracked,
         \A x \in Tracked' : contents[x] # 0 \/ Uses(c, x) => contents'[x] # 0,
         \A x \in Tracked' : contents'[x] # 0 => x \in valid'
  PROVE  Tracking(u)'
<1>1. /\ Len(t) \in Nat /\ Len(u) = Len(t) + 1 /\ u[Len(u)] = c
      /\ u \in Seq(CallType) /\ \A j \in 1..Len(t) : u[j] = t[j]
  BY AppendFacts
<1>2. ASSUME NEW k \in 1..Len(u), NEW x \in Tracked', Uses(u[k], x),
             InEpoch(u, k, latest)'
      PROVE  contents'[x] # 0
  <2>1. CASE k = Len(u)
    BY <1>1, <1>2, <2>1
  <2>2. CASE k # Len(u)
    <3>1. k \in 1..Len(t) /\ k \in 1..Len(t)+1
      BY <1>1, <2>2
    <3>2. PICK s : s = latest
      OBVIOUS
    <3>3. InEpoch(t, k, s)
      BY <1>1, <1>2, <3>1, <3>2, EpochPrefix
    <3> QED
      BY <1>1, <1>2, <3>1, <3>2, <3>3 DEF Tracking
  <2> QED
    BY <2>1, <2>2
<1> QED
  BY <1>2 DEF Tracking, Uses, Writes

\* A call that writes nothing, or a draw, is recorded.
LEMMA PromiseRecord ==
  ASSUME NEW t \in Seq(CallType), NEW c \in CallType, NEW u, u = Append(t, c),
         Promise(t), BufferTypeOK',
         UNCHANGED <<storage, latest, mem, contents, untracked>>,
         c.kind \notin {"write", "replace"},
         c.kind = "draw" => c.expects = contents,
         \A f \in Fences : fences'[f] = fences[f] \/ FlushOf(c, f),
         valid \subseteq valid', apc' # "unsync", after' # "unsync"
  PROVE  Promise(u)'
<1>1. Storing(u)' /\ Flushing(u)'
  BY StoringAppend, FlushingAppend DEF Promise, Replaces
<1>2. DrawsFind(u)' /\ EndFinds(u)' /\ Tracking(u)' /\ Unsync(u)'
  <2>1. /\ DrawsFind(t) /\ EndFinds(t) /\ Tracking(t) /\ Storing(t) /\ BufferTypeOK
        /\ Tracked' = Tracked
    BY DEF Promise, Tracked
  <2>2. DrawsFind(u)'
    BY <2>1, DrawsFindAppend
  <2>3. EndFinds(u)'
    <3> SUFFICES ASSUME NEW x \in Tracked', contents'[x] # 0
                 PROVE  Finds(u, Len(u) + 1, latest, x, contents[x])'
      BY DEF EndFinds
    <3> QED
      BY <2>1, EndFindsAppend DEF Writes
  <2>4. Tracking(u)'
    <3>1. \A x \in Tracked : Uses(c, x) => contents[x] # 0
      BY DEF Uses, Writes
    <3>2. \A x \in Tracked : contents[x] # 0 => x \in valid'
      BY <2>1 DEF Tracking
    <3> QED
      BY <2>1, <3>1, <3>2, TrackingAppend
  <2> QED
    BY <2>2, <2>3, <2>4 DEF Unsync
<1> QED
  BY <1>1, <1>2 DEF Promise

\* A call that writes is recorded.
LEMMA PromiseWrite ==
  ASSUME NEW t \in Seq(CallType), NEW c \in CallType, NEW u, u = Append(t, c),
         Promise(t), BufferTypeOK',
         UNCHANGED <<fences, storage, latest, mem, bound>>,
         c.kind = "write", c.id = nwrites + 1, NewContents(c.box),
         valid \subseteq valid', untracked \subseteq untracked',
         c.box \subseteq valid' \cup untracked',
         apc' # "unsync", after' # "unsync"
  PROVE  Promise(u)'
<1>1. Storing(u)' /\ Flushing(u)'
  BY StoringAppend, FlushingAppend DEF Promise, Replaces
<1>2. DrawsFind(u)' /\ EndFinds(u)' /\ Tracking(u)' /\ Unsync(u)'
  <2>1. /\ DrawsFind(t) /\ EndFinds(t) /\ Tracking(t) /\ Storing(t) /\ BufferTypeOK
        /\ Tracked' \subseteq Tracked /\ Tracked' \subseteq Cells
    BY DEF Promise, Tracked
  <2>2. DrawsFind(u)'
    BY <2>1, DrawsFindAppend
  <2>3. /\ nwrites + 1 # 0
        /\ \A x \in Cells : contents'[x] = IF x \in c.box THEN nwrites + 1 ELSE contents[x]
    BY <2>1 DEF NewContents, Written, BufferTypeOK
  <2>4. EndFinds(u)'
    <3> SUFFICES ASSUME NEW x \in Tracked', contents'[x] # 0
                 PROVE  Finds(u, Len(u) + 1, latest, x, contents[x])'
      BY DEF EndFinds
    <3>1. CASE x \notin c.box
      BY <2>1, <2>3, <3>1, EndFindsAppend DEF Writes
    <3>2. CASE x \in c.box
      <4>1. /\ Len(t) \in Nat /\ Len(u) = Len(t) + 1 /\ u[Len(u)] = c
            /\ u \in Seq(CallType) /\ \A j \in 1..Len(t) : u[j] = t[j]
        BY AppendFacts
      <4>2. PICK s : s = latest
        OBVIOUS
      <4>3. InEpoch(t, Len(t) + 1, s)
        BY <2>1, <4>2, EndEpoch
      <4>4. InEpoch(u, Len(u), s)'
        <5>1. Len(t) + 1 \in 1..Len(t)+1
          BY <4>1
        <5> QED
          BY <4>1, <4>3, <5>1, EpochPrefix
      <4>5. Len(u) \in 1..(Len(u) + 1)-1 /\ Len(u)+1..(Len(u) + 1)-1 = {}
        BY <4>1
      <4>6. contents'[x] = nwrites + 1
        BY <2>1, <2>3, <3>2
      <4> QED
        BY <3>2, <4>1, <4>2, <4>4, <4>5, <4>6 DEF Finds, Writes
    <3> QED
      BY <3>1, <3>2
  <2>5. Tracking(u)'
    <3>1. \A x \in Tracked' : contents[x] # 0 \/ Uses(c, x) => contents'[x] # 0
      BY <2>1, <2>3 DEF Uses, Writes
    <3>2. \A x \in Tracked' : contents'[x] # 0 => x \in valid'
      BY <2>1, <2>3 DEF Tracking, Tracked
    <3> QED
      BY <2>1, <3>1, <3>2, TrackingAppend
  <2> QED
    BY <2>2, <2>4, <2>5 DEF Unsync
<1> QED
  BY <1>1, <1>2 DEF Promise

\* The buffer is invalidated: its next storage is found by no recorded call.
LEMMA PromiseReplace ==
  ASSUME NEW t \in Seq(CallType), NEW c \in CallType, NEW u, u = Append(t, c),
         Promise(t), BufferTypeOK',
         UNCHANGED <<fences, storage, mem, bound, untracked>>,
         c.kind = "replace", c.src = latest + 1, latest' = latest + 1,
         contents' = [x \in Cells |-> 0],
         apc' = "unsync" \/ after' = "unsync" =>
           arg'.op = "write" /\ arg'.box \subseteq Cells
  PROVE  Promise(u)'
<1>1. /\ Len(t) \in Nat /\ Len(u) = Len(t) + 1 /\ u[Len(u)] = c
      /\ u \in Seq(CallType) /\ \A j \in 1..Len(t) : u[j] = t[j]
  BY AppendFacts
<1>2. storage \in Nat /\ latest \in Nat /\ storage <= latest
  BY ConstantFacts DEF Promise, BufferTypeOK, Storing
<1>3. \A k \in 1..Len(t) :
        Replaces(u[k]) => storage < u[k].src /\ u[k].src <= latest /\ u[k].src \in Nat
  BY <1>1, ReplaceFacts DEF Promise, Storing
<1>4. Storing(u)'
  <2>1. \A k \in 1..Len(u) : Replaces(u[k]) => storage < u[k].src /\ u[k].src <= latest + 1
    BY <1>1, <1>2, <1>3
  <2>2. \A j, k \in 1..Len(u) :
          Replaces(u[j]) /\ Replaces(u[k]) /\ j < k => u[j].src < u[k].src
    <3> SUFFICES ASSUME NEW j \in 1..Len(u), NEW k \in 1..Len(u),
                        Replaces(u[j]), Replaces(u[k]), j < k
                 PROVE  u[j].src < u[k].src
      OBVIOUS
    <3>1. j \in 1..Len(t)
      BY <1>1
    <3>2. CASE k = Len(u)
      BY <1>1, <1>2, <1>3, <3>1, <3>2
    <3>3. CASE k # Len(u)
      BY <1>1, <3>1, <3>3, SMTT(40) DEF Promise, Storing
    <3> QED
      BY <3>2, <3>3
  <2>3. Len(u) \in 1..Len(u) /\ Replaces(u[Len(u)]) /\ u[Len(u)].src = latest'
    BY <1>1 DEF Replaces
  <2> QED
    BY <1>2, <2>1, <2>2, <2>3 DEF Storing, Replaces
<1>5. Flushing(u)'
  BY FlushingAppend DEF Promise
<1>6. \A k \in 1..Len(u) : ~InEpoch(u, k, latest)'
  <2> SUFFICES ASSUME NEW k \in 1..Len(u), InEpoch(u, k, latest)' PROVE FALSE
    OBVIOUS
  <2>1. latest' # storage'
    BY <1>2
  <2>2. PICK j \in 1..k-1 : Replaces(u[j]) /\ u[j].src = latest + 1
    BY <2>1 DEF InEpoch, Replaces
  <2>3. j \in 1..Len(t)
    BY <1>1
  <2> QED
    BY <1>2, <1>3, <2>2, <2>3
<1>7. DrawsFind(u)' /\ EndFinds(u)' /\ Tracking(u)' /\ Unsync(u)'
  <2>1. /\ DrawsFind(t) /\ EndFinds(t) /\ Storing(t) /\ BufferTypeOK
        /\ Tracked' = Tracked /\ Tracked \subseteq Cells
    BY DEF Promise, Tracked
  <2>2. DrawsFind(u)'
    BY <2>1, DrawsFindAppend
  <2>3. EndFinds(u)'
    BY <2>1 DEF EndFinds
  <2>4. Tracking(u)'
    BY <1>6, <2>1 DEF Tracking
  <2>5. Unsync(u)'
    BY <1>6 DEF Unsync, Unused
  <2> QED
    BY <2>2, <2>3, <2>4, <2>5
<1> QED
  BY <1>4, <1>5, <1>7 DEF Promise

\* The application writes to the latest storage itself, to cells that no
\* recorded call uses, and records the unmap.
LEMMA PromiseMapped ==
  ASSUME NEW t \in Seq(CallType), NEW c \in CallType, NEW u, u = Append(t, c),
         Promise(t), BufferTypeOK',
         UNCHANGED <<fences, storage, latest, untracked, bound>>,
         c.kind = "unmap", NEW box \in SUBSET Cells, Unused(t, box),
         mem' = [mem EXCEPT ![latest] = Written(mem[latest], box, nwrites + 1)],
         NewContents(box), valid \subseteq valid', box \subseteq valid',
         apc' # "unsync", after' # "unsync"
  PROVE  Promise(u)'
<1>1. Storing(u)' /\ Flushing(u)'
  BY StoringAppend, FlushingAppend DEF Promise, Replaces
<1>2. DrawsFind(u)' /\ EndFinds(u)' /\ Tracking(u)' /\ Unsync(u)'
  <2>1. /\ DrawsFind(t) /\ EndFinds(t) /\ Tracking(t) /\ Storing(t) /\ BufferTypeOK
        /\ Tracked' = Tracked /\ Tracked \subseteq Cells
    BY DEF Promise, Tracked
  <2>2. /\ nwrites + 1 # 0
        /\ \A x \in Cells : contents'[x] = IF x \in box THEN nwrites + 1 ELSE contents[x]
    BY <2>1 DEF NewContents, Written, BufferTypeOK
  <2>3. \A x \in Cells :
          mem'[latest][x] = IF x \in box THEN nwrites + 1 ELSE mem[latest][x]
    BY <2>1 DEF Written, BufferTypeOK
  <2>4. \A s \in Storages : s # latest => mem'[s] = mem[s]
    BY <2>1 DEF BufferTypeOK
  <2>5. \A k \in 1..Len(t) : \A s \in Storages : \A x \in Tracked :
          Uses(t[k], x) /\ InEpoch(t, k, s) => mem'[s][x] = mem[s][x]
    BY <2>1, <2>3, <2>4 DEF Unused
  <2>6. DrawsFind(u)'
    BY <2>1, <2>5, DrawsFindAppend
  <2>7. EndFinds(u)'
    <3> SUFFICES ASSUME NEW x \in Tracked', contents'[x] # 0
                 PROVE  Finds(u, Len(u) + 1, latest, x, contents[x])'
      BY DEF EndFinds
    <3>1. CASE x \notin box
      BY <2>1, <2>2, <2>3, <3>1, EndFindsAppend DEF Writes
    <3>2. CASE x \in box
      <4>1. /\ Len(t) \in Nat /\ Len(u) = Len(t) + 1 /\ u[Len(u)] = c
            /\ u \in Seq(CallType) /\ \A j \in 1..Len(t) : u[j] = t[j]
        BY AppendFacts
      <4>2. PICK s : s = latest
        OBVIOUS
      <4>3. \A j \in 1..(Len(u) + 1)-1 : u[j] = c \/ (j \in 1..Len(t) /\ j \in 1..Len(t)+1)
        BY <4>1
      <4>4. \A j \in 1..(Len(u) + 1)-1 : Writes(u[j], x) => ~InEpoch(u, j, s)'
        <5> SUFFICES ASSUME NEW j \in 1..(Len(u) + 1)-1, Writes(u[j], x),
                            InEpoch(u, j, s)'
                     PROVE  FALSE
          OBVIOUS
        <5>1. j \in 1..Len(t) /\ j \in 1..Len(t)+1
          BY <4>3 DEF Writes
        <5>2. InEpoch(t, j, s) /\ Uses(t[j], x)
          BY <4>1, <5>1, EpochPrefix DEF Uses
        <5> QED
          BY <2>1, <3>2, <4>2, <5>1, <5>2 DEF Unused
      <4> QED
        BY <2>2, <2>3, <3>2, <4>2, <4>4 DEF Finds, Writes
    <3> QED
      BY <3>1, <3>2
  <2>8. Tracking(u)'
    <3>1. \A x \in Tracked : contents[x] # 0 \/ Uses(c, x) => contents'[x] # 0
      BY <2>1, <2>2 DEF Uses, Writes
    <3>2. \A x \in Tracked : contents'[x] # 0 => x \in valid'
      BY <2>1, <2>2 DEF Tracking
    <3> QED
      BY <2>1, <3>1, <3>2, TrackingAppend
  <2> QED
    BY <2>6, <2>7, <2>8 DEF Unsync
<1> QED
  BY <1>1, <1>2 DEF Promise

\* Nothing is recorded, written or executed.
LEMMA PromiseStill ==
  ASSUME NEW t \in Seq(CallType), Promise(t), BufferTypeOK',
         UNCHANGED <<fences, storage, latest, mem, contents, untracked>>,
         valid \subseteq valid',
         apc' = "unsync" \/ after' = "unsync" =>
           \/ (apc = "unsync" \/ after = "unsync") /\ arg' = arg
           \/ arg'.op = "write" /\ Unused(t, arg'.box)
  PROVE  Promise(t)'
<1>1. \A k, s : InEpoch(t, k, s)' <=> InEpoch(t, k, s)
  BY DEF InEpoch, Replaces
<1>2. \A k, s, x, v : Finds(t, k, s, x, v)' <=> Finds(t, k, s, x, v)
  BY <1>1 DEF Finds, Writes
<1>3. Storing(t)' /\ Flushing(t)'
  BY DEF Promise, Storing, Flushing, Replaces, FlushOf
<1>4. DrawsFind(t)' /\ EndFinds(t)' /\ Tracking(t)' /\ Unsync(t)'
  <2>1. /\ DrawsFind(t) /\ EndFinds(t) /\ Tracking(t) /\ Unsync(t)
        /\ Tracked' = Tracked
    BY DEF Promise, Tracked
  <2>2. DrawsFind(t)'
    BY <1>1, <1>2, <2>1 DEF DrawsFind
  <2>3. PICK l : l = latest
    OBVIOUS
  <2>4. EndFinds(t)'
    BY <1>2, <2>1, <2>3 DEF EndFinds
  <2>5. \A k : InEpoch(t, k, latest)' <=> InEpoch(t, k, latest)
    BY <1>1, <2>3
  <2>6. Tracking(t)'
    BY <2>1, <2>5 DEF Tracking, Uses, Writes
  <2>7. Unsync(t)'
    BY <2>1, <2>5 DEF Unsync, Unused, Uses, Writes
  <2> QED
    BY <2>2, <2>4, <2>6, <2>7
<1> QED
  BY <1>3, <1>4 DEF Promise

-----------------------------------------------------------------------------
(* Promise: the first call is executed *)

\* The part of Effect that is visible here.
Effects(c) ==
  /\ fences' = IF c.kind = "flush" /\ c.fence # 0
               THEN [fences EXCEPT ![c.fence] = "ready"] ELSE fences
  /\ storage' = IF c.kind = "replace" THEN c.src ELSE storage
  /\ mem' = IF c.kind = "write"
            THEN [mem EXCEPT ![storage] = Written(mem[storage], c.box, c.id)]
            ELSE mem

\* Every other call finds the storage it would have found.
LEMMA EpochTail ==
  ASSUME BufferTypeOK, NEW t \in Seq(CallType), t # <<>>, NEW u, u = Tail(t),
         Storing(t), Effects(t[1]), NEW k \in 1..Len(t), NEW s
  PROVE  InEpoch(u, k, s)' <=> InEpoch(t, k + 1, s)
<1>1. /\ Len(t) \in Nat \ {0} /\ Len(u) = Len(t) - 1
      /\ \A i \in 1..Len(t)-1 : u[i] = t[i + 1]
  BY TailFacts
<1>2. \A i \in 1..k-1 : i + 1 \in 1..(k + 1)-1 /\ u[i] = t[i + 1]
  BY <1>1
<1>3. \A i \in 1..(k + 1)-1 : i = 1 \/ (i - 1 \in 1..k-1 /\ u[i - 1] = t[i])
  BY <1>1
<1>4. 1 \in 1..(k + 1)-1 /\ \A i \in 1..(k + 1)-1 : i \in 1..Len(t)
  BY <1>1
<1>5. CASE ~Replaces(t[1])
  <2>1. storage' = storage
    BY <1>5 DEF Effects, Replaces
  <2>2. (\A j \in 1..k-1 : Replaces(u[j]) => u[j].src <= s) <=>
        (\A j \in 1..(k + 1)-1 : Replaces(t[j]) => t[j].src <= s)
    BY <1>2, <1>3, <1>5
  <2>3. (\E j \in 1..k-1 : Replaces(u[j]) /\ u[j].src = s) <=>
        (\E j \in 1..(k + 1)-1 : Replaces(t[j]) /\ t[j].src = s)
    BY <1>2, <1>3, <1>5
  <2> QED
    BY <2>1, <2>2, <2>3 DEF InEpoch, Replaces
<1>6. CASE Replaces(t[1])
  <2>1. storage' = t[1].src /\ storage < t[1].src
    BY <1>1, <1>6 DEF Effects, Replaces, Storing
  <2>2. \A j \in 1..(k + 1)-1 :
          Replaces(t[j]) => t[j].src \in Nat /\ (j = 1 \/ t[1].src < t[j].src)
    BY <1>4, <1>6, ReplaceFacts DEF Storing
  <2>3. ASSUME InEpoch(u, k, s)' PROVE InEpoch(t, k + 1, s)
    <3>1. t[1].src <= s
      BY <1>2, <1>4, <1>6, <2>1, <2>2, <2>3 DEF InEpoch, Replaces
    <3>2. \E j \in 1..(k + 1)-1 : Replaces(t[j]) /\ t[j].src = s
      BY <1>2, <1>4, <1>6, <2>1, <2>3 DEF InEpoch, Replaces
    <3>3. \A j \in 1..(k + 1)-1 : Replaces(t[j]) => t[j].src <= s
      BY <1>3, <2>3, <3>1 DEF InEpoch, Replaces
    <3> QED
      BY <3>2, <3>3 DEF InEpoch
  <2>4. ASSUME InEpoch(t, k + 1, s) PROVE InEpoch(u, k, s)'
    <3>1. t[1].src <= s
      BY <1>4, <1>6, <2>4 DEF InEpoch
    <3>2. s # storage
      BY <2>1, <2>2, <1>4, <1>6, <3>1, ConstantFacts DEF BufferTypeOK
    <3>3. PICK j \in 1..(k + 1)-1 : Replaces(t[j]) /\ t[j].src = s
      BY <2>4, <3>2 DEF InEpoch
    <3>4. s = storage' \/ \E i \in 1..k-1 : Replaces(u[i]) /\ u[i].src = s
      BY <1>3, <2>1, <3>3
    <3>5. \A i \in 1..k-1 : Replaces(u[i]) => u[i].src <= s
      BY <1>2, <2>4 DEF InEpoch
    <3> QED
      BY <3>4, <3>5 DEF InEpoch, Replaces
  <2> QED
    BY <2>3, <2>4
<1> QED
  BY <1>5, <1>6

\* And what it would have found in it.
LEMMA FindsTail ==
  ASSUME BufferTypeOK, NEW t \in Seq(CallType), t # <<>>, NEW u, u = Tail(t),
         Storing(t), Effects(t[1]), NEW k \in 1..Len(t), NEW s \in Storages,
         NEW x \in Cells, NEW v, Finds(t, k + 1, s, x, v)
  PROVE  Finds(u, k, s, x, v)'
<1>1. /\ Len(t) \in Nat \ {0} /\ Len(u) = Len(t) - 1
      /\ \A i \in 1..Len(t)-1 : u[i] = t[i + 1]
  BY TailFacts
<1>2. \A i \in 1..k-1 : i + 1 \in 1..(k + 1)-1 /\ i + 1 # 1 /\ u[i] = t[i + 1]
  BY <1>1
<1>3. \A i \in 1..k-1 : InEpoch(u, i, s)' <=> InEpoch(t, i + 1, s)
  <2>1. \A i \in 1..k-1 : i \in 1..Len(t)
    BY <1>1
  <2> QED
    BY <2>1, EpochTail
<1>4. InEpoch(t, 1, s) <=> s = storage
  BY DEF InEpoch
<1>5. CASE mem[s][x] = v /\ \A j \in 1..(k + 1)-1 : Writes(t[j], x) => ~InEpoch(t, j, s)
  <2>1. 1 \in 1..(k + 1)-1
    OBVIOUS
  <2>2. mem'[s][x] = v
    <3>1. CASE t[1].kind # "write"
      BY <1>5, <3>1 DEF Effects
    <3>2. CASE t[1].kind = "write" /\ s # storage
      BY <1>5, <3>2 DEF Effects, BufferTypeOK
    <3>3. CASE t[1].kind = "write" /\ s = storage
      <4>1. x \notin t[1].box
        BY <1>4, <1>5, <2>1, <3>3 DEF Writes
      <4> QED
        BY <1>5, <3>3, <4>1 DEF Effects, Written, BufferTypeOK
    <3> QED
      BY <3>1, <3>2, <3>3
  <2>3. \A j \in 1..k-1 : Writes(u[j], x) => ~InEpoch(u, j, s)'
    BY <1>2, <1>3, <1>5
  <2> QED
    BY <2>2, <2>3 DEF Finds, Writes
<1>6. ASSUME NEW j \in 1..(k + 1)-1, Writes(t[j], x), t[j].id = v, InEpoch(t, j, s),
             \A i \in j+1..(k + 1)-1 : ~Writes(t[i], x)
      PROVE  Finds(u, k, s, x, v)'
  <2>1. CASE j = 1
    <3>1. mem'[s][x] = v
      BY <1>4, <1>6, <2>1 DEF Effects, Written, Writes, BufferTypeOK
    <3>2. \A i \in 1..k-1 : i + 1 \in j+1..(k + 1)-1
      BY <2>1
    <3>3. \A i \in 1..k-1 : ~Writes(u[i], x)
      BY <1>2, <1>6, <3>2
    <3> QED
      BY <3>1, <3>3 DEF Finds, Writes
  <2>2. CASE j # 1
    <3>1. j - 1 \in 1..k-1 /\ j - 1 + 1 = j
      BY <2>2
    <3>2. \A i \in (j - 1)+1..k-1 : i \in 1..k-1 /\ i + 1 \in j+1..(k + 1)-1
      BY <3>1
    <3>3. \A i \in (j - 1)+1..k-1 : ~Writes(u[i], x)
      BY <1>2, <1>6, <3>2
    <3>4. u[j - 1] = t[j] /\ InEpoch(u, j - 1, s)'
      BY <1>2, <1>3, <1>6, <3>1
    <3> QED
      BY <1>6, <3>1, <3>3, <3>4 DEF Finds, Writes
  <2> QED
    BY <2>1, <2>2
<1> QED
  BY <1>5, <1>6 DEF Finds

\* Executing the first call of the line keeps the promise for the rest.
LEMMA PromiseExecute ==
  ASSUME NEW t \in Seq(CallType), t # <<>>, NEW u, u = Tail(t),
         Promise(t), Effects(t[1]),
         UNCHANGED <<latest, contents, valid, bound, untracked, nwrites, arg, apc, after>>
  PROVE  Promise(u)'
<1>1. /\ Len(t) \in Nat \ {0} /\ Len(u) = Len(t) - 1 /\ t[1] \in CallType
      /\ \A i \in 1..Len(t)-1 : u[i] = t[i + 1]
  BY TailFacts
<1>2. BufferTypeOK /\ Storing(t) /\ Flushing(t)
  BY DEF Promise
<1>3. \A i \in 1..Len(u) : i + 1 \in 1..Len(t) /\ i \in 1..Len(t) /\ u[i] = t[i + 1]
  BY <1>1
<1>4. \A i \in 1..Len(t) : i = 1 \/ (i - 1 \in 1..Len(u) /\ u[i - 1] = t[i])
  BY <1>1
<1>5. BufferTypeOK'
  <2>1. fences' \in [Fences -> {"none", "deferred", "submitted", "ready"}]
    BY <1>2 DEF BufferTypeOK, Effects
  <2>2. storage' \in Storages
    BY <1>1, <1>2, CallFacts DEF BufferTypeOK, Effects
  <2>3. mem' \in [Storages -> [Cells -> Nat]]
    <3>1. CASE t[1].kind # "write"
      BY <1>2, <3>1 DEF BufferTypeOK, Effects
    <3>2. CASE t[1].kind = "write"
      <4>1. t[1].id \in Nat
        BY <1>1, <3>2, CallFacts
      <4>2. Written(mem[storage], t[1].box, t[1].id) \in [Cells -> Nat]
        BY <1>2, <4>1 DEF Written, BufferTypeOK
      <4> QED
        BY <1>2, <3>2, <4>2 DEF BufferTypeOK, Effects
    <3> QED
      BY <3>1, <3>2
  <2> QED
    BY <1>2, <2>1, <2>2, <2>3 DEF BufferTypeOK
<1>6. Flushing(u)'
  <2> SUFFICES ASSUME NEW f \in Fences, fences'[f] \in {"deferred", "submitted"}
               PROVE  \E k \in 1..Len(u) : FlushOf(u[k], f)
    BY DEF Flushing, FlushOf
  <2>1. fences'[f] = fences[f] /\ ~FlushOf(t[1], f)
    BY <1>2, ConstantFacts DEF Effects, BufferTypeOK, FlushOf
  <2>2. PICK k \in 1..Len(t) : FlushOf(t[k], f)
    BY <1>2, <2>1 DEF Flushing
  <2> QED
    BY <1>4, <2>1, <2>2
<1>7. Storing(u)'
  <2>1. /\ storage' \in Nat /\ latest \in Nat /\ storage' <= latest
        /\ \A k \in 1..Len(u) : Replaces(u[k]) => storage' < u[k].src /\ u[k].src <= latest
    <3>1. CASE Replaces(t[1])
      <4>1. storage' = t[1].src /\ 1 \in 1..Len(t) /\ \A i \in 1..Len(u) : 1 < i + 1
        BY <1>1, <3>1 DEF Effects, Replaces
      <4> QED
        BY <1>2, <1>3, <1>5, <3>1, <4>1, ConstantFacts DEF Storing, BufferTypeOK
    <3>2. CASE ~Replaces(t[1])
      <4>1. storage' = storage
        BY <3>2 DEF Effects, Replaces
      <4> QED
        BY <1>2, <1>3, <4>1, ConstantFacts DEF Storing, BufferTypeOK
    <3> QED
      BY <3>1, <3>2
  <2>2. \A j, k \in 1..Len(u) :
          Replaces(u[j]) /\ Replaces(u[k]) /\ j < k => u[j].src < u[k].src
    <3>1. \A j, k \in 1..Len(u) : j < k => j + 1 < k + 1
      OBVIOUS
    <3> QED
      BY <1>2, <1>3, <3>1 DEF Storing
  <2>3. storage' # latest => \E k \in 1..Len(u) : Replaces(u[k]) /\ u[k].src = latest
    <3> SUFFICES ASSUME storage' # latest
                 PROVE  \E k \in 1..Len(u) : Replaces(u[k]) /\ u[k].src = latest
      OBVIOUS
    <3>1. storage # latest
      <4>1. storage \in Nat /\ latest \in Nat /\ 1 \in 1..Len(t)
        BY <1>1, <1>2, ConstantFacts DEF BufferTypeOK
      <4>2. CASE Replaces(t[1])
        BY <1>2, <4>1, <4>2, ReplaceFacts DEF Storing
      <4>3. CASE ~Replaces(t[1])
        BY <4>3 DEF Effects, Replaces
      <4> QED
        BY <4>2, <4>3
    <3>2. PICK k \in 1..Len(t) : Replaces(t[k]) /\ t[k].src = latest
      BY <1>2, <3>1 DEF Storing
    <3>3. k # 1
      BY <3>2 DEF Effects, Replaces
    <3> QED
      BY <1>4, <3>2, <3>3
  <2> QED
    BY <2>1, <2>2, <2>3 DEF Storing, Replaces
<1>8. DrawsFind(u)' /\ EndFinds(u)' /\ Tracking(u)' /\ Unsync(u)'
  <2>1. /\ DrawsFind(t) /\ EndFinds(t) /\ Tracking(t) /\ Unsync(t)
        /\ Tracked' = Tracked /\ Tracked \subseteq Cells
    BY DEF Promise, Tracked
  <2>2. \A k \in 1..Len(u) : \A s : InEpoch(u, k, s)' => InEpoch(t, k + 1, s)
    BY <1>2, <1>3, EpochTail
  <2>3. DrawsFind(u)'
    <3> SUFFICES ASSUME NEW k \in 1..Len(u), NEW s \in Storages, NEW x \in Tracked,
                        u[k].kind = "draw", u[k].expects[x] # 0, InEpoch(u, k, s)'
                 PROVE  Finds(u, k, s, x, u[k].expects[x])'
      BY <2>1 DEF DrawsFind
    <3>1. Finds(t, k + 1, s, x, u[k].expects[x])
      BY <1>3, <2>1, <2>2 DEF DrawsFind
    <3> QED
      BY <1>2, <1>3, <2>1, <3>1, FindsTail
  <2>4. PICK l \in Storages : l = latest
    BY <1>2 DEF BufferTypeOK
  <2>5. EndFinds(u)'
    <3> SUFFICES ASSUME NEW x \in Tracked, contents'[x] # 0
                 PROVE  Finds(u, Len(u) + 1, latest, x, contents[x])'
      BY <2>1 DEF EndFinds
    <3>1. PICK v : v = contents[x]
      OBVIOUS
    <3>2. Finds(t, Len(t) + 1, l, x, v)
      BY <2>1, <2>4, <3>1 DEF EndFinds
    <3>3. Len(u) + 1 = Len(t) /\ Len(t) \in 1..Len(t)
      BY <1>1
    <3>4. Finds(u, Len(t), l, x, v)'
      BY <1>2, <2>1, <3>2, <3>3, FindsTail
    <3> QED
      BY <2>4, <3>1, <3>3, <3>4
  <2>6. \A k \in 1..Len(u) : InEpoch(u, k, latest)' => InEpoch(t, k + 1, latest)
    BY <2>2, <2>4
  <2>7. Tracking(u)'
    BY <1>3, <2>1, <2>6 DEF Tracking, Uses, Writes
  <2>8. Unsync(u)'
    BY <1>3, <2>1, <2>6 DEF Unsync, Unused, Uses, Writes
  <2> QED
    BY <2>3, <2>5, <2>7, <2>8
<1> QED
  BY <1>5, <1>6, <1>7, <1>8 DEF Promise

-----------------------------------------------------------------------------
(* Line *)

\* A step that moves no call keeps the line.
LEMMA LineStill ==
  ASSUME NEW t \in Seq(CallType), NEW o \in [Batches -> Int], Line(t, o),
         UNCHANGED <<calls, next, pending>>, Pending' = Pending, Progress' = Progress
  PROVE  Line(t, o)'
<1>1. \A b : Dist(b)' = Dist(b)
  BY DEF Dist
<1>2. \A b : Oldest(b)' <=> Oldest(b)
  BY <1>1 DEF Oldest
<1> QED
  BY <1>1, <1>2 DEF Line, Succ

\* A call is appended to the batch being recorded.
LEMMA CallsAppend ==
  ASSUME ControlTypeOK, NEW c \in CallType,
         calls' = [calls EXCEPT ![next] = Append(@, c)]
  PROVE  /\ calls' \in [Batches -> Seq(CallType)]
         /\ calls'[next] = Append(calls[next], c)
         /\ Len(calls[next]) \in Nat /\ Len(calls'[next]) = Len(calls[next]) + 1
         /\ calls'[next][Len(calls[next]) + 1] = c
         /\ \A i \in 1..Len(calls[next]) : calls'[next][i] = calls[next][i]
         /\ \A b \in Batches : b # next => calls'[b] = calls[b]
<1>1. next \in Batches /\ calls \in [Batches -> Seq(CallType)]
  BY DEF ControlTypeOK
<1>2. calls[next] \in Seq(CallType)
  BY <1>1
<1>3. calls'[next] = Append(calls[next], c) /\ \A b \in Batches : b # next => calls'[b] = calls[b]
  BY <1>1
<1>4. calls' \in [Batches -> Seq(CallType)]
  BY <1>1, <1>2
<1> QED
  BY <1>2, <1>3, <1>4, AppendFacts

\* The line grows by the call put into the batch being filled.
LEMMA LineGrow ==
  ASSUME ControlTypeOK, Ring, NEW t \in Seq(CallType), NEW o \in [Batches -> Int],
         Line(t, o), NEW c \in CallType, NEW u \in Seq(CallType),
         calls' = [calls EXCEPT ![next] = Append(@, c)], pending' = NoCall,
         UNCHANGED <<fifo, running, next, exec>>,
         \A j \in 1..Len(t) : u[j] = t[j], Len(t) <= Len(u),
         Len(u) = o[next] + Len(calls[next]) + 1, u[Len(u)] = c
  PROVE  Line(u, o)'
<1>1. /\ Pending' = Pending /\ \A b : Dist(b)' = Dist(b)
      /\ Progress' = Progress
  BY DEF Pending, Dist, Progress
<1>2. \A b : Oldest(b)' <=> Oldest(b)
  BY <1>1 DEF Oldest
<1>3. next \in Batches /\ Pending < MaxBatches /\ Pending \in Nat /\ MaxBatches \in Nat
  BY Apart, ConstantFacts DEF ControlTypeOK
<1>4. Dist(next) > Pending
  BY <1>3, DistFacts
<1>5. /\ Len(calls[next]) \in Nat /\ Len(calls'[next]) = Len(calls[next]) + 1
      /\ calls'[next][Len(calls[next]) + 1] = c
      /\ \A i \in 1..Len(calls[next]) : calls'[next][i] = calls[next][i]
      /\ \A b \in Batches : b # next => calls'[b] = calls[b]
  BY CallsAppend
<1>6. \A b \in Batches : Dist(b) <= Pending => b # next
  BY <1>3, <1>4, DistFacts
<1>7. Len(t) \in Nat /\ Len(u) \in Nat /\ o[next] \in Int
  BY <1>3
<1>8. \A b \in Batches : Dist(b) <= Pending => o[Succ(b)] = o[b] + Len(calls'[b])
  BY <1>5, <1>6 DEF Line
<1>9. Len(u) = o[next] + Len(calls'[next]) + 0
  BY <1>5, <1>7
<1>10. ASSUME NEW b \in Batches, b = next \/ Dist(b) <= Pending,
              NEW i \in 1..Len(calls'[b]), o[b] + i >= 1
       PROVE  o[b] + i <= Len(u) /\ u[o[b] + i] = calls'[b][i]
  <2>1. CASE b = next /\ i = Len(calls[next]) + 1
    BY <1>5, <1>7, <1>9, <2>1
  <2>2. CASE ~(b = next /\ i = Len(calls[next]) + 1)
    <3>1. i \in 1..Len(calls[b]) /\ calls'[b][i] = calls[b][i] /\ o[b] \in Int
      BY <1>5, <2>2
    <3>2. o[b] + i <= Len(t) /\ t[o[b] + i] = calls[b][i]
      BY <1>10, <3>1 DEF Line
    <3>3. o[b] + i \in 1..Len(t)
      BY <1>7, <1>10, <3>1, <3>2
    <3> QED
      BY <1>7, <3>1, <3>2, <3>3
  <2> QED
    BY <2>1, <2>2
<1>11. \A b \in Batches : Oldest(b) => o[b] = 0 - Progress
  BY DEF Line
<1>12. ASSUME NEW b \in Batches, Dist(b) <= Pending
       PROVE  o[b] + Len(calls'[b]) <= o[next] + Len(calls'[next])
  <2>1. calls'[b] = calls[b] /\ o[b] \in Int /\ Len(calls[b]) \in Nat
    BY <1>5, <1>6, <1>12 DEF ControlTypeOK
  <2>2. o[b] + Len(calls[b]) <= o[next] + Len(calls[next])
    BY <1>12 DEF Line
  <2> QED
    BY <1>5, <1>7, <2>1, <2>2
<1> QED
  BY <1>1, <1>2, <1>8, <1>9, <1>10, <1>11, <1>12 DEF Line, Succ

\* The line grows by the call tc_add_sized_call records.
LEMMA LineAdd ==
  ASSUME ControlTypeOK, Ring, NEW t \in Seq(CallType), NEW o \in [Batches -> Int],
         Line(t, o), NEW c \in CallType, NEW u, u = Append(t, c), NEW l,
         AddCall(c, l), pending = NoCall, UNCHANGED <<fifo, running, next, exec>>
  PROVE  u \in Seq(CallType) /\ Line(u, o)'
<1>1. /\ Len(t) \in Nat /\ Len(u) = Len(t) + 1 /\ u[Len(u)] = c
      /\ u \in Seq(CallType) /\ \A j \in 1..Len(t) : u[j] = t[j]
  BY AppendFacts
<1>2. Len(t) = o[next] + Len(calls[next]) + 0
  BY DEF Line
<1>3. o[next] \in Int /\ Len(calls[next]) \in Nat
  BY DEF ControlTypeOK
<1>4. CASE Overflows(c)
  <2>1. pending' = c /\ c # NoCall /\ calls' = calls
    BY <1>4, CallFacts DEF AddCall
  <2>2. /\ Pending' = Pending /\ \A b : Dist(b)' = Dist(b)
        /\ Progress' = Progress
    BY DEF Pending, Dist, Progress
  <2>3. \A b : Oldest(b)' <=> Oldest(b)
    BY <2>2 DEF Oldest
  <2>4. ASSUME NEW b \in Batches, b = next \/ Dist(b) <= Pending,
               NEW i \in 1..Len(calls[b]), o[b] + i >= 1
        PROVE  o[b] + i <= Len(u) /\ u[o[b] + i] = calls[b][i]
    <3>1. o[b] + i <= Len(t) /\ t[o[b] + i] = calls[b][i] /\ o[b] \in Int
      BY <2>4 DEF Line
    <3>2. o[b] + i \in 1..Len(t)
      BY <1>1, <2>4, <3>1
    <3> QED
      BY <1>1, <3>1, <3>2
  <2>5. Len(u) = o[next] + Len(calls[next]) + 1
    BY <1>1, <1>2, <1>3
  <2> QED
    BY <1>1, <2>1, <2>2, <2>3, <2>4, <2>5 DEF Line, Succ
<1>5. CASE ~Overflows(c)
  <2>1. pending' = NoCall /\ calls' = [calls EXCEPT ![next] = Append(@, c)]
    BY <1>5 DEF AddCall
  <2>2. Len(u) = o[next] + Len(calls[next]) + 1 /\ Len(t) <= Len(u)
    BY <1>1, <1>2, <1>3
  <2> QED
    BY <1>1, <2>1, <2>2, LineGrow
<1> QED
  BY <1>4, <1>5

\* The call that did not fit goes into the next batch.
LEMMA LineAppend ==
  ASSUME ControlTypeOK, Ring, NEW t \in Seq(CallType), NEW o \in [Batches -> Int],
         Line(t, o), pending # NoCall, AppendCall
  PROVE  Line(t, o)'
<1>1. /\ calls' = [calls EXCEPT ![next] = Append(@, pending)] /\ pending' = NoCall
      /\ UNCHANGED <<fifo, running, next, exec>> /\ pending \in CallType
  BY DEF AppendCall, pool, ControlTypeOK
<1>2. /\ Len(t) = o[next] + Len(calls[next]) + 1 /\ t[Len(t)] = pending
      /\ Len(t) \in Nat /\ Len(t) <= Len(t)
  BY DEF Line
<1>3. PICK c : c = pending
  OBVIOUS
<1> QED
  BY <1>1, <1>2, <1>3, LineGrow

\* A batch is submitted, and the ring turns.
LEMMA Turn ==
  ASSUME ControlTypeOK, Ring, Queue!Enqueue(next), next' = (next + 1) % MaxBatches
  PROVE  /\ next' \in Batches /\ next' = Succ(next) /\ next' # next
         /\ Pending \in Nat /\ Pending' = Pending + 1 /\ Dist(next') > Pending
         /\ \A b \in Batches : Dist(b)' = IF b = next THEN 1 ELSE Dist(b) + 1
         /\ \A b \in Batches : Dist(b)' <= Pending' <=> b = next \/ Dist(b) <= Pending
         /\ fifo' = Append(fifo, next) /\ Len(fifo') = Len(fifo) + 1
         /\ Len(fifo) \in Nat /\ Len(fifo') <= QueueSize
         /\ running' = running /\ signalled' = [signalled EXCEPT ![next] = FALSE]
<1>1. /\ next \in Batches /\ MaxBatches \in Nat /\ MaxBatches >= 3
      /\ fifo \in Seq(Batches)
  BY ConstantFacts DEF ControlTypeOK
<1>2. /\ next' \in Batches /\ next' # next /\ Dist(next') = MaxBatches - 1
      /\ \A b \in Batches : Dist(b)' = IF b = next THEN 1 ELSE Dist(b) + 1
  BY <1>1, DistTurn
<1>3. /\ fifo' = Append(fifo, next) /\ running' = running
      /\ signalled' = [signalled EXCEPT ![next] = FALSE] /\ Len(fifo) < QueueSize
  BY DEF Queue!Enqueue, Queue!HasRoom
<1>4. Len(fifo') = Len(fifo) + 1 /\ Len(fifo) \in Nat
  BY <1>1, <1>3, AppendFacts
<1>5. /\ Pending \in Nat /\ Pending' = Pending + 1 /\ Pending < MaxBatches - 1
      /\ Len(fifo') <= QueueSize
  BY <1>1, <1>3, <1>4 DEF Pending, QueueSize
<1>6. next' = Succ(next)
  <2>1. CASE next + 1 = MaxBatches
    <3>1. MaxBatches % MaxBatches = 0
      BY <1>1
    <3> QED
      BY <2>1, <3>1 DEF Succ
  <2>2. CASE next + 1 # MaxBatches
    <3>1. next + 1 \in 0..MaxBatches-1
      BY <1>1, <2>2 DEF Batches
    <3>2. (next + 1) % MaxBatches = next + 1
      BY <1>1, <3>1
    <3> QED
      BY <2>2, <3>2 DEF Succ
  <2> QED
    BY <2>1, <2>2
<1>7. ASSUME NEW b \in Batches
      PROVE  Dist(b)' <= Pending' <=> b = next \/ Dist(b) <= Pending
  <2>1. Dist(b) \in 1..MaxBatches
    BY <1>1, DistFacts
  <2> QED
    BY <1>2, <1>5, <2>1
<1>8. Dist(next') > Pending
  BY <1>1, <1>2, <1>5
<1> QED
  BY <1>2, <1>3, <1>4, <1>5, <1>6, <1>7, <1>8

\* Submitting the batch being filled keeps the line; the next batch follows it.
LEMMA LineEnqueue ==
  ASSUME ControlTypeOK, Ring, Flight,
         NEW t \in Seq(CallType), NEW o \in [Batches -> Int], Line(t, o),
         Queue!Enqueue(next), next' = (next + 1) % MaxBatches,
         UNCHANGED <<calls, pending, exec>>,
         NEW n, n = next', NEW p, p = o[next] + Len(calls[next]),
         NEW r, r = [o EXCEPT ![n] = p]
  PROVE  r \in [Batches -> Int] /\ Line(t, r)'
<1>1. /\ n \in Batches /\ n = Succ(next) /\ n # next
      /\ Pending \in Nat /\ Pending' = Pending + 1 /\ Dist(n) > Pending
      /\ \A b \in Batches : Dist(b)' = IF b = next THEN 1 ELSE Dist(b) + 1
      /\ \A b \in Batches : Dist(b)' <= Pending' <=> b = next \/ Dist(b) <= Pending
  BY Turn
<1>2. /\ next \in Batches /\ calls \in [Batches -> Seq(CallType)]
      /\ \A b \in Batches : Dist(b) \in 1..MaxBatches /\ MaxBatches \in Nat
      /\ \A b \in Batches : Succ(b) \in Batches
      /\ \A b \in Batches : Dist(b) <= Pending => b # next /\ b # n
      /\ \A b \in Batches : Dist(b) <= Pending => Succ(b) # n
  <2>1. next \in Batches /\ calls \in [Batches -> Seq(CallType)] /\ MaxBatches \in Nat
    BY ConstantFacts DEF ControlTypeOK
  <2>2. \A b \in Batches : Dist(b) \in 1..MaxBatches /\ (Dist(b) = MaxBatches <=> b = next)
    BY <2>1, DistFacts
  <2>3. Pending < MaxBatches
    BY Apart
  <2>4. \A b \in Batches : Succ(b) \in Batches
    BY <2>1, SuccFacts
  <2>5. \A b \in Batches : Dist(b) <= Pending => b # next /\ b # n
    BY <1>1, <2>1, <2>2, <2>3, SMTT(40)
  <2>6. ASSUME NEW b \in Batches, Dist(b) <= Pending, Succ(b) = n PROVE FALSE
    <3>1. Dist(b) # 1 /\ Dist(n) = Dist(b) - 1
      BY <1>1, <2>1, <2>6, SuccFacts
    <3> QED
      BY <1>1, <2>1, <2>2, <2>6, <3>1
  <2> QED
    BY <2>1, <2>2, <2>4, <2>5, <2>6
<1>3. o[next] \in Int /\ Len(calls[next]) \in Nat /\ p \in Int
  BY <1>2
<1>4. /\ r \in [Batches -> Int] /\ r[n] = p
      /\ \A b \in Batches : b # n => r[b] = o[b]
  BY <1>1, <1>3
<1>5. calls[n] = <<>> /\ Len(calls[n]) = 0
  BY <1>1 DEF Flight
<1>6. Progress' = Progress
  BY DEF Progress
<1>7. ASSUME NEW b \in Batches, Oldest(b)' PROVE r[b] = 0 - Progress
  <2>1. Dist(b)' = Pending'
    BY <1>1, <1>7 DEF Oldest
  <2>2. CASE b = next
    BY <1>1, <1>4, <2>1, <2>2 DEF Oldest, Line
  <2>3. CASE b # next
    <3>1. Dist(b) = Pending /\ Pending # 0
      BY <1>1, <1>2, <2>1, <2>3, SMTT(40)
    <3>2. b # n
      BY <1>2, <3>1
    <3> QED
      BY <1>4, <3>1, <3>2 DEF Oldest, Line
  <2> QED
    BY <2>2, <2>3
<1>8. ASSUME NEW b \in Batches, Dist(b)' <= Pending'
      PROVE  r[Succ(b)] = r[b] + Len(calls[b])
  <2>1. CASE b = next
    BY <1>1, <1>4, <2>1
  <2>2. CASE b # next
    <3>1. Dist(b) <= Pending
      BY <1>1, <1>8, <2>2
    <3>2. r[Succ(b)] = o[Succ(b)] /\ r[b] = o[b]
      BY <1>2, <1>4, <3>1
    <3> QED
      BY <3>1, <3>2 DEF Line
  <2> QED
    BY <2>1, <2>2
<1>9. Len(t) = r[n] + Len(calls[n]) + (IF pending = NoCall THEN 0 ELSE 1)
  BY <1>3, <1>4, <1>5 DEF Line
<1>10. ASSUME NEW b \in Batches, b = n \/ Dist(b)' <= Pending',
              NEW i \in 1..Len(calls[b]), r[b] + i >= 1
       PROVE  r[b] + i <= Len(t) /\ t[r[b] + i] = calls[b][i]
  <2>1. b # n
    BY <1>5
  <2>2. b = next \/ Dist(b) <= Pending
    BY <1>1, <1>10, <2>1
  <2> QED
    BY <1>4, <1>10, <2>1, <2>2 DEF Line
<1>11. pending # NoCall => t[Len(t)] = pending
  BY DEF Line
<1>12. ASSUME NEW b \in Batches, Dist(b)' <= Pending'
       PROVE  r[b] + Len(calls[b]) <= r[n] + Len(calls[n])
  <2>1. r[n] + Len(calls[n]) = p
    BY <1>3, <1>4, <1>5
  <2>2. CASE b = next
    BY <1>1, <1>3, <1>4, <2>1, <2>2
  <2>3. CASE b # next
    <3>1. Dist(b) <= Pending
      BY <1>1, <1>12, <2>3
    <3>2. r[b] = o[b]
      BY <1>2, <1>4, <3>1
    <3> QED
      BY <2>1, <3>1, <3>2 DEF Line
  <2> QED
    BY <2>2, <2>3
<1> QED
  BY <1>4, <1>6, <1>7, <1>8, <1>9, <1>10, <1>11, <1>12 DEF Line, Succ

\* The arithmetic of a batch that lies behind the executed one.
LEMMA Behind ==
  ASSUME NEW a \in Int, NEW m \in Nat, NEW b \in Int, NEW n \in Nat, NEW p \in Nat,
         a = 0 - p, p < m, a + m <= b + n
  PROVE  b + n + 1 # 1
  OBVIOUS

\* The first call of all is the next one of the oldest batch.
LEMMA LineFirst ==
  ASSUME ControlTypeOK, NEW t \in Seq(CallType), NEW o \in [Batches -> Int],
         Line(t, o), NEW B \in Batches, Oldest(B), Pending \in Nat,
         Progress \in Nat, Progress < Len(calls[B])
  PROVE  /\ t # <<>> /\ t[1] = calls[B][Progress + 1]
         /\ o[B] = 0 - Progress /\ (B = next \/ Dist(B) <= Pending)
<1>1. o[B] = 0 - Progress /\ (B = next \/ Dist(B) <= Pending)
  BY DEF Line, Oldest
<1>2. Progress + 1 \in 1..Len(calls[B]) /\ o[B] + (Progress + 1) = 1
  BY <1>1 DEF ControlTypeOK
<1>3. 1 <= Len(t) /\ t[1] = calls[B][Progress + 1]
  BY <1>1, <1>2, SMTT(40) DEF Line
<1> QED
  BY <1>1, <1>3

\* It is executed.
LEMMA LineExecute ==
  ASSUME ControlTypeOK, NEW t \in Seq(CallType), NEW o \in [Batches -> Int],
         Line(t, o), NEW B \in Batches, Oldest(B), Pending \in Nat,
         Progress \in Nat, Progress < Len(calls[B]),
         Progress' = Progress + 1, Pending' = Pending,
         UNCHANGED <<calls, next, pending>>,
         NEW u \in Seq(CallType), Len(t) \in Nat \ {0}, Len(u) = Len(t) - 1,
         \A i \in 1..Len(t)-1 : u[i] = t[i + 1],
         NEW r \in [Batches -> Int], \A b \in Batches : r[b] = o[b] - 1
  PROVE  Line(u, r)'
<1>1. \A b : Dist(b)' = Dist(b)
  BY DEF Dist
<1>2. \A b : Oldest(b)' <=> Oldest(b)
  BY <1>1 DEF Oldest
<1>3. o[B] = 0 - Progress /\ (B = next \/ Dist(B) <= Pending)
  BY DEF Line, Oldest
<1>7. /\ Len(t) \in Nat \ {0} /\ u \in Seq(CallType) /\ Len(u) = Len(t) - 1
      /\ \A i \in 1..Len(t)-1 : u[i] = t[i + 1]
  OBVIOUS
<1>8. r \in [Batches -> Int] /\ \A b \in Batches : r[b] = o[b] - 1 /\ o[b] \in Int
  OBVIOUS
<1>9. /\ next \in Batches /\ \A b \in Batches : Succ(b) \in Batches /\ Len(calls[b]) \in Nat
  <2>1. next \in Batches /\ calls \in [Batches -> Seq(CallType)]
    BY DEF ControlTypeOK
  <2>2. \A b \in Batches : Len(calls[b]) \in Nat
    BY <2>1
  <2> QED
    BY <2>1, <2>2, SuccFacts
<1>10. ASSUME NEW b \in Batches, Oldest(b) PROVE r[b] = 0 - (Progress + 1)
  <2>1. o[b] = 0 - Progress
    BY <1>10 DEF Line
  <2> QED
    BY <1>8, <2>1
<1>11. ASSUME NEW b \in Batches, Dist(b) <= Pending
       PROVE  r[Succ(b)] = r[b] + Len(calls[b])
  <2>1. o[Succ(b)] = o[b] + Len(calls[b])
    BY <1>11 DEF Line
  <2>2. r[Succ(b)] = o[Succ(b)] - 1 /\ r[b] = o[b] - 1 /\ o[b] \in Int /\ Len(calls[b]) \in Nat
    BY <1>8, <1>9
  <2>3. o[Succ(b)] \in Int
    BY <1>9
  <2> QED
    BY <2>1, <2>2, <2>3, SMTT(40)
<1>12. Len(u) = r[next] + Len(calls[next]) + (IF pending = NoCall THEN 0 ELSE 1)
  <2>1. PICK d \in {0, 1} : d = IF pending = NoCall THEN 0 ELSE 1
    OBVIOUS
  <2>2. Len(t) = o[next] + Len(calls[next]) + d
    BY <2>1 DEF Line
  <2>3. r[next] = o[next] - 1 /\ o[next] \in Int /\ Len(calls[next]) \in Nat
    BY <1>8, <1>9
  <2>4. Len(u) = r[next] + Len(calls[next]) + d
    <3>1. Len(t) \in Nat /\ Len(u) = Len(t) - 1
      BY <1>7
    <3> QED
      BY <3>1, <2>2, <2>3, SMTT(40)
  <2> QED
    BY <2>1, <2>4
<1>13. ASSUME NEW b \in Batches, b = next \/ Dist(b) <= Pending,
              NEW i \in 1..Len(calls[b]), r[b] + i >= 1
       PROVE  r[b] + i <= Len(u) /\ u[r[b] + i] = calls[b][i]
  <2>1. o[b] + i >= 1 /\ r[b] + i + 1 = o[b] + i
    BY <1>8, <1>13
  <2>2. o[b] + i <= Len(t) /\ t[o[b] + i] = calls[b][i]
    BY <1>13, <2>1 DEF Line
  <2>3. r[b] + i \in 1..Len(t)-1 /\ r[b] + i <= Len(u)
    BY <1>7, <1>8, <1>13, <2>1, <2>2, SMTT(40)
  <2> QED
    BY <1>7, <2>1, <2>2, <2>3
<1>14. ASSUME pending # NoCall PROVE u[Len(u)] = pending
  <2>1. t[Len(t)] = pending /\ Len(t) = o[next] + Len(calls[next]) + 1
    BY <1>14 DEF Line
  <2>2. Len(t) # 1
    <3>1. o[B] \in Int /\ Len(calls[B]) \in Nat /\ o[next] \in Int /\ Len(calls[next]) \in Nat
      BY <1>8, <1>9
    <3>2. CASE B = next
      BY <1>3, <2>1, <3>1, <3>2
    <3>3. CASE B # next
      <4>1. o[B] + Len(calls[B]) <= o[next] + Len(calls[next])
        BY <1>3, <3>3 DEF Line
      <4> QED
        BY <1>3, <2>1, <3>1, <4>1, Behind
    <3> QED
      BY <3>2, <3>3
  <2>3. Len(u) \in 1..Len(t)-1 /\ Len(u) + 1 = Len(t)
    BY <1>7, <2>2
  <2> QED
    BY <1>7, <2>1, <2>3
<1>15. ASSUME NEW b \in Batches, Dist(b) <= Pending
       PROVE  r[b] + Len(calls[b]) <= r[next] + Len(calls[next])
  <2>1. o[b] + Len(calls[b]) <= o[next] + Len(calls[next])
    BY <1>15 DEF Line
  <2>2. /\ r[b] = o[b] - 1 /\ o[b] \in Int /\ Len(calls[b]) \in Nat
        /\ r[next] = o[next] - 1 /\ o[next] \in Int /\ Len(calls[next]) \in Nat
    BY <1>8, <1>9
  <2>3. PICK x \in Int, y \in Int : x = o[b] /\ y = o[next]
    BY <2>2
  <2>4. PICK m \in Nat, n \in Nat : m = Len(calls[b]) /\ n = Len(calls[next])
    BY <2>2
  <2>5. x + m <= y + n
    BY <2>1, <2>3, <2>4
  <2>6. (x - 1) + m <= (y - 1) + n
    BY <2>5
  <2> QED
    BY <2>2, <2>3, <2>4, <2>6
<1> QED
  BY <1>1, <1>2, <1>8, <1>10, <1>11, <1>12, <1>13, <1>14, <1>15
  DEF Line, Succ

\* The oldest batch is executed to its end, and emptied.
LEMMA LineEnd ==
  ASSUME ControlTypeOK, Ring, NEW t \in Seq(CallType), NEW o \in [Batches -> Int],
         Line(t, o), NEW B \in Batches, Oldest(B),
         Progress = Len(calls[B]), calls' = [calls EXCEPT ![B] = <<>>],
         Progress' = 0, Pending' = Pending, UNCHANGED <<next, pending>>,
         NEW r \in [Batches -> Int], r[B] = 0,
         \A b \in Batches : b # B => r[b] = o[b]
  PROVE  Line(t, r)'
<1>1. \A b : Dist(b)' = Dist(b)
  BY DEF Dist
<1>2. \A b : Oldest(b)' <=> Oldest(b)
  BY <1>1 DEF Oldest
<1>3. /\ next \in Batches /\ calls \in [Batches -> Seq(CallType)]
      /\ Pending \in Nat /\ Pending < MaxBatches /\ MaxBatches \in Nat /\ MaxBatches >= 3
  BY ConstantFacts, Apart DEF ControlTypeOK
<1>4. \A b \in Batches : Dist(b) \in 1..MaxBatches /\ (Dist(b) = MaxBatches <=> b = next)
  BY <1>3, DistFacts
<1>5. \A b, c \in Batches : Dist(b) = Dist(c) => b = c
  BY <1>3, DistFacts
<1>6. \A b \in Batches : Len(calls[b]) \in Nat /\ o[b] \in Int /\ r[b] \in Int
  BY <1>3
<1>7. calls'[B] = <<>> /\ Len(calls'[B]) = 0 /\ \A b \in Batches : b # B => calls'[b] = calls[b]
  BY <1>3
<1>8. o[B] + Len(calls[B]) = 0
  <2>1. o[B] = 0 - Progress
    BY DEF Line
  <2> QED
    BY <1>6, <2>1
<1>9. r[B] + Len(calls'[B]) = 0
  BY <1>6, <1>7
<1>10. \A b \in Batches : r[b] + Len(calls'[b]) = o[b] + Len(calls[b])
  BY <1>7, <1>8, <1>9
<1>11. \A b \in Batches : Oldest(b) => b = B
  BY <1>5 DEF Oldest
<1>12. ASSUME NEW b \in Batches, Dist(b) <= Pending
       PROVE  r[Succ(b)] = r[b] + Len(calls'[b])
  <2>1. Pending # 0 /\ Dist(B) = Pending
    BY <1>3, <1>4, <1>12 DEF Oldest
  <2>2. Succ(b) # B
    <3>1. SUFFICES ASSUME Succ(b) = B PROVE FALSE
      OBVIOUS
    <3>2. CASE Dist(b) = 1
      BY <1>3, <1>4, <2>1, <3>1, <3>2, SuccFacts
    <3>3. CASE Dist(b) # 1
      <4>1. Dist(B) = Dist(b) - 1
        BY <1>3, <3>1, <3>3, SuccFacts
      <4> QED
        BY <1>3, <1>4, <1>12, <2>1, <4>1
    <3> QED
      BY <3>2, <3>3
  <2>3. Succ(b) \in Batches
    BY <1>3, SuccFacts
  <2>4. o[Succ(b)] = o[b] + Len(calls[b])
    BY <1>12 DEF Line
  <2> QED
    BY <1>10, <2>2, <2>3, <2>4
<1>13. Len(t) = r[next] + Len(calls'[next]) + (IF pending = NoCall THEN 0 ELSE 1)
  BY <1>3, <1>10 DEF Line
<1>14. \A b \in Batches : Dist(b) <= Pending =>
         r[b] + Len(calls'[b]) <= r[next] + Len(calls'[next])
  BY <1>3, <1>10 DEF Line
<1>15. ASSUME NEW b \in Batches, b = next \/ Dist(b) <= Pending,
              NEW i \in 1..Len(calls'[b]), r[b] + i >= 1
       PROVE  r[b] + i <= Len(t) /\ t[r[b] + i] = calls'[b][i]
  <2>1. b # B
    BY <1>7
  <2> QED
    BY <1>7, <1>15, <2>1 DEF Line
<1>16. pending # NoCall => t[Len(t)] = pending
  BY DEF Line
<1> QED
  BY <1>1, <1>2, <1>11, <1>12, <1>13, <1>14, <1>15, <1>16 DEF Line, Succ

\* It is no longer in flight.
LEMMA LineSignal ==
  ASSUME ControlTypeOK, Ring, NEW t \in Seq(CallType), NEW o \in [Batches -> Int],
         Line(t, o), NEW B \in Batches, Dist(B) = Pending, calls[B] = <<>>,
         Progress = 0, Progress' = 0, Pending' = Pending - 1,
         UNCHANGED <<calls, next, pending>>
  PROVE  Line(t, o)'
<1>1. \A b : Dist(b)' = Dist(b)
  BY DEF Dist
<1>3. next \in Batches /\ Pending \in Nat /\ MaxBatches \in Nat
  BY ConstantFacts, Apart DEF ControlTypeOK
<1>4. \A b \in Batches : Dist(b) \in 1..MaxBatches
  BY <1>3, DistFacts
<1>5. \A b, c \in Batches : Dist(b) = Dist(c) => b = c
  BY <1>3, DistFacts
<1>6. Pending # 0 /\ Oldest(B)
  BY <1>3, <1>4 DEF Oldest
<1>7. Succ(B) \in Batches /\ o[Succ(B)] = 0
  <2>1. Dist(B) <= Pending
    BY <1>3
  <2>2. o[Succ(B)] = o[B] + Len(calls[B])
    BY <2>1 DEF Line
  <2>3. o[B] = 0
    BY <1>6 DEF Line
  <2>4. o[Succ(B)] = 0
    BY <2>2, <2>3
  <2> QED
    BY <1>3, <2>4, SuccFacts
<1>8. ASSUME NEW b \in Batches, Oldest(b)' PROVE o[b] = 0
  <2>1. CASE Pending = 1
    <3>1. Pending' = 0 /\ Dist(B) = 1
      BY <2>1
    <3>2. b = next /\ Succ(B) = next
      BY <1>3, <1>8, <3>1, SuccFacts DEF Oldest
    <3> QED
      BY <1>7, <3>2
  <2>2. CASE Pending # 1
    <3>1. Dist(b) = Pending - 1
      BY <1>1, <1>3, <1>8, <2>2 DEF Oldest
    <3>2. Dist(Succ(B)) = Pending - 1
      BY <1>3, <2>2, SuccFacts
    <3> QED
      BY <1>5, <1>7, <3>1, <3>2
  <2> QED
    BY <2>1, <2>2
<1>9. \A b \in Batches : Dist(b)' <= Pending' => Dist(b) <= Pending
  BY <1>1, <1>3, <1>4
<1> QED
  BY <1>1, <1>8, <1>9 DEF Line, Succ

-----------------------------------------------------------------------------
(* Control: the application's own steps *)

\* A step that submits and takes no batch keeps the ring.
LEMMA RingStill ==
  ASSUME Ring, UNCHANGED <<fifo, running, next, last>>
  PROVE  Ring' /\ Pending' = Pending /\ \A b : Dist(b)' = Dist(b)
<1>1. Pending' = Pending /\ \A b : Dist(b)' = Dist(b)
  BY DEF Pending, Dist
<1> QED
  BY <1>1 DEF Ring

\* The application goes from one place to another.
LEMMA ControlMove ==
  ASSUME Control,
         UNCHANGED <<fifo, running, signalled, calls, attached, next, last, pending,
                     exec>>,
         unflushed' \in SUBSET Queries, token' \in [Batches -> BOOLEAN],
         \A b \in Batches : (token[b] => token'[b]) /\ (token'[b] => token[b] \/ b = next),
         apc \notin {"submit", "space", "append", "execute"},
         apc' \in AppPC \ {"space", "append", "execute", "flush"},
         after' \in {"app", "direct", "destroy", "result", "flush", "map"},
         apc' # "sync" => after' = "app",
         apc' \in {"direct", "callback", "map", "destroy", "destroyed"} =>
           Pending = 0 /\ calls[next] = <<>>
  PROVE  Control'
<1>1. Ring' /\ Pending' = Pending /\ \A b : Dist(b)' = Dist(b)
  BY RingStill DEF Control
<1>2. ControlTypeOK'
  BY DEF Control, ControlTypeOK
<1>3. Flight'
  BY <1>1 DEF Control, Flight
<1>4. Executes'
  BY DEF Control, Executes
<1>5. Place'
  BY <1>1 DEF Control, Place
<1>6. Tokens'
  <2>1. \A f \in attached : \E i \in DOMAIN calls[next] : FlushOf(calls[next][i], f)
    BY DEF Control, Tokens
  <2>2. next \in Batches
    BY DEF Control, ControlTypeOK
  <2> QED
    BY <2>1, <2>2 DEF Control, Tokens, FlushOf
<1> QED
  BY <1>1, <1>2, <1>3, <1>4, <1>5, <1>6 DEF Control

\* It records a call; a flush may have a new fence, with the batch's token.
LEMMA ControlAdd ==
  ASSUME Control, NEW c \in CallType, NEW l \in {"app", "submit", "unsync"},
         AddCall(c, l), apc \in {"app", "map", "unsync"},
         UNCHANGED <<fifo, running, signalled, next, last, exec, unflushed>>,
         token' \in [Batches -> BOOLEAN], attached' \in SUBSET Fences,
         \A b \in Batches : (token[b] => token'[b]) /\ (token'[b] => token[b] \/ b = next),
         \A f \in attached' : f \in attached \/ (FlushOf(c, f) /\ token'[next])
  PROVE  Control' /\ pending = NoCall
<1>1. Ring' /\ Pending' = Pending /\ \A b : Dist(b)' = Dist(b)
  BY RingStill DEF Control
<1>2. pending = NoCall /\ after = "app" /\ next \in Batches /\ c # NoCall
  BY CallFacts DEF Control, Place, ControlTypeOK
<1>3. \/ apc' = "submit" /\ pending' = c /\ after' = l /\ calls' = calls
      \/ apc' = l /\ UNCHANGED <<pending, after>>
         /\ calls' = [calls EXCEPT ![next] = Append(@, c)]
  BY DEF AddCall
<1>4. calls' = calls \/
        /\ calls' \in [Batches -> Seq(CallType)]
        /\ calls'[next] = Append(calls[next], c)
        /\ Len(calls[next]) \in Nat /\ Len(calls'[next]) = Len(calls[next]) + 1
        /\ calls'[next][Len(calls[next]) + 1] = c
        /\ \A i \in 1..Len(calls[next]) : calls'[next][i] = calls[next][i]
        /\ \A b \in Batches : b # next => calls'[b] = calls[b]
  BY <1>3, CallsAppend DEF Control
<1>5. ControlTypeOK'
  BY <1>2, <1>3, <1>4 DEF Control, ControlTypeOK, AppPC
<1>6. Flight'
  <2>1. apc # "space" /\ apc' # "space"
    BY <1>3
  <2> QED
    BY <1>1, <1>4, <2>1 DEF Control, Flight
<1>7. Executes'
  <2>1. exec["app"].stage = "idle" /\ apc' # "execute"
    BY <1>3 DEF Control, Executes
  <2>2. \A b \in running : b # next /\ b \in Batches
    BY Apart DEF Control, ControlTypeOK
  <2>3. exec["driver"].stage # "idle" => calls'[exec["driver"].batch] = calls[exec["driver"].batch]
    BY <1>4, <2>2 DEF Control, Executes
  <2> QED
    BY <2>1, <2>3 DEF Control, Executes, Threads
<1>8. Place'
  BY <1>1, <1>2, <1>3 DEF Place
<1>9. Tokens'
  <2>1. apc' \notin {"space", "append", "execute", "flush"}
    BY <1>3
  <2>2. \A b \in Batches : token'[b] => b = next
    BY DEF Control, Tokens
  <2>3. attached' # {} => token'[next]
    BY <1>2 DEF Control, Tokens
  <2>4. ASSUME NEW f \in attached'
        PROVE  \/ \E i \in DOMAIN calls'[next] : FlushOf(calls'[next][i], f)
               \/ apc' = "submit" /\ FlushOf(pending', f)
    <3>1. CASE calls' = calls
      <4>1. apc' = "submit" /\ pending' = c
        <5>1. calls[next] # Append(calls[next], c)
          BY <1>2, AppendFacts DEF Control, ControlTypeOK
        <5> QED
          BY <1>2, <1>3, <3>1, <5>1 DEF Control, ControlTypeOK
      <4> QED
        BY <3>1, <4>1 DEF Control, Tokens
    <3>2. CASE calls' # calls
      <4>1. /\ DOMAIN calls[next] = 1..Len(calls[next])
            /\ DOMAIN calls'[next] = 1..Len(calls[next])+1
        BY <1>2, <1>4, <3>2 DEF Control, ControlTypeOK
      <4>2. \A i \in DOMAIN calls[next] : i \in DOMAIN calls'[next]
        BY <1>4, <3>2, <4>1
      <4>3. Len(calls[next]) + 1 \in DOMAIN calls'[next]
        BY <1>4, <3>2, <4>1
      <4>4. f \in attached => \E i \in DOMAIN calls[next] : FlushOf(calls[next][i], f)
        BY DEF Control, Tokens
      <4> QED
        BY <1>4, <3>2, <4>1, <4>2, <4>3, <4>4
    <3> QED
      BY <3>1, <3>2
  <2> QED
    BY <2>1, <2>2, <2>3, <2>4 DEF Tokens, FlushOf
<1> QED
  BY <1>1, <1>2, <1>5, <1>6, <1>7, <1>8, <1>9 DEF Control

\* tc_batch_flush finds the queue full.
LEMMA ControlAnnounce ==
  ASSUME Control, apc = "submit", DropToken, Queue!Announce(next), apc' = "space",
         UNCHANGED <<calls, next, last, pending, after, exec, unflushed>>
  PROVE  Control'
<1>1. /\ UNCHANGED <<fifo, running>> /\ signalled' = [signalled EXCEPT ![next] = FALSE]
      /\ attached' = {} /\ token' = [token EXCEPT ![next] = FALSE]
  BY DEF Queue!Announce, DropToken
<1>2. Ring' /\ Pending' = Pending /\ \A b : Dist(b)' = Dist(b)
  BY <1>1, RingStill DEF Control
<1>3. ControlTypeOK'
  BY <1>1 DEF Control, ControlTypeOK, AppPC
<1>4. Flight'
  BY <1>1, <1>2 DEF Control, Flight, ControlTypeOK
<1>5. Executes'
  BY <1>1 DEF Control, Executes
<1>6. Place'
  BY <1>2 DEF Control, Place
<1>7. Tokens'
  BY <1>1 DEF Control, Tokens, ControlTypeOK
<1> QED
  BY <1>2, <1>3, <1>4, <1>5, <1>6, <1>7 DEF Control

\* The batch is queued, and the next one has been emptied.
LEMMA ControlEnqueue ==
  ASSUME Control, Enqueue, apc \in {"submit", "space"},
         \/ DropToken
         \/ apc = "space" /\ UNCHANGED <<token, attached>>,
         UNCHANGED <<calls, pending, after, exec, unflushed>>
  PROVE  Control'
<1>1. /\ Queue!Enqueue(next) /\ last' = next /\ next' = (next + 1) % MaxBatches
      /\ apc' = IF pending = NoCall THEN "app" ELSE "append"
  BY DEF Enqueue
<1>2. /\ next' \in Batches /\ next' = Succ(next) /\ next' # next
      /\ Pending \in Nat /\ Pending' = Pending + 1 /\ Dist(next') > Pending
      /\ \A b \in Batches : Dist(b)' = IF b = next THEN 1 ELSE Dist(b) + 1
      /\ \A b \in Batches : Dist(b)' <= Pending' <=> b = next \/ Dist(b) <= Pending
      /\ fifo' = Append(fifo, next) /\ Len(fifo') = Len(fifo) + 1
      /\ Len(fifo) \in Nat /\ Len(fifo') <= QueueSize
      /\ running' = running /\ signalled' = [signalled EXCEPT ![next] = FALSE]
  BY <1>1, Turn DEF Control
<1>3. /\ next \in Batches /\ fifo \in Seq(Batches) /\ running \in SUBSET Batches
      /\ signalled \in [Batches -> BOOLEAN] /\ token \in [Batches -> BOOLEAN]
      /\ calls \in [Batches -> Seq(CallType)]
  BY DEF Control, ControlTypeOK
<1>4. \A b \in Batches : Dist(b) \in Nat /\ Dist(b)' \in Nat
  <2>1. \A b \in Batches : Dist(b) \in 1..MaxBatches
    BY <1>3, DistFacts
  <2> QED
    BY <1>2, <2>1, ConstantFacts
<1>5. attached' = {} /\ \A b \in Batches : ~token'[b]
  BY <1>3 DEF Control, Tokens, DropToken
<1>6. ControlTypeOK'
  <2>1. fifo' \in Seq(Batches)
    BY <1>2, <1>3, AppendFacts
  <2>2. signalled' \in [Batches -> BOOLEAN] /\ token' \in [Batches -> BOOLEAN]
    BY <1>2, <1>3 DEF DropToken
  <2> QED
    BY <1>1, <1>2, <1>3, <1>5, <2>1, <2>2 DEF Control, ControlTypeOK, AppPC
<1>7. Ring'
  <2>1. ASSUME NEW i \in 1..Len(fifo') PROVE Dist(fifo[i])' = Len(fifo') - i + 1
    <3>1. CASE i = Len(fifo')
      BY <1>2, <1>3, <3>1, AppendFacts
    <3>2. CASE i # Len(fifo')
      <4>1. i \in 1..Len(fifo) /\ fifo'[i] = fifo[i] /\ fifo[i] \in Batches
        BY <1>2, <1>3, <3>2, AppendFacts
      <4>2. fifo[i] # next /\ Dist(fifo[i]) = Len(fifo) - i + 1
        BY <4>1, Apart DEF Control, Ring
      <4>3. PICK b \in Batches : b = fifo[i]
        BY <4>1
      <4>4. Dist(b)' = Dist(b) + 1
        BY <1>2, <4>2, <4>3
      <4>5. Len(fifo') - i + 1 = Len(fifo) - i + 1 + 1
        BY <1>2
      <4> QED
        BY <4>1, <4>2, <4>3, <4>4, <4>5
    <3> QED
      BY <3>1, <3>2
  <2>2. \A b \in running : Dist(b)' = Len(fifo') + 1
    <3>1. \A b \in running : Dist(b) = Len(fifo) + 1 /\ b # next /\ b \in Batches
      BY <1>3, Apart DEF Control, Ring
    <3> QED
      BY <1>2, <3>1
  <2>3. Dist(last)' = 1
    BY <1>1, <1>2, <1>3
  <2> QED
    BY <1>2, <2>1, <2>2, <2>3 DEF Ring
<1>8. Flight'
  <2> SUFFICES ASSUME NEW b \in Batches
               PROVE  /\ signalled'[b] <=> Dist(b)' > Pending'
                      /\ Dist(b)' > Pending' /\ b # next' => calls[b] = <<>>
    BY <1>1 DEF Flight
  <2>1. Dist(b)' > Pending' <=> b # next /\ Dist(b) > Pending
    BY <1>2, <1>4
  <2>2. b # next => (signalled[b] <=> Dist(b) > Pending)
                     /\ (Dist(b) > Pending => calls[b] = <<>>)
    BY DEF Control, Flight
  <2>3. signalled'[b] <=> b # next /\ signalled[b]
    BY <1>2, <1>3
  <2> QED
    BY <2>1, <2>2, <2>3
<1>9. Executes'
  <2>1. apc # "execute" /\ apc' # "execute"
    BY <1>1
  <2> QED
    BY <1>2, <2>1 DEF Control, Executes
<1>10. Place'
  BY <1>1 DEF Control, Place
<1>11. Tokens'
  BY <1>2, <1>5 DEF Tokens
<1> QED
  BY <1>6, <1>7, <1>8, <1>9, <1>10, <1>11 DEF Control

\* The call that did not fit is recorded.
LEMMA ControlAppend ==
  ASSUME Control, AppendCall
  PROVE  Control' /\ pending # NoCall
<1>1. /\ UNCHANGED <<fifo, running, signalled, token, attached, next, last, exec, unflushed>>
      /\ apc = "append" /\ calls' = [calls EXCEPT ![next] = Append(@, pending)]
      /\ pending' = NoCall /\ apc' = after /\ after' = "app"
  BY DEF AppendCall, pool
<1>2. /\ pending # NoCall /\ pending \in CallType /\ next \in Batches
      /\ after \in {"app", "submit", "unsync"} /\ attached = {}
  BY <1>1 DEF Control, Place, ControlTypeOK, Tokens
<1>3. Ring' /\ Pending' = Pending /\ \A b : Dist(b)' = Dist(b)
  BY <1>1, RingStill DEF Control
<1>4. PICK c : c = pending
  OBVIOUS
<1>5. /\ calls' \in [Batches -> Seq(CallType)]
      /\ \A b \in Batches : b # next => calls'[b] = calls[b]
  BY <1>1, <1>2, <1>4, CallsAppend DEF Control
<1>6. ControlTypeOK'
  BY <1>1, <1>2, <1>5 DEF Control, ControlTypeOK, AppPC
<1>7. Flight'
  BY <1>1, <1>2, <1>3, <1>5 DEF Control, Flight
<1>8. Executes'
  <2>1. exec["app"].stage = "idle" /\ apc' # "execute"
    BY <1>1, <1>2 DEF Control, Executes
  <2>2. \A b \in running : b # next /\ b \in Batches
    BY Apart DEF Control, ControlTypeOK
  <2>3. exec["driver"].stage # "idle" => calls'[exec["driver"].batch] = calls[exec["driver"].batch]
    BY <1>5, <2>2 DEF Control, Executes
  <2> QED
    BY <1>1, <2>1, <2>3 DEF Control, Executes, Threads
<1>9. Place'
  BY <1>1, <1>2 DEF Place
<1>10. Tokens'
  BY <1>1, <1>2 DEF Control, Tokens
<1> QED
  BY <1>2, <1>3, <1>6, <1>7, <1>8, <1>9, <1>10 DEF Control

-----------------------------------------------------------------------------
(* Control: tc_batch_execute *)

Running == {"calls", "queries", "flushed"}

\* The state of a thread that starts to execute a batch.
LEMMA StartFacts ==
  ASSUME NEW b \in Batches, NEW st \in Running
  PROVE  /\ [Idle EXCEPT !.stage = st, !.batch = b] \in ExecType
         /\ [Idle EXCEPT !.stage = st, !.batch = b].stage = st
         /\ [Idle EXCEPT !.stage = st, !.batch = b].batch = b
         /\ [Idle EXCEPT !.stage = st, !.batch = b].pos = 0
  BY DEF Idle, ExecType, Running

\* The state of a thread that executes nothing.
LEMMA IdleFacts ==
  /\ Idle \in ExecType /\ Idle.stage = "idle" /\ Idle.pos = 0
  BY DEF Idle, ExecType

\* While anything is in flight, the application executes nothing.
LEMMA PendingFacts ==
  ASSUME Control
  PROVE  /\ Pending \in Nat
         /\ Pending = 0 <=> fifo = <<>> /\ running = {}
         /\ Pending = 0 => exec["driver"].stage = "idle"
         /\ Pending # 0 => apc # "execute" /\ exec["app"].stage = "idle"
                           /\ exec["app"].pos = 0
         /\ exec \in [Threads -> ExecType]
         /\ exec["app"] \in ExecType /\ exec["driver"] \in ExecType
<1>1. Pending \in Nat /\ (Pending = 0 <=> fifo = <<>> /\ running = {})
  <2>1. Len(fifo) \in Nat /\ (Len(fifo) = 0 <=> fifo = <<>>)
    BY DEF Control, ControlTypeOK
  <2> QED
    BY <2>1 DEF Pending
<1>2. exec \in [Threads -> ExecType] /\ "app" \in Threads /\ "driver" \in Threads
  BY DEF Control, ControlTypeOK, Threads
<1>3. Pending = 0 => exec["driver"].stage = "idle"
  BY <1>1 DEF Control, Executes
<1>4. Pending # 0 => apc # "execute" /\ exec["app"].stage = "idle" /\ exec["app"].pos = 0
  BY <1>2 DEF Control, Executes, Place
<1> QED
  BY <1>1, <1>2, <1>3, <1>4

\* _tc_sync and tc_flush: the application starts to execute its own batch.
LEMMA ControlStart ==
  ASSUME Control, apc \in {"sync", "flush"}, Pending = 0, NEW st \in Running,
         exec' = [exec EXCEPT !["app"] = [Idle EXCEPT !.stage = st, !.batch = next]],
         apc' = "execute",
         after' \in {"app", "direct", "destroy", "result", "flush", "map"},
         UNCHANGED <<fifo, running, signalled, calls, next, last, pending, unflushed>>,
         token' \in [Batches -> BOOLEAN], \A b \in Batches : ~token'[b], attached' = {}
  PROVE  Control' /\ Pending' = Pending /\ Progress' = Progress
<1>1. Ring' /\ Pending' = Pending /\ \A b : Dist(b)' = Dist(b)
  BY RingStill DEF Control
<1>2. /\ next \in Batches /\ exec \in [Threads -> ExecType]
      /\ "app" \in Threads /\ "driver" \in Threads /\ Threads = {"app", "driver"}
      /\ calls \in [Batches -> Seq(CallType)]
  BY DEF Control, ControlTypeOK, Threads
<1>3. /\ exec'["app"] \in ExecType /\ exec'["app"].stage = st /\ exec'["app"].pos = 0
      /\ exec'["app"].batch = next
      /\ exec'["driver"] = exec["driver"] /\ exec' \in [Threads -> ExecType]
  BY <1>2, StartFacts
<1>4. exec["app"].stage = "idle" /\ exec["app"].pos = 0 /\ exec["driver"].stage = "idle"
  BY <1>2, PendingFacts DEF Control, Executes
<1>5. Progress' = Progress
  BY <1>3, <1>4 DEF Progress
<1>6. ControlTypeOK'
  BY <1>2, <1>3 DEF Control, ControlTypeOK, AppPC
<1>7. Flight'
  BY <1>1 DEF Control, Flight
<1>8. Executes'
  <2>1. Len(calls[next]) \in Nat /\ st # "idle" /\ st # "signal"
    BY <1>2 DEF Running
  <2>2. \A e \in Threads :
          /\ exec'[e].stage = "idle" => exec'[e].pos = 0
          /\ exec'[e].stage \in {"calls", "queries", "flushed"} =>
               exec'[e].pos <= Len(calls[exec'[e].batch])
    BY <1>2, <1>3, <1>4, <2>1 DEF Control, Executes
  <2> QED
    BY <1>2, <1>3, <1>4, <2>1, <2>2 DEF Control, Executes
<1>9. Place'
  BY <1>1 DEF Control, Place
<1>10. Tokens'
  BY <1>2 DEF Tokens
<1> QED
  BY <1>1, <1>5, <1>6, <1>7, <1>8, <1>9, <1>10 DEF Control

\* Whoever executes a batch executes the oldest.
LEMMA ExecutesOldest ==
  ASSUME Control, NEW e \in Threads, exec[e].stage \in Running
  PROVE  /\ exec[e] \in ExecType /\ exec[e].batch \in Batches /\ exec[e].pos \in Nat
         /\ Oldest(exec[e].batch) /\ Progress = exec[e].pos /\ Pending \in Nat
         /\ exec[e].pos <= Len(calls[exec[e].batch])
         /\ e = "app" => apc = "execute" /\ exec[e].batch = next /\ Pending = 0
                         /\ exec["driver"].stage = "idle"
         /\ e = "driver" => running = {exec[e].batch} /\ exec[e].batch # next
<1>1. /\ exec[e] \in ExecType /\ exec[e].pos \in Nat /\ Pending \in Nat
      /\ exec[e].pos <= Len(calls[exec[e].batch])
  BY PendingFacts DEF Control, Executes, ExecType, Running
<1>2. CASE e = "app"
  <2>1. /\ apc = "execute" /\ exec[e].batch = next /\ Pending = 0
        /\ exec["driver"].stage = "idle" /\ next \in Batches
    BY <1>2, PendingFacts DEF Control, Executes, Place, Running, ControlTypeOK
  <2>2. Oldest(next) /\ Progress = exec[e].pos
    BY <1>2, <2>1 DEF Oldest, Progress
  <2> QED
    BY <1>1, <1>2, <2>1, <2>2
<1>3. CASE e = "driver"
  <2>1. running # {} /\ exec[e].stage # "idle" /\ exec[e].stage # "signal"
    BY <1>3 DEF Control, Executes, Running
  <2>2. PICK b \in running : b = exec[e].batch
    BY <1>3, <2>1 DEF Control, Executes
  <2>3. running = {b} /\ b \in Batches /\ b # next
    BY <2>2, Apart DEF Control, ControlTypeOK
  <2>4. Pending # 0 /\ Dist(b) = Pending
    BY <2>1, <2>2, PendingFacts DEF Control, Ring, Pending
  <2>5. Oldest(b) /\ Progress = exec[e].pos
    BY <1>3, <2>1, <2>4 DEF Oldest, Progress
  <2> QED
    BY <1>1, <1>3, <2>2, <2>3, <2>5
<1> QED
  BY <1>2, <1>3 DEF Threads

\* A step within a batch.
LEMMA ControlExecute ==
  ASSUME Control, NEW e \in Threads, exec[e].stage \in Running,
         NEW x \in ExecType, exec' = [exec EXCEPT ![e] = x],
         x.stage \in Running, x.batch = exec[e].batch, x.pos <= Len(calls[x.batch]),
         unflushed' \in SUBSET Queries,
         UNCHANGED <<fifo, running, signalled, calls, token, attached, next, last,
                     apc, pending, after>>
  PROVE  Control' /\ Pending' = Pending /\ Progress' = x.pos
<1>1. Ring' /\ Pending' = Pending /\ \A b : Dist(b)' = Dist(b)
  BY RingStill DEF Control
<1>2. /\ exec \in [Threads -> ExecType] /\ Threads = {"app", "driver"}
      /\ exec' \in [Threads -> ExecType] /\ exec'[e] = x
      /\ \A d \in Threads : d # e => exec'[d] = exec[d]
  BY DEF Control, ControlTypeOK, Threads
<1>3. /\ e = "app" => apc = "execute" /\ exec[e].batch = next /\ Pending = 0
                      /\ exec["driver"].stage = "idle"
      /\ e = "driver" => running = {exec[e].batch}
      /\ x.stage # "idle" /\ x.stage # "signal"
  BY ExecutesOldest DEF Running
<1>4. Progress' = x.pos
  BY <1>2, <1>3 DEF Progress
<1>5. ControlTypeOK'
  BY <1>2 DEF Control, ControlTypeOK
<1>6. Flight'
  BY <1>1 DEF Control, Flight
<1>7. Executes'
  <2>1. CASE e = "app"
    BY <1>2, <1>3, <2>1 DEF Control, Executes
  <2>2. CASE e = "driver"
    BY <1>2, <1>3, <2>2 DEF Control, Executes
  <2> QED
    BY <1>2, <2>1, <2>2
<1>8. Place'
  BY <1>1 DEF Control, Place
<1>9. Tokens'
  BY DEF Control, Tokens
<1> QED
  BY <1>1, <1>4, <1>5, <1>6, <1>7, <1>8, <1>9 DEF Control

\* A batch is executed to the end, and emptied.
LEMMA ControlEnd ==
  ASSUME Control, NEW e \in Threads, ExecuteEnd(e)
  PROVE  Control' /\ Pending' = Pending /\ Progress' = 0
<1>1. /\ exec[e].stage = "calls" /\ ~Executing(e)
      /\ calls' = [calls EXCEPT ![exec[e].batch] = <<>>]
      /\ UNCHANGED <<fifo, running, signalled, token, attached, next, last, unflushed>>
  BY DEF ExecuteEnd, pool, query
<1>2. PICK B \in Batches : B = exec[e].batch
  BY <1>1, ExecutesOldest DEF Running
<1>3. Ring' /\ Pending' = Pending /\ \A b : Dist(b)' = Dist(b)
  BY <1>1, RingStill DEF Control
<1>4. /\ exec \in [Threads -> ExecType] /\ Threads = {"app", "driver"}
      /\ calls \in [Batches -> Seq(CallType)] /\ next \in Batches
  BY DEF Control, ControlTypeOK, Threads
<1>5. /\ calls' \in [Batches -> Seq(CallType)] /\ calls'[B] = <<>>
      /\ \A b \in Batches : b # B => calls'[b] = calls[b]
  <2>1. <<>> \in Seq(CallType)
    OBVIOUS
  <2> QED
    BY <1>1, <1>2, <1>4, <2>1
<1>6. Len(calls'[B]) = 0 /\ \A b \in Batches : calls[b] = <<>> => calls'[b] = <<>>
  BY <1>5
<1>7. CASE e = "app"
  <2>1. /\ apc = "execute" /\ B = next /\ Pending = 0 /\ exec["driver"].stage = "idle"
        /\ running = {}
    BY <1>1, <1>2, <1>7, ExecutesOldest, PendingFacts DEF Running
  <2>2. exec' = [exec EXCEPT ![e] = Idle] /\ apc' = after /\ after' = "app" /\ pending' = pending
    BY <1>7 DEF ExecuteEnd
  <2>3. /\ exec' \in [Threads -> ExecType] /\ exec'["app"] = Idle
        /\ exec'["driver"] = exec["driver"]
    BY <1>4, <1>7, <2>2, IdleFacts
  <2>4. after \in {"app", "direct", "destroy", "result", "flush", "map"} /\ pending = NoCall
    BY <2>1 DEF Control, Place, ControlTypeOK
  <2>5. attached = {} /\ \A b \in Batches : ~token[b]
    BY <1>4, <2>1 DEF Control, Tokens
  <2>6. ControlTypeOK'
    BY <1>1, <1>5, <2>2, <2>3, <2>4 DEF Control, ControlTypeOK, AppPC
  <2>7. Flight'
    BY <1>1, <1>3, <1>6, <2>1, <2>2, <2>4 DEF Control, Flight
  <2>8. Executes'
    BY <1>1, <1>4, <2>1, <2>2, <2>3, <2>4, IdleFacts DEF Control, Executes
  <2>9. Place'
    BY <1>1, <1>3, <1>5, <2>1, <2>2, <2>4 DEF Place
  <2>10. Tokens'
    BY <1>1, <1>4, <2>5 DEF Tokens
  <2>11. Progress' = 0
    BY <2>1, <2>3, IdleFacts DEF Progress
  <2> QED
    BY <1>3, <2>6, <2>7, <2>8, <2>9, <2>10, <2>11 DEF Control
<1>8. CASE e = "driver"
  <2>1. running = {B} /\ B # next
    BY <1>1, <1>2, <1>8, ExecutesOldest DEF Running
  <2>2. exec' = [exec EXCEPT !["driver"].stage = "signal"] /\ UNCHANGED <<apc, pending, after>>
    BY <1>8 DEF ExecuteEnd, Stage, ctl
  <2>3. /\ exec' \in [Threads -> ExecType] /\ exec'["app"] = exec["app"]
        /\ exec'["driver"].stage = "signal" /\ exec'["driver"].batch = B
    <3>1. exec["driver"] \in ExecType
      BY <1>4
    <3>2. [exec["driver"] EXCEPT !.stage = "signal"] \in ExecType
      BY <3>1 DEF ExecType
    <3>3. exec' = [exec EXCEPT !["driver"] = [exec["driver"] EXCEPT !.stage = "signal"]]
      BY <1>4, <2>2
    <3>4. /\ [exec["driver"] EXCEPT !.stage = "signal"].stage = "signal"
          /\ [exec["driver"] EXCEPT !.stage = "signal"].batch = exec["driver"].batch
      BY <3>1 DEF ExecType
    <3> QED
      BY <1>2, <1>4, <1>8, <3>2, <3>3, <3>4
  <2>4. ControlTypeOK'
    BY <1>1, <1>5, <2>2, <2>3 DEF Control, ControlTypeOK
  <2>5. Flight'
    BY <1>1, <1>3, <1>6, <2>2 DEF Control, Flight
  <2>6. Executes'
    <3>1. exec["app"].stage = "idle" /\ exec["app"].pos = 0 /\ apc # "execute"
      <4>1. Pending # 0
        BY <2>1, PendingFacts
      <4> QED
        BY <4>1, PendingFacts
    <3> QED
      BY <1>1, <1>4, <1>5, <2>1, <2>2, <2>3, <3>1 DEF Control, Executes
  <2>7. Place'
    BY <1>1, <1>3, <1>5, <1>4, <2>1, <2>2 DEF Control, Place
  <2>8. Tokens'
    BY <1>1, <1>4, <1>5, <2>1, <2>2 DEF Control, Tokens
  <2>9. Progress' = 0
    BY <2>3 DEF Progress
  <2> QED
    BY <1>3, <2>4, <2>5, <2>6, <2>7, <2>8, <2>9 DEF Control
<1> QED
  BY <1>4, <1>7, <1>8

\* The driver thread takes the oldest batch out of the queue.
LEMMA ControlTake ==
  ASSUME Control, DriverTake
  PROVE  Control' /\ Pending' = Pending /\ Progress' = Progress
<1>1. /\ running = {} /\ fifo # <<>> /\ fifo' = Tail(fifo)
      /\ running' = {Head(fifo)} \ {NoBatch}
      /\ exec' = [exec EXCEPT !["driver"] = [Idle EXCEPT !.stage = "calls",
                                                         !.batch = Head(fifo)]]
      /\ UNCHANGED <<signalled, calls, token, attached, next, last, apc, pending, after,
                     unflushed>>
  BY DEF DriverTake, Queue!Take, batches, ctl, query
<1>2. /\ Len(fifo) \in Nat \ {0} /\ Tail(fifo) \in Seq(Batches)
      /\ Len(Tail(fifo)) = Len(fifo) - 1 /\ Head(fifo) = fifo[1] /\ fifo[1] \in Batches
      /\ \A i \in 1..Len(fifo)-1 : Tail(fifo)[i] = fifo[i + 1]
  BY <1>1, TailFacts DEF Control, ControlTypeOK
<1>3. PICK h \in Batches : h = fifo[1]
  BY <1>2
<1>4. running' = {h} /\ Head(fifo) = h
  BY <1>1, <1>2, <1>3, ConstantFacts
<1>5. Pending = Len(fifo) /\ Pending' = Pending
  <2>1. Pending = Len(fifo)
    BY <1>1, <1>2 DEF Pending
  <2>2. running' # {} /\ Len(fifo') = Len(fifo) - 1
    BY <1>1, <1>2, <1>4
  <2>3. Pending' = Len(fifo) - 1 + 1
    BY <2>2 DEF Pending
  <2> QED
    BY <1>2, <2>1, <2>3
<1>6. \A b : Dist(b)' = Dist(b)
  BY <1>1 DEF Dist
<1>7. /\ exec \in [Threads -> ExecType] /\ Threads = {"app", "driver"}
      /\ calls \in [Batches -> Seq(CallType)] /\ next \in Batches
  BY DEF Control, ControlTypeOK, Threads
<1>8. /\ exec' \in [Threads -> ExecType] /\ exec'["app"] = exec["app"]
      /\ exec'["driver"].stage = "calls" /\ exec'["driver"].batch = h
      /\ exec'["driver"].pos = 0
  <2>1. "calls" \in Running
    BY DEF Running
  <2> QED
    BY <1>1, <1>4, <1>7, <2>1, StartFacts
<1>9. Progress' = Progress
  <2>1. exec["driver"].stage = "idle" /\ exec["app"].pos = 0
    <3>1. Pending # 0
      BY <1>2, <1>5
    <3> QED
      BY <1>1, <3>1, PendingFacts DEF Control, Executes
  <2> QED
    BY <1>8, <2>1 DEF Progress
<1>10. ControlTypeOK'
  BY <1>1, <1>2, <1>4, <1>8 DEF Control, ControlTypeOK
<1>11. Ring'
  <2>1. ASSUME NEW i \in 1..Len(fifo') PROVE Dist(fifo[i])' = Len(fifo') - i + 1
    <3>1. i + 1 \in 1..Len(fifo) /\ fifo'[i] = fifo[i + 1]
      BY <1>1, <1>2
    <3>2. Dist(fifo[i + 1]) = Len(fifo) - (i + 1) + 1
      BY <3>1 DEF Control, Ring
    <3> QED
      BY <1>1, <1>2, <1>6, <3>1, <3>2
  <2>2. Dist(h) = Len(fifo') + 1
    <3>1. 1 \in 1..Len(fifo)
      BY <1>2
    <3>2. Dist(fifo[1]) = Len(fifo) - 1 + 1
      BY <3>1 DEF Control, Ring
    <3> QED
      BY <1>1, <1>2, <1>3, <3>2
  <2>3. Len(fifo') <= QueueSize
    BY <1>1, <1>2, ConstantFacts DEF Control, Ring, QueueSize
  <2> QED
    BY <1>1, <1>4, <1>5, <1>6, <2>1, <2>2, <2>3 DEF Control, Ring
<1>12. Flight'
  BY <1>1, <1>5, <1>6 DEF Control, Flight
<1>13. Executes'
  <2>1. Len(calls[h]) \in Nat
    BY <1>7
  <2>2. \A e \in Threads :
          /\ exec'[e].stage = "idle" => exec'[e].pos = 0
          /\ exec'[e].stage \in {"calls", "queries", "flushed"} =>
               exec'[e].pos <= Len(calls[exec'[e].batch])
    BY <1>7, <1>8, <2>1 DEF Control, Executes
  <2>3. exec'["driver"].stage \notin {"idle", "signal"} /\ running' # {}
    BY <1>4, <1>8
  <2> QED
    BY <1>1, <1>4, <1>8, <2>2, <2>3 DEF Control, Executes
<1>14. Place'
  BY <1>1, <1>5 DEF Control, Place
<1>15. Tokens'
  BY <1>1 DEF Control, Tokens
<1> QED
  BY <1>5, <1>9, <1>10, <1>11, <1>12, <1>13, <1>14, <1>15 DEF Control

\* It signals the batch's fence.
LEMMA ControlSignal ==
  ASSUME Control, DriverSignal
  PROVE  /\ Control' /\ Pending' = Pending - 1 /\ Progress = 0 /\ Progress' = 0
         /\ exec["driver"].batch \in Batches /\ Dist(exec["driver"].batch) = Pending
         /\ calls[exec["driver"].batch] = <<>>
<1>1. PICK B : B = exec["driver"].batch
  OBVIOUS
<1>2. /\ exec["driver"].stage = "signal" /\ B \in running /\ running' = running \ {B}
      /\ signalled' = [signalled EXCEPT ![B] = TRUE]
      /\ exec' = [exec EXCEPT !["driver"] = Idle]
      /\ UNCHANGED <<fifo, calls, token, attached, next, last, apc, pending, after,
                     unflushed>>
  BY <1>1 DEF DriverSignal, Queue!Complete, batches, ctl, query
<1>3. running = {B} /\ running' = {} /\ B \in Batches /\ B # next
  BY <1>2, Apart DEF Control, ControlTypeOK
<1>4. /\ exec \in [Threads -> ExecType] /\ Threads = {"app", "driver"} /\ next \in Batches
      /\ signalled \in [Batches -> BOOLEAN] /\ Len(fifo) \in Nat
  BY DEF Control, ControlTypeOK, Threads
<1>5. Pending = Len(fifo) + 1 /\ Pending' = Len(fifo) /\ Dist(B) = Pending
  BY <1>2, <1>3, <1>4 DEF Pending, Control, Ring
<1>6. \A b : Dist(b)' = Dist(b)
  BY <1>2 DEF Dist
<1>7. exec' \in [Threads -> ExecType] /\ exec'["driver"] = Idle /\ exec'["app"] = exec["app"]
  BY <1>2, <1>4, IdleFacts
<1>8. /\ exec["app"].stage = "idle" /\ exec["app"].pos = 0
      /\ apc \notin {"execute", "direct", "callback", "flush", "map", "destroy", "destroyed"}
  <2>1. Pending # 0
    BY <1>4, <1>5
  <2> QED
    BY <2>1, PendingFacts DEF Control, Place
<1>9. Progress = 0 /\ Progress' = 0
  BY <1>2, <1>7, <1>8, IdleFacts DEF Progress
<1>10. calls[B] = <<>>
  BY <1>1, <1>2 DEF Control, Executes
<1>11. ControlTypeOK'
  BY <1>2, <1>3, <1>7 DEF Control, ControlTypeOK
<1>12. Ring'
  <2>1. Pending' > 0 => Dist(last) = 1
    BY <1>4, <1>5 DEF Control, Ring
  <2> QED
    BY <1>2, <1>3, <1>6, <2>1 DEF Control, Ring
<1>13. Flight'
  <2> SUFFICES ASSUME NEW b \in Batches
               PROVE  /\ signalled'[b] <=> Dist(b) > Pending' /\ ~(apc = "space" /\ b = next)
                      /\ Dist(b) > Pending' /\ b # next => calls[b] = <<>>
    BY <1>2, <1>6 DEF Flight
  <2>1. /\ signalled[b] <=> Dist(b) > Pending /\ ~(apc = "space" /\ b = next)
        /\ Dist(b) > Pending /\ b # next => calls[b] = <<>>
    BY DEF Control, Flight
  <2>2. CASE b = B
    <3>1. Dist(b) > Pending' /\ b # next
      BY <1>3, <1>4, <1>5, <2>2
    <3>2. signalled'[b] /\ calls[b] = <<>>
      BY <1>2, <1>4, <1>10, <2>2
    <3> QED
      BY <3>1, <3>2
  <2>3. CASE b # B
    <3>1. Dist(b) # Dist(B) /\ Dist(b) \in Nat
      BY <1>3, <1>4, <2>3, DistFacts, ConstantFacts
    <3>2. Dist(b) > Pending' <=> Dist(b) > Pending
      BY <1>4, <1>5, <3>1
    <3>3. signalled'[b] = signalled[b]
      BY <1>2, <1>4, <2>3
    <3> QED
      BY <2>1, <3>2, <3>3
  <2> QED
    BY <2>2, <2>3
<1>14. Executes'
  BY <1>2, <1>3, <1>4, <1>7, <1>8, IdleFacts DEF Control, Executes
<1>15. Place'
  BY <1>2, <1>8 DEF Control, Place
<1>16. Tokens'
  BY <1>2 DEF Control, Tokens
<1> QED
  BY <1>1, <1>3, <1>4, <1>5, <1>9, <1>10, <1>11, <1>12, <1>13, <1>14, <1>15, <1>16
  DEF Control

-----------------------------------------------------------------------------
(* The invariant *)

\* A new context satisfies the invariant.
LEMMA InitIInv == Init => IInv
<1> SUFFICES ASSUME Init PROVE IInv
  OBVIOUS
<1>1. /\ fifo = <<>> /\ running = {} /\ signalled = [b \in Batches |-> TRUE]
      /\ calls = [b \in Batches |-> <<>>] /\ next = 0 /\ last = 0
      /\ apc = "app" /\ pending = NoCall /\ after = "app" /\ arg = NoArg
      /\ exec = [e \in Threads |-> Idle]
      /\ attached = {} /\ token = [b \in Batches |-> FALSE] /\ unflushed = {}
  BY DEF Init, Queue!Init
<1>2. Pending = 0
  BY <1>1 DEF Pending
<1>3. 0 \in Batches /\ <<>> \in Seq(CallType) /\ <<>> \in Seq(Batches) /\ Len(<<>>) = 0
  BY ConstantFacts
<1>4. \A b \in Batches : Dist(b) \in 1..MaxBatches
  BY <1>1, <1>3, DistFacts
<1>5. "app" \in Threads /\ "driver" \in Threads /\ Threads = {"app", "driver"}
  BY DEF Threads
<1>6. Control
  <2>1. ControlTypeOK
    BY <1>1, <1>3, IdleFacts DEF ControlTypeOK, AppPC
  <2>2. Ring
    BY <1>1, <1>2, <1>3, ConstantFacts DEF Ring, QueueSize
  <2>3. Flight
    BY <1>1, <1>2, <1>4, ConstantFacts DEF Flight
  <2>4. Executes
    BY <1>1, <1>5, IdleFacts DEF Executes
  <2>5. Place
    BY <1>1 DEF Place
  <2>6. Tokens
    BY <1>1, <1>3 DEF Tokens
  <2> QED
    BY <2>1, <2>2, <2>3, <2>4, <2>5, <2>6 DEF Control
<1>7. PICK o : o = [b \in Batches |-> 0]
  OBVIOUS
<1>8. Line(<<>>, o)
  <2>1. Progress = 0 /\ \A b \in Batches : ~(Dist(b) <= Pending)
    BY <1>1, <1>2, <1>4, <1>5, IdleFacts, ConstantFacts DEF Progress
  <2>2. calls[next] = <<>> /\ o[next] = 0 /\ o \in [Batches -> Int]
    BY <1>1, <1>3, <1>7
  <2> QED
    BY <1>1, <1>2, <1>3, <1>7, <2>1, <2>2 DEF Line, Oldest
<1>9. Promise(<<>>)
  <2>1. BufferTypeOK
    <3>1. valid \in SUBSET Cells /\ arg \in ArgType /\ storage \in Storages /\ latest \in Storages
      BY <1>1, ConstantFacts DEF Init, NoArg, ArgType
    <3>2. mem \in [Storages -> [Cells -> Nat]] /\ contents \in [Cells -> Nat]
      BY DEF Init
    <3> QED
      BY <3>1, <3>2 DEF Init, BufferTypeOK
  <2>2. Storing(<<>>) /\ Flushing(<<>>)
    BY <1>3 DEF Init, Storing, Flushing
  <2>3. DrawsFind(<<>>) /\ EndFinds(<<>>) /\ Tracking(<<>>) /\ Unsync(<<>>)
    BY <1>1, <1>3 DEF Init, DrawsFind, EndFinds, Tracking, Unsync
  <2> QED
    BY <2>1, <2>2, <2>3 DEF Promise
<1> QED
  BY <1>3, <1>6, <1>7, <1>8, <1>9 DEF IInv

\* Without calls in the batches nothing is to be executed.
LEMMA LineEmpty ==
  ASSUME Control, NEW t \in Seq(CallType), NEW o \in [Batches -> Int], Line(t, o),
         Pending = 0, calls[next] = <<>>, pending = NoCall
  PROVE  t = <<>>
<1>1. next \in Batches /\ Len(calls[next]) = 0 /\ Oldest(next)
  BY DEF Control, ControlTypeOK, Oldest
<1>2. Progress \in Nat
  <2>1. exec["app"].pos \in Nat /\ exec["driver"].pos \in Nat
    BY PendingFacts DEF ExecType
  <2> QED
    BY <2>1 DEF Progress
<1>3. o[next] = 0 - Progress /\ Len(t) = o[next] + 0 + 0 /\ Len(t) \in Nat
  BY <1>1 DEF Line
<1> QED
  BY <1>2, <1>3

\* A step that moves neither the calls nor the buffer.
LEMMA StillStep ==
  ASSUME IInv, Control', Pending' = Pending, Progress' = Progress,
         UNCHANGED <<calls, next, pending>>, UNCHANGED <<fences, buf>>,
         arg' \in ArgType,
         apc' = "unsync" \/ after' = "unsync" =>
           (apc = "unsync" \/ after = "unsync") /\ arg' = arg
  PROVE  IInv'
<1>1. PICK t \in Seq(CallType), o \in [Batches -> Int] : Line(t, o) /\ Promise(t)
  BY DEF IInv
<1>2. Line(t, o)'
  BY <1>1, LineStill
<1>3. BufferTypeOK'
  BY <1>1 DEF Promise, BufferTypeOK, buf
<1>4. Promise(t)'
  BY <1>1, <1>3, PromiseStill DEF buf
<1> QED
  BY <1>2, <1>4 DEF IInv

\* A step that appends a call.
LEMMA AddStep ==
  ASSUME IInv, NEW c \in CallType, NEW l \in {"app", "submit", "unsync"},
         AddCall(c, l), apc \in {"app", "map", "unsync"},
         UNCHANGED <<fifo, running, signalled, next, last, exec, unflushed>>,
         token' \in [Batches -> BOOLEAN], attached' \in SUBSET Fences,
         \A b \in Batches : (token[b] => token'[b]) /\ (token'[b] => token[b] \/ b = next),
         \A f \in attached' : f \in attached \/ (FlushOf(c, f) /\ token'[next]),
         \A t, u \in Seq(CallType) :
           u = Append(t, c) /\ Promise(t) /\ (apc = "map" => t = <<>>) => Promise(u)'
  PROVE  IInv'
<1>1. PICK t \in Seq(CallType), o \in [Batches -> Int] : Line(t, o) /\ Promise(t)
  BY DEF IInv
<1>2. Control' /\ pending = NoCall
  BY ControlAdd DEF IInv
<1>3. PICK u : u = Append(t, c)
  OBVIOUS
<1>4. u \in Seq(CallType) /\ Line(u, o)'
  BY <1>1, <1>2, <1>3, LineAdd DEF IInv, Control
<1>5. apc = "map" => t = <<>>
  BY <1>1, <1>2, LineEmpty DEF IInv, Control, Place
<1>6. Promise(u)'
  BY <1>1, <1>3, <1>4, <1>5
<1> QED
  BY <1>2, <1>4, <1>6 DEF IInv

-----------------------------------------------------------------------------
(* The calls of the application that are recorded *)

\* What the invariant says of the application between two calls.
LEMMA AppFacts ==
  ASSUME IInv
  PROVE  /\ Control /\ ControlTypeOK /\ BufferTypeOK
         /\ apc \in {"app", "map", "unsync"} => pending = NoCall /\ after = "app"
         /\ token \in [Batches -> BOOLEAN] /\ attached \in SUBSET Fences
         /\ next \in Batches
  BY DEF IInv, Control, Promise, Place, ControlTypeOK

\* Where AddCall leaves the application.
LEMMA AddPlace ==
  ASSUME NEW c, NEW l, AddCall(c, l), after = "app"
  PROVE  /\ apc' \in {"submit", l} /\ after' \in {"app", l}
  BY DEF AddCall

\* The hull of a range contains it and stays inside the buffer.
LEMMA HullFacts ==
  ASSUME NEW cells \in SUBSET Cells
  PROVE  cells \subseteq Hull(cells) /\ Hull(cells) \subseteq Cells
<1>1. ASSUME NEW x \in cells PROVE x \in Cells /\ x <= x
  BY ConstantFacts
<1> QED
  BY <1>1 DEF Hull

\* A write keeps the type of the contents.
LEMMA NewContentsType ==
  ASSUME BufferTypeOK, NEW box, NewContents(box)
  PROVE  contents' \in [Cells -> Nat] /\ nwrites' \in Nat /\ nwrites + 1 \in Nat
<1>1. nwrites \in Nat /\ nwrites' = nwrites + 1 /\ contents \in [Cells -> Nat]
  BY DEF BufferTypeOK, NewContents
<1>2. contents' = [x \in Cells |-> IF x \in box THEN nwrites + 1 ELSE contents[x]]
  BY DEF NewContents, Written
<1> QED
  BY <1>1, <1>2

\* Recording a call that writes nothing to the buffer.
LEMMA RecordStep ==
  ASSUME IInv, NEW c \in CallType, Record(c), unflushed' = unflushed,
         UNCHANGED <<storage, latest, mem, contents, untracked, nwrites>>,
         c.kind \notin {"write", "replace"}, c.kind = "draw" => c.expects = contents,
         valid \subseteq valid', valid' \subseteq Cells, bound' \subseteq Cells
  PROVE  IInv'
<1>1. /\ apc = "app" /\ AddCall(c, "app")
      /\ UNCHANGED <<fifo, running, signalled, token, attached, next, last, arg, exec,
                     fences>>
  BY DEF Record, Enter, pool
<1>2. BufferTypeOK /\ BufferTypeOK'
  BY <1>1, AppFacts DEF BufferTypeOK
<1>3. apc' # "unsync" /\ after' # "unsync"
  BY <1>1, AppFacts, AddPlace
<1>4. ASSUME NEW t \in Seq(CallType), NEW u \in Seq(CallType), u = Append(t, c), Promise(t)
      PROVE  Promise(u)'
  BY <1>1, <1>2, <1>3, <1>4, PromiseRecord
<1> QED
  BY <1>1, <1>4, AppFacts, AddStep

\* Recording a write.
LEMMA RecordWriteStep ==
  ASSUME IInv, NEW box \in SUBSET Cells,
         Record([kind |-> "write", box |-> box, id |-> nwrites + 1]),
         NewContents(box), UNCHANGED <<unflushed, storage, latest, mem, bound>>,
         valid \subseteq valid', valid' \subseteq Cells, untracked' \subseteq Cells,
         untracked \subseteq untracked', box \subseteq valid' \cup untracked'
  PROVE  IInv'
<1>1. PICK c : c = [kind |-> "write", box |-> box, id |-> nwrites + 1]
  OBVIOUS
<1>2. /\ apc = "app" /\ AddCall(c, "app")
      /\ UNCHANGED <<fifo, running, signalled, token, attached, next, last, arg, exec,
                     fences>>
  BY <1>1 DEF Record, Enter, pool
<1>3. BufferTypeOK /\ BufferTypeOK' /\ nwrites + 1 \in Nat
  BY <1>2, AppFacts, NewContentsType DEF BufferTypeOK
<1>4. c \in CallType /\ c.kind = "write" /\ c.box = box /\ c.id = nwrites + 1
  BY <1>1, <1>3, CallMembers
<1>5. apc' # "unsync" /\ after' # "unsync"
  BY <1>2, AppFacts, AddPlace
<1>6. ASSUME NEW t \in Seq(CallType), NEW u \in Seq(CallType), u = Append(t, c), Promise(t)
      PROVE  Promise(u)'
  BY <1>2, <1>3, <1>4, <1>5, <1>6, PromiseWrite
<1> QED
  BY <1>2, <1>4, <1>6, AppFacts, AddStep

\* tc_invalidate_buffer gives the buffer a new storage.
LEMMA InvalidateStep ==
  ASSUME IInv, apc = "app", NEW l \in {"app", "unsync"}, InvalidateBuffer(l),
         arg' \in ArgType, l = "unsync" => arg'.op = "write"
  PROVE  IInv'
<1>1. PICK c : c = [kind |-> "replace", src |-> latest + 1]
  OBVIOUS
<1>2. /\ AddCall(c, l) /\ latest < MaxStorages /\ latest' = latest + 1 /\ valid' = {}
      /\ contents' = [x \in Cells |-> 0]
      /\ UNCHANGED <<fifo, running, signalled, token, attached, next, last, exec,
                     unflushed, fences, storage, bound, untracked, mem, nwrites>>
  BY <1>1 DEF InvalidateBuffer, pool, query
<1>3. latest + 1 \in Storages /\ contents' \in [Cells -> Nat]
  <2>1. latest \in 0..MaxStorages /\ MaxStorages \in Nat
    BY AppFacts, ConstantFacts DEF BufferTypeOK, Storages
  <2> QED
    BY <1>2, <2>1 DEF Storages
<1>4. BufferTypeOK'
  BY <1>2, <1>3, AppFacts DEF BufferTypeOK
<1>5. c \in CallType /\ c.kind = "replace" /\ c.src = latest + 1
  BY <1>1, <1>3, CallMembers
<1>6. apc' = "unsync" \/ after' = "unsync" => arg'.op = "write" /\ arg'.box \subseteq Cells
  <2>1. apc' = "unsync" \/ after' = "unsync" => l = "unsync"
    BY <1>2, AppFacts, AddPlace
  <2> QED
    BY <2>1 DEF ArgType
<1>7. ASSUME NEW t \in Seq(CallType), NEW u \in Seq(CallType), u = Append(t, c), Promise(t)
      PROVE  Promise(u)'
  BY <1>2, <1>4, <1>5, <1>6, <1>7, PromiseReplace
<1> QED
  BY <1>2, <1>5, <1>7, AppFacts, AddStep

\* A flush that is recorded.
LEMMA FlushAsyncStep ==
  ASSUME IInv, NEW kind, NEW f \in Fences \cup {0}, FlushAsync(kind, f)
  PROVE  IInv'
<1>1. PICK c : c = [kind |-> "flush", fence |-> f, deferred |-> kind = "deferred"]
  OBVIOUS
<1>2. PICK l \in {"app", "submit"} : l = IF kind = "deferred" THEN "app" ELSE "submit"
  OBVIOUS
<1>3. /\ apc = "app" /\ AddCall(c, l)
      /\ IF f = 0
         THEN UNCHANGED <<token, attached, fences>>
         ELSE /\ token' = [token EXCEPT ![next] = TRUE]
              /\ attached' = attached \cup {f}
              /\ fences' = [fences EXCEPT ![f] =
                              IF kind = "deferred" THEN "deferred" ELSE "submitted"]
      /\ UNCHANGED <<fifo, running, signalled, next, last, arg, exec, unflushed, storage,
                     latest, valid, bound, untracked, mem, contents, nwrites>>
  BY <1>1, <1>2 DEF FlushAsync, Enter, pool, query, buf
<1>4. (kind = "deferred") \in BOOLEAN
  OBVIOUS
<1>5. c \in CallType /\ c.kind = "flush" /\ c.fence = f
  BY <1>1, <1>4, CallMembers
<1>6. fences' \in [Fences -> {"none", "deferred", "submitted", "ready"}]
  BY <1>3, AppFacts DEF BufferTypeOK
<1>7. BufferTypeOK'
  BY <1>3, <1>6, AppFacts DEF BufferTypeOK
<1>8. apc' # "unsync" /\ after' # "unsync"
  BY <1>3, AppFacts, AddPlace
<1>9. \A g \in Fences : fences'[g] = fences[g] \/ FlushOf(c, g)
  BY <1>3, <1>5, AppFacts DEF BufferTypeOK, FlushOf
<1>10. ASSUME NEW t \in Seq(CallType), NEW u \in Seq(CallType), u = Append(t, c), Promise(t)
       PROVE  Promise(u)'
  BY <1>3, <1>5, <1>7, <1>8, <1>9, <1>10, PromiseRecord
<1>11. /\ token' \in [Batches -> BOOLEAN] /\ attached' \in SUBSET Fences
       /\ \A b \in Batches : (token[b] => token'[b]) /\ (token'[b] => token[b] \/ b = next)
       /\ \A g \in attached' : g \in attached \/ (FlushOf(c, g) /\ token'[next])
  <2>1. CASE f = 0
    BY <1>3, <2>1, AppFacts
  <2>2. CASE f # 0
    <3>1. token' = [token EXCEPT ![next] = TRUE] /\ attached' = attached \cup {f}
      BY <1>3, <2>2
    <3> QED
      BY <1>5, <2>2, <3>1, AppFacts DEF FlushOf
  <2> QED
    BY <2>1, <2>2
<1>12. l \in {"app", "submit", "unsync"} /\ apc \in {"app", "map", "unsync"}
  BY <1>3
<1> QED
  BY <1>3, <1>5, <1>10, <1>11, <1>12, AddStep

-----------------------------------------------------------------------------
(* The calls of the application that record nothing *)

\* A step that only moves the application, and may hand out a token.
LEMMA MoveStep ==
  ASSUME IInv,
         UNCHANGED <<fifo, running, signalled, calls, attached, next, last, pending,
                     exec>>,
         unflushed' \in SUBSET Queries, token' \in [Batches -> BOOLEAN],
         \A b \in Batches : (token[b] => token'[b]) /\ (token'[b] => token[b] \/ b = next),
         apc \notin {"submit", "space", "append", "execute"},
         apc' \in AppPC \ {"space", "append", "execute", "flush", "unsync"},
         after' \in {"app", "direct", "destroy", "result", "flush", "map"},
         apc' # "sync" => after' = "app",
         apc' \in {"direct", "callback", "map", "destroy", "destroyed"} =>
           Pending = 0 /\ calls[next] = <<>>,
         UNCHANGED <<fences, buf>>, arg' \in ArgType
  PROVE  IInv'
<1>1. Control'
  BY ControlMove DEF IInv
<1>2. Pending' = Pending /\ Progress' = Progress
  BY DEF Pending, Progress
<1> QED
  BY <1>1, <1>2, StillStep

\* Where nothing is recorded but in the batch.
LEMMA SyncFacts ==
  ASSUME IInv, signalled[last]
  PROVE  Pending = 0
<1>1. last \in Batches /\ Pending \in Nat
  BY PendingFacts DEF IInv, Control, ControlTypeOK
<1>2. Dist(last) > Pending
  BY <1>1 DEF IInv, Control, Flight
<1>3. Pending > 0 => Dist(last) = 1
  BY DEF IInv, Control, Ring
<1> QED
  BY <1>1, <1>2, <1>3

\* What the invariant says of the argument at hand.
LEMMA QuietFacts ==
  ASSUME IInv
  PROVE  /\ arg \in ArgType /\ unflushed \in SUBSET Queries
         /\ token \in [Batches -> BOOLEAN]
         /\ apc \in AppPC
         /\ apc \notin {"submit", "space", "append", "sync", "execute"} => after = "app"
         /\ NoArg \in ArgType
  BY AppFacts DEF Control, ControlTypeOK, Place, BufferTypeOK, NoArg, ArgType

\* A call that must sync first.
LEMMA SyncCallStep ==
  ASSUME IInv, NEW l \in {"direct", "destroy"}, SyncCall(l)
  PROVE  IInv'
  BY QuietFacts, MoveStep DEF SyncCall, Sync, Enter, pool, batches, query, AppPC

\* A call made directly, after the sync.
LEMMA DirectCallStep ==
  ASSUME IInv, DirectCall
  PROVE  IInv'
  BY QuietFacts, MoveStep DEF DirectCall, pool, batches, query, AppPC

\* tc_callback, made at once or recorded.
LEMMA CallbackStep ==
  ASSUME IInv, NEW asap \in BOOLEAN, Callback(asap)
  PROVE  IInv'
<1>1. CASE /\ signalled[last] /\ calls[next] = <<>> /\ Enter /\ apc' = "callback"
           /\ UNCHANGED <<pool, batches, pending, after, arg, exec, query, fences, buf>>
  <2>1. Pending = 0
    BY <1>1, SyncFacts
  <2> QED
    BY <1>1, <2>1, QuietFacts, MoveStep DEF Enter, pool, batches, query, AppPC
<1>2. CASE Record(Plain) /\ UNCHANGED <<query, buf>>
  <2>1. Plain \in CallType /\ Plain.kind = "other"
    BY CallMembers DEF Plain
  <2>2. valid \subseteq Cells /\ bound \subseteq Cells
    BY AppFacts DEF BufferTypeOK
  <2>3. PICK c : c = Plain
    OBVIOUS
  <2> QED
    BY <1>2, <2>1, <2>2, <2>3, RecordStep DEF query, buf
<1> QED
  BY <1>1, <1>2 DEF Callback

\* tc_destroy, after the sync.
LEMMA DestroyStep ==
  ASSUME IInv, Destroy
  PROVE  IInv'
<1>1. Pending = 0 /\ calls[next] = <<>> /\ apc = "destroy"
  BY DEF IInv, Control, Place, Destroy
<1>2. fifo = <<>>
  BY <1>1, PendingFacts DEF IInv
<1>3. fifo' = fifo /\ running' = running
  BY <1>2 DEF Destroy, Queue!GiveUp
<1>4. signalled' = signalled
  <2>1. signalled \in [Batches -> BOOLEAN]
    BY DEF IInv, Control, ControlTypeOK
  <2>2. signalled' = [j \in Batches |-> signalled[j] \/ j \in Queue!Queued]
    BY DEF Destroy, Queue!GiveUp
  <2>3. Queue!Queued = {}
    BY <1>2 DEF Queue!Queued
  <2> QED
    BY <2>1, <2>2, <2>3
<1> QED
  BY <1>1, <1>3, <1>4, QuietFacts, MoveStep DEF Destroy, batches, query, AppPC

\* tc_get_query_result, to the sync or at once.
LEMMA GetQueryResultStep ==
  ASSUME IInv, NEW q \in Queries, GetQueryResult(q)
  PROVE  IInv'
<1>1. arg' \in ArgType
  BY DEF GetQueryResult, ArgType
<1>2. /\ apc = "app"
      /\ \/ apc' = "result" /\ after' = after
         \/ apc' = "sync" /\ after' = "result"
  BY DEF GetQueryResult, Sync, Enter
<1> QED
  BY <1>1, <1>2, QuietFacts, MoveStep DEF GetQueryResult, pool, batches, query, AppPC

\* The driver answers the query.
LEMMA QueryResultStep ==
  ASSUME IInv, QueryResult
  PROVE  IInv'
<1>1. arg' \in ArgType /\ apc' \in {"list_del", "app"}
  BY QuietFacts DEF QueryResult
<1> QED
  BY <1>1, QuietFacts, MoveStep DEF QueryResult, pool, batches, AppPC

\* The query leaves the list of unflushed ones.
LEMMA QueryListDelStep ==
  ASSUME IInv, QueryListDel
  PROVE  IInv'
  BY QuietFacts, MoveStep DEF QueryListDel, pool, batches, AppPC

\* A flush that syncs first.
LEMMA FlushSyncStep ==
  ASSUME IInv, NEW kind, NEW tok \in BOOLEAN, FlushSync(kind, tok)
  PROVE  IInv'
<1>1. apc' = "sync" /\ after' \in {"direct", "flush"} /\ apc = "app"
  BY DEF FlushSync, Sync, Enter
<1>2. /\ token' \in [Batches -> BOOLEAN]
      /\ \A b \in Batches : (token[b] => token'[b]) /\ (token'[b] => token[b] \/ b = next)
  BY AppFacts DEF FlushSync
<1> QED
  BY <1>1, <1>2, QuietFacts, MoveStep DEF FlushSync, pool, query, AppPC

\* threaded_context_flush, for a fence that waits for the current batch.
LEMMA ContextFlushStep ==
  ASSUME IInv, NEW f, NEW prefer_async, ContextFlush(f, prefer_async)
  PROVE  IInv'
<1>1. /\ apc = "app"
      /\ \/ apc' = "submit" /\ after' = after
         \/ apc' = "sync" /\ after' = "app"
  BY DEF ContextFlush, Sync, Enter
<1> QED
  BY <1>1, QuietFacts, MoveStep DEF ContextFlush, pool, batches, query, AppPC

-----------------------------------------------------------------------------
(* The calls of the application on the buffer *)

\* tc_end_query records its call.
LEMMA EndQueryStep ==
  ASSUME IInv, NEW q \in Queries, EndQuery(q)
  PROVE  IInv'
<1>1. PICK c : c = [kind |-> "end_query", query |-> q]
  OBVIOUS
<1>2. c \in CallType /\ c.kind = "end_query"
  BY <1>1, CallMembers
<1>3. Record(c) /\ UNCHANGED <<unflushed, buf>>
  BY <1>1 DEF EndQuery
<1>4. valid \subseteq Cells /\ bound \subseteq Cells
  BY AppFacts DEF BufferTypeOK
<1> QED
  BY <1>2, <1>3, <1>4, RecordStep DEF buf

\* A draw that reads the buffer.
LEMMA DrawStep ==
  ASSUME IInv, Draw
  PROVE  IInv'
<1>1. PICK c : c = [kind |-> "draw", expects |-> contents]
  OBVIOUS
<1>2. valid \subseteq Cells /\ bound \subseteq Cells /\ contents \in [Cells -> Nat]
  BY AppFacts DEF BufferTypeOK
<1>3. c \in CallType /\ c.kind = "draw" /\ c.expects = contents
  BY <1>1, <1>2, CallMembers
<1>4. Record(c) /\ UNCHANGED <<query, buf>>
  BY <1>1 DEF Draw
<1> QED
  BY <1>2, <1>3, <1>4, RecordStep DEF buf, query

\* util_range_add only widens the valid range.
LEMMA AddValidFacts ==
  ASSUME BufferTypeOK, NEW box \in SUBSET Cells, AddValid(box)
  PROVE  valid \subseteq valid' /\ box \subseteq valid' /\ valid' \subseteq Cells
<1>1. valid \cup box \in SUBSET Cells
  BY DEF BufferTypeOK
<1> QED
  BY <1>1, HullFacts DEF AddValid

\* A recorded write widens the valid range.
LEMMA RecordWriteAdds ==
  ASSUME IInv, NEW box \in SUBSET Cells, RecordWrite(box)
  PROVE  IInv'
<1>1. valid \subseteq valid' /\ box \subseteq valid' /\ valid' \subseteq Cells
  BY AppFacts, AddValidFacts DEF RecordWrite
<1>2. /\ Record([kind |-> "write", box |-> box, id |-> nwrites + 1])
      /\ NewContents(box) /\ UNCHANGED <<unflushed, storage, latest, mem, bound>>
  BY DEF RecordWrite, query
<1>3. untracked' = untracked /\ untracked \subseteq Cells
  BY AppFacts DEF RecordWrite, BufferTypeOK
<1> QED
  BY <1>1, <1>2, <1>3, RecordWriteStep

\* Binding the buffer for shader writes widens the valid range.
LEMMA BindForWriteStep ==
  ASSUME IInv, NEW box \in SUBSET Cells, BindForWrite(box)
  PROVE  IInv'
<1>1. valid \subseteq valid' /\ box \subseteq valid' /\ valid' \subseteq Cells
  BY AppFacts, AddValidFacts DEF BindForWrite
<1>2. PICK c : c = Plain
  OBVIOUS
<1>3. c \in CallType /\ c.kind = "other"
  BY <1>2, CallMembers DEF Plain
<1>4. /\ Record(c) /\ bound' = box
      /\ UNCHANGED <<unflushed, storage, latest, mem, contents, untracked, nwrites>>
  BY <1>2 DEF BindForWrite, query
<1> QED
  BY <1>1, <1>3, <1>4, RecordStep

\* Binding the buffer leaves the valid range alone.
LEMMA BindUntrackedStep ==
  ASSUME IInv, NEW box \in SUBSET Cells, BindUntracked(box)
  PROVE  IInv'
<1>1. valid' = valid /\ valid \subseteq Cells
  BY AppFacts DEF BindUntracked, BufferTypeOK
<1>2. PICK c : c = Plain
  OBVIOUS
<1>3. c \in CallType /\ c.kind = "other"
  BY <1>2, CallMembers DEF Plain
<1>4. /\ Record(c) /\ bound' = box
      /\ UNCHANGED <<unflushed, storage, latest, mem, contents, untracked, nwrites>>
  BY <1>2 DEF BindUntracked, query
<1> QED
  BY <1>1, <1>3, <1>4, RecordStep

\* A write that is recorded as it is, noted when the valid range lacks it.
LEMMA WriteUntrackedStep ==
  ASSUME IInv, NEW box \in SUBSET Cells, WriteUntracked(box)
  PROVE  IInv'
<1>1. valid' = valid /\ valid \subseteq Cells /\ untracked \subseteq Cells
  BY AppFacts DEF WriteUntracked, BufferTypeOK
<1>2. /\ Record([kind |-> "write", box |-> box, id |-> nwrites + 1])
      /\ NewContents(box) /\ UNCHANGED <<unflushed, storage, latest, mem, bound>>
  BY DEF WriteUntracked, query
<1>3. /\ untracked' \subseteq Cells /\ untracked \subseteq untracked'
      /\ box \subseteq valid' \cup untracked'
  BY <1>1 DEF WriteUntracked
<1> QED
  BY <1>1, <1>2, <1>3, RecordWriteStep

\* A draw that writes the bound range.
LEMMA DrawAndWriteStep ==
  ASSUME IInv, DrawAndWrite
  PROVE  IInv'
<1>1. bound \in SUBSET Cells
  BY AppFacts DEF BufferTypeOK
<1>2. PICK box : box = bound
  OBVIOUS
<1> QED
  BY <1>1, <1>2, WriteUntrackedStep DEF DrawAndWrite

\* tc_create_stream_output_target widens the valid range and syncs.
LEMMA CreateTargetStep ==
  ASSUME IInv, NEW box \in SUBSET Cells, CreateTarget(box)
  PROVE  IInv'
<1>1. /\ apc = "app" /\ apc' = "sync" /\ after' = "direct"
      /\ UNCHANGED <<pool, batches, pending, arg, exec, query, fences, storage, latest,
                     bound, untracked, mem, contents, nwrites>>
  BY DEF CreateTarget, Enter, Sync
<1>2. valid \subseteq valid' /\ valid' \subseteq Cells
  BY AppFacts, AddValidFacts DEF CreateTarget
<1>3. PICK t \in Seq(CallType), o \in [Batches -> Int] : Line(t, o) /\ Promise(t)
  BY DEF IInv
<1>4. Control'
  BY <1>1, QuietFacts, ControlMove DEF IInv, pool, batches, query, AppPC
<1>5. Pending' = Pending /\ Progress' = Progress
  BY <1>1 DEF Pending, Progress, pool
<1>6. Line(t, o)'
  BY <1>1, <1>3, <1>5, LineStill DEF batches
<1>7. BufferTypeOK'
  BY <1>1, <1>2, <1>3 DEF Promise, BufferTypeOK
<1>8. Promise(t)'
  BY <1>1, <1>2, <1>3, <1>7, PromiseStill
<1> QED
  BY <1>4, <1>6, <1>8 DEF IInv

\* What the application maps without waiting is not in use.
LEMMA UnsyncStep ==
  ASSUME IInv, apc = "app", NEW box \in SUBSET Cells, arg' = [op |-> "write", box |-> box],
         apc' = "unsync", UNCHANGED <<after, pool, batches, pending, exec, query, fences, buf>>,
         valid \cap box = {} \/ \A x \in box : contents[x] = 0
  PROVE  IInv'
<1>1. PICK t \in Seq(CallType), o \in [Batches -> Int] : Line(t, o) /\ Promise(t)
  BY DEF IInv
<1>2. Control'
  BY QuietFacts, ControlMove DEF IInv, pool, batches, query, AppPC
<1>3. Pending' = Pending /\ Progress' = Progress
  BY DEF Pending, Progress, pool
<1>4. Line(t, o)'
  BY <1>1, <1>3, LineStill DEF batches
<1>5. arg' \in ArgType /\ arg'.op = "write" /\ arg'.box = box
  BY DEF ArgType
<1>6. BufferTypeOK'
  BY <1>1, <1>5 DEF Promise, BufferTypeOK, buf
<1>7. Unused(t, box)
  <2>1. SUFFICES ASSUME NEW k \in 1..Len(t), NEW x \in box \cap Tracked,
                        Uses(t[k], x), InEpoch(t, k, latest)
                 PROVE  FALSE
    BY DEF Unused
  <2>2. x \in Tracked /\ Tracking(t)
    BY <1>1, <2>1 DEF Promise
  <2>3. contents[x] # 0 /\ x \in valid
    BY <2>1, <2>2 DEF Tracking
  <2> QED
    BY <2>3
<1>8. Promise(t)'
  BY <1>1, <1>5, <1>6, <1>7, PromiseStill DEF buf
<1> QED
  BY <1>2, <1>4, <1>8 DEF IInv

\* What tc_improve_map_buffer_flags promises of the path it takes.
LEMMA PathFacts ==
  ASSUME NEW u, NEW box, NEW created
  PROVE  /\ Path(u, box, created) \in {"unsync", "invalidate"} => "READ" \notin u
         /\ Path(u, box, created) = "unsync" => "UNSYNC" \in u \/ valid \cap box = {}
  BY DEF Path

\* The access of a map on the path chosen.
LEMMA AccessStep ==
  ASSUME IInv, NEW u, NEW box \in SUBSET Cells, NEW path, Access(u, box, path),
         path \in {"unsync", "invalidate"} => "READ" \notin u,
         path = "unsync" => valid \cap box = {} \/ \A x \in box : contents[x] = 0
  PROVE  IInv'
<1>1. CASE path = "staging" /\ RecordWrite(box)
  BY <1>1, RecordWriteAdds
<1> DEFINE Way == arg' = IF "READ" \in u THEN [op |-> "read"]
                                         ELSE [op |-> "write", box |-> box]
<1>2. CASE path = "invalidate" /\ Enter /\ Way /\ InvalidateBuffer("unsync")
  <2>1. arg' = [op |-> "write", box |-> box] /\ apc = "app"
    BY <1>2 DEF Enter
  <2>2. arg' \in ArgType /\ arg'.op = "write"
    BY <2>1 DEF ArgType
  <2> QED
    BY <1>2, <2>1, <2>2, InvalidateStep
<1>3. CASE /\ path = "unsync" /\ Enter /\ Way /\ apc' = "unsync" /\ UNCHANGED after
           /\ UNCHANGED <<pool, batches, pending, exec, query, fences, buf>>
  <2>1. arg' = [op |-> "write", box |-> box] /\ apc = "app"
    BY <1>3 DEF Enter
  <2> QED
    BY <1>3, <2>1, UnsyncStep
<1>4. CASE /\ path = "sync" /\ Enter /\ Way /\ Sync("map")
           /\ UNCHANGED <<pool, batches, pending, exec, query, fences, buf>>
  <2>1. arg' \in ArgType /\ apc = "app" /\ apc' = "sync" /\ after' = "map"
    BY <1>4 DEF Enter, Sync, ArgType
  <2> QED
    BY <1>4, <2>1, QuietFacts, MoveStep DEF pool, batches, query, AppPC
<1> QED
  BY <1>1, <1>2, <1>3, <1>4 DEF Access

\* tc_transfer_map.
LEMMA TransferMapStep ==
  ASSUME IInv, NEW u, NEW box \in SUBSET Cells, NEW created, TransferMap(u, box, created)
  PROVE  IInv'
<1>1. PICK path : path = Path(u, box, created)
  OBVIOUS
<1>2. Access(u, box, path) /\ ("UNSYNC" \in u => \A x \in box : contents[x] = 0)
  BY <1>1 DEF TransferMap
<1> QED
  BY <1>1, <1>2, PathFacts, AccessStep

\* tc_buffer_subdata.
LEMMA BufferSubdataStep ==
  ASSUME IInv, NEW box \in SUBSET Cells, NEW created, BufferSubdata(box, created)
  PROVE  IInv'
<1>1. PICK u : u = {"WRITE", "DISCARD_RANGE"}
  OBVIOUS
<1>2. PICK path : path = IF Path(u, box, created) = "sync" THEN "staging"
                                                         ELSE Path(u, box, created)
  OBVIOUS
<1>3. Access(u, box, path)
  BY <1>1, <1>2 DEF BufferSubdata
<1>4. "READ" \notin u /\ "UNSYNC" \notin u
  BY <1>1
<1> QED
  BY <1>2, <1>3, <1>4, PathFacts, AccessStep

\* tc_invalidate_resource.
LEMMA InvalidateResourceStep ==
  ASSUME IInv, InvalidateResource
  PROVE  IInv'
  BY QuietFacts, InvalidateStep DEF InvalidateResource, Enter

\* The application accesses the mapped storage and unmaps it.
LEMMA AccessMappedStep ==
  ASSUME IInv, AccessMapped
  PROVE  IInv'
<1>1. PICK c : c = [kind |-> "unmap"]
  OBVIOUS
<1>2. /\ apc \in {"map", "unsync"} /\ AddCall(c, "app") /\ arg' = NoArg
      /\ UNCHANGED <<fifo, running, signalled, token, attached, next, last, exec,
                     unflushed, fences, storage, latest, bound, untracked>>
  BY <1>1 DEF AccessMapped, pool, query
<1>3. c \in CallType /\ c.kind = "unmap"
  BY <1>1, CallMembers
<1>4. apc' # "unsync" /\ after' # "unsync"
  BY <1>2, AppFacts, AddPlace
<1>5. SUFFICES ASSUME NEW t \in Seq(CallType), NEW u \in Seq(CallType), u = Append(t, c),
                      Promise(t), apc = "map" => t = <<>>
               PROVE  Promise(u)'
  BY <1>2, <1>3, AppFacts, AddStep
<1>6. CASE arg.op = "write"
  <2>1. PICK box : box = arg.box
    OBVIOUS
  <2>2. box \in SUBSET Cells
    BY <1>6, <2>1, QuietFacts DEF ArgType
  <2>3. /\ mem' = [mem EXCEPT ![latest] = Written(mem[latest], box, nwrites + 1)]
        /\ NewContents(box) /\ AddValid(box)
    BY <1>6, <2>1 DEF AccessMapped
  <2>4. valid \subseteq valid' /\ box \subseteq valid' /\ valid' \subseteq Cells
    BY <2>2, <2>3, AppFacts, AddValidFacts
  <2>5. contents' \in [Cells -> Nat] /\ nwrites' \in Nat /\ nwrites + 1 \in Nat
    BY <2>3, AppFacts, NewContentsType
  <2>6. mem' \in [Storages -> [Cells -> Nat]]
    <3>1. latest \in Storages /\ mem \in [Storages -> [Cells -> Nat]]
      BY AppFacts DEF BufferTypeOK
    <3>2. Written(mem[latest], box, nwrites + 1) \in [Cells -> Nat]
      BY <2>5, <3>1 DEF Written
    <3> QED
      BY <2>3, <3>1, <3>2
  <2>7. BufferTypeOK'
    BY <1>2, <2>4, <2>5, <2>6, AppFacts, QuietFacts DEF BufferTypeOK
  <2>8. Unused(t, box)
    <3>1. CASE apc = "map"
      BY <1>5, <3>1 DEF Unused
    <3>2. CASE apc = "unsync"
      BY <1>5, <2>1, <3>2 DEF Promise, Unsync
    <3> QED
      BY <1>2, <3>1, <3>2
  <2> QED
    BY <1>2, <1>3, <1>4, <1>5, <2>2, <2>3, <2>4, <2>7, <2>8, PromiseMapped
<1>7. CASE arg.op # "write"
  <2>1. UNCHANGED <<mem, nwrites, contents, valid>>
    BY <1>7 DEF AccessMapped
  <2>2. BufferTypeOK'
    BY <1>2, <2>1, AppFacts, QuietFacts DEF BufferTypeOK
  <2> QED
    BY <1>2, <1>3, <1>4, <1>5, <2>1, <2>2, PromiseRecord
<1> QED
  BY <1>6, <1>7

-----------------------------------------------------------------------------
(* A call in progress *)

\* A batch enters the queue.
LEMMA EnqueueStep ==
  ASSUME IInv, Enqueue, apc \in {"submit", "space"},
         \/ DropToken
         \/ apc = "space" /\ UNCHANGED <<token, attached>>,
         UNCHANGED <<calls, pending, after, arg, exec, query, fences, buf>>
  PROVE  IInv'
<1>1. PICK t \in Seq(CallType), o \in [Batches -> Int] : Line(t, o) /\ Promise(t)
  BY DEF IInv
<1>2. Control'
  BY ControlEnqueue DEF IInv, query
<1>3. /\ Queue!Enqueue(next) /\ next' = (next + 1) % MaxBatches
      /\ apc' \in {"app", "append"}
  BY DEF Enqueue
<1>4. PICK n : n = next'
  OBVIOUS
<1>5. PICK p : p = o[next] + Len(calls[next])
  OBVIOUS
<1>6. PICK r : r = [o EXCEPT ![n] = p]
  OBVIOUS
<1>7. r \in [Batches -> Int] /\ Line(t, r)'
  BY <1>1, <1>3, <1>4, <1>5, <1>6, LineEnqueue DEF IInv, Control
<1>8. BufferTypeOK'
  BY <1>1 DEF Promise, BufferTypeOK, buf
<1>9. Promise(t)'
  BY <1>1, <1>3, <1>8, PromiseStill DEF buf
<1> QED
  BY <1>2, <1>7, <1>9 DEF IInv

\* tc_batch_flush drops the token and submits the batch, or waits for room.
LEMMA BatchFlushStep ==
  ASSUME IInv, BatchFlush
  PROVE  IInv'
<1>1. /\ apc = "submit" /\ DropToken
      /\ UNCHANGED <<calls, pending, after, arg, exec, query, fences, buf>>
  BY DEF BatchFlush
<1>2. CASE Enqueue
  BY <1>1, <1>2, EnqueueStep
<1>3. CASE Queue!Announce(next) /\ apc' = "space" /\ UNCHANGED <<next, last>>
  <2>1. Control'
    BY <1>1, <1>3, ControlAnnounce DEF IInv, query
  <2>2. Pending' = Pending /\ Progress' = Progress
    BY <1>1, <1>3 DEF Pending, Progress, Queue!Announce
  <2> QED
    BY <1>1, <1>3, <2>1, <2>2, QuietFacts, StillStep
<1> QED
  BY <1>2, <1>3 DEF BatchFlush

\* The application wakes with room in the queue, or without.
LEMMA BatchFlushWokenStep ==
  ASSUME IInv, BatchFlushWoken
  PROVE  IInv'
  BY EnqueueStep DEF BatchFlushWoken

\* The call that did not fit goes into the next batch.
LEMMA AppendCallStep ==
  ASSUME IInv, AppendCall
  PROVE  IInv'
<1>1. PICK t \in Seq(CallType), o \in [Batches -> Int] : Line(t, o) /\ Promise(t)
  BY DEF IInv
<1>2. Control' /\ pending # NoCall
  BY ControlAppend DEF IInv
<1>3. Line(t, o)'
  BY <1>1, <1>2, LineAppend DEF IInv, Control
<1>4. apc' = after /\ after' = "app" /\ arg' = arg /\ UNCHANGED <<fences, buf>>
  BY DEF AppendCall
<1>5. BufferTypeOK'
  BY <1>1, <1>4 DEF Promise, BufferTypeOK, buf
<1>6. Promise(t)'
  BY <1>1, <1>4, <1>5, PromiseStill DEF buf
<1> QED
  BY <1>2, <1>3, <1>6 DEF IInv

\* The sync waits for the last batch, then executes the one being filled.
LEMMA SyncWaitStep ==
  ASSUME IInv, SyncWait
  PROVE  IInv'
<1>1. Pending = 0
  BY SyncFacts DEF SyncWait
<1>2. PICK st \in Running : st = "calls"
  BY DEF Running
<1>3. /\ apc = "sync" /\ apc' = "execute" /\ after' = after
      /\ exec' = [exec EXCEPT !["app"] = [Idle EXCEPT !.stage = st, !.batch = next]]
      /\ token' = [token EXCEPT ![next] = FALSE] /\ attached' = {}
      /\ UNCHANGED <<fifo, running, signalled, calls, next, last, pending, unflushed,
                     arg, fences, buf>>
  BY <1>2 DEF SyncWait, DropToken, pool, query
<1>4. token' \in [Batches -> BOOLEAN] /\ \A b \in Batches : ~token'[b]
  BY <1>3 DEF IInv, Control, ControlTypeOK, Tokens
<1>5. after \in {"app", "direct", "destroy", "result", "flush", "map"}
  BY <1>3 DEF IInv, Control, ControlTypeOK, Place
<1>6. Control' /\ Pending' = Pending /\ Progress' = Progress
  BY <1>1, <1>3, <1>4, <1>5, ControlStart DEF IInv
<1> QED
  BY <1>3, <1>6, QuietFacts, StillStep

\* The application flushes the queries of the list.
LEMMA FlushQueriesStep ==
  ASSUME IInv, FlushQueries
  PROVE  IInv'
<1>1. PICK st \in Running : st = "queries"
  BY DEF Running
<1>2. /\ apc = "flush" /\ apc' = "execute" /\ after' = "direct"
      /\ exec' = [exec EXCEPT !["app"] = [Idle EXCEPT !.stage = st, !.batch = next]]
      /\ UNCHANGED <<fifo, running, signalled, calls, token, attached, next, last,
                     pending, unflushed, arg, fences, buf>>
  BY <1>1 DEF FlushQueries, pool, batches, query
<1>3. Pending = 0
  BY <1>2 DEF IInv, Control, Place
<1>4. token' \in [Batches -> BOOLEAN] /\ (\A b \in Batches : ~token'[b]) /\ attached' = {}
  BY <1>2 DEF IInv, Control, ControlTypeOK, Tokens
<1>5. Control' /\ Pending' = Pending /\ Progress' = Progress
  BY <1>2, <1>3, <1>4, ControlStart DEF IInv
<1> QED
  BY <1>2, <1>5, QuietFacts, StillStep

-----------------------------------------------------------------------------
(* tc_batch_execute *)

\* The call executed next is the first of all that are to be executed.
LEMMA CurrentIsFirst ==
  ASSUME Control, NEW t \in Seq(CallType), NEW o \in [Batches -> Int], Line(t, o),
         NEW e \in Threads, Executing(e)
  PROVE  /\ t # <<>> /\ Current(e) = t[1] /\ exec[e].stage \in Running
         /\ Oldest(exec[e].batch) /\ Progress < Len(calls[exec[e].batch])
<1>1. /\ exec[e].stage \in Running /\ exec[e].pos < Len(calls[exec[e].batch])
  BY DEF Executing, Running
<1>2. PICK B \in Batches : B = exec[e].batch
  BY <1>1, ExecutesOldest
<1>3. Oldest(B) /\ Progress = exec[e].pos /\ Pending \in Nat /\ Progress \in Nat
  BY <1>1, <1>2, ExecutesOldest
<1>4. t # <<>> /\ t[1] = calls[B][Progress + 1]
  BY <1>1, <1>2, <1>3, LineFirst DEF Control
<1> QED
  BY <1>1, <1>2, <1>3, <1>4 DEF Current

\* A thread executes the next call of its batch.
LEMMA ExecuteCallStep ==
  ASSUME IInv, NEW e \in Threads, ExecuteCall(e)
  PROVE  IInv'
<1>1. PICK t \in Seq(CallType), o \in [Batches -> Int] : Line(t, o) /\ Promise(t)
  BY DEF IInv
<1>2. Control /\ ControlTypeOK /\ Executing(e)
  BY DEF IInv, Control, ExecuteCall
<1>3. /\ t # <<>> /\ Current(e) = t[1] /\ exec[e].stage \in Running
      /\ Oldest(exec[e].batch) /\ Progress < Len(calls[exec[e].batch])
  BY <1>1, <1>2, CurrentIsFirst
<1>4. /\ exec[e] \in ExecType /\ exec[e].pos \in Nat /\ Progress = exec[e].pos
      /\ Pending \in Nat /\ exec[e].batch \in Batches
  BY <1>2, <1>3, ExecutesOldest
<1>5. PICK B \in Batches : B = exec[e].batch
  BY <1>4
<1>6. PICK st \in {"queries", "calls"} :
        st = IF Current(e).kind = "flush" /\ ~Current(e).deferred
             THEN "queries" ELSE "calls"
  OBVIOUS
<1>7. PICK x : x = [exec[e] EXCEPT !.pos = @ + 1, !.stage = st]
  OBVIOUS
<1>8. /\ x \in ExecType /\ x.stage \in Running /\ x.batch = B
      /\ x.pos = exec[e].pos + 1 /\ exec' = [exec EXCEPT ![e] = x]
  <2>1. exec \in [Threads -> ExecType]
    BY <1>2 DEF ControlTypeOK
  <2>2. exec' = [exec EXCEPT ![e] = x]
    BY <1>6, <1>7, <2>1 DEF ExecuteCall
  <2>3. st \in {"idle", "calls", "queries", "flushed", "signal"} /\ st \in Running
    BY DEF Running
  <2>4. x.stage = st /\ x.batch = B /\ x.pos = exec[e].pos + 1
    BY <1>4, <1>5, <1>7 DEF ExecType
  <2>5. x \in ExecType
    <3>1. PICK p \in Nat : p = exec[e].pos + 1
      BY <1>4
    <3>2. x = [exec[e] EXCEPT !.pos = p, !.stage = st]
      BY <1>7, <3>1
    <3> QED
      BY <1>4, <2>3, <3>2 DEF ExecType
  <2> QED
    BY <2>2, <2>3, <2>4, <2>5
<1>9. t[1] \in CallType
  BY <1>3, TailFacts
<1>10. /\ Effects(t[1]) /\ unflushed' \in SUBSET Queries
  <2>1. Effect(t[1])
    BY <1>3 DEF ExecuteCall
  <2>2. unflushed \in SUBSET Queries
    BY <1>2 DEF ControlTypeOK
  <2> QED
    BY <1>9, <2>1, <2>2, CallFacts DEF Effect, Effects
<1>11. UNCHANGED <<fifo, running, signalled, calls, token, attached, next, last, apc,
                   pending, after, arg, latest, valid, bound, untracked, contents, nwrites>>
  BY DEF ExecuteCall, pool, batches, ctl
<1>12. x.pos <= Len(calls[x.batch])
  <2>1. Len(calls[B]) \in Nat
    BY <1>2 DEF ControlTypeOK
  <2> QED
    BY <1>3, <1>4, <1>5, <1>8, <2>1
<1>13. Control' /\ Pending' = Pending /\ Progress' = x.pos
  BY <1>2, <1>3, <1>5, <1>8, <1>10, <1>11, <1>12, ControlExecute
<1>14. PICK u : u = Tail(t)
  OBVIOUS
<1>15. /\ u \in Seq(CallType) /\ Len(t) \in Nat \ {0} /\ Len(u) = Len(t) - 1
       /\ \A i \in 1..Len(t)-1 : u[i] = t[i + 1]
  BY <1>3, <1>14, TailFacts
<1>16. PICK r : r = [b \in Batches |-> o[b] - 1]
  OBVIOUS
<1>17. r \in [Batches -> Int] /\ \A b \in Batches : r[b] = o[b] - 1
  BY <1>16
<1>18. Line(u, r)'
  BY <1>1, <1>2, <1>3, <1>4, <1>5, <1>8, <1>11, <1>13, <1>15, <1>17, LineExecute
<1>19. Promise(u)'
  BY <1>1, <1>3, <1>10, <1>11, <1>14, PromiseExecute
<1> QED
  BY <1>13, <1>15, <1>17, <1>18, <1>19 DEF IInv

\* A step of tc_flush_queries.
LEMMA FlushingStep ==
  ASSUME IInv, NEW e \in Threads, exec[e].stage \in Running,
         NEW st \in Running, NEW q \in Queries \cup {NoBatch},
         exec' = [exec EXCEPT ![e].stage = st, ![e].query = q],
         unflushed' \in SUBSET Queries,
         UNCHANGED <<pool, batches, ctl, fences, buf>>
  PROVE  IInv'
<1>1. Control /\ exec \in [Threads -> ExecType]
  BY DEF IInv, Control, ControlTypeOK
<1>2. /\ exec[e] \in ExecType /\ Progress = exec[e].pos
      /\ exec[e].pos <= Len(calls[exec[e].batch])
  BY <1>1, ExecutesOldest
<1>3. PICK x : x = [exec[e] EXCEPT !.stage = st, !.query = q]
  OBVIOUS
<1>4. /\ x \in ExecType /\ x.stage \in Running /\ x.batch = exec[e].batch
      /\ x.pos = exec[e].pos
  BY <1>2, <1>3 DEF ExecType, Running
<1>5. exec' = [exec EXCEPT ![e] = x]
  BY <1>1, <1>3
<1>6. Control' /\ Pending' = Pending /\ Progress' = Progress
  BY <1>1, <1>2, <1>4, <1>5, ControlExecute DEF pool, batches, ctl
<1> QED
  BY <1>6, QuietFacts, StillStep DEF batches, ctl

\* A flush takes a query off the list.
LEMMA FlushListDelStep ==
  ASSUME IInv, NEW e \in Threads, FlushListDel(e)
  PROVE  IInv'
<1>1. PICK q \in unflushed :
        /\ unflushed' = unflushed \ {q}
        /\ exec' = [exec EXCEPT ![e].stage = "flushed", ![e].query = q]
  BY DEF FlushListDel
<1>2. "flushed" \in Running /\ exec[e].stage \in Running
  BY DEF Running, FlushListDel
<1>3. q \in Queries /\ unflushed' \in SUBSET Queries
  BY <1>1, QuietFacts
<1> QED
  BY <1>1, <1>2, <1>3, FlushingStep DEF FlushListDel

\* A flush marks the query as flushed.
LEMMA FlushSetFlagStep ==
  ASSUME IInv, NEW e \in Threads, FlushSetFlag(e)
  PROVE  IInv'
<1>1. "queries" \in Running /\ exec[e].stage \in Running
  BY DEF Running, FlushSetFlag
<1> QED
  BY <1>1, QuietFacts, FlushingStep DEF FlushSetFlag

\* A flush is done with the list.
LEMMA FlushQueriesEndStep ==
  ASSUME IInv, NEW e \in Threads, FlushQueriesEnd(e)
  PROVE  IInv'
<1>1. "calls" \in Running /\ exec[e].stage \in Running
  BY DEF Running, FlushQueriesEnd
<1>2. exec \in [Threads -> ExecType] /\ exec[e].query \in Queries \cup {NoBatch}
  BY DEF IInv, Control, ControlTypeOK, ExecType
<1>3. PICK q \in Queries \cup {NoBatch} : q = exec[e].query
  BY <1>2
<1>4. exec' = [exec EXCEPT ![e].stage = "calls", ![e].query = q]
  <2>1. exec' = [exec EXCEPT ![e].stage = "calls"]
    BY DEF FlushQueriesEnd, Stage
  <2>2. [exec[e] EXCEPT !.stage = "calls"] = [exec[e] EXCEPT !.stage = "calls", !.query = q]
    BY <1>2, <1>3 DEF ExecType
  <2> QED
    BY <1>2, <2>1, <2>2
<1> QED
  BY <1>1, <1>4, QuietFacts, FlushingStep DEF FlushQueriesEnd, query

\* A thread is done with its batch.
LEMMA ExecuteEndStep ==
  ASSUME IInv, NEW e \in Threads, ExecuteEnd(e)
  PROVE  IInv'
<1>1. PICK t \in Seq(CallType), o \in [Batches -> Int] : Line(t, o) /\ Promise(t)
  BY DEF IInv
<1>2. Control /\ ControlTypeOK /\ Ring
  BY DEF IInv, Control
<1>3. Control' /\ Pending' = Pending /\ Progress' = 0
  BY <1>2, ControlEnd
<1>4. exec[e].stage \in Running
  BY DEF ExecuteEnd, Running
<1>5. PICK B \in Batches : B = exec[e].batch
  BY <1>2, <1>4, ExecutesOldest
<1>6. Oldest(B) /\ Progress = Len(calls[B])
  <2>1. /\ Oldest(B) /\ Progress = exec[e].pos /\ exec[e].pos \in Nat
        /\ exec[e].pos <= Len(calls[B])
    BY <1>2, <1>4, <1>5, ExecutesOldest
  <2>2. ~(exec[e].pos < Len(calls[B])) /\ Len(calls[B]) \in Nat
    BY <1>2, <1>5 DEF ExecuteEnd, Executing, ControlTypeOK
  <2> QED
    BY <2>1, <2>2
<1>7. PICK r : r = [b \in Batches |-> IF b = B THEN 0 ELSE o[b]]
  OBVIOUS
<1>8. r \in [Batches -> Int] /\ r[B] = 0 /\ \A b \in Batches : b # B => r[b] = o[b]
  BY <1>7
<1>9. /\ calls' = [calls EXCEPT ![B] = <<>>]
      /\ UNCHANGED <<next, pending, arg, fences, buf>>
  BY <1>5 DEF ExecuteEnd, ctl
<1>10. Line(t, r)'
  BY <1>1, <1>2, <1>3, <1>6, <1>8, <1>9, LineEnd
<1>11. BufferTypeOK'
  BY <1>1, <1>9 DEF Promise, BufferTypeOK, buf
<1>12. \/ UNCHANGED <<apc, after>>
       \/ apc' = after /\ after' = "app"
  BY DEF ExecuteEnd, ctl
<1>13. Promise(t)'
  BY <1>1, <1>9, <1>11, <1>12, PromiseStill DEF buf
<1> QED
  BY <1>3, <1>8, <1>10, <1>13 DEF IInv

\* The driver thread takes the oldest batch.
LEMMA DriverTakeStep ==
  ASSUME IInv, DriverTake
  PROVE  IInv'
<1>1. Control' /\ Pending' = Pending /\ Progress' = Progress
  BY ControlTake DEF IInv
<1> QED
  BY <1>1, QuietFacts, StillStep DEF DriverTake, batches, ctl

\* The driver thread signals the fence of its batch.
LEMMA DriverSignalStep ==
  ASSUME IInv, DriverSignal
  PROVE  IInv'
<1>1. PICK t \in Seq(CallType), o \in [Batches -> Int] : Line(t, o) /\ Promise(t)
  BY DEF IInv
<1>2. /\ Control' /\ Pending' = Pending - 1 /\ Progress = 0 /\ Progress' = 0
      /\ exec["driver"].batch \in Batches /\ Dist(exec["driver"].batch) = Pending
      /\ calls[exec["driver"].batch] = <<>>
  BY ControlSignal DEF IInv
<1>3. PICK B \in Batches : B = exec["driver"].batch
  BY <1>2
<1>4. UNCHANGED <<calls, next, pending, apc, after, arg, fences, buf>>
  BY DEF DriverSignal, batches, ctl
<1>5. Line(t, o)'
  BY <1>1, <1>2, <1>3, <1>4, LineSignal DEF IInv, Control
<1>6. BufferTypeOK'
  BY <1>1, <1>4 DEF Promise, BufferTypeOK, buf
<1>7. Promise(t)'
  BY <1>1, <1>4, <1>6, PromiseStill DEF buf
<1> QED
  BY <1>2, <1>5, <1>7 DEF IInv

-----------------------------------------------------------------------------
(* Every step *)

\* A step that changes nothing.
LEMMA StutterStep ==
  ASSUME IInv, UNCHANGED vars
  PROVE  IInv'
<1>1. /\ UNCHANGED <<fifo, running, signalled, calls, token, attached, next, last, apc,
                     pending, after, arg, exec, unflushed, fences, buf>>
  BY DEF vars, pool, batches, ctl, query
<1>2. Ring' /\ Pending' = Pending /\ \A b : Dist(b)' = Dist(b)
  BY <1>1, RingStill DEF IInv, Control
<1>3. Control'
  <2>1. ControlTypeOK' /\ Flight'
    BY <1>1, <1>2 DEF IInv, Control, ControlTypeOK, Flight
  <2>2. Executes'
    BY <1>1 DEF IInv, Control, Executes
  <2>3. Place'
    BY <1>1, <1>2 DEF IInv, Control, Place
  <2>4. Tokens'
    BY <1>1 DEF IInv, Control, Tokens, FlushOf
  <2> QED
    BY <1>2, <2>1, <2>2, <2>3, <2>4 DEF Control
<1>4. Progress' = Progress
  BY <1>1 DEF Progress
<1> QED
  BY <1>1, <1>2, <1>3, <1>4, QuietFacts, StillStep

\* The calls on the buffer.
LEMMA BufferCallStep ==
  ASSUME IInv, BufferCall
  PROVE  IInv'
<1>1. \A box \in Boxes : box \in SUBSET Cells
  BY ConstantFacts
<1>2. CASE Draw
  BY <1>2, DrawStep
<1>3. CASE DrawAndWrite
  BY <1>3, DrawAndWriteStep
<1>4. CASE InvalidateResource
  BY <1>4, InvalidateResourceStep
<1>5. ASSUME NEW box \in Boxes, CopyRegion(box) PROVE IInv'
  BY <1>1, <1>5, RecordWriteAdds DEF CopyRegion
<1>6. ASSUME NEW box \in Boxes, BindForWrite(box) PROVE IInv'
  BY <1>1, <1>6, BindForWriteStep
<1>7. ASSUME NEW box \in Boxes, GetQueryResultResource(box) PROVE IInv'
  BY <1>1, <1>7, WriteUntrackedStep DEF GetQueryResultResource
<1>8. ASSUME NEW box \in Boxes, BindUntracked(box) PROVE IInv'
  BY <1>1, <1>8, BindUntrackedStep
<1>9. ASSUME NEW box \in Boxes, CreateTarget(box) PROVE IInv'
  BY <1>1, <1>9, CreateTargetStep
<1>10. ASSUME NEW box \in Boxes, NEW created \in Created, BufferSubdata(box, created)
      PROVE  IInv'
  BY <1>1, <1>10, BufferSubdataStep
<1>11. ASSUME NEW box \in Boxes, NEW created \in Created, NEW u \in Usages,
             TransferMap(u, box, created)
      PROVE  IInv'
  BY <1>1, <1>11, TransferMapStep
<1> QED
  BY <1>2, <1>3, <1>4, <1>5, <1>6, <1>7, <1>8, <1>9, <1>10, <1>11 DEF BufferCall

\* The calls of the application.
LEMMA AppCallStep ==
  ASSUME IInv, AppCall
  PROVE  IInv'
<1>1. ASSUME NEW l \in {"direct", "destroy"}, SyncCall(l) PROVE IInv'
  BY <1>1, SyncCallStep
<1>2. ASSUME NEW asap \in BOOLEAN, Callback(asap) PROVE IInv'
  BY <1>2, CallbackStep
<1>3. CASE QueryCall
  BY <1>3, EndQueryStep, GetQueryResultStep DEF QueryCall
<1>4. CASE FlushCall
  <2>1. ASSUME NEW kind, NEW f \in NewFences, FlushAsync(kind, f) PROVE IInv'
    BY <2>1, FlushAsyncStep DEF NewFences
  <2> QED
    BY <1>4, <2>1, FlushSyncStep, ContextFlushStep DEF FlushCall
<1>5. CASE BufferCall
  BY <1>5, BufferCallStep
<1> QED
  BY <1>1, <1>2, <1>3, <1>4, <1>5 DEF AppCall

\* The steps of a thread that executes a batch.
LEMMA ExecuteStep ==
  ASSUME IInv, NEW e \in Threads, Execute(e)
  PROVE  IInv'
  BY ExecuteCallStep, FlushListDelStep, FlushSetFlagStep, FlushQueriesEndStep,
     ExecuteEndStep DEF Execute

\* Every step keeps the invariant.
LEMMA NextIInv == IInv /\ [Next]_vars => IInv'
<1> SUFFICES ASSUME IInv, [Next]_vars PROVE IInv'
  OBVIOUS
<1>1. "app" \in Threads /\ "driver" \in Threads
  BY DEF Threads
<1>2. CASE AppCall
  BY <1>2, AppCallStep
<1>3. CASE AppStep
  <2>1. CASE Execute("app")
    BY <1>1, <2>1, ExecuteStep
  <2>2. CASE BatchFlush \/ BatchFlushWoken \/ AppendCall \/ SyncWait
    BY <2>2, BatchFlushStep, BatchFlushWokenStep, AppendCallStep, SyncWaitStep
  <2>3. CASE DirectCall \/ Destroy \/ QueryResult \/ QueryListDel
    BY <2>3, DirectCallStep, DestroyStep, QueryResultStep, QueryListDelStep
  <2>4. CASE FlushQueries \/ AccessMapped
    BY <2>4, FlushQueriesStep, AccessMappedStep
  <2> QED
    BY <1>3, <2>1, <2>2, <2>3, <2>4 DEF AppStep
<1>4. CASE DriverStep
  <2>1. CASE Execute("driver")
    BY <1>1, <2>1, ExecuteStep
  <2>2. CASE DriverTake \/ DriverSignal
    BY <2>2, DriverTakeStep, DriverSignalStep
  <2> QED
    BY <1>4, <2>1, <2>2 DEF DriverStep
<1>5. CASE UNCHANGED vars
  BY <1>5, StutterStep
<1> QED
  BY <1>2, <1>3, <1>4, <1>5 DEF Next

\* IInv holds throughout: the ring of batches, the queue and what the two
\* threads are executing always make one sequence of calls, in the order in
\* which the application made them.
THEOREM Invariance == Spec => []IInv
  BY InitIInv, NextIInv, PTL DEF Spec

-----------------------------------------------------------------------------
(* What follows *)

\* A call that nothing precedes finds what is in the driver's storage.
LEMMA FoundNow ==
  ASSUME NEW t, NEW s, NEW x, NEW v, Finds(t, 1, s, x, v)
  PROVE  mem[s][x] = v
<1>1. \A j : j \notin 1..1-1
  OBVIOUS
<1> QED
  BY <1>1 DEF Finds

\* The three properties follow from the invariant: the program order of the
\* buffer,
LEMMA OrderFollows == IInv => BuffersInProgramOrder
<1> SUFFICES ASSUME IInv
             PROVE  /\ \A e \in Threads :
                         Executing(e) /\ Current(e).kind = "draw" =>
                           Sees(mem[storage], Current(e).expects)
                    /\ apc = "map" => Sees(mem[latest], contents)
  BY DEF BuffersInProgramOrder
<1>1. PICK t \in Seq(CallType), o \in [Batches -> Int] : Line(t, o) /\ Promise(t)
  BY DEF IInv
<1>2. BufferTypeOK /\ DrawsFind(t) /\ EndFinds(t)
  BY <1>1 DEF Promise
<1>3. ASSUME NEW e \in Threads, Executing(e), Current(e).kind = "draw"
      PROVE  Sees(mem[storage], Current(e).expects)
  <2>1. t # <<>> /\ Current(e) = t[1]
    BY <1>1, <1>3, CurrentIsFirst DEF IInv
  <2>2. 1 \in 1..Len(t)
    BY <2>1, TailFacts
  <2>3. InEpoch(t, 1, storage) /\ storage \in Storages
    BY <1>2 DEF InEpoch, BufferTypeOK
  <2>4. ASSUME NEW x \in Tracked, t[1].expects[x] # 0
        PROVE  mem[storage][x] = t[1].expects[x]
    <3>1. Finds(t, 1, storage, x, t[1].expects[x])
      BY <1>2, <1>3, <2>1, <2>2, <2>3, <2>4 DEF DrawsFind
    <3> QED
      BY <3>1, FoundNow
  <2> QED
    BY <2>1, <2>4 DEF Sees
<1>4. ASSUME apc = "map" PROVE Sees(mem[latest], contents)
  <2>1. t = <<>> /\ Len(t) = 0
    BY <1>1, <1>4, LineEmpty DEF IInv, Control, Place
  <2>2. ASSUME NEW x \in Tracked, contents[x] # 0
        PROVE  mem[latest][x] = contents[x]
    <3>1. Finds(t, 1, latest, x, contents[x])
      BY <1>2, <2>1, <2>2 DEF EndFinds
    <3> QED
      BY <3>1, FoundNow
  <2> QED
    BY <2>2 DEF Sees
<1> QED
  BY <1>3, <1>4

\* A draw executed by either thread, and a map that waited with _tc_sync, find
\* the contents the order of the application's calls gives the buffer, for any
\* ring and any mix of staged, unsynchronized, invalidating and recorded
\* writes: in every cell but those that a call (get_query_result_resource, a
\* draw that writes) has written while the valid range lacked them.
THEOREM ProgramOrder == Spec => []BuffersInProgramOrder
  BY Invariance, OrderFollows, PTL

\* ... direct calls made alone,
LEMMA AloneFollows == IInv => DirectCallsAlone
<1> SUFFICES ASSUME IInv, apc \in {"direct", "callback", "flush", "map", "destroy", "destroyed"}
             PROVE  /\ fifo = <<>> /\ running = {}
                    /\ \A b \in Batches : calls[b] = <<>>
                    /\ \A f \in Fences : fences[f] \in {"none", "ready"}
                    /\ storage = latest
  BY DEF DirectCallsAlone
<1>1. PICK t \in Seq(CallType), o \in [Batches -> Int] : Line(t, o) /\ Promise(t)
  BY DEF IInv
<1>2. Control /\ Pending = 0 /\ calls[next] = <<>> /\ pending = NoCall /\ next \in Batches
  BY DEF IInv, Control, Place, ControlTypeOK
<1>3. fifo = <<>> /\ running = {}
  BY <1>2, PendingFacts
<1>4. ASSUME NEW b \in Batches PROVE calls[b] = <<>>
  <2>1. Dist(b) > Pending
    BY <1>2, DistFacts, ConstantFacts
  <2> QED
    BY <1>2, <2>1 DEF Control, Flight
<1>5. t = <<>> /\ Len(t) = 0
  BY <1>1, <1>2, LineEmpty
<1>6. storage = latest
  BY <1>1, <1>5 DEF Promise, Storing
<1>7. ASSUME NEW f \in Fences PROVE fences[f] \in {"none", "ready"}
  <2>1. fences[f] \in {"none", "deferred", "submitted", "ready"}
    BY <1>1 DEF Promise, BufferTypeOK
  <2>2. fences[f] \notin {"deferred", "submitted"}
    BY <1>1, <1>5 DEF Promise, Flushing
  <2> QED
    BY <2>1, <2>2
<1> QED
  BY <1>3, <1>4, <1>6, <1>7

\* When _tc_sync or tc_is_sync lets the application thread call the driver
\* itself, the driver thread is idle, no batch holds a call, every fence of a
\* flush is ready, and the buffer's storage is the latest one.
THEOREM DirectAlone == Spec => []DirectCallsAlone
  BY Invariance, AloneFollows, PTL

\* ... and the tokens.
LEMMA TokensFollow == IInv => TokenOfCurrentBatch
<1> SUFFICES ASSUME IInv PROVE TokenOfCurrentBatch
  OBVIOUS
<1>1. Tokens
  BY DEF IInv, Control
<1> QED
  BY <1>1 DEF Tokens, TokenOfCurrentBatch, FlushOf

\* Only the batch being recorded has a token, as tc_batch_execute and
\* tc_destroy assert, and a fence that holds it has its flush in this batch:
\* threaded_context_flush never submits the wrong batch.
THEOREM TokenCurrent == Spec => []TokenOfCurrentBatch
  BY Invariance, TokensFollow, PTL
=============================================================================
