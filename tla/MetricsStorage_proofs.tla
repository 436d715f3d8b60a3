----------------------- MODULE MetricsStorage_proofs -----------------------
(***************************************************************************)
(* Proofs about MetricsStorage, for any batch size, channel capacities,    *)
(* messages and stores.                                                    *)
(***************************************************************************)
EXTENDS MetricsStorage, FiniteSetTheorems, TLAPS

\* The persister's theorems, of the pipeline.
PP == INSTANCE MetricsPersister_proofs WITH produced <- flushed, MaxBatch <- MaxItems

-----------------------------------------------------------------------------
(* What lies between the gatherers and storage_ch is one run of messages:  *)
(* the batch, then the rest of the received ones, then those that wait in  *)
(* buffered_storage_ch, one send after the other.                          *)

\* f tells with which message each send in q ends; lo is the last one before q,
\* hi the last one in it.
Consecutive(q, f, lo, hi) ==
  /\ f \in [0 .. Len(q) -> 0 .. MaxItems]
  /\ f[0] = lo
  /\ f[Len(q)] = hi
  /\ \A j, k \in 0 .. Len(q) : j <= k => f[j] <= f[k]
  /\ \A k \in 1 .. Len(q) : f[k - 1] < f[k] /\ q[k] = (f[k - 1] + 1) .. f[k]
  /\ P!DataIn(q) = (lo + 1) .. hi

\* b is the last message of the batch, r the last that was received.
InSequence(b, r) ==
  /\ flushed <= b /\ b <= r /\ r <= gathered
  /\ batch = (flushed + 1) .. b
  /\ msg = (b + 1) .. r
  /\ \E f : Consecutive(buffered_storage_ch, f, r, gathered)

PipelineInv ==
  /\ buffered_storage_ch \in Seq(SUBSET (1 .. MaxItems))
  /\ gathered \in 0 .. MaxItems
  /\ flushed \in 0 .. MaxItems
  /\ at \in {"select", "append", "flush"}
  /\ at = "select" => msg = {}
  /\ at = "append" => msg # {}
  /\ at = "flush" => batch # {}
  /\ \E b, r \in 0 .. MaxItems : InSequence(b, r)

\* What is left when the process has ended.
Stopped ==
  /\ buffered_storage_ch = <<>> /\ msg = {} /\ batch = {}
  /\ at = "select"
  /\ gathered \in 0 .. MaxItems

StorageInv ==
  /\ pc # "dead" => PipelineInv
  /\ pc = "dead" => Stopped

\* DataInAppend, DataInTail and DataInEmpty of the persister's proofs, for the
\* batches of this module.
LEMMA SendsData ==
  /\ P!DataIn(<<>>) = {}
  /\ \A q \in Seq(SUBSET (1 .. MaxItems)), b \in SUBSET (1 .. MaxItems) :
       P!DataIn(Append(q, b)) = P!DataIn(q) \cup b
  /\ \A q \in Seq(SUBSET (1 .. MaxItems)) :
       q # <<>> => P!DataIn(q) = Head(q) \cup P!DataIn(Tail(q))
<1>1. PP!PersisterAssumption
  BY PersisterAssumption DEF PersisterAssumption, PP!PersisterAssumption, Datastores,
     PP!Datastores
<1>2. \A q : P!DataIn(q) = PP!DataIn(q)
  BY DEF P!DataIn, PP!DataIn
<1>3. PP!Data = 1 .. MaxItems
  BY DEF PP!Data
<1> QED
  BY <1>1, <1>2, <1>3, PP!DataInEmpty, PP!DataInAppend, PP!DataInTail

\* At first nothing is on its way.
LEMMA PipelineInvInit == Init => PipelineInv
<1> SUFFICES ASSUME Init PROVE PipelineInv
  OBVIOUS
<1> USE BatcherAssumption, PersisterAssumption
<1>1. Consecutive(<<>>, [k \in 0 .. 0 |-> 0], 0, 0)
  BY SendsData DEF Consecutive
<1>2. InSequence(0, 0)
  BY <1>1 DEF InSequence, Init, BatcherInit
<1> QED
  BY <1>2 DEF PipelineInv, Init, BatcherInit

\* One more send, of the next messages, keeps the queue consecutive.
LEMMA ConsecutiveAppend ==
  ASSUME NEW q \in Seq(SUBSET (1 .. MaxItems)), NEW f, NEW lo \in Nat, NEW hi \in Nat,
         NEW k \in Nat \ {0}, hi + k <= MaxItems, Consecutive(q, f, lo, hi)
  PROVE  \E g : Consecutive(Append(q, (hi + 1) .. (hi + k)), g, lo, hi + k)
<1> DEFINE n == Len(q)
           new == (hi + 1) .. (hi + k)
           Q == Append(q, new)
           g == [j \in 0 .. (n + 1) |-> IF j <= n THEN f[j] ELSE hi + k]
<1>0. MaxItems \in Nat
  BY PersisterAssumption
<1> USE <1>0
<1>1. /\ n \in Nat
      /\ Len(Q) = n + 1
      /\ Q[n + 1] = new
      /\ \A j \in 1 .. n : Q[j] = q[j]
  OBVIOUS
<1>2. /\ f \in [0 .. n -> 0 .. MaxItems]
      /\ f[0] = lo
      /\ f[n] = hi
      /\ \A i, j \in 0 .. n : i <= j => f[i] <= f[j]
      /\ \A j \in 1 .. n : f[j - 1] < f[j] /\ q[j] = (f[j - 1] + 1) .. f[j]
  BY DEF Consecutive
<1>3. g \in [0 .. (n + 1) -> 0 .. MaxItems]
  BY <1>1, <1>2
<1>4. g[0] = lo /\ g[n + 1] = hi + k
  BY <1>1, <1>2
<1>5. ASSUME NEW i \in 0 .. (n + 1), NEW j \in 0 .. (n + 1), i <= j PROVE g[i] <= g[j]
  <2>1. CASE j \in 0 .. n
    <3>1. i \in 0 .. n
      <4> HIDE DEF n
      <4> QED
        BY <1>1, <1>5, <2>1
    <3>2. \A m \in 0 .. n : m \in 0 .. (n + 1) /\ m <= n
      <4> HIDE DEF n
      <4> QED
        BY <1>1
    <3>3. g[i] = f[i] /\ g[j] = f[j]
      BY <2>1, <3>1, <3>2
    <3> QED
      BY <1>2, <1>5, <2>1, <3>1, <3>3
  <2>2. CASE i \in 0 .. n /\ j = n + 1
    <3>1. g[i] = f[i] /\ f[i] \in 0 .. MaxItems /\ n \in 0 .. n /\ i <= n
      BY <1>1, <1>2, <2>2
    <3>2. f[i] <= hi
      BY <1>2, <2>2, <3>1
    <3>3. g[j] = hi + k
      BY <1>4, <2>2
    <3>4. f[i] <= hi + k
      <4> HIDE DEF n
      <4> QED
        BY <3>1, <3>2
    <3> QED
      BY <3>1, <3>3, <3>4
  <2>3. CASE i = n + 1 /\ j = n + 1
    BY <1>4, <2>3
  <2> QED
    BY <1>1, <1>5, <2>1, <2>2, <2>3
<1>6. ASSUME NEW j \in 1 .. (n + 1)
      PROVE  g[j - 1] < g[j] /\ Q[j] = (g[j - 1] + 1) .. g[j]
  <2>1. CASE j = n + 1
    BY <1>1, <1>2, <2>1
  <2>2. CASE j \in 1 .. n
    BY <1>1, <1>2, <2>2
  <2> QED
    BY <1>1, <2>1, <2>2
<1>7. P!DataIn(Q) = (lo + 1) .. (hi + k)
  <2>1. new \in SUBSET (1 .. MaxItems)
    OBVIOUS
  <2>2. P!DataIn(Q) = P!DataIn(q) \cup new
    BY <2>1, SendsData
  <2>3. P!DataIn(q) = (lo + 1) .. hi /\ lo <= hi
    <3>1. 0 \in 0 .. n /\ n \in 0 .. n /\ 0 <= n
      BY <1>1
    <3> QED
      BY <1>2, <3>1 DEF Consecutive
  <2>4. ((lo + 1) .. hi) \cup new = (lo + 1) .. (hi + k)
    BY <2>3
  <2> QED
    BY <2>2, <2>3, <2>4
<1>8. Consecutive(Q, g, lo, hi + k)
  BY <1>1, <1>3, <1>4, <1>5, <1>6, <1>7 DEF Consecutive
<1> QED
  BY <1>8

\* The first send of a queue holds the messages that follow lo.
LEMMA ConsecutiveTail ==
  ASSUME NEW q \in Seq(SUBSET (1 .. MaxItems)), NEW f, NEW lo \in Nat, NEW hi \in Nat,
         q # <<>>, Consecutive(q, f, lo, hi)
  PROVE  \E r \in 0 .. MaxItems :
           /\ lo < r
           /\ r <= hi
           /\ Head(q) = (lo + 1) .. r
           /\ \E g : Consecutive(Tail(q), g, r, hi)
<1> DEFINE n == Len(q)
           Q == Tail(q)
           g == [j \in 0 .. (n - 1) |-> f[j + 1]]
<1>0. MaxItems \in Nat
  BY PersisterAssumption
<1> USE <1>0
<1>1. /\ n \in Nat \ {0}
      /\ Len(Q) = n - 1
      /\ Head(q) = q[1]
      /\ \A j \in 1 .. (n - 1) : Q[j] = q[j + 1]
  OBVIOUS
<1>2. /\ f \in [0 .. n -> 0 .. MaxItems]
      /\ f[0] = lo
      /\ f[n] = hi
      /\ \A i, j \in 0 .. n : i <= j => f[i] <= f[j]
      /\ \A j \in 1 .. n : f[j - 1] < f[j] /\ q[j] = (f[j - 1] + 1) .. f[j]
  BY DEF Consecutive
<1>3. g \in [0 .. (n - 1) -> 0 .. MaxItems]
  BY <1>1, <1>2
<1>4. g[0] = f[1] /\ g[n - 1] = hi
  BY <1>1, <1>2
<1>5. ASSUME NEW i \in 0 .. (n - 1), NEW j \in 0 .. (n - 1), i <= j PROVE g[i] <= g[j]
  <2>1. /\ g[i] = f[i + 1] /\ g[j] = f[j + 1]
        /\ i + 1 \in 0 .. n /\ j + 1 \in 0 .. n /\ i + 1 <= j + 1
    BY <1>1, <1>5
  <2> QED
    BY <1>2, <2>1
<1>6. ASSUME NEW j \in 1 .. (n - 1)
      PROVE  g[j - 1] < g[j] /\ Q[j] = (g[j - 1] + 1) .. g[j]
  <2>1. /\ g[j] = f[j + 1]
        /\ g[j - 1] = f[j]
        /\ Q[j] = q[j + 1]
    BY <1>1
  <2>2. j + 1 \in 1 .. n /\ (j + 1) - 1 = j
    BY <1>1
  <2> QED
    BY <1>2, <2>1, <2>2
<1>7. /\ f[1] \in 0 .. MaxItems
      /\ lo < f[1]
      /\ f[1] <= hi
      /\ Head(q) = (lo + 1) .. f[1]
  <2>1. 1 \in 1 .. n /\ 1 - 1 = 0 /\ 1 \in 0 .. n /\ n \in 0 .. n /\ 1 <= n
    BY <1>1
  <2>2. f[1] \in 0 .. MaxItems /\ f[1] <= hi
    BY <1>2, <2>1
  <2>3. f[0] < f[1] /\ q[1] = (f[0] + 1) .. f[1]
    BY <1>2, <2>1
  <2> QED
    BY <1>1, <1>2, <2>2, <2>3
<1>8. P!DataIn(Q) = (f[1] + 1) .. hi
  <2>1. (lo + 1) .. hi = ((lo + 1) .. f[1]) \cup P!DataIn(Q)
    BY <1>7, SendsData DEF Consecutive
  <2>2. ASSUME NEW x \in P!DataIn(Q) PROVE x \notin (lo + 1) .. f[1]
    <3>1. PICK j \in 1 .. (n - 1) : x \in Q[j]
      BY <1>1, <2>2 DEF P!DataIn
    <3>2. Q[j] = (g[j - 1] + 1) .. g[j]
      BY <1>6
    <3>3. /\ j - 1 \in 0 .. (n - 1)
          /\ j \in 0 .. (n - 1)
          /\ 0 \in 0 .. (n - 1)
          /\ 0 <= j - 1
      BY <1>1
    <3>4. f[1] <= g[j - 1] /\ g[j - 1] \in 0 .. MaxItems /\ g[j] \in 0 .. MaxItems
      <4> HIDE DEF g
      <4> QED
        BY <1>3, <1>4, <1>5, <3>3
    <3> HIDE DEF g, Q
    <3>5. x \in Int /\ g[j - 1] + 1 <= x
      BY <3>1, <3>2, <3>4
    <3>6. f[1] < x
      BY <1>7, <3>4, <3>5
    <3> QED
      BY <1>7, <3>5, <3>6
  <2> HIDE DEF Q
  <2>3. P!DataIn(Q) = ((lo + 1) .. hi) \ ((lo + 1) .. f[1])
    BY <2>1, <2>2
  <2>4. \A m \in Nat : lo < m /\ m <= hi => ((lo + 1) .. hi) \ ((lo + 1) .. m) = (m + 1) .. hi
    OBVIOUS
  <2> QED
    BY <1>7, <2>3, <2>4
<1>9. Consecutive(Q, g, f[1], hi)
  BY <1>1, <1>3, <1>4, <1>5, <1>6, <1>8 DEF Consecutive
<1> QED
  BY <1>7, <1>9

-----------------------------------------------------------------------------
(* The batcher's steps.                                                    *)

\* The batch that is flushed continues where the last one ended: the persister
\* sees a producer.
LEMMA FlushProduces == 
  ASSUME PipelineInv, Flush, UNCHANGED persister, pc # "dead"
  PROVE  PipelineInv' /\ P!Produce
<1> USE BatcherAssumption, PersisterAssumption
<1>1. PICK b \in 0 .. MaxItems, r \in 0 .. MaxItems : InSequence(b, r)
  BY DEF PipelineInv
<1>2. flushed \in Nat /\ b \in Nat /\ r \in Nat /\ gathered \in Nat
  BY <1>1 DEF PipelineInv
<1>3. batch = (flushed + 1) .. b /\ batch # {} /\ b <= gathered /\ gathered <= MaxItems
  BY <1>1 DEF PipelineInv, InSequence, Flush
<1>4. flushed < b
  BY <1>2, <1>3
<1>5. Cardinality(batch) = b - flushed
  <2>1. flushed + 1 \in Int /\ b \in Int
    BY <1>2
  <2>2. Cardinality((flushed + 1) .. b) = IF flushed + 1 > b THEN 0 ELSE b - (flushed + 1) + 1
    BY <2>1, FS_Interval
  <2> QED
    BY <1>2, <1>3, <1>4, <2>2
<1>6. flushed' = b
  BY <1>2, <1>4, <1>5 DEF Flush
<1>7. PipelineInv'
  <2>1. batch' = {} /\ (b + 1) .. b = {}
    BY <1>2 DEF Flush
  <2>2. InSequence(b, r)'
    BY <1>1, <1>2, <1>6, <2>1 DEF InSequence, Flush
  <2> QED
    BY <1>1, <1>6, <2>1, <2>2 DEF PipelineInv, Flush
<1>8. P!Produce
  <2> DEFINE k == b - flushed
  <2>1. /\ k \in 1 .. MaxItems
        /\ flushed + k = b
        /\ flushed + k <= MaxItems
    BY <1>2, <1>3, <1>4
  <2>2. /\ flushed' = flushed + k
        /\ storage_ch' = Append(storage_ch, (flushed + 1) .. (flushed + k))
    BY <1>3, <1>6, <2>1 DEF Flush
  <2> QED
    BY <2>1, <2>2 DEF P!Produce, P!control, P!history, Flush, persister
<1> QED
  BY <1>7, <1>8

\* StoreMetrics keeps PipelineInv.
LEMMA StoreMetricsKeeps == ASSUME PipelineInv, StoreMetrics PROVE PipelineInv'
<1> USE BatcherAssumption, PersisterAssumption
<1>1. PICK b \in 0 .. MaxItems, r \in 0 .. MaxItems : InSequence(b, r)
  BY DEF PipelineInv
<1>2. PICK k \in 1 .. MaxSend :
        /\ gathered + k <= MaxItems
        /\ gathered' = gathered + k
        /\ buffered_storage_ch' = Append(buffered_storage_ch, (gathered + 1) .. (gathered + k))
  BY DEF StoreMetrics
<1>3. PICK f : Consecutive(buffered_storage_ch, f, r, gathered)
  BY <1>1 DEF InSequence
<1>4. /\ buffered_storage_ch \in Seq(SUBSET (1 .. MaxItems))
      /\ gathered \in Nat /\ r \in Nat /\ k \in Nat \ {0}
  BY <1>1, <1>2 DEF PipelineInv
<1>5. \E g : Consecutive(buffered_storage_ch', g, r, gathered')
  BY <1>2, <1>3, <1>4, ConsecutiveAppend
<1>6. UNCHANGED <<flushed, at, msg, batch>>
  BY DEF StoreMetrics, batcher
<1>7. InSequence(b, r)'
  <2>1. r <= gathered'
    BY <1>1, <1>2, <1>4 DEF InSequence
  <2> QED
    BY <1>1, <1>5, <1>6, <2>1 DEF InSequence
<1>8. /\ gathered' \in 0 .. MaxItems
      /\ buffered_storage_ch' \in Seq(SUBSET (1 .. MaxItems))
  <2>1. (gathered + 1) .. (gathered + k) \in SUBSET (1 .. MaxItems)
    BY <1>2, <1>4
  <2> QED
    BY <1>2, <1>4, <2>1
<1> QED
  BY <1>1, <1>6, <1>7, <1>8 DEF PipelineInv

\* ReceiveMsg keeps PipelineInv.
LEMMA ReceiveMsgKeeps == ASSUME PipelineInv, ReceiveMsg PROVE PipelineInv'
<1> USE BatcherAssumption, PersisterAssumption
<1>1. PICK b \in 0 .. MaxItems, r \in 0 .. MaxItems : InSequence(b, r)
  BY DEF PipelineInv
<1>2. PICK f : Consecutive(buffered_storage_ch, f, r, gathered)
  BY <1>1 DEF InSequence
<1>3. /\ buffered_storage_ch \in Seq(SUBSET (1 .. MaxItems)) /\ buffered_storage_ch # <<>>
      /\ gathered \in Nat /\ r \in Nat /\ b \in Nat
  BY <1>1 DEF PipelineInv, ReceiveMsg
<1>4. PICK q \in 0 .. MaxItems :
        /\ r < q
        /\ q <= gathered
        /\ Head(buffered_storage_ch) = (r + 1) .. q
        /\ \E g : Consecutive(Tail(buffered_storage_ch), g, q, gathered)
  BY <1>2, <1>3, ConsecutiveTail
<1>5. b = r
  <2>1. (b + 1) .. r = {} /\ b <= r
    BY <1>1 DEF InSequence, PipelineInv, ReceiveMsg
  <2>2. b < r => b + 1 \in (b + 1) .. r
    BY <1>3
  <2> QED
    BY <1>3, <2>1, <2>2
<1>6. msg' = (b + 1) .. q /\ msg' # {}
  <2>1. msg' = (b + 1) .. q
    BY <1>4, <1>5 DEF ReceiveMsg
  <2>2. b + 1 \in (b + 1) .. q
    BY <1>3, <1>4, <1>5
  <2> QED
    BY <2>1, <2>2
<1>7. InSequence(b, q)'
  BY <1>1, <1>3, <1>4, <1>5, <1>6 DEF InSequence, ReceiveMsg
<1>8. buffered_storage_ch' \in Seq(SUBSET (1 .. MaxItems))
  BY <1>3 DEF ReceiveMsg
<1> QED
  BY <1>1, <1>4, <1>6, <1>7, <1>8 DEF PipelineInv, ReceiveMsg

\* AppendMessage keeps PipelineInv: it takes the message that comes next.
LEMMA AppendMessageKeeps == ASSUME PipelineInv, AppendMessage PROVE PipelineInv'
<1> USE BatcherAssumption, PersisterAssumption
<1>1. PICK b \in 0 .. MaxItems, r \in 0 .. MaxItems : InSequence(b, r)
  BY DEF PipelineInv
<1>2. /\ b \in Nat /\ r \in Nat /\ flushed \in Nat
      /\ flushed <= b
      /\ batch = (flushed + 1) .. b
      /\ msg = (b + 1) .. r
      /\ msg # {}
  BY <1>1 DEF PipelineInv, InSequence, AppendMessage
<1>3. b + 1 \in msg /\ b + 1 <= r /\ \A y \in msg : b + 1 <= y
  BY <1>2
<1>4. Min(msg) = b + 1
  <2>1. \A x \in msg : (\A y \in msg : x <= y) => x = b + 1
    BY <1>2, <1>3
  <2> QED
    BY <1>3, <2>1 DEF Min
<1>5. /\ msg' = msg \ {b + 1}
      /\ batch' = batch \cup {b + 1}
      /\ at' \in {"select", "append", "flush"}
      /\ at' = "select" => msg = {b + 1}
      /\ at' = "append" => msg # {b + 1}
      /\ UNCHANGED <<buffered_storage_ch, gathered, flushed>>
  BY <1>4 DEF AppendMessage
<1>6. msg' = (b + 2) .. r /\ batch' = (flushed + 1) .. (b + 1) /\ batch' # {}
  BY <1>2, <1>3, <1>5
<1>7. InSequence(b + 1, r)'
  BY <1>1, <1>2, <1>3, <1>5, <1>6 DEF InSequence
<1>8. b + 1 \in 0 .. MaxItems
  BY <1>1, <1>3
<1>9. /\ at' = "select" => msg' = {}
      /\ at' = "append" => msg' # {}
  BY <1>3, <1>5
<1> QED
  BY <1>1, <1>5, <1>6, <1>7, <1>8, <1>9 DEF PipelineInv

\* Steps of the persister, and those that move no message, keep PipelineInv.
LEMMA OthersKeep ==
  ASSUME PipelineInv,
         \/ Tick
         \/ ReceiveTick
         \/ UNCHANGED <<buffered_storage_ch, gathered, flushed, batcher>>
  PROVE  PipelineInv'
<1>1. /\ UNCHANGED <<buffered_storage_ch, gathered, flushed, msg, batch>>
      /\ \/ at' = at
         \/ at = "select" /\ at' = "select"
         \/ at = "select" /\ at' = "flush" /\ batch # {}
  BY DEF Tick, ReceiveTick, batcher
<1>2. \A b, r : InSequence(b, r)' = InSequence(b, r)
  BY <1>1 DEF InSequence
<1> QED
  BY <1>1, <1>2 DEF PipelineInv

\* The persister ends the process once.
LEMMA PersisterLives == ASSUME P!Persister PROVE pc # "dead"
BY DEF P!Persister, P!Receive, P!QueueBehindBacklog, P!SendDirectly, P!BeginRetryPass,
   P!SkipStore, P!RetrySucceeds, P!RetryStops, P!Retrying

\* A step of the persister leaves the batcher alone, or ends both.
LEMMA PersisterStepIs ==
  ASSUME PersisterStep
  PROVE  /\ pc = "dead" => pc' = "dead"
         /\ UNCHANGED <<gathered, flushed>>
         /\ \/ pc # "dead" /\ pc' = "dead"
               /\ buffered_storage_ch' = <<>> /\ msg' = {} /\ batch' = {}
               /\ at' = "select" /\ tick' = FALSE /\ datapointCounter' = 0
            \/ (pc' = "dead" => pc = "dead") /\ UNCHANGED <<buffered_storage_ch, batcher>>
<1>1. pc = "dead" => pc' = "dead"
  BY PersisterLives DEF PersisterStep, PersisterRuns, TimePasses, P!TenSecondsPass,
     P!HealthChange, P!control
<1>2. BatcherGoesOn
  BY DEF PersisterStep, PersisterRuns, TimePasses
<1> QED
  BY <1>1, <1>2 DEF BatcherGoesOn

\* The invariant holds at the beginning.
LEMMA StorageInvInit == Init => StorageInv
BY PipelineInvInit DEF StorageInv, Init, P!Init

\* Every step keeps it.
LEMMA StorageInvStep == StorageInv /\ [Next]_vars => StorageInv'
<1> SUFFICES ASSUME StorageInv, [Next]_vars PROVE StorageInv'
  OBVIOUS
<1>1. CASE BatcherStep
  <2>1. pc # "dead" /\ pc' # "dead" /\ PipelineInv
    BY <1>1 DEF BatcherStep, persister, StorageInv
  <2>2. PipelineInv'
    BY <1>1, <2>1, StoreMetricsKeeps, ReceiveMsgKeeps, AppendMessageKeeps, FlushProduces, OthersKeep
    DEF BatcherStep, Batcher
  <2> QED
    BY <2>1, <2>2 DEF StorageInv
<1>2. CASE PersisterStep
  <2>1. CASE pc # "dead" /\ pc' = "dead"
    <3>1. Stopped'
      BY <1>2, <2>1, PersisterStepIs DEF StorageInv, PipelineInv, Stopped
    <3> QED
      BY <2>1, <3>1 DEF StorageInv
  <2>2. CASE pc # "dead" /\ pc' # "dead"
    <3>1. UNCHANGED <<buffered_storage_ch, gathered, flushed, batcher>>
      BY <1>2, <2>2, PersisterStepIs
    <3> QED
      BY <2>2, <3>1, OthersKeep DEF StorageInv
  <2>3. CASE pc = "dead"
    <3>1. UNCHANGED <<buffered_storage_ch, gathered, flushed, batcher>> /\ pc' = "dead"
      BY <1>2, <2>3, PersisterStepIs
    <3> QED
      BY <2>3, <3>1 DEF StorageInv, Stopped, batcher
  <2> QED
    BY <2>1, <2>2, <2>3
<1>3. CASE UNCHANGED vars
  <2>1. pc' = pc /\ UNCHANGED <<buffered_storage_ch, gathered, flushed, batcher>>
    BY <1>3 DEF vars, persister
  <2> QED
    BY <2>1, OthersKeep DEF StorageInv, Stopped, batcher
<1> QED
  BY <1>1, <1>2, <1>3 DEF Next

-----------------------------------------------------------------------------
(* The refinement.                                                         *)

\* A step of the pipeline is one of the persister's specification, or none.
LEMMA StepRefines == StorageInv /\ [Next]_vars => [P!Next]_P!vars
<1> SUFFICES ASSUME StorageInv, [Next]_vars PROVE [P!Next]_P!vars
  OBVIOUS
<1>1. CASE BatcherStep
  <2>1. CASE Flush
    BY <1>1, <2>1, FlushProduces DEF BatcherStep, StorageInv, P!Next
  <2>2. CASE StoreMetrics \/ Tick \/ ReceiveTick \/ ReceiveMsg \/ AppendMessage
    BY <1>1, <2>2
    DEF BatcherStep, persister, P!vars, StoreMetrics, Tick, ReceiveTick, ReceiveMsg, AppendMessage
  <2> QED
    BY <1>1, <2>1, <2>2 DEF BatcherStep, Batcher
<1>2. CASE PersisterStep
  BY <1>2 DEF PersisterStep, PersisterRuns, TimePasses, P!Next
<1>3. CASE UNCHANGED vars
  BY <1>3 DEF vars, persister, P!vars
<1> QED
  BY <1>1, <1>2, <1>3 DEF Next

\* The pipeline of batcher and persister implements the persister's
\* specification: what the batcher flushes is a producer's output as that takes
\* it for granted, whatever the limits of batches and channels.
THEOREM PipelineImplementsPersister == Spec => ImplementsPersister
<1>1. Init => P!Init
  BY DEF Init
<1> QED
  BY <1>1, StorageInvInit, StorageInvStep, StepRefines, PTL
  DEF Spec, ImplementsPersister, P!Spec

-----------------------------------------------------------------------------
(* What the refinement is good for: the persister's theorems hold of the   *)
(* pipeline.                                                               *)

\* The two instances of the persister agree on everything but its goroutine.
LEMMA SameWorld ==
  /\ P!Init = PP!Init
  /\ P!Produce = PP!Produce
  /\ P!Stores = PP!Stores
  /\ \A i : P!HealthChange(i) = PP!HealthChange(i)
  /\ \A i : P!TenSecondsPass(i) = PP!TenSecondsPass(i)
  /\ P!vars = PP!vars
BY DEF P!Init, PP!Init, P!Produce, PP!Produce, P!Stores, PP!Stores, P!HealthChange,
   PP!HealthChange, P!TenSecondsPass, PP!TenSecondsPass, P!vars, PP!vars, P!control,
   PP!control, P!history, PP!history

\* And on what a send may come to.
LEMMA SameSends == \A i, b : P!SendResults(i, b) = PP!SendResults(i, b)
BY DEF P!SendResults, PP!SendResults, P!Misbehaves, PP!Misbehaves, P!SendToInflux,
   PP!SendToInflux, P!SendToPostgres, PP!SendToPostgres, P!SendToGraphite,
   PP!SendToGraphite, P!WriteMetricsToJsonFile, PP!WriteMetricsToJsonFile, P!Last, PP!Last,
   P!Results, PP!Results, P!Errors, PP!Errors, P!Refusals, PP!Refusals

\* And on the goroutine, action by action.
LEMMA SamePersister == P!Persister = PP!Persister
<1> USE DEF P!env, PP!env, P!control, PP!control, P!history, PP!history, P!NextStore,
    PP!NextStore, P!Backlog, PP!Backlog, P!Settle, PP!Settle, P!Keep, PP!Keep
<1>1. P!Receive = PP!Receive
  BY DEF P!Receive, PP!Receive
<1>2. P!QueueBehindBacklog = PP!QueueBehindBacklog
  BY DEF P!QueueBehindBacklog, PP!QueueBehindBacklog, P!Full, PP!Full, P!Pushed, PP!Pushed
<1>3. P!SendDirectly = PP!SendDirectly
  BY DEF P!SendDirectly, PP!SendDirectly, P!MustQueue, PP!MustQueue, P!SendResults,
     PP!SendResults, P!Misbehaves, PP!Misbehaves, P!SendToInflux, PP!SendToInflux,
     P!SendToPostgres, PP!SendToPostgres, P!SendToGraphite, PP!SendToGraphite,
     P!WriteMetricsToJsonFile, PP!WriteMetricsToJsonFile, P!Last, PP!Last, P!Results,
     PP!Results, P!Errors, PP!Errors, P!Refusals, PP!Refusals
<1>4. P!BeginRetryPass = PP!BeginRetryPass /\ P!SkipStore = PP!SkipStore
  BY DEF P!BeginRetryPass, PP!BeginRetryPass, P!SkipStore, PP!SkipStore, P!MayRetry,
     PP!MayRetry
<1> USE DEF P!LeaveRetryQueue, PP!LeaveRetryQueue, P!Retrying, PP!Retrying, P!MayRetry,
    PP!MayRetry, P!StopsRetry, PP!StopsRetry, P!Refusals, PP!Refusals, P!MaySurvive,
    PP!MaySurvive, P!Reconnects, PP!Reconnects
<1>5. P!RetrySucceeds = PP!RetrySucceeds
  BY SameSends DEF P!RetrySucceeds, PP!RetrySucceeds
<1>6. P!RetryFails = PP!RetryFails
  BY SameSends DEF P!RetryFails, PP!RetryFails
<1>7. P!RetryDies = PP!RetryDies
  BY SameSends DEF P!RetryDies, PP!RetryDies, P!Stores, PP!Stores
<1> QED
  BY <1>1, <1>2, <1>3, <1>4, <1>5, <1>6, <1>7
  DEF P!Persister, PP!Persister, P!RetryStops, PP!RetryStops

\* So they are the same specification.
LEMMA SameSpec == P!Spec <=> PP!Spec
<1>1. P!Init <=> PP!Init
  BY SameWorld
<1>2. P!Next = PP!Next
  BY SameWorld, SamePersister DEF P!Next, PP!Next
<1>3. [P!Next]_P!vars <=> [PP!Next]_PP!vars
  BY <1>2 DEF P!vars, PP!vars, P!control, PP!control, P!history, PP!history
<1> QED
  BY <1>1, <1>3, PTL DEF P!Spec, PP!Spec

\* A store's data in flight, in its queue and gone are the same in both.
LEMMA SameFates ==
  /\ P!Stores = PP!Stores
  /\ \A q : P!DataIn(q) = PP!DataIn(q)
  /\ \A i : /\ P!InFlight(i) = PP!InFlight(i)
           /\ P!Queued(i) = PP!Queued(i)
           /\ P!Gone(i) = PP!Gone(i)
BY DEF P!Stores, PP!Stores, P!DataIn, PP!DataIn, P!InFlight, PP!InFlight, P!Queued,
   PP!Queued, P!Gone, PP!Gone

\* What is gathered is the batches flushed so far, then what the batcher holds,
\* then what waits for it.
LEMMA GatheredInSequence ==
  ASSUME PipelineInv
  PROVE  1 .. gathered = (1 .. flushed) \cup batch \cup msg \cup P!DataIn(buffered_storage_ch)
<1>1. PICK b \in 0 .. MaxItems, r \in 0 .. MaxItems : InSequence(b, r)
  BY DEF PipelineInv
<1>2. /\ batch = (flushed + 1) .. b
      /\ msg = (b + 1) .. r
      /\ P!DataIn(buffered_storage_ch) = (r + 1) .. gathered
      /\ flushed <= b /\ b <= r /\ r <= gathered
  BY <1>1 DEF InSequence, Consecutive
<1>3. flushed \in Nat /\ b \in Nat /\ r \in Nat /\ gathered \in Nat
  BY <1>1, BatcherAssumption, PersisterAssumption DEF PipelineInv
<1> QED
  BY <1>2, <1>3

\* No message is lost between the gatherers and the stores while the process lives, whatever
\* the sizes of batches, channels and retry queues and whatever the stores do.
THEOREM GatheredIsAccountedFor == Spec => []AllAccountedFor
<1>1. PP!PersisterAssumption
  BY PersisterAssumption DEF PersisterAssumption, PP!PersisterAssumption, Datastores,
     PP!Datastores
<1>2. Spec => PP!Spec
  BY PipelineImplementsPersister, SameSpec, PTL DEF ImplementsPersister
<1>3. Spec => []StorageInv
  BY StorageInvInit, StorageInvStep, PTL DEF Spec
<1>4. PP!Spec => []PP!ChannelHoldsRest
  BY <1>1, PP!ChannelAlwaysHoldsRest
<1>5. PP!Spec => []PP!NothingVanishes
  BY <1>1, PP!NothingEverVanishes
<1>6. StorageInv /\ PP!ChannelHoldsRest /\ PP!NothingVanishes => AllAccountedFor
  <2> SUFFICES ASSUME StorageInv, PP!ChannelHoldsRest, PP!NothingVanishes, pc # "dead",
                      NEW i \in P!Stores
               PROVE  1 .. gathered = P!DataIn(buffered_storage_ch) \cup msg \cup batch
                        \cup P!DataIn(storage_ch) \cup P!InFlight(i) \cup P!Queued(i)
                        \cup P!Gone(i)
    BY DEF AllAccountedFor
  <2>1. received = P!InFlight(i) \cup P!Queued(i) \cup P!Gone(i)
    BY SameFates DEF PP!NothingVanishes
  <2>2. 1 .. flushed = received \cup P!DataIn(storage_ch)
    BY SameFates DEF PP!ChannelHoldsRest
  <2> QED
    BY <2>1, <2>2, GatheredInSequence DEF StorageInv
<1> QED
  BY <1>2, <1>3, <1>4, <1>5, <1>6, PTL

\* A store that takes a batch wholly or not at all gets the gatherers' messages
\* in their order: neither the batcher nor a backlog lets one overtake another.
THEOREM GatheredStaysInOrder == ASSUME PP!Atomic PROVE Spec => []InOrder
<1>1. PP!PersisterAssumption
  BY PersisterAssumption DEF PersisterAssumption, PP!PersisterAssumption, Datastores,
     PP!Datastores
<1>2. Spec => PP!Spec
  BY PipelineImplementsPersister, SameSpec, PTL DEF ImplementsPersister
<1>3. PP!Spec => []PP!InOrder
  BY <1>1, PP!DeliveredInOrder
<1>4. PP!InOrder => InOrder
  BY SameFates DEF InOrder, P!InOrder, PP!InOrder, P!Before, PP!Before, P!Ordered, PP!Ordered
<1> QED
  BY <1>2, <1>3, <1>4, PTL

\* Such a store gets no message a second time once it has a fate, and a message in flight is
\* not queued.
THEOREM GatheredInOnePlace == ASSUME PP!Atomic PROVE Spec => []ExactlyOnePlace
<1>1. PP!PersisterAssumption
  BY PersisterAssumption DEF PersisterAssumption, PP!PersisterAssumption, Datastores,
     PP!Datastores
<1>2. Spec => PP!Spec
  BY PipelineImplementsPersister, SameSpec, PTL DEF ImplementsPersister
<1>3. PP!Spec => []PP!ExactlyOnePlace
  BY <1>1, PP!EachDatumInOnePlace
<1>4. PP!ExactlyOnePlace => ExactlyOnePlace
  BY SameFates DEF ExactlyOnePlace, P!ExactlyOnePlace, PP!ExactlyOnePlace
<1> QED
  BY <1>2, <1>3, <1>4, PTL

\* With the batcher as producer no retry queue outgrows PERSIST_QUEUE_MAX_SIZE.
THEOREM QueuesStayBounded == Spec => []QueueBounded
<1>1. PP!PersisterAssumption
  BY PersisterAssumption DEF PersisterAssumption, PP!PersisterAssumption, Datastores,
     PP!Datastores
<1>2. Spec => PP!Spec
  BY PipelineImplementsPersister, SameSpec, PTL DEF ImplementsPersister
<1>3. PP!Spec => []PP!QueueBounded
  BY <1>1, PP!QueueIsBounded
<1>4. PP!QueueBounded => QueueBounded
  BY SameFates DEF QueueBounded, P!QueueBounded, PP!QueueBounded
<1> QED
  BY <1>2, <1>3, <1>4, PTL

\* To the stores the pipeline is a bounded queue for each, too.
THEOREM PipelineImplementsDelivery == Spec => PP!ImplementsDelivery
<1>1. PP!PersisterAssumption
  BY PersisterAssumption DEF PersisterAssumption, PP!PersisterAssumption, Datastores,
     PP!Datastores
<1>2. Spec => PP!Spec
  BY PipelineImplementsPersister, SameSpec, PTL DEF ImplementsPersister
<1>3. PP!Spec => PP!ImplementsDelivery
  BY <1>1, PP!PersisterImplementsDelivery
<1> QED
  BY <1>2, <1>3, PTL

-----------------------------------------------------------------------------
(* Types.                                                                  *)

CounterInv == tick \in BOOLEAN /\ datapointCounter \in Nat

\* The message that is taken next has a number of datapoints.
LEMMA NextMessage ==
  ASSUME PipelineInv, msg # {}
  PROVE  Datapoints[Min(msg)] \in Nat
<1> USE BatcherAssumption, PersisterAssumption
<1>1. PICK b \in 0 .. MaxItems, r \in 0 .. MaxItems : msg = (b + 1) .. r
  BY DEF PipelineInv, InSequence
<1>2. b + 1 \in msg /\ b + 1 \in 1 .. MaxItems /\ \A y \in msg : b + 1 <= y
  BY <1>1
<1>3. \A x \in msg : (\A y \in msg : x <= y) => x = b + 1
  BY <1>1, <1>2
<1>4. Min(msg) = b + 1
  BY <1>2, <1>3 DEF Min
<1> QED
  BY <1>2, <1>4 DEF BatcherAssumption, PersisterAssumption

\* The counter counts.
LEMMA CounterInvStep == StorageInv /\ CounterInv /\ [Next]_vars => CounterInv'
<1> SUFFICES ASSUME StorageInv, CounterInv, [Next]_vars PROVE CounterInv'
  OBVIOUS
<1> USE DEF CounterInv
<1>1. CASE AppendMessage
  <2>1. msg # {} /\ PipelineInv
    BY <1>1 DEF AppendMessage, PipelineInv, StorageInv, Stopped
  <2>2. datapointCounter' = datapointCounter + Datapoints[Min(msg)] /\ tick' = tick
    BY <1>1 DEF AppendMessage
  <2> QED
    BY <2>1, <2>2, NextMessage
<1>2. CASE StoreMetrics \/ Tick \/ ReceiveTick \/ ReceiveMsg \/ Flush
  <2>1. datapointCounter' \in {datapointCounter, 0}
    BY <1>2 DEF StoreMetrics, Tick, ReceiveTick, ReceiveMsg, Flush, batcher
  <2>2. tick' = tick \/ tick' = TRUE \/ tick' = FALSE
    BY <1>2 DEF StoreMetrics, Tick, ReceiveTick, ReceiveMsg, Flush, batcher
  <2>3. datapointCounter' \in Nat
    BY <2>1
  <2>4. tick' \in BOOLEAN
    BY <2>2, Zenon
  <2> QED
    BY <2>3, <2>4
<1>3. CASE PersisterStep \/ UNCHANGED vars
  <2>1. /\ tick' = tick \/ tick' = FALSE
        /\ datapointCounter' \in {datapointCounter, 0}
    BY <1>3, PersisterStepIs DEF vars, batcher
  <2>2. datapointCounter' \in Nat
    BY <2>1
  <2>3. tick' \in BOOLEAN
    BY <2>1, Zenon
  <2> QED
    BY <2>2, <2>3
<1> QED
  BY <1>1, <1>2, <1>3 DEF Next, BatcherStep, Batcher

\* The variables of batcher, persister and the channels between them keep their types:
\* those of the persister through the refinement.
THEOREM StorageTypesOK == Spec => []TypeOK
<1>1. Spec => []P!TypeOK
  <2>1. PP!PersisterAssumption
    BY PersisterAssumption DEF PersisterAssumption, PP!PersisterAssumption, Datastores,
       PP!Datastores
  <2>2. PP!Spec => []PP!TypeOK
    BY <2>1, PP!TypeCorrect
  <2>3. PP!TypeOK <=> P!TypeOK
    BY DEF P!TypeOK, PP!TypeOK, P!Stores, PP!Stores, P!Data, PP!Data
  <2> QED
    BY <2>2, <2>3, SameSpec, PipelineImplementsPersister, PTL DEF ImplementsPersister
<1>2. Init => CounterInv
  <2>1. Init => tick = FALSE /\ datapointCounter = 0
    BY Zenon DEF Init, BatcherInit
  <2>2. 0 \in Nat
    OBVIOUS
  <2> QED
    BY <2>1, <2>2, Zenon DEF CounterInv
<1>3. P!TypeOK /\ StorageInv /\ CounterInv => TypeOK
  <2> SUFFICES ASSUME P!TypeOK, StorageInv, CounterInv PROVE TypeOK
    OBVIOUS
  <2>1. CASE pc # "dead"
    <3>1. PipelineInv
      BY <2>1 DEF StorageInv
    <3>2. msg \in SUBSET (1 .. MaxItems) /\ batch \in SUBSET (1 .. MaxItems)
      BY <3>1, BatcherAssumption, PersisterAssumption DEF PipelineInv, InSequence
    <3> QED
      BY <3>1, <3>2 DEF TypeOK, PipelineInv, CounterInv
  <2>2. CASE pc = "dead"
    BY <2>2 DEF StorageInv, Stopped, TypeOK, P!TypeOK, CounterInv
  <2> QED
    BY <2>1, <2>2
<1> QED
  BY <1>1, <1>2, <1>3, StorageInvInit, StorageInvStep, CounterInvStep, PTL DEF Spec

-----------------------------------------------------------------------------
(* The datapoints in a batch.  MapThenSumSet is a function on the subsets  *)
(* of the batch, defined by recursion: it is shown to exist, not to depend *)
(* on the order in which messages are taken, and to grow by a message's    *)
(* datapoints.  Each is an induction, by a smallest counterexample.        *)

\* Of sets of messages some are the smallest: what is used here for induction.
LEMMA SmallestSet ==
  ASSUME NEW S, IsFiniteSet(S), NEW F \in SUBSET (SUBSET S), F # {}
  PROVE  \E T \in F : \A U \in F : U \subseteq T => U = T
<1>1. IsWellFoundedOn(StrictSubsetOrdering(S), SUBSET S)
  BY FS_StrictSubsetOrderingWellFounded, FS_FiniteSubsetsOfFinite
<1>2. PICK T \in F : \A U \in F : <<U, T>> \notin StrictSubsetOrdering(S)
  BY <1>1, WFMin
<1> QED
  BY <1>2 DEF StrictSubsetOrdering

\* The message that a sum takes first.
First(s) == CHOOSE m \in s : TRUE

\* g is a sum over the subsets of S, taken as MapThenSumSet does.
IsSum(g, S) ==
  g = [s \in SUBSET S |-> IF s = {} THEN 0 ELSE Datapoints[First(s)] + g[s \ {First(s)}]]

\* What MapThenSumSet is, for a batch.
LEMMA PointsInIsSum == \A b : PointsIn(b) = (CHOOSE g : IsSum(g, b))[b]
BY DEF PointsIn, MapThenSumSet, MapThenFoldSet, IsSum, First

\* Sums agree where they are defined.
LEMMA SumsAgree ==
  ASSUME NEW S, NEW T, NEW g, NEW h, IsSum(g, S), IsSum(h, T), IsFiniteSet(S),
         NEW u \in SUBSET (S \cap T)
  PROVE  g[u] = h[u]
<1> DEFINE Bad == {v \in SUBSET S : v \subseteq T /\ g[v] # h[v]}
<1> SUFFICES ASSUME Bad # {} PROVE FALSE
  OBVIOUS
<1>1. PICK v \in Bad : \A w \in Bad : w \subseteq v => w = v
  <2>1. Bad \in SUBSET (SUBSET S)
    OBVIOUS
  <2> HIDE DEF Bad
  <2> QED BY <2>1, SmallestSet
<1> DEFINE rest == v \ {First(v)}
<1>2. v # {}
  BY <1>1 DEF IsSum
<1>3. First(v) \in v
  BY <1>2 DEF First
<1>4. rest \in SUBSET S /\ rest \in SUBSET T /\ rest # v
  BY <1>1, <1>3
<1>5. g[rest] = h[rest]
  BY <1>1, <1>4
<1>6. g[v] = Datapoints[First(v)] + g[rest] /\ h[v] = Datapoints[First(v)] + h[rest]
  BY <1>1, <1>2 DEF IsSum
<1> QED
  BY <1>1, <1>5, <1>6

\* Every finite set has a sum over its subsets: that of a set is made from those of the
\* smaller ones.
LEMMA SumExists ==
  ASSUME NEW S, IsFiniteSet(S)
  PROVE  \E g : IsSum(g, S)
<1> DEFINE Bad == {T \in SUBSET S : ~ \E g : IsSum(g, T)}
<1> SUFFICES ASSUME Bad # {} PROVE FALSE
  OBVIOUS
<1>1. PICK T \in Bad : \A U \in Bad : U \subseteq T => U = T
  <2>1. Bad \in SUBSET (SUBSET S)
    OBVIOUS
  <2> HIDE DEF Bad
  <2> QED BY <2>1, SmallestSet
<1> DEFINE sum(U) == CHOOSE g : IsSum(g, U)
           rest(s) == s \ {First(s)}
           g == [s \in SUBSET T |-> IF s = {} THEN 0
                                    ELSE Datapoints[First(s)] + sum(rest(s))[rest(s)]]
<1>2. \A U \in SUBSET T : U # T => IsSum(sum(U), U)
  BY <1>1
<1>3. \A s \in SUBSET T : s # {} => rest(s) \in SUBSET T /\ rest(s) # T /\ First(s) \in s
  BY DEF First
<1>4. ASSUME NEW s \in SUBSET T, s # T PROVE g[s] = sum(s)[s]
  <2>1. IsSum(sum(s), s)
    BY <1>2, <1>4
  <2> HIDE DEF sum
  <2>2. sum(s)[s] = IF s = {} THEN 0 ELSE Datapoints[First(s)] + sum(s)[rest(s)]
    BY <2>1 DEF IsSum
  <2>3. s # {} => sum(s)[rest(s)] = sum(rest(s))[rest(s)]
    <3>1. IsFiniteSet(s)
      BY <1>1, FS_Subset
    <3>2. s # {} => IsSum(sum(rest(s)), rest(s)) /\ rest(s) \in SUBSET (s \cap rest(s))
      BY <1>2, <1>3
    <3> QED
      BY <2>1, <3>1, <3>2, SumsAgree
  <2> QED
    BY <2>2, <2>3
<1>5. \A s \in SUBSET T : s # {} => g[rest(s)] = sum(rest(s))[rest(s)]
  <2> HIDE DEF g, sum
  <2> QED BY <1>3, <1>4
<1>6. IsSum(g, T)
  <2>1. \A s \in SUBSET T : g[s] = IF s = {} THEN 0 ELSE Datapoints[First(s)] + g[rest(s)]
    <3> HIDE DEF sum
    <3> QED BY <1>5
  <2>2. DOMAIN g = SUBSET T /\ g = [s \in SUBSET T |-> g[s]]
    OBVIOUS
  <2> HIDE DEF g
  <2> QED BY <2>1, <2>2 DEF IsSum
<1> QED
  BY <1>1, <1>6

\* No messages have no datapoints.
LEMMA PointsInEmpty == PointsIn({}) = 0
<1>1. IsFiniteSet({})
  BY FS_EmptySet
<1>2. PICK g : IsSum(g, {})
  BY <1>1, SumExists
<1>3. IsSum(CHOOSE h : IsSum(h, {}), {})
  BY <1>2
<1> QED
  BY <1>3, PointsInIsSum DEF IsSum

\* A set has the datapoints of its first message and those of the others.
LEMMA PointsInFirst ==
  ASSUME NEW S, IsFiniteSet(S), S # {}
  PROVE  PointsIn(S) = Datapoints[First(S)] + PointsIn(S \ {First(S)})
<1> DEFINE rest == S \ {First(S)}
           g == CHOOSE h : IsSum(h, S)
           r == CHOOSE h : IsSum(h, rest)
<1>1. IsFiniteSet(rest)
  BY FS_Subset
<1>2. IsSum(g, S)
  BY SumExists
<1>3. IsSum(r, rest)
  BY <1>1, SumExists
<1>4. PointsIn(S) = g[S] /\ PointsIn(rest) = r[rest]
  BY PointsInIsSum
<1> HIDE DEF g, r
<1>5. g[S] = Datapoints[First(S)] + g[rest]
  BY <1>2 DEF IsSum
<1>6. g[rest] = r[rest]
  BY <1>2, <1>3, SumsAgree
<1> QED
  BY <1>4, <1>5, <1>6

\* Any messages have a number of datapoints, none less than zero.
LEMMA PointsInNat ==
  ASSUME NEW S \in SUBSET (1 .. MaxItems)
  PROVE  PointsIn(S) \in Nat /\ IsFiniteSet(S)
<1>0. MaxItems \in Nat /\ \A m \in 1 .. MaxItems : Datapoints[m] \in Nat
  BY BatcherAssumption, PersisterAssumption
     DEF BatcherAssumption, PersisterAssumption
<1> DEFINE I == 1 .. MaxItems
           Bad == {T \in SUBSET I : PointsIn(T) \notin Nat}
<1>1. IsFiniteSet(I) /\ \A T \in SUBSET I : IsFiniteSet(T)
  <2>1. IsFiniteSet(I)
    BY <1>0, FS_Interval
  <2> HIDE DEF I
  <2> QED BY <2>1, FS_Subset
<1>2. ASSUME Bad # {} PROVE FALSE
  <2>1. Bad \in SUBSET (SUBSET I)
    OBVIOUS
  <2>2. PICK T \in Bad : \A U \in Bad : U \subseteq T => U = T
    <3> HIDE DEF Bad, I
    <3> QED BY <1>1, <1>2, <2>1, SmallestSet
  <2>3. T \in SUBSET I /\ PointsIn(T) \notin Nat
    BY <2>2
  <2>4. T # {}
    <3>1. PointsIn({}) \in Nat
      BY PointsInEmpty
    <3> QED BY <2>3, <3>1, Zenon
  <2>5. First(T) \in T
    BY <2>4 DEF First
  <2>6. PointsIn(T \ {First(T)}) \in Nat
    <3>1. T \ {First(T)} \in SUBSET I /\ T \ {First(T)} \subseteq T /\ T \ {First(T)} # T
      BY <2>3, <2>5
    <3> HIDE DEF I
    <3> QED BY <2>2, <3>1
  <2>7. Datapoints[First(T)] \in Nat
    BY <1>0, <2>3, <2>5
  <2>8. PointsIn(T) = Datapoints[First(T)] + PointsIn(T \ {First(T)})
    BY <1>1, <2>4, <2>3, PointsInFirst
  <2> QED
    BY <2>3, <2>6, <2>7, <2>8
<1> QED
  BY <1>1, <1>2

\* It makes no difference which message is taken out.
LEMMA PointsInRemove ==
  ASSUME NEW S \in SUBSET (1 .. MaxItems), NEW m \in S
  PROVE  PointsIn(S) = Datapoints[m] + PointsIn(S \ {m})
<1>0. MaxItems \in Nat /\ \A k \in 1 .. MaxItems : Datapoints[k] \in Nat
  BY BatcherAssumption, PersisterAssumption
     DEF BatcherAssumption, PersisterAssumption
<1> DEFINE I == 1 .. MaxItems
           Bad == {T \in SUBSET I : \E x \in T : PointsIn(T) # Datapoints[x] + PointsIn(T \ {x})}
<1> SUFFICES ASSUME Bad # {} PROVE FALSE
  OBVIOUS
<1>1. PICK T \in Bad : \A U \in Bad : U \subseteq T => U = T
  <2>1. Bad \in SUBSET (SUBSET I) /\ IsFiniteSet(I)
    BY <1>0, FS_Interval
  <2> HIDE DEF Bad, I
  <2> QED BY <2>1, SmallestSet
<1>2. PICK x \in T : PointsIn(T) # Datapoints[x] + PointsIn(T \ {x})
  BY <1>1
<1> DEFINE y == First(T)
           rest == T \ {x, y}
<1>3. y \in T
  BY <1>2 DEF First
<1>4. PointsIn(T) = Datapoints[y] + PointsIn(T \ {y})
  BY <1>1, <1>2, PointsInNat, PointsInFirst
<1> HIDE DEF y
<1>5. x # y
  BY <1>2, <1>4
<1>6. PointsIn(T \ {y}) = Datapoints[x] + PointsIn(rest)
  <2>1. T \ {y} \notin Bad /\ x \in T \ {y} /\ T \ {y} \in SUBSET I /\ (T \ {y}) \ {x} = rest
    BY <1>1, <1>3, <1>5
  <2> QED BY <2>1
<1>7. PointsIn(T \ {x}) = Datapoints[y] + PointsIn(rest)
  <2>1. T \ {x} \notin Bad /\ y \in T \ {x} /\ T \ {x} \in SUBSET I /\ (T \ {x}) \ {y} = rest
    BY <1>1, <1>2, <1>3, <1>5
  <2> QED BY <2>1
<1>8. PointsIn(rest) \in Nat /\ Datapoints[x] \in Nat /\ Datapoints[y] \in Nat
  BY <1>0, <1>1, <1>2, <1>3, PointsInNat
<1> QED
  BY <1>2, <1>4, <1>6, <1>7, <1>8

-----------------------------------------------------------------------------
(* The size of batches.                                                    *)

\* But for its last message a set of messages is within the limit.
Limited(b) == b # {} => PointsIn(b \ {Max(b)}) <= maxBatchSize

\* The counter is of the batch, which is within the limit unless it is being flushed.
LimitInv ==
  /\ datapointCounter = PointsIn(batch)
  /\ at # "flush" => PointsIn(batch) <= maxBatchSize
  /\ Limited(batch)
  /\ \A k \in DOMAIN storage_ch : Limited(storage_ch[k])

\* The invariant holds at the beginning.
LEMMA LimitInvInit == Init => LimitInv
<1> SUFFICES ASSUME Init PROVE LimitInv
  OBVIOUS
<1>1. batch = {} /\ datapointCounter = 0 /\ storage_ch = <<>>
  BY DEF Init, BatcherInit
<1> QED
  BY <1>1, PointsInEmpty, BatcherAssumption, PersisterAssumption
     DEF BatcherAssumption, PersisterAssumption, LimitInv, Limited

\* The message that is taken next comes after the batch.
LEMMA NextIsLast ==
  ASSUME PipelineInv, msg # {}
  PROVE  /\ Min(msg) \in 1 .. MaxItems
         /\ batch \in SUBSET (1 .. MaxItems)
         /\ Min(msg) \notin batch
         /\ Max(batch \cup {Min(msg)}) = Min(msg)
<1>0. MaxItems \in Nat
  BY BatcherAssumption, PersisterAssumption
     DEF BatcherAssumption, PersisterAssumption
<1>1. PICK b \in 0 .. MaxItems, r \in 0 .. MaxItems : InSequence(b, r)
  BY DEF PipelineInv
<1>2. /\ flushed \in Nat /\ flushed <= b
      /\ batch = (flushed + 1) .. b
      /\ msg = (b + 1) .. r
  BY <1>0, <1>1 DEF PipelineInv, InSequence
<1>3. b + 1 \in msg /\ b + 1 \in 1 .. MaxItems /\ \A y \in msg : b + 1 <= y
  BY <1>0, <1>2
<1>4. Min(msg) = b + 1
  <2>1. \A x \in msg : (\A y \in msg : x <= y) => x = b + 1
    BY <1>0, <1>2, <1>3
  <2> QED
    BY <1>3, <2>1 DEF Min
<1> DEFINE more == batch \cup {b + 1}
<1>5. b + 1 \in more /\ \A y \in more : y <= b + 1
  BY <1>0, <1>2
<1>6. Max(more) = b + 1
  <2>1. \A x \in more : (\A y \in more : y <= x) => x = b + 1
    BY <1>0, <1>2, <1>5
  <2> HIDE DEF more
  <2> QED
    BY <1>5, <2>1 DEF Max
<1>7. b + 1 \notin batch /\ batch \in SUBSET (1 .. MaxItems)
  BY <1>0, <1>2
<1> QED
  BY <1>3, <1>4, <1>6, <1>7

\* The persister takes from the channel, or ends it.
LEMMA PersisterOnlyTakes ==
  ASSUME PersisterStep
  PROVE  \/ storage_ch' = storage_ch
         \/ storage_ch # <<>> /\ storage_ch' = Tail(storage_ch)
         \/ storage_ch' = <<>>
<1>1. CASE P!Receive
  BY <1>1 DEF P!Receive
<1>2. CASE ~P!Receive
  BY <1>2 DEF PersisterStep, PersisterRuns, TimePasses, P!Persister, P!HealthChange,
     P!TenSecondsPass, P!QueueBehindBacklog, P!SendDirectly, P!BeginRetryPass, P!SkipStore,
     P!RetrySucceeds, P!RetryStops, P!RetryFails, P!RetryDies, P!env
<1> QED
  BY <1>1, <1>2

\* Every step preserves it.
LEMMA LimitInvStep == TypeOK /\ StorageInv /\ LimitInv /\ [Next]_vars => LimitInv'
<1> SUFFICES ASSUME TypeOK, StorageInv, LimitInv, [Next]_vars PROVE LimitInv'
  OBVIOUS
<1>0. maxBatchSize \in Nat /\ storage_ch \in Seq(SUBSET (1 .. MaxItems))
  BY BatcherAssumption, PersisterAssumption
     DEF BatcherAssumption, PersisterAssumption, TypeOK, P!TypeOK, P!Data
<1>1. CASE AppendMessage
  <2>1. msg # {} /\ at = "append" /\ PipelineInv
    BY <1>1 DEF AppendMessage, PipelineInv, StorageInv, Stopped
  <2> DEFINE m == Min(msg)
  <2>2. /\ batch' = batch \cup {m} /\ storage_ch' = storage_ch
        /\ datapointCounter' = datapointCounter + Datapoints[m]
        /\ at' # "flush" => ~Exceeds(datapointCounter, Datapoints[m])
    BY <1>1 DEF AppendMessage
  <2>3. /\ m \in 1 .. MaxItems
        /\ batch \in SUBSET (1 .. MaxItems) /\ m \notin batch
        /\ Max(batch \cup {m}) = m
    BY <2>1, NextIsLast
  <2> HIDE DEF m
  <2>4. Datapoints[m] \in Nat /\ PointsIn(batch) \in Nat
    BY <2>3, PointsInNat, BatcherAssumption, PersisterAssumption
     DEF BatcherAssumption, PersisterAssumption
  <2>5. (batch \cup {m}) \ {m} = batch /\ batch \cup {m} \in SUBSET (1 .. MaxItems)
    BY <2>3
  <2>6. PointsIn(batch \cup {m}) = Datapoints[m] + PointsIn(batch)
    BY <2>3, <2>5, PointsInRemove
  <2>7. datapointCounter' = PointsIn(batch \cup {m})
    BY <2>2, <2>4, <2>6 DEF LimitInv
  <2>8. Limited(batch \cup {m})
    BY <2>1, <2>3, <2>5 DEF LimitInv, Limited
  <2>9. at' # "flush" => PointsIn(batch \cup {m}) <= maxBatchSize
    BY <1>0, <2>2, <2>4, <2>6 DEF LimitInv, Exceeds
  <2> QED
    BY <2>2, <2>7, <2>8, <2>9 DEF LimitInv
<1>2. CASE Flush
  <2>1. storage_ch' = Append(storage_ch, batch) /\ batch' = {} /\ datapointCounter' = 0
    BY <1>2 DEF Flush
  <2>2. \A k \in DOMAIN storage_ch' :
          storage_ch'[k] = batch \/ (k \in DOMAIN storage_ch /\ storage_ch'[k] = storage_ch[k])
    <3>1. batch \in SUBSET (1 .. MaxItems)
      BY DEF TypeOK
    <3> QED
      BY <1>0, <2>1, <3>1
  <2>3. \A k \in DOMAIN storage_ch' : Limited(storage_ch'[k])
    BY <2>2 DEF LimitInv
  <2>4. Limited({})
    BY DEF Limited
  <2> QED
    BY <1>0, <2>1, <2>3, <2>4, PointsInEmpty DEF LimitInv
<1>3. CASE StoreMetrics \/ Tick \/ ReceiveTick \/ ReceiveMsg
  <2>1. UNCHANGED <<storage_ch, batch, datapointCounter>> /\ (at' # "flush" => at # "flush")
    BY <1>3 DEF StoreMetrics, Tick, ReceiveTick, ReceiveMsg, batcher
  <2> QED
    BY <2>1 DEF LimitInv
<1>4. CASE PersisterStep
  <2>1. \/ UNCHANGED <<at, batch, datapointCounter>>
        \/ batch' = {} /\ at' = "select" /\ datapointCounter' = 0
    BY <1>4, PersisterStepIs DEF batcher
  <2>3. Limited({})
    BY DEF Limited
  <2>2. \A k \in DOMAIN storage_ch' : \E j \in DOMAIN storage_ch : storage_ch'[k] = storage_ch[j]
    BY <1>0, <1>4, PersisterOnlyTakes
  <2>4. \A k \in DOMAIN storage_ch' : Limited(storage_ch'[k])
    BY <2>2 DEF LimitInv
  <2>5. CASE UNCHANGED <<at, batch, datapointCounter>>
    BY <2>4, <2>5 DEF LimitInv
  <2>6. CASE batch' = {} /\ at' = "select" /\ datapointCounter' = 0
    <3>1. PointsIn({}) <= maxBatchSize
      BY <1>0, PointsInEmpty
    <3>2. batch' = {}
      BY <2>6
    <3>3. /\ datapointCounter' = PointsIn(batch')
          /\ PointsIn(batch') <= maxBatchSize
          /\ Limited(batch')
      BY <2>3, <2>6, <3>1, PointsInEmpty
    <3> QED
      BY <2>4, <3>3 DEF LimitInv
  <2> QED
    BY <2>1, <2>5, <2>6
<1>5. CASE UNCHANGED vars
  BY <1>5 DEF LimitInv, vars, batcher
<1> QED
  BY <1>1, <1>2, <1>3, <1>4, <1>5 DEF Next, BatcherStep, Batcher

\* MetricsBatcher flushes as soon as the limit is passed, not a message later, and
\* otherwise only for a tick: of any messages, with any numbers of datapoints, a batch
\* is within maxBatchSize without its last message.
THEOREM BatchesAreLimited == Spec => []BatchesLimited
<1>1. LimitInv => BatchesLimited
  <2> SUFFICES ASSUME LimitInv, NEW k \in DOMAIN storage_ch, storage_ch[k] = {}
               PROVE  PointsIn({} \ {Max({})}) <= maxBatchSize
    BY DEF LimitInv, Limited, BatchesLimited
  <2>1. {} \ {Max({})} = {}
    OBVIOUS
  <2> QED
    BY <2>1, PointsInEmpty, BatcherAssumption, PersisterAssumption
     DEF BatcherAssumption, PersisterAssumption
<1> QED
  BY <1>1, StorageTypesOK, StorageInvInit, StorageInvStep, LimitInvInit, LimitInvStep, PTL
  DEF Spec
=============================================================================
