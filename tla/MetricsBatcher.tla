--------------------------- MODULE MetricsBatcher ---------------------------
(***************************************************************************)
(* MetricsBatcher (pgwatch2.go): collects what the gatherers send to       *)
(* buffered_storage_ch and passes it on to storage_ch in batches, when a   *)
(* ticker fires or when a batch holds more than maxBatchSize datapoints.   *)
(*                                                                         *)
(* A MetricStoreMessage is a number, in the order the gatherers send them; *)
(* what is sent over a channel, and a batch, is a set of them.             *)
(***************************************************************************)
EXTENDS StorageParameters, Sequences, FiniteSetsExt

CONSTANTS
  maxBatchSize,       \* datapoints (1000)
  BufferCapacity,     \* capacity of buffered_storage_ch (10000)
  MaxSend,            \* bound: messages per send
  Datapoints          \* Datapoints[m] is len(m.Data)

ASSUME BatcherAssumption ==
  /\ maxBatchSize \in Nat
  /\ BufferCapacity \in Nat \ {0}
  /\ MaxSend \in Nat \ {0}
  /\ Datapoints \in [1 .. MaxItems -> Nat]

VARIABLES
  buffered_storage_ch,
  storage_ch,
  gathered,          \* messages sent by the gatherers so far
  flushed,           \* messages passed on to storage_ch so far
  tick,              \* ticker.C holds a tick
  at,                \* where the goroutine is
  msg,               \* what is left of the received messages
  batch,
  datapointCounter

batcher == <<tick, at, msg, batch, datapointCounter>>

BatcherInit ==
  /\ buffered_storage_ch = <<>>
  /\ storage_ch = <<>>
  /\ gathered = 0
  /\ flushed = 0
  /\ tick = FALSE
  /\ at = "select"
  /\ msg = {}
  /\ batch = {}
  /\ datapointCounter = 0

\* StoreMetrics: a gatherer sends what it fetched, if anything; it blocks while
\* the channel is full.
StoreMetrics ==
  /\ Len(buffered_storage_ch) < BufferCapacity
  /\ \E k \in 1 .. MaxSend :
       /\ gathered + k <= MaxItems
       /\ gathered' = gathered + k
       /\ buffered_storage_ch' =
            Append(buffered_storage_ch, (gathered + 1) .. (gathered + k))
  /\ UNCHANGED <<storage_ch, flushed, batcher>>

\* time.Ticker: a tick that finds its channel full is dropped.
Tick ==
  /\ ~tick
  /\ tick' = TRUE
  /\ UNCHANGED <<buffered_storage_ch, storage_ch, gathered, flushed,
                 at, msg, batch, datapointCounter>>

\* A mutant of ReceiveTick: a tick flushes nothing.
IgnoreTick ==
  /\ at = "select"
  /\ tick
  /\ tick' = FALSE
  /\ UNCHANGED <<buffered_storage_ch, storage_ch, gathered, flushed,
                 at, msg, batch, datapointCounter>>

\* The select's ticker case.
ReceiveTick ==
  /\ at = "select"
  /\ tick
  /\ tick' = FALSE
  /\ at' = IF batch # {} THEN "flush" ELSE "select"
  /\ UNCHANGED <<buffered_storage_ch, storage_ch, gathered, flushed,
                 msg, batch, datapointCounter>>

\* The select's channel case.
ReceiveMsg ==
  /\ at = "select"
  /\ buffered_storage_ch # <<>>
  /\ msg' = Head(buffered_storage_ch)
  /\ buffered_storage_ch' = Tail(buffered_storage_ch)
  /\ at' = "append"
  /\ UNCHANGED <<storage_ch, gathered, flushed, tick, batch, datapointCounter>>

\* A mutant of Exceeds: the limit is tested before the message is counted.
ExceedsBefore(counter, points) == counter > maxBatchSize

\* The batch has to be flushed now.
Exceeds(counter, points) == counter + points > maxBatchSize

\* One iteration of the loop over the received messages.
AppendMessage ==
  /\ at = "append"
  /\ LET m == Min(msg) IN
       /\ msg' = msg \ {m}
       /\ batch' = batch \cup {m}
       /\ datapointCounter' = datapointCounter + Datapoints[m]
       /\ at' = CASE Exceeds(datapointCounter, Datapoints[m]) -> "flush"
                  [] OTHER -> IF msg = {m} THEN "select" ELSE "append"
  /\ UNCHANGED <<buffered_storage_ch, storage_ch, gathered, flushed, tick>>

\* A mutant of Flush: the rest of the received messages is abandoned.
FlushAndSelect ==
  /\ at = "flush"
  /\ Len(storage_ch) < ChannelCapacity
  /\ storage_ch' = Append(storage_ch, batch)
  /\ flushed' = flushed + Cardinality(batch)
  /\ batch' = {}
  /\ datapointCounter' = 0
  /\ at' = "select"
  /\ UNCHANGED <<buffered_storage_ch, gathered, tick, msg>>

\* The batch is sent, once storage_ch has room for it.
Flush ==
  /\ at = "flush"
  /\ Len(storage_ch) < ChannelCapacity
  /\ storage_ch' = Append(storage_ch, batch)
  /\ flushed' = flushed + Cardinality(batch)
  /\ batch' = {}
  /\ datapointCounter' = 0
  /\ at' = IF msg = {} THEN "select" ELSE "append"
  /\ UNCHANGED <<buffered_storage_ch, gathered, tick, msg>>

Batcher == ReceiveTick \/ ReceiveMsg \/ AppendMessage \/ Flush
=============================================================================
