--------------------------- MODULE MetricsStorage ---------------------------
(***************************************************************************)
(* The path of a metric from a gatherer to the stores: the batcher and the *)
(* persister, which share storage_ch.  To the persister the batcher looks  *)
(* like its producer: the pipeline implements MetricsPersister.            *)
(***************************************************************************)
EXTENDS MetricsBatcher

VARIABLES
  health, cooled, retry_queue, in_error, pc, cur, msg_arr, iterations_done,
  received, written, dropped, rejected, lost

\* What the batcher has flushed is what the persister sees produced.
P == INSTANCE MetricsPersister WITH produced <- flushed, MaxBatch <- MaxItems

\* The persister's variables and its environment's, storage_ch aside.
persister == <<health, cooled, retry_queue, in_error, pc, cur, msg_arr,
               iterations_done, received, written, dropped, rejected, lost>>

vars == <<buffered_storage_ch, storage_ch, gathered, flushed, batcher, persister>>

Init == BatcherInit /\ P!Init

\* Gatherers and batcher are goroutines of the process that the persister may end.
BatcherStep == pc # "dead" /\ (StoreMetrics \/ Tick \/ Batcher) /\ UNCHANGED persister

\* When the persister ends the process, what is on its way to it is gone too.
BatcherGoesOn ==
  /\ IF pc # "dead" /\ pc' = "dead"
     THEN /\ buffered_storage_ch' = <<>> /\ msg' = {} /\ batch' = {}
          /\ at' = "select" /\ tick' = FALSE /\ datapointCounter' = 0
     ELSE UNCHANGED <<buffered_storage_ch, batcher>>
  /\ UNCHANGED <<gathered, flushed>>

PersisterRuns == P!Persister /\ BatcherGoesOn

TimePasses(i) == P!TenSecondsPass(i) /\ BatcherGoesOn

PersisterStep ==
  \/ PersisterRuns
  \/ \E i \in P!Stores : TimePasses(i) \/ (P!HealthChange(i) /\ BatcherGoesOn)

Next == BatcherStep \/ PersisterStep

Spec == Init /\ [][Next]_vars

\* Both goroutines run, and time passes.  A select picks at random among the
\* cases that are ready, so that ticks cannot keep the batcher from its channel.
Fairness ==
  /\ SF_vars(BatcherStep /\ ReceiveMsg)
  /\ WF_vars(BatcherStep /\ Batcher)
  /\ WF_vars(BatcherStep /\ Tick)
  /\ WF_vars(PersisterRuns)
  /\ \A i \in P!Stores : WF_vars(TimePasses(i))

FairSpec == Spec /\ Fairness

-----------------------------------------------------------------------------
(* Properties.                                                             *)

TypeOK ==
  /\ P!TypeOK
  /\ buffered_storage_ch \in Seq(SUBSET (1 .. MaxItems))
  /\ gathered \in 0 .. MaxItems
  /\ flushed \in 0 .. MaxItems
  /\ tick \in BOOLEAN
  /\ at \in {"select", "append", "flush"}
  /\ msg \in SUBSET (1 .. MaxItems)
  /\ batch \in SUBSET (1 .. MaxItems)
  /\ datapointCounter \in Nat

\* The batcher produces what the persister takes for granted: batches that are
\* not empty, hold consecutive messages, and continue where the last one ended,
\* so that no message is skipped, repeated or overtaken between the gatherers
\* and the persister.
ImplementsPersister == P!Spec

\* As long as the process lives, whatever was gathered is, for each store, in one of
\* the places between the gatherers and that store, or has a known fate there: no
\* hand-over between the two channels, the two goroutines and the retry queues loses
\* a message.
AllAccountedFor ==
  pc # "dead" =>
    \A i \in P!Stores :
      1 .. gathered = P!DataIn(buffered_storage_ch) \cup msg \cup batch
                        \cup P!DataIn(storage_ch) \cup P!InFlight(i) \cup P!Queued(i)
                        \cup P!Gone(i)

PointsIn(b) == MapThenSumSet(LAMBDA m : Datapoints[m], b)

\* A batch is flushed as soon as it exceeds maxBatchSize datapoints, not one
\* message later, and never for another reason than that or a tick: without its
\* last message any batch is within the limit, and what waits for a tick is too.
BatchesLimited ==
  /\ \A k \in DOMAIN storage_ch :
       PointsIn(storage_ch[k] \ {Max(storage_ch[k])}) <= maxBatchSize
  /\ at = "select" => PointsIn(batch) <= maxBatchSize

\* The persister's promises, with the batcher as its producer: see MetricsPersister.
QueueBounded == P!QueueBounded
ExactlyOnePlace == P!ExactlyOnePlace
InOrder == P!InOrder
ImplementsDelivery == P!ImplementsDelivery

\* A batch never waits for messages that may not come: if the store stays up,
\* all that was gathered ends there, or is known to be dropped or lost.
GatheredIsSettled ==
  \A i \in P!Stores : <>[](health[i] = "up") => <>[](P!Gone(i) = 1 .. gathered)
=============================================================================
