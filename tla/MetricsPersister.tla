-------------------------- MODULE MetricsPersister --------------------------
(***************************************************************************)
(* MetricsPersister and ProcessRetryQueue (pgwatch2.go): the one consumer  *)
(* of the storage channel.  A batch taken from the channel is offered to   *)
(* each store in turn.  A store with a backlog gets the batch queued       *)
(* behind it, a store without one gets it at once; when the channel is     *)
(* empty the backlogs are retried, oldest batch first.                     *)
(*                                                                         *)
(* A datum is a number, in the order the gatherers produced it; a batch is *)
(* a set of data.  What happens to a datum at a store is remembered in     *)
(* written, dropped, rejected and lost, which the program does not have.   *)
(***************************************************************************)
EXTENDS StorageParameters, Sequences, FiniteSets

CONSTANT MaxBatch  \* bound: data per batch

VARIABLES
  storage_ch,      \* the channel: a sequence of batches
  produced,        \* number of data the gatherers have produced
  health,          \* health[i]: condition of store i
  cooled,          \* cooled[i]: last_try[i] is more than 10 seconds ago
  retry_queue,     \* retry_queue[i]: batches, Head is the list's Back (oldest)
  in_error,        \* in_error[i]
  pc,              \* where the goroutine is
  cur,             \* the loop variable i
  msg_arr,         \* the batch being delivered
  iterations_done, \* resends done in this call of ProcessRetryQueue
  received,        \* data taken from the channel
  written,         \* written[i]: data in store i
  dropped,         \* dropped[i]: data removed from a full queue
  rejected,        \* rejected[i]: data the store refused to parse
  lost             \* lost[i]: data given up although nothing is wrong with it

env     == <<storage_ch, produced, health, cooled>>
control == <<pc, cur, msg_arr, iterations_done>>
history == <<written, dropped, rejected, lost>>
vars    == <<storage_ch, produced, health, cooled, retry_queue, in_error,
             pc, cur, msg_arr, iterations_done,
             received, written, dropped, rejected, lost>>

Init ==
  /\ storage_ch = <<>>
  /\ produced = 0
  /\ health = [i \in Stores |-> "up"]
  /\ cooled = [i \in Stores |-> TRUE]
  /\ retry_queue = [i \in Stores |-> <<>>]
  /\ in_error = [i \in Stores |-> FALSE]
  /\ pc = "select"
  /\ cur = 1
  /\ msg_arr = {}
  /\ iterations_done = 0
  /\ received = {}
  /\ written = [i \in Stores |-> {}]
  /\ dropped = [i \in Stores |-> {}]
  /\ rejected = [i \in Stores |-> {}]
  /\ lost = [i \in Stores |-> {}]

-----------------------------------------------------------------------------
(* The world around the persister.                                         *)

\* A gatherer or the batcher, of the same process, sends a batch; it blocks while
\* the channel is full.
Produce ==
  /\ pc # "dead"
  /\ Len(storage_ch) < ChannelCapacity
  /\ \E k \in 1 .. MaxBatch :
       /\ produced + k <= MaxItems
       /\ produced' = produced + k
       /\ storage_ch' = Append(storage_ch, (produced + 1) .. (produced + k))
  /\ UNCHANGED <<health, cooled, retry_queue, in_error, control, received, history>>

\* A store fails, misbehaves or recovers.
HealthChange(i) ==
  /\ i \notin Reliable
  /\ \E h \in Healths : h # health[i] /\ health' = [health EXCEPT ![i] = h]
  /\ UNCHANGED <<storage_ch, produced, cooled, retry_queue, in_error, control,
                 received, history>>

\* Ten seconds pass after last_try[i].
TenSecondsPass(i) ==
  /\ ~cooled[i]
  /\ cooled' = [cooled EXCEPT ![i] = TRUE]
  /\ UNCHANGED <<storage_ch, produced, health, retry_queue, in_error, control,
                 received, history>>

-----------------------------------------------------------------------------
(* Sending.  A result says which error the call returned and which data    *)
(* really reached the store.                                               *)

\* Errors on which Influx data is given up: the store will never take it.
Refusals == {"parse", "partial"}

Errors == {"nil", "outage"} \cup Refusals

Results(b) == [err : Errors, put : SUBSET b]

\* The datum sent last: its error is the one the Graphite loop ends with.
Last(b) == CHOOSE x \in b : \A y \in b : y <= x

\* What may come of sending batch b while the store misbehaves, per store.

\* Part of the batch cannot be parsed or exceeds max-values-per-tag, or the
\* answer is lost: whatever was stored, there is an error.
SendToInflux(b, r) == r.err # "nil"

\* Rows that cannot be converted are skipped.  A failed COPY is rolled back, but
\* stmt.Close() overwrites its error, often with nil.
SendToPostgres(b, r) == r.err \in {"nil", "outage"} /\ (r.err = "outage" => r.put = {})

\* Some data fail; each iteration over the batch overwrites err.
SendToGraphite(b, r) == r.err = (IF Last(b) \in r.put THEN "nil" ELSE "outage")

\* The file is written up to the failing row.
WriteMetricsToJsonFile(b, r) == r.err = "outage" /\ r.put # b

Misbehaves(b, r) ==
  \/ Datastore = "influx" /\ SendToInflux(b, r)
  \/ Datastore = "postgres" /\ SendToPostgres(b, r)
  \/ Datastore = "graphite" /\ SendToGraphite(b, r)
  \/ Datastore = "json" /\ WriteMetricsToJsonFile(b, r)

SendResults(i, b) ==
  {r \in Results(b) :
     \/ health[i] = "up" /\ r.err = "nil" /\ r.put = b
     \/ health[i] = "down" /\ r.err = "outage" /\ r.put = {}
     \/ health[i] = "flaky" /\ Misbehaves(b, r)}

\* Batch b leaves the program: whatever of it was not put is rejected or lost.
Settle(i, b, r) ==
  /\ written'  = [written EXCEPT ![i] = @ \cup r.put]
  /\ rejected' = [rejected EXCEPT ![i] = IF r.err \in Refusals
                                         THEN @ \cup (b \ r.put) ELSE @]
  /\ lost'     = [lost EXCEPT ![i] = IF r.err \in Refusals
                                     THEN @ ELSE @ \cup (b \ r.put)]

\* Batch b stays in the program; part of it may have been put all the same.
Keep(i, r) ==
  /\ written' = [written EXCEPT ![i] = @ \cup r.put]
  /\ UNCHANGED <<rejected, lost>>

\* A mutant of NextStore: the loop runs one store too far.
NextStoreTooFar ==
  /\ iterations_done' = 0
  /\ IF cur <= InfluxHostCount
     THEN cur' = cur + 1 /\ UNCHANGED <<pc, msg_arr>>
     ELSE cur' = 1 /\ pc' = "select" /\ msg_arr' = {}

\* A mutant of NextStore: an error at one store ends the loop.
NextStoreGivesUp ==
  /\ iterations_done' = 0
  /\ IF cur < InfluxHostCount /\ health[cur] = "up"
     THEN cur' = cur + 1 /\ UNCHANGED <<pc, msg_arr>>
     ELSE cur' = 1 /\ pc' = "select" /\ msg_arr' = {}

\* End of one iteration of the loop over the stores.
NextStore ==
  /\ iterations_done' = 0
  /\ IF cur < InfluxHostCount
     THEN cur' = cur + 1 /\ UNCHANGED <<pc, msg_arr>>
     ELSE cur' = 1 /\ pc' = "select" /\ msg_arr' = {}

-----------------------------------------------------------------------------
(* The select's channel case.                                              *)

Receive ==
  /\ pc = "select"
  /\ storage_ch # <<>>
  /\ msg_arr' = Head(storage_ch)
  /\ storage_ch' = Tail(storage_ch)
  /\ received' = received \cup Head(storage_ch)
  /\ pc' = "deliver"
  /\ UNCHANGED <<produced, health, cooled, retry_queue, in_error, cur,
                 iterations_done, history>>

\* Mutants of the two operators below and of MustQueue.
FullOffByOne(i) == Len(retry_queue[i]) > PERSIST_QUEUE_MAX_SIZE
BacklogByErrorFlag(i) == in_error[i]
NeverQueue(r) == FALSE

Full(i) == Len(retry_queue[i]) = PERSIST_QUEUE_MAX_SIZE

Backlog(i) == retry_queue[i] # <<>>

\* A mutant of Pushed: a full queue drops its oldest batch and the new one.
PushedUnlessFull(q, b, full) == IF full THEN Tail(q) ELSE Append(q, b)

\* Queue q once batch b is behind it; a full queue drops its oldest batch.
Pushed(q, b, full) == Append(IF full THEN Tail(q) ELSE q, b)

\* The store has a backlog: queue behind it.
QueueBehindBacklog ==
  /\ pc = "deliver"
  /\ Backlog(cur)
  /\ retry_queue' = [retry_queue EXCEPT ![cur] = Pushed(@, msg_arr, Full(cur))]
  /\ dropped' = [dropped EXCEPT ![cur] =
                   IF Full(cur) THEN @ \cup Head(retry_queue[cur]) ELSE @]
  /\ NextStore
  /\ UNCHANGED <<storage_ch, produced, health, cooled, in_error, received,
                 written, rejected, lost>>

\* A mutant of MustQueue: the error is not looked at.
AlwaysQueue(r) == Datastore # "influx"

\* An error puts the batch on the retry queue, unless the store is Influx.
MustQueue(r) == r.err # "nil" /\ Datastore # "influx"

\* The store has no backlog: send at once.
SendDirectly ==
  /\ pc = "deliver"
  /\ ~Backlog(cur)
  /\ cooled' = [cooled EXCEPT ![cur] = FALSE]
  /\ \E r \in SendResults(cur, msg_arr) :
       \/ /\ MustQueue(r)
          /\ in_error' = [in_error EXCEPT ![cur] = TRUE]
          /\ retry_queue' = [retry_queue EXCEPT ![cur] = Append(@, msg_arr)]
          /\ Keep(cur, r)
       \/ /\ ~MustQueue(r)
          /\ Settle(cur, msg_arr, r)
          /\ UNCHANGED <<in_error, retry_queue>>
  /\ NextStore
  /\ UNCHANGED <<storage_ch, produced, health, received, dropped>>

-----------------------------------------------------------------------------
(* The select's default case.                                              *)

BeginRetryPass ==
  /\ pc = "select"
  /\ storage_ch = <<>>
  /\ pc' = "retry"
  /\ UNCHANGED <<env, retry_queue, in_error, cur, msg_arr, iterations_done,
                 received, history>>

\* A mutant of MayRetry: only a store in error is retried.
MayRetryOnlyInError(i) == Backlog(i) /\ in_error[i] /\ cooled[i]

MayRetry(i) == Backlog(i) /\ (~in_error[i] \/ cooled[i])

SkipStore ==
  /\ pc = "retry"
  /\ iterations_done = 0
  /\ ~MayRetry(cur)
  /\ NextStore
  /\ UNCHANGED <<env, retry_queue, in_error, received, history>>

\* ProcessRetryQueue returned; failed says whether with an error.
LeaveRetryQueue(failed) ==
  /\ in_error' = [in_error EXCEPT ![cur] = failed]
  /\ cooled' = [cooled EXCEPT ![cur] = FALSE]
  /\ NextStore

\* The error makes ProcessRetryQueue return and leave the batch where it is.
StopsRetry(r) == r.err \notin ({"nil"} \cup Refusals)

\* A failed datum makes ProcessRetryQueue reconnect to Graphite, where
\* log.Fatal awaits if the server is gone.
Reconnects(b, r) == Datastore = "graphite" /\ r.put # b

\* ProcessRetryQueue does not die of result r; a JSON store it does not know.
MaySurvive(i, b, r) ==
  /\ Datastore # "json"
  /\ Reconnects(b, r) => health[i] # "down"

Retrying == pc = "retry" /\ (iterations_done > 0 \/ MayRetry(cur))

\* Resend the oldest batch; it goes through, or is refused for good.
RetrySucceeds ==
  /\ Retrying
  /\ LET b == Head(retry_queue[cur]) IN
       \E r \in SendResults(cur, b) :
         /\ MaySurvive(cur, b, r)
         /\ ~StopsRetry(r)
         /\ Settle(cur, b, r)
  /\ retry_queue' = [retry_queue EXCEPT ![cur] = Tail(@)]
  /\ IF Tail(retry_queue[cur]) = <<>> \/ iterations_done + 1 = RetryLimit
     THEN LeaveRetryQueue(FALSE)
     ELSE /\ iterations_done' = iterations_done + 1
          /\ UNCHANGED <<pc, cur, msg_arr, in_error, cooled>>
  /\ UNCHANGED <<storage_ch, produced, health, received, dropped>>

\* The store is still gone: retry later.
RetryFails ==
  /\ LET b == Head(retry_queue[cur]) IN
       \E r \in SendResults(cur, b) :
         /\ MaySurvive(cur, b, r)
         /\ StopsRetry(r)
         /\ Keep(cur, r)
  /\ LeaveRetryQueue(TRUE)
  /\ UNCHANGED <<storage_ch, produced, health, retry_queue, received, dropped>>

\* The process exits, and its memory is gone: the queues and the channel.
RetryDies ==
  /\ \/ Datastore = "json" /\ UNCHANGED <<written, rejected, lost>>
     \/ /\ health[cur] # "up"
        /\ LET b == Head(retry_queue[cur]) IN
             \E r \in SendResults(cur, b) : Reconnects(b, r) /\ Keep(cur, r)
  /\ pc' = "dead"
  /\ storage_ch' = <<>>
  /\ retry_queue' = [i \in Stores |-> <<>>]
  /\ in_error' = [i \in Stores |-> FALSE]
  /\ UNCHANGED <<produced, health, cooled, cur, msg_arr, iterations_done, received, dropped>>

\* Resend the oldest batch in vain.
RetryStops == Retrying /\ (RetryFails \/ RetryDies)

Persister ==
  \/ Receive \/ QueueBehindBacklog \/ SendDirectly
  \/ BeginRetryPass \/ SkipStore \/ RetrySucceeds \/ RetryStops

Next ==
  \/ Produce
  \/ \E i \in Stores : HealthChange(i) \/ TenSecondsPass(i)
  \/ Persister

Spec == Init /\ [][Next]_vars

\* The goroutine runs and the clock advances; nothing makes a store recover.
Fairness == WF_vars(Persister) /\ \A i \in Stores : WF_vars(TenSecondsPass(i))

FairSpec == Spec /\ Fairness

-----------------------------------------------------------------------------
(* Properties.                                                             *)

Data == 1 .. MaxItems

TypeOK ==
  /\ storage_ch \in Seq(SUBSET Data)
  /\ produced \in 0 .. MaxItems
  /\ health \in [Stores -> {"up", "down", "flaky"}]
  /\ cooled \in [Stores -> BOOLEAN]
  /\ retry_queue \in [Stores -> Seq(SUBSET Data)]
  /\ in_error \in [Stores -> BOOLEAN]
  /\ pc \in {"select", "deliver", "retry", "dead"}
  /\ cur \in Stores
  /\ msg_arr \in SUBSET Data
  /\ iterations_done \in 0 .. (RetryLimit - 1)
  /\ received \in SUBSET Data
  /\ written \in [Stores -> SUBSET Data]
  /\ dropped \in [Stores -> SUBSET Data]
  /\ rejected \in [Stores -> SUBSET Data]
  /\ lost \in [Stores -> SUBSET Data]

\* A retry queue never exceeds PERSIST_QUEUE_MAX_SIZE, although the code only
\* compares for equality and only in one of the two places that push.
QueueBounded == \A i \in Stores : Len(retry_queue[i]) <= PERSIST_QUEUE_MAX_SIZE

InFlight(i) == IF pc = "deliver" /\ cur <= i THEN msg_arr ELSE {}

\* The data in a sequence of batches.
DataIn(q) == UNION {q[k] : k \in DOMAIN q}

Queued(i) == DataIn(retry_queue[i])

Gone(i) == written[i] \cup dropped[i] \cup rejected[i] \cup lost[i]

\* As long as the process lives, whatever was taken from the channel is, at every
\* store, being delivered, waiting in the retry queue or gone with a known fate: the
\* persister never forgets a batch, whichever branch it takes.  When log.Fatal ends
\* the process, what waited is in none of these places any more.
NothingVanishes ==
  pc # "dead" =>
    \A i \in Stores : received = InFlight(i) \cup Queued(i) \cup Gone(i)

\* And it is only one of these, so that nothing the persister is done with is
\* sent a second time.  This needs a store that takes a batch wholly or not at
\* all, which Graphite and the JSON file are not.
ExactlyOnePlace ==
  \A i \in Stores :
    /\ received = InFlight(i) \cup Queued(i) \cup Gone(i)
    /\ InFlight(i) \cap (Queued(i) \cup Gone(i)) = {}
    /\ Queued(i) \cap Gone(i) = {}
    /\ written[i] \cap (dropped[i] \cup rejected[i] \cup lost[i]) = {}

Before(A, B) == \A x \in A, y \in B : x < y

Ordered(q) == \A j, k \in DOMAIN q : j < k => Before(q[j], q[k])

\* A store receives, and loses, data in the order they were produced: whatever
\* is gone is older than whatever waits in the retry queue, that is older than
\* the batch being delivered, and the queue is ordered.  So new data never
\* overtake a backlog, and a full queue drops the oldest.
InOrder ==
  \A i \in Stores :
    /\ Before(Gone(i), Queued(i) \cup InFlight(i))
    /\ Before(Queued(i), InFlight(i))
    /\ Ordered(retry_queue[i])

\* An outage of the store costs nothing that there is room for: what is not written
\* waits in RAM, or fell out of the full queue (the claim of the sizing
\* recommendations, "metrics are cached in RAM in ringbuffer style").
OutageLosesNothing ==
  \A i \in Stores :
    received \subseteq InFlight(i) \cup Queued(i) \cup written[i] \cup dropped[i]

\* The trouble of one store is not the other's: a store that is always up has
\* everything that has passed it.
StoresIndependent ==
  \A i \in Reliable : received \ InFlight(i) \subseteq written[i]

\* The persister is a bounded queue for each store (Delivery): the retry queue with the
\* batch in flight behind it.  A batch is taken up for all stores, leaves a store's queue
\* in its turn and once, and unsent only if the queue is full.
Pending(i) ==
  retry_queue[i] \o (IF pc = "deliver" /\ cur <= i THEN <<msg_arr>> ELSE <<>>)

Deliveries == INSTANCE Delivery WITH
  Memory <- PERSIST_QUEUE_MAX_SIZE,
  WholeBatches <- Datastore \in {"influx", "postgres"},
  accepted <- received,
  pending <- [i \in Stores |-> Pending(i)],
  refused <- [i \in Stores |-> rejected[i] \cup lost[i]]

ImplementsDelivery == Deliveries!Spec

\* A backlog never comes to a standstill: if the store stays up, and the select finds
\* the channel empty again and again, the oldest batch is sent again and again, until
\* there is no backlog.  Batches may be queued behind it all the time, and the store
\* that ended a call of ProcessRetryQueue at its limit is not in error.
BacklogDrains ==
  \A i \in Stores :
    <>[](health[i] = "up") /\ []<>(pc = "retry") =>
      []<>(retry_queue[i] = <<>>) \/ []<><<RetrySucceeds /\ cur = i>>_vars
=============================================================================
